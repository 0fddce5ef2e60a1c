-------------------------- MODULE MembershipCache ---------------------------
(***************************************************************************)
(* The cached chat repository (storage/cached/chat.go), the part about     *)
(* membership: one row of chat_members and the two cache keys derived from *)
(* it, ismember:<chat>:<user> and chatmember:<chat>:<user>.  Keys of other *)
(* rows are never touched by these operations, so one row is enough.       *)
(*                                                                         *)
(* A process is a request goroutine inside one repository call; each step  *)
(* is one SQL statement or one cache command.  The cache is external       *)
(* (Redis, or the in-process map of cache/mock); its errors are ignored by *)
(* the code, so a command may be lost.                                     *)
(***************************************************************************)
EXTENDS Naturals

CONSTANTS
    Procs,       \* request goroutines
    MaxWrites,   \* bound on the SQL writes
    MaxLost      \* bound on the cache commands that fail

ASSUME MaxWritesAssumption == MaxWrites \in Nat
ASSUME MaxLostAssumption == MaxLost \in Nat

VARIABLES
    created,   \* the chat exists
    row,       \* the role in chat_members, "none" without a row
    entry,     \* what the cache holds for each key, or "empty"
    pc,        \* the statement or command each goroutine runs next
    val,       \* the role each goroutine has read or written
    writes,    \* SQL writes so far
    lost,      \* failed cache commands so far
    suspect    \* history: the entry was outdated when it was set, or a
               \* command that should have replaced it was lost

vars == <<created, row, entry, pc, val, writes, lost, suspect>>

Role      == {"owner", "admin", "member"}
RoleOrNil == Role \cup {"none"}
Keys      == {"ismember", "chatmember"}

\* The value a key should have for a role: IsMember caches "1" and "0",
\* GetMember caches the row and nothing when there is none.
Encode(k, role) ==
    IF k = "ismember" THEN (IF role = "none" THEN "0" ELSE "1")
    ELSE (IF role = "none" THEN "empty" ELSE role)

Labels == {"idle", "fillIs", "fillMember",
           "setIs", "setMember", "delIs", "delMember"}

TypeOK ==
    /\ created \in BOOLEAN
    /\ row \in RoleOrNil
    /\ entry \in [Keys -> Role \cup {"0", "1", "empty"}]
    /\ pc \in [Procs -> Labels]
    /\ val \in [Procs -> RoleOrNil]
    /\ writes \in Nat /\ lost \in Nat
    /\ suspect \in [Keys -> BOOLEAN]

Init ==
    /\ created = FALSE
    /\ row = "none"
    /\ entry = [k \in Keys |-> "empty"]
    /\ pc = [p \in Procs |-> "idle"]
    /\ val = [p \in Procs |-> "none"]
    /\ writes = 0 /\ lost = 0
    /\ suspect = [k \in Keys |-> FALSE]

Goto(p, label, role) ==
    /\ pc' = [pc EXCEPT ![p] = label]
    /\ val' = [val EXCEPT ![p] = IF label = "idle" THEN "none" ELSE role]

-----------------------------------------------------------------------------
(* Cache commands. *)

\* cache.Set
Put(k, role) ==
    /\ entry' = [entry EXCEPT ![k] = Encode(k, role)]
    /\ suspect' = [suspect EXCEPT ![k] = Encode(k, role) # Encode(k, row)]
    /\ UNCHANGED lost

\* cache.Del
Drop(k) ==
    /\ entry' = [entry EXCEPT ![k] = "empty"]
    /\ suspect' = [suspect EXCEPT ![k] = FALSE]
    /\ UNCHANGED lost

\* A Set or Del that fails: logged or ignored, and the call goes on.
Lose ==
    /\ lost < MaxLost
    /\ lost' = lost + 1
    /\ UNCHANGED entry

\* Losing the Set of a read leaves the entry as it was; losing the command
\* that follows a write may leave a value the write has outdated.
LoseFill == Lose /\ UNCHANGED suspect
LoseWrite(k) == Lose /\ suspect' = [suspect EXCEPT ![k] = entry[k] # "empty"]

\* Faulty variant: ismember entries are set without a TTL.
ExpireMemberOnly(k) ==
    /\ k = "chatmember" /\ entry[k] # "empty"
    /\ Drop(k)
    /\ UNCHANGED <<created, row, pc, val, writes>>

\* The TTL of an entry runs out.
Expire(k) ==
    /\ entry[k] # "empty"
    /\ Drop(k)
    /\ UNCHANGED <<created, row, pc, val, writes>>

NoCache == UNCHANGED <<entry, suspect, lost>>

-----------------------------------------------------------------------------
(* Reads.  A hit returns the entry and changes nothing.  After a miss, or a *)
(* Get that failed, the row is read and then cached.                        *)

IsMember(p) ==
    /\ created /\ pc[p] = "idle"
    /\ Goto(p, "fillIs", row)
    /\ NoCache /\ UNCHANGED <<created, row, writes>>

IsMemberFill(p) ==
    /\ pc[p] = "fillIs"
    /\ Put("ismember", val[p]) \/ LoseFill
    /\ Goto(p, "idle", "none")
    /\ UNCHANGED <<created, row, writes>>

\* A missing row is an error and is not cached.
GetMember(p) ==
    /\ created /\ pc[p] = "idle"
    /\ row # "none"
    /\ Goto(p, "fillMember", row)
    /\ NoCache /\ UNCHANGED <<created, row, writes>>

GetMemberFill(p) ==
    /\ pc[p] = "fillMember"
    /\ Put("chatmember", val[p]) \/ LoseFill
    /\ Goto(p, "idle", "none")
    /\ UNCHANGED <<created, row, writes>>

-----------------------------------------------------------------------------
(* Writes: the SQL statement first, then the cache. *)

Write(p, role, label) ==
    /\ pc[p] = "idle" /\ writes < MaxWrites
    /\ writes' = writes + 1
    /\ row' = role
    /\ Goto(p, label, role)
    /\ NoCache

\* The chat is created with the row or without it; rows are seeded.
CreateWithMembers(p) ==
    /\ ~created /\ created' = TRUE
    /\ \/ \E role \in {"owner", "member"} : Write(p, role, "setIs")
       \/ Write(p, "none", "idle")

AddMember(p) ==
    /\ created /\ row = "none"
    /\ Write(p, "member", "setIs")
    /\ UNCHANGED created

\* The Sets that follow CreateWithMembers and AddMember.
SetIsMember(p) ==
    /\ pc[p] = "setIs"
    /\ Put("ismember", val[p]) \/ LoseWrite("ismember")
    /\ Goto(p, "setMember", val[p])
    /\ UNCHANGED <<created, row, writes>>

SetMember(p) ==
    /\ pc[p] = "setMember"
    /\ Put("chatmember", val[p]) \/ LoseWrite("chatmember")
    /\ Goto(p, "idle", "none")
    /\ UNCHANGED <<created, row, writes>>

RemoveMember(p) ==
    /\ created /\ row # "none"
    /\ Write(p, "none", "delIs")
    /\ UNCHANGED created

\* Delete of the chat keeps the row; the keys of every listed member go.
Delete(p) ==
    /\ created /\ row # "none"
    /\ Write(p, row, "delIs")
    /\ UNCHANGED created

\* Faulty variant: the cached role is not deleted.
UpdateRoleUncached(p) ==
    /\ created /\ row # "none"
    /\ \E role \in Role : Write(p, role, "idle")
    /\ UNCHANGED created

UpdateMemberRole(p) ==
    /\ created /\ row # "none"
    /\ \E role \in Role : Write(p, role, "delMember")
    /\ UNCHANGED created

\* The Dels that follow RemoveMember, Delete and UpdateMemberRole.
DelIsMember(p) ==
    /\ pc[p] = "delIs"
    /\ Drop("ismember") \/ LoseWrite("ismember")
    /\ Goto(p, "delMember", val[p])
    /\ UNCHANGED <<created, row, writes>>

DelMember(p) ==
    /\ pc[p] = "delMember"
    /\ Drop("chatmember") \/ LoseWrite("chatmember")
    /\ Goto(p, "idle", "none")
    /\ UNCHANGED <<created, row, writes>>

-----------------------------------------------------------------------------
Finish(p) ==
    \/ IsMemberFill(p) \/ GetMemberFill(p)
    \/ SetIsMember(p) \/ SetMember(p)
    \/ DelIsMember(p) \/ DelMember(p)

Call(p) ==
    \/ IsMember(p) \/ GetMember(p)
    \/ CreateWithMembers(p) \/ AddMember(p)
    \/ RemoveMember(p) \/ Delete(p) \/ UpdateMemberRole(p)

Next ==
    \/ \E p \in Procs : Call(p) \/ Finish(p)
    \/ \E k \in Keys : Expire(k)

Spec == Init /\ [][Next]_vars

-----------------------------------------------------------------------------
Stale(k) == entry[k] \notin {"empty", Encode(k, row)}

\* p still has to set or delete key k because of a write it has made.
Pending(p, k) ==
    \/ k = "ismember" /\ pc[p] \in {"setIs", "delIs"}
    \/ k = "chatmember" /\ pc[p] \in {"setIs", "setMember", "delIs", "delMember"}

\* Every write takes care of every key derived from the row: an entry that
\* contradicts the row is about to be replaced by the writer, or it was put
\* there by a call that overlapped a write, or a cache command failed.  No
\* other way to a stale entry exists (cached/chat.go:141-202).
StaleHasCause == \A k \in Keys : Stale(k) =>
    suspect[k] \/ \E p \in Procs : Pending(p, k)

=============================================================================
