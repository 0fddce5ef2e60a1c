----------------------------- MODULE CachedRow ------------------------------
(***************************************************************************)
(* One chats row or one users row, its cache entry (storage/cached/chat.go *)
(* and cached/user.go) and the use cases that read it, patch it and write  *)
(* it back: chat.UpdateGroup, user.UpdateProfile, SetOnline/SetOffline and *)
(* the deletion of a group.                                                *)
(*                                                                         *)
(* The two repositories differ in the order of Update: chatRepo deletes    *)
(* the entry and then writes, userRepo writes and then deletes it.  A      *)
(* process is a request goroutine and each step is one SQL statement or    *)
(* cache command.                                                          *)
(***************************************************************************)
EXTENDS Naturals

CONSTANTS
    Fields,      \* the columns a patch may name
    Values,      \* what they may hold
    Procs,       \* request goroutines
    Empty,       \* no cache entry
    MaxWrites,   \* bound on the SQL writes
    MaxLost      \* bound on the cache commands that fail

ASSUME FieldsAssumption == "status" \notin Fields
ASSUME BoundsAssumption == MaxWrites \in Nat /\ MaxLost \in Nat

VARIABLES
    repo,     \* which repository the row is behind, "chat" or "user"
    row,      \* the columns in the database
    gone,     \* deleted_at IS NOT NULL
    entry,    \* the cached copy, or Empty
    pc,       \* the statement or command each goroutine runs next
    snap,     \* the copy of the row each goroutine works on, or Empty
    patch,    \* the fields its request sets and their value
    writes,   \* SQL writes so far
    lost,     \* failed cache commands so far
    overlapped   \* history: two requests have been in progress at once

vars == <<repo, row, gone, entry, pc, snap, patch, writes, lost, overlapped>>

\* UpdateStatus writes a column of its own that no patch names.
Columns == Fields \cup {"status"}
Row     == [Columns -> Values]
NoPatch == [fields |-> {}, value |-> Empty]
Patch   == [fields : SUBSET Fields, value : Values]

Labels == {"idle", "fill", "patchFill", "patch", "chatDel", "chatWrite",
           "userWrite", "invalidate"}

TypeOK ==
    /\ repo \in {"chat", "user"} /\ overlapped \in BOOLEAN
    /\ row \in Row /\ gone \in BOOLEAN
    /\ entry \in Row \cup {Empty}
    /\ pc \in [Procs -> Labels]
    /\ snap \in [Procs -> Row \cup {Empty}]
    /\ patch \in [Procs -> Patch \cup {NoPatch}]
    /\ writes \in Nat /\ lost \in Nat

Init ==
    /\ repo \in {"chat", "user"} /\ overlapped = FALSE
    /\ \E v \in Values : row = [f \in Columns |-> v]
    /\ gone = FALSE
    /\ entry = Empty
    /\ pc = [p \in Procs |-> "idle"]
    /\ snap = [p \in Procs |-> Empty]
    /\ patch = [p \in Procs |-> NoPatch]
    /\ writes = 0 /\ lost = 0

Goto(p, label, copy, change) ==
    /\ pc' = [pc EXCEPT ![p] = label]
    /\ snap' = [snap EXCEPT ![p] = copy]
    /\ patch' = [patch EXCEPT ![p] = change]
    /\ overlapped' = (overlapped \/ \E q \in Procs \ {p} : pc[q] # "idle")
    /\ UNCHANGED repo

Return(p) == Goto(p, "idle", Empty, NoPatch)

Database == <<row, gone, writes>>
Cache    == <<entry, lost>>

-----------------------------------------------------------------------------
(* Cache commands; a failed one is ignored. *)

Put(copy) == entry' = copy /\ UNCHANGED lost
Del       == entry' = Empty /\ UNCHANGED lost
Lose      == lost < MaxLost /\ lost' = lost + 1 /\ UNCHANGED entry

\* Faulty variant: Set without a TTL.
NeverExpire == FALSE /\ UNCHANGED vars

\* The TTL runs out.
Expire ==
    /\ entry # Empty
    /\ Del
    /\ UNCHANGED <<repo, Database, pc, snap, patch, overlapped>>

-----------------------------------------------------------------------------
(* GetByID.  A hit changes nothing; after a miss, or a Get that failed, the *)
(* row is read and then cached.                                             *)

Read(p) ==
    /\ pc[p] = "idle" /\ ~gone
    /\ Goto(p, "fill", row, NoPatch)
    /\ UNCHANGED <<Database, Cache>>

Fill(p) ==
    /\ pc[p] = "fill"
    /\ Put(snap[p]) \/ Lose
    /\ Return(p)
    /\ UNCHANGED Database

-----------------------------------------------------------------------------
(* UpdateGroup and UpdateProfile: GetByID, then the checks and the patch,   *)
(* then Update with the whole copy.                                         *)

PatchHit(p, change) ==
    /\ pc[p] = "idle" /\ entry # Empty
    /\ Goto(p, "patch", entry, change)
    /\ UNCHANGED <<Database, Cache>>

PatchMiss(p, change) ==
    /\ pc[p] = "idle" /\ ~gone
    /\ Goto(p, "patchFill", row, change)
    /\ UNCHANGED <<Database, Cache>>

PatchFill(p) ==
    /\ pc[p] = "patchFill"
    /\ Put(snap[p]) \/ Lose
    /\ Goto(p, "patch", snap[p], patch[p])
    /\ UNCHANGED Database

Patched(copy, change) ==
    [f \in Columns |-> IF f \in change.fields THEN change.value ELSE copy[f]]

\* Faulty variant: fields that are not named are blanked.
ApplyBlank(p) ==
    /\ pc[p] = "patch"
    /\ Goto(p, IF repo = "chat" THEN "chatDel" ELSE "userWrite",
            [f \in Columns |-> patch[p].value], patch[p])
    /\ UNCHANGED <<Database, Cache>>

\* A nil pointer in the input leaves the field of the copy as it is.
ApplyPatch(p) ==
    /\ pc[p] = "patch"
    /\ Goto(p, IF repo = "chat" THEN "chatDel" ELSE "userWrite",
            Patched(snap[p], patch[p]), patch[p])
    /\ UNCHANGED <<Database, Cache>>

\* The caller may not manage the group, or the username is taken.
Refuse(p) ==
    /\ pc[p] = "patch"
    /\ Return(p)
    /\ UNCHANGED <<Database, Cache>>

\* UPDATE ... WHERE deleted_at IS NULL of every patchable column.
UpdateRow(p) ==
    /\ writes < MaxWrites
    /\ row' = IF gone THEN row
              ELSE [f \in Columns |-> IF f \in Fields THEN snap[p][f] ELSE row[f]]
    /\ writes' = writes + 1
    /\ UNCHANGED <<gone, entry, lost>>

\* Faulty variant: no invalidation.
ChatNoDel(p) ==
    /\ pc[p] = "chatDel"
    /\ Goto(p, "chatWrite", snap[p], patch[p])
    /\ UNCHANGED <<Database, Cache>>

\* chatRepo.Update: Del, then the UPDATE.
ChatDel(p) ==
    /\ pc[p] = "chatDel"
    /\ Del \/ Lose
    /\ Goto(p, "chatWrite", snap[p], patch[p])
    /\ UNCHANGED Database

ChatWrite(p) ==
    /\ pc[p] = "chatWrite"
    /\ UpdateRow(p)
    /\ Return(p)

\* userRepo.Update: the UPDATE, then Del; no Del if no row matched.
UserWrite(p) ==
    /\ pc[p] = "userWrite"
    /\ UpdateRow(p)
    /\ IF gone THEN Return(p) ELSE Goto(p, "invalidate", Empty, NoPatch)

-----------------------------------------------------------------------------
\* userRepo.UpdateStatus, called by SetOnline and SetOffline.
UpdateStatus(p) ==
    /\ repo = "user"
    /\ pc[p] = "idle" /\ writes < MaxWrites
    /\ \E v \in Values : row' = IF gone THEN row ELSE [row EXCEPT !["status"] = v]
    /\ writes' = writes + 1
    /\ Goto(p, "invalidate", Empty, NoPatch)
    /\ UNCHANGED <<gone, Cache>>

\* Delete of the chat (LeaveChat) or of the user: the soft delete, then Del.
Delete(p) ==
    /\ pc[p] = "idle" /\ writes < MaxWrites
    /\ gone' = TRUE
    /\ writes' = writes + 1
    /\ Goto(p, "invalidate", Empty, NoPatch)
    /\ UNCHANGED <<row, Cache>>

Invalidate(p) ==
    /\ pc[p] = "invalidate"
    /\ Del \/ Lose
    /\ Return(p)
    /\ UNCHANGED Database

-----------------------------------------------------------------------------
Call(p) ==
    \/ Read(p)
    \/ \E change \in Patch : PatchHit(p, change) \/ PatchMiss(p, change)
    \/ UpdateStatus(p) \/ Delete(p)

Go(p) ==
    \/ Fill(p) \/ PatchFill(p) \/ ApplyPatch(p) \/ Refuse(p)
    \/ ChatDel(p) \/ ChatWrite(p) \/ UserWrite(p) \/ Invalidate(p)

Next == Expire \/ \E p \in Procs : Call(p) \/ Go(p)

\* A goroutine goes on with its request and a TTL runs out.
Spec == Init /\ [][Next]_vars /\ WF_vars(Expire) /\ \A p \in Procs : WF_vars(Go(p))

-----------------------------------------------------------------------------
Stale == entry # Empty /\ (gone \/ entry # row)

Calm == \A p \in Procs : pc[p] = "idle"

\* Between calls the entry never contradicts the row, unless two requests
\* have overlapped or a cache command was lost: every write takes care of the
\* key, whichever order Update has ("write-invalidate, no dirty cache",
\* cached/user.go:25, cached/chat.go:155-160).
SerialCoherent == Calm /\ ~overlapped /\ lost = 0 => ~Stale

\* The write of request p changes the fields the request names, to the value
\* it gives, and no other column.
WritesExactly(p) ==
    pc[p] \in {"chatWrite", "userWrite"} /\ pc'[p] # pc[p] =>
        row' = IF gone THEN row ELSE Patched(row, patch[p])

\* A patch that no other request overlaps is exact, although it writes back a
\* whole copy that may come from the cache (chat.go:147-174, user.go:145-169).
SerialPatchExact ==
    [][~overlapped /\ lost = 0 => \A p \in Procs : WritesExactly(p)]_vars

\* "omit to leave unchanged" (docs/openapi.yaml:552, 832): every patch is
\* exact, also of two requests at once.
PatchExact == [][\A p \in Procs : WritesExactly(p)]_vars

\* Once writing stops, the entry agrees with the row for good after a while,
\* whatever races and lost commands came before.
EventuallyCoherent == <>[]~Stale

=============================================================================
