---------------------------- MODULE ChatService ----------------------------
(***************************************************************************)
(* The chat use case (internal/usecase/chat/chat.go) over the SQL chat     *)
(* repository (internal/infrastructure/storage/postgres/chat.go, and       *)
(* mysql/chat.go, which differs in what an UPDATE counts).                 *)
(*                                                                         *)
(* Every HTTP request runs in a goroutine of its own and reads and writes  *)
(* the database one statement at a time, with no transaction around the    *)
(* use case and no lock.  A process p in Procs is such a goroutine, and    *)
(* each action is one statement together with the Go code up to the next   *)
(* one.  A request that returns without writing leaves no trace: its       *)
(* process is idle again.                                                  *)
(***************************************************************************)
EXTENDS Naturals, FiniteSets

CONSTANTS
    Driver,       \* "postgres" or "mysql": the repository that storage.New opens
    Users,        \* user ids that requests name
    Registered,   \* those that have a row in the users table
    Chats,        \* chat ids (uuid.New gives a fresh one to each new chat)
    Procs,        \* request goroutines
    NoRequest,    \* what an idle goroutine holds
    MaxFailures   \* bound on the requests that end in a database error

ASSUME DriverAssumption == Driver \in {"postgres", "mysql"}
ASSUME RegisteredAssumption == Registered \subseteq Users
ASSUME MaxFailuresAssumption == MaxFailures \in Nat

VARIABLES
    kind,      \* chats.type of each chat id, "absent" before its INSERT
    deleted,   \* chats.deleted_at IS NOT NULL
    members,   \* chat_members: the role of each user, "none" without a row
    pc,        \* the statement each goroutine runs next
    req,       \* the request it serves
    failures   \* how many requests have ended in a database error

store == <<kind, deleted, members>>
vars  == <<kind, deleted, members, pc, req, failures>>

Role      == {"owner", "admin", "member"}
RoleOrNil == Role \cup {"none"}

\* What a client may put in the role field of a request.
RoleInput == Role \cup {"guest"}

\* Faulty variant: every member may manage members.
AnyoneManages(role) == role # "none"

\* MemberRole.CanManageMembers
CanManageMembers(role) == role \in {"owner", "admin"}

Labels == {"idle", "directCreate",
           "addCaller", "addProbe", "addInsert",
           "removeCaller", "removeTarget", "removeDelete",
           "roleTarget", "roleWrite",
           "leaveCaller", "leaveMembers", "leaveDrop", "leavePromote", "leaveRemove"}

\* A request: the chat and caller it names, the member it is about (for
\* LeaveChat the successor, once chosen), the role it asks for, and the role
\* it has read and will use in a later step.
Request == [chat : Chats, caller : Users, target : Users,
            role : RoleOrNil, read : RoleOrNil]

ASSUME NoRequestAssumption == NoRequest \notin Request

TypeOK ==
    /\ kind \in [Chats -> {"absent", "direct", "group"}]
    /\ deleted \in [Chats -> BOOLEAN]
    /\ members \in [Chats -> [Users -> RoleOrNil]]
    /\ pc \in [Procs -> Labels]
    /\ req \in [Procs -> Request \cup {NoRequest}]
    /\ \A p \in Procs : pc[p] # "idle" => req[p] \in Request
    /\ failures \in Nat

Init ==
    /\ kind = [c \in Chats |-> "absent"]
    /\ deleted = [c \in Chats |-> FALSE]
    /\ members = [c \in Chats |-> [u \in Users |-> "none"]]
    /\ pc = [p \in Procs |-> "idle"]
    /\ req = [p \in Procs |-> NoRequest]
    /\ failures = 0

-----------------------------------------------------------------------------
(* The repository: one operator per SQL statement. *)

\* Faulty variant: the IsDirect check is forgotten.
IsLiveChat(c) == kind[c] # "absent" /\ ~deleted[c]

\* ChatRepository.GetByID finds the row (and the use case goes on only if
\* the chat is not direct).
IsLiveGroup(c) == kind[c] = "group" /\ ~deleted[c]

\* ChatRepository.GetDirectChat.
DirectChatOf(a, b) ==
    {c \in Chats : /\ kind[c] = "direct" /\ ~deleted[c]
                   /\ members[c][a] # "none" /\ members[c][b] # "none"}

\* ChatRepository.IsMember: a membership row, whether or not the chat lives.
IsMember(c, u) == members[c][u] # "none"

\* ChatRepository.CreateWithMembers: one transaction.
CreateWithMembers(c, type, roles) ==
    /\ kind' = [kind EXCEPT ![c] = type]
    /\ members' = [members EXCEPT ![c] = roles]
    /\ UNCHANGED deleted

\* ChatRepository.Delete: a soft delete; the chat_members rows stay.
DeleteChat(c) ==
    /\ deleted' = [deleted EXCEPT ![c] = TRUE]
    /\ UNCHANGED <<kind, members>>

\* ChatRepository.AddMember: INSERT ... ON CONFLICT DO NOTHING.
InsertRow(c, u, role) ==
    /\ members' = IF IsMember(c, u) THEN members
                                    ELSE [members EXCEPT ![c][u] = role]
    /\ UNCHANGED <<kind, deleted>>

\* ChatRepository.RemoveMember: DELETE, of nothing if the row is gone.
DeleteRow(c, u) ==
    /\ members' = [members EXCEPT ![c][u] = "none"]
    /\ UNCHANGED <<kind, deleted>>

\* ChatRepository.UpdateMemberRole: UPDATE of the row, whatever its role is
\* by now.
RoleRowExists(c, u) == members[c][u] # "none"
WriteRole(c, u, role) ==
    /\ members' = IF RoleRowExists(c, u) THEN [members EXCEPT ![c][u] = role]
                                         ELSE members
    /\ UNCHANGED <<kind, deleted>>

\* Faulty variant: under every driver only a row that changes counts.
RoleRowChanges(c, u, role) == members[c][u] \notin {"none", role}

\* That UPDATE's RowsAffected is not 0; else the error is ErrNotChatMember.
\* Postgres counts the rows it finds.  MySQL counts the rows it changes: the
\* DSN (mysql/config.go) does not set clientFoundRows.
RoleRowAffected(c, u, role) ==
    /\ RoleRowExists(c, u)
    /\ Driver = "mysql" => members[c][u] # role

\* The members nextOwner may pick for a leaving caller: an admin if there is
\* one, else anybody else.  Which of them is first in the list depends on
\* joined_at (module NextOwner); here each is possible.
Successors(c, caller) ==
    LET others == {u \in Users \ {caller} : IsMember(c, u)}
        admins == {u \in others : members[c][u] = "admin"}
    IN  IF admins # {} THEN admins ELSE others

-----------------------------------------------------------------------------
(* Control of a request. *)

Begin(p, label, c, caller, target, role) ==
    /\ pc[p] = "idle"
    /\ pc' = [pc EXCEPT ![p] = label]
    /\ req' = [req EXCEPT ![p] = [chat |-> c, caller |-> caller, target |-> target,
                                  role |-> role, read |-> "none"]]
    /\ UNCHANGED failures

\* uuid.New: an id no chat has and no other request has drawn.
FreshIds == {c \in Chats : /\ kind[c] = "absent"
                           /\ \A p \in Procs : pc[p] = "directCreate" => req[p].chat # c}

Goto(p, label) ==
    /\ pc' = [pc EXCEPT ![p] = label]
    /\ UNCHANGED failures

Return(p) ==
    /\ pc' = [pc EXCEPT ![p] = "idle"]
    /\ req' = [req EXCEPT ![p] = NoRequest]
    /\ UNCHANGED failures

\* A read: go on to label if the condition holds, else return its error.
Check(p, ok, label) ==
    /\ \/ ok /\ Goto(p, label) /\ UNCHANGED req
       \/ ~ok /\ Return(p)
    /\ UNCHANGED store

-----------------------------------------------------------------------------
(* CreateGroup and CreateDirect. *)

\* CreateGroup reads only the users table before its one transaction.  The
\* caller is the owner; a duplicate or the caller among the ids is skipped.
CreateGroup(caller, ids) ==
    /\ ids \ {caller} \subseteq Registered
    /\ \E c \in FreshIds : CreateWithMembers(c, "group",
            [u \in Users |-> IF u = caller THEN "owner"
                             ELSE IF u \in ids THEN "member" ELSE "none"])
    /\ UNCHANGED <<pc, req, failures>>

\* Faulty variant: GetDirectChat is forgotten.
DirectLookupBlind(p, caller, target) ==
    /\ target # caller /\ target \in Registered
    /\ \E c \in FreshIds : Begin(p, "directCreate", c, caller, target, "none")
    /\ UNCHANGED store

\* CreateDirect, up to GetDirectChat and the new id: a chat that exists is
\* returned.
DirectLookup(p, caller, target) ==
    /\ target # caller /\ target \in Registered
    /\ DirectChatOf(caller, target) = {}
    /\ \E c \in FreshIds : Begin(p, "directCreate", c, caller, target, "none")
    /\ UNCHANGED store

DirectCreate(p) ==
    /\ pc[p] = "directCreate"
    /\ CreateWithMembers(req[p].chat, "direct",
            [u \in Users |-> IF u \in {req[p].caller, req[p].target}
                             THEN "member" ELSE "none"])
    /\ Return(p)

-----------------------------------------------------------------------------
(* AddMember. *)

AddBegin(p, c, caller, target) ==
    /\ IsLiveGroup(c)
    /\ Begin(p, "addCaller", c, caller, target, "none")
    /\ UNCHANGED store

AddCaller(p) ==
    /\ pc[p] = "addCaller"
    /\ Check(p, CanManageMembers(members[req[p].chat][req[p].caller]), "addProbe")

\* users.GetByID and then IsMember of the target.
AddProbe(p) ==
    /\ pc[p] = "addProbe"
    /\ Check(p, req[p].target \in Registered /\ ~IsMember(req[p].chat, req[p].target),
             "addInsert")

AddInsert(p) ==
    /\ pc[p] = "addInsert"
    /\ InsertRow(req[p].chat, req[p].target, "member")
    /\ Return(p)

-----------------------------------------------------------------------------
(* RemoveMember. *)

RemoveBegin(p, c, caller, target) ==
    /\ IsLiveGroup(c)
    /\ Begin(p, "removeCaller", c, caller, target, "none")
    /\ UNCHANGED store

\* The caller's role is kept for the check on the target.
RemoveCaller(p) ==
    LET role == members[req[p].chat][req[p].caller] IN
    /\ pc[p] = "removeCaller"
    /\ \/ /\ CanManageMembers(role)
          /\ Goto(p, "removeTarget")
          /\ req' = [req EXCEPT ![p].read = role]
       \/ ~CanManageMembers(role) /\ Return(p)
    /\ UNCHANGED store

\* Faulty variant: the owner can be removed like anybody else.
MayRemoveAnyone(callerRole, targetRole) == targetRole # "none"

\* Owners cannot be removed, admins only by an owner.
MayRemove(callerRole, targetRole) ==
    \/ targetRole = "member"
    \/ targetRole = "admin" /\ callerRole = "owner"

\* Faulty variant: only owners are protected.
RemoveTargetPeers(p) ==
    /\ pc[p] = "removeTarget"
    /\ Check(p, members[req[p].chat][req[p].target] \in {"admin", "member"}, "removeDelete")

RemoveTarget(p) ==
    /\ pc[p] = "removeTarget"
    /\ Check(p, MayRemove(req[p].read, members[req[p].chat][req[p].target]), "removeDelete")

RemoveDelete(p) ==
    /\ pc[p] = "removeDelete"
    /\ DeleteRow(req[p].chat, req[p].target)
    /\ Return(p)

-----------------------------------------------------------------------------
(* ChangeMemberRole.  It never loads the chat: neither its type nor its    *)
(* deletion is looked at.                                                  *)

\* Faulty variant: every role there is may be given.
RoleBeginAny(p, c, caller, target, role) ==
    /\ role \in Role
    /\ target # caller
    /\ members[c][caller] = "owner"
    /\ Begin(p, "roleTarget", c, caller, target, role)
    /\ UNCHANGED store

RoleBegin(p, c, caller, target, role) ==
    /\ role \in {"admin", "member"}
    /\ target # caller
    /\ members[c][caller] = "owner"
    /\ Begin(p, "roleTarget", c, caller, target, role)
    /\ UNCHANGED store

RoleTarget(p) ==
    /\ pc[p] = "roleTarget"
    /\ Check(p, IsMember(req[p].chat, req[p].target), "roleWrite")

RoleWrite(p) ==
    /\ pc[p] = "roleWrite"
    /\ WriteRole(req[p].chat, req[p].target, req[p].role)
    /\ Return(p)

-----------------------------------------------------------------------------
(* LeaveChat. *)

LeaveBegin(p, c, caller) ==
    /\ IsLiveGroup(c)
    /\ Begin(p, "leaveCaller", c, caller, caller, "none")
    /\ UNCHANGED store

\* Faulty variant: the owner leaves like anybody else.
LeaveWithoutHandOver(p) ==
    /\ pc[p] = "leaveCaller"
    /\ Check(p, IsMember(req[p].chat, req[p].caller), "leaveRemove")

LeaveCaller(p) ==
    LET role == members[req[p].chat][req[p].caller] IN
    /\ pc[p] = "leaveCaller"
    /\ Check(p, role # "none", IF role = "owner" THEN "leaveMembers" ELSE "leaveRemove")

\* GetMembers and nextOwner: the successor and its role as read, or, if the
\* caller is alone, the decision to delete the group.
LeaveMembers(p) ==
    LET c == req[p].chat
        next == Successors(c, req[p].caller)
    IN  /\ pc[p] = "leaveMembers"
        /\ \/ /\ next = {}
              /\ Goto(p, "leaveDrop")
              /\ UNCHANGED req
           \/ \E u \in next :
                 /\ Goto(p, "leavePromote")
                 /\ req' = [req EXCEPT ![p].target = u, ![p].read = members[c][u]]
        /\ UNCHANGED store

LeaveDrop(p) ==
    /\ pc[p] = "leaveDrop"
    /\ DeleteChat(req[p].chat)
    /\ Return(p)

\* UpdateMemberRole fails if it affects no row: the successor has left
\* meanwhile, or, with MySQL, is an owner already.
LeavePromote(p) ==
    LET affected == RoleRowAffected(req[p].chat, req[p].target, "owner") IN
    /\ pc[p] = "leavePromote"
    /\ WriteRole(req[p].chat, req[p].target, "owner")
    /\ \/ affected /\ Goto(p, "leaveRemove") /\ UNCHANGED req
       \/ ~affected /\ Return(p)

LeaveRemove(p) ==
    /\ pc[p] = "leaveRemove"
    /\ DeleteRow(req[p].chat, req[p].caller)
    /\ Return(p)

-----------------------------------------------------------------------------
\* The next statement fails (the database is unreachable, or the client hung
\* up and the request's context is cancelled): the request returns the error
\* and what it has written so far stays.
Fail(p) ==
    /\ pc[p] # "idle"
    /\ failures < MaxFailures
    /\ failures' = failures + 1
    /\ pc' = [pc EXCEPT ![p] = "idle"]
    /\ req' = [req EXCEPT ![p] = NoRequest]
    /\ UNCHANGED store

Arrive(p) ==
    \E c \in Chats, caller \in Registered, target \in Users :
        \/ DirectLookup(p, caller, target)
        \/ AddBegin(p, c, caller, target)
        \/ RemoveBegin(p, c, caller, target)
        \/ \E role \in RoleInput : RoleBegin(p, c, caller, target, role)
        \/ LeaveBegin(p, c, caller)

Step(p) ==
    \/ DirectCreate(p)
    \/ AddCaller(p) \/ AddProbe(p) \/ AddInsert(p)
    \/ RemoveCaller(p) \/ RemoveTarget(p) \/ RemoveDelete(p)
    \/ RoleTarget(p) \/ RoleWrite(p)
    \/ LeaveCaller(p) \/ LeaveMembers(p) \/ LeaveDrop(p)
    \/ LeavePromote(p) \/ LeaveRemove(p)
    \/ Fail(p)

Next ==
    \/ \E caller \in Registered, ids \in SUBSET Users : CreateGroup(caller, ids)
    \/ \E p \in Procs : Arrive(p) \/ Step(p)

Spec == Init /\ [][Next]_vars

-----------------------------------------------------------------------------
(* What is claimed. *)

IsPair(roles) ==
    \E a, b \in Users :
        a # b /\ roles = [u \in Users |-> IF u \in {a, b} THEN "member" ELSE "none"]

\* A direct chat always consists of two distinct users, both with role
\* "member", and is never deleted.  ChangeMemberRole (chat.go:275) does not
\* look at the chat's type; the claim holds only because no request can make
\* anyone an owner in a direct chat, whatever is in flight.
DirectIntact ==
    \A c \in Chats : kind[c] = "direct" => ~deleted[c] /\ IsPair(members[c])

HasOwner(c) == \E u \in Users : members[c][u] = "owner"

\* A group that is not deleted has an owner, hence is not empty: LeaveChat
\* (chat.go:309-348) promotes the successor before it removes the owner, and
\* deletes the group when there is none.
OwnerPresent == \A c \in Chats : IsLiveGroup(c) => HasOwner(c)

Leaving(p) == pc[p] \in {"leaveCaller", "leaveMembers", "leaveDrop", "leavePromote", "leaveRemove"}

\* A LeaveChat that no other request overlaps and no failing statement cuts
\* off ends with its caller out of the chat or the chat deleted, also when it
\* repeats one that was cut off between the promotion of the successor and the
\* removal of the caller (chat.go:333-341).
LeaveLeaves ==
    [][\A p \in Procs :
          Leaving(p) /\ pc'[p] = "idle" /\ failures' = failures =>
              \/ members'[req[p].chat][req[p].caller] = "none"
              \/ deleted'[req[p].chat]]_vars

=============================================================================
