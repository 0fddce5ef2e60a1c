----------------------------- MODULE ChatAudit ------------------------------
(***************************************************************************)
(* ChatService with two history variables, which only record:              *)
(*  - held[c][u] is the set of managing roles user u has had in chat c;    *)
(*  - during[p] tells which managing roles the caller, and which roles     *)
(*    below the owner's the target of a RemoveMember has had since it      *)
(*    began.                                                               *)
(* With them one can say on whose authority a membership row changes even  *)
(* though what a request has read may be stale when it writes.             *)
(***************************************************************************)
EXTENDS ChatService

VARIABLES held, during

auditVars == <<vars, held, during>>

AuditInit ==
    /\ Init
    /\ held = [c \in Chats |-> [u \in Users |-> {}]]
    /\ during = [p \in Procs |-> {}]

Removing(p) == pc[p] \in {"removeCaller", "removeTarget", "removeDelete"}

\* What during[p] records of the present roles.
RolesNow(p) ==
    LET chat == members[req[p].chat] IN
    ({"caller"} \X ({chat[req[p].caller]} \cap {"owner", "admin"}))
        \cup ({"target"} \X ({chat[req[p].target]} \cap {"admin", "member"}))

AuditNext ==
    /\ Next
    /\ held' = [c \in Chats |-> [u \in Users |-> held[c][u] \cup
                      ({members'[c][u]} \cap {"owner", "admin"})]]
    /\ during' = [p \in Procs |-> IF Removing(p)' THEN during[p] \cup RolesNow(p)' ELSE {}]

AuditSpec == AuditInit /\ [][AuditNext]_auditVars

\* The statement a request of p runs in this step is about user u of chat c.
Serves(p, c, u) ==
    /\ pc[p] # "idle" /\ pc'[p] # pc[p]
    /\ req[p].chat = c
    /\ u \in {req[p].caller, req[p].target}

\* The change of u's row in c in this step is authorised by request p.
Authorised(p, c, u) ==
    \/ u = req[p].caller /\ members'[c][u] = "none"
    \/ /\ u = req[p].target
       /\ IF members[c][u] # "none" /\ members'[c][u] # "none"
          THEN "owner" \in held[c][req[p].caller]
          ELSE held[c][req[p].caller] # {}

\* A membership row of an existing chat changes only
\*   - by its user leaving, or
\*   - on the request of someone who has been owner or admin of that chat, and
\*     if the row keeps existing (a change of role) has been its owner.
\* This is what CanManageMembers and the owner checks (chat.go:201, 247, 286,
\* 323) are for; it must hold for every interleaving, also when the caller has
\* lost his role between the check and the write.
AuthorityRequired ==
    [][\A c \in Chats, u \in Users :
          kind[c] # "absent" /\ members'[c][u] # members[c][u] =>
              \E p \in Procs : Serves(p, c, u) /\ Authorised(p, c, u)]_auditVars

\* While p's request ran, its caller had a role that its target, by a role he
\* had while it ran, is subject to: "owners/admins remove members; only owner
\* can remove admins" (usecase/chat/usecase.go:20).
Outranked(p) ==
    \E a, b \in Role :
        /\ <<"caller", a>> \in during[p] /\ <<"target", b>> \in during[p]
        /\ \/ a \in {"owner", "admin"} /\ b = "member"
           \/ a = "owner" /\ b = "admin"

\* Nobody but himself takes a user out of a chat without having outranked him
\* while the request ran: one who is an owner from its beginning to the DELETE
\* is never removed, and one who is an admin all that time only by somebody
\* who has been an owner in it.  The caller's role and the target's are read
\* by different statements (chat.go:243, 251), other requests change both in
\* between, and the DELETE (chat.go:263) looks at neither.
RankRespected ==
    [][\A c \in Chats, u \in Users :
          members[c][u] # "none" /\ members'[c][u] = "none" =>
              \E p \in Procs : Serves(p, c, u) /\ (u = req[p].caller \/ Outranked(p))]_auditVars

EverOwner(c) == {u \in Users : "owner" \in held[c][u]}

\* A group that only one user has ever owned still has that owner: without a
\* hand-over by LeaveChat no interleaving of AddMember, RemoveMember and
\* ChangeMemberRole, with their stale reads, and no database error can demote
\* or remove it (chat.go:255, 279, 286).
FounderKeepsGroup ==
    \A c \in Chats : kind[c] = "group" =>
        \E o \in EverOwner(c) : EverOwner(c) = {o} => members[c][o] = "owner"

=============================================================================
