--------------------------- MODULE ChatRefinement ---------------------------
(***************************************************************************)
(* ChatService with the list of NextOwner, when requests do not overlap,   *)
(* implements ChatGroup.  LeaveChat takes effect with its last statement:  *)
(* until then the successor it has already promoted counts with the role   *)
(* it had when GetMembers read it.  If that statement fails the promotion  *)
(* stays, which is a step of its own of ChatGroup.                         *)
(***************************************************************************)
EXTENDS NextOwner

\* p has promoted u in chat c and has not yet removed its caller.
HandingOver(p, c, u) ==
    /\ pc[p] = "leaveRemove" /\ req[p].chat = c
    /\ req[p].target = u /\ u # req[p].caller

statusBar == [c \in Chats |-> IF deleted[c] THEN "gone" ELSE kind[c]]

rosterBar == [c \in Chats |-> [u \in Users |->
    IF \E p \in Procs : HandingOver(p, c, u)
    THEN LET p == CHOOSE q \in Procs : HandingOver(q, c, u) IN req[p].read
    ELSE members[c][u]]]

Group == INSTANCE ChatGroup WITH status <- statusBar, roster <- rosterBar

\* Every operation of chat.go, taken alone, has exactly the effect the API
\* describes: which memberships and roles it can change and how, to whom
\* ownership passes, when a group is deleted, and that a pair has one direct
\* chat (on whose authority is ChatAudit's question).  A
\* database error undoes an operation or, between the two writes of LeaveChat,
\* leaves the group with both owners; nothing else.
ImplementsGroup == Group!GroupSpec

\* Seen that way a live group has exactly one owner until a statement fails.
ExactlyOneOwner == failures = 0 => Group!OneOwner

=============================================================================
