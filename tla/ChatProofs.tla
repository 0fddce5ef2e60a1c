----------------------------- MODULE ChatProofs -----------------------------
(***************************************************************************)
(* Proofs about the chat use case for any users, chats and goroutines and  *)
(* whatever statements fail.                                               *)
(*                                                                         *)
(*  - ChatService and ChatAudit, whatever requests overlap: types, direct  *)
(*    chats, the founder of a group, on whose authority rows change and    *)
(*    whom RemoveMember takes out.                                         *)
(*  - Requests that do not overlap: a live group never loses its last      *)
(*    owner (with two requests it can: run ChatOwnerless), leaving works,  *)
(*    and ChatService implements ChatGroup.                                *)
(*  - NextOwner: what its loop picks, and that who becomes an owner is the *)
(*    oldest candidate.  The other theorems are stated for                 *)
(*    Spec, in which LeaveChat picks any of Successors; ListIsSpec carries *)
(*    them over.                                                           *)
(***************************************************************************)
EXTENDS ChatAudit, ChatRefinement, FiniteSetTheorems, TLAPS

StoreOK ==
    /\ kind \in [Chats -> {"absent", "direct", "group"}]
    /\ deleted \in [Chats -> BOOLEAN]
    /\ members \in [Chats -> [Users -> RoleOrNil]]

ControlOK ==
    /\ pc \in [Procs -> Labels]
    /\ req \in [Procs -> Request \cup {NoRequest}]
    /\ \A p \in Procs : pc[p] # "idle" => req[p] \in Request
    /\ failures \in Nat

\* TypeOK is the conjunction of its two halves.
LEMMA TypeSplit == TypeOK <=> StoreOK /\ ControlOK
BY DEF TypeOK, StoreOK, ControlOK

\* Returning to idle keeps the control state typed.
LEMMA ReturnControl ==
    ASSUME ControlOK, NEW p \in Procs, Return(p)
    PROVE  ControlOK'
BY DEF ControlOK, Return, Labels

\* So does starting a request.
LEMMA BeginControl ==
    ASSUME ControlOK, NEW p \in Procs, NEW label \in Labels, NEW c \in Chats,
           NEW u \in Users, NEW t \in Users, NEW r \in RoleOrNil,
           Begin(p, label, c, u, t, r)
    PROVE  ControlOK'
BY DEF ControlOK, Begin, Request, RoleOrNil

\* So does going on to the next statement.
LEMMA GotoControl ==
    ASSUME ControlOK, NEW p \in Procs, NEW label \in Labels, pc[p] # "idle",
           Goto(p, label), UNCHANGED req
    PROVE  ControlOK'
BY DEF ControlOK, Goto

\* The SQL writes keep the tables typed.
LEMMA CreateStore ==
    ASSUME StoreOK, NEW c \in Chats, NEW type \in {"direct", "group"},
           NEW roles \in [Users -> RoleOrNil], CreateWithMembers(c, type, roles)
    PROVE  StoreOK'
BY DEF StoreOK, CreateWithMembers

LEMMA RowStore ==
    ASSUME StoreOK, NEW c \in Chats, NEW u \in Users, NEW role \in RoleOrNil
    PROVE  /\ InsertRow(c, u, role) => StoreOK'
           /\ DeleteRow(c, u) => StoreOK'
           /\ WriteRole(c, u, role) => StoreOK'
<1>1. ASSUME NEW r \in RoleOrNil
      PROVE  [members EXCEPT ![c][u] = r] \in [Chats -> [Users -> RoleOrNil]]
  BY DEF StoreOK
<1>2. role \in RoleOrNil /\ "none" \in RoleOrNil
  BY DEF RoleOrNil
<1>3. InsertRow(c, u, role) => StoreOK'
  <2>1. CASE IsMember(c, u)
    BY <2>1 DEF StoreOK, InsertRow
  <2>2. CASE ~IsMember(c, u)
    BY <1>1, <1>2, <2>2 DEF StoreOK, InsertRow
  <2>. QED  BY <2>1, <2>2
<1>4. DeleteRow(c, u) => StoreOK'
  BY <1>1, <1>2 DEF StoreOK, DeleteRow
<1>5. WriteRole(c, u, role) => StoreOK'
  <2>1. CASE RoleRowExists(c, u)
    BY <1>1, <1>2, <2>1 DEF StoreOK, WriteRole
  <2>2. CASE ~RoleRowExists(c, u)
    BY <2>2 DEF StoreOK, WriteRole
  <2>. QED  BY <2>1, <2>2
<1>. QED  BY <1>3, <1>4, <1>5

-----------------------------------------------------------------------------
\* Every step keeps the types: one case for each action.
LEMMA TypeStep == TypeOK /\ [Next]_vars => TypeOK'
<1>. SUFFICES ASSUME StoreOK, ControlOK, [Next]_vars
              PROVE  StoreOK' /\ ControlOK'
  BY TypeSplit DEF TypeOK, StoreOK, ControlOK
<1>. USE DEF Labels
<1>1. ASSUME NEW caller \in Registered, NEW ids \in SUBSET Users, CreateGroup(caller, ids)
      PROVE  StoreOK' /\ ControlOK'
  <2>. DEFINE roles == [u \in Users |-> IF u = caller THEN "owner"
                                        ELSE IF u \in ids THEN "member" ELSE "none"]
  <2>1. roles \in [Users -> RoleOrNil]
    BY DEF RoleOrNil, Role
  <2>2. PICK c \in Chats : CreateWithMembers(c, "group", roles)
    BY <1>1 DEF CreateGroup, FreshIds
  <2>3. StoreOK'
    BY <2>1, <2>2, CreateStore
  <2>4. ControlOK'
    BY <1>1 DEF CreateGroup, ControlOK
  <2>. QED  BY <2>3, <2>4
<1>2. ASSUME NEW p \in Procs, Arrive(p)
      PROVE  StoreOK' /\ ControlOK'
  <2>1. PICK c \in Chats, caller \in Registered, target \in Users :
            \/ DirectLookup(p, caller, target)
            \/ AddBegin(p, c, caller, target)
            \/ RemoveBegin(p, c, caller, target)
            \/ \E role \in RoleInput : RoleBegin(p, c, caller, target, role)
            \/ LeaveBegin(p, c, caller)
    BY <1>2 DEF Arrive
  <2>2. UNCHANGED store
    BY <2>1 DEF DirectLookup, AddBegin, RemoveBegin, RoleBegin, LeaveBegin
  <2>3. StoreOK'
    BY <2>2 DEF StoreOK, store
  <2>4. \E label \in Labels, d \in Chats, u \in Users, t \in Users, r \in RoleOrNil :
            Begin(p, label, d, u, t, r)
    <3>1. caller \in Users
      BY RegisteredAssumption
    <3>2. CASE DirectLookup(p, caller, target)
      BY <3>1, <3>2 DEF DirectLookup, FreshIds, RoleOrNil
    <3>3. CASE AddBegin(p, c, caller, target)
      BY <3>1, <3>3 DEF AddBegin, RoleOrNil
    <3>4. CASE RemoveBegin(p, c, caller, target)
      BY <3>1, <3>4 DEF RemoveBegin, RoleOrNil
    <3>5. CASE \E role \in RoleInput : RoleBegin(p, c, caller, target, role)
      BY <3>1, <3>5 DEF RoleBegin, RoleOrNil, Role
    <3>6. CASE LeaveBegin(p, c, caller)
      BY <3>1, <3>6 DEF LeaveBegin, RoleOrNil
    <3>. QED  BY <2>1, <3>2, <3>3, <3>4, <3>5, <3>6
  <2>5. ControlOK'
    BY <2>4, BeginControl
  <2>. QED  BY <2>3, <2>5
<1>3. ASSUME NEW p \in Procs, Step(p)
      PROVE  StoreOK' /\ ControlOK'
  <2>1. pc[p] # "idle" /\ req[p] \in Request
    BY <1>3 DEF Step, DirectCreate, AddCaller, AddProbe, AddInsert, RemoveCaller,
          RemoveTarget, RemoveDelete, RoleTarget, RoleWrite, LeaveCaller, LeaveMembers,
          LeaveDrop, LeavePromote, LeaveRemove, Fail, ControlOK
  <2>2. /\ req[p].chat \in Chats /\ req[p].caller \in Users /\ req[p].target \in Users
        /\ req[p].role \in RoleOrNil
    BY <2>1 DEF Request
  <2>3. ASSUME UNCHANGED store PROVE StoreOK'
    BY <2>3 DEF store, StoreOK
  <2>4. CASE DirectCreate(p)
    <3>. DEFINE roles == [u \in Users |-> IF u \in {req[p].caller, req[p].target}
                                          THEN "member" ELSE "none"]
    <3>1. roles \in [Users -> RoleOrNil]
      BY DEF RoleOrNil, Role
    <3>2. CreateWithMembers(req[p].chat, "direct", roles) /\ Return(p)
      BY <2>4 DEF DirectCreate
    <3>. QED  BY <2>2, <3>1, <3>2, CreateStore, ReturnControl
  <2>5. CASE AddCaller(p) \/ AddProbe(p) \/ RemoveTarget(p) \/ RoleTarget(p) \/ LeaveCaller(p)
    <3>1. UNCHANGED store
      BY <2>5 DEF AddCaller, AddProbe, RemoveTarget, RoleTarget, LeaveCaller, Check
    <3>2. Return(p) \/ \E label \in Labels : Goto(p, label) /\ UNCHANGED req
      BY <2>5 DEF AddCaller, AddProbe, RemoveTarget, RoleTarget, LeaveCaller, Check
    <3>. QED  BY <2>1, <2>3, <3>1, <3>2, ReturnControl, GotoControl
  <2>6. CASE AddInsert(p)
    BY <2>2, <2>6, RowStore, ReturnControl DEF AddInsert, RoleOrNil, Role
  <2>7. CASE RemoveCaller(p)
    <3>1. CASE Return(p)
      BY <2>3, <2>7, <3>1, ReturnControl DEF RemoveCaller
    <3>2. CASE ~Return(p)
      <4>. DEFINE role == members[req[p].chat][req[p].caller]
      <4>1. Goto(p, "removeTarget") /\ req' = [req EXCEPT ![p].read = role] /\ UNCHANGED store
        BY <2>7, <3>2 DEF RemoveCaller
      <4>2. role \in RoleOrNil
        BY <2>2 DEF StoreOK
      <4>3. [req[p] EXCEPT !.read = role] \in Request
        BY <2>1, <4>2 DEF Request
      <4>4. ControlOK'
        BY <2>1, <4>1, <4>3 DEF ControlOK, Goto
      <4>. QED  BY <2>3, <4>1, <4>4
    <3>. QED  BY <3>1, <3>2
  <2>8. CASE RemoveDelete(p)
    BY <2>2, <2>8, RowStore, ReturnControl DEF RemoveDelete, RoleOrNil
  <2>9. CASE RoleWrite(p)
    BY <2>2, <2>9, RowStore, ReturnControl DEF RoleWrite
  <2>10. CASE LeaveMembers(p)
    <3>. DEFINE c == req[p].chat
                next == Successors(c, req[p].caller)
    <3>1. UNCHANGED store
      BY <2>10 DEF LeaveMembers
    <3>2. CASE Goto(p, "leaveDrop") /\ UNCHANGED req
      BY <2>1, <2>3, <3>1, <3>2, GotoControl
    <3>3. ASSUME NEW u \in next, Goto(p, "leavePromote"),
                 req' = [req EXCEPT ![p].target = u, ![p].read = members[c][u]]
          PROVE  ControlOK'
      <4>1. u \in Users
        BY DEF Successors
      <4>2. members[c][u] \in RoleOrNil
        BY <2>2, <4>1 DEF StoreOK
      <4>3. [req[p] EXCEPT !.target = u, !.read = members[c][u]] \in Request
        BY <2>1, <4>1, <4>2 DEF Request
      <4>. QED  BY <2>1, <3>3, <4>3 DEF ControlOK, Goto
    <3>. QED  BY <2>3, <2>10, <3>1, <3>2, <3>3 DEF LeaveMembers
  <2>11. CASE LeaveDrop(p)
    BY <2>2, <2>11, ReturnControl DEF LeaveDrop, DeleteChat, StoreOK
  <2>12. CASE LeavePromote(p)
    <3>1. StoreOK'
      BY <2>2, <2>12, RowStore DEF LeavePromote, RoleOrNil, Role
    <3>2. ControlOK'
      BY <2>1, <2>12, ReturnControl, GotoControl DEF LeavePromote
    <3>. QED  BY <3>1, <3>2
  <2>13. CASE LeaveRemove(p)
    BY <2>2, <2>13, RowStore, ReturnControl DEF LeaveRemove, RoleOrNil
  <2>14. CASE Fail(p)
    BY <2>3, <2>14 DEF Fail, ControlOK
  <2>. QED  BY <1>3, <2>4, <2>5, <2>6, <2>7, <2>8, <2>9, <2>10, <2>11, <2>12,
               <2>13, <2>14 DEF Step
<1>4. CASE UNCHANGED vars
  BY <1>4 DEF vars, StoreOK, ControlOK
<1>. QED  BY <1>1, <1>2, <1>3, <1>4 DEF Next

\* The type invariant of ChatService holds in every behaviour.
THEOREM TypeCorrect == Spec => []TypeOK
<1>1. Init => TypeOK
  BY DEF Init, TypeOK, RoleOrNil, Role, Labels
<1>. QED  BY <1>1, TypeStep, PTL DEF Spec

-----------------------------------------------------------------------------
(* DirectIntact is not inductive: it must be known of the requests in      *)
(* flight that those which write to an existing chat write to a group.     *)

AbsentBlank ==
    \A c \in Chats : kind[c] = "absent" =>
        ~deleted[c] /\ \A u \in Users : members[c][u] = "none"

DirectPending ==
    \A p \in Procs : pc[p] = "directCreate" =>
        kind[req[p].chat] = "absent" /\ req[p].caller # req[p].target

WritersInGroups ==
    \A p \in Procs : pc[p] \notin {"idle", "directCreate"} => kind[req[p].chat] = "group"

DrawnOnce ==
    \A p, q \in Procs : /\ p # q
                        /\ pc[p] = "directCreate" /\ pc[q] = "directCreate"
                        => req[p].chat # req[q].chat

DirectInv ==
    TypeOK /\ DirectIntact /\ AbsentBlank /\ DirectPending /\ WritersInGroups /\ DrawnOnce

\* The step writes at most the rows of chat c, and not its type.
TouchesOnly(c) ==
    /\ UNCHANGED kind
    /\ \A d \in Chats \ {c} : members'[d] = members[d] /\ deleted'[d] = deleted[d]

\* The control state of every goroutine but p is unchanged.
OthersKeep(p) == \A q \in Procs \ {p} : pc'[q] = pc[q] /\ req'[q] = req[q]

\* An owner is found in groups only.
LEMMA OwnersInGroups ==
    ASSUME DirectInv, NEW c \in Chats, NEW u \in Users, members[c][u] = "owner"
    PROVE  kind[c] = "group"
<1>1. kind[c] # "absent"
  BY DEF DirectInv, AbsentBlank
<1>2. kind[c] # "direct"
  BY DEF DirectInv, DirectIntact, IsPair
<1>. QED  BY <1>1, <1>2 DEF DirectInv, TypeOK

\* The three SQL statements on one membership row, and the soft delete, touch
\* one chat.
LEMMA RowTouches ==
    ASSUME TypeOK, NEW c \in Chats, NEW u \in Users, NEW r,
           DeleteChat(c) \/ InsertRow(c, u, r) \/ DeleteRow(c, u) \/ WriteRole(c, u, r)
    PROVE  TouchesOnly(c)
<1>1. \A x : \A d \in Chats \ {c} : [members EXCEPT ![c][u] = x][d] = members[d]
  BY DEF TypeOK
<1>2. CASE DeleteChat(c)
  BY <1>2 DEF DeleteChat, TouchesOnly, TypeOK
<1>3. CASE InsertRow(c, u, r)
  BY <1>1, <1>3 DEF InsertRow, TouchesOnly
<1>4. CASE DeleteRow(c, u)
  BY <1>1, <1>4 DEF DeleteRow, TouchesOnly
<1>5. CASE WriteRole(c, u, r)
  BY <1>1, <1>5 DEF WriteRole, TouchesOnly
<1>. QED  BY <1>2, <1>3, <1>4, <1>5

\* A statement of a request in a group keeps the invariant.
LEMMA GroupStep ==
    ASSUME DirectInv, TypeOK', NEW p \in Procs,
           pc[p] \notin {"idle", "directCreate"},
           TouchesOnly(req[p].chat), OthersKeep(p),
           \/ pc'[p] = "idle"
           \/ pc'[p] # "directCreate" /\ req'[p].chat = req[p].chat
    PROVE  DirectInv'
<1>1. kind[req[p].chat] = "group" /\ req[p].chat \in Chats
  BY DEF DirectInv, WritersInGroups, TypeOK, Request
<1>2. \A c \in Chats : kind[c] # "group" => members'[c] = members[c] /\ deleted'[c] = deleted[c]
  BY <1>1 DEF TouchesOnly
<1>3. DirectIntact'
  BY <1>2 DEF DirectInv, DirectIntact, TouchesOnly
<1>4. AbsentBlank'
  BY <1>2 DEF DirectInv, AbsentBlank, TouchesOnly
<1>5. DirectPending'
  BY DEF DirectInv, DirectPending, TouchesOnly, OthersKeep
<1>6. WritersInGroups'
  BY <1>1 DEF DirectInv, WritersInGroups, TouchesOnly, OthersKeep
<1>7. DrawnOnce'
  BY DEF DirectInv, DrawnOnce, OthersKeep
<1>. QED  BY <1>3, <1>4, <1>5, <1>6, <1>7 DEF DirectInv

\* Creating chat c with an id that no other request has drawn keeps the
\* invariant, if a direct chat gets its two members.
LEMMA CreateStep ==
    ASSUME DirectInv, TypeOK', NEW c \in Chats, NEW type \in {"direct", "group"}, NEW roles,
           kind[c] = "absent", CreateWithMembers(c, type, roles),
           type = "direct" => IsPair(roles),
           \A q \in Procs : pc'[q] # "idle" =>
              /\ pc'[q] = pc[q] /\ req'[q] = req[q]
              /\ pc[q] = "directCreate" => req[q].chat # c
    PROVE  DirectInv'
<1>1. /\ kind'[c] = type /\ deleted' = deleted /\ members'[c] = roles
      /\ \A d \in Chats \ {c} : kind'[d] = kind[d] /\ members'[d] = members[d]
  BY DEF CreateWithMembers, DirectInv, TypeOK
<1>2. ~deleted[c]
  BY DEF DirectInv, AbsentBlank
<1>3. DirectIntact'
  <2>. SUFFICES ASSUME NEW d \in Chats, kind'[d] = "direct"
                PROVE  ~deleted'[d] /\ IsPair(members'[d])
    BY DEF DirectIntact, IsPair
  <2>1. CASE d = c
    BY <1>1, <1>2, <2>1
  <2>2. CASE d # c
    BY <1>1, <2>2 DEF DirectInv, DirectIntact
  <2>. QED  BY <2>1, <2>2
<1>4. AbsentBlank'
  BY <1>1 DEF DirectInv, AbsentBlank
<1>5. \A q \in Procs : pc[q] # "idle" => req[q].chat \in Chats
  BY DEF DirectInv, TypeOK, Request
<1>6. DirectPending'
  BY <1>1, <1>5 DEF DirectInv, DirectPending
<1>7. WritersInGroups'
  BY <1>1, <1>5 DEF DirectInv, WritersInGroups
<1>8. DrawnOnce'
  BY DEF DirectInv, DrawnOnce
<1>. QED  BY <1>3, <1>4, <1>6, <1>7, <1>8 DEF DirectInv

\* A request arrives: it has drawn a fresh id or addresses a group.
LEMMA ArriveStep ==
    ASSUME DirectInv, TypeOK', NEW p \in Procs, Arrive(p)
    PROVE  DirectInv'
<1>1. PICK c \in Chats, caller \in Registered, target \in Users :
          \/ DirectLookup(p, caller, target)
          \/ AddBegin(p, c, caller, target)
          \/ RemoveBegin(p, c, caller, target)
          \/ \E role \in RoleInput : RoleBegin(p, c, caller, target, role)
          \/ LeaveBegin(p, c, caller)
  BY DEF Arrive
<1>2. UNCHANGED store
  BY <1>1 DEF DirectLookup, AddBegin, RemoveBegin, RoleBegin, LeaveBegin
<1>3. DirectIntact' /\ AbsentBlank'
  BY <1>2 DEF DirectInv, DirectIntact, AbsentBlank, store
<1>4. CASE DirectLookup(p, caller, target)
  <2>1. PICK d \in FreshIds : Begin(p, "directCreate", d, caller, target, "none")
    BY <1>4 DEF DirectLookup
  <2>2. /\ pc'[p] = "directCreate" /\ req'[p].chat = d
        /\ req'[p].caller = caller /\ req'[p].target = target
        /\ OthersKeep(p) /\ caller # target
    BY <1>4, <2>1 DEF DirectLookup, Begin, OthersKeep, DirectInv, TypeOK
  <2>3. kind[d] = "absent" /\ \A q \in Procs : pc[q] = "directCreate" => req[q].chat # d
    BY <2>1 DEF FreshIds
  <2>4. DirectPending'
    BY <1>2, <2>2, <2>3 DEF DirectInv, DirectPending, OthersKeep, store
  <2>5. WritersInGroups'
    BY <1>2, <2>2 DEF DirectInv, WritersInGroups, OthersKeep, store
  <2>6. DrawnOnce'
    BY <2>2, <2>3 DEF DirectInv, DrawnOnce, OthersKeep
  <2>. QED  BY <1>3, <2>4, <2>5, <2>6 DEF DirectInv
<1>5. CASE ~DirectLookup(p, caller, target)
  <2>1. kind[c] = "group"
    <3>1. CASE \E role \in RoleInput : RoleBegin(p, c, caller, target, role)
      BY <3>1, OwnersInGroups, RegisteredAssumption DEF RoleBegin
    <3>2. CASE ~\E role \in RoleInput : RoleBegin(p, c, caller, target, role)
      BY <1>1, <1>5, <3>2 DEF AddBegin, RemoveBegin, LeaveBegin, IsLiveGroup
    <3>. QED  BY <3>1, <3>2
  <2>2. pc'[p] # "directCreate" /\ req'[p].chat = c /\ OthersKeep(p)
    BY <1>1, <1>5 DEF AddBegin, RemoveBegin, RoleBegin, LeaveBegin, Begin, OthersKeep,
                      DirectInv, TypeOK
  <2>3. DirectPending'
    BY <1>2, <2>2 DEF DirectInv, DirectPending, OthersKeep, store
  <2>4. WritersInGroups'
    BY <1>2, <2>1, <2>2 DEF DirectInv, WritersInGroups, OthersKeep, store
  <2>5. DrawnOnce'
    BY <2>2 DEF DirectInv, DrawnOnce, OthersKeep
  <2>. QED  BY <1>3, <2>3, <2>4, <2>5 DEF DirectInv
<1>. QED  BY <1>4, <1>5

\* A request goes on.
LEMMA RequestStep ==
    ASSUME DirectInv, TypeOK', NEW p \in Procs, Step(p)
    PROVE  DirectInv'
<1>1. pc[p] # "idle" /\ req[p] \in Request
  BY DEF Step, DirectCreate, AddCaller, AddProbe, AddInsert, RemoveCaller,
         RemoveTarget, RemoveDelete, RoleTarget, RoleWrite, LeaveCaller, LeaveMembers,
         LeaveDrop, LeavePromote, LeaveRemove, Fail, DirectInv, TypeOK
<1>2. req[p].chat \in Chats /\ req[p].caller \in Users /\ req[p].target \in Users
  BY <1>1 DEF Request
<1>3. OthersKeep(p)
  BY DEF Step, DirectCreate, AddCaller, AddProbe, AddInsert, RemoveCaller,
         RemoveTarget, RemoveDelete, RoleTarget, RoleWrite, LeaveCaller, LeaveMembers,
         LeaveDrop, LeavePromote, LeaveRemove, Fail, Check, Goto, Return, OthersKeep,
         DirectInv, TypeOK
<1>4. CASE DirectCreate(p)
  <2>1. /\ pc[p] = "directCreate" /\ pc'[p] = "idle"
        /\ CreateWithMembers(req[p].chat, "direct",
              [u \in Users |-> IF u \in {req[p].caller, req[p].target} THEN "member" ELSE "none"])
    BY <1>4 DEF DirectCreate, Return, DirectInv, TypeOK
  <2>2. kind[req[p].chat] = "absent" /\ req[p].caller # req[p].target
    BY <2>1 DEF DirectInv, DirectPending
  <2>3. \A q \in Procs : pc'[q] # "idle" =>
            /\ pc'[q] = pc[q] /\ req'[q] = req[q]
            /\ pc[q] = "directCreate" => req[q].chat # req[p].chat
    BY <1>3, <2>1 DEF DirectInv, DrawnOnce, OthersKeep
  <2>4. IsPair([u \in Users |-> IF u \in {req[p].caller, req[p].target}
                                THEN "member" ELSE "none"])
    BY <1>2, <2>2 DEF IsPair
  <2>. QED  BY <1>2, <2>1, <2>2, <2>3, <2>4, CreateStep
<1>5. CASE Fail(p)
  <2>1. UNCHANGED store /\ pc'[p] = "idle"
    BY <1>5 DEF Fail, DirectInv, TypeOK
  <2>2. DirectIntact' /\ AbsentBlank' /\ DirectPending' /\ WritersInGroups' /\ DrawnOnce'
    BY <1>3, <2>1 DEF DirectInv, DirectIntact, AbsentBlank, DirectPending,
                      WritersInGroups, DrawnOnce, OthersKeep, store
  <2>. QED  BY <2>2 DEF DirectInv
<1>6. CASE ~DirectCreate(p) /\ ~Fail(p)
  <2>1. pc[p] # "directCreate"
    BY <1>6 DEF Step, AddCaller, AddProbe, AddInsert, RemoveCaller,
         RemoveTarget, RemoveDelete, RoleTarget, RoleWrite, LeaveCaller, LeaveMembers,
         LeaveDrop, LeavePromote, LeaveRemove
  <2>2. \/ pc'[p] = "idle"
        \/ pc'[p] # "directCreate" /\ req'[p].chat = req[p].chat
    <3>2. CASE RemoveCaller(p)
      <4>. DEFINE r == members[req[p].chat][req[p].caller]
      <4>1. [req EXCEPT ![p].read = r][p].chat = req[p].chat
        BY <1>1 DEF Request, DirectInv, TypeOK
      <4>2. \/ pc' = [pc EXCEPT ![p] = "idle"]
            \/ pc' = [pc EXCEPT ![p] = "removeTarget"] /\ req' = [req EXCEPT ![p].read = r]
        BY <3>2 DEF RemoveCaller, Goto, Return
      <4>. QED  BY <4>1, <4>2 DEF DirectInv, TypeOK
    <3>3. CASE LeaveMembers(p)
      <4>1. CASE \E u \in Users : req' = [req EXCEPT ![p].target = u,
                                                    ![p].read = members[req[p].chat][u]]
        <5>1. PICK u \in Users : req' = [req EXCEPT ![p].target = u,
                                                    ![p].read = members[req[p].chat][u]]
          BY <4>1
        <5>2. req'[p].chat = req[p].chat
          BY <1>1, <5>1 DEF Request, DirectInv, TypeOK
        <5>. QED  BY <3>3, <5>2 DEF DirectInv, TypeOK, LeaveMembers, Goto
      <4>2. CASE UNCHANGED req
        BY <3>3, <4>2 DEF LeaveMembers, Goto, DirectInv, TypeOK
      <4>. QED  BY <3>3, <4>1, <4>2 DEF LeaveMembers, Successors
    <3>4. CASE ~RemoveCaller(p) /\ ~LeaveMembers(p)
      BY <1>6, <3>4 DEF Step, AddCaller, AddProbe, AddInsert, RemoveTarget, RemoveDelete,
         RoleTarget, RoleWrite, LeaveCaller, LeaveDrop, LeavePromote, LeaveRemove,
         Check, Goto, Return, DirectInv, TypeOK
    <3>. QED  BY <3>2, <3>3, <3>4
  <2>3. TouchesOnly(req[p].chat)
    <3>1. CASE UNCHANGED store
      BY <3>1 DEF TouchesOnly, store
    <3>2. CASE \E u \in Users, r \in RoleOrNil :
                   \/ DeleteChat(req[p].chat) \/ InsertRow(req[p].chat, u, r)
                   \/ DeleteRow(req[p].chat, u) \/ WriteRole(req[p].chat, u, r)
      BY <1>2, <3>2, RowTouches DEF DirectInv
    <3>3. req[p].role \in RoleOrNil /\ {"member", "owner"} \subseteq RoleOrNil
      BY <1>1 DEF Request, RoleOrNil, Role
    <3>. QED  BY <1>2, <1>6, <3>1, <3>2, <3>3 DEF Step, AddCaller, AddProbe, AddInsert,
         RemoveCaller, RemoveTarget, RemoveDelete, RoleTarget, RoleWrite, LeaveCaller,
         LeaveMembers, LeaveDrop, LeavePromote, LeaveRemove, Check
  <2>. QED  BY <1>1, <1>3, <2>1, <2>2, <2>3, GroupStep
<1>. QED  BY <1>4, <1>5, <1>6

LEMMA DirectStep == DirectInv /\ [Next]_vars => DirectInv'
<1>. SUFFICES ASSUME DirectInv, [Next]_vars PROVE DirectInv'
  OBVIOUS
<1>1. TypeOK'
  BY TypeStep DEF DirectInv
<1>2. ASSUME NEW caller \in Registered, NEW ids \in SUBSET Users, CreateGroup(caller, ids)
      PROVE  DirectInv'
  <2>1. PICK c \in FreshIds : CreateWithMembers(c, "group",
            [u \in Users |-> IF u = caller THEN "owner"
                             ELSE IF u \in ids THEN "member" ELSE "none"])
    BY <1>2 DEF CreateGroup
  <2>2. /\ c \in Chats /\ kind[c] = "absent"
        /\ \A q \in Procs : pc[q] = "directCreate" => req[q].chat # c
    BY DEF FreshIds
  <2>3. UNCHANGED <<pc, req>>
    BY <1>2 DEF CreateGroup
  <2>. QED  BY <1>1, <2>1, <2>2, <2>3, CreateStep
<1>3. CASE UNCHANGED vars
  BY <1>1, <1>3 DEF vars, DirectInv, DirectIntact, AbsentBlank, DirectPending,
                    WritersInGroups, DrawnOnce
<1>. QED  BY <1>1, <1>2, <1>3, ArriveStep, RequestStep DEF Next

\* A direct chat keeps its two plain members and is never deleted, for any
\* number of users, chats and concurrent requests, with any failures.
THEOREM DirectChatsIntact == Spec => []DirectIntact
<1>1. Init => DirectInv
  BY DEF Init, DirectInv, TypeOK, RoleOrNil, Role, Labels, DirectIntact, AbsentBlank,
         DirectPending, WritersInGroups, DrawnOnce
<1>2. DirectInv => DirectIntact
  BY DEF DirectInv
<1>. QED  BY <1>1, <1>2, DirectStep, PTL DEF Spec

-----------------------------------------------------------------------------
(* ChatAudit.  The invariant says what a request in flight may still rely    *)
(* on although its reads are stale: that its caller has held the role it was *)
(* checked for, and that a request about to take away a row knows of an      *)
(* owner other than the one it takes away.                                   *)

\* Two users have owned the chat.
TwoOwnersEver(c) == \E v, w \in Users : v # w /\ "owner" \in held[c][v] /\ "owner" \in held[c][w]

\* Somebody other than u has owned the chat.
OtherOwnerEver(c, u) == \E v \in Users \ {u} : "owner" \in held[c][v]

Recorded ==
    \A c \in Chats, u \in Users :
        members[c][u] \in {"owner", "admin"} => members[c][u] \in held[c][u]

Owned == \A c \in Chats : kind[c] = "group" => HasOwner(c) \/ TwoOwnersEver(c)

ManagerAt == {"addProbe", "addInsert", "removeTarget", "removeDelete"}
OwnerAt   == {"roleTarget", "roleWrite", "leaveMembers", "leaveDrop", "leavePromote"}

Rights(p) ==
    /\ pc[p] \in ManagerAt => held[req[p].chat][req[p].caller] # {}
    /\ pc[p] \in OwnerAt => "owner" \in held[req[p].chat][req[p].caller]
    /\ pc[p] \in {"roleTarget", "roleWrite", "leavePromote"} => req[p].target # req[p].caller
    /\ pc[p] = "removeDelete" => OtherOwnerEver(req[p].chat, req[p].target)
    /\ pc[p] = "leaveRemove" => OtherOwnerEver(req[p].chat, req[p].caller)

AuditInv ==
    /\ DirectInv
    /\ held \in [Chats -> [Users -> SUBSET {"owner", "admin"}]]
    /\ Recorded
    /\ Owned
    /\ \A p \in Procs : Rights(p)

Record ==
    held' = [c \in Chats |-> [u \in Users |-> held[c][u] \cup
                ({members'[c][u]} \cap {"owner", "admin"})]]

\* The history only grows and always covers the present.
LEMMA HistoryStep ==
    ASSUME AuditInv, TypeOK', Record
    PROVE  /\ held' \in [Chats -> [Users -> SUBSET {"owner", "admin"}]]
           /\ Recorded'
           /\ \A c \in Chats, u \in Users : held[c][u] \subseteq held'[c][u]
           /\ \A c \in Chats : TwoOwnersEver(c) => TwoOwnersEver(c)'
           /\ \A c \in Chats, u \in Users : OtherOwnerEver(c, u) => OtherOwnerEver(c, u)'
<1>1. /\ held' \in [Chats -> [Users -> SUBSET {"owner", "admin"}]]
      /\ Recorded'
      /\ \A c \in Chats, u \in Users : held[c][u] \subseteq held'[c][u]
  BY DEF AuditInv, Record, Recorded
<1>. QED  BY <1>1 DEF TwoOwnersEver, OtherOwnerEver

\* Whoever is not the owner of a group has another owner beside him.
LEMMA OtherOwner ==
    ASSUME AuditInv, NEW c \in Chats, NEW u \in Users,
           kind[c] = "group", members[c][u] # "owner"
    PROVE  OtherOwnerEver(c, u)
<1>1. CASE HasOwner(c)
  BY <1>1 DEF AuditInv, Recorded, HasOwner, OtherOwnerEver
<1>2. CASE TwoOwnersEver(c)
  BY <1>2 DEF TwoOwnersEver, OtherOwnerEver
<1>. QED  BY <1>1, <1>2 DEF AuditInv, Owned

\* A goroutine that keeps its request keeps its rights.
LEMMA RightsKept ==
    ASSUME AuditInv, TypeOK', Record, NEW q \in Procs, pc'[q] = pc[q], req'[q] = req[q]
    PROVE  Rights(q)'
<1>1. CASE pc[q] = "idle"
  BY <1>1 DEF Rights, ManagerAt, OwnerAt
<1>2. CASE pc[q] # "idle"
  <2>1. req[q].chat \in Chats /\ req[q].caller \in Users /\ req[q].target \in Users
    BY <1>2 DEF AuditInv, DirectInv, TypeOK, Request
  <2>2. Rights(q)
    BY DEF AuditInv
  <2>3. /\ held[req[q].chat][req[q].caller] \subseteq held'[req[q].chat][req[q].caller]
        /\ \A u \in Users : OtherOwnerEver(req[q].chat, u) => OtherOwnerEver(req[q].chat, u)'
    BY <2>1, HistoryStep
  <2>. QED  BY <2>1, <2>2, <2>3 DEF Rights, OtherOwnerEver
<1>. QED  BY <1>1, <1>2

\* An owner disappears from a group only where another has been recorded.
LEMMA OwnedKept ==
    ASSUME AuditInv, TypeOK', Record, NEW c \in Chats, kind[c] = "group", NEW u \in Users,
           \A v \in Users \ {u} : members'[c][v] = members[c][v],
           members'[c][u] = "owner" \/ OtherOwnerEver(c, u) \/ members'[c][u] = members[c][u]
    PROVE  HasOwner(c)' \/ TwoOwnersEver(c)'
<1>1. HasOwner(c) \/ TwoOwnersEver(c)
  BY DEF AuditInv, Owned
<1>2. CASE TwoOwnersEver(c)
  BY <1>2, HistoryStep
<1>3. CASE HasOwner(c)
  <2>1. PICK o \in Users : members[c][o] = "owner"
    BY <1>3 DEF HasOwner
  <2>2. CASE members'[c][o] = "owner"
    BY <2>2 DEF HasOwner
  <2>3. CASE members'[c][o] # "owner"
    <3>1. o = u /\ OtherOwnerEver(c, u)
      BY <2>1, <2>3
    <3>2. "owner" \in held[c][o]
      BY <2>1 DEF AuditInv, Recorded
    <3>3. TwoOwnersEver(c)
      BY <3>1, <3>2 DEF TwoOwnersEver, OtherOwnerEver
    <3>. QED  BY <3>3, HistoryStep
  <2>. QED  BY <2>2, <2>3
<1>. QED  BY <1>1, <1>2, <1>3

\* A step that touches only chat c keeps Owned if it does so for c.
LEMMA OwnedOthers ==
    ASSUME AuditInv, TypeOK', Record, NEW c \in Chats, TouchesOnly(c),
           kind[c] = "group" => HasOwner(c)' \/ TwoOwnersEver(c)'
    PROVE  Owned'
<1>. SUFFICES ASSUME NEW d \in Chats, kind'[d] = "group"
              PROVE  HasOwner(d)' \/ TwoOwnersEver(d)'
  BY DEF Owned
<1>1. CASE d = c
  BY <1>1 DEF TouchesOnly
<1>2. CASE d # c
  <2>1. kind[d] = "group" /\ members'[d] = members[d]
    BY <1>2 DEF TouchesOnly
  <2>2. HasOwner(d) \/ TwoOwnersEver(d)
    BY <2>1 DEF AuditInv, Owned
  <2>. QED  BY <2>1, <2>2, HistoryStep DEF HasOwner
<1>. QED  BY <1>1, <1>2

LEMMA OwnedUnchanged ==
    ASSUME AuditInv, TypeOK', Record, UNCHANGED store
    PROVE  Owned'
<1>. SUFFICES ASSUME NEW d \in Chats, kind'[d] = "group"
              PROVE  HasOwner(d)' \/ TwoOwnersEver(d)'
  BY DEF Owned
<1>1. HasOwner(d) \/ TwoOwnersEver(d)
  BY DEF AuditInv, Owned, store
<1>. QED  BY <1>1, HistoryStep DEF HasOwner, store

\* What the statements on one row do to it and to its neighbours.
LEMMA RowEffect ==
    ASSUME TypeOK, NEW c \in Chats, NEW u \in Users, NEW r
    PROVE  /\ InsertRow(c, u, r) =>
                 /\ \A v \in Users \ {u} : members'[c][v] = members[c][v]
                 /\ \/ members'[c][u] = members[c][u]
                    \/ members[c][u] = "none" /\ members'[c][u] = r
           /\ DeleteRow(c, u) =>
                 /\ \A v \in Users \ {u} : members'[c][v] = members[c][v]
                 /\ members'[c][u] = "none"
           /\ WriteRole(c, u, r) =>
                 /\ \A v \in Users \ {u} : members'[c][v] = members[c][v]
                 /\ \/ members[c][u] = "none" /\ members'[c][u] = "none"
                    \/ members[c][u] # "none" /\ members'[c][u] = r
<1>1. ASSUME NEW x
      PROVE  /\ [members EXCEPT ![c][u] = x][c][u] = x
             /\ \A v \in Users \ {u} : [members EXCEPT ![c][u] = x][c][v] = members[c][v]
  BY DEF TypeOK
<1>2. ASSUME InsertRow(c, u, r)
      PROVE  /\ \A v \in Users \ {u} : members'[c][v] = members[c][v]
             /\ \/ members'[c][u] = members[c][u]
                \/ members[c][u] = "none" /\ members'[c][u] = r
  BY <1>1, <1>2 DEF InsertRow, IsMember
<1>3. ASSUME DeleteRow(c, u)
      PROVE  /\ \A v \in Users \ {u} : members'[c][v] = members[c][v]
             /\ members'[c][u] = "none"
  BY <1>1, <1>3 DEF DeleteRow
<1>4. ASSUME WriteRole(c, u, r)
      PROVE  /\ \A v \in Users \ {u} : members'[c][v] = members[c][v]
             /\ \/ members[c][u] = "none" /\ members'[c][u] = "none"
                \/ members[c][u] # "none" /\ members'[c][u] = r
  BY <1>1, <1>4 DEF WriteRole, RoleRowExists
<1>. QED  BY <1>2, <1>3, <1>4

\* A statement on the row of u in the group of p's request.
LEMMA WriteKeepsOwned ==
    ASSUME AuditInv, TypeOK', Record, NEW c \in Chats, kind[c] = "group",
           NEW u \in Users, NEW r,
           \/ InsertRow(c, u, r)
           \/ DeleteRow(c, u) /\ OtherOwnerEver(c, u)
           \/ WriteRole(c, u, r) /\ (r = "owner" \/ OtherOwnerEver(c, u))
    PROVE  Owned'
<1>1. TypeOK
  BY DEF AuditInv, DirectInv
<1>2. TouchesOnly(c)
  BY <1>1, RowTouches
<1>3. /\ \A v \in Users \ {u} : members'[c][v] = members[c][v]
      /\ members'[c][u] = "owner" \/ OtherOwnerEver(c, u) \/ members'[c][u] = members[c][u]
  <2>1. CASE InsertRow(c, u, r)
    <3>1. CASE members[c][u] = "owner"
      BY <1>1, <2>1, <3>1, RowEffect
    <3>2. CASE members[c][u] # "owner"
      BY <1>1, <2>1, <3>2, RowEffect, OtherOwner
    <3>. QED  BY <3>1, <3>2
  <2>2. CASE DeleteRow(c, u) /\ OtherOwnerEver(c, u)
    BY <1>1, <2>2, RowEffect
  <2>3. CASE WriteRole(c, u, r) /\ (r = "owner" \/ OtherOwnerEver(c, u))
    BY <1>1, <2>3, RowEffect
  <2>. QED  BY <2>1, <2>2, <2>3
<1>4. HasOwner(c)' \/ TwoOwnersEver(c)'
  BY <1>3, OwnedKept
<1>. QED  BY <1>2, <1>4, OwnedOthers

\* An idle goroutine needs no rights.
LEMMA RightsIdle == ASSUME NEW p \in Procs, pc'[p] = "idle" PROVE Rights(p)'
BY DEF Rights, ManagerAt, OwnerAt

\* A step of p that leaves the tables alone and goes on with the same request.
LEMMA RightsGained ==
    ASSUME AuditInv, TypeOK', Record, NEW p \in Procs, UNCHANGED store,
           NEW c \in Chats, NEW u \in Users, NEW t \in Users,
           pc[p] \notin {"idle", "directCreate"},
           req[p].chat = c, req[p].caller = u,
           req'[p].chat = c, req'[p].caller = u, req'[p].target = t,
           pc'[p] \in ManagerAt => members[c][u] \in {"owner", "admin"} \/ pc[p] \in ManagerAt,
           pc'[p] \in OwnerAt => members[c][u] = "owner" \/ pc[p] \in OwnerAt,
           pc'[p] \in {"roleTarget", "roleWrite", "leavePromote"} => t # u,
           pc'[p] = "removeDelete" => members[c][t] # "owner",
           pc'[p] = "leaveRemove" => members[c][u] # "owner"
    PROVE  Rights(p)'
<1>1. kind[c] = "group"
  BY DEF AuditInv, DirectInv, WritersInGroups
<1>2. Rights(p) /\ Recorded
  BY DEF AuditInv
<1>3. held[c][u] \subseteq held'[c][u]
  BY HistoryStep
<1>4. pc'[p] \in ManagerAt => held'[c][u] # {}
  BY <1>2, <1>3 DEF Rights, Recorded
<1>5. pc'[p] \in OwnerAt => "owner" \in held'[c][u]
  BY <1>2, <1>3 DEF Rights, Recorded
<1>6. pc'[p] = "removeDelete" => OtherOwnerEver(c, t)'
  BY <1>1, OtherOwner, HistoryStep
<1>7. pc'[p] = "leaveRemove" => OtherOwnerEver(c, u)'
  BY <1>1, OtherOwner, HistoryStep
<1>. QED  BY <1>4, <1>5, <1>6, <1>7 DEF Rights, OtherOwnerEver

\* A request goes on: one case for each action.
LEMMA AuditRequest ==
    ASSUME AuditInv, TypeOK', Record, NEW p \in Procs, Step(p)
    PROVE  Owned' /\ Rights(p)'
<1>. USE DEF ManagerAt, OwnerAt
<1>0. TypeOK /\ Rights(p)
  BY DEF AuditInv, DirectInv
<1>1. pc[p] # "idle" /\ req[p] \in Request
  BY <1>0 DEF Step, DirectCreate, AddCaller, AddProbe, AddInsert, RemoveCaller,
         RemoveTarget, RemoveDelete, RoleTarget, RoleWrite, LeaveCaller, LeaveMembers,
         LeaveDrop, LeavePromote, LeaveRemove, Fail, TypeOK
<1>2. PICK c \in Chats, u \in Users, t \in Users :
          req[p].chat = c /\ req[p].caller = u /\ req[p].target = t
  BY <1>1 DEF Request
<1>3. pc[p] # "directCreate" => kind[c] = "group"
  BY <1>1, <1>2 DEF AuditInv, DirectInv, WritersInGroups
<1>4. ASSUME Return(p) PROVE Rights(p)'
  BY <1>0, <1>4, RightsIdle DEF Return, TypeOK
<1>5. ASSUME NEW label \in Labels, Goto(p, label), UNCHANGED req
      PROVE  /\ pc'[p] = label
             /\ req'[p].chat = c /\ req'[p].caller = u /\ req'[p].target = t
  BY <1>0, <1>2, <1>5 DEF Goto, TypeOK
<1>6. CASE DirectCreate(p)
  <2>1. Return(p) /\ CreateWithMembers(c, "direct",
            [v \in Users |-> IF v \in {u, t} THEN "member" ELSE "none"])
    BY <1>2, <1>6 DEF DirectCreate
  <2>2. /\ kind'[c] = "direct"
        /\ \A d \in Chats \ {c} : kind'[d] = kind[d] /\ members'[d] = members[d]
    BY <1>0, <2>1 DEF CreateWithMembers, TypeOK
  <2>3. Owned'
    <3>. SUFFICES ASSUME NEW d \in Chats, kind'[d] = "group"
                  PROVE  HasOwner(d)' \/ TwoOwnersEver(d)'
      BY DEF Owned
    <3>1. kind[d] = "group" /\ members'[d] = members[d]
      BY <2>2
    <3>2. HasOwner(d) \/ TwoOwnersEver(d)
      BY <3>1 DEF AuditInv, Owned
    <3>. QED  BY <3>1, <3>2, HistoryStep DEF HasOwner
  <2>. QED  BY <1>4, <2>1, <2>3
<1>7. CASE AddCaller(p)
  <2>1. UNCHANGED store
    BY <1>7 DEF AddCaller, Check
  <2>2. CASE Return(p)
    BY <1>4, <2>1, <2>2, OwnedUnchanged
  <2>3. CASE ~Return(p)
    <3>1. Goto(p, "addProbe") /\ UNCHANGED req /\ members[c][u] \in {"owner", "admin"}
      BY <1>2, <1>7, <2>3 DEF AddCaller, Check, CanManageMembers
    <3>2. pc'[p] = "addProbe" /\ req'[p].chat = c /\ req'[p].caller = u /\ req'[p].target = t
      BY <1>5, <3>1 DEF Labels
    <3>3. pc[p] = "addCaller"
      BY <1>7 DEF AddCaller
    <3>4. Rights(p)'
      BY <1>2, <2>1, <3>1, <3>2, <3>3, RightsGained
    <3>. QED  BY <2>1, <3>4, OwnedUnchanged
  <2>. QED  BY <2>2, <2>3
<1>8. CASE AddProbe(p)
  <2>1. UNCHANGED store
    BY <1>8 DEF AddProbe, Check
  <2>2. CASE Return(p)
    BY <1>4, <2>1, <2>2, OwnedUnchanged
  <2>3. CASE ~Return(p)
    <3>1. Goto(p, "addInsert") /\ UNCHANGED req /\ pc[p] = "addProbe"
      BY <1>8, <2>3 DEF AddProbe, Check
    <3>2. pc'[p] = "addInsert" /\ req'[p].chat = c /\ req'[p].caller = u /\ req'[p].target = t
      BY <1>5, <3>1 DEF Labels
    <3>3. Rights(p)'
      BY <1>2, <2>1, <3>1, <3>2, RightsGained
    <3>. QED  BY <2>1, <3>3, OwnedUnchanged
  <2>. QED  BY <2>2, <2>3
<1>9. CASE AddInsert(p)
  <2>1. InsertRow(c, t, "member") /\ Return(p) /\ pc[p] = "addInsert"
    BY <1>2, <1>9 DEF AddInsert
  <2>. QED  BY <1>3, <1>4, <2>1, WriteKeepsOwned
<1>10. CASE RemoveCaller(p)
  <2>1. UNCHANGED store /\ pc[p] = "removeCaller"
    BY <1>10 DEF RemoveCaller
  <2>2. CASE Return(p)
    BY <1>4, <2>1, <2>2, OwnedUnchanged
  <2>3. CASE ~Return(p)
    <3>1. /\ Goto(p, "removeTarget") /\ members[c][u] \in {"owner", "admin"}
          /\ req' = [req EXCEPT ![p].read = members[c][u]]
      BY <1>2, <1>10, <2>3 DEF RemoveCaller, CanManageMembers
    <3>2. pc'[p] = "removeTarget"
      BY <1>0, <3>1 DEF Goto, TypeOK
    <3>3. req'[p].chat = c /\ req'[p].caller = u /\ req'[p].target = t
      BY <1>0, <1>1, <1>2, <3>1 DEF TypeOK, Request
    <3>4. Rights(p)'
      BY <1>2, <2>1, <3>1, <3>2, <3>3, RightsGained
    <3>. QED  BY <2>1, <3>4, OwnedUnchanged
  <2>. QED  BY <2>2, <2>3
<1>11. CASE RemoveTarget(p)
  <2>1. UNCHANGED store
    BY <1>11 DEF RemoveTarget, Check
  <2>2. CASE Return(p)
    BY <1>4, <2>1, <2>2, OwnedUnchanged
  <2>3. CASE ~Return(p)
    <3>1. Goto(p, "removeDelete") /\ UNCHANGED req /\ pc[p] = "removeTarget"
      BY <1>11, <2>3 DEF RemoveTarget, Check
    <3>2. members[c][t] # "owner"
      BY <1>2, <1>11, <2>3 DEF RemoveTarget, Check, MayRemove
    <3>3. pc'[p] = "removeDelete" /\ req'[p].chat = c /\ req'[p].caller = u /\ req'[p].target = t
      BY <1>5, <3>1 DEF Labels
    <3>4. Rights(p)'
      BY <1>2, <2>1, <3>1, <3>2, <3>3, RightsGained
    <3>. QED  BY <2>1, <3>4, OwnedUnchanged
  <2>. QED  BY <2>2, <2>3
<1>12. CASE RemoveDelete(p)
  <2>1. DeleteRow(c, t) /\ Return(p) /\ pc[p] = "removeDelete"
    BY <1>2, <1>12 DEF RemoveDelete
  <2>2. OtherOwnerEver(c, t)
    BY <1>0, <1>2, <2>1 DEF Rights
  <2>. QED  BY <1>3, <1>4, <2>1, <2>2, WriteKeepsOwned
<1>13. CASE RoleTarget(p)
  <2>1. UNCHANGED store
    BY <1>13 DEF RoleTarget, Check
  <2>2. CASE Return(p)
    BY <1>4, <2>1, <2>2, OwnedUnchanged
  <2>3. CASE ~Return(p)
    <3>1. Goto(p, "roleWrite") /\ UNCHANGED req /\ pc[p] = "roleTarget"
      BY <1>13, <2>3 DEF RoleTarget, Check
    <3>2. pc'[p] = "roleWrite" /\ req'[p].chat = c /\ req'[p].caller = u /\ req'[p].target = t
      BY <1>5, <3>1 DEF Labels
    <3>3. t # u
      BY <1>0, <1>2, <3>1 DEF Rights
    <3>4. Rights(p)'
      BY <1>2, <2>1, <3>1, <3>2, <3>3, RightsGained
    <3>. QED  BY <2>1, <3>4, OwnedUnchanged
  <2>. QED  BY <2>2, <2>3
<1>14. CASE RoleWrite(p)
  <2>1. WriteRole(c, t, req[p].role) /\ Return(p) /\ pc[p] = "roleWrite"
    BY <1>2, <1>14 DEF RoleWrite
  <2>2. OtherOwnerEver(c, t)
    BY <1>0, <1>2, <2>1 DEF Rights, OtherOwnerEver
  <2>. QED  BY <1>3, <1>4, <2>1, <2>2, WriteKeepsOwned
<1>15. CASE LeaveCaller(p)
  <2>1. UNCHANGED store /\ pc[p] = "leaveCaller"
    BY <1>15 DEF LeaveCaller, Check
  <2>2. CASE Return(p)
    BY <1>4, <2>1, <2>2, OwnedUnchanged
  <2>3. CASE ~Return(p)
    <3>. DEFINE label == IF members[c][u] = "owner" THEN "leaveMembers" ELSE "leaveRemove"
    <3>1. Goto(p, label) /\ UNCHANGED req
      BY <1>2, <1>15, <2>3 DEF LeaveCaller, Check
    <3>2. pc'[p] = label /\ req'[p].chat = c /\ req'[p].caller = u /\ req'[p].target = t
      BY <1>5, <3>1 DEF Labels
    <3>3. Rights(p)'
      BY <1>2, <2>1, <3>1, <3>2, RightsGained
    <3>. QED  BY <2>1, <3>3, OwnedUnchanged
  <2>. QED  BY <2>2, <2>3
<1>16. CASE LeaveMembers(p)
  <2>1. UNCHANGED store /\ pc[p] = "leaveMembers"
    BY <1>16 DEF LeaveMembers
  <2>2. CASE Goto(p, "leaveDrop") /\ UNCHANGED req
    <3>1. pc'[p] = "leaveDrop" /\ req'[p].chat = c /\ req'[p].caller = u /\ req'[p].target = t
      BY <1>5, <2>2 DEF Labels
    <3>2. Rights(p)'
      BY <1>2, <2>1, <3>1, RightsGained
    <3>. QED  BY <2>1, <3>2, OwnedUnchanged
  <2>3. ASSUME NEW v \in Users \ {u}, Goto(p, "leavePromote"),
               req' = [req EXCEPT ![p].target = v, ![p].read = members[c][v]]
        PROVE  Owned' /\ Rights(p)'
    <3>1. pc'[p] = "leavePromote"
      BY <1>0, <2>3 DEF Goto, TypeOK
    <3>2. req'[p].chat = c /\ req'[p].caller = u /\ req'[p].target = v
      BY <1>0, <1>1, <1>2, <2>3 DEF TypeOK, Request
    <3>3. Rights(p)'
      BY <1>2, <2>1, <3>1, <3>2, RightsGained
    <3>. QED  BY <2>1, <3>3, OwnedUnchanged
  <2>. QED  BY <1>2, <1>16, <2>2, <2>3 DEF LeaveMembers, Successors
<1>17. CASE LeaveDrop(p)
  <2>1. DeleteChat(c) /\ Return(p)
    BY <1>2, <1>17 DEF LeaveDrop
  <2>2. TouchesOnly(c)
    BY <1>0, <1>2, <2>1, RowTouches
  <2>3. kind[c] = "group" => HasOwner(c)' \/ TwoOwnersEver(c)'
    BY <2>1, HistoryStep DEF AuditInv, Owned, DeleteChat, HasOwner
  <2>. QED  BY <1>4, <2>1, <2>2, <2>3, OwnedOthers
<1>18. CASE LeavePromote(p)
  <2>1. WriteRole(c, t, "owner") /\ pc[p] = "leavePromote"
    BY <1>2, <1>18 DEF LeavePromote
  <2>2. Owned'
    BY <1>3, <2>1, WriteKeepsOwned
  <2>3. CASE Return(p)
    BY <1>4, <2>2, <2>3
  <2>4. CASE ~Return(p)
    <3>1. Goto(p, "leaveRemove") /\ UNCHANGED req /\ members[c][t] # "none"
      BY <1>2, <1>18, <2>4 DEF LeavePromote, RoleRowAffected, RoleRowExists
    <3>2. pc'[p] = "leaveRemove" /\ req'[p].chat = c /\ req'[p].caller = u
      BY <1>5, <3>1 DEF Labels
    <3>3. members'[c][t] = "owner"
      BY <1>0, <2>1, <3>1, RowEffect
    <3>4. "owner" \in held'[c][t] /\ t # u
      BY <1>0, <1>2, <2>1, <3>3, HistoryStep DEF Recorded, Rights
    <3>5. OtherOwnerEver(c, u)'
      BY <3>4 DEF OtherOwnerEver
    <3>6. Rights(p)'
      BY <3>2, <3>5 DEF Rights, OtherOwnerEver
    <3>. QED  BY <2>2, <3>6
  <2>. QED  BY <2>3, <2>4
<1>19. CASE LeaveRemove(p)
  <2>1. DeleteRow(c, u) /\ Return(p) /\ pc[p] = "leaveRemove"
    BY <1>2, <1>19 DEF LeaveRemove
  <2>2. OtherOwnerEver(c, u)
    BY <1>0, <1>2, <2>1 DEF Rights
  <2>. QED  BY <1>3, <1>4, <2>1, <2>2, WriteKeepsOwned
<1>20. CASE Fail(p)
  BY <1>0, <1>20, OwnedUnchanged, RightsIdle DEF Fail, TypeOK
<1>. QED  BY <1>6, <1>7, <1>8, <1>9, <1>10, <1>11, <1>12, <1>13, <1>14, <1>15, <1>16,
             <1>17, <1>18, <1>19, <1>20 DEF Step

\* A request arrives.  Only ChangeMemberRole has checked its caller by then.
LEMMA AuditArrive ==
    ASSUME AuditInv, TypeOK', Record, NEW p \in Procs, Arrive(p)
    PROVE  Owned' /\ Rights(p)' /\ OthersKeep(p)
<1>. USE DEF ManagerAt, OwnerAt
<1>0. TypeOK
  BY DEF AuditInv, DirectInv
<1>1. PICK c \in Chats, caller \in Registered, target \in Users :
          \/ DirectLookup(p, caller, target)
          \/ AddBegin(p, c, caller, target)
          \/ RemoveBegin(p, c, caller, target)
          \/ \E role \in RoleInput : RoleBegin(p, c, caller, target, role)
          \/ LeaveBegin(p, c, caller)
  BY DEF Arrive
<1>2. UNCHANGED store
  BY <1>1 DEF DirectLookup, AddBegin, RemoveBegin, RoleBegin, LeaveBegin
<1>3. OthersKeep(p)
  BY <1>0, <1>1 DEF DirectLookup, AddBegin, RemoveBegin, RoleBegin, LeaveBegin, Begin,
                    OthersKeep, TypeOK
<1>4. CASE \E role \in RoleInput : RoleBegin(p, c, caller, target, role)
  <2>1. /\ pc'[p] = "roleTarget" /\ req'[p].chat = c
        /\ req'[p].caller = caller /\ req'[p].target = target
        /\ target # caller /\ members[c][caller] = "owner"
    BY <1>0, <1>4 DEF RoleBegin, Begin, TypeOK
  <2>2. caller \in Users
    BY RegisteredAssumption
  <2>3. "owner" \in held'[c][caller]
    BY <2>1, <2>2, HistoryStep DEF AuditInv, Recorded
  <2>. QED  BY <1>2, <1>3, <2>1, <2>3, OwnedUnchanged DEF Rights
<1>5. CASE ~\E role \in RoleInput : RoleBegin(p, c, caller, target, role)
  <2>1. pc'[p] \in {"directCreate", "addCaller", "removeCaller", "leaveCaller"}
    BY <1>0, <1>1, <1>5 DEF DirectLookup, AddBegin, RemoveBegin, LeaveBegin, Begin, TypeOK
  <2>2. Rights(p)'
    BY <2>1 DEF Rights
  <2>. QED  BY <1>2, <1>3, <2>2, OwnedUnchanged
<1>. QED  BY <1>4, <1>5

LEMMA AuditStep == AuditInv /\ [AuditNext]_auditVars => AuditInv'
<1>. SUFFICES ASSUME AuditInv, [AuditNext]_auditVars PROVE AuditInv'
  OBVIOUS
<1>1. CASE UNCHANGED auditVars
  BY <1>1 DEF auditVars, vars, AuditInv, DirectInv, TypeOK, DirectIntact, AbsentBlank,
      DirectPending, WritersInGroups, DrawnOnce, Recorded, Owned, HasOwner, TwoOwnersEver,
      Rights, OtherOwnerEver, IsPair
<1>2. CASE AuditNext
  <2>1. Next /\ Record
    BY <1>2 DEF AuditNext, Record
  <2>2. DirectInv' /\ TypeOK'
    BY <2>1, DirectStep DEF AuditInv, DirectInv
  <2>3. held' \in [Chats -> [Users -> SUBSET {"owner", "admin"}]] /\ Recorded'
    BY <2>1, <2>2, HistoryStep
  <2>4. Owned' /\ \A q \in Procs : Rights(q)'
    <3>1. ASSUME NEW caller \in Registered, NEW ids \in SUBSET Users, CreateGroup(caller, ids)
          PROVE  Owned' /\ \A q \in Procs : Rights(q)'
      <4>1. PICK c \in FreshIds : CreateWithMembers(c, "group",
                [u \in Users |-> IF u = caller THEN "owner"
                                 ELSE IF u \in ids THEN "member" ELSE "none"])
        BY <3>1 DEF CreateGroup
      <4>2. c \in Chats /\ caller \in Users
        BY RegisteredAssumption DEF FreshIds
      <4>3. /\ members'[c][caller] = "owner"
            /\ \A d \in Chats \ {c} : kind'[d] = kind[d] /\ members'[d] = members[d]
        BY <4>1, <4>2 DEF CreateWithMembers, AuditInv, DirectInv, TypeOK
      <4>4. Owned'
        <5>. SUFFICES ASSUME NEW d \in Chats, kind'[d] = "group"
                      PROVE  HasOwner(d)' \/ TwoOwnersEver(d)'
          BY DEF Owned
        <5>1. CASE d = c
          BY <4>2, <4>3, <5>1 DEF HasOwner
        <5>2. CASE d # c
          <6>1. HasOwner(d) \/ TwoOwnersEver(d)
            BY <4>3, <5>2 DEF AuditInv, Owned
          <6>. QED  BY <2>1, <2>2, <4>3, <5>2, <6>1, HistoryStep DEF HasOwner
        <5>. QED  BY <5>1, <5>2
      <4>5. UNCHANGED <<pc, req>>
        BY <3>1 DEF CreateGroup
      <4>. QED  BY <2>1, <2>2, <4>4, <4>5, RightsKept
    <3>2. ASSUME NEW p \in Procs, Arrive(p)
          PROVE  Owned' /\ \A q \in Procs : Rights(q)'
      <4>1. Owned' /\ Rights(p)' /\ OthersKeep(p)
        BY <2>1, <2>2, <3>2, AuditArrive
      <4>. QED  BY <2>1, <2>2, <4>1, RightsKept DEF OthersKeep
    <3>3. ASSUME NEW p \in Procs, Step(p)
          PROVE  Owned' /\ \A q \in Procs : Rights(q)'
      <4>1. Owned' /\ Rights(p)'
        BY <2>1, <2>2, <3>3, AuditRequest
      <4>2. OthersKeep(p)
        BY <3>3 DEF Step, DirectCreate, AddCaller, AddProbe, AddInsert, RemoveCaller,
         RemoveTarget, RemoveDelete, RoleTarget, RoleWrite, LeaveCaller, LeaveMembers,
         LeaveDrop, LeavePromote, LeaveRemove, Fail, Check, Goto, Return, OthersKeep,
         AuditInv, DirectInv, TypeOK
      <4>. QED  BY <2>1, <2>2, <4>1, <4>2, RightsKept DEF OthersKeep
    <3>. QED  BY <2>1, <3>1, <3>2, <3>3 DEF Next
  <2>. QED  BY <2>2, <2>3, <2>4 DEF AuditInv
<1>. QED  BY <1>1, <1>2

LEMMA AuditInitial == AuditInit => AuditInv
BY DEF AuditInit, Init, AuditInv, DirectInv, TypeOK, RoleOrNil, Role, Labels, DirectIntact,
       AbsentBlank, DirectPending, WritersInGroups, DrawnOnce, Recorded, Owned, Rights,
       ManagerAt, OwnerAt

\* A group that only one user has ever owned still has that owner, for any
\* users, chats, number of concurrent requests and failures.
THEOREM FounderKept == AuditSpec => []FounderKeepsGroup
<1>1. AuditInv => FounderKeepsGroup
  <2>. SUFFICES ASSUME AuditInv, NEW c \in Chats, kind[c] = "group"
                PROVE  \E o \in EverOwner(c) : EverOwner(c) = {o} => members[c][o] = "owner"
    BY DEF FounderKeepsGroup
  <2>1. CASE HasOwner(c)
    BY <2>1 DEF HasOwner, EverOwner, AuditInv, Recorded
  <2>2. CASE TwoOwnersEver(c)
    BY <2>2 DEF TwoOwnersEver, EverOwner
  <2>. QED  BY <2>1, <2>2 DEF AuditInv, Owned
<1>. QED  BY <1>1, AuditInitial, AuditStep, PTL DEF AuditSpec

-----------------------------------------------------------------------------
\* A statement of p on one row of its chat leaves every other row alone.
LEMMA OneRow ==
    ASSUME TypeOK, NEW p \in Procs, NEW c \in Chats, NEW w \in Users, NEW r,
           req[p].chat = c, pc[p] # "idle", pc'[p] # pc[p],
           w \in {req[p].caller, req[p].target},
           InsertRow(c, w, r) \/ DeleteRow(c, w) \/ WriteRole(c, w, r),
           members'[c][w] # members[c][w] => Authorised(p, c, w)
    PROVE  \A d \in Chats, u \in Users : members'[d][u] # members[d][u] =>
               Serves(p, d, u) /\ Authorised(p, d, u)
<1>1. TouchesOnly(c)
  BY RowTouches
<1>2. \A v \in Users \ {w} : members'[c][v] = members[c][v]
  BY RowEffect
<1>. QED  BY <1>1, <1>2 DEF TouchesOnly, Serves

\* Membership changes only on the authority of somebody who has held the
\* required role, for any number of concurrent requests.
THEOREM AuthorityHolds == AuditSpec => AuthorityRequired
<1>. DEFINE A == \A c \in Chats, u \in Users :
                    kind[c] # "absent" /\ members'[c][u] # members[c][u] =>
                        \E p \in Procs : Serves(p, c, u) /\ Authorised(p, c, u)
<1>1. AuditInv /\ [AuditNext]_auditVars => [A]_auditVars
  <2>. SUFFICES ASSUME AuditInv, AuditNext PROVE A
    OBVIOUS
  <2>1. TypeOK /\ Next
    BY DEF AuditInv, DirectInv, AuditNext
  <2>2. CASE UNCHANGED members
    BY <2>2
  <2>3. ASSUME NEW caller \in Registered, NEW ids \in SUBSET Users, CreateGroup(caller, ids)
        PROVE  A
    BY <2>1, <2>3 DEF CreateGroup, CreateWithMembers, FreshIds, TypeOK
  <2>4. ASSUME NEW p \in Procs, Step(p), ~UNCHANGED members
        PROVE  A
    <3>1. /\ \/ DirectCreate(p) \/ AddInsert(p) \/ RemoveDelete(p) \/ RoleWrite(p)
             \/ LeavePromote(p) \/ LeaveRemove(p)
          /\ pc[p] # "idle" /\ req[p] \in Request
      BY <2>1, <2>4 DEF Step, DirectCreate, AddCaller, AddProbe, AddInsert, RemoveCaller,
         RemoveTarget, RemoveDelete, RoleTarget, RoleWrite, LeaveCaller, LeaveMembers,
         LeaveDrop, LeavePromote, LeaveRemove, Fail, Check, store, DeleteChat, TypeOK
    <3>2. PICK c \in Chats, u \in Users, t \in Users :
              req[p].chat = c /\ req[p].caller = u /\ req[p].target = t
      BY <3>1 DEF Request
    <3>3. Rights(p)
      BY DEF AuditInv
    <3>4. pc'[p] # pc[p]
      BY <2>1, <3>1 DEF DirectCreate, AddInsert, RemoveDelete, RoleWrite, LeavePromote,
                        LeaveRemove, Return, Goto, TypeOK
    <3>5. CASE DirectCreate(p)
      BY <2>1, <3>2, <3>5 DEF DirectCreate, CreateWithMembers, AuditInv, DirectInv,
                              DirectPending, TypeOK
    <3>6. CASE AddInsert(p)
      <4>1. InsertRow(c, t, "member") /\ pc[p] = "addInsert"
        BY <3>2, <3>6 DEF AddInsert
      <4>2. held[c][u] # {}
        BY <3>2, <3>3, <4>1 DEF Rights, ManagerAt
      <4>3. members'[c][t] # members[c][t] => Authorised(p, c, t)
        BY <2>1, <3>2, <4>1, <4>2, RowEffect DEF Authorised
      <4>. QED  BY <2>1, <3>1, <3>2, <3>4, <4>1, <4>3, OneRow
    <3>7. CASE RemoveDelete(p)
      <4>1. DeleteRow(c, t) /\ pc[p] = "removeDelete"
        BY <3>2, <3>7 DEF RemoveDelete
      <4>2. held[c][u] # {}
        BY <3>2, <3>3, <4>1 DEF Rights, ManagerAt
      <4>3. members'[c][t] # members[c][t] => Authorised(p, c, t)
        BY <2>1, <3>2, <4>1, <4>2, RowEffect DEF Authorised
      <4>. QED  BY <2>1, <3>1, <3>2, <3>4, <4>1, <4>3, OneRow
    <3>8. CASE RoleWrite(p) \/ LeavePromote(p)
      <4>1. PICK r : WriteRole(c, t, r) /\ pc[p] \in {"roleWrite", "leavePromote"}
        BY <3>2, <3>8 DEF RoleWrite, LeavePromote
      <4>2. "owner" \in held[c][u]
        BY <3>2, <3>3, <4>1 DEF Rights, OwnerAt
      <4>3. members'[c][t] # members[c][t] => Authorised(p, c, t)
        BY <2>1, <3>2, <4>1, <4>2, RowEffect DEF Authorised
      <4>. QED  BY <2>1, <3>1, <3>2, <3>4, <4>1, <4>3, OneRow
    <3>9. CASE LeaveRemove(p)
      <4>1. DeleteRow(c, u) /\ pc[p] = "leaveRemove"
        BY <3>2, <3>9 DEF LeaveRemove
      <4>2. members'[c][u] # members[c][u] => Authorised(p, c, u)
        BY <2>1, <3>2, <4>1, RowEffect DEF Authorised
      <4>. QED  BY <2>1, <3>1, <3>2, <3>4, <4>1, <4>2, OneRow
    <3>. QED  BY <3>1, <3>5, <3>6, <3>7, <3>8, <3>9
  <2>5. ASSUME NEW p \in Procs, Arrive(p) PROVE UNCHANGED members
    BY <2>5 DEF Arrive, DirectLookup, AddBegin, RemoveBegin, RoleBegin, LeaveBegin, store
  <2>. QED  BY <2>1, <2>2, <2>3, <2>4, <2>5 DEF Next
<1>. QED  BY <1>1, AuditInitial, AuditStep, PTL DEF AuditSpec, AuthorityRequired

-----------------------------------------------------------------------------
(* Whom a RemoveMember takes out, whatever happens between its statements. *)

\* What a RemoveMember has read was true at some moment since it began.
RankKnown(p) ==
    /\ Removing(p) => RolesNow(p) \subseteq during[p]
    /\ pc[p] \in {"removeTarget", "removeDelete"} =>
          req[p].read \in {"owner", "admin"} /\ <<"caller", req[p].read>> \in during[p]
    /\ pc[p] = "removeDelete" => Outranked(p)

\* A change of role takes nobody out.
RoleGiven(p) == pc[p] \in {"roleTarget", "roleWrite"} => req[p].role # "none"

RankInv == TypeOK /\ \A p \in Procs : RankKnown(p) /\ RoleGiven(p)

\* How a goroutine gets into and through a RemoveMember.
LEMMA RemoveSteps ==
    ASSUME TypeOK, Next, NEW p \in Procs
    PROVE  \/ pc'[p] = pc[p] /\ req'[p] = req[p]
           \/ ~Removing(p)' \/ pc'[p] = "removeCaller"
           \/ RemoveCaller(p) /\ pc'[p] = "removeTarget"
           \/ RemoveTarget(p) /\ pc'[p] = "removeDelete"
<1>1. ASSUME NEW caller \in Registered, NEW ids \in SUBSET Users, CreateGroup(caller, ids)
      PROVE  pc'[p] = pc[p] /\ req'[p] = req[p]
  BY <1>1 DEF CreateGroup
<1>2. ASSUME NEW q \in Procs, q # p, Arrive(q) \/ Step(q)
      PROVE  pc'[p] = pc[p] /\ req'[p] = req[p]
  <2>1. CASE Arrive(q)
    BY <1>2, <2>1 DEF Arrive, DirectLookup, AddBegin, RemoveBegin, RoleBegin, LeaveBegin, Begin, TypeOK
  <2>2. CASE Step(q)
    BY <1>2, <2>2 DEF Step, DirectCreate, AddCaller, AddProbe, AddInsert, RemoveCaller,
         RemoveTarget, RemoveDelete, RoleTarget, RoleWrite, LeaveCaller, LeaveMembers,
         LeaveDrop, LeavePromote, LeaveRemove, Fail, Check, Goto, Return, TypeOK
  <2>. QED  BY <1>2, <2>1, <2>2
<1>3. CASE Arrive(p)
  BY <1>3 DEF Arrive, DirectLookup, AddBegin, RemoveBegin, RoleBegin, LeaveBegin, Begin, TypeOK,
              Removing
<1>4. CASE Step(p)
  <2>1. CASE RemoveCaller(p)
    BY <2>1 DEF RemoveCaller, Goto, Return, TypeOK, Removing
  <2>2. CASE RemoveTarget(p)
    BY <2>2 DEF RemoveTarget, Check, Goto, Return, TypeOK, Removing
  <2>3. CASE ~RemoveCaller(p) /\ ~RemoveTarget(p)
    BY <1>4, <2>3 DEF Step, DirectCreate, AddCaller, AddProbe, AddInsert, RemoveDelete,
         RoleTarget, RoleWrite, LeaveCaller, LeaveMembers, LeaveDrop, LeavePromote,
         LeaveRemove, Fail, Check, Goto, Return, TypeOK, Removing
  <2>. QED  BY <2>1, <2>2, <2>3
<1>. QED  BY <1>1, <1>2, <1>3, <1>4 DEF Next

LEMMA RoleSteps ==
    ASSUME TypeOK, Next, NEW p \in Procs, RoleGiven(p)
    PROVE  RoleGiven(p)'
<1>. DEFINE Changing == {"roleTarget", "roleWrite"}
<1>1. ASSUME NEW caller \in Registered, NEW ids \in SUBSET Users, CreateGroup(caller, ids)
      PROVE  RoleGiven(p)'
  BY <1>1 DEF CreateGroup, RoleGiven
<1>2. ASSUME NEW q \in Procs, Arrive(q)
      PROVE  RoleGiven(p)'
  BY <1>2 DEF Arrive, DirectLookup, AddBegin, RemoveBegin, RoleBegin, LeaveBegin, Begin, TypeOK,
              RoleGiven
<1>3. ASSUME NEW q \in Procs, Step(q)
      PROVE  RoleGiven(p)'
  <2>1. pc'[p] \in Changing => pc[p] \in Changing /\ req'[p] = req[p]
    BY <1>3 DEF Step, DirectCreate, AddCaller, AddProbe, AddInsert, RemoveCaller,
         RemoveTarget, RemoveDelete, RoleTarget, RoleWrite, LeaveCaller, LeaveMembers,
         LeaveDrop, LeavePromote, LeaveRemove, Fail, Check, Goto, Return, TypeOK
  <2>. QED  BY <2>1 DEF RoleGiven
<1>. QED  BY <1>1, <1>2, <1>3 DEF Next

\* Every read of a RemoveMember is recorded, and stays recorded until it ends.
LEMMA RankStep == RankInv /\ [AuditNext]_auditVars => RankInv'
<1>. SUFFICES ASSUME RankInv, [AuditNext]_auditVars PROVE RankInv'
  OBVIOUS
<1>1. TypeOK'
  <2>1. [Next]_vars
    BY DEF AuditNext, auditVars
  <2>. QED  BY <2>1, TypeStep DEF RankInv
<1>2. CASE UNCHANGED auditVars
  BY <1>1, <1>2 DEF auditVars, vars, store, RankInv, RankKnown, RoleGiven, Removing, RolesNow,
                        Outranked
<1>3. ASSUME AuditNext, NEW p \in Procs
      PROVE  RankKnown(p)'
  <2>0. TypeOK /\ RankKnown(p)
    BY DEF RankInv
  <2>1. Removing(p)' => during'[p] = during[p] \cup RolesNow(p)'
    BY <1>3 DEF AuditNext
  <2>2. CASE ~Removing(p)'
    BY <2>2 DEF RankKnown, Removing
  <2>3. CASE pc'[p] = "removeCaller"
    BY <2>1, <2>3 DEF RankKnown, Removing
  <2>4. CASE pc'[p] = pc[p] /\ req'[p] = req[p] /\ Removing(p)'
    BY <2>0, <2>1, <2>4 DEF RankKnown, Removing, Outranked
  <2>5. CASE RemoveCaller(p) /\ pc'[p] = "removeTarget"
    <3> DEFINE role == members[req[p].chat][req[p].caller]
    <3>1. /\ pc[p] = "removeCaller" /\ req[p] \in Request /\ role \in {"owner", "admin"}
          /\ req'[p].read = role
      BY <2>0, <2>5 DEF RemoveCaller, Goto, Return, TypeOK, Request, CanManageMembers
    <3>2. <<"caller", role>> \in RolesNow(p)
      BY <3>1 DEF RolesNow
    <3>3. <<"caller", role>> \in during'[p]
      BY <2>0, <2>1, <2>5, <3>1, <3>2 DEF RankKnown, Removing
    <3>. QED  BY <2>1, <2>5, <3>1, <3>3 DEF RankKnown, Removing
  <2>6. CASE RemoveTarget(p) /\ pc'[p] = "removeDelete"
    <3> DEFINE role == members[req[p].chat][req[p].target]
    <3>1. pc[p] = "removeTarget" /\ MayRemove(req[p].read, role) /\ req'[p] = req[p]
      BY <2>0, <2>6 DEF RemoveTarget, Check, Goto, Return, TypeOK
    <3>2. <<"target", role>> \in RolesNow(p)
      BY <3>1 DEF RolesNow, MayRemove
    <3>3. /\ <<"target", role>> \in during'[p] /\ <<"caller", req[p].read>> \in during'[p]
          /\ req[p].read \in {"owner", "admin"}
      BY <2>0, <2>1, <2>6, <3>1, <3>2 DEF RankKnown, Removing
    <3>4. Outranked(p)'
      BY <3>1, <3>3 DEF Outranked, MayRemove, Role
    <3>. QED  BY <2>1, <2>6, <3>1, <3>3, <3>4 DEF RankKnown, Removing
  <2>. QED  BY <1>3, <2>0, <2>2, <2>3, <2>4, <2>5, <2>6, RemoveSteps DEF AuditNext
<1>4. ASSUME AuditNext, NEW p \in Procs
      PROVE  RoleGiven(p)'
  BY <1>4, RoleSteps DEF RankInv, AuditNext
<1>. QED  BY <1>1, <1>2, <1>3, <1>4 DEF RankInv

\* Nobody else takes a user out of a chat without having outranked him while
\* the request ran (chat.go:243-263), for any number of concurrent requests.
THEOREM RanksKept == AuditSpec => RankRespected
<1>. DEFINE Inv == AuditInv /\ RankInv
            A == \A c \in Chats, u \in Users :
                    members[c][u] # "none" /\ members'[c][u] = "none" =>
                        \E p \in Procs : Serves(p, c, u) /\ (u = req[p].caller \/ Outranked(p))
<1>1. AuditInit => Inv
  <2>1. AuditInit => TypeOK /\ \A p \in Procs : pc[p] = "idle"
    BY AuditInitial DEF AuditInit, Init, AuditInv, DirectInv
  <2>2. AuditInit => RankInv
    BY <2>1 DEF RankInv, RankKnown, RoleGiven, Removing
  <2>. QED  BY <2>2, AuditInitial
<1>2. Inv /\ [AuditNext]_auditVars => Inv'
  BY AuditStep, RankStep
<1>3. Inv /\ [AuditNext]_auditVars => [A]_auditVars
  <2>. SUFFICES ASSUME AuditInv, RankInv, AuditNext, NEW c \in Chats, NEW u \in Users,
                       members[c][u] # "none", members'[c][u] = "none"
                PROVE  \E p \in Procs : Serves(p, c, u) /\ (u = req[p].caller \/ Outranked(p))
    OBVIOUS
  <2>1. TypeOK /\ Next
    BY DEF RankInv, AuditNext
  <2>2. ASSUME NEW caller \in Registered, NEW ids \in SUBSET Users, CreateGroup(caller, ids)
        PROVE  FALSE
    BY <2>1, <2>2 DEF CreateGroup, CreateWithMembers, FreshIds, TypeOK, AuditInv, DirectInv, AbsentBlank
  <2>3. ASSUME NEW p \in Procs, Arrive(p) PROVE FALSE
    BY <2>3 DEF Arrive, DirectLookup, AddBegin, RemoveBegin, RoleBegin, LeaveBegin, store
  <2>4. ASSUME NEW p \in Procs, Step(p)
        PROVE  Serves(p, c, u) /\ (u = req[p].caller \/ Outranked(p))
    <3>1. pc[p] # "idle" /\ req[p] \in Request
      BY <2>1, <2>4 DEF Step, DirectCreate, AddCaller, AddProbe, AddInsert, RemoveCaller,
         RemoveTarget, RemoveDelete, RoleTarget, RoleWrite, LeaveCaller, LeaveMembers,
         LeaveDrop, LeavePromote, LeaveRemove, Fail, TypeOK
    <3>2. CASE RemoveDelete(p)
      <4>1. DeleteRow(req[p].chat, req[p].target) /\ pc[p] = "removeDelete" /\ pc'[p] = "idle"
        BY <2>1, <3>2 DEF RemoveDelete, Return, TypeOK
      <4>2. c = req[p].chat /\ u = req[p].target
        BY <2>1, <3>1, <4>1 DEF DeleteRow, TypeOK, Request
      <4>3. Outranked(p)
        BY <4>1 DEF RankInv, RankKnown
      <4>. QED  BY <4>1, <4>2, <4>3 DEF Serves
    <3>3. CASE LeaveRemove(p)
      <4>1. DeleteRow(req[p].chat, req[p].caller) /\ pc[p] = "leaveRemove" /\ pc'[p] = "idle"
        BY <2>1, <3>3 DEF LeaveRemove, Return, TypeOK
      <4>2. c = req[p].chat /\ u = req[p].caller
        BY <2>1, <3>1, <4>1 DEF DeleteRow, TypeOK, Request
      <4>. QED  BY <4>1, <4>2 DEF Serves
    <3>4. CASE DirectCreate(p)
      BY <2>1, <3>1, <3>4 DEF DirectCreate, CreateWithMembers, AuditInv, DirectInv, DirectPending,
                              AbsentBlank, TypeOK, Request
    <3>5. CASE AddInsert(p)
      BY <2>1, <3>1, <3>5 DEF AddInsert, InsertRow, TypeOK, Request
    <3>6. CASE RoleWrite(p) \/ LeavePromote(p)
      <4>1. PICK r \in RoleOrNil : WriteRole(req[p].chat, req[p].target, r) /\ r # "none"
        BY <2>1, <3>1, <3>6 DEF RoleWrite, LeavePromote, RankInv, RoleGiven, Request, RoleOrNil, Role
      <4>. QED  BY <2>1, <3>1, <4>1 DEF WriteRole, TypeOK, Request
    <3>7. CASE UNCHANGED members
      BY <3>7
    <3>. QED  BY <2>4, <3>2, <3>3, <3>4, <3>5, <3>6, <3>7 DEF Step, AddCaller, AddProbe,
         RemoveCaller, RemoveTarget, RoleTarget, LeaveCaller, LeaveMembers, LeaveDrop, Fail,
         Check, DeleteChat, store
  <2>. QED  BY <2>1, <2>2, <2>3, <2>4 DEF Next
<1>. QED  BY <1>1, <1>2, <1>3, PTL DEF AuditSpec, RankRespected

-----------------------------------------------------------------------------
(* Requests that do not overlap. *)

OneRequestAtATime == \A p, q \in Procs : p = q

\* Somebody other than u owns the chat.
OtherOwnerNow(c, u) == \E v \in Users \ {u} : members[c][v] = "owner"

OwnerCalls == {"roleTarget", "roleWrite", "leaveMembers", "leaveDrop", "leavePromote"}

\* What the request in progress has read is still so.
ReadsHold(p) ==
    /\ pc[p] \notin {"idle", "directCreate", "roleTarget", "roleWrite"} => ~deleted[req[p].chat]
    /\ pc[p] \in OwnerCalls => members[req[p].chat][req[p].caller] = "owner"
    /\ pc[p] \in {"roleTarget", "roleWrite", "leavePromote"} => req[p].target # req[p].caller
    /\ pc[p] = "removeDelete" => OtherOwnerNow(req[p].chat, req[p].target)
    /\ pc[p] = "leaveRemove" => OtherOwnerNow(req[p].chat, req[p].caller)

SerialInv == DirectInv /\ OwnerPresent /\ \A p \in Procs : ReadsHold(p)

\* What a statement does to the row of u and to the rest of the chat.
LEMMA RowWritten ==
    ASSUME TypeOK, NEW c \in Chats, NEW u \in Users, NEW r,
           \/ InsertRow(c, u, r) /\ members'[c][u] # members[c][u]
           \/ DeleteRow(c, u)
           \/ WriteRole(c, u, r) /\ members[c][u] # "none"
    PROVE  /\ \A v \in Users \ {u} : members'[c][v] = members[c][v]
           /\ members'[c][u] \in {r, "none"}
           /\ WriteRole(c, u, r) /\ members[c][u] # "none" => members'[c][u] = r
<1>1. ASSUME NEW x
      PROVE  /\ [members EXCEPT ![c][u] = x][c][u] = x
             /\ \A v \in Users \ {u} : [members EXCEPT ![c][u] = x][c][v] = members[c][v]
  BY DEF TypeOK
<1>2. CASE InsertRow(c, u, r) /\ members'[c][u] # members[c][u]
  BY <1>1, <1>2 DEF InsertRow, WriteRole, RoleRowExists, IsMember
<1>3. CASE DeleteRow(c, u)
  BY <1>1, <1>3 DEF DeleteRow, WriteRole, RoleRowExists
<1>4. CASE WriteRole(c, u, r) /\ members[c][u] # "none"
  BY <1>1, <1>4 DEF WriteRole, RoleRowExists
<1>. QED  BY <1>2, <1>3, <1>4

\* A statement that leaves an owner in its chat keeps OwnerPresent.
LEMMA OwnerKept ==
    ASSUME TypeOK, OwnerPresent, NEW c \in Chats, NEW u \in Users, NEW r,
           \/ InsertRow(c, u, r)
           \/ DeleteRow(c, u) /\ OtherOwnerNow(c, u)
           \/ WriteRole(c, u, r) /\ (r = "owner" \/ OtherOwnerNow(c, u))
    PROVE  OwnerPresent'
<1>1. TouchesOnly(c) /\ UNCHANGED deleted
  BY RowTouches DEF InsertRow, DeleteRow, WriteRole
<1>2. IsLiveGroup(c) => HasOwner(c)'
  <2>. SUFFICES ASSUME HasOwner(c) PROVE HasOwner(c)'
    BY DEF OwnerPresent
  <2>1. CASE InsertRow(c, u, r)
    <3>1. CASE IsMember(c, u)
      BY <2>1, <3>1 DEF InsertRow, HasOwner
    <3>2. CASE ~IsMember(c, u)
      BY <2>1, <3>2 DEF InsertRow, IsMember, HasOwner, TypeOK
    <3>. QED  BY <3>1, <3>2
  <2>2. CASE DeleteRow(c, u) /\ OtherOwnerNow(c, u)
    BY <2>2, RowWritten DEF OtherOwnerNow, HasOwner
  <2>3. CASE WriteRole(c, u, r) /\ (r = "owner" \/ OtherOwnerNow(c, u))
    <3>1. CASE members[c][u] = "none"
      BY <2>3, <3>1 DEF WriteRole, RoleRowExists, HasOwner
    <3>2. CASE members[c][u] # "none"
      BY <2>3, <3>2, RowWritten DEF OtherOwnerNow, HasOwner
    <3>. QED  BY <3>1, <3>2
  <2>. QED  BY <2>1, <2>2, <2>3
<1>. QED  BY <1>1, <1>2 DEF OwnerPresent, IsLiveGroup, TouchesOnly, HasOwner

\* A step that changes no table keeps OwnerPresent.
LEMMA OwnerUnchanged == ASSUME OwnerPresent, UNCHANGED store PROVE OwnerPresent'
BY DEF OwnerPresent, IsLiveGroup, HasOwner, store

\* A read of the request: what it learns holds.
LEMMA ReadsGained ==
    ASSUME SerialInv, TypeOK', NEW p \in Procs, UNCHANGED store,
           NEW c \in Chats, NEW u \in Users, NEW t \in Users,
           pc[p] \notin {"idle", "directCreate"},
           req[p].chat = c, req[p].caller = u,
           req'[p].chat = c, req'[p].caller = u, req'[p].target = t,
           pc[p] \in {"roleTarget", "roleWrite"} => pc'[p] \in {"roleTarget", "roleWrite"},
           pc'[p] \in OwnerCalls => members[c][u] = "owner",
           pc'[p] \in {"roleTarget", "roleWrite", "leavePromote"} => t # u,
           pc'[p] = "removeDelete" => members[c][t] # "owner",
           pc'[p] = "leaveRemove" => members[c][u] # "owner"
    PROVE  ReadsHold(p)'
<1>1. kind[c] = "group" /\ ReadsHold(p)
  BY DEF SerialInv, DirectInv, WritersInGroups
<1>2. UNCHANGED <<kind, deleted, members>>
  BY DEF store
<1>3. pc'[p] \notin {"idle", "directCreate", "roleTarget", "roleWrite"} => ~deleted'[c]
  BY <1>1, <1>2 DEF ReadsHold
<1>4. ~deleted[c] => HasOwner(c)
  BY <1>1 DEF SerialInv, OwnerPresent, IsLiveGroup
<1>5. pc'[p] = "removeDelete" => OtherOwnerNow(c, t)'
  BY <1>2, <1>3, <1>4 DEF OtherOwnerNow, HasOwner
<1>6. pc'[p] = "leaveRemove" => OtherOwnerNow(c, u)'
  BY <1>2, <1>3, <1>4 DEF OtherOwnerNow, HasOwner
<1>. QED  BY <1>2, <1>3, <1>5, <1>6 DEF ReadsHold, OtherOwnerNow

LEMMA ReadsIdle == ASSUME NEW p \in Procs, pc'[p] = "idle" PROVE ReadsHold(p)'
BY DEF ReadsHold, OwnerCalls

\* The request goes on: the reads, then the writes.
LEMMA SerialRequest ==
    ASSUME SerialInv, TypeOK', NEW p \in Procs, Step(p)
    PROVE  OwnerPresent' /\ ReadsHold(p)'
<1>. USE DEF OwnerCalls
<1>0. TypeOK /\ OwnerPresent /\ ReadsHold(p)
  BY DEF SerialInv, DirectInv
<1>1. pc[p] # "idle" /\ req[p] \in Request
  BY <1>0 DEF Step, DirectCreate, AddCaller, AddProbe, AddInsert, RemoveCaller,
         RemoveTarget, RemoveDelete, RoleTarget, RoleWrite, LeaveCaller, LeaveMembers,
         LeaveDrop, LeavePromote, LeaveRemove, Fail, TypeOK
<1>2. PICK c \in Chats, u \in Users, t \in Users :
          req[p].chat = c /\ req[p].caller = u /\ req[p].target = t
  BY <1>1 DEF Request
<1>3. ASSUME Return(p) PROVE ReadsHold(p)'
  BY <1>0, <1>3, ReadsIdle DEF Return, TypeOK
<1>4. ASSUME NEW label \in Labels, Goto(p, label)
      PROVE  pc'[p] = label
  BY <1>0, <1>4 DEF Goto, TypeOK
<1>5. ASSUME UNCHANGED req
      PROVE  req'[p].chat = c /\ req'[p].caller = u /\ req'[p].target = t
  BY <1>2, <1>5
<1>6. CASE DirectCreate(p)
  <2>1. /\ CreateWithMembers(c, "direct", [v \in Users |-> IF v \in {u, t} THEN "member" ELSE "none"])
        /\ Return(p)
    BY <1>2, <1>6 DEF DirectCreate
  <2>2. OwnerPresent'
    BY <1>0, <2>1 DEF OwnerPresent, IsLiveGroup, HasOwner, CreateWithMembers, TypeOK
  <2>. QED  BY <1>3, <2>1, <2>2
<1>7. CASE AddCaller(p) \/ AddProbe(p) \/ RemoveTarget(p) \/ RoleTarget(p) \/ LeaveCaller(p)
  <2>1. UNCHANGED store
    BY <1>7 DEF AddCaller, AddProbe, RemoveTarget, RoleTarget, LeaveCaller, Check
  <2>2. CASE Return(p)
    BY <1>0, <1>3, <2>1, <2>2, OwnerUnchanged
  <2>3. CASE ~Return(p)
    <3>1. UNCHANGED req
      BY <1>7, <2>3 DEF AddCaller, AddProbe, RemoveTarget, RoleTarget, LeaveCaller, Check
    <3>2. \/ pc[p] = "addCaller" /\ pc'[p] = "addProbe"
          \/ pc[p] = "addProbe" /\ pc'[p] = "addInsert"
          \/ pc[p] = "removeTarget" /\ pc'[p] = "removeDelete" /\ members[c][t] # "owner"
          \/ pc[p] = "roleTarget" /\ pc'[p] = "roleWrite"
          \/ pc[p] = "leaveCaller" /\ pc'[p] = "leaveMembers" /\ members[c][u] = "owner"
          \/ pc[p] = "leaveCaller" /\ pc'[p] = "leaveRemove" /\ members[c][u] # "owner"
      BY <1>2, <1>4, <1>7, <2>3 DEF AddCaller, AddProbe, RemoveTarget, RoleTarget,
           LeaveCaller, Check, MayRemove, Labels
    <3>3. pc[p] = "roleTarget" => members[c][u] = "owner" /\ t # u
      BY <1>0, <1>2 DEF ReadsHold
    <3>4. ReadsHold(p)'
      BY <1>2, <1>5, <2>1, <3>1, <3>2, <3>3, ReadsGained
    <3>. QED  BY <1>0, <2>1, <3>4, OwnerUnchanged
  <2>. QED  BY <2>2, <2>3
<1>8. CASE RemoveCaller(p)
  <2>1. UNCHANGED store /\ pc[p] = "removeCaller"
    BY <1>8 DEF RemoveCaller
  <2>2. CASE Return(p)
    BY <1>0, <1>3, <2>1, <2>2, OwnerUnchanged
  <2>3. CASE ~Return(p)
    <3>1. Goto(p, "removeTarget") /\ req' = [req EXCEPT ![p].read = members[c][u]]
      BY <1>2, <1>8, <2>3 DEF RemoveCaller
    <3>2. req'[p].chat = c /\ req'[p].caller = u /\ req'[p].target = t
      BY <1>0, <1>1, <1>2, <3>1 DEF TypeOK, Request
    <3>3. pc'[p] = "removeTarget"
      BY <1>4, <3>1 DEF Labels
    <3>4. ReadsHold(p)'
      BY <1>2, <2>1, <3>2, <3>3, ReadsGained
    <3>. QED  BY <1>0, <2>1, <3>4, OwnerUnchanged
  <2>. QED  BY <2>2, <2>3
<1>9. CASE LeaveMembers(p)
  <2>1. UNCHANGED store /\ pc[p] = "leaveMembers" /\ members[c][u] = "owner"
    BY <1>0, <1>2, <1>9 DEF LeaveMembers, ReadsHold
  <2>2. CASE Goto(p, "leaveDrop") /\ UNCHANGED req
    <3>1. pc'[p] = "leaveDrop"
      BY <1>4, <2>2 DEF Labels
    <3>2. ReadsHold(p)'
      BY <1>2, <1>5, <2>1, <2>2, <3>1, ReadsGained
    <3>. QED  BY <1>0, <2>1, <3>2, OwnerUnchanged
  <2>3. ASSUME NEW v \in Users \ {u}, Goto(p, "leavePromote"),
               req' = [req EXCEPT ![p].target = v, ![p].read = members[c][v]]
        PROVE  OwnerPresent' /\ ReadsHold(p)'
    <3>1. pc'[p] = "leavePromote"
      BY <1>4, <2>3 DEF Labels
    <3>2. req'[p].chat = c /\ req'[p].caller = u /\ req'[p].target = v
      BY <1>0, <1>1, <1>2, <2>3 DEF TypeOK, Request
    <3>3. ReadsHold(p)'
      BY <1>2, <2>1, <3>1, <3>2, ReadsGained
    <3>. QED  BY <1>0, <2>1, <3>3, OwnerUnchanged
  <2>. QED  BY <1>2, <1>9, <2>2, <2>3 DEF LeaveMembers, Successors
<1>10. CASE AddInsert(p)
  <2>1. InsertRow(c, t, "member") /\ Return(p)
    BY <1>2, <1>10 DEF AddInsert
  <2>. QED  BY <1>0, <1>3, <2>1, OwnerKept
<1>11. CASE RemoveDelete(p)
  <2>1. DeleteRow(c, t) /\ OtherOwnerNow(c, t) /\ Return(p)
    BY <1>0, <1>2, <1>11 DEF RemoveDelete, ReadsHold
  <2>. QED  BY <1>0, <1>3, <2>1, OwnerKept
<1>12. CASE RoleWrite(p)
  <2>1. WriteRole(c, t, req[p].role) /\ OtherOwnerNow(c, t) /\ Return(p)
    BY <1>0, <1>2, <1>12 DEF RoleWrite, ReadsHold, OtherOwnerNow
  <2>. QED  BY <1>0, <1>3, <2>1, OwnerKept
<1>13. CASE LeaveDrop(p)
  <2>1. DeleteChat(c) /\ Return(p)
    BY <1>2, <1>13 DEF LeaveDrop
  <2>2. OwnerPresent'
    BY <1>0, <2>1 DEF OwnerPresent, IsLiveGroup, HasOwner, DeleteChat, TypeOK
  <2>. QED  BY <1>3, <2>1, <2>2
<1>14. CASE LeavePromote(p)
  <2>1. WriteRole(c, t, "owner") /\ pc[p] = "leavePromote" /\ t # u /\ ~deleted[c]
    BY <1>0, <1>2, <1>14 DEF LeavePromote, ReadsHold
  <2>2. OwnerPresent'
    BY <1>0, <2>1, OwnerKept
  <2>3. CASE Return(p)
    BY <1>3, <2>2, <2>3
  <2>4. CASE ~Return(p)
    <3>1. Goto(p, "leaveRemove") /\ UNCHANGED req /\ members[c][t] # "none"
      BY <1>2, <1>14, <2>4 DEF LeavePromote, RoleRowAffected, RoleRowExists
    <3>2. pc'[p] = "leaveRemove"
      BY <1>4, <3>1 DEF Labels
    <3>3. members'[c][t] = "owner" /\ UNCHANGED deleted
      BY <1>0, <2>1, <3>1, RowWritten DEF WriteRole
    <3>4. OtherOwnerNow(c, u)'
      BY <2>1, <3>3 DEF OtherOwnerNow
    <3>5. ReadsHold(p)'
      BY <1>5, <2>1, <3>1, <3>2, <3>3, <3>4 DEF ReadsHold, OtherOwnerNow
    <3>. QED  BY <2>2, <3>5
  <2>. QED  BY <2>3, <2>4
<1>15. CASE LeaveRemove(p)
  <2>1. DeleteRow(c, u) /\ OtherOwnerNow(c, u) /\ Return(p)
    BY <1>0, <1>2, <1>15 DEF LeaveRemove, ReadsHold
  <2>. QED  BY <1>0, <1>3, <2>1, OwnerKept
<1>16. CASE Fail(p)
  BY <1>0, <1>16, OwnerUnchanged, ReadsIdle DEF Fail, TypeOK
<1>. QED  BY <1>6, <1>7, <1>8, <1>9, <1>10, <1>11, <1>12, <1>13, <1>14, <1>15, <1>16 DEF Step

\* A request arrives.
LEMMA SerialArrive ==
    ASSUME SerialInv, TypeOK', NEW p \in Procs, Arrive(p)
    PROVE  OwnerPresent' /\ ReadsHold(p)'
<1>. USE DEF OwnerCalls
<1>0. TypeOK /\ OwnerPresent
  BY DEF SerialInv, DirectInv
<1>1. PICK c \in Chats, caller \in Registered, target \in Users :
          \/ DirectLookup(p, caller, target)
          \/ AddBegin(p, c, caller, target)
          \/ RemoveBegin(p, c, caller, target)
          \/ \E role \in RoleInput : RoleBegin(p, c, caller, target, role)
          \/ LeaveBegin(p, c, caller)
  BY DEF Arrive
<1>2. UNCHANGED store
  BY <1>1 DEF DirectLookup, AddBegin, RemoveBegin, RoleBegin, LeaveBegin
<1>3. \/ pc'[p] = "directCreate"
      \/ /\ pc'[p] \in {"addCaller", "removeCaller", "leaveCaller"}
         /\ req'[p].chat = c /\ ~deleted[c]
      \/ /\ pc'[p] = "roleTarget" /\ req'[p].chat = c /\ members[c][caller] = "owner"
         /\ req'[p].caller = caller /\ req'[p].target = target /\ caller # target
  BY <1>0, <1>1 DEF DirectLookup, AddBegin, RemoveBegin, RoleBegin, LeaveBegin, Begin,
                    IsLiveGroup, TypeOK
<1>4. ReadsHold(p)'
  BY <1>2, <1>3 DEF ReadsHold, store
<1>. QED  BY <1>0, <1>2, <1>4, OwnerUnchanged

LEMMA SerialStep ==
    ASSUME OneRequestAtATime, SerialInv, [Next]_vars
    PROVE  SerialInv'
<1>1. DirectInv' /\ TypeOK' /\ TypeOK
  BY DirectStep DEF SerialInv, DirectInv
<1>2. ASSUME NEW caller \in Registered, NEW ids \in SUBSET Users, CreateGroup(caller, ids)
      PROVE  OwnerPresent' /\ \A q \in Procs : ReadsHold(q)'
  <2>1. PICK c \in FreshIds : CreateWithMembers(c, "group",
            [u \in Users |-> IF u = caller THEN "owner"
                             ELSE IF u \in ids THEN "member" ELSE "none"])
    BY <1>2 DEF CreateGroup
  <2>2. c \in Chats /\ kind[c] = "absent" /\ caller \in Users /\ UNCHANGED <<pc, req, deleted>>
    BY <1>2, <2>1, RegisteredAssumption DEF CreateGroup, CreateWithMembers, FreshIds
  <2>3. /\ members'[c][caller] = "owner"
        /\ \A d \in Chats \ {c} : kind'[d] = kind[d] /\ members'[d] = members[d]
    BY <1>1, <2>1, <2>2 DEF CreateWithMembers, TypeOK
  <2>4. OwnerPresent'
    BY <2>2, <2>3 DEF SerialInv, OwnerPresent, IsLiveGroup, HasOwner
  <2>5. ASSUME NEW q \in Procs PROVE ReadsHold(q)'
    <3>1. CASE pc[q] \in {"idle", "directCreate"}
      BY <2>2, <3>1 DEF ReadsHold, OwnerCalls
    <3>2. CASE pc[q] \notin {"idle", "directCreate"}
      <4>1. req[q].chat \in Chats /\ kind[req[q].chat] = "group"
        BY <3>2 DEF SerialInv, DirectInv, WritersInGroups, TypeOK, Request
      <4>2. members'[req[q].chat] = members[req[q].chat]
        BY <2>2, <2>3, <4>1
      <4>3. ReadsHold(q)
        BY DEF SerialInv
      <4>. QED  BY <2>2, <4>2, <4>3 DEF ReadsHold, OtherOwnerNow, OwnerCalls
    <3>. QED  BY <3>1, <3>2
  <2>. QED  BY <2>4, <2>5
<1>3. ASSUME NEW p \in Procs, Arrive(p) \/ Step(p)
      PROVE  OwnerPresent' /\ \A q \in Procs : ReadsHold(q)'
  <2>1. OwnerPresent' /\ ReadsHold(p)'
    BY <1>1, <1>3, SerialArrive, SerialRequest
  <2>. QED  BY <2>1 DEF OneRequestAtATime
<1>4. CASE UNCHANGED vars
  BY <1>1, <1>4 DEF vars, SerialInv, OwnerPresent, IsLiveGroup, HasOwner, ReadsHold, OtherOwnerNow
<1>. QED  BY <1>1, <1>2, <1>3, <1>4 DEF Next, SerialInv

\* A live group always has an owner when requests are served one at a time,
\* for any users and chats and any statements that fail: LeaveChat promotes
\* before it removes, and no other operation takes away an owner.
THEOREM SerialOwnerPresent ==
    ASSUME OneRequestAtATime
    PROVE  Spec => []OwnerPresent
<1>1. Init => SerialInv
  <2>1. Init => DirectInv
    BY DEF Init, DirectInv, TypeOK, RoleOrNil, Role, Labels, DirectIntact, AbsentBlank,
           DirectPending, WritersInGroups, DrawnOnce
  <2>2. Init => OwnerPresent /\ \A p \in Procs : ReadsHold(p)
    BY DEF Init, OwnerPresent, IsLiveGroup, ReadsHold, OwnerCalls
  <2>. QED  BY <2>1, <2>2 DEF SerialInv
<1>2. SerialInv /\ [Next]_vars => SerialInv'
  BY SerialStep
<1>3. SerialInv => OwnerPresent
  BY DEF SerialInv
<1>. QED  BY <1>1, <1>2, <1>3, PTL DEF Spec


-----------------------------------------------------------------------------
(* More of what a request alone in the system can rely on: the rows it has *)
(* read are the rows it writes to.                                         *)

\* Rows belong to registered users, and a deleted chat has one at most.
Rows ==
    /\ \A c \in Chats, u \in Users : members[c][u] # "none" => u \in Registered
    /\ \A c \in Chats : deleted[c] => \A u, v \in Users :
          members[c][u] # "none" /\ members[c][v] # "none" => u = v

\* The owner u of chat c has just made t, a member of role was, owner too.
HandedOver(c, u, t, was) ==
    /\ members[c][u] = "owner" /\ members[c][t] = "owner" /\ t # u
    /\ was # "none" /\ t \in Registered
    /\ was = "admin" \/ \A v \in Users \ {u, t} : members[c][v] # "admin"

\* A request has decided what it is going to write on what is still so.
Decided(p) ==
    /\ pc[p] # "idle" => req[p].caller \in Registered
    /\ pc[p] = "directCreate" =>
          /\ req[p].target \in Registered
          /\ DirectChatOf(req[p].caller, req[p].target) = {}
    /\ pc[p] \in {"addProbe", "addInsert", "removeTarget", "removeDelete"} =>
          CanManageMembers(members[req[p].chat][req[p].caller])
    /\ pc[p] = "addInsert" =>
          req[p].target \in Registered /\ members[req[p].chat][req[p].target] = "none"
    /\ pc[p] \in {"removeTarget", "removeDelete"} =>
          req[p].read = members[req[p].chat][req[p].caller]
    /\ pc[p] = "removeDelete" =>
          MayRemove(req[p].read, members[req[p].chat][req[p].target])
    /\ pc[p] \in {"roleTarget", "roleWrite"} => req[p].role \in {"admin", "member"}
    /\ pc[p] = "roleWrite" => members[req[p].chat][req[p].target] # "none"
    /\ pc[p] = "leaveCaller" => req[p].target = req[p].caller
    /\ pc[p] = "leaveDrop" =>
          \A v \in Users \ {req[p].caller} : members[req[p].chat][v] = "none"
    /\ pc[p] = "leavePromote" =>
          /\ req[p].target \in Successors(req[p].chat, req[p].caller)
          /\ req[p].read = members[req[p].chat][req[p].target]
    /\ pc[p] = "leaveRemove" =>
          \/ /\ req[p].target = req[p].caller
             /\ members[req[p].chat][req[p].caller] \in {"admin", "member"}
          \/ HandedOver(req[p].chat, req[p].caller, req[p].target, req[p].read)

AloneInv == SerialInv /\ Rows /\ \A p \in Procs : Decided(p)

\* A statement that writes at most the row of t keeps Rows, if a row that
\* appears is a registered user's and its chat lives.
LEMMA RowsKept ==
    ASSUME Rows, NEW c \in Chats, NEW t \in Users, TouchesOnly(c), deleted' = deleted,
           \A v \in Users \ {t} : members'[c][v] = members[c][v],
           members'[c][t] # "none" => \/ members[c][t] # "none"
                                      \/ t \in Registered /\ ~deleted[c]
    PROVE  Rows'
<1>1. \A d \in Chats, v \in Users : members'[d][v] # "none" =>
          \/ members[d][v] # "none"
          \/ d = c /\ v = t /\ t \in Registered /\ ~deleted[d]
  BY DEF TouchesOnly
<1>. QED  BY <1>1 DEF Rows

LEMMA RowsUnchanged == ASSUME Rows, UNCHANGED store PROVE Rows'
BY DEF Rows, store

LEMMA DecidedIdle == ASSUME NEW p \in Procs, pc'[p] = "idle" PROVE Decided(p)'
BY DEF Decided

\* The request goes on.
LEMMA AloneRequest ==
    ASSUME AloneInv, TypeOK', NEW p \in Procs, Step(p)
    PROVE  Rows' /\ Decided(p)'
<1>0. TypeOK /\ Rows /\ ReadsHold(p) /\ Decided(p)
  BY DEF AloneInv, SerialInv, DirectInv
<1>1. pc[p] # "idle" /\ req[p] \in Request
  BY <1>0 DEF Step, DirectCreate, AddCaller, AddProbe, AddInsert, RemoveCaller,
         RemoveTarget, RemoveDelete, RoleTarget, RoleWrite, LeaveCaller, LeaveMembers,
         LeaveDrop, LeavePromote, LeaveRemove, Fail, TypeOK
<1>2. PICK c \in Chats, u \in Users, t \in Users :
          req[p].chat = c /\ req[p].caller = u /\ req[p].target = t
  BY <1>1 DEF Request
<1>3. ASSUME Return(p) PROVE Decided(p)'
  BY <1>0, <1>3, DecidedIdle DEF Return, TypeOK
<1>4. ASSUME NEW label \in Labels, Goto(p, label)
      PROVE  pc'[p] = label
  BY <1>0, <1>4 DEF Goto, TypeOK
<1>5. ASSUME UNCHANGED store PROVE Rows' /\ members' = members
  BY <1>0, <1>5, RowsUnchanged DEF store
<1>6. CASE DirectCreate(p)
  <2>1. /\ CreateWithMembers(c, "direct", [v \in Users |-> IF v \in {u, t} THEN "member" ELSE "none"])
        /\ Return(p) /\ pc[p] = "directCreate"
    BY <1>2, <1>6 DEF DirectCreate
  <2>2. /\ \A v \in Users : members'[c][v] = IF v \in {u, t} THEN "member" ELSE "none"
        /\ \A d \in Chats \ {c} : members'[d] = members[d]
        /\ deleted' = deleted /\ ~deleted[c]
    BY <1>0, <1>2, <2>1 DEF CreateWithMembers, TypeOK, AloneInv, SerialInv, DirectInv,
                       DirectPending, AbsentBlank
  <2>3. u \in Registered /\ t \in Registered
    BY <1>0, <1>2, <2>1 DEF Decided
  <2>4. Rows'
    BY <1>0, <2>2, <2>3 DEF Rows
  <2>. QED  BY <1>3, <2>1, <2>4
<1>7. CASE AddCaller(p) \/ AddProbe(p) \/ RemoveTarget(p) \/ RoleTarget(p) \/ LeaveCaller(p)
  <2>1. UNCHANGED store
    BY <1>7 DEF AddCaller, AddProbe, RemoveTarget, RoleTarget, LeaveCaller, Check
  <2>2. CASE Return(p)
    BY <1>3, <1>5, <2>1, <2>2
  <2>3. CASE ~Return(p)
    <3>1. UNCHANGED req
      BY <1>7, <2>3 DEF AddCaller, AddProbe, RemoveTarget, RoleTarget, LeaveCaller, Check
    <3>2. \/ /\ pc[p] = "addCaller" /\ pc'[p] = "addProbe"
             /\ CanManageMembers(members[c][u])
          \/ /\ pc[p] = "addProbe" /\ pc'[p] = "addInsert"
             /\ t \in Registered /\ members[c][t] = "none"
          \/ /\ pc[p] = "removeTarget" /\ pc'[p] = "removeDelete"
             /\ MayRemove(req[p].read, members[c][t])
          \/ /\ pc[p] = "roleTarget" /\ pc'[p] = "roleWrite"
             /\ members[c][t] # "none"
          \/ /\ pc[p] = "leaveCaller" /\ pc'[p] = "leaveMembers"
          \/ /\ pc[p] = "leaveCaller" /\ pc'[p] = "leaveRemove"
             /\ members[c][u] \notin {"owner", "none"}
      BY <1>2, <1>4, <1>7, <2>3 DEF AddCaller, AddProbe, RemoveTarget, RoleTarget,
           LeaveCaller, Check, IsMember, Labels
    <3>3. members[c][u] \in RoleOrNil
      BY <1>0 DEF TypeOK
    <3>4. Decided(p)'
      BY <1>0, <1>2, <1>5, <2>1, <3>1, <3>2, <3>3 DEF Decided, RoleOrNil, Role
    <3>. QED  BY <1>5, <2>1, <3>4
  <2>. QED  BY <2>2, <2>3
<1>8. CASE RemoveCaller(p)
  <2>1. UNCHANGED store /\ pc[p] = "removeCaller"
    BY <1>8 DEF RemoveCaller
  <2>2. CASE Return(p)
    BY <1>3, <1>5, <2>1, <2>2
  <2>3. CASE ~Return(p)
    <3>1. /\ Goto(p, "removeTarget") /\ req' = [req EXCEPT ![p].read = members[c][u]]
          /\ CanManageMembers(members[c][u])
      BY <1>2, <1>8, <2>3 DEF RemoveCaller
    <3>2. /\ req'[p].chat = c /\ req'[p].caller = u /\ req'[p].target = t
          /\ req'[p].read = members[c][u]
      BY <1>0, <1>1, <1>2, <3>1 DEF TypeOK, Request
    <3>3. pc'[p] = "removeTarget"
      BY <1>4, <3>1 DEF Labels
    <3>4. u \in Registered
      BY <1>0, <1>1, <1>2 DEF Decided
    <3>5. Decided(p)'
      BY <1>5, <2>1, <3>1, <3>2, <3>3, <3>4 DEF Decided
    <3>. QED  BY <1>5, <2>1, <3>5
  <2>. QED  BY <2>2, <2>3
<1>9. CASE LeaveMembers(p)
  <2>1. UNCHANGED store /\ pc[p] = "leaveMembers" /\ u \in Registered
    BY <1>0, <1>2, <1>9 DEF LeaveMembers, Decided
  <2>2. CASE Goto(p, "leaveDrop") /\ UNCHANGED req /\ Successors(c, u) = {}
    <3>1. pc'[p] = "leaveDrop"
      BY <1>4, <2>2 DEF Labels
    <3>2. \A v \in Users \ {u} : members[c][v] = "none"
      BY <2>2 DEF Successors, IsMember
    <3>3. Decided(p)'
      BY <1>2, <1>5, <2>1, <2>2, <3>1, <3>2 DEF Decided
    <3>. QED  BY <1>5, <2>1, <3>3
  <2>3. ASSUME NEW v \in Successors(c, u), Goto(p, "leavePromote"),
               req' = [req EXCEPT ![p].target = v, ![p].read = members[c][v]]
        PROVE  Rows' /\ Decided(p)'
    <3>1. pc'[p] = "leavePromote"
      BY <1>4, <2>3 DEF Labels
    <3>2. /\ req'[p].chat = c /\ req'[p].caller = u /\ req'[p].target = v
          /\ req'[p].read = members[c][v]
      BY <1>0, <1>1, <1>2, <2>3 DEF TypeOK, Request
    <3>3. Successors(c, u)' = Successors(c, u)
      BY <1>5, <2>1 DEF Successors, IsMember
    <3>4. Decided(p)'
      BY <1>5, <2>1, <3>1, <3>2, <3>3 DEF Decided, Successors, IsMember
    <3>. QED  BY <1>5, <2>1, <3>4
  <2>. QED  BY <1>2, <1>9, <2>2, <2>3 DEF LeaveMembers
<1>10. CASE AddInsert(p)
  <2>1. /\ InsertRow(c, t, "member") /\ Return(p)
        /\ t \in Registered /\ ~deleted[c]
    BY <1>0, <1>2, <1>10 DEF AddInsert, Decided, ReadsHold
  <2>2. Rows'
    BY <1>0, <2>1, RowEffect, RowTouches, RowsKept DEF InsertRow
  <2>. QED  BY <1>3, <2>1, <2>2
<1>11. CASE RemoveDelete(p)
  <2>1. DeleteRow(c, t) /\ Return(p)
    BY <1>2, <1>11 DEF RemoveDelete
  <2>2. Rows'
    BY <1>0, <2>1, RowEffect, RowTouches, RowsKept DEF DeleteRow
  <2>. QED  BY <1>3, <2>1, <2>2
<1>12. CASE RoleWrite(p)
  <2>1. WriteRole(c, t, req[p].role) /\ Return(p)
    BY <1>2, <1>12 DEF RoleWrite
  <2>2. Rows'
    BY <1>0, <2>1, RowEffect, RowTouches, RowsKept DEF WriteRole
  <2>. QED  BY <1>3, <2>1, <2>2
<1>13. CASE LeaveDrop(p)
  <2>1. DeleteChat(c) /\ Return(p) /\ \A v \in Users \ {u} : members[c][v] = "none"
    BY <1>0, <1>2, <1>13 DEF LeaveDrop, Decided
  <2>2. members' = members /\ \A d \in Chats \ {c} : deleted'[d] = deleted[d]
    BY <1>0, <2>1 DEF DeleteChat, TypeOK
  <2>3. Rows'
    BY <1>0, <2>1, <2>2 DEF Rows
  <2>. QED  BY <1>3, <2>1, <2>3
<1>14. CASE LeavePromote(p)
  <2>1. /\ WriteRole(c, t, "owner") /\ pc[p] = "leavePromote" /\ t # u
        /\ members[c][u] = "owner" /\ u \in Registered
        /\ t \in Successors(c, u) /\ req[p].read = members[c][t]
    BY <1>0, <1>2, <1>14 DEF LeavePromote, ReadsHold, Decided, OwnerCalls
  <2>2. Rows'
    BY <1>0, <2>1, RowEffect, RowTouches, RowsKept DEF WriteRole
  <2>3. CASE Return(p)
    BY <1>3, <2>2, <2>3
  <2>4. CASE ~Return(p)
    <3>1. Goto(p, "leaveRemove") /\ UNCHANGED req /\ members[c][t] # "none"
      BY <1>2, <1>14, <2>4 DEF LeavePromote, RoleRowAffected, RoleRowExists
    <3>2. pc'[p] = "leaveRemove"
      BY <1>4, <3>1 DEF Labels
    <3>3. members'[c][t] = "owner" /\ \A v \in Users \ {t} : members'[c][v] = members[c][v]
      BY <1>0, <2>1, <3>1, RowEffect
    <3>4. t \in Registered
      BY <1>0, <3>1 DEF Rows
    <3>5. req[p].read = "admin" \/ \A v \in Users \ {u, t} : members[c][v] # "admin"
      BY <2>1 DEF Successors, IsMember
    <3>6. HandedOver(c, u, t, req[p].read)'
      BY <2>1, <3>1, <3>3, <3>4, <3>5 DEF HandedOver
    <3>7. Decided(p)'
      BY <1>2, <2>1, <3>1, <3>2, <3>6 DEF Decided, HandedOver
    <3>. QED  BY <2>2, <3>7
  <2>. QED  BY <2>3, <2>4
<1>15. CASE LeaveRemove(p)
  <2>1. DeleteRow(c, u) /\ Return(p)
    BY <1>2, <1>15 DEF LeaveRemove
  <2>2. Rows'
    BY <1>0, <2>1, RowEffect, RowTouches, RowsKept DEF DeleteRow
  <2>. QED  BY <1>3, <2>1, <2>2
<1>16. CASE Fail(p)
  BY <1>0, <1>5, <1>16, DecidedIdle DEF Fail, TypeOK
<1>. QED  BY <1>6, <1>7, <1>8, <1>9, <1>10, <1>11, <1>12, <1>13, <1>14, <1>15, <1>16 DEF Step

\* A request arrives: it knows its caller and what its first statements read.
LEMMA AloneArrive ==
    ASSUME AloneInv, TypeOK', NEW p \in Procs, Arrive(p)
    PROVE  Rows' /\ Decided(p)'
<1>0. TypeOK /\ Rows
  BY DEF AloneInv, SerialInv, DirectInv
<1>1. PICK c \in Chats, caller \in Registered, target \in Users :
          \/ DirectLookup(p, caller, target)
          \/ AddBegin(p, c, caller, target)
          \/ RemoveBegin(p, c, caller, target)
          \/ \E role \in RoleInput : RoleBegin(p, c, caller, target, role)
          \/ LeaveBegin(p, c, caller)
  BY DEF Arrive
<1>2. UNCHANGED store
  BY <1>1 DEF DirectLookup, AddBegin, RemoveBegin, RoleBegin, LeaveBegin
<1>3. /\ req'[p].caller = caller
      /\ \/ /\ pc'[p] = "directCreate" /\ req'[p].target = target /\ target \in Registered
            /\ DirectChatOf(caller, target) = {}
         \/ pc'[p] \in {"addCaller", "removeCaller"}
         \/ pc'[p] = "leaveCaller" /\ req'[p].target = caller
         \/ pc'[p] = "roleTarget" /\ req'[p].role \in {"admin", "member"}
  BY <1>0, <1>1 DEF DirectLookup, AddBegin, RemoveBegin, RoleBegin, LeaveBegin, Begin, TypeOK
<1>4. DirectChatOf(caller, target)' = DirectChatOf(caller, target)
  BY <1>2 DEF DirectChatOf, store
<1>5. Decided(p)'
  BY <1>3, <1>4 DEF Decided, DirectChatOf
<1>. QED  BY <1>0, <1>2, <1>5, RowsUnchanged

\* A new group with registered members disturbs nobody's decision.
LEMMA AloneFound ==
    ASSUME AloneInv, TypeOK', NEW caller \in Registered, NEW ids \in SUBSET Users,
           CreateGroup(caller, ids)
    PROVE  Rows' /\ \A q \in Procs : Decided(q)'
<1>0. TypeOK /\ Rows
  BY DEF AloneInv, SerialInv, DirectInv
<1>1. PICK c \in FreshIds : CreateWithMembers(c, "group",
          [u \in Users |-> IF u = caller THEN "owner"
                           ELSE IF u \in ids THEN "member" ELSE "none"])
  BY DEF CreateGroup
<1>2. /\ c \in Chats /\ kind[c] = "absent" /\ caller \in Users
      /\ UNCHANGED <<pc, req, deleted>> /\ ids \ {caller} \subseteq Registered
      /\ ~deleted[c]
  BY <1>1, RegisteredAssumption DEF CreateGroup, CreateWithMembers, FreshIds, AloneInv,
                                    SerialInv, DirectInv, AbsentBlank
<1>3. /\ kind'[c] = "group"
      /\ \A u \in Users : members'[c][u] # "none" => u = caller \/ u \in ids
      /\ \A d \in Chats \ {c} : kind'[d] = kind[d] /\ members'[d] = members[d]
  BY <1>0, <1>1, <1>2 DEF CreateWithMembers, TypeOK
<1>4. Rows'
  BY <1>0, <1>2, <1>3 DEF Rows
<1>5. ASSUME NEW q \in Procs PROVE Decided(q)'
  <2>0. Decided(q) /\ pc'[q] = pc[q] /\ req'[q] = req[q]
    BY <1>2 DEF AloneInv
  <2>1. CASE pc[q] = "idle"
    BY <2>0, <2>1, DecidedIdle
  <2>2. CASE pc[q] = "directCreate"
    <3>. DEFINE a == req[q].caller
                b == req[q].target
    <3>1. DirectChatOf(a, b) = {} /\ a \in Registered /\ b \in Registered
      BY <2>0, <2>2 DEF Decided
    <3>2. DirectChatOf(a, b)' = {}
      BY <1>2, <1>3, <2>0, <3>1 DEF DirectChatOf
    <3>. QED  BY <2>0, <2>2, <3>1, <3>2 DEF Decided, DirectChatOf
  <2>3. CASE pc[q] \notin {"idle", "directCreate"}
    <3>1. req[q].chat \in Chats /\ kind[req[q].chat] = "group"
      BY <2>3 DEF AloneInv, SerialInv, DirectInv, WritersInGroups, TypeOK, Request
    <3>2. members'[req[q].chat] = members[req[q].chat]
      BY <1>2, <1>3, <3>1
    <3>. QED  BY <2>0, <2>3, <3>2 DEF Decided, HandedOver, Successors, IsMember
  <2>. QED  BY <2>1, <2>2, <2>3
<1>. QED  BY <1>4, <1>5

LEMMA AloneStep ==
    ASSUME OneRequestAtATime, AloneInv, [Next]_vars
    PROVE  AloneInv'
<1>1. SerialInv' /\ TypeOK'
  BY SerialStep DEF AloneInv, SerialInv, DirectInv
<1>2. ASSUME NEW p \in Procs, Arrive(p) \/ Step(p)
      PROVE  Rows' /\ \A q \in Procs : Decided(q)'
  <2>1. Rows' /\ Decided(p)'
    BY <1>1, <1>2, AloneArrive, AloneRequest
  <2>. QED  BY <2>1 DEF OneRequestAtATime
<1>3. CASE UNCHANGED vars
  <2>1. UNCHANGED <<store, pc, req>> /\ UNCHANGED <<kind, deleted, members>>
    BY <1>3 DEF vars, store
  <2>2. Rows'
    BY <2>1, RowsUnchanged DEF AloneInv
  <2>3. ASSUME NEW q \in Procs PROVE Decided(q)'
    <3>1. Decided(q)
      BY DEF AloneInv
    <3>. QED  BY <2>1, <3>1 DEF Decided, HandedOver, Successors, IsMember, DirectChatOf
  <2>. QED  BY <1>1, <2>2, <2>3 DEF AloneInv
<1>. QED  BY <1>1, <1>2, <1>3, AloneFound DEF Next, AloneInv

LEMMA AloneInitial == Init => AloneInv
<1>1. Init => DirectInv
  BY DEF Init, DirectInv, TypeOK, RoleOrNil, Role, Labels, DirectIntact, AbsentBlank,
         DirectPending, WritersInGroups, DrawnOnce
<1>2. Init => OwnerPresent /\ \A p \in Procs : ReadsHold(p)
  BY DEF Init, OwnerPresent, IsLiveGroup, ReadsHold, OwnerCalls
<1>3. Init => Rows /\ \A p \in Procs : Decided(p)
  BY DEF Init, Rows, Decided
<1>. QED  BY <1>1, <1>2, <1>3 DEF SerialInv, AloneInv

\* What a request alone in the system relies on, as an invariant.
THEOREM AloneInvariant ==
    ASSUME OneRequestAtATime
    PROVE  Spec => []AloneInv
<1>1. AloneInv /\ [Next]_vars => AloneInv'
  BY AloneStep
<1>. QED  BY <1>1, AloneInitial, PTL DEF Spec

-----------------------------------------------------------------------------
\* With PostgreSQL a LeaveChat that nothing overlaps or cuts off takes its
\* caller out of the chat or deletes the chat, for any users and chats and
\* however many attempts were cut off before.  (With MySQL it may not: run
\* LeaveStuck.)
THEOREM LeavingWorks ==
    ASSUME OneRequestAtATime, Driver = "postgres"
    PROVE  Spec => LeaveLeaves
<1>. DEFINE A == \A p \in Procs :
                    Leaving(p) /\ pc'[p] = "idle" /\ failures' = failures =>
                        \/ members'[req[p].chat][req[p].caller] = "none"
                        \/ deleted'[req[p].chat]
<1>1. AloneInv /\ [Next]_vars => [A]_vars
  <2>. SUFFICES ASSUME AloneInv, Next, NEW p \in Procs, Leaving(p), pc'[p] = "idle",
                       failures' = failures
                PROVE  \/ members'[req[p].chat][req[p].caller] = "none"
                       \/ deleted'[req[p].chat]
    OBVIOUS
  <2>0. TypeOK /\ Decided(p)
    BY DEF AloneInv, SerialInv, DirectInv
  <2>1. pc[p] # "idle" /\ pc' # pc /\ req[p] \in Request
    BY <2>0 DEF Leaving, TypeOK
  <2>2. PICK c \in Chats, u \in Users, t \in Users :
            req[p].chat = c /\ req[p].caller = u /\ req[p].target = t
    BY <2>1 DEF Request
  <2>3. Arrive(p) \/ Step(p)
    BY <2>1 DEF Next, CreateGroup, OneRequestAtATime
  <2>4. ~Arrive(p)
    BY <2>1 DEF Arrive, DirectLookup, AddBegin, RemoveBegin, RoleBegin, LeaveBegin, Begin
  <2>5. ~Fail(p)
    BY <2>0 DEF Fail, TypeOK
  <2>6. LeaveCaller(p) \/ LeaveMembers(p) \/ LeaveDrop(p) \/ LeavePromote(p) \/ LeaveRemove(p)
    BY <2>3, <2>4, <2>5 DEF Step, Leaving, DirectCreate, AddCaller, AddProbe, AddInsert,
         RemoveCaller, RemoveTarget, RemoveDelete, RoleTarget, RoleWrite
  <2>7. ASSUME NEW label \in Labels \ {"idle"}, Goto(p, label) PROVE FALSE
    BY <2>0, <2>7 DEF Goto, TypeOK
  <2>8. CASE LeaveCaller(p)
    BY <2>2, <2>7, <2>8 DEF LeaveCaller, Check, Labels, store
  <2>9. CASE LeaveMembers(p)
    BY <2>7, <2>9 DEF LeaveMembers, Labels
  <2>10. CASE LeaveDrop(p)
    BY <2>0, <2>2, <2>10 DEF LeaveDrop, DeleteChat, TypeOK
  <2>11. CASE LeavePromote(p)
    <3>1. pc[p] = "leavePromote" /\ t \in Successors(c, u)
      BY <2>0, <2>2, <2>11 DEF LeavePromote, Decided
    <3>2. RoleRowAffected(c, t, "owner")
      BY <3>1 DEF RoleRowAffected, RoleRowExists, Successors, IsMember
    <3>. QED  BY <2>2, <2>7, <2>11, <3>2 DEF LeavePromote, Labels
  <2>12. CASE LeaveRemove(p)
    BY <2>0, <2>2, <2>12, RowEffect DEF LeaveRemove
  <2>. QED  BY <2>6, <2>8, <2>9, <2>10, <2>11, <2>12
<1>. QED  BY <1>1, AloneInvariant, PTL DEF Spec, LeaveLeaves

-----------------------------------------------------------------------------
(* The refinement: what the bars are, and what each step does to them.     *)

Rosters == [Chats -> [Users -> RoleOrNil]]

\* Two rosters that agree on every row are the same.
LEMMA SameRoster ==
    ASSUME NEW f \in Rosters, NEW g \in Rosters,
           \A c \in Chats, u \in Users : f[c][u] = g[c][u]
    PROVE  f = g
<1>1. \A c \in Chats : f[c] = g[c]
  BY DEF Rosters
<1>. QED  BY <1>1 DEF Rosters

\* A roster with one row written.
LEMMA OneRowWritten ==
    ASSUME NEW f \in Rosters, NEW c \in Chats, NEW u \in Users, NEW x \in RoleOrNil
    PROVE  /\ [f EXCEPT ![c][u] = x] \in Rosters
           /\ \A d \in Chats, v \in Users :
                 [f EXCEPT ![c][u] = x][d][v] = IF d = c /\ v = u THEN x ELSE f[d][v]
BY DEF Rosters

\* A roster with one chat written.
LEMMA OneChatWritten ==
    ASSUME NEW f \in Rosters, NEW c \in Chats, NEW g \in [Users -> RoleOrNil]
    PROVE  /\ [f EXCEPT ![c] = g] \in Rosters
           /\ \A d \in Chats, v \in Users :
                 [f EXCEPT ![c] = g][d][v] = IF d = c THEN g[v] ELSE f[d][v]
BY DEF Rosters

\* No goroutine is between the promotion of a successor and its own removal.
Quiet == \A p \in Procs : pc[p] = "leaveRemove" => req[p].target = req[p].caller

\* Goroutine p is.
Handing(p) == pc[p] = "leaveRemove" /\ req[p].target # req[p].caller

\* Then the bar is the table, or the table without the promotion.
LEMMA BarQuiet == TypeOK /\ Quiet => rosterBar = members
<1>. SUFFICES ASSUME TypeOK, Quiet PROVE rosterBar = members
  OBVIOUS
<1>1. \A c \in Chats, u \in Users : ~\E p \in Procs : HandingOver(p, c, u)
  BY DEF Quiet, HandingOver
<1>2. rosterBar = [c \in Chats |-> [u \in Users |-> members[c][u]]]
  BY <1>1 DEF rosterBar
<1>. QED  BY <1>2 DEF TypeOK

LEMMA BarHanding ==
    \A p \in Procs : OneRequestAtATime /\ TypeOK /\ Handing(p) =>
        rosterBar = [members EXCEPT ![req[p].chat][req[p].target] = req[p].read]
<1>. SUFFICES ASSUME NEW p \in Procs, OneRequestAtATime, TypeOK, Handing(p)
              PROVE  rosterBar = [members EXCEPT ![req[p].chat][req[p].target] = req[p].read]
  OBVIOUS
<1>. DEFINE c == req[p].chat
            t == req[p].target
            x == req[p].read
<1>1. c \in Chats /\ t \in Users /\ x \in RoleOrNil /\ members \in Rosters
  BY DEF TypeOK, Handing, Request, Rosters
<1>2. \A d \in Chats, v \in Users, q \in Procs :
          HandingOver(q, d, v) <=> q = p /\ d = c /\ v = t
  BY DEF OneRequestAtATime, HandingOver, Handing
<1>3. ASSUME NEW d \in Chats, NEW v \in Users
      PROVE  rosterBar[d][v] = IF d = c /\ v = t THEN x ELSE members[d][v]
  <2>1. CASE d = c /\ v = t
    <3>1. \E q \in Procs : HandingOver(q, d, v)
      BY <1>2, <2>1
    <3>2. (CHOOSE q \in Procs : HandingOver(q, d, v)) = p
      BY <1>2, <3>1
    <3>. QED  BY <2>1, <3>1, <3>2 DEF rosterBar
  <2>2. CASE ~(d = c /\ v = t)
    BY <1>2, <2>2 DEF rosterBar
  <2>. QED  BY <2>1, <2>2
<1>. HIDE DEF c, t, x
<1>4. rosterBar \in Rosters
  <2>1. \A d \in Chats, v \in Users : rosterBar[d][v] \in RoleOrNil
    BY <1>1, <1>3 DEF Rosters
  <2>2. /\ DOMAIN rosterBar = Chats
        /\ \A d \in Chats : rosterBar[d] = [v \in Users |-> rosterBar[d][v]]
        /\ rosterBar = [d \in Chats |-> rosterBar[d]]
    BY DEF rosterBar
  <2>3. \A d \in Chats : rosterBar[d] \in [Users -> RoleOrNil]
    BY <2>1, <2>2
  <2>. QED  BY <2>2, <2>3 DEF Rosters
<1>5. rosterBar = [members EXCEPT ![c][t] = x]
  <2>. DEFINE g == [members EXCEPT ![c][t] = x]
  <2>1. /\ g \in Rosters
        /\ \A d \in Chats, v \in Users :
              g[d][v] = IF d = c /\ v = t THEN x ELSE members[d][v]
    BY <1>1, OneRowWritten
  <2>. HIDE DEF g
  <2>2. \A d \in Chats, v \in Users : rosterBar[d][v] = g[d][v]
    BY <1>3, <2>1
  <2>3. rosterBar = g
    BY <1>4, <2>1, <2>2, SameRoster
  <2>. QED  BY <2>3 DEF g
<1>. QED  BY <1>5 DEF c, t, x

\* The same of the next state.
LEMMA BarQuietNext == (TypeOK /\ Quiet => rosterBar = members)'
BY BarQuiet, PTL

LEMMA BarHandingNext ==
    (\A p \in Procs : OneRequestAtATime /\ TypeOK /\ Handing(p) =>
        rosterBar = [members EXCEPT ![req[p].chat][req[p].target] = req[p].read])'
BY BarHanding, PTL

\* A step of p that neither starts nor ends in the middle of a hand-over.
LEMMA BarSteady ==
    ASSUME OneRequestAtATime, TypeOK, TypeOK', NEW p \in Procs, ~Handing(p), ~Handing(p)'
    PROVE  rosterBar = members /\ rosterBar' = members'
<1>1. Quiet /\ Quiet'
  BY DEF OneRequestAtATime, Quiet, Handing
<1>. QED  BY <1>1, BarQuiet, BarQuietNext

LEMMA StatusSame == ASSUME UNCHANGED <<kind, deleted>> PROVE UNCHANGED statusBar
BY DEF statusBar

LEMMA StatusIs ==
    ASSUME NEW c \in Chats
    PROVE  /\ IsLiveGroup(c) => statusBar[c] = "group"
           /\ ~deleted[c] => statusBar[c] = kind[c]
BY DEF statusBar, IsLiveGroup

\* What a step is to ChatGroup: nothing, an operation, or a hand-over that a
\* database error has cut off.
Mapped ==
    \/ UNCHANGED <<statusBar, rosterBar>>
    \/ Group!Operation
    \/ Group!CutOff /\ failures' = failures + 1

\* CreateGroup founds a group, whatever the one other request is doing.
LEMMA MapFound ==
    ASSUME OneRequestAtATime, AloneInv, TypeOK',
           NEW caller \in Registered, NEW ids \in SUBSET Users, CreateGroup(caller, ids)
    PROVE  Mapped
<1>. DEFINE group == [u \in Users |-> IF u = caller THEN "owner"
                                      ELSE IF u \in ids THEN "member" ELSE "none"]
<1>0. TypeOK /\ members \in Rosters /\ members' \in Rosters
  BY DEF AloneInv, SerialInv, DirectInv, TypeOK, Rosters
<1>1. PICK c \in FreshIds : CreateWithMembers(c, "group", group)
  BY DEF CreateGroup
<1>2. /\ c \in Chats /\ kind[c] = "absent" /\ ~deleted[c]
      /\ UNCHANGED <<pc, req, deleted>> /\ ids \ {caller} \in SUBSET Registered
      /\ kind' = [kind EXCEPT ![c] = "group"] /\ members' = [members EXCEPT ![c] = group]
  BY <1>1 DEF CreateGroup, CreateWithMembers, FreshIds, AloneInv, SerialInv, DirectInv,
              AbsentBlank
<1>3. group \in [Users -> RoleOrNil]
  BY DEF RoleOrNil, Role
<1>. HIDE DEF group
<1>4. statusBar[c] = "absent" /\ statusBar' = [statusBar EXCEPT ![c] = "group"]
  BY <1>0, <1>2 DEF statusBar, TypeOK
<1>5. rosterBar' = [rosterBar EXCEPT ![c] = group]
  <2>1. CASE Quiet
    <3>1. Quiet'
      BY <1>2, <2>1 DEF Quiet
    <3>. QED  BY <1>0, <1>2, <2>1, <3>1, BarQuiet, BarQuietNext
  <2>2. CASE ~Quiet
    <3>1. PICK p \in Procs : Handing(p)
      BY <2>2 DEF Quiet, Handing
    <3>2. PICK d \in Chats, t \in Users, x \in RoleOrNil :
              req[p].chat = d /\ req[p].target = t /\ req[p].read = x
      BY <1>0, <3>1 DEF Handing, TypeOK, Request
    <3>3. kind[d] = "group" /\ d # c
      BY <1>2, <3>1, <3>2 DEF Handing, AloneInv, SerialInv, DirectInv, WritersInGroups
    <3>4. rosterBar = [members EXCEPT ![d][t] = x]
      BY <1>0, <3>1, <3>2, BarHanding
    <3>5. rosterBar' = [members' EXCEPT ![d][t] = x]
      <4>1. Handing(p)' /\ req'[p] = req[p]
        BY <1>2, <3>1 DEF Handing
      <4>. QED  BY <3>2, <4>1, BarHandingNext DEF OneRequestAtATime
    <3>6. /\ rosterBar \in Rosters
          /\ \A e \in Chats, v \in Users :
                rosterBar[e][v] = IF e = d /\ v = t THEN x ELSE members[e][v]
      <4>1. /\ [members EXCEPT ![d][t] = x] \in Rosters
            /\ \A e \in Chats, v \in Users : [members EXCEPT ![d][t] = x][e][v]
                  = IF e = d /\ v = t THEN x ELSE members[e][v]
        BY <1>0, OneRowWritten
      <4>. QED  BY ONLY <3>4, <4>1
    <3>7. /\ rosterBar' \in Rosters
          /\ \A e \in Chats, v \in Users :
                rosterBar'[e][v] = IF e = d /\ v = t THEN x ELSE members'[e][v]
      <4>1. /\ [members' EXCEPT ![d][t] = x] \in Rosters
            /\ \A e \in Chats, v \in Users : [members' EXCEPT ![d][t] = x][e][v]
                  = IF e = d /\ v = t THEN x ELSE members'[e][v]
        BY <1>0, OneRowWritten
      <4>. QED  BY ONLY <3>5, <4>1
    <3>8. \A e \in Chats, v \in Users :
              members'[e][v] = IF e = c THEN group[v] ELSE members[e][v]
      BY <1>0, <1>2, <1>3, OneChatWritten
    <3>. DEFINE new == [rosterBar EXCEPT ![c] = group]
    <3>9. /\ new \in Rosters
          /\ \A e \in Chats, v \in Users :
                new[e][v] = IF e = c THEN group[v] ELSE rosterBar[e][v]
      BY <1>2, <1>3, <3>6, OneChatWritten
    <3>. HIDE DEF new
    <3>10. \A e \in Chats, v \in Users : rosterBar'[e][v] = new[e][v]
      BY <3>3, <3>6, <3>7, <3>8, <3>9
    <3>11. rosterBar' = new
      BY <3>7, <3>9, <3>10, SameRoster
    <3>. QED  BY <3>11 DEF new
  <2>. QED  BY <2>1, <2>2
<1>6. group = [u \in Users |-> IF u = caller THEN "owner"
                               ELSE IF u \in ids \ {caller} THEN "member" ELSE "none"]
  BY DEF group
<1>7. Group!Found(c, caller, ids \ {caller})
  BY <1>2, <1>4, <1>5, <1>6 DEF Group!Found
<1>. QED  BY <1>2, <1>7 DEF Mapped, Group!Operation

\* A request arrives or reads: nothing happens.
LEMMA MapRead ==
    ASSUME OneRequestAtATime, AloneInv, TypeOK', NEW p \in Procs, UNCHANGED store,
           ~Handing(p), ~Handing(p)'
    PROVE  Mapped
<1>1. TypeOK /\ UNCHANGED <<kind, deleted, members>>
  BY DEF AloneInv, SerialInv, DirectInv, store
<1>. QED  BY <1>1, BarSteady, StatusSame DEF Mapped

\* A statement that changes one row and ends its request.
LEMMA MapWrite ==
    ASSUME OneRequestAtATime, AloneInv, TypeOK', NEW p \in Procs, ~Handing(p),
           AddInsert(p) \/ RemoveDelete(p) \/ RoleWrite(p) \/ LeaveRemove(p)
    PROVE  Mapped
<1>0. TypeOK /\ Rows /\ ReadsHold(p) /\ Decided(p)
  BY DEF AloneInv, SerialInv, DirectInv
<1>1. pc[p] \notin {"idle", "directCreate"} /\ req[p] \in Request
  BY <1>0 DEF AddInsert, RemoveDelete, RoleWrite, LeaveRemove, TypeOK
<1>2. PICK c \in Chats, u \in Users, t \in Users :
          req[p].chat = c /\ req[p].caller = u /\ req[p].target = t
  BY <1>1 DEF Request
<1>3. u \in Registered /\ kind[c] = "group"
  BY <1>0, <1>1, <1>2 DEF Decided, AloneInv, SerialInv, DirectInv, WritersInGroups
<1>4. Return(p) /\ UNCHANGED <<kind, deleted>>
  BY DEF AddInsert, RemoveDelete, RoleWrite, LeaveRemove, InsertRow, DeleteRow, WriteRole
<1>5. ~Handing(p)'
  BY <1>0, <1>4 DEF Return, Handing, TypeOK
<1>6. rosterBar = members /\ rosterBar' = members' /\ UNCHANGED statusBar
  BY <1>0, <1>4, <1>5, BarSteady, StatusSame
<1>7. CASE AddInsert(p)
  <2>1. /\ members[c][t] = "none" /\ t \in Registered /\ ~deleted[c]
        /\ members[c][u] \in {"owner", "admin"}
    BY <1>0, <1>2, <1>7 DEF AddInsert, Decided, ReadsHold, CanManageMembers
  <2>2. members' = [members EXCEPT ![c][t] = "member"]
    BY <1>2, <1>7, <2>1 DEF AddInsert, InsertRow, IsMember
  <2>3. statusBar[c] = "group"
    BY <1>3, <2>1, StatusIs
  <2>4. Group!Admit(c, u, t)
    BY <1>6, <2>1, <2>2, <2>3 DEF Group!Admit, Group!Manages, Group!In
  <2>. QED  BY <1>3, <2>1, <2>4 DEF Mapped, Group!Operation
<1>8. CASE RemoveDelete(p)
  <2>1. /\ MayRemove(members[c][u], members[c][t]) /\ ~deleted[c]
        /\ members[c][u] \in {"owner", "admin"}
    BY <1>0, <1>2, <1>8 DEF RemoveDelete, Decided, ReadsHold, CanManageMembers
  <2>2. members' = [members EXCEPT ![c][t] = "none"]
    BY <1>2, <1>8 DEF RemoveDelete, DeleteRow
  <2>3. t \in Registered
    BY <1>0, <2>1 DEF Rows, MayRemove
  <2>4. statusBar[c] = "group"
    BY <1>3, <2>1, StatusIs
  <2>5. Group!Expel(c, u, t)
    BY <1>6, <2>1, <2>2, <2>4 DEF Group!Expel, Group!Manages, MayRemove
  <2>. QED  BY <1>3, <2>3, <2>5 DEF Mapped, Group!Operation
<1>9. CASE RoleWrite(p)
  <2>. DEFINE role == req[p].role
  <2>1. /\ role \in {"admin", "member"} /\ members[c][t] # "none"
        /\ members[c][u] = "owner" /\ t # u
    BY <1>0, <1>2, <1>9 DEF RoleWrite, Decided, ReadsHold, OwnerCalls
  <2>2. members' = [members EXCEPT ![c][t] = role]
    BY <1>2, <1>9, <2>1 DEF RoleWrite, WriteRole, RoleRowExists
  <2>3. t \in Registered /\ ~deleted[c]
    BY <1>0, <2>1 DEF Rows
  <2>4. statusBar[c] = "group"
    BY <1>3, <2>3, StatusIs
  <2>. HIDE DEF role
  <2>5. Group!Grade(c, u, t, role)
    BY <1>6, <2>1, <2>2, <2>4 DEF Group!Grade, Group!In
  <2>. QED  BY <1>3, <2>1, <2>3, <2>5 DEF Mapped, Group!Operation
<1>10. CASE LeaveRemove(p)
  <2>1. members[c][u] \in {"admin", "member"} /\ ~deleted[c]
    BY <1>0, <1>2, <1>10 DEF LeaveRemove, Decided, HandedOver, Handing, ReadsHold
  <2>2. members' = [members EXCEPT ![c][u] = "none"]
    BY <1>2, <1>10 DEF LeaveRemove, DeleteRow
  <2>3. statusBar[c] = "group"
    BY <1>3, <2>1, StatusIs
  <2>4. Group!LeaveAsMember(c, u)
    BY <1>6, <2>1, <2>2, <2>3 DEF Group!LeaveAsMember
  <2>. QED  BY <1>3, <2>4 DEF Mapped, Group!Operation
<1>. QED  BY <1>7, <1>8, <1>9, <1>10

\* The statements that create and delete a chat.
LEMMA MapChat ==
    ASSUME OneRequestAtATime, AloneInv, TypeOK', NEW p \in Procs,
           DirectCreate(p) \/ LeaveDrop(p)
    PROVE  Mapped
<1>0. TypeOK /\ ReadsHold(p) /\ Decided(p)
  BY DEF AloneInv, SerialInv, DirectInv
<1>1. pc[p] \in {"directCreate", "leaveDrop"} /\ req[p] \in Request
  BY <1>0 DEF DirectCreate, LeaveDrop, TypeOK
<1>2. PICK c \in Chats, u \in Users, t \in Users :
          req[p].chat = c /\ req[p].caller = u /\ req[p].target = t
  BY <1>1 DEF Request
<1>3. u \in Registered /\ ~Handing(p)
  BY <1>0, <1>1, <1>2 DEF Decided, Handing
<1>4. ~Handing(p)'
  BY <1>0 DEF DirectCreate, LeaveDrop, Return, Handing, TypeOK
<1>5. rosterBar = members /\ rosterBar' = members'
  BY <1>0, <1>3, <1>4, BarSteady
<1>6. CASE DirectCreate(p)
  <2>1. /\ u # t /\ t \in Registered /\ DirectChatOf(u, t) = {}
        /\ kind[c] = "absent" /\ ~deleted[c]
    BY <1>0, <1>2, <1>6 DEF DirectCreate, Decided, AloneInv, SerialInv, DirectInv,
                            DirectPending, AbsentBlank
  <2>2. /\ members' = [members EXCEPT ![c] =
               [v \in Users |-> IF v \in {u, t} THEN "member" ELSE "none"]]
        /\ kind' = [kind EXCEPT ![c] = "direct"] /\ UNCHANGED deleted
    BY <1>2, <1>6 DEF DirectCreate, CreateWithMembers
  <2>3. statusBar[c] = "absent" /\ statusBar' = [statusBar EXCEPT ![c] = "direct"]
    BY <1>0, <2>1, <2>2 DEF statusBar, TypeOK
  <2>4. \A d \in Chats : statusBar[d] = "direct" =>
            members[d][u] = "none" \/ members[d][t] = "none"
    BY <2>1 DEF DirectChatOf, statusBar
  <2>5. Group!OpenDirect(c, u, t)
    BY <1>5, <2>1, <2>2, <2>3, <2>4 DEF Group!OpenDirect, Group!In
  <2>. QED  BY <1>3, <2>1, <2>5 DEF Mapped, Group!Operation
<1>7. CASE LeaveDrop(p)
  <2>1. /\ members[c][u] = "owner" /\ ~deleted[c] /\ kind[c] = "group"
        /\ \A v \in Users \ {u} : members[c][v] = "none"
    BY <1>0, <1>2, <1>7 DEF LeaveDrop, Decided, ReadsHold, OwnerCalls, AloneInv, SerialInv,
                            DirectInv, WritersInGroups
  <2>2. deleted' = [deleted EXCEPT ![c] = TRUE] /\ UNCHANGED <<kind, members>>
    BY <1>2, <1>7 DEF LeaveDrop, DeleteChat
  <2>3. statusBar[c] = "group" /\ statusBar' = [statusBar EXCEPT ![c] = "gone"]
    BY <1>0, <2>1, <2>2 DEF statusBar, TypeOK
  <2>4. Group!Disband(c, u)
    BY <1>5, <2>1, <2>2, <2>3 DEF Group!Disband, Group!In
  <2>. QED  BY <1>3, <2>4 DEF Mapped, Group!Operation
<1>. QED  BY <1>6, <1>7

\* The promotion is not visible yet.
LEMMA MapPromote ==
    ASSUME OneRequestAtATime, AloneInv, TypeOK', NEW p \in Procs, LeavePromote(p)
    PROVE  Mapped
<1>0. TypeOK /\ members \in Rosters /\ members' \in Rosters /\ ReadsHold(p) /\ Decided(p)
  BY DEF AloneInv, SerialInv, DirectInv, TypeOK, Rosters
<1>1. pc[p] = "leavePromote" /\ req[p] \in Request
  BY <1>0 DEF LeavePromote, TypeOK
<1>2. PICK c \in Chats, u \in Users, t \in Users, x \in RoleOrNil :
          /\ req[p].chat = c /\ req[p].caller = u
          /\ req[p].target = t /\ req[p].read = x
  BY <1>1 DEF Request
<1>3. /\ ~Handing(p) /\ t # u
      /\ x = members[c][t] /\ x # "none"
  BY <1>0, <1>1, <1>2 DEF Handing, ReadsHold, Decided, Successors, IsMember
<1>4. UNCHANGED statusBar /\ members' = [members EXCEPT ![c][t] = "owner"]
  BY <1>2, <1>3, StatusSame DEF LeavePromote, WriteRole, RoleRowExists
<1>5. \A d \in Chats, v \in Users :
          members'[d][v] = IF d = c /\ v = t THEN "owner" ELSE members[d][v]
  <2>1. "owner" \in RoleOrNil
    BY DEF RoleOrNil, Role
  <2>. QED  BY <1>0, <1>4, <2>1, OneRowWritten
<1>6. CASE RoleRowAffected(c, t, "owner")
  <2>1. Goto(p, "leaveRemove") /\ UNCHANGED req
    BY <1>2, <1>6 DEF LeavePromote
  <2>2. Handing(p)'
    BY <1>0, <1>2, <1>3, <2>1 DEF Goto, Handing, TypeOK
  <2>3. Quiet
    BY <1>3 DEF OneRequestAtATime, Quiet, Handing
  <2>. DEFINE g == [members' EXCEPT ![c][t] = x]
  <2>4. rosterBar = members /\ rosterBar' = g
    BY <1>0, <1>2, <2>1, <2>2, <2>3, BarQuiet, BarHandingNext DEF OneRequestAtATime
  <2>5. /\ g \in Rosters
        /\ \A d \in Chats, v \in Users :
              g[d][v] = IF d = c /\ v = t THEN x ELSE members'[d][v]
    BY <1>0, OneRowWritten
  <2>. HIDE DEF g
  <2>6. \A d \in Chats, v \in Users : g[d][v] = members[d][v]
    BY <1>3, <1>5, <2>5
  <2>7. g = members
    BY <1>0, <2>5, <2>6, SameRoster
  <2>. QED  BY <1>4, <2>4, <2>7 DEF Mapped
<1>7. CASE ~RoleRowAffected(c, t, "owner")
  <2>1. Return(p) /\ x = "owner"
    BY <1>2, <1>3, <1>7 DEF LeavePromote, RoleRowAffected, RoleRowExists
  <2>2. ~Handing(p)'
    BY <1>0, <2>1 DEF Return, Handing, TypeOK
  <2>3. members' = members
    <3>1. \A d \in Chats, v \in Users : members'[d][v] = members[d][v]
      BY <1>3, <1>5, <2>1
    <3>. QED  BY <1>0, <3>1, SameRoster
  <2>. QED  BY <1>0, <1>3, <1>4, <2>2, <2>3, BarSteady DEF Mapped
<1>. QED  BY <1>6, <1>7

\* The last statement of a hand-over, or its failure.
LEMMA MapHandOver ==
    ASSUME OneRequestAtATime, AloneInv, TypeOK', NEW p \in Procs, Handing(p),
           LeaveRemove(p) \/ Fail(p)
    PROVE  Mapped
<1>0. TypeOK /\ members \in Rosters /\ members' \in Rosters /\ ReadsHold(p) /\ Decided(p)
  BY DEF AloneInv, SerialInv, DirectInv, TypeOK, Rosters
<1>1. pc[p] = "leaveRemove" /\ req[p] \in Request
  BY <1>0 DEF Handing, TypeOK
<1>2. PICK c \in Chats, u \in Users, t \in Users, x \in RoleOrNil :
          /\ req[p].chat = c /\ req[p].caller = u
          /\ req[p].target = t /\ req[p].read = x
  BY <1>1 DEF Request
<1>3. /\ t # u /\ u \in Registered /\ ~deleted[c] /\ kind[c] = "group"
      /\ HandedOver(c, u, t, x)
  BY <1>0, <1>1, <1>2 DEF Handing, ReadsHold, Decided, AloneInv, SerialInv, DirectInv,
                          WritersInGroups
<1>4. rosterBar = [members EXCEPT ![c][t] = x]
  BY <1>0, <1>2, BarHanding
<1>5. /\ rosterBar \in Rosters
      /\ \A d \in Chats, v \in Users :
            rosterBar[d][v] = IF d = c /\ v = t THEN x ELSE members[d][v]
  <2>1. /\ [members EXCEPT ![c][t] = x] \in Rosters
        /\ \A d \in Chats, v \in Users : [members EXCEPT ![c][t] = x][d][v]
              = IF d = c /\ v = t THEN x ELSE members[d][v]
    BY <1>0, OneRowWritten
  <2>. QED  BY ONLY <1>4, <2>1
<1>6. rosterBar' = members' /\ UNCHANGED statusBar
  <2>1. pc'[p] = "idle" /\ UNCHANGED <<kind, deleted>>
    BY <1>0 DEF LeaveRemove, Fail, Return, DeleteRow, store, TypeOK
  <2>2. Quiet'
    BY <2>1 DEF OneRequestAtATime, Quiet
  <2>. QED  BY <2>1, <2>2, BarQuietNext, StatusSame
<1>7. /\ statusBar[c] = "group" /\ rosterBar[c][u] = "owner" /\ rosterBar[c][t] # "none"
      /\ rosterBar[c][t] = "admin" \/ \A v \in Users \ {u} : rosterBar[c][v] # "admin"
      /\ t \in Registered
  BY <1>3, <1>5, StatusIs DEF HandedOver
<1>8. "owner" \in RoleOrNil /\ "none" \in RoleOrNil
  BY DEF RoleOrNil, Role
<1>. DEFINE half == [rosterBar EXCEPT ![c][t] = "owner"]
<1>9. CASE Fail(p)
  <2>1. members' = members /\ failures' = failures + 1
    BY <1>9 DEF Fail, store
  <2>2. /\ half \in Rosters
        /\ \A d \in Chats, v \in Users :
              half[d][v] = IF d = c /\ v = t THEN "owner" ELSE rosterBar[d][v]
    BY <1>5, <1>8, OneRowWritten
  <2>. HIDE DEF half
  <2>3. half = members
    <3>1. \A d \in Chats, v \in Users : half[d][v] = members[d][v]
      BY <1>3, <1>5, <2>2 DEF HandedOver
    <3>. QED  BY <1>0, <2>2, <3>1, SameRoster
  <2>4. Group!HandOverHalf(c, u, t)
    BY <1>3, <1>6, <1>7, <2>1, <2>3 DEF Group!HandOverHalf, Group!In, half
  <2>. QED  BY <1>3, <1>7, <2>1, <2>4 DEF Mapped, Group!CutOff
<1>10. CASE LeaveRemove(p)
  <2>. DEFINE out == [rosterBar EXCEPT ![c][u] = "none"]
              full == [out EXCEPT ![c][t] = "owner"]
  <2>1. /\ out \in Rosters
        /\ \A d \in Chats, v \in Users :
              out[d][v] = IF d = c /\ v = u THEN "none" ELSE rosterBar[d][v]
    BY <1>5, <1>8, OneRowWritten
  <2>. HIDE DEF out
  <2>2. /\ full \in Rosters
        /\ \A d \in Chats, v \in Users :
              full[d][v] = IF d = c /\ v = t THEN "owner" ELSE out[d][v]
    BY <1>8, <2>1, OneRowWritten
  <2>. HIDE DEF full
  <2>3. members' = [members EXCEPT ![c][u] = "none"]
    BY <1>2, <1>10 DEF LeaveRemove, DeleteRow
  <2>4. \A d \in Chats, v \in Users :
            members'[d][v] = IF d = c /\ v = u THEN "none" ELSE members[d][v]
    BY <1>0, <1>8, <2>3, OneRowWritten
  <2>5. full = members'
    <3>1. \A d \in Chats, v \in Users : full[d][v] = members'[d][v]
      BY <1>3, <1>5, <2>1, <2>2, <2>4 DEF HandedOver
    <3>. QED  BY <1>0, <2>2, <3>1, SameRoster
  <2>6. rosterBar' = [rosterBar EXCEPT ![c][u] = "none", ![c][t] = "owner"]
    BY <1>6, <2>5 DEF full, out
  <2>7. Group!HandOver(c, u, t)
    BY <1>3, <1>6, <1>7, <2>6 DEF Group!HandOver, Group!In
  <2>. QED  BY <1>3, <1>7, <2>7 DEF Mapped, Group!Operation
<1>. QED  BY <1>9, <1>10

\* Every step is one of ChatGroup's, or none.
LEMMA MapStep ==
    ASSUME OneRequestAtATime, AloneInv, [Next]_vars
    PROVE  Mapped
<1>0. TypeOK /\ TypeOK'
  BY AloneStep DEF AloneInv, SerialInv, DirectInv
<1>1. ASSUME NEW p \in Procs, Arrive(p) PROVE Mapped
  <2>1. UNCHANGED store
    BY <1>1 DEF Arrive, DirectLookup, AddBegin, RemoveBegin, RoleBegin, LeaveBegin
  <2>2. pc[p] = "idle" /\ pc'[p] # "leaveRemove"
    BY <1>0, <1>1 DEF Arrive, DirectLookup, AddBegin, RemoveBegin, RoleBegin, LeaveBegin,
                      Begin, TypeOK
  <2>. QED  BY <1>0, <2>1, <2>2, MapRead DEF Handing
<1>2. ASSUME NEW p \in Procs, Step(p) PROVE Mapped
  <2>1. CASE DirectCreate(p) \/ LeaveDrop(p)
    BY <1>0, <2>1, MapChat
  <2>2. CASE LeavePromote(p)
    BY <1>0, <2>2, MapPromote
  <2>3. CASE AddInsert(p) \/ RemoveDelete(p) \/ RoleWrite(p)
    <3>1. ~Handing(p)
      BY <2>3 DEF AddInsert, RemoveDelete, RoleWrite, Handing
    <3>. QED  BY <1>0, <2>3, <3>1, MapWrite
  <2>4. CASE LeaveRemove(p)
    BY <1>0, <2>4, MapWrite, MapHandOver
  <2>5. CASE Fail(p)
    <3>1. UNCHANGED store /\ ~Handing(p)'
      BY <1>0, <2>5 DEF Fail, Handing, TypeOK
    <3>. QED  BY <1>0, <2>5, <3>1, MapRead, MapHandOver
  <2>6. CASE \/ AddCaller(p) \/ AddProbe(p) \/ RemoveCaller(p) \/ RemoveTarget(p)
             \/ RoleTarget(p) \/ LeaveMembers(p)
    <3>1. UNCHANGED store /\ pc[p] # "leaveRemove" /\ pc'[p] # "leaveRemove"
      BY <1>0, <2>6 DEF AddCaller, AddProbe, RemoveCaller, RemoveTarget, RoleTarget,
                        LeaveMembers, Check, Goto, Return, TypeOK
    <3>. QED  BY <1>0, <3>1, MapRead DEF Handing
  <2>7. CASE LeaveCaller(p)
    <3>1. Decided(p) /\ pc[p] = "leaveCaller" /\ UNCHANGED store
      BY <2>7 DEF LeaveCaller, Check, AloneInv
    <3>2. ~Handing(p)'
      BY <1>0, <2>7, <3>1 DEF LeaveCaller, Check, Goto, Return, Handing, Decided, TypeOK
    <3>. QED  BY <1>0, <3>1, <3>2, MapRead DEF Handing
  <2>. QED  BY <1>2, <2>1, <2>2, <2>3, <2>4, <2>5, <2>6, <2>7 DEF Step
<1>3. CASE UNCHANGED vars
  BY <1>3 DEF vars, Mapped, statusBar, rosterBar, HandingOver
<1>. QED  BY <1>0, <1>1, <1>2, <1>3, MapFound DEF Next

\* Requests that do not overlap implement ChatGroup, for any users and chats
\* and either driver: every step of a request changes nothing a client can see
\* or is one whole operation, except that a LeaveChat cut off after its
\* promotion is a hand-over of which half has happened.
THEOREM RequestsAreOperations ==
    ASSUME OneRequestAtATime
    PROVE  Spec => ImplementsGroup
<1>1. Init => Group!GroupInit
  <2>. SUFFICES ASSUME Init PROVE Group!GroupInit
    OBVIOUS
  <2>1. TypeOK /\ Quiet
    BY AloneInitial DEF AloneInv, SerialInv, DirectInv, Init, Quiet
  <2>2. rosterBar = members
    BY <2>1, BarQuiet
  <2>3. statusBar = [c \in Chats |-> "absent"]
    BY DEF Init, statusBar
  <2>. QED  BY <2>2, <2>3 DEF Init, Group!GroupInit
<1>2. AloneInv /\ [Next]_vars => [Group!GroupNext]_(Group!groupVars)
  <2>. SUFFICES ASSUME AloneInv, [Next]_vars PROVE [Group!GroupNext]_(Group!groupVars)
    OBVIOUS
  <2>1. Mapped
    BY MapStep
  <2>2. CASE UNCHANGED <<statusBar, rosterBar>>
    BY <2>2 DEF Group!groupVars
  <2>3. CASE ~UNCHANGED <<statusBar, rosterBar>>
    BY <2>1, <2>3 DEF Mapped, Group!GroupNext
  <2>. QED  BY <2>2, <2>3
<1>. QED  BY <1>1, <1>2, AloneInvariant, PTL DEF Spec, ImplementsGroup, Group!GroupSpec

-----------------------------------------------------------------------------
\* A whole operation of ChatGroup leaves every group with one owner.
LEMMA OneOwnerKept ==
    ASSUME Group!OneOwner, Group!Operation,
           rosterBar \in Rosters,
           statusBar \in [Chats -> {"absent", "direct", "group", "gone"}]
    PROVE  Group!OneOwner'
<1>1. PICK c \in Chats, a \in Registered :
          \/ \E ids \in SUBSET Registered : Group!Found(c, a, ids)
          \/ Group!LeaveAsMember(c, a)
          \/ Group!Disband(c, a)
          \/ \E b \in Registered :
                \/ Group!OpenDirect(c, a, b)
                \/ Group!Admit(c, a, b)
                \/ Group!Expel(c, a, b)
                \/ \E role \in {"admin", "member"} : Group!Grade(c, a, b, role)
                \/ Group!HandOver(c, a, b)
  BY DEF Group!Operation
<1>2. a \in Users
  BY RegisteredAssumption
<1>3. ASSUME \A d \in Chats \ {c} : statusBar'[d] = statusBar[d] /\ rosterBar'[d] = rosterBar[d],
             statusBar'[c] = "group" =>
                \E o \in Users : \A u \in Users : rosterBar'[c][u] = "owner" <=> u = o
      PROVE  Group!OneOwner'
  BY <1>3 DEF Group!OneOwner
<1>4. ASSUME NEW x \in Users, NEW r, rosterBar' = [rosterBar EXCEPT ![c][x] = r]
      PROVE  /\ \A d \in Chats \ {c} : rosterBar'[d] = rosterBar[d]
             /\ rosterBar'[c][x] = r
             /\ \A u \in Users \ {x} : rosterBar'[c][u] = rosterBar[c][u]
  BY <1>4 DEF Rosters
<1>5. ASSUME NEW ids, Group!Found(c, a, ids) PROVE Group!OneOwner'
  BY <1>2, <1>3, <1>5 DEF Group!Found, Rosters
<1>6. ASSUME NEW b, Group!OpenDirect(c, a, b) PROVE Group!OneOwner'
  BY <1>3, <1>6 DEF Group!OpenDirect, Rosters
<1>7. CASE Group!Disband(c, a)
  BY <1>3, <1>7 DEF Group!Disband
<1>8. ASSUME NEW x \in Users, NEW r, r # "owner", rosterBar[c][x] # "owner",
             rosterBar' = [rosterBar EXCEPT ![c][x] = r], statusBar' = statusBar
      PROVE  Group!OneOwner'
  <2>1. \A u \in Users : rosterBar'[c][u] = "owner" <=> rosterBar[c][u] = "owner"
    BY <1>4, <1>8
  <2>2. \A d \in Chats \ {c} : rosterBar'[d] = rosterBar[d]
    BY <1>4, <1>8
  <2>3. \A d \in Chats \ {c} : statusBar'[d] = statusBar[d] /\ rosterBar'[d] = rosterBar[d]
    BY <1>8, <2>2
  <2>4. ASSUME statusBar'[c] = "group"
        PROVE  \E o \in Users : \A u \in Users : rosterBar'[c][u] = "owner" <=> u = o
    <3>1. PICK o \in Users : \A u \in Users : rosterBar[c][u] = "owner" <=> u = o
      BY <1>8, <2>4 DEF Group!OneOwner
    <3>. QED  BY <2>1, <3>1
  <2>. QED  BY <1>3, <2>3, <2>4
<1>9. CASE Group!LeaveAsMember(c, a)
  BY <1>2, <1>8, <1>9 DEF Group!LeaveAsMember
<1>10. ASSUME NEW b \in Registered,
              \/ Group!Admit(c, a, b)
              \/ Group!Expel(c, a, b)
              \/ \E role \in {"admin", "member"} : Group!Grade(c, a, b, role)
       PROVE  Group!OneOwner'
  <2>1. b \in Users
    BY RegisteredAssumption
  <2>2. CASE Group!Admit(c, a, b) \/ Group!Expel(c, a, b)
    BY <1>8, <2>1, <2>2 DEF Group!Admit, Group!Expel, Group!In
  <2>3. ASSUME NEW role \in {"admin", "member"}, Group!Grade(c, a, b, role)
        PROVE  Group!OneOwner'
    <3>1. rosterBar[c][b] # "owner"
      BY <1>2, <2>1, <2>3 DEF Group!Grade, Group!OneOwner
    <3>. QED  BY <1>8, <2>1, <2>3, <3>1 DEF Group!Grade
  <2>. QED  BY <1>10, <2>2, <2>3
<1>11. ASSUME NEW b \in Registered, Group!HandOver(c, a, b) PROVE Group!OneOwner'
  <2>1. b \in Users /\ a # b /\ statusBar' = statusBar /\ statusBar[c] = "group"
    BY <1>11, RegisteredAssumption DEF Group!HandOver
  <2>2. rosterBar' = [rosterBar EXCEPT ![c][a] = "none", ![c][b] = "owner"]
    BY <1>11 DEF Group!HandOver
  <2>3. /\ \A d \in Chats \ {c} : rosterBar'[d] = rosterBar[d]
        /\ rosterBar'[c][a] = "none" /\ rosterBar'[c][b] = "owner"
        /\ \A u \in Users \ {a, b} : rosterBar'[c][u] = rosterBar[c][u]
    BY <1>2, <2>1, <2>2 DEF Rosters
  <2>4. \A u \in Users : rosterBar[c][u] = "owner" <=> u = a
    BY <1>2, <1>11 DEF Group!HandOver, Group!OneOwner
  <2>5. \A u \in Users : rosterBar'[c][u] = "owner" <=> u = b
    BY <1>2, <2>1, <2>3, <2>4
  <2>. QED  BY <1>3, <2>1, <2>3, <2>5
<1>. QED  BY <1>1, <1>5, <1>6, <1>7, <1>9, <1>10, <1>11

\* The bars are typed.
LEMMA BarsTyped ==
    ASSUME OneRequestAtATime, TypeOK
    PROVE  /\ rosterBar \in Rosters
           /\ statusBar \in [Chats -> {"absent", "direct", "group", "gone"}]
<1>1. statusBar \in [Chats -> {"absent", "direct", "group", "gone"}]
  BY DEF statusBar, TypeOK
<1>2. CASE Quiet
  BY <1>1, <1>2, BarQuiet DEF TypeOK, Rosters
<1>3. CASE ~Quiet
  <2>1. PICK p \in Procs : Handing(p)
    BY <1>3 DEF Quiet, Handing
  <2>2. PICK c \in Chats, t \in Users, x \in RoleOrNil :
            req[p].chat = c /\ req[p].target = t /\ req[p].read = x
    BY <2>1 DEF Handing, TypeOK, Request
  <2>3. rosterBar = [members EXCEPT ![c][t] = x]
    BY <2>1, <2>2, BarHanding
  <2>4. [members EXCEPT ![c][t] = x] \in Rosters
    BY OneRowWritten DEF TypeOK, Rosters
  <2>. QED  BY <1>1, <2>3, <2>4
<1>. QED  BY <1>2, <1>3

\* Until a statement fails every live group has exactly one owner, the caller
\* of a LeaveChat in progress counting as that owner: for any users and chats,
\* when requests do not overlap.
THEOREM OneOwnerEach ==
    ASSUME OneRequestAtATime
    PROVE  Spec => []ExactlyOneOwner
<1>1. Init => ExactlyOneOwner
  BY DEF Init, ExactlyOneOwner, Group!OneOwner, statusBar
<1>2. AloneInv /\ ExactlyOneOwner /\ [Next]_vars => ExactlyOneOwner'
  <2>. SUFFICES ASSUME AloneInv, ExactlyOneOwner, [Next]_vars, failures' = 0
                PROVE  Group!OneOwner'
    BY DEF ExactlyOneOwner
  <2>1. TypeOK
    BY DEF AloneInv, SerialInv, DirectInv
  <2>2. failures' \in {failures, failures + 1}
    <3>1. ASSUME NEW p \in Procs, Step(p) PROVE failures' \in {failures, failures + 1}
      BY <3>1 DEF Step, DirectCreate, AddCaller, AddProbe, AddInsert, RemoveCaller,
         RemoveTarget, RemoveDelete, RoleTarget, RoleWrite, LeaveCaller, LeaveMembers,
         LeaveDrop, LeavePromote, LeaveRemove, Fail, Check, Goto, Return
    <3>2. ASSUME NEW p \in Procs, Arrive(p) PROVE failures' = failures
      BY <3>2 DEF Arrive, DirectLookup, AddBegin, RemoveBegin, RoleBegin, LeaveBegin, Begin
    <3>. QED  BY <3>1, <3>2 DEF Next, CreateGroup, vars
  <2>3. failures = 0 /\ failures' # failures + 1
    BY <2>1, <2>2 DEF TypeOK
  <2>4. Group!OneOwner
    BY <2>3 DEF ExactlyOneOwner
  <2>5. UNCHANGED <<statusBar, rosterBar>> \/ Group!Operation
    BY <2>3, MapStep DEF Mapped
  <2>. QED  BY <2>1, <2>4, <2>5, OneOwnerKept, BarsTyped DEF Group!OneOwner
<1>. QED  BY <1>1, <1>2, AloneInvariant, PTL DEF Spec

\* Choosing the successor by the loop of nextOwner only restricts ChatService,
\* so what is proved of Spec holds of ListSpec.
LEMMA ListIsSpec == ListSpec => Spec
<1>1. ListInit => Init
  BY DEF ListInit
<1>2. [ListNext]_listVars => [Next]_vars
  BY DEF ListNext, listVars
<1>. QED  BY <1>1, <1>2, PTL DEF ListSpec, Spec

-----------------------------------------------------------------------------
(* The loop of nextOwner, for every list. *)

\* Induction over the rounds of a loop.
LEMMA Climb ==
    ASSUME NEW n \in Nat, NEW S, 0 \in S, \A i \in 0 .. n - 1 : i \in S => i + 1 \in S
    PROVE  \A i \in 0 .. n : i \in S
<1> DEFINE T == (0 .. n) \ S  Less == OpToRel(<, Nat)
<1> SUFFICES ASSUME T # {}  PROVE FALSE
  OBVIOUS
<1>1. IsWellFoundedOn(Less, Nat)
  BY NatLessThanWellFounded
<1>2. \A i, j \in Nat : i < j => <<i, j>> \in Less
  BY DEF OpToRel
<1> HIDE DEF Less
<1>3. PICK k \in T : \A i \in T : ~(<<i, k>> \in Less)
  <2>1. T \subseteq Nat
    OBVIOUS
  <2> HIDE DEF T
  <2> QED  BY <1>1, <2>1, WFMin
<1>4. k \in 1 .. n /\ k - 1 \in 0 .. n - 1 /\ k = (k - 1) + 1
  OBVIOUS
<1>5. k - 1 \in S
  <2>1. <<k - 1, k>> \in Less
    BY <1>2, <1>4
  <2> QED  BY <1>3, <1>4, <2>1
<1> QED  BY <1>4, <1>5

Start == [done |-> FALSE, pick |-> {}]

\* f is the function of the loop's states over the first n members of s.
IsRun(f, s, n, exclude) ==
    f = [i \in 0 .. n |-> IF i = 0 THEN Start ELSE Round(f[i - 1], s[i], exclude)]

\* The loop has a state after every round, and each comes from the one before.
LEMMA LoopRuns ==
    ASSUME NEW s, Len(s) \in Nat, NEW exclude
    PROVE  IsRun(Rounds(s, exclude), s, Len(s), exclude)
<1> DEFINE S == {n \in Nat : \E f : IsRun(f, s, n, exclude)}
<1>1. 0 \in S
  <2> DEFINE f == [i \in 0 .. 0 |-> Start]
  <2>1. f = [i \in 0 .. 0 |-> IF i = 0 THEN Start ELSE Round(f[i - 1], s[i], exclude)]
    OBVIOUS
  <2> QED  BY <2>1 DEF IsRun
<1>2. ASSUME NEW n \in 0 .. Len(s) - 1, n \in S  PROVE n + 1 \in S
  <2>1. PICK f : IsRun(f, s, n, exclude)
    BY <1>2
  <2> DEFINE g == [i \in 0 .. n + 1 |-> IF i = n + 1 THEN Round(f[n], s[n + 1], exclude) ELSE f[i]]
  <2>2. \A i \in 0 .. n + 1 : g[i] = IF i = 0 THEN Start ELSE Round(g[i - 1], s[i], exclude)
    <3> SUFFICES ASSUME NEW i \in 0 .. n + 1
                 PROVE  g[i] = IF i = 0 THEN Start ELSE Round(g[i - 1], s[i], exclude)
      OBVIOUS
    <3>1. CASE i = n + 1
      BY <3>1
    <3>2. CASE i # n + 1
      <4>1. i \in 0 .. n /\ g[i] = f[i] /\ (i # 0 => g[i - 1] = f[i - 1])
        BY <3>2
      <4>2. f[i] = IF i = 0 THEN Start ELSE Round(f[i - 1], s[i], exclude)
        BY <2>1, <4>1 DEF IsRun
      <4> QED  BY <4>1, <4>2
    <3> QED  BY <3>1, <3>2
  <2>3. IsRun(g, s, n + 1, exclude)
    <3> HIDE DEF g
    <3>1. g = [i \in 0 .. n + 1 |-> g[i]]
      BY DEF g
    <3> QED  BY <2>2, <3>1 DEF IsRun
  <2> QED  BY <2>3
<1>3. \E f : IsRun(f, s, Len(s), exclude)
  <2> HIDE DEF S
  <2>1. \A i \in 0 .. Len(s) - 1 : i \in S => i + 1 \in S
    BY <1>2
  <2>2. \A i \in 0 .. Len(s) : i \in S
    BY <1>1, <2>1, Climb
  <2>3. Len(s) \in S
    BY <2>2
  <2> QED  BY <2>3 DEF S
<1> QED  BY <1>3 DEF IsRun, Rounds, Start

\* Whom a list offers for the ownership, and the admins among them.
Other(m, exclude) == m.user # exclude
Admin(m, exclude) == m.user # exclude /\ m.role = "admin"

\* After n rounds the state has the first admin, or if there is none so far
\* the first other member, or nobody.
Met(state, s, n, exclude) ==
    IF state.done
    THEN \E k \in 1 .. n : /\ Admin(s[k], exclude) /\ state.pick = {s[k].user}
                           /\ \A j \in 1 .. k - 1 : ~Admin(s[j], exclude)
    ELSE /\ \A j \in 1 .. n : ~Admin(s[j], exclude)
         /\ \/ state.pick = {} /\ \A j \in 1 .. n : ~Other(s[j], exclude)
            \/ \E k \in 1 .. n : /\ Other(s[k], exclude) /\ state.pick = {s[k].user}
                                 /\ \A j \in 1 .. k - 1 : ~Other(s[j], exclude)

LEMMA MetRound ==
    ASSUME NEW n \in Nat, NEW s, NEW exclude, NEW state, Met(state, s, n, exclude)
    PROVE  Met(Round(state, s[n + 1], exclude), s, n + 1, exclude)
<1> DEFINE m == s[n + 1]
<1>1. CASE state.done
  <2>1. Round(state, m, exclude) = state
    BY <1>1 DEF Round
  <2>2. PICK k \in 1 .. n : /\ Admin(s[k], exclude) /\ state.pick = {s[k].user}
                            /\ \A j \in 1 .. k - 1 : ~Admin(s[j], exclude)
    BY <1>1 DEF Met
  <2>3. k \in 1 .. n + 1
    OBVIOUS
  <2> QED  BY <1>1, <2>1, <2>2, <2>3 DEF Met
<1>2. CASE ~state.done /\ ~Other(m, exclude)
  <2>1. Round(state, m, exclude) = state /\ ~Admin(m, exclude)
    BY <1>2 DEF Round, Other, Admin
  <2>2. \A j \in 1 .. n + 1 : j \in 1 .. n \/ j = n + 1
    OBVIOUS
  <2>3. \A j \in 1 .. n : j \in 1 .. n + 1
    OBVIOUS
  <2> QED  BY <1>2, <2>1, <2>2, <2>3 DEF Met
<1>3. CASE ~state.done /\ Admin(m, exclude)
  <2>1. Round(state, m, exclude) = [done |-> TRUE, pick |-> {m.user}]
    BY <1>3 DEF Round, Admin
  <2>2. \A j \in 1 .. (n + 1) - 1 : ~Admin(s[j], exclude)
    BY <1>3 DEF Met
  <2>3. n + 1 \in 1 .. n + 1
    OBVIOUS
  <2> QED  BY <1>3, <2>1, <2>2, <2>3 DEF Met
<1>4. CASE ~state.done /\ Other(m, exclude) /\ ~Admin(m, exclude) /\ state.pick = {}
  <2>1. Round(state, m, exclude) = [done |-> FALSE, pick |-> {m.user}]
    BY <1>4 DEF Round, Admin, Other
  <2>2. /\ \A j \in 1 .. n : ~Admin(s[j], exclude)
        /\ \A j \in 1 .. n : ~Other(s[j], exclude)
    BY <1>4 DEF Met
  <2>3. \A j \in 1 .. n + 1 : j \in 1 .. n \/ j = n + 1
    OBVIOUS
  <2>4. n + 1 \in 1 .. n + 1 /\ (n + 1) - 1 = n
    OBVIOUS
  <2> QED  BY <1>4, <2>1, <2>2, <2>3, <2>4 DEF Met
<1>5. CASE ~state.done /\ Other(m, exclude) /\ ~Admin(m, exclude) /\ state.pick # {}
  <2>1. Round(state, m, exclude) = state
    BY <1>5 DEF Round, Admin, Other
  <2>2. PICK k \in 1 .. n : /\ Other(s[k], exclude) /\ state.pick = {s[k].user}
                            /\ \A j \in 1 .. k - 1 : ~Other(s[j], exclude)
    BY <1>5 DEF Met
  <2>3. k \in 1 .. n + 1 /\ \A j \in 1 .. n + 1 : j \in 1 .. n \/ j = n + 1
    OBVIOUS
  <2> QED  BY <1>5, <2>1, <2>2, <2>3 DEF Met
<1> QED  BY <1>1, <1>2, <1>3, <1>4, <1>5 DEF Admin, Other

\* What the loop has met when it ends.
LEMMA LoopMeets ==
    ASSUME NEW s, Len(s) \in Nat, NEW exclude
    PROVE  Met(Rounds(s, exclude)[Len(s)], s, Len(s), exclude)
<1> DEFINE R == Rounds(s, exclude)
           S == {n \in 0 .. Len(s) : Met(R[n], s, n, exclude)}
<1>1. \A i \in 0 .. Len(s) : R[i] = IF i = 0 THEN Start ELSE Round(R[i - 1], s[i], exclude)
  BY LoopRuns DEF IsRun
<1> HIDE DEF R
<1>2. 0 \in S
  BY <1>1 DEF Met, Start
<1>3. ASSUME NEW n \in 0 .. Len(s) - 1, n \in S  PROVE n + 1 \in S
  <2>1. n + 1 \in 0 .. Len(s) /\ n + 1 # 0 /\ (n + 1) - 1 = n /\ n \in Nat
    OBVIOUS
  <2>2. R[n + 1] = Round(R[n], s[n + 1], exclude)
    BY <1>1, <2>1
  <2>3. Met(R[n], s, n, exclude)
    BY <1>3
  <2> QED  BY <2>1, <2>2, <2>3, MetRound
<1>4. Len(s) \in S
  <2> HIDE DEF S
  <2>1. \A i \in 0 .. Len(s) - 1 : i \in S => i + 1 \in S
    BY <1>3
  <2>2. \A i \in 0 .. Len(s) : i \in S
    BY <1>2, <2>1, Climb
  <2> QED  BY <2>2
<1> QED  BY <1>4 DEF R

-----------------------------------------------------------------------------
(* The list that GetMembers returns. *)

\* Every member of a chat is listed once, and nobody else is.
ListInv ==
    /\ TypeOK
    /\ list = [c \in Chats |-> list[c]]
    /\ \A c \in Chats : list[c] \in SetToSeqs(Members(c))

LEMMA ListStep == ListInv /\ [ListNext]_listVars => ListInv'
<1> SUFFICES ASSUME ListInv, [ListNext]_listVars  PROVE ListInv'
  OBVIOUS
<1>1. TypeOK'
  BY TypeStep DEF ListInv, ListNext, listVars
<1>2. CASE UNCHANGED listVars
  BY <1>1, <1>2 DEF ListInv, listVars, vars, Members, IsMember
<1>3. CASE ListNext
  <2>1. PICK c \in Chats : /\ \A d \in Chats \ {c} : members'[d] = members[d]
                           /\ \E s \in Listings(c) : list' = [list EXCEPT ![c] = s]
    BY <1>3 DEF ListNext, Relist
  <2>2. PICK s \in Listings(c) : list' = [list EXCEPT ![c] = s]
    BY <2>1
  <2>3. s \in SetToSeqs(Members(c)')
    BY <2>2 DEF Listings
  <2>4. list' = [d \in Chats |-> list'[d]] /\ list'[c] = s
    BY <2>2 DEF ListInv
  <2>5. ASSUME NEW d \in Chats, d # c  PROVE list'[d] = list[d] /\ Members(d)' = Members(d)
    BY <2>1, <2>2, <2>5 DEF ListInv, Members, IsMember
  <2>6. \A d \in Chats : list'[d] \in SetToSeqs(Members(d)')
    BY <2>3, <2>4, <2>5 DEF ListInv
  <2> QED  BY <1>1, <2>4, <2>6 DEF ListInv, SetToSeqs
<1> QED  BY <1>2, <1>3

LEMMA ListInitial == ListInit => ListInv
<1> SUFFICES ASSUME ListInit  PROVE ListInv
  OBVIOUS
<1>1. TypeOK
  BY DEF ListInit, Init, TypeOK, RoleOrNil, Role, Labels
<1>2. ASSUME NEW c \in Chats  PROVE list[c] \in SetToSeqs(Members(c))
  <2>1. Members(c) = {} /\ list[c] = <<>>
    BY DEF ListInit, Init, Members, IsMember
  <2> QED  BY <2>1, FS_EmptySet DEF SetToSeqs
<1> QED  BY <1>1, <1>2 DEF ListInv, ListInit

\* A listing numbers the members from 1 on.
LEMMA ListingNumbers ==
    ASSUME ListInv, NEW c \in Chats
    PROVE  \E n \in Nat :
               /\ DOMAIN list[c] = 1 .. n /\ Len(list[c]) = n
               /\ \A i \in 1 .. n : list[c][i] \in Members(c)
               /\ \A i, j \in 1 .. n : i # j => list[c][i] # list[c][j]
               /\ \A u \in Members(c) : \E i \in 1 .. n : list[c][i] = u
<1> DEFINE M == Members(c)  n == Cardinality(M)  s == list[c]
<1>1. IsFiniteSet(M) /\ n \in Nat
  BY FiniteAssumption, FS_Subset, FS_CardinalityType DEF Members
<1>2. s \in [1 .. n -> M] /\ \A i, j \in 1 .. n : i # j => s[i] # s[j]
  BY DEF ListInv, SetToSeqs
<1> HIDE DEF M, n, s
<1>3. Cardinality(1 .. n) = n
  BY <1>1, FS_Interval
<1>4. s \in Injection(1 .. n, M)
  BY <1>2 DEF Injection, IsInjective
<1>5. s \in Surjection(1 .. n, M)
  BY <1>1, <1>3, <1>4, FS_Injection DEF n
<1>6. \A u \in M : \E i \in 1 .. n : s[i] = u
  BY <1>5 DEF Surjection
<1>7. s \in Seq(M) /\ Len(s) = n
  BY <1>1, <1>2
<1> QED  BY <1>1, <1>2, <1>6, <1>7 DEF s, M

\* The first of C in the list of c is the only one of C with the smallest position.
LEMMA FirstListed ==
    ASSUME ListInv, NEW c \in Chats, NEW C, C \subseteq Members(c),
           NEW k \in DOMAIN list[c], list[c][k] \in C,
           \A j \in 1 .. k - 1 : list[c][j] \notin C
    PROVE  {v \in C : \A w \in C : Position(c, v) <= Position(c, w)} = {list[c][k]}
<1>1. PICK n \in Nat :
          /\ DOMAIN list[c] = 1 .. n
          /\ \A i, j \in 1 .. n : i # j => list[c][i] # list[c][j]
          /\ \A u \in Members(c) : \E i \in 1 .. n : list[c][i] = u
  BY ListingNumbers
<1>2. ASSUME NEW i \in 1 .. n  PROVE Position(c, list[c][i]) = i
  BY <1>1, <1>2 DEF Position
<1>3. ASSUME NEW w \in C
      PROVE  /\ Position(c, w) \in 1 .. n /\ list[c][Position(c, w)] = w
             /\ k <= Position(c, w)
  <2>1. PICK i \in 1 .. n : list[c][i] = w
    BY <1>1
  <2>2. Position(c, w) = i
    BY <1>2, <2>1
  <2>3. ~(i \in 1 .. k - 1)
    BY <2>1
  <2> QED  BY <1>1, <2>1, <2>2, <2>3
<1>4. k \in 1 .. n /\ Position(c, list[c][k]) = k
  BY <1>1, <1>2
<1>5. ASSUME NEW v \in C, \A w \in C : Position(c, v) <= Position(c, w)  PROVE v = list[c][k]
  <2>1. Position(c, v) <= k
    BY <1>4, <1>5
  <2>2. Position(c, v) = k
    BY <1>3, <1>4, <2>1
  <2> QED  BY <1>3, <2>2
<1> QED  BY <1>3, <1>4, <1>5

\* What the loop returns for the list of c: nobody if there is nobody else, or
\* the first of the successors.
LEMMA LoopResult ==
    ASSUME ListInv, NEW c \in Chats, NEW u \in Members(c)
    PROVE  \/ Successors(c, u) = {} /\ nextOwner(GetMembers(c), u) = {}
           \/ \E k \in DOMAIN list[c] :
                 /\ list[c][k] \in Successors(c, u)
                 /\ nextOwner(GetMembers(c), u) = {list[c][k]}
                 /\ \A j \in 1 .. k - 1 : list[c][j] \notin Successors(c, u)
<1> DEFINE s == GetMembers(c)  L == list[c]
           others == {v \in Users \ {u} : IsMember(c, v)}
           admins == {v \in others : members[c][v] = "admin"}
<1>1. PICK n \in Nat :
          /\ DOMAIN list[c] = 1 .. n
          /\ \A i \in 1 .. n : list[c][i] \in Members(c)
          /\ \A v \in Members(c) : \E i \in 1 .. n : list[c][i] = v
  BY ListingNumbers
<1>2. s = [i \in 1 .. n |-> [user |-> L[i], role |-> members[c][L[i]]]]
  BY <1>1 DEF GetMembers
<1>3. Len(s) = n
  BY <1>2
<1>4. Met(Rounds(s, u)[n], s, n, u)
  BY <1>3, LoopMeets
<1>5. nextOwner(s, u) = Rounds(s, u)[n].pick
  BY <1>3 DEF nextOwner
<1>6. \A i \in 1 .. n : (Other(s[i], u) <=> L[i] \in others) /\ (Admin(s[i], u) <=> L[i] \in admins)
                        /\ s[i].user = L[i]
  BY <1>1, <1>2 DEF Other, Admin, Members
<1>7. others \subseteq Members(c)
  BY DEF Members
<1>8. Successors(c, u) = IF admins # {} THEN admins ELSE others
  BY DEF Successors
<1> HIDE DEF others, s, L
<1> DEFINE state == Rounds(s, u)[n]
<1>9. CASE state.done
  <2>1. PICK k \in 1 .. n : /\ Admin(s[k], u) /\ state.pick = {s[k].user}
                            /\ \A j \in 1 .. k - 1 : ~Admin(s[j], u)
    BY <1>4, <1>9 DEF Met
  <2>2. L[k] \in admins /\ state.pick = {L[k]} /\ \A j \in 1 .. k - 1 : L[j] \notin admins
    BY <1>6, <2>1
  <2> QED  BY <1>1, <1>5, <1>8, <2>1, <2>2 DEF L, s
<1>10. CASE ~state.done
  <2>1. \A j \in 1 .. n : ~Admin(s[j], u)
    BY <1>4, <1>10 DEF Met
  <2>2. admins = {}
    BY <1>1, <1>6, <1>7, <2>1 DEF L
  <2>3. CASE state.pick = {} /\ \A j \in 1 .. n : ~Other(s[j], u)
    <3>1. others = {}
      BY <1>1, <1>6, <1>7, <2>3 DEF L
    <3> QED  BY <1>5, <1>8, <2>2, <2>3, <3>1 DEF s
  <2>4. CASE \E k \in 1 .. n : /\ Other(s[k], u) /\ state.pick = {s[k].user}
                               /\ \A j \in 1 .. k - 1 : ~Other(s[j], u)
    <3>1. PICK k \in 1 .. n : /\ Other(s[k], u) /\ state.pick = {s[k].user}
                              /\ \A j \in 1 .. k - 1 : ~Other(s[j], u)
      BY <2>4
    <3>2. L[k] \in others /\ state.pick = {L[k]} /\ \A j \in 1 .. k - 1 : L[j] \notin others
      BY <1>6, <3>1
    <3> QED  BY <1>1, <1>5, <1>8, <2>2, <3>1, <3>2 DEF L, s
  <2> QED  BY <1>4, <1>10, <2>3, <2>4 DEF Met
<1> QED  BY <1>9, <1>10

\* The list of every chat holds its members, each once, in every state.
THEOREM ListInvariant == ListSpec => []ListInv
<1> QED  BY ListInitial, ListStep, PTL DEF ListSpec

\* It returns the one of the successors with the smallest position.
LEMMA LoopOldest ==
    ASSUME ListInv, NEW c \in Chats, NEW u \in Members(c)
    PROVE  nextOwner(GetMembers(c), u) =
               {v \in Successors(c, u) : \A w \in Successors(c, u) : Position(c, v) <= Position(c, w)}
<1>1. CASE Successors(c, u) = {} /\ nextOwner(GetMembers(c), u) = {}
  BY <1>1
<1>2. ASSUME NEW k \in DOMAIN list[c], list[c][k] \in Successors(c, u),
             nextOwner(GetMembers(c), u) = {list[c][k]},
             \A j \in 1 .. k - 1 : list[c][j] \notin Successors(c, u)
      PROVE  nextOwner(GetMembers(c), u) =
               {v \in Successors(c, u) : \A w \in Successors(c, u) : Position(c, v) <= Position(c, w)}
  <2>1. Successors(c, u) \subseteq Members(c)
    BY DEF Successors, Members
  <2> QED  BY <1>2, <2>1, FirstListed
<1> QED  BY <1>1, <1>2, LoopResult

\* The loop of nextOwner returns the admin, or without one the member, who is
\* first in the list: for lists of any length, after any history.
THEOREM OldestPicked == ListSpec => []PicksOldest
<1>1. ListInv => PicksOldest
  BY LoopOldest DEF PicksOldest
<1> QED  BY <1>1, ListInvariant, PTL

\* The loop finds a successor whenever there is one, and one that ChatService
\* allows: it never keeps an owner from leaving.
LoopAgrees ==
    \A c \in Chats : \A u \in Members(c) :
        IF Successors(c, u) = {} THEN nextOwner(GetMembers(c), u) = {}
        ELSE \E v \in Successors(c, u) : nextOwner(GetMembers(c), u) = {v}

\* The choice that LeaveChat makes by the loop is always one of the choices
\* of ChatService, so that restricting it (Chosen) blocks nobody.
THEOREM LoopFindsSuccessor == ListSpec => []LoopAgrees
<1>1. ListInv => LoopAgrees
  BY LoopResult DEF LoopAgrees
<1> QED  BY <1>1, ListInvariant, PTL

-----------------------------------------------------------------------------
(* Who becomes the owner of a group. *)

\* A LeaveChat about to promote has picked the oldest, and he still is.
Promised ==
    \A p \in Procs : pc[p] = "leavePromote" => Oldest(req[p].chat, req[p].caller, req[p].target)

\* Every member has one position.
LEMMA Placed ==
    ListInv => \A c \in Chats :
        /\ \A i \in DOMAIN list[c] : i \in Nat /\ Position(c, list[c][i]) = i
        /\ \A u \in Members(c) : /\ Position(c, u) \in DOMAIN list[c]
                                 /\ list[c][Position(c, u)] = u
<1> SUFFICES ASSUME ListInv, NEW c \in Chats
             PROVE  /\ \A i \in DOMAIN list[c] : i \in Nat /\ Position(c, list[c][i]) = i
                    /\ \A u \in Members(c) : /\ Position(c, u) \in DOMAIN list[c]
                                             /\ list[c][Position(c, u)] = u
  OBVIOUS
<1>1. PICK n \in Nat :
          /\ DOMAIN list[c] = 1 .. n
          /\ \A i, j \in 1 .. n : i # j => list[c][i] # list[c][j]
          /\ \A u \in Members(c) : \E i \in 1 .. n : list[c][i] = u
  BY ListingNumbers
<1>2. ASSUME NEW i \in 1 .. n  PROVE Position(c, list[c][i]) = i
  BY <1>1, <1>2 DEF Position
<1> QED  BY <1>1, <1>2

\* The same of the next state.
LEMMA PlacedNext ==
    (ListInv => \A c \in Chats :
        /\ \A i \in DOMAIN list[c] : i \in Nat /\ Position(c, list[c][i]) = i
        /\ \A u \in Members(c) : /\ Position(c, u) \in DOMAIN list[c]
                                 /\ list[c][Position(c, u)] = u)'
BY Placed, PTL

\* Those who stay in a chat keep their order.
LEMMA OrderKept ==
    ASSUME ListInv, ListInv', [ListNext]_listVars, NEW c \in Chats, members'[c] = members[c],
           NEW v \in Members(c), NEW w \in Members(c), Position(c, v) <= Position(c, w)
    PROVE  Position(c, v)' <= Position(c, w)'
<1>1. CASE list'[c] = list[c]
  BY <1>1 DEF Position
<1>2. CASE list'[c] # list[c]
  <2>1. PICK d \in Chats : \E s \in Listings(d) : list' = [list EXCEPT ![d] = s]
    BY <1>2 DEF ListNext, Relist, listVars
  <2>2. PICK s \in Listings(d) : list' = [list EXCEPT ![d] = s]
    BY <2>1
  <2>3. d = c /\ list'[c] = s
    BY <1>2, <2>2 DEF ListInv
  <2>4. \A i, j \in DOMAIN s : i < j => s[j] \notin Members(c) \/ Earlier(c, s[i], s[j])
    BY <2>2, <2>3 DEF Listings
  <2>5. v \in Members(c)' /\ w \in Members(c)'
    BY DEF Members, IsMember
  <2> DEFINE i == Position(c, v)'  j == Position(c, w)'
  <2>6. /\ i \in DOMAIN s /\ s[i] = v /\ j \in DOMAIN s /\ s[j] = w
        /\ i \in Nat /\ j \in Nat
    BY <2>3, <2>5, PlacedNext
  <2>7. ASSUME j < i PROVE FALSE
    <3>1. Earlier(c, w, v)
      BY <2>4, <2>6, <2>7
    <3>2. PICK k, l \in DOMAIN list[c] : k < l /\ list[c][k] = w /\ list[c][l] = v
      BY <3>1 DEF Earlier
    <3>3. Position(c, w) = k /\ Position(c, v) = l /\ k \in Nat /\ l \in Nat
      BY <3>2, Placed
    <3> QED  BY <3>2, <3>3
  <2> QED  BY <2>6, <2>7
<1> QED  BY <1>1, <1>2

\* A step that leaves the rows of c alone leaves the oldest the oldest.
LEMMA OldestKept ==
    ASSUME ListInv, ListInv', [ListNext]_listVars, NEW c \in Chats, members'[c] = members[c],
           NEW u \in Users, NEW v \in Successors(c, u), Oldest(c, u, v)
    PROVE  Oldest(c, u, v)'
<1>1. Successors(c, u)' = Successors(c, u)
  BY DEF Successors, IsMember
<1>2. Successors(c, u) \subseteq Members(c)
  BY DEF Successors, Members
<1>3. \A w \in Successors(c, u) : Position(c, v) <= Position(c, w)
  BY DEF Oldest
<1>4. ASSUME NEW w \in Successors(c, u) PROVE Position(c, v)' <= Position(c, w)'
  BY <1>2, <1>3, OrderKept
<1> QED  BY <1>1, <1>4 DEF Oldest

\* Where a request stands before it may promote: at its read of the members, or
\* already there while a group is created.
LEMMA BeforePromotion ==
    ASSUME OneRequestAtATime, AloneInv, [Next]_vars, NEW p \in Procs, pc'[p] = "leavePromote"
    PROVE  /\ \/ pc[p] = "leaveMembers" /\ LeaveMembers(p)
              \/ pc[p] = "leavePromote" /\ req'[p] = req[p]
           /\ req[p] \in Request /\ kind[req[p].chat] = "group"
           /\ members'[req[p].chat] = members[req[p].chat]
<1>0. TypeOK /\ WritersInGroups
  BY DEF AloneInv, SerialInv, DirectInv
<1>1. CASE UNCHANGED vars
  BY <1>0, <1>1 DEF vars, store, TypeOK, WritersInGroups
<1>2. ASSUME NEW caller \in Registered, NEW ids \in SUBSET Users, CreateGroup(caller, ids)
      PROVE  /\ pc[p] = "leavePromote" /\ req'[p] = req[p]
             /\ req[p] \in Request /\ kind[req[p].chat] = "group"
             /\ members'[req[p].chat] = members[req[p].chat]
  <2>1. PICK c \in FreshIds : CreateWithMembers(c, "group",
            [u \in Users |-> IF u = caller THEN "owner"
                             ELSE IF u \in ids THEN "member" ELSE "none"])
    BY <1>2 DEF CreateGroup
  <2>2. pc[p] = "leavePromote" /\ req' = req
    BY <1>2 DEF CreateGroup
  <2>3. req[p] \in Request /\ kind[req[p].chat] = "group" /\ kind[c] = "absent"
    BY <1>0, <2>2 DEF TypeOK, WritersInGroups, FreshIds
  <2> QED  BY <1>0, <2>1, <2>2, <2>3 DEF CreateWithMembers, TypeOK, Request
<1>3. ASSUME NEW q \in Procs, Arrive(q) PROVE FALSE
  BY <1>0, <1>3 DEF Arrive, DirectLookup, AddBegin, RemoveBegin, RoleBegin, LeaveBegin, Begin,
                    TypeOK, OneRequestAtATime
<1>4. ASSUME NEW q \in Procs, Step(q) PROVE pc[p] = "leaveMembers" /\ LeaveMembers(p) /\ UNCHANGED store
  <2>1. q = p
    BY DEF OneRequestAtATime
  <2> QED  BY <1>0, <1>4, <2>1
    DEF Step, DirectCreate, AddCaller, AddProbe, AddInsert, RemoveCaller, RemoveTarget,
        RemoveDelete, RoleTarget, RoleWrite, LeaveCaller, LeaveMembers, LeaveDrop,
        LeavePromote, LeaveRemove, Fail, Check, Goto, Return, TypeOK
<1>5. ASSUME NEW q \in Procs, Step(q)
      PROVE  /\ pc[p] = "leaveMembers" /\ LeaveMembers(p)
             /\ req[p] \in Request /\ kind[req[p].chat] = "group"
             /\ members'[req[p].chat] = members[req[p].chat]
  BY <1>0, <1>4, <1>5 DEF TypeOK, WritersInGroups, store
<1> QED  BY <1>1, <1>2, <1>3, <1>5 DEF Next

\* The promise is made by the loop and kept until the promotion.
LEMMA PromisedStep ==
    ASSUME OneRequestAtATime, AloneInv, ListInv, ListInv', Promised, [ListNext]_listVars
    PROVE  Promised'
<1>0. [Next]_vars /\ TypeOK
  BY DEF ListNext, listVars, AloneInv, SerialInv, DirectInv
<1> SUFFICES ASSUME NEW p \in Procs, pc'[p] = "leavePromote"
             PROVE  Oldest(req[p].chat, req[p].caller, req[p].target)'
  BY DEF Promised
<1>1. /\ \/ pc[p] = "leaveMembers" /\ LeaveMembers(p)
         \/ pc[p] = "leavePromote" /\ req'[p] = req[p]
      /\ req[p] \in Request /\ members'[req[p].chat] = members[req[p].chat]
  BY <1>0, BeforePromotion
<1>2. ReadsHold(p) /\ Decided(p)
  BY DEF AloneInv, SerialInv
<1>3. req'[p].chat = req[p].chat /\ req'[p].caller = req[p].caller
  BY <1>0, <1>1 DEF LeaveMembers, TypeOK, Request
<1>4. PICK c \in Chats, u \in Users : c = req[p].chat /\ u = req[p].caller
  BY <1>1 DEF Request
<1>5. PICK v : v = req'[p].target
  OBVIOUS
<1>6. v \in Successors(c, u) /\ Oldest(c, u, v)
  <2>1. CASE pc[p] = "leavePromote" /\ req'[p] = req[p]
    BY <1>2, <1>4, <1>5, <2>1 DEF Decided, Promised
  <2>2. CASE pc[p] = "leaveMembers" /\ LeaveMembers(p)
    <3>1. Chosen(p)
      BY <2>2 DEF ListNext, listVars, vars
    <3>2. {v} = nextOwner(GetMembers(c), u)
      BY <1>4, <1>5, <2>2, <3>1 DEF Chosen
    <3>3. u \in Members(c)
      BY <1>2, <1>4, <2>2 DEF ReadsHold, OwnerCalls, Members, IsMember
    <3>4. nextOwner(GetMembers(c), u) =
              {x \in Successors(c, u) : \A w \in Successors(c, u) : Position(c, x) <= Position(c, w)}
      BY <1>4, <3>3, LoopOldest
    <3> QED  BY <3>2, <3>4 DEF Oldest
  <2> QED  BY <1>1, <2>1, <2>2
<1>7. Oldest(c, u, v)'
  BY <1>1, <1>4, <1>6, OldestKept
<1> QED  BY <1>3, <1>4, <1>5, <1>7 DEF Oldest, Successors, Position, IsMember

\* Only the promotion of LeaveChat makes an owner of somebody in a chat that exists.
LEMMA OnlyPromotion ==
    ASSUME OneRequestAtATime, AloneInv, [Next]_vars, NEW c \in Chats, NEW v \in Users,
           kind[c] # "absent", members[c][v] # "owner", members'[c][v] = "owner"
    PROVE  \E p \in Procs : pc[p] = "leavePromote" /\ req[p].chat = c /\ req[p].target = v
<1>0. TypeOK /\ \A p \in Procs : ReadsHold(p) /\ Decided(p)
  BY DEF AloneInv, SerialInv, DirectInv
<1>1. ASSUME NEW caller \in Registered, NEW ids \in SUBSET Users, CreateGroup(caller, ids)
      PROVE  FALSE
  <2>1. PICK d \in FreshIds : CreateWithMembers(d, "group",
            [u \in Users |-> IF u = caller THEN "owner"
                             ELSE IF u \in ids THEN "member" ELSE "none"])
    BY <1>1 DEF CreateGroup
  <2>2. kind[d] = "absent" /\ members'[c] = members[c]
    BY <1>0, <2>1 DEF FreshIds, CreateWithMembers, TypeOK
  <2> QED  BY <2>2
<1>2. ASSUME NEW p \in Procs, Arrive(p) PROVE FALSE
  BY <1>2 DEF Arrive, DirectLookup, AddBegin, RemoveBegin, RoleBegin, LeaveBegin, store
<1>3. ASSUME NEW p \in Procs, Step(p), ~LeavePromote(p) PROVE FALSE
  <2>1. CASE DirectCreate(p)
    <3>1. req[p].chat \in Chats /\ members' = [members EXCEPT ![req[p].chat] = members'[req[p].chat]]
          /\ members'[req[p].chat][v] # "owner"
      BY <1>0, <2>1 DEF DirectCreate, CreateWithMembers, TypeOK, Request
    <3> QED  BY <1>0, <3>1 DEF TypeOK
  <2>2. CASE AddInsert(p) \/ RemoveDelete(p) \/ RoleWrite(p) \/ LeaveRemove(p)
    <3>1. PICK r : /\ \/ InsertRow(req[p].chat, req[p].target, r)
                      \/ DeleteRow(req[p].chat, req[p].target)
                      \/ DeleteRow(req[p].chat, req[p].caller)
                      \/ WriteRole(req[p].chat, req[p].target, r)
                   /\ r # "owner"
      BY <1>0, <2>2 DEF AddInsert, RemoveDelete, RoleWrite, LeaveRemove, Decided
    <3> QED  BY <1>0, <3>1 DEF InsertRow, DeleteRow, WriteRole, TypeOK
  <2>3. CASE UNCHANGED members
    BY <2>3
  <2> QED  BY <1>3, <2>1, <2>2, <2>3
    DEF Step, AddCaller, AddProbe, RemoveCaller, RemoveTarget, RoleTarget, LeaveCaller,
        LeaveMembers, LeaveDrop, DeleteChat, Fail, Check, store
<1>4. ASSUME NEW p \in Procs, LeavePromote(p)
      PROVE  pc[p] = "leavePromote" /\ req[p].chat = c /\ req[p].target = v
  <2>1. pc[p] = "leavePromote" /\ req[p] \in Request /\ WriteRole(req[p].chat, req[p].target, "owner")
    BY <1>0, <1>4 DEF LeavePromote, TypeOK
  <2> QED  BY <1>0, <2>1 DEF WriteRole, TypeOK, Request
<1>5. ~UNCHANGED vars
  BY DEF vars, store
<1> QED  BY <1>1, <1>2, <1>3, <1>4, <1>5 DEF Next

\* When requests do not overlap, ownership of a group passes only by its
\* owner's leaving and then to the oldest admin, or without one to the oldest
\* member (usecase.go:24), for any users and chats, after any history of
\* joins, departures and changes of role and whatever statements have failed.
THEOREM OldestSucceeds ==
    ASSUME OneRequestAtATime
    PROVE  ListSpec => SuccessionByAge
<1> DEFINE Inv == AloneInv /\ ListInv /\ Promised
           A == \A c \in Chats, v \in Users :
                   kind[c] # "absent" /\ members[c][v] # "owner" /\ members'[c][v] = "owner" =>
                       \E u \in Users \ {v} : /\ members[c][u] = "owner"
                                              /\ v \in Successors(c, u) /\ Oldest(c, u, v)
<1>1. ListInit => Inv
  <2>1. ListInit => AloneInv /\ ListInv
    BY AloneInitial, ListInitial DEF ListInit
  <2>2. ListInit => Promised
    BY DEF ListInit, Init, Promised
  <2> QED  BY <2>1, <2>2
<1>2. Inv /\ [ListNext]_listVars => Inv'
  <2> SUFFICES ASSUME AloneInv, ListInv, Promised, [ListNext]_listVars
               PROVE  AloneInv' /\ ListInv' /\ Promised'
    OBVIOUS
  <2>1. AloneInv'
    <3>1. [Next]_vars
      BY DEF ListNext, listVars
    <3> QED  BY <3>1, AloneStep
  <2>2. ListInv'
    BY ListStep
  <2> QED  BY <2>1, <2>2, PromisedStep
<1>3. Inv /\ [ListNext]_listVars => [A]_listVars
  <2> SUFFICES ASSUME AloneInv, Promised, [Next]_vars, NEW c \in Chats, NEW v \in Users,
                      kind[c] # "absent", members[c][v] # "owner", members'[c][v] = "owner"
               PROVE  \E u \in Users \ {v} : /\ members[c][u] = "owner"
                                             /\ v \in Successors(c, u) /\ Oldest(c, u, v)
    BY DEF ListNext, listVars
  <2>1. PICK p \in Procs : pc[p] = "leavePromote" /\ req[p].chat = c /\ req[p].target = v
    BY OnlyPromotion
  <2>2. /\ req[p].caller \in Users /\ req[p].caller # v
        /\ members[c][req[p].caller] = "owner" /\ v \in Successors(c, req[p].caller)
    BY <2>1 DEF AloneInv, SerialInv, DirectInv, ReadsHold, OwnerCalls, Decided, TypeOK, Request
  <2>3. Oldest(c, req[p].caller, v)
    BY <2>1 DEF Promised
  <2> QED  BY <2>2, <2>3
<1> QED  BY <1>1, <1>2, <1>3, PTL DEF ListSpec, SuccessionByAge

=============================================================================
