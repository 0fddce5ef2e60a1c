----------------------- MODULE MembershipCacheProofs ------------------------
(* Proofs about MembershipCache, alone and under Posting, for any number of *)
(* goroutines and writes.                                                   *)
EXTENDS Posting, TLAPS

\* Before the chat is created there is no row.
NoRowYet == ~created => row = "none"

CacheInv == TypeOK /\ NoRowYet /\ StaleHasCause

\* A cache command on key k by p, the last that p owes to k, keeps the
\* invariant: the other key is untouched and still owed what it was owed.
LEMMA CommandStep ==
    ASSUME CacheInv, TypeOK', NEW p \in Procs, NEW k \in Keys,
           UNCHANGED <<created, row>>,
           \A j \in Keys \ {k} : entry'[j] = entry[j] /\ suspect'[j] = suspect[j],
           \A j \in Keys \ {k} : Pending(p, j) => Pending(p, j)',
           \A q \in Procs \ {p} : pc'[q] = pc[q],
           \/ entry'[k] = "empty"
           \/ suspect'[k]
           \/ entry'[k] = Encode(k, row)
           \/ entry'[k] = entry[k] /\ suspect'[k] = suspect[k] /\ ~Pending(p, k)
    PROVE  CacheInv'
<1>1. NoRowYet'
  BY DEF CacheInv, NoRowYet
<1>2. ASSUME NEW j \in Keys, Stale(j)'
      PROVE  suspect'[j] \/ \E q \in Procs : Pending(q, j)'
  <2>1. CASE j # k
    <3>1. Stale(j)
      BY <1>2, <2>1 DEF Stale, Encode
    <3>2. suspect[j] \/ \E q \in Procs : Pending(q, j)
      BY <3>1 DEF CacheInv, StaleHasCause
    <3>. QED  BY <2>1, <3>2 DEF Pending
  <2>2. CASE j = k
    <3>1. suspect'[k] \/ (entry'[k] = entry[k] /\ suspect'[k] = suspect[k] /\ ~Pending(p, k))
      BY <1>2, <2>2 DEF Stale, Encode
    <3>2. CASE ~suspect'[k]
      <4>1. Stale(k) /\ ~suspect[k] /\ ~Pending(p, k)
        BY <1>2, <2>2, <3>1, <3>2 DEF Stale, Encode
      <4>2. PICK q \in Procs : Pending(q, k)
        BY <4>1 DEF CacheInv, StaleHasCause
      <4>. QED  BY <2>2, <4>1, <4>2 DEF Pending
    <3>. QED  BY <2>2, <3>2
  <2>. QED  BY <2>1, <2>2
<1>3. StaleHasCause'
  BY <1>2 DEF StaleHasCause
<1>. QED  BY <1>1, <1>3 DEF CacheInv

\* A SQL write by an idle p keeps the invariant if p then owes a command to
\* every key whose value the write has changed.
LEMMA WriteStep ==
    ASSUME CacheInv, TypeOK', NEW p \in Procs, pc[p] = "idle", created',
           UNCHANGED <<entry, suspect>>,
           \A q \in Procs \ {p} : pc'[q] = pc[q],
           \A k \in Keys : Encode(k, row') = Encode(k, row) \/ Pending(p, k)'
    PROVE  CacheInv'
<1>1. ASSUME NEW k \in Keys, Stale(k)'
      PROVE  suspect'[k] \/ \E q \in Procs : Pending(q, k)'
  <2>1. CASE Pending(p, k)'
    BY <2>1
  <2>2. CASE ~Pending(p, k)'
    <3>1. Stale(k)
      BY <1>1, <2>2 DEF Stale, Encode
    <3>2. suspect[k] \/ \E q \in Procs : Pending(q, k)
      BY <3>1 DEF CacheInv, StaleHasCause
    <3>. QED  BY <3>2 DEF Pending
  <2>. QED  BY <2>1, <2>2
<1>2. StaleHasCause'
  BY <1>1 DEF StaleHasCause
<1>. QED  BY <1>2 DEF CacheInv, NoRowYet

\* The cache commands keep the cache typed.
LEMMA CommandTypes ==
    ASSUME TypeOK, NEW k \in Keys, NEW role \in RoleOrNil,
           Put(k, role) \/ Drop(k) \/ LoseFill \/ LoseWrite(k)
    PROVE  /\ entry' \in [Keys -> Role \cup {"0", "1", "empty"}]
           /\ suspect' \in [Keys -> BOOLEAN]
           /\ lost' \in Nat
<1>1. Encode(k, role) \in Role \cup {"0", "1", "empty"}
  BY DEF Encode, RoleOrNil
<1>2. CASE Put(k, role)
  BY <1>1, <1>2 DEF Put, TypeOK
<1>3. CASE Drop(k)
  BY <1>3 DEF Drop, TypeOK
<1>4. CASE LoseFill
  BY <1>4 DEF LoseFill, Lose, TypeOK
<1>5. CASE LoseWrite(k)
  BY <1>5 DEF LoseWrite, Lose, TypeOK
<1>. QED  BY <1>2, <1>3, <1>4, <1>5

LEMMA GotoTypes ==
    ASSUME TypeOK, NEW p \in Procs, NEW label \in Labels, NEW role \in RoleOrNil,
           Goto(p, label, role)
    PROVE  pc' \in [Procs -> Labels] /\ val' \in [Procs -> RoleOrNil]
BY DEF Goto, TypeOK, RoleOrNil

\* One case for each kind of action: a call, a command, the expiry.
LEMMA TypeStep == TypeOK /\ [Next]_vars => TypeOK'
<1>. SUFFICES ASSUME TypeOK, [Next]_vars PROVE TypeOK'
  OBVIOUS
<1>1. ASSUME NEW p \in Procs, Call(p) PROVE TypeOK'
  <2>1. CASE IsMember(p) \/ GetMember(p)
    <3>1. PICK label \in Labels : Goto(p, label, row)
      BY <2>1 DEF IsMember, GetMember, Labels
    <3>2. pc' \in [Procs -> Labels] /\ val' \in [Procs -> RoleOrNil]
      BY <3>1, GotoTypes DEF TypeOK
    <3>. QED  BY <2>1, <3>2 DEF IsMember, GetMember, NoCache, TypeOK
  <2>2. CASE CreateWithMembers(p) \/ AddMember(p) \/ RemoveMember(p) \/ Delete(p)
             \/ UpdateMemberRole(p)
    <3>1. PICK role \in RoleOrNil, label \in Labels : Write(p, role, label)
      BY <2>2 DEF CreateWithMembers, AddMember, RemoveMember, Delete, UpdateMemberRole,
                  RoleOrNil, Role, Labels, TypeOK
    <3>2. created' \in BOOLEAN
      BY <2>2 DEF CreateWithMembers, AddMember, RemoveMember, Delete, UpdateMemberRole, TypeOK
    <3>3. pc' \in [Procs -> Labels] /\ val' \in [Procs -> RoleOrNil]
      BY <3>1, GotoTypes DEF Write
    <3>. QED  BY <3>1, <3>2, <3>3 DEF Write, NoCache, TypeOK
  <2>. QED  BY <1>1, <2>1, <2>2 DEF Call
<1>2. ASSUME NEW p \in Procs, Finish(p) PROVE TypeOK'
  <2>1. val[p] \in RoleOrNil /\ "none" \in RoleOrNil
    BY DEF TypeOK, RoleOrNil
  <2>2. \E k \in Keys : Put(k, val[p]) \/ Drop(k) \/ LoseFill \/ LoseWrite(k)
    BY <1>2 DEF Finish, IsMemberFill, GetMemberFill, SetIsMember, SetMember, DelIsMember,
                DelMember, Keys
  <2>3. \E label \in Labels, role \in RoleOrNil : Goto(p, label, role)
    BY <1>2, <2>1 DEF Finish, IsMemberFill, GetMemberFill, SetIsMember, SetMember,
                      DelIsMember, DelMember, Labels
  <2>4. UNCHANGED <<created, row, writes>>
    BY <1>2 DEF Finish, IsMemberFill, GetMemberFill, SetIsMember, SetMember, DelIsMember,
                DelMember
  <2>. QED  BY <2>1, <2>2, <2>3, <2>4, CommandTypes, GotoTypes DEF TypeOK
<1>3. ASSUME NEW k \in Keys, Expire(k) PROVE TypeOK'
  BY <1>3, CommandTypes DEF Expire, TypeOK
<1>4. CASE UNCHANGED vars
  BY <1>4 DEF vars, TypeOK
<1>. QED  BY <1>1, <1>2, <1>3, <1>4 DEF Next

-----------------------------------------------------------------------------
LEMMA CacheStep == CacheInv /\ [Next]_vars => CacheInv'
<1>. SUFFICES ASSUME CacheInv, [Next]_vars PROVE CacheInv'
  OBVIOUS
<1>1. TypeOK /\ TypeOK'
  BY TypeStep DEF CacheInv
<1>. USE DEF Keys
<1>2. ASSUME NEW p \in Procs, IsMember(p) \/ GetMember(p) PROVE CacheInv'
  <2>1. /\ pc[p] = "idle" /\ created' /\ UNCHANGED <<entry, suspect, row>>
        /\ \A q \in Procs \ {p} : pc'[q] = pc[q]
    BY <1>1, <1>2 DEF IsMember, GetMember, NoCache, Goto, TypeOK
  <2>. QED  BY <1>1, <2>1, WriteStep DEF Encode
<1>3. ASSUME NEW p \in Procs, CreateWithMembers(p) \/ AddMember(p) \/ RemoveMember(p)
                              \/ Delete(p) \/ UpdateMemberRole(p)
      PROVE  CacheInv'
  <2>1. /\ pc[p] = "idle" /\ created' /\ UNCHANGED <<entry, suspect>>
        /\ \A q \in Procs \ {p} : pc'[q] = pc[q]
    BY <1>1, <1>3 DEF CreateWithMembers, AddMember, RemoveMember, Delete, UpdateMemberRole,
                      Write, NoCache, Goto, TypeOK
  <2>2. \/ pc'[p] \in {"setIs", "delIs"}
        \/ pc'[p] = "delMember" /\ row # "none" /\ row' # "none"
        \/ row' = row
    BY <1>1, <1>3 DEF CreateWithMembers, AddMember, RemoveMember, Delete, UpdateMemberRole,
                      Write, Goto, TypeOK, Role, CacheInv, NoRowYet
  <2>3. \A k \in Keys : Encode(k, row') = Encode(k, row) \/ Pending(p, k)'
    BY <2>2 DEF Encode, Pending
  <2>. QED  BY <1>1, <2>1, <2>3, WriteStep
<1>4. ASSUME NEW p \in Procs, Finish(p) PROVE CacheInv'
  <2>1. /\ UNCHANGED <<created, row>>
        /\ \A q \in Procs \ {p} : pc'[q] = pc[q]
    BY <1>1, <1>4 DEF Finish, IsMemberFill, GetMemberFill, SetIsMember, SetMember,
                      DelIsMember, DelMember, Goto, TypeOK
  <2>2. ASSUME NEW k \in Keys, NEW role, Put(k, role) \/ Drop(k) \/ LoseWrite(k)
        PROVE  /\ \A j \in Keys \ {k} : entry'[j] = entry[j] /\ suspect'[j] = suspect[j]
               /\ entry'[k] = "empty" \/ suspect'[k] \/ entry'[k] = Encode(k, row)
    <3>1. CASE Put(k, role)
      BY <1>1, <3>1 DEF Put, TypeOK
    <3>2. CASE Drop(k)
      BY <1>1, <3>2 DEF Drop, TypeOK
    <3>3. CASE LoseWrite(k)
      BY <1>1, <3>3 DEF LoseWrite, Lose, TypeOK
    <3>. QED  BY <2>2, <3>1, <3>2, <3>3
  <2>3. ASSUME LoseFill
        PROVE  entry' = entry /\ suspect' = suspect
    BY <2>3 DEF LoseFill, Lose
  <2>4. CASE IsMemberFill(p)
    <3>1. Put("ismember", val[p]) \/ LoseFill
      BY <2>4 DEF IsMemberFill
    <3>2. pc[p] = "fillIs"
      BY <2>4 DEF IsMemberFill
    <3>. QED  BY <1>1, <2>1, <2>2, <2>3, <3>1, <3>2, CommandStep DEF Pending
  <2>5. CASE GetMemberFill(p)
    <3>1. Put("chatmember", val[p]) \/ LoseFill
      BY <2>5 DEF GetMemberFill
    <3>2. pc[p] = "fillMember"
      BY <2>5 DEF GetMemberFill
    <3>. QED  BY <1>1, <2>1, <2>2, <2>3, <3>1, <3>2, CommandStep DEF Pending
  <2>6. CASE SetIsMember(p) \/ DelIsMember(p)
    <3>1. /\ \E role : Put("ismember", role) \/ Drop("ismember") \/ LoseWrite("ismember")
          /\ pc'[p] \in {"setMember", "delMember"}
      BY <1>1, <2>6 DEF SetIsMember, DelIsMember, Goto, TypeOK
    <3>. QED  BY <1>1, <2>1, <2>2, <3>1, CommandStep DEF Pending
  <2>7. CASE SetMember(p) \/ DelMember(p)
    <3>1. /\ \E role : Put("chatmember", role) \/ Drop("chatmember") \/ LoseWrite("chatmember")
          /\ pc[p] \in {"setMember", "delMember"}
      BY <2>7 DEF SetMember, DelMember
    <3>. QED  BY <1>1, <2>1, <2>2, <3>1, CommandStep DEF Pending
  <2>. QED  BY <1>4, <2>4, <2>5, <2>6, <2>7 DEF Finish
<1>5. ASSUME NEW k \in Keys, Expire(k) PROVE CacheInv'
  <2>1. /\ UNCHANGED <<created, row, pc>> /\ entry'[k] = "empty"
        /\ \A j \in Keys \ {k} : entry'[j] = entry[j] /\ suspect'[j] = suspect[j]
    BY <1>1, <1>5 DEF Expire, Drop, TypeOK
  <2>2. \A j \in Keys : Stale(j)' => Stale(j) /\ suspect'[j] = suspect[j]
    BY <2>1 DEF Stale, Encode
  <2>. QED  BY <1>1, <2>1, <2>2 DEF CacheInv, NoRowYet, StaleHasCause, Pending
<1>6. CASE UNCHANGED vars
  BY <1>1, <1>6 DEF vars, CacheInv, NoRowYet, StaleHasCause, Stale, Pending, Encode
<1>. QED  BY <1>2, <1>3, <1>4, <1>5, <1>6 DEF Next, Call

\* CacheInv is an invariant of the cached repository's calls, its lost
\* commands and expiry.
THEOREM CacheInvariant == Spec => []CacheInv
<1>1. Init => CacheInv
  <2>1. Init => TypeOK
    <3>. SUFFICES ASSUME Init PROVE TypeOK
      OBVIOUS
    <3>1. created \in BOOLEAN /\ suspect \in [Keys -> BOOLEAN]
      BY Zenon DEF Init
    <3>2. row \in RoleOrNil /\ val \in [Procs -> RoleOrNil] /\ pc \in [Procs -> Labels]
      BY DEF Init, RoleOrNil, Labels
    <3>3. entry \in [Keys -> Role \cup {"0", "1", "empty"}] /\ writes \in Nat /\ lost \in Nat
      BY DEF Init
    <3>. QED  BY <3>1, <3>2, <3>3 DEF TypeOK
  <2>2. Init => NoRowYet /\ StaleHasCause
    BY DEF Init, NoRowYet, StaleHasCause, Stale
  <2>. QED  BY <2>1, <2>2 DEF CacheInv
<1>. QED  BY <1>1, CacheStep, PTL DEF Spec

\* The type invariant: what the two keys may hold, among others.
THEOREM CacheTyped == Spec => []TypeOK
<1>1. CacheInv => TypeOK
  BY DEF CacheInv
<1>. QED  BY CacheInvariant, <1>1, PTL

\* A membership entry contradicts the database only while its writer is still
\* at work, after a read or write that overlapped another write, or after a
\* failed cache command: for any number of goroutines, writes and failures.
THEOREM StaleEntriesExplained == Spec => []StaleHasCause
<1>1. CacheInv => StaleHasCause
  BY DEF CacheInv
<1>. QED  BY CacheInvariant, <1>1, PTL

\* Sending is nothing new to the cache: a send asks through IsMember and fills
\* like every other caller.
LEMMA SendersAreCallers == PostSpec => Spec
<1>1. PostInit => Init
  BY DEF PostInit
<1>2. [PostNext]_postVars => [Next]_vars
  <2>. SUFFICES ASSUME [PostNext]_postVars PROVE [Next]_vars
    OBVIOUS
  <2>1. ASSUME NEW p \in Procs,
               Others(p) \/ SendHit(p) \/ SendMiss(p) \/ SendAsked(p) \/ SendCreate(p)
        PROVE  [Next]_vars
    BY <2>1 DEF Others, SendHit, SendMiss, SendAsked, SendCreate, Next, Call, Finish
  <2>2. ASSUME NEW k \in Keys, PostExpire(k) PROVE [Next]_vars
    BY <2>2 DEF PostExpire, Next
  <2>3. CASE UNCHANGED postVars
    BY <2>3 DEF postVars
  <2>. QED  BY <2>1, <2>2, <2>3 DEF PostNext
<1>. QED  BY <1>1, <1>2, PTL DEF PostSpec, Spec

\* Also while messages are sent over the cache a stale entry has a cause: a
\* writer that is not done, a call that overlapped it, or a lost command.
THEOREM StaleWhilePosting == PostSpec => []StaleHasCause
BY SendersAreCallers, StaleEntriesExplained, PTL

=============================================================================
