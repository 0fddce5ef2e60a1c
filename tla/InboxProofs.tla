---------------------------- MODULE InboxProofs -----------------------------
(***************************************************************************)
(* Unread counts are right but for messages in flight, and a walk through  *)
(* the history returns each message once and skips none, for any number of *)
(* users, messages and instants, any difference of the two clocks and any  *)
(* limits.                                                                 *)
(***************************************************************************)
EXTENDS Inbox, FiniteSetTheorems, TLAPS

Known == sending \cup messages

\* Nothing is dated in the future.
Consistent ==
    /\ \A m \in Known : m.at <= now
    /\ \A u \in Users : marked[u] <= now

\* The receipt is no further from the MarkRead than the clocks may differ.
Covered == \A u \in Users :
    /\ marked[u] <= lastRead[u] + MaxSkew
    /\ lastRead[u] <= IF marked[u] = 0 THEN 0 ELSE marked[u] + MaxSkew

\* It is earlier than anything neither seen nor raced, also of what is still
\* being sent.
Uncovered == \A u \in Users : \A m \in Known :
    m.id \notin deleted \cup seen[u] \cup raced[u] => lastRead[u] < m.at

ReceiptInv == TypeOK /\ Consistent /\ Covered /\ Uncovered

-----------------------------------------------------------------------------
\* Nothing has been sent or read at first.
LEMMA ReceiptInitial == Init => ReceiptInv
BY TimeAssumption DEF Init, ReceiptInv, TypeOK, Consistent, Covered, Uncovered, Known, Message

\* The types, for every step of the use case and the clock.
LEMMA ReceiptTypes ==
    ASSUME TypeOK, [Next]_vars
    PROVE  TypeOK'
<1> USE TimeAssumption DEF TypeOK
<1>1. CASE Tick
  BY <1>1 DEF Tick
<1>2. ASSUME NEW u \in Users, MarkRead(u) PROVE TypeOK'
  <2>1. {m.id : m \in Visible} \subseteq Ids /\ {m.id : m \in sending} \subseteq Ids
    BY DEF Visible, Message
  <2>2. lastRead' \in [Users -> 0 .. MaxTime + MaxSkew]
    BY <1>2 DEF MarkRead, DatabaseNow
  <2> QED  BY <1>2, <2>1, <2>2 DEF MarkRead
<1>3. ASSUME NEW u \in Users, NEW i \in Ids, Build(u, i) PROVE TypeOK'
  BY <1>3 DEF Build, Message
<1>4. ASSUME NEW m \in sending, Create(m) PROVE TypeOK'
  BY <1>4 DEF Create
<1>5. ASSUME NEW m \in messages, Delete(m) PROVE TypeOK'
  BY <1>5 DEF Delete, Message
<1>6. CASE UNCHANGED vars
  BY <1>6 DEF vars
<1> QED  BY <1>1, <1>2, <1>3, <1>4, <1>5, <1>6 DEF Next

\* Every step keeps the invariant.
LEMMA ReceiptStep ==
    ASSUME ReceiptInv, [Next]_vars
    PROVE  ReceiptInv'
<1>0. TypeOK /\ Consistent /\ Covered /\ Uncovered /\ TypeOK'
  BY ReceiptTypes DEF ReceiptInv
<1>t. /\ now \in Nat \ {0} /\ MaxSkew \in Nat
      /\ lastRead \in [Users -> Nat] /\ marked \in [Users -> Nat]
      /\ \A m \in Known : m.at \in Nat \ {0}
  BY <1>0, TimeAssumption DEF TypeOK, Known, Message
<1> SUFFICES (Consistent /\ Covered /\ Uncovered)'
  BY <1>0 DEF ReceiptInv
<1>1. CASE Tick
  <2>1. /\ Known' = Known /\ now' = now + 1
        /\ UNCHANGED <<deleted, lastRead, marked, seen, raced>>
    BY <1>1 DEF Tick, Known
  <2> QED  BY <1>0, <1>t, <2>1 DEF Consistent, Covered, Uncovered
<1>2. ASSUME NEW u \in Users, MarkRead(u)
      PROVE  (Consistent /\ Covered /\ Uncovered)'
  <2>1. /\ Known' = Known /\ UNCHANGED <<now, sending, messages, deleted>>
        /\ marked'[u] = now
        /\ seen'[u] = seen[u] \cup {m.id : m \in Visible}
        /\ raced'[u] = raced[u] \cup {m.id : m \in sending}
    BY <1>0, <1>2 DEF MarkRead, Known, TypeOK
  <2>2. \A v \in Users : v # u => /\ lastRead'[v] = lastRead[v] /\ marked'[v] = marked[v]
                                  /\ seen'[v] = seen[v] /\ raced'[v] = raced[v]
    BY <1>0, <1>2 DEF MarkRead, TypeOK
  <2>3. now <= lastRead'[u] + MaxSkew /\ lastRead'[u] <= now + MaxSkew
    BY <1>0, <1>2 DEF MarkRead, DatabaseNow, TypeOK
  <2>4. Consistent'
    BY <1>0, <1>t, <2>1, <2>2 DEF Consistent
  <2>5. Covered'
    BY <1>0, <1>t, <2>1, <2>2, <2>3 DEF Covered
  <2>6. Uncovered'
    <3> SUFFICES ASSUME NEW v \in Users, NEW m \in Known,
                        m.id \notin deleted \cup seen'[v] \cup raced'[v]
                 PROVE  lastRead'[v] < m.at
      BY <2>1 DEF Uncovered
    <3>1. CASE v = u
      <4>1. m \notin sending /\ m \notin Visible
        BY <2>1, <3>1
      <4> QED  BY <4>1 DEF Known, Visible
    <3>2. CASE v # u
      BY <1>0, <2>2, <3>2 DEF Uncovered
    <3> QED  BY <3>1, <3>2
  <2> QED  BY <2>4, <2>5, <2>6
<1>3. ASSUME NEW u \in Users, NEW i \in Ids, Build(u, i)
      PROVE  (Consistent /\ Covered /\ Uncovered)'
  <2> DEFINE new == [id |-> i, sender |-> u, at |-> now]
  <2>1. Known' = Known \cup {new} /\ UNCHANGED <<now, deleted, lastRead, marked, seen>>
    BY <1>3 DEF Build, Known
  <2>2. new.id = i /\ new.at = now
    OBVIOUS
  <2>3. \A v \in Users : /\ raced[v] \subseteq raced'[v]
                         /\ marked[v] # 0 /\ now <= marked[v] + MaxSkew => i \in raced'[v]
    BY <1>3 DEF Build
  <2> HIDE DEF new
  <2>4. Consistent' /\ Covered'
    BY <1>0, <1>t, <2>1, <2>2 DEF Consistent, Covered
  <2>5. Uncovered'
    <3> SUFFICES ASSUME NEW v \in Users, NEW m \in Known \cup {new},
                        m.id \notin deleted \cup seen[v] \cup raced'[v]
                 PROVE  lastRead[v] < m.at
      BY <2>1 DEF Uncovered
    <3>1. CASE m \in Known
      BY <1>0, <2>3, <3>1 DEF Uncovered
    <3>2. CASE m = new
      <4>1. marked[v] = 0 \/ marked[v] + MaxSkew < now
        BY <1>t, <2>2, <2>3, <3>2
      <4> QED  BY <1>0, <1>t, <2>2, <3>2, <4>1 DEF Covered
    <3> QED  BY <3>1, <3>2
  <2> QED  BY <2>4, <2>5
<1>4. ASSUME NEW m \in sending, Create(m)
      PROVE  (Consistent /\ Covered /\ Uncovered)'
  <2>1. Known' = Known /\ UNCHANGED <<now, deleted, lastRead, marked, seen, raced>>
    BY <1>4 DEF Create, Known
  <2> QED  BY <1>0, <2>1 DEF Consistent, Covered, Uncovered
<1>5. ASSUME NEW m \in messages, Delete(m)
      PROVE  (Consistent /\ Covered /\ Uncovered)'
  <2>1. /\ Known' = Known /\ deleted \subseteq deleted'
        /\ UNCHANGED <<now, lastRead, marked, seen, raced>>
    BY <1>5 DEF Delete, Known
  <2> QED  BY <1>0, <2>1 DEF Consistent, Covered, Uncovered
<1>6. CASE UNCHANGED vars
  BY <1>0, <1>6 DEF vars, Consistent, Covered, Uncovered, Known
<1> QED  BY <1>1, <1>2, <1>3, <1>4, <1>5, <1>6 DEF Next

\* ReceiptInv is an invariant of MarkRead, Send, Delete and the clock.
THEOREM ReceiptsInvariant == Spec => []ReceiptInv
<1>1. ReceiptInv /\ [Next]_vars => ReceiptInv'
  BY ReceiptStep
<1> QED  BY ReceiptInitial, <1>1, PTL DEF Spec

\* The type invariant.
THEOREM ReceiptsTyped == Spec => []TypeOK
<1>1. ReceiptInv => TypeOK
  BY DEF ReceiptInv
<1> QED  BY ReceiptsInvariant, <1>1, PTL

\* What a user has marked as read is never unread again (MarkRead and the
\* unread query), for any number of users, messages and instants, unless it is
\* younger than the clocks differ.
THEOREM NeverUnreadAgain == Spec => []ReadStaysRead
<1>1. ReceiptInv => ReadStaysRead
  <2> SUFFICES ASSUME ReceiptInv, NEW u \in Users, NEW m \in Unread(u)
               PROVE  marked[u] < m.at + MaxSkew
    BY DEF ReadStaysRead
  <2>1. m \in Known /\ m.at > lastRead[u]
    BY DEF Unread, Visible, Known
  <2>2. marked[u] <= lastRead[u] + MaxSkew
    BY DEF ReceiptInv, Covered
  <2>3. m.at \in Nat /\ lastRead[u] \in Nat /\ marked[u] \in Nat /\ MaxSkew \in Nat
    BY <2>1, TimeAssumption DEF ReceiptInv, TypeOK, Known, Message
  <2> QED  BY <2>1, <2>2, <2>3
<1> QED  BY ReceiptsInvariant, <1>1, PTL

\* A message that is not counted was seen, is one's own, or was in flight
\* during a MarkRead.
THEOREM OnlyRacesAreMissed == Spec => []MissedOnlyByRace
<1>1. ReceiptInv => MissedOnlyByRace
  <2> SUFFICES ASSUME ReceiptInv, NEW u \in Users, NEW m \in Visible,
                      m.sender # u, m.id \notin seen[u] \cup raced[u]
               PROVE  m \in Unread(u)
    BY DEF MissedOnlyByRace
  <2>1. m \in Known /\ m.id \notin deleted
    BY DEF Visible, Known
  <2>2. lastRead[u] < m.at
    BY <2>1 DEF ReceiptInv, Uncovered
  <2>3. m.at \in Nat /\ lastRead[u] \in Nat
    BY <2>1, TimeAssumption DEF ReceiptInv, TypeOK, Known, Message
  <2> QED  BY <2>2, <2>3 DEF Unread
<1> QED  BY ReceiptsInvariant, <1>1, PTL

-----------------------------------------------------------------------------
(* ORDER BY created_at DESC, id DESC puts any finite set of rows in order. *)

\* No two rows share an id.
Distinct(rows) == \A m, n \in rows : m.id = n.id => m = n

\* The key (created_at, id) is a strict total order.
LEMMA OlderOrders ==
    /\ \A m \in Message : ~Older(m, m)
    /\ \A m, n, k \in Message : Older(m, n) /\ Older(n, k) => Older(m, k)
    /\ \A m, n \in Message : m.id # n.id => Older(m, n) \/ Older(n, m)
<1>1. ASSUME NEW m \in Message
      PROVE  m.at \in Nat /\ m.id \in Nat
  <2>1. m.at \in 1 .. MaxTime /\ m.id \in Ids
    BY DEF Message
  <2>2. m.id \in Nat
    BY <2>1, IdsAssumption, Zenon
  <2> QED  BY <2>1, <2>2, TimeAssumption
<1> QED  BY <1>1 DEF Older

\* Among finite sets of rows, one that has a property and no smaller one that
\* has it: what the proofs below use for induction.
LEMMA Smallest ==
    ASSUME NEW S, NEW T, T \subseteq FiniteSubsetsOf(S), T # {}
    PROVE  \E U \in T : \A V \in T : ~(V \subseteq U /\ V # U)
<1>1. PICK U \in T : \A V \in T : ~(<<V, U>> \in StrictSubsetOrdering(S))
  BY FS_StrictSubsetOrderingWellFounded, WFMin
<1>2. \A V \in T : V \subseteq S
  BY DEF FiniteSubsetsOf
<1> QED  BY <1>1, <1>2 DEF StrictSubsetOrdering

LEMMA OldestExists ==
    ASSUME NEW S, S \subseteq Message, IsFiniteSet(S), Distinct(S), S # {}
    PROVE  \E m \in S : \A n \in S \ {m} : Older(m, n)
<1> DEFINE T == {U \in FiniteSubsetsOf(S) : U # {} /\ ~\E m \in U : \A n \in U \ {m} : Older(m, n)}
<1> SUFFICES ASSUME T # {}  PROVE FALSE
  BY DEF FiniteSubsetsOf
<1>1. PICK U \in T : \A V \in T : ~(V \subseteq U /\ V # U)
  <2>1. T \subseteq FiniteSubsetsOf(S) /\ T # {}
    OBVIOUS
  <2> HIDE DEF T
  <2> QED  BY <2>1, Smallest
<1>2. /\ U \subseteq S /\ IsFiniteSet(U) /\ U # {} /\ U \subseteq Message
      /\ ~\E m \in U : \A n \in U \ {m} : Older(m, n)
  BY DEF FiniteSubsetsOf
<1>3. PICK x \in U : TRUE
  BY <1>2
<1>4. U \ {x} \in FiniteSubsetsOf(S) /\ U \ {x} \subseteq U /\ U \ {x} # U
  BY <1>2, <1>3, FS_RemoveElement DEF FiniteSubsetsOf
<1>5. U \ {x} # {}
  BY <1>2, <1>3
<1>6. PICK m \in U \ {x} : \A n \in (U \ {x}) \ {m} : Older(m, n)
  BY <1>1, <1>4, <1>5
<1>7. Older(m, x) \/ Older(x, m)
  BY <1>2, <1>3, <1>6, OlderOrders DEF Distinct
<1>8. CASE Older(m, x)
  BY <1>2, <1>6, <1>8
<1>9. CASE Older(x, m)
  <2>1. \A n \in U \ {x} : Older(x, n)
    BY <1>2, <1>6, <1>9, OlderOrders
  <2> QED  BY <1>2, <1>3, <2>1
<1> QED  BY <1>7, <1>8, <1>9

InOrderOf(s) == \A i, j \in 1 .. Len(s) : i < j => Newer(s[i], s[j])

LEMMA SortExists ==
    ASSUME NEW S, S \subseteq Message, IsFiniteSet(S), Distinct(S)
    PROVE  \E s \in SetToSeqs(S) : InOrderOf(s)
<1> DEFINE T == {U \in FiniteSubsetsOf(S) : ~\E s \in SetToSeqs(U) : InOrderOf(s)}
<1> SUFFICES ASSUME T # {}  PROVE FALSE
  BY DEF FiniteSubsetsOf
<1>1. PICK U \in T : \A V \in T : ~(V \subseteq U /\ V # U)
  <2>1. T \subseteq FiniteSubsetsOf(S) /\ T # {}
    OBVIOUS
  <2> HIDE DEF T
  <2> QED  BY <2>1, Smallest
<1>2. /\ U \subseteq S /\ IsFiniteSet(U) /\ U \subseteq Message /\ Distinct(U)
      /\ ~\E s \in SetToSeqs(U) : InOrderOf(s)
  BY DEF FiniteSubsetsOf, Distinct
<1>3. U # {}
  <2>1. ASSUME U = {}  PROVE <<>> \in SetToSeqs(U)
    BY <2>1, FS_EmptySet DEF SetToSeqs
  <2>2. InOrderOf(<<>>)
    BY DEF InOrderOf
  <2> QED  BY <1>2, <2>1, <2>2
<1>4. PICK m \in U : \A n \in U \ {m} : Older(m, n)
  BY <1>2, <1>3, OldestExists
<1> DEFINE V == U \ {m}  k == Cardinality(V)
<1>5. IsFiniteSet(V) /\ V \in FiniteSubsetsOf(S) /\ k \in Nat /\ Cardinality(U) = k + 1
  <2>1. IsFiniteSet(V) /\ k = Cardinality(U) - 1
    BY <1>2, <1>4, FS_RemoveElement
  <2>2. Cardinality(U) \in Nat /\ k \in Nat
    BY <1>2, <2>1, FS_CardinalityType
  <2>3. V \in FiniteSubsetsOf(S)
    BY <1>2, <2>1 DEF FiniteSubsetsOf
  <2> QED  BY <2>1, <2>2, <2>3
<1>6. PICK s \in SetToSeqs(V) : InOrderOf(s)
  BY <1>1, <1>4, <1>5
<1>7. s \in [1 .. k -> V] /\ \A i, j \in 1 .. k : i # j => s[i] # s[j]
  BY <1>6 DEF SetToSeqs
<1> HIDE DEF V, k
<1>8. s \in Seq(V) /\ Len(s) = k
  BY <1>5, <1>7
<1> DEFINE t == [i \in 1 .. k + 1 |-> IF i = k + 1 THEN m ELSE s[i]]
<1>9. t \in [1 .. k + 1 -> U] /\ t \in Seq(U) /\ Len(t) = k + 1
  BY <1>5, <1>7, <1>8 DEF V
<1>10. \A i, j \in 1 .. k + 1 : i # j => t[i] # t[j]
  BY <1>5, <1>7 DEF V
<1>11. \A i, j \in 1 .. k + 1 : i < j => Newer(t[i], t[j])
  <2> SUFFICES ASSUME NEW i \in 1 .. k + 1, NEW j \in 1 .. k + 1, i < j
               PROVE  Newer(t[i], t[j])
    OBVIOUS
  <2>1. i \in 1 .. k /\ t[i] = s[i] /\ s[i] \in V
    BY <1>5, <1>7
  <2>2. CASE j = k + 1
    BY <1>4, <1>5, <2>1, <2>2 DEF Newer, V
  <2>3. CASE j \in 1 .. k
    BY <1>5, <1>6, <1>8, <2>1, <2>3 DEF InOrderOf
  <2> QED  BY <1>5, <2>2, <2>3
<1>12. t \in SetToSeqs(U)
  BY <1>5, <1>9, <1>10 DEF SetToSeqs
<1>13. InOrderOf(t)
  BY <1>9, <1>11 DEF InOrderOf
<1> QED  BY <1>2, <1>12, <1>13

\* What Sorted returns for the rows of a table.
LEMMA SortedIs ==
    ASSUME NEW S, S \subseteq Message, IsFiniteSet(S), Distinct(S)
    PROVE  /\ Sorted(S) \in Seq(S) /\ Len(Sorted(S)) \in Nat
           /\ \A i, j \in 1 .. Len(Sorted(S)) : i < j => Newer(Sorted(S)[i], Sorted(S)[j])
           /\ \A m \in S : \E i \in 1 .. Len(Sorted(S)) : Sorted(S)[i] = m
<1> DEFINE t == Sorted(S)  k == Cardinality(S)
<1>1. t \in SetToSeqs(S) /\ \A i, j \in 1 .. Len(t) : i < j => Newer(t[i], t[j])
  <2>1. \E s \in SetToSeqs(S) : \A i, j \in 1 .. Len(s) : i < j => Newer(s[i], s[j])
    BY SortExists DEF InOrderOf
  <2> QED  BY <2>1, Zenon DEF Sorted
<1>2. t \in [1 .. k -> S] /\ k \in Nat /\ \A i, j \in 1 .. k : i # j => t[i] # t[j]
  BY <1>1, FS_CardinalityType DEF SetToSeqs
<1> HIDE DEF t
<1>3. t \in Seq(S) /\ Len(t) = k
  BY <1>2
<1>4. t \in Surjection(1 .. k, S)
  <2>1. t \in Injection(1 .. k, S)
    BY <1>2 DEF Injection, IsInjective
  <2>2. IsFiniteSet(1 .. k) /\ Cardinality(1 .. k) = k
    BY <1>2, FS_Interval
  <2> QED  BY <2>1, <2>2, FS_Injection
<1>5. \A m \in S : \E i \in 1 .. k : t[i] = m
  BY <1>4 DEF Surjection
<1> QED  BY <1>1, <1>2, <1>3, <1>5 DEF t

\* What a page holds: rows below the cursor in order, and unless it holds them
\* all, it is full and the others are older than its last.
LEMMA PageIs ==
    ASSUME Visible \subseteq Message, IsFiniteSet(Visible), Distinct(Visible),
           NEW limit \in Nat \ {0}, NEW msgs, msgs = GetChatMessages(limit)
    PROVE  /\ msgs \in Seq(Message) /\ Len(msgs) \in Nat /\ Len(msgs) <= limit
           /\ \A i \in 1 .. Len(msgs) : msgs[i] \in Visible /\ Below(msgs[i])
           /\ \A i, j \in 1 .. Len(msgs) : i < j => Older(msgs[j], msgs[i])
           /\ \A m \in Visible : Below(m) =>
                 \/ \E i \in 1 .. Len(msgs) : msgs[i] = m
                 \/ Len(msgs) = limit /\ Older(m, msgs[limit])
<1> DEFINE rows == {m \in Visible : Below(m)}
           t == Sorted(rows)
           n == IF Len(t) < limit THEN Len(t) ELSE limit
<1>1. rows \subseteq Message /\ IsFiniteSet(rows) /\ Distinct(rows)
  BY FS_Subset DEF Distinct
<1>2. /\ t \in Seq(rows) /\ Len(t) \in Nat
      /\ \A i, j \in 1 .. Len(t) : i < j => Newer(t[i], t[j])
      /\ \A m \in rows : \E i \in 1 .. Len(t) : t[i] = m
  BY <1>1, SortedIs
<1>3. msgs = SubSeq(t, 1, n)
  BY DEF GetChatMessages
<1>r. \A m : m \in rows <=> m \in Visible /\ Below(m)
  OBVIOUS
<1> HIDE DEF rows, t
<1>4. n \in Nat /\ n <= limit /\ n <= Len(t) /\ (n < limit => n = Len(t))
  BY <1>2
<1> HIDE DEF n
<1>5. /\ msgs \in Seq(rows) /\ Len(msgs) = n
      /\ \A i \in 1 .. n : msgs[i] = t[i] /\ msgs[i] \in rows
  BY <1>2, <1>3, <1>4
<1>6. msgs \in Seq(Message)
  BY <1>1, <1>5
<1>7. \A i, j \in 1 .. n : i < j => Older(msgs[j], msgs[i])
  <2>1. \A i \in 1 .. n : i \in 1 .. Len(t)
    BY <1>2, <1>4
  <2>2. \A i, j \in 1 .. n : i < j => Newer(t[i], t[j])
    BY <1>2, <2>1
  <2> QED  BY <1>5, <2>2 DEF Newer
<1>8. ASSUME NEW m \in rows
      PROVE  \/ \E i \in 1 .. n : msgs[i] = m
             \/ n = limit /\ Older(m, msgs[limit])
  <2>1. PICK i \in 1 .. Len(t) : t[i] = m
    BY <1>2
  <2>2. CASE i <= n
    <3>1. i \in 1 .. n
      BY <1>2, <1>4, <2>2
    <3> QED  BY <1>5, <2>1, <3>1
  <2>3. CASE n < i
    <3>1. n = limit /\ limit \in 1 .. n /\ limit \in 1 .. Len(t) /\ limit < i
      BY <1>2, <1>4, <2>3
    <3> QED  BY <1>2, <1>5, <2>1, <3>1 DEF Newer
  <2> QED  BY <1>4, <2>2, <2>3
<1> QED  BY <1>4, <1>5, <1>6, <1>7, <1>8, <1>r

-----------------------------------------------------------------------------
(* The walk. *)

\* The tables are finite, an id names one message, and it is either on its way
\* or stored; what has been marked as read was stored.
Tables ==
    /\ IsFiniteSet(sending) /\ IsFiniteSet(messages)
    /\ Distinct(Known) /\ sending \cap messages = {}
    /\ \A u \in Users : \A i \in seen[u] : \E m \in messages : m.id = i

\* Where the walk stands: nothing before the first page, and then the cursor
\* is the last message returned.
Position ==
    /\ got \in Seq(Message) /\ pages \in Nat /\ status \in {"start", "walking", "done"}
    /\ status = "start" => got = <<>> /\ cursor = Nil /\ pages = 0 /\ present = {}
    /\ status = "walking" => Len(got) > 0 /\ cursor = got[Len(got)] /\ pages <= Len(got)

\* What was there when the walk began has been returned or lies ahead.
Ahead ==
    /\ present \subseteq messages
    /\ \A m \in present \cap Visible : m \in Returned \/ (status = "walking" /\ Older(m, cursor))

\* With no MarkRead since the first page, what that page could not show is
\* younger than the receipt.
Counted == status # "start" /\ ~late =>
    \A m \in Known : m.sender # Reader /\ m.id \notin deleted \cup raced[Reader] =>
        m \in present \/ lastRead[Reader] < m.at

InboxInv ==
    ReceiptInv /\ Tables /\ Position /\ Ahead /\ Counted /\ StrictlyOlder /\ NoIdlePages

LEMMA InboxInitial == InboxInit => InboxInv
<1> SUFFICES ASSUME InboxInit  PROVE InboxInv
  OBVIOUS
<1>1. ReceiptInv
  BY ReceiptInitial DEF InboxInit
<1>2. Tables
  BY FS_EmptySet DEF InboxInit, Init, Tables, Distinct, Known
<1>3. Position /\ Counted /\ StrictlyOlder /\ NoIdlePages
  BY DEF InboxInit, Position, Counted, StrictlyOlder, NoIdlePages
<1>4. Ahead
  BY DEF InboxInit, Ahead
<1> QED  BY <1>1, <1>2, <1>3, <1>4 DEF InboxInv

\* Every step of the inbox is one of the tables', or leaves them alone.
LEMMA InboxIsReceipts == [InboxNext]_inboxVars => [Next]_vars
<1>1. Walk => UNCHANGED vars
  BY DEF Walk, GetHistory
<1>2. MarkInbox => Next
  BY ReaderAssumption DEF MarkInbox, Next
<1>3. Others => Next
  BY DEF Others, Next
<1> QED  BY <1>1, <1>2, <1>3 DEF InboxNext, inboxVars

\* The tables stay finite and ids stay unique.
LEMMA TablesKept ==
    ASSUME TypeOK, Tables, [Next]_vars
    PROVE  Tables'
<1>0. /\ IsFiniteSet(sending) /\ IsFiniteSet(messages) /\ Distinct(Known) /\ sending \cap messages = {}
      /\ \A u \in Users : \A i \in seen[u] : \E m \in messages : m.id = i
  BY DEF Tables
<1>1. CASE Tick \/ UNCHANGED vars
  BY <1>1, <1>0 DEF Tick, vars, Tables, Known
<1>2. ASSUME NEW u \in Users, MarkRead(u)
      PROVE  Tables'
  <2>1. UNCHANGED <<sending, messages>> /\ Known' = Known
    BY <1>2 DEF MarkRead, Known
  <2>2. ASSUME NEW v \in Users, NEW i \in seen'[v]
        PROVE  \E m \in messages : m.id = i
    <3>1. i \in seen[v] \/ i \in {m.id : m \in Visible}
      BY <1>2, <2>2 DEF MarkRead, TypeOK
    <3> QED  BY <1>0, <3>1 DEF Visible
  <2> QED  BY <1>0, <2>1, <2>2 DEF Tables, Distinct
<1>3. ASSUME NEW u \in Users, NEW i \in Ids, Build(u, i)
      PROVE  Tables'
  <2> DEFINE new == [id |-> i, sender |-> u, at |-> now]
  <2>1. /\ sending' = sending \cup {new} /\ UNCHANGED <<messages, seen>>
        /\ new.id = i /\ \A m \in Known : m.id # i
    BY <1>3 DEF Build, Known
  <2> HIDE DEF new
  <2>2. IsFiniteSet(sending')
    BY <1>0, <2>1, FS_AddElement
  <2>3. Known' = Known \cup {new} /\ new \notin Known
    BY <2>1 DEF Known
  <2>4. Distinct(Known)'
    BY <1>0, <2>1, <2>3 DEF Distinct
  <2>5. sending' \cap messages' = {}
    BY <1>0, <2>1, <2>3 DEF Known
  <2> QED  BY <1>0, <2>1, <2>2, <2>4, <2>5 DEF Tables
<1>4. ASSUME NEW m \in sending, Create(m)
      PROVE  Tables'
  <2>1. sending' = sending \ {m} /\ messages' = messages \cup {m} /\ UNCHANGED seen
    BY <1>4 DEF Create
  <2>2. IsFiniteSet(sending') /\ IsFiniteSet(messages')
    BY <1>0, <2>1, FS_AddElement, FS_RemoveElement
  <2>3. Known' = Known
    BY <2>1 DEF Known
  <2>4. sending' \cap messages' = {}
    BY <1>0, <2>1
  <2> QED  BY <1>0, <2>1, <2>2, <2>3, <2>4 DEF Tables, Distinct
<1>5. ASSUME NEW m \in messages, Delete(m)
      PROVE  Tables'
  BY <1>0, <1>5 DEF Delete, Tables, Known, Distinct
<1> QED  BY <1>1, <1>2, <1>3, <1>4, <1>5 DEF Next

LEMMA Joined ==
    ASSUME NEW S, NEW a \in Seq(S), NEW b \in Seq(S)
    PROVE  /\ a \o b \in Seq(S) /\ Len(a) \in Nat /\ Len(b) \in Nat
           /\ Len(a \o b) = Len(a) + Len(b)
           /\ \A i \in 1 .. Len(a) : (a \o b)[i] = a[i]
           /\ \A i \in 1 .. Len(b) : (a \o b)[Len(a) + i] = b[i]
           /\ \A k \in 1 .. Len(a) + Len(b) :
                 k \in 1 .. Len(a) \/ \E i \in 1 .. Len(b) : k = Len(a) + i
<1>1. Len(a) \in Nat /\ Len(b) \in Nat
  OBVIOUS
<1>2. ASSUME NEW k \in 1 .. Len(a) + Len(b), k \notin 1 .. Len(a)
      PROVE  \E i \in 1 .. Len(b) : k = Len(a) + i
  <2>1. k - Len(a) \in 1 .. Len(b) /\ k = Len(a) + (k - Len(a))
    BY <1>1, <1>2
  <2> QED  BY <2>1
<1>3. \A i \in 1 .. Len(b) : (a \o b)[Len(a) + i] = b[i]
  OBVIOUS
<1> QED  BY <1>1, <1>2, <1>3

\* The handler lets no limit through but 1 .. MaxLimit.
LEMMA LimitIs ==
    ASSUME NEW param \in LimitParams
    PROVE  Limit(param) \in Nat \ {0}
<1>1. param \in Int /\ MaxLimit \in Nat /\ DefaultLimit \in 1 .. MaxLimit
  BY LimitAssumption
<1> QED  BY <1>1 DEF Limit

\* One request of the walk.
LEMMA WalkStep ==
    ASSUME InboxInv, NEW param \in LimitParams, GetHistory(param)
    PROVE  Position' /\ Ahead' /\ StrictlyOlder' /\ NoIdlePages'
<1> DEFINE limit == Limit(param)
           msgs  == GetChatMessages(limit)
<1>0. Tables /\ Position /\ Ahead /\ StrictlyOlder /\ TypeOK
  BY DEF InboxInv, ReceiptInv
<1>1. limit \in Nat \ {0}
  BY LimitIs
<1>2. Visible \subseteq Message /\ IsFiniteSet(Visible) /\ Distinct(Visible)
  <2>1. Visible \subseteq messages
    BY DEF Visible
  <2> QED  BY <1>0, <2>1, FS_Subset DEF Tables, TypeOK, Distinct, Known
<1>3. /\ msgs \in Seq(Message) /\ Len(msgs) \in Nat /\ Len(msgs) <= limit
      /\ \A i \in 1 .. Len(msgs) : msgs[i] \in Visible /\ Below(msgs[i])
      /\ \A i, j \in 1 .. Len(msgs) : i < j => Older(msgs[j], msgs[i])
      /\ \A m \in Visible : Below(m) =>
            \/ \E i \in 1 .. Len(msgs) : msgs[i] = m
            \/ Len(msgs) = limit /\ Older(m, msgs[limit])
  BY <1>1, <1>2, PageIs
<1>4. /\ status \in {"start", "walking"} /\ got' = got \o msgs /\ pages' = pages + 1
      /\ present' = (IF status = "start" THEN Visible ELSE present)
      /\ IF msgs = <<>> /\ Len(msgs) >= limit
         THEN status' = "panic" /\ cursor' = Nil
         ELSE /\ cursor' = NextCursor(msgs, limit)
              /\ status' = IF cursor' = Nil THEN "done" ELSE "walking"
      /\ UNCHANGED vars
  BY DEF GetHistory
<1> HIDE DEF msgs, limit
<1>5. msgs # <<>> \/ Len(msgs) < limit
  BY <1>1, <1>3
<1>6. cursor' = NextCursor(msgs, limit) /\ status' = (IF cursor' = Nil THEN "done" ELSE "walking")
  BY <1>1, <1>3, <1>4, <1>5
<1>7. Len(msgs) < limit => cursor' = Nil /\ status' = "done"
  BY <1>6 DEF NextCursor
<1>8. ASSUME ~(Len(msgs) < limit)
      PROVE  /\ Len(msgs) = limit /\ limit \in 1 .. Len(msgs) /\ Len(msgs) \in 1 .. Len(msgs)
             /\ cursor' = msgs[limit] /\ status' = "walking"
  <2>1. Len(msgs) = limit /\ limit \in 1 .. Len(msgs)
    BY <1>1, <1>3, <1>8
  <2>2. cursor' = msgs[limit] /\ msgs[limit] \in Message
    BY <1>2, <1>3, <1>6, <1>8, <2>1 DEF NextCursor
  <2> QED  BY <1>6, <2>1, <2>2, NilAssumption
<1>9. /\ got \in Seq(Message) /\ pages \in Nat
      /\ status = "start" => got = <<>> /\ cursor = Nil /\ pages = 0 /\ present = {}
      /\ status = "walking" => Len(got) > 0 /\ cursor = got[Len(got)] /\ pages <= Len(got)
  BY <1>0 DEF Position
<1>10. /\ got' \in Seq(Message) /\ Len(got) \in Nat
       /\ Len(got') = Len(got) + Len(msgs)
       /\ \A i \in 1 .. Len(got) : got'[i] = got[i]
       /\ \A i \in 1 .. Len(msgs) : got'[Len(got) + i] = msgs[i]
       /\ \A k \in 1 .. Len(got') : k \in 1 .. Len(got) \/ \E i \in 1 .. Len(msgs) : k = Len(got) + i
  BY <1>3, <1>4, <1>9, Joined
<1>11. pages <= Len(got)
  <2>1. CASE status = "start"
    BY <1>9, <1>10, <2>1
  <2> QED  BY <1>4, <1>9, <2>1
<1>12. Position'
  <2>1. pages' \in Nat /\ (Len(msgs) >= 1 => pages' <= Len(got')) /\ Len(got') \in Nat
    BY <1>3, <1>4, <1>9, <1>10, <1>11
  <2>2. CASE Len(msgs) < limit
    BY <1>7, <1>10, <2>1, <2>2 DEF Position
  <2>3. CASE ~(Len(msgs) < limit)
    <3>1. Len(msgs) >= 1 /\ Len(got') > 0 /\ got'[Len(got')] = msgs[limit]
      BY <1>1, <1>8, <1>10, <2>3
    <3> QED  BY <1>8, <1>10, <2>1, <2>3, <3>1 DEF Position
  <2> QED  BY <2>2, <2>3
<1>13. NoIdlePages'
  BY <1>3, <1>4, <1>9, <1>10, <1>11 DEF NoIdlePages
<1>14. Returned \subseteq Returned' /\ \A i \in 1 .. Len(msgs) : msgs[i] \in Returned'
  <2>1. \A i \in 1 .. Len(got) : i \in 1 .. Len(got') /\ got'[i] = got[i]
    BY <1>3, <1>10
  <2>2. \A i \in 1 .. Len(msgs) : Len(got) + i \in 1 .. Len(got') /\ got'[Len(got) + i] = msgs[i]
    BY <1>3, <1>10
  <2> QED  BY <2>1, <2>2 DEF Returned
<1>15. Ahead'
  <2>0. UNCHANGED <<messages, deleted>> /\ Visible' = Visible /\ Visible \subseteq messages
    BY <1>4 DEF vars, Visible
  <2>1. present' \subseteq messages'
    BY <1>0, <1>4, <2>0 DEF Ahead
  <2>2. ASSUME NEW m \in present' \cap Visible
        PROVE  m \in Returned' \/ (status' = "walking" /\ Older(m, cursor'))
    <3>1. m \in Returned \/ Below(m)
      <4>1. CASE status = "start"
        BY <1>9, <4>1 DEF Below
      <4>2. CASE status = "walking"
        BY <1>0, <1>4, <2>2, <4>2 DEF Ahead, Below
      <4> QED  BY <1>4, <4>1, <4>2
    <3>2. CASE m \in Returned
      BY <1>14, <3>2
    <3>3. CASE Below(m)
      <4>1. \/ \E i \in 1 .. Len(msgs) : msgs[i] = m
            \/ Len(msgs) = limit /\ Older(m, msgs[limit])
        BY <1>3, <3>3
      <4>2. CASE Len(msgs) = limit /\ Older(m, msgs[limit])
        <5>1. ~(Len(msgs) < limit)
          BY <1>1, <4>2
        <5> QED  BY <1>8, <4>2, <5>1
      <4> QED  BY <1>14, <4>1, <4>2
    <3> QED  BY <3>1, <3>2, <3>3
  <2> QED  BY <2>0, <2>1, <2>2 DEF Ahead
<1>16. StrictlyOlder'
  <2> SUFFICES ASSUME NEW k \in 1 .. Len(got'), NEW l \in 1 .. Len(got'), k < l
               PROVE  Older(got'[l], got'[k])
    BY DEF StrictlyOlder
  <2>1. CASE k \in 1 .. Len(got) /\ l \in 1 .. Len(got)
    BY <1>0, <1>10, <2>1 DEF StrictlyOlder
  <2>2. ASSUME NEW i \in 1 .. Len(msgs), l = Len(got) + i, k \in 1 .. Len(got)
        PROVE  Older(got'[l], got'[k])
    <3>1. status = "walking"
      BY <1>4, <1>9, <2>2
    <3>2. cursor = got[Len(got)] /\ Len(got) \in 1 .. Len(got)
      BY <1>9, <1>10, <3>1
    <3>3. cursor \in Message /\ got[k] \in Message /\ msgs[i] \in Message
      BY <1>3, <1>9, <2>2, <3>2
    <3>4. Older(msgs[i], cursor)
      BY <1>3, <3>3, NilAssumption DEF Below
    <3>5. CASE k = Len(got)
      BY <1>10, <2>2, <3>2, <3>4, <3>5
    <3>6. CASE k < Len(got)
      <4>1. Older(cursor, got[k])
        BY <1>0, <2>2, <3>2, <3>6 DEF StrictlyOlder
      <4>2. Older(msgs[i], got[k])
        BY <3>3, <3>4, <4>1, OlderOrders
      <4> QED  BY <1>10, <2>2, <4>2
    <3> QED  BY <1>10, <2>2, <3>5, <3>6
  <2>3. ASSUME NEW i \in 1 .. Len(msgs), l = Len(got) + i,
               NEW j \in 1 .. Len(msgs), k = Len(got) + j
        PROVE  Older(got'[l], got'[k])
    <3>1. j < i
      BY <1>10, <2>3
    <3> QED  BY <1>3, <1>10, <2>3, <3>1
  <2>4. ASSUME NEW j \in 1 .. Len(msgs), k = Len(got) + j, l \in 1 .. Len(got)
        PROVE  FALSE
    BY <1>10, <2>4
  <2> QED  BY <1>10, <2>1, <2>2, <2>3, <2>4
<1> QED  BY <1>12, <1>13, <1>15, <1>16

\* The first page fixes what is counted and what is shown.
LEMMA WalkCounts ==
    ASSUME InboxInv, NEW param \in LimitParams, GetHistory(param)
    PROVE  Counted'
<1>0. Uncovered /\ Tables /\ Counted /\ Known' = Known
  BY DEF InboxInv, ReceiptInv, GetHistory, vars, Known
<1>1. /\ UNCHANGED <<deleted, raced, lastRead, late>>
      /\ present' = (IF status = "start" THEN Visible ELSE present)
  BY DEF GetHistory, vars
<1>2. CASE status = "start"
  <2> SUFFICES ASSUME NEW m \in Known, m.id \notin deleted \cup raced[Reader], m \notin Visible
               PROVE  lastRead[Reader] < m.at
    BY <1>0, <1>1, <1>2 DEF Counted
  <2>1. m \in sending
    BY DEF Visible, Known
  <2>2. m.id \notin seen[Reader]
    <3> SUFFICES ASSUME NEW n \in messages, n.id = m.id  PROVE FALSE
      BY <1>0, ReaderAssumption DEF Tables
    <3> QED  BY <1>0, <2>1 DEF Tables, Distinct, Known
  <2> QED  BY <1>0, <2>2, ReaderAssumption DEF Uncovered
<1>3. CASE status # "start"
  BY <1>0, <1>1, <1>3 DEF Counted
<1> QED  BY <1>2, <1>3

\* While the others write, the walk's place in the history stays right.
LEMMA OthersKeep ==
    ASSUME InboxInv, ReceiptInv', Tables', Others
    PROVE  Ahead' /\ Counted'
<1>0. Tables /\ Ahead /\ Counted /\ Uncovered'
  BY DEF InboxInv, ReceiptInv
<1>1. UNCHANGED <<status, cursor, got, present, late>> /\ Returned' = Returned
  BY DEF Others, walkVars, Returned
<1>s. ASSUME present \cap Visible' \subseteq present \cap Visible, messages \subseteq messages'
      PROVE  Ahead'
  BY <1>0, <1>1, <1>s DEF Ahead
<1>k. ASSUME Known' = Known, deleted \subseteq deleted', UNCHANGED <<raced, lastRead>>
      PROVE  Counted'
  BY <1>0, <1>1, <1>k DEF Counted
<1>2. CASE Tick
  BY <1>s, <1>k, <1>2 DEF Tick, Visible, Known
<1>3. ASSUME NEW u \in Users \ {Reader}, NEW i \in Ids, Build(u, i)
      PROVE  Ahead' /\ Counted'
  <2> DEFINE new == [id |-> i, sender |-> u, at |-> now]
  <2>1. /\ Known' = Known \cup {new} /\ UNCHANGED <<messages, deleted, lastRead, seen>>
        /\ new.id = i /\ \A m \in Known : m.id # i
        /\ raced[Reader] \subseteq raced'[Reader]
    BY <1>3, ReaderAssumption DEF Build, Known
  <2> HIDE DEF new
  <2>2. Ahead'
    BY <1>s, <2>1 DEF Visible
  <2>3. i \notin seen[Reader]
    BY <1>0, <2>1, ReaderAssumption DEF Tables, Known
  <2>4. i \notin deleted \cup raced'[Reader] => lastRead[Reader] < new.at
    BY <1>0, <2>1, <2>3, ReaderAssumption DEF Uncovered
  <2>5. Counted'
    BY <1>0, <1>1, <2>1, <2>4 DEF Counted
  <2> QED  BY <2>2, <2>5
<1>4. ASSUME NEW m \in sending, Create(m)
      PROVE  Ahead' /\ Counted'
  <2>1. messages' = messages \cup {m} /\ m \notin messages /\ Known' = Known
        /\ UNCHANGED <<deleted, raced, lastRead>>
    BY <1>0, <1>4 DEF Create, Tables, Known
  <2>2. present \cap Visible' \subseteq present \cap Visible
    BY <1>0, <2>1 DEF Ahead, Visible
  <2> QED  BY <1>s, <1>k, <2>1, <2>2
<1>5. ASSUME NEW m \in messages, Delete(m)
      PROVE  Ahead' /\ Counted'
  <2>1. UNCHANGED <<sending, messages, raced, lastRead>> /\ deleted \subseteq deleted'
    BY <1>5 DEF Delete
  <2> QED  BY <1>s, <1>k, <2>1 DEF Visible, Known
<1> QED  BY <1>2, <1>3, <1>4, <1>5 DEF Others

LEMMA InboxStep == InboxInv /\ [InboxNext]_inboxVars => InboxInv'
<1> SUFFICES ASSUME InboxInv, [InboxNext]_inboxVars  PROVE InboxInv'
  OBVIOUS
<1>1. ReceiptInv' /\ Tables'
  BY InboxIsReceipts, ReceiptStep, TablesKept DEF InboxInv, ReceiptInv
<1>2. CASE Walk
  <2>1. PICK param \in LimitParams : GetHistory(param)
    BY <1>2 DEF Walk
  <2> QED  BY <1>1, <2>1, WalkStep, WalkCounts DEF InboxInv
<1>3. ASSUME UNCHANGED walkVars
      PROVE  Position' /\ StrictlyOlder' /\ NoIdlePages'
  BY <1>3 DEF walkVars, InboxInv, Position, StrictlyOlder, NoIdlePages
<1>4. CASE MarkInbox
  <2>1. UNCHANGED walkVars /\ UNCHANGED <<messages, deleted>>
    BY <1>4 DEF MarkInbox, MarkRead
  <2>2. Ahead'
    BY <2>1 DEF walkVars, InboxInv, Ahead, Visible, Returned
  <2>3. late' \/ status = "start"
    BY <1>4, Zenon DEF MarkInbox
  <2>4. Counted'
    BY <2>1, <2>3 DEF Counted, walkVars
  <2> QED  BY <1>1, <1>3, <2>1, <2>2, <2>4 DEF InboxInv
<1>5. CASE Others
  <2>1. UNCHANGED walkVars
    BY <1>5 DEF Others
  <2> QED  BY <1>1, <1>3, <1>5, <2>1, OthersKeep DEF InboxInv
<1>6. CASE UNCHANGED inboxVars
  <2>1. UNCHANGED walkVars /\ UNCHANGED late /\ UNCHANGED vars
    BY <1>6 DEF inboxVars
  <2>2. Ahead' /\ Counted'
    BY <2>1 DEF walkVars, vars, InboxInv, Ahead, Counted, Visible, Returned, Known
  <2> QED  BY <1>1, <1>3, <2>1, <2>2 DEF InboxInv
<1> QED  BY <1>2, <1>4, <1>5, <1>6 DEF InboxNext

\* The invariant of the tables and of a walk over them, that the theorems
\* below follow from.
THEOREM InboxInvariant == InboxSpec => []InboxInv
<1> QED  BY InboxInitial, InboxStep, PTL DEF InboxSpec

\* Reading is done against the tables of Spec: all that is proved about the
\* receipts holds while somebody reads.
THEOREM ReadingIsReceipts == InboxSpec => Spec
<1>1. InboxInit => Init
  BY DEF InboxInit
<1> QED  BY <1>1, InboxIsReceipts, PTL DEF InboxSpec, Spec

\* Over all pages a walk returns each message at most once, newest first,
\* whatever is sent and deleted between them (GetChatMessages, nextCursor).
THEOREM StablePages == InboxSpec => []StrictlyOlder
<1>1. InboxInv => StrictlyOlder
  BY DEF InboxInv
<1> QED  BY InboxInvariant, <1>1, PTL

\* A walk that has ended has returned every message that was there when it
\* began and still is, ties and exactly full pages included.
THEOREM NoneSkipped == InboxSpec => []NothingSkipped
<1>1. InboxInv => NothingSkipped
  BY DEF InboxInv, Ahead, NothingSkipped
<1> QED  BY InboxInvariant, <1>1, PTL

\* nextCursor never indexes an empty page.
THEOREM NeverPanics == InboxSpec => []NoPanic
<1>1. InboxInv => NoPanic
  BY DEF InboxInv, Position, NoPanic
<1> QED  BY InboxInvariant, <1>1, PTL

\* Each page but the last brings a message that was not there before.
THEOREM PagesBringMessages == InboxSpec => []NoIdlePages
<1>1. InboxInv => NoIdlePages
  BY DEF InboxInv
<1> QED  BY InboxInvariant, <1>1, PTL

\* A reader who marks the chat before the first page misses nothing but what
\* was in flight at the MarkRead (GetHistory, MarkRead).
THEOREM MarkFirst == InboxSpec => []MarkFirstMissesNothing
<1>1. InboxInv => MarkFirstMissesNothing
  <2> SUFFICES ASSUME InboxInv, status = "done", ~late, NEW m \in Visible,
                      m.sender # Reader, m.id \notin raced[Reader]
               PROVE  m \in Returned \cup Unread(Reader)
    BY DEF MarkFirstMissesNothing
  <2>1. m \in Known /\ m.id \notin deleted
    BY DEF Visible, Known
  <2>2. m \in present \/ lastRead[Reader] < m.at
    BY <2>1 DEF InboxInv, Counted
  <2>3. CASE m \in present
    BY <2>3 DEF InboxInv, Ahead
  <2>4. CASE lastRead[Reader] < m.at
    <3>1. lastRead[Reader] \in Nat /\ m.at \in Nat
      BY <2>1, TimeAssumption, ReaderAssumption DEF InboxInv, ReceiptInv, TypeOK, Known, Message
    <3> QED  BY <2>4, <3>1 DEF Unread
  <2> QED  BY <2>2, <2>3, <2>4
<1> QED  BY InboxInvariant, <1>1, PTL

=============================================================================
