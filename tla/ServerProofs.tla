---------------------------- MODULE ServerProofs ----------------------------
(***************************************************************************)
(* The rate limiter and the process around it.  The limiter bounds what    *)
(* passes and refuses nobody without a recent cause, for any limit,        *)
(* window, purge period and number of addresses; the process accepts       *)
(* requests only with storage open and cuts them off only by the deadline, *)
(* for any number of requests.                                             *)
(***************************************************************************)
EXTENDS Server, TLAPS

Entry == [count : Nat \ {0}, resetAt : Nat]

\* The requests of an entry's window that have passed.
Admitted(i) == IF clients[i].count < MaxReqs THEN clients[i].count ELSE MaxReqs

\* The last of the requests that have passed are those of the window of the
\* entry, which began no later than now.
Recent(i) ==
    /\ clients[i].resetAt <= now + Window
    /\ Admitted(i) <= Len(passed[i])
    /\ \A j \in 1 .. Len(passed[i]) :
          j > Len(passed[i]) - Admitted(i) => passed[i][j] + Window >= clients[i].resetAt

LimitInv == TypeOK /\ \A i \in Ips : clients[i] # None => Recent(i)

-----------------------------------------------------------------------------
\* Before the first request there are no entries.
LEMMA LimitInitial == Init => LimitInv
BY DEF Init, LimitInv, TypeOK

\* What First and Another do to the entry they find.
LEMMA EntryIs ==
    ASSUME TypeOK, NEW i \in Ips, clients[i] # None
    PROVE  clients[i] \in Entry
BY DEF TypeOK, Entry

\* e.count++ of ratelimit.go:58.
LEMMA Increment ==
    ASSUME NEW e \in Entry
    PROVE  /\ [e EXCEPT !.count = @ + 1] \in Entry
           /\ [e EXCEPT !.count = @ + 1].count = e.count + 1
           /\ [e EXCEPT !.count = @ + 1].resetAt = e.resetAt
<1>1. e.count \in Nat \ {0} /\ e.count + 1 \in Nat \ {0}
  BY DEF Entry
<1> QED  BY <1>1 DEF Entry

\* A request that passes is noted with its time.
LEMMA PassTypes ==
    ASSUME TypeOK, NEW i \in Ips, Pass(i)
    PROVE  passed' \in [Ips -> Seq(Nat)]
<1>1. Append(passed[i], now) \in Seq(Nat)
  BY DEF TypeOK
<1> QED  BY <1>1 DEF Pass, TypeOK

\* Every request, tick and purge keeps the types.
LEMMA LimitTypes ==
    ASSUME TypeOK, [Next]_vars
    PROVE  TypeOK'
<1> USE LimitAssumption DEF TypeOK
<1>1. CASE Tick
  BY <1>1 DEF Tick
<1>2. CASE Purge
  BY <1>2 DEF Purge
<1>3. ASSUME NEW i \in Ips, First(i) PROVE TypeOK'
  <2>1. [count |-> 1, resetAt |-> now + Window] \in Entry
    BY DEF Entry
  <2> QED  BY <1>3, <2>1 DEF First, Pass, Entry
<1>4. ASSUME NEW i \in Ips, Another(i) PROVE TypeOK'
  <2>1. clients[i] \in Entry
    BY <1>4, EntryIs DEF Another, Open
  <2>2. [clients[i] EXCEPT !.count = @ + 1] \in Entry
    BY <2>1, Increment
  <2>3. clients' = [clients EXCEPT ![i] = [clients[i] EXCEPT !.count = @ + 1]]
    BY <1>4 DEF Another
  <2>4. clients' \in [Ips -> Entry \cup {None}]
    BY <2>2, <2>3 DEF Entry
  <2>5. passed' \in [Ips -> Seq(Nat)]
    <3>1. Refuse \/ Pass(i)
      BY <1>4 DEF Another
    <3> QED  BY <3>1, PassTypes DEF Refuse
  <2> QED  BY <1>4, <2>4, <2>5 DEF Another, Entry
<1>5. CASE UNCHANGED vars
  BY <1>5 DEF vars
<1> QED  BY <1>1, <1>2, <1>3, <1>4, <1>5 DEF Next

\* Every step keeps the invariant.
LEMMA LimitStep ==
    ASSUME LimitInv, [Next]_vars
    PROVE  LimitInv'
<1>0. TypeOK /\ TypeOK'
  BY LimitTypes DEF LimitInv
<1>1. SUFFICES ASSUME NEW i \in Ips, clients'[i] # None
               PROVE  Recent(i)'
  BY <1>0 DEF LimitInv
<1>t. /\ now \in Nat /\ now' \in Nat /\ Window \in Nat /\ MaxReqs \in Nat /\ MaxReqs > 0
      /\ passed[i] \in Seq(Nat) /\ passed'[i] \in Seq(Nat)
      /\ clients'[i] \in Entry /\ (clients[i] # None => clients[i] \in Entry)
  BY <1>0, <1>1, LimitAssumption DEF TypeOK, Entry
<1>2. ASSUME clients'[i] = clients[i], passed'[i] = passed[i], now' >= now
      PROVE  Recent(i)'
  <2>1. Recent(i)
    BY <1>1, <1>2 DEF LimitInv
  <2> QED  BY <1>2, <1>t, <2>1 DEF Recent, Admitted, Entry
<1>3. CASE Tick
  BY <1>0, <1>2, <1>3 DEF Tick, TypeOK
<1>4. CASE Purge
  BY <1>0, <1>1, <1>2, <1>4 DEF Purge, TypeOK
<1>5. ASSUME NEW k \in Ips, First(k) PROVE Recent(i)'
  <2>1. CASE k # i
    BY <1>0, <1>2, <1>5, <2>1 DEF First, Pass, TypeOK
  <2>2. CASE k = i
    <3>1. /\ clients'[i].count = 1 /\ clients'[i].resetAt = now + Window
          /\ passed'[i] = Append(passed[i], now) /\ now' = now
      BY <1>0, <1>5, <2>2 DEF First, Pass, TypeOK
    <3>2. Admitted(i)' = 1
      BY <1>t, <3>1 DEF Admitted
    <3>3. Len(passed'[i]) = Len(passed[i]) + 1 /\ passed'[i][Len(passed[i]) + 1] = now
      BY <1>t, <3>1
    <3> QED  BY <1>t, <3>1, <3>2, <3>3 DEF Recent
  <2> QED  BY <2>1, <2>2
<1>6. ASSUME NEW k \in Ips, Another(k) PROVE Recent(i)'
  <2>1. CASE k # i
    BY <1>0, <1>2, <1>6, <2>1 DEF Another, Pass, Refuse, TypeOK
  <2>2. CASE k = i
    <3>1. clients[i] \in Entry /\ Recent(i) /\ now' = now
      BY <1>6, <1>t, <2>2 DEF Another, Open, LimitInv
    <3>2. /\ clients'[i].count = clients[i].count + 1
          /\ clients'[i].resetAt = clients[i].resetAt
      BY <1>0, <1>6, <2>2, <3>1 DEF Another, TypeOK, Entry
    <3>3. CASE clients'[i].count > MaxReqs
      <4>1. passed'[i] = passed[i]
        BY <1>6, <2>2, <3>3 DEF Another, Refuse
      <4>2. Admitted(i) = MaxReqs /\ Admitted(i)' = MaxReqs
        BY <1>t, <3>1, <3>2, <3>3 DEF Admitted, Entry
      <4> QED  BY <1>t, <3>1, <3>2, <4>1, <4>2 DEF Recent
    <3>4. CASE ~(clients'[i].count > MaxReqs)
      <4>1. passed'[i] = Append(passed[i], now)
        BY <1>0, <1>6, <2>2, <3>4 DEF Another, Pass, TypeOK
      <4>2. /\ Admitted(i) \in Nat /\ Admitted(i)' = Admitted(i) + 1
            /\ clients[i].resetAt \in Nat
        BY <1>t, <3>1, <3>2, <3>4 DEF Admitted, Entry
      <4>3. /\ Len(passed'[i]) = Len(passed[i]) + 1
            /\ passed'[i][Len(passed[i]) + 1] = now
            /\ \A j \in 1 .. Len(passed[i]) : passed'[i][j] = passed[i][j]
        BY <1>t, <4>1
      <4>4. ASSUME NEW j \in 1 .. Len(passed'[i]), j > Len(passed'[i]) - Admitted(i)'
            PROVE  passed'[i][j] + Window >= clients'[i].resetAt
        <5>1. CASE j = Len(passed[i]) + 1
          BY <1>t, <3>1, <3>2, <4>2, <4>3, <5>1 DEF Recent
        <5>2. CASE j # Len(passed[i]) + 1
          <6>0. /\ Len(passed[i]) \in Nat /\ j \in 1 .. Len(passed[i]) + 1
                /\ j > Len(passed[i]) + 1 - (Admitted(i) + 1)
            BY <1>t, <4>2, <4>3, <4>4
          <6>1. j \in 1 .. Len(passed[i]) /\ j > Len(passed[i]) - Admitted(i)
            BY <4>2, <5>2, <6>0
          <6> QED  BY <3>1, <3>2, <4>3, <6>1 DEF Recent
        <5> QED  BY <5>1, <5>2
      <4>5. clients'[i].resetAt <= now' + Window /\ Admitted(i)' <= Len(passed'[i])
        BY <1>t, <3>1, <3>2, <4>2, <4>3 DEF Recent
      <4> QED  BY <4>4, <4>5 DEF Recent
    <3> QED  BY <3>3, <3>4
  <2> QED  BY <2>1, <2>2
<1>7. CASE UNCHANGED vars
  BY <1>2, <1>7, <1>t DEF vars
<1> QED  BY <1>3, <1>4, <1>5, <1>6, <1>7 DEF Next

\* LimitInv is an invariant of the limiter, its purge and the clock.
THEOREM LimitInvariant == Spec => []LimitInv
<1>1. LimitInv /\ [Next]_vars => LimitInv'
  BY LimitStep
<1> QED  BY LimitInitial, <1>1, PTL DEF Spec

\* The type invariant of the limiter.
THEOREM LimitTyped == Spec => []TypeOK
<1>1. LimitInv => TypeOK
  BY DEF LimitInv
<1> QED  BY LimitInvariant, <1>1, PTL

-----------------------------------------------------------------------------
\* One step refuses a request only with a recent cause.
LEMMA RefusalStep ==
    ASSUME LimitInv, [Next]_vars, NEW i \in Ips,
           Open(i), clients'[i] # clients[i], passed' = passed
    PROVE  /\ Len(passed[i]) >= MaxReqs
           /\ passed[i][Len(passed[i]) + 1 - MaxReqs] + Window >= now
<1>0. /\ TypeOK /\ clients[i] \in Entry /\ Recent(i) /\ passed[i] \in Seq(Nat)
      /\ now \in Nat /\ Window \in Nat /\ MaxReqs \in Nat /\ MaxReqs > 0
  BY EntryIs, LimitAssumption DEF LimitInv, Open, TypeOK
<1>1. ~Tick /\ ~Purge /\ ~UNCHANGED vars
  BY <1>0 DEF Tick, Purge, vars, TypeOK
<1>2. ASSUME NEW k \in Ips, Pass(k) PROVE FALSE
  <2>1. passed[k] \in Seq(Nat) /\ passed'[k] = Append(passed[k], now)
    BY <1>0, <1>2 DEF Pass, TypeOK
  <2>2. Len(passed'[k]) = Len(passed[k]) + 1 /\ Len(passed[k]) \in Nat
    BY <1>0, <2>1
  <2> QED  BY <2>2
<1>3. PICK k \in Ips : Another(k)
  BY <1>1, <1>2 DEF Next, First
<1>4. k = i
  BY <1>0, <1>3 DEF Another, TypeOK
<1>5. clients'[i].count = clients[i].count + 1 /\ clients'[i].count > MaxReqs
  BY <1>0, <1>2, <1>3, <1>4 DEF Another, TypeOK, Entry
<1>6. Admitted(i) = MaxReqs /\ clients[i].resetAt \in Nat /\ now <= clients[i].resetAt
  BY <1>0, <1>5 DEF Admitted, Entry, Open
<1> DEFINE j == Len(passed[i]) + 1 - MaxReqs
<1>7. Len(passed[i]) >= MaxReqs /\ j \in 1 .. Len(passed[i])
  BY <1>0, <1>6 DEF Recent
<1>8. passed[i][j] + Window >= clients[i].resetAt /\ passed[i][j] \in Nat
  <2>1. j > Len(passed[i]) - Admitted(i)
    BY <1>0, <1>6
  <2>2. passed[i][j] + Window >= clients[i].resetAt
    BY <1>0, <1>7, <2>1 DEF Recent
  <2>3. passed[i][j] \in Nat
    BY <1>0, <1>7
  <2> QED  BY <2>2, <2>3
<1> QED  BY <1>0, <1>6, <1>7, <1>8

\* A request is refused only if MaxReqs requests of its address have passed
\* within the last window, for every limit, window and purge period.
THEOREM RefusalsJustified == Spec => RefusedInWindow
<1>1. LimitInv /\ [Next]_vars =>
        [\A i \in Ips : (Open(i) /\ clients'[i] # clients[i] /\ passed' = passed) =>
            /\ Len(passed[i]) >= MaxReqs
            /\ passed[i][Len(passed[i]) + 1 - MaxReqs] + Window >= now]_vars
  BY RefusalStep
<1> QED  BY LimitInvariant, <1>1, PTL DEF Spec, RefusedInWindow

-----------------------------------------------------------------------------
(* At most two windows of requests pass in any window of time. *)

\* With an entry: what passed in its window did so before it ends; what
\* passed before it, earlier than its first instant; and all but the last
\* MaxReqs of those, more than a window before it.
Apart(i) ==
    LET n == Len(passed[i])
        r == clients[i].resetAt
    IN  /\ r <= now + Window
        /\ \A j \in 1 .. n :
              /\ passed[i][j] <= r
              /\ j > n - Admitted(i) => passed[i][j] + Window >= r
              /\ j <= n - Admitted(i) => passed[i][j] + Window < r
              /\ j <= n - Admitted(i) - MaxReqs => passed[i][j] + Window + Window < r

\* Without one: the last window is over.
Over(i) ==
    \A j \in 1 .. Len(passed[i]) :
        /\ passed[i][j] < now
        /\ j <= Len(passed[i]) - MaxReqs => passed[i][j] + Window < now

WindowInv ==
    /\ TypeOK /\ AtMostTwoWindows
    /\ \A i \in Ips : IF clients[i] = None THEN Over(i) ELSE Apart(i)

\* An expired entry tells what a purged one told.
LEMMA ExpiredIsOver ==
    ASSUME TypeOK, NEW i \in Ips, clients[i] # None, Apart(i), ~Open(i)
    PROVE  Over(i)
<1>0. /\ clients[i] \in Entry /\ passed[i] \in Seq(Nat)
      /\ now \in Nat /\ Window \in Nat /\ MaxReqs \in Nat /\ MaxReqs > 0
  BY EntryIs, LimitAssumption DEF TypeOK
<1>1. clients[i].resetAt \in Nat /\ now > clients[i].resetAt
  BY <1>0 DEF Open, Entry
<1>2. Admitted(i) \in Nat /\ Admitted(i) <= MaxReqs
  BY <1>0 DEF Admitted, Entry
<1>3. ASSUME NEW j \in 1 .. Len(passed[i])
      PROVE  passed[i][j] \in Nat /\ Len(passed[i]) \in Nat
  BY <1>0
<1>4. ASSUME NEW j \in 1 .. Len(passed[i])
      PROVE  /\ passed[i][j] < now
             /\ j <= Len(passed[i]) - MaxReqs => passed[i][j] + Window < now
  <2>1. passed[i][j] <= clients[i].resetAt
    BY DEF Apart
  <2>2. j <= Len(passed[i]) - Admitted(i) => passed[i][j] + Window < clients[i].resetAt
    BY DEF Apart
  <2>3. passed[i][j] < now
    BY <1>0, <1>1, <1>3, <2>1
  <2>4. ASSUME j <= Len(passed[i]) - MaxReqs PROVE passed[i][j] + Window < now
    <3>1. j <= Len(passed[i]) - Admitted(i)
      BY <1>0, <1>2, <1>3, <2>4
    <3> QED  BY <1>0, <1>1, <1>3, <2>2, <3>1
  <2> QED  BY <2>3, <2>4
<1> QED  BY <1>4 DEF Over

\* A request that passes after all but the last 2 * MaxReqs - 1 by more than a
\* window keeps the bound.
LEMMA PassApart ==
    ASSUME TypeOK, AtMostTwoWindows, NEW i \in Ips, Pass(i), now' = now,
           \A j \in 1 .. Len(passed[i]) :
              j + 2 * MaxReqs = Len(passed[i]) + 1 => passed[i][j] + Window < now
    PROVE  AtMostTwoWindows'
<1>0. passed \in [Ips -> Seq(Nat)] /\ now \in Nat /\ Window \in Nat /\ MaxReqs \in Nat /\ MaxReqs > 0
  BY LimitAssumption DEF TypeOK
<1>1. SUFFICES ASSUME NEW u \in Ips, NEW j \in 1 .. Len(passed'[u]),
                      j + 2 * MaxReqs <= Len(passed'[u])
               PROVE  passed'[u][j + 2 * MaxReqs] > passed'[u][j] + Window
  BY DEF AtMostTwoWindows
<1>2. CASE u # i
  <2>1. passed'[u] = passed[u]
    BY <1>0, <1>2 DEF Pass
  <2> QED  BY <1>1, <2>1 DEF AtMostTwoWindows
<1>3. CASE u = i
  <2>1. passed'[i] = Append(passed[i], now) /\ passed[i] \in Seq(Nat)
    BY <1>0 DEF Pass
  <2>2. /\ Len(passed[i]) \in Nat /\ Len(passed'[i]) = Len(passed[i]) + 1
        /\ passed'[i][Len(passed[i]) + 1] = now
        /\ \A k \in 1 .. Len(passed[i]) : passed'[i][k] = passed[i][k] /\ passed[i][k] \in Nat
    BY <1>0, <2>1
  <2>3. j \in 1 .. Len(passed[i])
    BY <1>0, <1>1, <1>3, <2>2
  <2>4. CASE j + 2 * MaxReqs = Len(passed[i]) + 1
    BY <1>0, <1>3, <2>2, <2>3, <2>4
  <2>5. CASE j + 2 * MaxReqs <= Len(passed[i])
    <3>1. j + 2 * MaxReqs \in 1 .. Len(passed[i])
      BY <1>0, <2>2, <2>3, <2>5
    <3>2. passed[i][j + 2 * MaxReqs] > passed[i][j] + Window
      BY <2>3, <2>5 DEF AtMostTwoWindows
    <3> QED  BY <1>3, <2>2, <2>3, <3>1, <3>2
  <2> QED  BY <1>0, <1>1, <1>3, <2>2, <2>4, <2>5
<1> QED  BY <1>2, <1>3

\* What is apart stays so as time passes.
LEMMA ApartLater ==
    ASSUME TypeOK, NEW i \in Ips, now' \in Nat, now' >= now,
           clients'[i] = clients[i], passed'[i] = passed[i]
    PROVE  /\ clients[i] # None /\ Apart(i) => Apart(i)'
           /\ Over(i) => Over(i)'
<1>0. passed[i] \in Seq(Nat) /\ now \in Nat /\ Window \in Nat
  BY LimitAssumption DEF TypeOK
<1>1. \A j \in 1 .. Len(passed[i]) : passed[i][j] \in Nat
  BY <1>0
<1>2. ASSUME clients[i] # None, Apart(i) PROVE Apart(i)'
  <2>1. clients[i].resetAt \in Nat /\ clients[i].resetAt <= now' + Window
    BY <1>0, <1>2, EntryIs DEF Apart, Entry
  <2>2. Admitted(i)' = Admitted(i)
    BY DEF Admitted
  <2> QED  BY <1>2, <2>1, <2>2 DEF Apart
<1>3. ASSUME Over(i) PROVE Over(i)'
  BY <1>0, <1>1, <1>3 DEF Over
<1> QED  BY <1>2, <1>3

\* The first request of a window.
LEMMA FirstApart ==
    ASSUME WindowInv, TypeOK', NEW i \in Ips, First(i)
    PROVE  AtMostTwoWindows' /\ Apart(i)'
<1>0. /\ TypeOK /\ AtMostTwoWindows /\ passed[i] \in Seq(Nat) /\ Pass(i) /\ now' = now
      /\ now \in Nat /\ Window \in Nat /\ Window > 0 /\ MaxReqs \in Nat /\ MaxReqs > 0
  BY LimitAssumption DEF WindowInv, TypeOK, First
<1>1. Over(i)
  BY ExpiredIsOver DEF WindowInv, First
<1>2. /\ clients'[i].count = 1 /\ clients'[i].resetAt = now + Window
      /\ passed'[i] = Append(passed[i], now)
  BY <1>0 DEF First, Pass, TypeOK
<1>3. Admitted(i)' = 1
  BY <1>0, <1>2 DEF Admitted
<1>4. /\ Len(passed[i]) \in Nat /\ Len(passed'[i]) = Len(passed[i]) + 1
      /\ passed'[i][Len(passed[i]) + 1] = now
      /\ \A j \in 1 .. Len(passed[i]) : passed'[i][j] = passed[i][j] /\ passed[i][j] \in Nat
  BY <1>0, <1>2
<1>5. AtMostTwoWindows'
  <2>1. ASSUME NEW j \in 1 .. Len(passed[i]), j + 2 * MaxReqs = Len(passed[i]) + 1
        PROVE  passed[i][j] + Window < now
    <3>1. j <= Len(passed[i]) - MaxReqs
      BY <1>0, <1>4, <2>1
    <3> QED  BY <1>1, <3>1 DEF Over
  <2> QED  BY <1>0, <2>1, PassApart
<1>6. ASSUME NEW j \in 1 .. Len(passed'[i])
      PROVE  /\ passed'[i][j] <= now + Window
             /\ j > Len(passed'[i]) - 1 => passed'[i][j] + Window >= now + Window
             /\ j <= Len(passed'[i]) - 1 => passed'[i][j] + Window < now + Window
             /\ j <= Len(passed'[i]) - 1 - MaxReqs
                  => passed'[i][j] + Window + Window < now + Window
  <2>1. CASE j = Len(passed[i]) + 1
    BY <1>0, <1>4, <2>1
  <2>2. CASE j # Len(passed[i]) + 1
    <3>1. j \in 1 .. Len(passed[i])
      BY <1>4, <2>2
    <3>2. passed[i][j] < now /\ (j <= Len(passed[i]) - MaxReqs => passed[i][j] + Window < now)
      BY <1>1, <3>1 DEF Over
    <3>3. passed'[i][j] = passed[i][j] /\ passed[i][j] \in Nat
      BY <1>4, <3>1
    <3>4. ~(j > Len(passed'[i]) - 1) /\ Len(passed'[i]) - 1 - MaxReqs = Len(passed[i]) - MaxReqs
      BY <1>0, <1>4, <3>1
    <3>5. passed[i][j] <= now + Window /\ passed[i][j] + Window < now + Window
      BY <1>0, <3>2, <3>3
    <3>6. passed[i][j] + Window < now => passed[i][j] + Window + Window < now + Window
      BY <1>0, <3>3
    <3> QED  BY <3>2, <3>3, <3>4, <3>5, <3>6
  <2> QED  BY <2>1, <2>2
<1>7. Apart(i)'
  BY <1>0, <1>2, <1>3, <1>6 DEF Apart
<1> QED  BY <1>5, <1>7

\* The arithmetic of one more request.
LEMMA OneMore ==
    ASSUME NEW n \in Nat, NEW a \in Nat,
           NEW t \in Nat, NEW w \in Nat, NEW u \in Nat, NEW r \in Nat
    PROVE  /\ (n + 1) - (a + 1) = n - a
           /\ t + w + w < r /\ r <= u + w => t + w < u
OBVIOUS

\* A further request of a window, passed on or refused.
LEMMA AnotherApart ==
    ASSUME WindowInv, TypeOK', NEW i \in Ips, Another(i)
    PROVE  AtMostTwoWindows' /\ Apart(i)'
<1>0. /\ TypeOK /\ AtMostTwoWindows /\ passed[i] \in Seq(Nat) /\ now' = now
      /\ now \in Nat /\ Window \in Nat /\ MaxReqs \in Nat /\ MaxReqs > 0
      /\ clients[i] \in Entry /\ Apart(i) /\ now <= clients[i].resetAt
  BY LimitAssumption, EntryIs DEF WindowInv, TypeOK, Another, Open
<1>1. /\ clients'[i].count = clients[i].count + 1
      /\ clients'[i].resetAt = clients[i].resetAt
  BY <1>0 DEF Another, TypeOK, Entry
<1>2. CASE clients'[i].count > MaxReqs
  <2>1. passed' = passed
    BY <1>2 DEF Another, Refuse
  <2>2. Admitted(i) = MaxReqs /\ Admitted(i)' = MaxReqs
    BY <1>0, <1>1, <1>2 DEF Admitted, Entry
  <2>3. Apart(i)'
    BY <1>0, <1>1, <2>1, <2>2 DEF Apart
  <2> QED  BY <1>0, <2>1, <2>3 DEF AtMostTwoWindows
<1>3. CASE ~(clients'[i].count > MaxReqs)
  <2>1. Pass(i) /\ passed'[i] = Append(passed[i], now)
    BY <1>0, <1>3 DEF Another, Pass, TypeOK
  <2>2. /\ Admitted(i) \in Nat /\ Admitted(i)' = Admitted(i) + 1 /\ Admitted(i) < MaxReqs
        /\ clients[i].resetAt \in Nat
    BY <1>0, <1>1, <1>3 DEF Admitted, Entry
  <2>3. /\ Len(passed[i]) \in Nat /\ Len(passed'[i]) = Len(passed[i]) + 1
        /\ passed'[i][Len(passed[i]) + 1] = now
        /\ \A j \in 1 .. Len(passed[i]) : passed'[i][j] = passed[i][j] /\ passed[i][j] \in Nat
    BY <1>0, <2>1
  <2>r. clients[i].resetAt <= now + Window
    BY <1>0 DEF Apart
  <2>4. AtMostTwoWindows'
    <3>1. ASSUME NEW j \in 1 .. Len(passed[i]), j + 2 * MaxReqs = Len(passed[i]) + 1
          PROVE  passed[i][j] + Window < now
      <4>1. j <= Len(passed[i]) - Admitted(i) - MaxReqs
        BY <1>0, <2>2, <2>3, <3>1
      <4>2. passed[i][j] + Window + Window < clients[i].resetAt
        BY <1>0, <4>1 DEF Apart
      <4>3. passed[i][j] \in Nat
        BY <2>3
      <4>4. now \in Nat /\ Window \in Nat /\ clients[i].resetAt \in Nat /\ 0 \in Nat
        BY <1>0, <2>2
      <4> QED  BY <2>r, <4>2, <4>3, <4>4, OneMore
    <3> QED  BY <1>0, <2>1, <3>1, PassApart
  <2>c. Len(passed'[i]) - (Admitted(i) + 1) = Len(passed[i]) - Admitted(i)
    <3>1. Len(passed[i]) \in Nat /\ Admitted(i) \in Nat /\ 0 \in Nat
      BY <2>2, <2>3
    <3>2. Len(passed'[i]) = Len(passed[i]) + 1
      BY <2>3
    <3>3. (Len(passed[i]) + 1) - (Admitted(i) + 1) = Len(passed[i]) - Admitted(i)
      BY <3>1, OneMore
    <3> QED  BY <3>2, <3>3
  <2>5. ASSUME NEW j \in 1 .. Len(passed'[i])
        PROVE  /\ passed'[i][j] <= clients[i].resetAt
               /\ j > Len(passed'[i]) - (Admitted(i) + 1)
                    => passed'[i][j] + Window >= clients[i].resetAt
               /\ j <= Len(passed'[i]) - (Admitted(i) + 1)
                    => passed'[i][j] + Window < clients[i].resetAt
               /\ j <= Len(passed'[i]) - (Admitted(i) + 1) - MaxReqs
                    => passed'[i][j] + Window + Window < clients[i].resetAt
    <3>1. CASE j = Len(passed[i]) + 1
      <4>1. passed'[i][j] = now /\ now <= clients[i].resetAt
            /\ now + Window >= clients[i].resetAt
        BY <1>0, <2>2, <2>3, <2>r, <3>1
      <4>2. j > Len(passed[i]) - Admitted(i) /\ j > Len(passed[i]) - Admitted(i) - MaxReqs
        BY <1>0, <2>2, <2>3, <3>1
      <4>3. /\ ~(j <= Len(passed[i]) - Admitted(i))
            /\ ~(j <= Len(passed[i]) - Admitted(i) - MaxReqs)
        BY <1>0, <2>2, <2>3, <4>2
      <4> QED  BY <2>c, <4>1, <4>3
    <3>2. CASE j # Len(passed[i]) + 1
      <4>1. j \in 1 .. Len(passed[i])
        BY <2>3, <3>2
      <4>2. /\ passed[i][j] <= clients[i].resetAt
            /\ j > Len(passed[i]) - Admitted(i) => passed[i][j] + Window >= clients[i].resetAt
            /\ j <= Len(passed[i]) - Admitted(i) => passed[i][j] + Window < clients[i].resetAt
            /\ j <= Len(passed[i]) - Admitted(i) - MaxReqs
                 => passed[i][j] + Window + Window < clients[i].resetAt
        BY <1>0, <4>1 DEF Apart
      <4>3. passed'[i][j] = passed[i][j]
        BY <2>3, <4>1
      <4> QED  BY <2>c, <4>2, <4>3
    <3> QED  BY <3>1, <3>2
  <2>6. Apart(i)'
    BY <1>0, <1>1, <2>2, <2>5, <2>r DEF Apart
  <2> QED  BY <2>4, <2>6
<1> QED  BY <1>2, <1>3

\* Every step of the limiter keeps the windows apart.
LEMMA WindowStep ==
    ASSUME WindowInv, [Next]_vars
    PROVE  WindowInv'
<1>0. TypeOK /\ TypeOK' /\ AtMostTwoWindows
  BY LimitTypes DEF WindowInv
<1>s. ASSUME NEW i \in Ips, clients'[i] = clients[i], passed'[i] = passed[i], now' >= now
      PROVE  IF clients'[i] = None THEN Over(i)' ELSE Apart(i)'
  <2>1. now' \in Nat
    BY <1>0 DEF TypeOK
  <2> QED  BY <1>0, <1>s, <2>1, ApartLater DEF WindowInv
<1>1. CASE Tick
  <2>1. AtMostTwoWindows'
    BY <1>0, <1>1 DEF Tick, AtMostTwoWindows
  <2>2. now' >= now /\ clients' = clients /\ passed' = passed
    BY <1>0, <1>1 DEF Tick, TypeOK
  <2> QED  BY <1>0, <1>s, <2>1, <2>2 DEF WindowInv
<1>2. CASE Purge
  <2>1. AtMostTwoWindows'
    BY <1>0, <1>2 DEF Purge, AtMostTwoWindows
  <2>2. ASSUME NEW i \in Ips PROVE IF clients'[i] = None THEN Over(i)' ELSE Apart(i)'
    <3>0. now' = now /\ passed' = passed /\ now' >= now
      BY <1>0, <1>2 DEF Purge, TypeOK
    <3>1. CASE Open(i)
      <4>1. clients'[i] = clients[i]
        BY <1>2, <3>1 DEF Purge
      <4> QED  BY <1>s, <3>0, <4>1
    <3>2. CASE ~Open(i)
      <4>1. clients'[i] = None
        BY <1>2, <3>2 DEF Purge
      <4>2. Over(i)
        BY <1>0, <3>2, ExpiredIsOver DEF WindowInv
      <4> QED  BY <3>0, <4>1, <4>2 DEF Over
    <3> QED  BY <3>1, <3>2
  <2> QED  BY <1>0, <2>1, <2>2 DEF WindowInv
<1>3. ASSUME NEW k \in Ips, First(k) \/ Another(k) PROVE WindowInv'
  <2>1. AtMostTwoWindows' /\ Apart(k)'
    BY <1>0, <1>3, FirstApart, AnotherApart
  <2>2. clients'[k] # None
    <3>1. CASE First(k)
      <4>1. clients'[k] = [count |-> 1, resetAt |-> now + Window]
        BY <1>0, <3>1 DEF First, TypeOK
      <4>2. clients'[k] \in [count : Nat, resetAt : Nat]
        BY <1>0, <4>1, LimitAssumption DEF TypeOK
      <4> QED  BY <4>2, NoneAssumption
    <3>2. CASE Another(k)
      <4>1. clients[k] \in Entry /\ clients'[k] = [clients[k] EXCEPT !.count = @ + 1]
        BY <1>0, <3>2, EntryIs DEF Another, Open, TypeOK
      <4>2. clients'[k] \in [count : Nat, resetAt : Nat]
        BY <4>1, Increment DEF Entry
      <4> QED  BY <4>2, NoneAssumption
    <3> QED  BY <1>3, <3>1, <3>2
  <2>3. ASSUME NEW i \in Ips, i # k
        PROVE  IF clients'[i] = None THEN Over(i)' ELSE Apart(i)'
    <3>1. clients'[i] = clients[i] /\ passed'[i] = passed[i] /\ now' = now
      BY <1>0, <1>3, <2>3 DEF First, Another, Pass, Refuse, TypeOK
    <3> QED  BY <1>0, <1>s, <3>1 DEF TypeOK
  <2>4. ASSUME NEW i \in Ips
        PROVE  IF clients'[i] = None THEN Over(i)' ELSE Apart(i)'
    BY <2>1, <2>2, <2>3
  <2> QED  BY <1>0, <2>1, <2>4 DEF WindowInv
<1>4. CASE UNCHANGED vars
  <2>1. AtMostTwoWindows' /\ now' >= now /\ clients' = clients /\ passed' = passed
    BY <1>0, <1>4 DEF vars, TypeOK, AtMostTwoWindows
  <2> QED  BY <1>0, <1>s, <2>1 DEF WindowInv
<1> QED  BY <1>1, <1>2, <1>3, <1>4 DEF Next

LEMMA WindowInitial == Init => WindowInv
BY DEF Init, WindowInv, TypeOK, AtMostTwoWindows, Over

\* In any stretch of Window + 1 ticks at most 2 * MaxReqs requests of an
\* address pass, for every limit, window, purge period and set of addresses.
THEOREM AtMostTwo == Spec => []AtMostTwoWindows
<1>1. WindowInv /\ [Next]_vars => WindowInv'
  BY WindowStep
<1>2. WindowInv => AtMostTwoWindows
  BY DEF WindowInv
<1> QED  BY WindowInitial, <1>1, <1>2, PTL DEF Spec

-----------------------------------------------------------------------------
(* The process. *)

Stages == {"idle", "limit", "handler", "query"}
Phases == {"storage", "cache", "serving", "stopPprof", "stopApi", "draining", "close", "exited"}

ServerTypes == main \in Phases /\ stage \in [Procs -> Stages] /\ ip \in [Procs -> Ips]

\* Storage is open from newApplication to close; there is no listener, and so
\* no request, before the server runs, and none once Shutdown has begun to
\* drain; the requests that are then left are left by the deadline.
PhaseInv ==
    /\ main \in {"storage", "cache"} => listener = "new"
    /\ main = "storage" => store = "none"
    /\ main \in {"cache", "serving", "stopPprof", "stopApi", "draining"} => store = "open"
    /\ main \in {"draining", "close"} => listener \in {"closed", "failed"}
    /\ main = "exited" => listener # "open"
    /\ listener = "new" => Idle
    /\ CutOffOnlyByDeadline

ServerInv == ServerTypes /\ PhaseInv

LEMMA ServerInitial == ServerInit => Init /\ ServerInv
BY DEF ServerInit, ServerInv, ServerTypes, PhaseInv, Phases, Stages, Idle, CutOffOnlyByDeadline

\* To the limiter a step of the process is a step of its own or none.
LEMMA ServerLimits ==
    ASSUME ServerTypes, [ServerNext]_serverVars
    PROVE  [Next]_vars
<1>1. ASSUME NEW p \in Procs, Serve(p) PROVE [Next]_vars
  <2>1. ip[p] \in Ips
    BY DEF ServerTypes
  <2> QED  BY <1>1, <2>1 DEF Serve, Accept, Limit, Query, QueryEnds, Answer, Next
<1>2. CASE Main
  BY <1>2 DEF Main, OpenStorage, OpenCache, StopBegins, StopPprof, StopApi, Drain,
              CloseStorage, CloseReturns, Proceed
<1>3. CASE SetPprof \/ Listen \/ Profile \/ Signal \/ Deadline \/ PurgeEnds
  BY <1>3 DEF SetPprof, Listen, Profile, Signal, Deadline, PurgeEnds
<1>4. CASE PurgeOnce \/ Clock
  BY <1>4 DEF PurgeOnce, Clock, Next
<1>5. CASE UNCHANGED serverVars
  BY <1>5 DEF serverVars
<1> QED  BY <1>1, <1>2, <1>3, <1>4, <1>5 DEF ServerNext

\* What a request's step leaves alone, and where it may be.
LEMMA ServeKeeps ==
    ASSUME ServerInv, NEW p \in Procs, main # "exited", Serve(p)
    PROVE  ServerInv'
<1>1. UNCHANGED <<procVars, ip>>
  BY DEF Serve, Accept, Limit, Query, QueryEnds, Answer
<1>2. \E to \in Stages : stage' = [stage EXCEPT ![p] = to]
  BY DEF Serve, Accept, Limit, Query, QueryEnds, Answer, Move, Stages
<1>3. ServerTypes'
  BY <1>1, <1>2 DEF ServerInv, ServerTypes, procVars
<1>4. stage[p] # "idle" \/ listener = "open"
  BY DEF Serve, Accept, Limit, Query, QueryEnds, Answer
<1>5. listener = "new" => Idle'
  BY <1>4 DEF ServerInv, PhaseInv, Idle
<1>6. CutOffOnlyByDeadline'
  <2>1. main = "close" /\ store # "none" => expired
    BY <1>4 DEF ServerInv, PhaseInv, Idle, CutOffOnlyByDeadline
  <2> QED  BY <1>1, <2>1 DEF CutOffOnlyByDeadline, procVars
<1> QED  BY <1>1, <1>3, <1>5, <1>6 DEF ServerInv, PhaseInv, procVars

\* The steps of the main goroutine.
LEMMA MainKeeps ==
    ASSUME ServerInv, Main
    PROVE  ServerInv'
<1>0. ServerTypes /\ PhaseInv /\ UNCHANGED <<stage, ip, expired>>
  BY DEF ServerInv, Main, OpenStorage, OpenCache, StopBegins, StopPprof, StopApi, Drain,
         CloseStorage, CloseReturns, Proceed
<1>1. Idle' <=> Idle
  BY <1>0 DEF Idle
<1> USE <1>0, <1>1 DEF ServerInv, ServerTypes, PhaseInv, CutOffOnlyByDeadline, Phases, Proceed
<1>2. CASE OpenStorage
  BY <1>2 DEF OpenStorage
<1>3. CASE OpenCache
  BY <1>3 DEF OpenCache
<1>4. CASE StopBegins
  BY <1>4 DEF StopBegins
<1>5. CASE StopPprof
  BY <1>5 DEF StopPprof
<1>6. CASE StopApi
  BY <1>6 DEF StopApi
<1>7. CASE Drain
  BY <1>7 DEF Drain
<1>8. CASE CloseStorage
  BY <1>8 DEF CloseStorage
<1>9. CASE CloseReturns
  BY <1>9 DEF CloseReturns
<1> QED  BY <1>2, <1>3, <1>4, <1>5, <1>6, <1>7, <1>8, <1>9 DEF Main

\* Every step of the process.
LEMMA ServerStep ==
    ASSUME ServerInv, [ServerNext]_serverVars
    PROVE  ServerInv'
<1>1. ASSUME main # "exited", NEW p \in Procs, Serve(p) PROVE ServerInv'
  BY <1>1, ServeKeeps
<1>2. CASE Main
  BY <1>2, MainKeeps
<1>3. CASE Listen
  <2>1. UNCHANGED <<main, expired, store, stage, ip>> /\ listener = "new"
        /\ listener' \in {"open", "failed"} /\ main \notin {"storage", "cache", "exited"}
    BY <1>3 DEF Listen
  <2>2. Idle' <=> Idle
    BY <2>1 DEF Idle
  <2> QED  BY <2>1, <2>2 DEF ServerInv, ServerTypes, PhaseInv, CutOffOnlyByDeadline
<1>4. ASSUME UNCHANGED <<main, listener, store, stage, ip>>, expired => expired'
      PROVE  ServerInv'
  <2>1. Idle' <=> Idle
    BY <1>4 DEF Idle
  <2> QED  BY <1>4, <2>1 DEF ServerInv, ServerTypes, PhaseInv, CutOffOnlyByDeadline
<1>5. CASE SetPprof \/ Profile \/ Signal \/ Deadline
  BY <1>4, <1>5 DEF SetPprof, Profile, Signal, Deadline
<1>6. CASE PurgeOnce \/ PurgeEnds \/ Clock
  BY <1>4, <1>6 DEF PurgeOnce, PurgeEnds, Clock, procVars
<1>7. CASE UNCHANGED serverVars
  BY <1>4, <1>7 DEF serverVars, procVars
<1> QED  BY <1>1, <1>2, <1>3, <1>5, <1>6, <1>7 DEF ServerNext

\* The invariants of the process, and that to the limiter it is one more user.
THEOREM ServerInvariant == ServerSpec => []ServerInv /\ Spec
<1>1. ServerInv /\ [ServerNext]_serverVars => ServerInv'
  BY ServerStep
<1>2. ServerInv /\ [ServerNext]_serverVars => [Next]_vars
  BY ServerLimits DEF ServerInv
<1>3. ServerInit => ServerInv /\ Init
  BY ServerInitial
<1> QED  BY <1>1, <1>2, <1>3, PTL DEF ServerSpec, Spec

\* Requests are accepted only with storage open and not yet being closed,
\* whenever the signal comes, for any number of requests.
THEOREM AcceptsWithStorage == ServerSpec => []ServesWithStorage
<1>1. ServerInv => ServesWithStorage
  BY DEF ServerInv, ServerTypes, PhaseInv, Phases, ServesWithStorage
<1> QED  BY ServerInvariant, <1>1, PTL

\* Storage is closed under a request only once the 30 seconds are over.
THEOREM DeadlineOnly == ServerSpec => []CutOffOnlyByDeadline
<1>1. ServerInv => CutOffOnlyByDeadline
  BY DEF ServerInv, PhaseInv
<1> QED  BY ServerInvariant, <1>1, PTL

\* Inside the running process the limiter keeps its promises too.
THEOREM LimitsInProcess == ServerSpec => []AtMostTwoWindows /\ RefusedInWindow
BY ServerInvariant, AtMostTwo, RefusalsJustified, PTL

=============================================================================
