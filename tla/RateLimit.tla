----------------------------- MODULE RateLimit ------------------------------
(***************************************************************************)
(* The per-IP fixed-window limiter of the auth endpoints                   *)
(* (delivery/http/middleware/ratelimit.go).  The map is guarded by a       *)
(* mutex, so one request and one purge are each one step; time passes      *)
(* between them.                                                           *)
(***************************************************************************)
EXTENDS Naturals, Sequences

CONSTANTS
    Ips,
    MaxReqs,    \* rate_limit.max_requests
    Window,     \* rate_limit.window, in clock ticks
    PurgeEvery, \* the purge ticker's period, 10 windows in the code
    MaxTime,    \* bound on the clock
    MaxCount,   \* bound on the requests of a window
    None        \* no entry

\* Config.Validate refuses anything else.
ASSUME LimitAssumption == MaxReqs \in Nat \ {0} /\ Window \in Nat \ {0}
ASSUME BoundAssumption == PurgeEvery \in Nat \ {0} /\ MaxTime \in Nat /\ MaxCount \in Nat
ASSUME NoneAssumption == None \notin [count : Nat, resetAt : Nat]

VARIABLES
    now,       \* time.Now()
    clients,   \* the entry of each address, or None
    purged,    \* when the ticker last fired
    passed     \* history: the times at which requests of an address passed

vars == <<now, clients, purged, passed>>

TypeOK ==
    /\ now \in Nat /\ purged \in Nat
    /\ clients \in [Ips -> [count : Nat \ {0}, resetAt : Nat] \cup {None}]
    /\ passed \in [Ips -> Seq(Nat)]

Init ==
    /\ now = 0 /\ purged = 0
    /\ clients = [i \in Ips |-> None]
    /\ passed = [i \in Ips |-> <<>>]

\* There is an entry and not now.After(e.resetAt).
Open(i) == clients[i] # None /\ now <= clients[i].resetAt

Tick ==
    /\ now < MaxTime
    /\ now' = now + 1
    /\ UNCHANGED <<clients, purged, passed>>

Pass(i) == passed' = [passed EXCEPT ![i] = Append(@, now)]
Refuse  == UNCHANGED passed

\* No entry, or an expired one: a new window starts with this request.
First(i) ==
    /\ ~Open(i)
    /\ clients' = [clients EXCEPT ![i] = [count |-> 1, resetAt |-> now + Window]]
    /\ Pass(i)
    /\ UNCHANGED <<now, purged>>

\* Faulty variant: every request prolongs the window.
AnotherProlongs(i) ==
    /\ Open(i) /\ clients[i].count < MaxCount
    /\ clients' = [clients EXCEPT ![i].count = @ + 1, ![i].resetAt = now + Window]
    /\ IF clients'[i].count > MaxReqs THEN Refuse ELSE Pass(i)
    /\ UNCHANGED <<now, purged>>

\* Faulty variant: the count is compared before it is increased.
AnotherOffByOne(i) ==
    /\ Open(i) /\ clients[i].count < MaxCount
    /\ clients' = [clients EXCEPT ![i].count = @ + 1]
    /\ IF clients[i].count > MaxReqs THEN Refuse ELSE Pass(i)
    /\ UNCHANGED <<now, purged>>

Another(i) ==
    /\ Open(i) /\ clients[i].count < MaxCount
    /\ clients' = [clients EXCEPT ![i].count = @ + 1]
    /\ IF clients'[i].count > MaxReqs THEN Refuse ELSE Pass(i)
    /\ UNCHANGED <<now, purged>>

\* The ticker has fired: expired entries are deleted.
Purge ==
    /\ now >= purged + PurgeEvery
    /\ purged' = now
    /\ clients' = [i \in Ips |-> IF Open(i) THEN clients[i] ELSE None]
    /\ UNCHANGED <<now, passed>>

Next == Tick \/ Purge \/ \E i \in Ips : First(i) \/ Another(i)

Spec == Init /\ [][Next]_vars

-----------------------------------------------------------------------------
\* In any stretch of Window + 1 ticks at most 2 * MaxReqs requests of an
\* address pass: two windows never overlap, whenever the purge runs
\* (ratelimit.go:25-43, 49-60).
AtMostTwoWindows == \A i \in Ips :
    \A j \in 1 .. Len(passed[i]) :
        LET k == j + 2 * MaxReqs
        IN  k <= Len(passed[i]) => passed[i][k] > passed[i][j] + Window

\* A request is refused only if MaxReqs requests of the same address have
\* passed within the last Window: being refused does not prolong the penalty,
\* and other addresses do not count (ratelimit.go:58-60).
RefusedInWindow ==
    [][\A i \in Ips : (Open(i) /\ clients'[i] # clients[i] /\ passed' = passed) =>
          /\ Len(passed[i]) >= MaxReqs
          /\ passed[i][Len(passed[i]) + 1 - MaxReqs] + Window >= now]_vars

=============================================================================
