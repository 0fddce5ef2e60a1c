---------------------------- MODULE ReadReceipts ----------------------------
(***************************************************************************)
(* Read receipts and unread counts of one chat: message.MarkRead and the   *)
(* unread query of GetUserChats and GetUnreadCount (storage/postgres).     *)
(* The receipt holds the database's NOW(); a message carries the server's  *)
(* time at which Send built it, some time before its INSERT.  The two      *)
(* clocks may differ by MaxSkew.                                           *)
(***************************************************************************)
EXTENDS Naturals, FiniteSets

CONSTANTS
    Users,     \* members of the chat
    Ids,       \* message ids
    MaxTime,   \* bound on the server's clock
    MaxSkew    \* how far the database's clock may be off it

ASSUME TimeAssumption == MaxTime \in Nat \ {0} /\ MaxSkew \in Nat

VARIABLES
    now,        \* time.Now()
    sending,    \* messages built by Send and not yet inserted
    messages,   \* the messages table
    deleted,    \* ids with deleted_at set
    lastRead,   \* chat_read_receipts.last_read_at, 0 without a row
    marked,     \* history: when each user last called MarkRead, or 0
    seen,       \* history: what was visible at a MarkRead of each user
    raced       \* history: messages in flight at a MarkRead of each user, or
                \* built before the server's clock was MaxSkew past it

vars == <<now, sending, messages, deleted, lastRead, marked, seen, raced>>

Message == [id : Ids, sender : Users, at : 1 .. MaxTime]

TypeOK ==
    /\ now \in 1 .. MaxTime
    /\ sending \subseteq Message /\ messages \subseteq Message
    /\ deleted \subseteq Ids
    /\ lastRead \in [Users -> 0 .. MaxTime + MaxSkew]
    /\ marked \in [Users -> 0 .. MaxTime]
    /\ seen \in [Users -> SUBSET Ids] /\ raced \in [Users -> SUBSET Ids]

Init ==
    /\ now = 1
    /\ sending = {} /\ messages = {} /\ deleted = {}
    /\ lastRead = [u \in Users |-> 0] /\ marked = [u \in Users |-> 0]
    /\ seen = [u \in Users |-> {}] /\ raced = [u \in Users |-> {}]

Visible == {m \in messages : m.id \notin deleted}

Tick ==
    /\ now < MaxTime /\ now' = now + 1
    /\ UNCHANGED <<sending, messages, deleted, lastRead, marked, seen, raced>>

\* Send: time.Now() and uuid.New()
Build(u, i) ==
    /\ \A m \in sending \cup messages : m.id # i
    /\ sending' = sending \cup {[id |-> i, sender |-> u, at |-> now]}
    /\ raced' = [v \in Users |-> IF marked[v] # 0 /\ now <= marked[v] + MaxSkew
                                 THEN raced[v] \cup {i} ELSE raced[v]]
    /\ UNCHANGED <<now, messages, deleted, lastRead, marked, seen>>

\* MessageRepository.Create
Create(m) ==
    /\ m \in sending
    /\ sending' = sending \ {m}
    /\ messages' = messages \cup {m}
    /\ UNCHANGED <<now, deleted, lastRead, marked, seen, raced>>

Delete(m) ==
    /\ m \in Visible
    /\ deleted' = deleted \cup {m.id}
    /\ UNCHANGED <<now, sending, messages, lastRead, marked, seen, raced>>

\* Faulty variant: the receipt is rounded up to the next instant.
MarkReadLate(u) ==
    /\ lastRead' = [lastRead EXCEPT ![u] = now + MaxSkew + 1]
    /\ marked' = [marked EXCEPT ![u] = now]
    /\ seen' = [seen EXCEPT ![u] = @ \cup {m.id : m \in Visible}]
    /\ raced' = [raced EXCEPT ![u] = @ \cup {m.id : m \in sending}]
    /\ UNCHANGED <<now, sending, messages, deleted>>

\* What the database's NOW() may be.
DatabaseNow == {t \in 0 .. MaxTime + MaxSkew : now <= t + MaxSkew /\ t <= now + MaxSkew}

\* INSERT ... ON CONFLICT DO UPDATE SET last_read_at = NOW()
MarkRead(u) ==
    /\ \E t \in DatabaseNow : lastRead' = [lastRead EXCEPT ![u] = t]
    /\ marked' = [marked EXCEPT ![u] = now]
    /\ seen' = [seen EXCEPT ![u] = @ \cup {m.id : m \in Visible}]
    /\ raced' = [raced EXCEPT ![u] = @ \cup {m.id : m \in sending}]
    /\ UNCHANGED <<now, sending, messages, deleted>>

\* Faulty variant: created_at >= last_read_at.
UnreadOrEqual(u) == {m \in Visible : m.sender # u /\ m.at >= lastRead[u]}

\* Faulty variant: without COALESCE, a missing receipt compares as NULL.
UnreadNull(u) == {m \in Visible : m.sender # u /\ lastRead[u] # 0 /\ m.at > lastRead[u]}

\* The rows that unread_count counts.
Unread(u) == {m \in Visible : m.sender # u /\ m.at > lastRead[u]}

Next ==
    \/ Tick
    \/ \E u \in Users : MarkRead(u) \/ \E i \in Ids : Build(u, i)
    \/ \E m \in sending : Create(m)
    \/ \E m \in messages : Delete(m)

Spec == Init /\ [][Next]_vars

-----------------------------------------------------------------------------
\* What a user has marked as read is never counted as unread again, by any
\* later sequence of sends, deletes and receipts, ties in time included, if it
\* was older than the two clocks may differ (postgres/chat.go:195-202).
ReadStaysRead == \A u \in Users : \A m \in Unread(u) :
    m.id \in seen[u] => marked[u] < m.at + MaxSkew

\* A message of somebody else that the user has not marked as read is counted,
\* except one that was in flight during a MarkRead, or built within MaxSkew of
\* it: no other message is missed (message.go:41-49,
\* postgres/message.go:131-158).
MissedOnlyByRace == \A u \in Users : \A m \in Visible :
    m.sender # u /\ m.id \notin seen[u] \cup raced[u] => m \in Unread(u)

=============================================================================
