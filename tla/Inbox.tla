------------------------------- MODULE Inbox --------------------------------
(***************************************************************************)
(* A client reading a chat: it pages through the history and marks the     *)
(* chat as read, while messages are sent and deleted (ReadReceipts).  The  *)
(* page is made by the handler's limit (delivery/http/handler/message.go), *)
(* the use case's page and cursor (usecase/message) and the keyset query   *)
(* GetChatMessages (storage/postgres, storage/mysql).  The client walks    *)
(* from the newest page to the oldest by passing the next_cursor of one    *)
(* page to the next request.                                               *)
(***************************************************************************)
EXTENDS ReadReceipts, Integers, Sequences, SequencesExt

CONSTANTS
    Reader,         \* the user who reads
    LimitParams,    \* what a client passes as ?limit
    DefaultLimit,   \* 30 in the code
    MaxLimit,       \* 100 in the code
    MaxDeleted,     \* bound on the messages that are deleted
    Nil             \* no cursor

ASSUME IdsAssumption == Ids \subseteq Nat   \* ids are ordered
ASSUME ReaderAssumption == Reader \in Users
ASSUME LimitAssumption ==
    LimitParams \subseteq Int /\ MaxLimit \in Nat /\ DefaultLimit \in 1 .. MaxLimit
ASSUME DeletedAssumption == MaxDeleted \in Nat
ASSUME NilAssumption == Nil \notin Message

VARIABLES
    status,    \* "start", "walking", "done", or "panic"
    cursor,    \* next_cursor of the last page, or Nil
    got,       \* everything the walk has returned, in order
    pages,     \* history: how many requests it has taken
    present,   \* history: what was visible when the walk began
    late       \* history: a MarkRead has come after the first page

walkVars  == <<status, cursor, got, pages, present>>
inboxVars == <<vars, walkVars, late>>

\* (created_at, id) < (created_at, id)
Older(m, n) == m.at < n.at \/ (m.at = n.at /\ m.id < n.id)
Newer(m, n) == Older(n, m)

InboxInit ==
    /\ Init
    /\ status = "start" /\ cursor = Nil
    /\ got = <<>> /\ pages = 0
    /\ present = {} /\ late = FALSE

-----------------------------------------------------------------------------
\* Faulty variant: zero is let through.
LimitOrZero(param) == IF param < 0 THEN DefaultLimit
                      ELSE IF param > MaxLimit THEN MaxLimit ELSE param

\* The handler's limit.
Limit(param) == IF param < 1 THEN DefaultLimit
                ELSE IF param > MaxLimit THEN MaxLimit ELSE param

\* Faulty variant: ties on created_at are cut off.
BelowByTime(m) == cursor = Nil \/ m.at < cursor.at

\* WHERE (created_at, id) < cursor
Below(m) == cursor = Nil \/ Older(m, cursor)

\* ORDER BY created_at DESC, id DESC
Sorted(rows) == CHOOSE s \in SetToSeqs(rows) :
    \A i, j \in 1 .. Len(s) : i < j => Newer(s[i], s[j])

\* GetChatMessages: the first rows below the cursor, at most limit
GetChatMessages(limit) ==
    LET sorted == Sorted({m \in Visible : Below(m)})
    IN  SubSeq(sorted, 1, IF Len(sorted) < limit THEN Len(sorted) ELSE limit)

\* Faulty variant: the first message of the page becomes the cursor.
NextCursorFirst(msgs, limit) == IF Len(msgs) < limit THEN Nil ELSE msgs[1]

\* Faulty variant: an empty page repeats the cursor.
NextCursorKept(msgs, limit) == IF msgs = <<>> THEN cursor ELSE msgs[Len(msgs)]

\* nextCursor: no cursor after a page that is not full.
NextCursor(msgs, limit) == IF Len(msgs) < limit THEN Nil ELSE msgs[Len(msgs)]

\* One request.  msgs[len(msgs)-1] of an empty page would be out of range.
GetHistory(param) ==
    LET limit == Limit(param)
        msgs  == GetChatMessages(limit)
    IN  /\ status \in {"start", "walking"}
        /\ got' = got \o msgs /\ pages' = pages + 1
        /\ present' = IF status = "start" THEN Visible ELSE present
        /\ IF msgs = <<>> /\ Len(msgs) >= limit
           THEN status' = "panic" /\ cursor' = Nil
           ELSE /\ cursor' = NextCursor(msgs, limit)
                /\ status' = IF cursor' = Nil THEN "done" ELSE "walking"
        /\ UNCHANGED <<vars, late>>

Walk == \E param \in LimitParams : GetHistory(param)

MarkInbox ==
    /\ MarkRead(Reader)
    /\ late' = (late \/ status # "start")
    /\ UNCHANGED walkVars

\* While the reader reads, the others write.  Their receipts are rows of their
\* own.
Others ==
    /\ \/ Tick
       \/ \E u \in Users \ {Reader}, i \in Ids : Build(u, i)
       \/ \E m \in sending : Create(m)
       \/ Cardinality(deleted) < MaxDeleted /\ \E m \in messages : Delete(m)
    /\ UNCHANGED <<walkVars, late>>

InboxNext == Walk \/ MarkInbox \/ Others

InboxSpec == InboxInit /\ [][InboxNext]_inboxVars

-----------------------------------------------------------------------------
Returned == {got[i] : i \in 1 .. Len(got)}

\* A walk returns each message at most once, newest first, over all pages,
\* whatever is sent and deleted between them: "stable keyset pagination"
\* (domain/message.go:51).
StrictlyOlder == \A i, j \in 1 .. Len(got) : i < j => Older(got[j], got[i])

\* A walk that has ended has returned every message that was there when it
\* began and has not been deleted since; ties on created_at and pages that
\* are exactly full included (usecase/message/dto.go:59-65).
NothingSkipped == status = "done" => present \cap Visible \subseteq Returned

\* nextCursor never reads the last element of an empty page: the handler lets
\* no limit below 1 through (handler/message.go:70-75).
NoPanic == status # "panic"

\* Every page but the last brings something new: the walk ends after at most
\* one request more than there are messages, whatever is sent and deleted
\* meanwhile (usecase/message/dto.go:59-65).
NoIdlePages == pages <= Len(got) + 1

\* A client that marks the chat as read before it fetches the first page
\* misses nothing: when its walk has ended, every message of somebody else has
\* been returned or is still counted as unread, but for those in flight at the
\* MarkRead.  In the other order a message that arrives between the page and
\* the MarkRead is neither shown nor counted, because the receipt is NOW() and
\* names no message (message.go:130-145, postgres/message.go:131-139).
MarkFirstMissesNothing == status = "done" /\ ~late =>
    \A m \in Visible :
        m.sender # Reader /\ m.id \notin raced[Reader] =>
            m \in Returned \cup Unread(Reader)

=============================================================================
