------------------------------- MODULE WsHub --------------------------------
(***************************************************************************)
(* WebSocket connections and the hub (internal/delivery/ws): the handler   *)
(* goroutine of each connection, which loads the user's chats, marks the   *)
(* user online, subscribes to the rooms, reads and broadcasts, and cleans  *)
(* up; its write pump; and the rooms, which are sync.Maps and not locked.  *)
(*                                                                         *)
(* Hub.Dispatch has no caller in the program and is left out.              *)
(***************************************************************************)
EXTENDS Naturals, Sequences

CONSTANTS
    Users, Chats,
    Conns,        \* connections, each used once
    BufferSize,   \* sendBufferSize
    MaxEvents,    \* bound on the events that clients send
    MaxFailures   \* bound on failed status updates and process exits

ASSUME BufferAssumption == BufferSize \in Nat \ {0}
ASSUME EventAssumption == MaxEvents \in Nat
ASSUME FailureAssumption == MaxFailures \in Nat

VARIABLES
    status,     \* users.status
    user,       \* the user of each connection
    chatIDs,    \* the chats loaded when the connection was made
    room,       \* Hub.chatClients: the connections in each room
    up,         \* the TCP connection is open
    pc,         \* where the handler goroutine is
    todo,       \* rooms left to subscribe to or to unsubscribe from
    event,      \* the event a broadcast is about
    start,      \* the room when that broadcast began
    seen,       \* the connections it has visited
    sent,       \* events read from all connections so far
    wpc, left,  \* where the write pump is, and what it still has to drain
    buffer,     \* Client.send
    out,        \* what has been written to the connection
    failures,   \* failed status updates and process exits so far
    stuck       \* history: users whose last status update did not happen

handlerVars == <<chatIDs, pc, todo, event, start, seen, sent>>
writerVars  == <<wpc, left, out>>
vars == <<status, user, room, up, buffer, failures, stuck, handlerVars, writerVars>>

Event == [from : Conns, chat : Chats, n : 1 .. MaxEvents]
Labels == {"new", "upgraded", "subscribe", "read", "broadcast", "unsubscribe", "gone"}

TypeOK ==
    /\ user \in [Conns -> Users]
    /\ status \in [Users -> {"online", "offline"}] /\ stuck \subseteq Users
    /\ chatIDs \in [Conns -> SUBSET Chats] /\ todo \in [Conns -> SUBSET Chats]
    /\ room \in [Chats -> SUBSET Conns] /\ up \in [Conns -> BOOLEAN]
    /\ pc \in [Conns -> Labels]
    /\ wpc \in [Conns -> {"off", "select", "count", "drain", "ended"}]
    /\ left \in [Conns -> 0 .. BufferSize]
    /\ \A c \in Conns : Len(buffer[c]) <= BufferSize
    /\ sent \in 0 .. MaxEvents

Init ==
    /\ user \in [Conns -> Users]
    /\ status = [u \in Users |-> "offline"] /\ stuck = {} /\ failures = 0
    /\ chatIDs = [c \in Conns |-> {}] /\ todo = [c \in Conns |-> {}]
    /\ room = [h \in Chats |-> {}] /\ up = [c \in Conns |-> FALSE]
    /\ pc = [c \in Conns |-> "new"]
    /\ event = [c \in Conns |-> {}] /\ sent = 0
    /\ start = [c \in Conns |-> {}] /\ seen = [c \in Conns |-> {}]
    /\ wpc = [c \in Conns |-> "off"] /\ left = [c \in Conns |-> 0]
    /\ buffer = [c \in Conns |-> <<>>] /\ out = [c \in Conns |-> <<>>]

Goto(c, label) == pc' = [pc EXCEPT ![c] = label]

-----------------------------------------------------------------------------
(* Handler.ServeHTTP up to Client.Run. *)

\* Faulty variant: SetOffline is deferred before the handshake, so that it
\* also runs for a handshake that fails.
UpgradeDeferred(c) ==
    /\ pc[c] = "new"
    /\ \/ /\ \E chats \in SUBSET Chats : chatIDs' = [chatIDs EXCEPT ![c] = chats]
          /\ up' = [up EXCEPT ![c] = TRUE]
          /\ Goto(c, "upgraded")
          /\ UNCHANGED status
       \/ /\ Goto(c, "gone")
          /\ status' = [status EXCEPT ![user[c]] = "offline"]
          /\ UNCHANGED <<chatIDs, up>>
    /\ UNCHANGED <<user, room, buffer, failures, stuck,
                   todo, event, start, seen, sent, writerVars>>

\* GetUserChats, a snapshot of the user's memberships, which come and go at
\* any time (ChatService) without the hub being told; then the handshake,
\* which succeeds, or the handler returns.
Upgrade(c) ==
    /\ pc[c] = "new"
    /\ \/ /\ \E chats \in SUBSET Chats : chatIDs' = [chatIDs EXCEPT ![c] = chats]
          /\ up' = [up EXCEPT ![c] = TRUE]
          /\ Goto(c, "upgraded")
       \/ Goto(c, "gone") /\ UNCHANGED <<chatIDs, up>>
    /\ UNCHANGED <<status, user, room, buffer, failures, stuck,
                   todo, event, start, seen, sent, writerVars>>

\* UpdateStatus, or its failure, which is logged.
SetStatus(c, value) ==
    \/ /\ status' = [status EXCEPT ![user[c]] = value]
       /\ stuck' = stuck \ {user[c]}
       /\ UNCHANGED failures
    \/ /\ failures < MaxFailures
       /\ failures' = failures + 1
       /\ stuck' = stuck \cup {user[c]}
       /\ UNCHANGED status

SetOnline(c) ==
    /\ pc[c] = "upgraded"
    /\ SetStatus(c, "online")
    /\ todo' = [todo EXCEPT ![c] = chatIDs[c]]
    /\ Goto(c, "subscribe")
    /\ UNCHANGED <<user, room, up, buffer, chatIDs, event, start, seen, sent, writerVars>>

\* Hub.Subscribe, one room at a time.
Subscribe(c) ==
    /\ pc[c] = "subscribe"
    /\ \E h \in todo[c] :
          /\ room' = [room EXCEPT ![h] = @ \cup {c}]
          /\ todo' = [todo EXCEPT ![c] = @ \ {h}]
    /\ UNCHANGED <<status, user, up, buffer, failures, stuck,
                   chatIDs, pc, event, start, seen, sent, writerVars>>

\* Client.Run: the write pump starts, the goroutine becomes the read pump.
Run(c) ==
    /\ pc[c] = "subscribe" /\ todo[c] = {}
    /\ Goto(c, "read")
    /\ wpc' = [wpc EXCEPT ![c] = "select"]
    /\ UNCHANGED <<status, user, room, up, buffer, failures, stuck,
                   chatIDs, todo, event, start, seen, sent, left, out>>

-----------------------------------------------------------------------------
(* readPump and BroadcastToChat. *)

\* A client event for a chat of the snapshot; others are ignored.
Read(c) ==
    /\ pc[c] = "read" /\ up[c] /\ sent < MaxEvents
    /\ sent' = sent + 1
    /\ \E h \in chatIDs[c] :
          /\ event' = [event EXCEPT ![c] = {[from |-> c, chat |-> h, n |-> sent']}]
          /\ start' = [start EXCEPT ![c] = room[h]]
          /\ seen' = [seen EXCEPT ![c] = {}]
    /\ Goto(c, "broadcast")
    /\ UNCHANGED <<status, user, room, up, buffer, failures, stuck,
                   chatIDs, todo, writerVars>>

EventOf(c) == CHOOSE e \in event[c] : TRUE

\* Echo prevention.
Skip(c, d) == user[c] = user[d]

\* Send on the channel, or drop when it is full.
Enqueue(d, e) ==
    buffer' = IF Len(buffer[d]) < BufferSize THEN [buffer EXCEPT ![d] = Append(@, e)]
                                             ELSE buffer

\* One step of sync.Map.Range: no key twice, and a key stored or deleted
\* meanwhile may be visited or not.
Visit(c) ==
    /\ pc[c] = "broadcast"
    /\ \E d \in (start[c] \cup room[EventOf(c).chat]) \ seen[c] :
          /\ seen' = [seen EXCEPT ![c] = @ \cup {d}]
          /\ IF Skip(c, d) THEN UNCHANGED buffer ELSE Enqueue(d, EventOf(c))
    /\ UNCHANGED <<status, user, room, up, failures, stuck,
                   chatIDs, pc, todo, event, start, sent, writerVars>>

RangeEnds(c) ==
    /\ pc[c] = "broadcast"
    /\ (start[c] \cap room[EventOf(c).chat]) \subseteq seen[c]
    /\ event' = [event EXCEPT ![c] = {}]
    /\ start' = [start EXCEPT ![c] = {}] /\ seen' = [seen EXCEPT ![c] = {}]
    /\ Goto(c, "read")
    /\ UNCHANGED <<status, user, room, up, buffer, failures, stuck,
                   chatIDs, todo, sent, writerVars>>

\* Faulty variant: the defer only closes the connection.
ReadErrorNoUnsubscribe(c) ==
    /\ pc[c] = "read" /\ ~up[c]
    /\ Goto(c, "unsubscribe")
    /\ UNCHANGED <<status, user, room, up, buffer, failures, stuck,
                   chatIDs, todo, event, start, seen, sent, writerVars>>

\* ReadMessage fails: the peer has closed or is silent for pongWait, or the
\* write pump has closed the connection.
ReadError(c) ==
    /\ pc[c] = "read" /\ ~up[c]
    /\ todo' = [todo EXCEPT ![c] = chatIDs[c]]
    /\ Goto(c, "unsubscribe")
    /\ UNCHANGED <<status, user, room, up, buffer, failures, stuck,
                   chatIDs, event, start, seen, sent, writerVars>>

Unsubscribe(c) ==
    /\ pc[c] = "unsubscribe"
    /\ \E h \in todo[c] :
          /\ room' = [room EXCEPT ![h] = @ \ {c}]
          /\ todo' = [todo EXCEPT ![c] = @ \ {h}]
    /\ UNCHANGED <<status, user, up, buffer, failures, stuck,
                   chatIDs, pc, event, start, seen, sent, writerVars>>

\* Faulty variant: the deferred update uses the cancelled request context.
SetOfflineLost(c) ==
    /\ pc[c] = "unsubscribe" /\ todo[c] = {}
    /\ Goto(c, "gone")
    /\ UNCHANGED <<status, user, room, up, buffer, failures, stuck,
                   chatIDs, todo, event, start, seen, sent, writerVars>>

\* The connection is closed, and the deferred SetOffline runs with a context of its own.
SetOffline(c) ==
    /\ pc[c] = "unsubscribe" /\ todo[c] = {}
    /\ SetStatus(c, "offline")
    /\ Goto(c, "gone")
    /\ UNCHANGED <<user, room, up, buffer, chatIDs, todo, event, start, seen, sent, writerVars>>

-----------------------------------------------------------------------------
(* writePump. *)

\* A write on a closed connection fails: the pump returns.
WriterEnds(c) ==
    /\ wpc' = [wpc EXCEPT ![c] = "ended"]
    /\ left' = [left EXCEPT ![c] = 0]
    /\ UNCHANGED <<out, buffer>>

\* Faulty variant: what was queued last is written first.
WriteNewest(c) ==
    /\ out' = [out EXCEPT ![c] = Append(@, buffer[c][Len(buffer[c])])]
    /\ buffer' = [buffer EXCEPT ![c] = SubSeq(@, 1, Len(@) - 1)]

\* The receive takes the oldest event of the channel.
WriteHead(c) ==
    /\ out' = [out EXCEPT ![c] = Append(@, Head(buffer[c]))]
    /\ buffer' = [buffer EXCEPT ![c] = Tail(@)]

\* Faulty variant: the number to drain is taken before the first receive.
TakeEarly(c) ==
    /\ wpc[c] = "select" /\ buffer[c] # <<>>
    /\ \/ /\ up[c] /\ WriteHead(c)
          /\ wpc' = [wpc EXCEPT ![c] = "drain"]
          /\ left' = [left EXCEPT ![c] = Len(buffer[c])]
       \/ ~up[c] /\ WriterEnds(c)
    /\ UNCHANGED <<status, user, room, up, failures, stuck, handlerVars>>

\* Receive and write one message.
Take(c) ==
    /\ wpc[c] = "select" /\ buffer[c] # <<>>
    /\ \/ /\ up[c] /\ WriteHead(c)
          /\ wpc' = [wpc EXCEPT ![c] = "count"]
          /\ UNCHANGED left
       \/ ~up[c] /\ WriterEnds(c)
    /\ UNCHANGED <<status, user, room, up, failures, stuck, handlerVars>>

\* n := len(c.send): what has been queued during the write.
Count(c) ==
    /\ wpc[c] = "count"
    /\ left' = [left EXCEPT ![c] = Len(buffer[c])]
    /\ wpc' = [wpc EXCEPT ![c] = IF buffer[c] = <<>> THEN "select" ELSE "drain"]
    /\ UNCHANGED <<status, user, room, up, buffer, failures, stuck, out, handlerVars>>

\* for range n: receive and write; blocks on an empty channel.
Drain(c) ==
    /\ wpc[c] = "drain" /\ buffer[c] # <<>>
    /\ \/ /\ up[c] /\ WriteHead(c)
          /\ left' = [left EXCEPT ![c] = @ - 1]
          /\ wpc' = [wpc EXCEPT ![c] = IF left[c] = 1 THEN "select" ELSE "drain"]
       \/ ~up[c] /\ WriterEnds(c)
    /\ UNCHANGED <<status, user, room, up, failures, stuck, handlerVars>>

\* Faulty variant: no ping.
NoPing(c) == FALSE /\ UNCHANGED vars

\* The ticker: a ping on a closed connection ends the pump.
Ping(c) ==
    /\ wpc[c] = "select" /\ ~up[c]
    /\ WriterEnds(c)
    /\ UNCHANGED <<status, user, room, up, failures, stuck, handlerVars>>

\* A write times out (writeWait): the pump returns and closes the connection.
WriteError(c) ==
    /\ wpc[c] \in {"select", "drain"} /\ up[c]
    /\ up' = [up EXCEPT ![c] = FALSE]
    /\ WriterEnds(c)
    /\ UNCHANGED <<status, user, room, failures, stuck, handlerVars>>

-----------------------------------------------------------------------------
(* The surroundings. *)

\* The peer closes, or the read deadline passes.
Hangup(c) ==
    /\ up[c]
    /\ up' = [up EXCEPT ![c] = FALSE]
    /\ UNCHANGED <<status, user, room, buffer, failures, stuck, handlerVars, writerVars>>

\* The process exits: http.Server.Shutdown does not wait for upgraded
\* connections, and no deferred call runs.
Exit ==
    /\ failures < MaxFailures
    /\ failures' = failures + 1
    /\ pc' = [c \in Conns |-> IF pc[c] = "new" THEN "new" ELSE "gone"]
    /\ wpc' = [c \in Conns |-> IF wpc[c] = "off" THEN "off" ELSE "ended"]
    /\ up' = [c \in Conns |-> FALSE]
    /\ room' = [h \in Chats |-> {}]
    /\ buffer' = [c \in Conns |-> <<>>]
    /\ todo' = [c \in Conns |-> {}] /\ event' = [c \in Conns |-> {}]
    /\ start' = [c \in Conns |-> {}] /\ seen' = [c \in Conns |-> {}]
    /\ left' = [c \in Conns |-> 0]
    /\ stuck' = {u \in Users : status[u] = "online"}
    /\ UNCHANGED <<status, user, chatIDs, sent, out>>

Handle(c) ==
    \/ Upgrade(c) \/ SetOnline(c) \/ Subscribe(c) \/ Run(c)
    \/ Visit(c) \/ RangeEnds(c)
    \/ ReadError(c) \/ Unsubscribe(c) \/ SetOffline(c)

Pump(c) == Take(c) \/ Count(c) \/ Drain(c) \/ Ping(c)

Next ==
    \/ \E c \in Conns : Handle(c) \/ Pump(c) \/ Read(c) \/ Hangup(c) \/ WriteError(c)
    \/ Exit

Spec == Init /\ [][Next]_vars

\* Goroutines run on; the ping ticker keeps ticking.
FairSpec == Spec /\ \A c \in Conns : WF_handlerVars(Handle(c)) /\ WF_writerVars(Pump(c))

-----------------------------------------------------------------------------
Received(c) == out[c] \o buffer[c]

\* The events that one connection has sent reach another in the order they
\* were read in and once, whatever the hub is iterating over and the write
\* pump is draining meanwhile; a full buffer may only leave gaps
\* (hub.go:49-63, client.go:104-125).
InOrder == \A c \in Conns :
    LET events == Received(c) IN
    \A i, j \in 1 .. Len(events) :
        i < j /\ events[i].from = events[j].from => events[i].n < events[j].n

\* The drain loop of the write pump never waits on an empty channel, although
\* it receives n times without a select (client.go:119-124).
DrainNeverBlocks == \A c \in Conns : wpc[c] = "drain" => left[c] <= Len(buffer[c])

\* A connection whose read pump has ended is in no room: the hub keeps no dead
\* clients (client.go:53-56).
NoGhosts == \A c \in Conns, h \in Chats :
    pc[c] \in {"new", "upgraded", "gone"} => c \notin room[h]

\* A user without a connection is offline, unless the last update was lost or
\* the process exited (handler.go:74-84).  Several connections of one user
\* come and go in any order.
LastOneOut == \A u \in Users :
    (\A c \in Conns : user[c] = u => pc[c] \in {"new", "upgraded", "gone"}) =>
        status[u] = "offline" \/ u \in stuck

\* A user shown offline although one of his connections is open has closed
\* another one, whose deferred SetOffline does not look at the first, or his
\* last status update was lost: no failed handshake, no connection that is
\* still open and nobody else takes him offline (handler.go:64-84).
OfflineHasCause == \A c \in Conns :
    pc[c] \in {"subscribe", "read", "broadcast", "unsubscribe"} /\ status[user[c]] = "offline" =>
        \/ user[c] \in stuck
        \/ \E d \in Conns : user[d] = user[c] /\ pc[d] = "gone" /\ wpc[d] # "off"

\* After a connection breaks, both its goroutines end, the write pump by its
\* next ping: nothing closes the send channel (client.go:98-134).
BothPumpsEnd == \A c \in Conns :
    (pc[c] # "new" /\ ~up[c] /\ wpc[c] # "off") ~> (pc[c] = "gone" /\ wpc[c] = "ended")

=============================================================================
