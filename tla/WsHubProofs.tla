----------------------------- MODULE WsHubProofs ----------------------------
(***************************************************************************)
(* Proofs about WsHub for any users, chats and connections, any size of    *)
(* the send buffer and any bounds on events and failures.                  *)
(***************************************************************************)
EXTENDS WsHub, TLAPS

\* What TypeOK leaves out.
MoreTypes ==
    /\ buffer \in [Conns -> Seq(Event)] /\ out \in [Conns -> Seq(Event)]
    /\ event \in [Conns -> SUBSET Event]
    /\ start \in [Conns -> SUBSET Conns] /\ seen \in [Conns -> SUBSET Conns]
    /\ failures \in Nat

\* The write pump has something to receive each time it drains.
Pumps == \A c \in Conns : wpc[c] = "drain" => left[c] >= 1 /\ left[c] <= Len(buffer[c])

\* A connection is in rooms of its snapshot only, and while its goroutine
\* cleans up only in those it still has to leave.
Rooms ==
    /\ \A c \in Conns, h \in Chats : c \in room[h] =>
          /\ h \in chatIDs[c]
          /\ pc[c] \in {"subscribe", "read", "broadcast", "unsubscribe"}
          /\ pc[c] = "unsubscribe" => h \in todo[c]
    /\ \A c \in Conns : pc[c] = "subscribe" => todo[c] \subseteq chatIDs[c]

\* The event of a broadcast is its connection's own, and was read before now.
Casts == \A c \in Conns :
    /\ pc[c] = "broadcast" => event[c] # {}
    /\ \A e, f \in event[c] : e = f
    /\ \A e \in event[c] : e.from = c /\ e.n <= sent

\* What d has received is older than the event of its sender's broadcast,
\* unless that one has visited d.
Fits(d, x) ==
    /\ x.n <= sent
    /\ \A e \in event[x.from] : x.n < e.n \/ (x.n = e.n /\ d \in seen[x.from])

Fitting == \A d \in Conns : \A i \in 1 .. Len(Received(d)) : Fits(d, Received(d)[i])

\* InOrder, written without the LET.
Ordered == \A d \in Conns : \A i, j \in 1 .. Len(Received(d)) :
    i < j /\ Received(d)[i].from = Received(d)[j].from => Received(d)[i].n < Received(d)[j].n

\* The write pump runs from the moment the read pump does.
Started == \A c \in Conns : pc[c] \in {"read", "broadcast", "unsubscribe"} => wpc[c] # "off"

HubInv ==
    /\ TypeOK /\ MoreTypes
    /\ Pumps /\ Started
    /\ Rooms /\ Casts /\ Fitting /\ Ordered
    /\ LastOneOut /\ OfflineHasCause

-----------------------------------------------------------------------------
LEMMA HubInitial == Init => HubInv
<1>1. Init => TypeOK /\ MoreTypes /\ Pumps
  BY BufferAssumption, EventAssumption DEF Init, TypeOK, MoreTypes, Pumps, Labels
<1>2. Init => Started /\ Rooms /\ Casts /\ LastOneOut /\ OfflineHasCause
  BY DEF Init, Started, Rooms, Casts, LastOneOut, OfflineHasCause
<1>3. Init => \A d \in Conns : Received(d) = <<>> /\ Len(Received(d)) = 0
  BY DEF Init, Received
<1>4. Init => Fitting /\ Ordered
  BY <1>3 DEF Fitting, Ordered
<1> QED  BY <1>1, <1>2, <1>4 DEF HubInv

\* The event of a broadcast.
LEMMA EventIs ==
    ASSUME HubInv, NEW c \in Conns, pc[c] = "broadcast"
    PROVE  EventOf(c) \in event[c] /\ EventOf(c) \in Event
<1>1. event[c] # {} /\ event[c] \subseteq Event
  BY DEF HubInv, Casts, MoreTypes
<1>2. EventOf(c) \in event[c]
  BY <1>1 DEF EventOf
<1> QED  BY <1>1, <1>2

\* What the pump and its surroundings leave alone.
LEMMA PumpFrame ==
    ASSUME NEW c \in Conns, Pump(c) \/ WriteError(c) \/ Hangup(c)
    PROVE  UNCHANGED <<status, user, room, failures, stuck,
                       chatIDs, pc, todo, event, start, seen, sent>>
BY DEF Pump, Take, Count, Drain, Ping, WriteError, Hangup, handlerVars, writerVars

\* What the handler goroutine leaves alone.
LEMMA HandlerFrame ==
    ASSUME NEW c \in Conns, Handle(c) \/ Read(c)
    PROVE  UNCHANGED <<user, out, left>> /\ (~Visit(c) => UNCHANGED buffer)
           /\ (~Run(c) => UNCHANGED wpc)
BY DEF Handle, Upgrade, SetOnline, Subscribe, Run, Read, Visit, RangeEnds, ReadError, Unsubscribe,
       SetOffline, writerVars

\* A status update, or its failure, keeps its variables typed.
LEMMA StatusTypes ==
    ASSUME TypeOK, MoreTypes, NEW c \in Conns, NEW value \in {"online", "offline"},
           SetStatus(c, value)
    PROVE  /\ status' \in [Users -> {"online", "offline"}] /\ stuck' \subseteq Users
           /\ failures' \in Nat
<1>0. status \in [Users -> {"online", "offline"}] /\ stuck \subseteq Users /\ failures \in Nat
  BY DEF TypeOK, MoreTypes
<1>1. [status EXCEPT ![user[c]] = value] \in [Users -> {"online", "offline"}]
  BY <1>0
<1>2. /\ stuck \ {user[c]} \subseteq Users /\ stuck \cup {user[c]} \subseteq Users
      /\ failures + 1 \in Nat
  BY <1>0 DEF TypeOK
<1> QED  BY <1>0, <1>1, <1>2 DEF SetStatus

\* Receiving from a channel and sending on one.
LEMMA HeadTypes ==
    ASSUME TypeOK, MoreTypes, NEW c \in Conns, buffer[c] # <<>>, WriteHead(c)
    PROVE  /\ out' \in [Conns -> Seq(Event)] /\ buffer' \in [Conns -> Seq(Event)]
           /\ \A d \in Conns \ {c} : buffer'[d] = buffer[d] /\ out'[d] = out[d]
           /\ Len(buffer'[c]) = Len(buffer[c]) - 1 /\ Len(buffer[c]) \in Nat
           /\ buffer'[c] = Tail(buffer[c]) /\ out'[c] = Append(out[c], Head(buffer[c]))
<1>1. buffer[c] \in Seq(Event) /\ out[c] \in Seq(Event)
  BY DEF MoreTypes
<1>2. Head(buffer[c]) \in Event /\ Tail(buffer[c]) \in Seq(Event)
      /\ Len(Tail(buffer[c])) = Len(buffer[c]) - 1 /\ Len(buffer[c]) \in Nat
  BY <1>1
<1>3. Append(out[c], Head(buffer[c])) \in Seq(Event)
  BY <1>1, <1>2
<1> QED  BY <1>2, <1>3 DEF WriteHead, MoreTypes

LEMMA EnqueueTypes ==
    ASSUME TypeOK, MoreTypes, NEW d \in Conns, NEW e \in Event, Enqueue(d, e)
    PROVE  /\ buffer' \in [Conns -> Seq(Event)]
           /\ \A k \in Conns : /\ Len(buffer'[k]) <= BufferSize
                               /\ Len(buffer[k]) <= Len(buffer'[k])
           /\ \A k \in Conns \ {d} : buffer'[k] = buffer[k]
           /\ buffer'[d] \in {buffer[d], Append(buffer[d], e)}
<1>1. buffer[d] \in Seq(Event) /\ BufferSize \in Nat /\ \A k \in Conns : Len(buffer[k]) \in Nat
  BY BufferAssumption DEF MoreTypes
<1>2. CASE Len(buffer[d]) < BufferSize
  <2>1. buffer' = [buffer EXCEPT ![d] = Append(buffer[d], e)]
    BY <1>2 DEF Enqueue
  <2>2. /\ Append(buffer[d], e) \in Seq(Event)
        /\ Len(Append(buffer[d], e)) = Len(buffer[d]) + 1
    BY <1>1
  <2>3. /\ buffer' \in [Conns -> Seq(Event)] /\ buffer'[d] = Append(buffer[d], e)
        /\ \A k \in Conns \ {d} : buffer'[k] = buffer[k]
    BY <2>1, <2>2 DEF MoreTypes
  <2>4. ASSUME NEW k \in Conns
        PROVE  Len(buffer'[k]) <= BufferSize /\ Len(buffer[k]) <= Len(buffer'[k])
    <3>1. CASE k = d
      BY <1>1, <1>2, <2>2, <2>3, <3>1
    <3>2. CASE k # d
      BY <1>1, <2>3, <3>2 DEF TypeOK
    <3> QED  BY <3>1, <3>2
  <2> QED  BY <2>3, <2>4
<1>3. CASE ~(Len(buffer[d]) < BufferSize)
  <2>1. buffer' = buffer
    BY <1>3 DEF Enqueue
  <2> QED  BY <1>1, <2>1 DEF MoreTypes, TypeOK
<1> QED  BY <1>2, <1>3

\* The handler's steps keep the types.
LEMMA HandlerTypes ==
    ASSUME HubInv, NEW c \in Conns, Handle(c) \/ Read(c)
    PROVE  TypeOK' /\ MoreTypes'
<1>0. TypeOK /\ MoreTypes
  BY DEF HubInv
<1> USE DEF TypeOK, MoreTypes, Labels
<1>1. CASE Upgrade(c)
  <2>1. UNCHANGED <<status, user, room, buffer, failures, stuck, todo, event, start, seen, sent,
                    wpc, left, out>>
    BY <1>1 DEF Upgrade, writerVars
  <2>2. pc' \in [Conns -> Labels]
    BY <1>0, <1>1 DEF Upgrade, Goto
  <2>3. chatIDs' \in [Conns -> SUBSET Chats]
    BY <1>0, <1>1 DEF Upgrade
  <2>4. up' \in [Conns -> BOOLEAN]
    <3>1. up \in [Conns -> BOOLEAN] /\ [up EXCEPT ![c] = TRUE] \in [Conns -> BOOLEAN]
      BY <1>0, Zenon
    <3> QED  BY <1>1, <3>1 DEF Upgrade
  <2> QED  BY <1>0, <2>1, <2>2, <2>3, <2>4
<1>2. CASE SetOnline(c)
  <2>1. status' \in [Users -> {"online", "offline"}] /\ stuck' \subseteq Users /\ failures' \in Nat
    BY <1>0, <1>2, StatusTypes DEF SetOnline
  <2> QED  BY <1>0, <1>2, <2>1 DEF SetOnline, Goto, writerVars
<1>3. CASE Subscribe(c)
  BY <1>0, <1>3 DEF Subscribe, writerVars
<1>4. CASE Run(c)
  BY <1>0, <1>4 DEF Run, Goto
<1>5. CASE Read(c)
  <2>1. sent' = sent + 1 /\ sent' \in 1 .. MaxEvents /\ sent' \in 0 .. MaxEvents
    BY <1>0, <1>5, EventAssumption DEF Read
  <2>2. PICK h \in chatIDs[c] :
          /\ event' = [event EXCEPT ![c] = {[from |-> c, chat |-> h, n |-> sent']}]
          /\ start' = [start EXCEPT ![c] = room[h]]
          /\ seen' = [seen EXCEPT ![c] = {}]
    BY <1>5 DEF Read
  <2>3. h \in Chats /\ [from |-> c, chat |-> h, n |-> sent'] \in Event
    BY <1>0, <2>1 DEF Event
  <2>4. event' \in [Conns -> SUBSET Event]
    BY <1>0, <2>2, <2>3
  <2>5. start' \in [Conns -> SUBSET Conns] /\ seen' \in [Conns -> SUBSET Conns]
    BY <1>0, <2>2, <2>3
  <2> QED  BY <1>0, <1>5, <2>1, <2>4, <2>5 DEF Read, Goto, writerVars
<1>6. CASE Visit(c)
  <2>1. EventOf(c) \in Event
    BY <1>6, EventIs DEF Visit
  <2>2. PICK d \in (start[c] \cup room[EventOf(c).chat]) \ seen[c] :
          /\ seen' = [seen EXCEPT ![c] = @ \cup {d}]
          /\ IF Skip(c, d) THEN UNCHANGED buffer ELSE Enqueue(d, EventOf(c))
    BY <1>6 DEF Visit
  <2>3. d \in Conns
    BY <1>0, <2>1, <2>2 DEF Event
  <2>4. seen' \in [Conns -> SUBSET Conns]
    BY <1>0, <2>2, <2>3
  <2>5. buffer' \in [Conns -> Seq(Event)] /\ \A k \in Conns : Len(buffer'[k]) <= BufferSize
    BY <1>0, <2>1, <2>2, <2>3, EnqueueTypes
  <2> QED  BY <1>0, <1>6, <2>4, <2>5 DEF Visit, writerVars
<1>7. CASE RangeEnds(c)
  BY <1>0, <1>7 DEF RangeEnds, Goto, writerVars
<1>8. CASE ReadError(c)
  BY <1>0, <1>8 DEF ReadError, Goto, writerVars
<1>9. CASE Unsubscribe(c)
  BY <1>0, <1>9 DEF Unsubscribe, writerVars
<1>10. CASE SetOffline(c)
  <2>1. status' \in [Users -> {"online", "offline"}] /\ stuck' \subseteq Users /\ failures' \in Nat
    BY <1>0, <1>10, StatusTypes DEF SetOffline
  <2> QED  BY <1>0, <1>10, <2>1 DEF SetOffline, Goto, writerVars
<1> QED  BY <1>1, <1>2, <1>3, <1>4, <1>5, <1>6, <1>7, <1>8, <1>9, <1>10 DEF Handle

\* The write pump's steps keep the types, and what it counts on.
LEMMA PumpTypes ==
    ASSUME HubInv, NEW c \in Conns, Pump(c) \/ WriteError(c) \/ Hangup(c)
    PROVE  TypeOK' /\ MoreTypes' /\ Pumps'
<1>0. TypeOK /\ MoreTypes /\ Pumps /\ BufferSize \in Nat
  BY BufferAssumption DEF HubInv
<1>1. UNCHANGED <<status, user, room, failures, stuck, chatIDs, pc, todo, event, start, seen, sent>>
  BY PumpFrame
<1>2. up' \in [Conns -> BOOLEAN]
  <2>1. up \in [Conns -> BOOLEAN] /\ [up EXCEPT ![c] = FALSE] \in [Conns -> BOOLEAN]
    BY <1>0, Zenon DEF TypeOK
  <2> QED  BY <2>1 DEF Pump, Take, Count, Drain, Ping, WriteError, Hangup
<1>s. SUFFICES /\ wpc' \in [Conns -> {"off", "select", "count", "drain", "ended"}]
               /\ left' \in [Conns -> 0 .. BufferSize]
               /\ buffer' \in [Conns -> Seq(Event)] /\ out' \in [Conns -> Seq(Event)]
               /\ \A d \in Conns : Len(buffer'[d]) <= BufferSize
               /\ Pumps'
  BY <1>0, <1>1, <1>2 DEF TypeOK, MoreTypes
<1>b. \A d \in Conns : Len(buffer[d]) \in Nat /\ Len(buffer[d]) <= BufferSize
  BY <1>0 DEF TypeOK, MoreTypes
<1>k. \A d \in Conns \ {c} : wpc'[d] = wpc[d] /\ left'[d] = left[d] /\ buffer'[d] = buffer[d]
  BY <1>0 DEF Pump, Take, Count, Drain, Ping, WriteError, Hangup, WriterEnds, WriteHead, writerVars,
              TypeOK, MoreTypes
<1>p. ASSUME wpc'[c] = "drain" => left'[c] >= 1 /\ left'[c] <= Len(buffer'[c])
      PROVE  Pumps'
  BY <1>0, <1>k, <1>p DEF Pumps
<1>3. CASE WriterEnds(c)
  <2>1. /\ wpc' \in [Conns -> {"off", "select", "count", "drain", "ended"}]
        /\ left' \in [Conns -> 0 .. BufferSize] /\ wpc'[c] = "ended" /\ UNCHANGED <<out, buffer>>
    BY <1>0, <1>3 DEF WriterEnds, TypeOK
  <2> QED  BY <1>0, <1>b, <1>p, <2>1 DEF MoreTypes
<1>4. CASE Hangup(c)
  <2>1. UNCHANGED <<wpc, left, out, buffer>>
    BY <1>4 DEF Hangup, writerVars
  <2> QED  BY <1>0, <1>b, <2>1 DEF TypeOK, MoreTypes, Pumps
<1>5. ASSUME buffer[c] # <<>>, WriteHead(c)
      PROVE  /\ buffer' \in [Conns -> Seq(Event)] /\ out' \in [Conns -> Seq(Event)]
             /\ \A d \in Conns : Len(buffer'[d]) <= BufferSize
             /\ Len(buffer'[c]) = Len(buffer[c]) - 1
  <2>1. /\ buffer' \in [Conns -> Seq(Event)] /\ out' \in [Conns -> Seq(Event)]
        /\ \A d \in Conns \ {c} : buffer'[d] = buffer[d]
        /\ Len(buffer'[c]) = Len(buffer[c]) - 1
    BY <1>0, <1>5, HeadTypes
  <2>2. Len(buffer'[c]) <= BufferSize
    BY <1>0, <1>b, <2>1
  <2> QED  BY <1>b, <2>1, <2>2
<1>6. CASE Take(c) /\ ~WriterEnds(c)
  <2>1. WriteHead(c) /\ buffer[c] # <<>> /\ wpc' = [wpc EXCEPT ![c] = "count"] /\ left' = left
    BY <1>6 DEF Take
  <2>2. wpc' \in [Conns -> {"off", "select", "count", "drain", "ended"}] /\ wpc'[c] = "count"
        /\ left' \in [Conns -> 0 .. BufferSize]
    BY <1>0, <2>1 DEF TypeOK
  <2> QED  BY <1>5, <1>p, <2>1, <2>2
<1>7. CASE Count(c)
  <2>1. /\ left' = [left EXCEPT ![c] = Len(buffer[c])] /\ UNCHANGED <<buffer, out>>
        /\ wpc' = [wpc EXCEPT ![c] = IF buffer[c] = <<>> THEN "select" ELSE "drain"]
    BY <1>7 DEF Count
  <2>2. Len(buffer[c]) \in 0 .. BufferSize /\ (buffer[c] # <<>> => Len(buffer[c]) >= 1)
    <3>1. buffer[c] \in Seq(Event)
      BY <1>0 DEF MoreTypes
    <3> QED  BY <1>0, <1>b, <3>1
  <2>3. /\ wpc' \in [Conns -> {"off", "select", "count", "drain", "ended"}]
        /\ left' \in [Conns -> 0 .. BufferSize]
        /\ wpc'[c] = "drain" => left'[c] = Len(buffer[c]) /\ buffer[c] # <<>>
    BY <1>0, <2>1, <2>2 DEF TypeOK
  <2> QED  BY <1>0, <1>b, <1>p, <2>1, <2>2, <2>3 DEF MoreTypes
<1>8. CASE Drain(c) /\ ~WriterEnds(c)
  <2>1. /\ WriteHead(c) /\ buffer[c] # <<>> /\ wpc[c] = "drain"
        /\ left' = [left EXCEPT ![c] = left[c] - 1]
        /\ wpc' = [wpc EXCEPT ![c] = IF left[c] = 1 THEN "select" ELSE "drain"]
    BY <1>8 DEF Drain
  <2>2. left[c] \in 0 .. BufferSize /\ left[c] >= 1 /\ left[c] <= Len(buffer[c])
    BY <1>0, <2>1 DEF TypeOK, Pumps
  <2>3. left[c] - 1 \in 0 .. BufferSize /\ (left[c] # 1 => left[c] - 1 >= 1)
        /\ left[c] - 1 <= Len(buffer[c]) - 1
    BY <1>0, <1>b, <2>2
  <2>4. /\ wpc' \in [Conns -> {"off", "select", "count", "drain", "ended"}]
        /\ left' \in [Conns -> 0 .. BufferSize] /\ left'[c] = left[c] - 1
        /\ wpc'[c] = "drain" => left[c] # 1
    BY <1>0, <2>1, <2>3 DEF TypeOK
  <2> QED  BY <1>5, <1>p, <2>1, <2>3, <2>4
<1> QED  BY <1>3, <1>4, <1>6, <1>7, <1>8 DEF Pump, Take, Drain, Ping, WriteError

\* The handler's steps never take anything away from what the pump counts on.
LEMMA HandlerPumps ==
    ASSUME HubInv, NEW c \in Conns, Handle(c) \/ Read(c)
    PROVE  Pumps'
<1>0. TypeOK /\ MoreTypes /\ Pumps
  BY DEF HubInv
<1>1. UNCHANGED left /\ \A d \in Conns : wpc'[d] = "drain" => wpc[d] = "drain"
  BY <1>0 DEF Handle, Upgrade, SetOnline, Subscribe, Run, Read, Visit, RangeEnds, ReadError,
              Unsubscribe, SetOffline, writerVars, TypeOK
<1>2. \A d \in Conns : Len(buffer[d]) <= Len(buffer'[d]) /\ Len(buffer[d]) \in Nat /\ Len(buffer'[d]) \in Nat
  <2>0. \A d \in Conns : Len(buffer[d]) \in Nat
    BY <1>0 DEF MoreTypes
  <2>1. CASE UNCHANGED buffer
    BY <2>0, <2>1
  <2>2. CASE Visit(c) /\ ~UNCHANGED buffer
    <3>1. EventOf(c) \in Event
      BY <2>2, EventIs DEF Visit
    <3>2. PICK d \in (start[c] \cup room[EventOf(c).chat]) \ seen[c] : Enqueue(d, EventOf(c))
      BY <2>2 DEF Visit
    <3>3. d \in Conns
      BY <1>0, <3>1, <3>2 DEF Event, TypeOK, MoreTypes
    <3>4. buffer' \in [Conns -> Seq(Event)] /\ \A k \in Conns : Len(buffer[k]) <= Len(buffer'[k])
      BY <1>0, <3>1, <3>2, <3>3, EnqueueTypes
    <3> QED  BY <2>0, <3>4
  <2> QED  BY <2>1, <2>2, HandlerFrame
<1>3. \A d \in Conns : left[d] \in Nat
  BY <1>0, BufferAssumption DEF TypeOK
<1>4. ASSUME NEW d \in Conns, wpc'[d] = "drain"
      PROVE  left'[d] >= 1 /\ left'[d] <= Len(buffer'[d])
  <2>1. left[d] >= 1 /\ left[d] <= Len(buffer[d]) /\ left'[d] = left[d]
    BY <1>0, <1>1, <1>4 DEF Pumps
  <2> QED  BY <1>2, <1>3, <2>1
<1> QED  BY <1>4 DEF Pumps

-----------------------------------------------------------------------------
(* Rooms and broadcasts. *)

\* Connections enter and leave the rooms of their snapshot only.
LEMMA HandlerRooms ==
    ASSUME HubInv, NEW c \in Conns, Handle(c) \/ Read(c)
    PROVE  Rooms'
<1>0. TypeOK /\ Rooms
  BY DEF HubInv
<1> USE DEF TypeOK, Rooms
<1>1. CASE Upgrade(c)
  <2>1. UNCHANGED <<room, todo>> /\ pc[c] = "new" /\ pc'[c] # "subscribe"
        /\ \A d \in Conns \ {c} : pc'[d] = pc[d] /\ chatIDs'[d] = chatIDs[d]
    BY <1>0, <1>1 DEF Upgrade, Goto
  <2>2. \A h \in Chats : c \notin room[h]
    BY <1>0, <2>1
  <2> QED  BY <1>0, <2>1, <2>2
<1>2. CASE SetOnline(c)
  <2>1. UNCHANGED <<room, chatIDs>> /\ pc[c] = "upgraded" /\ todo'[c] = chatIDs[c]
        /\ \A d \in Conns \ {c} : pc'[d] = pc[d] /\ todo'[d] = todo[d]
    BY <1>0, <1>2 DEF SetOnline, Goto
  <2>2. \A h \in Chats : c \notin room[h]
    BY <1>0, <2>1
  <2> QED  BY <1>0, <2>1, <2>2
<1>3. CASE Subscribe(c)
  <2>1. PICK h \in todo[c] : /\ room' = [room EXCEPT ![h] = @ \cup {c}]
                             /\ todo' = [todo EXCEPT ![c] = @ \ {h}]
    BY <1>3 DEF Subscribe
  <2>2. UNCHANGED <<chatIDs, pc>> /\ pc[c] = "subscribe" /\ h \in chatIDs[c]
    BY <1>0, <1>3 DEF Subscribe
  <2>3. \A d \in Conns, k \in Chats : d \in room'[k] => d \in room[k] \/ (d = c /\ k = h)
    BY <1>0, <2>1
  <2>4. todo'[c] \subseteq todo[c] /\ \A d \in Conns \ {c} : todo'[d] = todo[d]
    BY <1>0, <2>1
  <2> QED  BY <1>0, <2>2, <2>3, <2>4
<1>4. CASE Unsubscribe(c)
  <2>1. PICK h \in todo[c] : /\ room' = [room EXCEPT ![h] = @ \ {c}]
                             /\ todo' = [todo EXCEPT ![c] = @ \ {h}]
    BY <1>4 DEF Unsubscribe
  <2>2. UNCHANGED <<chatIDs, pc>> /\ pc[c] = "unsubscribe"
    BY <1>0, <1>4 DEF Unsubscribe
  <2>3. \A d \in Conns, k \in Chats : d \in room'[k] => d \in room[k] /\ (d = c => k # h)
    BY <1>0, <2>1
  <2>4. todo'[c] = todo[c] \ {h} /\ \A d \in Conns \ {c} : todo'[d] = todo[d]
    BY <1>0, <2>1
  <2> QED  BY <1>0, <2>2, <2>3, <2>4
<1>5. CASE SetOffline(c)
  <2>1. UNCHANGED <<room, chatIDs, todo>> /\ pc[c] = "unsubscribe" /\ todo[c] = {} /\ pc'[c] = "gone"
        /\ \A d \in Conns \ {c} : pc'[d] = pc[d]
    BY <1>0, <1>5 DEF SetOffline, Goto
  <2>2. \A h \in Chats : c \notin room[h]
    BY <1>0, <2>1
  <2> QED  BY <1>0, <2>1, <2>2
<1>6. CASE ReadError(c)
  <2>1. UNCHANGED <<room, chatIDs>> /\ pc'[c] = "unsubscribe" /\ todo'[c] = chatIDs[c]
        /\ \A d \in Conns \ {c} : pc'[d] = pc[d] /\ todo'[d] = todo[d]
    BY <1>0, <1>6 DEF ReadError, Goto
  <2> QED  BY <1>0, <2>1
<1>7. CASE Run(c) \/ Read(c) \/ Visit(c) \/ RangeEnds(c)
  <2>1. UNCHANGED <<room, chatIDs, todo>> /\ pc[c] \in {"subscribe", "read", "broadcast"}
        /\ pc'[c] \in {"read", "broadcast"} /\ \A d \in Conns \ {c} : pc'[d] = pc[d]
    BY <1>0, <1>7 DEF Run, Read, Visit, RangeEnds, Goto
  <2> QED  BY <1>0, <2>1
<1> QED  BY <1>1, <1>2, <1>3, <1>4, <1>5, <1>6, <1>7 DEF Handle

\* A broadcast stays what it was when its event was read.
LEMMA HandlerCasts ==
    ASSUME HubInv, NEW c \in Conns, Handle(c) \/ Read(c)
    PROVE  Casts'
<1>0. TypeOK /\ MoreTypes /\ Casts
  BY DEF HubInv
<1>1. \A d \in Conns : \A e \in event[d] : e.n \in Nat
  BY <1>0, EventAssumption DEF MoreTypes, Event
<1>2. sent \in Nat /\ sent' \in {sent, sent + 1}
  BY <1>0, EventAssumption DEF TypeOK, Handle, Upgrade, SetOnline, Subscribe, Run, Read, Visit,
       RangeEnds, ReadError, Unsubscribe, SetOffline
<1>3. ASSUME NEW d \in Conns, event'[d] = event[d], pc'[d] = "broadcast" => pc[d] = "broadcast"
      PROVE  /\ pc'[d] = "broadcast" => event'[d] # {}
             /\ \A e, f \in event'[d] : e = f
             /\ \A e \in event'[d] : e.from = d /\ e.n <= sent'
  <2>1. \A e \in event[d] : e.n <= sent'
    BY <1>0, <1>1, <1>2 DEF Casts
  <2> QED  BY <1>0, <1>3, <2>1 DEF Casts
<1>4. CASE ~Read(c) /\ ~RangeEnds(c)
  <2>1. UNCHANGED event /\ \A d \in Conns : pc'[d] = "broadcast" => pc[d] = "broadcast"
    BY <1>0, <1>4 DEF TypeOK, Handle, Upgrade, SetOnline, Subscribe, Run, Visit, ReadError,
         Unsubscribe, SetOffline, Goto
  <2> QED  BY <1>3, <2>1 DEF Casts
<1>5. CASE RangeEnds(c)
  <2>1. /\ event'[c] = {} /\ pc'[c] = "read"
        /\ \A d \in Conns \ {c} : event'[d] = event[d] /\ pc'[d] = pc[d]
    BY <1>0, <1>5 DEF TypeOK, MoreTypes, RangeEnds, Goto
  <2> QED  BY <1>3, <2>1 DEF Casts
<1>6. CASE Read(c)
  <2>1. PICK h \in chatIDs[c] :
          event' = [event EXCEPT ![c] = {[from |-> c, chat |-> h, n |-> sent']}]
    BY <1>6 DEF Read
  <2>2. /\ event'[c] = {[from |-> c, chat |-> h, n |-> sent']}
        /\ \A d \in Conns \ {c} : event'[d] = event[d] /\ pc'[d] = pc[d]
    BY <1>0, <1>6, <2>1 DEF TypeOK, MoreTypes, Read, Goto
  <2>3. sent' <= sent'
    BY <1>2
  <2>4. /\ event'[c] # {} /\ \A e, f \in event'[c] : e = f
        /\ \A e \in event'[c] : e.from = c /\ e.n <= sent'
    BY <2>2, <2>3
  <2> QED  BY <1>3, <2>2, <2>4 DEF Casts
<1> QED  BY <1>4, <1>5, <1>6

-----------------------------------------------------------------------------
(* What a connection has received. *)

LEMMA MoveHead ==
    ASSUME NEW S, NEW a \in Seq(S), NEW b \in Seq(S), b # <<>>
    PROVE  Append(a, Head(b)) \o Tail(b) = a \o b
OBVIOUS

LEMMA PutLast ==
    ASSUME NEW S, NEW a \in Seq(S), NEW b \in Seq(S), NEW e \in S
    PROVE  a \o Append(b, e) = Append(a \o b, e)
OBVIOUS

LEMMA Concatenated ==
    ASSUME NEW S, NEW a \in Seq(S), NEW b \in Seq(S)
    PROVE  /\ Len(a) \in Nat /\ Len(a \o b) \in Nat /\ Len(a) <= Len(a \o b)
           /\ \A i \in 1 .. Len(a) : (a \o b)[i] = a[i] /\ a[i] \in S
OBVIOUS

\* Writing moves an event from the channel to the connection.
LEMMA PumpReceived ==
    ASSUME HubInv, NEW c \in Conns, Pump(c) \/ WriteError(c) \/ Hangup(c)
    PROVE  \A d \in Conns : Received(d)' = Received(d)
<1>0. TypeOK /\ MoreTypes
  BY DEF HubInv
<1>1. CASE UNCHANGED <<out, buffer>>
  BY <1>1 DEF Received
<1>2. CASE buffer[c] # <<>> /\ WriteHead(c)
  <2>1. /\ \A d \in Conns \ {c} : buffer'[d] = buffer[d] /\ out'[d] = out[d]
        /\ buffer'[c] = Tail(buffer[c]) /\ out'[c] = Append(out[c], Head(buffer[c]))
    BY <1>0, <1>2, HeadTypes
  <2>2. Append(out[c], Head(buffer[c])) \o Tail(buffer[c]) = out[c] \o buffer[c]
    <3>1. out[c] \in Seq(Event) /\ buffer[c] \in Seq(Event)
      BY <1>0 DEF MoreTypes
    <3> QED  BY <1>2, <3>1, MoveHead
  <2> QED  BY <2>1, <2>2 DEF Received
<1> QED
  BY <1>1, <1>2 DEF Pump, Take, Count, Drain, Ping, WriteError, Hangup, WriterEnds, writerVars

LEMMA ReceivedTyped ==
    ASSUME MoreTypes, NEW d \in Conns
    PROVE  /\ Received(d) \in Seq(Event) /\ Len(Received(d)) \in Nat
           /\ \A i \in 1 .. Len(Received(d)) : Received(d)[i] \in Event
<1>1. out[d] \in Seq(Event) /\ buffer[d] \in Seq(Event)
  BY DEF MoreTypes
<1>2. Received(d) \in Seq(Event)
  BY <1>1 DEF Received
<1> QED  BY <1>2

\* One step of a broadcast gives at most one connection one event.
LEMMA VisitGives ==
    ASSUME HubInv, NEW c \in Conns, Visit(c)
    PROVE  \E d \in Conns :
              /\ d \in start[c] \cup room[EventOf(c).chat] /\ d \notin seen[c]
              /\ seen'[c] = seen[c] \cup {d} /\ \A k \in Conns \ {c} : seen'[k] = seen[k]
              /\ \A k \in Conns \ {d} : Received(k)' = Received(k)
              /\ \/ Received(d)' = Received(d)
                 \/ Received(d)' = Append(Received(d), EventOf(c))
<1>0. TypeOK /\ MoreTypes
  BY DEF HubInv
<1>1. EventOf(c) \in Event
  BY EventIs DEF Visit
<1>2. PICK d \in (start[c] \cup room[EventOf(c).chat]) \ seen[c] :
        /\ seen' = [seen EXCEPT ![c] = @ \cup {d}]
        /\ IF Skip(c, d) THEN UNCHANGED buffer ELSE Enqueue(d, EventOf(c))
  BY DEF Visit
<1>3. d \in Conns
  BY <1>0, <1>1, <1>2 DEF Event, TypeOK, MoreTypes
<1>4. seen'[c] = seen[c] \cup {d} /\ \A k \in Conns \ {c} : seen'[k] = seen[k]
  BY <1>0, <1>2 DEF MoreTypes
<1>5. out' = out
  BY DEF Visit, writerVars
<1>6. CASE UNCHANGED buffer
  <2>1. \A k \in Conns : Received(k)' = Received(k)
    BY <1>5, <1>6 DEF Received
  <2> QED  BY <1>2, <1>3, <1>4, <2>1
<1>7. CASE Enqueue(d, EventOf(c))
  <2>1. /\ \A k \in Conns \ {d} : buffer'[k] = buffer[k]
        /\ buffer'[d] \in {buffer[d], Append(buffer[d], EventOf(c))}
    BY <1>0, <1>1, <1>3, <1>7, EnqueueTypes
  <2>2. out[d] \o Append(buffer[d], EventOf(c)) = Append(out[d] \o buffer[d], EventOf(c))
    <3>1. out[d] \in Seq(Event) /\ buffer[d] \in Seq(Event)
      BY <1>0, <1>3 DEF MoreTypes
    <3>2. \A a, b \in Seq(Event) : a \o Append(b, EventOf(c)) = Append(a \o b, EventOf(c))
      BY <1>1, PutLast
    <3> QED  BY <3>1, <3>2, Zenon
  <2>3. Received(d)' \in {Received(d), Append(Received(d), EventOf(c))}
    BY <1>5, <2>1, <2>2 DEF Received
  <2>4. \A k \in Conns \ {d} : Received(k)' = Received(k)
    BY <1>5, <2>1 DEF Received
  <2> QED  BY <1>2, <1>3, <1>4, <2>3, <2>4
<1> QED  BY <1>2, <1>6, <1>7

\* What has been received stays fit, whatever the handler does.
LEMMA HandlerFits ==
    ASSUME HubInv, NEW c \in Conns, Handle(c) \/ Read(c), NEW d \in Conns, NEW x \in Event, Fits(d, x)
    PROVE  Fits(d, x)'
<1>0. TypeOK /\ MoreTypes /\ Casts
  BY DEF HubInv
<1>1. x.from \in Conns /\ x.n \in Nat
  BY EventAssumption DEF Event
<1>2. sent \in Nat /\ sent' \in {sent, sent + 1}
  BY <1>0, EventAssumption DEF TypeOK, Handle, Upgrade, SetOnline, Subscribe, Run, Read, Visit,
       RangeEnds, ReadError, Unsubscribe, SetOffline
<1>3. x.n <= sent'
  BY <1>1, <1>2 DEF Fits
<1>4. \A e \in event'[x.from] : x.n < e.n \/ (x.n = e.n /\ d \in seen'[x.from])
  <2>1. CASE Read(c)
    <3>1. /\ sent' = sent + 1 /\ \A e \in event'[c] : e.n = sent'
          /\ \A k \in Conns \ {c} : event'[k] = event[k] /\ seen'[k] = seen[k]
      BY <1>0, <2>1 DEF Read, MoreTypes
    <3>2. CASE x.from = c
      BY <1>1, <1>2, <3>1, <3>2 DEF Fits
    <3>3. CASE x.from # c
      BY <1>1, <3>1, <3>3 DEF Fits
    <3> QED  BY <3>2, <3>3
  <2>2. CASE RangeEnds(c)
    <3>1. /\ event'[c] = {}
          /\ \A k \in Conns \ {c} : event'[k] = event[k] /\ seen'[k] = seen[k]
      BY <1>0, <2>2 DEF RangeEnds, MoreTypes
    <3> QED  BY <1>1, <3>1 DEF Fits
  <2>3. CASE Visit(c)
    <3>1. UNCHANGED event /\ \A k \in Conns : seen[k] \subseteq seen'[k]
      BY <2>3, VisitGives DEF Visit
    <3> QED  BY <1>1, <3>1 DEF Fits
  <2>4. CASE ~Read(c) /\ ~RangeEnds(c) /\ ~Visit(c)
    <3>1. UNCHANGED <<event, seen>>
      BY <2>4 DEF Handle, Upgrade, SetOnline, Subscribe, Run, ReadError, Unsubscribe, SetOffline
    <3> QED  BY <1>1, <3>1 DEF Fits
  <2> QED  BY <2>1, <2>2, <2>3, <2>4
<1> QED  BY <1>3, <1>4 DEF Fits

\* The handler's steps keep what is received fit and in order.
LEMMA HandlerReceived ==
    ASSUME HubInv, NEW c \in Conns, Handle(c) \/ Read(c)
    PROVE  Fitting' /\ Ordered'
<1>0. TypeOK /\ MoreTypes /\ Fitting /\ Ordered /\ Casts
  BY DEF HubInv
<1>t. \A k \in Conns : /\ Received(k) \in Seq(Event) /\ Len(Received(k)) \in Nat
                       /\ \A i \in 1 .. Len(Received(k)) : Received(k)[i] \in Event
  BY <1>0, ReceivedTyped
<1>k. ASSUME NEW k \in Conns, Received(k)' = Received(k)
      PROVE  /\ \A i \in 1 .. Len(Received(k)') : Fits(k, Received(k)[i])'
             /\ \A i, j \in 1 .. Len(Received(k)') :
                   i < j /\ Received(k)'[i].from = Received(k)'[j].from
                      => Received(k)'[i].n < Received(k)'[j].n
  <2>1. ASSUME NEW i \in 1 .. Len(Received(k))
        PROVE  Fits(k, Received(k)[i])'
    <3> DEFINE x == Received(k)[i]
    <3>1. x \in Event /\ Fits(k, x)
      BY <1>0, <1>t DEF Fitting
    <3>2. x' = x
      BY <1>k
    <3>3. \A y \in Event : Fits(k, y) => Fits(k, y)'
      BY HandlerFits
    <3> QED  BY <3>1, <3>2, <3>3
  <2> QED  BY <1>0, <1>k, <2>1 DEF Ordered
<1>1. CASE ~Visit(c)
  <2>1. \A k \in Conns : Received(k)' = Received(k)
    BY <1>1, HandlerFrame DEF Received
  <2> QED  BY <1>k, <2>1 DEF Fitting, Ordered
<1>2. CASE Visit(c)
  <2> DEFINE e == EventOf(c)
  <2>1. PICK d \in Conns :
          /\ d \in start[c] \cup room[e.chat] /\ d \notin seen[c]
          /\ seen'[c] = seen[c] \cup {d}
          /\ \A k \in Conns \ {d} : Received(k)' = Received(k)
          /\ \/ Received(d)' = Received(d)
             \/ Received(d)' = Append(Received(d), e)
    BY <1>2, VisitGives
  <2>2. CASE Received(d)' = Received(d)
    BY <1>k, <2>1, <2>2 DEF Fitting, Ordered
  <2>3. CASE Received(d)' = Append(Received(d), e)
    <3> DEFINE R == Received(d)
    <3>1. e \in event[c] /\ e \in Event /\ e.from = c /\ e.n \in Nat /\ e.n <= sent
      BY <1>0, <1>2, EventIs, EventAssumption DEF Visit, Casts, Event
    <3>2. UNCHANGED <<event, sent>>
      BY <1>2 DEF Visit
    <3>4. \A f \in event[c] : f = e
      BY <1>0, <3>1 DEF Casts
    <3>5. ASSUME NEW y, y = e
          PROVE  Fits(d, y)'
      BY <2>1, <3>1, <3>2, <3>4, <3>5 DEF Fits
    <3>6. /\ Len(Append(R, e)) = Len(R) + 1 /\ Append(R, e)[Len(R) + 1] = e
          /\ \A i \in 1 .. Len(R) : Append(R, e)[i] = R[i]
      BY <1>t, <3>1
    <3>7. \A i \in 1 .. Len(R) : R[i].from = c => R[i].n < e.n
      BY <1>0, <2>1, <3>1 DEF Fitting, Fits
    <3>8. ASSUME NEW i \in 1 .. Len(Append(R, e))
          PROVE  Fits(d, Received(d)[i])'
      <4>0. \A y \in Event : Fits(d, y) => Fits(d, y)'
        BY HandlerFits
      <4>1. CASE i \in 1 .. Len(R)
        <5>1. R[i] \in Event /\ Fits(d, R[i])
          BY <1>0, <1>t, <4>1 DEF Fitting
        <5>2. PICK y \in Event : y = R[i]
          BY <5>1
        <5>3. Fits(d, y)' /\ (Received(d)[i])' = y
          BY <2>3, <3>6, <4>0, <4>1, <5>1, <5>2
        <5> QED  BY <5>3 DEF Fits
      <4>2. CASE i = Len(R) + 1
        <5>1. PICK y \in Event : y = e
          BY <3>1
        <5>2. Fits(d, y)' /\ (Received(d)[i])' = y
          BY <2>3, <3>5, <3>6, <4>2, <5>1
        <5> QED  BY <5>2 DEF Fits
      <4>3. Len(R) \in Nat
        BY <1>t
      <4> QED  BY <3>6, <4>1, <4>2, <4>3
    <3>9. ASSUME NEW i \in 1 .. Len(Append(R, e)), NEW j \in 1 .. Len(Append(R, e)),
                 i < j, Append(R, e)[i].from = Append(R, e)[j].from
          PROVE  Append(R, e)[i].n < Append(R, e)[j].n
      <4>1. i \in 1 .. Len(R) /\ (j \in 1 .. Len(R) \/ j = Len(R) + 1)
        BY <1>t, <3>6, <3>9
      <4>2. CASE j \in 1 .. Len(R)
        BY <1>0, <3>6, <3>9, <4>1, <4>2 DEF Ordered
      <4>3. CASE j = Len(R) + 1
        BY <3>1, <3>6, <3>7, <3>9, <4>1, <4>3
      <4> QED  BY <4>1, <4>2, <4>3
    <3>10. Fitting'
      BY <1>k, <2>1, <2>3, <3>8 DEF Fitting
    <3>11. Ordered'
      BY <1>k, <2>1, <2>3, <3>9 DEF Ordered
    <3> QED  BY <3>10, <3>11
  <2> QED  BY <2>1, <2>2, <2>3
<1> QED  BY <1>1, <1>2

-----------------------------------------------------------------------------
(* Status, and the exit of the process. *)

\* Whoever is last to leave sets the user offline, or the user is stuck.
LEMMA HandlerStatus ==
    ASSUME HubInv, NEW c \in Conns, Handle(c) \/ Read(c)
    PROVE  LastOneOut'
<1>0. TypeOK /\ LastOneOut
  BY DEF HubInv
<1> DEFINE Idle == {"new", "upgraded", "gone"}
<1>1. user' = user /\ \A d \in Conns \ {c} : pc'[d] = pc[d]
  BY <1>0 DEF TypeOK, Handle, Upgrade, SetOnline, Subscribe, Run, Read, Visit, RangeEnds, ReadError,
              Unsubscribe, SetOffline, Goto
<1>2. CASE SetOnline(c) \/ SetOffline(c)
  <2>1. \A u \in Users \ {user[c]} : status'[u] = status[u] /\ (u \in stuck => u \in stuck')
    BY <1>0, <1>2 DEF TypeOK, SetOnline, SetOffline, SetStatus
  <2>2. SetOnline(c) => pc'[c] = "subscribe"
    BY <1>0 DEF TypeOK, SetOnline, Goto
  <2>3. SetOffline(c) => status'[user[c]] = "offline" \/ user[c] \in stuck'
    BY <1>0 DEF TypeOK, SetOffline, SetStatus
  <2>4. ASSUME NEW u \in Users, \A d \in Conns : user[d] = u => pc'[d] \in Idle
        PROVE  status'[u] = "offline" \/ u \in stuck'
    <3>1. CASE u = user[c]
      BY <1>2, <2>2, <2>3, <2>4, <3>1
    <3>2. CASE u # user[c]
      <4>1. \A d \in Conns : user[d] = u => pc[d] \in Idle
        BY <1>1, <2>4, <3>2
      <4> QED  BY <1>0, <2>1, <3>2, <4>1 DEF LastOneOut
    <3> QED  BY <3>1, <3>2
  <2> QED  BY <1>1, <2>4 DEF LastOneOut
<1>3. CASE ~SetOnline(c) /\ ~SetOffline(c)
  <2>1. UNCHANGED <<status, stuck>>
    BY <1>3 DEF Handle, Upgrade, Subscribe, Run, Read, Visit, RangeEnds, ReadError, Unsubscribe
  <2>2. pc'[c] \in Idle => pc[c] \in Idle
    BY <1>0, <1>3 DEF TypeOK, Handle, Upgrade, Subscribe, Run, Read, Visit, RangeEnds, ReadError,
                      Unsubscribe, Goto
  <2>3. \A d \in Conns : pc'[d] \in Idle => pc[d] \in Idle
    BY <1>1, <2>2
  <2> QED  BY <1>0, <1>1, <2>1, <2>3 DEF LastOneOut
<1> QED  BY <1>2, <1>3

\* The read pump of a connection is never without its write pump.
LEMMA HandlerStarted ==
    ASSUME HubInv, NEW c \in Conns, Handle(c) \/ Read(c)
    PROVE  Started'
<1>0. TypeOK /\ Started
  BY DEF HubInv
<1>1. CASE Run(c)
  BY <1>0, <1>1 DEF TypeOK, Started, Run, Goto
<1>2. CASE ~Run(c)
  <2>1. UNCHANGED wpc
    BY <1>2, HandlerFrame
  <2> DEFINE Running == {"read", "broadcast", "unsubscribe"}
  <2>2. \A d \in Conns : pc'[d] \in Running => pc[d] \in Running
    BY <1>0, <1>2 DEF TypeOK, Handle, Upgrade, SetOnline, Subscribe, Read, Visit, RangeEnds,
         ReadError, Unsubscribe, SetOffline, Goto
  <2> QED  BY <1>0, <2>1, <2>2 DEF Started
<1> QED  BY <1>1, <1>2

\* Only a connection that closes, or a lost update, leaves its user offline
\* beside an open connection.
LEMMA HandlerOffline ==
    ASSUME HubInv, NEW c \in Conns, Handle(c) \/ Read(c)
    PROVE  OfflineHasCause'
<1>0. TypeOK /\ Started /\ OfflineHasCause
  BY DEF HubInv
<1> DEFINE Open == {"subscribe", "read", "broadcast", "unsubscribe"}
           Closed(d) == pc[d] = "gone" /\ wpc[d] # "off"
<1>1. user' = user /\ \A d \in Conns : user[d] \in Users
  BY <1>0, HandlerFrame DEF TypeOK
<1>2. \A d \in Conns : Closed(d) => Closed(d)'
  <2>1. \A d \in Conns : wpc[d] # "off" => wpc'[d] # "off"
    BY <1>0, HandlerFrame DEF TypeOK, Run
  <2>2. \A d \in Conns : pc[d] = "gone" => pc'[d] = "gone"
    BY <1>0 DEF TypeOK, Handle, Upgrade, SetOnline, Subscribe, Run, Read, Visit, RangeEnds,
         ReadError, Unsubscribe, SetOffline, Goto
  <2> QED  BY <2>1, <2>2
<1>3. CASE SetOnline(c) \/ SetOffline(c)
  <2>1. /\ \A u \in Users \ {user[c]} : status'[u] = status[u] /\ (u \in stuck => u \in stuck')
        /\ \A d \in Conns \ {c} : pc'[d] = pc[d]
    BY <1>0, <1>3 DEF TypeOK, SetOnline, SetOffline, SetStatus, Goto
  <2>2. SetOnline(c) => status'[user[c]] = "online" \/ user[c] \in stuck'
    BY <1>0 DEF TypeOK, SetOnline, SetStatus
  <2>3. SetOffline(c) => Closed(c)'
    <3>1. SetOffline(c) => wpc[c] # "off" /\ wpc' = wpc
      BY <1>0 DEF Started, SetOffline, writerVars
    <3>2. SetOffline(c) => pc'[c] = "gone"
      BY <1>0 DEF TypeOK, SetOffline, Goto
    <3> QED  BY <3>1, <3>2
  <2>4. ASSUME NEW d \in Conns, pc'[d] \in Open, status'[user[d]] = "offline"
        PROVE  user[d] \in stuck' \/ \E k \in Conns : user[k] = user[d] /\ Closed(k)'
    <3>1. CASE user[d] = user[c]
      BY <1>3, <2>2, <2>3, <2>4, <3>1
    <3>2. CASE user[d] # user[c]
      <4>1. pc[d] \in Open /\ status[user[d]] = "offline"
        BY <1>1, <2>1, <2>4, <3>2
      <4>2. user[d] \in stuck \/ \E k \in Conns : user[k] = user[d] /\ Closed(k)
        BY <1>0, <4>1 DEF OfflineHasCause
      <4> QED  BY <1>1, <1>2, <2>1, <3>2, <4>2
    <3> QED  BY <3>1, <3>2
  <2> QED  BY <1>1, <2>4 DEF OfflineHasCause
<1>4. CASE ~SetOnline(c) /\ ~SetOffline(c)
  <2>1. UNCHANGED <<status, stuck>>
    BY <1>4 DEF Handle, Upgrade, Subscribe, Run, Read, Visit, RangeEnds, ReadError, Unsubscribe
  <2>2. \A d \in Conns : pc'[d] \in Open => pc[d] \in Open
    BY <1>0, <1>4 DEF TypeOK, Handle, Upgrade, Subscribe, Run, Read, Visit, RangeEnds, ReadError,
                      Unsubscribe, Goto
  <2>3. ASSUME NEW d \in Conns, pc'[d] \in Open, status'[user[d]] = "offline"
        PROVE  user[d] \in stuck' \/ \E k \in Conns : user[k] = user[d] /\ Closed(k)'
    <3>1. user[d] \in stuck \/ \E k \in Conns : user[k] = user[d] /\ Closed(k)
      BY <1>0, <2>1, <2>2, <2>3 DEF OfflineHasCause
    <3> QED  BY <1>2, <2>1, <3>1
  <2> QED  BY <1>1, <2>3 DEF OfflineHasCause
<1> QED  BY <1>3, <1>4

\* The exit empties the hub and leaves the users who are online stuck.
LEMMA ExitKeeps == HubInv /\ Exit => HubInv'
<1> SUFFICES ASSUME HubInv, Exit  PROVE HubInv'
  OBVIOUS
<1>0. TypeOK /\ MoreTypes /\ Fitting /\ Ordered
  BY DEF HubInv
<1>1. up' \in [Conns -> BOOLEAN]
  <2>1. up' = [d \in Conns |-> FALSE]
    BY DEF Exit
  <2> QED  BY <2>1, Zenon
<1>2. TypeOK'
  <2>1. pc' \in [Conns -> Labels] /\ wpc' \in [Conns -> {"off", "select", "count", "drain", "ended"}]
    BY <1>0 DEF Exit, TypeOK, Labels
  <2>2. /\ room' \in [Chats -> SUBSET Conns] /\ todo' \in [Conns -> SUBSET Chats]
        /\ left' \in [Conns -> 0 .. BufferSize] /\ stuck' \subseteq Users
        /\ \A d \in Conns : Len(buffer'[d]) <= BufferSize
    BY BufferAssumption DEF Exit
  <2>3. UNCHANGED <<status, user, chatIDs, sent>>
    BY DEF Exit
  <2> QED  BY <1>0, <1>1, <2>1, <2>2, <2>3 DEF TypeOK
<1>3. MoreTypes'
  BY <1>0 DEF Exit, MoreTypes
<1>4. Pumps' /\ Rooms'
  BY <1>0 DEF Exit, Pumps, Rooms, TypeOK
<1>5. \A d \in Conns : event'[d] = {} /\ pc'[d] \in {"new", "gone"}
  BY <1>0 DEF Exit, TypeOK
<1>6. Casts'
  BY <1>5 DEF Casts
<1>7. LastOneOut'
  <2>1. UNCHANGED status /\ \A u \in Users : status[u] = "online" => u \in stuck'
    BY DEF Exit
  <2> QED  BY <1>0, <2>1 DEF LastOneOut, TypeOK
<1>8. ASSUME NEW d \in Conns
      PROVE  /\ Len(Received(d)') \in Nat /\ Len(Received(d)) \in Nat
             /\ Len(Received(d)') <= Len(Received(d))
             /\ \A i \in 1 .. Len(Received(d)') :
                   Received(d)'[i] = Received(d)[i] /\ Received(d)[i] \in Event
  <2>1. out[d] \in Seq(Event) /\ buffer[d] \in Seq(Event)
    BY <1>0 DEF MoreTypes
  <2>2. Received(d)' = out[d]
    <3>1. out'[d] = out[d] /\ buffer'[d] = <<>>
      BY DEF Exit
    <3> QED  BY <2>1, <3>1 DEF Received
  <2>3. /\ Len(out[d]) \in Nat /\ Len(Received(d)) \in Nat /\ Len(out[d]) <= Len(Received(d))
        /\ \A i \in 1 .. Len(out[d]) : Received(d)[i] = out[d][i] /\ out[d][i] \in Event
    BY <2>1, Concatenated DEF Received
  <2>4. Len(Received(d)') = Len(out[d]) /\ \A i : Received(d)'[i] = out[d][i]
    BY <2>2
  <2> QED  BY <2>3, <2>4
<1>9. Ordered'
  <2>1. ASSUME NEW d \in Conns, NEW i \in 1 .. Len(Received(d)'), NEW j \in 1 .. Len(Received(d)'),
               i < j, Received(d)'[i].from = Received(d)'[j].from
        PROVE  Received(d)'[i].n < Received(d)'[j].n
    <3>1. i \in 1 .. Len(Received(d)) /\ j \in 1 .. Len(Received(d))
      BY <1>8
    <3>2. Received(d)'[i] = Received(d)[i] /\ Received(d)'[j] = Received(d)[j]
      BY <1>8
    <3> QED  BY <1>0, <2>1, <3>1, <3>2 DEF Ordered
  <2> QED  BY <2>1 DEF Ordered
<1>10. Fitting'
  <2>1. ASSUME NEW d \in Conns, NEW x \in Event, Fits(d, x)
        PROVE  Fits(d, x)'
    <3>1. x.from \in Conns
      BY DEF Event
    <3>2. UNCHANGED sent
      BY DEF Exit
    <3> QED  BY <1>5, <2>1, <3>1, <3>2 DEF Fits
  <2>2. ASSUME NEW d \in Conns, NEW i \in 1 .. Len(Received(d)')
        PROVE  Fits(d, Received(d)[i])'
    <3>1. i \in 1 .. Len(Received(d))
      BY <1>8
    <3>2. PICK y \in Event : y = Received(d)[i]
      BY <1>8
    <3>3. Fits(d, y)' /\ (Received(d)[i])' = y
      BY <1>0, <1>8, <2>1, <3>1, <3>2 DEF Fitting
    <3> QED  BY <3>3 DEF Fits
  <2> QED  BY <2>2 DEF Fitting
<1>11. Started' /\ OfflineHasCause'
  BY <1>5 DEF Started, OfflineHasCause
<1> QED  BY <1>2, <1>3, <1>4, <1>6, <1>7, <1>9, <1>10, <1>11 DEF HubInv

\* The pump's steps do not touch what the rest of the invariant is about.
LEMMA PumpKeeps ==
    ASSUME HubInv, NEW c \in Conns, Pump(c) \/ WriteError(c) \/ Hangup(c)
    PROVE  HubInv'
<1>1. TypeOK' /\ MoreTypes' /\ Pumps'
  BY PumpTypes
<1>2. UNCHANGED <<status, user, room, failures, stuck, chatIDs, pc, todo, event, start, seen, sent>>
  BY PumpFrame
<1>3. Rooms' /\ Casts' /\ LastOneOut'
  BY <1>2 DEF HubInv, Rooms, Casts, LastOneOut
<1>w. \A d \in Conns : wpc[d] # "off" => wpc'[d] # "off"
  BY DEF HubInv, TypeOK, Pump, Take, Count, Drain, Ping, WriteError, Hangup, WriterEnds, writerVars
<1>o. Started' /\ OfflineHasCause'
  BY <1>2, <1>w DEF HubInv, Started, OfflineHasCause
<1>4. \A d \in Conns : Received(d)' = Received(d)
  BY PumpReceived
<1>5. Ordered'
  BY <1>4 DEF HubInv, Ordered
<1>6. Fitting'
  BY <1>2, <1>4 DEF HubInv, Fitting, Fits
<1> QED  BY <1>1, <1>3, <1>5, <1>6, <1>o DEF HubInv

LEMMA HubStep == HubInv /\ [Next]_vars => HubInv'
<1> SUFFICES ASSUME HubInv, [Next]_vars  PROVE HubInv'
  OBVIOUS
<1>1. ASSUME NEW c \in Conns, Handle(c) \/ Read(c)
      PROVE  HubInv'
  BY <1>1, HandlerTypes, HandlerPumps, HandlerRooms, HandlerCasts, HandlerReceived, HandlerStatus,
     HandlerStarted, HandlerOffline DEF HubInv
<1>2. ASSUME NEW c \in Conns, Pump(c) \/ WriteError(c) \/ Hangup(c)
      PROVE  HubInv'
  BY <1>2, PumpKeeps
<1>3. CASE Exit
  BY <1>3, ExitKeeps
<1>4. CASE UNCHANGED vars
  <2> USE <1>4 DEF vars, handlerVars, writerVars
  <2>1. /\ TypeOK' /\ MoreTypes' /\ Pumps' /\ Started' /\ Rooms' /\ Casts'
        /\ LastOneOut' /\ OfflineHasCause'
    BY DEF HubInv, TypeOK, MoreTypes, Pumps, Started, Rooms, Casts, LastOneOut, OfflineHasCause
  <2>2. \A d \in Conns : Received(d)' = Received(d)
    BY DEF Received
  <2>3. Ordered'
    BY <2>2 DEF HubInv, Ordered
  <2>4. Fitting'
    BY <2>2 DEF HubInv, Fitting, Fits
  <2> QED  BY <2>1, <2>3, <2>4 DEF HubInv
<1> QED  BY <1>1, <1>2, <1>3, <1>4 DEF Next

-----------------------------------------------------------------------------
(* FairSpec implies Spec, so all of this holds for the specification the   *)
(* run checks.                                                             *)

\* The invariant all the others follow from (hub.go, client.go, handler.go).
THEOREM HubInvariant == Spec => []HubInv
<1>1. Init => HubInv
  BY HubInitial
<1>2. HubInv /\ [Next]_vars => HubInv'
  BY HubStep
<1> QED  BY <1>1, <1>2, PTL DEF Spec

\* The hub's variables have their types, and no send channel holds more than
\* sendBufferSize events (client.go:20).
THEOREM HubTyped == Spec => []TypeOK
<1>1. HubInv => TypeOK
  BY DEF HubInv
<1> QED  BY <1>1, HubInvariant, PTL

\* The events of one sender arrive in the order they were read in and once
\* (hub.go:49-63, client.go:104-125).
THEOREM DeliveredInOrder == Spec => []InOrder
<1>1. HubInv => InOrder
  BY DEF HubInv, Ordered, InOrder
<1> QED  BY <1>1, HubInvariant, PTL

\* The drain loop never waits on an empty channel (client.go:119-124).
THEOREM DrainGoesOn == Spec => []DrainNeverBlocks
<1>1. HubInv => DrainNeverBlocks
  BY DEF HubInv, Pumps, DrainNeverBlocks
<1> QED  BY <1>1, HubInvariant, PTL

\* A connection whose read pump has not begun or has ended is in no room
\* (client.go:53-56).
THEOREM RoomsHoldTheLiving == Spec => []NoGhosts
<1>1. HubInv => NoGhosts
  BY DEF HubInv, Rooms, NoGhosts
<1> QED  BY <1>1, HubInvariant, PTL

\* Beside an open connection a user is offline only because another one of
\* his has closed or his last update was lost (handler.go:64-84).
THEOREM OfflineExplained == Spec => []OfflineHasCause
<1>1. HubInv => OfflineHasCause
  BY DEF HubInv
<1> QED  BY <1>1, HubInvariant, PTL

\* The last connection of a user to go leaves the user offline, unless an
\* update was lost or the process exited (handler.go:74-84).
THEOREM LastOneOutHolds == Spec => []LastOneOut
<1>1. HubInv => LastOneOut
  BY DEF HubInv
<1> QED  BY <1>1, HubInvariant, PTL

=============================================================================
