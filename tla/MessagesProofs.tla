--------------------------- MODULE MessagesProofs ---------------------------
(***************************************************************************)
(* Who may write, change and delete messages and reactions, what a reply   *)
(* names, and that Messages implements Conversation: proofs about Messages *)
(* for any users, chats, messages and goroutines.                          *)
(***************************************************************************)
EXTENDS Messages, TLAPS

StoreTypes ==
    /\ joined \in [Chats -> SUBSET Users]
    /\ messages \in [Msgs -> Row \cup {Nil}]
    /\ reactions \in [Msgs -> SUBSET (Users \X Emojis)]

ControlTypes ==
    /\ pc \in [Procs -> Labels]
    /\ req \in [Procs -> Request \cup {Nil}]
    /\ \A p \in Procs : pc[p] # "idle" => req[p] \in Request

\* There are no reactions to a message that has not been sent.
Quiet == \A m \in Msgs : ~Exists(m) => reactions[m] = {}

\* A Send past its check comes from a member, and one past GetByID replies to a
\* message of its chat.
SendOK(p) ==
    LET r == req[p] IN
    pc[p] \in {"sendReply", "sendCreate"} =>
        /\ r.op = "send" /\ r.user \in joined[r.chat]
        /\ pc[p] = "sendReply" => r.msg \in Msgs
        /\ pc[p] = "sendCreate" /\ r.msg # Nil =>
              r.msg \in Msgs /\ Exists(r.msg) /\ messages[r.msg].chat = r.chat

\* A request about a message knows its chat and, to change it, is its author's.
TouchOK(p) ==
    LET r == req[p] IN
    pc[p] = "write" =>
        /\ r.op \in Targeted /\ r.msg \in Msgs
        /\ Exists(r.msg) /\ messages[r.msg].chat = r.chat
        /\ r.op \in {"edit", "delete"} => messages[r.msg].sender = r.user
        /\ r.op \in {"react", "unreact"} => r.emoji \in Emojis

RequestsOK == \A p \in Procs : SendOK(p) /\ TouchOK(p)

MessageInv == TypeOK /\ RepliesStayInChat /\ WrittenByMembers /\ Quiet /\ RequestsOK

\* What every step leaves: a message stays in its chat, with its author and
\* with what it replies to, and whoever has been a member has been one.
Grows ==
    /\ \A m \in Msgs : Exists(m) =>
          /\ messages'[m] # Nil
          /\ messages'[m].chat = messages[m].chat
          /\ messages'[m].sender = messages[m].sender
          /\ messages'[m].reply = messages[m].reply
    /\ \A c \in Chats : joined[c] \subseteq joined'[c]

-----------------------------------------------------------------------------
LEMMA TypeSplit == TypeOK <=> StoreTypes /\ ControlTypes
BY DEF TypeOK, StoreTypes, ControlTypes

LEMMA MessageInitial == Init => MessageInv
<1>1. Init => TypeOK
  BY DEF Init, TypeOK, Labels
<1> QED
  BY <1>1 DEF Init, MessageInv, RepliesStayInChat, WrittenByMembers, Quiet, RequestsOK,
              SendOK, TouchOK, Exists

\* Returning, going on and starting keep the control state typed.
LEMMA ReturnTypes ==
    ASSUME ControlTypes, NEW p \in Procs, Return(p)
    PROVE  ControlTypes'
BY DEF ControlTypes, Return, Labels

LEMMA BeginTypes ==
    ASSUME ControlTypes, NEW p \in Procs, NEW label \in Labels, NEW r \in Request,
           Begin(p, label, r)
    PROVE  ControlTypes'
BY DEF ControlTypes, Begin

\* The two UPDATE statements on a row.
LEMMA RowUpdates ==
    ASSUME NEW r \in Row
    PROVE  /\ [r EXCEPT !.edited = TRUE] \in Row
           /\ [r EXCEPT !.edited = TRUE].chat = r.chat
           /\ [r EXCEPT !.edited = TRUE].sender = r.sender
           /\ [r EXCEPT !.edited = TRUE].reply = r.reply
           /\ [r EXCEPT !.deleted = TRUE] \in Row
           /\ [r EXCEPT !.deleted = TRUE].chat = r.chat
           /\ [r EXCEPT !.deleted = TRUE].sender = r.sender
           /\ [r EXCEPT !.deleted = TRUE].reply = r.reply
           /\ r.deleted => [r EXCEPT !.deleted = TRUE] = r
BY DEF Row

\* Every request is well formed when it starts.
LEMMA ArriveTypes ==
    ASSUME MessageInv, NEW p \in Procs, Arrive(p)
    PROVE  /\ UNCHANGED <<joined, store>> /\ ControlTypes' /\ pc[p] = "idle"
           /\ \A q \in Procs \ {p} : pc'[q] = pc[q] /\ req'[q] = req[q]
           /\ SendOK(p)' /\ TouchOK(p)'
           /\ pc'[p] # "idle" /\ (req'[p].op \in Targeted => ~messages[req'[p].msg].deleted)
<1>0. ControlTypes /\ StoreTypes
  BY TypeSplit DEF MessageInv
<1>1. ASSUME NEW u \in Users, NEW c \in Chats, NEW reply \in Msgs \cup {Nil},
             SendBegin(p, u, c, reply)
      PROVE  /\ UNCHANGED <<joined, store>> /\ ControlTypes' /\ pc[p] = "idle"
             /\ \A q \in Procs \ {p} : pc'[q] = pc[q] /\ req'[q] = req[q]
             /\ SendOK(p)' /\ TouchOK(p)'
             /\ pc'[p] # "idle" /\ (req'[p].op \in Targeted => ~messages[req'[p].msg].deleted)
  <2> DEFINE r == [op |-> "send", user |-> u, chat |-> c, msg |-> reply, emoji |-> Nil]
             label == IF reply = Nil THEN "sendCreate" ELSE "sendReply"
  <2>1. r \in Request /\ label \in Labels
    BY DEF Request, Labels
  <2>2. Begin(p, label, r) /\ u \in joined[c] /\ UNCHANGED <<joined, store>>
    BY <1>1 DEF SendBegin, IsMember
  <2>3. ControlTypes'
    BY <1>0, <2>1, <2>2, BeginTypes
  <2>4. /\ pc'[p] = label /\ req'[p] = r
        /\ \A q \in Procs \ {p} : pc'[q] = pc[q] /\ req'[q] = req[q]
    BY <1>0, <2>2 DEF Begin, ControlTypes
  <2>5. SendOK(p)' /\ TouchOK(p)'
    BY <2>2, <2>4 DEF SendOK, TouchOK
  <2> QED  BY <2>2, <2>3, <2>4, <2>5 DEF Begin, Targeted
<1>2. ASSUME NEW u \in Users, NEW m \in Msgs, NEW op \in Targeted, NEW e \in Emojis \cup {Nil},
             op \in {"react", "unreact"} => e \in Emojis,
             TouchBegin(p, op, u, m, e)
      PROVE  /\ UNCHANGED <<joined, store>> /\ ControlTypes' /\ pc[p] = "idle"
             /\ \A q \in Procs \ {p} : pc'[q] = pc[q] /\ req'[q] = req[q]
             /\ SendOK(p)' /\ TouchOK(p)'
             /\ pc'[p] # "idle" /\ (req'[p].op \in Targeted => ~messages[req'[p].msg].deleted)
  <2> DEFINE r == [op |-> op, user |-> u, chat |-> messages[m].chat, msg |-> m, emoji |-> e]
  <2>0. MayTouch(op, m, u) /\ Begin(p, "write", r) /\ UNCHANGED <<joined, store>>
    BY <1>2 DEF TouchBegin
  <2>1. r \in Request /\ "write" \in Labels
    <3>1. messages[m] \in Row
      BY <1>0, <2>0 DEF StoreTypes, MayTouch, Exists
    <3> QED  BY <3>1 DEF Request, Labels, Row
  <2>3. ControlTypes'
    BY <1>0, <2>0, <2>1, BeginTypes
  <2>4. /\ pc'[p] = "write" /\ req'[p] = r
        /\ \A q \in Procs \ {p} : pc'[q] = pc[q] /\ req'[q] = req[q]
    BY <1>0, <2>0 DEF Begin, ControlTypes
  <2>5. messages' = messages
    BY <2>0 DEF store
  <2>6. SendOK(p)' /\ TouchOK(p)'
    BY <1>2, <2>0, <2>4, <2>5 DEF SendOK, TouchOK, MayTouch, Exists
  <2> QED  BY <2>0, <2>3, <2>4, <2>6 DEF Begin, MayTouch
<1>3. PICK u \in Users :
        \/ \E c \in Chats, reply \in Msgs \cup {Nil} : SendBegin(p, u, c, reply)
        \/ \E m \in Msgs :
             \/ \E op \in {"edit", "delete"} : TouchBegin(p, op, u, m, Nil)
             \/ \E e \in Emojis, op \in {"react", "unreact"} : TouchBegin(p, op, u, m, e)
  BY DEF Arrive
<1>4. CASE \E c \in Chats, reply \in Msgs \cup {Nil} : SendBegin(p, u, c, reply)
  BY <1>1, <1>4
<1>5. ASSUME NEW m \in Msgs, NEW op \in {"edit", "delete"}, TouchBegin(p, op, u, m, Nil)
      PROVE  op \in Targeted /\ Nil \in Emojis \cup {Nil}
             /\ (op \in {"react", "unreact"} => Nil \in Emojis)
  BY DEF Targeted
<1>6. ASSUME NEW m \in Msgs, NEW e \in Emojis, NEW op \in {"react", "unreact"},
             TouchBegin(p, op, u, m, e)
      PROVE  op \in Targeted /\ e \in Emojis \cup {Nil}
  BY DEF Targeted
<1> QED  BY <1>2, <1>3, <1>4, <1>5, <1>6

-----------------------------------------------------------------------------
\* A request that stays where it is, or ends, stays as it should be.
LEMMA RequestKept ==
    ASSUME ControlTypes, Grows, NEW q \in Procs, SendOK(q), TouchOK(q),
           pc'[q] = "idle" \/ (pc'[q] = pc[q] /\ req'[q] = req[q])
    PROVE  SendOK(q)' /\ TouchOK(q)'
<1>1. CASE pc'[q] = "idle"
  BY <1>1 DEF SendOK, TouchOK
<1>2. CASE pc'[q] # "idle" /\ pc'[q] = pc[q] /\ req'[q] = req[q]
  <2>1. req[q].chat \in Chats
    BY <1>2 DEF ControlTypes, Request
  <2>2. SendOK(q)'
    BY <1>2, <2>1 DEF SendOK, Grows, Exists
  <2>3. TouchOK(q)'
    BY <1>2, <2>1 DEF TouchOK, Grows, Exists
  <2> QED  BY <2>2, <2>3
<1> QED  BY <1>1, <1>2

\* The invariant holds after a step that sends no message, if the reactions it
\* adds are to messages, by members of their chats.
LEMMA NothingSent ==
    ASSUME MessageInv, StoreTypes', ControlTypes', RequestsOK', Grows,
           \A m \in Msgs : ~Exists(m) => messages'[m] = Nil,
           \A m \in Msgs : \A r \in reactions'[m] \ reactions[m] :
              Exists(m) /\ r[1] \in joined[messages[m].chat]
    PROVE  MessageInv'
<1>0. StoreTypes /\ RepliesStayInChat /\ WrittenByMembers /\ Quiet
  BY TypeSplit DEF MessageInv
<1>1. ASSUME NEW m \in Msgs, Exists(m) PROVE messages[m] \in Row
  BY <1>0, <1>1 DEF StoreTypes, Exists
<1>2. ASSUME NEW m \in Msgs, messages'[m] # Nil, messages'[m].reply # Nil
      PROVE  /\ messages'[messages'[m].reply] # Nil
             /\ messages'[messages'[m].reply].chat = messages'[m].chat
  <2>1. Exists(m) /\ messages[m].reply # Nil /\ messages[m].reply \in Msgs
    BY <1>1, <1>2 DEF Grows, Row
  <2>2. Exists(messages[m].reply) /\ messages[messages[m].reply].chat = messages[m].chat
    BY <1>0, <2>1 DEF RepliesStayInChat
  <2> QED  BY <2>1, <2>2 DEF Grows
<1>3. RepliesStayInChat'
  BY <1>2 DEF RepliesStayInChat, Exists
<1>4. ASSUME NEW m \in Msgs, messages'[m] # Nil
      PROVE  /\ messages'[m].sender \in joined'[messages'[m].chat]
             /\ \A r \in reactions'[m] : r[1] \in joined'[messages'[m].chat]
  <2>1. Exists(m) /\ messages[m].chat \in Chats
    BY <1>1, <1>4 DEF Row
  <2>2. /\ messages[m].sender \in joined[messages[m].chat]
        /\ \A r \in reactions'[m] : r[1] \in joined[messages[m].chat]
    BY <1>0, <2>1 DEF WrittenByMembers
  <2> QED  BY <2>1, <2>2 DEF Grows
<1>5. WrittenByMembers'
  BY <1>4 DEF WrittenByMembers, Exists
<1>6. Quiet'
  <2>1. ASSUME NEW m \in Msgs, messages'[m] = Nil PROVE reactions'[m] = {}
    <3>1. ~Exists(m) /\ reactions[m] = {}
      BY <1>0, <2>1 DEF Grows, Quiet
    <3> QED  BY <3>1
  <2> QED  BY <2>1 DEF Quiet, Exists
<1> QED  BY <1>3, <1>5, <1>6, TypeSplit DEF MessageInv, TypeOK, StoreTypes, ControlTypes

\* Requests start without touching the store.
LEMMA ArriveKeeps ==
    ASSUME MessageInv, NEW p \in Procs, Arrive(p)
    PROVE  MessageInv' /\ Grows
<1>0. StoreTypes /\ ControlTypes /\ RequestsOK
  BY TypeSplit DEF MessageInv
<1>1. UNCHANGED <<joined, messages, reactions>> /\ ControlTypes'
      /\ (\A q \in Procs \ {p} : pc'[q] = pc[q] /\ req'[q] = req[q])
      /\ SendOK(p)' /\ TouchOK(p)'
  BY ArriveTypes DEF store
<1>2. Grows /\ StoreTypes'
  BY <1>0, <1>1 DEF Grows, StoreTypes, Exists
<1>3. RequestsOK'
  BY <1>0, <1>1, <1>2, RequestKept DEF RequestsOK
<1>4. MessageInv'
  BY <1>1, <1>2, <1>3, NothingSent DEF Exists
<1> QED  BY <1>2, <1>4

\* A request that returns leaves the others where they are.
LEMMA ReturnKeeps ==
    ASSUME MessageInv, Grows, NEW p \in Procs, Return(p)
    PROVE  ControlTypes' /\ RequestsOK'
<1>0. ControlTypes /\ RequestsOK
  BY TypeSplit DEF MessageInv
<1>1. pc'[p] = "idle" /\ \A q \in Procs \ {p} : pc'[q] = pc[q] /\ req'[q] = req[q]
  BY <1>0 DEF Return, ControlTypes
<1> QED  BY <1>0, <1>1, ReturnTypes, RequestKept DEF RequestsOK

\* GetByID of the message replied to, or a request that fails.
LEMMA LooksKeep ==
    ASSUME MessageInv, NEW p \in Procs, SendReply(p) \/ Fail(p)
    PROVE  MessageInv' /\ Grows
<1>0. StoreTypes /\ ControlTypes /\ RequestsOK
  BY TypeSplit DEF MessageInv
<1>1. UNCHANGED <<joined, messages, reactions>>
  BY DEF SendReply, Fail, store
<1>2. Grows /\ StoreTypes'
  BY <1>0, <1>1 DEF Grows, StoreTypes, Exists
<1>3. CASE Return(p)
  <2>1. ControlTypes' /\ RequestsOK'
    BY <1>2, <1>3, ReturnKeeps
  <2> QED  BY <1>1, <1>2, <2>1, NothingSent DEF Exists
<1>4. CASE SendReply(p) /\ ~Return(p)
  <2>1. /\ pc[p] = "sendReply" /\ Goto(p, "sendCreate")
        /\ Exists(req[p].msg) /\ messages[req[p].msg].chat = req[p].chat
    BY <1>4 DEF SendReply
  <2>2. pc'[p] = "sendCreate" /\ req' = req /\ \A q \in Procs \ {p} : pc'[q] = pc[q]
    BY <1>0, <2>1 DEF Goto, ControlTypes
  <2>3. ControlTypes'
    BY <1>0, <2>1, <2>2 DEF Goto, ControlTypes, Labels
  <2>4. SendOK(p)' /\ TouchOK(p)'
    BY <1>0, <1>1, <2>1, <2>2 DEF RequestsOK, SendOK, TouchOK, Exists
  <2>5. RequestsOK'
    BY <1>0, <1>2, <2>2, <2>4, RequestKept DEF RequestsOK
  <2> QED  BY <1>1, <1>2, <2>3, <2>5, NothingSent DEF Exists
<1> QED  BY <1>2, <1>3, <1>4 DEF Fail

\* INSERT of the message.
LEMMA CreateKeeps ==
    ASSUME MessageInv, NEW p \in Procs, SendCreate(p)
    PROVE  MessageInv' /\ Grows
<1>0. /\ StoreTypes /\ ControlTypes /\ RequestsOK /\ RepliesStayInChat /\ WrittenByMembers /\ Quiet
      /\ pc[p] = "sendCreate" /\ Return(p) /\ UNCHANGED <<joined, reactions>>
  BY TypeSplit DEF MessageInv, SendCreate
<1> DEFINE new == [chat |-> req[p].chat, sender |-> req[p].user, reply |-> req[p].msg,
                   edited |-> FALSE, deleted |-> FALSE]
<1>1. PICK m \in Msgs : ~Exists(m) /\ messages' = [messages EXCEPT ![m] = new]
  BY DEF SendCreate
<1>2. /\ new \in Row /\ new # Nil
      /\ new.chat = req[p].chat /\ new.sender = req[p].user /\ new.reply = req[p].msg
  <2>1. req[p] \in Request
    BY <1>0 DEF ControlTypes
  <2>2. new \in Row
    BY <2>1 DEF Request, Row
  <2> QED  BY <2>2, NilAssumption
<1>3. messages'[m] = new /\ \A k \in Msgs \ {m} : messages'[k] = messages[k]
  BY <1>0, <1>1 DEF StoreTypes
<1>4. StoreTypes'
  BY <1>0, <1>1, <1>2 DEF StoreTypes
<1>5. Grows
  BY <1>0, <1>1, <1>3 DEF Grows, Exists
<1>6. ControlTypes' /\ RequestsOK'
  BY <1>0, <1>5, ReturnKeeps
<1>7. /\ req[p].user \in joined[req[p].chat]
      /\ req[p].msg # Nil => /\ req[p].msg \in Msgs /\ Exists(req[p].msg)
                             /\ messages[req[p].msg].chat = req[p].chat
  BY <1>0 DEF RequestsOK, SendOK
<1>8. RepliesStayInChat'
  <2>1. ASSUME NEW k \in Msgs, messages'[k] # Nil, messages'[k].reply # Nil
        PROVE  /\ messages'[messages'[k].reply] # Nil
               /\ messages'[messages'[k].reply].chat = messages'[k].chat
    <3>1. CASE k = m
      BY <1>2, <1>3, <1>5, <1>7, <2>1, <3>1 DEF Grows
    <3>2. CASE k # m
      <4>1. messages'[k] = messages[k] /\ Exists(k) /\ messages[k].reply \in Msgs
        BY <1>0, <1>3, <2>1, <3>2 DEF StoreTypes, Row, Exists
      <4>2. Exists(messages[k].reply) /\ messages[messages[k].reply].chat = messages[k].chat
        BY <1>0, <2>1, <4>1 DEF RepliesStayInChat
      <4> QED  BY <1>5, <4>1, <4>2 DEF Grows
    <3> QED  BY <3>1, <3>2
  <2> QED  BY <2>1 DEF RepliesStayInChat, Exists
<1>9. WrittenByMembers'
  <2>1. ASSUME NEW k \in Msgs, messages'[k] # Nil
        PROVE  /\ messages'[k].sender \in joined'[messages'[k].chat]
               /\ \A r \in reactions'[k] : r[1] \in joined'[messages'[k].chat]
    <3>1. CASE k = m
      BY <1>0, <1>1, <1>2, <1>3, <1>7, <3>1 DEF Quiet
    <3>2. CASE k # m
      BY <1>0, <1>3, <2>1, <3>2 DEF WrittenByMembers, Exists
    <3> QED  BY <3>1, <3>2
  <2> QED  BY <2>1 DEF WrittenByMembers, Exists
<1>10. Quiet'
  BY <1>0, <1>2, <1>3 DEF Quiet, Exists
<1> QED
  BY <1>4, <1>5, <1>6, <1>8, <1>9, <1>10, TypeSplit
  DEF MessageInv, TypeOK, StoreTypes, ControlTypes

\* UPDATE of a message's text or of its deleted_at.
LEMMA UpdateKeeps ==
    ASSUME MessageInv, NEW p \in Procs, EditUpdate(p) \/ DeleteUpdate(p)
    PROVE  MessageInv' /\ Grows
<1>0. StoreTypes /\ ControlTypes /\ RequestsOK
  BY TypeSplit DEF MessageInv
<1> DEFINE m == req[p].msg
<1>1. m \in Msgs /\ Exists(m) /\ messages[m] \in Row /\ Return(p) /\ UNCHANGED <<joined, reactions>>
  BY <1>0 DEF EditUpdate, DeleteUpdate, Writing, RequestsOK, TouchOK, StoreTypes, Exists
<1>2. \/ messages' = messages
      \/ messages' = [messages EXCEPT ![m] = [messages[m] EXCEPT !.edited = TRUE]]
      \/ messages' = [messages EXCEPT ![m] = [messages[m] EXCEPT !.deleted = TRUE]]
  BY DEF EditUpdate, DeleteUpdate
<1>3. /\ StoreTypes' /\ messages'[m] \in Row
      /\ messages'[m].chat = messages[m].chat /\ messages'[m].sender = messages[m].sender
      /\ messages'[m].reply = messages[m].reply
      /\ \A k \in Msgs \ {m} : messages'[k] = messages[k]
  <2>1. ASSUME NEW r \in Row, messages' = [messages EXCEPT ![m] = r]
        PROVE  /\ StoreTypes' /\ messages'[m] = r
               /\ \A k \in Msgs \ {m} : messages'[k] = messages[k]
    BY <1>0, <1>1, <2>1 DEF StoreTypes
  <2>2. messages' = messages => StoreTypes'
    BY <1>0, <1>1 DEF StoreTypes
  <2> QED  BY <1>1, <1>2, <2>1, <2>2, RowUpdates
<1>4. Grows
  BY <1>1, <1>3, NilAssumption DEF Grows, Exists
<1>5. ControlTypes' /\ RequestsOK'
  BY <1>1, <1>4, ReturnKeeps
<1>6. \A k \in Msgs : ~Exists(k) => messages'[k] = Nil
  BY <1>1, <1>3 DEF Exists
<1>7. MessageInv'
  BY <1>1, <1>3, <1>4, <1>5, <1>6, NothingSent
<1> QED  BY <1>4, <1>7

\* INSERT and DELETE of a reaction.
LEMMA ReactKeeps ==
    ASSUME MessageInv, NEW p \in Procs, ReactInsert(p) \/ ReactDelete(p)
    PROVE  MessageInv' /\ Grows
<1>0. StoreTypes /\ ControlTypes /\ RequestsOK
  BY TypeSplit DEF MessageInv
<1> DEFINE m == req[p].msg
           r == <<req[p].user, req[p].emoji>>
<1>1. /\ m \in Msgs /\ Exists(m) /\ messages[m].chat = req[p].chat
      /\ req[p].user \in joined[req[p].chat] /\ req[p].user \in Users /\ req[p].emoji \in Emojis
      /\ Return(p) /\ UNCHANGED <<joined, messages>>
  BY <1>0 DEF ReactInsert, ReactDelete, Writing, RequestsOK, TouchOK, IsMember, ControlTypes, Request
<1>2. \/ reactions' = reactions
      \/ reactions' = [reactions EXCEPT ![m] = reactions[m] \cup {r}]
      \/ reactions' = [reactions EXCEPT ![m] = reactions[m] \ Same(m, req[p].user, req[p].emoji)]
  BY DEF ReactInsert, ReactDelete
<1>3. /\ reactions' \in [Msgs -> SUBSET (Users \X Emojis)]
      /\ reactions'[m] \subseteq reactions[m] \cup {r}
      /\ \A k \in Msgs \ {m} : reactions'[k] = reactions[k]
  <2>1. reactions \in [Msgs -> SUBSET (Users \X Emojis)] /\ r \in Users \X Emojis
    BY <1>0, <1>1 DEF StoreTypes
  <2>2. ASSUME NEW S \in SUBSET (Users \X Emojis), S \subseteq reactions[m] \cup {r},
               reactions' = [reactions EXCEPT ![m] = S]
        PROVE  /\ reactions' \in [Msgs -> SUBSET (Users \X Emojis)]
               /\ reactions'[m] \subseteq reactions[m] \cup {r}
               /\ \A k \in Msgs \ {m} : reactions'[k] = reactions[k]
    BY <1>1, <2>1, <2>2
  <2>3. reactions[m] \cup {r} \in SUBSET (Users \X Emojis)
    BY <1>1, <2>1
  <2>4. reactions[m] \ Same(m, req[p].user, req[p].emoji) \in SUBSET (Users \X Emojis)
    BY <1>1, <2>1
  <2> QED  BY <1>1, <1>2, <2>1, <2>2, <2>3, <2>4
<1>4. StoreTypes' /\ Grows
  BY <1>0, <1>1, <1>3 DEF StoreTypes, Grows, Exists
<1>5. ControlTypes' /\ RequestsOK'
  BY <1>1, <1>4, ReturnKeeps
<1>6. ASSUME NEW k \in Msgs, NEW x \in reactions'[k] \ reactions[k]
      PROVE  Exists(k) /\ x[1] \in joined[messages[k].chat]
  <2>1. k = m /\ x = r
    BY <1>3
  <2> QED  BY <1>1, <2>1
<1>7. MessageInv'
  BY <1>1, <1>4, <1>5, <1>6, NothingSent DEF Exists
<1> QED  BY <1>4, <1>7

\* A user becomes a member of a chat.
LEMMA JoinKeeps ==
    ASSUME MessageInv, NEW c \in Chats, NEW u \in Users, Join(c, u)
    PROVE  MessageInv' /\ Grows
<1>0. StoreTypes /\ ControlTypes /\ RequestsOK
  BY TypeSplit DEF MessageInv
<1>1. UNCHANGED <<messages, reactions, pc, req>>
  BY DEF Join, store
<1>2. Grows /\ StoreTypes' /\ ControlTypes'
  BY <1>0, <1>1 DEF Grows, StoreTypes, ControlTypes, Join, Exists
<1>3. RequestsOK'
  BY <1>0, <1>1, <1>2, RequestKept DEF RequestsOK
<1>4. MessageInv'
  BY <1>1, <1>2, <1>3, NothingSent DEF Exists
<1> QED  BY <1>2, <1>4

\* Every step keeps the invariant.
LEMMA MessageStep ==
    ASSUME MessageInv, [Next]_vars
    PROVE  MessageInv' /\ Grows
<1>1. ASSUME NEW p \in Procs, Arrive(p) \/ Step(p) PROVE MessageInv' /\ Grows
  BY <1>1, ArriveKeeps, LooksKeep, CreateKeeps, UpdateKeeps, ReactKeeps DEF Step
<1>2. ASSUME NEW c \in Chats, NEW u \in Users, Join(c, u) PROVE MessageInv' /\ Grows
  BY <1>2, JoinKeeps
<1>3. CASE UNCHANGED vars
  <2>1. UNCHANGED <<joined, messages, reactions, pc, req>>
    BY <1>3 DEF vars
  <2>2. Grows
    BY <2>1 DEF Grows, Exists
  <2> QED  BY <2>1, <2>2 DEF MessageInv, TypeOK, RepliesStayInChat, WrittenByMembers, Quiet,
                             RequestsOK, SendOK, TouchOK, Exists
<1> QED  BY <1>1, <1>2, <1>3 DEF Next

\* The inductive invariant.
THEOREM MessageInvariant == Spec => []MessageInv
<1>1. MessageInv /\ [Next]_vars => MessageInv'
  BY MessageStep
<1> QED  BY MessageInitial, <1>1, PTL DEF Spec

\* The type invariant.
THEOREM MessagesTyped == Spec => []TypeOK
<1>1. MessageInv => TypeOK
  BY DEF MessageInv
<1> QED  BY MessageInvariant, <1>1, PTL

\* A reply names a message of the same chat, whatever requests run together.
THEOREM RepliesInChat == Spec => []RepliesStayInChat
<1>1. MessageInv => RepliesStayInChat
  BY DEF MessageInv
<1> QED  BY MessageInvariant, <1>1, PTL

\* Whoever has written into a chat has belonged to it.
THEOREM OnlyMembersWrite == Spec => []WrittenByMembers
<1>1. MessageInv => WrittenByMembers
  BY DEF MessageInv
<1> QED  BY MessageInvariant, <1>1, PTL

-----------------------------------------------------------------------------
(* What a step may not do. *)

\* A row that is deleted is changed no more: EditUpdate has its guard, and
\* deleting again changes nothing.
LEMMA DeletedRow ==
    ASSUME MessageInv, [Next]_vars, NEW m \in Msgs, Exists(m), messages[m].deleted
    PROVE  messages'[m] = messages[m]
<1>0. StoreTypes /\ ControlTypes /\ RequestsOK /\ messages[m] \in Row
  BY TypeSplit DEF MessageInv, StoreTypes, Exists
<1>1. ASSUME NEW p \in Procs, SendCreate(p) PROVE messages'[m] = messages[m]
  BY <1>0, <1>1 DEF SendCreate, StoreTypes
<1>2. ASSUME NEW p \in Procs, EditUpdate(p) PROVE messages'[m] = messages[m]
  BY <1>0, <1>2 DEF EditUpdate, StoreTypes
<1>3. ASSUME NEW p \in Procs, DeleteUpdate(p) PROVE messages'[m] = messages[m]
  <2>1. messages' = [messages EXCEPT ![req[p].msg] = [messages[req[p].msg] EXCEPT !.deleted = TRUE]]
    BY <1>3 DEF DeleteUpdate
  <2>2. CASE req[p].msg = m
    BY <1>0, <2>1, <2>2, RowUpdates DEF StoreTypes
  <2>3. CASE req[p].msg # m
    BY <1>0, <2>1, <2>3 DEF StoreTypes
  <2> QED  BY <2>2, <2>3
<1>4. ASSUME NEW p \in Procs, Arrive(p) PROVE messages'[m] = messages[m]
  BY <1>4, ArriveTypes DEF store
<1> QED
  BY <1>1, <1>2, <1>3, <1>4
  DEF Next, Step, SendReply, ReactInsert, ReactDelete, Fail, Join, store, vars

\* Nothing starts on it.
LEMMA DeletedUntouched ==
    ASSUME MessageInv, [Next]_vars, NEW m \in Msgs, messages[m].deleted
    PROVE  Touching(m)' \subseteq Touching(m)
<1>0. ControlTypes
  BY TypeSplit DEF MessageInv
<1>1. ASSUME NEW p \in Procs, Arrive(p) PROVE Touching(m)' \subseteq Touching(m)
  <2>1. /\ \A q \in Procs \ {p} : pc'[q] = pc[q] /\ req'[q] = req[q]
        /\ req'[p].op \in Targeted => ~messages[req'[p].msg].deleted
    BY <1>1, ArriveTypes
  <2> QED  BY <2>1 DEF Touching
<1>2. ASSUME NEW p \in Procs, Step(p) PROVE Touching(m)' \subseteq Touching(m)
  <2>1. /\ \A q \in Procs \ {p} : pc'[q] = pc[q] /\ req'[q] = req[q]
        /\ pc[p] # "idle"
        /\ pc'[p] = "idle" \/ req'[p] = req[p]
    BY <1>0, <1>2
    DEF Step, SendReply, SendCreate, EditUpdate, DeleteUpdate, ReactInsert, ReactDelete, Fail,
        Writing, Return, Goto, ControlTypes
  <2> QED  BY <2>1 DEF Touching
<1>3. CASE UNCHANGED <<pc, req>>
  BY <1>3 DEF Touching
<1> QED  BY <1>1, <1>2, <1>3 DEF Next, Join, vars

\* Without a request about it, the reactions to a message stay.
LEMMA ReactionsRest ==
    ASSUME MessageInv, [Next]_vars, NEW m \in Msgs, Touching(m) = {}
    PROVE  reactions'[m] = reactions[m]
<1>0. StoreTypes /\ RequestsOK
  BY TypeSplit DEF MessageInv
<1>1. ASSUME NEW p \in Procs, ReactInsert(p) \/ ReactDelete(p)
      PROVE  reactions'[m] = reactions[m]
  <2>1. req[p].msg # m /\ req[p].msg \in Msgs
    BY <1>0, <1>1 DEF ReactInsert, ReactDelete, Writing, Touching, Targeted, RequestsOK, TouchOK
  <2> QED  BY <1>0, <1>1, <2>1 DEF ReactInsert, ReactDelete, StoreTypes
<1>2. ASSUME NEW p \in Procs, Arrive(p) PROVE reactions'[m] = reactions[m]
  BY <1>2, ArriveTypes DEF store
<1> QED
  BY <1>1, <1>2
  DEF Next, Step, SendReply, SendCreate, EditUpdate, DeleteUpdate, Fail, Join, store, vars

\* Deletion is final, whatever requests had passed their checks before it.
THEOREM DeletedForGood == Spec => DeletionIsFinal
<1>1. MessageInv /\ [Next]_vars =>
        [\A m \in Msgs : Exists(m) /\ messages[m].deleted =>
            /\ messages'[m] = messages[m]
            /\ Touching(m)' \subseteq Touching(m)
            /\ Touching(m) = {} => reactions'[m] = reactions[m]]_vars
  BY DeletedRow, DeletedUntouched, ReactionsRest
<1> QED  BY MessageInvariant, <1>1, PTL DEF Spec, DeletionIsFinal

-----------------------------------------------------------------------------
\* What a step does to the row of a message it does by a request of its author
\* that ends with it.
LEMMA AuthorsHand ==
    ASSUME MessageInv, [Next]_vars, NEW m \in Msgs, Exists(m), messages'[m] # messages[m]
    PROVE  \E p \in Procs : /\ pc[p] # "idle" /\ pc'[p] = "idle"
                            /\ req[p].msg = m /\ req[p].user = messages[m].sender
<1>0. StoreTypes /\ ControlTypes /\ RequestsOK
  BY TypeSplit DEF MessageInv
<1>1. ASSUME NEW p \in Procs, SendCreate(p) PROVE FALSE
  BY <1>0, <1>1 DEF SendCreate, StoreTypes
<1>2. ASSUME NEW p \in Procs, Arrive(p) PROVE FALSE
  BY <1>2, ArriveTypes DEF store
<1>3. ASSUME NEW p \in Procs, EditUpdate(p) \/ DeleteUpdate(p)
      PROVE  /\ pc[p] # "idle" /\ pc'[p] = "idle"
             /\ req[p].msg = m /\ req[p].user = messages[m].sender
  <2>1. /\ pc[p] = "write" /\ req[p].op \in {"edit", "delete"} /\ Return(p)
        /\ req[p].msg \in Msgs /\ messages[req[p].msg].sender = req[p].user
    BY <1>0, <1>3 DEF EditUpdate, DeleteUpdate, Writing, RequestsOK, TouchOK
  <2>2. req[p].msg = m
    BY <1>0, <1>3, <2>1 DEF EditUpdate, DeleteUpdate, StoreTypes
  <2>3. pc'[p] = "idle"
    BY <1>0, <2>1 DEF Return, ControlTypes
  <2> QED  BY <2>1, <2>2, <2>3
<1>4. PICK p \in Procs : EditUpdate(p) \/ DeleteUpdate(p)
  BY <1>1, <1>2 DEF Next, Step, SendReply, ReactInsert, ReactDelete, Fail, Join, store, vars
<1> QED  BY <1>3, <1>4

\* With PostgreSQL a reaction comes and goes by a request of its user about it.
LEMMA ReactorsHand ==
    ASSUME MessageInv, [Next]_vars, Driver = "postgres", NEW m \in Msgs,
           NEW r \in (reactions[m] \cup reactions'[m]) \ (reactions[m] \cap reactions'[m])
    PROVE  \E p \in Procs : /\ pc[p] # "idle" /\ pc'[p] = "idle"
                            /\ req[p].msg = m /\ req[p].user = r[1] /\ req[p].emoji = r[2]
<1>0. StoreTypes /\ ControlTypes /\ RequestsOK /\ reactions'[m] # reactions[m]
  BY TypeSplit DEF MessageInv
<1>1. ASSUME NEW p \in Procs, Arrive(p) PROVE FALSE
  BY <1>0, <1>1, ArriveTypes DEF store
<1>2. ASSUME NEW p \in Procs, ReactInsert(p) \/ ReactDelete(p)
      PROVE  /\ pc[p] # "idle" /\ pc'[p] = "idle"
             /\ req[p].msg = m /\ req[p].user = r[1] /\ req[p].emoji = r[2]
  <2>1. pc[p] = "write" /\ Return(p) /\ req[p].msg \in Msgs
    BY <1>0, <1>2 DEF ReactInsert, ReactDelete, Writing, RequestsOK, TouchOK
  <2>2. req[p].msg = m
    BY <1>0, <1>2, <2>1 DEF ReactInsert, ReactDelete, StoreTypes
  <2>3. pc'[p] = "idle"
    BY <1>0, <2>1 DEF Return, ControlTypes
  <2>4. r = <<req[p].user, req[p].emoji>> \/ r \in Same(m, req[p].user, req[p].emoji)
    BY <1>0, <1>2, <2>2 DEF ReactInsert, ReactDelete, StoreTypes
  <2>5. r[1] = req[p].user /\ r[2] = req[p].emoji
    BY <2>4 DEF Same, Alike
  <2> QED  BY <2>1, <2>2, <2>3, <2>5
<1>3. PICK p \in Procs : ReactInsert(p) \/ ReactDelete(p)
  BY <1>0, <1>1
  DEF Next, Step, SendReply, SendCreate, EditUpdate, DeleteUpdate, Fail, Join, store, vars
<1> QED  BY <1>2, <1>3

\* With PostgreSQL messages and reactions change only by the hand of whose they
\* are.  (With MySQL the collation makes emojis alike, and it is not so.)
THEOREM OwnHand ==
    ASSUME Driver = "postgres"
    PROVE  Spec => OwnHandOnly
<1>1. MessageInv /\ [Next]_vars =>
        [\A m \in Msgs :
          /\ Exists(m) /\ messages'[m] # messages[m] =>
                \E p \in Procs : /\ pc[p] # "idle" /\ pc'[p] = "idle"
                                 /\ req[p].msg = m /\ req[p].user = messages[m].sender
          /\ \A r \in (reactions[m] \cup reactions'[m]) \ (reactions[m] \cap reactions'[m]) :
                \E p \in Procs : /\ pc[p] # "idle" /\ pc'[p] = "idle"
                                 /\ req[p].msg = m /\ req[p].user = r[1]
                                 /\ req[p].emoji = r[2]]_vars
  BY AuthorsHand, ReactorsHand
<1> QED  BY MessageInvariant, <1>1, PTL DEF Spec, OwnHandOnly

-----------------------------------------------------------------------------
(* Messages implements Conversation. *)

\* In MySQL emojis are alike, and a user has one reaction to a message at most.
OneIfAlike == Driver = "mysql" =>
    \A m \in Msgs : \A r, s \in reactions[m] : r[1] = s[1] => r = s

ViewInv == MessageInv /\ OneIfAlike

\* A row is shown with its own fields, and as something.
LEMMA ShownRow ==
    ASSUME NEW row \in Row, NEW its \in SUBSET (Users \X Emojis)
    PROVE  /\ Shown(row, its) # Nil /\ Shown(row, its) \in Post
           /\ Shown(row, its) = [chat |-> row.chat, sender |-> row.sender, reply |-> row.reply,
                                 edited |-> row.edited, deleted |-> row.deleted,
                                 reactions |-> IF row.deleted THEN {} ELSE its]
<1> DEFINE post == [chat |-> row.chat, sender |-> row.sender, reply |-> row.reply,
                    edited |-> row.edited, deleted |-> row.deleted,
                    reactions |-> IF row.deleted THEN {} ELSE its]
<1>1. Shown(row, its) = post
  BY NilAssumption DEF Shown
<1>2. post \in Post
  BY DEF Row, Post
<1> QED  BY <1>1, <1>2, NilAssumption

\* A post is what its fields are.
LEMMA SamePost ==
    ASSUME NEW a \in Post, NEW b \in Post,
           a.chat = b.chat, a.sender = b.sender, a.reply = b.reply,
           a.edited = b.edited, a.deleted = b.deleted, a.reactions = b.reactions
    PROVE  a = b
BY DEF Post

\* What the operations of Conversation do to a post.
LEMMA PostUpdates ==
    ASSUME NEW post \in Post, NEW its \in SUBSET (Users \X Emojis)
    PROVE  /\ [post EXCEPT !.edited = TRUE] =
                 [chat |-> post.chat, sender |-> post.sender, reply |-> post.reply,
                  edited |-> TRUE, deleted |-> post.deleted, reactions |-> post.reactions]
           /\ [[post EXCEPT !.deleted = TRUE] EXCEPT !.reactions = {}] =
                 [chat |-> post.chat, sender |-> post.sender, reply |-> post.reply,
                  edited |-> post.edited, deleted |-> TRUE, reactions |-> {}]
           /\ [post EXCEPT !.reactions = its] =
                 [chat |-> post.chat, sender |-> post.sender, reply |-> post.reply,
                  edited |-> post.edited, deleted |-> post.deleted, reactions |-> its]
<1>1. [post EXCEPT !.edited = TRUE] =
          [chat |-> post.chat, sender |-> post.sender, reply |-> post.reply,
           edited |-> TRUE, deleted |-> post.deleted, reactions |-> post.reactions]
  <2> DEFINE a == [post EXCEPT !.edited = TRUE]
             b == [chat |-> post.chat, sender |-> post.sender, reply |-> post.reply,
                   edited |-> TRUE, deleted |-> post.deleted, reactions |-> post.reactions]
  <2>1. /\ a \in Post /\ a.chat = post.chat /\ a.sender = post.sender /\ a.reply = post.reply
        /\ a.edited = TRUE /\ a.deleted = post.deleted /\ a.reactions = post.reactions
    BY DEF Post
  <2>2. /\ b \in Post /\ b.chat = post.chat /\ b.sender = post.sender /\ b.reply = post.reply
        /\ b.edited = TRUE /\ b.deleted = post.deleted /\ b.reactions = post.reactions
    BY DEF Post
  <2> HIDE DEF a, b
  <2>3. a = b
    BY <2>1, <2>2, SamePost
  <2> QED  BY <2>3 DEF a, b
<1>2. [[post EXCEPT !.deleted = TRUE] EXCEPT !.reactions = {}] =
          [chat |-> post.chat, sender |-> post.sender, reply |-> post.reply,
           edited |-> post.edited, deleted |-> TRUE, reactions |-> {}]
  <2> DEFINE mid == [post EXCEPT !.deleted = TRUE]
             a == [mid EXCEPT !.reactions = {}]
             b == [chat |-> post.chat, sender |-> post.sender, reply |-> post.reply,
                   edited |-> post.edited, deleted |-> TRUE, reactions |-> {}]
  <2>1. /\ mid \in Post /\ mid.chat = post.chat /\ mid.sender = post.sender /\ mid.reply = post.reply
        /\ mid.edited = post.edited /\ mid.deleted = TRUE
    BY DEF Post
  <2>2. /\ b \in Post /\ b.chat = post.chat /\ b.sender = post.sender /\ b.reply = post.reply
        /\ b.edited = post.edited /\ b.deleted = TRUE /\ b.reactions = {}
    BY DEF Post
  <2> HIDE DEF mid
  <2>3. /\ a \in Post /\ a.chat = mid.chat /\ a.sender = mid.sender /\ a.reply = mid.reply
        /\ a.edited = mid.edited /\ a.deleted = mid.deleted /\ a.reactions = {}
    BY <2>1 DEF Post
  <2> HIDE DEF a, b
  <2>4. a = b
    BY <2>1, <2>2, <2>3, SamePost
  <2> QED  BY <2>4 DEF mid, a, b
<1>3. [post EXCEPT !.reactions = its] =
          [chat |-> post.chat, sender |-> post.sender, reply |-> post.reply,
           edited |-> post.edited, deleted |-> post.deleted, reactions |-> its]
  <2> DEFINE a == [post EXCEPT !.reactions = its]
             b == [chat |-> post.chat, sender |-> post.sender, reply |-> post.reply,
                   edited |-> post.edited, deleted |-> post.deleted, reactions |-> its]
  <2>1. /\ a \in Post /\ a.chat = post.chat /\ a.sender = post.sender /\ a.reply = post.reply
        /\ a.edited = post.edited /\ a.deleted = post.deleted /\ a.reactions = its
    BY DEF Post
  <2>2. /\ b \in Post /\ b.chat = post.chat /\ b.sender = post.sender /\ b.reply = post.reply
        /\ b.edited = post.edited /\ b.deleted = post.deleted /\ b.reactions = its
    BY DEF Post
  <2> HIDE DEF a, b
  <2>3. a = b
    BY <2>1, <2>2, SamePost
  <2> QED  BY <2>3 DEF a, b
<1> QED  BY <1>1, <1>2, <1>3

\* What is seen of message m.
LEMMA Seen ==
    ASSUME StoreTypes, NEW m \in Msgs
    PROVE  /\ postsBar[m] = Shown(messages[m], reactions[m])
           /\ View!Sent(m) <=> Exists(m)
           /\ Exists(m) => /\ postsBar[m] \in Post
                           /\ postsBar[m].chat = messages[m].chat
                           /\ postsBar[m].sender = messages[m].sender
                           /\ postsBar[m].deleted = messages[m].deleted
<1>1. postsBar[m] = Shown(messages[m], reactions[m])
  BY DEF postsBar
<1>2. CASE ~Exists(m)
  BY <1>1, <1>2 DEF Exists, Shown, View!Sent
<1>3. CASE Exists(m)
  <2>1. messages[m] \in Row /\ reactions[m] \in SUBSET (Users \X Emojis)
    BY <1>3 DEF StoreTypes, Exists
  <2> QED  BY <1>1, <1>3, <2>1, ShownRow DEF View!Sent
<1> QED  BY <1>1, <1>2, <1>3

\* A step that touches message m only changes only what is seen of it.
LEMMA SeenChanges ==
    ASSUME NEW m \in Msgs,
           \A k \in Msgs \ {m} : messages'[k] = messages[k] /\ reactions'[k] = reactions[k]
    PROVE  postsBar' = [postsBar EXCEPT ![m] = Shown(messages'[m], reactions'[m])]
BY DEF postsBar

LEMMA SeenStays ==
    ASSUME UNCHANGED <<messages, reactions>>
    PROVE  UNCHANGED postsBar
BY DEF postsBar

\* INSERT of a message is its Send.
LEMMA ViewCreate ==
    ASSUME MessageInv, NEW p \in Procs, SendCreate(p)
    PROVE  View!ConversationNext
<1>0. StoreTypes /\ ControlTypes /\ RequestsOK /\ Quiet /\ pc[p] = "sendCreate"
      /\ UNCHANGED <<joined, reactions>>
  BY TypeSplit DEF MessageInv, SendCreate
<1> DEFINE new == [chat |-> req[p].chat, sender |-> req[p].user, reply |-> req[p].msg,
                   edited |-> FALSE, deleted |-> FALSE]
           post == [chat |-> req[p].chat, sender |-> req[p].user, reply |-> req[p].msg,
                    edited |-> FALSE, deleted |-> FALSE, reactions |-> {}]
<1>1. PICK m \in Msgs : ~Exists(m) /\ messages' = [messages EXCEPT ![m] = new]
  BY DEF SendCreate
<1>2. req[p] \in Request /\ new \in Row
  BY <1>0 DEF ControlTypes, Request, Row
<1>3. /\ req[p].user \in Users /\ req[p].chat \in Chats /\ req[p].msg \in Msgs \cup {Nil}
      /\ req[p].user \in joined[req[p].chat]
      /\ req[p].msg # Nil => /\ req[p].msg \in Msgs /\ Exists(req[p].msg)
                             /\ messages[req[p].msg].chat = req[p].chat
  BY <1>0, <1>2 DEF RequestsOK, SendOK, Request
<1>4. messages'[m] = new /\ reactions'[m] = {}
  BY <1>0, <1>1 DEF StoreTypes, Quiet
<1>5. Shown(messages'[m], reactions'[m]) = post /\ post # Nil
  <2>1. {} \in SUBSET (Users \X Emojis)
    OBVIOUS
  <2>2. Shown(new, {}) # Nil /\ Shown(new, {}) = post
    BY <1>2, <2>1, ShownRow
  <2> QED  BY <1>4, <2>2
<1>6. postsBar' = [postsBar EXCEPT ![m] = post]
  <2>1. \A k \in Msgs \ {m} : messages'[k] = messages[k] /\ reactions'[k] = reactions[k]
    BY <1>0, <1>1 DEF StoreTypes
  <2> QED  BY <1>5, <2>1, SeenChanges
<1>7. postsBar[m] = Nil /\ postsBar'[m] = post
  <2>1. postsBar[m] = Nil
    BY <1>0, <1>1, Seen DEF View!Sent
  <2>2. m \in DOMAIN postsBar
    BY DEF postsBar
  <2> QED  BY <1>6, <2>1, <2>2
<1>8. View!Send(m, req[p].user, req[p].chat, req[p].msg)
  <2>1. ~View!Sent(m)
    BY <1>0, <1>1, Seen
  <2>2. req[p].msg # Nil => View!Sent(req[p].msg) /\ postsBar[req[p].msg].chat = req[p].chat
    BY <1>0, <1>3, Seen
  <2> QED  BY <1>0, <1>3, <1>6, <2>1, <2>2 DEF View!Send
<1> QED  BY <1>3, <1>5, <1>7, <1>8 DEF View!ConversationNext, View!Operation

\* An UPDATE of the text or of deleted_at is an Edit or a Delete by the author,
\* or is not seen.
LEMMA ViewUpdate ==
    ASSUME MessageInv, NEW p \in Procs, EditUpdate(p) \/ DeleteUpdate(p)
    PROVE  joined' = joined /\ (UNCHANGED postsBar \/ View!ConversationNext)
<1>0. StoreTypes /\ ControlTypes /\ RequestsOK /\ WrittenByMembers
  BY TypeSplit DEF MessageInv
<1> DEFINE m == req[p].msg  u == req[p].user  row == messages[m]  its == reactions[m]
<1>1. /\ m \in Msgs /\ Exists(m) /\ row \in Row /\ its \in SUBSET (Users \X Emojis)
      /\ row.sender = u /\ u \in Users /\ u \in joined[row.chat]
      /\ UNCHANGED <<joined, reactions>>
  <2>1. /\ m \in Msgs /\ Exists(m) /\ row.sender = u /\ UNCHANGED <<joined, reactions>>
    BY <1>0 DEF EditUpdate, DeleteUpdate, Writing, RequestsOK, TouchOK
  <2>2. row \in Row /\ its \in SUBSET (Users \X Emojis)
    BY <1>0, <2>1 DEF StoreTypes, Exists
  <2>3. u \in Users
    BY <2>1, <2>2 DEF Row
  <2>4. u \in joined[row.chat]
    BY <1>0, <2>1 DEF WrittenByMembers
  <2> QED  BY <2>1, <2>2, <2>3, <2>4
<1>2. \/ messages' = messages
      \/ ~row.deleted /\ messages' = [messages EXCEPT ![m] = [row EXCEPT !.edited = TRUE]]
      \/ messages' = [messages EXCEPT ![m] = [row EXCEPT !.deleted = TRUE]]
  BY DEF EditUpdate, DeleteUpdate
<1>3. /\ postsBar[m] = [chat |-> row.chat, sender |-> row.sender, reply |-> row.reply,
                        edited |-> row.edited, deleted |-> row.deleted,
                        reactions |-> IF row.deleted THEN {} ELSE its]
      /\ View!Sent(m) /\ postsBar[m].chat = row.chat /\ postsBar[m].sender = u
      /\ postsBar[m].deleted = row.deleted /\ postsBar[m] \in Post
  <2>1. /\ postsBar[m] = Shown(row, its) /\ postsBar[m] \in Post /\ View!Sent(m) /\ postsBar[m].chat = row.chat
        /\ postsBar[m].sender = row.sender /\ postsBar[m].deleted = row.deleted
    BY <1>0, <1>1, Seen
  <2>2. Shown(row, its) = [chat |-> row.chat, sender |-> row.sender, reply |-> row.reply,
                           edited |-> row.edited, deleted |-> row.deleted,
                           reactions |-> IF row.deleted THEN {} ELSE its]
    BY <1>1, ShownRow
  <2> QED  BY <1>1, <2>1, <2>2
<1>4. ASSUME messages' = messages  PROVE UNCHANGED postsBar
  BY <1>1, <1>4, SeenStays
<1>5. ASSUME NEW new \in Row, messages' = [messages EXCEPT ![m] = new]
      PROVE  postsBar' = [postsBar EXCEPT ![m] = Shown(new, its)] /\ postsBar'[m] = Shown(new, its)
  <2>1. messages'[m] = new /\ reactions'[m] = its
        /\ \A k \in Msgs \ {m} : messages'[k] = messages[k] /\ reactions'[k] = reactions[k]
    BY <1>0, <1>1, <1>5 DEF StoreTypes
  <2>2. postsBar' = [postsBar EXCEPT ![m] = Shown(new, its)]
    BY <1>1, <2>1, SeenChanges
  <2> QED  BY <1>1, <2>2 DEF postsBar
<1>6. ASSUME ~row.deleted, messages' = [messages EXCEPT ![m] = [row EXCEPT !.edited = TRUE]]
      PROVE  View!Edit(m, u)
  <2> DEFINE new == [row EXCEPT !.edited = TRUE]
  <2>1. new \in Row /\ new.chat = row.chat /\ new.sender = row.sender /\ new.reply = row.reply
        /\ new.edited = TRUE /\ new.deleted = row.deleted
    BY <1>1 DEF Row
  <2> HIDE DEF new
  <2>2. Shown(new, its) = [chat |-> row.chat, sender |-> row.sender, reply |-> row.reply,
                           edited |-> TRUE, deleted |-> row.deleted, reactions |-> its]
    BY <1>1, <1>6, <2>1, ShownRow
  <2>3. Shown(new, its) = [postsBar[m] EXCEPT !.edited = TRUE]
    <3>1. /\ postsBar[m].chat = row.chat /\ postsBar[m].sender = row.sender
          /\ postsBar[m].reply = row.reply /\ postsBar[m].deleted = row.deleted
          /\ postsBar[m].reactions = its
      BY <1>3, <1>6
    <3>2. [postsBar[m] EXCEPT !.edited = TRUE] =
              [chat |-> postsBar[m].chat, sender |-> postsBar[m].sender, reply |-> postsBar[m].reply,
               edited |-> TRUE, deleted |-> postsBar[m].deleted, reactions |-> postsBar[m].reactions]
      BY <1>3, PostUpdates
    <3> HIDE DEF m, row, its, u
    <3> QED  BY <2>2, <3>1, <3>2
  <2>4. postsBar' = [postsBar EXCEPT ![m] = [postsBar[m] EXCEPT !.edited = TRUE]]
    BY <1>5, <1>6, <2>1, <2>3 DEF new
  <2>5. View!Acts(u, m)
    BY <1>1, <1>3, <1>6 DEF View!Acts, View!Live
  <2> QED  BY <1>1, <1>3, <2>4, <2>5 DEF View!Edit
<1>7. ASSUME ~row.deleted, messages' = [messages EXCEPT ![m] = [row EXCEPT !.deleted = TRUE]]
      PROVE  View!Delete(m, u)
  <2> DEFINE new == [row EXCEPT !.deleted = TRUE]
  <2>1. new \in Row /\ new.chat = row.chat /\ new.sender = row.sender /\ new.reply = row.reply
        /\ new.edited = row.edited /\ new.deleted = TRUE
    BY <1>1 DEF Row
  <2> HIDE DEF new
  <2>2. Shown(new, its) = [chat |-> row.chat, sender |-> row.sender, reply |-> row.reply,
                           edited |-> row.edited, deleted |-> TRUE, reactions |-> {}]
    BY <1>1, <2>1, ShownRow
  <2>3. Shown(new, its) = [[postsBar[m] EXCEPT !.deleted = TRUE] EXCEPT !.reactions = {}]
    <3>1. /\ postsBar[m].chat = row.chat /\ postsBar[m].sender = row.sender
          /\ postsBar[m].reply = row.reply /\ postsBar[m].edited = row.edited
      BY <1>3
    <3>2. [[postsBar[m] EXCEPT !.deleted = TRUE] EXCEPT !.reactions = {}] =
              [chat |-> postsBar[m].chat, sender |-> postsBar[m].sender, reply |-> postsBar[m].reply,
               edited |-> postsBar[m].edited, deleted |-> TRUE, reactions |-> {}]
      BY <1>3, PostUpdates
    <3> HIDE DEF m, row, its, u
    <3> QED  BY <2>2, <3>1, <3>2
  <2>4. postsBar' = [postsBar EXCEPT ![m] = [[postsBar[m] EXCEPT !.deleted = TRUE] EXCEPT !.reactions = {}]]
    BY <1>5, <1>7, <2>1, <2>3 DEF new
  <2>5. View!Acts(u, m)
    BY <1>1, <1>3, <1>7 DEF View!Acts, View!Live
  <2>6. postsBar' = [postsBar EXCEPT ![m].deleted = TRUE, ![m].reactions = {}]
    BY <1>1, <2>4 DEF postsBar
  <2> QED  BY <1>1, <1>3, <2>5, <2>6 DEF View!Delete
<1>8. ASSUME row.deleted, messages' = [messages EXCEPT ![m] = [row EXCEPT !.deleted = TRUE]]
      PROVE  UNCHANGED postsBar
  <2>0. [row EXCEPT !.deleted = TRUE] = row
    BY <1>1, <1>8, RowUpdates
  <2>1. messages' = messages
    BY <1>0, <1>1, <1>8, <2>0 DEF StoreTypes
  <2> QED  BY <1>4, <2>1
<1>9. \A k \in Msgs \ {m} : postsBar'[k] = postsBar[k]
  BY <1>0, <1>1, <1>2 DEF postsBar, StoreTypes
<1>10. UNCHANGED postsBar \/ postsBar'[m] # postsBar[m]
  BY <1>9 DEF postsBar
<1>11. (View!Edit(m, u) \/ View!Delete(m, u)) /\ postsBar'[m] # postsBar[m] => View!ConversationNext
  BY <1>1 DEF View!ConversationNext, View!Operation
<1> QED  BY <1>1, <1>2, <1>4, <1>6, <1>7, <1>8, <1>10, <1>11

\* What one reaction statement does to the reactions of its message: it adds the
\* pair it names, or takes away one of the user's at most, or does nothing.
LEMMA ReactOne ==
    ASSUME ViewInv, NEW p \in Procs, ReactInsert(p) \/ ReactDelete(p)
    PROVE  LET m == req[p].msg
               u == req[p].user IN
           /\ UNCHANGED <<joined, messages>>
           /\ m \in Msgs /\ Exists(m) /\ u \in Users /\ u \in joined[messages[m].chat]
           /\ \/ UNCHANGED reactions
              \/ \E e \in Emojis :
                    /\ reactions' = [reactions EXCEPT ![m] = @ \cup {<<u, e>>}]
                    /\ Driver = "mysql" => \A r \in reactions[m] : r[1] # u
              \/ \E e \in Emojis : reactions' = [reactions EXCEPT ![m] = @ \ {<<u, e>>}]
<1> DEFINE m == req[p].msg  u == req[p].user  e == req[p].emoji
<1>0. StoreTypes /\ ControlTypes /\ RequestsOK /\ OneIfAlike
  BY TypeSplit DEF ViewInv, MessageInv
<1>1. /\ UNCHANGED <<joined, messages>> /\ m \in Msgs /\ Exists(m) /\ e \in Emojis
      /\ pc[p] = "write" /\ u \in joined[messages[m].chat]
  BY <1>0 DEF ReactInsert, ReactDelete, Writing, IsMember, RequestsOK, TouchOK
<1>2. u \in Users
  BY <1>0, <1>1 DEF ControlTypes, Request
<1>3. reactions[m] \in SUBSET (Users \X Emojis)
  BY <1>0, <1>1 DEF StoreTypes
<1>4. CASE ReactInsert(p)
  <2>1. \/ UNCHANGED reactions
        \/ /\ reactions' = [reactions EXCEPT ![m] = @ \cup {<<u, e>>}]
           /\ Same(m, u, e) = {}
    BY <1>4 DEF ReactInsert
  <2>2. Driver = "mysql" /\ Same(m, u, e) = {} => \A r \in reactions[m] : r[1] # u
    BY DEF Same, Alike
  <2> QED  BY <1>1, <1>2, <2>1, <2>2
<1>5. CASE ReactDelete(p)
  <2>1. reactions' = [reactions EXCEPT ![m] = @ \ Same(m, u, e)]
    BY <1>5 DEF ReactDelete
  <2>2. \E f \in Emojis : Same(m, u, e) \subseteq {<<u, f>>}
    <3>1. CASE Same(m, u, e) = {}
      BY <1>1, <3>1
    <3>2. CASE Same(m, u, e) # {}
      <4>1. PICK r \in reactions[m] : r[1] = u /\ Alike(r[2], e)
        BY <3>2 DEF Same
      <4>2. r = <<u, r[2]>> /\ r[2] \in Emojis
        BY <1>3, <4>1
      <4>3. ASSUME NEW s \in Same(m, u, e) PROVE s = r
        <5>1. s \in reactions[m] /\ s[1] = u /\ Alike(s[2], e)
          BY DEF Same
        <5>2. CASE Driver = "mysql"
          BY <1>0, <1>1, <4>1, <5>1, <5>2 DEF OneIfAlike
        <5>3. CASE Driver # "mysql"
          <6>1. s = <<u, s[2]>>
            BY <1>3, <5>1
          <6> QED  BY <4>1, <4>2, <5>1, <5>3, <6>1 DEF Alike
        <5> QED  BY <5>2, <5>3
      <4> QED  BY <4>2, <4>3
    <3> QED  BY <3>1, <3>2
  <2>3. PICK f \in Emojis : Same(m, u, e) \subseteq {<<u, f>>}
    BY <2>2
  <2>4. CASE Same(m, u, e) = {}
    BY <1>0, <1>1, <1>2, <2>1, <2>4 DEF StoreTypes
  <2>5. CASE Same(m, u, e) # {}
    <3>1. Same(m, u, e) = {<<u, f>>}
      BY <2>3, <2>5
    <3> QED  BY <1>1, <1>2, <2>1, <3>1
  <2> QED  BY <2>4, <2>5
<1> QED  BY <1>4, <1>5

\* A reaction statement is an AddReaction or a RemoveReaction, or is not seen: of
\* a message deleted since it passed its checks nothing is seen any more.
LEMMA ViewReact ==
    ASSUME ViewInv, NEW p \in Procs, ReactInsert(p) \/ ReactDelete(p)
    PROVE  joined' = joined /\ (UNCHANGED postsBar \/ View!ConversationNext)
<1> DEFINE m == req[p].msg  u == req[p].user  row == messages[m]  its == reactions[m]
<1>0. StoreTypes
  BY TypeSplit DEF ViewInv, MessageInv
<1>1. /\ UNCHANGED <<joined, messages>>
      /\ m \in Msgs /\ Exists(m) /\ u \in Users /\ u \in joined[row.chat]
  BY ReactOne
<1>2. \/ UNCHANGED reactions
      \/ \E e \in Emojis : reactions' = [reactions EXCEPT ![m] = its \cup {<<u, e>>}]
      \/ \E e \in Emojis : reactions' = [reactions EXCEPT ![m] = its \ {<<u, e>>}]
  BY ReactOne
<1>3. row \in Row /\ its \in SUBSET (Users \X Emojis)
  BY <1>0, <1>1 DEF StoreTypes, Exists
<1>4. /\ View!Sent(m) /\ postsBar[m] \in Post /\ postsBar[m] = Shown(row, its)
      /\ postsBar[m].chat = row.chat /\ postsBar[m].deleted = row.deleted
  BY <1>0, <1>1, Seen
<1>5. ASSUME NEW new \in SUBSET (Users \X Emojis), reactions' = [reactions EXCEPT ![m] = new]
      PROVE  postsBar' = [postsBar EXCEPT ![m] = Shown(row, new)] /\ postsBar'[m] = Shown(row, new)
  <2>1. messages'[m] = row /\ reactions'[m] = new
        /\ \A k \in Msgs \ {m} : messages'[k] = messages[k] /\ reactions'[k] = reactions[k]
    BY <1>0, <1>1, <1>5 DEF StoreTypes
  <2>2. postsBar' = [postsBar EXCEPT ![m] = Shown(row, new)]
    BY <1>1, <2>1, SeenChanges
  <2> QED  BY <1>1, <2>2 DEF postsBar
<1>6. ASSUME row.deleted, NEW new \in SUBSET (Users \X Emojis)
      PROVE  Shown(row, new) = postsBar[m]
  <2>1. Shown(row, new) = Shown(row, its)
    BY <1>6 DEF Shown
  <2> QED  BY <1>4, <2>1
<1>7. ASSUME ~row.deleted, NEW new \in SUBSET (Users \X Emojis)
      PROVE  Shown(row, new) = [postsBar[m] EXCEPT !.reactions = new] /\ postsBar[m].reactions = its
  <2>1. Shown(row, new) = [chat |-> row.chat, sender |-> row.sender, reply |-> row.reply,
                           edited |-> row.edited, deleted |-> row.deleted, reactions |-> new]
    BY <1>3, <1>7, ShownRow
  <2>2. postsBar[m] = [chat |-> row.chat, sender |-> row.sender, reply |-> row.reply,
                       edited |-> row.edited, deleted |-> row.deleted, reactions |-> its]
    BY <1>3, <1>4, <1>7, ShownRow
  <2>3. /\ postsBar[m].chat = row.chat /\ postsBar[m].sender = row.sender
        /\ postsBar[m].reply = row.reply /\ postsBar[m].edited = row.edited
        /\ postsBar[m].deleted = row.deleted /\ postsBar[m].reactions = its
    BY <2>2
  <2>4. [postsBar[m] EXCEPT !.reactions = new] =
            [chat |-> postsBar[m].chat, sender |-> postsBar[m].sender, reply |-> postsBar[m].reply,
             edited |-> postsBar[m].edited, deleted |-> postsBar[m].deleted, reactions |-> new]
    BY <1>4, PostUpdates
  <2> HIDE DEF m, u, row, its
  <2> QED  BY <2>1, <2>3, <2>4
<1>8. ASSUME ~row.deleted, NEW e \in Emojis, NEW new \in SUBSET (Users \X Emojis),
             reactions' = [reactions EXCEPT ![m] = new],
             new = its \cup {<<u, e>>} \/ new = its \ {<<u, e>>}
      PROVE  View!AddReaction(m, u, e) \/ View!RemoveReaction(m, u, e)
  <2>1. postsBar' = [postsBar EXCEPT ![m] = [postsBar[m] EXCEPT !.reactions = new]]
        /\ postsBar[m].reactions = its
    BY <1>5, <1>7, <1>8
  <2>2. View!Acts(u, m)
    BY <1>1, <1>4, <1>8 DEF View!Acts, View!Live
  <2>3. CASE new = its \cup {<<u, e>>}
    <3>1. postsBar' = [postsBar EXCEPT ![m].reactions = @ \cup {<<u, e>>}]
      BY <2>1, <2>3
    <3> QED  BY <1>1, <2>2, <3>1 DEF View!AddReaction
  <2>4. CASE new = its \ {<<u, e>>}
    <3>1. postsBar' = [postsBar EXCEPT ![m].reactions = @ \ {<<u, e>>}]
      BY <2>1, <2>4
    <3> QED  BY <1>1, <2>2, <3>1 DEF View!RemoveReaction
  <2> QED  BY <1>8, <2>3, <2>4
<1>9. ASSUME row.deleted, NEW new \in SUBSET (Users \X Emojis),
             reactions' = [reactions EXCEPT ![m] = new]
      PROVE  UNCHANGED postsBar
  <2>1. postsBar' = [postsBar EXCEPT ![m] = postsBar[m]]
    BY <1>5, <1>6, <1>9
  <2> QED  BY <2>1 DEF postsBar
<1>10. ASSUME NEW e \in Emojis, NEW new \in SUBSET (Users \X Emojis),
              reactions' = [reactions EXCEPT ![m] = new],
              new = its \cup {<<u, e>>} \/ new = its \ {<<u, e>>}
       PROVE  UNCHANGED postsBar \/ View!ConversationNext
  <2>1. UNCHANGED postsBar \/ postsBar'[m] # postsBar[m]
    <3>1. postsBar' = [postsBar EXCEPT ![m] = postsBar'[m]]
      BY <1>5, <1>10
    <3> QED  BY <3>1 DEF postsBar
  <2>2. CASE row.deleted
    BY <1>9, <1>10, <2>2
  <2>3. CASE ~row.deleted
    <3>1. View!AddReaction(m, u, e) \/ View!RemoveReaction(m, u, e)
      BY <1>8, <1>10, <2>3
    <3> QED  BY <1>1, <2>1, <3>1 DEF View!ConversationNext, View!Operation
  <2> QED  BY <2>2, <2>3
<1>11. \A e \in Emojis : its \cup {<<u, e>>} \in SUBSET (Users \X Emojis)
                         /\ its \ {<<u, e>>} \in SUBSET (Users \X Emojis)
  BY <1>1, <1>3
<1>12. UNCHANGED reactions => UNCHANGED postsBar
  BY <1>1, SeenStays
<1>13. ASSUME NEW e \in Emojis, reactions' = [reactions EXCEPT ![m] = its \cup {<<u, e>>}]
       PROVE  UNCHANGED postsBar \/ View!ConversationNext
  <2> DEFINE new == its \cup {<<u, e>>}
  <2>1. new \in SUBSET (Users \X Emojis) /\ reactions' = [reactions EXCEPT ![m] = new]
    BY <1>11, <1>13
  <2>2. new = its \cup {<<u, e>>} \/ new = its \ {<<u, e>>}
    OBVIOUS
  <2> HIDE DEF m, u, its, new
  <2> QED  BY <1>10, <2>1, <2>2
<1>14. ASSUME NEW e \in Emojis, reactions' = [reactions EXCEPT ![m] = its \ {<<u, e>>}]
       PROVE  UNCHANGED postsBar \/ View!ConversationNext
  <2> DEFINE new == its \ {<<u, e>>}
  <2>1. new \in SUBSET (Users \X Emojis) /\ reactions' = [reactions EXCEPT ![m] = new]
    BY <1>11, <1>14
  <2>2. new = its \cup {<<u, e>>} \/ new = its \ {<<u, e>>}
    OBVIOUS
  <2> HIDE DEF m, u, its, new
  <2> QED  BY <1>10, <2>1, <2>2
<1> QED  BY <1>1, <1>2, <1>12, <1>13, <1>14

-----------------------------------------------------------------------------
\* A user never gets a second reaction to a message in MySQL.
LEMMA AlikeKept ==
    ASSUME ViewInv, [Next]_vars
    PROVE  OneIfAlike'
<1>0. StoreTypes /\ OneIfAlike
  BY TypeSplit DEF ViewInv, MessageInv
<1>1. CASE UNCHANGED reactions
  BY <1>0, <1>1 DEF OneIfAlike
<1>2. ASSUME NEW p \in Procs, ReactInsert(p) \/ ReactDelete(p), ~UNCHANGED reactions
      PROVE  OneIfAlike'
  <2> DEFINE m == req[p].msg  u == req[p].user
  <2>1. m \in Msgs /\ reactions[m] \in SUBSET (Users \X Emojis)
    BY <1>0, <1>2, ReactOne DEF StoreTypes
  <2>2. PICK e \in Emojis :
          \/ /\ reactions' = [reactions EXCEPT ![m] = @ \cup {<<u, e>>}]
             /\ Driver = "mysql" => \A r \in reactions[m] : r[1] # u
          \/ reactions' = [reactions EXCEPT ![m] = @ \ {<<u, e>>}]
    BY <1>2, ReactOne
  <2>3. /\ \A k \in Msgs \ {m} : reactions'[k] = reactions[k]
        /\ \/ /\ reactions'[m] = reactions[m] \cup {<<u, e>>}
              /\ Driver = "mysql" => \A r \in reactions[m] : r[1] # u
           \/ reactions'[m] = reactions[m] \ {<<u, e>>}
    BY <1>0, <2>1, <2>2 DEF StoreTypes
  <2>4. ASSUME Driver = "mysql", NEW k \in Msgs, NEW r \in reactions'[k], NEW s \in reactions'[k],
               r[1] = s[1]
        PROVE  r = s
    <3>1. CASE r \in reactions[k] /\ s \in reactions[k]
      BY <1>0, <2>4, <3>1 DEF OneIfAlike
    <3>2. CASE ~(r \in reactions[k] /\ s \in reactions[k])
      <4>1. k = m /\ r \in reactions[m] \cup {<<u, e>>} /\ s \in reactions[m] \cup {<<u, e>>}
            /\ \A t \in reactions[m] : t[1] # u
        BY <2>3, <2>4, <3>2
      <4>2. <<u, e>>[1] = u
        OBVIOUS
      <4> QED  BY <2>4, <3>2, <4>1, <4>2
    <3> QED  BY <3>1, <3>2
  <2> QED  BY <2>4 DEF OneIfAlike
<1>3. ASSUME NEW p \in Procs, Arrive(p) PROVE UNCHANGED reactions
  BY <1>3, ArriveTypes DEF ViewInv, store
<1>4. UNCHANGED reactions \/ \E p \in Procs : ReactInsert(p) \/ ReactDelete(p)
  BY <1>3
  DEF Next, Step, SendReply, SendCreate, EditUpdate, DeleteUpdate, Fail, Join, store, vars
<1> QED  BY <1>1, <1>2, <1>4

\* Every step is a step of Conversation, or is not seen.
LEMMA ViewStep ==
    ASSUME ViewInv, [Next]_vars
    PROVE  [View!ConversationNext]_(View!conversationVars)
<1>0. MessageInv
  BY DEF ViewInv
<1> USE DEF View!conversationVars
<1>1. ASSUME UNCHANGED <<joined, messages, reactions>>
      PROVE  [View!ConversationNext]_(View!conversationVars)
  BY <1>1, SeenStays
<1>2. ASSUME NEW p \in Procs, Arrive(p)
      PROVE  [View!ConversationNext]_(View!conversationVars)
  BY <1>0, <1>1, <1>2, ArriveTypes DEF store
<1>3. ASSUME NEW p \in Procs, SendReply(p) \/ Fail(p)
      PROVE  [View!ConversationNext]_(View!conversationVars)
  BY <1>1, <1>3 DEF SendReply, Fail, store
<1>4. ASSUME NEW p \in Procs, SendCreate(p)
      PROVE  [View!ConversationNext]_(View!conversationVars)
  BY <1>0, <1>4, ViewCreate
<1>5. ASSUME NEW p \in Procs, EditUpdate(p) \/ DeleteUpdate(p)
      PROVE  [View!ConversationNext]_(View!conversationVars)
  BY <1>0, <1>5, ViewUpdate
<1>6. ASSUME NEW p \in Procs, ReactInsert(p) \/ ReactDelete(p)
      PROVE  [View!ConversationNext]_(View!conversationVars)
  BY <1>6, ViewReact
<1>7. ASSUME NEW c \in Chats, NEW u \in Users, Join(c, u)
      PROVE  [View!ConversationNext]_(View!conversationVars)
  <2>1. UNCHANGED postsBar
    BY <1>7, SeenStays DEF Join, store
  <2> QED  BY <1>7, <2>1 DEF Join, View!Join, View!ConversationNext
<1> QED  BY <1>1, <1>2, <1>3, <1>4, <1>5, <1>6, <1>7 DEF Next, Step, vars

\* Messages implements Conversation: whatever the requests that run at once, the
\* readers of a chat see each take effect in one step or not at all, also with
\* the collation of MySQL, where the reaction that goes may be another of the user's.
THEOREM RequestsTakeEffectAtOnce == Spec => ImplementsConversation
<1>1. Init => ViewInv /\ View!ConversationInit
  <2>1. Init => OneIfAlike
    BY DEF Init, OneIfAlike
  <2>2. Init => View!ConversationInit
    BY DEF Init, View!ConversationInit, postsBar, Shown
  <2> QED  BY <2>1, <2>2, MessageInitial DEF ViewInv
<1>2. ViewInv /\ [Next]_vars => ViewInv'
  BY AlikeKept, MessageStep DEF ViewInv
<1>3. ViewInv /\ [Next]_vars => [View!ConversationNext]_(View!conversationVars)
  BY ViewStep
<1> QED  BY <1>1, <1>2, <1>3, PTL DEF Spec, ImplementsConversation, View!ConversationSpec

=============================================================================
