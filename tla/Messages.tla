------------------------------ MODULE Messages ------------------------------
(***************************************************************************)
(* The message use case (internal/usecase/message/message.go) over the SQL *)
(* message repository (storage/postgres/message.go, storage/mysql/...):    *)
(* sending, editing and deleting messages and reacting to them.  Read      *)
(* receipts are in module ReadReceipts, history pages in module Inbox.     *)
(*                                                                         *)
(* A process p in Procs is the goroutine of one HTTP request; each action  *)
(* is one SQL statement with the Go code up to the next one.               *)
(*                                                                         *)
(* The chat use case (ChatService) changes memberships at any time, and    *)
(* the answer to a membership check may come from a cache and be old       *)
(* (Posting).  So all that is known of a user who passes the check is that *)
(* he has been a member of the chat at some time.                          *)
(***************************************************************************)
EXTENDS Naturals, FiniteSets

CONSTANTS
    Users, Chats,
    Msgs,        \* message ids (uuid.New)
    Emojis,
    Procs,       \* request goroutines
    Driver,      \* storage.type: "postgres" or "mysql"
    Nil,         \* no message, no reply, no request
    MaxReactions \* bound on the reactions in the table

ASSUME ReactionsAssumption == MaxReactions \in Nat
ASSUME MessageDriverAssumption == Driver \in {"postgres", "mysql"}

VARIABLES
    joined,      \* who has been a member of each chat so far
    messages,    \* the row of each message id, or Nil
    reactions,   \* message_reactions: pairs of user and emoji
    pc, req      \* the next statement of each goroutine and its request

vars == <<joined, messages, reactions, pc, req>>
store == <<messages, reactions>>

Row == [chat : Chats, sender : Users, reply : Msgs \cup {Nil},
        edited : BOOLEAN, deleted : BOOLEAN]

\* A message as it is shown, with its reactions.
Post == [chat : Chats, sender : Users, reply : Msgs \cup {Nil},
         edited : BOOLEAN, deleted : BOOLEAN, reactions : SUBSET (Users \X Emojis)]

ASSUME NilAssumption == Nil \notin Row \cup Post

\* The operations on one message.
Targeted == {"edit", "delete", "react", "unreact"}

\* msg is the message a request is about (for Send the one it replies to).
Request == [op : Targeted \cup {"send"}, user : Users, chat : Chats,
            msg : Msgs \cup {Nil}, emoji : Emojis \cup {Nil}]

Labels == {"idle", "sendReply", "sendCreate", "write"}

TypeOK ==
    /\ joined \in [Chats -> SUBSET Users]
    /\ messages \in [Msgs -> Row \cup {Nil}]
    /\ reactions \in [Msgs -> SUBSET (Users \X Emojis)]
    /\ pc \in [Procs -> Labels]
    /\ req \in [Procs -> Request \cup {Nil}]
    /\ \A p \in Procs : pc[p] # "idle" => req[p] \in Request

\* Each chat starts with the members CreateWithMembers gave it, its creator
\* at least.
Init ==
    /\ joined \in [Chats -> SUBSET Users \ {{}}]
    /\ messages = [m \in Msgs |-> Nil]
    /\ reactions = [m \in Msgs |-> {}]
    /\ pc = [p \in Procs |-> "idle"]
    /\ req = [p \in Procs |-> Nil]

-----------------------------------------------------------------------------
Goto(p, label) == pc' = [pc EXCEPT ![p] = label] /\ UNCHANGED req
Return(p) == pc' = [pc EXCEPT ![p] = "idle"] /\ req' = [req EXCEPT ![p] = Nil]

Begin(p, label, r) ==
    /\ pc[p] = "idle"
    /\ pc' = [pc EXCEPT ![p] = label]
    /\ req' = [req EXCEPT ![p] = r]

Exists(m) == messages[m] # Nil

\* Faulty variant: no membership check.
AnyMember(c, u) == TRUE

\* assertMember may say yes, by the row or by an old answer; it may also say
\* no, to anybody who is not a member now.
IsMember(c, u) == u \in joined[c]

-----------------------------------------------------------------------------
(* Send. *)

SendBegin(p, u, c, reply) ==
    /\ IsMember(c, u)
    /\ Begin(p, IF reply = Nil THEN "sendCreate" ELSE "sendReply",
             [op |-> "send", user |-> u, chat |-> c, msg |-> reply, emoji |-> Nil])
    /\ UNCHANGED <<joined, store>>

\* Faulty variant: the chat of the message replied to is not compared.
SendReplyAnywhere(p) ==
    /\ pc[p] = "sendReply"
    /\ \/ Exists(req[p].msg) /\ Goto(p, "sendCreate")
       \/ ~Exists(req[p].msg) /\ Return(p)
    /\ UNCHANGED <<joined, store>>

\* GetByID of the message replied to: it must exist in the same chat; it may
\* be deleted.
SendReply(p) ==
    LET m  == req[p].msg
        ok == Exists(m) /\ messages[m].chat = req[p].chat
    IN  /\ pc[p] = "sendReply"
        /\ \/ ok /\ Goto(p, "sendCreate")
           \/ ~ok /\ Return(p)
        /\ UNCHANGED <<joined, store>>

SendCreate(p) ==
    /\ pc[p] = "sendCreate"
    /\ \E m \in Msgs :
          /\ ~Exists(m)
          /\ messages' = [messages EXCEPT ![m] =
                [chat |-> req[p].chat, sender |-> req[p].user, reply |-> req[p].msg,
                 edited |-> FALSE, deleted |-> FALSE]]
    /\ Return(p)
    /\ UNCHANGED <<joined, reactions>>

-----------------------------------------------------------------------------
(* Edit, Delete, AddReaction, RemoveReaction: GetByID and its checks, then   *)
(* assertMember, then the statement.                                        *)

MayTouch(op, m, u) ==
    /\ Exists(m) /\ ~messages[m].deleted
    /\ op \in {"edit", "delete"} => messages[m].sender = u

TouchBegin(p, op, u, m, emoji) ==
    /\ MayTouch(op, m, u)
    /\ Begin(p, "write",
             [op |-> op, user |-> u, chat |-> messages[m].chat, msg |-> m, emoji |-> emoji])
    /\ UNCHANGED <<joined, store>>

\* assertMember is asked together with the write: its answer only ever turns
\* from no to yes here, so asking earlier adds no behaviour.
Writing(p, op) ==
    /\ pc[p] = "write" /\ req[p].op = op
    /\ IsMember(req[p].chat, req[p].user)

\* Faulty variant: UPDATE without AND deleted_at IS NULL.
EditUpdateAny(p) ==
    /\ Writing(p, "edit")
    /\ messages' = [messages EXCEPT ![req[p].msg].edited = TRUE]
    /\ Return(p)
    /\ UNCHANGED <<joined, reactions>>

\* UPDATE ... WHERE deleted_at IS NULL; no row is ErrMessageNotFound.
EditUpdate(p) ==
    /\ Writing(p, "edit")
    /\ messages' = IF messages[req[p].msg].deleted THEN messages
                   ELSE [messages EXCEPT ![req[p].msg].edited = TRUE]
    /\ Return(p)
    /\ UNCHANGED <<joined, reactions>>

DeleteUpdate(p) ==
    /\ Writing(p, "delete")
    /\ messages' = [messages EXCEPT ![req[p].msg].deleted = TRUE]
    /\ Return(p)
    /\ UNCHANGED <<joined, reactions>>

\* In MySQL the column emoji has the collation utf8mb4_unicode_ci, in which all
\* characters outside the basic plane, and so most emojis, are equal.
Alike(e, f) == e = f \/ Driver = "mysql"

\* The rows of a user that an emoji stands for, among those of a message.
Same(m, u, e) == {r \in reactions[m] : r[1] = u /\ Alike(r[2], e)}

Reactions == {x \in Msgs \X Users \X Emojis : <<x[2], x[3]>> \in reactions[x[1]]}

\* INSERT ... ON CONFLICT DO NOTHING (INSERT IGNORE), also if the message was
\* deleted since.
ReactInsert(p) ==
    LET r == req[p] IN
    /\ Writing(p, "react")
    /\ reactions' = IF Same(r.msg, r.user, r.emoji) # {} THEN reactions
                    ELSE [reactions EXCEPT ![r.msg] = @ \cup {<<r.user, r.emoji>>}]
    /\ Cardinality(Reactions') <= MaxReactions
    /\ Return(p)
    /\ UNCHANGED <<joined, messages>>

\* Faulty variant: DELETE without AND user_id = $2.
ReactDeleteAll(p) ==
    /\ Writing(p, "unreact")
    /\ reactions' = [reactions EXCEPT ![req[p].msg] = @ \ (Users \X {req[p].emoji})]
    /\ Return(p)
    /\ UNCHANGED <<joined, messages>>

ReactDelete(p) ==
    LET r == req[p] IN
    /\ Writing(p, "unreact")
    /\ reactions' = [reactions EXCEPT ![r.msg] = @ \ Same(r.msg, r.user, r.emoji)]
    /\ Return(p)
    /\ UNCHANGED <<joined, messages>>

\* A statement fails, the membership check says no, or the request is
\* cancelled: nothing has been written.
Fail(p) ==
    /\ pc[p] # "idle"
    /\ Return(p)
    /\ UNCHANGED <<joined, store>>

-----------------------------------------------------------------------------
\* AddMember of the chat use case.
Join(c, u) ==
    /\ u \notin joined[c]
    /\ joined' = [joined EXCEPT ![c] = @ \cup {u}]
    /\ UNCHANGED <<store, pc, req>>

-----------------------------------------------------------------------------
Arrive(p) == \E u \in Users :
    \/ \E c \in Chats, reply \in Msgs \cup {Nil} : SendBegin(p, u, c, reply)
    \/ \E m \in Msgs :
          \/ \E op \in {"edit", "delete"} : TouchBegin(p, op, u, m, Nil)
          \/ \E e \in Emojis, op \in {"react", "unreact"} : TouchBegin(p, op, u, m, e)

Step(p) ==
    \/ SendReply(p) \/ SendCreate(p)
    \/ EditUpdate(p) \/ DeleteUpdate(p) \/ ReactInsert(p) \/ ReactDelete(p)
    \/ Fail(p)

Next ==
    \/ \E p \in Procs : Arrive(p) \/ Step(p)
    \/ \E c \in Chats, u \in Users : Join(c, u)

Spec == Init /\ [][Next]_vars

-----------------------------------------------------------------------------
\* A reply names a message that exists in the same chat, whatever happened to
\* it or to the chat since (message.go:30-38).
RepliesStayInChat ==
    \A m \in Msgs : Exists(m) /\ messages[m].reply # Nil =>
        /\ Exists(messages[m].reply)
        /\ messages[messages[m].reply].chat = messages[m].chat

\* Messages and reactions come from users who have been members of the chat:
\* nobody writes into a chat he never belonged to (message.go:26, 191),
\* although the check and the write are separate statements.
WrittenByMembers ==
    \A m \in Msgs : Exists(m) =>
        /\ messages[m].sender \in joined[messages[m].chat]
        /\ \A r \in reactions[m] : r[1] \in joined[messages[m].chat]

\* The requests that have passed their checks on message m and not ended.
Touching(m) == {p \in Procs : pc[p] # "idle" /\ req[p].op \in Targeted /\ req[p].msg = m}

\* Deletion is final.  An Edit that has passed its checks before the message
\* was deleted does not change it any more (postgres/message.go:107); a late
\* reaction is still inserted (postgres/message.go:160), but the requests under
\* way only run out, and with them the reactions come to rest.
DeletionIsFinal ==
    [][\A m \in Msgs : Exists(m) /\ messages[m].deleted =>
          /\ messages'[m] = messages[m]
          /\ Touching(m)' \subseteq Touching(m)
          /\ Touching(m) = {} => reactions'[m] = reactions[m]]_vars

\* A message is changed or deleted by a request of its author only, and a
\* reaction appears or disappears by a request of its user about that emoji
\* only (message.go:77, 110; postgres/message.go:171).  With MySQL the latter
\* is not so: removing one reaction removes another (mysql/message.go:184).
OwnHandOnly ==
    [][\A m \in Msgs :
          /\ Exists(m) /\ messages'[m] # messages[m] =>
                \E p \in Procs : /\ pc[p] # "idle" /\ pc'[p] = "idle"
                                 /\ req[p].msg = m /\ req[p].user = messages[m].sender
          /\ \A r \in (reactions[m] \cup reactions'[m]) \ (reactions[m] \cap reactions'[m]) :
                \E p \in Procs : /\ pc[p] # "idle" /\ pc'[p] = "idle"
                                 /\ req[p].msg = m /\ req[p].user = r[1]
                                 /\ req[p].emoji = r[2]]_vars

-----------------------------------------------------------------------------
\* What the readers of a chat see of a row: nothing, or the message with its
\* reactions, which GetHistory reads for messages that are not deleted only.
Shown(row, its) ==
    IF row = Nil THEN Nil
    ELSE [chat |-> row.chat, sender |-> row.sender, reply |-> row.reply,
          edited |-> row.edited, deleted |-> row.deleted,
          reactions |-> IF row.deleted THEN {} ELSE its]

postsBar == [m \in Msgs |-> Shown(messages[m], reactions[m])]

View == INSTANCE Conversation WITH posts <- postsBar

\* To its readers every request takes effect at once, with its last statement,
\* or not at all: a reply is to a message of its chat, only the author changes
\* a live message and only members react to one, although checks and write are
\* separate statements (message.go:22-64, 66-100, 102-128, 179-210, 212-238).
\* What comes too late for a deleted message is seen by nobody.
ImplementsConversation == View!ConversationSpec

=============================================================================
