---------------------------- MODULE Conversation ----------------------------
(***************************************************************************)
(* What the message use case promises, as the readers of a chat see it:    *)
(* posts[m] is message m with its reactions, and each operation takes      *)
(* place at once.  A deleted message shows no reactions, because           *)
(* GetHistory leaves it out.  Messages is shown to implement this.         *)
(***************************************************************************)
CONSTANTS
    Users, Chats, Msgs, Emojis,
    Nil          \* not sent; no reply

VARIABLES
    joined,      \* who has been a member of each chat so far
    posts        \* each message and its reactions, or Nil

conversationVars == <<joined, posts>>

ConversationInit ==
    /\ joined \in [Chats -> SUBSET Users \ {{}}]
    /\ posts = [m \in Msgs |-> Nil]

Sent(m) == posts[m] # Nil
Live(m) == Sent(m) /\ ~posts[m].deleted

Send(m, u, c, reply) ==
    /\ ~Sent(m)
    /\ u \in joined[c]
    /\ reply # Nil => Sent(reply) /\ posts[reply].chat = c
    /\ posts' = [posts EXCEPT ![m] =
          [chat |-> c, sender |-> u, reply |-> reply,
           edited |-> FALSE, deleted |-> FALSE, reactions |-> {}]]
    /\ UNCHANGED joined

\* u may act on message m.
Acts(u, m) == Live(m) /\ u \in joined[posts[m].chat]

Edit(m, u) ==
    /\ Acts(u, m) /\ posts[m].sender = u
    /\ posts' = [posts EXCEPT ![m].edited = TRUE]
    /\ UNCHANGED joined

Delete(m, u) ==
    /\ Acts(u, m) /\ posts[m].sender = u
    /\ posts' = [posts EXCEPT ![m].deleted = TRUE, ![m].reactions = {}]
    /\ UNCHANGED joined

AddReaction(m, u, e) ==
    /\ Acts(u, m)
    /\ posts' = [posts EXCEPT ![m].reactions = @ \cup {<<u, e>>}]
    /\ UNCHANGED joined

RemoveReaction(m, u, e) ==
    /\ Acts(u, m)
    /\ posts' = [posts EXCEPT ![m].reactions = @ \ {<<u, e>>}]
    /\ UNCHANGED joined

Join(c, u) ==
    /\ joined' = [joined EXCEPT ![c] = @ \cup {u}]
    /\ UNCHANGED posts

\* Message m changes, by an operation of one user.
Operation(m) ==
    /\ posts'[m] # posts[m]
    /\ \E u \in Users :
          \/ \E c \in Chats, reply \in Msgs \cup {Nil} : Send(m, u, c, reply)
          \/ Edit(m, u) \/ Delete(m, u)
          \/ \E e \in Emojis : AddReaction(m, u, e) \/ RemoveReaction(m, u, e)

ConversationNext ==
    \/ \E m \in Msgs : Operation(m)
    \/ \E c \in Chats, u \in Users : Join(c, u)

ConversationSpec == ConversationInit /\ [][ConversationNext]_conversationVars

=============================================================================
