----------------------------- MODULE ChatGroup ------------------------------
(***************************************************************************)
(* What the chat use case promises a client: every operation happens at    *)
(* once.  No requests and no statements, and of failures only the one a    *)
(* client can see in the result (HandOverHalf); the comments on the        *)
(* UseCase interface (internal/usecase/chat/usecase.go) and the API        *)
(* description (docs/openapi.yaml) read this way.                          *)
(***************************************************************************)
EXTENDS Naturals

CONSTANTS Users, Registered, Chats

VARIABLES
    status,   \* "absent", "direct", "group" or "gone"
    roster    \* the role of each user in each chat, "none" for a non-member

groupVars == <<status, roster>>

In(c, u) == roster[c][u] # "none"
Manages(c, u) == roster[c][u] \in {"owner", "admin"}

GroupInit ==
    /\ status = [c \in Chats |-> "absent"]
    /\ roster = [c \in Chats |-> [u \in Users |-> "none"]]

Found(c, owner, ids) ==
    /\ status[c] = "absent"
    /\ ids \subseteq Registered
    /\ status' = [status EXCEPT ![c] = "group"]
    /\ roster' = [roster EXCEPT ![c] = [u \in Users |-> IF u = owner THEN "owner"
                                        ELSE IF u \in ids THEN "member" ELSE "none"]]

\* "CreateDirect opens a 1-to-1 chat, or returns the existing one."
OpenDirect(c, a, b) ==
    /\ status[c] = "absent"
    /\ a # b
    /\ ~\E d \in Chats : status[d] = "direct" /\ In(d, a) /\ In(d, b)
    /\ status' = [status EXCEPT ![c] = "direct"]
    /\ roster' = [roster EXCEPT ![c] = [u \in Users |-> IF u \in {a, b} THEN "member"
                                                                        ELSE "none"]]

Admit(c, by, u) ==
    /\ status[c] = "group" /\ Manages(c, by) /\ ~In(c, u)
    /\ roster' = [roster EXCEPT ![c][u] = "member"]
    /\ UNCHANGED status

\* "owners/admins remove members; only owner can remove admins"
Expel(c, by, u) ==
    /\ status[c] = "group" /\ Manages(c, by)
    /\ \/ roster[c][u] = "member"
       \/ roster[c][u] = "admin" /\ roster[c][by] = "owner"
    /\ roster' = [roster EXCEPT ![c][u] = "none"]
    /\ UNCHANGED status

\* "ChangeMemberRole: owner only."
Grade(c, by, u, role) ==
    /\ status[c] = "group" /\ roster[c][by] = "owner" /\ u # by /\ In(c, u)
    /\ roster' = [roster EXCEPT ![c][u] = role]
    /\ UNCHANGED status

\* "ownership is transferred to the next admin (or any member if no admin
\* exists)"
HandOver(c, owner, heir) ==
    /\ status[c] = "group" /\ roster[c][owner] = "owner" /\ heir # owner /\ In(c, heir)
    /\ \/ roster[c][heir] = "admin"
       \/ \A u \in Users \ {owner} : roster[c][u] # "admin"
    /\ roster' = [roster EXCEPT ![c][owner] = "none", ![c][heir] = "owner"]
    /\ UNCHANGED status

\* A hand-over that a database error cuts off after the promotion.
HandOverHalf(c, owner, heir) ==
    /\ status[c] = "group" /\ roster[c][owner] = "owner" /\ heir # owner /\ In(c, heir)
    /\ \/ roster[c][heir] = "admin"
       \/ \A u \in Users \ {owner} : roster[c][u] # "admin"
    /\ roster' = [roster EXCEPT ![c][heir] = "owner"]
    /\ UNCHANGED status

LeaveAsMember(c, u) ==
    /\ status[c] = "group" /\ roster[c][u] \in {"admin", "member"}
    /\ roster' = [roster EXCEPT ![c][u] = "none"]
    /\ UNCHANGED status

\* "If the caller is the last member the group is deleted entirely."
Disband(c, owner) ==
    /\ status[c] = "group" /\ roster[c][owner] = "owner"
    /\ \A u \in Users \ {owner} : ~In(c, u)
    /\ status' = [status EXCEPT ![c] = "gone"]
    /\ UNCHANGED roster

\* What a registered user can ask for and get.
Operation ==
    \E c \in Chats, a \in Registered :
        \/ \E ids \in SUBSET Registered : Found(c, a, ids)
        \/ LeaveAsMember(c, a)
        \/ Disband(c, a)
        \/ \E b \in Registered :
              \/ OpenDirect(c, a, b)
              \/ Admit(c, a, b)
              \/ Expel(c, a, b)
              \/ \E role \in {"admin", "member"} : Grade(c, a, b, role)
              \/ HandOver(c, a, b)

CutOff == \E c \in Chats, a, b \in Registered : HandOverHalf(c, a, b)

\* A request that is refused is no step.
GroupNext ==
    /\ roster' # roster \/ status' # status
    /\ Operation \/ CutOff

GroupSpec == GroupInit /\ [][GroupNext]_groupVars

\* A group has one owner and never two.
OneOwner == \A c \in Chats : status[c] = "group" =>
    \E o \in Users : \A u \in Users : roster[c][u] = "owner" <=> u = o

=============================================================================
