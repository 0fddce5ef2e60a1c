----------------------------- MODULE NextOwner ------------------------------
(***************************************************************************)
(* ChatService with the order in which ChatRepository.GetMembers lists the *)
(* members (ORDER BY joined_at, user_id) and with the loop of nextOwner    *)
(* (usecase/chat/chat.go) over that list.  Where ChatService lets LeaveChat*)
(* pick any of Successors, here it picks what the loop returns.            *)
(***************************************************************************)
EXTENDS ChatService, SequencesExt

\* The users table is finite.
ASSUME FiniteAssumption == IsFiniteSet(Users)

VARIABLE list   \* the members of each chat as GetMembers lists them

listVars == <<vars, list>>

ListInit == Init /\ list = [c \in Chats |-> <<>>]

\* Faulty variant: the last member met wins.
RoundLast(state, m, exclude) ==
    IF state.done \/ m.user = exclude THEN state
    ELSE [done |-> m.role = "admin", pick |-> {m.user}]

\* One round of the loop: the caller is skipped, an admin is returned at once,
\* and the first other member is the fallback.
Round(state, m, exclude) ==
    IF state.done \/ m.user = exclude THEN state
    ELSE IF m.role = "admin" THEN [done |-> TRUE, pick |-> {m.user}]
    ELSE IF state.pick = {} THEN [done |-> FALSE, pick |-> {m.user}]
    ELSE state

\* The state of the loop after each round.
Rounds(members_, exclude) ==
    LET scan[i \in 0 .. Len(members_)] ==
            IF i = 0 THEN [done |-> FALSE, pick |-> {}]
            ELSE Round(scan[i - 1], members_[i], exclude)
    IN  scan

\* {} stands for the nil pointer.
nextOwner(members_, exclude) == Rounds(members_, exclude)[Len(members_)].pick

GetMembers(c) == [i \in DOMAIN list[c] |->
                     [user |-> list[c][i], role |-> members[c][list[c][i]]]]

Members(c) == {u \in Users : IsMember(c, u)}

\* u is listed before v.
Earlier(c, u, v) ==
    \E i, j \in DOMAIN list[c] : i < j /\ list[c][i] = u /\ list[c][j] = v

\* The orders in which the members of c may be listed after this step.  Those
\* who stay keep theirs and one who is added comes last; the members of a new
\* chat share their joined_at, and their ids, drawn at random, decide.
Listings(c) ==
    {s \in SetToSeqs(Members(c)') :
        \A i, j \in DOMAIN s : i < j => s[j] \notin Members(c) \/ Earlier(c, s[i], s[j])}

\* No statement changes the members of two chats.
Relist ==
    \E c \in Chats :
        /\ \A d \in Chats \ {c} : members'[d] = members[d]
        /\ \E s \in Listings(c) : list' = [list EXCEPT ![c] = s]

\* LeaveChat with a successor, chosen by the loop.
Chosen(p) ==
    pc[p] = "leaveMembers" /\ pc'[p] = "leavePromote" =>
        {req'[p].target} = nextOwner(GetMembers(req[p].chat), req[p].caller)

ListNext ==
    /\ Next
    /\ \A p \in Procs : Chosen(p)
    /\ Relist

ListSpec == ListInit /\ [][ListNext]_listVars

-----------------------------------------------------------------------------
Position(c, u) == CHOOSE i \in DOMAIN list[c] : list[c][i] = u

\* "LeaveChat transfers ownership to the oldest admin/member when the owner
\* leaves" (usecase/chat/usecase.go): whatever joins, departures and changes
\* of role came before, the loop (chat.go:361-376) returns the admin, or if
\* there is none the member, who is first in the list, and nobody only for a
\* caller who is alone.
PicksOldest ==
    \A c \in Chats : \A u \in Members(c) :
        LET candidates == Successors(c, u) IN
        nextOwner(GetMembers(c), u) =
            {v \in candidates : \A w \in candidates : Position(c, v) <= Position(c, w)}

\* v has been in the chat longest of those who may succeed u.
Oldest(c, u, v) ==
    \A w \in Successors(c, u) : Position(c, v) <= Position(c, w)

\* "LeaveChat transfers ownership to the oldest admin/member when the owner
\* leaves" (usecase/chat/usecase.go:24), and no other operation makes an owner
\* of an existing chat.  The group may have several owners by then, when
\* earlier LeaveChats were cut off between promotion and removal
\* (chat.go:333-341), and then it is one of those who leaves.
SuccessionByAge ==
    [][\A c \in Chats, v \in Users :
          kind[c] # "absent" /\ members[c][v] # "owner" /\ members'[c][v] = "owner" =>
              \E u \in Users \ {v} : /\ members[c][u] = "owner"
                                     /\ v \in Successors(c, u) /\ Oldest(c, u, v)]_listVars

=============================================================================
