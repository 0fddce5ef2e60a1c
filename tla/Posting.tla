------------------------------ MODULE Posting -------------------------------
(***************************************************************************)
(* Send of the message use case (usecase/message/message.go) over the      *)
(* membership cache: assertMember is answered by the entry of              *)
(* ismember:<chat>:<user> or, on a miss, by the row, which is then cached; *)
(* the INSERT follows in a later step.  Edit, Delete, MarkRead and the     *)
(* reactions ask in the same way.  The sender is the user of the row.      *)
(***************************************************************************)
EXTENDS MembershipCache

VARIABLE sending   \* per goroutine: "no", "asking" (missed the cache) or "allowed"

postVars == <<vars, sending>>

PostInit == Init /\ sending = [p \in Procs |-> "no"]

Sending(p, state) == sending' = [sending EXCEPT ![p] = state]

\* assertMember with a hit: only a "1" lets the request go on.
SendHit(p) ==
    /\ pc[p] = "idle" /\ sending[p] = "no"
    /\ entry["ismember"] = "1"
    /\ Sending(p, "allowed")
    /\ UNCHANGED vars

\* assertMember with a miss, or a Get that failed.
SendMiss(p) ==
    /\ sending[p] = "no"
    /\ IsMember(p)
    /\ Sending(p, "asking")

\* The row has answered, and the answer is cached.
SendAsked(p) ==
    /\ sending[p] = "asking"
    /\ IsMemberFill(p)
    /\ Sending(p, IF val[p] = "none" THEN "no" ELSE "allowed")

\* messages.Create, or the error of a statement.
SendCreate(p) ==
    /\ sending[p] = "allowed"
    /\ Sending(p, "no")
    /\ UNCHANGED vars

Others(p) == sending[p] = "no" /\ (Call(p) \/ Finish(p)) /\ UNCHANGED sending

PostFinish(p) ==
    \/ SendAsked(p) \/ SendCreate(p)
    \/ sending[p] = "no" /\ Finish(p) /\ UNCHANGED sending
PostExpire(k) == Expire(k) /\ UNCHANGED sending

PostNext ==
    \/ \E p \in Procs : Others(p) \/ SendHit(p) \/ SendMiss(p) \/ SendAsked(p) \/ SendCreate(p)
    \/ \E k \in Keys : PostExpire(k)

\* A goroutine goes on, and a TTL runs out (the configured TTLs are positive:
\* cache/config.go); callers need not call.
PostSpec ==
    /\ PostInit /\ [][PostNext]_postVars
    /\ \A p \in Procs : WF_postVars(PostFinish(p))
    /\ \A k \in Keys : WF_postVars(PostExpire(k))

-----------------------------------------------------------------------------
\* Once memberships no longer change, the cache agrees with the database for
\* good after a while, and a removed member can no longer send, whatever was
\* cached, raced or lost before: this is what the TTL on every Set is for
\* (cached/chat.go:83-92, message.go:240-249).
EventuallyEnforced ==
    <>[](/\ \A k \in Keys : ~Stale(k)
         /\ row = "none" => \A p \in Procs : sending[p] # "allowed")

=============================================================================
