------------------------------ MODULE Accounts ------------------------------
(***************************************************************************)
(* Accounts and their tokens: Register, Login, RefreshToken and            *)
(* UpdateProfile of the user use case (internal/usecase/user/user.go) over *)
(* the users table (storage/postgres/user.go, storage/mysql/user.go) and   *)
(* the user:<id> keys of the cached repository (storage/cached/user.go).   *)
(*                                                                         *)
(* Register and UpdateProfile look before they write; only the partial     *)
(* unique indexes see what happens in between.  Each step of a request     *)
(* goroutine p is one SQL statement or one cache command, or one call that *)
(* takes time (bcrypt) or can fail (signing).  Passwords are left out:     *)
(* Login is called by whoever knows the password.                          *)
(***************************************************************************)
CONSTANTS
    Ids,          \* user ids (uuid.New)
    Emails, Names,
    Procs,        \* request goroutines
    Nil           \* no row, no entry, no request, no value

VARIABLES
    row,         \* the users row of each id, or Nil
    cache,       \* the name in the cached copy of each row, or Nil
    pc, req,     \* the next step of each goroutine and its request
    issued,      \* ids for which unexpired tokens exist
    confirmed,   \* history: ids whose Register has answered with tokens
    orphaned     \* history: ids whose Register failed and was not undone

vars == <<row, cache, pc, req, issued, confirmed, orphaned>>

Row     == [email : Emails, name : Names, live : BOOLEAN]
Labels  == {"idle", "regName", "regCreate", "regTokens", "regUndo", "tokens",
            "refreshFill", "profileFill", "profileName", "profileWrite", "invalidate"}

ASSUME NilAssumption == Nil \notin Row /\ Nil \notin Ids /\ Nil \notin Names

\* What the rest of a request needs: name is the requested one (Nil to leave it
\* unchanged), copy the one of the row that GetByID returned.
Request == [id : Ids \cup {Nil}, email : Emails \cup {Nil},
            name : Names \cup {Nil}, copy : Names \cup {Nil}]

TypeOK ==
    /\ row \in [Ids -> Row \cup {Nil}]
    /\ cache \in [Ids -> Names \cup {Nil}]
    /\ pc \in [Procs -> Labels]
    /\ req \in [Procs -> Request \cup {Nil}]
    /\ \A p \in Procs : pc[p] # "idle" => req[p] \in Request
    /\ issued \subseteq Ids /\ confirmed \subseteq Ids /\ orphaned \subseteq Ids

Init ==
    /\ row = [i \in Ids |-> Nil]
    /\ cache = [i \in Ids |-> Nil]
    /\ pc = [p \in Procs |-> "idle"]
    /\ req = [p \in Procs |-> Nil]
    /\ issued = {} /\ confirmed = {} /\ orphaned = {}

Live == {i \in Ids : row[i] # Nil /\ row[i].live}

\* GetByEmail, GetByUsername
ByEmail(e) == {i \in Live : row[i].email = e}
ByName(n)  == {i \in Live : row[i].name = n}

\* Faulty variant: plain indexes.
NoConflict(i, e, n) == FALSE

\* uidx_users_email, uidx_users_username: a live row other than i has the value.
Conflict(i, e, n) == \E j \in Live \ {i} : row[j].email = e \/ row[j].name = n

Continue(p, label, r) ==
    /\ pc' = [pc EXCEPT ![p] = label]
    /\ req' = [req EXCEPT ![p] = r]
Goto(p, label) == Continue(p, label, req[p])
Return(p) == Continue(p, "idle", Nil)

\* Of the request only the user matters from here on.
For(i) == [id |-> i, email |-> Nil, name |-> Nil, copy |-> Nil]
Store   == <<row, cache>>
Tokens  == <<issued, confirmed, orphaned>>

-----------------------------------------------------------------------------
(* Register. *)

RegBegin(p, e, n) ==
    /\ pc[p] = "idle" /\ ByEmail(e) = {}
    /\ Continue(p, "regName", [id |-> Nil, email |-> e, name |-> n, copy |-> Nil])
    /\ UNCHANGED <<Store, Tokens>>

RegName(p) ==
    /\ pc[p] = "regName"
    /\ \/ ByName(req[p].name) = {} /\ Goto(p, "regCreate")
       \/ ByName(req[p].name) # {} /\ Return(p)
    /\ UNCHANGED <<Store, Tokens>>

\* INSERT, or the unique violation as ErrEmailTaken or ErrUsernameTaken.
RegCreate(p) ==
    LET e == req[p].email
        n == req[p].name
    IN  /\ pc[p] = "regCreate"
        /\ \E i \in Ids :
              /\ row[i] = Nil
              /\ \/ /\ ~Conflict(i, e, n)
                    /\ row' = [row EXCEPT ![i] = [email |-> e, name |-> n, live |-> TRUE]]
                    /\ Continue(p, "regTokens", For(i))
                 \/ Conflict(i, e, n) /\ Return(p) /\ UNCHANGED row
        /\ UNCHANGED <<cache, Tokens>>

\* Faulty variant: the error is returned and the row stays.
RegTokensKeep(p) ==
    /\ pc[p] = "regTokens"
    /\ confirmed' = confirmed \/ confirmed' = confirmed \cup {req[p].id}
    /\ Return(p)
    /\ UNCHANGED <<Store, issued, orphaned>>

\* issueTokens, which may fail to sign.
RegTokens(p) ==
    /\ pc[p] = "regTokens"
    /\ \/ /\ confirmed' = confirmed \cup {req[p].id}
          /\ issued' = issued \cup {req[p].id}
          /\ Return(p)
       \/ Goto(p, "regUndo") /\ UNCHANGED <<confirmed, issued>>
    /\ UNCHANGED <<Store, orphaned>>

\* Faulty variant: the UPDATE lacks WHERE id = $1.
RegUndoUnscoped(p) ==
    /\ pc[p] = "regUndo"
    /\ row' = [i \in Ids |-> IF row[i] # Nil THEN [row[i] EXCEPT !.live = FALSE] ELSE Nil]
    /\ Goto(p, "invalidate")
    /\ UNCHANGED <<cache, Tokens>>

\* The compensating Delete, whose error is ignored.
RegUndo(p) ==
    /\ pc[p] = "regUndo"
    /\ \/ /\ row' = [row EXCEPT ![req[p].id].live = FALSE]
          /\ Goto(p, "invalidate")
          /\ UNCHANGED orphaned
       \/ /\ orphaned' = orphaned \cup {req[p].id}
          /\ Return(p)
          /\ UNCHANGED row
    /\ UNCHANGED <<cache, issued, confirmed>>

-----------------------------------------------------------------------------
(* Login and RefreshToken. *)

\* GetByEmail finds the row, also one whose Register has not ended yet.
LoginBegin(p, e) ==
    /\ pc[p] = "idle"
    /\ \E i \in ByEmail(e) : Continue(p, "tokens", For(i))
    /\ UNCHANGED <<Store, Tokens>>

\* The password is checked and the tokens are issued, or not.
IssueTokens(p) ==
    /\ pc[p] = "tokens"
    /\ issued' \in {issued, issued \cup {req[p].id}}
    /\ Return(p)
    /\ UNCHANGED <<Store, confirmed, orphaned>>

\* After a miss the copy is cached, unless the Set fails.
SetCopy(p) == cache' \in {cache, [cache EXCEPT ![req[p].id] = req[p].copy]}

\* Faulty variant: the account is not looked up.
RefreshUnchecked(p, i) ==
    /\ pc[p] = "idle" /\ i \in issued
    /\ Continue(p, "tokens", For(i))
    /\ UNCHANGED <<Store, Tokens>>

\* ValidateRefreshToken, then GetByID of the cached repository: a hit, or the
\* row after a miss.
RefreshToken(p, i) ==
    /\ pc[p] = "idle" /\ i \in issued
    /\ \/ cache[i] # Nil /\ Continue(p, "tokens", For(i))
       \/ i \in Live /\ Continue(p, "refreshFill", [For(i) EXCEPT !.copy = row[i].name])
    /\ UNCHANGED <<Store, Tokens>>

RefreshFill(p) ==
    /\ pc[p] = "refreshFill"
    /\ SetCopy(p)
    /\ Continue(p, "tokens", For(req[p].id))
    /\ UNCHANGED <<row, Tokens>>

-----------------------------------------------------------------------------
(* UpdateProfile by a caller with an access token. *)

\* With the copy r.copy in hand: is the username to be changed?
Patch(p, r) == Continue(p, IF r.name \in {Nil, r.copy} THEN "profileWrite" ELSE "profileName", r)

ProfileBegin(p, i, n) ==
    LET with(copy) == [For(i) EXCEPT !.name = n, !.copy = copy]
    IN  /\ pc[p] = "idle" /\ i \in issued
        /\ \/ cache[i] # Nil /\ Patch(p, with(cache[i]))
           \/ i \in Live /\ Continue(p, "profileFill", with(row[i].name))
        /\ UNCHANGED <<Store, Tokens>>

ProfileFill(p) ==
    /\ pc[p] = "profileFill"
    /\ SetCopy(p)
    /\ Patch(p, req[p])
    /\ UNCHANGED <<row, Tokens>>

\* GetByUsername: taken only if somebody else has the name.
ProfileName(p) ==
    LET taken == \E j \in ByName(req[p].name) : j # req[p].id IN
    /\ pc[p] = "profileName"
    /\ \/ ~taken /\ Goto(p, "profileWrite")
       \/ taken /\ Return(p)
    /\ UNCHANGED <<Store, Tokens>>

\* UPDATE ... WHERE deleted_at IS NULL, of all columns of the copy.
ProfileWrite(p) ==
    LET r == req[p]
        n == IF r.name = Nil THEN r.copy ELSE r.name
    IN  /\ pc[p] = "profileWrite"
        /\ IF row[r.id].live /\ ~Conflict(r.id, row[r.id].email, n)
           THEN row' = [row EXCEPT ![r.id].name = n] /\ Continue(p, "invalidate", For(r.id))
           ELSE Return(p) /\ UNCHANGED row
        /\ UNCHANGED <<cache, Tokens>>

\* cache.Del after Update and Delete; its error is logged or ignored.
Invalidate(p) ==
    /\ pc[p] = "invalidate"
    /\ cache' \in {cache, [cache EXCEPT ![req[p].id] = Nil]}
    /\ Return(p)
    /\ UNCHANGED <<row, Tokens>>

-----------------------------------------------------------------------------
\* A statement fails and the request returns the error.
Fail(p) ==
    /\ pc[p] \in {"regName", "regCreate", "profileName", "profileWrite"}
    /\ Return(p)
    /\ UNCHANGED <<Store, Tokens>>

\* The TTL of a cached copy runs out.
CacheExpires(i) ==
    /\ cache[i] # Nil
    /\ cache' = [cache EXCEPT ![i] = Nil]
    /\ UNCHANGED <<row, pc, req, Tokens>>

\* The last token of a user reaches its ExpiresAt.
TokensExpire(i) ==
    /\ i \in issued
    /\ issued' = issued \ {i}
    /\ UNCHANGED <<Store, pc, req, confirmed, orphaned>>

Register(p) == \E e \in Emails, n \in Names : RegBegin(p, e, n)
Login(p)    == \E e \in Emails : LoginBegin(p, e)
Refresh(p)  == \E i \in Ids : RefreshToken(p, i)
UpdateMe(p) == \E i \in Ids, n \in Names \cup {Nil} : ProfileBegin(p, i, n)

Step(p) ==
    \/ RegName(p) \/ RegCreate(p) \/ RegTokens(p) \/ RegUndo(p)
    \/ IssueTokens(p) \/ RefreshFill(p) \/ ProfileFill(p)
    \/ ProfileName(p) \/ ProfileWrite(p) \/ Invalidate(p)
    \/ Fail(p)

Next ==
    \/ \E p \in Procs : Register(p) \/ Login(p) \/ Refresh(p) \/ UpdateMe(p) \/ Step(p)
    \/ \E i \in Ids : CacheExpires(i) \/ TokensExpire(i)

Spec == Init /\ [][Next]_vars

-----------------------------------------------------------------------------
\* No two live users share an email or a username, although Register and
\* UpdateProfile look before they write and a stale copy may bring back a name
\* that somebody else has taken (user.go:40-50, 151-159).
UniqueLive == \A i, j \in Live : i # j =>
    row[i].email # row[j].email /\ row[i].name # row[j].name

\* Once Register has answered with tokens the account exists: no failing
\* registration of the same email or name takes it away (user.go:74-78).
ConfirmedLives == confirmed \subseteq Live

\* A row that no request is working on belongs to a confirmed registration:
\* a Register that fails to issue tokens leaves nothing behind, unless its
\* Delete fails too (user.go:76).
NothingLeftBehind == \A i \in Live \ (confirmed \cup orphaned) :
    \E p \in Procs : pc[p] \in {"regTokens", "regUndo"} /\ req[p].id = i

\* The account is removed, no copy of it is left, and no request is about it.
Gone(i) ==
    /\ row[i] # Nil /\ i \notin Live /\ cache[i] = Nil
    /\ \A p \in Procs : pc[p] # "idle" => req[p].id # i

\* Somebody may log in before Register fails and takes its row back, and such
\* tokens can be refreshed from a stale copy of the row.  Once that copy has
\* expired and the requests have ended the account is gone for good: nothing
\* brings the row or the copy back, and the tokens left over cannot be renewed
\* (user.go:117-134, cached/user.go:35-58, 96-102).
GoneForGood ==
    [][\A i \in Ids : Gone(i) => Gone(i)' /\ (i \in issued' => i \in issued)]_vars

=============================================================================
