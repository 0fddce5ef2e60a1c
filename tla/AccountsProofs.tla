--------------------------- MODULE AccountsProofs ---------------------------
(***************************************************************************)
(* Proofs about Accounts for any ids, emails, names and goroutines: unique *)
(* live rows, the compensation of Register, and that an account that is    *)
(* gone stays gone.                                                        *)
(***************************************************************************)
EXTENDS Accounts, TLAPS

DataTypes ==
    /\ row \in [Ids -> Row \cup {Nil}]
    /\ cache \in [Ids -> Names \cup {Nil}]
    /\ issued \subseteq Ids /\ confirmed \subseteq Ids /\ orphaned \subseteq Ids

ControlTypes ==
    /\ pc \in [Procs -> Labels]
    /\ req \in [Procs -> Request \cup {Nil}]
    /\ \A p \in Procs : pc[p] # "idle" => req[p] \in Request

\* A Register that has inserted its row and has not answered.
Registering(p) == pc[p] \in {"regTokens", "regUndo"}

\* What a request has in hand at each step.  The row of an unfinished Register
\* is there, is live and is not confirmed.
RequestOK(p) ==
    LET r == req[p] IN
    /\ pc[p] \in {"regName", "regCreate"} => r.email \in Emails /\ r.name \in Names /\ r.id = Nil
    /\ pc[p] \notin {"idle", "regName", "regCreate"} => r.id \in Ids /\ row[r.id] # Nil
    /\ pc[p] \in {"refreshFill", "profileFill", "profileName", "profileWrite"} => r.copy \in Names
    /\ pc[p] = "profileName" => r.name \in Names
    /\ Registering(p) => r.id \in Live /\ r.id \notin confirmed

\* Each unfinished Register has a row of its own.
OwnRows == \A p, q \in Procs : Registering(p) /\ Registering(q) /\ p # q => req[p].id # req[q].id

\* Tokens and cached copies are of rows that exist, deleted ones perhaps.
Known == \A i \in Ids : i \in issued \/ cache[i] # Nil => row[i] # Nil

AccountInv ==
    /\ TypeOK /\ UniqueLive /\ ConfirmedLives /\ NothingLeftBehind
    /\ \A p \in Procs : RequestOK(p)
    /\ OwnRows /\ Known

\* The goroutines other than p do nothing.
OthersWait(p) == \A q \in Procs \ {p} : pc'[q] = pc[q] /\ req'[q] = req[q]

-----------------------------------------------------------------------------
LEMMA TypeSplit == TypeOK <=> DataTypes /\ ControlTypes
BY DEF TypeOK, DataTypes, ControlTypes

LEMMA AccountInitial == Init => AccountInv
<1>1. Init => TypeOK
  BY DEF Init, TypeOK, Labels
<1>2. Init => Live = {}
  BY DEF Init, Live
<1> QED
  BY <1>1, <1>2 DEF Init, AccountInv, UniqueLive, ConfirmedLives, NothingLeftBehind, RequestOK,
                    Registering, OwnRows, Known

LEMMA ContinueTypes ==
    ASSUME ControlTypes, NEW p \in Procs, NEW label \in Labels, NEW r \in Request \cup {Nil},
           label # "idle" => r \in Request, Continue(p, label, r)
    PROVE  ControlTypes' /\ pc'[p] = label /\ req'[p] = r /\ OthersWait(p)
BY DEF ControlTypes, Continue, OthersWait

\* Returning.
LEMMA ReturnTypes ==
    ASSUME ControlTypes, NEW p \in Procs, Return(p)
    PROVE  ControlTypes' /\ pc'[p] = "idle" /\ OthersWait(p)
BY ContinueTypes DEF Return, Labels

\* Going on with the same request.
LEMMA GotoTypes ==
    ASSUME ControlTypes, NEW p \in Procs, NEW label \in Labels, pc[p] # "idle", Goto(p, label)
    PROVE  ControlTypes' /\ pc'[p] = label /\ req'[p] = req[p] /\ OthersWait(p)
<1>1. req[p] \in Request
  BY DEF ControlTypes
<1> QED  BY <1>1, ContinueTypes DEF Goto

\* The requests that only carry a user.
LEMMA ForIs ==
    ASSUME NEW i \in Ids
    PROVE  For(i) \in Request /\ For(i).id = i
BY DEF For, Request

LEMMA LiveRow ==
    ASSUME DataTypes, NEW i \in Live
    PROVE  i \in Ids /\ row[i] \in Row /\ row[i] # Nil /\ row[i].name \in Names
<1>1. i \in Ids /\ row[i] # Nil
  BY DEF Live
<1>2. row[i] \in Row
  BY <1>1 DEF DataTypes
<1> QED  BY <1>1, <1>2 DEF Row

-----------------------------------------------------------------------------
\* A step that writes no row and neither begins nor ends a Register's claim.
LEMMA QuietStep ==
    ASSUME AccountInv, NEW p \in Procs, UNCHANGED <<row, confirmed, orphaned>>, OthersWait(p),
           ControlTypes', ~Registering(p), ~Registering(p)', RequestOK(p)',
           issued' \subseteq Ids, cache' \in [Ids -> Names \cup {Nil}],
           \A i \in Ids : i \in issued' \/ cache'[i] # Nil => row[i] # Nil
    PROVE  AccountInv'
<1>0. /\ DataTypes /\ ControlTypes /\ UniqueLive /\ ConfirmedLives /\ NothingLeftBehind
      /\ (\A q \in Procs : RequestOK(q)) /\ OwnRows
  BY TypeSplit DEF AccountInv
<1>1. Live' = Live
  BY DEF Live
<1>2. TypeOK'
  BY <1>0 DEF TypeOK, DataTypes, ControlTypes
<1>3. UniqueLive' /\ ConfirmedLives' /\ Known'
  BY <1>0, <1>1 DEF UniqueLive, ConfirmedLives, Known
<1>4. ASSUME NEW q \in Procs, q # p
      PROVE  RequestOK(q)' /\ (Registering(q)' <=> Registering(q)) /\ req'[q] = req[q]
  <2>1. pc'[q] = pc[q] /\ req'[q] = req[q]
    BY <1>4 DEF OthersWait
  <2> QED  BY <1>0, <1>1, <2>1 DEF RequestOK, Registering
<1>5. NothingLeftBehind' /\ OwnRows'
  BY <1>0, <1>1, <1>4 DEF NothingLeftBehind, OwnRows, Registering
<1> QED  BY <1>2, <1>3, <1>4, <1>5 DEF AccountInv

\* The same for a step that ends a request which is not registering, or begins one.
LEMMA QuietReturn ==
    ASSUME AccountInv, NEW p \in Procs, UNCHANGED <<Store, Tokens>>, Return(p), ~Registering(p)
    PROVE  AccountInv'
<1>1. ControlTypes' /\ pc'[p] = "idle" /\ OthersWait(p) /\ DataTypes
  BY ReturnTypes, TypeSplit DEF AccountInv
<1>2. RequestOK(p)' /\ ~Registering(p)'
  BY <1>1 DEF RequestOK, Registering
<1> QED  BY <1>1, <1>2, QuietStep DEF Store, Tokens, DataTypes, AccountInv, Known

-----------------------------------------------------------------------------
(* One lemma for each operation. *)

\* The lookups of Register.
LEMMA RegisterLooks ==
    ASSUME AccountInv, NEW p \in Procs, Register(p) \/ RegName(p)
    PROVE  AccountInv'
<1>0. DataTypes /\ ControlTypes /\ Known /\ RequestOK(p) /\ UNCHANGED <<Store, Tokens>>
  BY TypeSplit DEF AccountInv, Register, RegBegin, RegName
<1>1. ASSUME NEW e \in Emails, NEW n \in Names, RegBegin(p, e, n) PROVE AccountInv'
  <2> DEFINE r == [id |-> Nil, email |-> e, name |-> n, copy |-> Nil]
  <2>1. r \in Request /\ "regName" \in Labels
    BY DEF Request, Labels
  <2>2. ControlTypes' /\ pc'[p] = "regName" /\ req'[p] = r /\ OthersWait(p)
    BY <1>0, <1>1, <2>1, ContinueTypes DEF RegBegin
  <2>3. RequestOK(p)' /\ ~Registering(p) /\ ~Registering(p)'
    BY <1>1, <2>2 DEF RequestOK, Registering, RegBegin
  <2> QED  BY <1>0, <2>2, <2>3, QuietStep DEF Store, Tokens, DataTypes, Known
<1>2. CASE RegName(p)
  <2>1. CASE Return(p)
    BY <1>0, <1>2, <2>1, QuietReturn DEF RegName, Registering
  <2>2. CASE Goto(p, "regCreate")
    <3>1. ControlTypes' /\ pc'[p] = "regCreate" /\ req'[p] = req[p] /\ OthersWait(p)
      BY <1>0, <1>2, <2>2, GotoTypes DEF RegName, Labels
    <3>2. RequestOK(p)' /\ ~Registering(p) /\ ~Registering(p)'
      BY <1>0, <1>2, <3>1 DEF RequestOK, Registering, RegName
    <3> QED  BY <1>0, <3>1, <3>2, QuietStep DEF Store, Tokens, DataTypes, Known
  <2> QED  BY <1>2, <2>1, <2>2 DEF RegName
<1> QED  BY <1>1, <1>2 DEF Register

\* Login and RefreshToken.
LEMMA LoginKeeps ==
    ASSUME AccountInv, NEW p \in Procs, Login(p) \/ Refresh(p)
    PROVE  AccountInv'
<1>0. /\ DataTypes /\ ControlTypes /\ Known /\ UNCHANGED <<Store, Tokens>> /\ pc[p] = "idle"
      /\ "tokens" \in Labels /\ "refreshFill" \in Labels /\ Nil \in Names \cup {Nil}
  BY TypeSplit DEF AccountInv, Login, LoginBegin, Refresh, RefreshToken, Labels
<1>1. ASSUME NEW i \in Ids, row[i] # Nil, Continue(p, "tokens", For(i)) PROVE AccountInv'
  <2>1. For(i) \in Request /\ For(i).id = i
    BY <1>0, ForIs
  <2>2. ControlTypes' /\ pc'[p] = "tokens" /\ req'[p] = For(i) /\ OthersWait(p)
    BY <1>0, <1>1, <2>1, ContinueTypes
  <2>3. RequestOK(p)' /\ ~Registering(p) /\ ~Registering(p)'
    BY <1>0, <1>1, <2>1, <2>2 DEF RequestOK, Registering, Store
  <2> QED  BY <1>0, <2>2, <2>3, QuietStep DEF Store, Tokens, DataTypes, Known
<1>2. ASSUME NEW i \in Live, Continue(p, "refreshFill", [For(i) EXCEPT !.copy = row[i].name])
      PROVE  AccountInv'
  <2> DEFINE r == [For(i) EXCEPT !.copy = row[i].name]
  <2>0. i \in Ids /\ row[i] # Nil /\ row[i].name \in Names
    BY <1>0, LiveRow
  <2>1. r \in Request /\ r.id = i /\ r.copy \in Names
    BY <2>0 DEF For, Request
  <2> HIDE DEF r
  <2>2. ControlTypes' /\ pc'[p] = "refreshFill" /\ req'[p] = r /\ OthersWait(p)
    BY <1>0, <1>2, <2>1, ContinueTypes DEF r
  <2>3. RequestOK(p)' /\ ~Registering(p) /\ ~Registering(p)'
    BY <1>0, <2>0, <2>1, <2>2 DEF RequestOK, Registering, Store
  <2> QED  BY <1>0, <2>2, <2>3, QuietStep DEF Store, Tokens, DataTypes, Known
<1>3. \A i \in Live : i \in Ids /\ row[i] # Nil
  BY DEF Live
<1>4. CASE Login(p)
  BY <1>1, <1>3, <1>4 DEF Login, LoginBegin, ByEmail
<1>5. CASE Refresh(p)
  BY <1>0, <1>1, <1>2, <1>5 DEF Refresh, RefreshToken, Known
<1> QED  BY <1>4, <1>5

\* SetCopy and Invalidate keep copies of known rows only.
LEMMA CopyKnown ==
    ASSUME AccountInv, NEW i \in Ids, row[i] # Nil, NEW copy \in Names \cup {Nil},
           cache' \in {cache, [cache EXCEPT ![i] = copy]}
    PROVE  /\ cache' \in [Ids -> Names \cup {Nil}]
           /\ \A k \in Ids : cache'[k] # Nil => row[k] # Nil
BY TypeSplit DEF AccountInv, DataTypes, Known

\* The rest of them: the copy is cached, the tokens are issued.
LEMMA TokensKeep ==
    ASSUME AccountInv, NEW p \in Procs, IssueTokens(p) \/ RefreshFill(p) \/ Invalidate(p)
    PROVE  AccountInv'
<1>0. DataTypes /\ ControlTypes /\ Known /\ RequestOK(p) /\ "tokens" \in Labels
      /\ Nil \in Names \cup {Nil}
  BY TypeSplit DEF AccountInv, Labels
<1>1. req[p].id \in Ids /\ row[req[p].id] # Nil /\ ~Registering(p) /\ pc[p] # "idle"
  BY <1>0 DEF RequestOK, Registering, IssueTokens, RefreshFill, Invalidate
<1>2. CASE IssueTokens(p)
  <2>1. ControlTypes' /\ pc'[p] = "idle" /\ OthersWait(p)
    BY <1>0, <1>2, ReturnTypes DEF IssueTokens
  <2>2. RequestOK(p)' /\ ~Registering(p)'
    BY <2>1 DEF RequestOK, Registering
  <2>3. UNCHANGED <<row, cache, confirmed, orphaned>> /\ issued' \subseteq issued \cup {req[p].id}
    BY <1>2 DEF IssueTokens, Store
  <2>4. \A i \in Ids : i \in issued' \/ cache'[i] # Nil => row[i] # Nil
    BY <1>0, <1>1, <2>3 DEF Known
  <2> QED  BY <1>0, <1>1, <2>1, <2>2, <2>3, <2>4, QuietStep DEF DataTypes
<1>3. CASE RefreshFill(p)
  <2>0. req[p].copy \in Names
    BY <1>0, <1>3 DEF RequestOK, RefreshFill
  <2>1. For(req[p].id) \in Request /\ For(req[p].id).id = req[p].id
    BY <1>0, <1>1, ForIs
  <2>2. ControlTypes' /\ pc'[p] = "tokens" /\ req'[p] = For(req[p].id) /\ OthersWait(p)
    BY <1>0, <1>3, <2>1, ContinueTypes DEF RefreshFill
  <2>3. UNCHANGED <<row, issued, confirmed, orphaned>>
    BY <1>3 DEF RefreshFill, Tokens
  <2>4. RequestOK(p)' /\ ~Registering(p)'
    BY <1>1, <2>1, <2>2, <2>3 DEF RequestOK, Registering
  <2>5. cache' \in [Ids -> Names \cup {Nil}] /\ \A i \in Ids : cache'[i] # Nil => row[i] # Nil
    BY <1>1, <1>3, <2>0, CopyKnown DEF RefreshFill, SetCopy
  <2> QED  BY <1>0, <1>1, <2>2, <2>3, <2>4, <2>5, QuietStep DEF DataTypes, Known
<1>4. CASE Invalidate(p)
  <2>1. ControlTypes' /\ pc'[p] = "idle" /\ OthersWait(p)
    BY <1>0, <1>4, ReturnTypes DEF Invalidate
  <2>2. RequestOK(p)' /\ ~Registering(p)'
    BY <2>1 DEF RequestOK, Registering
  <2>3. UNCHANGED <<row, issued, confirmed, orphaned>>
    BY <1>4 DEF Invalidate, Tokens
  <2>4. cache' \in [Ids -> Names \cup {Nil}] /\ \A i \in Ids : cache'[i] # Nil => row[i] # Nil
    BY <1>0, <1>1, <1>4, CopyKnown DEF Invalidate
  <2> QED  BY <1>0, <1>1, <2>1, <2>2, <2>3, <2>4, QuietStep DEF DataTypes, Known
<1> QED  BY <1>2, <1>3, <1>4

\* UpdateProfile with the copy in hand.
LEMMA PatchTypes ==
    ASSUME ControlTypes, NEW p \in Procs, NEW r \in Request, r.id \in Ids, row[r.id] # Nil,
           r.copy \in Names, Patch(p, r), row' = row
    PROVE  ControlTypes' /\ OthersWait(p) /\ RequestOK(p)' /\ ~Registering(p)'
           /\ pc'[p] # "idle" /\ req'[p].id = r.id
<1> DEFINE label == IF r.name \in {Nil, r.copy} THEN "profileWrite" ELSE "profileName"
<1>1. label \in Labels
  BY DEF Labels
<1>2. ControlTypes' /\ pc'[p] = label /\ req'[p] = r /\ OthersWait(p)
  BY <1>1, ContinueTypes DEF Patch
<1>3. r.name \in Names \cup {Nil}
  BY DEF Request
<1> QED  BY <1>2, <1>3 DEF RequestOK, Registering

\* UpdateProfile up to its write.
LEMMA ProfileLooks ==
    ASSUME AccountInv, NEW p \in Procs, UpdateMe(p) \/ ProfileFill(p) \/ ProfileName(p)
    PROVE  AccountInv'
<1>0. DataTypes /\ ControlTypes /\ Known /\ RequestOK(p)
      /\ "profileFill" \in Labels /\ "profileWrite" \in Labels
  BY TypeSplit DEF AccountInv, Labels
<1>1. ASSUME NEW i \in Ids, NEW n \in Names \cup {Nil}, ProfileBegin(p, i, n) PROVE AccountInv'
  <2>0. UNCHANGED <<Store, Tokens>> /\ pc[p] = "idle" /\ ~Registering(p)
    BY <1>1 DEF ProfileBegin, Registering
  <2>1. CASE cache[i] # Nil /\ Patch(p, [For(i) EXCEPT !.name = n, !.copy = cache[i]])
    <3> DEFINE r == [For(i) EXCEPT !.name = n, !.copy = cache[i]]
    <3>1. cache[i] \in Names /\ row[i] # Nil
      BY <1>0, <2>1 DEF DataTypes, Known
    <3>2. r \in Request /\ r.id = i /\ r.copy \in Names
      BY <3>1 DEF For, Request
    <3> HIDE DEF r
    <3>3. ControlTypes' /\ OthersWait(p) /\ RequestOK(p)' /\ ~Registering(p)'
      BY <1>0, <2>0, <2>1, <3>1, <3>2, PatchTypes DEF r, Store
    <3> QED  BY <1>0, <2>0, <3>3, QuietStep DEF Store, Tokens, DataTypes, Known
  <2>2. CASE i \in Live /\ Continue(p, "profileFill", [For(i) EXCEPT !.name = n, !.copy = row[i].name])
    <3> DEFINE r == [For(i) EXCEPT !.name = n, !.copy = row[i].name]
    <3>1. row[i].name \in Names /\ row[i] # Nil
      BY <1>0, <2>2, LiveRow
    <3>2. r \in Request /\ r.id = i /\ r.copy \in Names
      BY <3>1 DEF For, Request
    <3> HIDE DEF r
    <3>3. ControlTypes' /\ OthersWait(p) /\ pc'[p] = "profileFill" /\ req'[p] = r
      BY <1>0, <2>2, <3>2, ContinueTypes DEF r
    <3>4. RequestOK(p)' /\ ~Registering(p)'
      BY <2>0, <3>1, <3>2, <3>3 DEF RequestOK, Registering, Store
    <3> QED  BY <1>0, <2>0, <3>3, <3>4, QuietStep DEF Store, Tokens, DataTypes, Known
  <2> QED  BY <1>1, <2>1, <2>2 DEF ProfileBegin
<1>2. CASE ProfileFill(p)
  <2>1. /\ req[p].id \in Ids /\ row[req[p].id] # Nil /\ req[p].copy \in Names
        /\ ~Registering(p) /\ req[p] \in Request
    BY <1>0, <1>2 DEF RequestOK, Registering, ProfileFill, ControlTypes
  <2>2. UNCHANGED <<row, issued, confirmed, orphaned>>
    BY <1>2 DEF ProfileFill, Tokens
  <2>3. ControlTypes' /\ OthersWait(p) /\ RequestOK(p)' /\ ~Registering(p)'
    BY <1>0, <1>2, <2>1, <2>2, PatchTypes DEF ProfileFill
  <2>4. cache' \in [Ids -> Names \cup {Nil}] /\ \A i \in Ids : cache'[i] # Nil => row[i] # Nil
    BY <1>2, <2>1, CopyKnown DEF ProfileFill, SetCopy
  <2> QED  BY <1>0, <2>1, <2>2, <2>3, <2>4, QuietStep DEF DataTypes, Known
<1>3. CASE ProfileName(p)
  <2>0. UNCHANGED <<Store, Tokens>> /\ pc[p] = "profileName" /\ ~Registering(p)
    BY <1>3 DEF ProfileName, Registering
  <2>1. CASE Return(p)
    BY <2>0, <2>1, QuietReturn
  <2>2. CASE Goto(p, "profileWrite")
    <3>1. ControlTypes' /\ pc'[p] = "profileWrite" /\ req'[p] = req[p] /\ OthersWait(p)
      BY <1>0, <2>0, <2>2, GotoTypes
    <3>2. RequestOK(p)' /\ ~Registering(p)'
      BY <1>0, <2>0, <3>1 DEF RequestOK, Registering, Store
    <3> QED  BY <1>0, <2>0, <3>1, <3>2, QuietStep DEF Store, Tokens, DataTypes, Known
  <2> QED  BY <1>3, <2>1, <2>2 DEF ProfileName
<1> QED  BY <1>1, <1>2, <1>3 DEF UpdateMe

\* A copy or the last token of a user expires.
LEMMA ExpiryKeeps ==
    ASSUME AccountInv, NEW i \in Ids, CacheExpires(i) \/ TokensExpire(i)
    PROVE  AccountInv'
<1>1. UNCHANGED <<row, pc, req, confirmed, orphaned>>
  BY DEF CacheExpires, TokensExpire, Store, Tokens
<1>2. /\ cache' \in [Ids -> Names \cup {Nil}] /\ issued' \subseteq issued
      /\ \A k \in Ids : cache'[k] # Nil => cache[k] # Nil
  BY DEF CacheExpires, TokensExpire, Store, Tokens, AccountInv, TypeOK
<1>3. TypeOK' /\ Known'
  BY <1>1, <1>2 DEF AccountInv, TypeOK, Known
<1>4. Live' = Live
  BY <1>1 DEF Live
<1>5. UniqueLive' /\ ConfirmedLives' /\ NothingLeftBehind' /\ OwnRows'
  BY <1>1, <1>4 DEF AccountInv, UniqueLive, ConfirmedLives, NothingLeftBehind, OwnRows, Registering
<1>6. \A p \in Procs : RequestOK(p)'
  BY <1>1, <1>4 DEF AccountInv, RequestOK, Registering
<1> QED  BY <1>3, <1>5, <1>6 DEF AccountInv

-----------------------------------------------------------------------------
(* The writes. *)

\* What a write of a row must leave for the requests under way.
LEMMA OthersOK ==
    ASSUME AccountInv, NEW p \in Procs, OthersWait(p), NEW q \in Procs, q # p,
           \A i \in Ids : row[i] # Nil => row'[i] # Nil,
           Registering(q) => req[q].id \in Live' /\ req[q].id \notin confirmed'
    PROVE  RequestOK(q)' /\ (Registering(q)' <=> Registering(q)) /\ req'[q] = req[q]
<1>1. RequestOK(q) /\ pc'[q] = pc[q] /\ req'[q] = req[q]
  BY DEF AccountInv, OthersWait
<1> QED  BY <1>1 DEF RequestOK, Registering

\* INSERT INTO users.
LEMMA RegCreateKeeps ==
    ASSUME AccountInv, NEW p \in Procs, RegCreate(p)
    PROVE  AccountInv'
<1>0. /\ DataTypes /\ ControlTypes /\ Known /\ UniqueLive /\ ConfirmedLives /\ NothingLeftBehind
      /\ OwnRows /\ pc[p] = "regCreate" /\ ~Registering(p) /\ UNCHANGED <<cache, Tokens>>
      /\ (\A q \in Procs : RequestOK(q))
      /\ req[p].email \in Emails /\ req[p].name \in Names /\ "regTokens" \in Labels
  BY TypeSplit DEF AccountInv, RegCreate, Registering, RequestOK, Labels
<1> DEFINE new == [email |-> req[p].email, name |-> req[p].name, live |-> TRUE]
<1>1. PICK i \in Ids : /\ row[i] = Nil
                       /\ \/ /\ ~Conflict(i, req[p].email, req[p].name)
                             /\ row' = [row EXCEPT ![i] = new]
                             /\ Continue(p, "regTokens", For(i))
                          \/ Return(p) /\ UNCHANGED row
  BY DEF RegCreate
<1>2. CASE Return(p) /\ UNCHANGED row
  BY <1>0, <1>2, QuietReturn DEF Store
<1>3. CASE /\ ~Conflict(i, req[p].email, req[p].name)
           /\ row' = [row EXCEPT ![i] = new]
           /\ Continue(p, "regTokens", For(i))
  <2>1. For(i) \in Request /\ For(i).id = i
    BY ForIs
  <2>2. ControlTypes' /\ pc'[p] = "regTokens" /\ req'[p] = For(i) /\ OthersWait(p)
    BY <1>0, <1>3, <2>1, ContinueTypes
  <2>3. new \in Row /\ new # Nil
    <3>1. new \in Row
      BY <1>0 DEF Row
    <3> QED  BY <3>1, NilAssumption
  <2>4. /\ row' \in [Ids -> Row \cup {Nil}] /\ row'[i] = new
        /\ \A k \in Ids \ {i} : row'[k] = row[k]
    BY <1>0, <1>3, <2>3 DEF DataTypes
  <2>5. TypeOK'
    BY <1>0, <2>2, <2>4 DEF TypeOK, DataTypes, ControlTypes, Tokens
  <2>6. i \notin Live /\ Live' = Live \cup {i}
    BY <1>1, <2>3, <2>4 DEF Live
  <2>7. UniqueLive'
    <3>1. ASSUME NEW k \in Live
          PROVE  /\ k # i /\ row'[k] = row[k]
                 /\ row[k].email # req[p].email /\ row[k].name # req[p].name
      BY <1>3, <2>4, <2>6 DEF Conflict, Live
    <3>2. row'[i].email = req[p].email /\ row'[i].name = req[p].name
      BY <2>4
    <3> QED  BY <1>0, <2>6, <3>1, <3>2 DEF UniqueLive
  <2>8. confirmed' = confirmed /\ orphaned' = orphaned /\ issued' = issued /\ cache' = cache
    BY <1>0 DEF Tokens
  <2>9. ConfirmedLives' /\ i \notin confirmed
    BY <1>0, <2>6, <2>8 DEF ConfirmedLives
  <2>10. ASSUME NEW q \in Procs, q # p
         PROVE  /\ RequestOK(q)' /\ (Registering(q)' <=> Registering(q)) /\ req'[q] = req[q]
                /\ Registering(q) => req[q].id # i
    <3>1. Registering(q) => req[q].id \in Live /\ req[q].id \notin confirmed
      BY <1>0 DEF RequestOK
    <3>2. \A k \in Ids : row[k] # Nil => row'[k] # Nil
      BY <1>1, <2>4
    <3> QED  BY <2>2, <2>6, <2>8, <2>10, <3>1, <3>2, OthersOK
  <2>11. RequestOK(p)' /\ Registering(p)'
    BY <2>1, <2>2, <2>3, <2>4, <2>6, <2>8, <2>9 DEF RequestOK, Registering
  <2>12. OwnRows'
    BY <1>0, <2>1, <2>2, <2>10 DEF OwnRows
  <2>13. NothingLeftBehind'
    <3>1. ASSUME NEW k \in Live' \ (confirmed \cup orphaned)
          PROVE  \E q \in Procs : Registering(q)' /\ req'[q].id = k
      <4>1. CASE k = i
        BY <2>1, <2>2, <2>11, <4>1
      <4>2. CASE k # i
        BY <1>0, <2>6, <2>10, <4>2 DEF NothingLeftBehind, Registering
      <4> QED  BY <4>1, <4>2
    <3> QED  BY <2>8, <3>1 DEF NothingLeftBehind, Registering
  <2>14. Known'
    BY <1>0, <1>1, <2>3, <2>4, <2>8 DEF Known
  <2> QED  BY <2>5, <2>7, <2>9, <2>10, <2>11, <2>12, <2>13, <2>14 DEF AccountInv
<1> QED  BY <1>1, <1>2, <1>3

\* The tokens of a Register, or none.
LEMMA RegTokensKeeps ==
    ASSUME AccountInv, NEW p \in Procs, RegTokens(p)
    PROVE  AccountInv'
<1>0. /\ DataTypes /\ ControlTypes /\ Known /\ UniqueLive /\ ConfirmedLives /\ NothingLeftBehind
      /\ OwnRows /\ pc[p] = "regTokens" /\ Registering(p) /\ UNCHANGED <<row, cache, orphaned>>
      /\ (\A q \in Procs : RequestOK(q)) /\ "regUndo" \in Labels
      /\ req[p].id \in Live /\ req[p].id \notin confirmed /\ req[p].id \in Ids
  BY TypeSplit DEF AccountInv, RegTokens, Registering, RequestOK, Labels, Store, Live
<1>1. Live' = Live
  BY <1>0 DEF Live
<1>2. CASE Goto(p, "regUndo") /\ UNCHANGED <<confirmed, issued>>
  <2>1. ControlTypes' /\ pc'[p] = "regUndo" /\ req'[p] = req[p] /\ OthersWait(p)
    BY <1>0, <1>2, GotoTypes
  <2>2. \A q \in Procs : (Registering(q)' <=> Registering(q)) /\ req'[q] = req[q]
    BY <1>0, <2>1 DEF Registering, OthersWait
  <2>3. \A q \in Procs : RequestOK(q)'
    BY <1>0, <1>1, <1>2, <2>1, <2>2 DEF RequestOK, Registering, OthersWait
  <2>4. TypeOK' /\ UniqueLive' /\ ConfirmedLives' /\ Known'
    BY <1>0, <1>1, <1>2, <2>1
    DEF TypeOK, DataTypes, ControlTypes, UniqueLive, ConfirmedLives, Known
  <2>5. NothingLeftBehind' /\ OwnRows'
    BY <1>0, <1>1, <1>2, <2>2 DEF NothingLeftBehind, OwnRows, Registering
  <2> QED  BY <2>3, <2>4, <2>5 DEF AccountInv
<1>3. CASE /\ confirmed' = confirmed \cup {req[p].id}
           /\ issued' = issued \cup {req[p].id}
           /\ Return(p)
  <2>1. ControlTypes' /\ pc'[p] = "idle" /\ OthersWait(p)
    BY <1>0, <1>3, ReturnTypes
  <2>2. TypeOK' /\ UniqueLive' /\ ConfirmedLives' /\ Known'
    BY <1>0, <1>1, <1>3, <2>1
    DEF TypeOK, DataTypes, ControlTypes, UniqueLive, ConfirmedLives, Known, Live
  <2>3. ASSUME NEW q \in Procs, q # p
        PROVE  RequestOK(q)' /\ (Registering(q)' <=> Registering(q)) /\ req'[q] = req[q]
    <3>1. Registering(q) => req[q].id \in Live /\ req[q].id \notin confirmed'
      BY <1>0, <1>3, <2>3 DEF RequestOK, OwnRows
    <3> QED  BY <1>0, <1>1, <2>1, <2>3, <3>1, OthersOK
  <2>4. RequestOK(p)' /\ ~Registering(p)'
    BY <2>1 DEF RequestOK, Registering
  <2>5. OwnRows'
    BY <1>0, <2>3, <2>4 DEF OwnRows
  <2>6. NothingLeftBehind'
    <3>1. ASSUME NEW k \in Live \ (confirmed' \cup orphaned)
          PROVE  \E q \in Procs : Registering(q)' /\ req'[q].id = k
      <4>1. PICK q \in Procs : Registering(q) /\ req[q].id = k
        BY <1>0, <1>3 DEF NothingLeftBehind, Registering
      <4>2. q # p
        BY <1>3, <4>1
      <4> QED  BY <2>3, <4>1, <4>2
    <3> QED  BY <1>0, <1>1, <3>1 DEF NothingLeftBehind, Registering
  <2> QED  BY <2>2, <2>3, <2>4, <2>5, <2>6 DEF AccountInv
<1> QED  BY <1>2, <1>3 DEF RegTokens

\* The compensating Delete, or its failure.
LEMMA RegUndoKeeps ==
    ASSUME AccountInv, NEW p \in Procs, RegUndo(p)
    PROVE  AccountInv'
<1> DEFINE i == req[p].id
<1>0. /\ DataTypes /\ ControlTypes /\ Known /\ UniqueLive /\ ConfirmedLives /\ NothingLeftBehind
      /\ OwnRows /\ pc[p] = "regUndo" /\ Registering(p) /\ UNCHANGED <<cache, issued, confirmed>>
      /\ (\A q \in Procs : RequestOK(q)) /\ "invalidate" \in Labels
      /\ i \in Live /\ i \notin confirmed /\ i \in Ids
  BY TypeSplit DEF AccountInv, RegUndo, Registering, RequestOK, Labels, Live
<1>1. CASE row' = [row EXCEPT ![i].live = FALSE] /\ Goto(p, "invalidate") /\ UNCHANGED orphaned
  <2>1. ControlTypes' /\ pc'[p] = "invalidate" /\ req'[p] = req[p] /\ OthersWait(p)
    BY <1>0, <1>1, GotoTypes
  <2>2. [row[i] EXCEPT !.live = FALSE] \in Row /\ [row[i] EXCEPT !.live = FALSE].live = FALSE
    BY <1>0, LiveRow DEF Row
  <2>3. /\ row' \in [Ids -> Row \cup {Nil}] /\ row'[i] \in Row /\ row'[i].live = FALSE
        /\ \A k \in Ids \ {i} : row'[k] = row[k]
    BY <1>0, <1>1, <2>2 DEF DataTypes
  <2>4. Live' = Live \ {i} /\ \A k \in Ids : row[k] # Nil => row'[k] # Nil
    BY <1>0, <2>3, NilAssumption DEF Live
  <2>5. TypeOK' /\ Known'
    BY <1>0, <1>1, <2>1, <2>3, <2>4 DEF TypeOK, DataTypes, ControlTypes, Known
  <2>6. UniqueLive' /\ ConfirmedLives'
    <3>1. \A k \in Live' : k \in Live /\ row'[k] = row[k]
      BY <2>3, <2>4 DEF Live
    <3> QED  BY <1>0, <2>4, <3>1 DEF UniqueLive, ConfirmedLives
  <2>7. ASSUME NEW q \in Procs, q # p
        PROVE  RequestOK(q)' /\ (Registering(q)' <=> Registering(q)) /\ req'[q] = req[q]
    <3>1. Registering(q) => req[q].id \in Live' /\ req[q].id \notin confirmed'
      BY <1>0, <2>4, <2>7 DEF RequestOK, OwnRows
    <3> QED  BY <2>1, <2>4, <2>7, <3>1, OthersOK
  <2>8. RequestOK(p)' /\ ~Registering(p)'
    BY <1>0, <2>1, <2>3, NilAssumption DEF RequestOK, Registering
  <2>9. OwnRows'
    BY <1>0, <2>7, <2>8 DEF OwnRows
  <2>10. NothingLeftBehind'
    <3>1. ASSUME NEW k \in Live' \ (confirmed \cup orphaned)
          PROVE  \E q \in Procs : Registering(q)' /\ req'[q].id = k
      <4>1. PICK q \in Procs : Registering(q) /\ req[q].id = k
        BY <1>0, <2>4 DEF NothingLeftBehind, Registering
      <4>2. q # p
        BY <2>4, <4>1
      <4> QED  BY <2>7, <4>1, <4>2
    <3> QED  BY <1>0, <1>1, <3>1 DEF NothingLeftBehind, Registering
  <2> QED  BY <2>5, <2>6, <2>7, <2>8, <2>9, <2>10 DEF AccountInv
<1>2. CASE orphaned' = orphaned \cup {i} /\ Return(p) /\ UNCHANGED row
  <2>1. ControlTypes' /\ pc'[p] = "idle" /\ OthersWait(p)
    BY <1>0, <1>2, ReturnTypes
  <2>2. Live' = Live
    BY <1>2 DEF Live
  <2>3. TypeOK' /\ UniqueLive' /\ ConfirmedLives' /\ Known'
    BY <1>0, <1>2, <2>1, <2>2
    DEF TypeOK, DataTypes, ControlTypes, UniqueLive, ConfirmedLives, Known
  <2>4. ASSUME NEW q \in Procs, q # p
        PROVE  RequestOK(q)' /\ (Registering(q)' <=> Registering(q)) /\ req'[q] = req[q]
    <3>1. Registering(q) => req[q].id \in Live' /\ req[q].id \notin confirmed'
      BY <1>0, <2>2 DEF RequestOK
    <3> QED  BY <1>2, <2>1, <2>4, <3>1, OthersOK
  <2>5. RequestOK(p)' /\ ~Registering(p)'
    BY <2>1 DEF RequestOK, Registering
  <2>6. OwnRows'
    BY <1>0, <2>4, <2>5 DEF OwnRows
  <2>7. NothingLeftBehind'
    <3>1. ASSUME NEW k \in Live \ (confirmed \cup orphaned')
          PROVE  \E q \in Procs : Registering(q)' /\ req'[q].id = k
      <4>1. PICK q \in Procs : Registering(q) /\ req[q].id = k
        BY <1>0, <1>2 DEF NothingLeftBehind, Registering
      <4>2. q # p
        BY <1>2, <4>1
      <4> QED  BY <2>4, <4>1, <4>2
    <3> QED  BY <1>0, <2>2, <3>1 DEF NothingLeftBehind, Registering
  <2> QED  BY <2>3, <2>4, <2>5, <2>6, <2>7 DEF AccountInv
<1> QED  BY <1>1, <1>2 DEF RegUndo

\* UPDATE users.
LEMMA ProfileWriteKeeps ==
    ASSUME AccountInv, NEW p \in Procs, ProfileWrite(p)
    PROVE  AccountInv'
<1> DEFINE i == req[p].id
           n == IF req[p].name = Nil THEN req[p].copy ELSE req[p].name
<1>0. /\ DataTypes /\ ControlTypes /\ Known /\ UniqueLive /\ ConfirmedLives /\ NothingLeftBehind
      /\ OwnRows /\ pc[p] = "profileWrite" /\ ~Registering(p) /\ UNCHANGED <<cache, Tokens>>
      /\ (\A q \in Procs : RequestOK(q)) /\ "invalidate" \in Labels
      /\ i \in Ids /\ row[i] # Nil /\ n \in Names
  BY TypeSplit DEF AccountInv, ProfileWrite, Registering, RequestOK, Labels, ControlTypes, Request
<1>1. CASE Return(p) /\ UNCHANGED row
  BY <1>0, <1>1, QuietReturn DEF Store
<1>2. CASE /\ row[i].live /\ ~Conflict(i, row[i].email, n)
           /\ row' = [row EXCEPT ![i].name = n] /\ Continue(p, "invalidate", For(i))
  <2>0. For(i) \in Request /\ For(i).id = i
    BY <1>0, ForIs
  <2>1. ControlTypes' /\ pc'[p] = "invalidate" /\ req'[p] = For(i) /\ OthersWait(p)
    BY <1>0, <1>2, <2>0, ContinueTypes
  <2>2. /\ [row[i] EXCEPT !.name = n] \in Row /\ [row[i] EXCEPT !.name = n].live = row[i].live
        /\ [row[i] EXCEPT !.name = n].email = row[i].email /\ [row[i] EXCEPT !.name = n].name = n
    BY <1>0 DEF DataTypes, Row
  <2>3. /\ row' \in [Ids -> Row \cup {Nil}] /\ row'[i] \in Row /\ row'[i].live
        /\ row'[i].email = row[i].email /\ row'[i].name = n
        /\ \A k \in Ids \ {i} : row'[k] = row[k]
    BY <1>0, <1>2, <2>2 DEF DataTypes
  <2>4. Live' = Live /\ i \in Live /\ \A k \in Ids : row[k] # Nil => row'[k] # Nil
    BY <1>0, <1>2, <2>3, NilAssumption DEF Live
  <2>5. confirmed' = confirmed /\ orphaned' = orphaned /\ issued' = issued /\ cache' = cache
    BY <1>0 DEF Tokens
  <2>6. TypeOK' /\ Known' /\ ConfirmedLives'
    BY <1>0, <2>1, <2>3, <2>4, <2>5 DEF TypeOK, DataTypes, ControlTypes, Known, ConfirmedLives
  <2>7. UniqueLive'
    <3>1. ASSUME NEW k \in Live, k # i
          PROVE  row'[k] = row[k] /\ row[k].email # row[i].email /\ row[k].name # n
      BY <1>2, <2>3, <3>1 DEF Conflict, Live
    <3> QED  BY <1>0, <2>3, <2>4, <3>1 DEF UniqueLive
  <2>8. ASSUME NEW q \in Procs, q # p
        PROVE  RequestOK(q)' /\ (Registering(q)' <=> Registering(q)) /\ req'[q] = req[q]
    <3>1. Registering(q) => req[q].id \in Live' /\ req[q].id \notin confirmed'
      BY <1>0, <2>4, <2>5 DEF RequestOK
    <3> QED  BY <2>1, <2>4, <2>8, <3>1, OthersOK
  <2>9. RequestOK(p)' /\ ~Registering(p)'
    BY <1>0, <2>0, <2>1, <2>4 DEF RequestOK, Registering
  <2>10. OwnRows'
    BY <1>0, <2>8, <2>9 DEF OwnRows
  <2>11. NothingLeftBehind'
    BY <1>0, <2>4, <2>5, <2>8 DEF NothingLeftBehind, Registering
  <2> QED  BY <2>6, <2>7, <2>8, <2>9, <2>10, <2>11 DEF AccountInv
<1> QED  BY <1>1, <1>2 DEF ProfileWrite

\* Every step keeps the invariant.
LEMMA AccountStep ==
    ASSUME AccountInv, [Next]_vars
    PROVE  AccountInv'
<1>1. ASSUME NEW p \in Procs, Fail(p) PROVE AccountInv'
  BY <1>1, QuietReturn DEF Fail, Registering
<1>2. ASSUME NEW p \in Procs, Register(p) \/ Login(p) \/ Refresh(p) \/ UpdateMe(p) \/ Step(p)
      PROVE  AccountInv'
  BY <1>1, <1>2, RegisterLooks, LoginKeeps, TokensKeep, ProfileLooks, RegCreateKeeps,
     RegTokensKeeps, RegUndoKeeps, ProfileWriteKeeps DEF Step
<1>3. CASE UNCHANGED vars
  <2>1. Live' = Live
    BY <1>3 DEF vars, Live
  <2> QED  BY <1>3, <2>1 DEF vars, AccountInv, TypeOK, UniqueLive, ConfirmedLives, NothingLeftBehind,
                             RequestOK, Registering, OwnRows, Known
<1> QED  BY <1>2, <1>3, ExpiryKeeps DEF Next

\* The inductive invariant.
THEOREM AccountInvariant == Spec => []AccountInv
<1>1. AccountInv /\ [Next]_vars => AccountInv'
  BY AccountStep
<1> QED  BY AccountInitial, <1>1, PTL DEF Spec

\* The type invariant.
THEOREM AccountsTyped == Spec => []TypeOK
<1>1. AccountInv => TypeOK
  BY DEF AccountInv
<1> QED  BY AccountInvariant, <1>1, PTL

\* No two live users share an email or a username.
THEOREM LiveAreUnique == Spec => []UniqueLive
<1>1. AccountInv => UniqueLive
  BY DEF AccountInv
<1> QED  BY AccountInvariant, <1>1, PTL

\* A confirmed account is never taken back by another's registration.
THEOREM ConfirmedStay == Spec => []ConfirmedLives
<1>1. AccountInv => ConfirmedLives
  BY DEF AccountInv
<1> QED  BY AccountInvariant, <1>1, PTL

\* A Register that fails leaves no row behind, unless its Delete fails too.
THEOREM FailedLeaveNothing == Spec => []NothingLeftBehind
<1>1. AccountInv => NothingLeftBehind
  BY DEF AccountInv
<1> QED  BY AccountInvariant, <1>1, PTL

-----------------------------------------------------------------------------
\* An account that is gone: no step finds it, in the table, in the cache or in
\* a request under way.
LEMMA GoneStays ==
    ASSUME AccountInv, [Next]_vars, NEW i \in Ids, Gone(i)
    PROVE  Gone(i)' /\ (i \in issued' => i \in issued)
<1>0. /\ DataTypes /\ ControlTypes /\ (\A p \in Procs : RequestOK(p))
      /\ row[i] # Nil /\ i \notin Live /\ cache[i] = Nil /\ Nil # i
      /\ \A p \in Procs : pc[p] # "idle" => req[p].id # i
  BY TypeSplit, NilAssumption DEF AccountInv, Gone
<1> DEFINE Others == \A p \in Procs : pc'[p] # "idle" => req'[p].id # i
<1>c. ASSUME NEW p \in Procs, NEW label, NEW r, Continue(p, label, r), label = "idle" \/ r.id # i
      PROVE  Others
  BY <1>0, <1>c DEF Continue, ControlTypes
<1>r. ASSUME NEW p \in Procs, Return(p) PROVE Others
  BY <1>r, <1>c DEF Return
<1>g. ASSUME NEW p \in Procs, NEW label, pc[p] # "idle", Goto(p, label) PROVE Others
  BY <1>0, <1>g, <1>c DEF Goto
<1>s. ASSUME Others, row'[i] = row[i], cache'[i] = Nil, i \in issued' => i \in issued
      PROVE  Gone(i)' /\ (i \in issued' => i \in issued)
  BY <1>0, <1>s DEF Gone, Live
<1> HIDE DEF Others
<1>1. ASSUME NEW p \in Procs, Register(p) \/ RegName(p) \/ Fail(p) PROVE Others
  <2>1. ASSUME NEW e \in Emails, NEW n \in Names, RegBegin(p, e, n) PROVE Others
    BY <1>0, <1>c, <2>1 DEF RegBegin
  <2>2. CASE RegName(p) \/ Fail(p)
    BY <1>g, <1>r, <2>2 DEF RegName, Fail
  <2> QED  BY <1>1, <2>1, <2>2 DEF Register
<1>2. ASSUME NEW p \in Procs, RegCreate(p) PROVE Others /\ row'[i] = row[i]
  <2>1. PICK k \in Ids : /\ row[k] = Nil
                         /\ \/ /\ \E new : row' = [row EXCEPT ![k] = new]
                               /\ Continue(p, "regTokens", For(k))
                            \/ Return(p) /\ UNCHANGED row
    BY <1>2 DEF RegCreate
  <2>2. k # i /\ For(k).id = k
    BY <1>0, <2>1, ForIs
  <2> QED  BY <1>0, <1>c, <1>r, <2>1, <2>2 DEF DataTypes
<1>3. ASSUME NEW p \in Procs, RegTokens(p) PROVE Others /\ (i \in issued' => i \in issued)
  BY <1>0, <1>3, <1>g, <1>r DEF RegTokens
<1>4. ASSUME NEW p \in Procs, RegUndo(p) PROVE Others /\ row'[i] = row[i]
  <2>1. pc[p] # "idle" /\ req[p].id # i /\ req[p].id \in Ids
    BY <1>0, <1>4 DEF RegUndo, RequestOK
  <2> QED  BY <1>0, <1>4, <1>g, <1>r, <2>1 DEF RegUndo, DataTypes
<1>5. ASSUME NEW p \in Procs, Login(p) \/ Refresh(p) PROVE Others
  <2>1. ASSUME NEW k \in Ids, k # i, Continue(p, "tokens", For(k)) PROVE Others
    BY <1>c, <2>1, ForIs
  <2>2. ASSUME NEW k \in Ids, k # i, NEW n, Continue(p, "refreshFill", [For(k) EXCEPT !.copy = n])
        PROVE  Others
    <3>1. [For(k) EXCEPT !.copy = n].id = k
      BY DEF For
    <3> QED  BY <1>c, <2>2, <3>1
  <2>3. \A k \in Live : k \in Ids /\ k # i
    BY <1>0 DEF Live
  <2>4. CASE Login(p)
    BY <2>1, <2>3, <2>4 DEF Login, LoginBegin, ByEmail
  <2>5. CASE Refresh(p)
    BY <1>0, <2>1, <2>2, <2>5 DEF Refresh, RefreshToken
  <2> QED  BY <1>5, <2>4, <2>5
<1>6. ASSUME NEW p \in Procs, IssueTokens(p) PROVE Others /\ (i \in issued' => i \in issued)
  BY <1>0, <1>6, <1>r DEF IssueTokens
<1>7. ASSUME NEW p \in Procs, RefreshFill(p) \/ ProfileFill(p) \/ Invalidate(p)
      PROVE  Others /\ cache'[i] = Nil
  <2>1. pc[p] # "idle" /\ req[p].id # i /\ req[p].id \in Ids
    BY <1>0, <1>7 DEF RefreshFill, ProfileFill, Invalidate, RequestOK
  <2>2. For(req[p].id).id = req[p].id
    BY <2>1, ForIs
  <2>3. Others
    BY <1>7, <1>c, <1>r, <2>1, <2>2 DEF RefreshFill, ProfileFill, Invalidate, Patch
  <2>4. cache'[i] = Nil
    BY <1>0, <1>7, <2>1 DEF RefreshFill, ProfileFill, Invalidate, SetCopy, DataTypes
  <2> QED  BY <2>3, <2>4
<1>8. ASSUME NEW p \in Procs, UpdateMe(p) PROVE Others
  <2>1. PICK k \in Ids, n \in Names \cup {Nil} : ProfileBegin(p, k, n)
    BY <1>8 DEF UpdateMe
  <2>2. k # i
    BY <1>0, <2>1 DEF ProfileBegin
  <2>3. \A copy : [For(k) EXCEPT !.name = n, !.copy = copy].id = k
    BY DEF For
  <2>4. PICK copy, label : Continue(p, label, [For(k) EXCEPT !.name = n, !.copy = copy])
    BY <2>1 DEF ProfileBegin, Patch
  <2> QED  BY <1>c, <2>2, <2>3, <2>4
<1>9. ASSUME NEW p \in Procs, ProfileName(p) PROVE Others
  BY <1>9, <1>g, <1>r DEF ProfileName
<1>10. ASSUME NEW p \in Procs, ProfileWrite(p) PROVE Others /\ row'[i] = row[i]
  <2>1. req[p].id # i /\ req[p].id \in Ids
    BY <1>0, <1>10 DEF ProfileWrite, RequestOK
  <2>2. For(req[p].id).id = req[p].id
    BY <2>1, ForIs
  <2>3. Others
    BY <1>10, <1>c, <1>r, <2>1, <2>2 DEF ProfileWrite
  <2>4. row'[i] = row[i]
    BY <1>0, <1>10, <2>1 DEF ProfileWrite, DataTypes
  <2> QED  BY <2>3, <2>4
<1>11. ASSUME UNCHANGED <<pc, req>> PROVE Others
  BY <1>0, <1>11 DEF Others
<1>12. ASSUME NEW k \in Ids, CacheExpires(k) \/ TokensExpire(k)
       PROVE  Gone(i)' /\ (i \in issued' => i \in issued)
  BY <1>0, <1>11, <1>12, <1>s DEF CacheExpires, TokensExpire, DataTypes, Store, Tokens
<1>13. ASSUME NEW p \in Procs, Register(p) \/ Login(p) \/ Refresh(p) \/ UpdateMe(p) \/ Step(p)
       PROVE  Gone(i)' /\ (i \in issued' => i \in issued)
  <2>1. CASE Register(p) \/ RegName(p) \/ Fail(p) \/ Login(p) \/ Refresh(p) \/ UpdateMe(p)
             \/ ProfileName(p)
    <3>1. UNCHANGED <<Store, Tokens>>
      BY <2>1 DEF Register, RegBegin, RegName, Fail, Login, LoginBegin, Refresh, RefreshToken,
                  UpdateMe, ProfileBegin, ProfileName
    <3> QED  BY <1>0, <1>1, <1>5, <1>8, <1>9, <1>s, <2>1, <3>1 DEF Store, Tokens
  <2>2. CASE RegCreate(p)
    BY <1>0, <1>2, <1>s, <2>2 DEF RegCreate, Tokens
  <2>3. CASE RegTokens(p)
    BY <1>0, <1>3, <1>s, <2>3 DEF RegTokens, Store
  <2>4. CASE RegUndo(p)
    BY <1>0, <1>4, <1>s, <2>4 DEF RegUndo
  <2>5. CASE IssueTokens(p)
    BY <1>0, <1>6, <1>s, <2>5 DEF IssueTokens, Store
  <2>6. CASE RefreshFill(p) \/ ProfileFill(p) \/ Invalidate(p)
    BY <1>0, <1>7, <1>s, <2>6 DEF RefreshFill, ProfileFill, Invalidate, Tokens
  <2>7. CASE ProfileWrite(p)
    BY <1>0, <1>10, <1>s, <2>7 DEF ProfileWrite, Tokens
  <2> QED  BY <1>13, <2>1, <2>2, <2>3, <2>4, <2>5, <2>6, <2>7 DEF Step
<1>14. CASE UNCHANGED vars
  BY <1>0, <1>11, <1>14, <1>s DEF vars
<1> QED  BY <1>12, <1>13, <1>14 DEF Next

\* Once the row is deleted, its copy expired and its requests have ended, an
\* account is gone for good.
THEOREM GoneIsForGood == Spec => GoneForGood
<1>1. AccountInv /\ [Next]_vars =>
        [\A i \in Ids : Gone(i) => Gone(i)' /\ (i \in issued' => i \in issued)]_vars
  BY GoneStays
<1> QED  BY AccountInvariant, <1>1, PTL DEF Spec, GoneForGood

=============================================================================
