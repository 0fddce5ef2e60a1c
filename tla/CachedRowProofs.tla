--------------------------- MODULE CachedRowProofs --------------------------
(***************************************************************************)
(* Proofs for a cached chats or users row: as long as no two requests have *)
(* overlapped and no cache command was lost, the cache between calls never *)
(* contradicts the row and a patch changes exactly what it names, for both *)
(* orders of Update.                                                       *)
(***************************************************************************)
EXTENDS CachedRow, TLAPS

\* Where a request works on a copy of the row.
Copying == {"fill", "patchFill", "patch", "chatDel", "chatWrite", "userWrite"}

Typed == TypeOK /\ \A p \in Procs : pc[p] \in Copying => snap[p] \in Row

\* Until two requests have overlapped at most one is in progress.
Alone == ~overlapped => \A p, q \in Procs : p = q \/ pc[p] = "idle" \/ pc[q] = "idle"

\* What the request in progress has read is the row, what it will write is the
\* row with its patch, and chatRepo writes after it has deleted the entry.
Copy(p) ==
    /\ pc[p] \in {"fill", "patchFill", "patch"} => ~gone /\ snap[p] = row
    /\ pc[p] \in {"chatDel", "chatWrite", "userWrite"} =>
           ~gone /\ snap[p] = Patched(row, patch[p])
    /\ pc[p] = "chatWrite" => entry = Empty

\* The entry is old only while a request is about to delete it.
Cared == Stale => \E p \in Procs : pc[p] = "invalidate"

Coherent == ~overlapped /\ lost = 0 => Cared /\ \A p \in Procs : Copy(p)

RowInv == Typed /\ Alone /\ Coherent

-----------------------------------------------------------------------------
\* A patched row is a row.
LEMMA PatchedTyped ==
    ASSUME NEW copy \in Row, NEW change \in Patch \cup {NoPatch}
    PROVE  Patched(copy, change) \in Row
<1>1. \A f \in change.fields : change.value \in Values
  BY DEF Patch, NoPatch
<1> QED  BY <1>1 DEF Patched, Row

\* The types of a goroutine's own state after a step.
LEMMA GotoTyped ==
    ASSUME Typed, NEW p \in Procs, NEW label \in Labels,
           NEW copy \in Row \cup {Empty}, NEW change \in Patch \cup {NoPatch},
           label \in Copying => copy \in Row,
           Goto(p, label, copy, change)
    PROVE  /\ repo' \in {"chat", "user"} /\ overlapped' \in BOOLEAN
           /\ pc' \in [Procs -> Labels]
           /\ snap' \in [Procs -> Row \cup {Empty}]
           /\ patch' \in [Procs -> Patch \cup {NoPatch}]
           /\ \A q \in Procs : pc'[q] \in Copying => snap'[q] \in Row
<1>1. repo' \in {"chat", "user"} /\ overlapped' \in BOOLEAN
  BY DEF Typed, TypeOK, Goto
<1>2. pc' \in [Procs -> Labels]
  BY DEF Typed, TypeOK, Goto
<1>3. snap' \in [Procs -> Row \cup {Empty}]
  BY DEF Typed, TypeOK, Goto
<1>4. patch' \in [Procs -> Patch \cup {NoPatch}]
  BY DEF Typed, TypeOK, Goto
<1>5. ASSUME NEW q \in Procs, pc'[q] \in Copying  PROVE snap'[q] \in Row
  BY <1>5 DEF Typed, TypeOK, Goto
<1> QED  BY <1>1, <1>2, <1>3, <1>4, <1>5

\* UPDATE writes a row.
LEMMA UpdateTyped ==
    ASSUME Typed, NEW p \in Procs, pc[p] \in {"chatWrite", "userWrite"}, UpdateRow(p)
    PROVE  /\ row' \in Row /\ gone' \in BOOLEAN /\ entry' \in Row \cup {Empty}
           /\ writes' \in Nat /\ lost' \in Nat
<1>1. snap[p] \in Row
  BY DEF Typed, Copying
<1> QED  BY <1>1 DEF Typed, TypeOK, UpdateRow, Row

LEMMA TypedStep == Typed /\ [Next]_vars => Typed'
<1> SUFFICES ASSUME Typed, [Next]_vars  PROVE Typed'
  OBVIOUS
<1> USE DEF Labels
<1>1. TypeOK
  BY DEF Typed
<1> DEFINE Stored == /\ row' \in Row /\ gone' \in BOOLEAN /\ entry' \in Row \cup {Empty}
                     /\ writes' \in Nat /\ lost' \in Nat
           Run == /\ repo' \in {"chat", "user"} /\ overlapped' \in BOOLEAN
                  /\ pc' \in [Procs -> Labels]
                  /\ snap' \in [Procs -> Row \cup {Empty}]
                  /\ patch' \in [Procs -> Patch \cup {NoPatch}]
                  /\ \A q \in Procs : pc'[q] \in Copying => snap'[q] \in Row
<1>2. Stored /\ Run => Typed'
  BY DEF Typed, TypeOK
<1>3. CASE UNCHANGED vars
  BY <1>1, <1>3 DEF Typed, TypeOK, vars
<1>4. CASE Expire
  BY <1>1, <1>4 DEF Typed, TypeOK, Expire, Del, Database
<1>5. ASSUME NEW p \in Procs, Call(p) \/ Go(p)  PROVE Typed'
  <2> HIDE DEF Stored, Run
  <2>0. /\ row \in Row /\ entry \in Row \cup {Empty} /\ snap[p] \in Row \cup {Empty}
        /\ patch[p] \in Patch \cup {NoPatch}
        /\ pc[p] \in Copying => snap[p] \in Row
    BY <1>1 DEF Typed, TypeOK
  <2>a. /\ UNCHANGED <<Database, Cache>> => Stored
        /\ UNCHANGED Database /\ entry' \in Row \cup {Empty} /\ lost' \in Nat => Stored
    BY <1>1 DEF Stored, TypeOK, Database, Cache
  <2>b. (Lose => entry' \in Row \cup {Empty} /\ lost' \in Nat) /\ (Del => entry' \in Row \cup {Empty} /\ lost' \in Nat)
    BY <1>1 DEF TypeOK, Lose, Del
  <2>c. Return(p) => Run
    BY GotoTyped DEF Return, Run, Copying
  <2>d. Goto(p, "invalidate", Empty, NoPatch) => Run
    BY GotoTyped DEF Run, Copying
  <2>1. CASE Read(p)
    BY <1>2, <2>0, <2>1, <2>a, GotoTyped DEF Read, Run, Copying
  <2>2. ASSUME NEW change \in Patch, PatchHit(p, change) \/ PatchMiss(p, change)  PROVE Typed'
    BY <1>2, <2>0, <2>2, <2>a, GotoTyped DEF PatchHit, PatchMiss, Run, Copying
  <2>3. CASE UpdateStatus(p)
    <3>1. Run
      BY <2>3, <2>d DEF UpdateStatus
    <3>2. Stored
      BY <1>1, <2>3 DEF UpdateStatus, Stored, TypeOK, Row, Columns, Cache
    <3> QED  BY <1>2, <3>1, <3>2
  <2>4. CASE Delete(p)
    <3>1. Run
      BY <2>4, <2>d DEF Delete
    <3>2. Stored
      BY <1>1, <2>4 DEF Delete, Stored, TypeOK, Cache
    <3> QED  BY <1>2, <3>1, <3>2
  <2>5. CASE Fill(p)
    <3>1. Put(snap[p]) => entry' \in Row \cup {Empty} /\ lost' \in Nat
      BY <1>1, <2>0 DEF Put, TypeOK
    <3> QED  BY <1>2, <2>5, <2>a, <2>b, <2>c, <3>1 DEF Fill
  <2>6. CASE PatchFill(p)
    <3>1. Put(snap[p]) => entry' \in Row \cup {Empty} /\ lost' \in Nat
      BY <1>1, <2>0 DEF Put, TypeOK
    <3>2. Run
      BY <2>0, <2>6, GotoTyped DEF PatchFill, Run, Copying
    <3> QED  BY <1>2, <2>6, <2>a, <2>b, <3>1, <3>2 DEF PatchFill
  <2>7. CASE ApplyPatch(p)
    <3>1. Patched(snap[p], patch[p]) \in Row
      BY <2>0, <2>7, PatchedTyped DEF ApplyPatch, Copying
    <3>2. (IF repo = "chat" THEN "chatDel" ELSE "userWrite") \in Labels
      OBVIOUS
    <3> QED  BY <1>2, <2>0, <2>7, <2>a, <3>1, <3>2, GotoTyped DEF ApplyPatch, Run
  <2>8. CASE Refuse(p)
    BY <1>2, <2>8, <2>a, <2>c DEF Refuse
  <2>9. CASE ChatDel(p)
    <3>1. Run
      BY <2>0, <2>9, GotoTyped DEF ChatDel, Run, Copying
    <3> QED  BY <1>2, <2>9, <2>a, <2>b, <3>1 DEF ChatDel
  <2>10. CASE ChatWrite(p)
    BY <1>2, <2>10, <2>c, UpdateTyped DEF ChatWrite, Stored
  <2>11. CASE UserWrite(p)
    BY <1>2, <2>11, <2>c, <2>d, UpdateTyped DEF UserWrite, Stored
  <2>12. CASE Invalidate(p)
    BY <1>2, <2>12, <2>a, <2>b, <2>c DEF Invalidate
  <2> QED  BY <1>5, <2>1, <2>2, <2>3, <2>4, <2>5, <2>6, <2>7, <2>8, <2>9, <2>10, <2>11, <2>12 DEF Call, Go
<1> QED  BY <1>3, <1>4, <1>5 DEF Next

-----------------------------------------------------------------------------
\* A step of p after which no two requests have overlapped found all others idle.
LEMMA GotoAlone ==
    ASSUME Typed, Alone, NEW p \in Procs, NEW label, NEW copy, NEW change,
           Goto(p, label, copy, change)
    PROVE  /\ Alone'
           /\ ~overlapped' => /\ ~overlapped
                              /\ \A q \in Procs \ {p} : pc[q] = "idle" /\ pc'[q] = "idle"
<1>1. ASSUME ~overlapped'
      PROVE  /\ ~overlapped
             /\ \A q \in Procs \ {p} : pc[q] = "idle" /\ pc'[q] = "idle"
  BY <1>1 DEF Goto, Typed, TypeOK
<1> QED  BY <1>1 DEF Alone

LEMMA AloneStep == Typed /\ Alone /\ [Next]_vars => Alone'
<1> SUFFICES ASSUME Typed, Alone, [Next]_vars  PROVE Alone'
  OBVIOUS
<1>1. CASE UNCHANGED vars
  BY <1>1 DEF Alone, vars
<1>2. CASE Expire
  BY <1>2 DEF Alone, Expire
<1>3. ASSUME NEW p \in Procs, Call(p) \/ Go(p)  PROVE Alone'
  <2>1. \E label, copy, change : Goto(p, label, copy, change)
    BY <1>3 DEF Call, Go, Read, PatchHit, PatchMiss, UpdateStatus, Delete, Fill, PatchFill,
                ApplyPatch, Refuse, ChatDel, ChatWrite, UserWrite, Invalidate, Return
  <2> QED  BY <2>1, GotoAlone
<1> QED  BY <1>1, <1>2, <1>3 DEF Next

\* The row with a patch written over it, column by column, is the patched row.
LEMMA WriteIsPatch ==
    ASSUME Typed, NEW p \in Procs, UpdateRow(p), ~gone, snap[p] = Patched(row, patch[p])
    PROVE  row' = Patched(row, patch[p])
<1>1. patch[p].fields \subseteq Fields
  BY DEF Typed, TypeOK, Patch, NoPatch
<1>2. row' = [f \in Columns |-> IF f \in Fields THEN snap[p][f] ELSE row[f]]
  BY DEF UpdateRow
<1> QED  BY <1>1, <1>2 DEF Patched, Columns

\* The step of the only request in progress.
LEMMA CoherentRequest ==
    ASSUME RowInv, NEW p \in Procs, Call(p) \/ Go(p), ~overlapped', lost' = 0
    PROVE  Cared' /\ \A q \in Procs : Copy(q)'
<1>1. Typed /\ Alone /\ TypeOK
  BY DEF RowInv, Typed
<1>2. ~overlapped /\ \A q \in Procs \ {p} : pc[q] = "idle" /\ pc'[q] = "idle"
  <2>1. \E label, copy, change : Goto(p, label, copy, change)
    BY DEF Call, Go, Read, PatchHit, PatchMiss, UpdateStatus, Delete, Fill, PatchFill,
           ApplyPatch, Refuse, ChatDel, ChatWrite, UserWrite, Invalidate, Return
  <2> QED  BY <1>1, <2>1, GotoAlone
<1>3. lost = 0 /\ ~Lose
  <2>1. lost \in Nat /\ (Lose => lost' = lost + 1)
    BY <1>1 DEF TypeOK, Lose
  <2>2. lost' = lost \/ Lose
    BY DEF Call, Go, Read, PatchHit, PatchMiss, UpdateStatus, Delete, Fill, PatchFill, Put, Del, UpdateRow,
           ApplyPatch, Refuse, ChatDel, ChatWrite, UserWrite, Invalidate, Cache
  <2> QED  BY <2>1, <2>2
<1>4. Cared /\ Copy(p)
  BY <1>2, <1>3 DEF RowInv, Coherent
<1>5. (\A q \in Procs \ {p} : Copy(q)')
  BY <1>2 DEF Copy
<1>6. pc[p] # "invalidate" => ~Stale
  BY <1>2, <1>4 DEF Cared
<1>7. pc \in [Procs -> Labels] /\ snap \in [Procs -> Row \cup {Empty}]
      /\ patch \in [Procs -> Patch \cup {NoPatch}]
  BY <1>1 DEF TypeOK
<1> SUFFICES Cared' /\ Copy(p)'
  BY <1>5
<1> USE DEF Goto, Return, Database, Cache, Stale
<1>8. CASE Read(p)
  BY <1>6, <1>7, <1>8 DEF Read, Copy, Cared
<1>9. ASSUME NEW change \in Patch, PatchHit(p, change)  PROVE Cared' /\ Copy(p)'
  BY <1>6, <1>7, <1>9 DEF PatchHit, Copy, Cared
<1>10. ASSUME NEW change \in Patch, PatchMiss(p, change)  PROVE Cared' /\ Copy(p)'
  BY <1>6, <1>7, <1>10 DEF PatchMiss, Copy, Cared
<1>11. CASE UpdateStatus(p) \/ Delete(p)
  BY <1>7, <1>11 DEF UpdateStatus, Delete, Copy, Cared
<1>12. CASE Fill(p)
  BY <1>3, <1>4, <1>7, <1>12 DEF Fill, Put, Copy, Cared
<1>13. CASE PatchFill(p)
  BY <1>3, <1>4, <1>7, <1>13 DEF PatchFill, Put, Copy, Cared
<1>14. CASE ApplyPatch(p)
  BY <1>4, <1>6, <1>7, <1>14 DEF ApplyPatch, Copy, Cared
<1>15. CASE Refuse(p)
  BY <1>6, <1>7, <1>15 DEF Refuse, Copy, Cared
<1>16. CASE ChatDel(p)
  BY <1>3, <1>4, <1>7, <1>16 DEF ChatDel, Del, Copy, Cared
<1>17. CASE ChatWrite(p)
  BY <1>4, <1>7, <1>17 DEF ChatWrite, UpdateRow, Copy, Cared
<1>18. CASE UserWrite(p)
  BY <1>4, <1>7, <1>18 DEF UserWrite, UpdateRow, Copy, Cared
<1>19. CASE Invalidate(p)
  BY <1>3, <1>7, <1>19 DEF Invalidate, Del, Copy, Cared
<1> QED  BY <1>8, <1>9, <1>10, <1>11, <1>12, <1>13, <1>14, <1>15, <1>16, <1>17, <1>18, <1>19 DEF Call, Go

LEMMA CoherentStep == RowInv /\ [Next]_vars => Coherent'
<1> SUFFICES ASSUME RowInv, [Next]_vars, ~overlapped', lost' = 0
             PROVE  Cared' /\ \A p \in Procs : Copy(p)'
  BY DEF Coherent
<1>1. CASE UNCHANGED vars
  BY <1>1 DEF RowInv, Coherent, Cared, Copy, Stale, vars
<1>2. CASE Expire
  BY <1>2 DEF RowInv, Coherent, Cared, Copy, Stale, Expire, Del, Database
<1>3. ASSUME NEW p \in Procs, Call(p) \/ Go(p)  PROVE Cared' /\ \A q \in Procs : Copy(q)'
  BY <1>3, CoherentRequest
<1> QED  BY <1>1, <1>2, <1>3 DEF Next

LEMMA RowInitial == Init => RowInv
<1> SUFFICES ASSUME Init  PROVE RowInv
  OBVIOUS
<1>1. Typed
  BY BoundsAssumption DEF Init, Typed, TypeOK, Row, Labels, Copying
<1> QED  BY <1>1 DEF Init, RowInv, Alone, Coherent, Cared, Copy, Stale

-----------------------------------------------------------------------------
\* The invariant of the row, its entry and the requests on it holds for any
\* columns, values and goroutines and for both repositories.
THEOREM RowInvariant == Spec => []RowInv
<1>1. RowInv /\ [Next]_vars => RowInv'
  BY TypedStep, AloneStep, CoherentStep DEF RowInv
<1> QED  BY <1>1, RowInitial, PTL DEF Spec

\* Between calls the cache never contradicts the row, unless two requests
\* have overlapped or a cache command was lost: neither the Del before the
\* UPDATE of chatRepo nor the one after it of userRepo leaves an old entry.
THEOREM CacheNeverOld == Spec => []SerialCoherent
<1>1. RowInv => SerialCoherent
  BY DEF RowInv, Coherent, Cared, SerialCoherent, Calm
<1> QED  BY <1>1, RowInvariant, PTL

\* A patch that no other request overlaps changes exactly what it names,
\* although the copy it writes back may come from the cache.
THEOREM PatchesExact == Spec => SerialPatchExact
<1>1. ASSUME RowInv, [Next]_vars, ~overlapped, lost = 0, NEW p \in Procs
      PROVE  WritesExactly(p)
  <2> SUFFICES ASSUME pc[p] \in {"chatWrite", "userWrite"}, pc'[p] # pc[p]
               PROVE  row' = IF gone THEN row ELSE Patched(row, patch[p])
    BY DEF WritesExactly
  <2>1. Typed /\ ~gone /\ snap[p] = Patched(row, patch[p])
    BY <1>1 DEF RowInv, Coherent, Copy
  <2>2. UpdateRow(p)
    <3>1. \A q \in Procs \ {p} : ~(Call(q) \/ Go(q))
      <4> SUFFICES ASSUME NEW q \in Procs \ {p}, Call(q) \/ Go(q)  PROVE FALSE
        OBVIOUS
      <4>1. \E label, copy, change : Goto(q, label, copy, change)
        BY DEF Call, Go, Read, PatchHit, PatchMiss, UpdateStatus, Delete, Fill, PatchFill,
               ApplyPatch, Refuse, ChatDel, ChatWrite, UserWrite, Invalidate, Return
      <4> QED  BY <2>1, <4>1 DEF Goto, Typed, TypeOK
    <3>2. Call(p) \/ Go(p)
      BY <1>1, <3>1 DEF Next, Expire, vars
    <3> QED  BY <3>2 DEF Call, Go, Read, PatchHit, PatchMiss, UpdateStatus, Delete, Fill, PatchFill,
                         ApplyPatch, Refuse, ChatDel, ChatWrite, UserWrite, Invalidate
  <2> QED  BY <2>1, <2>2, WriteIsPatch
<1>2. RowInv /\ [Next]_vars => [~overlapped /\ lost = 0 => \A p \in Procs : WritesExactly(p)]_vars
  BY <1>1
<1> QED  BY <1>2, RowInvariant, PTL DEF Spec, SerialPatchExact

=============================================================================
