-------------------------- MODULE ReconcileProofs --------------------------
(***************************************************************************)
(* What TLAPS proves about module Reconcile for any number of guests and   *)
(* processes and any hardware and documents: that what is written is right, *)
(* and, in the second half, that it implements module GuestConfigs.        *)
(***************************************************************************)
EXTENDS Reconcile, TLAPS

\* A plan's lines come from the document and the hardware; it has any only
\* for a guest with a key, and it is a plan only for a guest with a key or a
\* record (plan.rs, plan).
LEMMA PlanFacts ==
    ASSUME NEW lines, NEW wants, NEW stock, NEW list, NEW has
    PROVE  LET plan == Outcome(lines, wants, stock, list, has)
           IN /\ plan.desired # {} => wants # {} /\ stock.driver
              /\ plan.desired # {} => plan.desired = UNION {Wanted(w, stock) : w \in wants}
              /\ plan.kind = "Plan" => wants # {} \/ has
              /\ plan.kind = "Plan" /\ wants # {} =>
                    IsUnprivileged(lines) /\ NvidiaDevEntries(lines) = {}
  BY DEF Outcome

\* What a plan would have written is made of lines the module knows.
LEMMA DesiredKnown ==
    ASSUME NEW lines, NEW wants \in Keys, NEW stock \in Hardware \cup {NoInventory},
           NEW list, NEW has
    PROVE  Outcome(lines, wants, stock, list, has).desired \subseteq KnownLines
<1> DEFINE desired == Outcome(lines, wants, stock, list, has).desired
<1>1. CASE desired = {}
  BY <1>1
<1>2. CASE desired # {}
  <2>1. wants # {} /\ stock.driver /\ desired = UNION {Wanted(w, stock) : w \in wants}
    BY <1>2, PlanFacts
  <2>2. stock \in Hardware
    BY <2>1 DEF NoInventory
  <2>3. wants \subseteq Docs
    BY DEF Keys
  <2>4. \A w \in wants : Wanted(w, stock) \subseteq KnownLines
    BY <2>2, <2>3 DEF KnownLines
  <2> QED  BY <2>1, <2>4
<1> QED  BY <1>1, <1>2

-----------------------------------------------------------------------------
\* The list file has no type of its own; the processes' copies are per process.
Typed == TypeOK /\ DOMAIN known = Procs

\* Ending a guest keeps every type.
LEMMA DoneTyped ==
    ASSUME Typed, NEW p \in Procs, Done(p)
    PROVE  /\ pc' \in [Procs -> Labels] /\ at' \in [Procs -> {{}} \cup {{g} : g \in Guests}]
           /\ want' \in [Procs -> Keys] /\ managed' \in [Procs -> BOOLEAN]
           /\ text' \in [Procs -> SUBSET KnownLines]
           /\ flock' \in [Guests -> Procs \cup {Free}]
           /\ inv' \in [Procs -> Hardware \cup {NoInventory}]
           /\ todo' \in [Procs -> SUBSET Guests]
           /\ DOMAIN known' = Procs
<1> USE DEF Typed, TypeOK, Done, Go
<1>1. pc' \in [Procs -> Labels]
  BY DEF Labels
<1>2. want' \in [Procs -> Keys]
  BY DEF Keys
<1>3. inv' \in [Procs -> Hardware \cup {NoInventory}]
  OBVIOUS
<1>4. /\ at' \in [Procs -> {{}} \cup {{g} : g \in Guests}]
      /\ managed' \in [Procs -> BOOLEAN]
      /\ text' \in [Procs -> SUBSET KnownLines]
  OBVIOUS
<1>5. flock' \in [Guests -> Procs \cup {Free}]
  OBVIOUS
<1>6. todo' \in [Procs -> SUBSET Guests] /\ DOMAIN known' = Procs
  OBVIOUS
<1> QED  BY <1>1, <1>2, <1>3, <1>4, <1>5, <1>6

\* Every variable starts in its type.
LEMMA InitTyped == Init => Typed
<1> SUFFICES ASSUME Init PROVE Typed
  OBVIOUS
<1>1. conf \in [Guests -> SUBSET KnownLines]
  BY DEF Init, KnownLines
<1>2. /\ doc \in [Guests -> Keys] /\ want \in [Procs -> Keys]
      /\ pc \in [Procs -> Labels]
  BY DEF Init, Keys, Labels
<1>3. moves \in 0..MaxMoves
  BY ReconcileAssumption DEF Init
<1> QED  BY <1>1, <1>2, <1>3 DEF Init, Typed, TypeOK

\* So does a step of a process leave them, action by action.
LEMMA PassTyped ==
    ASSUME Typed, NEW p \in Procs,
           TakeStock(p) \/ OfPass(p) \/ Fail(p) \/ Killed(p) \/ RecallFails(p)
    PROVE  Typed'
<1> USE DEF Typed, TypeOK, disk, history, Go
<1>1. CASE TakeStock(p)
  BY <1>1 DEF TakeStock, Labels
<1>2. CASE ListGuests(p)
  BY <1>2 DEF ListGuests, Labels
<1>3. CASE Retain(p)
  BY <1>3 DEF Retain, Walk, Labels
<1>4. ASSUME NEW list, Recall(p, list), moves' \in 0..MaxMoves
      PROVE  Typed'
  BY <1>4 DEF Recall, Walk, Labels
<1>5. CASE RecallMajors(p)
  BY <1>4, <1>5 DEF RecallMajors
<1>6. CASE RecallFails(p)
  BY <1>4, <1>6, ReconcileAssumption DEF RecallFails, Move
<1>7. CASE Fail(p)
  <2>1. moves' \in 0..MaxMoves
    BY <1>7, ReconcileAssumption DEF Fail, Move
  <2> QED  BY <1>7, <2>1, DoneTyped DEF Fail
<1>8. CASE Killed(p)
  <2>1. moves' \in 0..MaxMoves
    BY <1>8, ReconcileAssumption DEF Killed, Move
  <2>2. want' \in [Procs -> Keys]
    BY <1>8 DEF Killed, Keys
  <2>3. flock' \in [Guests -> Procs \cup {Free}]
    BY <1>8 DEF Killed
  <2>4. pc' \in [Procs -> Labels]
    BY <1>8 DEF Killed, Labels
  <2> QED  BY <1>8, <2>1, <2>2, <2>3, <2>4 DEF Killed
<1>9. ASSUME NEW g \in Guests, NameGuest(p, g) \/ AtGuest(p, g)
      PROVE  Typed'
  <2>1. CASE NameGuest(p, g)
    BY <2>1 DEF NameGuest, Walk, Labels
  <2>2. CASE Pick(p, g)
    BY <2>2 DEF Pick, Labels
  <2>3. CASE Look(p, g)
    BY <2>3, DoneTyped DEF Look, Labels
  <2>4. CASE PlanGuest(p, g)
    <3>1. CASE Done(p)
      BY <2>4, <3>1, DoneTyped DEF PlanGuest
    <3>2. CASE ~Done(p)
      <4>1. managed' = [managed EXCEPT ![p] = g \in record]
        BY <2>4, <3>2 DEF PlanGuest
      <4>2. (g \in record) \in BOOLEAN
        OBVIOUS
      <4>3. managed' \in [Procs -> BOOLEAN]
        BY <4>1, <4>2, Zenon
      <4> QED  BY <2>4, <3>2, <4>3 DEF PlanGuest, Labels
    <3> QED  BY <3>1, <3>2
  <2>5. CASE TakeLock(p, g)
    BY <2>5 DEF TakeLock, Labels
  <2>6. CASE LockBusy(p, g)
    BY <2>6, DoneTyped DEF LockBusy
  <2>7. CASE Relook(p, g)
    <3>1. CASE Done(p)
      BY <2>7, <3>1, DoneTyped DEF Relook
    <3>2. CASE ~Done(p)
      BY <2>7, <3>2 DEF Relook, Labels
    <3> QED  BY <3>1, <3>2
  <2>8. CASE NoteRecord(p, g)
    <3>1. record' \subseteq Guests
      BY <2>8 DEF NoteRecord
    <3>2. CASE Done(p)
      BY <2>8, <3>1, <3>2, DoneTyped DEF NoteRecord
    <3>3. CASE ~Done(p)
      BY <2>8, <3>1, <3>3 DEF NoteRecord, Labels
    <3> QED  BY <3>2, <3>3
  <2>9. CASE NoteMajor(p, g)
    <3>1. CASE Done(p)
      BY <2>9, <3>1, DoneTyped DEF NoteMajor
    <3>2. CASE ~Done(p)
      BY <2>9, <3>2 DEF NoteMajor, Labels
    <3> QED  BY <3>1, <3>2
  <2>10. CASE CheckThere(p, g)
    BY <2>10, DoneTyped DEF CheckThere, Labels
  <2>11. CASE Rename(p, g)
    <3> DEFINE plan == Current(p)
               new == Splice(text[p], plan.desired, plan.owned)
    <3>1. plan.desired \subseteq KnownLines
      BY DesiredKnown DEF Current, PlanOf
    <3>2. new \subseteq KnownLines
      BY <3>1 DEF Splice
    <3>3. conf' \in [Guests -> SUBSET KnownLines] /\ ours' \in [Guests -> SUBSET KnownLines]
      BY <2>11, <3>1, <3>2 DEF Rename
    <3>4. CASE Done(p)
      BY <2>11, <3>3, <3>4, DoneTyped DEF Rename
    <3>5. CASE ~Done(p)
      BY <2>11, <3>3, <3>5 DEF Rename, Labels
    <3> QED  BY <3>4, <3>5
  <2>12. CASE ClearRecord(p, g)
    BY <2>12, DoneTyped DEF ClearRecord
  <2> QED  BY <1>9, <2>1, <2>2, <2>3, <2>4, <2>5, <2>6, <2>7, <2>8, <2>9, <2>10,
              <2>11, <2>12 DEF AtGuest
<1> QED  BY <1>1, <1>2, <1>3, <1>5, <1>6, <1>7, <1>8, <1>9 DEF OfPass

\* And a step of the world, whose lines are all of known kinds.
LEMMA WorldTyped ==
    ASSUME Typed,
           \/ HardwareChanges
           \/ \E g \in Guests : EditDocument(g) \/ PveEdit(g) \/ Create(g) \/ Vanish(g)
    PROVE  Typed'
<1> USE ReconcileAssumption DEF Typed, TypeOK, World, Move, locals, history
<1>1. CASE HardwareChanges
  BY <1>1 DEF HardwareChanges
<1>2. ASSUME NEW g \in Guests, EditDocument(g)
      PROVE  Typed'
  BY <1>2 DEF EditDocument
<1>3. ASSUME NEW g \in Guests, PveEdit(g)
      PROVE  Typed'
  <2>1. PICK lines \in {conf[g] \ ours[g]} \cup {conf[g] \cup {l} : l \in PveLines}
                      \cup {conf[g] \ {l} : l \in PveLines} :
           /\ conf' = [conf EXCEPT ![g] = lines]
           /\ ours' = [ours EXCEPT ![g] = @ \cap lines]
    BY <1>3 DEF PveEdit
  <2>2. lines \subseteq KnownLines
    BY DEF KnownLines
  <2>3. conf' \in [Guests -> SUBSET KnownLines] /\ ours' \in [Guests -> SUBSET KnownLines]
    BY <2>1, <2>2
  <2> QED  BY <1>3, <2>3 DEF PveEdit
<1>4. ASSUME NEW g \in Guests, Create(g)
      PROVE  Typed'
  <2>1. conf' \in [Guests -> SUBSET KnownLines]
    BY <1>4 DEF Create, KnownLines
  <2> QED  BY <1>4, <2>1 DEF Create
<1>5. ASSUME NEW g \in Guests, Vanish(g)
      PROVE  Typed'
  BY <1>5 DEF Vanish
<1> QED  BY <1>1, <1>2, <1>3, <1>4, <1>5

\* Together: types are inductive.
LEMMA StepTyped == Typed /\ [Next]_vars => Typed'
<1> SUFFICES ASSUME Typed, [Next]_vars PROVE Typed'
  OBVIOUS
<1>1. CASE UNCHANGED vars
  BY <1>1 DEF vars, disk, locals, history, Typed, TypeOK
<1>2. CASE Next
  BY <1>2, PassTyped, WorldTyped DEF Next
<1> QED  BY <1>1, <1>2

\* Every variable stays in its type, and every line in a config or in a
\* process's hands was there before, was put there by PVE or a person, or was
\* rendered from a document and the hardware.
THEOREM TypeCorrect == Spec => []TypeOK
<1>1. Spec => []Typed
  BY InitTyped, StepTyped, PTL DEF Spec
<1>2. Typed => TypeOK
  BY DEF Typed
<1> QED  BY <1>1, <1>2, PTL

-----------------------------------------------------------------------------
\* Process p has decided to replace its guest's lines, and is on its way.
Committed(p) ==
    \/ pc[p] \in {"check", "rename"}
    \/ pc[p] \in {"note", "major"} /\ Changed(Current(p))

\* Between taking the lock and the write it is held; a write is planned from
\* a config that can carry it, and that still stands if the guest is there.
LockHeld(p, g) ==
    /\ pc[p] = "relook" => flock[g] = p
    /\ Committed(p) =>
          /\ flock[g] = p
          /\ Current(p).kind = "Plan" /\ ~Locked(text[p])
          /\ g \in exist => conf[g] = text[p]

\* A guest at which anything speaks of a key has had one.
KeyKnown(p, g) == want[p] # {} \/ managed[p] => g \in keyed

Planned == \A p \in Procs, g \in Guests : at[p] = {g} => LockHeld(p, g) /\ KeyKnown(p, g)
Home(p) ==
    pc[p] \in {"idle", "list", "retain", "recall", "pick"} => at[p] = {} /\ ~managed[p]
KeysKept == record \subseteq keyed /\ \A g \in Guests : doc[g] # {} => g \in keyed

IInv == Typed /\ Planned /\ KeysKept /\ \A p \in Procs : Home(p)

\* A step of process p changes nothing that belongs to process q.
Untouched(q) ==
    /\ pc'[q] = pc[q] /\ at'[q] = at[q] /\ want'[q] = want[q]
    /\ managed'[q] = managed[q] /\ text'[q] = text[q]
    /\ Current(q)' = Current(q)
    /\ \A g \in Guests : flock[g] = q => flock'[g] = q

\* A step of one process leaves the plan and the lock of another alone.
LEMMA OthersUntouched ==
    ASSUME Typed, NEW p \in Procs, NEW q \in Procs, p # q,
           TakeStock(p) \/ OfPass(p) \/ Fail(p) \/ Killed(p) \/ RecallFails(p)
    PROVE  Untouched(q)
<1> USE DEF Typed, TypeOK, Untouched, Current, PlanOf, Go
<1>1. CASE TakeStock(p)
  BY <1>1 DEF TakeStock
<1>2. CASE ListGuests(p)
  BY <1>2 DEF ListGuests
<1>3. CASE Retain(p)
  BY <1>3 DEF Retain, Walk
<1>4. ASSUME NEW list, Recall(p, list)
      PROVE  Untouched(q)
  BY <1>4 DEF Recall, Walk
<1>5. CASE Done(p)
  BY <1>5 DEF Done
<1>6. CASE Killed(p)
  BY <1>6 DEF Killed
<1>7. ASSUME NEW g \in Guests, NameGuest(p, g)
      PROVE  Untouched(q)
  BY <1>7 DEF NameGuest, Walk
<1>8. ASSUME NEW g \in Guests, AtGuest(p, g), ~Done(p)
      PROVE  Untouched(q)
  <2>1. CASE Pick(p, g)
    BY <2>1 DEF Pick
  <2>2. CASE Look(p, g)
    BY <1>8, <2>2 DEF Look
  <2>3. CASE PlanGuest(p, g)
    BY <1>8, <2>3 DEF PlanGuest
  <2>4. CASE TakeLock(p, g)
    BY <2>4, ReconcileAssumption DEF TakeLock
  <2>5. CASE Relook(p, g)
    BY <1>8, <2>5 DEF Relook
  <2>6. CASE NoteRecord(p, g)
    BY <1>8, <2>6 DEF NoteRecord
  <2>7. CASE NoteMajor(p, g)
    BY <1>8, <2>7 DEF NoteMajor
  <2>8. CASE CheckThere(p, g)
    BY <1>8, <2>8 DEF CheckThere
  <2>9. CASE Rename(p, g)
    BY <1>8, <2>9 DEF Rename
  <2> QED  BY <1>8, <2>1, <2>2, <2>3, <2>4, <2>5, <2>6, <2>7, <2>8, <2>9
           DEF AtGuest, LockBusy, ClearRecord
<1> QED  BY <1>1, <1>2, <1>3, <1>4, <1>5, <1>6, <1>7, <1>8
         DEF OfPass, RecallMajors, RecallFails, Fail

\* At the start nobody is at a guest and nothing is recorded.
LEMMA InitInvariant == Init => IInv
<1> SUFFICES ASSUME Init PROVE IInv
  OBVIOUS
<1>1. Typed
  BY InitTyped
<1>2. Planned
  BY DEF Init, Planned
<1>3. KeysKept /\ \A p \in Procs : Home(p)
  BY DEF Init, KeysKept, Home
<1> QED  BY <1>1, <1>2, <1>3 DEF IInv

\* What one process does never invalidates what another one is about to write.
LEMMA OthersPlanned ==
    ASSUME IInv, NEW p \in Procs, NEW q \in Procs, p # q,
           TakeStock(p) \/ OfPass(p) \/ Fail(p) \/ Killed(p) \/ RecallFails(p)
    PROVE  /\ \A g \in Guests : at'[q] = {g} => LockHeld(q, g)' /\ KeyKnown(q, g)'
           /\ Home(q)'
<1> USE DEF IInv
<1>1. Untouched(q)
  BY OthersUntouched
<1>2. keyed' = keyed
  BY DEF OfPass, AtGuest, TakeStock, ListGuests, NameGuest, Retain, RecallMajors, Recall,
         RecallFails, Fail, Killed, Pick, Look, PlanGuest, TakeLock, LockBusy, Relook,
         NoteRecord, NoteMajor, CheckThere, Rename, ClearRecord, history
<1>3. ASSUME NEW h \in Guests, flock[h] = q
      PROVE  conf'[h] = conf[h] /\ (h \in exist' <=> h \in exist)
  <2>1. ASSUME NEW g \in Guests, Rename(p, g)
        PROVE  g # h
    BY <1>3, <2>1 DEF Rename, Planned, LockHeld, Committed
  <2>2. ASSUME NEW g \in Guests, Rename(p, g)
        PROVE  conf'[h] = conf[h] /\ (h \in exist' <=> h \in exist)
    BY <2>1, <2>2 DEF Rename, Typed, TypeOK
  <2>3. CASE ~\E g \in Guests : Rename(p, g)
    <3>1. conf' = conf /\ exist' = exist
      BY <2>3
         DEF OfPass, AtGuest, TakeStock, ListGuests, NameGuest, Retain, RecallMajors, Recall,
             RecallFails, Fail, Killed, Pick, Look, PlanGuest, TakeLock, LockBusy, Relook,
             NoteRecord, NoteMajor, CheckThere, ClearRecord, disk
    <3> QED  BY <3>1
  <2> QED  BY <2>2, <2>3
<1>4. ASSUME NEW g \in Guests, at'[q] = {g}
      PROVE  LockHeld(q, g)' /\ KeyKnown(q, g)'
  <2>1. LockHeld(q, g) /\ KeyKnown(q, g)
    BY <1>1, <1>4 DEF Untouched, Planned
  <2>2. KeyKnown(q, g)'
    BY <1>1, <1>2, <2>1 DEF Untouched, KeyKnown
  <2>3. LockHeld(q, g)'
    BY <1>1, <1>3, <2>1 DEF Untouched, LockHeld, Committed
  <2> QED  BY <2>2, <2>3
<1>5. Home(q)'
  BY <1>1 DEF Untouched, Home
<1> QED  BY <1>4, <1>5

\* Nor does the world, which edits configs only under a free lock.
LEMMA WorldPlanned ==
    ASSUME IInv,
           \/ HardwareChanges
           \/ \E g \in Guests : EditDocument(g) \/ PveEdit(g) \/ Create(g) \/ Vanish(g)
    PROVE  Planned' /\ KeysKept' /\ \A q \in Procs : Home(q)'
<1> USE DEF IInv
<1>1. UNCHANGED <<flock, locals, record, majors>>
  BY DEF HardwareChanges, EditDocument, PveEdit, Create, Vanish, World
<1>2. keyed \subseteq keyed'
  BY DEF HardwareChanges, EditDocument, PveEdit, Create, Vanish, history
<1>3. ASSUME NEW h \in Guests, flock[h] # Free
      PROVE  h \in exist' => h \in exist /\ conf'[h] = conf[h]
  BY <1>3 DEF HardwareChanges, EditDocument, PveEdit, Create, Vanish, Typed, TypeOK
<1>4. ASSUME NEW q \in Procs, NEW g \in Guests, at'[q] = {g}
      PROVE  LockHeld(q, g)' /\ KeyKnown(q, g)'
  <2>1. LockHeld(q, g) /\ KeyKnown(q, g)
    BY <1>1, <1>4 DEF Planned, locals
  <2>2. KeyKnown(q, g)'
    BY <1>1, <1>2, <2>1 DEF KeyKnown, locals
  <2>3. Current(q)' = Current(q)
    BY <1>1 DEF locals, Current, PlanOf
  <2>4. LockHeld(q, g)'
    BY <1>1, <1>3, <2>1, <2>3, ReconcileAssumption DEF LockHeld, Committed, locals
  <2> QED  BY <2>2, <2>4
<1>5. KeysKept'
  <2>1. ASSUME NEW g \in Guests, EditDocument(g)
        PROVE  KeysKept'
    BY <1>1, <1>2, <2>1 DEF EditDocument, KeysKept, Typed, TypeOK
  <2>2. CASE doc' = doc
    BY <1>1, <1>2, <2>2 DEF KeysKept
  <2> QED  BY <2>1, <2>2 DEF HardwareChanges, PveEdit, Create, Vanish
<1>6. ASSUME NEW q \in Procs
      PROVE  Home(q)'
  BY <1>1 DEF Home, locals
<1> QED  BY <1>4, <1>5, <1>6 DEF Planned

\* A process's own step: one case per step of Pass::guest.
LEMMA OwnPlanned ==
    ASSUME IInv, NEW p \in Procs,
           TakeStock(p) \/ OfPass(p) \/ Fail(p) \/ Killed(p) \/ RecallFails(p)
    PROVE  /\ \A g \in Guests : at'[p] = {g} => LockHeld(p, g)' /\ KeyKnown(p, g)'
           /\ Home(p)' /\ KeysKept'
<1> USE DEF IInv, Typed, TypeOK
<1> DEFINE Good == /\ \A g \in Guests : at'[p] = {g} => LockHeld(p, g)' /\ KeyKnown(p, g)'
                   /\ Home(p)'
<1>1. CASE Done(p)
  <2>1. at'[p] = {} /\ managed'[p] = FALSE
    BY <1>1 DEF Done
  <2>2. Good
    BY <2>1 DEF Home
  <2>3. \/ keyed' = keyed /\ doc' = doc /\ record' \subseteq record
        \/ \E g \in Guests : NoteRecord(p, g)
    BY DEF OfPass, AtGuest, TakeStock, ListGuests, NameGuest, Retain, RecallMajors, Recall,
           RecallFails, Fail, Killed, Pick, Look, PlanGuest, TakeLock, LockBusy, Relook,
           NoteMajor, CheckThere, Rename, ClearRecord, history, disk
  <2>4. ASSUME NEW g \in Guests, NoteRecord(p, g)
        PROVE  KeysKept'
    <3>1. Current(p).desired # {} => want[p] # {}
      BY PlanFacts DEF Current, PlanOf
    <3>2. KeyKnown(p, g)
      BY <2>4 DEF NoteRecord, Planned
    <3> QED  BY <2>4, <3>1, <3>2 DEF NoteRecord, KeyKnown, KeysKept, history
  <2>5. KeysKept'
    BY <2>3, <2>4 DEF KeysKept
  <2> QED  BY <2>2, <2>5
<1>2. CASE Killed(p)
  <2>1. at'[p] = {} /\ managed'[p] = FALSE
    BY <1>2 DEF Killed
  <2> QED  BY <1>2, <2>1 DEF Home, Killed, KeysKept, disk, history
<1>3. CASE TakeStock(p) \/ ListGuests(p) \/ Retain(p)
  BY <1>3 DEF TakeStock, ListGuests, Retain, Walk, Go, Home, KeysKept, disk, history
<1>4. ASSUME NEW list, Recall(p, list)
      PROVE  Good /\ KeysKept'
  BY <1>4 DEF Recall, Walk, Go, Home, KeysKept, disk, history
<1>5. ASSUME NEW g \in Guests, NameGuest(p, g)
      PROVE  Good /\ KeysKept'
  BY <1>5 DEF NameGuest, Walk, Go, Home, KeysKept, disk, history
<1>6. ASSUME NEW g \in Guests, Pick(p, g)
      PROVE  Good /\ KeysKept'
  BY <1>6 DEF Pick, Go, Home, KeysKept, LockHeld, KeyKnown, Committed, disk, history
<1>7. ASSUME NEW g \in Guests, Look(p, g), ~Done(p)
      PROVE  Good /\ KeysKept'
  BY <1>7 DEF Look, Go, Home, KeysKept, Planned, LockHeld, KeyKnown, Committed, disk, history
<1>8. ASSUME NEW g \in Guests, PlanGuest(p, g), ~Done(p)
      PROVE  Good /\ KeysKept'
  <2>1. /\ managed' = [managed EXCEPT ![p] = g \in record]
        /\ pc' = [pc EXCEPT ![p] = IF Changed(PlanOf(p, text[p], g \in record))
                                  THEN "lock" ELSE "note"]
        /\ UNCHANGED <<flock, inv, known, todo, at, want, text, disk, history>>
        /\ at[p] = {g}
    BY <1>8 DEF PlanGuest, Go
  <2>2. managed'[p] = (g \in record)
    BY <2>1, Zenon
  <2>3. Current(p)' = PlanOf(p, text[p], g \in record)
    BY <2>1, <2>2 DEF Current, PlanOf
  <2>4. pc'[p] \in {"lock", "note"} /\ (pc'[p] = "note" => ~Changed(Current(p)'))
    BY <2>1, <2>3
  <2>5. ~Committed(p)'
    BY <2>4 DEF Committed
  <2>6. LockHeld(p, g)' /\ Home(p)'
    BY <2>4, <2>5 DEF LockHeld, Home
  <2>7. KeyKnown(p, g)'
    BY <2>1, <2>2 DEF KeyKnown, KeysKept, Planned, history
  <2> QED  BY <2>1, <2>6, <2>7 DEF KeysKept, disk, history
<1>9. ASSUME NEW g \in Guests, TakeLock(p, g)
      PROVE  Good /\ KeysKept'
  BY <1>9 DEF TakeLock, Go, Home, KeysKept, Planned, LockHeld, KeyKnown, Committed, disk, history
<1>10. ASSUME NEW g \in Guests, Relook(p, g), ~Done(p)
       PROVE  Good /\ KeysKept'
  <2>1. /\ text' = [text EXCEPT ![p] = conf[g]]
        /\ pc'[p] \in {"check", "note"}
        /\ UNCHANGED <<flock, inv, known, todo, at, want, managed, disk, history>>
        /\ pc[p] = "relook" /\ at[p] = {g} /\ ~Locked(conf[g])
        /\ PlanOf(p, conf[g], managed[p]).kind = "Plan"
    BY <1>10 DEF Relook, Go
  <2>2. Current(p)' = PlanOf(p, conf[g], managed[p])
    BY <2>1 DEF Current, PlanOf
  <2>3. flock[g] = p /\ KeyKnown(p, g)
    BY <2>1 DEF Planned, LockHeld
  <2>4. LockHeld(p, g)'
    BY <2>1, <2>2, <2>3 DEF LockHeld, disk
  <2> QED  BY <2>1, <2>3, <2>4 DEF KeyKnown, Home, KeysKept, disk, history
<1>11. ASSUME NEW g \in Guests, NoteRecord(p, g), ~Done(p)
       PROVE  Good /\ KeysKept'
  <2>1. /\ pc[p] = "note" /\ at[p] = {g}
        /\ pc'[p] \in {"major", "check"} /\ (pc'[p] = "check" => Changed(Current(p)))
        /\ record' = IF Current(p).desired = {} THEN record \ {g} ELSE record \cup {g}
        /\ UNCHANGED <<flock, inv, known, at, want, managed, text, conf, exist, doc, keyed>>
    BY <1>11 DEF NoteRecord, Go, history
  <2>2. Current(p)' = Current(p)
    BY <2>1 DEF Current, PlanOf
  <2>3. LockHeld(p, g) /\ KeyKnown(p, g)
    BY <2>1 DEF Planned
  <2>4. LockHeld(p, g)' /\ KeyKnown(p, g)'
    BY <2>1, <2>2, <2>3 DEF LockHeld, KeyKnown, Committed
  <2>5. Current(p).desired # {} => want[p] # {}
    BY PlanFacts DEF Current, PlanOf
  <2>6. KeysKept'
    BY <2>1, <2>3, <2>5 DEF KeysKept, KeyKnown
  <2> QED  BY <2>1, <2>4, <2>6 DEF Home
<1>12. ASSUME NEW g \in Guests, NoteMajor(p, g) \/ CheckThere(p, g), ~Done(p)
       PROVE  Good /\ KeysKept'
  <2>1. /\ Committed(p) /\ at[p] = {g} /\ pc'[p] \in {"check", "rename"}
        /\ UNCHANGED <<flock, inv, known, at, want, managed, text, conf, exist, doc, keyed, record>>
    BY <1>12 DEF NoteMajor, CheckThere, Go, Committed, disk, history
  <2>2. Current(p)' = Current(p)
    BY <2>1 DEF Current, PlanOf
  <2>3. LockHeld(p, g)' /\ KeyKnown(p, g)'
    BY <2>1, <2>2 DEF LockHeld, KeyKnown, Planned
  <2> QED  BY <2>1, <2>3 DEF Home, KeysKept
<1>13. ASSUME NEW g \in Guests, Rename(p, g), ~Done(p)
       PROVE  Good /\ KeysKept'
  BY <1>13 DEF Rename, Go, Home, KeysKept, Planned, LockHeld, KeyKnown, Committed
<1> QED  BY <1>1, <1>2, <1>3, <1>4, <1>5, <1>6, <1>7, <1>8, <1>9, <1>10, <1>11, <1>12, <1>13
         DEF OfPass, AtGuest, RecallMajors, RecallFails, Fail, LockBusy, ClearRecord

\* The invariant is inductive: own steps, the others', the world's.
LEMMA StepInvariant == IInv /\ [Next]_vars => IInv'
<1> SUFFICES ASSUME IInv, [Next]_vars PROVE IInv'
  OBVIOUS
<1>1. Typed'
  BY StepTyped DEF IInv
<1>2. CASE UNCHANGED vars
  BY <1>1, <1>2 DEF IInv, vars, disk, locals, history, Planned, LockHeld, KeyKnown, Committed,
                    Current, PlanOf, KeysKept, Home
<1>3. ASSUME NEW p \in Procs,
             TakeStock(p) \/ OfPass(p) \/ Fail(p) \/ Killed(p) \/ RecallFails(p)
      PROVE  IInv'
  <2>1. /\ \A g \in Guests : at'[p] = {g} => LockHeld(p, g)' /\ KeyKnown(p, g)'
        /\ Home(p)' /\ KeysKept'
    BY <1>3, OwnPlanned
  <2>2. ASSUME NEW q \in Procs, q # p
        PROVE  /\ \A g \in Guests : at'[q] = {g} => LockHeld(q, g)' /\ KeyKnown(q, g)'
               /\ Home(q)'
    BY <1>3, <2>2, OthersPlanned
  <2> QED  BY <1>1, <2>1, <2>2 DEF IInv, Planned
<1>4. CASE \/ HardwareChanges
           \/ \E g \in Guests : EditDocument(g) \/ PveEdit(g) \/ Create(g) \/ Vanish(g)
  BY <1>1, <1>4, WorldPlanned DEF IInv
<1> QED  BY <1>2, <1>3, <1>4 DEF Next

\* So it always holds.
LEMMA Invariance == Spec => []IInv
  BY InitInvariant, StepInvariant, PTL DEF Spec

\* A write happens at a rename, by the plan of the process that renames.
LEMMA WritesRename ==
    ASSUME IInv, [Next]_vars, NEW p \in Procs, NEW g \in Guests, Writes(p, g)
    PROVE  /\ conf'[g] = Splice(text[p], Current(p).desired, Current(p).owned)
           /\ Committed(p) /\ LockHeld(p, g) /\ KeyKnown(p, g)
<1> USE DEF IInv
<1>1. Committed(p) /\ LockHeld(p, g) /\ KeyKnown(p, g)
  BY DEF Writes, Committed, Planned
<1>2. pc'[p] # pc[p]
  BY DEF Writes
<1>3. CASE Rename(p, g)
  BY <1>1, <1>3 DEF Rename, Typed, TypeOK
<1>4. CASE ~Rename(p, g)
  <2>1. ASSUME NEW q \in Procs, q # p,
               TakeStock(q) \/ OfPass(q) \/ Fail(q) \/ Killed(q) \/ RecallFails(q)
        PROVE  FALSE
    BY <1>2, <2>1, OthersUntouched DEF Untouched
  <2>2. ASSUME TakeStock(p) \/ OfPass(p) \/ Fail(p) \/ Killed(p) \/ RecallFails(p)
        PROVE  FALSE
    <3>1. pc[p] = "rename" /\ at[p] = {g}
      BY DEF Writes
    <3>2. ASSUME NEW h \in Guests, Rename(p, h)
          PROVE  FALSE
      <4>1. h = g
        BY <3>1, <3>2 DEF Rename
      <4> QED  BY <1>4, <3>2, <4>1
    <3>3. conf' = conf
      BY <2>2, <3>2
         DEF OfPass, AtGuest, TakeStock, ListGuests, NameGuest, Retain, RecallMajors, Recall,
             RecallFails, Fail, Killed, Pick, Look, PlanGuest, TakeLock, LockBusy, Relook,
             NoteRecord, NoteMajor, CheckThere, ClearRecord, disk
    <3> QED  BY <3>3 DEF Writes
  <2>3. ASSUME \/ HardwareChanges \/ UNCHANGED vars
               \/ \E h \in Guests : EditDocument(h) \/ PveEdit(h) \/ Create(h) \/ Vanish(h)
        PROVE  FALSE
    BY <1>2, <2>3 DEF HardwareChanges, EditDocument, PveEdit, Create, Vanish, World, locals, vars
  <2> QED  BY <2>1, <2>2, <2>3 DEF Next
<1> QED  BY <1>1, <1>3, <1>4

\* No lost update, for any number of processes, guests and PVE edits: what is
\* written is the config that stands, with the managed lines replaced.
THEOREM NothingLost == Spec => NoLostUpdate
<1>1. IInv /\ [Next]_vars =>
        [\A p \in Procs, g \in Guests : Writes(p, g) =>
            conf'[g] = Splice(conf[g], Current(p).desired, Current(p).owned)]_vars
  <2> SUFFICES ASSUME IInv, [Next]_vars, NEW p \in Procs, NEW g \in Guests, Writes(p, g)
               PROVE  conf'[g] = Splice(conf[g], Current(p).desired, Current(p).owned)
    OBVIOUS
  <2>1. conf[g] = text[p]
    BY WritesRename DEF LockHeld, Writes
  <2> QED  BY <2>1, WritesRename
<1> QED  BY <1>1, Invariance, PTL DEF Spec, NoLostUpdate

\* Only configs that can carry the lines are replaced.
THEOREM OnlyFitWritten == Spec => OnlyFitConfigs
<1>1. IInv /\ [Next]_vars =>
        [\A p \in Procs, g \in Guests : Writes(p, g) =>
            /\ ~Locked(conf[g])
            /\ want[p] # {} => IsUnprivileged(conf[g]) /\ NvidiaDevEntries(conf[g]) = {}]_vars
  <2> SUFFICES ASSUME IInv, [Next]_vars, NEW p \in Procs, NEW g \in Guests, Writes(p, g)
               PROVE  /\ ~Locked(conf[g])
                      /\ want[p] # {} => /\ IsUnprivileged(conf[g])
                                         /\ NvidiaDevEntries(conf[g]) = {}
    OBVIOUS
  <2>1. conf[g] = text[p] /\ Current(p).kind = "Plan" /\ ~Locked(text[p])
    BY WritesRename DEF LockHeld, Writes
  <2> QED  BY <2>1, PlanFacts DEF Current, PlanOf
<1> QED  BY <1>1, Invariance, PTL DEF Spec, OnlyFitConfigs

\* A guest that never had a key is never written.
THEOREM StrangersUntouched == Spec => HandsOff
<1>1. IInv /\ [Next]_vars =>
        [\A p \in Procs, g \in Guests : Writes(p, g) => g \in keyed]_vars
  <2> SUFFICES ASSUME IInv, [Next]_vars, NEW p \in Procs, NEW g \in Guests, Writes(p, g)
               PROVE  g \in keyed
    OBVIOUS
  <2>1. Current(p).kind = "Plan" /\ KeyKnown(p, g)
    BY WritesRename DEF LockHeld
  <2>2. want[p] # {} \/ managed[p]
    BY <2>1, PlanFacts DEF Current, PlanOf
  <2> QED  BY <2>1, <2>2 DEF KeyKnown
<1> QED  BY <1>1, Invariance, PTL DEF Spec, HandsOff
-----------------------------------------------------------------------------
\* Module Reconcile implements module GuestConfigs.

\* What a process of this tool does (the rest of Next is the world's).
PassStep(p) == TakeStock(p) \/ OfPass(p) \/ Fail(p) \/ Killed(p) \/ RecallFails(p)

\* What is in a process's hands after a step was there before, or is what
\* there is to be read now.
Handed(q) ==
    /\ inv'[q] \in {inv[q], hw, NoInventory}
    /\ \A g \in Guests : at'[q] = {g} =>
          (at[q] = {g} /\ want'[q] = want[q]) \/ want'[q] = doc[g]

\* Ending a guest hands nobody anything.
LEMMA DoneHanded ==
    ASSUME Typed, NEW p \in Procs, Done(p), NEW q \in Procs
    PROVE  inv'[q] \in {inv[q], NoInventory} /\ \A g \in Guests : at'[q] = {g} =>
              at[q] = {g} /\ want'[q] = want[q]
  BY DEF Typed, TypeOK, Done

\* Only TakeStock reads the hardware, and only Pick a document.
LEMMA StepHanded ==
    ASSUME Typed, NEW p \in Procs, PassStep(p), NEW q \in Procs
    PROVE  Handed(q)
<1> USE DEF Typed, TypeOK, Handed
<1>1. CASE TakeStock(p)
  BY <1>1 DEF TakeStock
<1>2. CASE ListGuests(p)
  BY <1>2 DEF ListGuests
<1>3. CASE Retain(p)
  BY <1>3 DEF Retain, Walk
<1>4. ASSUME NEW list, Recall(p, list)
      PROVE  Handed(q)
  BY <1>4 DEF Recall, Walk
<1>5. CASE Done(p)
  BY <1>5, DoneHanded
<1>6. CASE Killed(p)
  BY <1>6 DEF Killed
<1>7. ASSUME NEW g \in Guests, NameGuest(p, g)
      PROVE  Handed(q)
  BY <1>7 DEF NameGuest, Walk
<1>8. ASSUME NEW g \in Guests, AtGuest(p, g), ~Done(p)
      PROVE  Handed(q)
  <2>1. CASE Pick(p, g)
    BY <2>1 DEF Pick
  <2>2. CASE UNCHANGED <<inv, at, want>>
    BY <2>2
  <2> QED  BY <1>8, <2>1, <2>2
           DEF AtGuest, Look, PlanGuest, TakeLock, LockBusy, Relook, NoteRecord, NoteMajor,
               CheckThere, Rename, ClearRecord
<1> QED  BY <1>1, <1>2, <1>3, <1>4, <1>5, <1>6, <1>7, <1>8
         DEF PassStep, OfPass, RecallMajors, RecallFails, Fail

\* A step of a process leaves the world alone, and but for a rename the configs.
LEMMA StepLeaves ==
    ASSUME NEW p \in Procs, PassStep(p)
    PROVE  /\ UNCHANGED <<hw, doc, keyed>>
           /\ (\A g \in Guests : ~Rename(p, g)) => UNCHANGED <<exist, conf>>
  BY DEF PassStep, OfPass, AtGuest, TakeStock, ListGuests, NameGuest, Retain, RecallMajors, Recall,
         RecallFails, Fail, Killed, Pick, Look, PlanGuest, TakeLock, LockBusy, Relook,
         NoteRecord, NoteMajor, CheckThere, Rename, ClearRecord, disk, history

-----------------------------------------------------------------------------
\* The refinement mapping only ever takes in what is handed.
LEMMA HandedMapped ==
    ASSUME \A q \in Procs : Handed(q)
    PROVE  /\ Stocks' \subseteq Stocks \cup {hw}
           /\ \A g \in Guests : Asked'[g] \subseteq Asked[g] \cup {doc[g]}
<1>1. Stocks' \subseteq Stocks \cup {hw}
  BY DEF Stocks, Handed
<1>2. ASSUME NEW g \in Guests, NEW key \in Asked'[g]
      PROVE  key \in Asked[g] \cup {doc[g]}
  <2>1. PICK q \in Procs : at'[q] = {g} /\ key = want'[q]
    BY <1>2 DEF Asked
  <2>2. CASE at[q] = {g} /\ want'[q] = want[q]
    BY <2>1, <2>2 DEF Asked
  <2> QED  BY <2>1, <2>2 DEF Handed
<1> QED  BY <1>1, <1>2

\* A step of a process that is not a rename is one of preparation.
LEMMA OtherStepsPrepare ==
    ASSUME Typed, NEW p \in Procs, PassStep(p), \A g \in Guests : ~Rename(p, g)
    PROVE  Seen!Prepare
<1>1. UNCHANGED <<hw, doc, keyed, exist, conf>>
  BY StepLeaves
<1>2. /\ Stocks' \subseteq Stocks \cup {hw}
      /\ \A g \in Guests : Asked'[g] \subseteq Asked[g] \cup {doc[g]}
  BY StepHanded, HandedMapped
<1>3. HeldLocks' \cup Begun' \subseteq Guests
  BY DEF HeldLocks, Begun
<1> QED  BY <1>1, <1>2, <1>3 DEF Seen!Prepare, Seen!world, Seen!configs

\* Both modules speak of the same lines: the tool's, ...
LEMMA SameManaged ==
    \A lines, owned : Seen!ManagedLines(lines, owned) = ManagedLines(lines, owned)
<1>1. \A line, owned : Seen!IsManaged(line, owned) <=> IsManaged(line, owned)
  BY DEF Seen!IsManaged, IsManaged, Seen!Owns, Owns, Seen!Hook, Hook, Seen!Wildcard, Wildcard,
         Seen!NvidiaMajor, NvidiaMajor, Seen!NvidiaNames, NvidiaNames,
         Seen!VisibleDevices, VisibleDevices, Seen!DriverCapabilities, DriverCapabilities,
         Seen!RequireCuda, RequireCuda, Seen!DisableRequire, DisableRequire
<1> QED  BY <1>1 DEF Seen!ManagedLines, ManagedLines

\* ... those that are asked for, ...
LEMMA SameWanted == \A wants, stock : Seen!Wanted(wants, stock) = Wanted(wants, stock)
  BY DEF Seen!Wanted, Wanted, Seen!Render, Render, Seen!Selected, Selected,
         Seen!CapabilityList, CapabilityList, Seen!DefaultCapabilities, DefaultCapabilities,
         Seen!Allow, Allow, Seen!EnvLine, EnvLine, Seen!Plain, Plain, Seen!HookLine, HookLine,
         Seen!Hook, Hook, Seen!NvidiaMajor, NvidiaMajor, Seen!ModesetMinor, ModesetMinor,
         Seen!CtlMinor, CtlMinor, Seen!VisibleDevices, VisibleDevices,
         Seen!DriverCapabilities, DriverCapabilities, Seen!RequireCuda, RequireCuda

\* ... and those that say whether a config is fit.
LEMMA SameFit ==
    ASSUME NEW lines, NEW key
    PROVE  Seen!Fit(lines, key) <=>
              ~Locked(lines) /\ (key # {} => IsUnprivileged(lines) /\ NvidiaDevEntries(lines) = {})
  BY DEF Seen!Fit, Seen!Locked, Locked, Seen!IsUnprivileged, IsUnprivileged, Seen!Unprivileged,
         Unprivileged, Seen!Plain, Plain, Seen!NvidiaDevEntries, NvidiaDevEntries

\* The lines a plan replaces are the tool's on this hardware and, with
\* nvidia-uvm loaded, rules of majors that no driver has.
LEMMA ReplacedLines ==
    ASSUME NEW lines, NEW stock, NEW list,
           NEW owned, owned = OwnedBy(stock.uvm, list, stock.chars)
    PROVE  LET old == ManagedLines(lines, owned) \ Seen!Own(lines, stock)
           IN /\ ManagedLines(lines, owned) = Seen!Own(lines, stock) \cup old
              /\ old \in SUBSET Seen!Abandoned(lines, stock)
              /\ stock.uvm = {} => old = {}
<1> DEFINE plain == [uvm |-> stock.uvm, remembered |-> {}]
<1>1. owned.uvm = stock.uvm
  BY DEF OwnedBy
<1>2. \A m \in owned.remembered : m \in stock.uvm \/ m \notin stock.chars
  BY DEF OwnedBy
<1>3. stock.uvm = {} => owned.remembered = {}
  BY DEF OwnedBy
<1>4. ASSUME NEW l, IsManaged(l, plain)
      PROVE  IsManaged(l, owned)
  BY <1>1, <1>4 DEF IsManaged, Owns
<1>5. ASSUME NEW l, IsManaged(l, owned), ~IsManaged(l, plain)
      PROVE  /\ l.key = "allow" /\ l.name = "c" /\ l.major # Wildcard
             /\ l.major \in owned.remembered /\ l.major \notin stock.uvm
  BY <1>1, <1>5 DEF IsManaged, Owns
<1>6. Seen!Own(lines, stock) = {l \in lines : IsManaged(l, plain)}
  BY SameManaged DEF Seen!Own, ManagedLines
<1>7. Seen!Own(lines, stock) \subseteq ManagedLines(lines, owned)
  BY <1>4, <1>6 DEF ManagedLines
<1>8. ASSUME NEW l \in ManagedLines(lines, owned) \ Seen!Own(lines, stock)
      PROVE  l \in Seen!Abandoned(lines, stock) /\ stock.uvm # {}
  BY <1>2, <1>3, <1>5, <1>6, <1>8 DEF ManagedLines, Seen!Abandoned, Seen!Wildcard, Wildcard
<1> QED  BY <1>7, <1>8

\* A plan to write is one of a key and a hardware with a driver, for a config
\* that is fit for it.
LEMMA PlanToWrite ==
    ASSUME NEW lines, NEW wants, NEW stock, NEW list, NEW has,
           Outcome(lines, wants, stock, list, has).kind = "Plan"
    PROVE  LET plan == Outcome(lines, wants, stock, list, has)
           IN /\ stock.driver
              /\ plan.desired = UNION {Wanted(w, stock) : w \in wants}
              /\ plan.owned = OwnedBy(stock.uvm, list, stock.chars)
              /\ wants # {} => IsUnprivileged(lines) /\ NvidiaDevEntries(lines) = {}
  BY DEF Outcome

-----------------------------------------------------------------------------
\* After a write there is less in the tool's hands, and this guest's is done.
LEMMA RenameDone ==
    ASSUME IInv, NEW p \in Procs, NEW g \in Guests, Rename(p, g)
    PROVE  /\ HeldLocks' \subseteq HeldLocks /\ Begun' \subseteq Begun \ {g}
           /\ Stocks' \subseteq Stocks /\ \A h \in Guests : Asked'[h] \subseteq Asked[h]
<1> USE DEF IInv, Typed, TypeOK
<1>1. \A q \in Procs : /\ inv'[q] \in {inv[q], NoInventory}
                       /\ \A h \in Guests : at'[q] = {h} => at[q] = {h} /\ want'[q] = want[q]
  BY DoneHanded DEF Rename
<1>2. Stocks' \subseteq Stocks
  BY <1>1 DEF Stocks
<1>3. \A h \in Guests : Asked'[h] \subseteq Asked[h]
  BY <1>1 DEF Asked
<1>4. HeldLocks' \subseteq HeldLocks
  BY DEF Rename, Done, HeldLocks
<1>5. ASSUME NEW q \in Procs, NEW h \in Guests, pc'[q] = "rename", at'[q] = {h}
      PROVE  q # p /\ pc[q] = "rename" /\ at[q] = {h} /\ h # g
  <2>1. q # p
    BY <1>5 DEF Rename, Done, Go
  <2>2. pc[q] = "rename" /\ at[q] = {h}
    BY <1>1, <1>5, <2>1 DEF Rename, Done, Go
  <2>3. flock[h] = q /\ flock[g] = p
    BY <2>2 DEF Rename, Planned, LockHeld, Committed
  <2> QED  BY <2>1, <2>2, <2>3
<1>6. Begun' \subseteq Begun \ {g}
  BY <1>5 DEF Begun
<1> QED  BY <1>2, <1>3, <1>4, <1>6

\* A rename is a replacement of the config that stands, or the return of one
\* that went.
LEMMA RenameReplaces ==
    ASSUME IInv, NEW p \in Procs, NEW g \in Guests, Rename(p, g), Typed'
    PROVE  Seen!Replace(g) \/ Seen!Revive(g)
<1> DEFINE plan == Current(p)
<1> USE DEF IInv
<1>1. LockHeld(p, g) /\ KeyKnown(p, g) /\ pc[p] = "rename" /\ at[p] = {g}
  BY DEF Rename, Planned
<1>2. plan.kind = "Plan" /\ ~Locked(text[p]) /\ flock[g] = p /\ (g \in exist => conf[g] = text[p])
  BY <1>1 DEF LockHeld, Committed
<1>3. /\ inv[p].driver
      /\ plan.desired = UNION {Wanted(w, inv[p]) : w \in want[p]}
      /\ plan.owned = OwnedBy(inv[p].uvm, Elements(known[p]), inv[p].chars)
      /\ want[p] # {} => IsUnprivileged(text[p]) /\ NvidiaDevEntries(text[p]) = {}
      /\ want[p] # {} \/ managed[p]
  BY <1>2, PlanToWrite, PlanFacts DEF Current, PlanOf
<1>4. g \in keyed
  BY <1>1, <1>3 DEF KeyKnown
<1>5. g \in Begun /\ g \in HeldLocks
  BY <1>1, <1>2, ReconcileAssumption DEF Begun, HeldLocks
<1>6. want[p] \in Asked[g] /\ inv[p] \in Stocks
  BY <1>1, <1>3 DEF Asked, Stocks, NoInventory
<1>7. UNCHANGED <<hw, doc, keyed>> /\ exist' = exist \cup {g}
  BY DEF Rename
<1>8. conf' = [conf EXCEPT ![g] = Splice(text[p], plan.desired, plan.owned)]
  BY DEF Rename
<1>9. CASE g \in exist
  <2> DEFINE old == ManagedLines(conf[g], plan.owned) \ Seen!Own(conf[g], inv[p])
  <2>1. /\ ManagedLines(conf[g], plan.owned) = Seen!Own(conf[g], inv[p]) \cup old
        /\ old \in SUBSET Seen!Abandoned(conf[g], inv[p])
        /\ inv[p].uvm = {} => old = {}
    <3>1. PICK list : plan.owned = OwnedBy(inv[p].uvm, list, inv[p].chars)
      BY <1>3
    <3> HIDE DEF plan
    <3> QED  BY <3>1, ReplacedLines
  <2>2. Seen!Fit(conf[g], want[p])
    BY <1>2, <1>3, <1>9, SameFit
  <2>3. plan.desired = UNION {Seen!Wanted(d, inv[p]) : d \in want[p]}
    BY <1>3, SameWanted
  <2>4. Splice(text[p], plan.desired, plan.owned) =
          (conf[g] \ (Seen!Own(conf[g], inv[p]) \cup old)) \cup plan.desired
    BY <1>2, <1>9, <2>1 DEF Splice
  <2>5. conf' = [conf EXCEPT ![g] =
                   (@ \ (Seen!Own(@, inv[p]) \cup old))
                      \cup UNION {Seen!Wanted(d, inv[p]) : d \in want[p]}]
    BY <1>8, <2>3, <2>4
  <2>6. Seen!WriteDone(g)
    BY RenameDone DEF Seen!WriteDone
  <2>7. UNCHANGED <<hw, doc, keyed, exist>>
    BY <1>7, <1>9
  <2> QED  BY <1>3, <1>4, <1>5, <1>6, <1>9, <2>1, <2>2, <2>5, <2>6, <2>7
           DEF Seen!Replace, Seen!world
<1>10. CASE g \notin exist
  <2>1. conf'[g] \subseteq KnownLines /\ conf' = [conf EXCEPT ![g] = conf'[g]]
    BY <1>8 DEF Typed, TypeOK
  <2>2. Seen!BecomesAny(g)
    BY <1>7, <2>1 DEF Seen!BecomesAny
  <2> QED  BY <1>4, <1>5, <1>7, <1>10, <2>2, RenameDone DEF Seen!Revive, Seen!WriteDone, Seen!world
<1> QED  BY <1>9, <1>10

\* What the world does, it does there too.
LEMMA WorldSeen ==
    ASSUME Typed, Typed',
           \/ HardwareChanges
           \/ \E g \in Guests : EditDocument(g) \/ PveEdit(g) \/ Create(g) \/ Vanish(g)
    PROVE  Seen!Next
<1> USE DEF Typed, TypeOK
<1>1. UNCHANGED <<flock, locals>>
  BY DEF HardwareChanges, EditDocument, PveEdit, Create, Vanish, World
<1>2. UNCHANGED <<HeldLocks, Begun, Stocks, Asked>>
  BY <1>1 DEF locals, HeldLocks, Begun, Stocks, Asked
<1> USE DEF Seen!world, Seen!configs, Seen!tool
<1>3. CASE HardwareChanges
  BY <1>2, <1>3 DEF HardwareChanges, history, Seen!HardwareChanges, Seen!Next
<1>4. ASSUME NEW g \in Guests, EditDocument(g)
      PROVE  Seen!Next
  <2>1. Seen!GetsKey(g)
    BY <1>2, <1>4 DEF EditDocument, Seen!GetsKey, Seen!Keys, Keys
  <2> QED  BY <2>1 DEF Seen!Next
<1>5. ASSUME NEW g \in Guests, PveEdit(g) \/ Create(g)
      PROVE  Seen!Next
  <2>1. g \notin HeldLocks /\ exist' = exist \cup {g} /\ UNCHANGED <<hw, doc, keyed>>
    BY <1>5 DEF PveEdit, Create, HeldLocks, history
  <2>2. conf' = [conf EXCEPT ![g] = conf'[g]] /\ conf'[g] \subseteq KnownLines
    BY <1>5 DEF PveEdit, Create
  <2>3. Seen!Edit(g)
    BY <1>2, <2>1, <2>2 DEF Seen!Edit, Seen!BecomesAny
  <2> QED  BY <2>3 DEF Seen!Next
<1>6. ASSUME NEW g \in Guests, Vanish(g)
      PROVE  Seen!Next
  <2>1. Seen!Vanish(g)
    BY <1>2, <1>6 DEF Vanish, Seen!Vanish
  <2> QED  BY <2>1 DEF Seen!Next
<1> QED  BY <1>3, <1>4, <1>5, <1>6

\* The initial states are initial states there.
LEMMA InitSeen == Init => Seen!Init
<1> SUFFICES ASSUME Init PROVE Seen!Init
  OBVIOUS
<1>1. conf \in [Guests -> SUBSET KnownLines]
  BY InitTyped DEF Typed, TypeOK
<1>2. HeldLocks = {} /\ Begun = {} /\ Stocks = {} /\ Asked = [g \in Guests |-> {}]
  BY DEF Init, HeldLocks, Begun, Stocks, Asked
<1> QED  BY <1>1, <1>2 DEF Init, Seen!Init, Seen!Keys, Keys

\* Every step is a step there, or changes nothing there.
LEMMA StepSeen == IInv /\ IInv' /\ [Next]_vars => [Seen!Next]_(Seen!vars)
<1> SUFFICES ASSUME IInv, IInv', [Next]_vars PROVE Seen!Next \/ UNCHANGED Seen!vars
  OBVIOUS
<1>1. Typed /\ Typed'
  BY DEF IInv
<1>2. CASE UNCHANGED vars
  BY <1>2 DEF vars, disk, locals, history, Seen!vars, Seen!world, Seen!configs, Seen!tool,
              HeldLocks, Begun, Stocks, Asked
<1>3. ASSUME NEW p \in Procs, PassStep(p)
      PROVE  Seen!Next
  <2>1. ASSUME NEW g \in Guests, Rename(p, g)
        PROVE  Seen!Next
    BY <1>1, <2>1, RenameReplaces DEF Seen!Next
  <2>2. CASE \A g \in Guests : ~Rename(p, g)
    BY <1>1, <1>3, <2>2, OtherStepsPrepare DEF Seen!Next
  <2> QED  BY <2>1, <2>2
<1> QED  BY <1>1, <1>2, <1>3, WorldSeen DEF Next, PassStep

\* What module GuestConfigs promises is kept by every run of module Reconcile:
\* however many processes, guests, edits, kills and failures there are, a config
\* is replaced in one step under its lock, and only by the lines of a key and
\* hardware that were there when they were read (reconcile.rs, Pass::guest).
THEOREM Refinement == Spec => PromiseKept
  BY InitSeen, StepSeen, Invariance, PTL DEF Spec, PromiseKept, Seen!Spec
=============================================================================
