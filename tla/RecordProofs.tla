---------------------------- MODULE RecordProofs ----------------------------
(***************************************************************************)
(* The record and the list of majors of a node whose only process of this  *)
(* tool is the daemon: for any number of guests and any hardware and       *)
(* documents, and wherever it fails or is killed, the record names every   *)
(* guest that carries a driver line, and the list has the major of every   *)
(* nvidia-uvm rule whose guest has not missed UvmKept changes of it.       *)
(***************************************************************************)
EXTENDS ReconcileProofs, SeqFilterProofs

\* The lines the record is about, and what this tool ever renders.
DriverLines(g) == ours[g] \ UvmLines(ours[g])
Rendered(l) ==
    \/ l.key = "hook" /\ l.name = Hook
    \/ l.key = "env" /\ l.name \in NvidiaNames
    \/ l.key = "allow" /\ l.name = "c"

\* Every driver line is managed, whatever majors are owned; so nothing of
\* them is left when the managed lines are replaced.
LEMMA DriverManaged ==
    ASSUME NEW l, NEW owned, Rendered(l), ~(l.key = "allow" /\ l.major # NvidiaMajor)
    PROVE  IsManaged(l, owned)
  BY DEF Rendered, IsManaged, Owns, NvidiaMajor, Wildcard

\* What a document asks for, line by line.
LEMMA WantedLines ==
    ASSUME NEW want1, NEW stock, NEW l \in Wanted(want1, stock)
    PROVE  LET gpus == Selected(want1, stock)
               caps == CapabilityList(want1)
           IN \/ l \in {Allow(NvidiaMajor, g.minor) : g \in gpus}
              \/ l \in {Allow(NvidiaMajor, ModesetMinor) : c \in caps \cap {"graphics", "display"}}
              \/ l \in {Allow(NvidiaMajor, CtlMinor), HookLine,
                        EnvLine(VisibleDevices, {g.uuid : g \in gpus})}
              \/ l \in {Allow(m, i) : m \in stock.uvm, i \in {0, 1}}
              \/ l \in (IF caps = {} THEN {} ELSE {EnvLine(DriverCapabilities, caps)})
              \/ l \in {EnvLine(RequireCuda, {v}) : v \in want1.require_cuda}
  <1> USE DEF Allow, HookLine, EnvLine, Plain
  <1> DEFINE gpus == Selected(want1, stock)
             caps == CapabilityList(want1)
  <1>1. \/ l \in {Allow(NvidiaMajor, g.minor) : g \in gpus}
        \/ l \in {Allow(NvidiaMajor, ModesetMinor) : c \in caps \cap {"graphics", "display"}}
        \/ l \in {Allow(NvidiaMajor, CtlMinor), HookLine,
                  EnvLine(VisibleDevices, {g.uuid : g \in gpus})}
        \/ l \in {Allow(m, i) : m \in stock.uvm, i \in {0, 1}}
        \/ l \in (IF caps = {} THEN {} ELSE {EnvLine(DriverCapabilities, caps)})
        \/ l \in {EnvLine(RequireCuda, {v}) : v \in want1.require_cuda}
    BY DEF Wanted, Render
  <1> QED
    BY <1>1

LEMMA WantedRendered ==
    ASSUME NEW want1, NEW stock, NEW l \in Wanted(want1, stock) PROVE Rendered(l)
  BY WantedLines DEF Rendered, Allow, HookLine, EnvLine, Plain, NvidiaNames

LEMMA DesiredRendered ==
    ASSUME NEW lines, NEW wants, NEW stock, NEW list, NEW has,
           NEW l \in Outcome(lines, wants, stock, list, has).desired
    PROVE  Rendered(l)
  <1>1. l \in UNION {Wanted(w, stock) : w \in wants}
    BY PlanFacts
  <1> QED
    BY <1>1, WantedRendered

-----------------------------------------------------------------------------
\* Lines of this tool are in the config they were written to.
InPlace ==
    \A g \in Guests : /\ ours[g] \subseteq conf[g]
                      /\ g \notin exist => ours[g] = {}
                      /\ \A l \in ours[g] : Rendered(l)

\* Process p at guest g: it has seen what is there; a guest with nothing
\* wanted is only noted when it carries nothing, and one with lines to come
\* is in the record first; one that is about to be cleared has none left.
Prepared(p, g) ==
    /\ pc[p] \in {"plan", "lock", "relook", "note", "major", "check", "rename"} =>
          ours[g] \subseteq text[p]
    /\ pc[p] = "note" /\ Current(p).desired = {} => ~Changed(Current(p))
    /\ pc[p] \in {"major", "check", "rename"} /\ Current(p).desired # {} => g \in record
    /\ pc[p] = "clear" => DriverLines(g) = {}

RInv ==
    /\ InPlace /\ DriverLinesRecorded
    /\ \A p \in Procs, g \in Guests : at[p] = {g} => Prepared(p, g)
    /\ \A p \in Procs : pc[p] = "retain" => \A g \in Guests \ todo[p] : ours[g] = {}

LEMMA InitRecord == Init => RInv
  BY DEF Init, RInv, InPlace, DriverLinesRecorded, UvmLines

\* A pass that leaves its guest, and has changed nothing.
LEMMA DoneRecord ==
    ASSUME Procs = {Daemon}, IInv, RInv, Done(Daemon),
           UNCHANGED <<ours, conf, exist, record>>
    PROVE  RInv'
  <1>1. at'[Daemon] = {} /\ pc'[Daemon] \in {"idle", "pick"}
    BY DEF Done, Go, IInv, Typed, TypeOK
  <1> QED
    BY <1>1 DEF RInv, InPlace, DriverLinesRecorded

\* A managed line is gone when nothing is desired: no driver line stays.
LEMMA NothingStays ==
    ASSUME NEW g \in Guests, InPlace, NEW lines, NEW owned,
           ours[g] \subseteq lines, ManagedLines(lines, owned) = {}
    PROVE  DriverLines(g) = {}
  <1> SUFFICES ASSUME NEW l \in DriverLines(g) PROVE FALSE
    OBVIOUS
  <1>1. l \in lines /\ Rendered(l) /\ ~(l.key = "allow" /\ l.major # NvidiaMajor)
    BY DEF DriverLines, UvmLines, InPlace
  <1> QED
    BY <1>1, DriverManaged DEF ManagedLines

LEMMA RenameRecord ==
    ASSUME Procs = {Daemon}, IInv, RInv, NEW g \in Guests, Rename(Daemon, g)
    PROVE  RInv'
  <1> DEFINE p == Daemon
             plan == Current(p)
             new == Splice(text[p], plan.desired, plan.owned)
             kept == {l \in ours[g] \cap new : inv[p].uvm = {} \/ l.major \notin inv[p].chars}
  <1>1. /\ pc[p] = "rename" /\ at[p] = {g}
        /\ conf' = [conf EXCEPT ![g] = new]
        /\ ours' = [ours EXCEPT ![g] = plan.desired \cup kept]
        /\ exist' = exist \cup {g} /\ record' = record
    BY DEF Rename
  <1>2. /\ ours'[g] = plan.desired \cup kept /\ conf'[g] = new
        /\ \A h \in Guests \ {g} : ours'[h] = ours[h] /\ conf'[h] = conf[h]
    BY <1>1 DEF IInv, Typed, TypeOK
  <1>3. \A l \in plan.desired : Rendered(l)
    BY DesiredRendered DEF Current, PlanOf
  <1>4. InPlace'
    <2>1. plan.desired \subseteq new /\ kept \subseteq new
      BY DEF Splice
    <2>2. \A l \in kept : Rendered(l)
      BY DEF RInv, InPlace
    <2>3. \A h \in Guests \ {g} : h \notin exist' => h \notin exist
      BY <1>1
    <2> HIDE DEF plan, new, kept
    <2> QED
      BY <1>1, <1>2, <1>3, <2>1, <2>2, <2>3 DEF RInv, InPlace
  <1>5. plan.desired = {} => DriverLines(g)' = {}
    <2> SUFFICES ASSUME plan.desired = {}, NEW l \in DriverLines(g)' PROVE FALSE
      OBVIOUS
    <2>1. l \in ours[g] /\ l \in text[p] /\ ~IsManaged(l, plan.owned)
      BY <1>2 DEF DriverLines, Splice, ManagedLines
    <2>2. Rendered(l) /\ ~(l.key = "allow" /\ l.major # NvidiaMajor)
      BY <2>1 DEF DriverLines, UvmLines, RInv, InPlace
    <2> QED
      BY <2>1, <2>2, DriverManaged
  <1>6. plan.desired # {} => g \in record
    BY <1>1 DEF RInv, Prepared
  <1>7. DriverLinesRecorded'
    <2>1. ASSUME NEW h \in Guests, DriverLines(h)' # {} PROVE h \in record'
      <3>1. CASE h = g
        BY <1>1, <1>5, <1>6, <2>1, <3>1
      <3>2. CASE h # g
        BY <1>1, <1>2, <2>1, <3>2 DEF RInv, DriverLinesRecorded, DriverLines, UvmLines
      <3> QED
        BY <3>1, <3>2
    <2> QED
      BY <2>1 DEF DriverLinesRecorded, DriverLines
  <1>8. CASE plan.desired = {}
    <2>1. pc'[p] = "clear" /\ at'[p] = {g}
      BY <1>1, <1>8 DEF Rename, Go, IInv, Typed, TypeOK
    <2> QED
      BY <1>4, <1>5, <1>7, <1>8, <2>1 DEF RInv, Prepared
  <1>9. CASE plan.desired # {}
    <2>1. pc'[p] \in {"idle", "pick"} /\ at'[p] = {}
      BY <1>1, <1>9 DEF Rename, Done, Go, IInv, Typed, TypeOK
    <2> QED
      BY <1>4, <1>7, <2>1 DEF RInv
  <1> QED
    BY <1>8, <1>9

\* The other steps at a guest.
LEMMA GuestRecord ==
    ASSUME Procs = {Daemon}, IInv, RInv, NEW g \in Guests, AtGuest(Daemon, g)
    PROVE  RInv'
  <1> DEFINE p == Daemon
  <1> USE DEF IInv, Typed, TypeOK, disk, history, Go
  <1>1. ASSUME UNCHANGED <<ours, conf, exist, record>>, at'[p] = {g},
               pc'[p] # "retain", Prepared(p, g)'
        PROVE  RInv'
    BY <1>1 DEF RInv, InPlace, DriverLinesRecorded
  <1>2. CASE Pick(p, g)
    BY <1>2 DEF Pick, RInv, InPlace, DriverLinesRecorded, Prepared
  <1>3. CASE Look(p, g)
    <2>1. CASE Done(p)
      BY <1>3, <2>1, DoneRecord DEF Look
    <2>2. CASE ~Done(p)
      <3>1. text'[p] = conf[g] /\ pc'[p] = "plan" /\ at'[p] = {g}
            /\ UNCHANGED <<ours, conf, exist, record>>
        BY <1>3, <2>2 DEF Look
      <3> QED
        BY <1>1, <3>1 DEF Prepared, RInv, InPlace
    <2> QED
      BY <2>1, <2>2
  <1>4. CASE PlanGuest(p, g)
    <2>1. CASE Done(p)
      BY <1>4, <2>1, DoneRecord DEF PlanGuest
    <2>2. CASE ~Done(p)
      <3>1. /\ pc'[p] \in {"lock", "note"} /\ at'[p] = {g}
            /\ UNCHANGED <<ours, conf, exist, record, text, want, inv, known>>
            /\ managed' = [managed EXCEPT ![p] = g \in record]
            /\ pc'[p] = "note" => ~Changed(PlanOf(p, text[p], g \in record))
        BY <1>4, <2>2 DEF PlanGuest
      <3>2. managed'[p] = (g \in record)
        BY <3>1, Zenon
      <3>3. Current(p)' = PlanOf(p, text[p], g \in record)
        BY <3>1, <3>2 DEF Current, PlanOf
      <3>4. ours[g] \subseteq text[p]
        BY <1>4 DEF PlanGuest, RInv, Prepared
      <3>5. Prepared(p, g)'
        BY <3>1, <3>3, <3>4 DEF Prepared
      <3> QED
        BY <1>1, <3>1, <3>5
    <2> QED
      BY <2>1, <2>2
  <1>5. CASE TakeLock(p, g)
    BY <1>1, <1>5 DEF TakeLock, RInv, Prepared
  <1>6. CASE LockBusy(p, g)
    BY <1>6, DoneRecord DEF LockBusy
  <1>7. CASE Relook(p, g)
    <2>1. CASE Done(p)
      BY <1>7, <2>1, DoneRecord DEF Relook
    <2>2. CASE ~Done(p)
      <3> DEFINE plan == PlanOf(p, conf[g], managed[p])
      <3>1. /\ pc'[p] = IF Changed(plan) /\ plan.desired = {} THEN "check" ELSE "note"
            /\ at'[p] = {g} /\ text'[p] = conf[g]
            /\ UNCHANGED <<ours, conf, exist, record, managed, want, inv, known>>
        BY <1>7, <2>2 DEF Relook
      <3>2. Current(p)' = plan
        BY <3>1 DEF Current, PlanOf
      <3>3. ours[g] \subseteq conf[g]
        BY DEF RInv, InPlace
      <3> HIDE DEF plan
      <3>4. Prepared(p, g)'
        BY <3>1, <3>2, <3>3 DEF Prepared
      <3> QED
        BY <1>1, <3>1, <3>4
    <2> QED
      BY <2>1, <2>2
  <1>8. CASE NoteRecord(p, g)
    <2> DEFINE plan == Current(p)
    <2>1. pc[p] = "note" /\ at[p] = {g} /\ UNCHANGED <<ours, conf, exist>>
      BY <1>8 DEF NoteRecord
    <2>2. ours[g] \subseteq text[p]
      BY <2>1 DEF RInv, Prepared
    <2>3. plan.desired = {} => DriverLines(g) = {}
      <3> SUFFICES ASSUME plan.desired = {} PROVE DriverLines(g) = {}
        OBVIOUS
      <3>1. ~Changed(plan)
        BY <2>1 DEF RInv, Prepared
      <3>2. ManagedLines(text[p], plan.owned) = {}
        BY <3>1 DEF Changed, Current, PlanOf, Outcome
      <3> QED
        BY <2>2, <3>2, NothingStays DEF RInv
    <2>4. record' = (IF plan.desired = {} THEN record \ {g} ELSE record \cup {g})
      BY <1>8 DEF NoteRecord
    <2>5. InPlace' /\ DriverLinesRecorded'
      BY <2>1, <2>3, <2>4 DEF RInv, InPlace, DriverLinesRecorded, DriverLines
    <2>6. CASE Done(p)
      <3>1. at'[p] = {} /\ pc'[p] \in {"idle", "pick"}
        BY <2>6 DEF Done
      <3> QED
        BY <2>5, <3>1 DEF RInv
    <2>7. CASE ~Done(p)
      <3>0. /\ UNCHANGED <<inv, known, todo, at, want, managed, text>>
            /\ \/ plan.desired # {} /\ Go(p, "major")
               \/ Changed(plan) /\ Go(p, "check")
        <4>1. CASE plan.desired # {} /\ inv[p].uvm # {}
          BY <1>8, <4>1 DEF NoteRecord
        <4>2. CASE ~(plan.desired # {} /\ inv[p].uvm # {})
          BY <1>8, <2>7, <4>2 DEF NoteRecord
        <4> QED
          BY <4>1, <4>2
      <3>1. /\ at'[p] = {g} /\ UNCHANGED <<text, managed, want, inv, known>>
            /\ \/ plan.desired # {} /\ pc'[p] = "major"
               \/ Changed(plan) /\ pc'[p] = "check"
        BY <2>1, <3>0
      <3>2. Current(p)' = plan
        BY <3>1 DEF Current, PlanOf
      <3>3. plan.desired # {} => g \in record'
        BY <2>4
      <3> HIDE DEF plan
      <3>4. Prepared(p, g)'
        BY <2>1, <2>2, <3>1, <3>2, <3>3 DEF Prepared
      <3> QED
        BY <2>5, <3>1, <3>4 DEF RInv
    <2> QED
      BY <2>6, <2>7
  <1>9. CASE NoteMajor(p, g)
    <2>1. CASE Done(p)
      BY <1>9, <2>1, DoneRecord DEF NoteMajor
    <2>2. CASE ~Done(p)
      <3>1. /\ pc[p] = "major" /\ pc'[p] = "check" /\ at[p] = {g} /\ at'[p] = {g}
            /\ UNCHANGED <<ours, conf, exist, record, text, managed, want, inv, known>>
        BY <1>9, <2>2 DEF NoteMajor
      <3>2. Current(p)' = Current(p)
        BY <3>1 DEF Current, PlanOf
      <3>3. Prepared(p, g)'
        BY <3>1, <3>2 DEF RInv, Prepared
      <3> QED
        BY <1>1, <3>1, <3>3
    <2> QED
      BY <2>1, <2>2
  <1>10. CASE CheckThere(p, g)
    <2>1. CASE Done(p)
      BY <1>10, <2>1, DoneRecord DEF CheckThere
    <2>2. CASE ~Done(p)
      <3>1. /\ pc[p] = "check" /\ pc'[p] = "rename" /\ at[p] = {g} /\ at'[p] = {g}
            /\ UNCHANGED <<ours, conf, exist, record, text, managed, want, inv, known>>
        BY <1>10, <2>2 DEF CheckThere
      <3>2. Current(p)' = Current(p)
        BY <3>1 DEF Current, PlanOf
      <3>3. Prepared(p, g)'
        BY <3>1, <3>2 DEF RInv, Prepared
      <3> QED
        BY <1>1, <3>1, <3>3
    <2> QED
      BY <2>1, <2>2
  <1>11. CASE Rename(p, g)
    BY <1>11, RenameRecord
  <1>12. CASE ClearRecord(p, g)
    <2>1. at'[p] = {} /\ pc'[p] \in {"idle", "pick"} /\ record' = record \ {g}
          /\ UNCHANGED <<ours, conf, exist>>
      BY <1>12 DEF ClearRecord, Done
    <2>2. DriverLines(g) = {}
      BY <1>12 DEF ClearRecord, RInv, Prepared
    <2> QED
      BY <2>1, <2>2 DEF RInv, InPlace, DriverLinesRecorded, DriverLines
  <1> QED
    BY <1>2, <1>3, <1>4, <1>5, <1>6, <1>7, <1>8, <1>9, <1>10, <1>11, <1>12 DEF AtGuest

\* The steps of a pass around its guests.
LEMMA PassRecord ==
    ASSUME Procs = {Daemon}, IInv, RInv,
           TakeStock(Daemon) \/ OfPass(Daemon) \/ Fail(Daemon) \/ Killed(Daemon)
              \/ RecallFails(Daemon)
    PROVE  RInv'
  <1> DEFINE p == Daemon
  <1> USE DEF IInv, Typed, TypeOK, disk, history, Go
  <1>1. ASSUME UNCHANGED <<ours, conf, exist, record, at>>, at[p] = {}, pc'[p] # "retain"
        PROVE  RInv'
    BY <1>1 DEF RInv, InPlace, DriverLinesRecorded
  <1>2. pc[p] \in {"idle", "list", "retain", "recall"} => at[p] = {}
    BY DEF Home
  <1>3. CASE TakeStock(p)
    BY <1>1, <1>2, <1>3 DEF TakeStock
  <1>4. CASE ListGuests(p)
    BY <1>2, <1>4 DEF ListGuests, RInv, InPlace, DriverLinesRecorded
  <1>5. CASE Retain(p)
    <2>1. UNCHANGED <<ours, conf, exist, at>> /\ at[p] = {} /\ pc'[p] # "retain"
      BY <1>2, <1>5 DEF Retain, Walk
    <2>2. \A g \in Guests \ todo[p] : ours[g] = {}
      BY <1>5 DEF Retain, RInv
    <2>3. record' = record \cap todo[p]
      BY <1>5 DEF Retain
    <2>4. DriverLinesRecorded'
      BY <2>1, <2>2, <2>3 DEF RInv, DriverLinesRecorded, UvmLines
    <2> QED
      BY <2>1, <2>4 DEF RInv, InPlace
  <1>6. ASSUME NEW list, Recall(p, list) PROVE RInv'
    BY <1>1, <1>2, <1>6 DEF Recall, Walk
  <1>7. ASSUME NEW g \in Guests, NameGuest(p, g) PROVE RInv'
    BY <1>7 DEF NameGuest
  <1>8. ASSUME NEW g \in Guests, AtGuest(p, g) PROVE RInv'
    BY <1>8, GuestRecord
  <1>9. CASE Fail(p)
    BY <1>9, DoneRecord DEF Fail
  <1>10. CASE Killed(p)
    <2>1. at'[p] = {} /\ pc'[p] = "idle" /\ UNCHANGED <<ours, conf, exist, record>>
      BY <1>10 DEF Killed
    <2> QED
      BY <2>1 DEF RInv, InPlace, DriverLinesRecorded
  <1> QED
    BY <1>3, <1>4, <1>5, <1>6, <1>7, <1>8, <1>9, <1>10 DEF OfPass, RecallMajors, RecallFails

\* The world takes lines of this tool away, and never brings one.
LEMMA WorldRecord ==
    ASSUME IInv, RInv,
           \/ HardwareChanges
           \/ \E g \in Guests : EditDocument(g) \/ PveEdit(g) \/ Create(g) \/ Vanish(g)
    PROVE  RInv'
  <1> USE DEF IInv, Typed, TypeOK
  <1>1. UNCHANGED <<locals, record>>
    BY DEF HardwareChanges, EditDocument, PveEdit, Create, Vanish, World
  <1>2. \A g \in Guests : ours'[g] \subseteq ours[g]
    BY DEF HardwareChanges, EditDocument, PveEdit, Create, Vanish, history
  <1>3. InPlace'
    <2>1. ASSUME NEW g \in Guests, PveEdit(g) PROVE InPlace'
      BY <2>1, <1>2 DEF PveEdit, RInv, InPlace
    <2>2. ASSUME NEW g \in Guests, Create(g) PROVE InPlace'
      BY <2>2 DEF Create, history, RInv, InPlace
    <2>3. ASSUME NEW g \in Guests, Vanish(g) PROVE InPlace'
      BY <2>3, <1>2 DEF Vanish, RInv, InPlace
    <2>4. CASE UNCHANGED <<ours, conf, exist>>
      BY <2>4 DEF RInv, InPlace
    <2> QED
      BY <2>1, <2>2, <2>3, <2>4 DEF HardwareChanges, EditDocument, history
  <1>4. DriverLinesRecorded'
    BY <1>1, <1>2 DEF RInv, DriverLinesRecorded, UvmLines
  <1>5. ASSUME NEW q \in Procs, NEW g \in Guests, at'[q] = {g} PROVE Prepared(q, g)'
    <2>1. Prepared(q, g)
      BY <1>1, <1>5 DEF RInv, locals
    <2>2. Current(q)' = Current(q)
      BY <1>1 DEF locals, Current, PlanOf
    <2>3. DriverLines(g)' \subseteq DriverLines(g)
      BY <1>2 DEF DriverLines, UvmLines
    <2> QED
      BY <1>1, <1>2, <2>1, <2>2, <2>3 DEF Prepared, locals
  <1>6. ASSUME NEW q \in Procs, pc'[q] = "retain", NEW g \in Guests \ todo'[q]
        PROVE  ours'[g] = {}
    BY <1>1, <1>2, <1>6 DEF RInv, locals
  <1> QED
    BY <1>3, <1>4, <1>5, <1>6 DEF RInv

\* With the daemon alone on the node, a container that carries a card, hook
\* or variable line of this tool is in the record, through every failure and
\* every kill (state.rs, Record::set; reconcile.rs, Pass::remember).
THEOREM CardsRecorded ==
    ASSUME Procs = {Daemon} PROVE Spec => []DriverLinesRecorded
  <1>1. IInv /\ RInv /\ [Next]_vars => RInv'
    <2> SUFFICES ASSUME IInv, RInv, [Next]_vars PROVE RInv'
      OBVIOUS
    <2>1. CASE UNCHANGED vars
      BY <2>1 DEF vars, disk, locals, history, RInv, InPlace, DriverLinesRecorded, Prepared,
         DriverLines, Current, PlanOf
    <2>2. CASE Next
      BY <2>2, PassRecord, WorldRecord DEF Next
    <2> QED
      BY <2>1, <2>2
  <1>2. RInv => DriverLinesRecorded
    BY DEF RInv
  <1> QED
    BY <1>1, <1>2, InitRecord, Invariance, PTL DEF Spec
-----------------------------------------------------------------------------
AnyMajors == UNION {h.uvm : h \in Hardware}
UvmMajors(g) == {l.major : l \in UvmLines(ours[g])}
Newest == IF majors = <<>> THEN {} ELSE {majors[1]}

\* A guest whose rules are current has the newest major only, one that is a
\* change behind has majors of the list.
RulesListed(g) ==
    /\ behind[g] \in 0..UvmKept
    /\ behind[g] = 0 => UvmMajors(g) \subseteq Newest
    /\ behind[g] = 1 => UvmMajors(g) \subseteq Elements(majors)

\* What the pass knows of the list is nothing, the list, or what the list was
\* before the pass put its major in front; and before rules are written their
\* major is in front.
ListKnown(p) ==
    /\ known[p] \in Seq(AnyMajors)
    /\ known[p] \in {<<>>, majors} \/ \E m \in inv[p].uvm : majors = Remembered(known[p], m)
    /\ pc[p] \in {"idle", "list", "retain", "recall"} => known[p] = <<>>
    /\ pc[p] \in {"check", "rename"} /\ Current(p).desired # {} => inv[p].uvm \subseteq Newest

UInv ==
    /\ majors \in Seq(AnyMajors)
    /\ \A g \in Guests : RulesListed(g)
    /\ \A p \in Procs : ListKnown(p)

\* A rule that is rendered has the major in use.
LEMMA WantedUvm ==
    ASSUME NEW want1, NEW stock, NEW l \in Wanted(want1, stock),
           l.key = "allow", l.major # NvidiaMajor
    PROVE  l.major \in stock.uvm
  BY WantedLines DEF Allow, HookLine, EnvLine, Plain

LEMMA DesiredUvm ==
    ASSUME NEW p \in Procs, NEW l \in UvmLines(Current(p).desired)
    PROVE  l.major \in inv[p].uvm
  <1>1. l \in UNION {Wanted(w, inv[p]) : w \in want[p]} /\ l.key = "allow" /\ l.major # NvidiaMajor
    BY PlanFacts DEF UvmLines, Current, PlanOf
  <1> QED
    BY <1>1, WantedUvm

LEMMA InitUvm == Init => UInv
  BY DEF Init, UInv, RulesListed, ListKnown, UvmMajors, UvmLines, Newest, Elements, UvmKept

\* A step that leaves the list and the rules alone, or takes rules away.
LEMMA RulesStayListed ==
    ASSUME UInv, majors' = majors, behind' = behind,
           \A g \in Guests : ours'[g] \subseteq ours[g]
    PROVE  \A g \in Guests : RulesListed(g)'
  BY DEF UInv, RulesListed, UvmMajors, UvmLines, Newest, Elements

LEMMA DoneKnown ==
    ASSUME Procs = {Daemon}, IInv, UInv, Done(Daemon), majors' = majors
    PROVE  ListKnown(Daemon)'
  <1>1. /\ pc'[Daemon] \in {"idle", "pick"} /\ (pc'[Daemon] = "idle" => known'[Daemon] = <<>>)
        /\ (known'[Daemon] = known[Daemon] /\ inv'[Daemon] = inv[Daemon]) \/ known'[Daemon] = <<>>
    BY DEF Done, Go, IInv, Typed, TypeOK
  <1>2. ListKnown(Daemon)
    BY DEF UInv
  <1>3. known'[Daemon] \in Seq(AnyMajors)
    <2>1. <<>> \in Seq(AnyMajors) /\ known[Daemon] \in Seq(AnyMajors)
      BY <1>2 DEF ListKnown
    <2> QED
      BY <1>1, <2>1
  <1>4. known'[Daemon] \in {<<>>, majors'}
           \/ \E m \in inv'[Daemon].uvm : majors' = Remembered(known'[Daemon], m)
    BY <1>1, <1>2 DEF ListKnown
  <1> QED
    BY <1>1, <1>3, <1>4 DEF ListKnown

LEMMA DoneUvm ==
    ASSUME Procs = {Daemon}, IInv, UInv, Done(Daemon), UNCHANGED <<majors, ours, behind>>
    PROVE  UInv'
  BY RulesStayListed, DoneKnown DEF UInv

\* The list is rewritten: the guests that were current are a change behind.
LEMMA NoteMajorUvm ==
    ASSUME Procs = {Daemon}, IInv, UInv, NEW g \in Guests, NoteMajor(Daemon, g)
    PROVE  UInv'
  <1> DEFINE p == Daemon
  <1>1. PICK m \in inv[p].uvm :
           majors' = IF known[p] # <<>> /\ Head(known[p]) = m THEN majors
                     ELSE Remembered(known[p], m)
    BY DEF NoteMajor
  <1>2. /\ ours' = ours
        /\ behind' = [h \in Guests |-> IF majors' = majors THEN behind[h]
                         ELSE IF known[p] # majors \/ behind[h] = UvmKept
                         THEN UvmKept ELSE behind[h] + 1]
    BY DEF NoteMajor
  <1>3. m \in AnyMajors /\ known[p] \in Seq(AnyMajors) /\ majors \in Seq(AnyMajors)
    <2>1. inv[p] \in Hardware
      BY DEF IInv, Typed, TypeOK, NoInventory
    <2> QED
      BY <2>1 DEF UInv, ListKnown, AnyMajors
  <1>4. majors' \in Seq(AnyMajors)
    BY <1>1, <1>3, RememberedList
  <1>5. \A n \in AnyMajors : Remembered(known[p], n) # <<>> /\ Remembered(known[p], n)[1] = n
    <2> DEFINE old == known[p]
    <2>1. old \in Seq(AnyMajors)
      BY <1>3
    <2> HIDE DEF old
    <2> SUFFICES ASSUME NEW n \in AnyMajors
                 PROVE  Remembered(old, n) # <<>> /\ Remembered(old, n)[1] = n
      BY DEF old
    <2>2. Remembered(old, n) # <<>>
      BY <2>1, RememberedList
    <2>3. Remembered(old, n)[1] = n
      BY <2>1, RememberedList
    <2> QED
      BY <2>2, <2>3
  <1>6. majors' # <<>> /\ majors'[1] \in inv[p].uvm
    <2>1. CASE known[p] # <<>> /\ Head(known[p]) = m
      <3>1. known[p] = majors \/ \E n \in inv[p].uvm : majors = Remembered(known[p], n)
        BY <2>1 DEF UInv, ListKnown
      <3>2. CASE known[p] = majors
        BY <1>1, <1>3, <2>1, <3>2
      <3>3. ASSUME NEW n \in inv[p].uvm, majors = Remembered(known[p], n)
            PROVE  majors' # <<>> /\ majors'[1] \in inv[p].uvm
        <4>1. n \in AnyMajors
          BY DEF IInv, Typed, TypeOK, NoInventory, AnyMajors
        <4>2. majors # <<>> /\ majors[1] = n
          BY <1>5, <3>3, <4>1, Zenon
        <4>3. majors' = majors
          BY <1>1, <2>1
        <4> QED
          BY <4>2, <4>3
      <3> QED
        BY <3>1, <3>2, <3>3
    <2>2. CASE ~(known[p] # <<>> /\ Head(known[p]) = m)
      <3>1. majors' = Remembered(known[p], m)
        BY <1>1, <2>2
      <3>2. majors' # <<>> /\ majors'[1] = m
        BY <1>3, <1>5, <3>1, Zenon
      <3> QED
        BY <3>2
    <2> QED
      BY <2>1, <2>2
  <1>7. ASSUME NEW h \in Guests PROVE RulesListed(h)'
    <2>1. RulesListed(h) /\ behind[h] \in 0..2
      BY DEF UInv, RulesListed, UvmKept
    <2>2. CASE majors' = majors
      BY <1>2, <2>1, <2>2 DEF RulesListed, UvmMajors, UvmLines, Newest, Elements
    <2>3. CASE majors' # majors /\ known[p] = majors /\ behind[h] = 0
      <3>1. behind'[h] = 1
        BY <1>2, <2>3 DEF UvmKept
      <3>2. UvmMajors(h) \subseteq Newest
        BY <2>1, <2>3 DEF RulesListed
      <3>3. Newest \subseteq Elements(majors')
        <4>1. CASE majors = <<>>
          BY <4>1 DEF Newest
        <4>2. CASE majors # <<>>
          <5>1. majors' = Remembered(majors, m) /\ majors[1] # m
            BY <1>1, <1>3, <2>3, <4>2
          <5>2. majors[1] \in Elements(majors')
            BY <1>3, <4>2, <5>1, RememberedList
          <5> QED
            BY <4>2, <5>2 DEF Newest
        <4> QED
          BY <4>1, <4>2
      <3> QED
        BY <1>2, <3>1, <3>2, <3>3 DEF RulesListed, UvmMajors, UvmLines, UvmKept, Elements
    <2>4. CASE majors' # majors /\ (known[p] # majors \/ behind[h] # 0)
      <3>1. behind'[h] = 2
        BY <1>2, <2>1, <2>4 DEF UvmKept
      <3> QED
        BY <3>1 DEF RulesListed, UvmKept
    <2> QED
      BY <2>1, <2>2, <2>3, <2>4
  <1>8. ListKnown(p)'
    <2>1. known'[p] = <<>> \/ (known'[p] = known[p] /\ inv'[p] = inv[p])
      <3>1. UNCHANGED <<known, inv>> \/ Done(p)
        BY DEF NoteMajor
      <3>2. CASE UNCHANGED <<known, inv>>
        BY <3>2
      <3>3. CASE Done(p)
        <4>1. ASSUME todo[p] # {} PROVE known'[p] = known[p] /\ inv'[p] = inv[p]
          BY <3>3, <4>1 DEF Done, IInv, Typed, TypeOK
        <4>2. ASSUME todo[p] = {} PROVE known'[p] = <<>>
          BY <3>3, <4>2 DEF Done, IInv, Typed, TypeOK
        <4> QED
          BY <4>1, <4>2
      <3> QED
        BY <3>1, <3>2, <3>3
    <2>2. known'[p] \in Seq(AnyMajors)
      <3>1. <<>> \in Seq(AnyMajors)
        OBVIOUS
      <3> QED
        BY <1>3, <2>1, <3>1
    <2>3. known'[p] \in {<<>>, majors'} \/ \E n \in inv'[p].uvm : majors' = Remembered(known'[p], n)
      BY <1>1, <2>1 DEF UInv, ListKnown
    <2>4. pc'[p] \in {"idle", "pick", "check"} /\ (pc'[p] = "idle" => known'[p] = <<>>)
      BY DEF NoteMajor, Done, Go, IInv, Typed, TypeOK
    <2>5. pc'[p] = "check" => inv'[p] = inv[p]
      BY DEF NoteMajor, Done, Go, IInv, Typed, TypeOK
    <2>6. inv[p].uvm \subseteq {m}
      BY ReconcileAssumption DEF IInv, Typed, TypeOK, NoInventory
    <2>7. inv[p].uvm \subseteq Newest'
      BY <1>6, <2>6 DEF Newest
    <2> QED
      BY <2>2, <2>3, <2>4, <2>5, <2>7 DEF ListKnown
  <1> QED
    BY <1>4, <1>7, <1>8 DEF UInv
LEMMA NewestListed == UInv => Newest \subseteq Elements(majors)
  <1> SUFFICES ASSUME UInv, majors # <<>> PROVE majors[1] \in Elements(majors)
    BY DEF Newest
  <1>1. majors \in Seq(AnyMajors)
    BY DEF UInv
  <1>2. 1 \in DOMAIN majors
    BY <1>1, LenProperties, EmptySeq
  <1> QED
    BY <1>2 DEF Elements

\* A config is replaced: it carries the rules in use, and old ones only as far
\* as it had them.
LEMMA RenameUvm ==
    ASSUME Procs = {Daemon}, IInv, UInv, NEW g \in Guests, Rename(Daemon, g)
    PROVE  UInv'
  <1> DEFINE p == Daemon
             desired == Current(p).desired
             new == Splice(text[p], desired, Current(p).owned)
             kept == {l \in ours[g] \cap new : inv[p].uvm = {} \/ l.major \notin inv[p].chars}
  <1>1. /\ pc[p] = "rename" /\ majors' = majors
        /\ ours' = [ours EXCEPT ![g] = desired \cup kept]
        /\ behind' = [behind EXCEPT ![g] =
              IF inv[p].uvm = {} \/ UvmLines(ours'[g] \ desired) # {} THEN behind[g] ELSE 0]
    BY DEF Rename
  <1>2. /\ ours'[g] = desired \cup kept /\ kept \subseteq ours[g]
        /\ \A h \in Guests \ {g} : ours'[h] = ours[h]
    BY <1>1 DEF IInv, Typed, TypeOK
  <1>3. \A l \in UvmLines(desired) : l.major \in Newest
    <2> SUFFICES ASSUME NEW l \in UvmLines(desired) PROVE l.major \in Newest
      OBVIOUS
    <2>1. desired # {} /\ l.major \in inv[p].uvm
      BY DesiredUvm DEF UvmLines
    <2>2. inv[p].uvm \subseteq Newest
      BY <1>1, <2>1 DEF UInv, ListKnown
    <2> QED
      BY <2>1, <2>2
  <1>4. UvmMajors(g)' \subseteq UvmMajors(g) \cup Newest
    <2> HIDE DEF desired, kept
    <2> QED
      BY <1>2, <1>3 DEF UvmMajors, UvmLines
  <1>5. ASSUME NEW h \in Guests PROVE RulesListed(h)'
    <2> HIDE DEF desired, kept
    <2>1. Newest' = Newest /\ Elements(majors)' = Elements(majors)
      BY <1>1 DEF Newest, Elements
    <2>2. RulesListed(h) /\ Newest \subseteq Elements(majors)
      BY NewestListed DEF UInv
    <2>3. CASE h # g
      <3>1. behind'[h] = behind[h] /\ UvmMajors(h)' = UvmMajors(h)
        BY <1>1, <1>2, <2>3 DEF UvmMajors, UvmLines
      <3> QED
        BY <2>1, <2>2, <3>1 DEF RulesListed
    <2>4. CASE h = g /\ behind'[g] = behind[g]
      BY <1>4, <2>1, <2>2, <2>4 DEF RulesListed
    <2>5. CASE h = g /\ behind'[g] # behind[g]
      <3>1. behind'[g] = 0 /\ UvmLines(ours'[g] \ desired) = {}
        BY <1>1, <2>5
      <3>2. UvmMajors(g)' \subseteq Newest
        BY <1>3, <3>1 DEF UvmMajors, UvmLines
      <3> QED
        BY <2>1, <2>5, <3>1, <3>2 DEF RulesListed, UvmKept
    <2> QED
      BY <2>3, <2>4, <2>5
  <1>6. ListKnown(p)'
    <2>1. CASE Done(p)
      BY <1>1, <2>1, DoneKnown
    <2>2. CASE pc'[p] = "clear" /\ UNCHANGED <<inv, known>>
      BY <1>1, <2>2 DEF UInv, ListKnown
    <2> QED
      BY <2>1, <2>2 DEF Rename, Go, IInv, Typed, TypeOK
  <1> QED
    BY <1>1, <1>5, <1>6 DEF UInv

\* The other steps leave the rules and the list alone.
LEMMA KnownUvm ==
    ASSUME Procs = {Daemon}, UInv, UNCHANGED <<majors, ours, behind>>, ListKnown(Daemon)'
    PROVE  UInv'
  BY RulesStayListed DEF UInv

\* What a pass knows stays true while it does not come closer to a write.
LEMMA StaysKnown ==
    ASSUME Procs = {Daemon}, UInv, UNCHANGED <<majors, inv, known>>,
           pc'[Daemon] \notin {"check", "rename"},
           pc'[Daemon] \in {"idle", "list", "retain", "recall"} => known[Daemon] = <<>>
    PROVE  ListKnown(Daemon)'
  BY DEF UInv, ListKnown

LEMMA GuestUvm ==
    ASSUME Procs = {Daemon}, IInv, UInv, NEW g \in Guests, AtGuest(Daemon, g)
    PROVE  UInv'
  <1> DEFINE p == Daemon
  <1> USE DEF Go, IInv, Typed, TypeOK
  <1>1. CASE Pick(p, g) \/ TakeLock(p, g)
    <2>1. UNCHANGED <<majors, inv, known, ours, behind>> /\ pc'[p] \in {"look", "relook"}
      BY <1>1 DEF Pick, TakeLock, disk, history
    <2> QED
      BY <2>1, StaysKnown, KnownUvm
  <1>2. CASE Look(p, g) \/ PlanGuest(p, g) \/ LockBusy(p, g) \/ ClearRecord(p, g)
    <2>1. /\ UNCHANGED <<majors, ours, behind>>
          /\ Done(p) \/ (UNCHANGED <<inv, known>> /\ pc'[p] \in {"plan", "lock", "note"})
      BY <1>2 DEF Look, PlanGuest, LockBusy, ClearRecord, disk, history
    <2> QED
      BY <2>1, DoneUvm, StaysKnown, KnownUvm
  <1>3. CASE Relook(p, g)
    <2>1. /\ UNCHANGED <<majors, ours, behind>>
          /\ \/ Done(p)
             \/ /\ UNCHANGED <<inv, known, want, managed>> /\ text' = [text EXCEPT ![p] = conf[g]]
                /\ \/ pc'[p] = "note"
                   \/ pc'[p] = "check" /\ PlanOf(p, conf[g], managed[p]).desired = {}
      BY <1>3 DEF Relook, disk, history
    <2>2. CASE Done(p)
      BY <2>1, <2>2, DoneUvm
    <2>3. CASE UNCHANGED <<inv, known>> /\ pc'[p] = "note"
      BY <2>1, <2>3, StaysKnown, KnownUvm
    <2>4. CASE /\ UNCHANGED <<inv, known, want, managed>> /\ text' = [text EXCEPT ![p] = conf[g]]
               /\ pc'[p] = "check" /\ PlanOf(p, conf[g], managed[p]).desired = {}
      <3>1. Current(p)' = PlanOf(p, conf[g], managed[p])
        BY <2>4 DEF Current, PlanOf
      <3>2. ListKnown(p)'
        BY <2>1, <2>4, <3>1 DEF UInv, ListKnown
      <3> QED
        BY <2>1, <3>2, KnownUvm
    <2> QED
      BY <2>1, <2>2, <2>3, <2>4
  <1>4. CASE NoteRecord(p, g)
    <2>1. /\ UNCHANGED <<majors, ours, behind>>
          /\ \/ Done(p)
             \/ /\ UNCHANGED <<inv, known, want, managed, text>>
                /\ \/ pc'[p] = "major"
                   \/ pc'[p] = "check" /\ (Current(p).desired = {} \/ inv[p].uvm = {})
      BY <1>4 DEF NoteRecord, history
    <2>2. CASE Done(p)
      BY <2>1, <2>2, DoneUvm
    <2>3. CASE UNCHANGED <<inv, known>> /\ pc'[p] = "major"
      BY <2>1, <2>3, StaysKnown, KnownUvm
    <2>4. CASE /\ UNCHANGED <<inv, known, want, managed, text>>
               /\ pc'[p] = "check" /\ (Current(p).desired = {} \/ inv[p].uvm = {})
      <3>1. Current(p)' = Current(p)
        BY <2>4 DEF Current, PlanOf
      <3>2. ListKnown(p)'
        BY <2>1, <2>4, <3>1 DEF UInv, ListKnown
      <3> QED
        BY <2>1, <3>2, KnownUvm
    <2> QED
      BY <2>1, <2>2, <2>3, <2>4
  <1>5. CASE NoteMajor(p, g)
    BY <1>5, NoteMajorUvm
  <1>6. CASE CheckThere(p, g)
    <2>1. /\ UNCHANGED <<majors, ours, behind>> /\ pc[p] = "check"
          /\ Done(p) \/ (UNCHANGED <<inv, known, want, managed, text>> /\ pc'[p] = "rename")
      BY <1>6 DEF CheckThere, disk, history
    <2>2. CASE Done(p)
      BY <2>1, <2>2, DoneUvm
    <2>3. CASE UNCHANGED <<inv, known, want, managed, text>> /\ pc'[p] = "rename"
      <3>1. Current(p)' = Current(p)
        BY <2>3 DEF Current, PlanOf
      <3>2. ListKnown(p)'
        BY <2>1, <2>3, <3>1 DEF UInv, ListKnown, Newest
      <3> QED
        BY <2>1, <3>2, KnownUvm
    <2> QED
      BY <2>1, <2>2, <2>3
  <1>7. CASE Rename(p, g)
    BY <1>7, RenameUvm
  <1> QED
    BY <1>1, <1>2, <1>3, <1>4, <1>5, <1>6, <1>7 DEF AtGuest

LEMMA PassUvm ==
    ASSUME Procs = {Daemon}, IInv, UInv,
           TakeStock(Daemon) \/ OfPass(Daemon) \/ Fail(Daemon) \/ Killed(Daemon) \/ RecallFails(Daemon)
    PROVE  UInv'
  <1> DEFINE p == Daemon
  <1> USE DEF Go, IInv, Typed, TypeOK
  <1>1. CASE TakeStock(p)
    <2>1. /\ UNCHANGED <<majors, ours, behind, known>> /\ pc'[p] = "list" /\ known[p] = <<>>
      BY <1>1 DEF TakeStock, UInv, ListKnown, disk, history
    <2>2. ListKnown(p)'
      BY <2>1 DEF UInv, ListKnown
    <2> QED
      BY <2>1, <2>2, KnownUvm
  <1>2. CASE ListGuests(p) \/ Retain(p)
    <2>1. /\ UNCHANGED <<majors, ours, behind, known, inv>>
          /\ pc'[p] \in {"retain", "recall"} /\ known[p] = <<>>
      BY <1>2 DEF ListGuests, Retain, UInv, ListKnown, disk, history
    <2> QED
      BY <2>1, StaysKnown, KnownUvm
  <1>3. ASSUME NEW list \in {majors, <<>>}, Recall(p, list) PROVE UInv'
    <2>1. /\ UNCHANGED <<majors, ours, behind>> /\ known'[p] \in {list, <<>>}
          /\ pc'[p] = "pick" \/ (pc'[p] = "idle" /\ known'[p] = <<>>)
      BY <1>3 DEF Recall, Walk, disk, history
    <2>2. known'[p] \in {<<>>, majors'} /\ known'[p] \in Seq(AnyMajors)
      <3>1. <<>> \in Seq(AnyMajors) /\ majors \in Seq(AnyMajors)
        BY DEF UInv
      <3> QED
        BY <2>1, <3>1
    <2>3. ListKnown(p)'
      BY <2>1, <2>2 DEF ListKnown
    <2> QED
      BY <2>1, <2>3, KnownUvm
  <1>4. CASE RecallMajors(p) \/ RecallFails(p)
    BY <1>3, <1>4 DEF RecallMajors, RecallFails
  <1>5. ASSUME NEW g \in Guests, NameGuest(p, g) \/ AtGuest(p, g) PROVE UInv'
    BY <1>5, GuestUvm DEF NameGuest
  <1>6. CASE Fail(p)
    BY <1>6, DoneUvm DEF Fail, disk, history
  <1>7. CASE Killed(p)
    <2>1. UNCHANGED <<majors, ours, behind>> /\ pc'[p] = "idle" /\ known'[p] = <<>>
      BY <1>7 DEF Killed, disk, history
    <2>2. ListKnown(p)'
      BY <2>1 DEF ListKnown
    <2> QED
      BY <2>1, <2>2, KnownUvm
  <1> QED
    BY <1>1, <1>2, <1>4, <1>5, <1>6, <1>7 DEF OfPass

LEMMA WorldUvm ==
    ASSUME Procs = {Daemon}, IInv, UInv,
           \/ HardwareChanges
           \/ \E g \in Guests : EditDocument(g) \/ PveEdit(g) \/ Create(g) \/ Vanish(g)
    PROVE  UInv'
  <1> USE DEF World, IInv, Typed, TypeOK
  <1>1. UNCHANGED <<locals, majors, behind>>
    BY DEF HardwareChanges, EditDocument, PveEdit, Create, Vanish, history
  <1>2. \A g \in Guests : ours'[g] \subseteq ours[g]
    BY DEF HardwareChanges, EditDocument, PveEdit, Create, Vanish, history
  <1>3. Current(Daemon)' = Current(Daemon)
    BY <1>1 DEF locals, Current, PlanOf
  <1>4. ListKnown(Daemon)'
    BY <1>1, <1>3 DEF locals, UInv, ListKnown, Newest
  <1> QED
    BY <1>1, <1>2, <1>4, RulesStayListed DEF UInv

\* With the daemon alone on the node, the nvidia-uvm rules of a guest that has
\* missed fewer than UvmKept changes of the list are of majors on it, through
\* every failure and every kill, although a pass replaces the list by what it
\* read before its guests (state.rs, Record::remember_uvm; reconcile.rs,
\* Pass::remember).
THEOREM RulesReplaceable ==
    ASSUME Procs = {Daemon} PROVE Spec => []UvmRulesReplaceable
  <1>1. IInv /\ UInv /\ [Next]_vars => UInv'
    <2> SUFFICES ASSUME IInv, UInv, [Next]_vars PROVE UInv'
      OBVIOUS
    <2>1. CASE UNCHANGED vars
      BY <2>1 DEF vars, disk, locals, history, UInv, RulesListed, ListKnown, UvmMajors, Newest,
         Current, PlanOf
    <2>2. CASE Next
      BY <2>2, PassUvm, WorldUvm DEF Next
    <2> QED
      BY <2>1, <2>2
  <1>2. UInv => UvmRulesReplaceable
    <2> SUFFICES ASSUME UInv, NEW g \in Guests, behind[g] < UvmKept
                 PROVE  UvmMajors(g) \subseteq Elements(majors)
      BY DEF UvmRulesReplaceable, UvmMajors
    <2>1. RulesListed(g) /\ behind[g] \in {0, 1}
      BY DEF UInv, RulesListed, UvmKept
    <2> QED
      BY <2>1, NewestListed DEF RulesListed
  <1> QED
    BY <1>1, <1>2, InitUvm, Invariance, PTL DEF Spec
=============================================================================
