---------------------------- MODULE DaemonProofs ----------------------------
(***************************************************************************)
(* For all guests, documents, hardware and outages: the types of the loop, *)
(* that no guest loses its lines to a guess, and that one quiet poll puts  *)
(* every guest right.                                                      *)
(***************************************************************************)
EXTENDS Daemon, SeqFilterProofs

AnyMajors == UNION {h.uvm : h \in Hardware}
DocSet == [stamp : 0..MaxMoves + 1, read : {"ok", "bad", "failed"}, want : Keys]

\* The world and the loop apart: a step changes one of them.
WorldOK ==
    /\ hw \in Hardware /\ up \in BOOLEAN
    /\ file \in [Guests -> Keys \cup {Bad}]
    /\ stamp \in [Guests -> 0..MaxMoves + 1]
    /\ moves \in 0..MaxMoves
LoopOK ==
    /\ record \subseteq Guests
    /\ majors \in Seq(AnyMajors) /\ known \in Seq(AnyMajors)
    /\ pc \in {"sleep", "list", "docs", "get", "guests"}
    /\ todo \subseteq Guests
    /\ inv \in {{}} \cup {{h} : h \in Hardware}
    /\ saw \in 0..MaxMoves + 1
    /\ due \in BOOLEAN /\ full \in BOOLEAN /\ ready \in BOOLEAN /\ spent \in BOOLEAN
    /\ calm \in BOOLEAN /\ fresh \in BOOLEAN
    /\ asked \subseteq Guests /\ keyless \subseteq Guests /\ blurred \subseteq Guests
DocsOK == docs \in [Guests -> {{}} \cup {{c} : c \in DocSet}]

\* An answer "no key" of a guest that has lines was true at some time since
\* they were written; and a loop over guests has a card list and their answers.
Honest ==
    /\ \A g \in Guests : file[g] = {} => g \in keyless
    /\ \A g \in record : (\E c \in docs[g] : c.read = "ok" /\ c.want = {}) => g \in keyless
    /\ pc = "guests" => inv # {} /\ todo \subseteq Reconcilable

Inv == WorldOK /\ LoopOK /\ DocsOK /\ Honest

LEMMA Bounds == MaxMoves \in Nat /\ NoFile \in 0..MaxMoves + 1 /\ 1 \in 0..MaxMoves + 1
  BY DaemonAssumption DEF NoFile

\* The card list a loop over guests has is one that can be.
LEMMA ReadMajors ==
    ASSUME Inv
    PROVE  /\ UNION {stock.uvm : stock \in inv} \in SUBSET AnyMajors
           /\ \A m, n \in UNION {stock.uvm : stock \in inv} : m = n
  <1>1. CASE inv = {}
    BY <1>1
  <1>2. ASSUME NEW h \in Hardware, inv = {h}
        PROVE  /\ UNION {stock.uvm : stock \in inv} \in SUBSET AnyMajors
               /\ \A m, n \in UNION {stock.uvm : stock \in inv} : m = n
    <2>1. UNION {stock.uvm : stock \in inv} = h.uvm
      BY <1>2
    <2>2. h.uvm \subseteq AnyMajors /\ \A m, n \in h.uvm : m = n
      BY DaemonAssumption DEF AnyMajors
    <2> QED
      BY <2>1, <2>2
  <1> QED
    BY <1>1, <1>2 DEF Inv, LoopOK

\* What a pass makes of the file, by the list it knows.
LEMMA NotedType ==
    ASSUME NEW S, NEW kept \in Seq(S), NEW list \in Seq(S), NEW uvm \in SUBSET S
    PROVE  Noted(kept, list, uvm) \in Seq(S)
  <1>1. CASE uvm = {} \/ (list # <<>> /\ Head(list) \in uvm)
    BY <1>1 DEF Noted
  <1>2. CASE ~(uvm = {} \/ (list # <<>> /\ Head(list) \in uvm))
    <2>1. PICK m \in uvm : Noted(kept, list, uvm) = Remembered(list, m)
      BY <1>2 DEF Noted
    <2> QED
      BY <2>1, RememberedList
  <1> QED
    BY <1>1, <1>2

LEMMA InitInv == Init => Inv
  <1> SUFFICES ASSUME Init PROVE Inv
    OBVIOUS
  <1> USE Bounds DEF Init
  <1>1. WorldOK
    BY DEF WorldOK
  <1>2. LoopOK
    BY EmptySeq DEF LoopOK, Keyless
  <1>3. DocsOK /\ Honest
    BY DEF DocsOK, Honest, Keyless
  <1> QED
    BY <1>1, <1>2, <1>3 DEF Inv

\* What one guest's plan comes to when it removes the record.
LEMMA RemovedByAnswer ==
    ASSUME Inv, NEW g \in Guests, Guest(g), g \in record, g \notin record'
    PROVE  \/ g \in keyless
           \/ \E c \in docs[g], stock \in inv : \E w \in c.want : Selected(w, stock) = {}
  <1> DEFINE wants == UNION {c.want : c \in docs[g]}
             stock == CHOOSE h \in inv : TRUE
  <1>1. pc = "guests" /\ g \in todo /\ PlanFor(g).desired = {} /\ PlanFor(g).kind = "Plan"
    BY DEF Guest, Turn
  <1>2. stock \in inv /\ \E c \in docs[g] : c.read = "ok"
    BY <1>1 DEF Inv, Honest, Reconcilable
  <1>3. CASE wants = {}
    <2>1. \A c \in docs[g] : c.want = {}
      BY <1>3
    <2> QED
      BY <1>2, <2>1 DEF Inv, Honest
  <1>4. CASE wants # {}
    <2>1. UNION {Wanted(w, stock) : w \in wants} = {}
      BY <1>1, <1>4 DEF PlanFor, Outcome
    <2>2. PICK c \in docs[g] : c.want # {}
      BY <1>4
    <2>3. PICK w \in c.want : TRUE
      BY <2>2
    <2>4. Wanted(w, stock) = {}
      BY <2>1, <2>3
    <2>5. Selected(w, stock) = {}
      <3> SUFFICES ASSUME Selected(w, stock) # {} PROVE FALSE
        OBVIOUS
      <3>1. HookLine \in Wanted(w, stock)
        BY DEF Wanted, Render
      <3> QED
        BY <2>4, <3>1
    <2> QED
      BY <1>2, <2>3, <2>5
  <1> QED
    BY <1>3, <1>4

\* A stat, and what it makes of the document.
LEMMA StatsInv ==
    ASSUME Inv, NEW g \in Guests, NEW at \in 0..MaxMoves + 1, NEW ok \in BOOLEAN,
           Stats(g, at, ok), moves' \in 0..MaxMoves, calm' \in BOOLEAN
    PROVE  Inv'
  <1> USE DEF Inv
  <1>1. WorldOK' /\ LoopOK'
    BY DEF Stats, WorldOK, LoopOK, world, applied
  <1>2. UNCHANGED docs \/ (g \notin record /\ docs' = [docs EXCEPT ![g] = {Cached(at, {})}])
    BY DEF Stats, SourceOf
  <1>3. DocsOK'
    <2>1. Cached(at, {}) \in DocSet
      BY DEF Cached, DocSet, Keys
    <2> QED
      BY <1>2, <2>1 DEF DocsOK
  <1>4. Honest'
    <2>1. \A h \in record : h \in Guests /\ (docs'[h] = docs[h])
      BY <1>2 DEF DocsOK, LoopOK
    <2>2. pc = "docs" /\ pc' # "guests"
      BY DEF Stats
    <2> QED
      BY <2>1, <2>2 DEF Stats, Honest, world, applied
  <1> QED
    BY <1>1, <1>3, <1>4

\* An answer, or none.
LEMMA GetsInv ==
    ASSUME Inv, NEW g \in Guests, NEW answer \in DocSet, Gets(g, answer),
           answer.read = "ok" /\ answer.want = {} => g \in keyless,
           moves' \in 0..MaxMoves, calm' \in BOOLEAN
    PROVE  Inv'
  <1> USE Bounds DEF Inv
  <1>1. WorldOK' /\ LoopOK'
    BY DEF Gets, WorldOK, LoopOK, world, applied
  <1>2. DocsOK'
    BY DEF Gets, DocsOK
  <1>3. Honest'
    <2>1. \A h \in record : h \in Guests /\ docs'[h] = IF h = g THEN {answer} ELSE docs[h]
      BY DEF Gets, DocsOK, LoopOK
    <2> QED
      BY <2>1 DEF Gets, Honest, world, applied
  <1> QED
    BY <1>1, <1>2, <1>3

\* A guest's plan, applied.
LEMMA GuestInv ==
    ASSUME Inv, NEW g \in Guests, Guest(g) PROVE Inv'
  <1> USE DEF Inv
  <1>1. WorldOK' /\ DocsOK'
    BY DEF Guest, WorldOK, DocsOK, world
  <1>2. record' \subseteq record \cup {g} /\ keyless' \subseteq keyless
        /\ keyless \ {g} \subseteq keyless'
    BY DEF Guest
  <1>3. LoopOK'
    <2> DEFINE uvm == UNION {stock.uvm : stock \in inv}
    <2>1. majors' = majors \/ majors' = Noted(majors, known, uvm)
      BY DEF Guest
    <2>2. majors \in Seq(AnyMajors) /\ known \in Seq(AnyMajors) /\ uvm \in SUBSET AnyMajors
      BY ReadMajors DEF LoopOK
    <2> HIDE DEF uvm
    <2>3. majors' \in Seq(AnyMajors)
      BY <2>1, <2>2, NotedType
    <2> QED
      BY <1>2, <2>3 DEF Guest, LoopOK
  <1>4. g \notin keyless' /\ g \in keyless => file[g] # {} /\ \A c \in docs[g] : c.want # {}
    BY DEF Guest
  <1>5. ASSUME g \in record', \E c \in docs[g] : c.read = "ok" /\ c.want = {}
        PROVE  g \in record
    <2> SUFFICES ASSUME g \notin record PROVE FALSE
      OBVIOUS
    <2>1. PlanFor(g).kind = "Plan" /\ PlanFor(g).desired # {}
      BY <1>5 DEF Guest
    <2>2. UNION {c.want : c \in docs[g]} = {}
      BY <1>5 DEF DocsOK
    <2> QED
      BY <2>1, <2>2 DEF PlanFor, Outcome
  <1>6. Honest'
    <2>1. \A h \in Guests : file'[h] = {} => h \in keyless'
      BY <1>2, <1>4 DEF Honest, Guest, world
    <2>2. ASSUME NEW h \in record', \E c \in docs'[h] : c.read = "ok" /\ c.want = {}
          PROVE  h \in keyless'
      <3>1. docs' = docs
        BY DEF Guest
      <3>2. h \in record
        BY <1>2, <1>5, <2>2, <3>1
      <3> QED
        BY <1>2, <1>4, <2>2, <3>1, <3>2 DEF Honest
    <2>3. pc' = "guests" => inv' # {} /\ todo' \subseteq Reconcilable'
      BY DEF Guest, Honest, Reconcilable
    <2> QED
      BY <2>1, <2>2, <2>3 DEF Honest
  <1> QED
    BY <1>1, <1>3, <1>6

\* The documents are done, and a list of majors is read.
LEMMA SettleInv ==
    ASSUME Inv, NEW list \in Seq(AnyMajors), Settle(list), moves' \in 0..MaxMoves, calm' \in BOOLEAN
    PROVE  Inv'
  <1> USE DEF Inv, Settle, End
  <1>1. WorldOK' /\ DocsOK'
    BY DEF WorldOK, DocsOK, world
  <1>2. LoopOK'
    BY EmptySeq DEF Reconcilable, LoopOK, applied
  <1>3. Honest'
    BY DEF Reconcilable, Honest, world, applied
  <1> QED
    BY <1>1, <1>2, <1>3

\* The tick, step by step.
LEMMA TickInv == Inv /\ Tick => Inv'
  <1> SUFFICES ASSUME Inv, Tick PROVE Inv'
    OBVIOUS
  <1> USE Bounds DEF Inv
  <1>1. CASE TakeInventory
    <2>1. WorldOK' /\ DocsOK'
      BY <1>1 DEF TakeInventory, Polls, WorldOK, DocsOK, world
    <2>2. LoopOK'
      BY <1>1 DEF TakeInventory, Polls, WorldOK, LoopOK, applied
    <2>3. Honest'
      BY <1>1 DEF TakeInventory, Polls, Honest, world, applied
    <2> QED
      BY <2>1, <2>2, <2>3
  <1>2. CASE ReadVmlist
    <2>1. WorldOK' /\ DocsOK'
      BY <1>2 DEF ReadVmlist, WorldOK, DocsOK, world
    <2>2. LoopOK'
      BY <1>2, EmptySeq DEF ReadVmlist, End, LoopOK, applied, history
    <2>3. Honest'
      BY <1>2 DEF ReadVmlist, End, Honest, world, applied, history
    <2> QED
      BY <2>1, <2>2, <2>3
  <1>3. CASE DocumentsDone
    BY <1>3, SettleInv DEF DocumentsDone, WorldOK, LoopOK
  <1>4. CASE GuestsDone
    <2>1. WorldOK' /\ DocsOK'
      BY <1>4 DEF GuestsDone, WorldOK, DocsOK, world
    <2>2. LoopOK'
      BY <1>4, EmptySeq DEF GuestsDone, End, LoopOK, applied
    <2>3. Honest'
      BY <1>4 DEF GuestsDone, End, Honest, world, applied
    <2> QED
      BY <2>1, <2>2, <2>3
  <1>5. ASSUME NEW g \in Guests, SkipDocument(g) PROVE Inv'
    <2>1. WorldOK' /\ DocsOK'
      BY <1>5 DEF SkipDocument, WorldOK, DocsOK, world
    <2>2. LoopOK'
      BY <1>5 DEF SkipDocument, LoopOK, applied
    <2>3. Honest'
      BY <1>5 DEF SkipDocument, Honest, world, applied
    <2> QED
      BY <2>1, <2>2, <2>3

  <1>6. ASSUME NEW g \in Guests, Stat(g) PROVE Inv'
    <2>1. PICK seen \in 0..MaxMoves + 1, ok \in BOOLEAN : Stats(g, seen, ok)
      BY <1>6 DEF Stat, WorldOK
    <2>2. moves' \in 0..MaxMoves /\ calm' \in BOOLEAN
      BY <1>6 DEF Stat, WorldOK, LoopOK
    <2> QED
      BY <2>1, <2>2, StatsInv
  <1>7. ASSUME NEW g \in Guests, Get(g) PROVE Inv'
    <2> DEFINE answer == IF up THEN Cached(saw, file[g]) ELSE Failed(saw)
    <2>1. answer \in DocSet
      <3>1. saw \in 0..MaxMoves + 1 /\ file[g] \in Keys \cup {Bad} /\ {} \in Keys
        BY DEF WorldOK, LoopOK, Keys
      <3> QED
        BY <3>1 DEF Cached, Failed, DocSet
    <2>2. answer.read = "ok" /\ answer.want = {} => g \in keyless
      BY DEF Cached, Failed, Honest
    <2>3. moves' \in 0..MaxMoves /\ calm' \in BOOLEAN
      BY <1>7 DEF Get, WorldOK, LoopOK
    <2>4. Gets(g, answer)
      BY <1>7 DEF Get
    <2> HIDE DEF answer
    <2> QED
      BY <2>1, <2>2, <2>3, <2>4, GetsInv
  <1>8. ASSUME NEW g \in Guests, Guest(g) PROVE Inv'
    BY <1>8, GuestInv
  <1> QED
    BY <1>1, <1>2, <1>3, <1>4, <1>5, <1>6, <1>7, <1>8 DEF Tick

\* What fails, and the world.
LEMMA WorldInv ==
    ASSUME Inv,
           \/ BudgetSpent \/ FullDue
           \/ InventoryFails \/ RecallFails \/ HardwareChanges \/ StoreTurns
           \/ \E g \in Guests : StatFails(g) \/ GetFails(g) \/ GuestFails(g)
           \/ \E g \in Guests : Document(g) \/ PveLocks(g)
    PROVE  Inv'
  <1> USE Bounds DEF Inv
  <1>0. ASSUME Move PROVE moves' \in 0..MaxMoves
    BY <1>0 DEF Move, WorldOK
  <1>1. CASE BudgetSpent \/ FullDue
    <2>1. WorldOK' /\ DocsOK' /\ Honest'
      BY <1>1 DEF BudgetSpent, FullDue, WorldOK, DocsOK, Honest, Reconcilable, world, applied, history
    <2>2. LoopOK'
      BY <1>1 DEF BudgetSpent, FullDue, LoopOK, applied, history
    <2> QED
      BY <2>1, <2>2
  <1>2. CASE InventoryFails
    <2>1. WorldOK' /\ DocsOK'
      BY <1>0, <1>2 DEF InventoryFails, Polls, WorldOK, DocsOK, world
    <2>2. LoopOK' /\ Honest'
      BY <1>2 DEF InventoryFails, Polls, LoopOK, Honest, world, applied
    <2> QED
      BY <2>1, <2>2
  <1>3. CASE HardwareChanges \/ StoreTurns
    <2>1. Shakes
      BY <1>3 DEF HardwareChanges, StoreTurns
    <2>2. WorldOK'
      BY <1>0, <1>3, <2>1 DEF HardwareChanges, StoreTurns, Shakes, WorldOK
    <2>3. LoopOK' /\ DocsOK' /\ Honest'
      BY <1>3, <2>1 DEF HardwareChanges, StoreTurns, Shakes, LoopOK, DocsOK, Honest,
         Reconcilable, loop
    <2> QED
      BY <2>2, <2>3
  <1>4. ASSUME NEW g \in Guests, StatFails(g) PROVE Inv'
    <2>1. moves' \in 0..MaxMoves /\ calm' \in BOOLEAN /\ Stats(g, NoFile, FALSE)
      BY <1>0, <1>4 DEF StatFails
    <2> QED
      BY <2>1, StatsInv
  <1>5. ASSUME NEW g \in Guests, GetFails(g) PROVE Inv'
    <2>1. moves' \in 0..MaxMoves /\ calm' \in BOOLEAN /\ Gets(g, Failed(saw))
      BY <1>0, <1>5 DEF GetFails
    <2>2. Failed(saw) \in DocSet /\ Failed(saw).read # "ok"
      BY DEF Failed, DocSet, Keys, LoopOK
    <2> QED
      BY <2>1, <2>2, GetsInv
  <1>6. ASSUME NEW g \in Guests, GuestFails(g) PROVE Inv'
    <2>1. WorldOK' /\ DocsOK'
      BY <1>0, <1>6 DEF GuestFails, WorldOK, DocsOK, world
    <2>2. LoopOK' /\ Honest'
      BY <1>6 DEF GuestFails, LoopOK, Honest, Reconcilable, world, applied
    <2> QED
      BY <2>1, <2>2
  <1>7. ASSUME NEW g \in Guests, Document(g) PROVE Inv'
    <2>1. PICK new \in (Keys \cup {Bad}) \ {file[g]}, at \in {NoFile, stamp[g], moves + 2} :
             /\ file' = [file EXCEPT ![g] = new] /\ stamp' = [stamp EXCEPT ![g] = at]
             /\ blurred' \subseteq blurred \cup {g}
             /\ keyless' = IF new = {} THEN keyless \cup {g} ELSE keyless
      BY <1>7 DEF Document
    <2>2. at \in 0..MaxMoves + 1
      <3>1. moves \in 0..MaxMoves /\ moves < MaxMoves /\ stamp[g] \in 0..MaxMoves + 1
        BY <1>7 DEF Document, Shakes, Move, WorldOK
      <3>2. moves + 2 \in 0..MaxMoves + 1
        BY <3>1
      <3> QED
        BY <2>1, <3>1, <3>2
    <2>3. WorldOK'
      BY <1>0, <1>7, <2>1, <2>2 DEF Document, Shakes, WorldOK
    <2>4. LoopOK' /\ DocsOK'
      BY <1>7, <2>1 DEF Document, Shakes, LoopOK, DocsOK, loop
    <2>5. Honest'
      BY <1>7, <2>1 DEF Document, Shakes, Honest, Reconcilable, WorldOK, loop
    <2> QED
      BY <2>3, <2>4, <2>5
  <1>8. ASSUME NEW g \in Guests, PveLocks(g) PROVE Inv'
    <2>1. WorldOK'
      BY <1>0, <1>8 DEF PveLocks, Shakes, WorldOK, world
    <2>2. LoopOK' /\ DocsOK' /\ Honest'
      BY <1>8 DEF PveLocks, Shakes, LoopOK, DocsOK, Honest, Reconcilable, world, loop
    <2> QED
      BY <2>1, <2>2
  <1>9. CASE RecallFails
    BY <1>0, <1>9, EmptySeq, SettleInv DEF RecallFails
  <1> QED
    BY <1>1, <1>2, <1>3, <1>4, <1>5, <1>6, <1>7, <1>8, <1>9

LEMMA Invariance == Spec => []Inv
  <1>1. Inv /\ UNCHANGED vars => Inv'
    BY DEF Inv, WorldOK, LoopOK, DocsOK, Honest, Reconcilable, vars, world, applied, loop, history
  <1>2. Inv /\ [Next]_vars => Inv'
    BY <1>1, TickInv, WorldInv DEF Next
  <1> QED
    BY InitInv, <1>2, PTL DEF Spec

\* The cache and the inventory are what a document and /proc once said.
THEOREM TypeCorrect == Spec => []TypeOK
  <1>1. Inv => TypeOK
    BY DEF Inv, WorldOK, LoopOK, DocsOK, DocSet, AnyMajors, TypeOK
  <1> QED
    BY <1>1, Invariance, PTL

\* No guest loses its lines to a store that is away, a failed stat or an old
\* answer, for any number of guests and any sequence of outages (daemon.rs,
\* source_of and read_documents).
THEOREM NoGuess == Spec => NothingRemovedByGuess
  <1> DEFINE A == \A g \in record \ record' : Guest(g) =>
                    \/ g \in keyless
                    \/ \E c \in docs[g], stock \in inv :
                          \E w \in c.want : Selected(w, stock) = {}
  <1>1. Inv /\ [Next]_vars => [A]_vars
    BY RemovedByAnswer DEF Inv, LoopOK
  <1>2. Spec => [][A]_vars
    BY <1>1, Invariance, PTL DEF Spec
  <1> QED
    BY <1>2 DEF NothingRemovedByGuess
-----------------------------------------------------------------------------
\* One poll is enough.

\* Every line the tool writes is one it will replace.
LEMMA WantedManaged ==
    ASSUME NEW want, NEW stock, Wildcard \notin stock.uvm, NEW owned, owned.uvm = stock.uvm,
           NEW l \in Wanted(want, stock)
    PROVE  IsManaged(l, owned)
  <1> USE DEF Allow, HookLine, EnvLine, Plain
  <1> DEFINE gpus == Selected(want, stock)
             caps == CapabilityList(want)
  <1>1. \/ l \in {Allow(NvidiaMajor, g.minor) : g \in gpus}
        \/ l \in {Allow(NvidiaMajor, ModesetMinor) : c \in caps \cap {"graphics", "display"}}
        \/ l \in {Allow(NvidiaMajor, CtlMinor), HookLine,
                  EnvLine(VisibleDevices, {g.uuid : g \in gpus})}
        \/ l \in {Allow(m, i) : m \in stock.uvm, i \in {0, 1}}
        \/ l \in (IF caps = {} THEN {} ELSE {EnvLine(DriverCapabilities, caps)})
        \/ l \in {EnvLine(RequireCuda, {v}) : v \in want.require_cuda}
    BY DEF Wanted, Render
  <1>2. ASSUME l \in {Allow(m, i) : m \in stock.uvm, i \in {0, 1}} PROVE IsManaged(l, owned)
    <2>1. PICK m \in stock.uvm, i \in {0, 1} : l = Allow(m, i)
      BY <1>2
    <2>2. m # Wildcard /\ m \in owned.uvm
      OBVIOUS
    <2> QED
      BY <2>1, <2>2 DEF IsManaged, Owns
  <1> QED
    BY <1>1, <1>2 DEF IsManaged, Owns, NvidiaMajor, Wildcard, NvidiaNames

LEMMA SplicedLines ==
    ASSUME NEW lines, NEW desired, NEW owned, \A l \in desired : IsManaged(l, owned)
    PROVE  ManagedLines(Splice(lines, desired, owned), owned) = desired
  BY DEF Splice, ManagedLines

\* A shorter list of majors owns less, and all the same what a document asks for.
Shrinks(text, wants, stock, list, less) ==
    LET want == UNION {Wanted(w, stock) : w \in wants}
        all == ManagedLines(text, OwnedBy(stock.uvm, list, stock.chars))
        some == ManagedLines(text, OwnedBy(stock.uvm, less, stock.chars))
    IN some \subseteq all /\ (want \subseteq text => want \subseteq some)

LEMMA LessOwned ==
    ASSUME NEW text, NEW wants, NEW stock, Wildcard \notin stock.uvm,
           NEW list, NEW less, less \subseteq list \cup stock.uvm
    PROVE  Shrinks(text, wants, stock, list, less)
  <1> DEFINE many == OwnedBy(stock.uvm, list, stock.chars)
             few == OwnedBy(stock.uvm, less, stock.chars)
             want == UNION {Wanted(w, stock) : w \in wants}
  <1>1. few.uvm = stock.uvm /\ \A m : Owns(few, m) => Owns(many, m)
    BY DEF OwnedBy, Owns
  <1> HIDE DEF many, few
  <1>2. ManagedLines(text, few) \subseteq ManagedLines(text, many)
    BY <1>1 DEF ManagedLines, IsManaged
  <1>3. ASSUME NEW l \in want PROVE IsManaged(l, few)
    BY <1>1, <1>3, WantedManaged
  <1>4. want \subseteq text => want \subseteq ManagedLines(text, few)
    BY <1>3 DEF ManagedLines
  <1> QED
    BY <1>2, <1>4 DEF Shrinks, many, few

\* What is written by a plan is what the next plan of the guest asks for, by
\* what the list of majors is then.
Repeats(lines, wants, stock, list, had, less, has) ==
    LET plan == Outcome(lines, wants, stock, list, had)
        again == Outcome(Splice(lines, plan.desired, plan.owned), wants, stock, less, has)
    IN plan.kind = "Plan" /\ again.kind = "Plan" =>
          ~Changed(again) /\ again.desired = plan.desired

LEMMA PlanSettles ==
    ASSUME NEW lines, NEW wants, NEW stock, Wildcard \notin stock.uvm, NEW list, NEW had,
           NEW less, less \subseteq list \cup stock.uvm, NEW has
    PROVE  Repeats(lines, wants, stock, list, had, less, has)
  <1> DEFINE plan == Outcome(lines, wants, stock, list, had)
             new == Splice(lines, plan.desired, plan.owned)
             again == Outcome(new, wants, stock, less, has)
             want == UNION {Wanted(w, stock) : w \in wants}
  <1> SUFFICES ASSUME plan.kind = "Plan", again.kind = "Plan"
               PROVE  ~Changed(again) /\ again.desired = plan.desired
    BY Zenon DEF Repeats
  <1>1. plan.desired = want /\ plan.owned = OwnedBy(stock.uvm, list, stock.chars)
    BY DEF Outcome
  <1> HIDE DEF plan
  <1>2. /\ again.desired = want
        /\ again.current = ManagedLines(new, OwnedBy(stock.uvm, less, stock.chars))
    BY <1>1 DEF Outcome
  <1>3. \A l \in want : IsManaged(l, plan.owned)
    <2>1. plan.owned.uvm = stock.uvm
      BY <1>1 DEF OwnedBy
    <2> QED
      BY <2>1, WantedManaged
  <1>4. ManagedLines(new, plan.owned) = want /\ want \subseteq new
    BY <1>1, <1>3, SplicedLines DEF Splice
  <1> HIDE DEF new, again
  <1>5. Shrinks(new, wants, stock, list, less)
    BY LessOwned
  <1>6. ManagedLines(new, OwnedBy(stock.uvm, less, stock.chars)) = want
    BY <1>1, <1>4, <1>5 DEF Shrinks
  <1> QED
    BY <1>1, <1>2, <1>6 DEF Changed

\* A guest APollSettles is about; what its last answer is then; and what its
\* config is once it has been planned by it.
Judged(g) == Answered(g) /\ file[g] # Bad /\ g \notin blurred
Heard(g) == Judged(g) => \E c \in docs[g] : docs[g] = {c} /\ c.read = "ok" /\ c.want = file[g]
Good(g) == Judged(g) => Settled(g)

\* Stamps are handed out in order, and without a file there is no key.
Stamped ==
    /\ saw <= moves + 1
    /\ \A g \in Guests : /\ stamp[g] = NoFile => file[g] = {}
                         /\ stamp[g] <= moves + 1
                         /\ \A c \in docs[g] : c.stamp <= moves + 1

\* An answer under the stamp the document has is what the document says.
CacheTrue(g) ==
    \A c \in docs[g] :
        c.stamp = stamp[g] /\ stamp[g] # NoFile /\ g \notin blurred /\ c.read # "failed"
            => c = Cached(stamp[g], file[g])

Dated == Stamped /\ \A g \in Guests : CacheTrue(g)

\* In a calm poll: the guests a loop has behind it were heard, or are settled.
Progress ==
    /\ pc \in {"docs", "get"} => \A g \in Guests \ todo : Heard(g)
    /\ pc = "guests" =>
          /\ \A g \in Guests : Heard(g) /\ (g \notin todo => Good(g))
          /\ majors = known \/ majors = Noted(known, known, hw.uvm)
    /\ pc = "sleep" => \A g \in Guests : Good(g)

Calm == (calm => inv = {hw}) /\ (calm /\ up => Progress)

LEMMA InitSettling == Init => Dated /\ Calm
  <1> SUFFICES ASSUME Init PROVE Dated /\ Calm
    OBVIOUS
  <1> USE Bounds DEF Init, NoFile
  <1>1. Dated
    BY DEF Dated, Stamped, CacheTrue
  <1> QED
    BY <1>1 DEF Calm

-----------------------------------------------------------------------------
\* The stamps.
LEMMA StillLater ==
    ASSUME NEW m \in Nat, NEW n \in Nat, n >= m, NEW at \in Nat, at <= m + 1
    PROVE  at <= n + 1
  OBVIOUS

LEMMA Numbers ==
    ASSUME Inv
    PROVE  saw \in Nat /\ \A g \in Guests : stamp[g] \in Nat /\ \A c \in docs[g] : c.stamp \in Nat
  <1>1. saw \in Nat
    BY Bounds DEF Inv, LoopOK
  <1>2. ASSUME NEW g \in Guests PROVE stamp[g] \in Nat
    BY <1>2, Bounds DEF Inv, WorldOK
  <1>3. ASSUME NEW g \in Guests, NEW c \in docs[g] PROVE c.stamp \in Nat
    <2>1. c \in DocSet
      BY <1>3 DEF Inv, DocsOK
    <2> QED
      BY <2>1, Bounds DEF DocSet
  <1> QED
    BY <1>1, <1>2, <1>3

LEMMA QuietDated ==
    ASSUME Inv, Dated, UNCHANGED <<file, stamp, docs, saw, blurred>>,
           moves' = moves \/ Move
    PROVE  Dated'
  <1>1. moves \in Nat /\ moves' >= moves /\ moves' \in Nat
    BY Bounds DEF Inv, WorldOK, Move
  <1>2. saw \in Nat /\ \A g \in Guests : stamp[g] \in Nat /\ \A c \in docs[g] : c.stamp \in Nat
    BY Numbers
  <1>3. Stamped'
    <2>1. Stamped
      BY DEF Dated
    <2>2. saw <= moves' + 1
      BY <1>1, <1>2, <2>1, StillLater DEF Stamped
    <2>3. ASSUME NEW g \in Guests
          PROVE  /\ stamp[g] = NoFile => file[g] = {}
                 /\ stamp[g] <= moves' + 1
                 /\ \A c \in docs[g] : c.stamp <= moves' + 1
      BY <1>1, <1>2, <2>1, StillLater DEF Stamped
    <2> QED
      BY <2>2, <2>3 DEF Stamped
  <1>4. \A g \in Guests : CacheTrue(g)'
    BY DEF Dated, CacheTrue
  <1> QED
    BY <1>3, <1>4 DEF Dated

\* An answer joins the cache: "no key" without a file, or what `get` said.
LEMMA AnswerDated ==
    ASSUME Inv, Dated, NEW g \in Guests, NEW answer, docs' = [docs EXCEPT ![g] = {answer}],
           \/ answer = Cached(NoFile, {})
           \/ answer \in {Cached(saw, file[g]), Failed(saw)},
           saw' \in {saw, NoFile}, UNCHANGED <<file, stamp, blurred>>, moves' = moves \/ Move
    PROVE  Dated'
  <1>1. moves \in Nat /\ moves' >= moves /\ moves' \in Nat
    BY Bounds DEF Inv, WorldOK, Move
  <1>2. saw \in Nat /\ \A h \in Guests : stamp[h] \in Nat /\ \A c \in docs[h] : c.stamp \in Nat
    BY Numbers
  <1>3. \A h \in Guests : docs'[h] = IF h = g THEN {answer} ELSE docs[h]
    BY DEF Inv, DocsOK
  <1>4. answer.stamp \in {saw, NoFile}
    BY DEF Cached, Failed
  <1>5. Stamped'
    <2>1. saw <= moves + 1 /\ NoFile <= moves + 1
      BY <1>1 DEF Dated, Stamped, NoFile
    <2>2. saw' <= moves' + 1
      <3>1. saw <= moves' + 1 /\ NoFile <= moves' + 1
        BY <1>1, <1>2, <2>1, StillLater DEF NoFile
      <3> QED
        BY <3>1, Zenon
    <2>3. ASSUME NEW h \in Guests, NEW c \in docs'[h] PROVE c.stamp <= moves' + 1
      <3>1. CASE h = g
        BY <1>1, <1>2, <1>3, <1>4, <2>1, <2>3, <3>1 DEF NoFile
      <3>2. CASE h # g
        BY <1>1, <1>2, <1>3, <2>3, <3>2 DEF Dated, Stamped
      <3> QED
        BY <3>1, <3>2
    <2>4. \A h \in Guests : stamp[h] <= moves' + 1 /\ (stamp[h] = NoFile => file[h] = {})
      BY <1>1, <1>2 DEF Dated, Stamped
    <2> QED
      BY <2>2, <2>3, <2>4 DEF Stamped
  <1>6. ASSUME NEW h \in Guests PROVE CacheTrue(h)'
    <2>1. CASE h # g
      BY <1>3, <2>1 DEF Dated, CacheTrue
    <2>2. CASE h = g
      <3>1. CASE answer = Cached(NoFile, {})
        <4>1. answer.stamp = NoFile /\ docs'[h] = {answer}
          BY <1>3, <2>2, <3>1 DEF Cached
        <4> QED
          BY <4>1 DEF CacheTrue
      <3>2. CASE answer = Cached(saw, file[g])
        BY <1>3, <2>2, <3>2 DEF CacheTrue, Cached
      <3>3. CASE answer = Failed(saw)
        BY <1>3, <2>2, <3>3 DEF CacheTrue, Failed
      <3> QED
        BY <3>1, <3>2, <3>3
    <2> QED
      BY <2>1, <2>2
  <1> QED
    BY <1>5, <1>6 DEF Dated

LEMMA StatsDated ==
    ASSUME Inv, Dated, NEW g \in Guests, NEW at, at = NoFile \/ at = stamp[g], NEW ok \in BOOLEAN,
           Stats(g, at, ok), UNCHANGED <<file, stamp, blurred>>, moves' = moves \/ Move
    PROVE  Dated'
  <1>1. CASE docs' # docs
    <2>1. at = NoFile /\ docs' = [docs EXCEPT ![g] = {Cached(at, {})}] /\ saw' = saw
      BY <1>1 DEF Stats, SourceOf
    <2> QED
      BY <2>1, AnswerDated
  <1>2. CASE docs' = docs
    <2>1. saw' \in {saw, at}
      BY DEF Stats
    <2>2. moves \in Nat /\ moves' >= moves /\ moves' \in Nat
      BY Bounds DEF Inv, WorldOK, Move
    <2>3. /\ saw \in Nat /\ at \in Nat
          /\ \A h \in Guests : stamp[h] \in Nat /\ \A c \in docs[h] : c.stamp \in Nat
      BY Numbers DEF NoFile
    <2>4. Stamped'
      <3>1. saw' <= moves' + 1
        BY <2>1, <2>2, <2>3 DEF Dated, Stamped, NoFile
      <3>2. \A h \in Guests : /\ stamp[h] = NoFile => file[h] = {}
                              /\ stamp[h] <= moves' + 1
                              /\ \A c \in docs[h] : c.stamp <= moves' + 1
        BY <2>2, <2>3 DEF Dated, Stamped
      <3> QED
        BY <1>2, <3>1, <3>2 DEF Stamped
    <2>5. \A h \in Guests : CacheTrue(h)'
      BY <1>2 DEF Dated, CacheTrue
    <2> QED
      BY <2>4, <2>5 DEF Dated
  <1> QED
    BY <1>1, <1>2

\* A document is written: under a stamp nobody has seen, or blurred.
LEMMA DocumentDated ==
    ASSUME Inv, Dated, NEW g \in Guests, Document(g) PROVE Dated'
  <1>1. PICK new \in (Keys \cup {Bad}) \ {file[g]}, at \in {NoFile, stamp[g], moves + 2} :
           /\ at = NoFile => new = {}
           /\ file' = [file EXCEPT ![g] = new] /\ stamp' = [stamp EXCEPT ![g] = at]
           /\ blurred' = IF at = stamp[g] /\ at # NoFile THEN blurred \cup {g}
                         ELSE blurred \ {g}
    BY DEF Document
  <1>2. moves \in Nat /\ moves' = moves + 1 /\ docs' = docs /\ saw' = saw
    BY Bounds DEF Document, Shakes, Move, loop, Inv, WorldOK
  <1>3. saw \in Nat /\ \A h \in Guests : stamp[h] \in Nat /\ \A c \in docs[h] : c.stamp \in Nat
    BY Numbers
  <1>4. \A h \in Guests : /\ file'[h] = IF h = g THEN new ELSE file[h]
                          /\ stamp'[h] = IF h = g THEN at ELSE stamp[h]
    BY <1>1 DEF Inv, WorldOK
  <1>5. Stamped'
    <2>1. at <= moves + 2
      BY <1>1, <1>2, <1>3 DEF Dated, Stamped, NoFile
    <2> QED
      BY <1>1, <1>2, <1>3, <1>4, <2>1 DEF Dated, Stamped
  <1>6. ASSUME NEW h \in Guests PROVE CacheTrue(h)'
    <2>1. CASE h # g
      BY <1>1, <1>2, <1>4, <2>1 DEF Dated, CacheTrue
    <2>2. CASE h = g /\ at = moves + 2
      <3>1. \A c \in docs'[h] : c.stamp # stamp'[h]
        BY <1>2, <1>3, <1>4, <2>2 DEF Dated, Stamped
      <3> QED
        BY <3>1 DEF CacheTrue
    <2>3. CASE h = g /\ at \in {NoFile, stamp[g]}
      BY <1>1, <1>4, <2>3 DEF CacheTrue
    <2> QED
      BY <1>1, <2>1, <2>2, <2>3
  <1> QED
    BY <1>5, <1>6 DEF Dated

LEMMA StepDated == Inv /\ Dated /\ [Next]_vars => Dated'
  <1> SUFFICES ASSUME Inv, Dated, [Next]_vars PROVE Dated'
    OBVIOUS
  <1> USE DEF world, applied, loop, history
  <1>1. CASE UNCHANGED vars
    BY <1>1, QuietDated DEF vars
  <1>2. CASE TakeInventory \/ ReadVmlist \/ DocumentsDone \/ GuestsDone \/ BudgetSpent \/ FullDue
    BY <1>2, QuietDated DEF TakeInventory, Polls, ReadVmlist, DocumentsDone, Settle, GuestsDone,
       BudgetSpent, FullDue
  <1>3. CASE InventoryFails \/ RecallFails \/ HardwareChanges \/ StoreTurns
    BY <1>3, QuietDated DEF InventoryFails, Polls, RecallFails, Settle, HardwareChanges,
       StoreTurns, Shakes
  <1>4. ASSUME NEW g \in Guests, SkipDocument(g) \/ Guest(g) \/ GuestFails(g) \/ PveLocks(g)
        PROVE  Dated'
    BY <1>4, QuietDated DEF SkipDocument, Guest, GuestFails, PveLocks, Shakes
  <1>5. ASSUME NEW g \in Guests, Stat(g) \/ StatFails(g) PROVE Dated'
    <2>1. PICK at \in {NoFile, stamp[g]}, ok \in BOOLEAN : Stats(g, at, ok)
      BY <1>5 DEF Stat, StatFails
    <2>2. UNCHANGED <<file, stamp, blurred>> /\ (moves' = moves \/ Move)
      BY <1>5 DEF Stat, StatFails, Stats
    <2> QED
      BY <2>1, <2>2, StatsDated
  <1>6. ASSUME NEW g \in Guests, Get(g) \/ GetFails(g) PROVE Dated'
    <2>1. PICK answer \in {Cached(saw, file[g]), Failed(saw)} : Gets(g, answer)
      BY <1>6 DEF Get, GetFails
    <2>2. moves' = moves \/ Move
      BY <1>6 DEF Get, GetFails
    <2>3. /\ docs' = [docs EXCEPT ![g] = {answer}] /\ saw' = NoFile
          /\ UNCHANGED <<file, stamp, blurred>>
      BY <2>1 DEF Gets
    <2> QED
      BY <2>1, <2>2, <2>3, AnswerDated
  <1>7. ASSUME NEW g \in Guests, Document(g) PROVE Dated'
    BY <1>7, DocumentDated
  <1> QED
    BY <1>1, <1>2, <1>3, <1>4, <1>5, <1>6, <1>7 DEF Next, Tick

-----------------------------------------------------------------------------
\* What is said of a guest depends on little.
LEMMA HeardStays ==
    ASSUME NEW g \in Guests, UNCHANGED <<file, blurred>>, docs'[g] = docs[g]
    PROVE  (Heard(g)' <=> Heard(g)) /\ (Judged(g)' <=> Judged(g))
  BY DEF Heard, Judged, Answered

LEMMA GoodStays ==
    ASSUME NEW g \in Guests, Good(g), UNCHANGED <<file, blurred, hw>>, docs'[g] = docs[g],
           conf'[g] = conf[g], g \in record' <=> g \in record, hw \in Hardware,
           Elements(majors') \subseteq Elements(majors) \cup hw.uvm
    PROVE  Good(g)'
  <1> SUFFICES ASSUME Judged(g) PROVE Settled(g)'
    BY HeardStays DEF Good
  <1> DEFINE plan == Outcome(conf[g], file[g], hw, Elements(majors), g \in record)
             next == Outcome(conf[g], file[g], hw, Elements(majors'), g \in record)
             want == UNION {Wanted(w, hw) : w \in file[g]}
  <1>1. SUFFICES ASSUME next.kind = "Plan", ~Locked(conf[g])
                 PROVE  ~Changed(next) /\ (g \in record <=> next.desired # {})
    BY DEF Settled
  <1>2. /\ plan.kind = next.kind /\ plan.desired = next.desired
        /\ plan.current = ManagedLines(conf[g], OwnedBy(hw.uvm, Elements(majors), hw.chars))
        /\ next.current = ManagedLines(conf[g], OwnedBy(hw.uvm, Elements(majors'), hw.chars))
    BY DEF Outcome
  <1>3. next.desired = want
    BY <1>1 DEF Outcome
  <1>4. ~Changed(plan) /\ (g \in record <=> plan.desired # {})
    BY <1>1, <1>2 DEF Good, Settled
  <1>5. Shrinks(conf[g], file[g], hw, Elements(majors), Elements(majors'))
    <2>1. Wildcard \notin hw.uvm
      BY DaemonAssumption
    <2> QED
      BY <2>1, LessOwned
  <1> HIDE DEF plan, next
  <1>6. plan.desired = plan.current
    BY <1>4 DEF Changed
  <1>7. want \subseteq conf[g]
    BY <1>2, <1>3, <1>6 DEF ManagedLines
  <1> QED
    BY <1>2, <1>3, <1>4, <1>5, <1>6, <1>7 DEF Changed, Shrinks

\* What a calm poll makes of the list of majors.
LEMMA ListStays ==
    ASSUME Inv, inv = {hw}, majors = known \/ majors = Noted(known, known, hw.uvm),
           majors' = majors \/ majors' = Noted(majors, known, hw.uvm)
    PROVE  /\ majors' = known \/ majors' = Noted(known, known, hw.uvm)
           /\ Elements(majors') \subseteq Elements(known) \cup hw.uvm
           /\ Elements(majors') \subseteq Elements(majors) \cup hw.uvm
  <1>1. majors' = majors \/ majors' = Noted(known, known, hw.uvm)
    BY DEF Noted
  <1>2. Elements(Noted(known, known, hw.uvm)) \subseteq Elements(known) \cup hw.uvm
    <2>1. /\ known \in Seq(AnyMajors) /\ hw.uvm \in SUBSET AnyMajors
          /\ \A m, n \in hw.uvm : m = n
      BY DaemonAssumption DEF Inv, WorldOK, LoopOK, AnyMajors
    <2> QED
      BY <2>1, NotedList
  <1> QED
    BY <1>1, <1>2

-----------------------------------------------------------------------------
\* A calm poll, step by step.
LEMMA StatCalm ==
    ASSUME Inv, Dated, Calm, NEW g \in Guests, Stat(g) PROVE Calm'
  <1>1. UNCHANGED <<inv, hw, up, calm, file, stamp, blurred>> /\ pc = "docs" /\ pc' \in {"docs", "get"}
    BY DEF Stat, Stats, world
  <1>2. SUFFICES ASSUME calm, up, NEW h \in Guests \ todo' PROVE Heard(h)'
    BY <1>1 DEF Calm, Progress
  <1>3. PICK at \in {stamp[g]}, ok \in {TRUE} : Stats(g, at, ok)
    BY <1>2 DEF Stat
  <1> DEFINE source == SourceOf(docs[g], at, ok, g \in record)
  <1>4. CASE h # g
    <2>1. h \notin todo /\ docs'[h] = docs[h]
      BY <1>3, <1>4 DEF Stats, Inv, DocsOK
    <2>2. Heard(h)
      BY <1>1, <1>2, <2>1 DEF Calm, Progress
    <2> QED
      BY <1>1, <2>1, <2>2, HeardStays
  <1>5. CASE h = g
    <2>1. g \in todo /\ g \notin todo'
      BY <1>2, <1>3, <1>5 DEF Stats, Turn
    <2>2. source # "Read"
      BY <1>3, <2>1 DEF Stats
    <2>3. CASE source = "Absent"
      <3>1. at = NoFile /\ docs'[g] = {Cached(at, {})}
        BY <1>3, <2>3 DEF Stats, SourceOf, Inv, DocsOK
      <3>2. file[g] = {}
        BY <1>3, <3>1 DEF Dated, Stamped
      <3>3. ASSUME file[g] # Bad PROVE Heard(g)'
        <4>1. Cached(at, {}).read = "ok" /\ Cached(at, {}).want = {}
          BY <3>2, <3>3 DEF Cached
        <4> QED
          BY <1>1, <3>1, <3>2, <4>1 DEF Heard
      <3> QED
        BY <1>1, <1>5, <3>3 DEF Heard, Judged
    <2>4. CASE source = "Cached"
      <3>1. docs' = docs /\ \E c \in docs[g] : c.stamp = at
        BY <1>3, <2>4 DEF Stats, SourceOf
      <3>2. PICK c : docs[g] = {c} /\ c.stamp = stamp[g]
        BY <1>3, <3>1 DEF Inv, DocsOK
      <3>3. ASSUME Judged(g) PROVE c.read = "ok" /\ c.want = file[g]
        <4>1. c.read # "failed" /\ (c.stamp = NoFile => c.read = "ok" /\ c.want = {})
              /\ file[g] # Bad /\ g \notin blurred
          BY <3>2, <3>3 DEF Judged, Answered
        <4>2. CASE stamp[g] = NoFile
          BY <3>2, <4>1, <4>2 DEF Dated, Stamped
        <4>3. CASE stamp[g] # NoFile
          <5>1. c = Cached(stamp[g], file[g])
            BY <3>2, <4>1, <4>3 DEF Dated, CacheTrue
          <5> QED
            BY <4>1, <5>1 DEF Cached
        <4> QED
          BY <4>2, <4>3
      <3>4. Heard(g)
        BY <3>2, <3>3 DEF Heard
      <3> QED
        BY <1>1, <1>5, <3>1, <3>4, HeardStays
    <2> QED
      BY <2>2, <2>3, <2>4 DEF SourceOf
  <1> QED
    BY <1>4, <1>5

LEMMA GetCalm ==
    ASSUME Inv, Calm, NEW g \in Guests, Get(g) PROVE Calm'
  <1>1. /\ UNCHANGED <<inv, hw, up, calm, file, stamp, blurred>> /\ pc = "get" /\ pc' = "docs"
        /\ todo' = todo \ {g}
    BY DEF Get, Gets, world
  <1>2. SUFFICES ASSUME calm, up, NEW h \in Guests \ todo' PROVE Heard(h)'
    BY <1>1 DEF Calm, Progress
  <1>3. \A k \in Guests : docs'[k] = IF k = g THEN {Cached(saw, file[g])} ELSE docs[k]
    BY <1>2 DEF Get, Gets, Inv, DocsOK
  <1>4. CASE h # g
    <2>1. Heard(h)
      BY <1>1, <1>2, <1>4 DEF Calm, Progress
    <2> QED
      BY <1>1, <1>3, <1>4, <2>1, HeardStays
  <1>5. CASE h = g
    <2>1. file[g] # Bad => Cached(saw, file[g]).read = "ok" /\ Cached(saw, file[g]).want = file[g]
      BY DEF Cached
    <2> QED
      BY <1>1, <1>3, <1>5, <2>1 DEF Heard, Judged
  <1> QED
    BY <1>4, <1>5

LEMMA DocumentsCalm ==
    ASSUME Inv, Calm, DocumentsDone PROVE Calm'
  <1>1. UNCHANGED <<inv, hw, up, calm, file, blurred, docs, applied>> /\ pc = "docs" /\ todo = {}
    BY DEF DocumentsDone, Settle, world
  <1>2. SUFFICES ASSUME calm, up PROVE Progress'
    BY <1>1 DEF Calm
  <1>3. inv = {hw} /\ \A g \in Guests : Heard(g)
    BY <1>1, <1>2 DEF Calm, Progress
  <1>4. CASE hw.driver
    <2>1. pc' = "guests" /\ todo' = Reconcilable /\ known' = majors /\ majors' = majors
      BY <1>1, <1>3, <1>4 DEF DocumentsDone, Settle, applied
    <2>2. ASSUME NEW g \in Guests PROVE Heard(g)' /\ (g \notin todo' => Good(g)')
      <3>1. Heard(g) /\ Heard(g)'
        BY <1>1, <1>3, HeardStays
      <3>2. ASSUME g \notin todo' PROVE ~Judged(g)'
        BY <2>1, <3>1, <3>2, <1>1, HeardStays DEF Heard, Reconcilable
      <3> QED
        BY <3>1, <3>2 DEF Good
    <2> QED
      BY <2>1, <2>2 DEF Progress
  <1>5. CASE ~hw.driver
    <2>1. pc' = "sleep"
      BY <1>3, <1>5 DEF DocumentsDone, Settle, End
    <2>2. \A g \in Guests : Settled(g)'
      BY <1>1, <1>5 DEF Settled, Outcome
    <2> QED
      BY <2>1, <2>2 DEF Progress, Good
  <1> QED
    BY <1>4, <1>5

\* The plan by what was heard of a guest settles it.
LEMMA PlannedGuest ==
    ASSUME Inv, DOMAIN conf = Guests, NEW g \in Guests, Guest(g), inv = {hw}, Heard(g),
           Elements(majors') \subseteq Elements(known) \cup hw.uvm
    PROVE  Good(g)'
  <1>1. UNCHANGED <<hw, file, blurred, docs>>
    BY DEF Guest, world
  <1>2. SUFFICES ASSUME Judged(g) PROVE Settled(g)'
    BY <1>1, HeardStays DEF Good
  <1>3. PICK c \in docs[g] : docs[g] = {c} /\ c.want = file[g]
    BY <1>2 DEF Heard
  <1> DEFINE stock == CHOOSE h \in inv : TRUE
             list == Elements(known)
             less == Elements(majors')
             plan == PlanFor(g)
             planned == plan.kind = "Plan" /\ ~Locked(conf[g])
  <1>4. stock = hw /\ UNION {d.want : d \in docs[g]} = file[g]
    BY <1>3
  <1>5. plan = Outcome(conf[g], file[g], hw, list, g \in record)
    <2> HIDE DEF stock
    <2>1. plan = Outcome(conf[g], UNION {d.want : d \in docs[g]}, stock, list, g \in record)
      BY DEF PlanFor, stock
    <2> QED
      BY <1>4, <2>1, Zenon
  <1>6. /\ conf'[g] = IF planned THEN Splice(conf[g], plan.desired, plan.owned) ELSE conf[g]
        /\ planned => (g \in record' <=> plan.desired # {})
        /\ ~planned => record' = record
    BY DEF Guest, Inv, LoopOK
  <1> DEFINE again == Outcome(conf'[g], file[g], hw, less, g \in record')
  <1>7. SUFFICES ASSUME again.kind = "Plan", ~Locked(conf'[g])
                 PROVE  ~Changed(again) /\ (g \in record' <=> again.desired # {})
    BY <1>1 DEF Settled
  <1>8. planned
    <2> HIDE DEF plan
    <2> SUFFICES ASSUME ~planned PROVE FALSE
      OBVIOUS
    <2>1. conf'[g] = conf[g] /\ record' = record
      BY <1>6
    <2>2. again.kind = Outcome(conf[g], file[g], hw, list, g \in record).kind
      <3>1. again = Outcome(conf[g], file[g], hw, less, g \in record)
        BY <2>1, Zenon
      <3> HIDE DEF again
      <3> QED
        BY <3>1 DEF Outcome
    <2> HIDE DEF again
    <2>3. again.kind = plan.kind
      BY <1>5, <2>2, Zenon
    <2> QED
      BY <1>7, <2>1, <2>3
  <1>9. ~Changed(again) /\ again.desired = plan.desired
    <2>1. Wildcard \notin hw.uvm
      BY DaemonAssumption DEF Inv, WorldOK
    <2>2. again = Outcome(Splice(conf[g], plan.desired, plan.owned), file[g], hw, less, g \in record')
      <3>1. conf'[g] = Splice(conf[g], plan.desired, plan.owned)
        BY <1>6, <1>8
      <3> HIDE DEF plan
      <3> QED
        BY <3>1, Zenon
    <2> HIDE DEF again, plan
    <2>3. plan.kind = "Plan" /\ again.kind = "Plan"
      BY <1>7, <1>8
    <2> DEFINE had == g \in record
               has == g \in record'
    <2>4. /\ plan = Outcome(conf[g], file[g], hw, list, had)
          /\ again = Outcome(Splice(conf[g], plan.desired, plan.owned), file[g], hw, less, has)
      BY <1>5, <2>2, Zenon
    <2>5. less \subseteq list \cup hw.uvm
      OBVIOUS
    <2> HIDE DEF had, has, list, less
    <2>6. Repeats(conf[g], file[g], hw, list, had, less, has)
      BY <2>1, <2>5, PlanSettles
    <2> QED
      BY <2>3, <2>4, <2>6, Zenon DEF Repeats
  <1> QED
    BY <1>6, <1>8, <1>9

LEMMA GuestCalm ==
    ASSUME Inv, DOMAIN conf = Guests, Calm, NEW g \in Guests, Guest(g) PROVE Calm'
  <1>1. /\ UNCHANGED <<inv, hw, up, calm, file, blurred, docs>> /\ pc = "guests" /\ pc' = "guests"
        /\ todo' = todo \ {g}
    BY DEF Guest, world
  <1>2. SUFFICES ASSUME calm, up, NEW h \in Guests
                 PROVE  /\ Heard(h)' /\ (h \notin todo' => Good(h)')
                        /\ majors' = known' \/ majors' = Noted(known', known', hw'.uvm)
    BY <1>1 DEF Calm, Progress
  <1>3. inv = {hw} /\ Heard(h) /\ Heard(h)'
    BY <1>1, <1>2, HeardStays DEF Calm, Progress
  <1>4. /\ majors' = known \/ majors' = Noted(known, known, hw.uvm)
        /\ Elements(majors') \subseteq Elements(known) \cup hw.uvm
        /\ Elements(majors') \subseteq Elements(majors) \cup hw.uvm
    <2>1. UNION {stock.uvm : stock \in inv} = hw.uvm
      BY <1>3
    <2>2. majors' = majors \/ majors' = Noted(majors, known, hw.uvm)
      BY <2>1 DEF Guest
    <2>3. majors = known \/ majors = Noted(known, known, hw.uvm)
      BY <1>1, <1>2 DEF Calm, Progress
    <2> QED
      BY <1>3, <2>2, <2>3, ListStays
  <1>5. known' = known
    BY DEF Guest
  <1>6. CASE h # g
    <2>1. conf'[h] = conf[h] /\ (h \in record' <=> h \in record)
      BY <1>6 DEF Guest
    <2>2. h \notin todo' => Good(h)
      BY <1>1, <1>2, <1>6 DEF Calm, Progress
    <2>3. hw \in Hardware
      BY DEF Inv, WorldOK
    <2> QED
      BY <1>1, <1>3, <1>4, <1>5, <2>1, <2>2, <2>3, GoodStays
  <1>7. CASE h = g
    BY <1>1, <1>3, <1>7, <1>4, <1>5, PlannedGuest
  <1> QED
    BY <1>6, <1>7

LEMMA GuestsCalm ==
    ASSUME Inv, Calm, GuestsDone PROVE Calm'
  <1>1. /\ UNCHANGED <<inv, hw, up, file, blurred, docs, conf, record, majors>> /\ pc = "guests"
        /\ pc' = "sleep" /\ (calm' => calm /\ todo = {})
    BY DEF GuestsDone, End, world, applied
  <1>2. SUFFICES ASSUME calm', up, NEW g \in Guests PROVE Good(g)'
    BY <1>1 DEF Calm, Progress
  <1>3. Good(g)
    BY <1>1, <1>2 DEF Calm, Progress
  <1>4. hw \in Hardware
    BY DEF Inv, WorldOK
  <1> QED
    BY <1>1, <1>3, <1>4, GoodStays

\* A poll begins, time passes: nothing that was settled is touched.
LEMMA QuietCalm ==
    ASSUME Inv, Calm, UNCHANGED <<world, applied, pc, todo, inv, known, docs, blurred, calm>>
    PROVE  Calm'
  <1> USE DEF world, applied
  <1>1. SUFFICES ASSUME calm, up PROVE Progress'
    BY DEF Calm
  <1>2. Progress
    BY <1>1 DEF Calm
  <1>3. \A g \in Guests : (Heard(g)' <=> Heard(g)) /\ (Good(g) => Good(g)')
    <2>1. hw \in Hardware
      BY DEF Inv, WorldOK
    <2> QED
      BY <2>1, HeardStays, GoodStays
  <1> QED
    BY <1>2, <1>3 DEF Progress

LEMMA BeginCalm == Calm /\ (TakeInventory \/ ReadVmlist) => Calm'
  BY DEF Calm, Progress, TakeInventory, Polls, ReadVmlist, world, history

LEMMA StepCalm == Inv /\ DOMAIN conf = Guests /\ Dated /\ Calm /\ [Next]_vars => Calm'
  <1> SUFFICES ASSUME Inv, DOMAIN conf = Guests, Dated, Calm, [Next]_vars PROVE Calm'
    OBVIOUS
  <1>1. CASE UNCHANGED vars
    BY <1>1, QuietCalm DEF vars, loop, history
  <1>2. CASE BudgetSpent \/ FullDue
    BY <1>2, QuietCalm DEF BudgetSpent, FullDue, history
  <1>3. CASE calm' = FALSE
    BY <1>3 DEF Calm
  <1>4. ASSUME NEW g \in Guests, Stat(g) \/ Get(g) \/ Guest(g) PROVE Calm'
    BY <1>4, StatCalm, GetCalm, GuestCalm
  <1>5. ASSUME InventoryFails \/ RecallFails \/ HardwareChanges \/ StoreTurns PROVE calm' = FALSE
    BY <1>5 DEF InventoryFails, Polls, RecallFails, HardwareChanges, StoreTurns, Shakes
  <1>6. ASSUME NEW g \in Guests,
               \/ SkipDocument(g) \/ StatFails(g) \/ GetFails(g) \/ GuestFails(g)
               \/ Document(g) \/ PveLocks(g)
        PROVE  calm' = FALSE
    BY <1>6 DEF SkipDocument, StatFails, GetFails, GuestFails, Document, PveLocks, Shakes
  <1> QED
    BY <1>1, <1>2, <1>3, <1>4, <1>5, <1>6, BeginCalm, DocumentsCalm, GuestsCalm DEF Next, Tick

LEMMA SameGuests == [Next]_vars => DOMAIN conf' = DOMAIN conf
  <1> SUFFICES ASSUME [Next]_vars PROVE DOMAIN conf' = DOMAIN conf
    OBVIOUS
  <1> USE DEF applied
  <1>1. CASE UNCHANGED vars
    BY <1>1 DEF vars
  <1>2. CASE TakeInventory \/ ReadVmlist \/ DocumentsDone \/ GuestsDone \/ BudgetSpent \/ FullDue
    BY <1>2 DEF TakeInventory, Polls, ReadVmlist, DocumentsDone, Settle, GuestsDone, BudgetSpent,
       FullDue
  <1>3. CASE InventoryFails \/ RecallFails \/ HardwareChanges \/ StoreTurns
    BY <1>3 DEF InventoryFails, Polls, RecallFails, Settle, HardwareChanges, StoreTurns
  <1>4. ASSUME NEW g \in Guests,
               \/ SkipDocument(g) \/ Stat(g) \/ Get(g) \/ StatFails(g) \/ GetFails(g) \/ GuestFails(g)
               \/ Document(g)
        PROVE  conf' = conf
    BY <1>4 DEF SkipDocument, Stat, StatFails, Stats, Get, GetFails, Gets, GuestFails, Document
  <1>5. ASSUME NEW g \in Guests, Guest(g) \/ PveLocks(g) PROVE DOMAIN conf' = DOMAIN conf
    BY <1>5 DEF Guest, PveLocks
  <1> QED
    BY <1>1, <1>2, <1>3, <1>4, <1>5 DEF Next, Tick

\* One poll in which nothing moves or fails is enough, whatever happened
\* before it, for any number of guests, any hardware and any documents: every
\* guest whose document was read is as the document and the hardware have it
\* (daemon.rs, Daemon::tick and source_of: a stamp stands for a document).
THEOREM OnePollIsEnough == Spec => []APollSettles
  <1> DEFINE All == Inv /\ DOMAIN conf = Guests /\ Dated /\ Calm
  <1>1. Init => DOMAIN conf = Guests
    BY DEF Init
  <1>2. All /\ [Next]_vars => (DOMAIN conf = Guests)'
    BY SameGuests
  <1>3. Spec => [](DOMAIN conf = Guests /\ Dated /\ Calm)
    BY <1>1, <1>2, InitSettling, StepDated, StepCalm, Invariance, PTL DEF Spec
  <1>4. Calm => APollSettles
    BY DEF Calm, Progress, Good, Judged, APollSettles
  <1> QED
    BY <1>3, <1>4, PTL

=============================================================================
