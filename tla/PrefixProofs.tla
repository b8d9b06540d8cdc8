---------------------------- MODULE PrefixProofs ----------------------------
(***************************************************************************)
(* What TLAPS proves about module PrefixSync for any number of nodes and   *)
(* cards, and commands at any of the nodes.                                *)
(***************************************************************************)
EXTENDS PrefixSync, TLAPS

AnyRows == SUBSET (Cards \cup {Stray})
Readings == [driver : BOOLEAN, gpus : SUBSET Cards]

\* A publisher's inventory is one a node can have; entries and losses are rows.
Typed ==
    /\ driver \in [Nodes -> BOOLEAN] /\ gpus \in [Nodes -> SUBSET Cards]
    /\ inv \in [Publishers -> SUBSET Readings]
    /\ pc \in [Publishers -> {"idle", "polled", "asked"}]
    /\ entry \in [Nodes -> SUBSET AnyRows] /\ left \in [Nodes -> AnyRows]

\* What a publisher may still write is of cards its node has or had.
OwnReadings ==
    \A p \in Publishers : \A s \in inv[p] : s.gpus \subseteq gpus[p.of] \cup left[p.of]

PInv == Typed /\ OwnReadings /\ RowsOfOwnCards

LEMMA PublisherAtNode ==
    /\ \A p \in Publishers : p.of \in Nodes
    /\ \A n \in Nodes : Daemon(n) \in Publishers /\ Daemon(n).of = n /\ Daemon(n).by = "daemon"
    /\ \A n \in Commands : Command(n) \in Publishers /\ Command(n).of = n /\ n \in Nodes
  <1>1. Commands \subseteq Nodes
    BY PrefixAssumption
  <1>2. ASSUME NEW p \in Publishers PROVE p.of \in Nodes
    <2>1. (\E n \in Nodes : p = Daemon(n)) \/ (\E n \in Commands : p = Command(n))
      BY DEF Publishers
    <2> QED
      BY <1>1, <2>1 DEF Daemon, Command
  <1>3. ASSUME NEW n \in Nodes
        PROVE  Daemon(n) \in Publishers /\ Daemon(n).of = n /\ Daemon(n).by = "daemon"
    BY DEF Publishers, Daemon
  <1>4. ASSUME NEW n \in Commands
        PROVE  Command(n) \in Publishers /\ Command(n).of = n /\ n \in Nodes
    BY <1>1 DEF Publishers, Command
  <1> QED
    BY <1>2, <1>3, <1>4

LEMMA InitPrefix == Init => PInv
  BY DEF Init, PInv, Typed, OwnReadings, RowsOfOwnCards, NoEntries, AnyRows

-----------------------------------------------------------------------------
\* What a step of a publisher may touch: its own inventory, which stays or
\* becomes that of its node now, and entries, in a Sync.
LEMMA PolledKeeps ==
    ASSUME PInv, NEW p \in Publishers, NEW stock \in {{Stock(p.of)}, inv[p]}, Polled(p, stock)
    PROVE  PInv'
  <1>1. /\ UNCHANGED <<driver, gpus, entry, left>>
        /\ inv' = [inv EXCEPT ![p] = stock] /\ pc' = [pc EXCEPT ![p] = "polled"]
    BY DEF Polled, hardware
  <1>2. p.of \in Nodes /\ Stock(p.of) \in Readings /\ Stock(p.of).gpus = gpus[p.of]
    BY PublisherAtNode DEF PInv, Typed, Stock, Readings
  <1>3. stock \in SUBSET Readings /\ \A s \in stock : s.gpus \subseteq gpus[p.of] \cup left[p.of]
    BY <1>2 DEF PInv, Typed, OwnReadings
  <1>4. inv' \in [Publishers -> SUBSET Readings] /\ pc' \in [Publishers -> {"idle", "polled", "asked"}]
    BY <1>1, <1>3 DEF PInv, Typed
  <1>5. OwnReadings'
    BY <1>1, <1>3 DEF PInv, Typed, OwnReadings
  <1> QED
    BY <1>1, <1>4, <1>5 DEF PInv, Typed, RowsOfOwnCards

\* A publisher that has its answer keeps its inventory or drops it.
LEMMA AnsweredKeeps ==
    ASSUME PInv, NEW p \in Publishers, Answered(p), UNCHANGED left,
           entry' \in [Nodes -> SUBSET AnyRows],
           \A n \in Nodes : UNION entry'[n] \subseteq gpus[n] \cup left[n]
    PROVE  PInv'
  <1>1. /\ UNCHANGED <<driver, gpus>> /\ pc' = [pc EXCEPT ![p] = "idle"]
        /\ inv' = inv \/ inv' = [inv EXCEPT ![p] = {}]
    BY DEF Answered, hardware
  <1>2. inv' \in [Publishers -> SUBSET Readings] /\ OwnReadings'
    BY <1>1 DEF PInv, Typed, OwnReadings
  <1> QED
    BY <1>1, <1>2 DEF PInv, Typed, RowsOfOwnCards

\* What a Sync makes of the file: nothing, or the entry of its node, of which
\* the rows were there or are of the reading; other entries stay or go.
LEMMA Synced ==
    ASSUME PInv, NEW p \in Publishers, NEW stock \in inv[p],
           \/ entry' = entry
           \/ entry' = Bootstrapped(p.of, Rows(stock))
           \/ entry' = Merged(p.of, Rows(stock))
           \/ entry' = Removed(p.of)
    PROVE  /\ entry' \in [Nodes -> SUBSET AnyRows]
           /\ \A n \in Nodes : UNION entry'[n] \subseteq gpus[n] \cup left[n]
  <1>1. p.of \in Nodes /\ stock.gpus \subseteq Cards /\ stock.gpus \subseteq gpus[p.of] \cup left[p.of]
    BY PublisherAtNode DEF PInv, Typed, Readings, OwnReadings
  <1>2. CASE entry' = entry
    BY <1>2 DEF PInv, Typed, RowsOfOwnCards
  <1>3. CASE entry' = Bootstrapped(p.of, Rows(stock))
    BY <1>1, <1>3 DEF Bootstrapped, Rows, NoEntries, AnyRows
  <1>4. CASE entry' = Merged(p.of, Rows(stock))
    <2>1. (UNION entry[p.of]) \subseteq Cards \cup {Stray}
      BY <1>1 DEF PInv, Typed, AnyRows
    <2>2. (UNION entry[p.of]) \subseteq gpus[p.of] \cup left[p.of]
      BY <1>1 DEF PInv, RowsOfOwnCards
    <2> DEFINE merged == stock.gpus \cup UNION entry[p.of]
    <2>3. entry' = [entry EXCEPT ![p.of] = {merged}]
      BY <1>4 DEF Merged, MergeRows, Rows
    <2>4. merged \in AnyRows /\ merged \subseteq gpus[p.of] \cup left[p.of]
      BY <1>1, <2>1, <2>2 DEF AnyRows
    <2> HIDE DEF merged
    <2> QED
      BY <1>1, <2>3, <2>4 DEF PInv, Typed, RowsOfOwnCards
  <1>5. CASE entry' = Removed(p.of)
    BY <1>1, <1>5 DEF Removed, PInv, Typed, RowsOfOwnCards
  <1> QED
    BY <1>2, <1>3, <1>4, <1>5

LEMMA SyncKeeps ==
    ASSUME PInv, NEW p \in Publishers, Sync(p) PROVE PInv'
  <1>1. PICK stock \in inv[p] :
           \/ entry' = entry
           \/ entry' = Bootstrapped(p.of, Rows(stock))
           \/ entry' = Merged(p.of, Rows(stock))
           \/ entry' = Removed(p.of)
    BY DEF Sync
  <1> QED
    BY <1>1, Synced, AnsweredKeeps DEF Sync

LEMMA PublisherKeeps ==
    ASSUME PInv, NEW p \in Publishers, Works(p) \/ Fails(p) PROVE PInv'
  <1>1. \A n \in Nodes : UNION entry[n] \subseteq gpus[n] \cup left[n]
    BY DEF PInv, RowsOfOwnCards
  <1>2. entry \in [Nodes -> SUBSET AnyRows]
    BY DEF PInv, Typed
  <1>3. CASE Answered(p) /\ UNCHANGED <<entry, left>>
    BY <1>1, <1>2, <1>3, AnsweredKeeps
  <1>4. CASE Publish(p) /\ ~Answered(p)
    <2>1. UNCHANGED <<driver, gpus, inv, entry, left>> /\ pc' = [pc EXCEPT ![p] = "asked"]
      BY <1>4 DEF Publish, hardware
    <2> QED
      BY <2>1 DEF PInv, Typed, OwnReadings, RowsOfOwnCards
  <1>5. CASE Sync(p)
    BY <1>5, SyncKeeps
  <1> QED
    BY <1>3, <1>4, <1>5 DEF Works, Publish, GoneMeanwhile, Fails

\* A card that goes is remembered; so is a row added by hand.
LEMMA WorldKeeps ==
    ASSUME PInv, FileDeleted \/ \E n \in Nodes : Hardware(n) \/ HandEdit(n) PROVE PInv'
  <1>1. CASE FileDeleted
    BY <1>1 DEF FileDeleted, hardware, PInv, Typed, OwnReadings, RowsOfOwnCards, NoEntries, AnyRows
  <1>2. ASSUME NEW n \in Nodes, Hardware(n) PROVE PInv'
    <2>1. /\ UNCHANGED <<inv, pc, entry>> /\ left' = [left EXCEPT ![n] = @ \cup gpus[n]]
          /\ driver' \in [Nodes -> BOOLEAN]
          /\ \E g \in SUBSET Cards : gpus' = [gpus EXCEPT ![n] = g]
      BY <1>2 DEF Hardware, PInv, Typed
    <2>2. gpus' \in [Nodes -> SUBSET Cards]
      BY <2>1 DEF PInv, Typed
    <2>3. left' \in [Nodes -> AnyRows]
      <3>1. left[n] \cup gpus[n] \in AnyRows
        BY DEF PInv, Typed, AnyRows
      <3> QED
        BY <2>1, <3>1 DEF PInv, Typed
    <2>4. \A m \in Nodes : gpus[m] \cup left[m] \subseteq gpus'[m] \cup left'[m]
      BY <2>1 DEF PInv, Typed
    <2>5. OwnReadings'
      <3> SUFFICES ASSUME NEW p \in Publishers, NEW s \in inv[p]
                   PROVE  s.gpus \subseteq gpus'[p.of] \cup left'[p.of]
        BY <2>1 DEF OwnReadings
      <3> QED
        BY <2>4, PublisherAtNode DEF PInv, OwnReadings
    <2>6. RowsOfOwnCards'
      <3> SUFFICES ASSUME NEW m \in Nodes
                   PROVE  UNION entry[m] \subseteq gpus'[m] \cup left'[m]
        BY <2>1 DEF RowsOfOwnCards
      <3> QED
        BY <2>4 DEF PInv, RowsOfOwnCards
    <2> QED
      BY <2>1, <2>2, <2>3, <2>5, <2>6 DEF PInv, Typed
  <1>3. ASSUME NEW n \in Nodes, HandEdit(n) PROVE PInv'
    <2>1. PICK rows \in {{}, {{}}, MergeRows(entry[n], {Stray})} :
             /\ entry' = [entry EXCEPT ![n] = rows]
             /\ left' = [left EXCEPT ![n] = @ \cup UNION rows]
      BY <1>3 DEF HandEdit
    <2>2. UNCHANGED <<driver, gpus, inv, pc>>
      BY <1>3 DEF HandEdit, hardware
    <2>3. rows \in SUBSET AnyRows
      <3>1. UNION entry[n] \subseteq Cards \cup {Stray}
        BY DEF PInv, Typed, AnyRows
      <3> QED
        BY <3>1 DEF MergeRows, AnyRows
    <2>4. left[n] \cup UNION rows \in AnyRows
      BY <2>3 DEF PInv, Typed, AnyRows
    <2>5. entry' \in [Nodes -> SUBSET AnyRows] /\ left' \in [Nodes -> AnyRows]
      BY <2>1, <2>3, <2>4 DEF PInv, Typed
    <2>6. \A m \in Nodes : left[m] \subseteq left'[m]
      BY <2>1 DEF PInv, Typed
    <2>7. OwnReadings'
      BY <2>2, <2>6, PublisherAtNode DEF PInv, OwnReadings
    <2>8. RowsOfOwnCards'
      <3>1. \A m \in Nodes \ {n} : entry'[m] = entry[m]
        BY <2>1 DEF PInv, Typed
      <3>2. UNION entry'[n] \subseteq left'[n]
        BY <2>1 DEF PInv, Typed
      <3> QED
        BY <2>2, <2>6, <3>1, <3>2 DEF PInv, RowsOfOwnCards
    <2> QED
      BY <2>2, <2>5, <2>7, <2>8 DEF PInv, Typed
  <1> QED
    BY <1>1, <1>2, <1>3

LEMMA StepPrefix == PInv /\ [Next]_vars => PInv'
  <1> SUFFICES ASSUME PInv, [Next]_vars PROVE PInv'
    OBVIOUS
  <1>1. ASSUME NEW n \in Nodes, TakeInventory(n) \/ InventoryFails(n) PROVE PInv'
    BY <1>1, PublisherAtNode, PolledKeeps DEF TakeInventory, InventoryFails
  <1>2. ASSUME NEW n \in Commands, TypesInventory(n) PROVE PInv'
    BY <1>2, PublisherAtNode, PolledKeeps DEF TypesInventory
  <1>3. ASSUME NEW p \in Publishers, Works(p) \/ Fails(p) PROVE PInv'
    BY <1>3, PublisherKeeps
  <1>4. CASE FileDeleted \/ \E n \in Nodes : Hardware(n) \/ HandEdit(n)
    BY <1>4, WorldKeeps
  <1>5. CASE UNCHANGED vars
    BY <1>5 DEF vars, hardware, PInv, Typed, OwnReadings, RowsOfOwnCards
  <1> QED
    BY <1>1, <1>2, <1>3, <1>4, <1>5, PublisherAtNode DEF Next, DaemonWorks

LEMMA Invariance == Spec => []PInv
  BY InitPrefix, StepPrefix, PTL DEF Spec

\* However many nodes and commands publish to the one file, with readings as
\* old as they like, between hand edits, deletions and failures, no card gets
\* into the entry of a node that never had it (prefix.rs, node_schema and sync).
THEOREM NoStrangersCards == Spec => []RowsOfOwnCards
  <1>1. PInv => RowsOfOwnCards
    BY DEF PInv
  <1> QED
    BY <1>1, Invariance, PTL

-----------------------------------------------------------------------------
\* An entry is taken out only by a RemoveEntry, and that is decided only with
\* a driver and no card.
LEMMA RemovedWithDriver ==
    ASSUME PInv, [Next]_vars, NEW p \in Publishers,
           pc[p] = "asked", pc'[p] = "idle", entry[p.of] # {}
    PROVE  entry'[p.of] # {} \/ \E s \in inv[p] : s.driver /\ s.gpus = {}
  <1>1. CASE Sync(p)
    <2>1. PICK stock \in inv[p] :
             LET step == Decide(p.of, stock, seen[p])
             IN \/ step \in {"Keep", "Absent", "Unchanged"} /\ entry' = entry
                \/ step = "Bootstrap" /\ entry' = Bootstrapped(p.of, Rows(stock))
                \/ step = "Merge" /\ entry' = Merged(p.of, Rows(stock))
                \/ step = "RemoveEntry" /\ entry' = Removed(p.of)
      BY <1>1 DEF Sync
    <2>2. p.of \in Nodes /\ entry \in [Nodes -> SUBSET AnyRows] /\ stock.driver \in BOOLEAN
      BY PublisherAtNode DEF PInv, Typed, Readings
    <2>3. CASE entry' = Bootstrapped(p.of, Rows(stock))
      BY <2>2, <2>3 DEF Bootstrapped, NoEntries
    <2>4. CASE entry' = Merged(p.of, Rows(stock))
      BY <2>2, <2>4 DEF Merged, MergeRows
    <2>5. CASE Decide(p.of, stock, seen[p]) = "RemoveEntry"
      BY <2>2, <2>5 DEF Decide, Kept
    <2> QED
      BY <2>1, <2>3, <2>4, <2>5
  <1>2. CASE ~Sync(p)
    <2>1. ASSUME NEW q \in Publishers, pc'[p] # pc[p], Works(q) \/ Fails(q) PROVE q = p
      BY <2>1 DEF Works, Fails, Publish, Sync, GoneMeanwhile, Answered, PInv, Typed
    <2>2. ASSUME NEW q \in Publishers, NEW stock, Polled(q, stock) PROVE q # p /\ pc'[p] = pc[p]
      BY <2>2 DEF Polled, PInv, Typed
    <2>3. CASE Works(p) \/ Fails(p)
      BY <1>2, <2>3 DEF Works, Fails, Publish, GoneMeanwhile, Answered
    <2> QED
      BY <2>1, <2>2, <2>3, PublisherAtNode DEF Next, DaemonWorks, TakeInventory, InventoryFails,
         TypesInventory, Hardware, HandEdit, FileDeleted, vars
  <1> QED
    BY <1>1, <1>2

\* No driver upgrade, and no reading that was old when it was written, takes a
\* node's rows away: an entry that goes by its node's own hand goes from a node
\* that had its driver and no card (prefix.rs, decide).
THEOREM UpgradesHarmless == Spec => RowsSurviveUpgrades
  <1> DEFINE A == \A p \in Publishers : pc[p] = "asked" /\ pc'[p] = "idle" /\ entry[p.of] # {} =>
                    entry'[p.of] # {} \/ \E s \in inv[p] : s.driver /\ s.gpus = {}
  <1>1. PInv /\ [Next]_vars => [A]_vars
    BY RemovedWithDriver
  <1>2. Spec => [][A]_vars
    BY <1>1, Invariance, PTL DEF Spec
  <1> QED
    BY <1>2 DEF RowsSurviveUpgrades
=============================================================================
