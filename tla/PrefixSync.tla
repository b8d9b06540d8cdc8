----------------------------- MODULE PrefixSync -----------------------------
(***************************************************************************)
(* The cluster file `prefixes/gpu`, to which every node's daemon publishes *)
(* its own entry: one row per card of the node (prefix.rs, and publish of  *)
(* ops/daemon.rs), and so does `pve-meta-nvidia inventory` when somebody   *)
(* types it (ops/inventory.rs).  The store is pve-meta's: `get`, `set` and *)
(* `merge` are one atomic step each, and others work between them.         *)
(*                                                                         *)
(* An entry is {} when there is none, or {rows}, the set of its rows.      *)
(***************************************************************************)
EXTENDS Naturals, FiniteSets

CONSTANTS
    Nodes,
    Commands,    \* nodes at which somebody may type `inventory`
    Cards,       \* rows, by the card they are for
    Stray,       \* a row for no card, which a person may add by hand
    MaxMoves     \* bound: hardware changes, hand edits, failures

ASSUME PrefixAssumption ==
    MaxMoves \in Nat /\ Stray \notin Cards /\ Commands \subseteq Nodes

VARIABLES
    driver, gpus,     \* per node, the hardware
    inv,              \* per publisher, the inventory it has: {} or {it}
    pc, seen,         \* per publisher, where it is and what `get` gave it
    file,             \* whether the cluster file is there
    entry,            \* per node, its entry
    left,             \* history: per node, cards it has lost and rows added by hand
    moves

hardware == <<driver, gpus>>
vars == <<hardware, inv, pc, seen, file, entry, left, moves>>

\* A node's daemon, and a command at a node.
Daemon(n) == [of |-> n, by |-> "daemon"]
Command(n) == [of |-> n, by |-> "command"]
Publishers == {Daemon(n) : n \in Nodes} \cup {Command(n) : n \in Commands}

Stock(n) == [driver |-> driver[n], gpus |-> gpus[n]]
NoEntries == [n \in Nodes |-> {}]

Init ==
    /\ driver = [n \in Nodes |-> TRUE]
    /\ gpus \in [Nodes -> SUBSET Cards]
    /\ inv = [p \in Publishers |-> {}]
    /\ pc = [p \in Publishers |-> "idle"]
    /\ seen = [p \in Publishers |-> {}]
    /\ file = FALSE /\ entry = NoEntries
    /\ left = NoEntries
    /\ moves = 0

-----------------------------------------------------------------------------
\* What the store does (external): merging rows into an entry adds and
\* replaces rows, and takes none away.
MergeRows(old, rows) == {rows \cup UNION old}

\* The entry of a node (node_schema): a row per card, whatever else it says.
Rows(stock) == stock.gpus

\* The file a bootstrap sets whole: this node's entry and no other.
Bootstrapped(n, rows) == [NoEntries EXCEPT ![n] = {rows}]

\* What a merge of this node's entry, or of its removal, makes of the file.
\* Mutant: the rows are merged into the entry of every node.
MergedEverywhere(n, rows) == [m \in Nodes |-> MergeRows(entry[m], rows)]

Merged(n, rows) == [entry EXCEPT ![n] = MergeRows(@, rows)]
Removed(n) == [entry EXCEPT ![n] = {}]

\* A node without its driver keeps the entry it has.
\* Mutant: cards are cards, driver or not.
KeptNever(stock) == FALSE

Kept(stock) == stock.gpus = {} /\ ~stock.driver

\* The decision (prefix.rs, decide), from the inventory and what `get` gave:
\* {} when there is no file, else {the entry of every node}.
\* Mutant: an entry is looked for and not compared.
DecideByName(n, stock, cluster) ==
    IF stock.gpus = {}
    THEN IF Kept(stock) THEN "Keep"
         ELSE IF \E c \in cluster : c[n] # {} THEN "RemoveEntry" ELSE "Absent"
    ELSE IF cluster = {} THEN "Bootstrap"
    ELSE IF \E c \in cluster : c[n] # {} THEN "Unchanged" ELSE "Merge"

Decide(n, stock, cluster) ==
    IF stock.gpus = {}
    THEN IF Kept(stock) THEN "Keep"
         ELSE IF \E c \in cluster : c[n] # {} THEN "RemoveEntry" ELSE "Absent"
    ELSE IF cluster = {} THEN "Bootstrap"
    ELSE IF \E c \in cluster : c[n] = {Rows(stock)} THEN "Unchanged" ELSE "Merge"

-----------------------------------------------------------------------------
\* A poll of the daemon begins with the inventory; one that cannot be read
\* leaves the last good one.  Polls that find the inventory they published
\* last, and are not the slow pass, end there and are not shown.
Polled(p, stock) ==
    /\ pc[p] = "idle"
    /\ inv' = [inv EXCEPT ![p] = stock]
    /\ pc' = [pc EXCEPT ![p] = "polled"]
    /\ UNCHANGED <<hardware, seen, file, entry, left>>
TakeInventory(n) == Polled(Daemon(n), {Stock(n)}) /\ UNCHANGED moves

Answered(p) ==
    /\ pc' = [pc EXCEPT ![p] = "idle"]
    /\ seen' = [seen EXCEPT ![p] = {}]
    /\ inv' = IF p.by = "daemon" THEN inv ELSE [inv EXCEPT ![p] = {}]
    /\ UNCHANGED hardware

\* A node that could write nothing does not ask the store.
Publish(p) ==
    /\ pc[p] = "polled"
    /\ IF \E s \in inv[p] : ~Kept(s)
       THEN /\ seen' = [seen EXCEPT ![p] = IF file THEN {entry} ELSE {}]
            /\ pc' = [pc EXCEPT ![p] = "asked"]
            /\ UNCHANGED <<hardware, inv>>
       ELSE Answered(p)
    /\ UNCHANGED <<file, entry, left, moves>>

\* The rest of sync: the store is written as was decided from what it said.
Sync(p) ==
    /\ pc[p] = "asked"
    /\ \E stock \in inv[p] :
         LET step == Decide(p.of, stock, seen[p])
         IN \/ /\ step \in {"Keep", "Absent", "Unchanged"}
               /\ UNCHANGED <<file, entry>>
            \/ /\ step = "Bootstrap"
               /\ file' = TRUE
               /\ entry' = Bootstrapped(p.of, Rows(stock))
            \/ /\ step = "Merge"
               /\ file' = TRUE
               /\ entry' = Merged(p.of, Rows(stock))
            \/ /\ step = "RemoveEntry" /\ file
               /\ entry' = Removed(p.of)
               /\ UNCHANGED file
    /\ Answered(p)
    /\ UNCHANGED <<left, moves>>

Move == moves < MaxMoves /\ moves' = moves + 1

\* Somebody types `inventory`.  A reading that fails is all that happens.
TypesInventory(n) == Move /\ Polled(Command(n), {Stock(n)})

\* A call fails before it did anything.  One that is killed after it did all
\* is a Sync: the next poll asks again either way.
Fails(p) ==
    /\ Move
    /\ pc[p] = "asked"
    /\ Answered(p)
    /\ UNCHANGED <<file, entry, left>>

InventoryFails(n) == Move /\ Polled(Daemon(n), inv[Daemon(n)])

\* A merge that removes an entry of a file that is gone by now fails too.
GoneMeanwhile(p) ==
    /\ pc[p] = "asked" /\ ~file
    /\ \E stock \in inv[p] : Decide(p.of, stock, seen[p]) = "RemoveEntry"
    /\ Answered(p)
    /\ UNCHANGED <<file, entry, left, moves>>

-----------------------------------------------------------------------------
\* The world: cards, drivers, and people with an editor.

Hardware(n) ==
    /\ Move
    /\ \/ driver' = [driver EXCEPT ![n] = TRUE] /\ gpus' \in {[gpus EXCEPT ![n] = g] : g \in SUBSET Cards}
       \/ driver' = [driver EXCEPT ![n] = FALSE] /\ gpus' = [gpus EXCEPT ![n] = {}]
    /\ Stock(n)' # Stock(n)
    /\ left' = [left EXCEPT ![n] = @ \cup gpus[n]]
    /\ UNCHANGED <<inv, pc, seen, file, entry>>

HandEdit(n) ==
    /\ Move
    /\ file
    /\ \E rows \in {{}, {{}}, MergeRows(entry[n], {Stray})} :
          /\ entry' = [entry EXCEPT ![n] = rows]
          /\ left' = [left EXCEPT ![n] = @ \cup UNION rows]
    /\ UNCHANGED <<hardware, inv, pc, seen, file>>

FileDeleted ==
    /\ Move
    /\ file
    /\ file' = FALSE /\ entry' = NoEntries
    /\ UNCHANGED <<hardware, inv, pc, seen, left>>

Works(p) == Publish(p) \/ Sync(p) \/ GoneMeanwhile(p)
DaemonWorks(n) == TakeInventory(n) \/ Works(Daemon(n))
Next ==
    \/ \E n \in Nodes : DaemonWorks(n) \/ InventoryFails(n) \/ Hardware(n) \/ HandEdit(n)
    \/ \E n \in Commands : TypesInventory(n) \/ Works(Command(n))
    \/ \E p \in Publishers : Fails(p)
    \/ FileDeleted

Spec == Init /\ [][Next]_vars

\* The daemon polls for ever, and every five minutes a pass is a full one.
\* A command ends or hangs.
FairSpec ==
    /\ Spec
    /\ \A n \in Nodes : WF_vars(DaemonWorks(n))

-----------------------------------------------------------------------------
\* Taking a driver away takes no rows away: an entry that goes, by what a
\* publisher of its node does, goes from a node that had its driver and no
\* card, or in the bootstrap of a file that was not there (prefix.rs, decide).
RowsSurviveUpgrades ==
    [][\A p \in Publishers : pc[p] = "asked" /\ pc'[p] = "idle" /\ entry[p.of] # {} =>
          entry'[p.of] # {} \/ \E s \in inv[p] : s.driver /\ s.gpus = {}]_vars

\* A row of a node's entry is of a card the node has or had, or was added there
\* by hand: no node's publish, with however old a reading and whatever the store
\* said meanwhile, puts a card into the entry of a node that never had it.
RowsOfOwnCards ==
    \A n \in Nodes : UNION entry[n] \subseteq gpus[n] \cup left[n]

\* Once the world is quiet, every node with cards has an entry that offers
\* them all, whoever overwrote what on the way, with however old a reading,
\* and nothing else but rows that lost their card or were added by hand; a
\* node without cards has none.
EntriesFollow ==
    <>[](\A n \in Nodes : driver[n] =>
           IF gpus[n] = {} THEN entry[n] = {}
           ELSE \E rows \in entry[n] : gpus[n] \subseteq rows /\ rows \subseteq gpus[n] \cup left[n])

\* "A guest on this one is offered exactly this node's cards": once the world
\* is quiet.
ExactlyTheCards ==
    <>[](\A n \in Nodes : driver[n] /\ gpus[n] # {} => entry[n] = {gpus[n]})
=============================================================================
