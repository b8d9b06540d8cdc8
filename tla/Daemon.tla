------------------------------- MODULE Daemon -------------------------------
(***************************************************************************)
(* The daemon's loop (ops/daemon.rs): the inventory it keeps when a read   *)
(* fails, the documents it keeps by the stamp they were read at, the boot  *)
(* pass and its budget, and a store that comes and goes under it.          *)
(*                                                                         *)
(* What one guest's reconcile does to its config, the record and the list  *)
(* of nvidia-uvm majors is one step here; module Reconcile has its steps   *)
(* and its lock, and module PrefixSync the publish at the end of a poll.   *)
(***************************************************************************)
EXTENDS GpuLines, MajorList

CONSTANTS
    Guests,      \* container ids: numbers, in whose order the loops go
    Docs,        \* the `gpu` subtrees a document may have
    Bad,         \* a document that does not parse
    Hardware,    \* what /proc may say
    NewConfigs,  \* main sections a container may start with
    MaxMoves     \* bound: how often the world moves or something fails

\* nvidia-uvm has one major or, not being loaded, none; `*` is no number.
ASSUME DaemonAssumption ==
    /\ Guests \subseteq Nat
    /\ MaxMoves \in Nat
    /\ \A h \in Hardware : Wildcard \notin h.uvm /\ \A m, n \in h.uvm : m = n

VARIABLES
    hw,        \* the hardware, as /proc shows it
    up,        \* whether /etc/pve is mounted and pve-meta answers
    file,      \* per guest, what its document says: no key, a key, or Bad
    stamp,     \* per guest, its document's stamp; 0 when there is none
    conf,      \* per guest, the lines of the main section
    record,    \* /var/lib/pve-meta-nvidia/managed
    majors,    \* /var/lib/pve-meta-nvidia/uvm-major, newest first
    moves,     \* how often the world has moved
    pc, todo,  \* where the tick is, and the guests its loop has before it
    inv,       \* the last inventory that was read: none or one
    known,     \* what this poll's pass has read of the majors
    docs,      \* per guest, its document as last read: none or one
    saw,       \* the stamp the current guest's document was stat-ed at
    due, full, \* whether a full pass is due, and whether this is one
    ready,     \* whether systemd was told so; until then it is the boot pass
    spent,     \* whether the boot pass has used its budget
    calm,      \* history: since this poll began nothing moved, failed or ran out
    fresh,     \* history: this poll read the inventory
    asked,     \* history: guests whose document this poll asked for
    keyless,   \* history: guests that had no key at some time since a plan with one
    blurred    \* history: guests whose document changed under one stamp

world == <<hw, up, file, stamp>>
applied == <<conf, record, majors>>
loop == <<pc, todo, inv, known, docs, saw, due, full, ready, spent>>
history == <<calm, fresh, asked, keyless, blurred>>
vars == <<world, applied, moves, loop, history>>

Keys == {{}} \cup {{d} : d \in Docs}
NoFile == 0
Boot == ~ready
\* The guest whose turn it is in a loop.
Turn(g) == g \in todo /\ \A h \in todo : g <= h
Keyless == {g \in Guests : file[g] = {}}

\* What a read leaves in the cache: what it said, by the stamp before it.
Cached(at, answer) ==
    [stamp |-> at,
     read |-> IF answer = Bad THEN "bad" ELSE "ok",
     want |-> IF answer = Bad THEN {} ELSE answer]
Failed(at) == [stamp |-> at, read |-> "failed", want |-> {}]

Init ==
    /\ hw \in Hardware /\ up \in BOOLEAN
    /\ file \in [Guests -> Keys]
    /\ stamp = [g \in Guests |-> IF file[g] = {} THEN NoFile ELSE 1]
    /\ conf \in [Guests -> NewConfigs] /\ record = {} /\ majors = <<>>
    /\ moves = 0
    /\ pc = "sleep" /\ todo = {} /\ inv = {} /\ known = <<>>
    /\ docs = [g \in Guests |-> {}] /\ saw = NoFile
    /\ due = TRUE /\ full = FALSE /\ ready = FALSE /\ spent = FALSE
    /\ calm = FALSE /\ fresh = FALSE /\ asked = {}
    /\ keyless = Keyless /\ blurred = {}

-----------------------------------------------------------------------------
Move == moves < MaxMoves /\ moves' = moves + 1

\* The tick returns; after the first one systemd is told that it is ready.
End ==
    /\ pc' = "sleep" /\ todo' = {} /\ known' = <<>> /\ full' = FALSE
    /\ ready' = TRUE /\ spent' = FALSE
    /\ fresh' = FALSE /\ asked' = {}

\* take_inventory: a read that fails leaves the last good one.
\* Mutant: it leaves an empty one, a guess.
Polls(stock, read) ==
    /\ pc = "sleep"
    /\ inv' = stock
    /\ fresh' = read /\ calm' = read /\ asked' = {}
    /\ pc' = "list"
    /\ UNCHANGED <<world, applied, todo, known, docs, saw, due, full, ready, spent, keyless, blurred>>
TakeInventory == Polls({hw}, TRUE) /\ UNCHANGED moves
InventoryGuessed ==
    Move /\ Polls({[driver |-> FALSE, gpus |-> {}, uvm |-> {}, chars |-> {}]}, FALSE)
InventoryFails == Move /\ Polls(inv, FALSE)

\* A vmlist that cannot be read ends the poll.
ReadVmlist ==
    /\ pc = "list"
    /\ IF up
       THEN /\ todo' = Guests /\ pc' = "docs"
            /\ full' = due /\ due' = FALSE
            /\ UNCHANGED <<known, ready, spent, fresh, asked>>
       ELSE End /\ UNCHANGED due
    /\ UNCHANGED <<world, applied, moves, inv, docs, saw, calm, keyless, blurred>>

-----------------------------------------------------------------------------
\* read_documents: where the answer for one guest comes from.
\* Mutants: no document at the path is always an answer; stamps are not
\* looked at; a full pass is like any other.
SourceByPath(cached, at, ok, managed) ==
    IF ~ok THEN "Read"
    ELSE IF at = NoFile THEN "Absent"
    ELSE IF ~full /\ \E c \in cached : c.stamp = at THEN "Cached" ELSE "Read"
SourceByName(cached, at, ok, managed) ==
    IF ~ok THEN "Read"
    ELSE IF at = NoFile /\ ~managed THEN "Absent"
    ELSE IF ~full /\ cached # {} THEN "Cached" ELSE "Read"
SourceByStamp(cached, at, ok, managed) ==
    IF ~ok THEN "Read"
    ELSE IF at = NoFile /\ ~managed THEN "Absent"
    ELSE IF \E c \in cached : c.stamp = at THEN "Cached" ELSE "Read"

SourceOf(cached, at, ok, managed) ==
    IF ~ok THEN "Read"
    ELSE IF at = NoFile /\ ~managed THEN "Absent"
    ELSE IF ~full /\ \E c \in cached : c.stamp = at THEN "Cached" ELSE "Read"

\* Out of time, what is left keeps its last answer.
SkipDocument(g) ==
    /\ pc = "docs" /\ spent /\ Turn(g)
    /\ todo' = todo \ {g}
    /\ calm' = FALSE
    /\ UNCHANGED <<world, applied, moves, pc, inv, known, docs, saw, due, full, ready, spent,
                   fresh, asked, keyless, blurred>>

Stats(g, at, ok) ==
    /\ pc = "docs" /\ ~spent /\ Turn(g)
    /\ LET source == SourceOf(docs[g], at, ok, g \in record)
       IN IF source = "Read"
          THEN pc' = "get" /\ saw' = at /\ UNCHANGED <<todo, docs>>
          ELSE /\ docs' = IF source = "Cached" THEN docs
                          ELSE [docs EXCEPT ![g] = {Cached(at, {})}]
               /\ todo' = todo \ {g}
               /\ UNCHANGED <<pc, saw>>
    /\ UNCHANGED <<world, applied, inv, known, due, full, ready, spent,
                   fresh, asked, keyless, blurred>>

\* Without /etc/pve there is no file at the path, or no answer.
Stat(g) ==
    /\ \/ up /\ Stats(g, stamp[g], TRUE)
       \/ ~up /\ \E ok \in BOOLEAN : Stats(g, NoFile, ok)
    /\ UNCHANGED <<moves, calm>>
StatFails(g) == Move /\ up /\ Stats(g, NoFile, FALSE) /\ calm' = FALSE

\* `pve-meta get`.
Gets(g, answer) ==
    /\ pc = "get" /\ Turn(g)
    /\ docs' = [docs EXCEPT ![g] = {answer}]
    /\ asked' = asked \cup {g}
    /\ todo' = todo \ {g}
    /\ pc' = "docs"
    /\ saw' = NoFile
    /\ UNCHANGED <<world, applied, inv, known, due, full, ready, spent, fresh, keyless, blurred>>
Get(g) ==
    /\ Gets(g, IF up THEN Cached(saw, file[g]) ELSE Failed(saw))
    /\ UNCHANGED <<moves, calm>>
GetFails(g) == Move /\ Gets(g, Failed(saw)) /\ calm' = FALSE

\* Nothing without an inventory and a driver; then the guests whose document
\* could be read.
Reconcilable == {g \in Guests : \E c \in docs[g] : c.read = "ok"}
Settle(list) ==
    /\ pc = "docs" /\ todo = {}
    /\ IF \E stock \in inv : stock.driver
       THEN /\ pc' = "guests" /\ todo' = Reconcilable /\ known' = list
            /\ UNCHANGED <<full, ready, spent, fresh, asked>>
       ELSE End
    /\ UNCHANGED <<world, applied, inv, docs, saw, due, keyless, blurred>>
DocumentsDone == Settle(majors) /\ UNCHANGED <<moves, calm>>

\* A list of majors that cannot be read is the empty one.
RecallFails ==
    /\ Move
    /\ \E stock \in inv : stock.driver
    /\ Settle(<<>>) /\ calm' = FALSE

-----------------------------------------------------------------------------
\* Pass::guest, in one step: what it plans, writes and records.
PlanFor(g) ==
    LET want == UNION {c.want : c \in docs[g]}
        stock == CHOOSE stock \in inv : TRUE
    IN Outcome(conf[g], want, stock, Elements(known), g \in record)

Guest(g) ==
    /\ pc = "guests" /\ ~spent /\ Turn(g)
    /\ LET plan == PlanFor(g)
           planned == plan.kind = "Plan" /\ ~Locked(conf[g])
       IN /\ conf' = [conf EXCEPT ![g] =
                        IF planned THEN Splice(@, plan.desired, plan.owned) ELSE @]
          /\ record' = IF ~planned THEN record
                       ELSE IF plan.desired = {} THEN record \ {g} ELSE record \cup {g}
          /\ majors' = IF ~planned \/ plan.desired = {} THEN majors
                       ELSE Noted(majors, known, UNION {stock.uvm : stock \in inv})
          /\ keyless' = IF planned /\ file[g] # {} /\ \A c \in docs[g] : c.want # {}
                        THEN keyless \ {g} ELSE keyless
          /\ todo' = todo \ {g}
    /\ UNCHANGED <<world, moves, pc, inv, known, docs, saw, due, full, ready, spent,
                   calm, fresh, asked, blurred>>

\* Its config cannot be read or written, or another process holds its lock.
GuestFails(g) ==
    /\ Move
    /\ pc = "guests" /\ ~spent /\ Turn(g)
    /\ todo' = todo \ {g}
    /\ calm' = FALSE
    /\ UNCHANGED <<world, applied, pc, inv, known, docs, saw, due, full, ready, spent,
                   fresh, asked, keyless, blurred>>

GuestsDone ==
    /\ pc = "guests"
    /\ spent \/ todo = {}
    /\ End
    /\ calm' = (calm /\ todo = {})
    /\ UNCHANGED <<world, applied, moves, inv, docs, saw, due, keyless, blurred>>

\* Time: the boot pass's minute, and the five minutes between full passes.
BudgetSpent ==
    /\ Boot /\ pc \in {"list", "docs", "get", "guests"} /\ ~spent
    /\ spent' = TRUE
    /\ UNCHANGED <<world, applied, moves, pc, todo, inv, known, docs, saw, due, full, ready, history>>

FullDue ==
    /\ ~due
    /\ due' = TRUE
    /\ UNCHANGED <<world, applied, moves, pc, todo, inv, known, docs, saw, full, ready, spent, history>>

-----------------------------------------------------------------------------
\* The world.
Shakes ==
    /\ Move
    /\ calm' = FALSE
    /\ UNCHANGED <<loop, fresh, asked, record, majors>>

HardwareChanges ==
    /\ Shakes
    /\ hw' \in Hardware \ {hw}
    /\ UNCHANGED <<up, file, stamp, conf, keyless, blurred>>

StoreTurns ==
    /\ Shakes
    /\ up' = ~up
    /\ UNCHANGED <<hw, file, stamp, conf, keyless, blurred>>

\* A document is written, with a stamp of its own or, twice in one second and
\* at the same size, with the one it had; or it is deleted.
Document(g) ==
    /\ Shakes
    /\ \E new \in (Keys \cup {Bad}) \ {file[g]}, at \in {NoFile, stamp[g], moves + 2} :
          /\ at = NoFile => new = {}
          /\ file' = [file EXCEPT ![g] = new]
          /\ stamp' = [stamp EXCEPT ![g] = at]
          /\ blurred' = IF at = stamp[g] /\ at # NoFile THEN blurred \cup {g}
                        ELSE blurred \ {g}
          /\ keyless' = IF new = {} THEN keyless \cup {g} ELSE keyless
    /\ UNCHANGED <<hw, up, conf>>

\* PVE locks a config for a backup, and unlocks it.
PveLocks(g) ==
    /\ Shakes
    /\ conf' = [conf EXCEPT ![g] = IF Locked(@) THEN @ \ {BackupLock} ELSE @ \cup {BackupLock}]
    /\ UNCHANGED <<world, keyless, blurred>>

Tick ==
    \/ TakeInventory \/ ReadVmlist \/ DocumentsDone \/ GuestsDone
    \/ \E g \in Guests : SkipDocument(g) \/ Stat(g) \/ Get(g) \/ Guest(g)

Next ==
    \/ Tick \/ BudgetSpent \/ FullDue
    \/ InventoryFails \/ RecallFails \/ HardwareChanges \/ StoreTurns
    \/ \E g \in Guests : StatFails(g) \/ GetFails(g) \/ GuestFails(g)
    \/ \E g \in Guests : Document(g) \/ PveLocks(g)

Spec == Init /\ [][Next]_vars

\* Every call of the loop has a deadline, so the loop goes on; and five
\* minutes pass.
FairSpec == Spec /\ WF_vars(Tick) /\ WF_vars(FullDue)

-----------------------------------------------------------------------------
\* The inventory is one that was read; the cache holds what a document said.
TypeOK ==
    /\ hw \in Hardware /\ up \in BOOLEAN
    /\ file \in [Guests -> Keys \cup {Bad}]
    /\ stamp \in [Guests -> 0..MaxMoves + 1]
    /\ record \subseteq Guests
    /\ {majors, known} \subseteq Seq(UNION {h.uvm : h \in Hardware})
    /\ moves \in 0..MaxMoves
    /\ pc \in {"sleep", "list", "docs", "get", "guests"}
    /\ todo \subseteq Guests
    /\ inv \in {{}} \cup {{h} : h \in Hardware}
    /\ docs \in [Guests -> {{}} \cup {{c} : c \in
                   [stamp : 0..MaxMoves + 1, read : {"ok", "bad", "failed"}, want : Keys]}]
    /\ saw \in 0..MaxMoves + 1
    /\ {due, full, ready, spent, calm, fresh} \subseteq BOOLEAN
    /\ asked \subseteq Guests /\ keyless \subseteq Guests /\ blurred \subseteq Guests

\* The lines of a guest are taken away by an answer, never by a guess: not
\* because a store that went away under the poll, a failed stat, or an old
\* answer looked like "no gpu key", but because there was none (daemon.rs,
\* source_of).
NothingRemovedByGuess ==
    [][\A g \in record \ record' : Guest(g) =>
          \/ g \in keyless
          \/ \E c \in docs[g], stock \in inv : \E w \in c.want : Selected(w, stock) = {}]_vars

\* What the key of guest g and the hardware ask for is what its config says.
Settled(g) ==
    LET plan == Outcome(conf[g], file[g], hw, Elements(majors), g \in record)
    IN plan.kind = "Plan" /\ ~Locked(conf[g]) =>
          /\ ~Changed(plan)
          /\ g \in record <=> plan.desired # {}

\* The cache has an answer: it is neither a failed read nor what was read when
\* the stat had failed, which is kept as if there were no document.
Answered(g) ==
    \A c \in docs[g] :
        c.read # "failed" /\ (c.stamp = NoFile => c.read = "ok" /\ c.want = {})

\* One poll is enough: if nothing moves or fails while it runs, whatever
\* happened before, boot pass and outages included, it leaves every guest as
\* its document and the hardware have it (README: "all converge"), but for the
\* guests whose document was not read and two edits under one stamp.
APollSettles ==
    pc = "sleep" /\ calm /\ up =>
        \A g \in Guests : Answered(g) /\ file[g] # Bad /\ g \notin blurred => Settled(g)

\* Whatever fails, and for how long, in the end every guest is right: the full
\* pass reaches what the stamps hide.  And systemd is told READY, even if the
\* store never comes.
Follows ==
    <>[](ready /\ (up => \A g \in Guests : file[g] # Bad => Settled(g)))

\* "An inventory that could not be read ... skips the reconcile entirely."
SkippedWithoutInventory == pc = "guests" => fresh

\* A guest that was skipped, "its document unreadable that minute", is reached
\* a poll later: no poll plans by a failed read of an earlier one.
RetriedNextPoll ==
    pc = "guests" /\ calm =>
        \A g \in Guests : (\E c \in docs[g] : c.read = "failed") => g \in asked
=============================================================================
