----------------------------- MODULE Reconcile -----------------------------
(***************************************************************************)
(* One node's reconcile: the daemon and any `pve-meta-nvidia reconcile` at *)
(* a terminal, each walking the node's containers and replacing the        *)
(* managed lines of their configs (ops/reconcile.rs), with the record of   *)
(* state.rs, PVE's config lock of lock.rs, and the world around them: PVE  *)
(* and people who edit configs, documents and hardware that change, writes *)
(* that fail, processes that are killed.                                   *)
(*                                                                         *)
(* Every read and every write of something shared is a step of its own.    *)
(***************************************************************************)
EXTENDS GpuLines, MajorList, Sequences, FiniteSets

CONSTANTS
    Guests,      \* container ids
    Procs,       \* processes of this tool
    Daemon,      \* the one that is a service; the others are commands
    Docs,        \* the `gpu` subtrees a guest may have
    Hardware,    \* what /proc may say
    PveLines,    \* lines PVE or a person puts into a config or takes out
    NewConfigs,  \* main sections a new or arriving container may have
    MaxMoves,    \* bound: how often the world moves or something fails
    Free         \* the holder of a free lock

\* nvidia-uvm has one major or, not being loaded, none.
ASSUME ReconcileAssumption ==
    /\ Daemon \in Procs /\ Free \notin Procs
    /\ MaxMoves \in Nat
    /\ NewConfigs # {}
    /\ \A h \in Hardware : \A m, n \in h.uvm : m = n

VARIABLES
    hw,        \* the hardware, as /proc shows it
    doc,       \* per guest, its `gpu` key: none or one document
    exist,     \* guests with a config on this node
    conf,      \* per guest, the lines of the main section
    flock,     \* per guest, who holds /run/lock/lxc/pve-config-<vmid>.lock
    record,    \* /var/lib/pve-meta-nvidia/managed
    majors,    \* /var/lib/pve-meta-nvidia/uvm-major, newest first
    moves,     \* how often the world has moved
    pc, inv, known, todo, at, want, managed, text,    \* per process
    ours,      \* history: lines of a config this tool wrote, still there
    keyed,     \* history: guests that ever had a key
    behind     \* history: majors recorded since all a guest's rules were current

disk == <<hw, doc, exist, conf, record, majors>>
locals == <<pc, inv, known, todo, at, want, managed, text>>
history == <<ours, keyed, behind>>
vars == <<disk, flock, moves, locals, history>>

-----------------------------------------------------------------------------
NoInventory == [driver |-> FALSE, gpus |-> {}, uvm |-> {}, chars |-> {}]

\* A guest's key, as far as it can be read: none, or one document.
Keys == {{}} \cup {{d} : d \in Docs}

\* Mutants: lines that look like this tool's make the guest this tool's, or
\* a guest without a key is never this tool's.
PlanOfByLooks(p, lines, has) ==
    Outcome(lines, want[p], inv[p], Elements(known[p]),
            \E l \in lines : l.key = "hook")
PlanOfKeyedOnly(p, lines, has) ==
    Outcome(lines, want[p], inv[p], Elements(known[p]), FALSE)

\* The plan process p makes from what it has read.
PlanOf(p, lines, has) ==
    Outcome(lines, want[p], inv[p], Elements(known[p]), has)
Current(p) == PlanOf(p, text[p], managed[p])

UvmLines(lines) == {l \in lines : l.key = "allow" /\ l.major # NvidiaMajor}

Init ==
    /\ hw \in Hardware
    /\ doc \in [Guests -> Keys]
    /\ exist = Guests
    /\ conf \in [Guests -> NewConfigs]
    /\ flock = [g \in Guests |-> Free]
    /\ record = {} /\ majors = <<>> /\ moves = 0
    /\ pc = [p \in Procs |-> "idle"]
    /\ inv = [p \in Procs |-> NoInventory]
    /\ known = [p \in Procs |-> <<>>]
    /\ todo = [p \in Procs |-> {}]
    /\ at = [p \in Procs |-> {}]
    /\ want = [p \in Procs |-> {}]
    /\ managed = [p \in Procs |-> FALSE]
    /\ text = [p \in Procs |-> {}]
    /\ ours = [g \in Guests |-> {}]
    /\ keyed = {g \in Guests : doc[g] # {}}
    /\ behind = [g \in Guests |-> 0]

-----------------------------------------------------------------------------
\* One pass: the inventory, the guests of this node, the majors it has used.

Go(p, label) == pc' = [pc EXCEPT ![p] = label]

\* Between guests: what was read for this one goes out of scope, with the lock.
Done(p) ==
    /\ Go(p, IF todo[p] = {} THEN "idle" ELSE "pick")
    /\ at' = [at EXCEPT ![p] = {}]
    /\ want' = [want EXCEPT ![p] = {}]
    /\ managed' = [managed EXCEPT ![p] = FALSE]
    /\ text' = [text EXCEPT ![p] = {}]
    /\ flock' = [g \in Guests |-> IF flock[g] = p THEN Free ELSE flock[g]]
    /\ inv' = [inv EXCEPT ![p] = IF todo[p] = {} THEN NoInventory ELSE @]
    /\ known' = [known EXCEPT ![p] = IF todo[p] = {} THEN <<>> ELSE @]
    /\ UNCHANGED todo

\* Mutant: the majors are read before nvidia-uvm is loaded, the rest after.
TakeStockTorn(p) ==
    /\ pc[p] = "idle"
    /\ inv' = [inv EXCEPT ![p] = [hw EXCEPT !.uvm = {}]]
    /\ Go(p, IF p = Daemon THEN "list" ELSE "recall")
    /\ UNCHANGED <<disk, flock, moves, known, todo, at, want, managed, text, history>>

TakeStock(p) ==
    /\ pc[p] = "idle"
    /\ inv' = [inv EXCEPT ![p] = hw]
    /\ Go(p, IF p = Daemon THEN "list" ELSE "recall")
    /\ UNCHANGED <<disk, flock, moves, known, todo, at, want, managed, text, history>>

\* With all that was read, one guest after the other.  Without a driver no
\* guest is touched.
Walk(p, guests, list) ==
    IF inv[p].driver /\ guests # {}
    THEN /\ todo' = [todo EXCEPT ![p] = guests]
         /\ known' = [known EXCEPT ![p] = list]
         /\ Go(p, "pick")
         /\ UNCHANGED inv
    ELSE /\ todo' = [todo EXCEPT ![p] = {}]
         /\ known' = [known EXCEPT ![p] = <<>>]
         /\ inv' = [inv EXCEPT ![p] = NoInventory]
         /\ Go(p, "idle")

\* Pass::all, and the daemon's tick: every container of the vmlist.
ListGuests(p) ==
    /\ pc[p] = "list"
    /\ todo' = [todo EXCEPT ![p] = exist]
    /\ Go(p, "retain")
    /\ UNCHANGED <<disk, flock, moves, inv, known, at, want, managed, text, history>>

\* `reconcile <vmid>`: one container, and nothing is forgotten.
NameGuest(p, g) ==
    /\ pc[p] = "list" /\ p # Daemon
    /\ g \in exist
    /\ Walk(p, {g}, known[p])
    /\ UNCHANGED <<disk, flock, moves, at, want, managed, text, history>>

Retain(p) ==
    /\ pc[p] = "retain"
    /\ record' = record \cap todo[p]
    /\ IF p = Daemon
       THEN Go(p, "recall") /\ UNCHANGED <<inv, known, todo>>
       ELSE Walk(p, todo[p], known[p])
    /\ UNCHANGED <<hw, doc, exist, conf, majors, flock, moves,
                   at, want, managed, text, history>>

\* A command reads the majors before it lists the guests, the daemon after.
\* A list that cannot be read is the empty one, and the pass goes on.
Recall(p, list) ==
    /\ pc[p] = "recall"
    /\ IF p = Daemon
       THEN Walk(p, todo[p], list)
       ELSE /\ known' = [known EXCEPT ![p] = list]
            /\ Go(p, "list")
            /\ UNCHANGED <<inv, todo>>
    /\ UNCHANGED <<disk, flock, at, want, managed, text, history>>

\* Pass::one reads the document, then Pass::guest does the rest.
Pick(p, g) ==
    /\ pc[p] = "pick" /\ g \in todo[p]
    /\ todo' = [todo EXCEPT ![p] = @ \ {g}]
    /\ at' = [at EXCEPT ![p] = {g}]
    /\ want' = [want EXCEPT ![p] = doc[g]]
    /\ Go(p, "look")
    /\ UNCHANGED <<disk, flock, moves, inv, known, managed, text, history>>

-----------------------------------------------------------------------------
\* Pass::guest.  `at[p]` is {g} while process p is at guest g.

\* The config, read without its lock.  No config is an error of this guest.
Look(p, g) ==
    /\ pc[p] = "look" /\ at[p] = {g}
    /\ IF g \notin exist \/ Locked(conf[g])
       THEN Done(p)
       ELSE /\ text' = [text EXCEPT ![p] = conf[g]]
            /\ Go(p, "plan")
            /\ UNCHANGED <<flock, inv, known, todo, at, want, managed>>
    /\ UNCHANGED <<disk, moves, history>>

PlanGuest(p, g) ==
    /\ pc[p] = "plan" /\ at[p] = {g}
    /\ LET plan == PlanOf(p, text[p], g \in record)
       IN IF plan.kind # "Plan" THEN Done(p)
          ELSE /\ managed' = [managed EXCEPT ![p] = g \in record]
               /\ Go(p, IF Changed(plan) THEN "lock" ELSE "note")
               /\ UNCHANGED <<flock, inv, known, todo, at, want, text>>
    /\ UNCHANGED <<disk, moves, history>>

\* Mutant: the lock's file is opened and not locked.
TakeLockNot(p, g) ==
    /\ pc[p] = "lock" /\ at[p] = {g}
    /\ flock[g] = Free
    /\ Go(p, "relook")
    /\ UNCHANGED <<disk, flock, moves, inv, known, todo, at, want, managed, text, history>>

TakeLock(p, g) ==
    /\ pc[p] = "lock" /\ at[p] = {g}
    /\ flock[g] = Free
    /\ flock' = [flock EXCEPT ![g] = p]
    /\ Go(p, "relook")
    /\ UNCHANGED <<disk, moves, inv, known, todo, at, want, managed, text, history>>

LockBusy(p, g) ==
    /\ pc[p] = "lock" /\ at[p] = {g}
    /\ flock[g] # Free
    /\ Done(p)
    /\ UNCHANGED <<disk, moves, history>>

\* Mutants: the file is not read again under the lock; only the lines are
\* compared again, not whether PVE has locked the config; the record is
\* cleared before the lines are removed.
RelookNothing(p, g) ==
    /\ pc[p] = "relook" /\ at[p] = {g}
    /\ Go(p, IF Current(p).desired = {} THEN "check" ELSE "note")
    /\ UNCHANGED <<disk, moves, flock, inv, known, todo, at, want, managed, text, history>>

RelookAtLines(p, g) ==
    /\ pc[p] = "relook" /\ at[p] = {g}
    /\ LET plan == PlanOf(p, conf[g], managed[p])
       IN IF g \notin exist \/ plan.kind # "Plan" THEN Done(p)
          ELSE /\ text' = [text EXCEPT ![p] = conf[g]]
               /\ Go(p, IF Changed(plan) /\ plan.desired = {} THEN "check" ELSE "note")
               /\ UNCHANGED <<flock, inv, known, todo, at, want, managed>>
    /\ UNCHANGED <<disk, moves, history>>

RelookAndNote(p, g) ==
    /\ pc[p] = "relook" /\ at[p] = {g}
    /\ LET plan == PlanOf(p, conf[g], managed[p])
       IN IF g \notin exist \/ Locked(conf[g]) \/ plan.kind # "Plan" THEN Done(p)
          ELSE /\ text' = [text EXCEPT ![p] = conf[g]]
               /\ Go(p, "note")
               /\ UNCHANGED <<flock, inv, known, todo, at, want, managed>>
    /\ UNCHANGED <<disk, moves, history>>

\* The plan that decides the write is made from the file read under the lock.
Relook(p, g) ==
    /\ pc[p] = "relook" /\ at[p] = {g}
    /\ LET plan == PlanOf(p, conf[g], managed[p])
       IN IF g \notin exist \/ Locked(conf[g]) \/ plan.kind # "Plan" THEN Done(p)
          ELSE /\ text' = [text EXCEPT ![p] = conf[g]]
               /\ Go(p, IF Changed(plan) /\ plan.desired = {} THEN "check" ELSE "note")
               /\ UNCHANGED <<flock, inv, known, todo, at, want, managed>>
    /\ UNCHANGED <<disk, moves, history>>

\* Pass::remember, first half.
NoteRecord(p, g) ==
    /\ pc[p] = "note" /\ at[p] = {g}
    /\ LET plan == Current(p)
       IN /\ record' = IF plan.desired = {} THEN record \ {g} ELSE record \cup {g}
          /\ IF plan.desired # {} /\ inv[p].uvm # {}
             THEN Go(p, "major")
                  /\ UNCHANGED <<flock, inv, known, todo, at, want, managed, text>>
             ELSE IF Changed(plan)
             THEN Go(p, "check")
                  /\ UNCHANGED <<flock, inv, known, todo, at, want, managed, text>>
             ELSE Done(p)
    /\ UNCHANGED <<hw, doc, exist, conf, majors, moves, history>>

\* Pass::remember, second half: the file is replaced by what this pass knew
\* of it, and the major it is using.
NoteMajor(p, g) ==
    /\ pc[p] = "major" /\ at[p] = {g}
    /\ \E m \in inv[p].uvm :
          majors' = IF known[p] # <<>> /\ Head(known[p]) = m THEN majors
                    ELSE Remembered(known[p], m)
    /\ behind' = [h \in Guests |-> IF majors' = majors THEN behind[h]
                                   ELSE IF known[p] # majors \/ behind[h] = UvmKept
                                   THEN UvmKept ELSE behind[h] + 1]
    /\ IF Changed(Current(p))
       THEN Go(p, "check") /\ UNCHANGED <<flock, inv, known, todo, at, want, managed, text>>
       ELSE Done(p)
    /\ UNCHANGED <<hw, doc, exist, conf, record, moves, ours, keyed>>

\* write_config: the temporary file is complete; is there still a config?
CheckThere(p, g) ==
    /\ pc[p] = "check" /\ at[p] = {g}
    /\ IF g \notin exist THEN Done(p)
       ELSE Go(p, "rename")
            /\ UNCHANGED <<flock, inv, known, todo, at, want, managed, text>>
    /\ UNCHANGED <<disk, moves, history>>

Rename(p, g) ==
    /\ pc[p] = "rename" /\ at[p] = {g}
    /\ LET plan == Current(p)
           new == Splice(text[p], plan.desired, plan.owned)
       IN /\ conf' = [conf EXCEPT ![g] = new]
          /\ ours' = [ours EXCEPT ![g] = plan.desired \cup
                        {l \in @ \cap new : inv[p].uvm = {} \/ l.major \notin inv[p].chars}]
          /\ behind' = [behind EXCEPT ![g] =
                IF inv[p].uvm = {} \/ UvmLines(ours'[g] \ plan.desired) # {} THEN @ ELSE 0]
          /\ IF plan.desired = {}
             THEN Go(p, "clear")
                  /\ UNCHANGED <<flock, inv, known, todo, at, want, managed, text>>
             ELSE Done(p)
    /\ exist' = exist \cup {g}
    /\ UNCHANGED <<hw, doc, record, majors, moves, keyed>>

\* The record is cleared after the lines are gone.
ClearRecord(p, g) ==
    /\ pc[p] = "clear" /\ at[p] = {g}
    /\ record' = record \ {g}
    /\ Done(p)
    /\ UNCHANGED <<hw, doc, exist, conf, majors, moves, history>>

-----------------------------------------------------------------------------
\* What goes wrong, and the world.

Move == moves < MaxMoves /\ moves' = moves + 1

\* Any step of a guest can fail: its error is reported and the pass goes on.
Fail(p) ==
    /\ Move
    /\ at[p] # {}
    /\ Done(p)
    /\ UNCHANGED <<disk, history>>

\* Any other error ends the pass; so does being killed, at any point.
Killed(p) ==
    /\ Move
    /\ pc[p] # "idle"
    /\ Go(p, "idle")
    /\ todo' = [todo EXCEPT ![p] = {}]
    /\ at' = [at EXCEPT ![p] = {}]
    /\ want' = [want EXCEPT ![p] = {}]
    /\ managed' = [managed EXCEPT ![p] = FALSE]
    /\ text' = [text EXCEPT ![p] = {}]
    /\ inv' = [inv EXCEPT ![p] = NoInventory]
    /\ known' = [known EXCEPT ![p] = <<>>]
    /\ flock' = [g \in Guests |-> IF flock[g] = p THEN Free ELSE flock[g]]
    /\ UNCHANGED <<disk, history>>

RecallFails(p) == Move /\ Recall(p, <<>>)

World == UNCHANGED <<flock, locals, record, majors>>

\* The driver or nvidia-uvm is loaded or unloaded, a card is pulled, a boot
\* gives nvidia-uvm another major.
HardwareChanges ==
    /\ Move /\ World
    /\ hw' \in Hardware \ {hw}
    /\ UNCHANGED <<doc, exist, conf, history>>

EditDocument(g) ==
    /\ Move /\ World
    /\ \E d \in Keys \ {doc[g]} :
          /\ doc' = [doc EXCEPT ![g] = d]
          /\ keyed' = IF d = {} THEN keyed ELSE keyed \cup {g}
    /\ UNCHANGED <<hw, exist, conf, ours, behind>>

\* PVE edits a config, and creates a container, under the config lock.
PveEdit(g) ==
    /\ Move /\ World
    /\ g \in exist /\ flock[g] = Free
    /\ \E lines \in {conf[g] \ ours[g]} \cup {conf[g] \cup {l} : l \in PveLines}
                     \cup {conf[g] \ {l} : l \in PveLines} :
          /\ lines # conf[g]
          /\ conf' = [conf EXCEPT ![g] = lines]
          /\ ours' = [ours EXCEPT ![g] = @ \cap lines]
    /\ UNCHANGED <<hw, doc, exist, keyed, behind>>

Create(g) ==
    /\ Move /\ World
    /\ g \notin exist /\ flock[g] = Free
    /\ exist' = exist \cup {g}
    /\ \E lines \in NewConfigs : conf' = [conf EXCEPT ![g] = lines]
    /\ UNCHANGED <<hw, doc, history>>

\* A guest is destroyed, or moves to another node, whoever holds the lock.
Vanish(g) ==
    /\ Move /\ World
    /\ g \in exist
    /\ exist' = exist \ {g}
    /\ conf' = [conf EXCEPT ![g] = {}]
    /\ ours' = [ours EXCEPT ![g] = {}]
    /\ UNCHANGED <<hw, doc, keyed, behind>>

-----------------------------------------------------------------------------
AtGuest(p, g) ==
    \/ Pick(p, g) \/ Look(p, g) \/ PlanGuest(p, g) \/ TakeLock(p, g)
    \/ LockBusy(p, g) \/ Relook(p, g) \/ NoteRecord(p, g) \/ NoteMajor(p, g)
    \/ CheckThere(p, g) \/ Rename(p, g) \/ ClearRecord(p, g)

RecallMajors(p) == Recall(p, majors) /\ UNCHANGED moves

OfPass(p) ==
    \/ ListGuests(p) \/ Retain(p) \/ RecallMajors(p)
    \/ \E g \in Guests : NameGuest(p, g) \/ AtGuest(p, g)

Next ==
    \/ \E p \in Procs : TakeStock(p) \/ OfPass(p)
    \/ \E p \in Procs : Fail(p) \/ Killed(p) \/ RecallFails(p)
    \/ HardwareChanges
    \/ \E g \in Guests : EditDocument(g) \/ PveEdit(g) \/ Create(g) \/ Vanish(g)

Spec == Init /\ [][Next]_vars

\* The daemon polls for ever; a command runs when somebody types it, but
\* once started every process runs on.
FairSpec ==
    /\ Spec
    /\ WF_vars(TakeStock(Daemon) \/ OfPass(Daemon))
    /\ \A p \in Procs \ {Daemon} : WF_vars(OfPass(p))

-----------------------------------------------------------------------------
\* Every line of every config came from somewhere, and everybody is where a
\* process of this tool can be.
KnownLines ==
    PveLines \cup (UNION NewConfigs)
    \cup (UNION {Wanted(d, h) : d \in Docs, h \in Hardware})
Labels == {"idle", "list", "retain", "recall", "pick", "look", "plan", "lock",
           "relook", "note", "major", "check", "rename", "clear"}

TypeOK ==
    /\ hw \in Hardware
    /\ doc \in [Guests -> Keys]
    /\ exist \subseteq Guests
    /\ conf \in [Guests -> SUBSET KnownLines]
    /\ flock \in [Guests -> Procs \cup {Free}]
    /\ record \subseteq Guests
    /\ moves \in 0..MaxMoves
    /\ pc \in [Procs -> Labels]
    /\ inv \in [Procs -> Hardware \cup {NoInventory}]
    /\ todo \in [Procs -> SUBSET Guests]
    /\ at \in [Procs -> {{}} \cup {{g} : g \in Guests}]
    /\ want \in [Procs -> Keys]
    /\ managed \in [Procs -> BOOLEAN]
    /\ text \in [Procs -> SUBSET KnownLines]
    /\ ours \in [Guests -> SUBSET KnownLines]
    /\ keyed \subseteq Guests

\* Process p replaces the config of g, which is still there.
Writes(p, g) ==
    /\ pc[p] = "rename" /\ at[p] = {g} /\ g \in exist
    /\ pc'[p] # "rename" /\ conf'[g] # conf[g]

\* No lost update: what a process writes is the config that stands at that
\* moment with the managed lines replaced, whatever PVE, a person or another
\* process of this tool did while it was planning (reconcile.rs: the plan
\* that decides the write is the one made under the lock).
NoLostUpdate ==
    [][\A p \in Procs, g \in Guests : Writes(p, g) =>
          conf'[g] = Splice(conf[g], Current(p).desired, Current(p).owned)]_vars

\* A config is replaced only while it can carry the lines: PVE does not hold
\* it for a backup, and if cards are wanted it is unprivileged and passes no
\* NVIDIA device of its own -- at the write, not when the pass first looked.
OnlyFitConfigs ==
    [][\A p \in Procs, g \in Guests : Writes(p, g) =>
          /\ ~Locked(conf[g])
          /\ want[p] # {} => IsUnprivileged(conf[g]) /\ NvidiaDevEntries(conf[g]) = {}]_vars

\* A guest that never had a key is never written, whatever lines somebody
\* put into it by hand (plan.rs: "not ours").
HandsOff ==
    [][\A p \in Procs, g \in Guests : Writes(p, g) => g \in keyed]_vars

\* The record covers every line this tool wrote, but for nvidia-uvm rules:
\* killed, failed or overtaken anywhere, a pass leaves no card or hook line
\* in a guest it does not know as its own (state.rs, Record::set).
DriverLinesRecorded ==
    \A g \in Guests : ours[g] \ UvmLines(ours[g]) # {} => g \in record

\* The same of every line this tool wrote, as the comment on Record::set has
\* it: "lines without a record are orphans".
LinesRecorded ==
    \A g \in Guests : ours[g] # {} => g \in record

\* An nvidia-uvm rule this tool wrote can still be replaced: its major is on
\* the list until the guest has missed UvmKept changes of the list.
UvmRulesReplaceable ==
    \A g \in Guests : behind[g] < UvmKept =>
        {l.major : l \in UvmLines(ours[g])} \subseteq Elements(majors)

\* Once the world is quiet the daemon brings every guest it may touch to what
\* its key and the hardware ask for, and the record to what it carries.
Settled(g) ==
    LET plan == Outcome(conf[g], doc[g], hw, Elements(majors), g \in record)
    IN plan.kind = "Plan" /\ ~Locked(conf[g]) =>
          /\ ~Changed(plan)
          /\ g \in record <=> plan.desired # {}
Converges == <>[](\A g \in exist : Settled(g))

\* The refinement: what is seen of the processes is what they hold.
HeldLocks == {g \in Guests : flock[g] # Free}
Begun == {g \in Guests : \E p \in Procs : pc[p] = "rename" /\ at[p] = {g}}
Stocks == {inv[p] : p \in Procs} \ {NoInventory}
Asked == [g \in Guests |-> {want[p] : p \in {q \in Procs : at[q] = {g}}}]

Seen == INSTANCE GuestConfigs
          WITH held <- HeldLocks, begun <- Begun, stocks <- Stocks, asked <- Asked,
               Lines <- KnownLines

\* All that anybody else sees of it: configs are replaced in one step, under
\* their lock, by nothing but the lines of a key and hardware that were there
\* when they were read, however many processes there are and wherever one of
\* them fails (README: "exactly these lines, and nothing else").
PromiseKept == Seen!Spec
=============================================================================
