# pve-meta-nvidia, in TLA+

`pve-meta-nvidia` gives LXC containers of a Proxmox VE node access to NVIDIA
cards. Every ten seconds a daemon on each node reads what hardware the node
has, reads what every container's owner asked for (the `gpu` key of the guest's
`pve-meta` document), and replaces the lines it manages in the container's PVE
config. It also publishes what the node has to one file the whole cluster
shares. This directory holds TLA+ models of that program, the TLC configurations
that check them on small instances, and TLAPS proofs of the theorems that hold
for every instance.

Paths such as `ops/reconcile.rs:151` are below `src/src/`.

## 1. The system

| component | its state | its operations | what is hard about it | what makes it correct |
|---|---|---|---|---|
| config lines (`conf.rs`) | none; a function of the config, the hardware and the remembered majors | which lines are owned, `managed_lines`, `render`, `splice` | the four have to agree on one set of lines and one order; a block is placed by counting lines that are dropped later; the nvidia-uvm major changes with boots | replacing twice is replacing once; nobody else's line is lost or moved; no rule of an old major is left beside the new ones |
| plan (`plan.rs`) | none | `plan`: unmanaged, refused, no driver, or lines to have | a guest without a key is this tool's or a stranger's by the record alone | strangers are never written |
| document (`doc.rs`) | none; the store's file | `parse`, `stamp`, `read` and its failures | two spellings of a flag; a slip of the hand; a word that could end a config line; a stamp is a time in seconds and a size | a document is taken whole or not at all, and nothing in it becomes a line of its own |
| reconcile (`ops/reconcile.rs`) | one pass: inventory, remembered majors, current guest, what was read of it | `Pass::all`, `one`, `guest`, `remember` | a look, a plan, a lock, a second look and a write, with PVE, people, other processes, backups and kills between any two; the record is written before the lines and cleared after | no lost update; only fit configs; the record covers the lines; convergence |
| record (`state.rs`) | `managed` (guests), `uvm-major` (two majors) | `set`, `has`, `retain`, `remember_uvm` | two files and a config that have to agree without a transaction | "lines without a record are orphans" |
| lock and write (`lock.rs`) | PVE's flock per guest | take, give up, exists check, rename | a guest can be destroyed between the check and the rename | in reconcile |
| daemon loop (`ops/daemon.rs`) | last inventory, documents by stamp, times, whether systemd was told *ready* | `tick`: inventory, vmlist, documents, guests, publish | everything it reads can fail or be stale; `/etc/pve` can go away in the middle of a poll; the boot waits for its first pass | one quiet poll puts everything right; nothing is removed by a guess; the boot is not held up |
| cluster prefix file (`prefix.rs`) | one shared document, an entry per node | `decide`, then `get`, `set` or `merge` | several nodes decide by an earlier read; a merge cannot remove a row; a driver upgrade looks like pulled cards | the entry follows the hardware and survives an upgrade |
| inventory (`inventory.rs`) | none; `/proc` | one reading of driver, cards, majors, names | it is many reads; nvidia-uvm is loaded by the reading itself; a card may be in reset | no card that is there is missing; an undisturbed reading is true |
| bounded commands (`cmd.rs`) | a child, its two pipes, a deadline, the list of killed children | run, wait, kill, collect | pipes of bounded size, children that do not die, helpers that outlive them | an answer is whole; a call ends; nothing of it is left running |
| vmlist, node name (`node.rs`) | none | `local_containers`, `read_config` | failures | in reconcile and in the loop |
| systemd notification (`notify.rs`) | a socket | `ready`, watchdog pings | wall-clock intervals against chains of bounded calls | READY in time; a ping between any two bounded steps |
| status table, command line (`ops/status.rs`, `main.rs`) | none | print; parse arguments | nothing that changes state | not modelled |
| packaging, unit | none | install, restart | nothing here | not modelled, but for kill, restart and the intervals |

Every call of a tool (`pve-meta`, `nvidia-smi`, `nvidia-modprobe`) goes through
`cmd::run_status`, which pings the watchdog when it returns.

How they interact: `daemon.rs` (and `reconcile` at a terminal) build a `Pass`
from one inventory and one reading of the majors, and run `Pass::guest` for each
container. `Pass::guest` calls `plan`, which calls `conf`; it reads and writes
the config under `lock` and the record through `state`. Processes on one node
share the configs, the locks, the record and the majors and nothing else. Nodes
share the prefix file and nothing else. PVE and people change configs,
documents, the prefix file and the hardware at any time.

## 2. The modules

    GpuLines      lines as sets: ownership, rendering, the plan
      |-- GuestConfigs                    what anybody else sees of a node's configs
      |-- Reconcile ------ MCReconcile    one node's processes at its configs;
      |     |                             implements GuestConfigs
      |     `-- ReconcileProofs           its inductive invariant and theorems,
      |           |                       that it implements GuestConfigs
      |           `-- RecordProofs        the record, the majors and the lines
      |-- ConfFile ------- MCConfFile     lines as sequences: splice, order, blanks
      |     |-- Document                  the YAML under `gpu`
      |     `-- ConfFileProofs
      `-- Daemon --------- MCDaemon       the loop: inventory, documents, boot
            `-- DaemonProofs
    ReadInventory                         one reading of /proc, in its steps
      `-- BootPass ------- MCBootPass     the loop again, with the time it takes
            `-- BootPassProofs
    BoundedCmd --- BoundedCmdProofs       one call of a tool after the other
    PrefixSync --- PrefixProofs           several nodes at the cluster file
    SeqFilter ---- SeqFilterProofs        what is retained of a list
      `-- MajorList                       the node's majors, cut at two; used by
                                          Reconcile, ConfFile and Daemon

`PROJECT.json` maps each definition to the source lines it stands for.

**GpuLines** is the vocabulary. A line is a record: key, what its value starts
with, payload, device numbers. That is as much as `is_managed` looks at. A
config's main section is the set of its lines. `OwnedBy` and `Owns` are
`Owned::new` and `Owned::owns`; `Render` is `conf::render`; `Outcome` is
`plan::plan` with its checks in their order. The majors of nvidia-uvm that are in
use are a set of at most one element, as are all options.

**Reconcile** is a process walking the containers of a node. `pc[p]` is where
process `p` is:

| label | the next thing it does | code |
|---|---|---|
| `idle` | read the inventory | `TakeStock` |
| `list` | list the containers, or take the one named | `ListGuests`, `NameGuest` |
| `retain` | forget guests that are not on this node | `Retain` |
| `recall` | read the majors (a failed read is an empty list) | `Recall` |
| `pick` | read a guest's document | `Pick` |
| `look` | read its config without the lock | `Look` |
| `plan` | look the guest up in the record and plan | `PlanGuest` |
| `lock` | take PVE's lock, or find it busy | `TakeLock`, `LockBusy` |
| `relook` | read again and plan again, under the lock | `Relook` |
| `note`, `major` | write the record, then the list of majors | `NoteRecord`, `NoteMajor` |
| `check`, `rename` | `write_config`: is the file there; replace it | `CheckThere`, `Rename` |
| `clear` | clear the record once the lines are gone | `ClearRecord` |

A command reads the majors before it lists the guests, the daemon after, as in
the code. A guest's step can fail (`Fail`: the pass goes on), a process can be
killed at any label (`Killed`), and the world moves: hardware, documents, PVE's
edits under the lock, containers created and destroyed. The variables `ours`,
`keyed` and `behind` are history: they are written for the properties and read by no step of the program.
`ours[g]` is the lines in `g`'s config that this tool put there.

**GuestConfigs** is what the tool promises, to somebody who knows nothing of
passes, plans and processes. A config changes in one step (`Replace`), under its
lock; what is replaced is the tool's lines, those of the major in use and rules of
majors that no driver has; what they become is what a key that this guest had and
hardware that was there ask for. `Prepare` is everything else the tool does.
`Revive` is the one promise that is not kept: a config that goes after the last
look at it comes back, which the code says of itself. In Reconcile, `Seen` is the refinement
mapping (a lock is held, a write is begun, hardware and keys are in a process's
hands) and `PromiseKept` says that Reconcile implements GuestConfigs.

**ConfFile** is the same replacement on the file as it is: a sequence with blank
lines, followed by sections (snapshots). A `Reconcile` step is what `Pass::guest`
does to the file and the record when it gets as far as a plan (`Planned`) and
nobody interferes: `splice` if the lines differ, the list of majors and the `managed`
flag in either case. The list is the node's: `OtherReconciled` is another guest having its
lines written, which can move the list on while this guest, for want of a
document that parses or of a key, is left behind. `behind` counts the changes that the file's
rules have missed. Between the reconciles a person edits, majors move and snapshots come and
go. Its property `SetsAgree` is what entitles the other modules to sets. What the guest's owner
says is a YAML value, and **Document** is `doc::parse` on it: a value has its
kind, a text the prefix and the classes of characters by which `is_device_id` and
`is_version` decide. A document that does not parse stops the reconcile of its guest.

**Daemon** is `tick`. `docs[g]` is the cache of documents with the stamp each
was read at, `inv` the inventory that is kept, `due` and `full` the five-minute
full pass, `ready` and `spent` the boot pass and its budget. The stat and the
`pve-meta get` of a document are two steps (`Stat`, `Get`), because an edit can
fall between them. `majors` is the node's list and `known` what the pass of this
poll read of it when the documents were done (`Settle`), or nothing, if the read fails
(`RecallFails`). One guest's reconcile is one step (`Guest`): config, record and list.
What happens inside is the subject of Reconcile. A document is written with a stamp of its
own or, by a second edit within one second and at one size, with the same stamp.

**ReadInventory** is `inventory::read`: the majors, the directory of the cards,
each card's `information`, then `nvidia-modprobe` and all of that again if
nvidia-uvm was missing, and `nvidia-smi`. Between any two steps the driver can come
or go, and a card can be pulled, be in reset, or have a directory and no
`information`. The hardware is followed while it is read; the next reading finds
any that there can be.

**BootPass** is the loop once more, with what Daemon leaves out: the time each
call takes and the pings. It does not say what is read or written. `CallTakes` is
a bounded call, `Passes` is time, `stretch` the time since the last ping,
`onGuests` what the boot pass has spent on documents. The reading of the inventory
at the start of each poll is ReadInventory's, step by step.

**BoundedCmd** is `cmd::run_status`: spawn, make both pipes non-blocking, then
turns of draining both, `try_wait` and sleep, until the child has ended or the
deadline has passed; then a last drain, or the kill of the group and the list of
killed children. The child, and a helper that it may leave behind, do as they
like in between: `Write`, `Finish`, `Crash`, `Hang`, `Stick` (uninterruptible
sleep), `Fork`, `LeaveGroup`, `HelperSticks`. The reads of a pipe can come to
fail (`Breaks`), which `drain` takes for the end of what there is to read
(`Exhausted`). Output is counted in what one read takes.

**PrefixSync** is several nodes that each read the shared file, decide and
write: their daemons, and `pve-meta-nvidia inventory` typed at one, which
publishes the reading it made. An entry is the set of its rows. The store's `get`, `set` and `merge` are
one step each (`MergeRows` is external: it is what `pve-meta merge` does, from
how `prefix.rs` relies on it).

**SeqFilter** has one operator, `Among`: the elements of a list that are in a set,
in their order, as `Vec::retain` and `filter` leave them. It is a recursive function
and not `SelectSeq`, so that what it does can be proved; ConfFile's `managed_lines` and
`splice` use it, and **MajorList**: the list of nvidia-uvm majors a node has written rules
with, newest first and cut at `UvmKept` = 2 (`Remembered`), and when the file is
written at all (`Noted`).

## 3. The runs

Every run checks for deadlock, but for `conf_file`, where the system rests when
its moves are used up and nothing is stale.

| run | checks | what it shows |
|---|---|---|
| `reconcile_one` | `TypeOK`, `DriverLinesRecorded`, `UvmRulesReplaceable`, `HandsOff`, `PromiseKept` | One daemon, two guests, boots that move the nvidia-uvm major, twice even, or give an old one to another driver. Killed or failed anywhere, the record covers every driver line written; a UVM rule stays replaceable until its guest has missed two changes of the list; a guest that never had a key is not written even if its config holds the same lines. |
| `reconcile_two` | `NoLostUpdate`, `OnlyFitConfigs`, `PromiseKept`, `Converges` | The daemon and a command at one guest that PVE edits, locks, destroys and recreates. What is written is the config of that moment with the managed lines replaced; a config that became unfit after the first look is left alone; both runs implement GuestConfigs; in a quiet world the guest ends as its key and the hardware ask, and the record with it. |
| `conf_file` | `FixedPoint`, `ForeignOrderKept`, `SetsAgree`, `NoPiledUpRules`, `SameInJson`, `NoCardLeftOut`, `NoLineOfItsOwn` | Two cards whose UUID and minor orders differ, three majors, other guests that move the list of two on, blank lines, a section, five documents: a second replacement changes nothing, nobody else's lines are lost or reordered, no old rule stays beside new ones in a file that missed fewer than two changes of the list; the spelling of a flag changes no line, a document that is understood in part changes none either, and no word with a line break or a comma gets into a config. |
| `prefix` | `RowsOfOwnCards`, `RowsSurviveUpgrades`, `EntriesFollow` | Two nodes and a typed command at one file, under hand edits, deletions and failures: no row gets into the entry of a node that never had the card, an upgrade takes none out, and the entry follows the hardware. |
| `daemon` | `TypeOK`, `APollSettles`, `NothingRemovedByGuess`, `Follows` | Two guests, two moves of anything: documents, store, PVE's locks, the card, nvidia-uvm and its major. A poll during which nothing moves or fails leaves every guest right, whatever happened before; lines go only by an answer; in the end every guest is right, and systemd is told READY, even if the store never comes. |
| `bounded_cmd` | `TypeOK`, `NeverShort`, `NoHalfLeft`, `CallEnds`, `ZombiesCollected` | Call after call with children of any behaviour, helpers that leave the group or are stuck, and a pipe that comes to fail: no answer short of what could be read, nothing left running, every call ends (also of a child that writes more than its pipes hold and whose timeout does not pass while it works), every child that was killed and died is collected. |
| `boot` | `TypeOK`, `NoCardGuessedAway`, `QuietReadTrue`, `ReadyInTime`, `LeftOutByGuestsOnly`, `PingsBetweenSteps` | The boot pass and the polls after it, at each of which the hardware may move during the reading: READY after at most the inventory, the budget and one call; a guest left out only if documents took the whole budget; never more than one call and one lock wait between two pings; no card that was there is missing from a reading. |
| `orphan_uvm` | `LinesRecorded` (violated) | Finding 1. |
| `short_inventory` | `NeverSmaller` (violated) | Finding 2. |
| `stale_row` | `ExactlyTheCards` (violated) | Finding 3. |
| `stale_inventory` | `SkippedWithoutInventory` (violated) | Finding 4. |
| `failed_read` | `RetriedNextPoll` (violated) | Finding 5. |

### Bounds

- `MaxMoves` (`MaxSteps` in ConfFile) bounds how often the world moves or
  something fails *together*; the program itself is not bounded, and polls for
  ever. Three moves are what the hazards of Reconcile need: a key set or gone, a
  kill or an edit in the window, and a change of hardware. Two are enough for
  every hazard of `daemon` that is listed, since the cache and the record start
  from a poll that nothing disturbs; the two violations of its module have four.
- One card is enough in Reconcile and Daemon: nothing there counts cards, only
  whether any is selected. ConfFile has two, because their order matters there.
- Reconcile and ConfFile have three majors, so that a list of two is cut and a rule
  can be older than anything on it, and a state in which an old major is taken by
  another driver (`Taken500`). Daemon has two, and a state without the card and
  without nvidia-uvm (`AnyHardware`); any hardware and any number of majors is what its
  theorems are for (section 5). A poll without a driver and one without an inventory
  take the same branch, and the second is in the run.
- In `reconcile_one` a new container already has a hook and a rule of the kind this tool
  writes, by hand (`LinesByHand`), so that there is something to respect; in
  `reconcile_two` it has nothing of that kind (`BareConfig`).
- Two processes are the pairs that can interfere at one guest. `reconcile_one`
  has two guests instead, so that a pass is killed between guests and `retain`
  has something to keep and something to forget.
- PrefixSync has two nodes and two cards: one to keep and one to lose.
- BootPass counts time in units of five seconds: deadlines of 30, 10 and 30
  seconds, a budget of 60, a poll of 10, a lock wait of 5. A call takes no time,
  one unit, or all of its deadline. Four guests are more than the budget of two
  full calls reaches. Three moves of the hardware fall into one reading, enough
  to unload the driver, load it, and pull or reset a card; `/proc/devices` has one
  name on two rows.
- BoundedCmd has two names for processes, a pipe of one unit and two units of
  output per stream (one more than fits, so that a child blocks), and one unit of
  noise from a helper. Of the streams one may come to fail (`Fragile`). Two names are enough for one killed child to be there
  while the next call runs; with both taken a call fails to spawn.
- ConfFile's five documents are: everything said; one card by a word and a number,
  with no capability; a flag that is no flag; a version with a line break; an
  unknown key.
- PrefixSync's `Commands` is one node at which the command may be typed.
- `MaxLength` 12 in ConfFile bounds the length up to which a person adds
  lines; the longest rendered block has nine lines.

`reconcile_one` declares its two guests interchangeable: nothing in Reconcile tells
two guests apart, and the run checks safety only. No other run can declare a
symmetry: Daemon takes guests by number, and where two nodes or processes are
alike the run checks liveness.

### Fairness

- `Reconcile`: weak fairness of the daemon's start of a pass, and of every step
  of a pass that has begun. The loop sleeps ten seconds and begins again, and
  each wait inside a pass has a deadline. A command need never be run, so its
  start has none. No step of the world, and no failure, is fair.
- `PrefixSync`: weak fairness of the steps of a node's daemon: polls go on, and
  every five minutes one of them publishes even if nothing changed. A command
  may hang.
- `Daemon`: weak fairness of the tick (every call has a deadline)
  and of `FullDue` (five minutes pass).
- `BoundedCmd`: weak fairness of the caller (its turns go on), of the deadline
  (time passes, but an `ample` one not before a child that works has ended,
  unless a pipe that nobody can read any more keeps it from that),
  of a child that can write or end (one that hangs or is stuck cannot), and of
  the death of a killed process that is not stuck. Nothing is assumed of helpers,
  nor that what is stuck ever wakes. Output is finite: an endless writer is a
  hazard without a property.
- BootPass and ReadInventory state safety only; their times are bounds.

Moves of the world are bounded, so "in the end" reads "once the world has been
quiet for long enough".

### History variables

`keyed`, `ours`, `behind` (Reconcile), `behind` (ConfFile), `left` (PrefixSync), `calm`, `fresh`,
`asked`, `keyless`, `blurred` (Daemon), `since`, `missing`, `calm`
(ReadInventory), `stretch`, `onGuests` (BootPass) say what happened, for the properties. No
step of the program reads them. One step of the world does: a person who takes
out all the lines this tool wrote (`PveEdit`).

## 4. Where the code and its documentation part

Each is a run that finds the documented property violated; the quotations are
in `PROJECT.json`.

1. **A key removed while nvidia-uvm is unloaded orphans its UVM rules**
   (`ops/reconcile.rs:170`). With no major in use no UVM rule is owned, so the
   write leaves them, and the record is cleared all the same. Nothing removes
   them afterwards.
2. **A reading of the inventory can be torn** (`inventory.rs:266`). The directory is
   opened, and the driver taken for loaded, before the cards are read. When the
   driver is unloaded in between, each card's file is missing, which is only a note:
   the reading succeeds with a driver and no cards, where the module's text says
   that a reading is never smaller. Lines of guests and the node's entry go until the
   next poll.
3. **Rows of pulled cards stay** (`prefix.rs:139`). The entry is documented to
   be exactly the node's cards; a merge takes no row away, so a pulled card's row
   stays while another card does, and each full pass merges again.
4. **A failed inventory does not skip the reconcile** (`ops/daemon.rs:400`).
   The last good one is used, where the README says the reconcile is skipped.
5. **A failed document read is kept** (`ops/daemon.rs:525`). It is cached by its
   stamp like an answer, so the next poll does not ask again; the full pass does.

Not a finding, because the code says so itself (`prefix.rs:229-231`): two nodes
that both find no prefix file each set it whole, and the second takes the first
one's entry away. `EntriesFollow` shows that it comes back.

## 5. What is proved

Every safety property that a passing run checks is also a theorem, for all values of
the constants. Assumed is only the named `ASSUME` of the module, which TLC evaluates
in its runs.

| module | theorem | states |
|---|---|---|
| `ReconcileProofs` | `TypeCorrect`, `NothingLost`, `OnlyFitWritten`, `StrangersUntouched`, `Refinement` | below |
| `RecordProofs` | `CardsRecorded`, `RulesReplaceable` | `DriverLinesRecorded` and `UvmRulesReplaceable`, of the daemon alone |
| `ConfFileProofs` | `SplicingSettles`, `OthersKept`, `SetsAreEnough`, `OldRulesGo`, `SpellingsAgree`, `CardsWritten`, `NoLineInjected` | the seven properties of `conf_file` |
| `DaemonProofs` | `TypeCorrect`, `NoGuess`, `OnePollIsEnough` | `TypeOK`, `NothingRemovedByGuess`, `APollSettles` |
| `BootPassProofs` | `TypeCorrect`, `NoCardLost`, `QuietReading`, `ReadyByThen`, `BudgetWentToGuests`, `WatchdogFed` | the six invariants of `boot` |
| `BoundedCmdProofs` | `TypeCorrect`, `WholeAnswers`, `NothingLeftRunning` | the three invariants of `bounded_cmd` |
| `PrefixProofs` | `NoStrangersCards`, `UpgradesHarmless` | `RowsOfOwnCards`, `RowsSurviveUpgrades` |
| `SeqFilterProofs` | lemmas | what `Among` leaves of a list, and what the cut leaves of the majors |

### Reconcile

`ReconcileProofs` proves, for any sets of guests, processes, documents,
hardware, lines and any bound of moves:

| theorem | states |
|---|---|
| `TypeCorrect` | `Spec => []TypeOK`. Not only types: every line in a config comes from PVE, a person, a new container, or a document and the hardware. |
| `NothingLost` | `Spec => NoLostUpdate` |
| `OnlyFitWritten` | `Spec => OnlyFitConfigs` |
| `StrangersUntouched` | `Spec => HandsOff` |
| `Refinement` | `Spec => PromiseKept`: Reconcile implements GuestConfigs |

Assumed is `ReconcileAssumption`: the daemon is a process, `Free` is not, the
bound is a natural number, a new container has some main section, and nvidia-uvm has
at most one major at a time (`uvm_major` is an `Option`). TLC evaluates it in every
run of the module. Nothing else is assumed of the hardware, and nothing of the
documents or the lines.

None of `NoLostUpdate`, `OnlyFitConfigs` and `HandsOff` is inductive. That the write is of the config as it
stands cannot be concluded from the label `rename` alone; it takes what happened
four steps before. The inductive invariant is

    IInv == Typed /\ Planned /\ KeysKept /\ \A p \in Procs : Home(p)

- `Typed`: the types (and that `known` is a function of processes).
- `Planned`, for every process at a guest: `LockHeld`, that from the second look
  to the write the process holds the lock, its plan is one that may be written,
  the config it read carried no lock of PVE's, and the file, if it is there,
  still says what was read; and `KeyKnown`, that a key or a record in hand means
  the guest had a key.
- `KeysKept`: the record, and every document, only speaks of guests that ever had
  a key.
- `Home`: between guests a process has nothing in hand.

The one point that is subtle is which steps `LockHeld` is about. The labels
`note` and `major` are reached without the lock too, by a guest that was found in
sync; there nothing will be written. `Committed` tells the two apart by whether the plan
changes anything, which is what the code's branch tells them apart by. That
nothing is lost then follows: PVE edits under a free lock (`WorldPlanned`),
another process writes a guest only under its lock (`OthersPlanned`, from
`OthersUntouched`), and a destroyed guest drops out by "if it is there"; `OwnPlanned`
covers the process's own steps, and `StepInvariant` puts them together.

### The refinement

The initial states map to initial states (`InitSeen`), and every step maps to a
step of GuestConfigs or to none (`StepSeen`), given `IInv` before and after it.
`StepHanded` says that a process gets hardware and keys only by reading them, so
every step but the rename is a `Prepare` (`OtherStepsPrepare`). The rename is a
`Replace` if the config is there (`RenameReplaces`): `LockHeld` gives that what the
plan was made from is what stands, `PlanToWrite` that it was fit, and
`ReplacedLines` splits the lines that `Owned` covers into those of the major in use and
those of majors nobody has. If it is gone the rename is a `Revive`. The steps of
the world are themselves (`WorldSeen`).

### The record

With two processes `DriverLinesRecorded` is not true (the hazard at
`ops/reconcile.rs:138`), so `CardsRecorded` assumes `Procs = {Daemon}`. Its
invariant `RInv`, on top of `IInv`, says at each label what the pass at a guest has
made sure of (`Prepared`): what the tool wrote is in the text it read; a guest
without lines to come is noted only if nothing changes, and then has none; one with
lines to come is in the record before the write; at `clear` no driver line is left.
The last needs `DriverManaged` and `NothingStays`: a driver line is owned whatever
the major.

`RulesReplaceable` says of the list, cut at `UvmKept`, what `CardsRecorded` says of the
record. `behind[g]` counts the changes of the list that guest `g` has missed; that it is
below two says nothing of where in the list the guest's major stands. The invariant `UInv` does:

- `RulesListed`: a guest that missed nothing has no UVM rule but of the newest major,
  and one that missed a single change none but of majors on the list. So a change moves
  the first kind to the second, and the head of the old list is still on the new one
  (`RememberedList`).
- `ListKnown`: what a pass recalled is nothing, the list, or what the list was before
  the pass put the major in front; and a pass that is about to write lines has its major
  in front. The third case is why the later guests of a pass change nothing: they remember
  the same major on the same old list. The first is a failed read of the list, which the
  code takes for an empty one and then writes over; to `behind` every guest has missed
  everything then, so neither the property nor the theorem says anything of their old
  rules, until the next write brings each up to date.

With two processes it is not true (the hazard at `state.rs:158`), so this too assumes
`Procs = {Daemon}`.

### The file

`ConfFileProofs` is about sequences of any length. What `Among` does is proved in
`SeqFilterProofs` by induction, with the induction principle stated for a *set* of
numbers (`SetInduction`, from the well-foundedness of `<` and `WFMin`) and for a set of
lists (`ListInduction`): the library's theorems take a predicate, which the provers cannot
instantiate; a set does as well. From it: what is retained keeps its order, retaining
distributes over concatenation, and retaining twice is retaining from the intersection.

For all properties but `NoPiledUpRules` the inductive invariant `FInv` is types alone,
for they are about one step; what is hard is the step. In the order of the module:

- `TrimmedIs`, `TrimmedSeparated`: the list without its trailing blanks, and that a
  separator put behind it and trimmed again is gone.
- `Spliced`: of any list `s`, and any block whose lines are owned, the result of
  splicing (`WellSpliced`). The others' lines come out as they were; the block is at
  `Cut(s, o)`; what is owned of the result is the block; and the place at which the
  next splice would put it is the same (`JoinedAt`), so the next splice is the identity.
  The last point is where the code counts among lines that it drops afterwards: if the block
  is empty the place moves, and nothing depends on it.
- `RenderedSet`: what `render` lists is what `GpuLines!Render` has as a set. It needs
  the cards by their minors to be all the cards (`ByMinorRange`: the minors differ, so the
  cards have different numbers of cards below them, and n of those fill 0 to n - 1).
- `DesiredLines`: the block is owned. Together with `Spliced` this is
  `SplicingSettles`, `OthersKept` and `SetsAreEnough`.
- `OldRulesGo` needs to know where in the list of two the majors of the file's rules stand,
  which is `RulesListed`: with `behind` = 0 every rule of the tool's is of the newest major,
  and with `behind` below `UvmKept` of one on the list. A change of the list moves the
  first kind to the second and the second to neither (`RulesMissed`); a write leaves
  rules of the major in use, which is first on the list then (`RulesWritten`). What is on the list is
  owned unless another driver has it, and owned rules go. Of a rule
  that missed two changes nothing is claimed: the code keeps it, as the comment at `uvm_majors` says.
- `ParseInJson`: a document that parses, parses to the same after a JSON-mode write.
- `CardsSaid`, `WordsTaken`: what the words of a document that parses can be.

`SetsAreEnough` carries most: the modules that prove things about sets of lines
are entitled to them for every file, not only for those that TLC tried.

`ConfFileAssumption` is about the inputs. The minors of a node's cards differ (the
driver numbers them); nvidia-uvm has at most one major, neither 195 nor `*` (the
kernel gives a name its major once); a YAML map has a key once (the parser refuses
others); and a text has the same characters wherever in a document it stands, a capability's
name neither a line break nor a comma among them, which only says that the
records that stand for words stand for texts. It is needed: with two cards of one
minor the lines would be equal, and the list would not be what the set is.

### The daemon

`NoGuess` needs to know that the cache is honest (`Honest`): of a guest in the
record, an answer "no key" was true at some time since its last plan with one. That is
kept because "no document" at the path counts as an answer only for guests
without a record, and everything else is asked.

`DaemonAssumption` says of the hardware that nvidia-uvm, if it is loaded, has one major,
and that `*` is none; the theorems are for nodes with and without it. A guest is planned
with the majors that the poll has read, and another guest's write moves the list, so it takes an
argument that the second plan of the same poll, with a list that is now a different one, would ask for the
same: the longer and the shorter list own different rules, but each owns what is asked for
(`LessOwned`), and so a settled config stays settled (`PlanSettles`, `GoodStays`, `ListStays`). `Progress`
says of the list that at the phase of the guests it is what the pass knows, or that with the
major in use put in front.

`OnePollIsEnough` begins with an arbitrary state of the loop, so it has to say what a
cache may hold at any time (`Dated`): no stamp is later than the next one to be given,
and an answer cached under the stamp the document has *is* the document, unless the
guest is `blurred` (a second edit under one stamp). Since the stamp is taken before the
document is read, an edit in between leaves an old stamp behind and the next poll asks
again. The other half, `Calm`, follows a poll in which nothing moves or fails: the
inventory is the hardware, the guests the loop over documents has behind it were heard
(`Heard`), and those the loop over guests has behind it are settled (`Good`). `Progress`
says so for each phase, and the end of the last is the theorem.

### The boot pass

`BootInv` has two halves. Of the reading: `Complete`, that a card there since the
beginning is either read or still to be, and `Accurate`, that what is so far read is
what is there while nothing has moved. They are proved of `ReadStep`, any step of a
reading, and `PollReads` says that every step of BootPass is one or leaves the
reading alone. Of time: `Timely` bounds the clock at each phase (by the deadlines
before the budget begins, by the deadline of the pass after, and by one call
more when a document was asked for just before), `Accounted` says that what has
passed since the budget began was spent on documents, and `Pinged` bounds the
time since the last ping. `BootAssumption` has the calls of the inventory, and the
poll, no longer than a `pve-meta` call, as the code's constants are.

### Bounded commands

`Held` says where a child is gone, killed or read out: from the moment it is
collected nothing of it can write, and once the first pipe has been emptied after that
nothing of the child's comes back (`EmptyPipe`), though a helper may still write; a pipe
that has failed is left out from there on.
With `TypeOK`, which says that the list is exactly the killed and uncollected
children, and `NeverShort` itself that is inductive.

### The prefix file

`PInv` has, besides types and `RowsOfOwnCards` itself, `OwnReadings`: a reading that a
publisher still holds, however old, is of cards that its node has or has had. A
card that is pulled goes from `gpus` to `left` in the same step, so an old reading stays
one. `UpgradesHarmless` needs only the types: an entry goes by a removal, and whatever
`get` said, that is decided only from a reading with the driver and without cards; a
bootstrap by the node leaves it an entry of its own.

### Only model-checked

All liveness: `Converges`, `EntriesFollow`, `Follows`, `CallEnds`,
`ZombiesCollected`. Reasoning under fairness and about ENABLED is out of the installed
prover's reach. The five violated properties are counterexamples and have nothing to prove.

## 6. What is not modelled, and what is taken as given

- Characters. A config line is told apart by what `is_managed` looks at, a word of a
  document by its prefix and its classes of characters, `/proc` and `nvidia-smi` by
  what their parsers return. Quoting, number parsing and messages are left out.
- To Reconcile and Daemon the inventory is read in one step; its steps, and what can
  go wrong between them, are ReadInventory's. To all modules but BoundedCmd a
  call answers whole or fails.
- BoundedCmd has one caller, as the program has: the lock around the list of killed
  children is never waited for. A child let go by a failed `set_nonblocking` is
  nobody's any more.
- A call in BootPass that cannot be started at all takes no time; the code does
  not ping then, the model does.
- In `Daemon` the guests of the node are fixed, so `Record::retain` has nothing
  to do there (Reconcile has it); `pve-meta get` with `/etc/pve` away is an error
  and not exit code 2; and time is only the two events
  that matter, the budget and the five minutes. In `Reconcile` the document is
  read directly and the cache is not in between: that is `Daemon`'s subject.
- ConfFile's reconcile reads the list of majors; that the read fails is in Reconcile and
  Daemon.
- In PrefixSync a reading is one step and true of its node, so a torn one (finding 2) is not followed
  to the entry that it removes. `RowsOfOwnCards` is about what is in an entry;
  that another node's entry is lost by a `set` is what `EntriesFollow` makes up for.
- `LeftOutByGuestsOnly` is about guests whose document was read: one that was skipped while the
  documents were read keeps what it had of it, at boot nothing.
- `NeverShort` leaves out a pipe that cannot be read: `drain` swallows the error (`cmd.rs:133`), and
  the call answers with what it has. A read that fails once and then works again is
  made up for by the next one.
- A UUID with the form of one that names no card of the node is skipped by design (cards
  move), so `NoCardLeftOut` cannot tell a misspelt one from it.
- `write_atomic` is one step: the rename is atomic and a left-over temporary file
  is read by nobody. A power loss that reorders writes is not modelled.
- A guest is its vmid. A container destroyed and another created under the same
  vmid between two polls is not told apart by the code either.
- The wait for the flock is a step that may end without it.
- `status` reads, plans as Reconcile does and prints; argument parsing and
  packaging have no state. The log of states already reported (`Log`) decides what is
  printed and nothing else.

## 7. Plan

Done: all modules of section 2, with the theorems of section 5.

What is left, in this order:

1. What two processes at one node still guarantee of the record and the list of
   majors, where `CardsRecorded` and `RulesReplaceable` assume one: a weaker property
   that holds for any number, from the same invariants.
2. ReadInventory in place of the one-step `TakeStock` of Reconcile, so that finding 2
   is followed into a config; the product of the two needs smaller instances of
   both.
3. Guests that come and go in Daemon, with `retain` and the log's `settle`.

## 8. Running it

    tlc -config reconcile_one.cfg MCReconcile      # and so on, as in PROJECT.json
    tlapm ReconcileProofs.tla                      # and the other *Proofs modules

The longest runs are `daemon` (0.93 million distinct states, with liveness), `bounded_cmd` (0.45
million, with liveness), `reconcile_one` (0.36 million) and `reconcile_two` (0.34 million),
both with the refinement, and `conf_file` (0.12 million of long
sequences); each takes one to three minutes with two workers, the other
runs less. Of the proofs `ConfFileProofs` (two to three minutes) and `ReconcileProofs` take longest.
