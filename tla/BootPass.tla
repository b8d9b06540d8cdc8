------------------------------ MODULE BootPass ------------------------------
(***************************************************************************)
(* The daemon's polls with the time they take (ops/daemon.rs, run, tick,   *)
(* read_documents; notify.rs; the unit file): the boot pass, its budget    *)
(* and READY, and the watchdog's pings in it and in every later poll.      *)
(*                                                                         *)
(* What is read, and what a document or a guest comes to, is in modules    *)
(* Daemon and Reconcile; the reading of the inventory is ReadInventory's,  *)
(* step by step.  Time is in units of which a deadline has a whole number; *)
(* a call takes some of it, up to its deadline, and everything else none.  *)
(***************************************************************************)
EXTENDS ReadInventory

CONSTANTS
    Guests,                 \* container ids: numbers, in whose order loops go
    Meta, Smi, Modprobe,    \* deadlines of the calls
    Budget,                 \* Timing::boot
    Poll,                   \* Timing::poll
    LockWait                \* Timing::lock_wait, of later polls

ASSUME BootAssumption ==
    /\ Guests \subseteq Nat
    /\ {Meta, Smi, Modprobe, Budget, Poll, LockWait} \subseteq Nat \ {0}
    /\ Smi <= Meta /\ Modprobe <= Meta /\ Poll <= Meta

VARIABLES
    phase,       \* where the poll is
    todo,        \* the guests its loop has before it
    kept,        \* the inventory it keeps: none, of a node with or without driver
    readable,    \* the guests of this poll whose document it has
    done,        \* the guests this poll has reconciled
    calls,       \* the calls publish may still make
    ready,       \* whether systemd was told READY
    deadline,    \* of the boot pass, once its budget has begun
    clock,       \* since the daemon was started, until READY
    quiet,       \* since the last ping of the watchdog
    stretch,     \* history: the same, or, at a ping, how long it had been
    onGuests     \* history: what the boot pass has spent on documents

pass == <<phase, todo, kept, readable, done, calls, ready, deadline>>
time == <<clock, quiet, stretch, onGuests>>
vars == <<readVars, pass, time>>

\* The guest whose turn it is.
Turn(g) == g \in todo /\ \A h \in todo : g <= h

Init ==
    /\ InitReading
    /\ phase = "top" /\ todo = {} /\ kept = "none" /\ readable = {} /\ done = {} /\ calls = 0
    /\ ready = FALSE /\ deadline = 0
    /\ clock = 0 /\ quiet = 0 /\ stretch = 0 /\ onGuests = 0

-----------------------------------------------------------------------------
\* Time passes, and then the watchdog is pinged or not.
Passes(d, ping) ==
    /\ clock' = IF ready THEN clock ELSE clock + d
    /\ stretch' = quiet + d
    /\ quiet' = IF ping THEN 0 ELSE quiet + d
    /\ onGuests' = IF ~ready /\ phase = "get" THEN onGuests + d ELSE onGuests
AtOnce == UNCHANGED time
PingThen(d) ==
    /\ stretch' = (IF quiet > d THEN quiet ELSE d) /\ quiet' = d
    /\ UNCHANGED <<clock, onGuests>>
Ping == PingThen(0)

\* A call of a tool answers at once, soon or at its deadline; when it returns
\* it pings (cmd.rs).
\* Mutant: only the loops ping.
CallTakesSilently(max) == \E d \in {0, 1, max} : Passes(d, FALSE)

CallTakes(max) == \E d \in {0, 1, max} : Passes(d, TRUE)

-----------------------------------------------------------------------------
\* tick: alive, then the inventory.
TopOfPoll ==
    /\ phase = "top"
    /\ Ping
    /\ Begin
    /\ phase' = "inventory"
    /\ UNCHANGED <<todo, kept, readable, done, calls, ready, deadline>>

Reads ==
    /\ phase = "inventory"
    /\ \/ /\ \/ ReadDevices \/ ListCards \/ CardsRead \/ Answer
             \/ \E c \in Cards : ReadCard(c)
          /\ AtOnce
       \/ LoadUvm /\ CallTakes(Modprobe)
       \/ NameCards /\ CallTakes(Smi)
    /\ UNCHANGED pass
ReadingFails == phase = "inventory" /\ ReadFails /\ AtOnce /\ UNCHANGED pass
Shakes == phase = "inventory" /\ HardwareShifts /\ AtOnce /\ UNCHANGED pass

\* take_inventory keeps what was read; then the budget begins.
\* Mutant: it began with the tick.
BudgetFromStart == IF ready THEN deadline ELSE Budget

BudgetFrom == IF ready THEN deadline ELSE clock + Budget
Spent == ~ready /\ clock >= deadline

InventoryTaken ==
    /\ phase = "inventory"
    /\ kept' = IF result # "read" THEN kept ELSE IF inv.driver THEN "driver" ELSE "no driver"
    /\ Forget
    /\ deadline' = BudgetFrom
    /\ phase' = "vmlist"
    /\ AtOnce
    /\ UNCHANGED <<todo, readable, done, calls, ready>>

\* tick returns, before it published; the first time READY is next.
Return ==
    /\ phase' = IF ready THEN "sleep" ELSE "report"
    /\ todo' = {}

Vmlist ==
    /\ phase = "vmlist"
    /\ phase' = "docs" /\ todo' = Guests
    /\ AtOnce
    /\ UNCHANGED <<readVars, kept, readable, done, calls, ready, deadline>>
VmlistFails ==
    /\ phase = "vmlist"
    /\ Return
    /\ AtOnce
    /\ UNCHANGED <<readVars, kept, readable, done, calls, ready, deadline>>

\* read_documents, at the next guest: alive; nothing when the time is up; no
\* call when there is no document or, later, the last answer stands; or one.
\* Mutant: the documents are all read.
AtDocumentAlways(g) ==
    /\ phase = "docs" /\ Turn(g)
    /\ Ping
    /\ \/ todo' = todo \ {g} /\ readable' \in {readable, readable \cup {g}} /\ UNCHANGED phase
       \/ phase' = "get" /\ UNCHANGED <<todo, readable>>
    /\ UNCHANGED <<readVars, kept, done, calls, ready, deadline>>

AtDocument(g) ==
    /\ phase = "docs" /\ Turn(g)
    /\ Ping
    /\ \/ Spent /\ todo' = todo \ {g} /\ UNCHANGED <<phase, readable>>
       \/ /\ ~Spent /\ todo' = todo \ {g} /\ UNCHANGED phase
          /\ readable' \in {readable \cup {g}} \cup (IF ready THEN {readable} ELSE {})
       \/ ~Spent /\ phase' = "get" /\ UNCHANGED <<todo, readable>>
    /\ UNCHANGED <<readVars, kept, done, calls, ready, deadline>>

Get(g) ==
    /\ phase = "get" /\ Turn(g)
    /\ CallTakes(Meta)
    /\ readable' \in {readable, readable \cup {g}}
    /\ todo' = todo \ {g}
    /\ phase' = "docs"
    /\ UNCHANGED <<readVars, kept, done, calls, ready, deadline>>

\* Without an inventory with a driver the tick returns; else the guests whose
\* document it has.
\* Mutant: all guests.
DocumentsDoneForAll ==
    /\ phase = "docs" /\ todo = {}
    /\ IF kept = "driver" THEN phase' = "guests" /\ todo' = Guests ELSE Return
    /\ AtOnce
    /\ UNCHANGED <<readVars, kept, readable, done, calls, ready, deadline>>

DocumentsDone ==
    /\ phase = "docs" /\ todo = {}
    /\ IF kept = "driver" THEN phase' = "guests" /\ todo' = readable ELSE Return
    /\ AtOnce
    /\ UNCHANGED <<readVars, kept, readable, done, calls, ready, deadline>>

\* A guest: alive; out of time, the rest is left; else it is reconciled, and
\* only a later poll waits for its lock.
AtGuest(g) ==
    /\ phase = "guests" /\ Turn(g) /\ ~Spent
    /\ \E d \in IF ready THEN {0, LockWait} ELSE {0} : PingThen(d)
    /\ done' = done \cup {g} /\ todo' = todo \ {g}
    /\ UNCHANGED <<readVars, phase, kept, readable, calls, ready, deadline>>

GuestsDone ==
    /\ phase = "guests"
    /\ todo = {} \/ Spent
    /\ todo' = {}
    /\ IF ready THEN phase' = "publish" /\ calls' \in {0, 2}
       ELSE phase' = "report" /\ UNCHANGED calls
    /\ AtOnce
    /\ UNCHANGED <<readVars, kept, readable, done, ready, deadline>>

\* READY, whatever the pass came to; then the prefix file.
Report ==
    /\ phase = "report"
    /\ ready' = TRUE
    /\ phase' = "publish" /\ calls' \in IF kept = "none" THEN {0} ELSE {0, 2}
    /\ clock' = 0 /\ onGuests' = 0 /\ deadline' = 0
    /\ UNCHANGED <<readVars, todo, kept, readable, done, quiet, stretch>>

\* publish: a `get`, and a `set` or a `merge` if that is due.
Publish ==
    /\ phase = "publish" /\ calls > 0
    /\ CallTakes(Meta)
    /\ calls' \in {0, calls - 1}
    /\ UNCHANGED <<readVars, phase, todo, kept, readable, done, ready, deadline>>
Published ==
    /\ phase = "publish" /\ calls = 0
    /\ phase' = "sleep"
    /\ AtOnce
    /\ UNCHANGED <<readVars, todo, kept, readable, done, calls, ready, deadline>>

Sleep ==
    /\ phase = "sleep"
    /\ Passes(Poll, FALSE)
    /\ phase' = "top" /\ readable' = {} /\ done' = {}
    /\ UNCHANGED <<readVars, todo, kept, calls, ready, deadline>>

Next ==
    \/ TopOfPoll \/ Reads \/ ReadingFails \/ Shakes \/ InventoryTaken
    \/ Vmlist \/ VmlistFails \/ DocumentsDone \/ GuestsDone
    \/ Report \/ Publish \/ Published \/ Sleep
    \/ \E g \in Guests : AtDocument(g) \/ Get(g) \/ AtGuest(g)

Spec == Init /\ [][Next]_vars

-----------------------------------------------------------------------------
Phases == {"top", "inventory", "vmlist", "docs", "get", "guests", "report", "publish", "sleep"}
TypeOK ==
    /\ ReadTypeOK
    /\ phase \in Phases /\ (step # "off" => phase = "inventory")
    /\ todo \subseteq Guests /\ readable \subseteq Guests /\ done \subseteq readable
    /\ kept \in {"none", "driver", "no driver"} /\ calls \in 0..2 /\ ready \in BOOLEAN
    /\ {deadline, clock, quiet, stretch, onGuests} \subseteq Nat

\* READY comes no later than the inventory, the budget and one call that was
\* outstanding when it ran out, however many guests there are and however
\* their documents hang ("the worst honest case").
ReadyInTime == clock <= Modprobe + Smi + Budget + Meta

\* At READY, a guest whose document was read and that was not reconciled is
\* one that the boot's own work on guests left no time for: all of the budget
\* went there, and nothing of it into the inventory.
LeftOutByGuestsOnly ==
    phase = "report" /\ kept = "driver" /\ ~(readable \subseteq done) => onGuests >= Budget

\* Between two pings lies at most one bounded call and one wait for a lock,
\* far below the watchdog's interval ("well above the longest single step").
PingsBetweenSteps == stretch <= LockWait + Meta
=============================================================================
