---------------------------- MODULE ReadInventory ----------------------------
(***************************************************************************)
(* One reading of the node's hardware (inventory.rs, read) in its steps:   *)
(* /proc/devices, the directory of the cards, each card's `information`,   *)
(* and, when nvidia-uvm is not loaded, nvidia-modprobe and all of it once  *)
(* more; then the names.  Between any two steps the driver can be loaded   *)
(* or unloaded, and a card can come, go or be in reset.                    *)
(*                                                                         *)
(* The module that extends this one says when a reading begins and how     *)
(* long its calls take.                                                    *)
(***************************************************************************)
EXTENDS Naturals, Sequences, FiniteSets

CONSTANTS
    Cards,        \* what the slots of the node may hold
    Uvm,          \* the major that nvidia-uvm gets
    OtherRows,    \* the other rows of /proc/devices, in their order
    MaxMoves      \* bound: how often the hardware moves during a reading

ASSUME ReadAssumption ==
    /\ MaxMoves \in Nat /\ Uvm \in Nat
    /\ OtherRows \in Seq([name : STRING, major : Nat])
    /\ \A i \in DOMAIN OtherRows : OtherRows[i].name # "nvidia-uvm" /\ OtherRows[i].major # Uvm

VARIABLES
    driver,       \* whether the driver is loaded
    slot,         \* per card: no directory, one without `information`, one
                  \* that names the card, one that does not (in reset)
    uvm,          \* whether nvidia-uvm is loaded
    step,         \* where the reading is
    again,        \* whether it is the second one, after nvidia-modprobe
    inv,          \* the inventory so far
    entries,      \* the directory entries it has before it
    result,       \* of the last reading: "failed", "none", or "read" (inv)
    moves,
    since,        \* history: the cards whose directory was there ever since the reading began
    missing,      \* history: cards that were not, at a time in it when the driver was loaded
    calm          \* history: nothing moved since it began

hardware == <<driver, slot, uvm>>
reading == <<step, again, inv, entries, result>>
witness == <<since, missing, calm>>
readVars == <<hardware, reading, moves, witness>>

Slots == {"empty", "bare", "card", "reset"}
Listed == {c \in Cards : slot[c] # "empty"}
Present == {c \in Cards : slot[c] \in {"card", "reset"}}

\* Without the driver there is nothing below /proc/driver/nvidia, and no
\* nvidia-uvm, which depends on it.
NoInventory == [driver |-> FALSE, gpus |-> {}, named |-> {}, uvm |-> {}, chars |-> {}]

\* The hardware is of interest while it is read; in between it is not followed,
\* and the next reading finds any.
Unwatched == [driver |-> FALSE, slot |-> [c \in Cards |-> "empty"], uvm |-> FALSE]
Possible ==
    {Unwatched} \cup [driver : {TRUE}, slot : [Cards -> Slots], uvm : BOOLEAN]
Is(h) == driver = h.driver /\ slot = h.slot /\ uvm = h.uvm
Becomes(h) == driver' = h.driver /\ slot' = h.slot /\ uvm' = h.uvm

InitReading ==
    /\ Is(Unwatched)
    /\ step = "off" /\ again = FALSE /\ inv = NoInventory /\ entries = {} /\ result = "none"
    /\ moves = 0
    /\ since = {} /\ missing = {} /\ calm = FALSE

-----------------------------------------------------------------------------
\* parse_devices: the last row of a name wins.
Rows == OtherRows \o (IF uvm THEN <<[name |-> "nvidia-uvm", major |-> Uvm]>> ELSE <<>>)
LastOfName(rows) ==
    {rows[i] : i \in {j \in DOMAIN rows :
                         \A k \in DOMAIN rows : rows[k].name = rows[j].name => k <= j}}

Begin ==
    /\ step = "off"
    /\ step' = "devices" /\ again' = FALSE /\ result' = "none"
    /\ inv' = NoInventory /\ entries' = {}
    /\ \E h \in Possible : Becomes(h)
    /\ since' = Present' /\ calm' = TRUE
    /\ missing' = IF driver' THEN Cards \ Present' ELSE {}
    /\ moves' = 0

\* read_from: the majors, then the directory.  No directory is an answer.
ReadDevices ==
    /\ step = "devices"
    /\ inv' = [NoInventory EXCEPT
                 !.uvm = {r.major : r \in {r \in LastOfName(Rows) : r.name = "nvidia-uvm"}},
                 !.chars = {r.major : r \in LastOfName(Rows)}]
    /\ step' = "list"
    /\ UNCHANGED <<hardware, again, entries, result, moves, witness>>

Done(answer) ==
    /\ step' = "off" /\ result' = answer /\ entries' = {} /\ again' = FALSE

\* What comes after a read_from that succeeded with `stock`.
NextStep(stock) ==
    IF ~again /\ stock.driver /\ stock.uvm = {} THEN "modprobe"
    ELSE IF stock.gpus # {} THEN "names" ELSE "answer"

ListCards ==
    /\ step = "list"
    /\ inv' = [inv EXCEPT !.driver = driver]
    /\ entries' = Listed
    /\ step' = IF driver THEN "cards" ELSE NextStep(inv')
    /\ UNCHANGED <<hardware, again, result, moves, witness>>

\* The next directory's `information`.  One that names no card fails the
\* reading; a directory without one is passed over.
\* Mutant: a card that will not say which it is is passed over too.
ReadCardOrSkip(c) ==
    /\ step = "cards" /\ c \in entries
    /\ inv' = [inv EXCEPT !.gpus = IF slot[c] = "card" THEN @ \cup {c} ELSE @]
    /\ entries' = entries \ {c}
    /\ UNCHANGED <<step, again, result>>
    /\ UNCHANGED <<hardware, moves, witness>>

ReadCard(c) ==
    /\ step = "cards" /\ c \in entries
    /\ IF slot[c] = "reset"
       THEN Done("failed") /\ inv' = NoInventory
       ELSE /\ inv' = [inv EXCEPT !.gpus = IF slot[c] = "card" THEN @ \cup {c} ELSE @]
            /\ entries' = entries \ {c}
            /\ UNCHANGED <<step, again, result>>
    /\ UNCHANGED <<hardware, moves, witness>>

CardsRead ==
    /\ step = "cards" /\ entries = {}
    /\ step' = NextStep(inv)
    /\ UNCHANGED <<hardware, again, inv, entries, result, moves, witness>>

\* nvidia-modprobe, which may load nvidia-uvm and may not, and may fail; then
\* everything is read again.
\* Mutant: the first reading is kept.
LoadUvmAndKeep ==
    /\ step = "modprobe"
    /\ uvm' \in {uvm, driver}
    /\ again' = TRUE /\ step' = IF inv.gpus # {} THEN "names" ELSE "answer"
    /\ UNCHANGED <<driver, slot, inv, entries, result, moves, witness>>

LoadUvm ==
    /\ step = "modprobe"
    /\ uvm' \in {uvm, driver}
    /\ again' = TRUE /\ step' = "devices"
    /\ UNCHANGED <<driver, slot, inv, entries, result, moves, witness>>

\* nvidia-smi, which may fail, names the cards that it sees.
NameCards ==
    /\ step = "names"
    /\ inv' \in {inv, [inv EXCEPT !.named = {c \in inv.gpus : slot[c] = "card"}]}
    /\ step' = "answer"
    /\ UNCHANGED <<hardware, again, entries, result, moves, witness>>

Answer ==
    /\ step = "answer"
    /\ Done("read")
    /\ UNCHANGED <<hardware, inv, moves, witness>>

\* The caller has what it wants of the answer.
Forget ==
    /\ step = "off" /\ result # "none"
    /\ result' = "none" /\ inv' = NoInventory /\ moves' = 0
    /\ since' = {} /\ missing' = {} /\ calm' = FALSE
    /\ Becomes(Unwatched)
    /\ UNCHANGED <<step, again, entries>>

\* /proc/devices, the directory or a file cannot be read.
ReadFails ==
    /\ step \in {"devices", "list", "cards"}
    /\ Done("failed") /\ inv' = NoInventory
    /\ UNCHANGED <<hardware, moves, witness>>

-----------------------------------------------------------------------------
\* The hardware.
Shifts ==
    /\ step # "off" /\ moves < MaxMoves /\ moves' = moves + 1
    /\ calm' = FALSE
    /\ since' = since \cap {c \in Cards : slot'[c] \in {"card", "reset"}}
    /\ missing' = IF driver' THEN missing \cup {c \in Cards : slot'[c] \notin {"card", "reset"}}
                  ELSE missing
    /\ UNCHANGED reading

Unload ==
    /\ driver
    /\ driver' = FALSE /\ uvm' = FALSE /\ slot' = [c \in Cards |-> "empty"]
    /\ Shifts
Load ==
    /\ ~driver
    /\ driver' = TRUE /\ uvm' \in BOOLEAN /\ slot' \in [Cards -> {"empty", "card"}]
    /\ Shifts
CardShifts(c) ==
    /\ driver
    /\ \E s \in Slots \ {slot[c]} : slot' = [slot EXCEPT ![c] = s]
    /\ UNCHANGED <<driver, uvm>>
    /\ Shifts
UvmShifts ==
    /\ driver
    /\ uvm' = ~uvm
    /\ UNCHANGED <<driver, slot>>
    /\ Shifts
HardwareShifts == Unload \/ Load \/ UvmShifts \/ \E c \in Cards : CardShifts(c)

-----------------------------------------------------------------------------
HardwareOK ==
    /\ driver \in BOOLEAN /\ slot \in [Cards -> Slots] /\ uvm \in BOOLEAN
    /\ ~driver => Listed = {} /\ ~uvm
StockOK ==
    /\ inv \in [driver : BOOLEAN, gpus : SUBSET Cards, named : SUBSET Cards,
                uvm : SUBSET {Uvm}, chars : SUBSET Nat]
    /\ inv.named \subseteq inv.gpus /\ inv.uvm \subseteq inv.chars
ReadTypeOK ==
    /\ HardwareOK /\ StockOK
    /\ step \in {"off", "devices", "list", "cards", "modprobe", "names", "answer"}
    /\ again \in BOOLEAN /\ result \in {"none", "read", "failed"}
    /\ entries \subseteq Cards /\ (entries # {} => step = "cards")
    /\ moves \in 0..MaxMoves
    /\ since \subseteq Cards /\ missing \subseteq Cards /\ calm \in BOOLEAN

\* A card that was there all the time a successful reading took, in reset or
\* not, is in what was read: a container keeps it ("never a smaller
\* inventory").
NoCardGuessedAway ==
    result = "read" /\ inv.driver => since \subseteq inv.gpus

\* An undisturbed reading that succeeds tells what is there when it ends, the
\* nvidia-uvm that it has loaded itself included.
QuietReadTrue ==
    result = "read" /\ calm =>
        /\ inv.driver = driver
        /\ inv.gpus = {c \in Cards : slot[c] = "card"} /\ Present = inv.gpus
        /\ inv.uvm = (IF uvm THEN {Uvm} ELSE {})

\* "A read either succeeds or fails": a reading that says the driver is there
\* and leaves a card out had a moment at which the driver was loaded and the
\* card was not there.  Otherwise what was read is half of a driver that goes.
NeverSmaller ==
    result = "read" /\ inv.driver => Cards \ inv.gpus \subseteq missing
=============================================================================
