--------------------------- MODULE BootPassProofs ---------------------------
(***************************************************************************)
(* For all cards, guests and deadlines: what a reading of the inventory    *)
(* may say, and how long the boot pass may take and what it may leave out. *)
(***************************************************************************)
EXTENDS BootPass, TLAPS

\* nvidia-uvm has one row or none, which is what the table says of it.
LEMMA UvmRow ==
    {r.major : r \in {r \in LastOfName(Rows) : r.name = "nvidia-uvm"}} = IF uvm THEN {Uvm} ELSE {}
  <1> DEFINE row == [name |-> "nvidia-uvm", major |-> Uvm]
  <1>1. \A i \in DOMAIN OtherRows : OtherRows[i].name # "nvidia-uvm"
    BY ReadAssumption
  <1>2. CASE ~uvm
    <2>1. Rows = OtherRows
      BY <1>2, ReadAssumption DEF Rows
    <2> QED
      BY <1>1, <1>2, <2>1 DEF LastOfName
  <1>3. CASE uvm
    <2>1. Rows = OtherRows \o <<row>>
      BY <1>3 DEF Rows
    <2>2. /\ DOMAIN Rows = 1..(Len(OtherRows) + 1) /\ Len(OtherRows) \in Nat
          /\ Rows[Len(OtherRows) + 1] = row
          /\ \A i \in 1..Len(OtherRows) : i \in DOMAIN OtherRows /\ Rows[i] = OtherRows[i]
      BY <2>1, ReadAssumption
    <2>3. \A i \in DOMAIN Rows : Rows[i].name = "nvidia-uvm" => i = Len(OtherRows) + 1
      BY <1>1, <2>2
    <2>4. row \in LastOfName(Rows)
      BY <2>2, <2>3 DEF LastOfName
    <2>5. \A r \in LastOfName(Rows) : r.name = "nvidia-uvm" => r = row
      BY <2>2, <2>3 DEF LastOfName
    <2> QED
      BY <1>3, <2>4, <2>5
  <1> QED
    BY <1>2, <1>3

\* Every row has a number, and the majors of the table are some of them.
LEMMA RowMajors == {r.major : r \in LastOfName(Rows)} \subseteq Nat
  <1> DEFINE row == [name |-> "nvidia-uvm", major |-> Uvm]
  <1>1. Rows = OtherRows \/ Rows = OtherRows \o <<row>>
    BY ReadAssumption DEF Rows
  <1>2. \A j \in 1..Len(OtherRows) : OtherRows[j].major \in Nat
    <2> DEFINE R == [name : STRING, major : Nat]
    <2>1. OtherRows \in Seq(R)
      BY ReadAssumption
    <2> HIDE DEF R
    <2>2. \A j \in 1..Len(OtherRows) : OtherRows[j] \in R
      BY <2>1
    <2> QED
      BY <2>2 DEF R
  <1>3. ASSUME NEW i \in DOMAIN Rows PROVE Rows[i].major \in Nat
    <2>1. CASE Rows = OtherRows
      <3>1. i \in 1..Len(OtherRows)
        BY <2>1, ReadAssumption
      <3> QED
        BY <2>1, <3>1, <1>2
    <2>2. CASE Rows = OtherRows \o <<row>>
      <3>1. /\ Len(OtherRows) \in Nat /\ i \in 1..(Len(OtherRows) + 1)
            /\ Rows[Len(OtherRows) + 1] = row
            /\ \A j \in 1..Len(OtherRows) : Rows[j] = OtherRows[j]
        BY <2>2, ReadAssumption
      <3>2. row.major \in Nat
        BY ReadAssumption
      <3>3. i \in 1..Len(OtherRows) \/ i = Len(OtherRows) + 1
        BY <3>1
      <3> QED
        BY <3>1, <3>2, <3>3, <1>2
    <2> QED
      BY <1>1, <2>1, <2>2
  <1> QED
    BY <1>3 DEF LastOfName

-----------------------------------------------------------------------------
\* What is so far read, at each step: no card that was there all along has
\* been left out,
Complete ==
    /\ since \subseteq Present
    /\ step = "cards" => since \subseteq entries \cup inv.gpus
    /\ step \in {"modprobe", "names", "answer"} => (inv.driver => since \subseteq inv.gpus)
    /\ NoCardGuessedAway
    /\ result # "none" => step = "off"

\* and, when nothing has moved, what was read is as it is.
Whole ==
    /\ inv.gpus = {c \in Cards : slot[c] = "card"} /\ Present = inv.gpus
    /\ inv.driver = driver
Accurate ==
    /\ calm /\ step = "list" => inv.uvm = (IF uvm THEN {Uvm} ELSE {}) /\ inv.gpus = {}
    /\ calm /\ step = "cards" =>
          /\ inv.driver = driver
          /\ inv.uvm = (IF uvm THEN {Uvm} ELSE {})
          /\ \A c \in Cards : /\ c \in inv.gpus => slot[c] = "card"
                              /\ c \in Present => c \in entries \cup inv.gpus
    /\ calm /\ step \in {"modprobe", "names", "answer"} =>
          Whole /\ inv.uvm = (IF uvm THEN {Uvm} ELSE {})
    /\ QuietReadTrue
    /\ result # "none" => step = "off"

ReadInv == ReadTypeOK /\ Complete /\ Accurate

\* Every step of a poll is one of these to the reading.
ReadStep ==
    \/ Begin \/ ReadDevices \/ ListCards \/ (\E c \in Cards : ReadCard(c)) \/ CardsRead
    \/ LoadUvm \/ NameCards \/ Answer \/ ReadFails \/ Forget \/ HardwareShifts
    \/ UNCHANGED readVars

LEMMA HardwareTyped == ReadTypeOK /\ ReadStep => HardwareOK'
  <1> SUFFICES ASSUME ReadTypeOK, ReadStep PROVE HardwareOK'
    OBVIOUS
  <1> USE DEF ReadTypeOK, HardwareOK
  <1>1. ASSUME NEW h \in Possible, Becomes(h) PROVE HardwareOK'
    <2>1. CASE h = Unwatched
      <3>1. slot' = [c \in Cards |-> "empty"] /\ driver' = FALSE /\ uvm' = FALSE
        BY <1>1, <2>1 DEF Becomes, Unwatched
      <3> QED
        BY <3>1 DEF Listed, Slots
    <2>2. CASE h \in [driver : {TRUE}, slot : [Cards -> Slots], uvm : BOOLEAN]
      <3>1. driver' = TRUE /\ slot' \in [Cards -> Slots] /\ uvm' \in BOOLEAN
        BY <1>1, <2>2 DEF Becomes
      <3> QED
        BY <3>1
    <2> QED
      BY <2>1, <2>2 DEF Possible
  <1>2. CASE Begin
    BY <1>2, <1>1 DEF Begin
  <1>3. CASE Forget
    BY <1>3, <1>1 DEF Forget, Possible
  <1>4. CASE LoadUvm
    BY <1>4 DEF LoadUvm, Listed
  <1>5. CASE HardwareShifts
    <2>1. CASE Unload
      <3>1. slot' = [c \in Cards |-> "empty"] /\ driver' = FALSE /\ uvm' = FALSE
        BY <2>1 DEF Unload
      <3> QED
        BY <3>1 DEF Listed, Slots
    <2>2. CASE Load
      BY <2>2 DEF Load, Slots
    <2>3. CASE UvmShifts
      BY <2>3 DEF UvmShifts
    <2>4. ASSUME NEW c \in Cards, CardShifts(c) PROVE HardwareOK'
      BY <2>4 DEF CardShifts
    <2> QED
      BY <1>5, <2>1, <2>2, <2>3, <2>4 DEF HardwareShifts
  <1>6. CASE UNCHANGED hardware
    BY <1>6 DEF hardware, Listed
  <1> QED
    BY <1>2, <1>3, <1>4, <1>5, <1>6 DEF ReadStep, ReadDevices, ListCards, ReadCard, CardsRead,
       NameCards, Answer, ReadFails, readVars, hardware

LEMMA StockTyped == ReadTypeOK /\ ReadStep => StockOK'
  <1> SUFFICES ASSUME ReadTypeOK, ReadStep PROVE StockOK'
    OBVIOUS
  <1> USE DEF ReadTypeOK, StockOK
  <1>1. CASE inv' = NoInventory
    BY <1>1 DEF NoInventory
  <1>2. CASE ReadDevices
    <2>1. /\ {r.major : r \in LastOfName(Rows)} \subseteq Nat
          /\ {r.major : r \in {r \in LastOfName(Rows) : r.name = "nvidia-uvm"}}
                \subseteq {r.major : r \in LastOfName(Rows)}
          /\ {r.major : r \in {r \in LastOfName(Rows) : r.name = "nvidia-uvm"}} \subseteq {Uvm}
      BY RowMajors, UvmRow
    <2> QED
      BY <1>2, <2>1 DEF ReadDevices, NoInventory
  <1>3. CASE ListCards
    BY <1>3 DEF ListCards, HardwareOK
  <1>4. ASSUME NEW c \in Cards, ReadCard(c) PROVE StockOK'
    <2>1. CASE slot[c] = "reset"
      BY <1>4, <2>1, <1>1 DEF ReadCard
    <2>2. CASE slot[c] # "reset"
      BY <1>4, <2>2 DEF ReadCard
    <2> QED
      BY <2>1, <2>2
  <1>5. CASE NameCards
    BY <1>5 DEF NameCards
  <1>6. CASE UNCHANGED inv
    BY <1>6
  <1>7. CASE HardwareShifts
    BY <1>7, <1>6 DEF HardwareShifts, Unload, Load, UvmShifts, CardShifts, Shifts, reading
  <1> QED
    BY <1>1, <1>2, <1>3, <1>4, <1>5, <1>6, <1>7 DEF ReadStep, Begin, CardsRead, LoadUvm, Answer,
       ReadFails, Forget, readVars, reading

LEMMA ReadTyped == ReadTypeOK /\ ReadStep => ReadTypeOK'
  <1> SUFFICES ASSUME ReadTypeOK, ReadStep PROVE ReadTypeOK'
    OBVIOUS
  <1>0. HardwareOK' /\ StockOK'
    BY HardwareTyped, StockTyped
  <1> USE <1>0, ReadAssumption DEF ReadTypeOK
  <1>1. CASE Begin
    <2>1. Present' \subseteq Cards
      BY DEF Present
    <2>2. 0 \in 0..MaxMoves
      BY DEF HardwareOK
    <2>3. missing' \subseteq Cards /\ since' \subseteq Cards
      BY <1>1, <2>1 DEF Begin
    <2> QED
      BY <1>1, <2>2, <2>3 DEF Begin
  <1>2. CASE ReadDevices
    BY <1>2 DEF ReadDevices, witness
  <1>3. CASE ListCards
    <2>1. entries' \subseteq Cards /\ (driver \/ entries' = {})
      BY <1>3 DEF ListCards, Listed, HardwareOK
    <2> QED
      BY <1>3, <2>1 DEF ListCards, NextStep, witness
  <1>4. ASSUME NEW c \in Cards, ReadCard(c) PROVE ReadTypeOK'
    BY <1>4 DEF ReadCard, Done, witness
  <1>5. CASE CardsRead
    BY <1>5 DEF CardsRead, NextStep, witness
  <1>6. CASE LoadUvm
    BY <1>6 DEF LoadUvm, witness
  <1>7. CASE NameCards
    BY <1>7 DEF NameCards, witness
  <1>8. CASE Answer
    BY <1>8 DEF Answer, Done, witness
  <1>9. CASE ReadFails
    BY <1>9 DEF ReadFails, Done, witness
  <1>10. CASE Forget
    <2>1. 0 \in 0..MaxMoves
      BY DEF HardwareOK
    <2> QED
      BY <1>10, <2>1 DEF Forget
  <1>11. CASE HardwareShifts
    <2>1. Shifts
      BY <1>11 DEF HardwareShifts, Unload, Load, UvmShifts, CardShifts
    <2>2. moves' \in 0..MaxMoves
      BY <2>1 DEF Shifts
    <2>3. since' \subseteq Cards /\ missing' \subseteq Cards
      BY <2>1 DEF Shifts
    <2> QED
      BY <2>1, <2>2, <2>3 DEF Shifts, reading
  <1>12. CASE UNCHANGED readVars
    BY <1>12 DEF readVars, reading, witness
  <1> QED
    BY <1>1, <1>2, <1>3, <1>4, <1>5, <1>6, <1>7, <1>8, <1>9, <1>10, <1>11, <1>12 DEF ReadStep
\* What has been read, and what has not.
LEMMA ReadComplete == ReadTypeOK /\ Complete /\ ReadStep => Complete'
  <1> SUFFICES ASSUME ReadTypeOK, Complete, ReadStep PROVE Complete'
    OBVIOUS
  <1> USE DEF Complete, NoCardGuessedAway, ReadTypeOK
  <1>1. CASE Begin
    BY <1>1 DEF Begin
  <1>2. CASE ReadDevices
    BY <1>2 DEF ReadDevices, hardware, witness, Present
  <1>3. CASE ListCards
    <2>1. since \subseteq Listed
      BY DEF Present, Listed
    <2> QED
      BY <1>3, <2>1 DEF ListCards, NextStep, StockOK, hardware, witness, Present
  <1>4. ASSUME NEW c \in Cards, ReadCard(c) PROVE Complete'
    <2>1. CASE slot[c] = "reset"
      BY <1>4, <2>1 DEF ReadCard, Done, hardware, witness, Present
    <2>2. CASE slot[c] = "card"
      BY <1>4, <2>2 DEF ReadCard, StockOK, hardware, witness, Present
    <2>3. CASE slot[c] \notin {"reset", "card"}
      <3>1. c \notin since
        BY <2>3 DEF Present
      <3> QED
        BY <1>4, <2>3, <3>1 DEF ReadCard, StockOK, hardware, witness, Present
    <2> QED
      BY <2>1, <2>2, <2>3
  <1>5. CASE CardsRead
    BY <1>5 DEF CardsRead, NextStep, hardware, witness, Present
  <1>6. CASE LoadUvm
    BY <1>6 DEF LoadUvm, hardware, witness, Present
  <1>7. CASE NameCards
    <2>1. inv'.driver = inv.driver /\ inv'.gpus = inv.gpus
      BY <1>7 DEF NameCards, StockOK
    <2> QED
      BY <1>7, <2>1 DEF NameCards, hardware, witness, Present
  <1>8. CASE Answer
    BY <1>8 DEF Answer, Done, hardware, witness, Present
  <1>9. CASE ReadFails
    BY <1>9 DEF ReadFails, Done, hardware, witness, Present
  <1>10. CASE Forget
    BY <1>10 DEF Forget
  <1>11. CASE HardwareShifts
    <2>1. Shifts
      BY <1>11 DEF HardwareShifts, Unload, Load, UvmShifts, CardShifts
    <2>2. since' \subseteq since /\ since' \subseteq Present'
      BY <2>1 DEF Shifts, Present
    <2> QED
      BY <2>1, <2>2 DEF Shifts, reading
  <1>12. CASE UNCHANGED readVars
    BY <1>12 DEF readVars, reading, hardware, witness, Present
  <1> QED
    BY <1>1, <1>2, <1>3, <1>4, <1>5, <1>6, <1>7, <1>8, <1>9, <1>10, <1>11, <1>12 DEF ReadStep

LEMMA ReadAccurate == ReadTypeOK /\ Accurate /\ ReadStep => Accurate'
  <1> SUFFICES ASSUME ReadTypeOK, Accurate, ReadStep PROVE Accurate'
    OBVIOUS
  <1> USE DEF Accurate, QuietReadTrue, Whole, ReadTypeOK
  <1>1. CASE Begin
    BY <1>1 DEF Begin
  <1>2. CASE ReadDevices
    BY <1>2, UvmRow DEF ReadDevices, NoInventory, hardware, witness
  <1>3. CASE ListCards
    <2>1. CASE ~calm
      BY <1>3, <2>1 DEF ListCards, NextStep, witness
    <2>2. CASE calm /\ driver
      <3>1. Present \subseteq Listed
        BY DEF Present, Listed
      <3> QED
        BY <1>3, <2>2, <3>1 DEF ListCards, StockOK, hardware, witness, Present
    <2>3. CASE calm /\ ~driver
      <3>1. Listed = {} /\ Present = {} /\ {c \in Cards : slot[c] = "card"} = {}
        BY <2>3 DEF HardwareOK, Present, Listed
      <3> QED
        BY <1>3, <2>3, <3>1 DEF ListCards, NextStep, StockOK, hardware, witness, Present
    <2> QED
      BY <2>1, <2>2, <2>3
  <1>4. ASSUME NEW c \in Cards, ReadCard(c) PROVE Accurate'
    <2>1. CASE slot[c] = "reset"
      BY <1>4, <2>1 DEF ReadCard, Done, NoInventory, hardware, witness
    <2>2. CASE slot[c] # "reset"
      BY <1>4, <2>2 DEF ReadCard, StockOK, hardware, witness, Present
    <2> QED
      BY <2>1, <2>2
  <1>5. CASE CardsRead
    <2>1. CASE calm
      <3>1. Whole /\ inv.uvm = (IF uvm THEN {Uvm} ELSE {})
        BY <1>5, <2>1 DEF CardsRead, StockOK, Present
      <3> QED
        BY <1>5, <2>1, <3>1 DEF CardsRead, NextStep, hardware, witness, Present
    <2>2. CASE ~calm
      BY <1>5, <2>2 DEF CardsRead, NextStep, witness
    <2> QED
      BY <2>1, <2>2
  <1>6. CASE LoadUvm
    BY <1>6 DEF LoadUvm, witness
  <1>7. CASE NameCards
    <2>1. inv'.driver = inv.driver /\ inv'.gpus = inv.gpus /\ inv'.uvm = inv.uvm
      BY <1>7 DEF NameCards, StockOK
    <2> QED
      BY <1>7, <2>1 DEF NameCards, hardware, witness, Present
  <1>8. CASE Answer
    BY <1>8 DEF Answer, Done, hardware, witness, Present
  <1>9. CASE ReadFails
    BY <1>9 DEF ReadFails, Done, witness
  <1>10. CASE Forget
    BY <1>10 DEF Forget
  <1>11. CASE HardwareShifts
    <2>1. Shifts
      BY <1>11 DEF HardwareShifts, Unload, Load, UvmShifts, CardShifts
    <2> QED
      BY <2>1 DEF Shifts, reading
  <1>12. CASE UNCHANGED readVars
    BY <1>12 DEF readVars, reading, hardware, witness, Present
  <1> QED
    BY <1>1, <1>2, <1>3, <1>4, <1>5, <1>6, <1>7, <1>8, <1>9, <1>10, <1>11, <1>12 DEF ReadStep
-----------------------------------------------------------------------------
\* What a poll does to the reading.
LEMMA PollReads == [Next]_vars => ReadStep
  <1> SUFFICES ASSUME [Next]_vars PROVE ReadStep
    OBVIOUS
  <1> USE DEF ReadStep
  <1>1. CASE TopOfPoll
    BY <1>1 DEF TopOfPoll
  <1>2. CASE Reads
    BY <1>2 DEF Reads
  <1>3. CASE ReadingFails \/ Shakes \/ InventoryTaken
    BY <1>3 DEF ReadingFails, Shakes, InventoryTaken
  <1>4. CASE Vmlist \/ VmlistFails \/ DocumentsDone \/ GuestsDone
    BY <1>4 DEF Vmlist, VmlistFails, DocumentsDone, GuestsDone
  <1>5. ASSUME NEW g \in Guests, AtDocument(g) \/ Get(g) \/ AtGuest(g) PROVE ReadStep
    BY <1>5 DEF AtDocument, Get, AtGuest
  <1>6. CASE Report \/ Publish \/ Published \/ Sleep
    BY <1>6 DEF Report, Publish, Published, Sleep
  <1>7. CASE UNCHANGED vars
    BY <1>7 DEF vars
  <1> QED
    BY <1>1, <1>2, <1>3, <1>4, <1>5, <1>6, <1>7 DEF Next

Numbers ==
    deadline \in Nat /\ clock \in Nat /\ quiet \in Nat /\ stretch \in Nat /\ onGuests \in Nat
PassOK ==
    /\ phase \in Phases /\ (step # "off" => phase = "inventory")
    /\ todo \subseteq Guests /\ readable \subseteq Guests /\ done \subseteq readable
    /\ kept \in {"none", "driver", "no driver"} /\ calls \in 0..2 /\ ready \in BOOLEAN
    /\ phase = "guests" => todo \subseteq readable

\* The boot pass on the clock: where it is and how late it may be there.
InBoot == ~ready /\ phase \in {"vmlist", "docs", "get", "guests", "report"}
Timely ==
    /\ ready => clock = 0
    /\ phase \in {"publish", "sleep"} => ready
    /\ phase = "report" => ~ready
    /\ ~ready /\ phase = "top" => clock = 0
    /\ ~ready /\ phase = "inventory" =>
          /\ clock <= Modprobe + Smi
          /\ step \in {"devices", "list", "cards", "modprobe", "names"} => clock <= Modprobe
          /\ step = "modprobe" => clock = 0
          /\ step \in {"devices", "list", "cards"} /\ ~again => clock = 0
    /\ InBoot => deadline <= Modprobe + Smi + Budget /\ clock <= deadline + Meta
    /\ InBoot /\ phase = "get" => clock < deadline

\* What the time went into.
Accounted ==
    /\ phase \in {"top", "inventory", "vmlist"} => (~ready => onGuests = 0) /\ readable = {}
    /\ InBoot => clock + Budget = deadline + onGuests
    /\ InBoot /\ phase = "guests" => readable \subseteq done \cup todo
    /\ LeftOutByGuestsOnly

\* How long the watchdog has heard nothing.
Pinged ==
    /\ stretch <= LockWait + Meta
    /\ quiet <= LockWait + Poll /\ (phase # "top" => quiet <= LockWait)

BootInv == ReadInv /\ PassOK /\ Numbers /\ Timely /\ Accounted /\ Pinged

LEMMA InitBoot == Init => BootInv
  <1> SUFFICES ASSUME Init PROVE BootInv
    OBVIOUS
  <1> USE DEF Init, InitReading, Is, Unwatched
  <1>1. HardwareOK /\ StockOK
    BY DEF HardwareOK, StockOK, Slots, Listed, NoInventory
  <1>2. 0 \in 0..MaxMoves /\ 0 \in 0..2
    BY ReadAssumption
  <1>3. ReadInv
    BY <1>1, <1>2 DEF ReadInv, ReadTypeOK, Complete, Accurate, NoCardGuessedAway, QuietReadTrue
  <1>4. PassOK /\ Numbers
    BY <1>2 DEF PassOK, Phases, Numbers
  <1>5. Timely /\ Accounted
    BY DEF Timely, InBoot, Accounted, LeftOutByGuestsOnly
  <1>6. Pinged
    BY BootAssumption DEF Pinged
  <1> QED
    BY <1>3, <1>4, <1>5, <1>6 DEF BootInv

LEMMA NumbersStep == BootInv /\ Next => Numbers'
  <1> SUFFICES ASSUME BootInv, Next PROVE Numbers'
    OBVIOUS
  <1> USE BootAssumption DEF BootInv, Numbers, Passes, PingThen
  <1>1. ASSUME NEW max \in Nat, CallTakes(max), UNCHANGED deadline PROVE Numbers'
    BY <1>1 DEF CallTakes
  <1>2. CASE TopOfPoll
    BY <1>2 DEF TopOfPoll, Ping
  <1>3. CASE Reads
    BY <1>1, <1>3 DEF Reads, AtOnce, time, pass
  <1>4. CASE ReadingFails \/ Shakes \/ InventoryTaken
    <2>1. clock + Budget \in Nat
      OBVIOUS
    <2> QED
      BY <1>4, <2>1 DEF ReadingFails, Shakes, InventoryTaken, BudgetFrom, AtOnce, time, pass
  <1>5. CASE Vmlist \/ VmlistFails \/ DocumentsDone \/ GuestsDone
    BY <1>5 DEF Vmlist, VmlistFails, DocumentsDone, GuestsDone, AtOnce, time
  <1>6. ASSUME NEW g \in Guests, AtDocument(g) \/ Get(g) \/ AtGuest(g) PROVE Numbers'
    BY <1>1, <1>6 DEF AtDocument, Get, AtGuest, Ping
  <1>7. CASE Report
    BY <1>7 DEF Report
  <1>8. CASE Publish
    BY <1>1, <1>8 DEF Publish
  <1>9. CASE Published \/ Sleep
    BY <1>9 DEF Published, Sleep, AtOnce, time
  <1> QED
    BY <1>2, <1>3, <1>4, <1>5, <1>6, <1>7, <1>8, <1>9 DEF Next

LEMMA PassStep == BootInv /\ Next => PassOK'
  <1> SUFFICES ASSUME BootInv, Next PROVE PassOK'
    OBVIOUS
  <1> USE DEF BootInv, PassOK, Phases
  <1>1. CASE TopOfPoll
    BY <1>1 DEF TopOfPoll, Begin
  <1>2. CASE Reads \/ ReadingFails \/ Shakes
    BY <1>2 DEF Reads, ReadingFails, Shakes, pass
  <1>3. CASE InventoryTaken
    BY <1>3 DEF InventoryTaken, Forget
  <1>4. CASE Vmlist \/ VmlistFails
    BY <1>4 DEF Vmlist, VmlistFails, Return, readVars, reading
  <1>5. CASE DocumentsDone
    BY <1>5 DEF DocumentsDone, Return, readVars, reading
  <1>6. CASE GuestsDone
    <2>1. calls' \in 0..2
      <3>1. calls \in 0..2
        OBVIOUS
      <3>2. calls' = calls \/ calls' = 0 \/ calls' = 2
        BY <1>6 DEF GuestsDone
      <3> HIDE DEF BootInv
      <3> QED
        BY <3>1, <3>2
    <2> QED
      BY <1>6, <2>1 DEF GuestsDone, readVars, reading
  <1>7. ASSUME NEW g \in Guests, AtDocument(g) PROVE PassOK'
    BY <1>7 DEF AtDocument, readVars, reading
  <1>8. ASSUME NEW g \in Guests, Get(g) PROVE PassOK'
    BY <1>8 DEF Get, readVars, reading
  <1>9. ASSUME NEW g \in Guests, AtGuest(g) PROVE PassOK'
    BY <1>9 DEF AtGuest, Turn, readVars, reading
  <1>10. CASE Report
    <2>1. calls' \in 0..2
      <3>1. calls \in 0..2
        OBVIOUS
      <3>2. calls' = 0 \/ calls' = 2
        BY <1>10 DEF Report
      <3> HIDE DEF BootInv
      <3> QED
        BY <3>1, <3>2
    <2> QED
      BY <1>10, <2>1 DEF Report, readVars, reading
  <1>11. CASE Publish
    <2>1. calls' \in 0..2
      <3>1. calls \in 0..2
        OBVIOUS
      <3>2. calls > 0 /\ (calls' = 0 \/ calls' = calls - 1)
        BY <1>11 DEF Publish
      <3> HIDE DEF BootInv
      <3> QED
        BY <3>1, <3>2
    <2> QED
      BY <1>11, <2>1 DEF Publish, readVars, reading
  <1>12. CASE Published \/ Sleep
    BY <1>12 DEF Published, Sleep, readVars, reading
  <1> QED
    BY <1>1, <1>2, <1>3, <1>4, <1>5, <1>6, <1>7, <1>8, <1>9, <1>10, <1>11, <1>12 DEF Next

LEMMA Deadlines ==
    /\ Meta \in Nat /\ Smi \in Nat /\ Modprobe \in Nat /\ Budget \in Nat
    /\ Poll \in Nat /\ LockWait \in Nat
    /\ Meta > 0 /\ Smi > 0 /\ Modprobe > 0 /\ Budget > 0
    /\ Smi <= Meta /\ Modprobe <= Meta /\ Poll <= Meta
  BY BootAssumption

\* A call takes no more than its deadline.
LEMMA CallBound ==
    ASSUME NEW max \in Nat, max > 0, Numbers, CallTakes(max)
    PROVE  /\ clock' <= clock + max /\ (ready => clock' = clock)
           /\ ~ready /\ phase # "get" => onGuests' = onGuests
           /\ ~ready /\ phase = "get" => onGuests' - onGuests = clock' - clock
           /\ ready => onGuests' = onGuests
           /\ stretch' <= quiet + max /\ quiet' = 0
  BY DEF CallTakes, Passes, Numbers

LEMMA TimelyStep == BootInv /\ Next => Timely'
  <1> SUFFICES ASSUME BootInv, Next PROVE Timely'
    OBVIOUS
  <1> USE Deadlines DEF BootInv, Numbers, Timely, InBoot
  <1>1. CASE TopOfPoll
    BY <1>1 DEF TopOfPoll, Begin, Ping, PingThen
  <1>2. CASE Reads
    <2>1. CASE LoadUvm /\ CallTakes(Modprobe)
      <3>1. clock' <= clock + Modprobe /\ (ready => clock' = clock)
        BY <2>1, CallBound
      <3>2. step = "modprobe" /\ step' = "devices" /\ again' = TRUE /\ phase = "inventory"
              /\ UNCHANGED pass
        BY <1>2, <2>1 DEF Reads, LoadUvm
      <3>3. clock' \in Nat
        BY NumbersStep
      <3> QED
        BY <3>1, <3>2, <3>3 DEF pass
    <2>2. CASE NameCards /\ CallTakes(Smi)
      <3>1. clock' <= clock + Smi /\ (ready => clock' = clock)
        BY <2>2, CallBound
      <3>2. step = "names" /\ step' = "answer" /\ phase = "inventory" /\ UNCHANGED pass
        BY <1>2, <2>2 DEF Reads, NameCards
      <3>3. clock' \in Nat
        BY NumbersStep
      <3> QED
        BY <3>1, <3>2, <3>3 DEF pass
    <2>3. CASE ReadDevices /\ AtOnce
      BY <1>2, <2>3 DEF Reads, ReadDevices, AtOnce, time, pass
    <2>4. CASE (ListCards \/ CardsRead) /\ AtOnce
      BY <1>2, <2>4 DEF Reads, ListCards, CardsRead, NextStep, AtOnce, time, pass
    <2>5. CASE Answer /\ AtOnce
      BY <1>2, <2>5 DEF Reads, Answer, Done, AtOnce, time, pass
    <2>6. ASSUME NEW c \in Cards, ReadCard(c), AtOnce PROVE Timely'
      BY <1>2, <2>6 DEF Reads, ReadCard, Done, AtOnce, time, pass
    <2> QED
      BY <1>2, <2>1, <2>2, <2>3, <2>4, <2>5, <2>6 DEF Reads
  <1>3. CASE ReadingFails
    BY <1>3 DEF ReadingFails, ReadFails, Done, AtOnce, time, pass
  <1>4. CASE Shakes
    <2>1. UNCHANGED reading
      BY <1>4 DEF Shakes, HardwareShifts, Unload, Load, UvmShifts, CardShifts, Shifts
    <2> QED
      BY <1>4, <2>1 DEF Shakes, AtOnce, time, pass, reading
  <1>5. CASE InventoryTaken
    <2>1. phase = "inventory" /\ phase' = "vmlist" /\ step = "off" /\ UNCHANGED <<ready, clock>>
      BY <1>5 DEF InventoryTaken, Forget, AtOnce, time
    <2>2. ~ready => deadline' = clock + Budget
      BY <1>5 DEF InventoryTaken, BudgetFrom
    <2> QED
      BY <2>1, <2>2
  <1>6. CASE Vmlist \/ VmlistFails \/ DocumentsDone \/ GuestsDone
    BY <1>6 DEF Vmlist, VmlistFails, DocumentsDone, GuestsDone, Return, AtOnce, time
  <1>7. ASSUME NEW g \in Guests, AtDocument(g) PROVE Timely'
    BY <1>7 DEF AtDocument, Spent, Ping, PingThen
  <1>8. ASSUME NEW g \in Guests, Get(g) PROVE Timely'
    <2>1. clock' <= clock + Meta /\ (ready => clock' = clock)
      BY <1>8, CallBound DEF Get
    <2>2. phase = "get" /\ phase' = "docs" /\ UNCHANGED <<ready, deadline>> /\ clock' \in Nat
      BY <1>8, NumbersStep DEF Get
    <2> QED
      BY <2>1, <2>2
  <1>9. ASSUME NEW g \in Guests, AtGuest(g) PROVE Timely'
    BY <1>9 DEF AtGuest, PingThen
  <1>10. CASE Report
    BY <1>10 DEF Report
  <1>11. CASE Publish
    BY <1>11, CallBound DEF Publish
  <1>12. CASE Published \/ Sleep
    BY <1>12 DEF Published, Sleep, Passes, AtOnce, time
  <1> QED
    BY <1>1, <1>2, <1>3, <1>4, <1>5, <1>6, <1>7, <1>8, <1>9, <1>10, <1>11, <1>12 DEF Next

LEMMA AccountedStep == BootInv /\ Next => Accounted'
  <1> SUFFICES ASSUME BootInv, Next PROVE Accounted'
    OBVIOUS
  <1> USE Deadlines DEF BootInv, Numbers, Accounted, InBoot, LeftOutByGuestsOnly
  <1>1. CASE TopOfPoll
    BY <1>1 DEF TopOfPoll, Ping, PingThen
  <1>2. CASE Reads
    <2>1. CASE CallTakes(Modprobe) \/ CallTakes(Smi)
      BY <1>2, <2>1, CallBound DEF Reads, pass
    <2>2. CASE AtOnce
      BY <1>2, <2>2 DEF Reads, AtOnce, time, pass
    <2> QED
      BY <1>2, <2>1, <2>2 DEF Reads
  <1>3. CASE ReadingFails \/ Shakes
    BY <1>3 DEF ReadingFails, Shakes, AtOnce, time, pass
  <1>4. CASE InventoryTaken
    <2>1. phase = "inventory" /\ phase' = "vmlist" /\ UNCHANGED <<ready, clock, onGuests, readable>>
      BY <1>4 DEF InventoryTaken, AtOnce, time
    <2>2. ~ready => deadline' = clock + Budget
      BY <1>4 DEF InventoryTaken, BudgetFrom
    <2> QED
      BY <2>1, <2>2
  <1>5. CASE Vmlist \/ VmlistFails
    BY <1>5 DEF Vmlist, VmlistFails, Return, AtOnce, time
  <1>6. CASE DocumentsDone
    BY <1>6 DEF DocumentsDone, Return, AtOnce, time
  <1>7. CASE GuestsDone
    BY <1>7 DEF GuestsDone, Spent, AtOnce, time
  <1>8. ASSUME NEW g \in Guests, AtDocument(g) PROVE Accounted'
    BY <1>8 DEF AtDocument, Ping, PingThen
  <1>9. ASSUME NEW g \in Guests, Get(g) PROVE Accounted'
    <2>1. ~ready => onGuests' - onGuests = clock' - clock
      BY <1>9, CallBound DEF Get
    <2>2. phase = "get" /\ phase' = "docs" /\ UNCHANGED <<ready, deadline>>
          /\ clock' \in Nat /\ onGuests' \in Nat
      BY <1>9, NumbersStep DEF Get
    <2> QED
      BY <2>1, <2>2
  <1>10. ASSUME NEW g \in Guests, AtGuest(g) PROVE Accounted'
    BY <1>10 DEF AtGuest, PingThen
  <1>11. CASE Report
    BY <1>11 DEF Report
  <1>12. CASE Publish
    BY <1>12 DEF Publish, Timely
  <1>13. CASE Published \/ Sleep
    BY <1>13 DEF Published, Sleep, Passes, AtOnce, time, Timely
  <1> QED
    BY <1>1, <1>2, <1>3, <1>4, <1>5, <1>6, <1>7, <1>8, <1>9, <1>10, <1>11, <1>12, <1>13 DEF Next

LEMMA PingedStep == BootInv /\ Next => Pinged'
  <1> SUFFICES ASSUME BootInv, Next PROVE Pinged'
    OBVIOUS
  <1>0. Numbers /\ Pinged
    BY DEF BootInv
  <1> USE <1>0, Deadlines DEF Numbers, Pinged
  <1>1. ASSUME NEW max \in Nat, max > 0, max <= Meta, CallTakes(max), phase # "top" PROVE Pinged'
    <2>1. stretch' <= quiet + max /\ quiet' = 0
      BY <1>1, CallBound
    <2>2. quiet <= LockWait /\ quiet \in Nat /\ stretch' \in Nat
      BY <1>1, NumbersStep
    <2> QED
      BY <1>1, <2>1, <2>2
  <1>2. CASE TopOfPoll
    BY <1>2 DEF TopOfPoll, Ping, PingThen
  <1>3. CASE Reads
    BY <1>1, <1>3 DEF Reads, AtOnce, time, pass
  <1>4. CASE ReadingFails \/ Shakes \/ InventoryTaken
    BY <1>4 DEF ReadingFails, Shakes, InventoryTaken, AtOnce, time, pass
  <1>5. CASE Vmlist \/ VmlistFails \/ DocumentsDone \/ GuestsDone
    BY <1>5 DEF Vmlist, VmlistFails, DocumentsDone, GuestsDone, AtOnce, time
  <1>6. ASSUME NEW g \in Guests, AtDocument(g) PROVE Pinged'
    BY <1>6 DEF AtDocument, Ping, PingThen
  <1>7. ASSUME NEW g \in Guests, Get(g) PROVE Pinged'
    BY <1>1, <1>7 DEF Get
  <1>8. ASSUME NEW g \in Guests, AtGuest(g) PROVE Pinged'
    BY <1>8 DEF AtGuest, PingThen
  <1>9. CASE Report
    BY <1>9 DEF Report
  <1>10. CASE Publish
    BY <1>1, <1>10 DEF Publish
  <1>11. CASE Published
    BY <1>11 DEF Published, AtOnce, time
  <1>12. CASE Sleep
    BY <1>12 DEF Sleep, Passes
  <1> QED
    BY <1>2, <1>3, <1>4, <1>5, <1>6, <1>7, <1>8, <1>9, <1>10, <1>11, <1>12 DEF Next

LEMMA BootInvariance == Spec => []BootInv
  <1>1. BootInv /\ UNCHANGED vars => BootInv'
    <2> SUFFICES ASSUME BootInv, UNCHANGED vars PROVE BootInv'
      OBVIOUS
    <2>1. ReadInv'
      BY PollReads, ReadTyped, ReadComplete, ReadAccurate DEF BootInv, ReadInv
    <2>2. PassOK' /\ Numbers' /\ Timely' /\ Accounted' /\ Pinged'
      BY DEF BootInv, PassOK, Numbers, Timely, Accounted, Pinged, InBoot, LeftOutByGuestsOnly,
         vars, readVars, reading, pass, time
    <2> QED
      BY <2>1, <2>2 DEF BootInv
  <1>2. BootInv /\ [Next]_vars => BootInv'
    <2> SUFFICES ASSUME BootInv, Next PROVE BootInv'
      BY <1>1
    <2>1. ReadInv'
      BY PollReads, ReadTyped, ReadComplete, ReadAccurate DEF BootInv, ReadInv
    <2> QED
      BY <2>1, PassStep, NumbersStep, TimelyStep, AccountedStep, PingedStep DEF BootInv
  <1> QED
    BY InitBoot, <1>2, PTL DEF Spec

\* The types of the poll, the reading and the hardware.
THEOREM TypeCorrect == Spec => []TypeOK
  <1>1. BootInv => TypeOK
    BY DEF BootInv, ReadInv, PassOK, Numbers, TypeOK
  <1> QED
    BY <1>1, BootInvariance, PTL

\* A card that is there all along, in reset or not, is in every reading that
\* succeeds, for any number of cards and any moves of the hardware
\* (inventory.rs, read_from).
THEOREM NoCardLost == Spec => []NoCardGuessedAway
  <1>1. BootInv => NoCardGuessedAway
    BY DEF BootInv, ReadInv, Complete
  <1> QED
    BY <1>1, BootInvariance, PTL

\* What an undisturbed reading says is so, nvidia-uvm included
\* (inventory.rs, read and read_from).
THEOREM QuietReading == Spec => []QuietReadTrue
  <1>1. BootInv => QuietReadTrue
    BY DEF BootInv, ReadInv, Accurate
  <1> QED
    BY <1>1, BootInvariance, PTL

\* READY is in time for every number of guests and whatever their documents
\* take (daemon.rs, tick: budget_from, spent).
THEOREM ReadyByThen == Spec => []ReadyInTime
  <1>1. BootInv => ReadyInTime
    <2> SUFFICES ASSUME BootInv PROVE ReadyInTime
      OBVIOUS
    <2>1. clock \in Nat /\ deadline \in Nat
      BY DEF BootInv, Numbers
    <2>2. CASE ready \/ phase = "top"
      <3>1. clock = 0
        BY <2>2 DEF BootInv, Timely, PassOK
      <3> QED
        BY <3>1, Deadlines DEF ReadyInTime
    <2>3. CASE ~ready /\ phase = "inventory"
      <3>1. clock <= Modprobe + Smi
        BY <2>3 DEF BootInv, Timely
      <3> QED
        BY <2>1, <3>1, Deadlines DEF ReadyInTime
    <2>4. CASE InBoot
      <3>1. deadline <= Modprobe + Smi + Budget /\ clock <= deadline + Meta
        BY <2>4 DEF BootInv, Timely
      <3> QED
        BY <2>1, <3>1, Deadlines DEF ReadyInTime
    <2>5. ready \/ phase \in {"top", "inventory"} \/ InBoot
      BY DEF BootInv, PassOK, Phases, Timely, InBoot
    <2> QED
      BY <2>2, <2>3, <2>4, <2>5
  <1> QED
    BY <1>1, BootInvariance, PTL

\* The boot pass leaves out a guest for want of time only when all of its
\* budget went into documents (daemon.rs, budget_from after the inventory).
THEOREM BudgetWentToGuests == Spec => []LeftOutByGuestsOnly
  <1>1. BootInv => LeftOutByGuestsOnly
    BY DEF BootInv, Accounted
  <1> QED
    BY <1>1, BootInvariance, PTL

\* The watchdog hears of the daemon every call and every wait for a lock, in
\* a poll over any number of guests (cmd.rs and daemon.rs, notify::alive).
THEOREM WatchdogFed == Spec => []PingsBetweenSteps
  <1>1. BootInv => PingsBetweenSteps
    BY DEF BootInv, Pinged, PingsBetweenSteps
  <1> QED
    BY <1>1, BootInvariance, PTL
=============================================================================
