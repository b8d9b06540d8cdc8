------------------------------ MODULE ConfFile ------------------------------
(***************************************************************************)
(* One container's configuration file as text: the main section is a       *)
(* sequence of lines, `rest` what follows from the first `[section]` on.   *)
(* conf.rs and plan.rs work on this file; module GpuLines says the same of *)
(* the SET of lines, and this module checks the two against each other     *)
(* over files that a person edits and hardware that changes in between.    *)
(***************************************************************************)
EXTENDS GpuLines, Document, MajorList, Sequences, SequencesExt

CONSTANTS
    Foreign,      \* lines a person may put into the file
    Sections,     \* what may follow the main section; <<>> is nothing
    Stocks,       \* the inventories a reconcile may see
    Subtrees,     \* what a person may write under the key `gpu`, as YAML
    MaxLength,    \* bound: lines of a main section a person still adds to
    MaxSteps      \* bound: edits and hardware changes

\* The minors of a driver's cards differ, no other driver has its major, a YAML
\* map has a key once, and a text has its characters wherever it stands.
ASSUME ConfFileAssumption ==
    /\ MaxLength \in Nat /\ MaxSteps \in Nat /\ <<>> \in Sections
    /\ \A s \in Stocks :
          /\ IsFiniteSet(s.gpus) /\ \A g, h \in s.gpus : g.minor = h.minor => g = h
          /\ \A g \in s.gpus : g.minor \in Nat
          /\ {NvidiaMajor, Wildcard} \cap s.uvm = {}
          /\ \A m, n \in s.uvm : m = n
    /\ \A v \in Subtrees :
          /\ \A e, f \in v.entries : e.key.word.is = f.key.word.is => e = f
          /\ \A w, x \in WordsOf(v) : w.is = x.is => w.chars = x.chars
          /\ \A w \in WordsOf(v) :
                w.is \in Capabilities => w.chars \cap {"break", "comma"} = {}

VARIABLES
    main, rest,    \* the file: the lines of the main section, what follows it
    stock,         \* the inventory
    said,          \* the document: none or one
    remembered,    \* the node's list of majors, newest first
    managed,       \* whether this guest is on record
    steps,
    behind         \* history: changes of the list since the file's rules were current
vars == <<main, rest, stock, said, remembered, managed, steps, behind>>

Blank == Plain("blank", "", {})

-----------------------------------------------------------------------------
\* conf.rs on sequences.

ManagedSeq(lines, owned) == Among(lines, ManagedLines(ToSet(lines), owned))
ForeignSeq(lines, owned) ==
    Among(lines, ToSet(lines) \ ManagedLines(ToSet(lines), owned))

\* The cards by their minors, which differ: the i-th has i - 1 below it.
ByMinor(gpus) ==
    LET Below(g) == {h \in gpus : h.minor < g.minor}
    IN [i \in 1..Cardinality(gpus) |-> CHOOSE g \in gpus : Cardinality(Below(g)) = i - 1]

RenderSeq(gpus, caps, cuda, uvm) ==
    IF gpus = {} THEN <<>>
    ELSE LET cards == ByMinor(gpus)
             Rules(m) == <<Allow(m, 0), Allow(m, 1)>>
         IN [i \in DOMAIN cards |-> Allow(NvidiaMajor, cards[i].minor)]
            \o (IF caps \cap {"graphics", "display"} # {}
                THEN <<Allow(NvidiaMajor, ModesetMinor)>> ELSE <<>>)
            \o <<Allow(NvidiaMajor, CtlMinor)>>
            \o (IF uvm = {} THEN <<>> ELSE Rules(CHOOSE m \in uvm : TRUE))
            \o <<HookLine, EnvLine(VisibleDevices, {g.uuid : g \in gpus})>>
            \o (IF caps = {} THEN <<>> ELSE <<EnvLine(DriverCapabilities, caps)>>)
            \o (IF cuda = {} THEN <<>> ELSE <<EnvLine(RequireCuda, cuda)>>)

\* The lines without their trailing blank ones.
Trimmed(lines) ==
    LET kept == {i \in DOMAIN lines : lines[i] # Blank}
    IN IF kept = {} THEN <<>> ELSE SubSeq(lines, 1, Max(kept))

\* Where the first managed line stood, among the lines that are kept.
At(lines, owned) ==
    LET found == {i \in DOMAIN lines : IsManaged(lines[i], owned)}
    IN IF found = {} THEN Len(lines) ELSE Min(found) - 1

\* Mutants: the separator before a section is kept and added again; a new
\* block always goes to the end.
SpliceKeepingBlanks(lines, after, desired, owned) ==
    LET out == ForeignSeq(lines, owned)
        at == Min({At(lines, owned), Len(out)})
    IN SubSeq(out, 1, at) \o desired \o SubSeq(out, at + 1, Len(out))
       \o (IF after = <<>> THEN <<>> ELSE <<Blank>>)
SpliceAtEnd(lines, after, desired, owned) ==
    Trimmed(ForeignSeq(lines, owned)) \o desired
       \o (IF after = <<>> THEN <<>> ELSE <<Blank>>)
SpliceBeforeFirst(lines, after, desired, owned) ==
    LET out == Trimmed(ForeignSeq(lines, owned))
        at == Min({At(lines, owned), Len(out)})
    IN SubSeq(out, 1, at) \o desired \o SubSeq(out, at + 2, Len(out))
       \o (IF after = <<>> THEN <<>> ELSE <<Blank>>)

SpliceSeq(lines, after, desired, owned) ==
    LET out == Trimmed(ForeignSeq(lines, owned))
        at == Min({At(lines, owned), Len(out)})
    IN SubSeq(out, 1, at) \o desired \o SubSeq(out, at + 1, Len(out))
       \o (IF after = <<>> THEN <<>> ELSE <<Blank>>)

-----------------------------------------------------------------------------
OwnedNow == OwnedBy(stock.uvm, Elements(remembered), stock.chars)
\* No key, or one that is understood: what is not understood is an error of
\* this guest, and nothing of it is touched.
Meaning == [v \in Subtrees |-> Parse(v)]
Want == UNION {Meaning[v] : v \in said}
Readable == said = {} \/ Want # {}
DesiredOf(wants) ==
    IF wants = {} THEN <<>>
    ELSE LET w == CHOOSE w \in wants : TRUE
         IN RenderSeq(Selected(w, stock), CapabilityList(w), w.require_cuda, stock.uvm)
DesiredNow == DesiredOf(Want)
Stale == ManagedSeq(main, OwnedNow) # DesiredNow

Init ==
    /\ main \in {<<>>} \cup {<<l>> : l \in Foreign} \cup {<<k, l>> : k, l \in Foreign}
    /\ rest \in Sections
    /\ stock \in Stocks /\ said \in {{}} \cup {{v} : v \in Subtrees}
    /\ remembered = <<>> /\ managed = FALSE /\ steps = 0 /\ behind = 0

\* Whether the guest is planned at all, rather than refused or not ours.
Planned ==
    /\ Readable /\ ~Locked(ToSet(main))
    /\ Outcome(ToSet(main), Want, stock, Elements(remembered), managed).kind = "Plan"

\* nvidia-uvm rules of the tool in the file that are not of the loaded module.
OldRules(lines) ==
    {l \in ToSet(lines) \ Foreign :
        l.key = "allow" /\ l.name = "c" /\ l.major \notin {NvidiaMajor} \cup stock.uvm}

\* The list has a major more, or another first; the file's rules do not.
Missed(list) ==
    IF list = remembered \/ behind = UvmKept THEN behind ELSE behind + 1

\* A reconcile of this guest, of which module Reconcile has the steps.
Reconcile ==
    /\ Planned
    /\ main' = IF Stale THEN SpliceSeq(main, rest, DesiredNow, OwnedNow) ELSE main
    /\ managed' = (DesiredNow # <<>>)
    /\ remembered' = IF DesiredNow = <<>> THEN remembered
                     ELSE Noted(remembered, remembered, stock.uvm)
    /\ behind' = IF stock.uvm = {} \/ OldRules(main') # {} THEN Missed(remembered') ELSE 0
    /\ UNCHANGED <<rest, stock, said, steps>>

\* Another guest of the node has its lines written, and this one misses it:
\* the list of majors is the node's.
OtherReconciled ==
    /\ stock.driver
    /\ remembered' = Noted(remembered, remembered, stock.uvm)
    /\ behind' = Missed(remembered')
    /\ UNCHANGED <<main, rest, stock, said, managed, steps>>

Step == steps < MaxSteps /\ steps' = steps + 1

\* A person adds a line anywhere, deletes one, or moves one to the end.
Edit ==
    /\ Step
    /\ \/ \E i \in 1..Len(main) + 1, l \in Foreign :
            Len(main) < MaxLength /\ main' = InsertAt(main, i, l)
       \/ \E i \in DOMAIN main : main' = RemoveAt(main, i)
       \/ \E i \in DOMAIN main : main' = Append(RemoveAt(main, i), main[i])
    /\ UNCHANGED <<rest, stock, said, remembered, managed, behind>>

Snapshot ==
    /\ Step
    /\ rest' \in Sections \ {rest}
    /\ UNCHANGED <<main, stock, said, remembered, managed, behind>>

Changes ==
    /\ Step
    /\ \/ stock' \in Stocks \ {stock} /\ UNCHANGED said
       \/ said' \in {{}} \cup {{v} : v \in Subtrees} /\ said' # said /\ UNCHANGED stock
    /\ UNCHANGED <<main, rest, remembered, managed, behind>>

Next == Reconcile \/ OtherReconciled \/ Edit \/ Snapshot \/ Changes

Spec == Init /\ [][Next]_vars

-----------------------------------------------------------------------------
\* A fixed point: what a reconcile leaves compares equal to what the plan asked
\* for, and replacing the lines again changes nothing, not even a blank line
\* (conf.rs: render, splice and managed_lines agree).
FixedPoint ==
    LET once == SpliceSeq(main, rest, DesiredNow, OwnedNow)
    IN /\ ManagedSeq(once, OwnedNow) = DesiredNow
       /\ SpliceSeq(once, rest, DesiredNow, OwnedNow) = once

\* Nobody else's line is lost, doubled or moved past another one; the managed
\* block stands where the first managed line stood, and only blank lines at
\* the end of the main section are not kept as they were.
ForeignOrderKept ==
    [][Reconcile /\ Stale =>
         LET before == Trimmed(ForeignSeq(main, OwnedNow))
             first == Min({At(main, OwnedNow), Len(before)})
             after == main'
         IN /\ Trimmed(ForeignSeq(after, OwnedNow)) = before
            /\ SubSeq(after, 1, first) = SubSeq(before, 1, first)
            /\ SubSeq(after, first + 1, first + Len(DesiredNow)) = DesiredNow]_vars

\* The sequences do what module GpuLines says of the sets.
SetsAgree ==
    [][Reconcile =>
         ToSet(main') \ {Blank} =
           Splice(ToSet(main), UNION {Wanted(w, stock) : w \in Want}, OwnedNow) \ {Blank}]_vars

\* With nvidia-uvm loaded, a reconcile leaves no rule of an earlier major
\* beside the new ones, unless another driver has that major now -- of a file
\* that has missed fewer than UvmKept changes of the node's list, as long as
\* "one generation of slack is enough" (state.rs: uvm_majors, remember_uvm).
NoPiledUpRules ==
    [][Reconcile /\ stock.uvm # {} /\ behind < UvmKept =>
         \A l \in OldRules(main') : l.major \in stock.chars]_vars

\* What a document would mean in JSON, and its words that could end a config
\* line or an element of a list.
MeaningInJson == [v \in Subtrees |-> Parse(SubtreeInJson(v))]
Breaking ==
    [v \in Subtrees |-> {w.is : w \in {w \in WordsOf(v) : w.chars \cap {"break", "comma"} # {}}}]

\* What a JSON-mode write of the document does to it -- 1 where it said true
\* -- changes no line of any config (doc.rs: both spellings are accepted).
SameInJson ==
    [][Reconcile /\ Stale =>
         main' = SpliceSeq(main, rest,
                    DesiredOf(UNION {MeaningInJson[v] : v \in said}), OwnedNow)]_vars

\* A document is taken whole or not at all: a card of this node that it names
\* is in the lines a reconcile writes unless it is plainly off, so that a slip
\* of the hand is an error and never takes a card away (doc.rs: parse).
NoCardLeftOut ==
    [][Reconcile =>
         \A v \in said : \A e \in UNION {d.entries : d \in Under(v, "devices")} :
            e.key.word.is \in {g.uuid : g \in stock.gpus} /\ FlagOf(e.value) # {FALSE} =>
               \E l \in ToSet(main') : l.name = VisibleDevices /\ e.key.word.is \in l.data]_vars

\* Nothing a document says becomes a config key or an element of a list of its
\* own: no word that could end either is in a line of the tool, wherever in
\* the document it stood (doc.rs: is_device_id, is_version).
NoLineOfItsOwn ==
    [][Reconcile =>
         \A v \in said : \A l \in ManagedLines(ToSet(main'), OwnedNow) :
            l.data \cap Breaking[v] = {}]_vars
=============================================================================
