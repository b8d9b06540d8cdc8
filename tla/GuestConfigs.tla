---------------------------- MODULE GuestConfigs ----------------------------
(***************************************************************************)
(* What the tool promises about the configs of a node, as somebody sees it *)
(* who knows nothing of its passes, plans and processes: a config changes  *)
(* in one step, under its lock; all that changes is the tool's lines; and  *)
(* what they become is what a key asks for that the guest had, with        *)
(* hardware that was there.  Module Reconcile is shown to implement this.  *)
(***************************************************************************)
EXTENDS GpuLines

CONSTANTS
    Guests,      \* container ids
    Docs,        \* the `gpu` subtrees a guest may have
    Hardware,    \* what /proc may say
    Lines        \* the lines a config may have

VARIABLES
    hw,          \* the hardware
    doc,         \* per guest, its `gpu` key: none or one document
    keyed,       \* guests that ever had one
    exist,       \* guests with a config on this node
    conf,        \* per guest, the lines of the main section
    held,        \* guests whose config lock this tool holds
    begun,       \* guests whose config it is about to replace
    stocks,      \* hardware it has seen, and goes by
    asked        \* per guest, keys it has read, and goes by

world == <<hw, doc, keyed>>
configs == <<exist, conf>>
tool == <<held, begun, stocks, asked>>
vars == <<world, configs, tool>>

Keys == {{}} \cup {{d} : d \in Docs}

Init ==
    /\ hw \in Hardware /\ doc \in [Guests -> Keys]
    /\ keyed = {g \in Guests : doc[g] # {}}
    /\ exist = Guests /\ conf \in [Guests -> SUBSET Lines]
    /\ held = {} /\ begun = {} /\ stocks = {}
    /\ asked = [g \in Guests |-> {}]

-----------------------------------------------------------------------------
\* The tool looks at the hardware and the keys; locks are taken and freed; a
\* write is begun, or given up.
Prepare ==
    /\ stocks' \subseteq stocks \cup {hw}
    /\ \A g \in Guests : asked'[g] \subseteq asked[g] \cup {doc[g]}
    /\ held' \cup begun' \subseteq Guests
    /\ UNCHANGED <<world, configs>>

\* What a write leaves of all that.
WriteDone(g) ==
    /\ held' \subseteq held /\ begun' \subseteq begun \ {g} /\ stocks' \subseteq stocks
    /\ \A h \in Guests : asked'[h] \subseteq asked[h]

\* The lines that are the tool's on this hardware, whatever it remembers, and
\* the rules of majors that no driver has now: it may once have written them.
Own(lines, stock) == ManagedLines(lines, [uvm |-> stock.uvm, remembered |-> {}])
Abandoned(lines, stock) ==
    {l \in lines : l.key = "allow" /\ l.name = "c" /\ l.major # Wildcard
                   /\ l.major \notin stock.chars}

Fit(lines, key) ==
    /\ ~Locked(lines)
    /\ key # {} => IsUnprivileged(lines) /\ NvidiaDevEntries(lines) = {}

\* A guest that had a key: its lines become what the key and the hardware, with
\* a driver, ask for.  Everything else of the config that stands is kept.
Replace(g) ==
    /\ g \in exist /\ g \in begun /\ g \in held /\ g \in keyed
    /\ \E key \in asked[g], stock \in stocks : \E old \in SUBSET Abandoned(conf[g], stock) :
          /\ stock.driver /\ Fit(conf[g], key)
          /\ stock.uvm = {} => old = {}
          /\ conf' = [conf EXCEPT ![g] =
                        (@ \ (Own(@, stock) \cup old)) \cup UNION {Wanted(d, stock) : d \in key}]
    /\ WriteDone(g)
    /\ UNCHANGED <<world, exist>>

BecomesAny(g) ==
    /\ exist' = exist \cup {g}
    /\ \E lines \in {conf'[g]} : lines \subseteq Lines /\ conf' = [conf EXCEPT ![g] = lines]

\* The window that is left open: a config that went after the last look at it
\* comes back.
Revive(g) ==
    /\ g \notin exist /\ g \in begun /\ g \in held /\ g \in keyed
    /\ BecomesAny(g)
    /\ WriteDone(g)
    /\ UNCHANGED world

-----------------------------------------------------------------------------
\* Everybody else.
Edit(g) == g \notin held /\ BecomesAny(g) /\ UNCHANGED <<world, tool>>
Vanish(g) ==
    /\ exist' = exist \ {g} /\ conf' = [conf EXCEPT ![g] = {}]
    /\ UNCHANGED <<world, tool>>
GetsKey(g) ==
    /\ \E key \in Keys : /\ doc' = [doc EXCEPT ![g] = key]
                         /\ keyed' = IF key = {} THEN keyed ELSE keyed \cup {g}
    /\ UNCHANGED <<hw, configs, tool>>
HardwareChanges == hw' \in Hardware /\ UNCHANGED <<doc, keyed, configs, tool>>

Next ==
    \/ Prepare \/ HardwareChanges
    \/ \E g \in Guests : Replace(g) \/ Revive(g) \/ Edit(g) \/ Vanish(g) \/ GetsKey(g)

Spec == Init /\ [][Next]_vars
=============================================================================
