------------------------------ MODULE GpuLines ------------------------------
(***************************************************************************)
(* The lines of a container's configuration, as far as this tool tells     *)
(* them apart, and what it does with them: which lines are its own, which  *)
(* ones a document and an inventory ask for, and how the one set replaces  *)
(* the other (conf.rs, plan.rs, the Gpu of doc.rs).                        *)
(*                                                                         *)
(* A main section is the SET of its lines here; their order, repetition    *)
(* and the sections below are the subject of module ConfFile.  An Option is *)
(* a set of at most one element.                                           *)
(***************************************************************************)
EXTENDS Naturals

NvidiaMajor == 195
ModesetMinor == 254
CtlMinor == 255

\* A major or minor that is `*`.
Wildcard == 1000

\* NVIDIA_ variables the tool writes, and the prefix it recognises them by.
VisibleDevices == "NVIDIA_VISIBLE_DEVICES"
DriverCapabilities == "NVIDIA_DRIVER_CAPABILITIES"
RequireCuda == "NVIDIA_REQUIRE_CUDA"
DisableRequire == "NVIDIA_DISABLE_REQUIRE"    \* never written, still owned
NvidiaNames == {VisibleDevices, DriverCapabilities, RequireCuda, DisableRequire}

Hook == "nvidia-hook"

\* One line: its key, what its value starts with, the payload, the device.
Plain(key, name, data) ==
    [key |-> key, name |-> name, data |-> data, major |-> 0, minor |-> 0]
Allow(major, minor) ==
    [key |-> "allow", name |-> "c", data |-> {}, major |-> major, minor |-> minor]
HookLine == Plain("hook", Hook, {})
EnvLine(name, data) == Plain("env", name, data)
Unprivileged == Plain("unprivileged", "1", {})
BackupLock == Plain("lock", "backup", {})
DevEntry == Plain("dev", "/dev/nvidia", {})

Locked(text) == \E l \in text : l.key = "lock"
IsUnprivileged(text) == Unprivileged \in text \/ \E l \in text : l.key = "idmap"
NvidiaDevEntries(text) == {l \in text : l.key = "dev" /\ l.name = "/dev/nvidia"}

-----------------------------------------------------------------------------
\* Which majors' allow lines the tool owns (Owned::new, Owned::owns).

\* Mutant: every rule of a major on the list is replaced, whoever has it now.
OwnedEver(uvm, remembered, live) ==
    [uvm |-> uvm, remembered |-> IF uvm = {} THEN {} ELSE remembered]

OwnedBy(uvm, remembered, live) ==
    [uvm |-> uvm,
     remembered |-> IF uvm = {} THEN {}
                    ELSE {m \in remembered : m \in uvm \/ m \notin live}]

Owns(owned, major) ==
    \/ major = NvidiaMajor
    \/ major \in owned.uvm
    \/ major \in owned.remembered

IsManaged(line, owned) ==
    \/ line.key = "hook" /\ line.name = Hook
    \/ line.key = "env" /\ line.name \in NvidiaNames
    \/ line.key = "allow" /\ line.name = "c" /\ line.major # Wildcard
          /\ Owns(owned, line.major)

ManagedLines(text, owned) == {l \in text : IsManaged(l, owned)}

Splice(text, desired, owned) == (text \ ManagedLines(text, owned)) \cup desired

-----------------------------------------------------------------------------
\* What a document asks for, as lines.

DefaultCapabilities == {"compute", "utility"}
CapabilityList(want) ==
    IF want.capabilities = {} THEN DefaultCapabilities ELSE UNION want.capabilities

Render(gpus, caps, cuda, uvm) ==
    IF gpus = {} THEN {}
    ELSE {Allow(NvidiaMajor, g.minor) : g \in gpus}
         \cup {Allow(NvidiaMajor, ModesetMinor) : c \in caps \cap {"graphics", "display"}}
         \cup {Allow(NvidiaMajor, CtlMinor), HookLine,
               EnvLine(VisibleDevices, {g.uuid : g \in gpus})}
         \cup {Allow(m, i) : m \in uvm, i \in {0, 1}}
         \cup (IF caps = {} THEN {} ELSE {EnvLine(DriverCapabilities, caps)})
         \cup {EnvLine(RequireCuda, {v}) : v \in cuda}

\* The cards the document asks for and this node has.
Selected(want, inv) == {g \in inv.gpus : g.uuid \in want.devices}

Wanted(want, inv) ==
    Render(Selected(want, inv), CapabilityList(want), want.require_cuda, inv.uvm)

\* The outcome of planning one guest, and the lines it is about.
Outcome(text, wants, inv, remembered, managed) ==
    LET owned == OwnedBy(inv.uvm, remembered, inv.chars)
        Says(kind, desired) ==
            [kind |-> kind, desired |-> desired, owned |-> owned,
             current |-> ManagedLines(text, owned)]
    IN IF ~inv.driver THEN Says("NoDriver", {})
       ELSE IF wants = {} THEN Says(IF managed THEN "Plan" ELSE "Unmanaged", {})
       ELSE IF ~IsUnprivileged(text) \/ NvidiaDevEntries(text) # {}
            THEN Says("Refused", {})
       ELSE Says("Plan", UNION {Wanted(w, inv) : w \in wants})

Changed(plan) == plan.desired # plan.current
=============================================================================
