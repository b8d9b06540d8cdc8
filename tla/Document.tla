------------------------------ MODULE Document ------------------------------
(***************************************************************************)
(* The `gpu` subtree of a document as YAML, and what doc.rs makes of it.   *)
(*                                                                         *)
(* A YAML value is a record: its kind, what it is, and, of a map, its      *)
(* entries.  A word is what parsing tells apart in a text: which text it   *)
(* is, trimmed, the prefix it begins with, and the classes of the          *)
(* characters that follow.  An Option is a set of at most one element.     *)
(***************************************************************************)
EXTENDS Naturals, FiniteSets

Word(is, head, first, chars) == [is |-> is, head |-> head, first |-> first, chars |-> chars]
NoWord == Word("", "", "", {})

Value(kind, number, word, entries) ==
    [kind |-> kind, number |-> number, word |-> word, entries |-> entries]
Bool(b) == Value("bool", IF b THEN 1 ELSE 0, NoWord, {})
\* A number is shown as a word of its own: 12.10 is a float and shown as 12.1.
Number(i, shown) == Value("int", i, shown, {})
Float(shown) == Value("float", 0, shown, {})
Text(word) == Value("text", 0, word, {})
Null == Value("null", 0, NoWord, {})
Mapping(entries) == Value("map", 0, NoWord, entries)
Entry(key, value) == [key |-> key, value |-> value]

Plainly(is) == Word(is, "", "letter", {"letter"})

-----------------------------------------------------------------------------
Truths == {"1", "true", "yes", "on"}
Falsehoods == {"0", "false", "no", "off"}

\* Mutant: YAML's own booleans only.
FlagOfBool(v) == IF v.kind = "bool" THEN {v.number = 1} ELSE {}

FlagOf(v) ==
    IF v.kind \in {"bool", "int"} THEN {b \in BOOLEAN : v.number = IF b THEN 1 ELSE 0}
    ELSE IF v.kind = "text" THEN {b \in BOOLEAN : v.word.is \in IF b THEN Truths ELSE Falsehoods}
    ELSE {}

\* What could end a config line or a list is in neither.
IsDeviceId(w) == w.head = "GPU-" /\ w.chars # {} /\ w.chars \subseteq {"digit", "hex", "dash"}

\* Mutant: a version begins like one.
BeginsLikeVersion(w) == w.head = "" /\ w.first = "digit"

IsVersion(w) == w.head = "" /\ w.first = "digit" /\ w.chars \subseteq {"digit", "dot"}

Capabilities == {"compute", "compat32", "display", "graphics", "utility", "video"}

IsName(key, w) == IF key = "devices" THEN IsDeviceId(w) ELSE w.is \in Capabilities
On(v) == {e.key.word.is : e \in {e \in v.entries : FlagOf(e.value) = {TRUE}}}

\* Mutant: an entry that is not understood is left out.
FlagsUnderstood(v, key) == IF v.kind = "map" THEN {On(v)} ELSE {}

\* A map of flags, whole or not at all: {the names that are on}, or nothing.
Flags(v, key) ==
    IF v.kind = "map" /\ \A e \in v.entries :
            e.key.kind = "text" /\ IsName(key, e.key.word) /\ FlagOf(e.value) # {}
    THEN {On(v)}
    ELSE {}

Versions(v) ==
    IF v.kind \in {"text", "int", "float"} /\ IsVersion(v.word) THEN {v.word.is} ELSE {}

\* What the key `name` of a subtree has for a value.
Under(root, name) == {e.value : e \in {e \in root.entries : e.key.word.is = name}}

Understood(root) ==
    /\ root.kind = "map"
    /\ \A e \in root.entries :
          /\ e.key.kind = "text"
          /\ \/ e.key.word.is \in {"devices", "capabilities"}
                   /\ Flags(e.value, e.key.word.is) # {}
             \/ e.key.word.is = "require_cuda" /\ Versions(e.value) # {}

\* The Gpu a subtree says, or nothing when any of it is not understood.
Parse(root) ==
    IF ~Understood(root) THEN {}
    ELSE {[devices |-> UNION UNION {Flags(v, "devices") : v \in Under(root, "devices")},
           capabilities |-> UNION {Flags(v, "capabilities") : v \in Under(root, "capabilities")},
           require_cuda |-> UNION {Versions(v) : v \in Under(root, "require_cuda")}]}

-----------------------------------------------------------------------------
\* The same subtree as a JSON-mode write of pve-meta leaves it: 1 and 0 where
\* it said true and false (external).
InJson(v) == IF v.kind = "bool" THEN Value("int", v.number, Plainly("0 or 1"), {}) ELSE v
FlagsInJson(v) ==
    IF v.kind = "map" THEN Mapping({Entry(e.key, InJson(e.value)) : e \in v.entries}) ELSE v
SubtreeInJson(root) ==
    Mapping({Entry(e.key, FlagsInJson(e.value)) : e \in root.entries})

\* Every word of a subtree two levels deep.
WordsOf(root) ==
    LET below == UNION {{e.key, e.value} : e \in root.entries}
    IN {v.word : v \in below \cup UNION {{e.key, e.value} :
                          e \in UNION {v.entries : v \in below}}}
=============================================================================
