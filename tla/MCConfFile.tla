----------------------------- MODULE MCConfFile -----------------------------
(* Small instances of ConfFile: two cards whose names and minors are in    *)
(* opposite orders, three majors, the lines a person would have, and what  *)
(* a person would write under `gpu`, slips of the hand included.           *)
EXTENDS ConfFile

CardA == [uuid |-> "GPU-a", minor |-> 1]
CardB == [uuid |-> "GPU-b", minor |-> 0]
Stock(uvm, chars) ==
    [driver |-> TRUE, gpus |-> {CardA, CardB}, uvm |-> uvm, chars |-> {195} \cup uvm \cup chars]
McStocks == {Stock({}, {}), Stock({500}, {}), Stock({510}, {500}), Stock({520}, {})}

Key(is) == Text(Plainly(is))
Device(is) == Text(Word(is, "GPU-", "hex", {"hex", "dash"}))
Version(is, chars) == Word(is, "", "digit", {"digit", "dot"} \cup chars)
Says(key, value) == Entry(Key(key), value)
Devices(a, b) == Says("devices", Mapping({Entry(Device("GPU-a"), a), Entry(Device("GPU-b"), b)}))

Everything ==
    Mapping({Devices(Bool(TRUE), Bool(TRUE)),
             Says("capabilities", Mapping({Says("graphics", Bool(TRUE)), Says("video", Bool(FALSE))})),
             Says("require_cuda", Float(Version("12.4", {})))})
OneCard ==
    Mapping({Devices(Text(Plainly("off")), Number(1, NoWord)), Says("capabilities", Mapping({}))})
SlipOfTheHand == Mapping({Devices(Bool(TRUE), Text(Plainly("maybe")))})
WithALineBreak ==
    Mapping({Devices(Bool(FALSE), Bool(TRUE)),
             Says("require_cuda", Text(Version("12.4 and a line", {"break", "letter"})))})
UnknownKey == Mapping({Devices(Bool(TRUE), Bool(TRUE)), Says("device", Bool(TRUE))})
McSubtrees == {Everything, OneCard, SlipOfTheHand, WithALineBreak, UnknownKey}

McForeign == {Blank, Allow(500, 7), Unprivileged}
McSections == {<<>>, <<Plain("section", "snap", {})>>}
=============================================================================
