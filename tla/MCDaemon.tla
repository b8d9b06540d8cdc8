------------------------------ MODULE MCDaemon ------------------------------
(* Small instances of Daemon: one card, a document that asks for it, a     *)
(* container that can carry the lines.                                     *)
EXTENDS Daemon

CardDoc == {[devices |-> {"card"}, capabilities |-> {}, require_cuda |-> {}]}

Node(driver, gpus, uvm) ==
    [driver |-> driver, gpus |-> gpus, uvm |-> uvm, chars |-> {195} \cup uvm]
CardIn(uvm) == Node(TRUE, {[uuid |-> "card", minor |-> 0]}, uvm)
CardOut == Node(TRUE, {}, {})
AnyHardware == {CardIn({500}), CardIn({510}), CardOut}

BareConfig == {{Unprivileged}}
=============================================================================
