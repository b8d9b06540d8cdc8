---------------------------- MODULE MCReconcile ----------------------------
(* Small instances of Reconcile: one card, boots that give nvidia-uvm one   *)
(* of three majors, and a document that asks for the card or for nothing.  *)
EXTENDS Reconcile, TLC

\* Nothing in Reconcile tells two guests apart.
Interchangeable == Permutations(Guests)

Document(devices) == [devices |-> devices, capabilities |-> {}, require_cuda |-> {}]
CardDoc == {Document({"card"})}

Card == [uuid |-> "card", minor |-> 0]
Node(driver, gpus, uvm, chars) ==
    [driver |-> driver, gpus |-> gpus, uvm |-> uvm, chars |-> {195} \cup uvm \cup chars]
NoUvm == Node(TRUE, {Card}, {}, {})
Uvm500 == Node(TRUE, {Card}, {500}, {})
Uvm520 == Node(TRUE, {Card}, {520}, {})
Taken500 == Node(TRUE, {Card}, {510}, {500})
CardPulled == Node(TRUE, {}, {500}, {})
NoDriver == NoInventory

Pulls == {Uvm500, CardPulled}
Lazy == {NoUvm, Uvm500}
Reboots == {NoDriver, NoUvm, Uvm500, Taken500, Uvm520}

BareConfig == {{Unprivileged}}
LinesByHand == {{Unprivileged, HookLine, Allow(500, 0)}}
LockOnly == {BackupLock}
EditLines == {BackupLock, DevEntry}
=============================================================================
