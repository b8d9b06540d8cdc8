----------------------------- MODULE MCBootPass -----------------------------
(* A small instance of BootPass: two cards, four guests, time in units of *)
(* five seconds; /proc/devices with one name on two rows.                  *)
EXTENDS BootPass

SomeRows == <<[name |-> "pts", major |-> 136], [name |-> "pts", major |-> 137],
              [name |-> "nvidia", major |-> 195]>>
=============================================================================
