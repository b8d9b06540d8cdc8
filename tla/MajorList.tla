----------------------------- MODULE MajorList -----------------------------
(* The nvidia-uvm majors a node has written rules with, newest first, as   *)
(* state.rs keeps them: at most UvmKept, and one file for the whole node.  *)
EXTENDS SeqFilter

UvmKept == 2

Elements(s) == {s[i] : i \in DOMAIN s}

\* Mutant: only the major in use is remembered.
RememberedOnlyNew(old, m) == <<m>>

\* What Record::remember_uvm leaves in the file.
Remembered(old, m) ==
    LET list == <<m>> \o Among(old, Elements(old) \ {m})
    IN SubSeq(list, 1, IF Len(list) < UvmKept THEN Len(list) ELSE UvmKept)

\* The file after the lines of one guest were written, by a pass that knew
\* `known` of it.  It is left alone where the major in use is the newest.
Noted(file, known, uvm) ==
    IF uvm = {} \/ (known # <<>> /\ Head(known) \in uvm) THEN file
    ELSE Remembered(known, CHOOSE m \in uvm : TRUE)
=============================================================================
