------------------------------ MODULE SeqFilter ------------------------------
(* What is left of a list when only some of its elements are retained.     *)
EXTENDS Naturals, Sequences

\* The elements of s that are in the set T, in their order (Vec::retain).
Among(s, T) ==
    LET first[n \in 0..Len(s)] ==
            IF n = 0 THEN <<>>
            ELSE IF s[n] \in T THEN Append(first[n - 1], s[n]) ELSE first[n - 1]
    IN first[Len(s)]
=============================================================================
