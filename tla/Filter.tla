-------------------------------- MODULE Filter --------------------------------
(* What is left of a sequence without some of its elements: SelectSeq, by a   *)
(* recursive function, which can be reasoned about.                           *)
EXTENDS Integers, Sequences

Without(s, S) ==
    LET left[n \in 0..Len(s)] ==
            IF n = 0 THEN <<>> ELSE IF s[n] \in S THEN left[n - 1] ELSE Append(left[n - 1], s[n])
    IN  left[Len(s)]
=============================================================================
