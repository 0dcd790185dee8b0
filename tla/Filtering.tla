------------------------------ MODULE Filtering ------------------------------
(***************************************************************************)
(* The loops of the code that go through a list and keep some of it.  What *)
(* is kept is given as a set, where SelectSeq takes an operator: a theorem *)
(* about sequences and sets can be cited for every such loop.              *)
(***************************************************************************)
EXTENDS Integers, Sequences

\* The elements of s that are in T, in the order of s.
OnlyIn(s, T) ==
    LET kept[i \in 0 .. Len(s)] ==
            IF i = 0 THEN <<>>
            ELSE IF s[i] \in T THEN Append(kept[i - 1], s[i]) ELSE kept[i - 1]
    IN  kept[Len(s)]
=============================================================================
