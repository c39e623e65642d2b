----------------------------- MODULE Selection -----------------------------
(* SelectSeq(s, LAMBDA x : x \in K), written out for the proof system, to    *)
(* which SelectSeq is a primitive without a definition.                     *)
EXTENDS Integers, Sequences

\* The elements of s that are in K, in their order.
Select(s, K) ==
  LET chosen[i \in 0 .. Len(s)] ==
        IF i = 0 THEN <<>>
        ELSE IF s[i] \in K THEN Append(chosen[i - 1], s[i]) ELSE chosen[i - 1]
  IN chosen[Len(s)]
=============================================================================
