----------------------------- MODULE Subsequence -----------------------------
(***************************************************************************)
(* The elements of a sequence that are in a set, in their order.           *)
(***************************************************************************)
EXTENDS Naturals, Sequences

Only(s, K) ==
  LET only[i \in 0 .. Len(s)] ==
        IF i = 0 THEN << >>
        ELSE IF s[i] \in K THEN Append(only[i - 1], s[i])
        ELSE only[i - 1]
  IN  only[Len(s)]
=============================================================================
