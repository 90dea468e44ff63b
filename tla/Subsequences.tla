---------------------------- MODULE Subsequences ----------------------------
(***************************************************************************)
(* What is left of a sequence when some of its places are taken out.  The  *)
(* definition counts places and does not recurse, so that proofs may cite  *)
(* the theorems about finite sets.                                         *)
(***************************************************************************)
EXTENDS Integers, Sequences, FiniteSets

\* The places of s at which e stands.
Places(s, e) == {i \in DOMAIN s : s[i] = e}

\* The elements of s at some of its places, in their order.
Subsequence(s, places) ==
    [k \in 1..Cardinality(places) |->
        s[CHOOSE i \in places : Cardinality({j \in places : j < i}) = k - 1]]
=============================================================================
