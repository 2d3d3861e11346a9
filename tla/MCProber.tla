------------------------------ MODULE MCProber ------------------------------
(***************************************************************************)
(* Instances of Prober for TLC: two callers and two upstream settings that *)
(* share one address, one of them without SOCKS.                           *)
(***************************************************************************)
EXTENDS Prober, TLC

CONSTANTS s1, h1

TwoSettings == {[socks |-> s1, http |-> h1], [socks |-> None, http |-> h1]}

Symmetry == Permutations(Callers)
=============================================================================
