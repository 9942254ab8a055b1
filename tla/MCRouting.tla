----------------------------- MODULE MCRouting -----------------------------
(***************************************************************************)
(* Routing on two machines and up to two copies of one model, "q" for its  *)
(* base name.                                                              *)
(***************************************************************************)
EXTENDS Routing, TLC

CONSTANTS q, q1, q2

MCBaseName == [m \in Mids |-> q]
MCAnswers == SUBSET Mids

\* TLC compares it with the answers, which are sets of ids.
MCUnpolled == {NoMid}

MCSymmetry == Permutations(Reqs) \union Permutations(Urls)
=============================================================================
