--------------------------- MODULE MCProducerRows ---------------------------
(***************************************************************************)
(* Instances of ProducerRows for TLC: one CPF, an active and an inactive   *)
(* CNPJ, up to two producers and requests.                                 *)
(***************************************************************************)
EXTENDS ProducerRows, TLC

Symmetry == Permutations(Producers) \cup Permutations(Requests)
=============================================================================
