----------------------------- MODULE MCElectricity -----------------------------
(* Instances of Electricity.                                               *)
EXTENDS Electricity, TLC

HandlerSymmetry == Permutations(Handlers)
=============================================================================
