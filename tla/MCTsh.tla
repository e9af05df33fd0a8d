------------------------------- MODULE MCTsh -------------------------------
(* Instances of Tsh for TLC.                                               *)
EXTENDS Tsh, TLC

PidSymmetry == Permutations(Pid)
=============================================================================
