------------------------------- MODULE MCFcyc -------------------------------
(* Small words, and costs that stand to each other as the thresholds of     *)
(* clock.c suppose.                                                         *)
EXTENDS Fcyc

MCStarts == {5, 60}
MCSettings ==
  {[k |-> 2, max |-> 3, compensate |-> TRUE],
   [k |-> 2, max |-> 3, compensate |-> FALSE],
   [k |-> 3, max |-> 3, compensate |-> FALSE]}
=============================================================================
