------------------------------ MODULE MCKuard ------------------------------
(* A small instance of Kuard for TLC.                                      *)
EXTENDS Kuard

Values == {-1, 0, 1, 2, 4}
=============================================================================
