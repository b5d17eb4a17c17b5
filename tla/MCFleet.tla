------------------------------ MODULE MCFleet ------------------------------
(* Finite instances of Fleet for TLC.                                      *)
EXTENDS Fleet
=============================================================================
