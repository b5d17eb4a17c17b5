------------------------------ MODULE MCCerts ------------------------------
(* Finite instances of Certs for TLC.                                      *)
EXTENDS Certs
=============================================================================
