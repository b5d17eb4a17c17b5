----------------------------- MODULE MCGateway -----------------------------
(* Finite instances of Gateway for TLC.                                    *)
EXTENDS Gateway
=============================================================================
