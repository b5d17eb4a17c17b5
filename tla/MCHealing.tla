----------------------------- MODULE MCHealing -----------------------------
(* Finite instances of Healing for TLC.                                    *)
EXTENDS Healing
=============================================================================
