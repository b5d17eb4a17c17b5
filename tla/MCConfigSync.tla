---------------------------- MODULE MCConfigSync ----------------------------
(* Finite instances of ConfigSync for TLC.                                 *)
EXTENDS ConfigSync, TLC

CONSTANTS threshold, healing, low, high

BothSettings == {threshold, healing}
TwoValues == {low, high}
Defaults == threshold :> low @@ healing :> low

\* A save of one setting, and a save of both.
TwoBodies == {threshold :> high, threshold :> low @@ healing :> high}

=============================================================================
