--------------------------- MODULE MCWafPipeline ---------------------------
(* Finite instances of WafPipeline for TLC.                                *)
EXTENDS WafPipeline

\* One score on each side of the threshold.
LowAndHigh == {0, 1}

=============================================================================
