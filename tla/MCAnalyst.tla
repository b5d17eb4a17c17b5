----------------------------- MODULE MCAnalyst -----------------------------
(* Finite instances of Analyst for TLC.                                    *)
EXTENDS Analyst, TLC

CallSymmetry == Permutations(Requests)
FullSymmetry == CallSymmetry \union Permutations(Workers) \union Permutations(Keys)

\* The exception texts of a run: neither code, either, or both, as of a 429
\* whose quota reads "limit: 1500".
Errors == SUBSET {"429", "5xx"}

=============================================================================
