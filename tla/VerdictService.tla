--------------------------- MODULE VerdictService ---------------------------
(***************************************************************************)
(* What the deep path promises to the middleware, whatever cache, breaker, *)
(* retries and timeouts stand behind it: each analysis asked for gets at   *)
(* most one verdict; a verdict other than a fail-open one was given by     *)
(* Gemini, for a request with the same cache key, before it was returned.  *)
(* A worker that dies loses the analyses it was running and nothing else.  *)
(***************************************************************************)
CONSTANTS
    Requests,       \* calls of analyze()
    Keys,           \* cache keys, what _make_payload_hash tells apart
    NoKey           \* not yet asked

ASSUME KeysAssumption == NoKey \notin Keys

VARIABLES
    asked,          \* the key each analysis is about
    said,           \* the answers Gemini has given so far, by key
    verdict         \* what each analysis returned

serviceVars == <<asked, said, verdict>>

Answers   == {"attack", "benign"}              \* Verdict.is_attack of a Gemini answer
FailOpens == {"open", "timeout", "error"}      \* the three fail-open explanations
None      == "none"
Lost      == "lost"

Pending(r) == asked[r] # NoKey /\ verdict[r] = None

Init ==
    /\ asked = [r \in Requests |-> NoKey]
    /\ said = [k \in Keys |-> {}]
    /\ verdict = [r \in Requests |-> None]

Ask(r, k) ==
    /\ asked[r] = NoKey
    /\ asked' = [asked EXCEPT ![r] = k]
    /\ UNCHANGED <<said, verdict>>

Judge(r, a) ==
    /\ Pending(r)
    /\ said' = [said EXCEPT ![asked[r]] = @ \union {a}]
    /\ UNCHANGED <<asked, verdict>>

Return(r, a) ==
    /\ Pending(r)
    /\ a \in said[asked[r]]
    /\ verdict' = [verdict EXCEPT ![r] = a]
    /\ UNCHANGED <<asked, said>>

FailOpen(r, reason) ==
    /\ Pending(r)
    /\ verdict' = [verdict EXCEPT ![r] = reason]
    /\ UNCHANGED <<asked, said>>

Lose(R) ==
    /\ \A r \in R : Pending(r)
    /\ verdict' = [r \in Requests |-> IF r \in R THEN Lost ELSE verdict[r]]
    /\ UNCHANGED <<asked, said>>

Next ==
    \/ \E r \in Requests :
          \/ \E k \in Keys : Ask(r, k)
          \/ \E a \in Answers : Judge(r, a) \/ Return(r, a)
          \/ \E reason \in FailOpens : FailOpen(r, reason)
    \/ \E R \in SUBSET Requests : Lose(R)

Spec == Init /\ [][Next]_serviceVars

=============================================================================
