--------------------------- MODULE CircuitBreaker ---------------------------
(***************************************************************************)
(* The circuit breaker a WAF worker keeps around its Gemini calls, the     *)
(* class _CircuitBreaker of data_plane/detection/analyst.py.               *)
(*                                                                         *)
(* A breaker is a record; each method of the class is an operator from the *)
(* record before the call to the record after it.  The methods contain no  *)
(* await, so the event loop never interleaves them.                        *)
(*                                                                         *)
(* opened_at and time.monotonic() only ever meet in the comparison         *)
(* "elapsed > RESET_TIMEOUT", so the record keeps the elapsed time itself, *)
(* in ticks, saturated one tick above ResetTimeout.                        *)
(***************************************************************************)
EXTENDS Naturals

CONSTANTS
    Threshold,      \* _CircuitBreaker.THRESHOLD, consecutive failures that trip it
    ResetTimeout    \* _CircuitBreaker.RESET_TIMEOUT, in ticks

ASSUME BreakerAssumption ==
    /\ Threshold \in Nat \ {0}
    /\ ResetTimeout \in Nat

Breakers ==
    [failures : Nat,
     state    : {"closed", "open", "half-open"},
     elapsed  : 0 .. ResetTimeout + 1]

FreshBreaker == [failures |-> 0, state |-> "closed", elapsed |-> 0]

RecordSuccess(b) == [b EXCEPT !.failures = 0, !.state = "closed"]

\* Mutant: trips one failure too late.
RecordFailureLate(b) ==
    IF b.state = "closed" /\ b.failures + 1 > Threshold
    THEN [failures |-> b.failures + 1, state |-> "open", elapsed |-> 0]
    ELSE [b EXCEPT !.failures = @ + 1]

\* Only a closed breaker trips; an open or half-open one just counts.
RecordFailure(b) ==
    IF b.state = "closed" /\ b.failures + 1 >= Threshold
    THEN [failures |-> b.failures + 1, state |-> "open", elapsed |-> 0]
    ELSE [b EXCEPT !.failures = @ + 1]

\* allow_request() has an answer and, on the way to half-open, an effect.
CoolDownOver(b) == b.elapsed > ResetTimeout
Allows(b) == b.state # "open" \/ CoolDownOver(b)
AllowRequest(b) ==
    IF b.state = "open" /\ CoolDownOver(b)
    THEN [b EXCEPT !.state = "half-open"]
    ELSE b

\* One tick of the monotonic clock, which matters to an open breaker only.
Elapse(b) ==
    IF b.state = "open" /\ ~CoolDownOver(b)
    THEN [b EXCEPT !.elapsed = @ + 1]
    ELSE b

=============================================================================
