--------------------------- MODULE CircuitBreaker ---------------------------
(***************************************************************************)
(* The circuit breaker that ParserService consults before it talks to SQL  *)
(* Server (src/agent/utils/circuit_breaker.py).  Each method runs under    *)
(* the breaker's own lock, so each is one action.                          *)
(*                                                                         *)
(* Time is abstracted to one bit: cooled says that cooldown_seconds have   *)
(* passed since last_state_change.                                         *)
(***************************************************************************)
EXTENDS Naturals

CONSTANT Threshold        \* failure_threshold, positive: assumed where it is instantiated

VARIABLES
    cb_state,             \* "CLOSED", "OPEN" or "HALF_OPEN"
    failure_count,        \* failures since the last success, saturating
    cooled                \* the cooldown of an OPEN breaker has expired

cbVars == <<cb_state, failure_count, cooled>>

CBTypeOK ==
    /\ cb_state \in {"CLOSED", "OPEN", "HALF_OPEN"}
    /\ failure_count \in 0..Threshold
    /\ cooled \in BOOLEAN

CBInit == cb_state = "CLOSED" /\ failure_count = 0 /\ cooled = FALSE

\* Mutation: an OPEN breaker never probes.
CanExecuteClosedOnly ==
    /\ cb_state # "OPEN"
    /\ UNCHANGED cbVars

\* can_execute returning TRUE.  It returns FALSE, and changes nothing, exactly
\* when this action is disabled.
CanExecute ==
    /\ cb_state = "OPEN" => cooled
    /\ cb_state' = IF cb_state = "OPEN" THEN "HALF_OPEN" ELSE cb_state
    /\ cooled' = FALSE
    /\ UNCHANGED failure_count

RecordSuccess ==
    /\ cb_state' = "CLOSED"
    /\ failure_count' = 0
    /\ cooled' = FALSE

\* Mutation: the threshold is passed, not reached.
RecordFailureLate ==
    /\ failure_count' = failure_count + 1
    /\ cb_state' = IF failure_count' > Threshold THEN "OPEN" ELSE cb_state
    /\ cooled' = FALSE

\* The code only ever compares failure_count with the threshold, so counting
\* stops there.  Only a success resets it: a breaker that was OPEN once is at
\* the threshold all through HALF_OPEN.
RecordFailure ==
    /\ failure_count' = IF failure_count < Threshold THEN failure_count + 1
                                                     ELSE Threshold
    /\ cb_state' = IF failure_count' = Threshold THEN "OPEN" ELSE cb_state
    /\ cooled' = IF cb_state = "OPEN" THEN cooled ELSE FALSE

\* The clock passes last_state_change + cooldown_seconds.
CooldownElapses ==
    /\ cb_state = "OPEN" /\ ~cooled
    /\ cooled' = TRUE
    /\ UNCHANGED <<cb_state, failure_count>>

\* The three fields agree: CLOSED is below the threshold, OPEN and HALF_OPEN
\* are at it (so one failed probe re-opens), and only OPEN waits.
BreakerConsistent ==
    /\ cb_state = "CLOSED" <=> failure_count < Threshold
    /\ cooled => cb_state = "OPEN"
=============================================================================
