----------------------------- MODULE MonitorLoop -----------------------------
(***************************************************************************)
(* What background_ping_check and background_hikvision_check have in       *)
(* common: a loop that lists the devices, starts a check of each, of which *)
(* a semaphore lets some run, gathers them, sleeps, and starts over.       *)
(*                                                                         *)
(* asyncio.gather raises the first exception of its tasks and leaves the   *)
(* others running.  So checks of a round that has failed may still be      *)
(* under way in the next one, with a semaphore of their own.               *)
(*                                                                         *)
(* The listing may raise too: the loop then sleeps, and no check begins.   *)
(* The sleep takes any time.                                               *)
(***************************************************************************)
EXTENDS FiniteSets, Naturals

CONSTANTS
    Devices,
    Limit,      \* of the semaphore
    Rounds      \* bound: rounds with checks under way; the numbers are used again

VARIABLES
    loop,       \* "list", "gather", "sleep"; "stopped"
    round,      \* the round that is being gathered
    stage       \* the check of a device in a round

loopVars == <<loop, round, stage>>

\* "none": not begun, or over; "queued": waits for a permit; "failed": raised.
\* What a check does while it holds a permit is its own affair.
Ended == {"none", "failed"}
Holding(r, d) == stage[r][d] \notin Ended \cup {"queued"}
Active(r) == {d \in Devices : stage[r][d] \notin Ended}

LoopInit(workers) ==
    /\ loop = "list" /\ round = 1
    /\ stage = [w \in workers |-> [d \in Devices |-> "none"]]

StartRound(ids) ==
    /\ loop = "list" /\ loop' = "gather"
    /\ \E r \in 1..Rounds :
        /\ Active(r) = {} /\ \A q \in 1..(r - 1) : Active(q) # {}
        /\ round' = r
        /\ stage' = [stage EXCEPT ![r] = [d \in Devices |-> IF d \in ids THEN "queued" ELSE "none"]]

\* Mutation: the exception of a listing ends the loop.
ListDies == loop = "list" /\ loop' = "dead" /\ UNCHANGED <<round, stage>>

\* The session or its query raises, which the loop catches.
ListFails == loop = "list" /\ loop' = "sleep" /\ UNCHANGED <<round, stage>>

WakeUp == loop = "sleep" /\ loop' = "list" /\ UNCHANGED <<round, stage>>

MoveTo(w, d, s) == stage' = [stage EXCEPT ![w][d] = s] /\ UNCHANGED <<loop, round>>

\* async with sem.
Admit(r, d, s) ==
    /\ stage[r][d] = "queued"
    /\ Cardinality({e \in Devices : Holding(r, e)}) < Limit
    /\ MoveTo(r, d, s)

Raised(r) == \E d \in Devices : stage[r][d] = "failed"

\* Mutation: the checks are started and not gathered.
Ungathered == loop = "gather" /\ loop' = "sleep" /\ UNCHANGED <<round, stage>>

\* gather returns, ...
EndRound ==
    /\ loop = "gather" /\ Active(round) = {} /\ ~Raised(round)
    /\ loop' = "sleep"
    /\ UNCHANGED <<round, stage>>

\* Mutation: the exception ends the loop.
LoopDies == /\ loop = "gather" /\ Raised(round)
            /\ loop' = "dead"
            /\ UNCHANGED <<round, stage>>

\* ... or raises, which the loop catches.
FailRound ==
    /\ loop = "gather" /\ Raised(round)
    /\ loop' = "sleep"
    /\ stage' = IF Active(round) = {} THEN [stage EXCEPT ![round] = [d \in Devices |-> "none"]]
                ELSE stage
    /\ UNCHANGED round

\* lifespan cancels the loop, and with it the checks that gather waits for.
Cancelled(r, d) == loop = "gather" /\ r = round /\ ~Raised(r) /\ d \in Active(r)

Shutdown ==
    /\ loop # "stopped" /\ loop' = "stopped"
    /\ stage' = [r \in DOMAIN stage |->
                    [d \in Devices |-> IF Cancelled(r, d) THEN "none" ELSE stage[r][d]]]
    /\ UNCHANGED round

LoopStep(ids) == StartRound(ids) \/ ListFails \/ EndRound \/ FailRound \/ WakeUp

LoopTypeOK(workers, stages) ==
    /\ loop \in {"list", "gather", "sleep", "stopped"} /\ round \in 1..Rounds
    /\ stage \in [workers -> [Devices -> Ended \cup {"queued"} \cup stages]]

\* A check that nobody gathers any more belongs to a round that failed.
OnlyFailedRoundsLinger ==
    \A r \in 1..Rounds :
        Active(r) # {} => (loop = "gather" /\ round = r) \/ Raised(r)
=============================================================================
