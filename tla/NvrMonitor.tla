------------------------------ MODULE NvrMonitor ------------------------------
(***************************************************************************)
(* check_single_nvr_async, called by the loop of                           *)
(* background_hikvision_check and, on request, by the endpoint check-nvr,  *)
(* against each other and the device API.  One session reads the NVR's     *)
(* credentials and the date of its last recording, the NVR is asked, and   *)
(* another session writes what it said.                                    *)
(*                                                                         *)
(* Data abstractions:                                                      *)
(*   - an NVR is recording or not; it tells the capacity of its disk or    *)
(*     not, and the code then keeps what is there or puts a placeholder;   *)
(*   - a device stays the NVR that it is;                                  *)
(*   - now is any stamp but the one in the row: time has passed;           *)
(*   - left out: the status of the disk, the used space, the addresses of  *)
(*     the cameras, and the result that is returned to the caller.         *)
(*                                                                         *)
(* SQLAlchemy writes the columns whose values differ from those that the   *)
(* session has loaded, and refuses to update a row that is gone.           *)
(***************************************************************************)
EXTENDS Naturals

CONSTANTS
    Devices, Limit, Rounds,
    Requests,       \* bound: requests for a check that are under way
    Seeded,         \* NVRs of the seeder, which may find no data
    None

VARIABLES
    registered,     \* rows of Devices that are NVRs
    usable,         \* those of them with address, user and password
    row,            \* the columns that a check writes
    loop, round, stage,
    local,          \* the columns that a check has read, then those it writes
    \* Bookkeeping, read by properties only: NVRs of which two checks were
    \* under way at a time.
    overlapped

L == INSTANCE MonitorLoop

deviceVars == <<registered, usable, row>>
vars == <<deviceVars, loop, round, stage, local, overlapped>>

Workers == 1..Rounds \cup Requests
Stamps == {"monday", "tuesday"}
NewDevice == [recording |-> FALSE, date |-> None, capacity |-> None]

\* Some columns of a row, each as <<value>>, and the others <<>>.  A commit writes
\* those that have changed since the row was loaded.
Changes(old, new) == [k \in DOMAIN old |-> IF new[k] = old[k] THEN <<>> ELSE <<new[k]>>]
Flush(old, some) == [k \in DOMAIN old |-> IF some[k] = <<>> THEN old[k] ELSE some[k][1]]
Nothing == [recording |-> <<>>, date |-> <<>>, capacity |-> <<>>]

States == [recording : BOOLEAN, date : Stamps \cup {None, "N/A"},
           capacity : {None, "placeholder", "read"}]

\* An NVR that records has a date.
Dated(s) == s.recording => s.date \in Stamps

-----------------------------------------------------------------------------
(* The device API, one transaction each, while the server serves. *)

\* An id is not used again: here the new device takes the place of a deleted one
\* that no check refers to any more.
CreateDevice(d) ==
    /\ loop # "stopped" /\ d \notin registered
    /\ \A w \in Workers : stage[w][d] \in L!Ended
    /\ registered' = registered \cup {d}
    /\ usable' \in {usable, usable \cup {d}}
    /\ UNCHANGED <<row, loop, round, stage, local, overlapped>>

\* Address and credentials are given, taken away or replaced.
UpdateDevice(d) ==
    /\ loop # "stopped" /\ d \in registered
    /\ usable' \in {usable \ {d}, usable \cup {d}}
    /\ UNCHANGED <<registered, row, loop, round, stage, local, overlapped>>

DeleteDevice(d) ==
    /\ loop # "stopped" /\ d \in registered
    /\ registered' = registered \ {d} /\ usable' = usable \ {d}
    /\ overlapped' = overlapped \ {d}
    /\ row' = [row EXCEPT ![d] = NewDevice]
    /\ UNCHANGED <<loop, round, stage, local>>

-----------------------------------------------------------------------------
(* check_single_nvr_async. *)

\* The endpoint calls it directly, the loop under its semaphore.
Enter(w, d, s) ==
    \/ w \in 1..Rounds /\ L!Admit(w, d, s)
    \/ w \in Requests /\ loop # "stopped" /\ stage[w][d] \in L!Ended /\ L!MoveTo(w, d, s)

EndCheck(w, d, s) ==
    /\ L!MoveTo(w, d, s)
    /\ local' = [local EXCEPT ![w][d] = Nothing]

\* No NVR, no address or no credentials.  A request is told so.
Refuse(r, d) ==
    /\ d \notin usable
    /\ L!Admit(r, d, "none")
    /\ UNCHANGED <<deviceVars, local, overlapped>>

ReadDate(w, d) ==
    /\ d \in usable
    /\ Enter(w, d, "asking")
    /\ local' = [local EXCEPT ![w][d] = [Nothing EXCEPT !.date = <<row[d].date>>]]
    /\ overlapped' = IF \E v \in Workers \ {w} : L!Holding(v, d)
                     THEN overlapped \cup {d} ELSE overlapped
    /\ UNCHANGED deviceVars

OrElse(value, default) == IF value = None THEN default ELSE value

\* Mutation: the date of the last recording is forgotten.
DateForgotten(recording, old, now) == IF recording THEN now ELSE "N/A"

\* Mutation: only an NVR that has never recorded gets a date.
DateKept(recording, old, now) == OrElse(old, "N/A")

DateAfter(recording, old, now) == IF recording THEN now ELSE OrElse(old, "N/A")

\* Mutation: the placeholder is put in any case.
AlwaysPlaceholder(capacity) == "placeholder"

Placeholder(capacity) == OrElse(capacity, "placeholder")

Load(w, d, new, s) ==
    /\ local' = [local EXCEPT ![w][d] = Changes(row[d], new)]
    /\ L!MoveTo(w, d, s)
    /\ UNCHANGED <<deviceVars, overlapped>>

\* The NVR says what it does; the row is loaded in a second session.
Answered(w, d) ==
    /\ stage[w][d] = "asking" /\ d \in registered
    /\ \E recording, tells \in BOOLEAN, now \in Stamps \ {row[d].date} :
        Load(w, d,
             [recording |-> recording,
              date      |-> DateAfter(recording, local[w][d].date[1], now),
              capacity  |-> IF tells THEN "read" ELSE Placeholder(row[d].capacity)],
             "saving")

\* It refuses, does not answer in time, or cannot be reached.  The latter two
\* are handled outside the try block: what is raised there leaves the check.
Unanswered(w, d) ==
    /\ stage[w][d] = "asking" /\ d \in registered
    /\ \E s \in {"saving", "handling"} :
        Load(w, d, [row[d] EXCEPT !.recording = FALSE, !.capacity = Placeholder(@)], s)

\* The row is gone, or something else is raised, which the check swallows.
NotSaved(w, d) ==
    /\ stage[w][d] = "asking" \/ stage[w][d] = "saving"
    /\ EndCheck(w, d, "none")
    /\ UNCHANGED <<deviceVars, overlapped>>

Save(w, d) ==
    /\ stage[w][d] \in {"saving", "handling"} /\ d \in registered
    /\ row' = [row EXCEPT ![d] = Flush(@, local[w][d])]
    /\ EndCheck(w, d, "none")
    /\ UNCHANGED <<registered, usable, overlapped>>

\* The database raises in a handler, or in the first session.
CheckRaises(w, d) ==
    /\ stage[w][d] = "handling" \/ stage[w][d] = "asking"
    /\ EndCheck(w, d, "failed")
    /\ UNCHANGED <<deviceVars, overlapped>>

-----------------------------------------------------------------------------
\* Rows are as an earlier run without overlapping checks, or the seeder, left them.
Init ==
    /\ registered \in {{}, Seeded} /\ usable \in SUBSET registered
    /\ row \in [Devices -> {s \in States : Dated(s)}]
    /\ \A d \in Devices \ registered : row[d] = NewDevice
    /\ L!LoopInit(Workers)
    /\ local = [w \in Workers |-> [d \in Devices |-> Nothing]]
    /\ overlapped = {}

CheckGoesOn(w, d) ==
    Answered(w, d) \/ Unanswered(w, d) \/ NotSaved(w, d) \/ Save(w, d) \/ CheckRaises(w, d)

\* Some check of a round, or of a request, goes on.
RoundStep(r) == \E d \in Devices : Refuse(r, d) \/ ReadDate(r, d) \/ CheckGoesOn(r, d)
RequestStep(q) == \E d \in Devices : CheckGoesOn(q, d)

Loop == L!LoopStep(registered) /\ UNCHANGED <<deviceVars, local, overlapped>>

\* The server has ended its requests before.  The checks that are cancelled lose
\* their locals with their place.
Shutdown ==
    /\ \A q \in Requests : L!Active(q) = {}
    /\ L!Shutdown
    /\ local' = [w \in Workers |->
                    [d \in Devices |-> IF L!Cancelled(w, d) THEN Nothing ELSE local[w][d]]]
    /\ UNCHANGED <<deviceVars, overlapped>>

Next ==
    \/ \E d \in Devices : CreateDevice(d) \/ UpdateDevice(d) \/ DeleteDevice(d)
    \/ \E r \in 1..Rounds : RoundStep(r)
    \/ \E q \in Requests : RequestStep(q) \/ \E d \in Devices : ReadDate(q, d)
    \/ Loop \/ Shutdown

ListDevices == L!StartRound(registered) /\ UNCHANGED <<deviceVars, local, overlapped>>

\* As for the pings: a request to the NVR ends by its timeout, a call of the
\* database by an answer or an exception.  Nobody has to request a check.
Fairness ==
    /\ WF_vars(Loop)
    /\ \A r \in 1..Rounds : WF_vars(RoundStep(r))
    /\ \A q \in Requests : WF_vars(RequestStep(q))

Spec == Init /\ [][Next]_vars
FairSpec == Spec /\ Fairness

-----------------------------------------------------------------------------
(* Properties *)

\* Every variable has its type.
TypeOK ==
    /\ usable \subseteq registered /\ registered \subseteq Devices
    /\ row \in [Devices -> States]
    /\ L!LoopTypeOK(Workers, {"asking", "saving", "handling"})
    /\ \A w \in Workers, d \in Devices :
        /\ Flush(row[d], local[w][d]) \in States
        /\ ~L!Holding(w, d) => local[w][d] = Nothing
    /\ overlapped \subseteq registered

\* No periodic check is left behind by a round that went well.
OnlyFailedRoundsLinger == L!OnlyFailedRoundsLinger

\* As long as no two checks of an NVR have overlapped, one that is shown as
\* recording is shown with a date, whatever check wrote which column.
RecordingDated ==
    \A d \in registered \ overlapped : Dated(row[d])

\* Under the same proviso, the date of the last recording and a capacity that
\* was read are replaced by newer ones only: not by what a check that learnt
\* nothing, or timed out, makes of what it read before it asked.
ReadingsKept ==
    [][\A d \in (registered \cap registered') \ overlapped' :
        /\ row'[d].date # row[d].date => row'[d].recording \/ row[d].date = None
        /\ row[d].capacity = "read" => row'[d].capacity = "read"]_vars

\* The monitor goes on for ever: an NVR that can be asked is asked again, under
\* the same proviso as a device is pinged.
KeepsChecking ==
    \A d \in Devices :
        []<>(d \notin usable \/ loop = "stopped" \/ \E r \in 1..Rounds : L!Holding(r, d))
=============================================================================
