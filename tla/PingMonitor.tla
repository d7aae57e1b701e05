----------------------------- MODULE PingMonitor -----------------------------
(***************************************************************************)
(* ping_device_async in the loop of background_ping_check, against the     *)
(* device API: the state of a device is read, the device is probed for     *)
(* seconds, and the new state, computed from what was read, is written.    *)
(*                                                                         *)
(* Data abstractions:                                                      *)
(*   - a device answers or does not; latency, loss and the times of the    *)
(*     last ping and update are left out;                                  *)
(*   - now_str is a stamp other than the one in the row: time has passed.  *)
(*                                                                         *)
(* SQLAlchemy writes the columns whose values differ from those that the   *)
(* session has loaded, and refuses to update a row that is gone.           *)
(***************************************************************************)
EXTENDS Naturals

CONSTANTS
    Devices, Limit, Rounds,
    None,
    Seeded,         \* devices of the seeder, which may find no data
    Edited,         \* bound: devices that the API creates, updates and deletes
    MaxFailures     \* bound: ConsecutiveFailures stops here

ASSUME PingAssumption ==
    /\ Seeded \subseteq Devices /\ Edited \subseteq Devices
    /\ Limit \in Nat \ {0} /\ Rounds \in Nat \ {0} /\ MaxFailures \in Nat \ {0}
    /\ None \notin {1, 2}

VARIABLES
    registered,     \* rows of Devices
    usable,         \* those of them with an address
    row,            \* the columns that a check writes
    loop, round, stage,
    local,          \* the columns that a check has read, then those it writes
    \* Bookkeeping, read by properties only: devices of which two checks were
    \* under way at a time.
    overlapped

L == INSTANCE MonitorLoop

deviceVars == <<registered, usable, row>>
vars == <<deviceVars, loop, round, stage, local, overlapped>>

Stamps == {1, 2}
NewDevice == [online |-> TRUE, failures |-> 0, down |-> None]
\* Some columns of a row, each as <<value>>, and the others <<>>.  A commit writes
\* those that have changed since the row was loaded.
Changes(old, new) == [k \in DOMAIN old |-> IF new[k] = old[k] THEN <<>> ELSE <<new[k]>>]
Flush(old, some) == [k \in DOMAIN old |-> IF some[k] = <<>> THEN old[k] ELSE some[k][1]]
Nothing == [online |-> <<>>, failures |-> <<>>, down |-> <<>>]

States == [online : BOOLEAN, failures : 0..MaxFailures, down : Stamps \cup {None}]

\* The three columns describe one outage, or none.
Agrees(s) == (s.online <=> s.failures = 0) /\ (s.online <=> s.down = None)

-----------------------------------------------------------------------------
(* The device API, one transaction each, while the server serves. *)

\* An id is not used again: here the new device takes the place of a deleted one
\* that no check refers to any more.
CreateDevice(d) ==
    /\ loop # "stopped" /\ d \notin registered
    /\ \A r \in 1..Rounds : stage[r][d] \in L!Ended
    /\ registered' = registered \cup {d}
    /\ usable' \in {usable, usable \cup {d}}
    /\ UNCHANGED <<row, loop, round, stage, local, overlapped>>

\* An address is given, replaced or taken away.
UpdateDevice(d) ==
    /\ loop # "stopped" /\ d \in registered
    /\ usable' \in {usable \ {d}, usable \cup {d}}
    /\ UNCHANGED <<registered, row, loop, round, stage, local, overlapped>>

DeleteDevice(d) ==
    /\ loop # "stopped" /\ d \in registered
    /\ registered' = registered \ {d} /\ usable' = usable \ {d}
    /\ overlapped' = overlapped \ {d}
    /\ row' = [row EXCEPT ![d] = NewDevice]
    /\ UNCHANGED <<loop, round, stage, local>>

-----------------------------------------------------------------------------
(* ping_device_async. *)

EndCheck(r, d, s) ==
    /\ L!MoveTo(r, d, s)
    /\ local' = [local EXCEPT ![r][d] = Nothing]

\* First session: the device is gone or has no address, or its state before the
\* probe is read.
Skip(r, d) ==
    /\ d \notin usable
    /\ L!Admit(r, d, "none")
    /\ UNCHANGED <<deviceVars, local, overlapped>>

ReadState(r, d) ==
    /\ d \in usable
    /\ L!Admit(r, d, "probing")
    /\ local' = [local EXCEPT ![r][d] =
                    [Nothing EXCEPT !.online = <<row[d].online>>, !.failures = <<row[d].failures>>]]
    /\ overlapped' = IF \E q \in 1..Rounds \ {r} : L!Holding(q, d)
                     THEN overlapped \cup {d} ELSE overlapped
    /\ UNCHANGED deviceVars

CountOne(n) == IF n = MaxFailures THEN n ELSE n + 1

\* Mutation: IsOnline is assigned before it is tested.
DownTested(before, loaded, now) ==
    [online |-> FALSE, failures |-> CountOne(before.failures), down |-> loaded.down]

\* Mutation: every failed ping is the start of the outage.
DownAgain(before, loaded, now) ==
    [online |-> FALSE, failures |-> CountOne(before.failures), down |-> now]

\* What the row becomes, from the state before the probe and the row loaded
\* after it.
Up == [online |-> TRUE, failures |-> 0, down |-> None]
Down(before, loaded, now) ==
    [online |-> FALSE, failures |-> CountOne(before.failures),
     down |-> IF before.online THEN now ELSE loaded.down]

\* Second session, after the probe.
LoadAgain(r, d) ==
    /\ stage[r][d] = "probing" /\ d \in registered
    /\ LET now == CHOOSE s \in Stamps : s # row[d].down IN
        \E new \in {Up, Down(Flush(row[d], local[r][d]), row[d], now)} :
            local' = [local EXCEPT ![r][d] = Changes(row[d], new)]
    /\ L!MoveTo(r, d, "saving")
    /\ UNCHANGED <<deviceVars, overlapped>>

FoundDeleted(r, d) ==
    /\ stage[r][d] = "probing" /\ d \notin registered
    /\ EndCheck(r, d, "none")
    /\ UNCHANGED <<deviceVars, overlapped>>

SaveState(r, d) ==
    /\ stage[r][d] = "saving" /\ d \in registered
    /\ row' = [row EXCEPT ![d] = Flush(@, local[r][d])]
    /\ EndCheck(r, d, "none")
    /\ UNCHANGED <<registered, usable, overlapped>>

\* Mutation: a check that raises keeps its permit.
PermitLost(r, d) ==
    /\ L!Holding(r, d)
    /\ L!MoveTo(r, d, "lost")
    /\ UNCHANGED <<deviceVars, local, overlapped>>

\* Any exception of the database; always one when the row is gone.
CheckRaises(r, d) ==
    /\ L!Holding(r, d)
    /\ EndCheck(r, d, "failed")
    /\ UNCHANGED <<deviceVars, overlapped>>

-----------------------------------------------------------------------------
\* Rows are as an earlier run without overlapping checks, or the seeder, left them.
Init ==
    /\ registered \in {{}, Seeded} /\ usable \in SUBSET registered
    /\ row \in [Devices -> {s \in States : Agrees(s)}]
    /\ \A d \in Devices \ registered : row[d] = NewDevice
    /\ L!LoopInit(1..Rounds)
    /\ local = [r \in 1..Rounds |-> [d \in Devices |-> Nothing]]
    /\ overlapped = {}

CheckStep(r, d) ==
    \/ Skip(r, d) \/ ReadState(r, d) \/ LoadAgain(r, d) \/ FoundDeleted(r, d)
    \/ SaveState(r, d) \/ CheckRaises(r, d)

\* Some check of a round goes on.
RoundStep(r) == \E d \in Devices : CheckStep(r, d)

Loop == L!LoopStep(registered) /\ UNCHANGED <<deviceVars, local, overlapped>>

\* The checks that are cancelled lose their locals with their place.
Shutdown ==
    /\ L!Shutdown
    /\ local' = [r \in 1..Rounds |->
                    [d \in Devices |-> IF L!Cancelled(r, d) THEN Nothing ELSE local[r][d]]]
    /\ UNCHANGED <<deviceVars, overlapped>>

Next ==
    \/ \E d \in Edited : CreateDevice(d) \/ UpdateDevice(d) \/ DeleteDevice(d)
    \/ \E r \in 1..Rounds : RoundStep(r)
    \/ Loop \/ Shutdown

ListDevices == L!StartRound(registered) /\ UNCHANGED <<deviceVars, local, overlapped>>

\* The event loop runs every task that can go on, of which it is enough that it
\* runs one of every round; a probe ends by its timeout, a call of the database
\* by an answer or an exception.
Fairness ==
    /\ WF_vars(Loop)
    /\ \A r \in 1..Rounds : WF_vars(RoundStep(r))

Spec == Init /\ [][Next]_vars
FairSpec == Spec /\ Fairness

-----------------------------------------------------------------------------
(* Properties *)

\* Every variable has its type.
TypeOK ==
    /\ usable \subseteq registered /\ registered \subseteq Devices
    /\ row \in [Devices -> States]
    /\ L!LoopTypeOK(1..Rounds, {"probing", "saving"})
    /\ DOMAIN local = 1..Rounds
    /\ \A r \in 1..Rounds, d \in Devices :
        /\ Flush(row[d], local[r][d]) \in States
        /\ ~L!Holding(r, d) => local[r][d] = Nothing
    /\ overlapped \subseteq registered

\* No check is left behind by a round that went well (background_ping_check).
OnlyFailedRoundsLinger == L!OnlyFailedRoundsLinger

\* The three columns that describe an outage agree, as long as no failed round
\* has made two checks of the device overlap, although each check computes them
\* from what it read before the probe (ping_device_async).
OutageConsistent ==
    \A d \in registered \ overlapped : Agrees(row[d])

\* Under the same proviso, an outage keeps the time of its beginning, and its
\* failures are counted one by one.
OutageKept ==
    [][\A d \in (registered \cap registered') \ overlapped' :
        ~row[d].online /\ ~row'[d].online =>
            /\ row'[d].down = row[d].down
            /\ row'[d].failures \in {row[d].failures, CountOne(row[d].failures)}]_vars

\* The monitor goes on for ever: exceptions end a round, never the loop, and
\* every check gives its permit back.  (The listing has to succeed now and then.)
KeepsChecking ==
    \A d \in Devices :
        []<>(d \notin usable \/ loop = "stopped" \/ \E r \in 1..Rounds : L!Holding(r, d))
=============================================================================
