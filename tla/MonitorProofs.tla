----------------------------- MODULE MonitorProofs -----------------------------
(***************************************************************************)
(* What the two monitors of the web server write, for every number of      *)
(* devices, rounds and permits.                                            *)
(***************************************************************************)
EXTENDS WebServer, CameraSettingsProofs, TLAPS

-----------------------------------------------------------------------------
(* PingMonitor: types *)

\* A column that a check has read or will write, or none.
Optional(S) == {<<>>} \cup {<<v>> : v \in S}

Locals == [online : Optional(BOOLEAN), failures : Optional(0..MaxFailures),
           down : Optional(Stamps \cup {None})]

Stages == {"none", "failed", "queued", "probing", "saving"}

\* TypeOK, with the types of the locals alone.
PingTypes ==
    /\ usable \subseteq registered /\ registered \subseteq Devices
    /\ row \in [Devices -> States]
    /\ loop \in {"list", "gather", "sleep", "stopped"} /\ round \in 1..Rounds
    /\ stage \in [1..Rounds -> [Devices -> Stages]]
    /\ local \in [1..Rounds -> [Devices -> Locals]]
    /\ overlapped \subseteq registered
    /\ \A r \in 1..Rounds, d \in Devices : ~L!Holding(r, d) => local[r][d] = Nothing

-----------------------------------------------------------------------------
(* PingMonitor: the inductive invariant *)

\* Unless it is marked, a device has one check under way.
OneCheck ==
    \A d \in registered \ overlapped : \A q, r \in 1..Rounds :
        L!Holding(q, d) /\ L!Holding(r, d) => q = r

\* What a check that is alone may make of the row that it has read.
Outcomes(old) == {Up} \cup {Down(old, old, now) : now \in Stamps \ {old.down}}

\* Such a check has read what the row still is, or will write an outcome of it.
ReadsTrue ==
    \A d \in registered \ overlapped : \A r \in 1..Rounds :
        /\ stage[r][d] = "probing" =>
               local[r][d].online = <<row[d].online>> /\ local[r][d].failures = <<row[d].failures>>
        /\ stage[r][d] = "saving" => Flush(row[d], local[r][d]) \in Outcomes(row[d])

\* A row that is not there is as it will be created.
RowsNew == \A d \in Devices \ registered : row[d] = NewDevice

PingInv == OneCheck /\ ReadsTrue /\ RowsNew /\ OutageConsistent

-----------------------------------------------------------------------------
(* PingMonitor: lemmas about its operators *)

\* A row has the three columns of an outage.
LEMMA StateDomain ==
    ASSUME NEW old \in States
    PROVE  DOMAIN old = {"online", "failures", "down"}
BY DEF States

\* What a commit leaves is a row.
LEMMA FlushType ==
    ASSUME NEW old \in States, NEW some \in Locals
    PROVE  Flush(old, some) \in States
BY StateDomain DEF States, Locals, Optional, Flush

\* A commit that follows a load at once leaves what was meant.
LEMMA FlushChanges ==
    ASSUME NEW old \in States, NEW new \in States
    PROVE  Changes(old, new) \in Locals /\ Flush(old, Changes(old, new)) = new
BY StateDomain DEF States, Locals, Optional, Flush, Changes

\* What a probe makes of a row is a row.
LEMMA OutcomeType ==
    ASSUME NEW before \in States, NEW loaded \in States, NEW now \in Stamps
    PROVE  Up \in States /\ Down(before, loaded, now) \in States
BY PingAssumption DEF Up, Down, CountOne, States

\* A check that is not under way holds nothing.
LEMMA NothingType == Nothing \in Locals
BY DEF Nothing, Locals, Optional

\* There is a stamp other than the one in the row.
LEMMA OtherStamp ==
    ASSUME NEW v
    PROVE  (CHOOSE s \in Stamps : s # v) \in Stamps \ {v}
<1>1. \E s \in Stamps : s # v
  BY DEF Stamps
<1> QED BY <1>1

\* A check that moves leaves the stages of all others.
LEMMA Moved ==
    ASSUME stage \in [1..Rounds -> [Devices -> Stages]],
           NEW r \in 1..Rounds, NEW d \in Devices, NEW s \in Stages,
           L!MoveTo(r, d, s)
    PROVE  /\ stage' \in [1..Rounds -> [Devices -> Stages]]
           /\ \A q \in 1..Rounds, e \in Devices :
                 stage'[q][e] = IF q = r /\ e = d THEN s ELSE stage[q][e]
           /\ loop' = loop /\ round' = round
BY DEF L!MoveTo

\* What a check holds is its own.
LEMMA Ends ==
    ASSUME local \in [1..Rounds -> [Devices -> Locals]],
           NEW r \in 1..Rounds, NEW d \in Devices, NEW l \in Locals,
           local' = [local EXCEPT ![r][d] = l]
    PROVE  /\ local' \in [1..Rounds -> [Devices -> Locals]]
           /\ \A q \in 1..Rounds, e \in Devices :
                 local'[q][e] = IF q = r /\ e = d THEN l ELSE local[q][e]
OBVIOUS

\* The loop's own steps leave every check that holds a permit where it is.
LEMMA LoopMoves ==
    ASSUME PingTypes, L!LoopStep(registered) \/ L!Shutdown
    PROVE  /\ loop' \in {"list", "gather", "sleep", "stopped"} /\ round' \in 1..Rounds
           /\ stage' \in [1..Rounds -> [Devices -> Stages]]
           /\ \A q \in 1..Rounds, e \in Devices :
                 /\ L!Holding(q, e)' => L!Holding(q, e) /\ stage'[q][e] = stage[q][e]
                 /\ L!Holding(q, e) /\ ~L!Holding(q, e)' => loop' = "stopped" /\ L!Cancelled(q, e)
<1>1. CASE L!StartRound(registered)
  <2>1. PICK r \in 1..Rounds :
          /\ L!Active(r) = {} /\ round' = r
          /\ stage' = [stage EXCEPT ![r] =
                          [d \in Devices |-> IF d \in registered THEN "queued" ELSE "none"]]
    BY <1>1 DEF L!StartRound
  <2>2. \A e \in Devices : ~L!Holding(r, e)
    BY <2>1 DEF L!Active, L!Holding
  <2>3. \A e \in Devices : stage'[r][e] \in {"queued", "none"}
    BY <2>1 DEF PingTypes
  <2>4. \A q \in 1..Rounds : q # r => stage'[q] = stage[q]
    BY <2>1 DEF PingTypes
  <2>5. stage' \in [1..Rounds -> [Devices -> Stages]]
    BY <2>1 DEF PingTypes, Stages
  <2> QED BY <1>1, <2>1, <2>2, <2>3, <2>4, <2>5 DEF PingTypes, L!StartRound, L!Holding, L!Ended
<1>2. CASE L!EndRound
  BY <1>2 DEF L!EndRound, PingTypes, L!Holding
<1>3. CASE L!FailRound
  <2>1. CASE L!Active(round) = {}
    <3>1. \A e \in Devices : ~L!Holding(round, e) /\ stage'[round][e] = "none"
      BY <1>3, <2>1 DEF L!FailRound, PingTypes, L!Active, L!Holding
    <3>2. \A q \in 1..Rounds : q # round => stage'[q] = stage[q]
      BY <1>3, <2>1 DEF L!FailRound, PingTypes
    <3>3. stage' \in [1..Rounds -> [Devices -> Stages]]
      BY <1>3, <2>1 DEF L!FailRound, PingTypes, Stages
    <3> QED BY <1>3, <3>1, <3>2, <3>3 DEF L!FailRound, PingTypes, L!Holding, L!Ended
  <2>2. CASE L!Active(round) # {}
    BY <1>3, <2>2 DEF L!FailRound, PingTypes, L!Holding
  <2> QED BY <2>1, <2>2
<1>4. CASE L!Shutdown
  <2>1. \A q \in 1..Rounds, e \in Devices :
          stage'[q][e] = IF L!Cancelled(q, e) THEN "none" ELSE stage[q][e]
    BY <1>4 DEF L!Shutdown, PingTypes
  <2>2. stage' \in [1..Rounds -> [Devices -> Stages]]
    BY <1>4 DEF L!Shutdown, PingTypes, Stages
  <2> QED BY <1>4, <2>1, <2>2 DEF L!Shutdown, PingTypes, L!Holding, L!Ended
<1>5. CASE L!ListFails \/ L!WakeUp
  BY <1>5 DEF L!ListFails, L!WakeUp, PingTypes, L!Holding
<1> QED BY <1>1, <1>2, <1>3, <1>4, <1>5 DEF L!LoopStep

-----------------------------------------------------------------------------
(* PingMonitor: types are kept *)

\* The types hold at first.
LEMMA PingTypesInit == Init => PingTypes
<1> SUFFICES ASSUME Init PROVE PingTypes
  OBVIOUS
<1>1. row \in [Devices -> States]
  BY DEF Init
<1>2. local \in [1..Rounds -> [Devices -> Locals]]
  BY NothingType DEF Init
<1>3. stage \in [1..Rounds -> [Devices -> Stages]]
  BY DEF Init, L!LoopInit, Stages
<1>4. usable \subseteq registered /\ registered \subseteq Devices
  BY PingAssumption DEF Init
<1> QED BY <1>1, <1>2, <1>3, <1>4, PingAssumption DEF Init, L!LoopInit, PingTypes

\* A step of a check keeps the types,
LEMMA PingTypesCheck ==
    ASSUME PingTypes, NEW r \in 1..Rounds, NEW d \in Devices, CheckStep(r, d)
    PROVE  PingTypes'
<1>0. ASSUME NEW s \in Stages, NEW l \in Locals, L!MoveTo(r, d, s),
             local' = [local EXCEPT ![r][d] = l], l = Nothing \/ s \in {"probing", "saving"},
             row' \in [Devices -> States], overlapped' \subseteq registered,
             UNCHANGED <<registered, usable>>
      PROVE  PingTypes'
  <2>1. /\ stage' \in [1..Rounds -> [Devices -> Stages]]
        /\ \A q \in 1..Rounds, e \in Devices :
              stage'[q][e] = IF q = r /\ e = d THEN s ELSE stage[q][e]
        /\ loop' = loop /\ round' = round
    BY <1>0, Moved DEF PingTypes
  <2>2. /\ local' \in [1..Rounds -> [Devices -> Locals]]
        /\ \A q \in 1..Rounds, e \in Devices :
              local'[q][e] = IF q = r /\ e = d THEN l ELSE local[q][e]
    BY <1>0, Ends DEF PingTypes
  <2>3. \A q \in 1..Rounds, e \in Devices : ~L!Holding(q, e)' => local'[q][e] = Nothing
    BY <1>0, <2>1, <2>2 DEF PingTypes, L!Holding, L!Ended
  <2> QED BY <1>0, <2>1, <2>2, <2>3 DEF PingTypes
<1>1. CASE Skip(r, d)
  <2>1. L!MoveTo(r, d, "none") /\ stage[r][d] = "queued"
    BY <1>1 DEF Skip, L!Admit
  <2> QED BY <1>1, <2>1, Moved DEF Skip, deviceVars, L!Holding, L!Ended, Stages, PingTypes
<1>2. CASE ReadState(r, d)
  <2> DEFINE l == [Nothing EXCEPT !.online = <<row[d].online>>, !.failures = <<row[d].failures>>]
  <2>1. L!MoveTo(r, d, "probing")
    BY <1>2 DEF ReadState, L!Admit
  <2>2. l \in Locals
    BY DEF Nothing, Locals, Optional, States, PingTypes
  <2>3. overlapped' \subseteq registered
    BY <1>2 DEF ReadState, PingTypes
  <2>4. local' = [local EXCEPT ![r][d] = l]
    BY <1>2 DEF ReadState
  <2> HIDE DEF l
  <2> QED BY <1>0, <1>2, <2>1, <2>2, <2>3, <2>4 DEF ReadState, deviceVars, Stages, PingTypes
<1>3. CASE LoadAgain(r, d)
  <2> DEFINE now == CHOOSE s \in Stamps : s # row[d].down
  <2>0. now \in Stamps
    BY OtherStamp
  <2>1. PICK new \in {Up, Down(Flush(row[d], local[r][d]), row[d], now)} :
          local' = [local EXCEPT ![r][d] = Changes(row[d], new)]
    BY <1>3 DEF LoadAgain
  <2> HIDE DEF now
  <2>2. row[d] \in States /\ local[r][d] \in Locals
    BY DEF PingTypes
  <2>3. Flush(row[d], local[r][d]) \in States
    BY <2>2, FlushType
  <2>4. new \in States
    BY <2>0, <2>1, <2>2, <2>3, OutcomeType
  <2>5. Changes(row[d], new) \in Locals
    BY <2>2, <2>4, FlushChanges
  <2>6. L!MoveTo(r, d, "saving")
    BY <1>3 DEF LoadAgain
  <2> QED BY <1>0, <1>3, <2>1, <2>5, <2>6 DEF LoadAgain, deviceVars, Stages, PingTypes
<1>4. CASE FoundDeleted(r, d)
  BY <1>0, <1>4, NothingType DEF FoundDeleted, EndCheck, deviceVars, Stages, PingTypes
<1>5. CASE SaveState(r, d)
  <2>1. row[d] \in States /\ local[r][d] \in Locals
    BY DEF PingTypes
  <2>2. row' \in [Devices -> States]
    BY <1>5, <2>1, FlushType DEF SaveState, PingTypes
  <2> QED BY <1>0, <1>5, <2>2, NothingType DEF SaveState, EndCheck, Stages, PingTypes
<1>6. CASE CheckRaises(r, d)
  BY <1>0, <1>6, NothingType DEF CheckRaises, EndCheck, deviceVars, Stages, PingTypes
<1> QED BY <1>1, <1>2, <1>3, <1>4, <1>5, <1>6 DEF CheckStep

\* and so does every other step.
LEMMA PingTypesStep == PingTypes /\ [Next]_vars => PingTypes'
<1> SUFFICES ASSUME PingTypes, [Next]_vars PROVE PingTypes'
  OBVIOUS
<1>1. ASSUME NEW d \in Edited, CreateDevice(d) \/ UpdateDevice(d) PROVE PingTypes'
  BY <1>1, PingAssumption DEF PingTypes, CreateDevice, UpdateDevice, L!Holding
<1>2. ASSUME NEW d \in Edited, DeleteDevice(d) PROVE PingTypes'
  <2>1. NewDevice \in States
    BY PingAssumption DEF NewDevice, States
  <2> QED BY <1>2, <2>1 DEF PingTypes, DeleteDevice, L!Holding
<1>3. ASSUME NEW r \in 1..Rounds, RoundStep(r) PROVE PingTypes'
  BY <1>3, PingTypesCheck DEF RoundStep
<1>4. CASE Loop
  <2>1. L!LoopStep(registered) /\ UNCHANGED <<deviceVars, local, overlapped>>
    BY <1>4 DEF Loop
  <2>2. loop' # "stopped"
    BY <2>1 DEF L!LoopStep, L!StartRound, L!EndRound, L!FailRound, L!ListFails, L!WakeUp
  <2> QED BY <2>1, <2>2, LoopMoves DEF PingTypes, deviceVars
<1>5. CASE Shutdown
  <2>1. L!Shutdown
    BY <1>5 DEF Shutdown
  <2>2. local' \in [1..Rounds -> [Devices -> Locals]]
    BY <1>5, NothingType DEF Shutdown, PingTypes
  <2>3. \A q \in 1..Rounds, e \in Devices :
          local'[q][e] = IF L!Cancelled(q, e) THEN Nothing ELSE local[q][e]
    BY <1>5 DEF Shutdown
  <2>4. \A q \in 1..Rounds, e \in Devices : ~L!Holding(q, e)' => local'[q][e] = Nothing
    BY <2>1, <2>3, LoopMoves DEF PingTypes
  <2> QED BY <1>5, <2>1, <2>2, <2>4, LoopMoves DEF PingTypes, Shutdown, deviceVars
<1>6. CASE UNCHANGED vars
  BY <1>6 DEF PingTypes, vars, deviceVars, L!Holding
<1> QED BY <1>1, <1>2, <1>3, <1>4, <1>5, <1>6 DEF Next

\* So they hold in every state.
LEMMA PingTypesAlways == Spec => []PingTypes
BY PingTypesInit, PingTypesStep, PTL DEF Spec

\* They are stronger than TypeOK.
LEMMA PingTypesSuffice == PingTypes => TypeOK
<1> SUFFICES ASSUME PingTypes PROVE TypeOK
  OBVIOUS
<1>1. \A r \in 1..Rounds, d \in Devices : Flush(row[d], local[r][d]) \in States
  BY FlushType DEF PingTypes
<1> QED BY <1>1 DEF PingTypes, TypeOK, L!LoopTypeOK, L!Ended, Stages

\* Every variable of PingMonitor has its type, and what a check is about to write
\* is a row, for every number of devices, rounds and permits.
THEOREM PingTypeCorrect == Spec => []TypeOK
BY PingTypesAlways, PingTypesSuffice, PTL

-----------------------------------------------------------------------------
(* PingMonitor: no check is left behind by a round that went well *)

\* A check that goes on was under way, and moves from one stage to another.
LEMMA CheckMoves ==
    ASSUME NEW r \in 1..Rounds, NEW d \in Devices, CheckStep(r, d)
    PROVE  /\ stage[r][d] \notin L!Ended
           /\ \E s \in Stages : L!MoveTo(r, d, s)
BY DEF CheckStep, Skip, ReadState, LoadAgain, FoundDeleted, SaveState, CheckRaises, EndCheck,
       L!Admit, L!Holding, L!Ended, Stages

\* A round gives up its checks only with an exception, and a check stays in its
\* round.
LEMMA LingerStep ==
    ASSUME PingTypes, OnlyFailedRoundsLinger, [Next]_vars
    PROVE  OnlyFailedRoundsLinger'
<1> USE DEF PingTypes
<1>1. ASSUME UNCHANGED <<loop, round, stage>> PROVE OnlyFailedRoundsLinger'
  BY <1>1 DEF OnlyFailedRoundsLinger, L!OnlyFailedRoundsLinger, L!Active, L!Raised
<1>2. ASSUME NEW d \in Edited, CreateDevice(d) \/ UpdateDevice(d) \/ DeleteDevice(d)
      PROVE  OnlyFailedRoundsLinger'
  BY <1>1, <1>2 DEF CreateDevice, UpdateDevice, DeleteDevice
<1>3. ASSUME NEW r \in 1..Rounds, RoundStep(r) PROVE OnlyFailedRoundsLinger'
  <2>1. PICK d \in Devices : CheckStep(r, d)
    BY <1>3 DEF RoundStep
  <2>2. stage[r][d] \notin L!Ended
    BY <2>1, CheckMoves
  <2>3. PICK s \in Stages : L!MoveTo(r, d, s)
    BY <2>1, CheckMoves
  <2>4. /\ \A q \in 1..Rounds, e \in Devices :
             stage'[q][e] = IF q = r /\ e = d THEN s ELSE stage[q][e]
        /\ loop' = loop /\ round' = round
    BY <2>3, Moved
  <2>5. \A q \in 1..Rounds : L!Active(q)' # {} => L!Active(q) # {}
    BY <2>2, <2>4 DEF L!Active
  <2>6. \A q \in 1..Rounds : L!Raised(q) => L!Raised(q)'
    BY <2>2, <2>4 DEF L!Raised, L!Ended
  <2> QED BY <2>4, <2>5, <2>6 DEF OnlyFailedRoundsLinger, L!OnlyFailedRoundsLinger
<1>4. CASE Loop
  <2>1. CASE L!StartRound(registered)
    <3>1. PICK r \in 1..Rounds :
            /\ round' = r
            /\ stage' = [stage EXCEPT ![r] =
                            [d \in Devices |-> IF d \in registered THEN "queued" ELSE "none"]]
      BY <2>1 DEF L!StartRound
    <3>2. \A q \in 1..Rounds : q # r => stage'[q] = stage[q]
      BY <3>1
    <3>3. \A q \in 1..Rounds : q # r => (L!Active(q)' = L!Active(q) /\ (L!Raised(q)' <=> L!Raised(q)))
      BY <3>2 DEF L!Active, L!Raised
    <3> QED BY <2>1, <3>1, <3>3 DEF OnlyFailedRoundsLinger, L!OnlyFailedRoundsLinger, L!StartRound
  <2>2. CASE L!EndRound
    <3>1. \A q \in 1..Rounds : L!Active(q)' = L!Active(q) /\ (L!Raised(q)' <=> L!Raised(q))
      BY <2>2 DEF L!EndRound, L!Active, L!Raised
    <3> QED BY <2>2, <3>1 DEF OnlyFailedRoundsLinger, L!OnlyFailedRoundsLinger, L!EndRound
  <2>3. CASE L!FailRound
    <3>1. CASE L!Active(round) = {}
      <4>1. \A q \in 1..Rounds : q # round => stage'[q] = stage[q]
        BY <2>3, <3>1 DEF L!FailRound
      <4>2. \A q \in 1..Rounds :
              q # round => (L!Active(q)' = L!Active(q) /\ (L!Raised(q)' <=> L!Raised(q)))
        BY <4>1 DEF L!Active, L!Raised
      <4>3. L!Active(round)' = {} /\ round' = round
        BY <2>3, <3>1 DEF L!FailRound, L!Active, L!Ended
      <4> QED BY <2>3, <4>2, <4>3 DEF OnlyFailedRoundsLinger, L!OnlyFailedRoundsLinger, L!FailRound
    <3>2. CASE L!Active(round) # {}
      <4>1. \A q \in 1..Rounds : L!Active(q)' = L!Active(q) /\ (L!Raised(q)' <=> L!Raised(q))
        BY <2>3, <3>2 DEF L!FailRound, L!Active, L!Raised
      <4> QED BY <2>3, <4>1 DEF OnlyFailedRoundsLinger, L!OnlyFailedRoundsLinger, L!FailRound
    <3> QED BY <3>1, <3>2
  <2>4. CASE L!ListFails \/ L!WakeUp
    <3>1. \A q \in 1..Rounds : L!Active(q)' = L!Active(q) /\ (L!Raised(q)' <=> L!Raised(q))
      BY <2>4 DEF L!ListFails, L!WakeUp, L!Active, L!Raised
    <3> QED BY <2>4, <3>1
          DEF OnlyFailedRoundsLinger, L!OnlyFailedRoundsLinger, L!ListFails, L!WakeUp
  <2> QED BY <1>4, <2>1, <2>2, <2>3, <2>4 DEF Loop, L!LoopStep
<1>5. CASE Shutdown
  <2>1. /\ \A q \in 1..Rounds, e \in Devices :
             stage'[q][e] = IF L!Cancelled(q, e) THEN "none" ELSE stage[q][e]
        /\ loop' = "stopped" /\ round' = round
    BY <1>5 DEF Shutdown, L!Shutdown
  <2>2. ASSUME NEW q \in 1..Rounds, NEW e \in Devices, e \in L!Active(q)' PROVE L!Raised(q)'
    <3>1. ~L!Cancelled(q, e) /\ e \in L!Active(q)
      BY <2>1, <2>2 DEF L!Active, L!Ended
    <3>2. L!Raised(q)
      BY <3>1 DEF OnlyFailedRoundsLinger, L!OnlyFailedRoundsLinger, L!Cancelled
    <3>3. PICK f \in Devices : stage[q][f] = "failed"
      BY <3>2 DEF L!Raised
    <3>4. ~L!Cancelled(q, f)
      BY <3>3 DEF L!Cancelled, L!Active, L!Ended
    <3> QED BY <2>1, <3>3, <3>4 DEF L!Raised
  <2> QED BY <2>2 DEF OnlyFailedRoundsLinger, L!OnlyFailedRoundsLinger, L!Active
<1>6. CASE UNCHANGED vars
  BY <1>1, <1>6 DEF vars
<1> QED BY <1>2, <1>3, <1>4, <1>5, <1>6 DEF Next

\* A check that background_ping_check no longer gathers belongs to a round in
\* which another one has raised, however many rounds linger.
THEOREM PingLeavesNoneBehind == Spec => []OnlyFailedRoundsLinger
<1>1. Init => OnlyFailedRoundsLinger
  BY DEF Init, L!LoopInit, OnlyFailedRoundsLinger, L!OnlyFailedRoundsLinger, L!Active, L!Ended
<1> QED BY <1>1, LingerStep, PingTypesAlways, PTL DEF Spec

-----------------------------------------------------------------------------
(* PingMonitor: the columns of an outage *)

\* A row that a lone check makes of a consistent one is consistent, and goes on
\* with the outage that there was.
LEMMA OutcomeConsistent ==
    ASSUME NEW old \in States, NEW new \in Outcomes(old),
           old.online <=> old.failures = 0,
           old.online <=> old.down = None
    PROVE  /\ new.online <=> new.failures = 0
           /\ new.online <=> new.down = None
           /\ ~old.online /\ ~new.online =>
                 new.down = old.down /\ new.failures = CountOne(old.failures)
BY PingAssumption DEF Outcomes, Up, Down, CountOne, States, Stamps

\* A step that leaves the rows alone, and every check that still holds a permit as
\* it is, keeps the invariant.
LEMMA PingQuiet ==
    ASSUME PingTypes, PingInv, registered' = registered, row' = row,
           overlapped' = overlapped,
           \A q \in 1..Rounds, e \in Devices :
               L!Holding(q, e)' => /\ L!Holding(q, e) /\ stage'[q][e] = stage[q][e]
                                   /\ local'[q][e] = local[q][e]
    PROVE  PingInv'
<1>1. OneCheck'
  BY DEF PingInv, OneCheck, PingTypes
<1>2. ReadsTrue'
  BY DEF PingInv, ReadsTrue, PingTypes, L!Holding, L!Ended
<1>3. RowsNew' /\ OutageConsistent'
  BY DEF PingInv, RowsNew, OutageConsistent
<1> QED BY <1>1, <1>2, <1>3 DEF PingInv

\* A step of a check keeps the invariant: what it writes is an outcome of what the
\* row still is.
LEMMA PingInvCheck ==
    ASSUME PingTypes, PingInv, NEW r \in 1..Rounds, NEW d \in Devices, CheckStep(r, d)
    PROVE  PingInv'
<1>0. row[d] \in States /\ local[r][d] \in Locals
  BY DEF PingTypes
<1>1. CASE Skip(r, d)
  <2>1. L!MoveTo(r, d, "none") /\ UNCHANGED <<deviceVars, local, overlapped>>
    BY <1>1 DEF Skip, L!Admit
  <2>2. \A q \in 1..Rounds, e \in Devices :
          stage'[q][e] = IF q = r /\ e = d THEN "none" ELSE stage[q][e]
    BY <2>1, Moved DEF PingTypes, Stages
  <2> QED BY <2>1, <2>2, PingQuiet DEF deviceVars, L!Holding, L!Ended
<1>2. CASE ReadState(r, d)
  <2> DEFINE l == [Nothing EXCEPT !.online = <<row[d].online>>, !.failures = <<row[d].failures>>]
  <2>1. /\ L!MoveTo(r, d, "probing") /\ local' = [local EXCEPT ![r][d] = l]
        /\ registered' = registered /\ row' = row
    BY <1>2 DEF ReadState, L!Admit, deviceVars
  <2>2. \A q \in 1..Rounds, e \in Devices :
          stage'[q][e] = IF q = r /\ e = d THEN "probing" ELSE stage[q][e]
    BY <2>1, Moved DEF PingTypes, Stages
  <2>3. \A q \in 1..Rounds, e \in Devices :
          local'[q][e] = IF q = r /\ e = d THEN l ELSE local[q][e]
    BY <2>1 DEF PingTypes
  <2>4. /\ overlapped \subseteq overlapped'
        /\ d \notin overlapped' => \A q \in 1..Rounds \ {r} : ~L!Holding(q, d)
    BY <1>2 DEF ReadState
  <2>5. l.online = <<row[d].online>> /\ l.failures = <<row[d].failures>>
    BY DEF Nothing
  <2> HIDE DEF l
  <2>6. OneCheck'
    <3> SUFFICES ASSUME NEW e \in registered \ overlapped', NEW p \in 1..Rounds, NEW q \in 1..Rounds,
                        L!Holding(p, e)', L!Holding(q, e)'
                 PROVE  p = q
      BY <2>1 DEF OneCheck
    <3>1. e \in Devices
      BY DEF PingTypes
    <3>2. CASE e = d
      BY <2>2, <2>4, <3>1, <3>2 DEF L!Holding, L!Ended
    <3>3. CASE e # d
      BY <2>2, <2>4, <3>1, <3>3 DEF L!Holding, PingInv, OneCheck
    <3> QED BY <3>2, <3>3
  <2>7. ReadsTrue'
    BY <2>1, <2>2, <2>3, <2>4, <2>5 DEF PingInv, ReadsTrue, PingTypes
  <2>8. RowsNew' /\ OutageConsistent'
    BY <2>1, <2>4 DEF PingInv, RowsNew, OutageConsistent
  <2> QED BY <2>6, <2>7, <2>8 DEF PingInv
<1>3. CASE LoadAgain(r, d)
  <2> DEFINE now == CHOOSE s \in Stamps : s # row[d].down
  <2>1. now \in Stamps \ {row[d].down}
    BY OtherStamp
  <2>2. PICK new \in {Up, Down(Flush(row[d], local[r][d]), row[d], now)} :
          local' = [local EXCEPT ![r][d] = Changes(row[d], new)]
    BY <1>3 DEF LoadAgain
  <2> HIDE DEF now
  <2>3. /\ L!MoveTo(r, d, "saving") /\ stage[r][d] = "probing"
        /\ registered' = registered /\ row' = row /\ overlapped' = overlapped
    BY <1>3 DEF LoadAgain, deviceVars
  <2>4. \A q \in 1..Rounds, e \in Devices :
          stage'[q][e] = IF q = r /\ e = d THEN "saving" ELSE stage[q][e]
    BY <2>3, Moved DEF PingTypes, Stages
  <2>5. \A q \in 1..Rounds, e \in Devices :
          local'[q][e] = IF q = r /\ e = d THEN Changes(row[d], new) ELSE local[q][e]
    BY <2>2 DEF PingTypes
  <2>6. Flush(row[d], local[r][d]) \in States
    BY <1>0, FlushType
  <2>7. new \in States
    BY <1>0, <2>1, <2>2, <2>6, OutcomeType
  <2>8. Flush(row[d], Changes(row[d], new)) = new
    BY <1>0, <2>7, FlushChanges
  <2>9. ASSUME d \in registered \ overlapped PROVE new \in Outcomes(row[d])
    <3>1. local[r][d].online = <<row[d].online>> /\ local[r][d].failures = <<row[d].failures>>
      BY <2>3, <2>9 DEF PingInv, ReadsTrue
    <3>2. LET before == Flush(row[d], local[r][d])
          IN  before.online = row[d].online /\ before.failures = row[d].failures
      BY <1>0, <3>1, StateDomain DEF Flush
    <3>3. Down(Flush(row[d], local[r][d]), row[d], now) = Down(row[d], row[d], now)
      BY <3>2 DEF Down
    <3> QED BY <2>1, <2>2, <3>3 DEF Outcomes
  <2>10. OneCheck'
    BY <2>3, <2>4 DEF PingInv, OneCheck, L!Holding, L!Ended, PingTypes
  <2>11. ReadsTrue'
    <3> SUFFICES ASSUME NEW e \in registered \ overlapped, NEW q \in 1..Rounds
                 PROVE  /\ stage'[q][e] = "probing" =>
                               /\ local'[q][e].online = <<row[e].online>>
                               /\ local'[q][e].failures = <<row[e].failures>>
                        /\ stage'[q][e] = "saving" =>
                               Flush(row[e], local'[q][e]) \in Outcomes(row[e])
      BY <2>3 DEF ReadsTrue
    <3>1. e \in Devices
      BY DEF PingTypes
    <3>2. CASE e = d /\ q = r
      BY <2>4, <2>5, <2>8, <2>9, <3>2
    <3>3. CASE ~(e = d /\ q = r)
      BY <2>4, <2>5, <3>1, <3>3 DEF PingInv, ReadsTrue
    <3> QED BY <3>2, <3>3
  <2>12. RowsNew' /\ OutageConsistent'
    BY <2>3 DEF PingInv, RowsNew, OutageConsistent
  <2> QED BY <2>10, <2>11, <2>12 DEF PingInv
<1>4. ASSUME NEW s \in {"none", "failed"}, EndCheck(r, d, s)
      PROVE  /\ \A q \in 1..Rounds, e \in Devices :
                   stage'[q][e] = IF q = r /\ e = d THEN s ELSE stage[q][e]
             /\ \A q \in 1..Rounds, e \in Devices :
                   local'[q][e] = IF q = r /\ e = d THEN Nothing ELSE local[q][e]
  BY <1>4, Moved DEF EndCheck, PingTypes, Stages
<1>5. CASE FoundDeleted(r, d)
  BY <1>4, <1>5, PingQuiet DEF FoundDeleted, deviceVars, L!Holding, L!Ended
<1>6. CASE CheckRaises(r, d)
  BY <1>4, <1>6, PingQuiet DEF CheckRaises, deviceVars, L!Holding, L!Ended
<1>7. CASE SaveState(r, d)
  <2>1. /\ EndCheck(r, d, "none") /\ stage[r][d] = "saving" /\ d \in registered
        /\ registered' = registered /\ overlapped' = overlapped
        /\ row' = [row EXCEPT ![d] = Flush(row[d], local[r][d])]
    BY <1>7 DEF SaveState
  <2>2. \A e \in Devices : row'[e] = IF e = d THEN Flush(row[d], local[r][d]) ELSE row[e]
    BY <2>1 DEF PingTypes
  <2>3. d \notin overlapped => \A q \in 1..Rounds : L!Holding(q, d) => q = r
    BY <2>1 DEF PingInv, OneCheck, L!Holding, L!Ended
  <2>4. OneCheck'
    BY <1>4, <2>1 DEF PingInv, OneCheck, L!Holding, L!Ended, PingTypes
  <2>5. ReadsTrue'
    <3> SUFFICES ASSUME NEW e \in registered \ overlapped, NEW q \in 1..Rounds
                 PROVE  /\ stage'[q][e] = "probing" =>
                               /\ local'[q][e].online = <<row'[e].online>>
                               /\ local'[q][e].failures = <<row'[e].failures>>
                        /\ stage'[q][e] = "saving" =>
                               Flush(row'[e], local'[q][e]) \in Outcomes(row'[e])
      BY <2>1 DEF ReadsTrue
    <3>1. e \in Devices
      BY DEF PingTypes
    <3>2. CASE e = d
      BY <1>4, <2>1, <2>3, <3>1, <3>2 DEF L!Holding, L!Ended
    <3>3. CASE e # d
      BY <1>4, <2>1, <2>2, <3>1, <3>3 DEF PingInv, ReadsTrue
    <3> QED BY <3>2, <3>3
  <2>6. RowsNew'
    BY <2>1, <2>2 DEF PingInv, RowsNew
  <2>7. OutageConsistent'
    <3> SUFFICES ASSUME NEW e \in registered \ overlapped
                 PROVE  /\ row'[e].online <=> row'[e].failures = 0
                        /\ row'[e].online <=> row'[e].down = None
      BY <2>1 DEF OutageConsistent, Agrees
    <3>1. e \in Devices
      BY DEF PingTypes
    <3>2. CASE e = d
      BY <1>0, <2>1, <2>2, <3>2, OutcomeConsistent DEF PingInv, ReadsTrue, OutageConsistent, Agrees
    <3>3. CASE e # d
      BY <2>2, <3>1, <3>3 DEF PingInv, OutageConsistent, Agrees
    <3> QED BY <3>2, <3>3
  <2> QED BY <2>4, <2>5, <2>6, <2>7 DEF PingInv
<1> QED BY <1>1, <1>2, <1>3, <1>5, <1>6, <1>7 DEF CheckStep

\* A new device is shown as online, without failures and without an outage.
LEMMA NewDeviceConsistent == NewDevice.online /\ NewDevice.failures = 0 /\ NewDevice.down = None
BY DEF NewDevice

\* At first no check is under way.
LEMMA PingInvInit == Init => PingInv
<1> SUFFICES ASSUME Init PROVE PingInv
  OBVIOUS
<1>1. registered \subseteq Devices /\ \A d \in Devices : Agrees(row[d])
  BY PingAssumption DEF Init
<1>2. OneCheck /\ ReadsTrue
  BY <1>1 DEF Init, L!LoopInit, L!Holding, L!Ended, OneCheck, ReadsTrue
<1>3. RowsNew
  BY DEF Init, RowsNew
<1>4. OutageConsistent
  BY <1>1 DEF OutageConsistent
<1> QED BY <1>2, <1>3, <1>4 DEF PingInv

\* Every step keeps the invariant: the API leaves the columns alone and marks no
\* check.
LEMMA PingInvStep == PingTypes /\ PingInv /\ [Next]_vars => PingInv'
<1> SUFFICES ASSUME PingTypes, PingInv, [Next]_vars PROVE PingInv'
  OBVIOUS
<1>1. ASSUME NEW d \in Edited, CreateDevice(d) PROVE PingInv'
  <2>1. \A q \in 1..Rounds : ~L!Holding(q, d)
    BY <1>1 DEF CreateDevice, L!Holding
  <2>2. registered' = registered \cup {d} /\ UNCHANGED <<row, stage, local, overlapped>>
    BY <1>1 DEF CreateDevice
  <2>3. row[d] = NewDevice
    BY <1>1, PingAssumption DEF CreateDevice, PingInv, RowsNew
  <2>4. OneCheck'
    BY <2>1, <2>2 DEF PingInv, OneCheck, L!Holding
  <2>5. ReadsTrue'
    BY <2>1, <2>2 DEF PingInv, ReadsTrue, L!Holding, L!Ended
  <2>6. RowsNew'
    BY <2>2, <2>3 DEF PingInv, RowsNew
  <2>7. OutageConsistent'
    BY <2>2, <2>3, NewDeviceConsistent DEF PingInv, OutageConsistent, Agrees
  <2> QED BY <2>4, <2>5, <2>6, <2>7 DEF PingInv
<1>2. ASSUME NEW d \in Edited, UpdateDevice(d) PROVE PingInv'
  BY <1>2, PingQuiet DEF UpdateDevice, L!Holding
<1>3. ASSUME NEW d \in Edited, DeleteDevice(d) PROVE PingInv'
  <2>1. /\ registered' = registered \ {d} /\ overlapped' = overlapped \ {d}
        /\ UNCHANGED <<stage, local>>
        /\ \A e \in Devices : row'[e] = IF e = d THEN NewDevice ELSE row[e]
    BY <1>3 DEF DeleteDevice, PingTypes
  <2>2. \A e \in registered' \ overlapped' : e \in registered \ overlapped /\ row'[e] = row[e]
    BY <2>1 DEF PingTypes
  <2>3. OneCheck'
    BY <2>1, <2>2 DEF PingInv, OneCheck, L!Holding
  <2>4. ReadsTrue'
    BY <2>1, <2>2 DEF PingInv, ReadsTrue
  <2>5. RowsNew' /\ OutageConsistent'
    BY <2>1, <2>2 DEF PingInv, RowsNew, OutageConsistent
  <2> QED BY <2>3, <2>4, <2>5 DEF PingInv
<1>4. ASSUME NEW r \in 1..Rounds, RoundStep(r) PROVE PingInv'
  BY <1>4, PingInvCheck DEF RoundStep
<1>5. CASE Loop
  <2>1. L!LoopStep(registered) /\ UNCHANGED <<deviceVars, local, overlapped>>
    BY <1>5 DEF Loop
  <2> QED BY <2>1, LoopMoves, PingQuiet DEF deviceVars
<1>6. CASE Shutdown
  <2>1. L!Shutdown /\ UNCHANGED <<deviceVars, overlapped>>
    BY <1>6 DEF Shutdown
  <2>2. \A q \in 1..Rounds, e \in Devices : L!Holding(q, e)' => local'[q][e] = local[q][e]
    BY <1>6 DEF Shutdown, L!Shutdown, PingTypes, L!Holding, L!Ended
  <2> QED BY <2>1, <2>2, LoopMoves, PingQuiet DEF deviceVars
<1>7. CASE UNCHANGED vars
  BY <1>7, PingQuiet DEF vars, deviceVars, L!Holding
<1> QED BY <1>1, <1>2, <1>3, <1>4, <1>5, <1>6, <1>7 DEF Next

\* So it holds in every state.
LEMMA PingInvAlways == Spec => []PingInv
BY PingInvInit, PingInvStep, PingTypesAlways, PTL DEF Spec

\* IsOnline, ConsecutiveFailures and DownSince agree, whatever the checks of
\* other devices and the API do while a device is probed, unless two checks of it
\* have overlapped (ping_device_async).
THEOREM PingOutageConsistent == Spec => []OutageConsistent
<1>1. PingInv => OutageConsistent
  BY DEF PingInv
<1> QED BY <1>1, PingInvAlways, PTL

\* Nor does any step move the beginning of an outage or miscount its failures.
THEOREM PingOutageKept == Spec => OutageKept
<1> DEFINE Kept(d) ==
      ~row[d].online /\ ~row'[d].online =>
          /\ row'[d].down = row[d].down
          /\ row'[d].failures \in {row[d].failures, CountOne(row[d].failures)}
<1>1. ASSUME PingTypes, PingInv, [Next]_vars,
             NEW d \in (registered \cap registered') \ overlapped'
      PROVE  Kept(d)
  <2>0. d \in Devices
    BY <1>1 DEF PingTypes
  <2>1. CASE row' = row
    BY <2>1
  <2>2. ASSUME NEW e \in Edited, DeleteDevice(e) PROVE Kept(d)
    <3>1. d # e
      BY <1>1, <2>2 DEF DeleteDevice
    <3>2. row'[d] = row[d]
      BY <1>1, <2>0, <2>2, <3>1 DEF DeleteDevice, PingTypes
    <3> QED BY <3>2
  <2>3. ASSUME NEW r \in 1..Rounds, NEW e \in Devices, SaveState(r, e) PROVE Kept(d)
    <3>1. row' = [row EXCEPT ![e] = Flush(row[e], local[r][e])]
      BY <2>3 DEF SaveState
    <3>2. CASE e # d
      BY <1>1, <2>0, <3>1, <3>2 DEF PingTypes
    <3>3. CASE e = d
      <4>1. stage[r][d] = "saving" /\ d \in registered \ overlapped
        BY <1>1, <2>3, <3>3 DEF SaveState
      <4>2. row'[d] \in Outcomes(row[d])
        BY <1>1, <2>0, <3>1, <3>3, <4>1 DEF PingInv, ReadsTrue, PingTypes
      <4>3. row[d] \in States /\ (row[d].online <=> row[d].failures = 0)
                              /\ (row[d].online <=> row[d].down = None)
        BY <1>1, <2>0, <4>1 DEF PingInv, OutageConsistent, Agrees, PingTypes
      <4> QED BY <4>2, <4>3, OutcomeConsistent
    <3> QED BY <3>2, <3>3
  <2>4. ASSUME NEW r \in 1..Rounds, RoundStep(r) PROVE Kept(d)
    BY <2>1, <2>3, <2>4 DEF RoundStep, CheckStep, Skip, ReadState, LoadAgain, FoundDeleted,
       CheckRaises, deviceVars
  <2>5. CASE \/ \E e \in Edited : CreateDevice(e) \/ UpdateDevice(e)
             \/ Loop \/ Shutdown \/ UNCHANGED vars
    BY <2>1, <2>5 DEF CreateDevice, UpdateDevice, Loop, Shutdown, deviceVars, vars
  <2> HIDE DEF Kept
  <2> QED BY <1>1, <2>2, <2>4, <2>5 DEF Next
<1>2. PingTypes /\ PingInv /\ [Next]_vars =>
          [\A d \in (registered \cap registered') \ overlapped' : Kept(d)]_vars
  BY <1>1
<1> QED BY <1>2, PingTypesAlways, PingInvAlways, PTL DEF Spec, OutageKept

-----------------------------------------------------------------------------
(* NvrMonitor: types, and the inductive invariant *)

NvrLocals == [recording : Optional(BOOLEAN), date : Optional(N!Stamps \cup {None, "N/A"}),
              capacity : Optional({None, "placeholder", "read"})]

NvrStages == {"none", "failed", "queued", "asking", "saving", "handling"}

\* N!TypeOK, with the types of the locals alone.
NvrTypes ==
    /\ nUsable \subseteq nRegistered /\ nRegistered \subseteq Nvrs
    /\ nRow \in [Nvrs -> N!States]
    /\ nLoop \in {"list", "gather", "sleep", "stopped"} /\ nRound \in 1..Rounds
    /\ nStage \in [N!Workers -> [Nvrs -> NvrStages]]
    /\ nLocal \in [N!Workers -> [Nvrs -> NvrLocals]]
    /\ nOverlapped \subseteq nRegistered
    /\ \A w \in N!Workers, d \in Nvrs :
          /\ ~N!L!Holding(w, d) => nLocal[w][d] = N!Nothing
          /\ nStage[w][d] = "asking" => nLocal[w][d].date # <<>>

\* Unless it is marked, an NVR has one check under way, of a round or of a request.
OneNvrCheck ==
    \A d \in nRegistered \ nOverlapped : \A v, w \in N!Workers :
        N!L!Holding(v, d) /\ N!L!Holding(w, d) => v = w

\* What a check that is alone may make of the row that it has read: the NVR has
\* said something, or has learnt nothing.
NvrNews(old, recording, tells, now) ==
    [recording |-> recording,
     date      |-> N!DateAfter(recording, old.date, now),
     capacity  |-> IF tells THEN "read" ELSE N!Placeholder(old.capacity)]
NvrNoNews(old) == [old EXCEPT !.recording = FALSE, !.capacity = N!Placeholder(@)]
NvrOutcomes(old) ==
    {NvrNews(old, recording, tells, now) :
        recording \in BOOLEAN, tells \in BOOLEAN, now \in N!Stamps \ {old.date}}
    \cup {NvrNoNews(old)}

\* Such a check has read the date that is still there, or will write an outcome.
NvrReadsTrue ==
    \A d \in nRegistered \ nOverlapped : \A w \in N!Workers :
        /\ nStage[w][d] = "asking" => nLocal[w][d].date = <<nRow[d].date>>
        /\ nStage[w][d] \in {"saving", "handling"} =>
               N!Flush(nRow[d], nLocal[w][d]) \in NvrOutcomes(nRow[d])

NvrRowsNew == \A d \in Nvrs \ nRegistered : nRow[d] = N!NewDevice

NvrInv == OneNvrCheck /\ NvrReadsTrue /\ NvrRowsNew /\ N!RecordingDated

-----------------------------------------------------------------------------
(* NvrMonitor: lemmas about its operators *)

\* A row has three columns about an NVR.
LEMMA NvrStateDomain ==
    ASSUME NEW old \in N!States
    PROVE  DOMAIN old = {"recording", "date", "capacity"}
BY DEF N!States

\* What a commit leaves is a row.
LEMMA NvrFlushType ==
    ASSUME NEW old \in N!States, NEW some \in NvrLocals
    PROVE  N!Flush(old, some) \in N!States
BY NvrStateDomain DEF N!States, NvrLocals, Optional, N!Flush

\* A commit that follows a load at once leaves what was meant.
LEMMA NvrFlushChanges ==
    ASSUME NEW old \in N!States, NEW new \in N!States
    PROVE  N!Changes(old, new) \in NvrLocals /\ N!Flush(old, N!Changes(old, new)) = new
BY NvrStateDomain DEF N!States, NvrLocals, Optional, N!Flush, N!Changes

\* A check that is not under way holds nothing.
LEMMA NvrNothingType == N!Nothing \in NvrLocals
BY DEF N!Nothing, NvrLocals, Optional

\* A date that was read comes back, unless there was none.
LEMMA DateAfterType ==
    ASSUME NEW recording \in BOOLEAN, NEW old \in N!Stamps \cup {None, "N/A"}, NEW now \in N!Stamps
    PROVE  /\ N!DateAfter(recording, old, now) \in N!Stamps \cup {None, "N/A"}
           /\ recording => N!DateAfter(recording, old, now) \in N!Stamps
           /\ ~recording /\ old # None => N!DateAfter(recording, old, now) = old
BY DEF N!DateAfter, N!OrElse

\* The placeholder takes the place of nothing that was read.
LEMMA PlaceholderType ==
    ASSUME NEW capacity \in {None, "placeholder", "read"}
    PROVE  /\ N!Placeholder(capacity) \in {None, "placeholder", "read"}
           /\ capacity = "read" => N!Placeholder(capacity) = "read"
BY NvrAssumption DEF N!Placeholder, N!OrElse

\* What a lone check makes of a row: shown as recording, it is shown with a date,
\* and what was learnt before is replaced by something newer only.
LEMMA NvrOutcome ==
    ASSUME NEW old \in N!States, NEW new \in NvrOutcomes(old),
           old.recording => old.date \in N!Stamps
    PROVE  /\ new.recording => new.date \in N!Stamps
           /\ new.date # old.date => new.recording \/ old.date = None
           /\ old.capacity = "read" => new.capacity = "read"
<1>0. old.date \in N!Stamps \cup {None, "N/A"} /\ old.capacity \in {None, "placeholder", "read"}
  BY DEF N!States
<1>1. ASSUME NEW recording \in BOOLEAN, NEW tells \in BOOLEAN, NEW now \in N!Stamps \ {old.date},
             new = NvrNews(old, recording, tells, now)
      PROVE  /\ new.recording => new.date \in N!Stamps
             /\ new.date # old.date => new.recording \/ old.date = None
             /\ old.capacity = "read" => new.capacity = "read"
  <2>1. /\ new.recording = recording /\ new.date = N!DateAfter(recording, old.date, now)
        /\ new.capacity = IF tells THEN "read" ELSE N!Placeholder(old.capacity)
    BY <1>1 DEF NvrNews
  <2> QED BY <1>0, <2>1, DateAfterType, PlaceholderType
<1>2. CASE new = NvrNoNews(old)
  <2>1. /\ new.recording = FALSE /\ new.date = old.date
        /\ new.capacity = N!Placeholder(old.capacity)
    BY <1>2 DEF NvrNoNews, N!States
  <2> QED BY <1>0, <2>1, PlaceholderType
<1> QED BY <1>1, <1>2 DEF NvrOutcomes

\* A check that moves leaves the stages of all others.
LEMMA NvrMoved ==
    ASSUME nStage \in [N!Workers -> [Nvrs -> NvrStages]],
           NEW w \in N!Workers, NEW d \in Nvrs, NEW s \in NvrStages,
           N!L!MoveTo(w, d, s)
    PROVE  /\ nStage' \in [N!Workers -> [Nvrs -> NvrStages]]
           /\ \A v \in N!Workers, e \in Nvrs :
                 nStage'[v][e] = IF v = w /\ e = d THEN s ELSE nStage[v][e]
           /\ nLoop' = nLoop /\ nRound' = nRound
BY DEF N!L!MoveTo

\* What a check holds is its own.
LEMMA NvrEnds ==
    ASSUME nLocal \in [N!Workers -> [Nvrs -> NvrLocals]],
           NEW w \in N!Workers, NEW d \in Nvrs, NEW l \in NvrLocals,
           nLocal' = [nLocal EXCEPT ![w][d] = l]
    PROVE  /\ nLocal' \in [N!Workers -> [Nvrs -> NvrLocals]]
           /\ \A v \in N!Workers, e \in Nvrs :
                 nLocal'[v][e] = IF v = w /\ e = d THEN l ELSE nLocal[v][e]
OBVIOUS

\* The loop's own steps leave every check under way where it is, as for the pings.
LEMMA NvrLoopMoves ==
    ASSUME NvrTypes, N!L!LoopStep(nRegistered) \/ N!L!Shutdown
    PROVE  /\ nLoop' \in {"list", "gather", "sleep", "stopped"} /\ nRound' \in 1..Rounds
           /\ nStage' \in [N!Workers -> [Nvrs -> NvrStages]]
           /\ \A w \in N!Workers, e \in Nvrs :
                 /\ N!L!Holding(w, e)' => N!L!Holding(w, e) /\ nStage'[w][e] = nStage[w][e]
                 /\ N!L!Holding(w, e) /\ ~N!L!Holding(w, e)' =>
                        nLoop' = "stopped" /\ N!L!Cancelled(w, e)
<1>0. 1..Rounds \subseteq N!Workers
  BY DEF N!Workers
<1>1. CASE N!L!StartRound(nRegistered)
  <2>1. PICK r \in 1..Rounds :
          /\ N!L!Active(r) = {} /\ nRound' = r
          /\ nStage' = [nStage EXCEPT ![r] =
                          [d \in Nvrs |-> IF d \in nRegistered THEN "queued" ELSE "none"]]
    BY <1>1 DEF N!L!StartRound
  <2>2. \A e \in Nvrs : ~N!L!Holding(r, e)
    BY <2>1 DEF N!L!Active, N!L!Holding
  <2>3. \A e \in Nvrs : nStage'[r][e] \in {"queued", "none"}
    BY <1>0, <2>1 DEF NvrTypes
  <2>4. \A w \in N!Workers : w # r => nStage'[w] = nStage[w]
    BY <2>1 DEF NvrTypes
  <2>5. nStage' \in [N!Workers -> [Nvrs -> NvrStages]]
    BY <2>1 DEF NvrTypes, NvrStages
  <2> QED BY <1>1, <2>1, <2>2, <2>3, <2>4, <2>5
        DEF NvrTypes, N!L!StartRound, N!L!Holding, N!L!Ended
<1>2. CASE N!L!EndRound
  BY <1>2 DEF N!L!EndRound, NvrTypes, N!L!Holding
<1>3. CASE N!L!FailRound
  <2>1. CASE N!L!Active(nRound) = {}
    <3>1. \A e \in Nvrs : ~N!L!Holding(nRound, e) /\ nStage'[nRound][e] = "none"
      BY <1>0, <1>3, <2>1 DEF N!L!FailRound, NvrTypes, N!L!Active, N!L!Holding
    <3>2. \A w \in N!Workers : w # nRound => nStage'[w] = nStage[w]
      BY <1>3, <2>1 DEF N!L!FailRound, NvrTypes
    <3>3. nStage' \in [N!Workers -> [Nvrs -> NvrStages]]
      BY <1>3, <2>1 DEF N!L!FailRound, NvrTypes, NvrStages
    <3> QED BY <1>3, <3>1, <3>2, <3>3 DEF N!L!FailRound, NvrTypes, N!L!Holding, N!L!Ended
  <2>2. CASE N!L!Active(nRound) # {}
    BY <1>3, <2>2 DEF N!L!FailRound, NvrTypes, N!L!Holding
  <2> QED BY <2>1, <2>2
<1>4. CASE N!L!Shutdown
  <2>1. \A w \in N!Workers, e \in Nvrs :
          nStage'[w][e] = IF N!L!Cancelled(w, e) THEN "none" ELSE nStage[w][e]
    BY <1>4 DEF N!L!Shutdown, NvrTypes
  <2>2. nStage' \in [N!Workers -> [Nvrs -> NvrStages]]
    BY <1>4 DEF N!L!Shutdown, NvrTypes, NvrStages
  <2> QED BY <1>4, <2>1, <2>2 DEF N!L!Shutdown, NvrTypes, N!L!Holding, N!L!Ended
<1>5. CASE N!L!ListFails \/ N!L!WakeUp
  BY <1>5 DEF N!L!ListFails, N!L!WakeUp, NvrTypes, N!L!Holding
<1> QED BY <1>1, <1>2, <1>3, <1>4, <1>5 DEF N!L!LoopStep

-----------------------------------------------------------------------------
(* NvrMonitor: types are kept *)

\* What a check, of a round or of a request, may do next.
NvrCheck(w, d) == N!Refuse(w, d) \/ N!ReadDate(w, d) \/ N!CheckGoesOn(w, d)

\* The monitor's steps, with those of rounds and requests as one.
LEMMA NvrCheckSteps ==
    ASSUME N!Next
    PROVE  \/ \E d \in Nvrs : N!CreateDevice(d) \/ N!UpdateDevice(d) \/ N!DeleteDevice(d)
           \/ \E w \in N!Workers, d \in Nvrs : NvrCheck(w, d)
           \/ N!Loop \/ N!Shutdown
BY DEF N!Next, N!RoundStep, N!RequestStep, NvrCheck, N!Workers

\* The types hold at first.
LEMMA NvrTypesInit == N!Init => NvrTypes
<1> SUFFICES ASSUME N!Init PROVE NvrTypes
  OBVIOUS
<1>1. nRow \in [Nvrs -> N!States]
  BY DEF N!Init
<1>2. nLocal \in [N!Workers -> [Nvrs -> NvrLocals]]
  BY NvrNothingType DEF N!Init
<1>3. nStage \in [N!Workers -> [Nvrs -> NvrStages]]
  BY DEF N!Init, N!L!LoopInit, NvrStages
<1>4. nUsable \subseteq nRegistered /\ nRegistered \subseteq Nvrs
  BY NvrAssumption DEF N!Init
<1>5. nLoop = "list" /\ nRound \in 1..Rounds /\ nOverlapped = {}
  BY PingAssumption DEF N!Init, N!L!LoopInit
<1>6. \A w \in N!Workers, d \in Nvrs : nLocal[w][d] = N!Nothing /\ nStage[w][d] = "none"
  BY DEF N!Init, N!L!LoopInit
<1> QED BY <1>1, <1>2, <1>3, <1>4, <1>5, <1>6 DEF NvrTypes

\* A step of a check keeps the types,
LEMMA NvrTypesCheck ==
    ASSUME NvrTypes, NEW w \in N!Workers, NEW d \in Nvrs, NvrCheck(w, d)
    PROVE  NvrTypes'
<1>0. ASSUME NEW s \in NvrStages, NEW l \in NvrLocals, N!L!MoveTo(w, d, s),
             nLocal' = [nLocal EXCEPT ![w][d] = l],
             l = N!Nothing \/ s \in {"asking", "saving", "handling"},
             s = "asking" => l.date # <<>>,
             nRow' \in [Nvrs -> N!States], nOverlapped' \subseteq nRegistered,
             UNCHANGED <<nRegistered, nUsable>>
      PROVE  NvrTypes'
  <2>1. /\ nStage' \in [N!Workers -> [Nvrs -> NvrStages]]
        /\ \A v \in N!Workers, e \in Nvrs :
              nStage'[v][e] = IF v = w /\ e = d THEN s ELSE nStage[v][e]
        /\ nLoop' = nLoop /\ nRound' = nRound
    BY <1>0, NvrMoved DEF NvrTypes
  <2>2. /\ nLocal' \in [N!Workers -> [Nvrs -> NvrLocals]]
        /\ \A v \in N!Workers, e \in Nvrs :
              nLocal'[v][e] = IF v = w /\ e = d THEN l ELSE nLocal[v][e]
    BY <1>0, NvrEnds DEF NvrTypes
  <2>3. \A v \in N!Workers, e \in Nvrs :
          /\ ~N!L!Holding(v, e)' => nLocal'[v][e] = N!Nothing
          /\ nStage'[v][e] = "asking" => nLocal'[v][e].date # <<>>
    BY <1>0, <2>1, <2>2 DEF NvrTypes, N!L!Holding, N!L!Ended
  <2> QED BY <1>0, <2>1, <2>2, <2>3 DEF NvrTypes
<1>1. nRow[d] \in N!States /\ nLocal[w][d] \in NvrLocals
  BY DEF NvrTypes
<1>2. nRow[d].date \in N!Stamps \cup {None, "N/A"}
      /\ nRow[d].capacity \in {None, "placeholder", "read"}
  BY <1>1 DEF N!States
<1>3. CASE N!Refuse(w, d)
  <2>1. N!L!MoveTo(w, d, "none") /\ nStage[w][d] = "queued"
    BY <1>3 DEF N!Refuse, N!L!Admit
  <2>2. /\ nStage' \in [N!Workers -> [Nvrs -> NvrStages]]
        /\ \A v \in N!Workers, e \in Nvrs :
              nStage'[v][e] = IF v = w /\ e = d THEN "none" ELSE nStage[v][e]
        /\ nLoop' = nLoop /\ nRound' = nRound
    BY <2>1, NvrMoved DEF NvrTypes, NvrStages
  <2> QED BY <1>3, <2>1, <2>2 DEF N!Refuse, N!deviceVars, N!L!Holding, N!L!Ended, NvrTypes
<1>4. CASE N!ReadDate(w, d)
  <2> DEFINE l == [N!Nothing EXCEPT !.date = <<nRow[d].date>>]
  <2>1. N!L!MoveTo(w, d, "asking")
    BY <1>4 DEF N!ReadDate, N!Enter, N!L!Admit
  <2>2. l \in NvrLocals /\ l.date # <<>>
    BY <1>2 DEF N!Nothing, NvrLocals, Optional
  <2>3. nOverlapped' \subseteq nRegistered
    BY <1>4 DEF N!ReadDate, NvrTypes
  <2>4. nLocal' = [nLocal EXCEPT ![w][d] = l]
    BY <1>4 DEF N!ReadDate
  <2> HIDE DEF l
  <2> QED BY <1>0, <1>4, <2>1, <2>2, <2>3, <2>4 DEF N!ReadDate, N!deviceVars, NvrStages, NvrTypes
<1>5. ASSUME NEW new \in N!States, NEW s \in {"saving", "handling"}, N!Load(w, d, new, s)
      PROVE  NvrTypes'
  <2>1. N!Changes(nRow[d], new) \in NvrLocals
    BY <1>1, <1>5, NvrFlushChanges
  <2> QED BY <1>0, <1>5, <2>1 DEF N!Load, N!deviceVars, NvrStages, NvrTypes
<1>6. CASE N!Answered(w, d)
  <2>1. PICK recording \in BOOLEAN, tells \in BOOLEAN, now \in N!Stamps \ {nRow[d].date} :
          N!Load(w, d,
             [recording |-> recording,
              date      |-> N!DateAfter(recording, nLocal[w][d].date[1], now),
              capacity  |-> IF tells THEN "read" ELSE N!Placeholder(nRow[d].capacity)],
             "saving")
    BY <1>6 DEF N!Answered
  <2>2. nLocal[w][d].date[1] \in N!Stamps \cup {None, "N/A"}
    BY <1>1, <1>6 DEF N!Answered, NvrTypes, NvrLocals, Optional
  <2>3. N!DateAfter(recording, nLocal[w][d].date[1], now) \in N!Stamps \cup {None, "N/A"}
    BY <2>2, DateAfterType
  <2>4. (IF tells THEN "read" ELSE N!Placeholder(nRow[d].capacity)) \in {None, "placeholder", "read"}
    BY <1>2, PlaceholderType
  <2>5. [recording |-> recording,
         date      |-> N!DateAfter(recording, nLocal[w][d].date[1], now),
         capacity  |-> IF tells THEN "read" ELSE N!Placeholder(nRow[d].capacity)] \in N!States
    BY <2>3, <2>4 DEF N!States
  <2> QED BY <1>5, <2>1, <2>5
<1>7. CASE N!Unanswered(w, d)
  <2>1. NvrNoNews(nRow[d]) \in N!States
    BY <1>1, <1>2, PlaceholderType DEF NvrNoNews, N!States
  <2>2. \E s \in {"saving", "handling"} : N!Load(w, d, NvrNoNews(nRow[d]), s)
    BY <1>7 DEF N!Unanswered, NvrNoNews
  <2> QED BY <1>5, <2>1, <2>2
<1>8. CASE N!NotSaved(w, d)
  BY <1>0, <1>8, NvrNothingType DEF N!NotSaved, N!EndCheck, N!deviceVars, NvrStages, NvrTypes
<1>9. CASE N!Save(w, d)
  <2>1. nRow' \in [Nvrs -> N!States]
    BY <1>1, <1>9, NvrFlushType DEF N!Save, NvrTypes
  <2> QED BY <1>0, <1>9, <2>1, NvrNothingType DEF N!Save, N!EndCheck, NvrStages, NvrTypes
<1>10. CASE N!CheckRaises(w, d)
  BY <1>0, <1>10, NvrNothingType DEF N!CheckRaises, N!EndCheck, N!deviceVars, NvrStages, NvrTypes
<1> QED BY <1>3, <1>4, <1>6, <1>7, <1>8, <1>9, <1>10 DEF NvrCheck, N!CheckGoesOn

\* and so does every other step.
LEMMA NvrTypesStep == NvrTypes /\ [N!Next]_(N!vars) => NvrTypes'
<1> SUFFICES ASSUME NvrTypes, [N!Next]_(N!vars) PROVE NvrTypes'
  OBVIOUS
<1>1. ASSUME NEW d \in Nvrs, N!CreateDevice(d) \/ N!UpdateDevice(d) PROVE NvrTypes'
  BY <1>1 DEF NvrTypes, N!CreateDevice, N!UpdateDevice, N!L!Holding
<1>2. ASSUME NEW d \in Nvrs, N!DeleteDevice(d) PROVE NvrTypes'
  <2>1. N!NewDevice \in N!States
    BY DEF N!NewDevice, N!States
  <2> QED BY <1>2, <2>1 DEF NvrTypes, N!DeleteDevice, N!L!Holding
<1>3. ASSUME NEW w \in N!Workers, NEW d \in Nvrs, NvrCheck(w, d) PROVE NvrTypes'
  BY <1>3, NvrTypesCheck
<1>4. CASE N!Loop
  <2>1. N!L!LoopStep(nRegistered) /\ UNCHANGED <<N!deviceVars, nLocal, nOverlapped>>
    BY <1>4 DEF N!Loop
  <2>2. nLoop' # "stopped"
    BY <2>1 DEF N!L!LoopStep, N!L!StartRound, N!L!EndRound, N!L!FailRound, N!L!ListFails, N!L!WakeUp
  <2>3. \A w \in N!Workers, e \in Nvrs : nStage'[w][e] = "asking" => nStage[w][e] = "asking"
    BY <2>1, NvrLoopMoves DEF N!L!Holding, N!L!Ended
  <2> QED BY <2>1, <2>2, <2>3, NvrLoopMoves DEF NvrTypes, N!deviceVars
<1>5. CASE N!Shutdown
  <2>1. N!L!Shutdown
    BY <1>5 DEF N!Shutdown
  <2>2. nLocal' \in [N!Workers -> [Nvrs -> NvrLocals]]
    BY <1>5, NvrNothingType DEF N!Shutdown, NvrTypes
  <2>3. \A w \in N!Workers, e \in Nvrs :
          nLocal'[w][e] = IF N!L!Cancelled(w, e) THEN N!Nothing ELSE nLocal[w][e]
    BY <1>5 DEF N!Shutdown
  <2>4. \A w \in N!Workers, e \in Nvrs : ~N!L!Holding(w, e)' => nLocal'[w][e] = N!Nothing
    BY <2>1, <2>3, NvrLoopMoves DEF NvrTypes
  <2>5. \A w \in N!Workers, e \in Nvrs :
          nStage'[w][e] = IF N!L!Cancelled(w, e) THEN "none" ELSE nStage[w][e]
    BY <2>1 DEF N!L!Shutdown, NvrTypes
  <2>6. \A w \in N!Workers, e \in Nvrs : nStage'[w][e] = "asking" => nLocal'[w][e].date # <<>>
    BY <2>3, <2>5 DEF NvrTypes
  <2> QED BY <1>5, <2>1, <2>2, <2>4, <2>6, NvrLoopMoves DEF NvrTypes, N!Shutdown, N!deviceVars
<1>6. CASE UNCHANGED N!vars
  BY <1>6 DEF NvrTypes, N!vars, N!deviceVars, N!L!Holding
<1> QED BY <1>1, <1>2, <1>3, <1>4, <1>5, <1>6, NvrCheckSteps

\* So they hold in every state.
LEMMA NvrTypesAlways == N!Spec => []NvrTypes
BY NvrTypesInit, NvrTypesStep, PTL DEF N!Spec

\* They are stronger than N!TypeOK.
LEMMA NvrTypesSuffice == NvrTypes => N!TypeOK
<1> SUFFICES ASSUME NvrTypes PROVE N!TypeOK
  OBVIOUS
<1>1. \A w \in N!Workers, d \in Nvrs : N!Flush(nRow[d], nLocal[w][d]) \in N!States
  BY NvrFlushType DEF NvrTypes
<1> QED BY <1>1 DEF NvrTypes, N!TypeOK, N!L!LoopTypeOK, N!L!Ended, NvrStages

-----------------------------------------------------------------------------
(* NvrMonitor: what is shown of an NVR *)

\* A step that leaves the rows alone, and every check that still holds a permit as
\* it is, keeps the invariant.
LEMMA NvrQuiet ==
    ASSUME NvrTypes, NvrInv, nRegistered' = nRegistered, nRow' = nRow,
           nOverlapped' = nOverlapped,
           \A w \in N!Workers, e \in Nvrs :
               N!L!Holding(w, e)' => /\ N!L!Holding(w, e) /\ nStage'[w][e] = nStage[w][e]
                                     /\ nLocal'[w][e] = nLocal[w][e]
    PROVE  NvrInv'
<1>1. OneNvrCheck'
  BY DEF NvrInv, OneNvrCheck, NvrTypes
<1>2. NvrReadsTrue'
  BY DEF NvrInv, NvrReadsTrue, NvrTypes, N!L!Holding, N!L!Ended
<1>3. NvrRowsNew' /\ N!RecordingDated'
  BY DEF NvrInv, NvrRowsNew, N!RecordingDated
<1> QED BY <1>1, <1>2, <1>3 DEF NvrInv

\* A step of a check keeps the invariant, by NvrOutcome.
LEMMA NvrInvCheck ==
    ASSUME NvrTypes, NvrInv, NEW w \in N!Workers, NEW d \in Nvrs, NvrCheck(w, d)
    PROVE  NvrInv'
<1>0. nRow[d] \in N!States /\ nLocal[w][d] \in NvrLocals
  BY DEF NvrTypes
<1>1. CASE N!Refuse(w, d)
  <2>1. N!L!MoveTo(w, d, "none") /\ UNCHANGED <<N!deviceVars, nLocal, nOverlapped>>
    BY <1>1 DEF N!Refuse, N!L!Admit
  <2>2. \A v \in N!Workers, e \in Nvrs :
          nStage'[v][e] = IF v = w /\ e = d THEN "none" ELSE nStage[v][e]
    BY <2>1, NvrMoved DEF NvrTypes, NvrStages
  <2> QED BY <2>1, <2>2, NvrQuiet DEF N!deviceVars, N!L!Holding, N!L!Ended
<1>2. CASE N!ReadDate(w, d)
  <2> DEFINE l == [N!Nothing EXCEPT !.date = <<nRow[d].date>>]
  <2>1. /\ N!L!MoveTo(w, d, "asking") /\ nLocal' = [nLocal EXCEPT ![w][d] = l]
        /\ nRegistered' = nRegistered /\ nRow' = nRow
    BY <1>2 DEF N!ReadDate, N!Enter, N!L!Admit, N!deviceVars
  <2>2. \A v \in N!Workers, e \in Nvrs :
          nStage'[v][e] = IF v = w /\ e = d THEN "asking" ELSE nStage[v][e]
    BY <2>1, NvrMoved DEF NvrTypes, NvrStages
  <2>3. \A v \in N!Workers, e \in Nvrs :
          nLocal'[v][e] = IF v = w /\ e = d THEN l ELSE nLocal[v][e]
    BY <2>1 DEF NvrTypes
  <2>4. /\ nOverlapped \subseteq nOverlapped'
        /\ d \notin nOverlapped' => \A v \in N!Workers \ {w} : ~N!L!Holding(v, d)
    BY <1>2 DEF N!ReadDate
  <2>5. l.date = <<nRow[d].date>>
    BY DEF N!Nothing
  <2> HIDE DEF l
  <2>6. OneNvrCheck'
    <3> SUFFICES ASSUME NEW e \in nRegistered \ nOverlapped',
                        NEW u \in N!Workers, NEW v \in N!Workers,
                        N!L!Holding(u, e)', N!L!Holding(v, e)'
                 PROVE  u = v
      BY <2>1 DEF OneNvrCheck
    <3>1. e \in Nvrs
      BY DEF NvrTypes
    <3>2. CASE e = d
      BY <2>2, <2>4, <3>1, <3>2 DEF N!L!Holding, N!L!Ended
    <3>3. CASE e # d
      BY <2>2, <2>4, <3>1, <3>3 DEF N!L!Holding, NvrInv, OneNvrCheck
    <3> QED BY <3>2, <3>3
  <2>7. NvrReadsTrue'
    BY <2>1, <2>2, <2>3, <2>4, <2>5 DEF NvrInv, NvrReadsTrue, NvrTypes
  <2>8. NvrRowsNew' /\ N!RecordingDated'
    BY <2>1, <2>4 DEF NvrInv, NvrRowsNew, N!RecordingDated
  <2> QED BY <2>6, <2>7, <2>8 DEF NvrInv
<1>3. ASSUME NEW new \in N!States, NEW s \in {"saving", "handling"}, N!Load(w, d, new, s),
             nStage[w][d] = "asking",
             d \in nRegistered \ nOverlapped => new \in NvrOutcomes(nRow[d])
      PROVE  NvrInv'
  <2>1. /\ N!L!MoveTo(w, d, s) /\ nLocal' = [nLocal EXCEPT ![w][d] = N!Changes(nRow[d], new)]
        /\ nRegistered' = nRegistered /\ nRow' = nRow /\ nOverlapped' = nOverlapped
    BY <1>3 DEF N!Load, N!deviceVars
  <2>2. \A v \in N!Workers, e \in Nvrs :
          nStage'[v][e] = IF v = w /\ e = d THEN s ELSE nStage[v][e]
    BY <1>3, <2>1, NvrMoved DEF NvrTypes, NvrStages
  <2>3. \A v \in N!Workers, e \in Nvrs :
          nLocal'[v][e] = IF v = w /\ e = d THEN N!Changes(nRow[d], new) ELSE nLocal[v][e]
    BY <2>1 DEF NvrTypes
  <2>4. N!Flush(nRow[d], N!Changes(nRow[d], new)) = new
    BY <1>0, <1>3, NvrFlushChanges
  <2>5. OneNvrCheck'
    BY <1>3, <2>1, <2>2 DEF NvrInv, OneNvrCheck, N!L!Holding, N!L!Ended, NvrTypes
  <2>6. NvrReadsTrue'
    <3> SUFFICES ASSUME NEW e \in nRegistered \ nOverlapped, NEW v \in N!Workers
                 PROVE  /\ nStage'[v][e] = "asking" => nLocal'[v][e].date = <<nRow[e].date>>
                        /\ nStage'[v][e] \in {"saving", "handling"} =>
                               N!Flush(nRow[e], nLocal'[v][e]) \in NvrOutcomes(nRow[e])
      BY <2>1 DEF NvrReadsTrue
    <3>1. e \in Nvrs
      BY DEF NvrTypes
    <3>2. CASE e = d /\ v = w
      BY <1>3, <2>2, <2>3, <2>4, <3>2
    <3>3. CASE ~(e = d /\ v = w)
      BY <2>2, <2>3, <3>1, <3>3 DEF NvrInv, NvrReadsTrue
    <3> QED BY <3>2, <3>3
  <2>7. NvrRowsNew' /\ N!RecordingDated'
    BY <2>1 DEF NvrInv, NvrRowsNew, N!RecordingDated
  <2> QED BY <2>5, <2>6, <2>7 DEF NvrInv
<1>4. nRow[d].date \in N!Stamps \cup {None, "N/A"}
      /\ nRow[d].capacity \in {None, "placeholder", "read"}
  BY <1>0 DEF N!States
<1>5. CASE N!Answered(w, d)
  <2>1. PICK recording \in BOOLEAN, tells \in BOOLEAN, now \in N!Stamps \ {nRow[d].date} :
          N!Load(w, d,
             [recording |-> recording,
              date      |-> N!DateAfter(recording, nLocal[w][d].date[1], now),
              capacity  |-> IF tells THEN "read" ELSE N!Placeholder(nRow[d].capacity)],
             "saving")
    BY <1>5 DEF N!Answered
  <2> DEFINE new == [recording |-> recording,
                     date      |-> N!DateAfter(recording, nLocal[w][d].date[1], now),
                     capacity  |-> IF tells THEN "read" ELSE N!Placeholder(nRow[d].capacity)]
  <2>2. nStage[w][d] = "asking" /\ nLocal[w][d].date[1] \in N!Stamps \cup {None, "N/A"}
    BY <1>0, <1>5 DEF N!Answered, NvrTypes, NvrLocals, Optional
  <2>3. N!DateAfter(recording, nLocal[w][d].date[1], now) \in N!Stamps \cup {None, "N/A"}
    BY <2>2, DateAfterType
  <2>4. (IF tells THEN "read" ELSE N!Placeholder(nRow[d].capacity)) \in {None, "placeholder", "read"}
    BY <1>4, PlaceholderType
  <2>5. new \in N!States
    BY <2>3, <2>4 DEF N!States
  <2>6. ASSUME d \in nRegistered \ nOverlapped PROVE new \in NvrOutcomes(nRow[d])
    <3>1. nLocal[w][d].date = <<nRow[d].date>>
      BY <2>2, <2>6 DEF NvrInv, NvrReadsTrue
    <3>2. new = NvrNews(nRow[d], recording, tells, now)
      BY <3>1 DEF NvrNews
    <3> HIDE DEF new
    <3> QED BY <3>2 DEF NvrOutcomes
  <2> QED BY <1>3, <2>1, <2>2, <2>5, <2>6
<1>6. CASE N!Unanswered(w, d)
  <2>1. NvrNoNews(nRow[d]) \in N!States
    BY <1>0, <1>4, PlaceholderType DEF NvrNoNews, N!States
  <2>2. \E s \in {"saving", "handling"} : N!Load(w, d, NvrNoNews(nRow[d]), s)
    BY <1>6 DEF N!Unanswered, NvrNoNews
  <2>3. nStage[w][d] = "asking" /\ NvrNoNews(nRow[d]) \in NvrOutcomes(nRow[d])
    BY <1>6 DEF N!Unanswered, NvrOutcomes
  <2> QED BY <1>3, <2>1, <2>2, <2>3
<1>7. ASSUME NEW s \in {"none", "failed"}, N!EndCheck(w, d, s)
      PROVE  /\ \A v \in N!Workers, e \in Nvrs :
                   nStage'[v][e] = IF v = w /\ e = d THEN s ELSE nStage[v][e]
             /\ \A v \in N!Workers, e \in Nvrs :
                   nLocal'[v][e] = IF v = w /\ e = d THEN N!Nothing ELSE nLocal[v][e]
  BY <1>7, NvrMoved DEF N!EndCheck, NvrTypes, NvrStages
<1>8. CASE N!NotSaved(w, d)
  BY <1>7, <1>8, NvrQuiet DEF N!NotSaved, N!deviceVars, N!L!Holding, N!L!Ended
<1>9. CASE N!CheckRaises(w, d)
  BY <1>7, <1>9, NvrQuiet DEF N!CheckRaises, N!deviceVars, N!L!Holding, N!L!Ended
<1>10. CASE N!Save(w, d)
  <2>1. /\ N!EndCheck(w, d, "none") /\ nStage[w][d] \in {"saving", "handling"}
        /\ d \in nRegistered
        /\ nRegistered' = nRegistered /\ nOverlapped' = nOverlapped
        /\ nRow' = [nRow EXCEPT ![d] = N!Flush(nRow[d], nLocal[w][d])]
    BY <1>10 DEF N!Save
  <2>2. \A e \in Nvrs : nRow'[e] = IF e = d THEN N!Flush(nRow[d], nLocal[w][d]) ELSE nRow[e]
    BY <2>1 DEF NvrTypes
  <2>3. d \notin nOverlapped => \A v \in N!Workers : N!L!Holding(v, d) => v = w
    BY <2>1 DEF NvrInv, OneNvrCheck, N!L!Holding, N!L!Ended
  <2>4. OneNvrCheck'
    BY <1>7, <2>1 DEF NvrInv, OneNvrCheck, N!L!Holding, N!L!Ended, NvrTypes
  <2>5. NvrReadsTrue'
    <3> SUFFICES ASSUME NEW e \in nRegistered \ nOverlapped, NEW v \in N!Workers
                 PROVE  /\ nStage'[v][e] = "asking" => nLocal'[v][e].date = <<nRow'[e].date>>
                        /\ nStage'[v][e] \in {"saving", "handling"} =>
                               N!Flush(nRow'[e], nLocal'[v][e]) \in NvrOutcomes(nRow'[e])
      BY <2>1 DEF NvrReadsTrue
    <3>1. e \in Nvrs
      BY DEF NvrTypes
    <3>2. CASE e = d
      BY <1>7, <2>1, <2>3, <3>1, <3>2 DEF N!L!Holding, N!L!Ended
    <3>3. CASE e # d
      BY <1>7, <2>1, <2>2, <3>1, <3>3 DEF NvrInv, NvrReadsTrue
    <3> QED BY <3>2, <3>3
  <2>6. NvrRowsNew'
    BY <2>1, <2>2 DEF NvrInv, NvrRowsNew
  <2>7. N!RecordingDated'
    <3> SUFFICES ASSUME NEW e \in nRegistered \ nOverlapped
                 PROVE  nRow'[e].recording => nRow'[e].date \in N!Stamps
      BY <2>1 DEF N!RecordingDated, N!Dated, N!Stamps
    <3>1. e \in Nvrs
      BY DEF NvrTypes
    <3>2. CASE e = d
      BY <1>0, <2>1, <2>2, <3>2, NvrOutcome DEF NvrInv, NvrReadsTrue, N!RecordingDated, N!Dated
    <3>3. CASE e # d
      BY <2>2, <3>1, <3>3 DEF NvrInv, N!RecordingDated, N!Dated
    <3> QED BY <3>2, <3>3
  <2> QED BY <2>4, <2>5, <2>6, <2>7 DEF NvrInv
<1> QED BY <1>1, <1>2, <1>5, <1>6, <1>8, <1>9, <1>10 DEF NvrCheck, N!CheckGoesOn

\* At first no check is under way.
LEMMA NvrInvInit == N!Init => NvrInv
<1> SUFFICES ASSUME N!Init PROVE NvrInv
  OBVIOUS
<1>1. nRegistered \subseteq Nvrs /\ \A d \in Nvrs : N!Dated(nRow[d])
  BY NvrAssumption DEF N!Init
<1>2. OneNvrCheck /\ NvrReadsTrue
  BY <1>1 DEF N!Init, N!L!LoopInit, N!L!Holding, N!L!Ended, OneNvrCheck, NvrReadsTrue
<1>3. NvrRowsNew
  BY DEF N!Init, NvrRowsNew
<1>4. N!RecordingDated
  BY <1>1 DEF N!RecordingDated
<1> QED BY <1>2, <1>3, <1>4 DEF NvrInv

\* Every step keeps the invariant.
LEMMA NvrInvStep == NvrTypes /\ NvrInv /\ [N!Next]_(N!vars) => NvrInv'
<1> SUFFICES ASSUME NvrTypes, NvrInv, [N!Next]_(N!vars) PROVE NvrInv'
  OBVIOUS
<1>1. ASSUME NEW d \in Nvrs, N!CreateDevice(d) PROVE NvrInv'
  <2>1. \A w \in N!Workers : ~N!L!Holding(w, d)
    BY <1>1 DEF N!CreateDevice, N!L!Holding
  <2>2. nRegistered' = nRegistered \cup {d} /\ UNCHANGED <<nRow, nStage, nLocal, nOverlapped>>
    BY <1>1 DEF N!CreateDevice
  <2>3. nRow[d] = N!NewDevice
    BY <1>1 DEF N!CreateDevice, NvrInv, NvrRowsNew
  <2>4. OneNvrCheck'
    BY <2>1, <2>2 DEF NvrInv, OneNvrCheck, N!L!Holding
  <2>5. NvrReadsTrue'
    BY <2>1, <2>2 DEF NvrInv, NvrReadsTrue, N!L!Holding, N!L!Ended
  <2>6. NvrRowsNew'
    BY <2>2, <2>3 DEF NvrInv, NvrRowsNew
  <2>7. N!RecordingDated'
    BY <2>2, <2>3 DEF NvrInv, N!RecordingDated, N!Dated, N!NewDevice
  <2> QED BY <2>4, <2>5, <2>6, <2>7 DEF NvrInv
<1>2. ASSUME NEW d \in Nvrs, N!UpdateDevice(d) PROVE NvrInv'
  BY <1>2, NvrQuiet DEF N!UpdateDevice, N!L!Holding
<1>3. ASSUME NEW d \in Nvrs, N!DeleteDevice(d) PROVE NvrInv'
  <2>1. /\ nRegistered' = nRegistered \ {d} /\ nOverlapped' = nOverlapped \ {d}
        /\ UNCHANGED <<nStage, nLocal>>
        /\ \A e \in Nvrs : nRow'[e] = IF e = d THEN N!NewDevice ELSE nRow[e]
    BY <1>3 DEF N!DeleteDevice, NvrTypes
  <2>2. \A e \in nRegistered' \ nOverlapped' :
          e \in nRegistered \ nOverlapped /\ nRow'[e] = nRow[e]
    BY <2>1 DEF NvrTypes
  <2>3. OneNvrCheck'
    BY <2>1, <2>2 DEF NvrInv, OneNvrCheck, N!L!Holding
  <2>4. NvrReadsTrue'
    BY <2>1, <2>2 DEF NvrInv, NvrReadsTrue
  <2>5. NvrRowsNew' /\ N!RecordingDated'
    BY <2>1, <2>2 DEF NvrInv, NvrRowsNew, N!RecordingDated
  <2> QED BY <2>3, <2>4, <2>5 DEF NvrInv
<1>4. ASSUME NEW w \in N!Workers, NEW d \in Nvrs, NvrCheck(w, d) PROVE NvrInv'
  BY <1>4, NvrInvCheck
<1>5. CASE N!Loop
  <2>1. N!L!LoopStep(nRegistered) /\ UNCHANGED <<N!deviceVars, nLocal, nOverlapped>>
    BY <1>5 DEF N!Loop
  <2> QED BY <2>1, NvrLoopMoves, NvrQuiet DEF N!deviceVars
<1>6. CASE N!Shutdown
  <2>1. N!L!Shutdown /\ UNCHANGED <<N!deviceVars, nOverlapped>>
    BY <1>6 DEF N!Shutdown
  <2>2. \A w \in N!Workers, e \in Nvrs : N!L!Holding(w, e)' => nLocal'[w][e] = nLocal[w][e]
    BY <1>6 DEF N!Shutdown, N!L!Shutdown, NvrTypes, N!L!Holding, N!L!Ended
  <2> QED BY <2>1, <2>2, NvrLoopMoves, NvrQuiet DEF N!deviceVars
<1>7. CASE UNCHANGED N!vars
  BY <1>7, NvrQuiet DEF N!vars, N!deviceVars, N!L!Holding
<1> QED BY <1>1, <1>2, <1>3, <1>4, <1>5, <1>6, <1>7, NvrCheckSteps

\* So it holds in every state.
LEMMA NvrInvAlways == N!Spec => []NvrInv
BY NvrInvInit, NvrInvStep, NvrTypesAlways, PTL DEF N!Spec

\* No step replaces what was learnt of an NVR by less (check_single_nvr_async), as
\* long as no two checks of it have overlapped.
LEMMA NvrKept == N!Spec => N!ReadingsKept
<1> DEFINE Kept(d) ==
      /\ nRow'[d].date # nRow[d].date => nRow'[d].recording \/ nRow[d].date = None
      /\ nRow[d].capacity = "read" => nRow'[d].capacity = "read"
<1>1. ASSUME NvrTypes, NvrInv, [N!Next]_(N!vars),
             NEW d \in (nRegistered \cap nRegistered') \ nOverlapped'
      PROVE  Kept(d)
  <2>0. d \in Nvrs
    BY <1>1 DEF NvrTypes
  <2>1. CASE nRow' = nRow
    BY <2>1
  <2>2. ASSUME NEW e \in Nvrs, N!DeleteDevice(e) PROVE Kept(d)
    <3>1. d # e
      BY <1>1, <2>2 DEF N!DeleteDevice
    <3>2. nRow'[d] = nRow[d]
      BY <1>1, <2>0, <2>2, <3>1 DEF N!DeleteDevice, NvrTypes
    <3> QED BY <3>2
  <2>3. ASSUME NEW w \in N!Workers, NEW e \in Nvrs, N!Save(w, e) PROVE Kept(d)
    <3>1. nRow' = [nRow EXCEPT ![e] = N!Flush(nRow[e], nLocal[w][e])]
      BY <2>3 DEF N!Save
    <3>2. CASE e # d
      BY <1>1, <2>0, <3>1, <3>2 DEF NvrTypes
    <3>3. CASE e = d
      <4>1. nStage[w][d] \in {"saving", "handling"} /\ d \in nRegistered \ nOverlapped
        BY <1>1, <2>3, <3>3 DEF N!Save
      <4>2. nRow'[d] \in NvrOutcomes(nRow[d])
        BY <1>1, <2>0, <3>1, <3>3, <4>1 DEF NvrInv, NvrReadsTrue, NvrTypes
      <4>3. nRow[d] \in N!States /\ (nRow[d].recording => nRow[d].date \in N!Stamps)
        BY <1>1, <2>0, <4>1 DEF NvrInv, N!RecordingDated, N!Dated, NvrTypes
      <4> QED BY <4>2, <4>3, NvrOutcome
    <3> QED BY <3>2, <3>3
  <2>4. ASSUME NEW w \in N!Workers, NEW e \in Nvrs, NvrCheck(w, e) PROVE Kept(d)
    <3>1. nRow' = nRow \/ N!Save(w, e)
      BY <2>4 DEF NvrCheck, N!Refuse, N!ReadDate, N!CheckGoesOn, N!Answered, N!Unanswered, N!Load,
         N!NotSaved, N!CheckRaises, N!deviceVars
    <3> QED BY <2>1, <2>3, <3>1
  <2>5. CASE \/ \E e \in Nvrs : N!CreateDevice(e) \/ N!UpdateDevice(e)
             \/ N!Loop \/ N!Shutdown \/ UNCHANGED N!vars
    BY <2>1, <2>5 DEF N!CreateDevice, N!UpdateDevice, N!Loop, N!Shutdown, N!deviceVars, N!vars
  <2> HIDE DEF Kept
  <2> QED BY <1>1, <2>2, <2>4, <2>5, NvrCheckSteps
<1>2. NvrTypes /\ NvrInv /\ [N!Next]_(N!vars) =>
          [\A d \in (nRegistered \cap nRegistered') \ nOverlapped' : Kept(d)]_(N!vars)
  BY <1>1
<1> QED BY <1>2, NvrTypesAlways, NvrInvAlways, PTL DEF N!Spec, N!ReadingsKept

-----------------------------------------------------------------------------
(* The web server: each of its parts behaves as specified. *)

\* What one of the three parts does is a step of its own or none.
LEMMA WebParts == WebSpec => Spec /\ N!Spec /\ CameraSpec
<1>1. WebInit => Init /\ N!Init /\ CameraInit
  BY DEF WebInit
<1>2. [WebNext]_allVars => [Next]_vars /\ [N!Next]_(N!vars) /\ [CameraNext]_cameraVars
  BY DEF WebNext, allVars, vars, nVars, N!vars, deviceVars, N!deviceVars
<1> QED BY <1>1, <1>2, PTL DEF WebSpec, Spec, N!Spec, CameraSpec

\* Every variable of the three parts has its type, whichever of them is at work.
THEOREM WebTypesCorrect == WebSpec => []MonitorTypesOK
<1>1. PingTypes /\ NvrTypes /\ CameraTypeOK => MonitorTypesOK
  BY PingTypesSuffice, NvrTypesSuffice DEF MonitorTypesOK
<1> QED BY <1>1, WebParts, PingTypesAlways, NvrTypesAlways, CameraTypeCorrect, PTL

\* An NVR that is shown as recording is shown with a date, whichever of the
\* periodic and the requested checks wrote which column (check_single_nvr_async),
\* unless two of them have overlapped.
THEOREM WebNvrRecordingDated == WebSpec => []NvrRecordingDated
<1>1. NvrInv => NvrRecordingDated
  BY DEF NvrInv, NvrRecordingDated
<1> QED BY <1>1, WebParts, NvrInvAlways, PTL

\* And what was learnt of it is replaced by something newer only.
THEOREM WebNvrReadingsKept == WebSpec => NvrReadingsKept
BY WebParts, NvrKept, PTL DEF NvrReadingsKept
=============================================================================
