------------------------ MODULE DelayedDurabilityProofs ------------------------
(***************************************************************************)
(* What a database that forgets acknowledged commits cannot break, for     *)
(* every journal, chunk size, threshold and number of crashes.             *)
(***************************************************************************)
EXTENDS DelayedDurability, IngestionProofs

-----------------------------------------------------------------------------
(* The inductive invariants *)

\* What NoUnexplainedLoss says, with OffsetInv and GenInv, of any state of the
\* database: the present one, or the one that a crash restores.
HasRow(db, b) == \E e \in db.events : SeqOf[e] = SeqOf[b]

Covered(f, n, db) ==
    /\ db.fstate.gen <= f.gen
    /\ db.fstate.gen = f.gen =>
        /\ db.fstate.offset <= f.len
        /\ \A b \in Blocks : f.first <= b /\ b < n /\ 2 * (b - f.first) + 1 <= db.fstate.offset =>
              HasRow(db, b) \/ b \in Unhandled \/ \E c \in Causes : <<b, c>> \in db.dropped

\* The same of ZeroDataLoss.
Recorded(db) ==
    \A b \in Blocks : <<b, "failed">> \in db.dropped => HasRow(db, b) \/ SeqOf[b] \in db.health

\* A crash to come restores a state of the right types, and is still allowed.
Restorable ==
    flushed # NotBehind =>
        /\ flushed.fstate \in Rows
        /\ flushed.events \subseteq Blocks /\ flushed.live \in Blocks \cup {NoEvent}
        /\ flushed.health \subseteq Nat /\ flushed.dropped \subseteq Blocks \X Causes
        /\ mishaps < MaxMishaps

DurableTypes == TypeOK /\ onlyServer \in BOOLEAN /\ Restorable

\* The scan's memory tells the truth about the database only as long as the
\* scan's connection lives.  A scan that has lost it can save nothing.
CrashInv ==
    /\ JournalInv
    /\ Covered(file, next, Database)
    /\ flushed # NotBehind => Covered(file, next, flushed)
    /\ conn => LossInv

\* If outages are the server's, every failure that the scan is about to save
\* has left a record, but for the one that it is about to log.
FailuresRecorded ==
    conn /\ pc \in {"process", "log"} =>
        \A b \in Blocks : <<b, "failed">> \in tx.lost =>
            SeqStored(b) \/ SeqOf[b] \in health \/ (pc = "log" /\ b = tx.cur)

StopInv ==
    onlyServer =>
        /\ conn => db_up
        /\ Recorded(Database)
        /\ flushed # NotBehind => Recorded(flushed)
        /\ FailuresRecorded

-----------------------------------------------------------------------------
(* Type correctness *)

\* Every step, a crash of the server included, keeps the types.
LEMMA DurableTypeStep == DurableTypes /\ [DurableNext]_durableVars => DurableTypes'
<1> SUFFICES ASSUME DurableTypes, [DurableNext]_durableVars PROVE DurableTypes'
  OBVIOUS
<1>1. CASE IngestionStep
  <2>1. TypeOK' /\ onlyServer' \in BOOLEAN
    BY <1>1, TypeStep DEF IngestionStep, DurableTypes
  <2>2. CASE FallsBehind
    <3>1. flushed' = Database /\ (flushed' # NotBehind => mishaps' < MaxMishaps)
      BY <1>1, <2>2 DEF FallsBehind, IngestionStep
    <3> QED BY <2>1, <3>1 DEF DurableTypes, Restorable, Database, TypeOK
  <2>3. CASE UNCHANGED flushed
    BY <1>1, <2>1, <2>3 DEF DurableTypes, Restorable, IngestionStep
  <2> QED BY <1>1, <2>2, <2>3 DEF IngestionStep
<1>2. CASE ServerCrash
  <2>1. mishaps' \in 0..MaxMishaps
    BY <1>2, SizesAssumption DEF ServerCrash, DurableTypes, Restorable, TypeOK
  <2>2. TypeOK'
    BY <1>2, <2>1 DEF ServerCrash, DurableTypes, Restorable, TypeOK, journalVars, cbVars, CB!CBTypeOK
  <2> QED BY <1>2, <2>2 DEF ServerCrash, DurableTypes, Restorable
<1>3. CASE UNCHANGED durableVars
  <2>1. TypeOK'
    BY <1>3, TypeStep DEF durableVars, DurableTypes
  <2> QED BY <1>3, <2>1 DEF durableVars, vars, DurableTypes, Restorable
<1> QED BY <1>1, <1>2, <1>3 DEF DurableNext

\* Every state of agent and database, and what a crash would restore, has its type.
THEOREM DurableTypeCorrect == DurableSpec => []DurableTypes
<1>1. DurableInit => DurableTypes
  <2>1. Init => TypeOK
    <3>1. 0 \in 0..Threshold
      BY SizesAssumption
    <3>2. Init => CB!CBTypeOK
      BY <3>1, Zenon DEF Init, CB!CBInit, CB!CBTypeOK
    <3>3. Init => /\ file \in [present : BOOLEAN, gen : 1..MaxFiles, first : Nat \ {0}, len : Nat]
                  /\ next \in 1..(NBlocks + 1)
                  /\ mishaps \in 0..MaxMishaps
      BY SizesAssumption DEF Init
    <3> QED BY <3>2, <3>3, NoTxType DEF Init, TypeOK
  <2> QED BY <2>1 DEF DurableInit, DurableTypes, Restorable
<1> QED BY <1>1, DurableTypeStep, PTL DEF DurableSpec

-----------------------------------------------------------------------------
(* No offset on disk passes a block without its row *)

\* For the present state of the database, Covered is the part of LossInv that
\* does not speak of the scan.
LEMMA CoveredNow ==
    ASSUME TypeOK
    PROVE  Covered(file, next, Database)
              <=> OffsetInv /\ NoUnexplainedLoss /\ fstate.gen <= file.gen
BY DEF Covered, HasRow, Database, OffsetInv, NoUnexplainedLoss, Written, HeadLine, SeqStored, Excused

\* It stays true of a state of the database while the journal goes on: the ATM
\* appends past every offset, and a new file has a generation of its own.
LEMMA JournalKeepsCovered ==
    ASSUME TypeOK, JournalInv, NEW db, db.fstate \in Rows, Covered(file, next, db),
           AppendLine \/ RemoveFile \/ ReplaceFile
    PROVE  JournalInv' /\ Covered(file', next', db)
<1>1. CASE AppendLine
  <2>1. /\ file'.gen = file.gen /\ file'.first = file.first /\ file'.len = file.len + 1
        /\ next' = IF MidBlock THEN next ELSE next + 1
    BY <1>1 DEF AppendLine, TypeOK
  <2>2. JournalInv'
    BY <2>1 DEF JournalInv, MidBlock, HeadLine, TypeOK
  <2>3. db.fstate.offset \in Nat /\ file.len \in Nat /\ file.first \in Nat /\ next \in Nat
    BY DEF TypeOK, Rows
  <2>4. \A b \in Blocks : file.first <= b /\ b < next' /\ 2 * (b - file.first) + 1 <= file.len => b < next
    BY <2>1, <2>3 DEF JournalInv, MidBlock, HeadLine, Blocks
  <2>5. db.fstate.gen = file.gen => db.fstate.offset <= file.len + 1
    BY <2>3 DEF Covered
  <2>6. ASSUME db.fstate.gen = file.gen, NEW b \in Blocks, file.first <= b, b < next',
               2 * (b - file.first) + 1 <= db.fstate.offset
        PROVE  HasRow(db, b) \/ b \in Unhandled \/ \E c \in Causes : <<b, c>> \in db.dropped
    <3>1. 2 * (b - file.first) + 1 <= file.len
      BY <2>3, <2>6 DEF Covered, Blocks
    <3> QED BY <2>4, <2>6, <3>1 DEF Covered
  <2> QED BY <2>1, <2>2, <2>5, <2>6 DEF Covered
<1>2. CASE RemoveFile
  <2>1. file'.gen = file.gen /\ file'.first = file.first /\ file'.len = file.len /\ next' = next
    BY <1>2 DEF RemoveFile, TypeOK
  <2> QED BY <2>1 DEF JournalInv, Covered
<1>3. CASE ReplaceFile
  <2>1. file'.gen = file.gen + 1 /\ file'.first = next /\ file'.len = 0 /\ next' = next
    BY <1>3 DEF ReplaceFile
  <2>2. db.fstate.gen <= file'.gen /\ db.fstate.gen # file'.gen
    BY <2>1 DEF Covered, TypeOK, Rows
  <2> QED BY <2>1, <2>2 DEF JournalInv, Covered, TypeOK
<1> QED BY <1>1, <1>2, <1>3

\* A step of the agent without its connection, or of the database alone, saves
\* no offset.
LEMMA CannotSave ==
    ASSUME TypeOK, Next, ~conn, ~(AppendLine \/ RemoveFile \/ ReplaceFile)
    PROVE  /\ UNCHANGED <<file, next, fstate, dropped>> /\ events \subseteq events'
           /\ conn' => LoadFileState
<1>0. LoseDatabase => ~conn'
  <2>1. conn = FALSE
    BY DEF TypeOK
  <2> QED BY <2>1 DEF LoseDatabase
<1>1. CASE Outage \/ Recover \/ Crash \/ Restart \/ CooldownElapses
  BY <1>0, <1>1 DEF Outage, Recover, Crash, Restart, CooldownElapses, CloseSession,
              journalVars, storeVars, scanVars
<1>2. CASE BeginScan \/ LoadFileState \/ LoadFails \/ FileVanished \/ CreateFails
  BY <1>2 DEF BeginScan, LoadFileState, LoadFails, FileVanished, CreateFails,
              DatabaseError, EndScan, CloseSession, journalVars, storeVars
<1>3. CASE ReadAppendedLines \/ ReadNothing \/ CommitNothing \/ CommitNothingFails
  BY <1>3 DEF ReadAppendedLines, ReadNothing, CommitNothing, CommitNothingFails,
              DatabaseError, CloseSession, journalVars, storeVars
<1>4. CASE ProcessEvent
  BY <1>0, <1>4 DEF ProcessEvent, SkipDuplicate, StoreEvent, EventFails, EventAckLost, WriteEvent,
              journalVars, storeVars
<1>5. CASE LogHealthError \/ SaveFileState \/ SaveFails \/ SaveAckLost
  BY <1>5 DEF LogHealthError, SaveFileState, SaveFails, SaveAckLost, DatabaseError, CloseSession,
              journalVars, storeVars
<1>6. CASE DetectRotation
  BY <1>6 DEF DetectRotation, journalVars, storeVars
<1> QED BY <1>1, <1>2, <1>3, <1>4, <1>5, <1>6 DEF Next, Scan, Environment

\* The journal moves with the ATM only.
LEMMA JournalMoves ==
    Next => AppendLine \/ RemoveFile \/ ReplaceFile \/ UNCHANGED <<file, next>>
BY DEF Next, Scan, Environment, BeginScan, LoadFileState, LoadFails, FileVanished, DetectRotation,
       CreateFails, ReadAppendedLines, ReadNothing, CommitNothing, CommitNothingFails, ProcessEvent,
       SkipDuplicate, StoreEvent, EventFails, EventAckLost, LogHealthError, SaveFileState, SaveFails,
       SaveAckLost, Outage, Recover, Crash, Restart, CooldownElapses, journalVars

\* The states of the database, present and restorable, stay covered by a step of
\* Ingestion, and a scan that has its connection knows the truth.
LEMMA StepKeepsCrashInv == DurableTypes /\ CrashInv /\ IngestionStep => CrashInv'
<1> SUFFICES ASSUME DurableTypes, CrashInv, IngestionStep PROVE CrashInv'
  OBVIOUS
<1> TypeOK /\ TypeOK' /\ Next
  BY TypeStep DEF DurableTypes, IngestionStep
<1>1. JournalInv' /\ Covered(file', next', Database') /\ (conn' => LossInv')
  <2>1. CASE conn
    <3>1. LossInv'
      BY <2>1, LossStep DEF CrashInv
    <3>2. OffsetInv' /\ NoUnexplainedLoss' /\ fstate'.gen <= file'.gen /\ JournalInv'
      BY <3>1 DEF LossInv, GenInv
    <3>3. Covered(file', next', Database')
      BY <3>2 DEF Covered, HasRow, Database, OffsetInv, NoUnexplainedLoss, Written, HeadLine,
                  SeqStored, Excused
    <3> QED BY <3>1, <3>2, <3>3
  <2>2. CASE ~conn /\ (AppendLine \/ RemoveFile \/ ReplaceFile)
    <3>1. Database' = Database /\ conn' = conn
      BY <2>2 DEF AppendLine, RemoveFile, ReplaceFile, Database, storeVars, scanVars
    <3>2. Database.fstate \in Rows
      BY DEF Database, TypeOK
    <3> QED BY <2>2, <3>1, <3>2, JournalKeepsCovered DEF CrashInv
  <2>3. CASE ~conn /\ ~(AppendLine \/ RemoveFile \/ ReplaceFile)
    <3>1. UNCHANGED <<file, next, fstate, dropped>> /\ events \subseteq events' /\ (conn' => LoadFileState)
      BY <2>3, CannotSave
    <3>2. JournalInv' /\ Covered(file', next', Database')
      BY <3>1 DEF CrashInv, JournalInv, Covered, HasRow, Database
    <3>3. ASSUME conn' PROVE LossInv'
      <4>1. pc' = "check" /\ tx'.row = fstate /\ tx'.gen = 0
        BY <3>1, <3>3 DEF LoadFileState, NoTx
      <4>2. RowInv' /\ BatchInv' /\ tx'.gen <= file'.gen
        BY <3>1, <4>1 DEF RowInv, BatchInv, TypeOK
      <4>3. OffsetInv' /\ NoUnexplainedLoss' /\ fstate'.gen <= file'.gen
        BY <3>2 DEF Covered, HasRow, Database, OffsetInv, NoUnexplainedLoss, Written, HeadLine,
                    SeqStored, Excused
      <4> QED BY <3>2, <4>2, <4>3 DEF LossInv, GenInv
    <3> QED BY <3>2, <3>3
  <2> QED BY <2>1, <2>2, <2>3
<1>2. ASSUME flushed' # NotBehind PROVE Covered(file', next', flushed')
  <2>1. ASSUME NEW db, db.fstate \in Rows, Covered(file, next, db)
        PROVE  Covered(file', next', db)
    BY <2>1, JournalMoves, JournalKeepsCovered DEF CrashInv
  <2>2. CASE FallsBehind
    <3>1. flushed' = Database /\ Database.fstate \in Rows
      BY <2>2 DEF FallsBehind, Database, TypeOK
    <3> QED BY <2>1, <3>1 DEF CrashInv
  <2>3. CASE UNCHANGED flushed
    BY <1>2, <2>1, <2>3 DEF CrashInv, DurableTypes, Restorable
  <2> QED BY <2>2, <2>3 DEF IngestionStep
<1> QED BY <1>1, <1>2 DEF CrashInv

\* A crash restores what was covered, and takes the scan's connection with it.
LEMMA CrashKeepsCrashInv == CrashInv /\ ServerCrash => CrashInv'
<1> SUFFICES ASSUME CrashInv, ServerCrash PROVE CrashInv'
  OBVIOUS
<1>1. JournalInv' /\ ~conn' /\ flushed' = NotBehind /\ file' = file /\ next' = next
  BY DEF CrashInv, JournalInv, ServerCrash, journalVars
<1>2. /\ Database'.fstate = flushed.fstate /\ Database'.events = flushed.events
      /\ Database'.dropped = flushed.dropped /\ flushed # NotBehind
  BY DEF ServerCrash, Database
<1>3. Covered(file', next', Database')
  BY <1>1, <1>2 DEF CrashInv, Covered, HasRow
<1> QED BY <1>1, <1>3 DEF CrashInv

\* NoLossOnServerCrash (process_file, optimize_db.py): a saved offset never passes
\* a block whose row a crash of the server has undone.
THEOREM NoLossAfterCrash == DurableSpec => []NoLossOnServerCrash
<1>1. DurableTypes /\ DurableInit => CrashInv
  BY DEF DurableInit, Init, DurableTypes, TypeOK, CrashInv, JournalInv, Covered, HasRow, Database, NoRow
<1>2. DurableTypes /\ CrashInv /\ [DurableNext]_durableVars => CrashInv'
  <2>1. CrashInv /\ UNCHANGED durableVars => CrashInv'
    BY DEF durableVars, vars, journalVars, storeVars, scanVars, CrashInv, JournalInv, Database,
           LossInv, RowInv, BatchInv, OffsetInv, GenInv, NoUnexplainedLoss, Written, HeadLine,
           SeqStored, Excused
  <2> QED BY <2>1, StepKeepsCrashInv, CrashKeepsCrashInv DEF DurableNext
<1>3. DurableTypes /\ CrashInv => NoLossOnServerCrash
  BY CoveredNow DEF DurableTypes, CrashInv, NoLossOnServerCrash
<1> QED BY <1>1, <1>2, <1>3, DurableTypeCorrect, PTL DEF DurableSpec

-----------------------------------------------------------------------------
(* A failure that is saved has left a record *)

\* Rows and records are never taken back, and failures are saved with the offset.
LEMMA OnlySavesDrop ==
    Next => /\ events \subseteq events' /\ health \subseteq health'
            /\ \/ dropped' = dropped
               \/ AtSave /\ conn /\ dropped' = dropped \cup tx.lost
<1> SUFFICES ASSUME Next
             PROVE  /\ events \subseteq events' /\ health \subseteq health'
                    /\ \/ dropped' = dropped
                       \/ AtSave /\ conn /\ dropped' = dropped \cup tx.lost
  OBVIOUS
<1>1. CASE Environment
  BY <1>1 DEF Environment, AppendLine, RemoveFile, ReplaceFile, Outage, Recover, Crash, Restart,
              CooldownElapses, storeVars
<1>2. CASE BeginScan \/ LoadFileState \/ LoadFails \/ FileVanished \/ DetectRotation \/ CreateFails
           \/ ReadAppendedLines \/ ReadNothing \/ CommitNothing \/ CommitNothingFails
  BY <1>2 DEF BeginScan, LoadFileState, LoadFails, FileVanished, DetectRotation, CreateFails,
              ReadAppendedLines, ReadNothing, CommitNothing, CommitNothingFails, storeVars
<1>3. CASE ProcessEvent \/ LogHealthError
  BY <1>3 DEF ProcessEvent, SkipDuplicate, StoreEvent, EventFails, EventAckLost, WriteEvent,
              LogHealthError, storeVars
<1>4. CASE SaveFileState \/ SaveFails \/ SaveAckLost
  BY <1>4 DEF SaveFileState, SaveFails, SaveAckLost, WriteFileState, storeVars
<1> QED BY <1>1, <1>2, <1>3, <1>4 DEF Next, Scan

\* What is recorded stays recorded.
LEMMA RecordsStay ==
    ASSUME events \subseteq events', health \subseteq health', NEW b,
           SeqStored(b) \/ SeqOf[b] \in health
    PROVE  SeqStored(b)' \/ SeqOf[b] \in health'
BY DEF SeqStored

\* A scan with a connection that fails with the server records each failure
\* before it goes on.
LEMMA FailuresStep ==
    ASSUME TypeOK, FailuresRecorded, conn => db_up, db_up /\ ~db_up' => ~conn', Next
    PROVE  FailuresRecorded'
<1> SUFFICES ASSUME conn', pc' \in {"process", "log"}, NEW b \in Blocks, <<b, "failed">> \in tx'.lost
             PROVE  SeqStored(b)' \/ SeqOf[b] \in health' \/ (pc' = "log" /\ b = tx'.cur)
  BY DEF FailuresRecorded
<1> events \subseteq events' /\ health \subseteq health'
  BY OnlySavesDrop
<1>1. conn
  <2>1. CASE ~conn /\ ~(AppendLine \/ RemoveFile \/ ReplaceFile)
    BY <2>1, CannotSave DEF LoadFileState
  <2>2. CASE AppendLine \/ RemoveFile \/ ReplaceFile
    BY <2>2 DEF AppendLine, RemoveFile, ReplaceFile, scanVars
  <2> QED BY <2>1, <2>2
<1>2. db_up /\ db_up'
  BY <1>1
<1>3. CASE UNCHANGED <<pc, tx>>
  BY <1>1, <1>3, RecordsStay DEF FailuresRecorded
<1>4. CASE Environment
  BY <1>3, <1>4 DEF Environment, AppendLine, RemoveFile, ReplaceFile, Outage, Recover, Crash, Restart,
                    CooldownElapses, scanVars
<1>5. CASE BeginScan \/ LoadFileState \/ LoadFails \/ FileVanished \/ DetectRotation \/ CreateFails
           \/ ReadNothing \/ CommitNothing \/ CommitNothingFails \/ SaveFileState \/ SaveFails \/ SaveAckLost
  BY <1>5 DEF BeginScan, LoadFileState, LoadFails, FileVanished, DetectRotation, CreateFails,
              ReadNothing, CommitNothing, CommitNothingFails, SaveFileState, SaveFails, SaveAckLost,
              DatabaseError, EndScan
<1>6. CASE ReadAppendedLines
  <2>1. tx'.lost = PassedOver(ReadFrom, ReadTo)
    BY <1>6 DEF ReadAppendedLines, TypeOK
  <2> QED BY <2>1 DEF PassedOver
<1>7. CASE ProcessEvent
  <2> PICK e \in pending : SkipDuplicate(e) \/ StoreEvent(e) \/ EventFails(e) \/ EventAckLost(e)
    BY <1>7 DEF ProcessEvent
  <2>1. CASE SkipDuplicate(e) \/ StoreEvent(e)
    BY <1>3, <2>1 DEF SkipDuplicate, StoreEvent
  <2>2. CASE EventFails(e)
    <3>1. pc = "process" /\ pc' = "log" /\ tx'.lost = tx.lost \cup {<<e, "failed">>} /\ tx'.cur = e
      BY <2>2 DEF EventFails, IsNext, GiveUp, TypeOK
    <3> QED BY <1>1, <3>1, RecordsStay DEF FailuresRecorded
  <2>3. CASE EventAckLost(e)
    BY <1>2, <2>3 DEF EventAckLost, LoseDatabase
  <2> QED BY <2>1, <2>2, <2>3
<1>8. CASE LogHealthError
  <2>1. pc = "log" /\ tx' = tx /\ SeqOf[tx.cur] \in health'
    BY <1>2, <1>8 DEF LogHealthError
  <2> QED BY <1>1, <2>1, RecordsStay DEF FailuresRecorded
<1> QED BY <1>4, <1>5, <1>6, <1>7, <1>8 DEF Next, Scan

\* Every step of agent and database keeps the failures recorded, in the present
\* state and in the one that a crash restores.
LEMMA StepKeepsStopInv == DurableTypes /\ StopInv /\ IngestionStep => StopInv'
<1> SUFFICES ASSUME DurableTypes, StopInv, IngestionStep, onlyServer'
             PROVE  /\ conn' => db_up'
                    /\ Recorded(Database')
                    /\ flushed' # NotBehind => Recorded(flushed')
                    /\ FailuresRecorded'
  BY DEF StopInv
<1>1. /\ TypeOK /\ Next /\ (db_up /\ ~db_up' => ~conn')
      /\ conn => db_up
      /\ Recorded(Database) /\ (flushed # NotBehind => Recorded(flushed)) /\ FailuresRecorded
  BY DEF DurableTypes, StopInv, IngestionStep
<1>2. conn' => db_up'
  <2>1. CASE AppendLine \/ RemoveFile \/ ReplaceFile
    BY <1>1, <2>1 DEF AppendLine, RemoveFile, ReplaceFile, scanVars
  <2>2. CASE ~conn /\ ~(AppendLine \/ RemoveFile \/ ReplaceFile)
    BY <1>1, <2>2, CannotSave DEF LoadFileState
  <2>3. CASE conn
    BY <1>1, <2>3
  <2> QED BY <2>1, <2>2, <2>3
<1>3. Recorded(Database')
  <2> SUFFICES ASSUME NEW b \in Blocks, <<b, "failed">> \in dropped'
               PROVE  SeqStored(b)' \/ SeqOf[b] \in health'
    BY DEF Recorded, HasRow, Database, SeqStored
  <2>1. CASE <<b, "failed">> \in dropped
    <3>1. SeqStored(b) \/ SeqOf[b] \in health
      BY <1>1, <2>1 DEF Recorded, HasRow, Database, SeqStored
    <3> QED BY <1>1, <3>1, OnlySavesDrop, RecordsStay
  <2>2. CASE AtSave /\ conn /\ <<b, "failed">> \in tx.lost
    <3>1. SeqStored(b) \/ SeqOf[b] \in health
      BY <1>1, <2>2 DEF AtSave, FailuresRecorded
    <3> QED BY <1>1, <3>1, OnlySavesDrop, RecordsStay
  <2> QED BY <1>1, <2>1, <2>2, OnlySavesDrop
<1>4. flushed' # NotBehind => Recorded(flushed')
  BY <1>1 DEF IngestionStep, FallsBehind
<1>5. FailuresRecorded'
  BY <1>1, FailuresStep
<1> QED BY <1>2, <1>3, <1>4, <1>5

\* ZeroDataLossOnServerStop (README.md:70): where every outage is the server's, a
\* failed event that the saved offset has passed has a row or a health record,
\* crashes that undo commits included.
THEOREM NoLossOnServerStop == DurableSpec => []ZeroDataLossOnServerStop
<1>1. DurableInit => StopInv
  BY DEF DurableInit, Init, StopInv, Recorded, Database, FailuresRecorded
<1>2. DurableTypes /\ StopInv /\ [DurableNext]_durableVars => StopInv'
  <2>1. StopInv /\ ServerCrash => StopInv'
    <3> SUFFICES ASSUME StopInv, ServerCrash, onlyServer PROVE StopInv'
      BY DEF StopInv, ServerCrash
    <3>1. Recorded(flushed) /\ ~conn' /\ flushed' = NotBehind
      BY DEF StopInv, ServerCrash
    <3>2. Recorded(Database')
      BY <3>1 DEF ServerCrash, Recorded, HasRow, Database
    <3> QED BY <3>1, <3>2 DEF StopInv, FailuresRecorded
  <2>2. StopInv /\ UNCHANGED durableVars => StopInv'
    BY DEF durableVars, vars, storeVars, scanVars, StopInv, Recorded, HasRow, Database,
           FailuresRecorded, SeqStored
  <2> QED BY <2>1, <2>2, StepKeepsStopInv DEF DurableNext
<1>3. StopInv => ZeroDataLossOnServerStop
  BY DEF StopInv, Recorded, HasRow, Database, ZeroDataLossOnServerStop, ZeroDataLoss, SeqStored
<1> QED BY <1>1, <1>2, <1>3, DurableTypeCorrect, PTL DEF DurableSpec
=============================================================================
