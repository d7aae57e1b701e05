--------------------------- MODULE IngestionProofs ---------------------------
(***************************************************************************)
(* Proofs about Ingestion, for every journal, chunk size, threshold and    *)
(* bound.                                                                  *)
(***************************************************************************)
EXTENDS Ingestion, TLAPS

-----------------------------------------------------------------------------
(* The inductive invariant, in parts. *)

\* The file holds header and body of every block from file.first to next - 1,
\* but for the body of the last when the ATM is in the middle of it.
JournalInv ==
    \/ 2 * (next - file.first) = file.len
    \/ 2 * (next - file.first) = file.len + 1 /\ next > file.first

\* The scan's copy of the row is the saved row, or was reset to offset 0.
RowInv ==
    /\ pc = "check" => tx.row = fstate
    /\ pc \in {"read", "nothing"} =>
           /\ tx.row.offset = 0 \/ tx.row = fstate
           /\ tx.row.gen <= file.gen

\* Every block the scan has read past is accounted for, or still pending.
BatchInv ==
    pc \in {"process", "log"} /\ tx.gen = file.gen =>
        /\ tx.to <= file.len
        /\ \A b \in Written : HeadLine(b) <= tx.to =>
               \/ SeqStored(b) \/ Excused(b) \/ b \in pending
               \/ \E c \in Causes : <<b, c>> \in tx.lost

\* The saved offset lies in the file it counts in.
OffsetInv == fstate.gen = file.gen => fstate.offset <= file.len

GenInv == fstate.gen <= file.gen /\ tx.gen <= file.gen

LossInv == JournalInv /\ RowInv /\ BatchInv /\ OffsetInv /\ GenInv /\ NoUnexplainedLoss

\* The file that the saved offset counts in is gone.
Gone == file.gen # fstate.gen \/ ~file.present

\* The saved digest is that of what has been read, or none.
DigestInv ==
    fstate.offset > 0 /\ ~Gone =>
        fstate.hash \in {NoHash, [gen |-> file.gen, len |-> Least(Prefix, fstate.offset)]}

\* The size that the check compares with the offset is not below it, and what
\* the scan is about to save is not either, unless the file is gone or the
\* check could not read it.
SizeInv == pc = "check" /\ ~Gone => fstate.offset <= tx.size
LagInv ==
    /\ pc \in {"read", "nothing"} /\ ~Gone /\ ~tx.unread => fstate.offset <= tx.row.offset
    /\ pc \in {"process", "log"} /\ ~Gone /\ ~tx.unread => fstate.offset <= tx.to

\* Only an existing row has read anything.
ExistsInv == fstate.offset > 0 => fstate.exists

RewindInv == DigestInv /\ SizeInv /\ LagInv /\ ExistsInv

-----------------------------------------------------------------------------
(* Type correctness *)

\* The lesser of two numbers is one of them.
LEMMA LeastType ==
    ASSUME NEW a \in Nat, NEW b \in Nat
    PROVE  Least(a, b) \in Nat /\ Least(a, b) <= a /\ Least(a, b) <= b
  BY DEF Least

\* A digest is that of a file's generation and of as many lines as the prefix has.
LEMMA HashType ==
    ASSUME TypeOK, NEW n \in Nat, n <= Prefix
    PROVE  Digests(n) \subseteq [gen : -1..MaxFiles, len : 0..Prefix]
  BY SizesAssumption DEF Digests, Hash, Least, NoHash, TypeOK

\* A digest that cannot be computed is counted up to the bound.
LEMMA UnreadType ==
    ASSUME TypeOK, NEW n, NEW m, NEW h \in Digests(n), NEW new \in Digests(m),
           \/ NoteUnread(NoHash \in {h, new}) \/ NoteUnread(h = NoHash)
    PROVE  mishaps' \in 0..MaxMishaps
  <1>1. h = NoHash \/ new = NoHash => mishaps < MaxMishaps \/ ~file.present
    BY DEF Digests, Hash, NoHash, TypeOK
  <1> QED BY <1>1, SizesAssumption DEF NoteUnread, TypeOK

\* What a scan holds when it begins has its types.
LEMMA NoTxType ==
    NoTx \in [row : Rows, size : Nat, to : Nat, gen : 0..MaxFiles,
              lost : SUBSET (Blocks \X Causes), cur : Blocks \cup {NoEvent}, unread : BOOLEAN]
    /\ NoRow \in Rows
  BY SizesAssumption DEF NoTx, NoRow, NoHash, Rows

\* Whatever rotation detection makes of the row is a row.
LEMMA CheckedRowType ==
    ASSUME TypeOK, NEW h \in Digests(PrefixLen), NEW new \in Digests(Prefix)
    PROVE  CheckedRow(h, new) \in Rows
  <1>1. PrefixLen \in Nat /\ PrefixLen <= Prefix
    BY SizesAssumption DEF PrefixLen, Least, TypeOK, Rows
  <1>2. {h, new} \subseteq [gen : -1..MaxFiles, len : 0..Prefix]
    BY <1>1, SizesAssumption, HashType
  <1>3. LoadedRow(h) \in Rows
    BY <1>2 DEF LoadedRow, TypeOK, Rows
  <1>4. file.gen \in 0..MaxFiles
    BY DEF TypeOK
  <1> QED BY <1>2, <1>3, <1>4 DEF CheckedRow, Rows

\* Each method of the breaker keeps the types of its fields.
LEMMA CheckType ==
    ASSUME TypeOK
    PROVE  /\ CB!CanExecute => CB!CBTypeOK'
           /\ CB!RecordSuccess => CB!CBTypeOK'
           /\ CB!RecordFailure => CB!CBTypeOK'
           /\ CB!CooldownElapses => CB!CBTypeOK'
  <1>1. CB!CBTypeOK /\ Threshold \in Nat \ {0}
    BY SizesAssumption DEF TypeOK
  <1>2. CB!CanExecute => CB!CBTypeOK'
    BY <1>1 DEF CB!CBTypeOK, CB!CanExecute
  <1>3. 0 \in 0..Threshold
    BY <1>1
  <1>4. CB!RecordSuccess => CB!CBTypeOK'
    BY <1>3, Zenon DEF CB!CBTypeOK, CB!RecordSuccess
  <1>5. CB!RecordFailure => failure_count' \in 0..Threshold
    BY <1>1 DEF CB!CBTypeOK, CB!RecordFailure
  <1>6. CB!RecordFailure => CB!CBTypeOK'
    BY <1>1, <1>5, Zenon DEF CB!CBTypeOK, CB!RecordFailure
  <1>7. CB!CooldownElapses => CB!CBTypeOK'
    BY <1>1 DEF CB!CBTypeOK, CB!CooldownElapses
  <1> QED BY <1>2, <1>4, <1>6, <1>7

\* What a read gives is blocks, and what it passes over is blocks with a cause.
LEMMA ParsedType ==
    ASSUME TypeOK, NEW from \in Nat, NEW to \in Nat
    PROVE  Parsed(from, to) \subseteq Blocks /\ PassedOver(from, to) \subseteq Blocks \X Causes
  BY DEF Parsed, PassedOver, Written, Causes

\* Each action keeps the types.
LEMMA TypeStep == TypeOK /\ [Next]_vars => TypeOK'
  <1> SUFFICES ASSUME TypeOK, [Next]_vars
               PROVE  TypeOK'
    OBVIOUS
  <1>1. CASE AppendLine
    BY <1>1, SizesAssumption DEF AppendLine, MidBlock, TypeOK, Blocks, storeVars, scanVars, cbVars, CB!CBTypeOK
  <1>2. CASE RemoveFile
    BY <1>2 DEF RemoveFile, TypeOK, storeVars, scanVars, cbVars, CB!CBTypeOK
  <1>3. CASE ReplaceFile
    BY <1>3, SizesAssumption DEF ReplaceFile, TypeOK, storeVars, scanVars, cbVars, CB!CBTypeOK
  <1>4. CASE Outage
    BY <1>4 DEF Outage, LoseDatabase, TypeOK, journalVars, storeVars, cbVars, CB!CBTypeOK
  <1>5. CASE Recover
    BY <1>5 DEF Recover, TypeOK, journalVars, storeVars, scanVars, cbVars, CB!CBTypeOK
  <1>6. CASE BeginScan
    BY <1>6, CheckType DEF BeginScan, TypeOK, journalVars, storeVars
  <1>7. CASE LoadFileState
    BY <1>7, NoTxType DEF LoadFileState, TypeOK, journalVars, storeVars, cbVars, CB!CBTypeOK
  <1>8. CASE LoadFails
    BY <1>8, CheckType, NoTxType DEF LoadFails, DatabaseError, CloseSession, TypeOK, journalVars, storeVars
  <1>9. CASE FileVanished
    BY <1>9, NoTxType DEF FileVanished, EndScan, CloseSession, TypeOK, journalVars, storeVars, cbVars, CB!CBTypeOK
  <1>10. CASE DetectRotation
    <2>1. PICK h \in Digests(PrefixLen), new \in Digests(Prefix) :
              /\ tx' = [tx EXCEPT !.row = CheckedRow(h, new), !.size = 0,
                                  !.unread = (h = NoHash /\ Rotated(LoadedRow(h), h))]
              /\ pc' = IF tx.size = CheckedRow(h, new).offset THEN "nothing" ELSE "read"
              /\ NoteUnread(NoHash \in {h, new})
      BY <1>10 DEF DetectRotation
    <2>2. (h = NoHash /\ Rotated(LoadedRow(h), h)) \in BOOLEAN
      BY DEF Rotated
    <2>3. CheckedRow(h, new) \in Rows /\ mishaps' \in 0..MaxMishaps
      BY <2>1, CheckedRowType, UnreadType
    <2>4. tx' \in [row : Rows, size : Nat, to : Nat, gen : 0..MaxFiles,
                  lost : SUBSET (Blocks \X Causes), cur : Blocks \cup {NoEvent}, unread : BOOLEAN]
      BY <2>1, <2>2, <2>3 DEF TypeOK
    <2> QED BY <1>10, <2>1, <2>3, <2>4 DEF DetectRotation, TypeOK, journalVars, storeVars, cbVars, CB!CBTypeOK
  <1>11. CASE CreateFails
    BY <1>11, CheckType, NoTxType DEF CreateFails, DatabaseError, CloseSession, TypeOK, journalVars, storeVars
  <1>12. CASE ReadAppendedLines
    <2>1. ReadFrom \in Nat /\ ReadTo \in Nat
      BY SizesAssumption DEF ReadFrom, ReadTo, Least, TypeOK, Rows
    <2>2. pending' \subseteq Blocks /\ PassedOver(ReadFrom, ReadTo) \subseteq Blocks \X Causes
      BY <1>12, <2>1, ParsedType DEF ReadAppendedLines
    <2>3. tx' \in [row : Rows, size : Nat, to : Nat, gen : 0..MaxFiles,
                  lost : SUBSET (Blocks \X Causes), cur : Blocks \cup {NoEvent}, unread : BOOLEAN]
      <3>1. tx' = [tx EXCEPT !.row = NoRow, !.to = ReadTo, !.gen = file.gen,
                             !.lost = PassedOver(ReadFrom, ReadTo)]
        BY <1>12 DEF ReadAppendedLines
      <3>2. file.gen \in 0..MaxFiles
        BY DEF TypeOK
      <3> QED BY <2>1, <2>2, <3>1, <3>2, NoTxType DEF TypeOK
    <2> QED BY <1>12, <2>2, <2>3 DEF ReadAppendedLines, TypeOK, journalVars, storeVars, cbVars, CB!CBTypeOK
  <1>13. CASE ReadNothing
    BY <1>13 DEF ReadNothing, TypeOK, journalVars, storeVars, cbVars, CB!CBTypeOK
  <1>14. CASE CommitNothing
    BY <1>14, CheckType, NoTxType DEF CommitNothing, EndScan, CloseSession, TypeOK, journalVars, storeVars
  <1>15. CASE CommitNothingFails
    BY <1>15, CheckType, NoTxType DEF CommitNothingFails, DatabaseError, CloseSession, TypeOK, journalVars, storeVars
  <1>16. ASSUME NEW b \in pending, SkipDuplicate(b)
         PROVE  TypeOK'
    BY <1>16 DEF SkipDuplicate, TypeOK, journalVars, storeVars, cbVars, CB!CBTypeOK
  <1>17. ASSUME NEW b \in pending, StoreEvent(b)
         PROVE  TypeOK'
    BY <1>17 DEF StoreEvent, WriteEvent, TypeOK, journalVars, cbVars, CB!CBTypeOK
  <1>18. ASSUME NEW b \in pending
         PROVE  [tx EXCEPT !.lost = @ \cup {<<b, "failed">>}, !.cur = b]
                   \in [row : Rows, size : Nat, to : Nat, gen : 0..MaxFiles,
                        lost : SUBSET (Blocks \X Causes), cur : Blocks \cup {NoEvent}, unread : BOOLEAN]
    <2>1. b \in Blocks /\ <<b, "failed">> \in Blocks \X Causes
      BY DEF TypeOK, Causes
    <2> QED BY <2>1 DEF TypeOK
  <1>19. ASSUME NEW b \in pending, EventFails(b)
         PROVE  TypeOK'
    BY <1>18, <1>19 DEF EventFails, GiveUp, TypeOK, journalVars, storeVars, cbVars, CB!CBTypeOK
  <1>20. ASSUME NEW b \in pending, EventAckLost(b)
         PROVE  TypeOK'
    BY <1>18, <1>20 DEF EventAckLost, LoseDatabase, GiveUp, WriteEvent, TypeOK, journalVars, cbVars, CB!CBTypeOK
  <1>21. CASE LogHealthError
    <2>1. CASE db_up
      <3>1. pc = "log" /\ SeqOf[tx.cur] \in Nat
        BY <1>21, BlocksAssumption DEF LogHealthError, TypeOK
      <3> QED BY <1>21, <2>1, <3>1 DEF LogHealthError, TypeOK, journalVars, storeVars, cbVars, CB!CBTypeOK
    <2>2. CASE ~db_up
      BY <1>21, <2>2 DEF LogHealthError, TypeOK, journalVars, storeVars, cbVars, CB!CBTypeOK
    <2> QED BY <2>1, <2>2
  <1>22. WriteFileState => /\ fstate' \in Rows /\ dropped' \subseteq Blocks \X Causes
                           /\ mishaps' \in 0..MaxMishaps
    <2> SUFFICES ASSUME WriteFileState
                 PROVE  /\ fstate' \in Rows /\ dropped' \subseteq Blocks \X Causes
                        /\ mishaps' \in 0..MaxMishaps
      OBVIOUS
    <2>1. Least(Prefix, tx.to) \in Nat /\ Least(Prefix, tx.to) <= Prefix
      BY SizesAssumption, LeastType DEF TypeOK
    <2>2. SavedHash \subseteq [gen : -1..MaxFiles, len : 0..Prefix]
      BY <2>1, HashType DEF SavedHash
    <2>3. PICK h \in SavedHash :
              /\ fstate' = [exists |-> TRUE, offset |-> tx.to, hash |-> h, gen |-> tx.gen]
              /\ NoteUnread(h = NoHash)
      BY DEF WriteFileState
    <2>4. mishaps' \in 0..MaxMishaps
      BY <2>3, UnreadType DEF SavedHash
    <2> QED BY <2>2, <2>3, <2>4 DEF WriteFileState, TypeOK, Rows
  <1>23. CASE SaveFileState
    BY <1>22, <1>23, CheckType, NoTxType DEF SaveFileState, EndScan, CloseSession, TypeOK, journalVars, storeVars
  <1>24. CASE SaveFails
    BY <1>24, CheckType, NoTxType DEF SaveFails, DatabaseError, CloseSession, TypeOK, journalVars, storeVars
  <1>25. CASE SaveAckLost
    BY <1>22, <1>25, CheckType, NoTxType DEF SaveAckLost, DatabaseError, CloseSession, TypeOK, journalVars, storeVars
  <1>26. CASE Crash
    <2>1. mishaps' \in 0..MaxMishaps
      BY <1>26, SizesAssumption DEF Crash, TypeOK
    <2> QED BY <1>26, <2>1, NoTxType DEF Crash, CloseSession, TypeOK, journalVars, storeVars, cbVars, CB!CBTypeOK
  <1>27. CASE Restart
    <2>1. CB!CBTypeOK'
      <3>1. 0 \in 0..Threshold
        BY SizesAssumption
      <3> QED BY <1>27, <3>1, Zenon DEF Restart, CB!CBTypeOK
    <2> QED BY <1>27, <2>1 DEF Restart, TypeOK, journalVars, storeVars
  <1>28. CASE CooldownElapses
    BY <1>28, CheckType DEF CooldownElapses, TypeOK, journalVars, storeVars, scanVars
  <1>29. CASE UNCHANGED vars
    BY <1>29 DEF vars, TypeOK, journalVars, storeVars, scanVars, cbVars, CB!CBTypeOK
  <1> QED
    BY <1>1, <1>2, <1>3, <1>4, <1>5, <1>6, <1>7, <1>8, <1>9, <1>10, <1>11, <1>12, <1>13,
       <1>14, <1>15, <1>16, <1>17, <1>19, <1>20, <1>21, <1>23, <1>24, <1>25, <1>26,
       <1>27, <1>28, <1>29
    DEF Next, Scan, ProcessEvent, Environment

\* Every variable keeps its type, whatever the journal and the bounds.
THEOREM TypeCorrect == Spec => []TypeOK
  <1>1. ASSUME Init
        PROVE  TypeOK
    <2>1. CB!CBTypeOK
      <3>1. 0 \in 0..Threshold
        BY SizesAssumption
      <3> QED BY <1>1, <3>1, Zenon DEF Init, CB!CBInit, CB!CBTypeOK
    <2>2. /\ file \in [present : BOOLEAN, gen : 1..MaxFiles, first : Nat \ {0}, len : Nat]
          /\ next \in 1..(NBlocks + 1)
          /\ mishaps \in 0..MaxMishaps
      BY <1>1, SizesAssumption DEF Init
    <2> QED BY <1>1, <2>1, <2>2, NoTxType DEF Init, TypeOK
  <1> QED BY <1>1, TypeStep, PTL DEF Spec

-----------------------------------------------------------------------------
(* The circuit breaker *)

BreakerInv == CB!BreakerConsistent /\ BreakerGate

\* Each method keeps the breaker's fields consistent, and those that let a scan go
\* on do not leave it open.
LEMMA BreakerMethods ==
    ASSUME TypeOK, CB!BreakerConsistent
    PROVE  /\ CB!CanExecute => CB!BreakerConsistent' /\ cb_state' # "OPEN"
           /\ CB!RecordSuccess => CB!BreakerConsistent' /\ cb_state' # "OPEN"
           /\ CB!RecordFailure => CB!BreakerConsistent'
           /\ CB!CooldownElapses => CB!BreakerConsistent'
  <1>1. CB!CBTypeOK /\ Threshold \in Nat \ {0}
    BY SizesAssumption DEF TypeOK
  <1>2. CB!CanExecute => CB!BreakerConsistent' /\ cb_state' # "OPEN"
    BY <1>1 DEF CB!CBTypeOK, CB!BreakerConsistent, CB!CanExecute
  <1>3. CB!RecordSuccess => CB!BreakerConsistent' /\ cb_state' # "OPEN"
    <2>1. 0 < Threshold
      BY <1>1
    <2> QED BY <2>1, Zenon DEF CB!BreakerConsistent, CB!RecordSuccess
  <1>4. CB!RecordFailure => CB!BreakerConsistent'
    <2> SUFFICES ASSUME CB!RecordFailure
                 PROVE  CB!BreakerConsistent'
      OBVIOUS
    <2>1. failure_count' = Threshold <=> ~(failure_count' < Threshold)
      BY <1>1 DEF CB!CBTypeOK, CB!RecordFailure
    <2>2. failure_count' < Threshold => failure_count < Threshold
      BY <1>1 DEF CB!CBTypeOK, CB!RecordFailure
    <2> QED BY <2>1, <2>2, Zenon DEF CB!BreakerConsistent, CB!RecordFailure
  <1>5. CB!CooldownElapses => CB!BreakerConsistent'
    BY Zenon DEF CB!BreakerConsistent, CB!CooldownElapses
  <1> QED BY <1>2, <1>3, <1>4, <1>5

\* Only the database error handler can find the breaker open, and then the
\* scan is over.
LEMMA BreakerStep == TypeOK /\ BreakerInv /\ [Next]_vars => BreakerInv'
  <1> SUFFICES ASSUME TypeOK, CB!BreakerConsistent, BreakerGate, [Next]_vars
               PROVE  CB!BreakerConsistent' /\ BreakerGate'
    BY DEF BreakerInv
  <1>1. CASE BeginScan
    BY <1>1, BreakerMethods DEF BeginScan, BreakerGate
  <1>2. CASE LoadFails \/ CreateFails \/ CommitNothingFails \/ SaveFails \/ SaveAckLost
    BY <1>2, BreakerMethods
    DEF LoadFails, CreateFails, CommitNothingFails, SaveFails, SaveAckLost, DatabaseError, BreakerGate
  <1>3. CASE CommitNothing \/ SaveFileState
    BY <1>3, BreakerMethods DEF CommitNothing, SaveFileState, BreakerGate
  <1>4. CASE CooldownElapses
    BY <1>4, BreakerMethods DEF CooldownElapses, scanVars, BreakerGate, CB!CooldownElapses
  <1>5. CASE Restart
    <2>1. 0 < Threshold
      BY SizesAssumption
    <2> QED BY <1>5, <2>1, Zenon DEF Restart, CB!BreakerConsistent, BreakerGate
  <1>6. ASSUME UNCHANGED cbVars
        PROVE  CB!BreakerConsistent'
    BY <1>6 DEF cbVars, CB!BreakerConsistent
  <1>7. ASSUME UNCHANGED cbVars, pc' = pc \/ pc' \in {"idle", "down"} \/ pc \notin {"idle", "down"}
        PROVE  BreakerGate'
    BY <1>7 DEF cbVars, BreakerGate
  <1>8. CASE AppendLine \/ RemoveFile \/ ReplaceFile \/ Outage \/ Recover \/ Crash
    BY <1>6, <1>7, <1>8
    DEF AppendLine, RemoveFile, ReplaceFile, Outage, Recover, Crash, scanVars
  <1>9. CASE LoadFileState \/ FileVanished \/ DetectRotation \/ ReadAppendedLines \/ ReadNothing
    BY <1>6, <1>7, <1>9
    DEF LoadFileState, FileVanished, EndScan, DetectRotation, ReadAppendedLines, ReadNothing
  <1>10. CASE ProcessEvent \/ LogHealthError
    BY <1>6, <1>7, <1>10
    DEF ProcessEvent, IsNext, SkipDuplicate, StoreEvent, EventFails, EventAckLost, GiveUp, LogHealthError
  <1>11. CASE UNCHANGED vars
    BY <1>6, <1>7, <1>11 DEF vars, scanVars
  <1> QED
    BY <1>1, <1>2, <1>3, <1>4, <1>5, <1>8, <1>9, <1>10, <1>11 DEF Next, Scan, Environment

\* While the breaker is OPEN no scan is under way.
THEOREM BreakerGates == Spec => []BreakerGate
  <1>1. Init => BreakerInv
    <2>1. 0 < Threshold
      BY SizesAssumption
    <2> QED BY <2>1, Zenon DEF Init, CB!CBInit, BreakerInv, CB!BreakerConsistent, BreakerGate
  <1>2. BreakerInv => BreakerGate
    BY DEF BreakerInv
  <1> QED BY <1>1, <1>2, BreakerStep, TypeCorrect, PTL DEF Spec

-----------------------------------------------------------------------------
(* The tables *)

\* Every step stores one new event as EventStore says, or leaves both tables.
LEMMA StoreStep == TypeOK /\ [Next]_vars => [Store!StoreNext]_(Store!storeVars)
  <1> SUFFICES ASSUME TypeOK, [Next]_vars
               PROVE  Store!StoreNext \/ UNCHANGED storeVars
    BY DEF storeVars, Store!storeVars
  <1>1. ASSUME NEW b \in pending, ~SeqStored(b), WriteEvent(b)
        PROVE  Store!StoreNext
    <2>1. b \in Blocks
      BY DEF TypeOK
    <2>2. Store!Store(b)
      BY <1>1, Zenon DEF WriteEvent, SeqStored, Store!Store, Store!SeqStored, Store!Stale
    <2> QED BY <2>1, <2>2 DEF Store!StoreNext
  <1>2. CASE ProcessEvent
    BY <1>1, <1>2 DEF ProcessEvent, SkipDuplicate, StoreEvent, EventFails, EventAckLost
  <1>3. CASE AppendLine \/ RemoveFile \/ ReplaceFile \/ Outage \/ Recover
             \/ Crash \/ Restart \/ CooldownElapses
    BY <1>3 DEF AppendLine, RemoveFile, ReplaceFile, Outage, Recover, Crash, Restart, CooldownElapses
  <1>4. CASE BeginScan \/ LoadFileState \/ LoadFails \/ FileVanished \/ DetectRotation \/ CreateFails
             \/ ReadAppendedLines \/ ReadNothing \/ CommitNothing \/ CommitNothingFails
    BY <1>4 DEF BeginScan, LoadFileState, LoadFails, FileVanished, DetectRotation, CreateFails,
                ReadAppendedLines, ReadNothing, CommitNothing, CommitNothingFails
  <1>5. CASE LogHealthError \/ SaveFileState \/ SaveFails \/ SaveAckLost
    BY <1>5 DEF LogHealthError, SaveFileState, SaveFails, SaveAckLost
  <1>6. CASE UNCHANGED vars
    BY <1>6 DEF vars
  <1> QED BY <1>2, <1>3, <1>4, <1>5, <1>6 DEF Next, Scan, Environment

\* Ingestion implements the promise about the two tables.
THEOREM Refinement == Spec => StoreSpec
  <1>1. Init => Store!StoreInit
    BY DEF Init, Store!StoreInit
  <1> QED BY <1>1, StoreStep, TypeCorrect, PTL DEF Spec, StoreSpec, Store!StoreSpec

StoreInv == UniqueRows /\ LiveIsLatest

\* Every step keeps the rows unique and the live status the latest.
LEMMA StoreInvStep ==
    TypeOK /\ StoreInv /\ [Store!StoreNext]_(Store!storeVars) => StoreInv'
  <1> SUFFICES ASSUME TypeOK, UniqueRows, LiveIsLatest, [Store!StoreNext]_(Store!storeVars)
               PROVE  UniqueRows' /\ LiveIsLatest'
    BY DEF StoreInv
  <1>1. CASE UNCHANGED Store!storeVars
    BY <1>1 DEF Store!storeVars, UniqueRows, LiveIsLatest
  <1>2. ASSUME NEW b \in Blocks, Store!Store(b)
        PROVE  UniqueRows' /\ LiveIsLatest'
    <2>1. events' = events \cup {b} /\ \A e \in events : SeqOf[e] # SeqOf[b]
      BY <1>2 DEF Store!Store, Store!SeqStored
    <2>2. UniqueRows'
      BY <2>1 DEF UniqueRows
    <2>3. b # NoEvent /\ \A e \in Blocks : TimeOf[e] \in Nat
      BY BlocksAssumption DEF Blocks, NoEvent
    <2>4. CASE Store!Stale(b)
      <3>1. live' = live /\ live # NoEvent /\ TimeOf[b] <= TimeOf[live]
        BY <1>2, <2>3, <2>4 DEF Store!Store, Store!Stale, TypeOK
      <3> QED BY <2>1, <2>2, <3>1 DEF LiveIsLatest
    <2>5. CASE ~Store!Stale(b)
      <3>1. live' = b
        BY <1>2, <2>5 DEF Store!Store
      <3>2. \A e \in events : TimeOf[e] <= TimeOf[b]
        BY <2>3, <2>5 DEF Store!Stale, LiveIsLatest, TypeOK
      <3>3. TimeOf[b] <= TimeOf[b]
        BY <2>3
      <3> QED BY <2>1, <2>2, <2>3, <3>1, <3>2, <3>3 DEF LiveIsLatest
    <2> QED BY <2>4, <2>5
  <1> QED BY <1>1, <1>2 DEF Store!StoreNext

\* Both hold in every state.
LEMMA StoreInvariant == Spec => []StoreInv
  <1>1. Init => StoreInv
    BY DEF Init, StoreInv, UniqueRows, LiveIsLatest
  <1> QED BY <1>1, StoreInvStep, StoreStep, TypeCorrect, PTL DEF Spec

\* ATMEvents never holds two rows with one sequence number.
THEOREM NoDuplicates == Spec => []UniqueRows
  <1>1. StoreInv => UniqueRows
    BY DEF StoreInv
  <1> QED BY <1>1, StoreInvariant, PTL

\* AtmLiveStatus always shows a stored event, and the latest one.
THEOREM LiveStatusLatest == Spec => []LiveIsLatest
  <1>1. StoreInv => LiveIsLatest
    BY DEF StoreInv
  <1> QED BY <1>1, StoreInvariant, PTL

-----------------------------------------------------------------------------
(* No block is lost without a reason *)

\* A step that leaves journal, saved row and bookkeeping alone, and takes no
\* row away, keeps what depends on nothing else.
LEMMA Frame ==
    ASSUME TypeOK, LossInv, UNCHANGED <<file, next, fstate, dropped>>, events \subseteq events'
    PROVE  /\ JournalInv' /\ OffsetInv' /\ NoUnexplainedLoss'
           /\ fstate'.gen <= file'.gen
           /\ \A b \in Blocks : SeqStored(b) \/ Excused(b) => (SeqStored(b) \/ Excused(b))'
  <1>1. \A b \in Blocks : SeqStored(b) \/ Excused(b) => (SeqStored(b) \/ Excused(b))'
    BY DEF SeqStored, Excused
  <1>2. JournalInv' /\ OffsetInv' /\ fstate'.gen <= file'.gen
    BY DEF LossInv, JournalInv, OffsetInv, GenInv
  <1>3. NoUnexplainedLoss'
    BY <1>1 DEF LossInv, NoUnexplainedLoss, Written, HeadLine
  <1> QED BY <1>1, <1>2, <1>3

\* So does a step after which no scan is past its start.
LEMMA OutsideScan ==
    ASSUME TypeOK, LossInv, UNCHANGED <<file, next, fstate, dropped, events>>,
           pc' \in {"idle", "load", "down"}, tx' = tx \/ tx' = NoTx
    PROVE  LossInv'
  <1>1. JournalInv' /\ OffsetInv' /\ NoUnexplainedLoss' /\ fstate'.gen <= file'.gen
    BY Frame
  <1>2. tx'.gen <= file'.gen
    BY DEF LossInv, GenInv, NoTx, TypeOK
  <1>3. RowInv' /\ BatchInv'
    BY DEF RowInv, BatchInv
  <1> QED BY <1>1, <1>2, <1>3 DEF LossInv, GenInv

\* Reading a chunk: every block up to its end is in the batch, was accounted
\* for before, or is passed over.
LEMMA ReadKeepsLoss == TypeOK /\ LossInv /\ ReadAppendedLines => LossInv'
  <1> SUFFICES ASSUME TypeOK, LossInv, ReadAppendedLines
               PROVE  LossInv'
    OBVIOUS
  <1>1. UNCHANGED <<file, next, fstate, dropped, events>>
    BY DEF ReadAppendedLines, journalVars, storeVars
  <1>2. JournalInv' /\ OffsetInv' /\ NoUnexplainedLoss' /\ fstate'.gen <= file'.gen
    BY <1>1, Frame
  <1>3. /\ ReadFrom \in Nat /\ ReadTo \in Nat /\ ReadFrom < ReadTo /\ ReadTo <= file.len
        /\ ReadFrom = 0 \/ ReadFrom = tx.row.offset
    BY SizesAssumption DEF ReadAppendedLines, ReadFrom, ReadTo, Least, TypeOK, Rows
  <1>4. /\ pc' = "process" /\ pending' = Parsed(ReadFrom, ReadTo)
        /\ tx'.to = ReadTo /\ tx'.gen = file.gen /\ tx'.lost = PassedOver(ReadFrom, ReadTo)
    BY DEF ReadAppendedLines, TypeOK
  <1>5. ASSUME NEW b \in Written, HeadLine(b) <= ReadTo
        PROVE  \/ SeqStored(b) \/ Excused(b) \/ b \in Parsed(ReadFrom, ReadTo)
               \/ \E c \in Causes : <<b, c>> \in PassedOver(ReadFrom, ReadTo)
    <2>1. HeadLine(b) \in Nat \ {0} /\ b \in Blocks
      BY DEF Written, HeadLine, TypeOK, Blocks
    <2>2. CASE HeadLine(b) <= ReadFrom
      <3>1. ReadFrom = tx.row.offset /\ tx.row = fstate
        BY <1>3, <2>1, <2>2 DEF LossInv, RowInv, ReadAppendedLines
      <3>2. CASE tx.row.gen = file.gen
        BY <2>2, <3>1, <3>2 DEF LossInv, NoUnexplainedLoss
      <3>3. CASE tx.row.gen # file.gen
        <4>1. <<b, "skipped">> \in PassedOver(ReadFrom, ReadTo)
          BY <2>2, <3>3 DEF PassedOver
        <4> QED BY <4>1 DEF Causes
      <3> QED BY <3>2, <3>3
    <2>3. CASE HeadLine(b) > ReadFrom /\ HeadLine(b) < ReadTo
      <3>1. CASE b \in Unhandled
        BY <3>1 DEF Excused
      <3>2. CASE b \notin Unhandled
        <4>1. HeadLine(b) + 1 <= ReadTo
          BY <1>3, <2>1, <2>3
        <4> QED BY <2>3, <3>2, <4>1 DEF Parsed
      <3> QED BY <3>1, <3>2
    <2>4. CASE HeadLine(b) = ReadTo
      <3>1. <<b, "split">> \in PassedOver(ReadFrom, ReadTo)
        BY <1>3, <2>4 DEF PassedOver
      <3> QED BY <3>1 DEF Causes
    <2> QED BY <1>3, <1>5, <2>1, <2>2, <2>3, <2>4
  <1>6. BatchInv'
    <2>1. \A b \in Written' : b \in Written /\ HeadLine(b)' = HeadLine(b)
      BY <1>1 DEF Written, HeadLine
    <2>2. \A b : (SeqStored(b)' <=> SeqStored(b)) /\ (Excused(b)' <=> Excused(b))
      BY <1>1 DEF SeqStored, Excused
    <2> QED BY <1>1, <1>3, <1>4, <1>5, <2>1, <2>2 DEF BatchInv
  <1>7. RowInv' /\ tx'.gen <= file'.gen
    BY <1>1, <1>4 DEF RowInv, TypeOK
  <1> QED BY <1>2, <1>6, <1>7 DEF LossInv, GenInv

\* Taking one event out of the batch: it gets a row, has one, or is passed over.
LEMMA EventKeepsLoss ==
    ASSUME TypeOK, LossInv, NEW b \in pending, pc = "process", pc' \in {"process", "log"},
           UNCHANGED <<file, next, fstate, dropped>>, events \subseteq events',
           pending' = pending \ {b},
           tx'.to = tx.to, tx'.gen = tx.gen, tx.lost \subseteq tx'.lost,
           SeqStored(b)' \/ <<b, "failed">> \in tx'.lost
    PROVE  LossInv'
  <1>1. /\ JournalInv' /\ OffsetInv' /\ NoUnexplainedLoss' /\ fstate'.gen <= file'.gen
        /\ \A c \in Blocks : SeqStored(c) \/ Excused(c) => (SeqStored(c) \/ Excused(c))'
    BY Frame
  <1>2. RowInv' /\ tx'.gen <= file'.gen
    BY DEF RowInv, LossInv, GenInv
  <1>3. SeqStored(b)' \/ \E c \in Causes : <<b, c>> \in tx'.lost
    BY DEF Causes
  <1>4. BatchInv'
    <2> SUFFICES ASSUME tx'.gen = file'.gen
                 PROVE  /\ tx'.to <= file'.len
                        /\ \A d \in Written' : HeadLine(d)' <= tx'.to =>
                               \/ SeqStored(d)' \/ Excused(d)' \/ d \in pending'
                               \/ \E c \in Causes : <<d, c>> \in tx'.lost
      BY DEF BatchInv
    <2>1. /\ tx.to <= file.len
          /\ \A d \in Written : HeadLine(d) <= tx.to =>
                 \/ SeqStored(d) \/ Excused(d) \/ d \in pending
                 \/ \E c \in Causes : <<d, c>> \in tx.lost
      BY DEF LossInv, BatchInv
    <2>2. \A d \in Written' : d \in Written /\ d \in Blocks /\ HeadLine(d)' = HeadLine(d)
      BY DEF Written, HeadLine
    <2> QED BY <1>1, <1>3, <2>1, <2>2
  <1> QED BY <1>1, <1>2, <1>4 DEF LossInv, GenInv

\* Saving the offset of a batch that has been gone through: what was accounted
\* for or passed over by the scan is now so for the saved offset.
LEMMA SaveKeepsLoss ==
    ASSUME TypeOK, LossInv, AtSave, WriteFileState, UNCHANGED <<file, next, events>>,
           pc' \in {"idle", "load"}, tx' = NoTx
    PROVE  LossInv'
  <1>1. fstate'.offset = tx.to /\ fstate'.gen = tx.gen /\ dropped' = dropped \cup tx.lost
    BY DEF WriteFileState
  <1>2. JournalInv' /\ RowInv' /\ BatchInv' /\ GenInv'
    BY <1>1 DEF LossInv, JournalInv, RowInv, BatchInv, GenInv, NoTx, TypeOK
  <1>3. OffsetInv'
    BY <1>1 DEF OffsetInv, LossInv, BatchInv, AtSave
  <1>4. NoUnexplainedLoss'
    <2> SUFFICES ASSUME tx.gen = file.gen, NEW b \in Written, HeadLine(b) <= tx.to
                 PROVE  SeqStored(b) \/ Excused(b)'
      BY <1>1 DEF NoUnexplainedLoss, Written, HeadLine, SeqStored
    <2>1. SeqStored(b) \/ Excused(b) \/ \E c \in Causes : <<b, c>> \in tx.lost
      BY DEF LossInv, BatchInv, AtSave
    <2> QED BY <1>1, <2>1 DEF Excused
  <1> QED BY <1>2, <1>3, <1>4 DEF LossInv

\* The ATM appends past every offset, and a new file has a generation that no
\* offset counts in.
LEMMA JournalKeepsLoss ==
    TypeOK /\ LossInv /\ (AppendLine \/ RemoveFile \/ ReplaceFile) => LossInv'
  <1> SUFFICES ASSUME TypeOK, LossInv, AppendLine \/ RemoveFile \/ ReplaceFile
               PROVE  LossInv'
    OBVIOUS
  <1>1. UNCHANGED <<fstate, events, live, pc, tx, pending, dropped>>
    BY DEF AppendLine, RemoveFile, ReplaceFile, storeVars, scanVars
  <1>2. RowInv'
    <2>1. file.gen <= file'.gen /\ tx.row.gen \in Nat /\ file.gen \in Nat /\ file'.gen \in Nat
      BY DEF AppendLine, RemoveFile, ReplaceFile, TypeOK, Rows
    <2> QED BY <1>1, <2>1 DEF LossInv, RowInv
  <1>3. \A b : (SeqStored(b)' <=> SeqStored(b)) /\ (Excused(b)' <=> Excused(b))
    BY <1>1 DEF SeqStored, Excused
  <1>4. CASE AppendLine
    <2>1. /\ file'.gen = file.gen /\ file'.first = file.first /\ file'.len = file.len + 1
          /\ next' = IF MidBlock THEN next ELSE next + 1
      BY <1>4 DEF AppendLine, TypeOK
    <2>2. JournalInv'
      BY <2>1 DEF LossInv, JournalInv, MidBlock, HeadLine, TypeOK
    <2>3. GenInv' /\ OffsetInv'
      BY <1>1, <2>1 DEF LossInv, GenInv, OffsetInv, TypeOK, Rows
    <2>4. \A b \in Written' : HeadLine(b)' = HeadLine(b) /\ (b \in Written \/ HeadLine(b) > file.len)
      BY <2>1 DEF Written, HeadLine, MidBlock, LossInv, JournalInv, TypeOK, Blocks
    <2>5. \A n \in Nat, b \in Written' :
              n <= file.len /\ HeadLine(b)' <= n => b \in Written /\ HeadLine(b) <= n
      <3>1. \A b \in Written' : HeadLine(b) \in Int
        BY DEF Written, HeadLine, Blocks, TypeOK
      <3>2. file.len \in Nat
        BY DEF TypeOK
      <3> QED BY <2>4, <3>1, <3>2
    <2>6. NoUnexplainedLoss'
      <3>1. fstate.offset \in Nat /\ (fstate.gen = file.gen => fstate.offset <= file.len)
        BY DEF LossInv, OffsetInv, TypeOK, Rows
      <3> QED BY <1>1, <1>3, <2>1, <2>5, <3>1 DEF LossInv, NoUnexplainedLoss
    <2>7. BatchInv'
      <3>1. tx.to \in Nat /\ file.len \in Nat
        BY DEF TypeOK
      <3> SUFFICES ASSUME pc \in {"process", "log"}, tx.gen = file.gen
                   PROVE  /\ tx.to <= file.len + 1
                          /\ \A b \in Written' : HeadLine(b)' <= tx.to =>
                                 \/ SeqStored(b) \/ Excused(b) \/ b \in pending
                                 \/ \E c \in Causes : <<b, c>> \in tx.lost
        BY <1>1, <1>3, <2>1 DEF BatchInv
      <3>2. /\ tx.to <= file.len
            /\ \A b \in Written : HeadLine(b) <= tx.to =>
                   \/ SeqStored(b) \/ Excused(b) \/ b \in pending
                   \/ \E c \in Causes : <<b, c>> \in tx.lost
        BY DEF LossInv, BatchInv
      <3> QED BY <2>5, <3>1, <3>2
    <2> QED BY <1>2, <2>2, <2>3, <2>6, <2>7 DEF LossInv
  <1>5. CASE RemoveFile
    <2>1. file'.gen = file.gen /\ file'.first = file.first /\ file'.len = file.len /\ next' = next
      BY <1>5 DEF RemoveFile, TypeOK
    <2>2. Written' = Written /\ \A b : HeadLine(b)' = HeadLine(b)
      BY <2>1 DEF Written, HeadLine
    <2> QED BY <1>1, <1>2, <1>3, <2>1, <2>2
            DEF LossInv, JournalInv, BatchInv, OffsetInv, GenInv, NoUnexplainedLoss
  <1>6. CASE ReplaceFile
    <2>1. file'.gen = file.gen + 1 /\ file'.first = next /\ file'.len = 0 /\ next' = next
      BY <1>6 DEF ReplaceFile
    <2>2. fstate'.gen # file'.gen /\ tx'.gen # file'.gen /\ GenInv'
      BY <1>1, <2>1 DEF LossInv, GenInv, TypeOK, Rows
    <2>3. JournalInv'
      BY <2>1 DEF JournalInv, TypeOK
    <2> QED BY <1>2, <2>2, <2>3 DEF LossInv, BatchInv, OffsetInv, NoUnexplainedLoss
  <1> QED BY <1>4, <1>5, <1>6

\* Every step keeps what is known of the blocks below the offset.
LEMMA LossStep == TypeOK /\ LossInv /\ [Next]_vars => LossInv'
  <1> SUFFICES ASSUME TypeOK, LossInv, [Next]_vars
               PROVE  LossInv'
    OBVIOUS
  <1>1. ASSUME UNCHANGED <<file, next, fstate, dropped, events, pc, tx, pending>>
        PROVE  LossInv'
    BY <1>1 DEF LossInv, JournalInv, RowInv, BatchInv, OffsetInv, GenInv, NoUnexplainedLoss,
                Written, HeadLine, SeqStored, Excused
  <1>2. CASE Outage \/ Recover \/ CooldownElapses \/ UNCHANGED vars
    BY <1>1, <1>2 DEF Outage, Recover, CooldownElapses, vars, journalVars, storeVars, scanVars
  <1>3. CASE LoadFails \/ CreateFails \/ CommitNothingFails \/ SaveFails
    BY <1>3, OutsideScan
    DEF LoadFails, CreateFails, CommitNothingFails, SaveFails, DatabaseError, CloseSession,
        journalVars, storeVars
  <1>4. CASE BeginScan \/ FileVanished \/ Crash \/ Restart
    BY <1>4, OutsideScan
    DEF BeginScan, FileVanished, EndScan, Crash, Restart, CloseSession, journalVars, storeVars
  <1>5. CASE LoadFileState
    <2>1. pc' = "check" /\ UNCHANGED <<file, next, fstate, dropped, events>>
      BY <1>5 DEF LoadFileState, journalVars, storeVars
    <2>2. tx'.row = fstate /\ tx'.gen = 0
      BY <1>5 DEF LoadFileState, NoTx
    <2>3. RowInv' /\ BatchInv' /\ tx'.gen <= file'.gen
      BY <2>1, <2>2 DEF RowInv, BatchInv, TypeOK
    <2> QED BY <2>1, <2>3, Frame DEF LossInv, GenInv
  <1>6. CASE DetectRotation
    <2>1. /\ pc = "check" /\ pc' \in {"nothing", "read"}
          /\ UNCHANGED <<file, next, fstate, dropped, events>>
      BY <1>6 DEF DetectRotation, journalVars, storeVars
    <2>2. PICK h, new : tx'.row = CheckedRow(h, new) /\ tx'.gen = tx.gen
      BY <1>6 DEF DetectRotation, TypeOK
    <2>3. tx.row \in Rows
      BY DEF TypeOK
    <2>4. /\ tx'.row.offset = 0 \/ tx'.row = tx.row
          /\ tx'.row.gen <= file.gen
      <3>1. tx.row.gen <= file.gen /\ file.gen \in Nat
        BY <2>1 DEF TypeOK, LossInv, RowInv, GenInv
      <3> QED BY <2>2, <2>3, <3>1 DEF CheckedRow, LoadedRow, Rows
    <2>5. RowInv' /\ BatchInv' /\ tx'.gen <= file'.gen
      BY <2>1, <2>2, <2>4 DEF LossInv, GenInv, RowInv, BatchInv
    <2> QED BY <2>1, <2>5, Frame DEF LossInv, GenInv
  <1>7. CASE ReadNothing
    <2>1. /\ pc = "read" /\ pc' = "nothing" /\ tx' = tx
          /\ UNCHANGED <<file, next, fstate, dropped, events>>
      BY <1>7 DEF ReadNothing, journalVars, storeVars
    <2>2. RowInv' /\ BatchInv' /\ tx'.gen <= file'.gen
      BY <2>1 DEF LossInv, GenInv, RowInv, BatchInv
    <2> QED BY <2>1, <2>2, Frame DEF LossInv, GenInv
  <1>8. CASE CommitNothing
    <2>1. /\ pc = "nothing" /\ pc' = "idle" /\ tx' = NoTx /\ fstate' = tx.row
          /\ UNCHANGED <<file, next, dropped, events>>
      BY <1>8 DEF CommitNothing, EndScan, CloseSession, journalVars, storeVars
    <2>2. CASE tx.row = fstate
      BY <2>1, <2>2, OutsideScan
    <2>3. CASE tx.row.offset = 0
      <3>1. \A b \in Written' : ~(HeadLine(b)' <= 0)
        BY <2>1 DEF Written, HeadLine, Blocks, TypeOK
      <3>2. NoUnexplainedLoss' /\ OffsetInv'
        BY <2>1, <2>3, <3>1 DEF NoUnexplainedLoss, OffsetInv, TypeOK
      <3>3. JournalInv' /\ RowInv' /\ BatchInv'
        BY <2>1 DEF LossInv, JournalInv, RowInv, BatchInv
      <3>4. tx.row.gen <= file.gen
        BY <2>1 DEF LossInv, RowInv
      <3>5. GenInv'
        BY <2>1, <3>4 DEF GenInv, NoTx, TypeOK
      <3> QED BY <3>2, <3>3, <3>5 DEF LossInv
    <2> QED BY <2>1, <2>2, <2>3 DEF LossInv, RowInv
  <1>9. CASE ReadAppendedLines
    BY <1>9, ReadKeepsLoss
  <1>10. CASE ProcessEvent
    <2> PICK b \in pending : SkipDuplicate(b) \/ StoreEvent(b) \/ EventFails(b) \/ EventAckLost(b)
      BY <1>10 DEF ProcessEvent
    <2>1. CASE SkipDuplicate(b)
      <3>1. SeqStored(b)'
        BY <2>1 DEF SkipDuplicate, SeqStored, storeVars
      <3> QED BY <2>1, <3>1, EventKeepsLoss DEF SkipDuplicate, IsNext, journalVars, storeVars
    <2>2. CASE StoreEvent(b)
      <3>1. SeqStored(b)'
        BY <2>2 DEF StoreEvent, WriteEvent, SeqStored
      <3> QED BY <2>2, <3>1, EventKeepsLoss DEF StoreEvent, WriteEvent, IsNext, journalVars
    <2>3. ASSUME GiveUp(b)
          PROVE  /\ tx'.to = tx.to /\ tx'.gen = tx.gen /\ tx.lost \subseteq tx'.lost
                 /\ <<b, "failed">> \in tx'.lost
      BY <2>3 DEF GiveUp, TypeOK
    <2>4. CASE EventFails(b)
      BY <2>3, <2>4, EventKeepsLoss DEF EventFails, IsNext, GiveUp, journalVars, storeVars
    <2>5. CASE EventAckLost(b)
      BY <2>3, <2>5, EventKeepsLoss DEF EventAckLost, WriteEvent, IsNext, GiveUp, journalVars
    <2> QED BY <2>1, <2>2, <2>4, <2>5
  <1>11. CASE LogHealthError
    <2>1. /\ pc = "log" /\ pc' = "process"
          /\ UNCHANGED <<file, next, fstate, dropped, events, tx, pending>>
      BY <1>11 DEF LogHealthError, journalVars, storeVars
    <2>2. BatchInv' /\ RowInv' /\ tx'.gen <= file'.gen
      BY <2>1 DEF LossInv, BatchInv, RowInv, GenInv, Written, HeadLine, SeqStored, Excused
    <2> QED BY <2>1, <2>2, Frame DEF LossInv, GenInv
  <1>12. CASE SaveFileState \/ SaveAckLost
    BY <1>12, SaveKeepsLoss
    DEF SaveFileState, SaveAckLost, EndScan, DatabaseError, CloseSession, journalVars, storeVars
  <1>13. CASE AppendLine \/ RemoveFile \/ ReplaceFile
    BY <1>13, JournalKeepsLoss
  <1> QED
    BY <1>2, <1>3, <1>4, <1>5, <1>6, <1>7, <1>8, <1>9, <1>10, <1>11, <1>12, <1>13
    DEF Next, Scan, Environment

\* No committed offset ever passes a block without a row or a recorded reason.
THEOREM EveryLossExplained == Spec => []NoUnexplainedLoss
  <1>1. Init => LossInv
    BY DEF Init, LossInv, JournalInv, RowInv, BatchInv, OffsetInv, GenInv, NoUnexplainedLoss,
           NoTx, NoRow
  <1>2. LossInv => NoUnexplainedLoss
    BY DEF LossInv
  <1> QED BY <1>1, <1>2, LossStep, TypeCorrect, PTL DEF Spec

-----------------------------------------------------------------------------
(* The saved offset goes back only when its file is gone or cannot be read *)

\* What was read of a file that is still there is what its digest says.
LEMMA DigestOfRead ==
    ASSUME TypeOK, file.present, NEW n \in Nat \ {0}, n <= file.len
    PROVE  Hash(Least(Prefix, n)) = [gen |-> file.gen, len |-> Least(Prefix, n)]
  <1>1. Least(Prefix, n) \in Nat \ {0} /\ Least(Prefix, n) <= n
    BY SizesAssumption DEF Least
  <1>2. Least(Least(Prefix, n), file.len) = Least(Prefix, n)
    BY <1>1 DEF Least, TypeOK
  <1> QED BY <1>1, <1>2 DEF Hash

\* The check takes no growing file for another one, if it can read it.
LEMMA CheckKeepsOffset ==
    ASSUME TypeOK, LossInv, RewindInv, pc = "check", ~Gone,
           NEW h \in Digests(PrefixLen), NEW new, ~(h = NoHash /\ Rotated(LoadedRow(h), h))
    PROVE  fstate.offset <= CheckedRow(h, new).offset
  <1>1. tx.row = fstate /\ fstate \in Rows /\ tx.size \in Nat
    BY DEF LossInv, RowInv, TypeOK
  <1>2. fstate.offset \in Nat
    BY <1>1 DEF Rows
  <1>3. CASE fstate.offset = 0
    <2>1. CheckedRow(h, new).offset \in Nat
      BY <1>1, <1>2 DEF CheckedRow, LoadedRow, Rows
    <2> QED BY <1>3, <2>1
  <1>4. CASE fstate.offset > 0
    <2>1. fstate.exists /\ fstate.offset <= file.len /\ file.present /\ fstate.offset <= tx.size
      BY <1>4 DEF RewindInv, ExistsInv, SizeInv, LossInv, OffsetInv, Gone
    <2>2. PrefixLen = Least(Prefix, fstate.offset)
      BY <1>1, <1>4, <2>1 DEF PrefixLen
    <2>3. Hash(PrefixLen) = [gen |-> file.gen, len |-> Least(Prefix, fstate.offset)]
      BY <1>2, <1>4, <2>1, <2>2, DigestOfRead
    <2>4. fstate.hash \in {NoHash, Hash(PrefixLen)}
      BY <1>4, <2>3 DEF RewindInv, DigestInv
    <2>5. LoadedRow(h) = fstate
      BY <1>1, <2>1 DEF LoadedRow
    <2>6. ~Rotated(fstate, h)
      BY <1>1, <1>2, <2>1, <2>4, <2>5 DEF Rotated, Digests
    <2>7. CheckedRow(h, new) = fstate
      BY <2>5, <2>6 DEF CheckedRow
    <2> QED BY <1>2, <2>7
  <1> QED BY <1>2, <1>3, <1>4

\* Every step keeps what is known of digests, sizes and the transaction's copy.
LEMMA RewindStep ==
    TypeOK /\ LossInv /\ RewindInv /\ [Next]_vars =>
        RewindInv' /\ (fstate'.offset < fstate.offset => Gone \/ tx.unread)
  <1> SUFFICES ASSUME TypeOK, LossInv, RewindInv, [Next]_vars
               PROVE  RewindInv' /\ (fstate'.offset < fstate.offset => Gone \/ tx.unread)
    OBVIOUS
  <1>1. fstate.offset \in Nat /\ file.gen \in Nat /\ fstate.gen \in Nat
    BY DEF TypeOK, Rows
  <1>2. ASSUME UNCHANGED <<file.gen, file.present, fstate>>
        PROVE  DigestInv' /\ ExistsInv' /\ (Gone' <=> Gone) /\ ~(fstate'.offset < fstate.offset)
    BY <1>1, <1>2 DEF RewindInv, DigestInv, ExistsInv, Gone
  <1>3. ASSUME UNCHANGED <<file.gen, file.present, fstate, pc, tx>>
        PROVE  RewindInv' /\ (fstate'.offset < fstate.offset => Gone \/ tx.unread)
    BY <1>2, <1>3 DEF RewindInv, SizeInv, LagInv
  <1>4. ASSUME UNCHANGED <<file, fstate>>, pc' \in {"idle", "load", "down"}
        PROVE  RewindInv' /\ (fstate'.offset < fstate.offset => Gone \/ tx.unread)
    BY <1>2, <1>4 DEF RewindInv, SizeInv, LagInv
  <1>5. CASE AppendLine
    <2>1. UNCHANGED <<file.gen, file.present, fstate, pc, tx>>
      BY <1>5 DEF AppendLine, scanVars, TypeOK
    <2> QED BY <1>3, <2>1
  <1>6. CASE RemoveFile \/ ReplaceFile
    <2>1. UNCHANGED fstate
      BY <1>6 DEF RemoveFile, ReplaceFile
    <2>2. Gone'
      <3>1. RemoveFile => Gone'
        BY DEF RemoveFile, Gone, TypeOK
      <3>2. ReplaceFile => Gone'
        <4> SUFFICES ASSUME ReplaceFile PROVE Gone'
          OBVIOUS
        <4>1. file'.gen = file.gen + 1 /\ fstate.gen <= file.gen
          BY DEF ReplaceFile, LossInv, GenInv
        <4> QED BY <1>1, <2>1, <4>1 DEF Gone
      <3> QED BY <1>6, <3>1, <3>2
    <2> QED BY <1>1, <2>1, <2>2 DEF RewindInv, DigestInv, SizeInv, LagInv, ExistsInv
  <1>7. CASE Outage \/ Recover \/ CooldownElapses \/ UNCHANGED vars
    BY <1>3, <1>7 DEF Outage, Recover, CooldownElapses, vars, journalVars, scanVars
  <1>8. CASE \/ LoadFails \/ CreateFails \/ CommitNothingFails \/ SaveFails
             \/ BeginScan \/ FileVanished \/ Crash \/ Restart
    BY <1>4, <1>8
    DEF LoadFails, CreateFails, CommitNothingFails, SaveFails, DatabaseError,
        BeginScan, FileVanished, EndScan, Crash, Restart, journalVars
  <1>9. CASE LoadFileState
    <2>1. pc' = "check" /\ tx'.size = file.len /\ UNCHANGED <<file, fstate>>
      BY <1>9 DEF LoadFileState, NoTx, journalVars
    <2>2. SizeInv' /\ LagInv'
      BY <2>1 DEF SizeInv, LagInv, LossInv, OffsetInv, Gone
    <2> QED BY <1>2, <2>1, <2>2 DEF RewindInv
  <1>10. CASE DetectRotation
    <2>1. pc = "check" /\ pc' \in {"nothing", "read"} /\ UNCHANGED <<file, fstate>>
      BY <1>10 DEF DetectRotation, journalVars
    <2>3. PICK h \in Digests(PrefixLen), new \in Digests(Prefix) :
              /\ tx'.row = CheckedRow(h, new)
              /\ tx'.unread <=> h = NoHash /\ Rotated(LoadedRow(h), h)
      BY <1>10 DEF DetectRotation, TypeOK
    <2>2. SizeInv' /\ LagInv'
      BY <1>2, <2>1, <2>3, CheckKeepsOffset DEF SizeInv, LagInv
    <2> QED BY <1>2, <2>1, <2>2 DEF RewindInv
  <1>11. CASE ReadAppendedLines
    <2>1. /\ pc = "read" /\ pc' = "process" /\ tx'.to = ReadTo /\ tx'.unread = tx.unread
          /\ UNCHANGED <<file, fstate>>
      BY <1>11 DEF ReadAppendedLines, TypeOK, journalVars
    <2>2. ReadFrom < ReadTo /\ ReadFrom \in Nat /\ ReadTo \in Nat
      BY <1>11, SizesAssumption DEF ReadAppendedLines, ReadFrom, ReadTo, Least, TypeOK, Rows
    <2>3. ~Gone /\ ~tx.unread => fstate.offset <= ReadFrom
      <3> SUFFICES ASSUME ~Gone, ~tx.unread
                   PROVE  fstate.offset <= ReadFrom
        OBVIOUS
      <3>1. fstate.offset <= tx.row.offset /\ fstate.offset <= file.len
        BY <2>1 DEF RewindInv, LagInv, LossInv, OffsetInv, Gone
      <3>2. tx.row.offset = 0 \/ tx.row = fstate
        BY <2>1 DEF LossInv, RowInv
      <3>3. tx.row.offset \in Nat /\ file.len \in Nat
        BY DEF TypeOK, Rows
      <3> QED BY <1>1, <3>1, <3>2, <3>3 DEF ReadFrom
    <2>4. ~Gone /\ ~tx.unread => fstate.offset <= ReadTo
      BY <1>1, <2>2, <2>3
    <2>5. SizeInv' /\ LagInv'
      BY <1>2, <2>1, <2>4 DEF SizeInv, LagInv
    <2> QED BY <1>2, <2>1, <2>5 DEF RewindInv
  <1>12. CASE ReadNothing
    <2>1. pc = "read" /\ pc' = "nothing" /\ tx' = tx /\ UNCHANGED <<file, fstate>>
      BY <1>12 DEF ReadNothing, journalVars
    <2>2. SizeInv' /\ LagInv'
      BY <1>2, <2>1 DEF RewindInv, SizeInv, LagInv
    <2> QED BY <1>2, <2>1, <2>2 DEF RewindInv
  <1>13. CASE CommitNothing
    <2>1. pc = "nothing" /\ pc' = "idle" /\ fstate' = tx.row /\ UNCHANGED file
      BY <1>13 DEF CommitNothing, EndScan, journalVars
    <2>2. CASE tx.row = fstate
      BY <1>4, <2>1, <2>2
    <2>3. CASE tx.row.offset = 0
      <3>1. RewindInv'
        BY <2>1, <2>3 DEF RewindInv, DigestInv, SizeInv, LagInv, ExistsInv
      <3>2. 0 < fstate.offset => Gone \/ tx.unread
        BY <1>1, <2>1, <2>3 DEF RewindInv, LagInv
      <3> QED BY <2>1, <2>3, <3>1, <3>2
    <2> QED BY <2>1, <2>2, <2>3 DEF LossInv, RowInv
  <1>14. CASE ProcessEvent
    <2>1. /\ pc = "process" /\ pc' \in {"process", "log"} /\ tx'.to = tx.to
          /\ tx'.unread = tx.unread /\ UNCHANGED <<file, fstate>>
      BY <1>14
      DEF ProcessEvent, SkipDuplicate, StoreEvent, EventFails, EventAckLost, GiveUp, IsNext,
          journalVars, TypeOK
    <2>2. SizeInv' /\ LagInv'
      BY <1>2, <2>1 DEF RewindInv, SizeInv, LagInv
    <2> QED BY <1>2, <2>1, <2>2 DEF RewindInv
  <1>15. CASE LogHealthError
    <2>1. pc = "log" /\ pc' = "process" /\ tx' = tx /\ UNCHANGED <<file, fstate>>
      BY <1>15 DEF LogHealthError, journalVars
    <2>2. SizeInv' /\ LagInv'
      BY <1>2, <2>1 DEF RewindInv, SizeInv, LagInv
    <2> QED BY <1>2, <2>1, <2>2 DEF RewindInv
  <1>16. CASE SaveFileState \/ SaveAckLost
    <2>1. AtSave /\ WriteFileState /\ pc' \in {"idle", "load"} /\ UNCHANGED file
      BY <1>16 DEF SaveFileState, SaveAckLost, EndScan, DatabaseError, journalVars
    <2>2. PICK h \in SavedHash :
              fstate' = [exists |-> TRUE, offset |-> tx.to, hash |-> h, gen |-> tx.gen]
      BY <2>1 DEF WriteFileState
    <2>3. ~Gone /\ ~tx.unread => fstate.offset <= tx.to
      BY <2>1 DEF RewindInv, LagInv, AtSave
    <2>4. DigestInv'
      <3> SUFFICES ASSUME tx.to > 0, tx.gen = file.gen, file.present
                   PROVE  h \in {NoHash, [gen |-> file.gen, len |-> Least(Prefix, tx.to)]}
        BY <2>1, <2>2 DEF DigestInv, Gone
      <3>1. tx.to \in Nat \ {0} /\ tx.to <= file.len
        BY <2>1 DEF LossInv, BatchInv, AtSave, TypeOK
      <3> QED BY <2>2, <3>1, DigestOfRead DEF SavedHash, Digests
    <2>5. SizeInv' /\ LagInv' /\ ExistsInv'
      BY <2>1, <2>2 DEF SizeInv, LagInv, ExistsInv
    <2>6. tx.to \in Nat
      BY DEF TypeOK
    <2> QED BY <1>1, <2>2, <2>3, <2>4, <2>5, <2>6 DEF RewindInv
  <1> QED
    BY <1>5, <1>6, <1>7, <1>8, <1>9, <1>10, <1>11, <1>12, <1>13, <1>14, <1>15, <1>16
    DEF Next, Scan, Environment

\* The saved offset goes back only when the file it counts in is gone, or in a
\* scan whose check could not read the file.
THEOREM NoFalseRotation == Spec => RewindHasCause
  <1>1. Init => RewindInv /\ LossInv
    BY DEF Init, LossInv, JournalInv, RowInv, BatchInv, OffsetInv, GenInv, NoUnexplainedLoss,
           NoTx, NoRow, RewindInv, DigestInv, SizeInv, LagInv, ExistsInv
  <1>2. TypeOK /\ LossInv /\ RewindInv /\ [Next]_vars =>
            [fstate'.offset < fstate.offset =>
                 file.gen # fstate.gen \/ ~file.present \/ tx.unread]_vars
    BY RewindStep DEF Gone
  <1> QED BY <1>1, <1>2, LossStep, RewindStep, TypeCorrect, PTL DEF Spec, RewindHasCause
=============================================================================
