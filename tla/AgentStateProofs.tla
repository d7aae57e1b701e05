--------------------------- MODULE AgentStateProofs ---------------------------
(***************************************************************************)
(* The log directories, and AgentState with the row and the cached         *)
(* configuration beside them.  For every cap, number of backups, number of *)
(* files and number of times that the process ends during a pass: no crash *)
(* dump is lost between its file and its archive; a pass brings the files  *)
(* under the cap as far as it can; it removes the oldest first.            *)
(***************************************************************************)
EXTENDS AgentState, LiveStatusProofs, SettingsCacheProofs

-----------------------------------------------------------------------------
(* Archiving *)

Archives == [of : Int, stamp : Int, whole : BOOLEAN]

\* As much of the types as the argument needs.
Typed == now \in Int /\ dumps \subseteq Int /\ zips \subseteq Archives

\* While dumps are archived nothing else removes one: what the pass has listed is
\* still there.
Listed ==
    /\ pc = "archive" => toArchive \subseteq dumps
    /\ pc \in {"zip", "unlink"} => toArchive \subseteq dumps \ {dump}

\* A dump is still there while its archive is written, and is removed only when
\* the archive is complete.
CopyMade ==
    /\ pc = "zip" => dump \in dumps /\ \E z \in zips : z.of = dump
    /\ pc = "unlink" => \E z \in zips : z.of = dump /\ z.whole

DumpInv == Typed /\ Listed /\ CopyMade /\ CrashDumpKept

\* There is nothing to lose at first.
LEMMA InitDump == LogInit => DumpInv
BY DEF LogInit, DumpInv, Typed, Listed, CopyMade, CrashDumpKept

\* The rest of the agent only adds dumps, and the end of the process leaves the
\* files as they are.
LEMMA OthersDump == DumpInv /\ Others => DumpInv'
<1> SUFFICES ASSUME DumpInv, Others PROVE DumpInv'
  OBVIOUS
<1>1. CASE FillLog
  BY <1>1 DEF FillLog, logClock, pass, DumpInv, Typed, Listed, CopyMade, CrashDumpKept
<1>2. CASE RollOver
  BY <1>2 DEF RollOver, pass, DumpInv, Typed, Listed, CopyMade, CrashDumpKept
<1>3. CASE WriteDump
  BY <1>3 DEF WriteDump, pass, DumpInv, Typed, Listed, CopyMade, CrashDumpKept
<1>4. CASE TimePasses
  BY <1>4 DEF TimePasses, disk, pass, history, DumpInv, Typed, Listed, CopyMade, CrashDumpKept
<1>5. CASE Kill
  BY <1>5 DEF Kill, logClock, disk, DumpInv, Typed, Listed, CopyMade, CrashDumpKept
<1> QED BY <1>1, <1>2, <1>3, <1>4, <1>5 DEF Others

\* Opening an archive empties the one there was, and the dump is still there.
LEMMA OpenArchiveDump == ASSUME DumpInv, NEW d \in toArchive, OpenArchive(d) PROVE DumpInv'
<1> DEFINE new == [of |-> d, stamp |-> now', whole |-> FALSE]
<1>1. d \in dumps /\ toArchive \subseteq dumps
  BY DEF OpenArchive, DumpInv, Listed
<1>2. /\ pc' = "zip" /\ dump' = d /\ toArchive' = toArchive \ {d}
      /\ dumps' = dumps /\ written' = written /\ purged' = purged
      /\ zips' = {z \in zips : z.of # d} \cup {new}
      /\ now' = now + 1
  BY DEF OpenArchive, history
<1>3. new \in Archives /\ new \in zips' /\ new.of = d
  BY <1>1, <1>2 DEF DumpInv, Typed, Archives
<1>4. Typed'
  BY <1>2, <1>3 DEF DumpInv, Typed, Archives
<1>5. Listed' /\ CopyMade'
  BY <1>1, <1>2, <1>3 DEF Listed, CopyMade
<1>6. CrashDumpKept'
  <2> SUFFICES ASSUME NEW c \in written \ purged
               PROVE  c \in dumps \/ \E z \in zips' : z.of = c /\ z.whole
    BY <1>2 DEF CrashDumpKept
  <2>1. CASE c = d
    BY <1>1, <2>1
  <2>2. CASE c # d
    BY <1>2, <2>2 DEF DumpInv, CrashDumpKept
  <2> QED BY <2>1, <2>2
<1> QED BY <1>4, <1>5, <1>6 DEF DumpInv

\* Closing it makes it complete, and changes no other.
LEMMA CloseArchiveDump == ASSUME DumpInv, CloseArchive PROVE DumpInv'
<1> DEFINE closed(z) == IF z.of = dump THEN [z EXCEPT !.whole = TRUE] ELSE z
<1>1. /\ pc = "zip" /\ pc' = "unlink" /\ zips' = {closed(z) : z \in zips}
      /\ UNCHANGED <<now, dumps, toArchive, dump, written, purged>>
  BY DEF CloseArchive, logClock, history
<1>2. \A z \in zips : /\ closed(z) \in Archives /\ closed(z).of = z.of
                      /\ closed(z).whole = (z.of = dump \/ z.whole)
  BY DEF DumpInv, Typed, Archives
<1>3. \A z \in zips : closed(z) \in zips'
  BY <1>1
<1>4. Typed'
  BY <1>1, <1>2 DEF DumpInv, Typed
<1>5. Listed'
  BY <1>1 DEF DumpInv, Listed
<1>6. CopyMade'
  <2>1. PICK z \in zips : z.of = dump
    BY <1>1 DEF DumpInv, CopyMade
  <2> QED BY <1>1, <1>2, <1>3, <2>1 DEF CopyMade
<1>7. CrashDumpKept'
  <2> SUFFICES ASSUME NEW c \in written \ purged, c \notin dumps
               PROVE  \E z \in zips' : z.of = c /\ z.whole
    BY <1>1 DEF CrashDumpKept
  <2>1. PICK z \in zips : z.of = c /\ z.whole
    BY DEF DumpInv, CrashDumpKept
  <2> QED BY <1>2, <1>3, <2>1
<1> QED BY <1>4, <1>5, <1>6, <1>7 DEF DumpInv

\* The dump is removed when its archive is complete.
LEMMA RemovedDump == ASSUME DumpInv, RemoveDump PROVE DumpInv'
<1>1. /\ pc = "unlink" /\ pc' = "archive" /\ dumps' = dumps \ {dump}
      /\ UNCHANGED <<now, zips, toArchive, written, purged>>
  BY DEF RemoveDump, AtRemoval, logClock, history
<1>2. Typed' /\ Listed' /\ CopyMade'
  BY <1>1 DEF DumpInv, Typed, Listed, CopyMade
<1>3. CrashDumpKept'
  BY <1>1 DEF DumpInv, CopyMade, CrashDumpKept
<1> QED BY <1>2, <1>3 DEF DumpInv

\* What the cap removes of a dump is counted as removed by the cap.
LEMMA RemoveFileDump == ASSUME DumpInv, NEW t \in targets, RemoveFile(t) PROVE DumpInv'
<1>1. pc' \in {"idle", "purge"} /\ UNCHANGED <<now, written>>
  BY DEF RemoveFile, GoOn, logClock
<1>2. Typed' /\ Listed' /\ CopyMade'
  BY <1>1 DEF RemoveFile, DumpInv, Typed, Listed, CopyMade
<1>3. CrashDumpKept'
  <2> SUFFICES ASSUME NEW c \in written \ purged'
               PROVE  c \in dumps' \/ \E z \in zips' : z.of = c /\ z.whole
    BY <1>1 DEF CrashDumpKept
  <2>1. c \in written \ purged /\ (t.dir # "logs" => c # t.name)
    BY DEF RemoveFile
  <2>2. CASE c \in dumps
    BY <2>1, <2>2 DEF RemoveFile
  <2>3. CASE \E z \in zips : z.of = c /\ z.whole
    <3>1. PICK z \in zips : z.of = c /\ z.whole
      BY <2>3
    <3>2. z \in zips'
      BY <2>1, <3>1 DEF RemoveFile
    <3> QED BY <3>1, <3>2
  <2> QED BY <2>1, <2>2, <2>3 DEF DumpInv, CrashDumpKept
<1> QED BY <1>2, <1>3 DEF DumpInv

\* Every step of a pass keeps the invariant.
LEMMA PassDump == DumpInv /\ Pass => DumpInv'
<1> SUFFICES ASSUME DumpInv, Pass PROVE DumpInv'
  OBVIOUS
<1>1. CASE BeginPass
  BY <1>1 DEF BeginPass, logClock, disk, DumpInv, Typed, Listed, CopyMade, CrashDumpKept
<1>2. CASE EndArchiving
  BY <1>2 DEF EndArchiving, logClock, disk, history, DumpInv, Typed, Listed, CopyMade, CrashDumpKept
<1>3. CASE ListLogs \/ (\E i \in toStat : StatLog(i)) \/ ListDumps \/ SizeUp
  <2>1. pc' \in {"stat", "size", "idle", "purge"}
    BY <1>3 DEF ListLogs, StatLog, ListDumps, SizeUp
  <2> QED BY <1>3, <2>1 DEF ListLogs, StatLog, ListDumps, SizeUp, logClock, disk, history, DumpInv, Typed,
          Listed, CopyMade, CrashDumpKept
<1>4. CASE ListFails
  BY <1>4 DEF ListFails, logClock, disk, history, DumpInv, Typed, Listed, CopyMade, CrashDumpKept
<1>5. ASSUME NEW t \in targets, RemoveFails(t) PROVE DumpInv'
  <2>1. pc' \in {"idle", "purge"}
    BY <1>5 DEF RemoveFails, GoOn
  <2> QED BY <1>5, <2>1 DEF RemoveFails, logClock, disk, DumpInv, Typed, Listed, CopyMade, CrashDumpKept
<1> QED BY <1>1, <1>2, <1>3, <1>4, <1>5, OpenArchiveDump, CloseArchiveDump, RemovedDump,
       RemoveFileDump DEF Pass

\* CrashDumpKept (_archive_old_crashes): archiving, failing and dying in any order
\* leaves a readable copy of every dump that the cap has not taken.
THEOREM DumpsKept == LogSpec => []CrashDumpKept
<1>1. LogInit => DumpInv
  BY InitDump
<1>2. DumpInv /\ [LogNext]_logVars => DumpInv'
  <2>1. DumpInv /\ LogNext => DumpInv'
    BY OthersDump, PassDump DEF LogNext
  <2>2. DumpInv /\ UNCHANGED logVars => DumpInv'
    BY DEF logVars, logClock, disk, pass, history, DumpInv, Typed, Listed, CopyMade, CrashDumpKept
  <2> QED BY <2>1, <2>2
<1>3. DumpInv => CrashDumpKept
  BY DEF DumpInv
<1> QED BY <1>1, <1>2, <1>3, PTL DEF LogSpec
-----------------------------------------------------------------------------
(* Counting *)

\* Positions above k with a log, and those that the listing still has.
Above(k) == {j \in Positions : j > k /\ rotated[j] # NoFile}
ListedAbove(k) ==
    {j \in Positions : j > k /\ (j \in toStat \/ \E t \in targets : t.dir = "logs" /\ t.name = j)}

\* Files that are not, or no longer, in the listing, older than one that is.
Passed == {f \in Files : f \notin targets /\ \E u \in targets : f.mtime < u.mtime}

\* No file is younger than now; the higher its position, the older a log; a dump
\* has one archive at most.
Dated ==
    /\ \A i \in Positions : rotated[i] <= now
    /\ \A d \in dumps : d <= now
    /\ \A z \in zips : z.stamp <= now
    /\ \A i, j \in Positions : i < j /\ rotated[i] # NoFile /\ rotated[j] # NoFile
                              => rotated[j] < rotated[i]
    /\ \A y, z \in zips : y.of = z.of => y.stamp = z.stamp

\* There is a listing while it is made and gone through.  It is as old as it is,
\* and has a path once; without a rotation, there is nothing else at a path.
Listing ==
    /\ BeingListed \/ pc = "purge" \/ (toStat = {} /\ targets = {})
    /\ pc # "stat" => toStat = {}
    /\ pc = "purge" => targets # {}
    /\ pc = "stat" => \A t \in targets : t.dir = "logs"
    /\ \A t \in targets : t.mtime <= now
    /\ \A t \in targets : t.dir = "logs" => t.name \in Positions /\ t.name \notin toStat
    /\ \A t \in targets : t.dir # "logs" => t.name \in Stamps
    /\ \A t \in targets : t.dir = "dumps" => t.name = t.mtime
    /\ \A t, u \in targets : t.dir = u.dir /\ t.name = u.name => t = u
    /\ rotations = 0 => \A t \in targets : Found(t) \subseteq {t}

\* Rotations only move logs up, one position each: a log that seems no older
\* than t, by the times that were read, is above t by as many rotations at most
\* as the listing had.
Ordered ==
    \A t \in targets : t.dir = "logs" =>
        /\ \A u \in targets : u.dir = "logs" /\ t.mtime <= u.mtime => u.name <= t.name + torn
        /\ BeingListed => \A j \in Positions : rotated[j] # NoFile =>
             /\ t.mtime <= rotated[j] => j <= t.name + torn
             /\ rotated[j] <= t.mtime => t.name <= j

\* What is older than the next file to be removed: what a removal that failed has
\* left, and the logs that rotations have moved out of the listing's reach.
Overtaken ==
    /\ pc = "stat" /\ rotations = 0 =>
         \A i \in Positions : rotated[i] # NoFile => i \in toStat \/ LogFile(i) \in targets
    /\ pc \in {"size", "purge"} /\ rotations = 0 => Cardinality(Passed) <= refused
    /\ BeingListed \/ pc = "purge" =>
         \A k \in 0..Backups :
            Cardinality(Above(k)) <= rotations + refused + Cardinality(ListedAbove(k))

\* The paths that the listing has or will have, if nothing new comes.
Path(f) == [dir |-> f.dir, name |-> f.name]
Due ==
    {Path(t) : t \in targets} \cup {[dir |-> "logs", name |-> i] : i \in toStat}
    \cup (IF pc = "stat" THEN {Path(f) : f \in {g \in Files : g.dir # "logs"}} ELSE {})

\* The file that a rotation in the midst of the listing hides from it.
Hidden == IF torn > 0 THEN 1 ELSE 0

\* What there is is what the pass reckons with, but for what was added.
Reckoned ==
    /\ BeingListed => Size <= Cardinality(Due) + grown + (IF full \/ torn > 0 THEN 1 ELSE 0)
    /\ pc = "purge" =>
         /\ Cardinality(targets) <= total /\ Size <= total + grown + Hidden
         /\ Size <= Cardinality(targets) + refused + 1 + grown

CountInv == LogTypeOK /\ Dated /\ Listing /\ Ordered /\ Overtaken /\ Reckoned

-----------------------------------------------------------------------------
(* Files *)

Entries == [dir : {"logs", "dumps", "zips"}, name : Stamps \cup Positions, mtime : Stamps]

\* A set is no larger than one that its elements can be told apart in.
LEMMA InjectionCount ==
    ASSUME NEW S, NEW T, IsFiniteSet(T), NEW f \in [S -> T],
           \A a, b \in S : f[a] = f[b] => a = b
    PROVE  IsFiniteSet(S) /\ Cardinality(S) <= Cardinality(T)
<1>1. f \in Injection(S, T)
  BY DEF Injection, IsInjective
<1> QED BY <1>1, FS_Injection

\* There are finitely many files that a listing could have.
LEMMA EntriesFinite == IsFiniteSet(Entries)
<1> DEFINE D == {"logs"} \cup {"dumps"} \cup {"zips"}
           N == Stamps \cup Positions
           f == [e \in Entries |-> <<e.dir, <<e.name, e.mtime>>>>]
<1>1. IsFiniteSet(D)
  BY FS_Singleton, FS_Union
<1>2. IsFiniteSet(Stamps) /\ IsFiniteSet(Positions)
  BY LogAssumption, FS_Interval DEF Stamps, Positions
<1>3. IsFiniteSet(N)
  BY <1>2, FS_Union
<1>4. IsFiniteSet(N \X Stamps)
  BY <1>2, <1>3, FS_Product
<1>5. IsFiniteSet(D \X (N \X Stamps))
  BY <1>1, <1>4, FS_Product
<1>6. f \in [Entries -> D \X (N \X Stamps)]
  BY DEF Entries
<1>7. ASSUME NEW a \in Entries, NEW b \in Entries, f[a] = f[b] PROVE a = b
  BY <1>7 DEF Entries
<1> HIDE DEF f
<1> QED BY <1>5, <1>6, <1>7, InjectionCount

\* Sets of files can be counted.
LEMMA EntriesCounted ==
    ASSUME NEW S, S \subseteq Entries
    PROVE  IsFiniteSet(S) /\ Cardinality(S) \in Nat
BY EntriesFinite, FS_Subset, FS_CardinalityType

\* Sets of positions can be counted too.
LEMMA PositionsCounted ==
    ASSUME NEW S, S \subseteq Positions
    PROVE  IsFiniteSet(S) /\ Cardinality(S) \in Nat
<1>1. IsFiniteSet(Positions)
  BY LogAssumption, FS_Interval DEF Positions
<1> QED BY <1>1, FS_Subset, FS_CardinalityType

\* What a listing has is a file of one of the three kinds.
LEMMA FileCases ==
    ASSUME NEW f
    PROVE  f \in Files <=>
             \/ \E i \in Positions : rotated[i] # NoFile /\ f = LogFile(i)
             \/ \E d \in dumps : f = DumpFile(d)
             \/ \E z \in zips : f = ZipFile(z)
BY DEF Files

\* Every file is one that a listing could have.
LEMMA FilesTyped == ASSUME LogTypeOK PROVE Files \subseteq Entries
<1> SUFFICES ASSUME NEW f \in Files PROVE f \in Entries
  OBVIOUS
<1>1. ASSUME NEW i \in Positions, f = LogFile(i) PROVE f \in Entries
  BY <1>1 DEF LogTypeOK, LogFile, Entries
<1>2. ASSUME NEW d \in dumps, f = DumpFile(d) PROVE f \in Entries
  BY <1>2 DEF LogTypeOK, DumpFile, Entries
<1>3. ASSUME NEW z \in zips, f = ZipFile(z) PROVE f \in Entries
  BY <1>3 DEF LogTypeOK, ZipFile, Entries
<1> QED BY <1>1, <1>2, <1>3, FileCases

\* The files are those of the three directories, and nothing else.
LEMMA FilesSame == ASSUME UNCHANGED <<rotated, dumps, zips>> PROVE Files' = Files
BY DEF Files, LogFile, DumpFile, ZipFile

\* A dump is one file more.
LEMMA FilesDump ==
    ASSUME WriteDump
    PROVE  Files' = Files \cup {[dir |-> "dumps", name |-> now + 1, mtime |-> now + 1]}
BY DEF WriteDump, Files, LogFile, DumpFile, ZipFile

\* The cap removes what is at a path.
LEMMA FilesRemoved ==
    ASSUME LogTypeOK, NEW t \in targets, RemoveFile(t), t.dir = "logs" => t.name \in Positions
    PROVE  Files' = Files \ Found(t)
<1>1. t.dir \in {"logs", "dumps", "zips"}
  BY DEF LogTypeOK
<1> SUFFICES ASSUME NEW f PROVE f \in Files' <=> f \in Files /\ f \notin Found(t)
  OBVIOUS
<1>2. f \in Files' <=>
        \/ \E i \in Positions : rotated'[i] # NoFile /\ f = [dir |-> "logs", name |-> i, mtime |-> rotated'[i]]
        \/ \E d \in dumps' : f = [dir |-> "dumps", name |-> d, mtime |-> d]
        \/ \E z \in zips' : f = [dir |-> "zips", name |-> z.of, mtime |-> z.stamp]
  BY DEF Files, LogFile, DumpFile, ZipFile
<1>3. f \in Files <=>
        \/ \E i \in Positions : rotated[i] # NoFile /\ f = [dir |-> "logs", name |-> i, mtime |-> rotated[i]]
        \/ \E d \in dumps : f = [dir |-> "dumps", name |-> d, mtime |-> d]
        \/ \E z \in zips : f = [dir |-> "zips", name |-> z.of, mtime |-> z.stamp]
  BY FileCases DEF LogFile, DumpFile, ZipFile
<1>4. f \in Found(t) <=> f \in Files /\ f.dir = t.dir /\ f.name = t.name
  BY DEF Found
<1>5. CASE t.dir = "logs"
  <2>1. /\ rotated' = [rotated EXCEPT ![t.name] = NoFile] /\ dumps' = dumps /\ zips' = zips
        /\ t.name \in Positions /\ rotated \in [Positions -> Stamps]
    BY <1>5 DEF RemoveFile, LogTypeOK
  <2>2. \A i \in Positions : rotated'[i] # NoFile <=> rotated[i] # NoFile /\ i # t.name
    BY <2>1
  <2>3. \A i \in Positions : i # t.name => rotated'[i] = rotated[i]
    BY <2>1
  <2> QED BY <1>2, <1>3, <1>4, <1>5, <2>1, <2>2, <2>3
<1>6. CASE t.dir = "dumps"
  <2>1. rotated' = rotated /\ dumps' = dumps \ {t.name} /\ zips' = zips
    BY <1>6 DEF RemoveFile
  <2> QED BY <1>2, <1>3, <1>4, <1>6, <2>1
<1>7. CASE t.dir = "zips"
  <2>1. rotated' = rotated /\ dumps' = dumps /\ zips' = {z \in zips : z.of # t.name}
    BY <1>7 DEF RemoveFile
  <2> QED BY <1>2, <1>3, <1>4, <1>7, <2>1
<1> QED BY <1>1, <1>5, <1>6, <1>7

-----------------------------------------------------------------------------
(* The types of the log directories. *)

\* The types hold in an empty directory,
LEMMA LogTypeInit == LogInit => LogTypeOK
<1>1. 0 \in Stamps /\ NoFile \in Stamps /\ 0 \in 0..MaxKills
  BY LogAssumption DEF Stamps, NoFile
<1> SUFFICES ASSUME LogInit PROVE LogTypeOK
  OBVIOUS
<1>2. rotated \in [Positions -> Stamps]
  BY <1>1 DEF LogInit
<1> QED BY <1>1, <1>2 DEF LogInit, LogTypeOK

\* Where the pass goes on, it has less to do.
LEMMA GoOnType ==
    ASSUME LogTypeOK, NEW t \in targets, NEW size \in Nat, NEW fits, GoOn(t, size, fits)
    PROVE  /\ pc' \in {"idle", "purge"} /\ targets' \subseteq targets /\ total' \in Nat
           /\ pc' = "purge" =>
                ~fits /\ targets' = targets \ {t} /\ targets' # {} /\ total' = size
           /\ pc' # "purge" => fits \/ targets = {t}
BY DEF GoOn, LogTypeOK

\* There is something to remove and the size counts it.
LEMMA TotalPositive ==
    ASSUME LogTypeOK, Reckoned, pc = "purge", NEW t \in targets
    PROVE  total - 1 \in Nat
<1>1. targets \subseteq Entries
  BY DEF LogTypeOK, Entries
<1>2. Cardinality(targets) \in Nat /\ Cardinality(targets) # 0
  BY <1>1, EntriesCounted, FS_EmptySet
<1> QED BY <1>2 DEF Reckoned, LogTypeOK

\* and every step keeps them; that total_size stays a natural number takes
\* Reckoned.
LEMMA LogTypeStep ==
    ASSUME LogTypeOK, Listing, Reckoned, [LogNext]_logVars
    PROVE  LogTypeOK'
<1> USE DEF LogTypeOK
<1>n. \A n \in Nat : Noted(n) \in Nat
  BY DEF Noted
<1>1. CASE FillLog
  BY <1>1, <1>n DEF FillLog, logClock, pass
<1>2. CASE RollOver
  <2>1. now' \in Stamps /\ now' = now + 1
    BY <1>2, LogAssumption DEF RollOver, Stamps
  <2>2. \A i \in Positions : i # 1 => i - 1 \in Positions
    BY LogAssumption DEF Positions
  <2>3. rotated' \in [Positions -> Stamps]
    BY <1>2, <2>1, <2>2 DEF RollOver
  <2>4. rotations' \in Nat /\ torn' \in Nat
    BY <1>2, <1>n DEF RollOver
  <2>5. UNCHANGED <<weekAgo, dumps, zips, expired, pass, written, purged, grown, refused, kills>> /\ full' = FALSE
    BY <1>2 DEF RollOver
  <2> QED BY <2>1, <2>3, <2>4, <2>5 DEF pass
<1>3. CASE WriteDump
  <2>1. now' \in Stamps /\ now' = now + 1
    BY <1>3, LogAssumption DEF WriteDump, Stamps
  <2> QED BY <1>3, <1>n, <2>1 DEF WriteDump, pass
<1>4. CASE TimePasses
  <2>1. weekAgo' \in Stamps
    BY <1>4, LogAssumption DEF TimePasses, Stamps
  <2> QED BY <1>4, <2>1 DEF TimePasses, disk, pass, history
<1>5. CASE Kill
  <2>1. NoFile \in Stamps
    BY LogAssumption DEF Stamps, NoFile
  <2> QED BY <1>5, <2>1, LogAssumption DEF Kill, logClock, disk
<1>6. CASE BeginPass
  BY <1>6 DEF BeginPass, logClock, disk
<1>7. ASSUME NEW d \in toArchive, OpenArchive(d) PROVE LogTypeOK'
  <2>1. now' \in Stamps
    BY <1>7, LogAssumption DEF OpenArchive, Stamps
  <2>2. d \in Stamps
    OBVIOUS
  <2> DEFINE new == [of |-> d, stamp |-> now', whole |-> FALSE]
  <2>3. zips' \subseteq [of : Stamps, stamp : Stamps, whole : BOOLEAN]
    <3>1. new \in [of : Stamps, stamp : Stamps, whole : BOOLEAN]
      BY <2>1, <2>2
    <3>2. zips' = {z \in zips : z.of # d} \cup {new}
      BY <1>7 DEF OpenArchive
    <3> HIDE DEF new
    <3> QED BY <3>1, <3>2
  <2>4. /\ pc' = "zip" /\ dump' = d /\ toArchive' \subseteq toArchive
        /\ UNCHANGED <<weekAgo, full, rotated, dumps, expired, toStat, targets, total, history>>
    BY <1>7 DEF OpenArchive
  <2> QED BY <2>1, <2>2, <2>3, <2>4 DEF history
<1>8. CASE CloseArchive
  <2>1. \A z \in zips : (IF z.of = dump THEN [z EXCEPT !.whole = TRUE] ELSE z)
                          \in [of : Stamps, stamp : Stamps, whole : BOOLEAN]
    OBVIOUS
  <2> QED BY <1>8, <2>1 DEF CloseArchive, logClock, history
<1>9. CASE RemoveDump
  BY <1>9 DEF RemoveDump, AtRemoval, logClock, history
<1>10. CASE EndArchiving
  <2>1. NoFile \in Stamps
    BY LogAssumption DEF Stamps, NoFile
  <2> QED BY <1>10, <2>1 DEF EndArchiving, logClock, disk, history
<1>11. CASE ListLogs \/ ListDumps
  <2>1. Files \subseteq Entries
    BY FilesTyped
  <2>2. targets' \subseteq Entries /\ toStat' \subseteq Positions /\ pc' \in {"stat", "size"}
    BY <1>11, <2>1 DEF ListLogs, ListDumps, Entries
  <2>3. UNCHANGED <<logClock, disk, expired, toArchive, dump, total, history>>
    BY <1>11 DEF ListLogs, ListDumps
  <2>4. rotated' \in [Positions -> Stamps] /\ zips' \subseteq [of : Stamps, stamp : Stamps, whole : BOOLEAN]
    BY <2>3 DEF disk
  <2>5. targets' \subseteq [dir : {"logs", "dumps", "zips"}, name : Stamps \cup Positions, mtime : Stamps]
    BY <2>2 DEF Entries
  <2> QED BY <2>2, <2>3, <2>4, <2>5 DEF logClock, disk, history
<1>12. ASSUME NEW i \in toStat, StatLog(i) PROVE LogTypeOK'
  <2>1. LogFile(i) \in Entries
    BY <1>12, FilesTyped, FileCases DEF StatLog
  <2>2. targets' \subseteq Entries /\ toStat' \subseteq Positions
    BY <1>12, <2>1 DEF StatLog, Entries
  <2> QED BY <1>12, <2>2 DEF StatLog, logClock, disk, history, Entries
<1>16. CASE SizeUp
  <2>1. Cardinality(targets) \in Nat
    BY EntriesCounted DEF Entries
  <2>2. targets' \subseteq targets /\ total' \in Nat /\ pc' \in {"purge", "idle"}
    BY <1>16, <2>1 DEF SizeUp
  <2> QED BY <1>16, <2>2 DEF SizeUp, logClock, disk, history
<1>17. CASE ListFails
  BY <1>17 DEF ListFails, logClock, disk, history
<1>13. ASSUME NEW t \in targets, RemoveFile(t) PROVE LogTypeOK'
  <2>1. total - 1 \in Nat
    BY <1>13, TotalPositive DEF RemoveFile
  <2>2. pc' \in {"idle", "purge"} /\ targets' \subseteq targets /\ total' \in Nat
    BY <1>13, <2>1, GoOnType DEF RemoveFile
  <2>3. rotated' \in [Positions -> Stamps]
    <3>1. NoFile \in Stamps
      BY LogAssumption DEF Stamps, NoFile
    <3> QED BY <1>13, <3>1 DEF RemoveFile
  <2>4. dumps' \subseteq dumps /\ zips' \subseteq zips
    BY <1>13 DEF RemoveFile
  <2>5. purged' \subseteq Stamps
    BY <1>13 DEF RemoveFile, Listing
  <2>6. UNCHANGED <<logClock, full, expired, toArchive, dump, toStat, written, grown, rotations, torn, refused, kills>>
    BY <1>13 DEF RemoveFile
  <2> QED BY <2>2, <2>3, <2>4, <2>5, <2>6 DEF logClock
<1>14. ASSUME NEW t \in targets, RemoveFails(t) PROVE LogTypeOK'
  <2>1. pc' \in {"idle", "purge"} /\ targets' \subseteq targets /\ total' \in Nat
    BY <1>14, GoOnType DEF RemoveFails
  <2> QED BY <1>14, <1>n, <2>1 DEF RemoveFails, logClock, disk
<1>15. CASE UNCHANGED logVars
  BY <1>15 DEF logVars, logClock, disk, pass, history
<1> QED BY <1>1, <1>2, <1>3, <1>4, <1>5, <1>6, <1>7, <1>8, <1>9, <1>10, <1>11, <1>12,
           <1>13, <1>14, <1>15, <1>16, <1>17 DEF LogNext, Others, Pass

-----------------------------------------------------------------------------
(* The times in the log directories. *)

\* An empty directory is in order.
LEMMA DatedInit == LogInit => Dated
BY DEF LogInit, Dated, NoFile

\* No file is younger than now.
LEMMA FilesDated == ASSUME Dated PROVE \A f \in Files : f.mtime <= now
BY FileCases DEF Dated, LogFile, DumpFile, ZipFile

\* Whatever writes a file writes the youngest, and a rotation keeps the order of
\* the logs.
LEMMA DatedStep ==
    ASSUME LogTypeOK, Listing, Dated, [LogNext]_logVars
    PROVE  Dated'
<1>n. now \in Nat /\ now < now + 1
  BY LogAssumption DEF LogTypeOK, Stamps
<1>l. \A n \in Stamps : n <= now => n <= now + 1
  BY <1>n, LogAssumption DEF Stamps
<1>s. \A x \in Stamps, y \in Stamps : x = y => x <= y
  BY LogAssumption DEF Stamps
<1>t. /\ rotated \in [Positions -> Stamps] /\ dumps \subseteq Stamps
      /\ zips \subseteq [of : Stamps, stamp : Stamps, whole : BOOLEAN]
  BY DEF LogTypeOK
<1>1. ASSUME now' = now, rotated' = rotated, dumps' \subseteq dumps, zips' \subseteq zips
      PROVE  Dated'
  BY <1>1 DEF Dated
<1>2. CASE FillLog \/ TimePasses \/ Kill \/ BeginPass \/ RemoveDump \/ EndArchiving
           \/ ListLogs \/ (\E i \in toStat : StatLog(i)) \/ ListDumps \/ SizeUp
           \/ ListFails \/ UNCHANGED logVars
  BY <1>1, <1>2 DEF FillLog, TimePasses, Kill, BeginPass, RemoveDump, EndArchiving, ListLogs,
     StatLog, ListDumps, SizeUp, ListFails, logVars, logClock, disk, pass, history
<1>3. CASE WriteDump
  <2>1. now' = now + 1 /\ dumps' = dumps \cup {now + 1} /\ UNCHANGED <<rotated, zips>>
    BY <1>3 DEF WriteDump
  <2> QED BY <1>n, <1>l, <1>t, <2>1 DEF Dated
<1>4. CASE RollOver
  <2>1. /\ now' = now + 1 /\ UNCHANGED <<dumps, zips>>
        /\ rotated' = [i \in Positions |->
             IF i = 1 THEN now + 1
             ELSE IF i = Backups /\ rotated[i - 1] = NoFile THEN rotated[i]
             ELSE rotated[i - 1]]
    BY <1>4 DEF RollOver
  <2>2. Positions \subseteq Nat /\ \A i \in Positions : i <= Backups /\ (i # 1 => i - 1 \in Positions)
    BY LogAssumption DEF Positions
  <2>3. \A i \in Positions : rotated'[i] <= now + 1
    BY <1>n, <1>l, <1>t, <2>1, <2>2 DEF Dated
  <2>4. ASSUME NEW i \in Positions, NEW j \in Positions, i < j,
               rotated'[i] # NoFile, rotated'[j] # NoFile
        PROVE  rotated'[j] < rotated'[i]
    <3>1. /\ j # 1 /\ j - 1 \in Positions /\ i <= j - 1 /\ i # Backups
          /\ i # 1 => i - 1 \in Positions /\ i - 1 < j - 1 /\ i - 1 < j
      BY <2>2, <2>4, LogAssumption
    <3>2. PICK m \in {j - 1, j} : m \in Positions /\ rotated'[j] = rotated[m]
      BY <2>1, <2>4, <3>1
    <3>3. CASE i = 1
      <4>1. rotated'[i] = now + 1 /\ rotated[m] <= now /\ rotated[m] \in Nat
        BY <1>t, <2>1, <3>2, <3>3, LogAssumption DEF Dated, Stamps
      <4> QED BY <1>n, <3>2, <4>1
    <3>4. CASE i # 1
      <4>1. rotated'[i] = rotated[i - 1] /\ i - 1 \in Positions /\ i - 1 < m
        BY <2>1, <3>1, <3>2, <3>4
      <4> QED BY <2>4, <3>2, <4>1 DEF Dated
    <3> QED BY <3>3, <3>4
  <2> QED BY <1>l, <1>t, <2>1, <2>3, <2>4 DEF Dated
<1>5. ASSUME NEW d \in toArchive, OpenArchive(d) PROVE Dated'
  <2> DEFINE new == [of |-> d, stamp |-> now + 1, whole |-> FALSE]
  <2>1. /\ now' = now + 1 /\ UNCHANGED <<rotated, dumps>>
        /\ zips' = {z \in zips : z.of # d} \cup {new}
    BY <1>5 DEF OpenArchive
  <2>2. new.of = d /\ new.stamp = now + 1
    OBVIOUS
  <2> HIDE DEF new
  <2>3. \A z \in zips' : z.stamp <= now + 1
    BY <1>n, <1>l, <1>t, <2>1, <2>2 DEF Dated
  <2>4. \A y, z \in zips' : y.of = z.of => y.stamp = z.stamp
    BY <2>1, <2>2 DEF Dated
  <2> QED BY <1>l, <1>t, <2>1, <2>3, <2>4 DEF Dated
<1>6. CASE CloseArchive
  <2> DEFINE closed(z) == IF z.of = dump THEN [z EXCEPT !.whole = TRUE] ELSE z
  <2>1. UNCHANGED <<now, rotated, dumps>> /\ zips' = {closed(z) : z \in zips}
    BY <1>6 DEF CloseArchive, logClock
  <2>2. \A z \in zips : closed(z).of = z.of /\ closed(z).stamp = z.stamp
    BY <1>t
  <2>3. \A y \in zips' : \E z \in zips : y.of = z.of /\ y.stamp = z.stamp
    BY <2>1, <2>2
  <2> QED BY <2>1, <2>3 DEF Dated
<1>7. ASSUME NEW t \in targets, RemoveFile(t) PROVE Dated'
  <2>1. now' = now /\ dumps' \subseteq dumps /\ zips' \subseteq zips
    BY <1>7 DEF RemoveFile, logClock
  <2>2. \A i \in Positions : rotated'[i] = rotated[i] \/ rotated'[i] = NoFile
    BY <1>7, <1>t DEF RemoveFile
  <2>3. \A i \in Positions : rotated'[i] <= now
    BY <1>n, <1>t, <2>2 DEF Dated, NoFile
  <2> QED BY <2>1, <2>2, <2>3 DEF Dated
<1>8. ASSUME NEW t \in targets, RemoveFails(t) PROVE Dated'
  BY <1>1, <1>8 DEF RemoveFails, logClock, disk
<1> QED BY <1>2, <1>3, <1>4, <1>5, <1>6, <1>7, <1>8 DEF LogNext, Others, Pass

-----------------------------------------------------------------------------
(* The listing. *)

\* A directory has one file of a name, and the logs are in order.
LEMMA FilesListed ==
    ASSUME LogTypeOK, Dated
    PROVE  /\ \A f \in Files : f.dir = "logs" => f.name \in Positions /\ f.mtime = rotated[f.name]
                                                /\ rotated[f.name] # NoFile
           /\ \A f \in Files : f.dir # "logs" => f.name \in Stamps
           /\ \A f \in Files : f.dir = "dumps" => f.name = f.mtime
           /\ \A f, g \in Files : f.dir = g.dir /\ f.name = g.name => f = g
           /\ \A f, g \in Files : f.dir = "logs" /\ g.dir = "logs" /\ f.name < g.name
                                    => g.mtime < f.mtime
<1>1. \A f \in Files : f.dir = "logs" =>
        f.name \in Positions /\ f = LogFile(f.name) /\ rotated[f.name] # NoFile
  BY FileCases DEF LogFile, DumpFile, ZipFile
<1>2. \A f \in Files : f.dir = "dumps" => f.name \in dumps /\ f = DumpFile(f.name)
  BY FileCases DEF LogFile, DumpFile, ZipFile
<1>3. \A f \in Files : f.dir = "zips" => \E z \in zips : f = ZipFile(z)
  BY FileCases DEF LogFile, DumpFile, ZipFile
<1>4. \A f \in Files : f.dir \in {"logs", "dumps", "zips"}
  BY FilesTyped DEF Entries
<1>5. \A f \in Files : f.dir # "logs" => f.name \in Stamps
  BY <1>2, <1>3, <1>4 DEF LogTypeOK, ZipFile
<1>6. ASSUME NEW f \in Files, NEW g \in Files, f.dir = g.dir, f.name = g.name PROVE f = g
  <2>1. CASE f.dir = "zips"
    <3>1. PICK y \in zips : f = ZipFile(y)
      BY <1>3, <2>1
    <3>2. PICK z \in zips : g = ZipFile(z)
      BY <1>3, <1>6, <2>1
    <3> QED BY <1>6, <3>1, <3>2 DEF ZipFile, Dated
  <2> QED BY <1>1, <1>2, <1>4, <1>6, <2>1
<1>7. \A f, g \in Files : f.dir = "logs" /\ g.dir = "logs" /\ f.name < g.name
                            => g.mtime < f.mtime
  BY <1>1 DEF LogFile, Dated
<1> QED BY <1>1, <1>2, <1>5, <1>6, <1>7 DEF LogFile, DumpFile

\* What has been listed stays as it was listed, and files come and go elsewhere.
LEMMA ListingStep ==
    ASSUME LogTypeOK, Dated, Listing, [LogNext]_logVars
    PROVE  Listing'
<1>n. now \in Nat /\ \A t \in targets : t.mtime \in Nat
  BY LogAssumption DEF LogTypeOK, Stamps
<1>1. ASSUME targets' \subseteq targets, toStat' \subseteq toStat, now' = now \/ now' = now + 1,
             \/ targets' = {} /\ toStat' = {} /\ pc' # "purge"
             \/ BeingListed /\ pc' = pc
             \/ pc' = "purge" /\ targets' # {} /\ pc \in {"size", "purge"},
             rotations' = 0 => rotations = 0 /\ \A t \in targets' : Found(t)' \subseteq {t}
      PROVE  Listing'
  <2>1. \A t \in targets' : t.mtime <= now'
    BY <1>1, <1>n DEF Listing
  <2> QED BY <1>1, <2>1 DEF Listing, BeingListed
<1>2. ASSUME Files' \subseteq Files \/ Files' = Files
      PROVE  \A t : Found(t)' \subseteq Found(t)
  BY <1>2 DEF Found
<1>p. \/ BeingListed
      \/ pc = "purge" /\ toStat = {} /\ targets # {}
      \/ targets = {} /\ toStat = {} /\ pc # "purge"
  BY DEF Listing, BeingListed
<1>3. CASE FillLog \/ TimePasses \/ UNCHANGED logVars
  <2>1. /\ UNCHANGED <<pc, toStat, targets, now, rotated, dumps, zips, rotations>>
    BY <1>3 DEF FillLog, TimePasses, logVars, logClock, disk, pass, history
  <2>2. \A t : Found(t)' \subseteq Found(t)
    BY <1>2, <2>1, FilesSame
  <2>3. rotations' = 0 => rotations = 0 /\ \A t \in targets' : Found(t)' \subseteq {t}
    BY <2>1, <2>2 DEF Listing
  <2> QED BY <1>1, <1>p, <2>1, <2>3
<1>4. CASE RollOver
  <2>1. UNCHANGED <<pc, toStat, targets>> /\ now' = now + 1 /\ rotations' = Noted(rotations)
    BY <1>4 DEF RollOver, pass
  <2>2. targets # {} => rotations' # 0
    BY <1>p, <2>1 DEF LogTypeOK, Noted
  <2>3. CASE targets = {} /\ toStat = {} /\ pc # "purge"
    BY <2>1, <2>3 DEF Listing, BeingListed
  <2>4. CASE BeingListed \/ pc = "purge"
    <3>1. rotations' # 0
      BY <2>1, <2>4 DEF LogTypeOK, Noted
    <3> QED BY <1>1, <1>p, <2>1, <3>1
  <2> QED BY <1>p, <2>3, <2>4
<1>5. CASE WriteDump
  <2>1. UNCHANGED <<pc, toStat, targets, rotations>> /\ now' = now + 1
    BY <1>5 DEF WriteDump, pass
  <2>2. ASSUME NEW t \in targets PROVE Found(t)' \subseteq Found(t)
    <3>1. t.dir = "dumps" => t.name <= now /\ t.name \in Nat
      BY LogAssumption DEF Listing, LogTypeOK, Stamps
    <3>2. ~(t.dir = "dumps" /\ t.name = now + 1)
      BY <1>n, <3>1
    <3> QED BY <1>5, <3>2, FilesDump DEF Found
  <2>3. rotations' = 0 => rotations = 0 /\ \A t \in targets' : Found(t)' \subseteq {t}
    BY <2>1, <2>2 DEF Listing
  <2> QED BY <1>1, <1>p, <2>1, <2>3
<1>6. CASE ListLogs
  <2>1. pc' = "stat" /\ targets' = {} /\ targets = {}
    BY <1>6 DEF ListLogs, Listing, BeingListed
  <2> QED BY <2>1 DEF Listing, BeingListed
<1>7. ASSUME NEW i \in toStat, StatLog(i) PROVE Listing'
  <2> DEFINE g == LogFile(i)
  <2>1. /\ pc = "stat" /\ pc' = "stat" /\ UNCHANGED <<now, rotated, dumps, zips, rotations>>
        /\ toStat' = toStat \ {i} /\ targets' = targets \cup {g}
        /\ i \in Positions /\ rotated[i] # NoFile
    BY <1>7 DEF StatLog, logClock, disk, history, LogTypeOK
  <2>2. Files' = Files /\ g \in Files
    BY <2>1, FilesSame, FileCases
  <2>3. g.dir = "logs" /\ g.name = i /\ g.mtime <= now
    BY <2>2, FilesDated DEF LogFile
  <2>4. Found(g) \subseteq {g} /\ \A t : Found(t)' = Found(t)
    BY <2>2, FilesListed DEF Found
  <2>5. \A t \in targets : ~(t.dir = "logs" /\ t.name = i)
    BY DEF Listing
  <2> HIDE DEF g
  <2>6. /\ \A t \in targets' : t.mtime <= now'
        /\ \A t \in targets' : t.dir = "logs" => t.name \in Positions /\ t.name \notin toStat'
        /\ \A t \in targets' : t.dir = "logs"
    BY <2>1, <2>3, <2>5 DEF Listing
  <2>7. \A t, u \in targets' : t.dir = u.dir /\ t.name = u.name => t = u
    BY <2>1, <2>3, <2>5 DEF Listing
  <2>8. rotations' = 0 => \A t \in targets' : Found(t)' \subseteq {t}
    BY <2>1, <2>4 DEF Listing
  <2> QED BY <2>1, <2>6, <2>7, <2>8 DEF Listing, BeingListed
<1>8. CASE ListDumps
  <2> DEFINE D == {f \in Files : f.dir # "logs"}
  <2>1. /\ pc = "stat" /\ pc' = "size" /\ UNCHANGED <<now, rotated, dumps, zips, rotations, toStat>>
        /\ toStat = {} /\ targets' = targets \cup D
    BY <1>8 DEF ListDumps, logClock, disk, history
  <2>2. Files' = Files
    BY <2>1, FilesSame
  <2>3. \A g \in D : /\ g.dir # "logs" /\ g.mtime <= now /\ g.name \in Stamps
                     /\ g.dir = "dumps" => g.name = g.mtime
                     /\ Found(g) \subseteq {g}
    BY FilesDated, FilesListed DEF Found
  <2>4. \A g, h \in D : g.dir = h.dir /\ g.name = h.name => g = h
    BY FilesListed
  <2>5. \A t : Found(t)' = Found(t)
    BY <2>2 DEF Found
  <2>6. \A t \in targets : t.dir = "logs" /\ t.mtime <= now /\ t.name \in Positions
    BY <2>1 DEF Listing
  <2> HIDE DEF D
  <2>7. \A t, u \in targets' : t.dir = u.dir /\ t.name = u.name => t = u
    BY <2>1, <2>3, <2>4, <2>6 DEF Listing
  <2>8. rotations' = 0 => \A t \in targets' : Found(t)' \subseteq {t}
    BY <2>1, <2>3, <2>5 DEF Listing
  <2>9. /\ \A t \in targets' : t.mtime <= now'
        /\ \A t \in targets' : t.dir = "logs" => t.name \in Positions /\ t.name \notin toStat'
        /\ \A t \in targets' : t.dir # "logs" => t.name \in Stamps
        /\ \A t \in targets' : t.dir = "dumps" => t.name = t.mtime
    BY <2>1, <2>3, <2>6
  <2> QED BY <2>1, <2>7, <2>8, <2>9 DEF Listing, BeingListed
<1>9. CASE SizeUp \/ (\E t \in targets : RemoveFails(t))
  <2>1. /\ pc \in {"size", "purge"} /\ UNCHANGED <<now, rotations, rotated, dumps, zips, toStat>>
        /\ targets' \subseteq targets
        /\ \/ targets' = {} /\ pc' = "idle"
           \/ targets' # {} /\ pc' = "purge"
    BY <1>9 DEF SizeUp, RemoveFails, GoOn, logClock, disk, history
  <2>2. \A t : Found(t)' \subseteq Found(t)
    BY <1>2, <2>1, FilesSame
  <2>3. toStat = {}
    BY <2>1 DEF Listing
  <2>4. rotations' = 0 => rotations = 0 /\ \A t \in targets' : Found(t)' \subseteq {t}
    BY <2>1, <2>2 DEF Listing
  <2> QED BY <1>1, <2>1, <2>3, <2>4
<1>10. ASSUME NEW t \in targets, RemoveFile(t) PROVE Listing'
  <2>1. pc = "purge" /\ UNCHANGED <<now, rotations, toStat>>
    BY <1>10 DEF RemoveFile, logClock
  <2>2. /\ targets' \subseteq targets
        /\ \/ targets' = {} /\ pc' = "idle"
           \/ targets' # {} /\ pc' = "purge"
    BY <1>10 DEF RemoveFile, GoOn
  <2>3. Files' \subseteq Files
    BY <1>10, <2>1, FilesRemoved DEF Listing
  <2>4. toStat = {}
    BY <2>1 DEF Listing
  <2>5. rotations' = 0 => rotations = 0 /\ \A u \in targets' : Found(u)' \subseteq {u}
    BY <1>2, <2>1, <2>2, <2>3 DEF Listing
  <2> QED BY <1>1, <2>1, <2>2, <2>4, <2>5
<1>11. CASE Kill \/ ListFails
  BY <1>11 DEF Kill, ListFails, Listing, BeingListed
<1>12. CASE BeginPass \/ (\E d \in toArchive : OpenArchive(d)) \/ CloseArchive
           \/ RemoveDump \/ EndArchiving
  <2>1. /\ ~BeingListed /\ pc # "purge" /\ pc' \in {"archive", "zip", "unlink", "list"}
        /\ UNCHANGED <<targets, toStat>>
    BY <1>12 DEF BeginPass, OpenArchive, CloseArchive, RemoveDump, AtRemoval, EndArchiving, BeingListed
  <2> QED BY <2>1 DEF Listing, BeingListed
<1> QED BY <1>3, <1>4, <1>5, <1>6, <1>7, <1>8, <1>9, <1>10, <1>11, <1>12 DEF LogNext, Others, Pass

\* What was read and what there is stay in the order of their ages, up to the
\* rotations that came in between.
LEMMA OrderedStep ==
    ASSUME LogTypeOK, Dated, Listing, Ordered, [LogNext]_logVars
    PROVE  Ordered'
<1>n. /\ now \in Nat /\ torn \in Nat /\ \A t \in targets : t.mtime \in Nat /\ t.mtime <= now
      /\ \A j \in Positions : j \in Nat /\ rotated[j] \in Nat
  BY LogAssumption DEF LogTypeOK, Stamps, Positions, Listing
<1>l. \A t \in targets : t.dir = "logs" => t.name \in Positions /\ t.name \in Nat /\ 1 <= t.name
  BY LogAssumption DEF Positions, Listing
<1>1. ASSUME targets' \subseteq targets, torn' = torn, rotated' = rotated,
             targets' # {} /\ BeingListed' => BeingListed
      PROVE  Ordered'
  BY <1>1 DEF Ordered
<1>2. CASE FillLog \/ WriteDump \/ TimePasses \/ UNCHANGED logVars
  BY <1>1, <1>2 DEF FillLog, WriteDump, TimePasses, logVars, logClock, disk, pass, history, BeingListed
<1>3. CASE SizeUp \/ (\E t \in targets : RemoveFails(t)) \/ ListFails \/ Kill
  BY <1>1, <1>3 DEF SizeUp, RemoveFails, GoOn, ListFails, Kill, logClock, disk, history, BeingListed
<1>4. CASE BeginPass \/ (\E d \in toArchive : OpenArchive(d)) \/ CloseArchive
           \/ RemoveDump \/ EndArchiving \/ ListLogs
  <2>1. targets' = targets /\ targets = {}
    BY <1>4 DEF BeginPass, OpenArchive, CloseArchive, RemoveDump, AtRemoval, EndArchiving, ListLogs,
       Listing, BeingListed
  <2> QED BY <2>1 DEF Ordered
<1>5. ASSUME NEW r \in targets, RemoveFile(r) PROVE Ordered'
  <2>1. targets' \subseteq targets /\ torn' = torn /\ ~BeingListed'
    BY <1>5 DEF RemoveFile, GoOn, BeingListed
  <2> QED BY <2>1 DEF Ordered
<1>6. CASE RollOver
  <2>1. UNCHANGED <<pc, targets>> /\ torn' = (IF BeingListed THEN torn + 1 ELSE torn)
    BY <1>6 DEF RollOver, pass
  <2>2. rotated' = [i \in Positions |->
             IF i = 1 THEN now + 1
             ELSE IF i = Backups /\ rotated[i - 1] = NoFile THEN rotated[i]
             ELSE rotated[i - 1]]
    BY <1>6 DEF RollOver
  <2>3. ASSUME NEW j \in Positions, j # 1
        PROVE  \E m \in Positions : rotated'[j] = rotated[m] /\ (m = j \/ m = j - 1)
    <3>1. j - 1 \in Positions
      BY <2>3, LogAssumption DEF Positions
    <3> QED BY <2>2, <2>3, <3>1
  <2>4. ASSUME NEW s \in targets, s.dir = "logs", NEW u \in targets, u.dir = "logs", s.mtime <= u.mtime
        PROVE  u.name <= s.name + torn'
    <3>1. u.name <= s.name + torn
      BY <2>4 DEF Ordered
    <3> QED BY <1>n, <1>l, <2>1, <2>4, <3>1
  <2>5. ASSUME NEW s \in targets, s.dir = "logs", BeingListed, NEW j \in Positions, rotated'[j] # NoFile
        PROVE  /\ s.mtime <= rotated'[j] => j <= s.name + torn'
               /\ rotated'[j] <= s.mtime => s.name <= j
    <3>s. s.name \in Nat /\ 1 <= s.name /\ s.mtime \in Nat /\ s.mtime <= now /\ torn' = torn + 1
      BY <1>n, <1>l, <2>1, <2>5
    <3>1. CASE j = 1
      <4>1. rotated'[j] = now + 1
        BY <2>2, <3>1
      <4> QED BY <1>n, <3>s, <3>1, <4>1
    <3>2. CASE j # 1
      <4>1. PICK m \in Positions : rotated'[j] = rotated[m] /\ (m = j \/ m = j - 1)
        BY <2>3, <3>2
      <4>2. /\ s.mtime <= rotated[m] => m <= s.name + torn
            /\ rotated[m] <= s.mtime => s.name <= m
        BY <2>5, <4>1 DEF Ordered
      <4> QED BY <1>n, <3>s, <4>1, <4>2
    <3> QED BY <3>1, <3>2
  <2> QED BY <2>1, <2>4, <2>5 DEF Ordered, BeingListed
<1>7. ASSUME NEW i \in toStat, StatLog(i) PROVE Ordered'
  <2> DEFINE g == LogFile(i)
  <2>1. /\ pc = "stat" /\ pc' = "stat" /\ UNCHANGED <<rotated, torn>> /\ targets' = targets \cup {g}
        /\ i \in Positions /\ rotated[i] # NoFile
    BY <1>7 DEF StatLog, disk, history, LogTypeOK
  <2>2. g.dir = "logs" /\ g.name = i /\ g.mtime = rotated[i] /\ g.mtime \in Nat
    BY <1>n, <2>1 DEF LogFile
  <2> HIDE DEF g
  <2>3. ASSUME NEW j \in Positions, rotated[j] # NoFile
        PROVE  /\ g.mtime <= rotated[j] => j <= i + torn
               /\ rotated[j] <= g.mtime => i <= j
    <3>1. /\ i < j => rotated[j] < rotated[i]
          /\ j < i => rotated[i] < rotated[j]
      BY <2>1, <2>3 DEF Dated
    <3> QED BY <1>n, <2>1, <2>2, <2>3, <3>1
  <2>4. ASSUME NEW s \in targets, s.dir = "logs"
        PROVE  /\ s.mtime <= g.mtime => i <= s.name + torn
               /\ g.mtime <= s.mtime => s.name <= i + torn
    <3>1. /\ s.mtime <= rotated[i] => i <= s.name + torn
          /\ rotated[i] <= s.mtime => s.name <= i
      BY <2>1, <2>4 DEF Ordered, BeingListed
    <3> QED BY <1>n, <1>l, <2>1, <2>2, <2>4, <3>1
  <2>5. i <= i + torn
    BY <1>n, <2>1
  <2>6. \A s \in targets' : s.dir = "logs" =>
          \A u \in targets' : u.dir = "logs" /\ s.mtime <= u.mtime => u.name <= s.name + torn'
    BY <2>1, <2>2, <2>4, <2>5 DEF Ordered
  <2>7. \A s \in targets' : s.dir = "logs" => \A j \in Positions : rotated'[j] # NoFile =>
             /\ s.mtime <= rotated'[j] => j <= s.name + torn'
             /\ rotated'[j] <= s.mtime => s.name <= j
    BY <2>1, <2>2, <2>3 DEF Ordered, BeingListed
  <2> QED BY <2>6, <2>7 DEF Ordered
<1>8. CASE ListDumps
  <2>1. /\ BeingListed /\ UNCHANGED <<rotated, torn>>
        /\ \A u \in targets' : u.dir = "logs" => u \in targets
    BY <1>8 DEF ListDumps, BeingListed, disk, history
  <2> QED BY <2>1 DEF Ordered
<1> QED BY <1>2, <1>3, <1>4, <1>5, <1>6, <1>7, <1>8 DEF LogNext, Others, Pass

-----------------------------------------------------------------------------
(* Counting. *)

\* One element more is one more at most.
LEMMA CountMore ==
    ASSUME NEW S, IsFiniteSet(S), NEW x
    PROVE  /\ IsFiniteSet(S \cup {x}) /\ Cardinality(S \cup {x}) \in Nat
           /\ Cardinality(S \cup {x}) <= Cardinality(S) + 1
<1>1. /\ IsFiniteSet(S \cup {x})
      /\ Cardinality(S \cup {x}) = IF x \in S THEN Cardinality(S) ELSE Cardinality(S) + 1
  BY FS_AddElement
<1>2. Cardinality(S) \in Nat /\ Cardinality(S \cup {x}) \in Nat
  BY <1>1, FS_CardinalityType
<1> QED BY <1>1, <1>2

\* A set that all but one of its elements are left in has lost one at most, and
\* one that was there when it is not any more.
LEMMA CountLess ==
    ASSUME NEW S, IsFiniteSet(S), NEW T, T \subseteq S, NEW x
    PROVE  /\ IsFiniteSet(T) /\ Cardinality(T) \in Nat /\ Cardinality(S) \in Nat
           /\ Cardinality(T) <= Cardinality(S)
           /\ x \in S /\ x \notin T => Cardinality(T) <= Cardinality(S) - 1
           /\ S \subseteq T \cup {x} => Cardinality(S) <= Cardinality(T) + 1
<1>1. IsFiniteSet(T) /\ Cardinality(T) \in Nat /\ Cardinality(S) \in Nat
      /\ Cardinality(T) <= Cardinality(S)
  BY FS_Subset, FS_CardinalityType
<1>2. ASSUME x \in S, x \notin T PROVE Cardinality(T) <= Cardinality(S) - 1
  <2>1. IsFiniteSet(S \ {x}) /\ Cardinality(S \ {x}) = Cardinality(S) - 1
    BY <1>2, FS_RemoveElement
  <2>2. T \subseteq S \ {x}
    BY <1>2
  <2> QED BY <2>1, <2>2, FS_Subset
<1>3. ASSUME S \subseteq T \cup {x} PROVE Cardinality(S) <= Cardinality(T) + 1
  <2>1. IsFiniteSet(T \cup {x}) /\ Cardinality(T \cup {x}) <= Cardinality(T) + 1
        /\ Cardinality(T \cup {x}) \in Nat
    BY <1>1, CountMore
  <2>2. Cardinality(S) <= Cardinality(T \cup {x})
    BY <1>3, <2>1, FS_Subset
  <2> QED BY <1>1, <2>1, <2>2
<1> QED BY <1>1, <1>2, <1>3

\* A rotation puts one log more at most above a position.
LEMMA RollOverAbove ==
    ASSUME LogTypeOK, RollOver, NEW k \in 0..Backups
    PROVE  Cardinality(Above(k)') <= Cardinality(Above(k)) + 1
<1> DEFINE from(j) == IF j # 1 /\ j = Backups /\ rotated[j - 1] = NoFile THEN j ELSE j - 1
           f == [j \in Above(k)' |-> from(j)]
<1>1. rotated' = [i \in Positions |->
             IF i = 1 THEN now + 1
             ELSE IF i = Backups /\ rotated[i - 1] = NoFile THEN rotated[i]
             ELSE rotated[i - 1]]
  BY DEF RollOver
<1>2. \A j \in Positions : j \in Nat /\ j >= 1 /\ j <= Backups
  BY LogAssumption DEF Positions
<1>3. Above(k)' = {j \in Positions : j > k /\ rotated'[j] # NoFile}
  BY DEF Above
<1>4. ASSUME NEW j \in Above(k)' PROVE from(j) \in Above(k) \cup {k}
  <2>1. j \in Nat /\ j >= 1 /\ j <= Backups /\ j \in Positions /\ j > k /\ k \in Nat
        /\ rotated'[j] # NoFile
    BY <1>2, <1>3, LogAssumption
  <2>2. CASE j = 1
    BY <2>1, <2>2
  <2>3. CASE j # 1 /\ j = Backups /\ rotated[j - 1] = NoFile
    BY <1>1, <2>1, <2>3 DEF Above
  <2>4. CASE j # 1 /\ ~(j = Backups /\ rotated[j - 1] = NoFile)
    <3>1. rotated[j - 1] # NoFile /\ j - 1 \in Positions /\ j - 1 >= k
      BY <1>1, <2>1, <2>4, LogAssumption DEF Positions
    <3> QED BY <2>1, <2>4, <3>1 DEF Above
  <2> QED BY <2>2, <2>3, <2>4
<1>5. ASSUME NEW i \in Above(k)', NEW j \in Above(k)', from(i) = from(j) PROVE i = j
  <2>1. i \in Nat /\ j \in Nat /\ i <= Backups /\ j <= Backups
    BY <1>2, <1>3
  <2> QED BY <1>5, <2>1, LogAssumption
<1> HIDE DEF from
<1>6. IsFiniteSet(Above(k)) /\ Cardinality(Above(k)) \in Nat
  BY PositionsCounted DEF Above
<1>7. /\ IsFiniteSet(Above(k) \cup {k}) /\ Cardinality(Above(k) \cup {k}) \in Nat
      /\ Cardinality(Above(k) \cup {k}) <= Cardinality(Above(k)) + 1
  BY <1>6, CountMore
<1>8. f \in [Above(k)' -> Above(k) \cup {k}]
  BY <1>4
<1>9. \A i, j \in Above(k)' : f[i] = f[j] => i = j
  BY <1>5
<1> HIDE DEF f
<1>10. IsFiniteSet(Above(k)') /\ Cardinality(Above(k)') <= Cardinality(Above(k) \cup {k})
  BY <1>7, <1>8, <1>9, InjectionCount
<1>11. Cardinality(Above(k)') \in Nat
  BY <1>10, FS_CardinalityType
<1> QED BY <1>6, <1>7, <1>10, <1>11

\* A rotation adds one file at most: the one that was agent.log.
LEMMA RollOverFiles ==
    ASSUME LogTypeOK, RollOver
    PROVE  Cardinality(Files') <= Cardinality(Files) + 1
<1> DEFINE new == [dir |-> "agent.log"]
           was(i) == IF i = 1 THEN new
                     ELSE IF i = Backups /\ rotated[i - 1] = NoFile THEN LogFile(i)
                     ELSE LogFile(i - 1)
           f == [x \in Files' |-> IF x.dir = "logs" THEN was(x.name) ELSE x]
<1>1. /\ UNCHANGED <<dumps, zips>>
      /\ rotated' = [i \in Positions |->
             IF i = 1 THEN now + 1
             ELSE IF i = Backups /\ rotated[i - 1] = NoFile THEN rotated[i]
             ELSE rotated[i - 1]]
  BY DEF RollOver
<1>2. \A i \in Positions : i \in Nat /\ i >= 1 /\ i <= Backups /\ (i # 1 => i - 1 \in Positions)
  BY LogAssumption DEF Positions
<1>3. \A x \in Files' :
        \/ x.dir = "logs" /\ x.name \in Positions /\ rotated'[x.name] # NoFile
           /\ x = [dir |-> "logs", name |-> x.name, mtime |-> rotated'[x.name]]
        \/ x.dir # "logs" /\ x \in Files
  BY <1>1 DEF Files, LogFile, DumpFile, ZipFile
<1>4. ASSUME NEW i \in Positions, rotated'[i] # NoFile PROVE was(i) \in Files \cup {new}
  BY <1>1, <1>2, <1>4, FileCases
<1>5. \A x \in Files' : (IF x.dir = "logs" THEN was(x.name) ELSE x) \in Files \cup {new}
  BY <1>3, <1>4
<1>6. f \in [Files' -> Files \cup {new}]
  BY <1>5
<1>7. \A i, j \in Positions : was(i) = was(j) => i = j
  <2> SUFFICES ASSUME NEW i \in Positions, NEW j \in Positions, was(i) = was(j) PROVE i = j
    OBVIOUS
  <2>1. i \in Nat /\ i >= 1 /\ i <= Backups /\ j \in Nat /\ j >= 1 /\ j <= Backups
    BY <1>2
  <2>2. \A n, m : LogFile(n) = LogFile(m) => n = m
    BY DEF LogFile
  <2>3. \A n : LogFile(n) # new
    BY DEF LogFile
  <2> HIDE DEF new
  <2> QED BY <2>1, <2>2, <2>3, LogAssumption
<1>8. \A i \in Positions : was(i).dir \in {"logs", "agent.log"}
  BY DEF LogFile
<1>9. \A x \in Files' : x.dir \in {"logs", "dumps", "zips"}
  BY DEF Files, LogFile, DumpFile, ZipFile
<1> HIDE DEF was
<1>10. ASSUME NEW x \in Files', NEW y \in Files', f[x] = f[y] PROVE x = y
  <2>1. CASE x.dir = "logs" /\ y.dir = "logs"
    <3>1. x.name = y.name
      BY <1>3, <1>7, <1>10, <2>1
    <3> QED BY <1>3, <2>1, <3>1
  <2>2. CASE x.dir # "logs" /\ y.dir # "logs"
    BY <1>10, <2>2
  <2>3. CASE x.dir = "logs" /\ y.dir # "logs"
    <3>1. was(x.name) = y /\ x.name \in Positions /\ y.dir \in {"dumps", "zips"}
      BY <1>3, <1>9, <1>10, <2>3
    <3> QED BY <1>8, <3>1
  <2>4. CASE x.dir # "logs" /\ y.dir = "logs"
    <3>1. was(y.name) = x /\ y.name \in Positions /\ x.dir \in {"dumps", "zips"}
      BY <1>3, <1>9, <1>10, <2>4
    <3> QED BY <1>8, <3>1
  <2> QED BY <2>1, <2>2, <2>3, <2>4
<1> HIDE DEF f, new
<1>11. IsFiniteSet(Files) /\ Cardinality(Files) \in Nat
  BY FilesTyped, EntriesCounted
<1>12. /\ IsFiniteSet(Files \cup {new}) /\ Cardinality(Files \cup {new}) \in Nat
       /\ Cardinality(Files \cup {new}) <= Cardinality(Files) + 1
  BY <1>11, CountMore
<1>13. IsFiniteSet(Files') /\ Cardinality(Files') <= Cardinality(Files \cup {new})
  BY <1>6, <1>10, <1>12, InjectionCount
<1>14. Cardinality(Files') \in Nat
  BY <1>13, FS_CardinalityType
<1> QED BY <1>11, <1>12, <1>13, <1>14

\* What a listing that loses the file t still counts.
LEMMA TargetsLess ==
    ASSUME LogTypeOK, NEW t \in targets
    PROVE  /\ Cardinality(targets) \in Nat /\ Cardinality(targets \ {t}) \in Nat
           /\ Cardinality(targets \ {t}) = Cardinality(targets) - 1
<1>1. IsFiniteSet(targets) /\ Cardinality(targets) \in Nat
  BY EntriesCounted DEF LogTypeOK, Entries
<1> QED BY <1>1, FS_RemoveElement, FS_CardinalityType

\* The size counts the files, and agent.log if it is full.
LEMMA FilesCounted ==
    ASSUME LogTypeOK
    PROVE  /\ IsFiniteSet(Files) /\ Cardinality(Files) \in Nat /\ Size \in Nat
           /\ Cardinality(Files) <= Size /\ Size <= Cardinality(Files) + 1
           /\ full => Size = Cardinality(Files) + 1
           /\ ~full => Size = Cardinality(Files)
<1>1. IsFiniteSet(Files) /\ Cardinality(Files) \in Nat
  BY FilesTyped, EntriesCounted
<1> QED BY <1>1 DEF Size, LogTypeOK

\* Paths can be counted.
LEMMA PathsCounted ==
    ASSUME NEW S, S \subseteq [dir : {"logs", "dumps", "zips"}, name : Stamps \cup Positions]
    PROVE  IsFiniteSet(S) /\ Cardinality(S) \in Nat
<1> DEFINE g == [p \in S |-> [dir |-> p.dir, name |-> p.name, mtime |-> 0]]
<1>1. 0 \in Stamps
  BY LogAssumption DEF Stamps
<1>2. g \in [S -> Entries]
  BY <1>1 DEF Entries
<1>3. \A p, q \in S : g[p] = g[q] => p = q
  OBVIOUS
<1> HIDE DEF g
<1> QED BY <1>2, <1>3, EntriesFinite, InjectionCount, FS_CardinalityType

\* What is not a log is found in the other two directories.
LEMMA OtherFilesSame ==
    ASSUME UNCHANGED <<dumps, zips>>
    PROVE  {g \in Files : g.dir # "logs"}' = {g \in Files : g.dir # "logs"}
BY DEF Files, LogFile, DumpFile, ZipFile

\* A path names one file: there are no more files than paths.
LEMMA FilesDue ==
    ASSUME LogTypeOK, Dated, NEW S, IsFiniteSet(S), \A h \in Files : Path(h) \in S
    PROVE  Cardinality(Files) <= Cardinality(S)
<1> DEFINE g == [h \in Files |-> Path(h)]
<1>1. g \in [Files -> S]
  OBVIOUS
<1>2. \A h, k \in Files : Path(h) = Path(k) => h = k
  BY FilesListed DEF Path
<1>3. \A h, k \in Files : g[h] = g[k] => h = k
  BY <1>2
<1> HIDE DEF g
<1> QED BY <1>1, <1>3, InjectionCount

\* Once all is listed, there are no more paths than files listed.
LEMMA DueListed ==
    ASSUME LogTypeOK, Listing, pc = "size"
    PROVE  Cardinality(Due) <= Cardinality(targets)
<1>1. Due = {Path(t) : t \in targets}
  BY DEF Due, Listing
<1> DEFINE g == [p \in Due |-> CHOOSE t \in targets : Path(t) = p]
<1>2. \A p \in Due : g[p] \in targets /\ Path(g[p]) = p
  BY <1>1
<1>3. g \in [Due -> targets]
  BY <1>2
<1>4. \A p, q \in Due : g[p] = g[q] => p = q
  BY <1>2
<1> HIDE DEF g
<1>5. IsFiniteSet(targets)
  BY EntriesCounted DEF LogTypeOK, Entries
<1> QED BY <1>3, <1>4, <1>5, InjectionCount

\* What there is stays within what the pass reckons with.
LEMMA ReckonedStep ==
    ASSUME LogTypeOK, LogTypeOK', Dated, Listing, Reckoned, [LogNext]_logVars,
           Cardinality(Files') \in Nat
    PROVE  Reckoned'
<1> USE DEF BeingListed, Hidden
<1>n. /\ grown \in Nat /\ refused \in Nat /\ total \in Nat /\ full \in BOOLEAN /\ torn \in Nat
      /\ Cardinality(targets) \in Nat
  BY EntriesCounted DEF LogTypeOK, Entries
<1>s. Size' = Cardinality(Files') + (IF full' THEN 1 ELSE 0)
  BY DEF Size
<1>z. Size' \in Nat /\ Size \in Nat
  BY <1>s, FilesCounted
<1>d. IsFiniteSet(Due') /\ Cardinality(Due') \in Nat
  <2>1. \A h \in Files' : Path(h) \in [dir : {"logs", "dumps", "zips"}, name : Stamps \cup Positions]
    BY DEF Files, LogFile, DumpFile, ZipFile, Path, LogTypeOK
  <2>2. Due' \subseteq [dir : {"logs", "dumps", "zips"}, name : Stamps \cup Positions]
    BY <2>1 DEF Due, Path, LogTypeOK
  <2> QED BY <2>2, PathsCounted
<1>1. ASSUME pc = "purge", pc' = "purge", UNCHANGED <<targets, total, refused, torn>>,
             \/ Size' <= Size /\ grown' = grown
             \/ Size' <= Size + 1 /\ grown' = grown + 1
      PROVE  Reckoned'
  BY <1>1, <1>n, <1>z DEF Reckoned
<1>2. ASSUME BeingListed, BeingListed', Due \subseteq Due', full \/ torn > 0 => full' \/ torn' > 0,
             \/ Size' <= Size /\ grown' = grown
             \/ Size' <= Size + 1 /\ grown' = grown + 1
      PROVE  Reckoned'
  <2>1. Cardinality(Due) \in Nat /\ Cardinality(Due) <= Cardinality(Due')
    BY <1>2, <1>d, FS_Subset, FS_CardinalityType
  <2> QED BY <1>2, <1>d, <1>n, <1>z, <2>1 DEF Reckoned
<1>3. ASSUME ~BeingListed', pc' # "purge" PROVE Reckoned'
  BY <1>3 DEF Reckoned
<1>4. ASSUME UNCHANGED <<pc, toStat, targets>>,
             {g \in Files : g.dir # "logs"} \subseteq {g \in Files : g.dir # "logs"}'
      PROVE  Due \subseteq Due'
  BY <1>4 DEF Due, Path
<1>5. CASE FillLog
  <2>1. /\ UNCHANGED <<pc, toStat, targets, total, refused, torn>> /\ grown' = Noted(grown)
        /\ Files' = Files /\ ~full /\ full'
    BY <1>5, FilesSame DEF FillLog, pass
  <2>2. Size' = Size + 1
    BY <1>s, <2>1, FilesCounted
  <2>3. Due \subseteq Due'
    BY <1>4, <2>1
  <2> QED BY <1>1, <1>2, <1>3, <1>z, <2>1, <2>2, <2>3 DEF Noted
<1>6. CASE TimePasses \/ UNCHANGED logVars
  <2>1. UNCHANGED <<pc, toStat, targets, total, refused, torn, grown, full>> /\ Files' = Files
    BY <1>6, FilesSame DEF TimePasses, logVars, disk, pass, history
  <2>2. Size' = Size
    BY <1>s, <2>1 DEF Size
  <2>3. Due \subseteq Due'
    BY <1>4, <2>1
  <2> QED BY <1>1, <1>2, <1>3, <1>z, <2>1, <2>2, <2>3
<1>7. CASE WriteDump
  <2>1. UNCHANGED <<pc, toStat, targets, total, refused, torn, full>> /\ grown' = Noted(grown)
    BY <1>7 DEF WriteDump, pass
  <2>2. Cardinality(Files') <= Cardinality(Files) + 1 /\ Files \subseteq Files'
    BY <1>7, FilesDump, FilesCounted, CountMore
  <2>3. Size' <= Size + 1
    BY <1>n, <1>s, <2>1, <2>2, FilesCounted
  <2>4. Due \subseteq Due'
    BY <1>4, <2>1, <2>2
  <2> QED BY <1>1, <1>2, <1>3, <2>1, <2>3, <2>4 DEF Noted
<1>8. CASE RollOver
  <2>1. /\ UNCHANGED <<pc, toStat, targets, total, refused, grown, dumps, zips>> /\ full /\ ~full'
        /\ torn' = IF BeingListed THEN torn + 1 ELSE torn
    BY <1>8 DEF RollOver, pass
  <2>2. Size' <= Size
    BY <1>8, <1>s, <2>1, RollOverFiles, FilesCounted
  <2>3. Due \subseteq Due'
    BY <1>4, <2>1, OtherFilesSame
  <2>4. CASE BeingListed
    <3>1. torn' > 0
      BY <1>n, <2>1, <2>4
    <3> QED BY <1>2, <2>1, <2>2, <2>3, <2>4, <3>1
  <2>5. CASE ~BeingListed
    BY <1>1, <1>3, <2>1, <2>2, <2>5
  <2> QED BY <2>4, <2>5
<1>9. CASE ListLogs
  <2>1. /\ pc' = "stat" /\ UNCHANGED <<full, grown, torn>> /\ Files' = Files
        /\ toStat' = {i \in Positions : rotated[i] # NoFile}
    BY <1>9, FilesSame DEF ListLogs, disk, history
  <2>2. \A h \in Files : Path(h) \in Due'
    <3> SUFFICES ASSUME NEW h \in Files PROVE Path(h) \in Due'
      OBVIOUS
    <3>1. CASE h.dir = "logs"
      <4>1. h.name \in toStat'
        BY <2>1, <3>1, FilesListed
      <4> QED BY <3>1, <4>1 DEF Due, Path
    <3>2. CASE h.dir # "logs"
      <4>1. Due' = {Path(t) : t \in targets'} \cup {[dir |-> "logs", name |-> i] : i \in toStat'}
                   \cup {Path(k) : k \in {g \in Files' : g.dir # "logs"}}
        BY <2>1 DEF Due, Path
      <4> QED BY <2>1, <3>2, <4>1
    <3> QED BY <3>1, <3>2
  <2>3. Cardinality(Files) <= Cardinality(Due')
    BY <1>d, <2>2, FilesDue
  <2>4. Size' <= Cardinality(Due') + grown' + (IF full' \/ torn' > 0 THEN 1 ELSE 0)
    BY <1>d, <1>n, <1>s, <2>1, <2>3, FilesCounted
  <2> QED BY <2>1, <2>4 DEF Reckoned
<1>10. ASSUME BeingListed, BeingListed', UNCHANGED <<disk, history>>, Due \subseteq Due' PROVE Reckoned'
  <2>1. UNCHANGED <<full, torn, grown>> /\ Files' = Files
    BY <1>10, FilesSame DEF disk, history
  <2>2. Size' = Size
    BY <1>s, <2>1 DEF Size
  <2> QED BY <1>2, <1>10, <1>z, <2>1, <2>2
<1>11. ASSUME NEW i \in toStat, StatLog(i) PROVE Reckoned'
  <2>1. /\ pc = "stat" /\ pc' = "stat" /\ UNCHANGED <<disk, history>>
        /\ toStat' = toStat \ {i} /\ targets' = targets \cup {LogFile(i)}
    BY <1>11 DEF StatLog
  <2>2. Files' = Files
    BY <2>1, FilesSame DEF disk
  <2>3. Path(LogFile(i)) = [dir |-> "logs", name |-> i]
    BY DEF Path, LogFile
  <2>4. Due \subseteq Due'
    <3> SUFFICES ASSUME NEW p \in Due PROVE p \in Due'
      OBVIOUS
    <3>1. Due' = {Path(t) : t \in targets'} \cup {[dir |-> "logs", name |-> k] : k \in toStat'}
                 \cup {Path(k) : k \in {g \in Files' : g.dir # "logs"}}
      BY <2>1 DEF Due, Path
    <3>2. Due = {Path(t) : t \in targets} \cup {[dir |-> "logs", name |-> k] : k \in toStat}
                \cup {Path(k) : k \in {g \in Files : g.dir # "logs"}}
      BY <2>1 DEF Due
    <3> QED BY <2>1, <2>2, <2>3, <3>1, <3>2
  <2> QED BY <1>10, <2>1, <2>4
<1>12. CASE ListDumps
  <2>1. /\ pc = "stat" /\ pc' = "size" /\ UNCHANGED <<disk, history, toStat>> /\ toStat = {}
        /\ targets' = targets \cup {g \in Files : g.dir # "logs"}
    BY <1>12 DEF ListDumps
  <2>2. Due \subseteq Due'
    BY <2>1 DEF Due, Path
  <2> QED BY <1>10, <2>1, <2>2
<1>13. CASE SizeUp
  <2>1. /\ pc = "size" /\ UNCHANGED <<disk, history>>
        /\ \/ pc' = "idle"
           \/ /\ targets' = targets /\ pc' = "purge"
              /\ total' = Cardinality(targets) + (IF full THEN 1 ELSE 0)
    BY <1>13 DEF SizeUp
  <2>2. UNCHANGED <<full, torn, grown, refused>> /\ Files' = Files
    BY <2>1, FilesSame DEF disk, history
  <2>3. Size' = Size
    BY <1>s, <2>2 DEF Size
  <2>4. Cardinality(Due) <= Cardinality(targets)
    BY <2>1, DueListed
  <2>5. Cardinality(Due) \in Nat
    <3>1. Due = {Path(t) : t \in targets}
      BY <2>1 DEF Due, Listing
    <3>2. Due \subseteq [dir : {"logs", "dumps", "zips"}, name : Stamps \cup Positions]
      BY <3>1 DEF Path, LogTypeOK
    <3> QED BY <3>2, PathsCounted
  <2>6. Size <= Cardinality(Due) + grown + (IF full \/ torn > 0 THEN 1 ELSE 0)
    BY <2>1 DEF Reckoned
  <2> QED BY <1>n, <1>z, <2>1, <2>2, <2>3, <2>4, <2>5, <2>6 DEF Reckoned
<1>14. ASSUME NEW t \in targets, RemoveFile(t) PROVE Reckoned'
  <2>1. /\ pc = "purge" /\ UNCHANGED <<full, refused, grown, torn>>
        /\ \/ pc' = "idle"
           \/ pc' = "purge" /\ targets' = targets \ {t} /\ total' = total - 1
    BY <1>14 DEF RemoveFile, GoOn
  <2>2. Cardinality(Files') <= Cardinality(Files) - 1
    <3>1. Files' = Files \ Found(t)
      BY <1>14, <2>1, FilesRemoved DEF Listing
    <3>2. PICK g \in Found(t) : g \in Files
      BY <1>14 DEF RemoveFile, Found
    <3> QED BY <3>1, <3>2, FilesCounted, CountLess
  <2>3. Size' <= Size - 1 /\ Size' \in Int
    BY <1>n, <1>s, <2>1, <2>2, FilesCounted
  <2>4. Cardinality(targets \ {t}) = Cardinality(targets) - 1 /\ Cardinality(targets) \in Nat
    BY TargetsLess
  <2>5. CASE pc' = "idle"
    BY <1>3, <2>5
  <2>6. CASE pc' = "purge" /\ targets' = targets \ {t} /\ total' = total - 1
    <3>1. Cardinality(targets') = Cardinality(targets) - 1
      BY <2>4, <2>6
    <3>2. ~BeingListed'
      BY <2>6
    <3> QED BY <1>n, <1>z, <2>1, <2>3, <2>6, <3>1, <3>2 DEF Reckoned
  <2> QED BY <2>1, <2>5, <2>6
<1>15. ASSUME NEW t \in targets, RemoveFails(t) PROVE Reckoned'
  <2>1. /\ pc = "purge" /\ UNCHANGED <<full, grown, torn>> /\ refused' = refused + 1
        /\ \/ pc' = "idle"
           \/ pc' = "purge" /\ targets' = targets \ {t} /\ total' = total
        /\ Files' = Files
    BY <1>15, FilesSame DEF RemoveFails, GoOn, disk, Noted
  <2>2. Size' = Size
    BY <1>s, <2>1 DEF Size
  <2>3. Cardinality(targets \ {t}) = Cardinality(targets) - 1 /\ Cardinality(targets) \in Nat
    BY TargetsLess
  <2>4. CASE pc' = "idle"
    BY <1>3, <2>4
  <2>5. CASE pc' = "purge" /\ targets' = targets \ {t} /\ total' = total
    <3>1. Cardinality(targets') = Cardinality(targets) - 1
      BY <2>3, <2>5
    <3>2. ~BeingListed'
      BY <2>5
    <3> QED BY <1>n, <1>z, <2>1, <2>2, <2>5, <3>1, <3>2 DEF Reckoned
  <2> QED BY <2>1, <2>4, <2>5
<1>16. CASE Kill \/ BeginPass \/ (\E d \in toArchive : OpenArchive(d)) \/ CloseArchive
           \/ RemoveDump \/ EndArchiving \/ ListFails
  BY <1>3, <1>16 DEF Kill, BeginPass, OpenArchive, CloseArchive, RemoveDump, EndArchiving, ListFails
<1> QED BY <1>5, <1>6, <1>7, <1>8, <1>9, <1>11, <1>12, <1>13, <1>14, <1>15, <1>16
        DEF LogNext, Others, Pass

\* A path that is taken from the listing: at most one listed position less.
LEMMA ListedLess ==
    ASSUME LogTypeOK, NEW t \in targets, targets' = targets \ {t}, toStat' = toStat, NEW k \in 0..Backups,
           \A u \in targets : u.dir = t.dir /\ u.name = t.name => u = t
    PROVE  /\ Cardinality(ListedAbove(k)) \in Nat /\ Cardinality(ListedAbove(k)') \in Nat
           /\ Cardinality(ListedAbove(k)) <= Cardinality(ListedAbove(k)') + 1
           /\ t.dir # "logs" \/ t.name <= k => ListedAbove(k)' = ListedAbove(k)
<1>1. ListedAbove(k)' \subseteq ListedAbove(k)
  BY DEF ListedAbove
<1>2. ListedAbove(k) \subseteq ListedAbove(k)' \cup {t.name}
  BY DEF ListedAbove
<1>3. IsFiniteSet(ListedAbove(k))
  BY PositionsCounted DEF ListedAbove
<1>4. ASSUME t.dir # "logs" \/ t.name <= k PROVE ListedAbove(k) \subseteq ListedAbove(k)'
  <2> SUFFICES ASSUME NEW j \in ListedAbove(k) PROVE j \in ListedAbove(k)'
    OBVIOUS
  <2>1. CASE j \in toStat
    BY <2>1 DEF ListedAbove
  <2>2. CASE j \notin toStat
    <3>1. PICK u \in targets : u.dir = "logs" /\ u.name = j /\ j \in Positions /\ j > k
      BY <2>2 DEF ListedAbove
    <3>2. j \in Nat /\ k \in Nat
      BY <3>1, LogAssumption DEF Positions
    <3>3. u # t
      BY <1>4, <3>1, <3>2
    <3> QED BY <3>1, <3>3 DEF ListedAbove
  <2> QED BY <2>1, <2>2
<1> QED BY <1>1, <1>2, <1>3, <1>4, CountLess

\* What is left behind stays within what failures and rotations explain.
LEMMA OvertakenStep ==
    ASSUME LogTypeOK, LogTypeOK', Dated, Listing, Overtaken, [LogNext]_logVars
    PROVE  Overtaken'
<1> USE DEF BeingListed
<1>n. /\ refused \in Nat /\ rotations \in Nat /\ refused' \in Nat /\ rotations' \in Nat
      /\ now \in Nat /\ now < now + 1
  BY LogAssumption DEF LogTypeOK, Stamps
<1>a. \A k \in 0..Backups : /\ Cardinality(Above(k)) \in Nat /\ IsFiniteSet(Above(k))
                            /\ Cardinality(ListedAbove(k)) \in Nat
  BY PositionsCounted DEF Above, ListedAbove
<1>b. \A k \in 0..Backups : Cardinality(Above(k)') \in Nat
  <2> TAKE k \in 0..Backups
  <2>1. Above(k)' \subseteq Positions
    BY DEF Above
  <2> QED BY <2>1, PositionsCounted
<1>p. IsFiniteSet(Passed) /\ Cardinality(Passed) \in Nat
  BY FilesTyped, EntriesCounted DEF Passed
<1>m. \A u \in targets : u.mtime \in Nat /\ u.mtime <= now
  BY LogAssumption DEF Listing, LogTypeOK, Stamps
<1>0. ASSUME ~BeingListed', pc' # "purge" PROVE Overtaken'
  BY <1>0 DEF Overtaken
<1>1. ASSUME UNCHANGED <<pc, toStat, targets, rotated>>,
             BeingListed \/ pc = "purge" => refused' = refused /\ rotations' = rotations,
             Passed' \subseteq Passed
      PROVE  Overtaken'
  <2>1. Cardinality(Passed') <= Cardinality(Passed) /\ Cardinality(Passed') \in Nat
    BY <1>1, <1>p, CountLess
  <2>2. \A k \in 0..Backups : Above(k)' = Above(k) /\ ListedAbove(k)' = ListedAbove(k)
    BY <1>1 DEF Above, ListedAbove
  <2>3. \A i \in Positions : LogFile(i)' = LogFile(i)
    BY <1>1 DEF LogFile
  <2> QED BY <1>1, <1>n, <1>p, <2>1, <2>2, <2>3 DEF Overtaken
<1>2. CASE FillLog \/ TimePasses \/ UNCHANGED logVars
  <2>1. UNCHANGED <<pc, toStat, targets, refused, rotations, rotated, dumps, zips>>
    BY <1>2 DEF FillLog, TimePasses, logVars, disk, pass, history
  <2>2. Passed' \subseteq Passed
    BY <2>1, FilesSame DEF Passed
  <2> QED BY <1>1, <2>1, <2>2
<1>3. CASE WriteDump
  <2>1. UNCHANGED <<pc, toStat, targets, refused, rotations, rotated>>
    BY <1>3 DEF WriteDump, pass
  <2> DEFINE new == [dir |-> "dumps", name |-> now + 1, mtime |-> now + 1]
  <2>2. Files' = Files \cup {new}
    BY <1>3, FilesDump
  <2>3. new.mtime = now + 1
    OBVIOUS
  <2> HIDE DEF new
  <2>4. \A u \in targets : ~(new.mtime < u.mtime)
    BY <1>m, <1>n, <2>3
  <2>5. Passed' \subseteq Passed
    BY <2>1, <2>2, <2>4 DEF Passed
  <2> QED BY <1>1, <2>1, <2>5
<1>4. CASE RollOver
  <2> SUFFICES ASSUME BeingListed \/ pc = "purge" PROVE Overtaken'
    <3>1. pc' = pc
      BY <1>4 DEF RollOver, pass
    <3> QED BY <1>0, <3>1
  <2>1. UNCHANGED <<pc, toStat, targets, refused>> /\ rotations' = Noted(rotations)
    BY <1>4 DEF RollOver, pass
  <2>2. rotations' = rotations + 1 /\ rotations' # 0
    BY <1>n, <2>1 DEF Noted
  <2>3. \A k \in 0..Backups : /\ Cardinality(Above(k)') <= Cardinality(Above(k)) + 1
                              /\ ListedAbove(k)' = ListedAbove(k)
    BY <1>4, <2>1, RollOverAbove DEF ListedAbove
  <2>4. \A k \in 0..Backups :
          Cardinality(Above(k)) <= rotations + refused + Cardinality(ListedAbove(k))
    BY DEF Overtaken
  <2>5. \A k \in 0..Backups :
          Cardinality(Above(k)') <= rotations' + refused' + Cardinality(ListedAbove(k)')
    BY <1>n, <1>a, <1>b, <2>1, <2>2, <2>3, <2>4
  <2> QED BY <2>2, <2>5 DEF Overtaken
<1>5. CASE ListLogs
  <2>1. /\ pc' = "stat" /\ UNCHANGED <<rotated, rotations, refused>>
        /\ toStat' = {i \in Positions : rotated[i] # NoFile}
    BY <1>5 DEF ListLogs, disk, history
  <2>2. \A k \in 0..Backups : Above(k)' = Above(k) /\ Above(k) \subseteq ListedAbove(k)'
    BY <2>1 DEF Above, ListedAbove
  <2>3. \A k \in 0..Backups : /\ Cardinality(Above(k)) <= Cardinality(ListedAbove(k)')
                              /\ Cardinality(ListedAbove(k)') \in Nat
    <3> TAKE k \in 0..Backups
    <3>1. IsFiniteSet(ListedAbove(k)') /\ Cardinality(ListedAbove(k)') \in Nat
      <4>1. ListedAbove(k)' \subseteq Positions
        BY DEF ListedAbove
      <4> QED BY <4>1, PositionsCounted
    <3> QED BY <2>2, <3>1, FS_Subset
  <2>4. \A k \in 0..Backups :
          Cardinality(Above(k)') <= rotations' + refused' + Cardinality(ListedAbove(k)')
    BY <1>n, <1>a, <2>1, <2>2, <2>3
  <2> QED BY <2>1, <2>4 DEF Overtaken
<1>9. ASSUME NEW i \in toStat, StatLog(i) PROVE Overtaken'
  <2>1. /\ pc = "stat" /\ pc' = "stat" /\ UNCHANGED <<rotated, rotations, refused>>
        /\ toStat' = toStat \ {i} /\ targets' = targets \cup {LogFile(i)}
    BY <1>9 DEF StatLog, disk, history
  <2>2. LogFile(i).dir = "logs" /\ LogFile(i).name = i /\ \A j : LogFile(j)' = LogFile(j)
    BY <2>1 DEF LogFile
  <2>3. \A k \in 0..Backups : Above(k)' = Above(k) /\ ListedAbove(k)' = ListedAbove(k)
    BY <2>1, <2>2 DEF Above, ListedAbove
  <2>4. rotations' = 0 =>
          \A j \in Positions : rotated'[j] # NoFile => j \in toStat' \/ LogFile(j)' \in targets'
    BY <2>1, <2>2 DEF Overtaken
  <2> QED BY <2>1, <2>3, <2>4 DEF Overtaken
<1>10. CASE ListDumps
  <2>1. /\ pc = "stat" /\ pc' = "size" /\ UNCHANGED <<rotated, dumps, zips, rotations, refused, toStat>>
        /\ toStat = {} /\ targets' = targets \cup {g \in Files : g.dir # "logs"}
    BY <1>10 DEF ListDumps, disk, history
  <2>2. Files' = Files
    BY <2>1, FilesSame
  <2>3. ASSUME rotations = 0 PROVE Passed' = {}
    <3>1. \A g \in Files : g.dir = "logs" => g \in targets
      <4> SUFFICES ASSUME NEW g \in Files, g.dir = "logs" PROVE g \in targets
        OBVIOUS
      <4>1. g.name \in Positions /\ g.mtime = rotated[g.name] /\ rotated[g.name] # NoFile
        BY FilesListed
      <4>2. LogFile(g.name) \in targets
        BY <2>1, <2>3, <4>1 DEF Overtaken
      <4>3. g = LogFile(g.name)
        BY FileCases DEF LogFile, DumpFile, ZipFile
      <4> QED BY <4>2, <4>3
    <3> QED BY <2>1, <2>2, <3>1 DEF Passed
  <2>4. rotations' = 0 => Cardinality(Passed') = 0
    BY <2>1, <2>3, FS_EmptySet
  <2>5. \A k \in 0..Backups : Above(k)' = Above(k) /\ ListedAbove(k)' = ListedAbove(k)
    BY <2>1 DEF Above, ListedAbove
  <2> QED BY <1>n, <2>1, <2>4, <2>5 DEF Overtaken
<1>11. CASE SizeUp
  <2> SUFFICES ASSUME pc' = "purge" PROVE Overtaken'
    BY <1>0, <1>11 DEF SizeUp
  <2>1. pc = "size" /\ UNCHANGED <<rotated, dumps, zips, rotations, refused, toStat, targets>>
    BY <1>11 DEF SizeUp, disk, history
  <2>2. Passed' = Passed
    BY <2>1, FilesSame DEF Passed
  <2>3. \A k \in 0..Backups : Above(k)' = Above(k) /\ ListedAbove(k)' = ListedAbove(k)
    BY <2>1 DEF Above, ListedAbove
  <2> QED BY <2>1, <2>2, <2>3 DEF Overtaken
<1>6. ASSUME NEW t \in targets, RemoveFile(t) PROVE Overtaken'
  <2> SUFFICES ASSUME pc' = "purge" PROVE Overtaken'
    BY <1>0, <1>6 DEF RemoveFile, GoOn
  <2>1. /\ pc = "purge" /\ targets' = targets \ {t} /\ UNCHANGED <<refused, rotations, toStat>>
    BY <1>6 DEF RemoveFile, GoOn
  <2>2. Files' = Files \ Found(t) /\ (t \in Files => t \in Found(t))
    BY <1>6, <2>1, FilesRemoved DEF Listing, Found
  <2>3. Passed' \subseteq Passed
    BY <2>1, <2>2 DEF Passed
  <2>4. Cardinality(Passed') <= Cardinality(Passed) /\ Cardinality(Passed') \in Nat
    BY <1>p, <2>3, CountLess
  <2>5. ASSUME NEW k \in 0..Backups
        PROVE  Cardinality(Above(k)') <= rotations' + refused' + Cardinality(ListedAbove(k)')
    <3>1. Cardinality(Above(k)) <= rotations + refused + Cardinality(ListedAbove(k))
      BY <2>1 DEF Overtaken
    <3>2. /\ Cardinality(ListedAbove(k)) \in Nat /\ Cardinality(ListedAbove(k)') \in Nat
          /\ Cardinality(ListedAbove(k)) <= Cardinality(ListedAbove(k)') + 1
          /\ t.dir # "logs" \/ t.name <= k => ListedAbove(k)' = ListedAbove(k)
      BY <2>1, ListedLess DEF Listing
    <3>3. \A j \in Positions : rotated'[j] # NoFile => rotated[j] # NoFile /\ (t.dir = "logs" => j # t.name)
      BY <1>6 DEF RemoveFile, LogTypeOK
    <3>4. Above(k)' \subseteq Above(k)
      BY <3>3 DEF Above
    <3>5. Cardinality(Above(k)') <= Cardinality(Above(k))
      BY <1>a, <3>4, CountLess
    <3>6. CASE t.dir # "logs" \/ t.name <= k
      <4>1. Cardinality(ListedAbove(k)') = Cardinality(ListedAbove(k))
        BY <3>2, <3>6
      <4> QED BY <1>n, <1>a, <1>b, <2>1, <3>1, <3>2, <3>5, <4>1
    <3>7. CASE t.dir = "logs" /\ ~(t.name <= k)
      <4>1. PICK g \in Files : g.dir = "logs" /\ g.name = t.name
        BY <1>6, <3>7 DEF RemoveFile, Found
      <4>2. t.name \in Positions /\ rotated[t.name] # NoFile
        BY <4>1, FilesListed
      <4>3. t.name \in Above(k)
        BY <3>7, <4>2, LogAssumption DEF Above, Positions
      <4>4. t.name \notin Above(k)'
        BY <3>3, <3>7 DEF Above
      <4>5. Cardinality(Above(k)') <= Cardinality(Above(k)) - 1
        BY <1>a, <3>4, <4>3, <4>4, CountLess
      <4> QED BY <1>n, <1>a, <1>b, <2>1, <3>1, <3>2, <4>5
    <3> QED BY <3>6, <3>7
  <2>6. rotations = 0 => Cardinality(Passed') <= refused'
    BY <1>n, <1>p, <2>1, <2>4 DEF Overtaken
  <2> QED BY <2>1, <2>5, <2>6 DEF Overtaken
<1>7. ASSUME NEW t \in targets, RemoveFails(t) PROVE Overtaken'
  <2> SUFFICES ASSUME pc' = "purge" PROVE Overtaken'
    BY <1>0, <1>7 DEF RemoveFails, GoOn
  <2>1. /\ pc = "purge" /\ targets' = targets \ {t} /\ refused' = refused + 1
        /\ UNCHANGED <<rotations, rotated, dumps, zips, toStat>>
    BY <1>7 DEF RemoveFails, GoOn, disk, Noted
  <2>2. Passed' \subseteq Passed \cup {t}
    BY <2>1, FilesSame DEF Passed
  <2>3. Cardinality(Passed') <= Cardinality(Passed) + 1 /\ Cardinality(Passed') \in Nat
    <3>1. /\ IsFiniteSet(Passed \cup {t}) /\ Cardinality(Passed \cup {t}) \in Nat
          /\ Cardinality(Passed \cup {t}) <= Cardinality(Passed) + 1
      BY <1>p, CountMore
    <3>2. Cardinality(Passed') <= Cardinality(Passed \cup {t}) /\ Cardinality(Passed') \in Nat
      BY <2>2, <3>1, CountLess
    <3> QED BY <1>p, <3>1, <3>2
  <2>4. ASSUME NEW k \in 0..Backups
        PROVE  Cardinality(Above(k)') <= rotations' + refused' + Cardinality(ListedAbove(k)')
    <3>1. Cardinality(Above(k)) <= rotations + refused + Cardinality(ListedAbove(k))
      BY <2>1 DEF Overtaken
    <3>2. /\ Cardinality(ListedAbove(k)) \in Nat /\ Cardinality(ListedAbove(k)') \in Nat
          /\ Cardinality(ListedAbove(k)) <= Cardinality(ListedAbove(k)') + 1
      BY <2>1, ListedLess DEF Listing
    <3>3. Above(k)' = Above(k)
      BY <2>1 DEF Above
    <3> QED BY <1>n, <1>a, <2>1, <3>1, <3>2, <3>3
  <2>5. rotations = 0 => Cardinality(Passed') <= refused'
    BY <1>n, <1>p, <2>1, <2>3 DEF Overtaken
  <2> QED BY <2>1, <2>4, <2>5 DEF Overtaken
<1>8. CASE Kill \/ BeginPass \/ (\E d \in toArchive : OpenArchive(d)) \/ CloseArchive
           \/ RemoveDump \/ EndArchiving \/ ListFails
  BY <1>0, <1>8 DEF Kill, BeginPass, OpenArchive, CloseArchive, RemoveDump, EndArchiving, ListFails
<1> QED BY <1>2, <1>3, <1>4, <1>5, <1>6, <1>7, <1>8, <1>9, <1>10, <1>11 DEF LogNext, Others, Pass

\* At first no pass is under way.
LEMMA CountInit == LogInit => CountInv
<1> SUFFICES ASSUME LogInit PROVE CountInv
  OBVIOUS
<1>1. pc = "idle" /\ targets = {} /\ toStat = {}
  BY DEF LogInit
<1> QED BY <1>1, LogTypeInit, DatedInit
        DEF CountInv, Listing, Ordered, Overtaken, Reckoned, BeingListed

\* Each part of the invariant rests on those before it.
LEMMA CountStep == CountInv /\ [LogNext]_logVars => CountInv'
<1> SUFFICES ASSUME CountInv, [LogNext]_logVars PROVE CountInv'
  OBVIOUS
<1> USE DEF CountInv
<1>1. LogTypeOK'
  BY LogTypeStep
<1>2. Dated'
  BY DatedStep
<1>3. Listing' /\ Ordered'
  BY ListingStep, OrderedStep
<1>4. Overtaken'
  BY <1>1, OvertakenStep
<1>5. Cardinality(Files') \in Nat
  <2>1. LogTypeOK' => Files' \subseteq Entries
    BY DEF Files, LogFile, DumpFile, ZipFile, Entries, LogTypeOK
  <2> QED BY <1>1, <2>1, EntriesCounted
<1>6. Reckoned'
  BY <1>1, <1>5, ReckonedStep
<1> QED BY <1>1, <1>2, <1>3, <1>4, <1>6

\* Every variable of the log directories has its type.
THEOREM LogTypes == LogSpec => []LogTypeOK
<1>1. CountInv => LogTypeOK
  BY DEF CountInv
<1> QED BY CountInit, CountStep, <1>1, PTL DEF LogSpec

\* A pass that is not cut short brings the files under the cap, but for what was
\* added since the listing began and for the one file that rotations in the midst
\* of the listing hide from it, or leaves those that it could not remove
\* (_enforce_disk_cap).
THEOREM CapIsReached == LogSpec => CapReached
<1>1. CountInv /\ CountInv' /\ [LogNext]_logVars =>
        [SizeUp \/ (\E t \in targets : RemoveFile(t) \/ RemoveFails(t))
           => \/ pc' = "purge"
              \/ Size' <= MaxBytes + grown' + (IF torn' > 0 THEN 1 ELSE 0)
              \/ Size' <= refused' + 1 + grown']_logVars
  <2> SUFFICES ASSUME CountInv, CountInv', pc' # "purge",
                      SizeUp \/ (\E t \in targets : RemoveFile(t) \/ RemoveFails(t))
               PROVE  Size' <= MaxBytes + grown' + (IF torn' > 0 THEN 1 ELSE 0) \/ Size' <= refused' + 1 + grown'
    OBVIOUS
  <2> USE DEF CountInv
  <2>n. /\ grown \in Nat /\ refused \in Nat /\ total \in Nat /\ MaxBytes \in Int /\ torn \in Nat
        /\ Cardinality(targets) \in Nat /\ IsFiniteSet(targets) /\ Size \in Nat /\ Cardinality(Files) \in Nat
        /\ Size = Cardinality(Files) + (IF full THEN 1 ELSE 0)
    BY LogAssumption, FilesCounted, EntriesCounted DEF LogTypeOK, Size, Entries
  <2>1. CASE SizeUp
    <3>1. /\ pc = "size" /\ UNCHANGED <<disk, history>>
          /\ \/ Cardinality(targets) + (IF full THEN 1 ELSE 0) <= MaxBytes
             \/ targets = {}
      BY <2>n, <2>1 DEF SizeUp
    <3>2. Size' = Size /\ UNCHANGED <<grown, refused, torn>>
      BY <3>1, FilesSame DEF disk, history, Size
    <3>3. Size <= Cardinality(targets) + grown + (IF full \/ torn > 0 THEN 1 ELSE 0)
      <4>1. Cardinality(Due) <= Cardinality(targets)
        BY <3>1, DueListed
      <4>2. Cardinality(Due) \in Nat
        <5>1. Due = {Path(t) : t \in targets}
          BY <3>1 DEF Due, Listing
        <5>2. Due \subseteq [dir : {"logs", "dumps", "zips"}, name : Stamps \cup Positions]
          BY <5>1 DEF Path, LogTypeOK
        <5> QED BY <5>2, PathsCounted
      <4> QED BY <2>n, <3>1, <4>1, <4>2 DEF Reckoned, BeingListed
    <3>4. targets = {} => Cardinality(targets) = 0
      BY FS_EmptySet
    <3> QED BY <2>n, <3>1, <3>2, <3>3, <3>4
  <2>2. ASSUME NEW t \in targets, RemoveFile(t)
        PROVE  Size' <= MaxBytes + grown' + (IF torn' > 0 THEN 1 ELSE 0) \/ Size' <= refused' + 1 + grown'
    <3>1. /\ pc = "purge" /\ UNCHANGED <<full, refused, grown, torn>>
          /\ total - 1 <= MaxBytes \/ targets = {t}
      BY <2>2 DEF RemoveFile, GoOn
    <3>2. Cardinality(Files') <= Cardinality(Files) - 1 /\ Cardinality(Files') \in Nat
      <4>1. Files' = Files \ Found(t)
        BY <2>2, <3>1, FilesRemoved DEF Listing
      <4>2. PICK g \in Found(t) : g \in Files
        BY <2>2 DEF RemoveFile, Found
      <4> QED BY <4>1, <4>2, FilesCounted, CountLess
    <3>3. Size' <= Size - 1 /\ Size' \in Int
      BY <2>n, <3>1, <3>2 DEF Size
    <3>4. Size <= total + grown + Hidden /\ Size <= Cardinality(targets) + refused + 1 + grown
      BY <3>1 DEF Reckoned
    <3>5. CASE total - 1 <= MaxBytes
      BY <2>n, <3>1, <3>3, <3>4, <3>5 DEF Hidden
    <3>6. CASE targets = {t}
      <4>1. Cardinality(targets) = 1
        BY <3>6, FS_Singleton
      <4> QED BY <2>n, <3>1, <3>3, <3>4, <4>1
    <3> QED BY <3>1, <3>5, <3>6
  <2>3. ASSUME NEW t \in targets, RemoveFails(t)
        PROVE  Size' <= MaxBytes + grown' + (IF torn' > 0 THEN 1 ELSE 0) \/ Size' <= refused' + 1 + grown'
    <3>1. /\ pc = "purge" /\ UNCHANGED <<full, grown, torn>> /\ refused' = refused + 1
          /\ targets = {t} /\ Files' = Files
      BY <2>3, FilesSame DEF RemoveFails, GoOn, disk, Noted
    <3>2. Size' = Size /\ Cardinality(targets) = 1
      BY <3>1, FS_Singleton DEF Size
    <3> QED BY <2>n, <3>1, <3>2 DEF Reckoned
  <2> QED BY <2>1, <2>2, <2>3
<1> QED BY CountInit, CountStep, <1>1, PTL DEF LogSpec, CapReached

\* The cap removes the oldest first: older files are spared only by a removal
\* that failed, and older logs by a rotation as well, at most one each, or two if
\* it came in the midst of the listing (_enforce_disk_cap and doRollover).
THEOREM OldestGoFirst == LogSpec => OldestFirst
<1>1. CountInv => \A t \in targets : RemoveFile(t) =>
         /\ rotations = 0 => Cardinality(Spared(t)) <= refused
         /\ t.dir = "logs" => Cardinality({f \in Spared(t) : f.dir = "logs"}) <= rotations + torn + refused
  <2> SUFFICES ASSUME CountInv, NEW t \in targets, RemoveFile(t)
               PROVE  /\ rotations = 0 => Cardinality(Spared(t)) <= refused
                      /\ t.dir = "logs" => Cardinality({f \in Spared(t) : f.dir = "logs"}) <= rotations + torn + refused
    OBVIOUS
  <2> USE DEF CountInv
  <2>1. pc = "purge" /\ IsNext(t) /\ Found(t) # {}
    BY DEF RemoveFile
  <2>n. /\ refused \in Nat /\ rotations \in Nat /\ torn \in Nat
        /\ \A f \in Files : f.mtime \in Nat
        /\ \A u \in targets : u.mtime \in Nat
    BY LogAssumption, FilesTyped DEF LogTypeOK, Entries, Stamps
  <2>2. ASSUME rotations = 0 PROVE Cardinality(Spared(t)) <= refused
    <3>1. Found(t) = {t}
      BY <2>1, <2>2 DEF Listing
    <3>2. \A f \in Spared(t) : f \in Files /\ f.mtime < t.mtime
      BY <3>1 DEF Spared
    <3>3. \A f \in Spared(t) : f \notin targets
      BY <2>1, <2>n, <3>2 DEF IsNext
    <3>4. Spared(t) \subseteq Passed
      BY <3>2, <3>3 DEF Passed
    <3>5. IsFiniteSet(Passed) /\ Cardinality(Passed) <= refused
      BY <2>1, <2>2, FilesTyped, EntriesCounted DEF Overtaken, Passed
    <3> QED BY <2>n, <3>4, <3>5, CountLess
  <2>3. ASSUME t.dir = "logs"
        PROVE  Cardinality({f \in Spared(t) : f.dir = "logs"}) <= rotations + torn + refused
    <3> DEFINE i == t.name
               S == {f \in Spared(t) : f.dir = "logs"}
               g == [f \in S |-> f.name]
    <3>1. i \in Positions /\ i \in 0..Backups /\ i \in Nat
      BY <2>1, <2>3, LogAssumption DEF Listing, Positions
    <3>2. \A h \in Found(t) : h \in Files /\ h.dir = "logs" /\ h.name = i /\ h.mtime = rotated[i]
                              /\ rotated[i] # NoFile
      BY <2>3, FilesListed DEF Found
    <3>3. \A f \in S : /\ f \in Files /\ f.dir = "logs" /\ f.name \in Positions
                       /\ f.mtime = rotated[f.name] /\ rotated[f.name] # NoFile
                       /\ f.mtime < rotated[i]
      BY <3>2, FilesListed DEF Spared
    <3>4. ASSUME NEW f \in S PROVE f.name \in Above(i)
      <4>1. /\ f.name \in Nat /\ f.name \in Positions /\ rotated[f.name] \in Nat /\ rotated[i] \in Nat
            /\ rotated[f.name] < rotated[i] /\ rotated[f.name] # NoFile /\ rotated[i] # NoFile
        BY <2>1, <3>1, <3>2, <3>3, LogAssumption DEF Positions, LogTypeOK, Stamps
      <4>2. ~(f.name < i) /\ f.name # i
        BY <3>1, <4>1 DEF Dated
      <4> QED BY <3>1, <4>1, <4>2 DEF Above
    <3>5. ListedAbove(i) \subseteq (i + 1)..(i + torn)
      <4> SUFFICES ASSUME NEW u \in targets, u.dir = "logs", u.name > i, u.name \in Positions
                   PROVE  u.name \in (i + 1)..(i + torn)
        BY <2>1 DEF ListedAbove, Listing
      <4>1. u.name <= i + torn
        BY <2>1, <2>3 DEF Ordered, IsNext
      <4> QED BY <2>n, <3>1, <4>1, LogAssumption DEF Positions
    <3>6. Cardinality(Above(i)) <= rotations + torn + refused
      <4>1. Cardinality(ListedAbove(i)) <= torn /\ Cardinality(ListedAbove(i)) \in Nat
        <5>1. IsFiniteSet((i + 1)..(i + torn)) /\ Cardinality((i + 1)..(i + torn)) = torn
          <6>1. i + 1 \in Int /\ i + torn \in Int /\ (i + 1 > i + torn => torn = 0)
                /\ (i + torn) - (i + 1) + 1 = torn
            BY <2>n, <3>1
          <6> HIDE DEF i
          <6> QED BY <6>1, FS_Interval
        <5> QED BY <3>5, <5>1, FS_Subset, FS_CardinalityType
      <4>2. Cardinality(Above(i)) <= rotations + refused + Cardinality(ListedAbove(i))
        BY <2>1, <3>1 DEF Overtaken
      <4>3. Cardinality(Above(i)) \in Nat
        BY PositionsCounted DEF Above
      <4> QED BY <2>n, <4>1, <4>2, <4>3
    <3>7. \A a, b \in S : a.name = b.name => a = b
      BY <3>3, FilesListed
    <3>8. IsFiniteSet(Above(i)) /\ Cardinality(Above(i)) \in Nat
      BY PositionsCounted DEF Above
    <3> HIDE DEF S, i
    <3>9. g \in [S -> Above(i)] /\ \A a, b \in S : g[a] = g[b] => a = b
      BY <3>4, <3>7
    <3> HIDE DEF g
    <3>10. IsFiniteSet(S) /\ Cardinality(S) <= Cardinality(Above(i))
      BY <3>8, <3>9, InjectionCount
    <3>11. Cardinality(S) \in Nat
      BY <3>10, FS_CardinalityType
    <3>12. Cardinality(S) <= rotations + torn + refused
      BY <2>n, <3>6, <3>8, <3>10, <3>11
    <3> QED BY <3>12 DEF S
  <2> QED BY <2>2, <2>3
<1>2. CountInv =>
        [\A t \in targets : RemoveFile(t) =>
           /\ rotations = 0 => Cardinality(Spared(t)) <= refused
           /\ t.dir = "logs" => Cardinality({f \in Spared(t) : f.dir = "logs"}) <= rotations + torn + refused]_logVars
  BY <1>1
<1> QED BY CountInit, CountStep, <1>2, PTL DEF LogSpec, OldestFirst

-----------------------------------------------------------------------------
(* The three components as one *)

\* What one of them does is a step of its own or none.
LEMMA AgentParts ==
    /\ AgentInit => Init /\ SettingsInit /\ LogInit
    /\ [AgentNext]_agentVars => [Next]_vars /\ [SettingsNext]_settingsVars /\ [LogNext]_logVars
BY DEF AgentInit, AgentNext, StatusStep, SettingsStep, LogStep, agentVars

\* The types of all three hold wherever the others get to.
THEOREM AgentTypesCorrect == AgentSpec => []TypesOK
<1>1. AgentSpec => Init /\ [][Next]_vars
  BY AgentParts, PTL DEF AgentSpec
<1>2. AgentSpec => SettingsSpec
  BY AgentParts, PTL DEF AgentSpec, SettingsSpec
<1>3. AgentSpec => LogSpec
  BY AgentParts, PTL DEF AgentSpec, LogSpec
<1>4. TypeOK /\ SettingsTypeOK /\ LogTypeOK => TypesOK
  BY DEF TypesOK
<1> QED BY <1>1, <1>2, <1>3, <1>4, StatusTypes, CacheTypes, LogTypes, PTL
=============================================================================
