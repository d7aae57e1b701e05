----------------------------- MODULE LogRetention -----------------------------
(***************************************************************************)
(* CleanupService.execute_cleanup (src/agent/services/cleanup_service.py): *)
(* once a day a thread purges old AgentHealthLog rows, archives crash      *)
(* dumps that are a week old, and removes the oldest log files until what  *)
(* is left fits the cap.  Meanwhile the logger of all threads rotates      *)
(* agent.log, crash dumps are written, another program may hold a file     *)
(* open, and the process may end at any step: the thread is a daemon that  *)
(* shutdown waits three seconds for.                                       *)
(*                                                                         *)
(* Every file but agent.log has size 1; agent.log is empty or full.  A     *)
(* stamp is the time at which a file was last written; it names the file's *)
(* contents too, for no two files have the same.                           *)
(***************************************************************************)
EXTENDS Integers, FiniteSets

CONSTANTS
    Backups,              \* rotated logs that RotatingFileHandler keeps (5)
    MaxBytes,             \* the cap, MaxLogFileSizeMB, in files
    MaxStamp,             \* bound: files written
    MaxKills              \* bound: times the process ends during a pass

ASSUME LogAssumption ==
    /\ Backups \in Nat \ {0} /\ MaxBytes \in Int
    /\ MaxStamp \in Nat /\ MaxKills \in Nat

VARIABLES
    \* The directories: the last stamp given and the one that is seven days
    \* old; whether agent.log is due for rotation; the stamps of agent.log.1,
    \* agent.log.2, ... (NoFile if there is none) and of the crash_*.log; the
    \* crash_*.zip with whose dump, the archive's own stamp, complete or not.
    now, weekAgo, full, rotated, dumps, zips,
    \* AgentHealthLog has rows older than RetentionDays.
    expired,
    \* The pass: where it is, the dumps it has listed and not looked at, the
    \* one it is archiving, the logs it has listed and not looked at, the files
    \* it has looked at and not tried to remove, and total_size.
    pc, toArchive, dump, toStat, targets, total,
    \* Bookkeeping, read by properties only: dumps ever written, those the cap
    \* removed a file of, and since the listing began the size added, the
    \* rotations, those of them before it was complete, and the removals that
    \* failed.
    written, purged, grown, rotations, torn, refused,
    \* Bookkeeping for the bound MaxKills.
    kills

logClock == <<now, weekAgo>>
disk     == <<full, rotated, dumps, zips>>
pass     == <<pc, toArchive, dump, toStat, targets, total>>
history  == <<written, purged, grown, rotations, torn, refused, kills>>
logVars  == <<logClock, disk, expired, pass, history>>

NoFile == 0
Positions == 1..Backups

\* A file as a listing has it: its path and its modification time.
LogFile(i)  == [dir |-> "logs", name |-> i, mtime |-> rotated[i]]
DumpFile(d) == [dir |-> "dumps", name |-> d, mtime |-> d]
ZipFile(z)  == [dir |-> "zips", name |-> z.of, mtime |-> z.stamp]

Files ==
    {LogFile(i) : i \in {p \in Positions : rotated[p] # NoFile}}
    \cup {DumpFile(d) : d \in dumps} \cup {ZipFile(z) : z \in zips}

\* What the cap is compared with: those files and agent.log.
Size == Cardinality(Files) + (IF full THEN 1 ELSE 0)

\* The listing is begun and not complete.
BeingListed == pc \in {"stat", "size"}

\* Bookkeeping: one more, while there is a listing to compare with.
Noted(n) == IF BeingListed \/ pc = "purge" THEN n + 1 ELSE 0

-----------------------------------------------------------------------------
(* The rest of the agent. *)

\* Threads log until agent.log has its maximum size.
FillLog ==
    /\ ~full /\ full' = TRUE
    /\ grown' = Noted(grown)
    /\ UNCHANGED <<logClock, rotated, dumps, zips, expired, pass,
                   written, purged, rotations, torn, refused, kills>>

\* doRollover: each file moves up one, where there is one to move; the last
\* one is overwritten by the one before it, if there is one.
RollOver ==
    /\ full /\ now < MaxStamp
    /\ now' = now + 1
    /\ full' = FALSE
    /\ rotated' = [i \in Positions |->
         IF i = 1 THEN now'
         ELSE IF i = Backups /\ rotated[i - 1] = NoFile THEN rotated[i]
         ELSE rotated[i - 1]]
    /\ rotations' = Noted(rotations)
    /\ torn' = IF BeingListed THEN torn + 1 ELSE torn
    /\ UNCHANGED <<weekAgo, dumps, zips, expired, pass, written, purged, grown, refused, kills>>

\* global_exception_handler writes a crash dump.
WriteDump ==
    /\ now < MaxStamp
    /\ now' = now + 1
    /\ dumps' = dumps \cup {now'}
    /\ written' = written \cup {now'}
    /\ grown' = Noted(grown)
    /\ UNCHANGED <<weekAgo, full, rotated, zips, expired, pass, purged, rotations, torn, refused, kills>>

\* Days pass.
TimePasses ==
    /\ weekAgo' \in (weekAgo + 1)..now
    /\ expired' = TRUE
    /\ UNCHANGED <<now, disk, pass, history>>

-----------------------------------------------------------------------------
(* execute_cleanup, once a day *)

\* Purge the health rows, in a transaction of its own whose failure is
\* swallowed; then list the crash directory.
BeginPass ==
    /\ pc = "idle"
    /\ expired' \in {FALSE, expired}
    /\ pc' = "archive" /\ toArchive' = dumps
    /\ grown' = 0 /\ rotations' = 0 /\ torn' = 0 /\ refused' = 0
    /\ UNCHANGED <<logClock, disk, dump, toStat, targets, total, written, purged, kills>>

\* The archive is opened with mode 'w': an older one is emptied.
OpenArchive(d) ==
    /\ pc = "archive" /\ d \in toArchive /\ d <= weekAgo
    /\ now < MaxStamp /\ now' = now + 1
    /\ zips' = {z \in zips : z.of # d} \cup {[of |-> d, stamp |-> now', whole |-> FALSE]}
    /\ pc' = "zip" /\ dump' = d /\ toArchive' = toArchive \ {d}
    /\ UNCHANGED <<weekAgo, full, rotated, dumps, expired, toStat, targets, total, history>>

\* Mutation: the dump is removed while its archive is still open.
RemoveEarly == pc = "zip"

\* The archive has been closed.
AtRemoval == pc = "unlink"

CloseArchive ==
    /\ pc = "zip" /\ pc' = "unlink"
    /\ zips' = {IF z.of = dump THEN [z EXCEPT !.whole = TRUE] ELSE z : z \in zips}
    /\ UNCHANGED <<logClock, full, rotated, dumps, expired, toArchive, dump, toStat, targets, total, history>>

RemoveDump ==
    /\ AtRemoval
    /\ dumps' = dumps \ {dump}
    /\ pc' = "archive"
    /\ UNCHANGED <<logClock, full, rotated, zips, expired, toArchive, dump, toStat, targets, total, history>>

\* The dumps that are left are not old enough, or an exception ends the loop;
\* another program may have the dump open.
EndArchiving ==
    /\ pc \in {"archive", "zip", "unlink"}
    /\ pc' = "list"
    /\ toArchive' = {} /\ dump' = NoFile
    /\ UNCHANGED <<logClock, disk, expired, toStat, targets, total, history>>

\* _enforce_disk_cap: the names in the log directory ...
ListLogs ==
    /\ pc = "list" /\ pc' = "stat"
    /\ toStat' = {i \in Positions : rotated[i] # NoFile}
    /\ UNCHANGED <<logClock, disk, expired, toArchive, dump, targets, total, history>>

\* ... then one by one what is at each of them by now ...
StatLog(i) ==
    /\ pc = "stat" /\ i \in toStat /\ rotated[i] # NoFile
    /\ toStat' = toStat \ {i}
    /\ targets' = targets \cup {LogFile(i)}
    /\ UNCHANGED <<logClock, disk, expired, pc, toArchive, dump, total, history>>

\* ... the crash directory, from which only this thread takes files away ...
ListDumps ==
    /\ pc = "stat" /\ toStat = {}
    /\ pc' = "size"
    /\ targets' = targets \cup {f \in Files : f.dir # "logs"}
    /\ UNCHANGED <<logClock, disk, expired, toArchive, dump, toStat, total, history>>

\* ... and agent.log: does it all fit the cap?
SizeUp ==
    LET size   == Cardinality(targets) + (IF full THEN 1 ELSE 0)
        purges == size > MaxBytes /\ targets # {}
    IN  /\ pc = "size"
        /\ pc' = IF purges THEN "purge" ELSE "idle"
        /\ targets' = IF purges THEN targets ELSE {}
        /\ total' = IF purges THEN size ELSE 0
        /\ UNCHANGED <<logClock, disk, expired, toArchive, dump, toStat, history>>

\* Nothing is at a name any more, for now or for good, when it is looked at:
\* the exception ends the pass.
ListFails ==
    /\ pc = "list" \/ BeingListed
    /\ pc' = "idle" /\ toStat' = {} /\ targets' = {}
    /\ UNCHANGED <<logClock, disk, expired, toArchive, dump, total, history>>

\* Mutation: newest first.
NewestFirst(t) == \A u \in targets : u.mtime <= t.mtime

\* Sorted by the modification time that was read, oldest first.
IsNext(t) == t \in targets /\ \A u \in targets : t.mtime <= u.mtime

\* What is at the path that was listed, whatever was there then.
Found(t) == {f \in Files : f.dir = t.dir /\ f.name = t.name}

\* What is to be done after t, with size bytes left in all: the loop ends with
\* the list, or once the size fits.
GoOn(t, size, fits) ==
    LET ends == fits \/ targets = {t}
    IN  /\ pc' = IF ends THEN "idle" ELSE "purge"
        /\ targets' = IF ends THEN {} ELSE targets \ {t}
        /\ total' = IF ends THEN 0 ELSE size

RemoveFile(t) ==
    /\ pc = "purge" /\ IsNext(t) /\ Found(t) # {}
    /\ rotated' = IF t.dir = "logs" THEN [rotated EXCEPT ![t.name] = NoFile] ELSE rotated
    /\ dumps' = IF t.dir = "dumps" THEN dumps \ {t.name} ELSE dumps
    /\ zips' = IF t.dir = "zips" THEN {z \in zips : z.of # t.name} ELSE zips
    /\ purged' = IF t.dir = "logs" THEN purged ELSE purged \cup {t.name}
    /\ GoOn(t, total - 1, total - 1 <= MaxBytes)
    /\ UNCHANGED <<logClock, full, expired, toArchive, dump, toStat, written, grown, rotations, torn, refused, kills>>

\* Mutation: what could not be removed is taken off the size as well.
RemoveFailsCounted(t) ==
    /\ pc = "purge" /\ IsNext(t)
    /\ refused' = Noted(refused)
    /\ GoOn(t, total - 1, total - 1 <= MaxBytes)
    /\ UNCHANGED <<logClock, disk, expired, toArchive, dump, toStat, written, purged, grown, rotations, torn, kills>>

\* The path is gone, or another program has the file open: logged and skipped.
RemoveFails(t) ==
    /\ pc = "purge" /\ IsNext(t)
    /\ refused' = Noted(refused)
    /\ GoOn(t, total, FALSE)
    /\ UNCHANGED <<logClock, disk, expired, toArchive, dump, toStat, written, purged, grown, rotations, torn, kills>>

\* The process ends; the next one starts with no pass under way.
Kill ==
    /\ pc # "idle" /\ kills < MaxKills
    /\ kills' = kills + 1
    /\ pc' = "idle" /\ toArchive' = {} /\ dump' = NoFile
    /\ toStat' = {} /\ targets' = {} /\ total' = 0
    /\ UNCHANGED <<logClock, disk, expired, written, purged, grown, rotations, torn, refused>>

-----------------------------------------------------------------------------
LogInit ==
    /\ now = 0 /\ weekAgo = 0
    /\ full = FALSE /\ rotated = [i \in Positions |-> NoFile] /\ dumps = {} /\ zips = {}
    /\ expired = FALSE
    /\ pc = "idle" /\ toArchive = {} /\ dump = NoFile
    /\ toStat = {} /\ targets = {} /\ total = 0
    /\ written = {} /\ purged = {} /\ grown = 0 /\ rotations = 0 /\ torn = 0 /\ refused = 0
    /\ kills = 0

Others == FillLog \/ RollOver \/ WriteDump \/ TimePasses \/ Kill

Pass ==
    \/ BeginPass
    \/ \E d \in toArchive : OpenArchive(d)
    \/ CloseArchive \/ RemoveDump \/ EndArchiving
    \/ ListLogs \/ (\E i \in toStat : StatLog(i)) \/ ListDumps \/ SizeUp \/ ListFails
    \/ \E t \in targets : RemoveFile(t) \/ RemoveFails(t)

LogNext == Others \/ Pass

LogSpec == LogInit /\ [][LogNext]_logVars

-----------------------------------------------------------------------------
(* Properties *)

Stamps == 0..MaxStamp

\* Every variable has its type.
LogTypeOK ==
    /\ now \in Stamps /\ weekAgo \in Stamps
    /\ full \in BOOLEAN /\ expired \in BOOLEAN
    /\ rotated \in [Positions -> Stamps]
    /\ dumps \subseteq Stamps
    /\ zips \subseteq [of : Stamps, stamp : Stamps, whole : BOOLEAN]
    /\ pc \in {"idle", "archive", "zip", "unlink", "list", "stat", "size", "purge"}
    /\ toArchive \subseteq Stamps /\ dump \in Stamps /\ toStat \subseteq Positions
    /\ targets \subseteq [dir : {"logs", "dumps", "zips"}, name : Stamps \cup Positions,
                          mtime : Stamps]
    /\ total \in Nat
    /\ written \subseteq Stamps /\ purged \subseteq Stamps
    /\ grown \in Nat /\ rotations \in Nat /\ torn \in Nat /\ refused \in Nat
    /\ kills \in 0..MaxKills

\* A crash dump stays readable, as it was written or in an archive that is
\* complete, until the cap takes it: no order of archiving, failing and dying
\* loses the only copy (cleanup_service.py:110).
CrashDumpKept ==
    \A d \in written \ purged :
        d \in dumps \/ \E z \in zips : z.of = d /\ z.whole

\* A pass that is not cut short leaves no more than the cap, or than the files
\* it failed to remove and agent.log, plus what was added after the listing
\* began: rotations that move files under the names in the list, or away from
\* them, do not make it stop too early (cleanup_service.py:149).  A rotation in
\* the midst of the listing hides one file from it, however many there are: the
\* full agent.log, listed neither as itself nor as agent.log.1.
CapReached ==
    [][SizeUp \/ (\E t \in targets : RemoveFile(t) \/ RemoveFails(t))
         => \/ pc' = "purge"
            \/ Size' <= MaxBytes + grown' + (IF torn' > 0 THEN 1 ELSE 0)
            \/ Size' <= refused' + 1 + grown']_logVars

\* Files that remain although they are older than what is removed at t's path.
Spared(t) == {f \in Files : \E g \in Found(t) : f.mtime < g.mtime}

\* The cap removes the oldest first (cleanup_service.py:132).  What a failed
\* removal leaves behind is spared; each rotation since the listing began, which
\* puts younger logs under the names listed, can spare one log, and one more if
\* it came between the looks at two names and mixed up their ages.
OldestFirst ==
    [][\A t \in targets : RemoveFile(t) =>
         /\ rotations = 0 => Cardinality(Spared(t)) <= refused
         /\ t.dir = "logs" =>
              Cardinality({f \in Spared(t) : f.dir = "logs"}) <= rotations + torn + refused]_logVars
=============================================================================
