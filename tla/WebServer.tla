------------------------------- MODULE WebServer -------------------------------
(***************************************************************************)
(* The three users of the web server's device table: PingMonitor,          *)
(* NvrMonitor and CameraSettings.  They write different columns, or the    *)
(* NVR's own settings and a file, and call nothing of each other: a        *)
(* behaviour shows one of them at work and the others at rest.  (What they *)
(* read of each other, like IsOnline, is chosen freely.)                   *)
(***************************************************************************)
EXTENDS PingMonitor, CameraSettings

CONSTANTS
    Nvrs, SeededNvrs,
    Requests              \* bound: requests for a check that are under way

\* What NvrMonitor asks of its constants.
ASSUME NvrAssumption ==
    /\ SeededNvrs \subseteq Nvrs /\ Requests \cap 1..Rounds = {}
    /\ None \notin {"monday", "tuesday", "N/A", "read", "placeholder"}

VARIABLES
    nRegistered, nUsable, nRow, nLoop, nRound, nStage, nLocal, nOverlapped,
    watched               \* the one that is at work

N == INSTANCE NvrMonitor WITH
    Devices <- Nvrs, Seeded <- SeededNvrs,
    registered <- nRegistered, usable <- nUsable, row <- nRow,
    loop <- nLoop, round <- nRound, stage <- nStage, local <- nLocal,
    overlapped <- nOverlapped

nVars == <<nRegistered, nUsable, nRow, nLoop, nRound, nStage, nLocal, nOverlapped>>
allVars == <<vars, nVars, cameraVars, watched>>

\* A monitor at rest begins with no devices.
WebInit ==
    /\ Init /\ N!Init /\ CameraInit
    /\ watched \in {"pings", "nvrs", "cameras"}
    /\ watched # "pings" => registered = {}
    /\ watched # "nvrs" => nRegistered = {}

WebNext ==
    \/ watched = "pings" /\ Next /\ UNCHANGED <<nVars, cameraVars, watched>>
    \/ watched = "nvrs" /\ N!Next /\ UNCHANGED <<vars, cameraVars, watched>>
    \/ watched = "cameras" /\ CameraNext /\ UNCHANGED <<vars, nVars, watched>>

\* Fairness of the monitor that is at work: the same one for ever, so that
\* fairness of the disjunction is fairness of its disjunct.
AtWork(A, B) ==
    \/ watched = "pings" /\ A /\ UNCHANGED <<nVars, cameraVars, watched>>
    \/ watched = "nvrs" /\ B /\ UNCHANGED <<vars, cameraVars, watched>>

WebFairness ==
    /\ WF_allVars(AtWork(Loop, N!Loop))
    /\ \A r \in 1..Rounds : WF_allVars(AtWork(RoundStep(r), N!RoundStep(r)))
    /\ \A q \in Requests : WF_allVars(AtWork(FALSE, N!RequestStep(q)))

WebSpec == WebInit /\ [][WebNext]_allVars /\ WebFairness

-----------------------------------------------------------------------------
\* The properties of NvrMonitor, which say what each of them means for
\* check_single_nvr_async, under names of their own.

\* The type invariants of the three modules.
MonitorTypesOK == TypeOK /\ N!TypeOK /\ CameraTypeOK

\* An NVR that is shown as recording is shown with a date.
NvrRecordingDated == N!RecordingDated

\* What was learnt of an NVR is replaced by something newer only.
NvrReadingsKept == N!ReadingsKept

\* A listing of the devices that is attempted again and again succeeds at last.
ListingSucceeds == SF_allVars(AtWork(ListDevices, N!ListDevices))

\* Each monitor goes on for ever while it is the one at work, in spite of listings
\* that fail and of checks that raise, unless in the end all listings fail: its loop
\* survives every exception, and every check gives its permit back
\* (background_ping_check, background_hikvision_check).
PingGoesOn == watched = "pings" /\ ListingSucceeds => KeepsChecking

\* The same of the monitor of NVRs.
NvrGoesOn == watched = "nvrs" /\ ListingSucceeds => N!KeepsChecking
=============================================================================
