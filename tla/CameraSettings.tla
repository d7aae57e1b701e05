---------------------------- MODULE CameraSettings ----------------------------
(***************************************************************************)
(* The stream settings of the cameras behind one NVR                       *)
(* (hikvision_service.py, routers/devices.py).  A request to change them   *)
(* writes them to mock_resolutions.json first, "in all cases so it acts as *)
(* stateful cache/fallback", and then to the NVR over HTTP, where any call *)
(* may be refused, fail, or succeed and not be heard of.  A request to     *)
(* show them asks the NVR and fills in from the file what it did not get.  *)
(* Requests run on one event loop and overlap at every await.  Every       *)
(* exception that the file gives rise to is swallowed: one that cannot be  *)
(* read counts as empty, when it is shown and when it is written again.    *)
(*                                                                         *)
(* Two streams of one camera stand for all streams.  Values are opaque: a  *)
(* frame rate, which the NVR has in hundredths, is two or more (one would  *)
(* be stored as 100, and is shown as 100).  The XML of an NVR lacks some   *)
(* tags, always the same; the bit rate, of which it has one tag or the     *)
(* other, is taken under either name.  The NVR changes its settings for    *)
(* these requests only, does all that a PUT says which it accepts, and     *)
(* does not carry out a call after it has timed out.  The requests of      *)
(* batch-resolution are like others: its semaphore allows fewer            *)
(* interleavings.                                                          *)
(***************************************************************************)
EXTENDS Naturals

CONSTANTS
    Setters,              \* requests to change settings, each made once
    Getters,              \* requests to show them, likewise
    Targets,              \* what a request may call the stream: nobody checks it
    Fields, Paired,       \* width and height are sent together or not at all
    Tags,                 \* the fields that the NVR's XML of a stream holds
    Payloads,             \* what may be asked for: values of some of the fields
    Default,              \* stands for what is shown of a field the file lacks
    Factory,              \* what the NVR has at first
    MaxLosses             \* bound: times that the file is truncated

\* The two streams of a camera, and requests for its fields.
ASSUME CameraAssumption ==
    /\ Paired \subseteq Fields
    /\ Tags \in [{"main", "sub"} -> SUBSET Fields]
    /\ MaxLosses \in Nat
    /\ \A asked \in Payloads : DOMAIN asked \subseteq Fields

VARIABLES
    nvr,                  \* the NVR's settings, by stream and field
    file,                 \* the settings in the file, likewise
    sets, gets,           \* the requests
    \* Bookkeeping, read by properties only: the fields, by stream, that an
    \* undisturbed request has written to both, that were not asked for since, and
    \* that the file has not lost.
    sure,
    losses                \* bookkeeping for the bound MaxLosses

cameraVars == <<nvr, file, sets, gets, sure, losses>>

Streams == {"main", "sub"}
Nobody == "none"
NoFields == [s \in Streams |-> {}]
NotTold == [f \in Fields |-> Nobody]
Lost == [s \in Streams |-> [f \in Fields |-> Default]]

\* Another name than "main" is the sub stream's to the NVR.
StreamOf(k) == IF k = "main" THEN "main" ELSE "sub"

\* alone, saved: bookkeeping, no other request was under way on the stream, and
\* what this one has saved is still in the file.
NewSet == [pc |-> "idle", stream |-> Nobody, asked |-> <<>>, xml |-> <<>>,
           alone |-> FALSE, saved |-> FALSE]

\* held: bookkeeping, what was sure when the request began and still is.
NewGet == [pc |-> "idle", shown |-> [s \in Streams |-> NotTold], mock |-> FALSE,
           held |-> NoFields]

Answered == {"idle", "applied", "simulated", "failed"}

-----------------------------------------------------------------------------
(* The file: written whole, with no await between load and dump. *)

\* Mutation: a stream's entry is replaced, not merged into.
Overwrite(settings, asked) ==
    [f \in Fields |-> IF f \in DOMAIN asked THEN asked[f] ELSE Default]

\* What asked makes of settings.
Override(settings, asked) ==
    [f \in Fields |-> IF f \in DOMAIN asked THEN asked[f] ELSE settings[f]]

\* save_mock_resolution.
Merge(settings, asked) == Override(settings, asked)

\* Fields by stream, but for some of a stream.
Without(fields, s, some) == [fields EXCEPT ![s] = @ \ some]

\* Bookkeeping: what a request asks for is no longer sure, or nothing is.
Forget(s, some) ==
    /\ sure' = Without(sure, s, some)
    /\ gets' = [g \in Getters |-> [gets[g] EXCEPT !.held = Without(@, s, some)]]
ForgetAll ==
    /\ sure' = NoFields
    /\ gets' = [g \in Getters |-> [gets[g] EXCEPT !.held = NoFields]]

\* load_mock_resolutions: {} if the file cannot be read.
Found == {file, Lost}

\* What was found is written with what is asked for, under the name k: an entry
\* of another name than the two is shown to nobody.
Write(k, asked, found) ==
    file' = IF k \in Streams THEN [found EXCEPT ![k] = Merge(@, asked)] ELSE found

Saves(k, asked) ==
    /\ Write(k, asked, file) /\ Forget(StreamOf(k), DOMAIN asked)
    /\ UNCHANGED losses

\* The file cannot be read: all that it held is overwritten, of other cameras too.
SavesAnew(k, asked) == Write(k, asked, Lost) /\ ForgetAll /\ UNCHANGED losses

\* The file cannot be opened for writing.
CannotOpen(k, asked) == Forget(StreamOf(k), DOMAIN asked) /\ UNCHANGED <<file, losses>>

\* It was truncated when it was opened, and the dump fails: it is not JSON, and
\* load_mock_resolutions returns {} of all cameras from then on.
LosesFile ==
    /\ losses < MaxLosses
    /\ losses' = losses + 1
    /\ file' = Lost /\ ForgetAll

-----------------------------------------------------------------------------
(* set_camera_resolution_async, and the endpoints that call it. *)

\* Those under way on a stream.
Busy(s) == {q \in Setters : sets[q].stream = s /\ sets[q].pc \notin Answered}

\* A request begins, knowing whether the NVR was online: the file is written
\* before anything is awaited, and whatever comes of it the request goes on.
Begin(r, k, asked, online) == LET s == StreamOf(k) IN
    /\ sets[r].pc = "idle"
    /\ \E saved \in {"yes", "anew", "no", "lost"} :
        /\ \/ saved = "yes" /\ Saves(k, asked)
           \/ saved = "anew" /\ SavesAnew(k, asked)
           \/ saved = "no" /\ CannotOpen(k, asked)
           \/ saved = "lost" /\ LosesFile
        /\ sets' = [q \in Setters |->
             IF q = r
             THEN [NewSet EXCEPT !.pc = IF online THEN "reading" ELSE "simulated",
                     !.stream = IF online THEN s ELSE Nobody,
                     !.asked = IF online THEN asked ELSE <<>>,
                     !.alone = online /\ Busy(s) = {},
                     !.saved = online /\ k \in Streams /\ saved \in {"yes", "anew"}]
             ELSE [sets[q] EXCEPT !.alone = @ /\ sets[q].stream # s,
                                  !.saved = @ /\ saved \in {"yes", "no"}]]
    /\ UNCHANGED nvr

Xml(s) == [f \in Tags[s] |-> nvr[s][f]]

\* The GET succeeds: the XML is what the NVR has now, where it has a tag for it.
Read(r) ==
    /\ sets[r].pc = "reading"
    /\ sets' = [sets EXCEPT ![r].pc = "minimal", ![r].xml = Xml(sets[r].stream)]
    /\ UNCHANGED <<nvr, file, gets, sure, losses>>

\* Any exception, and a GET that is not answered with 200, end in a simulated success.
Simulate(r) ==
    /\ sets[r].pc \in {"reading", "minimal", "full"}
    /\ sets' = [sets EXCEPT ![r] = [NewSet EXCEPT !.pc = "simulated"]]
    /\ UNCHANGED <<file, gets, sure, losses>>

\* width and height go to the NVR if both are given.
Sent(asked) ==
    IF Paired \subseteq DOMAIN asked THEN asked
    ELSE [f \in DOMAIN asked \ Paired |-> asked[f]]

\* Mutation: what the file has is sent, not what the NVR said.
FullXmlOfFile(r) == [f \in DOMAIN sets[r].xml |->
    Override(file[sets[r].stream], Sent(sets[r].asked))[f]]

\* The XML that was read, its tags replaced by what is sent: what has no tag in it
\* is not sent.
FullXml(r) == [f \in DOMAIN sets[r].xml |->
    IF f \in DOMAIN Sent(sets[r].asked) THEN sets[r].asked[f] ELSE sets[r].xml[f]]

\* What the NVR has once the PUT that r is at is carried out.
Put(r) ==
    nvr' = [nvr EXCEPT ![sets[r].stream] =
        Override(@, IF sets[r].pc = "minimal" THEN Sent(sets[r].asked) ELSE FullXml(r))]

PutAccepted(r) == LET s == sets[r].stream IN
    /\ sets[r].pc \in {"minimal", "full"}
    /\ Put(r)
    /\ sets' = [sets EXCEPT ![r].pc = "applied"]
    /\ sure' = IF sets[r].alone /\ sets[r].saved
               THEN [sure EXCEPT ![s] = @ \cup (DOMAIN Sent(sets[r].asked) \cap Tags[s])] ELSE sure
    /\ UNCHANGED <<file, gets, losses>>

\* The minimal XML is refused: the full one is tried, and that is the last try.
PutRefused(r) ==
    /\ sets[r].pc \in {"minimal", "full"}
    /\ sets' = [sets EXCEPT ![r].pc = IF @ = "minimal" THEN "full" ELSE "failed"]
    /\ UNCHANGED <<nvr, file, gets, sure, losses>>

\* The connection fails or times out, before or after the NVR has obeyed.
Unheard(r) ==
    /\ Simulate(r)
    /\ \/ UNCHANGED nvr
       \/ sets[r].pc \in {"minimal", "full"} /\ Put(r)

SetStep(r) ==
    \/ \E k \in Targets, asked \in Payloads, online \in BOOLEAN : Begin(r, k, asked, online)
    \/ Read(r)
    \/ PutAccepted(r)
    \/ PutRefused(r)
    \/ Unheard(r)

-----------------------------------------------------------------------------
(* get_camera_resolution_async. *)

\* An NVR that was offline is not asked: what is found in the file is shown.
ShowFile(g) ==
    /\ gets[g].pc = "idle"
    /\ \E found \in Found :
        gets' = [gets EXCEPT ![g] =
          [pc |-> "shown", shown |-> found, mock |-> TRUE,
           held |-> IF found = file THEN sure ELSE NoFields]]
    /\ UNCHANGED <<nvr, file, sets, sure, losses>>

BeginGet(g) ==
    /\ gets[g].pc = "idle"
    /\ gets' = [gets EXCEPT ![g] = [NewGet EXCEPT !.pc = "main", !.held = sure]]
    /\ UNCHANGED <<nvr, file, sets, sure, losses>>

\* What the NVR's answer shows of a stream: nothing without width and height, and
\* a default for any other field that has no tag.
Answer(s) ==
    IF Paired \subseteq Tags[s]
    THEN [f \in Fields |-> IF f \in Tags[s] THEN nvr[s][f] ELSE Default] ELSE NotTold

\* A stream of which the NVR told nothing is shown as it is found in the file.
FillIn(shown, found) == [s \in Streams |-> IF shown[s] = NotTold THEN found[s] ELSE shown[s]]

\* Bookkeeping: what is held of a stream that is shown as a default.
StillHeld(held, shown, found) ==
    [s \in Streams |-> IF shown[s] = NotTold /\ found # file THEN {} ELSE held[s]]

\* The NVR tells its settings of a stream, or an error, or nothing; ...
ToldMain(g, got) ==
    /\ gets[g].pc = "main"
    /\ gets' = [gets EXCEPT ![g].pc = "sub", ![g].shown["main"] = got]
    /\ UNCHANGED <<nvr, file, sets, sure, losses>>

\* ... it is asked of the sub stream in any case, and then there is something to show.
ToldSub(g, got) == LET shown == [gets[g].shown EXCEPT !["sub"] = got] IN
    /\ gets[g].pc = "sub"
    /\ \E found \in Found :
        gets' = [gets EXCEPT ![g] =
          [pc |-> "shown", shown |-> FillIn(shown, found),
           mock |-> \E s \in Streams : shown[s] = NotTold,
           held |-> StillHeld(@.held, shown, found)]]
    /\ UNCHANGED <<nvr, file, sets, sure, losses>>

GetStep(g) ==
    \/ ShowFile(g)
    \/ BeginGet(g)
    \/ \E got \in {Answer("main"), NotTold} : ToldMain(g, got)
    \/ \E got \in {Answer("sub"), NotTold} : ToldSub(g, got)

-----------------------------------------------------------------------------
CameraInit ==
    /\ nvr = [s \in Streams |-> [f \in Fields |-> Factory]]
    /\ file = Lost
    /\ sets = [r \in Setters |-> NewSet]
    /\ gets = [g \in Getters |-> NewGet]
    /\ sure = NoFields
    /\ losses = 0

CameraNext ==
    \/ \E r \in Setters : SetStep(r)
    \/ \E g \in Getters : GetStep(g)

CameraSpec == CameraInit /\ [][CameraNext]_cameraVars

-----------------------------------------------------------------------------
(* Properties. *)

Values == {Default, Factory} \cup UNION {{asked[f] : f \in DOMAIN asked} : asked \in Payloads}

CameraTypeOK ==
    /\ nvr \in [Streams -> [Fields -> Values]]
    /\ file \in [Streams -> [Fields -> Values]]
    /\ \A r \in Setters :
        /\ sets[r].pc \in Answered \cup {"reading", "minimal", "full"}
        /\ sets[r].stream \in Streams \cup {Nobody}
        /\ sets[r].asked \in Payloads \cup {<<>>}
        /\ sets[r].alone \in BOOLEAN /\ sets[r].saved \in BOOLEAN
    /\ \A g \in Getters :
        /\ gets[g].pc \in {"idle", "main", "sub", "shown"}
        /\ gets[g].mock \in BOOLEAN
    /\ sure \in [Streams -> SUBSET Fields]
    /\ losses \in 0..MaxLosses

\* The NVR is left as the answer says (set_camera_resolution_async): by a request
\* that no other disturbed, of what the NVR's XML shows all that was sent is there
\* and nothing else has changed if it was told of an update via ISAPI, and nothing
\* at all has changed if it was told of an error.  (A simulated success says
\* nothing of the NVR.)
AnswersTrue ==
    \A r \in Setters : sets[r].alone =>
        /\ sets[r].pc = "applied" =>
            \A f \in Tags[sets[r].stream] : nvr[sets[r].stream][f] =
                IF f \in DOMAIN Sent(sets[r].asked) THEN sets[r].asked[f] ELSE sets[r].xml[f]
        /\ sets[r].pc = "failed" => Xml(sets[r].stream) = sets[r].xml

\* The file stands in for the NVR (save_mock_resolution, get_mock_resolution): a
\* field that an undisturbed request has changed, that the NVR's XML shows, and
\* that no other request has asked for since, is shown as the NVR has it, whether
\* the NVR answers the request to show it, answers for one stream only, or is not
\* reached, and whatever requests for other fields and under other names are
\* doing at the time; unless the file could not be read or was lost.
ShownAsSet ==
    \A g \in Getters : gets[g].pc = "shown" =>
        \A s \in Streams : \A f \in gets[g].held[s] : gets[g].shown[s][f] = nvr[s][f]
=============================================================================
