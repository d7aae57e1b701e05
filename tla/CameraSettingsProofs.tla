------------------------- MODULE CameraSettingsProofs -------------------------
(***************************************************************************)
(* What requests for stream settings leave on the NVR and in the file, for *)
(* every number of requests that overlap, of fields and of payloads.       *)
(***************************************************************************)
EXTENDS CameraSettings, TLAPS

-----------------------------------------------------------------------------
(* Types *)

Settings == [Fields -> Values]

\* What the NVR's XML of a stream may be.
XmlOf(s) == [Tags[s] -> Values]
Xmls == XmlOf("main") \cup XmlOf("sub") \cup {<<>>}

Requested == [pc : Answered \cup {"reading", "minimal", "full"},
              stream : Streams \cup {Nobody},
              asked : Payloads \cup {<<>>}, xml : Xmls,
              alone : BOOLEAN, saved : BOOLEAN]

ShownOf == [pc : {"idle", "main", "sub", "shown"},
            shown : [Streams -> [Fields -> Values \cup {Nobody}]],
            mock : BOOLEAN, held : [Streams -> SUBSET Fields]]

\* A request that is under way knows what it is for, and what it has read.
WellFormed(q) ==
    /\ q.pc \notin Answered => q.stream \in Streams /\ q.asked \in Payloads
    /\ q.pc \in {"minimal", "full"} => q.xml \in XmlOf(q.stream)
    /\ q.alone => q.stream \in Streams

CameraTypes ==
    /\ nvr \in [Streams -> Settings] /\ file \in [Streams -> Settings]
    /\ sets \in [Setters -> Requested]
    /\ gets \in [Getters -> ShownOf]
    /\ sure \in [Streams -> SUBSET Fields]
    /\ losses \in 0..MaxLosses
    /\ \A r \in Setters : WellFormed(sets[r])

-----------------------------------------------------------------------------
(* The inductive invariant *)

\* A request that is marked as alone has its stream to itself until another begins.
Undisturbed == \A r \in Setters : sets[r].alone => Busy(sets[r].stream) \subseteq {r}

\* Until it is answered, such a request has read what the NVR still has, ...
ReadsHold ==
    \A r \in Setters :
        sets[r].alone /\ sets[r].pc \in {"minimal", "full"} => Xml(sets[r].stream) = sets[r].xml

\* ... and what it has saved is in the file.
SavesHold ==
    \A r \in Setters :
        sets[r].alone /\ sets[r].saved /\ sets[r].pc \notin Answered =>
            \A f \in DOMAIN sets[r].asked : file[sets[r].stream][f] = sets[r].asked[f]

\* A field that is sure is in the NVR's XML, and the same on both sides, ...
SureAgrees == \A s \in Streams : \A f \in sure[s] : f \in Tags[s] /\ file[s][f] = nvr[s][f]

\* ... and nobody is about to change it, or to put an old value back.
SureIsSafe ==
    \A r \in Setters : sets[r].pc \notin Answered =>
        /\ sure[sets[r].stream] \cap DOMAIN sets[r].asked = {}
        /\ sets[r].pc \in {"minimal", "full"} =>
              \A f \in sure[sets[r].stream] : sets[r].xml[f] = nvr[sets[r].stream][f]

\* What a request to show the settings holds on to is still sure.
HeldIsSure == \A g \in Getters, s \in Streams : gets[g].held[s] \subseteq sure[s]

\* What such a request has been told of the fields that it holds is still true.
TellsTrue(g, s) == \A f \in gets[g].held[s] : gets[g].shown[s][f] = nvr[s][f]
ToldTrue ==
    \A g \in Getters :
        /\ gets[g].pc = "sub" => gets[g].shown["main"] = NotTold \/ TellsTrue(g, "main")
        /\ gets[g].pc = "shown" => \A s \in Streams : TellsTrue(g, s)

CameraInv ==
    /\ Undisturbed /\ ReadsHold /\ SavesHold /\ AnswersTrue
    /\ SureAgrees /\ SureIsSafe /\ HeldIsSure /\ ToldTrue

-----------------------------------------------------------------------------
(* Lemmas about the operators *)

\* What is sent is some of what was asked for.
LEMMA SentIsAsked ==
    ASSUME NEW asked
    PROVE  /\ DOMAIN Sent(asked) \subseteq DOMAIN asked
           /\ \A f \in DOMAIN Sent(asked) : Sent(asked)[f] = asked[f]
BY DEF Sent

\* What is asked for is a value of a field.
LEMMA AskedIsValue ==
    ASSUME NEW asked \in Payloads, NEW f \in DOMAIN asked
    PROVE  asked[f] \in Values /\ f \in Fields
BY CameraAssumption DEF Values

\* Merging a payload into settings, or the part of it that is sent.
LEMMA OverrideGives ==
    ASSUME NEW settings \in Settings, NEW asked \in Payloads
    PROVE  /\ Override(settings, asked) \in Settings
           /\ \A f \in Fields : Override(settings, asked)[f] =
                 IF f \in DOMAIN asked THEN asked[f] ELSE settings[f]
BY AskedIsValue DEF Override, Settings

\* The same of the part that is sent.
LEMMA SendGives ==
    ASSUME NEW settings \in Settings, NEW asked \in Payloads
    PROVE  /\ Override(settings, Sent(asked)) \in Settings
           /\ \A f \in Fields : Override(settings, Sent(asked))[f] =
                 IF f \in DOMAIN Sent(asked) THEN asked[f] ELSE settings[f]
BY AskedIsValue, SentIsAsked DEF Override, Settings

\* The XML that the GET returns, and the one that is made of it.
LEMMA XmlGives ==
    ASSUME nvr \in [Streams -> Settings], NEW s \in Streams
    PROVE  /\ Xml(s) \in XmlOf(s) /\ Tags[s] \subseteq Fields
           /\ \A f \in Tags[s] : Xml(s)[f] = nvr[s][f]
<1>1. Tags[s] \subseteq Fields
  BY CameraAssumption DEF Streams
<1> QED BY <1>1 DEF Xml, XmlOf, Settings

\* Another name than "main" stands for the sub stream.
LEMMA StreamOfGives == \A k : StreamOf(k) \in Streams /\ (k \in Streams => StreamOf(k) = k)
BY DEF StreamOf, Streams

\* What there is at first are values.
LEMMA FirstValues == Default \in Values /\ Factory \in Values
BY DEF Values

\* A request that has not begun has its type.
LEMMA NewTypes == NewSet \in Requested /\ NewGet \in ShownOf
BY DEF NewSet, Requested, Answered, Xmls, NewGet, ShownOf, NotTold, NoFields

\* Fields are taken from one stream only.
LEMMA WithoutGives ==
    ASSUME NEW fields \in [Streams -> SUBSET Fields], NEW s \in Streams, NEW some
    PROVE  /\ Without(fields, s, some) \in [Streams -> SUBSET Fields]
           /\ \A t \in Streams : Without(fields, s, some)[t] =
                 IF t = s THEN fields[t] \ some ELSE fields[t]
BY DEF Without

\* What the beginning of a request does to the file, and to what is known of it.
Filed(k, asked, saved) ==
    \/ saved = "yes" /\ Saves(k, asked)
    \/ saved = "anew" /\ SavesAnew(k, asked)
    \/ saved = "no" /\ CannotOpen(k, asked)
    \/ saved = "lost" /\ LosesFile

\* What is written over what was found, or over nothing.
LEMMA WriteGives ==
    ASSUME NEW k, NEW asked \in Payloads, NEW found \in [Streams -> Settings], Write(k, asked, found)
    PROVE  /\ file' \in [Streams -> Settings]
           /\ \A t \in Streams \ {StreamOf(k)} : file'[t] = found[t]
           /\ \A f \in Fields : f \notin DOMAIN asked => file'[StreamOf(k)][f] = found[StreamOf(k)][f]
           /\ k \in Streams => \A f \in DOMAIN asked : file'[StreamOf(k)][f] = asked[f]
<1>1. CASE k \in Streams
  <2>1. StreamOf(k) = k
    BY <1>1, StreamOfGives
  <2>2. file' = [found EXCEPT ![k] = Merge(found[k], asked)]
    BY <1>1 DEF Write
  <2>3. /\ Merge(found[k], asked) \in Settings
        /\ \A f \in Fields : Merge(found[k], asked)[f] = IF f \in DOMAIN asked THEN asked[f] ELSE found[k][f]
    BY <1>1, OverrideGives DEF Merge
  <2>4. DOMAIN asked \subseteq Fields
    BY AskedIsValue
  <2> QED BY <1>1, <2>1, <2>2, <2>3, <2>4
<1>2. CASE k \notin Streams
  BY <1>2 DEF Write
<1> QED BY <1>1, <1>2

\* What is forgotten of a stream, ...
LEMMA ForgetGives ==
    ASSUME CameraTypes, NEW s \in Streams, NEW asked \in Payloads, Forget(s, DOMAIN asked)
    PROVE  /\ sure' \in [Streams -> SUBSET Fields] /\ gets' \in [Getters -> ShownOf]
           /\ \A t \in Streams : sure'[t] = IF t = s THEN sure[t] \ DOMAIN asked ELSE sure[t]
           /\ \A g \in Getters :
                 /\ gets'[g].pc = gets[g].pc /\ gets'[g].shown = gets[g].shown
                 /\ \A t \in Streams :
                       gets'[g].held[t] = IF t = s THEN gets[g].held[t] \ DOMAIN asked ELSE gets[g].held[t]
<1>1. sure' = Without(sure, s, DOMAIN asked) /\ sure \in [Streams -> SUBSET Fields]
  BY DEF Forget, CameraTypes
<1>2. gets' = [g \in Getters |-> [gets[g] EXCEPT !.held = Without(gets[g].held, s, DOMAIN asked)]]
  BY DEF Forget, CameraTypes, ShownOf
<1>3. \A g \in Getters : gets[g].held \in [Streams -> SUBSET Fields]
  BY DEF CameraTypes, ShownOf
<1>4. ASSUME NEW g \in Getters
      PROVE  /\ Without(gets[g].held, s, DOMAIN asked) \in [Streams -> SUBSET Fields]
             /\ \A t \in Streams : Without(gets[g].held, s, DOMAIN asked)[t] =
                   IF t = s THEN gets[g].held[t] \ DOMAIN asked ELSE gets[g].held[t]
  <2> DEFINE held == gets[g].held
             some == DOMAIN asked
  <2>1. held \in [Streams -> SUBSET Fields]
    BY <1>3
  <2> HIDE DEF held, some
  <2>2. /\ Without(held, s, some) \in [Streams -> SUBSET Fields]
        /\ \A t \in Streams : Without(held, s, some)[t] = IF t = s THEN held[t] \ some ELSE held[t]
    BY <2>1, WithoutGives
  <2> QED BY <2>2 DEF held, some
<1>5. gets' \in [Getters -> ShownOf]
  BY <1>2, <1>4 DEF CameraTypes, ShownOf
<1>6. \A g \in Getters :
        /\ gets'[g].pc = gets[g].pc /\ gets'[g].shown = gets[g].shown
        /\ gets'[g].held = Without(gets[g].held, s, DOMAIN asked)
  BY <1>2 DEF CameraTypes, ShownOf
<1>7. /\ Without(sure, s, DOMAIN asked) \in [Streams -> SUBSET Fields]
      /\ \A t \in Streams : Without(sure, s, DOMAIN asked)[t] = IF t = s THEN sure[t] \ DOMAIN asked ELSE sure[t]
  BY <1>1, WithoutGives
<1> QED BY <1>1, <1>4, <1>5, <1>6, <1>7

\* ... or of both.
LEMMA ForgetAllGives ==
    ASSUME CameraTypes, ForgetAll
    PROVE  /\ sure' \in [Streams -> SUBSET Fields] /\ gets' \in [Getters -> ShownOf]
           /\ \A t \in Streams : sure'[t] = {}
           /\ \A g \in Getters :
                 /\ gets'[g].pc = gets[g].pc /\ gets'[g].shown = gets[g].shown
                 /\ \A t \in Streams : gets'[g].held[t] = {}
<1>1. NoFields \in [Streams -> SUBSET Fields] /\ \A t \in Streams : NoFields[t] = {}
  BY DEF NoFields
<1> QED BY <1>1 DEF ForgetAll, CameraTypes, ShownOf

\* Whatever becomes of the file, it and what is known of it have their types.
LEMMA FiledTypes ==
    ASSUME CameraTypes, NEW k, NEW asked \in Payloads, NEW saved, Filed(k, asked, saved)
    PROVE  /\ file' \in [Streams -> Settings] /\ sure' \in [Streams -> SUBSET Fields]
           /\ losses' \in 0..MaxLosses /\ gets' \in [Getters -> ShownOf]
<1>1. file \in [Streams -> Settings] /\ Lost \in [Streams -> Settings] /\ losses \in 0..MaxLosses
  BY FirstValues DEF CameraTypes, Lost, Settings
<1>2. file' \in [Streams -> Settings] /\ losses' \in 0..MaxLosses
  BY <1>1, WriteGives, CameraAssumption DEF Filed, Saves, SavesAnew, CannotOpen, LosesFile
<1>3. Forget(StreamOf(k), DOMAIN asked) \/ ForgetAll
  BY DEF Filed, Saves, SavesAnew, CannotOpen, LosesFile
<1> QED BY <1>2, <1>3, StreamOfGives, ForgetGives, ForgetAllGives

\* What is still sure was sure before, in the file it has not changed, and it is
\* none of what is asked for; what was saved is there.
LEMMA FiledKeeps ==
    ASSUME CameraTypes, NEW k, NEW asked \in Payloads, NEW saved, Filed(k, asked, saved),
           NEW s \in Streams, s = StreamOf(k)
    PROVE  /\ \A t \in Streams : sure'[t] \subseteq sure[t]
           /\ sure'[s] \cap DOMAIN asked = {}
           /\ \A t \in Streams : \A f \in sure'[t] : file'[t][f] = file[t][f]
           /\ saved \in {"yes", "no"} => \A t \in Streams \ {s} : file'[t] = file[t]
           /\ saved \in {"yes", "anew"} /\ k \in Streams => \A f \in DOMAIN asked : file'[s][f] = asked[f]
           /\ \A g \in Getters : gets'[g].pc = gets[g].pc /\ gets'[g].shown = gets[g].shown
           /\ \A g \in Getters, t \in Streams :
                 /\ gets'[g].held[t] \subseteq gets[g].held[t]
                 /\ gets[g].held[t] \subseteq sure[t] => gets'[g].held[t] \subseteq sure'[t]
<1>1. file \in [Streams -> Settings] /\ Lost \in [Streams -> Settings]
  BY FirstValues DEF CameraTypes, Lost, Settings
<1>2. CASE saved \in {"yes", "no"}
  <2>1. Forget(s, DOMAIN asked)
    BY <1>2 DEF Filed, Saves, CannotOpen
  <2>2. Write(k, asked, file) \/ (saved # "yes" /\ file' = file)
    BY <1>2 DEF Filed, Saves, CannotOpen
  <2>3. /\ \A t \in Streams \ {s} : file'[t] = file[t]
        /\ \A f \in Fields : f \notin DOMAIN asked => file'[s][f] = file[s][f]
        /\ saved = "yes" /\ k \in Streams => \A f \in DOMAIN asked : file'[s][f] = asked[f]
    BY <1>1, <2>2, WriteGives
  <2>4. \A t \in Streams : sure[t] \subseteq Fields
    BY DEF CameraTypes
  <2>5. /\ \A t \in Streams : sure'[t] = IF t = s THEN sure[t] \ DOMAIN asked ELSE sure[t]
        /\ \A g \in Getters :
              /\ gets'[g].pc = gets[g].pc /\ gets'[g].shown = gets[g].shown
              /\ \A t \in Streams : gets'[g].held[t] =
                    IF t = s THEN gets[g].held[t] \ DOMAIN asked ELSE gets[g].held[t]
    BY <2>1, ForgetGives
  <2>6. \A t \in Streams : \A f \in sure'[t] : file'[t][f] = file[t][f]
    BY <2>3, <2>4, <2>5
  <2> QED BY <1>2, <2>3, <2>5, <2>6
<1>3. CASE saved \in {"anew", "lost"}
  <2>1. ForgetAll
    BY <1>3 DEF Filed, SavesAnew, LosesFile
  <2>2. saved = "anew" => Write(k, asked, Lost)
    BY DEF Filed, SavesAnew
  <2>3. saved = "anew" /\ k \in Streams => \A f \in DOMAIN asked : file'[s][f] = asked[f]
    BY <1>1, <2>2, WriteGives
  <2> QED BY <1>3, <2>1, <2>3, ForgetAllGives
<1> QED BY <1>2, <1>3 DEF Filed

\* What the beginning of r leaves of the requests, with saved as in Filed.
BegunAs(r, k, asked, online, saved) == LET s == StreamOf(k) IN
    /\ online => /\ sets'[r].pc = "reading" /\ sets'[r].stream = s /\ sets'[r].asked = asked
                 /\ sets'[r].alone => Busy(s) = {}
                 /\ sets'[r].saved => k \in Streams /\ saved \in {"yes", "anew"}
    /\ ~online => sets'[r].pc = "simulated" /\ ~sets'[r].alone
    /\ \A q \in Setters \ {r} :
         /\ sets'[q].pc = sets[q].pc /\ sets'[q].stream = sets[q].stream
         /\ sets'[q].asked = sets[q].asked /\ sets'[q].xml = sets[q].xml
         /\ sets'[q].alone => sets[q].alone /\ sets[q].stream # s
         /\ sets'[q].saved => sets[q].saved /\ saved \in {"yes", "no"}

\* The beginning of a request is one of the four things that may come of saving
\* it.
LEMMA BeginGives ==
    ASSUME CameraTypes, NEW r \in Setters, NEW k \in Targets, NEW asked \in Payloads,
           NEW online \in BOOLEAN, Begin(r, k, asked, online)
    PROVE  /\ sets' \in [Setters -> Requested] /\ \A q \in Setters : WellFormed(sets'[q])
           /\ \E saved \in {"yes", "anew", "no", "lost"} :
                 Filed(k, asked, saved) /\ BegunAs(r, k, asked, online, saved)
<1> DEFINE s == StreamOf(k)
<1>1. PICK saved \in {"yes", "anew", "no", "lost"} :
        /\ \/ saved = "yes" /\ Saves(k, asked)
           \/ saved = "anew" /\ SavesAnew(k, asked)
           \/ saved = "no" /\ CannotOpen(k, asked)
           \/ saved = "lost" /\ LosesFile
        /\ sets' = [q \in Setters |->
             IF q = r
             THEN [NewSet EXCEPT !.pc = IF online THEN "reading" ELSE "simulated",
                     !.stream = IF online THEN s ELSE Nobody,
                     !.asked = IF online THEN asked ELSE <<>>,
                     !.alone = online /\ Busy(s) = {},
                     !.saved = online /\ k \in Streams /\ saved \in {"yes", "anew"}]
             ELSE [sets[q] EXCEPT !.alone = @ /\ sets[q].stream # s,
                                  !.saved = @ /\ saved \in {"yes", "no"}]]
  BY DEF Begin
<1>2. Filed(k, asked, saved)
  BY <1>1 DEF Filed
<1>3. s \in Streams
  BY StreamOfGives
<1>4. sets'[r] = [pc |-> IF online THEN "reading" ELSE "simulated",
                  stream |-> IF online THEN s ELSE Nobody,
                  asked |-> IF online THEN asked ELSE <<>>, xml |-> <<>>,
                  alone |-> online /\ Busy(s) = {},
                  saved |-> online /\ k \in Streams /\ saved \in {"yes", "anew"}]
  BY <1>1 DEF NewSet
<1>5. ASSUME NEW q \in Setters \ {r}
      PROVE  sets'[q] = [pc |-> sets[q].pc, stream |-> sets[q].stream, asked |-> sets[q].asked,
                         xml |-> sets[q].xml, alone |-> sets[q].alone /\ sets[q].stream # s,
                         saved |-> sets[q].saved /\ saved \in {"yes", "no"}]
  <2> DEFINE a == sets[q].alone /\ sets[q].stream # s
             b == sets[q].saved /\ saved \in {"yes", "no"}
  <2>1. sets[q] \in Requested
    BY DEF CameraTypes
  <2>2. sets'[q] = [sets[q] EXCEPT !.alone = a, !.saved = b]
    BY <1>1
  <2> HIDE DEF a, b
  <2>3. sets'[q] = [pc |-> sets[q].pc, stream |-> sets[q].stream, asked |-> sets[q].asked,
                    xml |-> sets[q].xml, alone |-> a, saved |-> b]
    BY <2>1, <2>2 DEF Requested
  <2> QED BY <2>3 DEF a, b
<1>6. sets'[r] \in Requested /\ WellFormed(sets'[r])
  BY <1>3, <1>4 DEF Requested, Answered, Xmls, WellFormed
<1>7. ASSUME NEW q \in Setters \ {r}
      PROVE  /\ sets'[q] \in Requested /\ WellFormed(sets'[q])
             /\ sets'[q].pc = sets[q].pc /\ sets'[q].stream = sets[q].stream
             /\ sets'[q].asked = sets[q].asked /\ sets'[q].xml = sets[q].xml
             /\ sets'[q].alone => sets[q].alone /\ sets[q].stream # s
             /\ sets'[q].saved => sets[q].saved /\ saved \in {"yes", "no"}
  <2> DEFINE a == sets[q].alone /\ sets[q].stream # s
             b == sets[q].saved /\ saved \in {"yes", "no"}
  <2>1. sets[q] \in Requested /\ WellFormed(sets[q])
    BY DEF CameraTypes
  <2>2. a \in BOOLEAN /\ b \in BOOLEAN
    OBVIOUS
  <2>3. (a => sets[q].alone /\ sets[q].stream # s) /\ (b => sets[q].saved /\ saved \in {"yes", "no"})
    OBVIOUS
  <2>4. sets'[q] = [pc |-> sets[q].pc, stream |-> sets[q].stream, asked |-> sets[q].asked,
                    xml |-> sets[q].xml, alone |-> a, saved |-> b]
    BY <1>5
  <2> HIDE DEF a, b
  <2>5. /\ sets'[q].pc = sets[q].pc /\ sets'[q].stream = sets[q].stream
        /\ sets'[q].asked = sets[q].asked /\ sets'[q].xml = sets[q].xml
        /\ sets'[q].alone = a /\ sets'[q].saved = b
    BY <2>4
  <2>6. sets'[q] \in Requested
    BY <2>1, <2>2, <2>4 DEF Requested
  <2> QED BY <2>1, <2>3, <2>5, <2>6 DEF WellFormed
<1>8. sets' \in [Setters -> Requested]
  <2>1. DOMAIN sets' = Setters /\ sets' = [q \in DOMAIN sets' |-> sets'[q]]
    BY <1>1
  <2> QED BY <1>6, <1>7, <2>1
<1>9. BegunAs(r, k, asked, online, saved)
  <2> DEFINE a == online /\ Busy(s) = {}
             b == online /\ k \in Streams /\ saved \in {"yes", "anew"}
  <2>1. (a => Busy(s) = {}) /\ (~online => ~a) /\ (b => k \in Streams /\ saved \in {"yes", "anew"})
    OBVIOUS
  <2>2. sets'[r] = [pc |-> IF online THEN "reading" ELSE "simulated",
                    stream |-> IF online THEN s ELSE Nobody,
                    asked |-> IF online THEN asked ELSE <<>>, xml |-> <<>>,
                    alone |-> a, saved |-> b]
    BY <1>4
  <2> HIDE DEF a, b
  <2>3. /\ sets'[r].pc = (IF online THEN "reading" ELSE "simulated")
        /\ sets'[r].stream = (IF online THEN s ELSE Nobody)
        /\ sets'[r].asked = (IF online THEN asked ELSE <<>>)
        /\ sets'[r].alone = a /\ sets'[r].saved = b
    BY <2>2
  <2> QED BY <1>7, <2>1, <2>3 DEF BegunAs
<1> QED BY <1>2, <1>6, <1>7, <1>8, <1>9

\* What a PUT leaves on the NVR: what is sent, over what was there or was read.
LEMMA PutGives ==
    ASSUME CameraTypes, NEW r \in Setters, sets[r].pc \in {"minimal", "full"}, Put(r)
    PROVE  /\ nvr' \in [Streams -> Settings]
           /\ \A t \in Streams \ {sets[r].stream} : nvr'[t] = nvr[t]
           /\ \A f \in Fields : nvr'[sets[r].stream][f] =
                 IF sets[r].pc = "full" /\ f \notin Tags[sets[r].stream] THEN nvr[sets[r].stream][f]
                 ELSE IF f \in DOMAIN Sent(sets[r].asked) THEN sets[r].asked[f]
                 ELSE IF sets[r].pc = "minimal" THEN nvr[sets[r].stream][f] ELSE sets[r].xml[f]
<1> DEFINE s == sets[r].stream
           new == Override(nvr[s], IF sets[r].pc = "minimal" THEN Sent(sets[r].asked) ELSE FullXml(r))
<1>1. s \in Streams /\ sets[r].asked \in Payloads /\ sets[r].xml \in XmlOf(s) /\ nvr[s] \in Settings
  BY DEF CameraTypes, WellFormed, Answered
<1>2. nvr' = [nvr EXCEPT ![s] = new]
  BY DEF Put
<1>3. /\ new \in Settings
      /\ \A f \in Fields : new[f] =
           IF sets[r].pc = "full" /\ f \notin Tags[s] THEN nvr[s][f]
           ELSE IF f \in DOMAIN Sent(sets[r].asked) THEN sets[r].asked[f]
           ELSE IF sets[r].pc = "minimal" THEN nvr[s][f] ELSE sets[r].xml[f]
  <2>1. CASE sets[r].pc = "minimal"
    BY <1>1, <2>1, SendGives
  <2>2. CASE sets[r].pc = "full"
    <3>1. \A f \in DOMAIN Sent(sets[r].asked) : sets[r].asked[f] \in Values
      BY <1>1, SentIsAsked, AskedIsValue
    <3>2. /\ DOMAIN FullXml(r) = Tags[s]
          /\ \A f \in Tags[s] : FullXml(r)[f] =
                IF f \in DOMAIN Sent(sets[r].asked) THEN sets[r].asked[f] ELSE sets[r].xml[f]
      BY <1>1 DEF FullXml, XmlOf
    <3>3. \A f \in Tags[s] : FullXml(r)[f] \in Values
      BY <1>1, <3>1, <3>2 DEF XmlOf
    <3>4. new = [f \in Fields |-> IF f \in Tags[s] THEN FullXml(r)[f] ELSE nvr[s][f]]
      BY <2>2, <3>2 DEF Override
    <3> HIDE DEF new
    <3> QED BY <1>1, <2>2, <3>2, <3>3, <3>4 DEF Settings
  <2> QED BY <2>1, <2>2
<1> HIDE DEF new
<1> QED BY <1>1, <1>2, <1>3 DEF CameraTypes

\* A request that ends in a simulated success.
LEMMA SimulateGives ==
    ASSUME CameraTypes, NEW r \in Setters, Simulate(r)
    PROVE  /\ sets' \in [Setters -> Requested] /\ \A q \in Setters : WellFormed(sets'[q])
           /\ sets'[r].pc = "simulated" /\ ~sets'[r].alone
           /\ \A q \in Setters \ {r} : sets'[q] = sets[q]
<1> DEFINE new == [NewSet EXCEPT !.pc = "simulated"]
<1>1. new \in Requested /\ WellFormed(new) /\ new.pc = "simulated" /\ ~new.alone
  BY DEF NewSet, Requested, Answered, Xmls, WellFormed
<1>2. sets' = [sets EXCEPT ![r] = new]
  BY DEF Simulate
<1> HIDE DEF new
<1> QED BY <1>1, <1>2 DEF CameraTypes

\* What a request leaves whose pc moves on, and that may have read something.
MovesTo(r, pc, xml) ==
    /\ sets' \in [Setters -> Requested] /\ \A q \in Setters : WellFormed(sets'[q])
    /\ sets'[r].pc = pc /\ sets'[r].xml = xml
    /\ sets'[r].stream = sets[r].stream /\ sets'[r].asked = sets[r].asked
    /\ sets'[r].alone = sets[r].alone /\ sets'[r].saved = sets[r].saved
    /\ \A q \in Setters \ {r} : sets'[q] = sets[q]

\* A request that moves on is one, and moves alone.
LEMMA MoveGives ==
    ASSUME CameraTypes, NEW r \in Setters, NEW pc, NEW xml \in Xmls,
           sets[r].pc \in {"reading", "minimal", "full"},
           pc \in {"minimal", "full", "applied", "failed"}, xml \in XmlOf(sets[r].stream),
           sets' = [sets EXCEPT ![r].pc = pc, ![r].xml = xml]
    PROVE  MovesTo(r, pc, xml)
<1>1. sets[r] \in Requested /\ WellFormed(sets[r]) /\ sets[r].stream \in Streams
  BY DEF CameraTypes, WellFormed, Answered
<1>2. sets' = [sets EXCEPT ![r] = [sets[r] EXCEPT !.pc = pc, !.xml = xml]]
  BY <1>1 DEF CameraTypes
<1> DEFINE new == [sets[r] EXCEPT !.pc = pc, !.xml = xml]
<1>3. /\ new \in Requested /\ new.pc = pc /\ new.xml = xml
      /\ new.stream = sets[r].stream /\ new.asked = sets[r].asked
      /\ new.alone = sets[r].alone /\ new.saved = sets[r].saved
  BY <1>1 DEF Requested, Answered
<1> HIDE DEF new
<1>4. WellFormed(new)
  BY <1>1, <1>3 DEF WellFormed, Answered
<1>5. sets' = [sets EXCEPT ![r] = new]
  BY <1>2 DEF new
<1> QED BY <1>3, <1>4, <1>5 DEF CameraTypes, MovesTo

\* The GET moves it on with what the NVR has,
LEMMA ReadMoves ==
    ASSUME CameraTypes, NEW r \in Setters, Read(r)
    PROVE  MovesTo(r, "minimal", Xml(sets[r].stream))
<1>1. sets[r] \in Requested /\ WellFormed(sets[r]) /\ sets[r].pc = "reading"
  BY DEF CameraTypes, Read
<1>2. Xml(sets[r].stream) \in XmlOf(sets[r].stream)
  BY <1>1, XmlGives DEF CameraTypes, WellFormed, Answered
<1>3. sets' = [sets EXCEPT ![r].pc = "minimal", ![r].xml = Xml(sets[r].stream)]
  BY DEF Read
<1>4. Xml(sets[r].stream) \in Xmls
  BY <1>1, <1>2 DEF Xmls, Streams, WellFormed, Answered
<1> QED BY <1>1, <1>2, <1>3, <1>4, MoveGives

\* The PUT that r is at is accepted, or refused.
LEMMA PutMoves ==
    ASSUME CameraTypes, NEW r \in Setters,
           NEW pc \in {"applied", "failed", "full"}, sets[r].pc \in {"minimal", "full"},
           sets' = [sets EXCEPT ![r].pc = pc]
    PROVE  MovesTo(r, pc, sets[r].xml)
<1>1. sets[r] \in Requested /\ WellFormed(sets[r])
  BY DEF CameraTypes
<1>2. sets[r].xml \in XmlOf(sets[r].stream)
  BY <1>1 DEF WellFormed
<1>3. sets' = [sets EXCEPT ![r].pc = pc, ![r].xml = sets[r].xml]
  BY <1>1 DEF CameraTypes, Requested
<1>4. sets[r].xml \in Xmls
  BY <1>1 DEF Requested
<1> QED BY <1>1, <1>2, <1>3, <1>4, MoveGives

\* a PUT that is accepted ends it,
LEMMA AcceptedMoves ==
    ASSUME CameraTypes, NEW r \in Setters, PutAccepted(r)
    PROVE  MovesTo(r, "applied", sets[r].xml)
BY PutMoves DEF PutAccepted

\* and one that is refused leads from the minimal to the full XML, or ends it.
LEMMA RefusedMoves ==
    ASSUME CameraTypes, NEW r \in Setters, PutRefused(r)
    PROVE  MovesTo(r, IF sets[r].pc = "minimal" THEN "full" ELSE "failed", sets[r].xml)
<1> DEFINE pc == IF sets[r].pc = "minimal" THEN "full" ELSE "failed"
<1>1. pc \in {"applied", "failed", "full"}
  OBVIOUS
<1>2. sets' = [sets EXCEPT ![r].pc = pc] /\ sets[r].pc \in {"minimal", "full"}
  BY DEF PutRefused
<1> HIDE DEF pc
<1>3. MovesTo(r, pc, sets[r].xml)
  BY <1>1, <1>2, PutMoves
<1> QED BY <1>3 DEF pc

-----------------------------------------------------------------------------
(* Types are kept. *)

\* The types hold at first,
LEMMA CameraTypesInit == CameraInit => CameraTypes
<1> SUFFICES ASSUME CameraInit PROVE CameraTypes
  OBVIOUS
<1>1. nvr \in [Streams -> Settings] /\ file \in [Streams -> Settings]
  BY FirstValues DEF CameraInit, Lost, Settings
<1>2. sets \in [Setters -> Requested] /\ gets \in [Getters -> ShownOf]
  BY NewTypes DEF CameraInit
<1>3. sure \in [Streams -> SUBSET Fields] /\ losses \in 0..MaxLosses
  BY CameraAssumption DEF CameraInit, NoFields
<1>4. \A r \in Setters : WellFormed(sets[r])
  BY DEF CameraInit, NewSet, WellFormed, Answered
<1> QED BY <1>1, <1>2, <1>3, <1>4 DEF CameraTypes

\* A request to show the settings leaves everything else alone.
LEMMA GetGives ==
    ASSUME CameraTypes, NEW g \in Getters, GetStep(g)
    PROVE  /\ UNCHANGED <<nvr, file, sets, sure, losses>>
           /\ gets' \in [Getters -> ShownOf]
           /\ \A h \in Getters \ {g} : gets'[h] = gets[h]
<1> DEFINE Shows == [Streams -> [Fields -> Values \cup {Nobody}]]
<1>0. gets[g] \in ShownOf
  BY DEF CameraTypes
<1>1. \A found \in Found : found \in [Streams -> Settings]
  BY FirstValues DEF Found, CameraTypes, Lost, Settings
<1>2. CASE ShowFile(g)
  <2>1. PICK found \in Found : gets' = [gets EXCEPT ![g] =
          [pc |-> "shown", shown |-> found, mock |-> TRUE,
           held |-> IF found = file THEN sure ELSE NoFields]]
    BY <1>2 DEF ShowFile
  <2>2. found \in Shows /\ NoFields \in [Streams -> SUBSET Fields]
    BY <1>1 DEF Settings, NoFields
  <2>3. [pc |-> "shown", shown |-> found, mock |-> TRUE,
         held |-> IF found = file THEN sure ELSE NoFields] \in ShownOf
    BY <2>2 DEF CameraTypes, ShownOf
  <2> QED BY <1>2, <2>1, <2>3 DEF ShowFile, CameraTypes
<1>3. CASE BeginGet(g)
  <2>1. [NewGet EXCEPT !.pc = "main", !.held = sure] \in ShownOf
    BY NewTypes DEF CameraTypes, ShownOf
  <2> QED BY <1>3, <2>1 DEF BeginGet, CameraTypes
<1>4. \A s \in Streams : \A got \in {Answer(s), NotTold} : got \in [Fields -> Values \cup {Nobody}]
  BY FirstValues, CameraAssumption DEF CameraTypes, Settings, NotTold, Answer, Streams
<1>5. "main" \in Streams /\ "sub" \in Streams
  BY DEF Streams
<1>6. ASSUME NEW got \in {Answer("main"), NotTold}, ToldMain(g, got)
      PROVE  gets' \in [Getters -> ShownOf] /\ \A h \in Getters \ {g} : gets'[h] = gets[h]
  <2> DEFINE shown == [gets[g].shown EXCEPT !["main"] = got]
  <2>1. shown \in Shows
    BY <1>0, <1>4, <1>5 DEF ShownOf
  <2>2. gets' = [gets EXCEPT ![g] = [gets[g] EXCEPT !.pc = "sub", !.shown = shown]]
    BY <1>0, <1>6 DEF ToldMain, CameraTypes, ShownOf
  <2> HIDE DEF shown
  <2>3. [gets[g] EXCEPT !.pc = "sub", !.shown = shown] \in ShownOf
    BY <1>0, <2>1 DEF ShownOf
  <2> QED BY <2>2, <2>3 DEF CameraTypes
<1>7. ASSUME NEW got \in {Answer("sub"), NotTold}, ToldSub(g, got)
      PROVE  gets' \in [Getters -> ShownOf] /\ \A h \in Getters \ {g} : gets'[h] = gets[h]
  <2> DEFINE shown == [gets[g].shown EXCEPT !["sub"] = got]
  <2>1. shown \in Shows
    BY <1>0, <1>4, <1>5 DEF ShownOf
  <2>2. PICK found \in Found : gets' = [gets EXCEPT ![g] =
          [pc |-> "shown", shown |-> FillIn(shown, found),
           mock |-> \E s \in Streams : shown[s] = NotTold,
           held |-> StillHeld(gets[g].held, shown, found)]]
    BY <1>7 DEF ToldSub
  <2> HIDE DEF shown
  <2>3. FillIn(shown, found) \in Shows
    BY <1>1, <2>1 DEF FillIn, Settings
  <2>4. StillHeld(gets[g].held, shown, found) \in [Streams -> SUBSET Fields]
    BY <1>0 DEF StillHeld, ShownOf
  <2>5. (\E s \in Streams : shown[s] = NotTold) \in BOOLEAN
    OBVIOUS
  <2>6. [pc |-> "shown", shown |-> FillIn(shown, found),
         mock |-> \E s \in Streams : shown[s] = NotTold,
         held |-> StillHeld(gets[g].held, shown, found)] \in ShownOf
    BY <2>3, <2>4, <2>5, Zenon DEF ShownOf
  <2> QED BY <2>2, <2>6 DEF CameraTypes
<1>8. UNCHANGED <<nvr, file, sets, sure, losses>>
  BY DEF GetStep, ShowFile, BeginGet, ToldMain, ToldSub
<1> QED BY <1>2, <1>3, <1>6, <1>7, <1>8 DEF GetStep

\* every step keeps them,
LEMMA CameraTypesStep == CameraTypes /\ [CameraNext]_cameraVars => CameraTypes'
<1> SUFFICES ASSUME CameraTypes, [CameraNext]_cameraVars PROVE CameraTypes'
  OBVIOUS
<1>1. ASSUME NEW r \in Setters, NEW k \in Targets, NEW asked \in Payloads, NEW online \in BOOLEAN,
             Begin(r, k, asked, online)
      PROVE  CameraTypes'
  <2>1. PICK saved : Filed(k, asked, saved)
    BY <1>1, BeginGives
  <2>2. sets' \in [Setters -> Requested] /\ \A q \in Setters : WellFormed(sets'[q])
    BY <1>1, BeginGives
  <2>3. /\ file' \in [Streams -> Settings] /\ sure' \in [Streams -> SUBSET Fields]
        /\ losses' \in 0..MaxLosses /\ gets' \in [Getters -> ShownOf]
    BY <2>1, FiledTypes
  <2>4. nvr' = nvr
    BY <1>1 DEF Begin
  <2> QED BY <2>2, <2>3, <2>4 DEF CameraTypes, WellFormed
<1>2. ASSUME NEW r \in Setters, Read(r) \/ PutAccepted(r) \/ PutRefused(r) PROVE CameraTypes'
  <2>1. sets' \in [Setters -> Requested] /\ \A q \in Setters : WellFormed(sets'[q])
    BY <1>2, ReadMoves, AcceptedMoves, RefusedMoves DEF MovesTo
  <2>2. nvr' \in [Streams -> Settings]
    BY <1>2, PutGives DEF Read, PutAccepted, PutRefused, CameraTypes
  <2>3. file' = file /\ gets' = gets /\ losses' = losses
    BY <1>2 DEF Read, PutAccepted, PutRefused
  <2>4. sure' \in [Streams -> SUBSET Fields]
    <3>1. CASE PutAccepted(r)
      <4>1. sets[r].stream \in Streams /\ sets[r].asked \in Payloads
        BY <3>1 DEF PutAccepted, CameraTypes, WellFormed, Answered
      <4>2. DOMAIN Sent(sets[r].asked) \subseteq Fields
        BY <4>1, SentIsAsked, AskedIsValue
      <4> QED BY <3>1, <4>1, <4>2 DEF PutAccepted, CameraTypes
    <3> QED BY <1>2, <3>1 DEF Read, PutRefused, CameraTypes
  <2> QED BY <2>1, <2>2, <2>3, <2>4 DEF CameraTypes, WellFormed
<1>3. ASSUME NEW r \in Setters, Unheard(r) PROVE CameraTypes'
  <2>1. sets' \in [Setters -> Requested] /\ \A q \in Setters : WellFormed(sets'[q])
    BY <1>3, SimulateGives DEF Unheard
  <2>2. nvr' \in [Streams -> Settings]
    BY <1>3, PutGives DEF Unheard, CameraTypes
  <2> QED BY <1>3, <2>1, <2>2 DEF Unheard, Simulate, CameraTypes, WellFormed
<1>4. ASSUME NEW g \in Getters, GetStep(g) PROVE CameraTypes'
  BY <1>4, GetGives DEF CameraTypes, WellFormed
<1>5. CASE UNCHANGED cameraVars
  BY <1>5 DEF cameraVars, CameraTypes, WellFormed
<1> QED BY <1>1, <1>2, <1>3, <1>4, <1>5 DEF CameraNext, SetStep

\* so they hold in every state.
LEMMA CameraTypesAlways == CameraSpec => []CameraTypes
BY CameraTypesInit, CameraTypesStep, PTL DEF CameraSpec

\* Every variable of CameraSettings has its type.
THEOREM CameraTypeCorrect == CameraSpec => []CameraTypeOK
<1>1. CameraTypes => CameraTypeOK
  BY DEF CameraTypes, CameraTypeOK, Settings, Requested, ShownOf
<1> QED BY <1>1, CameraTypesAlways, PTL

-----------------------------------------------------------------------------
(* The invariant is kept. *)

\* A PUT changes nothing that is sure, nor the stream of another request that is
\* alone there.
LEMMA PutIsSafe ==
    ASSUME CameraTypes, CameraInv, NEW r \in Setters, sets[r].pc \in {"minimal", "full"}, Put(r)
    PROVE  /\ \A t \in Streams : \A f \in sure[t] : nvr'[t][f] = nvr[t][f]
           /\ \A q \in Setters \ {r} : sets[q].alone => nvr'[sets[q].stream] = nvr[sets[q].stream]
<1> DEFINE s == sets[r].stream
<1>1. s \in Streams /\ r \in Busy(s)
  BY DEF CameraTypes, WellFormed, Answered, Busy
<1>2. ASSUME NEW f \in sure[s] PROVE nvr'[s][f] = nvr[s][f]
  <2>1. f \in Fields
    BY <1>1, <1>2 DEF CameraTypes
  <2>2. f \notin DOMAIN sets[r].asked /\ sets[r].xml[f] = nvr[s][f]
    BY <1>2 DEF CameraInv, SureIsSafe, Answered
  <2>3. f \notin DOMAIN Sent(sets[r].asked)
    BY <2>2, SentIsAsked
  <2> QED BY <2>1, <2>2, <2>3, PutGives
<1>3. ASSUME NEW q \in Setters \ {r}, sets[q].alone PROVE nvr'[sets[q].stream] = nvr[sets[q].stream]
  <2>1. Busy(sets[q].stream) \subseteq {q} /\ sets[q].stream \in Streams
    BY <1>3 DEF CameraInv, Undisturbed, CameraTypes, WellFormed
  <2>2. sets[q].stream # s
    BY <1>1, <1>3, <2>1
  <2> QED BY <2>1, <2>2, PutGives
<1> QED BY <1>2, <1>3, PutGives

\* A step of one request that is under way keeps the invariant, if it keeps what
\* the invariant says of that request, and does to the NVR and to what is sure
\* only what a PUT may do.
LEMMA OneGoesOn ==
    ASSUME CameraTypes, CameraInv, NEW r \in Setters,
           file' = file, gets' = gets,
           \A q \in Setters \ {r} : sets'[q] = sets[q],
           sets'[r].alone \/ sets'[r].pc \notin Answered =>
               sets'[r].stream = sets[r].stream /\ sets'[r].asked = sets[r].asked,
           sets'[r].alone => sets[r].alone /\ sets'[r].saved = sets[r].saved,
           sets'[r].pc \notin Answered => sets[r].pc \notin Answered,
           \A t \in Streams : \A f \in sure[t] : nvr'[t][f] = nvr[t][f],
           \A q \in Setters \ {r} : sets[q].alone => nvr'[sets[q].stream] = nvr[sets[q].stream],
           \A t \in Streams :
              sure'[t] # sure[t] => sure[t] \subseteq sure'[t] /\ Busy(t) \subseteq {r},
           \A t \in Streams : \A f \in sure'[t] \ sure[t] : f \in Tags[t] /\ file[t][f] = nvr'[t][f],
           sets'[r].alone =>
               /\ sets'[r].pc \in {"minimal", "full", "failed"} =>
                      Xml(sets[r].stream)' = sets'[r].xml
               /\ sets'[r].pc = "applied" =>
                      \A f \in Tags[sets[r].stream] : nvr'[sets[r].stream][f] =
                          IF f \in DOMAIN Sent(sets[r].asked) THEN sets[r].asked[f]
                          ELSE sets'[r].xml[f],
           sets'[r].pc \notin Answered =>
               /\ sure'[sets[r].stream] = sure[sets[r].stream]
               /\ sets'[r].pc \in {"minimal", "full"} =>
                      \A f \in sure[sets[r].stream] : sets'[r].xml[f] = nvr'[sets[r].stream][f]
    PROVE  CameraInv'
<1>1. Undisturbed'
  <2>1. \A t : Busy(t)' \subseteq Busy(t)
    BY DEF Busy
  <2> QED BY <2>1 DEF CameraInv, Undisturbed
<1>2. ReadsHold'
  BY DEF CameraInv, ReadsHold, Xml
<1>3. SavesHold'
  BY DEF CameraInv, SavesHold
<1>4. AnswersTrue'
  BY DEF CameraInv, AnswersTrue, Xml
<1>5. \A t \in Streams : sure[t] \subseteq sure'[t]
  OBVIOUS
<1>6. SureAgrees'
  BY DEF CameraInv, SureAgrees
<1>7. SureIsSafe'
  <2>1. ASSUME NEW q \in Setters \ {r}, sets[q].pc \notin Answered
        PROVE  /\ sure'[sets[q].stream] = sure[sets[q].stream] /\ sets[q].stream \in Streams
    BY <2>1 DEF Busy, CameraTypes, WellFormed
  <2>2. ASSUME NEW q \in Setters \ {r}, sets'[q].pc \notin Answered
        PROVE  /\ sure'[sets'[q].stream] \cap DOMAIN sets'[q].asked = {}
               /\ sets'[q].pc \in {"minimal", "full"} =>
                     \A f \in sure'[sets'[q].stream] : sets'[q].xml[f] = nvr'[sets'[q].stream][f]
    BY <2>1, <2>2 DEF CameraInv, SureIsSafe
  <2>3. ASSUME sets'[r].pc \notin Answered
        PROVE  /\ sure'[sets'[r].stream] \cap DOMAIN sets'[r].asked = {}
               /\ sets'[r].pc \in {"minimal", "full"} =>
                     \A f \in sure'[sets'[r].stream] : sets'[r].xml[f] = nvr'[sets'[r].stream][f]
    BY <2>3 DEF CameraInv, SureIsSafe
  <2> QED BY <2>2, <2>3 DEF SureIsSafe
<1>8. HeldIsSure'
  BY <1>5 DEF CameraInv, HeldIsSure
<1>9. ToldTrue'
  <2>1. \A g \in Getters, t \in Streams : TellsTrue(g, t) => TellsTrue(g, t)'
    BY DEF CameraInv, HeldIsSure, TellsTrue
  <2>2. "main" \in Streams
    BY DEF Streams
  <2> QED BY <2>1, <2>2 DEF CameraInv, ToldTrue
<1> QED BY <1>1, <1>2, <1>3, <1>4, <1>6, <1>7, <1>8, <1>9 DEF CameraInv

\* Each step of a request that is under way is such a step.
LEMMA GoingOnKeeps ==
    ASSUME CameraTypes, CameraInv, NEW r \in Setters,
           Read(r) \/ PutAccepted(r) \/ PutRefused(r) \/ Unheard(r)
    PROVE  CameraInv'
<1> DEFINE s == sets[r].stream
           asked == sets[r].asked
<1>1. sets[r].pc \in {"reading", "minimal", "full"}
  BY DEF Read, PutAccepted, PutRefused, Unheard, Simulate
<1>2. s \in Streams /\ asked \in Payloads /\ sets[r].pc \notin Answered /\ sets[r] \in Requested
  BY <1>1 DEF CameraTypes, WellFormed, Answered
<1>3. sets[r].alone => Busy(s) \subseteq {r}
  BY DEF CameraInv, Undisturbed
<1>4. CASE Read(r)
  <2>1. MovesTo(r, "minimal", Xml(s)) /\ UNCHANGED <<nvr, file, gets, sure>>
    BY <1>4, ReadMoves DEF Read
  <2>2. /\ sets'[r].pc = "minimal" /\ sets'[r].stream = s /\ sets'[r].asked = asked
        /\ sets'[r].alone = sets[r].alone /\ sets'[r].saved = sets[r].saved
        /\ sets'[r].xml = Xml(s) /\ \A q \in Setters \ {r} : sets'[q] = sets[q]
    BY <2>1 DEF MovesTo
  <2>3. Xml(s)' = Xml(s) /\ "minimal" \notin Answered
    BY <2>1, <2>2 DEF Xml, Answered
  <2>4. \A f \in sure[s] : Xml(s)[f] = nvr'[s][f]
    BY <1>2, <2>1, XmlGives DEF CameraInv, SureAgrees, CameraTypes
  <2>5. sets'[r].xml = Xml(s)' /\ \A f \in sure[s] : sets'[r].xml[f] = nvr'[s][f]
    BY <2>2, <2>3, <2>4
  <2> QED BY <1>2, <2>1, <2>2, <2>3, <2>5, OneGoesOn
<1>5. CASE PutAccepted(r)
  <2>1. /\ MovesTo(r, "applied", sets[r].xml) /\ file' = file /\ gets' = gets
        /\ sets[r].pc \in {"minimal", "full"} /\ Put(r)
    BY <1>5, AcceptedMoves DEF PutAccepted
  <2>2. "applied" \in Answered
    BY DEF Answered
  <2>3. sure' = IF sets[r].alone /\ sets[r].saved
                THEN [sure EXCEPT ![s] = @ \cup (DOMAIN Sent(asked) \cap Tags[s])] ELSE sure
    BY <1>5 DEF PutAccepted
  <2>4. \A t \in Streams : sure'[t] = IF t = s /\ sets[r].alone /\ sets[r].saved
                                      THEN sure[t] \cup (DOMAIN Sent(asked) \cap Tags[t]) ELSE sure[t]
    BY <2>3 DEF CameraTypes
  <2>5. ASSUME sets[r].alone, NEW f \in Tags[s]
        PROVE  nvr'[s][f] = IF f \in DOMAIN Sent(asked) THEN asked[f] ELSE sets[r].xml[f]
    <3>1. Xml(s) = sets[r].xml
      BY <2>1, <2>5 DEF CameraInv, ReadsHold
    <3>2. nvr[s][f] = sets[r].xml[f] /\ f \in Fields
      BY <1>2, <3>1, XmlGives DEF CameraTypes
    <3> QED BY <2>1, <3>2, PutGives
  <2>6. ASSUME sets[r].alone, sets[r].saved, NEW f \in DOMAIN Sent(asked) \cap Tags[s]
        PROVE  file[s][f] = nvr'[s][f]
    <3>1. f \in DOMAIN asked
      BY SentIsAsked
    <3>2. file[s][f] = asked[f]
      BY <1>2, <2>6, <3>1 DEF CameraInv, SavesHold
    <3> QED BY <2>5, <2>6, <3>2
  <2>7. \A t \in Streams : \A f \in sure'[t] \ sure[t] : f \in Tags[t] /\ file[t][f] = nvr'[t][f]
    BY <2>4, <2>6
  <2>8. \A t \in Streams :
              sure'[t] # sure[t] => sure[t] \subseteq sure'[t] /\ Busy(t) \subseteq {r}
    BY <1>3, <2>4
  <2>9. /\ \A t \in Streams : \A f \in sure[t] : nvr'[t][f] = nvr[t][f]
        /\ \A q \in Setters \ {r} : sets[q].alone => nvr'[sets[q].stream] = nvr[sets[q].stream]
    BY <2>1, PutIsSafe
  <2>10. /\ sets'[r].pc = "applied" /\ sets'[r].stream = s /\ sets'[r].asked = asked
         /\ sets'[r].alone = sets[r].alone /\ sets'[r].saved = sets[r].saved
         /\ sets'[r].xml = sets[r].xml /\ \A q \in Setters \ {r} : sets'[q] = sets[q]
    BY <2>1 DEF MovesTo
  <2> HIDE DEF s, asked
  <2>11. sets'[r].alone => \A f \in Tags[s] : nvr'[s][f] =
              IF f \in DOMAIN Sent(asked) THEN asked[f] ELSE sets'[r].xml[f]
    BY <2>5, <2>10
  <2> QED BY <1>2, <2>1, <2>2, <2>7, <2>8, <2>9, <2>10, <2>11, OneGoesOn DEF s, asked
<1>6. CASE PutRefused(r)
  <2>1. /\ MovesTo(r, IF sets[r].pc = "minimal" THEN "full" ELSE "failed", sets[r].xml)
        /\ sets[r].pc \in {"minimal", "full"} /\ UNCHANGED <<nvr, file, gets, sure>>
    BY <1>6, RefusedMoves DEF PutRefused
  <2>2. sets[r].alone => Xml(s)' = sets[r].xml
    BY <2>1 DEF CameraInv, ReadsHold, MovesTo, Xml
  <2>3. \A f \in sure[s] : sets[r].xml[f] = nvr[s][f]
    BY <1>2, <2>1 DEF CameraInv, SureIsSafe
  <2> QED BY <1>2, <2>1, <2>2, <2>3, OneGoesOn DEF MovesTo
<1>7. CASE Unheard(r)
  <2>1. /\ sets'[r].pc = "simulated" /\ ~sets'[r].alone
        /\ \A q \in Setters \ {r} : sets'[q] = sets[q]
    BY <1>7, SimulateGives DEF Unheard
  <2>2. UNCHANGED <<file, gets, sure>>
    BY <1>7 DEF Unheard, Simulate
  <2>3. /\ \A t \in Streams : \A f \in sure[t] : nvr'[t][f] = nvr[t][f]
        /\ \A q \in Setters \ {r} : sets[q].alone => nvr'[sets[q].stream] = nvr[sets[q].stream]
    BY <1>7, PutIsSafe DEF Unheard
  <2>4. "simulated" \in Answered
    BY DEF Answered
  <2> QED BY <2>1, <2>2, <2>3, <2>4, OneGoesOn
<1> QED BY <1>4, <1>5, <1>6, <1>7

\* A request that begins ends the privileges of those on its stream, and what it
\* asks for is no longer sure.
LEMMA BeginKeeps ==
    ASSUME CameraTypes, CameraInv, NEW r \in Setters, NEW k \in Targets, NEW asked \in Payloads,
           NEW online \in BOOLEAN, Begin(r, k, asked, online)
    PROVE  CameraInv'
<1> DEFINE s == StreamOf(k)
<1>0. s \in Streams
  BY StreamOfGives
<1>1. PICK saved \in {"yes", "anew", "no", "lost"} :
        Filed(k, asked, saved) /\ BegunAs(r, k, asked, online, saved)
  BY BeginGives
<1>2. nvr' = nvr
  BY DEF Begin
<1>3. /\ \A t \in Streams : sure'[t] \subseteq sure[t]
      /\ sure'[s] \cap DOMAIN asked = {}
      /\ \A t \in Streams : \A f \in sure'[t] : file'[t][f] = file[t][f]
      /\ saved \in {"yes", "no"} => \A t \in Streams \ {s} : file'[t] = file[t]
      /\ saved \in {"yes", "anew"} /\ k \in Streams => \A f \in DOMAIN asked : file'[s][f] = asked[f]
      /\ \A g \in Getters : gets'[g].pc = gets[g].pc /\ gets'[g].shown = gets[g].shown
      /\ \A g \in Getters, t \in Streams :
            /\ gets'[g].held[t] \subseteq gets[g].held[t]
            /\ gets[g].held[t] \subseteq sure[t] => gets'[g].held[t] \subseteq sure'[t]
  BY <1>0, <1>1, FiledKeeps
<1>4. /\ online => /\ sets'[r].pc = "reading" /\ sets'[r].stream = s /\ sets'[r].asked = asked
                   /\ sets'[r].alone => Busy(s) = {}
                   /\ sets'[r].saved => k \in Streams /\ saved \in {"yes", "anew"}
      /\ ~online => sets'[r].pc = "simulated" /\ ~sets'[r].alone
  BY <1>1 DEF BegunAs
<1>5. \A q \in Setters \ {r} :
         /\ sets'[q].pc = sets[q].pc /\ sets'[q].stream = sets[q].stream
         /\ sets'[q].asked = sets[q].asked /\ sets'[q].xml = sets[q].xml
         /\ sets'[q].alone => sets[q].alone /\ sets[q].stream # s
         /\ sets'[q].saved => sets[q].saved /\ saved \in {"yes", "no"}
  BY <1>1 DEF BegunAs
<1> HIDE DEF s
<1>6. "simulated" \in Answered /\ "reading" \notin Answered
  BY DEF Answered
<1>7. Undisturbed'
  <2>1. \A t : Busy(t)' \subseteq Busy(t) \cup (IF t = s THEN {r} ELSE {})
    BY <1>4, <1>5, <1>6 DEF Busy
  <2>2. ASSUME NEW q \in Setters \ {r}, sets'[q].alone PROVE Busy(sets[q].stream)' \subseteq {q}
    BY <1>5, <2>1, <2>2 DEF CameraInv, Undisturbed
  <2>3. ASSUME sets'[r].alone PROVE Busy(sets[r].stream)' \subseteq {r}
    BY <1>4, <2>1, <2>3
  <2> QED BY <2>2, <2>3 DEF Undisturbed
<1>8. ReadsHold'
  BY <1>2, <1>4, <1>5 DEF CameraInv, ReadsHold, Xml
<1>9. SavesHold'
  <2>1. ASSUME NEW q \in Setters \ {r}, sets'[q].alone, sets'[q].saved, sets'[q].pc \notin Answered,
               NEW f \in DOMAIN sets'[q].asked
        PROVE  file'[sets'[q].stream][f] = sets'[q].asked[f]
    <3>1. sets[q].stream \in Streams \ {s}
      BY <1>5, <2>1 DEF CameraTypes, WellFormed
    <3>2. file[sets[q].stream][f] = sets[q].asked[f]
      BY <1>5, <2>1 DEF CameraInv, SavesHold
    <3> QED BY <1>3, <1>5, <2>1, <3>1, <3>2
  <2>2. ASSUME sets'[r].alone, sets'[r].saved, NEW f \in DOMAIN sets'[r].asked
        PROVE  file'[sets'[r].stream][f] = sets'[r].asked[f]
    BY <1>3, <1>4, <2>2
  <2> QED BY <2>1, <2>2 DEF SavesHold
<1>10. AnswersTrue'
  <2>1. ASSUME NEW q \in Setters, sets'[q].alone
        PROVE  \/ sets'[q].pc = "reading"
               \/ /\ sets[q].alone /\ sets'[q].pc = sets[q].pc
                  /\ sets'[q].stream = sets[q].stream /\ sets'[q].asked = sets[q].asked
                  /\ sets'[q].xml = sets[q].xml /\ Xml(sets[q].stream)' = Xml(sets[q].stream)
    BY <1>2, <1>4, <1>5, <2>1 DEF Xml
  <2>2. ASSUME NEW q \in Setters, sets'[q].alone, sets'[q].pc = "applied", NEW f \in Tags[sets'[q].stream]
        PROVE  nvr'[sets'[q].stream][f] =
                  IF f \in DOMAIN Sent(sets'[q].asked) THEN sets'[q].asked[f] ELSE sets'[q].xml[f]
    BY <1>2, <2>1, <2>2 DEF CameraInv, AnswersTrue
  <2>3. ASSUME NEW q \in Setters, sets'[q].alone, sets'[q].pc = "failed"
        PROVE  Xml(sets[q].stream)' = sets'[q].xml
    BY <2>1, <2>3 DEF CameraInv, AnswersTrue
  <2> QED BY <2>2, <2>3 DEF AnswersTrue
<1>11. SureAgrees'
  BY <1>2, <1>3 DEF CameraInv, SureAgrees
<1>12. SureIsSafe'
  <2>1. ASSUME NEW q \in Setters \ {r}, sets'[q].pc \notin Answered
        PROVE  /\ sure'[sets'[q].stream] \cap DOMAIN sets'[q].asked = {}
               /\ sets'[q].pc \in {"minimal", "full"} =>
                     \A f \in sure'[sets'[q].stream] : sets'[q].xml[f] = nvr'[sets'[q].stream][f]
    <3>1. sets[q].stream \in Streams /\ sets[q].pc \notin Answered
      BY <1>5, <2>1 DEF CameraTypes, WellFormed
    <3>2. sure'[sets[q].stream] \subseteq sure[sets[q].stream]
      BY <1>3, <3>1
    <3>3. /\ sure[sets[q].stream] \cap DOMAIN sets[q].asked = {}
          /\ sets[q].pc \in {"minimal", "full"} =>
                \A f \in sure[sets[q].stream] : sets[q].xml[f] = nvr[sets[q].stream][f]
      BY <3>1 DEF CameraInv, SureIsSafe
    <3> QED BY <1>2, <1>5, <3>2, <3>3
  <2>2. ASSUME sets'[r].pc \notin Answered
        PROVE  /\ sure'[sets'[r].stream] \cap DOMAIN sets'[r].asked = {}
               /\ sets'[r].pc \notin {"minimal", "full"}
    BY <1>3, <1>4, <1>6, <2>2
  <2> QED BY <2>1, <2>2 DEF SureIsSafe
<1>13. HeldIsSure'
  BY <1>3 DEF CameraInv, HeldIsSure
<1>14. ToldTrue'
  <2>1. \A g \in Getters, t \in Streams : TellsTrue(g, t) => TellsTrue(g, t)'
    BY <1>2, <1>3 DEF TellsTrue
  <2>2. "main" \in Streams
    BY DEF Streams
  <2> QED BY <1>3, <2>1, <2>2 DEF CameraInv, ToldTrue
<1> QED BY <1>7, <1>8, <1>9, <1>10, <1>11, <1>12, <1>13, <1>14 DEF CameraInv

\* A step of a request to show the settings keeps the invariant, if what it holds
\* is sure and what it has been told of that is true.
LEMMA OneGetGoesOn ==
    ASSUME CameraTypes, CameraInv, NEW g \in Getters,
           UNCHANGED <<nvr, file, sets, sure, losses>>,
           \A h \in Getters \ {g} : gets'[h] = gets[h],
           \A t \in Streams : gets'[g].held[t] \subseteq sure[t],
           gets'[g].pc = "sub" =>
               gets'[g].shown["main"] = NotTold
               \/ \A f \in gets'[g].held["main"] : gets'[g].shown["main"][f] = nvr["main"][f],
           gets'[g].pc = "shown" =>
               \A t \in Streams : \A f \in gets'[g].held[t] : gets'[g].shown[t][f] = nvr[t][f]
    PROVE  CameraInv'
<1>1. Undisturbed' /\ ReadsHold' /\ SavesHold' /\ AnswersTrue'
  BY DEF CameraInv, Undisturbed, Busy, ReadsHold, SavesHold, AnswersTrue, Xml
<1>2. SureAgrees' /\ SureIsSafe'
  BY DEF CameraInv, SureAgrees, SureIsSafe
<1>3. HeldIsSure'
  BY DEF CameraInv, HeldIsSure
<1>4. ToldTrue'
  BY DEF CameraInv, ToldTrue, TellsTrue
<1> QED BY <1>1, <1>2, <1>3, <1>4 DEF CameraInv

\* Each step of a request to show the settings is such a step.
LEMMA GetKeeps ==
    ASSUME CameraTypes, CameraInv, NEW g \in Getters, GetStep(g)
    PROVE  CameraInv'
<1>0. /\ UNCHANGED <<nvr, file, sets, sure, losses>>
      /\ \A h \in Getters \ {g} : gets'[h] = gets[h]
  BY GetGives
<1>1. gets[g] \in ShownOf
  BY DEF CameraTypes
<1>2. \A t \in Streams : \A f \in gets[g].held[t] :
         f \in sure[t] /\ f \in Tags[t] /\ file[t][f] = nvr[t][f]
  BY DEF CameraInv, HeldIsSure, SureAgrees
<1>3. "main" \in Streams /\ "sub" \in Streams /\ \A t \in Streams : t = "main" \/ t = "sub"
  BY DEF Streams
<1>4. CASE ShowFile(g)
  <2>1. PICK found \in Found : gets'[g] = [pc |-> "shown", shown |-> found, mock |-> TRUE,
                                           held |-> IF found = file THEN sure ELSE NoFields]
    BY <1>4 DEF ShowFile, CameraTypes
  <2>2. \A t \in Streams : \A f \in sure[t] : file[t][f] = nvr[t][f]
    BY DEF CameraInv, SureAgrees
  <2>3. CASE found = file
    BY <1>0, <2>1, <2>2, <2>3, OneGetGoesOn
  <2>4. CASE found # file
    <3>1. \A t \in Streams : gets'[g].held[t] = {}
      BY <2>1, <2>4 DEF NoFields
    <3> QED BY <1>0, <2>1, <3>1, OneGetGoesOn
  <2> QED BY <2>3, <2>4
<1>5. CASE BeginGet(g)
  <2>1. gets'[g].pc = "main" /\ gets'[g].held = sure
    BY <1>5 DEF BeginGet, CameraTypes, NewGet
  <2> QED BY <1>0, <2>1, OneGetGoesOn
<1>6. ASSUME NEW t \in Streams, NEW got \in {Answer(t), NotTold},
             NEW f \in gets[g].held[t]
      PROVE  got = NotTold \/ got[f] = nvr[t][f]
  <2>1. f \in Tags[t] /\ f \in Fields
    BY <1>1, <1>2, <1>6 DEF ShownOf
  <2> QED BY <1>6, <2>1 DEF Answer
<1>7. ASSUME NEW got \in {Answer("main"), NotTold}, ToldMain(g, got) PROVE CameraInv'
  <2>1. /\ gets'[g].pc = "sub" /\ gets'[g].shown["main"] = got
        /\ gets'[g].held = gets[g].held
    BY <1>1, <1>3, <1>7 DEF ToldMain, CameraTypes, ShownOf
  <2> QED BY <1>0, <1>2, <1>3, <1>6, <2>1, OneGetGoesOn
<1>8. ASSUME NEW got \in {Answer("sub"), NotTold}, ToldSub(g, got) PROVE CameraInv'
  <2> DEFINE shown == [gets[g].shown EXCEPT !["sub"] = got]
  <2>1. PICK found \in Found :
          /\ gets'[g].pc = "shown" /\ gets'[g].shown = FillIn(shown, found)
          /\ gets'[g].held = StillHeld(gets[g].held, shown, found)
    BY <1>8 DEF ToldSub, CameraTypes
  <2>2. shown["sub"] = got /\ shown["main"] = gets[g].shown["main"]
    BY <1>1, <1>3 DEF ShownOf
  <2>3. gets[g].shown["main"] = NotTold
        \/ \A f \in gets[g].held["main"] : gets[g].shown["main"][f] = nvr["main"][f]
    BY <1>8 DEF ToldSub, CameraInv, ToldTrue, TellsTrue
  <2> HIDE DEF shown
  <2>4. \A t \in Streams : \A f \in gets[g].held[t] : shown[t] = NotTold \/ shown[t][f] = nvr[t][f]
    <3>1. \A f \in gets[g].held["main"] : shown["main"] = NotTold \/ shown["main"][f] = nvr["main"][f]
      BY <2>2, <2>3
    <3>2. \A f \in gets[g].held["sub"] : shown["sub"] = NotTold \/ shown["sub"][f] = nvr["sub"][f]
      BY <1>3, <1>6, <2>2
    <3> QED BY <1>3, <3>1, <3>2
  <2>5. \A t \in Streams :
          /\ gets'[g].held[t] \subseteq gets[g].held[t]
          /\ shown[t] = NotTold /\ found # file => gets'[g].held[t] = {}
          /\ gets'[g].shown[t] = IF shown[t] = NotTold THEN found[t] ELSE shown[t]
    BY <2>1 DEF StillHeld, FillIn
  <2>6. ASSUME NEW t \in Streams, NEW f \in gets'[g].held[t]
        PROVE  gets'[g].shown[t][f] = nvr[t][f] /\ f \in sure[t]
    BY <1>2, <2>4, <2>5, <2>6
  <2> QED BY <1>0, <2>1, <2>6, OneGetGoesOn
<1> QED BY <1>4, <1>5, <1>7, <1>8 DEF GetStep
\* At first nobody has asked for anything.
LEMMA CameraInvInit == CameraInit => CameraInv
<1> SUFFICES ASSUME CameraInit PROVE CameraInv
  OBVIOUS
<1>1. \A r \in Setters : ~sets[r].alone /\ sets[r].pc = "idle"
  BY DEF CameraInit, NewSet
<1>2. \A s \in Streams : sure[s] = {}
  BY DEF CameraInit, NoFields
<1>3. \A g \in Getters : gets[g].pc = "idle" /\ \A s \in Streams : gets[g].held[s] = {}
  BY DEF CameraInit, NewGet, NoFields
<1>4. Undisturbed /\ ReadsHold /\ SavesHold /\ AnswersTrue
  BY <1>1 DEF Undisturbed, ReadsHold, SavesHold, AnswersTrue
<1>5. SureAgrees /\ SureIsSafe
  BY <1>1, <1>2 DEF SureAgrees, SureIsSafe, Answered
<1>6. HeldIsSure /\ ToldTrue
  BY <1>3 DEF HeldIsSure, ToldTrue
<1> QED BY <1>4, <1>5, <1>6 DEF CameraInv

\* Every step keeps the invariant,
LEMMA CameraInvStep == CameraTypes /\ CameraInv /\ [CameraNext]_cameraVars => CameraInv'
<1> SUFFICES ASSUME CameraTypes, CameraInv, [CameraNext]_cameraVars PROVE CameraInv'
  OBVIOUS
<1>1. ASSUME NEW r \in Setters, SetStep(r) PROVE CameraInv'
  BY <1>1, BeginKeeps, GoingOnKeeps DEF SetStep
<1>2. ASSUME NEW g \in Getters, GetStep(g) PROVE CameraInv'
  BY <1>2, GetKeeps
<1>3. CASE UNCHANGED cameraVars
  <2>1. UNCHANGED <<nvr, file, sets, gets, sure>>
    BY <1>3 DEF cameraVars
  <2> QED BY <2>1 DEF CameraInv, Undisturbed, Busy, ReadsHold, SavesHold, AnswersTrue, Xml,
                      SureAgrees, SureIsSafe, HeldIsSure, ToldTrue, TellsTrue
<1> QED BY <1>1, <1>2, <1>3 DEF CameraNext

\* so it holds in every state.
LEMMA CameraInvAlways == CameraSpec => []CameraInv
BY CameraInvInit, CameraInvStep, CameraTypesAlways, PTL DEF CameraSpec

\* What an undisturbed request is told is what it has done to the NVR
\* (set_camera_resolution_async), for every number of requests and payloads.
THEOREM CameraAnswersTrue == CameraSpec => []AnswersTrue
<1>1. CameraInv => AnswersTrue
  BY DEF CameraInv
<1> QED BY <1>1, CameraInvAlways, PTL

\* And what it has done is what every later request to show the settings shows,
\* from the NVR or from the file (get_camera_resolution_async), whatever
\* requests for other fields do to either at the time.
THEOREM CameraShownAsSet == CameraSpec => []ShownAsSet
<1>1. CameraInv => ShownAsSet
  BY DEF CameraInv, ToldTrue, TellsTrue, ShownAsSet
<1> QED BY <1>1, CameraInvAlways, PTL
=============================================================================
