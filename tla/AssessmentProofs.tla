-------------------------- MODULE AssessmentProofs --------------------------
(***************************************************************************)
(* That the audit trail accounts for what was done with the content of a   *)
(* page, that an extract of Azure resources is whole, that a report hides  *)
(* no failure, and that its comments are the report, for any request, any  *)
(* estate, any controls and any limit.                                     *)
(***************************************************************************)
EXTENDS AssessmentStages, CommentParts, SequenceTheorems, FiniteSetTheorems, TLAPS

Entries == {"queue_message_received", "resolved_target", "granted", "denied", "content_retrieved", "corpus_retrieved",
            "assessment_generated"}

\* What is on record when a step is taken.
Recorded1 == <<"resolved_target">>
Recorded2 == <<"resolved_target", "granted">>
Recorded3 == <<"resolved_target", "granted", "content_retrieved">>
Recorded4 == <<"resolved_target", "granted", "content_retrieved", "corpus_retrieved">>
Recorded5 == <<"resolved_target", "granted", "content_retrieved", "corpus_retrieved", "assessment_generated">>
Refused == <<"resolved_target", "denied">>

BeforeContent == {"intake", "receive", "resolve", "check", "decide"}
BeforeControls == BeforeContent \cup {"content", "record content"}
AfterContent == {"controls", "review", "guidance", "record corpus"}
AfterCorpus == {"whole", "again", "each", "record assessment"}
Steps == BeforeControls \cup AfterContent \cup AfterCorpus \cup {"ended"}

TrailMatchesStep ==
    /\ step \in Steps
    /\ step \in {"intake", "receive"} => trail = <<>>
    /\ step = "receive" => request.source = "queue"
    /\ step = "intake" => outcome = "none"
    /\ step = "resolve" => Recording(<<>>)
    /\ step \in {"check", "decide"} => Recording(Recorded1)
    /\ step \in {"content", "record content"} => Recording(Recorded2)
    /\ step \in AfterContent => Recording(Recorded3)
    /\ step \in AfterCorpus => Recording(Recorded4)

NothingBefore ==
    /\ step \in BeforeContent => resources = <<>>
    /\ step \in BeforeContent \cup {"content"} => artifact = NotYet
    /\ step \in BeforeControls => sent = {}
    /\ step # "ended" => outcome = "none"

Accounted ==
    /\ artifact # NotYet \/ resources # <<>> => Recorded("granted")
    /\ sent # {} => Recorded("content_retrieved")
    /\ outcome = "denied" => Recording(Refused) /\ artifact = NotYet
    /\ outcome = "returned" => Recording(Recorded5)

TrailInv == trail \in Seq(Entries) /\ TrailMatchesStep /\ NothingBefore /\ Accounted

(***************************************************************************)
(* Records.                                                                *)
(***************************************************************************)
LEMMA RecordingGrows ==
    ASSUME NEW s \in Seq(Entries), NEW x \in Entries, Recording(s), Record(x), request' = request
    PROVE  Recording(Append(s, x))'
  <1>1. CASE request.source = "queue"
    <2>1. Append(<<"queue_message_received">> \o s, x) = <<"queue_message_received">> \o Append(s, x)
      OBVIOUS
    <2> QED BY <1>1, <2>1 DEF Recording, Record
  <1>2. CASE request.source # "queue"
    BY <1>2 DEF Recording, Record
  <1> QED BY <1>1, <1>2

\* What is on record stays on record.
LEMMA RecordedStays ==
    ASSUME trail \in Seq(Entries), NEW x \in Entries, Record(x), NEW stage, Recorded(stage)
    PROVE  Recorded(stage)'
  <1>1. PICK i \in DOMAIN trail : trail[i] = stage
    BY DEF Recorded
  <1>2. trail' = Append(trail, x) /\ i \in 1..Len(trail) /\ Len(trail) \in Nat
    BY DEF Record
  <1>3. trail'[i] = stage /\ i \in DOMAIN trail'
    BY <1>1, <1>2
  <1> QED BY <1>3 DEF Recorded

LEMMA RecordIsRecorded ==
    ASSUME trail \in Seq(Entries), NEW x \in Entries, Record(x)
    PROVE  Recorded(x)' /\ trail' \in Seq(Entries)
  <1>1. trail' = Append(trail, x) /\ Len(trail) \in Nat
    BY DEF Record
  <1>2. trail' \in Seq(Entries) /\ trail'[Len(trail) + 1] = x /\ Len(trail) + 1 \in DOMAIN trail'
    BY <1>1
  <1> QED BY <1>2 DEF Recorded

LEMMA RecordingIsRecorded ==
    ASSUME trail \in Seq(Entries), NEW s \in Seq(Entries), Recording(s), NEW i \in 1..Len(s)
    PROVE  Recorded(s[i])
  <1>1. CASE request.source = "queue"
    <2>1. trail = <<"queue_message_received">> \o s
      BY <1>1 DEF Recording
    <2>2. <<"queue_message_received">> \in Seq(Entries) /\ Len(<<"queue_message_received">>) = 1
      BY DEF Entries
    <2>3. trail[i + 1] = s[i] /\ i + 1 \in 1..Len(trail)
      BY <2>1, <2>2, ConcatProperties
    <2> QED BY <2>3 DEF Recorded
  <1>2. CASE request.source # "queue"
    BY <1>2 DEF Recording, Recorded
  <1> QED BY <1>1, <1>2

LEMMA AppendIs ==
    ASSUME NEW s \in Seq(Entries), NEW t \in Seq(Entries), NEW x \in Entries,
           Len(t) = Len(s) + 1, \A i \in 1..Len(s) : t[i] = s[i], t[Len(s) + 1] = x
    PROVE  t = Append(s, x)
  <1>1. Append(s, x) \in Seq(Entries) /\ Len(Append(s, x)) = Len(t) /\ Len(s) \in Nat
    OBVIOUS
  <1>2. \A i \in 1..Len(t) : t[i] = Append(s, x)[i]
    OBVIOUS
  <1> QED BY <1>1, <1>2, SeqEqual

LEMMA Lengths ==
    /\ Recorded1 \in Seq(Entries) /\ Len(Recorded1) = 1 /\ Recorded1[1] = "resolved_target"
    /\ Refused \in Seq(Entries) /\ Len(Refused) = 2 /\ Refused[1] = "resolved_target" /\ Refused[2] = "denied"
    /\ Recorded2 \in Seq(Entries) /\ Len(Recorded2) = 2 /\ Recorded2[1] = "resolved_target" /\ Recorded2[2] = "granted"
    /\ Recorded3 \in Seq(Entries) /\ Len(Recorded3) = 3 /\ Recorded3[1] = "resolved_target" /\ Recorded3[2] = "granted"
    /\ Recorded3[3] = "content_retrieved"
    /\ Recorded4 \in Seq(Entries) /\ Len(Recorded4) = 4 /\ Recorded4[1] = "resolved_target" /\ Recorded4[2] = "granted"
    /\ Recorded4[3] = "content_retrieved" /\ Recorded4[4] = "corpus_retrieved"
    /\ Recorded5 \in Seq(Entries) /\ Len(Recorded5) = 5 /\ Recorded5[1] = "resolved_target" /\ Recorded5[2] = "granted"
    /\ Recorded5[3] = "content_retrieved" /\ Recorded5[4] = "corpus_retrieved" /\ Recorded5[5] = "assessment_generated"
    /\ <<>> \in Seq(Entries) /\ Len(<<>>) = 0
  BY DEF Recorded1, Recorded2, Recorded3, Recorded4, Recorded5, Refused, Entries

LEMMA RecordsAreSequences ==
    /\ Recorded1 = Append(<<>>, "resolved_target")
    /\ Recorded2 = Append(Recorded1, "granted") /\ Refused = Append(Recorded1, "denied")
    /\ Recorded3 = Append(Recorded2, "content_retrieved")
    /\ Recorded4 = Append(Recorded3, "corpus_retrieved")
    /\ Recorded5 = Append(Recorded4, "assessment_generated")
  <1> USE Lengths
  <1>1. Entries # {} /\ {"resolved_target", "granted", "denied", "content_retrieved", "corpus_retrieved", "assessment_generated"}
            \subseteq Entries
    BY DEF Entries
  <1>2. Recorded1 = Append(<<>>, "resolved_target")
    BY <1>1, AppendIs
  <1>3. Recorded2 = Append(Recorded1, "granted")
    <2>1. \A i \in 1..Len(Recorded1) : i = 1
      OBVIOUS
    <2>2. \A i \in 1..Len(Recorded1) : Recorded2[i] = Recorded1[i]
      BY <2>1
    <2>3. "granted" \in Entries /\ Len(Recorded2) = Len(Recorded1) + 1 /\ Recorded2[Len(Recorded1) + 1] = "granted"
      BY <1>1
    <2> QED BY <2>2, <2>3, AppendIs
  <1>4. Refused = Append(Recorded1, "denied")
    <2>1. \A i \in 1..Len(Recorded1) : i = 1
      OBVIOUS
    <2>2. \A i \in 1..Len(Recorded1) : Refused[i] = Recorded1[i]
      BY <2>1
    <2>3. "denied" \in Entries /\ Len(Refused) = Len(Recorded1) + 1 /\ Refused[Len(Recorded1) + 1] = "denied"
      BY <1>1
    <2> QED BY <2>2, <2>3, AppendIs
  <1>5. Recorded3 = Append(Recorded2, "content_retrieved")
    <2>1. \A i \in 1..Len(Recorded2) : i = 1 \/ i = 2
      OBVIOUS
    <2>2. \A i \in 1..Len(Recorded2) : Recorded3[i] = Recorded2[i]
      BY <2>1
    <2>3. "content_retrieved" \in Entries /\ Len(Recorded3) = Len(Recorded2) + 1 /\ Recorded3[Len(Recorded2) + 1] = "content_retrieved"
      BY <1>1
    <2> QED BY <2>2, <2>3, AppendIs
  <1>6. Recorded4 = Append(Recorded3, "corpus_retrieved")
    <2>1. \A i \in 1..Len(Recorded3) : i = 1 \/ i = 2 \/ i = 3
      OBVIOUS
    <2>2. \A i \in 1..Len(Recorded3) : Recorded4[i] = Recorded3[i]
      BY <2>1
    <2>3. "corpus_retrieved" \in Entries /\ Len(Recorded4) = Len(Recorded3) + 1 /\ Recorded4[Len(Recorded3) + 1] = "corpus_retrieved"
      BY <1>1
    <2> QED BY <2>2, <2>3, AppendIs
  <1>7. Recorded5 = Append(Recorded4, "assessment_generated")
    <2>1. \A i \in 1..Len(Recorded4) : i = 1 \/ i = 2 \/ i = 3 \/ i = 4
      OBVIOUS
    <2>2. \A i \in 1..Len(Recorded4) : Recorded5[i] = Recorded4[i]
      BY <2>1
    <2>3. "assessment_generated" \in Entries /\ Len(Recorded5) = Len(Recorded4) + 1 /\ Recorded5[Len(Recorded4) + 1] = "assessment_generated"
      BY <1>1
    <2> QED BY <2>2, <2>3, AppendIs
  <1> QED BY <1>2, <1>3, <1>4, <1>5, <1>6, <1>7

LEMMA AccountedIsProperty == Accounted <=> TrailAccountsForContent
  BY DEF Accounted, TrailAccountsForContent, Refused, Recorded5

LEMMA SameTrail ==
    ASSUME trail' = trail, request' = request
    PROVE  /\ \A stage : Recorded(stage)' <=> Recorded(stage)
           /\ \A s : Recording(s)' <=> Recording(s)
  BY DEF Recorded, Recording

\* What is on record from some step on.
LEMMA OnRecord ==
    ASSUME TrailInv
    PROVE  /\ step \in {"content", "record content"} => Recorded("granted")
           /\ step \in AfterContent \cup AfterCorpus => Recorded("content_retrieved")
  <1>1. CASE step \in {"content", "record content"}
    <2>1. Recording(Recorded2) /\ trail \in Seq(Entries)
      BY <1>1 DEF TrailInv, TrailMatchesStep
    <2>2. Recorded2 \in Seq(Entries) /\ 2 \in 1..Len(Recorded2) /\ Recorded2[2] = "granted"
      BY Lengths
    <2>3. Recorded(Recorded2[2])
      BY <2>1, <2>2, RecordingIsRecorded
    <2>4. step \notin AfterContent \cup AfterCorpus
      BY <1>1 DEF AfterContent, AfterCorpus
    <2> QED BY <2>2, <2>3, <2>4
  <1>2. CASE step \in AfterContent
    <2>1. Recording(Recorded3) /\ trail \in Seq(Entries)
      BY <1>2 DEF TrailInv, TrailMatchesStep
    <2>2. Recorded3 \in Seq(Entries) /\ 3 \in 1..Len(Recorded3) /\ Recorded3[3] = "content_retrieved"
      BY Lengths
    <2>3. Recorded(Recorded3[3])
      BY <2>1, <2>2, RecordingIsRecorded
    <2>4. step \notin {"content", "record content"}
      BY <1>2 DEF AfterContent
    <2> QED BY <2>2, <2>3, <2>4
  <1>3. CASE step \in AfterCorpus
    <2>1. Recording(Recorded4) /\ trail \in Seq(Entries)
      BY <1>3 DEF TrailInv, TrailMatchesStep
    <2>2. Recorded4 \in Seq(Entries) /\ 3 \in 1..Len(Recorded4) /\ Recorded4[3] = "content_retrieved"
      BY Lengths
    <2>3. Recorded(Recorded4[3])
      BY <2>1, <2>2, RecordingIsRecorded
    <2>4. step \notin {"content", "record content"}
      BY <1>3 DEF AfterCorpus
    <2> QED BY <2>2, <2>3, <2>4
  <1> QED BY <1>1, <1>2, <1>3

(***************************************************************************)
(* The steps.  Those that leave the trail as it is go on only within what  *)
(* is on record, or end the assessment.                                    *)
(***************************************************************************)
\* One of these steps follows another with the same entries on record.
Before(a, b) == \/ a = "intake" /\ b \in {"receive", "resolve"}
                \/ a = "check" /\ b = "decide"
                \/ a = "content" /\ b \in {"content", "record content"}
                \/ {a, b} \subseteq AfterContent
                \/ {a, b} \subseteq AfterCorpus

LEMMA QuietStep ==
    ASSUME TrailInv, trail' = trail, request' = request, outcome' = outcome, step # "ended", Before(step, step'),
           step = "intake" => (step' = "receive" <=> request.source = "queue"),
           resources' = resources \/ step = "content",
           artifact' = artifact \/ (step = "content" /\ step' = "record content"),
           sent' = sent \/ step \in AfterContent \cup AfterCorpus
    PROVE  TrailInv'
  <1>1. TrailMatchesStep'
    <2>1. step = "intake" /\ step' = "resolve" => Recording(<<>>)
      BY DEF TrailInv, TrailMatchesStep, Recording
    <2> QED BY <2>1, SameTrail
            DEF TrailInv, TrailMatchesStep, Before, Steps, BeforeControls, BeforeContent, AfterContent, AfterCorpus
  <1>2. NothingBefore'
    <2>1. NothingBefore /\ outcome' = "none"
      BY DEF TrailInv, NothingBefore
    <2>2. CASE step' \in BeforeContent
      <3>1. step \in BeforeContent
        BY <2>2 DEF Before, BeforeContent, AfterContent, AfterCorpus
      <3>2. resources' = resources /\ artifact' = artifact /\ sent' = sent
        BY <3>1 DEF BeforeContent, AfterContent, AfterCorpus
      <3> QED BY <2>1, <3>1, <3>2 DEF NothingBefore, BeforeContent, BeforeControls
    <2>3. CASE step' \in {"content", "record content"}
      <3>1. step \in {"content", "record content"}
        BY <2>3 DEF Before, BeforeContent, AfterContent, AfterCorpus
      <3>2. sent' = sent /\ sent = {}
        BY <2>1, <3>1 DEF NothingBefore, BeforeControls, AfterContent, AfterCorpus
      <3>3. step' = "content" => artifact' = NotYet
        <4> SUFFICES ASSUME step' = "content" PROVE artifact' = NotYet
          OBVIOUS
        <4>1. step = "content"
          BY <3>1 DEF Before, AfterContent, AfterCorpus
        <4> QED BY <2>1, <4>1 DEF NothingBefore
      <3> QED BY <2>1, <2>3, <3>2, <3>3 DEF NothingBefore, BeforeContent, BeforeControls
    <2>4. CASE step' \in AfterContent \cup AfterCorpus
      BY <2>1, <2>4 DEF NothingBefore, BeforeContent, BeforeControls, AfterContent, AfterCorpus
    <2> QED BY <2>2, <2>3, <2>4 DEF Before, BeforeContent
  <1>3. Accounted'
    BY SameTrail, OnRecord DEF TrailInv, Accounted, NothingBefore
  <1> QED BY <1>1, <1>2, <1>3 DEF TrailInv

\* A refusal or an exception ends the assessment.
LEMMA EndStep ==
    ASSUME TrailInv, trail' = trail, request' = request, step # "ended", step' = "ended",
           outcome' \in {"refused", "raised"}, resources' = resources, artifact' = artifact,
           sent' = sent \/ step \in AfterContent \cup AfterCorpus
    PROVE  TrailInv'
  <1>1. TrailMatchesStep' /\ NothingBefore'
    BY DEF TrailMatchesStep, NothingBefore, Steps, BeforeControls, BeforeContent, AfterContent, AfterCorpus
  <1>2. Accounted'
    BY SameTrail, OnRecord DEF TrailInv, Accounted, NothingBefore
  <1> QED BY <1>1, <1>2 DEF TrailInv

\* An entry is made, and the next part of the assessment begins.
Follows(a, s, x, b) ==
    \/ a = "resolve" /\ s = <<>> /\ x = "resolved_target" /\ b = "check"
    \/ a = "decide" /\ s = Recorded1 /\ x = "granted" /\ b = "content"
    \/ a = "record content" /\ s = Recorded2 /\ x = "content_retrieved" /\ b = "controls"
    \/ a = "record corpus" /\ s = Recorded3 /\ x = "corpus_retrieved" /\ b \in {"each", "whole"}

LEMMA RecordStep ==
    ASSUME TrailInv, NEW s, NEW x, Record(x), Follows(step, s, x, step'), request' = request, outcome' = outcome,
           resources' = resources, artifact' = artifact, sent' = sent
    PROVE  TrailInv'
  <1>1. x \in Entries /\ s \in Seq(Entries) /\ Recording(s) /\ trail \in Seq(Entries)
    BY Lengths DEF Follows, Entries, TrailInv, TrailMatchesStep, AfterContent
  <1>2. Recording(Append(s, x))'
    BY <1>1, RecordingGrows
  <1>3. trail' \in Seq(Entries)
    BY <1>1, RecordIsRecorded
  <1>4. TrailMatchesStep'
    BY <1>2, RecordsAreSequences
    DEF Follows, TrailMatchesStep, Steps, BeforeControls, BeforeContent, AfterContent, AfterCorpus
  <1>5. NothingBefore'
    BY DEF Follows, TrailInv, NothingBefore, BeforeControls, BeforeContent, AfterContent, AfterCorpus
  <1>6. Accounted'
    <2>1. \A stage : Recorded(stage) => Recorded(stage)'
      BY <1>1, RecordedStays
    <2>2. outcome' = "none"
      BY DEF TrailInv, NothingBefore, Follows
    <2> QED BY <2>1, <2>2 DEF TrailInv, Accounted
  <1> QED BY <1>3, <1>4, <1>5, <1>6 DEF TrailInv

(***************************************************************************)
(* The actions.                                                            *)
(***************************************************************************)
LEMMA IntakeKeeps == TrailInv /\ (TakeRequest \/ ReceiveMessage) => TrailInv'
  <1> SUFFICES ASSUME TrailInv, TakeRequest \/ ReceiveMessage PROVE TrailInv'
    OBVIOUS
  <1>1. CASE TakeRequest /\ Malformed(request)
    BY <1>1, EndStep DEF TakeRequest, Stop, extractVars
  <1>2. CASE TakeRequest /\ ~Malformed(request)
    <2>1. Before(step, step') /\ (step' = "receive" <=> request.source = "queue")
      BY <1>2 DEF TakeRequest, Goto, Before
    <2> QED BY <1>2, <2>1, QuietStep DEF TakeRequest, Goto, extractVars
  <1>3. CASE ReceiveMessage
    <2>1. /\ trail = <<>> /\ trail' = Append(<<>>, "queue_message_received") /\ request.source = "queue"
          /\ request' = request /\ step' = "resolve" /\ outcome' = "none" /\ resources' = resources /\ resources = <<>>
          /\ artifact' = artifact /\ artifact = NotYet /\ sent' = sent /\ sent = {}
      BY <1>3 DEF ReceiveMessage, Record, Goto, extractVars, TrailInv, TrailMatchesStep, NothingBefore, BeforeContent, BeforeControls
    <2>2. trail' = <<"queue_message_received">> \o <<>>
      BY <2>1
    <2>3. Recording(<<>>)' /\ trail' \in Seq(Entries)
      BY <2>1, <2>2 DEF Recording, Entries
    <2>4. TrailMatchesStep' /\ NothingBefore'
      BY <2>1, <2>3
      DEF TrailMatchesStep, NothingBefore, Steps, BeforeControls, BeforeContent, AfterContent, AfterCorpus
    <2> QED BY <2>1, <2>3, <2>4 DEF TrailInv, Accounted
  <1> QED BY <1>1, <1>2, <1>3

LEMMA GroundingKeeps ==
    TrailInv /\ (ResolvePage \/ ResolveFile \/ ResolveScope \/ CheckAccess \/ DecideAccess) => TrailInv'
  <1> SUFFICES ASSUME TrailInv, ResolvePage \/ ResolveFile \/ ResolveScope \/ CheckAccess \/ DecideAccess
      PROVE  TrailInv'
    OBVIOUS
  <1>1. CASE Resolve
    BY <1>1, RecordStep DEF Resolve, Goto, Follows, extractVars
  <1>2. CASE CheckAccess
    BY <1>2, QuietStep DEF CheckAccess, Goto, Before, extractVars
  <1>3. CASE DecideAccess /\ granted
    BY <1>3, RecordStep DEF DecideAccess, Goto, Follows, extractVars
  <1>4. CASE DecideAccess /\ ~granted
    <2>1. /\ step = "decide" /\ Record("denied") /\ step' = "ended" /\ outcome' = "denied" /\ request' = request
          /\ resources' = resources /\ resources = <<>> /\ artifact' = artifact /\ artifact = NotYet
          /\ sent' = sent /\ sent = {} /\ Recording(Recorded1) /\ trail \in Seq(Entries)
      BY <1>4 DEF DecideAccess, Stop, extractVars, TrailInv, TrailMatchesStep, NothingBefore, BeforeContent, BeforeControls
    <2>2. "denied" \in Entries
      BY DEF Entries
    <2>3. Recording(Refused)'
      BY <2>1, <2>2, RecordingGrows, RecordsAreSequences, Lengths
    <2>4. trail' \in Seq(Entries)
      BY <2>1, <2>2, RecordIsRecorded
    <2>5. TrailMatchesStep' /\ NothingBefore'
      BY <2>1 DEF TrailMatchesStep, NothingBefore, Steps, BeforeControls, BeforeContent, AfterContent, AfterCorpus
    <2> QED BY <2>1, <2>3, <2>4, <2>5 DEF TrailInv, Accounted
  <1> QED BY <1>1, <1>2, <1>3, <1>4 DEF ResolvePage, ResolveFile, ResolveScope

LEMMA ContentKeeps ==
    TrailInv /\ (ReadPage \/ ReadFile \/ Extract \/ ReadResources \/ RecordContent) => TrailInv'
  <1> SUFFICES ASSUME TrailInv, ReadPage \/ ReadFile \/ Extract \/ ReadResources \/ RecordContent PROVE TrailInv'
    OBVIOUS
  <1>1. ASSUME NEW what, Read(what) PROVE TrailInv'
    BY <1>1, QuietStep DEF Read, Goto, Before, extractVars
  <1>2. CASE Extract
    BY <1>2, QuietStep DEF Extract, Before, agentVars
  <1>3. CASE RecordContent
    BY <1>3, RecordStep DEF RecordContent, Goto, Follows, extractVars
  <1> QED BY <1>1, <1>2, <1>3 DEF ReadPage, ReadFile, ReadResources

LEMMA CorpusKeeps == TrailInv /\ (FindControls \/ ReviewControls \/ FindGuidance \/ RecordCorpus) => TrailInv'
  <1> SUFFICES ASSUME TrailInv, FindControls \/ ReviewControls \/ FindGuidance \/ RecordCorpus PROVE TrailInv'
    OBVIOUS
  <1>1. CASE FindControls
    BY <1>1, QuietStep DEF FindControls, Goto, Before, AfterContent, extractVars
  <1>2. CASE ReviewControls
    BY <1>2, QuietStep DEF ReviewControls, Goto, Before, AfterContent, extractVars
  <1>3. CASE FindGuidance
    BY <1>3, QuietStep DEF FindGuidance, Goto, Before, AfterContent, extractVars
  <1>4. CASE RecordCorpus
    BY <1>4, RecordStep DEF RecordCorpus, Goto, Follows, extractVars
  <1> QED BY <1>1, <1>2, <1>3, <1>4

LEMMA ReportKeeps ==
    TrailInv /\ (ReadableReply \/ InvalidReply \/ UnreadableReply \/ AssessOne \/ AssessOneFails \/ SumUp) => TrailInv'
  <1> SUFFICES ASSUME TrailInv, ReadableReply \/ InvalidReply \/ UnreadableReply \/ AssessOne \/ AssessOneFails \/ SumUp
      PROVE  TrailInv'
    OBVIOUS
  <1>1. CASE ReadableReply
    BY <1>1, QuietStep DEF ReadableReply, Whole, Ask, Goto, Before, AfterCorpus, extractVars
  <1>2. CASE InvalidReply
    BY <1>2, EndStep DEF InvalidReply, Whole, Ask, Stop, AfterCorpus, extractVars
  <1>3. CASE UnreadableReply /\ step = "whole"
    BY <1>3, QuietStep DEF UnreadableReply, Whole, Ask, Goto, Before, AfterCorpus, extractVars
  <1>4. CASE UnreadableReply /\ step # "whole"
    BY <1>4, EndStep DEF UnreadableReply, Whole, Ask, Stop, AfterCorpus, extractVars
  <1>5. CASE AssessOne \/ AssessOneFails
    BY <1>5, QuietStep DEF AssessOne, AssessOneFails, NextControl, Ask, Goto, Before, AfterCorpus, extractVars
  <1>6. CASE SumUp
    BY <1>6, QuietStep DEF SumUp, Goto, Before, AfterCorpus, extractVars
  <1> QED BY <1>1, <1>2, <1>3, <1>4, <1>5, <1>6

LEMMA EndKeeps == TrailInv /\ (RecordAssessment \/ CallRaises) => TrailInv'
  <1> SUFFICES ASSUME TrailInv, RecordAssessment \/ CallRaises PROVE TrailInv'
    OBVIOUS
  <1>1. CASE CallRaises
    BY <1>1, EndStep DEF CallRaises, Stop, extractVars
  <1>2. CASE RecordAssessment
    <2>1. /\ step = "record assessment" /\ Record("assessment_generated") /\ step' = "ended" /\ outcome' = "returned"
          /\ request' = request /\ resources' = resources /\ artifact' = artifact /\ sent' = sent
          /\ Recording(Recorded4) /\ trail \in Seq(Entries) /\ Accounted
      BY <1>2 DEF RecordAssessment, Stop, extractVars, TrailInv, TrailMatchesStep, AfterCorpus
    <2>2. "assessment_generated" \in Entries
      BY DEF Entries
    <2>3. Recording(Recorded5)' /\ trail' \in Seq(Entries)
      <3>1. Recorded4 \in Seq(Entries) /\ Recorded5 = Append(Recorded4, "assessment_generated")
        BY Lengths, RecordsAreSequences
      <3>2. Recording(Append(Recorded4, "assessment_generated"))'
        BY <2>1, <2>2, <3>1, RecordingGrows
      <3>3. trail' \in Seq(Entries)
        BY <2>1, <2>2, RecordIsRecorded
      <3> QED BY <3>1, <3>2, <3>3
    <2>4. \A stage : Recorded(stage) => Recorded(stage)'
      BY <2>1, <2>2, RecordedStays
    <2>5. TrailMatchesStep' /\ NothingBefore'
      BY <2>1 DEF TrailMatchesStep, NothingBefore, Steps, BeforeControls, BeforeContent, AfterContent, AfterCorpus
    <2> QED BY <2>1, <2>3, <2>4, <2>5 DEF TrailInv, Accounted
  <1> QED BY <1>1, <1>2

LEMMA StageStepKeeps == TrailInv /\ [StageNext]_stageVars => TrailInv'
  <1>1. TrailInv /\ UNCHANGED stageVars => TrailInv'
    <2> SUFFICES ASSUME TrailInv, UNCHANGED stageVars PROVE TrailInv'
      OBVIOUS
    <2>1. trail' = trail /\ request' = request /\ step' = step /\ outcome' = outcome /\ resources' = resources
          /\ artifact' = artifact /\ sent' = sent
      BY DEF stageVars, extractVars
    <2>2. /\ \A stage : Recorded(stage)' <=> Recorded(stage)
          /\ \A s : Recording(s)' <=> Recording(s)
      BY <2>1, SameTrail
    <2>3. TrailMatchesStep'
      BY <2>1, <2>2 DEF TrailInv, TrailMatchesStep
    <2>4. NothingBefore'
      BY <2>1 DEF TrailInv, NothingBefore
    <2>5. Accounted'
      BY <2>1, <2>2 DEF TrailInv, Accounted
    <2> QED BY <2>1, <2>3, <2>4, <2>5 DEF TrailInv
  <1> QED
    BY <1>1, IntakeKeeps, GroundingKeeps, ContentKeeps, CorpusKeeps, ReportKeeps, EndKeeps DEF StageNext

LEMMA StageInitIsInv == StageInit => TrailInv
  BY Lengths DEF StageInit, StageInitWith, ExtractInitWith, TrailInv, TrailMatchesStep, NothingBefore, Accounted, Steps,
                 BeforeControls, BeforeContent, AfterContent, AfterCorpus

\* The audit trail accounts for what was done with the content, for any request,
\* any estate and any controls (interfaces.py 238-390).
THEOREM TrailAlwaysAccounts == StageSpec => []TrailAccountsForContent
  <1>1. TrailInv => TrailAccountsForContent
    BY AccountedIsProperty DEF TrailInv
  <1> QED BY <1>1, StageInitIsInv, StageStepKeeps, PTL DEF StageSpec

(***************************************************************************)
(* The extract of an Azure scope, page by page.                            *)
(***************************************************************************)
Listing == IF named = <<>> THEN Estate.resources ELSE named
AssignedTo(S) == UNION {Items(Estate.assigned[p]) : p \in S}
PoliciesOf(S) == {a.policy : a \in S} \ {NoPolicy}

\* While resources are read there are those that have been served, fewer than the
\* limit; then the first ones up to the limit.
ResourcesSoFar ==
    IF extracting = "resources"
    THEN /\ resources = SubSeq(Listing, 1, Len(resources)) /\ Len(resources) \in 0..Len(Listing)
         /\ named = <<>> => served = Len(resources) /\ served < MaxResources
         /\ named # <<>> => served = 0 /\ Len(resources) < Len(named)
    ELSE resources = Upto(MaxResources, Listing)

\* The assignments of the paths that are done, and of the current one what has been served.
AssignmentsSoFar ==
    /\ extracting = "resources" => assignments = {}
    /\ extracting = "assignments" =>
           /\ paths # {} /\ served <= Len(Estate.assigned[NextOf(paths)])
           /\ assignments = AssignedTo(ScopePaths \ paths) \cup {Estate.assigned[NextOf(paths)][i] : i \in 1..served}
    /\ extracting \in {"policies", "extracted"} => assignments = AssignedTo(ScopePaths)

\* The policies of the assignments that have been looked at, each once.
PoliciesSoFar ==
    /\ policies \in Seq(PoliciesOf(assignments))
    /\ \A i, j \in DOMAIN policies : policies[i] = policies[j] => i = j
    /\ extracting \in {"resources", "assignments"} => policies = <<>>
    /\ extracting = "policies" => unread \subseteq assignments /\ Items(policies) = PoliciesOf(assignments \ unread)
    /\ extracting = "extracted" => Items(policies) = PoliciesOf(assignments)

ExtractTypes ==
    /\ named \in Seq(DOMAIN Estate.assigned)
    /\ extracting \in {"resources", "assignments", "policies", "extracted"}
    /\ served \in Nat /\ cut \in BOOLEAN
    /\ paths \subseteq ScopePaths
    /\ extracting = "resources" => paths = ScopePaths /\ ~cut
    /\ extracting = "assignments" => paths # {}

ExtractInv == ExtractTypes /\ PoliciesSoFar /\ (~cut => ResourcesSoFar /\ AssignmentsSoFar)

LEMMA ExtractIsWholeAtEnd == ExtractInv => ExtractIsWhole
  BY DEF ExtractInv, ResourcesSoFar, AssignmentsSoFar, PoliciesSoFar, ExtractIsWhole, Listing, AssignedTo, PoliciesOf

\* The first n and then the next ones are the first m.
LEMMA FirstOnes ==
    ASSUME NEW S, NEW s \in Seq(S), NEW n \in 0..Len(s), NEW m \in n..Len(s)
    PROVE  /\ SubSeq(s, 1, n) \o SubSeq(s, n + 1, m) = SubSeq(s, 1, m)
           /\ SubSeq(s, 1, n) \in Seq(S) /\ Len(SubSeq(s, 1, n)) = n
           /\ SubSeq(SubSeq(s, 1, m), 1, n) = SubSeq(s, 1, n)
           /\ Items(SubSeq(s, n + 1, m)) = {s[i] : i \in (n + 1)..m}
           /\ Items(SubSeq(s, 1, n)) = {s[i] : i \in 1..n}
  <1> DEFINE a == SubSeq(s, 1, n)
             b == SubSeq(s, n + 1, m)
             c == SubSeq(s, 1, m)
  <1>1. /\ a \in Seq(S) /\ Len(a) = n /\ \A i \in 1..n : a[i] = s[i]
        /\ b \in Seq(S) /\ Len(b) = m - n /\ \A i \in 1..(m - n) : b[i] = s[n + i]
        /\ c \in Seq(S) /\ Len(c) = m /\ \A i \in 1..m : c[i] = s[i]
    OBVIOUS
  <1>2. a \o b = c
    <2>1. a \o b \in Seq(S) /\ Len(a \o b) = m
      BY <1>1
    <2>2. ASSUME NEW i \in 1..m PROVE (a \o b)[i] = c[i]
      BY <1>1
    <2> QED BY <1>1, <2>1, <2>2, SeqEqual
  <1>3. SubSeq(c, 1, n) = a
    <2>1. SubSeq(c, 1, n) \in Seq(S) /\ Len(SubSeq(c, 1, n)) = n /\ \A i \in 1..n : SubSeq(c, 1, n)[i] = a[i]
      BY <1>1
    <2> QED BY <1>1, <2>1, SeqEqual
  <1>0. DOMAIN a = 1..n /\ DOMAIN b = 1..(m - n)
    BY <1>1
  <1>4. Items(b) = {s[i] : i \in (n + 1)..m}
    <2> DEFINE T == {s[i] : i \in (n + 1)..m}
    <2>1. ASSUME NEW x \in Items(b) PROVE x \in T
      <3>1. PICK j \in 1..(m - n) : x = b[j]
        BY <1>0 DEF Items
      <3>2. n + j \in (n + 1)..m /\ b[j] = s[n + j]
        BY <1>1
      <3> QED BY <3>1, <3>2
    <2>2. ASSUME NEW x \in T PROVE x \in Items(b)
      <3>1. PICK i \in (n + 1)..m : x = s[i]
        OBVIOUS
      <3>2. i - n \in 1..(m - n) /\ b[i - n] = s[n + (i - n)] /\ n + (i - n) = i
        BY <1>1
      <3>3. i - n \in DOMAIN b /\ b[i - n] = x
        BY <1>0, <3>1, <3>2
      <3> HIDE DEF b
      <3> QED BY <3>3 DEF Items
    <2> QED BY <2>1, <2>2
  <1>5. Items(a) = {s[i] : i \in 1..n}
    <2>1. \A i \in 1..n : a[i] = s[i]
      BY <1>1
    <2> HIDE DEF a
    <2> QED BY <1>0, <2>1 DEF Items
  <1> QED BY <1>1, <1>2, <1>3, <1>4, <1>5

LEMMA OneMoreOf ==
    ASSUME NEW S, NEW s \in Seq(S), NEW n \in 0..Len(s), n < Len(s)
    PROVE  Append(SubSeq(s, 1, n), s[n + 1]) = SubSeq(s, 1, n + 1)
  <1> DEFINE a == SubSeq(s, 1, n)
             c == SubSeq(s, 1, n + 1)
  <1>1. /\ a \in Seq(S) /\ Len(a) = n /\ \A i \in 1..n : a[i] = s[i]
        /\ c \in Seq(S) /\ Len(c) = n + 1 /\ \A i \in 1..(n + 1) : c[i] = s[i]
        /\ s[n + 1] \in S
    OBVIOUS
  <1>2. Append(a, s[n + 1]) \in Seq(S) /\ Len(Append(a, s[n + 1])) = n + 1
    BY <1>1
  <1>3. ASSUME NEW i \in 1..(n + 1) PROVE Append(a, s[n + 1])[i] = c[i]
    BY <1>1
  <1> HIDE DEF a, c
  <1>4. Append(a, s[n + 1]) = c
    BY <1>1, <1>2, <1>3, SeqEqual
  <1> QED BY <1>4 DEF a, c

LEMMA AllOf ==
    ASSUME NEW S, NEW s \in Seq(S)
    PROVE  SubSeq(s, 1, Len(s)) = s /\ Items(s) = {s[i] : i \in 1..Len(s)} /\ SubSeq(s, 1, 0) = <<>>
  <1>1. SubSeq(s, 1, Len(s)) \in Seq(S) /\ Len(SubSeq(s, 1, Len(s))) = Len(s)
        /\ \A i \in 1..Len(s) : SubSeq(s, 1, Len(s))[i] = s[i]
    OBVIOUS
  <1>2. DOMAIN s = 1..Len(s)
    OBVIOUS
  <1>3. SubSeq(s, 1, Len(s)) = s
    BY <1>1, SeqEqual
  <1>4. Items(s) = {s[i] : i \in 1..Len(s)}
    BY <1>2, Zenon DEF Items
  <1> QED BY <1>3, <1>4

LEMMA EmptyItems == Items(<<>>) = {}
  BY DEF Items

\* While policies have not been looked at nothing is known of them.
LEMMA PoliciesWait ==
    ASSUME policies' = <<>>, extracting' \in {"resources", "assignments"} \/ (extracting' = "policies" /\ unread' = assignments')
    PROVE  PoliciesSoFar'
  <1>1. /\ policies' \in Seq(PoliciesOf(assignments)')
        /\ \A i, j \in DOMAIN policies' : policies'[i] = policies'[j] => i = j
        /\ Items(policies)' = {}
    BY EmptyItems
  <1>2. extracting' = "policies" => PoliciesOf(assignments \ unread)' = {}
    BY DEF PoliciesOf
  <1> QED BY <1>1, <1>2 DEF PoliciesSoFar

\* The paths are those of listings, which have an end.
LEMMA NextIsPath == ExtractTypes /\ paths # {} => NextOf(paths) \in paths /\ NextOf(paths) \in DOMAIN Estate.assigned
  <1> SUFFICES ASSUME ExtractTypes, paths # {} PROVE NextOf(paths) \in paths /\ NextOf(paths) \in DOMAIN Estate.assigned
    OBVIOUS
  <1>1. NextOf(paths) \in paths
    BY DEF NextOf
  <1>2. Items(named) \subseteq DOMAIN Estate.assigned
    BY DEF ExtractTypes, Items
  <1> QED BY <1>1, <1>2, EstateAssumption DEF ExtractTypes, ScopePaths

LEMMA ListingsAreSequences ==
    /\ \A p \in DOMAIN Estate.assigned : /\ Estate.assigned[p] \in Seq(Items(Estate.assigned[p]))
                                         /\ Len(Estate.assigned[p]) \in Nat
    /\ Estate.resources \in Seq(Items(Estate.resources))
    /\ PageSize \in Nat \ {0} /\ MaxResources \in Nat \ {0}
  BY EstateAssumption

LEMMA AssignmentsBegin ==
    ASSUME ExtractTypes, extracting = "resources", extracting' = "assignments", served' = 0,
           named' = named, paths' = paths, assignments' = {}
    PROVE  AssignmentsSoFar'
  <1>1. AssignedTo(ScopePaths \ paths)' = {} /\ {Estate.assigned[NextOf(paths)][i] : i \in 1..served}' = {}
    BY DEF ExtractTypes, AssignedTo, ScopePaths
  <1>2. paths # {}
    BY DEF ExtractTypes, ScopePaths
  <1>3. Len(Estate.assigned[NextOf(paths)]) \in Nat
    BY <1>2, NextIsPath, ListingsAreSequences
  <1>4. NextOf(paths)' = NextOf(paths)
    BY DEF NextOf
  <1>5. (paths # {} /\ served <= Len(Estate.assigned[NextOf(paths)]))'
    BY <1>2, <1>3, <1>4
  <1>6. (assignments = AssignedTo(ScopePaths \ paths) \cup {Estate.assigned[NextOf(paths)][i] : i \in 1..served})'
    BY <1>1
  <1> QED BY <1>5, <1>6 DEF AssignmentsSoFar

LEMMA ReadNamedKeeps == ExtractInv /\ ReadNamed => ExtractInv'
  <1> SUFFICES ASSUME ExtractInv, ReadNamed PROVE ExtractInv'
    OBVIOUS
  <1> DEFINE k == Len(resources)
             all == Append(resources, named[k + 1])
  <1>1. /\ ExtractTypes /\ extracting = "resources" /\ named # <<>> /\ policies = <<>>
        /\ named' = named /\ served' = served /\ paths' = paths /\ assignments' = assignments /\ unread' = unread
        /\ policies' = policies /\ cut' = cut
        /\ extracting' \in {"resources", "assignments"}
        /\ IF Len(all) = Len(named) THEN resources' = Upto(MaxResources, all) /\ extracting' = "assignments"
           ELSE resources' = all /\ extracting' = extracting
    BY DEF ExtractInv, ReadNamed, PoliciesSoFar
  <1>2. resources = SubSeq(named, 1, k) /\ k \in 0..Len(named) /\ k < Len(named) /\ served = 0 /\ assignments = {} /\ ~cut
    BY <1>1 DEF ExtractInv, ExtractTypes, ResourcesSoFar, AssignmentsSoFar, Listing
  <1>3. named \in Seq(DOMAIN Estate.assigned)
    BY <1>1 DEF ExtractTypes
  <1>4. all = SubSeq(named, 1, k + 1) /\ Len(all) = k + 1
    <2>1. all = SubSeq(named, 1, k + 1)
      BY <1>2, <1>3, OneMoreOf
    <2>2. Len(SubSeq(named, 1, k + 1)) = k + 1
      BY <1>2, <1>3
    <2> QED BY <2>1, <2>2
  <1> HIDE DEF all
  <1>5. ExtractTypes' /\ PoliciesSoFar'
    BY <1>1, <1>2, PoliciesWait DEF ExtractTypes, ScopePaths
  <1>6. CASE k + 1 = Len(named)
    <2>1. all = named
      BY <1>3, <1>4, <1>6, AllOf
    <2>2. resources' = Upto(MaxResources, Listing)' /\ extracting' = "assignments"
      BY <1>1, <1>4, <1>6, <2>1 DEF Upto, Listing
    <2>3. AssignmentsSoFar'
      BY <1>1, <1>2, <2>2, AssignmentsBegin
    <2> QED BY <1>5, <2>2, <2>3 DEF ExtractInv, ResourcesSoFar
  <1>7. CASE k + 1 # Len(named)
    <2>1. resources' = SubSeq(named, 1, k + 1) /\ Len(resources') = k + 1 /\ extracting' = "resources"
      BY <1>1, <1>4, <1>7
    <2>2. k + 1 \in 0..Len(named) /\ k + 1 < Len(named)
      BY <1>2, <1>3, <1>7
    <2> QED BY <1>1, <1>2, <1>5, <2>1, <2>2 DEF ExtractInv, ResourcesSoFar, AssignmentsSoFar, Listing
  <1> QED BY <1>6, <1>7

LEMMA ReadGroupKeeps == ExtractInv /\ ReadGroup => ExtractInv'
  <1> SUFFICES ASSUME ExtractInv, ReadGroup PROVE ExtractInv'
    OBVIOUS
  <1> DEFINE L == Estate.resources
             n == served
             m == IF served + PageSize < Len(L) THEN served + PageSize ELSE Len(L)
             all == resources \o PageOf(L)
  <1>1. /\ ExtractTypes /\ extracting = "resources" /\ named = <<>> /\ policies = <<>> /\ assignments = {} /\ ~cut
        /\ resources = SubSeq(L, 1, n) /\ n \in 0..Len(L) /\ n < MaxResources
    BY DEF ExtractInv, ReadGroup, PoliciesSoFar, ExtractTypes, ResourcesSoFar, AssignmentsSoFar, Listing
  <1>2. /\ named' = named /\ paths' = paths /\ assignments' = assignments /\ unread' = unread
        /\ policies' = policies /\ cut' = cut /\ resources' = Upto(MaxResources, all)
        /\ IF LastPage(L) \/ Len(resources') >= MaxResources
           THEN extracting' = "assignments" /\ served' = 0
           ELSE served' = served + PageSize /\ extracting' = "resources"
    BY <1>1 DEF ReadGroup
  <1>3. L \in Seq(Items(L)) /\ PageSize \in Nat \ {0} /\ MaxResources \in Nat \ {0} /\ Len(L) \in Nat
    BY ListingsAreSequences
  <1>4. m \in n..Len(L) /\ (LastPage(L) <=> m = Len(L) /\ served + PageSize >= Len(L)) /\ (~LastPage(L) => m = served + PageSize)
    BY <1>1, <1>3 DEF LastPage
  <1>a. all = SubSeq(L, 1, n) \o SubSeq(L, n + 1, m)
    BY <1>1 DEF PageOf
  <1> HIDE DEF all, L, m
  <1>5. all = SubSeq(L, 1, m) /\ Len(all) = m
    <2>1. m \in 0..Len(L)
      BY <1>1, <1>3, <1>4
    <2>2. all = SubSeq(L, 1, m)
      BY <1>1, <1>3, <1>4, <1>a, FirstOnes
    <2>3. Len(SubSeq(L, 1, m)) = m
      BY <1>3, <2>1
    <2> QED BY <2>2, <2>3
  <1>6. ExtractTypes' /\ PoliciesSoFar'
    <2>1. extracting' \in {"resources", "assignments"} /\ served' \in Nat
      BY <1>1, <1>2, <1>3
    <2> QED BY <1>1, <1>2, <2>1, PoliciesWait DEF ExtractTypes, ScopePaths
  <1>7. CASE m < MaxResources
    <2>1. resources' = SubSeq(L, 1, m) /\ Len(resources') = m
      <3>1. Upto(MaxResources, all) = SubSeq(all, 1, m)
        BY <1>3, <1>4, <1>5, <1>7 DEF Upto
      <3>2. SubSeq(all, 1, m) = all
        BY <1>3, <1>4, <1>5, FirstOnes
      <3> QED BY <1>2, <1>5, <3>1, <3>2
    <2>2. CASE LastPage(L)
      <3>1. Upto(MaxResources, L) = SubSeq(L, 1, m)
        BY <1>3, <1>4, <1>7, <2>2 DEF Upto
      <3>2. extracting' = "assignments" /\ served' = 0
        BY <1>2, <2>2
      <3>3. Listing' = L
        BY <1>1, <1>2 DEF Listing, L
      <3> QED BY <1>1, <1>2, <1>6, <2>1, <3>1, <3>2, <3>3, AssignmentsBegin DEF ExtractInv, ResourcesSoFar
    <2>3. CASE ~LastPage(L)
      <3>1. extracting' = "resources" /\ served' = m
        BY <1>2, <1>3, <1>4, <1>7, <2>1, <2>3
      <3>2. Listing' = L
        BY <1>1, <1>2 DEF Listing, L
      <3>3. m \in 0..Len(L)
        BY <1>1, <1>3, <1>4
      <3> QED BY <1>1, <1>2, <1>6, <1>7, <2>1, <3>1, <3>2, <3>3 DEF ExtractInv, ResourcesSoFar, AssignmentsSoFar
    <2> QED BY <2>2, <2>3
  <1>8. CASE m >= MaxResources
    <2>1. Upto(MaxResources, all) = SubSeq(all, 1, MaxResources) /\ Upto(MaxResources, L) = SubSeq(L, 1, MaxResources)
      <3>1. (IF MaxResources < m THEN MaxResources ELSE m) = MaxResources
        BY <1>3, <1>4, <1>8
      <3>2. (IF MaxResources < Len(L) THEN MaxResources ELSE Len(L)) = MaxResources
        BY <1>3, <1>4, <1>8
      <3> QED BY <1>5, <3>1, <3>2 DEF Upto
    <2>2. SubSeq(all, 1, MaxResources) = SubSeq(L, 1, MaxResources) /\ Len(SubSeq(L, 1, MaxResources)) = MaxResources
      <3>1. MaxResources \in 0..Len(L) /\ m \in MaxResources..Len(L)
        BY <1>3, <1>4, <1>8
      <3> QED BY <1>3, <1>5, <3>1, FirstOnes
    <2>3. extracting' = "assignments" /\ served' = 0 /\ resources' = Upto(MaxResources, L)
      BY <1>2, <1>3, <2>1, <2>2
    <2>4. Listing' = L
      BY <1>1, <1>2 DEF Listing, L
    <2> QED BY <1>1, <1>2, <1>6, <2>3, <2>4, AssignmentsBegin DEF ExtractInv, ResourcesSoFar
  <1>9. m \in Nat /\ MaxResources \in Nat
    BY <1>1, <1>3, <1>4
  <1> QED BY <1>7, <1>8, <1>9

\* A path is done when what it was assigned is there.
LEMMA PathIsDone ==
    ASSUME ExtractTypes, extracting = "assignments", NextPath, named' = named,
           assignments' = AssignedTo(ScopePaths \ paths) \cup Items(Estate.assigned[NextOf(paths)])
    PROVE  AssignmentsSoFar'
  <1> DEFINE p == NextOf(paths)
  <1>1. p \in paths /\ paths # {} /\ paths \subseteq ScopePaths /\ paths' = paths \ {p} /\ served' = 0 /\ ScopePaths' = ScopePaths
    BY NextIsPath DEF ExtractTypes, NextPath, ScopePaths
  <1>2. ScopePaths \ paths' = (ScopePaths \ paths) \cup {p}
    BY <1>1
  <1>3. assignments' = AssignedTo(ScopePaths \ paths')
    <2>1. AssignedTo((ScopePaths \ paths) \cup {p}) = AssignedTo(ScopePaths \ paths) \cup Items(Estate.assigned[p])
      BY DEF AssignedTo
    <2> QED BY <1>2, <2>1
  <1>4. CASE paths' = {}
    BY <1>1, <1>3, <1>4 DEF NextPath, AssignmentsSoFar
  <1>5. CASE paths' # {}
    <2>1. extracting' = "assignments"
      BY <1>5 DEF NextPath
    <2>2. NextOf(paths)' \in DOMAIN Estate.assigned
      <3>1. NextOf(paths)' \in paths'
        BY <1>5 DEF NextOf
      <3>2. Items(named) \subseteq DOMAIN Estate.assigned
        BY DEF ExtractTypes, Items
      <3> QED BY <1>1, <3>1, <3>2, EstateAssumption DEF ScopePaths
    <2>3. Len(Estate.assigned[NextOf(paths)'])  \in Nat
      BY <2>2, ListingsAreSequences
    <2>4. {Estate.assigned[NextOf(paths)][i] : i \in 1..served}' = {}
      BY <1>1
    <2>5. (paths # {} /\ served <= Len(Estate.assigned[NextOf(paths)]))'
      BY <1>1, <1>5, <2>3
    <2>6. (assignments = AssignedTo(ScopePaths \ paths) \cup {Estate.assigned[NextOf(paths)][i] : i \in 1..served})'
      BY <1>1, <1>3, <2>4
    <2> QED BY <2>1, <2>5, <2>6 DEF AssignmentsSoFar
  <1> QED BY <1>4, <1>5

LEMMA PathLeaves ==
    ASSUME ExtractTypes, extracting = "assignments", NextPath, named' = named, cut' \in BOOLEAN
    PROVE  ExtractTypes'
  <1>1. paths' \subseteq ScopePaths /\ ScopePaths' = ScopePaths /\ served' = 0
    BY DEF ExtractTypes, NextPath, ScopePaths
  <1>2. extracting' = IF paths' = {} THEN "policies" ELSE "assignments"
    BY DEF NextPath
  <1> QED BY <1>1, <1>2 DEF ExtractTypes

LEMMA ReadAssignmentsKeeps == ExtractInv /\ ReadAssignments => ExtractInv'
  <1> SUFFICES ASSUME ExtractInv, ReadAssignments PROVE ExtractInv'
    OBVIOUS
  <1> DEFINE L == Estate.assigned[NextOf(paths)]
             n == served
             m == IF served + PageSize < Len(L) THEN served + PageSize ELSE Len(L)
  <1>1. /\ ExtractTypes /\ extracting = "assignments" /\ policies = <<>> /\ paths # {} /\ served \in Nat
        /\ named' = named /\ resources' = resources /\ policies' = policies /\ cut' = cut
        /\ assignments' = assignments \cup Items(PageOf(L))
        /\ IF LastPage(L) THEN NextPath
           ELSE served' = served + PageSize /\ paths' = paths /\ extracting' = extracting /\ unread' = unread
    BY DEF ExtractInv, ReadAssignments, PoliciesSoFar, ExtractTypes
  <1>2. L \in Seq(Items(L)) /\ PageSize \in Nat \ {0} /\ Len(L) \in Nat
    BY <1>1, NextIsPath, ListingsAreSequences
  <1>3. ExtractTypes'
    <2>1. CASE LastPage(L)
      BY <1>1, <2>1, PathLeaves DEF ExtractTypes
    <2>2. CASE ~LastPage(L)
      <3>1. served' \in Nat /\ paths' = paths /\ extracting' = extracting
        BY <1>1, <1>2, <2>2
      <3> QED BY <1>1, <3>1 DEF ExtractTypes, ScopePaths
    <2> QED BY <2>1, <2>2
  <1>4. PoliciesSoFar'
    BY <1>1, PoliciesWait DEF NextPath
  <1>5. ASSUME ~cut PROVE ResourcesSoFar' /\ AssignmentsSoFar'
    <2>1. ResourcesSoFar'
      <3>1. extracting' # "resources" /\ resources = Upto(MaxResources, Listing)
        BY <1>1, <1>5 DEF ExtractInv, ResourcesSoFar, NextPath
      <3> QED BY <1>1, <3>1 DEF ResourcesSoFar, Listing
    <2>2. n \in 0..Len(L) /\ assignments = AssignedTo(ScopePaths \ paths) \cup {L[i] : i \in 1..n}
      <3>1. AssignmentsSoFar
        BY <1>5 DEF ExtractInv
      <3>2. n <= Len(L) /\ assignments = AssignedTo(ScopePaths \ paths) \cup {L[i] : i \in 1..n}
        BY <1>1, <3>1 DEF AssignmentsSoFar
      <3> HIDE DEF L
      <3> QED BY <1>1, <1>2, <3>2
    <2>3. m \in n..Len(L) /\ (LastPage(L) => m = Len(L)) /\ (~LastPage(L) => m = served + PageSize)
      BY <1>2, <2>2 DEF LastPage
    <2>4. PageOf(L) = SubSeq(L, n + 1, m)
      BY DEF PageOf
    <2> HIDE DEF L, m
    <2>5. Items(PageOf(L)) = {L[i] : i \in (n + 1)..m}
      BY <1>2, <2>2, <2>3, <2>4, FirstOnes
    <2>6. assignments' = AssignedTo(ScopePaths \ paths) \cup {L[i] : i \in 1..m}
      <3>1. 1..m = (1..n) \cup ((n + 1)..m)
        BY <1>2, <2>2, <2>3
      <3>2. {L[i] : i \in 1..m} = {L[i] : i \in 1..n} \cup {L[i] : i \in (n + 1)..m}
        BY <3>1
      <3> QED BY <1>1, <2>2, <2>5, <3>2
    <2>7. CASE LastPage(L)
      <3>1. Items(L) = {L[i] : i \in 1..m}
        BY <1>2, <2>3, <2>7, AllOf
      <3>2. assignments' = AssignedTo(ScopePaths \ paths) \cup Items(Estate.assigned[NextOf(paths)])
        BY <2>6, <3>1 DEF L
      <3> QED BY <1>1, <2>1, <2>7, <3>2, PathIsDone
    <2>8. CASE ~LastPage(L)
      <3>1. served' = m /\ paths' = paths /\ extracting' = "assignments" /\ ScopePaths' = ScopePaths
        BY <1>1, <2>3, <2>8 DEF ScopePaths
      <3>2. (served <= Len(Estate.assigned[NextOf(paths)]))'
        BY <1>2, <2>2, <2>3, <3>1 DEF L
      <3>3. (assignments = AssignedTo(ScopePaths \ paths) \cup {Estate.assigned[NextOf(paths)][i] : i \in 1..served})'
        BY <2>6, <3>1 DEF L
      <3> QED BY <1>1, <2>1, <3>1, <3>2, <3>3 DEF AssignmentsSoFar
    <2> QED BY <2>7, <2>8
  <1> QED BY <1>1, <1>3, <1>4, <1>5 DEF ExtractInv

LEMMA AnswerWithoutListKeeps == ExtractInv /\ AnswerWithoutList => ExtractInv'
  <1> SUFFICES ASSUME ExtractInv, AnswerWithoutList PROVE ExtractInv'
    OBVIOUS
  <1>1. /\ ExtractTypes /\ extracting \in {"resources", "assignments"} /\ policies' = <<>> /\ cut' = TRUE /\ named' = named
        /\ assignments' = assignments
        /\ \/ extracting = "resources" /\ extracting' = "assignments" /\ served' = 0 /\ paths' = paths
           \/ extracting = "assignments" /\ NextPath
    BY DEF ExtractInv, AnswerWithoutList, PoliciesSoFar
  <1>2. ExtractTypes'
    <2>1. CASE extracting = "resources"
      BY <1>1, <2>1 DEF ExtractTypes, ScopePaths
    <2>2. CASE extracting = "assignments"
      BY <1>1, <2>2, PathLeaves
    <2> QED BY <1>1, <2>1, <2>2
  <1>3. PoliciesSoFar'
    BY <1>1, PoliciesWait DEF NextPath
  <1> QED BY <1>1, <1>2, <1>3 DEF ExtractInv

LEMMA ReadPolicyKeeps == ExtractInv /\ ReadPolicy => ExtractInv'
  <1> SUFFICES ASSUME ExtractInv, ReadPolicy PROVE ExtractInv'
    OBVIOUS
  <1> DEFINE a == NextOf(unread)
  <1>1. /\ ExtractTypes /\ extracting = "policies" /\ extracting' = "policies" /\ unread # {} /\ unread' = unread \ {a}
        /\ policies' = IF a.policy = NoPolicy \/ a.policy \in Items(policies) THEN policies ELSE Append(policies, a.policy)
        /\ named' = named /\ served' = served /\ resources' = resources /\ paths' = paths
        /\ assignments' = assignments /\ cut' = cut
    BY DEF ExtractInv, ReadPolicy
  <1>2. a \in unread
    BY <1>1 DEF NextOf
  <1> HIDE DEF a
  <1>3. /\ policies \in Seq(PoliciesOf(assignments)) /\ unread \subseteq assignments
        /\ \A i, j \in DOMAIN policies : policies[i] = policies[j] => i = j
        /\ Items(policies) = PoliciesOf(assignments \ unread)
    BY <1>1 DEF ExtractInv, PoliciesSoFar
  <1>4. PoliciesOf(assignments \ unread') = PoliciesOf(assignments \ unread) \cup ({a.policy} \ {NoPolicy})
    <2>1. assignments \ unread' = (assignments \ unread) \cup {a}
      BY <1>1, <1>2, <1>3
    <2> QED BY <2>1 DEF PoliciesOf
  <1>5. ExtractTypes' /\ (~cut' => ResourcesSoFar' /\ AssignmentsSoFar')
    <2>1. ExtractTypes'
      BY <1>1 DEF ExtractTypes, ScopePaths
    <2>2. ~cut' => ResourcesSoFar'
      BY <1>1 DEF ExtractInv, ResourcesSoFar, Listing
    <2>3. ~cut' => AssignmentsSoFar'
      BY <1>1 DEF ExtractInv, AssignmentsSoFar, ScopePaths
    <2> QED BY <2>1, <2>2, <2>3
  <1>6. PoliciesSoFar'
    <2>1. CASE a.policy = NoPolicy \/ a.policy \in Items(policies)
      <3>1. policies' = policies /\ Items(policies) = PoliciesOf(assignments \ unread')
        BY <1>1, <1>3, <1>4, <2>1
      <3>2. unread' \subseteq assignments
        BY <1>1, <1>3
      <3> QED BY <1>1, <1>3, <3>1, <3>2 DEF PoliciesSoFar
    <2>2. CASE a.policy # NoPolicy /\ a.policy \notin Items(policies)
      <3> DEFINE k == Len(policies)
                 P == PoliciesOf(assignments)
      <3>1. a.policy \in P /\ k \in Nat /\ policies' = Append(policies, a.policy)
        BY <1>1, <1>2, <1>3, <2>2 DEF PoliciesOf
      <3>2. policies' \in Seq(P) /\ DOMAIN policies' = 1..(k + 1) /\ DOMAIN policies = 1..k /\ policies'[k + 1] = a.policy
            /\ \A i \in 1..k : policies'[i] = policies[i]
        BY <1>3, <3>1
      <3>3. \A i \in 1..k : policies[i] # a.policy
        BY <2>2, <3>2 DEF Items
      <3>4. \A i, j \in DOMAIN policies' : policies'[i] = policies'[j] => i = j
        <4> TAKE i, j \in DOMAIN policies'
        <4>1. (i \in 1..k \/ i = k + 1) /\ (j \in 1..k \/ j = k + 1)
          BY <3>1, <3>2
        <4> QED BY <1>3, <3>2, <3>3, <4>1
      <3>5. Items(policies') = Items(policies) \cup {a.policy}
        <4>1. 1..(k + 1) = (1..k) \cup {k + 1}
          BY <3>1
        <4> QED BY <3>2, <4>1 DEF Items
      <3>6. Items(policies') = PoliciesOf(assignments \ unread')
        BY <1>3, <1>4, <2>2, <3>5
      <3>7. unread' \subseteq assignments
        BY <1>1, <1>3
      <3> QED BY <1>1, <3>2, <3>4, <3>6, <3>7 DEF PoliciesSoFar
    <2> QED BY <2>1, <2>2
  <1> QED BY <1>5, <1>6 DEF ExtractInv

LEMMA PutTogetherKeeps == ExtractInv /\ PutTogether => ExtractInv'
  <1> SUFFICES ASSUME ExtractInv, PutTogether PROVE ExtractInv'
    OBVIOUS
  <1>1. /\ ExtractTypes /\ extracting = "policies" /\ extracting' = "extracted" /\ unread = {}
        /\ named' = named /\ served' = served /\ resources' = resources /\ paths' = paths
        /\ assignments' = assignments /\ cut' = cut /\ policies' = policies
    BY DEF ExtractInv, PutTogether
  <1>2. assignments \ unread = assignments
    BY <1>1
  <1>3. ExtractTypes'
    BY <1>1 DEF ExtractTypes, ScopePaths
  <1>4. ~cut' => ResourcesSoFar' /\ AssignmentsSoFar'
    BY <1>1 DEF ExtractInv, ResourcesSoFar, AssignmentsSoFar, Listing, ScopePaths
  <1>5. PoliciesSoFar'
    BY <1>1, <1>2 DEF ExtractInv, PoliciesSoFar
  <1> QED BY <1>3, <1>4, <1>5 DEF ExtractInv

LEMMA ExtractNextKeeps == ExtractInv /\ ExtractNext => ExtractInv'
  BY ReadNamedKeeps, ReadGroupKeeps, ReadAssignmentsKeeps, AnswerWithoutListKeeps, ReadPolicyKeeps, PutTogetherKeeps
  DEF ExtractNext

LEMMA ExtractStays == ExtractInv /\ UNCHANGED extractVars => ExtractInv'
  <1> SUFFICES ASSUME ExtractInv, UNCHANGED extractVars PROVE ExtractInv'
    OBVIOUS
  <1>1. /\ named' = named /\ served' = served /\ resources' = resources /\ paths' = paths /\ extracting' = extracting
        /\ assignments' = assignments /\ cut' = cut /\ policies' = policies /\ unread' = unread
    BY DEF extractVars
  <1>2. ExtractTypes' /\ PoliciesSoFar'
    BY <1>1 DEF ExtractInv, ExtractTypes, PoliciesSoFar, ScopePaths
  <1>3. ~cut' => ResourcesSoFar' /\ AssignmentsSoFar'
    BY <1>1 DEF ExtractInv, ResourcesSoFar, AssignmentsSoFar, Listing, ScopePaths
  <1> QED BY <1>2, <1>3 DEF ExtractInv

LEMMA ExtractBegins == ASSUME NEW scope \in Seq(DOMAIN Estate.assigned), ExtractInitWith(scope) PROVE ExtractInv
  <1>1. ExtractTypes /\ assignments = {} /\ resources = <<>>
    BY DEF ExtractInitWith, ExtractTypes, ScopePaths
  <1>2. PoliciesSoFar
    BY DEF ExtractInitWith, PoliciesSoFar
  <1>3. ResourcesSoFar
    <2>1. Estate.resources \in Seq(Items(Estate.resources)) /\ MaxResources \in Nat \ {0}
      BY EstateAssumption
    <2>2. SubSeq(Listing, 1, 0) = <<>> /\ Len(Listing) \in Nat
      BY <2>1, AllOf DEF Listing, ExtractInitWith
    <2>3. named # <<>> => 0 < Len(named)
      BY DEF ExtractInitWith
    <2> QED BY <2>1, <2>2, <2>3 DEF ResourcesSoFar, ExtractInitWith
  <1>4. AssignmentsSoFar
    BY <1>1 DEF ExtractInitWith, AssignmentsSoFar
  <1> QED BY <1>1, <1>2, <1>3, <1>4 DEF ExtractInv

(***************************************************************************)
(* The report.  Control by control, findings and controls that are left    *)
(* make up the controls; a failure leaves a finding of its own.            *)
(***************************************************************************)
Found == 1..Len(AllControls)
BeforeReport == BeforeControls \cup AfterContent
AfterExtract == {"record content"} \cup AfterContent \cup AfterCorpus

Reported ==
    IF request.each THEN /\ Len(statuses) = Cardinality(controls)
                         /\ gap => assessment.rating # "low" /\ assessment.missing # {}
    ELSE statuses # <<>>

AgentInv ==
    /\ controls \subseteq Found /\ left \subseteq controls /\ statuses \in Seq(Verdicts \cup Others)
    /\ step \in BeforeReport => left = {}
    /\ step \in BeforeReport \cup {"whole", "again"} => statuses = <<>> /\ ~gap
    /\ step \in {"whole", "again"} => ~request.each
    /\ step = "each" => request.each /\ Len(statuses) + Cardinality(left) = Cardinality(controls)
    /\ gap => Given({"insufficient_evidence"})
    /\ step = "record assessment" \/ outcome = "returned" => Reported
    /\ request.provider = "azure" /\ (step \in AfterExtract \/ outcome = "returned") => extracting = "extracted"

LEMMA StepsApart ==
    /\ BeforeReport \cap AfterCorpus = {} /\ "ended" \notin BeforeReport \cup AfterCorpus
    /\ {"whole", "again", "each", "record assessment"} = AfterCorpus
    /\ {"intake", "receive", "resolve", "check", "decide", "content", "record content",
        "controls", "review", "guidance", "record corpus"} = BeforeReport
    /\ {"record content", "controls", "review", "guidance", "record corpus", "whole", "again", "each", "record assessment"} = AfterExtract
  BY DEF BeforeReport, AfterExtract, AfterCorpus, BeforeControls, BeforeContent, AfterContent

\* Nothing of the report is made before its step.
LEMMA AgentWaits ==
    ASSUME AgentInv, UNCHANGED <<controls, left, statuses, gap>>, request' = request,
           step \in BeforeReport, step' \in BeforeReport, outcome' = "none",
           request.provider = "azure" /\ step' \in AfterExtract => extracting' = "extracted"
    PROVE  AgentInv'
  BY StepsApart DEF AgentInv, Given

\* What raises or refuses ends the assessment without a report.
LEMMA AgentStops ==
    ASSUME AgentInv, UNCHANGED <<controls, left, statuses, gap>>, request' = request,
           step' = "ended", outcome' \in {"refused", "denied", "raised"}
    PROVE  AgentInv'
  BY StepsApart DEF AgentInv, Given

LEMMA OutcomeWaits == TrailInv /\ step # "ended" => outcome = "none"
  BY DEF TrailInv, NothingBefore

LEMMA IntakeIsQuiet ==
    TrailInv /\ AgentInv /\ (TakeRequest \/ ReceiveMessage \/ ResolvePage \/ ResolveFile \/ ResolveScope \/ CheckAccess \/ DecideAccess)
    => AgentInv'
  <1> SUFFICES ASSUME TrailInv, AgentInv,
                      TakeRequest \/ ReceiveMessage \/ ResolvePage \/ ResolveFile \/ ResolveScope \/ CheckAccess \/ DecideAccess
      PROVE  AgentInv'
    OBVIOUS
  <1>1. /\ UNCHANGED <<controls, left, statuses, gap>> /\ request' = request
        /\ step \in {"intake", "receive", "resolve", "check", "decide"}
        /\ \/ step' \in {"receive", "resolve", "check", "decide", "content"} /\ outcome' = outcome
           \/ step' = "ended" /\ outcome' \in {"refused", "denied"}
    BY DEF TakeRequest, ReceiveMessage, ResolvePage, ResolveFile, ResolveScope, Resolve, CheckAccess, DecideAccess, Goto, Stop, agentVars
  <1>2. step \in BeforeReport /\ ((step' \in BeforeReport /\ step' \notin AfterExtract) \/ step' = "ended")
    BY <1>1, StepsApart
  <1>3. outcome = "none"
    BY <1>1, OutcomeWaits
  <1> QED BY <1>1, <1>2, <1>3, AgentWaits, AgentStops

LEMMA ReadingIsQuiet ==
    TrailInv /\ AgentInv /\ (ReadPage \/ ReadFile \/ Extract \/ ReadResources \/ RecordContent) => AgentInv'
  <1> SUFFICES ASSUME TrailInv, AgentInv, ReadPage \/ ReadFile \/ Extract \/ ReadResources \/ RecordContent PROVE AgentInv'
    OBVIOUS
  <1>1. /\ UNCHANGED <<controls, left, statuses, gap>> /\ request' = request /\ outcome' = outcome
        /\ step \in {"content", "record content"}
        /\ step' \in {"content", "record content", "controls"}
    BY DEF ReadPage, ReadFile, Extract, ReadResources, RecordContent, Read, Goto, agentVars
  <1>2. step \in BeforeReport /\ step' \in BeforeReport /\ outcome = "none"
    BY <1>1, StepsApart, OutcomeWaits
  <1>3. ASSUME request.provider = "azure", step' \in AfterExtract PROVE extracting' = "extracted"
    <2>1. step' # "content"
      BY <1>3, StepsApart
    <2>2. CASE ReadResources
      BY <2>2 DEF ReadResources, Read, extractVars
    <2>3. CASE RecordContent
      BY <1>3, <2>3, StepsApart DEF RecordContent, extractVars, AgentInv
    <2>4. CASE Extract
      BY <1>1, <2>1, <2>4 DEF Extract
    <2>5. ~ReadPage /\ ~ReadFile
      BY <1>3 DEF ReadPage, ReadFile
    <2> QED BY <2>2, <2>3, <2>4, <2>5
  <1> QED BY <1>1, <1>2, <1>3, AgentWaits

LEMMA FoundIsFinite == IsFiniteSet(Found) /\ \A S \in SUBSET Found : IsFiniteSet(S) /\ Cardinality(S) \in Nat
  <1>1. Len(AllControls) \in Nat
    BY StagesAssumption
  <1>2. IsFiniteSet(Found)
    BY <1>1, FS_Interval DEF Found
  <1> QED BY <1>2, FS_Subset, FS_CardinalityType

LEMMA RetrievalKeepsAgent ==
    TrailInv /\ AgentInv /\ (FindControls \/ ReviewControls \/ FindGuidance \/ RecordCorpus) => AgentInv'
  <1> SUFFICES ASSUME TrailInv, AgentInv, FindControls \/ ReviewControls \/ FindGuidance \/ RecordCorpus PROVE AgentInv'
    OBVIOUS
  <1>1. CASE ReviewControls \/ FindGuidance
    <2>1. /\ UNCHANGED <<controls, left, statuses, gap>> /\ request' = request /\ outcome' = outcome /\ extracting' = extracting
          /\ step \in {"review", "guidance"} /\ step' \in {"guidance", "record corpus"}
      BY <1>1 DEF ReviewControls, FindGuidance, Goto, extractVars, agentVars
    <2>2. step \in BeforeReport /\ step' \in BeforeReport /\ outcome = "none" /\ step \in AfterExtract
      BY <2>1, StepsApart, OutcomeWaits
    <2>3. request.provider = "azure" => extracting = "extracted"
      BY <2>2 DEF AgentInv
    <2> QED BY <2>1, <2>2, <2>3, AgentWaits
  <1>2. CASE FindControls
    <2>1. /\ UNCHANGED <<left, statuses, gap>> /\ request' = request /\ outcome' = outcome /\ extracting' = extracting
          /\ step = "controls" /\ step' = "review"
      BY <1>2 DEF FindControls, Goto, extractVars
    <2>2. controls' \subseteq Found
      <3>1. PICK n \in 0..Len(AllControls) : controls' \subseteq 1..n
        BY <1>2 DEF FindControls
      <3>2. Len(AllControls) \in Nat
        BY StagesAssumption
      <3> QED BY <3>1, <3>2 DEF Found
    <2>3. outcome = "none"
      BY <2>1, OutcomeWaits
    <2> QED BY <2>1, <2>2, <2>3, StepsApart DEF AgentInv, Given
  <1>3. CASE RecordCorpus
    <2>1. /\ left' = controls /\ UNCHANGED <<controls, statuses, gap>> /\ request' = request /\ outcome' = outcome
          /\ extracting' = extracting /\ step = "record corpus" /\ step' = IF request.each THEN "each" ELSE "whole"
      BY <1>3 DEF RecordCorpus, Goto, extractVars
    <2>2. outcome = "none" /\ statuses = <<>> /\ ~gap /\ controls \subseteq Found
      BY <2>1, OutcomeWaits, StepsApart DEF AgentInv
    <2>3. Cardinality(controls) \in Nat /\ Len(statuses) = 0
      BY <2>2, FoundIsFinite
    <2>4. Len(statuses') + Cardinality(left') = Cardinality(controls')
      <3>1. Len(statuses') = 0 /\ Cardinality(left') = Cardinality(controls) /\ Cardinality(controls') = Cardinality(controls)
        BY <2>1, <2>3
      <3> QED BY <2>3, <3>1
    <2>5. step' \in AfterCorpus /\ step \in AfterExtract /\ step' \notin BeforeReport /\ step' # "record assessment"
      BY <2>1, StepsApart
    <2>6. /\ controls' \subseteq Found /\ left' \subseteq controls' /\ statuses' \in Seq(Verdicts \cup Others) /\ ~gap'
          /\ statuses' = <<>>
      BY <2>1, <2>2 DEF AgentInv
    <2>7. request.provider = "azure" => extracting' = "extracted"
      BY <2>1, <2>5 DEF AgentInv
    <2> QED BY <2>1, <2>2, <2>4, <2>5, <2>6, <2>7 DEF AgentInv
  <1> QED BY <1>1, <1>2, <1>3

LEMMA OneAtTheEnd ==
    ASSUME NEW S, NEW s \in Seq(S), NEW x \in S
    PROVE  /\ Append(s, x) \in Seq(S) /\ Len(Append(s, x)) = Len(s) + 1 /\ Len(s) \in Nat
           /\ \A i \in 1..Len(s) : Append(s, x)[i] = s[i]
           /\ Append(s, x)[Len(s) + 1] = x
           /\ DOMAIN s = 1..Len(s) /\ DOMAIN Append(s, x) = 1..(Len(s) + 1)
  OBVIOUS

LEMMA WholeKeepsAgent == TrailInv /\ AgentInv /\ (ReadableReply \/ InvalidReply \/ UnreadableReply) => AgentInv'
  <1> SUFFICES ASSUME TrailInv, AgentInv, ReadableReply \/ InvalidReply \/ UnreadableReply PROVE AgentInv'
    OBVIOUS
  <1>1. /\ UNCHANGED <<controls, left, gap>> /\ request' = request /\ extracting' = extracting
        /\ step \in {"whole", "again"} /\ ~request.each /\ ~gap /\ outcome = "none"
        /\ request.provider = "azure" => extracting = "extracted"
    BY StepsApart, OutcomeWaits DEF ReadableReply, InvalidReply, UnreadableReply, Whole, extractVars, AgentInv
  <1>2. CASE statuses' = statuses /\ step' = "ended" /\ outcome' = "raised"
    BY <1>1, <1>2, AgentStops
  <1>3. CASE UnreadableReply /\ step = "whole"
    <2>1. statuses' = statuses /\ step' = "again" /\ outcome' = "none"
      BY <1>1, <1>3 DEF UnreadableReply, Goto
    <2> QED BY <1>1, <2>1, StepsApart DEF AgentInv, Given
  <1>4. CASE ReadableReply
    <2>1. PICK v \in Verdicts : statuses' = <<v>>
      BY <1>4 DEF ReadableReply
    <2>2. step' = "record assessment" /\ outcome' = "none"
      BY <1>1, <1>4 DEF ReadableReply, Goto
    <2>3. statuses' \in Seq(Verdicts \cup Others) /\ statuses' # <<>>
      BY <2>1
    <2>4. Reported'
      BY <1>1, <2>3 DEF Reported
    <2> QED BY <1>1, <2>2, <2>3, <2>4, StepsApart DEF AgentInv
  <1>5. InvalidReply \/ (UnreadableReply /\ step # "whole") => statuses' = statuses /\ step' = "ended" /\ outcome' = "raised"
    BY DEF InvalidReply, UnreadableReply, Stop
  <1> QED BY <1>2, <1>3, <1>4, <1>5

LEMMA OneByOneKeepsAgent == TrailInv /\ AgentInv /\ (AssessOne \/ AssessOneFails) => AgentInv'
  <1> SUFFICES ASSUME TrailInv, AgentInv, AssessOne \/ AssessOneFails PROVE AgentInv'
    OBVIOUS
  <1> DEFINE c == NextOf(left)
  <1>1. /\ step = "each" /\ step' = "each" /\ left # {} /\ left' = left \ {c} /\ controls' = controls
        /\ request' = request /\ extracting' = extracting /\ outcome' = outcome
    BY DEF AssessOne, AssessOneFails, NextControl, Goto, extractVars
  <1>2. c \in left
    BY <1>1 DEF NextOf
  <1> HIDE DEF c
  <1>3. PICK v \in Verdicts \cup Others : /\ statuses' = Append(statuses, v)
                                         /\ ((gap' = gap) \/ (gap' /\ v = "insufficient_evidence"))
    <2>1. CASE AssessOne
      BY <2>1 DEF AssessOne
    <2>2. CASE AssessOneFails
      <3>1. "insufficient_evidence" \in Verdicts \cup Others /\ gap' /\ statuses' = Append(statuses, "insufficient_evidence")
        BY <2>2 DEF AssessOneFails, Verdicts
      <3> QED BY <3>1
    <2> QED BY <2>1, <2>2
  <1>4. /\ controls \subseteq Found /\ left \subseteq controls /\ statuses \in Seq(Verdicts \cup Others)
        /\ request.each /\ Len(statuses) + Cardinality(left) = Cardinality(controls)
        /\ gap => Given({"insufficient_evidence"})
        /\ request.provider = "azure" => extracting = "extracted"
    BY <1>1, StepsApart DEF AgentInv
  <1>5. /\ statuses' \in Seq(Verdicts \cup Others) /\ Len(statuses') = Len(statuses) + 1 /\ Len(statuses) \in Nat
        /\ \A i \in 1..Len(statuses) : statuses'[i] = statuses[i]
        /\ DOMAIN statuses = 1..Len(statuses) /\ DOMAIN statuses' = 1..(Len(statuses) + 1)
        /\ statuses'[Len(statuses) + 1] = v
    BY <1>3, <1>4, OneAtTheEnd
  <1>6. Len(statuses') + Cardinality(left') = Cardinality(controls')
    <2>1. IsFiniteSet(left) /\ Cardinality(left) \in Nat /\ Cardinality(left') = Cardinality(left) - 1
      BY <1>1, <1>2, <1>4, FoundIsFinite, FS_RemoveElement
    <2> QED BY <1>1, <1>4, <1>5, <2>1
  <1>7. gap' => Given({"insufficient_evidence"})'
    <2>1. ASSUME gap PROVE Given({"insufficient_evidence"})'
      <3>1. PICK i \in DOMAIN statuses : statuses[i] = "insufficient_evidence"
        BY <1>4, <2>1 DEF Given
      <3>2. i \in DOMAIN statuses' /\ statuses'[i] = "insufficient_evidence"
        BY <1>5, <3>1
      <3> QED BY <3>2 DEF Given
    <2>2. ASSUME gap', ~gap PROVE Given({"insufficient_evidence"})'
      <3>2. v = "insufficient_evidence"
        BY <1>3, <2>2, Zenon
      <3>1. Len(statuses) + 1 \in DOMAIN statuses' /\ statuses'[Len(statuses) + 1] = "insufficient_evidence"
        BY <1>5, <3>2
      <3> QED BY <3>1 DEF Given
    <2> QED BY <2>1, <2>2
  <1>8. outcome' = "none"
    BY <1>1, OutcomeWaits
  <1>9. left' \subseteq controls'
    BY <1>1, <1>4
  <1> QED BY <1>1, <1>4, <1>5, <1>6, <1>7, <1>8, <1>9, StepsApart DEF AgentInv

LEMMA SumUpKeepsAgent == TrailInv /\ AgentInv /\ SumUp => AgentInv'
  <1> SUFFICES ASSUME TrailInv, AgentInv, SumUp PROVE AgentInv'
    OBVIOUS
  <1>1. /\ step = "each" /\ step' = "record assessment" /\ left = {} /\ UNCHANGED <<controls, left, statuses, gap>>
        /\ request' = request /\ extracting' = extracting /\ outcome' = outcome
        /\ assessment' = [rating  |-> IF Given({"non_compliant", "critical"}) THEN "high"
                                      ELSE IF Given({"partially_compliant", "insufficient_evidence"}) THEN "medium" ELSE "low",
                          missing |-> {i \in DOMAIN statuses : statuses[i] \in {"partially_compliant", "insufficient_evidence"}}]
    BY DEF SumUp, Goto, extractVars
  <1>2. /\ request.each /\ Len(statuses) + Cardinality(left) = Cardinality(controls) /\ outcome = "none"
        /\ gap => Given({"insufficient_evidence"})
        /\ request.provider = "azure" => extracting = "extracted"
        /\ controls \subseteq Found /\ left \subseteq controls /\ statuses \in Seq(Verdicts \cup Others)
    BY <1>1, StepsApart, OutcomeWaits DEF AgentInv
  <1>3. Len(statuses) = Cardinality(controls)
    <2>1. Cardinality(left) = 0
      BY <1>1, FS_EmptySet
    <2>3. Len(statuses) \in Nat
      BY <1>2
    <2>2. Len(statuses) + Cardinality(left) = Cardinality(controls)
      BY <1>2
    <2> QED BY <2>1, <2>2, <2>3
  <1>4. gap => assessment'.rating # "low" /\ assessment'.missing # {}
    <2> SUFFICES ASSUME gap PROVE assessment'.rating # "low" /\ assessment'.missing # {}
      OBVIOUS
    <2>1. PICK i \in DOMAIN statuses : statuses[i] = "insufficient_evidence"
      BY <1>2 DEF Given
    <2>2. Given({"partially_compliant", "insufficient_evidence"})
      BY <2>1 DEF Given
    <2>3. assessment'.rating \in {"high", "medium"}
      BY <1>1, <2>2
    <2>4. i \in assessment'.missing
      BY <1>1, <2>1
    <2> QED BY <2>3, <2>4
  <1>5. Reported'
    BY <1>1, <1>2, <1>3, <1>4 DEF Reported
  <1> QED BY <1>1, <1>2, <1>5, StepsApart DEF AgentInv, Given

LEMMA EndKeepsAgent == TrailInv /\ AgentInv /\ (RecordAssessment \/ CallRaises) => AgentInv'
  <1> SUFFICES ASSUME TrailInv, AgentInv, RecordAssessment \/ CallRaises PROVE AgentInv'
    OBVIOUS
  <1>1. CASE CallRaises
    BY <1>1, AgentStops DEF CallRaises, Stop, agentVars
  <1>2. CASE RecordAssessment
    <2>1. /\ step = "record assessment" /\ step' = "ended" /\ outcome' = "returned" /\ request' = request /\ extracting' = extracting
          /\ controls' = controls /\ left' = left /\ statuses' = statuses /\ gap' = gap /\ assessment' = assessment
      BY <1>2 DEF RecordAssessment, Stop, extractVars, agentVars
    <2>2. Reported /\ (request.provider = "azure" => extracting = "extracted")
      BY <2>1, StepsApart DEF AgentInv
    <2>3. Reported'
      BY <2>1, <2>2 DEF Reported
    <2> QED BY <2>1, <2>2, <2>3, StepsApart DEF AgentInv, Given
  <1> QED BY <1>1, <1>2

ReportInv == TrailInv /\ ExtractInv /\ AgentInv

LEMMA ReportStepKeeps == ReportInv /\ [StageNext]_stageVars => ReportInv'
  <1> SUFFICES ASSUME ReportInv, [StageNext]_stageVars PROVE ReportInv'
    OBVIOUS
  <1>1. TrailInv'
    BY StageStepKeeps DEF ReportInv
  <1>2. ExtractInv'
    <2>1. CASE Extract
      BY <2>1, ExtractNextKeeps DEF Extract, ReportInv
    <2>2. CASE UNCHANGED extractVars
      BY <2>2, ExtractStays DEF ReportInv
    <2>3. Extract \/ UNCHANGED extractVars
      BY DEF StageNext, stageVars, TakeRequest, ReceiveMessage, ResolvePage, ResolveFile, ResolveScope, Resolve, CheckAccess,
             DecideAccess, ReadPage, ReadFile, ReadResources, Read, RecordContent, FindControls, ReviewControls, FindGuidance,
             RecordCorpus, ReadableReply, InvalidReply, UnreadableReply, Whole, AssessOne, AssessOneFails, NextControl, Ask, SumUp,
             RecordAssessment, CallRaises
    <2> QED BY <2>1, <2>2, <2>3
  <1>3. AgentInv'
    <2>1. CASE UNCHANGED stageVars
      <3>1. /\ controls' = controls /\ left' = left /\ statuses' = statuses /\ gap' = gap /\ assessment' = assessment
            /\ request' = request /\ step' = step /\ outcome' = outcome /\ extracting' = extracting
        BY <2>1 DEF stageVars, agentVars, extractVars
      <3> QED BY <3>1 DEF ReportInv, AgentInv, Given, Reported
    <2>2. CASE StageNext
      BY <2>2, IntakeIsQuiet, ReadingIsQuiet, RetrievalKeepsAgent, WholeKeepsAgent, OneByOneKeepsAgent, SumUpKeepsAgent, EndKeepsAgent
      DEF StageNext, ReportInv
    <2> QED BY <2>1, <2>2
  <1> QED BY <1>1, <1>2, <1>3 DEF ReportInv

LEMMA ReportInitIsInv == StageInit => ReportInv
  <1> SUFFICES ASSUME StageInit PROVE ReportInv
    OBVIOUS
  <1>1. TrailInv
    BY StageInitIsInv
  <1>2. ExtractInv
    <2>1. request.scope \in Seq(DOMAIN Estate.assigned) /\ ExtractInitWith(request.scope)
      BY StagesAssumption DEF StageInit, StageInitWith
    <2> QED BY <2>1, ExtractBegins
  <1>3. AgentInv
    <2>1. step = "intake" /\ controls = {} /\ left = {} /\ statuses = <<>> /\ gap = FALSE /\ outcome = "none"
      BY DEF StageInit, StageInitWith
    <2>2. step \in BeforeReport /\ step \notin AfterCorpus /\ step \notin AfterExtract
      BY <2>1, StepsApart
    <2>3. controls \subseteq Found /\ left \subseteq controls /\ statuses \in Seq(Verdicts \cup Others)
      BY <2>1
    <2>4. step \notin {"whole", "again", "each", "record assessment", "ended"} /\ outcome # "returned" /\ ~gap
      BY <2>1
    <2> QED BY <2>1, <2>2, <2>3, <2>4, StepsApart DEF AgentInv
  <1> QED BY <1>1, <1>2, <1>3 DEF ReportInv

\* A report has a finding for each control, tells of the ones the model failed
\* on, and one about Azure rests on what its scope lists, of the resources the
\* first ones up to the limit, however the pages fall and whatever raises on the
\* way (assessment_runtime.py 1531-1730, azure_resource.py), unless an answer had
\* no list.
THEOREM ReportsTellOfFailures == StageSpec => []NoReportHidesFailure
  <1>1. ReportInv => NoReportHidesFailure
    BY ExtractIsWholeAtEnd DEF ReportInv, AgentInv, Reported, NoReportHidesFailure
  <1> QED BY <1>1, ReportInitIsInv, ReportStepKeeps, PTL DEF StageSpec

(***************************************************************************)
(* CommentParts: what a report becomes on the page.                        *)
(***************************************************************************)
Body == [from : Nat, to : Nat, length : 0..CommentLimit]
PartComment == [part : Nat, total : Nat, from : Nat, to : Nat, length : Nat]

\* Sections of bodies follow each other, from the first on.
Chained(bs) ==
    /\ bs # <<>> => bs[1].from = 1
    /\ \A i \in 2..Len(bs) : bs[i].from = bs[i - 1].to + 1

PartTypes ==
    /\ rendering \in Seq(Nat) /\ next \in 0..Len(rendering)
    /\ bodies \in Seq(Body) /\ answers \in 1..MaxAnswers
    /\ page \in [1..MaxAnswers -> Seq(PartComment)]
    /\ phase \in {"pack", "post", "posted", "failed"}

\* The open body goes on where the full ones end; only before the first section
\* is it empty.
Packing ==
    phase = "pack" =>
        /\ open \in Body /\ filled = open.length /\ open.to = next
        /\ bodies = <<>> => open.from = 1
        /\ bodies # <<>> => open.from = bodies[Len(bodies)].to + 1
        /\ HasSections(open) \/ (next = 0 /\ bodies = <<>>)

\* The bodies have all sections, and the comments posted so far are the first ones.
Posting ==
    phase \in {"post", "posted"} =>
        /\ bodies # <<>> /\ bodies[Len(bodies)].to = Len(rendering)
        /\ Len(page[answers]) <= Len(bodies)
        /\ \A i \in 1..Len(page[answers]) : page[answers][i] = Comment(i)
        /\ phase = "post" <=> Len(page[answers]) < Len(bodies)

PartsInv ==
    /\ PartTypes
    /\ Chained(bodies)
    /\ Packing
    /\ Posting
    /\ \A a \in 1..MaxAnswers : a > answers \/ (a = answers /\ phase = "pack") => page[a] = <<>>

LEMMA CutFits == ASSUME PartTypes, NEW i \in 1..Len(rendering) PROVE Kept(i) \in 0..CommentLimit
<1>1. rendering[i] \in Nat
  BY DEF PartTypes
<1> QED
  BY <1>1, LimitAssumption DEF Kept

LEMMA OneBodyMore ==
  ASSUME NEW bs \in Seq(Body), NEW b \in Body, Chained(bs),
         bs = <<>> => b.from = 1, bs # <<>> => b.from = bs[Len(bs)].to + 1
  PROVE  /\ Append(bs, b) \in Seq(Body) /\ Chained(Append(bs, b)) /\ Append(bs, b) # <<>>
         /\ Append(bs, b)[Len(Append(bs, b))] = b
<1>1. PICK cs : cs = Append(bs, b)
  OBVIOUS
<1>2. /\ cs \in Seq(Body) /\ Len(cs) = Len(bs) + 1 /\ Len(bs) \in Nat /\ cs[Len(bs) + 1] = b
      /\ \A i \in 1..Len(bs) : cs[i] = bs[i]
  BY <1>1
<1>3. cs[1].from = 1
  BY <1>2 DEF Chained
<1>4. ASSUME NEW i \in 2..Len(cs) PROVE cs[i].from = cs[i - 1].to + 1
  <2>1. CASE i = Len(cs)
    BY <1>2, <1>4, <2>1
  <2>2. CASE i # Len(cs)
    <3>1. i \in 2..Len(bs) /\ cs[i] = bs[i] /\ cs[i - 1] = bs[i - 1]
      BY <1>2, <1>4, <2>2
    <3> QED
      BY <3>1 DEF Chained
  <2> QED
    BY <2>1, <2>2
<1>5. cs # <<>>
  BY <1>2
<1> QED
  BY <1>1, <1>2, <1>3, <1>4, <1>5 DEF Chained

\* A report that is about to be packed.
LEMMA FreshIsInv ==
  ASSUME rendering \in Renderings, next = 0, open = EmptyBody, filled = 0, bodies = <<>>, phase = "pack",
         answers \in 1..MaxAnswers, page \in [1..MaxAnswers -> Seq(PartComment)],
         \A a \in 1..MaxAnswers : a >= answers => page[a] = <<>>
  PROVE  PartsInv
<1>1. rendering \in Seq(Nat) /\ bodies \in Seq(Body) /\ Len(rendering) \in Nat /\ Len(bodies) = 0
  BY RenderingsAssumption
<1>2. PartTypes
  BY <1>1 DEF PartTypes
<1>3. open \in Body /\ open.length = 0 /\ open.to = 0 /\ open.from = 1
  BY LimitAssumption DEF EmptyBody, Body
<1>4. Packing /\ Posting /\ Chained(bodies)
  BY <1>1, <1>3 DEF Packing, Posting, Chained
<1> QED
  BY <1>2, <1>4, AnswersAssumption DEF PartsInv

LEMMA PartsInitIsInv == PartsInit => PartsInv
<1> SUFFICES ASSUME PartsInit PROVE PartsInv
  OBVIOUS
<1>1. 1 \in 1..MaxAnswers /\ page \in [1..MaxAnswers -> Seq(PartComment)] /\ \A a \in 1..MaxAnswers : page[a] = <<>>
  BY AnswersAssumption DEF PartsInit
<1> QED
  BY <1>1, FreshIsInv DEF PartsInit

LEMMA PackKeeps == PartsInv /\ PackSection => PartsInv'
<1> SUFFICES ASSUME PartsInv, PackSection PROVE PartsInv'
  OBVIOUS
<1>1. PICK i : i = next + 1
  OBVIOUS
<1>2. /\ phase = "pack" /\ i \in 1..Len(rendering) /\ Kept(i) \in 0..CommentLimit /\ next \in Nat
      /\ open \in Body /\ filled = open.length /\ open.to = next /\ CommentLimit \in Nat
      /\ bodies = <<>> => open.from = 1
      /\ bodies # <<>> => open.from = bodies[Len(bodies)].to + 1
      /\ HasSections(open) \/ (next = 0 /\ bodies = <<>>)
  BY <1>1, CutFits, LimitAssumption DEF PartsInv, PartTypes, Packing, PackSection
<1>3. next' = i /\ UNCHANGED <<rendering, page, phase, answers>>
  BY <1>1 DEF PackSection
<1>4. SUFFICES /\ bodies' \in Seq(Body) /\ Chained(bodies') /\ open' \in Body /\ filled' = open'.length /\ open'.to = i
               /\ bodies' = <<>> => open'.from = 1
               /\ bodies' # <<>> => open'.from = bodies'[Len(bodies')].to + 1
               /\ open'.from <= open'.to
  BY <1>2, <1>3 DEF PartsInv, PartTypes, Chained, Packing, Posting, HasSections
<1>5. CASE filled + Kept(i) > CommentLimit
  <2>1. /\ open' = [from |-> i, to |-> i, length |-> Kept(i)] /\ filled' = Kept(i)
        /\ bodies' = IF HasSections(open) THEN Append(bodies, open) ELSE bodies
    BY <1>1, <1>5 DEF PackSection
  <2>2. open' \in Body /\ open'.from = i /\ open'.to = i /\ open'.length = Kept(i)
    BY <1>2, <2>1 DEF Body
  <2>3. CASE HasSections(open)
    <3>1. /\ bodies' \in Seq(Body) /\ Chained(bodies') /\ bodies' # <<>> /\ bodies'[Len(bodies')] = open
      BY <1>2, <2>1, <2>3, OneBodyMore DEF PartsInv, PartTypes
    <3> QED
      BY <1>1, <1>2, <2>1, <2>2, <3>1
  <2>4. CASE ~HasSections(open)
    BY <1>1, <1>2, <2>1, <2>2, <2>4 DEF PartsInv, PartTypes
  <2> QED
    BY <2>3, <2>4
<1>6. CASE ~(filled + Kept(i) > CommentLimit)
  <2>1. open' = Extended(open, i, Kept(i)) /\ filled' = filled + Kept(i) /\ UNCHANGED bodies
    BY <1>1, <1>6 DEF PackSection
  <2>2. open' \in Body /\ open'.from = open.from /\ open'.to = i /\ open'.length = open.length + Kept(i)
    BY <1>2, <1>6, <2>1 DEF Body, Extended
  <2>3. open.from <= i
    BY <1>1, <1>2 DEF HasSections, Body
  <2> QED
    BY <1>2, <2>1, <2>2, <2>3 DEF PartsInv, PartTypes
<1> QED
  BY <1>5, <1>6

LEMMA FinishKeeps == PartsInv /\ FinishPacking => PartsInv'
<1> SUFFICES ASSUME PartsInv, FinishPacking PROVE PartsInv'
  OBVIOUS
<1>1. /\ phase = "pack" /\ phase' = "post" /\ UNCHANGED <<rendering, next, page, answers>> /\ next = Len(rendering)
      /\ bodies' = IF HasSections(open) \/ bodies = <<>> THEN Append(bodies, open) ELSE bodies
      /\ answers \in 1..MaxAnswers /\ page[answers] = <<>>
  BY DEF FinishPacking, PartsInv, PartTypes
<1>2. bodies' = Append(bodies, open)
  BY <1>1 DEF PartsInv, Packing
<1>3. /\ bodies' \in Seq(Body) /\ Chained(bodies') /\ bodies' # <<>> /\ bodies'[Len(bodies')].to = Len(rendering)
  BY <1>1, <1>2, OneBodyMore DEF PartsInv, PartTypes, Packing
<1>4. Len(bodies') \in Nat /\ Len(bodies') > 0 /\ Len(page[answers]) = 0
  BY <1>1, <1>3
<1>5. Posting'
  BY <1>1, <1>3, <1>4 DEF Posting
<1> QED
  BY <1>1, <1>3, <1>5 DEF PartsInv, PartTypes, Chained, Packing

LEMMA PostKeeps == PartsInv /\ PostPart => PartsInv'
<1> SUFFICES ASSUME PartsInv, PostPart PROVE PartsInv'
  OBVIOUS
<1>1. PICK its : its = page[answers]
  OBVIOUS
<1>2. PICK part : part = Len(its) + 1
  OBVIOUS
<1>3. /\ its \in Seq(PartComment) /\ Len(its) \in Nat /\ answers \in 1..MaxAnswers /\ part \in 1..Len(bodies) /\ phase = "post"
      /\ bodies \in Seq(Body) /\ Len(bodies) \in Nat /\ \A i \in 1..Len(its) : its[i] = Comment(i)
  BY <1>1, <1>2 DEF PartsInv, PartTypes, Posting, PostPart
<1>4. /\ page' = [page EXCEPT ![answers] = Append(its, Comment(part))]
      /\ phase' = (IF part = Len(bodies) THEN "posted" ELSE "post")
      /\ UNCHANGED <<rendering, next, open, filled, bodies, answers>>
  BY <1>1, <1>2 DEF PostPart
<1>5. Comment(part) \in PartComment
  <2>1. bodies[part].from \in Nat /\ bodies[part].to \in Nat /\ bodies[part].length \in Nat
    <3>1. bodies[part] \in Body
      BY <1>3
    <3> QED
      BY <3>1, LimitAssumption DEF Body
  <2>2. (IF Len(bodies) = 1 THEN 0 ELSE PartHeader) + bodies[part].length \in Nat
    BY <2>1, LimitAssumption
  <2> QED
    BY <1>3, <2>1, <2>2 DEF Comment, PartComment
<1>6. PICK new : new = Append(its, Comment(part))
  OBVIOUS
<1>7. /\ new \in Seq(PartComment) /\ Len(new) = part
      /\ \A i \in 1..Len(new) : new[i] = Comment(i)
  BY <1>2, <1>3, <1>5, <1>6
<1>8. /\ page' \in [1..MaxAnswers -> Seq(PartComment)] /\ page'[answers] = new
      /\ \A a \in 1..MaxAnswers : a # answers => page'[a] = page[a]
  BY <1>3, <1>4, <1>6, <1>7 DEF PartsInv, PartTypes
<1>9. \A i : Comment(i)' = Comment(i)
  BY <1>4 DEF Comment
<1>10. Posting'
  BY <1>3, <1>4, <1>7, <1>8, <1>9 DEF PartsInv, Posting
<1> QED
  BY <1>3, <1>4, <1>8, <1>10 DEF PartsInv, PartTypes, Chained, Packing

LEMMA PartsOthersKeep == PartsInv /\ (PostFails \/ AnswerAgain \/ UNCHANGED partVars) => PartsInv'
<1>1. ASSUME PartsInv, PostFails PROVE PartsInv'
  BY <1>1 DEF PostFails, PartsInv, PartTypes, Chained, Packing, Posting
<1>2. ASSUME PartsInv, AnswerAgain PROVE PartsInv'
  <2>1. /\ rendering' \in Renderings /\ next' = 0 /\ open' = EmptyBody /\ filled' = 0 /\ bodies' = <<>> /\ phase' = "pack"
        /\ answers' = answers + 1 /\ page' = page /\ answers < MaxAnswers
    BY <1>2 DEF AnswerAgain
  <2>2. /\ answers' \in 1..MaxAnswers /\ page' \in [1..MaxAnswers -> Seq(PartComment)]
        /\ \A a \in 1..MaxAnswers : a >= answers' => page'[a] = <<>>
    BY <1>2, <2>1, AnswersAssumption DEF PartsInv, PartTypes
  <2>3. rendering' \in Seq(Nat) /\ bodies' \in Seq(Body) /\ Len(rendering') \in Nat /\ Len(bodies') = 0
    BY <2>1, RenderingsAssumption
  <2>4. PartTypes'
    BY <2>1, <2>2, <2>3 DEF PartTypes
  <2>5. open' \in Body /\ open'.length = 0 /\ open'.to = 0 /\ open'.from = 1
    BY <2>1, LimitAssumption DEF EmptyBody, Body
  <2>6. Packing' /\ Posting' /\ Chained(bodies)'
    BY <2>1, <2>3, <2>5 DEF Packing, Posting, Chained
  <2> QED
    BY <2>1, <2>2, <2>4, <2>6, AnswersAssumption DEF PartsInv
<1>3. ASSUME PartsInv, UNCHANGED partVars PROVE PartsInv'
  BY <1>3 DEF partVars, PartsInv, PartTypes, Chained, Packing, Posting, Comment, HasSections
<1> QED
  BY <1>1, <1>2, <1>3

LEMMA PartsInvImplies == PartsInv => PartsAreTheReport
<1> SUFFICES ASSUME PartsInv, phase = "posted" PROVE PartsAreTheReport
  BY DEF PartsAreTheReport
<1>1. PICK its : its = page[answers]
  OBVIOUS
<1>2. /\ its \in Seq(PartComment) /\ Len(its) = Len(bodies) /\ bodies # <<>> /\ bodies \in Seq(Body) /\ Chained(bodies)
      /\ bodies[Len(bodies)].to = Len(rendering) /\ \A i \in 1..Len(its) : its[i] = Comment(i)
  BY <1>1 DEF PartsInv, PartTypes, Posting
<1>3. Len(bodies) \in Nat /\ Len(bodies) > 0 /\ its # <<>> /\ DOMAIN its = 1..Len(bodies)
  BY <1>2
<1>4. ASSUME NEW i \in 1..Len(bodies)
      PROVE  /\ its[i].part = i /\ its[i].total = Len(bodies) /\ its[i].from = bodies[i].from /\ its[i].to = bodies[i].to
             /\ bodies[i].length <= CommentLimit /\ (Len(its) = 1 => its[i].length <= CommentLimit)
  <2>1. its[i] = Comment(i) /\ bodies[i] \in Body
    BY <1>2, <1>4
  <2> QED
    BY <1>2, <2>1, LimitAssumption DEF Comment, Body
<1>5. \A i \in 2..Len(its) : its[i].from = its[i - 1].to + 1
  <2> SUFFICES ASSUME NEW i \in 2..Len(its) PROVE its[i].from = its[i - 1].to + 1
    OBVIOUS
  <2>1. i \in 1..Len(bodies) /\ i - 1 \in 1..Len(bodies)
    BY <1>2, <1>3
  <2> QED
    BY <1>2, <1>4, <2>1 DEF Chained
<1>6. its[1].from = 1 /\ its[Len(its)].to = Len(rendering)
  BY <1>2, <1>3, <1>4 DEF Chained
<1> QED
  BY <1>1, <1>2, <1>3, <1>4, <1>5, <1>6 DEF PartsAreTheReport

\* For reports of any sections, whatever the limit and however often posting
\* failed before: the comments of an answer that is posted are its report, in
\* order, each packed within the limit; the line "comment i of n" comes on top
\* (_pack_comment_bodies, _post_assessment_comments).
THEOREM CommentsAreTheReport == PartsSpec => []PartsAreTheReport
<1>1. PartsInv /\ [PartsNext]_partVars => PartsInv'
  BY PackKeeps, FinishKeeps, PostKeeps, PartsOthersKeep DEF PartsNext
<1> QED
  BY <1>1, PartsInitIsInv, PartsInvImplies, PTL DEF PartsSpec
=============================================================================
