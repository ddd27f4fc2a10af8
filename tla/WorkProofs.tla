----------------------------- MODULE WorkProofs -----------------------------
(***************************************************************************)
(* What is proved of the parts that work in the background or on their own *)
(* data: report jobs (ReportJobs), the frameworks (LocalControls) and the  *)
(* documents (LocalCorpus) of a local installation, uploaded frameworks    *)
(* (ControlsSources) and the grounding job (GroundingJobAws) on AWS, and   *)
(* the documents of Azure (CorpusIndexing).                                *)
(***************************************************************************)
EXTENDS ReportJobs, LocalControls, LocalCorpus, ControlsSources, GroundingJobAws, CorpusIndexing, SequenceTheorems, TLAPS

\* A sequence with one more at its end.
LEMMA OneMore ==
  ASSUME NEW S, NEW s \in Seq(S), NEW x \in S
  PROVE  /\ Append(s, x) \in Seq(S) /\ Len(Append(s, x)) = Len(s) + 1 /\ Len(s) \in Nat
         /\ \A i \in 1..Len(s) : Append(s, x)[i] = s[i]
         /\ Append(s, x)[Len(s) + 1] = x
  OBVIOUS

(***************************************************************************)
(* LocalControls: memory against what requests have reported.              *)
(***************************************************************************)
Edition == Editions \cup {NoEdition, CHOOSE e \in Editions : TRUE}
Tasks == [stage : {"idle", "parse", "existing", "load"}, todo : SUBSET LocalFrameworks, replace : BOOLEAN, dry : BOOLEAN,
          existing : {<<>>} \cup [LocalFrameworks -> Seq(Edition)]]

LocalTypes ==
    /\ onDisk \in [LocalFrameworks -> Edition]
    /\ parsed \in [LocalFrameworks -> Edition]
    /\ agreed \in [LocalFrameworks -> Edition]
    /\ inMemory \in [LocalFrameworks -> Seq(Edition)]
    /\ threads \in [Threads -> Tasks]
    /\ overlapped \in BOOLEAN

\* A thread past the parsing has a framework in hand, and its file has an
\* edition; one that loads has taken what there is.
InHand(r) ==
    /\ threads[r].stage \in {"existing", "load"} => threads[r].todo # {} /\ parsed[Current(r)] # NoEdition
    /\ threads[r].stage = "load" => threads[r].existing \in [LocalFrameworks -> Seq(Edition)]

\* What a thread that works alone knows of memory: without replacing it has
\* only frameworks to do that are not there, and what it took of memory is
\* memory still, without the framework it loads.
Knows(r) ==
    /\ Working(r) /\ ~threads[r].replace => \A f \in threads[r].todo : inMemory[f] = <<>>
    /\ threads[r].stage = "load" => threads[r].existing = [inMemory EXCEPT ![Current(r)] = <<>>]

LocalControlsInv ==
    /\ LocalTypes
    /\ \A r \in Threads : InHand(r)
    /\ ~overlapped =>
           /\ \A q, r \in Threads : Working(q) /\ Working(r) => q = r
           /\ \A r \in Threads : Knows(r)
           /\ MemoryIsAsReported

LEMMA LoadingTypes == \A e \in Edition : Loading(e) \in Seq(Edition)
  BY DEF Loading

LEMMA FromFilesTypes == LocalTypes => /\ FromFiles \in [LocalFrameworks -> Seq(Edition)]
                                      /\ \A f \in LocalFrameworks : FromFiles[f] = Loading(parsed[f])
  BY LoadingTypes DEF LocalTypes, FromFiles

LEMMA LocalInitIsInv == LocalControlsInit => LocalControlsInv
<1>1. SUFFICES ASSUME LocalControlsInit PROVE LocalControlsInv
  OBVIOUS
<1>2. onDisk \in [LocalFrameworks -> Edition] /\ parsed \in [LocalFrameworks -> Edition] /\ agreed = parsed
  BY <1>1 DEF LocalControlsInit, Edition
<1>3. \A r \in Threads : threads[r] = IdleThread
  BY <1>1 DEF LocalControlsInit
<1>4. inMemory \in [LocalFrameworks -> Seq(Edition)] /\ \A f \in LocalFrameworks : inMemory[f] = Loading(parsed[f])
  BY <1>1, <1>2, LoadingTypes DEF LocalControlsInit, FromFiles
<1>5. LocalTypes
  BY <1>1, <1>2, <1>4 DEF LocalTypes, LocalControlsInit, IdleThread, Tasks
<1>6. \A r \in Threads : ~Working(r) /\ InHand(r) /\ Knows(r)
  BY <1>3 DEF Working, InHand, Knows, IdleThread
<1> QED
  BY <1>2, <1>4, <1>5, <1>6 DEF LocalControlsInv, MemoryIsAsReported

\* A thread that goes to the next framework has nothing in hand, and what it
\* is still to do is not more than before.
LEMMA DroppedThread ==
  ASSUME LocalTypes, NEW r \in Threads
  PROVE  /\ Drop(r) \in [Threads -> Tasks]
         /\ Drop(r)[r].stage = "parse" /\ Drop(r)[r].todo \subseteq threads[r].todo \ {Current(r)}
         /\ Drop(r)[r].replace = threads[r].replace
         /\ \A q \in Threads : q # r => Drop(r)[q] = threads[q]
  BY DEF LocalTypes, Drop, Tasks

\* An upload changes only what is in the source directory.
LEMMA StageKeepsLocal ==
  ASSUME LocalControlsInv, StageLocally
  PROVE  LocalControlsInv'
<1>1. LocalTypes'
  BY DEF LocalControlsInv, LocalTypes, StageLocally, Edition
<1>2. UNCHANGED <<parsed, inMemory, threads, agreed, overlapped>>
  BY DEF StageLocally
<1>3. \A r \in Threads : Working(r)' = Working(r) /\ InHand(r)' = InHand(r) /\ Knows(r)' = Knows(r)
  BY <1>2 DEF InHand, Knows, Working, Current
<1>4. MemoryIsAsReported' = MemoryIsAsReported
  BY <1>2 DEF MemoryIsAsReported
<1> QED
  BY <1>1, <1>2, <1>3, <1>4 DEF LocalControlsInv

\* A start has every framework in memory that has a file, and no request.
LEMMA StartKeepsLocal ==
  ASSUME LocalControlsInv, StartAgain
  PROVE  LocalControlsInv'
<1>1. LocalTypes'
  BY FromFilesTypes DEF LocalControlsInv, LocalTypes, StartAgain, IdleThread, Tasks
<1>2. \A r \in Threads : threads'[r] = IdleThread
  BY DEF StartAgain
<1>3. \A r \in Threads : (~Working(r) /\ InHand(r) /\ Knows(r))'
  BY <1>2 DEF Working, InHand, Knows, IdleThread
<1>4. MemoryIsAsReported'
  BY FromFilesTypes DEF LocalControlsInv, LocalTypes, StartAgain, MemoryIsAsReported
<1> QED
  BY <1>1, <1>3, <1>4 DEF LocalControlsInv

\* Clearing beside a request is an overlap; alone it takes the framework out of
\* memory and out of what was reported.
LEMMA ClearKeepsLocal ==
  ASSUME LocalControlsInv, ClearLocally
  PROVE  LocalControlsInv'
<1>1. LocalTypes'
  BY DEF LocalControlsInv, LocalTypes, ClearLocally, Edition
<1>2. UNCHANGED <<parsed, threads>> /\ (~overlapped' => ~overlapped /\ \A r \in Threads : ~Working(r))
  BY DEF ClearLocally, Quiet, LocalControlsInv, LocalTypes
<1>3. \A r \in Threads : InHand(r)'
  BY <1>2 DEF LocalControlsInv, InHand, Current
<1>4. ASSUME ~overlapped' PROVE \A r \in Threads : ~Working(r)' /\ Knows(r)'
  BY <1>2, <1>4 DEF Working, Knows
<1>5. ASSUME ~overlapped' PROVE MemoryIsAsReported'
  BY <1>2, <1>5 DEF LocalControlsInv, LocalTypes, ClearLocally, MemoryIsAsReported, Loading
<1> QED
  BY <1>1, <1>3, <1>4, <1>5 DEF LocalControlsInv

\* A request that starts beside another is an overlap; one that starts alone
\* and does not replace leaves out what is in memory.
LEMMA IngestKeepsLocal ==
  ASSUME LocalControlsInv, NEW r \in Threads, StartLocalIngest(r)
  PROVE  LocalControlsInv'
<1>1. PICK chosen \in SUBSET LocalFrameworks, replace \in BOOLEAN, dry \in BOOLEAN :
          threads' = [threads EXCEPT ![r] = [stage |-> "parse", todo |-> Pending(chosen, replace),
                                             replace |-> replace, dry |-> dry, existing |-> <<>>]]
  BY DEF StartLocalIngest
<1>2. UNCHANGED <<onDisk, parsed, inMemory, agreed>> /\ overlapped' = (overlapped \/ ~Quiet)
  BY DEF StartLocalIngest
<1>3. Pending(chosen, replace) \subseteq LocalFrameworks
      /\ (~replace => \A f \in Pending(chosen, replace) : inMemory[f] = <<>>)
  BY DEF Pending
<1>4. LocalTypes'
  BY <1>1, <1>2, <1>3 DEF LocalControlsInv, LocalTypes, Tasks
<1>5. /\ threads'[r].stage = "parse" /\ threads'[r].todo = Pending(chosen, replace) /\ threads'[r].replace = replace
      /\ \A q \in Threads : q # r => threads'[q] = threads[q]
  BY <1>1 DEF LocalControlsInv, LocalTypes
<1>6. \A q \in Threads : InHand(q)'
  BY <1>2, <1>5 DEF LocalControlsInv, InHand, Current
<1>7. ASSUME ~overlapped' PROVE \A q \in Threads : q # r => ~Working(q)'
  BY <1>2, <1>5, <1>7 DEF Quiet, Working, LocalControlsInv, LocalTypes
<1>8. ASSUME ~overlapped' PROVE \A q \in Threads : Knows(q)'
  BY <1>2, <1>3, <1>5, <1>7, <1>8 DEF Working, Knows
<1>9. ASSUME ~overlapped' PROVE MemoryIsAsReported'
  BY <1>2, <1>9 DEF LocalControlsInv, LocalTypes, MemoryIsAsReported
<1> QED
  BY <1>4, <1>6, <1>7, <1>8, <1>9 DEF LocalControlsInv

\* What a step of one thread does not touch.
LEMMA OtherThreads ==
  ASSUME LocalControlsInv, NEW r \in Threads, UNCHANGED <<inMemory, overlapped>>,
         \A q \in Threads : q # r => threads'[q] = threads[q],
         Working(r)' => Working(r),
         InHand(r)',
         \A f \in LocalFrameworks : parsed[f] # NoEdition => parsed'[f] # NoEdition,
         ~overlapped => Knows(r)', UNCHANGED agreed, LocalTypes'
  PROVE  LocalControlsInv'
<1>1. \A q \in Threads : q # r => Working(q)' = Working(q) /\ Current(q)' = Current(q) /\ Knows(q)' = Knows(q)
  BY DEF Working, Current, Knows
<1>2. \A q \in Threads : threads[q].todo # {} => Current(q) \in LocalFrameworks
  BY DEF LocalControlsInv, LocalTypes, Tasks, Current
<1>3. \A q \in Threads : InHand(q)'
  BY <1>1, <1>2 DEF LocalControlsInv, InHand
<1>4. ASSUME ~overlapped PROVE /\ \A q, s \in Threads : Working(q)' /\ Working(s)' => q = s
                               /\ \A q \in Threads : Knows(q)'
  BY <1>1, <1>4 DEF LocalControlsInv
<1>5. MemoryIsAsReported' = MemoryIsAsReported
  BY DEF MemoryIsAsReported
<1> QED
  BY <1>3, <1>4, <1>5 DEF LocalControlsInv

\* Parsing writes the file of the framework that is next.
LEMMA ParseKeepsLocal ==
  ASSUME LocalControlsInv, NEW r \in Threads, ParseLocally(r)
  PROVE  LocalControlsInv'
<1>1. LocalTypes /\ threads[r].stage = "parse" /\ threads[r].todo # {} /\ Current(r) \in LocalFrameworks
  BY DEF ParseLocally, LocalControlsInv, LocalTypes, Tasks, Current
<1>2. onDisk[Current(r)] # NoEdition /\ parsed' = [parsed EXCEPT ![Current(r)] = onDisk[Current(r)]]
      /\ UNCHANGED <<onDisk, inMemory, agreed, overlapped>>
  BY DEF ParseLocally
<1>3. \/ threads' = Drop(r)
      \/ threads' = [threads EXCEPT ![r].stage = "existing"]
  BY DEF ParseLocally
<1>4. /\ threads' \in [Threads -> Tasks] /\ \A q \in Threads : q # r => threads'[q] = threads[q]
      /\ threads'[r].stage \in {"parse", "existing"} /\ threads'[r].todo \subseteq threads[r].todo
      /\ threads'[r].replace = threads[r].replace
      /\ threads'[r].stage = "existing" => threads'[r].todo = threads[r].todo
  <2>1. CASE threads' = Drop(r)
    BY <1>1, <2>1, DroppedThread
  <2>2. CASE threads' = [threads EXCEPT ![r].stage = "existing"]
    BY <1>1, <2>2 DEF LocalTypes, Tasks
  <2> QED
    BY <1>3, <2>1, <2>2
<1>5. LocalTypes'
  BY <1>1, <1>2, <1>4 DEF LocalTypes
<1>6. InHand(r)'
  BY <1>1, <1>2, <1>4 DEF Current, LocalTypes, InHand
<1>7. \A f \in LocalFrameworks : parsed[f] # NoEdition => parsed'[f] # NoEdition
  BY <1>1, <1>2 DEF LocalTypes
<1>8. Working(r)
  BY <1>1 DEF Working
<1>9. ~overlapped => Knows(r)'
  BY <1>2, <1>4, <1>8 DEF LocalControlsInv, Knows
<1> QED
  BY <1>2, <1>4, <1>5, <1>6, <1>7, <1>8, <1>9, OtherThreads

LEMMA FailKeepsLocal ==
  ASSUME LocalControlsInv, NEW r \in Threads, ParseFails(r)
  PROVE  LocalControlsInv'
<1>1. LocalTypes /\ threads' = Drop(r) /\ UNCHANGED <<onDisk, parsed, inMemory, agreed, overlapped>>
  BY DEF ParseFails, LocalControlsInv
<1>2. LocalTypes'
  BY <1>1, DroppedThread DEF LocalTypes
<1>3. Working(r)
  BY DEF ParseFails, Working
<1>4. ~overlapped => Knows(r)'
  BY <1>1, <1>3, DroppedThread DEF LocalControlsInv, Knows
<1>5. InHand(r)'
  BY <1>1, DroppedThread DEF InHand
<1> QED
  BY <1>1, <1>2, <1>3, <1>4, <1>5, DroppedThread, OtherThreads

LEMMA TakeKeepsLocal ==
  ASSUME LocalControlsInv, NEW r \in Threads, TakeExisting(r)
  PROVE  LocalControlsInv'
<1>1. LocalTypes /\ threads[r].stage = "existing" /\ UNCHANGED <<onDisk, parsed, inMemory, agreed, overlapped>>
  BY DEF TakeExisting, LocalControlsInv
<1>2. threads[r].todo # {} /\ Current(r) \in threads[r].todo /\ Current(r) \in LocalFrameworks /\ parsed[Current(r)] # NoEdition
  BY <1>1 DEF LocalControlsInv, InHand, LocalTypes, Tasks, Current
<1> DEFINE taken == [inMemory EXCEPT ![Current(r)] = IF threads[r].replace THEN <<>> ELSE @]
<1>3. threads' = [threads EXCEPT ![r].stage = "load", ![r].existing = taken]
  BY DEF TakeExisting
<1>4. taken \in [LocalFrameworks -> Seq(Edition)]
  BY <1>1, <1>2 DEF LocalTypes
<1> HIDE DEF taken
<1>5. /\ threads' \in [Threads -> Tasks] /\ \A q \in Threads : q # r => threads'[q] = threads[q]
      /\ threads'[r].stage = "load" /\ threads'[r].existing = taken
      /\ threads'[r].todo = threads[r].todo /\ threads'[r].replace = threads[r].replace
  BY <1>1, <1>3, <1>4 DEF LocalTypes, Tasks
<1>6. LocalTypes'
  BY <1>1, <1>5 DEF LocalTypes
<1>7. Working(r) /\ Current(r)' = Current(r)
  BY <1>1, <1>5 DEF Working, Current
<1>8. ~overlapped => taken = [inMemory EXCEPT ![Current(r)] = <<>>]
  BY <1>1, <1>2, <1>7 DEF taken, LocalControlsInv, Knows, LocalTypes
<1>9. ~overlapped => Knows(r)'
  BY <1>1, <1>5, <1>7, <1>8 DEF LocalControlsInv, Knows
<1>10. InHand(r)'
  BY <1>1, <1>2, <1>4, <1>5, <1>7 DEF InHand
<1> QED
  BY <1>1, <1>2, <1>5, <1>6, <1>7, <1>9, <1>10, OtherThreads

\* Memory is what it was, with the framework once in the edition of its file;
\* what the thread has still to do is as it was.
LEMMA LoadKeepsLocal ==
  ASSUME LocalControlsInv, NEW r \in Threads, LoadLocally(r)
  PROVE  LocalControlsInv'
<1> DEFINE f == Current(r)
<1>1. LocalTypes /\ threads[r].stage = "load" /\ threads' = Drop(r) /\ UNCHANGED <<onDisk, parsed, overlapped>>
      /\ agreed' = [agreed EXCEPT ![f] = parsed[f]]
      /\ inMemory' = [threads[r].existing EXCEPT ![f] = Append(@, parsed[f])]
  BY DEF LoadLocally, LocalControlsInv
<1>2. threads[r].todo # {} /\ f \in threads[r].todo /\ f \in LocalFrameworks /\ parsed[f] # NoEdition /\ parsed[f] \in Edition
  BY <1>1 DEF LocalControlsInv, InHand, LocalTypes, Tasks, Current
<1>3. Working(r) /\ threads[r].existing \in [LocalFrameworks -> Seq(Edition)]
  BY <1>1 DEF Working, LocalControlsInv, InHand
<1> HIDE DEF f
<1>4. inMemory' \in [LocalFrameworks -> Seq(Edition)] /\ agreed' \in [LocalFrameworks -> Edition]
  BY <1>1, <1>2, <1>3 DEF LocalTypes
<1>5. LocalTypes'
  BY <1>1, <1>4, DroppedThread DEF LocalTypes
<1>6. \A q \in Threads : InHand(q)'
  <2>1. InHand(r)'
    BY <1>1, DroppedThread DEF InHand
  <2>2. \A q \in Threads : q # r => threads'[q] = threads[q]
    BY <1>1, DroppedThread
  <2>3. \A q \in Threads : q # r => InHand(q)' = InHand(q)
    BY <1>1, <2>2 DEF InHand, Current
  <2> QED
    BY <2>1, <2>3 DEF LocalControlsInv
<1>7. ASSUME ~overlapped PROVE /\ inMemory' = [inMemory EXCEPT ![f] = <<parsed[f]>>]
                               /\ \A q \in Threads : Working(q) => q = r
                               /\ Knows(r) /\ MemoryIsAsReported
  <2>1. /\ \A q \in Threads : Working(q) => q = r
        /\ Knows(r) /\ MemoryIsAsReported
    BY <1>3, <1>7 DEF LocalControlsInv
  <2>2. threads[r].existing = [inMemory EXCEPT ![f] = <<>>]
    BY <1>1, <2>1 DEF Knows, f
  <2>3. inMemory' = [inMemory EXCEPT ![f] = Append(<<>>, parsed[f])]
    BY <1>1, <1>2, <2>2 DEF LocalTypes
  <2>4. Append(<<>>, parsed[f]) = <<parsed[f]>>
    BY <1>2
  <2> QED
    BY <2>1, <2>3, <2>4
<1>8. ASSUME ~overlapped PROVE \A q \in Threads : q # r => ~Working(q)'
  BY <1>1, <1>7, <1>8, DroppedThread DEF Working
<1>9. ASSUME ~overlapped PROVE \A q \in Threads : Knows(q)'
  <2>1. Knows(r)'
    <3>1. /\ threads'[r].stage = "parse" /\ threads'[r].todo \subseteq threads[r].todo \ {f}
          /\ threads'[r].replace = threads[r].replace
      BY <1>1, DroppedThread DEF f
    <3>2. \A g \in LocalFrameworks : g # f => inMemory'[g] = inMemory[g]
      BY <1>1, <1>7, <1>9 DEF LocalTypes
    <3>3. threads[r].todo \subseteq LocalFrameworks
      BY <1>1 DEF LocalTypes, Tasks
    <3> QED
      BY <1>3, <1>7, <1>9, <3>1, <3>2, <3>3 DEF Knows
  <2> QED
    BY <1>8, <1>9, <2>1 DEF Knows, Working
<1>10. ASSUME ~overlapped PROVE MemoryIsAsReported'
  BY <1>1, <1>2, <1>7, <1>10 DEF LocalTypes, MemoryIsAsReported, Loading
<1> QED
  BY <1>1, <1>5, <1>6, <1>8, <1>9, <1>10 DEF LocalControlsInv

LEMMA AnswerKeepsLocal ==
  ASSUME LocalControlsInv, NEW r \in Threads, AnswerLocally(r)
  PROVE  LocalControlsInv'
<1>1. LocalTypes /\ threads' = [threads EXCEPT ![r] = IdleThread] /\ UNCHANGED <<onDisk, parsed, inMemory, agreed, overlapped>>
  BY DEF AnswerLocally, LocalControlsInv
<1>2. threads' \in [Threads -> Tasks] /\ threads'[r] = IdleThread /\ \A q \in Threads : q # r => threads'[q] = threads[q]
  BY <1>1 DEF LocalTypes, Tasks, IdleThread
<1>3. LocalTypes'
  BY <1>1, <1>2 DEF LocalTypes
<1>4. ~Working(r)' /\ InHand(r)' /\ Knows(r)'
  BY <1>2 DEF Working, InHand, Knows, IdleThread
<1> QED
  BY <1>1, <1>2, <1>3, <1>4, OtherThreads

LEMMA LocalStepKeeps == LocalControlsInv /\ [LocalControlsNext]_localControlVars => LocalControlsInv'
<1>1. ASSUME LocalControlsInv, UNCHANGED localControlVars PROVE LocalControlsInv'
  <2>1. UNCHANGED <<onDisk, parsed, inMemory, threads, agreed, overlapped>>
    BY <1>1 DEF localControlVars
  <2>2. \A r \in Threads : Working(r)' = Working(r) /\ InHand(r)' = InHand(r) /\ Knows(r)' = Knows(r)
    BY <2>1 DEF InHand, Knows, Working, Current
  <2> QED
    BY <1>1, <2>1, <2>2 DEF LocalControlsInv, LocalTypes, MemoryIsAsReported
<1> QED
  BY <1>1, StageKeepsLocal, ClearKeepsLocal, StartKeepsLocal, IngestKeepsLocal, ParseKeepsLocal, FailKeepsLocal,
     TakeKeepsLocal, LoadKeepsLocal, AnswerKeepsLocal DEF LocalControlsNext

\* Memory of a local installation has, while requests do not overlap, every
\* framework as it was last reported (corpus_a_ingest, clear_corpus_a): with any
\* frameworks, editions and threads, for requests that replace and that do not.
THEOREM LocalMemoryIsAsReported == LocalControlsSpec => []MemoryIsAsReported
<1>1. LocalControlsInv => MemoryIsAsReported
  BY DEF LocalControlsInv, MemoryIsAsReported
<1> QED
  BY <1>1, LocalInitIsInv, LocalStepKeeps, PTL DEF LocalControlsSpec

(***************************************************************************)
(* ReportJobs: what a report says of the assessments it was made of.       *)
(***************************************************************************)
ControlsThereAre == {ReportControls[i] : i \in DOMAIN ReportControls}
SomeControls == Seq(ControlsThereAre)
Given == Statuses \cup {Unreadable}
Before == {"preflight", "start", "wrap", "collect"}
Orders == [kind : Kinds, strategy : {"per_control", "single_pass"}, validation : {"hard", "soft"}, now : BOOLEAN]

\* Nothing has failed before the controls are assessed, a failure at one of
\* them is among the findings, and there is no report until all are done.
ReportInv ==
    /\ order \in Orders /\ todo \in SomeControls /\ findings \in Seq(Given)
    /\ total \in Nat
    /\ stage \in Before \cup {"assess", "single", "complete", "fail", "set result", "set error", "ended"}
    /\ stage \in Before => findings = <<>>
    /\ stage \in Before \cup {"single"} => ~failed
    /\ stage \in Before \cup {"single", "assess"} => report = NoReport
    /\ stage = "assess" => /\ Len(findings) + Len(todo) = total
                           /\ failed => In(findings, {"insufficient_evidence"})
    /\ stage = "single" => order.strategy = "single_pass" \/ (order.kind # "azure" /\ total = 0)
    /\ FailureIsNoCompliance /\ EveryControlIsAssessed

LEMMA ReportInitIsInv == ReportInit => ReportInv
  BY DEF ReportInit, ReportInv, Orders, SomeControls, Before, FailureIsNoCompliance, EveryControlIsAssessed

\* What the two properties are about is the same after most steps.
LEMMA SameReport ==
  ASSUME ReportInv, UNCHANGED <<order, total, failed, report>>
  PROVE  FailureIsNoCompliance' /\ EveryControlIsAssessed'
  BY DEF ReportInv, FailureIsNoCompliance, EveryControlIsAssessed, In, RatedByModel

\* Starting, waiting and answering go on with what there is.
LEMMA JobGoesOn ==
  ASSUME ReportInv, UNCHANGED <<order, todo, total, findings, failed, report>>,
         \/ stage' = stage
         \/ stage \in Before /\ stage' \in Before \cup {"fail"}
         \/ stage' \in {"fail", "set result", "set error", "ended"}
  PROVE  ReportInv'
<1>1. FailureIsNoCompliance' /\ EveryControlIsAssessed'
  BY SameReport
<1> QED
  BY <1>1 DEF ReportInv, Before, In

LEMMA QuietJobSteps ==
  ASSUME ReportInv,
         \/ StartComplianceReport \/ StartAzureReport \/ StartAwsReport \/ RefuseReport \/ GenerateNow \/ AnswerNow
         \/ RunJob \/ (\E scoped \in BOOLEAN : WrapAwsReport(scoped)) \/ GenerationRaises \/ SetState \/ SetRest
         \/ Browser \/ RestartJobs
  PROVE  ReportInv'
<1>1. CASE StartComplianceReport \/ StartAzureReport \/ StartAwsReport
  BY <1>1, JobGoesOn DEF StartComplianceReport, StartAzureReport, StartAwsReport, NewReportJob, Before
<1>2. CASE RefuseReport \/ GenerateNow \/ RunJob \/ \E scoped \in BOOLEAN : WrapAwsReport(scoped)
  BY <1>2, JobGoesOn DEF RefuseReport, GenerateNow, RunJob, WrapAwsReport, Before
<1>3. CASE AnswerNow \/ GenerationRaises \/ SetState \/ SetRest \/ RestartJobs
  BY <1>3, JobGoesOn DEF AnswerNow, GenerationRaises, JobFails, SetState, SetRest, RestartJobs
<1>4. CASE Browser
  BY <1>4, JobGoesOn DEF Browser, Poll, ReadField, workerVars
<1> QED
  BY <1>1, <1>2, <1>3, <1>4

\* The controls are what was found, all of them still to be assessed.
LEMMA CollectKeeps ==
  ASSUME ReportInv, NEW n \in 0..Len(ReportControls),
         CollectControls(SubSeq(ReportControls, 1, n)) \/ CollectAzure(SubSeq(ReportControls, 1, n))
  PROVE  ReportInv'
<1> DEFINE controls == SubSeq(ReportControls, 1, n)
<1>1. controls \in SomeControls
  BY ReportControlsAssumption DEF SomeControls, ControlsThereAre
<1>2. stage = "collect" /\ findings = <<>> /\ ~failed /\ report = NoReport /\ UNCHANGED <<order, findings, failed, report>>
  BY DEF CollectControls, CollectAzure, ReportInv, Before
<1>3. todo' \in SomeControls /\ total' = Len(todo') /\ total' \in Nat
  <2>1. <<>> \in SomeControls /\ \A s \in SomeControls : Len(s) \in Nat
    BY DEF SomeControls
  <2>2. todo' \in {controls, <<>>} /\ total' = Len(todo')
    BY DEF CollectControls, CollectAzure
  <2> QED
    BY <1>1, <2>1, <2>2
<1>4. \/ stage' = "assess"
      \/ stage' = "single" /\ (order.strategy = "single_pass" \/ (order.kind # "azure" /\ total' = 0))
  BY <1>1, <1>2 DEF CollectControls, CollectAzure, ReportInv, Orders, SomeControls
<1>5. FailureIsNoCompliance' /\ EveryControlIsAssessed'
  BY <1>2 DEF FailureIsNoCompliance, EveryControlIsAssessed
<1>6. Len(findings') + Len(todo') = total'
  BY <1>2, <1>3
<1> QED
  BY <1>2, <1>3, <1>4, <1>5, <1>6 DEF ReportInv, Before

\* A control takes its place among the findings, the one the model failed on too.
LEMMA AssessKeeps ==
  ASSUME ReportInv, (\E s \in Statuses \cup {Unreadable} : AssessControl(s)) \/ AssessmentFails
  PROVE  ReportInv'
<1>1. PICK s \in Given :
          findings' = Append(findings, s) /\ (failed' => failed \/ s = "insufficient_evidence")
  BY DEF AssessControl, AssessmentFails, Statuses, Given
<1>2. stage = "assess" /\ todo # <<>> /\ todo' = Tail(todo) /\ report = NoReport /\ UNCHANGED <<order, stage, total, report>>
  BY DEF AssessControl, AssessmentFails, ReportInv, Before
<1>3. todo' \in SomeControls /\ Len(todo') = Len(todo) - 1
  BY <1>2 DEF ReportInv, SomeControls
<1>4. /\ findings' \in Seq(Given) /\ Len(findings') = Len(findings) + 1
      /\ findings'[Len(findings')] = s /\ \A i \in 1..Len(findings) : findings'[i] = findings[i]
  <2>1. findings \in Seq(Given)
    BY DEF ReportInv
  <2> QED
    BY <1>1, <2>1, OneMore
<1>5. failed' => In(findings', {"insufficient_evidence"})
  <2>1. DOMAIN findings = 1..Len(findings) /\ DOMAIN findings' = 1..Len(findings') /\ Len(findings) \in Nat
    <3>1. findings \in Seq(Given) /\ findings' \in Seq(Given)
      BY <1>4 DEF ReportInv
    <3> QED
      BY <3>1
  <2>2. failed => In(findings, {"insufficient_evidence"})
    BY <1>2 DEF ReportInv
  <2> QED
    BY <1>1, <1>4, <2>1, <2>2 DEF In
<1>6. Len(findings') + Len(todo') = total'
  <2>1. Len(findings) + Len(todo) = total /\ Len(findings) \in Nat /\ Len(todo) \in Nat
    BY <1>2 DEF ReportInv, SomeControls
  <2> QED
    BY <1>2, <1>3, <1>4, <2>1
<1>7. FailureIsNoCompliance' /\ EveryControlIsAssessed'
  BY <1>2 DEF FailureIsNoCompliance, EveryControlIsAssessed
<1> QED
  BY <1>2, <1>3, <1>4, <1>5, <1>6, <1>7 DEF ReportInv, Before

\* Findings that are accepted are rated by what they say, a failure among them
\* included; those that are not give no report, or one that says evidence is
\* missing.
LEMMA ValidateKeeps == ReportInv /\ ValidateFindings => ReportInv'
<1> SUFFICES ASSUME ReportInv, ValidateFindings PROVE ReportInv'
  OBVIOUS
<1>1. stage = "assess" /\ todo = <<>> /\ report = NoReport /\ UNCHANGED <<order, todo, total, findings>> /\ Len(findings) = total
      /\ failed' = (failed \/ ~Accepted(findings))
  BY DEF ValidateFindings, ReportInv, Before
<1>2. stage' \in {"complete", "fail"}
  BY DEF ValidateFindings, Reported, JobFails
<1>3. CASE Accepted(findings)
  <2>1. report' = Report(findings, Risk(findings)) /\ (failed' => In(findings, {"insufficient_evidence"}))
    BY <1>1, <1>3 DEF ValidateFindings, Reported, ReportInv
  <2>2. report'.findings = findings /\ report'.risk = Risk(findings)
    BY <2>1 DEF Report
  <2>3. FailureIsNoCompliance'
    BY <2>1, <2>2 DEF FailureIsNoCompliance, Risk
  <2> QED
    BY <1>1, <1>2, <2>2, <2>3 DEF ReportInv, EveryControlIsAssessed, Before
<1>4. CASE ~Accepted(findings)
  <2>1. report' \in {NoReport, BlankReport, Fallback}
    BY <1>1, <1>4 DEF ValidateFindings, Reported, JobFails
  <2>2. In(Fallback.findings, {"insufficient_evidence"}) /\ Fallback.risk # "low" /\ ~Fallback.valid
        /\ BlankReport.risk # "low" /\ ~BlankReport.valid
    BY DEF Fallback, BlankReport, In
  <2>3. FailureIsNoCompliance' /\ EveryControlIsAssessed'
    BY <2>1, <2>2 DEF FailureIsNoCompliance, EveryControlIsAssessed
  <2> QED
    BY <1>1, <1>2, <2>3 DEF ReportInv, Before
<1> QED
  BY <1>3, <1>4

LEMMA SingleKeeps ==
  ASSUME ReportInv, \/ \E f \in Replies, others \in BOOLEAN, risk \in {"low", "medium", "high"} : SinglePass(f, others, risk)
                    \/ SinglePassUnreadable
  PROVE  ReportInv'
<1>1. stage = "single" /\ ~failed /\ report = NoReport /\ UNCHANGED <<order, todo, total, findings>>
      /\ stage' \in {"complete", "fail"} /\ (order.strategy = "single_pass" \/ (order.kind # "azure" /\ total = 0))
  BY DEF SinglePass, SinglePassUnreadable, Reported, JobFails, ReportInv, Before
<1>2. EveryControlIsAssessed'
  BY <1>1 DEF ReportInv, Orders, EveryControlIsAssessed
<1>3. FailureIsNoCompliance'
  <2>1. CASE ~failed'
    BY <2>1 DEF FailureIsNoCompliance
  <2>2. CASE SinglePassUnreadable
    <3>1. report' \in {NoReport, BlankReport, Fallback}
      BY <1>1, <2>2 DEF SinglePassUnreadable, Reported, JobFails
    <3>2. In(Fallback.findings, {"insufficient_evidence"}) /\ Fallback.risk # "low" /\ BlankReport.risk # "low"
      BY DEF Fallback, BlankReport, In
    <3> QED
      BY <3>1, <3>2 DEF FailureIsNoCompliance
  <2>3. ASSUME NEW f \in Replies, NEW others \in BOOLEAN, NEW risk \in {"low", "medium", "high"},
               SinglePass(f, others, risk), failed'
        PROVE  FailureIsNoCompliance'
    <3>1. report' = [Report(Normal(f), risk) EXCEPT !.lost = (others /\ f # <<>>)] /\ (~Accepted(f) \/ others)
      BY <2>3 DEF SinglePass, Reported
    <3>2. report'.findings = Normal(f) /\ report'.valid /\ (others /\ f # <<>> => report'.lost)
      BY <3>1 DEF Report
    <3>3. RatedByModel'
      <4>1. order' = order /\ total' = total /\ (order.kind = "azure" => order.strategy = "single_pass")
        BY <1>1 DEF ReportInv
      <4> QED BY <1>1, <3>2, <4>1 DEF RatedByModel
    <3>4. f = <<>> \/ In(f, {Unreadable}) => In(Normal(f), {"insufficient_evidence"})
      <4>1. CASE f = <<>>
        BY <4>1 DEF Normal, In
      <4>2. CASE f # <<>> /\ In(f, {Unreadable})
        BY <4>2 DEF Normal, In
      <4> QED BY <4>1, <4>2
    <3> QED
      BY <3>1, <3>2, <3>3, <3>4 DEF FailureIsNoCompliance, Accepted
  <2> QED
    BY <1>1, <2>1, <2>2, <2>3
<1> QED
  BY <1>1, <1>2, <1>3 DEF ReportInv, Before

LEMMA ReportStepKeeps == ReportInv /\ [ReportNext]_jobVars => ReportInv'
<1>1. ASSUME ReportInv, UNCHANGED jobVars PROVE ReportInv'
  BY <1>1, JobGoesOn DEF jobVars, workerVars
<1> QED
  BY <1>1, QuietJobSteps, CollectKeeps, AssessKeeps, ValidateKeeps, SingleKeeps DEF ReportNext, Worker

LEMMA ReportInvAlways == ReportSpec => []ReportInv
  BY ReportInitIsInv, ReportStepKeeps, PTL DEF ReportSpec

\* A failure of the model, or a reply that cannot be read, never looks like
\* compliance (_assess_control_finding_with_llm,
\* _build_fallback_compliance_report_payload): whatever controls there are,
\* made at once or by a job, whenever the process restarts.
THEOREM FailureNeverComplies == ReportSpec => []FailureIsNoCompliance
<1>1. ReportInv => FailureIsNoCompliance
  BY DEF ReportInv
<1> QED
  BY <1>1, ReportInvAlways, PTL

\* A report made control by control has a finding for every control it began
\* with, or is marked invalid.
THEOREM NoControlIsLeftOut == ReportSpec => []EveryControlIsAssessed
<1>1. ReportInv => EveryControlIsAssessed
  BY DEF ReportInv
<1> QED
  BY <1>1, ReportInvAlways, PTL

(***************************************************************************)
(* LocalCorpus: what is searched against what is kept.                     *)
(***************************************************************************)
LocalCorpusTypes ==
    /\ memory \subseteq LocalFiles /\ kept \subseteq LocalFiles
    /\ uploading \in {NoLocal} \cup LocalUploading
    /\ clearing \in {NoLocal} \cup LocalClearing

\* A document that has the name of one of the other corpus, and goes with it.
HasTwin(d) == \E e \in LocalFiles : e.corpus # d.corpus /\ DocumentId(e) = DocumentId(d)

\* What the file still lacks of memory, and what it still has too much.
ToAppend == IF uploading # NoLocal /\ uploading.stage = "append" THEN uploading.staged ELSE {}
ToRemove(d) == clearing # NoLocal /\ d.corpus = clearing.corpus

\* Undisturbed, an upload has taken memory as it is and a clear has emptied its
\* corpus from memory; the file differs from memory by what is to be appended
\* or removed, and by twins.
FileFollows ==
    /\ uploading = NoLocal \/ clearing = NoLocal
    /\ uploading # NoLocal =>
           IF uploading.stage = "load" THEN uploading.existing = memory ELSE memory = uploading.existing \cup uploading.staged
    /\ clearing # NoLocal => \A d \in memory : d.corpus # clearing.corpus
    /\ clearing # NoLocal /\ clearing.stage = "write" => clearing.left = {d \in kept : d.corpus # clearing.corpus}
    /\ memory \ ToAppend \subseteq kept
    /\ \A d \in kept \ memory : HasTwin(d) \/ ToRemove(d)

LocalCorpusInv == LocalCorpusTypes /\ (~disturbed => FileFollows)

LEMMA CorpusInitIsInv == LocalInit => LocalCorpusInv
  BY LocalAssumption DEF LocalInit, LocalCorpusInv, LocalCorpusTypes, FileFollows, ToAppend, ToRemove

LEMMA StageFilesKeeps == LocalCorpusInv /\ StageFiles => LocalCorpusInv'
<1> SUFFICES ASSUME LocalCorpusInv, StageFiles PROVE LocalCorpusInv'
  OBVIOUS
<1>1. PICK one \in SUBSET LocalFiles :
          uploading' = IF one = {} THEN NoLocal ELSE [stage |-> "load", existing |-> memory, staged |-> one]
  BY DEF StageFiles
<1>2. uploading = NoLocal /\ UNCHANGED <<memory, kept, clearing>> /\ disturbed' = (disturbed \/ clearing # NoLocal)
  BY DEF StageFiles
<1>3. uploading' \in {NoLocal} \cup LocalUploading
  BY <1>1 DEF LocalCorpusInv, LocalCorpusTypes, LocalUploading
<1>4. LocalCorpusTypes'
  BY <1>2, <1>3 DEF LocalCorpusInv, LocalCorpusTypes
<1>5. ToAppend = {} /\ ToAppend' = {} /\ (uploading' # NoLocal => uploading'.stage = "load" /\ uploading'.existing = memory)
  BY <1>1, <1>2 DEF ToAppend
<1> QED
  BY <1>2, <1>4, <1>5 DEF LocalCorpusInv, FileFollows, ToRemove, HasTwin

LEMMA LoadMergedKeeps == LocalCorpusInv /\ LoadMerged => LocalCorpusInv'
<1> SUFFICES ASSUME LocalCorpusInv, LoadMerged PROVE LocalCorpusInv'
  OBVIOUS
<1>1. /\ uploading # NoLocal /\ uploading.stage = "load" /\ memory' = uploading.existing \cup uploading.staged
      /\ uploading' = [uploading EXCEPT !.stage = "append"] /\ UNCHANGED <<kept, clearing, disturbed>>
  BY DEF LoadMerged
<1>2. /\ uploading \in LocalUploading /\ uploading' \in LocalUploading /\ uploading' # NoLocal
      /\ uploading'.stage = "append" /\ uploading'.existing = uploading.existing /\ uploading'.staged = uploading.staged
  BY <1>1, LocalAssumption DEF LocalCorpusInv, LocalCorpusTypes, LocalUploading
<1>3. LocalCorpusTypes'
  BY <1>1, <1>2 DEF LocalCorpusInv, LocalCorpusTypes, LocalUploading
<1>4. ToAppend = {} /\ ToAppend' = uploading.staged
  BY <1>1, <1>2 DEF ToAppend
<1> QED
  BY <1>1, <1>2, <1>3, <1>4 DEF LocalCorpusInv, FileFollows, ToRemove, HasTwin

LEMMA AppendLinesKeeps == LocalCorpusInv /\ AppendLines => LocalCorpusInv'
<1> SUFFICES ASSUME LocalCorpusInv, AppendLines PROVE LocalCorpusInv'
  OBVIOUS
<1>1. /\ uploading # NoLocal /\ uploading.stage = "append" /\ uploading' = NoLocal /\ UNCHANGED <<memory, clearing>>
      /\ kept' = kept \cup uploading.staged \/ (kept' = kept /\ disturbed')
  BY DEF AppendLines
<1>2. uploading \in LocalUploading
  BY <1>1 DEF LocalCorpusInv, LocalCorpusTypes
<1>3. LocalCorpusTypes'
  BY <1>1, <1>2 DEF LocalCorpusInv, LocalCorpusTypes, LocalUploading
<1>4. ASSUME ~disturbed' PROVE FileFollows'
  <2>1. ~disturbed /\ kept' = kept \cup uploading.staged
    BY <1>1, <1>4 DEF AppendLines
  <2>2. ToAppend = uploading.staged /\ ToAppend' = {}
    BY <1>1 DEF ToAppend
  <2> QED
    BY <1>1, <2>1, <2>2 DEF LocalCorpusInv, FileFollows, ToRemove, HasTwin
<1> QED
  BY <1>3, <1>4 DEF LocalCorpusInv

\* What goes from memory is the corpus, and what has the name of one of it.
LEMMA ClearMemoryKeeps == LocalCorpusInv /\ ClearMemory => LocalCorpusInv'
<1> SUFFICES ASSUME LocalCorpusInv, ClearMemory PROVE LocalCorpusInv'
  OBVIOUS
<1>1. PICK c \in {"b", "c"} :
          LET ids == {DocumentId(d) : d \in {e \in memory : e.corpus = c}}
          IN  memory' = {d \in memory : DocumentId(d) \notin ids} /\ clearing' = [stage |-> "read", corpus |-> c, left |-> {}]
  BY DEF ClearMemory
<1>2. clearing = NoLocal /\ UNCHANGED <<kept, uploading>> /\ disturbed' = (disturbed \/ uploading # NoLocal)
  BY DEF ClearMemory
<1>3. memory' \subseteq memory /\ clearing' \in LocalClearing /\ clearing' # NoLocal /\ clearing'.stage = "read" /\ clearing'.corpus = c
  BY <1>1, LocalAssumption DEF LocalClearing
<1>4. LocalCorpusTypes'
  BY <1>2, <1>3 DEF LocalCorpusInv, LocalCorpusTypes
<1>5. ASSUME NEW d \in memory \ memory' PROVE d.corpus = c \/ HasTwin(d)
  <2>1. PICK e \in memory : e.corpus = c /\ DocumentId(e) = DocumentId(d)
    BY <1>1, <1>5
  <2> QED
    BY <2>1 DEF HasTwin, LocalCorpusInv, LocalCorpusTypes
<1>6. \A d \in memory' : d.corpus # c
  BY <1>1
<1>7. ASSUME ~disturbed' PROVE FileFollows'
  <2>1. FileFollows /\ uploading = NoLocal /\ ToAppend = {} /\ ToAppend' = {}
    BY <1>2, <1>7 DEF LocalCorpusInv, ToAppend
  <2>2. memory \subseteq kept /\ \A d \in kept \ memory : HasTwin(d)
    BY <1>2, <2>1 DEF FileFollows, ToRemove
  <2>3. \A d \in kept \ memory' : HasTwin(d) \/ d.corpus = c
    BY <1>5, <2>2
  <2> QED
    BY <1>2, <1>3, <1>6, <2>1, <2>2, <2>3 DEF FileFollows, ToRemove, HasTwin
<1> QED
  BY <1>4, <1>7 DEF LocalCorpusInv

\* The file is read and left, or written without the corpus.
LEMMA ClearFileKeeps == LocalCorpusInv /\ (ReadLines \/ WriteLines) => LocalCorpusInv'
<1> SUFFICES ASSUME LocalCorpusInv, ReadLines \/ WriteLines PROVE LocalCorpusInv'
  OBVIOUS
<1>1. clearing # NoLocal /\ clearing \in LocalClearing /\ UNCHANGED <<memory, uploading, disturbed>>
      /\ ToAppend' = ToAppend
  BY DEF ReadLines, WriteLines, LocalCorpusInv, LocalCorpusTypes, ToAppend
<1> DEFINE rest == {d \in kept : d.corpus # clearing.corpus}
<1>2. CASE ReadLines /\ rest # kept
  <2>1. clearing' = [clearing EXCEPT !.stage = "write", !.left = rest] /\ UNCHANGED kept
    BY <1>2 DEF ReadLines
  <2>2. clearing' \in LocalClearing /\ clearing' # NoLocal /\ clearing'.corpus = clearing.corpus /\ clearing'.left = rest
    BY <1>1, <2>1, LocalAssumption DEF LocalClearing, LocalCorpusInv, LocalCorpusTypes
  <2>3. LocalCorpusTypes'
    BY <1>1, <2>1, <2>2 DEF LocalCorpusInv, LocalCorpusTypes
  <2> QED
    BY <1>1, <2>1, <2>2, <2>3 DEF LocalCorpusInv, FileFollows, ToRemove, HasTwin
<1>3. CASE ReadLines /\ rest = kept
  <2>1. clearing' = NoLocal /\ UNCHANGED kept
    BY <1>3 DEF ReadLines
  <2>2. \A d \in kept : ~ToRemove(d)
    BY <1>3 DEF ToRemove
  <2> QED
    BY <1>1, <2>1, <2>2 DEF LocalCorpusInv, LocalCorpusTypes, FileFollows, ToRemove, HasTwin
<1>4. CASE WriteLines
  <2>1. clearing.stage = "write" /\ kept' = clearing.left /\ clearing' = NoLocal
    BY <1>4 DEF WriteLines
  <2>2. LocalCorpusTypes'
    BY <1>1, <2>1 DEF LocalCorpusInv, LocalCorpusTypes, LocalClearing
  <2>3. ASSUME ~disturbed PROVE FileFollows'
    <3>1. FileFollows /\ kept' = rest /\ ToAppend = {}
      BY <1>1, <2>1, <2>3 DEF LocalCorpusInv, FileFollows, ToAppend
    <3>2. memory \subseteq rest
      BY <1>1, <3>1 DEF FileFollows
    <3>3. \A d \in rest \ memory : HasTwin(d)
      BY <1>1, <3>1 DEF FileFollows, ToRemove
    <3> QED
      BY <1>1, <2>1, <3>1, <3>2, <3>3 DEF FileFollows, ToRemove, HasTwin
  <2> QED
    BY <1>1, <2>2, <2>3 DEF LocalCorpusInv
<1> QED
  BY <1>2, <1>3, <1>4

LEMMA CorpusStepKeeps == LocalCorpusInv /\ [LocalNext]_localVars => LocalCorpusInv'
<1>1. LocalCorpusInv /\ LoadAtStart => LocalCorpusInv'
  BY DEF LoadAtStart, LocalCorpusInv, LocalCorpusTypes, FileFollows, ToAppend, ToRemove
<1>2. LocalCorpusInv /\ UNCHANGED localVars => LocalCorpusInv'
  BY DEF localVars, LocalCorpusInv, LocalCorpusTypes, FileFollows, ToAppend, ToRemove, HasTwin
<1> QED
  BY <1>1, <1>2, StageFilesKeeps, LoadMergedKeeps, AppendLinesKeeps, ClearMemoryKeeps, ClearFileKeeps DEF LocalNext

\* A restart of a local installation forgets no document that is found and
\* brings none back, apart from a page stored alike in both corpora, unless an
\* upload and a clear overlapped or a write failed (_persist_local_evidence_docs,
\* delete_local_evidence_docs_by_corpus, local_startup.py): for any documents.
THEOREM RestartsChangeNothing == LocalSpec => []RestartChangesNothing
<1>1. LocalCorpusInv => RestartChangesNothing
  BY DEF LocalCorpusInv, FileFollows, ToAppend, ToRemove, HasTwin, RestartChangesNothing
<1> QED
  BY <1>1, CorpusInitIsInv, CorpusStepKeeps, PTL DEF LocalSpec

(***************************************************************************)
(* GroundingJobAws: what a task that ends well leaves in the index.        *)
(***************************************************************************)
\* The text of a file is in the index, of this file or of another of its
\* corpus, or the hash of it does not tell.
InIndex(f) == \E g \in S3Files : g.corpus = f.corpus /\ g.hash = f.hash /\ IsWhole(g)
Settled(f) == f.hash \in doubtful \/ InIndex(f)

\* Every chunk of a file is made.
Made(f) == \A n \in 1..f.chunks : \E r \in records : Id(r) = <<f, n>>

\* Every chunk of a file is there or is still to be sent.
Covered(f) == \A n \in 1..f.chunks : (\E k \in held : Id(k) = <<f, n>>) \/ (\E r \in toSend : Id(r) = <<f, n>>)

ReadSoFar == \A f \in listed : f \in toRead \/ trouble \/ Made(f)
SentSoFar == \A f \in listed : trouble \/ Settled(f) \/ Covered(f)

TaskInv ==
    /\ \A o \in bucket : o.file \in S3Files
    /\ listed \subseteq {f \in S3Files : f.corpus = task.corpus}
    /\ \A r \in records : r.hash \in {"", r.file.hash}
    /\ task \in [stage : {"none", "read", "send", "ended"}, corpus : {"b", "c"}, replace : BOOLEAN]
    /\ task.stage \in {"none", "ended"} => listed = {}
    /\ task.stage = "read" => ReadSoFar
    /\ task.stage = "send" => SentSoFar

LEMMA TaskInitIsInv == TaskInit => TaskInv
  BY DEF TaskInit, TaskInv

\* What the index has of a file stays there unless chunks are taken out of it.
LEMMA IndexGrows ==
  ASSUME \A k \in held : \E l \in held' : Id(l) = Id(k)
  PROVE  \A f : /\ IsWhole(f) => IsWhole(f)'
                /\ InIndex(f) => InIndex(f)'
  BY DEF IsWhole, InIndex

LEMMA PutKeeps == TaskInv /\ PutObjects => TaskInv'
<1> SUFFICES ASSUME TaskInv, PutObjects PROVE TaskInv'
  OBVIOUS
<1>1. UNCHANGED <<held, task, toRead, records, toSend, trouble, listed, doubtful>>
  BY DEF PutObjects
<1>2. PICK f \in S3Files, hashed \in BOOLEAN : bucket' = {o \in bucket : o.file # f} \cup {[file |-> f, hashed |-> hashed]}
  BY DEF PutObjects
<1>4. \A o \in bucket' : o.file \in S3Files
  <2>1. \A o \in bucket : o.file \in S3Files
    BY DEF TaskInv
  <2>2. [file |-> f, hashed |-> hashed].file \in S3Files
    OBVIOUS
  <2> QED
    BY <1>2, <2>1, <2>2
<1>3. ReadSoFar' = ReadSoFar /\ SentSoFar' = SentSoFar
  BY <1>1 DEF ReadSoFar, SentSoFar, Settled, InIndex, IsWhole, Covered, Made, Id
<1> QED
  BY <1>1, <1>3, <1>4 DEF TaskInv

\* Whatever a clear takes, the texts of the task are doubtful from then on.
LEMMA ClearObjectsKeeps == TaskInv /\ ClearObjects => TaskInv'
<1> SUFFICES ASSUME TaskInv, ClearObjects PROVE TaskInv'
  OBVIOUS
<1>1. /\ UNCHANGED <<task, toRead, records, toSend, trouble, exit, listed, tasks>> /\ bucket' \subseteq bucket
      /\ task.stage \in {"read", "send"} => \A f \in listed : f.hash \in doubtful'
  BY DEF ClearObjects
<1>2. ReadSoFar' = ReadSoFar
  BY <1>1 DEF ReadSoFar, Made, Id
<1>3. task.stage = "send" => SentSoFar'
  BY <1>1 DEF SentSoFar, Settled
<1> QED
  BY <1>1, <1>2, <1>3 DEF TaskInv

LEMMA StartTaskKeeps == TaskInv /\ StartTask => TaskInv'
<1> SUFFICES ASSUME TaskInv, StartTask PROVE TaskInv'
  OBVIOUS
<1>1. PICK c \in {"b", "c"}, replace \in BOOLEAN :
          LET found == {f \in Objects : f.corpus = c /\ f.ext \in Extractable}
          IN  /\ task' = [stage |-> IF found = {} THEN "ended" ELSE "read", corpus |-> c, replace |-> replace]
              /\ listed' = found /\ toRead' = found
  BY DEF StartTask
<1>2. UNCHANGED bucket /\ Objects \subseteq S3Files
  <2>1. \A o \in bucket : o.file \in S3Files
    BY DEF TaskInv
  <2> QED
    BY <2>1 DEF StartTask, Objects
<1>3. /\ task' \in [stage : {"read", "ended"}, corpus : {"b", "c"}, replace : BOOLEAN]
      /\ task'.stage = "ended" => listed' = {}
      /\ listed' \subseteq {f \in S3Files : f.corpus = task'.corpus} /\ ReadSoFar'
  BY <1>1, <1>2 DEF ReadSoFar
<1>4. records' = {} /\ \A o \in bucket' : o.file \in S3Files
  BY <1>2 DEF StartTask, TaskInv
<1> QED
  BY <1>3, <1>4 DEF TaskInv

\* A file that is read has all its records, and one that is not is trouble.
LEMMA ReadObjectKeeps == TaskInv /\ ReadObject => TaskInv'
<1> SUFFICES ASSUME TaskInv, ReadObject PROVE TaskInv'
  OBVIOUS
<1>1. PICK f \in Objects : /\ task.stage = "read" /\ f \in toRead /\ toRead' = toRead \ {f}
                           /\ \E label, hash : hash \in {"", f.hash} /\ records' = records \cup MadeOf(f, label, hash)
  BY DEF ReadObject, TakeUp, HashOf
<1>2. UNCHANGED <<bucket, held, task, toSend, trouble, exit, listed, doubtful>>
  BY DEF ReadObject
<1>3. PICK label, hash : hash \in {"", f.hash} /\ records' = records \cup MadeOf(f, label, hash)
  BY <1>1
<1>4. \A r \in MadeOf(f, label, hash) : r.file = f /\ r.hash = hash
  BY DEF MadeOf
<1>5. \A n \in 1..f.chunks : \E r \in MadeOf(f, label, hash) : Id(r) = <<f, n>>
  <2>1. SUFFICES ASSUME NEW n \in 1..f.chunks PROVE \E r \in MadeOf(f, label, hash) : Id(r) = <<f, n>>
    OBVIOUS
  <2>2. [file |-> f, n |-> n, label |-> label, hash |-> hash] \in MadeOf(f, label, hash)
    BY DEF MadeOf
  <2>3. Id([file |-> f, n |-> n, label |-> label, hash |-> hash]) = <<f, n>>
    BY DEF Id
  <2> QED
    BY <2>2, <2>3
<1>6. Made(f)' /\ \A g \in listed : Made(g) => Made(g)'
  BY <1>3, <1>5 DEF Made, Id
<1>7. ReadSoFar'
  BY <1>1, <1>2, <1>6 DEF ReadSoFar, TaskInv
<1>8. \A r \in records' : r.hash \in {"", r.file.hash}
  BY <1>3, <1>4 DEF TaskInv
<1> QED
  BY <1>1, <1>2, <1>7, <1>8 DEF TaskInv

LEMMA ReadFailsKeeps == TaskInv /\ ReadFails => TaskInv'
  BY DEF ReadFails, TakeUp, TaskInv, ReadSoFar

\* Of a file whose records are not all sent one has a hash, and the index
\* knows it.
LEMMA AskKeeps == TaskInv /\ AskForHashes => TaskInv'
<1> SUFFICES ASSUME TaskInv, AskForHashes PROVE TaskInv'
  OBVIOUS
<1> DEFINE wholly == {f.hash : f \in {g \in S3Files : g.corpus = task.corpus /\ IsWhole(g)}}
<1>1. /\ task.stage = "read" /\ toRead = {} /\ task' = [task EXCEPT !.stage = "send"]
      /\ toSend' = {r \in records : task.replace \/ r.hash = "" \/ r.hash \notin Known}
      /\ doubtful' = IF task.replace THEN doubtful ELSE doubtful \cup (Known \ wholly)
      /\ UNCHANGED <<bucket, held, toRead, records, trouble, exit, listed>>
  BY DEF AskForHashes
<1>2. task' \in [stage : {"send"}, corpus : {"b", "c"}, replace : BOOLEAN] /\ task'.corpus = task.corpus /\ task'.stage = "send"
  BY <1>1 DEF TaskInv
<1>3. ASSUME NEW f \in listed, ~trouble PROVE Settled(f)' \/ Covered(f)'
  <2>1. Made(f)
    BY <1>1, <1>3 DEF TaskInv, ReadSoFar
  <2>2. CASE \A n \in 1..f.chunks : \E r \in toSend' : Id(r) = <<f, n>>
    BY <2>2 DEF Covered, Id
  <2>3. CASE \E n \in 1..f.chunks : ~\E r \in toSend' : Id(r) = <<f, n>>
    <3>1. PICK r \in records : r.file = f /\ r \notin toSend'
      BY <2>1, <2>3 DEF Made, Id
    <3>2. ~task.replace /\ r.hash = f.hash /\ f.hash \in Known
      BY <1>1, <3>1 DEF TaskInv
    <3>3. CASE f.hash \in wholly
      <4>1. f.corpus = task.corpus
        BY <1>3 DEF TaskInv
      <4>2. InIndex(f)
        BY <3>3, <4>1 DEF InIndex
      <4>3. InIndex(f)'
        BY <1>1, <4>2, IndexGrows
      <4> QED
        BY <4>3 DEF Settled
    <3> QED
      BY <1>1, <3>2, <3>3 DEF Settled
  <2> QED
    BY <2>2, <2>3
<1> QED
  BY <1>1, <1>2, <1>3 DEF TaskInv, SentSoFar

\* What leaves the records to be sent is in the index, or there is trouble.
LEMMA SendKeeps == TaskInv /\ SendBatch => TaskInv'
<1> SUFFICES ASSUME TaskInv, SendBatch PROVE TaskInv'
  OBVIOUS
<1>1. PICK refused : /\ held' = With(NextBatch \ refused)
                     /\ (refused = {} /\ trouble' = trouble) \/ trouble'
  BY DEF SendBatch
<1>2. task.stage = "send" /\ toSend' = toSend \ NextBatch /\ UNCHANGED <<bucket, task, toRead, records, exit, listed, doubtful>>
  BY DEF SendBatch
<1>3. ASSUME NEW r \in NextBatch \ refused PROVE \E l \in held' : Id(l) = Id(r)
  <2> DEFINE l == [file |-> r.file, n |-> r.n, label |-> r.label]
  <2>1. l \in held'
    BY <1>1, <1>3 DEF With
  <2>2. Id(l) = Id(r)
    BY DEF Id
  <2> QED
    BY <2>1, <2>2
<1>4. ASSUME NEW k \in held PROVE \E l \in held' : Id(l) = Id(k)
  <2>1. CASE \E r \in NextBatch \ refused : Id(r) = Id(k)
    BY <1>3, <2>1
  <2>2. CASE \A r \in NextBatch \ refused : Id(r) # Id(k)
    BY <1>1, <2>2 DEF With
  <2> QED
    BY <2>1, <2>2
<1>5. \A f : Settled(f) => Settled(f)'
  BY <1>2, <1>4, IndexGrows DEF Settled
<1>6. ASSUME ~trouble' PROVE \A f : Covered(f) => Covered(f)'
  <2>1. refused = {}
    BY <1>1, <1>6
  <2>2. \A r \in toSend : r \in toSend' \/ \E l \in held' : Id(l) = Id(r)
    BY <1>2, <1>3, <2>1
  <2>3. SUFFICES ASSUME NEW f, Covered(f), NEW n \in 1..f.chunks
                 PROVE  (\E k \in held' : Id(k) = <<f, n>>) \/ (\E r \in toSend' : Id(r) = <<f, n>>)
    BY DEF Covered, Id
  <2> QED
    BY <1>4, <2>2, <2>3 DEF Covered
<1>7. trouble => trouble'
  BY <1>1
<1>8. SentSoFar'
  BY <1>2, <1>5, <1>6, <1>7 DEF SentSoFar, TaskInv
<1> QED
  BY <1>2, <1>8 DEF TaskInv

LEMMA TaskStepKeeps == TaskInv /\ [TaskNext]_taskVars => TaskInv'
<1>1. TaskInv /\ (TaskFails \/ EndTask) => TaskInv'
  <2>1. SUFFICES ASSUME TaskInv, Ended, UNCHANGED bucket PROVE TaskInv'
    BY DEF TaskFails, EndTask
  <2>2. /\ task' \in [stage : {"ended"}, corpus : {"b", "c"}, replace : BOOLEAN] /\ task'.stage = "ended"
        /\ records' = {} /\ listed' = {}
    BY <2>1 DEF Ended, TaskInv
  <2> QED
    BY <2>1, <2>2 DEF TaskInv
<1>2. ASSUME TaskInv, UNCHANGED taskVars PROVE TaskInv'
  <2>1. ReadSoFar' = ReadSoFar /\ SentSoFar' = SentSoFar
    BY <1>2 DEF taskVars, ReadSoFar, SentSoFar, Settled, InIndex, IsWhole, Covered, Made, Id
  <2> QED
    BY <1>2, <2>1 DEF taskVars, TaskInv
<1> QED
  BY <1>1, <1>2, PutKeeps, ClearObjectsKeeps, StartTaskKeeps, ReadObjectKeeps, ReadFailsKeeps, AskKeeps, SendKeeps DEF TaskNext

\* A task that ends with exit code zero has sent all it had to, and what it was
\* not to send the index had.
LEMMA ZeroEndsWhole ==
  ASSUME TaskInv, TaskNext, exit = "none", exit' = "zero"
  PROVE  \A f \in listed : Settled(f)
<1>1. EndTask \/ StartTask
  BY DEF TaskNext, PutObjects, ClearObjects, ReadObject, ReadFails, AskForHashes, SendBatch, TaskFails
<1>2. CASE StartTask
  BY <1>2 DEF StartTask, TaskInv
<1>3. CASE EndTask
  <2>1. task.stage = "send" /\ toSend = {} /\ ~trouble /\ SentSoFar
    BY <1>3 DEF EndTask, TaskInv
  <2>2. ASSUME NEW f \in listed, Covered(f) PROVE Settled(f)
    <3>1. IsWhole(f)
      BY <2>1, <2>2 DEF Covered, IsWhole
    <3> QED
      BY <2>2, <3>1 DEF Settled, InIndex, TaskInv
  <2> QED
    BY <2>1, <2>2 DEF SentSoFar
<1> QED
  BY <1>1, <1>2, <1>3

\* A task of the ingestion on AWS that ends with exit code zero leaves the whole
\* text of every file it found in the index, with the exceptions the property
\* names (aws_orchestrator.py, publish_grounding_aws.py): for any files and
\* batches, with any number of uploads, tasks, clears and refused chunks.
THEOREM ZeroExitIsWhole == TaskSpec => ZeroIsWhole
<1>1. TaskInv /\ [TaskNext]_taskVars =>
          [exit = "none" /\ exit' = "zero" =>
               \A f \in listed : \/ f.hash \in doubtful
                                  \/ \E g \in S3Files : g.corpus = f.corpus /\ g.hash = f.hash /\ IsWhole(g)]_taskVars
  BY ZeroEndsWhole DEF Settled, InIndex
<1> QED
  BY <1>1, TaskInitIsInv, TaskStepKeeps, PTL DEF TaskSpec, ZeroIsWhole

(***************************************************************************)
(* CorpusIndexing: what an execution that succeeds has indexed.            *)
(***************************************************************************)
Indexed(b) == \E d \in docs : Name(d) = Name(b)
StoredBlob(b) == b \in [corpus : {"b", "c"}, hash : {b.hash}, ext : {b.ext}, whole : BOOLEAN, at : 1..clock]
InRange(b, scope) == scope = Everything \/ b.corpus = scope

\* A blob that is indexed, or that the indexer has still before it: newer than
\* its mark and, while it runs, either in this run or newer than the next mark.
Ahead(b) == Indexed(b) \/ (indexer.mark < b.at /\ (indexer.running => b \in indexer.todo \/ indexer.next < b.at))

\* While an execution waits for the run it has started, a blob is indexed or
\* still in the run, unless the run has failed.
Awaited(b) == \/ Indexed(b)
              \/ indexer.mark < b.at /\ indexer.running /\ b \in indexer.todo
              \/ indexer.mark < b.at /\ ~indexer.running /\ indexer.last = "transientFailure"

IndexerTypes ==
    indexer \in [running : BOOLEAN, todo : {indexer.todo}, next : 0..clock, mark : 0..clock,
                 last : {"none", "inProgress", "success", "transientFailure", "reset"}]

UploadShape ==
    upload \in [corpus : {"b", "c"}, todo : {upload.todo}, reindex : {upload.reindex}, trigger : {upload.trigger},
                stored : {upload.stored}, skipped : {upload.skipped}, stage : {"store", "start"}, alone : BOOLEAN]

UploadInv ==
    upload # NoUpload =>
        /\ UploadShape
        /\ \A b \in upload.stored : /\ StoredBlob(b) /\ b.corpus = upload.corpus
                                    /\ \A c \in blobs : c.corpus # upload.corpus => c.at < b.at
        /\ upload.alone => clear = NoClear /\ \A b \in blobs \cap upload.stored : Ahead(b)

JobTypes(j) ==
    /\ jobs[j] \in [stage : {"off", "index", "source", "run", "wait", "ended"}, scope : {"b", "c", Everything},
                    promised : {jobs[j].promised}, alone : BOOLEAN, attempt : {jobs[j].attempt},
                    status : {"none", "success", "failed", "timeout", "raised"}]
    /\ jobs[j].stage # "ended" => jobs[j].status = "none"
    /\ \A b \in jobs[j].promised : StoredBlob(b) /\ InRange(b, jobs[j].scope)

\* An execution that is alone has the data source and the indexer to itself.
JobAlone(j) ==
    Active(j) /\ jobs[j].alone =>
        /\ clear = NoClear /\ \A i \in Jobs : Active(i) => i = j
        /\ jobs[j].stage \in {"run", "wait"} => source = jobs[j].scope
        /\ jobs[j].stage = "wait" => /\ indexer.running => indexer.last = "inProgress"
                                     /\ \A b \in blobs \cap jobs[j].promised : Awaited(b)
        /\ jobs[j].stage # "wait" => \A b \in blobs \cap jobs[j].promised : Ahead(b)

CorpusInv ==
    /\ clock \in Nat /\ \A b \in blobs : StoredBlob(b)
    /\ IndexerTypes /\ UploadInv
    /\ jobs = [j \in Jobs |-> jobs[j]] /\ \A j \in Jobs : JobTypes(j) /\ JobAlone(j)

LEMMA CorpusInitKeeps == CorpusInit => CorpusInv
<1> SUFFICES ASSUME CorpusInit PROVE CorpusInv
  OBVIOUS
<1>1. clock = 1 /\ indexer = IdleIndexer /\ upload = NoUpload /\ blobs \in Legacy /\ jobs = [j \in Jobs |-> NewJob]
  BY DEF CorpusInit, CorpusInitWith
<1>2. \A b \in blobs : StoredBlob(b)
  BY <1>1, LegacyAssumption DEF StoredBlob
<1>3. IndexerTypes /\ UploadInv
  BY <1>1 DEF IndexerTypes, IdleIndexer, UploadInv
<1>4. \A j \in Jobs : JobTypes(j) /\ ~Active(j)
  BY <1>1 DEF JobTypes, NewJob, Active
<1> QED
  BY <1>1, <1>2, <1>3, <1>4 DEF CorpusInv, JobAlone

LEMMA SamePlaces ==
  ASSUME UNCHANGED <<docs, indexer>>
  PROVE  \A b : Ahead(b)' = Ahead(b) /\ Awaited(b)' = Awaited(b) /\ Indexed(b)' = Indexed(b)
  BY DEF Ahead, Awaited, Indexed, Name

\* Time goes on, and a blob stays what it is.
LEMMA StaysStored ==
  ASSUME NEW b, StoredBlob(b), clock \in Nat, clock' \in Nat, clock <= clock'
  PROVE  StoredBlob(b)'
  BY DEF StoredBlob

\* A request that stores files does nothing to executions: what it stores is
\* newer than what they were started for.
LEMMA RequestsLeaveJobs ==
  ASSUME CorpusInv, UNCHANGED <<docs, clear, jobs, source, indexer>>, clock' \in Nat, clock <= clock',
         \A b \in blobs' : b \in blobs \/ (StoredBlob(b)' /\ clock < b.at),
         UploadInv'
  PROVE  CorpusInv'
<1>1. clock \in Nat /\ \A b \in blobs : StoredBlob(b)
  BY DEF CorpusInv
<1>2. \A b \in blobs' : StoredBlob(b)'
  BY <1>1, StaysStored
<1>3. IndexerTypes'
  BY <1>1 DEF CorpusInv, IndexerTypes
<1>4. ASSUME NEW j \in Jobs PROVE JobTypes(j)' /\ JobAlone(j)'
  <2>1. JobTypes(j) /\ JobAlone(j)
    BY DEF CorpusInv
  <2>2. \A b \in jobs[j].promised : StoredBlob(b) /\ b.at <= clock
    BY <2>1 DEF JobTypes, StoredBlob
  <2>3. JobTypes(j)'
    BY <1>1, <2>1, <2>2, StaysStored DEF JobTypes, InRange
  <2>4. blobs' \cap jobs[j].promised \subseteq blobs \cap jobs[j].promised
    BY <1>1, <2>2 DEF StoredBlob
  <2>5. JobAlone(j)'
    BY <2>1, <2>4, SamePlaces DEF JobAlone, Active
  <2> QED
    BY <2>3, <2>5
<1> QED
  BY <1>2, <1>3, <1>4 DEF CorpusInv

LEMMA StartUploadKeeps ==
  ASSUME CorpusInv, UploadCorpusB \/ UploadCorpusC
  PROVE  CorpusInv'
<1>1. PICK corpus \in {"b", "c"} : StartUpload(corpus)
  BY DEF UploadCorpusB, UploadCorpusC
<1>2. UNCHANGED <<blobs, docs, clock, clear, jobs, source, indexer>>
  BY <1>1 DEF StartUpload
<1>3. PICK u \in Uploads :
          upload' = [corpus |-> corpus, todo |-> u.files, reindex |-> u.reindex, trigger |-> u.trigger,
                     stored |-> {}, skipped |-> {}, stage |-> "store", alone |-> (clear = NoClear)]
  BY <1>1 DEF StartUpload
<1>4. UploadInv'
  BY <1>2, <1>3 DEF UploadInv, UploadShape
<1> QED
  BY <1>2, <1>4, RequestsLeaveJobs DEF CorpusInv

\* A file that is passed over changes nothing that is there.
LEMMA PassedOverKeeps ==
  ASSUME CorpusInv, UNCHANGED <<blobs, docs, clock, clear, jobs, source, indexer>>, upload # NoUpload,
         upload' = NoUpload \/
             (UploadShape => UploadShape' /\ upload'.corpus = upload.corpus /\ upload'.stored = upload.stored
                                          /\ upload'.alone = upload.alone)
  PROVE  CorpusInv'
<1>1. UploadInv /\ clock \in Nat
  BY DEF CorpusInv
<1>2. CASE upload' = NoUpload
  BY <1>1, <1>2, RequestsLeaveJobs DEF UploadInv
<1>3. CASE upload' # NoUpload
  <2>1. /\ UploadShape'
        /\ upload'.corpus = upload.corpus /\ upload'.stored = upload.stored /\ upload'.alone = upload.alone
    BY <1>1, <1>3 DEF UploadInv
  <2>2. UploadInv'
    BY <1>1, <2>1, SamePlaces DEF UploadInv, StoredBlob
  <2> QED
    BY <1>1, <2>2, RequestsLeaveJobs
<1> QED
  BY <1>2, <1>3

\* Blobs a request writes are newer than all there is, and of its corpus.
LEMMA NewBlobsKeep ==
  ASSUME CorpusInv, upload # NoUpload, UNCHANGED <<docs, clear, jobs, source, indexer>>, clock' = clock + 1,
         NEW new, \A b \in new : StoredBlob(b)' /\ b.at = clock + 1 /\ b.corpus = upload.corpus,
         blobs' \subseteq blobs \cup new,
         UploadShape', upload'.corpus = upload.corpus, upload'.alone = upload.alone,
         upload'.stored \subseteq upload.stored \cup new
  PROVE  CorpusInv'
<1>1. UploadInv /\ clock \in Nat /\ clock' \in Nat /\ clock < clock' /\ IndexerTypes /\ \A b \in blobs : StoredBlob(b)
  BY DEF CorpusInv
<1>2. \A b \in blobs' : b \in blobs \/ (StoredBlob(b)' /\ clock < b.at)
  BY <1>1
<1>3. \A b \in new : Ahead(b)'
  BY <1>1 DEF Ahead, IndexerTypes
<1>4. \A b \in upload.stored : StoredBlob(b) /\ StoredBlob(b)' /\ b.at <= clock /\ b.corpus = upload.corpus
  BY <1>1, StaysStored DEF UploadInv, StoredBlob
<1>5. \A c \in blobs' : c.corpus # upload.corpus => c \in blobs /\ c.at <= clock
  BY <1>1 DEF StoredBlob
<1>6. ASSUME NEW b \in upload'.stored
      PROVE  /\ StoredBlob(b)' /\ b.corpus = upload.corpus
             /\ \A c \in blobs' : c.corpus # upload.corpus => c.at < b.at
  <2>1. CASE b \in new
    BY <1>1, <1>5, <2>1 DEF StoredBlob
  <2>2. CASE b \in upload.stored
    BY <1>1, <1>4, <1>5, <2>2 DEF UploadInv
  <2> QED
    BY <2>1, <2>2
<1>7. ASSUME upload.alone PROVE clear = NoClear /\ \A b \in blobs' \cap upload'.stored : Ahead(b)'
  <2>1. clear = NoClear /\ \A b \in blobs \cap upload.stored : Ahead(b)
    BY <1>1, <1>7 DEF UploadInv
  <2>2. \A b \in blobs' \cap upload'.stored : b \in new \/ b \in blobs \cap upload.stored
    BY <1>2, <1>4
  <2> QED
    BY <1>3, <2>1, <2>2, SamePlaces
<1>8. UploadInv'
  BY <1>6, <1>7 DEF UploadInv
<1> QED
  BY <1>1, <1>2, <1>8, RequestsLeaveJobs

LEMMA StoreFileKeeps == CorpusInv /\ StoreFile => CorpusInv'
<1> SUFFICES ASSUME CorpusInv, StoreFile PROVE CorpusInv'
  OBVIOUS
<1>1. upload # NoUpload /\ UNCHANGED <<docs, clear, jobs, source, indexer>> /\ clock' = clock + 1
      /\ upload' = [upload EXCEPT !.todo = Tail(@), !.stored = @ \cup {NewBlob}]
  BY DEF StoreFile, Filing
<1>2. UploadInv /\ clock \in Nat
  BY DEF CorpusInv
<1>3. blobs' \subseteq blobs \cup {NewBlob}
  BY DEF StoreFile, Put
<1>4. /\ UploadShape' /\ upload'.corpus = upload.corpus /\ upload'.alone = upload.alone
      /\ upload'.stored = upload.stored \cup {NewBlob}
  BY <1>1, <1>2 DEF UploadInv, UploadShape
<1>5. PICK blob : blob = NewBlob
  OBVIOUS
<1>6. blob = [corpus |-> upload.corpus, hash |-> File.hash, ext |-> File.ext, whole |-> TRUE, at |-> clock + 1]
  BY <1>5 DEF NewBlob
<1>7. StoredBlob(blob)' /\ blob.at = clock + 1 /\ blob.corpus = upload.corpus
  BY <1>1, <1>2, <1>6 DEF StoredBlob, UploadInv, UploadShape
<1>8. blobs' \subseteq blobs \cup {blob} /\ upload'.stored \subseteq upload.stored \cup {blob}
      /\ \A b \in {blob} : StoredBlob(b)' /\ b.at = clock + 1 /\ b.corpus = upload.corpus
  BY <1>3, <1>4, <1>5, <1>7
<1> QED
  BY <1>1, <1>4, <1>8, NewBlobsKeep

\* Blobs that are marked are the same with a new time.
LEMMA MarkKeeps == CorpusInv /\ MarkForReindex => CorpusInv'
<1> SUFFICES ASSUME CorpusInv, MarkForReindex PROVE CorpusInv'
  OBVIOUS
<1>1. upload # NoUpload /\ UNCHANGED <<docs, clear, jobs, source, indexer>>
  BY DEF MarkForReindex
<1>2. UploadInv /\ clock \in Nat /\ UploadShape /\ \A b \in blobs : StoredBlob(b)
  BY <1>1 DEF CorpusInv, UploadInv
<1>3. CASE Reindexes
  <2>1. clock' = clock + 1
    BY <1>3 DEF MarkForReindex
  <2>2. PICK lost, marked : /\ marked = {[b EXCEPT !.at = clock + 1] : b \in Named \ lost}
                            /\ blobs' = (blobs \ (Named \ lost)) \cup marked
                            /\ upload' = [upload EXCEPT !.stored = marked, !.stage = "start"]
    BY <1>3 DEF MarkForReindex
  <2>3. UploadShape' /\ upload'.corpus = upload.corpus /\ upload'.alone = upload.alone /\ upload'.stored = marked
    BY <1>2, <2>2 DEF UploadShape
  <2>4. ASSUME NEW c \in marked PROVE StoredBlob(c)' /\ c.at = clock + 1 /\ c.corpus = upload.corpus
    <3>1. PICK b \in Named : c = [b EXCEPT !.at = clock + 1]
      BY <2>2, <2>4
    <3>2. StoredBlob(b) /\ b.corpus = upload.corpus
      BY <1>2 DEF Named
    <3>3. c \in [corpus : {"b", "c"}, hash : {c.hash}, ext : {c.ext}, whole : BOOLEAN, at : {clock + 1}]
      BY <3>1, <3>2 DEF StoredBlob
    <3>4. c.corpus = b.corpus
      BY <3>1, <3>2 DEF StoredBlob
    <3> QED
      BY <1>2, <2>1, <3>2, <3>3, <3>4 DEF StoredBlob
  <2> QED
    BY <1>1, <2>1, <2>2, <2>3, <2>4, NewBlobsKeep
<1>4. CASE ~Reindexes
  <2>1. upload' = [upload EXCEPT !.stage = "start"] /\ UNCHANGED <<blobs, clock>>
    BY <1>4 DEF MarkForReindex
  <2>2. /\ UploadShape' /\ upload'.corpus = upload.corpus /\ upload'.stored = upload.stored /\ upload'.alone = upload.alone
    BY <1>2, <2>1 DEF UploadShape
  <2> QED
    BY <1>1, <2>1, <2>2, PassedOverKeeps
<1> QED
  BY <1>3, <1>4

LEMMA SkipsKeep == CorpusInv /\ (SkipDuplicate \/ StoreFails \/ EndUpload) => CorpusInv'
<1> SUFFICES ASSUME CorpusInv, SkipDuplicate \/ StoreFails \/ EndUpload PROVE CorpusInv'
  OBVIOUS
<1>1. upload # NoUpload /\ UNCHANGED <<blobs, docs, clock, clear, jobs, source, indexer>>
  BY DEF SkipDuplicate, StoreFails, EndUpload, Filing
<1>2. CASE SkipDuplicate
  BY <1>1, <1>2, PassedOverKeeps DEF SkipDuplicate, UploadShape
<1>3. CASE StoreFails
  BY <1>1, <1>3, PassedOverKeeps DEF StoreFails, UploadShape
<1>4. CASE EndUpload
  BY <1>1, <1>4, PassedOverKeeps DEF EndUpload
<1> QED
  BY <1>2, <1>3, <1>4

\* Whatever starts beside them, executions are not alone any more.
LEMMA DisturbedJobs ==
  ASSUME CorpusInv, NEW i \in Jobs
  PROVE  /\ Active(i) => Disturbed(jobs)[i] = [jobs[i] EXCEPT !.alone = FALSE]
         /\ ~Active(i) => Disturbed(jobs)[i] = jobs[i]
         /\ Disturbed(jobs) = [k \in Jobs |-> Disturbed(jobs)[k]]
  BY DEF Disturbed, Active

LEMMA DisturbedKeeps ==
  ASSUME CorpusInv, NEW i \in Jobs, jobs'[i] = Disturbed(jobs)[i], UNCHANGED clock
  PROVE  JobTypes(i)' /\ JobAlone(i)' /\ Active(i)' = Active(i)
<1>1. JobTypes(i)
  BY DEF CorpusInv
<1>2. CASE Active(i)
  <2>1. jobs'[i] = [jobs[i] EXCEPT !.alone = FALSE]
    BY <1>2, DisturbedJobs
  <2>2. /\ jobs'[i].stage = jobs[i].stage /\ jobs'[i].alone = FALSE /\ jobs'[i].promised = jobs[i].promised
        /\ jobs'[i].scope = jobs[i].scope /\ jobs'[i].status = jobs[i].status
    BY <1>1, <2>1 DEF JobTypes
  <2>3. JobTypes(i)'
    BY <1>1, <2>1, <2>2 DEF JobTypes, StoredBlob, InRange
  <2> QED
    BY <2>2, <2>3 DEF JobAlone, Active
<1>3. CASE ~Active(i)
  <2>1. jobs'[i] = jobs[i]
    BY <1>3, DisturbedJobs
  <2>2. Active(i)' = Active(i)
    BY <2>1 DEF Active
  <2>3. JobTypes(i)'
    BY <1>1, <2>1 DEF JobTypes, StoredBlob, InRange
  <2> QED
    BY <1>3, <2>2, <2>3 DEF JobAlone
<1> QED
  BY <1>2, <1>3

\* An execution promises what the request has stored; it is alone when nothing
\* else is under way, and then all of it is still before the indexer.
LEMMA StartExecutionKeeps ==
  ASSUME CorpusInv, NEW scope, upload # NoUpload, scope \in {upload.corpus, Everything}, StartExecution(scope),
         upload' = NoUpload, UNCHANGED <<blobs, docs, clock, clear, source, indexer>>
  PROVE  CorpusInv'
<1>1. PICK j \in Jobs :
          /\ jobs[j].stage = "off"
          /\ jobs' = [Disturbed(jobs) EXCEPT ![j] = [NewJob EXCEPT
                 !.stage = "index", !.scope = scope, !.promised = upload.stored,
                 !.alone = (upload.alone /\ \A i \in Jobs : ~Active(i))]]
  BY DEF StartExecution
<1> DEFINE started == jobs'[j]
<1>2. UploadInv /\ UploadShape /\ clock \in Nat
  BY DEF CorpusInv, UploadInv
<1>3. /\ started \in [stage : {"index"}, scope : {"b", "c", Everything}, promised : {upload.stored}, alone : BOOLEAN,
                      attempt : {1}, status : {"none"}]
      /\ started.scope = scope /\ started.promised = upload.stored
      /\ started.alone => upload.alone /\ \A i \in Jobs : ~Active(i)
  BY <1>1, <1>2, DisturbedJobs DEF NewJob, UploadShape
<1>4. jobs' = [i \in Jobs |-> jobs'[i]] /\ \A i \in Jobs : i # j => jobs'[i] = Disturbed(jobs)[i]
  BY <1>1, DisturbedJobs
<1>5. \A i \in Jobs : i # j => JobTypes(i)' /\ JobAlone(i)' /\ Active(i)' = Active(i)
  BY <1>4, DisturbedKeeps
<1>6. JobTypes(j)'
  BY <1>2, <1>3 DEF JobTypes, UploadInv, StoredBlob, InRange
<1>7. JobAlone(j)'
  BY <1>2, <1>3, <1>5, SamePlaces DEF JobAlone, UploadInv
<1>8. UploadInv' /\ IndexerTypes' /\ \A b \in blobs' : StoredBlob(b)'
  BY DEF UploadInv, CorpusInv, IndexerTypes, StoredBlob
<1> QED
  BY <1>2, <1>4, <1>5, <1>6, <1>7, <1>8 DEF CorpusInv

LEMMA StartIngestionKeeps == CorpusInv /\ StartIngestion => CorpusInv'
<1> SUFFICES ASSUME CorpusInv, StartIngestion PROVE CorpusInv'
  OBVIOUS
<1>1. upload # NoUpload /\ upload' = NoUpload /\ UNCHANGED <<blobs, docs, clock, clear, source, indexer>>
  BY DEF StartIngestion
<1>2. CASE StartExecution(upload.corpus) \/ StartExecution(Everything)
  BY <1>1, <1>2, StartExecutionKeeps
<1>3. CASE UNCHANGED jobs
  BY <1>1, <1>3, PassedOverKeeps
<1> QED
  BY <1>2, <1>3 DEF StartIngestion

\* A step of one execution: no other is alone beside it.
LEMMA OtherJobs ==
  ASSUME CorpusInv, NEW j \in Jobs, Active(j), NEW task1, jobs' = [jobs EXCEPT ![j] = task1],
         UNCHANGED <<blobs, clock, upload, clear>>, UploadInv', IndexerTypes', JobTypes(j)', JobAlone(j)'
  PROVE  CorpusInv'
<1>1. jobs' = [i \in Jobs |-> jobs'[i]] /\ \A i \in Jobs : i # j => jobs'[i] = jobs[i]
  BY DEF CorpusInv
<1>2. ASSUME NEW i \in Jobs, i # j PROVE JobTypes(i)' /\ JobAlone(i)'
  <2>1. JobTypes(i) /\ JobAlone(i) /\ jobs'[i] = jobs[i]
    BY <1>1, <1>2 DEF CorpusInv
  <2>2. JobTypes(i)'
    BY <2>1 DEF JobTypes, StoredBlob, InRange
  <2>3. ~(Active(i) /\ jobs[i].alone)
    BY <1>2, <2>1 DEF JobAlone
  <2> QED
    BY <2>1, <2>2, <2>3 DEF JobAlone, Active
<1>3. clock' \in Nat /\ \A b \in blobs' : StoredBlob(b)'
  BY DEF CorpusInv, StoredBlob
<1> QED
  BY <1>1, <1>2, <1>3 DEF CorpusInv

LEMMA SameUpload ==
  ASSUME CorpusInv, UNCHANGED <<blobs, clock, upload, clear>>,
         upload # NoUpload /\ upload.alone => \A b \in blobs \cap upload.stored : Ahead(b) => Ahead(b)'
  PROVE  UploadInv'
<1>1. UploadInv
  BY DEF CorpusInv
<1> QED
  BY <1>1 DEF UploadInv, UploadShape, StoredBlob

\* A step of an execution that changes its stage, or ends it, and nothing else.
LEMMA StageOf ==
  ASSUME CorpusInv, NEW j \in Jobs, NEW to \in {"source", "run", "wait"}, Goes(j, to), Active(j), UNCHANGED clock
  PROVE  /\ jobs'[j].stage = to /\ jobs'[j].alone = jobs[j].alone /\ jobs'[j].scope = jobs[j].scope
         /\ jobs'[j].promised = jobs[j].promised /\ JobTypes(j)'
<1>1. JobTypes(j) /\ jobs' = [jobs EXCEPT ![j].stage = to] /\ jobs[j].stage # "ended" /\ jobs = [k \in Jobs |-> jobs[k]]
  BY DEF CorpusInv, Goes, Active
<1>2. jobs'[j] = [jobs[j] EXCEPT !.stage = to]
  BY <1>1
<1>3. /\ jobs'[j].stage = to /\ jobs'[j].alone = jobs[j].alone /\ jobs'[j].scope = jobs[j].scope
      /\ jobs'[j].promised = jobs[j].promised /\ jobs'[j].status = jobs[j].status
  BY <1>1, <1>2 DEF JobTypes
<1> QED
  BY <1>1, <1>2, <1>3 DEF JobTypes, StoredBlob, InRange

LEMMA EndOf ==
  ASSUME CorpusInv, NEW j \in Jobs, NEW how \in {"success", "failed", "timeout", "raised"}, Ends(j, how), Active(j),
         UNCHANGED <<blobs, clock, upload, clear, docs, indexer>>
  PROVE  CorpusInv'
<1>1. JobTypes(j) /\ jobs' = [jobs EXCEPT ![j].stage = "ended", ![j].status = how] /\ jobs = [k \in Jobs |-> jobs[k]]
  BY DEF CorpusInv, Ends
<1>2. jobs' = [jobs EXCEPT ![j] = [jobs[j] EXCEPT !.stage = "ended", !.status = how]]
      /\ jobs'[j] = [jobs[j] EXCEPT !.stage = "ended", !.status = how]
  BY <1>1
<1>3. jobs'[j].stage = "ended" /\ jobs'[j].scope = jobs[j].scope /\ jobs'[j].promised = jobs[j].promised
  BY <1>1, <1>2 DEF JobTypes
<1>4. JobTypes(j)'
  BY <1>1, <1>2, <1>3 DEF JobTypes, StoredBlob, InRange
<1>5. JobAlone(j)'
  BY <1>3 DEF JobAlone, Active
<1>6. UploadInv' /\ IndexerTypes'
  BY SameUpload, SamePlaces DEF CorpusInv, IndexerTypes
<1> QED
  BY <1>2, <1>4, <1>5, <1>6, OtherJobs

\* An index that is made anew is empty, and the indexer that is made with it
\* starts from the beginning.
LEMMA EnsureIndexKeeps ==
  ASSUME CorpusInv, NEW j \in Jobs, EnsureIndex(j)
  PROVE  CorpusInv'
<1>1. jobs[j].stage = "index" /\ Active(j) /\ Goes(j, "source") /\ UNCHANGED <<blobs, clock, upload, clear, source>>
      /\ (UNCHANGED <<docs, indexer>> \/ (docs' = {} /\ indexer' = IdleIndexer))
  BY DEF EnsureIndex, At, Active
<1>2. clock \in Nat /\ IndexerTypes /\ UploadInv /\ JobTypes(j) /\ JobAlone(j)
  BY DEF CorpusInv
<1>3. \A b : StoredBlob(b) /\ Ahead(b) => Ahead(b)'
  <2>1. CASE UNCHANGED <<docs, indexer>>
    BY <2>1, SamePlaces
  <2>2. CASE indexer' = IdleIndexer
    BY <2>2 DEF IdleIndexer, Ahead, StoredBlob
  <2> QED
    BY <1>1, <2>1, <2>2
<1>4. IndexerTypes'
  <2>1. CASE indexer' = indexer
    BY <1>1, <1>2, <2>1 DEF IndexerTypes
  <2>2. CASE indexer' = IdleIndexer
    BY <1>1, <1>2, <2>2 DEF IndexerTypes, IdleIndexer
  <2> QED
    BY <1>1, <2>1, <2>2
<1>5. UploadInv'
  BY <1>1, <1>2, <1>3, SameUpload DEF UploadInv
<1>6. jobs'[j].stage = "source" /\ jobs'[j].alone = jobs[j].alone /\ jobs'[j].promised = jobs[j].promised /\ JobTypes(j)'
  BY <1>1, StageOf
<1>7. \A i \in Jobs : Active(i)' => Active(i)
  BY <1>1 DEF Goes, Active, CorpusInv
<1>8. JobAlone(j)'
  BY <1>1, <1>2, <1>3, <1>6, <1>7 DEF JobAlone, JobTypes
<1>9. jobs' = [jobs EXCEPT ![j] = jobs'[j]]
  BY <1>1 DEF Goes, CorpusInv
<1> QED
  BY <1>1, <1>4, <1>5, <1>6, <1>8, <1>9, OtherJobs

LEMMA EnsureSourceKeeps ==
  ASSUME CorpusInv, NEW j \in Jobs, EnsureSource(j)
  PROVE  CorpusInv'
<1>1. jobs[j].stage = "source" /\ Active(j) /\ Goes(j, "run") /\ source' = jobs[j].scope
      /\ UNCHANGED <<blobs, docs, clock, upload, clear, indexer>>
  BY DEF EnsureSource, At, Active
<1>2. IndexerTypes /\ UploadInv /\ JobTypes(j) /\ JobAlone(j)
  BY DEF CorpusInv
<1>3. IndexerTypes' /\ UploadInv'
  BY <1>1, <1>2, SameUpload, SamePlaces DEF IndexerTypes
<1>4. jobs'[j].stage = "run" /\ jobs'[j].alone = jobs[j].alone /\ jobs'[j].promised = jobs[j].promised
      /\ jobs'[j].scope = jobs[j].scope /\ JobTypes(j)'
  BY <1>1, StageOf
<1>5. \A i \in Jobs : Active(i)' => Active(i)
  BY <1>1 DEF Goes, Active, CorpusInv
<1>6. JobAlone(j)'
  BY <1>1, <1>2, <1>4, <1>5, SamePlaces DEF JobAlone, JobTypes
<1>7. jobs' = [jobs EXCEPT ![j] = jobs'[j]]
  BY <1>1 DEF Goes, CorpusInv
<1> QED
  BY <1>1, <1>3, <1>4, <1>6, <1>7, OtherJobs

\* A run takes every blob of the data source that is newer than the mark; a
\* request beside it stores newer ones than those of the other corpus.
LEMMA RunStarts ==
  ASSUME CorpusInv, NEW latest, indexer.running = FALSE,
         LET found == {b \in InScope(source) : b.at > indexer.mark}
             times == {indexer.mark} \cup {b.at : b \in found}
         IN  /\ latest \in times
             /\ indexer'.running = TRUE /\ indexer'.todo = found /\ indexer'.next = latest /\ indexer'.mark = indexer.mark,
         UNCHANGED <<blobs, docs, clock, upload, clear, source>>
  PROVE  /\ latest \in 0..clock /\ UploadInv'
         /\ \A b \in blobs : InRange(b, source) /\ Ahead(b) => Awaited(b)'
<1>1. clock \in Nat /\ IndexerTypes /\ UploadInv /\ \A b \in blobs : StoredBlob(b)
  BY DEF CorpusInv
<1>2. latest = indexer.mark \/ \E c \in blobs : InRange(c, source) /\ latest = c.at
  BY DEF InScope, InRange
<1>3. latest \in 0..clock
  BY <1>1, <1>2 DEF IndexerTypes, StoredBlob
<1>4. \A b \in blobs : Indexed(b) => Indexed(b)'
  BY DEF Indexed, Name
<1>5. ASSUME NEW b \in blobs, InRange(b, source), Ahead(b) PROVE Awaited(b)' /\ Ahead(b)'
  <2>1. CASE Indexed(b)
    BY <1>4, <2>1 DEF Awaited, Ahead
  <2>2. CASE indexer.mark < b.at
    <3>1. b \in indexer'.todo
      BY <1>1, <1>5, <2>2 DEF InScope, InRange, IndexerTypes, StoredBlob
    <3> QED
      BY <2>2, <3>1 DEF Awaited, Ahead
  <2> QED
    BY <1>5, <2>1, <2>2 DEF Ahead
<1>6. ASSUME upload # NoUpload, NEW b \in blobs \cap upload.stored, ~InRange(b, source), Ahead(b) PROVE Ahead(b)'
  <2>1. CASE Indexed(b)
    BY <1>4, <2>1 DEF Ahead
  <2>2. CASE indexer.mark < b.at
    <3>1. \A c \in blobs : InRange(c, source) => c.at < b.at
      BY <1>1, <1>6 DEF UploadInv, InRange
    <3>2. latest < b.at
      BY <1>2, <2>2, <3>1
    <3> QED
      BY <2>2, <3>2 DEF Ahead
  <2> QED
    BY <1>6, <2>1, <2>2 DEF Ahead
<1>7. UploadInv'
  BY <1>5, <1>6, SameUpload
<1> QED
  BY <1>3, <1>5, <1>7

LEMMA RunIndexerKeeps ==
  ASSUME CorpusInv, NEW j \in Jobs, RunIndexer(j)
  PROVE  CorpusInv'
<1>1. jobs[j].stage = "run" /\ Active(j) /\ UNCHANGED <<blobs, docs, clock, upload, clear, source>>
  BY DEF RunIndexer, At, Active
<1>2. IndexerTypes /\ UploadInv /\ JobTypes(j) /\ JobAlone(j) /\ clock \in Nat /\ jobs = [k \in Jobs |-> jobs[k]]
  BY DEF CorpusInv
<1> DEFINE shared == [jobs EXCEPT ![j].stage = "wait", ![j].alone = FALSE]
<1>3. ASSUME jobs' = shared, UploadInv', IndexerTypes' PROVE CorpusInv'
  <2>1. jobs'[j] = [jobs[j] EXCEPT !.stage = "wait", !.alone = FALSE] /\ jobs' = [jobs EXCEPT ![j] = jobs'[j]]
    BY <1>2, <1>3
  <2>2. /\ jobs'[j].stage = "wait" /\ jobs'[j].alone = FALSE /\ jobs'[j].scope = jobs[j].scope
        /\ jobs'[j].promised = jobs[j].promised /\ jobs'[j].status = jobs[j].status
    BY <1>2, <2>1 DEF JobTypes
  <2>3. JobTypes(j)'
    BY <1>1, <1>2, <2>1, <2>2 DEF JobTypes, StoredBlob, InRange
  <2>4. JobAlone(j)'
    BY <2>2 DEF JobAlone
  <2> QED
    BY <1>1, <1>3, <2>1, <2>3, <2>4, OtherJobs
<1>4. CASE indexer.running
  <2>1. jobs' = shared /\ UNCHANGED indexer
    BY <1>4 DEF RunIndexer
  <2>2. UploadInv' /\ IndexerTypes'
    BY <1>1, <1>2, <2>1, SameUpload, SamePlaces DEF IndexerTypes
  <2> QED
    BY <1>3, <2>1, <2>2
<1>5. CASE ~indexer.running
  <2> DEFINE found == {b \in InScope(source) : b.at > indexer.mark}
             times == {indexer.mark} \cup {b.at : b \in found}
             started(latest) == [indexer EXCEPT !.running = TRUE, !.todo = found, !.next = latest]
  <2>1. PICK latest \in times : \/ Goes(j, "wait") /\ indexer' = [started(latest) EXCEPT !.last = "inProgress"]
                                \/ jobs' = shared /\ indexer' = started(latest)
    BY <1>5 DEF RunIndexer
  <2>2. /\ indexer' \in [running : {TRUE}, todo : {found}, next : {latest}, mark : {indexer.mark},
                         last : {indexer.last, "inProgress"}]
        /\ indexer'.running = TRUE /\ indexer'.todo = found /\ indexer'.next = latest /\ indexer'.mark = indexer.mark
        /\ Goes(j, "wait") => indexer'.last = "inProgress" \/ jobs' = shared
    BY <1>2, <2>1 DEF IndexerTypes
  <2>3. indexer.running = FALSE
    BY <1>2, <1>5 DEF IndexerTypes
  <2>4. latest \in 0..clock /\ UploadInv' /\ \A b \in blobs : InRange(b, source) /\ Ahead(b) => Awaited(b)'
    BY <1>1, <2>2, <2>3, RunStarts
  <2>5. IndexerTypes'
    BY <1>1, <1>2, <2>2, <2>4 DEF IndexerTypes
  <2>6. CASE jobs' = shared
    BY <1>3, <2>4, <2>5, <2>6
  <2>7. CASE Goes(j, "wait") /\ indexer'.last = "inProgress"
    <3>1. jobs'[j].stage = "wait" /\ jobs'[j].alone = jobs[j].alone /\ jobs'[j].promised = jobs[j].promised
          /\ jobs'[j].scope = jobs[j].scope /\ JobTypes(j)'
      BY <1>1, <2>7, StageOf
    <3>2. \A i \in Jobs : Active(i)' => Active(i)
      BY <1>1, <2>7 DEF Goes, Active, CorpusInv
    <3>3. jobs[j].alone => source = jobs[j].scope /\ \A b \in blobs \cap jobs[j].promised : Ahead(b) /\ InRange(b, source)
      BY <1>1, <1>2 DEF JobAlone, JobTypes
    <3>4. JobAlone(j)'
      BY <1>1, <1>2, <2>4, <2>7, <3>1, <3>2, <3>3 DEF JobAlone
    <3>5. jobs' = [jobs EXCEPT ![j] = jobs'[j]]
      BY <2>7 DEF Goes, CorpusInv
    <3> QED
      BY <1>1, <2>4, <2>5, <3>1, <3>4, <3>5, OtherJobs
  <2> QED
    BY <2>1, <2>2, <2>6, <2>7
<1> QED
  BY <1>4, <1>5

\* A failed run leaves what it had not indexed newer than the mark, so that it
\* can be tried again.
LEMMA WaitKeeps ==
  ASSUME CorpusInv, NEW j \in Jobs, WaitForIndexer(j)
  PROVE  CorpusInv'
<1>1. jobs[j].stage = "wait" /\ Active(j) /\ UNCHANGED <<blobs, docs, clock, upload, clear, source, indexer>>
  BY DEF WaitForIndexer, At, Active
<1>2. CASE \E how \in {"success", "failed", "timeout", "raised"} : Ends(j, how)
  BY <1>1, <1>2, EndOf
<1>3. CASE indexer.last = "transientFailure" /\ jobs' = [jobs EXCEPT ![j].stage = "run", ![j].attempt = @ + 1]
  <2>1. IndexerTypes /\ JobTypes(j) /\ JobAlone(j) /\ jobs = [k \in Jobs |-> jobs[k]]
    BY DEF CorpusInv
  <2>2. jobs'[j] = [jobs[j] EXCEPT !.stage = "run", !.attempt = @ + 1] /\ jobs' = [jobs EXCEPT ![j] = jobs'[j]]
    BY <1>3, <2>1
  <2>3. /\ jobs'[j].stage = "run" /\ jobs'[j].alone = jobs[j].alone /\ jobs'[j].scope = jobs[j].scope
        /\ jobs'[j].promised = jobs[j].promised /\ jobs'[j].status = jobs[j].status
    BY <2>1, <2>2 DEF JobTypes
  <2>4. JobTypes(j)'
    BY <1>1, <2>1, <2>2, <2>3 DEF JobTypes, StoredBlob, InRange
  <2>5. \A i \in Jobs : Active(i)' => Active(i)
    BY <1>1, <2>1, <2>2 DEF Active
  <2>6. jobs[j].alone => ~indexer.running /\ \A b \in blobs \cap jobs[j].promised : Ahead(b)
    BY <1>1, <1>3, <2>1 DEF JobAlone, Awaited, Ahead
  <2>7. JobAlone(j)'
    BY <1>1, <2>1, <2>3, <2>5, <2>6, SamePlaces DEF JobAlone
  <2>8. UploadInv' /\ IndexerTypes'
    BY <1>1, <2>1, SameUpload, SamePlaces DEF IndexerTypes
  <2> QED
    BY <1>1, <2>2, <2>4, <2>7, <2>8, OtherJobs
<1> QED
  BY <1>2, <1>3 DEF WaitForIndexer

LEMMA EnsureFailsKeeps ==
  ASSUME CorpusInv, NEW j \in Jobs, EnsureFails(j)
  PROVE  CorpusInv'
  BY EndOf DEF EnsureFails, Active

\* What the indexer does to a blob that is there.
LEMMA IndexerMoves ==
  ASSUME CorpusInv, UNCHANGED <<blobs, clock, upload, clear, jobs, source>>, IndexerTypes',
         \A b \in blobs : (Ahead(b) => Ahead(b)') /\ ((indexer.running => indexer.last = "inProgress") /\ Awaited(b) => Awaited(b)'),
         (indexer.running => indexer.last = "inProgress") => (indexer'.running => indexer'.last = "inProgress")
  PROVE  CorpusInv'
<1>1. UploadInv'
  BY SameUpload
<1>2. ASSUME NEW j \in Jobs PROVE JobTypes(j)' /\ JobAlone(j)'
  <2>1. JobTypes(j) /\ JobAlone(j)
    BY DEF CorpusInv
  <2>2. JobTypes(j)'
    BY <2>1 DEF JobTypes, StoredBlob, InRange
  <2>3. JobAlone(j)'
    BY <2>1 DEF JobAlone, Active
  <2> QED
    BY <2>2, <2>3
<1> QED
  BY <1>1, <1>2 DEF CorpusInv, StoredBlob

LEMMA IndexBlobKeeps == CorpusInv /\ IndexBlob => CorpusInv'
<1> SUFFICES ASSUME CorpusInv, IndexBlob PROVE CorpusInv'
  OBVIOUS
<1>1. UNCHANGED <<blobs, clock, upload, clear, jobs, source>> /\ IndexerTypes
  BY DEF IndexBlob, CorpusInv
<1>2. PICK c \in indexer.todo :
          /\ docs' = {d \in docs : Name(d) # Name(c)} \cup {Document(x) : x \in {y \in blobs : Name(y) = Name(c)}}
          /\ indexer' = [indexer EXCEPT !.todo = @ \ {c}]
  BY DEF IndexBlob
<1>3. /\ indexer'.todo = indexer.todo \ {c} /\ indexer'.running = indexer.running /\ indexer'.next = indexer.next
      /\ indexer'.mark = indexer.mark /\ indexer'.last = indexer.last /\ IndexerTypes'
  BY <1>1, <1>2 DEF IndexerTypes
<1>4. \A b : Name(Document(b)) = Name(b)
  BY DEF Name, Document
<1>5. ASSUME NEW b \in blobs, Name(b) = Name(c) PROVE Indexed(b)'
  <2>1. Document(b) \in docs'
    BY <1>2, <1>5
  <2>2. \E d \in docs' : Name(d) = Name(b)
    BY <1>4, <2>1
  <2> QED
    BY <2>2 DEF Indexed, Name
<1>6. ASSUME NEW b \in blobs, Indexed(b) PROVE Indexed(b)'
  <2>1. CASE Name(b) = Name(c)
    BY <1>5, <2>1
  <2>2. CASE Name(b) # Name(c)
    <3>1. PICK d \in docs : Name(d) = Name(b)
      BY <1>6 DEF Indexed
    <3>2. d \in docs'
      BY <1>2, <2>2, <3>1
    <3>3. \E e \in docs' : Name(e) = Name(b)
      BY <3>1, <3>2
    <3> QED
      BY <3>3 DEF Indexed, Name
  <2> QED
    BY <2>1, <2>2
<1>7. \A b \in blobs : (Ahead(b) => Ahead(b)') /\ (Awaited(b) => Awaited(b)')
  BY <1>3, <1>5, <1>6 DEF Ahead, Awaited
<1> QED
  BY <1>1, <1>3, <1>7, IndexerMoves

LEMMA RunEndsKeeps == CorpusInv /\ (FinishRun \/ RunFails) => CorpusInv'
<1> SUFFICES ASSUME CorpusInv, FinishRun \/ RunFails PROVE CorpusInv'
  OBVIOUS
<1>1. UNCHANGED <<blobs, docs, clock, upload, clear, jobs, source>> /\ IndexerTypes /\ indexer.running /\ clock \in Nat
  BY DEF FinishRun, RunFails, CorpusInv
<1>2. \A b : Indexed(b)' = Indexed(b)
  BY <1>1 DEF Indexed, Name
<1>3. CASE FinishRun
  <2>1. /\ indexer.todo = {} /\ indexer' = [indexer EXCEPT !.running = FALSE, !.last = "success", !.mark = indexer.next]
    BY <1>3 DEF FinishRun
  <2>2. indexer'.running = FALSE /\ indexer'.mark = indexer.next /\ IndexerTypes'
    BY <1>1, <2>1 DEF IndexerTypes
  <2>3. \A b \in blobs : (Ahead(b) => Ahead(b)') /\ (Awaited(b) => Awaited(b)')
    BY <1>1, <1>2, <2>1, <2>2 DEF Ahead, Awaited
  <2> QED
    BY <1>1, <2>2, <2>3, IndexerMoves
<1>4. CASE RunFails
  <2>1. indexer' = [indexer EXCEPT !.running = FALSE, !.last = "transientFailure", !.todo = {}]
    BY <1>4 DEF RunFails
  <2>2. indexer'.running = FALSE /\ indexer'.mark = indexer.mark /\ indexer'.last = "transientFailure" /\ IndexerTypes'
    BY <1>1, <2>1 DEF IndexerTypes
  <2>3. \A b \in blobs : (Ahead(b) => Ahead(b)') /\ (Awaited(b) => Awaited(b)')
    BY <1>1, <1>2, <2>2 DEF Ahead, Awaited
  <2> QED
    BY <1>1, <2>2, <2>3, IndexerMoves
<1> QED
  BY <1>3, <1>4

\* A clear that starts makes nothing alone, and while it goes on nothing is.
LEMMA StartClearKeeps == CorpusInv /\ (ClearCorpusB \/ ClearCorpusC \/ Reset) => CorpusInv'
<1> SUFFICES ASSUME CorpusInv, ClearCorpusB \/ ClearCorpusC \/ Reset PROVE CorpusInv'
  OBVIOUS
<1>1. /\ jobs' = Disturbed(jobs) /\ upload' = IF upload = NoUpload THEN upload ELSE [upload EXCEPT !.alone = FALSE]
      /\ UNCHANGED <<blobs, docs, clock, source, indexer>>
  BY DEF ClearCorpusB, ClearCorpusC, Reset, StartClear
<1>2. clock \in Nat /\ IndexerTypes /\ UploadInv /\ \A b \in blobs : StoredBlob(b)
  BY DEF CorpusInv
<1>3. \A i \in Jobs : JobTypes(i)' /\ JobAlone(i)'
  BY <1>1, DisturbedKeeps
<1>4. jobs' = [j \in Jobs |-> jobs'[j]]
  BY <1>1 DEF Disturbed
<1>5. UploadInv'
  <2>1. CASE upload = NoUpload
    BY <1>1, <2>1 DEF UploadInv
  <2>2. CASE upload # NoUpload
    <3>1. UploadShape' /\ upload'.alone = FALSE /\ upload'.corpus = upload.corpus /\ upload'.stored = upload.stored
      BY <1>1, <1>2, <2>2 DEF UploadInv, UploadShape
    <3> QED
      BY <1>1, <1>2, <2>2, <3>1 DEF UploadInv, StoredBlob
  <2> QED
    BY <2>1, <2>2
<1> QED
  BY <1>1, <1>2, <1>3, <1>4, <1>5 DEF CorpusInv, IndexerTypes, StoredBlob

LEMMA ClearGoesOn ==
  ASSUME CorpusInv, clear # NoClear, UNCHANGED <<clock, upload, jobs, source>>, blobs' \subseteq blobs, IndexerTypes'
  PROVE  CorpusInv'
<1>1. UploadInv' /\ clock \in Nat
  BY DEF CorpusInv, UploadInv, UploadShape, StoredBlob
<1>2. ASSUME NEW j \in Jobs PROVE JobTypes(j)' /\ JobAlone(j)'
  <2>1. JobTypes(j) /\ JobAlone(j)
    BY DEF CorpusInv
  <2>2. JobTypes(j)'
    BY <2>1 DEF JobTypes, StoredBlob, InRange
  <2> QED
    BY <2>1, <2>2 DEF JobAlone, Active
<1> QED
  BY <1>1, <1>2 DEF CorpusInv, StoredBlob

LEMMA ClearStepsKeep == CorpusInv /\ (ClearDocs \/ ResetIndexer \/ ClearBlobs \/ ClearFails) => CorpusInv'
<1> SUFFICES ASSUME CorpusInv, ClearDocs \/ ResetIndexer \/ ClearBlobs \/ ClearFails PROVE CorpusInv'
  OBVIOUS
<1>1. clear # NoClear /\ UNCHANGED <<clock, upload, jobs, source>>
  BY DEF ClearDocs, ResetIndexer, ClearBlobs, ClearFails, NoClear
<1>2. blobs' \subseteq blobs
  BY DEF ClearDocs, ResetIndexer, ClearBlobs, ClearFails, InScope
<1>3. indexer' = indexer \/ indexer' = [indexer EXCEPT !.mark = 0, !.last = "reset"]
  BY DEF ClearDocs, ResetIndexer, ClearBlobs, ClearFails
<1>4. clock \in Nat /\ IndexerTypes
  BY DEF CorpusInv
<1>5. IndexerTypes'
  <2>1. CASE indexer' = indexer
    BY <1>1, <1>4, <2>1 DEF IndexerTypes
  <2>2. CASE indexer' = [indexer EXCEPT !.mark = 0, !.last = "reset"]
    <3>1. indexer' \in [running : BOOLEAN, todo : {indexer.todo}, next : 0..clock, mark : {0}, last : {"reset"}]
      BY <1>4, <2>2 DEF IndexerTypes
    <3>2. indexer'.todo = indexer.todo /\ 0 \in 0..clock'
      BY <1>1, <1>4, <3>1
    <3> QED
      BY <1>1, <3>1, <3>2 DEF IndexerTypes
  <2> QED
    BY <1>3, <2>1, <2>2
<1> QED
  BY <1>1, <1>2, <1>5, ClearGoesOn

LEMMA IndexingStepKeeps == CorpusInv /\ [CorpusNext]_corpusVars => CorpusInv'
<1>1. ASSUME CorpusInv, UNCHANGED corpusVars PROVE CorpusInv'
  <2>1. UNCHANGED <<blobs, docs, clock, upload, clear, jobs, source, indexer>>
    BY <1>1 DEF corpusVars
  <2>2. UploadInv'
    BY <1>1, <2>1, SamePlaces DEF CorpusInv, UploadInv, UploadShape, StoredBlob
  <2> QED
    BY <1>1, <2>1, <2>2, RequestsLeaveJobs DEF CorpusInv
<1> QED
  BY <1>1, StartUploadKeeps, SkipsKeep, StoreFileKeeps, MarkKeeps, StartIngestionKeeps, EnsureIndexKeeps, EnsureSourceKeeps,
     EnsureFailsKeeps, RunIndexerKeeps, WaitKeeps, IndexBlobKeeps, RunEndsKeeps, StartClearKeeps, ClearStepsKeep DEF CorpusNext

\* An execution that reports success has read it of the run it had started.
LEMMA SuccessIsRead ==
  ASSUME CorpusInv, CorpusNext, NEW j \in Jobs, At(j, "wait"), jobs'[j].status = "success"
  PROVE  indexer.last = "success"
<1>1. JobTypes(j) /\ jobs[j].stage = "wait" /\ jobs[j].status = "none" /\ Active(j) /\ jobs = [k \in Jobs |-> jobs[k]]
  BY DEF CorpusInv, JobTypes, At, Active
<1>2. jobs' # jobs
  BY <1>1
<1>3. Disturbed(jobs)[j].status = "none"
  BY <1>1, DisturbedJobs DEF JobTypes
<1>4. jobs' # Disturbed(jobs)
  BY <1>3
<1>5. ASSUME StartIngestion PROVE FALSE
  <2>1. PICK i \in Jobs : jobs[i].stage = "off" /\ \E started : jobs' = [Disturbed(jobs) EXCEPT ![i] = started]
    BY <1>2, <1>5 DEF StartIngestion, StartExecution
  <2>2. jobs'[j] = Disturbed(jobs)[j]
    BY <1>1, <2>1, DisturbedJobs
  <2> QED
    BY <1>3, <2>2
<1>6. PICK i \in Jobs : EnsureIndex(i) \/ EnsureSource(i) \/ EnsureFails(i) \/ RunIndexer(i) \/ WaitForIndexer(i)
  BY <1>2, <1>4, <1>5 DEF CorpusNext, UploadCorpusB, UploadCorpusC, StartUpload, SkipDuplicate, StoreFile, StoreFails,
     MarkForReindex, EndUpload, IndexBlob, FinishRun, RunFails, ClearCorpusB, ClearCorpusC, Reset, StartClear, ClearDocs,
     ResetIndexer, ClearBlobs, ClearFails
<1>7. i = j
  <2>1. \/ \E v : jobs' = [jobs EXCEPT ![i].stage = v]
        \/ \E v, w : jobs' = [jobs EXCEPT ![i].stage = v, ![i].status = w]
        \/ \E v, w : jobs' = [jobs EXCEPT ![i].stage = v, ![i].alone = w]
        \/ \E v, w : jobs' = [jobs EXCEPT ![i].stage = v, ![i].attempt = w]
    BY <1>6 DEF EnsureIndex, EnsureSource, EnsureFails, RunIndexer, WaitForIndexer, Goes, Ends
  <2>2. ASSUME i # j PROVE jobs'[j] = jobs[j]
    BY <1>1, <2>1, <2>2
  <2> QED
    BY <1>1, <2>2
<1>8. WaitForIndexer(j)
  BY <1>1, <1>6, <1>7 DEF EnsureIndex, EnsureSource, EnsureFails, RunIndexer, At
<1>9. ASSUME NEW how \in {"failed", "timeout"}, Ends(j, how) PROVE FALSE
  <2>1. jobs'[j] = [jobs[j] EXCEPT !.stage = "ended", !.status = how]
    BY <1>1, <1>9 DEF Ends
  <2> QED
    BY <1>1, <1>9, <2>1 DEF JobTypes
<1>10. ASSUME jobs' = [jobs EXCEPT ![j].stage = "run", ![j].attempt = @ + 1] PROVE FALSE
  <2>1. jobs'[j] = [jobs[j] EXCEPT !.stage = "run", !.attempt = @ + 1]
    BY <1>1, <1>10
  <2> QED
    BY <1>1, <2>1 DEF JobTypes
<1> QED
  BY <1>8, <1>9, <1>10 DEF WaitForIndexer

\* An execution of the ingestion job on Azure that reports success has in the
\* index every file the request stored or marked that is still there, with the
\* exceptions the property names (azure_orchestrator.py, ingestion.py): for any
\* requests, jobs and attempts, however many failures and clears.
THEOREM SuccessHasIndexed == CorpusSpec => SuccessIsIndexed
<1>1. ASSUME CorpusInv, [CorpusNext]_corpusVars
      PROVE  [\A j \in Jobs : At(j, "wait") /\ jobs[j].alone /\ jobs'[j].status = "success" =>
                  \A b \in blobs \cap jobs[j].promised : Name(b) \in {Name(d) : d \in docs}]_corpusVars
  <2>1. SUFFICES ASSUME CorpusNext, NEW j \in Jobs, At(j, "wait"), jobs[j].alone, jobs'[j].status = "success",
                        NEW b \in blobs \cap jobs[j].promised
                 PROVE  Name(b) \in {Name(d) : d \in docs}
    BY <1>1
  <2>2. indexer.last = "success"
    BY <1>1, <2>1, SuccessIsRead
  <2>3. JobAlone(j) /\ Active(j) /\ jobs[j].stage = "wait"
    BY <1>1, <2>1 DEF CorpusInv, At, Active
  <2>4. Awaited(b) /\ ~indexer.running
    BY <2>1, <2>2, <2>3 DEF JobAlone
  <2>5. Indexed(b)
    BY <2>2, <2>4 DEF Awaited
  <2> QED
    BY <2>5 DEF Indexed
<1> QED
  BY <1>1, CorpusInitKeeps, IndexingStepKeeps, PTL DEF CorpusSpec, SuccessIsIndexed

(***************************************************************************)
(* ControlsSources: what a task reads and leaves in the index.             *)
(***************************************************************************)
\* The documents under a prefix are those that were sent.
StoredAs(b, editions) == \A s \in sources : s.batch = b => s.type \in DOMAIN editions /\ s.edition = editions[s.type]

GroupInv(g) ==
    /\ g = [framework |-> g.framework, batch |-> g.batch, files |-> g.files, todo |-> g.todo, failed |-> g.failed]
    /\ g.batch \in 1..batches
    /\ Prepared(g)
    /\ g.todo \subseteq DOMAIN g.files
    /\ StoredAs(g.batch, Sent(g))

Filling == filing # NoFiling /\ filing.current # NoGroup

\* Only the last prefix is still being filled.
FilingInv ==
    filing # NoFiling =>
        /\ filing = [request |-> filing.request, groups |-> filing.groups, current |-> filing.current, ready |-> filing.ready]
        /\ filing.current # NoGroup => GroupInv(filing.current) /\ filing.current.batch = batches
        /\ \E S : filing.ready \in Seq(S)
        /\ \A i \in DOMAIN filing.ready : /\ GroupInv(filing.ready[i])
                                          /\ filing.current # NoGroup => filing.ready[i].batch < batches

Shaped(t) ==
    t \in [stage : {"off", "fetch", "ask", "delete", "send", "ended"}, framework : {t.framework}, batch : 0..batches,
           replace : {t.replace}, dry : {t.dry}, promised : {t.promised}, content : {t.content}, found : {t.found},
           todo : {t.todo}, failed : BOOLEAN, did : {t.did}, exit : {"none", "one", "zero"}, alone : BOOLEAN, left : BOOLEAN]

\* What a task has to read is what was promised; what it has read is that; and
\* while it is alone the index has the requirements of its framework as it found or
\* sent them.
LoadOk(t) ==
    /\ Shaped(t)
    /\ Filling => t.batch < batches
    /\ t.stage = "fetch" /\ t.framework \notin Published =>
           /\ StoredAs(t.batch, t.promised)
           /\ t.promised = [type \in Targets[t.framework] |-> t.promised[type]]
    /\ t.stage \in {"ask", "delete", "send"} => t.content = t.promised
    /\ t.stage = "delete" => /\ t.todo = Requirements(t, t.content)
                             /\ \A r \in t.found : r.framework = t.framework
                             /\ ~t.failed
                             /\ t.alone /\ ~t.left => t.found = There(t)
    /\ t.stage = "send" => /\ t.todo \subseteq Requirements(t, t.content)
                           /\ t.alone /\ ~t.left /\ ~t.failed => There(t) = Requirements(t, t.content) \ t.todo
    /\ t.stage \in {"off", "fetch", "ask"} => ~t.failed

AloneIsAlone ==
    \A k, l \in Loads : Busy(k) /\ Busy(l) /\ loads[l].alone /\ loads[k].framework = loads[l].framework => k = l

SourcesInv ==
    /\ batches \in Nat /\ \A s \in sources : s.batch \in 1..batches
    /\ FilingInv
    /\ loads = [l \in Loads |-> loads[l]]
    /\ \A l \in Loads : LoadOk(loads[l])
    /\ AloneIsAlone

LEMMA SourcesInitIsInv == SourcesInit => SourcesInv
<1> SUFFICES ASSUME SourcesInit PROVE SourcesInv
  OBVIOUS
<1>1. batches = 0 /\ filing = NoFiling /\ loads = [l \in Loads |-> NewLoad]
  BY DEF SourcesInit
<1>2. LoadOk(NewLoad)
  BY <1>1 DEF LoadOk, Shaped, NewLoad, Filling
<1>3. \A l \in Loads : ~Busy(l)
  BY <1>1 DEF Busy, NewLoad
<1> QED
  BY <1>1, <1>2, <1>3 DEF SourcesInit, SourcesInv, FilingInv, AloneIsAlone

(***************************************************************************)
(* The request.                                                            *)
(***************************************************************************)
\* The documents of a group stay what was sent while other prefixes are filled.
LEMMA GroupStays ==
  ASSUME NEW g, GroupInv(g), batches \in Nat, batches' \in Nat, batches <= batches',
         \A s \in sources' : s \in sources \/ s.batch # g.batch
  PROVE  GroupInv(g)'
<1>1. StoredAs(g.batch, Sent(g))'
  BY DEF GroupInv, StoredAs, Sent
<1>2. g.batch \in 1..batches'
  BY DEF GroupInv
<1> QED
  BY <1>1, <1>2 DEF GroupInv, Prepared

\* So does what a task is to read, and all else of a task.
LEMMA LoadStays ==
  ASSUME NEW t, LoadOk(t), batches \in Nat, batches' \in Nat, batches <= batches', shelf' = shelf,
         Filling' => t.batch < batches',
         \A s \in sources' : s \in sources \/ s.batch # t.batch
  PROVE  LoadOk(t)'
<1>1. Shaped(t)'
  <2>1. t.batch \in 0..batches'
    BY DEF LoadOk, Shaped
  <2> QED
    BY <2>1 DEF LoadOk, Shaped
<1>2. StoredAs(t.batch, t.promised) => StoredAs(t.batch, t.promised)'
  BY DEF StoredAs
<1>3. There(t)' = There(t) /\ Requirements(t, t.content)' = Requirements(t, t.content)
  BY DEF There, Requirements
<1> QED
  BY <1>1, <1>2, <1>3 DEF LoadOk

\* An action that leaves the tasks alone.
LEMMA TasksStay ==
  ASSUME SourcesInv, UNCHANGED <<loads, shelf>>, batches' \in Nat, batches <= batches', FilingInv',
         \A s \in sources' : s.batch \in 1..batches',
         \A l \in Loads : (Filling' => loads[l].batch < batches')
                          /\ \A s \in sources' : s \in sources \/ s.batch # loads[l].batch
  PROVE  SourcesInv'
<1>1. \A l \in Loads : LoadOk(loads[l])'
  BY LoadStays DEF SourcesInv
<1>2. loads' = [l \in Loads |-> loads'[l]] /\ AloneIsAlone'
  BY DEF SourcesInv, AloneIsAlone, Busy
<1> QED
  BY <1>1, <1>2 DEF SourcesInv

LEMMA ReceiveKeeps == SourcesInv /\ (ReceiveSources \/ AnswerUpload) => SourcesInv'
<1> SUFFICES ASSUME SourcesInv, ReceiveSources \/ AnswerUpload PROVE SourcesInv'
  OBVIOUS
<1>1. UNCHANGED <<sources, loads, shelf, batches>>
  BY DEF ReceiveSources, AnswerUpload
<1>2. \/ filing' = NoFiling
      \/ \E r, gs : filing' = [request |-> r, groups |-> gs, current |-> NoGroup, ready |-> <<>>]
  BY DEF ReceiveSources, AnswerUpload
<1>3. FilingInv' /\ ~Filling'
  <2>1. CASE filing' = NoFiling
    BY <2>1 DEF FilingInv, Filling
  <2>2. ASSUME NEW r, NEW gs, filing' = [request |-> r, groups |-> gs, current |-> NoGroup, ready |-> <<>>]
        PROVE  FilingInv' /\ ~Filling'
    <3>1. filing'.ready = <<>> /\ filing'.ready \in Seq({}) /\ DOMAIN filing'.ready = {} /\ filing'.current = NoGroup
      BY <2>2
    <3>2. filing' = [request |-> filing'.request, groups |-> filing'.groups, current |-> filing'.current, ready |-> filing'.ready]
      BY <2>2
    <3> QED
      BY <3>1, <3>2 DEF FilingInv, Filling
  <2> QED
    BY <1>2, <2>1, <2>2
<1> QED
  BY <1>1, <1>3, TasksStay DEF SourcesInv

LEMMA PrepareKeeps == SourcesInv /\ PrepareGroup => SourcesInv'
<1> SUFFICES ASSUME SourcesInv, PrepareGroup PROVE SourcesInv'
  OBVIOUS
<1>1. UNCHANGED <<sources, loads, shelf>> /\ filing # NoFiling /\ filing.current = NoGroup
  BY DEF PrepareGroup, Between
<1> DEFINE g == Head(filing.groups)
<1>4. PICK now : now = [framework |-> g.framework, batch |-> batches + 1, files |-> g.files, todo |-> DOMAIN g.files, failed |-> FALSE]
  OBVIOUS
<1>2. CASE filing' = NoFiling /\ batches' = batches
  BY <1>1, <1>2, TasksStay DEF SourcesInv, FilingInv, Filling
<1>3. CASE /\ Prepared(g) /\ batches' = batches + 1
           /\ filing' = [filing EXCEPT !.groups = Tail(@), !.current = now]
  <2>1. filing = [request |-> filing.request, groups |-> filing.groups, current |-> filing.current, ready |-> filing.ready]
    BY <1>1 DEF SourcesInv, FilingInv
  <2>2. filing' = [request |-> filing.request, groups |-> Tail(filing.groups), current |-> now, ready |-> filing.ready]
    BY <1>3, <2>1
  <2>3. /\ filing'.current = now /\ filing'.ready = filing.ready
        /\ filing' = [request |-> filing'.request, groups |-> filing'.groups, current |-> filing'.current, ready |-> filing'.ready]
    BY <2>2
  <2>4. now.batch = batches + 1 /\ batches \in Nat /\ \A s \in sources : s.batch # batches + 1
    BY <1>4 DEF SourcesInv
  <2>5. GroupInv(now)'
    <3>1. StoredAs(now.batch, Sent(now))'
      BY <1>1, <2>4 DEF StoredAs
    <3>2. Prepared(now)
      BY <1>3, <1>4 DEF Prepared
    <3>3. now = [framework |-> now.framework, batch |-> now.batch, files |-> now.files, todo |-> now.todo, failed |-> now.failed]
          /\ now.todo \subseteq DOMAIN now.files
      BY <1>4
    <3> QED
      BY <1>3, <2>4, <3>1, <3>2, <3>3 DEF GroupInv, Prepared
  <2>6. \A i \in DOMAIN filing.ready : GroupInv(filing.ready[i])' /\ filing.ready[i].batch < batches'
    <3> SUFFICES ASSUME NEW i \in DOMAIN filing.ready
                 PROVE  GroupInv(filing.ready[i])' /\ filing.ready[i].batch < batches'
      OBVIOUS
    <3>1. GroupInv(filing.ready[i])
      BY <1>1 DEF SourcesInv, FilingInv
    <3>2. GroupInv(filing.ready[i])'
      BY <1>1, <1>3, <2>2, <2>4, <3>1, GroupStays, <2>3
    <3>3. filing.ready[i].batch \in 1..batches
      BY <3>1 DEF GroupInv
    <3> QED
      BY <1>3, <2>4, <3>2, <3>3
  <2>7. FilingInv'
    <3>1. \E S : filing.ready \in Seq(S)
      BY <1>1 DEF SourcesInv, FilingInv
    <3> QED
      BY <1>3, <2>3, <2>4, <2>5, <2>6, <3>1 DEF FilingInv
  <2>8. ASSUME NEW l \in Loads PROVE loads[l].batch < batches'
    <3>1. loads[l].batch \in 0..batches
      BY DEF SourcesInv, LoadOk, Shaped
    <3> QED
      BY <1>3, <2>4, <3>1
  <2>9. \A s \in sources' : s.batch \in 1..batches'
    BY <1>1, <1>3 DEF SourcesInv
  <2> QED
    BY <1>1, <1>3, <2>4, <2>7, <2>8, <2>9, TasksStay
<1> QED
  BY <1>2, <1>3, <1>1, <1>4 DEF PrepareGroup

\* A document goes under the prefix of its request, which no task has yet.
LEMMA StoreKeeps == SourcesInv /\ StoreSource => SourcesInv'
<1> SUFFICES ASSUME SourcesInv, StoreSource PROVE SourcesInv'
  OBVIOUS
<1>1. PICK g : g = filing.current
  OBVIOUS
<1>2. PICK i \in g.todo :
        \/ sources' = sources \cup {SourceDocument(g, i)} /\ filing' = [filing EXCEPT !.current.todo = @ \ {i}]
        \/ sources' = sources /\ filing' = [filing EXCEPT !.current.todo = @ \ {i}, !.current.failed = TRUE]
  BY <1>1 DEF StoreSource
<1>3. UNCHANGED <<loads, shelf, batches>> /\ filing # NoFiling
  BY DEF StoreSource
<1>4. g # NoGroup
  BY <1>2 DEF NoGroup
<1>5. /\ GroupInv(g) /\ g.batch = batches /\ batches \in Nat
      /\ filing = [request |-> filing.request, groups |-> filing.groups, current |-> filing.current, ready |-> filing.ready]
  BY <1>1, <1>3, <1>4 DEF SourcesInv, FilingInv
<1>6. g = [framework |-> g.framework, batch |-> g.batch, files |-> g.files, todo |-> g.todo, failed |-> g.failed]
  BY <1>5 DEF GroupInv
<1>7. PICK h : h = [framework |-> g.framework, batch |-> g.batch, files |-> g.files, todo |-> g.todo \ {i}, failed |-> filing'.current.failed]
  OBVIOUS
<1>8. /\ filing' = [request |-> filing.request, groups |-> filing.groups, current |-> h, ready |-> filing.ready]
      /\ filing'.current = h /\ filing'.ready = filing.ready
  BY <1>1, <1>2, <1>5, <1>6, <1>7
<1>9. \A s \in sources' : s \in sources \/ s = SourceDocument(g, i)
  BY <1>2
<1>10. i \in DOMAIN g.files /\ Prepared(g)
  BY <1>2, <1>5 DEF GroupInv
<1>11. /\ SourceDocument(g, i).batch = batches
       /\ SourceDocument(g, i).type \in DOMAIN Sent(g) /\ SourceDocument(g, i).edition = Sent(g)[SourceDocument(g, i).type]
  <2>1. g.files[i].type \in Targets[g.framework]
    BY <1>10 DEF Prepared
  <2>2. (CHOOSE j \in DOMAIN g.files : g.files[j].type = g.files[i].type) = i
    BY <1>10 DEF Prepared
  <2> QED
    BY <1>5, <2>1, <2>2 DEF SourceDocument, Sent
<1>12. GroupInv(h)'
  <2>1. Sent(h) = Sent(g) /\ Prepared(h)
    BY <1>7, <1>10 DEF Sent, Prepared
  <2>2. StoredAs(h.batch, Sent(h))'
    <3>1. h.batch = batches /\ g.batch = batches /\ Sent(h)' = Sent(g)
      BY <1>5, <1>7, <2>1 DEF Sent
    <3>2. \A s \in sources : s.batch = batches => s.type \in DOMAIN Sent(g) /\ s.edition = Sent(g)[s.type]
      BY <1>5 DEF GroupInv, StoredAs
    <3> QED
      BY <1>9, <1>11, <3>1, <3>2 DEF StoredAs
  <2> QED
    BY <1>3, <1>5, <1>7, <2>1, <2>2 DEF GroupInv, Prepared
<1>13. ASSUME NEW b, b < batches, b \in Nat PROVE \A s \in sources' : s \in sources \/ s.batch # b
  BY <1>5, <1>9, <1>11, <1>13
<1>14. ASSUME NEW j \in DOMAIN filing.ready
       PROVE  GroupInv(filing.ready[j])' /\ filing.ready[j].batch < batches
  <2>1. PICK f : f = filing.ready[j]
    OBVIOUS
  <2>2. GroupInv(f) /\ f.batch < batches
    BY <1>1, <1>3, <1>4, <1>14, <2>1 DEF SourcesInv, FilingInv
  <2>3. \A s \in sources' : s \in sources \/ s.batch # f.batch
    BY <1>13, <2>2 DEF GroupInv
  <2>4. GroupInv(f)'
    BY <1>3, <1>5, <2>2, <2>3, GroupStays
  <2> QED
    BY <1>8, <2>1, <2>2, <2>4
<1>15. FilingInv'
  <2>1. \E S : filing.ready \in Seq(S)
    BY <1>3 DEF SourcesInv, FilingInv
  <2> QED
    BY <1>3, <1>5, <1>7, <1>8, <1>12, <1>14, <2>1 DEF FilingInv
<1>16. ASSUME NEW l \in Loads PROVE loads[l].batch < batches /\ \A s \in sources' : s \in sources \/ s.batch # loads[l].batch
  <2>1. loads[l].batch \in 0..batches /\ loads[l].batch < batches
    BY <1>1, <1>3, <1>4 DEF SourcesInv, LoadOk, Shaped, Filling
  <2> QED
    BY <1>13, <2>1
<1>17. \A s \in sources' : s.batch \in 1..batches'
  <2>1. batches \in 1..batches
    BY <1>5 DEF GroupInv
  <2> QED
    BY <1>3, <1>9, <1>11, <2>1 DEF SourcesInv
<1> QED
  BY <1>3, <1>5, <1>15, <1>16, <1>17, TasksStay

LEMMA CloseKeeps == SourcesInv /\ CloseGroup => SourcesInv'
<1> SUFFICES ASSUME SourcesInv, CloseGroup PROVE SourcesInv'
  OBVIOUS
<1>1. PICK g : g = filing.current
  OBVIOUS
<1>2. /\ filing # NoFiling /\ g # NoGroup /\ UNCHANGED <<sources, loads, shelf, batches>>
      /\ filing' = [filing EXCEPT !.current = NoGroup, !.ready = IF filing.current.failed THEN @ ELSE Append(@, filing.current)]
  BY <1>1 DEF CloseGroup
<1>3. /\ GroupInv(g) /\ batches \in Nat
      /\ filing = [request |-> filing.request, groups |-> filing.groups, current |-> filing.current, ready |-> filing.ready]
  BY <1>1, <1>2 DEF SourcesInv, FilingInv
<1>4. /\ filing'.current = NoGroup /\ filing'.ready = IF g.failed THEN filing.ready ELSE Append(filing.ready, g)
      /\ filing' = [request |-> filing'.request, groups |-> filing'.groups, current |-> filing'.current, ready |-> filing'.ready]
  BY <1>1, <1>2, <1>3
<1>5. PICK S : filing.ready \in Seq(S)
  BY <1>2 DEF SourcesInv, FilingInv
<1>6. \A j \in DOMAIN filing.ready : GroupInv(filing.ready[j])
  BY <1>2 DEF SourcesInv, FilingInv
<1>7. /\ filing'.ready \in Seq(S \cup {g})
      /\ \A j \in DOMAIN filing'.ready : filing'.ready[j] = g \/ (j \in DOMAIN filing.ready /\ filing'.ready[j] = filing.ready[j])
  <2>1. filing.ready \in Seq(S \cup {g}) /\ g \in S \cup {g}
    BY <1>5
  <2>2. /\ Append(filing.ready, g) \in Seq(S \cup {g}) /\ DOMAIN filing.ready = 1..Len(filing.ready)
        /\ DOMAIN Append(filing.ready, g) = 1..(Len(filing.ready) + 1) /\ Len(filing.ready) \in Nat
        /\ Append(filing.ready, g)[Len(filing.ready) + 1] = g
    BY <2>1
  <2>3. \A j \in 1..Len(filing.ready) : Append(filing.ready, g)[j] = filing.ready[j]
    BY <2>1
  <2>4. \A j \in DOMAIN Append(filing.ready, g) : j = Len(filing.ready) + 1 \/ j \in 1..Len(filing.ready)
    BY <2>2
  <2> QED
    <3>1. CASE g.failed
      BY <1>4, <2>1, <3>1
    <3>2. CASE ~g.failed
      <4>1. filing'.ready = Append(filing.ready, g)
        BY <1>4, <3>2
      <4> QED
        BY <2>2, <2>3, <2>4, <4>1
    <3> QED
      BY <3>1, <3>2
<1>8. \A h : GroupInv(h) => GroupInv(h)'
  BY <1>2, <1>3, GroupStays
<1>9. FilingInv' /\ ~Filling'
  <2>1. ASSUME NEW j \in DOMAIN filing'.ready PROVE GroupInv(filing.ready[j])'
    <3>1. PICK h : h = filing'.ready[j]
      OBVIOUS
    <3>2. GroupInv(h)
      BY <1>3, <1>6, <1>7, <2>1, <3>1
    <3> QED
      BY <1>8, <3>1, <3>2
  <2> QED
    BY <1>4, <1>7, <2>1 DEF FilingInv, Filling
<1> QED
  BY <1>2, <1>3, <1>9, TasksStay DEF SourcesInv

(***************************************************************************)
(* The start of a task.                                                    *)
(***************************************************************************)
\* A new task has before it what was promised; those beside it that are of its
\* framework are alone no more.
LEMMA StartKeeps ==
  ASSUME SourcesInv, NEW l \in Loads, Free(l), NEW f, NEW b \in 0..batches, NEW how, NEW promised,
         loads' = Start(l, f, b, how, promised), UNCHANGED <<sources, shelf, batches>>, FilingInv',
         Filling' => Filling /\ b < batches,
         f \notin Published => StoredAs(b, promised) /\ promised = [t \in Targets[f] |-> promised[t]]
  PROVE  SourcesInv'
<1> DEFINE others == {k \in Loads : Busy(k) /\ loads[k].framework = f}
           new == [NewLoad EXCEPT !.stage = "fetch", !.framework = f, !.batch = b, !.promised = promised,
                                  !.replace = how.replace, !.dry = how.dry, !.alone = (others = {})]
<1>1. loads[l].stage = "off" /\ l \notin others
  BY DEF Free, Busy
<1>2. loads' = [k \in Loads |-> IF k = l THEN new ELSE IF k \in others THEN [loads[k] EXCEPT !.alone = FALSE] ELSE loads[k]]
  BY DEF Start
<1>3. /\ new.stage = "fetch" /\ new.framework = f /\ new.batch = b /\ new.promised = promised /\ ~new.failed
      /\ new.alone = (others = {}) /\ Shaped(new)
  BY DEF NewLoad, Shaped
<1>4. LoadOk(loads[l])'
  <2>1. PICK t : t = new
    OBVIOUS
  <2>2. LoadOk(t)'
    <3>1. Shaped(t)'
      BY <1>3, <2>1 DEF Shaped
    <3>2. StoredAs(b, promised)' = StoredAs(b, promised)
      BY DEF StoredAs
    <3>3. Filling' => t.batch < batches'
      BY <1>3, <2>1
    <3>4. t.stage = "fetch" /\ ~t.failed /\ t.framework = f /\ t.batch = b /\ t.promised = promised
      BY <1>3, <2>1
    <3>5. t.framework \notin Published =>
           /\ StoredAs(t.batch, t.promised)'
           /\ t.promised = [type \in Targets[t.framework] |-> t.promised[type]]
      BY <3>2, <3>4
    <3> QED
      BY <3>1, <3>3, <3>4, <3>5 DEF LoadOk
  <2>3. loads'[l] = t
    BY <1>2, <2>1
  <2> QED
    BY <2>2, <2>3
<1> HIDE DEF new, others
<1>5. ASSUME NEW k \in Loads, k # l
      PROVE  /\ LoadOk(loads[k])'
             /\ loads'[k].stage = loads[k].stage /\ loads'[k].framework = loads[k].framework
             /\ loads'[k].alone = (loads[k].alone /\ k \notin others)
  <2>1. PICK t : t = loads[k]
    OBVIOUS
  <2>2. LoadOk(t) /\ Shaped(t) /\ t.alone \in BOOLEAN
    BY <2>1 DEF SourcesInv, LoadOk, Shaped
  <2>3. LoadOk(t)'
    <3>1. batches \in Nat /\ Filling' => t.batch < batches'
      BY <2>1, <2>2 DEF LoadOk, SourcesInv
    <3> QED
      BY <2>2, <3>1, LoadStays DEF SourcesInv
  <2>4. CASE k \notin others
    <3>1. loads'[k] = t
      BY <1>2, <1>5, <2>1, <2>4
    <3> QED
      BY <2>1, <2>2, <2>3, <2>4, <3>1
  <2>5. CASE k \in others
    <3>1. PICK u : u = [t EXCEPT !.alone = FALSE]
      OBVIOUS
    <3>2. loads'[k] = u
      BY <1>2, <1>5, <2>1, <2>5, <3>1
    <3>3. /\ u.stage = t.stage /\ u.framework = t.framework /\ u.batch = t.batch /\ u.promised = t.promised
          /\ u.content = t.content /\ u.found = t.found /\ u.todo = t.todo /\ u.failed = t.failed /\ u.left = t.left
          /\ u.alone = FALSE
      BY <2>2, <3>1 DEF Shaped
    <3>4. Shaped(u)'
      BY <2>3, <3>1 DEF LoadOk, Shaped
    <3>5. There(u)' = There(t)' /\ Requirements(u, u.content)' = Requirements(t, t.content)'
      BY <3>3 DEF There, Requirements
    <3>6. LoadOk(u)'
      BY <2>3, <3>3, <3>4, <3>5 DEF LoadOk
    <3> QED
      BY <2>1, <2>5, <3>2, <3>3, <3>6
  <2> QED
    BY <2>4, <2>5
<1>6. AloneIsAlone'
  <2> SUFFICES ASSUME NEW j \in Loads, NEW k \in Loads, Busy(j)', Busy(k)', loads'[k].alone, loads'[j].framework = loads'[k].framework
               PROVE  j = k
    BY DEF AloneIsAlone
  <2>1. loads'[l].framework = f /\ loads'[l].alone = (others = {})
    BY <1>2, <1>3
  <2>2. CASE k = l
    <3>1. SUFFICES ASSUME j # l PROVE FALSE
      BY <2>2
    <3>2. j \in others
      BY <1>5, <2>1, <2>2, <3>1 DEF others, Busy
    <3> QED
      BY <2>1, <2>2, <3>2
  <2>3. CASE k # l /\ j = l
    <3>1. k \in others
      BY <1>5, <2>1, <2>3 DEF others, Busy
    <3> QED
      BY <1>5, <2>3, <3>1
  <2>4. CASE k # l /\ j # l
    <3>1. Busy(j) /\ Busy(k) /\ loads[k].alone /\ loads[j].framework = loads[k].framework
      BY <1>5, <2>4 DEF Busy
    <3> QED
      BY <3>1 DEF SourcesInv, AloneIsAlone
  <2> QED
    BY <2>2, <2>3, <2>4
<1>7. loads' = [k \in Loads |-> loads'[k]]
  BY <1>2
<1> QED
  BY <1>4, <1>5, <1>6, <1>7 DEF SourcesInv

LEMMA StartLoadKeeps == SourcesInv /\ StartLoad => SourcesInv'
<1> SUFFICES ASSUME SourcesInv, StartLoad PROVE SourcesInv'
  OBVIOUS
<1>1. /\ filing # NoFiling /\ filing.current = NoGroup /\ filing.ready # <<>> /\ UNCHANGED <<sources, shelf, batches>>
      /\ ~Filling
  BY DEF StartLoad, Between, Filling
<1>2. CASE filing' = NoFiling /\ UNCHANGED loads
  BY <1>1, <1>2, TasksStay DEF SourcesInv, FilingInv, Filling
<1>3. PICK g : g = Head(filing.ready)
  OBVIOUS
<1>4. ASSUME NEW l \in Loads, Free(l), loads' = Start(l, g.framework, g.batch, filing.request, Sent(g)),
             filing' = [filing EXCEPT !.ready = Tail(@)]
      PROVE  SourcesInv'
  <2>1. PICK S : filing.ready \in Seq(S)
    BY <1>1 DEF SourcesInv, FilingInv
  <2>2. /\ 1 \in DOMAIN filing.ready /\ filing.ready[1] = g
        /\ Tail(filing.ready) \in Seq(S)
        /\ \A i \in DOMAIN Tail(filing.ready) : i + 1 \in DOMAIN filing.ready /\ Tail(filing.ready)[i] = filing.ready[i + 1]
    BY <1>1, <1>3, <2>1
  <2>3. GroupInv(g) /\ batches \in Nat
    BY <1>1, <2>2 DEF SourcesInv, FilingInv
  <2>4. /\ filing = [request |-> filing.request, groups |-> filing.groups, current |-> filing.current, ready |-> filing.ready]
        /\ \A i \in DOMAIN filing.ready : GroupInv(filing.ready[i])
    BY <1>1 DEF SourcesInv, FilingInv
  <2>5. /\ filing'.current = NoGroup /\ filing'.ready = Tail(filing.ready)
        /\ filing' = [request |-> filing'.request, groups |-> filing'.groups, current |-> filing'.current, ready |-> filing'.ready]
    BY <1>1, <1>4, <2>4
  <2>6. \A h : GroupInv(h) => GroupInv(h)'
    BY <1>1, <2>3, GroupStays
  <2>7. FilingInv' /\ ~Filling'
    <3>1. ASSUME NEW j \in DOMAIN filing'.ready PROVE GroupInv(filing.ready[j])'
      <4>1. PICK h : h = filing'.ready[j]
        OBVIOUS
      <4>2. GroupInv(h)
        BY <2>2, <2>4, <2>5, <3>1, <4>1
      <4> QED
        BY <2>6, <4>1, <4>2
    <3> QED
      BY <2>2, <2>5, <3>1 DEF FilingInv, Filling
  <2>8. /\ StoredAs(g.batch, Sent(g)) /\ g.batch \in 0..batches
        /\ Sent(g) = [t \in Targets[g.framework] |-> Sent(g)[t]]
    BY <2>3 DEF GroupInv, Sent
  <2>9. PICK promised : promised = Sent(g)
    OBVIOUS
  <2> QED
    BY <1>1, <1>4, <2>7, <2>8, <2>9, StartKeeps
<1> QED
  BY <1>1, <1>2, <1>3, <1>4 DEF StartLoad

LEMMA StartIngestKeeps == SourcesInv /\ StartIngest => SourcesInv'
<1> SUFFICES ASSUME SourcesInv, StartIngest PROVE SourcesInv'
  OBVIOUS
<1>1. PICK f \in Published, replace \in BOOLEAN, l \in Loads :
          Free(l) /\ loads' = Start(l, f, 0, [replace |-> replace, dry |-> FALSE], <<>>)
  BY DEF StartIngest
<1>2. UNCHANGED <<sources, filing, shelf, batches>> /\ batches \in Nat
  BY DEF StartIngest, SourcesInv
<1>3. \A h : GroupInv(h) => GroupInv(h)'
  BY <1>2, GroupStays
<1>4. FilingInv'
  BY <1>2, <1>3 DEF SourcesInv, FilingInv
<1>5. Filling' => Filling /\ 0 < batches
  BY <1>2 DEF SourcesInv, FilingInv, Filling, GroupInv
<1>6. PICK how : how = [replace |-> replace, dry |-> FALSE]
  OBVIOUS
<1>7. PICK promised : promised = <<>>
  OBVIOUS
<1>8. PICK b \in 0..batches : b = 0
  BY <1>2
<1>9. Free(l) /\ loads' = Start(l, f, b, how, promised)
  BY <1>1, <1>6, <1>7, <1>8
<1>10. Filling' => Filling /\ b < batches
  BY <1>5, <1>8
<1> QED
  BY <1>2, <1>4, <1>9, <1>10, StartKeeps

(***************************************************************************)
(* A task.                                                                 *)
(***************************************************************************)
\* A step of a task that keeps to the requirements of its framework disturbs no
\* other that is alone.
LEMMA TaskMoves ==
  ASSUME SourcesInv, NEW l \in Loads, NEW t, Busy(l), LoadStep(l, t),
         t.framework = loads[l].framework, t.alone = loads[l].alone,
         \A r \in shelf \cup shelf' : r.framework # loads[l].framework => (r \in shelf <=> r \in shelf'),
         LoadOk(t)'
  PROVE  SourcesInv'
<1>1. UNCHANGED <<sources, filing, batches>> /\ loads' = [loads EXCEPT ![l] = t] /\ batches \in Nat
  BY DEF LoadStep, Becomes, SourcesInv
<1>2. loads' = [k \in Loads |-> loads'[k]] /\ loads'[l] = t /\ \A k \in Loads : k # l => loads'[k] = loads[k]
  BY <1>1 DEF SourcesInv
<1>3. FilingInv'
  <2>1. \A h : GroupInv(h) => GroupInv(h)'
    BY <1>1, GroupStays
  <2> QED
    BY <1>1, <2>1 DEF SourcesInv, FilingInv
<1>4. ASSUME NEW k \in Loads, k # l PROVE LoadOk(loads[k])'
  <2>1. PICK u : u = loads[k]
    OBVIOUS
  <2>2. LoadOk(u) /\ loads'[k] = u
    BY <1>2, <1>4, <2>1 DEF SourcesInv
  <2>3. Shaped(u)' /\ (Filling' => u.batch < batches')
    BY <1>1, <2>2 DEF LoadOk, Shaped, Filling
  <2>4. StoredAs(u.batch, u.promised)' = StoredAs(u.batch, u.promised)
    BY <1>1 DEF StoredAs
  <2>5. Requirements(u, u.content)' = Requirements(u, u.content)
    BY DEF Requirements
  <2>6. u.stage \in {"delete", "send"} /\ u.alone => There(u)' = There(u)
    <3>1. u.stage \in {"delete", "send"} /\ u.alone => u.framework # loads[l].framework
      BY <1>4, <2>1 DEF SourcesInv, AloneIsAlone, Busy
    <3> QED
      BY <3>1 DEF There
  <2>7. LoadOk(u)'
    BY <2>2, <2>3, <2>4, <2>5, <2>6 DEF LoadOk
  <2> QED
    BY <2>2, <2>7
<1>5. \A k \in Loads : LoadOk(loads[k])'
  BY <1>2, <1>4
<1>6. AloneIsAlone'
  <2> SUFFICES ASSUME NEW j \in Loads, NEW k \in Loads, Busy(j)', Busy(k)', loads'[k].alone, loads'[j].framework = loads'[k].framework
               PROVE  j = k
    BY DEF AloneIsAlone
  <2>1. \A i \in Loads : /\ Busy(i)' => Busy(i)
                         /\ loads'[i].alone = loads[i].alone /\ loads'[i].framework = loads[i].framework
    BY <1>2 DEF Busy
  <2> QED
    BY <2>1 DEF SourcesInv, AloneIsAlone
<1> QED
  BY <1>1, <1>2, <1>3, <1>5, <1>6 DEF SourcesInv

\* A task that is over has nothing more to keep.
LEMMA TaskEnds ==
  ASSUME SourcesInv, NEW l \in Loads, NEW t, Busy(l), LoadStep(l, t), UNCHANGED shelf,
         t.framework = loads[l].framework, t.alone = loads[l].alone, t.batch = loads[l].batch, t.stage = "ended", Shaped(t)
  PROVE  SourcesInv'
<1>1. UNCHANGED <<filing, batches>>
  BY DEF LoadStep
<1>2. Filling => t.batch < batches
  BY DEF SourcesInv, LoadOk
<1>3. LoadOk(t)'
  BY <1>1, <1>2 DEF LoadOk, Shaped, Filling
<1> QED
  BY <1>3, TaskMoves

\* What there is to a task's record.
LEMMA TaskFacts ==
  ASSUME SourcesInv, NEW l \in Loads
  PROVE  /\ LoadOk(loads[l]) /\ Shaped(loads[l]) /\ batches \in Nat
         /\ Filling => loads[l].batch < batches
  BY DEF SourcesInv, LoadOk

LEMMA FetchKeeps == ASSUME SourcesInv, NEW l \in Loads, FetchSources(l) \/ FetchPublished(l) PROVE SourcesInv'
<1>1. PICK u : u = loads[l]
  OBVIOUS
<1>2. LoadOk(u) /\ Shaped(u) /\ batches \in Nat /\ (Filling => u.batch < batches) /\ u.stage = "fetch" /\ ~u.failed
  BY <1>1, TaskFacts DEF FetchSources, FetchPublished, Doing, LoadOk
<1>3. UNCHANGED shelf /\ Busy(l)
  BY <1>1, <1>2 DEF FetchSources, FetchPublished, Busy
<1>4. ASSUME NEW t, LoadStep(l, t), t = [u EXCEPT !.stage = "ask", !.content = t.content, !.promised = t.promised],
             t.content = t.promised
      PROVE  SourcesInv'
  <2>1. /\ t.stage = "ask" /\ t.framework = u.framework /\ t.batch = u.batch /\ t.alone = u.alone /\ t.failed = u.failed
        /\ Shaped(t)
    BY <1>2, <1>4 DEF Shaped
  <2>2. LoadOk(t)'
    BY <1>2, <1>4, <2>1 DEF LoadOk, Shaped, Filling, LoadStep
  <2> QED
    BY <1>1, <1>3, <1>4, <2>1, <2>2, TaskMoves
<1>5. CASE FetchPublished(l)
  <2>1. PICK e : LoadStep(l, [u EXCEPT !.stage = "ask", !.content = [site |-> e], !.promised = [site |-> e]])
    BY <1>1, <1>5 DEF FetchPublished
  <2>2. PICK t : t = [u EXCEPT !.stage = "ask", !.content = [site |-> e], !.promised = [site |-> e]]
    OBVIOUS
  <2>3. t.content = [site |-> e] /\ t.promised = [site |-> e]
    BY <1>2, <2>2 DEF Shaped
  <2> QED
    BY <1>4, <2>1, <2>2, <2>3
<1>6. CASE FetchSources(l)
  <2> DEFINE found == {s \in sources : s.framework = u.framework /\ s.batch = u.batch}
             content == [type \in Targets[u.framework] |-> (CHOOSE s \in found : s.type = type).edition]
  <2>1. \/ LoadStep(l, Over(u, "one"))
        \/ {s.type : s \in found} = Targets[u.framework] /\ LoadStep(l, [u EXCEPT !.stage = "ask", !.content = content])
    BY <1>1, <1>6 DEF FetchSources
  <2>2. CASE LoadStep(l, Over(u, "one"))
    <3>1. PICK t : t = Over(u, "one")
      OBVIOUS
    <3>2. t.framework = u.framework /\ t.alone = u.alone /\ t.batch = u.batch /\ t.stage = "ended" /\ Shaped(t)
      BY <1>2, <3>1 DEF Over, Shaped
    <3> QED
      BY <1>1, <1>3, <2>2, <3>1, <3>2, TaskEnds
  <2>3. CASE {s.type : s \in found} = Targets[u.framework] /\ LoadStep(l, [u EXCEPT !.stage = "ask", !.content = content])
    <3>1. /\ StoredAs(u.batch, u.promised)
          /\ u.promised = [type \in Targets[u.framework] |-> u.promised[type]]
      BY <1>1, <1>2, <1>6 DEF LoadOk, FetchSources
    <3>2. ASSUME NEW type \in Targets[u.framework] PROVE (CHOOSE s \in found : s.type = type).edition = u.promised[type]
      <4>1. \E s \in found : s.type = type
        BY <2>3
      <4>2. PICK s : s = (CHOOSE r \in found : r.type = type) /\ s \in found /\ s.type = type
        BY <4>1
      <4> QED
        BY <3>1, <4>2 DEF StoredAs
    <3>3. content = u.promised
      BY <3>1, <3>2
    <3>4. PICK t : t = [u EXCEPT !.stage = "ask", !.content = content]
      OBVIOUS
    <3> HIDE DEF content
    <3>5. t.content = content /\ t.promised = u.promised /\ t = [u EXCEPT !.stage = "ask", !.content = t.content, !.promised = t.promised]
      BY <1>2, <3>4 DEF Shaped
    <3> QED
      BY <1>4, <2>3, <3>3, <3>4, <3>5
  <2> QED
    BY <2>1, <2>2, <2>3
<1> QED
  BY <1>5, <1>6

LEMMA AskForVersionKeeps == ASSUME SourcesInv, NEW l \in Loads, AskForVersion(l) PROVE SourcesInv'
<1>1. PICK u : u = loads[l]
  OBVIOUS
<1>2. /\ LoadOk(u) /\ Shaped(u) /\ batches \in Nat /\ (Filling => u.batch < batches) /\ u.stage = "ask" /\ ~u.failed
      /\ u.content = u.promised
  BY <1>1, TaskFacts DEF AskForVersion, Doing, LoadOk
<1>3. UNCHANGED shelf /\ Busy(l)
  BY <1>1, <1>2 DEF AskForVersion, Busy
<1>4. PICK found \in SUBSET There(u) :
          \/ \E did : LoadStep(l, [Over(u, "zero") EXCEPT !.did = did])
          \/ LoadStep(l, [u EXCEPT !.stage = IF found = {} THEN "send" ELSE "delete", !.found = found,
                                   !.left = (found # There(u)), !.todo = Requirements(u, u.content)])
  BY <1>1 DEF AskForVersion, Portions
<1>5. ASSUME NEW did, LoadStep(l, [Over(u, "zero") EXCEPT !.did = did]) PROVE SourcesInv'
  <2>1. PICK t : t = [Over(u, "zero") EXCEPT !.did = did]
    OBVIOUS
  <2>2. t.framework = u.framework /\ t.alone = u.alone /\ t.batch = u.batch /\ t.stage = "ended" /\ Shaped(t)
    BY <1>2, <2>1 DEF Over, Shaped
  <2> QED
    BY <1>1, <1>3, <1>5, <2>1, <2>2, TaskEnds
<1>6. ASSUME LoadStep(l, [u EXCEPT !.stage = IF found = {} THEN "send" ELSE "delete", !.found = found,
                                   !.left = (found # There(u)), !.todo = Requirements(u, u.content)])
      PROVE  SourcesInv'
  <2>1. PICK t : t = [u EXCEPT !.stage = IF found = {} THEN "send" ELSE "delete", !.found = found,
                               !.left = (found # There(u)), !.todo = Requirements(u, u.content)]
    OBVIOUS
  <2>2. /\ t.framework = u.framework /\ t.batch = u.batch /\ t.content = u.content /\ t.promised = u.promised
        /\ t.failed = u.failed /\ t.alone = u.alone
    BY <1>2, <2>1 DEF Shaped
  <2>3. /\ t.stage = (IF found = {} THEN "send" ELSE "delete") /\ t.found = found
        /\ t.left = (found # There(u)) /\ t.todo = Requirements(u, u.content)
    BY <1>2, <2>1 DEF Shaped
  <2>4. Shaped(t)
    BY <1>2, <2>1 DEF Shaped
  <2>5. UNCHANGED <<filing, batches>>
    BY <1>6 DEF LoadStep
  <2>6. There(t)' = There(u) /\ Requirements(t, t.content)' = Requirements(u, u.content)
    BY <1>3, <2>2 DEF There, Requirements
  <2>7. \A r \in found : r.framework = t.framework
    BY <2>2 DEF There
  <2>8. t.stage = "send" /\ ~t.left => There(t)' = {} /\ Requirements(t, t.content)' \ t.todo = {}
    BY <2>3, <2>6
  <2>9. LoadOk(t)'
    BY <1>2, <2>2, <2>3, <2>4, <2>5, <2>6, <2>7, <2>8 DEF LoadOk, Shaped, Filling
  <2> QED
    BY <1>1, <1>3, <1>6, <2>1, <2>2, <2>9, TaskMoves
<1> QED
  BY <1>4, <1>5, <1>6

\* Of what was found all goes, or something is left.
LEMMA DeleteKeeps == ASSUME SourcesInv, NEW l \in Loads, DeleteFound(l) PROVE SourcesInv'
<1>1. PICK u : u = loads[l]
  OBVIOUS
<1>2. /\ LoadOk(u) /\ Shaped(u) /\ batches \in Nat /\ (Filling => u.batch < batches) /\ u.stage = "delete"
      /\ u.content = u.promised /\ ~u.failed /\ u.todo = Requirements(u, u.content)
      /\ \A r \in u.found : r.framework = u.framework
      /\ u.alone /\ ~u.left => u.found = There(u)
  BY <1>1, TaskFacts DEF DeleteFound, Doing, LoadOk
<1>3. Busy(l)
  BY <1>1, <1>2 DEF Busy
<1>4. PICK refused : /\ shelf' = {r \in shelf : \A x \in u.found \ refused : x.id # r.id \/ x.framework # r.framework}
                  /\ LoadStep(l, [u EXCEPT !.stage = "send", !.left = @ \/ refused # {}])
  <2>1. PICK refused \in {{}} \cup {{r} : r \in loads[l].found} :
            /\ shelf' = {r \in shelf : \A x \in loads[l].found \ refused : x.id # r.id \/ x.framework # r.framework}
            /\ LoadStep(l, [loads[l] EXCEPT !.stage = "send", !.left = @ \/ refused # {}])
    BY Zenon DEF DeleteFound
  <2> QED
    BY <1>1, <2>1
<1>5. PICK t : t = [u EXCEPT !.stage = "send", !.left = @ \/ refused # {}]
  OBVIOUS
<1>6. /\ t.stage = "send" /\ t.framework = u.framework /\ t.batch = u.batch /\ t.content = u.content /\ t.promised = u.promised
      /\ t.failed = u.failed /\ t.alone = u.alone /\ t.todo = u.todo /\ (~t.left => ~u.left /\ refused = {}) /\ Shaped(t)
  BY <1>2, <1>5 DEF Shaped
<1>7. UNCHANGED <<filing, batches>> /\ Requirements(t, t.content)' = Requirements(u, u.content)
  BY <1>4, <1>6 DEF LoadStep, Requirements
<1>8. t.alone /\ ~t.left => There(t)' = {}
  BY <1>2, <1>4, <1>6 DEF There
<1>9. LoadOk(t)'
  BY <1>2, <1>6, <1>7, <1>8 DEF LoadOk, Shaped, Filling
<1>10. \A r \in shelf \cup shelf' : r.framework # u.framework => (r \in shelf <=> r \in shelf')
  BY <1>2, <1>4
<1> QED
  BY <1>1, <1>3, <1>4, <1>5, <1>6, <1>9, <1>10, TaskMoves

\* What is not sent any more is there, or an item was refused.
LEMMA SendRecordsKeeps == ASSUME SourcesInv, NEW l \in Loads, SendRecords(l) PROVE SourcesInv'
<1>1. PICK u : u = loads[l]
  OBVIOUS
<1>2. /\ LoadOk(u) /\ Shaped(u) /\ batches \in Nat /\ (Filling => u.batch < batches) /\ u.stage = "send"
      /\ u.content = u.promised /\ u.todo \subseteq Requirements(u, u.content)
      /\ u.alone /\ ~u.left /\ ~u.failed => There(u) = Requirements(u, u.content) \ u.todo
  BY <1>1, TaskFacts DEF SendRecords, Doing, LoadOk
<1>3. Busy(l)
  BY <1>1, <1>2 DEF Busy
<1>4. PICK batch \in SUBSET u.todo, refused \in SUBSET u.todo :
          /\ shelf' = {r \in shelf : \A x \in batch \ refused : x.id # r.id \/ x.framework # r.framework} \cup (batch \ refused)
          /\ LoadStep(l, [u EXCEPT !.todo = @ \ batch, !.failed = @ \/ refused # {}])
  <2>1. PICK batch \in NextRecords(loads[l]) : \E refused \in {{}} \cup {{r} : r \in batch} :
            LET v == loads[l]
                put == batch \ refused
            IN  /\ shelf' = {r \in shelf : \A x \in put : x.id # r.id \/ x.framework # r.framework} \cup put
                /\ LoadStep(l, [v EXCEPT !.todo = @ \ batch, !.failed = @ \/ refused # {}])
                /\ IF refused = {} THEN NoLoadFault ELSE LoadFault
    BY Zenon DEF SendRecords
  <2>2. batch \in SUBSET u.todo
    BY <1>1, <2>1 DEF NextRecords, Portions
  <2>3. PICK refused \in {{}} \cup {{r} : r \in batch} :
            /\ shelf' = {r \in shelf : \A x \in batch \ refused : x.id # r.id \/ x.framework # r.framework} \cup (batch \ refused)
            /\ LoadStep(l, [u EXCEPT !.todo = @ \ batch, !.failed = @ \/ refused # {}])
    BY <1>1, <2>1
  <2>4. refused \in SUBSET u.todo
    BY <2>2, <2>3
  <2> QED
    BY <2>2, <2>3, <2>4
<1>5. PICK t : t = [u EXCEPT !.todo = @ \ batch, !.failed = @ \/ refused # {}]
  OBVIOUS
<1>6. /\ t.stage = "send" /\ t.framework = u.framework /\ t.batch = u.batch /\ t.content = u.content /\ t.promised = u.promised
      /\ t.left = u.left /\ t.alone = u.alone /\ t.todo = u.todo \ batch /\ (~t.failed => ~u.failed /\ refused = {}) /\ Shaped(t)
  BY <1>2, <1>5 DEF Shaped
<1>7. UNCHANGED <<filing, batches>> /\ Requirements(t, t.content)' = Requirements(u, u.content)
  BY <1>4, <1>6 DEF LoadStep, Requirements
<1>8. \A r \in Requirements(u, u.content) : r.framework = u.framework
  BY DEF Requirements
<1>9. \A r, x \in Requirements(u, u.content) : r.id = x.id => r = x
  BY DEF Requirements
<1>10. t.alone /\ ~t.left /\ ~t.failed => There(t)' = Requirements(u, u.content) \ t.todo
  <2> SUFFICES ASSUME t.alone, ~t.left, ~t.failed PROVE There(t)' = Requirements(u, u.content) \ t.todo
    OBVIOUS
  <2>1. /\ There(u) = Requirements(u, u.content) \ u.todo /\ batch \subseteq Requirements(u, u.content)
        /\ shelf' = {r \in shelf : \A x \in batch : x.id # r.id \/ x.framework # r.framework} \cup batch
    BY <1>2, <1>4, <1>6
  <2>2. There(t)' = {r \in There(u) : \A x \in batch : x.id # r.id \/ x.framework # r.framework} \cup batch
    BY <1>6, <1>8, <2>1 DEF There
  <2>3. \A r \in There(u) : \A x \in batch : x.id # r.id
    BY <1>4, <1>9, <2>1
  <2> QED
    BY <1>4, <1>6, <2>1, <2>2, <2>3
<1>11. LoadOk(t)'
  BY <1>2, <1>6, <1>7, <1>10 DEF LoadOk, Shaped, Filling
<1>12. \A r \in shelf \cup shelf' : r.framework # u.framework => (r \in shelf <=> r \in shelf')
  <2>1. \A x \in batch : x.framework = u.framework
    BY <1>2, <1>4, <1>8
  <2> QED
    BY <1>4, <2>1
<1> QED
  BY <1>1, <1>3, <1>4, <1>5, <1>6, <1>11, <1>12, TaskMoves

LEMMA LoadEndsKeeps == ASSUME SourcesInv, NEW l \in Loads, EndLoad(l) \/ LoadRaises(l) PROVE SourcesInv'
<1>1. PICK u : u = loads[l]
  OBVIOUS
<1>2. Shaped(u)
  BY <1>1, TaskFacts
<1>3. Busy(l) /\ UNCHANGED shelf
  BY DEF EndLoad, LoadRaises, Doing, Busy
<1>4. \/ \E code \in {"zero", "one"} : LoadStep(l, [Over(u, code) EXCEPT !.did = "loaded"])
      \/ LoadStep(l, Over(u, "one"))
  BY <1>1 DEF EndLoad, LoadRaises
<1>5. ASSUME NEW t, t.framework = u.framework, t.alone = u.alone, t.batch = u.batch, t.stage = "ended", Shaped(t), LoadStep(l, t)
      PROVE  SourcesInv'
  BY <1>1, <1>3, <1>5, TaskEnds
<1>6. ASSUME NEW code \in {"zero", "one"}, NEW t, t = [Over(u, code) EXCEPT !.did = "loaded"] \/ t = Over(u, code)
      PROVE  t.framework = u.framework /\ t.alone = u.alone /\ t.batch = u.batch /\ t.stage = "ended" /\ Shaped(t)
  BY <1>2, <1>6 DEF Over, Shaped
<1> QED
  BY <1>4, <1>5, <1>6

LEMMA SourcesStepKeeps == SourcesInv /\ [SourcesNext]_sourceVars => SourcesInv'
<1>1. ASSUME SourcesInv, UNCHANGED sourceVars PROVE SourcesInv'
  <2>1. \A h : GroupInv(h) => GroupInv(h)'
    BY <1>1, GroupStays DEF sourceVars, SourcesInv
  <2>2. FilingInv'
    BY <1>1, <2>1 DEF sourceVars, SourcesInv, FilingInv
  <2> QED
    <3>1. UNCHANGED <<loads, shelf, batches, sources, filing>>
      BY <1>1 DEF sourceVars
    <3>2. batches' \in Nat /\ batches <= batches' /\ \A s \in sources' : s.batch \in 1..batches'
      BY <1>1, <3>1 DEF SourcesInv
    <3>3. \A l \in Loads : (Filling' => loads[l].batch < batches') /\ \A s \in sources' : s \in sources \/ s.batch # loads[l].batch
      BY <1>1, <3>1 DEF SourcesInv, LoadOk, Filling
    <3> QED
      BY <1>1, <2>2, <3>1, <3>2, <3>3, TasksStay
<1>2. ASSUME SourcesInv, NEW l \in Loads, Load(l) PROVE SourcesInv'
  BY <1>2, FetchKeeps, AskForVersionKeeps, DeleteKeeps, SendRecordsKeeps, LoadEndsKeeps DEF Load
<1> QED
  BY <1>1, <1>2, ReceiveKeeps, PrepareKeeps, StoreKeeps, CloseKeeps, StartLoadKeeps, StartIngestKeeps DEF SourcesNext

\* A task that ends with zero has read what was promised, and what it sent is there.
LEMMA ZeroHasRead ==
  ASSUME SourcesInv, NEW l \in Loads, SourcesNext, loads[l].exit = "none", loads'[l].exit = "zero"
  PROVE  /\ loads'[l].content = loads'[l].promised
         /\ loads'[l].did = "loaded" /\ loads'[l].alone /\ ~loads'[l].left =>
                {r \in shelf' : r.framework = loads'[l].framework} = Requirements(loads'[l], loads'[l].promised)
<1>1. PICK u : u = loads[l]
  OBVIOUS
<1>2. LoadOk(u) /\ Shaped(u) /\ loads = [k \in Loads |-> loads[k]] /\ u.exit = "none"
  BY <1>1 DEF SourcesInv, LoadOk
<1> DEFINE Whole(t) == /\ t.content = t.promised
                       /\ t.did = "loaded" /\ t.alone /\ ~t.left =>
                              {r \in shelf' : r.framework = t.framework} = Requirements(t, t.promised)
<1>3. ASSUME NEW k \in Loads, NEW t, LoadStep(k, t) PROVE k = l /\ loads'[l] = t
  <2>1. loads' = [loads EXCEPT ![k] = t]
    BY <1>3 DEF LoadStep, Becomes
  <2>2. k = l
    BY <1>1, <1>2, <2>1
  <2> QED
    BY <1>2, <2>1, <2>2
<1>4. CASE UNCHANGED loads
  BY <1>1, <1>2, <1>4
<1>5. ASSUME NEW k, NEW f, NEW b, NEW how, NEW promised, loads' = Start(k, f, b, how, promised) PROVE FALSE
  <2>1. loads'[l].exit = "none" \/ loads'[l].exit = u.exit
    BY <1>1, <1>2, <1>5 DEF Start, NewLoad, Shaped
  <2> QED
    BY <1>2, <2>1
<1>6. CASE StartLoad \/ StartIngest
  <2>1. CASE StartLoad
    <3>1. UNCHANGED loads \/ \E k, g : loads' = Start(k, g.framework, g.batch, filing.request, Sent(g))
      BY <2>1, Zenon DEF StartLoad
    <3> QED
      BY <1>4, <1>5, <3>1, Zenon
  <2>2. CASE StartIngest
    BY <1>5, <2>2, Zenon DEF StartIngest
  <2> QED
    BY <1>6, <2>1, <2>2
<1>7. ASSUME NEW k \in Loads, Load(k) PROVE Load(l) /\ k = l
  <2>1. \E t : LoadStep(k, t)
    BY <1>7 DEF Load, FetchSources, FetchPublished, AskForVersion, DeleteFound, SendRecords, EndLoad, LoadRaises
  <2> QED
    BY <1>3, <1>7, <2>1
<1>8. ASSUME NEW t, LoadStep(l, t), t.exit \in {"none", "one"} PROVE FALSE
  BY <1>3, <1>8
<1>9. CASE FetchSources(l) \/ FetchPublished(l)
  <2>1. ASSUME NEW content, NEW promised, NEW t, \/ t = Over(u, "one") \/ t = [u EXCEPT !.stage = "ask", !.content = content]
               \/ t = [u EXCEPT !.stage = "ask", !.content = content, !.promised = promised]
        PROVE  t.exit \in {"none", "one"}
    BY <1>2, <2>1 DEF Over, Shaped
  <2>2. \E content, promised : \/ LoadStep(l, Over(u, "one")) \/ LoadStep(l, [u EXCEPT !.stage = "ask", !.content = content])
               \/ LoadStep(l, [u EXCEPT !.stage = "ask", !.content = content, !.promised = promised])
    BY <1>1, <1>9 DEF FetchSources, FetchPublished
  <2> QED
    BY <1>8, <2>1, <2>2
<1>10. CASE AskForVersion(l)
  <2>1. u.stage = "ask" /\ u.content = u.promised
    BY <1>1, <1>2, <1>10 DEF AskForVersion, Doing, LoadOk
  <2>2. \/ \E did \in {"duplicate", "conflict", "dry"} : LoadStep(l, [Over(u, "zero") EXCEPT !.did = did])
        \/ \E next, found, left, unsent : LoadStep(l, [u EXCEPT !.stage = next, !.found = found, !.left = left, !.todo = unsent])
    BY <1>1, <1>10 DEF AskForVersion
  <2>3. ASSUME NEW did \in {"duplicate", "conflict", "dry"}, LoadStep(l, [Over(u, "zero") EXCEPT !.did = did])
        PROVE  Whole(loads'[l])
    <3>1. PICK t : t = [Over(u, "zero") EXCEPT !.did = did]
      OBVIOUS
    <3>2. t.did = did /\ t.content = u.content /\ t.promised = u.promised
      BY <1>2, <3>1 DEF Over, Shaped
    <3>3. loads'[l] = t
      BY <1>3, <2>3, <3>1
    <3> QED
      BY <2>1, <3>2, <3>3
  <2>4. ASSUME NEW next, NEW found, NEW left, NEW unsent,
               LoadStep(l, [u EXCEPT !.stage = next, !.found = found, !.left = left, !.todo = unsent])
        PROVE  FALSE
    <3>1. PICK t : t = [u EXCEPT !.stage = next, !.found = found, !.left = left, !.todo = unsent]
      OBVIOUS
    <3>2. t.exit = "none"
      BY <1>2, <3>1 DEF Shaped
    <3> QED
      BY <1>8, <2>4, <3>1, <3>2
  <2> QED
    BY <2>2, <2>3, <2>4
<1>11. CASE DeleteFound(l) \/ SendRecords(l)
  <2>1. ASSUME NEW a, LoadStep(l, [u EXCEPT !.stage = "send", !.left = @ \/ a]) PROVE FALSE
    <3>1. PICK t : t = [u EXCEPT !.stage = "send", !.left = @ \/ a]
      OBVIOUS
    <3>2. t.exit = "none"
      BY <1>2, <3>1 DEF Shaped
    <3> QED
      BY <1>8, <2>1, <3>1, <3>2
  <2>2. ASSUME NEW a, NEW b, LoadStep(l, [u EXCEPT !.todo = @ \ a, !.failed = @ \/ b]) PROVE FALSE
    <3>1. PICK t : t = [u EXCEPT !.todo = @ \ a, !.failed = @ \/ b]
      OBVIOUS
    <3>2. t.exit = "none"
      BY <1>2, <3>1 DEF Shaped
    <3> QED
      BY <1>8, <2>2, <3>1, <3>2
  <2>3. CASE DeleteFound(l)
    BY <1>1, <2>1, <2>3, Zenon DEF DeleteFound
  <2>4. CASE SendRecords(l)
    BY <1>1, <2>2, <2>4, Zenon DEF SendRecords
  <2> QED
    BY <1>11, <2>3, <2>4
<1>12. CASE EndLoad(l)
  <2>1. PICK t : t = [Over(u, IF u.failed THEN "one" ELSE "zero") EXCEPT !.did = "loaded"]
    OBVIOUS
  <2>2. LoadStep(l, t) /\ UNCHANGED shelf /\ u.stage = "send" /\ u.todo = {}
    BY <1>1, <1>12, <2>1 DEF EndLoad, Doing
  <2>3. loads'[l] = t
    BY <1>3, <2>2
  <2>4. /\ t.exit = (IF u.failed THEN "one" ELSE "zero") /\ t.content = u.content /\ t.promised = u.promised
        /\ t.framework = u.framework /\ t.alone = u.alone /\ t.left = u.left
    BY <1>2, <2>1 DEF Over, Shaped
  <2>5. u.content = u.promised /\ (u.alone /\ ~u.left => There(u) = Requirements(u, u.content) \ u.todo)
    BY <1>2, <2>2, <2>3, <2>4 DEF LoadOk
  <2>6. Requirements(t, t.promised) = Requirements(u, u.content)
    BY <2>4, <2>5 DEF Requirements
  <2>7. t.alone /\ ~t.left => {r \in shelf' : r.framework = t.framework} = Requirements(t, t.promised)
    BY <2>2, <2>4, <2>5, <2>6 DEF There
  <2> QED
    BY <2>3, <2>4, <2>5, <2>7
<1>13. CASE LoadRaises(l)
  <2>1. PICK t : t = Over(u, "one")
    OBVIOUS
  <2>2. LoadStep(l, t) /\ t.exit = "one"
    BY <1>1, <1>2, <1>13, <2>1 DEF LoadRaises, Over, Shaped
  <2> QED
    BY <1>8, <2>2
<1>14. CASE ReceiveSources \/ PrepareGroup \/ StoreSource \/ CloseGroup \/ AnswerUpload
  BY <1>4, <1>14 DEF ReceiveSources, PrepareGroup, StoreSource, CloseGroup, AnswerUpload
<1> QED
  BY <1>6, <1>7, <1>9, <1>10, <1>11, <1>12, <1>13, <1>14 DEF SourcesNext, Load

\* A task that exits with zero has read the documents of the request that
\* started it, and what it loaded is what the index has of the framework: the
\* prefix of a request is its own (_upload_corpus_a_reference_files), a document
\* that is missing there ends the task (controls_source_orchestrator.py), and only
\* a run without a refused record counts as done (publish_controls_aws.py).
THEOREM ZeroReadsThatUpload == SourcesSpec => ZeroIsThatUpload
<1>1. SourcesInv /\ [SourcesNext]_sourceVars =>
          [\A l \in Loads : loads[l].exit = "none" /\ loads'[l].exit = "zero" =>
               LET t == loads'[l]
               IN  /\ t.content = t.promised
                   /\ t.did = "loaded" /\ t.alone /\ ~t.left =>
                          {r \in shelf' : r.framework = t.framework} = Requirements(t, t.promised)]_sourceVars
  BY ZeroHasRead
<1> QED
  BY <1>1, SourcesInitIsInv, SourcesStepKeeps, PTL DEF SourcesSpec, ZeroIsThatUpload
=============================================================================
