--------------------------- MODULE StoreContract ---------------------------
(***************************************************************************)
(* What a polling state store promises (the protocol PollingStateStore of  *)
(* state_store.py): its methods take effect at once, as the operators the  *)
(* polling worker is modelled with say, and answer from what was written.  *)
(* StoreDocuments and the modules of the five stores implement it.         *)
(***************************************************************************)
EXTENDS PollingStateStore, FiniteSets

CONSTANTS
  Limit, OverFetch   \* how many rows a list shows, and from how many times as many

VARIABLES
  summary,     \* the last poll_run_summary; 0 is none
  assessed,    \* when each page_assessment row was written; 0 is never
  attempted,   \* when each mention last failed; 0 is never
  reply,       \* what the last call that returned gave back
  swallows,    \* TRUE: a failed read may look like a missing document
  listsWhole,  \* TRUE: a list is made from all documents; FALSE: from OverFetch
               \* times as many as are asked for
  lasting      \* TRUE: what is stored is there for the next process

contractVars == <<storeVars, summary, assessed, attempted, reply, swallows, listsWhole, lasting>>

\* What the polling worker's own documents and the dashboard's are made of.
dashboardVars == <<pageRow, summary, assessed, attempted>>

Answers(lost) == (lost => swallows) /\ ReadAnswers(lost)

State ==
  \E lost \in BOOLEAN :
    /\ Answers(lost)
    /\ \/ reply' = [watermark |-> LoadWatermark(lost)] /\ UNCHANGED watermark
       \/ CommitState(watermark') /\ reply' = [watermark |-> watermark']
    /\ UNCHANGED <<lease, processed, failures, snapshot, dashboardVars>>

\* A run may take the lease it has again, and keep it after it expired as long
\* as no other run took it.
Lease ==
  \E r \in Runner, lost \in BOOLEAN :
    LET free == LeaseIsFree(lost) \/ lease.owner = r
        mine == ~lost /\ lease.owner = r
    IN  /\ Answers(lost)
        /\ \/ reply' = [granted |-> free] /\ IF free THEN TakeLease(r) ELSE UNCHANGED lease
           \/ reply' = [renewed |-> mine] /\ IF mine THEN TakeLease(r) ELSE UNCHANGED lease
           \/ ReleaseLease(r, lost) /\ reply' = [released |-> TRUE]
        /\ UNCHANGED <<watermark, processed, failures, snapshot, dashboardVars>>

Marker ==
  \E e \in Event, lost \in BOOLEAN :
    /\ Answers(lost)
    /\ \/ reply' = [processed |-> IsEventProcessed(e, lost)] /\ UNCHANGED processed
       \/ ~lost /\ MarkProcessedEvent(e) /\ reply' = [marked |-> e]
    /\ UNCHANGED <<watermark, lease, failures, snapshot, dashboardVars>>

Failure ==
  \E e \in Event, lost \in BOOLEAN :
    /\ Answers(lost)
    /\ \/ IncrementFailureCount(e, lost) /\ reply' = [attempts |-> Attempts(e, lost)]
       \/ MarkTerminalFailure(e, lost) /\ reply' = [terminal |-> e]
    /\ attempted' = [attempted EXCEPT ![e] = attempted'[e]]
    /\ UNCHANGED <<watermark, lease, processed, snapshot, pageRow, summary, assessed>>

Snapshot ==
  \E p \in Page, f \in Framework, lost \in BOOLEAN :
    /\ Answers(lost)
    /\ \/ reply' = [version |-> LastSnapshot(p, f, lost)] /\ UNCHANGED snapshot
       \/ ~lost /\ UpsertSnapshot(p, f, snapshot'[<<p, f>>]) /\ reply' = [saved |-> snapshot'[<<p, f>>]]
    /\ UNCHANGED <<watermark, lease, processed, failures, dashboardVars>>

Summary ==
  \E lost \in BOOLEAN :
    /\ Answers(lost)
    /\ \/ reply' = [summary |-> IF lost THEN 0 ELSE summary] /\ UNCHANGED summary
       \/ ~lost /\ reply' = [summary |-> summary']
    /\ UNCHANGED <<watermark, lease, processed, failures, snapshot, pageRow, assessed, attempted>>

Row ==
  \E p \in Page, s \in Scope :
    /\ UpsertPageAssessment(p, s, pageRow'[<<p, s>>])
    /\ assessed' = [assessed EXCEPT ![p] = assessed'[p]]
    /\ reply' = [row |-> pageRow'[<<p, s>>]]
    /\ UNCHANGED <<watermark, lease, processed, failures, snapshot, summary, attempted, faults>>

\* A list names what was written since then, the newest first, and Limit of
\* them at most: the newest, when it was made from all documents.
Shows(listed, at, since) ==
  LET recent == {x \in DOMAIN at : at[x] # 0 /\ at[x] >= since}
      all == listsWhole \/ Cardinality({x \in DOMAIN at : at[x] # 0}) <= OverFetch * Limit
  IN  /\ listed \in Seq(recent) /\ Len(listed) <= Limit
      /\ \A i, j \in 1 .. Len(listed) : i < j => at[listed[i]] > at[listed[j]]
      /\ all => \A x \in recent : \/ \E i \in 1 .. Len(listed) : listed[i] = x
                                  \/ Len(listed) = Limit /\ \A i \in 1 .. Len(listed) : at[listed[i]] > at[x]

\* A query that fails gives an empty list.
List ==
  /\ "since" \in DOMAIN reply'
  /\ \/ Answers(FALSE) /\ \/ "pages" \in DOMAIN reply' /\ Shows(reply'.pages, assessed, reply'.since)
                          \/ "events" \in DOMAIN reply' /\ Shows(reply'.events, attempted, reply'.since)
     \/ SpendFault /\ reply' \in {[pages |-> <<>>, since |-> reply'.since], [events |-> <<>>, since |-> reply'.since]}
  /\ UNCHANGED <<watermark, lease, processed, failures, snapshot, dashboardVars>>

\* Leases and markers run out; an expired lock document may be removed.
Time ==
  /\ \/ LeaseAges
     \/ lease.left = 0 /\ lease' = [owner |-> NoOwner, left |-> 0]
     \/ UNCHANGED lease
  /\ processed' \subseteq processed
  /\ UNCHANGED <<watermark, failures, snapshot, dashboardVars, faults, reply>>

\* A process ends and what it had stored goes with it.
Forget ==
  /\ ~lasting'
  /\ watermark' = 0 /\ lease' = [owner |-> NoOwner, left |-> 0] /\ processed' = {}
  /\ failures' = [e \in Event |-> [count |-> 0, status |-> "none"]]
  /\ snapshot' = [k \in Page \X Framework |-> 0] /\ pageRow' = [k \in Page \X Scope |-> "none"]
  /\ summary' = 0 /\ assessed' = [p \in Page |-> 0] /\ attempted' = [e \in Event |-> 0]
  /\ UNCHANGED <<reply, faults>>

ContractInit ==
  /\ StoreInit /\ summary = 0 /\ assessed = [p \in Page |-> 0] /\ attempted = [e \in Event |-> 0]

ContractNext ==
  /\ State \/ Lease \/ Marker \/ Failure \/ Snapshot \/ Summary \/ Row \/ List \/ Time \/ Forget
  /\ UNCHANGED <<swallows, listsWhole>>

ContractSpec == ContractInit /\ [][ContractNext]_contractVars
=============================================================================
