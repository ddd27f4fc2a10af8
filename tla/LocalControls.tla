--------------------------- MODULE LocalControls ---------------------------
(***************************************************************************)
(* Frameworks of Corpus A in a local installation: corpus_a_ingest parses  *)
(* what is in the source directory into one JSONL file per framework and   *)
(* loads it into memory; clear_corpus_a takes it out of memory; a start    *)
(* reads the files (local_startup.py).                                     *)
(*                                                                         *)
(* Requests run on threads beside each other, and memory is read, changed  *)
(* and set as a whole.                                                     *)
(***************************************************************************)
EXTENDS Naturals, Sequences

CONSTANTS
    LocalFrameworks, Editions,
    Threads,
    MaxIngests, MaxChanges,
    NoEdition

VARIABLES
    onDisk,     \* framework -> edition of its documents in the source directory
    parsed,     \* framework -> edition in its JSONL file
    inMemory,   \* framework -> editions of it in memory, one for each time it was loaded
    threads,    \* Threads -> [stage, todo, replace, dry, existing]
    agreed,     \* framework -> edition that requests have reported as loaded
    overlapped, \* requests overlapped since the start
    ingests, changes

localControlVars == <<onDisk, parsed, inMemory, threads, agreed, overlapped, ingests, changes>>

Loading(e) == IF e = NoEdition THEN <<>> ELSE <<e>>
FromFiles == [f \in LocalFrameworks |-> Loading(parsed[f])]
IdleThread == [stage |-> "idle", todo |-> {}, replace |-> FALSE, dry |-> FALSE, existing |-> <<>>]

LocalControlsInit ==
    /\ onDisk \in [LocalFrameworks -> {NoEdition, CHOOSE e \in Editions : TRUE}]
    /\ parsed \in [LocalFrameworks -> {NoEdition, CHOOSE e \in Editions : TRUE}]
    /\ inMemory = FromFiles /\ agreed = parsed
    /\ threads = [r \in Threads |-> IdleThread]
    /\ overlapped = FALSE /\ ingests = 0 /\ changes = 0

Change == changes < MaxChanges /\ changes' = changes + 1
Working(r) == threads[r].stage # "idle"
Quiet == \A r \in Threads : ~Working(r)

\* An upload puts new documents over the old ones.
StageLocally ==
    /\ Change
    /\ \E f \in LocalFrameworks, e \in Editions : onDisk' = [onDisk EXCEPT ![f] = e]
    /\ UNCHANGED <<parsed, inMemory, threads, agreed, overlapped, ingests>>

\* Bug: every framework chosen is loaded.
TakeAll(chosen, replace) == chosen

\* Unless they are to be replaced, frameworks that are in memory are left out.
Pending(chosen, replace) == {f \in chosen : replace \/ inMemory[f] = <<>>}

StartLocalIngest(r) ==
    /\ ~Working(r) /\ ingests < MaxIngests
    /\ ingests' = ingests + 1
    /\ overlapped' = (overlapped \/ ~Quiet)
    /\ \E chosen \in SUBSET LocalFrameworks \ {{}}, replace \in BOOLEAN, dry \in BOOLEAN :
           threads' = [threads EXCEPT ![r] = [stage |-> "parse", todo |-> Pending(chosen, replace),
                                              replace |-> replace, dry |-> dry, existing |-> <<>>]]
    /\ UNCHANGED <<onDisk, parsed, inMemory, agreed, changes>>

Current(r) == CHOOSE f \in threads[r].todo : TRUE
Drop(r) == [threads EXCEPT ![r].stage = "parse", ![r].todo = @ \ {Current(r)}]

\* The file is written for a dry run too, which ends there.
ParseLocally(r) ==
    /\ threads[r].stage = "parse" /\ threads[r].todo # {} /\ onDisk[Current(r)] # NoEdition
    /\ parsed' = [parsed EXCEPT ![Current(r)] = onDisk[Current(r)]]
    /\ threads' = IF threads[r].dry THEN Drop(r) ELSE [threads EXCEPT ![r].stage = "existing"]
    /\ UNCHANGED <<onDisk, inMemory, agreed, overlapped, ingests, changes>>

\* Documents that are missing or cannot be parsed: the framework is skipped.
ParseFails(r) ==
    /\ threads[r].stage = "parse" /\ threads[r].todo # {}
    /\ IF onDisk[Current(r)] = NoEdition THEN UNCHANGED changes ELSE Change
    /\ threads' = Drop(r)
    /\ UNCHANGED <<onDisk, parsed, inMemory, agreed, overlapped, ingests>>

TakeExisting(r) ==
    /\ threads[r].stage = "existing"
    /\ threads' = [threads EXCEPT ![r].stage = "load", ![r].existing =
           [inMemory EXCEPT ![Current(r)] = IF threads[r].replace THEN <<>> ELSE @]]
    /\ UNCHANGED <<onDisk, parsed, inMemory, agreed, overlapped, ingests, changes>>

LoadLocally(r) ==
    /\ threads[r].stage = "load"
    /\ LET f == Current(r)
       IN  /\ inMemory' = [threads[r].existing EXCEPT ![f] = Append(@, parsed[f])]
           /\ agreed' = [agreed EXCEPT ![f] = parsed[f]]
    /\ threads' = Drop(r)
    /\ UNCHANGED <<onDisk, parsed, overlapped, ingests, changes>>

AnswerLocally(r) ==
    /\ threads[r].stage = "parse" /\ threads[r].todo = {}
    /\ threads' = [threads EXCEPT ![r] = IdleThread]
    /\ UNCHANGED <<onDisk, parsed, inMemory, agreed, overlapped, ingests, changes>>

\* Clearing takes a framework out of memory and leaves its file.
ClearLocally ==
    /\ Change
    /\ \E f \in LocalFrameworks :
           /\ inMemory' = [inMemory EXCEPT ![f] = <<>>]
           /\ agreed' = [agreed EXCEPT ![f] = NoEdition]
    /\ overlapped' = (overlapped \/ ~Quiet)
    /\ UNCHANGED <<onDisk, parsed, threads, ingests>>

\* The files are what counts after a start: a cleared framework comes back, and
\* a dry run takes effect.
StartAgain ==
    /\ Change
    /\ inMemory' = FromFiles /\ agreed' = parsed
    /\ threads' = [r \in Threads |-> IdleThread] /\ overlapped' = FALSE
    /\ UNCHANGED <<onDisk, parsed, ingests>>

LocalControlsNext ==
    \/ StageLocally \/ ClearLocally \/ StartAgain
    \/ \E r \in Threads :
           StartLocalIngest(r) \/ ParseLocally(r) \/ ParseFails(r) \/ TakeExisting(r) \/ LoadLocally(r) \/ AnswerLocally(r)

LocalControlsSpec == LocalControlsInit /\ [][LocalControlsNext]_localControlVars

(***************************************************************************)
(* Properties.                                                             *)
(***************************************************************************)

\* While requests do not overlap, memory has each framework once and in the
\* edition last reported, or not at all when it was cleared or never loaded:
\* loading without replacing doubles nothing, and loading one framework loses
\* no other.
MemoryIsAsReported == ~overlapped => \A f \in LocalFrameworks : inMemory[f] = Loading(agreed[f])
=============================================================================
