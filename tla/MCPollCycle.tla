---------------------------- MODULE MCPollCycle ----------------------------
(***************************************************************************)
(* Instances of the polling worker for TLC.  Event names are model values  *)
(* e1, e2, e3; times are small naturals with two or more to a minute.      *)
(***************************************************************************)
EXTENDS PollCycleProperties, TLC

CONSTANTS e1, e2, e3, p1, p2, f1, f2

\* e1 and e3 target one page, e2 another.
MCPageOf == [e \in Event |-> IF e = e2 THEN p2 ELSE p1]

\* e1 asks for two frameworks, e2 for none, e3 for one of e1's.
MCRequested == [e \in Event |-> IF e = e1 THEN <<f1, f2>> ELSE IF e = e2 THEN << >> ELSE <<f2>>]

\* The mentions ask for one framework each, the same one.
MCOneFramework == [e \in Event |-> <<f1>>]

\* e1 and e2 fall in minute 1, e3 in minute 2 (MinuteLen = 2).
MCCreatedAt == [e \in Event |-> IF e = e1 THEN 2 ELSE IF e = e2 THEN 3 ELSE 4]

\* All three in minute 1 (MinuteLen = 3).
MCSameMinute == [e \in Event |-> IF e = e1 THEN 3 ELSE IF e = e2 THEN 4 ELSE 5]

MCNoEdits == [e \in Event |-> 0]

\* The author of e1 edits it in minute 2.
MCEditedAt == [e \in Event |-> IF e = e1 THEN 5 ELSE 0]

\* Titles sort against the order of creation.
MCRank == [e \in Event |-> IF e = e1 THEN 3 ELSE IF e = e2 THEN 2 ELSE 1]

\* Runners are interchangeable: no definition names one.
RunnerSymmetry == Permutations(Runner)
=============================================================================
