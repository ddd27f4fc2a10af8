------------------------- MODULE MCControlsPublish -------------------------
(***************************************************************************)
(* Instances of the publication of controls for TLC: m1 and m2 are two     *)
(* manifests of one version, m3 is the next version; each drops a          *)
(* requirement of the one before.                                          *)
(***************************************************************************)
EXTENDS ControlsPublish, TLC

CONSTANTS a, b, c, m1, m2, m3

MCRecords ==
  [m \in Manifest |-> IF m = m1 THEN {a, b} ELSE IF m = m2 THEN {b, c} ELSE {a, c}]

MCVersionOf == [m \in Manifest |-> IF m = m3 THEN 2 ELSE 1]

\* Executions are interchangeable: no definition names one.
JobSymmetry == Permutations(Job)
=============================================================================
