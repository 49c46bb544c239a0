----------------------------- MODULE Hysteresis -----------------------------
(***************************************************************************)
(* What tracking a link promises: the link is given up after Down          *)
(* consecutive failed rounds and taken back after Up consecutive           *)
(* successful ones; one round of the other kind starts the count again.    *)
(***************************************************************************)
EXTENDS Naturals

CONSTANTS Up, Down

VARIABLES
  inUse,   \* the verdict on the link
  against  \* consecutive rounds that spoke against the verdict

\* One round of probes, ok when enough hosts answered.
Round(ok) ==
  LET limit == IF inUse THEN Down ELSE Up IN
    \/ /\ ok = inUse
       /\ against' = 0
       /\ inUse' = inUse
    \/ /\ ok # inUse
       /\ against + 1 < limit
       /\ against' = against + 1
       /\ inUse' = inUse
    \/ /\ ok # inUse
       /\ against + 1 = limit
       /\ against' = 0
       /\ inUse' = ok

\* Tracking starts anew: the tracker is started, the interface comes up or
\* goes down.
Restart ==
  /\ against' = 0
  /\ inUse' \in BOOLEAN

Init == inUse \in BOOLEAN /\ against = 0
Next == Restart \/ \E ok \in BOOLEAN : Round(ok)
Spec == Init /\ [][Next]_<<inUse, against>>

=============================================================================
