------------------------- MODULE MCDistanceSensors -------------------------
(* DistanceSensors for TLC: the three sensors of the robot. *)
EXTENDS DistanceSensors, TLC

CONSTANTS front, left, right

RobotOrder == <<left, right, front>>
RobotOwn == left :> 1 @@ right :> 2 @@ front :> 0

\* Budgets a macro period apart, to what 32-bit arithmetic of TLC holds: each
\* is met, and none makes the measurement shorter than a smaller one.
Sweep == {20000 + 38 * k : k \in 0 .. 54700}

ASSUME SweepAssumption == \A b \in Sweep :
    /\ Accepted(b) /\ Meets(FinalFor(b), b)
    /\ Takes(FinalFor(b)) <= Takes(FinalFor(b + 38))
=============================================================================
