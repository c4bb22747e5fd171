--------------------------- MODULE MCStateMachine ---------------------------
(* Values of the constants of StateMachine for TLC. *)
EXTENDS StateMachine

\* Below, at and above the 9 V limit.
MCVoltages == {8, 9, 10}
\* A step forward longer than any limit, and one backward.
MCClockSteps == {-2, 4}
=============================================================================
