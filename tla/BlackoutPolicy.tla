--------------------------- MODULE BlackoutPolicy ---------------------------
(***************************************************************************)
(* What the daemon promises about a blackout, without ticks, readings, I2C *)
(* or D-Bus: a grace period that is neither cut short nor stretched beyond *)
(* a deadline, then the hand-over to the HAT, then the power-off, in that  *)
(* order and without a way back.  StateMachine implements it under the     *)
(* mapping given there.                                                    *)
(***************************************************************************)
EXTENDS Integers

CONSTANTS
    Limits,    \* the grace periods the crew may choose from
    CommitBy,  \* a blackout is counted for no longer than this
    TellBy,    \* the HAT is told no later than this
    DryRun,    \* rehearse: never tell, never power off
    Horizon    \* bound: `grace' saturates here

VARIABLES
    mode,    \* how far the shutdown has gone
    grace,   \* time since the blackout began
    setting  \* the grace period now in force

policyVars == <<mode, grace, setting>>

Modes == {"watching", "counting", "committed", "told", "off", "rehearsed"}

Init == mode = "watching" /\ grace = Horizon /\ setting \in Limits

Move(from, to) == mode = from /\ mode' = to

Sag     == Move("watching", "counting") /\ grace' = 0 /\ UNCHANGED setting
Recover == Move("counting", "watching") /\ UNCHANGED <<grace, setting>>
Commit  == /\ Move("counting", "committed")
           /\ grace > setting
           /\ UNCHANGED <<grace, setting>>
Tell     == ~DryRun /\ Move("committed", "told") /\ UNCHANGED <<grace, setting>>
PowerOff == Move("told", "off") /\ UNCHANGED <<grace, setting>>
Rehearse == /\ DryRun /\ Move("committed", "rehearsed")
            /\ UNCHANGED <<grace, setting>>

\* Time may not pass beyond a deadline that has not been met.
TimePasses ==
    /\ mode = "counting"  => grace < CommitBy
    /\ mode = "committed" => grace < TellBy
    /\ grace' = IF grace < Horizon THEN grace + 1 ELSE grace
    /\ UNCHANGED <<mode, setting>>

Choose == setting' \in Limits /\ UNCHANGED <<mode, grace>>

Next == Sag \/ Recover \/ Commit \/ Tell \/ PowerOff \/ Rehearse \/ TimePasses
            \/ Choose

Spec == Init /\ [][Next]_policyVars
=============================================================================
