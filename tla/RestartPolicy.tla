--------------------------- MODULE RestartPolicy ---------------------------
(***************************************************************************)
(* What is promised of a blackout by the daemon, its supervisor and the    *)
(* HAT together, when the process that counts may end at any moment: it    *)
(* may forget a blackout, never remember one that is over or resume one    *)
(* halfway; it counts within its deadlines and against the grace period in *)
(* force; and what the HAT was told outlives it.  BlackoutPolicy is the    *)
(* promise of one process; Daemon implements this one.                     *)
(***************************************************************************)
EXTENDS Integers

CONSTANTS
    Limits,   \* the grace periods the crew may choose from
    CommitBy, \* a process counts a blackout for no longer than this
    TellBy,   \* and tells the HAT no later than this
    DryRun    \* rehearse: never tell, never power off

VARIABLES
    mode,    \* how far the shutdown has gone
    grace,   \* how long the process has known of the blackout it acts on, or 0
    setting  \* the grace period now in force

policyVars == <<mode, grace, setting>>

Modes == {"watching", "counting", "committed", "rehearsed", "told", "halting", "off"}

\* How long a process may stay in a mode that must not last.
Deadline == [counting |-> CommitBy, committed |-> TellBy]

Init == mode = "watching" /\ grace = 0 /\ setting \in Limits

Move(from, to) == mode = from /\ mode' = to /\ UNCHANGED setting

Sag      == Move("watching", "counting") /\ grace' = 0
Recover  == Move("counting", "watching") /\ grace' = 0
Commit   == Move("counting", "committed") /\ grace > setting /\ UNCHANGED grace
Rehearse == DryRun /\ Move("committed", "rehearsed") /\ grace' = 0
Tell     == ~DryRun /\ Move("committed", "told") /\ grace' = 0

\* The process ends, and with it all that nobody else was told.
Forget ==
    /\ \E from \in {"counting", "committed", "rehearsed"} : Move(from, "watching")
    /\ grace' = 0

\* From here on the Pi and the HAT go through with it, whatever the daemon does.
PowerOff == Move("told", "halting") /\ UNCHANGED grace
Cut      == Move("halting", "off") /\ UNCHANGED grace
Boot     == Move("off", "watching") /\ UNCHANGED grace

\* Time may not pass beyond a deadline that has not been met.
Count ==
    /\ mode \in DOMAIN Deadline
    /\ grace < Deadline[mode]
    /\ grace' = grace + 1
    /\ UNCHANGED <<mode, setting>>

Choose == setting' \in Limits /\ UNCHANGED <<mode, grace>>

Next == \/ Sag \/ Recover \/ Commit \/ Rehearse \/ Tell \/ Forget
        \/ PowerOff \/ Cut \/ Boot \/ Count \/ Choose

Spec == Init /\ [][Next]_policyVars
=============================================================================
