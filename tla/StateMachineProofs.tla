------------------------- MODULE StateMachineProofs -------------------------
(***************************************************************************)
(* Theorems about StateMachine, for every value of its constants.          *)
(***************************************************************************)
EXTENDS StateMachine, TLAPS

-----------------------------------------------------------------------------
(* Typing.                                                                 *)

\* Every variable of check_state's model starts in its type.
LEMMA InitTyped == Init => TypeOK
<1>1. NoReading \in Readings /\ NotStarted \in PublishedValues
  BY DEF NotStarted, PublishedValues, Readings, NoReading
<1>2. "START" \in States /\ "idle" \in Places
  BY DEF States, Places
<1>3. /\ Horizon \in -Horizon .. Horizon
      /\ 0 \in 0 .. TickInterval /\ 0 \in 0 .. MaxLag /\ 0 \in 0 .. MaxErrors
      /\ 0 \in 0 .. WatchdogTimeout /\ NotDark \in NotDark .. MaxLimit + 1
  BY LimitAssumption, TimingAssumption DEF NotDark
<1>4. ASSUME Init
      PROVE  /\ state \in States /\ at \in Places /\ vin \in Readings
             /\ pub \in PublishedValues
             /\ timer \in BOOLEAN /\ watchdog \in BOOLEAN /\ told \in BOOLEAN
             /\ supply \in Voltages /\ setting \in Limits
  BY <1>1, <1>2, <1>4 DEF Init
<1>5. ASSUME Init
      PROVE  /\ elapsed \in -Horizon .. Horizon
             /\ wait \in 0 .. TickInterval /\ lag \in 0 .. MaxLag
             /\ errs \in 0 .. MaxErrors /\ silent \in 0 .. WatchdogTimeout
             /\ poweroffs \in 0 .. 2 /\ dark \in NotDark .. MaxLimit + 1
             /\ promised \in Nat
  BY <1>3, <1>5 DEF Init
<1> QED
  BY <1>4, <1>5 DEF TypeOK

\* No step of a tick and no step of its surroundings leaves the types.
LEMMA StepTyped == TypeOK /\ [Next]_vars => TypeOK'
<1> SUFFICES ASSUME TypeOK, [Next]_vars
             PROVE  TypeOK'
  OBVIOUS
<1> USE VoltageAssumption, LimitAssumption, TimingAssumption
    DEF TypeOK, States, Places, NotDark, tickVars, hatVars, historyVars
<1>1. CASE Dispatch
  BY <1>1 DEF Dispatch
<1>2. CASE ReadVoltage
  BY <1>2 DEF ReadVoltage, Readings, I2COk
<1>3. CASE ReadCurrent
  BY <1>3 DEF ReadCurrent, Goto
<1>4. CASE I2CError
  BY <1>4 DEF I2CError, ReturnTrue, EndTick, Readings
<1>5. CASE ArmWatchdog
  BY <1>5, TimingAssumption DEF ArmWatchdog, SetWatchdog, I2COk, Goto
<1>6. CASE StayOK \/ DetectBlackout
  BY <1>6 DEF StayOK, DetectBlackout, Goto
<1>7. CASE ResumePower \/ CommitShutdown \/ KeepWaiting
  BY <1>7 DEF ResumePower, CommitShutdown, KeepWaiting, Goto
<1>8. CASE RequestShutdown \/ RehearseShutdown
  <2>1. CASE RequestShutdown
    BY <2>1 DEF RequestShutdown, I2COk, Goto
  <2>2. CASE RehearseShutdown
    BY <2>2 DEF RehearseShutdown, Rehearsing, Goto
  <2> QED
    BY <1>8, <2>1, <2>2
<1>9. CASE PoweroffOk
  <2>1. poweroffs' \in 0 .. 2
    BY <1>9 DEF PoweroffOk, RanPoweroff, UpTo
  <2> QED
    BY <1>9, <2>1 DEF PoweroffOk, Goto
<1>10. CASE PoweroffNonzero
  <2>1. poweroffs' \in 0 .. 2
    BY <1>10 DEF PoweroffNonzero, RanPoweroff, UpTo
  <2>2. NoReading \in Readings
    BY DEF Readings
  <2>3. /\ at' = "idle" /\ vin' \in Readings /\ timer' = FALSE
        /\ wait' = wait /\ lag' = 0 /\ errs' = 0
    BY <1>10, <2>2 DEF PoweroffNonzero, EndTick
  <2>4. at' \in Places /\ timer' \in BOOLEAN /\ wait' \in 0 .. TickInterval
    BY <2>3
  <2>5. UNCHANGED <<state, elapsed, supply, setting, pub, watchdog, told, silent,
                    dark, promised>>
    BY <1>10 DEF PoweroffNonzero
  <2> QED
    BY <2>1, <2>3, <2>4, <2>5
<1>11. CASE PoweroffNotStarted
  BY <1>11 DEF PoweroffNotStarted, ReturnTrue, EndTick, Readings
<1>12. CASE Assign \/ StayDead
  BY <1>12 DEF Assign, NextState, StayDead, Goto
<1>13. CASE Publish
  <2>1. Countdown \in Int
    BY DEF Countdown
  <2>2. pub' \in PublishedValues /\ promised' \in Nat
    <3>1. pub' = [State |-> state, VoltageIn |-> vin,
                  ShutdownCountdown |-> Countdown]
      BY <1>13 DEF Publish, Report
    <3>2. state \in States /\ vin \in Readings
      OBVIOUS
    <3>3. pub' \in PublishedValues
      BY ONLY <2>1, <3>1, <3>2 DEF PublishedValues
    <3>4. promised' \in Nat
      BY ONLY <1>13, <2>1 DEF Publish
    <3> QED
      BY <3>3, <3>4
  <2> QED
    BY <1>13, <2>2 DEF Publish, ReturnTrue, EndTick, Readings
<1>14. CASE TimePasses
  <2>1. /\ lag' \in 0 .. MaxLag
        /\ UNCHANGED <<state, at, vin, timer, errs, supply, setting, pub,
                       watchdog, told, poweroffs>>
    BY <1>14 DEF TimePasses
  <2>2. /\ wait' \in 0 .. TickInterval
        /\ elapsed' \in -Horizon .. Horizon
        /\ silent' \in 0 .. WatchdogTimeout
        /\ dark' \in NotDark .. MaxLimit + 1
        /\ promised' \in Nat
    BY <1>14 DEF TimePasses, UpTo, Down
  <2> QED
    BY <2>1, <2>2
<1>15. CASE SupplyChanges \/ SettingChanges
  BY <1>15 DEF SupplyChanges, SettingChanges
<1>16. CASE ClockStep
  BY <1>16, ConfigurationAssumption DEF ClockStep, UpTo
<1>17. CASE UNCHANGED vars
  BY <1>17 DEF vars
<1> QED
  BY <1>1, <1>2, <1>3, <1>4, <1>5, <1>6, <1>7, <1>8, <1>9, <1>10, <1>11,
     <1>12, <1>13, <1>14, <1>15, <1>16, <1>17
     DEF Next, MainStep, Environment

\* The state machine is type correct for all readings, limits and timings.
THEOREM TypeCorrect == Spec => []TypeOK
  BY InitTyped, StepTyped, PTL DEF Spec

-----------------------------------------------------------------------------
(* The hand-over to the HAT.                                               *)

\* PoweroffOnce and NeverAbandoned are not inductive: they need to know where
\* in a tick the command can still be ahead, and that nothing but its failure
\* destroys the timer.
HandOverInv ==
    /\ poweroffs \in {0, 1}
    /\ poweroffs = 1 => told
    /\ ~timer => told /\ at = "idle"
    /\ at = "poweroff" => told /\ state = "SHUTDOWN" /\ poweroffs = 0
    /\ at = "assign" => state \in {"START", "SHUTDOWN"}
    /\ at = "assign" /\ state = "SHUTDOWN" => poweroffs = 1 \/ DryRun
    /\ at = "publish" => state # "START"
    /\ told => state \in {"SHUTDOWN", "DEAD"}
    /\ state \in {"START", "OK", "BLACKOUT"} => poweroffs = 0
    /\ state = "SHUTDOWN" /\ timer /\ at # "assign" => poweroffs = 0

\* A shutdown that has not begun has run no command.
LEMMA InitHandOver == Init => HandOverInv
  BY DEF Init, HandOverInv

\* Only the three outcomes of check_call and the assignment behind it can
\* disturb the order of the hand-over.
LEMMA StepHandOver == TypeOK /\ HandOverInv /\ [Next]_vars => HandOverInv'
<1> SUFFICES ASSUME TypeOK, HandOverInv, [Next]_vars
             PROVE  HandOverInv'
  OBVIOUS
<1>t. timer \in BOOLEAN /\ told \in BOOLEAN /\ state \in States
  BY DEF TypeOK
<1> USE <1>t DEF HandOverInv
<1>1. CASE Dispatch
  BY <1>1 DEF Dispatch, hatVars, historyVars
<1>2. CASE ReadVoltage
  BY <1>2 DEF ReadVoltage, historyVars
<1>3. CASE ReadCurrent
  BY <1>3 DEF ReadCurrent, Goto
<1>4. CASE I2CError
  BY <1>4 DEF I2CError, OnTheBus, ReturnTrue, EndTick, hatVars, historyVars
<1>5. CASE ArmWatchdog
  BY <1>5 DEF ArmWatchdog, SetWatchdog, I2COk, Goto,
              historyVars
<1>6. CASE StayOK
  BY <1>6 DEF StayOK, Goto, hatVars, historyVars
<1>7. CASE DetectBlackout
  BY <1>7 DEF DetectBlackout, Goto, hatVars, historyVars
<1>8. CASE ResumePower
  BY <1>8 DEF ResumePower, Goto, hatVars, historyVars
<1>9. CASE CommitShutdown
  BY <1>9 DEF CommitShutdown, Goto, hatVars, historyVars
<1>10. CASE KeepWaiting
  BY <1>10 DEF KeepWaiting, Goto, hatVars, historyVars
<1>11. CASE RequestShutdown
  BY <1>11 DEF RequestShutdown, Goto, historyVars
<1>12. CASE RehearseShutdown
  BY <1>12 DEF RehearseShutdown, Rehearsing, Goto, hatVars, historyVars
<1>13. CASE PoweroffOk
  BY <1>13 DEF PoweroffOk, RanPoweroff, UpTo, Goto, hatVars
<1>14. CASE PoweroffNonzero
  BY <1>14 DEF PoweroffNonzero, RanPoweroff, UpTo, EndTick, hatVars
<1>15. CASE PoweroffNotStarted
  BY <1>15 DEF PoweroffNotStarted, ReturnTrue, EndTick, hatVars, historyVars
<1>16. CASE Assign
  BY <1>16 DEF Assign, NextState, Goto, hatVars, historyVars
<1>17. CASE StayDead
  BY <1>17 DEF StayDead, Goto, hatVars, historyVars
<1>18. CASE Publish
  BY <1>18 DEF Publish, ReturnTrue, EndTick, hatVars
<1>19. CASE TimePasses
  BY <1>19 DEF TimePasses
<1>20. CASE SupplyChanges
  BY <1>20 DEF SupplyChanges, tickVars, hatVars, historyVars
<1>21. CASE SettingChanges
  BY <1>21 DEF SettingChanges, tickVars, hatVars
<1>22. CASE ClockStep
  BY <1>22 DEF ClockStep, tickVars, hatVars, historyVars
<1>23. CASE UNCHANGED vars
  BY <1>23 DEF vars, tickVars, hatVars, historyVars
<1> QED
  BY <1>1, <1>2, <1>3, <1>4, <1>5, <1>6, <1>7, <1>8, <1>9, <1>10, <1>11,
     <1>12, <1>13, <1>14, <1>15, <1>16, <1>17, <1>18, <1>19, <1>20, <1>21,
     <1>22, <1>23
     DEF Next, MainStep, Environment

\* The poweroff command runs at most once and never before the HAT was told,
\* for any outcome of check_call, any I2C errors and any stepping of the clock.
THEOREM PoweroffAtMostOnce == Spec => []PoweroffOnce
<1>1. HandOverInv => PoweroffOnce
  BY DEF HandOverInv, PoweroffOnce
<1> QED
  BY <1>1, InitHandOver, StepHandOver, TypeCorrect, PTL DEF Spec

\* The daemon stops watching the supply only when the HAT has the shutdown in
\* hand.
THEOREM WatchedOrHandedOver == Spec => []NeverAbandoned
<1>1. HandOverInv => NeverAbandoned
  BY DEF HandOverInv, NeverAbandoned
<1> QED
  BY <1>1, InitHandOver, StepHandOver, TypeCorrect, PTL DEF Spec

-----------------------------------------------------------------------------
(* The branches of a tick.                                                 *)

\* What the rest of a tick relies on, and what is still true of a process that was
\* started to a HAT that had been told before: where the branch of a state can be,
\* and that a timer is only missing where no blackout is being counted.
BranchInv ==
    /\ at = "assign" => \/ state = "START"
                        \/ state = "SHUTDOWN" /\ (told \/ DryRun)
    /\ at = "poweroff" => state = "SHUTDOWN" /\ told
    /\ at = "publish" => state # "START"
    /\ ~timer => at = "idle" /\ (state = "START" \/ (state = "SHUTDOWN" /\ told))

\* The first tick has not begun.
LEMMA InitBranch == Init => BranchInv
  BY DEF Init, BranchInv

\* Each branch is entered and left as the text of check_state has it.
LEMMA StepBranch == TypeOK /\ BranchInv /\ [Next]_vars => BranchInv'
<1> SUFFICES ASSUME TypeOK, BranchInv, [Next]_vars
             PROVE  BranchInv'
  OBVIOUS
<1>t. timer \in BOOLEAN /\ told \in BOOLEAN
  BY DEF TypeOK
<1> USE <1>t DEF BranchInv, Goto, hatVars, historyVars
<1>1. CASE Dispatch \/ ReadVoltage \/ ReadCurrent
  BY <1>1 DEF Dispatch, ReadVoltage, ReadCurrent
<1>2. CASE I2CError
  BY <1>2 DEF I2CError, OnTheBus, ReturnTrue, EndTick
<1>3. CASE ArmWatchdog
  BY <1>3 DEF ArmWatchdog
<1>4. CASE StayOK \/ DetectBlackout
  BY <1>4 DEF StayOK, DetectBlackout
<1>5. CASE ResumePower \/ CommitShutdown \/ KeepWaiting
  BY <1>5 DEF ResumePower, CommitShutdown, KeepWaiting
<1>6. CASE RequestShutdown \/ RehearseShutdown
  BY <1>6 DEF RequestShutdown, RehearseShutdown, Rehearsing
<1>7. CASE PoweroffOk
  BY <1>7 DEF PoweroffOk
<1>8. CASE PoweroffNonzero
  BY <1>8 DEF PoweroffNonzero, EndTick
<1>9. CASE PoweroffNotStarted
  BY <1>9 DEF PoweroffNotStarted, ReturnTrue, EndTick
<1>10. CASE Assign \/ StayDead
  BY <1>10 DEF Assign, NextState, StayDead
<1>11. CASE Publish
  BY <1>11 DEF Publish, ReturnTrue, EndTick
<1>12. CASE TimePasses
  BY <1>12 DEF TimePasses
<1>13. CASE Environment
  BY <1>13 DEF Environment, SupplyChanges, SettingChanges, ClockStep, tickVars
<1>14. CASE UNCHANGED vars
  BY <1>14 DEF vars, tickVars
<1> QED
  BY <1>1, <1>2, <1>3, <1>4, <1>5, <1>6, <1>7, <1>8, <1>9, <1>10, <1>11, <1>12,
     <1>13, <1>14 DEF Next, MainStep

-----------------------------------------------------------------------------
(* The grace period.                                                       *)

\* With an undisturbed clock, what is left of the countdown never outlives the
\* time the comparison still has to run.  A tick that fails behind the end of a
\* blackout may leave a countdown on display, of no more than the whole limit.
CountdownInv ==
    /\ promised <= setting
    /\ state = "BLACKOUT" =>
         elapsed >= 0 /\ (promised = 0 \/ elapsed + promised <= setting)

\* Nothing is promised before the first tick.
LEMMA InitCountdown == Init => CountdownInv
  BY LimitAssumption DEF Init, CountdownInv

\* What these numbers are.
LEMMA GraceTypes ==
    ASSUME TypeOK
    PROVE  /\ elapsed \in Int /\ elapsed <= Horizon /\ setting \in Nat
           /\ setting <= MaxLimit /\ promised \in Nat
           /\ dark \in Int /\ -1 <= dark /\ dark <= MaxLimit + 1
           /\ MaxLimit \in Nat /\ Horizon \in Nat
           /\ vin \in Int /\ BlackoutVoltageLimit \in Int
  BY VoltageAssumption, LimitAssumption, TimingAssumption
     DEF TypeOK, NotDark, Readings, NoReading

\* A change of the setting voids the countdown, and a new blackout starts it at the
\* limit, which is no less than what may still be shown.
LEMMA StepCountdown ==
    ASSUME ClockSteps = {}
    PROVE  TypeOK /\ BranchInv /\ CountdownInv /\ [Next]_vars => CountdownInv'
<1> SUFFICES ASSUME TypeOK, BranchInv, CountdownInv, [Next]_vars
             PROVE  CountdownInv'
  OBVIOUS
<1>t. /\ elapsed \in Int /\ elapsed <= Horizon /\ setting \in Nat
      /\ promised \in Nat /\ Horizon \in Nat
  BY GraceTypes
<1> USE <1>t DEF CountdownInv, Goto, EndTick, hatVars, historyVars
<1>1. CASE Dispatch \/ ReadVoltage \/ ReadCurrent \/ I2CError \/ ArmWatchdog
  BY <1>1 DEF Dispatch, ReadVoltage, ReadCurrent, I2CError, ArmWatchdog
<1>2. CASE StayOK \/ KeepWaiting \/ StayDead
  BY <1>2 DEF StayOK, KeepWaiting, StayDead
<1>3. CASE DetectBlackout
  BY <1>3 DEF DetectBlackout
<1>4. CASE ResumePower \/ CommitShutdown
  BY <1>4 DEF ResumePower, CommitShutdown
<1>5. CASE RequestShutdown \/ RehearseShutdown
  BY <1>5 DEF RequestShutdown, RehearseShutdown
<1>6. CASE PoweroffOk \/ PoweroffNonzero \/ PoweroffNotStarted
  BY <1>6 DEF PoweroffOk, PoweroffNonzero, PoweroffNotStarted
<1>7. CASE Assign
  BY <1>7 DEF Assign, NextState, BranchInv
<1>8. CASE Publish
  BY <1>8 DEF Publish, Countdown
<1>9. CASE TimePasses
  BY <1>9 DEF TimePasses, UpTo, Down
<1>10. CASE SupplyChanges
  BY <1>10 DEF SupplyChanges
<1>11. CASE SettingChanges
  <2>1. setting' \in Nat
    BY <1>11, LimitAssumption DEF SettingChanges
  <2> QED
    BY <1>11, <2>1 DEF SettingChanges
<1>12. CASE ClockStep
  BY <1>12 DEF ClockStep
<1>13. CASE UNCHANGED vars
  BY <1>13 DEF vars
<1> QED
  BY <1>1, <1>2, <1>3, <1>4, <1>5, <1>6, <1>7, <1>8, <1>9, <1>10, <1>11, <1>12,
     <1>13 DEF Next, MainStep, Environment

\* With an undisturbed clock the wall-clock age of the blackout never runs ahead
\* of the real time without a good reading.
GraceInv ==
    /\ state = "BLACKOUT" =>
         \/ dark >= elapsed
         \/ dark = MaxLimit + 1
         \/ at = "decide" /\ PowerBack
    /\ at = "decide" /\ PowerLost => dark >= 0

\* Nothing is counted before the first blackout.
LEMMA InitGrace == Init => GraceInv
  BY DEF Init, GraceInv

\* A tick restarts the age when it restarts the blackout.
LEMMA StepGrace ==
    ASSUME ClockSteps = {}
    PROVE  TypeOK /\ BranchInv /\ CountdownInv /\ GraceInv /\ [Next]_vars => GraceInv'
<1> SUFFICES ASSUME TypeOK, BranchInv, CountdownInv, GraceInv, [Next]_vars
             PROVE  GraceInv'
  OBVIOUS
<1>t. /\ elapsed \in Int /\ elapsed <= Horizon /\ Horizon \in Nat
      /\ dark \in Int /\ -1 <= dark /\ dark <= MaxLimit + 1 /\ MaxLimit \in Nat
      /\ vin \in Int /\ BlackoutVoltageLimit \in Int
      /\ state = "BLACKOUT" => elapsed >= 0
  BY GraceTypes DEF CountdownInv
<1> USE <1>t DEF GraceInv, PowerBack, PowerLost, NotDark, Goto, EndTick, tickVars,
                 hatVars, historyVars
<1>1. CASE Dispatch
  BY <1>1 DEF Dispatch
<1>2. CASE ReadVoltage
  BY <1>2 DEF ReadVoltage
<1>3. CASE ReadCurrent
  BY <1>3 DEF ReadCurrent
<1>4. CASE I2CError
  BY <1>4 DEF I2CError, OnTheBus
<1>5. CASE ArmWatchdog
  BY <1>5 DEF ArmWatchdog
<1>6. CASE StayOK \/ StayDead
  BY <1>6 DEF StayOK, StayDead
<1>7. CASE DetectBlackout
  BY <1>7 DEF DetectBlackout
<1>8. CASE ResumePower \/ CommitShutdown
  BY <1>8 DEF ResumePower, CommitShutdown
<1>9. CASE KeepWaiting
  BY <1>9 DEF KeepWaiting
<1>10. CASE RequestShutdown \/ RehearseShutdown
  BY <1>10 DEF RequestShutdown, RehearseShutdown
<1>11. CASE PoweroffOk \/ PoweroffNonzero \/ PoweroffNotStarted
  BY <1>11 DEF PoweroffOk, PoweroffNonzero, PoweroffNotStarted
<1>12. CASE Assign
  BY <1>12 DEF Assign, NextState, BranchInv
<1>13. CASE Publish
  BY <1>13 DEF Publish
<1>14. CASE TimePasses
  BY <1>14 DEF TimePasses, UpTo
<1>15. CASE SupplyChanges \/ SettingChanges
  BY <1>15 DEF SupplyChanges, SettingChanges
<1>16. CASE ClockStep
  BY <1>16 DEF ClockStep
<1>17. CASE UNCHANGED vars
  BY <1>17 DEF vars
<1> QED
  BY <1>1, <1>2, <1>3, <1>4, <1>5, <1>6, <1>7, <1>8, <1>9, <1>10, <1>11, <1>12,
     <1>13, <1>14, <1>15, <1>16, <1>17 DEF Next, MainStep, Environment

\* Only CommitShutdown commits, and what it has checked.
LEMMA OnlyCommitCommits ==
    ASSUME Next, state # "SHUTDOWN", state' = "SHUTDOWN"
    PROVE  CommitShutdown
<1> USE DEF Goto, EndTick, tickVars
<1>1. ASSUME Dispatch \/ TimePasses \/ Environment
      PROVE  state' = state
  BY <1>1 DEF Dispatch, TimePasses, Environment, SupplyChanges, SettingChanges,
              ClockStep
<1>2. ASSUME MainStep, ~CommitShutdown
      PROVE  state' # "SHUTDOWN" \/ state' = state
  BY <1>2 DEF MainStep, ReadVoltage, ReadCurrent, I2CError, ArmWatchdog, StayOK,
              DetectBlackout, ResumePower, KeepWaiting, RequestShutdown,
              RehearseShutdown, PoweroffOk, PoweroffNonzero,
              PoweroffNotStarted, Assign, NextState, StayDead,
              Publish
<1> QED
  BY <1>1, <1>2 DEF Next

\* When it does, the readings have been bad for longer than the limit ...
LEMMA CommitDark ==
    ASSUME TypeOK, GraceInv, Next, state # "SHUTDOWN", state' = "SHUTDOWN"
    PROVE  dark > setting
<1>1. CommitShutdown
  BY OnlyCommitCommits
<1>2. /\ elapsed \in Int /\ dark \in Int /\ MaxLimit \in Nat
      /\ setting \in Nat /\ setting <= MaxLimit
  BY GraceTypes
<1> QED
  BY <1>1, <1>2 DEF GraceInv, CommitShutdown, Expired, PowerBack

\* ... and nothing is left of the countdown.
LEMMA CommitVoid ==
    ASSUME TypeOK, CountdownInv, Next, state # "SHUTDOWN", state' = "SHUTDOWN"
    PROVE  promised = 0
<1>1. CommitShutdown
  BY OnlyCommitCommits
<1>2. elapsed \in Int /\ setting \in Nat /\ promised \in Nat
  BY GraceTypes
<1> QED
  BY <1>1, <1>2 DEF CountdownInv, CommitShutdown, Expired

\* With a clock that nobody steps, the Pi is never committed to a shutdown
\* within BlackoutTimeLimit of real time after a good reading.
THEOREM GraceNotCutShort == ASSUME ClockSteps = {} PROVE Spec => CommitJustified
<1>1. TypeOK /\ GraceInv /\ [Next]_vars
        => [state = "BLACKOUT" /\ state' = "SHUTDOWN" => dark > setting]_vars
  BY CommitDark
<1>2. Init /\ [][Next]_vars => [](TypeOK /\ BranchInv /\ CountdownInv /\ GraceInv)
  BY InitTyped, StepTyped, InitBranch, StepBranch, InitCountdown, StepCountdown,
     InitGrace, StepGrace, PTL
<1> QED
  BY <1>1, <1>2, PTL DEF Spec, CommitJustified

\* With a clock that nobody steps, the shutdown never starts while the countdown
\* last shown still has time to run.
THEOREM CountdownKept == ASSUME ClockSteps = {} PROVE Spec => CountdownHonest
<1>1. TypeOK /\ CountdownInv /\ [Next]_vars
        => [state' = "SHUTDOWN" /\ state # "SHUTDOWN" => promised = 0]_vars
  BY CommitVoid
<1>2. Init /\ [][Next]_vars => [](TypeOK /\ BranchInv /\ CountdownInv)
  BY InitTyped, StepTyped, InitBranch, StepBranch, InitCountdown, StepCountdown, PTL
<1> QED
  BY <1>1, <1>2, PTL DEF Spec, CountdownHonest

-----------------------------------------------------------------------------
(* Timeliness.                                                             *)

\* The cost of failed ticks grows by one period with each of them.  This is all
\* the proofs below know of the product.
LEMMA SlackFacts ==
    /\ Period \in Nat /\ Period = TickInterval + MaxLag
    /\ Slack(0) = 0
    /\ \A e \in 0 .. MaxErrors :
          /\ Slack(e) \in Nat
          /\ Slack(e) <= Slack(MaxErrors)
          /\ Slack(e + 1) = Slack(e) + Period
<1>1. Period \in Nat /\ Period = TickInterval + MaxLag /\ MaxErrors \in Nat
  BY TimingAssumption DEF Period
<1>2. ASSUME NEW e \in 0 .. MaxErrors
      PROVE  Slack(e) \in Nat /\ Slack(e + 1) = Slack(e) + Period
  BY <1>1 DEF Slack
<1>3. ASSUME NEW e \in 0 .. MaxErrors
      PROVE  Slack(e) <= Slack(MaxErrors)
  <2>1. /\ MaxErrors - e \in Nat
        /\ (MaxErrors - e) * Period \in Nat
        /\ MaxErrors * Period = e * Period + (MaxErrors - e) * Period
    BY <1>1
  <2> QED
    BY <1>1, <2>1 DEF Slack
<1>4. Slack(0) = 0
  BY <1>1 DEF Slack
<1> QED
  BY <1>1, <1>2, <1>3, <1>4

\* The last transfer that succeeded is no older than the ticks lost since then
\* and the one under way account for.
FedInv ==
    ~told =>
      /\ at = "idle" => silent <= MaxLag + Slack(errs) + wait + lag
      /\ at = "volt" => silent <= MaxLag + Slack(errs) + TickInterval + lag
      /\ at \in {"curr", "decide", "assign", "publish"} => silent <= lag

\* A tick ends within its lateness, and another follows it, unless the HAT has been
\* told: only check_call may take for ever, and only its failure ends the timer.
Minded == ~timer \/ at = "poweroff" => told

\* The silence begins when the daemon does.
LEMMA InitFed == Init => FedInv
  BY SlackFacts, TimingAssumption DEF Init, FedInv

\* Every tick that gets past its first read ends the silence.
LEMMA StepFed == TypeOK /\ Minded /\ FedInv /\ [Next]_vars => FedInv'
<1> SUFFICES ASSUME TypeOK, Minded, FedInv, [Next]_vars
             PROVE  FedInv'
  OBVIOUS
<1>t. /\ wait \in Nat /\ wait <= TickInterval /\ lag \in Nat /\ lag <= MaxLag
      /\ errs \in 0 .. MaxErrors /\ silent \in Nat
      /\ TickInterval \in Nat /\ MaxLag \in Nat /\ WatchdogTimeout \in Nat
      /\ told \in BOOLEAN /\ timer \in BOOLEAN
  BY TimingAssumption DEF TypeOK
<1>h. (~timer \/ at = "poweroff") => told
  BY DEF Minded
<1>s. /\ Slack(0) = 0 /\ Slack(errs) \in Nat
      /\ Slack(errs + 1) = Slack(errs) + TickInterval + MaxLag
  BY <1>t, SlackFacts
<1> USE <1>t, <1>h, <1>s DEF FedInv
<1>1. CASE Dispatch
  BY <1>1 DEF Dispatch, hatVars, historyVars
<1>2. CASE ReadVoltage
  BY <1>2 DEF ReadVoltage, I2COk, historyVars
<1>3. CASE ReadCurrent
  BY <1>3 DEF ReadCurrent, Goto
<1>4. CASE I2CError
  BY <1>4 DEF I2CError, OnTheBus, ReturnTrue, EndTick, hatVars, historyVars
<1>5. CASE ArmWatchdog
  BY <1>5 DEF ArmWatchdog, SetWatchdog, I2COk, Goto,
              historyVars
<1>6. CASE StayOK
  BY <1>6 DEF StayOK, Goto, hatVars, historyVars
<1>7. CASE DetectBlackout
  BY <1>7 DEF DetectBlackout, Goto, hatVars, historyVars
<1>8. CASE ResumePower
  BY <1>8 DEF ResumePower, Goto, hatVars, historyVars
<1>9. CASE CommitShutdown
  BY <1>9 DEF CommitShutdown, Goto, hatVars, historyVars
<1>10. CASE KeepWaiting
  BY <1>10 DEF KeepWaiting, Goto, hatVars, historyVars
<1>11. CASE RequestShutdown
  BY <1>11 DEF RequestShutdown, I2COk, Goto, historyVars
<1>12. CASE RehearseShutdown
  BY <1>12 DEF RehearseShutdown, Rehearsing, Goto, hatVars, historyVars
<1>13. CASE PoweroffOk
  BY <1>13 DEF PoweroffOk, Goto, hatVars
<1>14. CASE PoweroffNonzero
  BY <1>14 DEF PoweroffNonzero, EndTick, hatVars
<1>15. CASE PoweroffNotStarted
  BY <1>15 DEF PoweroffNotStarted, ReturnTrue, EndTick, hatVars, historyVars
<1>16. CASE Assign
  BY <1>16 DEF Assign, NextState, Goto, hatVars, historyVars
<1>17. CASE StayDead
  BY <1>17 DEF StayDead, Goto, hatVars, historyVars
<1>18. CASE Publish
  BY <1>18 DEF Publish, ReturnTrue, EndTick, hatVars
<1>19. CASE TimePasses
  BY <1>19 DEF TimePasses, UpTo
<1>20. CASE SupplyChanges
  BY <1>20 DEF SupplyChanges, tickVars, hatVars, historyVars
<1>21. CASE SettingChanges
  BY <1>21 DEF SettingChanges, tickVars, hatVars
<1>22. CASE ClockStep
  BY <1>22 DEF ClockStep, tickVars, hatVars, historyVars
<1>23. CASE UNCHANGED vars
  BY <1>23 DEF vars, tickVars, hatVars, historyVars
<1> QED
  BY <1>1, <1>2, <1>3, <1>4, <1>5, <1>6, <1>7, <1>8, <1>9, <1>10, <1>11,
     <1>12, <1>13, <1>14, <1>15, <1>16, <1>17, <1>18, <1>19, <1>20, <1>21,
     <1>22, <1>23
     DEF Next, MainStep, Environment

\* If MaxErrors failed ticks in a row fit into the watchdog's timeout, the daemon
\* never lets it expire before the hand-over, however the ticks are delayed.
THEOREM WatchdogAlwaysFed ==
    ASSUME MaxLag + Slack(MaxErrors) + Period < WatchdogTimeout
    PROVE  Spec => []WatchdogFed
<1>1. TypeOK /\ HandOverInv /\ FedInv => WatchdogFed
  <2> SUFFICES ASSUME TypeOK, HandOverInv, FedInv, ~told
               PROVE  silent < WatchdogTimeout
    BY DEF WatchdogFed
  <2>1. /\ wait \in Nat /\ wait <= TickInterval /\ lag \in Nat /\ lag <= MaxLag
        /\ errs \in 0 .. MaxErrors /\ silent \in Nat
        /\ TickInterval \in Nat /\ MaxLag \in Nat /\ WatchdogTimeout \in Nat
    BY TimingAssumption DEF TypeOK
  <2>2. at # "poweroff" /\ at \in Places
    BY DEF HandOverInv, TypeOK
  <2>3. /\ Slack(errs) \in Nat /\ Slack(errs) <= Slack(MaxErrors)
        /\ Slack(MaxErrors) \in Nat /\ Period = TickInterval + MaxLag
    BY <2>1, SlackFacts, TimingAssumption
  <2> QED
    BY <2>1, <2>2, <2>3 DEF FedInv, Places
<1>2. HandOverInv => Minded
  BY DEF HandOverInv, Minded
<1> QED
  BY <1>1, <1>2, InitTyped, StepTyped, InitHandOver, StepHandOver, InitFed, StepFed,
     PTL DEF Spec

\* How old a blackout can be at each place of a tick.
DeadlineInv ==
    /\ state = "BLACKOUT" =>
         /\ at \in {"idle", "volt", "curr", "decide", "publish"}
         /\ at = "idle" =>
              elapsed <= MaxLimit + MaxLag + Slack(errs) + wait + lag
         /\ at \in {"volt", "curr", "decide"} =>
              elapsed <= MaxLimit + MaxLag + Slack(errs) + TickInterval + lag
         /\ at = "publish" => elapsed <= MaxLimit + lag
    /\ state = "SHUTDOWN" /\ ~told =>
         /\ at \in {"idle", "volt", "curr", "decide", "assign", "publish"}
         /\ at = "idle" => elapsed <= CommitBy + Slack(errs) + wait + lag
         /\ at \in {"volt", "curr", "decide", "assign"} =>
              elapsed <= CommitBy + Slack(errs) + TickInterval + lag
         /\ at = "publish" =>
              elapsed <= MaxLimit + MaxLag + Slack(MaxErrors) + TickInterval + lag

\* There is no blackout yet.
LEMMA InitDeadline == Init => DeadlineInv
  BY DEF Init, DeadlineInv

\* Every tick that reads the supply either ends the blackout, finds it within its
\* limit or commits; every later one that gets through tells the HAT.
LEMMA StepDeadline ==
    ASSUME ClockSteps = {}
    PROVE  TypeOK /\ BranchInv /\ DeadlineInv /\ [Next]_vars => DeadlineInv'
<1> SUFFICES ASSUME TypeOK, BranchInv, DeadlineInv, [Next]_vars
             PROVE  DeadlineInv'
  OBVIOUS
<1>t. /\ wait \in Nat /\ wait <= TickInterval /\ lag \in Nat /\ lag <= MaxLag
      /\ errs \in 0 .. MaxErrors /\ elapsed \in Int
      /\ setting \in Int /\ setting <= MaxLimit
      /\ MaxLimit \in Nat /\ Horizon \in Nat
      /\ TickInterval \in Nat /\ MaxLag \in Nat
      /\ told \in BOOLEAN /\ timer \in BOOLEAN
  BY LimitAssumption, TimingAssumption DEF TypeOK
<1>h. /\ at = "poweroff" => state = "SHUTDOWN" /\ told
      /\ ~timer => state = "START" \/ (state = "SHUTDOWN" /\ told)
      /\ at = "assign" => state \in {"START", "SHUTDOWN"}
  BY DEF BranchInv
<1>s. /\ Slack(0) = 0 /\ Slack(errs) \in Nat /\ Slack(MaxErrors) \in Nat
      /\ Slack(errs) <= Slack(MaxErrors)
      /\ Slack(errs + 1) = Slack(errs) + TickInterval + MaxLag
      /\ CommitBy = MaxLimit + MaxLag + Slack(MaxErrors) + TickInterval + MaxLag
  BY <1>t, SlackFacts, TimingAssumption DEF CommitBy
<1> USE <1>t, <1>h, <1>s DEF DeadlineInv, Expired
<1>1. CASE Dispatch
  BY <1>1 DEF Dispatch, hatVars, historyVars
<1>2. CASE ReadVoltage
  BY <1>2 DEF ReadVoltage, I2COk, historyVars
<1>3. CASE ReadCurrent
  BY <1>3 DEF ReadCurrent, Goto
<1>4. CASE I2CError
  BY <1>4 DEF I2CError, OnTheBus, ReturnTrue, EndTick, hatVars, historyVars
<1>5. CASE ArmWatchdog
  BY <1>5 DEF ArmWatchdog, SetWatchdog, I2COk, Goto,
              historyVars
<1>6. CASE StayOK
  BY <1>6 DEF StayOK, Goto, hatVars, historyVars
<1>7. CASE DetectBlackout
  BY <1>7 DEF DetectBlackout, Goto, hatVars, historyVars
<1>8. CASE ResumePower
  BY <1>8 DEF ResumePower, Goto, hatVars, historyVars
<1>9. CASE CommitShutdown
  BY <1>9 DEF CommitShutdown, Goto, hatVars, historyVars
<1>10. CASE KeepWaiting
  BY <1>10 DEF KeepWaiting, Goto, hatVars, historyVars
<1>11. CASE RequestShutdown
  BY <1>11 DEF RequestShutdown, I2COk, Goto, historyVars
<1>12. CASE RehearseShutdown
  BY <1>12 DEF RehearseShutdown, Rehearsing, Goto, hatVars, historyVars
<1>13. CASE PoweroffOk
  BY <1>13 DEF PoweroffOk, Goto, hatVars
<1>14. CASE PoweroffNonzero
  BY <1>14 DEF PoweroffNonzero, EndTick, hatVars
<1>15. CASE PoweroffNotStarted
  BY <1>15 DEF PoweroffNotStarted, ReturnTrue, EndTick, hatVars, historyVars
<1>16. CASE Assign
  BY <1>16 DEF Assign, NextState, Goto, hatVars, historyVars
<1>17. CASE StayDead
  BY <1>17 DEF StayDead, Goto, hatVars, historyVars
<1>18. CASE Publish
  BY <1>18 DEF Publish, ReturnTrue, EndTick, hatVars
<1>19. CASE TimePasses
  BY <1>19 DEF TimePasses, UpTo
<1>20. CASE SupplyChanges
  BY <1>20 DEF SupplyChanges, tickVars, hatVars, historyVars
<1>21. CASE SettingChanges
  BY <1>21 DEF SettingChanges, tickVars, hatVars
<1>22. CASE ClockStep
  BY <1>22 DEF ClockStep
<1>23. CASE UNCHANGED vars
  BY <1>23 DEF vars, tickVars, hatVars, historyVars
<1> QED
  BY <1>1, <1>2, <1>3, <1>4, <1>5, <1>6, <1>7, <1>8, <1>9, <1>10, <1>11,
     <1>12, <1>13, <1>14, <1>15, <1>16, <1>17, <1>18, <1>19, <1>20, <1>21,
     <1>22, <1>23
     DEF Next, MainStep, Environment

\* Both deadlines lie before the age saturates.
LEMMA DeadlinesInSight ==
    CommitBy \in Int /\ TellBy \in Int /\ CommitBy < Horizon /\ TellBy < Horizon
<1>1. MaxErrors \in 0 .. MaxErrors
  BY TimingAssumption
<1>2. /\ Period \in Nat /\ Slack(MaxErrors) \in Nat
      /\ MaxLimit \in Nat /\ MaxLag \in Nat /\ Horizon \in Nat
  BY <1>1, SlackFacts, LimitAssumption, TimingAssumption
<1> QED
  BY <1>2, HorizonAssumption DEF CommitBy, TellBy

\* The places add up to the two deadlines.
LEMMA DeadlineMet == TypeOK /\ DeadlineInv => TellInTime
<1> SUFFICES ASSUME TypeOK, DeadlineInv
             PROVE  TellInTime
  OBVIOUS
<1>1. /\ wait \in Nat /\ wait <= TickInterval /\ lag \in Nat /\ lag <= MaxLag
      /\ errs \in 0 .. MaxErrors /\ elapsed \in Int /\ MaxLimit \in Nat
      /\ TickInterval \in Nat /\ MaxLag \in Nat
  BY LimitAssumption, TimingAssumption DEF TypeOK
<1>2. /\ Slack(errs) \in Nat /\ Slack(errs) <= Slack(MaxErrors)
      /\ Slack(MaxErrors) \in Nat
      /\ CommitBy = MaxLimit + MaxLag + Slack(MaxErrors) + TickInterval + MaxLag
      /\ TellBy = CommitBy + Slack(MaxErrors) + TickInterval + MaxLag
  BY <1>1, SlackFacts, TimingAssumption DEF CommitBy, TellBy
<1> QED
  BY <1>1, <1>2 DEF DeadlineInv, TellInTime

\* With a clock that nobody steps, a blackout is counted until CommitBy at most
\* and the HAT is told by TellBy.
THEOREM ToldInTime == ASSUME ClockSteps = {} PROVE Spec => []TellInTime
  BY DeadlineMet, InitTyped, StepTyped, InitBranch, StepBranch, InitDeadline,
     StepDeadline, PTL DEF Spec

-----------------------------------------------------------------------------
(* What the D-Bus clients see.                                             *)

\* Only a tick that is about to publish has changed the state.
CoherenceInv ==
    at # "publish" =>
        /\ pub.State = IF state = "START" THEN "Not started" ELSE state
        /\ pub.ShutdownCountdown # 0 => state = "BLACKOUT"

\* The initial values on D-Bus are those of a machine in START.
LEMMA InitCoherent == Init => CoherenceInv
<1>1. NotStarted.State = "Not started" /\ NotStarted.ShutdownCountdown = 0
  BY DEF NotStarted, NoReading
<1> QED
  BY <1>1 DEF Init, CoherenceInv

\* No way through check_state that changes the state avoids Publish.
LEMMA StepCoherent ==
    TypeOK /\ BranchInv /\ CoherenceInv /\ [Next]_vars => CoherenceInv'
<1> SUFFICES ASSUME TypeOK, BranchInv, CoherenceInv, [Next]_vars
             PROVE  CoherenceInv'
  OBVIOUS
<1>h. /\ at = "poweroff" => state = "SHUTDOWN"
      /\ at = "publish" => state # "START"
  BY DEF BranchInv
<1> USE <1>h DEF CoherenceInv
<1>1. CASE Dispatch \/ ReadVoltage \/ ReadCurrent
  BY <1>1 DEF Dispatch, ReadVoltage, ReadCurrent, Goto
<1>2. CASE I2CError \/ PoweroffNonzero \/ PoweroffNotStarted
  BY <1>2 DEF I2CError, OnTheBus, PoweroffNonzero, PoweroffNotStarted, EndTick
<1>3. CASE ArmWatchdog \/ RequestShutdown \/ RehearseShutdown \/ PoweroffOk
  BY <1>3 DEF ArmWatchdog, RequestShutdown, RehearseShutdown, PoweroffOk, Goto
<1>4. CASE \/ StayOK \/ DetectBlackout \/ ResumePower \/ CommitShutdown
           \/ KeepWaiting \/ StayDead \/ Assign
  BY <1>4 DEF StayOK, DetectBlackout, ResumePower, CommitShutdown, KeepWaiting,
              StayDead, Assign, Goto
<1>5. CASE Publish
  <2>1. pub'.State = state /\ pub'.ShutdownCountdown = Countdown
    BY <1>5 DEF Publish, Report
  <2> QED
    BY <1>5, <2>1 DEF Publish, Countdown
<1>6. CASE TimePasses \/ Environment
  BY <1>6 DEF TimePasses, Environment, SupplyChanges, SettingChanges, ClockStep,
              tickVars
<1>7. CASE UNCHANGED vars
  BY <1>7 DEF vars, tickVars
<1> QED
  BY <1>1, <1>2, <1>3, <1>4, <1>5, <1>6, <1>7 DEF Next, MainStep

\* Between ticks the published state is the machine's, and a countdown is shown
\* for a blackout only.
THEOREM PublishedAlwaysCoherent == Spec => []PublishedCoherent
<1>1. CoherenceInv => PublishedCoherent
  BY DEF CoherenceInv, PublishedCoherent
<1> QED
  BY <1>1, InitTyped, StepTyped, InitBranch, StepBranch, InitCoherent,
     StepCoherent, PTL DEF Spec

\* A commitment needs a tick that read no good supply, behind a blackout on D-Bus.
LEMMA CommitShown ==
    ASSUME CoherenceInv, Next, state # "SHUTDOWN", state' = "SHUTDOWN"
    PROVE  pub.State = "BLACKOUT" /\ ~(vin > BlackoutVoltageLimit)
<1>1. CommitShutdown
  BY OnlyCommitCommits
<1> QED
  BY <1>1 DEF CommitShutdown, CoherenceInv, PowerBack

\* On a wall clock that is stepped in whatever way, the shutdown is committed to in
\* a tick that read no good supply, after an earlier one has published BLACKOUT.
THEOREM NeverWithoutNotice == Spec => ShownBeforeCommit
<1>1. CoherenceInv /\ [Next]_vars
        => [state' = "SHUTDOWN" /\ state # "SHUTDOWN" =>
               pub.State = "BLACKOUT" /\ ~(vin > BlackoutVoltageLimit)]_vars
  BY CommitShown
<1>2. Init /\ [][Next]_vars => [](TypeOK /\ BranchInv /\ CoherenceInv)
  BY InitTyped, StepTyped, InitBranch, StepBranch, InitCoherent, StepCoherent,
     PTL
<1> QED
  BY <1>1, <1>2, PTL DEF Spec, ShownBeforeCommit

-----------------------------------------------------------------------------
(* Refinement of BlackoutPolicy.                                           *)

\* The mapping, one mode at a time.
LEMMA ModeFacts ==
    ASSUME TypeOK, HandOverInv
    PROVE  /\ poweroffs = 1 => mode = "off"
           /\ poweroffs = 0 /\ told => mode = "told"
           /\ ~told /\ state = "DEAD" => mode = "rehearsed"
           /\ ~told /\ state = "SHUTDOWN" => mode = "committed"
           /\ state = "BLACKOUT" => mode = "counting"
           /\ state \in {"START", "OK"} => mode = "watching"
  BY DEF TypeOK, HandOverInv, mode, States

\* The same facts about the next state.
LEMMA ModeFactsNext ==
    ASSUME TypeOK', HandOverInv'
    PROVE  /\ poweroffs' = 1 => mode' = "off"
           /\ poweroffs' = 0 /\ told' => mode' = "told"
           /\ ~told' /\ state' = "DEAD" => mode' = "rehearsed"
           /\ ~told' /\ state' = "SHUTDOWN" => mode' = "committed"
           /\ state' = "BLACKOUT" => mode' = "counting"
           /\ state' \in {"START", "OK"} => mode' = "watching"
  BY DEF TypeOK, HandOverInv, mode, States

\* The mapped initial state is an initial state of the policy.
LEMMA InitRefines == Init => Policy!Init
  BY DEF Init, Policy!Init, mode

\* A step that leaves these alone is a stutter of the policy.
LEMMA Stutter ==
    ASSUME UNCHANGED <<state, elapsed, setting, told, poweroffs>>
    PROVE  UNCHANGED Policy!policyVars
  BY DEF Policy!policyVars, mode

\* Every step of a tick or of its surroundings is a step of the policy or none.
LEMMA StepRefines ==
    ASSUME ClockSteps = {}, TypeOK, TypeOK', HandOverInv, HandOverInv',
           TellInTime, TellInTime', [Next]_vars
    PROVE  [Policy!Next]_(Policy!policyVars)
<1>t. /\ elapsed \in Int /\ elapsed <= Horizon /\ Horizon \in Nat
      /\ setting \in Limits /\ told \in BOOLEAN /\ state \in States
      /\ CommitBy \in Int /\ TellBy \in Int /\ CommitBy < Horizon /\ TellBy < Horizon
  BY GraceTypes, DeadlinesInSight DEF TypeOK
<1>h. /\ poweroffs \in {0, 1} /\ poweroffs' \in {0, 1}
      /\ poweroffs = 1 => told
      /\ state \in {"START", "OK", "BLACKOUT"} => ~told
      /\ at = "poweroff" => told /\ poweroffs = 0
      /\ at = "assign" /\ state = "SHUTDOWN" => poweroffs = 1 \/ DryRun
      /\ at = "assign" => state \in {"START", "SHUTDOWN"}
  BY DEF HandOverInv
<1> USE DEF hatVars, historyVars, tickVars, Goto, EndTick, Policy!Move
<1>1. CASE Dispatch \/ ReadVoltage \/ ReadCurrent \/ I2CError \/ ArmWatchdog
  BY <1>1, Stutter DEF Dispatch, ReadVoltage, ReadCurrent, I2CError, ArmWatchdog
<1>2. CASE StayOK \/ KeepWaiting \/ RehearseShutdown \/ StayDead
             \/ PoweroffNotStarted
  BY <1>2, Stutter DEF StayOK, KeepWaiting, RehearseShutdown, StayDead,
                       PoweroffNotStarted
<1>3. CASE Publish \/ SupplyChanges \/ UNCHANGED vars
  BY <1>3, Stutter DEF Publish, SupplyChanges, vars
<1>4. CASE DetectBlackout
  <2>1. Policy!Sag
    BY <1>4, ModeFacts, ModeFactsNext DEF DetectBlackout, Policy!Sag
  <2> QED
    BY <2>1 DEF Policy!Next
<1>5. CASE ResumePower
  <2>1. Policy!Recover
    BY <1>5, ModeFacts, ModeFactsNext DEF ResumePower, Policy!Recover
  <2> QED
    BY <2>1 DEF Policy!Next
<1>6. CASE CommitShutdown
  <2>1. Policy!Commit
    BY <1>6, <1>h, ModeFacts, ModeFactsNext
       DEF CommitShutdown, Expired, Policy!Commit
  <2> QED
    BY <2>1 DEF Policy!Next
<1>7. CASE RequestShutdown
  <2>1. CASE told
    BY <1>7, <2>1, Stutter DEF RequestShutdown
  <2>2. CASE ~told
    <3>1. Policy!Tell
      BY <1>7, <1>h, <2>2, ModeFacts, ModeFactsNext
         DEF RequestShutdown, Rehearsing, Policy!Tell
    <3> QED
      BY <3>1 DEF Policy!Next
  <2> QED
    BY <2>1, <2>2
<1>8. CASE PoweroffOk \/ PoweroffNonzero
  <2>1. poweroffs' = 1 /\ UNCHANGED <<elapsed, setting>> /\ at = "poweroff"
    BY <1>8, <1>h DEF PoweroffOk, PoweroffNonzero, RanPoweroff, UpTo
  <2>2. Policy!PowerOff
    BY <1>h, <2>1, ModeFacts, ModeFactsNext DEF Policy!PowerOff
  <2> QED
    BY <2>2 DEF Policy!Next
<1>9. CASE Assign
  <2>1. CASE state = "START"
    <3>1. /\ mode = "watching" /\ mode' = "watching"
          /\ UNCHANGED <<elapsed, setting>>
      BY <1>9, <2>1, ModeFacts, ModeFactsNext DEF Assign, NextState
    <3> QED
      BY <3>1 DEF Policy!policyVars
  <2>2. CASE state = "SHUTDOWN" /\ poweroffs = 1
    <3>1. mode = "off" /\ mode' = "off" /\ UNCHANGED <<elapsed, setting>>
      BY <1>9, <2>2, ModeFacts, ModeFactsNext DEF Assign, NextState
    <3> QED
      BY <3>1 DEF Policy!policyVars
  <2>3. CASE state = "SHUTDOWN" /\ poweroffs = 0 /\ told
    <3>1. mode = "told" /\ mode' = "told" /\ UNCHANGED <<elapsed, setting>>
      BY <1>9, <2>3, ModeFacts, ModeFactsNext DEF Assign, NextState
    <3> QED
      BY <3>1 DEF Policy!policyVars
  <2>4. CASE state = "SHUTDOWN" /\ poweroffs = 0 /\ ~told
    <3>1. Policy!Rehearse
      BY <1>9, <1>h, <2>4, ModeFacts, ModeFactsNext DEF Assign, NextState, Policy!Rehearse
    <3> QED
      BY <3>1 DEF Policy!Next
  <2> QED
    BY <1>9, <1>h, <2>1, <2>2, <2>3, <2>4 DEF Assign, NextState
<1>10. CASE TimePasses
  <2>1. /\ UNCHANGED <<state, setting, told, poweroffs>>
        /\ elapsed' = UpTo(elapsed + 1, Horizon)
    BY <1>10 DEF TimePasses
  <2>2. mode' = mode
    BY <2>1 DEF mode
  <2>3. elapsed' = IF elapsed < Horizon THEN elapsed + 1 ELSE elapsed
    BY <1>t, <2>1 DEF UpTo
  <2>4. mode = "counting" => elapsed < CommitBy
    <3>1. mode = "counting" => state = "BLACKOUT"
      BY DEF mode
    <3> QED
      BY <1>t, <2>1, <2>3, <3>1 DEF TellInTime
  <2>5. mode = "committed" => elapsed < TellBy
    <3>1. mode = "committed" => state = "SHUTDOWN" /\ ~told
      BY DEF mode
    <3> QED
      BY <1>t, <2>1, <2>3, <3>1 DEF TellInTime
  <2>6. Policy!TimePasses
    BY <2>1, <2>2, <2>3, <2>4, <2>5 DEF Policy!TimePasses
  <2> QED
    BY <2>6 DEF Policy!Next
<1>11. CASE SettingChanges
  <2>1. /\ UNCHANGED <<state, elapsed, told, poweroffs>>
        /\ setting' \in Limits
    BY <1>11 DEF SettingChanges
  <2>2. mode' = mode
    BY <2>1 DEF mode
  <2>3. Policy!Choose
    BY <2>1, <2>2 DEF Policy!Choose
  <2> QED
    BY <2>3 DEF Policy!Next
<1>12. CASE ClockStep
  BY <1>12 DEF ClockStep
<1> QED
  BY <1>1, <1>2, <1>3, <1>4, <1>5, <1>6, <1>7, <1>8, <1>9, <1>10, <1>11, <1>12
     DEF Next, MainStep, Environment

\* check_state implements BlackoutPolicy, while nobody steps the wall clock.
THEOREM Refinement == ASSUME ClockSteps = {} PROVE Spec => PolicyKept
<1>1. Spec => [](TypeOK /\ HandOverInv /\ TellInTime)
  BY TypeCorrect, ToldInTime, InitTyped, InitHandOver, StepHandOver, PTL DEF Spec
<1>2. [](TypeOK /\ HandOverInv /\ TellInTime) /\ [][Next]_vars
        => [][Policy!Next]_(Policy!policyVars)
  BY StepRefines, PTL
<1> QED
  BY <1>1, <1>2, InitRefines, PTL DEF Spec, PolicyKept, Policy!Spec
=============================================================================
