---------------------------- MODULE DaemonProofs ----------------------------
(***************************************************************************)
(* Theorems about Daemon, for every value of its constants.  The steps of  *)
(* a tick are those of StateMachine; what they do to the process around    *)
(* them is said once, in the lemmas TickTyped and TickFacts.               *)
(***************************************************************************)
EXTENDS Daemon, StateMachineProofs

-----------------------------------------------------------------------------
(* Typing.                                                                 *)

\* What a process starts from is typed.
LEMMA GoneTyped ==
    /\ "START" \in States /\ "idle" \in Places /\ NoReading \in Readings
    /\ NotStarted \in PublishedValues
    /\ Horizon \in -Horizon .. Horizon
    /\ 0 \in 0 .. TickInterval /\ 0 \in 0 .. MaxLag /\ 0 \in 0 .. MaxErrors
    /\ 0 \in 0 .. WatchdogTimeout /\ 0 \in 0 .. 2 /\ 0 \in Nat
    /\ NotDark \in NotDark .. MaxLimit + 1
<1>1. NoReading \in Readings /\ NotStarted \in PublishedValues
  BY DEF NotStarted, PublishedValues, Readings, NoReading
<1>2. "START" \in States /\ "idle" \in Places
  BY DEF States, Places
<1> QED
  BY <1>1, <1>2, LimitAssumption, TimingAssumption DEF NotDark

\* The Pi boots into the types.
LEMMA InitDaemonTyped == DaemonInit => DaemonTypeOK
<1> SUFFICES ASSUME DaemonInit PROVE DaemonTypeOK
  OBVIOUS
<1>1. TypeOK
  BY GoneTyped DEF DaemonInit, TypeOK
<1>2. 0 \in 0 .. MaxFaults /\ 0 \in 0 .. MaxSignals
  BY DaemonAssumption
<1> QED
  BY <1>1, <1>2 DEF DaemonInit, DaemonTypeOK, Stages

\* A process that ends leaves the machine in its types.
LEMMA GoneKeepsTypes ==
    ASSUME TypeOK, ProcessGone, silent' \in 0 .. WatchdogTimeout,
           watchdog' \in BOOLEAN, told' \in BOOLEAN,
           UNCHANGED <<supply, setting, dark>>
    PROVE  TypeOK'
<1>1. /\ state' \in States /\ elapsed' \in -Horizon .. Horizon
      /\ at' \in Places /\ vin' \in Readings /\ timer' \in BOOLEAN
      /\ wait' \in 0 .. TickInterval /\ lag' \in 0 .. MaxLag
      /\ errs' \in 0 .. MaxErrors /\ pub' \in PublishedValues
      /\ promised' \in Nat /\ poweroffs' \in 0 .. 2
  BY GoneTyped DEF ProcessGone, LoopGone
<1>2. supply' \in Voltages /\ setting' \in Limits /\ dark' \in NotDark .. MaxLimit + 1
  BY DEF TypeOK
<1> QED
  BY <1>1, <1>2 DEF TypeOK

\* A fault is counted up to its bound.
LEMMA FaultTyped ==
    ASSUME faults \in 0 .. MaxFaults, NEW kind, Fault(kind)
    PROVE  faults' \in 0 .. MaxFaults
  BY DaemonAssumption DEF Fault

\* The machine's own steps keep its types, whoever lets it make them.
LEMMA TickTyped ==
    ASSUME TypeOK, Dispatch \/ MainStep \/ TimePasses \/ Environment
    PROVE  TypeOK'
  BY StepTyped DEF Next

\* Only a step of the main thread moves within a tick.
LEMMA AroundTheTick ==
    ASSUME TimePasses \/ Environment
    PROVE  UNCHANGED <<at, timer, errs, state, watchdog, told, poweroffs>>
<1>1. CASE TimePasses
  BY <1>1 DEF TimePasses
<1>2. CASE SupplyChanges
  BY <1>2 DEF SupplyChanges, tickVars, hatVars, historyVars
<1>3. CASE SettingChanges
  BY <1>3 DEF SettingChanges, tickVars, hatVars
<1>4. CASE ClockStep
  BY <1>4 DEF ClockStep, tickVars, hatVars, historyVars
<1> QED
  BY <1>1, <1>2, <1>3, <1>4 DEF Environment

\* Every step of the process, its supervisor, the HAT and the tick keeps the types.
LEMMA StepDaemonTyped == DaemonTypeOK /\ [DaemonNext]_allVars => DaemonTypeOK'
<1> SUFFICES ASSUME DaemonTypeOK, [DaemonNext]_allVars
             PROVE  DaemonTypeOK'
  OBVIOUS
<1>t. /\ TypeOK /\ faults \in 0 .. MaxFaults /\ signals \in 0 .. MaxSignals
      /\ watchdog \in BOOLEAN /\ told \in BOOLEAN /\ poweroffs \in 0 .. 2
      /\ silent \in 0 .. WatchdogTimeout
  BY DEF DaemonTypeOK, TypeOK
<1>v. UNCHANGED vars => TypeOK'
  BY <1>t, StepTyped
<1>u. UNCHANGED vars => at' = at
  BY DEF vars, tickVars
<1>g. ASSUME ProcessGone, UNCHANGED <<supply, setting, hatVars, dark>>
      PROVE  TypeOK'
  BY <1>t, <1>g, GoneKeepsTypes DEF hatVars
<1>f. \A kind \in FaultKinds : Fault(kind) => faults' \in 0 .. MaxFaults
  BY <1>t, FaultTyped
<1> USE DEF Stages, procVars, aroundVars, daemonVars
<1>1. CASE StartProcess
  BY <1>1, <1>t, <1>v, <1>u DEF StartProcess, DaemonTypeOK
<1>2. CASE ProbeHat
  <2>1. TypeOK'
    BY <1>2, <1>t, GoneTyped
       DEF ProbeHat, I2COk, TypeOK, tickVars, historyVars
  <2> QED
    BY <1>2, <2>1 DEF ProbeHat, Stage, DaemonTypeOK, tickVars
<1>3. CASE InstallHandlers
  BY <1>3, <1>t, <1>v, <1>u DEF InstallHandlers, Stage, DaemonTypeOK
<1>4. CASE CreateLoop
  <2>1. TypeOK'
    BY <1>4, <1>t, GoneTyped DEF CreateLoop, TypeOK, hatVars, historyVars
  <2> QED
    BY <1>4, <2>1 DEF CreateLoop, Stage, DaemonTypeOK
<1>5. CASE RunLoop
  BY <1>5, <1>t, <1>v, <1>u DEF RunLoop, Stage, DaemonTypeOK
<1>6. CASE StartTick
  <2>1. TypeOK'
    BY <1>6, <1>t, TickTyped DEF StartTick
  <2> QED
    BY <1>6, <2>1 DEF StartTick, Stage, DaemonTypeOK
<1>7. CASE ContinueTick
  <2>1. TypeOK'
    BY <1>7, <1>t, TickTyped DEF ContinueTick
  <2>2. proc' = "running" /\ pi' \in {"up", "halting", "off"}
    BY <1>7 DEF ContinueTick, Stage, DaemonTypeOK
  <2> QED
    BY <1>7, <2>1, <2>2 DEF ContinueTick, DaemonTypeOK
<1>8. CASE LeaveLoop
  BY <1>8, <1>g DEF LeaveLoop, ProcessGone, LoopGone, DaemonTypeOK
<1>9. CASE KilledEarly
  BY <1>9, <1>g DEF KilledEarly, ProcessGone, LoopGone, DaemonTypeOK
<1>10. CASE EnterHandler
  <2>1. faults' \in 0 .. MaxFaults
    BY <1>10, <1>t, <1>f DEF EnterHandler, FaultKinds
  <2> QED
    BY <1>10, <2>1, <1>t, <1>v, <1>u DEF EnterHandler, DaemonTypeOK
<1>11. CASE Disarm
  <2>1. TypeOK'
    BY <1>11, <1>t, GoneTyped
       DEF Disarm, SetWatchdog, I2COk, TypeOK, tickVars, historyVars
  <2> QED
    BY <1>11, <2>1 DEF Disarm, InStartTick, DaemonTypeOK, tickVars
<1>12. CASE Stop
  <2>1. at' = at /\ TypeOK'
    BY <1>12, <1>v, <1>u DEF Stop
  <2> QED
    BY <1>12, <2>1 DEF Stop, LoopQuits, DaemonTypeOK
<1>13. CASE HatNotFound
  <2>1. faults' \in 0 .. MaxFaults /\ TypeOK'
    BY <1>13, <1>f, <1>g DEF HatNotFound, FaultKinds
  <2> QED
    BY <1>13, <2>1 DEF HatNotFound, ProcessGone, LoopGone, DaemonTypeOK
<1>14. CASE Crash
  <2>1. faults' \in 0 .. MaxFaults /\ TypeOK'
    BY <1>14, <1>f, <1>g DEF Crash, FaultKinds
  <2> QED
    BY <1>14, <2>1 DEF Crash, ProcessGone, LoopGone, DaemonTypeOK
<1>15. CASE HandlerFailsInTick
  <2>1. faults' \in 0 .. MaxFaults
    BY <1>15, <1>f DEF HandlerFailsInTick, FaultKinds
  <2>2. errs' \in 0 .. MaxErrors
    BY <1>15, <1>t, TimingAssumption DEF HandlerFailsInTick, EndTick, TypeOK
  <2>3. poweroffs' \in 0 .. 2 /\ pi' \in {"up", "halting", "off"}
    BY <1>15, <1>t DEF HandlerFailsInTick, RanPoweroff, UpTo, DaemonTypeOK
  <2>4. TypeOK'
    BY <1>15, <1>t, <2>2, <2>3, GoneTyped
       DEF HandlerFailsInTick, EndTick, TypeOK, hatVars
  <2> QED
    BY <1>15, <2>1, <2>3, <2>4 DEF HandlerFailsInTick, EndTick, DaemonTypeOK
<1>16. CASE HandlerFailsIdle
  <2>1. faults' \in 0 .. MaxFaults
    BY <1>16, <1>f DEF HandlerFailsIdle, FaultKinds
  <2> QED
    BY <1>16, <2>1, <1>v, <1>u DEF HandlerFailsIdle, DaemonTypeOK
<1>17. CASE HandlerFailsEarly
  <2>1. faults' \in 0 .. MaxFaults /\ TypeOK'
    BY <1>17, <1>f, <1>g DEF HandlerFailsEarly, FaultKinds
  <2> QED
    BY <1>17, <2>1 DEF HandlerFailsEarly, ProcessGone, LoopGone, DaemonTypeOK
<1>18. CASE SvcDown \/ SvcTerm
  <2>1. PICK keep \in BOOLEAN : SendTerm(keep)
    BY <1>18 DEF SvcDown, SvcTerm
  <2>2. signals' \in 0 .. MaxSignals /\ TypeOK' /\ at' = at
    BY <2>1, <1>t, <1>v, <1>u, DaemonAssumption DEF SendTerm
  <2> QED
    BY <2>1, <2>2 DEF SendTerm, DaemonTypeOK
<1>19. CASE SvcUp
  BY <1>19, <1>v, <1>u DEF SvcUp, DaemonTypeOK
<1>20. CASE WatchdogReset
  <2>1. TypeOK'
    BY <1>20, <1>t, GoneTyped, GoneKeepsTypes DEF WatchdogReset
  <2> QED
    BY <1>20, <2>1 DEF WatchdogReset, ProcessGone, LoopGone, DaemonTypeOK
<1>21. CASE CutPower
  <2>1. TypeOK'
    BY <1>21, <1>t, GoneKeepsTypes DEF CutPower
  <2> QED
    BY <1>21, <2>1 DEF CutPower, ProcessGone, LoopGone, DaemonTypeOK
<1>22. CASE Boot
  <2>1. TypeOK'
    BY <1>22, <1>t, GoneTyped DEF Boot, TypeOK, tickVars, historyVars
  <2> QED
    BY <1>22, <2>1 DEF Boot, DaemonTypeOK, tickVars
<1>23. CASE Surroundings
  <2>1. TypeOK' /\ at' = at
    BY <1>23, <1>t, TickTyped, AroundTheTick DEF Surroundings
  <2> QED
    BY <1>23, <2>1 DEF Surroundings, DaemonTypeOK
<1>24. CASE UNCHANGED allVars
  BY <1>24, <1>v, <1>u DEF allVars, DaemonTypeOK
<1> QED
  BY <1>1, <1>2, <1>3, <1>4, <1>5, <1>6, <1>7, <1>8, <1>9, <1>10, <1>11, <1>12,
     <1>13, <1>14, <1>15, <1>16, <1>17, <1>18, <1>19, <1>20, <1>21, <1>22, <1>23,
     <1>24
     DEF DaemonNext, Startup, Handle, Mishap, Hat

\* The process around the machine is type correct: no tick is under way and no
\* loop told to quit in a process that does not run one.
THEOREM DaemonTyped == DaemonSpec => []DaemonTypeOK
  BY InitDaemonTyped, StepDaemonTyped, PTL DEF DaemonSpec

-----------------------------------------------------------------------------
(* The end of a process.                                                   *)

\* cleanup leaves the watchdog disarmed, and from there on nothing arms it: a
\* loop that was told to quit starts no further tick, and the tick under way is
\* past START or was interrupted in it, which midStart remembers.
ExitInv ==
    /\ handler = "stop" =>
         ~watchdog /\ (midStart \/ at = "idle" \/ state # "START")
    /\ quit /\ ~midStart => ~watchdog /\ (at = "idle" \/ state # "START")

\* No process, no order to quit.
LEMMA InitExit == DaemonInit => ExitInv
  BY DEF DaemonInit, ExitInv

\* The main thread moves within ticks only.
LEMMA InATick == MainStep => at # "idle"
  BY DEF MainStep, ReadVoltage, ReadCurrent, I2CError, OnTheBus, ArmWatchdog, StayOK,
         DetectBlackout, ResumePower, CommitShutdown, KeepWaiting, RequestShutdown,
         RehearseShutdown, PoweroffOk, PoweroffNonzero, PoweroffNotStarted, Assign,
         StayDead, Publish

\* Only the branch of START arms the watchdog, and no tick goes back to START.
LEMMA TickFacts ==
    ASSUME MainStep
    PROVE  /\ state # "START" => state' # "START"
           /\ ArmWatchdog \/ watchdog' = watchdog
<1> USE DEF hatVars
<1>1. CASE ReadVoltage
  BY <1>1 DEF ReadVoltage
<1>2. CASE ReadCurrent
  BY <1>2 DEF ReadCurrent
<1>3. CASE I2CError
  BY <1>3 DEF I2CError
<1>4. CASE ArmWatchdog
  BY <1>4 DEF ArmWatchdog, Goto
<1>5. CASE StayOK
  BY <1>5 DEF StayOK
<1>6. CASE DetectBlackout
  BY <1>6 DEF DetectBlackout
<1>7. CASE ResumePower
  BY <1>7 DEF ResumePower
<1>8. CASE CommitShutdown
  BY <1>8 DEF CommitShutdown
<1>9. CASE KeepWaiting
  BY <1>9 DEF KeepWaiting
<1>10. CASE RequestShutdown
  BY <1>10 DEF RequestShutdown
<1>11. CASE RehearseShutdown
  BY <1>11 DEF RehearseShutdown
<1>12. CASE PoweroffOk
  BY <1>12 DEF PoweroffOk
<1>13. CASE PoweroffNonzero
  BY <1>13 DEF PoweroffNonzero
<1>14. CASE PoweroffNotStarted
  BY <1>14 DEF PoweroffNotStarted
<1>15. CASE Assign
  BY <1>15 DEF Assign, NextState
<1>16. CASE StayDead
  BY <1>16 DEF StayDead
<1>17. CASE Publish
  BY <1>17 DEF Publish
<1> QED
  BY <1>1, <1>2, <1>3, <1>4, <1>5, <1>6, <1>7, <1>8, <1>9, <1>10, <1>11, <1>12,
     <1>13, <1>14, <1>15, <1>16, <1>17 DEF MainStep

\* While cleanup is at work nothing of the tick moves, and once it is done the
\* loop only finishes the tick.
LEMMA StepExit == DaemonTypeOK /\ ExitInv /\ [DaemonNext]_allVars => ExitInv'
<1> SUFFICES ASSUME DaemonTypeOK, ExitInv, [DaemonNext]_allVars
             PROVE  ExitInv'
  OBVIOUS
<1>t. /\ quit \in BOOLEAN /\ midStart \in BOOLEAN /\ watchdog \in BOOLEAN
      /\ handler \in {"none", "disarm", "stop"}
  BY DEF DaemonTypeOK, TypeOK
<1>g. ProcessGone => ExitInv'
  BY DEF ProcessGone, LoopGone, ExitInv
<1>s. UNCHANGED <<at, state, watchdog, handler, quit, midStart>> => ExitInv'
  BY DEF ExitInv
<1>p. proc # "running" => at = "idle" /\ ~quit
  BY DEF DaemonTypeOK
<1> USE DEF procVars, aroundVars, daemonVars, vars, tickVars, hatVars
<1>1. CASE StartProcess \/ InstallHandlers \/ RunLoop
  BY <1>1, <1>s DEF StartProcess, InstallHandlers, RunLoop
<1>2. CASE ProbeHat
  BY <1>2, <1>s DEF ProbeHat
<1>3. CASE CreateLoop
  BY <1>3, <1>s DEF CreateLoop
<1>4. CASE StartTick
  BY <1>4 DEF StartTick, Stage, ExitInv
<1>5. CASE ContinueTick
  <2>1. handler = "none" /\ at # "idle"
    BY <1>5, InATick DEF ContinueTick, Stage
  <2>2. UNCHANGED <<handler, quit, midStart>>
    BY <1>5 DEF ContinueTick
  <2>3. /\ state # "START" => state' # "START"
        /\ state = "START" \/ watchdog' = watchdog
    BY <1>5, TickFacts DEF ContinueTick, ArmWatchdog
  <2> QED
    BY <1>t, <2>1, <2>2, <2>3 DEF ExitInv
<1>6. CASE LeaveLoop \/ KilledEarly \/ HatNotFound \/ Crash \/ HandlerFailsEarly
  BY <1>6, <1>g DEF LeaveLoop, KilledEarly, HatNotFound, Crash, HandlerFailsEarly
<1>7. CASE WatchdogReset \/ CutPower
  BY <1>7, <1>g DEF WatchdogReset, CutPower
<1>8. CASE EnterHandler
  BY <1>8 DEF EnterHandler, ExitInv
<1>9. CASE Disarm
  <2>0. watchdog' = (0 > 0) /\ handler' = "stop"
    BY <1>9 DEF Disarm, SetWatchdog
  <2>f. (0 > 0) = FALSE
    OBVIOUS
  <2>1. handler' = "stop" /\ watchdog' = FALSE
    BY ONLY <2>0, <2>f, Zenon
  <2>2. midStart' = (at # "idle" /\ state = "START") /\ UNCHANGED <<at, state>>
    BY <1>9 DEF Disarm, InStartTick
  <2> QED
    BY <2>1, <2>2 DEF ExitInv
<1>10. CASE Stop
  <2>1. handler = "stop" /\ handler' = "none"
    BY <1>10 DEF Stop
  <2>2. UNCHANGED <<at, state, watchdog, midStart>>
    BY <1>10 DEF Stop
  <2> QED
    BY <2>1, <2>2 DEF ExitInv
<1>11. CASE HandlerFailsInTick
  <2>1. handler' = "none" /\ at' = "idle" /\ UNCHANGED <<quit, midStart, watchdog>>
    BY <1>11 DEF HandlerFailsInTick, EndTick
  <2> QED
    BY <2>1 DEF ExitInv
<1>12. CASE HandlerFailsIdle
  BY <1>12 DEF HandlerFailsIdle, ExitInv
<1>13. CASE SvcDown \/ SvcTerm \/ SvcUp
  BY <1>13, <1>s DEF SvcDown, SvcTerm, SvcUp, SendTerm
<1>14. CASE Boot
  BY <1>14, <1>s DEF Boot
<1>15. CASE Surroundings
  BY <1>15, <1>s, AroundTheTick DEF Surroundings
<1>16. CASE UNCHANGED allVars
  BY <1>16, <1>s DEF allVars
<1> QED
  BY <1>1, <1>2, <1>3, <1>4, <1>5, <1>6, <1>7, <1>8, <1>9, <1>10, <1>11, <1>12,
     <1>13, <1>14, <1>15, <1>16
     DEF DaemonNext, Startup, Handle, Mishap, Hat

\* A process whose loop was told to quit ends with the watchdog disarmed.
LEMMA GoneDisarmed ==
    ASSUME DaemonTypeOK, ExitInv, DaemonNext, quit, ~midStart, proc' = "down"
    PROVE  ~watchdog'
<1>1. ~watchdog /\ proc = "running"
  BY DEF ExitInv, DaemonTypeOK
<1> USE <1>1 DEF procVars, aroundVars, daemonVars, hatVars
<1>2. CASE LeaveLoop
  BY <1>2 DEF LeaveLoop
<1>3. CASE Crash
  BY <1>3 DEF Crash
<1>4. CASE WatchdogReset \/ CutPower
  BY <1>4 DEF WatchdogReset, CutPower
<1>5. CASE Startup
  BY <1>5 DEF Startup, StartProcess, ProbeHat, InstallHandlers, CreateLoop, RunLoop, Stage
<1>6. CASE StartTick \/ ContinueTick
  BY <1>6 DEF StartTick, ContinueTick
<1>7. CASE Handle
  BY <1>7 DEF Handle, EnterHandler, Disarm, Stop, KilledEarly
<1>8. CASE HatNotFound \/ HandlerFailsEarly
  BY <1>8 DEF HatNotFound, HandlerFailsEarly, Stage
<1>9. CASE HandlerFailsInTick \/ HandlerFailsIdle
  BY <1>9 DEF HandlerFailsInTick, HandlerFailsIdle
<1>10. CASE SvcDown \/ SvcTerm \/ SvcUp
  BY <1>10 DEF SvcDown, SvcTerm, SvcUp, SendTerm
<1>11. CASE Boot
  BY <1>11 DEF Boot
<1>12. CASE Surroundings
  BY <1>12 DEF Surroundings
<1> QED
  BY <1>2, <1>3, <1>4, <1>5, <1>6, <1>7, <1>8, <1>9, <1>10, <1>11, <1>12
     DEF DaemonNext, Mishap, Hat

\* A daemon that was told to stop leaves no armed watchdog behind, through any
\* number of signals, failed transfers, crashes and resets, unless cleanup
\* interrupted the very tick that arms it.
THEOREM ExitLeavesDisarmed == DaemonSpec => ExitDisarmsLater
<1>1. DaemonTypeOK /\ ExitInv /\ [DaemonNext]_allVars
        => [quit /\ proc' = "down" /\ ~midStart => ~watchdog']_allVars
  <2> SUFFICES ASSUME DaemonTypeOK, ExitInv, DaemonNext,
                      quit, proc' = "down", ~midStart
               PROVE  ~watchdog'
    OBVIOUS
  <2> QED
    BY GoneDisarmed
<1>2. [](DaemonTypeOK /\ ExitInv) /\ [][DaemonNext]_allVars => ExitDisarmsLater
  BY <1>1, PTL DEF ExitDisarmsLater
<1>3. DaemonSpec => [](DaemonTypeOK /\ ExitInv)
  BY InitDaemonTyped, StepDaemonTyped, InitExit, StepExit, PTL DEF DaemonSpec
<1> QED
  BY <1>2, <1>3, PTL DEF DaemonSpec

-----------------------------------------------------------------------------
(* No tick interrupted while it arms the watchdog.                         *)

\* Where cleanup is only entered outside the START tick, it finds it nowhere.
CalmInv == midStart = FALSE /\ (handler = "disarm" => ~InStartTick)

\* Nothing has been interrupted before the first process.
LEMMA InitCalm == DaemonInit => CalmInv
  BY DEF DaemonInit, CalmInv

\* The tick stands still while cleanup is at work.
LEMMA StepCalm ==
    ASSUME "first tick" \notin Faults
    PROVE  DaemonTypeOK /\ CalmInv /\ [DaemonNext]_allVars => CalmInv'
<1> SUFFICES ASSUME DaemonTypeOK, CalmInv, [DaemonNext]_allVars
             PROVE  CalmInv'
  OBVIOUS
<1>g. ProcessGone /\ UNCHANGED midStart => CalmInv'
  BY DEF ProcessGone, LoopGone, CalmInv
<1>s. UNCHANGED <<at, state, handler, midStart>> => CalmInv'
  BY DEF CalmInv, InStartTick
<1>n. UNCHANGED midStart /\ handler' = "none" => CalmInv'
  BY DEF CalmInv
<1>p. proc # "running" => at = "idle"
  BY DEF DaemonTypeOK
<1> USE DEF procVars, aroundVars, daemonVars, vars, tickVars
<1>1. CASE StartProcess \/ ProbeHat \/ InstallHandlers \/ CreateLoop \/ RunLoop
  BY <1>1, <1>s DEF StartProcess, ProbeHat, InstallHandlers, CreateLoop, RunLoop
<1>2. CASE StartTick \/ ContinueTick
  BY <1>2, <1>n DEF StartTick, ContinueTick, Stage
<1>3. CASE LeaveLoop \/ KilledEarly
  BY <1>3, <1>g DEF LeaveLoop, KilledEarly
<1>4. CASE HatNotFound \/ Crash \/ HandlerFailsEarly
  BY <1>4, <1>g DEF HatNotFound, Crash, HandlerFailsEarly
<1>5. CASE WatchdogReset \/ CutPower
  BY <1>5, <1>g DEF WatchdogReset, CutPower
<1>6. CASE EnterHandler
  <2>1. ~InStartTick
    BY <1>6, <1>p DEF EnterHandler, Fault, InStartTick
  <2>2. UNCHANGED <<at, state, midStart>>
    BY <1>6 DEF EnterHandler
  <2>3. ~(at # "idle" /\ state = "START") /\ midStart = FALSE
    BY <2>1 DEF InStartTick, CalmInv
  <2>4. ~(at' # "idle" /\ state' = "START") /\ midStart' = FALSE
    BY ONLY <2>2, <2>3, Zenon
  <2> QED
    BY <2>4 DEF CalmInv, InStartTick
<1>7. CASE Disarm
  <2>1. handler = "disarm" /\ handler' = "stop" /\ midStart' = InStartTick
    BY <1>7 DEF Disarm
  <2>2. InStartTick = FALSE
    BY <2>1 DEF CalmInv, InStartTick
  <2> QED
    BY <2>1, <2>2, Zenon DEF CalmInv
<1>8. CASE Stop \/ HandlerFailsInTick \/ HandlerFailsIdle
  BY <1>8, <1>n DEF Stop, HandlerFailsInTick, HandlerFailsIdle
<1>9. CASE SvcDown \/ SvcTerm \/ SvcUp
  BY <1>9, <1>s DEF SvcDown, SvcTerm, SvcUp, SendTerm
<1>10. CASE Boot
  BY <1>10, <1>s DEF Boot
<1>11. CASE Surroundings
  BY <1>11, <1>s, AroundTheTick DEF Surroundings
<1>12. CASE UNCHANGED allVars
  BY <1>12, <1>s DEF allVars
<1> QED
  BY <1>1, <1>2, <1>3, <1>4, <1>5, <1>6, <1>7, <1>8, <1>9, <1>10, <1>11, <1>12
     DEF DaemonNext, Startup, Handle, Mishap, Hat

\* With no SIGTERM within the tick that arms the watchdog, a daemon that was told
\* to stop always leaves it disarmed.
THEOREM ExitAlwaysDisarms ==
    ASSUME "first tick" \notin Faults
    PROVE  DaemonSpec => ExitDisarms
<1>1. DaemonTypeOK /\ ExitInv /\ CalmInv /\ [DaemonNext]_allVars
        => [quit /\ proc' = "down" => ~watchdog']_allVars
  <2> SUFFICES ASSUME DaemonTypeOK, ExitInv, CalmInv, DaemonNext,
                      quit, proc' = "down"
               PROVE  ~watchdog'
    OBVIOUS
  <2> QED
    BY GoneDisarmed DEF CalmInv
<1>2. [](DaemonTypeOK /\ ExitInv /\ CalmInv) /\ [][DaemonNext]_allVars => ExitDisarms
  BY <1>1, PTL DEF ExitDisarms
<1>3. DaemonSpec => [](DaemonTypeOK /\ ExitInv /\ CalmInv)
  BY InitDaemonTyped, StepDaemonTyped, InitExit, StepExit, InitCalm, StepCalm, PTL
     DEF DaemonSpec
<1> QED
  BY <1>2, <1>3, PTL DEF DaemonSpec

-----------------------------------------------------------------------------
(* Somebody feeds the watchdog.                                            *)

\* Whenever the watchdog is armed and the HAT waits for nothing, a main loop runs
\* whose ticks keep the bound of FedInv: no process ends before it has disarmed.
AliveInv ==
    /\ watchdog /\ ~told => proc = "running"
    /\ watchdog => FedInv
    /\ proc = "running" => Minded
    /\ proc = "looped" => timer
    /\ pi = "off" => ~watchdog /\ proc = "down"

\* The Pi boots with the watchdog disarmed.
LEMMA InitAlive == DaemonInit => AliveInv
  BY DEF DaemonInit, AliveInv

\* A tick never takes back what the HAT was told, and blocks or ends the timer only
\* once it was told.
LEMMA TickMinded ==
    ASSUME Minded, Dispatch \/ MainStep, told \in BOOLEAN, timer \in BOOLEAN
    PROVE  Minded' /\ (told => told')
<1> USE DEF Minded, Goto, hatVars, historyVars
<1>0. CASE Dispatch
  BY <1>0 DEF Dispatch
<1>1. CASE ReadVoltage
  BY <1>1 DEF ReadVoltage
<1>2. CASE ReadCurrent
  BY <1>2 DEF ReadCurrent
<1>3. CASE I2CError
  BY <1>3 DEF I2CError, EndTick, ReturnTrue
<1>4. CASE ArmWatchdog
  BY <1>4 DEF ArmWatchdog
<1>5. CASE StayOK \/ DetectBlackout
  BY <1>5 DEF StayOK, DetectBlackout
<1>6. CASE ResumePower \/ CommitShutdown \/ KeepWaiting
  BY <1>6 DEF ResumePower, CommitShutdown, KeepWaiting
<1>7. CASE RequestShutdown \/ RehearseShutdown
  BY <1>7 DEF RequestShutdown, RehearseShutdown
<1>8. CASE PoweroffOk
  BY <1>8 DEF PoweroffOk
<1>9. CASE PoweroffNonzero
  BY <1>9 DEF PoweroffNonzero, EndTick
<1>10. CASE PoweroffNotStarted
  BY <1>10 DEF PoweroffNotStarted, EndTick, ReturnTrue
<1>11. CASE Assign \/ StayDead
  BY <1>11 DEF Assign, StayDead
<1>12. CASE Publish
  BY <1>12 DEF Publish, EndTick, ReturnTrue
<1> QED
  BY <1>0, <1>1, <1>2, <1>3, <1>4, <1>5, <1>6, <1>7, <1>8, <1>9, <1>10, <1>11,
     <1>12 DEF MainStep

\* A failed cleanup costs the tick it interrupts, no more than a failed transfer.
LEMMA FailedHandlerFed ==
    ASSUME DaemonTypeOK, FedInv, Minded, HandlerFailsInTick
    PROVE  FedInv'
<1>1. /\ wait \in Nat /\ wait <= TickInterval /\ lag \in Nat /\ lag <= MaxLag
      /\ errs \in 0 .. MaxErrors /\ silent \in Nat /\ at \in Places
      /\ TickInterval \in Nat /\ MaxLag \in Nat
  BY TimingAssumption DEF DaemonTypeOK, TypeOK
<1>2. /\ Slack(errs) \in Nat
      /\ Slack(errs + 1) = Slack(errs) + TickInterval + MaxLag
  BY <1>1, SlackFacts
<1>3. /\ at # "idle" /\ at' = "idle" /\ errs' = errs + 1 /\ lag' = 0
      /\ wait' = wait /\ UNCHANGED hatVars
  BY DEF HandlerFailsInTick, EndTick
<1>4. told' = told /\ silent' = silent
  BY <1>3 DEF hatVars
<1>5. ~told => silent <= MaxLag + Slack(errs) + TickInterval + MaxLag
  BY <1>1, <1>2, <1>3 DEF FedInv, Minded, Places
<1> QED
  BY <1>1, <1>2, <1>3, <1>4, <1>5 DEF FedInv

\* No step takes the feeder away from an armed watchdog, as long as no process
\* crashes and cleanup does not interrupt the tick that arms it.
LEMMA StepAlive ==
    ASSUME "crash" \notin Faults
    PROVE  DaemonTypeOK /\ ExitInv /\ CalmInv /\ AliveInv /\ [DaemonNext]_allVars
              => AliveInv'
<1> SUFFICES ASSUME DaemonTypeOK, ExitInv, CalmInv, AliveInv, [DaemonNext]_allVars
             PROVE  AliveInv'
  OBVIOUS
<1>t. /\ TypeOK /\ watchdog \in BOOLEAN /\ told \in BOOLEAN /\ timer \in BOOLEAN
      /\ quit \in BOOLEAN /\ proc \in Stages /\ pi \in {"up", "halting", "off"}
  BY DEF DaemonTypeOK, TypeOK
<1>p. proc # "running" => at = "idle" /\ ~quit
  BY DEF DaemonTypeOK
<1>g. ASSUME ProcessGone, UNCHANGED <<watchdog, told, pi>>,
             proc # "running" \/ ~watchdog
      PROVE  AliveInv'
  <2>1. proc' = "down" /\ (watchdog' => told')
    BY <1>g, <1>t DEF ProcessGone, LoopGone, AliveInv
  <2> QED
    BY <1>g, <2>1 DEF AliveInv, FedInv
<1>h. ASSUME ProcessGone, watchdog' = FALSE
      PROVE  AliveInv'
  BY <1>h DEF ProcessGone, LoopGone, AliveInv
<1>s. ASSUME UNCHANGED vars, proc' = proc, pi' = pi
      PROVE  AliveInv'
  BY <1>s DEF AliveInv, FedInv, Minded, vars, tickVars, hatVars
<1>d. proc # "running" /\ watchdog => told
  BY <1>t DEF AliveInv
<1> USE DEF procVars, aroundVars, daemonVars
<1>1. CASE StartProcess
  BY <1>1, <1>t, <1>d DEF StartProcess, AliveInv, FedInv, vars, tickVars, hatVars
<1>2. CASE ProbeHat
  BY <1>2, <1>t, <1>d DEF ProbeHat, Stage, AliveInv, FedInv, tickVars
<1>3. CASE InstallHandlers
  BY <1>3, <1>t, <1>d DEF InstallHandlers, Stage, AliveInv, FedInv, vars, tickVars, hatVars
<1>4. CASE CreateLoop
  BY <1>4, <1>t, <1>d DEF CreateLoop, Stage, AliveInv, FedInv, hatVars
<1>5. CASE RunLoop
  BY <1>5, <1>t, <1>p, <1>d
     DEF RunLoop, Stage, AliveInv, FedInv, Minded, vars, tickVars, hatVars
<1>6. CASE StartTick
  <2>1. Minded' /\ (told => told')
    BY <1>6, <1>t, TickMinded DEF StartTick, Stage, AliveInv
  <2>2. watchdog' = watchdog /\ (FedInv => FedInv')
    BY <1>6, <1>t, StepFed DEF StartTick, Dispatch, hatVars, Stage, Next, AliveInv
  <2> QED
    BY <1>6, <2>1, <2>2 DEF StartTick, Stage, AliveInv
<1>7. CASE ContinueTick
  <2>1. Minded' /\ (told => told')
    BY <1>7, <1>t, TickMinded DEF ContinueTick, Stage, AliveInv
  <2>2. proc = "running" /\ proc' = "running" /\ pi # "off" /\ pi' # "off"
    BY <1>7 DEF ContinueTick, Stage
  <2>3. FedInv => FedInv'
    BY <1>7, <1>t, StepFed DEF ContinueTick, Stage, Next, AliveInv
  <2>4. CASE ArmWatchdog
    <3>1. silent' = 0 /\ at' = "assign" /\ lag' = lag /\ lag \in Nat
      BY <1>t, <2>4, TimingAssumption DEF ArmWatchdog, SetWatchdog, I2COk, Goto, TypeOK
    <3>2. FedInv'
      BY <3>1 DEF FedInv
    <3> QED
      BY <2>1, <2>2, <3>2 DEF AliveInv
  <2>5. CASE watchdog' = watchdog
    BY <2>1, <2>2, <2>3, <2>5 DEF AliveInv
  <2> QED
    BY <1>7, <2>4, <2>5, TickFacts DEF ContinueTick
<1>8. CASE LeaveLoop
  <2>1. ~watchdog
    BY <1>8 DEF LeaveLoop, ExitInv, CalmInv
  <2> QED
    BY <1>8, <2>1, <1>g DEF LeaveLoop, hatVars
<1>9. CASE KilledEarly \/ HatNotFound \/ HandlerFailsEarly
  BY <1>9, <1>g DEF KilledEarly, HatNotFound, HandlerFailsEarly, Stage, hatVars
<1>10. CASE Crash
  BY <1>10 DEF Crash, Fault
<1>11. CASE EnterHandler \/ Stop \/ HandlerFailsIdle
  BY <1>11, <1>s DEF EnterHandler, Stop, HandlerFailsIdle
<1>12. CASE Disarm
  <2>0. watchdog' = (0 > 0)
    BY <1>12 DEF Disarm, SetWatchdog
  <2>f. (0 > 0) = FALSE
    OBVIOUS
  <2>1. watchdog' = FALSE
    BY ONLY <2>0, <2>f, Zenon
  <2>2. UNCHANGED <<proc, pi, told, timer, at>>
    BY <1>12 DEF Disarm, tickVars
  <2> QED
    BY <2>1, <2>2 DEF AliveInv, Minded
<1>13. CASE HandlerFailsInTick
  <2>1. /\ UNCHANGED <<proc, told, watchdog, timer>> /\ at' = "idle"
        /\ pi' \in {pi, "halting"}
    BY <1>13 DEF HandlerFailsInTick, EndTick, hatVars
  <2>2. at # "idle"
    BY <1>13 DEF HandlerFailsInTick
  <2>3. proc = "running"
    BY <1>p, <2>2
  <2>4. FedInv => FedInv'
    BY <1>13, <2>3, FailedHandlerFed DEF AliveInv
  <2> QED
    BY <2>1, <2>3, <2>4 DEF AliveInv, Minded
<1>14. CASE SvcDown \/ SvcTerm \/ SvcUp
  BY <1>14, <1>s DEF SvcDown, SvcTerm, SvcUp, SendTerm
<1>15. CASE WatchdogReset \/ CutPower
  BY <1>15, <1>h DEF WatchdogReset, CutPower
<1>16. CASE Boot
  BY <1>16, <1>t DEF Boot, AliveInv
<1>17. CASE Surroundings
  <2>1. UNCHANGED <<proc, pi, at, timer, told, watchdog>>
    BY <1>17, AroundTheTick DEF Surroundings
  <2>2. CASE proc = "running"
    <3>1. FedInv => FedInv'
      BY <1>17, <1>t, <2>2, StepFed DEF Surroundings, Next, AliveInv
    <3> QED
      BY <2>1, <2>2, <3>1 DEF AliveInv, Minded
  <2>3. CASE proc # "running"
    BY <1>d, <2>1, <2>3 DEF AliveInv, FedInv
  <2> QED
    BY <2>2, <2>3
<1>18. CASE UNCHANGED allVars
  BY <1>18, <1>s DEF allVars
<1> QED
  BY <1>1, <1>2, <1>3, <1>4, <1>5, <1>6, <1>7, <1>8, <1>9, <1>10, <1>11, <1>12,
     <1>13, <1>14, <1>15, <1>16, <1>17, <1>18
     DEF DaemonNext, Startup, Handle, Mishap, Hat

\* The ticks of a main loop keep the silence within the watchdog's timeout, if the
\* ticks that may be lost fit into it.
LEMMA FedInTime ==
    ASSUME MaxLag + Slack(MaxErrors) + Period < WatchdogTimeout,
           TypeOK, Minded, FedInv, ~told
    PROVE  silent < WatchdogTimeout
<1>1. /\ wait \in Nat /\ wait <= TickInterval /\ lag \in Nat /\ lag <= MaxLag
      /\ errs \in 0 .. MaxErrors /\ silent \in Nat
      /\ TickInterval \in Nat /\ MaxLag \in Nat /\ WatchdogTimeout \in Nat
  BY TimingAssumption DEF TypeOK
<1>2. at # "poweroff" /\ at \in Places
  BY DEF Minded, TypeOK
<1>3. /\ Slack(errs) \in Nat /\ Slack(errs) <= Slack(MaxErrors)
      /\ Slack(MaxErrors) \in Nat /\ Period = TickInterval + MaxLag
  BY <1>1, SlackFacts, TimingAssumption
<1> QED
  BY <1>1, <1>2, <1>3 DEF FedInv, Places

\* Stopping, restarting, failing to find the HAT and failing to disarm it never
\* let the HAT reset a Pi whose daemon does not crash.
THEOREM NeverResetInVain ==
    ASSUME MaxLag + Slack(MaxErrors) + Period < WatchdogTimeout,
           "crash" \notin Faults, "first tick" \notin Faults
    PROVE  DaemonSpec => []NoSpuriousReset
<1>1. DaemonTypeOK /\ AliveInv => NoSpuriousReset
  <2> SUFFICES ASSUME DaemonTypeOK, AliveInv, watchdog, ~told
               PROVE  ~(silent >= WatchdogTimeout)
    BY DEF NoSpuriousReset, WatchdogExpired
  <2>1. TypeOK
    BY DEF DaemonTypeOK
  <2>2. silent < WatchdogTimeout
    BY <2>1, FedInTime DEF AliveInv
  <2>3. silent \in Nat /\ WatchdogTimeout \in Nat
    BY ONLY <2>1, TimingAssumption DEF TypeOK
  <2> QED
    BY ONLY <2>2, <2>3
<1> QED
  BY <1>1, InitDaemonTyped, StepDaemonTyped, InitExit, StepExit, InitCalm, StepCalm,
     InitAlive, StepAlive, PTL DEF DaemonSpec

=============================================================================
