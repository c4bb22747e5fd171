---------------------------- MODULE RestartProofs ----------------------------
(***************************************************************************)
(* What the machine of StateMachine promises, through the crashes,         *)
(* restarts, signals and resets of Daemon; and that Daemon implements      *)
(* RestartPolicy.  To the machine a step of Daemon is one of six kinds     *)
(* (KindsOfStep), so that its own step lemmas carry over.                  *)
(***************************************************************************)
EXTENDS DaemonProofs

-----------------------------------------------------------------------------
(* What a step of the process is to the machine.                           *)

\* A transfer beside the tick: the HAT was heard, and its watchdog may be disarmed.
BusStep ==
    I2COk /\ UNCHANGED <<state, elapsed, tickVars, supply, setting, pub, told, historyVars>>

\* The process is gone; the readings and what the HAT was told are not.
Gone == ProcessGone /\ UNCHANGED <<setting, told, dark>>

\* A step of the process, the supervisor or the HAT is a step of the machine or
\* leaves it alone, touches the bus beside it, ends the process, starts a timer,
\* boots the Pi, or is a cleanup that fails within a tick.
LEMMA KindsOfStep ==
    ASSUME [DaemonNext]_allVars
    PROVE  \/ [Next]_vars
           \/ BusStep
           \/ Gone
           \/ CreateLoop
           \/ Boot
           \/ HandlerFailsInTick
<1>1. CASE Startup
  BY <1>1 DEF Startup, StartProcess, ProbeHat, InstallHandlers, RunLoop, BusStep
<1>2. CASE StartTick \/ ContinueTick
  BY <1>2 DEF StartTick, ContinueTick, Next
<1>3. CASE LeaveLoop
  BY <1>3 DEF LeaveLoop, Gone, hatVars
<1>4. CASE Handle
  <2>1. CASE Disarm
    <3>1. I2COk
      BY <2>1, Zenon DEF Disarm, SetWatchdog
    <3> QED
      BY <2>1, <3>1 DEF Disarm, BusStep
  <2> QED
    BY <1>4, <2>1 DEF Handle, EnterHandler, Stop, KilledEarly, Gone, hatVars
<1>5. CASE Mishap
  BY <1>5 DEF Mishap, HatNotFound, Crash, HandlerFailsIdle, HandlerFailsEarly, Gone,
              hatVars
<1>6. CASE SvcDown \/ SvcTerm \/ SvcUp
  BY <1>6 DEF SvcDown, SvcTerm, SvcUp, SendTerm
<1>7. CASE Hat
  BY <1>7 DEF Hat, WatchdogReset, CutPower, Gone
<1>8. CASE Surroundings
  BY <1>8 DEF Surroundings, Next
<1>9. CASE UNCHANGED allVars
  BY <1>9 DEF allVars
<1> QED
  BY <1>1, <1>2, <1>3, <1>4, <1>5, <1>6, <1>7, <1>8, <1>9 DEF DaemonNext

\* A cleanup that fails within a tick does to the machine what a failed transfer
\* does, wherever in the tick it comes.
LEMMA FailedHandlerFacts ==
    ASSUME HandlerFailsInTick
    PROVE  /\ at # "idle" /\ at' = "idle" /\ lag' = 0 /\ wait' = wait
           /\ errs < MaxErrors /\ errs' = errs + 1 /\ "handler" \in Faults
           /\ UNCHANGED <<state, elapsed, timer, supply, setting, pub, told, dark,
                          promised>>
  BY DEF HandlerFailsInTick, EndTick, Fault, hatVars

-----------------------------------------------------------------------------
(* Where a new process starts from.                                        *)

\* A process that is not at its loop has a machine that nobody has used, and the
\* Pi is on its way down only if the HAT was told.
FreshInv ==
    /\ proc # "running" => state = "START"
    /\ pi # "up" => told
    /\ pi = "off" => proc = "down"

\* No process, no machine; a Pi that is up.
LEMMA InitFresh == DaemonInit => BranchInv /\ FreshInv
  BY DEF DaemonInit, BranchInv, FreshInv

\* The branches of a tick stay what they are: a machine that is thrown away or
\* given a timer is in START, outside a tick.
LEMMA StepBranchDaemon ==
    DaemonTypeOK /\ BranchInv /\ FreshInv /\ [DaemonNext]_allVars => BranchInv'
<1> SUFFICES ASSUME DaemonTypeOK, BranchInv, FreshInv, [DaemonNext]_allVars
             PROVE  BranchInv'
  OBVIOUS
<1>t. /\ TypeOK /\ timer \in BOOLEAN /\ told \in BOOLEAN
      /\ proc # "running" => at = "idle" /\ state = "START"
  BY DEF DaemonTypeOK, TypeOK, FreshInv
<1>1. CASE [Next]_vars
  BY <1>1, <1>t, StepBranch
<1>2. CASE BusStep
  BY <1>2 DEF BusStep, BranchInv, tickVars
<1>3. CASE Gone
  BY <1>3 DEF Gone, ProcessGone, LoopGone, BranchInv
<1>4. CASE CreateLoop
  BY <1>4, <1>t DEF CreateLoop, Stage, BranchInv
<1>5. CASE Boot
  BY <1>5, <1>t DEF Boot, FreshInv, BranchInv, tickVars
<1>6. CASE HandlerFailsInTick
  <2>1. at' = "idle" /\ timer' = timer /\ at # "idle"
    BY <1>6, FailedHandlerFacts
  <2>2. timer
    BY <1>t, <2>1 DEF BranchInv
  <2> QED
    BY <2>1, <2>2 DEF BranchInv
<1> QED
  BY <1>1, <1>2, <1>3, <1>4, <1>5, <1>6, KindsOfStep

\* A process that ends leaves no machine, and only a HAT that was told lets the Pi
\* go down.
LEMMA StepFresh ==
    DaemonTypeOK /\ BranchInv /\ FreshInv /\ [DaemonNext]_allVars => FreshInv'
<1> SUFFICES ASSUME DaemonTypeOK, BranchInv, FreshInv, [DaemonNext]_allVars
             PROVE  FreshInv'
  OBVIOUS
<1>t. /\ told \in BOOLEAN /\ timer \in BOOLEAN /\ pi \in {"up", "halting", "off"}
      /\ proc # "running" => at = "idle"
  BY DEF DaemonTypeOK, TypeOK
<1>g. ASSUME ProcessGone, pi' = "up" \/ told'
      PROVE  FreshInv'
  BY <1>g DEF ProcessGone, LoopGone, FreshInv
<1>s. ASSUME UNCHANGED <<state, told, proc, pi>>
      PROVE  FreshInv'
  BY <1>s DEF FreshInv
<1> USE DEF procVars, aroundVars, daemonVars, vars, hatVars
<1>1. CASE StartProcess \/ ProbeHat \/ InstallHandlers \/ CreateLoop \/ RunLoop
  BY <1>1 DEF StartProcess, ProbeHat, InstallHandlers, CreateLoop, RunLoop, Stage,
              FreshInv
<1>2. CASE StartTick
  BY <1>2, <1>s DEF StartTick, Dispatch
<1>3. CASE ContinueTick
  <2>1. told => told'
    <3>1. MainStep /\ Minded
      BY <1>3, <1>t, InATick DEF ContinueTick, BranchInv, Minded
    <3> QED
      BY <3>1, <1>t, TickMinded
  <2>2. proc' = "running" /\ pi # "off"
    BY <1>3 DEF ContinueTick, Stage
  <2>3. \/ pi' = pi
        \/ pi' = "halting" /\ told
    BY <1>3 DEF ContinueTick, BranchInv
  <2> QED
    BY <2>1, <2>2, <2>3 DEF FreshInv
<1>4. CASE LeaveLoop \/ KilledEarly
  BY <1>4, <1>t, <1>g DEF LeaveLoop, KilledEarly, FreshInv
<1>5. CASE HatNotFound \/ HandlerFailsEarly
  BY <1>5, <1>t, <1>g DEF HatNotFound, HandlerFailsEarly, FreshInv
<1>c. CASE Crash
  <2>1. \/ pi' = pi
        \/ pi' = "halting" /\ told
    BY <1>c DEF Crash, BranchInv
  <2> QED
    BY <1>c, <1>t, <1>g, <2>1 DEF Crash, FreshInv
<1>6. CASE WatchdogReset \/ CutPower
  BY <1>6, <1>g DEF WatchdogReset, CutPower, FreshInv
<1>7. CASE EnterHandler \/ Disarm \/ Stop \/ HandlerFailsIdle
  BY <1>7, <1>s DEF EnterHandler, Disarm, Stop, HandlerFailsIdle
<1>8. CASE HandlerFailsInTick
  <2>1. UNCHANGED <<proc, state, told>> /\ at # "idle"
    BY <1>8, FailedHandlerFacts DEF HandlerFailsInTick
  <2>2. \/ pi' = pi
        \/ pi' = "halting" /\ told
    BY <1>8 DEF HandlerFailsInTick, BranchInv
  <2> QED
    BY <2>1, <2>2 DEF FreshInv
<1>9. CASE SvcDown \/ SvcTerm \/ SvcUp
  BY <1>9, <1>s DEF SvcDown, SvcTerm, SvcUp, SendTerm
<1>10. CASE Boot
  BY <1>10 DEF Boot, FreshInv
<1>11. CASE Surroundings
  BY <1>11, <1>s, AroundTheTick DEF Surroundings
<1>12. CASE UNCHANGED allVars
  BY <1>12, <1>s DEF allVars
<1> QED
  BY <1>1, <1>2, <1>3, <1>4, <1>5, <1>c, <1>6, <1>7, <1>8, <1>9, <1>10, <1>11,
     <1>12
     DEF DaemonNext, Startup, Handle, Mishap, Hat

\* What the proofs below rest on.
SoundInv == DaemonTypeOK /\ BranchInv /\ FreshInv

\* It holds of every state of the process.
LEMMA AlwaysSound == DaemonSpec => []SoundInv
<1>1. DaemonInit => SoundInv
  BY InitDaemonTyped, InitFresh DEF SoundInv
<1>2. SoundInv /\ [DaemonNext]_allVars => SoundInv'
  BY StepDaemonTyped, StepBranchDaemon, StepFresh DEF SoundInv
<1> QED
  BY <1>1, <1>2, PTL DEF DaemonSpec

\* Nobody but a running tick commits, so a commitment is one of the machine.
LEMMA OnlyTicksCommit ==
    ASSUME DaemonNext, state # "SHUTDOWN", state' = "SHUTDOWN"
    PROVE  Next
<1>1. state' # state
  OBVIOUS
<1>2. CASE [Next]_vars
  BY <1>1, <1>2 DEF vars
<1>3. CASE BusStep \/ CreateLoop \/ Boot
  BY <1>1, <1>3 DEF BusStep, CreateLoop, Boot
<1>4. CASE Gone
  BY <1>4 DEF Gone, ProcessGone, LoopGone
<1>5. CASE HandlerFailsInTick
  BY <1>1, <1>5, FailedHandlerFacts
<1> QED
  BY <1>2, <1>3, <1>4, <1>5, KindsOfStep

-----------------------------------------------------------------------------
(* The countdown and the grace period.                                     *)

\* A new process promises nothing, and a failed cleanup takes no time.
LEMMA StepCountdownDaemon ==
    ASSUME ClockSteps = {}
    PROVE  SoundInv /\ CountdownInv /\ [DaemonNext]_allVars => CountdownInv'
<1> SUFFICES ASSUME SoundInv, CountdownInv, [DaemonNext]_allVars
             PROVE  CountdownInv'
  OBVIOUS
<1>t. TypeOK /\ BranchInv /\ setting \in Nat
  BY GraceTypes DEF SoundInv, DaemonTypeOK
<1>s. UNCHANGED <<state, elapsed, setting, promised>> => CountdownInv'
  BY DEF CountdownInv
<1>1. CASE [Next]_vars
  BY <1>1, <1>t, StepCountdown
<1>2. CASE BusStep \/ CreateLoop \/ Boot
  BY <1>2, <1>s DEF BusStep, CreateLoop, Boot, historyVars
<1>3. CASE Gone
  BY <1>3, <1>t DEF Gone, ProcessGone, LoopGone, CountdownInv
<1>4. CASE HandlerFailsInTick
  BY <1>4, <1>s, FailedHandlerFacts
<1> QED
  BY <1>1, <1>2, <1>3, <1>4, KindsOfStep

\* The countdown shown to the crew is kept through any faults: a process that ends
\* takes it off the display, and one whose cleanup fails counts on.
THEOREM CountdownThroughRestarts ==
    ASSUME ClockSteps = {} PROVE DaemonSpec => CountdownHonest
<1>1. DaemonInit => CountdownInv
  BY LimitAssumption DEF DaemonInit, CountdownInv
<1>2. SoundInv /\ CountdownInv /\ [DaemonNext]_allVars
        => [state' = "SHUTDOWN" /\ state # "SHUTDOWN" => promised = 0]_vars
  <2> SUFFICES ASSUME SoundInv, CountdownInv, DaemonNext,
                      state' = "SHUTDOWN", state # "SHUTDOWN"
               PROVE  promised = 0
    BY DEF allVars
  <2> QED
    BY OnlyTicksCommit, CommitVoid DEF SoundInv, DaemonTypeOK
<1> QED
  BY <1>1, <1>2, AlwaysSound, StepCountdownDaemon, PTL DEF DaemonSpec, CountdownHonest

\* A new process starts its blackouts afresh, and `dark' goes on without it.  A
\* cleanup that fails between a good reading and its branch would lose the reading,
\* which is why it is left out here.
LEMMA StepGraceDaemon ==
    ASSUME ClockSteps = {}, "handler" \notin Faults
    PROVE  SoundInv /\ CountdownInv /\ GraceInv /\ [DaemonNext]_allVars => GraceInv'
<1> SUFFICES ASSUME SoundInv, CountdownInv, GraceInv, [DaemonNext]_allVars
             PROVE  GraceInv'
  OBVIOUS
<1>t. TypeOK /\ BranchInv
  BY DEF SoundInv, DaemonTypeOK
<1>s. UNCHANGED <<state, elapsed, at, vin, dark>> => GraceInv'
  BY DEF GraceInv, PowerBack, PowerLost
<1>1. CASE [Next]_vars
  BY <1>1, <1>t, StepGrace
<1>2. CASE BusStep \/ CreateLoop \/ Boot
  BY <1>2, <1>s DEF BusStep, CreateLoop, Boot, historyVars, tickVars
<1>3. CASE Gone
  BY <1>3 DEF Gone, ProcessGone, LoopGone, GraceInv
<1>4. CASE HandlerFailsInTick
  BY <1>4, FailedHandlerFacts
<1> QED
  BY <1>1, <1>2, <1>3, <1>4, KindsOfStep

\* The grace period is not cut short by crashes, restarts, signals and resets: no
\* process acts on what an earlier one has counted.
THEOREM GraceThroughRestarts ==
    ASSUME ClockSteps = {}, "handler" \notin Faults
    PROVE  DaemonSpec => CommitJustified
<1>1. DaemonInit => CountdownInv /\ GraceInv
  BY LimitAssumption DEF DaemonInit, CountdownInv, GraceInv
<1>2. SoundInv /\ GraceInv /\ [DaemonNext]_allVars
        => [state = "BLACKOUT" /\ state' = "SHUTDOWN" => dark > setting]_vars
  <2> SUFFICES ASSUME SoundInv, GraceInv, DaemonNext,
                      state = "BLACKOUT", state' = "SHUTDOWN"
               PROVE  dark > setting
    BY DEF allVars
  <2> QED
    BY OnlyTicksCommit, CommitDark DEF SoundInv, DaemonTypeOK
<1> QED
  BY <1>1, <1>2, AlwaysSound, StepCountdownDaemon, StepGraceDaemon, PTL
     DEF DaemonSpec, CommitJustified

-----------------------------------------------------------------------------
(* The poweroff command.                                                   *)

\* What is true of the commands a process has run, also of one that was started to
\* a HAT that had been told before: none before SHUTDOWN, and none in a SHUTDOWN that
\* a tick can still enter.
OnceInv ==
    /\ poweroffs \in {0, 1}
    /\ poweroffs = 1 => told
    /\ at = "poweroff" => poweroffs = 0
    /\ state \in {"START", "OK", "BLACKOUT"} => poweroffs = 0
    /\ state = "SHUTDOWN" /\ timer /\ at # "assign" => poweroffs = 0

\* The machine's own steps, where the branches are what they are.
LEMMA TickOnce ==
    ASSUME TypeOK, BranchInv, OnceInv, [Next]_vars
    PROVE  OnceInv'
<1>t. timer \in BOOLEAN /\ told \in BOOLEAN /\ state \in States
  BY DEF TypeOK
<1> USE <1>t DEF OnceInv, Goto, hatVars, historyVars
<1>1. CASE Dispatch
  BY <1>1 DEF Dispatch
<1>2. CASE ReadVoltage \/ ReadCurrent
  BY <1>2 DEF ReadVoltage, ReadCurrent
<1>3. CASE I2CError
  BY <1>3 DEF I2CError, OnTheBus, EndTick, ReturnTrue
<1>4. CASE ArmWatchdog
  BY <1>4 DEF ArmWatchdog
<1>5. CASE StayOK \/ DetectBlackout
  BY <1>5 DEF StayOK, DetectBlackout
<1>6. CASE ResumePower \/ CommitShutdown \/ KeepWaiting
  BY <1>6 DEF ResumePower, CommitShutdown, KeepWaiting
<1>7. CASE RequestShutdown
  BY <1>7 DEF RequestShutdown, BranchInv
<1>8. CASE RehearseShutdown
  BY <1>8 DEF RehearseShutdown
<1>9. CASE PoweroffOk
  BY <1>9 DEF PoweroffOk, RanPoweroff, UpTo, BranchInv
<1>10. CASE PoweroffNonzero
  BY <1>10 DEF PoweroffNonzero, RanPoweroff, UpTo, EndTick, BranchInv
<1>11. CASE PoweroffNotStarted
  BY <1>11 DEF PoweroffNotStarted, EndTick, ReturnTrue
<1>12. CASE Assign
  BY <1>12 DEF Assign, NextState, BranchInv
<1>13. CASE StayDead
  BY <1>13 DEF StayDead
<1>14. CASE Publish
  BY <1>14 DEF Publish, EndTick, ReturnTrue
<1>15. CASE TimePasses \/ Environment
  BY <1>15, AroundTheTick
<1>16. CASE UNCHANGED vars
  BY <1>16 DEF vars, tickVars
<1> QED
  BY <1>1, <1>2, <1>3, <1>4, <1>5, <1>6, <1>7, <1>8, <1>9, <1>10, <1>11, <1>12,
     <1>13, <1>14, <1>15, <1>16 DEF Next, MainStep

\* A process starts with no command run, whatever the one before it has run, and
\* only a failing cleanup would hide one from the machine.
LEMMA StepOnce ==
    ASSUME "handler" \notin Faults
    PROVE  SoundInv /\ OnceInv /\ [DaemonNext]_allVars => OnceInv'
<1> SUFFICES ASSUME SoundInv, OnceInv, [DaemonNext]_allVars
             PROVE  OnceInv'
  OBVIOUS
<1>t. /\ TypeOK /\ BranchInv
      /\ proc # "running" => at = "idle" /\ state = "START"
      /\ pi = "off" => proc = "down"
  BY DEF SoundInv, DaemonTypeOK, FreshInv
<1>1. CASE [Next]_vars
  BY <1>1, <1>t, TickOnce
<1>2. CASE BusStep
  BY <1>2 DEF BusStep, OnceInv, tickVars, historyVars
<1>3. CASE Gone
  BY <1>3 DEF Gone, ProcessGone, LoopGone, OnceInv
<1>4. CASE CreateLoop
  BY <1>4, <1>t DEF CreateLoop, Stage, OnceInv, historyVars, hatVars
<1>5. CASE Boot
  BY <1>5, <1>t DEF Boot, OnceInv, tickVars, historyVars
<1>6. CASE HandlerFailsInTick
  BY <1>6, FailedHandlerFacts
<1> QED
  BY <1>1, <1>2, <1>3, <1>4, <1>5, <1>6, KindsOfStep

\* However processes crash, are stopped and follow one another, none of them runs
\* the poweroff command twice, and none runs it before the HAT has been told.
THEOREM PoweroffOnceThroughRestarts ==
    ASSUME "handler" \notin Faults PROVE DaemonSpec => []PoweroffOnce
<1>1. DaemonInit => OnceInv
  BY DEF DaemonInit, OnceInv
<1>2. OnceInv => PoweroffOnce
  BY DEF OnceInv, PoweroffOnce
<1> QED
  BY <1>1, <1>2, AlwaysSound, StepOnce, PTL DEF DaemonSpec

-----------------------------------------------------------------------------
(* The deadlines.                                                          *)

\* A cleanup that fails costs the blackout the tick it interrupts, and counts as
\* one of the ticks that may be lost.
LEMMA FailedHandlerInTime ==
    ASSUME SoundInv, DeadlineInv, HandlerFailsInTick
    PROVE  DeadlineInv'
<1>1. /\ wait \in Nat /\ wait <= TickInterval /\ lag \in Nat /\ lag <= MaxLag
      /\ errs \in 0 .. MaxErrors /\ elapsed \in Int /\ at \in Places
      /\ TickInterval \in Nat /\ MaxLag \in Nat /\ MaxLimit \in Nat
  BY LimitAssumption, TimingAssumption DEF SoundInv, DaemonTypeOK, TypeOK
<1>2. /\ Slack(errs) \in Nat /\ Slack(MaxErrors) \in Nat
      /\ Slack(errs) <= Slack(MaxErrors)
      /\ Slack(errs + 1) = Slack(errs) + TickInterval + MaxLag
      /\ CommitBy = MaxLimit + MaxLag + Slack(MaxErrors) + TickInterval + MaxLag
  BY <1>1, SlackFacts, TimingAssumption DEF CommitBy
<1>3. /\ at # "idle" /\ at' = "idle" /\ lag' = 0 /\ wait' = wait /\ errs' = errs + 1
      /\ state' = state /\ elapsed' = elapsed /\ told' = told
  BY FailedHandlerFacts
<1>4. state = "BLACKOUT" =>
        elapsed <= MaxLimit + MaxLag + Slack(errs) + TickInterval + MaxLag
  BY <1>1, <1>2, <1>3 DEF DeadlineInv
<1>5. state = "SHUTDOWN" /\ ~told =>
        elapsed <= CommitBy + Slack(errs) + TickInterval + MaxLag
  BY <1>1, <1>2, <1>3 DEF DeadlineInv
<1> QED
  BY <1>1, <1>2, <1>3, <1>4, <1>5 DEF DeadlineInv

\* The clock of a blackout stops with the process that counts it.
LEMMA StepDeadlineDaemon ==
    ASSUME ClockSteps = {}
    PROVE  SoundInv /\ DeadlineInv /\ [DaemonNext]_allVars => DeadlineInv'
<1> SUFFICES ASSUME SoundInv, DeadlineInv, [DaemonNext]_allVars
             PROVE  DeadlineInv'
  OBVIOUS
<1>t. TypeOK /\ BranchInv /\ (proc # "running" => state = "START")
  BY DEF SoundInv, DaemonTypeOK, FreshInv
<1>1. CASE [Next]_vars
  BY <1>1, <1>t, StepDeadline
<1>2. CASE BusStep
  BY <1>2 DEF BusStep, DeadlineInv, tickVars
<1>3. CASE Gone
  BY <1>3 DEF Gone, ProcessGone, LoopGone, DeadlineInv
<1>4. CASE CreateLoop
  BY <1>4, <1>t DEF CreateLoop, Stage, DeadlineInv
<1>5. CASE Boot
  BY <1>5, <1>t DEF Boot, DeadlineInv, SoundInv, FreshInv
<1>6. CASE HandlerFailsInTick
  BY <1>6, FailedHandlerInTime
<1> QED
  BY <1>1, <1>2, <1>3, <1>4, <1>5, <1>6, KindsOfStep

\* No process counts a blackout beyond CommitBy or keeps the HAT waiting beyond
\* TellBy, whatever happens to it and to those before it.
THEOREM ToldInTimeThroughRestarts ==
    ASSUME ClockSteps = {} PROVE DaemonSpec => []TellInTime
<1>1. DaemonInit => DeadlineInv
  BY DEF DaemonInit, DeadlineInv
<1>2. SoundInv /\ DeadlineInv => TellInTime
  BY DeadlineMet DEF SoundInv, DaemonTypeOK
<1> QED
  BY <1>1, <1>2, AlwaysSound, StepDeadlineDaemon, PTL DEF DaemonSpec

-----------------------------------------------------------------------------
(* The watchdog, whatever crashes.                                         *)

\* A tick that has got past its first read has just ended the silence, also the
\* tick in which a new process arms the watchdog it found armed.
HeardInv ==
    ~told /\ at \in {"curr", "decide", "assign", "publish"} => silent <= lag

\* A daemon that has armed the watchdog keeps the bound of FedInv; one that has not
\* owes it nothing.
GuardedInv == HeardInv /\ (state # "START" => FedInv)

\* Time passes for the tick as it does for the HAT.
LEMMA StepHeard == TypeOK /\ BranchInv /\ HeardInv /\ [Next]_vars => HeardInv'
<1> SUFFICES ASSUME TypeOK, BranchInv, HeardInv, [Next]_vars
             PROVE  HeardInv'
  OBVIOUS
<1>t. lag \in Nat /\ silent \in Nat /\ WatchdogTimeout \in Nat
  BY TimingAssumption DEF TypeOK
<1> USE <1>t DEF HeardInv, Goto, hatVars, historyVars
<1>1. CASE Dispatch \/ ReadVoltage \/ ReadCurrent
  BY <1>1 DEF Dispatch, ReadVoltage, ReadCurrent, I2COk
<1>2. CASE I2CError \/ Publish \/ PoweroffNonzero \/ PoweroffNotStarted
  BY <1>2 DEF I2CError, Publish, PoweroffNonzero, PoweroffNotStarted, EndTick
<1>3. CASE ArmWatchdog \/ RequestShutdown
  BY <1>3 DEF ArmWatchdog, RequestShutdown, SetWatchdog, I2COk
<1>4. CASE StayOK \/ DetectBlackout \/ StayDead
  BY <1>4 DEF StayOK, DetectBlackout, StayDead
<1>5. CASE ResumePower \/ CommitShutdown \/ KeepWaiting
  BY <1>5 DEF ResumePower, CommitShutdown, KeepWaiting
<1>6. CASE RehearseShutdown \/ Assign
  BY <1>6 DEF RehearseShutdown, Assign
<1>7. CASE PoweroffOk
  BY <1>7 DEF PoweroffOk, BranchInv
<1>8. CASE TimePasses
  BY <1>8 DEF TimePasses, UpTo
<1>9. CASE SupplyChanges \/ SettingChanges \/ ClockStep
  BY <1>9 DEF SupplyChanges, SettingChanges, ClockStep, tickVars
<1>10. CASE UNCHANGED vars
  BY <1>10 DEF vars, tickVars
<1> QED
  BY <1>1, <1>2, <1>3, <1>4, <1>5, <1>6, <1>7, <1>8, <1>9, <1>10
     DEF Next, MainStep, Environment

\* The START tick ends with its assignment, behind the call that arms the watchdog.
LEMMA StartTickEnds ==
    ASSUME [Next]_vars, state = "START", state' # "START"
    PROVE  at' = "publish"
<1>1. CASE Dispatch \/ TimePasses \/ Environment \/ UNCHANGED vars
  BY <1>1, AroundTheTick DEF Dispatch, vars
<1>2. CASE MainStep
  BY <1>2 DEF MainStep, ReadVoltage, ReadCurrent, I2CError, ArmWatchdog, StayOK,
     DetectBlackout, ResumePower, CommitShutdown, KeepWaiting, RequestShutdown,
     RehearseShutdown, PoweroffOk, PoweroffNonzero, PoweroffNotStarted, Assign,
     StayDead, Publish, Goto
<1> QED
  BY <1>1, <1>2 DEF Next

\* A process that ends leaves an armed watchdog to the next one, which has it in its
\* care once it has armed it again.
LEMMA StepGuarded ==
    SoundInv /\ GuardedInv /\ [DaemonNext]_allVars => GuardedInv'
<1> SUFFICES ASSUME SoundInv, GuardedInv, [DaemonNext]_allVars
             PROVE  GuardedInv'
  OBVIOUS
<1>t. /\ DaemonTypeOK /\ TypeOK /\ BranchInv /\ lag \in Nat
      /\ proc # "running" => at = "idle" /\ state = "START"
      /\ pi = "off" => proc = "down"
  BY TimingAssumption DEF SoundInv, DaemonTypeOK, TypeOK, FreshInv
<1>m. state # "START" => Minded
  BY <1>t DEF BranchInv, Minded
<1>1. CASE [Next]_vars
  <2>1. HeardInv'
    BY <1>1, <1>t, StepHeard DEF GuardedInv
  <2>2. ASSUME state # "START" PROVE FedInv'
    BY <1>1, <1>m, <1>t, <2>2, StepFed DEF GuardedInv
  <2>3. ASSUME state = "START", state' # "START" PROVE FedInv'
    BY <1>1, <2>1, <2>3, StartTickEnds DEF HeardInv, FedInv
  <2> QED
    BY <2>1, <2>2, <2>3 DEF GuardedInv
<1>2. CASE BusStep
  <2>1. /\ wait \in Nat /\ errs \in 0 .. MaxErrors /\ MaxLag \in Nat
        /\ TickInterval \in Nat /\ Slack(errs) \in Nat
    BY <1>t, SlackFacts, TimingAssumption DEF TypeOK
  <2>2. silent' = 0 /\ UNCHANGED <<state, at, wait, lag, errs, told>>
    BY <1>2 DEF BusStep, I2COk, tickVars
  <2> QED
    BY <1>t, <2>1, <2>2 DEF GuardedInv, HeardInv, FedInv
<1>3. CASE Gone
  BY <1>3 DEF Gone, ProcessGone, LoopGone, GuardedInv, HeardInv
<1>4. CASE CreateLoop
  BY <1>4, <1>t DEF CreateLoop, Stage, GuardedInv, HeardInv
<1>5. CASE Boot
  BY <1>5, <1>t DEF Boot, GuardedInv, HeardInv, tickVars
<1>6. CASE HandlerFailsInTick
  <2>1. at' = "idle" /\ state' = state
    BY <1>6, FailedHandlerFacts
  <2>2. state # "START" => FedInv'
    BY <1>6, <1>m, <1>t, FailedHandlerFed DEF GuardedInv
  <2> QED
    BY <2>1, <2>2 DEF GuardedInv, HeardInv
<1> QED
  BY <1>1, <1>2, <1>3, <1>4, <1>5, <1>6, KindsOfStep

\* Whatever crashes, fails and is stopped: if MaxErrors lost ticks in a row fit into
\* the watchdog's timeout, the HAT resets a Pi only while no daemon is past the
\* tick in which it arms the watchdog.
THEOREM ResetsOnlyUnguarded ==
    ASSUME MaxLag + Slack(MaxErrors) + Period < WatchdogTimeout
    PROVE  DaemonSpec => []ResetOnlyUnguarded
<1>1. DaemonInit => GuardedInv
  BY DEF DaemonInit, GuardedInv, HeardInv
<1>2. SoundInv /\ GuardedInv => ResetOnlyUnguarded
  <2> SUFFICES ASSUME SoundInv, GuardedInv, watchdog, ~told, state # "START"
               PROVE  ~(silent >= WatchdogTimeout)
    BY DEF ResetOnlyUnguarded, WatchdogExpired
  <2>1. TypeOK /\ Minded
    BY DEF SoundInv, DaemonTypeOK, BranchInv, Minded
  <2>2. silent < WatchdogTimeout
    BY <2>1, FedInTime DEF GuardedInv
  <2>3. silent \in Nat /\ WatchdogTimeout \in Nat
    BY ONLY <2>1, TimingAssumption DEF TypeOK
  <2> QED
    BY ONLY <2>2, <2>3
<1> QED
  BY <1>1, <1>2, AlwaysSound, StepGuarded, PTL DEF DaemonSpec

-----------------------------------------------------------------------------
(* What the D-Bus clients see.                                             *)

\* A new process shows that it has not started, as long as it has not.
LEMMA StepCoherentDaemon ==
    ASSUME "handler" \notin Faults
    PROVE  SoundInv /\ CoherenceInv /\ [DaemonNext]_allVars => CoherenceInv'
<1> SUFFICES ASSUME SoundInv, CoherenceInv, [DaemonNext]_allVars
             PROVE  CoherenceInv'
  OBVIOUS
<1>t. TypeOK /\ BranchInv
  BY DEF SoundInv, DaemonTypeOK
<1>s. UNCHANGED <<state, at, pub>> => CoherenceInv'
  BY DEF CoherenceInv
<1>1. CASE [Next]_vars
  BY <1>1, <1>t, StepCoherent
<1>2. CASE BusStep \/ CreateLoop \/ Boot
  BY <1>2, <1>s DEF BusStep, CreateLoop, Boot, tickVars
<1>3. CASE Gone
  <2>1. NotStarted.State = "Not started" /\ NotStarted.ShutdownCountdown = 0
    BY DEF NotStarted, NoReading
  <2> QED
    BY <1>3, <2>1 DEF Gone, ProcessGone, LoopGone, CoherenceInv
<1>4. CASE HandlerFailsInTick
  BY <1>4, FailedHandlerFacts
<1> QED
  BY <1>1, <1>2, <1>3, <1>4, KindsOfStep

\* What D-Bus shows between ticks is the state of the process that runs, and no
\* process commits to a shutdown that it has not announced itself: the BLACKOUT an
\* earlier one has published does not count, on whatever clock.
THEOREM NoticeThroughRestarts ==
    ASSUME "handler" \notin Faults
    PROVE  DaemonSpec => []PublishedCoherent /\ ShownBeforeCommit
<1>1. DaemonInit => CoherenceInv
  <2>1. NotStarted.State = "Not started" /\ NotStarted.ShutdownCountdown = 0
    BY DEF NotStarted, NoReading
  <2> QED
    BY <2>1 DEF DaemonInit, CoherenceInv
<1>2. CoherenceInv => PublishedCoherent
  BY DEF CoherenceInv, PublishedCoherent
<1>3. CoherenceInv /\ [DaemonNext]_allVars
        => [state' = "SHUTDOWN" /\ state # "SHUTDOWN" =>
               pub.State = "BLACKOUT" /\ ~(vin > BlackoutVoltageLimit)]_vars
  <2> SUFFICES ASSUME CoherenceInv, DaemonNext,
                      state' = "SHUTDOWN", state # "SHUTDOWN"
               PROVE  pub.State = "BLACKOUT" /\ ~(vin > BlackoutVoltageLimit)
    BY DEF allVars
  <2> QED
    BY OnlyTicksCommit, CommitShown
<1> QED
  BY <1>1, <1>2, <1>3, AlwaysSound, StepCoherentDaemon, PTL
     DEF DaemonSpec, ShownBeforeCommit

-----------------------------------------------------------------------------
(* Refinement of RestartPolicy.                                            *)

\* The mapping, one mode at a time: what the HAT was told hides the machine.
LEMMA PromiseFacts ==
    /\ pi # "up" => promise = pi
    /\ pi = "up" /\ told => promise = "told"
    /\ pi = "up" /\ ~told /\ state = "DEAD" => promise = "rehearsed"
    /\ pi = "up" /\ ~told /\ state = "SHUTDOWN" => promise = "committed"
    /\ pi = "up" /\ ~told /\ state = "BLACKOUT" => promise = "counting"
    /\ pi = "up" /\ ~told /\ state \in {"START", "OK"} => promise = "watching"
  BY DEF promise

\* The same of the next state.
LEMMA PromiseFactsNext ==
    /\ pi' # "up" => promise' = pi'
    /\ pi' = "up" /\ told' => promise' = "told"
    /\ pi' = "up" /\ ~told' /\ state' = "DEAD" => promise' = "rehearsed"
    /\ pi' = "up" /\ ~told' /\ state' = "SHUTDOWN" => promise' = "committed"
    /\ pi' = "up" /\ ~told' /\ state' = "BLACKOUT" => promise' = "counting"
    /\ pi' = "up" /\ ~told' /\ state' \in {"START", "OK"} => promise' = "watching"
  BY DEF promise

\* Time is known of a blackout that is acted upon, and of no other.
LEMMA KnownFacts ==
    /\ promise \in {"counting", "committed"} => known = elapsed
    /\ promise \notin {"counting", "committed"} => known = 0
    /\ promise' \in {"counting", "committed"} => known' = elapsed'
    /\ promise' \notin {"counting", "committed"} => known' = 0
  BY DEF known

\* Before the first process nothing is promised.
LEMMA InitPromise == DaemonInit => Promise!Init
  BY DEF DaemonInit, Promise!Init, promise, known

\* A step that leaves these alone is a stutter of the policy, or a choice of the
\* crew.
LEMMA PromiseStutter ==
    ASSUME setting' \in Limits,
           \/ UNCHANGED <<state, elapsed, told, pi>>
           \/ promise' = promise /\ promise \notin {"counting", "committed"}
    PROVE  [Promise!Next]_(Promise!policyVars)
<1>1. UNCHANGED <<promise, known>>
  <2>1. CASE UNCHANGED <<state, elapsed, told, pi>>
    BY <2>1 DEF promise, known
  <2>2. CASE promise' = promise /\ promise \notin {"counting", "committed"}
    BY <2>2, KnownFacts
  <2> QED
    BY <2>1, <2>2
<1> QED
  BY <1>1 DEF Promise!Next, Promise!Choose

\* The Pi goes down by a command that has run, and off and on by the HAT.
LEMMA PiSteps ==
    ASSUME SoundInv, [DaemonNext]_allVars
    PROVE  \/ pi' = pi
           \/ /\ pi = "up" /\ pi' = "halting" /\ told /\ UNCHANGED setting
           \/ CutPower
           \/ Boot
<1> USE DEF procVars, aroundVars, daemonVars
<1>i. pi \in {"up", "halting", "off"} /\ BranchInv
  BY DEF SoundInv, DaemonTypeOK
<1>1. CASE Startup \/ StartTick
  BY <1>1 DEF Startup, StartProcess, ProbeHat, InstallHandlers, CreateLoop, RunLoop,
              StartTick
<1>2. CASE ContinueTick
  <2>1. CASE at = "poweroff" /\ at' = "assign"
    <3>1. PoweroffOk \/ PoweroffNonzero \/ PoweroffNotStarted
      BY <1>2, <2>1 DEF ContinueTick, MainStep, ReadVoltage, ReadCurrent, I2CError,
         OnTheBus, ArmWatchdog, StayOK, DetectBlackout, ResumePower, CommitShutdown,
         KeepWaiting, RequestShutdown, RehearseShutdown, Assign, StayDead, Publish
    <3>2. UNCHANGED setting
      BY <3>1 DEF PoweroffOk, PoweroffNonzero, PoweroffNotStarted
    <3>3. pi # "off" /\ pi' = "halting" /\ told
      BY <1>2, <1>i, <2>1 DEF ContinueTick, Stage, BranchInv
    <3> QED
      BY <1>i, <3>2, <3>3
  <2> QED
    BY <1>2, <2>1 DEF ContinueTick
<1>3. CASE LeaveLoop \/ Handle
  BY <1>3 DEF LeaveLoop, Handle, EnterHandler, Disarm, Stop, KilledEarly
<1>4. CASE HandlerFailsInTick
  <2>1. CASE pi' = "halting" /\ pi # "off"
    BY <1>4, <1>i, <2>1 DEF HandlerFailsInTick, BranchInv
  <2>2. CASE pi = "off"
    <3>1. at = "idle"
      BY <2>2 DEF SoundInv, FreshInv, DaemonTypeOK
    <3> QED
      BY <1>4, <3>1 DEF HandlerFailsInTick
  <2> QED
    BY <1>4, <2>1, <2>2 DEF HandlerFailsInTick
<1>5. CASE HatNotFound \/ HandlerFailsIdle \/ HandlerFailsEarly
  BY <1>5 DEF HatNotFound, HandlerFailsIdle, HandlerFailsEarly
<1>c. CASE Crash
  <2>1. CASE pi' = "halting" /\ at = "poweroff"
    BY <1>c, <1>i, <2>1 DEF Crash, BranchInv
  <2> QED
    BY <1>c, <2>1 DEF Crash
<1>6. CASE SvcDown \/ SvcTerm \/ SvcUp
  BY <1>6 DEF SvcDown, SvcTerm, SvcUp, SendTerm
<1>7. CASE WatchdogReset \/ CutPower \/ Boot
  BY <1>7 DEF WatchdogReset
<1>8. CASE Surroundings
  BY <1>8 DEF Surroundings
<1>9. CASE UNCHANGED allVars
  BY <1>9 DEF allVars
<1> QED
  BY <1>1, <1>2, <1>3, <1>4, <1>5, <1>c, <1>6, <1>7, <1>8, <1>9
     DEF DaemonNext, Mishap, Hat

\* A step of a machine whose HAT has not been told is the step of that name in the
\* policy, or none.
LEMMA TickPromise ==
    ASSUME ClockSteps = {}, TypeOK, TypeOK', BranchInv, TellInTime',
           Next, ~told, pi = "up", pi' = pi
    PROVE  [Promise!Next]_(Promise!policyVars)
<1>t. /\ elapsed \in Int /\ elapsed <= Horizon /\ Horizon \in Nat
      /\ state \in States /\ setting' \in Limits
      /\ CommitBy \in Int /\ CommitBy < Horizon /\ TellBy \in Int /\ TellBy < Horizon
  BY GraceTypes, DeadlinesInSight DEF TypeOK
<1>b. at # "poweroff"
  BY DEF BranchInv
<1> USE PromiseFacts, PromiseFactsNext, KnownFacts
    DEF hatVars, historyVars, tickVars, Goto, EndTick, Promise!Move
<1>1. CASE Dispatch \/ ReadVoltage \/ ReadCurrent \/ I2CError \/ ArmWatchdog
  BY <1>1, <1>t, PromiseStutter
     DEF Dispatch, ReadVoltage, ReadCurrent, I2CError, ArmWatchdog
<1>2. CASE StayOK \/ KeepWaiting \/ RehearseShutdown \/ StayDead
  BY <1>2, <1>t, PromiseStutter DEF StayOK, KeepWaiting, RehearseShutdown, StayDead
<1>3. CASE Publish \/ SupplyChanges \/ SettingChanges
  BY <1>3, <1>t, PromiseStutter DEF Publish, SupplyChanges, SettingChanges
<1>4. CASE DetectBlackout
  <2>1. Promise!Sag
    BY <1>4 DEF DetectBlackout, Promise!Sag
  <2> QED
    BY <2>1 DEF Promise!Next
<1>5. CASE ResumePower
  <2>1. Promise!Recover
    BY <1>5 DEF ResumePower, Promise!Recover
  <2> QED
    BY <2>1 DEF Promise!Next
<1>6. CASE CommitShutdown
  <2>1. Promise!Commit
    BY <1>6 DEF CommitShutdown, Expired, Promise!Commit
  <2> QED
    BY <2>1 DEF Promise!Next
<1>7. CASE RequestShutdown
  <2>1. Promise!Tell
    BY <1>7 DEF RequestShutdown, Rehearsing, Promise!Tell
  <2> QED
    BY <2>1 DEF Promise!Next
<1>8. CASE PoweroffOk \/ PoweroffNonzero \/ PoweroffNotStarted
  BY <1>8, <1>b DEF PoweroffOk, PoweroffNonzero, PoweroffNotStarted
<1>9. CASE Assign
  <2>1. CASE state = "START"
    <3>1. promise = "watching" /\ promise' = "watching"
      BY <1>9, <2>1 DEF Assign, NextState
    <3> QED
      BY <1>t, <3>1, PromiseStutter
  <2>2. CASE state = "SHUTDOWN" /\ DryRun
    <3>1. Promise!Rehearse
      BY <1>9, <2>2 DEF Assign, NextState, Promise!Rehearse
    <3> QED
      BY <3>1 DEF Promise!Next
  <2> QED
    BY <1>9, <2>1, <2>2 DEF Assign, BranchInv
<1>10. CASE TimePasses
  <2>1. UNCHANGED <<state, setting, told>> /\ elapsed' = UpTo(elapsed + 1, Horizon)
    BY <1>10 DEF TimePasses
  <2>2. promise' = promise
    BY <2>1 DEF promise
  <2>3. CASE state = "BLACKOUT"
    <3>1. elapsed' <= CommitBy
      BY <2>1, <2>3 DEF TellInTime
    <3>2. elapsed' = elapsed + 1 /\ elapsed < CommitBy
      BY <1>t, <2>1, <3>1 DEF UpTo
    <3>3. /\ promise = "counting" /\ known = elapsed /\ known' = elapsed + 1
      BY <2>2, <2>3, <3>2
    <3>4. Promise!Count
      BY <2>1, <2>2, <3>2, <3>3 DEF Promise!Count, Promise!Deadline
    <3> QED
      BY <3>4 DEF Promise!Next
  <2>4. CASE state = "SHUTDOWN"
    <3>1. elapsed' <= TellBy
      BY <2>1, <2>4 DEF TellInTime
    <3>2. elapsed' = elapsed + 1 /\ elapsed < TellBy
      BY <1>t, <2>1, <3>1 DEF UpTo
    <3>3. /\ promise = "committed" /\ known = elapsed /\ known' = elapsed + 1
      BY <2>2, <2>4, <3>2
    <3>4. Promise!Count
      BY <2>1, <2>2, <3>2, <3>3 DEF Promise!Count, Promise!Deadline
    <3> QED
      BY <3>4 DEF Promise!Next
  <2>5. CASE state \in {"START", "OK", "DEAD"}
    <3>1. promise \notin {"counting", "committed"}
      BY <2>5
    <3> QED
      BY <1>t, <2>2, <3>1, PromiseStutter
  <2> QED
    BY <1>t, <2>3, <2>4, <2>5 DEF States
<1>11. CASE ClockStep
  BY <1>11 DEF ClockStep
<1> QED
  BY <1>1, <1>2, <1>3, <1>4, <1>5, <1>6, <1>7, <1>8, <1>9, <1>10, <1>11
     DEF Next, MainStep, Environment

\* No step of the machine takes back what the HAT was told.
LEMMA ToldStays ==
    ASSUME Next, told, BranchInv, told' \in BOOLEAN, told \in BOOLEAN, timer \in BOOLEAN
    PROVE  told'
<1>1. CASE Dispatch \/ MainStep
  BY <1>1, TickMinded DEF BranchInv, Minded
<1>2. CASE TimePasses \/ Environment
  BY <1>2, AroundTheTick
<1> QED
  BY <1>1, <1>2 DEF Next

\* Every step of process, supervisor and HAT is a step of the policy or none.
LEMMA StepPromise ==
    ASSUME ClockSteps = {}, SoundInv, SoundInv', TellInTime', [DaemonNext]_allVars
    PROVE  [Promise!Next]_(Promise!policyVars)
<1>t. /\ TypeOK /\ TypeOK' /\ BranchInv /\ told \in BOOLEAN /\ told' \in BOOLEAN
      /\ timer \in BOOLEAN /\ state \in States
      /\ setting' \in Limits /\ pi \in {"up", "halting", "off"}
      /\ pi # "up" => told
      /\ proc # "running" => state = "START"
      /\ pi = "off" => proc = "down"
  BY DEF SoundInv, DaemonTypeOK, FreshInv, TypeOK
<1> USE PromiseFacts, PromiseFactsNext, KnownFacts DEF Promise!Move
<1>1. CASE pi = "up" /\ pi' = "halting" /\ told /\ UNCHANGED setting
  <2>1. Promise!PowerOff
    BY <1>1 DEF Promise!PowerOff
  <2> QED
    BY <2>1 DEF Promise!Next
<1>2. CASE CutPower
  <2>1. Promise!Cut
    BY <1>2 DEF CutPower, Promise!Cut
  <2> QED
    BY <2>1 DEF Promise!Next
<1>3. CASE Boot
  <2>1. Promise!Boot
    BY <1>3, <1>t DEF Boot, Promise!Boot
  <2> QED
    BY <2>1 DEF Promise!Next
<1>4. CASE pi' = pi
  <2>1. CASE [Next]_vars
    <3>1. CASE UNCHANGED vars
      BY <1>4, <1>t, <3>1, PromiseStutter DEF vars, hatVars
    <3>2. CASE Next /\ told
      <4>1. told'
        BY <3>2, <1>t, ToldStays
      <4>2. promise' = promise /\ promise \notin {"counting", "committed"}
        BY <1>4, <1>t, <3>2, <4>1
      <4> QED
        BY <1>t, <4>2, PromiseStutter
    <3>3. CASE Next /\ ~told
      BY <1>4, <1>t, <3>3, TickPromise
    <3> QED
      BY <2>1, <3>1, <3>2, <3>3
  <2>2. CASE BusStep \/ CreateLoop \/ HandlerFailsInTick
    <3>1. UNCHANGED <<state, elapsed, told>>
      BY <2>2, FailedHandlerFacts DEF BusStep, CreateLoop, hatVars
    <3> QED
      BY <1>4, <1>t, <3>1, PromiseStutter
  <2>3. CASE Gone
    <3>1. told' = told /\ state' = "START" /\ UNCHANGED setting
      BY <2>3 DEF Gone, ProcessGone, LoopGone
    <3>2. CASE told \/ state \in {"START", "OK"}
      <4>1. promise' = promise /\ promise \notin {"counting", "committed"}
        BY <1>4, <1>t, <3>1, <3>2
      <4> QED
        BY <1>t, <4>1, PromiseStutter
    <3>3. CASE ~told /\ state \in {"BLACKOUT", "SHUTDOWN", "DEAD"}
      <4>1. Promise!Forget
        BY <1>4, <1>t, <3>1, <3>3 DEF Promise!Forget
      <4> QED
        BY <4>1 DEF Promise!Next
    <3> QED
      BY <1>t, <3>2, <3>3 DEF States
  <2> QED
    BY <1>3, <2>1, <2>2, <2>3, KindsOfStep
<1> QED
  BY <1>1, <1>2, <1>3, <1>4, PiSteps

\* Daemon implements RestartPolicy, whatever crashes, restarts, signals and resets
\* there are, while nobody steps the wall clock.
THEOREM PromiseAlwaysKept == ASSUME ClockSteps = {} PROVE DaemonSpec => PromiseKept
<1>1. DaemonSpec => [](SoundInv /\ TellInTime)
  BY AlwaysSound, ToldInTimeThroughRestarts, PTL
<1>2. SoundInv /\ SoundInv' /\ TellInTime' /\ [DaemonNext]_allVars
        => [Promise!Next]_(Promise!policyVars)
  BY StepPromise
<1> QED
  BY <1>1, <1>2, InitPromise, PTL DEF DaemonSpec, PromiseKept, Promise!Spec
=============================================================================
