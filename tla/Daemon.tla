------------------------------- MODULE Daemon -------------------------------
(***************************************************************************)
(* The life of the shrpid process, src/shrpi/daemon.py, around the machine *)
(* of StateMachine: start-up, the SIGTERM/SIGINT handler `cleanup', the    *)
(* main loop's end, and what surrounds the process: the supervisor         *)
(* (services/sh-rpi-venus), the HAT with its watchdog, and the Pi.         *)
(*                                                                         *)
(* Python runs `cleanup' on the main thread between two bytecodes, so      *)
(* between any two steps of check_state.  Nothing of StateMachine survives *)
(* the process: its variables then hold what the next process starts from. *)
(***************************************************************************)
EXTENDS StateMachine

CONSTANTS
    Faults,    \* which of the kinds of fault below can happen
    MaxFaults, \* bound: faults in one behaviour
    MaxSignals \* bound: signals sent by the supervisor in one behaviour

\* "crash": the process dies without its handler; "probe": no HAT is found at
\* start-up; "handler": the transfer in cleanup fails; "early": SIGTERM arrives
\* before the main loop runs; "first tick": it arrives within a START tick.
FaultKinds == {"crash", "probe", "handler", "early", "first tick"}

ASSUME DaemonAssumption ==
    /\ Faults \subseteq FaultKinds
    /\ MaxFaults \in Nat
    /\ MaxSignals \in Nat

VARIABLES
    proc,     \* how far main() is
    handler,  \* where in cleanup the main thread is, or "none"
    pending,  \* a SIGTERM has been sent and not yet been handled
    quit,     \* the running main loop has been told to quit
    wanted,   \* the supervisor is to keep the service up
    pi,       \* the Raspberry Pi
    faults,   \* how many faults have happened
    signals,  \* how many signals have been sent
    midStart  \* the last cleanup disarmed the watchdog within a START tick

procVars   == <<proc, handler, pending, quit>>
aroundVars == <<wanted, pi, faults, signals, midStart>>
machineVars == <<state, elapsed, tickVars, pub, promised>>
daemonVars == <<procVars, aroundVars>>
allVars    == <<vars, daemonVars>>

\* "probing": the factory looks for the HAT.  "setup": up to the installation of
\* the handlers.  "hooked": StateMachine.run() before its main loop exists.
\* "looped": the timer and the loop exist, the loop does not run yet.
Stages == {"down", "probing", "setup", "hooked", "looped", "running"}

\* Before its first process.
DaemonInit ==
    /\ state = "START" /\ elapsed = Horizon
    /\ at = "idle" /\ vin = NoReading
    /\ timer = FALSE /\ wait = 0 /\ lag = 0 /\ errs = 0
    /\ pub = NotStarted /\ promised = 0
    /\ supply \in Voltages /\ setting \in Limits
    /\ watchdog = FALSE /\ told = FALSE /\ silent = 0
    /\ poweroffs = 0 /\ dark = NotDark
    /\ proc = "down" /\ handler = "none" /\ pending = FALSE /\ quit = FALSE
    /\ wanted = TRUE /\ pi = "up"
    /\ faults = 0 /\ signals = 0 /\ midStart = FALSE

-----------------------------------------------------------------------------

\* What the end of a process does to all but the machine's state and its clock: the
\* next one counts its poweroff commands from none.
LoopGone ==
    /\ proc' = "down" /\ handler' = "none" /\ pending' = FALSE /\ quit' = FALSE
    /\ at' = "idle" /\ vin' = NoReading
    /\ timer' = FALSE /\ wait' = 0 /\ lag' = 0 /\ errs' = 0
    /\ pub' = NotStarted /\ promised' = 0 /\ poweroffs' = 0

\* The process is gone, and with it the machine and its D-Bus service.
ProcessGoneResumes == LoopGone /\ UNCHANGED <<state, elapsed>>
ProcessGone == LoopGone /\ state' = "START" /\ elapsed' = Horizon

Fault(kind) == kind \in Faults /\ faults < MaxFaults /\ faults' = faults + 1

\* Something the daemon does while main() stays where it is.
Stage(s) == proc = s /\ handler = "none" /\ pi # "off"

-----------------------------------------------------------------------------
(* main() and StateMachine.run().                                          *)

\* supervise runs the service again a second after it has ended, also while the Pi
\* is halting.
StartProcess ==
    /\ proc = "down" /\ wanted /\ pi # "off"
    /\ proc' = "probing"
    /\ UNCHANGED <<vars, handler, pending, quit, aroundVars>>

\* The probe reads the versions from the HAT.
ProbeHat ==
    /\ Stage("probing")
    /\ proc' = "setup"
    /\ I2COk
    /\ UNCHANGED <<state, elapsed, tickVars, supply, setting, pub, watchdog, told,
                   historyVars, handler, pending, quit, aroundVars>>

\* DeviceNotFoundError: exit status 1.
HatNotFound ==
    /\ Stage("probing")
    /\ Fault("probe")
    /\ ProcessGone
    /\ UNCHANGED <<supply, setting, hatVars, dark, wanted, pi, signals, midStart>>

InstallHandlers ==
    /\ Stage("setup")
    /\ proc' = "hooked"
    /\ UNCHANGED <<vars, handler, pending, quit, aroundVars>>

\* The D-Bus service and the settings are up: timeout_add, then MainLoop().
CreateLoop ==
    /\ Stage("hooked")
    /\ proc' = "looped"
    /\ timer' = TRUE /\ wait' = 0
    /\ UNCHANGED <<state, elapsed, at, vin, lag, errs, supply, setting, pub,
                   hatVars, historyVars, handler, pending, quit, aroundVars>>

RunLoop ==
    /\ Stage("looped")
    /\ proc' = "running"
    /\ UNCHANGED <<vars, handler, pending, quit, aroundVars>>

\* A loop that was told to quit starts no further callback.
StartTick ==
    /\ Stage("running") /\ ~quit
    /\ Dispatch
    /\ UNCHANGED daemonVars

\* A tick under way goes on, also when the loop has been told to quit.  The
\* poweroff command that succeeds brings the Pi down.
ContinueTick ==
    /\ Stage("running")
    /\ MainStep
    /\ pi' = IF at = "poweroff" /\ at' = "assign" THEN "halting" ELSE pi
    /\ UNCHANGED <<procVars, wanted, faults, signals, midStart>>

\* mainloop.run() returns, main() ends.
LeaveLoop ==
    /\ Stage("running") /\ quit /\ at = "idle"
    /\ ProcessGone
    /\ UNCHANGED <<supply, setting, hatVars, dark, aroundVars>>

-----------------------------------------------------------------------------
(* cleanup(signum, frame).                                                 *)

InStartTick == at # "idle" /\ state = "START"

\* Before line 177 SIGTERM has its default effect.
KilledEarly ==
    /\ pending /\ proc \in {"probing", "setup"}
    /\ ProcessGone
    /\ UNCHANGED <<supply, setting, hatVars, dark, aroundVars>>

EnterHandler ==
    /\ pending /\ handler = "none"
    /\ \/ proc \in {"hooked", "looped"} /\ Fault("early")
       \/ proc = "running" /\ InStartTick /\ Fault("first tick")
       \/ proc = "running" /\ ~InStartTick /\ UNCHANGED faults
    /\ handler' = "disarm" /\ pending' = FALSE
    /\ UNCHANGED <<vars, proc, quit, wanted, pi, signals, midStart>>

\* set_watchdog_timeout(0)
Disarm ==
    /\ handler = "disarm"
    /\ SetWatchdog(0)
    /\ handler' = "stop"
    /\ midStart' = InStartTick
    /\ UNCHANGED <<state, elapsed, tickVars, supply, setting, pub, told,
                   historyVars, proc, pending, quit, wanted, pi, faults, signals>>

LoopNeverQuits  == FALSE
LoopAlwaysQuits == TRUE
LoopQuits == proc = "running"

\* stateMachine.stop(): without a _mainloop it does nothing, and run() forgets a
\* quit() that came before it.  (No socket exists: the server is not started.)
Stop ==
    /\ handler = "stop"
    /\ quit' = LoopQuits
    /\ handler' = "none"
    /\ UNCHANGED <<vars, proc, pending, aroundVars>>

\* The transfer raises OSError where the handler interrupted the main thread: in
\* a tick check_state takes it for its own I2C error, in an idle loop it is
\* printed, and before the loop runs it ends the process.
HandlerFailsInTick ==
    /\ handler = "disarm" /\ at # "idle"
    /\ Fault("handler") /\ errs < MaxErrors
    /\ handler' = "none"
    /\ EndTick(errs + 1)
    /\ \/ UNCHANGED <<poweroffs, pi>>
       \/ at = "poweroff" /\ RanPoweroff /\ pi' \in {pi, "halting"}
    /\ UNCHANGED <<state, elapsed, timer, supply, setting, pub, hatVars, dark,
                   promised, proc, pending, quit, wanted, signals, midStart>>

HandlerFailsIdle ==
    /\ handler = "disarm" /\ at = "idle" /\ proc = "running"
    /\ Fault("handler")
    /\ handler' = "none"
    /\ UNCHANGED <<vars, proc, pending, quit, wanted, pi, signals, midStart>>

HandlerFailsEarly ==
    /\ handler = "disarm" /\ proc \in {"hooked", "looped"}
    /\ Fault("handler")
    /\ ProcessGone
    /\ UNCHANGED <<supply, setting, hatVars, dark, wanted, pi, signals, midStart>>

-----------------------------------------------------------------------------
(* The surroundings.                                                       *)

\* svc -d and svc -t, and init while it halts the Pi: SIGTERM to the process if
\* there is one.
SendTerm(keep) ==
    /\ pi # "off" /\ wanted /\ signals < MaxSignals
    /\ signals' = signals + 1
    /\ wanted' = keep
    /\ pending' = (pending \/ proc # "down")
    /\ UNCHANGED <<vars, proc, handler, quit, pi, faults, midStart>>

SvcDown == SendTerm(FALSE)
SvcTerm == SendTerm(TRUE)

SvcUp ==
    /\ ~wanted /\ pi # "off"
    /\ wanted' = TRUE
    /\ UNCHANGED <<vars, procVars, pi, faults, signals, midStart>>

\* SIGKILL, the OOM killer, an exception nobody catches.  A command that check_call
\* has started goes on without the daemon.
Crash ==
    /\ proc # "down" /\ pi # "off"
    /\ Fault("crash")
    /\ ProcessGone
    /\ \/ UNCHANGED pi
       \/ at = "poweroff" /\ "ok" \in PoweroffOutcomes /\ pi' = "halting"
    /\ UNCHANGED <<supply, setting, hatVars, dark, wanted, signals, midStart>>

\* The HAT hears nothing for the time it was given and power-cycles the Pi.
WatchdogExpired == watchdog /\ ~told /\ silent >= WatchdogTimeout

WatchdogReset ==
    /\ pi = "up" /\ WatchdogExpired
    /\ ProcessGone
    /\ watchdog' = FALSE /\ silent' = 0 /\ wanted' = TRUE
    /\ UNCHANGED <<supply, setting, told, dark, pi, faults, signals, midStart>>

\* Once told, the HAT takes the power away, and gives it back with the supply.
CutPower ==
    /\ pi = "halting"
    /\ pi' = "off"
    /\ ProcessGone
    /\ watchdog' = FALSE
    /\ UNCHANGED <<supply, setting, told, silent, dark, wanted, faults, signals,
                   midStart>>

Boot ==
    /\ pi = "off" /\ supply > BlackoutVoltageLimit
    /\ pi' = "up"
    /\ told' = FALSE /\ wanted' = TRUE
    /\ UNCHANGED <<state, elapsed, tickVars, supply, setting, pub, watchdog, silent,
                   historyVars, procVars, faults, signals, midStart>>

Surroundings == (TimePasses \/ Environment) /\ UNCHANGED daemonVars

-----------------------------------------------------------------------------

Startup == StartProcess \/ ProbeHat \/ InstallHandlers \/ CreateLoop \/ RunLoop
Handle  == EnterHandler \/ Disarm \/ Stop \/ KilledEarly
Mishap  == \/ HatNotFound \/ Crash
           \/ HandlerFailsInTick \/ HandlerFailsIdle \/ HandlerFailsEarly
Hat     == WatchdogReset \/ CutPower \/ Boot

DaemonNext ==
    \/ Startup \/ StartTick \/ ContinueTick \/ LeaveLoop
    \/ Handle \/ Mishap
    \/ SvcDown \/ SvcTerm \/ SvcUp
    \/ Hat \/ Surroundings

DaemonSpec == DaemonInit /\ [][DaemonNext]_allVars

\* The supervisor restarts, Python runs a pending handler and the main loop its
\* callbacks, the HAT acts, time goes on.  Nothing is assumed of faults, of the
\* supply or of whoever uses svc.
DaemonFairness ==
    /\ WF_allVars(Startup) /\ WF_allVars(StartTick) /\ WF_allVars(ContinueTick)
    /\ WF_allVars(LeaveLoop) /\ WF_allVars(Handle) /\ WF_allVars(Hat)
    /\ WF_allVars(TimePasses /\ UNCHANGED daemonVars)

FairDaemonSpec == DaemonSpec /\ DaemonFairness

-----------------------------------------------------------------------------
(* Properties.                                                             *)

\* The types of the variables added here; a process that is not running has no
\* tick under way and no loop to quit.
DaemonTypeOK ==
    /\ TypeOK
    /\ proc \in Stages
    /\ handler \in {"none", "disarm", "stop"}
    /\ pending \in BOOLEAN /\ quit \in BOOLEAN /\ wanted \in BOOLEAN
    /\ midStart \in BOOLEAN
    /\ pi \in {"up", "halting", "off"}
    /\ faults \in 0 .. MaxFaults /\ signals \in 0 .. MaxSignals
    /\ proc # "running" => at = "idle" /\ ~quit

\* While no process crashes, the HAT never resets a Pi whose daemon is being
\* stopped, restarted or looking for the HAT: whenever the watchdog is armed
\* somebody feeds it.
NoSpuriousReset == ~(pi = "up" /\ WatchdogExpired)

\* Whatever crashes besides: a daemon that has armed the watchdog itself feeds it
\* until it ends, through lost ticks and failing cleanups.  A Pi is reset only
\* while nobody is up to guard it.
ResetOnlyUnguarded == WatchdogExpired => state = "START"

\* A main loop that was told to quit leaves the watchdog disarmed, for the Pi is
\* meant to go on without the daemon.
ExitDisarms == [][quit /\ proc' = "down" => ~watchdog']_allVars

\* The same, unless cleanup interrupted the very tick that arms the watchdog.
ExitDisarmsLater == [][quit /\ proc' = "down" /\ ~midStart => ~watchdog']_allVars

\* "svc -d # stop": a daemon that is to be down ends up down.
StopObeyed == ~wanted ~> (proc = "down" \/ wanted)

\* A blackout that lasts outlives restarts, crashes and watchdog resets of the
\* daemon: although every new process forgets how long it has been dark, the HAT
\* is told to shut down in the end, and of this blackout, not of an earlier one.
BlackoutSurvivesRestart ==
    <>[](supply < BlackoutVoltageLimit /\ wanted) => <>[]told

-----------------------------------------------------------------------------
(* The abstract specification it implements.                               *)

\* What the HAT was told counts more than what a process is counting.
promise ==
    CASE pi # "up"         -> pi
      [] pi = "up" /\ told -> "told"
      [] pi = "up" /\ ~told /\ state = "DEAD"     -> "rehearsed"
      [] pi = "up" /\ ~told /\ state = "SHUTDOWN" -> "committed"
      [] pi = "up" /\ ~told /\ state = "BLACKOUT" -> "counting"
      [] OTHER -> "watching"

known == IF promise \in {"counting", "committed"} THEN elapsed ELSE 0

Promise == INSTANCE RestartPolicy WITH mode <- promise, grace <- known

\* Daemon, supervisor and HAT keep the promise of RestartPolicy through crashes,
\* restarts, signals and resets, while nobody steps the wall clock: a new process
\* never acts on an old blackout, none counts beyond its deadline, and a HAT that
\* was told stays told until it has taken the power away.
PromiseKept == Promise!Spec
=============================================================================
