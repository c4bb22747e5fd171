---------------------------- MODULE StateMachine ----------------------------
(***************************************************************************)
(* The blackout state machine of the daemon, src/shrpi/state_machine.py.   *)
(*                                                                         *)
(* GLib's main loop calls check_state every TickInterval time units.  One  *)
(* call is not atomic here: `at' is the place in check_state the main      *)
(* thread has reached, and between two places time passes, the supply      *)
(* moves, the wall clock is stepped and an I2C transfer fails.             *)
(*                                                                         *)
(* Time is kept as ages relative to now.  time.time() - self.blackout_time *)
(* is the variable `elapsed', which a step of the wall clock shifts;       *)
(* `dark', `silent' and `promised' measure real time and only the         *)
(* properties (and the HAT's watchdog) read them.                          *)
(***************************************************************************)
EXTENDS Integers

CONSTANTS
    Voltages,             \* what dcin_voltage() can return
    BlackoutVoltageLimit, \* self.blackout_voltage_limit
    Limits,               \* values of the setting BlackoutTimeLimit
    MaxLimit,             \* its largest allowed value (600 in the code)
    HasCurrentSensor,     \* v2 board: input_current() is an I2C read
    DryRun,               \* self.dry_run
    PoweroffOutcomes,     \* how check_call([self.poweroff]) may end
    TickInterval,         \* the GLib interval, in time units
    MaxLag,               \* bound: units by which one tick may run late
    MaxErrors,            \* bound: consecutive ticks lost to I2C errors
    WatchdogTimeout,      \* the 10 s of set_watchdog_timeout(10), in units
    ClockSteps,           \* amounts by which the wall clock may be stepped
    Horizon               \* bound: `elapsed' saturates here

\* dcin_voltage before it is assigned, and the first /VoltageIn published.
NoReading == 0

\* `dark' while the last reading off the limit was above it.
NotDark == -1

\* The longest time from the end of one tick to the end of the next.
Period == TickInterval + MaxLag

\* What e consecutive failed ticks can cost.
Slack(e) == e * Period

\* No blackout is counted for longer than this ...
CommitBy == MaxLimit + MaxLag + Slack(MaxErrors) + Period
\* ... and the HAT is asked to shut down no later than this.
TellBy == CommitBy + Slack(MaxErrors) + Period

ASSUME VoltageAssumption ==
    /\ Voltages \subseteq Int
    /\ Voltages # {}
    /\ BlackoutVoltageLimit \in Int

ASSUME LimitAssumption ==
    /\ MaxLimit \in Nat
    /\ Limits \subseteq 1 .. MaxLimit
    /\ Limits # {}

ASSUME ConfigurationAssumption ==
    /\ HasCurrentSensor \in BOOLEAN
    /\ DryRun \in BOOLEAN
    /\ PoweroffOutcomes \subseteq {"ok", "nonzero", "oserror"}
    /\ ClockSteps \subseteq Int

ASSUME TimingAssumption ==
    /\ TickInterval \in Nat \ {0}
    /\ MaxLag \in Nat
    /\ MaxErrors \in Nat
    /\ WatchdogTimeout \in Nat \ {0}
    /\ Horizon \in Nat

ASSUME HorizonAssumption == Horizon > TellBy

VARIABLES
    state,     \* self.state
    elapsed,   \* time.time() - self.blackout_time
    at,        \* where in check_state the main thread is
    vin,       \* the local dcin_voltage
    timer,     \* the GLib timeout source exists
    wait,      \* time since the source was last dispatched, up to TickInterval
    lag,       \* time this tick has been late or has taken
    errs,      \* consecutive ticks that ended in an I2C error
    supply,    \* the voltage at the input
    setting,   \* self.DbusSettings['BlackoutTimeLimit']
    pub,       \* the values published on D-Bus
    watchdog,  \* the HAT's watchdog is armed
    told,      \* the HAT has been asked to shut down
    silent,    \* time since the last I2C transfer that succeeded
    poweroffs, \* how often the poweroff command has run
    dark,      \* real time since the readings went below the limit, or NotDark
    promised   \* what is left of the countdown last shown, 0 if void

tickVars    == <<at, vin, timer, wait, lag, errs>>
hatVars     == <<watchdog, told, silent>>
historyVars == <<poweroffs, dark, promised>>
vars == <<state, elapsed, tickVars, supply, setting, pub, hatVars, historyVars>>

States == {"START", "OK", "BLACKOUT", "SHUTDOWN", "DEAD"}
Places == {"idle", "volt", "curr", "decide", "poweroff", "assign", "publish"}

\* Published before the first tick completes (create_service).
NotStarted == [State |-> "Not started", VoltageIn |-> NoReading,
               ShutdownCountdown |-> 0]

Readings == Voltages \cup {NoReading}

PublishedValues == [State : States \cup {"Not started"},
                    VoltageIn : Readings,
                    ShutdownCountdown : Int]

-----------------------------------------------------------------------------

UpTo(n, bound) == IF n > bound THEN bound ELSE n
Down(n) == IF n > 0 THEN n - 1 ELSE 0

Init ==
    /\ state = "START"
    /\ elapsed = Horizon           \* blackout_time = 0.0, half a century ago
    /\ at = "idle" /\ vin = NoReading
    /\ timer = TRUE /\ wait = 0 /\ lag = 0 /\ errs = 0
    /\ supply \in Voltages
    /\ setting \in Limits
    /\ pub = NotStarted
    /\ watchdog = FALSE /\ told = FALSE /\ silent = 0
    /\ poweroffs = 0 /\ dark = NotDark /\ promised = 0

-----------------------------------------------------------------------------
(* What a tick tests.                                                      *)

(* Each mutated form below is what a slip in the code would make of the    *)
(* definition that follows it.  The runs must catch it.                    *)

PowerLost == vin < BlackoutVoltageLimit

PowerBackByMargin == vin > BlackoutVoltageLimit + 1
PowerBack == vin > BlackoutVoltageLimit

ExpiredOnTheDot == elapsed >= setting
ExpiredIfLost   == elapsed > setting /\ PowerLost
Expired == elapsed > setting

NeverRehearsing == FALSE
Rehearsing == DryRun

-----------------------------------------------------------------------------
(* The tick: check_state, one action per step of the main thread.          *)

Goto(place) == at' = place /\ UNCHANGED <<vin, timer, wait, lag, errs>>

\* The main loop is free again.
EndTick(e) ==
    /\ at' = "idle" /\ vin' = NoReading /\ lag' = 0 /\ errs' = e
    /\ UNCHANGED wait

\* The callback returns True and keeps its timer.
ReturnUnlessFailed == timer' = (timer /\ errs' = 0)
ReturnTrue == UNCHANGED timer

I2COk == silent' = 0

\* "0 disables the watchdog."
SetWatchdogArms(timeout) == watchdog' = TRUE /\ I2COk
SetWatchdog(timeout) == watchdog' = (timeout > 0) /\ I2COk

Dispatch ==
    /\ at = "idle" /\ timer /\ wait = TickInterval
    /\ at' = "volt" /\ wait' = 0
    /\ UNCHANGED <<state, elapsed, vin, timer, lag, errs, supply, setting, pub,
                   hatVars, historyVars>>

ReadVoltage ==
    /\ at = "volt"
    /\ vin' = supply
    /\ I2COk
    /\ at' = "curr"
    /\ UNCHANGED <<state, elapsed, timer, wait, lag, errs, supply, setting, pub,
                   watchdog, told, historyVars>>

\* On a v1 board input_current() returns None without touching the bus.
ReadCurrent ==
    /\ at = "curr"
    /\ silent' = IF HasCurrentSensor THEN 0 ELSE silent
    /\ dark' = IF PowerBack THEN NotDark
               ELSE IF PowerLost /\ dark = NotDark THEN 0
               ELSE dark
    /\ Goto("decide")
    /\ UNCHANGED <<state, elapsed, supply, setting, pub, watchdog, told,
                   poweroffs, promised>>

\* The steps of a tick that are I2C transfers and may raise OSError.
OnTheBus ==
    \/ at = "volt"
    \/ at = "curr" /\ HasCurrentSensor
    \/ at = "decide" /\ state = "START"
    \/ at = "decide" /\ state = "SHUTDOWN" /\ ~Rehearsing

\* except OSError: the rest of the tick is skipped.
I2CError ==
    /\ OnTheBus
    /\ errs < MaxErrors
    /\ EndTick(errs + 1) /\ ReturnTrue
    /\ UNCHANGED <<state, elapsed, supply, setting, pub, hatVars,
                   historyVars>>

ArmWatchdog ==
    /\ at = "decide" /\ state = "START"
    /\ SetWatchdog(WatchdogTimeout)
    /\ Goto("assign")
    /\ UNCHANGED <<state, elapsed, supply, setting, pub, told, historyVars>>

StayOK ==
    /\ at = "decide" /\ state = "OK"
    /\ ~PowerLost
    /\ Goto("publish")
    /\ UNCHANGED <<state, elapsed, supply, setting, pub, hatVars, historyVars>>

DetectBlackout ==
    /\ at = "decide" /\ state = "OK"
    /\ PowerLost
    /\ elapsed' = 0
    /\ state' = "BLACKOUT"
    /\ Goto("publish")
    /\ UNCHANGED <<supply, setting, pub, hatVars, historyVars>>

ResumePower ==
    /\ at = "decide" /\ state = "BLACKOUT"
    /\ PowerBack
    /\ state' = "OK"
    /\ Goto("publish")
    /\ UNCHANGED <<elapsed, supply, setting, pub, hatVars, historyVars>>

CommitShutdown ==
    /\ at = "decide" /\ state = "BLACKOUT"
    /\ ~PowerBack
    /\ Expired
    /\ state' = "SHUTDOWN"
    /\ Goto("publish")
    /\ UNCHANGED <<elapsed, supply, setting, pub, hatVars, historyVars>>

KeepWaiting ==
    /\ at = "decide" /\ state = "BLACKOUT"
    /\ ~PowerBack
    /\ ~Expired
    /\ Goto("publish")
    /\ UNCHANGED <<state, elapsed, supply, setting, pub, hatVars, historyVars>>

RequestShutdown ==
    /\ at = "decide" /\ state = "SHUTDOWN" /\ ~Rehearsing
    /\ told' = TRUE
    /\ I2COk
    /\ Goto("poweroff")
    /\ UNCHANGED <<state, elapsed, supply, setting, pub, watchdog, historyVars>>

RehearseShutdown ==
    /\ at = "decide" /\ state = "SHUTDOWN" /\ Rehearsing
    /\ Goto("assign")
    /\ UNCHANGED <<state, elapsed, supply, setting, pub, hatVars, historyVars>>

RanPoweroff == poweroffs' = UpTo(poweroffs + 1, 2)

\* check_call returns: the command exited with 0.
PoweroffOk ==
    /\ at = "poweroff" /\ "ok" \in PoweroffOutcomes
    /\ RanPoweroff
    /\ Goto("assign")
    /\ UNCHANGED <<state, elapsed, supply, setting, pub, hatVars, dark, promised>>

\* The command ran and failed: CalledProcessError is not an OSError, it leaves
\* check_state, and GLib destroys the source of a callback that did not
\* return True.
PoweroffNonzero ==
    /\ at = "poweroff" /\ "nonzero" \in PoweroffOutcomes
    /\ RanPoweroff
    /\ EndTick(0)
    /\ timer' = FALSE
    /\ UNCHANGED <<state, elapsed, supply, setting, pub, hatVars, dark, promised>>

\* The command could not be started: FileNotFoundError and PermissionError are
\* OSErrors, caught and reported as an I2C error.
PoweroffNotStarted ==
    /\ at = "poweroff" /\ "oserror" \in PoweroffOutcomes
    /\ EndTick(0) /\ ReturnTrue
    /\ UNCHANGED <<state, elapsed, supply, setting, pub, hatVars, historyVars>>

NextStateForgetsDead == IF state = "START" THEN "OK" ELSE state
NextStateMisspelt    == IF state = "START" THEN "Ok" ELSE "DEAD"
NextState == IF state = "START" THEN "OK" ELSE "DEAD"

\* self.state = ... after the calls of the branch have returned.
Assign ==
    /\ at = "assign"
    /\ state' = NextState
    /\ Goto("publish")
    /\ UNCHANGED <<elapsed, supply, setting, pub, hatVars, historyVars>>

StayDead ==
    /\ at = "decide" /\ state = "DEAD"
    /\ Goto("publish")
    /\ UNCHANGED <<state, elapsed, supply, setting, pub, hatVars, historyVars>>

\* The countdown reads the clock a second time.
CountdownAlways      == setting - elapsed
CountdownFromDefault == IF state = "BLACKOUT" THEN MaxLimit - elapsed ELSE 0
Countdown == IF state = "BLACKOUT" THEN setting - elapsed ELSE 0

ReportWithoutState == [pub EXCEPT !.VoltageIn = vin, !.ShutdownCountdown = Countdown]
Report == [State |-> state, VoltageIn |-> vin, ShutdownCountdown |-> Countdown]

Publish ==
    /\ at = "publish"
    /\ pub' = Report
    /\ promised' = IF Countdown > 0 THEN Countdown ELSE 0
    /\ EndTick(0) /\ ReturnTrue
    /\ UNCHANGED <<state, elapsed, supply, setting, hatVars, poweroffs, dark>>

-----------------------------------------------------------------------------
(* The surroundings.                                                       *)

\* A second passes.  While a tick is due the main loop starts it, and a tick
\* that has started ends, within MaxLag; only check_call may take for ever.
TimePasses ==
    /\ \/ at = "idle" /\ (timer => wait < TickInterval) /\ UNCHANGED lag
       \/ at = "poweroff" /\ UNCHANGED lag
       \/ /\ at # "poweroff" /\ (at = "idle" => timer /\ wait = TickInterval)
          /\ lag < MaxLag
          /\ lag' = lag + 1
    /\ wait' = UpTo(wait + 1, TickInterval)
    /\ elapsed' = UpTo(elapsed + 1, Horizon)
    /\ silent' = UpTo(silent + 1, WatchdogTimeout)
    /\ dark' = IF dark = NotDark THEN NotDark ELSE UpTo(dark + 1, MaxLimit + 1)
    /\ promised' = Down(promised)
    /\ UNCHANGED <<state, at, vin, timer, errs, supply, setting, pub, watchdog,
                   told, poweroffs>>

SupplyChanges ==
    /\ supply' \in Voltages \ {supply}
    /\ UNCHANGED <<state, elapsed, tickVars, setting, pub, hatVars, historyVars>>

\* The settings service's signal is handled by the main loop, so never inside
\* a tick; handle_changed_value only logs it.
SettingChanges ==
    /\ at = "idle"
    /\ setting' \in Limits \ {setting}
    /\ promised' = 0
    /\ UNCHANGED <<state, elapsed, tickVars, supply, pub, hatVars, poweroffs,
                   dark>>

\* NTP, GPS or a user sets the wall clock that time.time() reads.
ClockStep ==
    /\ \E d \in ClockSteps :
          elapsed' = IF elapsed + d < -Horizon THEN -Horizon
                     ELSE UpTo(elapsed + d, Horizon)
    /\ UNCHANGED <<state, tickVars, supply, setting, pub, hatVars, historyVars>>

-----------------------------------------------------------------------------

\* What the main thread does by itself once GLib has called it.
MainStep ==
    \/ ReadVoltage \/ ReadCurrent \/ I2CError
    \/ ArmWatchdog
    \/ StayOK \/ DetectBlackout
    \/ ResumePower \/ CommitShutdown \/ KeepWaiting
    \/ RequestShutdown \/ RehearseShutdown
    \/ PoweroffOk \/ PoweroffNonzero \/ PoweroffNotStarted
    \/ Assign \/ StayDead \/ Publish

Environment == SupplyChanges \/ SettingChanges \/ ClockStep

Next == Dispatch \/ MainStep \/ TimePasses \/ Environment

Spec == Init /\ [][Next]_vars

\* GLib dispatches a due source, a started callback runs, and time does not
\* stop.  check_call may block, but not for ever.
Fairness == WF_vars(Dispatch) /\ WF_vars(MainStep) /\ WF_vars(TimePasses)

FairSpec == Spec /\ Fairness
-----------------------------------------------------------------------------
(* Properties.                                                             *)

\* Every variable keeps its type; the counters keep their bounds.
TypeOK ==
    /\ state \in States
    /\ elapsed \in -Horizon .. Horizon
    /\ at \in Places
    /\ vin \in Readings
    /\ timer \in BOOLEAN
    /\ wait \in 0 .. TickInterval
    /\ lag \in 0 .. MaxLag
    /\ errs \in 0 .. MaxErrors
    /\ supply \in Voltages
    /\ setting \in Limits
    /\ pub \in PublishedValues
    /\ watchdog \in BOOLEAN
    /\ told \in BOOLEAN
    /\ silent \in 0 .. WatchdogTimeout
    /\ poweroffs \in 0 .. 2
    /\ dark \in NotDark .. MaxLimit + 1
    /\ promised \in Nat

\* The Pi is committed to a shutdown only after more than BlackoutTimeLimit of
\* real time since a reading below the voltage limit, with no complete reading
\* above it in between: a blackout that ended, a stale blackout_time or a lost
\* tick never shortens the grace.  It rests on a wall clock that nobody steps.
CommitJustified ==
    [][state = "BLACKOUT" /\ state' = "SHUTDOWN" => dark > setting]_vars

\* While /ShutdownCountdown still had time to run, and nobody changed the
\* setting, the shutdown does not start: the number shown to the crew is kept,
\* although it is computed from a second reading of the clock and stays
\* on the display through failed ticks.
CountdownHonest ==
    [][state' = "SHUTDOWN" /\ state # "SHUTDOWN" => promised = 0]_vars

\* Even on a wall clock that is stepped, the machine commits only in a tick that
\* read no good supply, after an earlier tick has shown BLACKOUT on D-Bus: one
\* glitch of the clock and one of the supply in the same tick are not enough.
ShownBeforeCommit ==
    [][state' = "SHUTDOWN" /\ state # "SHUTDOWN" =>
           pub.State = "BLACKOUT" /\ ~(vin > BlackoutVoltageLimit)]_vars

\* Between ticks the published state is the machine's state and a countdown is
\* shown for a blackout only: no exit from check_state separates the two.
PublishedCoherent ==
    at = "idle" =>
        /\ pub.State = IF state = "START" THEN "Not started" ELSE state
        /\ pub.ShutdownCountdown # 0 => state = "BLACKOUT"

\* The time bought by the supercapacitors is enough: whatever the pattern of
\* I2C errors, late ticks, power resumptions and setting changes, a blackout
\* is counted until CommitBy at most and the HAT is told by TellBy.
TellInTime ==
    /\ state = "BLACKOUT" => elapsed <= CommitBy
    /\ state = "SHUTDOWN" /\ ~told => elapsed <= TellBy

\* Some tick reaches the HAT before its watchdog would reset the Pi, as long as
\* the daemon has not handed over to the HAT.
WatchdogFed == watchdog /\ ~told => silent < WatchdogTimeout

\* The poweroff command runs at most once, although SHUTDOWN is entered again
\* by every tick that failed, and never before the HAT is told to expect it.
PoweroffOnce == poweroffs <= 1 /\ (poweroffs > 0 => told)

\* If the timer source dies, the HAT has the shutdown in hand: no failure makes
\* the daemon stop watching the supply silently.
NeverAbandoned == ~timer => told

\* "always keep the timer alive" (comment on check_state's return).
TimerAlive == timer

\* A supply that stays below the limit ends with the HAT told to shut down (or,
\* rehearsing, with the machine DEAD), through any I2C errors, delays and
\* setting changes.
LowPowerHandsOff ==
    <>[](supply < BlackoutVoltageLimit) => <>(told \/ state = "DEAD")

\* A supply that comes back for good between two ticks of a blackout ends the
\* blackout, even if the limit expires before the next reading succeeds.
RecoveryHonoured ==
    at = "idle" /\ state = "BLACKOUT"
        ~> state = "OK" \/ ~(supply > BlackoutVoltageLimit)

-----------------------------------------------------------------------------
(* The abstract specification it implements.                               *)

mode ==
    CASE poweroffs > 0      -> "off"
      [] poweroffs = 0 /\ told -> "told"
      [] ~told /\ poweroffs = 0 /\ state = "DEAD"     -> "rehearsed"
      [] ~told /\ poweroffs = 0 /\ state = "SHUTDOWN" -> "committed"
      [] ~told /\ poweroffs = 0 /\ state = "BLACKOUT" -> "counting"
      [] OTHER -> "watching"

Policy == INSTANCE BlackoutPolicy WITH mode <- mode, grace <- elapsed

\* The state machine keeps the promise of BlackoutPolicy: grace period, deadline
\* and order of the hand-over, while nobody steps the wall clock.
PolicyKept == Policy!Spec
=============================================================================
