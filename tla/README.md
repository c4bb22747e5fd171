# Verification of the SH-RPi Venus daemon

The daemon `shrpid` runs on a Raspberry Pi under Venus OS, powered through a
Sailor Hat (SH-RPi): a HAT with supercapacitors that carry the Pi through a
power loss for a short time.  The daemon watches the input voltage, counts a
grace period when it falls below a limit, tells the HAT that the Pi shuts down
and runs `poweroff`.  It feeds the HAT's watchdog by talking to it, and shows
its state on D-Bus.

What can go wrong is a Pi that shuts down although the power came back, one that
is cut off because nobody shut it down, one that the watchdog resets while it
works, and one that the daemon silently stopped guarding.  This directory holds
TLA+ models of the code, TLC runs on small instances, and proofs for all values
of the constants.

## 1. Inventory

| Component | Source (under `src/`) | State | Operations |
|---|---|---|---|
| Blackout state machine | `src/shrpi/state_machine.py` | `state`, `blackout_time`, the D-Bus values, the setting `BlackoutTimeLimit` | `check_state` (once a second from GLib), `run`, `stop`, `create_service`, `handle_changed_value` |
| Daemon process | `src/shrpi/daemon.py`, `services/` | how far `main` is, the socket path, pending signals | `main`, `parse_arguments`, `read_config_files`, `cleanup` (SIGTERM, SIGINT) |
| SH-RPi driver | `src/shrpi/i2c.py` | protocol (byte or word), cached versions | `factory`, registers read and written, watchdog, shutdown and sleep requests |
| HTTP server | `src/shrpi/server.py` | none of its own | routes for values, configuration, shutdown, sleep |
| Command line client | `src/shrpi/cli.py` | none | one HTTP request per command |
| Settings, GUI | `GUI/` | `BlackoutTimeLimit` (1 to 600 s) in Venus settings | pages that show and set values |
| Boot configuration | `configs/install_configs.sh` | `/boot/config.txt`, `/etc/modules`, services | `do_i2c`, `enable_config_line`, `disable_config_line`, `do_overlay`, `rtc_install`, `rtc_uninstall` |
| Installers, overlays, Docker, CI | `install*.sh`, `configs/`, `docker/`, `.github/` | files | copies and downloads |
| Vendored, template | `colorsys.py`, `example.py`, `tests/` | none | not part of the daemon |

How they interact.  `main` makes the driver with `factory`, builds the
`StateMachine`, installs `cleanup` for SIGTERM and SIGINT and calls `run`, which
publishes the D-Bus service, registers the timer and enters GLib's main loop.
Everything happens on one thread: GLib calls `check_state`, D-Bus signals are
handled between ticks, and CPython runs `cleanup` between two bytecodes of
whatever the thread is doing, inside `check_state` too.  The driver raises
`OSError` when a transfer fails.  The HAT acts by itself: any transfer it
answers feeds the watchdog, ten seconds without one make it power-cycle the Pi,
a shutdown request makes it wait for the Pi to halt and take the power away.
`supervise` restarts a service that has ended.

The hard behaviours, each listed with its line under `hazards` in
`PROJECT.json`: transfers that fail in the middle of a tick; ticks that come late
or are lost; the clock read twice, a clock that is set; a limit changed during
a blackout; the poweroff command failing in its three ways after the HAT has been
told; signals between any two steps, before there is a loop, inside the tick
that arms the watchdog; crashes and restarts that forget the blackout, also on a Pi that is already
halting; programs that are started and never awaited; a socket path that changes
between the look at it and its removal; register
values that do not fit their width; five sources for one limit; a start that the
supervisor repeats against a socket that is not the daemon's; a script that is
aborted between two edits of the boot configuration and run again.

What makes each component correct:

* state machine: the grace period is neither cut short nor stretched; the HAT is
  told before `poweroff`, once; the watchdog is fed; the published values agree
  with the state; a recovery counts; a lasting blackout ends in a shutdown;
* daemon: an order to stop is obeyed and leaves no armed watchdog; restarts and
  crashes do not lose the blackout for good, and each process counts its own;
* driver: a value read back is the value written, up to the register's
  resolution; the watchdog is never set to a timeout nobody asked for;
* HTTP server and client: the Pi halts when the HAT was told and only then, whichever task
  or transfer fails; a sleeping Pi should have a wake-up time in the future (it may not,
  see the findings);
* start-up, settings and GUI: the last word on the limit is the command line's, then the
  last file's; what the crew writes reaches the setting (it need not, see the findings); a
  start comes up as soon as nothing is in its way;
* boot configuration: running the script twice is running it once, also after
  runs that were aborted; what was asked for holds at the end and nothing else is
  touched; no line is there twice.

## 2. Modules

| Module | Models |
|---|---|
| `StateMachine` | `check_state` and the main loop that calls it, against the HAT, the supply, the clock and the settings |
| `BlackoutPolicy` | abstract: what the daemon promises about a blackout |
| `StateMachineProofs` | the theorems about `StateMachine` |
| `Daemon` | the process around it: start-up, `cleanup`, supervisor, HAT, Pi; extends `StateMachine` and uses its actions |
| `RestartPolicy` | abstract: what daemon, supervisor and HAT promise together |
| `DaemonProofs` | the theorems about `Daemon`'s own properties; builds on `StateMachineProofs` |
| `RestartProofs` | the properties of `StateMachine`, proved of `Daemon`; `Daemon` implements `RestartPolicy` |
| `Startup` | `main` up to the running service, the parser, where the blackout time limit comes from |
| `StartupProofs` | the theorems about `Startup` |
| `SHRPiDevice` | the driver: what `factory` makes, the settings in the HAT's registers, widths and conversions |
| `SHRPiDeviceProofs` | the theorems about `SHRPiDevice` |
| `HttpServer` | the HTTP server's requests and the client's commands; extends `SHRPiDevice` and uses its calls |
| `HttpServerProofs` | the theorems about `HttpServer` |
| `InstallConfigs` | the boot configuration script, run after run |
| `InstallConfigsProofs` | the theorems about `InstallConfigs` |
| `MCStateMachine`, `MCDaemon`, `MCStartup`, `MCSHRPiDevice`, `MCHttpServer`, `MCInstallConfigs` | values of constants for TLC |

`StateMachine` and `Daemon` see the driver as transfers that succeed or raise;
what a transfer carries is the subject of `SHRPiDevice`.

### StateMachine

A tick is not atomic.  `at` is the place in `check_state` that the thread has
reached; one action per step:

| `at` | Actions | Code |
|---|---|---|
| `idle` | `Dispatch` | GLib calls `check_state` |
| `volt` | `ReadVoltage`, `I2CError` | `dcin_voltage()` |
| `curr` | `ReadCurrent`, `I2CError` | `input_current()` (no transfer on v1 boards), then the setting is read |
| `decide` | `ArmWatchdog`, `StayOK`, `DetectBlackout`, `ResumePower`, `CommitShutdown`, `KeepWaiting`, `RequestShutdown`, `RehearseShutdown`, `StayDead`, `I2CError` | the `if` chain on `self.state` |
| `poweroff` | `PoweroffOk`, `PoweroffNonzero`, `PoweroffNotStarted` | `check_call([self.poweroff])` |
| `assign` | `Assign` | `self.state = ...` behind a call |
| `publish` | `Publish` | the four D-Bus values, `return True` |

`I2CError` is `except OSError`: the rest of the tick is dropped, the effects so
far stay.  `PoweroffNonzero` is the exception that is not caught: it leaves the
callback and GLib destroys the timer (`timer`).

Between two steps the supply moves, time passes, the clock is set
(`ClockStep`).  Between ticks only, the setting changes (`SettingChanges`): its
D-Bus signal needs the main loop.

Time is counted in units and kept as ages.  `elapsed` is
`time.time() - self.blackout_time` and is what the code sees; `dark` (real time
since the readings went below the limit, with none above it in between),
`silent` (since the last transfer), `promised` (what is left of the countdown last shown)
are what is true.  A property relates the two.

Bounds: `MaxLag` units of lateness per tick, `MaxErrors` failed ticks in a row,
`Horizon` where `elapsed` saturates (it only has to exceed `TellBy`, which an
assumption says), `dark` up to `MaxLimit + 1`, `poweroffs` up to 2.  From them
follow `Period`, the longest time between the ends of two ticks, `CommitBy` and
`TellBy`.

### BlackoutPolicy

Four transitions and a clock: watching, counting, committed, told, off (or
rehearsed).  It commits only when the grace period is over, may not let time
pass a deadline, and never goes back from `committed`.  `StateMachine` implements
it with `mode` defined from `state`, `told` and `poweroffs`, and `grace <- elapsed`.

### Daemon

`proc` is how far `main` is: `down`, `probing` (the factory looks for the HAT),
`setup` (until the handlers are installed), `hooked` (handlers, no main loop),
`looped` (timer and loop exist), `running`.  `handler` is where in `cleanup` the
thread is; while it is in there nothing else of the process runs.  `ContinueTick`
lets the tick under way go on even when the loop was told to quit, as GLib does.
`ProcessGone` resets everything that lives in memory, the count of the poweroff commands
included: `poweroffs` counts those of one process.

`cleanup` may fail at its transfer.  Inside a tick the `OSError` it raises comes
out of the bytecode it interrupted, and `check_state` takes it for its own
(`HandlerFailsInTick`), which drops the rest of the tick and with it whatever was
read; a poweroff command that was under way may have done its work.  In an idle loop the
error is printed; before the loop it ends the process.

What `check_call` has started is a process of its own: after a `Crash` in the middle of it
the Pi may be halting although no daemon knows.  A Pi that halts goes on running what
runs until the power goes: `supervise` restarts the daemon on it (`StartProcess`), it can
be stopped and started, and the new process starts from `START`.

The kinds of fault that may happen are the constant `Faults`, so that a
property can say under which faults it holds; `MaxFaults` and `MaxSignals`
bound how many.

### RestartPolicy

What `BlackoutPolicy` promises of one process, for as many as there may be.  A
blackout may be forgotten at any moment before the HAT was told (`Forget`), but a process
starts from `watching`: none resumes what another has counted.  `Commit` needs the grace
period in force, `Count` stops at the deadlines, and from `told` the only way
back is through a power cut.  `Daemon` implements it with `mode <- promise` (the Pi if it is not up,
else what the HAT was told, else the process's state) and `grace <- known`, the age the
process knows of.

### Startup

`Daemon` has the process with its signals and takes its configuration as given;
`Startup` has the same `main` with what it is given.  `proc` is the part of `main` that is
running: the parser (`ReadConfigFile` once per file, `ParseAgain`), `FindHat`, the
socket path, `CheckGroup`, then the service's paths (`AddPaths`) and the
settings service (`BindSetting`).  Every one of them may end the process (`Exit`), and the
supervisor starts it again (`StartProcess`).

The look at the socket path is one action per system call: `SeeSocket` (`exists`),
`CheckKind` (`is_socket`), `CheckOwner` (`stat`), `Unlink`.  Others may change the path
between any two of them, and then a call raises, or removes what the calls before it have
not seen.

The parser is followed for the one option that has five sources.  A file is the
way it spells that option's key: with underscores it is the destination
`set_defaults` changes, with hyphens an attribute that nobody reads.  `stored`
is the setting, to which the value given by `BindSetting` is only the
default; `shown` is `/BlackoutTimeLimit` on D-Bus, which `WriteShown` changes and
nobody reads: `handle_changed_value` logs the new value.  `asked` is a history variable, taken from the reference
definition `LastWord` when the process starts.

### SHRPiDevice

`making` is how far `factory` is: a probe object reads the hardware version
(`ProbeHardware`), then the firmware version, which selects the protocol
(`ProbeFirmware`); then the object of the right class is made from the cached
versions (`MakeDevice`), and its protocol is what `__init__` says.  A board is
its two major versions, with version 2 boards always on firmware 2.

Numbers are integers, ms and mV.  `Byte` and `Word` are what the bus library's
C types leave of a number, `Trunc` is `int()` of a quotient, `Millis` is
`int(1000 * t)` with its float error: the product of a fraction of a second
may come out just below the whole number.  A byte written to a register of two is not
specified anywhere in the repository, so `AfterByte` allows ignoring it or taking it for
either half.  `asked` remembers what each register's last completed
call asked for.  The calls that read are operators; the voltages that are only
measured have no register here.

### HttpServer

`conn` has a record for each client: the stage of its request, the age of the
handler's `now`, the status it was answered.  A handler that waits for its
request's body is two actions, `PostSleep` and `SleepAccepted` (or
`SleepRefused`, `SleepFails`), `PutConfigKey` and `PutNumber` (or
`PutRefused`); others are one.  `tasks` are the detached asyncio tasks, `procs`
the programs they started.  `SleepBody` is what the client makes of its
argument.  Times are relative: a wake-up time is how many seconds ahead it is, and
`WakeTimes` what `int(now.timestamp())` may leave of it, the second itself or the one before.
GET handlers change nothing and return what the driver's reading operators
give.

What is around the server is external: `rtcwake` refuses a time that is
not ahead and may fail for reasons of its own (`RtcwakeMayFail`), the programs work in any
order (`InOrder` is `FALSE`), the first of `poweroff` and `shutdown` to run brings the system down,
the HAT wakes the Pi by the alarm after a sleep.  `daemon.py` has the call that
starts the server commented out, so the module describes `server.py` as it would
run when started.

### InstallConfigs

A run of the script is drawn up when it starts (`Plan`): a sequence of edits that depends
on the request, the board and what `i2cdetect` shows.  `MakeEdit` makes the
first that is left.  An entry of the system is the set of forms in which its
line is found in the file: active, `#line`, `# line`, switched off.  `sed`
sees only some of these forms, which is where its edits differ: `EnableLine`,
`DisableLine` and `DoOverlay` say what each does to any set of them.

Under `set -e` a failing command ends the run where it is (`AbortRun`, which is
an interrupted run as well), except on the left of `&&`, which is where `do_i2c` calls
`set_config_var`: when `lua` fails (`LuaFails`) `mv` puts an empty file in place, when `mv` fails
(`MvFails`) the old file stays, and in both cases the run goes on.  A board of version 1
also gets two overlay files that no image has, one edit each, if the system has the directory
for them (`Dtbos`).  `Reboot` loads
the clock's driver if its overlay is active, which decides what the next run sees
of the chip (`RtcSeen`).  `goal` and `sound` are history variables: what this
request would make of the system that its first attempt found, and whether that
had every overlay with its bus.

## 3. Runs

| Run | Instance | What it shows |
|---|---|---|
| `core_safety` | v2 board, tick 1, limits 1 and 3, three failed ticks, lateness 1, watchdog 10; fairness | `TypeOK`; `CommitJustified`: the grace period is never cut short; `CountdownHonest`: nor the countdown shown; `TellInTime`: nor stretched; `WatchdogFed`; `PoweroffOnce`; `NeverAbandoned`; `PublishedCoherent`; `PolicyKept`: `StateMachine` implements `BlackoutPolicy`; `LowPowerHandsOff`: a lasting blackout ends with the HAT told; `RecoveryHonoured`: a recovery between two ticks ends the blackout |
| `core_clock_steps` | v1 board, two units to a tick, clock set by -2 and +4, `dry_run` | what survives a clock that is set, also after a rehearsed shutdown: `ShownBeforeCommit` (`WatchdogFed` and `PublishedCoherent` hold on any clock too, which the theorems say) |
| `core_timer_finding` | | refutes `TimerAlive` |
| `daemon_orderly` | two signals, two faults: failed probes, failing cleanups, SIGTERM before the loop; every outcome of the poweroff command; no crash, no SIGTERM in the first tick | `NoSpuriousReset`: an armed watchdog is always fed by somebody; `ExitDisarms`; `DaemonTypeOK` |
| `daemon_faults` | two faults: crashes, failed probes, a signal in the first tick; a signal anywhere else in the loop; every outcome of the poweroff command, also one that outlives its daemon; fairness | `PromiseKept`: `Daemon` implements `RestartPolicy`; `CommitJustified`: no restart shortens the grace period; `PoweroffOnce`: no process runs the command twice; `ResetOnlyUnguarded`: the HAT resets the Pi only before a process has armed the watchdog; `ExitDisarmsLater`, `StopObeyed`, `BlackoutSurvivesRestart` |
| `startup` | two files in both orders, good, broken, missing; three limits; an option over a file; surroundings and a socket path that come and go between any two steps; fairness | `LastWordWins`: the two passes of the parser give the reference's answer; `ComesUp`; `StartupTypeOK` |
| `startup_write_finding` | | refutes `WriteReachesSetting` |
| `device_registers` | three boards; timeouts and thresholds on both sides of every width and full scale | `WatchdogAsAsked`: what is armed is what was asked, less one step at most; `ThresholdAsAsked`; `DeviceTypeOK` |
| `device_protocol_finding` | | refutes `ProtocolFits` |
| `http_requests` | two clients, every command, old and new firmware, bodies of every kind and late, `rtcwake` failing, programs in any order; fairness | `HandedOverInFull`: a HAT that was told gets its halt; `HaltAnnounced`: and no halt without it; `ServerTypeOK` |
| `http_sleep_finding` | one `shrpi sleep 0`, programs in order, `rtcwake` working | refutes `SleepWakes` |
| `install_config` | a fresh image with I2C blacklisted; no HAT, version 1 with and without overlays and clock, version 2 with and without its clock; up to four runs; SPI's two users in every combination, the other two modules together | `RequestHolds`: what was asked for is there at the end; `RetryConverges`: after any aborted runs too; `OneCopy`; `SpiWithItsUsers`: SPI goes with its last user; `OthersUntouched`; `InstallTypeOK` |

Why the bounds are enough.  Voltages below, at and above the limit reach both
comparisons with both results and the gap between them.  `core_safety` has the
real tick, watchdog and default limit in seconds; limits longer than that only
repeat the `KeepWaiting` tick.  Three failed ticks in a row with a second of
lateness each are the most that the ten seconds of watchdog bear; the
theorem `WatchdogAlwaysFed` has the condition as an inequality.  Two units to a tick in `core_clock_steps` put a second between two
ticks at which the clock may be set.  A second signal or fault after the process has
restarted meets the same state as the first.  In `http_requests` a second of waiting and
of halting (`MaxBodyWait`, `MaxHalt`) is what turns a wake-up time one second ahead into one
that has passed; `MaxTasks` stops a third request while
two tasks are pending, but not two handlers from waiting at once.
In `startup` two files are what an order needs and three limits tell the default,
a file's and the other's apart; the behaviours are not bounded.  `install_config`
is the one run that counts: `MaxRuns` lets a module be enabled, disabled in an aborted run,
asked for again and taken over by another request; its theorems are for any number of runs,
any requests and any system, so that what the run adds is the mutants.

Fairness.  GLib dispatches a source that is due, a callback that was called runs
on, `check_call` ends and time passes: weak fairness of `Dispatch`, `MainStep` and
`TimePasses`.  A failed transfer counts as a step; that not all of them fail is
the bound `MaxErrors`, not fairness.  In `Daemon`, the supervisor restarts the
service and the process gets on (`Startup`), CPython runs a pending
handler (`Handle`), the loop ends when told (`LeaveLoop`), the HAT acts
(`Hat`).  In `HttpServer`, asyncio runs its tasks, the programs that were started
do their work and the system halts (`RunTask`, `SetAlarm`, `BeginHalt`,
`Halted`); a client need never send its body.  In the module `Startup`, `Main` is the
supervisor, which restarts what has ended, and a process that gets on.
`PathLeftAlone` in `ComesUp` is a condition of the property and not fairness: others
might change the path between every two calls, forever.  Nothing is assumed of faults, the
supply, the settings or the user.

No run turns the deadlock check off: the surroundings never stop.

### Where code and documentation disagree

1. `core_timer_finding`: `check_call` raises `CalledProcessError` when `poweroff`
   exits with an error; `except OSError` does not catch it, and "always keep the
   timer alive" (`state_machine.py:155`) fails.  The HAT has been told, so it is
   the HAT that ends the blackout (`NeverAbandoned`).
2. `device_protocol_finding`: `factory` gives the final object the versions its
   probe has read, so `_set_firmware_version` is not called on it and firmware
   2 is spoken to in the byte protocol that `__init__` calls the "default"
   (`i2c.py:34`).
3. `http_sleep_finding`: `post_sleep` refuses `delay < 0` (`server.py:95`) with the message
   "delay must be positive" (`server.py:96`).  `shrpi sleep 0` is accepted and answered with a
   wake-up time; `rtcwake` refuses it unnoticed, and the Pi sleeps without an alarm, although
   "the onboard real-time clock can be set to boot the Raspberry Pi at a specific time"
   (`README.md:106`).  The run has everything else on its side (programs in order, `rtcwake`
   working, a body that may come at once); a body without a time (`server.py:77`, against the
   message at 86), one that comes after its own date, and `shutdown` winning against `rtcwake`
   (`server.py:103,110` start both and wait for neither) end the same way.
4. `startup_write_finding`: `handle_changed_value` (`state_machine.py:112`) only logs what is
   written to `/BlackoutTimeLimit`.  The comment above it says that "Values changed in the GUI
   need to be updated in the settings" (`state_machine.py:106-107`); D-Bus then shows a limit
   that the ticks do not use.  (The GUI's own page is bound to the setting and works.)

Conditions that properties state, because the code does not hold without them:

* `CommitJustified`, `TellInTime`, `CountdownHonest`, `PolicyKept` need a clock that is not set
  (`ClockSteps = {}`).  The blackout is measured with `time.time()`
  (`state_machine.py:127,133`), so a clock set forward, as GPS or NTP does on
  a boat, shortens the grace period.  `ShownBeforeCommit` is what is left.
* In `Daemon`, `CommitJustified`, `ShownBeforeCommit` and `PublishedCoherent` need a `cleanup` that does not fail inside
  a tick (`"handler"` not in `Faults`).  Failing between a good reading and the
  comparison that would use it, it makes `check_state` drop the reading, and a blackout goes on counting across
  the recovery; failing between a change of the state and its
  publication, it leaves the change unannounced.
* `PromiseKept` needs a clock that is not set, as `PolicyKept` does.
* `WatchdogAsAsked` is about timeouts that the register can hold.  Beyond it
  the number is cut, and 25.6 s with firmware 1 or 65.536 s with firmware 2
  write 0, which disables the watchdog, as does anything below one step.
* `ThresholdAsAsked` is about thresholds below full scale: full scale itself
  is cut to 0.
* `ExitDisarms` needs that no SIGTERM hits the START tick ("first tick" not in
  `Faults`): there `cleanup` disarms the watchdog, the tick goes on and arms it
  (`state_machine.py:122`), and the process exits.  The comment at
  `daemon.py:170` says what `cleanup` is for; `ExitDisarmsLater` has the exception.
* `StopObeyed` needs that no SIGTERM arrives between the installation of the handlers and
  the main loop ("early"): `stop` finds no loop to quit (`state_machine.py:70`) and
  the order is forgotten.
* `PoweroffOnce` is about one process.  After a crash, or a command that fails, the next process
  counts its own grace period and, if the supply is still low, runs the command again, also on a Pi
  that is already halting; through restarts the property needs a `cleanup` that does not fail
  in the middle of the command, after which the same process asks again.
* `NoSpuriousReset` needs a process that does not crash: until the next one
  has imported its libraries nobody feeds the watchdog.  `ResetOnlyUnguarded` holds through crashes.
* `ComesUp` needs a socket path that others leave alone while a start looks at it, in
  addition to a way that is free: otherwise each start may find the path changed under it and end.
* `RetryConverges` is about runs that end with I2C switched on: one in which `lua` or `mv` fails in
  `do_i2c` says DONE without it.
* `OneCopy` and `RequestHolds` start from a system with one copy of each line and none
  in the form `# line`, as images are shipped: `enable_config_line` does not uncomment
  that form and does not add the line either.

Seen while modelling, each at its line in `hazards` or here:

* On version 1, a clock that was disabled and is enabled again before the next boot
  is skipped: its driver still holds the chip (`install_configs.sh:525`).
* `--disable CAN` on version 1 calls `disable_overlay`, which is not defined
  (`install_configs.sh:584`): the run ends there.
* The image's overlay directory is tested for, but nothing says so when it is not there
  (`install_configs.sh:565`): CAN is then enabled without the two overlays it needs.
* SPI stays on when CAN and RS485 are disabled in two runs, although neither is
  enabled ("Enable SPI only if ...", `install_configs.sh:554`).
* When `lua` fails in `do_i2c`, `config.txt` is replaced by an empty file and
  the run goes on; when `mv` fails, I2C stays off and the run goes on
  (`install_configs.sh:72,104`).
* `-n`, "Dry run", is parsed and never handed to `StateMachine`
  (`daemon.py:84,167`).
* The README's way to set the limit in the configuration file
  ("The configuration keys are the same as daemon command line arguments",
  `README.md:148`, with `blackout-time-limit: 10` at 152-154) sets an attribute that nobody
  reads, and a limit that is already stored outranks the file in any spelling.
* A start looks at the socket path with four system calls (`daemon.py:135-149`) and removes what is
  there by the last of them: a path that is replaced in between loses what replaced it.
  `cleanup` removes whatever is at the path without a look (`daemon.py:172-173`).

## 4. Proofs

`StateMachineProofs` proves, for all constants that satisfy the assumptions of
`StateMachine`:

| Theorem | Property | Condition |
|---|---|---|
| `TypeCorrect` | `TypeOK` | |
| `PoweroffAtMostOnce` | `PoweroffOnce` | |
| `WatchedOrHandedOver` | `NeverAbandoned` | |
| `GraceNotCutShort` | `CommitJustified` | `ClockSteps = {}` |
| `CountdownKept` | `CountdownHonest` | `ClockSteps = {}` |
| `WatchdogAlwaysFed` | `WatchdogFed` | the lost ticks fit into the timeout |
| `ToldInTime` | `TellInTime` | `ClockSteps = {}` |
| `PublishedAlwaysCoherent` | `PublishedCoherent` | |
| `NeverWithoutNotice` | `ShownBeforeCommit` | |
| `Refinement` | `PolicyKept` | `ClockSteps = {}` |

None of the properties is inductive.  The strengthenings, in the order in which they
rest on one another:

* `BranchInv` ties the places in `check_state` to the states in which they are
  reached, and a lost timer to a HAT that was told.  It is the part that restarts keep.
* `HandOverInv` adds what one process keeps: `told` goes with `SHUTDOWN`, and `poweroffs`
  with the place behind the call.
  That the command runs once needs it: `SHUTDOWN` is re-entered after every
  failed tick, but not after a command that succeeded or a lost timer.
* `CountdownInv` says that `promised` is at most what is left of the limit, `GraceInv` that in a
  blackout `dark` is at least `elapsed` up to the point where it saturates.
  They are where the undisturbed clock is needed: only then do the age the code
  computes and the real one move together.
* `FedInv` bounds `silent` by `Period` per failed tick plus how far the current
  tick is, place by place: every tick that does not fail has made a transfer.
* `DeadlineInv` bounds `elapsed` in the same way while a blackout counts, and
  from the commitment to the request: a tick that completes after the limit
  decides, one that fails costs a `Period` and uses up one of `MaxErrors`.
* `CoherenceInv` says what D-Bus shows while a tick is under way; with it
  `ShownBeforeCommit` needs no assumption on the clock.

Each has one lemma for a step, with one case per action.  `Refinement` holds for
both values of `DryRun`, where the run has one.  The refinement maps
each action to the step of `BlackoutPolicy` of that name, all others to
stuttering, `TimePasses` under `DeadlineInv`.

`DaemonProofs` proves, for any faults, signals, crashes and restarts, however many:

| Theorem | Property | Condition |
|---|---|---|
| `DaemonTyped` | `DaemonTypeOK` | |
| `ExitLeavesDisarmed` | `ExitDisarmsLater` | |
| `ExitAlwaysDisarms` | `ExitDisarms` | no signal in the START tick |
| `NeverResetInVain` | `NoSpuriousReset` | no crash, no signal in the START tick, the lost ticks fit into the timeout |

A tick here is a tick of `StateMachine`, so its lemmas are cited and not repeated;
what the rest of the process does to the machine is one case per action.
`ExitInv` says that a handler that has disarmed the watchdog, and a loop that was told to quit,
leave no tick behind that could still arm it; `CalmInv` strengthens it for the
case without the exception.  `AliveInv` carries `FedInv` and `Minded` (half of
`HandOverInv`) from `StateMachineProofs` through restarts: an armed watchdog has
a running loop with a live timer behind it, or the HAT was told.

`RestartProofs`, under the same faults, signals, crashes and restarts:

| Theorem | Property | Condition |
|---|---|---|
| `CountdownThroughRestarts` | `CountdownHonest` | `ClockSteps = {}` |
| `GraceThroughRestarts` | `CommitJustified` | `ClockSteps = {}`, `cleanup` does not fail |
| `ToldInTimeThroughRestarts` | `TellInTime` | `ClockSteps = {}` |
| `ResetsOnlyUnguarded` | `ResetOnlyUnguarded` | the lost ticks fit into the timeout |
| `NoticeThroughRestarts` | `PublishedCoherent`, `ShownBeforeCommit` | `cleanup` does not fail |
| `PoweroffOnceThroughRestarts` | `PoweroffOnce` | `cleanup` does not fail |
| `PromiseAlwaysKept` | `PromiseKept` | `ClockSteps = {}` |

To the machine of `StateMachine` a step of `Daemon` is one of six kinds
(`KindsOfStep`): one of its own steps or none; a transfer beside it; the end of the
process; a new timer; a boot; a `cleanup` that fails in a tick.  For the first the step lemmas of
`StateMachineProofs` are cited, and the other five are a line each.  Those lemmas
rest on `BranchInv` (which places go with which states) and not on `HandOverInv`: a
restart after the HAT was told, or a failing `cleanup`, breaks what `HandOverInv` says of one
process, but not that.  `CountdownInv` is apart from `GraceInv` for the same
reason: the countdown is kept under faults under which the grace period is not.
`FreshInv` says what a new process starts from: a machine in `START`, and a Pi that is on its way
down only if the HAT was told.  `SoundInv` is all of it together.  `OnceInv` is what restarts and
crashes keep of `HandOverInv`: the count goes with the place behind the call.

`ResetsOnlyUnguarded` is what is left of `NoSpuriousReset` when processes do crash and signals hit the START
tick.  A new process finds an armed watchdog that may be about to expire and owes it nothing until it
has armed it again: `GuardedInv` asks for `FedInv` from there on only.  That the bound
holds when the START tick ends is `HeardInv`: a tick past its first read has just been
heard, whatever was before.

The refinement takes each step to the step of `RestartPolicy` of that name: the end of
a process to `Forget` or, when the HAT was told, to nothing; `PiSteps` are those
that change `pi`; `TimePasses` is `Count` under `DeadlineInv`, and
`FreshInv` is what makes a boot end in `watching`.

`StartupProofs`, for any files, contents and command lines:

| Theorem | Property |
|---|---|
| `StartupTyped` | `StartupTypeOK` |
| `LastWordAlwaysWins` | `LastWordWins` |
| `LimitInForce` | a daemon that serves has a limit in use, and the first one stored is `LastWord` |

`ReadInv` says that after `read` files the parser's default is the limit of the
last of them that names one (`LastOf`).  That there is a last one, which `LastWord`
chooses, is the well-foundedness of the natural numbers.  `LimitInForce` (`InForceInv`) is
what `StateMachine` takes for granted of `setting`.

`SHRPiDeviceProofs`, for any boards that `HatAssumption` allows and any timeouts,
thresholds and levels:

| Theorem | Property |
|---|---|
| `WatchdogKept` | `WatchdogAsAsked` |
| `DeviceTyped` | `DeviceTypeOK` |
| `ThresholdKept` | `ThresholdAsAsked` |

`WatchdogInv` says where the register's content comes from: the ms or the
tenths of a second of the last timeout that was asked, according to the
firmware.  It is inductive because class and firmware agree on every board
(`HatAssumption`: version 2 boards have firmware 2), which is what
`MCSHRPiDevice` and the mutant `SpeaksWordsByBoard` probe from the other side.
`DeviceInv` adds that the object given out speaks bytes, and that whatever the HAT makes of a
transfer fits into the register (`BytesFit`, `WordsFit`).  `ThresholdInv` says the
same of thresholds as `WatchdogInv` of the timeout, with firmware 1, the only one whose protocol
the object speaks.  The arithmetic is in lemmas of its own: 16 bits come
through `i2c_write_word` unchanged (`WordFits`), 25.5 s fit into a byte of tenths
(`TenthsFit`), the ms are the timeout or one less (`MillisFit`), two divisions
that round down lose less than 12 mV (`ThresholdRead`).

`HttpServerProofs`, for any clients, bodies and delays:

| Theorem | Property | Condition |
|---|---|---|
| `ServerTyped` | `ServerTypeOK` | |
| `HaltAlwaysAnnounced` | `HaltAnnounced` | |

`ServerInv` types the queues.  `HaltInv`: until the HAT is told, all that is
queued or started sets alarms.  It is why the order of the two `create_task` calls around
`request_sleep` in `post_sleep` matters: the one before may be left behind by an `OSError`, the one
after may not.

`InstallConfigsProofs`, for any boards and requests and any number of runs:

| Theorem | Property | Condition |
|---|---|---|
| `InstallTyped` | `InstallTypeOK` | |
| `RetryAlwaysConverges` | `RetryConverges` | |
| `OthersAlwaysUntouched` | `OthersUntouched` | |
| `OneCopyKept` | `OneCopy` | no second copies to begin with |
| `RequestAlwaysHolds` | `RequestHolds` | in addition, no line in the form `# line` |
| `BusWithItsOverlays` | `SpiWithItsUsers` | as before |

`ProgressInv` is the argument for retries: what the edits still to come make of the
system is what the whole plan would have made of it.  It rests on three facts:
a plan edits no entry twice (`Distinct`), every edit made twice is made once
(`DoTwice`), and a plan does not depend on what it edits, which is why the mutant
`RtcPartIfNew` breaks `RetryConverges`.  `SpiInv` adds that a request which leaves SPI
alone makes no overlay active (`BusKept`); the other requests either switch SPI on
or have both overlays off at the end.

Only model-checked: the liveness properties (`LowPowerHandsOff`,
`RecoveryHonoured`, `StopObeyed`, `BlackoutSurvivesRestart`,
`HandedOverInFull`, `ComesUp`), which TLAPS cannot do.  Every invariant and every
action property of a passing run is stated by a theorem.

## 5. Not modelled

* Inside the models: the payload of `/CurrentIn`; a D-Bus call that fails; a
  signal that arrives while `cleanup` runs; `OSError` from `cleanup` exactly
  at the entry of the callback or inside the `except` body, where it leaves the
  callback; the removal of the socket in `cleanup` (nothing creates it
  since the server is not started).  The HAT's firmware, `supervise` and GLib
  are external and modelled as the code uses them.
* In `HttpServer`: a poweroff command that fails, which leaves the HAT told and
  the Pi up (`BeginHalt` is fair); the permissions of the socket; the client's
  printed table.
* In `Startup`: the options but one; limits outside the GUI's range of 1 to 600 s, which
  the settings service would refuse or cut; the names of socket and group as options.
* In `InstallConfigs`: the dialogs, beyond that they give one answer to a module; files
  copied next to the configuration (`dtbo`, `hwclock-set`, `can0`) are there or not.
* Not to be modelled: the package installers and the Makefile (straight-line copies and
  downloads), device-tree overlays, Docker and CI files, `colorsys.py` (from the
  standard library), `example.py` and its test (the project template's).

## 6. Plan

Done, in this order: the state machine with its policy and proofs, the process
around it, the driver, the HTTP server with its client, start-up with settings
and GUI, the boot configuration, the proofs of every safety property the runs check, and
`Daemon` as a refinement of a policy that survives restarts.

Open: `HttpServer` with a
poweroff command that fails.
