------------------------------ MODULE HttpServer ------------------------------
(***************************************************************************)
(* The HTTP server src/shrpi/server.py with its client src/shrpi/cli.py,   *)
(* on top of the driver.  The handlers run on one asyncio loop: a handler  *)
(* is atomic up to the `await' of its request's body, where other handlers *)
(* run, and the detached tasks that start rtcwake and shutdown.  What      *)
(* those programs do, the RTC and the waiting HAT are external.            *)
(*                                                                         *)
(* Times are relative to now: a time of day is how far ahead it is, and a  *)
(* handler's `now' how long ago it was taken.  GET handlers change         *)
(* nothing; they return, in one step, what the reading operators of        *)
(* SHRPiDevice give.                                                       *)
(***************************************************************************)
EXTENDS SHRPiDevice, SequencesExt

CONSTANTS
    Clients,
    Commands,    \* what they ask for: "shutdown", "sleep", "put"
    Texts,       \* arguments of the client's sleep command: [int, value]
    RawBodies,   \* bodies that other programs post to /sleep: [kind, value]
    MaxBodyWait, \* bound: how long after its head a request's body comes
    MaxHalt,     \* bound: how long the system takes to halt
    MaxTasks,    \* bound: no request comes while more tasks are under way
    InOrder,     \* programs do their work in the order they are started in
    RtcwakeMayFail \* rtcwake may exit without having set the alarm

BodyKinds == {"datetime", "baddatetime", "delay", "baddelay", "neither", "broken"}

ASSUME ServerAssumption ==
    /\ Commands \subseteq {"shutdown", "sleep", "put"}
    /\ Texts \subseteq [int : BOOLEAN, value : Int]
    /\ RawBodies \subseteq [kind : BodyKinds, value : Int]
    /\ MaxBodyWait \in Nat /\ MaxHalt \in Nat /\ MaxTasks \in Nat
    /\ InOrder \in BOOLEAN /\ RtcwakeMayFail \in BOOLEAN

VARIABLES
    alarm,  \* when the RTC's alarm rings, or NoAlarm
    conn,   \* each client's request
    tasks,  \* asyncio tasks that have not run yet, in their order
    procs,  \* programs that have been started and have not done their work
    os,     \* "up", on its way down by "poweroff" or "halt", or "off"
    told,   \* what the HAT was told last: "no", "shutdown" or "sleep"
    halting \* for how long the system has been on its way down

serverVars == <<alarm, conn, tasks, procs, os, told, halting>>
allVars == <<deviceVars, serverVars>>

NoAlarm == -1
Rtcwake(t) == [cmd |-> "rtcwake", at |-> t]
Halt == [cmd |-> "halt", at |-> 0]
Poweroff == [cmd |-> "poweroff", at |-> 0]

NoRequest == [stage |-> "none", age |-> 0, status |-> 0]

ServerInit ==
    /\ hat \in Hats
    /\ reg = [r \in Registers |-> 0]
    /\ making = "made"
    /\ dev = [hw |-> hat.hw, fw |-> hat.fw, analog |-> "byte"]
    /\ asked = [r \in Registers |-> NotAsked]
    /\ alarm = NoAlarm
    /\ conn = [c \in Clients |-> NoRequest]
    /\ tasks = <<>> /\ procs = <<>>
    /\ os = "up" /\ told = "no" /\ halting = 0

-----------------------------------------------------------------------------
(* Requests.                                                               *)

\* A client whose request has been answered may send another one.
Arrives(c, command) ==
    /\ os # "off"
    /\ command \in Commands
    /\ conn[c].stage \in {"none", "answered"}
    /\ Len(tasks) + Len(procs) < MaxTasks

\* The handler waits for the request's body ...
Await(c, stage) ==
    conn' = [conn EXCEPT ![c] = [stage |-> stage, age |-> 0, status |-> 0]]

\* ... which comes.
BodyComes(c, stage) == conn[c].stage = stage /\ os # "off"

AnswerGoesOn(c, status) == conn' = [conn EXCEPT ![c].status = status]
Answer(c, status) ==
    conn' = [conn EXCEPT ![c] = [stage |-> "answered", age |-> 0,
                                 status |-> status]]

PostShutdown(c) ==
    /\ Arrives(c, "shutdown")
    /\ told' = "shutdown"
    /\ tasks' = Append(tasks, Poweroff)
    /\ Answer(c, 204)
    /\ UNCHANGED <<deviceVars, alarm, procs, os, halting>>

\* request_shutdown() raises OSError.
PostShutdownFails(c) ==
    /\ Arrives(c, "shutdown")
    /\ Answer(c, 500)
    /\ UNCHANGED <<deviceVars, alarm, tasks, procs, os, told, halting>>

PostSleep(c) ==
    /\ Arrives(c, "sleep")
    /\ IF dev.fw = 1 THEN Answer(c, 400) ELSE Await(c, "sleep")
    /\ UNCHANGED <<deviceVars, alarm, tasks, procs, os, told, halting>>

\* What the client makes of the argument of its sleep command.
SleepBody(text) == [kind |-> IF text.int THEN "delay" ELSE "datetime",
                    value |-> text.value]

Bodies == RawBodies \cup {SleepBody(text) : text \in Texts}

\* The handler took the time before it waited for the body.
Acceptable(body, age) ==
    \/ body.kind = "datetime" /\ body.value >= -age
    \/ body.kind = "delay" /\ body.value >= 0
    \/ body.kind = "neither"

\* int() drops the fraction of a second of the date, or of the time taken before the
\* body came; without a time the timestamp is 0, long ago.
WakeTimes(body, age) ==
    CASE body.kind = "datetime" -> body.value - 1 .. body.value
      [] body.kind = "delay"    -> body.value - age - 1 .. body.value - age
      [] OTHER                  -> {-1}

SleepRefused(c) ==
    /\ BodyComes(c, "sleep")
    /\ \E body \in Bodies :
          /\ ~Acceptable(body, conn[c].age)
          /\ Answer(c, IF body.kind = "broken" THEN 500 ELSE 400)
    /\ UNCHANGED <<deviceVars, alarm, tasks, procs, os, told, halting>>

\* The tasks created before and after the HAT is told.
TasksBeforeBoth(t) == <<Rtcwake(t), Halt>>
TasksBefore(t) == <<Rtcwake(t)>>
TasksAfterNone == <<>>
TasksAfter == <<Halt>>

SleepAccepted(c) ==
    /\ BodyComes(c, "sleep")
    /\ \E body \in Bodies : \E t \in WakeTimes(body, conn[c].age) :
          /\ Acceptable(body, conn[c].age)
          /\ tasks' = tasks \o TasksBefore(t) \o TasksAfter
    /\ told' = "sleep"
    /\ Answer(c, 204)
    /\ UNCHANGED <<deviceVars, alarm, procs, os, halting>>

\* request_sleep() raises OSError.
SleepFails(c) ==
    /\ BodyComes(c, "sleep")
    /\ \E body \in Bodies : \E t \in WakeTimes(body, conn[c].age) :
          /\ Acceptable(body, conn[c].age)
          /\ tasks' = tasks \o TasksBefore(t)
    /\ Answer(c, 500)
    /\ UNCHANGED <<deviceVars, alarm, procs, os, told, halting>>

PutConfigKey(c) ==
    /\ Arrives(c, "put")
    /\ \E stage \in {"put", "led"} : Await(c, stage)
    /\ UNCHANGED <<deviceVars, alarm, tasks, procs, os, told, halting>>

\* A number that cannot be written is an exception, and so is one for the LED of
\* a board that has none: the firmware is checked, the board is not.
PutNumber(c) ==
    /\ \/ /\ BodyComes(c, "put")
          /\ \/ \E t \in Timeouts : set_watchdog_timeout(t)
             \/ \E r \in AnalogRegisters, v \in Thresholds : set_threshold(r, v)
       \/ /\ BodyComes(c, "led") /\ dev.fw # 1
          /\ \E n \in Levels : set_led_brightness(n)
    /\ Answer(c, 204)
    /\ UNCHANGED <<alarm, tasks, procs, os, told, halting>>

PutRefused(c) ==
    /\ \/ BodyComes(c, "put") /\ \E status \in {400, 404, 500} : Answer(c, status)
       \/ BodyComes(c, "led") /\ Answer(c, 400)
       \/ BodyComes(c, "led") /\ dev.fw # 1 /\ Answer(c, 500)
    /\ UNCHANGED <<deviceVars, alarm, tasks, procs, os, told, halting>>

-----------------------------------------------------------------------------
(* The loop, the programs, the HAT.                                        *)

RunTask ==
    /\ tasks # <<>> /\ os # "off"
    /\ procs' = Append(procs, Head(tasks))
    /\ tasks' = Tail(tasks)
    /\ UNCHANGED <<deviceVars, alarm, conn, os, told, halting>>

Works(i, cmd) ==
    /\ os # "off"
    /\ InOrder => i = 1
    /\ procs[i].cmd = cmd
    /\ procs' = RemoveAt(procs, i)

\* rtcwake -m no -t: a time that is not ahead is refused.  Nobody looks at its exit
\* status.
SetAlarm ==
    /\ \E i \in 1 .. Len(procs) :
          /\ Works(i, "rtcwake")
          /\ \/ procs[i].at > 0 /\ alarm' = procs[i].at
             \/ (procs[i].at > 0 => RtcwakeMayFail) /\ UNCHANGED alarm
    /\ UNCHANGED <<deviceVars, conn, tasks, os, told, halting>>

\* The first of the two commands that does its work brings the system down.
BeginHalt ==
    /\ \E cmd \in {"poweroff", "halt"}, i \in 1 .. Len(procs) :
          /\ Works(i, cmd)
          /\ os' = IF os = "up" THEN cmd ELSE os
    /\ UNCHANGED <<deviceVars, alarm, conn, tasks, told, halting>>

Halting == os \in {"poweroff", "halt"}

\* Whatever still runs is killed.
Halted ==
    /\ Halting
    /\ os' = "off" /\ halting' = 0
    /\ tasks' = <<>> /\ procs' = <<>>
    /\ conn' = [c \in Clients |-> NoRequest]
    /\ UNCHANGED <<deviceVars, alarm, told>>

\* The alarm wakes a HAT that was told to sleep, the crew one that was told to
\* shut down.
Wake ==
    /\ os = "off"
    /\ told = "sleep" => alarm = 0
    /\ os' = "up" /\ told' = "no"
    /\ UNCHANGED <<deviceVars, alarm, conn, tasks, procs, halting>>

\* The loop and the programs keep up with the clock, and a sleeping HAT does not
\* miss its alarm.
Second ==
    /\ tasks = <<>> /\ procs = <<>>
    /\ Halting => halting < MaxHalt
    /\ ~(os = "off" /\ told = "sleep" /\ alarm = 0)
    /\ \A c \in Clients : conn[c].stage = "sleep" => conn[c].age < MaxBodyWait
    /\ alarm' = IF alarm > 0 THEN alarm - 1 ELSE NoAlarm
    /\ halting' = IF Halting THEN halting + 1 ELSE 0
    /\ conn' = [c \in Clients |->
                   IF conn[c].stage = "sleep"
                   THEN [conn[c] EXCEPT !.age = @ + 1] ELSE conn[c]]
    /\ UNCHANGED <<deviceVars, tasks, procs, os, told>>

-----------------------------------------------------------------------------

Handlers ==
    \E c \in Clients :
       \/ PostShutdown(c) \/ PostShutdownFails(c)
       \/ PostSleep(c) \/ SleepRefused(c) \/ SleepAccepted(c) \/ SleepFails(c)
       \/ PutConfigKey(c) \/ PutNumber(c) \/ PutRefused(c)

ServerNext ==
    \/ Handlers
    \/ RunTask \/ SetAlarm \/ BeginHalt \/ Halted
    \/ Wake \/ Second

ServerSpec == ServerInit /\ [][ServerNext]_allVars

\* The loop runs its tasks, programs do their work, the system halts.
FairServerSpec ==
    /\ ServerSpec
    /\ WF_allVars(RunTask) /\ WF_allVars(SetAlarm)
    /\ WF_allVars(BeginHalt) /\ WF_allVars(Halted)

-----------------------------------------------------------------------------
(* Properties.                                                             *)

\* The types of the variables added here; a handler answers once, as its last step,
\* and a Pi that is off handles nothing.
ServerTypeOK ==
    /\ alarm >= NoAlarm
    /\ \A c \in Clients :
          /\ conn[c].stage \in {"none", "sleep", "put", "led", "answered"}
          /\ conn[c].age \in 0 .. MaxBodyWait
          /\ conn[c].status \in {0, 204, 400, 404, 500}
          /\ conn[c].status # 0 <=> conn[c].stage = "answered"
    /\ os \in {"up", "poweroff", "halt", "off"}
    /\ told \in {"no", "shutdown", "sleep"}
    /\ halting \in 0 .. MaxHalt
    /\ os = "off" => tasks = <<>> /\ procs = <<>>

\* "The onboard real-time clock can be set to boot the Raspberry Pi at a specific
\* time" (README): a Pi that a sleep request has brought down, and whose HAT sleeps,
\* has an alarm ahead.  The server accepts requests that leave it without one.
SleepWakes ==
    [][os = "halt" /\ os' = "off" /\ told = "sleep" => alarm > 0]_allVars

\* The Pi is never halted without the HAT having been told, so that the HAT waits
\* for it and takes the power away: no order of failures leaves a task behind that
\* halts it.
HaltAnnounced == os # "up" => told # "no"

\* Once the HAT has been told to shut down or sleep the Pi does halt: otherwise
\* the HAT would cut the power of a system that runs.
HandedOverInFull == told # "no" ~> os = "off"
=============================================================================
