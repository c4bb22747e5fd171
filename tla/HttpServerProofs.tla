-------------------------- MODULE HttpServerProofs --------------------------
(***************************************************************************)
(* Theorems about HttpServer, for any number of clients, any bodies and,   *)
(* where nothing else is said, programs that run in any order.             *)
(***************************************************************************)
EXTENDS HttpServer, SequenceTheorems, TLAPS

-----------------------------------------------------------------------------
(* Sequences of jobs.                                                      *)

Jobs == [cmd : {"rtcwake", "halt", "poweroff"}, at : Int]
Alarms == {j \in Jobs : j.cmd = "rtcwake"}

\* Taking an element out leaves a sequence of the others.
LEMMA Removed ==
    ASSUME NEW S, NEW s \in Seq(S), NEW i \in 1 .. Len(s)
    PROVE  RemoveAt(s, i) \in Seq(S)
<1>1. Len(s) \in Nat /\ \A j \in 1 .. Len(s) : s[j] \in S
  BY LenProperties, ElementOfSeq
<1>2. SubSeq(s, 1, i - 1) \in Seq(S)
  <2>1. i - 1 \in Int /\ \A j \in 1 .. i - 1 : s[j] \in S
    BY <1>1
  <2> QED
    BY <2>1, SubSeqProperties
<1>3. SubSeq(s, i + 1, Len(s)) \in Seq(S)
  <2>1. i + 1 \in Int /\ Len(s) \in Int /\ \A j \in i + 1 .. Len(s) : s[j] \in S
    BY <1>1
  <2> QED
    BY <2>1, SubSeqProperties
<1> QED
  BY <1>2, <1>3, ConcatProperties DEF RemoveAt

\* What a sleep request appends when it is accepted, and when the HAT fails.
LEMMA Appended ==
    ASSUME NEW S, NEW s \in Seq(S), NEW x \in S, NEW y \in S
    PROVE  /\ (s \o <<x>>) \o <<y>> \in Seq(S)
           /\ s \o <<x>> \in Seq(S)
           /\ s \o <<x>> = Append(s, x)
           /\ (s \o <<x>>) \o <<y>> = Append(Append(s, x), y)
  OBVIOUS

\* Nothing is a sequence of anything.
LEMMA NoJobs == << >> \in Seq(Jobs) /\ << >> \in Seq(Alarms)
  BY EmptySeq

\* An alarm is a job.
LEMMA AlarmsAreJobs == \A s \in Seq(Alarms) : s \in Seq(Jobs)
  BY SeqMonotonic DEF Alarms

-----------------------------------------------------------------------------
(* Typing.                                                                 *)

Requests ==
    {r \in [stage : {"none", "sleep", "put", "led", "answered"},
            age : 0 .. MaxBodyWait, status : {0, 204, 400, 404, 500}] :
        r.status # 0 <=> r.stage = "answered"}

ServerInv ==
    /\ alarm \in Int /\ alarm >= NoAlarm
    /\ conn \in [Clients -> Requests]
    /\ tasks \in Seq(Jobs) /\ procs \in Seq(Jobs)
    /\ os \in {"up", "poweroff", "halt", "off"}
    /\ told \in {"no", "shutdown", "sleep"}
    /\ halting \in 0 .. MaxHalt
    /\ os = "off" => tasks = << >> /\ procs = << >>

\* A request that has not been made is one.
LEMMA NoRequestTyped == NoRequest \in Requests
  BY ServerAssumption DEF NoRequest, Requests

\* The server starts with nothing to do.
LEMMA InitServer == ServerInit => ServerInv
  BY NoRequestTyped, NoJobs, ServerAssumption DEF ServerInit, ServerInv, NoAlarm

\* A request is answered, or waits for its body, in its type.
LEMMA Answered ==
    ASSUME conn \in [Clients -> Requests], NEW c \in Clients,
           NEW status \in {204, 400, 404, 500}, Answer(c, status)
    PROVE  conn' \in [Clients -> Requests]
<1>1. [stage |-> "answered", age |-> 0, status |-> status] \in Requests
  BY ServerAssumption DEF Requests
<1> QED
  BY <1>1 DEF Answer

LEMMA Awaited ==
    ASSUME conn \in [Clients -> Requests], NEW c \in Clients,
           NEW stage \in {"sleep", "put", "led"}, Await(c, stage)
    PROVE  conn' \in [Clients -> Requests]
<1>1. [stage |-> stage, age |-> 0, status |-> 0] \in Requests
  BY ServerAssumption DEF Requests
<1> QED
  BY <1>1 DEF Await

\* The handler makes a time out of every body that it accepts.
LEMMA WakeTimeTyped ==
    ASSUME NEW body \in Bodies, NEW age \in Int, NEW t \in WakeTimes(body, age)
    PROVE  Rtcwake(t) \in Alarms
<1>1. body.value \in Int
  BY ServerAssumption DEF Bodies, SleepBody
<1>2. t \in Int
  BY <1>1 DEF WakeTimes
<1> QED
  BY <1>2 DEF Rtcwake, Alarms, Jobs

\* What an accepted sleep request leaves for the loop.
LEMMA SleepTasks ==
    ASSUME ServerInv, NEW c \in Clients, NEW body \in Bodies,
           NEW t \in WakeTimes(body, conn[c].age)
    PROVE  /\ Rtcwake(t) \in Alarms /\ Rtcwake(t) \in Jobs /\ Halt \in Jobs
           /\ tasks \o TasksBefore(t) = Append(tasks, Rtcwake(t))
           /\ tasks \o TasksBefore(t) \o TasksAfter
                = Append(Append(tasks, Rtcwake(t)), Halt)
<1>1. conn[c].age \in Int
  BY ServerAssumption DEF ServerInv, Requests
<1>2. Rtcwake(t) \in Alarms
  BY <1>1, WakeTimeTyped
<1>3. Rtcwake(t) \in Jobs /\ Halt \in Jobs
  BY <1>2 DEF Alarms, Jobs, Halt
<1>4. tasks \in Seq(Jobs)
  BY DEF ServerInv
<1>5. TasksBefore(t) = <<Rtcwake(t)>> /\ TasksAfter = <<Halt>>
  BY DEF TasksBefore, TasksAfter
<1>6. /\ tasks \o <<Rtcwake(t)>> = Append(tasks, Rtcwake(t))
      /\ (tasks \o <<Rtcwake(t)>>) \o <<Halt>>
           = Append(Append(tasks, Rtcwake(t)), Halt)
  BY <1>3, <1>4, Appended
<1> QED
  BY <1>2, <1>3, <1>5, <1>6

\* A program that works leaves the others.
LEMMA Worked ==
    ASSUME NEW S, procs \in Seq(S), NEW i \in 1 .. Len(procs), NEW cmd, Works(i, cmd)
    PROVE  procs' \in Seq(S) /\ procs[i] \in S /\ os # "off"
  BY Removed, ElementOfSeq DEF Works

\* Every handler, the loop, the programs, the clock and the HAT keep the types.
LEMMA StepServer == ServerInv /\ [ServerNext]_allVars => ServerInv'
<1> SUFFICES ASSUME ServerInv, [ServerNext]_allVars
             PROVE  ServerInv'
  OBVIOUS
<1>t. /\ conn \in [Clients -> Requests] /\ tasks \in Seq(Jobs) /\ procs \in Seq(Jobs)
      /\ alarm \in Int /\ alarm >= -1 /\ halting \in 0 .. MaxHalt /\ MaxHalt \in Nat
      /\ MaxBodyWait \in Nat
  BY ServerAssumption DEF ServerInv, NoAlarm
<1>c. ASSUME conn' \in [Clients -> Requests], UNCHANGED <<alarm, tasks, procs, os, told, halting>>
      PROVE  ServerInv'
  BY <1>c DEF ServerInv
<1>1. ASSUME NEW c \in Clients,
             PostShutdownFails(c) \/ PostSleep(c) \/ SleepRefused(c)
               \/ PutConfigKey(c) \/ PutNumber(c) \/ PutRefused(c)
      PROVE  ServerInv'
  <2>1. UNCHANGED <<alarm, tasks, procs, os, told, halting>>
    BY <1>1 DEF PostShutdownFails, PostSleep, SleepRefused, PutConfigKey, PutNumber,
                PutRefused
  <2>2. \/ \E status \in {204, 400, 404, 500} : Answer(c, status)
        \/ \E stage \in {"sleep", "put", "led"} : Await(c, stage)
    BY <1>1 DEF PostShutdownFails, PostSleep, SleepRefused, PutConfigKey, PutNumber,
                PutRefused
  <2>3. conn' \in [Clients -> Requests]
    BY <1>t, <2>2, Answered, Awaited
  <2> QED
    BY <1>c, <2>1, <2>3
<1>2. ASSUME NEW c \in Clients, PostShutdown(c)
      PROVE  ServerInv'
  <2>1. Poweroff \in Jobs
    BY DEF Poweroff, Jobs
  <2>2. tasks' \in Seq(Jobs)
    BY <1>2, <1>t, <2>1 DEF PostShutdown
  <2>3. conn' \in [Clients -> Requests]
    BY <1>2, <1>t, Answered DEF PostShutdown
  <2> QED
    BY <1>2, <2>2, <2>3 DEF PostShutdown, Arrives, ServerInv
<1>3. ASSUME NEW c \in Clients, SleepAccepted(c)
      PROVE  ServerInv'
  <2>1. PICK body \in Bodies : \E t \in WakeTimes(body, conn[c].age) :
          tasks' = tasks \o TasksBefore(t) \o TasksAfter
    BY <1>3 DEF SleepAccepted
  <2>w. PICK wake \in Jobs : tasks' = Append(Append(tasks, wake), Halt)
    BY <2>1, SleepTasks
  <2>h. Halt \in Jobs
    BY DEF Halt, Jobs
  <2>2. tasks' \in Seq(Jobs)
    BY <1>t, <2>w, <2>h
  <2>3. conn' \in [Clients -> Requests]
    BY <1>3, <1>t, Answered DEF SleepAccepted
  <2> QED
    BY <1>3, <2>2, <2>3 DEF SleepAccepted, BodyComes, ServerInv
<1>4. ASSUME NEW c \in Clients, SleepFails(c)
      PROVE  ServerInv'
  <2>1. PICK body \in Bodies : \E t \in WakeTimes(body, conn[c].age) :
          tasks' = tasks \o TasksBefore(t)
    BY <1>4 DEF SleepFails
  <2>w. PICK wake \in Jobs : tasks' = Append(tasks, wake)
    BY <2>1, SleepTasks
  <2>2. tasks' \in Seq(Jobs)
    BY <1>t, <2>w
  <2>3. conn' \in [Clients -> Requests]
    BY <1>4, <1>t, Answered DEF SleepFails
  <2> QED
    BY <1>4, <2>2, <2>3 DEF SleepFails, BodyComes, ServerInv
<1>5. CASE RunTask
  <2>1. Head(tasks) \in Jobs /\ Tail(tasks) \in Seq(Jobs)
    BY <1>5, <1>t, HeadTailProperties DEF RunTask
  <2>2. procs' \in Seq(Jobs) /\ tasks' \in Seq(Jobs)
    BY <1>5, <1>t, <2>1 DEF RunTask
  <2> QED
    BY <1>5, <2>2 DEF RunTask, ServerInv
<1>6. CASE SetAlarm
  <2>1. PICK i \in 1 .. Len(procs) :
          /\ Works(i, "rtcwake")
          /\ alarm' = alarm \/ (procs[i].at > 0 /\ alarm' = procs[i].at)
    BY <1>6 DEF SetAlarm
  <2>2. procs' \in Seq(Jobs) /\ procs[i] \in Jobs /\ os # "off"
    BY <1>t, <2>1, Worked
  <2>3. procs[i].at \in Int
    BY <2>2 DEF Jobs
  <2>4. alarm' \in Int /\ alarm' >= -1
    BY <1>t, <2>1, <2>3
  <2> QED
    BY <1>6, <2>2, <2>4 DEF SetAlarm, ServerInv, NoAlarm
<1>7. CASE BeginHalt
  <2>1. PICK cmd \in {"poweroff", "halt"}, i \in 1 .. Len(procs) :
          Works(i, cmd) /\ os' = IF os = "up" THEN cmd ELSE os
    BY <1>7 DEF BeginHalt
  <2>2. procs' \in Seq(Jobs) /\ os # "off"
    BY <1>t, <2>1, Worked
  <2>3. os' \in {"up", "poweroff", "halt"}
    BY <2>1, <2>2 DEF ServerInv
  <2> QED
    BY <1>7, <2>2, <2>3 DEF BeginHalt, ServerInv
<1>8. CASE Halted
  BY <1>8, <1>t, NoRequestTyped, NoJobs DEF Halted, ServerInv
<1>9. CASE Wake
  BY <1>9 DEF Wake, ServerInv
<1>10. CASE Second
  <2>1. halting' \in 0 .. MaxHalt
    BY <1>10, <1>t DEF Second
  <2>2. alarm' \in Int /\ alarm' >= -1
    BY <1>10, <1>t DEF Second, NoAlarm
  <2>3. ASSUME NEW c \in Clients, conn[c].stage = "sleep"
        PROVE  [conn[c] EXCEPT !.age = @ + 1] \in Requests
    BY <1>10, <1>t, <2>3 DEF Second, Requests
  <2>4. conn' \in [Clients -> Requests]
    BY <1>10, <1>t, <2>3 DEF Second
  <2> QED
    BY <1>10, <2>1, <2>2, <2>4 DEF Second, ServerInv, NoAlarm
<1>11. CASE UNCHANGED allVars
  BY <1>11 DEF allVars, serverVars, ServerInv
<1> QED
  BY <1>1, <1>2, <1>3, <1>4, <1>5, <1>6, <1>7, <1>8, <1>9, <1>10, <1>11
     DEF ServerNext, Handlers

\* A handler answers once, as its last step, and a Pi that is off handles nothing,
\* for every body and however long it takes to come.
THEOREM ServerTyped == ServerSpec => []ServerTypeOK
<1>1. ServerInv => ServerTypeOK
  <2> SUFFICES ASSUME ServerInv PROVE ServerTypeOK
    OBVIOUS
  <2>1. \A c \in Clients :
          /\ conn[c].stage \in {"none", "sleep", "put", "led", "answered"}
          /\ conn[c].age \in 0 .. MaxBodyWait
          /\ conn[c].status \in {0, 204, 400, 404, 500}
          /\ conn[c].status # 0 <=> conn[c].stage = "answered"
    BY DEF ServerInv, Requests
  <2> QED
    BY <2>1 DEF ServerInv, ServerTypeOK
<1> QED
  BY <1>1, InitServer, StepServer, PTL DEF ServerSpec

-----------------------------------------------------------------------------
(* No halt unannounced.                                                    *)

\* As long as the HAT has been told nothing, alarms are all there is to be set.
HaltInv ==
    told = "no" => tasks \in Seq(Alarms) /\ procs \in Seq(Alarms) /\ os = "up"

\* The Pi starts up.
LEMMA InitHalt == ServerInit => HaltInv
  BY NoJobs DEF ServerInit, HaltInv

\* The task that halts the Pi is created only behind the call that tells the HAT.
LEMMA StepHalt == ServerInv /\ HaltInv /\ [ServerNext]_allVars => HaltInv'
<1> SUFFICES ASSUME ServerInv, HaltInv, [ServerNext]_allVars, told' = "no"
             PROVE  tasks' \in Seq(Alarms) /\ procs' \in Seq(Alarms) /\ os' = "up"
  BY DEF HaltInv
<1>k. ASSUME told = "no"
      PROVE  tasks \in Seq(Alarms) /\ procs \in Seq(Alarms) /\ os = "up"
  BY <1>k DEF HaltInv
<1>1. ASSUME NEW c \in Clients,
             PostShutdownFails(c) \/ PostSleep(c) \/ SleepRefused(c)
               \/ PutConfigKey(c) \/ PutNumber(c) \/ PutRefused(c)
      PROVE  UNCHANGED <<tasks, procs, os, told>>
  BY <1>1 DEF PostShutdownFails, PostSleep, SleepRefused, PutConfigKey, PutNumber,
              PutRefused
<1>2. ASSUME NEW c \in Clients
      PROVE  ~PostShutdown(c) /\ ~SleepAccepted(c)
  BY DEF PostShutdown, SleepAccepted
<1>3. ASSUME NEW c \in Clients, SleepFails(c)
      PROVE  tasks' \in Seq(Alarms) /\ procs' \in Seq(Alarms) /\ os' = "up"
  <2>1. told = "no" /\ procs' = procs /\ os' = os
    BY <1>3 DEF SleepFails
  <2>2. PICK body \in Bodies : \E t \in WakeTimes(body, conn[c].age) :
          tasks' = tasks \o TasksBefore(t)
    BY <1>3 DEF SleepFails
  <2>3. PICK wake \in Alarms : tasks' = Append(tasks, wake)
    BY <2>2, SleepTasks
  <2> QED
    BY <1>k, <2>1, <2>3
<1>4. CASE RunTask
  <2>1. told = "no" /\ os' = os /\ tasks # << >>
        /\ procs' = Append(procs, Head(tasks)) /\ tasks' = Tail(tasks)
    BY <1>4 DEF RunTask
  <2>2. Head(tasks) \in Alarms /\ Tail(tasks) \in Seq(Alarms)
    BY <1>k, <2>1, HeadTailProperties
  <2> QED
    BY <1>k, <2>1, <2>2
<1>5. CASE SetAlarm
  <2>1. told = "no" /\ os' = os /\ tasks' = tasks
    BY <1>5 DEF SetAlarm
  <2>2. PICK i \in 1 .. Len(procs) : Works(i, "rtcwake")
    BY <1>5 DEF SetAlarm
  <2> QED
    BY <1>k, <2>1, <2>2, Worked
<1>6. CASE BeginHalt
  <2>1. told = "no"
    BY <1>6 DEF BeginHalt
  <2>2. PICK cmd \in {"poweroff", "halt"}, i \in 1 .. Len(procs) : Works(i, cmd)
    BY <1>6 DEF BeginHalt
  <2>3. procs[i].cmd = cmd /\ procs[i] \in Alarms
    BY <1>k, <2>1, <2>2, Worked DEF Works
  <2> QED
    BY <2>3 DEF Alarms
<1>7. CASE Halted
  BY <1>7, <1>k DEF Halted, Halting
<1>8. CASE Wake
  BY <1>8, NoJobs DEF Wake, ServerInv
<1>9. CASE Second
  BY <1>9, <1>k DEF Second
<1>10. CASE UNCHANGED allVars
  BY <1>10, <1>k DEF allVars, serverVars
<1> QED
  BY <1>k, <1>1, <1>2, <1>3, <1>4, <1>5, <1>6, <1>7, <1>8, <1>9, <1>10
     DEF ServerNext, Handlers

\* Whatever fails, whatever order the programs run in: the Pi is never brought down
\* without the HAT having been told.
THEOREM HaltAlwaysAnnounced == ServerSpec => []HaltAnnounced
<1>1. HaltInv => HaltAnnounced
  BY DEF HaltInv, HaltAnnounced
<1> QED
  BY <1>1, InitServer, StepServer, InitHalt, StepHalt, PTL DEF ServerSpec
=============================================================================
