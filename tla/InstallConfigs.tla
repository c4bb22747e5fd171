---------------------------- MODULE InstallConfigs ----------------------------
(***************************************************************************)
(* configs/install_configs.sh, which enables and disables parts of the HAT *)
(* in the boot configuration.                                              *)
(*                                                                         *)
(* A run of the script is a sequence of edits, drawn up from the request,  *)
(* the board and what i2cdetect sees.  Each edit changes one entry of the  *)
(* system; under `set -e' a command that fails ends the run and leaves the *)
(* edits before it.  An entry is the set of forms in which its line is     *)
(* found: "active", "commented" (#line), "spaced" (# line), "off" (set to  *)
(* off, or a service that is disabled).                                    *)
(***************************************************************************)
EXTENDS Integers, Sequences

CONSTANTS
    Shipped,  \* what the system may look like before the first run
    Requests, \* what a run may be asked for
    Hats,     \* the boards it may run on
    MaxRuns   \* bound: runs of the script in one behaviour

Modules == {"RTC", "CAN", "RS485", "MAX-M8Q"}

\* --enable and --disable may both name a module; a dialog gives one answer.
Answers == {"enable", "disable", "both", "skip"}

ConfigEntries == {"i2c_arm", "gpio-poweroff", "i2c-rtc", "spi", "mcp2515",
                  "sc16is752", "enable_uart", "disable-bt"}
OtherEntries == {"blacklist", "i2c-dev", "fake-hwclock", "hwclock-set", "spi0-3cs",
                 "mcp2515-can2", "can0", "hciuart", "console"}
Entries == ConfigEntries \cup OtherEntries

Forms == {"active", "commented", "spaced", "off"}
Systems == [Entries -> SUBSET Forms]

ASSUME InstallAssumption ==
    /\ Shipped \subseteq Systems
    /\ Requests \subseteq [Modules -> Answers]
    /\ Hats \subseteq [board : {0, 1, 2}, fitted : BOOLEAN, overlays : BOOLEAN]
    /\ MaxRuns \in Nat

VARIABLES
    system,   \* config.txt and the other files and services
    hat,      \* its major version, 0 where no SH-RPi answers; its clock chip; and
              \* whether the system has a directory of overlays
    bound,    \* the clock's driver was loaded at the last boot
    request,  \* what this run, or the last one since the boot, was asked for
    status,   \* of that run
    plan,     \* the edits it has still to make
    runs,     \* how many runs have been started
    goal,     \* history: the outcome of this request if nothing fails
    sound     \* history: it found every overlay with its bus

vars == <<system, hat, bound, request, status, plan, runs, goal, sound>>
hardware == <<hat, bound>>

NoRequest == [m \in Modules |-> "none"]

Ops == {"line on", "line off", "overlay on", "comment out", "on", "off", "gone",
        "fail"}
Edit(entry, op) == [entry |-> entry, op |-> op]

Active(entry) == "active" \in system[entry]

-----------------------------------------------------------------------------
(* The edits.  A definition named for a slip of the one that follows it is *)
(* one that the runs must catch.                                           *)

\* sed -i 's/^#\(line\)/\1/': only a # right before the line is taken away.
Uncommented(forms) == {IF f = "commented" THEN "active" ELSE f : f \in forms}
CommentedOut(forms) == {IF f = "active" THEN "commented" ELSE f : f \in forms}

\* A line that is there in whatever form is not added again.
EnableLineAppends(forms) == forms \cup {"active"}
EnableLineIfMissing(forms) == IF forms = {} THEN {"active"} ELSE forms
EnableLine(forms) == IF forms = {} THEN {"active"} ELSE Uncommented(forms)

\* One commented copy is taken for the whole.
DisableLine(forms) ==
    IF forms \cap {"commented", "spaced"} = {} THEN CommentedOut(forms) ELSE forms

DoOverlay(forms) == Uncommented(forms) \cup {"active"}

\* "on" and "off" are set_config_var, which rewrites every copy, and systemctl;
\* "on" and "gone" are files that are installed or removed.
Do(op, forms) ==
    CASE op = "line on"     -> EnableLine(forms)
      [] op = "line off"    -> DisableLine(forms)
      [] op = "overlay on"  -> DoOverlay(forms)
      [] op = "comment out" -> CommentedOut(forms)
      [] op = "on"          -> {"active"}
      [] op = "off"         -> {"off"}
      [] op = "gone"        -> {}
      [] OTHER              -> forms

-----------------------------------------------------------------------------
(* The parts of the script, for a request r.  Installing comes first in    *)
(* every if, so --enable outranks --disable.                               *)

Install(r, m)   == r[m] \in {"enable", "both"}
Uninstall(r, m) == r[m] \in {"disable", "both"}

Choose(r, m, on, off) ==
    IF Install(r, m) THEN on ELSE IF Uninstall(r, m) THEN off ELSE << >>

I2CPartMisspelt ==
    <<Edit("i2c_arm", "on"), Edit("blacklist", "comment out"), Edit("i2c_dev", "on")>>
I2CPart ==
    <<Edit("i2c_arm", "on"), Edit("blacklist", "comment out"), Edit("i2c-dev", "on")>>

\* i2cdetect shows UU in place of 68 once a driver has taken the DS3231; of the
\* PCF8563 the script knows both.
RtcSeen == hat.fitted /\ (hat.board = 1 => ~bound)

RtcInstall == <<Edit("fake-hwclock", "off"), Edit("hwclock-set", "on")>>
RtcUninstall == <<Edit("fake-hwclock", "on"), Edit("hwclock-set", "gone")>>

RtcPartIfNew(r) ==
    Choose(r, "RTC",
           IF RtcSeen /\ ~Active("i2c-rtc")
           THEN <<Edit("i2c-rtc", "line on")>> \o RtcInstall ELSE << >>,
           <<Edit("i2c-rtc", "line off")>> \o RtcUninstall)
RtcPartAlways(r) ==
    IF Install(r, "RTC") /\ RtcSeen THEN <<Edit("i2c-rtc", "line on")>> \o RtcInstall
    ELSE <<Edit("i2c-rtc", "line off")>> \o RtcUninstall
RtcPart(r) ==
    Choose(r, "RTC",
           IF RtcSeen THEN <<Edit("i2c-rtc", "line on")>> \o RtcInstall ELSE << >>,
           <<Edit("i2c-rtc", "line off")>> \o RtcUninstall)

\* "Enable SPI only if either the MCP2515 or the SC16IS752 are enabled"
SpiPartEither(r) ==
    IF Install(r, "CAN") \/ Install(r, "RS485") THEN <<Edit("spi", "on")>>
    ELSE IF Uninstall(r, "CAN") \/ Uninstall(r, "RS485") THEN <<Edit("spi", "off")>>
    ELSE << >>
SpiPart(r) ==
    IF Install(r, "CAN") \/ Install(r, "RS485") THEN <<Edit("spi", "on")>>
    ELSE IF Uninstall(r, "CAN") /\ Uninstall(r, "RS485") THEN <<Edit("spi", "off")>>
    ELSE << >>

\* Version 1 needs two overlays that no image has.
Dtbos == IF hat.overlays THEN <<Edit("spi0-3cs", "on"), Edit("mcp2515-can2", "on")>>
         ELSE << >>

\* disable_overlay, for version 1, is not defined: the shell ends with 127.
CanPart(r) ==
    Choose(r, "CAN",
           (IF hat.board = 1 THEN Dtbos \o <<Edit("mcp2515", "overlay on")>>
            ELSE <<Edit("mcp2515", "line on")>>) \o <<Edit("can0", "on")>>,
           <<Edit("mcp2515", IF hat.board = 1 THEN "fail" ELSE "line off"),
             Edit("can0", "gone")>>)

Rs485Part(r) ==
    Choose(r, "RS485", <<Edit("sc16is752", "line on")>>, <<Edit("sc16is752", "line off")>>)

\* The serial console is not given back.
GnssPart(r) ==
    Choose(r, "MAX-M8Q",
           <<Edit("enable_uart", "line on"), Edit("disable-bt", "line on"),
             Edit("hciuart", "off"), Edit("console", "gone")>>,
           <<Edit("enable_uart", "line off"), Edit("disable-bt", "line off"),
             Edit("hciuart", "on")>>)

\* Without a HAT the script exits once I2C is enabled.
Plan(r) ==
    I2CPart \o
    (IF hat.board = 0 THEN <<Edit("gpio-poweroff", "fail")>>
     ELSE <<Edit("gpio-poweroff", "line on")>> \o RtcPart(r) \o SpiPart(r)
              \o CanPart(r) \o Rs485Part(r) \o GnssPart(r))

\* What the edits of a plan make of the system s: no entry is edited twice.
Outcome(edits, s) ==
    [k \in Entries |->
        LET at == {i \in 1 .. Len(edits) : edits[i].entry = k} IN
        IF at = {} THEN s[k] ELSE Do(edits[CHOOSE i \in at : TRUE].op, s[k])]

\* An overlay of a chip on the SPI bus is active only with the bus.
BusUnderOverlays == Active("mcp2515") \/ Active("sc16is752") => Active("spi")

-----------------------------------------------------------------------------

InstallInit ==
    /\ system \in Shipped
    /\ hat \in Hats /\ bound = FALSE
    /\ request = NoRequest /\ status = "idle" /\ plan = << >>
    /\ runs = 0 /\ goal = system /\ sound = TRUE

\* The histories are kept when the last request is made again.
StartRun ==
    /\ status # "running" /\ runs < MaxRuns
    /\ runs' = runs + 1
    /\ \E r \in Requests :
          /\ request' = r
          /\ plan' = Plan(r)
          /\ IF r = request THEN UNCHANGED <<goal, sound>>
             ELSE goal' = Outcome(Plan(r), system) /\ sound' = BusUnderOverlays
    /\ status' = "running"
    /\ UNCHANGED <<system, hardware>>

MakeEdit ==
    /\ status = "running" /\ plan # << >> /\ Head(plan).op # "fail"
    /\ system' = [system EXCEPT ![Head(plan).entry] = Do(Head(plan).op, @)]
    /\ plan' = Tail(plan)
    /\ UNCHANGED <<hardware, request, status, runs, goal, sound>>

\* "DONE."
FinishRun ==
    /\ status = "running" /\ plan = << >>
    /\ status' = "done"
    /\ UNCHANGED <<system, hardware, request, plan, runs, goal, sound>>

\* A command fails, or somebody interrupts the script.
AbortRun ==
    /\ status = "running" /\ plan # << >>
    /\ status' = "aborted" /\ plan' = << >>
    /\ UNCHANGED <<system, hardware, request, runs, goal, sound>>

\* set_config_var is on the left of && in do_i2c, where `set -e' is off: when lua
\* fails, mv replaces config.txt by what it wrote, nothing, and the run goes on.
LuaFails ==
    /\ status = "running" /\ plan # << >> /\ Head(plan).entry = "i2c_arm"
    /\ system' = [k \in Entries |-> IF k \in ConfigEntries THEN {} ELSE system[k]]
    /\ plan' = Tail(plan)
    /\ goal' = Outcome(plan, system')
    /\ UNCHANGED <<hardware, request, status, runs, sound>>

\* The mv in the same place fails: config.txt stays as it is, touch is passed over
\* and the run goes on.  (Without a blacklist its sed fails then: AbortRun.)
MvFails ==
    /\ status = "running" /\ plan # << >> /\ Head(plan).entry = "i2c_arm"
    /\ plan' = Tail(plan)
    /\ UNCHANGED <<system, hardware, request, status, runs, goal, sound>>

\* The kernel loads what is active; a clock chip that is there gets its driver.
Reboot ==
    /\ status # "running"
    /\ bound' = (hat.fitted /\ Active("i2c-rtc"))
    /\ request' = NoRequest /\ status' = "idle"
    /\ UNCHANGED <<system, hat, plan, runs, goal, sound>>

InstallNext ==
    \/ StartRun \/ MakeEdit \/ FinishRun \/ AbortRun \/ LuaFails \/ MvFails \/ Reboot

InstallSpec == InstallInit /\ [][InstallNext]_vars

-----------------------------------------------------------------------------
(* Properties.                                                             *)

\* The types of the variables.
InstallTypeOK ==
    /\ system \in Systems /\ goal \in Systems
    /\ hat \in Hats /\ bound \in BOOLEAN /\ runs \in 0 .. MaxRuns
    /\ request \in Requests \cup {NoRequest}
    /\ status \in {"idle", "running", "done", "aborted"}
    /\ plan \in Seq([entry : Entries, op : Ops])
    /\ sound \in BOOLEAN

\* No sequence of runs, of aborted runs and of requests leaves a line in the
\* configuration twice, once active and once commented out: a copy of either
\* kind is what makes the next enabling or disabling miss.
OneCopy == \A k \in Entries : \A f, g \in system[k] : f = g

\* A run that says DONE has done what it was asked for, whatever earlier runs
\* left behind: an enabled module is active and a disabled one is not.  A
\* clock chip the script does not see it says it skips.
RequestHolds ==
    status = "done" =>
        \A m \in Modules :
            LET entry == CASE m = "RTC" -> "i2c-rtc"   [] m = "CAN" -> "mcp2515"
                           [] m = "RS485" -> "sc16is752" [] OTHER -> "enable_uart"
            IN  /\ Install(request, m) /\ (m = "RTC" => RtcSeen) => Active(entry)
                /\ request[m] = "disable" => ~Active(entry)

\* Running the script twice is running it once, and a request repeated after any
\* number of aborted runs ends where one run that nothing disturbed would have.
\* (A run in which lua failed ends without I2C, and one in which mv failed may;
\* repeating the former is measured from the empty configuration.)
RetryConverges == status = "done" /\ system["i2c_arm"] = {"active"} => system = goal

\* A completed run leaves no overlay without its bus, if the request found none:
\* SPI goes only with the last of its two users, in whatever order of runs.
SpiWithItsUsers == [][FinishRun /\ sound => BusUnderOverlays]_vars

EntriesOf(m) ==
    CASE m = "RTC"   -> {"i2c-rtc", "fake-hwclock", "hwclock-set"}
      [] m = "CAN"   -> {"mcp2515", "spi0-3cs", "mcp2515-can2", "can0"}
      [] m = "RS485" -> {"sc16is752"}
      [] OTHER       -> {"enable_uart", "disable-bt", "hciuart", "console"}

\* Whatever was not asked about stays as it is, in every step of a run that
\* completes, fails or is repeated, except where lua fails.
OthersUntouched ==
    [][~LuaFails =>
        \A m \in Modules : request'[m] = "skip" =>
            \A k \in EntriesOf(m) : system'[k] = system[k]]_vars
=============================================================================
