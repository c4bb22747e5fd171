----------------------------- MODULE SHRPiDevice -----------------------------
(***************************************************************************)
(* The driver of the HAT, src/shrpi/i2c.py: how factory finds out what is  *)
(* on the bus, and the settings that are written to the HAT's registers    *)
(* and read back.  A register is one byte wide with firmware 1 and two     *)
(* with firmware 2; what the driver sends is cut to the width of the       *)
(* transfer, silently.                                                     *)
(*                                                                         *)
(* Times are in ms, voltages in mV.  An operation that changes nothing is  *)
(* an operator: what a call made now would return.                         *)
(***************************************************************************)
EXTENDS Integers

CONSTANTS
    Hats,       \* [hw, fw] major versions of the boards there are
    Timeouts,   \* watchdog timeouts that are asked for
    Thresholds, \* power-on and power-off thresholds that are asked for
    Levels      \* LED levels that are asked for

Majors == {1, 2}

\* Version 2 boards came with firmware 2: SHRPiV2Device does not ask.
ASSUME HatAssumption ==
    /\ Hats \subseteq [hw : Majors, fw : Majors]
    /\ Hats # {}
    /\ \A h \in Hats : h.hw = 2 => h.fw = 2
ASSUME ValueAssumption ==
    Timeouts \subseteq Int /\ Thresholds \subseteq Int /\ Levels \subseteq Int

VARIABLES
    hat,    \* the board on the bus
    reg,    \* what its registers hold
    making, \* how far factory is: "probe", "firmware", "class" or "made"
    dev,    \* the device object
    asked   \* per register, what the last completed call asked for

deviceVars == <<hat, reg, making, dev, asked>>

AnalogRegisters == {"power_on", "power_off"}
Registers == AnalogRegisters \cup {"watchdog", "led"}

NotAsked == -1000000
NoDevice == [hw |-> 0, fw |-> 0, analog |-> "none"]

-----------------------------------------------------------------------------
(* Numbers: Python's int(), and what the bus and the HAT make of them.     *)

\* int(n / d): towards zero.
Trunc(n, d) == IF n >= 0 THEN n \div d ELSE -((-n) \div d)

\* One byte of a transfer is the low byte of the number it is given.
ByteUncut(n) == n
Byte(n) == n % 256

Word(n) == 256 * Byte(n \div 256) + Byte(n)

TwoBytesWide(r) == hat.fw = 2 /\ r # "led"

\* The high byte comes first.
ByteOf(r) == IF TwoBytesWide(r) THEN reg[r] \div 256 ELSE reg[r]

\* What one byte does to a register of two is for the HAT to say: it is
\* ignored, or taken for either byte, and the other one is kept or cleared.
AfterByte(r, b) ==
    IF TwoBytesWide(r) THEN {reg[r], 256 * b, 256 * b + (reg[r] % 256), b}
    ELSE {b}

\* A register of one byte takes either byte of two.
AfterWord(r, w) ==
    IF TwoBytesWide(r) THEN {w} ELSE {w \div 256, w % 256}

-----------------------------------------------------------------------------

DeviceInit ==
    /\ hat \in Hats
    /\ reg = [r \in Registers |-> 0]
    /\ making = "probe" /\ dev = NoDevice
    /\ asked = [r \in Registers |-> NotAsked]

(* factory: a probe object reads both versions, then the object of the     *)
(* right class is made from the versions it has cached.                    *)

\* SHRPiDevice(bus, addr): hardware_version()
ProbeHardware ==
    /\ making = "probe"
    /\ dev' = [hw |-> hat.hw, fw |-> 0, analog |-> "byte"]
    /\ making' = "firmware"
    /\ UNCHANGED <<hat, reg, asked>>

ProtocolOf(fw) == IF fw = 2 THEN "word" ELSE "byte"

\* firmware_version(), which goes through _set_firmware_version.
ProbeFirmware ==
    /\ making = "firmware"
    /\ dev' = [hw |-> dev.hw, fw |-> hat.fw, analog |-> ProtocolOf(hat.fw)]
    /\ making' = "class"
    /\ UNCHANGED <<hat, reg, asked>>

\* With cached versions __init__ calls neither the HAT nor _set_firmware_version.
MakeDevice ==
    /\ making = "class"
    /\ dev' = [hw |-> dev.hw, fw |-> dev.fw, analog |-> "byte"]
    /\ making' = "made"
    /\ UNCHANGED <<hat, reg, asked>>

\* OSError, DeviceNotFoundError: the daemon ends and is started again.
NotFound ==
    /\ making \in {"probe", "firmware"}
    /\ dev' = NoDevice /\ making' = "probe"
    /\ UNCHANGED <<hat, reg, asked>>

-----------------------------------------------------------------------------
(* The calls that write.  One that raises OSError has written nothing.     *)

Ready == making = "made"

VcapMax == IF dev.hw = 1 THEN 2750 ELSE 9350

\* SHRPiV2Device always counts in ms, the other class with firmware 2.
SpeaksWordsByBoard == dev.hw = 2
SpeaksWords == dev.hw = 2 \/ dev.fw = 2

\* int(1000 * timeout): the product may end up just below a whole number,
\* but not when the timeout is a whole number of seconds.
Millis(t) == IF t % 1000 = 0 THEN {t}
             ELSE IF t > 0 THEN {t, t - 1} ELSE {t, t + 1}
Tenths(t) == Trunc(t, 100)

Write(r, values, value) ==
    /\ Ready
    /\ \E v \in values : reg' = [reg EXCEPT ![r] = v]
    /\ asked' = [asked EXCEPT ![r] = value]
    /\ UNCHANGED <<hat, making, dev>>

WriteTimeout(t) ==
    IF SpeaksWords THEN UNION {AfterWord("watchdog", Word(n)) : n \in Millis(t)}
    ELSE AfterByte("watchdog", Byte(Tenths(t)))

set_watchdog_timeout(t) == Write("watchdog", WriteTimeout(t), t)

ScaledRoundedUp(v, steps) == Trunc(steps * v + VcapMax - 1, VcapMax)
Scaled(v, steps) == Trunc(steps * v, VcapMax)

\* write_analog is bound to one of the two when the object is made.
write_analog(r, v) ==
    IF dev.analog = "word" THEN AfterWord(r, Word(Scaled(v, 65536)))
    ELSE AfterByte(r, Byte(Scaled(v, 256)))

set_threshold(r, v) == r \in AnalogRegisters /\ Write(r, write_analog(r, v), v)

\* Version 1 boards raise NotImplementedError.
set_led_brightness(n) == dev.hw = 2 /\ Write("led", AfterByte("led", Byte(n)), n)

-----------------------------------------------------------------------------
(* The calls that read.                                                    *)

\* watchdog_timeout(), in ms.
watchdog_timeout == IF SpeaksWords THEN reg["watchdog"]
                    ELSE 100 * ByteOf("watchdog")

\* read_analog(r, vcap_max), in mV, rounded down.
read_analog(r) ==
    IF dev.analog = "word" THEN (VcapMax * reg[r]) \div 65536
    ELSE (VcapMax * ByteOf(r)) \div 256

-----------------------------------------------------------------------------

Make == ProbeHardware \/ ProbeFirmware \/ MakeDevice \/ NotFound

SetSomething ==
    \/ \E t \in Timeouts : set_watchdog_timeout(t)
    \/ \E r \in AnalogRegisters, v \in Thresholds : set_threshold(r, v)
    \/ \E n \in Levels : set_led_brightness(n)

DeviceNext == Make \/ SetSomething

DeviceSpec == DeviceInit /\ [][DeviceNext]_deviceVars

-----------------------------------------------------------------------------
(* Properties.                                                             *)

\* Registers hold what fits into them, and the object the daemon uses has been
\* told both versions of the HAT it talks to.
DeviceTypeOK ==
    /\ hat \in Hats
    /\ reg \in [Registers -> Nat]
    /\ \A r \in Registers : reg[r] < IF TwoBytesWide(r) THEN 65536 ELSE 256
    /\ making \in {"probe", "firmware", "class", "made"}
    /\ dev \in [hw : 0 .. 2, fw : 0 .. 2, analog : {"none", "byte", "word"}]
    /\ asked \in [Registers -> Int]
    /\ Ready => dev.hw = hat.hw /\ dev.fw = hat.fw

\* What the register can hold, in ms.
LongestTimeout == IF hat.fw = 2 THEN 65535 ELSE 25599
TimeoutStep == IF hat.fw = 2 THEN 1 ELSE 100

\* A timeout within the register's range is armed as asked, to within one step
\* downwards and never to a longer one, and reads back the same on each of the
\* boards: class, unit and width go together.  10 s and 0, the two values the
\* daemon uses, are exact.
WatchdogAsAsked ==
    Ready /\ asked["watchdog"] \in 0 .. LongestTimeout =>
        LET t == asked["watchdog"] IN
        /\ watchdog_timeout <= t
        /\ t - watchdog_timeout < TimeoutStep + (IF t % 1000 = 0 THEN 0 ELSE 1)
        /\ t \in {0, 10000} => watchdog_timeout = t

\* A threshold below full scale reads back as what was asked, less one step at
\* most, as long as the object's protocol is the firmware's.
ThresholdAsAsked ==
    \A r \in AnalogRegisters :
        Ready /\ dev.analog = ProtocolOf(hat.fw)
              /\ asked[r] \in 0 .. VcapMax - 1 =>
            /\ read_analog(r) <= asked[r]
            /\ asked[r] - read_analog(r) <= VcapMax \div 256 + 1

\* "default to v1 protocol" (comment in __init__): the object that is given out
\* speaks the other protocol to firmware 2, as _set_firmware_version intends.
ProtocolFits == Ready => dev.analog = ProtocolOf(hat.fw)
=============================================================================
