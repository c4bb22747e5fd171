-------------------------- MODULE SHRPiDeviceProofs --------------------------
(***************************************************************************)
(* The settings in the HAT's registers are what was asked, within each     *)
(* register's range, on every board and for any numbers asked for.         *)
(***************************************************************************)
EXTENDS SHRPiDevice, TLAPS

-----------------------------------------------------------------------------
(* What the conversions do to a number that fits.                          *)

\* A number of 16 bits comes through i2c_write_word unchanged.
LEMMA WordFits == ASSUME NEW n \in Nat, n <= 65535 PROVE Word(n) = n
<1>1. /\ n \div 256 \in Nat /\ n % 256 \in Nat
      /\ n = 256 * (n \div 256) + (n % 256)
  OBVIOUS
<1>2. (n \div 256) % 256 = n \div 256
  OBVIOUS
<1> QED
  BY <1>1, <1>2 DEF Word, Byte

\* Up to 25.5 s the tenths of a second fit into a byte.
LEMMA TenthsFit ==
    ASSUME NEW t \in Nat, t <= 25599
    PROVE  /\ Byte(Tenths(t)) = t \div 100
           /\ t \div 100 \in Nat
           /\ 100 * (t \div 100) <= t /\ t < 100 * (t \div 100) + 100
<1>1. Tenths(t) = t \div 100
  BY DEF Tenths, Trunc
<1>2. (t \div 100) % 256 = t \div 100
  OBVIOUS
<1>3. /\ t \div 100 \in Nat
      /\ 100 * (t \div 100) <= t /\ t < 100 * (t \div 100) + 100
  OBVIOUS
<1> QED
  BY <1>1, <1>2, <1>3 DEF Byte

\* The number of ms is what was asked, or one less when that is no whole second.
LEMMA MillisFit ==
    ASSUME NEW t \in Nat, t <= 65535, NEW n \in Millis(t)
    PROVE  /\ n \in Nat /\ n <= 65535
           /\ n <= t /\ t <= n + 1
           /\ t % 1000 = 0 => n = t
<1>1. CASE t % 1000 = 0
  <2>1. n = t
    BY <1>1 DEF Millis
  <2> QED
    BY <2>1
<1>2. CASE t % 1000 # 0
  <2>1. t > 0
    BY <1>2
  <2>2. n = t \/ n = t - 1
    BY <1>2, <2>1 DEF Millis
  <2> QED
    BY <1>2, <2>1, <2>2
<1> QED
  BY <1>1, <1>2

-----------------------------------------------------------------------------
(* The invariant.                                                          *)

\* The device that factory gives out knows the HAT's versions, no one has asked
\* it for anything before, and what is in the watchdog's register comes from the
\* timeout that was asked last.
Granted(t) ==
    IF hat.fw = 2 THEN reg["watchdog"] \in Millis(t)
    ELSE reg["watchdog"] = t \div 100

WatchdogInv ==
    /\ hat \in Hats
    /\ making \in {"probe", "firmware", "class", "made"}
    /\ making \in {"firmware", "class", "made"} => dev.hw = hat.hw
    /\ making \in {"class", "made"} => dev.fw = hat.fw
    /\ ~Ready => asked["watchdog"] = NotAsked
    /\ DOMAIN reg = Registers /\ DOMAIN asked = Registers
    /\ asked["watchdog"] \in 0 .. LongestTimeout => Granted(asked["watchdog"])

\* The register's range, without its numbers.
LEMMA LongestFacts ==
    /\ ~(NotAsked \in 0 .. LongestTimeout)
    /\ \A t \in 0 .. LongestTimeout : t \in Nat /\ t <= LongestTimeout
    /\ LongestTimeout = IF hat.fw = 2 THEN 65535 ELSE 25599
    /\ UNCHANGED hat => LongestTimeout' = LongestTimeout
<1>1. LongestTimeout \in Int /\ NotAsked < 0
  BY DEF LongestTimeout, NotAsked
<1>2. /\ LongestTimeout = IF hat.fw = 2 THEN 65535 ELSE 25599
      /\ UNCHANGED hat => LongestTimeout' = LongestTimeout
  BY DEF LongestTimeout
<1> QED
  BY <1>1, <1>2

LEMMA LongestWord == hat.fw = 2 => LongestTimeout = 65535
  BY DEF LongestTimeout

LEMMA LongestByte == hat.fw = 1 => LongestTimeout = 25599
  BY DEF LongestTimeout

\* Nobody has asked for anything yet.
LEMMA InitWatchdog == DeviceInit => WatchdogInv
<1>1. "watchdog" \in Registers
  BY DEF Registers
<1>2. ~(NotAsked \in 0 .. LongestTimeout)
  BY LongestFacts
<1> QED
  BY <1>1, <1>2 DEF DeviceInit, WatchdogInv, Ready

\* What set_watchdog_timeout leaves in the register: class, unit and width agree
\* on every board there is.
LEMMA WrittenTimeout ==
    ASSUME HatAssumption, WatchdogInv, Ready,
           NEW t \in 0 .. LongestTimeout, NEW v \in WriteTimeout(t)
    PROVE  IF hat.fw = 2 THEN v \in Millis(t) ELSE v = t \div 100
<1>1. /\ hat.hw \in {1, 2} /\ hat.fw \in {1, 2} /\ (hat.hw = 2 => hat.fw = 2)
      /\ dev.hw = hat.hw /\ dev.fw = hat.fw
  BY HatAssumption DEF WatchdogInv, Ready, Majors
<1>2. CASE hat.fw = 2
  <2>1. SpeaksWords /\ TwoBytesWide("watchdog")
    BY <1>1, <1>2 DEF SpeaksWords, TwoBytesWide
  <2>2. PICK n \in Millis(t) : v = Word(n)
    BY <2>1 DEF WriteTimeout, AfterWord
  <2>t. LongestTimeout = 65535
    BY ONLY <1>2, LongestWord
  <2>3. t \in Nat /\ t <= 65535
    <3>1. t \in Nat /\ t <= LongestTimeout
      BY LongestFacts
    <3> QED
      BY ONLY <3>1, <2>t
  <2>4. n \in Nat /\ n <= 65535
    BY <2>3, MillisFit
  <2>5. v = n
    BY <2>2, <2>4, WordFits
  <2> QED
    BY <1>2, <2>5
<1>3. CASE hat.fw = 1
  <2>1. ~SpeaksWords /\ ~TwoBytesWide("watchdog")
    BY <1>1, <1>3 DEF SpeaksWords, TwoBytesWide
  <2>2. v = Byte(Tenths(t))
    BY <2>1 DEF WriteTimeout, AfterByte
  <2>t. LongestTimeout = 25599
    BY ONLY <1>3, LongestByte
  <2>3. t \in Nat /\ t <= 25599
    <3>1. t \in Nat /\ t <= LongestTimeout
      BY LongestFacts
    <3> QED
      BY ONLY <3>1, <2>t
  <2> QED
    BY <1>3, <2>2, <2>3, TenthsFit
<1> QED
  BY <1>1, <1>2, <1>3

\* Only set_watchdog_timeout touches the register or what was asked of it.
LEMMA StepWatchdog ==
    HatAssumption /\ WatchdogInv /\ [DeviceNext]_deviceVars => WatchdogInv'
<1> SUFFICES ASSUME HatAssumption, WatchdogInv, [DeviceNext]_deviceVars
             PROVE  WatchdogInv'
  OBVIOUS
<1>w. "watchdog" \in Registers /\ ~("watchdog" \in AnalogRegisters)
      /\ "watchdog" # "led"
  BY DEF Registers, AnalogRegisters
<1>1. CASE Make
  <2>1. UNCHANGED <<hat, reg, asked>> /\ ~Ready
    BY <1>1 DEF Make, ProbeHardware, ProbeFirmware, MakeDevice, NotFound, Ready
  <2>2. asked["watchdog"] = NotAsked
    BY <2>1 DEF WatchdogInv
  <2>t. LongestTimeout' = LongestTimeout
    BY <2>1, LongestFacts
  <2>3. ~(NotAsked \in 0 .. LongestTimeout')
    BY <2>t, LongestFacts
  <2>4. /\ making' \in {"probe", "firmware", "class", "made"}
        /\ making' \in {"firmware", "class", "made"} => dev'.hw = hat.hw
        /\ making' \in {"class", "made"} => dev'.fw = hat.fw
    <3>1. CASE ProbeHardware
      BY <3>1 DEF ProbeHardware
    <3>2. CASE ProbeFirmware
      BY <3>2 DEF ProbeFirmware, WatchdogInv
    <3>3. CASE MakeDevice
      BY <3>3 DEF MakeDevice, WatchdogInv
    <3>4. CASE NotFound
      BY <3>4 DEF NotFound
    <3> QED
      BY <1>1, <3>1, <3>2, <3>3, <3>4 DEF Make
  <2> QED
    BY <2>1, <2>2, <2>3, <2>4 DEF WatchdogInv
<1>2. ASSUME NEW t \in Timeouts, set_watchdog_timeout(t)
      PROVE  WatchdogInv'
  <2>1. /\ Ready /\ UNCHANGED <<hat, making, dev>>
        /\ asked' = [asked EXCEPT !["watchdog"] = t]
    BY <1>2 DEF set_watchdog_timeout, Write
  <2>2. PICK v \in WriteTimeout(t) : reg' = [reg EXCEPT !["watchdog"] = v]
    BY <1>2 DEF set_watchdog_timeout, Write
  <2>3. asked'["watchdog"] = t /\ reg'["watchdog"] = v
    BY <1>w, <2>1, <2>2 DEF WatchdogInv
  <2>4. DOMAIN reg' = Registers /\ DOMAIN asked' = Registers
    BY <2>1, <2>2 DEF WatchdogInv
  <2>5. LongestTimeout' = LongestTimeout /\ (Ready' <=> Ready)
    BY <2>1, LongestFacts DEF Ready
  <2>6. t \in 0 .. LongestTimeout => Granted(t)'
    BY <2>1, <2>3, WrittenTimeout DEF Granted, Millis
  <2> QED
    BY <2>1, <2>3, <2>4, <2>5, <2>6 DEF WatchdogInv, Granted
<1>3. ASSUME NEW r \in Registers \ {"watchdog"}, NEW values, NEW value,
             Write(r, values, value)
      PROVE  WatchdogInv'
  <2>1. /\ Ready /\ UNCHANGED <<hat, making, dev>>
        /\ asked' = [asked EXCEPT ![r] = value]
        /\ \E v \in values : reg' = [reg EXCEPT ![r] = v]
    BY <1>3 DEF Write
  <2>2. /\ asked'["watchdog"] = asked["watchdog"]
        /\ reg'["watchdog"] = reg["watchdog"]
        /\ DOMAIN reg' = Registers /\ DOMAIN asked' = Registers
    BY <1>w, <2>1 DEF WatchdogInv
  <2>3. LongestTimeout' = LongestTimeout /\ (Ready' <=> Ready)
    BY <2>1, LongestFacts DEF Ready
  <2> QED
    BY <2>1, <2>2, <2>3 DEF WatchdogInv, Granted, Millis
<1>4. ASSUME NEW r \in AnalogRegisters, NEW v \in Thresholds, set_threshold(r, v)
      PROVE  WatchdogInv'
  <2>1. r \in Registers \ {"watchdog"}
    BY <1>4, <1>w DEF Registers
  <2> QED
    BY <1>3, <1>4, <2>1 DEF set_threshold
<1>5. ASSUME NEW n \in Levels, set_led_brightness(n)
      PROVE  WatchdogInv'
  <2>1. "led" \in Registers \ {"watchdog"}
    BY DEF Registers
  <2> QED
    BY <1>3, <1>5, <2>1 DEF set_led_brightness
<1>6. CASE UNCHANGED deviceVars
  BY <1>6, LongestFacts DEF deviceVars, WatchdogInv, Granted, Millis, Ready
<1> QED
  BY <1>1, <1>2, <1>4, <1>5, <1>6 DEF DeviceNext, SetSomething

\* The number of ms that was written is what may be read.
LEMMA MillisRead ==
    ASSUME NEW t \in Nat, t <= 65535, NEW n \in Millis(t)
    PROVE  /\ n <= t
           /\ t - n < 1 + (IF t % 1000 = 0 THEN 0 ELSE 1)
           /\ t \in {0, 10000} => n = t
<1>1. n \in Nat /\ n <= t /\ t <= n + 1 /\ (t % 1000 = 0 => n = t)
  BY MillisFit
<1>2. t \in {0, 10000} => t % 1000 = 0
  OBVIOUS
<1>3. CASE t % 1000 = 0
  BY <1>1, <1>3
<1>4. CASE t % 1000 # 0
  BY <1>1, <1>2, <1>4
<1> QED
  BY <1>3, <1>4

\* So are the tenths of a second.
LEMMA TenthsRead ==
    ASSUME NEW t \in Nat, t <= 25599
    PROVE  /\ 100 * (t \div 100) <= t
           /\ t - 100 * (t \div 100) < 100 + (IF t % 1000 = 0 THEN 0 ELSE 1)
           /\ t \in {0, 10000} => 100 * (t \div 100) = t
<1>1. /\ t \div 100 \in Nat
      /\ 100 * (t \div 100) <= t /\ t < 100 * (t \div 100) + 100
  BY TenthsFit
<1>2. t \in {0, 10000} => 100 * (t \div 100) = t
  OBVIOUS
<1>3. /\ t - 100 * (t \div 100) < 100 + 0
      /\ t - 100 * (t \div 100) < 100 + 1
  BY <1>1
<1> QED
  BY <1>1, <1>2, <1>3

\* What the register holds reads back as what was asked.
LEMMA ReadsBack == HatAssumption /\ WatchdogInv => WatchdogAsAsked
<1> DEFINE t == asked["watchdog"]
<1>1. ASSUME HatAssumption, WatchdogInv, Ready, t \in 0 .. LongestTimeout
      PROVE  /\ watchdog_timeout <= t
             /\ t - watchdog_timeout
                  < TimeoutStep + (IF t % 1000 = 0 THEN 0 ELSE 1)
             /\ t \in {0, 10000} => watchdog_timeout = t
  <2>1. /\ hat.hw \in {1, 2} /\ hat.fw \in {1, 2}
        /\ (hat.hw = 2 => hat.fw = 2)
        /\ dev.hw = hat.hw /\ dev.fw = hat.fw
    BY <1>1 DEF HatAssumption, WatchdogInv, Ready, Majors
  <2>2. Granted(t)
    BY <1>1 DEF WatchdogInv
  <2>3. t \in Nat /\ t <= LongestTimeout
    <3>1. LongestTimeout \in Int
      BY DEF LongestTimeout
    <3> HIDE DEF t
    <3> QED
      BY <1>1, <3>1
  <2>4. CASE hat.fw = 2
    <3>1. LongestTimeout = 65535 /\ TimeoutStep = 1
      BY <2>4, LongestFacts DEF TimeoutStep
    <3>2. watchdog_timeout \in Millis(t)
      BY <2>1, <2>2, <2>4 DEF Granted, watchdog_timeout, SpeaksWords
    <3> HIDE DEF t
    <3>3. t <= 65535
      BY <2>3, <3>1
    <3> QED
      BY <2>3, <3>1, <3>2, <3>3, MillisRead
  <2>5. CASE hat.fw = 1
    <3>1. LongestTimeout = 25599 /\ TimeoutStep = 100
      BY <2>5, LongestFacts DEF TimeoutStep
    <3>2. watchdog_timeout = 100 * (t \div 100)
      BY <2>1, <2>2, <2>5
         DEF Granted, watchdog_timeout, SpeaksWords, ByteOf, TwoBytesWide
    <3> HIDE DEF t
    <3>3. t <= 25599
      BY <2>3, <3>1
    <3> QED
      BY <2>3, <3>1, <3>2, <3>3, TenthsRead
  <2> QED
    BY <2>1, <2>4, <2>5
<1> QED
  BY <1>1 DEF WatchdogAsAsked

\* set_watchdog_timeout and watchdog_timeout agree, on every board, on every
\* timeout the register can hold, after any calls.
THEOREM WatchdogKept == DeviceSpec => []WatchdogAsAsked
<1>1. DeviceInit => WatchdogInv
  BY InitWatchdog
<1>2. WatchdogInv /\ [DeviceNext]_deviceVars => WatchdogInv'
  BY HatAssumption, StepWatchdog
<1>3. WatchdogInv => WatchdogAsAsked
  BY HatAssumption, ReadsBack
<1> QED
  BY <1>1, <1>2, <1>3, PTL DEF DeviceSpec

-----------------------------------------------------------------------------
(* Widths.                                                                 *)

\* A transfer carries one byte, or two.
LEMMA Carried ==
    ASSUME NEW n \in Int
    PROVE  /\ Byte(n) \in Nat /\ Byte(n) < 256
           /\ Word(n) \in Nat /\ Word(n) < 65536
<1>1. /\ n % 256 \in Nat /\ n % 256 < 256
      /\ (n \div 256) % 256 \in Nat /\ (n \div 256) % 256 < 256
  OBVIOUS
<1> QED
  BY <1>1 DEF Byte, Word

\* The numbers that are cut are integers.
LEMMA TruncTyped ==
    ASSUME NEW n \in Int
    PROVE  Trunc(n, 100) \in Int /\ Trunc(n, 2750) \in Int /\ Trunc(n, 9350) \in Int
  BY DEF Trunc

\* What fits into the register r of the HAT that is on the bus.
Fits(r, v) == v \in Nat /\ v < IF TwoBytesWide(r) THEN 65536 ELSE 256

\* Whatever the HAT makes of one byte or of two, its register can hold it.
LEMMA BytesFit ==
    ASSUME NEW r \in Registers, Fits(r, reg[r]), NEW b \in Nat, b < 256,
           NEW v \in AfterByte(r, b)
    PROVE  Fits(r, v)
<1>1. CASE TwoBytesWide(r)
  <2>1. reg[r] \in Nat /\ reg[r] < 65536
    BY <1>1 DEF Fits
  <2>2. reg[r] % 256 \in Nat /\ reg[r] % 256 < 256
    BY <2>1
  <2>3. v \in {reg[r], 256 * b, 256 * b + (reg[r] % 256), b}
    BY <1>1 DEF AfterByte
  <2>4. 256 * b \in Nat /\ 256 * b <= 65280
    OBVIOUS
  <2>5. /\ reg[r] \in Nat /\ reg[r] < 65536
        /\ 256 * b + (reg[r] % 256) \in Nat /\ 256 * b + (reg[r] % 256) < 65536
        /\ 256 * b < 65536 /\ b < 65536
    BY ONLY <2>1, <2>2, <2>4
  <2>6. v \in Nat /\ v < 65536
    BY <2>3, <2>4, <2>5
  <2> QED
    BY <1>1, <2>6 DEF Fits
<1>2. CASE ~TwoBytesWide(r)
  BY <1>2 DEF AfterByte, Fits
<1> QED
  BY <1>1, <1>2

LEMMA WordsFit ==
    ASSUME NEW r, NEW w \in Nat, w < 65536, NEW v \in AfterWord(r, w)
    PROVE  Fits(r, v)
<1>1. CASE TwoBytesWide(r)
  BY <1>1 DEF AfterWord, Fits
<1>2. CASE ~TwoBytesWide(r)
  <2>1. v \in {w \div 256, w % 256}
    BY <1>2 DEF AfterWord
  <2>2. /\ w \div 256 \in Nat /\ w \div 256 < 256
        /\ w % 256 \in Nat /\ w % 256 < 256
    OBVIOUS
  <2>3. v \in Nat /\ v < 256
    BY ONLY <2>1, <2>2
  <2> QED
    BY <1>2, <2>3 DEF Fits
<1> QED
  BY <1>1, <1>2

\* What factory makes knows the HAT, and speaks bytes to it.
DeviceInv ==
    /\ DeviceTypeOK
    /\ making \in {"firmware", "class", "made"} => dev.hw = hat.hw
    /\ making \in {"class", "made"} => dev.fw = hat.fw
    /\ Ready => dev.analog = "byte"

\* The registers start empty.
LEMMA InitDevice == DeviceInit => DeviceInv
<1> SUFFICES ASSUME DeviceInit PROVE DeviceInv
  OBVIOUS
<1>1. /\ NoDevice \in [hw : 0 .. 2, fw : 0 .. 2, analog : {"none", "byte", "word"}]
      /\ NotAsked \in Int
  BY DEF NoDevice, NotAsked
<1>2. \A r \in Registers : reg[r] < 256 /\ reg[r] < 65536
  BY DEF DeviceInit
<1> QED
  BY <1>1, <1>2 DEF DeviceInit, DeviceInv, DeviceTypeOK, Ready

\* A write that leaves what fits leaves everything in its type.
LEMMA WriteTyped ==
    ASSUME DeviceInv, NEW r \in Registers, NEW values, NEW value \in Int,
           \A v \in values : Fits(r, v), Write(r, values, value)
    PROVE  DeviceInv'
<1>1. /\ Ready /\ UNCHANGED <<hat, making, dev>>
      /\ asked' = [asked EXCEPT ![r] = value]
  BY DEF Write
<1>2. PICK v \in values : reg' = [reg EXCEPT ![r] = v]
  BY DEF Write
<1>3. v \in Nat /\ v < IF TwoBytesWide(r) THEN 65536 ELSE 256
  BY DEF Fits
<1>4. reg' \in [Registers -> Nat] /\ asked' \in [Registers -> Int]
  BY <1>1, <1>2, <1>3 DEF DeviceInv, DeviceTypeOK
<1>5. \A q \in Registers : TwoBytesWide(q)' = TwoBytesWide(q)
  BY <1>1 DEF TwoBytesWide
<1>6. \A q \in Registers :
          reg'[q] < IF TwoBytesWide(q)' THEN 65536 ELSE 256
  BY <1>2, <1>3, <1>5 DEF DeviceInv, DeviceTypeOK
<1> QED
  BY <1>1, <1>4, <1>6 DEF DeviceInv, DeviceTypeOK, Ready

\* factory keeps what it has learned, and no number that is asked for leaves a
\* register with more than it can hold.
LEMMA StepDevice == DeviceInv /\ [DeviceNext]_deviceVars => DeviceInv'
<1> SUFFICES ASSUME DeviceInv, [DeviceNext]_deviceVars
             PROVE  DeviceInv'
  OBVIOUS
<1>h. /\ hat \in Hats /\ hat.hw \in {1, 2} /\ hat.fw \in {1, 2}
      /\ dev \in [hw : 0 .. 2, fw : 0 .. 2, analog : {"none", "byte", "word"}]
  BY HatAssumption DEF DeviceInv, DeviceTypeOK, Majors
<1>f. \A r \in Registers : Fits(r, reg[r])
  BY DEF DeviceInv, DeviceTypeOK, Fits
<1>w. "watchdog" \in Registers /\ "led" \in Registers /\ AnalogRegisters \subseteq Registers
  BY DEF Registers
<1>1. CASE Make
  <2>1. UNCHANGED <<hat, reg, asked>>
    BY <1>1 DEF Make, ProbeHardware, ProbeFirmware, MakeDevice, NotFound
  <2>2. \A r \in Registers : TwoBytesWide(r)' = TwoBytesWide(r)
    BY <2>1 DEF TwoBytesWide
  <2>3. /\ making' \in {"probe", "firmware", "class", "made"}
        /\ dev' \in [hw : 0 .. 2, fw : 0 .. 2, analog : {"none", "byte", "word"}]
        /\ making' \in {"firmware", "class", "made"} => dev'.hw = hat.hw
        /\ making' \in {"class", "made"} => dev'.fw = hat.fw
        /\ making' = "made" => dev'.analog = "byte"
    <3>1. CASE ProbeHardware
      BY <1>h, <3>1 DEF ProbeHardware
    <3>2. CASE ProbeFirmware
      BY <1>h, <3>2 DEF ProbeFirmware, ProtocolOf, DeviceInv
    <3>3. CASE MakeDevice
      BY <1>h, <3>3 DEF MakeDevice, DeviceInv
    <3>4. CASE NotFound
      BY <3>4 DEF NotFound, NoDevice
    <3> QED
      BY <1>1, <3>1, <3>2, <3>3, <3>4 DEF Make
  <2>4. DeviceTypeOK'
    BY <2>1, <2>2, <2>3 DEF DeviceInv, DeviceTypeOK, Ready
  <2> QED
    BY <2>1, <2>3, <2>4 DEF DeviceInv, Ready
<1>2. ASSUME NEW t \in Timeouts, set_watchdog_timeout(t)
      PROVE  DeviceInv'
  <2>1. t \in Int
    BY ValueAssumption
  <2>2. ASSUME NEW v \in WriteTimeout(t)
        PROVE  Fits("watchdog", v)
    <3>1. CASE SpeaksWords
      <4>1. PICK n \in Millis(t) : v \in AfterWord("watchdog", Word(n))
        BY <2>2, <3>1 DEF WriteTimeout
      <4>2. n \in Int
        BY <2>1, <4>1 DEF Millis
      <4> QED
        BY <4>1, <4>2, Carried, WordsFit
    <3>2. CASE ~SpeaksWords
      <4>1. v \in AfterByte("watchdog", Byte(Tenths(t)))
        BY <2>2, <3>2 DEF WriteTimeout
      <4>2. Tenths(t) \in Int
        BY <2>1, TruncTyped DEF Tenths
      <4> QED
        BY <1>f, <1>w, <4>1, <4>2, Carried, BytesFit
    <3> QED
      BY <3>1, <3>2
  <2> QED
    BY <1>2, <1>w, <2>1, <2>2, WriteTyped DEF set_watchdog_timeout
<1>3. ASSUME NEW r \in AnalogRegisters, NEW v \in Thresholds, set_threshold(r, v)
      PROVE  DeviceInv'
  <2>1. v \in Int /\ r \in Registers
    BY <1>w, ValueAssumption
  <2>2. Ready
    BY <1>3 DEF set_threshold, Write
  <2>3. Scaled(v, 256) \in Int
    <3>1. 256 * v \in Int
      BY <2>1
    <3> QED
      BY <3>1, TruncTyped DEF Scaled, VcapMax
  <2>4. write_analog(r, v) = AfterByte(r, Byte(Scaled(v, 256)))
    BY <2>2 DEF write_analog, DeviceInv
  <2>5. ASSUME NEW x \in write_analog(r, v)
        PROVE  Fits(r, x)
    BY <1>f, <2>1, <2>3, <2>4, Carried, BytesFit
  <2> QED
    BY <1>3, <2>1, <2>5, WriteTyped DEF set_threshold
<1>4. ASSUME NEW n \in Levels, set_led_brightness(n)
      PROVE  DeviceInv'
  <2>1. n \in Int
    BY ValueAssumption
  <2>2. ASSUME NEW x \in AfterByte("led", Byte(n))
        PROVE  Fits("led", x)
    BY <1>f, <1>w, <2>1, Carried, BytesFit
  <2> QED
    BY <1>4, <1>w, <2>1, <2>2, WriteTyped DEF set_led_brightness
<1>5. CASE UNCHANGED deviceVars
  BY <1>5 DEF deviceVars, DeviceInv, DeviceTypeOK, Ready, TwoBytesWide
<1> QED
  BY <1>1, <1>2, <1>3, <1>4, <1>5 DEF DeviceNext, SetSomething

\* Registers never hold more than fits into them, whatever is asked, and the object
\* that factory gives out knows both versions of its HAT.
THEOREM DeviceTyped == DeviceSpec => []DeviceTypeOK
<1>1. DeviceInv => DeviceTypeOK
  BY DEF DeviceInv
<1> QED
  BY <1>1, InitDevice, StepDevice, PTL DEF DeviceSpec

-----------------------------------------------------------------------------
(* Thresholds.                                                             *)

\* A threshold below full scale fits into its byte, and reads back as itself,
\* less one step at most.
LEMMA ThresholdRead ==
    ASSUME NEW a \in Nat, a < 2750
    PROVE  LET n == (256 * a) \div 2750
               m == (2750 * n) \div 256
           IN  n \in Nat /\ n < 256 /\ m <= a /\ a - m <= 11
<1> DEFINE n == (256 * a) \div 2750
           m == (2750 * n) \div 256
<1>1. n \in Nat /\ 2750 * n <= 256 * a /\ 256 * a < 2750 * n + 2750
  OBVIOUS
<1> HIDE DEF n
<1>2. m \in Nat /\ 256 * m <= 2750 * n /\ 2750 * n < 256 * m + 256
  BY <1>1
<1> HIDE DEF m
<1>3. n < 256 /\ m <= a /\ a - m <= 11
  BY <1>1, <1>2
<1> QED
  BY <1>1, <1>3 DEF n, m

\* With firmware 1 the register holds the 256ths that the last call was for.
Held(a, v) == a \in Nat /\ a < 2750 => v = (256 * a) \div 2750

ThresholdInv ==
    /\ DeviceInv
    /\ hat.fw = 1 => \A r \in AnalogRegisters : Held(asked[r], reg[r])

LEMMA InitThreshold == DeviceInit => ThresholdInv
<1> SUFFICES ASSUME DeviceInit PROVE ThresholdInv
  OBVIOUS
<1>1. ~(NotAsked \in Nat)
  BY DEF NotAsked
<1>2. \A r \in AnalogRegisters : asked[r] = NotAsked
  BY DEF DeviceInit, Registers
<1>3. \A r \in AnalogRegisters : Held(asked[r], reg[r])
  BY <1>1, <1>2 DEF Held
<1> QED
  BY <1>3, InitDevice DEF ThresholdInv

\* What set_threshold leaves there.
LEMMA WrittenThreshold ==
    ASSUME DeviceInv, hat.fw = 1, Ready, NEW r \in AnalogRegisters,
           NEW a \in Int, NEW v \in write_analog(r, a)
    PROVE  Held(a, v)
<1> SUFFICES ASSUME a \in Nat, a < 2750
             PROVE  v = (256 * a) \div 2750
  BY DEF Held
<1>1. dev.hw = 1
  BY HatAssumption DEF DeviceInv, DeviceTypeOK, Ready, Majors
<1>2. v = Byte(Scaled(a, 256))
  BY DEF DeviceInv, write_analog, AfterByte, TwoBytesWide
<1>3. Scaled(a, 256) = (256 * a) \div 2750
  BY <1>1 DEF Scaled, Trunc, VcapMax
<1>4. (256 * a) \div 2750 \in Nat /\ (256 * a) \div 2750 < 256
  BY ThresholdRead
<1>5. v = ((256 * a) \div 2750) % 256
  BY <1>2, <1>3 DEF Byte
<1> QED
  BY <1>4, <1>5

\* Only set_threshold touches these registers, one at a time.
LEMMA StepThreshold == ThresholdInv /\ [DeviceNext]_deviceVars => ThresholdInv'
<1>0. ThresholdInv /\ [DeviceNext]_deviceVars => DeviceInv'
  BY StepDevice DEF ThresholdInv
<1> SUFFICES ASSUME ThresholdInv, [DeviceNext]_deviceVars, hat'.fw = 1,
                    NEW r \in AnalogRegisters
             PROVE  Held(asked'[r], reg'[r])
  BY <1>0 DEF ThresholdInv
<1>1. /\ r \in Registers /\ r # "watchdog" /\ r # "led"
      /\ reg \in [Registers -> Nat] /\ asked \in [Registers -> Int]
  BY DEF Registers, AnalogRegisters, ThresholdInv, DeviceInv, DeviceTypeOK
<1>2. CASE UNCHANGED <<hat, asked, reg>>
  BY <1>2 DEF ThresholdInv
<1>3. ASSUME NEW q \in Registers, NEW values, NEW value, Write(q, values, value),
             q # r
      PROVE  Held(asked'[r], reg'[r])
  BY <1>1, <1>3 DEF Write, ThresholdInv
<1>4. ASSUME NEW v \in Thresholds, set_threshold(r, v)
      PROVE  Held(asked'[r], reg'[r])
  <2>1. /\ Ready /\ hat.fw = 1 /\ v \in Int
        /\ asked' = [asked EXCEPT ![r] = v]
    BY <1>4, ValueAssumption DEF set_threshold, Write
  <2>2. PICK x \in write_analog(r, v) : reg' = [reg EXCEPT ![r] = x]
    BY <1>4 DEF set_threshold, Write
  <2>3. Held(v, x)
    BY <2>1, WrittenThreshold DEF ThresholdInv
  <2> QED
    BY <1>1, <2>1, <2>2, <2>3
<1>5. CASE Make
  BY <1>2, <1>5 DEF Make, ProbeHardware, ProbeFirmware, MakeDevice, NotFound
<1>6. CASE SetSomething
  <2>1. ASSUME NEW t \in Timeouts, set_watchdog_timeout(t)
        PROVE  Held(asked'[r], reg'[r])
    BY <1>1, <1>3, <2>1 DEF set_watchdog_timeout, Registers
  <2>2. ASSUME NEW q \in AnalogRegisters, NEW v \in Thresholds, set_threshold(q, v)
        PROVE  Held(asked'[r], reg'[r])
    <3>1. q \in Registers
      BY DEF Registers
    <3> QED
      BY <1>3, <1>4, <2>2, <3>1 DEF set_threshold
  <2>3. ASSUME NEW n \in Levels, set_led_brightness(n)
        PROVE  Held(asked'[r], reg'[r])
    BY <1>1, <1>3, <2>3 DEF set_led_brightness, Registers
  <2> QED
    BY <1>6, <2>1, <2>2, <2>3 DEF SetSomething
<1> QED
  BY <1>2, <1>5, <1>6 DEF DeviceNext, deviceVars

\* A threshold below full scale reads back as what was asked, less one step at
\* most, whatever is asked: by read_analog, as long as the protocol that factory
\* leaves is the firmware's.
THEOREM ThresholdKept == DeviceSpec => []ThresholdAsAsked
<1>1. ThresholdInv => ThresholdAsAsked
  <2> SUFFICES ASSUME ThresholdInv, NEW r \in AnalogRegisters, Ready,
                      dev.analog = ProtocolOf(hat.fw), asked[r] \in 0 .. VcapMax - 1
               PROVE  /\ read_analog(r) <= asked[r]
                      /\ asked[r] - read_analog(r) <= VcapMax \div 256 + 1
    BY DEF ThresholdAsAsked
  <2>1. /\ hat.fw = 1 /\ dev.analog = "byte" /\ dev.hw = 1
    BY HatAssumption
       DEF ThresholdInv, DeviceInv, DeviceTypeOK, Ready, Majors, ProtocolOf
  <2>2. VcapMax = 2750 /\ 2750 \div 256 + 1 = 11
    BY <2>1 DEF VcapMax
  <2>3. asked[r] \in Nat /\ asked[r] < 2750
    <3> DEFINE a == asked[r]
               full == VcapMax
    <3>1. a \in 0 .. full - 1 /\ full = 2750
      BY <2>2
    <3> HIDE DEF a, full
    <3>2. a \in Nat /\ a < 2750
      BY <3>1
    <3> QED
      BY ONLY <3>2 DEF a
  <2>4. read_analog(r) = (2750 * reg[r]) \div 256
    BY <2>1, <2>2 DEF read_analog, ByteOf, TwoBytesWide
  <2>5. reg[r] = (256 * asked[r]) \div 2750
    BY <2>1, <2>3 DEF ThresholdInv, Held
  <2>6. read_analog(r) <= asked[r] /\ asked[r] - read_analog(r) <= 11
    BY ONLY <2>3, <2>4, <2>5, ThresholdRead
  <2> QED
    BY <2>2, <2>6
<1> QED
  BY <1>1, InitThreshold, StepThreshold, PTL DEF DeviceSpec
=============================================================================
