------------------------- MODULE InstallConfigsProofs -------------------------
(***************************************************************************)
(* Theorems about InstallConfigs, for any boards, requests, number of runs *)
(* and, where nothing else is said, any system before the first run.       *)
(***************************************************************************)
EXTENDS InstallConfigs, TLAPS

-----------------------------------------------------------------------------
(* Plans.                                                                  *)

\* The line by which a module is enabled.
LineOf(m) == CASE m = "RTC"   -> "i2c-rtc"   [] m = "CAN" -> "mcp2515"
               [] m = "RS485" -> "sc16is752" [] OTHER -> "enable_uart"
Lines == {"i2c-rtc", "mcp2515", "sc16is752", "enable_uart"}

\* Only one line is edited by do_overlay, and no module's is set to off.
EditType ==
    {e \in [entry : Entries, op : Ops] :
        /\ e.op = "overlay on" => e.entry = "mcp2515"
        /\ e.op = "off" => e.entry \notin Lines}

\* Sequences of edits of the entries E, each edited at most once.
Distinct(E) ==
    {s \in Seq(EditType) :
        /\ \A i \in 1 .. Len(s) : s[i].entry \in E
        /\ \A i, j \in 1 .. Len(s) : s[i].entry = s[j].entry => i = j}

LEMMA Empty == \A E : << >> \in Distinct(E)
  BY DEF Distinct

LEMMA WiderSeq ==
    ASSUME NEW S, NEW T, S \subseteq T, NEW s \in Seq(S) PROVE s \in Seq(T)
  OBVIOUS

LEMMA FirstOf ==
    ASSUME NEW S, NEW s \in Seq(S), NEW t \in Seq(S), Len(s) > 0
    PROVE  Len(s \o t) = Len(s) + Len(t) /\ (s \o t)[1] = s[1]
  OBVIOUS

LEMMA Joined ==
    ASSUME NEW E, NEW F, E \cap F = {}, NEW s \in Distinct(E), NEW t \in Distinct(F)
    PROVE  s \o t \in Distinct(E \cup F)
<1>1. s \in Seq(EditType) /\ t \in Seq(EditType) /\ s \o t \in Seq(EditType)
  BY DEF Distinct
<1>2. ASSUME NEW i \in 1 .. Len(s \o t)
      PROVE  /\ i <= Len(s) => (s \o t)[i] = s[i] /\ s[i].entry \in E
             /\ i > Len(s) => /\ i - Len(s) \in 1 .. Len(t)
                              /\ (s \o t)[i] = t[i - Len(s)]
                              /\ t[i - Len(s)].entry \in F
  <2>1. Len(s \o t) = Len(s) + Len(t)
    BY <1>1
  <2>2. CASE i <= Len(s)
    BY <1>1, <2>1, <2>2 DEF Distinct
  <2>3. CASE i > Len(s)
    <3>1. i - Len(s) \in 1 .. Len(t)
      BY <1>1, <2>1, <2>3
    <3> QED
      BY <1>1, <2>1, <2>3, <3>1 DEF Distinct
  <2> QED
    BY <1>1, <2>2, <2>3
<1>3. ASSUME NEW i \in 1 .. Len(s \o t), NEW j \in 1 .. Len(s \o t),
             (s \o t)[i].entry = (s \o t)[j].entry
      PROVE  i = j
  <2>0. Len(s) \in Nat
    BY <1>1
  <2>1. CASE i <= Len(s) /\ j <= Len(s)
    BY <1>2, <1>3, <2>0, <2>1 DEF Distinct
  <2>2. CASE i > Len(s) /\ j > Len(s)
    <3>1. i - Len(s) = j - Len(s)
      BY <1>2, <1>3, <2>2 DEF Distinct
    <3> QED
      BY <2>0, <3>1
  <2>3. CASE (i <= Len(s)) # (j <= Len(s))
    BY <1>2, <1>3, <2>0, <2>3
  <2> QED
    BY <2>0, <2>1, <2>2, <2>3
<1>4. \A i \in 1 .. Len(s \o t) : (s \o t)[i].entry \in E \cup F
  <2>0. Len(s) \in Nat
    BY <1>1
  <2> QED
    BY <1>2, <2>0
<1> QED
  BY <1>1, <1>3, <1>4 DEF Distinct

LEMMA Added ==
    ASSUME NEW E, NEW s \in Distinct(E), NEW e \in EditType, e.entry \notin E
    PROVE  Append(s, e) \in Distinct(E \cup {e.entry})
<1>1. /\ s \in Seq(EditType) /\ Append(s, e) \in Seq(EditType)
      /\ Len(Append(s, e)) = Len(s) + 1 /\ Len(s) \in Nat
  BY DEF Distinct
<1>2. \A i \in 1 .. Len(s) + 1 : Append(s, e)[i] = IF i = Len(s) + 1 THEN e ELSE s[i]
  BY <1>1
<1>3. \A i \in 1 .. Len(s) : s[i].entry \in E
  BY DEF Distinct
<1>4. \A i \in 1 .. Len(s) + 1 : Append(s, e)[i].entry \in E \cup {e.entry}
  BY <1>1, <1>2, <1>3
<1>5. ASSUME NEW i \in 1 .. Len(s) + 1, NEW j \in 1 .. Len(s) + 1,
             Append(s, e)[i].entry = Append(s, e)[j].entry
      PROVE  i = j
  <2>1. CASE i <= Len(s) /\ j <= Len(s)
    BY <1>1, <1>2, <1>5, <2>1 DEF Distinct
  <2>2. CASE i = Len(s) + 1 \/ j = Len(s) + 1
    BY <1>1, <1>2, <1>3, <1>5, <2>2
  <2> QED
    BY <1>1, <2>1, <2>2
<1> QED
  BY <1>1, <1>4, <1>5 DEF Distinct

LEMMA Single ==
    ASSUME NEW e \in EditType PROVE <<e>> \in Distinct({e.entry})
<1>1. << >> \in Distinct({})
  BY Empty
<1>2. Append(<< >>, e) \in Distinct({} \cup {e.entry})
  BY <1>1, Added
<1>3. <<e>> = Append(<< >>, e)
  OBVIOUS
<1> QED
  BY <1>2, <1>3

LEMMA Pair ==
    ASSUME NEW e \in EditType, NEW f \in EditType, e.entry # f.entry
    PROVE  <<e, f>> \in Distinct({e.entry, f.entry})
<1>1. Append(<<e>>, f) \in Distinct({e.entry} \cup {f.entry})
  BY Single, Added
<1>2. <<e, f>> = Append(<<e>>, f)
  OBVIOUS
<1>3. {e.entry} \cup {f.entry} = {e.entry, f.entry}
  OBVIOUS
<1> QED
  BY <1>1, <1>2, <1>3

LEMMA Triple ==
    ASSUME NEW e \in EditType, NEW f \in EditType, NEW g \in EditType,
           e.entry # f.entry, g.entry \notin {e.entry, f.entry}
    PROVE  <<e, f, g>> \in Distinct({e.entry, f.entry, g.entry})
<1>1. Append(<<e, f>>, g) \in Distinct({e.entry, f.entry} \cup {g.entry})
  BY Pair, Added
<1>2. <<e, f, g>> = Append(<<e, f>>, g)
  OBVIOUS
<1>3. {e.entry, f.entry} \cup {g.entry} = {e.entry, f.entry, g.entry}
  OBVIOUS
<1> QED
  BY <1>1, <1>2, <1>3

LEMMA Four ==
    ASSUME NEW e \in EditType, NEW f \in EditType, NEW g \in EditType,
           NEW h \in EditType, e.entry # f.entry,
           g.entry \notin {e.entry, f.entry},
           h.entry \notin {e.entry, f.entry, g.entry}
    PROVE  <<e, f, g, h>> \in Distinct({e.entry, f.entry, g.entry, h.entry})
<1>1. Append(<<e, f, g>>, h) \in Distinct({e.entry, f.entry, g.entry} \cup {h.entry})
  BY Triple, Added
<1>2. <<e, f, g, h>> = Append(<<e, f, g>>, h)
  OBVIOUS
<1>3. {e.entry, f.entry, g.entry} \cup {h.entry} = {e.entry, f.entry, g.entry, h.entry}
  OBVIOUS
<1> QED
  BY <1>1, <1>2, <1>3

LEMMA Wider ==
    ASSUME NEW E, NEW F, E \subseteq F, NEW s \in Distinct(E)
    PROVE  s \in Distinct(F)
  BY DEF Distinct

LEMMA EditTyped ==
    ASSUME NEW k \in Entries, NEW o \in Ops,
           o = "overlay on" => k = "mcp2515", o = "off" => k \notin Lines
    PROVE  Edit(k, o) \in EditType /\ Edit(k, o).entry = k
  BY DEF Edit, EditType, Lines

\* Every edit of a plan is one of these.
LEMMA EditsTyped ==
    /\ \A k \in {"i2c_arm", "i2c-dev", "spi", "can0", "hwclock-set", "spi0-3cs",
                 "mcp2515-can2", "fake-hwclock", "hciuart"} :
          Edit(k, "on") \in EditType /\ Edit(k, "on").entry = k
    /\ \A k \in {"spi", "fake-hwclock", "hciuart"} :
          Edit(k, "off") \in EditType /\ Edit(k, "off").entry = k
    /\ \A k \in {"hwclock-set", "can0", "console"} :
          Edit(k, "gone") \in EditType /\ Edit(k, "gone").entry = k
    /\ \A k \in ConfigEntries, o \in {"line on", "line off", "fail"} :
          Edit(k, o) \in EditType /\ Edit(k, o).entry = k
    /\ Edit("mcp2515", "overlay on") \in EditType
    /\ Edit("mcp2515", "overlay on").entry = "mcp2515"
    /\ Edit("blacklist", "comment out") \in EditType
    /\ Edit("blacklist", "comment out").entry = "blacklist"
<1> USE DEF Edit, EditType, Lines, Entries, ConfigEntries, OtherEntries, Ops
<1>1. \A k \in {"i2c_arm", "i2c-dev", "spi", "can0", "hwclock-set", "spi0-3cs",
                "mcp2515-can2", "fake-hwclock", "hciuart"} :
          Edit(k, "on") \in EditType /\ Edit(k, "on").entry = k
  OBVIOUS
<1>2. \A k \in {"spi", "fake-hwclock", "hciuart"} :
          Edit(k, "off") \in EditType /\ Edit(k, "off").entry = k
  OBVIOUS
<1>3. \A k \in {"hwclock-set", "can0", "console"} :
          Edit(k, "gone") \in EditType /\ Edit(k, "gone").entry = k
  OBVIOUS
<1>4. \A k \in ConfigEntries, o \in {"line on", "line off", "fail"} :
          Edit(k, o) \in EditType /\ Edit(k, o).entry = k
  OBVIOUS
<1>5. /\ Edit("mcp2515", "overlay on") \in EditType
      /\ Edit("mcp2515", "overlay on").entry = "mcp2515"
      /\ Edit("blacklist", "comment out") \in EditType
      /\ Edit("blacklist", "comment out").entry = "blacklist"
  OBVIOUS
<1> QED
  BY <1>1, <1>2, <1>3, <1>4, <1>5

\* The entries a request may have edited for a module.
Touched(r, m) == IF r[m] = "skip" THEN {} ELSE EntriesOf(m)

LEMMA ChooseTouches ==
    ASSUME NEW r \in [Modules -> Answers], NEW m \in Modules,
           NEW on \in Distinct(EntriesOf(m)), NEW off \in Distinct(EntriesOf(m))
    PROVE  Choose(r, m, on, off) \in Distinct(Touched(r, m))
  BY Empty DEF Choose, Install, Uninstall, Touched, Answers

LEMMA RtcTouches ==
    ASSUME NEW r \in [Modules -> Answers]
    PROVE  RtcPart(r) \in Distinct(Touched(r, "RTC"))
<1>1. /\ <<Edit("i2c-rtc", "line on")>> \in Distinct({"i2c-rtc"})
      /\ <<Edit("i2c-rtc", "line off")>> \in Distinct({"i2c-rtc"})
  BY EditsTyped, Single DEF ConfigEntries
<1>2. /\ RtcInstall \in Distinct({"fake-hwclock", "hwclock-set"})
      /\ RtcUninstall \in Distinct({"fake-hwclock", "hwclock-set"})
  BY EditsTyped, Pair DEF RtcInstall, RtcUninstall
<1>3. {"i2c-rtc"} \cup {"fake-hwclock", "hwclock-set"} = EntriesOf("RTC")
  BY DEF EntriesOf
<1>4. /\ <<Edit("i2c-rtc", "line on")>> \o RtcInstall \in Distinct(EntriesOf("RTC"))
      /\ <<Edit("i2c-rtc", "line off")>> \o RtcUninstall \in Distinct(EntriesOf("RTC"))
  <2>1. {"i2c-rtc"} \cap {"fake-hwclock", "hwclock-set"} = {}
    OBVIOUS
  <2> QED
    BY <1>1, <1>2, <1>3, <2>1, Joined
<1>5. << >> \in Distinct(EntriesOf("RTC"))
  BY Empty
<1> QED
  BY <1>4, <1>5, ChooseTouches DEF RtcPart, Modules

LEMMA SpiTouches == \A r : SpiPart(r) \in Distinct({"spi"})
  BY EditsTyped, Single, Empty DEF SpiPart

LEMMA I2CTouches == I2CPart \in Distinct({"i2c_arm", "blacklist", "i2c-dev"})
<1>1. /\ Edit("i2c_arm", "on") \in EditType
      /\ Edit("i2c_arm", "on").entry = "i2c_arm"
      /\ Edit("blacklist", "comment out") \in EditType
      /\ Edit("blacklist", "comment out").entry = "blacklist"
      /\ Edit("i2c-dev", "on") \in EditType
      /\ Edit("i2c-dev", "on").entry = "i2c-dev"
  BY EditsTyped
<1> QED
  BY <1>1, Triple DEF I2CPart

LEMMA DtbosTouches == Dtbos \in Distinct({"spi0-3cs", "mcp2515-can2"})
<1>1. <<Edit("spi0-3cs", "on"), Edit("mcp2515-can2", "on")>>
          \in Distinct({"spi0-3cs", "mcp2515-can2"})
  BY EditsTyped, Pair
<1> QED
  BY <1>1, Empty DEF Dtbos

LEMMA CanTouches ==
    ASSUME NEW r \in [Modules -> Answers]
    PROVE  CanPart(r) \in Distinct(Touched(r, "CAN"))
<1> DEFINE Files == {"spi0-3cs", "mcp2515-can2"}
           first == IF hat.board = 1 THEN Dtbos \o <<Edit("mcp2515", "overlay on")>>
                    ELSE <<Edit("mcp2515", "line on")>>
           off == <<Edit("mcp2515", IF hat.board = 1 THEN "fail" ELSE "line off"),
                    Edit("can0", "gone")>>
<1>1. first \in Distinct(Files \cup {"mcp2515"})
  <2>1. Dtbos \in Distinct(Files)
    BY DtbosTouches
  <2>2. <<Edit("mcp2515", "overlay on")>> \in Distinct({"mcp2515"})
    BY EditsTyped, Single
  <2>3. Dtbos \o <<Edit("mcp2515", "overlay on")>> \in Distinct(Files \cup {"mcp2515"})
    <3>1. Files \cap {"mcp2515"} = {}
      OBVIOUS
    <3> HIDE DEF Files
    <3> QED
      BY <2>1, <2>2, <3>1, Joined
  <2>4. <<Edit("mcp2515", "line on")>> \in Distinct({"mcp2515"})
    BY EditsTyped, Single DEF ConfigEntries
  <2>5. <<Edit("mcp2515", "line on")>> \in Distinct(Files \cup {"mcp2515"})
    <3>1. {"mcp2515"} \subseteq Files \cup {"mcp2515"}
      OBVIOUS
    <3> HIDE DEF Files
    <3> QED
      BY <2>4, <3>1, Wider
  <2> QED
    BY <2>3, <2>5
<1>2. <<Edit("can0", "on")>> \in Distinct({"can0"})
  BY EditsTyped, Single
<1>3. (Files \cup {"mcp2515"}) \cup {"can0"} = EntriesOf("CAN")
  BY DEF EntriesOf
<1>4. first \o <<Edit("can0", "on")>> \in Distinct(EntriesOf("CAN"))
  <2>1. (Files \cup {"mcp2515"}) \cap {"can0"} = {}
    OBVIOUS
  <2> HIDE DEF first, Files
  <2> QED
    BY <1>1, <1>2, <1>3, <2>1, Joined
<1>5. off \in Distinct(EntriesOf("CAN"))
  <2>1. off \in Distinct({"mcp2515", "can0"})
    <3> DEFINE o == IF hat.board = 1 THEN "fail" ELSE "line off"
    <3>1. Edit("mcp2515", o) \in EditType /\ Edit("mcp2515", o).entry = "mcp2515"
      BY EditsTyped DEF ConfigEntries
    <3>2. Edit("can0", "gone") \in EditType /\ Edit("can0", "gone").entry = "can0"
      BY EditsTyped
    <3> HIDE DEF o
    <3>3. <<Edit("mcp2515", o), Edit("can0", "gone")>> \in Distinct({"mcp2515", "can0"})
      BY <3>1, <3>2, Pair
    <3> QED
      BY <3>3 DEF o
  <2> HIDE DEF off
  <2> QED
    BY <2>1, Wider DEF EntriesOf
<1>6. CanPart(r) = Choose(r, "CAN", first \o <<Edit("can0", "on")>>, off)
  BY DEF CanPart
<1> HIDE DEF first, off
<1> QED
  BY <1>4, <1>5, <1>6, ChooseTouches DEF Modules

LEMMA Rs485Touches ==
    ASSUME NEW r \in [Modules -> Answers]
    PROVE  Rs485Part(r) \in Distinct(Touched(r, "RS485"))
<1>1. /\ <<Edit("sc16is752", "line on")>> \in Distinct({"sc16is752"})
      /\ <<Edit("sc16is752", "line off")>> \in Distinct({"sc16is752"})
  BY EditsTyped, Single DEF ConfigEntries
<1>2. EntriesOf("RS485") = {"sc16is752"}
  BY DEF EntriesOf
<1> QED
  BY <1>1, <1>2, ChooseTouches DEF Rs485Part, Modules

LEMMA GnssTouches ==
    ASSUME NEW r \in [Modules -> Answers]
    PROVE  GnssPart(r) \in Distinct(Touched(r, "MAX-M8Q"))
<1> DEFINE on == <<Edit("enable_uart", "line on"), Edit("disable-bt", "line on"),
                   Edit("hciuart", "off"), Edit("console", "gone")>>
           off == <<Edit("enable_uart", "line off"), Edit("disable-bt", "line off"),
                    Edit("hciuart", "on")>>
<1>1. /\ Edit("enable_uart", "line on") \in EditType
      /\ Edit("enable_uart", "line on").entry = "enable_uart"
      /\ Edit("disable-bt", "line on") \in EditType
      /\ Edit("disable-bt", "line on").entry = "disable-bt"
      /\ Edit("hciuart", "off") \in EditType
      /\ Edit("hciuart", "off").entry = "hciuart"
      /\ Edit("console", "gone") \in EditType
      /\ Edit("console", "gone").entry = "console"
  BY EditsTyped DEF ConfigEntries
<1>2. on \in Distinct({"enable_uart", "disable-bt", "hciuart", "console"})
  BY <1>1, Four
<1>3. off \in Distinct({"enable_uart", "disable-bt", "hciuart"})
  <2>1. /\ Edit("enable_uart", "line off") \in EditType
        /\ Edit("enable_uart", "line off").entry = "enable_uart"
        /\ Edit("disable-bt", "line off") \in EditType
        /\ Edit("disable-bt", "line off").entry = "disable-bt"
        /\ Edit("hciuart", "on") \in EditType
        /\ Edit("hciuart", "on").entry = "hciuart"
    BY EditsTyped DEF ConfigEntries
  <2> QED
    BY <2>1, Triple
<1>4. GnssPart(r) = Choose(r, "MAX-M8Q", on, off)
  BY DEF GnssPart
<1>5. EntriesOf("MAX-M8Q") = {"enable_uart", "disable-bt", "hciuart", "console"}
  BY DEF EntriesOf
<1> HIDE DEF on, off
<1>6. off \in Distinct(EntriesOf("MAX-M8Q"))
  BY <1>3, <1>5, Wider
<1> QED
  BY <1>2, <1>4, <1>5, <1>6, ChooseTouches DEF Modules

\* The entries every run edits, and those of the modules it is asked about.
Always == {"i2c_arm", "blacklist", "i2c-dev", "gpio-poweroff", "spi"}
PlanTouches(r) ==
    Always \cup Touched(r, "RTC") \cup Touched(r, "CAN") \cup Touched(r, "RS485")
        \cup Touched(r, "MAX-M8Q")

\* A plan edits no entry twice, and none of a module to be skipped.
LEMMA PlanDistinct ==
    ASSUME NEW r \in [Modules -> Answers]
    PROVE  /\ Plan(r) \in Distinct(PlanTouches(r))
           /\ Len(Plan(r)) > 0 /\ Plan(r)[1] = Edit("i2c_arm", "on")
           /\ Plan(r)[1].entry = "i2c_arm" /\ Plan(r)[1].op = "on"
<1> DEFINE A == {"i2c_arm", "blacklist", "i2c-dev"}
           G == {"gpio-poweroff"}
           P1 == <<Edit("gpio-poweroff", "line on")>> \o RtcPart(r)
           P2 == P1 \o SpiPart(r)
           P3 == P2 \o CanPart(r)
           P4 == P3 \o Rs485Part(r)
           P5 == P4 \o GnssPart(r)
           T1 == G \cup Touched(r, "RTC")
           T2 == T1 \cup {"spi"}
           T3 == T2 \cup Touched(r, "CAN")
           T4 == T3 \cup Touched(r, "RS485")
           T5 == T4 \cup Touched(r, "MAX-M8Q")
<1>1. I2CPart \in Distinct(A)
  BY I2CTouches
<1>2. /\ <<Edit("gpio-poweroff", "line on")>> \in Distinct(G)
      /\ <<Edit("gpio-poweroff", "fail")>> \in Distinct(G)
  BY EditsTyped, Single DEF ConfigEntries
<1>3. /\ G \cap Touched(r, "RTC") = {} /\ T1 \cap {"spi"} = {}
      /\ T2 \cap Touched(r, "CAN") = {} /\ T3 \cap Touched(r, "RS485") = {}
      /\ T4 \cap Touched(r, "MAX-M8Q") = {} /\ A \cap T5 = {} /\ G \subseteq T5
      /\ A \cup T5 = PlanTouches(r)
  BY DEF Touched, EntriesOf, PlanTouches, Always
<1> HIDE DEF A, G
<1>4. P1 \in Distinct(T1)
  BY <1>2, <1>3, RtcTouches, Joined
<1> HIDE DEF P1, T1
<1>5. P2 \in Distinct(T2)
  BY <1>3, <1>4, SpiTouches, Joined
<1> HIDE DEF P2, T2
<1>6. P3 \in Distinct(T3)
  BY <1>3, <1>5, CanTouches, Joined
<1> HIDE DEF P3, T3
<1>7. P4 \in Distinct(T4)
  BY <1>3, <1>6, Rs485Touches, Joined
<1> HIDE DEF P4, T4
<1>8. P5 \in Distinct(T5)
  BY <1>3, <1>7, GnssTouches, Joined
<1> DEFINE rest == IF hat.board = 0 THEN <<Edit("gpio-poweroff", "fail")>> ELSE P5
<1>9. Plan(r) = I2CPart \o rest
  BY DEF Plan, P1, P2, P3, P4
<1> HIDE DEF P5, T5
<1>10. rest \in Distinct(T5)
  BY <1>2, <1>3, <1>8, Wider
<1> HIDE DEF rest
<1>11. /\ I2CPart \in Seq(EditType) /\ Len(I2CPart) = 3
       /\ I2CPart[1] = Edit("i2c_arm", "on")
  <2>1. I2CPart \in Seq(EditType)
    BY <1>1 DEF Distinct
  <2>2. Len(I2CPart) = 3 /\ I2CPart[1] = Edit("i2c_arm", "on")
    BY DEF I2CPart
  <2> QED
    BY <2>1, <2>2
<1>12. I2CPart \o rest \in Distinct(PlanTouches(r))
  BY <1>1, <1>3, <1>10, Joined
<1>13. rest \in Seq(EditType)
  BY <1>10 DEF Distinct
<1> HIDE DEF A, T5
<1>14. Len(I2CPart \o rest) > 0 /\ (I2CPart \o rest)[1] = I2CPart[1]
  <2>1. Len(I2CPart) > 0
    BY <1>11
  <2>2. /\ Len(I2CPart \o rest) = Len(I2CPart) + Len(rest)
        /\ (I2CPart \o rest)[1] = I2CPart[1]
    BY <1>11, <1>13, <2>1, FirstOf, Zenon
  <2>3. Len(rest) \in Nat
    BY <1>13
  <2> QED
    BY <1>11, <2>2, <2>3
<1> QED
  BY <1>9, <1>11, <1>12, <1>13, <1>14 DEF Edit

\* All it edits are entries.
LEMMA PlanEntries ==
    ASSUME NEW r \in [Modules -> Answers] PROVE Plan(r) \in Distinct(Entries)
<1>1. PlanTouches(r) \subseteq Entries
  BY DEF PlanTouches, Always, Touched, EntriesOf, Entries, ConfigEntries, OtherEntries
<1> QED
  BY <1>1, PlanDistinct, Wider

-----------------------------------------------------------------------------
(* What plans make of a system.                                            *)

\* Making an edit again changes nothing.
LEMMA DoTwice == \A o, forms : Do(o, Do(o, forms)) = Do(o, forms)
<1> SUFFICES ASSUME NEW o, NEW forms PROVE Do(o, Do(o, forms)) = Do(o, forms)
  OBVIOUS
<1>1. Uncommented(Uncommented(forms)) = Uncommented(forms)
  BY DEF Uncommented
<1>2. EnableLine(EnableLine(forms)) = EnableLine(forms)
  BY DEF EnableLine, Uncommented
<1>3. DisableLine(DisableLine(forms)) = DisableLine(forms)
  BY DEF DisableLine, CommentedOut
<1>4. DoOverlay(DoOverlay(forms)) = DoOverlay(forms)
  BY DEF DoOverlay, Uncommented
<1>5. CommentedOut(CommentedOut(forms)) = CommentedOut(forms)
  BY DEF CommentedOut
<1> QED
  BY <1>2, <1>3, <1>4, <1>5 DEF Do

\* An edit gives an entry forms.
LEMMA DoTyped ==
    ASSUME NEW o, NEW forms \in SUBSET Forms PROVE Do(o, forms) \in SUBSET Forms
<1>1. EnableLine(forms) \in SUBSET Forms
  BY DEF EnableLine, Uncommented, Forms
<1>2. DisableLine(forms) \in SUBSET Forms
  BY DEF DisableLine, CommentedOut, Forms
<1>3. DoOverlay(forms) \in SUBSET Forms
  BY DEF DoOverlay, Uncommented, Forms
<1>4. {"active"} \in SUBSET Forms /\ {"off"} \in SUBSET Forms /\ {} \in SUBSET Forms
  BY DEF Forms
<1>5. CommentedOut(forms) \in SUBSET Forms
  BY DEF CommentedOut, Forms
<1> QED
  BY <1>1, <1>2, <1>3, <1>4, <1>5 DEF Do

\* An entry that a plan edits gets that edit, and the others stay.
LEMMA OutcomeAt ==
    ASSUME NEW E \in SUBSET Entries, NEW edits \in Distinct(E), NEW s
    PROVE  /\ \A i \in 1 .. Len(edits) :
                 Outcome(edits, s)[edits[i].entry]
                     = Do(edits[i].op, s[edits[i].entry])
           /\ \A k \in Entries :
                 (\A i \in 1 .. Len(edits) : edits[i].entry # k)
                     => Outcome(edits, s)[k] = s[k]
<1>1. ASSUME NEW i \in 1 .. Len(edits)
      PROVE  Outcome(edits, s)[edits[i].entry] = Do(edits[i].op, s[edits[i].entry])
  <2>1. edits[i].entry \in Entries
    BY DEF Distinct
  <2>2. {j \in 1 .. Len(edits) : edits[j].entry = edits[i].entry} = {i}
    BY DEF Distinct
  <2>3. (CHOOSE j \in {i} : TRUE) = i
    OBVIOUS
  <2> QED
    BY <2>1, <2>2, <2>3 DEF Outcome
<1>2. ASSUME NEW k \in Entries, \A i \in 1 .. Len(edits) : edits[i].entry # k
      PROVE  Outcome(edits, s)[k] = s[k]
  <2>1. {j \in 1 .. Len(edits) : edits[j].entry = k} = {}
    BY <1>2
  <2> QED
    BY <2>1 DEF Outcome
<1> QED
  BY <1>1, <1>2

\* The outcome of a plan is a system.
LEMMA OutcomeTyped ==
    ASSUME NEW edits, NEW s \in Systems PROVE Outcome(edits, s) \in Systems
  BY DoTyped DEF Outcome, Systems

-----------------------------------------------------------------------------
(* The invariant.                                                          *)

\* The edits of a plan that are not in the rest that is still to be made.
Made(whole, rest) == 1 .. Len(whole) - Len(rest)

\* A run works its way through its plan; what it has made is made, I2C's line
\* apart when lua or mv failed.
Progress(whole, rest, s) ==
    /\ Len(rest) <= Len(whole)
    /\ Len(rest) = Len(whole) => rest = whole
    /\ \A i \in 1 .. Len(rest) : rest[i] = whole[Len(whole) - Len(rest) + i]
    /\ \A i \in Made(whole, rest) :
          \/ /\ whole[i].op # "fail"
             /\ Do(whole[i].op, s[whole[i].entry]) = s[whole[i].entry]
          \/ whole[i].entry = "i2c_arm" /\ s["i2c_arm"] # {"active"}

\* What the whole plan would make of the system stays the same during a run, and
\* during a repeated one.
ProgressInv ==
    /\ request \in Requests \cup {NoRequest}
    /\ status # "idle" => request \in Requests
    /\ status \in {"running", "done"} => Progress(Plan(request), plan, system)
    /\ status = "done" => plan = << >>
    /\ request # NoRequest => goal = Outcome(Plan(request), system)

InstallInv == InstallTypeOK /\ plan \in Seq(EditType) /\ ProgressInv

LEMMA RequestTyped ==
    ASSUME InstallAssumption, NEW r \in Requests
    PROVE  r \in [Modules -> Answers] /\ r # NoRequest
<1>1. r \in [Modules -> Answers]
  BY DEF InstallAssumption
<1>2. "RTC" \in Modules /\ r["RTC"] # "none"
  BY <1>1 DEF Modules, Answers
<1> QED
  BY <1>1, <1>2 DEF NoRequest

LEMMA PlansTyped == Seq(EditType) \subseteq Seq([entry : Entries, op : Ops])
<1>1. EditType \subseteq [entry : Entries, op : Ops]
  BY DEF EditType
<1> QED
  BY <1>1, WiderSeq

\* The plan depends on the hardware and on nothing a run changes.
LEMMA SamePlan ==
    ASSUME UNCHANGED <<hat, bound, request>>
    PROVE  Plan(request)' = Plan(request)
  BY DEF Plan, I2CPart, RtcPart, RtcSeen, SpiPart, CanPart, Dtbos, Rs485Part,
         GnssPart, Choose, RtcInstall, RtcUninstall

LEMMA InitInstall == InstallInit => InstallInv
<1> SUFFICES ASSUME InstallInit PROVE InstallInv
  OBVIOUS
<1>1. << >> \in Seq([entry : Entries, op : Ops]) /\ << >> \in Seq(EditType)
  OBVIOUS
<1>2. 0 \in 0 .. MaxRuns
  BY InstallAssumption DEF InstallAssumption
<1>3. InstallTypeOK
  BY <1>1, <1>2, InstallAssumption
     DEF InstallInit, InstallTypeOK, InstallAssumption
<1> QED
  BY <1>1, <1>3 DEF InstallInit, InstallInv, ProgressInv

\* A new run has all of its plan before it.
LEMMA StepStart ==
    ASSUME InstallInv, StartRun PROVE InstallInv'
<1>1. PICK r \in Requests :
          /\ request' = r /\ plan' = Plan(r)
          /\ IF r = request THEN UNCHANGED <<goal, sound>>
             ELSE goal' = Outcome(Plan(r), system) /\ sound' = BusUnderOverlays
  BY DEF StartRun
<1>2. /\ status' = "running" /\ runs' = runs + 1 /\ runs < MaxRuns
      /\ UNCHANGED <<system, hat, bound>>
  BY DEF StartRun, hardware
<1>3. r \in [Modules -> Answers] /\ r # NoRequest
  BY InstallAssumption, RequestTyped
<1>4. Plan(r) \in Seq(EditType)
  BY <1>3, PlanDistinct DEF Distinct
<1>5. Plan(request)' = Plan(r)
  <2>1. RtcPart(request)' = RtcPart(r)
    BY <1>1, <1>2 DEF RtcPart, RtcSeen, Choose, Install, Uninstall
  <2>2. SpiPart(request)' = SpiPart(r)
    BY <1>1 DEF SpiPart, Install, Uninstall
  <2>3. CanPart(request)' = CanPart(r)
    BY <1>1, <1>2 DEF CanPart, Dtbos, Choose, Install, Uninstall
  <2>4. Rs485Part(request)' = Rs485Part(r) /\ GnssPart(request)' = GnssPart(r)
    BY <1>1 DEF Rs485Part, GnssPart, Choose, Install, Uninstall
  <2> QED
    BY <1>2, <2>1, <2>2, <2>3, <2>4 DEF Plan
<1>6. goal' = Outcome(Plan(r), system)
  BY <1>1, <1>3 DEF InstallInv, ProgressInv
<1>7. Progress(Plan(r), Plan(r), system)
  BY <1>4 DEF Progress, Made
<1>8. ProgressInv'
  BY <1>1, <1>2, <1>5, <1>6, <1>7 DEF ProgressInv
<1>9. InstallTypeOK'
  <2>1. goal' \in Systems
    BY <1>2, <1>6, OutcomeTyped DEF InstallInv, InstallTypeOK
  <2>2. plan' \in Seq([entry : Entries, op : Ops])
    BY <1>1, <1>4, PlansTyped
  <2>3. sound' \in BOOLEAN
    BY <1>1 DEF InstallInv, InstallTypeOK, BusUnderOverlays
  <2>4. runs' \in 0 .. MaxRuns
    BY <1>2, InstallAssumption DEF InstallInv, InstallTypeOK, InstallAssumption
  <2> QED
    BY <1>1, <1>2, <2>1, <2>2, <2>3, <2>4 DEF InstallInv, InstallTypeOK
<1> QED
  BY <1>1, <1>4, <1>8, <1>9 DEF InstallInv

\* An edit makes its entry what the whole plan would, and no other edit of the
\* plan is of this entry.
LEMMA StepEdit ==
    ASSUME InstallInv, MakeEdit PROVE InstallInv'
<1> DEFINE e == Head(plan)
           P == Plan(request)
           d == Len(P) - Len(plan)
<1>1. /\ status = "running" /\ plan # << >> /\ e.op # "fail"
      /\ system' = [system EXCEPT ![e.entry] = Do(e.op, @)]
      /\ plan' = Tail(plan)
      /\ UNCHANGED <<hat, bound, request, status, runs, goal, sound>>
  BY DEF MakeEdit, hardware
<1>2. request \in Requests /\ request # NoRequest
  BY <1>1, InstallAssumption, RequestTyped DEF InstallInv, ProgressInv
<1>3. P \in Distinct(Entries)
  <2>1. request \in [Modules -> Answers]
    BY <1>2, InstallAssumption, RequestTyped
  <2>2. PlanTouches(request) \subseteq Entries
    BY DEF PlanTouches, Always, Touched, EntriesOf, Entries, ConfigEntries, OtherEntries
  <2> QED
    BY <2>1, <2>2, PlanDistinct, Wider
<1>4. plan \in Seq(EditType) /\ P \in Seq(EditType)
  BY <1>3 DEF InstallInv, Distinct
<1>5. Plan(request)' = P
  BY <1>1, SamePlan
<1>6. Progress(P, plan, system) /\ goal = Outcome(P, system)
  BY <1>1, <1>2 DEF InstallInv, ProgressInv
<1> HIDE DEF P
<1>7. /\ Len(plan) \in Nat /\ Len(plan) > 0 /\ Len(P) \in Nat
      /\ e = plan[1] /\ plan' \in Seq(EditType) /\ Len(plan') = Len(plan) - 1
      /\ \A i \in 1 .. Len(plan) - 1 : plan'[i] = plan[i + 1]
  BY <1>1, <1>4
<1>8. d \in Nat /\ d + 1 \in 1 .. Len(P) /\ e = P[d + 1]
  BY <1>6, <1>7 DEF Progress
<1>9. /\ e \in EditType /\ e.entry \in Entries /\ system \in Systems
      /\ system'[e.entry] = Do(e.op, system[e.entry])
      /\ \A k \in Entries \ {e.entry} : system'[k] = system[k]
  <2>1. e \in EditType
    BY <1>4, <1>7
  <2>2. e.entry \in Entries /\ system \in Systems
    BY <2>1 DEF EditType, InstallInv, InstallTypeOK
  <2> QED
    BY <1>1, <2>1, <2>2 DEF Systems
<1> HIDE DEF e
<1>10. \A i \in 1 .. Len(P) : P[i].entry \in Entries /\ (P[i].entry = e.entry => i = d + 1)
  BY <1>3, <1>8 DEF Distinct
<1>11. Outcome(P, system') = Outcome(P, system)
  <2>1. ASSUME NEW k \in Entries PROVE Outcome(P, system')[k] = Outcome(P, system)[k]
    <3>1. CASE k = e.entry
      <4>1. /\ Outcome(P, system')[k] = Do(e.op, system'[k])
            /\ Outcome(P, system)[k] = Do(e.op, system[k])
        BY <1>3, <1>8, <3>1, OutcomeAt
      <4> QED
        BY <1>9, <3>1, <4>1, DoTwice
    <3>2. CASE k # e.entry /\ \E i \in 1 .. Len(P) : P[i].entry = k
      <4>1. PICK i \in 1 .. Len(P) : P[i].entry = k
        BY <3>2
      <4>2. /\ Outcome(P, system')[k] = Do(P[i].op, system'[k])
            /\ Outcome(P, system)[k] = Do(P[i].op, system[k])
        BY <1>3, <4>1, OutcomeAt
      <4> QED
        BY <1>9, <3>2, <4>2
    <3>3. CASE k # e.entry /\ \A i \in 1 .. Len(P) : P[i].entry # k
      <4>1. /\ Outcome(P, system')[k] = system'[k]
            /\ Outcome(P, system)[k] = system[k]
        BY <1>3, <3>3, OutcomeAt
      <4> QED
        BY <1>9, <3>3, <4>1
    <3> QED
      BY <3>1, <3>2, <3>3
  <2>2. \A s : /\ DOMAIN Outcome(P, s) = Entries
              /\ Outcome(P, s) = [k \in DOMAIN Outcome(P, s) |-> Outcome(P, s)[k]]
    BY DEF Outcome
  <2> QED
    BY <2>1, <2>2
<1>12. Progress(P, plan', system')
  <2>1. /\ Len(plan') <= Len(P)
        /\ Len(plan') = Len(P) => plan' = P
        /\ \A i \in 1 .. Len(plan') : plan'[i] = P[Len(P) - Len(plan') + i]
    BY <1>6, <1>7 DEF Progress
  <2>2. ASSUME NEW i \in Made(P, plan')
        PROVE  \/ /\ P[i].op # "fail"
                  /\ Do(P[i].op, system'[P[i].entry]) = system'[P[i].entry]
               \/ P[i].entry = "i2c_arm" /\ system'["i2c_arm"] # {"active"}
    <3>1. i \in 1 .. Len(P) /\ i <= d + 1
      BY <1>7, <1>8 DEF Made
    <3>2. CASE i = d + 1
      BY <1>1, <1>8, <1>9, <3>2, DoTwice
    <3>3. CASE i < d + 1
      <4>1. i \in Made(P, plan)
        BY <1>7, <3>1, <3>3 DEF Made
      <4>2. P[i].entry \in Entries /\ P[i].entry # e.entry
        BY <1>8, <1>10, <3>1, <3>3
      <4>3. system'[P[i].entry] = system[P[i].entry]
        BY <1>9, <4>2
      <4> QED
        BY <1>6, <4>1, <4>3 DEF Progress
    <3> QED
      BY <1>8, <3>1, <3>2, <3>3
  <2> QED
    BY <2>1, <2>2 DEF Progress
<1>13. ProgressInv'
  BY <1>1, <1>2, <1>5, <1>6, <1>11, <1>12 DEF ProgressInv, InstallInv
<1>14. system' \in Systems
  <2>1. Do(e.op, system[e.entry]) \in SUBSET Forms
    BY <1>9, DoTyped DEF Systems
  <2> QED
    BY <1>1, <1>9, <2>1 DEF Systems
<1>15. plan' \in Seq([entry : Entries, op : Ops])
  BY <1>7, PlansTyped
<1> QED
  BY <1>1, <1>7, <1>13, <1>14, <1>15 DEF InstallInv, InstallTypeOK

\* lua or mv fails before anything else has been edited, and the run goes on.
LEMMA StepSkip ==
    ASSUME InstallInv, LuaFails \/ MvFails PROVE InstallInv'
<1> DEFINE P == Plan(request)
<1>1. /\ status = "running" /\ plan # << >> /\ Head(plan).entry = "i2c_arm"
      /\ plan' = Tail(plan)
      /\ \/ /\ system' = [k \in Entries |-> IF k \in ConfigEntries THEN {} ELSE system[k]]
            /\ goal' = Outcome(plan, system')
         \/ UNCHANGED <<system, goal>>
      /\ UNCHANGED <<hat, bound, request, status, runs, sound>>
  BY DEF LuaFails, MvFails, hardware
<1>2. request \in Requests /\ request # NoRequest
  BY <1>1, InstallAssumption, RequestTyped DEF InstallInv, ProgressInv
<1>3. /\ P \in Distinct(PlanTouches(request))
      /\ Len(P) > 0 /\ P[1].entry = "i2c_arm" /\ P[1].op = "on"
  BY <1>2, InstallAssumption, RequestTyped, PlanDistinct
<1>4. plan \in Seq(EditType) /\ P \in Seq(EditType)
  BY <1>3 DEF InstallInv, Distinct
<1>5. Plan(request)' = P
  BY <1>1, SamePlan
<1>6. Progress(P, plan, system) /\ goal = Outcome(P, system)
  BY <1>1, <1>2 DEF InstallInv, ProgressInv
<1> HIDE DEF P
<1>7. /\ Len(plan) \in Nat /\ Len(plan) > 0 /\ Len(P) \in Nat
      /\ Head(plan) = plan[1] /\ plan' \in Seq(EditType) /\ Len(plan') = Len(plan) - 1
      /\ \A i \in 1 .. Len(plan) - 1 : plan'[i] = plan[i + 1]
  BY <1>1, <1>4
<1>8. plan = P
  <2>1. 1 \in 1 .. Len(plan) /\ Len(P) - Len(plan) + 1 \in 1 .. Len(P)
    BY <1>6, <1>7 DEF Progress
  <2>2. P[Len(P) - Len(plan) + 1].entry = "i2c_arm"
    BY <1>1, <1>6, <1>7, <2>1 DEF Progress
  <2>3. Len(P) - Len(plan) + 1 = 1
    BY <1>3, <1>7, <2>1, <2>2 DEF Distinct
  <2> QED
    BY <1>6, <1>7, <2>3 DEF Progress
<1>9. system' \in Systems
  BY <1>1 DEF InstallInv, InstallTypeOK, Systems, Entries, ConfigEntries
<1>10. goal' = Outcome(P, system') /\ goal' \in Systems
  BY <1>1, <1>6, <1>8, <1>9, OutcomeTyped DEF InstallInv, InstallTypeOK
<1>11. Progress(P, plan', system')
  <2>1. Made(P, plan') = {1}
    BY <1>7, <1>8 DEF Made
  <2>2. \/ Do("on", system'["i2c_arm"]) = system'["i2c_arm"]
        \/ system'["i2c_arm"] # {"active"}
    BY DEF Do
  <2> QED
    BY <1>3, <1>7, <1>8, <2>1, <2>2 DEF Progress
<1>12. ProgressInv'
  BY <1>1, <1>2, <1>5, <1>10, <1>11 DEF ProgressInv
<1>13. plan' \in Seq([entry : Entries, op : Ops])
  BY <1>7, PlansTyped
<1> QED
  BY <1>1, <1>7, <1>9, <1>10, <1>12, <1>13 DEF InstallInv, InstallTypeOK

\* The other steps leave the system alone.
LEMMA StepRest ==
    ASSUME InstallInv, FinishRun \/ AbortRun \/ Reboot \/ UNCHANGED vars
    PROVE  InstallInv'
<1>0. << >> \in Seq([entry : Entries, op : Ops]) /\ << >> \in Seq(EditType)
  OBVIOUS
<1>1. CASE FinishRun \/ UNCHANGED vars
  <2>1. /\ UNCHANGED <<system, hat, bound, request, plan, runs, goal, sound>>
        /\ \/ status' = status
           \/ status = "running" /\ status' = "done" /\ plan = << >>
    <3>1. CASE FinishRun
      BY <3>1 DEF FinishRun, hardware
    <3>2. CASE UNCHANGED vars
      BY <3>2 DEF vars
    <3> QED
      BY <1>1, <3>1, <3>2
  <2>2. Plan(request)' = Plan(request)
    BY <2>1, SamePlan
  <2> QED
    BY <2>1, <2>2 DEF InstallInv, InstallTypeOK, ProgressInv
<1>2. CASE AbortRun
  <2>1. /\ UNCHANGED <<system, hat, bound, request, runs, goal, sound>>
        /\ status = "running" /\ status' = "aborted" /\ plan' = << >>
    BY <1>2 DEF AbortRun, hardware
  <2>2. Plan(request)' = Plan(request)
    BY <2>1, SamePlan
  <2> QED
    BY <1>0, <2>1, <2>2 DEF InstallInv, InstallTypeOK, ProgressInv
<1>3. CASE Reboot
  <2>1. /\ UNCHANGED <<system, hat, plan, runs, goal, sound>>
        /\ request' = NoRequest /\ status' = "idle"
        /\ bound' = (hat.fitted /\ Active("i2c-rtc"))
    BY <1>3 DEF Reboot
  <2>2. bound' \in BOOLEAN
    <3>1. hat.fitted \in BOOLEAN
      BY InstallAssumption DEF InstallAssumption, InstallInv, InstallTypeOK
    <3>2. Active("i2c-rtc") \in BOOLEAN
      BY DEF Active
    <3> QED
      BY <2>1, <3>1, <3>2
  <2> QED
    BY <2>1, <2>2 DEF InstallInv, InstallTypeOK, ProgressInv
<1> QED
  BY <1>1, <1>2, <1>3

LEMMA StepInstall == InstallInv /\ [InstallNext]_vars => InstallInv'
  BY StepStart, StepEdit, StepSkip, StepRest DEF InstallNext

\* The types of the script's model, for any boards, requests and systems.
THEOREM InstallTyped == InstallSpec => []InstallTypeOK
<1>1. InstallInv => InstallTypeOK
  BY DEF InstallInv
<1> QED
  BY <1>1, InitInstall, StepInstall, PTL DEF InstallSpec

\* Whatever the system was before the first run, and however many runs were
\* aborted, a completed run ends where the undisturbed one would have.
THEOREM RetryAlwaysConverges == InstallSpec => []RetryConverges
<1>1. InstallInv => RetryConverges
  <2> SUFFICES ASSUME InstallInv, status = "done", system["i2c_arm"] = {"active"}
               PROVE  system = goal
    BY DEF RetryConverges
  <2> DEFINE P == Plan(request)
  <2>1. request \in Requests /\ request # NoRequest
    BY InstallAssumption, RequestTyped DEF InstallInv, ProgressInv
  <2>2. P \in Distinct(Entries)
    BY <2>1, InstallAssumption, RequestTyped, PlanEntries
  <2>3. Progress(P, << >>, system) /\ goal = Outcome(P, system)
    BY <2>1 DEF InstallInv, ProgressInv
  <2> HIDE DEF P
  <2>4. ASSUME NEW i \in 1 .. Len(P)
        PROVE  Do(P[i].op, system[P[i].entry]) = system[P[i].entry]
    <3>1. i \in Made(P, << >>)
      BY <2>2 DEF Made, Distinct
    <3> QED
      BY <2>3, <3>1 DEF Progress
  <2>5. ASSUME NEW k \in Entries PROVE Outcome(P, system)[k] = system[k]
    <3>1. CASE \E i \in 1 .. Len(P) : P[i].entry = k
      BY <2>2, <2>4, <3>1, OutcomeAt
    <3>2. CASE \A i \in 1 .. Len(P) : P[i].entry # k
      BY <2>2, <3>2, OutcomeAt
    <3> QED
      BY <3>1, <3>2
  <2>6. goal \in Systems /\ system \in Systems
    BY DEF InstallInv, InstallTypeOK
  <2> QED
    BY <2>3, <2>5, <2>6 DEF Systems
<1> QED
  BY <1>1, InitInstall, StepInstall, PTL DEF InstallSpec

-----------------------------------------------------------------------------
(* What was not asked about.                                               *)

\* Only edits of the request's plan, and a failing lua, change the system.
LEMMA StepOthers ==
    InstallInv /\ [InstallNext]_vars =>
        (~LuaFails =>
            \A m \in Modules : request'[m] = "skip" =>
                \A k \in EntriesOf(m) : system'[k] = system[k])
<1> SUFFICES ASSUME InstallInv, [InstallNext]_vars, ~LuaFails, NEW m \in Modules,
                    request'[m] = "skip", NEW k \in EntriesOf(m)
             PROVE  system'[k] = system[k]
  OBVIOUS
<1>1. CASE MakeEdit
  <2> DEFINE P == Plan(request)
             e == Head(plan)
  <2>1. /\ status = "running" /\ plan # << >> /\ request[m] = "skip"
        /\ system' = [system EXCEPT ![e.entry] = Do(e.op, @)]
    BY <1>1 DEF MakeEdit
  <2>2. request \in Requests /\ Progress(P, plan, system)
    BY <2>1 DEF InstallInv, ProgressInv
  <2>3. request \in [Modules -> Answers]
    BY <2>2, InstallAssumption, RequestTyped
  <2>4. P \in Distinct(PlanTouches(request))
    BY <2>3, PlanDistinct
  <2>5. k \notin PlanTouches(request) /\ k \in Entries
    BY <2>1, <2>3 DEF PlanTouches, Touched, Always, EntriesOf, Modules, Entries,
                      ConfigEntries, OtherEntries
  <2> HIDE DEF P
  <2>6. e = plan[1] /\ Len(plan) \in Nat /\ Len(plan) > 0 /\ Len(P) \in Nat
    BY <2>1, <2>4 DEF InstallInv, Distinct
  <2>7. \E i \in 1 .. Len(P) : e = P[i]
    BY <2>2, <2>6 DEF Progress
  <2>8. e.entry # k
    BY <2>4, <2>5, <2>7 DEF Distinct
  <2> QED
    BY <2>1, <2>5, <2>8 DEF InstallInv, InstallTypeOK, Systems
<1>2. CASE ~MakeEdit
  BY <1>2 DEF InstallNext, StartRun, FinishRun, AbortRun, MvFails, Reboot, vars
<1> QED
  BY <1>1, <1>2

\* A module that is not asked about keeps its entries, in every run on any board.
THEOREM OthersAlwaysUntouched == InstallSpec => OthersUntouched
  BY InitInstall, StepInstall, StepOthers, PTL DEF InstallSpec, OthersUntouched

-----------------------------------------------------------------------------
(* Single copies, and what was asked for.                                  *)

\* No line twice, and none that a person commented out or another tool set to
\* off where the script looks for a module.
Orderly(s) ==
    /\ \A k \in Entries : \A f, g \in s[k] : f = g
    /\ \A k \in Lines : s[k] \subseteq {"active", "commented"}

\* An edit makes one copy out of one.
LEMMA DoOrderly ==
    ASSUME NEW o \in Ops, NEW forms, \A f, g \in forms : f = g,
           o = "overlay on" => forms \subseteq {"active", "commented"}
    PROVE  /\ \A f, g \in Do(o, forms) : f = g
           /\ o # "off" /\ forms \subseteq {"active", "commented"}
                => Do(o, forms) \subseteq {"active", "commented"}
<1>1. /\ \A f, g \in EnableLine(forms) : f = g
      /\ forms \subseteq {"active", "commented"}
            => EnableLine(forms) \subseteq {"active", "commented"}
  BY DEF EnableLine, Uncommented
<1>4. /\ \A f, g \in CommentedOut(forms) : f = g
      /\ forms \subseteq {"active", "commented"}
            => CommentedOut(forms) \subseteq {"active", "commented"}
  BY DEF CommentedOut
<1>2. /\ \A f, g \in DisableLine(forms) : f = g
      /\ forms \subseteq {"active", "commented"}
            => DisableLine(forms) \subseteq {"active", "commented"}
  BY DEF DisableLine, CommentedOut
<1>3. forms \subseteq {"active", "commented"} =>
          /\ \A f, g \in DoOverlay(forms) : f = g
          /\ DoOverlay(forms) \subseteq {"active", "commented"}
  BY DEF DoOverlay, Uncommented
<1> QED
  BY <1>1, <1>2, <1>3, <1>4 DEF Do, Ops

LEMMA StepOrderly ==
    InstallInv /\ Orderly(system) /\ [InstallNext]_vars => Orderly(system)'
<1> SUFFICES ASSUME InstallInv, Orderly(system), [InstallNext]_vars
             PROVE  Orderly(system')
  OBVIOUS
<1>l. Lines \subseteq Entries
  BY DEF Lines, Entries, ConfigEntries
<1>1. CASE MakeEdit
  <2> DEFINE e == Head(plan)
  <2>1. /\ plan # << >> /\ plan \in Seq(EditType)
        /\ system' = [system EXCEPT ![e.entry] = Do(e.op, @)]
    BY <1>1 DEF MakeEdit, InstallInv
  <2>2. e \in EditType
    BY <2>1
  <2>3. /\ e.entry \in Entries /\ e.op \in Ops
        /\ e.op = "overlay on" => e.entry \in Lines
        /\ e.op = "off" => e.entry \notin Lines
    BY <2>2 DEF EditType, Lines
  <2> HIDE DEF e
  <2>4. /\ system'[e.entry] = Do(e.op, system[e.entry])
        /\ \A k \in Entries \ {e.entry} : system'[k] = system[k]
    BY <2>1, <2>3 DEF InstallInv, InstallTypeOK, Systems
  <2>5. /\ \A f, g \in Do(e.op, system[e.entry]) : f = g
        /\ e.entry \in Lines =>
              Do(e.op, system[e.entry]) \subseteq {"active", "commented"}
    BY <2>3, DoOrderly DEF Orderly
  <2>6. ASSUME NEW k \in Entries PROVE \A f, g \in system'[k] : f = g
    BY <2>4, <2>5, <2>6 DEF Orderly
  <2>7. ASSUME NEW k \in Lines PROVE system'[k] \subseteq {"active", "commented"}
    BY <1>l, <2>4, <2>5, <2>7 DEF Orderly
  <2> QED
    BY <2>6, <2>7 DEF Orderly
<1>2. CASE LuaFails
  <2>1. \A k \in Entries : system'[k] \in {{}, system[k]}
    BY <1>2 DEF LuaFails
  <2> QED
    BY <1>l, <2>1 DEF Orderly
<1>3. CASE ~MakeEdit /\ ~LuaFails
  <2>1. system' = system
    BY <1>3 DEF InstallNext, StartRun, FinishRun, AbortRun, MvFails, Reboot, vars
  <2> QED
    BY <2>1
<1> QED
  BY <1>1, <1>2, <1>3

\* From a system without second copies no sequence of runs makes one.
THEOREM OneCopyKept ==
    (\A s \in Shipped : Orderly(s)) /\ InstallSpec => []OneCopy
<1>1. (\A s \in Shipped : Orderly(s)) /\ InstallInit => Orderly(system)
  BY DEF InstallInit
<1>2. Orderly(system) => OneCopy
  BY DEF Orderly, OneCopy
<1> QED
  BY <1>1, <1>2, InitInstall, StepInstall, StepOrderly, PTL DEF InstallSpec

\* An edit that is in a sequence is in what the sequence is joined to.
In(e, s) == \E i \in 1 .. Len(s) : s[i] = e

LEMMA Tuples ==
    ASSUME NEW e \in EditType, NEW f \in EditType
    PROVE  <<e>> \in Seq(EditType) /\ <<e, f>> \in Seq(EditType)
<1>1. <<e>> \in Seq(EditType)
  OBVIOUS
<1>2. <<e, f>> \in Seq(EditType)
  OBVIOUS
<1> QED
  BY <1>1, <1>2

LEMMA InJoined ==
    ASSUME NEW s \in Seq(EditType), NEW t \in Seq(EditType), NEW e,
           In(e, s) \/ In(e, t)
    PROVE  In(e, s \o t)
<1>1. CASE In(e, s)
  <2>1. PICK i \in 1 .. Len(s) : s[i] = e
    BY <1>1 DEF In
  <2>2. i \in 1 .. Len(s \o t) /\ (s \o t)[i] = e
    BY <2>1
  <2> QED
    BY <2>2 DEF In
<1>2. CASE In(e, t)
  <2>1. PICK i \in 1 .. Len(t) : t[i] = e
    BY <1>2 DEF In
  <2>2. Len(s) + i \in 1 .. Len(s \o t) /\ (s \o t)[Len(s) + i] = e
    BY <2>1
  <2> QED
    BY <2>2 DEF In
<1> QED
  BY <1>1, <1>2

LEMMA JoinedTyped ==
    ASSUME NEW s \in Seq(EditType), NEW t \in Seq(EditType)
    PROVE  s \o t \in Seq(EditType)
  OBVIOUS

\* With a HAT, what is in the part of a module is in the plan.
LEMMA InPlan ==
    ASSUME NEW r \in [Modules -> Answers], hat.board # 0, NEW e,
           \/ In(e, RtcPart(r)) \/ In(e, SpiPart(r)) \/ In(e, CanPart(r))
           \/ In(e, Rs485Part(r)) \/ In(e, GnssPart(r))
    PROVE  In(e, Plan(r))
<1> DEFINE P1 == <<Edit("gpio-poweroff", "line on")>> \o RtcPart(r)
           P2 == P1 \o SpiPart(r)
           P3 == P2 \o CanPart(r)
           P4 == P3 \o Rs485Part(r)
           P5 == P4 \o GnssPart(r)
<1>1. /\ RtcPart(r) \in Seq(EditType) /\ SpiPart(r) \in Seq(EditType)
      /\ CanPart(r) \in Seq(EditType) /\ Rs485Part(r) \in Seq(EditType)
      /\ GnssPart(r) \in Seq(EditType)
  BY RtcTouches, SpiTouches, CanTouches, Rs485Touches, GnssTouches DEF Distinct
<1>2. /\ <<Edit("gpio-poweroff", "line on")>> \in Seq(EditType)
      /\ I2CPart \in Seq(EditType)
  <2>1. Edit("gpio-poweroff", "line on") \in EditType
    BY EditsTyped DEF ConfigEntries
  <2> QED
    BY <2>1, Tuples, I2CTouches DEF Distinct
<1>3. P1 \in Seq(EditType) /\ (In(e, RtcPart(r)) => In(e, P1))
  <2>1. P1 \in Seq(EditType)
    BY <1>1, <1>2, JoinedTyped
  <2>2. In(e, RtcPart(r)) => In(e, P1)
    BY <1>1, <1>2, InJoined
  <2> QED
    BY <2>1, <2>2
<1> HIDE DEF P1
<1>4. P2 \in Seq(EditType) /\ (In(e, P1) \/ In(e, SpiPart(r)) => In(e, P2))
  BY <1>1, <1>3, InJoined
<1> HIDE DEF P2
<1>5. P3 \in Seq(EditType) /\ (In(e, P2) \/ In(e, CanPart(r)) => In(e, P3))
  BY <1>1, <1>4, InJoined
<1> HIDE DEF P3
<1>6. P4 \in Seq(EditType) /\ (In(e, P3) \/ In(e, Rs485Part(r)) => In(e, P4))
  BY <1>1, <1>5, InJoined
<1> HIDE DEF P4
<1>7. P5 \in Seq(EditType) /\ (In(e, P4) \/ In(e, GnssPart(r)) => In(e, P5))
  BY <1>1, <1>6, InJoined
<1>8. In(e, I2CPart \o P5)
  <2> HIDE DEF P5
  <2> QED
    BY <1>2, <1>3, <1>4, <1>5, <1>6, <1>7, InJoined
<1>9. Plan(r) = I2CPart \o P5
  BY DEF Plan, P1, P2, P3, P4
<1> QED
  BY <1>8, <1>9

\* The edit by which a module is enabled, or disabled, is in the plan.
LEMMA PlanHas ==
    ASSUME NEW r \in [Modules -> Answers], hat.board # 0, NEW m \in Modules
    PROVE  /\ Install(r, m) /\ (m = "RTC" => RtcSeen) =>
                 \/ In(Edit(LineOf(m), "line on"), Plan(r))
                 \/ In(Edit(LineOf(m), "overlay on"), Plan(r))
           /\ r[m] = "disable" =>
                 \/ In(Edit(LineOf(m), "line off"), Plan(r))
                 \/ In(Edit(LineOf(m), "fail"), Plan(r))
<1> DEFINE Enabled == Install(r, m) /\ (m = "RTC" => RtcSeen)
           Disabled == r[m] = "disable"
<1>0. Disabled => Uninstall(r, m) /\ ~Install(r, m)
  BY DEF Install, Uninstall
<1>i. /\ \A a, b : In(a, <<a, b>>)
      /\ \A a : In(a, <<a>>)
      /\ \A a, b, c : In(a, <<a, b, c>>)
      /\ \A a, b, c, d : In(a, <<a, b, c, d>>)
      /\ \A a, b : In(b, <<a, b>>)
  <2>1. \A a, b : <<a, b>>[1] = a /\ <<a, b>>[2] = b /\ Len(<<a, b>>) = 2
    OBVIOUS
  <2>2. \A a, b, c : <<a, b, c>>[1] = a /\ Len(<<a, b, c>>) = 3
    OBVIOUS
  <2>3. \A a, b, c, d : <<a, b, c, d>>[1] = a /\ Len(<<a, b, c, d>>) = 4
    OBVIOUS
  <2>4. \A a : <<a>>[1] = a /\ Len(<<a>>) = 1
    OBVIOUS
  <2> QED
    BY <2>1, <2>2, <2>3, <2>4 DEF In
<1>1. CASE m = "RTC"
  <2>1. LineOf(m) = "i2c-rtc"
    BY <1>1 DEF LineOf
  <2>t. /\ <<Edit("i2c-rtc", "line on")>> \in Seq(EditType)
        /\ <<Edit("i2c-rtc", "line off")>> \in Seq(EditType)
        /\ RtcInstall \in Seq(EditType) /\ RtcUninstall \in Seq(EditType)
    BY EditsTyped, Tuples DEF RtcInstall, RtcUninstall, ConfigEntries
  <2>2. Enabled => In(Edit("i2c-rtc", "line on"), RtcPart(r))
    <3>1. Enabled => RtcPart(r) = <<Edit("i2c-rtc", "line on")>> \o RtcInstall
      BY <1>1 DEF RtcPart, Choose
    <3> QED
      BY <1>i, <2>t, <3>1, InJoined
  <2>3. Disabled => In(Edit("i2c-rtc", "line off"), RtcPart(r))
    <3>1. Disabled => RtcPart(r) = <<Edit("i2c-rtc", "line off")>> \o RtcUninstall
      BY <1>0, <1>1 DEF RtcPart, Choose
    <3> QED
      BY <1>i, <2>t, <3>1, InJoined
  <2> QED
    BY <2>1, <2>2, <2>3, InPlan
<1>2. CASE m = "CAN"
  <2>1. LineOf(m) = "mcp2515"
    BY <1>2 DEF LineOf
  <2> DEFINE first == IF hat.board = 1
                      THEN Dtbos \o <<Edit("mcp2515", "overlay on")>>
                      ELSE <<Edit("mcp2515", "line on")>>
             o == IF hat.board = 1 THEN "overlay on" ELSE "line on"
             p == IF hat.board = 1 THEN "fail" ELSE "line off"
  <2>d. /\ Dtbos \in Seq(EditType) /\ <<Edit("can0", "on")>> \in Seq(EditType)
        /\ <<Edit("mcp2515", "overlay on")>> \in Seq(EditType)
        /\ <<Edit("mcp2515", "line on")>> \in Seq(EditType)
    <3>1. /\ Edit("mcp2515", "overlay on") \in EditType
          /\ Edit("mcp2515", "line on") \in EditType /\ Edit("can0", "on") \in EditType
      BY EditsTyped DEF ConfigEntries
    <3>2. Dtbos \in Seq(EditType)
      BY DtbosTouches DEF Distinct
    <3> QED
      BY <3>1, <3>2, Tuples
  <2>t. first \in Seq(EditType) /\ <<Edit("can0", "on")>> \in Seq(EditType)
    BY <2>d, JoinedTyped
  <2>2. In(Edit("mcp2515", o), first)
    BY <1>i, <2>d, InJoined
  <2>3. Enabled => In(Edit("mcp2515", o), CanPart(r))
    <3>1. Enabled => CanPart(r) = first \o <<Edit("can0", "on")>>
      BY <1>2 DEF CanPart, Choose
    <3> HIDE DEF first, o
    <3> QED
      BY <2>t, <2>2, <3>1, InJoined
  <2>4. Disabled => In(Edit("mcp2515", p), CanPart(r))
    <3>1. Disabled => CanPart(r) = <<Edit("mcp2515", p), Edit("can0", "gone")>>
      BY <1>0, <1>2 DEF CanPart, Choose
    <3> HIDE DEF p
    <3> QED
      BY <1>i, <3>1
  <2>5. Enabled => In(Edit("mcp2515", o), Plan(r))
    BY <2>3, InPlan
  <2>6. Disabled => In(Edit("mcp2515", p), Plan(r))
    BY <2>4, InPlan
  <2> QED
    BY <2>1, <2>5, <2>6
<1>3. CASE m = "RS485"
  <2>1. LineOf(m) = "sc16is752"
    BY <1>3 DEF LineOf
  <2>2. Enabled => In(Edit("sc16is752", "line on"), Rs485Part(r))
    BY <1>i, <1>3 DEF Rs485Part, Choose
  <2>3. Disabled => In(Edit("sc16is752", "line off"), Rs485Part(r))
    BY <1>0, <1>i, <1>3 DEF Rs485Part, Choose
  <2> QED
    BY <2>1, <2>2, <2>3, InPlan
<1>4. CASE m = "MAX-M8Q"
  <2>1. LineOf(m) = "enable_uart"
    BY <1>4 DEF LineOf
  <2>2. Enabled => In(Edit("enable_uart", "line on"), GnssPart(r))
    BY <1>i, <1>4 DEF GnssPart, Choose
  <2>3. Disabled => In(Edit("enable_uart", "line off"), GnssPart(r))
    BY <1>0, <1>i, <1>4 DEF GnssPart, Choose
  <2> QED
    BY <2>1, <2>2, <2>3, InPlan
<1> QED
  BY <1>1, <1>2, <1>3, <1>4 DEF Modules

\* A run that has nothing left to do found a HAT: without one its plan has a failing
\* step.
LEMMA DoneAll ==
    ASSUME InstallInv, status \in {"running", "done"}, plan = << >>
    PROVE  /\ request \in [Modules -> Answers] /\ hat.board # 0
           /\ \A k \in Entries \ {"i2c_arm"} : \A o : In(Edit(k, o), Plan(request)) =>
                 o # "fail" /\ Do(o, system[k]) = system[k]
<1> DEFINE P == Plan(request)
<1>1. request \in [Modules -> Answers] /\ Progress(P, << >>, system)
  BY InstallAssumption, RequestTyped DEF InstallInv, ProgressInv
<1>2. P \in Seq(EditType)
  BY <1>1, PlanDistinct DEF Distinct
<1> HIDE DEF P
<1>3. ASSUME NEW k \in Entries \ {"i2c_arm"}, NEW o, In(Edit(k, o), P)
      PROVE  o # "fail" /\ Do(o, system[k]) = system[k]
  <2>1. PICK i \in 1 .. Len(P) : P[i] = Edit(k, o)
    BY <1>3 DEF In
  <2>2. P[i].entry = k /\ P[i].op = o /\ i \in Made(P, << >>)
    BY <1>2, <2>1 DEF Edit, Made
  <2> QED
    BY <1>1, <2>2 DEF Progress
<1>4. hat.board # 0
  <2> SUFFICES ASSUME hat.board = 0 PROVE FALSE
    OBVIOUS
  <2>1. P = I2CPart \o <<Edit("gpio-poweroff", "fail")>>
    BY DEF P, Plan
  <2>2. /\ I2CPart \in Seq(EditType)
        /\ <<Edit("gpio-poweroff", "fail")>> \in Seq(EditType)
    BY EditsTyped, Tuples, I2CTouches DEF Distinct, ConfigEntries
  <2>3. In(Edit("gpio-poweroff", "fail"), <<Edit("gpio-poweroff", "fail")>>)
    <3>1. \A a : <<a>>[1] = a /\ Len(<<a>>) = 1
      OBVIOUS
    <3> QED
      BY <3>1 DEF In
  <2>4. In(Edit("gpio-poweroff", "fail"), P)
    BY <2>1, <2>2, <2>3, InJoined
  <2> QED
    BY <1>3, <2>4 DEF Entries, ConfigEntries
<1> QED
  BY <1>1, <1>3, <1>4 DEF P

\* From an orderly system, what a completed run was asked for holds.
THEOREM RequestAlwaysHolds ==
    (\A s \in Shipped : Orderly(s)) /\ InstallSpec => []RequestHolds
<1>1. (\A s \in Shipped : Orderly(s)) /\ InstallInit => Orderly(system)
  BY DEF InstallInit
<1>2. InstallInv /\ Orderly(system) => RequestHolds
  <2> SUFFICES ASSUME InstallInv, Orderly(system), status = "done", NEW m \in Modules
               PROVE  /\ Install(request, m) /\ (m = "RTC" => RtcSeen)
                            => Active(LineOf(m))
                      /\ request[m] = "disable" => ~Active(LineOf(m))
    BY DEF RequestHolds, LineOf
  <2> DEFINE k == LineOf(m)
  <2>1. k \in Lines /\ k \in Entries \ {"i2c_arm"}
    BY DEF LineOf, Lines, Entries, ConfigEntries
  <2>0. plan = << >>
    BY DEF InstallInv, ProgressInv
  <2>2. \A o : In(Edit(k, o), Plan(request)) =>
                 o # "fail" /\ Do(o, system[k]) = system[k]
    BY <2>0, <2>1, DoneAll
  <2>3. system[k] \subseteq {"active", "commented"} /\ \A f, g \in system[k] : f = g
    BY <2>1 DEF Orderly
  <2> HIDE DEF k
  <2>4. /\ EnableLine(system[k]) = system[k] => "active" \in system[k]
        /\ DoOverlay(system[k]) = system[k] => "active" \in system[k]
        /\ DisableLine(system[k]) = system[k] => "active" \notin system[k]
    <3>1. EnableLine(system[k]) = system[k] => "active" \in system[k]
      BY <2>3 DEF EnableLine, Uncommented
    <3>2. DoOverlay(system[k]) = system[k] => "active" \in system[k]
      BY DEF DoOverlay
    <3>3. DisableLine(system[k]) = system[k] => "active" \notin system[k]
      BY <2>3 DEF DisableLine, CommentedOut
    <3> QED
      BY <3>1, <3>2, <3>3
  <2>5. /\ Do("line on", system[k]) = EnableLine(system[k])
        /\ Do("overlay on", system[k]) = DoOverlay(system[k])
        /\ Do("line off", system[k]) = DisableLine(system[k])
    BY DEF Do
  <2>6. Install(request, m) /\ (m = "RTC" => RtcSeen) => "active" \in system[k]
    BY <2>0, <2>2, <2>4, <2>5, DoneAll, PlanHas DEF k
  <2>7. request[m] = "disable" => "active" \notin system[k]
    BY <2>0, <2>2, <2>4, <2>5, DoneAll, PlanHas DEF k
  <2> QED
    BY <2>6, <2>7 DEF Active, k
<1> QED
  BY <1>1, <1>2, InitInstall, StepInstall, StepOrderly, PTL DEF InstallSpec

-----------------------------------------------------------------------------
(* SPI and its two users.                                                  *)

BusOf(s) ==
    "active" \in s["mcp2515"] \/ "active" \in s["sc16is752"] => "active" \in s["spi"]

\* An edit that is in a joined sequence is in one of its parts.
LEMMA InSplit ==
    ASSUME NEW s \in Seq(EditType), NEW t \in Seq(EditType), NEW e, In(e, s \o t)
    PROVE  In(e, s) \/ In(e, t)
<1>1. PICK i \in 1 .. Len(s \o t) : (s \o t)[i] = e
  BY DEF In
<1>2. CASE i <= Len(s)
  <2>1. i \in 1 .. Len(s) /\ s[i] = e
    BY <1>1, <1>2
  <2> QED
    BY <2>1 DEF In
<1>3. CASE i > Len(s)
  <2>1. i - Len(s) \in 1 .. Len(t) /\ t[i - Len(s)] = e
    BY <1>1, <1>3
  <2> QED
    BY <2>1 DEF In
<1> QED
  BY <1>1, <1>2, <1>3

\* The entries of the edits in a sequence.
LEMMA InDistinct ==
    ASSUME NEW E, NEW s \in Distinct(E), NEW e, In(e, s)
    PROVE  e.entry \in E
  BY DEF Distinct, In

Bus == {"spi", "mcp2515", "sc16is752"}

\* Each of the three lines is edited in its own part of the script.
LEMMA BusParts ==
    ASSUME NEW r \in [Modules -> Answers], NEW e, In(e, Plan(r)), e.entry \in Bus
    PROVE  \/ e.entry = "spi"       /\ In(e, SpiPart(r))
           \/ e.entry = "mcp2515"   /\ In(e, CanPart(r))
           \/ e.entry = "sc16is752" /\ In(e, Rs485Part(r))
<1> DEFINE G == <<Edit("gpio-poweroff", "line on")>>
           F == <<Edit("gpio-poweroff", "fail")>>
           P1 == G \o RtcPart(r)
           P2 == P1 \o SpiPart(r)
           P3 == P2 \o CanPart(r)
           P4 == P3 \o Rs485Part(r)
           P5 == P4 \o GnssPart(r)
<1>1. /\ RtcPart(r) \in Seq(EditType) /\ SpiPart(r) \in Seq(EditType)
      /\ CanPart(r) \in Seq(EditType) /\ Rs485Part(r) \in Seq(EditType)
      /\ GnssPart(r) \in Seq(EditType)
  BY RtcTouches, SpiTouches, CanTouches, Rs485Touches, GnssTouches DEF Distinct
<1>2. /\ G \in Distinct({"gpio-poweroff"}) /\ F \in Distinct({"gpio-poweroff"})
      /\ I2CPart \in Distinct({"i2c_arm", "blacklist", "i2c-dev"})
  BY EditsTyped, Single, I2CTouches DEF ConfigEntries
<1>3. /\ G \in Seq(EditType) /\ F \in Seq(EditType) /\ I2CPart \in Seq(EditType)
  BY <1>2 DEF Distinct
<1>4. ~In(e, G) /\ ~In(e, F) /\ ~In(e, I2CPart)
  <2> HIDE DEF F, G
  <2>1. /\ In(e, G) => e.entry \in {"gpio-poweroff"}
        /\ In(e, F) => e.entry \in {"gpio-poweroff"}
        /\ In(e, I2CPart) => e.entry \in {"i2c_arm", "blacklist", "i2c-dev"}
    BY <1>2, InDistinct
  <2> QED
    BY <2>1 DEF Bus
<1>5. /\ In(e, RtcPart(r)) => e.entry \in EntriesOf("RTC")
      /\ In(e, SpiPart(r)) => e.entry = "spi"
      /\ In(e, CanPart(r)) => e.entry \in EntriesOf("CAN")
      /\ In(e, Rs485Part(r)) => e.entry \in EntriesOf("RS485")
      /\ In(e, GnssPart(r)) => e.entry \in EntriesOf("MAX-M8Q")
  BY RtcTouches, SpiTouches, CanTouches, Rs485Touches, GnssTouches, InDistinct
     DEF Touched
<1>6. Plan(r) = I2CPart \o (IF hat.board = 0 THEN F ELSE P5)
  BY DEF Plan
<1> HIDE DEF F, G
<1>7. In(e, F) \/ In(e, P5)
  <2>1. P1 \in Seq(EditType)
    BY <1>1, <1>3, JoinedTyped
  <2> HIDE DEF P1
  <2>2. P2 \in Seq(EditType)
    BY <1>1, <2>1, JoinedTyped
  <2> HIDE DEF P2
  <2>3. P3 \in Seq(EditType)
    BY <1>1, <2>2, JoinedTyped
  <2> HIDE DEF P3
  <2>4. P4 \in Seq(EditType)
    BY <1>1, <2>3, JoinedTyped
  <2> HIDE DEF P4
  <2>5. P5 \in Seq(EditType)
    BY <1>1, <2>4, JoinedTyped
  <2> HIDE DEF P5
  <2> QED
    BY <1>3, <1>4, <1>6, <2>5, InSplit
<1>8. \/ In(e, RtcPart(r)) \/ In(e, SpiPart(r)) \/ In(e, CanPart(r))
      \/ In(e, Rs485Part(r)) \/ In(e, GnssPart(r))
  <2>1. P1 \in Seq(EditType) /\ (In(e, P1) => In(e, G) \/ In(e, RtcPart(r)))
    BY <1>1, <1>3, JoinedTyped, InSplit
  <2> HIDE DEF P1
  <2>2. P2 \in Seq(EditType) /\ (In(e, P2) => In(e, P1) \/ In(e, SpiPart(r)))
    BY <1>1, <2>1, JoinedTyped, InSplit
  <2> HIDE DEF P2
  <2>3. P3 \in Seq(EditType) /\ (In(e, P3) => In(e, P2) \/ In(e, CanPart(r)))
    BY <1>1, <2>2, JoinedTyped, InSplit
  <2> HIDE DEF P3
  <2>4. P4 \in Seq(EditType) /\ (In(e, P4) => In(e, P3) \/ In(e, Rs485Part(r)))
    BY <1>1, <2>3, JoinedTyped, InSplit
  <2> HIDE DEF P4
  <2>5. In(e, P5) => In(e, P4) \/ In(e, GnssPart(r))
    BY <1>1, <2>4, InSplit
  <2> HIDE DEF P5
  <2> QED
    BY <1>4, <1>7, <2>1, <2>2, <2>3, <2>4, <2>5
<1> QED
  BY <1>5, <1>8 DEF Bus, EntriesOf

\* A request that leaves SPI alone enables neither of its users.
LEMMA BusKept ==
    ASSUME NEW r \in [Modules -> Answers], SpiPart(r) = << >>, NEW s, BusOf(s)
    PROVE  BusOf(Outcome(Plan(r), s))
<1> DEFINE P == Plan(r)
           t == Outcome(P, s)
<1>1. P \in Distinct(Entries)
  BY PlanEntries
<1>2. ~Install(r, "CAN") /\ ~Install(r, "RS485")
  <2>1. <<Edit("spi", "on")>> # << >>
    OBVIOUS
  <2> QED
    BY <2>1 DEF SpiPart
<1>3. ASSUME NEW e, In(e, P), e.entry \in Bus
      PROVE  e.entry # "spi" /\ e.op \in {"line off", "fail"}
  <2>1. ~In(e, << >>)
    BY DEF In
  <2>2. In(e, CanPart(r)) /\ e.entry = "mcp2515" => e.op \in {"line off", "fail"}
    <3> DEFINE a == Edit("mcp2515", IF hat.board = 1 THEN "fail" ELSE "line off")
               b == Edit("can0", "gone")
    <3>1. CanPart(r) \in {<< >>, <<a, b>>}
      BY <1>2 DEF CanPart, Choose
    <3>2. b.entry # "mcp2515" /\ a.op \in {"line off", "fail"}
      BY DEF Edit
    <3> HIDE DEF a, b
    <3>3. In(e, <<a, b>>) => e = a \/ e = b
      BY DEF In
    <3> QED
      BY <2>1, <3>1, <3>2, <3>3
  <2>3. In(e, Rs485Part(r)) => e.op \in {"line off", "fail"}
    <3> DEFINE a == Edit("sc16is752", "line off")
    <3>1. Rs485Part(r) \in {<< >>, <<a>>}
      BY <1>2 DEF Rs485Part, Choose
    <3>2. a.op = "line off"
      BY DEF Edit
    <3> HIDE DEF a
    <3>3. In(e, <<a>>) => e = a
      BY DEF In
    <3> QED
      BY <2>1, <3>1, <3>2, <3>3
  <2> QED
    BY <1>3, <2>1, <2>2, <2>3, BusParts
<1> HIDE DEF P
<1>4. ASSUME NEW k \in Bus
      PROVE  /\ k = "spi" => t[k] = s[k]
             /\ "active" \in t[k] => "active" \in s[k]
  <2>1. k \in Entries
    BY DEF Bus, Entries, ConfigEntries
  <2>2. CASE \E i \in 1 .. Len(P) : P[i].entry = k
    <3>1. PICK i \in 1 .. Len(P) : P[i].entry = k
      BY <2>2
    <3>2. k # "spi" /\ P[i].op \in {"line off", "fail"}
      BY <1>3, <3>1 DEF In
    <3>3. t[k] = Do(P[i].op, s[k])
      BY <1>1, <3>1, OutcomeAt
    <3>4. /\ Do("line off", s[k]) = DisableLine(s[k])
          /\ Do("fail", s[k]) = s[k]
      BY DEF Do
    <3>5. "active" \in DisableLine(s[k]) => "active" \in s[k]
      BY DEF DisableLine, CommentedOut
    <3> QED
      BY <3>2, <3>3, <3>4, <3>5
  <2>3. CASE \A i \in 1 .. Len(P) : P[i].entry # k
    BY <1>1, <2>1, <2>3, OutcomeAt
  <2> QED
    BY <2>2, <2>3
<1> HIDE DEF t
<1>5. BusOf(t)
  BY <1>4 DEF Bus, BusOf
<1> QED
  BY <1>5 DEF t, P

\* What a request that leaves SPI alone will make of a sound system is sound.
SpiInv ==
    request # NoRequest /\ sound /\ SpiPart(request) = << >> => BusOf(goal)

LEMMA StepSpi == InstallInv /\ SpiInv /\ [InstallNext]_vars => SpiInv'
<1>0. InstallInv /\ [InstallNext]_vars => InstallInv'
  BY StepInstall
<1> SUFFICES ASSUME InstallInv, SpiInv, [InstallNext]_vars, InstallInv'
             PROVE  SpiInv'
  BY <1>0
<1>1. CASE StartRun
  <2>1. PICK r \in Requests :
          /\ request' = r
          /\ IF r = request THEN UNCHANGED <<goal, sound>>
             ELSE goal' = Outcome(Plan(r), system) /\ sound' = BusUnderOverlays
    BY <1>1 DEF StartRun
  <2>2. SpiPart(request)' = SpiPart(r)
    BY <2>1 DEF SpiPart, Install, Uninstall
  <2>3. CASE r = request
    BY <2>1, <2>2, <2>3 DEF SpiInv
  <2>4. CASE r # request
    <3>1. r \in [Modules -> Answers]
      BY InstallAssumption, RequestTyped
    <3>2. BusUnderOverlays <=> BusOf(system)
      BY DEF BusUnderOverlays, BusOf, Active
    <3>3. sound' /\ SpiPart(r) = << >> => BusOf(goal')
      BY <2>1, <2>4, <3>1, <3>2, BusKept
    <3> QED
      BY <2>2, <3>3 DEF SpiInv
  <2> QED
    BY <2>3, <2>4
<1>2. CASE LuaFails
  <2>1. /\ UNCHANGED <<hat, bound, request>> /\ request \in Requests
        /\ system' = [k \in Entries |-> IF k \in ConfigEntries THEN {} ELSE system[k]]
    BY <1>2 DEF LuaFails, hardware, InstallInv, ProgressInv
  <2>2. BusOf(system')
    BY <2>1 DEF BusOf, Entries, ConfigEntries
  <2>3. request \in [Modules -> Answers] /\ request # NoRequest
    BY <2>1, InstallAssumption, RequestTyped
  <2>4. goal' = Outcome(Plan(request), system')
    <3>1. Plan(request)' = Plan(request)
      BY <2>1, SamePlan
    <3>2. goal' = Outcome(Plan(request), system)'
      BY <2>1, <2>3 DEF InstallInv, ProgressInv
    <3> QED
      BY <3>1, <3>2 DEF Outcome
  <2>5. SpiPart(request)' = SpiPart(request)
    BY <2>1 DEF SpiPart, Install, Uninstall
  <2> QED
    BY <2>2, <2>3, <2>4, <2>5, BusKept DEF SpiInv
<1>3. CASE Reboot
  BY <1>3 DEF Reboot, SpiInv
<1>4. CASE MakeEdit \/ MvFails \/ FinishRun \/ AbortRun \/ UNCHANGED vars
  <2>1. UNCHANGED <<request, goal, sound>>
    BY <1>4 DEF MakeEdit, MvFails, FinishRun, AbortRun, vars
  <2>2. SpiPart(request)' = SpiPart(request)
    BY <2>1 DEF SpiPart, Install, Uninstall
  <2> QED
    BY <2>1, <2>2 DEF SpiInv
<1> QED
  BY <1>1, <1>2, <1>3, <1>4 DEF InstallNext

\* A run that is about to say DONE has the bus with its overlays.
LEMMA FinishedSound ==
    ASSUME InstallInv, Orderly(system), SpiInv, FinishRun, sound
    PROVE  BusUnderOverlays
<1> DEFINE P == Plan(request)
<1>1. status = "running" /\ plan = << >>
  BY DEF FinishRun
<1>2. /\ request \in [Modules -> Answers] /\ hat.board # 0
      /\ \A k \in Entries \ {"i2c_arm"} : \A o : In(Edit(k, o), P) =>
            o # "fail" /\ Do(o, system[k]) = system[k]
  BY <1>1, DoneAll
<1>3. request # NoRequest /\ goal = Outcome(P, system)
  BY <1>1, InstallAssumption, RequestTyped DEF InstallInv, ProgressInv
<1>k. Bus \subseteq Entries \ {"i2c_arm"}
  BY DEF Bus, Entries, ConfigEntries
<1> SUFFICES BusOf(system)
  BY DEF BusUnderOverlays, BusOf, Active
<1>4. CASE Install(request, "CAN") \/ Install(request, "RS485")
  <2>1. SpiPart(request) = <<Edit("spi", "on")>>
    BY <1>4 DEF SpiPart
  <2>2. In(Edit("spi", "on"), SpiPart(request))
    <3>1. \A a : <<a>>[1] = a /\ Len(<<a>>) = 1
      OBVIOUS
    <3> QED
      BY <2>1, <3>1 DEF In
  <2>3. In(Edit("spi", "on"), P)
    BY <1>2, <2>2, InPlan
  <2>4. Do("on", system["spi"]) = system["spi"]
    BY <1>2, <1>k, <2>3 DEF Bus
  <2> QED
    BY <2>4 DEF Do, BusOf
<1>5. CASE /\ ~Install(request, "CAN") /\ ~Install(request, "RS485")
           /\ Uninstall(request, "CAN") /\ Uninstall(request, "RS485")
  <2>1. /\ request["CAN"] = "disable" /\ request["RS485"] = "disable"
        /\ LineOf("CAN") = "mcp2515" /\ LineOf("RS485") = "sc16is752"
    BY <1>5 DEF Install, Uninstall, LineOf
  <2>2. ASSUME NEW m \in {"CAN", "RS485"}
        PROVE  "active" \notin system[LineOf(m)]
    <3> DEFINE k == LineOf(m)
    <3>1. k \in Lines /\ k \in Entries \ {"i2c_arm"} /\ m \in Modules
      BY DEF LineOf, Lines, Entries, ConfigEntries, Modules
    <3>2. In(Edit(k, "line off"), P)
      BY <1>2, <2>1, <3>1, PlanHas
    <3>3. Do("line off", system[k]) = system[k]
      BY <1>2, <3>1, <3>2
    <3>4. \A f, g \in system[k] : f = g
      BY <3>1 DEF Orderly
    <3> HIDE DEF k
    <3>5. "active" \notin system[k]
      BY <3>3, <3>4 DEF Do, DisableLine, CommentedOut
    <3> QED
      BY <3>5 DEF k
  <2> QED
    BY <2>1, <2>2 DEF BusOf
<1>6. CASE /\ ~Install(request, "CAN") /\ ~Install(request, "RS485")
           /\ ~(Uninstall(request, "CAN") /\ Uninstall(request, "RS485"))
  <2>1. SpiPart(request) = << >>
    BY <1>6 DEF SpiPart
  <2>2. BusOf(Outcome(P, system))
    BY <1>3, <2>1 DEF SpiInv
  <2>3. P \in Distinct(Entries)
    BY <1>2, PlanEntries
  <2> HIDE DEF P
  <2>4. ASSUME NEW k \in Bus PROVE Outcome(P, system)[k] = system[k]
    <3>1. CASE \E i \in 1 .. Len(P) : P[i].entry = k
      <4>1. PICK i \in 1 .. Len(P) : P[i].entry = k
        BY <3>1
      <4>2. P[i] = Edit(k, P[i].op)
        <5>1. P[i] \in EditType
          BY <2>3 DEF Distinct
        <5> QED
          BY <4>1, <5>1 DEF EditType, Edit
      <4>3. Do(P[i].op, system[k]) = system[k]
        BY <1>2, <1>k, <4>2 DEF In
      <4> QED
        BY <2>3, <4>1, <4>3, OutcomeAt
    <3>2. CASE \A i \in 1 .. Len(P) : P[i].entry # k
      BY <1>k, <2>3, <3>2, OutcomeAt
    <3> QED
      BY <3>1, <3>2
  <2> QED
    BY <2>2, <2>4 DEF BusOf, Bus
<1> QED
  BY <1>4, <1>5, <1>6

\* From an orderly system, SPI goes only with the last of its users, through any
\* number of runs and failures.
THEOREM BusWithItsOverlays ==
    (\A s \in Shipped : Orderly(s)) /\ InstallSpec => SpiWithItsUsers
<1>1. (\A s \in Shipped : Orderly(s)) /\ InstallInit => Orderly(system)
  BY DEF InstallInit
<1>2. InstallInit => SpiInv
  BY DEF InstallInit, SpiInv
<1>3. InstallInv /\ Orderly(system) /\ SpiInv /\ [InstallNext]_vars
          => [FinishRun /\ sound => BusUnderOverlays]_vars
  BY FinishedSound
<1> QED
  BY <1>1, <1>2, <1>3, InitInstall, StepInstall, StepOrderly, StepSpi, PTL
     DEF InstallSpec, SpiWithItsUsers
=============================================================================
