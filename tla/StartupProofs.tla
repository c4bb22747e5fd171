---------------------------- MODULE StartupProofs ----------------------------
(***************************************************************************)
(* Theorems about Startup, for any limits, files, contents and command     *)
(* lines.                                                                  *)
(***************************************************************************)
EXTENDS Startup, WellFoundedInduction, TLAPS

-----------------------------------------------------------------------------
(* Typing.                                                                 *)

\* The paths of a start are files that may be named.
LEMMA PathsTyped ==
    ASSUME StartupAssumption, cmd \in CommandLines
    PROVE  Paths \in Seq(FileNames)
  BY DEF StartupAssumption, Paths

\* Every content names a limit if it names one with underscores.
LEMMA ContentTyped ==
    ASSUME StartupAssumption, NEW c \in Contents, c.kind = "underscores"
    PROVE  c.limit \in Limits
  BY DEF StartupAssumption, ContentType

\* The files up to the n-th that name the limit.
NamedUpTo(n) == {i \in 1 .. n : files[Paths[i]].kind = "underscores"}

\* A set of naturals that is not empty has a least member.
LEMMA Least ==
    ASSUME NEW T \in SUBSET Nat, T # {}
    PROVE  \E m \in T : \A k \in T : m <= k
<1> DEFINE R == OpToRel(<, Nat)
<1>1. IsWellFoundedOn(R, Nat)
  BY NatLessThanWellFounded
<1>2. \A ss \in Nat \X Nat : ss \in R <=> ss[1] < ss[2]
  BY DEF OpToRel
<1> HIDE DEF R
<1>3. PICK m \in T : \A y \in T : ~(<<y, m>> \in R)
  BY <1>1, WFMin
<1>4. \A k \in T : <<k, m>> \in Nat \X Nat
  OBVIOUS
<1>5. \A k \in T : ~(k < m)
  BY <1>2, <1>3, <1>4
<1> QED
  BY <1>5

\* Of the files that name the limit one is the last.
LEMMA LastNamed ==
    ASSUME NEW n \in Nat, NamedUpTo(n) # {}
    PROVE  \E i \in NamedUpTo(n) : \A j \in NamedUpTo(n) : j <= i
<1> DEFINE T == {n - i : i \in NamedUpTo(n)}
<1>1. \A i \in NamedUpTo(n) : i \in Int /\ i <= n
  BY DEF NamedUpTo
<1>2. T \in SUBSET Nat /\ T # {}
  BY <1>1
<1>3. PICK m \in T : \A k \in T : m <= k
  BY <1>2, Least
<1>4. PICK i \in NamedUpTo(n) : m = n - i
  OBVIOUS
<1>5. ASSUME NEW j \in NamedUpTo(n) PROVE j <= i
  BY <1>1, <1>3, <1>4
<1> QED
  BY <1>4, <1>5

\* The last word without a choice.
LEMMA LastWordIs ==
    ASSUME Paths \in Seq(FileNames)
    PROVE  /\ cmd.limit # Unset => LastWord = cmd.limit
           /\ cmd.limit = Unset /\ NamedUpTo(Len(Paths)) = {} => LastWord = DefaultLimit
           /\ \A i \in NamedUpTo(Len(Paths)) :
                 cmd.limit = Unset /\ (\A j \in NamedUpTo(Len(Paths)) : j <= i)
                    => LastWord = files[Paths[i]].limit
<1> DEFINE named == NamedUpTo(Len(Paths))
           last  == CHOOSE i \in named : \A j \in named : j <= i
<1>1. LastWord = IF cmd.limit # Unset THEN cmd.limit
                 ELSE IF named = {} THEN DefaultLimit ELSE files[Paths[last]].limit
  BY DEF LastWord, NamedUpTo
<1>2. named \subseteq Int
  BY DEF NamedUpTo
<1>3. ASSUME NEW i \in named, \A j \in named : j <= i
      PROVE  last = i
  <2> HIDE DEF named
  <2>1. last \in named /\ \A j \in named : j <= last
    BY <1>3
  <2>2. last <= i /\ i <= last /\ last \in Int /\ i \in Int
    BY <1>2, <1>3, <2>1
  <2> QED
    BY <2>2
<1> QED
  BY <1>1, <1>3

\* The last word is a limit.
LEMMA LastWordTyped ==
    ASSUME StartupAssumption, cmd \in CommandLines, files \in [FileNames -> Contents]
    PROVE  LastWord \in Limits
<1>p. Paths \in Seq(FileNames)
  BY PathsTyped
<1>1. CASE cmd.limit # Unset
  BY <1>1, <1>p, LastWordIs DEF StartupAssumption
<1>2. CASE cmd.limit = Unset /\ NamedUpTo(Len(Paths)) = {}
  BY <1>2, <1>p, LastWordIs DEF StartupAssumption
<1>3. CASE cmd.limit = Unset /\ NamedUpTo(Len(Paths)) # {}
  <2>1. PICK i \in NamedUpTo(Len(Paths)) : \A j \in NamedUpTo(Len(Paths)) : j <= i
    BY <1>3, <1>p, LastNamed
  <2>2. LastWord = files[Paths[i]].limit
    BY <1>3, <1>p, <2>1, LastWordIs
  <2>3. files[Paths[i]] \in Contents /\ files[Paths[i]].kind = "underscores"
    BY <1>p DEF NamedUpTo
  <2> QED
    BY <2>2, <2>3, ContentTyped
<1> QED
  BY <1>1, <1>2, <1>3

LEMMA InitStartupTyped == StartupInit => StartupTypeOK
<1> SUFFICES ASSUME StartupInit PROVE StartupTypeOK
  OBVIOUS
<1>1. Paths \in Seq(FileNames)
  BY StartupAssumption, PathsTyped DEF StartupInit
<1>2. 0 \in 0 .. Len(Paths)
  BY <1>1
<1> QED
  BY StartupAssumption, <1>2
     DEF StartupInit, StartupTypeOK, Stages, Sockets, Needs, Unset

LEMMA StepStartupTyped == StartupTypeOK /\ [StartupNext]_vars => StartupTypeOK'
<1> SUFFICES ASSUME StartupTypeOK, [StartupNext]_vars
             PROVE  StartupTypeOK'
  OBVIOUS
<1>p. Paths \in Seq(FileNames)
  BY StartupAssumption, PathsTyped DEF StartupTypeOK
<1>q. UNCHANGED <<cmd, files>> => Paths' = Paths
  BY DEF Paths, Exists
<1>e. ASSUME Exit, UNCHANGED <<outsideVars, stored>>, socket' \in Sockets
      PROVE  StartupTypeOK'
  <2>1. 0 \in 0 .. Len(Paths') /\ UNCHANGED <<cmd, files, lacking>>
    BY <1>p, <1>q, <1>e DEF outsideVars
  <2> QED
    BY <1>e, <2>1, StartupAssumption DEF Exit, StartupTypeOK, Stages, Unset
<1>n. ASSUME NEW stage, NEW need, NEW next \in Stages \ {"down"}, Needing(stage, need, next),
             UNCHANGED <<outsideVars, socket>>, stored' \in Limits \cup {Unset}
      PROVE  StartupTypeOK'
  <2>1. CASE Exit
    <3>1. 0 \in 0 .. Len(Paths') /\ UNCHANGED <<cmd, files, lacking>>
      BY <1>p, <1>q, <1>n DEF outsideVars
    <3> QED
      BY <1>n, <2>1, <3>1, StartupAssumption DEF Exit, StartupTypeOK, Stages, Unset
  <2>2. CASE Passes(next)
    BY <1>n, <1>q, <2>2 DEF Passes, StartupTypeOK, outsideVars, parserVars
  <2> QED
    BY <1>n, <2>1, <2>2 DEF Needing
<1>1. CASE StartProcess
  BY <1>1, <1>q, LastWordTyped, StartupAssumption
     DEF StartProcess, StartupTypeOK, Stages, parserVars, outsideVars
<1>2. CASE ReadConfigFile
  <2>1. CASE Exit
    BY <1>2, <1>e, <2>1 DEF ReadConfigFile, StartupTypeOK
  <2>2. CASE ~Exit
    <3> DEFINE content == files[Paths[read + 1]]
    <3>1. /\ read' = read + 1 /\ default' = SetDefaults(default, content)
          /\ read < Len(Paths) /\ proc # "down"
          /\ UNCHANGED <<proc, limit, shown, asked, socket, stored, outsideVars>>
      BY <1>2, <2>2 DEF ReadConfigFile
    <3>2. read + 1 \in 1 .. Len(Paths)
      BY <1>p, <3>1 DEF StartupTypeOK
    <3>3. content \in Contents
      BY <1>p, <3>2 DEF StartupTypeOK
    <3>4. default' \in Limits
      BY <3>1, <3>3, ContentTyped, StartupAssumption DEF SetDefaults, StartupTypeOK
    <3>5. read' \in 0 .. Len(Paths')
      BY <1>q, <3>1, <3>2 DEF outsideVars
    <3> QED
      BY <3>1, <3>4, <3>5 DEF StartupTypeOK, outsideVars
  <2> QED
    BY <2>1, <2>2
<1>3. CASE ParseAgain
  <2>1. Parsed \in Limits
    BY StartupAssumption DEF Parsed, StartupTypeOK
  <2> QED
    BY <1>3, <1>q, <2>1 DEF ParseAgain, StartupTypeOK, Stages, outsideVars
<1>4. CASE FindHat
  BY <1>4, <1>n DEF FindHat, Stages, StartupTypeOK
<1>5. CASE SeeSocket \/ CheckKind \/ CheckOwner \/ Unlink
  <2>1. socket' \in Sockets /\ UNCHANGED <<stored, outsideVars>>
    BY <1>5 DEF SeeSocket, CheckKind, CheckOwner, Unlink, Sockets, StartupTypeOK
  <2>2. CASE Exit
    BY <1>e, <2>1, <2>2
  <2>3. CASE ~Exit
    <3>1. proc' \in Stages \ {"down"} /\ UNCHANGED <<parserVars, shown, asked>>
      BY <1>5, <2>3 DEF SeeSocket, CheckKind, CheckOwner, Unlink, Passes, Stages, Looking
    <3> QED
      BY <1>q, <2>1, <3>1 DEF StartupTypeOK, parserVars, outsideVars
  <2> QED
    BY <2>2, <2>3
<1>6. CASE CheckGroup
  BY <1>6, <1>n DEF CheckGroup, Stages, StartupTypeOK
<1>7. CASE AddPaths
  BY <1>7, <1>q DEF AddPaths, StartupTypeOK, Stages, parserVars, outsideVars
<1>8. CASE BindSetting
  BY <1>8, <1>n DEF BindSetting, StoredAfter, Stages, StartupTypeOK
<1>9. CASE Cleanup
  <2>1. socket' \in Sockets
    BY <1>9 DEF Cleanup, Sockets
  <2>2. CASE Exit
    BY <1>9, <1>e, <2>1, <2>2 DEF Cleanup
  <2>3. CASE ~Exit
    BY <1>9, <1>q, <2>1, <2>3 DEF Cleanup, StartupTypeOK, parserVars, outsideVars
  <2> QED
    BY <2>2, <2>3
<1>10. CASE Crash
  BY <1>10, <1>e DEF Crash, StartupTypeOK
<1>11. CASE WriteShown \/ GuiSets
  BY <1>11, <1>q DEF WriteShown, GuiSets, StartupTypeOK, parserVars, outsideVars
<1>12. CASE Reconfigure
  <2>1. /\ cmd' \in CommandLines /\ files' \in [FileNames -> Contents]
    BY <1>12 DEF Reconfigure, StartupTypeOK
  <2>2. Paths' \in Seq(FileNames)
    BY <2>1, StartupAssumption DEF Paths, StartupAssumption
  <2>3. read' = 0 /\ 0 \in 0 .. Len(Paths')
    BY <1>12, <2>2 DEF Reconfigure, StartupTypeOK, parserVars
  <2> QED
    BY <1>12, <2>1, <2>3 DEF Reconfigure, StartupTypeOK, parserVars
<1>13. CASE OthersChange
  BY <1>13, <1>q DEF OthersChange, StartupTypeOK, parserVars
<1>14. CASE UNCHANGED vars
  BY <1>14, <1>q DEF vars, StartupTypeOK
<1> QED
  BY <1>1, <1>2, <1>3, <1>4, <1>5, <1>6, <1>7, <1>8, <1>9, <1>10, <1>11, <1>12,
     <1>13, <1>14 DEF StartupNext, Main

\* Nothing of a process outlives it, and every source of the limit gives a limit.
THEOREM StartupTyped == StartupSpec => []StartupTypeOK
  BY InitStartupTyped, StepStartupTyped, PTL DEF StartupSpec

-----------------------------------------------------------------------------
(* The last word.                                                          *)

\* Halfway through the files the parser's default is that of the last file read
\* that names the limit; once they are all read, that is the last word.
LastOf(named) ==
    /\ named = {} => default = DefaultLimit
    /\ \A i \in named : (\A j \in named : j <= i) => default = files[Paths[i]].limit

ReadInv ==
    /\ proc # "down" => asked = LastWord
    /\ proc \in {"down", "parsing"} => LastOf(NamedUpTo(read))
    /\ proc \notin {"down", "parsing"} => limit = asked

\* Nothing has been read before the first start.
LEMMA InitRead == StartupInit => ReadInv
  BY DEF StartupInit, ReadInv, LastOf, NamedUpTo

\* One more file: it has the last word of those read if it names the limit.
LEMMA ReadOneMore ==
    ASSUME StartupTypeOK, ReadInv, ReadConfigFile, ~Exit
    PROVE  ReadInv'
<1> DEFINE content == files[Paths[read + 1]]
<1>1. /\ read' = read + 1 /\ default' = SetDefaults(default, content)
      /\ proc = "parsing" /\ UNCHANGED <<proc, limit, asked, cmd, files>>
  BY DEF ReadConfigFile, outsideVars
<1>2. Paths' = Paths /\ LastWord' = LastWord /\ read \in Nat
  BY <1>1 DEF Paths, Exists, LastWord, StartupTypeOK
<1>3. (NamedUpTo(read))' = {i \in 1 .. read + 1 : files[Paths[i]].kind = "underscores"}
  BY <1>1, <1>2 DEF NamedUpTo
<1>4. CASE content.kind = "underscores"
  <2>1. read + 1 \in (NamedUpTo(read))' /\ default' = content.limit
    BY <1>1, <1>2, <1>3, <1>4 DEF SetDefaults
  <2>2. \A i \in (NamedUpTo(read))' : read + 1 <= i => i = read + 1
    BY <1>2, <1>3
  <2>3. LastOf(NamedUpTo(read))'
    BY <1>1, <1>2, <2>1, <2>2 DEF LastOf
  <2> QED
    BY <1>1, <1>2, <2>3 DEF ReadInv
<1>5. CASE content.kind # "underscores"
  <2>1. (NamedUpTo(read))' = NamedUpTo(read) /\ default' = default
    BY <1>1, <1>2, <1>3, <1>5 DEF SetDefaults, NamedUpTo
  <2>2. LastOf(NamedUpTo(read))'
    BY <1>1, <1>2, <2>1 DEF LastOf, ReadInv
  <2> QED
    BY <1>1, <1>2, <2>2 DEF ReadInv
<1> QED
  BY <1>4, <1>5

\* No step loses what has been read.
LEMMA StepRead ==
    StartupTypeOK /\ ReadInv /\ [StartupNext]_vars => ReadInv'
<1> SUFFICES ASSUME StartupTypeOK, ReadInv, [StartupNext]_vars
             PROVE  ReadInv'
  OBVIOUS
<1>q. UNCHANGED <<cmd, files>> => /\ Paths' = Paths /\ LastWord' = LastWord
                                 /\ \A n : NamedUpTo(n)' = NamedUpTo(n)
  BY DEF Paths, Exists, LastWord, NamedUpTo
<1>p. Paths \in Seq(FileNames)
  BY StartupAssumption, PathsTyped DEF StartupTypeOK
<1>e. ASSUME Exit PROVE ReadInv'
  BY <1>e DEF Exit, ReadInv, LastOf, NamedUpTo
<1>k. ASSUME UNCHANGED <<cmd, files, read, default, limit, asked>>,
             proc # "down",
             proc' = proc \/ {proc, proc'} \cap {"down", "parsing"} = {}
      PROVE  ReadInv'
  <2>1. (NamedUpTo(read))' = NamedUpTo(read) /\ Paths' = Paths /\ LastWord' = LastWord
    BY <1>k DEF Paths, Exists, LastWord, NamedUpTo
  <2>2. LastOf(NamedUpTo(read)) => LastOf(NamedUpTo(read))'
    BY <1>k, <2>1 DEF LastOf
  <2> QED
    BY <1>k, <2>1, <2>2 DEF ReadInv
<1>1. CASE StartProcess
  <2>1. UNCHANGED <<cmd, files, read, default>> /\ proc = "down"
        /\ proc' = "parsing" /\ asked' = LastWord
    BY <1>1 DEF StartProcess, parserVars, outsideVars
  <2> QED
    BY <1>q, <2>1 DEF ReadInv, LastOf
<1>2. CASE ReadConfigFile
  BY <1>2, <1>e, ReadOneMore
<1>3. CASE ParseAgain
  <2>1. /\ read = Len(Paths) /\ proc = "parsing" /\ proc' = "probing"
        /\ limit' = Parsed /\ UNCHANGED <<cmd, files, default, asked>>
    BY <1>3 DEF ParseAgain, outsideVars
  <2>2. Parsed = LastWord
    <3>1. CASE NamedUpTo(Len(Paths)) = {}
      BY <1>p, <2>1, <3>1, LastWordIs DEF Parsed, ReadInv, LastOf
    <3>2. CASE NamedUpTo(Len(Paths)) # {}
      <4>1. PICK i \in NamedUpTo(Len(Paths)) : \A j \in NamedUpTo(Len(Paths)) : j <= i
        BY <1>p, <3>2, LastNamed
      <4> QED
        BY <1>p, <2>1, <4>1, LastWordIs DEF Parsed, ReadInv, LastOf
    <3> QED
      BY <3>1, <3>2
  <2> QED
    BY <1>q, <2>1, <2>2 DEF ReadInv
<1>4. CASE FindHat
  BY <1>4, <1>e, <1>k DEF FindHat, Needing, Passes, parserVars, outsideVars
<1>5. CASE SeeSocket \/ CheckKind \/ CheckOwner \/ Unlink
  <2>1. CASE Exit
    BY <1>e, <2>1
  <2>2. CASE ~Exit
    <3>1. /\ {proc, proc'} \cap {"down", "parsing"} = {}
          /\ UNCHANGED <<parserVars, asked, outsideVars>>
      BY <1>5, <2>2 DEF SeeSocket, CheckKind, CheckOwner, Unlink, Passes
    <3> QED
      BY <1>k, <3>1 DEF parserVars, outsideVars
  <2> QED
    BY <2>1, <2>2
<1>6. CASE CheckGroup
  BY <1>6, <1>e, <1>k DEF CheckGroup, Needing, Passes, parserVars, outsideVars
<1>7. CASE AddPaths
  BY <1>7, <1>k DEF AddPaths, parserVars, outsideVars
<1>8. CASE BindSetting
  BY <1>8, <1>e, <1>k DEF BindSetting, Needing, Passes, parserVars, outsideVars
<1>9. CASE Cleanup
  BY <1>9, <1>e, <1>k DEF Cleanup, Hooked, parserVars, outsideVars
<1>10. CASE Crash
  BY <1>10, <1>e DEF Crash
<1>11. CASE WriteShown
  BY <1>11, <1>k DEF WriteShown, parserVars, outsideVars
<1>12. CASE Reconfigure
  <2>1. read' = 0 /\ proc' = "down" /\ default' = default
    BY <1>12 DEF Reconfigure, StartupTypeOK, parserVars
  <2>2. default = DefaultLimit
    BY <1>12 DEF Reconfigure, StartupTypeOK, ReadInv, LastOf, NamedUpTo
  <2> QED
    BY <2>1, <2>2 DEF ReadInv, LastOf, NamedUpTo
<1>13. CASE GuiSets \/ OthersChange \/ UNCHANGED vars
  <2>1. UNCHANGED <<cmd, files, read, default, limit, asked, proc>>
    BY <1>13 DEF GuiSets, OthersChange, parserVars, outsideVars, vars
  <2> QED
    BY <1>q, <2>1 DEF ReadInv, LastOf
<1> QED
  BY <1>1, <1>2, <1>3, <1>4, <1>5, <1>6, <1>7, <1>8, <1>9, <1>10, <1>11, <1>12,
     <1>13 DEF StartupNext, Main

\* Two passes over any number of files in any order amount to: command line, else
\* the last file that names the limit, else the default.
THEOREM LastWordAlwaysWins == StartupSpec => []LastWordWins
<1>1. ReadInv => LastWordWins
  BY DEF ReadInv, LastWordWins
<1> QED
  BY <1>1, InitStartupTyped, StepStartupTyped, InitRead, StepRead, PTL
     DEF StartupSpec

-----------------------------------------------------------------------------
(* The limit in force.                                                     *)

\* A daemon that serves has a limit to count by, and one that is in use.
InForceInv == proc = "serving" => stored # Unset

\* A limit that was stored stays, and a process serves only once there is one.
LEMMA StepInForce ==
    StartupTypeOK /\ ReadInv /\ InForceInv /\ [StartupNext]_vars => InForceInv'
<1> SUFFICES ASSUME StartupTypeOK, ReadInv, InForceInv, [StartupNext]_vars,
                    proc' = "serving"
             PROVE  stored' # Unset
  BY DEF InForceInv
<1>1. CASE BindSetting
  <2>1. lacking # "settings"
    BY <1>1 DEF BindSetting, Needing, Exit
  <2>2. limit # Unset
    BY <1>1, LastWordTyped, StartupAssumption
       DEF BindSetting, Needing, ReadInv, StartupTypeOK
  <2> QED
    BY <1>1, <2>1, <2>2 DEF BindSetting, StoredAfter
<1>2. CASE GuiSets
  BY <1>2, StartupAssumption DEF GuiSets
<1>3. CASE WriteShown \/ OthersChange \/ UNCHANGED vars \/ Cleanup
  BY <1>3 DEF WriteShown, OthersChange, vars, Cleanup, Exit, InForceInv
<1>4. ~(Main /\ ~BindSetting) /\ ~Crash /\ ~Reconfigure
  BY DEF Main, StartProcess, ReadConfigFile, ParseAgain, FindHat, SeeSocket,
         CheckKind, CheckOwner, Unlink, CheckGroup, AddPaths, Needing, Passes, Crash,
         Exit, Reconfigure
<1> QED
  BY <1>1, <1>2, <1>3, <1>4 DEF StartupNext, Main

\* The first limit that is ever stored is the last word of the configuration.
LEMMA StepFirst ==
    ReadInv /\ [StartupNext]_vars =>
        (stored = Unset /\ stored' # Unset => stored' = LastWord)
<1> SUFFICES ASSUME ReadInv, [StartupNext]_vars, stored = Unset, stored' # Unset
             PROVE  stored' = LastWord
  OBVIOUS
<1>1. ~(Main /\ ~BindSetting)
  BY DEF Main, StartProcess, ReadConfigFile, ParseAgain, FindHat, SeeSocket,
         CheckKind, CheckOwner, Unlink, CheckGroup, AddPaths, outsideVars
<1>2. ~(Cleanup \/ Crash \/ WriteShown \/ GuiSets \/ Reconfigure \/ OthersChange)
  BY DEF Cleanup, Crash, WriteShown, GuiSets, Reconfigure, OthersChange
<1>3. BindSetting
  BY <1>1, <1>2 DEF StartupNext, Main, vars
<1> QED
  BY <1>3 DEF BindSetting, Needing, StoredAfter, ReadInv

\* What the state machine takes for granted of its setting: a daemon that serves
\* counts by a limit that is in use.  Where no other has been stored before, that is the
\* configuration's last word, through any failed starts, crashes and edits.
THEOREM LimitInForce ==
    StartupSpec =>
        /\ [](proc = "serving" => stored \in Limits)
        /\ [][stored = Unset /\ stored' # Unset => stored' = LastWord]_vars
<1>1. StartupInit => InForceInv
  BY DEF StartupInit, InForceInv
<1>2. StartupTypeOK /\ InForceInv => (proc = "serving" => stored \in Limits)
  BY DEF StartupTypeOK, InForceInv
<1> QED
  BY <1>1, <1>2, StepInForce, StepFirst, InitStartupTyped, StepStartupTyped,
     InitRead, StepRead, PTL DEF StartupSpec
=============================================================================
