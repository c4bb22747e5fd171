------------------------------- MODULE Startup -------------------------------
(***************************************************************************)
(* How a start of shrpid, src/shrpi/daemon.py, gets from its command line  *)
(* to a running state machine, and where the blackout time limit comes     *)
(* from: the parser's default, configuration files, the command line, the  *)
(* setting stored by Venus OS, the GUI, the value on D-Bus.                *)
(*                                                                         *)
(* The parser is followed for one option, --blackout-time-limit; the       *)
(* others are read the same way.  `wanted' and signals are Daemon's.       *)
(***************************************************************************)
EXTENDS Integers, Sequences

CONSTANTS
    Limits,        \* blackout time limits in use, all in the range 1 .. 600
    DefaultLimit,  \* DEFAULT_BLACKOUT_TIME_LIMIT
    FileNames,     \* configuration files that may be named
    DefaultFile,   \* CONFIG_FILE_LOCATION
    Contents,      \* what a file may hold
    CommandLines   \* what the supervisor may start the daemon with

Unset == 0

\* A file's kind is "missing", "broken" (no YAML, or an empty file, whose None
\* set_defaults cannot take), "other" (the limit is not in it), or the way it
\* spells the key of the limit.
ContentType ==
    [kind : {"missing", "broken", "other"}, limit : {Unset}]
        \cup [kind : {"underscores", "hyphens"}, limit : Limits]

ASSUME StartupAssumption ==
    /\ Limits \subseteq Nat \ {Unset} /\ DefaultLimit \in Limits
    /\ DefaultFile \in FileNames
    /\ Contents \subseteq ContentType
    /\ CommandLines \subseteq [limit : Limits \cup {Unset}, conf : Seq(FileNames)]

VARIABLES
    proc,    \* how far main() is
    cmd,     \* the command line of this start
    files,   \* the content of every file
    read,    \* how many configuration files have been read
    default, \* the parser's default for the option
    limit,   \* args.blackout_time_limit
    socket,  \* what is at socket_path
    lacking, \* what of the surroundings is missing
    shown,   \* /BlackoutTimeLimit on D-Bus
    stored,  \* the setting BlackoutTimeLimit, read by every tick
    asked    \* history: what the configuration said when the process started

vars == <<proc, cmd, files, read, default, limit, socket, lacking, shown,
          stored, asked>>
parserVars == <<read, default, limit>>
outsideVars == <<cmd, files, lacking>>

\* From "socket" to "unlink" a start is looking at socket_path.
Looking == {"kind", "owner", "unlink"}
Stages == {"down", "parsing", "probing", "socket", "group", "service", "setting",
           "serving"} \cup Looking

Sockets == {"none", "file", "foreign", "root"}
Needs == {"hat", "group", "settings"}

StartupInit ==
    /\ proc = "down" /\ cmd \in CommandLines /\ files \in [FileNames -> Contents]
    /\ read = 0 /\ default = DefaultLimit /\ limit = Unset
    /\ socket = "none" /\ lacking = "nothing"
    /\ shown = Unset /\ stored = Unset /\ asked = Unset

-----------------------------------------------------------------------------
(* The parser.  Of two definitions of which one is named for a slip of the *)
(* other, the runs must catch the first.                                   *)

Exists(f) == files[f].kind # "missing"

\* --conf replaces the default file, which is optional; the others are not.
Paths == IF cmd.conf # << >> THEN cmd.conf
         ELSE IF Exists(DefaultFile) THEN <<DefaultFile>> ELSE << >>

Readable(content) == content.kind \notin {"missing", "broken"}

\* parser.set_defaults(**config): a key with hyphens is no destination of the
\* parser, it sets an attribute that nobody reads.
SetDefaultsFirst(old, content) ==
    IF content.kind = "underscores" /\ old = DefaultLimit THEN content.limit ELSE old
SetDefaults(old, content) == IF content.kind = "underscores" THEN content.limit ELSE old

\* The second parse_args(): the command line over the defaults set meanwhile.
Parsed == IF cmd.limit # Unset THEN cmd.limit ELSE default

\* Reference: the command line has the last word, before it the last of the
\* files that name the limit.
LastWord ==
    LET named == {i \in 1 .. Len(Paths) : files[Paths[i]].kind = "underscores"}
        last  == CHOOSE i \in named : \A j \in named : j <= i
    IN  IF cmd.limit # Unset THEN cmd.limit
        ELSE IF named = {} THEN DefaultLimit ELSE files[Paths[last]].limit

-----------------------------------------------------------------------------
(* main().                                                                 *)

\* sys.exit(1) or an exception: the supervisor will start the service again.
ExitKeepsReading ==
    /\ proc' = "down" /\ shown' = Unset /\ asked' = Unset
    /\ UNCHANGED parserVars
Exit ==
    /\ proc' = "down"
    /\ read' = 0 /\ default' = DefaultLimit /\ limit' = Unset
    /\ shown' = Unset /\ asked' = Unset

StartProcess ==
    /\ proc = "down"
    /\ proc' = "parsing"
    /\ asked' = LastWord
    /\ UNCHANGED <<parserVars, socket, shown, stored, outsideVars>>

ReadConfigFile ==
    /\ proc = "parsing" /\ read < Len(Paths)
    /\ LET content == files[Paths[read + 1]] IN
       \/ /\ Readable(content)
          /\ read' = read + 1
          /\ default' = SetDefaults(default, content)
          /\ UNCHANGED <<proc, limit, shown, asked>>
       \/ ~Readable(content) /\ Exit
    /\ UNCHANGED <<socket, stored, outsideVars>>

ParseAgain ==
    /\ proc = "parsing" /\ read = Len(Paths)
    /\ limit' = Parsed
    /\ proc' = "probing"
    /\ UNCHANGED <<read, default, socket, shown, stored, asked, outsideVars>>

Passes(next) == proc' = next /\ UNCHANGED <<parserVars, shown, asked>>

\* A step that needs something of the surroundings, or exits.
Needing(stage, need, next) ==
    /\ proc = stage
    /\ \/ lacking # need /\ Passes(next)
       \/ lacking = need /\ Exit

FindHat ==
    /\ Needing("probing", "hat", "socket")
    /\ UNCHANGED <<socket, stored, outsideVars>>

\* What is at socket_path is looked at and removed by system calls of their own,
\* and others may change it between any two: exists(), is_socket(), which is
\* false of what has gone, stat() and unlink(), which raise for it.
SeeSocket ==
    /\ proc = "socket"
    /\ Passes(IF socket = "none" THEN "group" ELSE "kind")
    /\ UNCHANGED <<socket, stored, outsideVars>>

CheckKind ==
    /\ proc = "kind"
    /\ \/ socket \in {"foreign", "root"} /\ Passes("owner")
       \/ socket \in {"none", "file"} /\ Exit
    /\ UNCHANGED <<socket, stored, outsideVars>>

\* A file put there meanwhile is root's or another's.
RemovableNone == FALSE
Removable == socket \in {"root", "file"}

CheckOwner ==
    /\ proc = "owner"
    /\ \/ Removable /\ Passes("unlink")
       \/ (~Removable \/ socket = "file") /\ Exit
    /\ UNCHANGED <<socket, stored, outsideVars>>

\* Whatever is there by now goes.
Unlink ==
    /\ proc = "unlink"
    /\ \/ socket # "none" /\ Passes("group")
       \/ socket = "none" /\ Exit
    /\ socket' = "none"
    /\ UNCHANGED <<stored, outsideVars>>

\* getgrnam; then the StateMachine is made and the handlers are installed.
CheckGroup ==
    /\ Needing("group", "group", "service")
    /\ UNCHANGED <<socket, stored, outsideVars>>

AddPaths ==
    /\ proc = "service"
    /\ proc' = "setting"
    /\ shown' = limit
    /\ UNCHANGED <<parserVars, socket, stored, asked, outsideVars>>

\* SettingsDevice: the value given is the default of a setting that is not there
\* yet; one that is there keeps its value.
StoredAfter(value) == IF stored = Unset THEN value ELSE stored

\* It waits ten seconds for the settings service, then raises.
BindSetting ==
    /\ Needing("setting", "settings", "serving")
    /\ stored' = IF lacking = "settings" THEN stored ELSE StoredAfter(limit)
    /\ UNCHANGED <<socket, outsideVars>>

Hooked == proc \in {"service", "setting", "serving"}

\* cleanup: it removes whatever is at the path, also what a start would not.
\* Only a running loop ends by it.
Cleanup ==
    /\ Hooked
    /\ socket' = "none"
    /\ \/ proc = "serving" /\ Exit
       \/ proc # "serving" /\ UNCHANGED <<proc, parserVars, shown, asked>>
    /\ UNCHANGED <<stored, outsideVars>>

Crash ==
    /\ proc = "serving"
    /\ Exit
    /\ UNCHANGED <<socket, stored, outsideVars>>

\* A value written to /BlackoutTimeLimit is handed to handle_changed_value, which
\* logs it and returns True.  (A D-Bus library that hands its callback two values,
\* as the lambda in the comment takes them, fails to call it: the write is refused
\* and nothing changes.)
WriteShown ==
    /\ proc = "serving"
    /\ shown' \in Limits \ {shown}
    /\ UNCHANGED <<proc, parserVars, socket, stored, asked, outsideVars>>

-----------------------------------------------------------------------------
(* The surroundings.                                                       *)

\* The GUI's page is bound to the setting, not to the daemon's path.
GuiSets ==
    /\ stored # Unset
    /\ stored' \in Limits \ {stored}
    /\ UNCHANGED <<proc, parserVars, socket, shown, asked, outsideVars>>

\* Someone edits a file, or how the service is run, between two starts.
Reconfigure ==
    /\ proc = "down"
    /\ \/ cmd' \in CommandLines /\ UNCHANGED files
       \/ UNCHANGED cmd
          /\ \E f \in FileNames, c \in Contents : files' = [files EXCEPT ![f] = c]
    /\ UNCHANGED <<proc, parserVars, socket, lacking, shown, stored, asked>>

\* Other programs come and go: at the socket path, the HAT, the group, the
\* settings service.
OthersChange ==
    /\ \/ socket' \in Sockets \ {socket} /\ UNCHANGED lacking
       \/ lacking' \in (Needs \cup {"nothing"}) \ {lacking} /\ UNCHANGED socket
    /\ UNCHANGED <<proc, parserVars, shown, stored, asked, cmd, files>>

Main == \/ StartProcess \/ ReadConfigFile \/ ParseAgain \/ FindHat
        \/ SeeSocket \/ CheckKind \/ CheckOwner \/ Unlink
        \/ CheckGroup \/ AddPaths \/ BindSetting

StartupNext ==
    \/ Main \/ Cleanup \/ Crash \/ WriteShown
    \/ GuiSets \/ Reconfigure \/ OthersChange

\* supervise restarts the service, and main() gets on.
StartupSpec == StartupInit /\ [][StartupNext]_vars /\ WF_vars(Main)

-----------------------------------------------------------------------------
(* Properties.                                                             *)

\* The types of the variables; nothing of a process outlives it.
StartupTypeOK ==
    /\ proc \in Stages /\ cmd \in CommandLines
    /\ files \in [FileNames -> Contents]
    /\ read \in 0 .. Len(Paths)
    /\ default \in Limits /\ limit \in Limits \cup {Unset}
    /\ socket \in Sockets /\ lacking \in Needs \cup {"nothing"}
    /\ {shown, stored, asked} \subseteq Limits \cup {Unset}
    /\ proc = "down" => read = 0 /\ limit = Unset /\ shown = Unset

\* The two passes of the parser, with the files' defaults slipped in between,
\* amount to: command line, else the last file that names the limit, else the
\* default, whatever the number and order of the files.
LastWordWins == proc \notin {"down", "parsing"} => limit = asked

\* Once every file of this start can be read, nothing in the surroundings is in
\* its way and nobody touches the socket path while a start is looking at it, the
\* daemon comes up, again after every stop or crash: what an earlier start or
\* another shrpid left behind does not keep it down.
Unobstructed ==
    /\ lacking = "nothing" /\ socket \notin {"file", "foreign"}
    /\ \A i \in 1 .. Len(Paths) : Readable(files[Paths[i]])

PathLeftAlone == proc \in Looking /\ proc' = proc => UNCHANGED socket

ComesUp == <>[]Unobstructed /\ <>[][PathLeftAlone]_vars => []<>(proc = "serving")

\* "Values changed in the GUI need to be updated in the settings": a value that is
\* written to the daemon's path reaches the setting that the ticks read.
WriteReachesSetting ==
    [][proc = "serving" /\ proc' = "serving" /\ shown' # shown => stored' = shown']_vars
=============================================================================
