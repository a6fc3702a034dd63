------------------------------- MODULE Config -------------------------------
(***************************************************************************)
(* How the service gets its settings (LoadPsuConfig of src/psuservice.c):   *)
(* from the configuration file or, if there is none, from the defaults,     *)
(* which it then saves, one write_profile_string for each line of           *)
(* psuservice.def.  The process may be killed at any point, also between    *)
(* the fopen that empties the file and the fputs that fills it, and be      *)
(* started again; the disk may be full; somebody may edit or remove the     *)
(* file.  What the service works with is then made of the settings' strings. *)
(***************************************************************************)
EXTENDS IniFile, Utils, LogFilter

CONSTANTS
  Argv,        \* the command line
  ConfigFile,  \* the file the one who starts the service means
  Settings,    \* psuservice.def: records [section, key], in order
  Default,     \* Default[x]: the default of the setting x
  Needed,      \* the settings whose absence kills the start-up
  Null,        \* a setting that has no value (a NULL pointer)
  Missing,     \* no file
  EditLines,   \* lines somebody may add to the file
  Texts,       \* Texts[x]: what somebody may give the setting x in the file
  Values,      \* values write_profile_string is tried with
  Meanings,    \* a sequence of records [texts, field, value]: with these texts
               \* in the file this is what a field of `work' should be
  MaxEdits,    \* bound: edits of the file
  FewEdits     \* bound: edits of a file that was not saved completely

SettingSet == Range(Settings)

Given(param) == ParamPlaces(Argv, param) # {}

(* the file main works with, and whether it is the one that is meant        *)
FileName ==
  IF Given("config") THEN GetCmdParamValue(Argv, "config")
                     ELSE "/etc/psu/psuserver.conf"
Meant == FileName = ConfigFile

ASSUME ConfigAssumption ==
  /\ \A i, j \in DOMAIN Settings : Settings[i] = Settings[j] => i = j
  /\ Default \in [SettingSet -> STRING] /\ Needed \subseteq SettingSet
  /\ "" \in STRING                \* true, but TLAPS has to be told
  /\ Null \notin STRING /\ Missing \notin Seq(Lines) /\ MaxEdits \in Nat
  /\ FewEdits \in 0 .. MaxEdits
  /\ EditLines \subseteq Lines /\ Texts \in [SettingSet -> SUBSET STRING]
  /\ Values \subseteq STRING
  /\ Meant \/ FileName = ""        \* a name no file can be opened by

(* psuservice.def: no section, and no key of a section, is a prefix of      *)
(* another one, or write_profile_string would take that one for it          *)
ASSUME NamesAssumption ==
  /\ Settings \in Seq([section : STRING, key : STRING]) \ {<< >>}
  /\ \A x, y \in SettingSet :
       /\ x.key # ""
       /\ IsPrefix(x.section, y.section) <=> x.section = y.section
       /\ x.section = y.section =>
            (IsPrefix(x.key, y.key) <=> x.key = y.key)

VARIABLES
  disk,         \* the file ConfigFile, or Missing
  writable,     \* whether the directory lets the service write it
  cfg,          \* psus_data, the strings of psuservice.def
  work,         \* what is made of them: the rest of psus_data, the levels of
                \* the log filter, where messages go, and how com_open will
                \* set the port
  pc,           \* what the process does
  next,         \* the setting being saved
  w_buf,        \* what is about to be written
  interrupted,  \* the last start that found no file did not save it all:
                \* killed, or the disk is full
  lost,         \* while saving: the last setting that met a full disk, or 0
  edits         \* edits so far

vars == <<disk, writable, cfg, work, pc, next, w_buf, interrupted, lost, edits>>

Unset == [x \in SettingSet |-> Null]
Nothing == << >>

Init ==
  /\ disk = Missing /\ writable \in BOOLEAN
  /\ cfg = Unset /\ work = Nothing /\ pc = "start" /\ next = 1 /\ w_buf = << >>
  /\ interrupted = FALSE /\ lost = 0 /\ edits = 0

load_ini_file(file) == IF file = Missing THEN << >> ELSE file

(* ini_parse succeeds on every file that can be opened; what it does not    *)
(* find stays NULL                                                          *)
LoadPsuConfig ==
  /\ pc = "start"
  /\ \/ /\ disk = Missing \/ ~Meant
        /\ cfg' = Default
        /\ pc' = "save" /\ next' = 1 /\ interrupted' = FALSE
     \/ /\ disk # Missing /\ Meant
        /\ cfg' = ini_parse(disk, cfg)
        /\ pc' = "setup"
        /\ UNCHANGED <<next, interrupted>>
  /\ UNCHANGED <<disk, writable, work, w_buf, lost, edits>>

Setting(section, key) ==
  LET x == [section |-> section, key |-> key]
  IN IF x \notin SettingSet \/ cfg[x] = Null THEN "" ELSE cfg[x]

(* ParseIPAddr, ExtractFilePath and the strcpy of -log do not survive a     *)
(* NULL; StrToInt makes it 0, and com_open its defaults.                    *)
Lacking == \E x \in Needed : cfg[x] = Null

(* -log is copied over the string of the setting: if it is longer, anything *)
(* may happen                                                               *)
log_file ==
  IF Given("log") THEN GetCmdParamValue(Argv, "log") ELSE Setting("log", "file")
Overruns == Given("log") /\ Len(log_file) > Len(Setting("log", "file"))

WorkedOut ==
  LET flag == StrToInt(Setting("log", "flag"))
      levels == SetLogLevel(StrToInt(Setting("log", "minLevel")) % 65536,
                            StrToInt(Setting("log", "maxLevel")) % 65536)
      udpport == StrToInt(Setting("network", "udpport")) % 65536
  IN [levels |-> levels,
      psus_log |-> LogMessage(10, levels, log_file, flag),
      psus_error |-> LogErrorMessage(log_file),
      selectTimeout |-> StrToInt(Setting("network", "selectTimeout")),
      udpport |-> IF udpport = 0 THEN 5000 ELSE udpport,
      net_addr |-> ParseIPAddr(Setting("network", "ipaddr")),
      uart |-> com_open(Setting("uart", "port"))]

SetUp ==
  /\ pc = "setup"
  /\ \/ ~Lacking /\ pc' = "running" /\ work' = WorkedOut
     \/ (Lacking \/ Overruns) /\ pc' = "crashed" /\ UNCHANGED work
  /\ lost' = 0
  /\ UNCHANGED <<disk, writable, cfg, next, w_buf, interrupted, edits>>

(* -d: the child goes on where the parent ends, unless fork fails           *)
ForkFails ==
  /\ pc = "setup" /\ ~Lacking /\ CheckCmdLine(Argv, "d")
  /\ pc' = "down"
  /\ cfg' = Unset /\ work' = Nothing /\ next' = 1 /\ w_buf' = << >> /\ lost' = 0
  /\ UNCHANGED <<disk, writable, interrupted, edits>>

Advance_PastEnd == next' = next + 1 /\ pc' = "save"
Advance_Early ==
  IF next + 1 >= Len(Settings) THEN pc' = "setup" /\ UNCHANGED next
                               ELSE pc' = "save" /\ next' = next + 1
Advance ==
  IF next = Len(Settings) THEN pc' = "setup" /\ UNCHANGED next
                          ELSE pc' = "save" /\ next' = next + 1

(* save_config, one setting: read the file, change it, fopen(file,"w") ...  *)
SaveOpen ==
  /\ pc = "save" /\ writable /\ Meant
  /\ LET x == Settings[next]
     IN w_buf' = write_profile_string(load_ini_file(disk), x.section, x.key, cfg[x])
  /\ disk' = << >>
  /\ pc' = "write"
  /\ UNCHANGED <<writable, cfg, work, next, interrupted, lost, edits>>
(* ... and fputs and fclose, whose failures change nothing more: the next   *)
(* setting is tried as if nothing had happened, and may be written          *)
SaveWrite ==
  /\ pc = "write"
  /\ disk' = w_buf /\ w_buf' = << >>
  /\ Advance
  /\ UNCHANGED <<writable, cfg, work, interrupted, lost, edits>>
DiskFull ==
  /\ pc = "write" /\ interrupted' = TRUE /\ lost' = next /\ w_buf' = << >>
  /\ Advance
  /\ UNCHANGED <<disk, writable, cfg, work, edits>>
SaveFails ==
  /\ pc = "save" /\ ~(writable /\ Meant)
  /\ Advance
  /\ UNCHANGED <<disk, writable, cfg, work, w_buf, interrupted, lost, edits>>

Killed ==
  /\ pc \in {"start", "save", "write", "setup", "running"}
  /\ pc' = "down"
  /\ interrupted' = (interrupted \/ pc \in {"save", "write"})
  /\ cfg' = Unset /\ work' = Nothing /\ next' = 1 /\ w_buf' = << >> /\ lost' = 0
  /\ UNCHANGED <<disk, writable, edits>>

Restart ==
  /\ pc \in {"down", "crashed"}
  /\ pc' = "start" /\ cfg' = Unset /\ work' = Nothing
  /\ UNCHANGED <<disk, writable, next, w_buf, interrupted, lost, edits>>

(* A service that runs never looks at its file: an edit meanwhile is as     *)
(* good as one while it is down.                                            *)
Edit(file) ==
  /\ edits < (IF interrupted THEN FewEdits ELSE MaxEdits) /\ edits' = edits + 1
  /\ pc = "down" /\ disk # Missing
  /\ disk' = file
  /\ UNCHANGED <<writable, cfg, work, pc, next, w_buf, interrupted, lost>>
AddLine(line) == Edit(Append(disk, line))
SetValue(x, value) ==
  \E call \in Range(Calls(load_ini_file(disk))) :
     /\ call.section = x.section /\ call.key = x.key
     /\ Edit([disk EXCEPT ![call.line].value = value])
RemoveFile == Edit(Missing)

Next ==
  \/ LoadPsuConfig \/ SetUp \/ ForkFails \/ SaveOpen \/ SaveWrite \/ DiskFull \/ SaveFails
  \/ Killed \/ Restart \/ RemoveFile
  \/ \E line \in EditLines : AddLine(line)
  \/ \E x \in SettingSet : \E value \in Texts[x] : SetValue(x, value)

Spec == Init /\ [][Next]_vars

-----------------------------------------------------------------------------

ConfigTypeOK ==
  /\ disk = Missing \/ disk \in Seq(Lines)
  /\ writable \in BOOLEAN /\ interrupted \in BOOLEAN
  /\ cfg \in [SettingSet -> STRING \cup {Null}]
  /\ pc \in {"start", "save", "write", "setup", "running", "down", "crashed"}
  /\ next \in DOMAIN Settings /\ lost \in 0 .. Len(Settings)
  /\ edits \in 0 .. MaxEdits

(* The saving of one setting leaves those saved before as they were: both   *)
(* parsers find each of them again, in the file and in what is about to     *)
(* replace it.  A full disk costs all that was saved up to it, and no more: *)
(* the settings after it, each tried anew, are there.                       *)
Holds(file, x) ==
  /\ read_profile_string(file, x.section, x.key, Null) = cfg[x]
  /\ ini_parse(file, Unset)[x] = cfg[x]
SavedSoFar ==
  /\ pc = "save" /\ writable =>
       \A i \in lost + 1 .. next - 1 : Holds(load_ini_file(disk), Settings[i])
  /\ pc = "write" => \A i \in lost + 1 .. next : Holds(w_buf, Settings[i])

(* A start that was not cut short leaves a file that every later start      *)
(* finds all settings in, whatever is added to it or changed in it.         *)
SettingsComplete ==
  pc \in {"running", "crashed"} /\ ~interrupted =>
     \A x \in SettingSet : cfg[x] # Null

(* What the file says of the log, the waiting, the network and the serial   *)
(* port is what the service works with, after whatever edits and restarts.  *)
WorksAsConfigured ==
  pc = "running" =>
     \A i \in DOMAIN Meanings :
        LET m == Meanings[i]
        IN (\A x \in DOMAIN m.texts : cfg[x] = m.texts[x]) =>
             work[m.field] = m.value

(* A service that runs has the settings of the file its command line names, *)
(* each as the file has it, unless it could not save them: from argv        *)
(* through the defaults, the saving and whatever was edited since.          *)
RunsOnFile ==
  pc = "running" /\ writable /\ ~interrupted =>
     ini_parse(load_ini_file(disk), Unset) = cfg

Settled == pc = "down" /\ disk # Missing

Written(x, value) == write_profile_string(disk, x.section, x.key, value)

(* Whatever the file, a setting that write_profile_string writes is what    *)
(* read_profile_string reads back: also where a section occurs twice, is    *)
(* the last and empty, or has a prefix of its name beside it.               *)
ReadBack ==
  Settled => \A x \in SettingSet, value \in Values :
     read_profile_string(Written(x, value), x.section, x.key, Null) = value

(* What the service finds in a file of any entry, of its own or not        *)
Names(file) ==
  SettingSet \cup {[section |-> call.section, key |-> call.key] :
                     call \in Range(Calls(file))}
Found(file, names) == ini_parse(file, [y \in names |-> Null])

(* a name that is a proper prefix of one of psuservice.def: parse_file      *)
(* takes it for that one                                                    *)
Ambiguous(file) ==
  \E i \in DOMAIN file, x \in SettingSet :
     \/ file[i].kind = "header" /\ IsStrictPrefix(file[i].name, x.section)
     \/ file[i].kind = "entry" /\ IsStrictPrefix(file[i].name, x.key)

(* an indented line that ini_parse takes by itself, although it is not an   *)
(* entry right after a header: only ini_parse sees what is in it, and an    *)
(* entry written above it would be continued by it                          *)
Misread(file) ==
  \E i \in Of(file, {"header", "entry", "loose", "text"}) :
     /\ file[i].indent /\ Scan(file, i - 1).prev_name = ""
     /\ \/ file[i].kind = "header"
        \/ i # LineAfter(file, LastOf(FileHeaders(file), i))

(* Nor does writing one setting change what the service will find for any   *)
(* other, known or not, unless the file has such a name or line.            *)
WriteIsLocal ==
  Settled /\ ~Ambiguous(disk) /\ ~Misread(disk) =>
     \A x \in SettingSet, value \in Values :
        LET others == Names(disk) \ {x}
        IN Found(Written(x, value), others) = Found(disk, others)

(* The service loads what write_profile_string wrote, although the one      *)
(* takes the last entry of a setting and the other changes the first: so    *)
(* long as the file has at most one, which both parsers see as such.        *)
OneEntry(file, x) ==
  \A call \in Range(Calls(file)) :
     call.section = x.section /\ call.key = x.key =>
       KeyLines(file, x.section, x.key) = {call.line}
WrittenIsLoaded ==
  Settled /\ ~Ambiguous(disk) /\ ~Misread(disk) =>
     \A x \in SettingSet, value \in Values :
        LET loaded == Found(Written(x, value), {x})[x]
        IN /\ loaded \in {value, Found(disk, {x})[x]}
           /\ OneEntry(disk, x) => loaded = value

(* The two parsers find the same in such a file, also nothing: whoever asks *)
(* read_profile_string gets what the service would load, although it takes  *)
(* the first entry of a setting, whole names or not, and no continuations.  *)
ParsersAgree ==
  Settled /\ ~Ambiguous(disk) /\ ~Misread(disk) =>
     \A x \in SettingSet :
        OneEntry(disk, x) =>
          read_profile_string(disk, x.section, x.key, Null) = Found(disk, {x})[x]

(* psuservice.c:26 "create one and fill in its default values": no setting  *)
(* of a service that has started is without a value.                        *)
DefaultsFilledIn ==
  pc \in {"running", "crashed"} => \A x \in SettingSet : cfg[x] # Null
=============================================================================
