------------------------------ MODULE ConfigFile ------------------------------
(***************************************************************************)
(* The settings and config.ini (core/config.c, platform/win32/             *)
(* config_win32.c): every process of LinkPulse loads them in main, before  *)
(* it knows whether it will be the one tray of the session, and the tray   *)
(* writes them back, in place, when its window is destroyed.               *)
(*                                                                         *)
(* A file is what its lines say of each key: Absent for a key that has no  *)
(* line, Junk for a value the parser does not know.  The order of the      *)
(* lines only matters to where a file that breaks off ends.                *)
(***************************************************************************)
EXTENDS Integers, FiniteSets

CONSTANTS
    Procs,          \* the processes of one session
    Names,          \* names of interfaces
    Trimmed,        \* a name without the blanks around it
    CutNames,       \* what is left of a name where the file breaks off in it
    Intervals,      \* what --interval may be given
    Options,        \* the options that may be given, of those in WithOption
    FirstFiles,     \* what config.ini may hold to begin with
    NoName,         \* the empty name
    Absent, Junk,   \* see above
    Nobody          \* no process

Modes == {"auto", "manual", "all"}

Config == [mode : Modes, iface : Names \cup {NoName}, include_virtual : BOOLEAN,
           use_bits : BOOLEAN, interval_ms : Nat]

Unread == {Absent, Junk}

File == [mode : Modes \cup Unread, iface : Names \cup {NoName, Absent},
         include_virtual : {0, 1} \cup Unread, use_bits : {0, 1} \cup Unread,
         interval_ms : Nat \cup Unread]

ASSUME ConfigFileAssumption ==
    /\ Unread \cap (Modes \cup Names \cup {NoName} \cup Nat) = {}
    /\ Nobody \notin Procs
    /\ Trimmed \in [Names \cup {NoName} -> Names \cup {NoName}]
    /\ CutNames \in [Names \cup {NoName} -> SUBSET (Names \cup {NoName})]
    /\ Intervals \subseteq Nat \ {0}
    /\ Options \subseteq {"--all", "--include-virtual", "--bits", "--iface", "--interval"}
    /\ FirstFiles \subseteq File

VARIABLES
    file,      \* config.ini; one that does not exist reads like an empty one
    pc,        \* where each process is
    config,    \* its settings
    mutex      \* who owns Local\LinkPulse_SingleInstance

vars == <<file, pc, config, mutex>>

lp_config_defaults ==
    [mode |-> "auto", iface |-> NoName, include_virtual |-> FALSE, use_bits |-> FALSE,
     interval_ms |-> 1000]

Empty == [key \in DOMAIN lp_config_defaults |-> Absent]

Init ==
    /\ file \in FirstFiles
    /\ pc = [p \in Procs |-> "off"]
    /\ config = [p \in Procs |-> lp_config_defaults]
    /\ mutex = Nobody

-----------------------------------------------------------------------------
Flag(value, default) == IF value \in Unread THEN default ELSE value = 1

\* Mistake: an interval of 0 is taken over.
lp_config_parse_ZeroInterval(image) ==
    [mode |-> IF image.mode \in Modes THEN image.mode ELSE lp_config_defaults.mode,
     iface |-> IF image.iface = Absent THEN NoName ELSE Trimmed[image.iface],
     include_virtual |-> Flag(image.include_virtual, lp_config_defaults.include_virtual),
     use_bits |-> Flag(image.use_bits, lp_config_defaults.use_bits),
     interval_ms |-> IF image.interval_ms \in Unread THEN lp_config_defaults.interval_ms
                     ELSE image.interval_ms]

\* The defaults, and over them each line that is understood.
lp_config_parse(image) ==
    [mode |-> IF image.mode \in Modes THEN image.mode ELSE lp_config_defaults.mode,
     iface |-> IF image.iface = Absent THEN NoName ELSE Trimmed[image.iface],
     include_virtual |-> Flag(image.include_virtual, lp_config_defaults.include_virtual),
     use_bits |-> Flag(image.use_bits, lp_config_defaults.use_bits),
     interval_ms |-> IF image.interval_ms \in Unread \cup {0} THEN lp_config_defaults.interval_ms
                     ELSE image.interval_ms]

Digit(flag) == IF flag THEN 1 ELSE 0

\* Mistake: the name is only written in the mode that uses it.
lp_config_serialize_NamelessModes(settings) ==
    [settings EXCEPT !.include_virtual = Digit(@), !.use_bits = Digit(@),
                     !.iface = IF settings.mode = "manual" THEN @ ELSE NoName]

lp_config_serialize(settings) ==
    [settings EXCEPT !.include_virtual = Digit(@), !.use_bits = Digit(@)]

\* The first n lines of a file.
Lines(image, n) ==
    LET line == [mode |-> 1, iface |-> 2, include_virtual |-> 3, use_bits |-> 4, interval_ms |-> 5]
    IN  [key \in DOMAIN line |-> IF line[key] <= n THEN image[key] ELSE Absent]

\* Cutting digits off a number of 32 bits divides it by one of these.
Tens == {10, 100, 1000, 10000, 100000, 1000000, 10000000, 100000000, 1000000000}

\* What is left of a file that breaks off: a name or a number cut short is still
\* a name or a number, any other value cut short is not understood.
Torn(image) ==
    {Lines(image, n) : n \in 0..4}
      \cup {[Lines(image, 1) EXCEPT !.iface = cut] : cut \in CutNames[image.iface]}
      \cup {[Lines(image, 4) EXCEPT !.interval_ms = image.interval_ms \div tens] :
               tens \in {t \in Tens : image.interval_ms >= t}}

-----------------------------------------------------------------------------
\* main loads the settings; a file that cannot be read is as good as none.
lp_config_load(p) ==
    /\ pc[p] = "off"
    /\ pc' = [pc EXCEPT ![p] = "loaded"]
    /\ \/ config' = [config EXCEPT ![p] = lp_config_parse(file)]
       \/ config' = [config EXCEPT ![p] = lp_config_defaults]
    /\ UNCHANGED <<file, mutex>>

\* The options of the command line, one after the other.
WithOption(settings, option) ==
    CASE option = "--all" -> {[settings EXCEPT !.mode = "all"]}
      [] option = "--include-virtual" -> {[settings EXCEPT !.include_virtual = TRUE]}
      [] option = "--bits" -> {[settings EXCEPT !.use_bits = TRUE]}
      [] option = "--iface" -> {[settings EXCEPT !.mode = "manual", !.iface = name] : name \in Names}
      [] option = "--interval" -> {[settings EXCEPT !.interval_ms = ms] : ms \in Intervals}

ParsesOption(p) ==
    /\ pc[p] = "loaded"
    /\ \E option \in Options : \E settings \in WithOption(config[p], option) :
          config' = [config EXCEPT ![p] = settings]
    /\ UNCHANGED <<file, pc, mutex>>

\* lp_tray_run: only one process of the session becomes the tray.
lp_tray_run(p) ==
    /\ pc[p] = "loaded"
    /\ mutex = Nobody
    /\ mutex' = p
    /\ pc' = [pc EXCEPT ![p] = "running"]
    /\ config' = [config EXCEPT ![p].interval_ms = IF @ = 0 THEN 1000 ELSE @]
    /\ UNCHANGED file

\* Any other process ends without saving: the tray is already running, its
\* window cannot be created, or the process was never to be a tray.
EndsUnsaved(p) ==
    /\ pc[p] = "loaded"
    /\ pc' = [pc EXCEPT ![p] = "off"]
    /\ config' = [config EXCEPT ![p] = lp_config_defaults]
    /\ UNCHANGED <<file, mutex>>

\* The one setting the tray's menu changes.
TogglesBits(p) ==
    /\ pc[p] = "running"
    /\ config' = [config EXCEPT ![p].use_bits = ~@]
    /\ UNCHANGED <<file, pc, mutex>>

\* Mistake: the mutex is given up before the settings are saved.
lp_config_save_Unlocked(p) ==
    /\ pc[p] = "running"
    /\ \/ file' = Empty /\ pc' = [pc EXCEPT ![p] = "save"]
       \/ UNCHANGED file /\ pc' = [pc EXCEPT ![p] = "ending"]
    /\ mutex' = Nobody
    /\ UNCHANGED config

\* WM_DESTROY: fopen empties the file, or fails, and fclose writes it.
lp_config_save(p) ==
    /\ pc[p] = "running"
    /\ \/ file' = Empty /\ pc' = [pc EXCEPT ![p] = "save"]
       \/ UNCHANGED file /\ pc' = [pc EXCEPT ![p] = "ending"]
    /\ UNCHANGED <<config, mutex>>

Writes(p) ==
    /\ pc[p] = "save"
    /\ file' = lp_config_serialize(config[p])
    /\ pc' = [pc EXCEPT ![p] = "ending"]
    /\ UNCHANGED <<config, mutex>>

WriteBreaksOff(p) ==
    /\ pc[p] = "save"
    /\ file' \in Torn(lp_config_serialize(config[p]))
    /\ pc' = [pc EXCEPT ![p] = "ending"]
    /\ UNCHANGED <<config, mutex>>

\* The process ends, and the mutex with it: after the message loop of the tray,
\* or whenever it is killed.
Ends(p) ==
    /\ pc[p] \in {"running", "save", "ending"}
    /\ pc' = [pc EXCEPT ![p] = "off"]
    /\ config' = [config EXCEPT ![p] = lp_config_defaults]
    /\ mutex' = Nobody
    /\ UNCHANGED file

Step(p) ==
    \/ lp_config_load(p) \/ ParsesOption(p) \/ lp_tray_run(p) \/ EndsUnsaved(p)
    \/ TogglesBits(p) \/ lp_config_save(p) \/ Writes(p) \/ WriteBreaksOff(p) \/ Ends(p)

Next == \E p \in Procs : Step(p)

Spec == Init /\ [][Next]_vars
-----------------------------------------------------------------------------
TypeOK ==
    /\ file \in File
    /\ pc \in [Procs -> {"off", "loaded", "running", "save", "ending"}]
    /\ config \in [Procs -> Config]
    /\ mutex \in Procs \cup {Nobody}

\* Two trays never run, nor write the file, at the same time: the mutex is held
\* from before the first poll until the settings are saved.
OneTrayAtATime ==
    \A p, q \in Procs :
        {pc[p], pc[q]} \subseteq {"running", "save", "ending"} => p = q

\* Whatever the file says, and however it broke off, no process polls without
\* pausing (config.c:92, tray_win32.c:1156).
NeverPollsWithoutPause == \A p \in Procs : config[p].interval_ms > 0

\* The settings a tray saves are the ones the next process loads, but for the
\* blanks around the name of the interface.
SavedSettingsComeBack ==
    [][\A p \in Procs : Writes(p)
          => lp_config_parse(file') = [config[p] EXCEPT !.iface = Trimmed[@]]]_vars
=============================================================================
