--------------------------- MODULE ConfigFileProofs ---------------------------
(***************************************************************************)
(* The safety of ConfigFile.tla for any number of processes, any names and *)
(* any file to begin with.                                                 *)
(***************************************************************************)
EXTENDS ConfigFile, TLAPS

-----------------------------------------------------------------------------
(* Files and settings.                                                     *)

\* Whatever a file holds, what is parsed from it are settings, and their interval
\* is not 0 (config.c:92).
LEMMA ParsedSettings ==
    ASSUME NEW image \in File
    PROVE  /\ lp_config_parse(image) \in Config
           /\ lp_config_parse(image).interval_ms > 0
<1>1. lp_config_defaults.mode \in Modes /\ lp_config_defaults.interval_ms \in Nat \ {0}
  BY DEF lp_config_defaults, Modes
<1>2. /\ Flag(image.include_virtual, lp_config_defaults.include_virtual) \in BOOLEAN
      /\ Flag(image.use_bits, lp_config_defaults.use_bits) \in BOOLEAN
  BY DEF lp_config_defaults, Flag
<1>3. (IF image.iface = Absent THEN NoName ELSE Trimmed[image.iface]) \in Names \cup {NoName}
  BY ConfigFileAssumption DEF File
<1>4. (IF image.interval_ms \in Unread \cup {0} THEN lp_config_defaults.interval_ms
       ELSE image.interval_ms) \in Nat \ {0}
  BY <1>1 DEF File
<1>5. (IF image.mode \in Modes THEN image.mode ELSE lp_config_defaults.mode) \in Modes
  BY <1>1
<1> QED
  BY <1>2, <1>3, <1>4, <1>5 DEF lp_config_parse, Config

\* What lp_config_save writes is a file.
LEMMA SerializedSettings ==
    ASSUME NEW settings \in Config
    PROVE  lp_config_serialize(settings) \in File
  BY DEF lp_config_serialize, Config, File, Digit

\* The defaults are settings, and they do pause between polls.
LEMMA DefaultSettings ==
    lp_config_defaults \in Config /\ lp_config_defaults.interval_ms > 0
  BY DEF lp_config_defaults, Config, Modes

\* A file cut off before its first line is a file.
LEMMA EmptyIsFile == Empty \in File
  BY DEF Empty, File, lp_config_defaults, Unread

\* The first lines of a file are a file.
LEMMA LinesAreFile ==
    ASSUME NEW image \in File, NEW n \in 0 .. 4
    PROVE  Lines(image, n) \in File
  BY DEF Lines, File, Unread

\* What a write that broke off leaves is still a file to the parser.
LEMMA TornIsFile ==
    ASSUME NEW settings \in Config, NEW torn \in Torn(lp_config_serialize(settings))
    PROVE  torn \in File
<1> DEFINE image == lp_config_serialize(settings)
<1>1. image \in File /\ image.iface \in Names \cup {NoName} /\ image.interval_ms \in Nat
  BY SerializedSettings DEF lp_config_serialize, Config
<1> HIDE DEF image
<1>2. CASE \E n \in 0..4 : torn = Lines(image, n)
  BY <1>1, <1>2, LinesAreFile
<1>3. ASSUME NEW cut \in CutNames[image.iface], torn = [Lines(image, 1) EXCEPT !.iface = cut]
      PROVE  torn \in File
  <2>1. cut \in Names \cup {NoName}
    BY <1>1, ConfigFileAssumption
  <2> QED
    BY <2>1, <1>1, <1>3, LinesAreFile DEF File
<1>4. ASSUME NEW tens \in Tens,
             torn = [Lines(image, 4) EXCEPT !.interval_ms = image.interval_ms \div tens]
      PROVE  torn \in File
  <2>1. image.interval_ms \div tens \in Nat
    BY <1>1, <1>4 DEF Tens
  <2> QED
    BY <2>1, <1>1, <1>4, LinesAreFile DEF File
<1> QED
  BY <1>2, <1>3, <1>4 DEF Torn, image

\* What a tray writes is read as its settings, the name of the interface without
\* the blanks around it.
LEMMA RoundTrip ==
    ASSUME NEW settings \in Config, settings.interval_ms > 0
    PROVE  lp_config_parse(lp_config_serialize(settings))
              = [settings EXCEPT !.iface = Trimmed[settings.iface]]
<1> DEFINE image == lp_config_serialize(settings)
<1>1. /\ image.mode = settings.mode
      /\ image.iface = settings.iface
      /\ image.include_virtual = Digit(settings.include_virtual)
      /\ image.use_bits = Digit(settings.use_bits)
      /\ image.interval_ms = settings.interval_ms
  BY DEF lp_config_serialize, Config
<1> HIDE DEF image
<1>2. /\ settings.mode \in Modes
      /\ settings.iface \in Names \cup {NoName} /\ settings.iface # Absent
      /\ settings.include_virtual \in BOOLEAN /\ settings.use_bits \in BOOLEAN
      /\ settings.interval_ms \in Nat \ {0} /\ settings.interval_ms \notin Unread
      /\ 0 \notin Unread /\ 1 \notin Unread
  BY ConfigFileAssumption DEF Config, Unread
<1>3. ASSUME NEW flag \in BOOLEAN, NEW default \in BOOLEAN
      PROVE  Flag(Digit(flag), default) = flag
  BY <1>2, <1>3 DEF Flag, Digit
<1>4. lp_config_parse(image)
         = [mode |-> settings.mode, iface |-> Trimmed[settings.iface],
            include_virtual |-> settings.include_virtual, use_bits |-> settings.use_bits,
            interval_ms |-> settings.interval_ms]
  <2>1. lp_config_defaults.include_virtual \in BOOLEAN /\ lp_config_defaults.use_bits \in BOOLEAN
    BY DEF lp_config_defaults
  <2> QED
    BY <1>1, <1>2, <1>3, <2>1 DEF lp_config_parse
<1> QED
  BY <1>4 DEF image, Config

-----------------------------------------------------------------------------
(* The invariant.                                                          *)

\* Whoever runs as a tray, or has just stopped to, owns the mutex.
Tray(p) == pc[p] \in {"running", "save", "ending"}
TrayHoldsMutex == \A p \in Procs : Tray(p) => mutex = p

IInv == TypeOK /\ TrayHoldsMutex /\ NeverPollsWithoutPause

\* Every process starts from the defaults.
LEMMA InitIInv == Init => IInv
  BY DefaultSettings, ConfigFileAssumption
  DEF Init, IInv, TypeOK, TrayHoldsMutex, Tray, NeverPollsWithoutPause

\* An option gives settings, and no interval of 0 (cli/main.c parses it so).
LEMMA OptionGivesSettings ==
    ASSUME NEW settings \in Config, settings.interval_ms > 0,
           NEW option \in Options, NEW new \in WithOption(settings, option)
    PROVE  new \in Config /\ new.interval_ms > 0
<1>1. CASE option = "--all"
  <2>1. new = [settings EXCEPT !.mode = "all"]
    BY <1>1 DEF WithOption
  <2> QED
    BY <2>1 DEF Config, Modes
<1>2. CASE option = "--include-virtual"
  <2>1. new = [settings EXCEPT !.include_virtual = TRUE]
    BY <1>2 DEF WithOption
  <2> QED
    BY <2>1 DEF Config
<1>3. CASE option = "--bits"
  <2>1. new = [settings EXCEPT !.use_bits = TRUE]
    BY <1>3 DEF WithOption
  <2> QED
    BY <2>1 DEF Config
<1>4. CASE option = "--iface"
  <2>1. PICK name \in Names : new = [settings EXCEPT !.mode = "manual", !.iface = name]
    BY <1>4 DEF WithOption
  <2> QED
    BY <2>1 DEF Config, Modes
<1>5. CASE option = "--interval"
  <2>1. PICK ms \in Intervals : new = [settings EXCEPT !.interval_ms = ms]
    BY <1>5 DEF WithOption
  <2> QED
    BY <2>1, ConfigFileAssumption DEF Config
<1> QED
  BY <1>1, <1>2, <1>3, <1>4, <1>5, ConfigFileAssumption

\* A step of one process, the tray or a command, keeps the invariant.
LEMMA StepPreserves ==
    ASSUME IInv, NEW p \in Procs, Step(p)
    PROVE  IInv'
<1> USE DEF IInv, TypeOK, TrayHoldsMutex, Tray, NeverPollsWithoutPause
<1>1. CASE lp_config_load(p)
  BY <1>1, ParsedSettings, DefaultSettings DEF lp_config_load
<1>2. CASE ParsesOption(p)
  <2>1. PICK option \in Options : \E settings \in WithOption(config[p], option) :
                                      config' = [config EXCEPT ![p] = settings]
    BY <1>2 DEF ParsesOption
  <2>2. PICK settings \in WithOption(config[p], option) :
               config' = [config EXCEPT ![p] = settings]
    BY <2>1
  <2>3. settings \in Config /\ settings.interval_ms > 0
    BY <2>2, OptionGivesSettings
  <2> QED
    BY <1>2, <2>2, <2>3 DEF ParsesOption
<1>3. CASE lp_tray_run(p)
  BY <1>3, ConfigFileAssumption DEF lp_tray_run, Config
<1>4. CASE EndsUnsaved(p)
  BY <1>4, DefaultSettings DEF EndsUnsaved
<1>5. CASE TogglesBits(p)
  BY <1>5 DEF TogglesBits, Config
<1>6. CASE lp_config_save(p)
  BY <1>6, EmptyIsFile DEF lp_config_save
<1>7. CASE Writes(p)
  BY <1>7, SerializedSettings DEF Writes
<1>8. CASE WriteBreaksOff(p)
  BY <1>8, TornIsFile DEF WriteBreaksOff
<1>9. CASE Ends(p)
  BY <1>9, DefaultSettings DEF Ends
<1> QED
  BY <1>1, <1>2, <1>3, <1>4, <1>5, <1>6, <1>7, <1>8, <1>9 DEF Step

\* Every step keeps the invariant.
LEMMA NextIInv == IInv /\ [Next]_vars => IInv'
<1>1. ASSUME IInv, UNCHANGED vars PROVE IInv'
  BY <1>1 DEF IInv, TypeOK, TrayHoldsMutex, Tray, NeverPollsWithoutPause, vars
<1> QED
  BY <1>1, StepPreserves DEF Next

\* It holds of every state of the processes and the file.
LEMMA Invariance == Spec => []IInv
  BY InitIInv, NextIInv, PTL DEF Spec

-----------------------------------------------------------------------------
\* The settings and the file are of the right form whatever processes do.
THEOREM TypeCorrect == Spec => []TypeOK
<1>1. IInv => TypeOK
  BY DEF IInv
<1> QED
  BY <1>1, Invariance, PTL

\* One tray at a time runs, and saves: the mutex is owned from before the first
\* poll until after the file was written (tray_main.c, tray_win32.c:1140-1152).
THEOREM OneTray == Spec => []OneTrayAtATime
<1>1. IInv => OneTrayAtATime
  BY DEF IInv, TrayHoldsMutex, Tray, OneTrayAtATime
<1> QED
  BY <1>1, Invariance, PTL

\* Whatever is in the file, no process polls without a pause (config.c:92).
THEOREM NoBusyLoop == Spec => []NeverPollsWithoutPause
<1>1. IInv => NeverPollsWithoutPause
  BY DEF IInv
<1> QED
  BY <1>1, Invariance, PTL

\* What a tray saves is what the next process loads (config.c:49-148).
THEOREM SettingsComeBack == Spec => SavedSettingsComeBack
<1>1. ASSUME IInv, NEW p \in Procs, Writes(p)
      PROVE  lp_config_parse(file') = [config[p] EXCEPT !.iface = Trimmed[config[p].iface]]
  BY <1>1, RoundTrip DEF IInv, TypeOK, NeverPollsWithoutPause, Writes
<1>2. IInv => (\A p \in Procs : Writes(p)
                  => lp_config_parse(file') = [config[p] EXCEPT !.iface = Trimmed[config[p].iface]])
  BY <1>1
<1> QED
  BY <1>2, Invariance, PTL DEF SavedSettingsComeBack
=============================================================================
