SPECIFICATION Spec
CONSTANTS
    p1 = p1
    p2 = p2
    wifi = wifi
    padded = padded
    NoName = NoName
    Absent = Absent
    Junk = Junk
    Nobody = Nobody
    Procs = {p1, p2}
    Names = {wifi, padded}
    Trimmed <- MCTrimmed
    CutNames <- MCCutNames
    Intervals = {30}
    Options = {"--all", "--iface", "--interval"}
    FirstFiles <- Starts
SYMMETRY Interchangeable
INVARIANTS OneTrayAtATime NeverPollsWithoutPause
PROPERTIES SavedSettingsComeBack
