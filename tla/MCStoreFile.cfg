SPECIFICATION FairSpec
CONSTANTS
    m1 = m1
    home = home
    name = name
    laptop = laptop
    mobile = mobile
    label = label
    None = none
    Gateways = {home}
    Macs = {m1}
    Hostnames = {name}
    Types = {laptop, mobile}
    Labels = {label}
    Isps = {}
    FirstFiles <- Starts
    Seen <- Reports
PROPERTIES
    FileIsWhole
    
    PollsKeepNames
    SavedAtLast
