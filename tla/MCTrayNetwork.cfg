SPECIFICATION FairSpec
CONSTANTS
    home = home
    work = work
    phone = phone
    printer = printer
    cable = cable
    dsl = dsl
    None = none
    Gateways = {home, work}
    Macs = {phone}
    Hostnames = {}
    Types = {}
    Labels = {}
    Isps = {cable, dsl}
    Home <- AtHome
    Provider <- Providers
    LP_DISCOVERY_MISSING_POLLS_BEFORE_LEFT = 2
    MAX_MOVES = 1
INVARIANTS
    TypeOK
    NoRefreshLost
    NoToastForgotten
PROPERTIES
    GapsAreBridged
    IspSettles
