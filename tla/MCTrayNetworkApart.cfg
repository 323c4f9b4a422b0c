SPECIFICATION Spec
CONSTANTS
    home = home
    work = work
    phone = phone
    printer = printer
    cable = cable
    dsl = dsl
    None = none
    Gateways = {home, work}
    Macs = {phone, printer}
    Hostnames = {}
    Types = {}
    Labels = {}
    Isps = {cable, dsl}
    Home <- AtHome
    Provider <- Providers
    LP_DISCOVERY_MISSING_POLLS_BEFORE_LEFT = 1
    MAX_MOVES = 1
INVARIANT
    NetworksKeptApart
