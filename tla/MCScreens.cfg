SPECIFICATION MCSpec
CHECK_DEADLOCK FALSE
CONSTANTS
    None = None
    nc = nc
    a = a
    b = b
    i1 = i1
    Images = {i1}
    MaxNames = 2
    MaxCommands = 2
    MaxFaults = 1
    Calls = {nc, a, b}
    Nco = nc
    Helpers = {}
    MaxEvents = 2
    Roles = {"netcontrol", "netuser"}
    Screens = {"desktop", "phonePortrait"}
    Older <- MCOlder
    Shifts <- MCShifts
    Drops <- MCDrops
    MaxEdits = 1
    MaxLoads = 1
INVARIANTS ListsAgree BackupsRestore
PROPERTIES PanelsStayClear RowsKeepTheirPlaces AlwaysRestorable
