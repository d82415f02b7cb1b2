SPECIFICATION Spec
CONSTANTS
    WizardPorts = {"ether1"}
    MaxDevices = 2
    MaxReads = 2
    RouterPorts = {"ether1", "ether2"}
    First = "ether1"
    MaxTasks = 3
    MaxAttempts = 2
    Ssids = {"home", "cafe"}
    MaxOrders = 2
    MaxOut = 2
    Poles = {"a", "b"}
    Spots = {"p", "q"}
    MaxLoads = 1
    MaxMoves = 1
    MaxDrags = 2
    MaxTraces = 2
    MaxEdits = 2
    MaxPins = 2
    SheetPorts = {1}
    Cables = {"c"}
    MaxSheets = 4
    MaxSplices = 2
    Tariffs = {"10M", "20M"}
    Found = {"c1", "c2", "q"}
    TariffOf <- Profile
    Queues = {"q"}
    Dated = {"c1"}
    Existing = "Home"
    Fee = 1
    MaxFee = 1
    MaxBacks = 1
    Papers = {"a", "b"}
    PeopleOf <- Subscribers
    Strangers = {"ann", "bob"}
    Raising = {"bob"}
    MaxPicks = 2
    MaxJobs = 4
    Imports = {"r1", "r2"}
    Movers = {1, 2, 3}
    ImportOf <- Import
    Declined = {2}
    Offline = {3}
    MaxScripts = 2
CHECK_DEADLOCK FALSE
INVARIANT TypeOK
INVARIANT FeedIsSpared
INVARIANT PlantIsAsSeen
INVARIANT UnitsAreHandled
INVARIANT ImportIsAsAgreed
PROPERTY NothingUnasked
