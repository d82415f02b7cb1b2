SPECIFICATION Spec
CONSTANTS
    BrowserTabs = {"t1", "t2"}
    MaxLogins = 2
    MaxCalls = 2
    Values = {"a"}
    Sms = {"at", "twilio"}
    Whatsapp = {"meta"}
    Listed = "at"
    MaxLoads = 3
    MaxTabs = 1
    Others = {"at"}
    Hosts = {"a"}
    MaxEdits = 2
    MaxRouteEdits = 1
    MaxPuts = 2
    ListOut = 2
    ListOrders = 2
    PolledOrders = 1
    ListViews = 1
    ListPolls = 1
    Threads = {1, 2}
    MaxThreads = 1
    HistoryTurns = 2
    MaxQuestions = 2
    MaxElsewhere = 1
    MaxReads = 1
    Persons = {"ann", "bob"}
    Emails = {"e"}
    Slugs = {"acme", "acme2"}
    MaxSignups = 2
    TabsOut = 2
    TabEdits = 2
    TabSaves = 2
    TabTurns = 2
    Speeds = {1, 2}
    Sizes = {4, 10}
    Prices = {0, 5}
    Hours = {24, 720}
    Days = {7, 30}
    FormEdits = 2
    FormSaves = 2
    MaxUsed = 10
    PlanClients = 3
    SharedClients = 3
    SharedPage = 2
    Subscribers = {1, 2}
    Wired = {1}
    ClientRows = 1
    TypingFrom = 2
    ListReads = 1
    ListEvents = 1
    Logins = {"l1", "l2"}
    Plans = {"p1", "p2"}
    Tries = 3
    Ports = {"ether1", "ether2"}
    Uplink = "ether1"
    RowsPerPage = {1, 2}
    Requests = 3
CHECK_DEADLOCK FALSE
INVARIANT TypeOK
INVARIANT SessionsApart
INVARIANT ShownIsStored
INVARIANT RecordsHold
PROPERTY OnlyAsAgreed
PROPERTY SecretsStay
