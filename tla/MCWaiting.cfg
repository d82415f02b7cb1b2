SPECIFICATION Spec
CONSTANTS
    Consoles = {"p1"}
    Candidates = {"a", "b"}
    Workers = {"w1"}
    MaxTries = 2
    Runs = {"r1", "r2"}
    Chunks = 2
    Bills = {"i1"}
    Totals = {1}
    MaxPushes = 2
    MaxPolls = 2
    MaxReads = 2
    MaxSaves = 1
    Dues = {"a"}
    MaxMounts = 2
    MaxPrompts = 1
    Goods = {"a", "b"}
    MaxOrders = 2
    MaxAttempts = 1
    Persons = {"ann"}
    Emails = {"e"}
    Slugs = {"acme", "acme2"}
    MaxSignups = 2
    MaxReloads = 1
    MayLose = TRUE
    MayCrash = FALSE
    Typed = {"full", "bare"}
    AllowUnknown = TRUE
    Threads = {1, 2}
    MaxThreads = 2
    HistoryTurns = 2
    MaxQuestions = 4
    MaxOpened = 1
    Subscribers = {"a"}
    MaxPassword = 3
    MaxLoads = 2
    MaxCalls = 4
CHECK_DEADLOCK FALSE
INVARIANT TypeOK
INVARIANT WhatIsSaidIsTrue
PROPERTY NothingIsTaken
PROPERTY WaitingEnds
PROPERTY UnpaidMeetThePaywall
PROPERTY PaidIsFollowed
