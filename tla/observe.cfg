SPECIFICATION FairSpec
CONSTANTS
    Source = {"one", "two"}
    Logs <- Written
    Backlog = 2
    Window = 3
    Capacity = 3
    MaxEnds = 2
    Hosts <- TwoServers
    Targets <- Both
    Probed = "web"
    Threshold = 2
    Width = 1
    Cadence = 2
    MaxTicks = 3
    MaxOutside = 2
    Lines <- Kinds
    Queries <- Searches
    Height = 1
    MaxLines = 2
INVARIANTS
    EachLineOnce
    CountsAndOffersHold
    AlertsAgree
    FleetStaysTogether
PROPERTIES
    CatchesUp
CHECK_DEADLOCK FALSE
