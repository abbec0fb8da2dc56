CONSTANTS
    None = None
    Page = {p1}
    Collection = {k1, k2}
    MaxTime = 3
    Offsets <- ServerOffsets
    HistoryWindow = 3
    MaxSamples = 2
    MaxContinuousGap = 2
    MaxTicks = 5
    Service = {radarr, sonarr}
    Card = {d1}
    CacheTime = 2
    Name = {1}
    Lookalike <- Lookalikes
    State <- QueueStates
    MaxItems = 2
    MaxQueued = 3
    More = 1
SPECIFICATION FairDashboardSpec
INVARIANTS
    DashboardInv
    CurrentReadingsAreLatest
    CpuReadingsCoverTime
    ResumingRefreshes
    QueueIsHonest
PROPERTIES
    ShownPagesAreRefreshed
    UpstreamIsSpared
    QueuesRecover
CHECK_DEADLOCK FALSE
