CONSTANTS
    MaxLegacy = 2
    MaxTurns = 3
    MaxRecords = 14
    MaxFaults = 1
    Laptop = {l1, l2}
    IP = {ip1, ip2}
    MaxCas = 2
    MaxLeaves = 2
    Missing = Missing
    IngressRun = {unit, command}
    Rules = 2
    MaxUserRules = 4
    Absent = Absent
    Port = {1, 2}
    MaxImages = 1
    MaxChanges = 2
    Unset = Unset
    spud = spud
    Model = {codex, spud}
    CodexModel = codex
    NoModel = NoModel
    WorkerBuild <- Builds
    Dialog = {dialog}
    Slot = {r1, r2}
SPECIFICATION UpgradeSpec
INVARIANTS
    TimelineInv
    TimelineFollowsTurns
    ToolsInStartOrder
    UpgradeInv
PROPERTIES
    SnapshotsAgree
    NoForwardingWindow
