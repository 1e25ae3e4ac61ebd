SPECIFICATION FairSpec
CONSTANTS
    s1 = s1
    s2 = s2
    c1 = c1
    c2 = c2
    Planned = {1, 2}
    Tails <- TailsOf
    Patches = {c1, c2}
    Added <- AddedBy
    SlotOf <- SlotsOf
    Slots = {s1, s2}
    SlotDeps <- DepsOfSlots
    DependsOn <- Deps
    Estimate <- Estimates
    Effectful = {2}
    Limit = 4
    FrontierSize = 2
    MaxRequests = 2
    MaxSends <- Sends
    Races = {}
INVARIANTS
    BudgetHolds
    ReportsAreTrue
    PatchesWakeTheJob
PROPERTIES
    CompletedNeverReruns
    EffectsNotReplanned
    LoopRests
CHECK_DEADLOCK FALSE
