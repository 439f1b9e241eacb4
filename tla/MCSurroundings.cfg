SPECIFICATION Spec
CONSTANTS
    Parts = {"composer", "dialogs", "navigation", "shell", "credentials", "usage", "catalog", "reports",
             "requests", "suggestions", "resume", "tree", "moves", "framing", "settings"}
    Words = {1, 2, 3}
    Pictures = {3}
    Waiting0 <- MCQueued
    Dialogs = {1, 2}
    Questions = {1}
    KindsOf <- MCKinds
    MaxRuns = 2
    MaxPosts = 2
    Roots = {1, 2}
    DeskSessions = {1, 2, 3}
    Callers = {1, 2}
    Wishes <- MCWishes
    NoOne = 0
    Versions = {1}
    MaxLaunches = 2
    MaxChanges = 1
    MaxWaiting = 2
    UsageProviders = {"baseten", "openai", "openai-codex", "github-copilot", "openrouter", "xai"}
    UsageIds = {1, 2}
    Uncertain = {1}
    MaxUsageIds = 5
    MaxAccounts = 1
    HeadWindow = 2
    TailWindow = 2
    MaxListed = 2
    MaxRecords = 4
    MaxAppends = 2
    MaxSearches = 3
    MaxFlows = 3
    MaxQuestions = 3
    SavedSessions = {"s1", "s2"}
    MaxTree = 4
    OddFile = 2
    Targets = {"a", "b"}
    Prompts = {"b"}
    MaxMoves = 2
    MaxUpsets = 1
    MaxText = 4
    FrameLimit = 2
    LogicalLimit = 4
    MaxZooms = 1
    MaxEdits = 1
    MaxActions = 2
    MaxForeign = 1
INVARIANTS
    Types
    DraftsKept
    
    DeskKeepsTrack
    ShellKeepsWord
    UsageTrue
    PickersTrue
    ReadingTrue
    RecordsArriveWhole
    SettingsKept
CHECK_DEADLOCK FALSE
