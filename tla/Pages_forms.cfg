SPECIFICATION Spec
CONSTANTS
    Page = {1, 2}
    Size = {10, 20}
    MaxCalls = 3
    MaxWrites = 1
    Mounted <- SettingsPages
    MaxEdits = 2
    MaxSaves = 2
    MaxFaults = 1
    InitialKeys <- TwoKeys
    NewKeys = {"k3"}
    MaxOps = 3
    MaxFailures = 1
    Record = {"A", "B"}
    MaxUses = 3
    NameOrder <- ModelNames
    Spaced = " m"
    Candidates = {"n"}
    Starts <- PriceStarts
    Default <- BuiltIn
    Typed <- TypedEntries
    Appended <- AppendedModels
    ChannelOrder <- Channels
    FirstRows <- ChannelRows
    Lists <- ProviderLists
    Aliases <- RedirectSources
    Targets <- RedirectTargets
    Edits <- EditedModels
    MaxUpdates = 2
    Tab = {"t1", "t2"}
    User = {"A", "B"}
    MaxClicks = 4
    Overrides <- StoredOverrides
    Texts <- TypedTexts
    Patches <- RulePatches
    MaxChanges = 2
INVARIANTS
    TypeOK RowsCurrent SpinnersEnd FormsMatchServer KeysListed
PROPERTIES
    SavesFaithful StatusFollowsKey
CHECK_DEADLOCK FALSE
