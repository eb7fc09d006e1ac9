SPECIFICATION Spec
CONSTANTS
    DefaultKeyScopes = {"bip44"}
    ExtraScopes = {"x", "h"}
    HighCoinScopes = {"h"}
    BareExternal = {"x"}
    BareInternal = {}
    MaxAccountNum = 0
    Uint32Size = 3
    MaxAddressesPerAccount = 1
    Names <- MCNames
    UserNames = {"a"}
    EmptyName = ""
    defaultAccountName = "default"
    ImportedAddrAccountName = "imported"
    ActName <- MCActName0
    NoName = "-"
INVARIANTS
    CommittedScopesComplete
    CommittedScopesManaged
    LockedHoldsNoKeys
    UnlockedCachesComplete
    PendingAccountsCached
    AddressesRecoverable
    WatchingOnlyHoldsNoKeys
