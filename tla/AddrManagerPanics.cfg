SPECIFICATION Spec
CONSTANTS
    DefaultKeyScopes = {"bip44"}
    ExtraScopes = {}
    HighCoinScopes = {}
    BareExternal = {}
    BareInternal = {}
    MaxAccountNum = 1
    Uint32Size = 4
    MaxAddressesPerAccount = 1
    Names <- MCNames
    UserNames = {"a"}
    EmptyName = ""
    defaultAccountName = "default"
    ImportedAddrAccountName = "imported"
    ActName <- MCActName
    NoName = "-"
INVARIANT
    NoCallPanics
