SPECIFICATION Spec
CONSTANTS
    DefaultKeyScopes = {"bip44"}
    ExtraScopes = {}
    HighCoinScopes = {}
    BareExternal = {}
    BareInternal = {}
    MaxAccountNum = 1
    Uint32Size = 4
    MaxAddressesPerAccount = 1
    Names <- MCNames
    UserNames = {"a", "default", "imported"}
    EmptyName = ""
    defaultAccountName = "default"
    ImportedAddrAccountName = "imported"
    ActName <- MCActName
    NoName = "-"
INVARIANTS
    TypeOK
    IndexesAgree
    ImportedRowIntact
PROPERTIES
    NameKeepsItsAccount
    ImplementsNameRegistry
