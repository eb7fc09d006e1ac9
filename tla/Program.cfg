SPECIFICATION ProgramSpec
CONSTANTS
    MaxPairs = 3
    Wallets = {w1}
    Callers = {main, handler}
    Stoppers = {main, handler}
    MaxStarts = 1
    Nobody = Nobody
    Callbacks = {startWalletServices}
    Main = main
    Handler = handler
    StartWalletServices = startWalletServices
INVARIANTS
    ProgramTypeOK
    ShutdownUnloads
    WholeKeyMatchesCert
    ServesCertOnDisk
PROPERTIES
    InterruptEndsProgram
    StartupFinishes
    KeyNeverReplaced
