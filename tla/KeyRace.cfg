SPECIFICATION Spec
CONSTANTS
    Threads = {t1, t2}
    MaxAccount = 1
    Bare = {"external"}
    Nobody = Nobody
    NilInfo = NilInfo
SYMMETRY ThreadSymmetry
INVARIANTS
    KeyRaceTypeOK
    KeysFollowLock
    UnlockFailsOnlyOnSpoiledRow
    SerialCallsSafe
    CallsNeverStuck
