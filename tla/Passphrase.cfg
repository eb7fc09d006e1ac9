CONSTANTS
    Empty = Empty
    Passphrases = {Empty, p1, p2}
    ZeroSalt = ZeroSalt
    Salts = {s1, s2}
    NoRoot = NoRoot
    Roots = {r1}
SPECIFICATION Spec
INVARIANTS
    PassphraseTypeOK
    HashFollowsPassphrase
PROPERTY ImplementsLockState
