SPECIFICATION Spec
CONSTANTS
    Wallets = {w1, w2}
    Callers = {c1, c2}
    Stoppers = {c1, c2}
    MaxStarts = 1
    Nobody = Nobody
    Callbacks = {f1, f2}
INVARIANT ErrExistsMeansWallet
