----------------------------- MODULE Passphrase -----------------------------
(***************************************************************************)
(* How the passphrases guard a manager's keys: the SecretKey of snacl      *)
(* (scrypt, with a digest of the key to recognise the password), the keys  *)
(* Create generates and stores under one another, Open, Unlock with its    *)
(* check of an already unlocked manager, and Lock.  The cryptography is    *)
(* ideal: a derived key, a hash and a sealed box determine what they were  *)
(* made of, and a random value is any of a small set.                      *)
(*                                                                         *)
(* Each call holds the manager's mutex from end to end, so it is one       *)
(* action; what concurrent callers that do not take it can do is the       *)
(* subject of module KeyRace, and the account rows of AddrManager.         *)
(***************************************************************************)
EXTENDS Naturals, Sequences

CONSTANTS Passphrases, Empty, Salts, ZeroSalt, Roots, NoRoot

ASSUME PassphraseAssumption ==
    /\ Empty \in Passphrases /\ ZeroSalt \notin Salts /\ NoRoot \notin Roots

VARIABLES
    ns,                    \* the main bucket; an absent value is <<>>
    opened,                \* a Manager object exists
    watchingOnly, locked,
    masterKeyPriv,         \* a SecretKey
    cryptoKeyPrivEncrypted, cryptoKeyPriv, cryptoKeyPub,
    privPassphraseSalt, hashedPrivPassphrase,
    last                   \* the last call: operation, argument, result

keys == <<masterKeyPriv, cryptoKeyPrivEncrypted, cryptoKeyPriv, cryptoKeyPub,
          privPassphraseSalt, hashedPrivPassphrase>>
vars == <<ns, opened, watchingOnly, locked, keys, last>>

-----------------------------------------------------------------------------
(***************************************************************************)
(* snacl.                                                                  *)
(***************************************************************************)
ZeroKey == <<"zero">>
ZeroHash == <<"zero">>
GeneratedKeys == {<<"cryptoKeyPub">>, <<"cryptoKeyPriv">>, <<"cryptoKeyScript">>}

\* DefaultScryptOptions and FastScryptOptions.
ScryptOptions == {<<262144, 8, 1>>, <<16, 8, 1>>}

scrypt(pass, salt, cost) == <<pass, salt, cost>>
Sum256(key) == <<"sha256", key>>

\* secretbox: what was sealed is opened by the key it was sealed with.
Encrypt(key, in) == <<key, in>>
Decrypts(key, in) == Len(in) = 2 /\ in[1] = key
Decrypted(in) == in[2]

NewSecretKey(pass, salt, cost) ==
    LET key == scrypt(pass, salt, cost)
    IN  [key |-> key, salt |-> salt, digest |-> Sum256(key), cost |-> cost]

\* The parameters without the key, in the order they are laid out.
Marshal(sk) == <<sk.salt, sk.digest, sk.cost[1], sk.cost[2], sk.cost[3]>>

Unmarshals(b) == Len(b) = 5

Unmarshal(b) ==
    [key |-> ZeroKey, salt |-> b[1], digest |-> b[2],
     cost |-> <<b[3], b[4], b[5]>>]

deriveKey(sk, pass) == [sk EXCEPT !.key = scrypt(pass, sk.salt, sk.cost)]

\* DeriveKey's comparison, after deriveKey has replaced the key.
DigestMatches(sk) == Sum256(sk.key) = sk.digest

-----------------------------------------------------------------------------
NoSecretKey == [key |-> ZeroKey, salt |-> ZeroSalt, digest |-> ZeroHash,
                cost |-> <<>>]

BucketNames == {"mpub", "mpriv", "cpub", "cpriv", "cscript",
                "mhdpub", "mhdpriv", "watchonly"}
NoBucket == [n \in BucketNames |-> <<>>]

\* The main bucket is there: Create's transaction wrote all of it or nothing.
managerExists == ns["watchonly"] # <<>>

Init ==
    /\ ns = NoBucket /\ opened = FALSE /\ last = <<"none">>
    /\ watchingOnly = FALSE /\ locked = TRUE
    /\ masterKeyPriv = NoSecretKey
    /\ cryptoKeyPrivEncrypted = <<>> /\ cryptoKeyPriv = ZeroKey
    /\ cryptoKeyPub = ZeroKey
    /\ privPassphraseSalt = ZeroSalt /\ hashedPrivPassphrase = ZeroHash

Returns(op, arg, result) == last' = <<op, arg, result>>
ManagerUnchanged == UNCHANGED <<opened, watchingOnly, locked, keys>>

\* What Create writes, by bucket key; the private side only with a root key.
Stored(root, mpub, mpriv) ==
    LET private(value) == IF root = NoRoot THEN <<>> ELSE value
    IN  [n \in BucketNames |->
        CASE n = "mpub" -> Marshal(mpub)
          [] n = "cpub" -> Encrypt(mpub.key, <<"cryptoKeyPub">>)
          [] n = "watchonly" -> <<root = NoRoot>>
          [] n = "mpriv" -> private(Marshal(mpriv))
          [] n = "cpriv" -> private(Encrypt(mpriv.key, <<"cryptoKeyPriv">>))
          [] n = "cscript" -> private(Encrypt(mpriv.key, <<"cryptoKeyScript">>))
          [] n = "mhdpub" -> private(Encrypt(<<"cryptoKeyPub">>, <<"neuter", root>>))
          [] n = "mhdpriv" -> private(Encrypt(<<"cryptoKeyPriv">>, root))]

\* Slip: the private passphrase may be empty.
CreateAllowsEmpty(pub, priv, root, cost, saltPub, saltPriv) ==
    /\ IF managerExists
       THEN UNCHANGED ns /\ Returns("Create", priv, "ErrAlreadyExists")
       ELSE /\ ns' = Stored(root, NewSecretKey(pub, saltPub, cost),
                            NewSecretKey(priv, saltPriv, cost))
            /\ Returns("Create", priv, "nil")
    /\ ManagerUnchanged

\* A nil root key makes the manager watching-only.
Create(pub, priv, root, cost, saltPub, saltPriv) ==
    /\ \/ /\ managerExists
          /\ UNCHANGED ns /\ Returns("Create", priv, "ErrAlreadyExists")
       \/ /\ ~managerExists /\ root # NoRoot /\ priv = Empty
          /\ UNCHANGED ns /\ Returns("Create", priv, "ErrEmptyPassphrase")
       \/ /\ ~managerExists /\ (root = NoRoot \/ priv # Empty)
          /\ ns' = Stored(root, NewSecretKey(pub, saltPub, cost),
                          NewSecretKey(priv, saltPriv, cost))
          /\ Returns("Create", priv, "nil")
    /\ ManagerUnchanged

\* What loadManager finds, in the order it looks.
OpenError(pub) ==
    LET mpub == deriveKey(Unmarshal(ns["mpub"]), pub)
    IN  IF ~managerExists THEN "ErrNoExist"
        ELSE IF ~ns["watchonly"][1] /\ ~Unmarshals(ns["mpriv"]) THEN "ErrCrypto"
        ELSE IF ~Unmarshals(ns["mpub"]) THEN "ErrCrypto"
        ELSE IF ~DigestMatches(mpub) THEN "ErrWrongPassphrase"
        ELSE IF ~Decrypts(mpub.key, ns["cpub"]) THEN "ErrCrypto"
        ELSE "nil"

\* newManager: locked, with a fresh salt that is never stored.
newManager(salt) ==
    /\ opened' = TRUE /\ locked' = TRUE
    /\ watchingOnly' = ns["watchonly"][1]
    /\ masterKeyPriv' = IF watchingOnly' THEN NoSecretKey
                        ELSE Unmarshal(ns["mpriv"])
    /\ cryptoKeyPub' = Decrypted(ns["cpub"])
    /\ cryptoKeyPrivEncrypted' = ns["cpriv"]
    /\ privPassphraseSalt' = salt
    /\ UNCHANGED <<cryptoKeyPriv, hashedPrivPassphrase>>

Open(pub, salt) ==
    /\ ~opened
    /\ IF OpenError(pub) = "nil" THEN newManager(salt) ELSE ManagerUnchanged
    /\ Returns("Open", pub, OpenError(pub))
    /\ UNCHANGED ns

\* The process ends, and with it the Manager.
Close ==
    /\ opened /\ opened' = FALSE /\ last' = <<"none">>
    /\ watchingOnly' = FALSE /\ locked' = TRUE
    /\ masterKeyPriv' = NoSecretKey
    /\ cryptoKeyPrivEncrypted' = <<>> /\ cryptoKeyPriv' = ZeroKey
    /\ cryptoKeyPub' = ZeroKey
    /\ privPassphraseSalt' = ZeroSalt /\ hashedPrivPassphrase' = ZeroHash
    /\ UNCHANGED ns

-----------------------------------------------------------------------------
WatchOnly(op, arg) ==
    /\ opened /\ watchingOnly
    /\ Returns(op, arg, "ErrWatchingOnly") /\ ManagerUnchanged /\ UNCHANGED ns

\* Slip: the master key is not zeroed.
lockKeepsMaster ==
    /\ cryptoKeyPriv' = ZeroKey /\ hashedPrivPassphrase' = ZeroHash
    /\ locked' = TRUE /\ UNCHANGED masterKeyPriv

\* lock: the keys and the hash are zeroed, the parameters stay.
lock ==
    /\ masterKeyPriv' = [masterKeyPriv EXCEPT !.key = ZeroKey]
    /\ cryptoKeyPriv' = ZeroKey
    /\ hashedPrivPassphrase' = ZeroHash
    /\ locked' = TRUE

Lock ==
    \/ WatchOnly("Lock", Empty)
    \/ /\ opened /\ ~watchingOnly /\ locked
       /\ Returns("Lock", Empty, "ErrLocked") /\ ManagerUnchanged /\ UNCHANGED ns
    \/ /\ opened /\ ~watchingOnly /\ ~locked
       /\ lock /\ Returns("Lock", Empty, "nil")
       /\ UNCHANGED <<ns, opened, watchingOnly, cryptoKeyPrivEncrypted,
                      cryptoKeyPub, privPassphraseSalt>>

Sum512(salt, pass) == <<"sha512", salt, pass>>

\* append(salt[:], pass...) allocates, unless there is nothing to append: then
\* it is the salt itself, and zero.Bytes wipes that.
SaltAfterWipe(pass) == IF pass = Empty THEN ZeroSalt ELSE privPassphraseSalt

\* Slip: a mismatch leaves the manager unlocked.
UnlockedCheckKeeps(pass) ==
    LET ok == Sum512(privPassphraseSalt, pass) = hashedPrivPassphrase
    IN  /\ opened /\ ~watchingOnly /\ ~locked
        /\ privPassphraseSalt' = SaltAfterWipe(pass)
        /\ Returns("Unlock", pass, IF ok THEN "nil" ELSE "ErrWrongPassphrase")
        /\ UNCHANGED <<ns, opened, watchingOnly, locked, masterKeyPriv,
                       cryptoKeyPrivEncrypted, cryptoKeyPriv, cryptoKeyPub,
                       hashedPrivPassphrase>>

\* Unlock of a manager that is unlocked: only the hash is compared.
UnlockedCheck(pass) ==
    LET ok == Sum512(privPassphraseSalt, pass) = hashedPrivPassphrase
    IN  /\ opened /\ ~watchingOnly /\ ~locked
        /\ privPassphraseSalt' = SaltAfterWipe(pass)
        /\ IF ok THEN UNCHANGED <<masterKeyPriv, cryptoKeyPriv,
                                  hashedPrivPassphrase, locked>>
           ELSE lock
        /\ Returns("Unlock", pass, IF ok THEN "nil" ELSE "ErrWrongPassphrase")
        /\ UNCHANGED <<ns, opened, watchingOnly, cryptoKeyPrivEncrypted,
                       cryptoKeyPub>>

UnlockError(sk) ==
    IF ~DigestMatches(sk) THEN "ErrWrongPassphrase"
    ELSE IF ~Decrypts(sk.key, cryptoKeyPrivEncrypted) THEN "ErrCrypto"
    ELSE "nil"

\* Unlock of a locked manager; the derived key is in place when it is refused.
UnlockLocked(pass) ==
    LET sk == deriveKey(masterKeyPriv, pass)
    IN  /\ opened /\ ~watchingOnly /\ locked
        /\ IF UnlockError(sk) = "nil"
           THEN /\ masterKeyPriv' = sk /\ locked' = FALSE
                /\ cryptoKeyPriv' = Decrypted(cryptoKeyPrivEncrypted)
                /\ hashedPrivPassphrase' = Sum512(privPassphraseSalt, pass)
                /\ privPassphraseSalt' = SaltAfterWipe(pass)
           ELSE lock /\ UNCHANGED privPassphraseSalt
        /\ Returns("Unlock", pass, UnlockError(sk))
        /\ UNCHANGED <<ns, opened, watchingOnly, cryptoKeyPrivEncrypted,
                       cryptoKeyPub>>

Unlock(pass) ==
    WatchOnly("Unlock", pass) \/ UnlockedCheck(pass) \/ UnlockLocked(pass)

\* How NewScopedKeyManager gets the root key, before it derives from it.
RootKey ==
    /\ opened /\ ~watchingOnly
    /\ Returns("RootKey", Empty,
               IF locked THEN "ErrLocked"
               ELSE IF ns["mhdpriv"] = <<>> THEN "ErrWatchingOnly"
               ELSE IF ~Decrypts(cryptoKeyPriv, ns["mhdpriv"]) THEN "ErrCrypto"
               ELSE Decrypted(ns["mhdpriv"]))
    /\ ManagerUnchanged /\ UNCHANGED ns

-----------------------------------------------------------------------------
Next ==
    \/ \E pub, priv \in Passphrases, root \in Roots \union {NoRoot},
          cost \in ScryptOptions, s1, s2 \in Salts :
          Create(pub, priv, root, cost, s1, s2)
    \/ \E pass \in Passphrases, salt \in Salts : Open(pass, salt)
    \/ \E pass \in Passphrases : Unlock(pass)
    \/ Lock \/ RootKey \/ Close

Spec == Init /\ [][Next]_vars

-----------------------------------------------------------------------------
\* The passphrase a stored SecretKey was made from.
PassphraseOf(b) ==
    CHOOSE p \in Passphrases : DigestMatches(deriveKey(Unmarshal(b), p))

\* Private keys are in memory, and whole, exactly while the manager is
\* unlocked: lock() zeroes what a refused DeriveKey had put in place
\* (manager.go:431).
PassphraseTypeOK ==
    /\ opened \in BOOLEAN /\ locked \in BOOLEAN /\ watchingOnly \in BOOLEAN
    /\ DOMAIN ns = BucketNames
    /\ privPassphraseSalt \in Salts \union {ZeroSalt}
    /\ cryptoKeyPriv \in GeneratedKeys \union {ZeroKey}
    /\ locked <=> masterKeyPriv.key = ZeroKey
    /\ locked <=> cryptoKeyPriv = ZeroKey
    /\ locked <=> hashedPrivPassphrase = ZeroHash

\* While the manager is unlocked the hash in memory is that of the salt in
\* memory and of the passphrase the file was created with, whatever calls came
\* between, and a salt wiped by an empty passphrase included: Unlock of an
\* unlocked manager (manager.go:417) has nothing else to go by.
HashFollowsPassphrase ==
    ~locked => \E p \in Passphrases :
        /\ hashedPrivPassphrase = Sum512(privPassphraseSalt, p)
        /\ DigestMatches(deriveKey(masterKeyPriv, p))

\* The manager implements LockState: its answers depend on the passphrases
\* alone, through any order of Create, Open, Unlock, Lock and restarts
\* (manager.go:135, 323, 350, 406).
LS == INSTANCE LockState WITH
    public <- IF managerExists THEN PassphraseOf(ns["mpub"]) ELSE Empty,
    private <- IF ns["mpriv"] = <<>> THEN Empty ELSE PassphraseOf(ns["mpriv"]),
    root <- IF ns["mhdpriv"] = <<>> THEN NoRoot ELSE Decrypted(ns["mhdpriv"]),
    state <- IF ~managerExists THEN "none"
             ELSE IF ~opened THEN "closed"
             ELSE IF locked THEN "locked" ELSE "unlocked"

ImplementsLockState == LS!Spec

-----------------------------------------------------------------------------
(* Inductive strengthening, for the proofs.                                *)

\* The bucket is absent, or what one call of Create wrote.
BucketWhole ==
    \/ ns = NoBucket
    \/ \E pub, priv \in Passphrases, root \in Roots \union {NoRoot},
          cost \in ScryptOptions, s1, s2 \in Salts :
          /\ root = NoRoot \/ priv # Empty
          /\ ns = Stored(root, NewSecretKey(pub, s1, cost), NewSecretKey(priv, s2, cost))

\* Without a Manager, and while it is locked, no key is in memory; the locked
\* Manager has the parameters that are in the bucket, the unlocked one the key
\* and the hash of the passphrase the bucket was created with.
MemoryFollowsBucket ==
    /\ opened \in BOOLEAN /\ locked \in BOOLEAN /\ watchingOnly \in BOOLEAN
    /\ privPassphraseSalt \in Salts \union {ZeroSalt}
    /\ ~opened => locked /\ masterKeyPriv = NoSecretKey
    /\ opened => /\ managerExists
                 /\ watchingOnly = ns["watchonly"][1]
                 /\ cryptoKeyPrivEncrypted = ns["cpriv"]
                 /\ watchingOnly => locked /\ masterKeyPriv = NoSecretKey
                 /\ ~watchingOnly /\ locked => masterKeyPriv = Unmarshal(ns["mpriv"])
    /\ locked => cryptoKeyPriv = ZeroKey /\ hashedPrivPassphrase = ZeroHash
    /\ ~locked =>
          LET pass == PassphraseOf(ns["mpriv"])
          IN  /\ masterKeyPriv = deriveKey(Unmarshal(ns["mpriv"]), pass)
              /\ cryptoKeyPriv = <<"cryptoKeyPriv">>
              /\ hashedPrivPassphrase = Sum512(privPassphraseSalt, pass)

\* Inductive: why the hash and the keys are those of the passphrase.
PassphraseInv == BucketWhole /\ MemoryFollowsBucket
=============================================================================
