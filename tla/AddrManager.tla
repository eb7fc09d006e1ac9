----------------------------- MODULE AddrManager -----------------------------
(***************************************************************************)
(* The address manager of package waddrmgr: the Manager, its               *)
(* ScopedKeyManagers and the namespace they keep in the wallet database.   *)
(*                                                                         *)
(* One call of the API is one action (the mutexes make it so; the windows  *)
(* they leave open are the subject of another module).  Calls that write   *)
(* run inside a walletdb.Update transaction: `work' is the copy the        *)
(* transaction sees, `disk' what has been committed.  Memory is changed by *)
(* a call at once and is NOT undone when its transaction is rolled back,   *)
(* which is where most of the difficulty lies.  A Go panic is never        *)
(* recovered, so it ends the process: memory and transaction are gone.     *)
(*                                                                         *)
(* newManager drops the chain parameters it is given, and making an        *)
(* address of a kind the code knows dereferences them.  So in the default  *)
(* scopes the first load of an account ends the process.  Caches and       *)
(* queues fill only in scopes made by NewScopedKeyManager for a kind of    *)
(* address that newManagedAddressWithoutPrivKey has no case for, and only  *)
(* while the manager is locked.                                            *)
(***************************************************************************)
EXTENDS Integers

CONSTANTS
    DefaultKeyScopes,         \* the scopes Create lays out
    ExtraScopes,              \* scopes given to NewScopedKeyManager
    HighCoinScopes,           \* the extra scopes whose coin exceeds maxCoinType
    BareExternal,             \* the extra scopes whose external, and those whose
    BareInternal,             \* internal address type no constructor is called for
    MaxAccountNum,            \* highest derivable account number
    Uint32Size,               \* 2^32: account numbers wrap here
    MaxAddressesPerAccount,
    Names,                    \* account names
    UserNames,                \* the names callers choose
    EmptyName, defaultAccountName, ImportedAddrAccountName,
    ActName,                  \* number |-> "act:<number>"
    NoName                    \* no entry

DefaultAccountNum == 0

\* The account of imported keys sits directly above the derivable ones.
ImportedAddrAccount == MaxAccountNum + 1

Account == 0 .. (Uint32Size - 1)
NoAccount == -1
Scopes == DefaultKeyScopes \cup ExtraScopes

\* The scopes are told apart by kind.  Only extra scopes have a bad coin or an
\* address schema of the caller's choice.
ASSUME ScopesAssumption ==
    /\ DefaultKeyScopes \cap ExtraScopes = {}
    /\ HighCoinScopes \subseteq ExtraScopes
    /\ BareExternal \subseteq ExtraScopes
    /\ BareInternal \subseteq ExtraScopes

\* The imported account and 2^32 - 1, read for a missing last account, are
\* two different numbers above MaxAccountNum.
ASSUME NumbersAssumption ==
    /\ MaxAccountNum \in Nat
    /\ Uint32Size \in Nat
    /\ Uint32Size > MaxAccountNum + 2
    /\ MaxAddressesPerAccount \in Nat

\* The fixed names differ, and "act:<n>" is none of them.
ASSUME NamesAssumption ==
    /\ UserNames \subseteq Names
    /\ {EmptyName, defaultAccountName, ImportedAddrAccountName} \subseteq Names
    /\ EmptyName # defaultAccountName
    /\ EmptyName # ImportedAddrAccountName
    /\ defaultAccountName # ImportedAddrAccountName
    /\ ActName \in [Account -> Names]
    /\ \A a \in Account :
          ActName[a] \notin {EmptyName, defaultAccountName, ImportedAddrAccountName}
    /\ NoName \notin Names

VARIABLES
    disk,            \* the committed namespace
    work,            \* the namespace as the open transaction sees it
    txOpen,          \* a read-write transaction is open
    txErr,           \* a writing call failed: the closure will return its error
    commitPanics,    \* an OnCommit handler that indexes addressInfo[-1] is queued
    proc,            \* "none": no Manager, "up": one is open, "panicked"
    locked,          \* Manager.locked
    watchingOnly,    \* Manager.watchingOnly
    cryptoKeyPriv,   \* the private-side secrets are in memory
    scopedManagers,  \* scopes with a ScopedKeyManager in Manager.scopedManagers
    acctInfo,        \* per scope: the cached accounts
    acctKeyPriv,     \* per scope: cached accounts whose private key is in memory
    acctKeyPub,      \* per scope: cached accounts whose public key is in memory
    deriveOnUnlock,  \* per scope: accounts with an address queued for Unlock
    pubOnly,         \* per scope: accounts with an address lacking its private key
    ret              \* the outcome of the last call

dbVars == <<disk, work, txOpen, txErr, commitPanics>>
keyVars == <<locked, watchingOnly, cryptoKeyPriv, scopedManagers>>
cacheVars == <<acctInfo, acctKeyPriv, acctKeyPub, deriveOnUnlock, pubOnly>>
vars == <<dbVars, proc, keyVars, cacheVars, ret>>

-----------------------------------------------------------------------------
(* The namespace.                                                          *)

NoRow == [name |-> NoName, keys |-> FALSE]

\* An account row: its name, and whether it carries encrypted keys.
Row == [name : Names \cup {NoName}, keys : BOOLEAN]

\* One scope's bucket: its account rows, the id -> name and name -> id
\* indexes, the last account number and the coin-type keys.
ScopeBucket ==
    [made : BOOLEAN, coinKeys : BOOLEAN, last : Account \cup {NoAccount},
     acct : [Account -> Row], idIdx : [Account -> Names \cup {NoName}],
     nameIdx : [Names -> Account \cup {NoAccount}]]

Store == [exists : BOOLEAN, watch : BOOLEAN, scope : [Scopes -> ScopeBucket]]

NoScope ==
    [made |-> FALSE, coinKeys |-> FALSE, last |-> NoAccount,
     acct |-> [a \in Account |-> NoRow],
     idIdx |-> [a \in Account |-> NoName],
     nameIdx |-> [n \in Names |-> NoAccount]]

EmptyStore ==
    [exists |-> FALSE, watch |-> FALSE, scope |-> [s \in Scopes |-> NoScope]]

createScopedManagerNS == [NoScope EXCEPT !.made = TRUE]

\* A missing "lastaccount" reads as 2^32 - 1, so that the next number is 0.
fetchLastAccount(b) == IF b.last = NoAccount THEN Uint32Size - 1 ELSE b.last

putLastAccount(b, a) == [b EXCEPT !.last = a]

\* Slip: the id index is not written.
putAccountInfoNoIdIndex(b, a, n, keyed) ==
    [b EXCEPT !.acct[a] = [name |-> n, keys |-> keyed], !.nameIdx[n] = a]

\* Row and both indexes; whatever they held for `a' or `n' is overwritten.
putAccountInfo(b, a, n, keyed) ==
    [b EXCEPT !.acct[a] = [name |-> n, keys |-> keyed],
              !.idIdx[a] = n,
              !.nameIdx[n] = a]

\* Account 0 with its keys, and the imported account, which has none.
createManagerKeyScope(b) ==
    putAccountInfo(
        putAccountInfo([b EXCEPT !.coinKeys = TRUE],
                       DefaultAccountNum, defaultAccountName, TRUE),
        ImportedAddrAccount, ImportedAddrAccountName, FALSE)

\* Slip: the default scopes are laid out for a watching-only manager too.
createManagerNSAlwaysScoped(watch) ==
    [exists |-> TRUE, watch |-> watch,
     scope |-> [s \in Scopes |->
         IF s \in DefaultKeyScopes
         THEN createManagerKeyScope(
                  putLastAccount(createScopedManagerNS, DefaultAccountNum))
         ELSE NoScope]]

\* What Create leaves: no scope at all for a watching-only manager.
createManagerNS(watch) ==
    [exists |-> TRUE, watch |-> watch,
     scope |-> [s \in Scopes |->
         IF ~watch /\ s \in DefaultKeyScopes
         THEN createManagerKeyScope(
                  putLastAccount(createScopedManagerNS, DefaultAccountNum))
         ELSE NoScope]]

\* Slip: scopes without a last account number are taken for unused.
forEachUsedKeyScope(store) ==
    {s \in Scopes : store.scope[s].made /\ store.scope[s].last # NoAccount}

forEachKeyScope(store) == {s \in Scopes : store.scope[s].made}

-----------------------------------------------------------------------------
(* Outcomes.                                                               *)

Outcomes ==
    {"none", "ok", "panic", "ErrNoExist", "ErrAlreadyExists", "ErrEmptyPassphrase",
     "ErrWrongPassphrase", "ErrLocked", "ErrWatchingOnly", "ErrInvalidAccount",
     "ErrDuplicateAccount", "ErrScopeNotFound", "ErrDatabase", "ErrKeyChain",
     "ErrCrypto", "ErrAccountNotFound", "ErrAccountNumTooHigh",
     "ErrTooManyAddresses"}

Empty == [s \in Scopes |-> {}]

\* Manager and ScopedKeyManagers are gone, and with them every key.
MemoryGone ==
    /\ locked' = TRUE
    /\ watchingOnly' = FALSE
    /\ cryptoKeyPriv' = FALSE
    /\ scopedManagers' = {}
    /\ acctInfo' = Empty /\ acctKeyPriv' = Empty /\ acctKeyPub' = Empty
    /\ deriveOnUnlock' = Empty /\ pubOnly' = Empty

\* Slip: the transaction ends without undoing its writes.
TxGoneKeepsWrites ==
    /\ work' = work
    /\ txOpen' = FALSE /\ txErr' = FALSE /\ commitPanics' = FALSE
    /\ UNCHANGED disk

TxGone ==
    /\ work' = disk
    /\ txOpen' = FALSE /\ txErr' = FALSE /\ commitPanics' = FALSE
    /\ UNCHANGED disk

\* Nothing recovers a panic; the deferred Rollback of Update runs.
Panic == MemoryGone /\ TxGone /\ proc' = "panicked" /\ ret' = "panic"

\* A call that only reads or only touches memory.
Returns(outcome) == ret' = outcome /\ UNCHANGED <<dbVars, proc>>

\* A writing call: an error is returned by the closure of Update.
ReturnsInTx(outcome, store) ==
    /\ ret' = outcome
    /\ work' = store
    /\ txErr' = (outcome # "ok")
    /\ UNCHANGED <<disk, txOpen, commitPanics, proc>>

Init ==
    /\ disk = EmptyStore /\ work = EmptyStore
    /\ txOpen = FALSE /\ txErr = FALSE /\ commitPanics = FALSE
    /\ proc = "none"
    /\ locked = TRUE /\ watchingOnly = FALSE /\ cryptoKeyPriv = FALSE
    /\ scopedManagers = {}
    /\ acctInfo = Empty /\ acctKeyPriv = Empty /\ acctKeyPub = Empty
    /\ deriveOnUnlock = Empty /\ pubOnly = Empty
    /\ ret = "none"

-----------------------------------------------------------------------------
(* Transactions (walletdb.Update over bbolt).                              *)

BeginUpdate ==
    /\ ~txOpen
    /\ work' = disk /\ txOpen' = TRUE
    /\ proc' = IF proc = "panicked" THEN "none" ELSE proc
    /\ ret' = "none"
    /\ UNCHANGED <<disk, txErr, commitPanics, keyVars, cacheVars>>

\* Slip: the error of the closure is dropped.
CommitIgnoresError ==
    /\ txOpen
    /\ disk' = work /\ work' = work
    /\ txOpen' = FALSE /\ txErr' = FALSE /\ commitPanics' = FALSE
    /\ IF commitPanics
       THEN MemoryGone /\ proc' = "panicked" /\ ret' = "panic"
       ELSE ret' = "ok" /\ UNCHANGED <<proc, keyVars, cacheVars>>

\* The closure returned nil.  The OnCommit handlers run after the commit.
Commit ==
    /\ txOpen /\ ~txErr
    /\ disk' = work /\ work' = work
    /\ txOpen' = FALSE /\ txErr' = FALSE /\ commitPanics' = FALSE
    /\ IF commitPanics
       THEN MemoryGone /\ proc' = "panicked" /\ ret' = "panic"
       ELSE ret' = "ok" /\ UNCHANGED <<proc, keyVars, cacheVars>>

\* The closure returned an error: that of a call, or one of its own.
Rollback ==
    /\ txOpen
    /\ TxGone
    /\ ret' = "none"
    /\ UNCHANGED <<proc, keyVars, cacheVars>>

\* The process stops at any point between two calls.
Crash ==
    /\ proc = "up"
    /\ MemoryGone /\ TxGone /\ proc' = "none" /\ ret' = "none"

-----------------------------------------------------------------------------
(* Manager.                                                                *)

Create(watch, emptyPass) ==
    /\ txOpen /\ ~txErr
    /\ IF work.exists THEN ReturnsInTx("ErrAlreadyExists", work)
       ELSE IF ~watch /\ emptyPass THEN ReturnsInTx("ErrEmptyPassphrase", work)
       ELSE ReturnsInTx("ok", createManagerNS(watch))
    /\ UNCHANGED <<keyVars, cacheVars>>

\* A fresh Manager: locked, one ScopedKeyManager per stored scope, no cache.
Open(goodPass) ==
    /\ proc # "up" /\ ~txOpen
    /\ UNCHANGED dbVars
    /\ IF disk.exists /\ goodPass
       THEN /\ proc' = "up" /\ ret' = "ok"
            /\ locked' = TRUE /\ watchingOnly' = disk.watch /\ cryptoKeyPriv' = FALSE
            /\ scopedManagers' = forEachKeyScope(disk)
            /\ UNCHANGED cacheVars
       ELSE /\ proc' = "none"
            /\ ret' = IF disk.exists THEN "ErrWrongPassphrase" ELSE "ErrNoExist"
            /\ UNCHANGED <<keyVars, cacheVars>>

\* Manager.lock: every cached account key and the private-side secrets.
lock ==
    /\ acctKeyPriv' = [s \in Scopes |->
          IF s \in scopedManagers THEN {} ELSE acctKeyPriv[s]]
    /\ cryptoKeyPriv' = FALSE
    /\ locked' = TRUE
    /\ UNCHANGED <<watchingOnly, scopedManagers, acctInfo, acctKeyPub>>

Lock ==
    /\ proc = "up"
    /\ IF watchingOnly \/ locked
       THEN /\ Returns(IF watchingOnly THEN "ErrWatchingOnly" ELSE "ErrLocked")
            /\ UNCHANGED <<keyVars, cacheVars>>
       ELSE lock /\ Returns("ok") /\ UNCHANGED <<deriveOnUnlock, pubOnly>>

\* A wrong passphrase locks, also when the manager was unlocked.
UnlockWrongPassphrase ==
    /\ proc = "up" /\ ~watchingOnly
    /\ lock
    /\ Returns("ErrWrongPassphrase")
    /\ UNCHANGED <<deriveOnUnlock, pubOnly>>

\* Watching-only managers refuse; an unlocked one only compares the hash.
UnlockNothingToDo ==
    /\ proc = "up" /\ (watchingOnly \/ ~locked)
    /\ Returns(IF watchingOnly THEN "ErrWatchingOnly" ELSE "ok")
    /\ UNCHANGED <<keyVars, cacheVars>>

\* Slip: only the accounts with a queued address get their private key back.
UnlockQueuedOnly ==
    /\ proc = "up" /\ ~watchingOnly /\ locked
    /\ cryptoKeyPriv' = TRUE
    /\ acctKeyPriv' = deriveOnUnlock
    /\ pubOnly' = [s \in Scopes |-> pubOnly[s] \ deriveOnUnlock[s]]
    /\ deriveOnUnlock' = Empty
    /\ locked' = FALSE
    /\ Returns("ok")
    /\ UNCHANGED <<watchingOnly, scopedManagers, acctInfo, acctKeyPub>>

\* Every account that a bare scope cached while locked gets its private key
\* back, then every queued address its own.  A queued address whose account is
\* not cached would make deriveKeyFromPath load it without a private key: see
\* PendingAccountsCached.
Unlock ==
    /\ proc = "up" /\ ~watchingOnly /\ locked
    /\ cryptoKeyPriv' = TRUE
    /\ acctKeyPriv' = [s \in Scopes |->
          IF s \in scopedManagers THEN acctInfo[s] ELSE acctKeyPriv[s]]
    /\ pubOnly' = [s \in Scopes |->
          IF s \in scopedManagers THEN pubOnly[s] \ deriveOnUnlock[s] ELSE pubOnly[s]]
    /\ deriveOnUnlock' = [s \in Scopes |->
          IF s \in scopedManagers THEN {} ELSE deriveOnUnlock[s]]
    /\ locked' = FALSE
    /\ Returns("ok")
    /\ UNCHANGED <<watchingOnly, scopedManagers, acctInfo, acctKeyPub>>

\* Slip: the error path returns without calling lock().
UnlockFailsUnlocked ==
    /\ proc = "up" /\ ~watchingOnly /\ locked
    /\ cryptoKeyPriv' = TRUE
    /\ acctKeyPriv' = acctInfo
    /\ Returns("ErrCrypto")
    /\ UNCHANGED <<locked, watchingOnly, scopedManagers, acctInfo, acctKeyPub,
                   deriveOnUnlock, pubOnly>>

\* Slip: the queue is emptied although only part of it was served.
UnlockFailsDropsQueue ==
    /\ proc = "up" /\ ~watchingOnly /\ locked
    /\ deriveOnUnlock' = Empty
    /\ lock
    /\ Returns("ErrCrypto")
    /\ UNCHANGED pubOnly

\* A decryption, derivation or encryption failed part of the way: some of the
\* queued addresses got their key and left the queue, then lock() ran.
UnlockFails ==
    /\ proc = "up" /\ ~watchingOnly /\ locked
    /\ \E done \in [scopedManagers -> SUBSET Account] :
          /\ \A s \in scopedManagers : done[s] \subseteq deriveOnUnlock[s]
          /\ pubOnly' = [s \in Scopes |->
                IF s \in scopedManagers THEN pubOnly[s] \ done[s] ELSE pubOnly[s]]
          /\ deriveOnUnlock' = [s \in Scopes |->
                IF s \in scopedManagers THEN deriveOnUnlock[s] \ done[s]
                                        ELSE deriveOnUnlock[s]]
    /\ lock
    /\ Returns("ErrCrypto")

\* The bucket comes first; the coin type is only checked when its key is
\* derived; the in-memory manager is replaced before anything is committed.
NewScopedKeyManager(s) ==
    LET b == IF watchingOnly THEN createScopedManagerNS
             ELSE createManagerKeyScope(createScopedManagerNS)
    IN
    /\ proc = "up" /\ txOpen /\ ~txErr
    /\ \/ /\ ~watchingOnly /\ locked
          /\ ReturnsInTx("ErrLocked", work)
          /\ UNCHANGED <<keyVars, cacheVars>>
       \/ /\ watchingOnly \/ ~locked
          /\ work.scope[s].made
          /\ ReturnsInTx("ErrDatabase", work)
          /\ UNCHANGED <<keyVars, cacheVars>>
       \/ /\ ~watchingOnly /\ ~locked
          /\ ~work.scope[s].made /\ s \in HighCoinScopes
          /\ ReturnsInTx("ErrKeyChain", [work EXCEPT !.scope[s] = createScopedManagerNS])
          /\ UNCHANGED <<keyVars, cacheVars>>
       \/ /\ watchingOnly \/ (~locked /\ s \notin HighCoinScopes)
          /\ ~work.scope[s].made
          /\ ReturnsInTx("ok", [work EXCEPT !.scope[s] = b])
          /\ scopedManagers' = scopedManagers \cup {s}
          /\ acctInfo' = [acctInfo EXCEPT ![s] = {}]
          /\ acctKeyPriv' = [acctKeyPriv EXCEPT ![s] = {}]
          /\ acctKeyPub' = [acctKeyPub EXCEPT ![s] = {}]
          /\ deriveOnUnlock' = [deriveOnUnlock EXCEPT ![s] = {}]
          /\ UNCHANGED <<locked, watchingOnly, cryptoKeyPriv, pubOnly>>

-----------------------------------------------------------------------------
(* ScopedKeyManager.                                                       *)

\* Slip: a name in use is not refused.
newAccountOutcomeNoDuplicateCheck(b, a, n) ==
    IF n \in {EmptyName, ImportedAddrAccountName} THEN "ErrInvalidAccount"
    ELSE IF ~b.made THEN "ErrScopeNotFound"
    ELSE IF ~b.coinKeys THEN "ErrDatabase"
    ELSE IF a > MaxAccountNum THEN "ErrKeyChain"
    ELSE "ok"

\* Slip: the bound is one too high.
newAccountOutcomeOffByOne(b, a, n) ==
    IF n \in {EmptyName, ImportedAddrAccountName} THEN "ErrInvalidAccount"
    ELSE IF b.made /\ b.nameIdx[n] # NoAccount THEN "ErrDuplicateAccount"
    ELSE IF ~b.made THEN "ErrScopeNotFound"
    ELSE IF ~b.coinKeys THEN "ErrDatabase"
    ELSE IF a > MaxAccountNum + 1 THEN "ErrKeyChain"
    ELSE "ok"

\* The first check of newAccount that fails, in the code's order.
newAccountOutcome(b, a, n) ==
    IF n \in {EmptyName, ImportedAddrAccountName} THEN "ErrInvalidAccount"
    ELSE IF b.made /\ b.nameIdx[n] # NoAccount THEN "ErrDuplicateAccount"
    ELSE IF ~b.made THEN "ErrScopeNotFound"
    ELSE IF ~b.coinKeys THEN "ErrDatabase"
    ELSE IF ~cryptoKeyPriv THEN "ErrLocked"
    ELSE IF a > MaxAccountNum THEN "ErrKeyChain"
    ELSE "ok"

\* The row and its indexes, then the last account number, which is set to
\* `a' even when it was higher before.
newAccount(s, a, n) ==
    LET b == work.scope[s]
        outcome == newAccountOutcome(b, a, n)
    IN ReturnsInTx(outcome,
         IF outcome = "ok"
         THEN [work EXCEPT !.scope[s] = putLastAccount(putAccountInfo(b, a, n, TRUE), a)]
         ELSE work)

\* Both ways to make an account start with these checks.
NewAccountRefused(s) ==
    /\ proc = "up" /\ txOpen /\ ~txErr /\ s \in scopedManagers
    /\ watchingOnly \/ locked
    /\ ReturnsInTx(IF watchingOnly THEN "ErrWatchingOnly" ELSE "ErrLocked", work)
    /\ UNCHANGED <<keyVars, cacheVars>>

NewAccount(s, name) ==
    /\ proc = "up" /\ txOpen /\ ~txErr /\ s \in scopedManagers
    /\ ~watchingOnly /\ ~locked
    /\ IF work.scope[s].made
       THEN newAccount(s, (fetchLastAccount(work.scope[s]) + 1) % Uint32Size, name)
       ELSE ReturnsInTx("ErrScopeNotFound", work)
    /\ UNCHANGED <<keyVars, cacheVars>>

NewRawAccount(s, number) ==
    /\ proc = "up" /\ txOpen /\ ~txErr /\ s \in scopedManagers
    /\ ~watchingOnly /\ ~locked
    /\ newAccount(s, number, ActName[number])
    /\ UNCHANGED <<keyVars, cacheVars>>

hasPrivateKey == ~locked /\ ~watchingOnly

\* Whether an address can be made: the types that have a case dereference the
\* nil chainParams; for the others the address itself is nil, which Validate,
\* called when there is a private key, dereferences.
newManagedAddressReturns(s, internal) ==
    /\ ~hasPrivateKey
    /\ s \in (IF internal THEN BareInternal ELSE BareExternal)

\* loadAccountInfo looks in the cache, then in the given namespace; then it
\* makes the last external address of the account.
loadAccountOutcome(store, s, a) ==
    IF a \in acctInfo[s] THEN "ok"
    ELSE IF ~store.scope[s].made THEN "ErrScopeNotFound"
    ELSE IF store.scope[s].acct[a] = NoRow THEN "ErrAccountNotFound"
    ELSE IF ~store.scope[s].acct[a].keys THEN "ErrCrypto"
    ELSE IF ~newManagedAddressReturns(s, FALSE) THEN "panic"
    ELSE "ok"

\* Slip: the loaded account is not stored in the cache.
loadAccountInfoUncached(s, a, derived) ==
    /\ deriveOnUnlock' = [deriveOnUnlock EXCEPT ![s] = @ \cup {a}]
    /\ UNCHANGED <<acctInfo, acctKeyPub, acctKeyPriv, pubOnly>>

\* The cache after a successful loadAccountInfo.  A load that returns was made
\* without private keys, so its address is queued; `derived' holds the account
\* of one more such address, which the caller derives.
loadAccountInfo(s, a, derived) ==
    LET fresh == {a} \ acctInfo[s] IN
    /\ acctInfo' = [acctInfo EXCEPT ![s] = @ \cup fresh]
    /\ acctKeyPub' = [acctKeyPub EXCEPT ![s] = @ \cup fresh]
    /\ deriveOnUnlock' = [deriveOnUnlock EXCEPT ![s] = @ \cup fresh \cup derived]
    /\ pubOnly' = [pubOnly EXCEPT ![s] = @ \cup fresh \cup derived]
    /\ UNCHANGED acctKeyPriv

\* deriveKey dereferences the account key it needs, which may be nil.
KeyIsNil(s, a) ==
    /\ a \in acctInfo[s]
    /\ a \notin (IF hasPrivateKey THEN acctKeyPriv[s] ELSE acctKeyPub[s])

\* A read may use the open transaction or a View of what is committed.
Readable == IF txOpen THEN {work, disk} ELSE {disk}

DeriveFromKeyPath(s, a, internal, store) ==
    LET outcome == loadAccountOutcome(store, s, a)
        panics == \/ outcome = "panic"
                  \/ /\ outcome = "ok"
                     /\ KeyIsNil(s, a) \/ ~newManagedAddressReturns(s, internal)
    IN
    /\ proc = "up" /\ s \in scopedManagers
    /\ \/ /\ outcome \notin {"ok", "panic"}
          /\ Returns(outcome) /\ UNCHANGED <<keyVars, cacheVars>>
       \/ panics /\ Panic
       \/ /\ outcome = "ok" /\ ~panics
          /\ loadAccountInfo(s, a, {a})
          /\ Returns("ok") /\ UNCHANGED keyVars

\* Accounts of a default scope never get as far as cloneKeyWithVersion.
AccountProperties(s, a, store) ==
    LET outcome == loadAccountOutcome(store, s, a) IN
    /\ proc = "up" /\ s \in scopedManagers
    /\ \/ /\ a = ImportedAddrAccount
          /\ Returns(IF store.scope[s].made THEN "ok" ELSE "ErrScopeNotFound")
          /\ UNCHANGED <<keyVars, cacheVars>>
       \/ /\ a # ImportedAddrAccount /\ outcome \notin {"ok", "panic"}
          /\ Returns(outcome) /\ UNCHANGED <<keyVars, cacheVars>>
       \/ /\ a # ImportedAddrAccount /\ outcome = "panic"
          /\ Panic
       \/ /\ a # ImportedAddrAccount /\ outcome = "ok"
          /\ loadAccountInfo(s, a, {})
          /\ Returns("ok") /\ UNCHANGED keyVars

\* NextExternalAddresses and NextInternalAddresses.  For one address or more
\* SetNet dereferences the nil chainParams before anything is written; for none
\* the OnCommit handler will index addressInfo[-1].
NextAddresses(s, a, n) ==
    LET outcome == loadAccountOutcome(work, s, a) IN
    /\ proc = "up" /\ txOpen /\ ~txErr /\ s \in scopedManagers
    /\ \/ /\ a > MaxAccountNum \/ outcome \notin {"ok", "panic"}
          /\ ReturnsInTx(IF a > MaxAccountNum THEN "ErrAccountNumTooHigh" ELSE outcome, work)
          /\ UNCHANGED <<keyVars, cacheVars>>
       \/ /\ a <= MaxAccountNum /\ outcome = "panic"
          /\ Panic
       \/ /\ a <= MaxAccountNum /\ outcome = "ok"
          /\ n > MaxAddressesPerAccount
          /\ loadAccountInfo(s, a, {})
          /\ ReturnsInTx("ErrTooManyAddresses", work)
          /\ UNCHANGED keyVars
       \/ /\ a <= MaxAccountNum /\ outcome = "ok"
          /\ n <= MaxAddressesPerAccount
          /\ KeyIsNil(s, a) \/ n > 0
          /\ Panic
       \/ /\ a <= MaxAccountNum /\ outcome = "ok" /\ ~KeyIsNil(s, a)
          /\ n = 0
          /\ loadAccountInfo(s, a, {})
          /\ commitPanics' = TRUE /\ ret' = "ok"
          /\ UNCHANGED <<keyVars, proc, disk, work, txOpen, txErr>>

\* ScopedKeyManager.Close zeroes every cached public key; a second call
\* meets the nil it left.  A default scope has no cached account to visit.
ScopedClose(s) ==
    /\ proc = "up" /\ s \in scopedManagers
    /\ \/ /\ acctInfo[s] \subseteq acctKeyPub[s]
          /\ acctKeyPub' = [acctKeyPub EXCEPT ![s] = {}]
          /\ Returns("ok")
          /\ UNCHANGED <<keyVars, acctInfo, acctKeyPriv, deriveOnUnlock, pubOnly>>
       \/ /\ ~(acctInfo[s] \subseteq acctKeyPub[s])
          /\ Panic

-----------------------------------------------------------------------------
Next ==
    \/ BeginUpdate \/ Commit \/ Rollback \/ Crash
    \/ \E watch, emptyPass \in BOOLEAN : Create(watch, emptyPass)
    \/ \E goodPass \in BOOLEAN : Open(goodPass)
    \/ Lock \/ UnlockWrongPassphrase \/ UnlockNothingToDo \/ Unlock \/ UnlockFails
    \/ \E s \in Scopes :
          \/ NewScopedKeyManager(s)
          \/ NewAccountRefused(s)
          \/ \E name \in UserNames : NewAccount(s, name)
          \/ \E number \in Account : NewRawAccount(s, number)
          \/ \E a \in Account, internal \in BOOLEAN, store \in Readable :
                DeriveFromKeyPath(s, a, internal, store)
          \/ \E a \in Account, store \in Readable : AccountProperties(s, a, store)
          \/ \E a \in Account, n \in 0 .. (MaxAddressesPerAccount + 1) :
                NextAddresses(s, a, n)
          \/ ScopedClose(s)

Spec == Init /\ [][Next]_vars
-----------------------------------------------------------------------------
(* Properties.                                                             *)

DbTypeOK ==
    /\ disk \in Store /\ work \in Store
    /\ txOpen \in BOOLEAN /\ txErr \in BOOLEAN /\ commitPanics \in BOOLEAN
    /\ ~txOpen => work = disk /\ ~txErr

MemTypeOK ==
    /\ locked \in BOOLEAN /\ watchingOnly \in BOOLEAN /\ cryptoKeyPriv \in BOOLEAN
    /\ scopedManagers \in SUBSET Scopes
    /\ acctInfo \in [Scopes -> SUBSET Account]
    /\ acctKeyPriv \in [Scopes -> SUBSET Account]
    /\ acctKeyPub \in [Scopes -> SUBSET Account]
    /\ deriveOnUnlock \in [Scopes -> SUBSET Account]
    /\ pubOnly \in [Scopes -> SUBSET Account]

\* Every variable keeps its type, and what the transaction sees differs from
\* what is committed only while one is open: neither a rollback nor a panic in
\* the closure of Update leaves a write behind.
TypeOK ==
    /\ DbTypeOK
    /\ MemTypeOK
    /\ proc \in {"none", "up", "panicked"}
    /\ ret \in Outcomes

\* One scope's rows and indexes agree: a row's name is its id-index entry,
\* that name leads back to the row, every indexed name leads to a row, and
\* the last account number is that of a row.
IndexesAgreeIn(b) ==
    /\ \A a \in Account :
          /\ b.idIdx[a] = b.acct[a].name
          /\ b.acct[a].name # NoName => b.nameIdx[b.acct[a].name] = a
    /\ \A n \in Names :
          b.nameIdx[n] # NoAccount => b.acct[b.nameIdx[n]].name # NoName
    /\ b.last # NoAccount => b.acct[b.last].name # NoName

\* The three buckets putAccountInfo writes agree, in the committed namespace
\* and in the open transaction, whatever calls and transactions went before,
\* also when an account number is used a second time.
IndexesAgree ==
    \A s \in Scopes : IndexesAgreeIn(disk.scope[s]) /\ IndexesAgreeIn(work.scope[s])

\* A committed account name leads to the same account number for ever: the
\* duplicate check of newAccount runs before the name index is written.
NameKeepsItsAccount ==
    [][\A s \in Scopes, n \in Names :
          disk.scope[s].nameIdx[n] # NoAccount =>
              disk'.scope[s].nameIdx[n] = disk.scope[s].nameIdx[n]]_vars

\* The numbers above MaxAccountNum are never given to a derived account: the
\* imported account keeps its name and stays without keys although NewAccount
\* counts up to it and NewRawAccount takes any number.
ImportedRowIntact ==
    \A s \in Scopes, a \in Account : a > MaxAccountNum =>
        \/ work.scope[s].acct[a] = NoRow
        \/ /\ a = ImportedAddrAccount
           /\ work.scope[s].acct[a] = [name |-> ImportedAddrAccountName, keys |-> FALSE]

\* Update commits a scope whole or not at all: a committed scope of a manager
\* with private keys has its coin-type keys, its default and its imported
\* account, although NewScopedKeyManager can fail after it made the bucket.
CommittedScopesComplete ==
    \A s \in Scopes :
        (disk.scope[s].made /\ ~disk.watch) =>
            /\ disk.scope[s].coinKeys
            /\ disk.scope[s].acct[DefaultAccountNum].keys
            /\ disk.scope[s].acct[ImportedAddrAccount] # NoRow

\* A running Manager has a ScopedKeyManager for every committed scope, across
\* rolled-back creations, crashes and re-opening.
CommittedScopesManaged ==
    proc = "up" => \A s \in Scopes : disk.scope[s].made => s \in scopedManagers

\* While the manager is locked no private-side secret is in memory, and no key
\* of the accounts that bare scopes cached, also after an Unlock that failed
\* part of the way.
LockedHoldsNoKeys ==
    locked => /\ ~cryptoKeyPriv
              /\ \A s \in Scopes : acctKeyPriv[s] = {}

\* While it is unlocked every cached account has its private key, although all
\* of them were cached while it was locked: nextAddresses never meets a nil
\* private key.  In a default scope, or while unlocked, nothing is cached at
\* all, because making the account's last address ends the process.
UnlockedCachesComplete ==
    (proc = "up" /\ ~locked) =>
        /\ cryptoKeyPriv
        /\ \A s \in Scopes : acctKeyPriv[s] = acctInfo[s]

\* What is cached and queued: only accounts of run-time scopes for which no
\* external address is built.  The account of every queued address is cached,
\* so that Unlock never loads an account while the manager is still locked.
PendingAccountsCached ==
    \A s \in Scopes :
        /\ deriveOnUnlock[s] \subseteq acctInfo[s]
        /\ s \notin scopedManagers \cap BareExternal => acctInfo[s] = {}

\* An address handed out without its private key, which only a locked manager
\* does and only for a bare scope, stays queued until an Unlock has given it
\* one: it is never forgotten, not by a failed Unlock and not by
\* NewScopedKeyManager, which drops the queue with the manager it replaces.
AddressesRecoverable ==
    /\ \A s \in Scopes : pubOnly[s] \subseteq deriveOnUnlock[s]
    /\ ~locked => \A s \in Scopes : pubOnly[s] = {}

\* A watching-only namespace never holds a key or an account, and its manager
\* never caches one.
WatchingOnlyHoldsNoKeys ==
    /\ \A s \in Scopes : work.watch =>
          ~work.scope[s].coinKeys /\ \A a \in Account : work.scope[s].acct[a] = NoRow
    /\ watchingOnly => locked /\ \A s \in Scopes : acctInfo[s] = {}

\* What ErrDuplicateAccount is for: an account that exists is not made again.
AccountsNotReplaced ==
    [][\A s \in Scopes, a \in Account :
          disk.scope[s].acct[a] # NoRow =>
              disk'.scope[s].acct[a] = disk.scope[s].acct[a]]_vars

\* What testNewRawAccount expects of NextExternalAddresses, of the commit after
\* it and of DeriveFromKeyPath: a call for an address of an account of a default
\* scope returns.
NoCallPanics == proc # "panicked"

-----------------------------------------------------------------------------
(* Inductive strengthenings, for the proofs.                               *)

\* A watching-only namespace has no keys and no rows, and an open transaction
\* does not change what kind of manager the namespace is for.
WatchDbInv ==
    /\ \A st \in {disk, work} : st.watch =>
          \A s \in Scopes : /\ ~st.scope[s].coinKeys
                            /\ \A a \in Account : st.scope[s].acct[a] = NoRow
    /\ disk.exists => work.exists /\ work.watch = disk.watch

\* A running Manager knows which kind it is and caches no watched account.
WatchMemInv ==
    /\ proc = "up" => disk.exists /\ watchingOnly = disk.watch
    /\ watchingOnly => locked /\ \A s \in Scopes : acctInfo[s] = {}

\* Locked and unlocked memory, and what is queued, described exactly; without
\* a Manager, or for a scope without a ScopedKeyManager or with an external
\* address type the code knows, there is nothing.
KeyInv ==
    /\ proc # "up" => locked /\ scopedManagers = {}
    /\ locked => ~cryptoKeyPriv /\ \A s \in Scopes : acctKeyPriv[s] = {}
    /\ ~locked => cryptoKeyPriv /\ \A s \in Scopes : /\ acctKeyPriv[s] = acctInfo[s]
                                                     /\ deriveOnUnlock[s] = {}
    /\ \A s \in Scopes :
          /\ pubOnly[s] \subseteq deriveOnUnlock[s]
          /\ deriveOnUnlock[s] \subseteq acctInfo[s]
          /\ s \notin scopedManagers \cap BareExternal => acctInfo[s] = {}

\* Inductive: why the manager never meets a nil or a left-over private key.
MemInv == TypeOK /\ WatchDbInv /\ WatchMemInv /\ KeyInv

\* One bucket: consistent, empty unless made, nothing derived above the limit.
BucketOK(b) ==
    /\ IndexesAgreeIn(b)
    /\ ~b.made => b = NoScope
    /\ \A a \in Account : a > MaxAccountNum =>
          \/ b.acct[a] = NoRow
          \/ /\ a = ImportedAddrAccount
             /\ b.acct[a] = [name |-> ImportedAddrAccountName, keys |-> FALSE]

\* One bucket has what createManagerKeyScope writes.
CompleteIn(b) ==
    /\ b.coinKeys
    /\ b.acct[DefaultAccountNum].keys
    /\ b.acct[ImportedAddrAccount] # NoRow

\* A namespace: its buckets are consistent, and there are none before Create.
StoreOK(st) ==
    /\ \A s \in Scopes : BucketOK(st.scope[s])
    /\ ~st.exists => \A s \in Scopes : ~st.scope[s].made

\* A namespace that may be committed: its scopes are complete.
StoreComplete(st) ==
    \A s \in Scopes : (st.scope[s].made /\ ~st.watch) => CompleteIn(st.scope[s])

\* The open transaction keeps the committed names.
NamesKept ==
    \A s \in Scopes, n \in Names :
        disk.scope[s].nameIdx[n] # NoAccount =>
            work.scope[s].nameIdx[n] = disk.scope[s].nameIdx[n]

\* Inductive: the namespace stays consistent; incomplete scopes exist only in
\* a transaction that will be rolled back; managed scopes include all others.
StoreInv ==
    /\ StoreOK(disk) /\ StoreOK(work)
    /\ StoreComplete(disk) /\ (~txErr => StoreComplete(work))
    /\ NamesKept
    /\ proc = "up" => /\ forEachKeyScope(disk) \subseteq scopedManagers
                      /\ ~txErr => forEachKeyScope(work) \subseteq scopedManagers
=============================================================================
