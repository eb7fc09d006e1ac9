------------------------------- MODULE KeyRace -------------------------------
(***************************************************************************)
(* The address manager called by several goroutines.  Lock and Unlock run  *)
(* under the mutex of the Manager (m.mtx), the calls of a ScopedKeyManager *)
(* under its own (s.mtx), and neither takes the other's for the state they *)
(* share: Lock and Unlock walk the account cache and the queue of pending  *)
(* addresses without s.mtx, and loadAccountInfo and the Encrypt and        *)
(* Decrypt calls use Manager.locked and cryptoKeyPriv without m.mtx.  A    *)
(* step is what happens between two accesses to shared state.              *)
(*                                                                         *)
(* One scope of a Manager with private keys.  newManager drops the chain   *)
(* parameters, which every known type of address dereferences: in a        *)
(* default scope (Bare empty) a call that loads an account ends the        *)
(* process, and only NewAccount races with Lock and Unlock.  A scope made  *)
(* at run time for another type gets addresses that are nil inside; it     *)
(* caches accounts and queues addresses while the manager is locked, and   *)
(* ends the process when there is a private key, which Validate checks.    *)
(*                                                                         *)
(* What a data race may do beyond the order of the steps (a map iterated   *)
(* while it is written, a slice written from both sides, a key derived     *)
(* from bytes being wiped) is a choice.  Nothing recovers a panic: it ends *)
(* the process, and the next one starts from the committed rows.           *)
(***************************************************************************)
EXTENDS Naturals, Sequences, FiniteSets, FiniteSetsExt

CONSTANTS
    Threads,       \* goroutines that call the manager
    MaxAccount,    \* bound: highest account number
    Bare,          \* the branches of the scope whose address type has no case in
                   \* newManagedAddressWithoutPrivKey: none in a default scope
    Nobody,        \* a free mutex
    NilInfo        \* a queue entry set to nil

\* The type of an address goes by the branch of its path.
Branches == {"external", "internal"}

\* Finitely many goroutines; the entries of the queue are told apart.
ASSUME KeyRaceAssumption ==
    /\ MaxAccount \in Nat
    /\ Bare \subseteq Branches
    /\ IsFiniteSet(Threads)
    /\ Nobody \notin Threads
    /\ NilInfo \notin Threads \cup (0 .. MaxAccount)
    /\ Threads \cap (0 .. MaxAccount) = {}

Accounts == 0 .. MaxAccount

\* Addresses that wait for their private key: the last address of a cached
\* account, and the one a thread got from DeriveFromKeyPath (bound: one per
\* thread and process).
Infos == Accounts \cup Threads \cup {NilInfo}

\* The bytes of cryptoKeyPriv, and so the key a ciphertext was made with.
CryptoKeys == {"real", "zero"}

VARIABLES
    mMtx,            \* Manager.mtx: the goroutine that holds it for writing
    sMtx,            \* ScopedKeyManager.mtx: its holder
    locked,          \* Manager.locked
    cryptoKeyPriv,   \* Manager.cryptoKeyPriv
    row,             \* per account: the key its stored private key is encrypted with
    acctInfo,        \* per account: not cached, or cached with or without acctKeyPriv
    deriveOnUnlock,  \* addresses to be given their private key by Unlock
    addr,            \* per thread: the address it was given, its account and private
                     \* key; clear text and ciphertext are always set together
    pc,              \* per thread: the call it is in, where, and its local variables
    dead,            \* the process panicked
    overlap          \* history: a Lock or Unlock ran beside a call of the scope

memVars == <<locked, cryptoKeyPriv, acctInfo, deriveOnUnlock, addr>>
vars == <<mMtx, sMtx, memVars, row, pc, dead, overlap>>

NoAddr == [acct |-> 0, key |-> "none"]

Idle == [call |-> "none", at |-> "idle", acct |-> 0, private |-> FALSE,
         key |-> "nil", todo |-> {}, infos |-> <<>>, err |-> "nil"]

RootCalls == {"Lock", "Unlock", "UnlockWrong"}
ScopeCalls == {"DeriveFromKeyPath", "AccountProperties", "NewAccount", "PrivKey"}

Init ==
    /\ mMtx = Nobody /\ sMtx = Nobody
    /\ locked = TRUE /\ cryptoKeyPriv = "zero"
    /\ row = [a \in Accounts |-> IF a = 0 THEN "real" ELSE "none"]
    /\ acctInfo = [a \in Accounts |-> "absent"]
    /\ deriveOnUnlock = <<>>
    /\ addr = [t \in Threads |-> NoAddr]
    /\ pc = [t \in Threads |-> Idle]
    /\ dead = FALSE /\ overlap = FALSE

-----------------------------------------------------------------------------
(* Calls.                                                                  *)

At(t, where) == pc[t].at = where
Goes(t, where) == pc' = [pc EXCEPT ![t].at = where]

\* Slip: an error of loadAccountInfo leaves s.mtx locked.
ReturnKeepsMutex(t) ==
    /\ pc' = [pc EXCEPT ![t] = Idle]
    /\ mMtx' = IF mMtx = t THEN Nobody ELSE mMtx
    /\ sMtx' = IF sMtx = t /\ ~At(t, "load") THEN Nobody ELSE sMtx

\* The deferred Unlock of the mutex runs.  What is returned is not kept.
Return(t) ==
    /\ pc' = [pc EXCEPT ![t] = Idle]
    /\ mMtx' = IF mMtx = t THEN Nobody ELSE mMtx
    /\ sMtx' = IF sMtx = t THEN Nobody ELSE sMtx

Panic == dead' = TRUE /\ UNCHANGED <<mMtx, sMtx, memVars, pc>>

Begin(t, method, a) ==
    /\ At(t, "idle")
    /\ pc' = [pc EXCEPT ![t] = [Idle EXCEPT !.call = method, !.acct = a,
                 !.at = IF method \in RootCalls THEN "m.mtx" ELSE "s.mtx"]]
    /\ overlap' = (overlap \/ \E u \in Threads \ {t} :
                      ~At(u, "idle") /\ (pc[u].call \in RootCalls) # (method \in RootCalls))
    /\ UNCHANGED <<mMtx, sMtx, memVars, row, dead>>

\* Bound: calls of NewAccount are made while numbers are left.
NumbersLeft ==
    Cardinality({a \in Accounts : row[a] = "none"})
        > Cardinality({u \in Threads : pc[u].call = "NewAccount" /\ ~At(u, "idle")})

Call(t) ==
    \/ \E method \in RootCalls : Begin(t, method, 0)
    \/ \E a \in Accounts : Begin(t, "AccountProperties", a)
    \/ \E a \in Accounts : addr[t] = NoAddr /\ Begin(t, "DeriveFromKeyPath", a)
    \/ NumbersLeft /\ Begin(t, "NewAccount", 0)
    \/ /\ \E o \in Threads :
             addr[o] # NoAddr /\ pc[o].call # "DeriveFromKeyPath"      \* handed out
       /\ Begin(t, "PrivKey", 0)

-----------------------------------------------------------------------------
(* Lock and Unlock.                                                        *)

\* Everything that has to be wiped: first the cached accounts.
Wipes(t, err) ==
    /\ mMtx' = t
    /\ pc' = [pc EXCEPT ![t].at = "wipe", ![t].todo = Accounts, ![t].err = err]

Lock(t) ==
    /\ At(t, "m.mtx") /\ pc[t].call = "Lock" /\ mMtx = Nobody
    /\ \/ locked /\ Return(t)      \* ErrLocked
       \/ ~locked /\ Wipes(t, "nil") /\ UNCHANGED sMtx
    /\ UNCHANGED <<memVars, row, dead, overlap>>

\* A goroutine that is deriving from the wiped key has it wiped in its hands.
Wiped(t, a) ==
    [u \in Threads |->
        IF u = t THEN [pc[t] EXCEPT !.todo = @ \ {a}]
        ELSE IF pc[u].at = "address" /\ pc[u].acct = a /\ pc[u].key = "private"
        THEN [pc[u] EXCEPT !.key = "wiped"]
        ELSE pc[u]]

lockAccount(t, a) ==
    /\ At(t, "wipe") /\ a \in pc[t].todo
    /\ IF acctInfo[a] = "private"
       THEN acctInfo' = [acctInfo EXCEPT ![a] = "public"] /\ pc' = Wiped(t, a)
       ELSE pc' = [pc EXCEPT ![t].todo = @ \ {a}] /\ UNCHANGED acctInfo
    /\ UNCHANGED <<mMtx, sMtx, locked, cryptoKeyPriv, deriveOnUnlock, addr, row, dead, overlap>>

\* Slip: the flag is set and the keys stay.
lockFlagOnly(t) ==
    /\ At(t, "wipe") /\ pc[t].todo = {}
    /\ Goes(t, "locked")
    /\ UNCHANGED <<mMtx, sMtx, memVars, row, dead, overlap>>

\* Slip: s.mtx is taken to wipe what the scope holds.
lockKeysUnderScopeMutex(t) ==
    /\ At(t, "wipe") /\ pc[t].todo = {} /\ sMtx = Nobody
    /\ cryptoKeyPriv' = "zero"
    /\ Goes(t, "locked")
    /\ UNCHANGED <<mMtx, sMtx, locked, acctInfo, deriveOnUnlock, addr, row, dead, overlap>>

\* The address maps are empty: no address is visited.
lockKeys(t) ==
    /\ At(t, "wipe") /\ pc[t].todo = {}
    /\ cryptoKeyPriv' = "zero"
    /\ Goes(t, "locked")
    /\ UNCHANGED <<mMtx, sMtx, locked, acctInfo, deriveOnUnlock, addr, row, dead, overlap>>

lockDone(t) ==
    /\ At(t, "locked")
    /\ locked' = TRUE
    /\ Return(t)
    /\ UNCHANGED <<cryptoKeyPriv, acctInfo, deriveOnUnlock, addr, row, dead, overlap>>

\* A wrong passphrase locks, whatever the state.
Unlock(t) ==
    /\ At(t, "m.mtx") /\ pc[t].call \in {"Unlock", "UnlockWrong"} /\ mMtx = Nobody
    /\ \/ /\ pc[t].call = "UnlockWrong"
          /\ Wipes(t, "ErrWrongPassphrase") /\ UNCHANGED <<sMtx, cryptoKeyPriv>>
       \/ /\ pc[t].call = "Unlock" /\ ~locked
          /\ Return(t) /\ UNCHANGED cryptoKeyPriv
       \/ /\ pc[t].call = "Unlock" /\ locked
          /\ cryptoKeyPriv' = "real"
          /\ mMtx' = t
          /\ pc' = [pc EXCEPT ![t].at = "accounts", ![t].todo = Accounts]
          /\ UNCHANGED sMtx
    /\ UNCHANGED <<locked, acctInfo, deriveOnUnlock, addr, row, dead, overlap>>

\* Slip: every account number is decrypted, cached or not.
unlockEveryAccount(t, a) ==
    /\ At(t, "accounts") /\ a \in pc[t].todo
    /\ \/ row[a] # cryptoKeyPriv /\ Wipes(t, "ErrCrypto") /\ UNCHANGED acctInfo
       \/ /\ row[a] = cryptoKeyPriv
          /\ acctInfo' = [acctInfo EXCEPT ![a] = "private"]
          /\ pc' = [pc EXCEPT ![t].todo = @ \ {a}] /\ UNCHANGED mMtx
    /\ UNCHANGED <<sMtx, locked, cryptoKeyPriv, deriveOnUnlock, addr, row, dead, overlap>>

\* A cached account that cannot be decrypted makes Unlock lock again.
unlockAccount(t, a) ==
    /\ At(t, "accounts") /\ a \in pc[t].todo
    /\ \/ /\ acctInfo[a] # "absent" /\ row[a] # cryptoKeyPriv
          /\ Wipes(t, "ErrCrypto") /\ UNCHANGED acctInfo
       \/ /\ acctInfo[a] # "absent" /\ row[a] = cryptoKeyPriv
          /\ acctInfo' = [acctInfo EXCEPT ![a] = "private"]
          /\ pc' = [pc EXCEPT ![t].todo = @ \ {a}] /\ UNCHANGED mMtx
       \/ /\ acctInfo[a] = "absent"
          /\ pc' = [pc EXCEPT ![t].todo = @ \ {a}] /\ UNCHANGED <<acctInfo, mMtx>>
    /\ UNCHANGED <<sMtx, locked, cryptoKeyPriv, deriveOnUnlock, addr, row, dead, overlap>>

\* range evaluates the queue once, whatever is appended later.
unlockRange(t) ==
    /\ At(t, "accounts") /\ pc[t].todo = {}
    /\ pc' = [pc EXCEPT ![t].at = "queue", ![t].infos = deriveOnUnlock]
    /\ UNCHANGED <<mMtx, sMtx, memVars, row, dead, overlap>>

\* An account that was cached behind the loop above, or is not cached yet and
\* is now loaded without its private key, is dereferenced as nil.
unlockAddress(t) ==
    LET info == Head(pc[t].infos)
        acct == IF info \in Threads THEN addr[info].acct ELSE info
    IN
    /\ At(t, "queue") /\ pc[t].infos # <<>>
    /\ IF info = NilInfo THEN Panic
       ELSE IF acctInfo[acct] # "private" THEN Panic
       ELSE /\ addr' = IF info \in Threads THEN [addr EXCEPT ![info].key = "right"] ELSE addr
            /\ deriveOnUnlock' = Tail(deriveOnUnlock)
            /\ pc' = [pc EXCEPT ![t].infos = Tail(@)]
            /\ UNCHANGED <<mMtx, sMtx, locked, cryptoKeyPriv, acctInfo, dead>>
    /\ UNCHANGED <<row, overlap>>

unlockDone(t) ==
    /\ At(t, "queue") /\ pc[t].infos = <<>>
    /\ locked' = FALSE
    /\ Return(t)
    /\ UNCHANGED <<cryptoKeyPriv, acctInfo, deriveOnUnlock, addr, row, dead, overlap>>

-----------------------------------------------------------------------------
(* Calls of the ScopedKeyManager.                                          *)

\* AccountProperties does not ask whether the manager is locked.
ScopeLock(t) ==
    /\ At(t, "s.mtx") /\ sMtx = Nobody
    /\ sMtx' = t
    /\ Goes(t, IF pc[t].call = "AccountProperties" THEN "load" ELSE "isLocked")
    /\ UNCHANGED <<mMtx, memVars, row, dead, overlap>>

\* WatchOnly and IsLocked, under m.mtx.RLock, which is released at once: the
\* answer may be stale from here on.
IsLocked(t) ==
    /\ At(t, "isLocked") /\ mMtx = Nobody
    /\ IF pc[t].call = "DeriveFromKeyPath"
       THEN /\ pc' = [pc EXCEPT ![t].at = "load", ![t].private = ~locked]
            /\ UNCHANGED <<mMtx, sMtx>>
       ELSE IF locked THEN Return(t)      \* ErrLocked
       ELSE Goes(t, "use") /\ UNCHANGED <<mMtx, sMtx>>
    /\ UNCHANGED <<memVars, row, dead, overlap>>

\* The account is in memory.
Loaded(t) ==
    /\ Goes(t, IF pc[t].call = "AccountProperties" THEN "properties" ELSE "derive")
    /\ UNCHANGED <<mMtx, sMtx>>

\* It asks the root manager, under m.mtx.RLock, whether it is watching-only,
\* for accounts it could load, which are not those of a default scope.
AccountProperties(t) ==
    /\ At(t, "properties") /\ mMtx = Nobody
    /\ Return(t)
    /\ UNCHANGED <<memVars, row, dead, overlap>>

\* hasPrivateKey is computed without m.mtx.
loadAccountInfo(t) ==
    /\ At(t, "load")
    /\ \/ acctInfo[pc[t].acct] # "absent" /\ Loaded(t)
       \/ /\ acctInfo[pc[t].acct] = "absent" /\ row[pc[t].acct] = "none"
          /\ Return(t)      \* ErrAccountNotFound
       \/ /\ acctInfo[pc[t].acct] = "absent" /\ row[pc[t].acct] # "none"
          /\ pc' = [pc EXCEPT ![t].at = "lastAddr",
                              ![t].key = IF locked THEN "public" ELSE "private"]
          /\ UNCHANGED <<mMtx, sMtx>>
    /\ UNCHANGED <<memVars, row, dead, overlap>>

\* An append beside an Unlock that shortens the queue: one write may be lost,
\* or bring back the entry that was just set to nil.
Appended(o) ==
    {Append(deriveOnUnlock, o)}
    \cup IF \E u \in Threads : pc[u].at = "queue"
         THEN {deriveOnUnlock, <<NilInfo>> \o Append(deriveOnUnlock, o)} ELSE {}

\* Slip: only addresses of the last index are queued.
NewAddressNotQueued(t) ==
    /\ addr' = [addr EXCEPT ![t] = [acct |-> pc[t].acct, key |-> "missing"]]
    /\ UNCHANGED deriveOnUnlock

\* keyToManaged from a public key, for a type without a case: the address gets
\* its private key at the next Unlock.
NewAddress(t) ==
    /\ addr' = [addr EXCEPT ![t] = [acct |-> pc[t].acct, key |-> "missing"]]
    /\ deriveOnUnlock' \in Appended(t)

\* keyToManaged for the last external address of the account.  A type with a
\* case dereferences the nil chainParams.  A private key is nil if it could not
\* be decrypted, its error being dropped; if it could, Validate dereferences
\* the nil address.
lastAddr(t) ==
    /\ At(t, "lastAddr")
    /\ IF pc[t].key = "private" \/ "external" \notin Bare THEN Panic
       ELSE /\ deriveOnUnlock' \in Appended(pc[t].acct)
            /\ Goes(t, "insert")
            /\ UNCHANGED <<mMtx, sMtx, locked, cryptoKeyPriv, acctInfo, addr, dead>>
    /\ UNCHANGED <<row, overlap>>

\* A map that is written while Lock or Unlock iterates over it may end the
\* process ("concurrent map iteration and map write").
cacheAccount(t) ==
    /\ At(t, "insert")
    /\ \/ /\ acctInfo' = [acctInfo EXCEPT ![pc[t].acct] = "public"]
          /\ Loaded(t)
          /\ UNCHANGED <<locked, cryptoKeyPriv, deriveOnUnlock, addr, dead>>
       \/ (\E u \in Threads : pc[u].at \in {"wipe", "accounts"}) /\ Panic
    /\ UNCHANGED <<row, overlap>>

\* `private' was decided before the account was looked at.
deriveKey(t) ==
    /\ At(t, "derive")
    /\ IF pc[t].private /\ acctInfo[pc[t].acct] # "private" THEN Panic
       ELSE /\ pc' = [pc EXCEPT ![t].at = "address",
                                ![t].key = IF pc[t].private THEN "private" ELSE "public"]
            /\ UNCHANGED <<mMtx, sMtx, memVars, dead>>
    /\ UNCHANGED <<row, overlap>>

\* The branch of the path is the caller's.  With a private key Validate ends the
\* process; one that is wiped under the derivation may give an error instead.
DeriveFromKeyPath(t) ==
    /\ At(t, "address")
    /\ \/ /\ pc[t].key = "wiped"
          /\ Return(t) /\ UNCHANGED <<memVars, dead>>
       \/ /\ pc[t].key # "public" \/ Branches \ Bare # {}
          /\ Panic
       \/ /\ pc[t].key = "public" /\ Bare # {}
          /\ NewAddress(t) /\ Return(t)
          /\ UNCHANGED <<locked, cryptoKeyPriv, acctInfo, dead>>
    /\ UNCHANGED <<row, overlap>>

fetchLastAccount == Max({a \in Accounts : row[a] # "none"})

\* The coin-type key is decrypted here and the account key encrypted later.
NewAccount(t) ==
    /\ pc[t].call = "NewAccount" /\ At(t, "use")
    /\ IF cryptoKeyPriv = "zero" THEN Return(t)      \* ErrLocked
       ELSE /\ pc' = [pc EXCEPT ![t].at = "encrypt", ![t].acct = fetchLastAccount + 1]
            /\ UNCHANGED <<mMtx, sMtx>>
    /\ UNCHANGED <<memVars, row, dead, overlap>>

newAccountPut(t) ==
    /\ At(t, "encrypt")
    /\ row' = [row EXCEPT ![pc[t].acct] = cryptoKeyPriv]
    /\ Return(t)
    /\ UNCHANGED <<memVars, dead, overlap>>

\* managedAddress.unlock finds no ciphertext (ErrWatchingOnly), or the clear text
\* that came with it: lock() walks the address maps, which are empty, and never
\* wipes it.  Nothing changes.
PrivKey(t) ==
    /\ pc[t].call = "PrivKey" /\ At(t, "use")
    /\ Return(t)
    /\ UNCHANGED <<memVars, row, dead, overlap>>

\* Rows are committed; everything else is gone.
Restart ==
    /\ dead
    /\ dead' = FALSE
    /\ mMtx' = Nobody /\ sMtx' = Nobody
    /\ locked' = TRUE /\ cryptoKeyPriv' = "zero"
    /\ acctInfo' = [a \in Accounts |-> "absent"]
    /\ deriveOnUnlock' = <<>>
    /\ addr' = [t \in Threads |-> NoAddr]
    /\ pc' = [t \in Threads |-> Idle]
    /\ UNCHANGED <<row, overlap>>

-----------------------------------------------------------------------------
RootStep(t) ==
    \/ Lock(t) \/ lockKeys(t) \/ lockDone(t)
    \/ Unlock(t) \/ unlockRange(t) \/ unlockAddress(t) \/ unlockDone(t)
    \/ \E a \in Accounts : lockAccount(t, a) \/ unlockAccount(t, a)

ScopeStep(t) ==
    \/ ScopeLock(t) \/ IsLocked(t) \/ loadAccountInfo(t) \/ lastAddr(t)
    \/ cacheAccount(t) \/ AccountProperties(t) \/ deriveKey(t) \/ DeriveFromKeyPath(t)
    \/ NewAccount(t) \/ newAccountPut(t) \/ PrivKey(t)

Runs(t) == ~dead /\ (RootStep(t) \/ ScopeStep(t))

Next ==
    \/ \E t \in Threads : (~dead /\ Call(t)) \/ Runs(t)
    \/ Restart

Spec == Init /\ [][Next]_vars
-----------------------------------------------------------------------------
(* Properties.                                                             *)

InRoot == {"wipe", "locked", "accounts", "queue"}
InScope == {"isLocked", "load", "lastAddr", "insert", "properties",
            "derive", "address", "use", "encrypt"}

PcType ==
    [call : RootCalls \cup ScopeCalls \cup {"none"},
     at : InRoot \cup InScope \cup {"idle", "m.mtx", "s.mtx"},
     acct : Accounts, private : BOOLEAN,
     key : {"nil", "public", "private", "wiped"}, todo : SUBSET Accounts,
     infos : Seq(Infos), err : {"nil", "ErrWrongPassphrase", "ErrCrypto"}]

\* Every variable keeps its type, and each mutex is held exactly by the call
\* that is past taking it: every return releases it.
KeyRaceTypeOK ==
    /\ locked \in BOOLEAN /\ cryptoKeyPriv \in CryptoKeys
    /\ row \in [Accounts -> CryptoKeys \cup {"none"}]
    /\ acctInfo \in [Accounts -> {"absent", "public", "private"}]
    /\ deriveOnUnlock \in Seq(Infos)
    /\ addr \in [Threads -> [acct : Accounts, key : {"none", "missing", "right"}]]
    /\ pc \in [Threads -> PcType]
    /\ dead \in BOOLEAN /\ overlap \in BOOLEAN
    /\ \A t \in Threads : (mMtx = t) <=> pc[t].at \in InRoot
    /\ \A t \in Threads : (sMtx = t) <=> pc[t].at \in InScope

\* Whoever holds m.mtx for reading sees the private crypto key in memory
\* exactly when the manager says it is unlocked, whatever Lock and Unlock calls
\* overlapped and failed.
KeysFollowLock == (~dead /\ mMtx = Nobody) => (cryptoKeyPriv = "real" <=> ~locked)

\* Unlock with the right passphrase fails only because of an account whose
\* stored key was encrypted under a wiped key (scoped_manager.go:724) and which
\* a bare scope cached while locked: whatever else a race leaves in memory, the
\* next Unlock gets over it.
UnlockFailsOnlyOnSpoiledRow ==
    \A t \in Threads :
        (pc[t].call = "Unlock" /\ pc[t].err = "ErrCrypto") =>
            "external" \in Bare /\ \E a \in Accounts : row[a] = "zero"

Quiet == ~dead /\ \A t \in Threads : At(t, "idle")

\* The goroutine is making an address for which the code dereferences nil: the
\* chain parameters newManager drops, or the address that was not made.
MakesNilAddress(t) ==
    \/ At(t, "lastAddr") /\ (pc[t].key = "private" \/ "external" \notin Bare)
    \/ At(t, "address") /\ (pc[t].key = "private" \/ Branches \ Bare # {})

\* As long as no Lock or Unlock runs beside a call of the scope, the missing
\* chain parameters are all that goes wrong: every panic is of a call that makes
\* an address with a private key or of a known type, there is no row that cannot
\* be decrypted; between calls the cached accounts have their private keys
\* exactly while unlocked, and an address handed out while locked has its own
\* since the next Unlock.
SerialCallsSafe ==
    ~overlap =>
        /\ dead => \E t \in Threads : MakesNilAddress(t)
        /\ \A a \in Accounts : row[a] # "zero"
        /\ Quiet => \A a \in Accounts : acctInfo[a] = "private" => ~locked
        /\ (Quiet /\ ~locked) =>
              /\ \A a \in Accounts : acctInfo[a] # "public"
              /\ \A t \in Threads : addr[t].key \in {"none", "right"}

\* The goroutine is in a call and does not wait for a mutex somebody holds.
MayRun(t) ==
    /\ ~At(t, "idle")
    /\ pc[t].at \in {"m.mtx", "isLocked", "properties"} => mMtx = Nobody
    /\ At(t, "s.mtx") => sMtx = Nobody

\* Goroutines inside calls never all wait for one another: the two mutexes are
\* always taken in the same order, s.mtx before m.mtx (scoped_manager.go:782,
\* 786), and Lock and Unlock finish without s.mtx.
NoCircularWait ==
    (~dead /\ \E t \in Threads : ~At(t, "idle")) => \E t \in Threads : MayRun(t)

\* So some call always goes on: whoever waits for no mutex has a step to take.
CallsNeverStuck ==
    NoCircularWait /\ \A t \in Threads : (~dead /\ MayRun(t)) => ENABLED Runs(t)

-----------------------------------------------------------------------------
(* Inductive strengthenings, for the proofs.                               *)

Creating == {u \in Threads : pc[u].call = "NewAccount"}

\* The rows are numbered without gaps, and there is a number left for every
\* NewAccount under way.
RowsInv ==
    \E last \in Accounts :
        /\ \A a \in Accounts : row[a] # "none" <=> a <= last
        /\ MaxAccount - last >= Cardinality(Creating)

\* What a goroutine knows where it is: the call, the row it loads or writes,
\* and under m.mtx the state of the root manager.
ThreadInv(t) ==
    /\ At(t, "idle") => pc[t] = Idle
    /\ pc[t].at \in InRoot \cup {"m.mtx"} => pc[t].call \in RootCalls
    /\ pc[t].at \in InScope \cup {"s.mtx"} => pc[t].call \in ScopeCalls
    /\ At(t, "encrypt") =>
          /\ pc[t].call = "NewAccount"
          /\ \A a \in Accounts : row[a] # "none" <=> a < pc[t].acct
    /\ At(t, "insert") => pc[t].key = "public" /\ "external" \in Bare
    /\ At(t, "lastAddr") => pc[t].key \in {"public", "private"}
    /\ pc[t].at \in {"lastAddr", "insert"} => row[pc[t].acct] # "none"
    /\ At(t, "queue") => Len(pc[t].infos) <= Len(deriveOnUnlock)
    /\ At(t, "locked") => cryptoKeyPriv = "zero"
    /\ pc[t].at \in {"accounts", "queue"} =>
          cryptoKeyPriv = "real" /\ locked /\ pc[t].err = "nil"
    /\ At(t, "m.mtx") => pc[t].err = "nil"

\* Inductive: mutexes, rows and the crypto key.
KeyRaceInv ==
    /\ KeyRaceTypeOK
    /\ mMtx \in Threads \cup {Nobody} /\ sMtx \in Threads \cup {Nobody}
    /\ RowsInv
    /\ \A t \in Threads : ThreadInv(t)
    /\ \A a \in Accounts : acctInfo[a] # "absent" => row[a] # "none" /\ "external" \in Bare
    /\ KeysFollowLock /\ UnlockFailsOnlyOnSpoiledRow

\* The account of a queued address.
InfoAcct(info) == IF info \in Threads THEN addr[info].acct ELSE info

\* The goroutines in calls are all in Lock and Unlock, or all in the scope.
OneFamily ==
    \A t, u \in Threads : (~At(t, "idle") /\ ~At(u, "idle")) =>
        (pc[t].call \in RootCalls <=> pc[u].call \in RootCalls)

\* An address without its private key is queued, the queue is empty while
\* unlocked, and its accounts are cached (one is queued before it is cached).
QueueSerial ==
    /\ \A t \in Threads :
          addr[t].key = "missing" => \E i \in DOMAIN deriveOnUnlock : deriveOnUnlock[i] = t
    /\ \A i \in DOMAIN deriveOnUnlock :
          /\ deriveOnUnlock[i] # NilInfo
          /\ \/ acctInfo[InfoAcct(deriveOnUnlock[i])] # "absent"
             \/ \E t \in Threads : At(t, "insert") /\ pc[t].acct = InfoAcct(deriveOnUnlock[i])
    /\ ~locked => deriveOnUnlock = <<>>

\* While m.mtx is free, a cached account has its private key exactly while
\* unlocked.
CacheSerial ==
    mMtx = Nobody =>
        \A a \in Accounts : acctInfo[a] # IF locked THEN "private" ELSE "public"

\* What a goroutine relies on that no Lock or Unlock runs beside.
SerialThread(t) ==
    /\ At(t, "wipe") => \A a \in Accounts \ pc[t].todo : acctInfo[a] # "private"
    /\ At(t, "locked") => \A a \in Accounts : acctInfo[a] # "private"
    /\ At(t, "accounts") => \A a \in Accounts \ pc[t].todo : acctInfo[a] # "public"
    /\ At(t, "queue") =>
          pc[t].infos = deriveOnUnlock /\ \A a \in Accounts : acctInfo[a] # "public"
    /\ (pc[t].at \in {"load", "lastAddr", "insert", "derive"}
           /\ pc[t].call # "AccountProperties") => pc[t].private = ~locked
    /\ pc[t].at \in {"lastAddr", "insert", "address"} =>
          pc[t].key = IF locked THEN "public" ELSE "private"
    /\ At(t, "derive") => pc[t].call # "AccountProperties"
    /\ pc[t].at \in {"derive", "address"} => acctInfo[pc[t].acct] # "absent"
    /\ pc[t].at \in {"use", "encrypt"} => ~locked

\* Inductive with KeyRaceInv: serial calls.
SerialInv ==
    ~overlap => /\ dead => \E t \in Threads : MakesNilAddress(t)
                /\ \A a \in Accounts : row[a] # "zero"
                /\ OneFamily /\ QueueSerial /\ CacheSerial
                /\ \A t \in Threads : SerialThread(t)
=============================================================================
