# btc-wallet in TLA+

A TLA+ model of the wallet in this repository: its address manager, called by
one goroutine and by several, the passphrases that guard its keys and the bytes
it stores, the goroutines of a running wallet, the loader that owns them and
the main program around it. TLC checks the modules on small instances; TLAPS
proves every safety property of them for every instance, except the part of one
that is about ENABLED. File and line references are to the repository.

## The system

| component | code | state | operations |
|---|---|---|---|
| Manager | `waddrmgr/manager.go` | locked, watchingOnly, master and crypto keys, map of ScopedKeyManagers | Create, Open, Lock, Unlock, NewScopedKeyManager |
| ScopedKeyManager | `waddrmgr/scoped_manager.go` | account cache, address map, deriveOnUnlock queue | NewAccount, NewRawAccount, DeriveFromKeyPath, AccountProperties, Next{External,Internal}Addresses, MarkUsed, Close |
| namespace | `waddrmgr/db.go`, `account_info.go` | per scope: account rows, id and name index, last account, coin-type keys | the put and fetch functions, inside a transaction |
| addresses | `waddrmgr/address*.go` | encrypted and clear-text private key | PrivKey, unlock, lock |
| Wallet | `wallet/wallet.go` | started, quit channel, quitMu, WaitGroup, request channels | Start, Stop, WaitForShutdown, Unlock; goroutines txCreator, walletLocker |
| Loader | `wallet/loader.go` | wallet, db, callbacks, mu | CreateNewWallet, OpenExistingWallet, UnloadWallet, RunAfterLoad |
| walletdb/bdb | `walletdb/` | bbolt handle and its file lock | Update, View, Close |
| snacl | `snacl/snacl.go` | a key and the parameters it was derived with | NewSecretKey, DeriveKey, Zero, Encrypt, Decrypt, Marshal, Unmarshal |
| interrupt handling | `signal.go` | callbacks, two channels | addInterruptHandler, mainInterruptHandler |
| main program | `btc-wallet.go`, `walletsetup.go`, `config.go` | flags, the loader, the RPC server | walletMain, createWallet |
| RPC server | `rpcserver.go`, `rpc/rpcserver/server.go` | the server, certificate and key file | startRPCServers, startWalletRPCServices, openRPCKeyPair |

How they interact. The Loader opens the database, opens a Manager in it, makes
a Wallet and starts it; UnloadWallet stops it, waits for its goroutines and
closes the database. Callers of the Manager and of its ScopedKeyManagers run
inside `walletdb.Update` or `walletdb.View` and pass the bucket along: the
transaction is the caller's, the memory is the manager's. An interrupt makes
the main program unload the wallet.

What is hard here:

- memory changes at once and is not undone by a rollback (the map of scoped
  managers, caches and queues where they are filled), while the namespace is;
- the Manager never gets its chain parameters, and which calls return at all
  depends on the type of address they make (see "The missing chain parameters");
- Unlock, NewScopedKeyManager, CreateNewWallet and UnloadWallet consist of
  several steps that can fail half way;
- account numbers are used up to a boundary directly below the imported
  account, and a missing counter reads as 2^32 - 1;
- panics end the process, between or inside transactions;
- Start, Stop and WaitForShutdown share a mutex, a channel and a WaitGroup and
  may overlap; a restart waits for old goroutines while it holds the mutex;
- Lock and Unlock hold the mutex of the Manager, the calls of a scope their
  own, and both use the same caches, queue and keys;
- an unlocked manager recognises its passphrase by a salt and a hash that live
  in memory only;
- signals, the server's goroutines and the opening of the wallet race at
  start-up;
- the process may stop anywhere, and its files outlive it: the database, the
  certificate and the key.

The hazards in `PROJECT.json` list these, each at its line.

### The missing chain parameters

`newManager` takes `chainParams` and does not store it (`manager.go:728-748`):
`Manager.chainParams` is nil in every process. This decides what the address
manager can do, and both models of it, `AddrManager` and `KeyRace`, have it.

- loadAccountInfo makes the last external address of an account that is not
  cached. For the types it knows (0, 3, 4 and 6, which are those of all default
  scopes) newManagedAddressWithoutPrivKey dereferences nil
  (`address_managed.go:318`, `336`, `342`, `349`). So in a default scope
  DeriveFromKeyPath, AccountProperties and the requests for addresses end the
  process for every account that exists, before anything is queued
  (`scoped_manager.go:206`) or cached (`:329`).
- A scope made by NewScopedKeyManager may have any schema. For the types 1, 2, 5
  and 7 the switch of newManagedAddressWithoutPrivKey has no case, and an address
  with nil inside is made without an error. Such a type is called *bare* here.
  If the external type is bare and the manager is locked, loading succeeds; with
  a private key, Validate dereferences the nil address (`address_managed.go:184`).
  Only there, and only while locked, do caches and queues fill.
- nextAddresses ends the process for one address or more in every scope, at
  `key.SetNet` (`scoped_manager.go:385`) if not before.

What the properties say of caches and queues is therefore about bare run-time
scopes; that there is nothing to say of the others is part of them
(PendingAccountsCached) and proved.

## Modules

| module | what it is |
|---|---|
| `AddrManager` | Manager, ScopedKeyManagers and namespace; one action per API call, plus the transaction steps |
| `MCAddrManager` | constants for TLC |
| `AddrManagerProofs` | TLAPS: types, lock state, caches, queue, watching-only |
| `AddrManagerStoreProofs` | TLAPS: rows and indexes, scopes, names, the refinement of `NameRegistry` |
| `WalletLifecycle`, `WalletLifecycleProofs` | Start, Stop, WaitForShutdown, Unlock and the two goroutines, step by step |
| `Loader`, `LoaderProofs` | the Loader composed with `WalletLifecycle`, bbolt's handle and crashes |
| `Program`, `ProgramProofs` | main, the interrupt goroutine and the gRPC server, composed with `Loader` and `RPCKeyPair` |
| `KeyRace`, `MCKeyRace`, `KeyRaceProofs` | Lock and Unlock beside the calls of a ScopedKeyManager, step by step |
| `LockState` | what passphrases promise: abstract |
| `Passphrase`, `PassphraseProofs` | snacl, Create, Open, Lock and Unlock with salts, hashes and keys; implements `LockState` |
| `NameRegistry` | what the account name index promises: abstract |
| `AddrManagerNames` | the refinement from `AddrManager` to `NameRegistry` |
| `RPCKeyPair` | the files of the RPC server's key pair through starts, failures and kills; part of `Program` |
| `RowCodec`, `MCRowCodec`, `RowCodecProofs` | the bytes of account rows, address rows and scopes |

Operators introduced by a comment that starts with "Slip:" are not part of any
specification. Each is a wrong variant of the definition that follows it (a
check forgotten, a step left out) with which one of the properties fails; the
list `mutants` in `PROJECT.json` says which.

### AddrManager

`disk` is the committed namespace, `work` the copy the open read-write
transaction sees. `BareExternal` and `BareInternal` are the extra scopes whose
external and internal address types are bare. `BeginUpdate`, `Commit` and `Rollback` are the parts of
`(*db).Update`; a call that fails inside the closure sets `txErr`, after which
only a rollback is possible, because closures return the first error. `Crash`
ends the process between two calls and `Panic` inside one (Go panics are not
recovered anywhere); both drop the transaction and all memory.

| variable | code |
|---|---|
| `disk.scope[s]` | the scope's bucket: `acct`, `idIdx`, `nameIdx`, `last`, `coinKeys` |
| `locked`, `watchingOnly`, `scopedManagers` | the fields of Manager |
| `cryptoKeyPriv` | masterKeyPriv, cryptoKeyPriv, cryptoKeyScript and the passphrase hash: set and wiped together |
| `acctInfo[s]`, `acctKeyPriv[s]`, `acctKeyPub[s]` | the cached accounts, and those of them with that key in memory |
| `deriveOnUnlock[s]` | the accounts that have an address in the queue |
| `pubOnly[s]` | the accounts that have an address handed out without private key |
| `commitPanics` | an OnCommit handler is registered that will index element -1 |
| `ret` | the outcome of the last call |

Abstractions. Account rows are a name and whether keys are stored; encryption
is left out, its failures are outcomes. An address is known by its account.
`Open` reads the committed namespace: the transaction of OpenWithRetry writes
nothing. There is one Manager per process, and callers use the
ScopedKeyManager that is in the map; a handle kept from a creation that was
rolled back and repeated is not modelled, and a repeated creation gives the
scope the schema it had. Next indexes stay 0, because no
request for an address returns, which is why MarkUsed and address rows are
absent. `newManagedAddressReturns` is the place where the missing chain
parameters enter; `commitPanics` can only become true in a bare scope. Cached
account names are not modelled.
Manager.Close sets a flag that nothing reads.

### WalletLifecycle

A step is what lies between two accesses to shared state. `pc[c]` says in
which call a caller is and where; `quitMu[w]`, `quit[w]` (channels are
numbered), `closed[w]` and `wg[w]` are the synchronisation state; `gor[w][g]`
is a goroutine: spawned but not yet past `quitChan()`, waiting for its channel,
or done. `WaitForShutdown` and `WaitWakes` follow sync.WaitGroup: a caller goes
to sleep if the counter is not 0, the Done that makes it 0 wakes it, and a
woken caller that finds the counter in use again panics. Unlock sends to a nil
channel and never returns; the request branch of walletLocker is therefore
unreachable and is not an action.

### Loader

The loader's calls run as its code does: the mutex is taken, the checks are
made, and the steps that can fail, block or be interrupted by a crash are
separate actions. For Start, Stop and WaitForShutdown the loader enters the
action of `WalletLifecycle` and goes on when the caller is back (`pc[c] =
Idle`). `localDB` tells the two constructors apart and is chosen initially.
bbolt is external: its open fails or finds the file locked by another handle
and times out (the default of 60 s in `config.go:98`; with the option set to 0
it would wait for ever, which is not modelled), its close may fail before or
after it releases the lock and is not repeated on a handle it has given up.
Callbacks run inside the step that sets `l.wallet`; they are assumed not to
call the loader, as the only one in the repository (`btc-wallet.go:46`) does
not: it would wait for the mutex for ever. The bound is on Wallet objects
(`FreshWallets`): one that was dropped and has no goroutine left is used again,
so loads are not bounded.

### Program

Main and the goroutine mainInterruptHandler are the two callers of `Loader`;
the methods of the RPC services return that they are not implemented and call
nothing. `at` is main's place in walletMain and `flags` the options that decide
its way; `handler` is the goroutine's place, `added` whether it has main's
callback, `done` the channel interruptHandlersDone. A signal counts once Notify
was called and is kept once; before that it kills. `Kill` may end the process
anywhere, and `Launch` starts the next one with new flags on the file that is
left. `createWallet` leaves by os.Exit with the new wallet running. grpc is
external: a service that is registered after Serve ends the process. The
package does not build at this commit, because startChainRPC lacks a return;
nothing calls it, and the model is of the rest.

### KeyRace

One scope of a manager with private keys, and calls of several goroutines.
`Bare` has the branches whose address type is bare; with `Bare = {}` it is a
default scope, in which a call that loads an account ends the process and only
NewAccount races with Lock and Unlock. `mMtx` and `sMtx` are the two mutexes; `pc[t]` is a goroutine's
call, its place and its local variables. A step ends where shared state is read
or written without the mutex that the other side holds: one account of Lock's
and Unlock's loops, one address of the queue, the evaluation of `range`, the
reading of `locked`, each use of cryptoKeyPriv, the derivation and the making
of an address. What a data race may do in the build is a
choice: a map written during iteration may end the process, an append beside
Unlock's shortening may be lost or bring back a nil, a key wiped during a
derivation gives an error instead of the panic of Validate. `row[a]` is the key under which
the stored account key was encrypted, the real one or the zeros Lock leaves.
`overlap` is a history variable: some Lock or Unlock has run beside a call of
the scope. What a call returns is not kept, except the error an Unlock is about
to return; the rows of NewAccount are committed when it returns, since rollbacks
belong to `AddrManager`.

### Passphrase and LockState

`LockState` knows passphrases only: a file is created with two, opened with
the public one, unlocked with the private one; a wrong one locks.
`Passphrase` has what the code has: `ns` with the marshalled parameters and
the encrypted keys, the master key, the crypto keys, the salt made
by newManager and the hash of salt and passphrase. Cryptography is ideal: a
derived key, a hash and a box determine what went into them. The salt that an
empty passphrase wipes through `append` (`manager.go:417`) is modelled. It does
no harm, because Create refuses an empty private passphrase (`manager.go:147`):
so an empty one never matches, and the manager is locked before the salt is
used again. Without that refusal, the refinement fails.

### NameRegistry

`disk` and `work` of `AddrManager`, reduced to the name index, behave like a
registry with transactions: a transaction only adds names and takes effect as a
whole or not at all. This is what a user of `LookupAccount` may rely on, through
overwritten rows, wrapped account numbers, failed calls, panics and crashes.

### RPCKeyPair

`cert` and `key` are the two files: absent, cut short, or those of one of the
generated pairs (0 is a pair the user installed). os.WriteFile is two steps,
truncation and writing, each of which may fail; the process may end at any
step. `Program` calls openRPCKeyPair where startRPCServers does, and its kills
and restarts are those of the key pair. `UserRemovesKey` is what a user has to
do with a key file that was cut short, which every later start refuses.

### RowCodec

The serialize and deserialize functions on sequences of bytes, with the code's
offsets and lengths. Address types are the eight of `address.go:20-29`, Taproot
included; scopes have every schema of them, watch-only accounts those of
`AccountSchemas`, or none. Address rows are written for scripts, the one kind
with a put function that can finish; nothing calls the writers of imported keys
and of witness scripts, and their readers are reached through
deserializeAddressRow only, as in the code. A state is a value, the bytes the put function made of it
and what the fetch function made of those. The names of fields and the order in
which they are written and read are the code's, wrong ones included. bbolt
refuses a value of more than `MaxValueSize` bytes, so no length field overflows.

## Runs

| run | instance | what it shows |
|---|---|---|
| `accounts` | one default scope, accounts 0..1, numbers mod 4, one or two addresses | TypeOK; IndexesAgree; ImportedRowIntact; NameKeepsItsAccount; ImplementsNameRegistry |
| `scopes` | one default scope, two extra ones, one with a bad coin, one with a bare external type; account 0 only, numbers mod 3 | CommittedScopesComplete, CommittedScopesManaged, LockedHoldsNoKeys, UnlockedCachesComplete, PendingAccountsCached, AddressesRecoverable, WatchingOnlyHoldsNoKeys |
| `account_replaced` | as `accounts` | violated: an existing account is made again |
| `address_panics` | as `accounts` | violated: loading an account of a default scope ends the process |
| `lifecycle` | one Wallet, three callers, two Starts, one caller stops | LifecycleTypeOK, CounterCoversGoroutines, StopReachesEveryone, NoDoubleClose, GoroutinesEnd |
| `loader` | two callers, two callbacks, two Wallet objects, both kinds of database | LoaderTypeOK, DbOpenWhileWalletRuns, OneWalletPerFile, LoaderNeverPanics, CallbacksRunOnce, LoaderCallsReturn |
| `err_exists` | as `loader` | violated: ErrExists without a wallet |
| `err_not_loaded` | as `loader` | violated: ErrNotLoaded while a wallet runs |
| `program` | one Wallet, main and the interrupt goroutine, all flags, three generated pairs | ProgramTypeOK, ShutdownUnloads, WholeKeyMatchesCert, ServesCertOnDisk, KeyNeverReplaced, InterruptEndsProgram, StartupFinishes |
| `key_race` | two goroutines, accounts 0..1, a scope whose external type only is bare | KeyRaceTypeOK, KeysFollowLock, UnlockFailsOnlyOnSpoiledRow, SerialCallsSafe, CallsNeverStuck |
| `passphrase` | two passphrases and the empty one, two salts, one root key or none | PassphraseTypeOK, HashFollowsPassphrase, ImplementsLockState |
| `row_codec` | keys and names of lengths 0, 1 and 2, numbers 0, 1, 77000, all schemas of a scope, two of an account | RowsRoundTrip, AddressRowsRefused |

Distinct states: `accounts` 1 144, `scopes` 11 981, `key_race` 650 068 (in 20 s),
`row_codec` 5 185.

Bounds. `MaxAccountNum` 1 and `Uint32Size` 4 give a default account, a second
one, the imported account and the number read for a missing counter: every
boundary of the code, each met within a few calls. Names are the two fixed
ones, the empty one, one that callers choose and the "act:" names. Two extra
scopes suffice for a scope that is rolled back and made again, with accounts
cached in it, beside one whose creation fails. In `lifecycle` three callers let a Start be overtaken by a
Stop and another Start while a third caller waits; with `MaxStarts = 3` the
same properties hold on 397 843 states, in about four and a half minutes. In
`loader` a caller of each of two methods is enough for all conflicts on the
mutex, and two Wallet objects are the most that can exist (one created and
forgotten, one opened on a caller's database). In `program` the loader works on
its own file and a process loads one wallet; starts are not bounded. In
`key_race` each goroutine gets one address per process; calls are not bounded
otherwise, and two goroutines are enough for every window, since each lies
between one Lock or Unlock and one call of the scope. Two accounts are needed
for a NewAccount, and for an account cached behind Unlock's loop. A bare
external and a known internal type let DeriveFromKeyPath return for one branch
and panic for the other; the default scope, whose caches stay empty, has no
behaviour of Lock, Unlock and NewAccount that this one lacks. 77000 has
three bytes that differ. Three pairs allow a stored pair that is replaced after
the user removed it, with one-time starts before and between.

Deadlock. In `lifecycle` it is not checked: a wallet whose callers are done
stops, a panic ends everything, and a restart can really get stuck (below). In
`loader` a crash is always possible, so the check means nothing there;
LoaderCallsReturn is what excludes waiting for ever. In `key_race` a caller
that is in no call can always begin one, so CallsNeverStuck says it of those
that are.

Fairness. `WalletLifecycle` assumes weak fairness of each goroutine's steps:
the Go scheduler runs what can run. `Loader` assumes the same, and strong
fairness of each caller that is inside a call: sync.Mutex passes itself to a
waiter that has been overtaken for long (starvation mode), so a caller cannot
be passed over for ever. Nobody has to make a call. Crashes are not assumed.
`Program` assumes weak fairness of main, of the interrupt goroutine and of the wallet's
goroutines; signals and kills need not come, and when the server's goroutine
gets to Serve is left open. `AddrManager`, `Passphrase` and `RowCodec` have no
liveness property: their calls end in one action. For `KeyRace`, CallsNeverStuck
is the safety half of it; for `Loader`, UnloadWaitsForTheEnding is.

## What the code does that its documents exclude

1. `account_replaced`: `NewRawAccount` overwrites an account that exists
   (`scoped_manager.go:660`), and so does `NewAccount` in a scope made at run
   time, where a missing counter reads as 2^32 - 1 and wraps to the default
   account (`db.go:249`). `error.go:102` has an error for it.
2. `address_panics`: the Manager has no chain parameters (`manager.go:734`, see
   above), so the request of `manager_test.go:87`, and every other call that
   loads an account of a default scope, ends the process.
3. `err_exists`: a failed or interrupted creation leaves `wallet.db`, after
   which every creation reports "wallet already exists" (`loader.go:20`).
4. `err_not_loaded`: the wallet that CreateNewWallet starts is not kept, and
   UnloadWallet reports "wallet not loaded" (`loader.go:18`) while it runs.

The models contain more that is worth knowing, without a run of its own.

Of the wallet and its loader. Start after Stop can wait for ever, holding
quitMu, for a goroutine that needs quitMu to begin (`wallet.go:45`); Stop, Start, Start leaves two pairs of
goroutines, because the restart branch does not set `started`; two overlapping
Stops close the channel twice; Unlock never returns; RunAfterLoad may hand
over a wallet that has just been unloaded; a loader on a caller's database
panics when it is opened again after an unload. `LoaderNeverPanics` says that
this is the loader's only panic; with `LoaderCallsReturn` it shows that the
loader meets none of the Wallet's: it starts a Wallet once and stops it under
its mutex.

Of a manager called by several goroutines (`KeyRace`). A Lock during NewAccount
zeroes the key with which the account key is then encrypted
(`scoped_manager.go:724`); no Unlock can ever give this account its key. This
can happen in every scope. What follows needs a bare scope, because it needs
cached accounts or queued addresses. Once the spoiled account is cached, Unlock
fails with the right passphrase, and UnlockFailsOnlyOnSpoiledRow says that no
other race makes it fail. An address made while an Unlock is under way can miss
it, and PrivKey then reports ErrWatchingOnly (`address_managed.go:134`) for a
manager that has private keys, until the next Lock and Unlock. Overlapping calls
can end the process in several ways besides the missing chain parameters.
All of it needs a Lock or Unlock beside a call of a scope: without that, the
process ends only where an address is made through nil (SerialCallsSafe).

Of the main program (`Program`). A signal before main has handed over its
callback (`signal.go:48`) is served without it and leaves main blocked, deaf to
further signals; StartupFinishes says that no start gets stuck in another way.
When the server's goroutine gets to Serve before the wallet is opened,
registering the wallet service (`rpcserver.go:22`) ends the process. A key file
that was cut short is refused by every later start.

Of the rows (`RowCodec`). The reader of watch-only account rows skips the
fingerprint its writer wrote (`account_info.go:365`), and an address row is
accepted only if it holds no data (`db.go:870`). No call writes either yet, the
second because of 2. `WatchOnlyShifted` and `AddressRowsRefused` say so of every
row, and are proved.

Read in the code and outside the models: putBirthday writes little-endian
(`db.go:364`) what fetchBirthday reads big-endian (`db.go:615`), and newManager
discards the value; putChainedAddress looks for the account row in the address
bucket (`db.go:956`) and nextAddresses returns ErrAddrMismatch whatever it finds
(`scoped_manager.go:458`), and serializeChainedAddress slices an empty buffer
(`db.go:689`): all three lie behind the panics of 2.

## Proofs

`AddrManagerProofs` and `AddrManagerStoreProofs` hold for all scopes, names,
numbers and address counts that satisfy the three assumptions of
`AddrManager`: extra scopes differ from the default ones, and only they have a
bad coin or a bare address type (`ScopesAssumption`),
the imported account and 2^32 - 1 are two different numbers above
MaxAccountNum (`NumbersAssumption`), and the fixed names and the "act:" names
are different names (`NamesAssumption`).

Memory. `LockedHoldsNoKeys` is not inductive: Lock clears the keys of the
managed scopes only, so one must know that the others have none, and a
watching-only manager must stay locked. `MemInv` adds that: `KeyInv`
(unlocked: every cached account has its key and the queue is empty; queued
accounts are cached; scopes that have no ScopedKeyManager, or a known external
address type, have no cache, so default scopes never do) and
`WatchDbInv`, `WatchMemInv` (a watching-only namespace has no rows, also in an
open transaction, and the running Manager agrees with it on what it is). The
proof has one step per action; the theorems LockedIsClean,
UnlockedIsComplete, QueueIsCached, NoAddressForgotten and
WatchingOnlyIsKeyless follow from MemInvariant.

Namespace. `StoreInv` says that every bucket is consistent and empty unless
made, that nothing derived lies above MaxAccountNum, that `work` is complete
unless its transaction is bound to be rolled back, that it keeps the committed
names, and that running managers cover both copies. The last two are what a
commit needs. From StoreInvariant follow IndexConsistency,
ImportedAccountSafe, ScopesCommitWhole, ScopesManaged and, with a look at
which steps change `disk`, the action property NamesStable.

Names. `NamesImplementRegistry`, also in `AddrManagerStoreProofs`, shows that `AddrManagerNames` implements
`NameRegistry`. It rests on StoreInvariant: a step either leaves the name index
of `work` alone, adds one name (the put functions write a name's index only
where there was none), or is the begin, commit or rollback of the registry.

Passphrases. For all passphrases (the empty one among them), salts and root
keys, `PassphraseInv` is inductive: `BucketWhole`, the bucket is absent or was
written by one Create, and `MemoryFollowsBucket`, which says of each field of
the Manager what it has to do with the bucket, locked and unlocked. From it
follow PassphraseTypeOK, HashFollowsPassphrase and the refinement
`ManagerImplementsLockState`. The part about the root and the empty passphrase
in BucketWhole is the refusal of `manager.go:147`; without it the wiped salt
breaks the last conjunct.

Races of the keys. `KeyRaceProofs` holds for any finite set of goroutines and
any number of accounts, for default scopes and bare ones; `KeyRaceAssumption`
says besides that goroutines,
account numbers and the two sentinels are different things. `KeyRaceInv` adds
to the properties that rows are numbered without gaps and leave a number for
every NewAccount under way, and what a goroutine knows at each of its places
(`ThreadInv`): for example that an Unlock at its loops still has the real key,
and that what is about to be cached is without a private key and of a bare
scope.
SerialCallsSafe needs a second invariant, `SerialInv`, under the condition that
nothing has overlapped: the calls under way are all of one family, every
address without its key is queued, the local copies of `locked` and of keys
that a call made earlier are still true, and a process that ended did so where
an address is made through nil (`MakesNilAddress`). `NoCallsWaitInACircle` states the lock
order without ENABLED: as long as a call is under way, one waits for no mutex.
The holder of m.mtx is never at a place where it waits for s.mtx, so it is that
one; if m.mtx is free, the holder of s.mtx is; if both are free, anybody.

Wallets. `WalletLifecycleProofs` holds for any Wallets, MaxStarts and finitely
many callers. `WalletInv` has to count: runs of goroutines are numbered without
gaps and together with the Starts under way do not exceed the Starts made, and
neither does the channel number with the Starts that may still replace it.
This is why each Start finds an unused pair of goroutines and why the counter
covers them. `CallerInv` says that a restart that waits holds quitMu and that
the channel it replaces is closed. OneStopperClosesOnce has the hypothesis that
at most one caller stops, which is what the loader's mutex provides; two
overlapping Stops do close the channel twice.

Loader. `LoaderProofs` holds for any number of callers, Wallets and functions.
`LoaderInv` says that callers outside the mutex are in no method of a Wallet,
so that at most one Stop is under way and `LifecycleInv` and `CloseInv` carry
over without the hypothesis above; what the holder of the mutex has reached
(`LoadingInv`, `UnloadingInv`); that a woken waiter finds the counter at zero
(`WokenInv`); that what runs on the file is the wallet the loader has, if it
has one (`FileInv`); and that a function is in the list or in one call of
RunAfterLoad, once (`CallbackInv`). The heart of DbOpenWhileWalletRuns is that
WaitForShutdown returns to UnloadWallet with the counter at zero and the
channel closed, and that by CounterCoversGoroutines nothing runs then.
`UnloadNeverSleepsForEver` is what stands behind LoaderCallsReturn: UnloadWallet
sleeps in WaitForShutdown, while it holds the mutex, only if a goroutine lives,
the counter counts no other, and each of them can go on, because quitMu is free
for those that have not read their channel and closed is the channel of the
others. Beside LoaderInv this takes `NoLostWakeup`: the loader starts a Wallet
once, with its first channel open, so no Start takes the branch that keeps
quitMu (the one that can wait for ever, see above); and a waiter stays asleep
only while the counter is above zero. The proof uses no fairness, so it carries
over to the program, where the sleeper is the interrupt handler
(`InterruptNeverSleepsForEver`).

Program. `ProgramProofs` holds for any number of Wallets, starts, kills and
generated pairs, with the two callers and the one function that
`ProgramAssumption` names. `ProgramInv` adds which loader call main and the
handler are in at each of their places, that no wallet runs which the loader
neither has nor is starting except during --create (`NoStray`), and that
nothing runs once the handler's UnloadWallet has returned. `ProgramUsesLoader`
says that the program's steps are steps of `Loader`, and `ProgramUsesKeyPair`
the same of `RPCKeyPair`, so that what is proved there holds here. `KeyPairInv`
says which files are whole at each place of openRPCKeyPair.

Rows. `RowCodecProofs` holds for keys, names, scripts and hashes of any bytes
and any length and for every uint32 (`RowCodecAssumption`). The codec has no
loop, so no induction over data is needed. `Holds(b, o, s)` says that the bytes
s stand in b behind offset o. A concatenation holds its parts at the offsets
their lengths add up to; the reader of a number, or of a length and its bytes,
gives back what stands at its offset (`WordRead`, `BlobRead`), since four bytes
determine a number (`WordSum`). The proof walks over each row with these, with
the reader's offsets on one side and the writer's lengths on the other.
For address rows the lengths alone decide: the row of a script has at least 26
bytes, the reader takes 18. `RowCodecInv` says that the stored bytes are those of the value put last
(`Written`) and are bytes (`RowsAreBytes`, which needs bbolt's limit), and what
a fetch has made of them.

TLC checked every one of these invariants on the instances above before it was
proved. They are in the last section of their modules; RowCodecInv, which only
joins such parts, is named in `RowCodecProofs`.

Only model-checked:

- the liveness properties GoroutinesEnd, LoaderCallsReturn,
  InterruptEndsProgram and StartupFinishes: TLAPS does not prove liveness under
  fairness;
- the second half of CallsNeverStuck, that a goroutine which waits for no mutex
  has a step to take, because it is about ENABLED; the first is
  NoCallsWaitInACircle;
- the four violated properties, which TLC refutes.

## Plan

Done: all modules of the table above, and the proofs of every safety property,
action property and refinement that the runs check, with the exceptions just
listed. Left is what follows the code:

1. addresses of the default scopes, their rows, MarkUsed and the address maps,
   once the Manager has its chain parameters and serializeChainedAddress writes
   a row;
2. unlock requests in `WalletLifecycle`, once unlockRequests is made;
3. the transaction manager and the methods of the RPC services, once they keep
   state.

## Not modelled

- wtxmgr, the chain client and the methods of the RPC services: stubs;
- the generated gRPC code, listeners, prompts and the parsing of options: I/O
  without a state of its own;
- MarkUsed, the used-address bucket and the address maps: no request for an
  address returns (2 above), so they are empty in every state the program can
  be in;
- the branches of AccountProperties, nextAddresses and newManagedAddress that lie
  behind the missing chain parameters, cloneKeyWithVersion for default scopes
  among them;
- script addresses in memory, tapscript and tlv: no call that returns makes or
  encodes one;
- the legacy key store (a reader whose result is not used), migrations (none is
  run), the demonstration programs under `original/`.
