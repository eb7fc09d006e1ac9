------------------------------- MODULE Loader --------------------------------
(***************************************************************************)
(* The Loader of package wallet, which creates, opens and unloads Wallets, *)
(* composed with the Wallets themselves (module WalletLifecycle): Start,   *)
(* Stop and WaitForShutdown are called here as the loader calls them,      *)
(* under its mutex, and run step by step beside the goroutines they        *)
(* control.  bbolt, which opens the file wallet.db and locks it against a  *)
(* second handle, is external.  The process may crash at any point.        *)
(***************************************************************************)
EXTENDS WalletLifecycle, Sequences, SequencesExt

CONSTANT Callbacks    \* functions given to RunAfterLoad, each once

VARIABLES
    localDB,     \* Loader.localDB: made by NewLoader, not NewLoaderWithDB
    file,        \* wallet.db exists
    ns,          \* both namespaces are committed in it
    handle,      \* bbolt's handle: "open", "closed", or "stuck": a Close
                 \* failed before it released the lock on the file
    db,          \* Loader.db: "nil", "valid", or "bad": closed or a nil *DB
    mu,          \* Loader.mu: its holder
    wallet,      \* Loader.wallet
    callbacks,   \* Loader.callbacks
    cbRuns,      \* how often each function was called; -1: not yet given
    lpc,         \* the loader call each caller is in, and where
    ret          \* the outcome of the last loader call

storeVars == <<localDB, file, ns>>
loaderVars == <<storeVars, handle, db, mu, wallet, callbacks, cbRuns, lpc, ret>>
vars == <<lifecycleVars, loaderVars>>

NotIn == [call |-> "none", at |-> "idle", w |-> Nobody, fn |-> Nobody]

NewDb == IF localDB THEN "nil" ELSE "valid"
NotGiven == [f \in Callbacks |-> -1]
NoCall == [c \in Callers |-> NotIn]

\* NewLoader or NewLoaderWithDB, on a directory or database without a wallet.
Init ==
    /\ localDB \in BOOLEAN
    /\ file = FALSE /\ ns = FALSE
    /\ handle = "closed" /\ db = NewDb
    /\ mu = Nobody /\ wallet = Nobody
    /\ callbacks = <<>> /\ cbRuns = NotGiven
    /\ lpc = NoCall /\ ret = "none"
    /\ LifecycleInit

\* The process ends and another one starts with a new Loader.
Crash ==
    /\ UNCHANGED storeVars
    /\ handle' = "closed" /\ db' = NewDb
    /\ mu' = Nobody /\ wallet' = Nobody
    /\ callbacks' = <<>> /\ cbRuns' = NotGiven
    /\ lpc' = NoCall /\ ret' = "none"
    /\ ProcessGone

-----------------------------------------------------------------------------
\* A caller enters a method, which first takes the mutex.
Enter(c, method, f) ==
    /\ lpc[c] = NotIn
    /\ lpc' = [lpc EXCEPT ![c] = [call |-> method, at |-> "lock", w |-> Nobody, fn |-> f]]
    /\ ret' = "none"
    /\ UNCHANGED <<lifecycleVars, storeVars, handle, db, mu, wallet, callbacks>>

At(c, method, where) == lpc[c].call = method /\ lpc[c].at = where
Locks(c, method) == At(c, method, "lock") /\ mu = Nobody

\* The mutex is held to the next step, which is at `where' with wallet `w'.
Proceed(c, where, w) ==
    /\ mu' = c
    /\ lpc' = [lpc EXCEPT ![c].at = where, ![c].w = w]
    /\ ret' = "none"

\* The method returns and its deferred Unlock runs.
Return(c, outcome) ==
    /\ mu' = Nobody
    /\ lpc' = [lpc EXCEPT ![c] = NotIn]
    /\ ret' = outcome

\* The step of the Wallet method the loader has called is over.
WalletCallDone(c) == pc[c] = Idle

WalletExists == IF localDB THEN file ELSE ns

\* Create: checks, then the file and its handle; nothing undoes them later.
createNewWallet(c) ==
    /\ Locks(c, "Create")
    /\ \/ /\ wallet # Nobody
          /\ Return(c, "ErrLoaded") /\ UNCHANGED <<file, handle, db>>
       \/ /\ wallet = Nobody /\ WalletExists
          /\ Return(c, "ErrExists") /\ UNCHANGED <<file, handle, db>>
       \/ /\ wallet = Nobody /\ ~WalletExists      \* Stat, MkdirAll
          /\ Return(c, "error") /\ UNCHANGED <<file, handle, db>>
       \/ /\ wallet = Nobody /\ ~WalletExists /\ localDB      \* bbolt.Open fails
          /\ file' \in BOOLEAN /\ db' = "bad"
          /\ Return(c, "error") /\ UNCHANGED handle
       \/ /\ wallet = Nobody /\ ~WalletExists
          /\ IF localDB THEN file' = TRUE /\ handle' = "open" /\ db' = "valid"
                        ELSE UNCHANGED <<file, handle, db>>
          /\ Proceed(c, "update", Nobody)
    /\ UNCHANGED <<lifecycleVars, localDB, ns, wallet, callbacks, cbRuns>>

\* The transaction of create: both namespaces or none.
create(c) ==
    /\ At(c, "Create", "update")
    /\ \/ ns' = TRUE /\ Proceed(c, "openWithRetry", Nobody)
       \/ Return(c, "error") /\ UNCHANGED ns
    /\ UNCHANGED <<lifecycleVars, localDB, file, handle, db, wallet, callbacks, cbRuns>>

\* Open: l.db is assigned whether or not walletdb.Open succeeds.  A file that
\* another handle has locked makes bbolt give up after the timeout.
OpenExistingWallet(c) ==
    /\ Locks(c, "Open")
    /\ \/ /\ wallet # Nobody
          /\ Return(c, "ErrLoaded") /\ UNCHANGED <<handle, db>>
       \/ /\ wallet = Nobody /\ localDB      \* CheckCreateDir
          /\ Return(c, "error") /\ UNCHANGED <<handle, db>>
       \/ /\ wallet = Nobody /\ localDB /\ ~file
          /\ db' = "nil" /\ Return(c, "error") /\ UNCHANGED handle
       \/ /\ wallet = Nobody /\ localDB /\ file
          /\ db' = "bad" /\ Return(c, "error") /\ UNCHANGED handle
       \/ /\ wallet = Nobody /\ localDB /\ file /\ handle = "closed"
          /\ handle' = "open" /\ db' = "valid" /\ Proceed(c, "openWithRetry", Nobody)
       \/ /\ wallet = Nobody /\ ~localDB
          /\ Proceed(c, "openWithRetry", Nobody) /\ UNCHANGED <<handle, db>>
    /\ UNCHANGED <<lifecycleVars, storeVars, wallet, callbacks, cbRuns>>

\* bbolt's Close: it may fail before or after it releases the lock; a handle
\* it has given up is not closed again.
CloseOutcomes ==
    IF localDB /\ db = "valid" /\ handle = "open"
    THEN {<<"ok", "closed">>, <<"error", "closed">>, <<"error", "stuck">>}
    ELSE {<<"ok", handle>>}

\* Bound: the Wallet objects that are left.
FreshWallets == {w \in Wallets : w \notin made /\ Live(w) = {}}

\* OpenWithRetry makes the Wallet; only Open closes the handle on an error.
OpenWithRetry(c) ==
    /\ lpc[c].at = "openWithRetry"
    /\ \/ /\ ns /\ db = "valid" /\ FreshWallets # {}
          /\ LET w == CHOOSE w \in FreshWallets : TRUE IN
                NewWallet(w) /\ Proceed(c, "start", w)
          /\ UNCHANGED <<pc, panic, handle, db>>
       \/ /\ db = "valid"
          /\ IF lpc[c].call = "Open"
             THEN \E res \in CloseOutcomes : handle' = res[2]
             ELSE UNCHANGED handle
          /\ db' = IF lpc[c].call = "Open" /\ localDB THEN "bad" ELSE db
          /\ Return(c, "error") /\ UNCHANGED lifecycleVars
       \/ /\ db = "nil"      \* left by UnloadWallet, also when not localDB
          /\ Panics("nilDatabase") /\ UNCHANGED <<handle, db, mu, lpc, ret>>
    /\ UNCHANGED <<storeVars, wallet, callbacks, cbRuns>>

\* w.Start().
LoaderStart(c) ==
    /\ lpc[c].at = "start"
    /\ StartCall(c, lpc[c].w)
    /\ Proceed(c, "starting", lpc[c].w)
    /\ UNCHANGED <<storeVars, handle, db, wallet, callbacks, cbRuns>>

\* The created wallet runs, but the loader does not keep it.
CreateReturns(c) ==
    /\ At(c, "Create", "starting") /\ WalletCallDone(c)
    /\ Return(c, "ok")
    /\ UNCHANGED <<lifecycleVars, storeVars, handle, db, wallet, callbacks, cbRuns>>

\* Slip: the functions stay in the list.
onLoadedKeepsCallbacks(c) ==
    /\ At(c, "Open", "starting") /\ WalletCallDone(c)
    /\ cbRuns' = [f \in Callbacks |->
          IF f \in Range(callbacks) THEN cbRuns[f] + 1 ELSE cbRuns[f]]
    /\ wallet' = lpc[c].w
    /\ Return(c, "ok")
    /\ UNCHANGED <<lifecycleVars, storeVars, handle, db, callbacks>>

\* The functions run under the mutex, before l.wallet is set.
onLoaded(c) ==
    /\ At(c, "Open", "starting") /\ WalletCallDone(c)
    /\ cbRuns' = [f \in Callbacks |->
          IF f \in Range(callbacks) THEN cbRuns[f] + 1 ELSE cbRuns[f]]
    /\ wallet' = lpc[c].w
    /\ callbacks' = <<>>
    /\ Return(c, "ok")
    /\ UNCHANGED <<lifecycleVars, storeVars, handle, db>>

UnloadWallet(c) ==
    /\ Locks(c, "Unload")
    /\ \/ wallet = Nobody /\ Return(c, "ErrNotLoaded")
       \/ wallet # Nobody /\ Proceed(c, "stop", wallet)
    /\ UNCHANGED <<lifecycleVars, storeVars, handle, db, wallet, callbacks, cbRuns>>

\* Slip: the goroutines are not told to quit.
UnloadStopSkipped(c) ==
    /\ At(c, "Unload", "stop")
    /\ Proceed(c, "wait", lpc[c].w)
    /\ UNCHANGED <<lifecycleVars, storeVars, handle, db, wallet, callbacks, cbRuns>>

UnloadStop(c) ==
    /\ At(c, "Unload", "stop")
    /\ StopCall(c, lpc[c].w)
    /\ Proceed(c, "wait", lpc[c].w)
    /\ UNCHANGED <<storeVars, handle, db, wallet, callbacks, cbRuns>>

\* Slip: the shutdown of the goroutines is not waited for.
UnloadNoWait(c) ==
    /\ At(c, "Unload", "wait") /\ WalletCallDone(c)
    /\ Proceed(c, "close", lpc[c].w)
    /\ UNCHANGED <<lifecycleVars, storeVars, handle, db, wallet, callbacks, cbRuns>>

UnloadWait(c) ==
    /\ At(c, "Unload", "wait") /\ WalletCallDone(c)
    /\ WaitCall(c, lpc[c].w)
    /\ Proceed(c, "close", lpc[c].w)
    /\ UNCHANGED <<storeVars, handle, db, wallet, callbacks, cbRuns>>

\* If Close fails the stopped wallet stays loaded, to be unloaded again.
\* l.db is set to nil also when it was the caller's.
UnloadClose(c) ==
    /\ At(c, "Unload", "close") /\ WalletCallDone(c)
    /\ \E res \in CloseOutcomes :
          /\ handle' = res[2]
          /\ IF res[1] = "ok"
             THEN wallet' = Nobody /\ db' = "nil" /\ made' = made \ {lpc[c].w}
             ELSE UNCHANGED <<wallet, db, made>>
          /\ Return(c, res[1])
    /\ UNCHANGED <<storeVars, callbacks, cbRuns>>
    /\ UNCHANGED <<started, quit, closed, quitMu, wg, gor, starts, pc, panic>>

\* Slip: the mutex is still held when the function is called.
RunAfterLoadHoldsMutex(c) ==
    /\ Locks(c, "RunAfterLoad")
    /\ \/ wallet # Nobody /\ Proceed(c, "call", wallet) /\ UNCHANGED callbacks
       \/ /\ wallet = Nobody
          /\ callbacks' = Append(callbacks, lpc[c].fn) /\ Return(c, "ok")
    /\ UNCHANGED <<lifecycleVars, storeVars, handle, db, wallet, cbRuns>>

\* A loaded wallet is handed over after the mutex is released.
RunAfterLoad(c) ==
    /\ Locks(c, "RunAfterLoad")
    /\ \/ /\ wallet # Nobody
          /\ lpc' = [lpc EXCEPT ![c].at = "call", ![c].w = wallet]
          /\ ret' = "none" /\ UNCHANGED <<mu, callbacks>>
       \/ /\ wallet = Nobody
          /\ callbacks' = Append(callbacks, lpc[c].fn) /\ Return(c, "ok")
    /\ UNCHANGED <<lifecycleVars, storeVars, handle, db, wallet, cbRuns>>

RunAfterLoadCalls(c) ==
    /\ At(c, "RunAfterLoad", "call")
    /\ cbRuns' = [cbRuns EXCEPT ![lpc[c].fn] = @ + 1]
    /\ lpc' = [lpc EXCEPT ![c] = NotIn]
    /\ ret' = "ok"
    /\ UNCHANGED <<lifecycleVars, storeVars, handle, db, mu, wallet, callbacks>>

-----------------------------------------------------------------------------
Call(c) ==
    \/ \E method \in {"Create", "Open", "Unload"} :
          Enter(c, method, Nobody) /\ UNCHANGED cbRuns
    \/ \E f \in Callbacks :
          /\ cbRuns[f] = -1
          /\ Enter(c, "RunAfterLoad", f)
          /\ cbRuns' = [cbRuns EXCEPT ![f] = 0]

LoaderStep(c) ==
    \/ createNewWallet(c) \/ create(c) \/ CreateReturns(c)
    \/ OpenExistingWallet(c) \/ OpenWithRetry(c) \/ LoaderStart(c) \/ onLoaded(c)
    \/ UnloadWallet(c) \/ UnloadStop(c) \/ UnloadWait(c) \/ UnloadClose(c)
    \/ RunAfterLoad(c) \/ RunAfterLoadCalls(c)

Running(c) ==
    panic = "none" /\ (LoaderStep(c) \/ (CallerStep(c) /\ UNCHANGED loaderVars))
RunningGoroutine(w, g) ==
    panic = "none" /\ GoroutineStep(w, g) /\ UNCHANGED loaderVars

Next ==
    \/ Crash
    \/ \E c \in Callers : (panic = "none" /\ Call(c)) \/ Running(c)
    \/ \E w \in Wallets, g \in Goroutines : RunningGoroutine(w, g)

\* Goroutines that can run do; sync.Mutex hands itself to a waiter that is
\* passed over too long, hence strong fairness for the callers.
Fairness ==
    /\ \A c \in Callers : SF_vars(Running(c))
    /\ \A w \in Wallets, g \in Goroutines : WF_vars(RunningGoroutine(w, g))

Spec == Init /\ [][Next]_vars /\ Fairness

-----------------------------------------------------------------------------
(* Properties.                                                             *)

Outcomes == {"none", "ok", "error", "ErrLoaded", "ErrExists", "ErrNotLoaded"}

\* Every variable of the loader keeps its type, and the mutex is held exactly
\* by the call that is past its first step.
LoaderTypeOK ==
    /\ localDB \in BOOLEAN /\ file \in BOOLEAN /\ ns \in BOOLEAN
    /\ handle \in {"open", "closed", "stuck"} /\ db \in {"nil", "valid", "bad"}
    /\ wallet \in Wallets \cup {Nobody}
    /\ callbacks \in Seq(Callbacks)
    /\ cbRuns \in [Callbacks -> -1 .. 2]
    /\ ret \in Outcomes
    /\ \A c \in Callers :
          (mu = c) <=> lpc[c].at \notin {"idle", "lock", "call"}

\* A wallet that has a goroutine or has not been told to quit.
Runs(w) == Live(w) # {} \/ (w \in made /\ started[w] /\ quit[w] \notin closed[w])

\* The file is not closed under a wallet that runs, also when the wallet has
\* been forgotten by a loader that created it or has unloaded it.
DbOpenWhileWalletRuns ==
    localDB => \A w \in Wallets : Runs(w) => handle = "open"

\* Two wallets never run on one file, whatever is created, opened, unloaded or
\* failed in between, although the loader forgets the wallets it creates.
OneWalletPerFile == localDB => \A w, v \in Wallets : Runs(w) /\ Runs(v) => w = v

\* The loader's mutex keeps the calls on a Wallet in an order that never
\* closes a channel twice nor reuses the WaitGroup under a waiter.  The one
\* panic there is takes a caller's own database that UnloadWallet has set to
\* nil (loader.go:250) and a new OpenExistingWallet.
LoaderNeverPanics ==
    panic # "none" => ~localDB /\ db = "nil" /\ panic = "nilDatabase"

\* A function given to RunAfterLoad is called once at most, and while a wallet
\* is loaded and no call is under way none is left waiting.
CallbacksRunOnce ==
    /\ \A f \in Callbacks : cbRuns[f] <= 1
    /\ (mu = Nobody /\ wallet # Nobody) => callbacks = <<>>

\* Every call of the loader returns: UnloadWallet is never left waiting for a
\* goroutine, nor another caller for the mutex.
LoaderCallsReturn ==
    \A c \in Callers : (lpc[c] # NotIn) ~> (lpc[c] = NotIn \/ panic # "none")

\* What keeps UnloadWallet from sleeping for ever in WaitForShutdown, under the
\* mutex: there is a goroutine to wait for, the counter has no other, and each
\* can go on; it finds quitMu free, or its channel closed (wallet.go:90, 142).
UnloadWaitsForTheEnding ==
    \A c \in Callers : pc[c].at = "asleep" =>
        LET w == pc[c].w IN
        /\ mu = c /\ Live(w) # {} /\ wg[w] = Cardinality(Live(w))
        /\ \A g \in Live(w) :
              \/ gor[w][g].st = "born" /\ quitMu[w] = Nobody
              \/ gor[w][g].st = "waiting" /\ gor[w][g].ch \in closed[w]

\* What ErrExists says: "wallet already exists".
ErrExistsMeansWallet == ret = "ErrExists" => ns

\* What ErrNotLoaded says: "wallet not loaded".
ErrNotLoadedMeansNoWallet == ret = "ErrNotLoaded" => \A w \in Wallets : ~Runs(w)

-----------------------------------------------------------------------------
(* Inductive strengthening, for the proofs.                                *)

LpcType ==
    [call : {"none", "Create", "Open", "Unload", "RunAfterLoad"},
     at : {"idle", "lock", "call", "update", "openWithRetry", "start", "starting",
           "stop", "wait", "close"},
     w : Wallets \cup {Nobody}, fn : Callbacks \cup {Nobody}]

LpcTypeOK == lpc \in [Callers -> LpcType] /\ mu \in Callers \cup {Nobody}

\* The calls that do not have the mutex.
Outside(c) == lpc[c].at \in {"idle", "lock", "call"}

\* Only the holder of the mutex is inside a method of a Wallet.
OutsideInv(c) ==
    /\ (mu = c) <=> ~Outside(c)
    /\ Outside(c) => pc[c] = Idle
    /\ lpc[c].at = "idle" => lpc[c] = NotIn
    /\ lpc[c].at = "call" => lpc[c].call = "RunAfterLoad"
    /\ lpc[c].call = "RunAfterLoad" => lpc[c].at \in {"lock", "call"}

InMethod(c, method) == pc[c] = Idle \/ (pc[c].call = method /\ pc[c].w = lpc[c].w)

\* A new wallet is loaded on a file whose handle is open and that no other
\* wallet runs on.
LoadingInv(c) ==
    /\ wallet = Nobody
    /\ lpc[c].call \in {"Create", "Open"}
    /\ localDB => db = "valid" /\ handle = "open"
    /\ lpc[c].at = "update" => lpc[c].call = "Create"
    /\ lpc[c].at \in {"update", "openWithRetry"} =>
          pc[c] = Idle /\ (localDB => \A v \in Wallets : ~Runs(v))
    /\ lpc[c].at \in {"start", "starting"} =>
          lpc[c].w \in Wallets /\ (localDB => \A v \in Wallets : Runs(v) => v = lpc[c].w)
    /\ lpc[c].at = "start" => pc[c] = Idle
    /\ lpc[c].at = "starting" => InMethod(c, "Start")

\* The loaded wallet is stopped, has ended, and its file is closed, in turn.
UnloadingInv(c) ==
    LET w == lpc[c].w IN
    /\ lpc[c].call = "Unload" /\ wallet = w /\ w \in Wallets
    /\ lpc[c].at = "stop" => pc[c] = Idle
    /\ lpc[c].at = "wait" =>
          /\ InMethod(c, "Stop")
          /\ pc[c] = Idle => quit[w] \in closed[w]
          /\ pc[c].at \in {"select", "close"} => pc[c].ch = quit[w]
    /\ lpc[c].at = "close" =>
          /\ InMethod(c, "WaitForShutdown")
          /\ quit[w] \in closed[w]
          /\ pc[c] = Idle => wg[w] = 0

HolderInv(c) ==
    /\ lpc[c].at \in {"update", "openWithRetry", "start", "starting"} => LoadingInv(c)
    /\ lpc[c].at \in {"stop", "wait", "close"} => UnloadingInv(c)

\* A waiter that is woken still finds the counter at zero.
WokenInv == \A c \in Callers : pc[c].at = "woken" => wg[pc[c].w] = 0

\* A function waits in the list or in one call of RunAfterLoad, once.
CallbackInv ==
    /\ callbacks \in Seq(Callbacks) /\ cbRuns \in [Callbacks -> -1 .. 1]
    /\ \A f \in Range(callbacks) : cbRuns[f] = 0
    /\ wallet # Nobody => callbacks = <<>>
    /\ \A c \in Callers : lpc[c].call = "RunAfterLoad" =>
          /\ lpc[c].fn \in Callbacks \ Range(callbacks) /\ cbRuns[lpc[c].fn] = 0
          /\ \A d \in Callers :
                lpc[d].call = "RunAfterLoad" /\ lpc[d].fn = lpc[c].fn => d = c

\* What runs on the file is the wallet the loader has, if it has one.
FileInv ==
    /\ localDB \in BOOLEAN /\ file \in BOOLEAN /\ ns \in BOOLEAN /\ ret \in Outcomes
    /\ handle \in {"open", "closed", "stuck"} /\ db \in {"nil", "valid", "bad"}
    /\ wallet \in Wallets \cup {Nobody}
    /\ localDB /\ handle = "open" => file
    /\ DbOpenWhileWalletRuns /\ OneWalletPerFile
    /\ localDB /\ wallet # Nobody => \A v \in Wallets : Runs(v) => v = wallet

\* Inductive with LoaderInv: the loader starts fresh wallets only, so that no
\* Start keeps quitMu, and no waiter sleeps on a counter that is zero.
WaitInv(c) ==
    /\ pc[c].at = "asleep" => wg[pc[c].w] > 0
    /\ (lpc[c].at = "start" \/ (lpc[c].at = "starting" /\ pc[c].at = "select")) =>
          quit[lpc[c].w] \notin closed[lpc[c].w]

NoLostWakeup ==
    (\A w \in Wallets : quitMu[w] = Nobody) /\ \A c \in Callers : WaitInv(c)

\* Inductive.
LoaderInv ==
    /\ LifecycleInv /\ CloseInv /\ WokenInv
    /\ LpcTypeOK /\ FileInv /\ CallbackInv /\ LoaderNeverPanics
    /\ \A c \in Callers : OutsideInv(c) /\ HolderInv(c)
=============================================================================
