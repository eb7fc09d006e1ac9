---------------------------- MODULE LoaderProofs -----------------------------
(***************************************************************************)
(* The Loader with its Wallets, for any number of Wallets, callers and     *)
(* functions.  LoaderInv is inductive: the callers outside the mutex are   *)
(* idle, so that the invariant of the Wallets (WalletLifecycleProofs)      *)
(* applies with one Stop at a time.                                        *)
(***************************************************************************)
EXTENDS Loader, WalletLifecycleProofs

\* A step of caller c leaves the loader calls of the others where they are.
LOthers(c) == \A d \in Callers : d # c => lpc'[d] = lpc[d]

\* Where a call holds the mutex.
Inside == {"update", "openWithRetry", "start", "starting", "stop", "wait", "close"}

-----------------------------------------------------------------------------
(* Where a loader call goes.                                               *)

\* The call goes on under the mutex.
LEMMA ProceedFacts ==
    ASSUME LpcTypeOK, NEW c \in Callers, NEW where \in Inside,
           NEW w \in Wallets \cup {Nobody}, Proceed(c, where, w)
    PROVE  /\ LpcTypeOK' /\ LOthers(c) /\ mu' = c /\ ret' = "none"
           /\ lpc'[c].at = where /\ lpc'[c].w = w
           /\ lpc'[c].call = lpc[c].call /\ lpc'[c].fn = lpc[c].fn
  <1> DEFINE r == [lpc[c] EXCEPT !.at = where, !.w = w]
  <1>1. lpc[c] \in LpcType
    BY DEF LpcTypeOK
  <1>2. where \in {"idle", "lock", "call", "update", "openWithRetry", "start", "starting",
                   "stop", "wait", "close"}
    BY DEF Inside
  <1>3. r \in LpcType /\ r.at = where /\ r.w = w /\ r.call = lpc[c].call /\ r.fn = lpc[c].fn
    BY <1>1, <1>2 DEF LpcType
  <1>4. lpc' = [lpc EXCEPT ![c] = r] /\ mu' = c /\ ret' = "none"
    BY <1>1 DEF Proceed, LpcType
  <1> HIDE DEF r
  <1> QED
    BY <1>3, <1>4 DEF LpcTypeOK, LOthers

\* NotIn is a place a caller can be at.
LEMMA NotInFacts ==
    /\ NotIn \in LpcType
    /\ NotIn.at = "idle" /\ NotIn.call = "none" /\ NotIn.w = Nobody /\ NotIn.fn = Nobody
  BY DEF NotIn, LpcType

\* The call returns.
LEMMA ReturnFacts ==
    ASSUME LpcTypeOK, NEW c \in Callers, NEW outcome, Return(c, outcome)
    PROVE  /\ LpcTypeOK' /\ LOthers(c) /\ mu' = Nobody /\ ret' = outcome
           /\ lpc'[c] = NotIn
  BY NotInFacts DEF LpcTypeOK, LOthers, Return

-----------------------------------------------------------------------------
(* Frames.                                                                 *)

\* What the loader's steps read of the Wallets stays.
LEMMA RunsKept ==
    ASSUME NEW v, UNCHANGED <<made, started, quit, closed, gor>>
    PROVE  Runs(v)' <=> Runs(v)
  BY DEF Runs, Live

\* The parts of the invariant that are about the Wallets alone.
LEMMA WalletPart ==
    ASSUME LoaderInv, UNCHANGED lifecycleVars
    PROVE  LifecycleInv' /\ CloseInv' /\ WokenInv'
           /\ \A v \in Wallets : Runs(v)' <=> Runs(v)
  <1>1. UNCHANGED <<made, started, quit, closed, quitMu, wg, gor, starts, pc>>
    BY DEF lifecycleVars, walletVars
  <1>2. LifecycleInv'
    BY <1>1, Stays DEF LoaderInv
  <1>3. CloseInv' /\ WokenInv'
    BY <1>1 DEF LoaderInv, CloseInv, WokenInv
  <1> QED
    BY <1>1, <1>2, <1>3, RunsKept

\* A caller that does not have the mutex keeps its part.
LEMMA OutsiderKept ==
    ASSUME LoaderInv, NEW d \in Callers, mu # d, mu' # d,
           lpc'[d] = lpc[d], pc'[d] = pc[d]
    PROVE  OutsideInv(d)' /\ HolderInv(d)'
  <1>1. OutsideInv(d) /\ Outside(d) /\ pc[d] = Idle
    BY DEF LoaderInv, OutsideInv
  <1> QED
    BY <1>1 DEF OutsideInv, HolderInv, Outside

\* Every caller but c keeps its part when c has the mutex or nobody has it.
LEMMA OutsidersKept ==
    ASSUME LoaderInv, NEW c \in Callers, mu \in {Nobody, c}, mu' \in {Nobody, c},
           LOthers(c), Others(c)
    PROVE  \A d \in Callers : d # c => OutsideInv(d)' /\ HolderInv(d)'
  <1> SUFFICES ASSUME NEW d \in Callers, d # c
               PROVE  OutsideInv(d)' /\ HolderInv(d)'
    OBVIOUS
  <1>1. d # Nobody
    BY LifecycleAssumption
  <1> QED
    BY <1>1, OutsiderKept DEF LOthers, Others

\* The list of functions and the calls of RunAfterLoad stay as they are, or
\* a call of RunAfterLoad ends.
LEMMA CallbackKept ==
    ASSUME LoaderInv, NEW c \in Callers, UNCHANGED <<callbacks, cbRuns>>,
           wallet' = wallet \/ wallet' = Nobody,
           LOthers(c),
           lpc'[c].call = "RunAfterLoad" =>
               lpc[c].call = "RunAfterLoad" /\ lpc'[c].fn = lpc[c].fn
    PROVE  CallbackInv'
  <1>1. CallbackInv
    BY DEF LoaderInv
  <1>2. \A d \in Callers : lpc'[d].call = "RunAfterLoad" =>
            lpc[d].call = "RunAfterLoad" /\ lpc'[d].fn = lpc[d].fn
    BY DEF LOthers
  <1>3. /\ callbacks' \in Seq(Callbacks) /\ cbRuns' \in [Callbacks -> -1 .. 1]
        /\ \A f \in Range(callbacks') : cbRuns'[f] = 0
        /\ wallet' # Nobody => callbacks' = <<>>
    BY <1>1 DEF CallbackInv
  <1>4. \A d \in Callers : lpc'[d].call = "RunAfterLoad" =>
          /\ lpc'[d].fn \in Callbacks \ Range(callbacks') /\ cbRuns'[lpc'[d].fn] = 0
          /\ \A e \in Callers :
                lpc'[e].call = "RunAfterLoad" /\ lpc'[e].fn = lpc'[d].fn => e = d
    BY <1>1, <1>2 DEF CallbackInv
  <1> QED
    BY <1>3, <1>4 DEF CallbackInv

\* A step of the loader itself that ends the call of caller c.
LEMMA StepReturns ==
    ASSUME LoaderInv, NEW c \in Callers, NEW outcome, Return(c, outcome),
           UNCHANGED lifecycleVars, panic = "none", mu \in {Nobody, c}, pc[c] = Idle,
           FileInv', CallbackInv'
    PROVE  LoaderInv'
  <1>1. LpcTypeOK' /\ LOthers(c) /\ mu' = Nobody /\ lpc'[c] = NotIn
    BY ReturnFacts DEF LoaderInv
  <1>2. Others(c) /\ pc' = pc /\ panic' = "none" /\ c # Nobody
    BY LifecycleAssumption DEF Others, lifecycleVars
  <1>3. OutsideInv(c)' /\ HolderInv(c)'
    BY <1>1, <1>2, NotInFacts DEF OutsideInv, HolderInv, Outside
  <1>4. \A d \in Callers : d # c => OutsideInv(d)' /\ HolderInv(d)'
    BY <1>1, <1>2, OutsidersKept
  <1>5. LoaderNeverPanics'
    BY <1>2 DEF LoaderNeverPanics
  <1> QED
    BY <1>1, <1>3, <1>4, <1>5, WalletPart DEF LoaderInv

\* A step of the loader itself after which caller c has the mutex.
LEMMA StepProceeds ==
    ASSUME LoaderInv, NEW c \in Callers, NEW where \in Inside,
           NEW w \in Wallets \cup {Nobody}, Proceed(c, where, w),
           UNCHANGED <<lifecycleVars, wallet, callbacks, cbRuns>>, panic = "none",
           mu \in {Nobody, c}, lpc[c].call # "RunAfterLoad",
           FileInv', HolderInv(c)'
    PROVE  LoaderInv'
  <1>1. /\ LpcTypeOK' /\ LOthers(c) /\ mu' = c
        /\ lpc'[c].at = where /\ lpc'[c].call = lpc[c].call
    BY ProceedFacts DEF LoaderInv
  <1>2. Others(c) /\ panic' = "none"
    BY DEF Others, lifecycleVars
  <1>3. OutsideInv(c)'
    BY <1>1 DEF OutsideInv, Outside, Inside
  <1>4. \A d \in Callers : d # c => OutsideInv(d)' /\ HolderInv(d)'
    BY <1>1, <1>2, OutsidersKept
  <1>5. LoaderNeverPanics' /\ CallbackInv'
    BY <1>1, <1>2, CallbackKept DEF LoaderNeverPanics
  <1> QED
    BY <1>1, <1>3, <1>4, <1>5, WalletPart DEF LoaderInv

\* A caller that waits for the mutex, or has it, and what it may rely on.
LEMMA AtLock ==
    ASSUME LoaderInv, NEW c \in Callers, NEW method, Locks(c, method)
    PROVE  /\ mu = Nobody /\ pc[c] = Idle /\ lpc[c].call = method /\ lpc[c].at = "lock"
           /\ FileInv /\ CallbackInv
  BY DEF LoaderInv, Locks, At, OutsideInv, Outside

\* The same for a caller inside.
LEMMA AtInside ==
    ASSUME LoaderInv, NEW c \in Callers, lpc[c].at \in Inside
    PROVE  /\ mu = c /\ c # Nobody /\ lpc[c].call # "RunAfterLoad"
           /\ FileInv /\ CallbackInv /\ OutsideInv(c)
           /\ lpc[c].at \in {"update", "openWithRetry", "start", "starting"} => LoadingInv(c)
           /\ lpc[c].at \in {"stop", "wait", "close"} => UnloadingInv(c)
  BY LifecycleAssumption DEF LoaderInv, OutsideInv, HolderInv, Outside, Inside

-----------------------------------------------------------------------------
(* Create and Open up to the database.                                     *)

\* What runs on which file is not touched.
LEMMA FileKept ==
    ASSUME LoaderInv, UNCHANGED <<lifecycleVars, localDB, wallet, handle>>,
           file' \in BOOLEAN, file => file', ns' \in BOOLEAN,
           db' \in {"nil", "valid", "bad"}, ret' \in Outcomes
    PROVE  FileInv'
  <1>1. FileInv
    BY DEF LoaderInv
  <1>2. \A v \in Wallets : Runs(v)' <=> Runs(v)
    BY WalletPart
  <1>3. DbOpenWhileWalletRuns' /\ OneWalletPerFile'
        /\ (localDB' /\ wallet' # Nobody => \A v \in Wallets : Runs(v)' => v = wallet')
    BY <1>1, <1>2 DEF FileInv, DbOpenWhileWalletRuns, OneWalletPerFile
  <1>4. localDB' /\ handle' = "open" => file'
    BY <1>1 DEF FileInv
  <1> QED
    BY <1>1, <1>3, <1>4 DEF FileInv

\* Create: an error, or the file and its handle.
LEMMA createNewWalletKept ==
    ASSUME LoaderInv, NEW c \in Callers, panic = "none", createNewWallet(c)
    PROVE  LoaderInv'
  <1>1. /\ mu = Nobody /\ pc[c] = Idle /\ lpc[c].call = "Create" /\ lpc[c].at = "lock"
        /\ FileInv /\ CallbackInv
    BY AtLock DEF createNewWallet
  <1>2. UNCHANGED <<lifecycleVars, localDB, ns, wallet, callbacks, cbRuns>>
    BY DEF createNewWallet
  <1>3. \A v \in Wallets : Runs(v)' <=> Runs(v)
    BY <1>2, WalletPart
  <1>4. CASE \E o \in {"ErrLoaded", "ErrExists", "error"} :
               /\ Return(c, o) /\ UNCHANGED handle
               /\ file' \in BOOLEAN /\ (file => file')
               /\ db' \in {"nil", "valid", "bad"}
    <2>1. PICK o \in {"ErrLoaded", "ErrExists", "error"} :
               /\ Return(c, o) /\ UNCHANGED handle
               /\ file' \in BOOLEAN /\ (file => file')
               /\ db' \in {"nil", "valid", "bad"}
      BY <1>4
    <2>2. ret' \in Outcomes /\ LOthers(c) /\ lpc'[c] = NotIn
      BY <2>1, ReturnFacts DEF LoaderInv, Outcomes
    <2>3. ns' \in BOOLEAN
      BY <1>1, <1>2 DEF FileInv
    <2>4. FileInv'
      BY <1>2, <2>1, <2>2, <2>3, FileKept
    <2>5. CallbackInv'
      BY <1>2, <2>2, NotInFacts, CallbackKept
    <2> QED
      BY <1>1, <1>2, <2>1, <2>4, <2>5, StepReturns
  <1>5. CASE /\ wallet = Nobody /\ ~WalletExists
             /\ IF localDB THEN file' = TRUE /\ handle' = "open" /\ db' = "valid"
                           ELSE UNCHANGED <<file, handle, db>>
             /\ Proceed(c, "update", Nobody)
    <2>1. /\ LpcTypeOK' /\ lpc'[c].at = "update" /\ lpc'[c].call = "Create" /\ ret' = "none"
      BY <1>1, <1>5, ProceedFacts DEF LoaderInv, Inside
    <2>2. localDB => \A v \in Wallets : ~Runs(v)
      BY <1>1, <1>5 DEF WalletExists, FileInv, DbOpenWhileWalletRuns
    <2>3. FileInv'
      <3>1. CASE localDB
        <4>1. DbOpenWhileWalletRuns' /\ OneWalletPerFile'
              /\ (localDB' /\ wallet' # Nobody => \A v \in Wallets : Runs(v)' => v = wallet')
          BY <3>1, <1>3, <2>2 DEF DbOpenWhileWalletRuns, OneWalletPerFile
        <4> QED
          BY <3>1, <4>1, <1>1, <1>2, <1>5, <2>1 DEF FileInv, Outcomes
      <3>2. CASE ~localDB
        <4>1. DbOpenWhileWalletRuns' /\ OneWalletPerFile'
              /\ (localDB' /\ wallet' # Nobody => \A v \in Wallets : Runs(v)' => v = wallet')
          BY <3>2, <1>2 DEF DbOpenWhileWalletRuns, OneWalletPerFile
        <4> QED
          BY <3>2, <4>1, <1>1, <1>2, <1>5, <2>1 DEF FileInv, Outcomes
      <3> QED
        BY <3>1, <3>2
    <2>4. pc' = pc
      BY <1>2 DEF lifecycleVars
    <2>5. HolderInv(c)'
      BY <1>1, <1>2, <1>3, <1>5, <2>1, <2>2, <2>4 DEF HolderInv, LoadingInv
    <2> QED
      BY <1>1, <1>2, <1>5, <2>3, <2>5, StepProceeds DEF Inside
  <1> QED
    BY <1>1, <1>4, <1>5 DEF createNewWallet, FileInv, WalletExists

\* The transaction of create.
LEMMA createKept ==
    ASSUME LoaderInv, NEW c \in Callers, panic = "none", create(c)
    PROVE  LoaderInv'
  <1>1. lpc[c].at = "update" /\ lpc[c].call = "Create"
    BY DEF create, At
  <1>2. /\ mu = c /\ FileInv /\ LoadingInv(c) /\ pc[c] = Idle
    BY <1>1, AtInside DEF Inside, LoadingInv
  <1>3. UNCHANGED <<lifecycleVars, localDB, file, handle, db, wallet, callbacks, cbRuns>>
    BY DEF create
  <1>4. \A v \in Wallets : Runs(v)' <=> Runs(v)
    BY <1>3, WalletPart
  <1>5. CASE ns' = TRUE /\ Proceed(c, "openWithRetry", Nobody)
    <2>1. /\ LpcTypeOK' /\ lpc'[c].at = "openWithRetry" /\ lpc'[c].call = "Create"
          /\ ret' = "none"
      BY <1>1, <1>5, ProceedFacts DEF LoaderInv, Inside
    <2>2. FileInv'
      BY <1>2, <1>3, <1>5, <2>1, FileKept DEF FileInv, Outcomes
    <2>3. pc' = pc
      BY <1>3 DEF lifecycleVars
    <2>4. HolderInv(c)'
      BY <1>1, <1>2, <1>3, <1>4, <2>1, <2>3 DEF HolderInv, LoadingInv
    <2> QED
      BY <1>1, <1>2, <1>3, <1>5, <2>2, <2>4, StepProceeds DEF Inside
  <1>6. CASE Return(c, "error") /\ UNCHANGED ns
    <2>1. ret' \in Outcomes /\ LOthers(c) /\ lpc'[c] = NotIn
      BY <1>6, ReturnFacts DEF LoaderInv, Outcomes
    <2>2. FileInv'
      BY <1>2, <1>3, <1>6, <2>1, FileKept DEF FileInv
    <2>3. CallbackInv'
      BY <1>3, <2>1, NotInFacts, CallbackKept
    <2> QED
      BY <1>2, <1>3, <1>6, <2>2, <2>3, StepReturns
  <1> QED
    BY <1>5, <1>6 DEF create

\* Open: an error, or a handle on a file that no wallet runs on.
LEMMA OpenExistingWalletKept ==
    ASSUME LoaderInv, NEW c \in Callers, panic = "none", OpenExistingWallet(c)
    PROVE  LoaderInv'
  <1>1. /\ mu = Nobody /\ pc[c] = Idle /\ lpc[c].call = "Open" /\ lpc[c].at = "lock"
        /\ FileInv /\ CallbackInv
    BY AtLock DEF OpenExistingWallet
  <1>2. UNCHANGED <<lifecycleVars, localDB, file, ns, wallet, callbacks, cbRuns>>
    BY DEF OpenExistingWallet, storeVars
  <1>3. \A v \in Wallets : Runs(v)' <=> Runs(v)
    BY <1>2, WalletPart
  <1>4. CASE \E o \in {"ErrLoaded", "error"} :
               Return(c, o) /\ UNCHANGED handle /\ db' \in {"nil", "valid", "bad"}
    <2>1. PICK o \in {"ErrLoaded", "error"} :
               Return(c, o) /\ UNCHANGED handle /\ db' \in {"nil", "valid", "bad"}
      BY <1>4
    <2>2. ret' \in Outcomes /\ LOthers(c) /\ lpc'[c] = NotIn
      BY <2>1, ReturnFacts DEF LoaderInv, Outcomes
    <2>3. FileInv'
      BY <1>1, <1>2, <2>1, <2>2, FileKept DEF FileInv
    <2>4. CallbackInv'
      BY <1>2, <2>2, NotInFacts, CallbackKept
    <2> QED
      BY <1>1, <1>2, <2>1, <2>3, <2>4, StepReturns
  <1>5. CASE /\ wallet = Nobody /\ Proceed(c, "openWithRetry", Nobody)
             /\ \/ /\ localDB /\ file /\ handle = "closed"
                   /\ handle' = "open" /\ db' = "valid"
                \/ ~localDB /\ UNCHANGED <<handle, db>>
    <2>1. /\ LpcTypeOK' /\ lpc'[c].at = "openWithRetry" /\ lpc'[c].call = "Open"
          /\ ret' = "none"
      BY <1>1, <1>5, ProceedFacts DEF LoaderInv, Inside
    <2>2. localDB => \A v \in Wallets : ~Runs(v)
      BY <1>1, <1>5 DEF FileInv, DbOpenWhileWalletRuns
    <2>3. FileInv'
      <3>1. DbOpenWhileWalletRuns' /\ OneWalletPerFile'
            /\ (localDB' /\ wallet' # Nobody => \A v \in Wallets : Runs(v)' => v = wallet')
        BY <1>2, <1>3, <2>2 DEF DbOpenWhileWalletRuns, OneWalletPerFile
      <3> QED
        BY <3>1, <1>1, <1>2, <1>5, <2>1 DEF FileInv, Outcomes
    <2>4. pc' = pc
      BY <1>2 DEF lifecycleVars
    <2>5. HolderInv(c)'
      BY <1>1, <1>2, <1>3, <1>5, <2>1, <2>2, <2>4 DEF HolderInv, LoadingInv
    <2> QED
      BY <1>1, <1>2, <1>5, <2>3, <2>5, StepProceeds DEF Inside
  <1> QED
    BY <1>1, <1>4, <1>5 DEF OpenExistingWallet, FileInv

-----------------------------------------------------------------------------
(* The new Wallet, and its Start.                                          *)

\* The invariant from its parts, after a step of the caller c that has the
\* mutex or finds it free.
LEMMA Assemble ==
    ASSUME LoaderInv, NEW c \in Callers, mu \in {Nobody, c}, mu' \in {Nobody, c},
           LifecycleInv', CloseInv', WokenInv', Others(c), LOthers(c), LpcTypeOK',
           panic' = "none", FileInv', CallbackInv', OutsideInv(c)', HolderInv(c)'
    PROVE  LoaderInv'
  <1>1. \A d \in Callers : d # c => OutsideInv(d)' /\ HolderInv(d)'
    BY OutsidersKept
  <1>2. LoaderNeverPanics'
    BY DEF LoaderNeverPanics
  <1> QED
    BY <1>1, <1>2 DEF LoaderInv

\* What bbolt's Close leaves.
LEMMA CloseFacts ==
    ASSUME NEW res \in CloseOutcomes
    PROVE  /\ res[1] \in {"ok", "error"}
           /\ res[2] \in {handle, "closed", "stuck"}
  BY DEF CloseOutcomes

\* OpenWithRetry makes a Wallet.
LEMMA OpenMakes ==
    ASSUME LoaderInv, NEW c \in Callers, panic = "none", lpc[c].at = "openWithRetry",
           NEW w \in Wallets, NewWallet(w), Proceed(c, "start", w),
           UNCHANGED <<pc, panic, handle, db, storeVars, wallet, callbacks, cbRuns>>
    PROVE  LoaderInv'
  <1>1. /\ mu = c /\ FileInv /\ LoadingInv(c) /\ lpc[c].call # "RunAfterLoad"
    BY AtInside DEF Inside
  <1>2. /\ LpcTypeOK' /\ LOthers(c) /\ mu' = c /\ ret' = "none"
        /\ lpc'[c].at = "start" /\ lpc'[c].w = w /\ lpc'[c].call = lpc[c].call
    BY ProceedFacts DEF LoaderInv, Inside
  <1>3. LifecycleInv' /\ CloseInv' /\ Others(c) /\ WalletsTypeOK
    BY NewWalletKept, NewWalletCloses DEF LoaderInv, LifecycleInv, Others
  <1>4. WokenInv'
    BY <1>3 DEF LoaderInv, WokenInv, NewWallet, WalletsTypeOK
  <1>5. ASSUME NEW v \in Wallets PROVE Runs(v)' => Runs(v)
    <2>1. CASE v = w
      <3>1. /\ started'[w] = FALSE /\ gor'[w] = [g \in Goroutines |-> Unborn]
        BY <1>3 DEF NewWallet, WalletsTypeOK
      <3>2. \A g \in Goroutines : gor'[w][g].st = "none"
        BY <3>1 DEF Unborn
      <3>3. Live(w)' = {}
        BY <3>2 DEF Live
      <3> QED
        BY <2>1, <3>1, <3>3 DEF Runs
    <2>2. CASE v # w
      <3>1. /\ started'[v] = started[v] /\ gor'[v] = gor[v] /\ quit'[v] = quit[v]
            /\ closed'[v] = closed[v] /\ (v \in made' <=> v \in made)
        BY <2>2, <1>3 DEF NewWallet, WalletsTypeOK
      <3> QED
        BY <3>1 DEF Runs, Live
    <2> QED
      BY <2>1, <2>2
  <1>6. UNCHANGED <<localDB, file, ns, handle, db, wallet>>
    BY DEF storeVars
  <1>7. localDB => \A v \in Wallets : ~Runs(v)'
    BY <1>1, <1>5 DEF LoadingInv
  <1>8. FileInv'
    <2>1. DbOpenWhileWalletRuns' /\ OneWalletPerFile'
          /\ (localDB' /\ wallet' # Nobody => \A v \in Wallets : Runs(v)' => v = wallet')
      BY <1>6, <1>7 DEF DbOpenWhileWalletRuns, OneWalletPerFile
    <2> QED
      BY <2>1, <1>1, <1>2, <1>6 DEF FileInv, Outcomes
  <1>9. CallbackInv'
    BY <1>1, <1>2, CallbackKept
  <1>10. OutsideInv(c)'
    BY <1>1, <1>2 DEF OutsideInv, Outside
  <1>11. pc[c] = Idle
    BY <1>1 DEF LoadingInv
  <1>12. HolderInv(c)'
    BY <1>1, <1>2, <1>6, <1>7, <1>11 DEF HolderInv, LoadingInv
  <1> QED
    BY <1>1, <1>2, <1>3, <1>4, <1>8, <1>9, <1>10, <1>12, Assemble

\* OpenWithRetry: a Wallet, an error, or the panic on the caller's own
\* database that UnloadWallet forgot.
LEMMA OpenWithRetryKept ==
    ASSUME LoaderInv, NEW c \in Callers, panic = "none", OpenWithRetry(c)
    PROVE  LoaderInv'
  <1>1. lpc[c].at = "openWithRetry"
    BY DEF OpenWithRetry
  <1>2. /\ mu = c /\ FileInv /\ LoadingInv(c) /\ pc[c] = Idle
    BY <1>1, AtInside DEF Inside, LoadingInv
  <1>3. UNCHANGED <<localDB, file, ns, wallet, callbacks, cbRuns>> /\ UNCHANGED storeVars
    BY DEF OpenWithRetry, storeVars
  <1>4. CASE /\ FreshWallets # {}
             /\ LET w == CHOOSE w \in FreshWallets : TRUE IN
                   NewWallet(w) /\ Proceed(c, "start", w)
             /\ UNCHANGED <<pc, panic, handle, db>>
    <2> DEFINE w == CHOOSE w \in FreshWallets : TRUE
    <2>1. w \in Wallets /\ NewWallet(w) /\ Proceed(c, "start", w)
      BY <1>4 DEF FreshWallets
    <2> HIDE DEF w
    <2>2. PICK x \in Wallets : NewWallet(x) /\ Proceed(c, "start", x)
      BY <2>1
    <2> QED
      BY <1>1, <1>3, <1>4, <2>2, OpenMakes
  <1>5. CASE /\ IF lpc[c].call = "Open"
                THEN \E res \in CloseOutcomes : handle' = res[2]
                ELSE UNCHANGED handle
             /\ db' = IF lpc[c].call = "Open" /\ localDB THEN "bad" ELSE db
             /\ Return(c, "error") /\ UNCHANGED lifecycleVars
    <2>1. ret' = "error" /\ LOthers(c) /\ lpc'[c] = NotIn
      BY <1>5, ReturnFacts DEF LoaderInv
    <2>2. handle' \in {handle, "closed", "stuck"}
      BY <1>5, CloseFacts
    <2>3. \A v \in Wallets : Runs(v)' <=> Runs(v)
      BY <1>5, WalletPart
    <2>4. localDB => \A v \in Wallets : ~Runs(v)
      BY <1>1, <1>2 DEF LoadingInv
    <2>5. FileInv'
      <3>1. DbOpenWhileWalletRuns' /\ OneWalletPerFile'
            /\ (localDB' /\ wallet' # Nobody => \A v \in Wallets : Runs(v)' => v = wallet')
        BY <1>3, <2>3, <2>4 DEF DbOpenWhileWalletRuns, OneWalletPerFile
      <3>2. handle' \in {"open", "closed", "stuck"} /\ db' \in {"nil", "valid", "bad"}
            /\ (localDB' /\ handle' = "open" => file')
        BY <1>2, <1>3, <1>5, <2>2 DEF FileInv
      <3> QED
        BY <3>1, <3>2, <1>2, <1>3, <2>1 DEF FileInv, Outcomes
    <2>6. CallbackInv'
      BY <1>3, <2>1, NotInFacts, CallbackKept
    <2> QED
      BY <1>2, <1>5, <2>5, <2>6, StepReturns
  <1>6. CASE db = "nil" /\ Panics("nilDatabase") /\ UNCHANGED <<handle, db, mu, lpc, ret>>
    <2>1. ~localDB
      BY <1>2, <1>6 DEF LoadingInv
    <2>2. UNCHANGED <<made, started, quit, closed, quitMu, wg, gor, starts, pc>>
          /\ panic' = "nilDatabase"
      BY <1>6 DEF Panics, walletVars
    <2>3. LifecycleInv' /\ CloseInv' /\ WokenInv'
      BY <2>2, Stays DEF LoaderInv, CloseInv, WokenInv
    <2>4. \A v \in Wallets : Runs(v)' <=> Runs(v)
      BY <2>2, RunsKept
    <2>5. FileInv'
      BY <1>2, <1>3, <1>6, <2>1 DEF FileInv, DbOpenWhileWalletRuns, OneWalletPerFile
    <2>6. CallbackInv'
      BY <1>3, <1>6 DEF LoaderInv, CallbackInv
    <2>7. LoaderNeverPanics'
      BY <1>3, <1>6, <2>1, <2>2 DEF LoaderNeverPanics
    <2>8. LpcTypeOK'
      BY <1>6 DEF LoaderInv, LpcTypeOK
    <2>9. \A d \in Callers : OutsideInv(d)' /\ HolderInv(d)'
      <3>1. OutsideInv(c)' /\ HolderInv(c)'
        BY <1>1, <1>2, <1>3, <1>6, <2>1, <2>2
           DEF LoaderInv, OutsideInv, Outside, HolderInv, LoadingInv
      <3>2. mu' = c /\ LOthers(c) /\ Others(c)
        BY <1>2, <1>6, <2>2 DEF LOthers, Others
      <3> QED
        BY <1>2, <3>1, <3>2, OutsidersKept
    <2> QED
      BY <2>3, <2>5, <2>6, <2>7, <2>8, <2>9 DEF LoaderInv
  <1> QED
    BY <1>4, <1>5, <1>6 DEF OpenWithRetry

\* The loader calls a method of its Wallet.
LEMMA StepCalls ==
    ASSUME LoaderInv, NEW c \in Callers, lpc[c].at \in Inside, panic = "none",
           NEW where \in Inside, Proceed(c, where, lpc[c].w),
           UNCHANGED <<storeVars, handle, db, wallet, callbacks, cbRuns>>,
           UNCHANGED <<made, started, quit, closed, quitMu, wg, gor, panic>>,
           NEW m, NEW a, a # "woken", Calls(c, m, a, lpc[c].w),
           LifecycleInv', CloseInv', HolderInv(c)'
    PROVE  LoaderInv'
  <1>1. /\ mu = c /\ FileInv /\ lpc[c].call # "RunAfterLoad"
    BY AtInside
  <1>2. lpc[c].w \in Wallets \cup {Nobody} /\ WalletsTypeOK
    BY DEF LoaderInv, LpcTypeOK, LpcType, LifecycleInv
  <1>3. /\ LpcTypeOK' /\ LOthers(c) /\ mu' = c /\ ret' = "none"
        /\ lpc'[c].at = where /\ lpc'[c].w = lpc[c].w /\ lpc'[c].call = lpc[c].call
    BY <1>2, ProceedFacts DEF LoaderInv
  <1>4. Others(c) /\ pc'[c].at = a
    BY <1>2 DEF Calls, Others, WalletsTypeOK
  <1>5. WokenInv'
    BY <1>4 DEF LoaderInv, WokenInv, Others
  <1>6. \A v \in Wallets : Runs(v)' <=> Runs(v)
    BY RunsKept
  <1>7. UNCHANGED <<localDB, file, ns, handle, db, wallet>>
    BY DEF storeVars
  <1>8. FileInv'
    <2>1. DbOpenWhileWalletRuns' /\ OneWalletPerFile'
          /\ (localDB' /\ wallet' # Nobody => \A v \in Wallets : Runs(v)' => v = wallet')
      BY <1>1, <1>6, <1>7 DEF FileInv, DbOpenWhileWalletRuns, OneWalletPerFile
    <2> QED
      BY <2>1, <1>1, <1>3, <1>7 DEF FileInv, Outcomes
  <1>9. CallbackInv'
    BY <1>1, <1>3, CallbackKept
  <1>10. OutsideInv(c)'
    BY <1>1, <1>3 DEF OutsideInv, Outside, Inside
  <1> QED
    BY <1>1, <1>3, <1>4, <1>5, <1>8, <1>9, <1>10, Assemble

\* w.Start is called.
LEMMA LoaderStartKept ==
    ASSUME LoaderInv, NEW c \in Callers, panic = "none", LoaderStart(c)
    PROVE  LoaderInv'
  <1>1. lpc[c].at = "start"
    BY DEF LoaderStart
  <1>2. /\ FileInv /\ LoadingInv(c) /\ lpc[c].w \in Wallets
    BY <1>1, AtInside DEF Inside, LoadingInv
  <1>3. PICK w \in Wallets : w = lpc[c].w
    BY <1>2
  <1>4. /\ StartCall(c, w) /\ Proceed(c, "starting", w)
        /\ UNCHANGED <<storeVars, handle, db, wallet, callbacks, cbRuns>>
    BY <1>3 DEF LoaderStart
  <1>5. /\ Calls(c, "Start", "select", w)
        /\ UNCHANGED <<made, started, quit, closed, quitMu, wg, gor, panic>>
    BY <1>4 DEF StartCall
  <1>6. LifecycleInv' /\ CloseInv' /\ WalletsTypeOK
    BY <1>4, StartCallKept, CallCloses DEF LoaderInv, LifecycleInv
  <1>7. lpc'[c].at = "starting" /\ lpc'[c].w = w /\ lpc'[c].call = lpc[c].call
    BY <1>4, ProceedFacts DEF LoaderInv, Inside
  <1>8. pc'[c].call = "Start" /\ pc'[c].w = w
    BY <1>5, <1>6 DEF Calls, WalletsTypeOK
  <1>9. \A v \in Wallets : Runs(v)' <=> Runs(v)
    BY <1>5, RunsKept
  <1>10. UNCHANGED <<localDB, handle, db, wallet>>
    BY <1>4 DEF storeVars
  <1>11. HolderInv(c)'
    BY <1>1, <1>2, <1>3, <1>7, <1>8, <1>9, <1>10 DEF HolderInv, LoadingInv, InMethod
  <1> QED
    BY <1>1, <1>3, <1>4, <1>5, <1>6, <1>11, StepCalls DEF Inside

\* UnloadWallet calls w.Stop.
LEMMA UnloadStopKept ==
    ASSUME LoaderInv, NEW c \in Callers, panic = "none", UnloadStop(c)
    PROVE  LoaderInv'
  <1>1. lpc[c].at = "stop"
    BY DEF UnloadStop, At
  <1>2. /\ FileInv /\ UnloadingInv(c) /\ lpc[c].w \in Wallets
    BY <1>1, AtInside DEF Inside, UnloadingInv
  <1>3. PICK w \in Wallets : w = lpc[c].w
    BY <1>2
  <1>4. /\ StopCall(c, w) /\ Proceed(c, "wait", w)
        /\ UNCHANGED <<storeVars, handle, db, wallet, callbacks, cbRuns>>
    BY <1>3 DEF UnloadStop
  <1>5. /\ Calls(c, "Stop", "quitChan", w)
        /\ UNCHANGED <<made, started, quit, closed, quitMu, wg, gor, panic>>
    BY <1>4 DEF StopCall, walletVars
  <1>6. LifecycleInv' /\ CloseInv' /\ WalletsTypeOK
    BY <1>4, CallsKept, CallCloses DEF LoaderInv, LifecycleInv
  <1>7. lpc'[c].at = "wait" /\ lpc'[c].w = w /\ lpc'[c].call = lpc[c].call
    BY <1>4, ProceedFacts DEF LoaderInv, Inside
  <1>8. pc'[c].call = "Stop" /\ pc'[c].at = "quitChan" /\ pc'[c].w = w /\ pc'[c] # Idle
    BY <1>5, <1>6 DEF Calls, WalletsTypeOK, Idle
  <1>9. HolderInv(c)'
    BY <1>1, <1>2, <1>3, <1>4, <1>7, <1>8 DEF HolderInv, UnloadingInv, InMethod
  <1> QED
    BY <1>1, <1>3, <1>4, <1>5, <1>6, <1>9, StepCalls DEF Inside

\* UnloadWallet calls w.WaitForShutdown.
LEMMA UnloadWaitKept ==
    ASSUME LoaderInv, NEW c \in Callers, panic = "none", UnloadWait(c)
    PROVE  LoaderInv'
  <1>1. lpc[c].at = "wait" /\ pc[c] = Idle
    BY DEF UnloadWait, At, WalletCallDone
  <1>2. /\ FileInv /\ UnloadingInv(c) /\ lpc[c].w \in Wallets
    BY <1>1, AtInside DEF Inside, UnloadingInv
  <1>3. PICK w \in Wallets : w = lpc[c].w
    BY <1>2
  <1>4. /\ WaitCall(c, w) /\ Proceed(c, "close", w)
        /\ UNCHANGED <<storeVars, handle, db, wallet, callbacks, cbRuns>>
    BY <1>3 DEF UnloadWait
  <1>5. /\ Calls(c, "WaitForShutdown", "wait", w)
        /\ UNCHANGED <<made, started, quit, closed, quitMu, wg, gor, panic>>
    BY <1>4 DEF WaitCall, walletVars
  <1>6. LifecycleInv' /\ CloseInv' /\ WalletsTypeOK
    BY <1>4, CallsKept, CallCloses DEF LoaderInv, LifecycleInv
  <1>7. lpc'[c].at = "close" /\ lpc'[c].w = w /\ lpc'[c].call = lpc[c].call
    BY <1>4, ProceedFacts DEF LoaderInv, Inside
  <1>8. pc'[c].call = "WaitForShutdown" /\ pc'[c].w = w /\ pc'[c] # Idle
    BY <1>5, <1>6 DEF Calls, WalletsTypeOK, Idle
  <1>9. quit[w] \in closed[w] /\ wallet = w /\ lpc[c].call = "Unload"
    BY <1>1, <1>2, <1>3 DEF UnloadingInv
  <1>10. HolderInv(c)'
    BY <1>4, <1>5, <1>7, <1>8, <1>9 DEF HolderInv, UnloadingInv, InMethod
  <1> QED
    BY <1>1, <1>3, <1>4, <1>5, <1>6, <1>10, StepCalls DEF Inside

-----------------------------------------------------------------------------
(* Returns.                                                                *)

\* Create returns.
LEMMA CreateReturnsKept ==
    ASSUME LoaderInv, NEW c \in Callers, panic = "none", CreateReturns(c)
    PROVE  LoaderInv'
  <1>1. lpc[c].at = "starting" /\ pc[c] = Idle /\ Return(c, "ok")
    BY DEF CreateReturns, At, WalletCallDone
  <1>2. UNCHANGED <<lifecycleVars, localDB, file, ns, handle, db, wallet, callbacks, cbRuns>>
    BY DEF CreateReturns, storeVars
  <1>3. mu = c /\ FileInv
    BY <1>1, AtInside DEF Inside
  <1>4. ret' = "ok" /\ LOthers(c) /\ lpc'[c] = NotIn
    BY <1>1, ReturnFacts DEF LoaderInv
  <1>5. FileInv'
    BY <1>2, <1>3, <1>4, FileKept DEF FileInv, Outcomes
  <1>6. CallbackInv'
    BY <1>2, <1>4, NotInFacts, CallbackKept
  <1> QED
    BY <1>1, <1>2, <1>3, <1>5, <1>6, StepReturns

\* Open returns: the functions are called and the wallet is kept.
LEMMA onLoadedKept ==
    ASSUME LoaderInv, NEW c \in Callers, panic = "none", onLoaded(c)
    PROVE  LoaderInv'
  <1>1. lpc[c].at = "starting" /\ pc[c] = Idle /\ Return(c, "ok")
    BY DEF onLoaded, At, WalletCallDone
  <1>2. /\ UNCHANGED <<lifecycleVars, localDB, file, ns, handle, db>>
        /\ wallet' = lpc[c].w /\ callbacks' = <<>>
        /\ cbRuns' = [f \in Callbacks |->
              IF f \in Range(callbacks) THEN cbRuns[f] + 1 ELSE cbRuns[f]]
    BY DEF onLoaded, storeVars
  <1>3. mu = c /\ FileInv /\ CallbackInv /\ LoadingInv(c) /\ lpc[c].call # "RunAfterLoad"
    BY <1>1, AtInside DEF Inside
  <1>4. ret' = "ok" /\ LOthers(c) /\ lpc'[c] = NotIn
    BY <1>1, ReturnFacts DEF LoaderInv
  <1>5. FileInv'
    <2>1. \A v \in Wallets : Runs(v)' <=> Runs(v)
      BY <1>2, WalletPart
    <2>2. localDB => \A v \in Wallets : Runs(v) => v = lpc[c].w
      BY <1>1, <1>3 DEF LoadingInv
    <2>3. DbOpenWhileWalletRuns' /\ OneWalletPerFile'
          /\ (localDB' /\ wallet' # Nobody => \A v \in Wallets : Runs(v)' => v = wallet')
      BY <1>2, <1>3, <2>1, <2>2 DEF FileInv, DbOpenWhileWalletRuns, OneWalletPerFile
    <2>4. wallet' \in Wallets
      BY <1>1, <1>2, <1>3 DEF LoadingInv
    <2> QED
      BY <1>2, <1>3, <1>4, <2>3, <2>4 DEF FileInv, Outcomes
  <1>6. CallbackInv'
    <2>1. \A f \in Callbacks : cbRuns[f] \in -1 .. 1 /\ (f \in Range(callbacks) => cbRuns[f] = 0)
      BY <1>3 DEF CallbackInv
    <2>2. \A f \in Callbacks : cbRuns'[f] \in -1 .. 1
          /\ (f \notin Range(callbacks) => cbRuns'[f] = cbRuns[f])
      BY <1>2, <2>1
    <2>3. cbRuns' \in [Callbacks -> -1 .. 1]
      <3>1. \A f \in Callbacks :
               (IF f \in Range(callbacks) THEN cbRuns[f] + 1 ELSE cbRuns[f]) \in -1 .. 1
        BY <2>1
      <3> QED
        BY <1>2, <3>1
    <2>4. Range(callbacks') = {} /\ callbacks' \in Seq(Callbacks)
      BY <1>2 DEF Range
    <2>5. \A d \in Callers : lpc'[d].call = "RunAfterLoad" => lpc'[d] = lpc[d]
      BY <1>4, NotInFacts DEF LOthers
    <2>6. \A d \in Callers : lpc'[d].call = "RunAfterLoad" =>
            /\ lpc'[d].fn \in Callbacks \ Range(callbacks') /\ cbRuns'[lpc'[d].fn] = 0
            /\ \A e \in Callers :
                  lpc'[e].call = "RunAfterLoad" /\ lpc'[e].fn = lpc'[d].fn => e = d
      BY <1>3, <2>2, <2>4, <2>5 DEF CallbackInv
    <2> QED
      BY <1>2, <2>3, <2>4, <2>6 DEF CallbackInv
  <1> QED
    BY <1>1, <1>2, <1>3, <1>5, <1>6, StepReturns

\* UnloadWallet finds no wallet, or goes on to stop it.
LEMMA UnloadWalletKept ==
    ASSUME LoaderInv, NEW c \in Callers, panic = "none", UnloadWallet(c)
    PROVE  LoaderInv'
  <1>1. /\ mu = Nobody /\ pc[c] = Idle /\ lpc[c].call = "Unload" /\ lpc[c].at = "lock"
        /\ FileInv /\ CallbackInv
    BY AtLock DEF UnloadWallet
  <1>2. UNCHANGED <<lifecycleVars, localDB, file, ns, handle, db, wallet, callbacks, cbRuns>>
    BY DEF UnloadWallet, storeVars
  <1>3. CASE Return(c, "ErrNotLoaded")
    <2>1. ret' = "ErrNotLoaded" /\ LOthers(c) /\ lpc'[c] = NotIn
      BY <1>3, ReturnFacts DEF LoaderInv
    <2>2. FileInv'
      BY <1>1, <1>2, <2>1, FileKept DEF FileInv, Outcomes
    <2>3. CallbackInv'
      BY <1>2, <2>1, NotInFacts, CallbackKept
    <2> QED
      BY <1>1, <1>2, <1>3, <2>2, <2>3, StepReturns
  <1>4. CASE wallet # Nobody /\ Proceed(c, "stop", wallet)
    <2>1. wallet \in Wallets
      BY <1>1, <1>4 DEF FileInv
    <2>2. lpc'[c].at = "stop" /\ lpc'[c].w = wallet /\ lpc'[c].call = "Unload" /\ ret' = "none"
      BY <1>1, <1>4, <2>1, ProceedFacts DEF LoaderInv, Inside
    <2>3. FileInv'
      BY <1>1, <1>2, <2>2, FileKept DEF FileInv, Outcomes
    <2>4. pc' = pc
      BY <1>2 DEF lifecycleVars
    <2>5. HolderInv(c)'
      BY <1>1, <1>2, <2>1, <2>2, <2>4 DEF HolderInv, UnloadingInv
    <2> QED
      BY <1>1, <1>2, <1>4, <2>1, <2>3, <2>5, StepProceeds DEF Inside
  <1> QED
    BY <1>3, <1>4 DEF UnloadWallet

\* A Wallet whose goroutines have been waited for after Stop does not run.
LEMMA Ended ==
    ASSUME LifecycleInv, NEW w \in Wallets, wg[w] = 0, quit[w] \in closed[w]
    PROVE  ~Runs(w)
  <1>1. Cardinality(Live(w)) = 0
    BY FinitelyMany DEF LifecycleInv, WalletInv
  <1>2. Live(w) = {}
    BY <1>1, FinitelyMany, FS_EmptySet
  <1> QED
    BY <1>2 DEF Runs

\* UnloadWallet closes the file, and forgets the wallet if that succeeds.
LEMMA UnloadCloseKept ==
    ASSUME LoaderInv, NEW c \in Callers, panic = "none", UnloadClose(c)
    PROVE  LoaderInv'
  <1>1. lpc[c].at = "close" /\ pc[c] = Idle
    BY DEF UnloadClose, At, WalletCallDone
  <1>2. /\ mu = c /\ FileInv /\ CallbackInv /\ UnloadingInv(c)
        /\ lpc[c].call # "RunAfterLoad" /\ c # Nobody
    BY <1>1, AtInside DEF Inside
  <1>3. PICK w \in Wallets : w = lpc[c].w /\ w = wallet
    BY <1>2 DEF UnloadingInv
  <1>4. UNCHANGED <<localDB, file, ns, callbacks, cbRuns, started, quit, closed, quitMu,
                    wg, gor, starts, pc, panic>>
    BY DEF UnloadClose, storeVars
  <1>5. PICK res \in CloseOutcomes :
          /\ handle' = res[2]
          /\ \/ wallet' = Nobody /\ db' = "nil" /\ made' = made \ {w}
             \/ UNCHANGED <<wallet, db, made>>
          /\ Return(c, res[1])
    BY <1>3 DEF UnloadClose
  <1>6. /\ LpcTypeOK' /\ LOthers(c) /\ mu' = Nobody /\ ret' = res[1] /\ lpc'[c] = NotIn
    BY <1>5, ReturnFacts DEF LoaderInv
  <1>7. res[1] \in {"ok", "error"} /\ handle' \in {handle, "closed", "stuck"}
    BY <1>5, CloseFacts
  <1>8. \A v \in Wallets : Runs(v)' => Runs(v)
    BY <1>4, <1>5 DEF Runs, Live
  <1>9. ~Runs(w)
    BY <1>1, <1>2, <1>3, Ended DEF UnloadingInv, LoaderInv
  <1>10. localDB => \A v \in Wallets : ~Runs(v)'
    <2>1. wallet # Nobody
      BY <1>3, LifecycleAssumption
    <2> QED
      BY <1>2, <1>3, <1>8, <1>9, <2>1 DEF FileInv
  <1>11. FileInv'
    <2>1. DbOpenWhileWalletRuns' /\ OneWalletPerFile'
          /\ (localDB' /\ wallet' # Nobody => \A v \in Wallets : Runs(v)' => v = wallet')
      BY <1>4, <1>10 DEF DbOpenWhileWalletRuns, OneWalletPerFile
    <2>2. handle' \in {"open", "closed", "stuck"} /\ db' \in {"nil", "valid", "bad"}
          /\ (localDB' /\ handle' = "open" => file') /\ wallet' \in Wallets \cup {Nobody}
      BY <1>2, <1>4, <1>5, <1>7 DEF FileInv
    <2>3. ret' \in Outcomes
      BY <1>6, <1>7 DEF Outcomes
    <2> QED
      BY <2>1, <2>2, <2>3, <1>2, <1>4 DEF FileInv
  <1>12. CallbackInv'
    BY <1>4, <1>5, <1>6, NotInFacts, CallbackKept
  <1>13. \A d \in Callers : pc[d] = Idle
    BY <1>1, <1>2 DEF LoaderInv, OutsideInv
  <1>14. LifecycleInv'
    <2>1. WalletsTypeOK'
      BY <1>4, <1>5 DEF LoaderInv, LifecycleInv, WalletsTypeOK
    <2>2. ASSUME NEW v \in Wallets PROVE WalletInv(v)'
      <3>1. Starting(v)' = Starting(v) /\ Selecting(v)' = Selecting(v) /\ Going(v)' = Going(v)
        BY <1>4 DEF Starting, Selecting, Going
      <3> QED
        BY <3>1, <1>4, WalletKept DEF LoaderInv
    <2>3. ASSUME NEW d \in Callers PROVE CallerInv(d)'
      <3>1. pc'[d] = Idle /\ Idle.at = "idle" /\ Idle.call = "none"
        BY <1>4, <1>13 DEF Idle
      <3> QED
        BY <3>1 DEF CallerInv
    <2> QED
      BY <2>1, <2>2, <2>3 DEF LifecycleInv
  <1>15. CloseInv' /\ WokenInv' /\ Others(c) /\ panic' = "none"
    BY <1>4 DEF LoaderInv, CloseInv, WokenInv, Others
  <1>16. OutsideInv(c)' /\ HolderInv(c)'
    BY <1>1, <1>2, <1>4, <1>6, NotInFacts DEF OutsideInv, HolderInv, Outside
  <1> QED
    BY <1>2, <1>6, <1>11, <1>12, <1>14, <1>15, <1>16, Assemble

-----------------------------------------------------------------------------
(* Steps outside the mutex, which may find another caller inside.          *)

\* A caller keeps its part when nothing it reads changes.
LEMMA HolderSame ==
    ASSUME LoaderInv, NEW d \in Callers, lpc'[d] = lpc[d],
           UNCHANGED <<lifecycleVars, mu, wallet, localDB, db, handle>>
    PROVE  OutsideInv(d)' /\ HolderInv(d)'
  <1>1. OutsideInv(d) /\ HolderInv(d)
    BY DEF LoaderInv
  <1>2. \A v \in Wallets : Runs(v)' <=> Runs(v)
    BY WalletPart
  <1>3. pc' = pc /\ quit' = quit /\ closed' = closed /\ wg' = wg
    BY DEF lifecycleVars, walletVars
  <1>4. OutsideInv(d)'
    BY <1>1, <1>3 DEF OutsideInv, Outside
  <1>5. lpc[d].at \in {"update", "openWithRetry", "start", "starting"} => LoadingInv(d)'
    BY <1>1, <1>2, <1>3 DEF HolderInv, LoadingInv, InMethod
  <1>6. lpc[d].at \in {"stop", "wait", "close"} => UnloadingInv(d)'
    BY <1>1, <1>3 DEF HolderInv, UnloadingInv, InMethod
  <1> QED
    BY <1>4, <1>5, <1>6 DEF HolderInv

\* The invariant from its parts, after such a step of caller c.
LEMMA AssembleOutside ==
    ASSUME LoaderInv, NEW c \in Callers, panic = "none",
           UNCHANGED <<lifecycleVars, mu, wallet, localDB, file, ns, db, handle>>,
           LOthers(c), LpcTypeOK', ret' \in Outcomes, CallbackInv',
           OutsideInv(c)', HolderInv(c)'
    PROVE  LoaderInv'
  <1>1. \A d \in Callers : d # c => OutsideInv(d)' /\ HolderInv(d)'
    BY HolderSame DEF LOthers
  <1>2. FileInv'
    BY FileKept DEF LoaderInv, FileInv
  <1>3. LoaderNeverPanics'
    BY DEF LoaderNeverPanics, lifecycleVars
  <1> QED
    BY <1>1, <1>2, <1>3, WalletPart DEF LoaderInv

\* A method is entered.
LEMMA EnterFacts ==
    ASSUME LoaderInv, NEW c \in Callers, NEW f \in Callbacks \cup {Nobody},
           NEW method \in {"Create", "Open", "Unload", "RunAfterLoad"}, Enter(c, method, f)
    PROVE  /\ LOthers(c) /\ LpcTypeOK' /\ lpc[c] = NotIn
           /\ lpc'[c].call = method /\ lpc'[c].at = "lock" /\ lpc'[c].fn = f
           /\ OutsideInv(c)' /\ HolderInv(c)' /\ ret' \in Outcomes
           /\ UNCHANGED <<lifecycleVars, mu, wallet, localDB, file, ns, db, handle, callbacks>>
  <1> DEFINE r == [call |-> method, at |-> "lock", w |-> Nobody, fn |-> f]
  <1>1. r \in LpcType /\ r.call = method /\ r.at = "lock" /\ r.fn = f
    BY DEF LpcType
  <1>2. /\ lpc' = [lpc EXCEPT ![c] = r] /\ lpc[c] = NotIn /\ ret' = "none"
        /\ UNCHANGED <<lifecycleVars, mu, wallet, localDB, file, ns, db, handle, callbacks>>
    BY DEF Enter, storeVars
  <1> HIDE DEF r
  <1>3. LpcTypeOK
    BY DEF LoaderInv
  <1>4. LOthers(c) /\ LpcTypeOK' /\ lpc'[c] = r
    BY <1>1, <1>2, <1>3 DEF LpcTypeOK, LOthers
  <1>5. pc' = pc
    BY <1>2 DEF lifecycleVars
  <1>6. OutsideInv(c) /\ pc[c] = Idle /\ mu # c
    BY <1>2, NotInFacts DEF LoaderInv, OutsideInv, Outside
  <1>7. OutsideInv(c)' /\ HolderInv(c)'
    BY <1>1, <1>2, <1>4, <1>5, <1>6 DEF OutsideInv, HolderInv, Outside
  <1> QED
    BY <1>1, <1>2, <1>4, <1>7 DEF Outcomes

\* Create, Open and UnloadWallet are entered.
LEMMA EnterKept ==
    ASSUME LoaderInv, NEW c \in Callers, panic = "none",
           NEW method \in {"Create", "Open", "Unload"}, Enter(c, method, Nobody),
           UNCHANGED cbRuns
    PROVE  LoaderInv'
  <1>1. /\ LOthers(c) /\ LpcTypeOK' /\ lpc'[c].call = method
        /\ OutsideInv(c)' /\ HolderInv(c)' /\ ret' \in Outcomes
        /\ UNCHANGED <<lifecycleVars, mu, wallet, localDB, file, ns, db, handle, callbacks>>
    BY EnterFacts
  <1>2. CallbackInv'
    BY <1>1, CallbackKept
  <1> QED
    BY <1>1, <1>2, AssembleOutside

\* RunAfterLoad is entered with a function that was not given before.
LEMMA EnterRunKept ==
    ASSUME LoaderInv, NEW c \in Callers, panic = "none", NEW f \in Callbacks,
           cbRuns[f] = -1, Enter(c, "RunAfterLoad", f), cbRuns' = [cbRuns EXCEPT ![f] = 0]
    PROVE  LoaderInv'
  <1>1. /\ LOthers(c) /\ LpcTypeOK' /\ lpc[c] = NotIn
        /\ lpc'[c].call = "RunAfterLoad" /\ lpc'[c].fn = f
        /\ OutsideInv(c)' /\ HolderInv(c)' /\ ret' \in Outcomes
        /\ UNCHANGED <<lifecycleVars, mu, wallet, localDB, file, ns, db, handle, callbacks>>
    BY EnterFacts
  <1>2. CallbackInv
    BY DEF LoaderInv
  <1>3. /\ cbRuns' \in [Callbacks -> -1 .. 1] /\ cbRuns'[f] = 0
        /\ \A g \in Callbacks : g # f => cbRuns'[g] = cbRuns[g]
    BY <1>2 DEF CallbackInv
  <1>4. f \notin Range(callbacks)
    BY <1>2 DEF CallbackInv
  <1>5. Range(callbacks) \subseteq Callbacks
    BY <1>2 DEF CallbackInv, Range
  <1>6. \A d \in Callers : d # c /\ lpc[d].call = "RunAfterLoad" => lpc[d].fn # f
    BY <1>2 DEF CallbackInv
  <1>7. \A d \in Callers : lpc'[d].call = "RunAfterLoad" =>
          /\ lpc'[d].fn \in Callbacks \ Range(callbacks') /\ cbRuns'[lpc'[d].fn] = 0
          /\ \A e \in Callers :
                lpc'[e].call = "RunAfterLoad" /\ lpc'[e].fn = lpc'[d].fn => e = d
    BY <1>1, <1>2, <1>3, <1>4, <1>6 DEF CallbackInv, LOthers
  <1>8. CallbackInv'
    BY <1>1, <1>2, <1>3, <1>4, <1>5, <1>7 DEF CallbackInv
  <1> QED
    BY <1>1, <1>8, AssembleOutside

\* RunAfterLoad puts the function in the list, or leaves to call it.
LEMMA RunAfterLoadKept ==
    ASSUME LoaderInv, NEW c \in Callers, panic = "none", RunAfterLoad(c)
    PROVE  LoaderInv'
  <1>1. /\ mu = Nobody /\ pc[c] = Idle /\ lpc[c].call = "RunAfterLoad" /\ lpc[c].at = "lock"
        /\ FileInv /\ CallbackInv
    BY AtLock DEF RunAfterLoad
  <1>2. UNCHANGED <<lifecycleVars, localDB, file, ns, handle, db, wallet, cbRuns>>
    BY DEF RunAfterLoad, storeVars
  <1>3. CASE /\ wallet # Nobody
             /\ lpc' = [lpc EXCEPT ![c].at = "call", ![c].w = wallet]
             /\ ret' = "none" /\ UNCHANGED <<mu, callbacks>>
    <2> DEFINE r == [lpc[c] EXCEPT !.at = "call", !.w = wallet]
    <2>1. lpc[c] \in LpcType /\ LpcTypeOK /\ wallet \in Wallets
      BY <1>1, <1>3 DEF LoaderInv, LpcTypeOK, FileInv
    <2>2. r \in LpcType /\ r.at = "call" /\ r.call = "RunAfterLoad" /\ r.fn = lpc[c].fn
      BY <1>1, <2>1 DEF LpcType
    <2>3. lpc' = [lpc EXCEPT ![c] = r]
      BY <1>3, <2>1 DEF LpcType
    <2> HIDE DEF r
    <2>4. LpcTypeOK' /\ LOthers(c) /\ lpc'[c] = r
      BY <1>3, <2>1, <2>2, <2>3 DEF LpcTypeOK, LOthers
    <2>5. CallbackInv'
      BY <1>1, <1>2, <1>3, <2>2, <2>4, CallbackKept
    <2>6. pc' = pc /\ c # Nobody
      BY <1>2, LifecycleAssumption DEF lifecycleVars
    <2>7. OutsideInv(c)' /\ HolderInv(c)'
      BY <1>1, <1>3, <2>2, <2>4, <2>6 DEF OutsideInv, HolderInv, Outside
    <2> QED
      BY <1>2, <1>3, <2>4, <2>5, <2>7, AssembleOutside DEF Outcomes
  <1>4. CASE /\ wallet = Nobody
             /\ callbacks' = Append(callbacks, lpc[c].fn) /\ Return(c, "ok")
    <2>1. ret' = "ok" /\ LOthers(c) /\ lpc'[c] = NotIn
      BY <1>4, ReturnFacts DEF LoaderInv
    <2>2. FileInv'
      BY <1>1, <1>2, <2>1, FileKept DEF FileInv, Outcomes
    <2>3. /\ lpc[c].fn \in Callbacks \ Range(callbacks) /\ cbRuns[lpc[c].fn] = 0
          /\ callbacks \in Seq(Callbacks)
      BY <1>1 DEF CallbackInv
    <2>4. callbacks' \in Seq(Callbacks) /\ Range(callbacks') = Range(callbacks) \cup {lpc[c].fn}
      <3>1. callbacks' \in Seq(Callbacks) /\ Len(callbacks') = Len(callbacks) + 1
            /\ DOMAIN callbacks' = 1 .. Len(callbacks) + 1 /\ DOMAIN callbacks = 1 .. Len(callbacks)
            /\ Len(callbacks) \in Nat
            /\ callbacks'[Len(callbacks) + 1] = lpc[c].fn
            /\ \A i \in 1 .. Len(callbacks) : callbacks'[i] = callbacks[i]
        BY <1>4, <2>3
      <3> QED
        BY <3>1 DEF Range
    <2>5. \A d \in Callers : lpc'[d].call = "RunAfterLoad" => d # c /\ lpc'[d] = lpc[d]
      BY <2>1, NotInFacts DEF LOthers
    <2>6. \A d \in Callers : lpc'[d].call = "RunAfterLoad" =>
            /\ lpc'[d].fn \in Callbacks \ Range(callbacks') /\ cbRuns'[lpc'[d].fn] = 0
            /\ \A e \in Callers :
                  lpc'[e].call = "RunAfterLoad" /\ lpc'[e].fn = lpc'[d].fn => e = d
      BY <1>1, <1>2, <2>4, <2>5 DEF CallbackInv
    <2>7. CallbackInv'
      BY <1>1, <1>2, <1>4, <2>3, <2>4, <2>6 DEF CallbackInv
    <2> QED
      BY <1>1, <1>2, <1>4, <2>2, <2>7, StepReturns
  <1> QED
    BY <1>3, <1>4 DEF RunAfterLoad

\* RunAfterLoad calls the function, once.
LEMMA RunAfterLoadCallsKept ==
    ASSUME LoaderInv, NEW c \in Callers, panic = "none", RunAfterLoadCalls(c)
    PROVE  LoaderInv'
  <1>1. /\ lpc[c].call = "RunAfterLoad" /\ lpc[c].at = "call"
        /\ cbRuns' = [cbRuns EXCEPT ![lpc[c].fn] = @ + 1]
        /\ lpc' = [lpc EXCEPT ![c] = NotIn] /\ ret' = "ok"
        /\ UNCHANGED <<lifecycleVars, mu, wallet, localDB, file, ns, db, handle, callbacks>>
    BY DEF RunAfterLoadCalls, At, storeVars
  <1>2. LpcTypeOK /\ CallbackInv /\ OutsideInv(c) /\ pc[c] = Idle /\ mu # c
    BY <1>1 DEF LoaderInv, OutsideInv, Outside
  <1>3. LpcTypeOK' /\ LOthers(c) /\ lpc'[c] = NotIn
    BY <1>1, <1>2, NotInFacts DEF LpcTypeOK, LOthers
  <1>4. lpc[c].fn \in Callbacks \ Range(callbacks) /\ cbRuns[lpc[c].fn] = 0
        /\ cbRuns \in [Callbacks -> -1 .. 1]
    BY <1>1, <1>2 DEF CallbackInv
  <1>5. cbRuns' \in [Callbacks -> -1 .. 1]
        /\ \A f \in Callbacks : f # lpc[c].fn => cbRuns'[f] = cbRuns[f]
    BY <1>1, <1>4
  <1>6. Range(callbacks) \subseteq Callbacks
    BY <1>2 DEF CallbackInv, Range
  <1>7. \A d \in Callers : lpc'[d].call = "RunAfterLoad" =>
            d # c /\ lpc'[d] = lpc[d] /\ lpc[d].fn # lpc[c].fn
    BY <1>1, <1>2, <1>3, NotInFacts DEF LOthers, CallbackInv
  <1>8. \A d \in Callers : lpc'[d].call = "RunAfterLoad" =>
          /\ lpc'[d].fn \in Callbacks \ Range(callbacks') /\ cbRuns'[lpc'[d].fn] = 0
          /\ \A e \in Callers :
                lpc'[e].call = "RunAfterLoad" /\ lpc'[e].fn = lpc'[d].fn => e = d
    BY <1>1, <1>2, <1>5, <1>7 DEF CallbackInv
  <1>9. CallbackInv'
    BY <1>1, <1>2, <1>4, <1>5, <1>6, <1>8 DEF CallbackInv
  <1>10. pc' = pc
    BY <1>1 DEF lifecycleVars
  <1>11. OutsideInv(c)' /\ HolderInv(c)'
    BY <1>1, <1>2, <1>3, <1>10, NotInFacts DEF OutsideInv, HolderInv, Outside
  <1> QED
    BY <1>1, <1>3, <1>9, <1>11, AssembleOutside DEF Outcomes

-----------------------------------------------------------------------------
(* Steps inside a method of a Wallet.                                      *)

\* A step inside Start changes what its own Wallet runs, and no other.
LEMMA StartSteps ==
    ASSUME LifecycleInv, NEW c \in Callers, pc[c].call = "Start", CallerStep(c),
           pc[c].at = "woken" => wg[pc[c].w] = 0
    PROVE  /\ Others(c) /\ panic' = panic /\ pc'[c].at # "woken"
           /\ pc'[c] = Idle \/ (pc'[c].call = "Start" /\ pc'[c].w = pc[c].w)
           /\ \A v \in Wallets : v # pc[c].w => (Runs(v)' <=> Runs(v))
  <1>1. pc[c] \in PcType /\ CallerInv(c) /\ WalletsTypeOK
    BY CallerAt DEF LifecycleInv
  <1>2. PICK w \in Wallets : w = pc[c].w
    BY CallerAt
  <1>3. ASSUME NEW a \in {"wait", "add", "go", "asleep"}, Goes(c, a)
        PROVE  /\ Others(c) /\ pc'[c].at = a
               /\ pc'[c].call = "Start" /\ pc'[c].w = w
    BY <1>1, <1>2, <1>3 DEF Goes, Others, WalletsTypeOK, PcType
  <1>4. ASSUME Returns(c) PROVE Others(c) /\ pc'[c] = Idle /\ Idle.at = "idle"
    BY <1>1, <1>4 DEF Returns, Others, WalletsTypeOK, Idle
  <1>5. ASSUME NEW v \in Wallets, started'[v] = started[v], quit'[v] = quit[v],
               gor'[v] = gor[v], UNCHANGED <<made, closed>>
        PROVE  Runs(v)' <=> Runs(v)
    BY <1>5 DEF Runs, Live
  <1>6. CASE StartSelect(c)
    <2>1. /\ Goes(c, "wait") \/ Goes(c, "add") \/ Returns(c)
          /\ UNCHANGED <<made, quit, closed, gor, panic>>
          /\ started' = started \/ started' = [started EXCEPT ![w] = TRUE]
      BY <1>2, <1>6 DEF StartSelect
    <2>2. \A v \in Wallets : v # w => started'[v] = started[v]
      BY <1>1, <2>1 DEF WalletsTypeOK
    <2> QED
      BY <1>2, <1>3, <1>4, <1>5, <2>1, <2>2
  <1>7. CASE StartAdd(c)
    <2>1. Goes(c, "go") /\ UNCHANGED <<made, started, quit, closed, gor, panic>>
      BY <1>7 DEF StartAdd
    <2> QED
      BY <1>2, <1>3, <1>5, <2>1
  <1>8. CASE StartGo(c)
    <2>1. Returns(c) /\ UNCHANGED <<made, started, quit, closed, panic>>
      BY <1>8 DEF StartGo
    <2>2. \A v \in Wallets : v # w => gor'[v] = gor[v]
      BY <1>1, <1>2, <1>8 DEF StartGo, WalletsTypeOK
    <2> QED
      BY <1>2, <1>4, <1>5, <2>1, <2>2
  <1>9. CASE WaitForShutdown(c) \/ WaitWakes(c)
    <2>1. /\ Goes(c, "add") \/ Goes(c, "asleep")
          /\ UNCHANGED <<made, started, closed, gor, panic>>
          /\ quit' = quit \/ quit' = [quit EXCEPT ![w] = @ + 1]
      BY <1>2, <1>9 DEF WaitForShutdown, WaitWakes, WaitReturns, walletVars
    <2>2. \A v \in Wallets : v # w => quit'[v] = quit[v]
      BY <1>1, <2>1 DEF WalletsTypeOK
    <2> QED
      BY <1>2, <1>3, <1>5, <2>1, <2>2
  <1>10. ~StopQuitChan(c) /\ ~StopSelect(c) /\ ~StopClose(c)
    BY <1>1 DEF StopQuitChan, StopSelect, StopClose, CallerInv
  <1> QED
    BY <1>6, <1>7, <1>8, <1>9, <1>10 DEF CallerStep

\* A step inside Stop: it returns when the channel it read is closed.
LEMMA StopSteps ==
    ASSUME LifecycleInv, CloseInv, NEW c \in Callers, pc[c].call = "Stop", CallerStep(c),
           NEW w \in Wallets, w = pc[c].w,
           pc[c].at \in {"select", "close"} => pc[c].ch = quit[w]
    PROVE  /\ Others(c) /\ panic' = panic /\ pc'[c].at # "woken"
           /\ UNCHANGED <<made, started, quit, quitMu, wg, gor>>
           /\ \A v \in Wallets : closed[v] \subseteq closed'[v]
           /\ \/ pc'[c] = Idle /\ quit[w] \in closed'[w]
              \/ /\ pc'[c].call = "Stop" /\ pc'[c].w = w /\ pc'[c] # Idle
                 /\ pc'[c].at \in {"select", "close"} => pc'[c].ch = quit[w]
  <1>1. pc[c] \in PcType /\ CallerInv(c) /\ WalletsTypeOK /\ Idle.at = "idle"
    BY CallerAt DEF LifecycleInv, Idle
  <1>2. CASE StopQuitChan(c)
    <2> DEFINE r == [pc[c] EXCEPT !.at = "select", !.ch = quit[w]]
    <2>1. r.at = "select" /\ r.call = "Stop" /\ r.w = w /\ r.ch = quit[w]
      BY <1>1 DEF PcType
    <2>2. pc' = [pc EXCEPT ![c] = r] /\ UNCHANGED <<made, started, quit, closed, quitMu, wg, gor, panic>>
      BY <1>1, <1>2 DEF StopQuitChan, PcType, walletVars
    <2> HIDE DEF r
    <2>3. Others(c) /\ pc'[c] = r
      BY <1>1, <2>2 DEF Others, WalletsTypeOK
    <2> QED
      BY <1>1, <2>1, <2>2, <2>3
  <1>3. CASE StopSelect(c)
    <2>1. pc[c].ch = quit[w] /\ UNCHANGED <<made, started, quit, closed, quitMu, wg, gor, panic>>
      BY <1>3 DEF StopSelect, walletVars
    <2>2. CASE pc[c].ch \in closed[w] /\ Returns(c)
      <3>1. Others(c) /\ pc'[c] = Idle
        BY <2>2, <1>1 DEF Returns, Others, WalletsTypeOK
      <3> QED
        BY <1>1, <2>1, <2>2, <3>1
    <2>3. CASE Goes(c, "close")
      <3> DEFINE r == [pc[c] EXCEPT !.at = "close"]
      <3>1. r.at = "close" /\ r.call = "Stop" /\ r.w = w /\ r.ch = quit[w]
        BY <1>1, <2>1 DEF PcType
      <3>2. pc' = [pc EXCEPT ![c] = r]
        BY <2>3 DEF Goes
      <3> HIDE DEF r
      <3>3. Others(c) /\ pc'[c] = r
        BY <1>1, <3>2 DEF Others, WalletsTypeOK
      <3> QED
        BY <1>1, <2>1, <3>1, <3>3
    <2> QED
      BY <1>3, <2>2, <2>3 DEF StopSelect
  <1>4. CASE StopClose(c)
    <2>1. pc[c].at = "close" /\ pc[c].ch \notin closed[w] /\ pc[c].ch = quit[w]
      BY <1>4 DEF StopClose, CloseInv
    <2>2. /\ closed' = [closed EXCEPT ![w] = @ \cup {quit[w]}] /\ Returns(c)
          /\ UNCHANGED <<made, started, quit, quitMu, wg, gor, panic>>
      BY <1>4, <2>1 DEF StopClose
    <2>3. quit[w] \in closed'[w] /\ \A v \in Wallets : closed[v] \subseteq closed'[v]
      BY <1>1, <2>2 DEF WalletsTypeOK
    <2>4. Others(c) /\ pc'[c] = Idle
      BY <2>2, <1>1 DEF Returns, Others, WalletsTypeOK
    <2> QED
      BY <1>1, <2>2, <2>3, <2>4
  <1>5. /\ ~StartSelect(c) /\ ~StartAdd(c) /\ ~StartGo(c)
        /\ ~WaitForShutdown(c) /\ ~WaitWakes(c)
    BY <1>1 DEF StartSelect, StartAdd, StartGo, WaitForShutdown, WaitWakes, CallerInv
  <1> QED
    BY <1>2, <1>3, <1>4, <1>5 DEF CallerStep

\* A step inside WaitForShutdown: it returns when the counter is zero.
LEMMA WaitSteps ==
    ASSUME LifecycleInv, NEW c \in Callers, pc[c].call = "WaitForShutdown", CallerStep(c),
           NEW w \in Wallets, w = pc[c].w, pc[c].at = "woken" => wg[w] = 0
    PROVE  /\ Others(c) /\ panic' = panic /\ pc'[c].at # "woken"
           /\ UNCHANGED <<made, started, quit, closed, quitMu, wg, gor>>
           /\ \/ pc'[c] = Idle /\ wg[w] = 0
              \/ pc'[c].call = "WaitForShutdown" /\ pc'[c].w = w /\ pc'[c] # Idle
  <1>1. pc[c] \in PcType /\ CallerInv(c) /\ WalletsTypeOK /\ Idle.at = "idle"
    BY CallerAt DEF LifecycleInv, Idle
  <1>2. /\ ~StartSelect(c) /\ ~StartAdd(c) /\ ~StartGo(c)
        /\ ~StopQuitChan(c) /\ ~StopSelect(c) /\ ~StopClose(c)
    BY <1>1 DEF StartSelect, StartAdd, StartGo, StopQuitChan, StopSelect, StopClose, CallerInv
  <1>3. /\ UNCHANGED <<made, started, quit, closed, quitMu, wg, gor, panic>>
        /\ (Returns(c) /\ wg[w] = 0) \/ Goes(c, "asleep")
    BY <1>2 DEF CallerStep, WaitForShutdown, WaitWakes, WaitReturns, walletVars
  <1>4. CASE Returns(c) /\ wg[w] = 0
    <2>1. Others(c) /\ pc'[c] = Idle
      BY <1>4, <1>1 DEF Returns, Others, WalletsTypeOK
    <2> QED
      BY <1>1, <1>3, <1>4, <2>1
  <1>5. CASE Goes(c, "asleep")
    <2> DEFINE r == [pc[c] EXCEPT !.at = "asleep"]
    <2>1. r.at = "asleep" /\ r.call = "WaitForShutdown" /\ r.w = w
      BY <1>1 DEF PcType
    <2>2. pc' = [pc EXCEPT ![c] = r]
      BY <1>5 DEF Goes
    <2> HIDE DEF r
    <2>3. Others(c) /\ pc'[c] = r
      BY <1>1, <2>2 DEF Others, WalletsTypeOK
    <2> QED
      BY <1>1, <1>3, <2>1, <2>3
  <1> QED
    BY <1>3, <1>4, <1>5

\* A caller inside a method of a Wallet has the mutex, and is in one of three
\* places; nobody else is inside one.
LEMMA InWallet ==
    ASSUME LoaderInv, NEW c \in Callers, pc[c] # Idle
    PROVE  /\ mu = c /\ OneStop /\ c # Nobody
           /\ \A d \in Callers : d # c => pc[d] = Idle
           /\ \/ lpc[c].at = "starting" /\ LoadingInv(c) /\ pc[c].call = "Start"
              \/ lpc[c].at = "wait" /\ UnloadingInv(c) /\ pc[c].call = "Stop"
              \/ lpc[c].at = "close" /\ UnloadingInv(c) /\ pc[c].call = "WaitForShutdown"
           /\ pc[c].w = lpc[c].w /\ lpc[c].w \in Wallets
  <1>1. OutsideInv(c) /\ HolderInv(c) /\ mu = c /\ lpc[c] \in LpcType /\ c # Nobody
    BY LifecycleAssumption DEF LoaderInv, OutsideInv, LpcTypeOK
  <1>2. \A d \in Callers : d # c => pc[d] = Idle
    BY <1>1 DEF LoaderInv, OutsideInv
  <1>3. OneStop
    BY <1>2 DEF OneStop, Idle
  <1>4. lpc[c].at \in Inside
    BY <1>1 DEF OutsideInv, Outside, LpcType, Inside
  <1>5. CASE lpc[c].at \in {"update", "openWithRetry", "start", "starting"}
    BY <1>1, <1>2, <1>3, <1>5 DEF HolderInv, LoadingInv, InMethod
  <1>6. CASE lpc[c].at \in {"stop", "wait", "close"}
    BY <1>1, <1>2, <1>3, <1>6 DEF HolderInv, UnloadingInv, InMethod
  <1> QED
    BY <1>4, <1>5, <1>6 DEF Inside

\* A caller step starts inside a method.
LEMMA CallerBusy ==
    ASSUME NEW c \in Callers, CallerStep(c)
    PROVE  pc[c] # Idle
  BY DEF CallerStep, StartSelect, StartAdd, StartGo, StopQuitChan, StopSelect, StopClose,
         WaitForShutdown, WaitWakes, Idle

\* A step inside a method of a Wallet keeps the loader's invariant.
LEMMA WalletStepKept ==
    ASSUME LoaderInv, NEW c \in Callers, panic = "none", CallerStep(c), UNCHANGED loaderVars
    PROVE  LoaderInv'
  <1>1. /\ mu = c /\ OneStop /\ c # Nobody
        /\ \A d \in Callers : d # c => pc[d] = Idle
        /\ \/ lpc[c].at = "starting" /\ LoadingInv(c) /\ pc[c].call = "Start"
           \/ lpc[c].at = "wait" /\ UnloadingInv(c) /\ pc[c].call = "Stop"
           \/ lpc[c].at = "close" /\ UnloadingInv(c) /\ pc[c].call = "WaitForShutdown"
        /\ pc[c].w = lpc[c].w /\ lpc[c].w \in Wallets
    BY CallerBusy, InWallet
  <1>2. PICK w \in Wallets : w = pc[c].w /\ w = lpc[c].w
    BY <1>1
  <1>3. /\ LifecycleInv /\ CloseInv /\ FileInv /\ CallbackInv /\ LpcTypeOK /\ OutsideInv(c)
        /\ pc[c].at = "woken" => wg[w] = 0
    BY <1>2 DEF LoaderInv, WokenInv
  <1>4. LifecycleInv' /\ CloseInv'
    BY <1>1, <1>3, CallerStepKept, CallerStepCloses
  <1>5. UNCHANGED <<localDB, file, ns, handle, db, mu, wallet, callbacks, cbRuns, lpc, ret>>
    BY DEF loaderVars, storeVars
  <1>6. LOthers(c) /\ LpcTypeOK' /\ CallbackInv'
    BY <1>3, <1>5 DEF LOthers, LpcTypeOK, CallbackInv
  <1>7. OutsideInv(c)'
    BY <1>1, <1>3, <1>5 DEF OutsideInv, Outside
  <1>8. ASSUME Others(c), pc'[c].at # "woken" PROVE WokenInv'
    BY <1>1, <1>8 DEF WokenInv, Others, Idle
  <1>9. CASE lpc[c].at = "starting"
    <2>1. LoadingInv(c) /\ pc[c].call = "Start"
      BY <1>1, <1>9
    <2>2. /\ Others(c) /\ panic' = panic /\ pc'[c].at # "woken"
          /\ pc'[c] = Idle \/ (pc'[c].call = "Start" /\ pc'[c].w = w)
          /\ \A v \in Wallets : v # w => (Runs(v)' <=> Runs(v))
      BY <1>2, <1>3, <2>1, StartSteps
    <2>3. localDB => handle = "open" /\ \A v \in Wallets : Runs(v)' => v = w
      BY <1>2, <1>9, <2>1, <2>2 DEF LoadingInv
    <2>4. FileInv'
      <3>1. DbOpenWhileWalletRuns' /\ OneWalletPerFile'
        BY <1>5, <2>3 DEF DbOpenWhileWalletRuns, OneWalletPerFile
      <3>2. wallet' = Nobody
        BY <1>5, <2>1 DEF LoadingInv
      <3> QED
        BY <1>3, <1>5, <3>1, <3>2 DEF FileInv
    <2>5. HolderInv(c)'
      BY <1>2, <1>5, <1>9, <2>1, <2>2, <2>3 DEF HolderInv, LoadingInv, InMethod
    <2> QED
      BY <1>1, <1>4, <1>5, <1>6, <1>7, <1>8, <2>2, <2>4, <2>5, Assemble
  <1>10. CASE lpc[c].at = "wait"
    <2>1. UnloadingInv(c) /\ pc[c].call = "Stop" /\ wallet = w /\ lpc[c].call = "Unload"
      BY <1>1, <1>2, <1>10 DEF UnloadingInv
    <2>2. pc[c].at \in {"select", "close"} => pc[c].ch = quit[w]
      BY <1>2, <1>10, <2>1 DEF UnloadingInv
    <2>3. /\ Others(c) /\ panic' = panic /\ pc'[c].at # "woken"
          /\ UNCHANGED <<made, started, quit, quitMu, wg, gor>>
          /\ \A v \in Wallets : closed[v] \subseteq closed'[v]
          /\ \/ pc'[c] = Idle /\ quit[w] \in closed'[w]
             \/ /\ pc'[c].call = "Stop" /\ pc'[c].w = w /\ pc'[c] # Idle
                /\ pc'[c].at \in {"select", "close"} => pc'[c].ch = quit[w]
      BY <1>2, <1>3, <2>1, <2>2, StopSteps
    <2>4. \A v \in Wallets : Runs(v)' => Runs(v)
      BY <2>3 DEF Runs, Live
    <2>5. FileInv'
      <3>1. DbOpenWhileWalletRuns' /\ OneWalletPerFile'
            /\ (localDB' /\ wallet' # Nobody => \A v \in Wallets : Runs(v)' => v = wallet')
        BY <1>3, <1>5, <2>4 DEF FileInv, DbOpenWhileWalletRuns, OneWalletPerFile
      <3> QED
        BY <1>3, <1>5, <3>1 DEF FileInv
    <2>6. Idle.at = "idle"
      BY DEF Idle
    <2>7. HolderInv(c)'
      BY <1>2, <1>5, <1>10, <2>1, <2>3, <2>6 DEF HolderInv, UnloadingInv, InMethod
    <2> QED
      BY <1>1, <1>4, <1>5, <1>6, <1>7, <1>8, <2>3, <2>5, <2>7, Assemble
  <1>11. CASE lpc[c].at = "close"
    <2>1. UnloadingInv(c) /\ pc[c].call = "WaitForShutdown" /\ wallet = w
          /\ lpc[c].call = "Unload" /\ quit[w] \in closed[w]
      BY <1>1, <1>2, <1>11 DEF UnloadingInv
    <2>2. /\ Others(c) /\ panic' = panic /\ pc'[c].at # "woken"
          /\ UNCHANGED <<made, started, quit, closed, quitMu, wg, gor>>
          /\ \/ pc'[c] = Idle /\ wg[w] = 0
             \/ pc'[c].call = "WaitForShutdown" /\ pc'[c].w = w /\ pc'[c] # Idle
      BY <1>2, <1>3, <2>1, WaitSteps
    <2>3. \A v \in Wallets : Runs(v)' <=> Runs(v)
      BY <2>2, RunsKept
    <2>4. FileInv'
      <3>1. DbOpenWhileWalletRuns' /\ OneWalletPerFile'
            /\ (localDB' /\ wallet' # Nobody => \A v \in Wallets : Runs(v)' => v = wallet')
        BY <1>3, <1>5, <2>3 DEF FileInv, DbOpenWhileWalletRuns, OneWalletPerFile
      <3> QED
        BY <1>3, <1>5, <3>1 DEF FileInv
    <2>5. HolderInv(c)'
      BY <1>2, <1>5, <1>11, <2>1, <2>2 DEF HolderInv, UnloadingInv, InMethod
    <2> QED
      BY <1>1, <1>4, <1>5, <1>6, <1>7, <1>8, <2>2, <2>4, <2>5, Assemble
  <1> QED
    BY <1>1, <1>9, <1>10, <1>11

-----------------------------------------------------------------------------
(* Steps of the goroutines.                                                *)

\* A goroutine reads its channel, or ends and may wake waiters at zero.
LEMMA GoroutineFacts ==
    ASSUME LifecycleInv, NEW w \in Wallets, NEW g \in Goroutines, GoroutineStep(w, g)
    PROVE  /\ UNCHANGED <<made, started, quit, closed, quitMu, panic>>
           /\ \A v \in Wallets : Live(v)' \subseteq Live(v)
           /\ \A v \in Wallets : wg[v] = 0 => wg'[v] = 0
           /\ \A d \in Callers :
                 \/ pc'[d] = pc[d]
                 \/ /\ pc[d].at = "asleep" /\ pc'[d].at = "woken"
                    /\ pc'[d].call = pc[d].call /\ pc'[d].w = pc[d].w
                    /\ wg'[pc[d].w] = 0
  <1>1. WalletsTypeOK /\ WalletInv(w)
    BY DEF LifecycleInv
  <1>2. CASE quitChan(w, g)
    <2>1. /\ UNCHANGED <<made, started, quit, closed, quitMu, wg, panic, pc>>
          /\ gor[w][g].st = "born"
          /\ gor' = [gor EXCEPT ![w][g] = [st |-> "waiting", ch |-> quit[w]]]
      BY <1>2 DEF quitChan
    <2>2. g \in Live(w)
      BY <2>1 DEF Live
    <2>3. \A v \in Wallets, h \in Goroutines : v # w \/ h # g => gor'[v][h] = gor[v][h]
      BY <1>1, <2>1 DEF WalletsTypeOK
    <2>4. \A v \in Wallets : Live(v)' \subseteq Live(v)
      BY <2>2, <2>3 DEF Live
    <2> QED
      BY <2>1, <2>4
  <1>3. CASE Quit(w, g)
    <2>1. /\ UNCHANGED <<made, started, quit, closed, quitMu, panic>>
          /\ gor[w][g].st = "waiting"
          /\ gor' = [gor EXCEPT ![w][g].st = "done"]
          /\ wg' = [wg EXCEPT ![w] = @ - 1]
      BY <1>3 DEF Quit
    <2>2. g \in Live(w)
      BY <2>1 DEF Live
    <2>3. \A v \in Wallets, h \in Goroutines : v # w \/ h # g => gor'[v][h] = gor[v][h]
      BY <1>1, <2>1 DEF WalletsTypeOK
    <2>4. \A v \in Wallets : Live(v)' \subseteq Live(v)
      BY <2>2, <2>3 DEF Live
    <2>5. wg[w] \in Nat \ {0} /\ wg'[w] = wg[w] - 1
          /\ \A v \in Wallets : v # w => wg'[v] = wg[v]
      <3>1. Cardinality(Live(w)) \in Nat \ {0} /\ Cardinality(Going(w)) \in Nat
        BY <2>2, FinitelyMany, CountOut
      <3>2. wg[w] \in Nat \ {0}
        BY <1>1, <3>1 DEF WalletInv
      <3>3. wg \in [Wallets -> Nat] /\ wg' = [wg EXCEPT ![w] = wg[w] - 1]
        BY <1>1, <2>1 DEF WalletsTypeOK
      <3> QED
        BY <3>2, <3>3
    <2>6. \A d \in Callers :
                 \/ pc'[d] = pc[d]
                 \/ /\ pc[d].at = "asleep" /\ pc'[d].at = "woken"
                    /\ pc'[d].call = pc[d].call /\ pc'[d].w = pc[d].w
                    /\ wg'[pc[d].w] = 0
      <3> TAKE d \in Callers
      <3>1. pc[d] \in PcType
        BY <1>1 DEF WalletsTypeOK
      <3>2. \/ pc'[d] = pc[d]
            \/ /\ pc[d].at = "asleep" /\ pc[d].w = w /\ wg[w] = 1
               /\ pc'[d] = [pc[d] EXCEPT !.at = "woken"]
        BY <1>3 DEF Quit
      <3>3. [pc[d] EXCEPT !.at = "woken"].at = "woken"
            /\ [pc[d] EXCEPT !.at = "woken"].call = pc[d].call
            /\ [pc[d] EXCEPT !.at = "woken"].w = pc[d].w
        BY <3>1 DEF PcType
      <3>4. wg[w] = 1 => wg'[w] = 0
        BY <2>5
      <3>5. CASE pc'[d] = pc[d]
        BY <3>5
      <3>6. CASE pc'[d] # pc[d]
        <4>1. pc[d].at = "asleep" /\ pc[d].w = w /\ wg'[w] = 0
              /\ pc'[d] = [pc[d] EXCEPT !.at = "woken"]
          BY <3>2, <3>4, <3>6
        <4> QED
          BY <3>3, <4>1
      <3> QED
        BY <3>5, <3>6
    <2> QED
      BY <2>1, <2>4, <2>5, <2>6
  <1> QED
    BY <1>2, <1>3 DEF GoroutineStep

\* A goroutine's step keeps the loader's invariant: what has ended stays so.
LEMMA RunningGoroutineKept ==
    ASSUME LoaderInv, NEW w \in Wallets, NEW g \in Goroutines, RunningGoroutine(w, g)
    PROVE  LoaderInv'
  <1>1. /\ panic = "none" /\ GoroutineStep(w, g)
        /\ UNCHANGED <<localDB, file, ns, handle, db, mu, wallet, callbacks, cbRuns, lpc, ret>>
    BY DEF RunningGoroutine, loaderVars, storeVars
  <1>2. LifecycleInv /\ CloseInv /\ WokenInv /\ FileInv /\ CallbackInv /\ LpcTypeOK
        /\ WalletsTypeOK
    BY DEF LoaderInv, LifecycleInv
  <1>3. LifecycleInv' /\ CloseInv'
    BY <1>1, <1>2, GoroutineStepKept, GoroutineStepCloses
  <1>4. /\ UNCHANGED <<made, started, quit, closed, quitMu, panic>>
        /\ \A v \in Wallets : Live(v)' \subseteq Live(v)
        /\ \A v \in Wallets : wg[v] = 0 => wg'[v] = 0
        /\ \A d \in Callers :
              \/ pc'[d] = pc[d]
              \/ /\ pc[d].at = "asleep" /\ pc'[d].at = "woken"
                 /\ pc'[d].call = pc[d].call /\ pc'[d].w = pc[d].w
                 /\ wg'[pc[d].w] = 0
    BY <1>1, <1>2, GoroutineFacts
  <1>5. WokenInv'
    <2> SUFFICES ASSUME NEW d \in Callers, pc'[d].at = "woken" PROVE wg'[pc'[d].w] = 0
      BY DEF WokenInv
    <2>1. CASE pc'[d] = pc[d]
      <3>1. wg[pc[d].w] = 0 /\ pc[d].w \in Wallets
        BY <1>2, <2>1, CallerAt DEF WokenInv
      <3> QED
        BY <1>4, <2>1, <3>1
    <2>2. CASE pc'[d] # pc[d]
      BY <1>4, <2>2
    <2> QED
      BY <2>1, <2>2
  <1>6. \A v \in Wallets : Runs(v)' => Runs(v)
    BY <1>4 DEF Runs
  <1>7. FileInv'
    <2>1. DbOpenWhileWalletRuns' /\ OneWalletPerFile'
          /\ (localDB' /\ wallet' # Nobody => \A v \in Wallets : Runs(v)' => v = wallet')
      BY <1>1, <1>2, <1>6 DEF FileInv, DbOpenWhileWalletRuns, OneWalletPerFile
    <2> QED
      BY <1>1, <1>2, <2>1 DEF FileInv
  <1>8. CallbackInv' /\ LpcTypeOK' /\ LoaderNeverPanics'
    BY <1>1, <1>2, <1>4 DEF CallbackInv, LpcTypeOK, LoaderNeverPanics
  <1>9. ASSUME NEW d \in Callers PROVE OutsideInv(d)' /\ HolderInv(d)'
    <2>1. OutsideInv(d) /\ HolderInv(d) /\ Idle.at = "idle"
      BY DEF LoaderInv, Idle
    <2>2. pc[d] = Idle <=> pc'[d] = Idle
      BY <1>4, <2>1
    <2>3. /\ pc'[d].call = pc[d].call /\ pc'[d].w = pc[d].w
          /\ pc'[d].at \in {"select", "close"} => pc'[d] = pc[d]
      BY <1>4
    <2>4. OutsideInv(d)'
      BY <1>1, <2>1, <2>2 DEF OutsideInv, Outside
    <2>5. lpc[d].at \in {"update", "openWithRetry", "start", "starting"} => LoadingInv(d)'
      BY <1>1, <1>6, <2>1, <2>2, <2>3 DEF HolderInv, LoadingInv, InMethod
    <2>6. lpc[d].at \in {"stop", "wait", "close"} => UnloadingInv(d)'
      BY <1>1, <1>4, <2>1, <2>2, <2>3 DEF HolderInv, UnloadingInv, InMethod
    <2> QED
      BY <1>1, <2>4, <2>5, <2>6 DEF HolderInv
  <1> QED
    BY <1>3, <1>5, <1>7, <1>8, <1>9 DEF LoaderInv

-----------------------------------------------------------------------------
(* Every step, and what follows.                                           *)

\* A new Loader in a new process, whatever files there are.
NewLoader ==
    /\ localDB \in BOOLEAN /\ file \in BOOLEAN /\ ns \in BOOLEAN
    /\ handle = "closed" /\ db = NewDb
    /\ mu = Nobody /\ wallet = Nobody
    /\ callbacks = <<>> /\ cbRuns = NotGiven
    /\ lpc = NoCall /\ ret = "none"
    /\ LifecycleInit

\* A new Loader has the invariant.
LEMMA NewLoaderInv == NewLoader => LoaderInv
  <1> SUFFICES ASSUME NewLoader PROVE LoaderInv
    OBVIOUS
  <1>1. /\ localDB \in BOOLEAN /\ file \in BOOLEAN /\ ns \in BOOLEAN
        /\ handle = "closed" /\ db = NewDb /\ mu = Nobody /\ wallet = Nobody
        /\ callbacks = <<>> /\ cbRuns = NotGiven /\ lpc = NoCall /\ ret = "none"
        /\ LifecycleInit
    BY DEF NewLoader
  <1>2. LifecycleInv
    BY <1>1, LifecycleInitInv
  <1>3. \A c \in Callers : pc[c] = Idle /\ Idle.at = "idle" /\ lpc[c] = NotIn /\ c # Nobody
    BY <1>1, LifecycleAssumption DEF LifecycleInit, NoCall, Idle
  <1>4. CloseInv /\ WokenInv
    BY <1>3 DEF CloseInv, WokenInv
  <1>5. LpcTypeOK
    BY <1>1, NotInFacts DEF LpcTypeOK, NoCall
  <1>6. \A v \in Wallets : ~Runs(v)
    <2> TAKE v \in Wallets
    <2>1. Live(v) = {}
      BY <1>1 DEF LifecycleInit, Live, Unborn
    <2> QED
      BY <1>1, <2>1 DEF Runs, LifecycleInit
  <1>7. FileInv
    <2>1. DbOpenWhileWalletRuns /\ OneWalletPerFile
      BY <1>6 DEF DbOpenWhileWalletRuns, OneWalletPerFile
    <2> QED
      BY <1>1, <2>1 DEF FileInv, NewDb, Outcomes
  <1>8. CallbackInv
    <2>1. Range(callbacks) = {} /\ callbacks \in Seq(Callbacks)
      BY <1>1 DEF Range
    <2>2. cbRuns \in [Callbacks -> -1 .. 1]
      BY <1>1 DEF NotGiven
    <2> QED
      BY <1>1, <1>3, <2>1, <2>2, NotInFacts DEF CallbackInv
  <1>9. LoaderNeverPanics
    BY <1>1 DEF LoaderNeverPanics, LifecycleInit
  <1>10. \A c \in Callers : OutsideInv(c) /\ HolderInv(c)
    BY <1>1, <1>3, NotInFacts DEF OutsideInv, HolderInv, Outside
  <1> QED
    BY <1>2, <1>4, <1>5, <1>7, <1>8, <1>9, <1>10 DEF LoaderInv

\* The process ends and another one starts.
LEMMA CrashKept ==
    ASSUME LoaderInv, Crash
    PROVE  LoaderInv'
  <1>1. UNCHANGED <<localDB, file, ns>> /\ FileInv
    BY DEF Crash, storeVars, LoaderInv
  <1>2. LifecycleInit'
    BY DEF Crash, ProcessGone, LifecycleInit
  <1>3. NewLoader'
    BY <1>1, <1>2 DEF Crash, NewLoader, NewDb, NotGiven, NoCall, FileInv
  <1>4. NewLoader' => LoaderInv'
    BY NewLoaderInv, PTL
  <1> QED
    BY <1>3, <1>4

\* A step of a caller, in the loader or in a Wallet.
LEMMA RunningKept ==
    ASSUME LoaderInv, NEW c \in Callers, Running(c)
    PROVE  LoaderInv'
  <1>1. panic = "none" /\ (LoaderStep(c) \/ (CallerStep(c) /\ UNCHANGED loaderVars))
    BY DEF Running
  <1>2. CASE LoaderStep(c)
    BY <1>1, <1>2, createNewWalletKept, createKept, CreateReturnsKept, OpenExistingWalletKept,
       OpenWithRetryKept, LoaderStartKept, onLoadedKept, UnloadWalletKept, UnloadStopKept,
       UnloadWaitKept, UnloadCloseKept, RunAfterLoadKept, RunAfterLoadCallsKept
       DEF LoaderStep
  <1>3. CASE CallerStep(c) /\ UNCHANGED loaderVars
    BY <1>1, <1>3, WalletStepKept
  <1> QED
    BY <1>1, <1>2, <1>3

\* A step that leaves the loader and the Wallets alone.
LEMMA LoaderStays ==
    ASSUME LoaderInv, UNCHANGED vars
    PROVE  LoaderInv'
  <1>1. /\ UNCHANGED <<localDB, file, ns, handle, db, mu, wallet, callbacks, cbRuns, lpc, ret>>
        /\ UNCHANGED lifecycleVars /\ UNCHANGED panic
    BY DEF vars, loaderVars, storeVars, lifecycleVars
  <1>2. FileInv'
    BY <1>1, FileKept DEF LoaderInv, FileInv
  <1>3. \A d \in Callers : OutsideInv(d)' /\ HolderInv(d)'
    BY <1>1, HolderSame
  <1>4. CallbackInv' /\ LpcTypeOK' /\ LoaderNeverPanics'
    BY <1>1 DEF LoaderInv, CallbackInv, LpcTypeOK, LoaderNeverPanics
  <1> QED
    BY <1>1, <1>2, <1>3, <1>4, WalletPart DEF LoaderInv

\* LoaderInv is inductive.
LEMMA LoaderInductive ==
    ASSUME LoaderInv, [Next]_vars
    PROVE  LoaderInv'
  <1>1. CASE UNCHANGED vars
    BY <1>1, LoaderStays
  <1>2. CASE Crash
    BY <1>2, CrashKept
  <1>3. ASSUME NEW c \in Callers, panic = "none" /\ Call(c) PROVE LoaderInv'
    BY <1>3, EnterKept, EnterRunKept DEF Call
  <1>4. ASSUME NEW c \in Callers, Running(c) PROVE LoaderInv'
    BY <1>4, RunningKept
  <1>5. ASSUME NEW w \in Wallets, NEW g \in Goroutines, RunningGoroutine(w, g)
        PROVE  LoaderInv'
    BY <1>5, RunningGoroutineKept
  <1> QED
    BY <1>1, <1>2, <1>3, <1>4, <1>5 DEF Next

\* LoaderInv holds always, whatever calls overlap, fail or are cut off.
THEOREM LoaderInvariant == Spec => []LoaderInv
  <1>1. Init => LoaderInv
    BY NewLoaderInv DEF Init, NewLoader
  <1>2. LoaderInv /\ [Next]_vars => LoaderInv'
    BY LoaderInductive
  <1> QED
    BY <1>1, <1>2, PTL DEF Spec

\* LoaderTypeOK: in particular the mutex is held exactly by the call that is
\* past its first step.
THEOREM LoaderTypeCorrect == Spec => []LoaderTypeOK
  <1>1. LoaderInv => LoaderTypeOK
    <2> SUFFICES ASSUME LoaderInv PROVE LoaderTypeOK
      OBVIOUS
    <2>1. FileInv /\ CallbackInv /\ \A c \in Callers : OutsideInv(c)
      BY DEF LoaderInv
    <2>2. cbRuns \in [Callbacks -> -1 .. 2] /\ callbacks \in Seq(Callbacks)
      BY <2>1 DEF CallbackInv
    <2>3. \A c \in Callers : (mu = c) <=> lpc[c].at \notin {"idle", "lock", "call"}
      BY <2>1 DEF OutsideInv, Outside
    <2> QED
      BY <2>1, <2>2, <2>3 DEF LoaderTypeOK, FileInv
  <1> QED
    BY <1>1, LoaderInvariant, PTL

\* DbOpenWhileWalletRuns: UnloadWallet and a failing Open close the file only
\* when nothing is left that could write to it.
THEOREM FileOpenWhileRunning == Spec => []DbOpenWhileWalletRuns
  <1>1. LoaderInv => DbOpenWhileWalletRuns
    BY DEF LoaderInv, FileInv
  <1> QED
    BY <1>1, LoaderInvariant, PTL

\* OneWalletPerFile: although a created wallet runs on and is forgotten.
THEOREM OneWalletRuns == Spec => []OneWalletPerFile
  <1>1. LoaderInv => OneWalletPerFile
    BY DEF LoaderInv, FileInv
  <1> QED
    BY <1>1, LoaderInvariant, PTL

\* LoaderNeverPanics: Stop never closes a closed channel and no WaitGroup is
\* reused under a waiter, for any number of callers of the loader.
THEOREM NoPanicInLoader == Spec => []LoaderNeverPanics
  <1>1. LoaderInv => LoaderNeverPanics
    BY DEF LoaderInv
  <1> QED
    BY <1>1, LoaderInvariant, PTL

\* CallbacksRunOnce: no function given to RunAfterLoad is called twice or left
\* waiting beside a loaded wallet.
THEOREM FunctionsRunOnce == Spec => []CallbacksRunOnce
  <1>1. LoaderInv => CallbacksRunOnce
    BY DEF LoaderInv, CallbackInv, CallbacksRunOnce
  <1> QED
    BY <1>1, LoaderInvariant, PTL
-----------------------------------------------------------------------------
(* No waiter sleeps for ever: NoLostWakeup beside LoaderInv.               *)

\* Only the caller that has the mutex can break it.
LEMMA HolderWaits ==
    ASSUME LoaderInv', \A w \in Wallets : quitMu'[w] = Nobody,
           \A c \in Callers : mu' = c => WaitInv(c)'
    PROVE  NoLostWakeup'
  <1> SUFFICES ASSUME NEW c \in Callers, mu' # c
               PROVE  WaitInv(c)'
    BY DEF NoLostWakeup
  <1>1. pc'[c] = Idle /\ Idle.at = "idle" /\ lpc'[c].at \in {"idle", "lock", "call"}
    BY DEF LoaderInv, OutsideInv, Outside, Idle
  <1> QED
    BY <1>1 DEF WaitInv

\* A step of the loader that leaves the Wallets, their callers and their
\* counters alone, and does not bring a call to Start.
LEMMA QuietStep ==
    ASSUME LoaderInv', NoLostWakeup, UNCHANGED <<pc, wg, quit, closed, quitMu>>,
           \A c \in Callers : lpc'[c] = lpc[c] \/ lpc'[c].at \notin {"start", "starting"}
    PROVE  NoLostWakeup'
  BY DEF NoLostWakeup, WaitInv

\* The same, of a call that returns or goes on elsewhere.
LEMMA QuietCall ==
    ASSUME LoaderInv, LoaderInv', NoLostWakeup, UNCHANGED <<pc, wg, quit, closed, quitMu>>,
           NEW c \in Callers,
           \/ \E o : Return(c, o)
           \/ \E where \in Inside \ {"start", "starting"}, w \in Wallets \cup {Nobody} :
                 Proceed(c, where, w)
    PROVE  NoLostWakeup'
  <1>1. CASE \E o : Return(c, o)
    <2>1. PICK o : Return(c, o)
      BY <1>1
    <2>2. LOthers(c) /\ lpc'[c] = NotIn
      BY <2>1, ReturnFacts DEF LoaderInv
    <2> QED
      BY <2>2, QuietStep, NotInFacts DEF LOthers
  <1>2. CASE \E where \in Inside \ {"start", "starting"}, w \in Wallets \cup {Nobody} :
                Proceed(c, where, w)
    <2>1. PICK where \in Inside \ {"start", "starting"}, w \in Wallets \cup {Nobody} :
                Proceed(c, where, w)
      BY <1>2
    <2>2. LOthers(c) /\ lpc'[c].at = where
      BY <2>1, ProceedFacts DEF LoaderInv
    <2> QED
      BY <2>1, <2>2, QuietStep DEF LOthers
  <1> QED
    BY <1>1, <1>2

\* The loader calls a method of a Wallet.
LEMMA CallWaits ==
    ASSUME LoaderInv, LoaderInv', NoLostWakeup, UNCHANGED <<wg, quit, closed, quitMu>>,
           NEW c \in Callers, NEW m, NEW a, a # "asleep", NEW w \in Wallets, Calls(c, m, a, w),
           NEW where \in Inside, Proceed(c, where, w),
           where \in {"start", "starting"} => lpc[c].at = "start" /\ lpc[c].w = w
    PROVE  NoLostWakeup'
  <1>1. LOthers(c) /\ lpc'[c].at = where /\ lpc'[c].w = w /\ mu' = c
    BY ProceedFacts DEF LoaderInv
  <1>2. pc'[c].at = a
    BY DEF Calls, LoaderInv, LifecycleInv, WalletsTypeOK
  <1>3. WaitInv(c)'
    BY <1>1, <1>2 DEF NoLostWakeup, WaitInv
  <1>4. \A v \in Wallets : quitMu'[v] = Nobody
    BY DEF NoLostWakeup
  <1> QED
    BY <1>1, <1>3, <1>4, HolderWaits

\* OpenWithRetry goes to Start with a Wallet whose channel is open.
LEMMA MadeWaits ==
    ASSUME LoaderInv, LoaderInv', NoLostWakeup, NEW c \in Callers, pc[c] = Idle, pc' = pc,
           NEW w \in Wallets, NewWallet(w), Proceed(c, "start", w)
    PROVE  NoLostWakeup'
  <1>1. LOthers(c) /\ lpc'[c].at = "start" /\ lpc'[c].w = w /\ mu' = c
    BY ProceedFacts DEF LoaderInv, Inside
  <1>2. quit'[w] = 0 /\ closed'[w] = {} /\ \A v \in Wallets : quitMu'[v] = Nobody
    BY DEF NewWallet, LoaderInv, LifecycleInv, WalletsTypeOK, NoLostWakeup
  <1>3. WaitInv(c)'
    BY <1>1, <1>2 DEF WaitInv, Idle
  <1> QED
    BY <1>1, <1>2, <1>3, HolderWaits

\* A step of the loader.
LEMMA LoaderStepWaits ==
    ASSUME LoaderInv, LoaderInv', NoLostWakeup, NEW c \in Callers, LoaderStep(c)
    PROVE  NoLostWakeup'
  <1>1. ASSUME UNCHANGED lifecycleVars PROVE UNCHANGED <<pc, wg, quit, closed, quitMu>>
    BY <1>1 DEF lifecycleVars, walletVars
  <1>2. CASE createNewWallet(c) \/ create(c) \/ CreateReturns(c) \/ OpenExistingWallet(c)
             \/ onLoaded(c)
    <2>1. UNCHANGED lifecycleVars
      BY <1>2 DEF createNewWallet, create, CreateReturns, OpenExistingWallet, onLoaded
    <2>2. \/ \E o : Return(c, o)
          \/ \E where \in {"update", "openWithRetry"} : Proceed(c, where, Nobody)
      BY <1>2 DEF createNewWallet, create, CreateReturns, OpenExistingWallet, onLoaded
    <2> QED
      BY <1>1, <2>1, <2>2, QuietCall DEF Inside
  <1>3. CASE UnloadWallet(c)
    <2>1. UNCHANGED lifecycleVars /\ wallet \in Wallets \cup {Nobody}
      BY <1>3 DEF UnloadWallet, LoaderInv, FileInv
    <2>2. (\E o : Return(c, o)) \/ Proceed(c, "stop", wallet)
      BY <1>3 DEF UnloadWallet
    <2> QED
      BY <1>1, <2>1, <2>2, QuietCall DEF Inside
  <1>4. CASE UnloadClose(c)
    <2>1. UNCHANGED <<pc, wg, quit, closed, quitMu>> /\ \E o : Return(c, o)
      BY <1>4 DEF UnloadClose
    <2> QED
      BY <2>1, QuietCall
  <1>5. CASE RunAfterLoad(c)
    <2>1. UNCHANGED lifecycleVars
      BY <1>5 DEF RunAfterLoad
    <2>2. CASE \E o : Return(c, o)
      BY <1>1, <2>1, <2>2, QuietCall
    <2>3. CASE lpc' = [lpc EXCEPT ![c].at = "call", ![c].w = wallet]
      <3>1. lpc \in [Callers -> LpcType]
        BY DEF LoaderInv, LpcTypeOK
      <3>2. LOthers(c) /\ lpc'[c].at = "call"
        BY <2>3, <3>1 DEF LOthers, LpcType
      <3> QED
        BY <1>1, <2>1, <3>2, QuietStep DEF LOthers
    <2> QED
      BY <1>5, <2>2, <2>3 DEF RunAfterLoad
  <1>6. CASE RunAfterLoadCalls(c)
    <2>1. UNCHANGED lifecycleVars /\ lpc' = [lpc EXCEPT ![c] = NotIn]
      BY <1>6 DEF RunAfterLoadCalls
    <2>2. LOthers(c) /\ lpc'[c].at = "idle"
      BY <2>1, NotInFacts DEF LOthers, LoaderInv, LpcTypeOK
    <2> QED
      BY <1>1, <2>1, <2>2, QuietStep DEF LOthers
  <1>7. CASE LoaderStart(c)
    <2>1. lpc[c].at = "start" /\ lpc[c].w \in Wallets
      BY <1>7, AtInside DEF LoaderStart, LoadingInv, Inside
    <2>2. PICK w \in Wallets : w = lpc[c].w
      BY <2>1
    <2>3. /\ UNCHANGED <<wg, quit, closed, quitMu>>
          /\ Calls(c, "Start", "select", w) /\ Proceed(c, "starting", w)
      BY <1>7, <2>2 DEF LoaderStart, StartCall
    <2> QED
      BY <2>1, <2>2, <2>3, CallWaits DEF Inside
  <1>8. CASE UnloadStop(c) \/ UnloadWait(c)
    <2>1. lpc[c].at \in {"stop", "wait"}
      BY <1>8 DEF UnloadStop, UnloadWait, At
    <2>2. PICK w \in Wallets : w = lpc[c].w
      BY <2>1, AtInside DEF Inside, UnloadingInv
    <2>3. /\ UNCHANGED <<wg, quit, closed, quitMu>>
          /\ \/ Calls(c, "Stop", "quitChan", w) /\ Proceed(c, "wait", w)
             \/ Calls(c, "WaitForShutdown", "wait", w) /\ Proceed(c, "close", w)
      BY <1>8, <2>2 DEF UnloadStop, UnloadWait, StopCall, WaitCall, walletVars
    <2> QED
      BY <2>3, CallWaits DEF Inside
  <1>9. CASE OpenWithRetry(c)
    <2>1. lpc[c].at = "openWithRetry" /\ pc[c] = Idle
      BY <1>9, AtInside DEF OpenWithRetry, Inside, LoadingInv
    <2>2. CASE /\ FreshWallets # {} /\ UNCHANGED pc
               /\ LET w == CHOOSE w \in FreshWallets : TRUE IN
                     NewWallet(w) /\ Proceed(c, "start", w)
      <3> DEFINE w == CHOOSE w \in FreshWallets : TRUE
      <3>1. w \in Wallets /\ NewWallet(w) /\ Proceed(c, "start", w)
        BY <2>2 DEF FreshWallets
      <3> HIDE DEF w
      <3> QED
        BY <2>1, <2>2, <3>1, MadeWaits
    <2>3. CASE Return(c, "error") /\ UNCHANGED lifecycleVars
      BY <1>1, <2>3, QuietCall
    <2>4. CASE Panics("nilDatabase") /\ UNCHANGED lpc
      <3>1. UNCHANGED <<pc, wg, quit, closed, quitMu>>
        BY <2>4 DEF Panics, walletVars
      <3> QED
        BY <2>4, <3>1, QuietStep
    <2> QED
      BY <1>9, <2>2, <2>3, <2>4 DEF OpenWithRetry
  <1> QED
    BY <1>2, <1>3, <1>4, <1>5, <1>6, <1>7, <1>8, <1>9 DEF LoaderStep

\* A step inside a method of a Wallet: Start finds the channel open and so does
\* not keep quitMu, and WaitForShutdown sleeps on a counter that is not zero.
LEMMA WalletStepWaits ==
    ASSUME LoaderInv, LoaderInv', NoLostWakeup, NEW c \in Callers, CallerStep(c),
           UNCHANGED loaderVars
    PROVE  NoLostWakeup'
  <1>1. /\ mu = c /\ c # Nobody
        /\ \/ lpc[c].at = "starting" /\ pc[c].call = "Start"
           \/ lpc[c].at = "wait" /\ UnloadingInv(c) /\ pc[c].call = "Stop"
           \/ lpc[c].at = "close" /\ pc[c].call = "WaitForShutdown"
        /\ pc[c].w = lpc[c].w /\ lpc[c].w \in Wallets
    BY CallerBusy, InWallet
  <1>2. PICK w \in Wallets : w = pc[c].w /\ w = lpc[c].w
    BY <1>1
  <1>3. /\ LifecycleInv /\ CloseInv /\ WalletsTypeOK /\ pc[c] \in PcType /\ CallerInv(c)
        /\ pc[c].at = "woken" => wg[w] = 0
    BY <1>2 DEF LoaderInv, WokenInv, LifecycleInv, WalletsTypeOK
  <1>4. UNCHANGED <<mu, lpc>> /\ quitMu[w] = Nobody /\ Idle.at = "idle"
        /\ \A v \in Wallets : quitMu[v] = Nobody
    BY <1>2 DEF loaderVars, NoLostWakeup, Idle
  <1>5. SUFFICES (\A v \in Wallets : quitMu'[v] = Nobody) /\ WaitInv(c)'
    BY <1>1, <1>4, HolderWaits
  <1>6. ASSUME NEW a \in {"wait", "add", "go", "asleep"}, Goes(c, a) PROVE pc'[c].at = a /\ pc'[c].w = w
    BY <1>2, <1>3, <1>6 DEF Goes, WalletsTypeOK, PcType
  <1>7. ASSUME Returns(c) PROVE pc'[c].at = "idle"
    BY <1>3, <1>4, <1>7 DEF Returns, WalletsTypeOK
  <1>8. CASE lpc[c].at = "starting"
    <2>1. pc[c].at = "select" => quit[w] \notin closed[w]
      BY <1>2, <1>8 DEF NoLostWakeup, WaitInv
    <2>2. /\ ~StopQuitChan(c) /\ ~StopSelect(c) /\ ~StopClose(c)
          /\ ~WaitForShutdown(c) /\ ~WaitWakes(c)
      BY <1>1, <1>2, <1>3, <1>4, <1>8
         DEF StopQuitChan, StopSelect, StopClose, WaitForShutdown, WaitWakes, CallerInv
    <2>3. /\ UNCHANGED quitMu
          /\ Goes(c, "add") \/ Goes(c, "go") \/ Returns(c)
      BY <1>2, <2>1, <2>2 DEF CallerStep, StartSelect, StartAdd, StartGo
    <2>4. pc'[c].at \in {"add", "go", "idle"}
      BY <1>6, <1>7, <2>3
    <2> QED
      BY <1>4, <1>8, <2>3, <2>4 DEF WaitInv
  <1>9. CASE lpc[c].at = "wait"
    <2>1. /\ ~StartSelect(c) /\ ~StartAdd(c) /\ ~StartGo(c)
          /\ ~WaitForShutdown(c) /\ ~WaitWakes(c)
      BY <1>1, <1>3, <1>9
         DEF StartSelect, StartAdd, StartGo, WaitForShutdown, WaitWakes, CallerInv
    <2>2. pc[c].at \in {"select", "close"} => pc[c].ch = quit[w]
      BY <1>1, <1>2, <1>9 DEF UnloadingInv
    <2>3. UNCHANGED quitMu /\ pc'[c].at # "asleep"
      <3>1. CASE StopQuitChan(c)
        BY <1>3, <3>1 DEF StopQuitChan, walletVars, WalletsTypeOK, PcType
      <3>2. CASE StopSelect(c)
        BY <1>3, <1>4, <3>2 DEF StopSelect, Returns, Goes, walletVars, WalletsTypeOK, PcType
      <3>3. CASE StopClose(c)
        BY <1>3, <1>4, <3>3 DEF StopClose, Panics, Returns, walletVars, WalletsTypeOK
      <3> QED
        BY <2>1, <3>1, <3>2, <3>3 DEF CallerStep
    <2> QED
      BY <1>4, <1>9, <2>3 DEF WaitInv
  <1>10. CASE lpc[c].at = "close"
    <2>1. /\ ~StartSelect(c) /\ ~StartAdd(c) /\ ~StartGo(c)
          /\ ~StopQuitChan(c) /\ ~StopSelect(c) /\ ~StopClose(c)
      BY <1>1, <1>3, <1>10
         DEF StartSelect, StartAdd, StartGo, StopQuitChan, StopSelect, StopClose, CallerInv
    <2>2. /\ UNCHANGED <<quitMu, wg>>
          /\ Returns(c) \/ (Goes(c, "asleep") /\ wg[w] # 0)
      BY <1>1, <1>2, <1>3, <1>10, <2>1
         DEF CallerStep, WaitForShutdown, WaitWakes, WaitReturns, walletVars
    <2>3. wg[w] \in Nat
      BY <1>3 DEF WalletsTypeOK
    <2>4. pc'[c].at = "asleep" => wg'[pc'[c].w] > 0
      BY <1>6, <1>7, <2>2, <2>3
    <2> QED
      BY <1>4, <1>10, <2>2, <2>4 DEF WaitInv
  <1> QED
    BY <1>1, <1>8, <1>9, <1>10

\* The goroutine that is not the last leaves the counter above zero, and the
\* last one leaves nobody asleep.
LEMMA GoroutineWaits ==
    ASSUME LoaderInv, NoLostWakeup, NEW w \in Wallets, NEW g \in Goroutines,
           GoroutineStep(w, g), UNCHANGED loaderVars
    PROVE  NoLostWakeup'
  <1>1. LifecycleInv /\ WalletsTypeOK
    BY DEF LoaderInv, LifecycleInv
  <1>2. UNCHANGED <<quit, closed, quitMu, lpc>>
    BY <1>1, GoroutineFacts DEF loaderVars
  <1>3. SUFFICES ASSUME NEW c \in Callers PROVE WaitInv(c)'
    BY <1>2 DEF NoLostWakeup
  <1>4. WaitInv(c)
    BY DEF NoLostWakeup
  <1>5. pc'[c] = pc[c] \/ pc'[c].at = "woken"
    BY <1>1, GoroutineFacts
  <1>6. ASSUME pc'[c].at = "asleep" PROVE wg'[pc'[c].w] > 0
    <2>1. pc'[c] = pc[c] /\ pc[c].at = "asleep" /\ wg[pc[c].w] > 0
      BY <1>4, <1>5, <1>6 DEF WaitInv
    <2>2. PICK v \in Wallets : v = pc[c].w
      BY <1>1, <2>1, CallerAt
    <2>3. CASE quitChan(w, g)
      BY <2>1, <2>3 DEF quitChan
    <2>4. CASE Quit(w, g)
      <3>1. /\ wg' = [wg EXCEPT ![w] = wg[w] - 1] /\ wg \in [Wallets -> Nat]
        BY <1>1, <2>4 DEF Quit, WalletsTypeOK
      <3>2. CASE v # w
        BY <2>1, <2>2, <3>1, <3>2
      <3>3. CASE v = w
        <4>1. wg[w] # 1
          <5> SUFFICES ASSUME wg[w] = 1 PROVE FALSE
            OBVIOUS
          <5>1. pc'[c] = [pc[c] EXCEPT !.at = "woken"] /\ pc[c] \in PcType
            BY <1>1, <2>1, <2>2, <2>4, <3>3 DEF Quit, WalletsTypeOK
          <5>2. pc'[c].at = "woken"
            BY <5>1 DEF PcType
          <5> QED
            BY <1>6, <5>2
        <4>2. wg[w] \in Nat /\ wg[w] > 0 /\ wg'[w] = wg[w] - 1
          BY <2>1, <2>2, <3>1, <3>3
        <4> QED
          BY <2>1, <2>2, <3>3, <4>1, <4>2
      <3> QED
        BY <3>2, <3>3
    <2> QED
      BY <2>3, <2>4 DEF GoroutineStep
  <1> QED
    BY <1>2, <1>4, <1>5, <1>6 DEF WaitInv

\* NoLostWakeup is inductive beside LoaderInv.
LEMMA WaitInductive ==
    ASSUME LoaderInv, NoLostWakeup, [Next]_vars
    PROVE  NoLostWakeup'
  <1>1. LoaderInv'
    BY LoaderInductive
  <1>2. CASE UNCHANGED vars
    <2>1. UNCHANGED <<pc, wg, quit, closed, quitMu, lpc>>
      BY <1>2 DEF vars, loaderVars, lifecycleVars, walletVars
    <2> QED
      BY <1>1, <2>1, QuietStep
  <1>3. CASE Crash
    <2>1. /\ \A w \in Wallets : quitMu'[w] = Nobody
          /\ \A c \in Callers : pc'[c].at = "idle" /\ lpc'[c].at = "idle"
      BY <1>3, NotInFacts DEF Crash, ProcessGone, NoCall, Idle
    <2> QED
      BY <2>1 DEF NoLostWakeup, WaitInv
  <1>4. ASSUME NEW c \in Callers, Call(c) PROVE NoLostWakeup'
    <2>1. PICK method \in {"Create", "Open", "Unload", "RunAfterLoad"},
               f \in Callbacks \cup {Nobody} : Enter(c, method, f)
      BY <1>4 DEF Call
    <2>2. LOthers(c) /\ lpc'[c].at = "lock" /\ UNCHANGED lifecycleVars
      BY <2>1, EnterFacts
    <2>3. UNCHANGED <<pc, wg, quit, closed, quitMu>>
      BY <2>2 DEF lifecycleVars, walletVars
    <2> QED
      BY <1>1, <2>2, <2>3, QuietStep DEF LOthers
  <1>5. ASSUME NEW c \in Callers, Running(c) PROVE NoLostWakeup'
    BY <1>1, <1>5, LoaderStepWaits, WalletStepWaits DEF Running
  <1>6. ASSUME NEW w \in Wallets, NEW g \in Goroutines, RunningGoroutine(w, g)
        PROVE  NoLostWakeup'
    BY <1>6, GoroutineWaits DEF RunningGoroutine
  <1> QED
    BY <1>2, <1>3, <1>4, <1>5, <1>6 DEF Next

\* UnloadWaitsForTheEnding needs no fairness, so that a program that uses the
\* loader has it too.
LEMMA SleepersAreWoken == Init /\ [][Next]_vars => []UnloadWaitsForTheEnding
  <1>1. Init => LoaderInv /\ NoLostWakeup
    <2> SUFFICES ASSUME Init PROVE LoaderInv /\ NoLostWakeup
      OBVIOUS
    <2>1. LoaderInv
      BY NewLoaderInv DEF Init, NewLoader
    <2>2. /\ \A w \in Wallets : quitMu[w] = Nobody
          /\ \A c \in Callers : pc[c].at = "idle" /\ lpc[c].at = "idle"
      BY NotInFacts DEF Init, LifecycleInit, NoCall, Idle
    <2> QED
      BY <2>1, <2>2 DEF NoLostWakeup, WaitInv
  <1>2. LoaderInv /\ NoLostWakeup /\ [Next]_vars => (LoaderInv /\ NoLostWakeup)'
    BY LoaderInductive, WaitInductive
  <1>3. LoaderInv /\ NoLostWakeup => UnloadWaitsForTheEnding
    <2> SUFFICES ASSUME LoaderInv, NoLostWakeup, NEW c \in Callers, pc[c].at = "asleep",
                        NEW w, w = pc[c].w
                 PROVE  /\ mu = c /\ Live(w) # {} /\ wg[w] = Cardinality(Live(w))
                        /\ \A g \in Live(w) :
                              \/ gor[w][g].st = "born" /\ quitMu[w] = Nobody
                              \/ gor[w][g].st = "waiting" /\ gor[w][g].ch \in closed[w]
      BY DEF UnloadWaitsForTheEnding
    <2>1. pc[c] # Idle /\ Idle.at = "idle"
      BY DEF Idle
    <2>2. /\ mu = c /\ w \in Wallets /\ pc[c].w = lpc[c].w
          /\ \A d \in Callers : d # c => pc[d] = Idle
          /\ \/ pc[c].call = "Start"
             \/ pc[c].call = "Stop"
             \/ lpc[c].at = "close" /\ UnloadingInv(c)
      BY <2>1, InWallet
    <2>3. LifecycleInv /\ WalletInv(w) /\ CallerInv(c) /\ quitMu[w] = Nobody /\ c # Nobody
      BY <2>2, LifecycleAssumption DEF LoaderInv, LifecycleInv, NoLostWakeup
    <2>4. lpc[c].at = "close" /\ UnloadingInv(c)
      BY <2>2, <2>3 DEF CallerInv
    <2>5. quit[w] \in closed[w]
      BY <2>2, <2>4 DEF UnloadingInv
    <2>6. Going(w) = {}
      BY <2>1, <2>2 DEF Going
    <2>7. Cardinality(Going(w)) = 0
      BY <2>6, FS_EmptySet
    <2>8. wg[w] = Cardinality(Live(w))
      BY <2>3, <2>7, FinitelyMany, FS_CardinalityType DEF WalletInv
    <2>9. wg[w] > 0
      BY DEF NoLostWakeup, WaitInv
    <2>10. Live(w) # {}
      <3>1. Cardinality({}) = 0
        BY FS_EmptySet
      <3> QED
        BY <2>8, <2>9, <3>1
    <2>11. ASSUME NEW g \in Live(w)
           PROVE  \/ gor[w][g].st = "born" /\ quitMu[w] = Nobody
                  \/ gor[w][g].st = "waiting" /\ gor[w][g].ch \in closed[w]
      BY <2>3, <2>5 DEF Live, WalletInv
    <2> QED
      BY <2>2, <2>8, <2>10, <2>11
  <1> QED
    BY <1>1, <1>2, <1>3, PTL

\* UnloadWaitsForTheEnding: a call of UnloadWallet asleep in WaitForShutdown,
\* under the mutex, sleeps on goroutines that live and can each go on, for any
\* number of callers and Wallets.
THEOREM UnloadNeverSleepsForEver == Spec => []UnloadWaitsForTheEnding
  BY SleepersAreWoken, PTL DEF Spec
=============================================================================
