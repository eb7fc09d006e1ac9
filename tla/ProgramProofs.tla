---------------------------- MODULE ProgramProofs ----------------------------
(***************************************************************************)
(* The main program with its Loader, Wallets, interrupt handling and key   *)
(* pair, for any number of starts and kills, of Wallets and of generated   *)
(* pairs.                                                                  *)
(***************************************************************************)
EXTENDS Program, LoaderProofs

-----------------------------------------------------------------------------
(* The key pair, by itself.                                                *)

\* Numbers of pairs, and the two marks of a file, are told apart.
LEMMA PairNumbers ==
    /\ 0 \in Pairs /\ None \notin Pairs /\ Partial \notin Pairs /\ None # Partial
    /\ \A n \in Pairs : n < MaxPairs => n + 1 \in Pairs
BY RPCKeyPairAssumption DEF Pairs, None, Partial

\* What the program finds before its first start.
LEMMA InitKeyPair == KeyPairInit => KeyPairInv
BY PairNumbers
   DEF KeyPairInit, KeyPairInv, KeyPairTypeOK, WholeKeyMatchesCert, ServesCertOnDisk

\* Every step of openRPCKeyPair, its end anywhere and the user's help keep the
\* invariant, and only the user removes a whole key.
LEMMA NextKeyPair ==
    KeyPairInv /\ [KeyPairNext]_keyPairVars =>
        /\ KeyPairInv'
        /\ kp # "off" /\ key \in Pairs => key' = key
<1> SUFFICES ASSUME KeyPairInv, [KeyPairNext]_keyPairVars
             PROVE  KeyPairInv' /\ (kp # "off" /\ key \in Pairs => key' = key)
  OBVIOUS
<1> USE PairNumbers DEF KeyPairInv, KeyPairTypeOK, WholeKeyMatchesCert, ServesCertOnDisk
<1>1. CASE openRPCKeyPair
  BY <1>1 DEF openRPCKeyPair
<1>2. CASE oneTimeKeyExists
  BY <1>2 DEF oneTimeKeyExists, Fails
<1>3. CASE openGenerates
  BY <1>3 DEF openGenerates, keyExists
<1>4. CASE LoadX509KeyPair
  BY <1>4 DEF LoadX509KeyPair, Fails
<1>5. CASE NewTLSCertPair
  BY <1>5 DEF NewTLSCertPair, Fails
<1>6. CASE truncateCert
  BY <1>6 DEF truncateCert, Fails
<1>7. CASE writeCert
  BY <1>7 DEF writeCert, Fails
<1>8. CASE truncateKey
  BY <1>8 DEF truncateKey
<1>9. CASE writeKey
  BY <1>9 DEF writeKey
<1>10. CASE removeKey
  BY <1>10 DEF removeKey, Fails
<1>11. CASE KeyPairGone
  BY <1>11 DEF KeyPairGone
<1>12. CASE UserRemovesKey
  BY <1>12 DEF UserRemovesKey
<1>13. CASE UNCHANGED keyPairVars
  BY <1>13 DEF keyPairVars
<1> QED
  BY <1>1, <1>2, <1>3, <1>4, <1>5, <1>6, <1>7, <1>8, <1>9, <1>10, <1>11, <1>12, <1>13
     DEF KeyPairNext, KeyPairStep

-----------------------------------------------------------------------------
(* What a step of the loader means for the program.                        *)

\* A step that neither makes, starts nor ends anything, of a caller that was
\* not starting a wallet, leaves no stray one.
LEMMA StrayKept ==
    ASSUME NEW c \in Callers, LOthers(c), UNCHANGED <<lifecycleVars, wallet>>,
           lpc[c].at \notin {"start", "starting"}, NoStray
    PROVE  NoStray'
  <1>1. UNCHANGED <<made, started, quit, closed, gor>>
    BY DEF lifecycleVars, walletVars
  <1>2. NothingRuns => NothingRuns'
    BY <1>1, RunsKept DEF NothingRuns
  <1> QED
    BY <1>2 DEF NoStray, LOthers

\* Nobody starts a wallet while the mutex is free or another caller has it.
LEMMA OneStarts ==
    ASSUME LoaderInv, NEW c \in Callers, mu \in {Nobody, c},
           lpc[c].at \notin {"start", "starting"}
    PROVE  \A d \in Callers : lpc[d].at \notin {"start", "starting"}
  <1>1. \A d \in Callers : d # Nobody /\ OutsideInv(d)
    BY LifecycleAssumption DEF LoaderInv
  <1> QED
    BY <1>1 DEF OutsideInv, Outside

\* What a caller's step does to the call it is in.
CallGoesOn(c) ==
    /\ lpc[c] # NotIn /\ LOthers(c) /\ localDB'
    /\ lpc'[c] = NotIn \/ lpc'[c].call = lpc[c].call

\* Whether a wallet is left over by it, and after UnloadWallet.
LeavesNoStray(c) ==
    /\ lpc[c].call # "Create" /\ NoStray => NoStray'
    /\ lpc[c].call = "Unload" /\ NoStray /\ lpc'[c] = NotIn => NothingRuns'

\* Create: the caller is in the call until it returns.
LEMMA CreateFacts ==
    ASSUME LoaderInv, localDB, NEW c \in Callers,
           createNewWallet(c) \/ create(c) \/ CreateReturns(c)
    PROVE  CallGoesOn(c) /\ LeavesNoStray(c)
  <1>1. lpc[c].call = "Create" /\ localDB' = localDB /\ lpc[c] # NotIn
    BY NotInFacts DEF createNewWallet, create, CreateReturns, Locks, At, storeVars
  <1>2. \/ \E o : Return(c, o)
        \/ \E where \in Inside : Proceed(c, where, Nobody)
    BY DEF createNewWallet, create, CreateReturns, Inside
  <1>3. LOthers(c) /\ (lpc'[c] = NotIn \/ lpc'[c].call = lpc[c].call)
    BY <1>2, ReturnFacts, ProceedFacts DEF LoaderInv
  <1> QED
    BY <1>1, <1>3 DEF CallGoesOn, LeavesNoStray

\* Open up to the database, and RunAfterLoad: no wallet is touched.
LEMMA OutsideFacts ==
    ASSUME LoaderInv, localDB, NEW c \in Callers,
           OpenExistingWallet(c) \/ RunAfterLoad(c) \/ RunAfterLoadCalls(c)
    PROVE  CallGoesOn(c) /\ LeavesNoStray(c)
  <1>1. /\ lpc[c].call \in {"Open", "RunAfterLoad"} /\ lpc[c].at \in {"lock", "call"}
        /\ UNCHANGED <<localDB, lifecycleVars, wallet>>
    BY DEF OpenExistingWallet, RunAfterLoad, RunAfterLoadCalls, Locks, At, storeVars
  <1>2. lpc[c] # NotIn
    BY <1>1, NotInFacts
  <1>3. LpcTypeOK /\ lpc[c] \in LpcType
    BY DEF LoaderInv, LpcTypeOK
  <1>4. \/ \E o : Return(c, o)
        \/ Proceed(c, "openWithRetry", Nobody)
        \/ lpc' = [lpc EXCEPT ![c].at = "call", ![c].w = wallet]
        \/ lpc' = [lpc EXCEPT ![c] = NotIn]
    BY DEF OpenExistingWallet, RunAfterLoad, RunAfterLoadCalls
  <1>5. LOthers(c) /\ (lpc'[c] = NotIn \/ lpc'[c].call = lpc[c].call)
    <2>1. CASE \E o : Return(c, o)
      BY <1>3, <2>1, ReturnFacts
    <2>2. CASE Proceed(c, "openWithRetry", Nobody)
      BY <1>3, <2>2, ProceedFacts DEF Inside
    <2>3. CASE lpc' = [lpc EXCEPT ![c].at = "call", ![c].w = wallet]
      <3> DEFINE r == [lpc[c] EXCEPT !.at = "call", !.w = wallet]
      <3>1. r.call = lpc[c].call
        BY <1>3 DEF LpcType
      <3>2. lpc' = [lpc EXCEPT ![c] = r]
        BY <1>3, <2>3 DEF LpcType
      <3> HIDE DEF r
      <3> QED
        BY <1>3, <3>1, <3>2 DEF LpcTypeOK, LOthers
    <2>4. CASE lpc' = [lpc EXCEPT ![c] = NotIn]
      BY <1>3, <2>4 DEF LpcTypeOK, LOthers
    <2> QED
      BY <1>4, <2>1, <2>2, <2>3, <2>4
  <1>6. NoStray => NoStray'
    BY <1>1, <1>5, StrayKept
  <1> QED
    BY <1>1, <1>2, <1>5, <1>6 DEF CallGoesOn, LeavesNoStray

\* A wallet is made, started and handed over: the loader is starting it or
\* has it at each step.
LEMMA LoadFacts ==
    ASSUME LoaderInv, localDB, NEW c \in Callers,
           OpenWithRetry(c) \/ LoaderStart(c) \/ onLoaded(c)
    PROVE  CallGoesOn(c) /\ LeavesNoStray(c)
  <1>1. lpc[c].at \in {"openWithRetry", "start", "starting"} /\ localDB' = localDB
    BY DEF OpenWithRetry, LoaderStart, onLoaded, At, storeVars
  <1>2. /\ lpc[c] # NotIn /\ LoadingInv(c) /\ mu = c /\ LpcTypeOK
        /\ lpc[c].w \in Wallets \cup {Nobody} /\ Nobody \notin Wallets
    BY <1>1, NotInFacts, AtInside, LifecycleAssumption
       DEF Inside, LoaderInv, LpcTypeOK, LpcType
  <1>3. lpc[c].call \in {"Create", "Open"} /\ db = "valid"
    BY <1>2 DEF LoadingInv
  <1>4. CASE OpenWithRetry(c)
    <2>1. CASE /\ FreshWallets # {}
               /\ LET w == CHOOSE w \in FreshWallets : TRUE IN
                     NewWallet(w) /\ Proceed(c, "start", w)
      <3> DEFINE w == CHOOSE w \in FreshWallets : TRUE
      <3>1. w \in Wallets /\ Proceed(c, "start", w)
        BY <2>1 DEF FreshWallets
      <3> HIDE DEF w
      <3>2. PICK x \in Wallets : Proceed(c, "start", x)
        BY <3>1
      <3>3. LOthers(c) /\ lpc'[c].call = lpc[c].call /\ lpc'[c].at = "start"
        BY <1>2, <3>2, ProceedFacts DEF Inside
      <3>4. NoStray'
        BY <3>3 DEF NoStray
      <3> QED
        BY <1>1, <1>2, <1>3, <3>3, <3>4 DEF CallGoesOn, LeavesNoStray
    <2>2. CASE Return(c, "error") /\ UNCHANGED lifecycleVars
      <3>1. LOthers(c) /\ lpc'[c] = NotIn
        BY <1>2, <2>2, ReturnFacts
      <3>2. lpc[c].at = "openWithRetry" /\ wallet' = wallet
        BY <1>4 DEF OpenWithRetry
      <3>3. NoStray => NoStray'
        BY <2>2, <3>1, <3>2, StrayKept
      <3> QED
        BY <1>1, <1>2, <1>3, <3>1, <3>3 DEF CallGoesOn, LeavesNoStray
    <2> QED
      BY <1>3, <1>4, <2>1, <2>2 DEF OpenWithRetry
  <1>5. CASE LoaderStart(c)
    <2>1. Proceed(c, "starting", lpc[c].w)
      BY <1>5 DEF LoaderStart
    <2>2. LOthers(c) /\ lpc'[c].call = lpc[c].call /\ lpc'[c].at = "starting"
      BY <1>2, <2>1, ProceedFacts DEF Inside
    <2>3. NoStray'
      BY <2>2 DEF NoStray
    <2> QED
      BY <1>1, <1>2, <1>3, <2>2, <2>3 DEF CallGoesOn, LeavesNoStray
  <1>6. CASE onLoaded(c)
    <2>1. LOthers(c) /\ lpc'[c] = NotIn
      BY <1>2, <1>6, ReturnFacts DEF onLoaded
    <2>2. wallet' \in Wallets
      BY <1>2, <1>6 DEF onLoaded, At, LoadingInv
    <2>3. NoStray'
      BY <1>2, <2>2 DEF NoStray
    <2> QED
      BY <1>1, <1>2, <1>3, <2>1, <2>3 DEF CallGoesOn, LeavesNoStray
  <1> QED
    BY <1>4, <1>5, <1>6

\* UnloadWallet: it returns when there was no wallet, and nothing ran, or when
\* the wallet has ended.
LEMMA UnloadFacts ==
    ASSUME LoaderInv, localDB, NEW c \in Callers,
           UnloadWallet(c) \/ UnloadStop(c) \/ UnloadWait(c) \/ UnloadClose(c)
    PROVE  CallGoesOn(c) /\ LeavesNoStray(c)
  <1>1. /\ lpc[c].call = "Unload" /\ localDB' = localDB
        /\ lpc[c].at \in {"lock", "stop", "wait", "close"}
    BY DEF UnloadWallet, UnloadStop, UnloadWait, UnloadClose, Locks, At, storeVars
  <1>2. /\ lpc[c] # NotIn /\ LpcTypeOK /\ FileInv /\ LifecycleInv
        /\ lpc[c].w \in Wallets \cup {Nobody} /\ Nobody \notin Wallets
    BY <1>1, NotInFacts, LifecycleAssumption DEF LoaderInv, LpcTypeOK, LpcType
  <1>3. CASE UnloadWallet(c)
    <2>1. mu = Nobody /\ lpc[c].at = "lock" /\ UNCHANGED <<lifecycleVars, wallet>>
      BY <1>3 DEF UnloadWallet, Locks, At
    <2>2. CASE wallet = Nobody /\ Return(c, "ErrNotLoaded")
      <3>1. LOthers(c) /\ lpc'[c] = NotIn
        BY <1>2, <2>2, ReturnFacts
      <3>2. NoStray => NoStray'
        BY <2>1, <3>1, StrayKept
      <3>3. NoStray => NothingRuns
        BY <2>1, <2>2, OneStarts DEF NoStray
      <3>4. NothingRuns => NothingRuns'
        BY <2>1, WalletPart DEF NothingRuns
      <3> QED
        BY <1>1, <1>2, <3>1, <3>2, <3>3, <3>4 DEF CallGoesOn, LeavesNoStray
    <2>3. CASE wallet # Nobody /\ Proceed(c, "stop", wallet)
      <3>1. wallet \in Wallets \cup {Nobody}
        BY <1>2 DEF FileInv
      <3>2. LOthers(c) /\ lpc'[c].call = lpc[c].call /\ lpc'[c].at = "stop"
        BY <1>2, <2>3, <3>1, ProceedFacts DEF Inside
      <3>3. NoStray'
        BY <2>1, <2>3 DEF NoStray
      <3> QED
        BY <1>1, <1>2, <3>2, <3>3, NotInFacts DEF CallGoesOn, LeavesNoStray
    <2> QED
      BY <1>3, <2>2, <2>3 DEF UnloadWallet
  <1>4. CASE UnloadStop(c) \/ UnloadWait(c)
    <2>1. /\ \E where \in {"wait", "close"} : Proceed(c, where, lpc[c].w)
          /\ wallet' = wallet /\ lpc[c].at \in {"stop", "wait"}
      BY <1>4 DEF UnloadStop, UnloadWait, At
    <2>2. wallet \in Wallets
      BY <2>1, AtInside DEF Inside, UnloadingInv
    <2>3. LOthers(c) /\ lpc'[c].call = lpc[c].call
      BY <1>2, <2>1, ProceedFacts DEF Inside
    <2>4. NoStray'
      BY <1>2, <2>1, <2>2 DEF NoStray
    <2> QED
      BY <1>1, <1>2, <2>3, <2>4, NotInFacts DEF CallGoesOn, LeavesNoStray
  <1>5. CASE UnloadClose(c)
    <2>1. /\ lpc[c].at = "close" /\ pc[c] = Idle
          /\ UNCHANGED <<started, quit, closed, gor>> /\ made' \subseteq made
      BY <1>5 DEF UnloadClose, At, WalletCallDone
    <2>2. UnloadingInv(c)
      BY <2>1, AtInside DEF Inside
    <2>3. PICK w \in Wallets : w = lpc[c].w /\ w = wallet
      BY <2>2 DEF UnloadingInv
    <2>4. wg[w] = 0 /\ quit[w] \in closed[w]
      BY <2>1, <2>2, <2>3 DEF UnloadingInv
    <2>5. ~Runs(w)
      BY <1>2, <2>4, Ended
    <2>6. \A v \in Wallets : Runs(v) => v = w
      BY <1>2, <2>3 DEF FileInv
    <2>7. NothingRuns'
      BY <2>1, <2>5, <2>6 DEF NothingRuns, Runs, Live
    <2>8. LOthers(c) /\ lpc'[c] = NotIn
      BY <1>2, <1>5, ReturnFacts DEF UnloadClose
    <2> QED
      BY <1>1, <1>2, <2>7, <2>8 DEF CallGoesOn, LeavesNoStray, NoStray
  <1> QED
    BY <1>3, <1>4, <1>5

\* A step inside a method of a Wallet: the loader has it, or is starting it.
LEMMA WalletFacts ==
    ASSUME LoaderInv, localDB, NEW c \in Callers, CallerStep(c), UNCHANGED loaderVars
    PROVE  CallGoesOn(c) /\ LeavesNoStray(c)
  <1>1. UNCHANGED <<localDB, wallet, lpc>>
    BY DEF loaderVars, storeVars
  <1>2. \/ lpc[c].at = "starting"
        \/ lpc[c].at \in {"wait", "close"} /\ UnloadingInv(c)
    BY CallerBusy, InWallet
  <1>3. lpc[c] # NotIn
    BY <1>2, NotInFacts
  <1>4. lpc[c].at = "starting" \/ wallet # Nobody
    BY <1>2, LifecycleAssumption DEF UnloadingInv
  <1>5. NoStray'
    BY <1>1, <1>4 DEF NoStray
  <1> QED
    BY <1>1, <1>3, <1>5 DEF CallGoesOn, LeavesNoStray, LOthers

\* The same for every step of a caller.
LEMMA RunningFacts ==
    ASSUME LoaderInv, localDB, NEW c \in Callers, Running(c)
    PROVE  LoaderInv' /\ CallGoesOn(c) /\ LeavesNoStray(c)
  <1>1. CallGoesOn(c) /\ LeavesNoStray(c)
    BY CreateFacts, OutsideFacts, LoadFacts, UnloadFacts, WalletFacts DEF Running, LoaderStep
  <1> QED
    BY <1>1, RunningKept
-----------------------------------------------------------------------------
(* The steps of the program.                                               *)

\* Main and the handler are two, and nobody else calls.
LEMMA TwoCallers ==
    /\ Main \in Callers /\ Handler \in Callers /\ Main # Handler
    /\ StartWalletServices \in Callbacks
  BY ProgramAssumption

\* No panic is left for a loader that made its own database.
LEMMA LocalNeverPanics ==
    ASSUME LoaderInv, localDB
    PROVE  panic = "none"
  BY DEF LoaderInv, LoaderNeverPanics

\* The variables of the program other than those of the loader and of the key
\* pair keep their types.
PlacesOK ==
    /\ flags \in Flags /\ at \in Places
    /\ end \in {"none", "error", "created", "fatal", "complete", "killed"}
    /\ rpcs \in {"nil", "made", "serving"}
    /\ handler \in {"none", "select", "invoke", "unloading", "close", "gone"}
    /\ interrupt \in BOOLEAN /\ added \in BOOLEAN /\ done \in BOOLEAN
    /\ notified <=> handler # "none"

\* The invariant from its parts.
LEMMA ProgramParts ==
    ProgramInv <=> LoaderInv /\ localDB /\ KeyPairInv /\ PlacesOK /\ CallsInv /\ HandlerInv
  <1>1. LoaderInv /\ localDB => panic = "none"
    BY LocalNeverPanics
  <1> QED
    BY <1>1 DEF ProgramInv, ProgramTypeOK, KeyPairInv, PlacesOK

\* The files of the key pair change as in openRPCKeyPair, end with the process
\* or are the user's.
LEMMA ProgramKeyPair == [ProgramNext]_allVars => [KeyPairNext]_keyPairVars
  <1>1. \A how : Ends(how) => KeyPairNext
    BY DEF Ends, KeyPairNext
  <1>2. \A from, to : MainAt(from, to) => UNCHANGED keyPairVars
    BY DEF MainAt, runVars
  <1>3. UNCHANGED progVars => UNCHANGED keyPairVars
    BY DEF progVars, runVars
  <1>4. MainStep => [KeyPairNext]_keyPairVars
    BY <1>1, <1>2, <1>3
       DEF MainStep, loadConfig, createWallet, openKeyPair, startRPCServers, runAfterLoad,
           openExistingWallet, addInterruptHandler, addHandlerChannel, walletMainReturns,
           startWalletRPCServices, MainInLoader, Returning, KeyPairNext
  <1>5. HandlerStep => UNCHANGED keyPairVars
    BY <1>3 DEF HandlerStep, interruptReceived, invokeCallbacks, unloadReturns, closeDone
  <1>6. UNCHANGED allVars => UNCHANGED keyPairVars
    BY <1>3 DEF allVars
  <1> QED
    BY <1>1, <1>3, <1>4, <1>5, <1>6 DEF ProgramNext, Launch, Kill, Signal, Serve, KeyPairNext

\* A step that leaves the loader and its Wallets alone.
LEMMA ProgramStays ==
    ASSUME LoaderInv, localDB, UNCHANGED vars
    PROVE  /\ LoaderInv' /\ localDB' /\ UNCHANGED <<lpc, cbRuns>>
           /\ NothingRuns' = NothingRuns /\ NoStray' = NoStray
  <1>1. UNCHANGED <<localDB, lpc, cbRuns, wallet>>
        /\ UNCHANGED <<made, started, quit, closed, gor>>
    BY DEF vars, loaderVars, storeVars, lifecycleVars, walletVars
  <1>2. NothingRuns' = NothingRuns
    BY <1>1 DEF NothingRuns, Runs, Live
  <1>3. NoStray' = NoStray
    BY <1>1, <1>2 DEF NoStray
  <1> QED
    BY <1>1, <1>2, <1>3, LoaderStays

\* The process ends.
LEMMA EndsFacts ==
    ASSUME ProgramInv, NEW how \in {"error", "created", "fatal", "complete", "killed"},
           Ends(how)
    PROVE  LoaderInv' /\ localDB' /\ PlacesOK' /\ CallsInv' /\ HandlerInv'
  <1>1. LoaderInv /\ localDB /\ PlacesOK
    BY ProgramParts
  <1>2. Crash
    BY DEF Ends
  <1>3. LoaderInv' /\ localDB' = localDB /\ lpc' = NoCall /\ cbRuns' = NotGiven
    BY <1>1, <1>2, CrashKept DEF Crash, storeVars
  <1>4. lpc'[Main] = NotIn /\ lpc'[Handler] = NotIn /\ cbRuns'[StartWalletServices] = -1
    BY <1>3, TwoCallers DEF NoCall, NotGiven
  <1>5. NothingRuns'
    <2> SUFFICES ASSUME NEW v \in Wallets PROVE ~Runs(v)'
      BY DEF NothingRuns
    <2>1. made' = {} /\ gor' = [w \in Wallets |-> [g \in Goroutines |-> Unborn]]
      BY <1>2 DEF Crash, ProcessGone
    <2>2. Live(v)' = {}
      BY <2>1 DEF Live, Unborn
    <2> QED
      BY <2>1, <2>2 DEF Runs
  <1>6. NoStray'
    BY <1>5 DEF NoStray
  <1>7. /\ at' = "off" /\ end' = how /\ rpcs' = "nil" /\ notified' = FALSE
        /\ interrupt' = FALSE /\ handler' = "none" /\ added' = FALSE /\ done' = FALSE
        /\ flags' = flags
    BY DEF Ends
  <1>8. PlacesOK'
    BY <1>1, <1>7 DEF PlacesOK, Places
  <1>9. CallsInv'
    BY <1>4, <1>7 DEF CallsInv
  <1>10. HandlerInv'
    BY <1>5, <1>6, <1>7 DEF HandlerInv
  <1> QED
    BY <1>1, <1>3, <1>8, <1>9, <1>10

\* A caller enters a method of the loader: nothing runs that did not.
LEMMA ProgramEnters ==
    ASSUME LoaderInv, localDB, NEW c \in Callers,
           NEW method \in {"Create", "Open", "Unload", "RunAfterLoad"},
           NEW f \in Callbacks \cup {Nobody}, Enter(c, method, f),
           \/ method # "RunAfterLoad" /\ f = Nobody /\ UNCHANGED cbRuns
           \/ /\ method = "RunAfterLoad" /\ f \in Callbacks /\ cbRuns[f] = -1
              /\ cbRuns' = [cbRuns EXCEPT ![f] = 0]
    PROVE  /\ LoaderInv' /\ localDB' /\ LOthers(c)
           /\ lpc'[c] # NotIn /\ lpc'[c].call = method
           /\ NothingRuns' = NothingRuns /\ (NoStray => NoStray')
  <1>1. panic = "none"
    BY LocalNeverPanics
  <1>2. /\ LOthers(c) /\ lpc[c] = NotIn /\ lpc'[c].call = method /\ lpc'[c].at = "lock"
        /\ UNCHANGED <<lifecycleVars, mu, wallet, localDB, file, ns, db, handle, callbacks>>
    <2>1. ASSUME NEW m \in {"Create", "Open", "Unload", "RunAfterLoad"}, m = method
          PROVE  /\ LOthers(c) /\ lpc[c] = NotIn /\ lpc'[c].call = m /\ lpc'[c].at = "lock"
                 /\ UNCHANGED <<lifecycleVars, mu, wallet, localDB, file, ns, db, handle,
                                callbacks>>
      <3>1. Enter(c, m, f)
        BY <2>1
      <3>2. CASE m = "Create"
        BY <3>1, <3>2, EnterFacts
      <3>3. CASE m = "Open"
        BY <3>1, <3>3, EnterFacts
      <3>4. CASE m = "Unload"
        BY <3>1, <3>4, EnterFacts
      <3>5. CASE m = "RunAfterLoad"
        BY <3>1, <3>5, EnterFacts
      <3> QED
        BY <3>2, <3>3, <3>4, <3>5
    <2> QED
      BY <2>1
  <1>3. LoaderInv'
    BY <1>1, EnterKept, EnterRunKept
  <1>4. UNCHANGED <<made, started, quit, closed, gor>>
    BY <1>2 DEF lifecycleVars, walletVars
  <1>5. NothingRuns' = NothingRuns
    BY <1>4 DEF NothingRuns, Runs, Live
  <1>6. NoStray => NoStray'
    BY <1>2, StrayKept, NotInFacts
  <1> QED
    BY <1>2, <1>3, <1>5, <1>6, NotInFacts

\* What a step has to keep beside the key pair.
Keeps == LoaderInv' /\ localDB' /\ PlacesOK' /\ CallsInv' /\ HandlerInv'

\* The steps of main and of the handler that do not touch the loader.
LEMMA OwnSteps ==
    ASSUME ProgramInv,
           \/ Launch \/ Signal \/ Serve \/ addInterruptHandler \/ addHandlerChannel
           \/ interruptReceived \/ unloadReturns \/ closeDone \/ openKeyPair
           \/ UserRemovesKey /\ UNCHANGED <<flags, rpcs, notified, interrupt, handler,
                                            added, done, at, end, vars>>
    PROVE  Keeps
  <1>1. LoaderInv /\ localDB /\ PlacesOK /\ CallsInv /\ HandlerInv
    BY ProgramParts
  <1>2. UNCHANGED vars
    BY DEF Launch, Signal, Serve, addInterruptHandler, addHandlerChannel,
           interruptReceived, unloadReturns, closeDone, openKeyPair
  <1>3. /\ LoaderInv' /\ localDB' /\ UNCHANGED <<lpc, cbRuns>>
        /\ NothingRuns' = NothingRuns /\ NoStray' = NoStray
    BY <1>1, <1>2, ProgramStays
  <1> USE DEF Keeps, PlacesOK, Places, CallsInv, HandlerInv, InLoader
  <1>4. CASE Launch
    BY <1>1, <1>3, <1>4 DEF Launch
  <1>5. CASE Signal
    BY <1>1, <1>3, <1>5 DEF Signal
  <1>6. CASE Serve
    BY <1>1, <1>3, <1>6 DEF Serve
  <1>7. CASE addInterruptHandler
    BY <1>1, <1>3, <1>7 DEF addInterruptHandler
  <1>8. CASE addHandlerChannel
    BY <1>1, <1>3, <1>8 DEF addHandlerChannel
  <1>9. CASE interruptReceived
    BY <1>1, <1>3, <1>9 DEF interruptReceived
  <1>10. CASE unloadReturns
    BY <1>1, <1>3, <1>10 DEF unloadReturns
  <1>11. CASE closeDone
    BY <1>1, <1>3, <1>11 DEF closeDone
  <1>12. CASE \/ openKeyPair
              \/ UserRemovesKey /\ UNCHANGED <<flags, rpcs, notified, interrupt, handler,
                                               added, done, at, end, vars>>
    BY <1>1, <1>3, <1>12 DEF openKeyPair
  <1> QED
    BY <1>4, <1>5, <1>6, <1>7, <1>8, <1>9, <1>10, <1>11, <1>12

\* Main goes on without the loader.
LEMMA MainGoes ==
    ASSUME ProgramInv, UNCHANGED vars, at' \in Places,
           UNCHANGED <<flags, notified, interrupt, handler, added, done, end>>,
           rpcs' \in {"nil", "made", "serving"},
           at \notin {"off", "createWallet", "send", "wait"}, lpc[Main] = NotIn,
           at' \in {"startRPCServers", "runAfterLoad"} =>
               at \in {"loadConfig", "startRPCServers"},
           at' \notin {"off", "loadConfig", "createWallet", "send", "wait"}
    PROVE  Keeps
  <1>1. LoaderInv /\ localDB /\ PlacesOK /\ CallsInv /\ HandlerInv
    BY ProgramParts
  <1>2. /\ LoaderInv' /\ localDB' /\ UNCHANGED <<lpc, cbRuns>>
        /\ NothingRuns' = NothingRuns /\ NoStray' = NoStray
    BY <1>1, ProgramStays
  <1>3. handler = "none" /\ added = FALSE
    BY <1>1 DEF HandlerInv, PlacesOK
  <1>4. PlacesOK'
    BY <1>1 DEF PlacesOK
  <1>5. CallsInv'
    BY <1>1, <1>2, <1>3 DEF CallsInv, InLoader
  <1>6. HandlerInv'
    BY <1>1, <1>2, <1>3 DEF HandlerInv
  <1> QED
    BY <1>2, <1>4, <1>5, <1>6 DEF Keeps

\* Main enters a method of the loader, before there is a handler.
LEMMA MainEnters ==
    ASSUME ProgramInv, NEW from, NEW to, MainAt(from, to),
           \/ /\ from = "loadConfig" /\ to = "createWallet"
              /\ Enter(Main, "Create", Nobody) /\ UNCHANGED cbRuns
           \/ /\ from = "open" /\ to = "opening"
              /\ Enter(Main, "Open", Nobody) /\ UNCHANGED cbRuns
           \/ /\ from = "runAfterLoad" /\ to = "registering"
              /\ Enter(Main, "RunAfterLoad", StartWalletServices)
              /\ cbRuns' = [cbRuns EXCEPT ![StartWalletServices] = 0]
    PROVE  Keeps
  <1>1. LoaderInv /\ localDB /\ PlacesOK /\ CallsInv /\ HandlerInv
    BY ProgramParts
  <1>2. /\ at = from /\ at' = to
        /\ UNCHANGED <<flags, rpcs, notified, interrupt, handler, added, done, end>>
    BY DEF MainAt, runVars
  <1>3. handler = "none" /\ added = FALSE /\ NoStray
    BY <1>1, <1>2 DEF HandlerInv, PlacesOK
  <1>4. from = "runAfterLoad" => cbRuns[StartWalletServices] = -1
    BY <1>1, <1>2 DEF CallsInv
  <1>5. PICK method \in {"Create", "Open", "RunAfterLoad"},
             f \in Callbacks \cup {Nobody} :
          /\ Enter(Main, method, f)
          /\ \/ method # "RunAfterLoad" /\ f = Nobody /\ UNCHANGED cbRuns
             \/ /\ method = "RunAfterLoad" /\ f \in Callbacks /\ cbRuns[f] = -1
                /\ cbRuns' = [cbRuns EXCEPT ![f] = 0]
          /\ to = "createWallet" => method = "Create"
          /\ to = "opening" => method = "Open"
          /\ to = "registering" => method = "RunAfterLoad"
    BY <1>4, TwoCallers
  <1>6. /\ LoaderInv' /\ localDB' /\ LOthers(Main)
        /\ lpc'[Main] # NotIn /\ lpc'[Main].call = method
        /\ NothingRuns' = NothingRuns /\ NoStray'
    BY <1>1, <1>3, <1>5, TwoCallers, ProgramEnters
  <1>7. lpc'[Handler] = NotIn
    BY <1>1, <1>3, <1>6, TwoCallers DEF LOthers, CallsInv
  <1>8. PlacesOK'
    BY <1>1, <1>2 DEF PlacesOK, Places
  <1>9. CallsInv'
    BY <1>2, <1>3, <1>5, <1>6, <1>7 DEF CallsInv, InLoader
  <1>10. HandlerInv'
    BY <1>1, <1>2, <1>3, <1>6 DEF HandlerInv
  <1> QED
    BY <1>6, <1>8, <1>9, <1>10 DEF Keeps

\* The handler calls UnloadWallet, or finds no callback.
LEMMA HandlerInvokes ==
    ASSUME ProgramInv, invokeCallbacks
    PROVE  Keeps
  <1>1. LoaderInv /\ localDB /\ PlacesOK /\ CallsInv /\ HandlerInv
    BY ProgramParts
  <1>2. /\ handler = "invoke"
        /\ UNCHANGED <<flags, rpcs, notified, interrupt, added, done, at, end>>
    BY DEF invokeCallbacks
  <1>3. CASE added
    <2>1. handler' = "unloading" /\ Enter(Handler, "Unload", Nobody) /\ UNCHANGED cbRuns
      BY <1>3 DEF invokeCallbacks
    <2>2. /\ LoaderInv' /\ localDB' /\ LOthers(Handler)
          /\ lpc'[Handler] # NotIn /\ lpc'[Handler].call = "Unload"
          /\ NothingRuns' = NothingRuns /\ (NoStray => NoStray')
      BY <1>1, <2>1, TwoCallers, ProgramEnters
    <2>3. lpc'[Main] = lpc[Main]
      BY <2>2, TwoCallers DEF LOthers
    <2>4. at = "wait"
      BY <1>1, <1>3 DEF HandlerInv
    <2>5. PlacesOK'
      BY <1>1, <1>2, <2>1 DEF PlacesOK
    <2>6. CallsInv'
      BY <1>1, <1>2, <2>1, <2>2, <2>3, <2>4 DEF CallsInv, InLoader
    <2>7. HandlerInv'
      BY <1>1, <1>2, <1>3, <2>1, <2>2, <2>4 DEF HandlerInv
    <2> QED
      BY <2>2, <2>5, <2>6, <2>7 DEF Keeps
  <1>4. CASE ~added
    <2>1. handler' = "close" /\ UNCHANGED vars
      BY <1>4 DEF invokeCallbacks
    <2>2. /\ LoaderInv' /\ localDB' /\ UNCHANGED <<lpc, cbRuns>>
          /\ NothingRuns' = NothingRuns /\ NoStray' = NoStray
      BY <1>1, <2>1, ProgramStays
    <2>3. PlacesOK'
      BY <1>1, <1>2, <2>1 DEF PlacesOK
    <2>4. CallsInv'
      BY <1>1, <1>2, <2>1, <2>2 DEF CallsInv, InLoader
    <2>5. HandlerInv'
      BY <1>1, <1>2, <1>4, <2>1, <2>2 DEF HandlerInv
    <2> QED
      BY <2>2, <2>3, <2>4, <2>5 DEF Keeps
  <1> QED
    BY <1>3, <1>4
\* Main inside a method of the loader: there is no handler yet.
LEMMA MainRuns ==
    ASSUME ProgramInv, Running(Main), UNCHANGED progVars
    PROVE  Keeps
  <1>1. LoaderInv /\ localDB /\ PlacesOK /\ CallsInv /\ HandlerInv
    BY ProgramParts
  <1>2. UNCHANGED <<flags, rpcs, notified, interrupt, handler, added, done, at, end>>
    BY DEF progVars, runVars
  <1>3. LoaderInv' /\ CallGoesOn(Main) /\ LeavesNoStray(Main)
    BY <1>1, TwoCallers, RunningFacts
  <1>4. /\ lpc[Main] # NotIn /\ localDB' /\ lpc'[Handler] = lpc[Handler]
        /\ lpc'[Main] = NotIn \/ lpc'[Main].call = lpc[Main].call
    BY <1>3, TwoCallers DEF CallGoesOn, LOthers
  <1>5. at \in {"createWallet", "registering", "opening"}
    BY <1>1, <1>4 DEF CallsInv
  <1>6. handler = "none" /\ added = FALSE
    BY <1>1, <1>5 DEF HandlerInv, PlacesOK
  <1>7. at # "createWallet" => lpc[Main].call # "Create" /\ NoStray
    BY <1>1, <1>4, <1>5 DEF CallsInv, InLoader, HandlerInv
  <1>8. at # "createWallet" => NoStray'
    BY <1>3, <1>7 DEF LeavesNoStray
  <1>9. PlacesOK'
    BY <1>1, <1>2 DEF PlacesOK
  <1>10. CallsInv'
    BY <1>1, <1>2, <1>4, <1>5, <1>6 DEF CallsInv, InLoader
  <1>11. HandlerInv'
    BY <1>1, <1>2, <1>5, <1>6, <1>8 DEF HandlerInv
  <1> QED
    BY <1>3, <1>4, <1>9, <1>10, <1>11 DEF Keeps

\* The handler inside UnloadWallet: main waits, and nothing runs at its return.
LEMMA HandlerRuns ==
    ASSUME ProgramInv, Running(Handler), UNCHANGED progVars
    PROVE  Keeps
  <1>1. LoaderInv /\ localDB /\ PlacesOK /\ CallsInv /\ HandlerInv
    BY ProgramParts
  <1>2. UNCHANGED <<flags, rpcs, notified, interrupt, handler, added, done, at, end>>
    BY DEF progVars, runVars
  <1>3. LoaderInv' /\ CallGoesOn(Handler) /\ LeavesNoStray(Handler)
    BY <1>1, TwoCallers, RunningFacts
  <1>4. /\ lpc[Handler] # NotIn /\ localDB' /\ lpc'[Main] = lpc[Main]
        /\ lpc'[Handler] = NotIn \/ lpc'[Handler].call = lpc[Handler].call
    BY <1>3, TwoCallers DEF CallGoesOn, LOthers
  <1>5. handler = "unloading" /\ lpc[Handler].call = "Unload"
    BY <1>1, <1>4 DEF CallsInv, InLoader
  <1>6. at = "wait" /\ added /\ NoStray
    BY <1>1, <1>5 DEF HandlerInv
  <1>7. NoStray' /\ (lpc'[Handler] = NotIn => NothingRuns')
    BY <1>3, <1>5, <1>6 DEF LeavesNoStray
  <1>8. PlacesOK'
    BY <1>1, <1>2 DEF PlacesOK
  <1>9. CallsInv'
    BY <1>1, <1>2, <1>4, <1>5, <1>6 DEF CallsInv, InLoader
  <1>10. HandlerInv'
    BY <1>1, <1>2, <1>5, <1>6, <1>7 DEF HandlerInv
  <1> QED
    BY <1>3, <1>4, <1>8, <1>9, <1>10 DEF Keeps

\* A goroutine of a Wallet: what has ended stays so.
LEMMA GoroutineRuns ==
    ASSUME ProgramInv, NEW w \in Wallets, NEW g \in Goroutines, RunningGoroutine(w, g),
           UNCHANGED progVars
    PROVE  Keeps
  <1>1. LoaderInv /\ localDB /\ PlacesOK /\ CallsInv /\ HandlerInv
    BY ProgramParts
  <1>2. UNCHANGED <<flags, rpcs, notified, interrupt, handler, added, done, at, end>>
    BY DEF progVars, runVars
  <1>3. GoroutineStep(w, g) /\ UNCHANGED <<localDB, wallet, cbRuns, lpc>>
    BY DEF RunningGoroutine, loaderVars, storeVars
  <1>4. /\ UNCHANGED <<made, started, quit, closed>>
        /\ \A v \in Wallets : Live(v)' \subseteq Live(v)
    BY <1>1, <1>3, GoroutineFacts DEF LoaderInv
  <1>5. NothingRuns => NothingRuns'
    BY <1>4 DEF NothingRuns, Runs
  <1>6. NoStray => NoStray'
    BY <1>3, <1>5 DEF NoStray
  <1>7. LoaderInv' /\ localDB'
    BY <1>1, <1>3, RunningGoroutineKept
  <1>8. PlacesOK'
    BY <1>1, <1>2 DEF PlacesOK
  <1>9. CallsInv'
    BY <1>1, <1>2, <1>3 DEF CallsInv, InLoader
  <1>10. HandlerInv'
    BY <1>1, <1>2, <1>3, <1>5, <1>6 DEF HandlerInv
  <1> QED
    BY <1>7, <1>8, <1>9, <1>10 DEF Keeps

\* Every step of main.
LEMMA MainStepKeeps ==
    ASSUME ProgramInv, MainStep
    PROVE  Keeps
  <1>1. CallsInv /\ PlacesOK
    BY ProgramParts
  <1>2. ASSUME NEW how \in {"error", "created", "fatal", "complete", "killed"}, Ends(how)
        PROVE  Keeps
    BY <1>2, EndsFacts DEF Keeps
  <1>3. CASE loadConfig
    <2>1. CASE Ends("error")
      BY <2>1, <1>2
    <2>2. CASE /\ MainAt("loadConfig", "createWallet")
               /\ Enter(Main, "Create", Nobody) /\ UNCHANGED cbRuns
      BY <2>2, MainEnters
    <2>3. CASE MainAt("loadConfig", "startRPCServers") /\ UNCHANGED vars
      BY <1>1, <2>3, MainGoes DEF MainAt, runVars, Places, CallsInv, PlacesOK
    <2> QED
      BY <1>3, <2>1, <2>2, <2>3 DEF loadConfig
  <1>4. CASE createWallet
    BY <1>2, <1>4 DEF createWallet, Returning
  <1>5. CASE openKeyPair
    BY <1>5, OwnSteps
  <1>6. CASE startRPCServers
    <2>1. CASE Ends("error")
      BY <2>1, <1>2
    <2>2. CASE /\ at = "startRPCServers" /\ at' = "runAfterLoad"
               /\ rpcs' = IF flags.listeners THEN "made" ELSE "nil"
               /\ UNCHANGED <<flags, notified, interrupt, handler, added, done, end,
                              keyPairVars, vars>>
      BY <1>1, <2>2, MainGoes DEF Places, CallsInv
    <2> QED
      BY <1>6, <2>1, <2>2 DEF startRPCServers
  <1>7. CASE runAfterLoad
    <2>1. CASE /\ MainAt("runAfterLoad", "registering")
               /\ Enter(Main, "RunAfterLoad", StartWalletServices)
               /\ cbRuns' = [cbRuns EXCEPT ![StartWalletServices] = 0]
      BY <2>1, MainEnters
    <2>2. CASE /\ MainReturned("registering")
               /\ MainAt("registering", IF flags.noInitialLoad THEN "notify" ELSE "open")
               /\ UNCHANGED vars
      BY <1>1, <2>2, MainGoes DEF MainAt, MainReturned, runVars, Places, PlacesOK
    <2> QED
      BY <1>7, <2>1, <2>2 DEF runAfterLoad
  <1>8. CASE openExistingWallet
    <2>1. CASE MainAt("open", "opening") /\ Enter(Main, "Open", Nobody) /\ UNCHANGED cbRuns
      BY <2>1, MainEnters
    <2>2. CASE MainReturned("opening") /\ MainAt("opening", "notify") /\ UNCHANGED vars
      BY <1>1, <2>2, MainGoes DEF MainAt, MainReturned, runVars, Places, PlacesOK
    <2>3. CASE Ends("error")
      BY <2>3, <1>2
    <2> QED
      BY <1>8, <2>1, <2>2, <2>3 DEF openExistingWallet, Returning
  <1>9. CASE addInterruptHandler \/ addHandlerChannel
    BY <1>9, OwnSteps
  <1>10. CASE walletMainReturns \/ startWalletRPCServices
    BY <1>2, <1>10 DEF walletMainReturns, startWalletRPCServices
  <1>11. CASE MainInLoader
    BY <1>11, MainRuns DEF MainInLoader
  <1> QED
    BY <1>3, <1>4, <1>5, <1>6, <1>7, <1>8, <1>9, <1>10, <1>11 DEF MainStep

\* What the program finds before its first start.
LEMMA ProgramInitInv == ProgramInit => ProgramInv
  <1> SUFFICES ASSUME ProgramInit PROVE ProgramInv
    OBVIOUS
  <1>1. Init /\ localDB /\ KeyPairInit
    BY DEF ProgramInit
  <1>2. LoaderInv /\ KeyPairInv
    BY <1>1, NewLoaderInv, InitKeyPair DEF Init, NewLoader
  <1>3. lpc[Main] = NotIn /\ lpc[Handler] = NotIn /\ cbRuns[StartWalletServices] = -1
    BY <1>1, TwoCallers DEF Init, NoCall, NotGiven
  <1>4. NothingRuns /\ NoStray
    <2>1. LifecycleInit
      BY <1>1 DEF Init
    <2>2. \A v \in Wallets : Live(v) = {}
      BY <2>1 DEF LifecycleInit, Live, Unborn
    <2> QED
      BY <2>1, <2>2 DEF NothingRuns, NoStray, Runs, LifecycleInit
  <1>5. /\ flags \in Flags /\ at = "off" /\ end = "none"
        /\ rpcs = "nil" /\ notified = FALSE /\ interrupt = FALSE
        /\ handler = "none" /\ added = FALSE /\ done = FALSE
    BY DEF ProgramInit
  <1>6. PlacesOK
    BY <1>5 DEF PlacesOK, Places
  <1>7. CallsInv
    BY <1>3, <1>5 DEF CallsInv
  <1>8. HandlerInv
    BY <1>4, <1>5 DEF HandlerInv
  <1> QED
    BY <1>1, <1>2, <1>6, <1>7, <1>8, ProgramParts

\* ProgramInv is inductive.
LEMMA ProgramInductive == ProgramInv /\ [ProgramNext]_allVars => ProgramInv'
  <1> SUFFICES ASSUME ProgramInv, [ProgramNext]_allVars PROVE ProgramInv'
    OBVIOUS
  <1>1. KeyPairInv'
    BY ProgramKeyPair, NextKeyPair DEF ProgramInv
  <1> SUFFICES Keeps
    <2>1. ProgramInv' <=>
             (LoaderInv /\ localDB /\ KeyPairInv /\ PlacesOK /\ CallsInv /\ HandlerInv)'
      BY ProgramParts, PTL
    <2> QED
      BY <1>1, <2>1 DEF Keeps
  <1>2. CASE Launch \/ Signal \/ Serve
    BY <1>2, OwnSteps
  <1>3. CASE Kill
    BY <1>3, EndsFacts DEF Kill, Keeps
  <1>4. CASE MainStep
    BY <1>4, MainStepKeeps
  <1>5. CASE HandlerStep
    BY <1>5, OwnSteps, HandlerInvokes, HandlerRuns DEF HandlerStep
  <1>6. CASE UserRemovesKey /\ UNCHANGED <<flags, rpcs, notified, interrupt, handler,
                                           added, done, at, end, vars>>
    BY <1>6, OwnSteps
  <1>7. CASE \E w \in Wallets, g \in Goroutines : RunningGoroutine(w, g) /\ UNCHANGED progVars
    BY <1>7, GoroutineRuns
  <1>8. CASE UNCHANGED allVars
    <2>1. /\ UNCHANGED vars
          /\ UNCHANGED <<flags, rpcs, notified, interrupt, handler, added, done, at, end>>
      BY <1>8 DEF allVars, progVars, runVars
    <2>2. LoaderInv /\ localDB /\ PlacesOK /\ CallsInv /\ HandlerInv
      BY ProgramParts
    <2>3. /\ LoaderInv' /\ localDB' /\ UNCHANGED <<lpc, cbRuns>>
          /\ NothingRuns' = NothingRuns /\ NoStray' = NoStray
      BY <2>1, <2>2, ProgramStays
    <2>4. PlacesOK' /\ CallsInv' /\ HandlerInv'
      BY <2>1, <2>2, <2>3 DEF PlacesOK, CallsInv, HandlerInv, InLoader
    <2> QED
      BY <2>3, <2>4 DEF Keeps
  <1> QED
    BY <1>2, <1>3, <1>4, <1>5, <1>6, <1>7, <1>8 DEF ProgramNext

-----------------------------------------------------------------------------
(* Theorems.                                                               *)

\* ProgramInv holds always, wherever the process is killed, fails, or is
\* interrupted, and however often it is started again.
THEOREM ProgramInvariant == ProgramSpec => []ProgramInv
  BY ProgramInitInv, ProgramInductive, PTL DEF ProgramSpec

\* ProgramTypeOK: in particular no start of the program panics in the loader
\* or in a Wallet.
THEOREM ProgramTypeCorrect == ProgramSpec => []ProgramTypeOK
  <1>1. ProgramInv => ProgramTypeOK
    BY DEF ProgramInv
  <1> QED
    BY <1>1, ProgramInvariant, PTL

\* ShutdownUnloads: "Shutdown complete" (walletMain) is said only when the
\* interrupt handler has unloaded the wallet, whenever the signal came.
THEOREM ShutdownIsClean == ProgramSpec => []ShutdownUnloads
  <1>1. ProgramInv => ShutdownUnloads
    <2> SUFFICES ASSUME ProgramInv, at = "wait", done
                 PROVE  (\A w \in Wallets : ~Runs(w)) /\ lpc = NoCall
      BY DEF ShutdownUnloads
    <2>1. LoaderInv /\ CallsInv /\ HandlerInv
      BY DEF ProgramInv
    <2>2. handler = "gone" /\ added /\ NothingRuns
      BY <2>1 DEF HandlerInv
    <2>3. lpc[Main] = NotIn /\ lpc[Handler] = NotIn
      BY <2>1, <2>2 DEF CallsInv
    <2>4. lpc \in [Callers -> LpcType]
      BY <2>1 DEF LoaderInv, LpcTypeOK
    <2>5. \A c \in Callers : lpc[c] = NotIn
      BY <2>3, ProgramAssumption
    <2>6. lpc = NoCall
      BY <2>4, <2>5 DEF NoCall
    <2> QED
      BY <2>2, <2>6 DEF NothingRuns
  <1> QED
    BY <1>1, ProgramInvariant, PTL

\* The loader's guarantees hold in the program: the file is open under a
\* wallet that runs, and one wallet runs on it.
THEOREM ProgramKeepsFile == ProgramSpec => [](DbOpenWhileWalletRuns /\ OneWalletPerFile)
  <1>1. ProgramInv => DbOpenWhileWalletRuns /\ OneWalletPerFile
    BY DEF ProgramInv, LoaderInv, FileInv
  <1> QED
    BY <1>1, ProgramInvariant, PTL

\* WholeKeyMatchesCert: a key on disk is never left beside another pair's
\* certificate (generateRPCKeyPair), wherever the process is killed.
THEOREM KeyMatchesCert == ProgramSpec => []WholeKeyMatchesCert
  <1>1. ProgramInv => WholeKeyMatchesCert
    BY DEF ProgramInv, KeyPairInv
  <1> QED
    BY <1>1, ProgramInvariant, PTL

\* ServesCertOnDisk: the server's certificate is the one its clients find.
THEOREM ServedCertIsOnDisk == ProgramSpec => []ServesCertOnDisk
  <1>1. ProgramInv => ServesCertOnDisk
    BY DEF ProgramInv, KeyPairInv
  <1> QED
    BY <1>1, ProgramInvariant, PTL

\* KeyNeverReplaced: only the user removes a whole key.
THEOREM KeyIsNeverReplaced == ProgramSpec => KeyNeverReplaced
  <1>1. ProgramInv /\ [ProgramNext]_allVars =>
            [kp # "off" /\ key \in Pairs => key' = key]_keyPairVars
    BY ProgramKeyPair, NextKeyPair DEF ProgramInv
  <1> QED
    BY <1>1, ProgramInvariant, PTL DEF ProgramSpec, KeyNeverReplaced

\* Main and the interrupt handler use the loader as module Loader lets any
\* callers use it: what Loader excludes, the program cannot do.
THEOREM ProgramUsesLoader == ProgramSpec => Init /\ [][Next]_vars
  <1>1. ProgramInit => Init
    BY DEF ProgramInit
  <1>2. ProgramInv /\ [ProgramNext]_allVars => [Next]_vars
    <2> SUFFICES ASSUME ProgramInv, [ProgramNext]_allVars PROVE [Next]_vars
      OBVIOUS
    <2>1. panic = "none" /\ CallsInv
      BY DEF ProgramInv, ProgramTypeOK
    <2>2. ASSUME NEW how, Ends(how) PROVE Next
      BY <2>2 DEF Ends, Next
    <2>3. ASSUME NEW c \in Callers, NEW method \in {"Create", "Open", "Unload"},
                 Enter(c, method, Nobody), UNCHANGED cbRuns
          PROVE  Next
      <3>1. Call(c)
        BY <2>3 DEF Call
      <3> QED
        BY <2>1, <3>1 DEF Next
    <2>4. ASSUME at = "runAfterLoad", Enter(Main, "RunAfterLoad", StartWalletServices),
                 cbRuns' = [cbRuns EXCEPT ![StartWalletServices] = 0]
          PROVE  Next
      <3>1. Call(Main)
        BY <2>1, <2>4, TwoCallers DEF Call, CallsInv
      <3> QED
        BY <2>1, <3>1, TwoCallers DEF Next
    <2>5. ASSUME NEW c \in Callers, Running(c) PROVE Next
      BY <2>5 DEF Next
    <2>6. CASE MainStep
      <3>1. CASE loadConfig
        BY <2>2, <2>3, <3>1, TwoCallers DEF loadConfig
      <3>2. CASE createWallet \/ startRPCServers \/ walletMainReturns \/ startWalletRPCServices
        BY <2>2, <3>2 DEF createWallet, startRPCServers, walletMainReturns,
                          startWalletRPCServices, Returning
      <3>3. CASE openKeyPair \/ addInterruptHandler \/ addHandlerChannel
        BY <3>3 DEF openKeyPair, addInterruptHandler, addHandlerChannel
      <3>4. CASE runAfterLoad
        BY <2>4, <3>4 DEF runAfterLoad, MainAt
      <3>5. CASE openExistingWallet
        BY <2>2, <2>3, <3>5, TwoCallers DEF openExistingWallet, Returning
      <3>6. CASE MainInLoader
        BY <2>5, <3>6, TwoCallers DEF MainInLoader
      <3> QED
        BY <2>6, <3>1, <3>2, <3>3, <3>4, <3>5, <3>6 DEF MainStep
    <2>7. CASE HandlerStep
      <3>1. CASE invokeCallbacks
        BY <2>3, <3>1, TwoCallers DEF invokeCallbacks
      <3>2. CASE interruptReceived \/ unloadReturns \/ closeDone
        BY <3>2 DEF interruptReceived, unloadReturns, closeDone
      <3>3. CASE Running(Handler)
        BY <2>5, <3>3, TwoCallers
      <3> QED
        BY <2>7, <3>1, <3>2, <3>3 DEF HandlerStep
    <2>8. CASE \E w \in Wallets, g \in Goroutines :
                  RunningGoroutine(w, g) /\ UNCHANGED progVars
      BY <2>8 DEF Next
    <2> QED
      BY <2>2, <2>6, <2>7, <2>8 DEF ProgramNext, Launch, Kill, Signal, Serve, allVars
  <1> QED
    BY <1>1, <1>2, ProgramInvariant, PTL DEF ProgramSpec

\* UnloadWaitsForTheEnding in the program: the interrupt handler, which unloads
\* the wallet before main may end, never sleeps on goroutines that cannot go on.
THEOREM InterruptNeverSleepsForEver == ProgramSpec => []UnloadWaitsForTheEnding
  BY ProgramUsesLoader, SleepersAreWoken, PTL

\* The key pair lives in the program as in module RPCKeyPair.
THEOREM ProgramUsesKeyPair == ProgramSpec => KeyPairSpec
  <1>1. ProgramInit => KeyPairInit
    BY DEF ProgramInit
  <1> QED
    BY <1>1, ProgramKeyPair, PTL DEF ProgramSpec, KeyPairSpec
=============================================================================
