------------------------------- MODULE Program -------------------------------
(***************************************************************************)
(* The main program: walletMain from its flags to "Shutdown complete", the *)
(* interrupt handling of signal.go and the gRPC server, composed with the  *)
(* Loader, its Wallet and the key pair of the server.  Main and the        *)
(* goroutine mainInterruptHandler are the callers of the Loader; the RPC   *)
(* methods that would call it are stubs.  A process ends by returning or   *)
(* is killed, and the next start finds the files it left.  Signals and the *)
(* gRPC server are external.                                               *)
(***************************************************************************)
EXTENDS Loader, RPCKeyPair

CONSTANTS Main, Handler, StartWalletServices

\* Nobody else calls the loader, and one function is given to RunAfterLoad.
ASSUME ProgramAssumption ==
    /\ Callers = {Main, Handler} /\ Main # Handler
    /\ Callbacks = {StartWalletServices}

VARIABLES
    flags,       \* --create, --noinitialload, RPC listeners configured
    at,          \* where walletMain is; "off": no process
    end,         \* how the last process ended
    rpcs,        \* the gRPC server: "nil", "made", "serving"
    notified,    \* signal.Notify was called
    interrupt,   \* interruptChannel holds a signal
    handler,     \* where mainInterruptHandler is
    added,       \* the handler is in interruptCallbacks
    done         \* interruptHandlersDone is closed

runVars == <<flags, rpcs, notified, interrupt, handler, added, done, keyPairVars>>
progVars == <<runVars, at, end>>
allVars == <<vars, progVars>>

Flags == [create : BOOLEAN, noInitialLoad : BOOLEAN, listeners : BOOLEAN]

ProgramInit ==
    /\ Init /\ localDB /\ KeyPairInit
    /\ flags \in Flags
    /\ at = "off" /\ end = "none"
    /\ rpcs = "nil" /\ notified = FALSE /\ interrupt = FALSE
    /\ handler = "none" /\ added = FALSE /\ done = FALSE

-----------------------------------------------------------------------------
\* The process and all it holds is gone; the files are not.
Ends(how) ==
    /\ at # "off" /\ at' = "off" /\ end' = how
    /\ Crash /\ KeyPairGone
    /\ rpcs' = "nil" /\ notified' = FALSE /\ interrupt' = FALSE
    /\ handler' = "none" /\ added' = FALSE /\ done' = FALSE
    /\ UNCHANGED flags

MainAt(from, to) == at = from /\ at' = to /\ UNCHANGED <<runVars, end>>
MainReturned(call) == at = call /\ lpc[Main] = NotIn
Returning(call, how) == MainReturned(call) /\ Ends(how)

Launch ==
    /\ at = "off" /\ at' = "loadConfig" /\ end' = "none"
    /\ flags' \in Flags
    /\ UNCHANGED <<rpcs, notified, interrupt, handler, added, done, keyPairVars, vars>>

\* The file must be missing to be created, and present to be opened.
loadConfig ==
    \/ at = "loadConfig" /\ Ends("error")      \* flags, directories, prompts
    \/ /\ flags.create /\ ~file
       /\ MainAt("loadConfig", "createWallet")
       /\ Enter(Main, "Create", Nobody) /\ UNCHANGED cbRuns
    \/ /\ ~flags.create /\ (file \/ flags.noInitialLoad)
       /\ MainAt("loadConfig", "startRPCServers") /\ UNCHANGED vars

\* os.Exit, with the new wallet running and its file open.
createWallet ==
    \/ ret = "ok" /\ Returning("createWallet", "created")
    \/ ret # "ok" /\ Returning("createWallet", "error")

\* The key pair is opened first, also when no server is made from it.
openKeyPair ==
    /\ at = "startRPCServers" /\ (openRPCKeyPair \/ KeyPairStep)
    /\ UNCHANGED <<flags, rpcs, notified, interrupt, handler, added, done, at, end, vars>>

\* No server without listeners; goroutines serve on those that there are.
startRPCServers ==
    \/ at = "startRPCServers" /\ kp = "off" /\ Ends("error")      \* TLS disabled
    \/ at = "startRPCServers" /\ kp = "failed" /\ Ends("error")
    \/ /\ at = "startRPCServers" /\ kp = "opened" /\ flags.listeners      \* no port
       /\ Ends("error")
    \/ /\ at = "startRPCServers" /\ kp = "opened" /\ at' = "runAfterLoad"
       /\ rpcs' = IF flags.listeners THEN "made" ELSE "nil"
       /\ UNCHANGED <<flags, notified, interrupt, handler, added, done, end, keyPairVars, vars>>

Serve ==
    /\ rpcs = "made" /\ rpcs' = "serving"
    /\ UNCHANGED <<flags, notified, interrupt, handler, added, done, at, end, keyPairVars, vars>>

runAfterLoad ==
    \/ /\ MainAt("runAfterLoad", "registering")
       /\ Enter(Main, "RunAfterLoad", StartWalletServices)
       /\ cbRuns' = [cbRuns EXCEPT ![StartWalletServices] = 0]
    \/ /\ MainReturned("registering")
       /\ MainAt("registering", IF flags.noInitialLoad THEN "notify" ELSE "open")
       /\ UNCHANGED vars

openExistingWallet ==
    \/ MainAt("open", "opening") /\ Enter(Main, "Open", Nobody) /\ UNCHANGED cbRuns
    \/ MainReturned("opening") /\ ret = "ok" /\ MainAt("opening", "notify") /\ UNCHANGED vars
    \/ ret # "ok" /\ Returning("opening", "error")

\* onLoaded is about to call the function main gave to RunAfterLoad.
AboutToRegister ==
    /\ At(Main, "Open", "starting") /\ WalletCallDone(Main)
    /\ StartWalletServices \in Range(callbacks)

\* grpc ends a process that registers a service with a server that serves.
startWalletRPCServices == AboutToRegister /\ rpcs = "serving" /\ Ends("fatal")

\* Main inside a call of the loader.
MainInLoader ==
    /\ ~(AboutToRegister /\ rpcs = "serving")
    /\ Running(Main)
    /\ UNCHANGED progVars

\* addInterruptHandler up to its send.
addInterruptHandler ==
    /\ at = "notify" /\ at' = "send"
    /\ notified' = TRUE /\ handler' = "select"
    /\ UNCHANGED <<flags, rpcs, interrupt, added, done, end, keyPairVars, vars>>

\* Slip: handlers are received only when a signal is there.
addHandlerChannelAtSignal ==
    /\ at = "send" /\ handler = "select" /\ interrupt
    /\ at' = "wait" /\ added' = TRUE
    /\ UNCHANGED <<flags, rpcs, notified, interrupt, handler, done, end, keyPairVars, vars>>

\* The send meets the receive of mainInterruptHandler.
addHandlerChannel ==
    /\ at = "send" /\ handler = "select"
    /\ at' = "wait" /\ added' = TRUE
    /\ UNCHANGED <<flags, rpcs, notified, interrupt, handler, done, end, keyPairVars, vars>>

\* "Shutdown complete".
walletMainReturns == at = "wait" /\ done /\ Ends("complete")

-----------------------------------------------------------------------------
(* mainInterruptHandler.                                                   *)

\* Slip: interruptHandlersDone is closed first.
interruptReceivedClosing ==
    /\ handler = "select" /\ interrupt
    /\ interrupt' = FALSE /\ handler' = "invoke" /\ done' = TRUE
    /\ UNCHANGED <<flags, rpcs, notified, added, at, end, keyPairVars, vars>>

interruptReceived ==
    /\ handler = "select" /\ interrupt
    /\ interrupt' = FALSE /\ handler' = "invoke"
    /\ UNCHANGED <<flags, rpcs, notified, added, done, at, end, keyPairVars, vars>>

\* The callbacks there are: UnloadWallet or nothing.
invokeCallbacks ==
    /\ handler = "invoke"
    /\ IF added
       THEN handler' = "unloading" /\ Enter(Handler, "Unload", Nobody) /\ UNCHANGED cbRuns
       ELSE handler' = "close" /\ UNCHANGED vars
    /\ UNCHANGED <<flags, rpcs, notified, interrupt, added, done, at, end, keyPairVars>>

\* An error of UnloadWallet is printed.
unloadReturns ==
    /\ handler = "unloading" /\ lpc[Handler] = NotIn
    /\ handler' = "close"
    /\ UNCHANGED <<flags, rpcs, notified, interrupt, added, done, at, end, keyPairVars, vars>>

\* Slip: the channel is closed only when there was a wallet to unload.
closeDoneIfUnloaded ==
    /\ handler = "close" /\ handler' = "gone"
    /\ done' = (ret = "ok")
    /\ UNCHANGED <<flags, rpcs, notified, interrupt, added, at, end, keyPairVars, vars>>

closeDone ==
    /\ handler = "close" /\ handler' = "gone"
    /\ done' = TRUE
    /\ UNCHANGED <<flags, rpcs, notified, interrupt, added, at, end, keyPairVars, vars>>

-----------------------------------------------------------------------------
\* The process is stopped from outside: also the default action of SIGINT, until
\* Notify is called.
Kill == Ends("killed")

\* The channel has room for one signal, others are dropped.
Signal ==
    /\ notified /\ interrupt' = TRUE
    /\ UNCHANGED <<flags, rpcs, notified, handler, added, done, at, end, keyPairVars, vars>>

MainStep ==
    \/ loadConfig \/ createWallet \/ openKeyPair \/ startRPCServers
    \/ runAfterLoad \/ openExistingWallet
    \/ addInterruptHandler \/ addHandlerChannel \/ walletMainReturns
    \/ startWalletRPCServices \/ MainInLoader

HandlerStep ==
    \/ interruptReceived \/ invokeCallbacks \/ unloadReturns \/ closeDone
    \/ Running(Handler) /\ UNCHANGED progVars

ProgramNext ==
    \/ Launch \/ Kill \/ Signal \/ Serve \/ MainStep \/ HandlerStep
    \/ UserRemovesKey /\ UNCHANGED <<flags, rpcs, notified, interrupt, handler, added, done,
                                     at, end, vars>>
    \/ \E w \in Wallets, g \in Goroutines : RunningGoroutine(w, g) /\ UNCHANGED progVars

\* Goroutines that can run do.  Nobody has to send a signal.
ProgramFairness ==
    /\ WF_allVars(MainStep) /\ WF_allVars(HandlerStep)
    /\ \A w \in Wallets, g \in Goroutines :
          WF_allVars(RunningGoroutine(w, g) /\ UNCHANGED progVars)

ProgramSpec == ProgramInit /\ [][ProgramNext]_allVars /\ ProgramFairness

-----------------------------------------------------------------------------
(* Properties.                                                             *)

Places == {"off", "loadConfig", "createWallet", "startRPCServers", "runAfterLoad",
           "registering", "open", "opening", "notify", "send", "wait"}

\* Every variable of the program keeps its type, and the goroutine of the
\* interrupts is there exactly when signals are delivered to it; the server
\* never goes on with a key pair that was read from files cut short.
ProgramTypeOK ==
    /\ flags \in Flags /\ at \in Places
    /\ end \in {"none", "error", "created", "fatal", "complete", "killed"}
    /\ rpcs \in {"nil", "made", "serving"}
    /\ handler \in {"none", "select", "invoke", "unloading", "close", "gone"}
    /\ interrupt \in BOOLEAN /\ added \in BOOLEAN /\ done \in BOOLEAN
    /\ notified <=> handler # "none"
    /\ panic = "none"
    /\ KeyPairTypeOK

\* When main may print "Shutdown complete" the handler has run to its end: no
\* wallet has a goroutine left that could write to the file, and no call of the
\* loader is under way.
ShutdownUnloads ==
    (at = "wait" /\ done) => /\ \A w \in Wallets : ~Runs(w)
                             /\ lpc = NoCall

\* Once main waits, an interrupt ends the program: the handler finds a loader
\* nobody holds, UnloadWallet returns whether or not a wallet is loaded and can
\* be closed, and main is woken.
InterruptEndsProgram == (at = "wait" /\ interrupt) ~> (at = "off")

\* A program that was started gets as far as waiting for an interrupt, or ends;
\* the only other way out is an interrupt served before main could add its
\* handler.
StartupFinishes == (at = "loadConfig") ~> (at \in {"off", "wait"} \/ handler = "gone")

-----------------------------------------------------------------------------
(* Inductive strengthening, for the proofs.                                *)

NothingRuns == \A w \in Wallets : ~Runs(w)

\* No wallet runs that the loader neither has nor is starting.
NoStray ==
    (wallet = Nobody /\ \A c \in Callers : lpc[c].at \notin {"start", "starting"})
        => NothingRuns

InLoader(c, method) == lpc[c] = NotIn \/ lpc[c].call = method

\* Main and the handler are in the calls of the loader that their places say,
\* and main gives its function once.
CallsInv ==
    /\ at \notin {"createWallet", "registering", "opening"} => lpc[Main] = NotIn
    /\ at = "createWallet" => InLoader(Main, "Create")
    /\ at = "registering" => InLoader(Main, "RunAfterLoad")
    /\ at = "opening" => InLoader(Main, "Open")
    /\ handler # "unloading" => lpc[Handler] = NotIn
    /\ handler = "unloading" => InLoader(Handler, "Unload")
    /\ at \in {"off", "loadConfig", "startRPCServers", "runAfterLoad"} =>
          cbRuns[StartWalletServices] = -1

\* The handler starts when main is about to send to it, is taken note of when
\* main waits, and is through with the wallet before it closes the channel.
HandlerInv ==
    /\ handler # "none" => at \in {"send", "wait"}
    /\ added <=> at = "wait"
    /\ handler = "none" => ~added
    /\ handler = "unloading" => added
    /\ done => handler = "gone"
    /\ at # "createWallet" => NoStray
    /\ (handler = "unloading" /\ lpc[Handler] = NotIn) => NothingRuns
    /\ (handler \in {"close", "gone"} /\ added) => NothingRuns

\* Inductive.
ProgramInv ==
    /\ LoaderInv /\ localDB /\ KeyPairInv
    /\ ProgramTypeOK /\ CallsInv /\ HandlerInv
=============================================================================
