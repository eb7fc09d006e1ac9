--------------------------- MODULE WalletLifecycle ---------------------------
(***************************************************************************)
(* Start, Stop, WaitForShutdown and Unlock of a Wallet, called by several  *)
(* goroutines, and the two goroutines a Start leaves running, txCreator    *)
(* and walletLocker.  A step is what happens between two accesses to       *)
(* shared state: the mutex quitMu, the channel quit and the WaitGroup wg.  *)
(* Both goroutines have the same life: they read the quit channel once,    *)
(* under quitMu, wait for it to be closed and report to wg.                *)
(*                                                                         *)
(* unlockRequests is never made, and a send to a nil channel blocks for    *)
(* ever: Unlock never returns and walletLocker never receives a request,   *)
(* nor sets the timeout it selects on.                                     *)
(***************************************************************************)
EXTENDS Integers, FiniteSets

CONSTANTS
    Wallets,     \* Wallet objects
    Callers,     \* goroutines that call the methods of a Wallet
    Stoppers,    \* the callers that call Stop
    MaxStarts,   \* bound: Start calls per Wallet
    Nobody       \* no caller, no wallet

\* Finitely many goroutines call, only callers stop; the sentinel is neither a
\* caller nor a wallet.
ASSUME LifecycleAssumption ==
    /\ IsFiniteSet(Callers)
    /\ Stoppers \subseteq Callers
    /\ MaxStarts \in Nat \ {0}
    /\ Nobody \notin Callers \cup Wallets

\* Channel 0 comes from OpenWithRetry, each Start makes at most one more.
Chans == 0 .. MaxStarts
Goroutines == {"txCreator", "walletLocker"} \X (1 .. MaxStarts)

VARIABLES
    made,      \* the Wallets that exist
    started,   \* Wallet.started
    quit,      \* Wallet.quit: the number of its current channel
    closed,    \* the closed channels
    quitMu,    \* Wallet.quitMu: its holder
    wg,        \* Wallet.wg: its counter
    gor,       \* the spawned goroutines: state and quit channel
    starts,    \* Start calls made so far
    pc,        \* the call each caller is in, and where
    panic      \* why the process died

walletVars == <<made, started, quit, closed, quitMu, wg, gor, starts>>
lifecycleVars == <<walletVars, pc, panic>>

Idle == [call |-> "none", at |-> "idle", w |-> Nobody, ch |-> 0]
Unborn == [st |-> "none", ch |-> 0]

Live(w) == {g \in Goroutines : gor[w][g].st \in {"born", "waiting"}}

LifecycleInit ==
    /\ made = {}
    /\ started = [w \in Wallets |-> FALSE]
    /\ quit = [w \in Wallets |-> 0]
    /\ closed = [w \in Wallets |-> {}]
    /\ quitMu = [w \in Wallets |-> Nobody]
    /\ wg = [w \in Wallets |-> 0]
    /\ gor = [w \in Wallets |-> [g \in Goroutines |-> Unborn]]
    /\ starts = [w \in Wallets |-> 0]
    /\ pc = [c \in Callers |-> Idle]
    /\ panic = "none"

\* Nothing of the Wallets outlives the process.
ProcessGone ==
    /\ made' = {}
    /\ started' = [w \in Wallets |-> FALSE]
    /\ quit' = [w \in Wallets |-> 0]
    /\ closed' = [w \in Wallets |-> {}]
    /\ quitMu' = [w \in Wallets |-> Nobody]
    /\ wg' = [w \in Wallets |-> 0]
    /\ gor' = [w \in Wallets |-> [g \in Goroutines |-> Unborn]]
    /\ starts' = [w \in Wallets |-> 0]
    /\ pc' = [c \in Callers |-> Idle]
    /\ panic' = "none"

\* The Wallet that OpenWithRetry returns.
NewWallet(w) ==
    /\ w \notin made
    /\ made' = made \cup {w}
    /\ started' = [started EXCEPT ![w] = FALSE]
    /\ quit' = [quit EXCEPT ![w] = 0]
    /\ closed' = [closed EXCEPT ![w] = {}]
    /\ quitMu' = [quitMu EXCEPT ![w] = Nobody]
    /\ wg' = [wg EXCEPT ![w] = 0]
    /\ gor' = [gor EXCEPT ![w] = [g \in Goroutines |-> Unborn]]
    /\ starts' = [starts EXCEPT ![w] = 0]

-----------------------------------------------------------------------------
(* Callers.                                                                *)

Goes(c, where) == pc' = [pc EXCEPT ![c].at = where]
Returns(c) == pc' = [pc EXCEPT ![c] = Idle]
Panics(why) == panic' = why /\ UNCHANGED <<walletVars, pc>>

Calls(c, method, where, w) ==
    /\ pc[c] = Idle
    /\ pc' = [pc EXCEPT ![c] = [call |-> method, at |-> where, w |-> w, ch |-> 0]]

StartCall(c, w) ==
    /\ w \in made /\ starts[w] < MaxStarts
    /\ Calls(c, "Start", "select", w)
    /\ starts' = [starts EXCEPT ![w] = @ + 1]
    /\ UNCHANGED <<made, started, quit, closed, quitMu, wg, gor, panic>>

\* Slip: the old goroutines are not waited for.
StartSelectNoWait(c) ==
    LET w == pc[c].w IN
    /\ pc[c].call = "Start" /\ pc[c].at = "select" /\ quitMu[w] = Nobody
    /\ \/ /\ quit[w] \in closed[w]
          /\ quit' = [quit EXCEPT ![w] = @ + 1]
          /\ Goes(c, "add") /\ UNCHANGED <<started, quitMu>>
       \/ /\ quit[w] \notin closed[w] /\ started[w]
          /\ Returns(c) /\ UNCHANGED <<started, quit, quitMu>>
       \/ /\ quit[w] \notin closed[w] /\ ~started[w]
          /\ started' = [started EXCEPT ![w] = TRUE]
          /\ Goes(c, "add") /\ UNCHANGED <<quit, quitMu>>
    /\ UNCHANGED <<made, closed, wg, gor, starts, panic>>

\* Under quitMu.  After a Stop the mutex is kept while the goroutines of the
\* previous run are waited for, and `started' is left as it is.
StartSelect(c) ==
    LET w == pc[c].w IN
    /\ pc[c].call = "Start" /\ pc[c].at = "select" /\ quitMu[w] = Nobody
    /\ \/ /\ quit[w] \in closed[w]
          /\ quitMu' = [quitMu EXCEPT ![w] = c]
          /\ Goes(c, "wait") /\ UNCHANGED started
       \/ /\ quit[w] \notin closed[w] /\ started[w]
          /\ Returns(c) /\ UNCHANGED <<started, quitMu>>
       \/ /\ quit[w] \notin closed[w] /\ ~started[w]
          /\ started' = [started EXCEPT ![w] = TRUE]
          /\ Goes(c, "add") /\ UNCHANGED quitMu
    /\ UNCHANGED <<made, quit, closed, wg, gor, starts, panic>>

\* Slip: one goroutine is announced, two are started.
StartAddOne(c) ==
    /\ pc[c].at = "add"
    /\ wg' = [wg EXCEPT ![pc[c].w] = @ + 1]
    /\ Goes(c, "go")
    /\ UNCHANGED <<made, started, quit, closed, quitMu, gor, starts, panic>>

\* quitMu is already released.
StartAdd(c) ==
    /\ pc[c].at = "add"
    /\ wg' = [wg EXCEPT ![pc[c].w] = @ + 2]
    /\ Goes(c, "go")
    /\ UNCHANGED <<made, started, quit, closed, quitMu, gor, starts, panic>>

StartGo(c) ==
    LET w == pc[c].w
        run == 1 + Cardinality({r \in 1 .. MaxStarts : gor[w][<<"txCreator", r>>] # Unborn})
    IN
    /\ pc[c].at = "go"
    /\ gor' = [gor EXCEPT ![w] = [g \in Goroutines |->
          IF g[2] = run THEN [st |-> "born", ch |-> 0] ELSE @[g]]]
    /\ Returns(c)
    /\ UNCHANGED <<made, started, quit, closed, quitMu, wg, starts, panic>>

StopCall(c, w) ==
    /\ w \in made /\ c \in Stoppers
    /\ Calls(c, "Stop", "quitChan", w)
    /\ UNCHANGED <<walletVars, panic>>

StopQuitChan(c) ==
    LET w == pc[c].w IN
    /\ pc[c].at = "quitChan" /\ quitMu[w] = Nobody
    /\ pc' = [pc EXCEPT ![c].at = "select", ![c].ch = quit[w]]
    /\ UNCHANGED <<walletVars, panic>>

\* Slip: the channel is closed without looking.
StopSelectUnchecked(c) ==
    /\ pc[c].call = "Stop" /\ pc[c].at = "select"
    /\ Goes(c, "close")
    /\ UNCHANGED <<walletVars, panic>>

StopSelect(c) ==
    /\ pc[c].call = "Stop" /\ pc[c].at = "select"
    /\ \/ pc[c].ch \in closed[pc[c].w] /\ Returns(c)
       \/ pc[c].ch \notin closed[pc[c].w] /\ Goes(c, "close")
    /\ UNCHANGED <<walletVars, panic>>

\* Nothing keeps a second Stop from closing the channel after this one looked.
StopClose(c) ==
    LET w == pc[c].w IN
    /\ pc[c].at = "close"
    /\ IF pc[c].ch \in closed[w] THEN Panics("closeOfClosedChannel")
       ELSE /\ closed' = [closed EXCEPT ![w] = @ \cup {pc[c].ch}]
            /\ Returns(c)
            /\ UNCHANGED <<made, started, quit, quitMu, wg, gor, starts, panic>>

WaitCall(c, w) ==
    /\ w \in made
    /\ Calls(c, "WaitForShutdown", "wait", w)
    /\ UNCHANGED <<walletVars, panic>>

\* wg.Wait returns: Start then makes the new channel and releases quitMu.
WaitReturns(c) ==
    LET w == pc[c].w IN
    IF pc[c].call = "Start"
    THEN /\ quit' = [quit EXCEPT ![w] = @ + 1]
         /\ quitMu' = [quitMu EXCEPT ![w] = Nobody]
         /\ Goes(c, "add")
         /\ UNCHANGED <<made, started, closed, wg, gor, starts, panic>>
    ELSE Returns(c) /\ UNCHANGED <<walletVars, panic>>

WaitForShutdown(c) ==
    /\ pc[c].at = "wait"
    /\ IF wg[pc[c].w] = 0 THEN WaitReturns(c)
       ELSE Goes(c, "asleep") /\ UNCHANGED <<walletVars, panic>>

\* A woken waiter that finds the WaitGroup in use again panics.
WaitWakes(c) ==
    /\ pc[c].at = "woken"
    /\ IF wg[pc[c].w] = 0 THEN WaitReturns(c) ELSE Panics("WaitGroupReused")

\* The send to unlockRequests, which is nil.
UnlockCall(c, w) ==
    /\ w \in made
    /\ Calls(c, "Unlock", "nilChannel", w)
    /\ UNCHANGED <<walletVars, panic>>

-----------------------------------------------------------------------------
(* txCreator and walletLocker.                                             *)

quitChan(w, g) ==
    /\ gor[w][g].st = "born" /\ quitMu[w] = Nobody
    /\ gor' = [gor EXCEPT ![w][g] = [st |-> "waiting", ch |-> quit[w]]]
    /\ UNCHANGED <<made, started, quit, closed, quitMu, wg, starts, pc, panic>>

\* Slip: the channel is read again, under quitMu, in every turn of the loop.
QuitRereads(w, g) ==
    /\ gor[w][g].st = "waiting" /\ quit[w] \in closed[w] /\ quitMu[w] = Nobody
    /\ gor' = [gor EXCEPT ![w][g].st = "done"]
    /\ wg' = [wg EXCEPT ![w] = @ - 1]
    /\ pc' = [c \in Callers |->
          IF pc[c].at = "asleep" /\ pc[c].w = w /\ wg[w] = 1
          THEN [pc[c] EXCEPT !.at = "woken"] ELSE pc[c]]
    /\ UNCHANGED <<made, started, quit, closed, quitMu, starts, panic>>

\* quit is closed: wg.Done, which wakes the waiters when it is the last.
Quit(w, g) ==
    /\ gor[w][g].st = "waiting" /\ gor[w][g].ch \in closed[w]
    /\ gor' = [gor EXCEPT ![w][g].st = "done"]
    /\ wg' = [wg EXCEPT ![w] = @ - 1]
    /\ pc' = [c \in Callers |->
          IF pc[c].at = "asleep" /\ pc[c].w = w /\ wg[w] = 1
          THEN [pc[c] EXCEPT !.at = "woken"] ELSE pc[c]]
    /\ UNCHANGED <<made, started, quit, closed, quitMu, starts, panic>>

-----------------------------------------------------------------------------
\* What a caller does inside a call of a Wallet method.
CallerStep(c) ==
    \/ StartSelect(c) \/ StartAdd(c) \/ StartGo(c)
    \/ StopQuitChan(c) \/ StopSelect(c) \/ StopClose(c)
    \/ WaitForShutdown(c) \/ WaitWakes(c)

GoroutineStep(w, g) == quitChan(w, g) \/ Quit(w, g)

LifecycleNext ==
    /\ panic = "none"
    /\ \/ \E w \in Wallets : NewWallet(w) /\ UNCHANGED <<pc, panic>>
       \/ \E c \in Callers : CallerStep(c)
       \/ \E c \in Callers, w \in Wallets :
             StartCall(c, w) \/ StopCall(c, w) \/ WaitCall(c, w) \/ UnlockCall(c, w)
       \/ \E w \in Wallets, g \in Goroutines : GoroutineStep(w, g)

\* The Go scheduler runs every goroutine that can run.
LifecycleFairness ==
    \A w \in Wallets, g \in Goroutines :
        WF_lifecycleVars(panic = "none" /\ GoroutineStep(w, g))

LifecycleSpec == LifecycleInit /\ [][LifecycleNext]_lifecycleVars /\ LifecycleFairness

-----------------------------------------------------------------------------
(* Properties.                                                             *)

PcType ==
    [call : {"none", "Start", "Stop", "WaitForShutdown", "Unlock"},
     at : {"idle", "select", "wait", "asleep", "woken", "add", "go", "quitChan",
           "close", "nilChannel"},
     w : Wallets \cup {Nobody}, ch : Chans]

WalletsTypeOK ==
    /\ made \subseteq Wallets
    /\ started \in [Wallets -> BOOLEAN]
    /\ quit \in [Wallets -> Chans]
    /\ closed \in [Wallets -> SUBSET Chans]
    /\ quitMu \in [Wallets -> Callers \cup {Nobody}]
    /\ wg \in [Wallets -> Nat]
    /\ gor \in [Wallets -> [Goroutines ->
                   [st : {"none", "born", "waiting", "done"}, ch : Chans]]]
    /\ starts \in [Wallets -> 0 .. MaxStarts]
    /\ pc \in [Callers -> PcType]

\* Every variable of the Wallets and of their callers keeps its type; the
\* WaitGroup counter is never negative, which would be a panic.
LifecycleTypeOK ==
    WalletsTypeOK /\ panic \in {"none", "closeOfClosedChannel", "WaitGroupReused"}

\* wg counts the goroutines that live or are about to be started, so that
\* WaitForShutdown cannot return while one that was announced is running,
\* whatever Start and Stop calls overlap.
CounterCoversGoroutines ==
    \A w \in Wallets :
        wg[w] = Cardinality(Live(w))
                + 2 * Cardinality({c \in Callers : pc[c].at = "go" /\ pc[c].w = w})

\* No goroutine waits on a channel that a restart replaced: the Stop that
\* closes the current channel reaches every goroutine, those of an earlier
\* Start that was overtaken by a Stop and a restart too.
StopReachesEveryone ==
    \A w \in Wallets :
        /\ \A g \in Goroutines : gor[w][g].st = "waiting" => gor[w][g].ch = quit[w]
        /\ \A k \in Chans : k < quit[w] => k \in closed[w]

\* The channel is closed once as long as the calls of Stop do not overlap
\* (one stopper), however they interleave with Start.
NoDoubleClose == panic # "closeOfClosedChannel"

\* A goroutine that has its quit channel ends once it is closed, even while a
\* restart holds quitMu and waits for it.
GoroutinesEnd ==
    \A w \in Wallets, g \in Goroutines :
        (gor[w][g].st = "waiting" /\ gor[w][g].ch \in closed[w])
            ~> (gor[w][g].st = "done" \/ panic # "none")

-----------------------------------------------------------------------------
(* Inductive strengthening, for the proofs.                                *)

\* The callers inside Start, those that may still make a channel, and those
\* that have announced goroutines and not started them.
Starting(w) == {c \in Callers : pc[c].call = "Start" /\ pc[c].w = w}
Selecting(w) == {c \in Starting(w) : pc[c].at \in {"select", "wait", "asleep", "woken"}}
Going(w) == {c \in Callers : pc[c].at = "go" /\ pc[c].w = w}

\* Runs are numbered without gaps, and every Start has a number for a run and
\* for a channel; the counter and the channels are as the properties say.
WalletInv(w) ==
    /\ \E n \in 0 .. MaxStarts :
          /\ \A g \in Goroutines : gor[w][g].st # "none" <=> g[2] <= n
          /\ n + Cardinality(Starting(w)) <= starts[w]
    /\ quit[w] + Cardinality(Selecting(w)) <= starts[w]
    /\ \A g \in Goroutines : gor[w][g].st = "none" => gor[w][g] = Unborn
    /\ wg[w] = Cardinality(Live(w)) + 2 * Cardinality(Going(w))
    /\ \A g \in Goroutines : gor[w][g].st = "waiting" => gor[w][g].ch = quit[w]
    /\ \A k \in Chans : k < quit[w] => k \in closed[w]

\* A Start that waits for the previous run holds quitMu, and the channel it is
\* about to replace is closed.
CallerInv(c) ==
    /\ pc[c].at = "idle" => pc[c] = Idle
    /\ pc[c].at # "idle" => pc[c].w \in made
    /\ pc[c].at \in {"add", "go"} => pc[c].call = "Start"
    /\ pc[c].at \in {"quitChan", "close"} => pc[c].call = "Stop"
    /\ pc[c].at \in {"wait", "asleep", "woken"} => pc[c].call \in {"Start", "WaitForShutdown"}
    /\ (pc[c].at \in {"wait", "asleep", "woken"} /\ pc[c].call = "Start") =>
          quitMu[pc[c].w] = c /\ quit[pc[c].w] \in closed[pc[c].w]
    /\ pc[c].call = "Stop" => c \in Stoppers

\* Inductive.
LifecycleInv ==
    /\ WalletsTypeOK
    /\ \A w \in Wallets : WalletInv(w)
    /\ \A c \in Callers : CallerInv(c)

\* Inductive with LifecycleInv when one caller stops: nobody closes the channel
\* after it was looked at.
CloseInv == \A c \in Callers : pc[c].at = "close" => pc[c].ch \notin closed[pc[c].w]
=============================================================================
