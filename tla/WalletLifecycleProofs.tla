------------------------ MODULE WalletLifecycleProofs ------------------------
(***************************************************************************)
(* What holds of the Wallets and their goroutines whatever the number of   *)
(* Wallets, callers and Start calls.  LifecycleInv is inductive; it does   *)
(* not mention `panic', so that the Loader's proofs can use it too.        *)
(***************************************************************************)
EXTENDS WalletLifecycle, FiniteSetTheorems, TLAPS

\* A step of caller c leaves the other callers where they are.
Others(c) == \A d \in Callers : d # c => pc'[d] = pc[d]

Waits == {"wait", "asleep", "woken"}

-----------------------------------------------------------------------------
(* Counting.                                                               *)

\* A part of a finite set has no more elements than the set.
LEMMA CountPart ==
    ASSUME NEW S, IsFiniteSet(S), NEW T, T \subseteq S
    PROVE  /\ IsFiniteSet(T)
           /\ Cardinality(S) \in Nat /\ Cardinality(T) \in Nat
           /\ Cardinality(T) <= Cardinality(S)
  BY FS_Subset, FS_CardinalityType

\* A set without one of its elements has one element less.
LEMMA CountOut ==
    ASSUME NEW S, IsFiniteSet(S), NEW x \in S
    PROVE  Cardinality(S) \in Nat \ {0} /\ Cardinality(S \ {x}) = Cardinality(S) - 1
  <1>1. IsFiniteSet(S \ {x}) /\ Cardinality(S \ {x}) = Cardinality(S) - 1
    BY FS_RemoveElement
  <1>2. Cardinality(S) \in Nat /\ Cardinality(S \ {x}) \in Nat
    BY <1>1, FS_CardinalityType
  <1> QED
    BY <1>1, <1>2

\* A set with a new element has one element more.
LEMMA CountIn ==
    ASSUME NEW S, IsFiniteSet(S), NEW x, x \notin S
    PROVE  /\ IsFiniteSet(S \cup {x})
           /\ Cardinality(S) \in Nat
           /\ Cardinality(S \cup {x}) = Cardinality(S) + 1
  BY FS_AddElement, FS_CardinalityType

\* The callers in a method and the goroutines of a Wallet are finitely many.
LEMMA FinitelyMany ==
    ASSUME NEW w
    PROVE  /\ IsFiniteSet(Starting(w)) /\ IsFiniteSet(Selecting(w))
           /\ IsFiniteSet(Going(w)) /\ IsFiniteSet(Live(w))
           /\ Cardinality(Starting(w)) \in Nat /\ Cardinality(Selecting(w)) \in Nat
           /\ Cardinality(Going(w)) \in Nat /\ Cardinality(Live(w)) \in Nat
  <1>1. IsFiniteSet(Callers)
    BY LifecycleAssumption
  <1>2. IsFiniteSet({"txCreator", "walletLocker"}) /\ IsFiniteSet(1 .. MaxStarts)
    <2>1. IsFiniteSet({"txCreator"})
      BY FS_Singleton
    <2>2. IsFiniteSet({"txCreator"} \cup {"walletLocker"})
      BY <2>1, FS_AddElement
    <2>3. {"txCreator"} \cup {"walletLocker"} = {"txCreator", "walletLocker"}
      OBVIOUS
    <2> QED
      BY <2>2, <2>3, FS_Interval, LifecycleAssumption
  <1>3. IsFiniteSet(Goroutines)
    BY <1>2, FS_Product DEF Goroutines
  <1>4. Live(w) \subseteq Goroutines /\ Going(w) \subseteq Callers
        /\ Starting(w) \subseteq Callers /\ Selecting(w) \subseteq Callers
    BY DEF Live, Going, Starting, Selecting
  <1> QED
    BY <1>1, <1>3, <1>4, FS_Subset, FS_CardinalityType

-----------------------------------------------------------------------------
(* Frames.                                                                 *)

\* A Wallet keeps its invariant when its fields stay, channels of it may be
\* closed, and callers leave Start without having announced goroutines.
LEMMA WalletKept ==
    ASSUME LifecycleInv, NEW w \in Wallets,
           gor'[w] = gor[w], starts'[w] = starts[w], quit'[w] = quit[w],
           wg'[w] = wg[w], closed[w] \subseteq closed'[w],
           Starting(w)' \subseteq Starting(w), Selecting(w)' \subseteq Selecting(w),
           Going(w)' = Going(w)
    PROVE  WalletInv(w)'
  <1>1. Live(w)' = Live(w)
    BY DEF Live
  <1>2. Cardinality(Starting(w)') <= Cardinality(Starting(w))
        /\ Cardinality(Selecting(w)') <= Cardinality(Selecting(w))
        /\ Cardinality(Starting(w)') \in Nat /\ Cardinality(Selecting(w)') \in Nat
        /\ Cardinality(Starting(w)) \in Nat /\ Cardinality(Selecting(w)) \in Nat
    BY FinitelyMany, CountPart
  <1>3. WalletInv(w) /\ starts[w] \in Nat /\ quit[w] \in Nat /\ MaxStarts \in Nat
    BY LifecycleAssumption DEF LifecycleInv, WalletsTypeOK, Chans
  <1>4. PICK n \in 0 .. MaxStarts :
          /\ \A g \in Goroutines : gor[w][g].st # "none" <=> g[2] <= n
          /\ n + Cardinality(Starting(w)) <= starts[w]
    BY <1>3 DEF WalletInv
  <1>5. n + Cardinality(Starting(w)') <= starts'[w]
    BY <1>2, <1>3, <1>4
  <1>6. quit'[w] + Cardinality(Selecting(w)') <= starts'[w]
    BY <1>2, <1>3 DEF WalletInv
  <1>7. wg'[w] = Cardinality(Live(w)') + 2 * Cardinality(Going(w)')
    BY <1>1, <1>3 DEF WalletInv
  <1> QED
    BY <1>3, <1>4, <1>5, <1>6, <1>7 DEF WalletInv

\* A caller whose own place stays keeps its invariant when no Wallet is lost
\* and what it holds quitMu of is left alone.
LEMMA CallerKept ==
    ASSUME LifecycleInv, NEW d \in Callers, pc'[d] = pc[d], made \subseteq made',
           \A w \in Wallets : quitMu[w] = d => quitMu'[w] = d /\ quit'[w] = quit[w],
           \A w \in Wallets : quitMu[w] = d => closed[w] \subseteq closed'[w]
    PROVE  CallerInv(d)'
  <1>1. CallerInv(d) /\ made \subseteq Wallets
    BY DEF LifecycleInv, WalletsTypeOK
  <1> QED
    BY <1>1 DEF CallerInv

\* A step of c that brings it neither into Start nor to or from the place
\* where goroutines are announced takes at most c out of the counted sets.
LEMMA CallersKept ==
    ASSUME NEW c \in Callers, NEW w, Others(c),
           pc'[c].call = "Start" => pc[c].call = "Start" /\ pc'[c].w = pc[c].w,
           pc'[c].call = "Start" /\ pc'[c].at \in {"select"} \cup Waits =>
               pc[c].at \in {"select"} \cup Waits,
           pc'[c].at # "go", pc[c].at # "go"
    PROVE  /\ Starting(w)' \subseteq Starting(w)
           /\ Selecting(w)' \subseteq Selecting(w)
           /\ Going(w)' = Going(w)
  BY DEF Others, Starting, Selecting, Going, Waits

\* A caller is at an entry of PcType, and its Wallet is one that exists.
LEMMA CallerAt ==
    ASSUME LifecycleInv, NEW c \in Callers
    PROVE  /\ pc[c] \in PcType /\ CallerInv(c)
           /\ pc[c].at # "idle" => pc[c].w \in made /\ pc[c].w \in Wallets
           /\ pc[c].at = "idle" => pc[c].call = "none"
           /\ c # Nobody
  BY LifecycleAssumption DEF LifecycleInv, WalletsTypeOK, CallerInv, Idle

\* A step that leaves the Wallets and their callers alone.
LEMMA Stays ==
    ASSUME LifecycleInv,
           UNCHANGED <<made, started, quit, closed, quitMu, wg, gor, starts, pc>>
    PROVE  LifecycleInv'
  <1>1. WalletsTypeOK'
    BY DEF LifecycleInv, WalletsTypeOK
  <1>2. ASSUME NEW w \in Wallets PROVE WalletInv(w)'
    <2>1. Starting(w)' = Starting(w) /\ Selecting(w)' = Selecting(w)
          /\ Going(w)' = Going(w)
      BY DEF Starting, Selecting, Going
    <2> QED
      BY <2>1, WalletKept
  <1>3. ASSUME NEW c \in Callers PROVE CallerInv(c)'
    BY CallerKept
  <1> QED
    BY <1>1, <1>2, <1>3 DEF LifecycleInv

-----------------------------------------------------------------------------
(* Steps of a caller that announce and start no goroutine.                 *)

\* Such a step keeps the invariant if it keeps the caller's own part.
LEMMA Moves ==
    ASSUME LifecycleInv, NEW c \in Callers, NEW r \in PcType,
           pc' = [pc EXCEPT ![c] = r],
           r.call = "Start" => pc[c].call = "Start" /\ r.w = pc[c].w,
           r.call = "Start" /\ r.at \in {"select"} \cup Waits =>
               pc[c].at \in {"select"} \cup Waits,
           r.at # "go", pc[c].at # "go",
           UNCHANGED <<made, quit, wg, gor, starts>>,
           started' \in [Wallets -> BOOLEAN],
           closed' \in [Wallets -> SUBSET Chans],
           \A w \in Wallets : closed[w] \subseteq closed'[w],
           quitMu' \in [Wallets -> Callers \cup {Nobody}],
           \A w \in Wallets : quitMu[w] \notin {Nobody, c} => quitMu'[w] = quitMu[w],
           CallerInv(c)'
    PROVE  LifecycleInv'
  <1>1. WalletsTypeOK /\ pc' \in [Callers -> PcType]
    BY DEF LifecycleInv, WalletsTypeOK
  <1>2. pc'[c] = r /\ Others(c)
    BY <1>1 DEF Others, WalletsTypeOK
  <1>3. WalletsTypeOK'
    BY <1>1 DEF WalletsTypeOK
  <1>4. ASSUME NEW w \in Wallets PROVE WalletInv(w)'
    <2>1. /\ Starting(w)' \subseteq Starting(w)
          /\ Selecting(w)' \subseteq Selecting(w)
          /\ Going(w)' = Going(w)
      BY <1>2, CallersKept
    <2> QED
      BY <2>1, WalletKept
  <1>5. ASSUME NEW d \in Callers PROVE CallerInv(d)'
    <2>1. CASE d = c
      BY <2>1
    <2>2. CASE d # c
      <3>1. d # Nobody
        BY CallerAt
      <3>2. pc'[d] = pc[d]
        BY <2>2, <1>2 DEF Others
      <3> QED
        BY <2>2, <3>1, <3>2, CallerKept
    <2> QED
      BY <2>1, <2>2
  <1> QED
    BY <1>3, <1>4, <1>5 DEF LifecycleInv

\* A step that changes the caller's place alone.
LEMMA MovesOnly ==
    ASSUME LifecycleInv, NEW c \in Callers, NEW r \in PcType,
           pc' = [pc EXCEPT ![c] = r],
           r.call # "Start", r.at # "go", pc[c].at # "go",
           r.at = "idle" => r = Idle,
           r.at # "idle" => r.w \in made,
           r.at # "add",
           r.at \in {"quitChan", "close"} => r.call = "Stop",
           r.at \in Waits => r.call = "WaitForShutdown",
           r.call = "Stop" => c \in Stoppers,
           UNCHANGED walletVars
    PROVE  LifecycleInv'
  <1>1. WalletsTypeOK /\ UNCHANGED <<made, started, quit, closed, quitMu, wg, gor, starts>>
    BY DEF LifecycleInv, walletVars
  <1>2. pc'[c] = r
    BY <1>1 DEF WalletsTypeOK
  <1>3. CallerInv(c)'
    BY <1>1, <1>2 DEF CallerInv, Waits
  <1> HIDE DEF walletVars
  <1> QED
    BY <1>1, <1>3, Moves DEF WalletsTypeOK

\* Idle is a place a caller can be at.
LEMMA IdleType == Idle \in PcType
  BY LifecycleAssumption DEF Idle, PcType, Chans

\* A method that is not Start returns.
LEMMA ReturnsKept ==
    ASSUME LifecycleInv, NEW c \in Callers, pc[c].at # "go", Returns(c),
           UNCHANGED walletVars
    PROVE  LifecycleInv'
  <1>1. pc' = [pc EXCEPT ![c] = Idle]
    BY DEF Returns
  <1>2. Idle.call = "none" /\ Idle.at = "idle"
    BY DEF Idle
  <1> QED
    BY <1>1, <1>2, IdleType, MovesOnly DEF Waits

\* Stop, WaitForShutdown and Unlock are called.
LEMMA CallsKept ==
    ASSUME LifecycleInv, NEW c \in Callers, NEW w \in Wallets,
           StopCall(c, w) \/ WaitCall(c, w) \/ UnlockCall(c, w)
    PROVE  LifecycleInv'
  <1>1. CASE StopCall(c, w)
    <2> DEFINE r == [call |-> "Stop", at |-> "quitChan", w |-> w, ch |-> 0]
    <2>1. r \in PcType /\ r.call = "Stop" /\ r.at = "quitChan" /\ r.w = w
      BY LifecycleAssumption DEF PcType, Chans
    <2>2. /\ pc' = [pc EXCEPT ![c] = r] /\ pc[c] = Idle
          /\ w \in made /\ UNCHANGED walletVars
      BY <1>1 DEF StopCall, Calls
    <2>3. pc[c].at = "idle"
      BY <2>2 DEF Idle
    <2> HIDE DEF r
    <2> QED
      BY <1>1, <2>1, <2>2, <2>3, MovesOnly DEF Waits, StopCall
  <1>2. CASE WaitCall(c, w)
    <2> DEFINE r == [call |-> "WaitForShutdown", at |-> "wait", w |-> w, ch |-> 0]
    <2>1. r \in PcType /\ r.call = "WaitForShutdown" /\ r.at = "wait" /\ r.w = w
      BY LifecycleAssumption DEF PcType, Chans
    <2>2. /\ pc' = [pc EXCEPT ![c] = r] /\ pc[c] = Idle
          /\ w \in made /\ UNCHANGED walletVars
      BY <1>2 DEF WaitCall, Calls
    <2>3. pc[c].at = "idle"
      BY <2>2 DEF Idle
    <2> HIDE DEF r
    <2> QED
      BY <1>2, <2>1, <2>2, <2>3, MovesOnly DEF Waits
  <1>3. CASE UnlockCall(c, w)
    <2>3. pc[c] = Idle /\ pc[c].at = "idle"
      BY <1>3 DEF UnlockCall, Calls, Idle
    <2> DEFINE r == [call |-> "Unlock", at |-> "nilChannel", w |-> w, ch |-> 0]
    <2>1. r \in PcType /\ r.call = "Unlock" /\ r.at = "nilChannel" /\ r.w = w
      BY LifecycleAssumption DEF PcType, Chans
    <2>2. /\ pc' = [pc EXCEPT ![c] = r] /\ pc[c] = Idle
          /\ w \in made /\ UNCHANGED walletVars
      BY <1>3 DEF UnlockCall, Calls
    <2> HIDE DEF r
    <2> QED
      BY <1>3, <2>1, <2>2, <2>3, MovesOnly DEF Waits
  <1> QED
    BY <1>1, <1>2, <1>3

\* Stop reads the channel and looks at it.
LEMMA StopKept ==
    ASSUME LifecycleInv, NEW c \in Callers, StopQuitChan(c) \/ StopSelect(c)
    PROVE  LifecycleInv'
  <1>1. pc[c] \in PcType /\ CallerInv(c)
        /\ (pc[c].at # "idle" => pc[c].w \in made /\ pc[c].w \in Wallets)
        /\ (pc[c].at = "idle" => pc[c].call = "none")
    BY CallerAt
  <1>2. CASE StopQuitChan(c)
    <2> DEFINE r == [pc[c] EXCEPT !.at = "select", !.ch = quit[pc[c].w]]
    <2>1. pc[c].at = "quitChan" /\ pc[c].call = "Stop" /\ c \in Stoppers
      BY <1>1, <1>2 DEF StopQuitChan, CallerInv
    <2>2. quit[pc[c].w] \in Chans
      BY <1>1, <2>1 DEF LifecycleInv, WalletsTypeOK
    <2>3. r \in PcType /\ r.call = "Stop" /\ r.at = "select" /\ r.w = pc[c].w
      BY <1>1, <2>1, <2>2 DEF PcType
    <2>4. pc' = [pc EXCEPT ![c] = r] /\ UNCHANGED walletVars
      BY <1>2, <1>1 DEF StopQuitChan, PcType
    <2> HIDE DEF r
    <2> QED
      BY <1>1, <2>1, <2>3, <2>4, MovesOnly DEF Waits
  <1>3. CASE StopSelect(c)
    <2>1. pc[c].at = "select" /\ pc[c].call = "Stop" /\ UNCHANGED walletVars
          /\ c \in Stoppers /\ (Returns(c) \/ Goes(c, "close"))
      BY <1>1, <1>3 DEF StopSelect, CallerInv
    <2>2. CASE Returns(c)
      BY <2>1, <2>2, ReturnsKept
    <2>3. CASE Goes(c, "close")
      <3> DEFINE r == [pc[c] EXCEPT !.at = "close"]
      <3>1. r \in PcType /\ r.call = "Stop" /\ r.at = "close" /\ r.w = pc[c].w
        BY <1>1, <2>1 DEF PcType
      <3>2. pc' = [pc EXCEPT ![c] = r]
        BY <2>3 DEF Goes
      <3> HIDE DEF r
      <3> QED
        BY <1>1, <2>1, <3>1, <3>2, MovesOnly DEF Waits
    <2> QED
      BY <2>1, <2>2, <2>3
  <1> QED
    BY <1>2, <1>3

\* Stop closes the channel, or panics.
LEMMA StopCloseKept ==
    ASSUME LifecycleInv, NEW c \in Callers, StopClose(c)
    PROVE  LifecycleInv'
  <1>1. /\ pc[c] \in PcType /\ pc[c].at = "close"
        /\ pc[c].w \in made /\ pc[c].w \in Wallets
    BY CallerAt DEF StopClose
  <1>2. CASE pc[c].ch \in closed[pc[c].w]
    <2>1. UNCHANGED <<made, started, quit, closed, quitMu, wg, gor, starts, pc>>
      BY <1>2 DEF StopClose, Panics, walletVars
    <2> QED
      BY <2>1, Stays
  <1>3. CASE pc[c].ch \notin closed[pc[c].w]
    <2>1. /\ closed' = [closed EXCEPT ![pc[c].w] = @ \cup {pc[c].ch}]
          /\ pc' = [pc EXCEPT ![c] = Idle]
          /\ UNCHANGED <<made, started, quit, quitMu, wg, gor, starts>>
      BY <1>3 DEF StopClose, Returns
    <2>2. WalletsTypeOK /\ pc[c].ch \in Chans
      BY <1>1 DEF LifecycleInv, PcType
    <2>3. /\ closed' \in [Wallets -> SUBSET Chans]
          /\ \A w \in Wallets : closed[w] \subseteq closed'[w]
      BY <2>1, <2>2, <1>1 DEF WalletsTypeOK
    <2>4. pc'[c] = Idle /\ Idle.call = "none" /\ Idle.at = "idle"
      BY <2>1, <2>2 DEF WalletsTypeOK, Idle
    <2>5. CallerInv(c)'
      BY <2>4 DEF CallerInv
    <2>6. started' \in [Wallets -> BOOLEAN] /\ quitMu' \in [Wallets -> Callers \cup {Nobody}]
      BY <2>1, <2>2 DEF WalletsTypeOK
    <2> QED
      BY <1>1, <2>1, <2>3, <2>4, <2>5, <2>6, IdleType, Moves
  <1> QED
    BY <1>2, <1>3

\* Start looks at the channel, under quitMu, and waits, goes on or returns.
LEMMA StartSelectKept ==
    ASSUME LifecycleInv, NEW c \in Callers, StartSelect(c)
    PROVE  LifecycleInv'
  <1> DEFINE w == pc[c].w
  <1>1. /\ pc[c] \in PcType /\ CallerInv(c) /\ c # Nobody
        /\ pc[c].at = "select" /\ pc[c].call = "Start"
        /\ w \in made /\ w \in Wallets /\ quitMu[w] = Nobody
    BY CallerAt DEF StartSelect
  <1>2. WalletsTypeOK /\ UNCHANGED <<made, quit, closed, wg, gor, starts>>
    BY DEF LifecycleInv, StartSelect
  <1>3. CASE /\ quit[w] \in closed[w]
             /\ quitMu' = [quitMu EXCEPT ![w] = c]
             /\ Goes(c, "wait") /\ UNCHANGED started
    <2> DEFINE r == [pc[c] EXCEPT !.at = "wait"]
    <2>1. r \in PcType /\ r.call = "Start" /\ r.at = "wait" /\ r.w = w
      BY <1>1 DEF PcType
    <2>2. pc' = [pc EXCEPT ![c] = r]
      BY <1>3 DEF Goes
    <2> HIDE DEF r
    <2>3. pc'[c] = r /\ quitMu'[w] = c
      BY <2>2, <1>1, <1>2, <1>3 DEF WalletsTypeOK
    <2>4. CallerInv(c)'
      BY <1>1, <1>2, <1>3, <2>1, <2>3 DEF CallerInv
    <2>5. /\ quitMu' \in [Wallets -> Callers \cup {Nobody}]
          /\ \A v \in Wallets : quitMu[v] \notin {Nobody, c} => quitMu'[v] = quitMu[v]
          /\ started' \in [Wallets -> BOOLEAN] /\ closed' \in [Wallets -> SUBSET Chans]
          /\ \A v \in Wallets : closed[v] \subseteq closed'[v]
      BY <1>1, <1>2, <1>3 DEF WalletsTypeOK
    <2> QED
      BY <1>1, <1>2, <2>1, <2>2, <2>4, <2>5, Moves DEF Waits
  <1>4. CASE Returns(c) /\ UNCHANGED <<started, quitMu>>
    BY <1>1, <1>2, <1>4, ReturnsKept DEF walletVars
  <1>5. CASE /\ started' = [started EXCEPT ![w] = TRUE]
             /\ Goes(c, "add") /\ UNCHANGED quitMu
    <2> DEFINE r == [pc[c] EXCEPT !.at = "add"]
    <2>1. r \in PcType /\ r.call = "Start" /\ r.at = "add" /\ r.w = w
      BY <1>1 DEF PcType
    <2>2. pc' = [pc EXCEPT ![c] = r]
      BY <1>5 DEF Goes
    <2> HIDE DEF r
    <2>3. pc'[c] = r
      BY <2>2, <1>1, <1>2 DEF WalletsTypeOK
    <2>4. CallerInv(c)'
      BY <1>1, <1>2, <2>1, <2>3 DEF CallerInv
    <2>5. /\ quitMu' \in [Wallets -> Callers \cup {Nobody}]
          /\ \A v \in Wallets : quitMu[v] \notin {Nobody, c} => quitMu'[v] = quitMu[v]
          /\ started' \in [Wallets -> BOOLEAN] /\ closed' \in [Wallets -> SUBSET Chans]
          /\ \A v \in Wallets : closed[v] \subseteq closed'[v]
      BY <1>1, <1>2, <1>5 DEF WalletsTypeOK
    <2> QED
      BY <1>1, <1>2, <2>1, <2>2, <2>4, <2>5, Moves DEF Waits
  <1> QED
    BY <1>3, <1>4, <1>5 DEF StartSelect

\* A caller falls asleep in wg.Wait.
LEMMA SleepKept ==
    ASSUME LifecycleInv, NEW c \in Callers, pc[c].at = "wait", Goes(c, "asleep"),
           UNCHANGED walletVars
    PROVE  LifecycleInv'
  <1> DEFINE r == [pc[c] EXCEPT !.at = "asleep"]
  <1>1. pc[c] \in PcType /\ CallerInv(c) /\ pc[c].w \in made /\ WalletsTypeOK
    BY CallerAt DEF LifecycleInv
  <1>2. UNCHANGED <<made, started, quit, closed, quitMu, wg, gor, starts>>
    BY DEF walletVars
  <1>3. r \in PcType /\ r.call = pc[c].call /\ r.at = "asleep" /\ r.w = pc[c].w
    BY <1>1 DEF PcType
  <1>4. pc' = [pc EXCEPT ![c] = r]
    BY DEF Goes
  <1> HIDE DEF r
  <1>5. pc'[c] = r
    BY <1>1, <1>4 DEF WalletsTypeOK
  <1>6. CallerInv(c)'
    BY <1>1, <1>2, <1>3, <1>5 DEF CallerInv
  <1>7. /\ quitMu' \in [Wallets -> Callers \cup {Nobody}]
        /\ started' \in [Wallets -> BOOLEAN] /\ closed' \in [Wallets -> SUBSET Chans]
    BY <1>1, <1>2 DEF WalletsTypeOK
  <1> QED
    BY <1>2, <1>3, <1>4, <1>6, <1>7, Moves DEF Waits

\* wg.Wait returns with the counter at zero: no goroutine reads the channel
\* that a Start then replaces.
LEMMA WaitReturnsKept ==
    ASSUME LifecycleInv, NEW c \in Callers, pc[c].at \in Waits,
           wg[pc[c].w] = 0, WaitReturns(c)
    PROVE  LifecycleInv'
  <1>0. PICK w \in Wallets : w = pc[c].w
    BY CallerAt DEF Waits
  <1>1. /\ pc[c] \in PcType /\ CallerInv(c) /\ c # Nobody
        /\ w \in made /\ wg[w] = 0 /\ WalletsTypeOK
    BY <1>0, CallerAt DEF LifecycleInv, Waits
  <1>2. CASE pc[c].call # "Start"
    BY <1>2, ReturnsKept DEF WaitReturns, Waits
  <1>3. CASE pc[c].call = "Start"
    <2>1. /\ quit' = [quit EXCEPT ![w] = @ + 1]
          /\ quitMu' = [quitMu EXCEPT ![w] = Nobody]
          /\ Goes(c, "add")
          /\ UNCHANGED <<made, started, closed, wg, gor, starts>>
      BY <1>0, <1>3 DEF WaitReturns
    <2> DEFINE r == [pc[c] EXCEPT !.at = "add"]
    <2>2. r \in PcType /\ r.call = "Start" /\ r.at = "add" /\ r.w = w
      BY <1>0, <1>1, <1>3 DEF PcType
    <2>3. pc' = [pc EXCEPT ![c] = r]
      BY <2>1 DEF Goes
    <2> HIDE DEF r
    <2>4. pc'[c] = r /\ Others(c) /\ pc' \in [Callers -> PcType]
      BY <1>1, <2>2, <2>3 DEF WalletsTypeOK, Others
    <2>5. quitMu[w] = c /\ quit[w] \in closed[w] /\ c \in Selecting(w)
      BY <1>0, <1>1, <1>3 DEF CallerInv, Waits, Selecting, Starting
    <2>6. \A v : /\ Starting(v)' \subseteq Starting(v)
                 /\ Selecting(v)' \subseteq Selecting(v)
                 /\ Going(v)' = Going(v)
      BY <1>0, <1>3, <2>2, <2>4, CallersKept DEF Waits
    <2>7. WalletInv(w) /\ quit[w] \in Nat /\ starts[w] \in 0 .. MaxStarts /\ MaxStarts \in Nat
      BY <1>1, LifecycleAssumption DEF LifecycleInv, WalletsTypeOK, Chans
    <2>8. /\ Cardinality(Selecting(w)') <= Cardinality(Selecting(w)) - 1
          /\ Cardinality(Selecting(w)') \in Nat
          /\ Cardinality(Selecting(w)) \in Nat \ {0}
      <3>1. Selecting(w)' \subseteq Selecting(w) \ {c}
        BY <2>6, <2>2, <2>4 DEF Selecting
      <3>2. IsFiniteSet(Selecting(w) \ {c})
        BY FinitelyMany, CountPart
      <3> QED
        BY <3>1, <3>2, <2>5, FinitelyMany, CountOut, CountPart
    <2>9. quit[w] + 1 <= starts[w]
      BY <2>7, <2>8 DEF WalletInv
    <2>10. WalletsTypeOK'
      <3>1. quit' \in [Wallets -> Chans]
        BY <1>1, <2>1, <2>7, <2>9 DEF WalletsTypeOK, Chans
      <3>2. quitMu' \in [Wallets -> Callers \cup {Nobody}]
        BY <1>1, <2>1 DEF WalletsTypeOK
      <3> QED
        BY <1>1, <2>1, <2>4, <3>1, <3>2 DEF WalletsTypeOK
    <2>11. Live(w) = {}
      BY <2>7, FinitelyMany, FS_EmptySet, <1>1 DEF WalletInv
    <2>12. WalletInv(w)'
      <3>1. quit'[w] = quit[w] + 1 /\ wg'[w] = wg[w] /\ starts'[w] = starts[w]
            /\ gor'[w] = gor[w] /\ closed'[w] = closed[w]
        BY <1>1, <2>1 DEF WalletsTypeOK
      <3>2. Live(w)' = Live(w)
        BY <2>1 DEF Live
      <3>3. \A g \in Goroutines : gor[w][g].st # "waiting"
        BY <2>11 DEF Live
      <3>4. quit'[w] + Cardinality(Selecting(w)') <= starts'[w]
        BY <2>7, <2>8, <3>1 DEF WalletInv
      <3>5. Cardinality(Starting(w)') <= Cardinality(Starting(w))
            /\ Cardinality(Starting(w)') \in Nat /\ Cardinality(Starting(w)) \in Nat
        BY <2>6, FinitelyMany, CountPart
      <3>6. PICK n \in 0 .. MaxStarts :
              /\ \A g \in Goroutines : gor[w][g].st # "none" <=> g[2] <= n
              /\ n + Cardinality(Starting(w)) <= starts[w]
        BY <2>7 DEF WalletInv
      <3>7. n + Cardinality(Starting(w)') <= starts'[w]
        BY <2>7, <3>1, <3>5, <3>6
      <3>8. \A k \in Chans : k < quit'[w] => k \in closed'[w]
        BY <2>5, <2>7, <3>1 DEF WalletInv, Chans
      <3> QED
        BY <2>6, <2>7, <3>1, <3>2, <3>3, <3>4, <3>6, <3>7, <3>8 DEF WalletInv
    <2>13. ASSUME NEW v \in Wallets, v # w PROVE WalletInv(v)'
      BY <1>1, <2>1, <2>6, <2>13, WalletKept DEF WalletsTypeOK
    <2>14. ASSUME NEW d \in Callers, d # c PROVE CallerInv(d)'
      <3>1. pc'[d] = pc[d]
        BY <2>4, <2>14 DEF Others
      <3>2. \A v \in Wallets : quitMu[v] = d => v # w
        BY <2>5, <2>14
      <3> QED
        BY <3>1, <3>2, <1>1, <2>1, CallerKept DEF WalletsTypeOK
    <2>15. CallerInv(c)'
      BY <1>1, <2>1, <2>2, <2>4 DEF CallerInv
    <2> QED
      BY <2>10, <2>12, <2>13, <2>14, <2>15 DEF LifecycleInv
  <1> QED
    BY <1>2, <1>3

\* A caller in wg.Wait goes on, falls asleep, or is woken up.
LEMMA WaitKept ==
    ASSUME LifecycleInv, NEW c \in Callers, WaitForShutdown(c) \/ WaitWakes(c)
    PROVE  LifecycleInv'
  <1>1. CASE WaitForShutdown(c)
    BY <1>1, WaitReturnsKept, SleepKept DEF WaitForShutdown, Waits
  <1>2. CASE WaitWakes(c)
    BY <1>2, WaitReturnsKept, Stays DEF WaitWakes, Waits, Panics, walletVars
  <1> QED
    BY <1>1, <1>2

-----------------------------------------------------------------------------
(* The steps of Start that count.                                          *)

\* A step of c on Wallet w: the other Wallets and callers keep theirs.
LEMMA OneWallet ==
    ASSUME LifecycleInv, NEW c \in Callers, NEW w \in Wallets, NEW r \in PcType,
           pc' = [pc EXCEPT ![c] = r], pc[c].w \in {w, Nobody}, r.w \in {w, Nobody},
           pc[c].w = Nobody => pc[c].at = "idle",
           UNCHANGED <<made, started, quit, closed, quitMu>>,
           \A v \in Wallets : v # w =>
               wg'[v] = wg[v] /\ gor'[v] = gor[v] /\ starts'[v] = starts[v],
           wg' \in [Wallets -> Nat], starts' \in [Wallets -> 0 .. MaxStarts],
           gor' \in [Wallets -> [Goroutines ->
                       [st : {"none", "born", "waiting", "done"}, ch : Chans]]],
           CallerInv(c)', WalletInv(w)'
    PROVE  LifecycleInv'
  <1>1. WalletsTypeOK /\ pc' \in [Callers -> PcType] /\ Nobody \notin Wallets
    BY LifecycleAssumption DEF LifecycleInv, WalletsTypeOK
  <1>2. pc'[c] = r /\ Others(c)
    BY <1>1 DEF Others, WalletsTypeOK
  <1>3. WalletsTypeOK'
    BY <1>1 DEF WalletsTypeOK
  <1>4. ASSUME NEW v \in Wallets, v # w PROVE WalletInv(v)'
    <2>1. Starting(v)' = Starting(v) /\ Selecting(v)' = Selecting(v)
          /\ Going(v)' = Going(v)
      BY <1>1, <1>2, <1>4 DEF Starting, Selecting, Going, Others
    <2> QED
      BY <1>4, <2>1, WalletKept
  <1>5. ASSUME NEW d \in Callers, d # c PROVE CallerInv(d)'
    BY <1>2, <1>5, CallerKept DEF Others
  <1> QED
    BY <1>3, <1>4, <1>5 DEF LifecycleInv

\* Start is called: one number for a run and one for a channel are put by.
LEMMA StartCallKept ==
    ASSUME LifecycleInv, NEW c \in Callers, NEW w \in Wallets, StartCall(c, w)
    PROVE  LifecycleInv'
  <1> DEFINE r == [call |-> "Start", at |-> "select", w |-> w, ch |-> 0]
  <1>1. r \in PcType /\ r.call = "Start" /\ r.at = "select" /\ r.w = w
    BY LifecycleAssumption DEF PcType, Chans
  <1>2. /\ pc' = [pc EXCEPT ![c] = r] /\ pc[c] = Idle
        /\ w \in made /\ starts[w] < MaxStarts
        /\ starts' = [starts EXCEPT ![w] = @ + 1]
        /\ UNCHANGED <<made, started, quit, closed, quitMu, wg, gor>>
    BY DEF StartCall, Calls
  <1>3. pc[c].at = "idle" /\ pc[c].call = "none" /\ pc[c].w = Nobody
    BY <1>2 DEF Idle
  <1> HIDE DEF r
  <1>4. WalletsTypeOK /\ WalletInv(w) /\ MaxStarts \in Nat
    BY LifecycleAssumption DEF LifecycleInv
  <1>5. /\ starts'[w] = starts[w] + 1 /\ starts[w] \in Nat /\ quit[w] \in Nat
        /\ starts' \in [Wallets -> 0 .. MaxStarts]
        /\ \A v \in Wallets : v # w => starts'[v] = starts[v]
    BY <1>2, <1>4 DEF WalletsTypeOK, Chans
  <1>6. pc'[c] = r /\ Others(c)
    BY <1>2, <1>4 DEF WalletsTypeOK, Others
  <1>7. /\ Starting(w)' = Starting(w) \cup {c} /\ c \notin Starting(w)
        /\ Selecting(w)' = Selecting(w) \cup {c} /\ c \notin Selecting(w)
        /\ Going(w)' = Going(w) /\ Live(w)' = Live(w)
    BY <1>1, <1>2, <1>3, <1>6 DEF Starting, Selecting, Going, Live, Others
  <1>8. /\ Cardinality(Starting(w)') = Cardinality(Starting(w)) + 1
        /\ Cardinality(Selecting(w)') = Cardinality(Selecting(w)) + 1
        /\ Cardinality(Starting(w)) \in Nat /\ Cardinality(Selecting(w)) \in Nat
    BY <1>7, FinitelyMany, CountIn
  <1>9. WalletInv(w)'
    <2>1. PICK n \in 0 .. MaxStarts :
            /\ \A g \in Goroutines : gor[w][g].st # "none" <=> g[2] <= n
            /\ n + Cardinality(Starting(w)) <= starts[w]
      BY <1>4 DEF WalletInv
    <2>2. n + Cardinality(Starting(w)') <= starts'[w]
      BY <1>4, <1>5, <1>8, <2>1
    <2>3. quit'[w] + Cardinality(Selecting(w)') <= starts'[w]
      BY <1>2, <1>4, <1>5, <1>8 DEF WalletInv
    <2> QED
      BY <1>2, <1>4, <1>7, <2>1, <2>2, <2>3 DEF WalletInv
  <1>10. CallerInv(c)'
    BY <1>1, <1>2, <1>6 DEF CallerInv
  <1>11. wg' \in [Wallets -> Nat]
         /\ gor' \in [Wallets -> [Goroutines ->
                       [st : {"none", "born", "waiting", "done"}, ch : Chans]]]
    BY <1>2, <1>4 DEF WalletsTypeOK
  <1> QED
    BY <1>1, <1>2, <1>3, <1>5, <1>9, <1>10, <1>11, OneWallet

\* wg.Add(2) announces what the next step starts.
LEMMA StartAddKept ==
    ASSUME LifecycleInv, NEW c \in Callers, StartAdd(c)
    PROVE  LifecycleInv'
  <1>0. PICK w \in Wallets : w = pc[c].w
    BY CallerAt DEF StartAdd
  <1>1. /\ pc[c] \in PcType /\ CallerInv(c) /\ w \in made
        /\ pc[c].at = "add" /\ pc[c].call = "Start"
    BY <1>0, CallerAt DEF StartAdd, CallerInv
  <1> DEFINE r == [pc[c] EXCEPT !.at = "go"]
  <1>2. r \in PcType /\ r.call = "Start" /\ r.at = "go" /\ r.w = w
    BY <1>0, <1>1 DEF PcType
  <1>3. /\ pc' = [pc EXCEPT ![c] = r]
        /\ wg' = [wg EXCEPT ![w] = @ + 2]
        /\ UNCHANGED <<made, started, quit, closed, quitMu, gor, starts>>
    BY <1>0 DEF StartAdd, Goes
  <1> HIDE DEF r
  <1>4. WalletsTypeOK /\ WalletInv(w) /\ MaxStarts \in Nat
    BY LifecycleAssumption DEF LifecycleInv
  <1>5. /\ wg'[w] = wg[w] + 2 /\ wg[w] \in Nat
        /\ wg' \in [Wallets -> Nat]
        /\ \A v \in Wallets : v # w => wg'[v] = wg[v]
    BY <1>3, <1>4 DEF WalletsTypeOK
  <1>6. pc'[c] = r /\ Others(c)
    BY <1>3, <1>4 DEF WalletsTypeOK, Others
  <1>7. /\ Starting(w)' = Starting(w) /\ Selecting(w)' = Selecting(w)
        /\ Going(w)' = Going(w) \cup {c} /\ c \notin Going(w) /\ Live(w)' = Live(w)
    BY <1>0, <1>1, <1>2, <1>3, <1>6 DEF Starting, Selecting, Going, Live, Others
  <1>8. /\ Cardinality(Going(w)') = Cardinality(Going(w)) + 1
        /\ Cardinality(Going(w)) \in Nat /\ Cardinality(Live(w)) \in Nat
    BY <1>7, FinitelyMany, CountIn
  <1>9. WalletInv(w)'
    <2>1. wg'[w] = Cardinality(Live(w)') + 2 * Cardinality(Going(w)')
      BY <1>4, <1>5, <1>7, <1>8 DEF WalletInv
    <2> QED
      BY <1>3, <1>4, <1>7, <2>1 DEF WalletInv
  <1>10. CallerInv(c)'
    BY <1>1, <1>2, <1>3, <1>6 DEF CallerInv
  <1>11. starts' \in [Wallets -> 0 .. MaxStarts]
         /\ gor' \in [Wallets -> [Goroutines ->
                       [st : {"none", "born", "waiting", "done"}, ch : Chans]]]
    BY <1>3, <1>4 DEF WalletsTypeOK
  <1> QED
    BY <1>0, <1>1, <1>2, <1>3, <1>5, <1>9, <1>10, <1>11, OneWallet, LifecycleAssumption

\* The two goroutines of a run are born: the run's number is a new one.
LEMMA StartGoKept ==
    ASSUME LifecycleInv, NEW c \in Callers, StartGo(c)
    PROVE  LifecycleInv'
  <1>0. PICK w \in Wallets : w = pc[c].w
    BY CallerAt DEF StartGo
  <1>1. /\ pc[c] \in PcType /\ CallerInv(c) /\ w \in made
        /\ pc[c].at = "go" /\ pc[c].call = "Start"
    BY <1>0, CallerAt DEF StartGo, CallerInv
  <1>2. WalletsTypeOK /\ WalletInv(w) /\ MaxStarts \in Nat \ {0} /\ 0 \in Chans
    BY LifecycleAssumption DEF LifecycleInv, Chans
  <1>3. PICK n \in 0 .. MaxStarts :
          /\ \A g \in Goroutines : gor[w][g].st # "none" <=> g[2] <= n
          /\ n + Cardinality(Starting(w)) <= starts[w]
    BY <1>2 DEF WalletInv
  <1>4. pc' = [pc EXCEPT ![c] = Idle]
        /\ UNCHANGED <<made, started, quit, closed, quitMu, wg, starts>>
    BY DEF StartGo, Returns
  <1>5. pc'[c] = Idle /\ Others(c) /\ Idle.call = "none" /\ Idle.at = "idle"
        /\ Idle.w = Nobody
    BY <1>2, <1>4 DEF WalletsTypeOK, Others, Idle
  <1>6. /\ Starting(w)' = Starting(w) \ {c} /\ c \in Starting(w)
        /\ Selecting(w)' = Selecting(w)
        /\ Going(w)' = Going(w) \ {c} /\ c \in Going(w)
    BY <1>0, <1>1, <1>5 DEF Starting, Selecting, Going, Others
  <1>7. /\ Cardinality(Starting(w)') = Cardinality(Starting(w)) - 1
        /\ Cardinality(Starting(w)) \in Nat \ {0}
        /\ Cardinality(Going(w)') = Cardinality(Going(w)) - 1
        /\ Cardinality(Going(w)) \in Nat \ {0}
    BY <1>6, FinitelyMany, CountOut
  <1>8. starts[w] \in 0 .. MaxStarts /\ n + 1 \in 1 .. MaxStarts
        /\ (n + 1) + Cardinality(Starting(w)') <= starts[w]
    <2>1. starts[w] \in 0 .. MaxStarts
      BY <1>2 DEF WalletsTypeOK
    <2> QED
      BY <2>1, <1>2, <1>3, <1>7
  <1> DEFINE run == 1 + Cardinality({i \in 1 .. MaxStarts :
                                        gor[w][<<"txCreator", i>>] # Unborn})
  <1>9. run = n + 1
    <2>1. \A i \in 1 .. MaxStarts : gor[w][<<"txCreator", i>>] # Unborn <=> i <= n
      <3> TAKE i \in 1 .. MaxStarts
      <3>1. <<"txCreator", i>> \in Goroutines /\ <<"txCreator", i>>[2] = i
        BY DEF Goroutines
      <3>2. gor[w][<<"txCreator", i>>].st # "none" <=> i <= n
        BY <1>3, <3>1
      <3>3. gor[w][<<"txCreator", i>>].st = "none" <=> gor[w][<<"txCreator", i>>] = Unborn
        BY <1>2, <3>1 DEF WalletInv, Unborn
      <3> QED
        BY <3>2, <3>3
    <2>2. {i \in 1 .. MaxStarts : gor[w][<<"txCreator", i>>] # Unborn} = 1 .. n
      BY <2>1, <1>2, <1>3
    <2>3. Cardinality(1 .. n) = n
      BY <1>2, <1>3, FS_Interval
    <2>4. Cardinality({i \in 1 .. MaxStarts : gor[w][<<"txCreator", i>>] # Unborn}) = n
      BY <2>2, <2>3
    <2>5. n \in Nat
      BY <1>2
    <2> QED
      BY <2>4, <2>5
  <1>10. gor' = [gor EXCEPT ![w] = [g \in Goroutines |->
            IF g[2] = n + 1 THEN [st |-> "born", ch |-> 0] ELSE gor[w][g]]]
    BY <1>0, <1>9 DEF StartGo
  <1> HIDE DEF run
  <1>11. /\ \A v \in Wallets : v # w => gor'[v] = gor[v]
         /\ \A g \in Goroutines : gor'[w][g] =
               IF g[2] = n + 1 THEN [st |-> "born", ch |-> 0] ELSE gor[w][g]
         /\ gor' \in [Wallets -> [Goroutines ->
                       [st : {"none", "born", "waiting", "done"}, ch : Chans]]]
    <2>1. [st |-> "born", ch |-> 0] \in [st : {"none", "born", "waiting", "done"}, ch : Chans]
      BY <1>2
    <2>2. gor \in [Wallets -> [Goroutines ->
                       [st : {"none", "born", "waiting", "done"}, ch : Chans]]]
      BY <1>2 DEF WalletsTypeOK
    <2> QED
      BY <2>1, <2>2, <1>10
  <1>12. /\ Cardinality(Live(w)') = Cardinality(Live(w)) + 2
         /\ Cardinality(Live(w)) \in Nat
    <2> DEFINE a == <<"txCreator", n + 1>>
    <2> DEFINE b == <<"walletLocker", n + 1>>
    <2>1. a \in Goroutines /\ b \in Goroutines /\ a # b /\ a[2] = n + 1 /\ b[2] = n + 1
      BY <1>8 DEF Goroutines
    <2>2. \A g \in Goroutines : g[2] = n + 1 <=> g \in {a, b}
      BY <1>8 DEF Goroutines
    <2> HIDE DEF a, b
    <2>3. a \notin Live(w) /\ b \notin Live(w)
      BY <2>1, <1>3 DEF Live
    <2>4. Live(w)' = (Live(w) \cup {a}) \cup {b}
      <3>1. \A g \in Goroutines : g \in {a, b} => gor'[w][g].st = "born"
        BY <1>11, <2>2
      <3>2. \A g \in Goroutines : g \notin {a, b} => gor'[w][g] = gor[w][g]
        BY <1>11, <2>2
      <3> QED
        BY <2>1, <3>1, <3>2 DEF Live
    <2>5. Cardinality(Live(w) \cup {a}) = Cardinality(Live(w)) + 1
          /\ IsFiniteSet(Live(w) \cup {a}) /\ Cardinality(Live(w)) \in Nat
      BY <2>3, FinitelyMany, CountIn
    <2>6. b \notin Live(w) \cup {a}
      BY <2>1, <2>3
    <2> QED
      BY <2>4, <2>5, <2>6, CountIn
  <1>13. WalletInv(w)'
    <2>1. \A g \in Goroutines : g[2] \in Nat
      BY <1>2 DEF Goroutines
    <2>2. \A g \in Goroutines : gor'[w][g].st # "none" <=> g[2] <= n + 1
      <3> TAKE g \in Goroutines
      <3>1. CASE g[2] = n + 1
        BY <3>1, <1>11, <1>8
      <3>2. CASE g[2] # n + 1
        <4>1. gor'[w][g] = gor[w][g] /\ (gor[w][g].st # "none" <=> g[2] <= n)
          BY <3>2, <1>11, <1>3
        <4>2. n \in Nat /\ g[2] \in Nat
          BY <1>2, <2>1
        <4> QED
          BY <3>2, <4>1, <4>2
      <3> QED
        BY <3>1, <3>2
    <2>3. \A g \in Goroutines : gor'[w][g].st = "none" => gor'[w][g] = Unborn
      BY <1>11, <1>2 DEF WalletInv
    <2>4. \A g \in Goroutines : gor'[w][g].st = "waiting" => gor'[w][g].ch = quit'[w]
      BY <1>11, <1>2, <1>4 DEF WalletInv
    <2>5. wg'[w] = Cardinality(Live(w)') + 2 * Cardinality(Going(w)')
      <3>1. wg[w] = Cardinality(Live(w)) + 2 * Cardinality(Going(w))
        BY <1>2 DEF WalletInv
      <3> QED
        BY <3>1, <1>4, <1>7, <1>12
    <2>6. /\ n + 1 \in 0 .. MaxStarts
          /\ (n + 1) + Cardinality(Starting(w)') <= starts'[w]
      BY <1>8, <1>4, <1>2
    <2>7. quit'[w] + Cardinality(Selecting(w)') <= starts'[w]
          /\ \A k \in Chans : k < quit'[w] => k \in closed'[w]
      BY <1>2, <1>4, <1>6 DEF WalletInv
    <2> QED
      BY <2>2, <2>3, <2>4, <2>5, <2>6, <2>7 DEF WalletInv
  <1>14. CallerInv(c)'
    BY <1>5 DEF CallerInv
  <1>15. wg' \in [Wallets -> Nat] /\ starts' \in [Wallets -> 0 .. MaxStarts]
    BY <1>2, <1>4 DEF WalletsTypeOK
  <1> QED
    BY <1>0, <1>1, <1>4, <1>5, <1>11, <1>13, <1>14, <1>15, IdleType, OneWallet,
       LifecycleAssumption

-----------------------------------------------------------------------------
(* New Wallets, and the goroutines.                                        *)

\* A Wallet without callers and goroutines, as OpenWithRetry makes it, has
\* the invariant.
LEMMA FreshWallet ==
    ASSUME NEW w \in Wallets,
           quit[w] = 0, wg[w] = 0, starts[w] = 0, gor[w] = [g \in Goroutines |-> Unborn],
           \A c \in Callers : pc[c].w # w
    PROVE  WalletInv(w)
  <1>1. Starting(w) = {} /\ Selecting(w) = {} /\ Going(w) = {} /\ Live(w) = {}
    BY DEF Starting, Selecting, Going, Live, Unborn
  <1>2. Cardinality({}) = 0
    BY FS_EmptySet
  <1>3. \A g \in Goroutines : g[2] \in Nat \ {0}
    BY LifecycleAssumption DEF Goroutines
  <1>4. \A g \in Goroutines : gor[w][g] = Unborn /\ Unborn.st = "none"
    BY DEF Unborn
  <1>5. \A g \in Goroutines : gor[w][g].st # "none" <=> g[2] <= 0
    BY <1>3, <1>4
  <1>6. 0 \in 0 .. MaxStarts
    BY LifecycleAssumption
  <1>7. \A k \in Chans : ~(k < 0)
    BY LifecycleAssumption DEF Chans
  <1>8. Cardinality(Starting(w)) = 0 /\ Cardinality(Selecting(w)) = 0
        /\ Cardinality(Going(w)) = 0 /\ Cardinality(Live(w)) = 0
    BY <1>1, <1>2
  <1>9. \E n \in 0 .. MaxStarts :
          /\ \A g \in Goroutines : gor[w][g].st # "none" <=> g[2] <= n
          /\ n + Cardinality(Starting(w)) <= starts[w]
    BY <1>5, <1>6, <1>8
  <1>10. wg[w] = Cardinality(Live(w)) + 2 * Cardinality(Going(w))
         /\ quit[w] + Cardinality(Selecting(w)) <= starts[w]
    BY <1>8
  <1>11. \A g \in Goroutines : gor[w][g].st # "waiting"
    BY <1>4
  <1> QED
    BY <1>4, <1>7, <1>9, <1>10, <1>11 DEF WalletInv

\* Initially, and when the process has ended, there is no Wallet and no call.
LEMMA LifecycleInitInv == LifecycleInit => LifecycleInv
  <1> SUFFICES ASSUME LifecycleInit PROVE LifecycleInv
    OBVIOUS
  <1>1. Unborn \in [st : {"none", "born", "waiting", "done"}, ch : Chans] /\ 0 \in Chans
        /\ 0 \in 0 .. MaxStarts
    BY LifecycleAssumption DEF Unborn, Chans
  <1>2. \A c \in Callers : pc[c] = Idle
    BY DEF LifecycleInit
  <1>3. WalletsTypeOK
    BY <1>1, IdleType DEF LifecycleInit, WalletsTypeOK
  <1>4. Idle.w = Nobody /\ Idle.at = "idle" /\ Idle.call = "none"
    BY DEF Idle
  <1>5. ASSUME NEW w \in Wallets PROVE WalletInv(w)
    <2>1. quit[w] = 0 /\ wg[w] = 0 /\ starts[w] = 0 /\ gor[w] = [g \in Goroutines |-> Unborn]
      BY DEF LifecycleInit
    <2>2. \A c \in Callers : pc[c].w # w
      BY <1>2, <1>4, LifecycleAssumption
    <2> QED
      BY <2>1, <2>2, FreshWallet
  <1>6. \A c \in Callers : CallerInv(c)
    BY <1>2, <1>4 DEF CallerInv
  <1> QED
    BY <1>3, <1>5, <1>6 DEF LifecycleInv

\* The end of the process brings the initial state back.
LEMMA ProcessGoneKept ==
    ASSUME ProcessGone
    PROVE  LifecycleInv'
  <1>1. LifecycleInit'
    BY DEF ProcessGone, LifecycleInit
  <1>2. LifecycleInit' => LifecycleInv'
    BY LifecycleInitInv, PTL
  <1> QED
    BY <1>1, <1>2

\* A Wallet is made.
LEMMA NewWalletKept ==
    ASSUME LifecycleInv, NEW w \in Wallets, NewWallet(w), UNCHANGED pc
    PROVE  LifecycleInv'
  <1>1. WalletsTypeOK
    BY DEF LifecycleInv
  <1>2. Unborn \in [st : {"none", "born", "waiting", "done"}, ch : Chans] /\ 0 \in Chans
        /\ 0 \in 0 .. MaxStarts
    BY LifecycleAssumption DEF Unborn, Chans
  <1>3. WalletsTypeOK'
    <2>1. /\ made' \subseteq Wallets
          /\ started' \in [Wallets -> BOOLEAN]
          /\ quit' \in [Wallets -> Chans]
          /\ closed' \in [Wallets -> SUBSET Chans]
      BY <1>1, <1>2 DEF NewWallet, WalletsTypeOK
    <2>2. /\ quitMu' \in [Wallets -> Callers \cup {Nobody}]
          /\ wg' \in [Wallets -> Nat]
          /\ starts' \in [Wallets -> 0 .. MaxStarts]
      BY <1>1, <1>2 DEF NewWallet, WalletsTypeOK
    <2>3. gor' \in [Wallets -> [Goroutines ->
                       [st : {"none", "born", "waiting", "done"}, ch : Chans]]]
      BY <1>1, <1>2 DEF NewWallet, WalletsTypeOK
    <2> QED
      BY <1>1, <2>1, <2>2, <2>3 DEF WalletsTypeOK
  <1>4. \A c \in Callers : pc[c].w # w
    <2> TAKE c \in Callers
    <2>1. pc[c].at # "idle" => pc[c].w \in made
      BY CallerAt
    <2>2. pc[c].at = "idle" => pc[c].w = Nobody
      BY CallerAt DEF CallerInv, Idle
    <2> QED
      BY <2>1, <2>2, LifecycleAssumption DEF NewWallet
  <1>5. WalletInv(w)'
    <2>1. /\ quit'[w] = 0 /\ wg'[w] = 0 /\ starts'[w] = 0
          /\ gor'[w] = [g \in Goroutines |-> Unborn]
      BY <1>1 DEF NewWallet, WalletsTypeOK
    <2>2. (\A c \in Callers : pc[c].w # w)'
      BY <1>4
    <2>3. (/\ quit[w] = 0 /\ wg[w] = 0 /\ starts[w] = 0
           /\ gor[w] = [g \in Goroutines |-> Unborn]
           /\ \A c \in Callers : pc[c].w # w) => WalletInv(w)
      BY FreshWallet
    <2>4. (/\ quit[w] = 0 /\ wg[w] = 0 /\ starts[w] = 0
           /\ gor[w] = [g \in Goroutines |-> Unborn]
           /\ \A c \in Callers : pc[c].w # w)' => WalletInv(w)'
      BY FreshWallet, PTL
    <2> QED
      BY <2>1, <2>2, <2>4
  <1>6. ASSUME NEW v \in Wallets, v # w PROVE WalletInv(v)'
    <2>1. /\ gor'[v] = gor[v] /\ starts'[v] = starts[v] /\ quit'[v] = quit[v]
          /\ wg'[v] = wg[v] /\ closed'[v] = closed[v]
      BY <1>1, <1>6 DEF NewWallet, WalletsTypeOK
    <2>2. Starting(v)' = Starting(v) /\ Selecting(v)' = Selecting(v) /\ Going(v)' = Going(v)
      BY DEF Starting, Selecting, Going
    <2> QED
      BY <2>1, <2>2, WalletKept
  <1>7. ASSUME NEW c \in Callers PROVE CallerInv(c)'
    <2>1. CallerInv(c) /\ pc'[c] = pc[c] /\ pc[c].w # w /\ made \subseteq Wallets
      BY <1>1, <1>4 DEF LifecycleInv, WalletsTypeOK
    <2>2. made \subseteq made' /\ \A v \in Wallets : v # w =>
             quitMu'[v] = quitMu[v] /\ quit'[v] = quit[v] /\ closed'[v] = closed[v]
      BY <1>1 DEF NewWallet, WalletsTypeOK
    <2> QED
      BY <2>1, <2>2 DEF CallerInv
  <1> QED
    BY <1>3, <1>5, <1>6, <1>7 DEF LifecycleInv

\* A goroutine reads the quit channel.
LEMMA quitChanKept ==
    ASSUME LifecycleInv, NEW w \in Wallets, NEW g \in Goroutines, quitChan(w, g)
    PROVE  LifecycleInv'
  <1>1. WalletsTypeOK /\ WalletInv(w)
    BY DEF LifecycleInv
  <1> DEFINE r == [st |-> "waiting", ch |-> quit[w]]
  <1>2. /\ gor' = [gor EXCEPT ![w][g] = r] /\ gor[w][g].st = "born"
        /\ UNCHANGED <<made, started, quit, closed, quitMu, wg, starts, pc>>
    BY DEF quitChan
  <1>3. r \in [st : {"none", "born", "waiting", "done"}, ch : Chans]
        /\ r.st = "waiting" /\ r.ch = quit[w]
    BY <1>1 DEF WalletsTypeOK
  <1> HIDE DEF r
  <1>4. /\ gor' \in [Wallets -> [Goroutines ->
                       [st : {"none", "born", "waiting", "done"}, ch : Chans]]]
        /\ gor'[w][g] = r
        /\ \A h \in Goroutines : h # g => gor'[w][h] = gor[w][h]
        /\ \A v \in Wallets : v # w => gor'[v] = gor[v]
    BY <1>1, <1>2, <1>3 DEF WalletsTypeOK
  <1>5. WalletsTypeOK'
    BY <1>1, <1>2, <1>4 DEF WalletsTypeOK
  <1>6. \A v : Starting(v)' = Starting(v) /\ Selecting(v)' = Selecting(v) /\ Going(v)' = Going(v)
    BY <1>2 DEF Starting, Selecting, Going
  <1>7. Live(w)' = Live(w)
    BY <1>2, <1>3, <1>4 DEF Live
  <1>8. WalletInv(w)'
    <2>1. \A h \in Goroutines : gor'[w][h].st # "none" <=> gor[w][h].st # "none"
      BY <1>2, <1>3, <1>4
    <2>2. \A h \in Goroutines : gor'[w][h].st = "none" => gor'[w][h] = Unborn
      BY <1>1, <1>3, <1>4 DEF WalletInv
    <2>3. \A h \in Goroutines : gor'[w][h].st = "waiting" => gor'[w][h].ch = quit'[w]
      BY <1>1, <1>2, <1>3, <1>4 DEF WalletInv
    <2> QED
      BY <1>1, <1>2, <1>6, <1>7, <2>1, <2>2, <2>3 DEF WalletInv
  <1>9. ASSUME NEW v \in Wallets, v # w PROVE WalletInv(v)'
    BY <1>2, <1>4, <1>6, <1>9, WalletKept
  <1>10. ASSUME NEW c \in Callers PROVE CallerInv(c)'
    BY <1>2, CallerKept
  <1> QED
    BY <1>5, <1>8, <1>9, <1>10 DEF LifecycleInv

\* A goroutine ends and reports to wg; the last one wakes the waiters.
LEMMA QuitKept ==
    ASSUME LifecycleInv, NEW w \in Wallets, NEW g \in Goroutines, Quit(w, g)
    PROVE  LifecycleInv'
  <1>1. WalletsTypeOK /\ WalletInv(w)
    BY DEF LifecycleInv
  <1> DEFINE r == [gor[w][g] EXCEPT !.st = "done"]
  <1>2. /\ gor' = [gor EXCEPT ![w][g] = r] /\ gor[w][g].st = "waiting"
        /\ wg' = [wg EXCEPT ![w] = @ - 1]
        /\ UNCHANGED <<made, started, quit, closed, quitMu, starts>>
    BY DEF Quit
  <1>3. r \in [st : {"none", "born", "waiting", "done"}, ch : Chans] /\ r.st = "done"
    BY <1>1 DEF WalletsTypeOK
  <1> HIDE DEF r
  <1>4. /\ gor' \in [Wallets -> [Goroutines ->
                       [st : {"none", "born", "waiting", "done"}, ch : Chans]]]
        /\ gor'[w][g] = r
        /\ \A h \in Goroutines : h # g => gor'[w][h] = gor[w][h]
        /\ \A v \in Wallets : v # w => gor'[v] = gor[v]
    BY <1>1, <1>2, <1>3 DEF WalletsTypeOK
  <1>5. \A c \in Callers :
          \/ pc'[c] = pc[c]
          \/ pc[c].at = "asleep" /\ pc'[c] = [pc[c] EXCEPT !.at = "woken"]
    BY DEF Quit
  <1>6. \A c \in Callers :
          /\ pc'[c] \in PcType /\ pc'[c].call = pc[c].call /\ pc'[c].w = pc[c].w
          /\ pc'[c] = pc[c] \/ (pc[c].at = "asleep" /\ pc'[c].at = "woken")
    <2> TAKE c \in Callers
    <2>1. pc[c] \in PcType
      BY <1>1 DEF WalletsTypeOK
    <2>2. [pc[c] EXCEPT !.at = "woken"] \in PcType
          /\ [pc[c] EXCEPT !.at = "woken"].call = pc[c].call
          /\ [pc[c] EXCEPT !.at = "woken"].w = pc[c].w
          /\ [pc[c] EXCEPT !.at = "woken"].at = "woken"
      BY <2>1 DEF PcType
    <2> QED
      BY <1>5, <2>1, <2>2
  <1>7. pc' \in [Callers -> PcType]
    <2>1. \E h : pc' = [c \in Callers |-> h[c]]
      <3> DEFINE h == [c \in Callers |->
              IF pc[c].at = "asleep" /\ pc[c].w = w /\ wg[w] = 1
              THEN [pc[c] EXCEPT !.at = "woken"] ELSE pc[c]]
      <3>1. pc' = h /\ h = [c \in Callers |-> h[c]]
        BY DEF Quit
      <3> QED
        BY <3>1
    <2> QED
      BY <2>1, <1>6
  <1>8. \A v : Starting(v)' = Starting(v) /\ Selecting(v)' = Selecting(v) /\ Going(v)' = Going(v)
    BY <1>6 DEF Starting, Selecting, Going
  <1>9. /\ Live(w)' = Live(w) \ {g} /\ g \in Live(w)
    BY <1>2, <1>3, <1>4 DEF Live
  <1>10. /\ Cardinality(Live(w)') = Cardinality(Live(w)) - 1
         /\ Cardinality(Live(w)) \in Nat \ {0} /\ Cardinality(Going(w)) \in Nat
    BY <1>9, FinitelyMany, CountOut
  <1>11. wg[w] \in Nat \ {0} /\ wg'[w] = wg[w] - 1 /\ wg' \in [Wallets -> Nat]
         /\ \A v \in Wallets : v # w => wg'[v] = wg[v]
    <2>1. wg[w] \in Nat \ {0}
      BY <1>1, <1>10 DEF WalletInv
    <2>2. wg \in [Wallets -> Nat] /\ wg[w] - 1 \in Nat
      BY <1>1, <2>1 DEF WalletsTypeOK
    <2>3. wg' = [wg EXCEPT ![w] = wg[w] - 1]
      BY <1>2
    <2> QED
      BY <2>1, <2>2, <2>3
  <1>12. WalletsTypeOK'
    BY <1>1, <1>2, <1>4, <1>7, <1>11 DEF WalletsTypeOK
  <1>13. WalletInv(w)'
    <2>1. \A h \in Goroutines : gor'[w][h].st # "none" <=> gor[w][h].st # "none"
      BY <1>2, <1>3, <1>4
    <2>2. \A h \in Goroutines : gor'[w][h].st = "none" => gor'[w][h] = Unborn
      BY <1>1, <1>3, <1>4 DEF WalletInv
    <2>3. \A h \in Goroutines : gor'[w][h].st = "waiting" => gor'[w][h].ch = quit'[w]
      BY <1>1, <1>2, <1>3, <1>4 DEF WalletInv
    <2>4. wg'[w] = Cardinality(Live(w)') + 2 * Cardinality(Going(w)')
      BY <1>1, <1>8, <1>10, <1>11 DEF WalletInv
    <2> QED
      BY <1>1, <1>2, <1>8, <2>1, <2>2, <2>3, <2>4 DEF WalletInv
  <1>14. ASSUME NEW v \in Wallets, v # w PROVE WalletInv(v)'
    BY <1>2, <1>4, <1>8, <1>11, <1>14, WalletKept
  <1>15. ASSUME NEW c \in Callers PROVE CallerInv(c)'
    <2>1. CallerInv(c)
      BY DEF LifecycleInv
    <2> QED
      BY <1>2, <1>6, <2>1 DEF CallerInv
  <1> QED
    BY <1>12, <1>13, <1>14, <1>15 DEF LifecycleInv

-----------------------------------------------------------------------------
(* Every step, and what follows.                                           *)

\* A step of a caller inside a method of a Wallet keeps the invariant.
LEMMA CallerStepKept ==
    ASSUME LifecycleInv, NEW c \in Callers, CallerStep(c)
    PROVE  LifecycleInv'
  BY StartSelectKept, StartAddKept, StartGoKept, StopKept, StopCloseKept, WaitKept
     DEF CallerStep

\* A step of a goroutine keeps the invariant.
LEMMA GoroutineStepKept ==
    ASSUME LifecycleInv, NEW w \in Wallets, NEW g \in Goroutines, GoroutineStep(w, g)
    PROVE  LifecycleInv'
  BY quitChanKept, QuitKept DEF GoroutineStep

\* LifecycleInv is inductive.
LEMMA LifecycleStep ==
    ASSUME LifecycleInv, [LifecycleNext]_lifecycleVars
    PROVE  LifecycleInv'
  <1>1. CASE UNCHANGED lifecycleVars
    BY <1>1, Stays DEF lifecycleVars, walletVars
  <1>2. CASE LifecycleNext
    <2>1. ASSUME NEW w \in Wallets, NewWallet(w), UNCHANGED <<pc, panic>> PROVE LifecycleInv'
      BY <2>1, NewWalletKept
    <2>2. ASSUME NEW c \in Callers, CallerStep(c) PROVE LifecycleInv'
      BY <2>2, CallerStepKept
    <2>3. ASSUME NEW c \in Callers, NEW w \in Wallets,
                 StartCall(c, w) \/ StopCall(c, w) \/ WaitCall(c, w) \/ UnlockCall(c, w)
          PROVE  LifecycleInv'
      BY <2>3, StartCallKept, CallsKept
    <2>4. ASSUME NEW w \in Wallets, NEW g \in Goroutines, GoroutineStep(w, g)
          PROVE  LifecycleInv'
      BY <2>4, GoroutineStepKept
    <2> QED
      BY <1>2, <2>1, <2>2, <2>3, <2>4 DEF LifecycleNext
  <1> QED
    BY <1>1, <1>2

\* LifecycleInv holds always, however Start, Stop and WaitForShutdown overlap.
THEOREM LifecycleInvariant == LifecycleSpec => []LifecycleInv
  <1>1. LifecycleInit => LifecycleInv
    BY LifecycleInitInv
  <1>2. LifecycleInv /\ [LifecycleNext]_lifecycleVars => LifecycleInv'
    BY LifecycleStep
  <1> QED
    BY <1>1, <1>2, PTL DEF LifecycleSpec

\* The process dies of one of the two panics the code can raise, or not.
LEMMA PanicKinds ==
    ASSUME panic \in {"none", "closeOfClosedChannel", "WaitGroupReused"},
           [LifecycleNext]_lifecycleVars
    PROVE  panic' \in {"none", "closeOfClosedChannel", "WaitGroupReused"}
  <1>1. CASE UNCHANGED lifecycleVars
    BY <1>1 DEF lifecycleVars
  <1>2. CASE LifecycleNext
    <2>1. ASSUME NEW c \in Callers, CallerStep(c)
          PROVE  panic' = panic \/ panic' \in {"closeOfClosedChannel", "WaitGroupReused"}
      <3>1. CASE StartSelect(c) \/ StartAdd(c) \/ StartGo(c) \/ StopQuitChan(c) \/ StopSelect(c)
        BY <3>1 DEF StartSelect, StartAdd, StartGo, StopQuitChan, StopSelect
      <3>2. CASE StopClose(c)
        BY <3>2 DEF StopClose, Panics
      <3>3. CASE WaitForShutdown(c) \/ WaitWakes(c)
        BY <3>3 DEF WaitForShutdown, WaitWakes, WaitReturns, Panics
      <3> QED
        BY <2>1, <3>1, <3>2, <3>3 DEF CallerStep
    <2>2. ASSUME NEW c \in Callers, NEW w \in Wallets,
                 StartCall(c, w) \/ StopCall(c, w) \/ WaitCall(c, w) \/ UnlockCall(c, w)
          PROVE  panic' = panic
      BY <2>2 DEF StartCall, StopCall, WaitCall, UnlockCall
    <2>3. ASSUME NEW w \in Wallets, NEW g \in Goroutines, GoroutineStep(w, g)
          PROVE  panic' = panic
      BY <2>3 DEF GoroutineStep, quitChan, Quit
    <2> QED
      BY <1>2, <2>1, <2>2, <2>3 DEF LifecycleNext
  <1> QED
    BY <1>1, <1>2

\* LifecycleTypeOK: in particular wg never goes below zero, where the Go
\* runtime would panic, whatever Start and Stop calls overlap.
THEOREM LifecycleTypeCorrect == LifecycleSpec => []LifecycleTypeOK
  <1> DEFINE P == panic \in {"none", "closeOfClosedChannel", "WaitGroupReused"}
  <1>1. LifecycleInit => P
    BY DEF LifecycleInit
  <1>2. P /\ [LifecycleNext]_lifecycleVars => P'
    BY PanicKinds
  <1>3. LifecycleInv /\ P => LifecycleTypeOK
    BY DEF LifecycleInv, LifecycleTypeOK
  <1> HIDE DEF P
  <1> QED
    BY <1>1, <1>2, <1>3, LifecycleInvariant, PTL DEF LifecycleSpec

\* CounterCoversGoroutines: WaitForShutdown returns, and a restart replaces
\* the channel, when no announced goroutine is left.
THEOREM WaitCoversGoroutines == LifecycleSpec => []CounterCoversGoroutines
  <1>1. LifecycleInv => CounterCoversGoroutines
    BY DEF LifecycleInv, WalletInv, CounterCoversGoroutines, Going
  <1> QED
    BY <1>1, LifecycleInvariant, PTL

\* StopReachesEveryone: no goroutine is left with a channel that nobody will
\* close.
THEOREM StopReachesAll == LifecycleSpec => []StopReachesEveryone
  <1>1. LifecycleInv => StopReachesEveryone
    BY DEF LifecycleInv, WalletInv, StopReachesEveryone
  <1> QED
    BY <1>1, LifecycleInvariant, PTL

-----------------------------------------------------------------------------
(* One Stop at a time.                                                     *)

\* No two calls of Stop overlap.
OneStop == \A c, d \in Callers : pc[c].call = "Stop" /\ pc[d].call = "Stop" => c = d

\* A step of caller c does not close a channel twice, and leaves none closed
\* that a Stop has found open, when no two calls of Stop overlap.
LEMMA CallerStepCloses ==
    ASSUME LifecycleInv, CloseInv, OneStop, NEW c \in Callers, CallerStep(c)
    PROVE  CloseInv' /\ (panic' = panic \/ panic' = "WaitGroupReused")
  <1>1. pc[c] \in PcType /\ CallerInv(c) /\ WalletsTypeOK
    BY CallerAt DEF LifecycleInv
  <1>2. ASSUME Others(c), UNCHANGED closed, pc'[c].at # "close" PROVE CloseInv'
    BY <1>2 DEF CloseInv, Others
  <1>3. CASE StartSelect(c)
    <2>1. /\ Goes(c, "wait") \/ Goes(c, "add") \/ Returns(c)
          /\ UNCHANGED <<closed, panic>>
      BY <1>3 DEF StartSelect
    <2>2. Others(c) /\ pc'[c].at # "close"
      BY <2>1, <1>1 DEF Goes, Returns, Others, WalletsTypeOK, PcType, Idle
    <2> QED
      BY <2>1, <2>2, <1>2
  <1>4. CASE StartAdd(c)
    <2>1. Goes(c, "go") /\ UNCHANGED <<closed, panic>>
      BY <1>4 DEF StartAdd
    <2>2. Others(c) /\ pc'[c].at # "close"
      BY <2>1, <1>1 DEF Goes, Others, WalletsTypeOK, PcType
    <2> QED
      BY <2>1, <2>2, <1>2
  <1>5. CASE StartGo(c)
    <2>1. Returns(c) /\ UNCHANGED <<closed, panic>>
      BY <1>5 DEF StartGo
    <2>2. Others(c) /\ pc'[c].at # "close"
      BY <2>1, <1>1 DEF Returns, Others, WalletsTypeOK, PcType, Idle
    <2> QED
      BY <2>1, <2>2, <1>2
  <1>6. CASE StopQuitChan(c)
    <2>1. /\ pc' = [pc EXCEPT ![c].at = "select", ![c].ch = quit[pc[c].w]]
          /\ UNCHANGED <<closed, panic>>
      BY <1>6 DEF StopQuitChan, walletVars
    <2>2. Others(c) /\ pc'[c].at # "close"
      BY <2>1, <1>1 DEF Others, WalletsTypeOK, PcType
    <2> QED
      BY <2>1, <2>2, <1>2
  <1>7. CASE StopSelect(c)
    <2>1. UNCHANGED <<closed, panic>>
      BY <1>7 DEF StopSelect, walletVars
    <2>2. CASE Returns(c)
      <3>1. Others(c) /\ pc'[c].at # "close"
        BY <2>2, <1>1 DEF Returns, Others, WalletsTypeOK, PcType, Idle
      <3> QED
        BY <2>1, <3>1, <1>2
    <2>3. CASE pc[c].ch \notin closed[pc[c].w] /\ Goes(c, "close")
      <3>1. Others(c) /\ pc'[c].ch = pc[c].ch /\ pc'[c].w = pc[c].w
        BY <2>3, <1>1 DEF Goes, Others, WalletsTypeOK, PcType
      <3> QED
        BY <2>1, <2>3, <3>1 DEF CloseInv, Others
    <2> QED
      BY <1>7, <2>2, <2>3 DEF StopSelect
  <1>8. CASE StopClose(c)
    <2>1. pc[c].at = "close" /\ pc[c].call = "Stop" /\ pc[c].ch \notin closed[pc[c].w]
      BY <1>1, <1>8 DEF StopClose, CallerInv, CloseInv
    <2>2. Returns(c) /\ UNCHANGED panic
      BY <1>8, <2>1 DEF StopClose
    <2>3. \A d \in Callers : d # c => pc'[d] = pc[d] /\ pc[d].at # "close"
      <3> SUFFICES ASSUME NEW d \in Callers, d # c
                   PROVE  pc'[d] = pc[d] /\ pc[d].at # "close"
        OBVIOUS
      <3>1. CallerInv(d)
        BY CallerAt
      <3>2. pc[d].at # "close"
        BY <2>1, <3>1 DEF CallerInv, OneStop
      <3> QED
        BY <2>2, <3>2, <1>1 DEF Returns, WalletsTypeOK
    <2>4. pc'[c].at # "close"
      BY <2>2, <1>1 DEF Returns, WalletsTypeOK, Idle
    <2> QED
      BY <2>2, <2>3, <2>4 DEF CloseInv
  <1>9. CASE WaitForShutdown(c) \/ WaitWakes(c)
    <2>1. \/ /\ panic' = "WaitGroupReused" \/ UNCHANGED panic
             /\ UNCHANGED <<closed, pc>>
          \/ /\ Goes(c, "asleep") \/ Goes(c, "add") \/ Returns(c)
             /\ UNCHANGED <<closed, panic>>
      BY <1>9 DEF WaitForShutdown, WaitWakes, WaitReturns, Panics, walletVars
    <2>2. CASE UNCHANGED <<closed, pc>>
      BY <2>1, <2>2 DEF CloseInv
    <2>3. CASE /\ Goes(c, "asleep") \/ Goes(c, "add") \/ Returns(c)
               /\ UNCHANGED <<closed, panic>>
      <3>1. Others(c) /\ pc'[c].at # "close"
        BY <2>3, <1>1 DEF Goes, Returns, Others, WalletsTypeOK, PcType, Idle
      <3> QED
        BY <2>3, <3>1, <1>2
    <2> QED
      BY <2>1, <2>2, <2>3
  <1> QED
    BY <1>3, <1>4, <1>5, <1>6, <1>7, <1>8, <1>9 DEF CallerStep

\* The other steps close nothing: a goroutine's, and the calls themselves.
LEMMA GoroutineStepCloses ==
    ASSUME LifecycleInv, CloseInv, NEW w \in Wallets, NEW g \in Goroutines, GoroutineStep(w, g)
    PROVE  CloseInv' /\ panic' = panic
  <1>1. CASE quitChan(w, g)
    BY <1>1 DEF quitChan, CloseInv
  <1>2. CASE Quit(w, g)
    <2>1. UNCHANGED <<closed, panic>>
      BY <1>2 DEF Quit
    <2>2. \A c \in Callers : pc'[c] = pc[c] \/ pc'[c].at # "close"
      <3> TAKE c \in Callers
      <3>1. pc'[c] = pc[c] \/ pc'[c] = [pc[c] EXCEPT !.at = "woken"]
        BY <1>2 DEF Quit
      <3>2. pc[c] \in PcType
        BY CallerAt
      <3> QED
        BY <3>1, <3>2 DEF PcType
    <2> QED
      BY <2>1, <2>2 DEF CloseInv
  <1> QED
    BY <1>1, <1>2 DEF GoroutineStep

\* A method is called.
LEMMA CallCloses ==
    ASSUME LifecycleInv, CloseInv, NEW c \in Callers, NEW w,
           StartCall(c, w) \/ StopCall(c, w) \/ WaitCall(c, w) \/ UnlockCall(c, w)
    PROVE  CloseInv' /\ panic' = panic
  <1>1. UNCHANGED <<closed, panic>>
    BY DEF StartCall, StopCall, WaitCall, UnlockCall, walletVars
  <1>2. pc \in [Callers -> PcType]
    BY DEF LifecycleInv, WalletsTypeOK
  <1>3. Others(c) /\ pc'[c].at # "close"
    BY <1>2 DEF StartCall, StopCall, WaitCall, UnlockCall, Calls, Others
  <1> QED
    BY <1>1, <1>3 DEF CloseInv, Others

\* A Wallet is made: no Stop is under way on it.
LEMMA NewWalletCloses ==
    ASSUME LifecycleInv, CloseInv, NEW w \in Wallets, NewWallet(w), UNCHANGED pc
    PROVE  CloseInv'
  <1>1. \A c \in Callers : pc[c].at = "close" => pc[c].w # w
    BY CallerAt DEF NewWallet
  <1> QED
    BY <1>1 DEF NewWallet, CloseInv, LifecycleInv, WalletsTypeOK

\* NoDoubleClose: when one goroutine makes the calls of Stop, as the loader's
\* mutex arranges, no channel is closed twice, however many others start the
\* Wallet and wait for it.
THEOREM OneStopperClosesOnce ==
    ASSUME \A c, d \in Stoppers : c = d
    PROVE  LifecycleSpec => []NoDoubleClose
  <1>1. LifecycleInv => OneStop
    BY DEF LifecycleInv, CallerInv, OneStop
  <1>2. LifecycleInit => CloseInv /\ NoDoubleClose
    BY DEF LifecycleInit, CloseInv, Idle, NoDoubleClose
  <1>3. LifecycleInv /\ CloseInv /\ NoDoubleClose /\ [LifecycleNext]_lifecycleVars
          => CloseInv' /\ NoDoubleClose'
    <2> SUFFICES ASSUME LifecycleInv, CloseInv, NoDoubleClose, [LifecycleNext]_lifecycleVars
                 PROVE  CloseInv' /\ NoDoubleClose'
      OBVIOUS
    <2>1. CASE UNCHANGED lifecycleVars
      BY <2>1 DEF lifecycleVars, walletVars, CloseInv, NoDoubleClose
    <2>2. CASE \E w \in Wallets : NewWallet(w) /\ UNCHANGED <<pc, panic>>
      BY <2>2, NewWalletCloses DEF NoDoubleClose
    <2>3. CASE \E c \in Callers : CallerStep(c)
      BY <2>3, <1>1, CallerStepCloses DEF NoDoubleClose
    <2>4. CASE \E c \in Callers, w \in Wallets :
                 StartCall(c, w) \/ StopCall(c, w) \/ WaitCall(c, w) \/ UnlockCall(c, w)
      BY <2>4, CallCloses DEF NoDoubleClose
    <2>5. CASE \E w \in Wallets, g \in Goroutines : GoroutineStep(w, g)
      BY <2>5, GoroutineStepCloses DEF NoDoubleClose
    <2> QED
      BY <2>1, <2>2, <2>3, <2>4, <2>5 DEF LifecycleNext
  <1> QED
    BY <1>2, <1>3, LifecycleInvariant, PTL DEF LifecycleSpec
=============================================================================
