---------------------------- MODULE KeyRaceProofs ----------------------------
(***************************************************************************)
(* Proofs about the address manager called by any number of goroutines,    *)
(* with any number of accounts.                                            *)
(***************************************************************************)
EXTENDS KeyRace, FiniteSetTheorems, TLAPS

Places == InRoot \cup InScope \cup {"idle", "m.mtx", "s.mtx"}
Keys == {"nil", "public", "private", "wiped"}
Errs == {"nil", "ErrWrongPassphrase", "ErrCrypto"}

PcOK == pc \in [Threads -> PcType]

MemType ==
    /\ locked \in BOOLEAN /\ cryptoKeyPriv \in CryptoKeys
    /\ row \in [Accounts -> CryptoKeys \cup {"none"}]
    /\ acctInfo \in [Accounts -> {"absent", "public", "private"}]
    /\ deriveOnUnlock \in Seq(Infos)
    /\ addr \in [Threads -> [acct : Accounts, key : {"none", "missing", "right"}]]
    /\ dead \in BOOLEAN /\ overlap \in BOOLEAN

Mutexes ==
    /\ mMtx \in Threads \cup {Nobody} /\ sMtx \in Threads \cup {Nobody}
    /\ \A t \in Threads : (mMtx = t) <=> pc[t].at \in InRoot
    /\ \A t \in Threads : (sMtx = t) <=> pc[t].at \in InScope

\* The invariant in the parts that the steps are taken through.
LEMMA InvParts ==
    KeyRaceInv <=> /\ MemType /\ PcOK /\ Mutexes /\ RowsInv
                   /\ \A t \in Threads : ThreadInv(t)
                   /\ \A a \in Accounts :
                         acctInfo[a] # "absent" => row[a] # "none" /\ "external" \in Bare
                   /\ KeysFollowLock /\ UnlockFailsOnlyOnSpoiledRow
BY DEF KeyRaceInv, KeyRaceTypeOK, MemType, PcOK, Mutexes

-----------------------------------------------------------------------------
(* The program counters.                                                   *)

\* A goroutine outside calls has a well-typed counter.
LEMMA IdleType == Idle \in PcType
<1>1. 0 \in Accounts
  BY KeyRaceAssumption DEF Accounts
<1>2. <<>> \in Seq(Infos)
  OBVIOUS
<1>3. "idle" \in InRoot \cup InScope \cup {"idle", "m.mtx", "s.mtx"}
  BY Zenon
<1> QED BY <1>1, <1>2, <1>3, Zenon DEF Idle, PcType

\* What the steps assign to a goroutine's counter keeps it typed.
LEMMA PcUpdates ==
    ASSUME NEW r \in PcType
    PROVE  /\ \A x \in Places : [r EXCEPT !.at = x] \in PcType
           /\ \A x \in Places, k \in Keys : [r EXCEPT !.at = x, !.key = k] \in PcType
           /\ \A x \in Places, b \in BOOLEAN : [r EXCEPT !.at = x, !.private = b] \in PcType
           /\ \A x \in Places, a \in Accounts : [r EXCEPT !.at = x, !.acct = a] \in PcType
           /\ \A x \in Places, s \in SUBSET Accounts : [r EXCEPT !.at = x, !.todo = s] \in PcType
           /\ \A x \in Places, s \in SUBSET Accounts, e \in Errs :
                 [r EXCEPT !.at = x, !.todo = s, !.err = e] \in PcType
           /\ \A x \in Places, q \in Seq(Infos) : [r EXCEPT !.at = x, !.infos = q] \in PcType
           /\ \A q \in Seq(Infos) : [r EXCEPT !.infos = q] \in PcType
           /\ \A k \in Keys : [r EXCEPT !.key = k] \in PcType
           /\ \A s \in SUBSET Accounts : [r EXCEPT !.todo = s] \in PcType
           /\ \A m \in RootCalls \cup ScopeCalls, x \in Places, a \in Accounts :
                 [r EXCEPT !.call = m, !.acct = a, !.at = x] \in PcType
<1>1. \A x \in Places : [r EXCEPT !.at = x] \in PcType
  BY DEF PcType, Places, Keys, Errs
<1>2. \A x \in Places, k \in Keys : [r EXCEPT !.at = x, !.key = k] \in PcType
  BY DEF PcType, Places, Keys, Errs
<1>3. \A x \in Places, b \in BOOLEAN : [r EXCEPT !.at = x, !.private = b] \in PcType
  BY DEF PcType, Places, Keys, Errs
<1>4. \A x \in Places, a \in Accounts : [r EXCEPT !.at = x, !.acct = a] \in PcType
  BY DEF PcType, Places, Keys, Errs
<1>5. \A x \in Places, s \in SUBSET Accounts : [r EXCEPT !.at = x, !.todo = s] \in PcType
  BY DEF PcType, Places, Keys, Errs
<1>6. \A x \in Places, s \in SUBSET Accounts, e \in Errs :
     [r EXCEPT !.at = x, !.todo = s, !.err = e] \in PcType
  BY DEF PcType, Places, Keys, Errs
<1>7. \A x \in Places, q \in Seq(Infos) : [r EXCEPT !.at = x, !.infos = q] \in PcType
  BY DEF PcType, Places, Keys, Errs
<1>8. \A q \in Seq(Infos) : [r EXCEPT !.infos = q] \in PcType
  BY DEF PcType, Places, Keys, Errs
<1>9. \A k \in Keys : [r EXCEPT !.key = k] \in PcType
  BY DEF PcType, Places, Keys, Errs
<1>10. \A s \in SUBSET Accounts : [r EXCEPT !.todo = s] \in PcType
  BY DEF PcType, Places, Keys, Errs
<1>11. \A m \in RootCalls \cup ScopeCalls, x \in Places, a \in Accounts :
     [r EXCEPT !.call = m, !.acct = a, !.at = x] \in PcType
  BY DEF PcType, Places, Keys, Errs
<1> QED BY <1>1, <1>2, <1>3, <1>4, <1>5, <1>6, <1>7, <1>8, <1>9, <1>10, <1>11

\* One goroutine moves, the others stay where they are.
Others(t) == \A u \in Threads \ {t} : pc'[u] = pc[u]

\* Assigning one goroutine's counter.
LEMMA SetPc ==
    ASSUME PcOK, NEW t \in Threads, NEW r \in PcType, pc' = [pc EXCEPT ![t] = r]
    PROVE  PcOK' /\ Others(t) /\ pc'[t] = r
BY DEF PcOK, Others

\* A goroutine that only moves on.
LEMMA GoesPc ==
    ASSUME PcOK, NEW t \in Threads, NEW x \in Places, Goes(t, x)
    PROVE  /\ PcOK' /\ Others(t)
           /\ pc'[t].at = x /\ pc'[t].call = pc[t].call /\ pc'[t].acct = pc[t].acct
           /\ pc'[t].key = pc[t].key /\ pc'[t].err = pc[t].err
           /\ pc'[t].todo = pc[t].todo /\ pc'[t].infos = pc[t].infos
           /\ pc'[t].private = pc[t].private
<1> DEFINE r == [pc[t] EXCEPT !.at = x]
<1>1. pc[t] \in PcType
  BY DEF PcOK
<1>2. r \in PcType
  BY <1>1, PcUpdates
<1>3. pc' = [pc EXCEPT ![t] = r]
  BY DEF Goes
<1>4. /\ r.at = x /\ r.call = pc[t].call /\ r.acct = pc[t].acct /\ r.key = pc[t].key
      /\ r.err = pc[t].err /\ r.todo = pc[t].todo /\ r.infos = pc[t].infos
      /\ r.private = pc[t].private
  BY <1>1 DEF PcType
<1> HIDE DEF r
<1> QED BY <1>2, <1>3, <1>4, SetPc

\* A goroutine whose call returns.
LEMMA ReturnPc ==
    ASSUME PcOK, NEW t \in Threads, Return(t)
    PROVE  PcOK' /\ Others(t) /\ pc'[t] = Idle
BY IdleType, SetPc DEF Return

\* What is known of a goroutine outside calls.
LEMMA IdleThread ==
    ASSUME NEW t \in Threads, pc'[t] = Idle
    PROVE  /\ ThreadInv(t)'
           /\ pc'[t].at = "idle" /\ pc'[t].call = "none" /\ pc'[t].err = "nil"
BY DEF ThreadInv, Idle, At, InRoot, InScope

-----------------------------------------------------------------------------
(* Steps of one goroutine.                                                 *)

\* How a step may move the goroutine with respect to the mutexes.
MoveM(t) ==
    \/ mMtx' = mMtx /\ (pc'[t].at \in InRoot <=> pc[t].at \in InRoot)
    \/ mMtx \in {Nobody, t} /\ mMtx' = t /\ pc'[t].at \in InRoot
    \/ mMtx \in {Nobody, t} /\ mMtx' = Nobody /\ pc'[t].at \notin InRoot

MoveS(t) ==
    \/ sMtx' = sMtx /\ (pc'[t].at \in InScope <=> pc[t].at \in InScope)
    \/ sMtx \in {Nobody, t} /\ sMtx' = t /\ pc'[t].at \in InScope
    \/ sMtx \in {Nobody, t} /\ sMtx' = Nobody /\ pc'[t].at \notin InScope

\* Each mutex stays with the goroutine that is past taking it.
LEMMA MutexStep ==
    ASSUME Mutexes, NEW t \in Threads, Others(t), MoveM(t), MoveS(t)
    PROVE  Mutexes'
<1>1. \A u \in Threads : (mMtx' = u) <=> pc'[u].at \in InRoot
  BY KeyRaceAssumption DEF Mutexes, Others, MoveM
<1>2. \A u \in Threads : (sMtx' = u) <=> pc'[u].at \in InScope
  BY KeyRaceAssumption DEF Mutexes, Others, MoveS
<1> QED BY <1>1, <1>2 DEF Mutexes, MoveM, MoveS

\* A goroutine that no step of this call concerns keeps what it knows: what
\* changes is guarded by a mutex it does not hold.
LEMMA OtherThread ==
    ASSUME KeyRaceInv, NEW t \in Threads, NEW u \in Threads \ {t}, pc'[u] = pc[u],
           row' = row \/ sMtx = t,
           UNCHANGED <<locked, cryptoKeyPriv>> \/ mMtx \in {t, Nobody},
           Len(deriveOnUnlock') >= Len(deriveOnUnlock) \/ mMtx = t
    PROVE  ThreadInv(u)'
<1>1. /\ ThreadInv(u) /\ MemType
      /\ mMtx \in {t, Nobody} => pc[u].at \notin InRoot
      /\ sMtx = t => pc[u].at \notin InScope
  BY InvParts, KeyRaceAssumption DEF Mutexes
<1>2. At(u, "queue") => Len(pc[u].infos) <= Len(deriveOnUnlock')
  <2>1. CASE mMtx = t
    BY <1>1, <2>1 DEF At, InRoot
  <2>2. CASE Len(deriveOnUnlock') >= Len(deriveOnUnlock)
    <3>1. Len(pc[u].infos) \in Nat /\ Len(deriveOnUnlock) \in Nat
      BY <1>1, InvParts DEF PcOK, PcType, MemType
    <3> QED BY <1>1, <2>2, <3>1 DEF ThreadInv
  <2> QED BY <2>1, <2>2
<1>3. /\ At(u, "locked") => cryptoKeyPriv' = "zero"
      /\ pc[u].at \in {"accounts", "queue"} =>
            cryptoKeyPriv' = "real" /\ locked' /\ pc[u].err = "nil"
  BY <1>1 DEF ThreadInv, At, InRoot
<1>4. /\ At(u, "encrypt") => \A a \in Accounts : row'[a] # "none" <=> a < pc[u].acct
      /\ pc[u].at \in {"lastAddr", "insert"} => row'[pc[u].acct] # "none"
  BY <1>1 DEF ThreadInv, At, InScope
<1> QED
  BY <1>1, <1>2, <1>3, <1>4 DEF ThreadInv, At

\* No row is written and no NewAccount begins.
LEMMA RowsSame ==
    ASSUME RowsInv, NEW t \in Threads, Others(t), UNCHANGED row,
           pc'[t].call = "NewAccount" => pc[t].call = "NewAccount"
    PROVE  RowsInv'
<1>1. PICK last \in Accounts :
         /\ \A a \in Accounts : row[a] # "none" <=> a <= last
         /\ MaxAccount - last >= Cardinality(Creating)
  BY DEF RowsInv
<1>2. Creating' \subseteq Creating
  BY DEF Creating, Others
<1>3. IsFiniteSet(Creating)
  BY KeyRaceAssumption, FS_Subset DEF Creating
<1>4. Cardinality(Creating') <= Cardinality(Creating)
  BY <1>2, <1>3, FS_Subset
<1>5. IsFiniteSet(Creating')
  BY <1>2, <1>3, FS_Subset
<1>6. MaxAccount - last >= Cardinality(Creating')
  BY <1>1, <1>3, <1>4, <1>5, FS_CardinalityType, KeyRaceAssumption DEF Accounts
<1> QED BY <1>1, <1>6 DEF RowsInv

\* A step of one goroutine keeps the invariant if it keeps the types, moves with
\* the mutexes, leaves the rows in order and the goroutine knowing what it should.
LEMMA AnyStep ==
    ASSUME KeyRaceInv, NEW t \in Threads, PcOK', Others(t), MemType', MoveM(t), MoveS(t),
           ThreadInv(t)', RowsInv', row' = row \/ sMtx = t,
           \A a \in Accounts : row[a] = "zero" => row'[a] = "zero",
           UNCHANGED <<locked, cryptoKeyPriv>> \/ mMtx \in {t, Nobody},
           Len(deriveOnUnlock') >= Len(deriveOnUnlock) \/ mMtx = t,
           \A a \in Accounts : acctInfo'[a] # "absent" => row'[a] # "none" /\ "external" \in Bare,
           KeysFollowLock',
           (pc'[t].call = "Unlock" /\ pc'[t].err = "ErrCrypto") =>
               \/ pc[t].call = "Unlock" /\ pc[t].err = "ErrCrypto"
               \/ "external" \in Bare /\ \E a \in Accounts : row[a] = "zero"
    PROVE  KeyRaceInv'
<1>1. Mutexes /\ UnlockFailsOnlyOnSpoiledRow /\ \A u \in Threads : ThreadInv(u)
  BY InvParts
<1>2. Mutexes'
  BY <1>1, MutexStep
<1>3. \A u \in Threads : ThreadInv(u)'
  <2> SUFFICES ASSUME NEW u \in Threads PROVE ThreadInv(u)'
    OBVIOUS
  <2>1. CASE u = t
    BY <2>1
  <2>2. CASE u # t
    BY <2>2, OtherThread DEF Others
  <2> QED BY <2>1, <2>2
<1>4. UnlockFailsOnlyOnSpoiledRow'
  BY <1>1 DEF UnlockFailsOnlyOnSpoiledRow, Others
<1> QED
  BY <1>2, <1>3, <1>4 DEF KeyRaceInv, KeyRaceTypeOK, MemType, PcOK, Mutexes

\* The same, of a step that writes no row and begins no NewAccount.
LEMMA ThreadStep ==
    ASSUME KeyRaceInv, NEW t \in Threads, PcOK', Others(t), MemType', MoveM(t), MoveS(t),
           ThreadInv(t)', UNCHANGED row,
           pc'[t].call = "NewAccount" => pc[t].call = "NewAccount",
           UNCHANGED <<locked, cryptoKeyPriv>> \/ mMtx \in {t, Nobody},
           Len(deriveOnUnlock') >= Len(deriveOnUnlock) \/ mMtx = t,
           \A a \in Accounts : acctInfo'[a] # "absent" => row[a] # "none" /\ "external" \in Bare,
           KeysFollowLock',
           (pc'[t].call = "Unlock" /\ pc'[t].err = "ErrCrypto") =>
               \/ pc[t].call = "Unlock" /\ pc[t].err = "ErrCrypto"
               \/ "external" \in Bare /\ \E a \in Accounts : row[a] = "zero"
    PROVE  KeyRaceInv'
<1>1. RowsInv'
  BY InvParts, RowsSame
<1>2. /\ \A a \in Accounts : acctInfo'[a] # "absent" => row'[a] # "none" /\ "external" \in Bare
      /\ \A a \in Accounts : row[a] = "zero" => row'[a] = "zero"
  OBVIOUS
<1> QED BY <1>1, <1>2, AnyStep

\* A step under way that leaves the shared state alone.
LEMMA MemSame ==
    ASSUME KeyRaceInv, UNCHANGED <<memVars, row, overlap>>, dead' \in BOOLEAN
    PROVE  /\ MemType' /\ UNCHANGED <<locked, cryptoKeyPriv>>
           /\ Len(deriveOnUnlock') >= Len(deriveOnUnlock)
           /\ \A a \in Accounts : acctInfo'[a] # "absent" => row[a] # "none" /\ "external" \in Bare
<1>1. /\ MemType
      /\ \A a \in Accounts : acctInfo[a] # "absent" => row[a] # "none" /\ "external" \in Bare
  BY InvParts
<1>2. Len(deriveOnUnlock) \in Nat
  BY <1>1 DEF MemType
<1> QED BY <1>1, <1>2 DEF memVars, MemType

\* The key follows the lock through steps that change neither.
LEMMA KeysSame ==
    ASSUME KeyRaceInv, UNCHANGED <<locked, cryptoKeyPriv>>,
           (mMtx' = mMtx /\ UNCHANGED dead) \/ mMtx' \in Threads \/ dead'
    PROVE  KeysFollowLock'
BY InvParts, KeyRaceAssumption DEF KeysFollowLock

\* A goroutine's return releases what it holds.
LEMMA ReturnMoves ==
    ASSUME KeyRaceInv, NEW t \in Threads, Return(t)
    PROVE  MoveM(t) /\ MoveS(t)
<1>1. /\ PcOK /\ Mutexes
      /\ pc[t].at \in InRoot <=> mMtx = t
      /\ pc[t].at \in InScope <=> sMtx = t
  BY InvParts DEF Mutexes
<1>2. pc'[t].at \notin InRoot \cup InScope
  BY <1>1, ReturnPc, IdleThread DEF InRoot, InScope
<1> QED BY <1>1, <1>2 DEF Return, MoveM, MoveS

\* A call that returns without a trace: an error, or a question answered.
LEMMA ReturnStep ==
    ASSUME KeyRaceInv, NEW t \in Threads, Return(t), mMtx # t,
           UNCHANGED <<memVars, row, dead, overlap>>
    PROVE  KeyRaceInv'
<1>1. PcOK' /\ Others(t) /\ pc'[t] = Idle
  BY InvParts, ReturnPc
<1>2. ThreadInv(t)' /\ pc'[t].call = "none"
  BY <1>1, IdleThread
<1>3. /\ MemType' /\ UNCHANGED <<locked, cryptoKeyPriv>>
      /\ Len(deriveOnUnlock') >= Len(deriveOnUnlock)
      /\ \A a \in Accounts : acctInfo'[a] # "absent" => row[a] # "none" /\ "external" \in Bare
  BY InvParts, MemSame DEF MemType
<1>4. mMtx' = mMtx
  BY DEF Return
<1>5. KeysFollowLock'
  BY <1>3, <1>4, KeysSame
<1> QED
  BY <1>1, <1>2, <1>3, <1>5, ReturnMoves, ThreadStep

\* A panic stops everything where it is.
LEMMA PanicStep ==
    ASSUME KeyRaceInv, Panic, UNCHANGED <<row, overlap>>
    PROVE  KeyRaceInv'
<1>1. /\ UNCHANGED <<mMtx, sMtx, memVars, pc>> /\ dead'
      /\ UNCHANGED <<locked, cryptoKeyPriv, acctInfo, deriveOnUnlock, addr>>
  BY DEF Panic, memVars
<1>2. MemType' /\ KeysFollowLock'
  BY <1>1, InvParts DEF MemType, KeysFollowLock, Panic
<1>3. PcOK' /\ Mutexes' /\ RowsInv' /\ UnlockFailsOnlyOnSpoiledRow'
  BY <1>1, InvParts DEF PcOK, Mutexes, RowsInv, Creating, UnlockFailsOnlyOnSpoiledRow
<1>4. \A u \in Threads : ThreadInv(u)'
  BY <1>1, InvParts DEF ThreadInv, At
<1>5. \A a \in Accounts : acctInfo'[a] # "absent" => row'[a] # "none" /\ "external" \in Bare
  BY <1>1, InvParts
<1> QED
  BY <1>2, <1>3, <1>4, <1>5 DEF KeyRaceInv, KeyRaceTypeOK, MemType, PcOK, Mutexes

\* A step that leaves the shared state alone, and may take a mutex.
LEMMA QuietStep ==
    ASSUME KeyRaceInv, NEW t \in Threads, PcOK', Others(t), MoveM(t), MoveS(t), ThreadInv(t)',
           UNCHANGED <<memVars, row, dead, overlap>>, mMtx' \in {mMtx, t},
           pc'[t].call = pc[t].call,
           \/ pc'[t].err = pc[t].err \/ pc'[t].err # "ErrCrypto"
           \/ "external" \in Bare /\ \E a \in Accounts : row[a] = "zero"
    PROVE  KeyRaceInv'
<1>1. /\ MemType' /\ UNCHANGED <<locked, cryptoKeyPriv>>
      /\ Len(deriveOnUnlock') >= Len(deriveOnUnlock)
      /\ \A a \in Accounts : acctInfo'[a] # "absent" => row[a] # "none" /\ "external" \in Bare
  BY InvParts, MemSame DEF MemType
<1>2. KeysFollowLock'
  BY <1>1, KeysSame
<1> QED
  BY <1>1, <1>2, ThreadStep

\* A goroutine that moves on within a call, under the mutexes it has.
LEMMA GoesStep ==
    ASSUME KeyRaceInv, NEW t \in Threads, NEW x \in Places, Goes(t, x),
           UNCHANGED <<mMtx, sMtx, memVars, row, dead, overlap>>,
           x \in InRoot <=> pc[t].at \in InRoot, x \in InScope <=> pc[t].at \in InScope,
           ThreadInv(t)'
    PROVE  KeyRaceInv'
<1>1. /\ PcOK' /\ Others(t)
      /\ pc'[t].at = x /\ pc'[t].call = pc[t].call /\ pc'[t].err = pc[t].err
  BY InvParts, GoesPc
<1>2. MoveM(t) /\ MoveS(t)
  BY <1>1 DEF MoveM, MoveS
<1> QED
  BY <1>1, <1>2, QuietStep

\* The places by mutex.
LEMMA PlaceSets ==
    /\ InRoot \subseteq Places /\ InScope \subseteq Places
    /\ {"idle", "m.mtx", "s.mtx"} \subseteq Places
    /\ InRoot \cap InScope = {}
    /\ {"idle", "m.mtx", "s.mtx"} \cap (InRoot \cup InScope) = {}
BY DEF Places, InRoot, InScope

\* What the invariant says of the goroutine that takes a step.
LEMMA Here ==
    ASSUME KeyRaceInv, NEW t \in Threads
    PROVE  /\ PcOK /\ MemType /\ pc[t] \in PcType /\ ThreadInv(t)
           /\ mMtx = t <=> pc[t].at \in InRoot
           /\ sMtx = t <=> pc[t].at \in InScope
BY InvParts DEF PcOK, Mutexes

-----------------------------------------------------------------------------
(* Lock and Unlock.                                                        *)

\* lock() begins, from Lock, a wrong passphrase or a failed Unlock.
LEMMA WipesStep ==
    ASSUME KeyRaceInv, NEW t \in Threads, NEW err \in Errs, Wipes(t, err),
           mMtx \in {Nobody, t}, pc[t].at \in {"m.mtx", "accounts"},
           UNCHANGED <<sMtx, memVars, row, dead, overlap>>,
           err = "ErrCrypto" => "external" \in Bare /\ \E a \in Accounts : row[a] = "zero"
    PROVE  KeyRaceInv'
<1> DEFINE r == [pc[t] EXCEPT !.at = "wipe", !.todo = Accounts, !.err = err]
<1>1. PcOK /\ pc[t] \in PcType /\ ThreadInv(t)
  BY Here
<1>2. "wipe" \in Places /\ "wipe" \in InRoot /\ "wipe" \notin InScope
  BY DEF Places, InRoot, InScope
<1>3. r \in PcType /\ pc' = [pc EXCEPT ![t] = r]
  BY <1>1, <1>2, PcUpdates DEF Wipes
<1>4. r.at = "wipe" /\ r.call = pc[t].call /\ r.err = err
  BY <1>1 DEF PcType
<1> HIDE DEF r
<1>5. PcOK' /\ Others(t) /\ pc'[t] = r
  BY <1>1, <1>3, SetPc
<1>6. pc[t].call \in RootCalls /\ pc[t].at \notin InScope
  BY <1>1 DEF ThreadInv, InRoot, InScope
<1>7. ThreadInv(t)'
  BY <1>2, <1>4, <1>5, <1>6 DEF ThreadInv, At, InRoot, InScope
<1>8. MoveM(t) /\ MoveS(t) /\ mMtx' = t
  BY <1>2, <1>4, <1>5, <1>6 DEF Wipes, MoveM, MoveS
<1> QED
  BY <1>4, <1>5, <1>7, <1>8, QuietStep

\* Lock returns at once or begins to wipe.
LEMMA LockStep ==
    ASSUME KeyRaceInv, NEW t \in Threads, Lock(t)
    PROVE  KeyRaceInv'
<1>1. mMtx = Nobody /\ pc[t].at = "m.mtx" /\ UNCHANGED <<memVars, row, dead, overlap>>
  BY DEF Lock, At
<1>2. CASE Return(t)
  BY <1>1, <1>2, ReturnStep, KeyRaceAssumption
<1>3. CASE Wipes(t, "nil") /\ UNCHANGED sMtx
  BY <1>1, <1>3, WipesStep DEF Errs
<1> QED BY <1>2, <1>3 DEF Lock

\* A wiped account loses its private key in the cache and in the hands of the
\* goroutine that derives from it.
LEMMA LockAccountStep ==
    ASSUME KeyRaceInv, NEW t \in Threads, NEW a \in Accounts, lockAccount(t, a)
    PROVE  KeyRaceInv'
<1> DEFINE r == [pc[t] EXCEPT !.todo = @ \ {a}]
<1>1. PcOK /\ MemType /\ pc[t] \in PcType /\ ThreadInv(t)
  BY Here
<1>2. r \in PcType
  <2>1. pc[t].todo \ {a} \in SUBSET Accounts
    BY <1>1 DEF PcType
  <2> QED BY <1>1, <2>1, PcUpdates
<1>3. r.at = pc[t].at /\ r.call = pc[t].call /\ r.err = pc[t].err
  BY <1>1 DEF PcType
<1>4. /\ pc[t].at = "wipe"
      /\ UNCHANGED <<mMtx, sMtx, locked, cryptoKeyPriv, deriveOnUnlock, addr, row, dead, overlap>>
  BY DEF lockAccount, At
<1>5. /\ acctInfo' \in [Accounts -> {"absent", "public", "private"}]
      /\ \A b \in Accounts : acctInfo'[b] # "absent" => acctInfo[b] # "absent"
  BY <1>1 DEF lockAccount, MemType
<1>6. MemType' /\ KeysFollowLock'
  BY <1>1, <1>4, <1>5, InvParts DEF MemType, KeysFollowLock
<1>7. \A b \in Accounts : acctInfo'[b] # "absent" => row'[b] # "none" /\ "external" \in Bare
  BY <1>4, <1>5, InvParts
<1>8. /\ PcOK'
      /\ \A u \in Threads : /\ pc'[u].at = pc[u].at /\ pc'[u].call = pc[u].call
                            /\ pc'[u].err = pc[u].err
                            /\ pc'[u] = pc[u] \/ u = t \/ pc[u].at = "address"
  <2>1. CASE pc' = [pc EXCEPT ![t] = r]
    <3> HIDE DEF r
    <3>1. PcOK' /\ Others(t) /\ pc'[t] = r
      BY <1>1, <1>2, <2>1, SetPc
    <3> QED BY <1>3, <3>1 DEF Others
  <2>2. CASE pc' = Wiped(t, a)
    <3>1. \A u \in Threads : /\ [pc[u] EXCEPT !.key = "wiped"] \in PcType
                             /\ pc[u] \in PcType
      BY <1>1, PcUpdates DEF PcOK, Keys
    <3>2. \A u \in Threads : /\ [pc[u] EXCEPT !.key = "wiped"].at = pc[u].at
                             /\ [pc[u] EXCEPT !.key = "wiped"].call = pc[u].call
                             /\ [pc[u] EXCEPT !.key = "wiped"].err = pc[u].err
      BY <3>1 DEF PcType
    <3>3. pc' = [u \in Threads |->
                   IF u = t THEN r
                   ELSE IF pc[u].at = "address" /\ pc[u].acct = a /\ pc[u].key = "private"
                   THEN [pc[u] EXCEPT !.key = "wiped"] ELSE pc[u]]
      BY <2>2 DEF Wiped
    <3> HIDE DEF r
    <3> QED BY <1>2, <1>3, <3>1, <3>2, <3>3 DEF PcOK
  <2>3. pc' = [pc EXCEPT ![t] = r] \/ pc' = Wiped(t, a)
    BY DEF lockAccount
  <2> QED BY <2>1, <2>2, <2>3
<1> HIDE DEF r
<1>9. \A u \in Threads : /\ pc'[u].at = pc[u].at /\ pc'[u].call = pc[u].call
                         /\ pc'[u].err = pc[u].err
  BY <1>8
<1>10. Mutexes' /\ UnlockFailsOnlyOnSpoiledRow' /\ RowsInv'
  <2>1. Mutexes /\ UnlockFailsOnlyOnSpoiledRow /\ RowsInv
    BY InvParts
  <2>2. Mutexes'
    BY <1>4, <1>9, <2>1 DEF Mutexes
  <2>3. UnlockFailsOnlyOnSpoiledRow'
    BY <1>4, <1>9, <2>1 DEF UnlockFailsOnlyOnSpoiledRow
  <2>4. Creating' = Creating
    BY <1>9 DEF Creating
  <2>5. RowsInv'
    BY <1>4, <2>1, <2>4 DEF RowsInv
  <2> QED BY <2>2, <2>3, <2>5
<1>11. ASSUME NEW u \in Threads PROVE ThreadInv(u)'
  <2>1. ThreadInv(u)
    BY InvParts
  <2>2. CASE pc'[u] = pc[u]
    BY <1>4, <2>1, <2>2 DEF ThreadInv, At
  <2>3. CASE pc[u].at \in {"wipe", "address"}
    <3>1. pc'[u].at = pc[u].at /\ pc'[u].call = pc[u].call
      BY <1>9
    <3> QED BY <2>1, <2>3, <3>1 DEF ThreadInv, At, InRoot, InScope
  <2>4. pc'[u] = pc[u] \/ pc[u].at \in {"wipe", "address"}
    BY <1>4, <1>8
  <2> QED BY <2>2, <2>3, <2>4
<1> QED
  BY <1>6, <1>7, <1>8, <1>10, <1>11 DEF KeyRaceInv, KeyRaceTypeOK, MemType, PcOK, Mutexes

\* The crypto key is wiped under m.mtx, before the flag is set.
LEMMA LockKeysStep ==
    ASSUME KeyRaceInv, NEW t \in Threads, lockKeys(t)
    PROVE  KeyRaceInv'
<1>1. PcOK /\ MemType /\ ThreadInv(t) /\ mMtx = t /\ pc[t].at = "wipe"
  BY Here DEF lockKeys, At, InRoot
<1>2. /\ Goes(t, "locked") /\ cryptoKeyPriv' = "zero"
      /\ UNCHANGED <<mMtx, sMtx, locked, acctInfo, deriveOnUnlock, addr, row, dead, overlap>>
  BY DEF lockKeys
<1>3. /\ PcOK' /\ Others(t) /\ pc'[t].at = "locked"
      /\ pc'[t].call = pc[t].call /\ pc'[t].err = pc[t].err
  BY <1>1, <1>2, GoesPc, PlaceSets DEF InRoot
<1>4. ThreadInv(t)'
  BY <1>1, <1>2, <1>3 DEF ThreadInv, At, InRoot, InScope
<1>5. MoveM(t) /\ MoveS(t)
  BY <1>1, <1>2, <1>3 DEF MoveM, MoveS, InRoot, InScope
<1>6. MemType'
  BY <1>1, <1>2 DEF MemType, CryptoKeys
<1>7. KeysFollowLock'
  BY <1>1, <1>2, KeyRaceAssumption DEF KeysFollowLock
<1> QED
  BY <1>1, <1>2, <1>3, <1>4, <1>5, <1>6, <1>7, InvParts, ThreadStep

\* lock() and Unlock end: the flag and the key agree when m.mtx is released.
LEMMA RootDoneStep ==
    ASSUME KeyRaceInv, NEW t \in Threads, lockDone(t) \/ unlockDone(t)
    PROVE  KeyRaceInv'
<1>1. PcOK /\ MemType /\ ThreadInv(t) /\ mMtx = t
  BY Here DEF lockDone, unlockDone, At, InRoot
<1>2. /\ Return(t) /\ locked' \in BOOLEAN
      /\ UNCHANGED <<cryptoKeyPriv, acctInfo, deriveOnUnlock, addr, row, dead, overlap>>
  BY DEF lockDone, unlockDone
<1>3. cryptoKeyPriv = "real" <=> ~locked'
  BY <1>1 DEF lockDone, unlockDone, ThreadInv, At
<1>4. PcOK' /\ Others(t) /\ pc'[t] = Idle
  BY <1>1, <1>2, ReturnPc
<1>5. ThreadInv(t)' /\ pc'[t].call = "none"
  BY <1>4, IdleThread
<1>6. MemType' /\ KeysFollowLock'
  BY <1>1, <1>2, <1>3 DEF MemType, KeysFollowLock
<1> QED
  BY <1>1, <1>2, <1>4, <1>5, <1>6, InvParts, ReturnMoves, ThreadStep

\* Unlock returns at once, locks on a wrong passphrase, or begins to decrypt.
LEMMA UnlockStep ==
    ASSUME KeyRaceInv, NEW t \in Threads, Unlock(t)
    PROVE  KeyRaceInv'
<1>1. /\ mMtx = Nobody /\ pc[t].at = "m.mtx"
      /\ UNCHANGED <<locked, acctInfo, deriveOnUnlock, addr, row, dead, overlap>>
  BY DEF Unlock, At
<1>2. CASE Wipes(t, "ErrWrongPassphrase") /\ UNCHANGED <<sMtx, cryptoKeyPriv>>
  BY <1>1, <1>2, WipesStep DEF Errs, memVars
<1>3. CASE Return(t) /\ UNCHANGED cryptoKeyPriv
  BY <1>1, <1>3, ReturnStep, KeyRaceAssumption DEF memVars
<1>4. CASE /\ locked /\ cryptoKeyPriv' = "real" /\ mMtx' = t
           /\ pc' = [pc EXCEPT ![t].at = "accounts", ![t].todo = Accounts]
           /\ UNCHANGED sMtx
  <2> DEFINE r == [pc[t] EXCEPT !.at = "accounts", !.todo = Accounts]
  <2>1. PcOK /\ MemType /\ pc[t] \in PcType /\ ThreadInv(t)
    BY Here
  <2>2. r \in PcType /\ pc' = [pc EXCEPT ![t] = r]
    BY <1>4, <2>1, PcUpdates, PlaceSets DEF InRoot
  <2>3. r.at = "accounts" /\ r.call = pc[t].call /\ r.err = pc[t].err
    BY <2>1 DEF PcType
  <2> HIDE DEF r
  <2>4. PcOK' /\ Others(t) /\ pc'[t] = r
    BY <2>1, <2>2, SetPc
  <2>5. ThreadInv(t)'
    BY <1>1, <1>4, <2>1, <2>3, <2>4 DEF ThreadInv, At, InRoot, InScope
  <2>6. MoveM(t) /\ MoveS(t)
    BY <1>1, <1>4, <2>3, <2>4 DEF MoveM, MoveS, InRoot, InScope
  <2>7. MemType' /\ KeysFollowLock' /\ Len(deriveOnUnlock') >= Len(deriveOnUnlock)
    BY <1>1, <1>4, <2>1, KeyRaceAssumption DEF MemType, KeysFollowLock, CryptoKeys
  <2> QED
    BY <1>1, <2>3, <2>4, <2>5, <2>6, <2>7, InvParts, ThreadStep
<1> QED BY <1>2, <1>3, <1>4 DEF Unlock

\* Decrypting a cached account fails only when its row was written under the
\* wiped key.
LEMMA UnlockAccountStep ==
    ASSUME KeyRaceInv, NEW t \in Threads, NEW a \in Accounts, unlockAccount(t, a)
    PROVE  KeyRaceInv'
<1>1. PcOK /\ MemType /\ pc[t] \in PcType /\ ThreadInv(t) /\ pc[t].at = "accounts" /\ mMtx = t
  BY Here DEF unlockAccount, At, InRoot
<1>2. UNCHANGED <<sMtx, locked, cryptoKeyPriv, deriveOnUnlock, addr, row, dead, overlap>>
  BY DEF unlockAccount
<1>3. CASE /\ acctInfo[a] # "absent" /\ row[a] # cryptoKeyPriv
           /\ Wipes(t, "ErrCrypto") /\ UNCHANGED acctInfo
  <2>1. row[a] # "none" /\ "external" \in Bare /\ cryptoKeyPriv = "real"
    BY <1>1, <1>3, InvParts DEF ThreadInv
  <2>2. row[a] = "zero"
    BY <1>1, <1>3, <2>1 DEF MemType, CryptoKeys
  <2> QED BY <1>1, <1>2, <1>3, <2>1, <2>2, WipesStep DEF Errs, memVars
<1>4. CASE /\ \/ acctInfo' = acctInfo
              \/ acctInfo[a] # "absent" /\ acctInfo' = [acctInfo EXCEPT ![a] = "private"]
           /\ pc' = [pc EXCEPT ![t].todo = @ \ {a}] /\ UNCHANGED mMtx
  <2> DEFINE r == [pc[t] EXCEPT !.todo = @ \ {a}]
  <2>1. pc[t].todo \ {a} \in SUBSET Accounts
    BY <1>1 DEF PcType
  <2>2. r \in PcType /\ pc' = [pc EXCEPT ![t] = r]
    BY <1>1, <1>4, <2>1, PcUpdates
  <2>3. r.at = pc[t].at /\ r.call = pc[t].call /\ r.err = pc[t].err
    BY <1>1 DEF PcType
  <2> HIDE DEF r
  <2>4. PcOK' /\ Others(t) /\ pc'[t] = r
    BY <1>1, <2>2, SetPc
  <2>5. ThreadInv(t)'
    BY <1>1, <1>2, <2>3, <2>4 DEF ThreadInv, At, InRoot, InScope
  <2>6. MoveM(t) /\ MoveS(t)
    BY <1>2, <1>4, <2>3, <2>4 DEF MoveM, MoveS
  <2>7. /\ acctInfo' \in [Accounts -> {"absent", "public", "private"}]
        /\ \A b \in Accounts : acctInfo'[b] # "absent" => acctInfo[b] # "absent"
    BY <1>1, <1>4 DEF MemType
  <2>8. MemType' /\ Len(deriveOnUnlock') >= Len(deriveOnUnlock)
    BY <1>1, <1>2, <2>7 DEF MemType
  <2>9. KeysFollowLock'
    BY <1>2, <1>4, KeysSame
  <2> QED
    BY <1>1, <1>2, <2>3, <2>4, <2>5, <2>6, <2>7, <2>8, <2>9, InvParts, ThreadStep
<1> QED BY <1>3, <1>4 DEF unlockAccount

\* The loop over the queue is as long as the queue was.
LEMMA UnlockRangeStep ==
    ASSUME KeyRaceInv, NEW t \in Threads, unlockRange(t)
    PROVE  KeyRaceInv'
<1> DEFINE r == [pc[t] EXCEPT !.at = "queue", !.infos = deriveOnUnlock]
<1>1. PcOK /\ MemType /\ pc[t] \in PcType /\ ThreadInv(t) /\ pc[t].at = "accounts" /\ mMtx = t
  BY Here DEF unlockRange, At, InRoot
<1>2. UNCHANGED <<mMtx, sMtx, memVars, row, dead, overlap>>
  BY DEF unlockRange
<1>3. deriveOnUnlock \in Seq(Infos) /\ Len(deriveOnUnlock) \in Nat
  BY <1>1 DEF MemType
<1>4. r \in PcType /\ pc' = [pc EXCEPT ![t] = r]
  BY <1>1, <1>3, PcUpdates, PlaceSets DEF unlockRange, InRoot
<1>5. /\ r.at = "queue" /\ r.call = pc[t].call /\ r.err = pc[t].err
      /\ r.infos = deriveOnUnlock
  BY <1>1 DEF PcType
<1> HIDE DEF r
<1>6. PcOK' /\ Others(t) /\ pc'[t] = r
  BY <1>1, <1>4, SetPc
<1>7. ThreadInv(t)'
  BY <1>1, <1>2, <1>3, <1>5, <1>6 DEF ThreadInv, At, InRoot, InScope, memVars
<1>8. MoveM(t) /\ MoveS(t)
  BY <1>1, <1>2, <1>5, <1>6 DEF MoveM, MoveS, InRoot, InScope
<1> QED
  BY <1>2, <1>5, <1>6, <1>7, <1>8, QuietStep

\* Unlock shortens the queue once for every entry it saw.
LEMMA UnlockAddressStep ==
    ASSUME KeyRaceInv, NEW t \in Threads, unlockAddress(t)
    PROVE  KeyRaceInv'
<1> DEFINE info == Head(pc[t].infos)
           r == [pc[t] EXCEPT !.infos = Tail(@)]
<1>1. PcOK /\ MemType /\ pc[t] \in PcType /\ ThreadInv(t) /\ pc[t].at = "queue" /\ mMtx = t
  BY Here DEF unlockAddress, At, InRoot
<1>2. UNCHANGED <<row, overlap>> /\ pc[t].infos # <<>>
  BY DEF unlockAddress
<1>3. CASE Panic
  BY <1>2, <1>3, PanicStep
<1>4. CASE /\ addr' = IF info \in Threads THEN [addr EXCEPT ![info].key = "right"] ELSE addr
           /\ deriveOnUnlock' = Tail(deriveOnUnlock)
           /\ pc' = [pc EXCEPT ![t].infos = Tail(@)]
           /\ UNCHANGED <<mMtx, sMtx, locked, cryptoKeyPriv, acctInfo, dead>>
  <2>1. pc[t].infos \in Seq(Infos) /\ deriveOnUnlock \in Seq(Infos)
    BY <1>1 DEF PcType, MemType
  <2>2. Len(pc[t].infos) <= Len(deriveOnUnlock)
    BY <1>1 DEF ThreadInv, At
  <2>3. deriveOnUnlock # <<>>
    BY <1>2, <2>1, <2>2
  <2>4. /\ Tail(pc[t].infos) \in Seq(Infos) /\ Tail(deriveOnUnlock) \in Seq(Infos)
        /\ Len(Tail(pc[t].infos)) = Len(pc[t].infos) - 1
        /\ Len(Tail(deriveOnUnlock)) = Len(deriveOnUnlock) - 1
    BY <1>2, <2>1, <2>3
  <2>5. Len(Tail(pc[t].infos)) <= Len(Tail(deriveOnUnlock))
    BY <2>1, <2>2, <2>4
  <2>6. r \in PcType /\ pc' = [pc EXCEPT ![t] = r]
    BY <1>1, <1>4, <2>4, PcUpdates
  <2>7. /\ r.at = pc[t].at /\ r.call = pc[t].call /\ r.err = pc[t].err
        /\ r.infos = Tail(pc[t].infos)
    BY <1>1 DEF PcType
  <2> HIDE DEF r
  <2>8. PcOK' /\ Others(t) /\ pc'[t] = r
    BY <1>1, <2>6, SetPc
  <2>9. ThreadInv(t)'
    BY <1>1, <1>4, <2>5, <2>7, <2>8 DEF ThreadInv, At, InRoot, InScope
  <2>10. MoveM(t) /\ MoveS(t)
    BY <1>4, <2>7, <2>8 DEF MoveM, MoveS
  <2>11. addr' \in [Threads -> [acct : Accounts, key : {"none", "missing", "right"}]]
    BY <1>1, <1>4 DEF MemType
  <2>12. MemType'
    BY <1>1, <1>2, <1>4, <2>4, <2>11 DEF MemType
  <2>13. KeysFollowLock'
    BY <1>4, KeysSame
  <2> QED
    BY <1>1, <1>2, <1>4, <2>7, <2>8, <2>9, <2>10, <2>12, <2>13, InvParts, ThreadStep
<1> QED BY <1>3, <1>4 DEF unlockAddress

-----------------------------------------------------------------------------
(* Calls of the ScopedKeyManager.                                          *)

\* A step of a goroutine under s.mtx that only changes its own counter.
LEMMA LocalStep ==
    ASSUME KeyRaceInv, NEW t \in Threads, NEW r \in PcType, pc' = [pc EXCEPT ![t] = r],
           UNCHANGED <<mMtx, sMtx, memVars, row, dead, overlap>>,
           pc[t].at \in InScope, r.at \in InScope,
           r.call = pc[t].call, r.err = pc[t].err, ThreadInv(t)'
    PROVE  KeyRaceInv'
<1>1. PcOK' /\ Others(t) /\ pc'[t] = r
  BY InvParts, SetPc
<1>2. MoveM(t) /\ MoveS(t)
  BY <1>1, PlaceSets DEF MoveM, MoveS
<1> QED BY <1>1, <1>2, QuietStep

\* A call of the scope takes s.mtx.
LEMMA ScopeLockStep ==
    ASSUME KeyRaceInv, NEW t \in Threads, ScopeLock(t)
    PROVE  KeyRaceInv'
<1> DEFINE x == IF pc[t].call = "AccountProperties" THEN "load" ELSE "isLocked"
<1>1. PcOK /\ ThreadInv(t) /\ pc[t].at = "s.mtx" /\ sMtx = Nobody /\ Goes(t, x)
  BY Here DEF ScopeLock, At
<1>2. sMtx' = t /\ UNCHANGED <<mMtx, memVars, row, dead, overlap>>
  BY DEF ScopeLock
<1>3. x \in {"load", "isLocked"}
  OBVIOUS
<1>4. x \in Places /\ x \in InScope /\ x \notin InRoot
  BY <1>3 DEF Places, InScope, InRoot
<1> HIDE DEF x
<1>5. /\ PcOK' /\ Others(t) /\ pc'[t].at = x
      /\ pc'[t].call = pc[t].call /\ pc'[t].err = pc[t].err
  BY <1>1, <1>4, GoesPc
<1>6. ThreadInv(t)'
  BY <1>1, <1>3, <1>4, <1>5 DEF ThreadInv, At, InScope, InRoot
<1>7. MoveM(t) /\ MoveS(t)
  BY <1>1, <1>2, <1>4, <1>5, PlaceSets DEF MoveM, MoveS
<1> QED BY <1>2, <1>5, <1>6, <1>7, QuietStep

\* A place of a call of the scope where nothing more is known than the call.
Plain == {"isLocked", "load", "properties", "derive", "address", "use"}

\* Moving on to such a place.
LEMMA PlainStep ==
    ASSUME KeyRaceInv, NEW t \in Threads, NEW r \in PcType, pc' = [pc EXCEPT ![t] = r],
           UNCHANGED <<mMtx, sMtx, memVars, row, dead, overlap>>,
           pc[t].at \in InScope, r.at \in Plain, r.call = pc[t].call, r.err = pc[t].err
    PROVE  KeyRaceInv'
<1>1. PcOK /\ ThreadInv(t)
  BY Here
<1>2. pc'[t] = r /\ r.at \in InScope
  BY <1>1, SetPc DEF Plain, InScope
<1>3. pc[t].call \in ScopeCalls
  BY <1>1 DEF ThreadInv
<1>4. ThreadInv(t)'
  BY <1>2, <1>3 DEF ThreadInv, At, InScope, InRoot, Plain
<1> QED BY <1>2, <1>4, LocalStep

\* The same, of a step that changes nothing but the place.
LEMMA PlainGoes ==
    ASSUME KeyRaceInv, NEW t \in Threads, NEW x \in Plain, Goes(t, x),
           UNCHANGED <<mMtx, sMtx, memVars, row, dead, overlap>>, pc[t].at \in InScope
    PROVE  KeyRaceInv'
<1> DEFINE r == [pc[t] EXCEPT !.at = x]
<1>1. pc[t] \in PcType
  BY Here
<1>2. r \in PcType /\ pc' = [pc EXCEPT ![t] = r]
  BY <1>1, PcUpdates DEF Goes, Plain, Places, InScope
<1>3. r.at = x /\ r.call = pc[t].call /\ r.err = pc[t].err
  BY <1>1 DEF PcType
<1> HIDE DEF r
<1> QED BY <1>2, <1>3, PlainStep

\* A return of a goroutine under s.mtx.
LEMMA ScopeReturn ==
    ASSUME KeyRaceInv, NEW t \in Threads, Return(t), pc[t].at \in InScope,
           UNCHANGED <<memVars, row, dead, overlap>>
    PROVE  KeyRaceInv'
<1>1. mMtx # t
  BY Here, PlaceSets
<1> QED BY <1>1, ReturnStep

\* The question whether the manager is locked.
LEMMA IsLockedStep ==
    ASSUME KeyRaceInv, NEW t \in Threads, IsLocked(t)
    PROVE  KeyRaceInv'
<1>1. MemType /\ pc[t] \in PcType /\ pc[t].at = "isLocked" /\ pc[t].at \in InScope
  BY Here DEF IsLocked, At, InScope
<1>2. UNCHANGED <<memVars, row, dead, overlap>>
  BY DEF IsLocked
<1>3. CASE /\ pc' = [pc EXCEPT ![t].at = "load", ![t].private = ~locked]
           /\ UNCHANGED <<mMtx, sMtx>>
  <2> DEFINE r == [pc[t] EXCEPT !.at = "load", !.private = ~locked]
  <2>1. (~locked) \in BOOLEAN
    OBVIOUS
  <2>2. "load" \in Places /\ "load" \in Plain
    BY DEF Places, InScope, Plain
  <2>3. r \in PcType /\ pc' = [pc EXCEPT ![t] = r]
    BY <1>1, <1>3, <2>1, <2>2, PcUpdates
  <2>4. r.at = "load" /\ r.call = pc[t].call /\ r.err = pc[t].err
    BY <1>1 DEF PcType
  <2> HIDE DEF r
  <2>5. UNCHANGED <<mMtx, sMtx, memVars, row, dead, overlap>>
    BY <1>2, <1>3
  <2>6. r.at \in Plain
    BY <2>2, <2>4
  <2> QED BY <1>1, <2>3, <2>4, <2>5, <2>6, PlainStep
<1>4. CASE Return(t)
  BY <1>1, <1>2, <1>4, ScopeReturn
<1>5. CASE Goes(t, "use") /\ UNCHANGED <<mMtx, sMtx>>
  BY <1>1, <1>2, <1>5, PlainGoes DEF Plain
<1> QED BY <1>3, <1>4, <1>5 DEF IsLocked

\* The account is loaded, not found, or read, and its last address is to be made.
LEMMA LoadStep ==
    ASSUME KeyRaceInv, NEW t \in Threads, loadAccountInfo(t)
    PROVE  KeyRaceInv'
<1>1. /\ PcOK /\ MemType /\ pc[t] \in PcType /\ ThreadInv(t)
      /\ pc[t].at = "load" /\ pc[t].at \in InScope
  BY Here DEF loadAccountInfo, At, InScope
<1>2. UNCHANGED <<memVars, row, dead, overlap>>
  BY DEF loadAccountInfo
<1>3. CASE Loaded(t)
  BY <1>1, <1>2, <1>3, PlainGoes DEF Loaded, Plain
<1>4. CASE Return(t)
  BY <1>1, <1>2, <1>4, ScopeReturn
<1>5. CASE /\ row[pc[t].acct] # "none"
           /\ pc' = [pc EXCEPT ![t].at = "lastAddr",
                               ![t].key = IF locked THEN "public" ELSE "private"]
           /\ UNCHANGED <<mMtx, sMtx>>
  <2> DEFINE k == IF locked THEN "public" ELSE "private"
             r == [pc[t] EXCEPT !.at = "lastAddr", !.key = k]
  <2>1. k \in {"public", "private"} /\ k \in Keys /\ "lastAddr" \in Places /\ "lastAddr" \in InScope
    BY DEF Keys, Places, InScope
  <2>2. pc' = [pc EXCEPT ![t] = r]
    BY <1>5
  <2> HIDE DEF k
  <2>3. r \in PcType
    BY <1>1, <2>1, PcUpdates
  <2>4. /\ r.at = "lastAddr" /\ r.call = pc[t].call /\ r.err = pc[t].err
        /\ r.key = k /\ r.acct = pc[t].acct
    BY <1>1 DEF PcType
  <2> HIDE DEF r
  <2>5. pc'[t] = r
    BY <1>1, <2>2, <2>3, SetPc
  <2>6. ThreadInv(t)'
    BY <1>1, <1>2, <1>5, <2>1, <2>4, <2>5 DEF ThreadInv, At, InScope, InRoot
  <2> QED BY <1>1, <1>2, <1>5, <2>1, <2>2, <2>3, <2>4, <2>6, LocalStep
<1> QED BY <1>3, <1>4, <1>5 DEF loadAccountInfo

\* Whatever becomes of an append, the queue is one and does not get shorter.
LEMMA AppendedType ==
    ASSUME MemType, NEW o \in Infos, NEW q \in Appended(o)
    PROVE  q \in Seq(Infos) /\ Len(q) >= Len(deriveOnUnlock)
<1> DEFINE one == Append(deriveOnUnlock, o)
           two == <<NilInfo>> \o Append(deriveOnUnlock, o)
<1>1. deriveOnUnlock \in Seq(Infos) /\ NilInfo \in Infos /\ Len(deriveOnUnlock) \in Nat
  BY DEF MemType, Infos
<1>2. one \in Seq(Infos) /\ Len(one) = Len(deriveOnUnlock) + 1
  BY <1>1
<1>3. two \in Seq(Infos) /\ Len(two) = Len(deriveOnUnlock) + 2
  <2>1. <<NilInfo>> \in Seq(Infos) /\ Len(<<NilInfo>>) = 1
    BY <1>1
  <2> QED BY <1>1, <1>2, <2>1
<1>4. q = one \/ q = deriveOnUnlock \/ q = two
  BY DEF Appended
<1> HIDE DEF one, two
<1>5. CASE q = one
  BY <1>1, <1>2, <1>5
<1>6. CASE q = two
  BY <1>1, <1>3, <1>6
<1>7. CASE q = deriveOnUnlock
  BY <1>1, <1>7
<1> QED BY <1>4, <1>5, <1>6, <1>7

\* A step under s.mtx that moves on and changes only what the scope holds.
LEMMA ScopeStepParts ==
    ASSUME KeyRaceInv, NEW t \in Threads, PcOK', Others(t), pc[t].at \in InScope,
           \/ pc'[t].at \in InScope /\ UNCHANGED <<mMtx, sMtx>>
           \/ Return(t),
           ThreadInv(t)', pc'[t].call = pc[t].call \/ pc'[t].call = "none",
           pc'[t].err = pc[t].err \/ pc'[t].err = "nil",
           MemType', UNCHANGED <<locked, cryptoKeyPriv, row, dead>>,
           Len(deriveOnUnlock') >= Len(deriveOnUnlock),
           \A a \in Accounts : acctInfo'[a] # "absent" => row[a] # "none" /\ "external" \in Bare
    PROVE  KeyRaceInv'
<1>1. mMtx # t
  BY Here, PlaceSets
<1>2. MoveM(t) /\ MoveS(t)
  BY ReturnMoves, PlaceSets DEF MoveM, MoveS
<1>3. mMtx' = mMtx
  BY <1>1 DEF Return
<1>4. KeysFollowLock'
  BY <1>3, KeysSame
<1> QED BY <1>2, <1>4, ThreadStep

\* The last address of the account waits for Unlock, or making it panics.
LEMMA LastAddrStep ==
    ASSUME KeyRaceInv, NEW t \in Threads, lastAddr(t)
    PROVE  KeyRaceInv'
<1>1. /\ PcOK /\ MemType /\ pc[t] \in PcType /\ ThreadInv(t)
      /\ pc[t].at = "lastAddr" /\ pc[t].at \in InScope /\ pc[t].acct \in Infos
  BY Here DEF lastAddr, At, InScope, PcType, Infos
<1>2. UNCHANGED <<row, overlap>>
  BY DEF lastAddr
<1>3. CASE Panic
  BY <1>2, <1>3, PanicStep
<1>4. CASE ~Panic
  <2>1. /\ pc[t].key # "private" /\ "external" \in Bare /\ Goes(t, "insert")
        /\ UNCHANGED <<mMtx, sMtx, locked, cryptoKeyPriv, acctInfo, addr, dead>>
        /\ deriveOnUnlock' \in Appended(pc[t].acct)
    BY <1>4 DEF lastAddr
  <2>2. deriveOnUnlock' \in Seq(Infos) /\ Len(deriveOnUnlock') >= Len(deriveOnUnlock)
    BY <1>1, <2>1, AppendedType DEF MemType
  <2>3. /\ PcOK' /\ Others(t) /\ pc'[t].at = "insert"
        /\ pc'[t].call = pc[t].call /\ pc'[t].err = pc[t].err
        /\ pc'[t].key = pc[t].key /\ pc'[t].acct = pc[t].acct
    BY <1>1, <2>1, GoesPc, PlaceSets DEF InScope
  <2>4. ThreadInv(t)'
    BY <1>1, <1>2, <2>1, <2>3 DEF ThreadInv, At, InScope, InRoot
  <2>5. MemType' /\ "insert" \in InScope
    BY <1>1, <1>2, <2>1, <2>2 DEF MemType, InScope
  <2> QED
    BY <1>1, <1>2, <2>1, <2>2, <2>3, <2>4, <2>5, InvParts, ScopeStepParts
<1> QED BY <1>3, <1>4

\* An account is cached only with a row, in a scope without known addresses.
LEMMA CacheStep ==
    ASSUME KeyRaceInv, NEW t \in Threads, cacheAccount(t)
    PROVE  KeyRaceInv'
<1> DEFINE x == IF pc[t].call = "AccountProperties" THEN "properties" ELSE "derive"
<1>1. /\ PcOK /\ MemType /\ pc[t] \in PcType /\ ThreadInv(t)
      /\ pc[t].at = "insert" /\ pc[t].at \in InScope
  BY Here DEF cacheAccount, At, InScope
<1>2. UNCHANGED <<row, overlap>>
  BY DEF cacheAccount
<1>3. CASE Panic
  BY <1>2, <1>3, PanicStep
<1>4. CASE /\ acctInfo' = [acctInfo EXCEPT ![pc[t].acct] = "public"]
           /\ Loaded(t)
           /\ UNCHANGED <<locked, cryptoKeyPriv, deriveOnUnlock, addr, dead>>
  <2>1. pc[t].acct \in Accounts /\ row[pc[t].acct] # "none" /\ "external" \in Bare
    BY <1>1 DEF ThreadInv, PcType, At
  <2>2. x \in {"properties", "derive"}
    OBVIOUS
  <2>3. Goes(t, x) /\ UNCHANGED <<mMtx, sMtx>>
    BY <1>4 DEF Loaded
  <2>4. x \in Places /\ x \in InScope /\ x \notin InRoot
    BY <2>2 DEF Places, InScope, InRoot
  <2> HIDE DEF x
  <2>5. /\ PcOK' /\ Others(t) /\ pc'[t].at = x
        /\ pc'[t].call = pc[t].call /\ pc'[t].err = pc[t].err
    BY <1>1, <2>3, <2>4, GoesPc
  <2>6. ThreadInv(t)'
    BY <1>1, <2>2, <2>4, <2>5 DEF ThreadInv, At, InScope, InRoot
  <2>7. /\ acctInfo' \in [Accounts -> {"absent", "public", "private"}]
        /\ \A a \in Accounts : acctInfo'[a] # "absent" => row[a] # "none" /\ "external" \in Bare
    BY <1>1, <1>4, <2>1, InvParts DEF MemType
  <2>8. MemType' /\ Len(deriveOnUnlock') >= Len(deriveOnUnlock)
    BY <1>1, <1>2, <1>4, <2>7 DEF MemType
  <2> QED
    BY <1>1, <1>2, <1>4, <2>3, <2>4, <2>5, <2>6, <2>7, <2>8, ScopeStepParts
<1> QED BY <1>3, <1>4 DEF cacheAccount

\* Calls that ask and return.
LEMMA AskStep ==
    ASSUME KeyRaceInv, NEW t \in Threads, AccountProperties(t) \/ PrivKey(t)
    PROVE  KeyRaceInv'
<1>1. /\ pc[t].at \in InScope /\ Return(t)
      /\ UNCHANGED <<memVars, row, dead, overlap>>
  BY DEF AccountProperties, PrivKey, At, InScope
<1> QED BY <1>1, ScopeReturn

\* The private or the public key is derived from, or nil is.
LEMMA DeriveStep ==
    ASSUME KeyRaceInv, NEW t \in Threads, deriveKey(t)
    PROVE  KeyRaceInv'
<1> DEFINE k == IF pc[t].private THEN "private" ELSE "public"
           r == [pc[t] EXCEPT !.at = "address", !.key = k]
<1>1. pc[t] \in PcType /\ pc[t].at \in InScope
  BY Here DEF deriveKey, At, InScope
<1>2. UNCHANGED <<row, overlap>>
  BY DEF deriveKey
<1>3. CASE Panic
  BY <1>2, <1>3, PanicStep
<1>4. CASE pc' = [pc EXCEPT ![t] = r] /\ UNCHANGED <<mMtx, sMtx, memVars, dead>>
  <2>1. k \in Keys /\ "address" \in Places /\ "address" \in Plain
    BY DEF Keys, Places, InScope, Plain
  <2> HIDE DEF k
  <2>2. r \in PcType
    BY <1>1, <2>1, PcUpdates
  <2>3. r.at = "address" /\ r.call = pc[t].call /\ r.err = pc[t].err
    BY <1>1 DEF PcType
  <2> HIDE DEF r
  <2> QED BY <1>1, <1>2, <1>4, <2>1, <2>2, <2>3, PlainStep
<1> QED BY <1>3, <1>4 DEF deriveKey

\* The address that keyToManaged makes is one, and is queued.
LEMMA NewAddressType ==
    ASSUME MemType, NEW t \in Threads, pc[t] \in PcType, NewAddress(t)
    PROVE  /\ addr' \in [Threads -> [acct : Accounts, key : {"none", "missing", "right"}]]
           /\ deriveOnUnlock' \in Seq(Infos) /\ Len(deriveOnUnlock') >= Len(deriveOnUnlock)
<1>1. addr' = [addr EXCEPT ![t] = [acct |-> pc[t].acct, key |-> "missing"]]
  BY DEF NewAddress
<1>2. addr' \in [Threads -> [acct : Accounts, key : {"none", "missing", "right"}]]
  BY <1>1 DEF MemType, PcType
<1>3. deriveOnUnlock' \in Appended(t)
  BY DEF NewAddress
<1>4. deriveOnUnlock' \in Seq(Infos) /\ Len(deriveOnUnlock') >= Len(deriveOnUnlock)
  BY <1>3, AppendedType DEF MemType, Infos
<1> QED BY <1>2, <1>4

\* The call that derives an address returns it or an error, or panics.
LEMMA AddressStep ==
    ASSUME KeyRaceInv, NEW t \in Threads, DeriveFromKeyPath(t)
    PROVE  KeyRaceInv'
<1>1. /\ PcOK /\ MemType /\ pc[t] \in PcType /\ ThreadInv(t)
      /\ pc[t].at = "address" /\ pc[t].at \in InScope
  BY Here DEF DeriveFromKeyPath, At, InScope
<1>2. UNCHANGED <<row, overlap>>
  BY DEF DeriveFromKeyPath
<1>3. CASE Return(t) /\ UNCHANGED <<memVars, dead>>
  BY <1>1, <1>2, <1>3, ScopeReturn
<1>4. CASE Panic
  BY <1>2, <1>4, PanicStep
<1>5. CASE /\ NewAddress(t) /\ Return(t)
           /\ UNCHANGED <<locked, cryptoKeyPriv, acctInfo, dead>>
  <2>1. /\ addr' \in [Threads -> [acct : Accounts, key : {"none", "missing", "right"}]]
        /\ deriveOnUnlock' \in Seq(Infos) /\ Len(deriveOnUnlock') >= Len(deriveOnUnlock)
    BY <1>1, <1>5, NewAddressType
  <2>2. MemType'
    BY <1>1, <1>2, <1>5, <2>1 DEF MemType
  <2>3. PcOK' /\ Others(t) /\ pc'[t] = Idle
    BY <1>1, <1>5, ReturnPc
  <2>4. ThreadInv(t)' /\ pc'[t].call = "none" /\ pc'[t].err = "nil"
    BY <2>3, IdleThread
  <2> QED BY <1>1, <1>2, <1>5, <2>1, <2>2, <2>3, <2>4, InvParts, ScopeStepParts
<1> QED BY <1>3, <1>4, <1>5 DEF DeriveFromKeyPath

\* The last row, and a number left for a NewAccount under way.
LEMMA LastRow ==
    ASSUME KeyRaceInv
    PROVE  \E last \in Accounts :
              /\ \A a \in Accounts : row[a] # "none" <=> a <= last
              /\ MaxAccount - last >= Cardinality(Creating)
              /\ \A t \in Threads : pc[t].call = "NewAccount" => last + 1 \in Accounts
<1>1. PICK last \in Accounts :
         /\ \A a \in Accounts : row[a] # "none" <=> a <= last
         /\ MaxAccount - last >= Cardinality(Creating)
  BY InvParts DEF RowsInv
<1>2. IsFiniteSet(Creating)
  BY KeyRaceAssumption, FS_Subset DEF Creating
<1>3. ASSUME NEW t \in Threads, pc[t].call = "NewAccount" PROVE last + 1 \in Accounts
  <2>1. Creating # {}
    BY <1>3 DEF Creating
  <2>2. Cardinality(Creating) \in Nat /\ Cardinality(Creating) # 0
    BY <1>2, <2>1, FS_CardinalityType, FS_EmptySet
  <2> QED BY <1>1, <2>2, KeyRaceAssumption DEF Accounts
<1> QED BY <1>1, <1>3

\* fetchLastAccount finds the last row.
LEMMA FetchLast ==
    ASSUME NEW last \in Accounts, \A a \in Accounts : row[a] # "none" <=> a <= last
    PROVE  fetchLastAccount = last
<1> DEFINE S == {a \in Accounts : row[a] # "none"}
<1>1. last \in S /\ \A y \in S : last >= y
  BY KeyRaceAssumption DEF Accounts
<1>2. S \subseteq Nat
  BY DEF Accounts
<1> HIDE DEF S
<1>3. Max(S) \in S /\ \A y \in S : Max(S) >= y
  BY <1>1 DEF Max
<1> DEFINE m == Max(S)
<1>4. m \in S /\ m >= last /\ last >= m
  BY <1>1, <1>3
<1>5. m \in Nat /\ last \in Nat
  BY <1>1, <1>2, <1>4
<1>6. fetchLastAccount = m
  BY DEF fetchLastAccount, S
<1> HIDE DEF m
<1> QED BY <1>4, <1>5, <1>6

\* NewAccount takes the number after the last row, while it holds s.mtx.
LEMMA NewAccountStep ==
    ASSUME KeyRaceInv, NEW t \in Threads, NewAccount(t)
    PROVE  KeyRaceInv'
<1>1. /\ PcOK /\ pc[t] \in PcType /\ ThreadInv(t) /\ pc[t].call = "NewAccount"
      /\ pc[t].at \in InScope /\ UNCHANGED <<memVars, row, dead, overlap>>
  BY Here DEF NewAccount, At, InScope
<1>2. CASE Return(t)
  BY <1>1, <1>2, ScopeReturn
<1>3. CASE /\ pc' = [pc EXCEPT ![t].at = "encrypt", ![t].acct = fetchLastAccount + 1]
           /\ UNCHANGED <<mMtx, sMtx>>
  <2>1. PICK last \in Accounts :
           /\ \A a \in Accounts : row[a] # "none" <=> a <= last
           /\ last + 1 \in Accounts
    BY <1>1, LastRow
  <2>2. fetchLastAccount = last
    BY <2>1, FetchLast
  <2> DEFINE r == [pc[t] EXCEPT !.at = "encrypt", !.acct = last + 1]
  <2>3. r \in PcType
    BY <1>1, <2>1, PcUpdates, PlaceSets DEF InScope
  <2>4. pc' = [pc EXCEPT ![t] = r]
    BY <1>3, <2>2
  <2>5. /\ r.at = "encrypt" /\ r.call = pc[t].call /\ r.err = pc[t].err
        /\ r.acct = last + 1
    BY <1>1 DEF PcType
  <2> HIDE DEF r
  <2>6. pc'[t] = r
    BY <1>1, <2>3, <2>4, SetPc
  <2>7. \A a \in Accounts : row[a] # "none" <=> a < last + 1
    BY <2>1 DEF Accounts
  <2>8. ThreadInv(t)' /\ r.at \in InScope
    BY <1>1, <2>5, <2>6, <2>7 DEF ThreadInv, At, InScope, InRoot, ScopeCalls
  <2> QED BY <1>1, <1>3, <2>3, <2>4, <2>5, <2>8, LocalStep
<1> QED BY <1>2, <1>3 DEF NewAccount

\* The row that NewAccount writes is the next one: the rows keep their order,
\* and the numbers left still suffice.
LEMMA PutStep ==
    ASSUME KeyRaceInv, NEW t \in Threads, newAccountPut(t)
    PROVE  KeyRaceInv'
<1> DEFINE n == pc[t].acct
<1>1. /\ PcOK /\ MemType /\ pc[t] \in PcType /\ ThreadInv(t) /\ mMtx # t /\ sMtx = t
      /\ pc[t].at = "encrypt"
  BY Here, PlaceSets DEF newAccountPut, At, InScope
<1>2. /\ row' = [row EXCEPT ![n] = cryptoKeyPriv] /\ Return(t)
      /\ UNCHANGED <<memVars, dead, overlap>>
  BY DEF newAccountPut
<1>3. /\ n \in Accounts /\ pc[t].call = "NewAccount"
      /\ \A a \in Accounts : row[a] # "none" <=> a < n
  BY <1>1 DEF ThreadInv, At, PcType
<1> HIDE DEF n
<1>4. /\ row' \in [Accounts -> CryptoKeys \cup {"none"}]
      /\ \A a \in Accounts : row'[a] # "none" <=> a <= n
      /\ \A a \in Accounts : row[a] = "zero" => row'[a] = "zero"
  <2>1. cryptoKeyPriv \in CryptoKeys /\ cryptoKeyPriv # "none"
    BY <1>1 DEF MemType, CryptoKeys
  <2>2. row' \in [Accounts -> CryptoKeys \cup {"none"}]
    BY <1>1, <1>2, <2>1 DEF MemType
  <2>3. row \in [Accounts -> CryptoKeys \cup {"none"}]
    BY <1>1 DEF MemType
  <2>4. ASSUME NEW a \in Accounts
        PROVE  (row'[a] # "none" <=> a <= n) /\ (row[a] = "zero" => row'[a] = "zero")
    <3>1. a \in Nat /\ n \in Nat
      BY <1>3 DEF Accounts
    <3>2. CASE a = n
      BY <1>2, <1>3, <2>1, <2>3, <3>1, <3>2
    <3>3. CASE a # n
      BY <1>2, <1>3, <2>3, <3>1, <3>3
    <3> QED BY <3>2, <3>3
  <2> QED BY <2>2, <2>4
<1>5. PcOK' /\ Others(t) /\ pc'[t] = Idle
  BY <1>1, <1>2, ReturnPc
<1>6. ThreadInv(t)' /\ pc'[t].call = "none"
  BY <1>5, IdleThread
<1>7. RowsInv'
  <2>1. PICK last \in Accounts :
           /\ \A a \in Accounts : row[a] # "none" <=> a <= last
           /\ MaxAccount - last >= Cardinality(Creating)
           /\ last + 1 \in Accounts
    BY <1>3, LastRow
  <2>2. last \in Nat /\ n \in Nat /\ MaxAccount \in Nat
    BY <1>3, KeyRaceAssumption DEF Accounts
  <2>3. n = last + 1
    <3>1. last < n
      BY <1>3, <2>1, <2>2
    <3>2. ~(last + 1 < n)
      BY <1>3, <2>1, <2>2
    <3> QED BY <2>2, <3>1, <3>2
  <2>4. Creating' = Creating \ {t}
    BY <1>5, <1>6 DEF Creating, Others
  <2>5. t \in Creating /\ IsFiniteSet(Creating)
    BY <1>3, KeyRaceAssumption, FS_Subset DEF Creating
  <2>6. /\ Cardinality(Creating') = Cardinality(Creating) - 1
        /\ Cardinality(Creating) \in Nat
    BY <2>4, <2>5, FS_RemoveElement, FS_CardinalityType
  <2>7. MaxAccount - n >= Cardinality(Creating')
    BY <2>1, <2>2, <2>3, <2>6
  <2> QED BY <1>3, <1>4, <2>7 DEF RowsInv
<1>8. MemType' /\ Len(deriveOnUnlock') >= Len(deriveOnUnlock)
  BY <1>1, <1>2, <1>4 DEF MemType, memVars
<1>9. \A a \in Accounts : acctInfo'[a] # "absent" => row'[a] # "none" /\ "external" \in Bare
  <2>1. \A a \in Accounts : a < n => a <= n
    BY <1>3 DEF Accounts
  <2> QED BY <1>2, <1>3, <1>4, <2>1, InvParts DEF memVars
<1>10. KeysFollowLock'
  BY <1>1, <1>2, KeysSame DEF Return, memVars
<1> QED
  BY <1>1, <1>2, <1>4, <1>5, <1>6, <1>7, <1>8, <1>9, <1>10, ReturnMoves, AnyStep DEF memVars

-----------------------------------------------------------------------------
(* Calls begin, the process ends.                                          *)

\* A NewAccount begins only while there is a number for it.
LEMMA RowsBegin ==
    ASSUME KeyRaceInv, NEW t \in Threads, pc[t].at = "idle", NumbersLeft, Others(t),
           UNCHANGED row
    PROVE  RowsInv'
<1>1. PICK last \in Accounts :
         /\ \A a \in Accounts : row[a] # "none" <=> a <= last
         /\ MaxAccount - last >= Cardinality(Creating)
  BY InvParts DEF RowsInv
<1>2. last \in Nat /\ MaxAccount \in Nat /\ last <= MaxAccount
  BY KeyRaceAssumption DEF Accounts
<1>3. {a \in Accounts : row[a] = "none"} = (last + 1) .. MaxAccount
  BY <1>1, <1>2 DEF Accounts
<1>4. Cardinality((last + 1) .. MaxAccount) = MaxAccount - last
  <2>1. last + 1 \in Int /\ MaxAccount \in Int
    BY <1>2
  <2>2. Cardinality((last + 1) .. MaxAccount) =
           IF last + 1 > MaxAccount THEN 0 ELSE MaxAccount - (last + 1) + 1
    BY <2>1, FS_Interval
  <2> QED BY <1>2, <2>2
<1>5. {u \in Threads : pc[u].call = "NewAccount" /\ ~At(u, "idle")} = Creating
  <2>1. \A u \in Threads : At(u, "idle") => pc[u].call # "NewAccount"
    BY InvParts DEF ThreadInv, Idle
  <2> QED BY <2>1 DEF Creating
<1>6. IsFiniteSet(Creating) /\ t \notin Creating
  <2>1. pc[t].call # "NewAccount"
    BY InvParts DEF ThreadInv, Idle, At
  <2> QED BY <2>1, KeyRaceAssumption, FS_Subset DEF Creating
<1>7. Creating' \subseteq Creating \cup {t}
  BY DEF Creating, Others
<1>8. /\ IsFiniteSet(Creating \cup {t})
      /\ Cardinality(Creating \cup {t}) = Cardinality(Creating) + 1
      /\ Cardinality(Creating) \in Nat
  BY <1>6, FS_AddElement, FS_CardinalityType
<1>9. /\ Cardinality(Creating') <= Cardinality(Creating) + 1
      /\ Cardinality(Creating') \in Nat
  BY <1>7, <1>8, FS_Subset, FS_CardinalityType
<1>10. MaxAccount - last > Cardinality(Creating)
  BY <1>3, <1>4, <1>5 DEF NumbersLeft
<1>11. MaxAccount - last >= Cardinality(Creating')
  BY <1>2, <1>8, <1>9, <1>10
<1> QED BY <1>1, <1>11 DEF RowsInv

\* A call begins by waiting for its mutex.
LEMMA BeginStep ==
    ASSUME KeyRaceInv, NEW t \in Threads, NEW method \in RootCalls \cup ScopeCalls,
           NEW a \in Accounts, Begin(t, method, a), method = "NewAccount" => NumbersLeft
    PROVE  KeyRaceInv'
<1> DEFINE x == IF method \in RootCalls THEN "m.mtx" ELSE "s.mtx"
           r == [Idle EXCEPT !.call = method, !.acct = a, !.at = x]
<1>1. PcOK /\ MemType /\ pc[t].at = "idle"
  BY Here DEF Begin, At
<1>2. /\ pc' = [pc EXCEPT ![t] = r] /\ overlap' \in BOOLEAN
      /\ UNCHANGED <<mMtx, sMtx, memVars, row, dead>>
  BY DEF Begin
<1>3. x \in {"m.mtx", "s.mtx"} /\ x \in Places
  BY DEF Places
<1>4. x = "m.mtx" => method \in RootCalls
  OBVIOUS
<1>5. x = "s.mtx" => method \in ScopeCalls
  OBVIOUS
<1> HIDE DEF x
<1>6. r \in PcType
  BY <1>3, IdleType, PcUpdates
<1>7. r.at = x /\ r.call = method /\ r.err = "nil"
  BY DEF Idle
<1> HIDE DEF r
<1>8. PcOK' /\ Others(t) /\ pc'[t] = r
  BY <1>1, <1>2, <1>6, SetPc
<1>9. ThreadInv(t)'
  BY <1>3, <1>4, <1>5, <1>7, <1>8 DEF ThreadInv, At, InRoot, InScope
<1>10. MoveM(t) /\ MoveS(t)
  BY <1>1, <1>2, <1>3, <1>7, <1>8 DEF MoveM, MoveS, InRoot, InScope
<1>11. RowsInv'
  BY <1>1, <1>2, <1>7, <1>8, InvParts, RowsSame, RowsBegin
<1>12. MemType' /\ Len(deriveOnUnlock') >= Len(deriveOnUnlock)
  BY <1>1, <1>2 DEF MemType, memVars
<1>13. KeysFollowLock'
  BY <1>2, KeysSame DEF memVars
<1> QED
  BY <1>2, <1>7, <1>8, <1>9, <1>10, <1>11, <1>12, <1>13, InvParts, AnyStep DEF memVars

\* Every call that can be made.
LEMMA CallStep ==
    ASSUME KeyRaceInv, NEW t \in Threads, Call(t)
    PROVE  KeyRaceInv'
<1>1. 0 \in Accounts
  BY KeyRaceAssumption DEF Accounts
<1> QED BY <1>1, BeginStep DEF Call, RootCalls, ScopeCalls

\* When every goroutine is outside calls, nothing but the rows matters.
Fresh ==
    /\ MemType /\ pc = [t \in Threads |-> Idle] /\ mMtx = Nobody /\ sMtx = Nobody
    /\ locked /\ cryptoKeyPriv = "zero" /\ \A a \in Accounts : acctInfo[a] = "absent"
    /\ \E last \in Accounts : \A a \in Accounts : row[a] # "none" <=> a <= last

\* The invariant of a process that has just started.
LEMMA FreshInv == Fresh => KeyRaceInv
<1> SUFFICES ASSUME Fresh PROVE KeyRaceInv
  OBVIOUS
<1> USE DEF Fresh
<1>1. PcOK
  BY IdleType DEF PcOK
<1>2. /\ \A t \in Threads : pc[t] = Idle
      /\ Idle.at = "idle" /\ Idle.call = "none" /\ Idle.err = "nil"
  BY DEF Idle
<1>3. Mutexes
  BY <1>2, KeyRaceAssumption DEF Mutexes, InRoot, InScope
<1>4. \A t \in Threads : ThreadInv(t)
  BY <1>2 DEF ThreadInv, At, InRoot, InScope
<1>5. RowsInv
  <2>1. Creating = {}
    BY <1>2 DEF Creating
  <2>2. PICK last \in Accounts : \A a \in Accounts : row[a] # "none" <=> a <= last
    OBVIOUS
  <2>3. MaxAccount - last >= Cardinality(Creating)
    BY <2>1, FS_EmptySet, KeyRaceAssumption DEF Accounts
  <2> QED BY <2>2, <2>3 DEF RowsInv
<1>6. KeysFollowLock /\ UnlockFailsOnlyOnSpoiledRow
  BY <1>2 DEF KeysFollowLock, UnlockFailsOnlyOnSpoiledRow
<1> QED BY <1>1, <1>3, <1>4, <1>5, <1>6, InvParts

\* The same of the state after a step.
LEMMA FreshNext == Fresh' => KeyRaceInv'
BY FreshInv, PTL

\* The first process.
LEMMA InitInv == Init => KeyRaceInv
<1> SUFFICES ASSUME Init PROVE KeyRaceInv
  OBVIOUS
<1>1. 0 \in Accounts /\ \A a \in Accounts : a \in Nat
  BY KeyRaceAssumption DEF Accounts
<1>2. MemType
  <2>1. NoAddr \in [acct : Accounts, key : {"none", "missing", "right"}]
    BY <1>1 DEF NoAddr
  <2>2. <<>> \in Seq(Infos)
    OBVIOUS
  <2> QED BY <2>1, <2>2 DEF Init, MemType, CryptoKeys
<1>3. \A a \in Accounts : row[a] # "none" <=> a <= 0
  BY <1>1 DEF Init
<1> QED BY <1>1, <1>2, <1>3, FreshInv DEF Init, Fresh

\* A process that starts after a panic finds the rows in order.
LEMMA RestartStep ==
    ASSUME KeyRaceInv, Restart
    PROVE  KeyRaceInv'
<1>1. MemType /\ RowsInv
  BY InvParts
<1>2. MemType'
  <2>1. NoAddr \in [acct : Accounts, key : {"none", "missing", "right"}]
    BY KeyRaceAssumption DEF NoAddr, Accounts
  <2>2. <<>> \in Seq(Infos)
    OBVIOUS
  <2> QED BY <1>1, <2>1, <2>2 DEF Restart, MemType, CryptoKeys
<1>3. \E last \in Accounts : \A a \in Accounts : row'[a] # "none" <=> a <= last
  BY <1>1 DEF RowsInv, Restart
<1>4. /\ (pc = [t \in Threads |-> Idle])' /\ mMtx' = Nobody /\ sMtx' = Nobody
      /\ locked' /\ cryptoKeyPriv' = "zero" /\ \A a \in Accounts : acctInfo'[a] = "absent"
  BY DEF Restart
<1>5. Fresh'
  BY <1>2, <1>3, <1>4 DEF Fresh
<1> QED BY <1>5, FreshNext

-----------------------------------------------------------------------------
(* The theorems.                                                           *)

\* Every step of every goroutine keeps the invariant.
LEMMA NextInv == KeyRaceInv /\ [Next]_vars => KeyRaceInv'
<1> SUFFICES ASSUME KeyRaceInv, [Next]_vars PROVE KeyRaceInv'
  OBVIOUS
<1>1. CASE UNCHANGED vars
  <2>1. UNCHANGED <<mMtx, sMtx, locked, cryptoKeyPriv, acctInfo, deriveOnUnlock, addr, row,
                    pc, dead, overlap>>
    BY <1>1 DEF vars, memVars
  <2>2. MemType' /\ PcOK' /\ Mutexes' /\ RowsInv' /\ KeysFollowLock' /\ UnlockFailsOnlyOnSpoiledRow'
    BY <2>1, InvParts DEF MemType, PcOK, Mutexes, RowsInv, Creating, KeysFollowLock,
                          UnlockFailsOnlyOnSpoiledRow
  <2>3. \A u \in Threads : ThreadInv(u)'
    BY <2>1, InvParts DEF ThreadInv, At
  <2>4. \A a \in Accounts : acctInfo'[a] # "absent" => row'[a] # "none" /\ "external" \in Bare
    BY <2>1, InvParts
  <2> QED
    BY <2>2, <2>3, <2>4 DEF KeyRaceInv, KeyRaceTypeOK, MemType, PcOK, Mutexes
<1>2. CASE Restart
  BY <1>2, RestartStep
<1>3. ASSUME NEW t \in Threads, Call(t) PROVE KeyRaceInv'
  BY <1>3, CallStep
<1>4. ASSUME NEW t \in Threads, RootStep(t) PROVE KeyRaceInv'
  BY <1>4, LockStep, LockKeysStep, RootDoneStep, UnlockStep, UnlockRangeStep,
     UnlockAddressStep, LockAccountStep, UnlockAccountStep DEF RootStep
<1>5. ASSUME NEW t \in Threads, ScopeStep(t) PROVE KeyRaceInv'
  BY <1>5, ScopeLockStep, IsLockedStep, LoadStep, LastAddrStep, CacheStep,
     AskStep, DeriveStep, AddressStep, NewAccountStep, PutStep DEF ScopeStep
<1> QED BY <1>1, <1>2, <1>3, <1>4, <1>5 DEF Next, Runs

\* Inductive invariant of the calls of any number of goroutines on the root
\* manager and a scoped manager, interleaved between any two accesses to shared
\* state, with panics and restarts.
THEOREM KeyRaceInvariant == Spec => []KeyRaceInv
BY InitInv, NextInv, PTL DEF Spec

\* Goroutines inside calls never all wait for mutexes that others hold: the
\* holder of m.mtx waits for nothing, and that of s.mtx only for m.mtx.
THEOREM NoCallsWaitInACircle == Spec => []NoCircularWait
<1>1. KeyRaceInv => NoCircularWait
  <2> SUFFICES ASSUME KeyRaceInv, NEW t \in Threads, ~At(t, "idle")
               PROVE  \E u \in Threads : MayRun(u)
    BY DEF NoCircularWait
  <2>1. /\ mMtx \in Threads \cup {Nobody} /\ sMtx \in Threads \cup {Nobody}
        /\ \A u \in Threads : (mMtx = u) <=> pc[u].at \in InRoot
        /\ \A u \in Threads : (sMtx = u) <=> pc[u].at \in InScope
    BY DEF KeyRaceInv, KeyRaceTypeOK
  <2>2. CASE mMtx # Nobody
    <3>1. mMtx \in Threads /\ pc[mMtx].at \in InRoot
      BY <2>1, <2>2
    <3> QED BY <3>1 DEF MayRun, At, InRoot
  <2>3. CASE mMtx = Nobody /\ sMtx # Nobody
    <3>1. sMtx \in Threads /\ pc[sMtx].at \in InScope
      BY <2>1, <2>3
    <3> QED BY <2>3, <3>1 DEF MayRun, At, InScope
  <2>4. CASE mMtx = Nobody /\ sMtx = Nobody
    BY <2>4 DEF MayRun
  <2> QED BY <2>2, <2>3, <2>4
<1> QED BY <1>1, KeyRaceInvariant, PTL

\* Every variable keeps its type and each mutex is held by the call that took
\* it: no return of Lock, Unlock or a call of the scope leaves a mutex behind.
THEOREM KeyRaceTypeCorrect == Spec => []KeyRaceTypeOK
<1>1. KeyRaceInv => KeyRaceTypeOK
  BY DEF KeyRaceInv
<1> QED BY <1>1, KeyRaceInvariant, PTL

\* Whenever m.mtx is free, the private crypto key is in memory exactly while the
\* manager says it is unlocked, whatever overlapped (manager.go, lock and Unlock).
THEOREM KeyInMemoryFollowsLock == Spec => []KeysFollowLock
<1>1. KeyRaceInv => KeysFollowLock
  BY DEF KeyRaceInv
<1> QED BY <1>1, KeyRaceInvariant, PTL

\* An Unlock with the right passphrase fails only on a row that NewAccount wrote
\* under a wiped key, and only in a scope whose external addresses are of a type
\* without a case: elsewhere the missing chain parameters keep every account out
\* of the cache (scoped_manager.go:320, 329).
THEOREM UnlockFailsOnlySpoiled == Spec => []UnlockFailsOnlyOnSpoiledRow
<1>1. KeyRaceInv => UnlockFailsOnlyOnSpoiledRow
  BY DEF KeyRaceInv
<1> QED BY <1>1, KeyRaceInvariant, PTL

-----------------------------------------------------------------------------
(* Serial calls.                                                           *)

\* Assigning one goroutine's counter, typed or not.
LEMMA PutPc ==
    ASSUME PcOK, NEW t \in Threads, NEW r, pc' = [pc EXCEPT ![t] = r]
    PROVE  Others(t) /\ pc'[t] = r
BY DEF PcOK, Others

Alone(t) == \A u \in Threads \ {t} : pc[u].at \notin InRoot \cup InScope

\* In serial calls one goroutine at a time is past its mutex: the two mutexes
\* together are one.
LEMMA OneInside ==
    ASSUME KeyRaceInv, SerialInv, ~overlap, ~dead, NEW t \in Threads, pc[t].at # "idle",
           pc[t].at = "m.mtx" => mMtx = Nobody, pc[t].at = "s.mtx" => sMtx = Nobody
    PROVE  /\ Alone(t)
           /\ pc[t].at \in InScope \cup {"s.mtx"} => mMtx = Nobody
<1>1. PcOK /\ Mutexes /\ OneFamily /\ \A u \in Threads : ThreadInv(u)
  BY InvParts DEF SerialInv
<1>2. pc[t].at \in InRoot \cup InScope \cup {"m.mtx", "s.mtx"}
  BY <1>1 DEF PcOK, PcType
<1>3. RootCalls \cap ScopeCalls = {} /\ "idle" \notin InRoot \cup InScope
  BY DEF RootCalls, ScopeCalls, InRoot, InScope
<1>4. \A u \in Threads : /\ pc[u].at \in InRoot \cup {"m.mtx"} => pc[u].call \in RootCalls
                         /\ pc[u].at \in InScope \cup {"s.mtx"} => pc[u].call \in ScopeCalls
  BY <1>1 DEF ThreadInv
<1>5. \A u \in Threads : pc[u].at # "idle" =>
         (pc[t].call \in RootCalls <=> pc[u].call \in RootCalls)
  BY <1>1 DEF OneFamily, At
<1>6. \A u \in Threads : /\ pc[u].at \in InRoot => mMtx = u /\ mMtx # Nobody
                         /\ pc[u].at \in InScope => sMtx = u /\ sMtx # Nobody
  BY <1>1, KeyRaceAssumption DEF Mutexes
<1>7. CASE pc[t].at \in InRoot \cup {"m.mtx"}
  <2>1. \A u \in Threads : pc[u].at # "idle" => pc[u].at \notin InScope
    BY <1>3, <1>4, <1>5, <1>7
  <2>2. \A u \in Threads \ {t} : pc[u].at \notin InRoot
    BY <1>6, <1>7
  <2> QED BY <1>3, <1>7, <2>1, <2>2, PlaceSets DEF Alone
<1>8. CASE pc[t].at \in InScope \cup {"s.mtx"}
  <2>1. \A u \in Threads : pc[u].at # "idle" => pc[u].at \notin InRoot
    BY <1>3, <1>4, <1>5, <1>8
  <2>2. \A u \in Threads \ {t} : pc[u].at \notin InScope
    BY <1>6, <1>8
  <2>3. mMtx = Nobody
    BY <1>1, <1>3, <2>1 DEF Mutexes
  <2> QED BY <1>3, <2>1, <2>2, <2>3 DEF Alone
<1> QED BY <1>2, <1>7, <1>8

\* A goroutine outside the mutexes relies on nothing.
LEMMA Waiting ==
    ASSUME NEW u \in Threads, pc'[u].at \notin InRoot \cup InScope
    PROVE  SerialThread(u)'
BY DEF SerialThread, At, InRoot, InScope

\* A panic for an address that cannot be made stops everything where it is.
LEMMA SerialPanic ==
    ASSUME SerialInv, ~overlap, NEW t \in Threads, MakesNilAddress(t), Panic, UNCHANGED row
    PROVE  SerialInv'
<1>1. UNCHANGED <<mMtx, locked, acctInfo, deriveOnUnlock, addr, row, pc>>
  BY DEF Panic, memVars
<1>2. /\ (\A b \in Accounts : row[b] # "zero")
      /\ QueueSerial /\ CacheSerial /\ OneFamily /\ \A u \in Threads : SerialThread(u)
  BY DEF SerialInv
<1>3. OneFamily' /\ CacheSerial' /\ \A u \in Threads : SerialThread(u)'
  BY <1>1, <1>2 DEF OneFamily, CacheSerial, SerialThread, At
<1>4. QueueSerial'
  BY <1>1, <1>2 DEF QueueSerial, InfoAcct, At
<1>5. MakesNilAddress(t)'
  BY <1>1 DEF MakesNilAddress, At
<1> QED BY <1>1, <1>2, <1>3, <1>4, <1>5 DEF SerialInv

\* A step of the goroutine that is inside.
LEMMA SerialStep ==
    ASSUME KeyRaceInv, SerialInv, ~overlap, ~dead, NEW t \in Threads, Others(t), Alone(t),
           pc[t].at # "idle", pc'[t].call = pc[t].call \/ pc'[t].at = "idle",
           ~dead', \A a \in Accounts : row'[a] # "zero",
           QueueSerial', CacheSerial', SerialThread(t)'
    PROVE  SerialInv'
<1>1. OneFamily
  BY DEF SerialInv
<1>2. OneFamily'
  BY <1>1 DEF OneFamily, Others, At
<1>3. \A u \in Threads : SerialThread(u)'
  BY Waiting DEF Others, Alone
<1> QED BY <1>2, <1>3 DEF SerialInv

\* The account of a queued address is one.
LEMMA InfoAcctType ==
    ASSUME MemType, NEW x \in Infos, x # NilInfo
    PROVE  InfoAcct(x) \in Accounts
BY DEF MemType, Infos, InfoAcct

\* The queue and the addresses are left alone.
LEMMA QueueSame ==
    ASSUME MemType, QueueSerial, UNCHANGED <<addr, deriveOnUnlock>>,
           ~locked' => deriveOnUnlock = <<>>,
           \A u \in Threads : At(u, "insert") =>
               \/ pc'[u] = pc[u]
               \/ acctInfo'[pc[u].acct] # "absent",
           \A a \in Accounts : acctInfo[a] # "absent" => acctInfo'[a] # "absent"
    PROVE  QueueSerial'
<1>1. \A x : InfoAcct(x)' = InfoAcct(x)
  BY DEF InfoAcct
<1>2. ASSUME NEW i \in DOMAIN deriveOnUnlock
      PROVE  /\ deriveOnUnlock[i] # NilInfo
             /\ \/ acctInfo'[InfoAcct(deriveOnUnlock[i])] # "absent"
                \/ \E t \in Threads : /\ pc'[t].at = "insert"
                                      /\ pc'[t].acct = InfoAcct(deriveOnUnlock[i])
  <2>1. deriveOnUnlock[i] \in Infos /\ deriveOnUnlock[i] # NilInfo
    BY DEF MemType, QueueSerial
  <2>2. InfoAcct(deriveOnUnlock[i]) \in Accounts
    BY <2>1, InfoAcctType
  <2> QED BY <2>1, <2>2 DEF QueueSerial, At
<1> QED BY <1>1, <1>2 DEF QueueSerial, At

\* What holds of serial calls when a goroutine takes a step.
LEMMA SerialHere ==
    ASSUME KeyRaceInv, SerialInv, ~overlap, ~dead, NEW t \in Threads
    PROVE  /\ PcOK /\ MemType /\ pc[t] \in PcType /\ ThreadInv(t) /\ SerialThread(t)
           /\ ~dead /\ (\A a \in Accounts : row[a] # "zero")
           /\ QueueSerial /\ CacheSerial /\ KeysFollowLock
           /\ mMtx = t <=> pc[t].at \in InRoot
BY Here, InvParts DEF SerialInv

\* A step that leaves the shared state alone.
LEMMA SerialQuiet ==
    ASSUME KeyRaceInv, SerialInv, ~overlap, ~dead, NEW t \in Threads, Others(t), Alone(t),
           pc[t].at \notin {"idle", "insert"},
           pc'[t].call = pc[t].call \/ pc'[t].at = "idle",
           UNCHANGED <<memVars, row, dead>>, mMtx' = Nobody => mMtx = Nobody,
           SerialThread(t)'
    PROVE  SerialInv'
<1>1. /\ MemType /\ ~dead /\ (\A a \in Accounts : row[a] # "zero")
      /\ QueueSerial /\ CacheSerial
  BY SerialHere
<1>2. UNCHANGED <<locked, acctInfo, deriveOnUnlock, addr>>
  BY DEF memVars
<1>3. \A u \in Threads : At(u, "insert") => pc'[u] = pc[u]
  BY DEF At, Others
<1>4. ~locked' => deriveOnUnlock = <<>>
  BY <1>1, <1>2 DEF QueueSerial
<1>5. QueueSerial'
  BY <1>1, <1>2, <1>3, <1>4, QueueSame
<1>6. CacheSerial'
  BY <1>1, <1>2 DEF CacheSerial
<1> QED BY <1>1, <1>5, <1>6, SerialStep

\* A goroutine outside calls relies on nothing.
LEMMA IdleSerial ==
    ASSUME NEW t \in Threads, pc'[t] = Idle
    PROVE  SerialThread(t)' /\ pc'[t].at = "idle"
<1>1. pc'[t].at = "idle"
  BY IdleThread
<1> QED BY <1>1, Waiting DEF InRoot, InScope

\* A return that leaves the shared state alone.
LEMMA SerialReturn ==
    ASSUME KeyRaceInv, SerialInv, ~overlap, ~dead, NEW t \in Threads, Return(t), Alone(t),
           pc[t].at \notin {"idle", "insert"}, mMtx # t, UNCHANGED <<memVars, row, dead>>
    PROVE  SerialInv'
<1>1. Others(t) /\ pc'[t] = Idle
  BY SerialHere, ReturnPc
<1>2. mMtx' = mMtx
  BY DEF Return
<1> QED BY <1>1, <1>2, IdleSerial, SerialQuiet

\* lock() begins: every account is still to be wiped.
LEMMA SerialWipes ==
    ASSUME KeyRaceInv, SerialInv, ~overlap, ~dead, NEW t \in Threads, NEW err, Wipes(t, err),
           Alone(t), pc[t].at \notin {"idle", "insert"}, UNCHANGED <<memVars, row, dead>>
    PROVE  SerialInv'
<1>1. /\ Others(t) /\ pc'[t].at = "wipe" /\ pc'[t].call = pc[t].call
      /\ pc'[t].todo = Accounts /\ mMtx' = t
  <2> DEFINE r == [pc[t] EXCEPT !.at = "wipe", !.todo = Accounts, !.err = err]
  <2>1. PcOK /\ pc[t] \in PcType
    BY SerialHere
  <2>2. r.at = "wipe" /\ r.call = pc[t].call /\ r.todo = Accounts
    BY <2>1 DEF PcType
  <2>3. pc' = [pc EXCEPT ![t] = r]
    BY DEF Wipes
  <2> HIDE DEF r
  <2>4. Others(t) /\ pc'[t] = r
    BY <2>1, <2>3, PutPc
  <2>5. mMtx' = t
    BY DEF Wipes
  <2> QED BY <2>2, <2>4, <2>5
<1>2. SerialThread(t)'
  BY <1>1 DEF SerialThread, At
<1> QED BY <1>1, <1>2, SerialQuiet, KeyRaceAssumption

\* Lock.
LEMMA SerialLock ==
    ASSUME KeyRaceInv, SerialInv, ~overlap, ~dead, NEW t \in Threads, Lock(t)
    PROVE  SerialInv'
<1>1. mMtx = Nobody /\ pc[t].at = "m.mtx" /\ UNCHANGED <<memVars, row, dead>> /\ mMtx # t
  BY KeyRaceAssumption DEF Lock, At
<1>2. Alone(t)
  BY <1>1, OneInside
<1> QED BY <1>1, <1>2, SerialReturn, SerialWipes DEF Lock

\* A wiped account has no private key.
LEMMA SerialLockAccount ==
    ASSUME KeyRaceInv, SerialInv, ~overlap, ~dead, NEW t \in Threads, NEW a \in Accounts,
           lockAccount(t, a)
    PROVE  SerialInv'
<1>1. /\ PcOK /\ MemType /\ SerialThread(t) /\ ~dead /\ (\A b \in Accounts : row[b] # "zero")
      /\ QueueSerial /\ mMtx = t /\ pc[t].at = "wipe"
  BY SerialHere DEF lockAccount, At, InRoot
<1>2. UNCHANGED <<mMtx, locked, deriveOnUnlock, addr, row, dead>>
  BY DEF lockAccount
<1>3. Alone(t)
  BY <1>1, OneInside
<1>4. pc' = [pc EXCEPT ![t].todo = pc[t].todo \ {a}]
  <2>1. CASE pc' = Wiped(t, a)
    <3>1. \A u \in Threads \ {t} : pc[u].at # "address"
      BY <1>3 DEF Alone, InScope
    <3>2. pc' = [u \in Threads |-> IF u = t THEN [pc[t] EXCEPT !.todo = @ \ {a}] ELSE pc[u]]
      BY <2>1, <3>1 DEF Wiped
    <3> QED BY <1>1, <3>2 DEF PcOK
  <2> QED BY <2>1 DEF lockAccount
<1>5. /\ Others(t) /\ pc'[t].at = "wipe" /\ pc'[t].call = pc[t].call
      /\ pc'[t].todo = pc[t].todo \ {a}
  <2> DEFINE r == [pc[t] EXCEPT !.todo = pc[t].todo \ {a}]
  <2>1. PcOK /\ pc[t] \in PcType
    BY SerialHere
  <2>2. r.at = pc[t].at /\ r.call = pc[t].call /\ r.todo = pc[t].todo \ {a}
    BY <2>1 DEF PcType
  <2>3. pc' = [pc EXCEPT ![t] = r]
    BY <1>4
  <2> HIDE DEF r
  <2> QED BY <1>1, <2>1, <2>2, <2>3, PutPc
<1>6. \A b \in Accounts : /\ acctInfo[b] # "absent" => acctInfo'[b] # "absent"
                          /\ acctInfo'[b] = "private" => acctInfo[b] = "private" /\ b # a
  BY <1>1 DEF lockAccount, MemType
<1>7. SerialThread(t)'
  BY <1>1, <1>5, <1>6 DEF SerialThread, At
<1>8. \A u \in Threads : At(u, "insert") => pc'[u] = pc[u]
  BY <1>1, <1>5 DEF At, Others
<1>9. ~locked' => deriveOnUnlock = <<>>
  BY <1>1, <1>2 DEF QueueSerial
<1>10. QueueSerial'
  BY <1>1, <1>2, <1>6, <1>8, <1>9, QueueSame
<1>11. CacheSerial'
  BY <1>1, <1>2, KeyRaceAssumption DEF CacheSerial
<1> QED
  BY <1>1, <1>2, <1>3, <1>5, <1>7, <1>10, <1>11, SerialStep

\* The other steps of lock() and Unlock that change no cached account.
LEMMA SerialRootMove ==
    ASSUME KeyRaceInv, SerialInv, ~overlap, ~dead, NEW t \in Threads, Others(t),
           pc[t].at \in {"m.mtx", "wipe", "accounts"}, pc[t].at = "m.mtx" => mMtx = Nobody,
           mMtx' = t, pc'[t].call = pc[t].call, SerialThread(t)',
           UNCHANGED <<locked, acctInfo, deriveOnUnlock, addr, row, dead>>
    PROVE  SerialInv'
<1>1. /\ MemType /\ ~dead /\ (\A b \in Accounts : row[b] # "zero") /\ QueueSerial
  BY SerialHere
<1>2. Alone(t)
  BY OneInside
<1>3. \A u \in Threads : At(u, "insert") => pc'[u] = pc[u]
  BY DEF At, Others
<1>4. ~locked' => deriveOnUnlock = <<>>
  BY <1>1 DEF QueueSerial
<1>5. QueueSerial'
  BY <1>1, <1>3, <1>4, QueueSame
<1>6. CacheSerial'
  BY KeyRaceAssumption DEF CacheSerial
<1> QED BY <1>1, <1>2, <1>5, <1>6, SerialStep

\* The crypto key is wiped when no account has its private key.
LEMMA SerialLockKeys ==
    ASSUME KeyRaceInv, SerialInv, ~overlap, ~dead, NEW t \in Threads, lockKeys(t)
    PROVE  SerialInv'
<1>1. PcOK /\ SerialThread(t) /\ mMtx = t /\ pc[t].at = "wipe" /\ pc[t].todo = {}
  BY SerialHere DEF lockKeys, At, InRoot
<1>2. /\ Goes(t, "locked")
      /\ UNCHANGED <<mMtx, locked, acctInfo, deriveOnUnlock, addr, row, dead>>
  BY DEF lockKeys
<1>3. Others(t) /\ pc'[t].at = "locked" /\ pc'[t].call = pc[t].call
  BY <1>1, <1>2, GoesPc, PlaceSets DEF InRoot
<1>4. SerialThread(t)'
  BY <1>1, <1>2, <1>3 DEF SerialThread, At
<1> QED BY <1>1, <1>2, <1>3, <1>4, SerialRootMove

\* lock() and Unlock leave the cache as the flag says.
LEMMA SerialRootDone ==
    ASSUME KeyRaceInv, SerialInv, ~overlap, ~dead, NEW t \in Threads, lockDone(t) \/ unlockDone(t)
    PROVE  SerialInv'
<1>1. /\ PcOK /\ MemType /\ SerialThread(t) /\ ~dead /\ (\A b \in Accounts : row[b] # "zero")
      /\ QueueSerial /\ mMtx = t /\ pc[t].at \in {"locked", "queue"}
  BY SerialHere DEF lockDone, unlockDone, At, InRoot
<1>2. /\ Return(t) /\ locked' \in BOOLEAN
      /\ UNCHANGED <<acctInfo, deriveOnUnlock, addr, row, dead>>
  BY DEF lockDone, unlockDone
<1>3. Others(t) /\ pc'[t] = Idle
  BY <1>1, <1>2, ReturnPc
<1>4. Alone(t)
  BY <1>1, OneInside
<1>5. /\ locked' => \A a \in Accounts : acctInfo[a] # "private"
      /\ ~locked' => deriveOnUnlock = <<>> /\ \A a \in Accounts : acctInfo[a] # "public"
  BY <1>1 DEF lockDone, unlockDone, SerialThread, At
<1>6. \A u \in Threads : At(u, "insert") => pc'[u] = pc[u]
  BY <1>1, <1>3 DEF At, Others
<1>7. QueueSerial'
  BY <1>1, <1>2, <1>5, <1>6, QueueSame
<1>8. CacheSerial'
  BY <1>2, <1>5 DEF CacheSerial
<1> QED
  BY <1>1, <1>2, <1>3, <1>4, <1>7, <1>8, IdleSerial, SerialStep

\* Unlock.
LEMMA SerialUnlock ==
    ASSUME KeyRaceInv, SerialInv, ~overlap, ~dead, NEW t \in Threads, Unlock(t)
    PROVE  SerialInv'
<1>1. /\ mMtx = Nobody /\ pc[t].at = "m.mtx" /\ mMtx # t /\ PcOK
      /\ UNCHANGED <<locked, acctInfo, deriveOnUnlock, addr, row, dead>>
  BY SerialHere, KeyRaceAssumption DEF Unlock, At
<1>2. Alone(t)
  BY <1>1, OneInside
<1>3. CASE Wipes(t, "ErrWrongPassphrase") /\ UNCHANGED cryptoKeyPriv
  BY <1>1, <1>2, <1>3, SerialWipes DEF memVars
<1>4. CASE Return(t) /\ UNCHANGED cryptoKeyPriv
  BY <1>1, <1>2, <1>4, SerialReturn DEF memVars
<1>5. CASE mMtx' = t /\ pc' = [pc EXCEPT ![t].at = "accounts", ![t].todo = Accounts]
  <2>1. /\ Others(t) /\ pc'[t].at = "accounts" /\ pc'[t].call = pc[t].call
        /\ pc'[t].todo = Accounts
    <3> DEFINE r == [pc[t] EXCEPT !.at = "accounts", !.todo = Accounts]
    <3>1. PcOK /\ pc[t] \in PcType
      BY SerialHere
    <3>2. r.at = "accounts" /\ r.call = pc[t].call /\ r.todo = Accounts
      BY <3>1 DEF PcType
    <3>3. pc' = [pc EXCEPT ![t] = r]
      BY <1>5
    <3> HIDE DEF r
    <3> QED BY <3>1, <3>2, <3>3, PutPc
  <2>2. SerialThread(t)'
    BY <2>1 DEF SerialThread, At
  <2> QED BY <1>1, <1>5, <2>1, <2>2, SerialRootMove
<1> QED BY <1>3, <1>4, <1>5 DEF Unlock

\* Every cached account can be decrypted.
LEMMA SerialUnlockAccount ==
    ASSUME KeyRaceInv, SerialInv, ~overlap, ~dead, NEW t \in Threads, NEW a \in Accounts,
           unlockAccount(t, a)
    PROVE  SerialInv'
<1>1. /\ PcOK /\ MemType /\ ThreadInv(t) /\ SerialThread(t) /\ ~dead
      /\ (\A b \in Accounts : row[b] # "zero")
      /\ QueueSerial /\ mMtx = t /\ pc[t].at = "accounts"
  BY SerialHere DEF unlockAccount, At, InRoot
<1>2. UNCHANGED <<locked, deriveOnUnlock, addr, row, dead>>
  BY DEF unlockAccount
<1>3. Alone(t)
  BY <1>1, OneInside
<1>4. acctInfo[a] # "absent" => row[a] = cryptoKeyPriv
  <2>1. acctInfo[a] # "absent" => row[a] # "none" /\ "external" \in Bare
    BY InvParts
  <2>2. cryptoKeyPriv = "real" /\ row[a] \in CryptoKeys \cup {"none"}
    BY <1>1 DEF ThreadInv, MemType
  <2> QED BY <1>1, <2>1, <2>2 DEF CryptoKeys
<1>5. /\ pc' = [pc EXCEPT ![t].todo = pc[t].todo \ {a}] /\ mMtx' = mMtx
      /\ \/ acctInfo[a] # "absent" /\ acctInfo' = [acctInfo EXCEPT ![a] = "private"]
         \/ acctInfo[a] = "absent" /\ acctInfo' = acctInfo
  BY <1>4 DEF unlockAccount
<1>6. /\ Others(t) /\ pc'[t].at = "accounts" /\ pc'[t].call = pc[t].call
      /\ pc'[t].todo = pc[t].todo \ {a}
  <2> DEFINE r == [pc[t] EXCEPT !.todo = pc[t].todo \ {a}]
  <2>1. PcOK /\ pc[t] \in PcType
    BY SerialHere
  <2>2. r.at = pc[t].at /\ r.call = pc[t].call /\ r.todo = pc[t].todo \ {a}
    BY <2>1 DEF PcType
  <2>3. pc' = [pc EXCEPT ![t] = r]
    BY <1>5
  <2> HIDE DEF r
  <2> QED BY <1>1, <2>1, <2>2, <2>3, PutPc
<1>7. \A b \in Accounts : /\ acctInfo[b] # "absent" => acctInfo'[b] # "absent"
                          /\ acctInfo'[b] = "public" => acctInfo[b] = "public" /\ b # a
  BY <1>1, <1>5 DEF MemType
<1>8. SerialThread(t)'
  BY <1>1, <1>6, <1>7 DEF SerialThread, At
<1>9. \A u \in Threads : At(u, "insert") => pc'[u] = pc[u]
  BY <1>1, <1>6 DEF At, Others
<1>10. ~locked' => deriveOnUnlock = <<>>
  BY <1>1, <1>2 DEF QueueSerial
<1>11. QueueSerial'
  BY <1>1, <1>2, <1>7, <1>9, <1>10, QueueSame
<1>12. CacheSerial'
  BY <1>1, <1>5, KeyRaceAssumption DEF CacheSerial
<1> QED
  BY <1>1, <1>2, <1>3, <1>6, <1>8, <1>11, <1>12, SerialStep

\* The loop is over the queue as it is.
LEMMA SerialUnlockRange ==
    ASSUME KeyRaceInv, SerialInv, ~overlap, ~dead, NEW t \in Threads, unlockRange(t)
    PROVE  SerialInv'
<1>1. PcOK /\ SerialThread(t) /\ mMtx = t /\ pc[t].at = "accounts" /\ pc[t].todo = {}
  BY SerialHere DEF unlockRange, At, InRoot
<1>2. /\ pc' = [pc EXCEPT ![t].at = "queue", ![t].infos = deriveOnUnlock]
      /\ UNCHANGED <<mMtx, locked, acctInfo, deriveOnUnlock, addr, row, dead>>
  BY DEF unlockRange, memVars
<1>3. /\ Others(t) /\ pc'[t].at = "queue" /\ pc'[t].call = pc[t].call
      /\ pc'[t].infos = deriveOnUnlock
  <2> DEFINE r == [pc[t] EXCEPT !.at = "queue", !.infos = deriveOnUnlock]
  <2>1. PcOK /\ pc[t] \in PcType
    BY SerialHere
  <2>2. r.at = "queue" /\ r.call = pc[t].call /\ r.infos = deriveOnUnlock
    BY <2>1 DEF PcType
  <2>3. pc' = [pc EXCEPT ![t] = r]
    BY <1>2
  <2> HIDE DEF r
  <2> QED BY <1>1, <2>1, <2>2, <2>3, PutPc
<1>4. SerialThread(t)'
  BY <1>1, <1>2, <1>3 DEF SerialThread, At
<1> QED BY <1>1, <1>2, <1>3, <1>4, SerialRootMove

\* Unlock gives the queued addresses their keys: their accounts have theirs.
LEMMA SerialUnlockAddress ==
    ASSUME KeyRaceInv, SerialInv, ~overlap, ~dead, NEW t \in Threads, unlockAddress(t)
    PROVE  SerialInv'
<1> DEFINE info == Head(deriveOnUnlock)
           q == deriveOnUnlock
<1>1. /\ PcOK /\ MemType /\ pc[t] \in PcType /\ ThreadInv(t) /\ SerialThread(t) /\ ~dead
      /\ (\A b \in Accounts : row[b] # "zero")
      /\ QueueSerial /\ mMtx = t /\ pc[t].at = "queue"
  BY SerialHere DEF unlockAddress, At, InRoot
<1>2. /\ pc[t].infos = q /\ q # <<>> /\ (\A a \in Accounts : acctInfo[a] # "public")
      /\ locked /\ UNCHANGED row
  BY <1>1 DEF SerialThread, At, unlockAddress, ThreadInv
<1>3. Alone(t)
  BY <1>1, OneInside
<1>4. /\ q \in Seq(Infos) /\ 1 \in DOMAIN q /\ info = q[1] /\ info \in Infos
      /\ Tail(q) \in Seq(Infos)
      /\ DOMAIN q = 1 .. Len(q) /\ Len(q) \in Nat
      /\ DOMAIN Tail(q) = 1 .. (Len(q) - 1)
      /\ \A i \in DOMAIN Tail(q) : i + 1 \in DOMAIN q /\ Tail(q)[i] = q[i + 1]
  BY <1>1, <1>2 DEF MemType
<1>5. \A u \in Threads : pc[u].at # "insert"
  BY <1>1, <1>3 DEF Alone, InScope
<1>6. \A i \in DOMAIN q : q[i] # NilInfo /\ acctInfo[InfoAcct(q[i])] # "absent"
  BY <1>1, <1>5 DEF QueueSerial, At
<1>7. info # NilInfo /\ InfoAcct(info) \in Accounts
  BY <1>1, <1>4, <1>6, InfoAcctType
<1>8. acctInfo[InfoAcct(info)] = "private"
  <2>1. acctInfo[InfoAcct(info)] \in {"absent", "public", "private"}
    BY <1>1, <1>7 DEF MemType
  <2> QED BY <1>2, <1>4, <1>6, <1>7, <2>1
<1>9. /\ addr' = IF info \in Threads THEN [addr EXCEPT ![info].key = "right"] ELSE addr
      /\ deriveOnUnlock' = Tail(q)
      /\ pc' = [pc EXCEPT ![t].infos = Tail(@)]
      /\ UNCHANGED <<mMtx, locked, acctInfo, dead>>
  BY <1>2, <1>7, <1>8 DEF unlockAddress, InfoAcct
<1>10. /\ Others(t) /\ pc'[t].at = "queue" /\ pc'[t].call = pc[t].call
       /\ pc'[t].infos = Tail(q)
  <2> DEFINE r == [pc[t] EXCEPT !.infos = Tail(q)]
  <2>1. r.at = pc[t].at /\ r.call = pc[t].call /\ r.infos = Tail(q)
    BY <1>1 DEF PcType
  <2>2. pc' = [pc EXCEPT ![t] = r]
    BY <1>2, <1>9
  <2> HIDE DEF r
  <2> QED BY <1>1, <2>1, <2>2, PutPc
<1>11. SerialThread(t)'
  BY <1>2, <1>9, <1>10 DEF SerialThread, At
<1>12. \A u \in Threads : /\ addr'[u].acct = addr[u].acct
                          /\ addr'[u].key = IF u = info THEN "right" ELSE addr[u].key
  BY <1>1, <1>9 DEF MemType
<1> HIDE DEF info
<1>13. \A x : InfoAcct(x)' = InfoAcct(x)
  BY <1>12 DEF InfoAcct
<1>14. ASSUME NEW u \in Threads, addr'[u].key = "missing"
       PROVE  \E i \in DOMAIN Tail(q) : Tail(q)[i] = u
  <2>1. addr[u].key = "missing" /\ u # info
    BY <1>12, <1>14
  <2>2. PICK i \in DOMAIN q : q[i] = u
    BY <1>1, <2>1 DEF QueueSerial
  <2>3. i # 1 /\ i \in Nat
    BY <1>4, <2>1, <2>2
  <2>4. i - 1 \in DOMAIN Tail(q) /\ (i - 1) + 1 = i
    BY <1>4, <2>2, <2>3
  <2> QED BY <1>4, <2>2, <2>4
<1>15. \A i \in DOMAIN Tail(q) : Tail(q)[i] # NilInfo /\ acctInfo[InfoAcct(Tail(q)[i])] # "absent"
  BY <1>4, <1>6
<1>16. QueueSerial'
  BY <1>2, <1>9, <1>13, <1>14, <1>15 DEF QueueSerial
<1>17. CacheSerial'
  BY <1>1, <1>9, KeyRaceAssumption DEF CacheSerial
<1> QED
  BY <1>1, <1>2, <1>3, <1>9, <1>10, <1>11, <1>16, <1>17, SerialStep

\* What holds inside a call of the scope: no Lock or Unlock is under way.
LEMMA SerialScope ==
    ASSUME KeyRaceInv, SerialInv, ~overlap, ~dead, NEW t \in Threads, pc[t].at \in InScope
    PROVE  /\ Alone(t) /\ mMtx = Nobody /\ mMtx # t /\ pc[t].at # "idle"
           /\ cryptoKeyPriv = "real" <=> ~locked
           /\ \A a \in Accounts : acctInfo[a] # IF locked THEN "private" ELSE "public"
           /\ \A u \in Threads : pc[u].at \notin InRoot
<1>1. pc[t].at \notin {"idle", "m.mtx", "s.mtx"} \cup InRoot
  BY PlaceSets
<1>2. Alone(t) /\ mMtx = Nobody
  BY <1>1, OneInside
<1> QED BY <1>1, <1>2, SerialHere, KeyRaceAssumption DEF KeysFollowLock, CacheSerial, Alone

\* A call of the scope takes its mutex.
LEMMA SerialScopeLock ==
    ASSUME KeyRaceInv, SerialInv, ~overlap, ~dead, NEW t \in Threads, ScopeLock(t)
    PROVE  SerialInv'
<1> DEFINE x == IF pc[t].call = "AccountProperties" THEN "load" ELSE "isLocked"
<1>1. PcOK /\ pc[t].at = "s.mtx" /\ sMtx = Nobody /\ Goes(t, x)
  BY SerialHere DEF ScopeLock, At
<1>2. UNCHANGED <<mMtx, memVars, row, dead>>
  BY DEF ScopeLock
<1>3. x \in Places
  BY DEF Places, InScope
<1>4. x = "isLocked" \/ (x = "load" /\ pc[t].call = "AccountProperties")
  OBVIOUS
<1> HIDE DEF x
<1>5. Others(t) /\ pc'[t].at = x /\ pc'[t].call = pc[t].call
  BY <1>1, <1>3, GoesPc
<1>6. SerialThread(t)'
  BY <1>4, <1>5 DEF SerialThread, At
<1>7. Alone(t)
  BY <1>1, OneInside
<1> QED BY <1>1, <1>2, <1>5, <1>6, <1>7, SerialQuiet

\* The answer of IsLocked stays right.
LEMMA SerialIsLocked ==
    ASSUME KeyRaceInv, SerialInv, ~overlap, ~dead, NEW t \in Threads, IsLocked(t)
    PROVE  SerialInv'
<1>1. PcOK /\ pc[t] \in PcType /\ pc[t].at = "isLocked" /\ pc[t].at \in InScope
  BY SerialHere DEF IsLocked, At, InScope
<1>2. UNCHANGED <<memVars, row, dead>> /\ locked' = locked
  BY DEF IsLocked, memVars
<1>3. Alone(t) /\ mMtx # t
  BY <1>1, SerialScope
<1>4. CASE Return(t)
  BY <1>1, <1>2, <1>3, <1>4, SerialReturn
<1>5. CASE /\ pc' = [pc EXCEPT ![t].at = "load", ![t].private = ~locked]
           /\ UNCHANGED <<mMtx, sMtx>>
  <2> DEFINE r == [pc[t] EXCEPT !.at = "load", !.private = ~locked]
  <2>1. r.at = "load" /\ r.call = pc[t].call /\ r.private = ~locked
    BY <1>1 DEF PcType
  <2>2. pc' = [pc EXCEPT ![t] = r]
    BY <1>5
  <2> HIDE DEF r
  <2>3. Others(t) /\ pc'[t] = r
    BY <1>1, <2>2, PutPc
  <2>4. SerialThread(t)'
    BY <1>2, <2>1, <2>3 DEF SerialThread, At
  <2> QED BY <1>1, <1>2, <1>3, <1>5, <2>1, <2>3, <2>4, SerialQuiet
<1>6. CASE ~locked /\ Goes(t, "use") /\ UNCHANGED <<mMtx, sMtx>>
  <2>1. Others(t) /\ pc'[t].at = "use" /\ pc'[t].call = pc[t].call
    BY <1>1, <1>6, GoesPc, PlaceSets DEF InScope
  <2>2. SerialThread(t)'
    BY <1>2, <1>6, <2>1 DEF SerialThread, At
  <2> QED BY <1>1, <1>2, <1>3, <1>6, <2>1, <2>2, SerialQuiet
<1> QED BY <1>4, <1>5, <1>6 DEF IsLocked

\* A loaded account is cached.
LEMMA LoadedSerial ==
    ASSUME KeyRaceInv, SerialInv, ~overlap, ~dead, NEW t \in Threads, Loaded(t),
           pc[t].at \in {"load", "insert"}, acctInfo'[pc[t].acct] # "absent", UNCHANGED locked
    PROVE  Others(t) /\ pc'[t].call = pc[t].call /\ SerialThread(t)'
<1> DEFINE x == IF pc[t].call = "AccountProperties" THEN "properties" ELSE "derive"
<1>1. PcOK /\ SerialThread(t) /\ Goes(t, x)
  BY SerialHere DEF Loaded
<1>2. x \in Places
  BY DEF Places, InScope
<1>3. x = "properties" \/ (x = "derive" /\ pc[t].call # "AccountProperties")
  OBVIOUS
<1> HIDE DEF x
<1>4. /\ Others(t) /\ pc'[t].at = x /\ pc'[t].call = pc[t].call
      /\ pc'[t].acct = pc[t].acct /\ pc'[t].private = pc[t].private
  BY <1>1, <1>2, GoesPc
<1> QED BY <1>1, <1>3, <1>4 DEF SerialThread, At

\* loadAccountInfo decides as the flag says.
LEMMA SerialLoad ==
    ASSUME KeyRaceInv, SerialInv, ~overlap, ~dead, NEW t \in Threads, loadAccountInfo(t)
    PROVE  SerialInv'
<1>1. /\ PcOK /\ pc[t] \in PcType /\ SerialThread(t)
      /\ pc[t].at = "load" /\ pc[t].at \in InScope
  BY SerialHere DEF loadAccountInfo, At, InScope
<1>2. UNCHANGED <<memVars, row, dead>> /\ UNCHANGED <<locked, acctInfo>>
  BY DEF loadAccountInfo, memVars
<1>3. Alone(t) /\ mMtx # t
  BY <1>1, SerialScope
<1>4. CASE Return(t)
  BY <1>1, <1>2, <1>3, <1>4, SerialReturn
<1>5. CASE acctInfo[pc[t].acct] # "absent" /\ Loaded(t)
  <2>1. Others(t) /\ pc'[t].call = pc[t].call /\ SerialThread(t)' /\ mMtx' = mMtx
    BY <1>1, <1>2, <1>5, LoadedSerial DEF Loaded
  <2> QED BY <1>1, <1>2, <1>3, <2>1, SerialQuiet
<1>6. CASE /\ pc' = [pc EXCEPT ![t].at = "lastAddr",
                               ![t].key = IF locked THEN "public" ELSE "private"]
           /\ UNCHANGED <<mMtx, sMtx>>
  <2> DEFINE k == IF locked THEN "public" ELSE "private"
             r == [pc[t] EXCEPT !.at = "lastAddr", !.key = k]
  <2>1. k = IF locked THEN "public" ELSE "private"
    OBVIOUS
  <2>2. pc' = [pc EXCEPT ![t] = r]
    BY <1>6
  <2> HIDE DEF k
  <2>3. r.at = "lastAddr" /\ r.call = pc[t].call /\ r.private = pc[t].private /\ r.key = k
    BY <1>1 DEF PcType
  <2> HIDE DEF r
  <2>4. Others(t) /\ pc'[t] = r
    BY <1>1, <2>2, PutPc
  <2>5. SerialThread(t)'
    BY <1>1, <1>2, <2>1, <2>3, <2>4 DEF SerialThread, At
  <2> QED BY <1>1, <1>2, <1>3, <1>6, <2>3, <2>4, <2>5, SerialQuiet
<1> QED BY <1>4, <1>5, <1>6 DEF loadAccountInfo

\* The account of a queued address after a step.
NextAcct(x) == IF x \in Threads THEN addr'[x].acct ELSE x

\* One address more in the queue, of an account that is cached or about to be.
LEMMA QueueGrows ==
    ASSUME MemType, QueueSerial, locked', NEW o \in Infos, o # NilInfo,
           deriveOnUnlock' = Append(deriveOnUnlock, o),
           \A u \in Threads : /\ pc[u].at # "insert"
                              /\ addr'[u].key = "missing" => addr[u].key = "missing" \/ u = o,
           \A x : \/ NextAcct(x) = InfoAcct(x)
                  \/ acctInfo[NextAcct(x)] # "absent",
           \/ acctInfo[NextAcct(o)] # "absent"
           \/ \E u \in Threads : pc'[u].at = "insert" /\ pc'[u].acct = NextAcct(o),
           UNCHANGED acctInfo
    PROVE  QueueSerial'
<1> DEFINE q == deriveOnUnlock
           n == Append(deriveOnUnlock, o)
<1>1. /\ q \in Seq(Infos) /\ DOMAIN q = 1 .. Len(q) /\ Len(q) \in Nat
  BY DEF MemType
<1>2. /\ DOMAIN n = 1 .. (Len(q) + 1)
      /\ \A i \in DOMAIN q : i \in DOMAIN n /\ n[i] = q[i]
      /\ Len(q) + 1 \in DOMAIN n /\ n[Len(q) + 1] = o
      /\ \A i \in DOMAIN n : i \in DOMAIN q \/ i = Len(q) + 1
  BY <1>1
<1>3. deriveOnUnlock' = n
  OBVIOUS
<1> HIDE DEF n
<1>4. ASSUME NEW u \in Threads, addr'[u].key = "missing" PROVE \E i \in DOMAIN n : n[i] = u
  BY <1>2, <1>4 DEF QueueSerial
<1>5. ASSUME NEW i \in DOMAIN n
      PROVE  /\ n[i] # NilInfo
             /\ \/ acctInfo'[NextAcct(n[i])] # "absent"
                \/ \E u \in Threads : pc'[u].at = "insert" /\ pc'[u].acct = NextAcct(n[i])
  <2>1. CASE i \in DOMAIN q
    <3>1. q[i] # NilInfo /\ acctInfo[InfoAcct(q[i])] # "absent" /\ n[i] = q[i]
      BY <1>2, <2>1 DEF QueueSerial, At
    <3> QED BY <3>1
  <2>2. CASE i = Len(q) + 1
    BY <1>2, <2>2
  <2> QED BY <1>2, <2>1, <2>2
<1>6. \A i \in DOMAIN n : InfoAcct(deriveOnUnlock[i])' = NextAcct(n[i])
  BY <1>3 DEF InfoAcct, NextAcct
<1> QED BY <1>3, <1>4, <1>5, <1>6 DEF QueueSerial, At

\* The last address of an account that is loaded while locked is queued, or
\* making it panics.
LEMMA SerialLastAddr ==
    ASSUME KeyRaceInv, SerialInv, ~overlap, ~dead, NEW t \in Threads, lastAddr(t)
    PROVE  SerialInv'
<1>1. /\ PcOK /\ MemType /\ pc[t] \in PcType /\ SerialThread(t)
      /\ (\A b \in Accounts : row[b] # "zero") /\ QueueSerial /\ CacheSerial
      /\ pc[t].at = "lastAddr" /\ pc[t].at \in InScope
  BY SerialHere DEF lastAddr, At, InScope
<1>2. Alone(t) /\ mMtx = Nobody /\ \A u \in Threads : pc[u].at # "queue"
  BY <1>1, SerialScope DEF InRoot
<1>3. pc[t].key = IF locked THEN "public" ELSE "private"
  BY <1>1 DEF SerialThread
<1>4. CASE pc[t].key = "private" \/ "external" \notin Bare
  <2>1. Panic /\ UNCHANGED row
    BY <1>4 DEF lastAddr
  <2>2. MakesNilAddress(t)
    BY <1>1, <1>4 DEF MakesNilAddress, At
  <2> QED BY <2>1, <2>2, SerialPanic
<1>5. CASE pc[t].key # "private" /\ "external" \in Bare
  <2>1. /\ Goes(t, "insert") /\ deriveOnUnlock' \in Appended(pc[t].acct) /\ locked
        /\ UNCHANGED <<mMtx, sMtx, locked, cryptoKeyPriv, acctInfo, addr, dead, row>>
    BY <1>3, <1>5 DEF lastAddr
  <2>2. /\ Others(t) /\ pc'[t].at = "insert" /\ pc'[t].call = pc[t].call
        /\ pc'[t].key = pc[t].key /\ pc'[t].private = pc[t].private
        /\ pc'[t].acct = pc[t].acct
    BY <1>1, <2>1, GoesPc, PlaceSets DEF InScope
  <2>3. SerialThread(t)'
    BY <1>1, <1>3, <2>1, <2>2 DEF SerialThread, At
  <2>4. CacheSerial'
    BY <1>1, <2>1 DEF CacheSerial
  <2>5. \A u \in Threads : pc[u].at # "insert"
    BY <1>1, <1>2 DEF Alone, InScope
  <2>6. QueueSerial'
    <3>1. deriveOnUnlock' = Append(deriveOnUnlock, pc[t].acct)
      BY <1>2, <2>1 DEF Appended
    <3>2. pc[t].acct \in Accounts
      BY <1>1 DEF PcType
    <3>3. pc[t].acct \in Infos /\ pc[t].acct # NilInfo /\ pc[t].acct \notin Threads
      BY <3>2, KeyRaceAssumption DEF Infos, Accounts
    <3>4. NextAcct(pc[t].acct) = pc'[t].acct
      BY <2>2, <3>3 DEF NextAcct
    <3>5. \A x : NextAcct(x) = InfoAcct(x)
      BY <2>1 DEF InfoAcct, NextAcct
    <3>6. \A u \in Threads : addr'[u].key = addr[u].key
      BY <2>1
    <3>7. \E u \in Threads : pc'[u].at = "insert" /\ pc'[u].acct = NextAcct(pc[t].acct)
      BY <2>2, <3>4
    <3> DEFINE o == pc[t].acct
    <3>8. /\ o \in Infos /\ o # NilInfo /\ deriveOnUnlock' = Append(deriveOnUnlock, o)
          /\ \E u \in Threads : pc'[u].at = "insert" /\ pc'[u].acct = NextAcct(o)
      BY <3>1, <3>3, <3>7
    <3> HIDE DEF o
    <3> QED BY <1>1, <2>1, <2>5, <3>5, <3>6, <3>8, QueueGrows
  <2> QED
    BY <1>1, <1>2, <2>1, <2>2, <2>3, <2>4, <2>6, SerialStep
<1> QED BY <1>4, <1>5

\* An account is cached while locked, and nothing iterates over the map.
LEMMA SerialCache ==
    ASSUME KeyRaceInv, SerialInv, ~overlap, ~dead, NEW t \in Threads, cacheAccount(t)
    PROVE  SerialInv'
<1>1. /\ PcOK /\ MemType /\ pc[t] \in PcType /\ ThreadInv(t) /\ SerialThread(t) /\ ~dead
      /\ (\A b \in Accounts : row[b] # "zero") /\ QueueSerial
      /\ pc[t].at = "insert" /\ pc[t].at \in InScope /\ pc[t].acct \in Accounts
  BY SerialHere DEF cacheAccount, At, InScope, PcType
<1>2. /\ Alone(t) /\ (\A u \in Threads : pc[u].at \notin {"wipe", "accounts"})
      /\ \A a \in Accounts : acctInfo[a] # IF locked THEN "private" ELSE "public"
  BY <1>1, SerialScope DEF InRoot
<1>3. /\ acctInfo' = [acctInfo EXCEPT ![pc[t].acct] = "public"] /\ Loaded(t)
      /\ UNCHANGED <<locked, cryptoKeyPriv, deriveOnUnlock, addr, dead, row>>
  BY <1>2 DEF cacheAccount
<1>4. locked
  BY <1>1 DEF SerialThread, ThreadInv, At
<1>5. \A a \in Accounts : acctInfo'[a] = IF a = pc[t].acct THEN "public" ELSE acctInfo[a]
  BY <1>1, <1>3 DEF MemType
<1>6. Others(t) /\ pc'[t].call = pc[t].call /\ SerialThread(t)'
  BY <1>1, <1>3, <1>4, <1>5, LoadedSerial
<1>7. \A a \in Accounts : acctInfo'[a] # IF locked THEN "private" ELSE "public"
  BY <1>2, <1>4, <1>5
<1>8. CacheSerial'
  BY <1>3, <1>7 DEF CacheSerial
<1>9. \A u \in Threads : At(u, "insert") => pc'[u] = pc[u] \/ acctInfo'[pc[u].acct] # "absent"
  BY <1>1, <1>4, <1>5, <1>6 DEF Others
<1>10. \A a \in Accounts : acctInfo[a] # "absent" => acctInfo'[a] # "absent"
  BY <1>4, <1>5
<1>11. ~locked' => deriveOnUnlock = <<>>
  BY <1>1, <1>3 DEF QueueSerial
<1>12. QueueSerial'
  BY <1>1, <1>3, <1>9, <1>10, <1>11, QueueSame
<1> QED
  BY <1>1, <1>2, <1>3, <1>6, <1>8, <1>12, SerialStep

\* Calls that ask and return.
LEMMA SerialAsk ==
    ASSUME KeyRaceInv, SerialInv, ~overlap, ~dead, NEW t \in Threads,
           AccountProperties(t) \/ PrivKey(t)
    PROVE  SerialInv'
<1>1. /\ pc[t].at \in InScope /\ pc[t].at # "insert" /\ Return(t)
      /\ UNCHANGED <<memVars, row, dead>>
  BY DEF AccountProperties, PrivKey, At, InScope
<1> QED BY <1>1, SerialScope, SerialReturn

\* An account has the key that the call was promised.
LEMMA SerialDerive ==
    ASSUME KeyRaceInv, SerialInv, ~overlap, ~dead, NEW t \in Threads, deriveKey(t)
    PROVE  SerialInv'
<1> DEFINE k == IF pc[t].private THEN "private" ELSE "public"
           r == [pc[t] EXCEPT !.at = "address", !.key = k]
<1>1. /\ PcOK /\ MemType /\ pc[t] \in PcType /\ SerialThread(t)
      /\ pc[t].at = "derive" /\ pc[t].at \in InScope /\ pc[t].acct \in Accounts
  BY SerialHere DEF deriveKey, At, InScope, PcType
<1>2. /\ Alone(t)
      /\ \A a \in Accounts : acctInfo[a] # IF locked THEN "private" ELSE "public"
  BY <1>1, SerialScope
<1>3. pc[t].private = ~locked /\ acctInfo[pc[t].acct] # "absent"
  BY <1>1 DEF SerialThread, At
<1>4. pc[t].private => acctInfo[pc[t].acct] = "private"
  <2>1. acctInfo[pc[t].acct] \in {"absent", "public", "private"}
    BY <1>1 DEF MemType
  <2> QED BY <1>1, <1>2, <1>3, <2>1
<1>5. /\ pc' = [pc EXCEPT ![t] = r] /\ UNCHANGED <<mMtx, memVars, dead, row>>
      /\ UNCHANGED <<locked, acctInfo>>
  BY <1>4 DEF deriveKey, memVars
<1>6. k = IF locked THEN "public" ELSE "private"
  BY <1>3
<1> HIDE DEF k
<1>7. r.at = "address" /\ r.call = pc[t].call /\ r.key = k /\ r.acct = pc[t].acct
  BY <1>1 DEF PcType
<1> HIDE DEF r
<1>8. Others(t) /\ pc'[t] = r
  BY <1>1, <1>5, PutPc
<1>9. SerialThread(t)'
  BY <1>3, <1>5, <1>6, <1>7, <1>8 DEF SerialThread, At
<1> QED BY <1>1, <1>2, <1>5, <1>7, <1>8, <1>9, SerialQuiet

\* An address that is made while locked is queued; making another one panics.
LEMMA SerialAddress ==
    ASSUME KeyRaceInv, SerialInv, ~overlap, ~dead, NEW t \in Threads, DeriveFromKeyPath(t)
    PROVE  SerialInv'
<1>1. /\ PcOK /\ MemType /\ pc[t] \in PcType /\ SerialThread(t)
      /\ (\A b \in Accounts : row[b] # "zero") /\ QueueSerial /\ CacheSerial
      /\ pc[t].at = "address" /\ pc[t].at \in InScope /\ pc[t].acct \in Accounts
  BY SerialHere DEF DeriveFromKeyPath, At, InScope, PcType
<1>2. /\ Alone(t) /\ mMtx = Nobody /\ mMtx # t /\ \A u \in Threads : pc[u].at # "queue"
  BY <1>1, SerialScope DEF InRoot
<1>3. /\ pc[t].key = IF locked THEN "public" ELSE "private"
      /\ acctInfo[pc[t].acct] # "absent"
  BY <1>1 DEF SerialThread
<1>4. UNCHANGED row
  BY DEF DeriveFromKeyPath
<1>5. \/ Panic /\ (pc[t].key # "public" \/ Branches \ Bare # {})
      \/ /\ pc[t].key = "public" /\ NewAddress(t) /\ Return(t)
         /\ UNCHANGED <<locked, cryptoKeyPriv, acctInfo, dead>>
  BY <1>3 DEF DeriveFromKeyPath
<1>6. CASE Panic /\ (pc[t].key # "public" \/ Branches \ Bare # {})
  <2>1. MakesNilAddress(t)
    BY <1>1, <1>3, <1>6 DEF MakesNilAddress, At
  <2> QED BY <1>4, <1>6, <2>1, SerialPanic
<1>7. CASE /\ pc[t].key = "public" /\ NewAddress(t) /\ Return(t)
           /\ UNCHANGED <<locked, cryptoKeyPriv, acctInfo, dead>>
  <2>1. /\ addr' = [addr EXCEPT ![t] = [acct |-> pc[t].acct, key |-> "missing"]]
        /\ deriveOnUnlock' \in Appended(t) /\ locked
    BY <1>3, <1>7 DEF NewAddress
  <2>2. deriveOnUnlock' = Append(deriveOnUnlock, t)
    BY <1>2, <2>1 DEF Appended
  <2>3. /\ addr'[t].key = "missing" /\ addr'[t].acct = pc[t].acct
        /\ \A u \in Threads \ {t} : addr'[u] = addr[u]
    BY <1>1, <2>1 DEF MemType
  <2>4. \A x : NextAcct(x) = InfoAcct(x) \/ acctInfo[NextAcct(x)] # "absent"
    BY <1>3, <2>3 DEF NextAcct, InfoAcct
  <2>5. acctInfo[NextAcct(t)] # "absent"
    BY <1>3, <2>3 DEF NextAcct
  <2>6. \A u \in Threads : /\ pc[u].at # "insert"
                           /\ addr'[u].key = "missing" => addr[u].key = "missing" \/ u = t
    BY <1>1, <1>2, <2>3 DEF Alone, InScope
  <2>7. t \in Infos /\ t # NilInfo
    BY KeyRaceAssumption DEF Infos
  <2>8. QueueSerial'
    BY <1>1, <1>7, <2>1, <2>2, <2>4, <2>5, <2>6, <2>7, QueueGrows
  <2>9. Others(t) /\ pc'[t] = Idle /\ mMtx' = mMtx
    BY <1>1, <1>2, <1>7, ReturnPc DEF Return
  <2>10. CacheSerial'
    BY <1>1, <1>7, <2>9 DEF CacheSerial
  <2> QED
    BY <1>1, <1>2, <1>4, <1>7, <2>8, <2>9, <2>10, IdleSerial, SerialStep
<1> QED BY <1>5, <1>6, <1>7

\* NewAccount goes on while unlocked.
LEMMA SerialNewAccount ==
    ASSUME KeyRaceInv, SerialInv, ~overlap, ~dead, NEW t \in Threads, NewAccount(t)
    PROVE  SerialInv'
<1>1. /\ PcOK /\ pc[t] \in PcType /\ SerialThread(t)
      /\ pc[t].at = "use" /\ pc[t].at \in InScope
  BY SerialHere DEF NewAccount, At, InScope
<1>2. UNCHANGED <<memVars, row, dead>> /\ UNCHANGED locked
  BY DEF NewAccount, memVars
<1>3. Alone(t) /\ mMtx # t
  BY <1>1, SerialScope
<1>4. CASE Return(t)
  BY <1>1, <1>2, <1>3, <1>4, SerialReturn
<1>5. CASE /\ pc' = [pc EXCEPT ![t].at = "encrypt", ![t].acct = fetchLastAccount + 1]
           /\ UNCHANGED <<mMtx, sMtx>>
  <2> DEFINE r == [pc[t] EXCEPT !.at = "encrypt", !.acct = fetchLastAccount + 1]
  <2>1. r.at = "encrypt" /\ r.call = pc[t].call
    BY <1>1 DEF PcType
  <2>2. pc' = [pc EXCEPT ![t] = r]
    BY <1>5
  <2> HIDE DEF r
  <2>3. Others(t) /\ pc'[t] = r
    BY <1>1, <2>2, PutPc
  <2>4. SerialThread(t)'
    BY <1>1, <1>2, <2>1, <2>3 DEF SerialThread, At
  <2> QED BY <1>1, <1>2, <1>3, <1>5, <2>1, <2>3, <2>4, SerialQuiet
<1> QED BY <1>4, <1>5 DEF NewAccount

\* The row is encrypted under the real key.
LEMMA SerialPut ==
    ASSUME KeyRaceInv, SerialInv, ~overlap, ~dead, NEW t \in Threads, newAccountPut(t)
    PROVE  SerialInv'
<1>1. /\ PcOK /\ MemType /\ SerialThread(t) /\ QueueSerial /\ CacheSerial /\ ~dead
      /\ (\A b \in Accounts : row[b] # "zero")
      /\ pc[t].at = "encrypt" /\ pc[t].at \in InScope
  BY SerialHere DEF newAccountPut, At, InScope
<1>2. Alone(t) /\ mMtx # t /\ (cryptoKeyPriv = "real" <=> ~locked)
  BY <1>1, SerialScope
<1>3. cryptoKeyPriv = "real"
  BY <1>1, <1>2 DEF SerialThread
<1>4. /\ row' = [row EXCEPT ![pc[t].acct] = cryptoKeyPriv] /\ Return(t)
      /\ UNCHANGED <<locked, acctInfo, deriveOnUnlock, addr, dead>>
  BY DEF newAccountPut, memVars
<1>5. \A b \in Accounts : row'[b] # "zero"
  BY <1>1, <1>3, <1>4 DEF MemType
<1>6. Others(t) /\ pc'[t] = Idle /\ mMtx' = mMtx
  BY <1>1, <1>2, <1>4, ReturnPc DEF Return
<1>7. \A u \in Threads : At(u, "insert") => pc'[u] = pc[u]
  BY <1>1, <1>6 DEF At, Others
<1>8. ~locked' => deriveOnUnlock = <<>>
  BY <1>1, <1>4 DEF QueueSerial
<1>9. QueueSerial'
  BY <1>1, <1>4, <1>7, <1>8, QueueSame
<1>10. CacheSerial'
  BY <1>1, <1>4, <1>6 DEF CacheSerial
<1> QED
  BY <1>1, <1>2, <1>4, <1>5, <1>6, <1>9, <1>10, IdleSerial, SerialStep

\* A call that begins beside calls of its own kind.
LEMMA SerialBegin ==
    ASSUME KeyRaceInv, SerialInv, ~dead, NEW t \in Threads,
           NEW method \in RootCalls \cup ScopeCalls, NEW a, Begin(t, method, a)
    PROVE  SerialInv'
<1> DEFINE x == IF method \in RootCalls THEN "m.mtx" ELSE "s.mtx"
           r == [Idle EXCEPT !.call = method, !.acct = a, !.at = x]
<1> SUFFICES ASSUME ~overlap' PROVE SerialInv'
  BY DEF SerialInv
<1>1. /\ ~overlap /\ pc[t].at = "idle" /\ pc' = [pc EXCEPT ![t] = r]
      /\ UNCHANGED <<mMtx, locked, acctInfo, deriveOnUnlock, addr, row, dead>>
      /\ \A u \in Threads \ {t} :
            pc[u].at # "idle" => (pc[u].call \in RootCalls <=> method \in RootCalls)
  BY DEF Begin, At, memVars
<1>2. /\ PcOK /\ MemType /\ ~dead /\ (\A b \in Accounts : row[b] # "zero")
      /\ QueueSerial /\ CacheSerial /\ OneFamily /\ \A u \in Threads : SerialThread(u)
  BY <1>1, SerialHere DEF SerialInv
<1>3. r.at \in {"m.mtx", "s.mtx"} /\ r.call = method
  BY DEF Idle
<1> HIDE DEF r
<1>4. Others(t) /\ pc'[t] = r
  BY <1>1, <1>2, PutPc
<1>5. OneFamily'
  BY <1>1, <1>2, <1>3, <1>4 DEF OneFamily, Others, At
<1>6. \A u \in Threads : SerialThread(u)'
  <2>1. SerialThread(t)'
    BY <1>3, <1>4, Waiting DEF InRoot, InScope
  <2>2. ASSUME NEW u \in Threads \ {t} PROVE SerialThread(u)'
    <3>1. pc'[u] = pc[u] /\ SerialThread(u)
      BY <1>2, <1>4 DEF Others
    <3> QED BY <1>1, <3>1 DEF SerialThread, At
  <2> QED BY <2>1, <2>2
<1>7. \A u \in Threads : At(u, "insert") => pc'[u] = pc[u]
  BY <1>1, <1>4 DEF At, Others
<1>8. ~locked' => deriveOnUnlock = <<>>
  BY <1>1, <1>2 DEF QueueSerial
<1>9. QueueSerial'
  BY <1>1, <1>2, <1>7, <1>8, QueueSame
<1>10. CacheSerial'
  BY <1>1, <1>2 DEF CacheSerial
<1> QED BY <1>1, <1>2, <1>5, <1>6, <1>9, <1>10 DEF SerialInv

\* A process that starts after a panic begins like the first one.
LEMMA SerialRestart ==
    ASSUME SerialInv, Restart
    PROVE  SerialInv'
<1> SUFFICES ASSUME ~overlap' PROVE SerialInv'
  BY DEF SerialInv
<1>1. ~overlap /\ UNCHANGED row /\ \A b \in Accounts : row[b] # "zero"
  BY DEF Restart, SerialInv
<1>2. /\ \A t \in Threads : addr'[t].key = "none"
      /\ \A t \in Threads : pc'[t].at = "idle"
  BY DEF Restart, NoAddr, Idle
<1>3. OneFamily' /\ \A t \in Threads : SerialThread(t)'
  BY <1>2 DEF OneFamily, SerialThread, At
<1>4. QueueSerial'
  BY <1>2 DEF Restart, QueueSerial
<1>5. CacheSerial' /\ ~dead'
  BY DEF Restart, CacheSerial
<1> QED BY <1>1, <1>3, <1>4, <1>5 DEF SerialInv

\* Every step.
LEMMA NextSerial == KeyRaceInv /\ SerialInv /\ [Next]_vars => SerialInv'
<1> SUFFICES ASSUME KeyRaceInv, SerialInv, [Next]_vars, ~overlap' PROVE SerialInv'
  BY DEF SerialInv
<1>1. CASE UNCHANGED vars
  <2>1. UNCHANGED <<mMtx, locked, acctInfo, deriveOnUnlock, addr, row, pc, dead, overlap>>
    BY <1>1 DEF vars, memVars
  <2>2. /\ ~overlap /\ (\A b \in Accounts : row[b] # "zero")
        /\ dead => \E u \in Threads : MakesNilAddress(u)
        /\ QueueSerial /\ CacheSerial /\ OneFamily /\ \A u \in Threads : SerialThread(u)
    BY <2>1 DEF SerialInv
  <2>3. OneFamily' /\ CacheSerial' /\ \A u \in Threads : SerialThread(u)'
    BY <2>1, <2>2 DEF OneFamily, CacheSerial, SerialThread, At
  <2>4. QueueSerial'
    BY <2>1, <2>2 DEF QueueSerial, InfoAcct, At
  <2>5. dead' => \E u \in Threads : MakesNilAddress(u)'
    BY <2>1, <2>2 DEF MakesNilAddress, At
  <2> QED BY <2>1, <2>2, <2>3, <2>4, <2>5 DEF SerialInv
<1>2. CASE Restart
  BY <1>2, SerialRestart
<1>3. ASSUME NEW t \in Threads, ~dead, Call(t) PROVE SerialInv'
  BY <1>3, SerialBegin DEF Call, RootCalls, ScopeCalls
<1>4. ASSUME NEW t \in Threads, ~dead, RootStep(t) PROVE SerialInv'
  <2>1. overlap' = overlap
    BY <1>4 DEF RootStep, Lock, lockKeys, lockDone, Unlock, unlockRange, unlockAddress,
                unlockDone, lockAccount, unlockAccount
  <2> QED
    BY <1>4, <2>1, SerialLock, SerialLockKeys, SerialRootDone, SerialUnlock, SerialUnlockRange,
       SerialUnlockAddress, SerialLockAccount, SerialUnlockAccount DEF RootStep
<1>5. ASSUME NEW t \in Threads, ~dead, ScopeStep(t) PROVE SerialInv'
  <2>1. overlap' = overlap
    BY <1>5 DEF ScopeStep, ScopeLock, IsLocked, loadAccountInfo, lastAddr, cacheAccount,
                AccountProperties, deriveKey, DeriveFromKeyPath, NewAccount, newAccountPut,
                PrivKey
  <2> QED
    BY <1>5, <2>1, SerialScopeLock, SerialIsLocked, SerialLoad, SerialLastAddr, SerialCache,
       SerialAsk, SerialDerive, SerialAddress, SerialNewAccount, SerialPut DEF ScopeStep
<1> QED BY <1>1, <1>2, <1>3, <1>4, <1>5 DEF Next, Runs

\* The first process is serial.
LEMMA InitSerial == Init => SerialInv
<1> SUFFICES ASSUME Init PROVE SerialInv
  OBVIOUS
<1>1. /\ \A t \in Threads : addr[t].key = "none"
      /\ \A t \in Threads : pc[t].at = "idle"
  BY DEF Init, NoAddr, Idle
<1>2. OneFamily /\ \A t \in Threads : SerialThread(t)
  BY <1>1 DEF OneFamily, SerialThread, At
<1>3. QueueSerial
  BY <1>1 DEF Init, QueueSerial
<1> QED BY <1>2, <1>3 DEF Init, SerialInv, CacheSerial

\* As long as no Lock or Unlock overlaps a call of the scope, a goroutine panics
\* only where it makes an address without chain parameters (address_managed.go:318,
\* 336, 342, 349) or with a private key for an address that is nil (:184), no row
\* is written under a wiped key, and between calls the cached accounts and the
\* addresses have their private keys as the lock says.
THEOREM SerialCallsAreSafe == Spec => []SerialCallsSafe
<1>1. Init => KeyRaceInv /\ SerialInv
  BY InitInv, InitSerial
<1>2. KeyRaceInv /\ SerialInv /\ [Next]_vars => (KeyRaceInv /\ SerialInv)'
  BY NextInv, NextSerial
<1>3. KeyRaceInv /\ SerialInv => SerialCallsSafe
  <2> SUFFICES ASSUME KeyRaceInv, SerialInv, ~overlap
               PROVE  /\ dead => \E t \in Threads : MakesNilAddress(t)
                      /\ \A a \in Accounts : row[a] # "zero"
                      /\ Quiet => \A a \in Accounts : acctInfo[a] = "private" => ~locked
                      /\ (Quiet /\ ~locked) =>
                            /\ \A a \in Accounts : acctInfo[a] # "public"
                            /\ \A t \in Threads : addr[t].key \in {"none", "right"}
    BY DEF SerialCallsSafe
  <2>1. /\ dead => \E t \in Threads : MakesNilAddress(t)
        /\ (\A a \in Accounts : row[a] # "zero") /\ QueueSerial /\ CacheSerial
        /\ MemType /\ Mutexes
    BY InvParts DEF SerialInv
  <2>2. Quiet => mMtx = Nobody
    BY <2>1 DEF Quiet, At, Mutexes, InRoot
  <2>3. ~locked => \A t \in Threads : addr[t].key \in {"none", "right"}
    BY <2>1 DEF QueueSerial, MemType
  <2> QED BY <2>1, <2>2, <2>3 DEF CacheSerial
<1> QED BY <1>1, <1>2, <1>3, PTL DEF Spec
=============================================================================
