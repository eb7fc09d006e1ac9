-------------------------- MODULE AddrManagerProofs --------------------------
(***************************************************************************)
(* Proofs about the address manager, for every set of scopes, every name   *)
(* set and every account range that the assumptions of AddrManager allow.  *)
(***************************************************************************)
EXTENDS AddrManager, TLAPS

-----------------------------------------------------------------------------
(* What the operators on the namespace return.                             *)

\* The fixed account numbers are uint32 values, and -1 is not.
LEMMA AccountNumbers ==
    /\ DefaultAccountNum \in Account
    /\ ImportedAddrAccount \in Account
    /\ ImportedAddrAccount # DefaultAccountNum
    /\ NoAccount \notin Account
BY NumbersAssumption DEF DefaultAccountNum, ImportedAddrAccount, Account, NoAccount

\* An absent scope is a well-formed bucket.
LEMMA NoScopeType == NoScope \in ScopeBucket
BY DEF NoScope, ScopeBucket, NoRow, Row

\* A fresh bucket is well formed.
LEMMA CreateScopedType == createScopedManagerNS \in ScopeBucket
BY NoScopeType DEF createScopedManagerNS, ScopeBucket

\* putLastAccount keeps a bucket well formed.
LEMMA PutLastType ==
    ASSUME NEW b \in ScopeBucket, NEW a \in Account
    PROVE  putLastAccount(b, a) \in ScopeBucket
BY DEF putLastAccount, ScopeBucket

\* putAccountInfo keeps a bucket well formed.
LEMMA PutAccountType ==
    ASSUME NEW b \in ScopeBucket, NEW a \in Account, NEW n \in Names,
           NEW keyed \in BOOLEAN
    PROVE  putAccountInfo(b, a, n, keyed) \in ScopeBucket
BY DEF putAccountInfo, ScopeBucket, Row

\* createManagerKeyScope keeps a bucket well formed.
LEMMA KeyScopeType ==
    ASSUME NEW b \in ScopeBucket
    PROVE  createManagerKeyScope(b) \in ScopeBucket
<1> DEFINE c == [b EXCEPT !.coinKeys = TRUE]
           d == putAccountInfo(c, DefaultAccountNum, defaultAccountName, TRUE)
<1>1. c \in ScopeBucket
  BY DEF ScopeBucket
<1>2. d \in ScopeBucket
  BY <1>1, PutAccountType, AccountNumbers, NamesAssumption
<1>3. createManagerKeyScope(b)
        = putAccountInfo(d, ImportedAddrAccount, ImportedAddrAccountName, FALSE)
  BY DEF createManagerKeyScope
<1> HIDE DEF d
<1> QED
  BY <1>2, <1>3, PutAccountType, AccountNumbers, NamesAssumption

\* What Create writes is a well-formed namespace.
LEMMA CreateNSType ==
    ASSUME NEW watch \in BOOLEAN
    PROVE  createManagerNS(watch) \in Store
<1> DEFINE b == createManagerKeyScope(
                    putLastAccount(createScopedManagerNS, DefaultAccountNum))
<1>1. b \in ScopeBucket
  BY KeyScopeType, PutLastType, CreateScopedType, AccountNumbers
<1>2. createManagerNS(watch)
        = [exists |-> TRUE, watch |-> watch,
           scope |-> [s \in Scopes |->
               IF ~watch /\ s \in DefaultKeyScopes THEN b ELSE NoScope]]
  BY DEF createManagerNS
<1> HIDE DEF b
<1> QED
  BY <1>1, <1>2, NoScopeType DEF Store

\* Replacing one bucket of a namespace keeps it well formed.
LEMMA StoreUpdateType ==
    ASSUME NEW st \in Store, NEW s \in Scopes, NEW b \in ScopeBucket
    PROVE  /\ [st EXCEPT !.scope[s] = b] \in Store
           /\ st.scope[s] \in ScopeBucket
BY DEF Store

\* The next account number is a uint32 value: it wraps at 2^32.
LEMMA NextNumberType ==
    ASSUME NEW b \in ScopeBucket
    PROVE  (fetchLastAccount(b) + 1) % Uint32Size \in Account
<1>1. b.last \in Account \cup {NoAccount}
  BY DEF ScopeBucket
<1>2. fetchLastAccount(b) \in Nat
  BY <1>1, NumbersAssumption DEF fetchLastAccount, Account, NoAccount
<1>3. \A m \in Nat : (m + 1) % Uint32Size \in 0 .. (Uint32Size - 1)
  BY NumbersAssumption
<1> QED
  BY <1>2, <1>3 DEF Account

-----------------------------------------------------------------------------
(* Typing.                                                                 *)

\* A process without a Manager has well-typed memory.
LEMMA MemoryGoneType == MemoryGone => MemTypeOK'
BY DEF MemoryGone, MemTypeOK, Empty

\* Ending the transaction leaves the committed namespace alone.
LEMMA TxGoneType == DbTypeOK /\ TxGone => DbTypeOK'
BY DEF DbTypeOK, TxGone

\* A panic leaves a well-typed state.
LEMMA PanicType == TypeOK /\ Panic => TypeOK'
BY MemoryGoneType, TxGoneType DEF Panic, TypeOK, Outcomes

\* A writing call that leaves a namespace keeps the database part typed.
LEMMA InTxType ==
    ASSUME DbTypeOK, txOpen, NEW o \in Outcomes, NEW st \in Store,
           ReturnsInTx(o, st)
    PROVE  DbTypeOK' /\ ret' \in Outcomes /\ proc' = proc
BY DEF DbTypeOK, ReturnsInTx

\* Loading an account keeps the cache typed.
LEMMA LoadType ==
    ASSUME MemTypeOK, NEW s \in Scopes, NEW a \in Account, NEW d \in SUBSET Account,
           loadAccountInfo(s, a, d), UNCHANGED keyVars
    PROVE  MemTypeOK'
BY DEF MemTypeOK, loadAccountInfo, keyVars

\* The outcomes of the two checks are among the outcomes.
LEMMA OutcomeTypes ==
    /\ \A b, a, n : newAccountOutcome(b, a, n) \in Outcomes
    /\ \A st, s, a : loadAccountOutcome(st, s, a) \in Outcomes
BY DEF newAccountOutcome, loadAccountOutcome, Outcomes

\* newAccount keeps the database part typed.
LEMMA NewAccountType ==
    ASSUME DbTypeOK, txOpen, NEW s \in Scopes, NEW a \in Account, NEW n \in Names,
           newAccount(s, a, n)
    PROVE  DbTypeOK' /\ ret' \in Outcomes /\ proc' = proc
<1> DEFINE b == work.scope[s]
           b2 == putLastAccount(putAccountInfo(b, a, n, TRUE), a)
           o == newAccountOutcome(b, a, n)
           st == IF o = "ok" THEN [work EXCEPT !.scope[s] = b2] ELSE work
<1>1. work \in Store /\ b \in ScopeBucket
  BY StoreUpdateType, NoScopeType DEF DbTypeOK
<1>2. b2 \in ScopeBucket
  BY <1>1, PutAccountType, PutLastType
<1>3. st \in Store
  <2> HIDE DEF b2, o
  <2> QED BY <1>1, <1>2, StoreUpdateType
<1>4. o \in Outcomes
  BY OutcomeTypes
<1>5. ReturnsInTx(o, st)
  BY DEF newAccount
<1> HIDE DEF o, st
<1> QED
  BY <1>3, <1>4, <1>5, InTxType

\* The initial state is well typed.
LEMMA InitType == Init => TypeOK
<1> SUFFICES ASSUME Init PROVE TypeOK
  OBVIOUS
<1>1. EmptyStore \in Store
  BY NoScopeType DEF EmptyStore, Store
<1>2. DbTypeOK
  BY <1>1 DEF Init, DbTypeOK
<1>3. MemTypeOK
  BY DEF Init, MemTypeOK, Empty
<1> QED
  BY <1>2, <1>3 DEF Init, TypeOK, Outcomes

\* lock() keeps memory typed.
LEMMA LockType ==
    ASSUME MemTypeOK, lock, deriveOnUnlock' \in [Scopes -> SUBSET Account],
           pubOnly' \in [Scopes -> SUBSET Account]
    PROVE  MemTypeOK'
BY DEF MemTypeOK, lock

\* Stuttering on memory keeps it typed.
LEMMA MemSameType ==
    ASSUME MemTypeOK, UNCHANGED <<keyVars, cacheVars>>
    PROVE  MemTypeOK'
BY DEF MemTypeOK, keyVars, cacheVars

\* A call that does not write keeps the database part typed.
LEMMA ReturnsType ==
    ASSUME TypeOK, NEW o \in Outcomes, Returns(o)
    PROVE  DbTypeOK' /\ ret' \in Outcomes /\ proc' \in {"none", "up", "panicked"}
BY DEF TypeOK, DbTypeOK, Returns, dbVars

\* Every step of the address manager keeps the types.
LEMMA NextType == TypeOK /\ [Next]_vars => TypeOK'
<1> SUFFICES ASSUME TypeOK, [Next]_vars
             PROVE  TypeOK'
  OBVIOUS
<1>t. DbTypeOK /\ MemTypeOK /\ proc \in {"none", "up", "panicked"} /\ ret \in Outcomes
  BY DEF TypeOK
<1>1. CASE BeginUpdate
  <2>1. DbTypeOK'
    BY <1>t, <1>1 DEF BeginUpdate, DbTypeOK
  <2>2. MemTypeOK'
    BY <1>t, <1>1, MemSameType DEF BeginUpdate
  <2> QED
    BY <1>t, <1>1, <2>1, <2>2 DEF BeginUpdate, TypeOK, Outcomes
<1>2. CASE Commit
  <2>1. DbTypeOK'
    BY <1>t, <1>2 DEF Commit, DbTypeOK
  <2>2. MemTypeOK'
    BY <1>t, <1>2, MemSameType, MemoryGoneType DEF Commit
  <2> QED
    BY <1>t, <1>2, <2>1, <2>2 DEF Commit, TypeOK, Outcomes
<1>3. CASE Rollback
  <2>1. MemTypeOK'
    BY <1>t, <1>3, MemSameType DEF Rollback
  <2> QED
    BY <1>t, <1>3, <2>1, TxGoneType DEF Rollback, TypeOK, Outcomes
<1>4. CASE Crash
  BY <1>t, <1>4, TxGoneType, MemoryGoneType DEF Crash, TypeOK, Outcomes
<1>5. ASSUME NEW watch \in BOOLEAN, NEW emptyPass \in BOOLEAN, Create(watch, emptyPass)
      PROVE  TypeOK'
  <2>1. PICK o \in Outcomes, st \in Store : ReturnsInTx(o, st)
    BY <1>t, <1>5, CreateNSType DEF Create, Outcomes, DbTypeOK
  <2>2. txOpen /\ UNCHANGED <<keyVars, cacheVars>>
    BY <1>5 DEF Create
  <2> QED
    BY <1>t, <2>1, <2>2, InTxType, MemSameType DEF TypeOK
<1>6. ASSUME NEW goodPass \in BOOLEAN, Open(goodPass)
      PROVE  TypeOK'
  <2>1. DbTypeOK'
    BY <1>t, <1>6 DEF Open, DbTypeOK, dbVars
  <2>2. disk.watch \in BOOLEAN /\ forEachKeyScope(disk) \in SUBSET Scopes
    BY <1>t DEF DbTypeOK, Store, forEachKeyScope
  <2>3. MemTypeOK'
    BY <1>t, <1>6, <2>2 DEF Open, MemTypeOK, cacheVars, keyVars
  <2> QED
    BY <1>t, <1>6, <2>1, <2>3 DEF Open, TypeOK, Outcomes
<1>7. CASE Lock
  <2>1. PICK o \in Outcomes : Returns(o)
    BY <1>7 DEF Lock, Outcomes
  <2>2. MemTypeOK'
    <3>1. CASE watchingOnly \/ locked
      BY <1>t, <1>7, <3>1, MemSameType DEF Lock
    <3>2. CASE ~(watchingOnly \/ locked)
      BY <1>t, <1>7, <3>2, LockType DEF Lock, MemTypeOK
    <3> QED BY <3>1, <3>2
  <2> QED
    BY <2>1, <2>2, ReturnsType DEF TypeOK
<1>8. CASE UnlockWrongPassphrase
  <2>1. MemTypeOK'
    BY <1>t, <1>8, LockType DEF UnlockWrongPassphrase, MemTypeOK
  <2>2. Returns("ErrWrongPassphrase") /\ "ErrWrongPassphrase" \in Outcomes
    BY <1>8 DEF UnlockWrongPassphrase, Outcomes
  <2> QED
    BY <2>1, <2>2, ReturnsType DEF TypeOK
<1>9. CASE UnlockNothingToDo
  <2>1. PICK o \in Outcomes : Returns(o)
    BY <1>9 DEF UnlockNothingToDo, Outcomes
  <2> QED
    BY <1>t, <1>9, <2>1, ReturnsType, MemSameType DEF TypeOK, UnlockNothingToDo
<1>10. CASE Unlock
  <2>1. MemTypeOK'
    BY <1>t, <1>10 DEF Unlock, MemTypeOK
  <2>2. Returns("ok") /\ "ok" \in Outcomes
    BY <1>10 DEF Unlock, Outcomes
  <2> QED
    BY <2>1, <2>2, ReturnsType DEF TypeOK
<1>11. CASE UnlockFails
  <2>1. /\ deriveOnUnlock' \in [Scopes -> SUBSET Account]
        /\ pubOnly' \in [Scopes -> SUBSET Account]
    BY <1>t, <1>11 DEF UnlockFails, MemTypeOK
  <2>2. MemTypeOK'
    BY <1>t, <1>11, <2>1, LockType DEF UnlockFails
  <2>3. Returns("ErrCrypto") /\ "ErrCrypto" \in Outcomes
    BY <1>11 DEF UnlockFails, Outcomes
  <2> QED
    BY <2>2, <2>3, ReturnsType DEF TypeOK
<1>12. ASSUME NEW s \in Scopes, NewScopedKeyManager(s)
       PROVE  TypeOK'
  <2>1. PICK o \in Outcomes, st \in Store : ReturnsInTx(o, st)
    <3> DEFINE b == IF watchingOnly THEN createScopedManagerNS
                    ELSE createManagerKeyScope(createScopedManagerNS)
    <3>1. b \in ScopeBucket /\ createScopedManagerNS \in ScopeBucket
      BY CreateScopedType, KeyScopeType
    <3>2. /\ work \in Store
          /\ [work EXCEPT !.scope[s] = b] \in Store
          /\ [work EXCEPT !.scope[s] = createScopedManagerNS] \in Store
      <4> HIDE DEF b
      <4> QED BY <1>t, <3>1, StoreUpdateType DEF DbTypeOK
    <3>3. \/ ReturnsInTx("ErrLocked", work)
          \/ ReturnsInTx("ErrDatabase", work)
          \/ ReturnsInTx("ErrKeyChain", [work EXCEPT !.scope[s] = createScopedManagerNS])
          \/ ReturnsInTx("ok", [work EXCEPT !.scope[s] = b])
      BY <1>12 DEF NewScopedKeyManager
    <3> HIDE DEF b
    <3> QED BY <3>2, <3>3 DEF Outcomes
  <2>2. txOpen
    BY <1>12 DEF NewScopedKeyManager
  <2>3. MemTypeOK'
    <3>1. CASE UNCHANGED <<keyVars, cacheVars>>
      BY <1>t, <3>1, MemSameType
    <3>2. CASE ~UNCHANGED <<keyVars, cacheVars>>
      BY <1>t, <1>12, <3>2 DEF NewScopedKeyManager, MemTypeOK
    <3> QED BY <3>1, <3>2
  <2> QED
    BY <1>t, <2>1, <2>2, <2>3, InTxType DEF TypeOK
<1>13. ASSUME NEW s \in Scopes, NewAccountRefused(s)
       PROVE  TypeOK'
  <2>1. PICK o \in Outcomes : ReturnsInTx(o, work)
    BY <1>13 DEF NewAccountRefused, Outcomes
  <2>2. work \in Store /\ txOpen /\ UNCHANGED <<keyVars, cacheVars>>
    BY <1>t, <1>13 DEF NewAccountRefused, DbTypeOK
  <2> QED
    BY <1>t, <2>1, <2>2, InTxType, MemSameType DEF TypeOK
<1>14. ASSUME NEW s \in Scopes, NEW name \in UserNames, NewAccount(s, name)
       PROVE  TypeOK'
  <2> DEFINE a == (fetchLastAccount(work.scope[s]) + 1) % Uint32Size
  <2>1. work \in Store /\ txOpen /\ UNCHANGED <<keyVars, cacheVars>>
    BY <1>t, <1>14 DEF NewAccount, DbTypeOK
  <2>2. a \in Account /\ name \in Names
    BY <2>1, NextNumberType, StoreUpdateType, NoScopeType, NamesAssumption
  <2>3. newAccount(s, a, name) \/ ReturnsInTx("ErrScopeNotFound", work)
    BY <1>14 DEF NewAccount
  <2> HIDE DEF a
  <2>4. DbTypeOK' /\ ret' \in Outcomes /\ proc' = proc
    <3>1. CASE newAccount(s, a, name)
      BY <1>t, <2>1, <2>2, <3>1, NewAccountType
    <3>2. CASE ReturnsInTx("ErrScopeNotFound", work)
      <4>1. "ErrScopeNotFound" \in Outcomes
        BY DEF Outcomes
      <4> QED BY <1>t, <2>1, <3>2, <4>1, InTxType
    <3> QED BY <2>3, <3>1, <3>2
  <2> QED
    BY <1>t, <2>1, <2>4, MemSameType DEF TypeOK
<1>15. ASSUME NEW s \in Scopes, NEW number \in Account, NewRawAccount(s, number)
       PROVE  TypeOK'
  <2>1. txOpen /\ UNCHANGED <<keyVars, cacheVars>> /\ newAccount(s, number, ActName[number])
    BY <1>15 DEF NewRawAccount
  <2>2. ActName[number] \in Names
    BY NamesAssumption
  <2> QED
    BY <1>t, <2>1, <2>2, NewAccountType, MemSameType DEF TypeOK
<1>16. ASSUME NEW s \in Scopes, NEW a \in Account, NEW internal \in BOOLEAN,
              NEW store \in Readable, DeriveFromKeyPath(s, a, internal, store)
       PROVE  TypeOK'
  <2>1. CASE Panic
    BY <2>1, PanicType
  <2>2. CASE UNCHANGED <<keyVars, cacheVars>> /\ Returns(loadAccountOutcome(store, s, a))
    BY <1>t, <2>2, ReturnsType, MemSameType, OutcomeTypes DEF TypeOK
  <2>3. CASE loadAccountInfo(s, a, {a}) /\ Returns("ok") /\ UNCHANGED keyVars
    <3>1. MemTypeOK' /\ "ok" \in Outcomes
      BY <1>t, <2>3, LoadType DEF Outcomes
    <3> QED BY <2>3, <3>1, ReturnsType DEF TypeOK
  <2> QED
    BY <1>16, <2>1, <2>2, <2>3 DEF DeriveFromKeyPath
<1>17. ASSUME NEW s \in Scopes, NEW a \in Account, NEW store \in Readable,
              AccountProperties(s, a, store)
       PROVE  TypeOK'
  <2>1. CASE Panic
    BY <2>1, PanicType
  <2>2. CASE ~Panic
    <3>1. PICK o \in Outcomes : Returns(o)
      BY <1>17, <2>2, OutcomeTypes DEF AccountProperties, Outcomes
    <3>2. MemTypeOK'
      BY <1>t, <1>17, <2>2, MemSameType, LoadType DEF AccountProperties
    <3> QED BY <3>1, <3>2, ReturnsType DEF TypeOK
  <2> QED
    BY <2>1, <2>2
<1>18. ASSUME NEW s \in Scopes, NEW a \in Account,
              NEW n \in 0 .. (MaxAddressesPerAccount + 1), NextAddresses(s, a, n)
       PROVE  TypeOK'
  <2>1. CASE Panic
    BY <2>1, PanicType
  <2>2. CASE ~Panic
    <3>1. work \in Store /\ txOpen
      BY <1>t, <1>18 DEF NextAddresses, DbTypeOK
    <3>2. MemTypeOK'
      BY <1>t, <1>18, <2>2, MemSameType, LoadType DEF NextAddresses
    <3>3. DbTypeOK' /\ ret' \in Outcomes /\ proc' = proc
      <4>1. CASE \E o \in Outcomes : ReturnsInTx(o, work)
        BY <1>t, <3>1, <4>1, InTxType
      <4>2. CASE /\ commitPanics' = TRUE /\ ret' = "ok"
                 /\ UNCHANGED <<proc, disk, work, txOpen, txErr>>
        BY <1>t, <4>2 DEF DbTypeOK, Outcomes
      <4>3. "ErrAccountNumTooHigh" \in Outcomes /\ "ErrTooManyAddresses" \in Outcomes
        BY DEF Outcomes
      <4> QED
        BY <1>18, <2>2, <4>1, <4>2, <4>3, OutcomeTypes DEF NextAddresses
    <3> QED
      BY <1>t, <3>2, <3>3 DEF TypeOK
  <2> QED
    BY <2>1, <2>2
<1>19. ASSUME NEW s \in Scopes, ScopedClose(s)
       PROVE  TypeOK'
  <2>1. CASE Panic
    BY <2>1, PanicType
  <2>2. CASE ~Panic
    <3>1. MemTypeOK' /\ Returns("ok") /\ "ok" \in Outcomes
      BY <1>t, <1>19, <2>2 DEF ScopedClose, MemTypeOK, keyVars, Outcomes
    <3> QED BY <3>1, ReturnsType DEF TypeOK
  <2> QED
    BY <2>1, <2>2
<1>20. CASE UNCHANGED vars
  BY <1>t, <1>20 DEF vars, dbVars, keyVars, cacheVars, TypeOK, DbTypeOK, MemTypeOK
<1> QED
  BY <1>1, <1>2, <1>3, <1>4, <1>5, <1>6, <1>7, <1>8, <1>9, <1>10, <1>11, <1>12,
     <1>13, <1>14, <1>15, <1>16, <1>17, <1>18, <1>19, <1>20 DEF Next

\* The variables keep their types in every behaviour, and between two
\* transactions the namespace readers see is the committed one.
THEOREM TypeCorrect == Spec => []TypeOK
<1>1. Init => TypeOK
  BY InitType
<1>2. TypeOK /\ [Next]_vars => TypeOK'
  BY NextType
<1> QED
  BY <1>1, <1>2, PTL DEF Spec

-----------------------------------------------------------------------------
(* Keys in memory.                                                         *)

\* What createManagerNS writes for a watching-only manager.
LEMMA CreateNSWatch ==
    ASSUME NEW watch \in BOOLEAN
    PROVE  /\ createManagerNS(watch).exists /\ createManagerNS(watch).watch = watch
           /\ watch => \A s \in Scopes :
                 createManagerNS(watch).scope[s] = NoScope
BY DEF createManagerNS

\* An absent scope and a fresh bucket have no key and no row.
LEMMA NoScopeRows ==
    /\ ~NoScope.coinKeys /\ \A a \in Account : NoScope.acct[a] = NoRow
    /\ ~createScopedManagerNS.coinKeys
    /\ \A a \in Account : createScopedManagerNS.acct[a] = NoRow
BY DEF NoScope, createScopedManagerNS

\* Nothing is left of the keys once memory is gone.
LEMMA MemoryGoneKeys ==
    ASSUME MemoryGone, proc' # "up"
    PROVE  KeyInv' /\ WatchMemInv'
BY DEF MemoryGone, KeyInv, WatchMemInv, Empty

\* A transaction that ends leaves the committed namespace.
LEMMA TxGoneWatch == WatchDbInv /\ TxGone => WatchDbInv'
BY DEF WatchDbInv, TxGone

\* A panic keeps the invariant.
LEMMA PanicKeys ==
    ASSUME WatchDbInv, Panic
    PROVE  WatchDbInv' /\ WatchMemInv' /\ KeyInv'
BY MemoryGoneKeys, TxGoneWatch DEF Panic

\* So does a call that touches neither memory nor the namespace.
LEMMA SameKeys ==
    ASSUME WatchMemInv, KeyInv, UNCHANGED <<disk, proc, keyVars, cacheVars>>
    PROVE  WatchMemInv' /\ KeyInv'
BY DEF WatchMemInv, KeyInv, keyVars, cacheVars

\* A step that leaves the namespaces alone keeps what is said of them.
LEMMA SameDb == WatchDbInv /\ UNCHANGED <<disk, work>> => WatchDbInv'
BY DEF WatchDbInv

\* lock() with a queue that lost nothing but served entries.
LEMMA LockKeys ==
    ASSUME MemTypeOK, WatchMemInv, KeyInv, lock, UNCHANGED <<disk, proc>>,
           \A s \in Scopes : pubOnly'[s] \subseteq deriveOnUnlock'[s],
           \A s \in Scopes : deriveOnUnlock'[s] \subseteq deriveOnUnlock[s]
    PROVE  WatchMemInv' /\ KeyInv'
<1>1. \A s \in Scopes : acctKeyPriv'[s] = {}
  BY DEF lock, KeyInv
<1> QED
  BY <1>1 DEF lock, WatchMemInv, KeyInv

\* The readable namespaces have no row when the manager is watching only.
LEMMA WatchedLoadFails ==
    ASSUME WatchDbInv, WatchMemInv, proc = "up", watchingOnly,
           NEW store \in Readable, NEW s \in Scopes, NEW a \in Account
    PROVE  loadAccountOutcome(store, s, a) # "ok"
<1>1. store \in {disk, work} /\ store.watch
  BY DEF Readable, WatchDbInv, WatchMemInv
<1>2. store.scope[s].acct[a] = NoRow /\ a \notin acctInfo[s]
  BY <1>1 DEF WatchDbInv, WatchMemInv
<1> QED
  BY <1>2 DEF loadAccountOutcome

\* An account that was not cached is loaded only by a locked manager, for a
\* bare scope.
LEMMA LoadsWhileLocked ==
    ASSUME ~watchingOnly, NEW store, NEW s, NEW a, loadAccountOutcome(store, s, a) = "ok"
    PROVE  a \in acctInfo[s] \/ (locked /\ s \in BareExternal)
BY DEF loadAccountOutcome, newManagedAddressReturns, hasPrivateKey

\* Loading an account keeps the invariant.
LEMMA LoadKeys ==
    ASSUME MemTypeOK, WatchMemInv, KeyInv, proc = "up", ~watchingOnly,
           NEW s \in scopedManagers, NEW a \in Account, NEW d \in SUBSET {a},
           a \in acctInfo[s] \/ (locked /\ s \in BareExternal), d = {} \/ locked,
           loadAccountInfo(s, a, d), UNCHANGED <<disk, proc, keyVars>>
    PROVE  WatchMemInv' /\ KeyInv'
<1>1. s \in Scopes
  BY DEF MemTypeOK
<1>2. WatchMemInv'
  BY DEF WatchMemInv, keyVars
<1>3. ASSUME NEW r \in Scopes
      PROVE  /\ pubOnly'[r] \subseteq deriveOnUnlock'[r]
             /\ deriveOnUnlock'[r] \subseteq acctInfo'[r]
             /\ r \notin scopedManagers' \cap BareExternal => acctInfo'[r] = {}
             /\ locked => acctKeyPriv'[r] = {}
             /\ ~locked => acctKeyPriv'[r] = acctInfo'[r] /\ deriveOnUnlock'[r] = {}
  <2>1. CASE r # s
    BY <2>1 DEF loadAccountInfo, KeyInv, MemTypeOK, keyVars
  <2>2. CASE r = s
    BY <1>1, <2>2 DEF loadAccountInfo, KeyInv, MemTypeOK, keyVars
  <2> QED BY <2>1, <2>2
<1> QED
  BY <1>2, <1>3 DEF KeyInv, keyVars

\* A writing call that keeps the namespace free of keys if it is watching only.
LEMMA InTxWatch ==
    ASSUME WatchDbInv, NEW o, NEW st, ReturnsInTx(o, st),
           st.watch => \A s \in Scopes : /\ ~st.scope[s].coinKeys
                                         /\ \A a \in Account : st.scope[s].acct[a] = NoRow,
           disk.exists => st.exists /\ st.watch = disk.watch
    PROVE  WatchDbInv'
BY DEF WatchDbInv, ReturnsInTx

\* newAccount writes only where there are coin-type keys, so never into a
\* watching-only namespace.
LEMMA NewAccountWatch ==
    ASSUME DbTypeOK, WatchDbInv, NEW s \in Scopes, NEW a \in Account, NEW n \in Names,
           newAccount(s, a, n)
    PROVE  WatchDbInv' /\ UNCHANGED <<disk, proc>>
<1> DEFINE b == work.scope[s]
           o == newAccountOutcome(b, a, n)
           b2 == putLastAccount(putAccountInfo(b, a, n, TRUE), a)
           st == IF o = "ok" THEN [work EXCEPT !.scope[s] = b2] ELSE work
<1>1. ReturnsInTx(o, st)
  BY DEF newAccount
<1>2. o = "ok" => ~work.watch
  BY DEF newAccountOutcome, WatchDbInv
<1>3. st.watch = work.watch /\ st.exists = work.exists
  <2> HIDE DEF b2, o
  <2> QED BY DEF DbTypeOK, Store
<1>4. st.watch => st = work
  BY <1>2, <1>3
<1> HIDE DEF o, st
<1>5. UNCHANGED <<disk, proc>>
  BY <1>1 DEF ReturnsInTx
<1> QED
  BY <1>1, <1>3, <1>4, <1>5, InTxWatch DEF WatchDbInv

\* Every step keeps the invariant on keys in memory.
LEMMA NextKeys == MemInv /\ [Next]_vars => WatchDbInv' /\ WatchMemInv' /\ KeyInv'
<1> SUFFICES ASSUME MemInv, [Next]_vars
             PROVE  WatchDbInv' /\ WatchMemInv' /\ KeyInv'
  OBVIOUS
<1>t. /\ DbTypeOK /\ MemTypeOK /\ WatchDbInv /\ WatchMemInv /\ KeyInv
  BY DEF MemInv, TypeOK
<1>1. CASE BeginUpdate
  <2>1. WatchDbInv'
    BY <1>t, <1>1 DEF BeginUpdate, WatchDbInv
  <2>2. WatchMemInv' /\ KeyInv'
    BY <1>t, <1>1 DEF BeginUpdate, WatchMemInv, KeyInv, keyVars, cacheVars
  <2> QED BY <2>1, <2>2
<1>2. CASE Commit
  <2>1. WatchDbInv'
    BY <1>t, <1>2 DEF Commit, WatchDbInv
  <2>2. CASE commitPanics
    BY <1>2, <2>1, <2>2, MemoryGoneKeys DEF Commit
  <2>3. CASE ~commitPanics
    BY <1>t, <1>2, <2>1, <2>3
    DEF Commit, WatchMemInv, WatchDbInv, KeyInv, keyVars, cacheVars
  <2> QED BY <2>2, <2>3
<1>3. CASE Rollback
  <2>1. UNCHANGED <<disk, proc, keyVars, cacheVars>>
    BY <1>3 DEF Rollback, TxGone
  <2> QED
    BY <1>t, <1>3, <2>1, TxGoneWatch, SameKeys DEF Rollback
<1>4. CASE Crash
  BY <1>t, <1>4, TxGoneWatch, MemoryGoneKeys DEF Crash
<1>5. ASSUME NEW watch \in BOOLEAN, NEW emptyPass \in BOOLEAN, Create(watch, emptyPass)
      PROVE  WatchDbInv' /\ WatchMemInv' /\ KeyInv'
  <2>1. UNCHANGED <<disk, proc, keyVars, cacheVars>>
    BY <1>5 DEF Create, ReturnsInTx
  <2>2. WatchDbInv'
    <3>1. CASE work' = work
      BY <1>t, <2>1, <3>1, SameDb
    <3>2. CASE ~work.exists /\ ReturnsInTx("ok", createManagerNS(watch))
      BY <1>t, <3>2, InTxWatch, CreateNSWatch, NoScopeRows DEF WatchDbInv
    <3> QED
      BY <1>5, <3>1, <3>2 DEF Create, ReturnsInTx
  <2> QED
    BY <1>t, <2>1, <2>2, SameKeys
<1>6. ASSUME NEW goodPass \in BOOLEAN, Open(goodPass)
      PROVE  WatchDbInv' /\ WatchMemInv' /\ KeyInv'
  <2>1. WatchDbInv'
    BY <1>t, <1>6, SameDb DEF Open, dbVars
  <2>2. scopedManagers = {} /\ locked
    BY <1>t, <1>6 DEF Open, KeyInv
  <2>3. \A s \in Scopes : acctInfo[s] = {} /\ deriveOnUnlock[s] = {} /\ pubOnly[s] = {}
    BY <1>t, <2>2 DEF KeyInv
  <2>4. WatchMemInv'
    BY <1>t, <1>6, <2>2, <2>3 DEF Open, WatchMemInv, dbVars, keyVars, cacheVars
  <2>5. KeyInv'
    BY <1>t, <1>6, <2>2, <2>3 DEF Open, KeyInv, dbVars, keyVars, cacheVars
  <2> QED BY <2>1, <2>4, <2>5
<1>7. CASE Lock
  <2>1. UNCHANGED <<disk, work, proc>>
    BY <1>7 DEF Lock, Returns, dbVars
  <2>2. CASE watchingOnly \/ locked
    BY <1>t, <1>7, <2>1, <2>2, SameDb, SameKeys DEF Lock
  <2>3. CASE ~(watchingOnly \/ locked)
    <3>1. lock /\ UNCHANGED <<deriveOnUnlock, pubOnly>>
      BY <1>7, <2>3 DEF Lock
    <3>2. \A s \in Scopes : /\ pubOnly'[s] \subseteq deriveOnUnlock'[s]
                            /\ deriveOnUnlock'[s] \subseteq deriveOnUnlock[s]
      BY <1>t, <3>1 DEF KeyInv
    <3> QED BY <1>t, <2>1, <3>1, <3>2, SameDb, LockKeys
  <2> QED BY <2>2, <2>3
<1>8. CASE UnlockWrongPassphrase
  <2>1. UNCHANGED <<disk, work, proc>> /\ lock /\ UNCHANGED <<deriveOnUnlock, pubOnly>>
    BY <1>8 DEF UnlockWrongPassphrase, Returns, dbVars
  <2>2. \A s \in Scopes : /\ pubOnly'[s] \subseteq deriveOnUnlock'[s]
                          /\ deriveOnUnlock'[s] \subseteq deriveOnUnlock[s]
    BY <1>t, <2>1 DEF KeyInv
  <2> QED BY <1>t, <2>1, <2>2, SameDb, LockKeys
<1>9. CASE UnlockNothingToDo
  BY <1>t, <1>9, SameDb, SameKeys DEF UnlockNothingToDo, Returns, dbVars
<1>10. CASE Unlock
  <2>1. UNCHANGED <<disk, work, proc>> /\ ~locked' /\ cryptoKeyPriv' /\ proc = "up"
        /\ ~watchingOnly' /\ scopedManagers' = scopedManagers /\ acctInfo' = acctInfo
    BY <1>10 DEF Unlock, Returns, dbVars
  <2>2. \A s \in Scopes : /\ acctKeyPriv'[s] = acctInfo'[s]
                          /\ deriveOnUnlock'[s] = {} /\ pubOnly'[s] = {}
    BY <1>t, <1>10 DEF Unlock, KeyInv, MemTypeOK
  <2>3. WatchDbInv'
    BY <1>t, <2>1, SameDb
  <2>4. WatchMemInv'
    BY <1>t, <1>10, <2>1 DEF WatchMemInv, Unlock
  <2>5. KeyInv'
    BY <1>t, <2>1, <2>2 DEF KeyInv
  <2> QED BY <2>3, <2>4, <2>5
<1>11. CASE UnlockFails
  <2>1. UNCHANGED <<disk, work, proc>> /\ lock
    BY <1>11 DEF UnlockFails, Returns, dbVars
  <2>2. \A s \in Scopes : /\ pubOnly'[s] \subseteq deriveOnUnlock'[s]
                          /\ deriveOnUnlock'[s] \subseteq deriveOnUnlock[s]
    BY <1>t, <1>11 DEF UnlockFails, KeyInv
  <2> QED BY <1>t, <2>1, <2>2, SameDb, LockKeys
<1>12. ASSUME NEW s \in Scopes, NewScopedKeyManager(s)
       PROVE  WatchDbInv' /\ WatchMemInv' /\ KeyInv'
  <2> DEFINE b == IF watchingOnly THEN createScopedManagerNS
                  ELSE createManagerKeyScope(createScopedManagerNS)
             st1 == [work EXCEPT !.scope[s] = createScopedManagerNS]
             st2 == [work EXCEPT !.scope[s] = b]
  <2>1. proc = "up" /\ UNCHANGED <<disk, proc>>
    BY <1>12 DEF NewScopedKeyManager, ReturnsInTx
  <2>2. work.watch = watchingOnly /\ work.exists /\ disk.watch = watchingOnly
    BY <1>t, <2>1 DEF WatchDbInv, WatchMemInv
  <2>3. WatchDbInv'
    <3>1. \/ work' = work
          \/ ReturnsInTx("ErrKeyChain", st1)
          \/ ReturnsInTx("ok", st2)
      BY <1>12 DEF NewScopedKeyManager, ReturnsInTx
    <3>2. /\ st1.exists /\ st1.watch = work.watch
          /\ st2.exists /\ st2.watch = work.watch
          /\ \A r \in Scopes : st1.scope[r] = IF r = s THEN createScopedManagerNS ELSE work.scope[r]
          /\ \A r \in Scopes : st2.scope[r] = IF r = s THEN b ELSE work.scope[r]
      <4> HIDE DEF b
      <4> QED BY <1>t, <2>2 DEF DbTypeOK, Store
    <3>3. watchingOnly => b = createScopedManagerNS
      OBVIOUS
    <3> HIDE DEF st1, st2, b
    <3>4. CASE work' = work
      BY <1>t, <2>1, <3>4, SameDb
    <3>5. CASE ReturnsInTx("ErrKeyChain", st1)
      BY <1>t, <2>2, <3>2, <3>5, NoScopeRows, InTxWatch DEF WatchDbInv
    <3>6. CASE ReturnsInTx("ok", st2)
      BY <1>t, <2>2, <3>2, <3>3, <3>6, NoScopeRows, InTxWatch DEF WatchDbInv
    <3> QED BY <3>1, <3>4, <3>5, <3>6
  <2>4. WatchMemInv' /\ KeyInv'
    <3>1. CASE UNCHANGED <<keyVars, cacheVars>>
      BY <1>t, <2>1, <3>1, SameKeys
    <3>2. CASE ~UNCHANGED <<keyVars, cacheVars>>
      <4>1. /\ watchingOnly \/ ~locked
            /\ UNCHANGED <<locked, watchingOnly, cryptoKeyPriv, pubOnly>>
            /\ scopedManagers' = scopedManagers \cup {s}
            /\ acctInfo' = [acctInfo EXCEPT ![s] = {}]
            /\ acctKeyPriv' = [acctKeyPriv EXCEPT ![s] = {}]
            /\ deriveOnUnlock' = [deriveOnUnlock EXCEPT ![s] = {}]
        BY <1>12, <3>2 DEF NewScopedKeyManager
      <4>2. \A r \in Scopes : deriveOnUnlock[r] = {} /\ pubOnly[r] = {}
        BY <1>t, <4>1 DEF KeyInv, WatchMemInv
      <4>3. WatchMemInv'
        BY <1>t, <2>1, <4>1 DEF WatchMemInv, MemTypeOK
      <4>4. KeyInv'
        BY <1>t, <2>1, <4>1, <4>2 DEF KeyInv, MemTypeOK
      <4> QED BY <4>3, <4>4
    <3> QED BY <3>1, <3>2
  <2> QED BY <2>3, <2>4
<1>13. ASSUME NEW s \in Scopes, NewAccountRefused(s)
       PROVE  WatchDbInv' /\ WatchMemInv' /\ KeyInv'
  BY <1>t, <1>13, SameDb, SameKeys DEF NewAccountRefused, ReturnsInTx
<1>14. ASSUME NEW s \in Scopes, NEW name \in UserNames, NewAccount(s, name)
       PROVE  WatchDbInv' /\ WatchMemInv' /\ KeyInv'
  <2> DEFINE a == (fetchLastAccount(work.scope[s]) + 1) % Uint32Size
  <2>1. a \in Account /\ name \in Names
    BY <1>t, NextNumberType, StoreUpdateType, NoScopeType, NamesAssumption DEF DbTypeOK
  <2>2. newAccount(s, a, name) \/ ReturnsInTx("ErrScopeNotFound", work)
    BY <1>14 DEF NewAccount
  <2> HIDE DEF a
  <2>3. WatchDbInv' /\ UNCHANGED <<disk, proc>>
    <3>1. CASE newAccount(s, a, name)
      BY <1>t, <2>1, <3>1, NewAccountWatch
    <3>2. CASE ReturnsInTx("ErrScopeNotFound", work)
      BY <1>t, <3>2, SameDb DEF ReturnsInTx
    <3> QED BY <2>2, <3>1, <3>2
  <2> QED
    BY <1>t, <1>14, <2>3, SameKeys DEF NewAccount
<1>15. ASSUME NEW s \in Scopes, NEW number \in Account, NewRawAccount(s, number)
       PROVE  WatchDbInv' /\ WatchMemInv' /\ KeyInv'
  <2>1. ActName[number] \in Names /\ newAccount(s, number, ActName[number])
    BY <1>15, NamesAssumption DEF NewRawAccount
  <2>2. WatchDbInv' /\ UNCHANGED <<disk, proc>>
    BY <1>t, <2>1, NewAccountWatch
  <2> QED
    BY <1>t, <1>15, <2>2, SameKeys DEF NewRawAccount
<1>16. ASSUME NEW s \in Scopes, NEW a \in Account, NEW internal \in BOOLEAN,
              NEW store \in Readable, DeriveFromKeyPath(s, a, internal, store)
       PROVE  WatchDbInv' /\ WatchMemInv' /\ KeyInv'
  <2>1. CASE Panic
    BY <1>t, <2>1, PanicKeys
  <2>2. CASE ~Panic
    <3>1. UNCHANGED <<disk, work, proc, keyVars>> /\ proc = "up" /\ s \in scopedManagers
      BY <1>16, <2>2 DEF DeriveFromKeyPath, Returns, dbVars
    <3>2. CASE UNCHANGED cacheVars
      BY <1>t, <3>1, <3>2, SameDb, SameKeys
    <3>3. CASE /\ loadAccountOutcome(store, s, a) = "ok" /\ loadAccountInfo(s, a, {a})
               /\ newManagedAddressReturns(s, internal)
      <4>1. ~watchingOnly
        BY <1>t, <3>1, <3>3, WatchedLoadFails
      <4>2. locked
        BY <3>3, <4>1 DEF newManagedAddressReturns, hasPrivateKey
      <4>3. a \in acctInfo[s] \/ (locked /\ s \in BareExternal)
        BY <3>3, <4>1, LoadsWhileLocked
      <4> QED BY <1>t, <3>1, <3>3, <4>1, <4>2, <4>3, SameDb, LoadKeys
    <3> QED BY <1>16, <2>2, <3>2, <3>3 DEF DeriveFromKeyPath
  <2> QED BY <2>1, <2>2
<1>17. ASSUME NEW s \in Scopes, NEW a \in Account, NEW store \in Readable,
              AccountProperties(s, a, store)
       PROVE  WatchDbInv' /\ WatchMemInv' /\ KeyInv'
  <2>1. CASE Panic
    BY <1>t, <2>1, PanicKeys
  <2>2. CASE ~Panic
    <3>1. UNCHANGED <<disk, work, proc, keyVars>> /\ proc = "up" /\ s \in scopedManagers
      BY <1>17, <2>2 DEF AccountProperties, Returns, dbVars
    <3>2. CASE UNCHANGED cacheVars
      BY <1>t, <3>1, <3>2, SameDb, SameKeys
    <3>3. CASE loadAccountOutcome(store, s, a) = "ok" /\ loadAccountInfo(s, a, {})
      BY <1>t, <3>1, <3>3, SameDb, LoadKeys, WatchedLoadFails, LoadsWhileLocked
    <3> QED BY <1>17, <2>2, <3>2, <3>3 DEF AccountProperties
  <2> QED BY <2>1, <2>2
<1>18. ASSUME NEW s \in Scopes, NEW a \in Account,
              NEW n \in 0 .. (MaxAddressesPerAccount + 1), NextAddresses(s, a, n)
       PROVE  WatchDbInv' /\ WatchMemInv' /\ KeyInv'
  <2>1. CASE Panic
    BY <1>t, <2>1, PanicKeys
  <2>2. CASE ~Panic
    <3>1. /\ UNCHANGED <<disk, work, proc, keyVars>> /\ proc = "up" /\ s \in scopedManagers
          /\ work \in Readable
      BY <1>18, <2>2 DEF NextAddresses, ReturnsInTx, Readable
    <3>2. CASE UNCHANGED cacheVars
      BY <1>t, <3>1, <3>2, SameDb, SameKeys
    <3>3. CASE loadAccountOutcome(work, s, a) = "ok" /\ loadAccountInfo(s, a, {})
      BY <1>t, <3>1, <3>3, SameDb, LoadKeys, WatchedLoadFails, LoadsWhileLocked
    <3> QED BY <1>18, <2>2, <3>2, <3>3 DEF NextAddresses
  <2> QED BY <2>1, <2>2
<1>19. ASSUME NEW s \in Scopes, ScopedClose(s)
       PROVE  WatchDbInv' /\ WatchMemInv' /\ KeyInv'
  <2>1. CASE Panic
    BY <1>t, <2>1, PanicKeys
  <2>2. CASE ~Panic
    BY <1>t, <1>19, <2>2, SameDb
    DEF ScopedClose, WatchMemInv, KeyInv, keyVars, Returns, dbVars
  <2> QED BY <2>1, <2>2
<1>20. CASE UNCHANGED vars
  BY <1>t, <1>20, SameDb, SameKeys DEF vars, dbVars
<1> QED
  BY <1>1, <1>2, <1>3, <1>4, <1>5, <1>6, <1>7, <1>8, <1>9, <1>10, <1>11, <1>12,
     <1>13, <1>14, <1>15, <1>16, <1>17, <1>18, <1>19, <1>20 DEF Next

\* The initial state satisfies the invariant.
LEMMA InitKeys == Init => WatchDbInv /\ WatchMemInv /\ KeyInv
<1> SUFFICES ASSUME Init PROVE WatchDbInv /\ WatchMemInv /\ KeyInv
  OBVIOUS
<1>1. WatchDbInv
  BY DEF Init, WatchDbInv, EmptyStore
<1>2. WatchMemInv
  BY DEF Init, WatchMemInv, Empty
<1>3. KeyInv
  BY DEF Init, KeyInv, Empty
<1> QED BY <1>1, <1>2, <1>3

\* The inductive invariant on keys in memory holds in every behaviour.
THEOREM MemInvariant == Spec => []MemInv
<1>1. Init => MemInv
  BY InitType, InitKeys DEF MemInv
<1>2. MemInv /\ [Next]_vars => MemInv'
  <2>1. MemInv /\ [Next]_vars => TypeOK'
    BY NextType DEF MemInv
  <2> QED BY <2>1, NextKeys DEF MemInv
<1> QED
  BY <1>1, <1>2, PTL DEF Spec

\* Manager.Lock, a failed Unlock and Unlock with a wrong passphrase leave no
\* account key and no private-side secret in memory, for any scopes and accounts.
THEOREM LockedIsClean == Spec => []LockedHoldsNoKeys
<1>1. MemInv => LockedHoldsNoKeys
  BY DEF MemInv, KeyInv, LockedHoldsNoKeys
<1> QED
  BY <1>1, MemInvariant, PTL

\* While unlocked, every account that a bare scope cached has its private key,
\* for any scopes and accounts: nextAddresses meets no nil private key.
THEOREM UnlockedIsComplete == Spec => []UnlockedCachesComplete
<1>1. MemInv => UnlockedCachesComplete
  BY DEF MemInv, KeyInv, UnlockedCachesComplete
<1> QED
  BY <1>1, MemInvariant, PTL

\* Only bare scopes cache an account, and the loop of Unlock over
\* deriveOnUnlock finds every account it needs in the cache.
THEOREM QueueIsCached == Spec => []PendingAccountsCached
<1>1. MemInv => PendingAccountsCached
  BY DEF MemInv, KeyInv, PendingAccountsCached
<1> QED
  BY <1>1, MemInvariant, PTL

\* No address handed out by a locked manager, for a bare scope, is forgotten
\* before an Unlock gave it its private key.
THEOREM NoAddressForgotten == Spec => []AddressesRecoverable
<1>1. MemInv => AddressesRecoverable
  BY DEF MemInv, KeyInv, AddressesRecoverable
<1> QED
  BY <1>1, MemInvariant, PTL

\* A watching-only manager holds no key, in its namespace or in memory.
THEOREM WatchingOnlyIsKeyless == Spec => []WatchingOnlyHoldsNoKeys
<1>1. MemInv => WatchingOnlyHoldsNoKeys
  BY DEF MemInv, WatchDbInv, WatchMemInv, WatchingOnlyHoldsNoKeys
<1> QED
  BY <1>1, MemInvariant, PTL
=============================================================================
