----------------------- MODULE AddrManagerStoreProofs -----------------------
(***************************************************************************)
(* Proofs about the namespace of the address manager: its indexes, the     *)
(* completeness of committed scopes, the stability of account names, and   *)
(* the refinement of the registry of names: initial states map to initial  *)
(* states, every step to a step of NameRegistry or to a stuttering step.   *)
(***************************************************************************)
EXTENDS AddrManagerNames, AddrManagerProofs

-----------------------------------------------------------------------------
(* Buckets.                                                                *)

\* An absent scope and a fresh bucket are consistent.
LEMMA EmptyBucketsOK ==
    /\ BucketOK(NoScope) /\ BucketOK(createScopedManagerNS)
    /\ ~NoScope.made /\ createScopedManagerNS.made
    /\ \A n \in Names : NoScope.nameIdx[n] = NoAccount
BY AccountNumbers
   DEF BucketOK, IndexesAgreeIn, NoScope, createScopedManagerNS, NoRow

\* A bucket filled by createManagerKeyScope is consistent and complete, with
\* or without a last account number.
LEMMA FreshScopeOK ==
    ASSUME NEW b \in {createScopedManagerNS,
                      putLastAccount(createScopedManagerNS, DefaultAccountNum)}
    PROVE  LET c == createManagerKeyScope(b)
           IN  BucketOK(c) /\ CompleteIn(c) /\ c.made
<1> DEFINE c == createManagerKeyScope(b)
<1>1. /\ b \in ScopeBucket
      /\ b.made /\ b.last \in {NoAccount, DefaultAccountNum}
      /\ b.acct = [a \in Account |-> NoRow]
      /\ b.idIdx = [a \in Account |-> NoName]
      /\ b.nameIdx = [n \in Names |-> NoAccount]
  BY CreateScopedType, PutLastType, AccountNumbers
     DEF createScopedManagerNS, putLastAccount, NoScope
<1>2. /\ c.made /\ c.coinKeys /\ c.last = b.last
      /\ c.acct = [b.acct EXCEPT
                     ![DefaultAccountNum] = [name |-> defaultAccountName, keys |-> TRUE],
                     ![ImportedAddrAccount] = [name |-> ImportedAddrAccountName, keys |-> FALSE]]
      /\ c.idIdx = [b.idIdx EXCEPT ![DefaultAccountNum] = defaultAccountName,
                                   ![ImportedAddrAccount] = ImportedAddrAccountName]
      /\ c.nameIdx = [b.nameIdx EXCEPT ![defaultAccountName] = DefaultAccountNum,
                                       ![ImportedAddrAccountName] = ImportedAddrAccount]
  BY <1>1 DEF createManagerKeyScope, putAccountInfo, ScopeBucket
<1> HIDE DEF c
<1>3. ASSUME NEW a \in Account
      PROVE  /\ a = ImportedAddrAccount =>
                   c.acct[a] = [name |-> ImportedAddrAccountName, keys |-> FALSE]
             /\ a = DefaultAccountNum =>
                   c.acct[a] = [name |-> defaultAccountName, keys |-> TRUE]
             /\ a \notin {ImportedAddrAccount, DefaultAccountNum} => c.acct[a] = NoRow
  <2> DEFINE imported == [name |-> ImportedAddrAccountName, keys |-> FALSE]
             default == [name |-> defaultAccountName, keys |-> TRUE]
  <2>1. c.acct = [[x \in Account |-> NoRow] EXCEPT ![DefaultAccountNum] = default,
                                                   ![ImportedAddrAccount] = imported]
    BY <1>1, <1>2
  <2> HIDE DEF imported, default
  <2>2. /\ a = ImportedAddrAccount => c.acct[a] = imported
        /\ a = DefaultAccountNum => c.acct[a] = default
        /\ a \notin {ImportedAddrAccount, DefaultAccountNum} => c.acct[a] = NoRow
    BY <2>1, AccountNumbers
  <2> QED BY <2>2 DEF imported, default
<1>4. ASSUME NEW a \in Account
      PROVE  /\ a = ImportedAddrAccount => c.idIdx[a] = ImportedAddrAccountName
             /\ a = DefaultAccountNum => c.idIdx[a] = defaultAccountName
             /\ a \notin {ImportedAddrAccount, DefaultAccountNum} => c.idIdx[a] = NoName
  BY <1>1, <1>2, AccountNumbers
<1>5. ASSUME NEW n \in Names
      PROVE  /\ n = ImportedAddrAccountName => c.nameIdx[n] = ImportedAddrAccount
             /\ n = defaultAccountName => c.nameIdx[n] = DefaultAccountNum
             /\ n \notin {ImportedAddrAccountName, defaultAccountName} =>
                   c.nameIdx[n] = NoAccount
  BY <1>1, <1>2, NamesAssumption
<1>6. IndexesAgreeIn(c)
  <2>1. \A a \in Account :
          /\ c.idIdx[a] = c.acct[a].name
          /\ c.acct[a].name # NoName => c.nameIdx[c.acct[a].name] = a
    BY <1>3, <1>4, <1>5, NamesAssumption DEF NoRow
  <2>2. \A n \in Names :
          c.nameIdx[n] # NoAccount => c.acct[c.nameIdx[n]].name # NoName
    BY <1>3, <1>5, AccountNumbers, NamesAssumption
  <2>3. c.last # NoAccount => c.acct[c.last].name # NoName
    BY <1>1, <1>2, <1>3, AccountNumbers, NamesAssumption
  <2> QED BY <2>1, <2>2, <2>3 DEF IndexesAgreeIn
<1>7. BucketOK(c)
  <2>1. ~(DefaultAccountNum > MaxAccountNum)
    BY NumbersAssumption DEF DefaultAccountNum
  <2> QED BY <1>2, <1>3, <1>6, <2>1 DEF BucketOK
<1>8. CompleteIn(c)
  <2>1. c.acct[ImportedAddrAccount].name # NoName
    BY <1>3, AccountNumbers, NamesAssumption
  <2> QED BY <1>2, <1>3, <2>1, AccountNumbers DEF CompleteIn, NoRow
<1> QED
  BY <1>2, <1>7, <1>8 DEF c

\* What newAccount writes when all its checks pass: the bucket stays
\* consistent and complete, and no name that was in use leads elsewhere.
LEMMA NewAccountBucket ==
    ASSUME NEW b \in ScopeBucket, BucketOK(b), NEW a \in Account, NEW n \in Names,
           newAccountOutcome(b, a, n) = "ok"
    PROVE  LET c == putLastAccount(putAccountInfo(b, a, n, TRUE), a)
           IN  /\ BucketOK(c) /\ c.made /\ b.made
               /\ CompleteIn(b) => CompleteIn(c)
               /\ \A m \in Names : b.nameIdx[m] # NoAccount => c.nameIdx[m] = b.nameIdx[m]
<1> DEFINE c == putLastAccount(putAccountInfo(b, a, n, TRUE), a)
<1>1. /\ n \notin {EmptyName, ImportedAddrAccountName}
      /\ b.made /\ b.coinKeys /\ b.nameIdx[n] = NoAccount /\ a <= MaxAccountNum
  BY NumbersAssumption DEF newAccountOutcome, Account
<1>2. /\ c.made /\ c.coinKeys = b.coinKeys /\ c.last = a
      /\ c.acct = [b.acct EXCEPT ![a] = [name |-> n, keys |-> TRUE]]
      /\ c.idIdx = [b.idIdx EXCEPT ![a] = n]
      /\ c.nameIdx = [b.nameIdx EXCEPT ![n] = a]
  BY <1>1 DEF putLastAccount, putAccountInfo, ScopeBucket
<1>3. /\ b.acct \in [Account -> Row] /\ b.idIdx \in [Account -> Names \cup {NoName}]
      /\ b.nameIdx \in [Names -> Account \cup {NoAccount}]
  BY DEF ScopeBucket
<1> HIDE DEF c
<1>4. \A x \in Account : /\ c.acct[x] = IF x = a THEN [name |-> n, keys |-> TRUE] ELSE b.acct[x]
                         /\ c.idIdx[x] = IF x = a THEN n ELSE b.idIdx[x]
  BY <1>2, <1>3
<1>5. \A m \in Names : c.nameIdx[m] = IF m = n THEN a ELSE b.nameIdx[m]
  BY <1>2, <1>3
<1>6. IndexesAgreeIn(c)
  <2>1. ASSUME NEW x \in Account
        PROVE  /\ c.idIdx[x] = c.acct[x].name
               /\ c.acct[x].name # NoName => c.nameIdx[c.acct[x].name] = x
    <3>1. CASE x = a
      BY <1>4, <1>5, <3>1
    <3>2. CASE x # a
      <4>1. b.acct[x].name \in Names \cup {NoName}
        BY <1>3 DEF Row
      <4>2. b.acct[x].name # NoName => b.nameIdx[b.acct[x].name] = x
        BY DEF BucketOK, IndexesAgreeIn
      <4>3. b.acct[x].name # n
        BY <1>1, <4>2, AccountNumbers, NamesAssumption
      <4> QED
        BY <1>4, <1>5, <3>2, <4>1, <4>2, <4>3 DEF BucketOK, IndexesAgreeIn
    <3> QED BY <3>1, <3>2
  <2>2. ASSUME NEW m \in Names, c.nameIdx[m] # NoAccount
        PROVE  c.acct[c.nameIdx[m]].name # NoName
    <3>1. CASE m = n
      BY <1>4, <1>5, <3>1, NamesAssumption
    <3>2. CASE m # n
      <4>1. c.nameIdx[m] = b.nameIdx[m] /\ b.nameIdx[m] \in Account
        BY <1>3, <1>5, <2>2, <3>2
      <4>2. b.acct[b.nameIdx[m]].name # NoName
        BY <2>2, <4>1 DEF BucketOK, IndexesAgreeIn
      <4> QED BY <1>4, <4>1, <4>2, NamesAssumption
    <3> QED BY <3>1, <3>2
  <2>3. c.acct[c.last].name # NoName
    BY <1>2, <1>4, NamesAssumption
  <2> QED BY <2>1, <2>2, <2>3 DEF IndexesAgreeIn
<1>7. \A x \in Account : x > MaxAccountNum => c.acct[x] = b.acct[x]
  BY <1>1, <1>4, NumbersAssumption DEF Account
<1>8. BucketOK(c)
  BY <1>2, <1>6, <1>7 DEF BucketOK
<1>9. ASSUME CompleteIn(b) PROVE CompleteIn(c)
  <2>1. ImportedAddrAccount > MaxAccountNum
    BY NumbersAssumption DEF ImportedAddrAccount
  <2>2. c.acct[ImportedAddrAccount] # NoRow
    BY <1>7, <1>9, <2>1, AccountNumbers DEF CompleteIn
  <2> QED
    BY <1>2, <1>4, <1>9, <2>2, AccountNumbers DEF CompleteIn
<1>10. \A m \in Names : b.nameIdx[m] # NoAccount => c.nameIdx[m] = b.nameIdx[m]
  BY <1>1, <1>5
<1> QED
  BY <1>1, <1>2, <1>8, <1>9, <1>10 DEF c

-----------------------------------------------------------------------------
(* Steps.                                                                  *)

\* A step that leaves the namespaces alone and forgets no manager.
LEMMA StoreSame ==
    ASSUME StoreInv, UNCHANGED <<disk, work>>, txErr => txErr',
           proc' = "up" => proc = "up" /\ scopedManagers \subseteq scopedManagers'
    PROVE  StoreInv'
BY DEF StoreInv, NamesKept, forEachKeyScope, StoreOK, StoreComplete

\* The end of a transaction that is not committed.
LEMMA StoreTxGone ==
    ASSUME StoreInv, TxGone,
           proc' = "up" => proc = "up" /\ scopedManagers \subseteq scopedManagers'
    PROVE  StoreInv'
BY DEF StoreInv, NamesKept, forEachKeyScope, StoreOK, StoreComplete, TxGone

\* A panic keeps the invariant: nothing of the transaction is left.
LEMMA StorePanic == StoreInv /\ Panic => StoreInv'
BY StoreTxGone DEF Panic

\* A writing call that leaves a consistent namespace, complete if it succeeds.
LEMMA StoreInTx ==
    ASSUME StoreInv, NEW o, NEW st, ReturnsInTx(o, st), StoreOK(st),
           o = "ok" => StoreComplete(st),
           \A s \in Scopes, n \in Names : disk.scope[s].nameIdx[n] # NoAccount =>
               st.scope[s].nameIdx[n] = disk.scope[s].nameIdx[n],
           scopedManagers \subseteq scopedManagers',
           (proc = "up" /\ o = "ok") => forEachKeyScope(st) \subseteq scopedManagers'
    PROVE  StoreInv'
BY DEF StoreInv, NamesKept, forEachKeyScope, StoreOK, StoreComplete, ReturnsInTx

\* Replacing one bucket by a consistent one keeps a namespace consistent.
LEMMA StoreReplace ==
    ASSUME NEW st \in Store, StoreOK(st), st.exists, NEW s \in Scopes, NEW b, BucketOK(b)
    PROVE  LET st2 == [st EXCEPT !.scope[s] = b]
           IN  /\ StoreOK(st2)
               /\ (StoreComplete(st) /\ (b.made /\ ~st.watch => CompleteIn(b))) => StoreComplete(st2)
               /\ forEachKeyScope(st2) \subseteq forEachKeyScope(st) \cup {s}
               /\ \A r \in Scopes : st2.scope[r] = IF r = s THEN b ELSE st.scope[r]
<1> DEFINE st2 == [st EXCEPT !.scope[s] = b]
<1>1. /\ st2.exists = st.exists /\ st2.watch = st.watch
      /\ \A r \in Scopes : st2.scope[r] = IF r = s THEN b ELSE st.scope[r]
  BY DEF Store
<1> HIDE DEF st2
<1>2. StoreOK(st2)
  BY <1>1 DEF StoreOK
<1>3. (StoreComplete(st) /\ (b.made /\ ~st.watch => CompleteIn(b))) => StoreComplete(st2)
  BY <1>1 DEF StoreComplete
<1>4. forEachKeyScope(st2) \subseteq forEachKeyScope(st) \cup {s}
  BY <1>1 DEF forEachKeyScope
<1> QED
  BY <1>1, <1>2, <1>3, <1>4 DEF st2

\* newAccount keeps the invariant.
LEMMA StoreNewAccount ==
    ASSUME TypeOK, StoreInv, ~txErr, NEW s \in Scopes, NEW a \in Account, NEW n \in Names,
           newAccount(s, a, n), UNCHANGED keyVars
    PROVE  StoreInv'
<1> DEFINE b == work.scope[s]
           o == newAccountOutcome(b, a, n)
           c == putLastAccount(putAccountInfo(b, a, n, TRUE), a)
           st == IF o = "ok" THEN [work EXCEPT !.scope[s] = c] ELSE work
<1>1. ReturnsInTx(o, st)
  BY DEF newAccount
<1>2. /\ work \in Store /\ b \in ScopeBucket /\ BucketOK(b)
      /\ StoreOK(work) /\ StoreComplete(work)
  BY StoreUpdateType, NoScopeType DEF TypeOK, DbTypeOK, StoreInv, StoreOK
<1>3. CASE o # "ok"
  BY <1>1, <1>3, StoreSame DEF ReturnsInTx, keyVars
<1>4. CASE o = "ok"
  <2>1. /\ BucketOK(c) /\ c.made /\ b.made
        /\ CompleteIn(b) => CompleteIn(c)
        /\ \A m \in Names : b.nameIdx[m] # NoAccount => c.nameIdx[m] = b.nameIdx[m]
    BY <1>2, <1>4, NewAccountBucket
  <2>2. work.exists
    BY <1>2, <2>1 DEF StoreOK
  <2>3. b.made /\ ~work.watch => CompleteIn(b)
    BY <1>2 DEF StoreComplete
  <2>4. st = [work EXCEPT !.scope[s] = c]
    BY <1>4
  <2> HIDE DEF c, o, st
  <2>5. /\ StoreOK(st) /\ StoreComplete(st)
        /\ forEachKeyScope(st) \subseteq forEachKeyScope(work) \cup {s}
        /\ \A r \in Scopes : st.scope[r] = IF r = s THEN c ELSE work.scope[r]
    BY <1>2, <2>1, <2>2, <2>3, <2>4, StoreReplace
  <2>6. s \in forEachKeyScope(work)
    BY <2>1 DEF forEachKeyScope
  <2>7. \A r \in Scopes, m \in Names : disk.scope[r].nameIdx[m] # NoAccount =>
            st.scope[r].nameIdx[m] = disk.scope[r].nameIdx[m]
    BY <2>1, <2>5 DEF StoreInv, NamesKept
  <2>8. proc = "up" => forEachKeyScope(st) \subseteq scopedManagers
    BY <2>5, <2>6 DEF StoreInv
  <2> QED
    BY <1>1, <2>5, <2>7, <2>8, StoreInTx DEF keyVars
<1> QED BY <1>3, <1>4

\* What Create writes is consistent and complete.
LEMMA CreateNSOK ==
    ASSUME NEW watch \in BOOLEAN
    PROVE  StoreOK(createManagerNS(watch)) /\ StoreComplete(createManagerNS(watch))
<1> DEFINE b == createManagerKeyScope(
                    putLastAccount(createScopedManagerNS, DefaultAccountNum))
           st == createManagerNS(watch)
<1>1. BucketOK(b) /\ CompleteIn(b)
  BY FreshScopeOK
<1>2. st.exists /\ \A s \in Scopes : st.scope[s] \in {b, NoScope}
  BY DEF createManagerNS
<1> HIDE DEF b, st
<1>3. StoreOK(st)
  BY <1>1, <1>2, EmptyBucketsOK DEF StoreOK
<1>4. StoreComplete(st)
  BY <1>1, <1>2, EmptyBucketsOK DEF StoreComplete
<1> QED BY <1>3, <1>4 DEF st

\* Every step keeps the invariant on the namespace.
LEMMA NextStore == MemInv /\ StoreInv /\ [Next]_vars => StoreInv'
<1> SUFFICES ASSUME MemInv, StoreInv, [Next]_vars
             PROVE  StoreInv'
  OBVIOUS
<1>t. TypeOK /\ DbTypeOK /\ MemTypeOK /\ WatchDbInv /\ WatchMemInv /\ KeyInv
  BY DEF MemInv, TypeOK
<1>1. CASE BeginUpdate
  <2>1. work = disk /\ ~txErr /\ UNCHANGED <<disk, work, txErr>>
    BY <1>t, <1>1 DEF BeginUpdate, DbTypeOK
  <2>2. proc' = "up" => proc = "up" /\ scopedManagers' = scopedManagers
    BY <1>1 DEF BeginUpdate, keyVars
  <2> QED BY <2>1, <2>2, StoreSame
<1>2. CASE Commit
  <2>1. ~txErr /\ disk' = work /\ work' = work /\ ~txErr'
    BY <1>2 DEF Commit
  <2>2. proc' = "up" => proc = "up" /\ scopedManagers' = scopedManagers
    BY <1>2 DEF Commit, keyVars
  <2> QED
    BY <2>1, <2>2 DEF StoreInv, NamesKept, forEachKeyScope, StoreOK, StoreComplete
<1>3. CASE Rollback
  BY <1>3, StoreTxGone DEF Rollback, keyVars
<1>4. CASE Crash
  BY <1>4, StoreTxGone DEF Crash
<1>5. ASSUME NEW watch \in BOOLEAN, NEW emptyPass \in BOOLEAN, Create(watch, emptyPass)
      PROVE  StoreInv'
  <2>1. ~txErr /\ scopedManagers' = scopedManagers
    BY <1>5 DEF Create, keyVars
  <2>2. CASE work' = work
    BY <1>5, <2>1, <2>2, StoreSame DEF Create, ReturnsInTx
  <2>3. CASE ~work.exists /\ ReturnsInTx("ok", createManagerNS(watch))
    <3>1. ~disk.exists /\ proc # "up"
      BY <1>t, <2>3 DEF WatchDbInv, WatchMemInv
    <3>2. \A s \in Scopes : disk.scope[s] = NoScope
      BY <3>1 DEF StoreInv, StoreOK, BucketOK
    <3>3. \A s \in Scopes, n \in Names : disk.scope[s].nameIdx[n] = NoAccount
      BY <3>2, EmptyBucketsOK
    <3> QED
      BY <2>1, <2>3, <3>1, <3>3, CreateNSOK, StoreInTx
  <2> QED BY <1>5, <2>2, <2>3 DEF Create, ReturnsInTx
<1>6. ASSUME NEW goodPass \in BOOLEAN, Open(goodPass)
      PROVE  StoreInv'
  <2>1. work = disk /\ UNCHANGED <<disk, work, txErr>> /\ ~txErr
    BY <1>t, <1>6 DEF Open, DbTypeOK, dbVars
  <2>2. proc' = "up" => scopedManagers' = forEachKeyScope(disk)
    BY <1>6 DEF Open
  <2> QED
    BY <2>1, <2>2 DEF StoreInv, NamesKept, forEachKeyScope, StoreOK, StoreComplete
<1>7. CASE Lock \/ UnlockWrongPassphrase \/ UnlockNothingToDo \/ Unlock \/ UnlockFails
  <2>1. UNCHANGED <<disk, work, txErr, proc, scopedManagers>>
    BY <1>7 DEF Lock, UnlockWrongPassphrase, UnlockNothingToDo, Unlock, UnlockFails,
                lock, Returns, dbVars, keyVars
  <2> QED BY <2>1, StoreSame
<1>8. ASSUME NEW s \in Scopes, NewScopedKeyManager(s)
      PROVE  StoreInv'
  <2> DEFINE b == IF watchingOnly THEN createScopedManagerNS
                  ELSE createManagerKeyScope(createScopedManagerNS)
             st1 == [work EXCEPT !.scope[s] = createScopedManagerNS]
             st2 == [work EXCEPT !.scope[s] = b]
  <2>1. /\ proc = "up" /\ ~txErr /\ UNCHANGED <<disk, proc>>
        /\ scopedManagers \subseteq scopedManagers'
    BY <1>8 DEF NewScopedKeyManager, ReturnsInTx, keyVars
  <2>2. work.watch = watchingOnly /\ work.exists /\ work \in Store
        /\ StoreOK(work) /\ StoreComplete(work)
    BY <1>t, <2>1 DEF WatchDbInv, WatchMemInv, DbTypeOK, StoreInv
  <2>3. BucketOK(b) /\ (~watchingOnly => CompleteIn(b))
    BY EmptyBucketsOK, FreshScopeOK
  <2> HIDE DEF b
  <2>4. CASE work' = work
    BY <1>8, <2>1, <2>4, StoreSame DEF NewScopedKeyManager, ReturnsInTx
  <2>5. ~work.scope[s].made =>
           \A n \in Names : disk.scope[s].nameIdx[n] = NoAccount
    <3>1. ~work.scope[s].made => work.scope[s] = NoScope
      BY <2>2 DEF StoreOK, BucketOK
    <3> QED BY <3>1, EmptyBucketsOK DEF StoreInv, NamesKept
  <2>6. CASE ~work.scope[s].made /\ ReturnsInTx("ErrKeyChain", st1)
    <3>1. /\ StoreOK(st1)
          /\ \A r \in Scopes : st1.scope[r] = IF r = s THEN createScopedManagerNS
                                              ELSE work.scope[r]
      BY <2>2, EmptyBucketsOK, StoreReplace
    <3> HIDE DEF st1
    <3>2. \A r \in Scopes, n \in Names : disk.scope[r].nameIdx[n] # NoAccount =>
              st1.scope[r].nameIdx[n] = disk.scope[r].nameIdx[n]
      BY <2>5, <2>6, <3>1 DEF StoreInv, NamesKept
    <3> QED BY <2>1, <2>6, <3>1, <3>2, StoreInTx
  <2>7. CASE /\ ~work.scope[s].made /\ ReturnsInTx("ok", st2)
             /\ scopedManagers' = scopedManagers \cup {s}
    <3>1. /\ StoreOK(st2) /\ StoreComplete(st2)
          /\ forEachKeyScope(st2) \subseteq forEachKeyScope(work) \cup {s}
          /\ \A r \in Scopes : st2.scope[r] = IF r = s THEN b ELSE work.scope[r]
      <4>1. /\ st2.exists = work.exists /\ st2.watch = work.watch
            /\ \A r \in Scopes : st2.scope[r] = IF r = s THEN b ELSE work.scope[r]
        BY <2>2 DEF Store
      <4> HIDE DEF st2
      <4>2. StoreOK(st2)
        BY <2>2, <2>3, <4>1 DEF StoreOK
      <4>3. StoreComplete(st2)
        BY <2>2, <2>3, <4>1 DEF StoreComplete
      <4> QED BY <4>1, <4>2, <4>3 DEF forEachKeyScope
    <3> HIDE DEF st2
    <3>2. \A r \in Scopes, n \in Names : disk.scope[r].nameIdx[n] # NoAccount =>
              st2.scope[r].nameIdx[n] = disk.scope[r].nameIdx[n]
      BY <2>5, <2>7, <3>1 DEF StoreInv, NamesKept
    <3>3. forEachKeyScope(st2) \subseteq scopedManagers'
      BY <2>1, <2>7, <3>1 DEF StoreInv
    <3> QED BY <2>1, <2>7, <3>1, <3>2, <3>3, StoreInTx
  <2>8. \/ work' = work
        \/ ~work.scope[s].made /\ ReturnsInTx("ErrKeyChain", st1)
        \/ /\ ~work.scope[s].made /\ ReturnsInTx("ok", st2)
           /\ scopedManagers' = scopedManagers \cup {s}
    BY <1>8 DEF NewScopedKeyManager, ReturnsInTx, b
  <2> QED BY <2>4, <2>6, <2>7, <2>8
<1>9. ASSUME NEW s \in Scopes, NewAccountRefused(s)
      PROVE  StoreInv'
  BY <1>9, StoreSame DEF NewAccountRefused, ReturnsInTx, keyVars
<1>10. ASSUME NEW s \in Scopes, NEW name \in UserNames, NewAccount(s, name)
       PROVE  StoreInv'
  <2> DEFINE a == (fetchLastAccount(work.scope[s]) + 1) % Uint32Size
  <2>1. a \in Account /\ name \in Names
    BY <1>t, NextNumberType, StoreUpdateType, NoScopeType, NamesAssumption DEF DbTypeOK
  <2>2. /\ newAccount(s, a, name) \/ ReturnsInTx("ErrScopeNotFound", work)
        /\ ~txErr /\ UNCHANGED keyVars
    BY <1>10 DEF NewAccount
  <2> HIDE DEF a
  <2>3. CASE newAccount(s, a, name)
    BY <1>t, <2>1, <2>2, <2>3, StoreNewAccount
  <2>4. CASE ReturnsInTx("ErrScopeNotFound", work)
    BY <2>2, <2>4, StoreSame DEF ReturnsInTx, keyVars
  <2> QED BY <2>2, <2>3, <2>4
<1>11. ASSUME NEW s \in Scopes, NEW number \in Account, NewRawAccount(s, number)
       PROVE  StoreInv'
  <2>1. /\ ActName[number] \in Names /\ newAccount(s, number, ActName[number])
        /\ ~txErr /\ UNCHANGED keyVars
    BY <1>11, NamesAssumption DEF NewRawAccount
  <2> QED BY <1>t, <2>1, StoreNewAccount
<1>12. ASSUME NEW s \in Scopes, NEW a \in Account, NEW internal \in BOOLEAN,
              NEW store \in Readable,
              DeriveFromKeyPath(s, a, internal, store) \/ AccountProperties(s, a, store)
       PROVE  StoreInv'
  <2>1. CASE Panic
    BY <2>1, StorePanic
  <2>2. CASE ~Panic
    BY <1>12, <2>2, StoreSame DEF DeriveFromKeyPath, AccountProperties, Returns, dbVars, keyVars
  <2> QED BY <2>1, <2>2
<1>13. ASSUME NEW s \in Scopes, NEW a \in Account,
              NEW n \in 0 .. (MaxAddressesPerAccount + 1), NextAddresses(s, a, n)
       PROVE  StoreInv'
  <2>1. CASE Panic
    BY <2>1, StorePanic
  <2>2. CASE ~Panic
    BY <1>13, <2>2, StoreSame DEF NextAddresses, ReturnsInTx, keyVars
  <2> QED BY <2>1, <2>2
<1>14. ASSUME NEW s \in Scopes, ScopedClose(s)
       PROVE  StoreInv'
  <2>1. CASE Panic
    BY <2>1, StorePanic
  <2>2. CASE ~Panic
    BY <1>14, <2>2, StoreSame DEF ScopedClose, Returns, dbVars, keyVars
  <2> QED BY <2>1, <2>2
<1>15. CASE UNCHANGED vars
  BY <1>15, StoreSame DEF vars, dbVars, keyVars
<1> QED
  BY <1>1, <1>2, <1>3, <1>4, <1>5, <1>6, <1>7, <1>8, <1>9, <1>10, <1>11, <1>12,
     <1>13, <1>14, <1>15 DEF Next

\* The initial state satisfies the invariant.
LEMMA InitStore == Init => StoreInv
<1> SUFFICES ASSUME Init PROVE StoreInv
  OBVIOUS
<1>1. /\ disk = EmptyStore /\ work = EmptyStore /\ proc # "up"
      /\ \A s \in Scopes : EmptyStore.scope[s] = NoScope
  BY DEF Init, EmptyStore
<1> QED
  BY <1>1, EmptyBucketsOK DEF StoreInv, StoreOK, StoreComplete, NamesKept

-----------------------------------------------------------------------------
(* Theorems.                                                               *)

\* The inductive invariant on the namespace holds in every behaviour.
THEOREM StoreInvariant == Spec => [](MemInv /\ StoreInv)
<1>1. Init => MemInv /\ StoreInv
  BY InitType, InitKeys, InitStore DEF MemInv
<1>2. MemInv /\ StoreInv /\ [Next]_vars => (MemInv /\ StoreInv)'
  <2>1. MemInv /\ [Next]_vars => TypeOK'
    BY NextType DEF MemInv
  <2> QED BY <2>1, NextKeys, NextStore DEF MemInv
<1> QED
  BY <1>1, <1>2, PTL DEF Spec

\* The rows and the two indexes that putAccountInfo writes always agree.
THEOREM IndexConsistency == Spec => []IndexesAgree
<1>1. StoreInv => IndexesAgree
  BY DEF StoreInv, StoreOK, BucketOK, IndexesAgree
<1> QED
  BY <1>1, StoreInvariant, PTL

\* NewAccount and NewRawAccount never reach the imported account.
THEOREM ImportedAccountSafe == Spec => []ImportedRowIntact
<1>1. StoreInv => ImportedRowIntact
  BY DEF StoreInv, StoreOK, BucketOK, ImportedRowIntact
<1> QED
  BY <1>1, StoreInvariant, PTL

\* Update never commits a scope that NewScopedKeyManager left half made.
THEOREM ScopesCommitWhole == Spec => []CommittedScopesComplete
<1>1. StoreInv => CommittedScopesComplete
  BY DEF StoreInv, StoreComplete, CompleteIn, CommittedScopesComplete
<1> QED
  BY <1>1, StoreInvariant, PTL

\* A running Manager has a ScopedKeyManager for every committed scope.
THEOREM ScopesManaged == Spec => []CommittedScopesManaged
<1>1. StoreInv => CommittedScopesManaged
  BY DEF StoreInv, CommittedScopesManaged, forEachKeyScope
<1> QED
  BY <1>1, StoreInvariant, PTL

\* No step of the system makes a committed name lead to another account.
THEOREM NamesStable == Spec => NameKeepsItsAccount
<1> DEFINE Keeps == \A s \in Scopes, n \in Names :
                       disk.scope[s].nameIdx[n] # NoAccount =>
                           disk'.scope[s].nameIdx[n] = disk.scope[s].nameIdx[n]
<1>1. MemInv /\ StoreInv /\ [Next]_vars => [Keeps]_vars
  <2> SUFFICES ASSUME StoreInv, Next
               PROVE  Keeps
    OBVIOUS
  <2>1. CASE BeginUpdate \/ Commit \/ Rollback \/ Crash
    BY <2>1 DEF BeginUpdate, Commit, Rollback, Crash, TxGone, StoreInv, NamesKept
  <2>2. CASE \/ \E watch, emptyPass \in BOOLEAN : Create(watch, emptyPass)
             \/ \E goodPass \in BOOLEAN : Open(goodPass)
             \/ Lock \/ UnlockWrongPassphrase \/ UnlockNothingToDo
             \/ Unlock \/ UnlockFails
    <3>1. UNCHANGED disk
      BY <2>2 DEF Create, Open, Lock, UnlockWrongPassphrase, UnlockNothingToDo,
                  Unlock, UnlockFails, Returns, ReturnsInTx, dbVars
    <3> QED BY <3>1
  <2>3. ASSUME NEW s \in Scopes,
               \/ NewScopedKeyManager(s)
               \/ NewAccountRefused(s)
               \/ \E name \in UserNames : NewAccount(s, name)
               \/ \E number \in Account : NewRawAccount(s, number)
        PROVE  Keeps
    <3>1. UNCHANGED disk
      BY <2>3 DEF NewScopedKeyManager, NewAccountRefused, NewAccount, NewRawAccount,
                  newAccount, ReturnsInTx
    <3> QED BY <3>1
  <2>4. ASSUME NEW s \in Scopes,
               \/ \E a \in Account, internal \in BOOLEAN, store \in Readable :
                     DeriveFromKeyPath(s, a, internal, store)
               \/ \E a \in Account, store \in Readable : AccountProperties(s, a, store)
               \/ \E a \in Account, n \in 0 .. (MaxAddressesPerAccount + 1) :
                     NextAddresses(s, a, n)
               \/ ScopedClose(s)
        PROVE  Keeps
    <3>1. UNCHANGED disk
      BY <2>4 DEF DeriveFromKeyPath, AccountProperties, NextAddresses, ScopedClose,
                  Panic, TxGone, Returns, ReturnsInTx, dbVars
    <3> QED BY <3>1
  <2> QED BY <2>1, <2>2, <2>3, <2>4 DEF Next
<1> QED
  BY <1>1, StoreInvariant, PTL DEF Spec, NameKeepsItsAccount

-----------------------------------------------------------------------------
(* The registry of names.                                                  *)

\* The names of one namespace are those of another, or more.
NamesGrow(st, st2) ==
    \A s \in Scopes, n \in Names :
        st.scope[s].nameIdx[n] # NoAccount =>
            st2.scope[s].nameIdx[n] = st.scope[s].nameIdx[n]

\* A well-formed namespace is seen as a registry.
LEMMA NamesInType ==
    ASSUME NEW st \in Store
    PROVE  NamesIn(st) \in [Scopes -> [Names -> Account \cup {NoAccount}]]
BY DEF NamesIn, Store, ScopeBucket

\* Steps that leave the names and the transaction alone stutter.
LEMMA NamesStutter ==
    UNCHANGED <<disk, work, txOpen, txErr>> => UNCHANGED NR!vars
BY DEF NR!vars, NamesIn

\* The end of the transaction without a commit: the writes of newAccount and
\* NewScopedKeyManager are gone, and with them the error.
LEMMA NamesTxGone == DbTypeOK /\ TxGone => [NR!Next]_NR!vars
<1> SUFFICES ASSUME DbTypeOK, TxGone
             PROVE  [NR!Next]_NR!vars
  OBVIOUS
<1>1. CASE txOpen
  BY <1>1 DEF TxGone, NR!Next, NR!Drop, NamesIn
<1>2. CASE ~txOpen
  <2>1. UNCHANGED <<disk, work, txOpen, txErr>>
    BY <1>2 DEF TxGone, DbTypeOK
  <2> QED BY <2>1, NamesStutter
<1> QED BY <1>1, <1>2

\* A writing call that only adds names is a call of the registry.
LEMMA NamesInTx ==
    ASSUME txOpen, ~txErr, NEW o, NEW st, ReturnsInTx(o, st),
           work' \in Store, NamesGrow(work, st)
    PROVE  NR!Call
<1>1. NamesIn(work)' \in NR!Registry
  BY NamesInType DEF NR!Registry, NamesIn, Store, ScopeBucket
<1>2. \A s \in Scopes, n \in Names :
         NamesIn(work)[s][n] # NoAccount => NamesIn(work)'[s][n] = NamesIn(work)[s][n]
  BY DEF NamesIn, NamesGrow, ReturnsInTx
<1>3. txErr' \in BOOLEAN /\ UNCHANGED <<disk, txOpen>> /\ UNCHANGED NamesIn(disk)
  BY DEF ReturnsInTx, NamesIn
<1> QED
  BY <1>1, <1>2, <1>3 DEF NR!Call

\* A bucket that was not made holds no name, so filling it adds names only.
LEMMA NamesReplace ==
    ASSUME NEW st \in Store, StoreOK(st), NEW s \in Scopes, NEW b,
           \/ ~st.scope[s].made
           \/ \A n \in Names : st.scope[s].nameIdx[n] # NoAccount =>
                 b.nameIdx[n] = st.scope[s].nameIdx[n]
    PROVE  NamesGrow(st, [st EXCEPT !.scope[s] = b])
<1> DEFINE st2 == [st EXCEPT !.scope[s] = b]
<1>1. \A r \in Scopes : st2.scope[r] = IF r = s THEN b ELSE st.scope[r]
  BY DEF Store
<1>2. ~st.scope[s].made => \A n \in Names : st.scope[s].nameIdx[n] = NoAccount
  BY EmptyBucketsOK DEF StoreOK, BucketOK
<1> HIDE DEF st2
<1>3. NamesGrow(st, st2)
  BY <1>1, <1>2 DEF NamesGrow
<1> QED BY <1>3 DEF st2

\* newAccount adds one name, or none: the duplicate check comes first.
LEMMA NamesNewAccount ==
    ASSUME TypeOK, StoreInv, txOpen, ~txErr, work' \in Store,
           NEW s \in Scopes, NEW a \in Account, NEW n \in Names, newAccount(s, a, n)
    PROVE  NR!Call
<1> DEFINE b == work.scope[s]
           o == newAccountOutcome(b, a, n)
           c == putLastAccount(putAccountInfo(b, a, n, TRUE), a)
           st == IF o = "ok" THEN [work EXCEPT !.scope[s] = c] ELSE work
<1>1. ReturnsInTx(o, st)
  BY DEF newAccount
<1>2. work \in Store /\ b \in ScopeBucket /\ BucketOK(b) /\ StoreOK(work)
  BY StoreUpdateType, NoScopeType DEF TypeOK, DbTypeOK, StoreInv, StoreOK
<1>3. o = "ok" => \A m \in Names : b.nameIdx[m] # NoAccount => c.nameIdx[m] = b.nameIdx[m]
  BY <1>2, NewAccountBucket
<1> HIDE DEF c, o
<1>4. NamesGrow(work, st)
  <2>1. CASE o = "ok"
    BY <1>2, <1>3, <2>1, NamesReplace
  <2>2. CASE o # "ok"
    BY <2>2 DEF NamesGrow
  <2> QED BY <2>1, <2>2
<1> HIDE DEF st
<1> QED BY <1>1, <1>4, NamesInTx

\* Every step of the address manager is a step of the registry.
LEMMA NextNames == MemInv /\ StoreInv /\ TypeOK' /\ [Next]_vars => [NR!Next]_NR!vars
<1> SUFFICES ASSUME MemInv, StoreInv, TypeOK', [Next]_vars
             PROVE  [NR!Next]_NR!vars
  OBVIOUS
<1>t. /\ TypeOK /\ DbTypeOK /\ WatchDbInv /\ WatchMemInv
      /\ work \in Store /\ work' \in Store /\ StoreOK(work)
  BY DEF MemInv, TypeOK, DbTypeOK, StoreInv
<1>c. NR!Call => NR!Next
  BY DEF NR!Next
<1>s. ASSUME NEW o, txOpen, ~txErr, ReturnsInTx(o, work)
      PROVE  NR!Call
  BY <1>s, <1>t, NamesInTx DEF NamesGrow
<1>p. Panic => [NR!Next]_NR!vars
  BY <1>t, NamesTxGone DEF Panic
<1>1. CASE BeginUpdate
  <2>1. /\ UNCHANGED <<disk, work, txErr>>
        /\ ~txOpen /\ txOpen' = TRUE
    BY <1>t, <1>1 DEF BeginUpdate, DbTypeOK
  <2> QED BY <2>1 DEF NR!Next, NR!Begin, NamesIn
<1>2. CASE Commit
  <2>1. /\ txOpen /\ ~txErr /\ txOpen' = FALSE
        /\ disk' = work /\ UNCHANGED <<work, txErr>>
    BY <1>t, <1>2 DEF Commit, DbTypeOK
  <2> QED BY <2>1 DEF NR!Next, NR!Commit, NamesIn
<1>3. CASE Rollback \/ Crash
  BY <1>3, <1>t, NamesTxGone DEF Rollback, Crash
<1>4. ASSUME NEW watch \in BOOLEAN, NEW emptyPass \in BOOLEAN, Create(watch, emptyPass)
      PROVE  NR!Call
  <2>1. txOpen /\ ~txErr
    BY <1>4 DEF Create
  <2>2. CASE ReturnsInTx("ErrAlreadyExists", work) \/ ReturnsInTx("ErrEmptyPassphrase", work)
    BY <1>s, <2>1, <2>2
  <2>3. CASE ~work.exists /\ ReturnsInTx("ok", createManagerNS(watch))
    <3>1. \A s \in Scopes : work.scope[s] = NoScope
      BY <1>t, <2>3 DEF StoreOK, BucketOK
    <3>2. NamesGrow(work, createManagerNS(watch))
      BY <3>1, EmptyBucketsOK DEF NamesGrow
    <3> QED BY <1>t, <2>1, <2>3, <3>2, NamesInTx
  <2> QED BY <1>4, <2>2, <2>3 DEF Create
<1>5. ASSUME NEW goodPass \in BOOLEAN, Open(goodPass)
      PROVE  UNCHANGED NR!vars
  BY <1>5, NamesStutter DEF Open, dbVars
<1>6. CASE Lock \/ UnlockWrongPassphrase \/ UnlockNothingToDo \/ Unlock \/ UnlockFails
  BY <1>6, NamesStutter DEF Lock, UnlockWrongPassphrase, UnlockNothingToDo, Unlock,
                            UnlockFails, Returns, dbVars
<1>7. ASSUME NEW s \in Scopes, NewScopedKeyManager(s)
      PROVE  NR!Call
  <2> DEFINE b == IF watchingOnly THEN createScopedManagerNS
                  ELSE createManagerKeyScope(createScopedManagerNS)
  <2>1. txOpen /\ ~txErr
    BY <1>7 DEF NewScopedKeyManager
  <2>2. CASE ReturnsInTx("ErrLocked", work) \/ ReturnsInTx("ErrDatabase", work)
    BY <1>s, <2>1, <2>2
  <2>3. ASSUME NEW o, NEW c, ~work.scope[s].made,
               ReturnsInTx(o, [work EXCEPT !.scope[s] = c])
        PROVE  NR!Call
    BY <1>t, <2>1, <2>3, NamesReplace, NamesInTx
  <2>4. \/ ReturnsInTx("ErrLocked", work) \/ ReturnsInTx("ErrDatabase", work)
        \/ /\ ~work.scope[s].made
           /\ ReturnsInTx("ErrKeyChain", [work EXCEPT !.scope[s] = createScopedManagerNS])
        \/ /\ ~work.scope[s].made
           /\ ReturnsInTx("ok", [work EXCEPT !.scope[s] = b])
    BY <1>7 DEF NewScopedKeyManager
  <2> HIDE DEF b
  <2> QED BY <2>2, <2>3, <2>4
<1>8. ASSUME NEW s \in Scopes, NewAccountRefused(s)
      PROVE  NR!Call
  BY <1>8, <1>s DEF NewAccountRefused
<1>9. ASSUME NEW s \in Scopes, NEW name \in UserNames, NewAccount(s, name)
      PROVE  NR!Call
  <2> DEFINE a == (fetchLastAccount(work.scope[s]) + 1) % Uint32Size
  <2>1. a \in Account /\ name \in Names
    BY <1>t, NextNumberType, StoreUpdateType, NoScopeType, NamesAssumption
  <2>2. /\ newAccount(s, a, name) \/ ReturnsInTx("ErrScopeNotFound", work)
        /\ txOpen /\ ~txErr
    BY <1>9 DEF NewAccount
  <2> HIDE DEF a
  <2> QED BY <1>t, <1>s, <2>1, <2>2, NamesNewAccount
<1>10. ASSUME NEW s \in Scopes, NEW number \in Account, NewRawAccount(s, number)
       PROVE  NR!Call
  <2>1. /\ ActName[number] \in Names /\ newAccount(s, number, ActName[number])
        /\ txOpen /\ ~txErr
    BY <1>10, NamesAssumption DEF NewRawAccount
  <2> QED BY <1>t, <2>1, NamesNewAccount
<1>11. ASSUME NEW s \in Scopes, NEW a \in Account, NEW internal \in BOOLEAN,
              NEW store \in Readable,
              DeriveFromKeyPath(s, a, internal, store) \/ AccountProperties(s, a, store)
       PROVE  [NR!Next]_NR!vars
  <2>1. Panic \/ UNCHANGED <<disk, work, txOpen, txErr>>
    BY <1>11 DEF DeriveFromKeyPath, AccountProperties, Returns, dbVars
  <2> QED BY <1>p, <2>1, NamesStutter
<1>12. ASSUME NEW s \in Scopes, NEW a \in Account,
              NEW n \in 0 .. (MaxAddressesPerAccount + 1), NextAddresses(s, a, n)
       PROVE  [NR!Next]_NR!vars
  <2>1. /\ txOpen /\ ~txErr
        /\ \/ Panic
           \/ \E o : ReturnsInTx(o, work)
           \/ UNCHANGED <<disk, work, txOpen, txErr>>
    BY <1>12 DEF NextAddresses
  <2> QED BY <1>c, <1>p, <1>s, <2>1, NamesStutter
<1>13. ASSUME NEW s \in Scopes, ScopedClose(s)
       PROVE  [NR!Next]_NR!vars
  <2>1. Panic \/ UNCHANGED <<disk, work, txOpen, txErr>>
    BY <1>13 DEF ScopedClose, Returns, dbVars
  <2> QED BY <1>p, <2>1, NamesStutter
<1>14. CASE UNCHANGED vars
  BY <1>14, NamesStutter DEF vars, dbVars
<1> QED
  BY <1>c, <1>1, <1>2, <1>3, <1>4, <1>5, <1>6, <1>7, <1>8, <1>9, <1>10, <1>11, <1>12,
     <1>13, <1>14 DEF Next

\* Before Create there is no name, in the file or in a transaction.
LEMMA InitNames == Init => NR!Init
BY DEF Init, EmptyStore, NoScope, NR!Init, NamesIn

\* The account names of waddrmgr are a transactional registry: through calls
\* that fail, rollbacks, panics and crashes no name in use is overwritten, a
\* transaction takes effect whole or not at all, and one in which newAccount
\* or NewScopedKeyManager failed is never committed.
THEOREM NamesImplementRegistry == Spec => ImplementsNameRegistry
<1>1. MemInv /\ StoreInv /\ (MemInv /\ StoreInv)' /\ [Next]_vars => [NR!Next]_NR!vars
  BY NextNames DEF MemInv
<1> QED
  BY <1>1, InitNames, StoreInvariant, PTL DEF Spec, ImplementsNameRegistry, NR!Spec
=============================================================================
