-------------------------- MODULE PassphraseProofs --------------------------
(***************************************************************************)
(* The keys of a manager follow its passphrases: proofs for every set of   *)
(* passphrases, salts and root keys.                                       *)
(***************************************************************************)
EXTENDS Passphrase, TLAPS

-----------------------------------------------------------------------------
(* snacl.                                                                  *)

\* What a SecretKey's stored parameters give back: everything but the key.
LEMMA MarshalRoundTrip ==
    ASSUME NEW q, NEW salt, NEW cost \in ScryptOptions
    PROVE  LET b == Marshal(NewSecretKey(q, salt, cost))
           IN  /\ Unmarshals(b) /\ b # <<>>
               /\ Unmarshal(b) = [key |-> ZeroKey, salt |-> salt,
                                  digest |-> Sum256(scrypt(q, salt, cost)), cost |-> cost]
<1> DEFINE d == Sum256(scrypt(q, salt, cost))
           b == Marshal(NewSecretKey(q, salt, cost))
<1>1. b = <<salt, d, cost[1], cost[2], cost[3]>>
  BY DEF Marshal, NewSecretKey
<1>2. cost = <<cost[1], cost[2], cost[3]>>
  BY DEF ScryptOptions
<1> HIDE DEF d, b
<1>3. Unmarshals(b) /\ b # <<>>
  BY <1>1 DEF Unmarshals
<1>4. Unmarshal(b) = [key |-> ZeroKey, salt |-> salt, digest |-> d, cost |-> cost]
  BY <1>1, <1>2 DEF Unmarshal
<1> QED BY <1>3, <1>4 DEF b, d

\* DeriveKey accepts the passphrase the key was made from, and no other.
LEMMA DigestIsOfPassphrase ==
    ASSUME NEW q, NEW salt, NEW cost \in ScryptOptions, NEW p
    PROVE  LET b == Marshal(NewSecretKey(q, salt, cost))
           IN  /\ DigestMatches(deriveKey(Unmarshal(b), p)) <=> p = q
               /\ deriveKey(Unmarshal(b), p).key = scrypt(p, salt, cost)
               /\ deriveKey(Unmarshal(b), p).key # ZeroKey
               /\ [deriveKey(Unmarshal(b), p) EXCEPT !.key = ZeroKey] = Unmarshal(b)
               /\ \A r : deriveKey(deriveKey(Unmarshal(b), p), r) = deriveKey(Unmarshal(b), r)
<1> DEFINE b == Marshal(NewSecretKey(q, salt, cost))
<1>1. Unmarshal(b) = [key |-> ZeroKey, salt |-> salt,
                      digest |-> Sum256(scrypt(q, salt, cost)), cost |-> cost]
  BY MarshalRoundTrip
<1> HIDE DEF b
<1>2. \A r : deriveKey(Unmarshal(b), r)
               = [key |-> scrypt(r, salt, cost), salt |-> salt,
                  digest |-> Sum256(scrypt(q, salt, cost)), cost |-> cost]
  BY <1>1 DEF deriveKey
<1>3. DigestMatches(deriveKey(Unmarshal(b), p)) <=> p = q
  BY <1>2 DEF DigestMatches, Sum256, scrypt
<1>4. scrypt(p, salt, cost) # ZeroKey
  BY DEF scrypt, ZeroKey
<1>5. \A r : deriveKey(deriveKey(Unmarshal(b), p), r) = deriveKey(Unmarshal(b), r)
  BY <1>2 DEF deriveKey
<1>6. [deriveKey(Unmarshal(b), p) EXCEPT !.key = ZeroKey] = Unmarshal(b)
  <2> DEFINE sk == deriveKey(Unmarshal(b), p)
  <2>1. sk = [key |-> scrypt(p, salt, cost), salt |-> salt,
              digest |-> Sum256(scrypt(q, salt, cost)), cost |-> cost]
    BY <1>2
  <2> HIDE DEF sk
  <2>2. [sk EXCEPT !.key = ZeroKey] = Unmarshal(b)
    BY <1>1, <2>1
  <2> QED BY <2>2 DEF sk
<1> QED
  BY <1>2, <1>3, <1>4, <1>5, <1>6 DEF b

\* The passphrase of a stored SecretKey is the one it was made from.
LEMMA PassphraseOfKey ==
    ASSUME NEW q \in Passphrases, NEW salt, NEW cost \in ScryptOptions
    PROVE  PassphraseOf(Marshal(NewSecretKey(q, salt, cost))) = q
<1> DEFINE b == Marshal(NewSecretKey(q, salt, cost))
<1>1. \A p : DigestMatches(deriveKey(Unmarshal(b), p)) <=> p = q
  BY DigestIsOfPassphrase
<1> HIDE DEF b
<1>2. PassphraseOf(b) = q
  BY <1>1 DEF PassphraseOf
<1> QED BY <1>2 DEF b

\* What was sealed is opened by the key it was sealed with.
LEMMA SealedOpens ==
    ASSUME NEW k, NEW v
    PROVE  /\ Encrypt(k, v) # <<>>
           /\ Decrypts(k, Encrypt(k, v))
           /\ Decrypted(Encrypt(k, v)) = v
BY DEF Encrypt, Decrypts, Decrypted

-----------------------------------------------------------------------------
(* The bucket.                                                             *)

\* What Create writes, value by value.
LEMMA StoredValues ==
    ASSUME NEW root, NEW mpub, NEW mpriv
    PROVE  LET st == Stored(root, mpub, mpriv)
           IN  /\ DOMAIN st = BucketNames
               /\ st["mpub"] = Marshal(mpub)
               /\ st["cpub"] = Encrypt(mpub.key, <<"cryptoKeyPub">>)
               /\ st["watchonly"] = <<root = NoRoot>>
               /\ root = NoRoot => st["mpriv"] = <<>> /\ st["cpriv"] = <<>> /\ st["mhdpriv"] = <<>>
               /\ root # NoRoot => /\ st["mpriv"] = Marshal(mpriv)
                                   /\ st["cpriv"] = Encrypt(mpriv.key, <<"cryptoKeyPriv">>)
                                   /\ st["mhdpriv"] = Encrypt(<<"cryptoKeyPriv">>, root)
BY DEF Stored, BucketNames

\* An absent bucket has no value.
LEMMA NoBucketValues ==
    /\ DOMAIN NoBucket = BucketNames
    /\ NoBucket["watchonly"] = <<>> /\ NoBucket["mpriv"] = <<>>
    /\ NoBucket["mpub"] = <<>> /\ NoBucket["mhdpriv"] = <<>>
BY DEF NoBucket, BucketNames

\* What Open, Unlock and NewScopedKeyManager find in the bucket of a manager
\* that exists: it opens with one public passphrase, and unless it is
\* watching-only its private keys open with one passphrase, not the empty one.
BucketReadable ==
    LET pub == PassphraseOf(ns["mpub"])
        priv == PassphraseOf(ns["mpriv"])
        sk == Unmarshal(ns["mpriv"])
    IN  /\ DOMAIN ns = BucketNames
        /\ ns["watchonly"][1] \in BOOLEAN
        /\ pub \in Passphrases
        /\ \A p \in Passphrases :
              OpenError(p) = IF p = pub THEN "nil" ELSE "ErrWrongPassphrase"
        /\ ns["watchonly"][1] => ns["mpriv"] = <<>> /\ ns["mhdpriv"] = <<>>
        /\ ~ns["watchonly"][1] =>
              /\ priv \in Passphrases /\ priv # Empty /\ ns["mpriv"] # <<>>
              /\ sk.key = ZeroKey
              /\ \A p : /\ DigestMatches(deriveKey(sk, p)) <=> p = priv
                        /\ deriveKey(sk, p).key # ZeroKey
                        /\ [deriveKey(sk, p) EXCEPT !.key = ZeroKey] = sk
                        /\ \A r : deriveKey(deriveKey(sk, p), r) = deriveKey(sk, r)
              /\ Decrypts(deriveKey(sk, priv).key, ns["cpriv"])
              /\ Decrypted(ns["cpriv"]) = <<"cryptoKeyPriv">>
              /\ ns["mhdpriv"] # <<>>
              /\ Decrypts(<<"cryptoKeyPriv">>, ns["mhdpriv"])
              /\ Decrypted(ns["mhdpriv"]) \in Roots

\* A bucket that Create wrote is readable.
LEMMA WholeIsReadable == BucketWhole /\ managerExists => BucketReadable
<1> SUFFICES ASSUME BucketWhole, managerExists
             PROVE  BucketReadable
  OBVIOUS
<1>1. PICK pub \in Passphrases, priv \in Passphrases, root \in Roots \union {NoRoot},
           cost \in ScryptOptions, s1 \in Salts, s2 \in Salts :
         /\ root = NoRoot \/ priv # Empty
         /\ ns = Stored(root, NewSecretKey(pub, s1, cost), NewSecretKey(priv, s2, cost))
  BY NoBucketValues DEF BucketWhole, managerExists
<1> DEFINE mpub == NewSecretKey(pub, s1, cost)
           mpriv == NewSecretKey(priv, s2, cost)
<1>2. /\ DOMAIN ns = BucketNames
      /\ ns["mpub"] = Marshal(mpub)
      /\ ns["cpub"] = Encrypt(mpub.key, <<"cryptoKeyPub">>)
      /\ ns["watchonly"] = <<root = NoRoot>>
      /\ root = NoRoot => ns["mpriv"] = <<>> /\ ns["cpriv"] = <<>> /\ ns["mhdpriv"] = <<>>
      /\ root # NoRoot => /\ ns["mpriv"] = Marshal(mpriv)
                          /\ ns["cpriv"] = Encrypt(mpriv.key, <<"cryptoKeyPriv">>)
                          /\ ns["mhdpriv"] = Encrypt(<<"cryptoKeyPriv">>, root)
  BY <1>1, StoredValues
<1>3. mpub.key = scrypt(pub, s1, cost) /\ mpriv.key = scrypt(priv, s2, cost)
  BY DEF NewSecretKey
<1>4. /\ ns["watchonly"][1] \in BOOLEAN
      /\ ns["watchonly"][1] <=> root = NoRoot
  <2>1. \A w \in BOOLEAN : <<w>>[1] = w
    OBVIOUS
  <2> DEFINE w == root = NoRoot
  <2>2. w \in BOOLEAN /\ ns["watchonly"] = <<w>>
    BY <1>2
  <2> HIDE DEF w
  <2>3. ns["watchonly"][1] = w
    BY <2>1, <2>2
  <2> QED BY <2>2, <2>3 DEF w
<1>5. PassphraseOf(ns["mpub"]) = pub
  BY <1>2, PassphraseOfKey
<1>6. ASSUME NEW p \in Passphrases
      PROVE  OpenError(p) = IF p = pub THEN "nil" ELSE "ErrWrongPassphrase"
  <2> DEFINE sk == deriveKey(Unmarshal(ns["mpub"]), p)
  <2>1. DigestMatches(sk) <=> p = pub
    BY <1>2, DigestIsOfPassphrase
  <2>2. sk.key = scrypt(p, s1, cost)
    BY <1>2, DigestIsOfPassphrase
  <2>3. Unmarshals(ns["mpub"])
    BY <1>2, MarshalRoundTrip
  <2>4. ~ns["watchonly"][1] => Unmarshals(ns["mpriv"])
    BY <1>2, <1>4, MarshalRoundTrip
  <2>5. p = pub => Decrypts(sk.key, ns["cpub"])
    BY <1>2, <1>3, <2>2, SealedOpens
  <2> HIDE DEF sk
  <2>6. OpenError(p) = IF ~DigestMatches(sk) THEN "ErrWrongPassphrase"
                       ELSE IF ~Decrypts(sk.key, ns["cpub"]) THEN "ErrCrypto" ELSE "nil"
    BY <2>3, <2>4 DEF OpenError, sk
  <2> QED BY <2>1, <2>5, <2>6
<1>7. CASE root = NoRoot
  BY <1>2, <1>4, <1>5, <1>6, <1>7 DEF BucketReadable
<1>8. CASE root # NoRoot
  <2> DEFINE sk == Unmarshal(ns["mpriv"])
  <2>1. priv # Empty /\ root \in Roots
    BY <1>1, <1>8
  <2>2. PassphraseOf(ns["mpriv"]) = priv /\ ns["mpriv"] # <<>> /\ sk.key = ZeroKey
    BY <1>2, <1>8, PassphraseOfKey, MarshalRoundTrip
  <2>3. \A p : /\ DigestMatches(deriveKey(sk, p)) <=> p = priv
              /\ deriveKey(sk, p).key = scrypt(p, s2, cost)
              /\ deriveKey(sk, p).key # ZeroKey
              /\ [deriveKey(sk, p) EXCEPT !.key = ZeroKey] = sk
              /\ \A r : deriveKey(deriveKey(sk, p), r) = deriveKey(sk, r)
    BY <1>2, <1>8, DigestIsOfPassphrase
  <2> HIDE DEF sk
  <2>4. /\ Decrypts(deriveKey(sk, priv).key, ns["cpriv"])
        /\ Decrypted(ns["cpriv"]) = <<"cryptoKeyPriv">>
    BY <1>2, <1>3, <1>8, <2>3, SealedOpens
  <2>5. /\ ns["mhdpriv"] # <<>>
        /\ Decrypts(<<"cryptoKeyPriv">>, ns["mhdpriv"])
        /\ Decrypted(ns["mhdpriv"]) = root
    BY <1>2, <1>8, SealedOpens
  <2> QED
    BY <1>2, <1>4, <1>5, <1>6, <1>8, <2>1, <2>2, <2>3, <2>4, <2>5 DEF BucketReadable, sk
<1> QED BY <1>7, <1>8

-----------------------------------------------------------------------------
(* Steps.                                                                  *)

\* A Manager that is open has a readable bucket.
LEMMA OpenedIsReadable == PassphraseInv /\ opened => BucketReadable
BY WholeIsReadable DEF PassphraseInv, MemoryFollowsBucket

\* Zeroing the key of a Manager leaves the parameters of the bucket, whether
\* it was unlocked or a refused DeriveKey had put a key in place.
LEMMA LockedParameters ==
    ASSUME PassphraseInv, opened, ~watchingOnly
    PROVE  [masterKeyPriv EXCEPT !.key = ZeroKey] = Unmarshal(ns["mpriv"])
<1> DEFINE sk == Unmarshal(ns["mpriv"])
<1>1. ~ns["watchonly"][1]
  BY DEF PassphraseInv, MemoryFollowsBucket
<1>2. \A p : [deriveKey(sk, p) EXCEPT !.key = ZeroKey] = sk
  BY <1>1, OpenedIsReadable DEF BucketReadable
<1>3. masterKeyPriv = sk \/ \E p : masterKeyPriv = deriveKey(sk, p)
  BY DEF PassphraseInv, MemoryFollowsBucket
<1>4. [sk EXCEPT !.key = ZeroKey] = sk
  BY DEF Unmarshal
<1> QED BY <1>2, <1>3, <1>4

\* Unlock, whether the Manager was locked or not: the passphrase of the bucket
\* leaves it unlocked with its keys, any other leaves it locked and zeroed.
LEMMA UnlockStep ==
    ASSUME PassphraseInv, NEW pass \in Passphrases,
           UnlockedCheck(pass) \/ UnlockLocked(pass)
    PROVE  LET priv == PassphraseOf(ns["mpriv"])
               sk == Unmarshal(ns["mpriv"])
           IN  /\ opened /\ ~watchingOnly
               /\ UNCHANGED <<ns, opened, watchingOnly, cryptoKeyPrivEncrypted>>
               /\ pass = priv => /\ locked' = FALSE
                                 /\ masterKeyPriv' = deriveKey(sk, priv)
                                 /\ cryptoKeyPriv' = <<"cryptoKeyPriv">>
                                 /\ privPassphraseSalt' = privPassphraseSalt
                                 /\ hashedPrivPassphrase' = Sum512(privPassphraseSalt, priv)
               /\ pass # priv => /\ locked' = TRUE
                                 /\ masterKeyPriv' = sk
                                 /\ cryptoKeyPriv' = ZeroKey
                                 /\ privPassphraseSalt' \in {privPassphraseSalt, ZeroSalt}
                                 /\ hashedPrivPassphrase' = ZeroHash
               /\ Returns("Unlock", pass, IF pass = priv THEN "nil" ELSE "ErrWrongPassphrase")
<1> DEFINE priv == PassphraseOf(ns["mpriv"])
           sk == Unmarshal(ns["mpriv"])
<1>1. opened /\ ~watchingOnly /\ UNCHANGED <<ns, opened, watchingOnly, cryptoKeyPrivEncrypted>>
  BY DEF UnlockedCheck, UnlockLocked
<1>2. /\ ~ns["watchonly"][1] /\ cryptoKeyPrivEncrypted = ns["cpriv"]
      /\ locked => masterKeyPriv = sk
      /\ ~locked => /\ masterKeyPriv = deriveKey(sk, priv)
                    /\ cryptoKeyPriv = <<"cryptoKeyPriv">>
                    /\ hashedPrivPassphrase = Sum512(privPassphraseSalt, priv)
  BY <1>1 DEF PassphraseInv, MemoryFollowsBucket
<1>3. /\ priv # Empty
      /\ \A p : DigestMatches(deriveKey(sk, p)) <=> p = priv
      /\ Decrypts(deriveKey(sk, priv).key, ns["cpriv"])
      /\ Decrypted(ns["cpriv"]) = <<"cryptoKeyPriv">>
  BY <1>1, <1>2, OpenedIsReadable DEF BucketReadable
<1>4. lock => /\ locked' = TRUE /\ masterKeyPriv' = sk
              /\ cryptoKeyPriv' = ZeroKey /\ hashedPrivPassphrase' = ZeroHash
  BY <1>1, LockedParameters DEF lock
<1>5. SaltAfterWipe(pass) \in {privPassphraseSalt, ZeroSalt}
      /\ (pass # Empty => SaltAfterWipe(pass) = privPassphraseSalt)
  BY DEF SaltAfterWipe
<1>6. CASE UnlockLocked(pass)
  <2> DEFINE dk == deriveKey(masterKeyPriv, pass)
  <2>1. dk = deriveKey(sk, pass)
    BY <1>2, <1>6 DEF UnlockLocked
  <2>2. UnlockError(dk) = IF pass = priv THEN "nil" ELSE "ErrWrongPassphrase"
    BY <1>2, <1>3, <2>1 DEF UnlockError
  <2>3. Returns("Unlock", pass, UnlockError(dk))
    BY <1>6 DEF UnlockLocked
  <2>4. CASE pass = priv
    <3>1. /\ masterKeyPriv' = dk /\ locked' = FALSE
          /\ cryptoKeyPriv' = Decrypted(cryptoKeyPrivEncrypted)
          /\ hashedPrivPassphrase' = Sum512(privPassphraseSalt, pass)
          /\ privPassphraseSalt' = SaltAfterWipe(pass)
      BY <1>6, <2>2, <2>4 DEF UnlockLocked
    <3> QED BY <1>1, <1>2, <1>3, <1>5, <2>1, <2>2, <2>3, <2>4, <3>1
  <2>5. CASE pass # priv
    <3>1. lock /\ UNCHANGED privPassphraseSalt
      BY <1>6, <2>2, <2>5 DEF UnlockLocked
    <3> QED BY <1>1, <1>4, <2>2, <2>3, <2>5, <3>1
  <2> QED BY <2>4, <2>5
<1>7. CASE UnlockedCheck(pass)
  <2> DEFINE ok == Sum512(privPassphraseSalt, pass) = hashedPrivPassphrase
  <2>1. ~locked
    BY <1>7 DEF UnlockedCheck
  <2>2. ok <=> pass = priv
    BY <1>2, <2>1 DEF Sum512
  <2>3. /\ privPassphraseSalt' = SaltAfterWipe(pass)
        /\ Returns("Unlock", pass, IF ok THEN "nil" ELSE "ErrWrongPassphrase")
        /\ ok => UNCHANGED <<masterKeyPriv, cryptoKeyPriv, hashedPrivPassphrase, locked>>
        /\ ~ok => lock
    BY <1>7 DEF UnlockedCheck
  <2>4. locked \in BOOLEAN
    BY DEF PassphraseInv, MemoryFollowsBucket
  <2> HIDE DEF ok
  <2>5. CASE pass = priv
    BY <1>1, <1>2, <1>3, <1>5, <2>1, <2>2, <2>3, <2>4, <2>5
  <2>6. CASE pass # priv
    BY <1>1, <1>4, <1>5, <2>2, <2>3, <2>6
  <2> QED BY <2>5, <2>6
<1> QED BY <1>6, <1>7

\* The program starts without a bucket and without a Manager.
LEMMA InitPassphrase == Init => PassphraseInv
BY NoBucketValues
   DEF Init, PassphraseInv, BucketWhole, MemoryFollowsBucket, managerExists

\* Every step keeps the invariant.
LEMMA NextPassphrase == PassphraseInv /\ [Next]_vars => PassphraseInv'
<1> SUFFICES ASSUME PassphraseInv, [Next]_vars
             PROVE  PassphraseInv'
  OBVIOUS
<1>i. BucketWhole /\ MemoryFollowsBucket
  BY DEF PassphraseInv
<1>s. ASSUME ManagerUnchanged, UNCHANGED ns
      PROVE  PassphraseInv'
  BY <1>i, <1>s DEF ManagerUnchanged, keys, PassphraseInv, BucketWhole, MemoryFollowsBucket,
                    managerExists
<1>b. UNCHANGED ns => BucketWhole'
  BY <1>i DEF BucketWhole
<1>1. ASSUME NEW pub \in Passphrases, NEW priv \in Passphrases,
             NEW root \in Roots \union {NoRoot}, NEW cost \in ScryptOptions,
             NEW s1 \in Salts, NEW s2 \in Salts, Create(pub, priv, root, cost, s1, s2)
      PROVE  PassphraseInv'
  <2>1. ManagerUnchanged
    BY <1>1 DEF Create
  <2>2. CASE UNCHANGED ns
    BY <1>s, <2>1, <2>2
  <2>3. CASE /\ ~managerExists /\ (root = NoRoot \/ priv # Empty)
             /\ ns' = Stored(root, NewSecretKey(pub, s1, cost), NewSecretKey(priv, s2, cost))
    <3>1. BucketWhole'
      BY <2>3 DEF BucketWhole
    <3>2. ~opened /\ locked
      BY <1>i, <2>3 DEF MemoryFollowsBucket
    <3>3. MemoryFollowsBucket'
      BY <1>i, <2>1, <3>2 DEF MemoryFollowsBucket, ManagerUnchanged, keys
    <3> QED BY <3>1, <3>3 DEF PassphraseInv
  <2> QED BY <1>1, <2>2, <2>3 DEF Create
<1>2. ASSUME NEW pass \in Passphrases, NEW salt \in Salts, Open(pass, salt)
      PROVE  PassphraseInv'
  <2>1. ~opened /\ UNCHANGED ns
    BY <1>2 DEF Open
  <2>2. CASE OpenError(pass) # "nil"
    BY <1>2, <1>s, <2>1, <2>2 DEF Open
  <2>3. CASE OpenError(pass) = "nil"
    <3>1. managerExists /\ newManager(salt)
      BY <1>2, <2>3 DEF Open, OpenError
    <3>2. ns["watchonly"][1] \in BOOLEAN
      BY <1>i, <3>1, WholeIsReadable DEF BucketReadable
    <3>3. MemoryFollowsBucket'
      BY <1>i, <2>1, <3>1, <3>2 DEF MemoryFollowsBucket, newManager, managerExists
    <3> QED BY <1>b, <2>1, <3>3 DEF PassphraseInv
  <2> QED BY <2>2, <2>3
<1>3. ASSUME NEW pass \in Passphrases, UnlockedCheck(pass) \/ UnlockLocked(pass)
      PROVE  PassphraseInv'
  <2> DEFINE priv == PassphraseOf(ns["mpriv"])
             sk == Unmarshal(ns["mpriv"])
  <2>1. /\ opened /\ ~watchingOnly
        /\ UNCHANGED <<ns, opened, watchingOnly, cryptoKeyPrivEncrypted>>
        /\ pass = priv => /\ locked' = FALSE
                          /\ masterKeyPriv' = deriveKey(sk, priv)
                          /\ cryptoKeyPriv' = <<"cryptoKeyPriv">>
                          /\ privPassphraseSalt' = privPassphraseSalt
                          /\ hashedPrivPassphrase' = Sum512(privPassphraseSalt, priv)
        /\ pass # priv => /\ locked' = TRUE
                          /\ masterKeyPriv' = sk
                          /\ cryptoKeyPriv' = ZeroKey
                          /\ privPassphraseSalt' \in {privPassphraseSalt, ZeroSalt}
                          /\ hashedPrivPassphrase' = ZeroHash
    BY <1>3, UnlockStep
  <2>2. MemoryFollowsBucket'
    BY <1>i, <2>1 DEF MemoryFollowsBucket, managerExists
  <2> QED BY <1>b, <2>1, <2>2 DEF PassphraseInv
<1>4. ASSUME NEW op, NEW arg, WatchOnly(op, arg)
      PROVE  PassphraseInv'
  BY <1>4, <1>s DEF WatchOnly
<1>5. CASE Lock
  <2>1. CASE ManagerUnchanged /\ UNCHANGED ns
    BY <1>s, <2>1
  <2>2. CASE /\ opened /\ ~watchingOnly /\ ~locked /\ lock
             /\ UNCHANGED <<ns, opened, watchingOnly, cryptoKeyPrivEncrypted,
                            cryptoKeyPub, privPassphraseSalt>>
    <3>1. masterKeyPriv' = Unmarshal(ns["mpriv"])
      BY <2>2, LockedParameters DEF lock
    <3>2. MemoryFollowsBucket'
      BY <1>i, <2>2, <3>1 DEF MemoryFollowsBucket, managerExists, lock
    <3> QED BY <1>b, <2>2, <3>2 DEF PassphraseInv
  <2> QED BY <1>5, <2>1, <2>2 DEF Lock, WatchOnly
<1>6. CASE RootKey
  BY <1>6, <1>s DEF RootKey
<1>7. CASE Close
  <2>1. MemoryFollowsBucket'
    BY <1>7 DEF Close, MemoryFollowsBucket
  <2> QED BY <1>7, <1>b, <2>1 DEF PassphraseInv, Close
<1>8. CASE UNCHANGED vars
  BY <1>8, <1>s DEF vars, ManagerUnchanged
<1> QED
  BY <1>1, <1>2, <1>3, <1>4, <1>5, <1>6, <1>7, <1>8 DEF Next, Unlock

-----------------------------------------------------------------------------
(* Theorems.                                                               *)

\* The inductive invariant holds in every behaviour.
THEOREM PassphraseInvariant == Spec => []PassphraseInv
BY InitPassphrase, NextPassphrase, PTL DEF Spec

\* Keys, hash and lock flag agree, and every variable has its type: lock()
\* zeroes what a refused DeriveKey had put in place.
THEOREM PassphraseTypeCorrect == Spec => []PassphraseTypeOK
<1>1. PassphraseInv => PassphraseTypeOK
  <2> SUFFICES ASSUME PassphraseInv
               PROVE  PassphraseTypeOK
    OBVIOUS
  <2>1. DOMAIN ns = BucketNames
    BY NoBucketValues, StoredValues DEF PassphraseInv, BucketWhole
  <2>2. /\ opened \in BOOLEAN /\ locked \in BOOLEAN /\ watchingOnly \in BOOLEAN
        /\ privPassphraseSalt \in Salts \union {ZeroSalt}
    BY DEF PassphraseInv, MemoryFollowsBucket
  <2>3. CASE locked
    <3>1. cryptoKeyPriv = ZeroKey /\ hashedPrivPassphrase = ZeroHash
      BY <2>3 DEF PassphraseInv, MemoryFollowsBucket
    <3>2. masterKeyPriv \in {NoSecretKey, Unmarshal(ns["mpriv"])}
      BY <2>3 DEF PassphraseInv, MemoryFollowsBucket
    <3>3. masterKeyPriv.key = ZeroKey
      BY <3>2 DEF NoSecretKey, Unmarshal
    <3> QED BY <2>1, <2>2, <2>3, <3>1, <3>3 DEF PassphraseTypeOK
  <2>4. CASE ~locked
    <3>1. /\ opened /\ ~ns["watchonly"][1]
          /\ masterKeyPriv = deriveKey(Unmarshal(ns["mpriv"]), PassphraseOf(ns["mpriv"]))
          /\ cryptoKeyPriv = <<"cryptoKeyPriv">>
          /\ hashedPrivPassphrase = Sum512(privPassphraseSalt, PassphraseOf(ns["mpriv"]))
      BY <2>4 DEF PassphraseInv, MemoryFollowsBucket
    <3>2. masterKeyPriv.key # ZeroKey
      BY <3>1, OpenedIsReadable DEF BucketReadable
    <3>3. cryptoKeyPriv # ZeroKey /\ cryptoKeyPriv \in GeneratedKeys
      BY <3>1 DEF ZeroKey, GeneratedKeys
    <3>4. hashedPrivPassphrase # ZeroHash
      BY <3>1 DEF Sum512, ZeroHash
    <3> QED BY <2>1, <2>2, <2>4, <3>2, <3>3, <3>4 DEF PassphraseTypeOK
  <2> QED BY <2>3, <2>4
<1> QED BY <1>1, PassphraseInvariant, PTL

\* While the manager is unlocked, the hash that Unlock compares is that of the
\* passphrase the manager was created with, under the salt in memory.
THEOREM HashIsOfPassphrase == Spec => []HashFollowsPassphrase
<1>1. PassphraseInv => HashFollowsPassphrase
  <2> SUFFICES ASSUME PassphraseInv, ~locked
               PROVE  \E p \in Passphrases :
                         /\ hashedPrivPassphrase = Sum512(privPassphraseSalt, p)
                         /\ DigestMatches(deriveKey(masterKeyPriv, p))
    BY DEF HashFollowsPassphrase
  <2> DEFINE priv == PassphraseOf(ns["mpriv"])
             sk == Unmarshal(ns["mpriv"])
  <2>1. /\ opened /\ ~ns["watchonly"][1] /\ masterKeyPriv = deriveKey(sk, priv)
        /\ hashedPrivPassphrase = Sum512(privPassphraseSalt, priv)
    BY DEF PassphraseInv, MemoryFollowsBucket
  <2>2. /\ priv \in Passphrases
        /\ DigestMatches(deriveKey(sk, priv))
        /\ deriveKey(deriveKey(sk, priv), priv) = deriveKey(sk, priv)
    BY <2>1, OpenedIsReadable DEF BucketReadable
  <2> QED BY <2>1, <2>2
<1> QED BY <1>1, PassphraseInvariant, PTL

-----------------------------------------------------------------------------
(* The refinement.                                                         *)

\* Before Create the manager is in the initial state of LockState.
LEMMA InitLockState == Init => LS!Init
BY NoBucketValues DEF Init, LS!Init, managerExists

\* What LockState sees of a manager that exists.
LEMMA ExistsMaps ==
    ASSUME BucketReadable, managerExists
    PROVE  /\ ns["watchonly"][1] <=> ns["mhdpriv"] = <<>>
           /\ ns["mhdpriv"] # <<>> => Decrypted(ns["mhdpriv"]) # NoRoot
           /\ ns["mpriv"] = <<>> <=> ns["watchonly"][1]
BY PassphraseAssumption DEF BucketReadable

\* Every step of the manager is a step of LockState.
LEMMA NextLockState == PassphraseInv /\ [Next]_vars => [LS!Next]_LS!vars
<1> SUFFICES ASSUME PassphraseInv, [Next]_vars
             PROVE  [LS!Next]_LS!vars
  OBVIOUS
<1>i. BucketWhole /\ MemoryFollowsBucket
  BY DEF PassphraseInv
<1>r. managerExists => BucketReadable
  BY <1>i, WholeIsReadable
<1>o. opened => managerExists /\ watchingOnly = ns["watchonly"][1]
  BY <1>i DEF MemoryFollowsBucket
<1>n. ~managerExists => ns = NoBucket
  <2>1. \A root, mpub, mpriv : Stored(root, mpub, mpriv)["watchonly"] # <<>>
    BY StoredValues
  <2> QED BY <1>i, <2>1 DEF BucketWhole, managerExists
<1> DEFINE Public == IF managerExists THEN PassphraseOf(ns["mpub"]) ELSE Empty
           Private == IF ns["mpriv"] = <<>> THEN Empty ELSE PassphraseOf(ns["mpriv"])
           Root == IF ns["mhdpriv"] = <<>> THEN NoRoot ELSE Decrypted(ns["mhdpriv"])
           State == IF ~managerExists THEN "none"
                    ELSE IF ~opened THEN "closed"
                    ELSE IF locked THEN "locked" ELSE "unlocked"
<1>w. opened => (watchingOnly <=> Root = NoRoot)
  BY <1>o, <1>r, ExistsMaps
<1>u. UNCHANGED ns => UNCHANGED <<Public, Private, Root>> /\ managerExists' = managerExists
  BY DEF managerExists
<1>1. ASSUME NEW pub \in Passphrases, NEW priv \in Passphrases,
             NEW root \in Roots \union {NoRoot}, NEW cost \in ScryptOptions,
             NEW s1 \in Salts, NEW s2 \in Salts, Create(pub, priv, root, cost, s1, s2)
      PROVE  LS!Create(pub, priv, root)
  <2>1. ManagerUnchanged
    BY <1>1 DEF Create
  <2>2. CASE managerExists
    <3>1. UNCHANGED ns /\ Returns("Create", priv, "ErrAlreadyExists")
      BY <1>1, <2>2 DEF Create
    <3>2. UNCHANGED <<Public, Private, Root, State>> /\ State # "none"
      BY <1>u, <2>1, <2>2, <3>1 DEF ManagerUnchanged
    <3> QED BY <3>1, <3>2 DEF LS!Create, LS!Same, LS!Returns, Returns
  <2>3. CASE ~managerExists /\ root # NoRoot /\ priv = Empty
    <3>1. UNCHANGED ns /\ Returns("Create", priv, "ErrEmptyPassphrase")
      BY <1>1, <2>3 DEF Create
    <3>2. UNCHANGED <<Public, Private, Root, State>> /\ State = "none"
      BY <1>u, <2>1, <2>3, <3>1 DEF ManagerUnchanged
    <3> QED BY <2>3, <3>1, <3>2 DEF LS!Create, LS!Same, LS!Returns, Returns
  <2>4. CASE ~managerExists /\ (root = NoRoot \/ priv # Empty)
    <3> DEFINE mpub == NewSecretKey(pub, s1, cost)
               mpriv == NewSecretKey(priv, s2, cost)
    <3>1. ns' = Stored(root, mpub, mpriv) /\ Returns("Create", priv, "nil")
      BY <1>1, <2>4 DEF Create
    <3>2. /\ ns'["mpub"] = Marshal(mpub)
          /\ ns'["watchonly"] = <<root = NoRoot>>
          /\ root = NoRoot => ns'["mpriv"] = <<>> /\ ns'["mhdpriv"] = <<>>
          /\ root # NoRoot => /\ ns'["mpriv"] = Marshal(mpriv)
                              /\ ns'["mhdpriv"] = Encrypt(<<"cryptoKeyPriv">>, root)
      BY <3>1, StoredValues
    <3>3. PassphraseOf(Marshal(mpub)) = pub /\ PassphraseOf(Marshal(mpriv)) = priv
          /\ Marshal(mpriv) # <<>>
      BY PassphraseOfKey, MarshalRoundTrip
    <3> HIDE DEF mpub, mpriv
    <3>4. managerExists'
      BY <3>2 DEF managerExists
    <3>5. ~opened /\ ~opened'
      BY <1>o, <2>1, <2>4 DEF ManagerUnchanged
    <3>6. /\ Public' = pub /\ State = "none" /\ State' = "closed"
          /\ Private' = (IF root = NoRoot THEN Empty ELSE priv)
      BY <2>4, <3>2, <3>3, <3>4, <3>5
    <3>7. Root' = root
      BY <3>2, SealedOpens
    <3> QED BY <2>4, <3>1, <3>6, <3>7 DEF LS!Create, LS!Returns, Returns
  <2> QED BY <2>2, <2>3, <2>4
<1>2. ASSUME NEW pass \in Passphrases, NEW salt \in Salts, Open(pass, salt)
      PROVE  LS!Open(pass)
  <2>1. ~opened /\ UNCHANGED ns /\ Returns("Open", pass, OpenError(pass))
    BY <1>2 DEF Open
  <2>2. CASE ~managerExists
    <3>1. OpenError(pass) = "ErrNoExist"
      BY <2>2 DEF OpenError
    <3>2. ManagerUnchanged
      BY <1>2, <3>1 DEF Open
    <3>3. State = "none" /\ State' = "none"
      BY <1>u, <2>1, <2>2
    <3> QED BY <1>u, <2>1, <3>1, <3>3 DEF LS!Open, LS!Same, LS!Returns, Returns
  <2>3. CASE managerExists
    <3>1. /\ Public = PassphraseOf(ns["mpub"])
          /\ OpenError(pass) = IF pass = Public THEN "nil" ELSE "ErrWrongPassphrase"
      BY <1>r, <2>3 DEF BucketReadable
    <3>2. pass = Public => opened' = TRUE /\ locked' = TRUE
      BY <1>2, <3>1 DEF Open, newManager
    <3>3. pass # Public => ~opened'
      BY <1>2, <2>1, <3>1 DEF Open, ManagerUnchanged
    <3>4. State = "closed" /\ State' = IF pass = Public THEN "locked" ELSE "closed"
      BY <1>u, <2>1, <2>3, <3>2, <3>3
    <3> HIDE DEF Public
    <3>5. UNCHANGED <<Public, Private, Root>>
      BY <1>u, <2>1
    <3> QED BY <2>1, <3>1, <3>4, <3>5 DEF LS!Open, LS!Same, LS!Returns, Returns, Public
  <2> QED BY <2>2, <2>3
<1>3. ASSUME NEW pass \in Passphrases, UnlockedCheck(pass) \/ UnlockLocked(pass)
      PROVE  LS!Unlock(pass)
  <2> DEFINE priv == PassphraseOf(ns["mpriv"])
  <2>1. /\ opened /\ ~watchingOnly /\ UNCHANGED <<ns, opened>>
        /\ pass = priv => locked' = FALSE
        /\ pass # priv => locked' = TRUE
        /\ Returns("Unlock", pass, IF pass = priv THEN "nil" ELSE "ErrWrongPassphrase")
    BY <1>3, UnlockStep
  <2>2. Private = priv
    BY <1>o, <1>r, <2>1, ExistsMaps
  <2>3. /\ State \in {"locked", "unlocked"} /\ Root # NoRoot
        /\ State' = IF pass = Private THEN "unlocked" ELSE "locked"
    BY <1>o, <1>u, <1>w, <2>1, <2>2
  <2>4. Returns("Unlock", pass, IF pass = Private THEN "nil" ELSE "ErrWrongPassphrase")
    BY <2>1, <2>2
  <2> HIDE DEF priv
  <2> QED BY <1>u, <2>1, <2>3, <2>4 DEF LS!Unlock, LS!Same, LS!Returns, Returns
<1>4. ASSUME NEW op, NEW arg, WatchOnly(op, arg)
      PROVE  LS!WatchOnly(op, arg)
  <2>1. /\ opened /\ watchingOnly /\ UNCHANGED <<ns, opened, locked>>
        /\ Returns(op, arg, "ErrWatchingOnly")
    BY <1>4 DEF WatchOnly, ManagerUnchanged
  <2>2. locked
    BY <1>i, <2>1 DEF MemoryFollowsBucket
  <2>3. State = "locked" /\ State' = "locked" /\ Root = NoRoot
    BY <1>o, <1>u, <1>w, <2>1, <2>2
  <2> QED BY <1>u, <2>1, <2>3 DEF LS!WatchOnly, LS!Same, LS!Returns, Returns
<1>5. CASE Lock
  <2>1. CASE WatchOnly("Lock", Empty)
    BY <1>4, <2>1 DEF LS!Next, LS!Lock
  <2>2. CASE opened /\ ~watchingOnly /\ locked
    <3>1. Returns("Lock", Empty, "ErrLocked") /\ UNCHANGED <<ns, opened, locked>>
      BY <1>5, <2>2 DEF Lock, WatchOnly, ManagerUnchanged
    <3>2. State = "locked" /\ State' = "locked" /\ Root # NoRoot
      BY <1>o, <1>u, <1>w, <2>2, <3>1
    <3> QED BY <1>u, <3>1, <3>2 DEF LS!Next, LS!Lock, LS!Same, LS!Returns, Returns
  <2>3. CASE opened /\ ~watchingOnly /\ ~locked
    <3>1. Returns("Lock", Empty, "nil") /\ UNCHANGED <<ns, opened>> /\ locked' = TRUE
      BY <1>5, <2>3 DEF Lock, WatchOnly, lock
    <3>2. State = "unlocked" /\ State' = "locked" /\ Root # NoRoot
      BY <1>o, <1>u, <1>w, <2>3, <3>1
    <3> QED BY <1>u, <3>1, <3>2 DEF LS!Next, LS!Lock, LS!Same, LS!Returns, Returns
  <2> QED BY <1>5, <2>1, <2>2, <2>3 DEF Lock
<1>6. CASE RootKey
  <2>1. opened /\ ~watchingOnly /\ UNCHANGED <<ns, opened, locked>>
    BY <1>6 DEF RootKey, ManagerUnchanged
  <2>2. Root # NoRoot /\ Root = Decrypted(ns["mhdpriv"]) /\ ns["mhdpriv"] # <<>>
    BY <1>o, <1>r, <1>w, <2>1
  <2>3. ~locked => Decrypts(cryptoKeyPriv, ns["mhdpriv"])
    BY <1>i, <1>o, <1>r, <2>1 DEF BucketReadable, MemoryFollowsBucket
  <2>4. Returns("RootKey", Empty, IF locked THEN "ErrLocked" ELSE Root)
    BY <1>6, <2>2, <2>3 DEF RootKey, Returns
  <2>5. /\ State \in {"locked", "unlocked"} /\ UNCHANGED State
        /\ State = "locked" <=> locked
    BY <1>o, <1>u, <2>1
  <2> HIDE DEF State, Root
  <2>6. Returns("RootKey", Empty, IF State = "locked" THEN "ErrLocked" ELSE Root)
    BY <2>4, <2>5
  <2>7. UNCHANGED <<Public, Private, Root>>
    BY <1>u, <2>1
  <2> QED BY <2>2, <2>5, <2>6, <2>7 DEF LS!Next, LS!RootKey, LS!Same, LS!Returns, Returns,
                                        State, Root
<1>7. CASE Close
  <2>1. opened /\ UNCHANGED ns /\ opened' = FALSE /\ last' = <<"none">>
    BY <1>7 DEF Close
  <2>2. State \in {"locked", "unlocked"} /\ State' = "closed"
    BY <1>o, <1>u, <2>1
  <2> QED BY <1>u, <2>1, <2>2 DEF LS!Next, LS!Close, LS!Same
<1>8. CASE UNCHANGED vars
  <2>1. UNCHANGED <<ns, opened, locked, last>>
    BY <1>8 DEF vars
  <2>2. UNCHANGED State
    BY <1>u, <2>1
  <2> QED BY <1>u, <2>1, <2>2 DEF LS!vars
<1>9. ASSUME NEW pass \in Passphrases, Unlock(pass)
      PROVE  LS!Unlock(pass)
  BY <1>3, <1>4, <1>9 DEF Unlock, LS!Unlock
<1> QED
  BY <1>1, <1>2, <1>5, <1>6, <1>7, <1>8, <1>9 DEF Next, LS!Next

\* The manager's answers depend on the passphrases alone, through any order of
\* Create, Open, Unlock, Lock, reads of the root key and restarts.
THEOREM ManagerImplementsLockState == Spec => ImplementsLockState
<1>1. PassphraseInv /\ [Next]_vars => [LS!Next]_LS!vars
  BY NextLockState
<1> QED
  BY <1>1, InitLockState, PassphraseInvariant, PTL DEF Spec, ImplementsLockState, LS!Spec
=============================================================================
