------------------------------ MODULE LockState ------------------------------
(***************************************************************************)
(* What an address manager promises the holder of its passphrases: created *)
(* once, it opens with the public passphrase, its root key can be read     *)
(* between an Unlock with the private passphrase and the next Lock or      *)
(* failed Unlock, and whether Unlock succeeds depends on the passphrase    *)
(* alone.  No key, salt, hash or digest occurs here: module Passphrase has *)
(* them and implements this.                                               *)
(***************************************************************************)
CONSTANTS
    Passphrases, \* what a caller may pass
    Empty,       \* the passphrase of length zero
    Roots,       \* extended private keys
    NoRoot       \* a nil root key: the manager is watching-only

VARIABLES
    public, private, \* the passphrases of the manager in the file
    root,            \* its root key
    state,           \* "none", "closed", "locked", "unlocked"
    last             \* the last call: operation, argument, result

vars == <<public, private, root, state, last>>

Init ==
    /\ public = Empty /\ private = Empty /\ root = NoRoot
    /\ state = "none" /\ last = <<"none">>

Returns(op, arg, result) == last' = <<op, arg, result>>
Same == UNCHANGED <<public, private, root>>

Create(pub, priv, r) ==
    \/ /\ state = "none" /\ (r = NoRoot \/ priv # Empty)
       /\ public' = pub /\ private' = (IF r = NoRoot THEN Empty ELSE priv) /\ root' = r /\ state' = "closed"
       /\ Returns("Create", priv, "nil")
    \/ /\ state = "none" /\ r # NoRoot /\ priv = Empty
       /\ Returns("Create", priv, "ErrEmptyPassphrase")
       /\ Same /\ UNCHANGED state
    \/ /\ state # "none"
       /\ Returns("Create", priv, "ErrAlreadyExists")
       /\ Same /\ UNCHANGED state

Open(pub) ==
    /\ state \in {"none", "closed"}
    /\ state' = IF state = "closed" /\ pub = public THEN "locked" ELSE state
    /\ Returns("Open", pub,
               IF state = "none" THEN "ErrNoExist"
               ELSE IF pub = public THEN "nil" ELSE "ErrWrongPassphrase")
    /\ Same

Close ==
    /\ state \in {"locked", "unlocked"} /\ state' = "closed"
    /\ last' = <<"none">> /\ Same

WatchOnly(op, arg) ==
    /\ state = "locked" /\ root = NoRoot
    /\ Returns(op, arg, "ErrWatchingOnly") /\ Same /\ UNCHANGED state

Unlock(p) ==
    \/ WatchOnly("Unlock", p)
    \/ /\ state \in {"locked", "unlocked"} /\ root # NoRoot
       /\ state' = IF p = private THEN "unlocked" ELSE "locked"
       /\ Returns("Unlock", p,
                  IF p = private THEN "nil" ELSE "ErrWrongPassphrase")
       /\ Same

Lock ==
    \/ WatchOnly("Lock", Empty)
    \/ /\ state \in {"locked", "unlocked"} /\ root # NoRoot
       /\ state' = "locked"
       /\ Returns("Lock", Empty,
                  IF state = "locked" THEN "ErrLocked" ELSE "nil")
       /\ Same

RootKey ==
    /\ state \in {"locked", "unlocked"} /\ root # NoRoot
    /\ Returns("RootKey", Empty, IF state = "locked" THEN "ErrLocked" ELSE root)
    /\ Same /\ UNCHANGED state

Next ==
    \/ \E pub, priv \in Passphrases, r \in Roots \union {NoRoot} :
          Create(pub, priv, r)
    \/ \E p \in Passphrases : Open(p) \/ Unlock(p)
    \/ Close \/ Lock \/ RootKey

Spec == Init /\ [][Next]_vars
=============================================================================
