----------------------------- MODULE RPCKeyPair -----------------------------
(***************************************************************************)
(* The TLS key pair of the RPC server: openRPCKeyPair at every start of    *)
(* the process, over the two files it reads and writes.  os.WriteFile      *)
(* truncates before it writes and may fail or be cut off by a kill; the    *)
(* next start, with or without --onetimetlskey, finds what was left.       *)
(* Module Program calls it as startRPCServers does; KeyPairSpec is its     *)
(* behaviour on its own.                                                   *)
(***************************************************************************)
EXTENDS Naturals

CONSTANT MaxPairs    \* bound: pairs generated in a behaviour

ASSUME RPCKeyPairAssumption == MaxPairs \in Nat \ {0}

VARIABLES
    cert, key,       \* the files: the number of the pair, None or Partial
    generated,       \* pairs generated so far; the user's own pair is number 0
    oneTime,         \* cfg.OneTimeTLSKey
    kp,              \* where openRPCKeyPair is; "off": not called yet
    pair             \* keyPair in memory

keyPairVars == <<cert, key, generated, oneTime, kp, pair>>

Pairs == 0 .. MaxPairs
None == MaxPairs + 1
Partial == MaxPairs + 2

\* Nothing is there, or the user's certificate, with or without its key.
KeyPairInit ==
    /\ cert \in {None, 0} /\ key \in {None, cert}
    /\ generated = 0 /\ oneTime = FALSE /\ kp = "off" /\ pair = None

openRPCKeyPair ==
    /\ kp = "off" /\ kp' = "open" /\ pair' = None
    /\ oneTime' \in BOOLEAN
    /\ UNCHANGED <<cert, key, generated>>

Fails == kp' = "failed" /\ UNCHANGED <<oneTime, pair>>

-----------------------------------------------------------------------------
\* The switch of openRPCKeyPair and its os.Stat of the key.
keyExists == key # None

\* Slip: one time keys do not mind a key that exists.
oneTimeIgnoresKey ==
    /\ kp = "open" /\ oneTime /\ keyExists
    /\ kp' = "generate" /\ UNCHANGED <<cert, key, generated, oneTime, pair>>

\* Slip: the key that exists is removed instead of refused.
oneTimeRemovesKey ==
    /\ kp = "open" /\ oneTime /\ keyExists
    /\ key' = None /\ kp' = "generate" /\ UNCHANGED <<cert, generated, oneTime, pair>>

oneTimeKeyExists ==
    /\ kp = "open" /\ oneTime /\ keyExists
    /\ Fails /\ UNCHANGED <<cert, key, generated>>

\* Both cases that call generateRPCKeyPair.
openGenerates ==
    /\ kp = "open" /\ ~keyExists
    /\ kp' = "generate" /\ UNCHANGED <<cert, key, generated, oneTime, pair>>

\* Slip: what was loaded is used without a look at the error.
LoadX509KeyPairUnchecked ==
    /\ kp = "open" /\ keyExists /\ ~oneTime
    /\ kp' = "opened" /\ pair' = key
    /\ UNCHANGED <<cert, key, generated, oneTime>>

\* tls.LoadX509KeyPair wants two whole files that match.
LoadX509KeyPair ==
    /\ kp = "open" /\ keyExists /\ ~oneTime
    /\ IF key \in Pairs /\ cert = key
       THEN kp' = "opened" /\ pair' = key /\ UNCHANGED oneTime
       ELSE Fails
    /\ UNCHANGED <<cert, key, generated>>

-----------------------------------------------------------------------------
(***************************************************************************)
(* generateRPCKeyPair.                                                     *)
(***************************************************************************)
\* The directories are generated and NewTLSCertPair returns a new pair, or not.
NewTLSCertPair ==
    /\ kp = "generate"
    /\ \/ /\ generated < MaxPairs /\ generated' = generated + 1 /\ pair' = generated'
          /\ kp' = "writeCert" /\ UNCHANGED oneTime
       \/ Fails /\ UNCHANGED generated
    /\ UNCHANGED <<cert, key>>

\* os.WriteFile opens and truncates; the open itself may fail.
truncateCert ==
    /\ kp = "writeCert"
    /\ \/ cert' = Partial /\ kp' = "certOpen" /\ UNCHANGED <<oneTime, pair>>
       \/ Fails /\ UNCHANGED cert
    /\ UNCHANGED <<key, generated>>

\* Slip: the key is not held back.
writeCertAlwaysKey ==
    /\ kp = "certOpen"
    /\ \/ cert' = pair /\ kp' = "writeKey" /\ UNCHANGED <<oneTime, pair>>
       \/ Fails /\ UNCHANGED cert
    /\ UNCHANGED <<key, generated>>

writeCert ==
    /\ kp = "certOpen"
    /\ \/ /\ cert' = pair
          /\ kp' = IF oneTime THEN "opened" ELSE "writeKey"
          /\ UNCHANGED <<oneTime, pair>>
       \/ Fails /\ UNCHANGED cert
    /\ UNCHANGED <<key, generated>>

truncateKey ==
    /\ kp = "writeKey"
    /\ \/ key' = Partial /\ kp' = "keyOpen"
       \/ kp' = "removeKey" /\ UNCHANGED key
    /\ UNCHANGED <<cert, generated, oneTime, pair>>

writeKey ==
    /\ kp = "keyOpen"
    /\ \/ key' = pair /\ kp' = "opened"
       \/ kp' = "removeKey" /\ UNCHANGED key
    /\ UNCHANGED <<cert, generated, oneTime, pair>>

\* The key that could not be written is removed; that may fail as well.
removeKey ==
    /\ kp = "removeKey"
    /\ key' \in {None, key}
    /\ Fails /\ UNCHANGED <<cert, generated>>

-----------------------------------------------------------------------------
\* The process ends or is killed, wherever it is: the files stay.
KeyPairGone ==
    /\ kp' = "off" /\ pair' = None
    /\ UNCHANGED <<cert, key, generated, oneTime>>

\* The user removes a key file that no start accepts.
UserRemovesKey ==
    /\ kp = "off" /\ key # None /\ key' = None
    /\ UNCHANGED <<cert, generated, oneTime, kp, pair>>

KeyPairStep ==
    \/ oneTimeKeyExists \/ openGenerates \/ LoadX509KeyPair
    \/ NewTLSCertPair \/ truncateCert \/ writeCert \/ truncateKey \/ writeKey \/ removeKey

KeyPairNext == openRPCKeyPair \/ KeyPairStep \/ KeyPairGone \/ UserRemovesKey

KeyPairSpec == KeyPairInit /\ [][KeyPairNext]_keyPairVars

-----------------------------------------------------------------------------
\* Every variable keeps its type; in particular the server never goes on with a
\* pair that LoadX509KeyPair (rpcserver.go:88) read from a file cut short.
KeyPairTypeOK ==
    /\ cert \in Pairs \union {None, Partial} /\ key \in Pairs \union {None, Partial}
    /\ generated \in Pairs /\ oneTime \in BOOLEAN
    /\ kp \in {"off", "open", "generate", "writeCert", "certOpen", "writeKey",
               "keyOpen", "removeKey", "opened", "failed"}
    /\ pair \in Pairs \union {None}

\* A whole key on disk always has its own certificate beside it, through
\* kills between and inside the two writes, failed writes and starts with
\* --onetimetlskey: the certificate is written first (rpcserver.go:118) and
\* never once a key exists.
WholeKeyMatchesCert == key \in Pairs => cert = key

\* The server presents the certificate that is in the file its clients read
\* (rpcserver.go:58), and one started with --onetimetlskey leaves no key.
ServesCertOnDisk ==
    kp = "opened" => cert = pair /\ key = IF oneTime THEN None ELSE pair

\* No step of the program replaces or removes a whole key, whatever start
\* finds it (rpcserver.go:77).
KeyNeverReplaced ==
    [][kp # "off" /\ key \in Pairs => key' = key]_keyPairVars

-----------------------------------------------------------------------------
(* Inductive strengthening, for the proofs.                                *)

\* What is in the files wherever openRPCKeyPair is stopped: no key before its
\* certificate is whole, and only part of one until it is written.
KeyPairInv ==
    /\ KeyPairTypeOK /\ WholeKeyMatchesCert /\ ServesCertOnDisk
    /\ kp \in {"generate", "writeCert", "certOpen", "writeKey"} => key = None
    /\ kp \in {"keyOpen", "removeKey"} => key \in {None, Partial}
    /\ kp \in {"writeCert", "certOpen", "writeKey", "keyOpen", "removeKey"} => pair \in Pairs
    /\ kp \in {"writeKey", "keyOpen", "removeKey"} => cert = pair /\ ~oneTime
=============================================================================
