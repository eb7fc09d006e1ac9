---------------------------- MODULE NameRegistry ----------------------------
(***************************************************************************)
(* What the account name index promises: a registry of names that is       *)
(* written in transactions.  A transaction only adds names; it takes       *)
(* effect as a whole when it is committed, and not at all when a call in   *)
(* it failed or the process ended before.  AddrManager implements it.      *)
(***************************************************************************)
CONSTANTS Scopes, Names, Numbers, NoNumber

VARIABLES
    registered,   \* per scope: the number each name leads to, or NoNumber
    pending,      \* the same, as the open transaction sees it
    open,         \* a transaction is open
    failed        \* a call in it failed

vars == <<registered, pending, open, failed>>

Registry == [Scopes -> [Names -> Numbers \cup {NoNumber}]]

Init ==
    /\ registered = [s \in Scopes |-> [n \in Names |-> NoNumber]]
    /\ pending = registered
    /\ open = FALSE /\ failed = FALSE

Begin ==
    /\ ~open /\ open' = TRUE
    /\ UNCHANGED <<registered, pending, failed>>

\* One call of the transaction.  It may add names and it may fail, and there
\* is none after one that failed.
Call ==
    /\ open /\ ~failed
    /\ pending' \in Registry
    /\ \A s \in Scopes, n \in Names :
          pending[s][n] # NoNumber => pending'[s][n] = pending[s][n]
    /\ failed' \in BOOLEAN
    /\ UNCHANGED <<registered, open>>

Commit ==
    /\ open /\ ~failed
    /\ registered' = pending
    /\ open' = FALSE
    /\ UNCHANGED <<pending, failed>>

\* A rollback, a panic or the end of the process.
Drop ==
    /\ open
    /\ pending' = registered
    /\ open' = FALSE /\ failed' = FALSE
    /\ UNCHANGED registered

Next == Begin \/ Call \/ Commit \/ Drop

Spec == Init /\ [][Next]_vars
=============================================================================
