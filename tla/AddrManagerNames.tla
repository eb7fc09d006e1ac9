-------------------------- MODULE AddrManagerNames --------------------------
\* The address manager as a registry of account names.
EXTENDS AddrManager

NamesIn(store) == [s \in Scopes |-> store.scope[s].nameIdx]

NR == INSTANCE NameRegistry WITH
    Numbers <- Account, NoNumber <- NoAccount,
    registered <- NamesIn(disk), pending <- NamesIn(work),
    open <- txOpen, failed <- txErr

\* The name index of waddrmgr is a transactional registry: no sequence of
\* calls, failures, rollbacks, panics and crashes overwrites a name, leaves
\* part of a transaction behind or commits one in which a call failed
\* (account_info.go:119, bdb/db.go:70).
ImplementsNameRegistry == NR!Spec
=============================================================================
