---------------------------- MODULE MCAddrManager ----------------------------
\* The address manager on a small instance: account numbers 0 and 1 are
\* derivable, 2 is the imported account, 3 is both the first number that is
\* too high and the value a missing last account reads as.
EXTENDS AddrManagerNames

MCNames == {"", "default", "imported", "a", "act:0", "act:1", "act:2", "act:3"}
MCActName == [a \in 0 .. 3 |-> CASE a = 0 -> "act:0" [] a = 1 -> "act:1"
                                 [] a = 2 -> "act:2" [] a = 3 -> "act:3"]

MCActName0 == [a \in 0 .. 2 |-> MCActName[a]]
=============================================================================
