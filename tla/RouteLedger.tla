---------------------------- MODULE RouteLedger ----------------------------
(***************************************************************************)
(* What the ownership journal promises, without saying how: a ledger that  *)
(* survives crashes lists routes under owners; a route is installed only   *)
(* for an owner the ledger already lists it under, for one owner at a      *)
(* time; and the ledger may be rewritten whenever one likes, as long as it *)
(* goes on covering everything that is installed.                          *)
(***************************************************************************)
CONSTANTS Owners, Routes

VARIABLES
    claimed,    \* claimed[o]: the routes the ledger lists under o
    installed   \* installed[o]: the routes the kernel holds on behalf of o

Nothing == [o \in Owners |-> {}]

Init == claimed = Nothing /\ installed = Nothing

Rewrite(c) ==
    /\ \A o \in Owners : installed[o] \subseteq c[o]
    /\ claimed' = c
    /\ UNCHANGED installed

Install(o, r) ==
    /\ r \in claimed[o]
    /\ \A p \in Owners : r \notin installed[p]
    /\ installed' = [installed EXCEPT ![o] = @ \cup {r}]
    /\ UNCHANGED claimed

\* One route withdrawn, or all that a vanishing link takes with it.
Withdraw(i) ==
    /\ \A o \in Owners : i[o] \subseteq installed[o]
    /\ installed' = i
    /\ UNCHANGED claimed

Next ==
    \/ \E c \in [Owners -> SUBSET Routes] : Rewrite(c) \/ Withdraw(c)
    \/ \E o \in Owners, r \in Routes : Install(o, r)

Spec == Init /\ [][Next]_<<claimed, installed>>
=============================================================================
