--------------------------- MODULE MCWalletPoller --------------------------
(***************************************************************************)
(* Small wallets for WalletPoller: each has one authority, the first a     *)
(* permission under it.                                                    *)
(***************************************************************************)
EXTENDS WalletPoller

CONSTANTS a1, a2, p1

MCWalletOf    == [a \in Authority |-> IF a = a1 THEN 1 ELSE 2]
MCAuthorityOf == [p \in Pda |-> a1]
=============================================================================
