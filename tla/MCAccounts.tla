----------------------------- MODULE MCAccounts -----------------------------
(* An instance of Accounts for TLC.                                          *)
EXTENDS Accounts, TLC

CONSTANTS k1, k2, a1

\* One account with two characters.
OneAccount == (k1 :> a1) @@ (k2 :> a1)
=============================================================================
