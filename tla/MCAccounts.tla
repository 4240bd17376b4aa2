---------------------------- MODULE MCAccounts ----------------------------
(* Browsers behind one address. *)
EXTENDS Accounts

HomeOf == [b \in Browsers |-> "lan"]
=============================================================================
