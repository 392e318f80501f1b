--------------------------- MODULE MCCreditMonitor ---------------------------
(* An instance that earns one credit or spends two in a minute, for TLC. *)
EXTENDS CreditMonitor
EarnOrSpend == {1, -2}
=============================================================================
