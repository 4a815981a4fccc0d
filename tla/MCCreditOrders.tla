---------------------------- MODULE MCCreditOrders ----------------------------
(***************************************************************************)
(* CreditOrders on a small instance: the model values of the cfg.          *)
(***************************************************************************)
EXTENDS CreditOrders
=============================================================================
