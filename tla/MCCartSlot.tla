----------------------------- MODULE MCCartSlot -----------------------------
(***************************************************************************)
(* The cartridges of MCCart and MCMmm01, one after the other.              *)
(***************************************************************************)
EXTENDS MCCart, MCMmm01, CartSlot
=============================================================================
