------------------------- MODULE MC_BlockchainStore -------------------------
(***************************************************************************)
(* The threads of test_storage_transactions (writers bumping by 3 and 5)   *)
(* together with the reader of get_set_transactions, and a second reader,  *)
(* on a store whose version main sets to 2.                                *)
(***************************************************************************)
EXTENDS BlockchainStore, TLC

CONSTANTS w3, w5, r1, r2

MCBump == w3 :> 3 @@ w5 :> 5

=============================================================================
