---------------------------- MODULE MC_Mempool -----------------------------
(***************************************************************************)
(* Five transactions for model checking Mempool.  c1 and c2 are chain      *)
(* UTXOs.                                                                  *)
(*                                                                         *)
(*   A spends c1;  T spends A's output;  D spends T's output   (a chain)  *)
(*   R spends A's output too: it can replace T (and D) by fee              *)
(*   E spends c2: independent, two bytes, its arrival overfills the pool   *)
(*                                                                         *)
(* A is flagged replaceable, so T and D are replaceable through it.  Fees  *)
(* make T the lowest descendant score once D has arrived, so trimming    *)
(* evicts a transaction from the middle of the chain.                      *)
(***************************************************************************)
EXTENDS Mempool

MCTxs == {"A", "T", "D", "R", "E"}
MCIns == [t \in MCTxs |->
            CASE t = "A" -> {"c1"} [] t = "T" -> {"a0"} [] t = "D" -> {"t0"}
              [] t = "R" -> {"a0"} [] t = "E" -> {"c2"}]
MCOuts == [t \in MCTxs |->
            CASE t = "A" -> {"a0"} [] t = "T" -> {"t0"} [] t = "D" -> {"d0"}
              [] t = "R" -> {"r0"} [] t = "E" -> {"e0"}]
MCChainUtxos == {"c1", "c2"}
MCFee == ("A" :> 6) @@ ("T" :> 1) @@ ("D" :> 3) @@ ("R" :> 5) @@ ("E" :> 6)
MCSize == [t \in MCTxs |-> IF t = "E" THEN 2 ELSE 1]
MCReplaceable == {"A"}
=============================================================================
