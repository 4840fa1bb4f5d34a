--------------------------- MODULE MC_Chainstate ---------------------------
(***************************************************************************)
(* A block tree for model checking Chainstate.                             *)
(*                                                                         *)
(*   G - A1 - A2 - A3         A2 has two transactions, the second spending *)
(*         \                  the first's output; A3 and C3 compete at     *)
(*          B2 - C3           height 3, the last block of epoch 1;         *)
(*                \- D3       D3 spends a2b, which is not on its branch.   *)
(*   X (child of A1) fails check_block.                                    *)
(* The first transactable of every block is its reward.                    *)
(***************************************************************************)
EXTENDS Chainstate

MCGenesis == "G"
MCBlocks == {"A1", "A2", "A3", "B2", "C3", "D3", "X"}
MCParent == [b \in MCBlocks |->
               CASE b = "A1" -> "G"  [] b = "A2" -> "A1" [] b = "A3" -> "A2"
                 [] b = "B2" -> "A1" [] b = "C3" -> "B2" [] b = "D3" -> "B2"
                 [] b = "X"  -> "A1"]
Reward(o) == [ins |-> {}, outs |-> {o}]
Spend(i, o) == [ins |-> {i}, outs |-> {o}]
MCTxs == [b \in MCBlocks |->
            CASE b = "A1" -> <<Reward("a1r"), Spend("g1", "a1")>>
              [] b = "A2" -> <<Reward("a2r"), Spend("a1", "a2"), Spend("a2", "a2b")>>
              [] b = "A3" -> <<Reward("a3r")>>
              [] b = "B2" -> <<Reward("b2r"), Spend("g2", "b2")>>
              [] b = "C3" -> <<Reward("c3r"), Spend("b2", "c3")>>
              [] b = "D3" -> <<Reward("d3r"), Spend("a2b", "d3")>>
              [] b = "X"  -> <<Reward("xr")>>]
MCGenesisUtxos == {"g1", "g2"}
MCInvalid == {"X"}
=============================================================================
