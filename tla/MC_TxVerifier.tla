---------------------------- MODULE MC_TxVerifier ----------------------------
(***************************************************************************)
(* A chain UTXO set of two coin and two token outputs and the StakePool   *)
(* output sA (3) of pool pA, Amount of 3 bits (sums reach 7 and overflow   *)
(* past it), ten transactions and ten block rewards.  The chain has pools  *)
(* pA (balance 3) and pB (balance 6).  The first input of each            *)
(* transaction is its Input0.                                              *)
(*   T1 spends coin c1 (5) into coin 2 and a burn of 1, issuing a token    *)
(*      (fee 2);                                                           *)
(*   T2 spends T1's coin and token k1 (3) into coin 2 and token 3 (fee 0); *)
(*   T3 spends c1 and c2 (5 + 4: the input sum overflows);                 *)
(*   T4 spends token k2 (6) and coin c2 (4) into token 7 (prints tokens);  *)
(*   T5 spends T1's burn output;                                           *)
(*   T6 spends c2 into coin 3 (fee 1); T7 spends T2's coin into coin 1     *)
(*   (fee 1); T8 spends T6's coin and k2 into coin 2 (fee 1: the token is  *)
(*   destroyed);                                                           *)
(*   T9 spends c1 into a StakePool output of 5 (creates a pool);           *)
(*   T10 spends c2 into two StakePool outputs of 2 (fails on the second). *)
(* PoW rewards R1-R3, R5 pay 5 coins, 3 coins, 1 token, and 6 + 3 coins   *)
(* (the output sum overflows).  PoS rewards stake a kernel into one         *)
(* ProduceBlockFromStake output and name the pool credited:               *)
(*   R4 stakes the Transfer output c2 (InvalidOutputTypeInReward);         *)
(*   R6 restakes sA for its staker in pA, crediting pA (3 + 3 + the fees:  *)
(*      the allowed sum overflows once the fees reach 2);                   *)
(*   R7 restakes sA for another staker (StakePoolDataMismatch);           *)
(*   R8 restakes sA into T9's pool, whose data equals pA's: found only     *)
(*      while T9 is connected;                                             *)
(*   R9 is R6 crediting pB, whose balance overflows;                       *)
(*   R10 has two reward outputs (MultipleBlockRewardOutputs).              *)
(* The tx index holds the chain's transactions X1 (c1, c2), X2 (k1, k2)   *)
(* and X3 (sA, and z1, spent in an earlier block).                         *)
(***************************************************************************)
EXTENDS TxVerifier

MCCurrencies == {"coin", "tok"}

MCOutpoints == {"c1", "c2", "k1", "k2", "o1", "b1", "o2", "o3", "o4", "o5",
                "o6", "o7", "r1", "r2", "r3", "r4", "r5", "r6", "s1", "s2", "s3",
                "sA", "p1", "p2", "p3", "p4", "z1"}

MCCur == [o \in MCOutpoints |->
            IF o \in {"k1", "k2", "o3", "o4", "r3"} THEN "tok" ELSE "coin"]

MCAmt == ("c1" :> 5 @@ "c2" :> 4 @@ "k1" :> 3 @@ "k2" :> 6 @@ "o1" :> 2
          @@ "b1" :> 1 @@ "o2" :> 2 @@ "o3" :> 3 @@ "o4" :> 7 @@ "r1" :> 5
          @@ "o5" :> 3 @@ "o6" :> 1 @@ "o7" :> 2 @@ "r2" :> 3 @@ "r3" :> 1
          @@ "r4" :> 7 @@ "r5" :> 6 @@ "r6" :> 3 @@ "s1" :> 5 @@ "s2" :> 2
          @@ "s3" :> 2 @@ "sA" :> 3 @@ "p1" :> 3 @@ "p2" :> 3 @@ "p3" :> 3
          @@ "p4" :> 3 @@ "z1" :> 1)

MCStakeOuts == {"s1", "s2", "s3", "sA", "p1", "p2", "p3", "p4"}

\* Pools pA and pB of the chain, made from inputs of earlier blocks.
MCPoolA == <<"pool", "a0">>

MCPoolB == <<"pool", "b0">>

MCProducePool == ("p1" :> MCPoolA @@ "p2" :> MCPoolA @@ "p3" :> PoolIdOf("T9")
                  @@ "p4" :> MCPoolA)

MCStaker == [o \in MCStakeOuts |-> IF o = "p2" THEN "bob" ELSE "alice"]

MCParams == ("s1" :> "vA" @@ "s2" :> "vB" @@ "s3" :> "vB" @@ "sA" :> "vA")

MCChainPools == (MCPoolA :> [params |-> "vA", balance |-> 3])
                @@ (MCPoolB :> [params |-> "vB", balance |-> 6])

MCTxs == {"T1", "T2", "T3", "T4", "T5", "T6", "T7", "T8", "T9", "T10"}

MCIns == ("T1" :> {"c1"} @@ "T2" :> {"o1", "k1"} @@ "T3" :> {"c1", "c2"}
          @@ "T4" :> {"k2", "c2"} @@ "T5" :> {"b1"} @@ "T6" :> {"c2"}
          @@ "T7" :> {"o2"} @@ "T8" :> {"o5", "k2"} @@ "T9" :> {"c1"}
          @@ "T10" :> {"c2"})

MCOuts == ("T1" :> {"o1", "b1"} @@ "T2" :> {"o2", "o3"} @@ "T3" :> {}
           @@ "T4" :> {"o4"} @@ "T5" :> {} @@ "T6" :> {"o5"}
           @@ "T7" :> {"o6"} @@ "T8" :> {"o7"} @@ "T9" :> {"s1"}
           @@ "T10" :> {"s2", "s3"})

MCInput0 == ("T1" :> "c1" @@ "T2" :> "o1" @@ "T3" :> "c1" @@ "T4" :> "k2"
             @@ "T5" :> "b1" @@ "T6" :> "c2" @@ "T7" :> "o2" @@ "T8" :> "o5"
             @@ "T9" :> "c1" @@ "T10" :> "c2")

MCRewards == {"R1", "R2", "R3", "R4", "R5", "R6", "R7", "R8", "R9", "R10"}

MCPoSRewards == {"R4", "R6", "R7", "R8", "R9", "R10"}

MCRewardIns == [r \in MCRewards |->
                  CASE r \in {"R1", "R2", "R3", "R5"} -> {}
                    [] r = "R4" -> {"c2"}
                    [] OTHER -> {"sA"}]

MCRewardOuts == ("R1" :> {"r1"} @@ "R2" :> {"r2"} @@ "R3" :> {"r3"}
                 @@ "R4" :> {"r4"} @@ "R5" :> {"r5", "r6"} @@ "R6" :> {"p1"}
                 @@ "R7" :> {"p2"} @@ "R8" :> {"p3"} @@ "R9" :> {"p1"}
                 @@ "R10" :> {"p1", "p4"})

\* The chain's transactions X1 (c1, c2), X2 (k1, k2) and X3 (sA, and z1,
\* which X9 spent in an earlier block); the reward's outputs have the
\* block's id as their source.
MCSrc == [o \in MCOutpoints |->
            CASE o \in {"c1", "c2"} -> "X1"
              [] o \in {"k1", "k2"} -> "X2"
              [] o \in {"sA", "z1"} -> "X3"
              [] \E t \in MCTxs : o \in MCOuts[t] -> CHOOSE t \in MCTxs : o \in MCOuts[t]
              [] OTHER -> "blk"]

MCChainTxIndex == ("X1" :> [o \in {"c1", "c2"} |-> Unspent])
                  @@ ("X2" :> [o \in {"k1", "k2"} |-> Unspent])
                  @@ ("X3" :> ("sA" :> Unspent @@ "z1" :> "X9"))

MCRewardPool == [r \in MCPoSRewards |-> IF r = "R9" THEN MCPoolB ELSE MCPoolA]

=============================================================================
