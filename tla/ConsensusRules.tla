--------------------------- MODULE ConsensusRules ---------------------------
(***************************************************************************)
(* Two pure computations of the consensus rules, checked over every input  *)
(* of a bounded range:                                                     *)
(*                                                                         *)
(*  - PoWData::get_block_proof (consensus_data.rs): the chain-trust a PoW  *)
(*    block contributes, computed as ~target / (target + 1) + 1 on         *)
(*    unsigned integers of Width bits, against 2^Width \div (target + 1);  *)
(*  - randomness_of_sealed_epoch (pos/mod.rs): which sealed epoch's        *)
(*    randomness a PoS block at a height is checked against, given the     *)
(*    epochs that activate_seal_epoch (chainstate detail/mod.rs) has       *)
(*    sealed by the time that block is checked on a linear chain.          *)
(*                                                                         *)
(* The state is the input: a target and a height, stepped through their   *)
(* ranges.                                                                 *)
(***************************************************************************)
EXTENDS Integers, Bitwise

CONSTANTS
    Width,                  \* bits of Uint256, scaled down
    Targets,                \* targets that bits can convert to
    EpochLength,            \* ChainConfig::epoch_length
    SealedEpochDistance,    \* ChainConfig::sealed_epoch_distance_from_tip
    MaxHeight,              \* bound: heights examined
    Purposes,               \* the OutputPurpose variants of a kernel output
    Stakeable,              \* StakePool and ProduceBlockFromStake
    Hashes,                 \* VRF outputs hash_pos examined
    Balances,               \* pool balances (Amount, Width \div 2 bits)
    NotFound                \* get_pool_balance returned None

VARIABLES target, height

vars == <<target, height>>

\* The seed of the chain's initial randomness (epoch indices are not negative).
INITIAL == -1

-----------------------------------------------------------------------------
(* Block proof.                                                             *)

\* !x on a Width-bit unsigned integer.
Complement(x) == x ^^ (2^Width - 1)

\* Uint256::increment: word-wise wrapping add of one.
Increment(x) == (x + 1) % 2^Width

\* Mutant: the final increment is left out.
GetBlockProofNoFinalIncrement(t) == Complement(t) \div Increment(t)

\* PoWData::get_block_proof, for a target that converts from bits.
GetBlockProof(t) == Increment(Complement(t) \div Increment(t))

-----------------------------------------------------------------------------
(* Sealed-epoch randomness.                                                 *)

\* ChainConfig::epoch_index_from_height and is_last_block_in_epoch.
EpochIndex(h) == h \div EpochLength

IsLastBlockInEpoch(h) == (h + 1) % EpochLength = 0

\* activate_seal_epoch, run after the block at height h is committed: the
\* epoch it seals, if any.
IsDueForSeal(h) == IsLastBlockInEpoch(h) /\ EpochIndex(h) >= SealedEpochDistance

EpochToSeal(h) == EpochIndex(h) - SealedEpochDistance

\* The epochs sealed when the block at height h is checked: those sealed
\* after each earlier block of the chain.
SealedBefore(h) == {EpochToSeal(x) : x \in {y \in 1..h - 1 : IsDueForSeal(y)}}

\* randomness_of_sealed_epoch: the epoch index to read, as checked_sub (a
\* negative result is None).
SealedEpochIndex(h) ==
    IF IsLastBlockInEpoch(h)
    THEN EpochIndex(h) - SealedEpochDistance
    ELSE EpochIndex(h) - (SealedEpochDistance + 1)

\* The seed: the randomness of that epoch if its data is stored, else the
\* chain's initial randomness (index None, or get_epoch_data None).
RandomnessOfSealedEpoch(h) ==
    LET e == SealedEpochIndex(h)
    IN  IF e >= 0 /\ e \in SealedBefore(h) THEN e ELSE INITIAL

-----------------------------------------------------------------------------
(* Stake kernel.                                                            *)

\* Uint512 arithmetic: Amount and Uint256 widen losslessly, products wrap at
\* twice the width of Uint256.
Uint512(x) == x % 2^(2 * Width)

\* Mutant: the product is taken in Uint256.
StakeTargetUint256(balance, t) == (balance * t) % 2^Width

\* pool_balance * target.into(), both operands as Uint512.
StakeTarget(balance, t) == Uint512(balance * t)

\* check_stake_kernel_hash, for a target that converts from bits and a VRF
\* proof that verifies with output hash: only pool outputs may be staked,
\* the pool's balance must be found, and the output may not exceed the
\* balance-weighted target.
CheckStakeKernelHash(purpose, hash, balance, t) ==
    /\ purpose \in Stakeable
    /\ balance # NotFound
    /\ Uint512(hash) <= StakeTarget(balance, t)

-----------------------------------------------------------------------------

Init ==
    /\ target \in Targets
    /\ height \in 1..MaxHeight

\* The next target of the range.
NextTarget ==
    /\ target + 1 \in Targets
    /\ target' = target + 1
    /\ UNCHANGED height

\* The next height.
NextHeight ==
    /\ height < MaxHeight
    /\ height' = height + 1
    /\ UNCHANGED target

Next == NextTarget \/ NextHeight

Spec == Init /\ [][Next]_vars

-----------------------------------------------------------------------------
(* Properties.                                                              *)

\* get_block_proof computes the trust 2^Width / (target + 1) that the spec
\* (and bitcoind's GetBlockProof) define, without overflowing the width.
BlockProofMatchesSpec ==
    GetBlockProof(target) = 2^Width \div (target + 1)

\* Every block of an epoch is checked against the same random seed: the
\* randomness of one sealed epoch, or the initial randomness while no epoch
\* is sealed yet.
SeedStableWithinEpoch ==
    \A h \in 1..MaxHeight :
        EpochIndex(h) = EpochIndex(height)
            => RandomnessOfSealedEpoch(h) = RandomnessOfSealedEpoch(height)

\* A stake kernel passes exactly when its output is a stake pool's, the pool
\* has a balance, and hash_pos <= pool_balance * target holds of the
\* integers (spec, PoS rules): the Uint512 arithmetic of
\* check_stake_kernel_hash never wraps.
StakeKernelMatchesSpec ==
    \A p \in Purposes, h \in Hashes, b \in Balances \cup {NotFound} :
        CheckStakeKernelHash(p, h, b, target)
            <=> (p \in Stakeable /\ b # NotFound /\ h <= b * target)

=============================================================================
