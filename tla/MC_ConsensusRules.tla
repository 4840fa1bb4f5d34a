------------------------- MODULE MC_ConsensusRules --------------------------
(***************************************************************************)
(* Eight-bit targets, and heights 1 to 9 with epochs of two blocks sealed  *)
(* one epoch behind the tip, so epochs 0 to 3 fall due for sealing.        *)
(* Target 0 (a proof of 2^Width, which does not fit) and the all-ones      *)
(* target (a division by zero) are left out: both need bits no PoW block   *)
(* can satisfy or encode.  The stake kernel is checked for each target    *)
(* against every output purpose, six VRF outputs and every pool balance.   *)
(* Signatures are checked over every transaction and block reward of one   *)
(* or two inputs from three outpoints, two of which spend equal outputs,   *)
(* and up to two outputs of two values: every sighash type, input index,   *)
(* key and destination.                                                     *)
(***************************************************************************)
EXTENDS ConsensusRules, Signature, FiniteSetsExt, TLC

MCTargets == 1..2^Width - 2

\* Hashes at both ends of the range and around its middle; balances up to
\* the largest Amount of Width \div 2 bits.
MCHashes == {0, 1, 2^(Width - 1) - 1, 2^(Width - 1), 2^Width - 2, 2^Width - 1}

MCBalances == 0..2^(Width \div 2) - 1

\* A pool without a balance: an integer outside every balance.
MCNotFound == -1

\* Outpoints a and b spend equal outputs: only the outpoint tells them apart.
MCUtxoOf == ("a" :> "u1" @@ "b" :> "u1" @@ "c" :> "u2")

\* The signed transactable is stepped once the consensus inputs reach the
\* ends of their ranges, so the two ranges are not multiplied.
ConsensusInputsDone == target = Max(Targets) /\ height = MaxHeight

MCNext ==
    \/ Next /\ UNCHANGED signed
    \/ ConsensusInputsDone /\ SigNext /\ UNCHANGED vars

MCInit == Init /\ SigInit

MCSpec == MCInit /\ [][MCNext]_<<vars, signed>>
=============================================================================
