----------------------------- MODULE TxVerifier -----------------------------
(***************************************************************************)
(* The amount accounting of the transaction verifier                       *)
(* (tx-verifier transaction_verifier/mod.rs) while one PoW block is        *)
(* connected: connect_transaction for each transaction of the block, in    *)
(* the block's order, with the caller summing the returned fees, then      *)
(* check_block_reward with that sum and connect_block_reward.              *)
(*                                                                         *)
(* Amounts are Amount (u128) scaled down to Width bits; every sum of the   *)
(* code is checked, and an overflow is an error.  An output is an outpoint *)
(* with a currency (the coin or a token) and an amount; a Burn output has  *)
(* no destination, so spending it fails verify_signatures.  Signatures,    *)
(* timelocks, output purposes and the token-issuance registry are checks   *)
(* this model passes: they never change an amount.  A block that fails is  *)
(* rejected and its verifier dropped.  An accepted block can then be      *)
(* disconnected, as a reorg does: disconnect_transactable for the reward   *)
(* and for each transaction that can_disconnect_transaction allows, each   *)
(* taking its undo and restoring the outputs it spent.  Two registries    *)
(* are kept beside the UTXO set: the tokens issued (TokenIssuanceCache)    *)
(* and the stake pools created by StakePool outputs (the PoS accounting    *)
(* delta), both keyed by the transaction's first input; disconnection      *)
(* removes them again.  A reward is PoW (outputs only) or PoS (kernel     *)
(* inputs and reward outputs, derive_transactable): a PoS reward must      *)
(* restake its kernel's pool data (check_stake_outputs_in_reward), and its *)
(* connection credits the subsidy to the balance of the pool the block    *)
(* names, which its disconnection takes back.                              *)
(***************************************************************************)
EXTENDS Integers, FiniteSets, Sequences, SequencesExt, FiniteSetsExt, Functions

CONSTANTS
    Width,          \* bits of Amount, scaled down
    Currencies,     \* CoinOrTokenId values
    Coin,           \* CoinOrTokenId::Coin
    Outpoints,      \* every output of the model
    Cur,            \* Cur[o]: the currency of output o
    Amt,            \* Amt[o]: its amount
    Burns,          \* outputs that are TxOutput::Burn
    ChainUtxos,     \* the UTXO set the block is connected on
    Txs,            \* transactions a block may contain
    Ins,            \* Ins[t]: the outpoints t spends
    Outs,           \* Outs[t]: the outputs t creates
    Issuing,        \* transactions with a token-issuance output
    StakePoolOuts,  \* outputs that are TxOutput::StakePool
    ProduceOuts,    \* outputs that are TxOutput::ProduceBlockFromStake
    ProducePool,    \* ProducePool[o]: the pool id such an output names
    Staker,         \* Staker[o]: the staker of a pool or produce output
    Params,         \* Params[o]: a StakePool output's VRF key, decommission
                    \* key, margin ratio and cost per epoch
    Input0,         \* Input0[t]: the outpoint of t's first input
    ChainPools,     \* the chain's accounting state: pool id -> params, balance
    ChainTokens,    \* tokens issued on the chain
    Rewards,        \* block rewards a block may carry
    RewardIns,      \* RewardIns[r]: the outpoints reward r spends
    RewardOuts,     \* RewardOuts[r]: the outputs it creates
    PoSRewards,     \* rewards of PoS blocks; the others are PoW
    RewardPool,     \* RewardPool[r]: the block's pos_data.stake_pool_id()
    Subsidy,        \* ChainConfig::block_subsidy_at_height
    MinIssuanceFee, \* ChainConfig::token_min_issuance_fee
    MaxBlockTxs,    \* bound: transactions in the block
    Src,            \* Src[o]: the OutPointSourceId of output o (a
                    \* transaction, or BlockId for the block's reward)
    BlockId,        \* the block's id, the source of its reward outputs
    ChainTxIndex,   \* the stored TxMainChainIndex of each chain source
    Unspent         \* an output no one has spent in a TxMainChainIndex

VARIABLES
    utxo,       \* the verifier's UTXO cache, as the set of unspent outpoints
    totalFees,  \* the caller's running sum of the returned fees
    block,      \* the transactions connected so far, in order
    status,     \* "connecting", "accepted", "disconnecting" or "rejected"
    live,       \* the block's transactions whose tx undo is still held
    rewardLive, \* {r} while the reward r's undo is held, else {}
    pools,      \* the accounting delta over the chain's: pool -> data
    blockPools, \* the chain's pools with accounting_block_deltas merged
    tokens,     \* the tokens of the token issuance cache over the chain's
    txIndex     \* the tx index cache: source -> CachedInputsOperation

vars == <<utxo, totalFees, block, status, live, rewardLive, pools, blockPools,
          tokens, txIndex>>

MaxAmount == 2^Width - 1

\* The amount of currency c in the outputs os.
Total(os, c) == MapThenSumSet(LAMBDA o : IF Cur[o] = c THEN Amt[o] ELSE 0, os)

-----------------------------------------------------------------------------
(* Checks of one transaction.                                               *)

\* amount_from_outpoint: the currency and amount an input brings.
AmountFromOutpoint(o) == [cur |-> Cur[o], amt |-> Amt[o]]

\* calculate_total_inputs: every input must be in the UTXO cache
\* (MissingOutputOrSpent), and AmountsMap sums them per currency with
\* checked addition.
CalculateTotalInputs(u, ins) ==
    /\ ins \subseteq u
    /\ \A c \in Currencies :
        MapThenSumSet(LAMBDA o : IF AmountFromOutpoint(o).cur = c
                                 THEN AmountFromOutpoint(o).amt ELSE 0, ins)
            <= MaxAmount

\* calculate_total_outputs: the outputs summed per currency, checked.
\* Mutant: the sum wraps at the width.
CalculateTotalOutputsWrapping(os, c) == Total(os, c) % 2^Width

CalculateTotalOutputs(os, c) ==
    IF Total(os, c) <= MaxAmount THEN Total(os, c) ELSE -1

\* Mutant: only the coin is compared, tokens are not.
CheckTransferredAmountsCoinOnly(u, t) ==
    /\ CalculateTotalInputs(u, Ins[t])
    /\ \A c \in Currencies : CalculateTotalOutputs(Outs[t], c) >= 0
    /\ CalculateTotalOutputs(Outs[t], Coin) <= Total(Ins[t], Coin)

\* check_transferred_amounts_and_get_fee: both totals computed, and no
\* currency's outputs exceed its inputs (check_transferred_amount).
CheckTransferredAmounts(u, t) ==
    /\ CalculateTotalInputs(u, Ins[t])
    /\ \A c \in Currencies :
        /\ CalculateTotalOutputs(Outs[t], c) >= 0
        /\ CalculateTotalOutputs(Outs[t], c) <= Total(Ins[t], c)

\* Mutant: the subtraction's operands swapped.
GetFeeSwapped(t) == Total(Outs[t], Coin) - Total(Ins[t], Coin)

\* get_total_fee: the coin inputs less the coin outputs.
GetFee(t) == Total(Ins[t], Coin) - Total(Outs[t], Coin)

\* check_issuance_fee_burn: a transaction that issues a token burns, in
\* coins summed with checked addition, at least the issuance fee.
CheckIssuanceFeeBurn(t) ==
    t \in Issuing =>
        LET burned == Total(Outs[t] \cap Burns, Coin)
        IN  burned <= MaxAmount /\ burned >= MinIssuanceFee

\* verify_signatures: every input exists and has a destination; a Burn
\* output has none (AttemptToSpendBurnedAmount).
VerifySignatures(u, ins) == ins \subseteq u /\ ins \cap Burns = {}

\* make_pool_id and the token id: both derived from the first input.
PoolIdOf(t) == <<"pool", Input0[t]>>

TokenIdOf(t) == <<"token", Input0[t]>>

\* The pools a transaction creates: one per StakePool output.
CreatedPools(t) == IF Outs[t] \cap StakePoolOuts # {} THEN {PoolIdOf(t)} ELSE {}

IssuedTokens(t) == IF t \in Issuing THEN {TokenIdOf(t)} ELSE {}

\* token_issuance_cache.register: a token issued twice is an error.
RegisterOk(tk, t) == IssuedTokens(t) \cap tk = {}

\* connect_pos_accounting_outputs: create_pool for each StakePool output,
\* with the pool id of input 0, each in a temporary delta merged into the
\* block's entry of accounting_block_deltas and into the
\* verifier's; creating a pool that exists is an error, so a transaction
\* with two StakePool outputs fails on the second.
ConnectPosAccountingOutputsOk(p, t) ==
    /\ Cardinality(Outs[t] \cap StakePoolOuts) <= 1
    /\ CreatedPools(t) \cap DOMAIN p = {}

\* create_pool with the StakePool output's data: the new pool's balance is
\* the pledged value.
ConnectPosAccountingOutputs(p, t) ==
    IF CreatedPools(t) = {} THEN p
    ELSE LET o == CHOOSE o \in Outs[t] : o \in StakePoolOuts
         IN  (PoolIdOf(t) :> [params |-> Params[o], balance |-> Amt[o]]) @@ p

\* Mutant: the transaction's accounting undo is taken but not applied,
\* leaving the pool it created in the delta.
DisconnectPosAccountingOutputsUndoLost(p, t) == p

\* disconnect_pos_accounting_outputs: for a StakePool output, the tx's
\* accounting undo is taken and applied, removing the pool it created.
DisconnectPosAccountingOutputs(p, t) == Restrict(p, DOMAIN p \ CreatedPools(t))

\* connect_transaction: the checks in the code's order, then the UTXO
\* cache spends the inputs and adds the outputs.
ConnectTransactionOk(u, t) ==
    /\ CheckTransferredAmounts(u, t)
    /\ CheckIssuanceFeeBurn(t)
    /\ RegisterOk(tokens, t)
    /\ VerifySignatures(u, Ins[t])
    /\ ConnectPosAccountingOutputsOk(pools, t)

SpendAndAdd(u, ins, os) == (u \ ins) \cup os

-----------------------------------------------------------------------------
(* Checks of the block reward.                                              *)

\* get_stake_pool_data_from_output, as the set of its result ({} for an
\* error): a StakePool output carries its data; a ProduceBlockFromStake
\* output carries value and staker, the rest is the named pool's in the
\* accounting delta (PoolDataNotFound); other outputs are
\* InvalidOutputTypeInReward.
StakePoolDataFromOutput(p, o) ==
    CASE o \in StakePoolOuts ->
            {[value |-> Amt[o], staker |-> Staker[o], params |-> Params[o]]}
      [] o \in ProduceOuts /\ ProducePool[o] \in DOMAIN p ->
            {[value |-> Amt[o], staker |-> Staker[o],
              params |-> p[ProducePool[o]].params]}
      [] OTHER -> {}

\* get_kernel_output: the output spent by the first kernel input, which
\* must be in the UTXO view (NoKernel without inputs).
KernelOf(r) == CHOOSE o \in RewardIns[r] : TRUE

\* check_stake_outputs_in_reward: nothing for a PoW block; for a PoS block
\* the kernel output and the single reward output give equal pool data
\* (NoBlockRewardOutputs, MultipleBlockRewardOutputs,
\* StakePoolDataMismatch).
CheckStakeOutputsInReward(u, p, r) ==
    r \in PoSRewards =>
        /\ RewardIns[r] /= {}
        /\ KernelOf(r) \in u
        /\ Cardinality(RewardOuts[r]) = 1
        /\ LET kernel == StakePoolDataFromOutput(p, KernelOf(r))
               reward == StakePoolDataFromOutput(p, CHOOSE o \in RewardOuts[r] : TRUE)
           IN  kernel /= {} /\ reward /= {} /\ kernel = reward

\* check_block_reward: the stake outputs, then no token outputs
\* (TokensInBlockReward), the coin outputs at most inputs + subsidy + fees,
\* each sum checked.
CheckBlockReward(u, r, fees) ==
    LET inputsTotal  == Total(RewardIns[r], Coin)
        outputsTotal == CalculateTotalOutputs(RewardOuts[r], Coin)
        maxAllowed   == inputsTotal + Subsidy + fees
    IN  /\ CheckStakeOutputsInReward(u, pools, r)
        /\ CalculateTotalInputs(u, RewardIns[r])
        /\ \A o \in RewardOuts[r] : Cur[o] = Coin
        /\ outputsTotal >= 0
        /\ maxAllowed <= MaxAmount
        /\ outputsTotal <= maxAllowed

\* connect_block_reward: the inputs' signatures, then the UTXO cache spends
\* them and adds the outputs; for a PoS block increase_pool_balance of the
\* block's pool by the subsidy, an error for an unknown pool or on overflow.
\* The increase goes to accounting_delta alone, not to the block's entry of
\* accounting_block_deltas.
ConnectBlockRewardOk(u, r) ==
    /\ VerifySignatures(u, RewardIns[r])
    /\ r \in PoSRewards =>
        /\ RewardPool[r] \in DOMAIN pools
        /\ pools[RewardPool[r]].balance + Subsidy <= MaxAmount

\* The pool balance change of connect_block_reward (Subsidy) or of the
\* reward undo applied by disconnect_transactable (-Subsidy).
ChangePoolBalance(p, r, d) ==
    IF r \in PoSRewards
    THEN [p EXCEPT ![RewardPool[r]].balance = @ + d]
    ELSE p

-----------------------------------------------------------------------------
(* The transaction index cache.  Its own code (tx_index_cache.rs and       *)
(* cached_operation.rs) is not among the sources; the operations the       *)
(* verifier calls are those of CachedInputs (spend_cache.rs), over the      *)
(* same map of CachedInputsOperation.  An index maps each output of its    *)
(* source to the transactable spending it, or Unspent.  Following          *)
(* cached_operation.rs, a spend or unspend of a Read index turns it into a *)
(* Write, and an Erased entry can be neither.                              *)

Sources(ins) == {Src[o] : o \in ins}

IndexOp(op, i) == [op |-> op, idx |-> i]

ErasedOp == IndexOp("Erase", [o \in {} |-> Unspent])

\* fetch_and_cache for every input (precache_inputs): a cached entry is
\* kept, whatever it is; otherwise the stored index is read
\* (get_mainchain_tx_index), and a source without one is
\* MissingOutputOrSpent.  The result is a set: {} for an error.
PrecacheInputs(c, ins) ==
    IF Sources(ins) \subseteq DOMAIN c \cup DOMAIN ChainTxIndex
    THEN {c @@ [s \in Sources(ins) \ DOMAIN c |-> IndexOp("Read", ChainTxIndex[s])]}
    ELSE {}

\* apply_spend (spend_tx_index_inputs): each input's cached index marks
\* the output spent by sp; spending an Erased entry's output or an
\* output already spent is an error.
SpendTxIndexInputs(c, ins, sp) ==
    IF \A o \in ins : c[Src[o]].op # "Erase" /\ c[Src[o]].idx[o] = Unspent
    THEN {[s \in DOMAIN c |->
             IF s \in Sources(ins)
             THEN IndexOp("Write", [o \in DOMAIN c[s].idx |->
                                      IF o \in ins THEN sp ELSE c[s].idx[o]])
             ELSE c[s]]}
    ELSE {}

\* The unspend loop of unspend (unspend_tx_index_inputs): each input's
\* output is marked unspent; an Erased entry is an error.
UnspendTxIndexInputs(c, ins) ==
    IF \A o \in ins : c[Src[o]].op # "Erase"
    THEN {[s \in DOMAIN c |->
             IF s \in Sources(ins)
             THEN IndexOp("Write", [o \in DOMAIN c[s].idx |->
                                      IF o \in ins THEN Unspent ELSE c[s].idx[o]])
             ELSE c[s]]}
    ELSE {}

\* add_outputs (add_tx_index): a new index, every output unspent, as a
\* Write; an occupied entry is OutputAlreadyPresentInInputsCache.
AddTxIndex(c, s, outs) ==
    IF s \in DOMAIN c THEN {}
    ELSE {(s :> IndexOp("Write", [o \in outs |-> Unspent])) @@ c}

\* remove_outputs (remove_tx_index): the entry becomes Erase, whatever it
\* was.
RemoveTxIndex(c, s) == (s :> ErasedOp) @@ c

\* spend: pre-cache the inputs, spend them for sp, then add the index of
\* the source s with its outputs outs (connect_transaction and connect_block_reward, then
\* connect_transactable's add_tx_index).
TxIndexConnect(c, ins, sp, s, outs) ==
    UNION {UNION {AddTxIndex(c2, s, outs) : c2 \in SpendTxIndexInputs(c1, ins, sp)} :
              c1 \in PrecacheInputs(c, ins)}

\* unspend: remove the index of s, pre-cache the inputs, unspend them
\* (disconnect_transactable, then disconnect_transaction).
TxIndexDisconnect(c, ins, s) ==
    UNION {UnspendTxIndexInputs(c1, ins) : c1 \in PrecacheInputs(RemoveTxIndex(c, s), ins)}

\* flush_to_storage of the consumed cache: a Write is stored, an Erase
\* deletes the stored index, a Read changes nothing.
FlushToStorage(db, c) ==
    LET writes == {s \in DOMAIN c : c[s].op = "Write"}
        erases == {s \in DOMAIN c : c[s].op = "Erase"}
    IN  [s \in (DOMAIN db \cup writes) \ erases |->
            IF s \in writes THEN c[s].idx ELSE db[s]]

-----------------------------------------------------------------------------

Init ==
    /\ utxo = ChainUtxos
    /\ totalFees = 0
    /\ block = <<>>
    /\ status = "connecting"
    /\ live = {}
    /\ rewardLive = {}
    /\ pools = ChainPools
    /\ blockPools = ChainPools
    /\ tokens = ChainTokens
    /\ txIndex = [s \in {} |-> ErasedOp]

\* connect_transactable for the next transaction of the block, and the
\* caller adding its fee to the block's total with checked addition.
ConnectTransaction(t) ==
    /\ status = "connecting"
    /\ Len(block) < MaxBlockTxs
    /\ t \notin ToSet(block)
    /\ block' = Append(block, t)
    /\ IF /\ ConnectTransactionOk(utxo, t)
          /\ TxIndexConnect(txIndex, Ins[t], t, t, Outs[t]) # {}
          /\ totalFees + GetFee(t) <= MaxAmount
       THEN /\ utxo' = SpendAndAdd(utxo, Ins[t], Outs[t])
            /\ txIndex' \in TxIndexConnect(txIndex, Ins[t], t, t, Outs[t])
            /\ totalFees' = totalFees + GetFee(t)
            /\ live' = live \cup {t}
            /\ pools' = ConnectPosAccountingOutputs(pools, t)
            /\ blockPools' = ConnectPosAccountingOutputs(blockPools, t)
            /\ tokens' = tokens \cup IssuedTokens(t)
            /\ UNCHANGED status
       ELSE /\ status' = "rejected"
            /\ UNCHANGED <<utxo, totalFees, live, pools, blockPools, tokens, txIndex>>
    /\ UNCHANGED rewardLive

\* check_block_reward with the block's fees, then connect_transactable for
\* the block reward.
ConnectReward(r) ==
    /\ status = "connecting"
    /\ IF /\ CheckBlockReward(utxo, r, totalFees)
          /\ ConnectBlockRewardOk(utxo, r)
          /\ TxIndexConnect(txIndex, RewardIns[r], BlockId, BlockId, RewardOuts[r]) # {}
       THEN /\ utxo' = SpendAndAdd(utxo, RewardIns[r], RewardOuts[r])
            /\ txIndex' \in TxIndexConnect(txIndex, RewardIns[r], BlockId, BlockId, RewardOuts[r])
            /\ rewardLive' = {r}
            /\ pools' = ChangePoolBalance(pools, r, Subsidy)
            /\ status' = "accepted"
       ELSE /\ status' = "rejected"
            /\ UNCHANGED <<utxo, rewardLive, pools, txIndex>>
    /\ UNCHANGED <<totalFees, block, live, blockPools, tokens>>

\* Mutant: the block undo's dependency between transactions is ignored.
CanDisconnectTransactionNoChildren(t) == TRUE

\* can_disconnect_transaction for the tip block: false while the block
\* undo records a child of t, a still-connected transaction of the block
\* that spends one of t's outputs (has_children_of).
CanDisconnectTransaction(t) ==
    ~\E c \in live \ {t} : Ins[c] \cap Outs[t] /= {}

\* disconnect_transactable for transaction t of the block:
\* disconnect_transaction takes t's tx undo (take_tx_undo) and the UTXO
\* cache removes t's outputs and restores the outputs it spent;
\* disconnect_pos_accounting_outputs undoes its pool creation and the
\* token issuance cache unregisters its token.
DisconnectTransaction(t) ==
    /\ status \in {"accepted", "disconnecting"}
    /\ t \in live
    /\ CanDisconnectTransaction(t)
    /\ txIndex' \in TxIndexDisconnect(txIndex, Ins[t], t)
    /\ utxo' = (utxo \ Outs[t]) \cup Ins[t]
    /\ pools' = DisconnectPosAccountingOutputs(pools, t)
    /\ blockPools' = DisconnectPosAccountingOutputs(blockPools, t)
    /\ tokens' = tokens \ IssuedTokens(t)
    /\ live' = live \ {t}
    /\ status' = "disconnecting"
    /\ UNCHANGED <<totalFees, block, rewardLive>>

\* disconnect_transactable for the block reward: take_block_reward_undo,
\* then disconnect_block_transactable restores the reward's inputs; for a
\* PoS block the accounting reward undo is taken and applied.
DisconnectReward(r) ==
    /\ status \in {"accepted", "disconnecting"}
    /\ r \in rewardLive
    /\ txIndex' \in TxIndexDisconnect(txIndex, RewardIns[r], BlockId)
    /\ utxo' = (utxo \ RewardOuts[r]) \cup RewardIns[r]
    /\ pools' = ChangePoolBalance(pools, r, -Subsidy)
    /\ rewardLive' = {}
    /\ status' = "disconnecting"
    /\ UNCHANGED <<totalFees, block, live, blockPools, tokens>>

Next ==
    \/ \E t \in Txs : ConnectTransaction(t)
    \/ \E r \in Rewards : ConnectReward(r)
    \/ \E t \in Txs : DisconnectTransaction(t)
    \/ \E r \in Rewards : DisconnectReward(r)

Spec == Init /\ [][Next]_vars

-----------------------------------------------------------------------------
(* Properties.                                                              *)

TypeOK ==
    /\ utxo \subseteq Outpoints
    /\ totalFees \in 0..MaxAmount
    /\ block \in Seq(Txs) /\ IsInjective(block)
    /\ status \in {"connecting", "accepted", "disconnecting", "rejected"}
    /\ live \subseteq ToSet(block)
    /\ rewardLive \subseteq Rewards /\ Cardinality(rewardLive) <= 1
    /\ DOMAIN pools \subseteq DOMAIN ChainPools \cup {PoolIdOf(t) : t \in Txs}
    /\ \A q \in DOMAIN pools : pools[q].balance \in 0..MaxAmount
    /\ DOMAIN blockPools = DOMAIN pools
    /\ tokens \subseteq ChainTokens \cup {TokenIdOf(t) : t \in Txs}
    /\ DOMAIN txIndex \subseteq DOMAIN ChainTxIndex \cup Txs \cup {BlockId}

\* No money printing (the spec's conservation rule): while the block's
\* transactions are connected, every coin they take from the UTXO set is in
\* a new output or in the fee sum the caller keeps; once the block reward
\* is connected, the block has added at most the subsidy to the coins.
CoinConservation ==
    /\ status = "connecting" =>
        Total(utxo, Coin) + totalFees = Total(ChainUtxos, Coin)
    /\ status = "accepted" =>
        Total(utxo, Coin) <= Total(ChainUtxos, Coin) + Subsidy

\* No transaction or block reward of a connected block creates a token:
\* connect_transaction's per-currency comparison and the reward's ban on
\* token outputs leave every token's supply at most what it was.
TokensNotCreated ==
    status /= "rejected" =>
        \A c \in Currencies \ {Coin} : Total(utxo, c) <= Total(ChainUtxos, c)

\* Connect and disconnect are exact inverses (the spec's reorg round-trip):
\* whatever transactions and reward have been disconnected, in whatever
\* order can_disconnect_transaction allowed, the UTXO set, the stake pools
\* (with their data and balances, the subsidy credited while a PoS reward
\* is connected) and the issued tokens are the chain's with exactly the
\* still-connected ones applied, so disconnecting all of them gives back
\* the chain's state.
UndoRestoresLedger ==
    LET applied == live \cup rewardLive
        ins(x)  == IF x \in Txs THEN Ins[x] ELSE RewardIns[x]
        outs(x) == IF x \in Txs THEN Outs[x] ELSE RewardOuts[x]
    IN  /\ utxo = (ChainUtxos \cup UNION {outs(x) : x \in applied})
                    \ UNION {ins(x) : x \in applied}
        /\ DOMAIN pools = DOMAIN ChainPools \cup UNION {CreatedPools(t) : t \in live}
        /\ \A q \in DOMAIN pools :
            LET pledge == CHOOSE o \in StakePoolOuts :
                              \E t \in live : q = PoolIdOf(t) /\ o \in Outs[t]
                base   == IF q \in DOMAIN ChainPools THEN ChainPools[q]
                          ELSE [params |-> Params[pledge], balance |-> Amt[pledge]]
                reward == {x \in rewardLive \cap PoSRewards : RewardPool[x] = q}
            IN  pools[q] = [base EXCEPT !.balance =
                                @ + Subsidy * Cardinality(reward)]
        /\ tokens = ChainTokens \cup UNION {IssuedTokens(t) : t \in live}

\* The transaction index agrees with the UTXO set (spec, TxMainChainIndex:
\* a spent/unspent bitmap, created on connect, deleted on disconnect),
\* although it is a second cache with its own order of operations: the
\* index that flush_to_storage would write holds exactly the chain's
\* sources and the connected transactables, an output of it is unspent
\* exactly when it is in the UTXO set, and a spent input names the
\* transactable that spent it (the block id for the reward).  And every
\* disconnection can_disconnect_transaction allows finds its inputs'
\* indices, although disconnect_transactable erases an index before
\* unspending the inputs.
TxIndexMatchesLedger ==
    LET applied == live \cup rewardLive
        id(x)   == IF x \in Txs THEN x ELSE BlockId
        ins(x)  == IF x \in Txs THEN Ins[x] ELSE RewardIns[x]
        db      == FlushToStorage(ChainTxIndex, txIndex)
    IN  status /= "rejected" =>
        /\ DOMAIN db = DOMAIN ChainTxIndex \cup {id(x) : x \in applied}
        /\ \A s \in DOMAIN db : \A o \in DOMAIN db[s] :
               db[s][o] = Unspent <=> o \in utxo
        /\ \A x \in applied : \A o \in ins(x) : Src[o] \in DOMAIN db /\ db[Src[o]][o] = id(x)
        /\ \A t \in live : CanDisconnectTransaction(t) =>
               TxIndexDisconnect(txIndex, Ins[t], t) /= {}

\* The block's accounting delta is the whole of its accounting change: the
\* per-block deltas that consume() hands over, and that activate_seal_epoch
\* merges into the sealed epoch (spec §4.1 step 8, §3 "PoS accounting
\* delta"), applied to the chain's pools give the pools of the verifier's
\* accounting delta, which become the tip's.
BlockDeltasMatchAccounting == blockPools = pools

=============================================================================
