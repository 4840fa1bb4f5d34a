# TLA+ models of the mintlayer-core chain engine

This directory holds TLA+ specifications of the block-acceptance engine of
mintlayer-core, the TLC configurations that check them, and `PROJECT.json`,
which maps every definition to the source lines it models and lists runs,
mutants, findings and hazards.

## 1. The system and its parts

The sources (`../src`) cover the core described in `../spec.md`:

| Part | Sources | State | Operations |
|---|---|---|---|
| Chainstate pipeline | `chainstate/src/detail/mod.rs` | persisted block index, height index (best chain), UTXO set, undo data, sealed epoch deltas; in memory the orphan pool, event subscribers and the retry counter | `process_block` → `attempt_to_process_block` (orphan check, `check_block`, `accept_block`, `activate_best_chain`, commit) → `process_db_commit_error` (retry) → `activate_seal_epoch` → `process_orphans` (recursive `process_block` with source Local) → `broadcast_new_tip_event`; `process_genesis`; `Chainstate::new` |
| Transaction verifier | `chainstate/tx-verifier/src/transaction_verifier/mod.rs` | in-memory caches over the ledger: UTXO cache, undo per `TransactionSource`, tx index, tokens, PoS accounting delta | `connect_transaction`, `connect_block_reward`, `connect_transactable`, `disconnect_transaction`, `disconnect_transactable`, `can_disconnect_transaction`, `check_block_reward`, `derive_child`, `consume` |
| Spend cache | `chainstate/src/detail/spend_cache.rs` | cached tx-index entries with Write/Read/Erase flags (the operations `TxVerifier`'s tx-index cache follows) | `spend`, `unspend`, `flush_to_storage` |
| Mempool | `mempool/src/pool/mod.rs`, `store.rs` | transactions with parent/child links, fee and size aggregates with ancestors and descendants, score indices, spent outpoints, rolling minimum fee | `add_transaction` (validation, replace-by-fee, `finalize_tx`), `trim`, expiry, `new_tip_set` |
| Consensus | `consensus/src/pos/mod.rs`, `common/src/chain/block/consensus_data.rs` | none (pure checks) | sealed-epoch randomness, stake kernel check, PoW block proof |
| Signatures | `common/src/chain/transaction/signature/mod.rs` | none (pure checks) | `signature_hash`, `verify_signature` (called by the verifier's `verify_signatures`) |
| Storage, types, crypto, config, p2p, wallet | the rest of `src/` | key-value tables; data types | I/O and encodings |

How they interact: a block goes through the pipeline in one read-write
storage transaction; inside it the transaction verifier connects (and on a
reorganisation disconnects) every transactable, producing undo data; the
transaction commits atomically, then a second storage transaction seals an
epoch's accounting delta when one falls due, then blocks waiting in the
orphan pool for the new block are processed recursively, then subscribers
get a NewTip event. The mempool reacts to that event (`new_tip_set`).

Hard behaviours of the pipeline: a commit can fail and the whole attempt is
re-run; the seal is a separate transaction after the commit, so it can fail
or a crash can fall between them; orphan draining recurses, each nested call
with its own commit, seal and broadcast; a reorganisation can fail part-way
and must leave nothing behind; the process can restart at any point and lose
everything that is in memory.

## 2. Modules

* **`Chainstate.tla`** models the pipeline together with the ledger effect
  of the transaction verifier. A call of `process_block` and the nested calls
  it makes for orphans form a stack of frames (`stack`); each frame is at
  phase `attempt`, `seal` or `orphans`. One step is one storage transaction
  or one in-memory step of the top frame, so failures and a crash can fall
  between any two.
  * Variables: `index` (block indices), `chain` (height index), `utxo`,
    `undo` (per-block undo), `orphans`, `sealed` (epoch deltas written to
    sealed storage), `lastEvent` (last NewTip seen), `stack`, plus counters
    for the bounds; and for the transaction index `txIndexEnabled` (the
    running process's `tx_index_enabled`), `txIndexFlag` (the stored
    `is_mainchain_tx_index_enabled`) and `txIndexed` (the blocks whose
    transactions have a stored index).
  * Actions: `ProcessBlock` (`process_block`), `AttemptRejected` (the early
    returns of `attempt_to_process_block`: orphan, `check_block`, known block,
    failed reorganisation), `AttemptCommitted`, `AttemptCommitFailed`
    (`process_db_commit_error`), `ActivateSealEpoch` and `SealFailed`
    (`activate_seal_epoch`, followed by `take_all_children_of`),
    `ProcessNextOrphan` and `FinishProcessBlock` (`process_orphans`, the
    result override and `broadcast_new_tip_event`), `Restart`
    (`Chainstate::new` on the persisted state). `Init` is the state after
    `process_genesis` on a first start, which stored the configured flag.
    `Restart` may be configured either way; it runs
    `ProcessTxIndexEnabledFlag` (`process_tx_index_enabled_flag`: a
    configuration differing from the stored flag fails `Chainstate::new`)
    and `CheckGenesis` (`check_genesis`). A commit that moves the tip
    rewrites the indexes of the disconnected and connected blocks only when
    the running process has the tx index enabled (`TxIndexAfterReorg`, the
    verifier's `OptionalTxIndexCache`).
  * The ledger: `ConnectTx` (the missing-or-spent check and undo of
    `connect_transaction`/`connect_block_reward`), `ConnectBlock`
    (`connect_transactable` over a block), `DisconnectBlock`
    (`disconnect_transaction`, last transactable first), `Reorganize`
    (disconnect to the common ancestor, connect the new branch).
  * `accept_block`, `activate_best_chain`, the reorganisation and the orphan
    pool live in `chainstateref.rs` and `orphan_blocks.rs`, which are not among
    the sources; their definitions (`BranchTo`, `ForkHeight`, `Reorganize`,
    `IsMoreTrusted`, `AddOrphan`, `ChildrenOf`) follow spec §4.1 and §4.4 and
    are marked `spec_modelled`. A full orphan pool drops one block of its
    choice (nondeterministic), which covers both policies the spec allows.
* **`BlockTree.tla`** is the abstract specification: a set of accepted blocks
  and a tip that moves to a newly accepted block exactly when it has more
  trust, provided its branch is valid when replayed from genesis.
  `Chainstate` refines it with `accepted <- index, tip <- Tip`
  (`ImplementsBlockTree`).
* **`Mempool.tla`** models `MempoolStore` (`store.rs`) and
  `Mempool::add_transaction` (`pool/mod.rs`). The store is one record
  variable `store` whose fields are the store's maps: `entries`
  (`txs_by_id`; each entry has its parents, children, the count, fee and size
  with descendants and with ancestors, and its creation time), `desc` and
  `anc` (the two score indices, score → set of ids), `spender`
  (`spender_txs`) and `seq` (`txs_by_seq_no`, a sequence in insertion
  order; `IntoTransactions` is `into_transactions`, the order the pool is
  handed back in for re-insertion after a reorg). Every store method is an
  operator on a store record (`AddTx`, `RemoveTx`, `DropTx`,
  `DropTxAndDescendants`, `DropConflicts`, `RefreshAncestors`,
  `RefreshDescendants`, ...), and `add_transaction` is one action,
  `AddTransaction`, composing validation (`ValidateTransaction`,
  `RbfChecksPass` with BIP125 rules 1 to 5 in the code's order),
  `DropConflicts`, `AddTx`, `RemoveExpiredTransactions` and `Trim` in the
  order `finalize_tx` calls them. The method takes `&mut self`, so calls do
  not interleave. `Tick` advances the clock. The order in which a `BTreeSet`
  of ids is walked is the order of the transactions' hashes, which the model
  leaves open: `rank` is any ordering of the transactions, chosen in `Init`.
  `.expect` calls that would panic are `Assert`s. The memory-usage
  estimator is taken to be the sum of the encoded sizes.
  The rolling minimum fee rate is the variable `rolling` (`rate`,
  `blockSince`, `last`, the fields of `RollingFeeRate`). Validation's last
  check, `pays_minimum_mempool_fee`, calls `GetUpdateMinFeeRate`. It returns
  early while no block has come since the last bump, decays the rate once
  the decay interval has passed (drops it to 0 under the threshold), and
  otherwise gives at least the incremental relay fee rate. The decay is
  `RollingFeeRate::decay_fee`, which is not among the sources: the rate
  divided by 2^(elapsed/halflife), a fraction, so `DecayedRates` allows every
  rounding between the floor and the ceiling of the exponent. A transaction
  that fails this check is `AddTransactionBelowMinimumFee`. It leaves the
  store alone but keeps the decay. `CollectTxs` is `collect_txs`: the
  order in which it offers the pool to an accumulator large enough for all
  of it. `Trim` returns the fee rates of the
  transactions it picked, and `LimitMempoolSize` raises the rate to the
  highest plus the incremental rate and clears the block flag.
  `NewTipSet` is `new_tip_set`. `tipSinceRaise` is a history variable for
  the property: it records whether a tip came since the rate last rose.
* **`ConsensusRules.tla`** holds three pure computations as operators.
  `GetBlockProof` is `PoWData::get_block_proof` on `Width`-bit integers:
  complement by XOR with all ones, `Increment` wrapping like
  `Uint256::increment`. `RandomnessOfSealedEpoch` is the epoch choice of
  `randomness_of_sealed_epoch`, read against the epochs that
  `activate_seal_epoch` has sealed by the time a block is checked on a
  linear chain (`SealedBefore`). `CheckStakeKernelHash` is
  `check_stake_kernel_hash` once the VRF proof has verified: only a
  StakePool or ProduceBlockFromStake output may be staked, the pool's
  balance must be found, and `hash_pos <= pool_balance * target` is
  compared in `Uint512` (`StakeTarget`), scaled to twice `Width` bits with a
  balance of `Width div 2` bits. The variables `target` and `height` are the
  inputs, stepped through their ranges.
* **`Signature.tla`** holds the signature hash and input-signature check
  of `common/src/chain/transaction/signature/mod.rs` as pure operators.
  `SignatureHash` is `stream_signature_hash`/`signature_hash`: the sighash
  type, the header fields (a block reward has none), the inputs part
  (`InputsPart`: all outpoints and their number for CommitWhoPays, the
  signer's own for AnyoneCanPay), the outputs part (`OutputsPart`: all, none,
  or the output at the signer's index for Single, an error past the last
  output), and the outputs every input spends (`InputsUtxos`, built by the
  verifier's `verify_signatures`). The hash is taken as injective, so a
  sighash is the tuple of those parts. `VerifySignature` is
  `verify_signature`: the witness at the input's index, `NoSignature` only
  for AnyoneCanSpend, and a standard witness checked against the sighash of
  its own sighash type (`VerifyStandardInputSignature`). `SigTxs` is every
  transactable of up to `MaxInputs` distinct inputs and outputs over small
  sets. The variable `signed` is the input: the transactable whose
  signatures are checked, stepped through `SigTxs` (`SigNext`).
* **`TxVerifier.tla`** models the amount accounting of the transaction
  verifier while one PoW or PoS block is connected. Variables: `utxo` (the UTXO
  cache as a set of outpoints, each with a currency and an amount),
  `totalFees` (the caller's sum of the fees `connect_transactable`
  returns), `block` (the transactions connected so far) and `status`.
  `ConnectTransaction(t)` is `connect_transactable` for the next
  transaction: `CheckTransferredAmounts` (inputs present and summed per
  currency, outputs summed, no currency's outputs above its inputs),
  `CheckIssuanceFeeBurn`, `VerifySignatures` (a Burn output cannot be
  spent), then the UTXO update, and the caller's checked addition of
  `GetFee`. `ConnectReward(r)` is `check_block_reward` with the block's
  fees followed by `connect_block_reward`. For a PoS reward,
  `CheckStakeOutputsInReward` requires a kernel input in the UTXO cache
  (`KernelOf`, `get_kernel_output`) and exactly one reward output, and the
  two must give equal pool data by `StakePoolDataFromOutput`
  (`get_stake_pool_data_from_output`: a StakePool output carries its data,
  a ProduceBlockFromStake output takes the named pool's parameters from the
  accounting delta). Then come no token outputs and outputs at most
  inputs + subsidy + fees. Connecting a PoS reward credits the subsidy to
  the balance of the pool the block names (`ChangePoolBalance`,
  `increase_pool_balance`, failing for an unknown pool or on overflow).
  Disconnecting the reward takes it back. Every sum is checked against `Width` bits, as
  `Amount`'s `u128` arithmetic is; an overflow rejects the block. The
  caller's loop and the order "transactions, reward check, reward connect"
  are from spec §4.1 and §4.2 (the caller is not among the sources); the
  reward check must precede the reward's connection because it reads the
  reward's inputs from the UTXO cache. Signatures and timelocks are passed
  over: neither changes an amount. The tx-index cache is the variable
  `txIndex`, a map from a source (a transaction, or the block id `BlockId`
  for the reward) to a `CachedInputsOperation` (`Read`, `Write` or
  `Erase`) of an index that maps each output of the source to its spender
  or `Unspent`. Its code (`tx_index_cache.rs`, `cached_operation.rs`) is
  not among the sources, so its operations are translated from the legacy
  `CachedInputs` of `spend_cache.rs` over the same map: `PrecacheInputs`
  (`fetch_and_cache`, reading `ChainTxIndex`), `SpendTxIndexInputs`
  (`apply_spend`), `UnspendTxIndexInputs`, `AddTxIndex` (`add_outputs`),
  `RemoveTxIndex` (`remove_outputs`) and `FlushToStorage`
  (`flush_to_storage`). Connecting precaches and spends the inputs, then
  adds the new index (`TxIndexConnect`, in the order of
  `connect_transaction` and `connect_transactable`); disconnecting erases
  the transactable's index first and then precaches and unspends its
  inputs (`TxIndexDisconnect`, the order of `disconnect_transactable`).
  A failure in either rejects the block. Once accepted, the block can be
  disconnected as a reorganisation does: `DisconnectTransaction(t)` is
  `disconnect_transactable` for a transaction, enabled only when
  `CanDisconnectTransaction(t)` holds (no still-connected transaction of the
  block spends an output of `t`, `has_children_of`); it removes `t`'s outputs
  and restores its inputs from the undo. `DisconnectReward` does the same for
  the reward. `live` and `rewardLive` are the sources whose undo is held.
  `pools` maps each pool of the accounting delta to its parameters and
  balance. `blockPools` is the chain's pools with the block's entry of
  `accounting_block_deltas` merged, the delta the block hands to sealing.
  `tokens` is the token issuance cache. `connect_transaction` registers
  the token a transaction issues and creates a pool for its StakePool
  output, with the pledge as balance, both keyed by the first input
  (`make_pool_id`). The pool goes into both deltas. A second StakePool
  output in one transaction fails. Disconnection removes both again.
* **`BlockchainStore.tla`** models the blockchain store
  (`blockchain_storage/src/store.rs`) shared by threads, as in the store's
  concurrency tests. A main thread creates the store and sets the storage
  version through `Store` methods (each one transaction, by
  `delegate_to_transaction`). It spawns writers that each bump the version in
  one read-write transaction (`TransactionRw`, `WriterRead`, `WriterWrite`,
  `Commit`) and readers that read it twice in one read-only transaction
  (`TransactionRo`, `ReaderRead1`, `ReaderRead2`). Then it joins them and
  reads the version. Variables: `db` (the committed `StoreVersion` entry),
  `lock` (the open read-write transaction), each thread's `pc`, transaction
  `view` and reads `v1`, `v2`, and main's `mainPc` and `final`. The isolation
  of the storage layer (one writer at a time, snapshot reads) is not in the
  sources and follows spec §5. Because the snapshot is assumed, no property
  is stated about the readers' two reads: it would hold whatever `store.rs`
  does. The readers stay in the model because their transactions interleave
  with the writers'.
* **`MC_Chainstate.tla`** fixes a block tree: `G - A1 - A2 - A3`, `B2` a
  child of `A1` with children `C3` and `D3`, and `X` a child of `A1` that
  fails `check_block`. `A2` spends an output of its own earlier
  transaction; `D3` spends `a2b`, which exists only on the `A` branch, so a
  reorganisation to `D3` must fail; `A3`, `C3`, `D3` compete at height 3, the
  last block of epoch 1 (epoch length 2, seal distance 1), where epoch 0 falls
  due for sealing.

* **`MC_Mempool.tla`** has five transactions: a chain `A → T → D` from a
  chain UTXO, `R` spending the same output as `T` (a replacement for `T` and
  `D`), and `E`, which is independent and two bytes long. `A` is flagged
  replaceable. Fees give `T` the lowest descendant score once `D` has
  arrived, and `max_size = 3` makes `E`'s arrival trim, so eviction takes a
  transaction from the middle of a chain. `max_tx_age = 1` with a clock of
  three instants expires some transactions and not others. An incremental
  relay fee rate of 2 makes a trim of `T` (rate 1) raise the minimum to 3,
  which `T` cannot pay and the others can. A base halflife of 2 with a decay
  interval of 0 lets the rate decay by a fraction of a halving, by a whole
  halving, or, below the threshold of 1, be dropped.
* **`MC_TxVerifier.tla`** has two coin and two token outputs on chain and
  the StakePool output `sA` of pool `pA` (balance 3; `pB` has balance 6),
  ten transactions (a token issuance that burns a coin, a transfer of
  coins and tokens together, an input sum that overflows, a token output
  above its input, a spend of a burn output, a chain of three paying
  fees, a stake pool creation, and one with two StakePool outputs) and
  ten rewards. The chain's tx index holds `X1` (`c1`, `c2`), `X2` (`k1`,
  `k2`) and `X3` (`sA`, and `z1`, spent by an earlier block), so a flush
  must keep a spender it did not write. The four PoW rewards are exact, under the ceiling, a token,
  and an output sum that overflows. The six PoS rewards are: a Transfer
  kernel; `sA` restaked in `pA` (accepted, or a ceiling sum that overflows
  once the fees reach 2); `sA` restaked for another staker; `sA` restaked
  into `T9`'s pool (whose data is only found while `T9` is connected);
  `sA` restaked crediting `pB` (the balance overflows); and two reward
  outputs. `T8` spends `T6`'s output, so `T6` cannot be disconnected
  before `T8`.
* **`MC_ConsensusRules.tla`** extends `ConsensusRules` and `Signature`. For
  signatures it fixes outpoints `a`, `b`, `c` (`a` and `b` spend the same
  output `u1`), outputs `x`, `y`, one header, two keys and `MaxInputs = 2`.
  `MCSpec` steps the signed transactable only once the target and the
  height reach the ends of their ranges, so the two ranges add up (2,412
  states) instead of multiplying.
* **`MC_BlockchainStore.tla`** has two writers bumping by 3 and 5 and two
  readers, starting from version 2.

## 3. Runs

| Run | Config | Expect | What it shows |
|---|---|---|---|
| `chainstate_ledger` | `MC_Chainstate.cfg` | pass | With invalid blocks, orphans, failing reorganisations, two failing commits with retry, a failing seal and a crash: `ChainSpendsOnlyUnspent` (no double spend along the best chain), `LedgerMatchesChain` (the UTXO set and undo data are exactly those of the best chain, spec invariants 1 and 4), `BestChainIsMostTrusted` (spec invariant 3), `ImplementsBlockTree` (refinement), and `TxIndexMatchesFlag` (with the restart configured either way, the stored tx indexes are exactly the main chain's when the stored flag is set and none when it is clear). About 39,000 states. |
| `chainstate_events` | `MC_Chainstate_events.cfg` | pass | No seal failure, up to three orphans: when idle, every orphan waits for an unknown parent (`OrphansAwaitUnknownParent`) and the last NewTip names the tip (`TipEventMatchesBest`), although nested calls broadcast first. About 54,000 states. |
| `seal_twice` | `MC_Chainstate_sealtwice.cfg` | violation | `EpochSealedAtMostOnce` fails: C3 then D3 (a side block at the due height) each seal epoch 0. |
| `seal_lost` | `MC_Chainstate_seallost.cfg` | violation | `EpochSealedOnceDue` fails: the seal transaction after A3's commit fails and nothing seals epoch 0 afterwards. |
| `mempool_store` | `MC_Mempool.cfg` | pass | Every ordering of ids, arrivals, replacements, expiry and trim. Parent/child links match the spend graph (`LinksMatchSpends`). No pooled transaction loses an input (`PoolInputsAvailable`). The insertion order that `into_transactions` replays lists every pooled parent before its children (`InsertionOrderReplayable`), because expiry, trim and replacement always remove whole descendant sets. `spender_txs` is exact (`SpenderIndexExact`). Ancestor aggregates are exact (`AncestorStateExact`). Both score indices file every entry once, at its current score, with no empty bucket (`ScoreIndexesExact`, `NoEmptyScoreBuckets`). The rolling minimum fee rate falls only after a new tip has come since it last rose (`MinFeeFallsOnlyAfterNewTip`), although a rejected transaction can decay it. About 50,000 states. |
| `mempool_descendants` | `MC_Mempool_desc.cfg` | violation | `DescendantStateExact` fails. With `A → T → D` pooled, `E` arrives and trim evicts `T` with `D`. `A` keeps count 2 (and `D`'s fee) in its descendant aggregates. |
| `collect_order` | `MC_Mempool_collect.cfg` | violation | `CollectedTxsInDependencyOrder` fails. After `A`, `T` and `D` are added, `collect_txs` offers `A`, `D`, `T`: `D` comes before its parent. |
| `consensus_operators` | `MC_ConsensusRules.cfg` | pass | For every 8-bit target from 1 to 254, `~t / (t+1) + 1` equals `2^8 div (t+1)` (`BlockProofMatchesSpec`). For each of them, the stake kernel check passes exactly when the output is a pool's, the balance is found and `hash <= balance * target` holds of the integers, for every output purpose, every 4-bit balance and six VRF outputs at the ends and the middle of the range (`StakeKernelMatchesSpec`). For every transactable of one or two inputs over three outpoints (two of which spend equal outputs), up to two outputs, with and without a header, a signature by either key under each of the six sighash types is accepted by `verify_signature` on exactly the transactables that agree with the signed one on what that type commits to, under no other key or named type, and `NoSignature` never stands for a key (`SignatureCommitsPerSigHashType`). |
| `seed_epoch` | `MC_ConsensusRules_seed.cfg` | violation | `SeedStableWithinEpoch` fails. With epochs of 2 blocks sealed 1 behind, block 4 is checked against epoch 0's randomness and block 5 against the initial randomness. |
| `block_amounts` | `MC_TxVerifier.cfg` | pass | Every block of up to four of the ten transactions and any of the ten PoW and PoS rewards: while transactions connect, the coins taken from the UTXO set equal the coins added plus the fee sum; an accepted block adds at most the subsidy (`CoinConservation`, spec invariant 2); no token supply grows (`TokensNotCreated`). Disconnecting the accepted block's transactions and reward, in any order `can_disconnect_transaction` allows, leaves the UTXO set equal to the chain's with exactly the still-connected ones applied (`UndoRestoresLedger`, spec property 3), and the stake pools (their parameters, and balances with the subsidy while a PoS reward is connected) and issued tokens are likewise those of the still-connected transactions. The tx-index cache, flushed onto the stored indexes, holds an index for exactly the chain's and the connected transactables' sources, marks unspent exactly the outputs in the UTXO set, records each connected input's spender, and can always unspend a transaction `can_disconnect_transaction` allows (`TxIndexMatchesLedger`). About 730 states. |
| `store_transactions` | `MC_BlockchainStore.cfg` | pass | Every interleaving of two writer and two reader threads: no bump is lost (`BumpsNotLost`), the write transaction is held only between open and commit (`TypeOK`), and the program terminates (`ProgramTerminates`). About 740 states. |
| `block_deltas` | `MC_TxVerifier_deltas.cfg` | violation | `BlockDeltasMatchAccounting` fails: the PoS reward `R6` credits pool `pA` in the accounting delta (balance 6) but not in the block's delta (balance 3). |

Every property of a passing run has a mutant in `PROJECT.json`: an operator
that changes one definition the way a plausible bug would (the spent check
dropped, disconnect without restoring, a swallowed reorganisation error,
`>=` for `>`, the first tip kept instead of the last, children read but not
taken from the pool, a reorganisation without disconnect, `>` for `>=` in
the retry bound). TLC finds each property violated under its mutant.

## 4. Bounds and why they suffice

Seven blocks cover every branch of `attempt_to_process_block`: unknown parent
(from a peer and, after eviction, locally), invalid block, duplicate block,
side block, extension, reorganisation that succeeds (to `C3`) and one that
fails (to `D3`), and a tie at the seal height. `MaxSubmits = 6` lets a
whole branch arrive out of order. `MaxDbCommitAttempts = 1` with two commit
failures reaches both the retry and the give-up path. One seal failure and
one crash reach each failure point between the pipeline's steps. The orphan
pool holds one block in the ledger run (so eviction happens) and three in the
events run (so a chain of orphans with two children of one block is drained
recursively).

For the mempool, five transactions and four admissions are enough to reach
each removal path with a chain of three: trim evicting from the middle, a
replacement that drops a conflict together with its descendant (in either id
order), and expiry of a parent that takes its children with it. All 120
id orders are explored. Rule 5 is set to two candidates, so replacing `T`
passes whether or not `D` is pooled. For the rolling fee, the three instants of the
clock give decays over one and two ticks after a bump and a new tip, and a
rejection by the minimum fee counts as one of the four admissions. The checks use only safety properties,
so `Mempool` has no fairness.

For the verifier's amounts, a 3-bit `Amount` makes every sum the code
checks overflow in some block: two inputs of 5 and 4, two reward outputs of
6 and 3, and a kernel of 3 with subsidy 3 and a fee sum of 2; pool `pB`'s
balance of 6 overflows when credited. Each way a PoS reward can fail its
stake check is one reward, and `R8` passes or fails with `T9` in the block.
Four transactions per block reach chains of three dependent transactions
and a rejection after several accepted ones. The chain `T6 → T8` makes
`can_disconnect_transaction` refuse a disconnection.

For signatures, two inputs are the fewest where the inputs modes differ
(another input can change) and Single can name an output past the last;
outpoints `a` and `b` spend equal outputs, so an input swapped for one with
the same UTXO is told apart only by its outpoint; two keys and a header
against none cover signing by the wrong key and a reward against a
transaction.

For the store, two writers make the read-modify-write race possible and two
readers let a commit fall between the two reads of one reader while the
other reads before or after it. More threads repeat the same interleavings.

## 5. Fairness

`Spec` has weak fairness on the engine's steps (`EngineStep`): spec §5 says a
block's processing, once begun, runs to completion or failure without
cancellation. Peers and crashes get no fairness. The configurations set
`CHECK_DEADLOCK FALSE` because the engine is idle, legitimately, once peers
stop sending blocks.

`BlockchainStore` has weak fairness per thread and for main: they are OS
threads (`std::thread::spawn`), and a thread that can step is eventually
scheduled. A writer waiting for the write lock is disabled, so weak fairness
suffices once the holder commits. The configuration sets `CHECK_DEADLOCK
FALSE` because the program stops once main has read the final version.

## 6. Findings

1. **Double seal** (`seal_twice`): `activate_seal_epoch` is called with the
   height of every committed block, on the best chain or not, so an epoch's
   delta is added to sealed storage once per block at the due height.
2. **Lost seal** (`seal_lost`): the seal is a separate transaction after the
   commit; when it fails the block stays committed, the caller gets Err,
   the epoch stays unsealed until another block at the due height (a
   sibling, as in `seal_twice`) happens to seal it, its orphans are not
   drained and no NewTip is sent. The spec orders the seal after draining and broadcast.
3. **Subsidy missing from the block's accounting delta**
   (`block_deltas`): `connect_block_reward` credits a PoS block's subsidy
   with `accounting_delta.increase_pool_balance` alone, and the reward's
   disconnection undoes it there alone. Pool creation, and its undo, are
   merged into both `accounting_delta` and the block's entry of
   `accounting_block_deltas`. The per-block deltas are what an epoch's seal
   merges (spec §4.1 step 8), so sealed pool balances lack every subsidy
   that the tip's balances have.

   An observation outside the runs: `process_db_commit_error` gives up at
   `attempt_number >= max_db_commit_attempts` from attempt 0, so it makes
   `max_db_commit_attempts + 1` commits (`Chainstate` models this; its
   `TypeOK` bounds the attempt number by the maximum).

4. **Stale descendant aggregates** (`mempool_descendants`):
   `drop_tx_and_descendants` removes the transaction before its
   descendants. `remove_tx` has already cut the descendants' parent links,
   so when a descendant is removed, the ancestors above the dropped
   transaction are unreachable. They keep its count, fee and size in
   `*_with_descendants`. `drop_conflicts` does the same when a conflict
   comes before its descendant in id order. The stale sums feed the
   descendant score that trim evicts by, and replacement rule 5.
   `refresh_descendants` prunes the wrong index (`store.rs:305`). This is
   harmless: ancestor aggregates never change after an entry is created, so
   re-filing never moves an entry out of its bucket. `NoEmptyScoreBuckets`
   holds.

5. **Seed of the last block of an epoch** (`seed_epoch`): at the last
   block of epoch E, `randomness_of_sealed_epoch` reads epoch E−D. That
   epoch is sealed by `activate_seal_epoch` only after this block commits,
   so the block is checked against the initial randomness. The other blocks
   of E use epoch E−D−1. If a side branch sealed E−D earlier (finding 1),
   the block gets E−D's randomness instead, so the seed depends on the order
   in which blocks were processed.

6. **Block template out of dependency order** (`collect_order`):
   `collect_txs` walks `txs_by_ancestor_score` from the highest score down
   and offers transactions one by one. A transaction's ancestor score is the
   smaller of its package rate and its own rate. So a child that pays more
   than its parent scores above it: `A` (fee 6), `T` (fee 1, spends `A`)
   and `D` (fee 3, spends `T`) score 6, 1 and 3, and `D` is offered before
   `T`. A block filled from the accumulator in that order fails to connect
   (`MissingOutputOrSpent`). Bitcoin Core, which the mempool follows, adds
   a transaction's ancestors with it.

## 7. Not modelled, and the plan

Next work, most important first:

1. **The pool a PoS block names**: `pos_data.stake_pool_id()` chooses
   the balance that weights the kernel hash and the pool credited with the
   subsidy. Nothing compares it with the kernel's pool (listed as a
   hazard); `TxVerifier` accepts a block crediting another pool. The spec
   states no rule, and this `consensus_data.rs` has no such field, so no
   property is stated yet.
2. **Rolling minimum fee**: the decay after a new tip counts from
   `last_rolling_fee_update`, which neither the bump nor `new_tip_set`
   refreshes (Bitcoin Core, which the code follows, resets the time at a
   new block). So the first decay after a block also counts the time before
   the bump. The model reproduces this. No property states an expectation,
   because the sources do not say when the decay should start.
3. **Mempool and chainstate together**: the chain UTXO set changes while
   `validate_transaction` awaits the chainstate.
4. **Transaction verifier caches**: mempool `TransactionSource`,
   `derive_child` layers and `consume`, refining the ledger part of
   `Chainstate`.
5. **Block storage tables**: the store's transactions are in
   `BlockchainStore`; the block, index and height tables are not.

`spend_cache.rs` is not compiled (no module declares it); `TxVerifier`
uses its cache operations for the tx-index cache, whose own code is not
among the sources, but not its block-reward maturity check, amount check
or signature check (the live versions of these are in the verifier), nor
the position and output count of a `TxMainChainIndex`.
The signature hash is modelled only above the bytes: the hash and the
signature scheme are taken as injective and unforgeable, and the preimage's
encoding is not modelled (a reward and a transaction stream different
fields without a tag, but the sources show no collision). Classical multisig and the
free functions `signature_hash_for_inputs/outputs`, which nothing calls,
are left out.
`calculate_staker_balance` and `make_delegation_id` (`pos_accounting`
helpers) have no caller in the sources, and no modelled component holds
delegation shares, so they are left out. `into_transactions` also has no
caller here (the reorg re-insertion is not among the sources). The model
checks only the order it would hand back (`InsertionOrderReplayable`).
`BlockIndexHistoryIterator` (`block_index_history_iter.rs`) is a read-only
walk; its early end at an id with no block index cannot be reached, since a
block is indexed only once its parent is known and the index only grows.
Out of reach or out of scope: key generation, VRF and hashing (cryptography),
storage encodings (I/O), configuration and launcher code, p2p transport
traits and the test suites.
