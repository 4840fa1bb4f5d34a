----------------------------- MODULE Chainstate -----------------------------
(***************************************************************************)
(* The chainstate block-processing pipeline of                             *)
(* src/chainstate/src/detail/mod.rs: process_block and its retry loop      *)
(* attempt_to_process_block, the commit of one storage transaction per     *)
(* attempt, the epoch seal in a second storage transaction, the recursive  *)
(* draining of the orphan pool and the NewTip broadcast.  The ledger is   *)
(* the UTXO set with per-block undo data, maintained by connecting and     *)
(* disconnecting transactions as the transaction verifier does             *)
(* (src/chainstate/tx-verifier/src/transaction_verifier/mod.rs).           *)
(*                                                                         *)
(* A call of process_block, and the nested calls it makes for orphans, is  *)
(* a stack of frames; one step of the model is one storage transaction or  *)
(* one in-memory step of the top frame, so a crash or a failing commit can *)
(* fall between any two of them.                                           *)
(***************************************************************************)
EXTENDS Integers, Sequences, SequencesExt, FiniteSets, TLC

CONSTANTS
    Genesis,            \* id of the genesis block
    Blocks,             \* ids of the other blocks a peer may announce
    Parent,             \* Parent[b]: prev_block_id of block b
    Txs,                \* Txs[b]: the block's transactables in order, each [ins, outs]
    GenesisUtxos,       \* the outputs created by the genesis block
    Invalid,            \* blocks that check_block rejects
    EpochLength,        \* chain_config.epoch_length()
    SealedEpochDistance,\* chain_config.sealed_epoch_distance_from_tip()
    MaxOrphans,         \* chainstate_config.max_orphan_blocks
    MaxDbCommitAttempts,\* chainstate_config.max_db_commit_attempts
    MaxSubmits,         \* bound: blocks handed to process_block by peers
    MaxCommitFailures,  \* bound: failing commits of block transactions
    MaxSealFailures,    \* bound: failing storage transactions of the epoch seal
    MaxCrashes          \* bound: process restarts

NONE == "none"          \* Ok(None): no new tip
ERR  == "err"           \* Err(BlockError)

VARIABLES
    index,      \* blocks with a persisted BlockIndex (genesis is implicit)
    chain,      \* block-id-by-height, heights 1..Len(chain); the tip is Last(chain)
    utxo,       \* the persisted UTXO set
    undo,       \* per-block undo data: undo[b][i] = the UTXOs spent by b's i-th transactable
    orphans,    \* the orphan pool, in insertion order (in memory)
    sealed,     \* the epoch deltas written to sealed storage, in order
    lastEvent,  \* the last NewTip event seen by a subscriber (in memory)
    stack,      \* frames of the process_block calls in progress
    txIndexEnabled, \* chainstate_config.tx_index_enabled of the running process
    txIndexFlag,    \* the stored is_mainchain_tx_index_enabled flag
    txIndexed,      \* blocks whose transactions have a stored tx index
    submits, commitFails, sealFails, crashes   \* counters for the bounds

txIndexVars == <<txIndexEnabled, txIndexFlag, txIndexed>>

vars == <<index, chain, utxo, undo, orphans, sealed, lastEvent, stack,
          submits, commitFails, sealFails, crashes, txIndexVars>>

-----------------------------------------------------------------------------
(* The block tree.                                                          *)

RECURSIVE BranchTo(_)
\* The main-chain sequence that ends at b (genesis excluded).
BranchTo(b) == IF b = Genesis THEN <<>> ELSE Append(BranchTo(Parent[b]), b)

Height(b) == Len(BranchTo(b))

Known == index \cup {Genesis}

Tip == IF chain = <<>> THEN Genesis ELSE Last(chain)

\* chain_config.epoch_index_from_height
EpochIndex(h) == h \div EpochLength

\* chain_config.is_last_block_in_epoch, which is_due_for_epoch_data_calculation tests
IsLastBlockInEpoch(h) == (h + 1) % EpochLength = 0

-----------------------------------------------------------------------------
(* The ledger: connecting and disconnecting transactables.  A state is      *)
(* [ok, utxo, undo]; a failed connect sets ok to FALSE and the storage      *)
(* transaction that carries it is dropped.                                  *)

\* Mutant: the missing-or-spent check of the UTXO cache is skipped.
ConnectTxNoSpentCheck(st, tx) ==
    IF st.ok /\ tx.outs \cap st.utxo = {}
    THEN [ok |-> TRUE, utxo |-> (st.utxo \ tx.ins) \cup tx.outs,
          txUndo |-> Append(st.txUndo, tx.ins)]
    ELSE [st EXCEPT !.ok = FALSE]

\* connect_transaction / connect_block_reward: every input must be an
\* unspent output, no output may overwrite one, the spent UTXOs are the undo.
ConnectTx(st, tx) ==
    IF st.ok /\ tx.ins \subseteq st.utxo /\ tx.outs \cap st.utxo = {}
    THEN [ok |-> TRUE, utxo |-> (st.utxo \ tx.ins) \cup tx.outs,
          txUndo |-> Append(st.txUndo, tx.ins)]
    ELSE [st EXCEPT !.ok = FALSE]

\* Connecting a block: its transactables in order, the undo saved per block.
ConnectBlock(st, b) ==
    LET r == FoldLeft(ConnectTx, [ok |-> st.ok, utxo |-> st.utxo, txUndo |-> <<>>], Txs[b])
    IN  [ok |-> r.ok, utxo |-> r.utxo, undo |-> st.undo @@ (b :> r.txUndo)]

\* Mutant: the outputs are removed but the spent UTXOs are not restored.
DisconnectBlockNoRestore(st, b) ==
    [ok |-> st.ok,
     utxo |-> st.utxo \ UNION {Txs[b][i].outs : i \in DOMAIN Txs[b]},
     undo |-> [x \in DOMAIN st.undo \ {b} |-> st.undo[x]]]

\* disconnect_transaction: the outputs are removed and the spent UTXOs
\* restored from the undo data, last transactable first; the undo is consumed.
DisconnectBlock(st, b) ==
    LET DisconnectTx(u, i) == (u \ Txs[b][i].outs) \cup st.undo[b][i]
        order == Reverse([i \in 1..Len(Txs[b]) |-> i])
    IN  [ok |-> st.ok,
         utxo |-> FoldLeft(DisconnectTx, st.utxo, order),
         undo |-> [x \in DOMAIN st.undo \ {b} |-> st.undo[x]]]

\* Height of the last common ancestor of the main chain and a branch.
ForkHeight(target) ==
    Max({k \in 0..Min({Len(chain), Len(target)}) :
            SubSeq(chain, 1, k) = SubSeq(target, 1, k)})

\* Mutant: the new branch is connected on top of the old tip's state,
\* without disconnecting the blocks above the common ancestor.
ReorganizeNoDisconnect(newTip) ==
    LET target == BranchTo(newTip)
        fork   == ForkHeight(target)
    IN  FoldLeft(ConnectBlock, [ok |-> TRUE, utxo |-> utxo, undo |-> undo],
                 SubSeq(target, fork + 1, Len(target)))

\* Reorganisation to newTip: disconnect from the tip down to the common
\* ancestor, then connect the new branch up from it.
Reorganize(newTip) ==
    LET target == BranchTo(newTip)
        fork   == ForkHeight(target)
        st0    == [ok |-> TRUE, utxo |-> utxo, undo |-> undo]
        st1    == FoldLeft(DisconnectBlock, st0, Reverse(SubSeq(chain, fork + 1, Len(chain))))
    IN  FoldLeft(ConnectBlock, st1, SubSeq(target, fork + 1, Len(target)))

\* The tx indexes written in the same storage transaction: with
\* tx_index_enabled the verifier's tx-index cache erases the indexes of the
\* disconnected blocks' transactions and adds those of the connected ones
\* (connect_transaction, add_tx_index, remove_tx_index, only for a Chain
\* source); without, OptionalTxIndexCache is off and the stored indexes
\* stay as they are.
TxIndexAfterReorg(newTip) ==
    LET target == BranchTo(newTip)
        fork   == ForkHeight(target)
    IN  IF txIndexEnabled
        THEN (txIndexed \ ToSet(SubSeq(chain, fork + 1, Len(chain))))
                \cup ToSet(SubSeq(target, fork + 1, Len(target)))
        ELSE txIndexed

\* Fork choice of activate_best_chain: only strictly more chain trust wins
\* (every block here contributes a block proof of 1).
IsMoreTrusted(b) == Height(b) > Len(chain)

-----------------------------------------------------------------------------
(* The orphan pool (check_legitimate_orphan and OrphanBlocksPool).          *)

\* add_block: the pools that may result.  A block already in the pool is not
\* stored twice; a full pool drops one of its blocks to make room.
AddOrphan(b) ==
    IF b \in ToSet(orphans) THEN {orphans}
    ELSE IF Len(orphans) < MaxOrphans THEN {Append(orphans, b)}
    ELSE {Append(RemoveAt(orphans, i), b) : i \in 1..Len(orphans)}

\* take_all_children_of: the blocks whose parent is b, removed from the pool.
ChildrenOf(b) == SelectSeq(orphans, LAMBDA o : Parent[o] = b)

-----------------------------------------------------------------------------
(* Frames of process_block calls.                                           *)

Top == Last(stack)

NewFrame(b, src) ==
    [blk |-> b, src |-> src, attempt |-> 0, phase |-> "attempt",
     res |-> NONE, kids |-> <<>>, kres |-> <<>>]

\* The top frame returns r to the frame that called it (if any).
ReturnWith(r) ==
    LET rest == Front(stack)
    IN  stack' = IF rest = <<>> THEN rest
                 ELSE [rest EXCEPT ![Len(rest)].kres = Append(@, r)]

SetTop(f) == stack' = [stack EXCEPT ![Len(stack)] = f]

-----------------------------------------------------------------------------
(* Actions.                                                                 *)

Init ==
    /\ index = {}
    /\ chain = <<>>
    /\ utxo = GenesisUtxos
    /\ undo = [b \in {} |-> <<>>]
    /\ orphans = <<>>
    /\ sealed = <<>>
    /\ lastEvent = NONE
    /\ stack = <<>>
    /\ submits = 0 /\ commitFails = 0 /\ sealFails = 0 /\ crashes = 0
    /\ txIndexEnabled \in BOOLEAN
    /\ txIndexFlag = txIndexEnabled
    /\ txIndexed = {}

\* A peer hands a block to process_block (attempt 0).
ProcessBlock(b) ==
    /\ stack = <<>>
    /\ submits < MaxSubmits
    /\ stack' = <<NewFrame(b, "Peer")>>
    /\ submits' = submits + 1
    /\ UNCHANGED <<index, chain, utxo, undo, orphans, sealed, lastEvent,
                   commitFails, sealFails, crashes, txIndexVars>>

\* attempt_to_process_block up to the commit, when it ends in an error:
\* the orphan check, check_block, accept_block of a known block, or a
\* failed reorganisation.  The storage transaction is dropped.
AttemptRejected ==
    /\ stack # <<>>
    /\ Top.phase = "attempt"
    /\ LET b == Top.blk IN
       \/ /\ Parent[b] \notin Known
          /\ orphans' \in IF Top.src = "Peer" THEN AddOrphan(b) ELSE {orphans}
       \/ /\ Parent[b] \in Known
          /\ \/ b \in Invalid
             \/ b \in index
             \/ IsMoreTrusted(b) /\ ~Reorganize(b).ok
          /\ UNCHANGED orphans
    /\ ReturnWith(ERR)
    /\ UNCHANGED <<index, chain, utxo, undo, sealed, lastEvent, submits,
                   commitFails, sealFails, crashes, txIndexVars>>

\* Mutant: an error of activate_best_chain is swallowed, so the block index
\* is committed although the chain stays where it was.
AttemptCommittedIgnoringReorgError ==
    /\ stack # <<>>
    /\ Top.phase = "attempt"
    /\ LET b == Top.blk
           r == Reorganize(b)
       IN
       /\ Parent[b] \in Known
       /\ b \notin Invalid
       /\ b \notin index
       /\ index' = index \cup {b}
       /\ IF IsMoreTrusted(b) /\ r.ok
            THEN /\ chain' = BranchTo(b)
                 /\ utxo' = r.utxo
                 /\ undo' = r.undo
                 /\ txIndexed' = TxIndexAfterReorg(b)
            ELSE UNCHANGED <<chain, utxo, undo, txIndexed>>
       /\ SetTop([Top EXCEPT !.phase = "seal",
                             !.res = IF IsMoreTrusted(b) /\ r.ok THEN b ELSE NONE])
    /\ UNCHANGED <<orphans, sealed, lastEvent, submits, commitFails, sealFails, crashes,
                   txIndexEnabled, txIndexFlag>>

\* The block passed every check and is accepted and activated in the storage
\* transaction, and the commit succeeds.
AttemptCommitted ==
    /\ stack # <<>>
    /\ Top.phase = "attempt"
    /\ LET b == Top.blk
           r == Reorganize(b)
       IN
       /\ Parent[b] \in Known
       /\ b \notin Invalid
       /\ b \notin index
       /\ IsMoreTrusted(b) => r.ok
       /\ index' = index \cup {b}
       /\ IF IsMoreTrusted(b)
            THEN /\ chain' = BranchTo(b)
                 /\ utxo' = r.utxo
                 /\ undo' = r.undo
                 /\ txIndexed' = TxIndexAfterReorg(b)
            ELSE UNCHANGED <<chain, utxo, undo, txIndexed>>
       /\ SetTop([Top EXCEPT !.phase = "seal",
                             !.res = IF IsMoreTrusted(b) THEN b ELSE NONE])
    /\ UNCHANGED <<orphans, sealed, lastEvent, submits, commitFails, sealFails, crashes,
                   txIndexEnabled, txIndexFlag>>

\* Mutant: the retry bound is tested with > instead of >=.
AttemptCommitFailedPastLimit ==
    /\ stack # <<>>
    /\ Top.phase = "attempt"
    /\ commitFails < MaxCommitFailures
    /\ LET b == Top.blk IN
       /\ Parent[b] \in Known
       /\ b \notin Invalid
       /\ b \notin index
       /\ IsMoreTrusted(b) => Reorganize(b).ok
    /\ IF Top.attempt > MaxDbCommitAttempts
         THEN ReturnWith(ERR)
         ELSE SetTop([Top EXCEPT !.attempt = @ + 1])
    /\ commitFails' = commitFails + 1
    /\ UNCHANGED <<index, chain, utxo, undo, orphans, sealed, lastEvent,
                   submits, sealFails, crashes, txIndexVars>>

\* The same, but the commit fails: process_db_commit_error retries the whole
\* attempt with attempt_number + 1, or gives up with DatabaseCommitError.
AttemptCommitFailed ==
    /\ stack # <<>>
    /\ Top.phase = "attempt"
    /\ commitFails < MaxCommitFailures
    /\ LET b == Top.blk IN
       /\ Parent[b] \in Known
       /\ b \notin Invalid
       /\ b \notin index
       /\ IsMoreTrusted(b) => Reorganize(b).ok
    /\ IF Top.attempt >= MaxDbCommitAttempts
         THEN ReturnWith(ERR)
         ELSE SetTop([Top EXCEPT !.attempt = @ + 1])
    /\ commitFails' = commitFails + 1
    /\ UNCHANGED <<index, chain, utxo, undo, orphans, sealed, lastEvent,
                   submits, sealFails, crashes, txIndexVars>>

\* activate_seal_epoch after the commit, in a storage transaction of its own,
\* followed on success by take_all_children_of for the orphan pool.
EpochToSeal(h) == EpochIndex(h) - SealedEpochDistance

IsDueForSeal(h) == IsLastBlockInEpoch(h) /\ EpochIndex(h) >= SealedEpochDistance

\* The main-chain blocks of an epoch whose deltas are merged (genesis skipped).
EpochBlocks(e) ==
    {chain[h] : h \in {x \in e * EpochLength .. (e + 1) * EpochLength - 1 : x >= 1}}

\* Mutant: the children are read from the pool but not taken out of it.
ActivateSealEpochKeepingOrphans ==
    /\ stack # <<>>
    /\ Top.phase = "seal"
    /\ LET h == Height(Top.blk) IN
       /\ sealed' = IF IsDueForSeal(h)
                      THEN Append(sealed, [epoch |-> EpochToSeal(h),
                                           blocks |-> EpochBlocks(EpochToSeal(h))])
                      ELSE sealed
       /\ SetTop([Top EXCEPT !.phase = "orphans", !.kids = ChildrenOf(Top.blk)])
    /\ UNCHANGED <<index, chain, utxo, undo, orphans, lastEvent, submits, commitFails,
                   sealFails, crashes, txIndexVars>>

ActivateSealEpoch ==
    /\ stack # <<>>
    /\ Top.phase = "seal"
    /\ LET h == Height(Top.blk) IN
       /\ sealed' = IF IsDueForSeal(h)
                      THEN Append(sealed, [epoch |-> EpochToSeal(h),
                                           blocks |-> EpochBlocks(EpochToSeal(h))])
                      ELSE sealed
       /\ orphans' = SelectSeq(orphans, LAMBDA o : Parent[o] # Top.blk)
       /\ SetTop([Top EXCEPT !.phase = "orphans", !.kids = ChildrenOf(Top.blk)])
    /\ UNCHANGED <<index, chain, utxo, undo, lastEvent, submits, commitFails,
                   sealFails, crashes, txIndexVars>>

\* The seal's storage transaction fails: the error is returned to the caller
\* although the block is committed; orphans are not drained, no event is sent.
SealFailed ==
    /\ stack # <<>>
    /\ Top.phase = "seal"
    /\ IsDueForSeal(Height(Top.blk))
    /\ sealFails < MaxSealFailures
    /\ sealFails' = sealFails + 1
    /\ ReturnWith(ERR)
    /\ UNCHANGED <<index, chain, utxo, undo, orphans, sealed, lastEvent,
                   submits, commitFails, crashes, txIndexVars>>

\* process_orphans: the next taken child is processed as a Local block.
ProcessNextOrphan ==
    /\ stack # <<>>
    /\ Top.phase = "orphans"
    /\ Len(Top.kres) < Len(Top.kids)
    /\ stack' = Append(stack, NewFrame(Top.kids[Len(Top.kres) + 1], "Local"))
    /\ UNCHANGED <<index, chain, utxo, undo, orphans, sealed, lastEvent,
                   submits, commitFails, sealFails, crashes, txIndexVars>>

\* The last new tip among the orphans' results overrides this block's own;
\* the result is broadcast as NewTip and returned.
\* Mutant: the first new tip among the orphans' results is kept.
FirstTipOf(rs) ==
    LET tips == SelectSeq(rs, LAMBDA r : r \in Blocks)
    IN  IF tips = <<>> THEN NONE ELSE Head(tips)

LastTipOf(rs) ==
    LET tips == SelectSeq(rs, LAMBDA r : r \in Blocks)
    IN  IF tips = <<>> THEN NONE ELSE Last(tips)

\* broadcast_new_tip_event: a NewTip event for a new tip, none otherwise.
BroadcastNewTipEvent(res) == IF res # NONE THEN res ELSE lastEvent

FinishProcessBlock ==
    /\ stack # <<>>
    /\ Top.phase = "orphans"
    /\ Len(Top.kres) = Len(Top.kids)
    /\ LET res == IF LastTipOf(Top.kres) # NONE THEN LastTipOf(Top.kres) ELSE Top.res
       IN  /\ lastEvent' = BroadcastNewTipEvent(res)
           /\ ReturnWith(res)
    /\ UNCHANGED <<index, chain, utxo, undo, orphans, sealed, submits,
                   commitFails, sealFails, crashes, txIndexVars>>

\* check_genesis on a non-empty store: the block at height 1 must exist and
\* its parent must be the configured genesis.
CheckGenesis == IF chain = <<>> THEN TRUE ELSE Parent[chain[1]] = Genesis

\* Mutant: the stored flag is not compared with the configuration.
ProcessTxIndexEnabledFlagUnchecked(flag, cfg) == TRUE

\* process_tx_index_enabled_flag on a store that has the flag: a
\* configured tx_index_enabled that differs from it is TxIndexConfigError
\* and Chainstate::new fails; the flag itself is left as it is.
ProcessTxIndexEnabledFlag(flag, cfg) == flag = cfg

\* The process stops and Chainstate::new restarts on the persisted state:
\* the orphan pool, the calls in progress and the subscribers are gone.
\* The restarted process may be configured either way.
Restart ==
    /\ crashes < MaxCrashes
    /\ \E cfg \in BOOLEAN :
          /\ ProcessTxIndexEnabledFlag(txIndexFlag, cfg)
          /\ txIndexEnabled' = cfg
    /\ CheckGenesis
    /\ stack # <<>>
    /\ crashes' = crashes + 1
    /\ stack' = <<>>
    /\ orphans' = <<>>
    /\ lastEvent' = NONE
    /\ UNCHANGED <<index, chain, utxo, undo, sealed, submits, commitFails, sealFails,
                   txIndexFlag, txIndexed>>

Next ==
    \/ \E b \in Blocks : ProcessBlock(b)
    \/ AttemptRejected
    \/ AttemptCommitted
    \/ AttemptCommitFailed
    \/ ActivateSealEpoch
    \/ SealFailed
    \/ ProcessNextOrphan
    \/ FinishProcessBlock
    \/ Restart

\* A call, once begun, runs to completion (no cancellation): its steps are
\* weakly fair.  Peers and crashes are not.
EngineStep ==
    AttemptRejected \/ AttemptCommitted \/ AttemptCommitFailed \/ ActivateSealEpoch
    \/ SealFailed \/ ProcessNextOrphan \/ FinishProcessBlock

Spec == Init /\ [][Next]_vars /\ WF_vars(EngineStep)

-----------------------------------------------------------------------------
(* Properties.                                                              *)

TypeOK ==
    /\ index \subseteq Blocks
    /\ chain \in Seq(Blocks)
    /\ orphans \in Seq(Blocks)
    /\ lastEvent \in Blocks \cup {NONE}
    /\ \A i \in DOMAIN stack :
         /\ stack[i].blk \in Blocks
         /\ stack[i].phase \in {"attempt", "seal", "orphans"}
         /\ stack[i].attempt \in 0..MaxDbCommitAttempts
    /\ DOMAIN undo = ToSet(chain)
    /\ txIndexEnabled \in BOOLEAN /\ txIndexFlag \in BOOLEAN
    /\ txIndexed \subseteq Blocks

\* The transactables of the main chain, in chain order.
ChainTxs == FlattenSeq([h \in DOMAIN chain |-> Txs[chain[h]]])

\* No double spend and no spend from nowhere: along the main chain every input
\* of a transactable is created by genesis or by an earlier transactable and
\* is spent by no other.  It is about connect_transaction's missing-or-spent
\* check and about reorganisations that leave a branch partly applied.
ChainSpendsOnlyUnspent ==
    \A j \in DOMAIN ChainTxs : \A o \in ChainTxs[j].ins :
        /\ o \in GenesisUtxos \cup UNION {ChainTxs[i].outs : i \in 1..j - 1}
        /\ \A i \in 1..j - 1 : o \notin ChainTxs[i].ins

\* Reorg round trip (spec invariant 4 and property 3): whatever sequence of
\* connects, disconnects, failed reorganisations, retried commits and crashes
\* happened, the persisted UTXO set is exactly what the main chain creates and
\* does not spend, and undo data exists for exactly the main-chain blocks and
\* records what each of their transactables spent.
LedgerMatchesChain ==
    /\ utxo = (GenesisUtxos \cup UNION {ChainTxs[i].outs : i \in DOMAIN ChainTxs})
                \ UNION {ChainTxs[i].ins : i \in DOMAIN ChainTxs}
    /\ DOMAIN undo = ToSet(chain)
    /\ \A b \in DOMAIN undo : undo[b] = [i \in DOMAIN Txs[b] |-> Txs[b][i].ins]

\* Fork choice (spec invariant 3): the height index is the branch of its tip,
\* every block on it is indexed, and no indexed block has more chain trust
\* than the tip, although blocks arrive in any order and reorganisations fail.
BestChainIsMostTrusted ==
    /\ chain = BranchTo(Tip)
    /\ ToSet(chain) \subseteq index
    /\ \A b \in index : Height(b) <= Len(chain)

\* The transaction index survives restarts with another configuration: the
\* stored is_mainchain_tx_index_enabled flag, written on the first start,
\* says whether the index is complete, so when it is set exactly the
\* main-chain blocks have their transactions indexed and when it is clear
\* none has, although every restart of Chainstate::new may be configured
\* with tx_index_enabled either way and reorganisations erase and rewrite
\* indexes (process_tx_index_enabled_flag).
TxIndexMatchesFlag == txIndexed = IF txIndexFlag THEN ToSet(chain) ELSE {}

\* The NewTip event (spec §4.1 step 7, the test check_last_event): when no call
\* is in progress, the last event a subscriber received names the current tip,
\* although nested orphan calls broadcast their own results first and the
\* outer call overrides its result with the last tip among them.
TipEventMatchesBest ==
    stack = <<>> /\ lastEvent # NONE => lastEvent = Tip

\* Orphan resolution (spec property 5): when no call is in progress, every
\* block in the orphan pool still waits for a parent that has no block index;
\* a block whose parent was accepted has been taken and processed.
OrphansAwaitUnknownParent ==
    stack = <<>> => \A o \in ToSet(orphans) : Parent[o] \notin Known

\* The height at whose processing epoch e falls due for sealing.
SealHeight(e) == (e + SealedEpochDistance + 1) * EpochLength - 1

\* Epoch sealing (spec §4.1 step 8): once the main chain has reached the
\* height at which an epoch falls due and no call is in progress, the epoch's
\* merged delta has been written to sealed storage.
EpochSealedOnceDue ==
    stack = <<>> =>
        \A e \in 0..Len(chain) : SealHeight(e) <= Len(chain) =>
            \E i \in DOMAIN sealed : sealed[i].epoch = e

\* A sealed epoch is one irreversible delta (spec §4.1 step 8, glossary): no
\* epoch's delta is flushed to sealed storage twice.
EpochSealedAtMostOnce ==
    \A i, j \in DOMAIN sealed : i # j => sealed[i].epoch # sealed[j].epoch

\* Refinement (spec §4.1 and invariant 3): the pipeline, with its retries,
\* failed commits and seals, orphan recursion, incremental reorganisations
\* and crashes, implements BlockTree with the block index as the accepted
\* set and the last block of the height index as the tip.  In particular a
\* reorganisation succeeds exactly when the new branch replays from genesis.
Abstract == INSTANCE BlockTree WITH accepted <- index, tip <- Tip

ImplementsBlockTree == Abstract!Spec

=============================================================================
