------------------------------- MODULE Mempool -------------------------------
(***************************************************************************)
(* The mempool of src/mempool/src/pool: MempoolStore (store.rs) with its   *)
(* per-entry aggregates over in-mempool ancestors and descendants, the two *)
(* score indices and the spent-outpoint index, and Mempool::add_transaction *)
(* (mod.rs): validation with the replace-by-fee rules, drop_conflicts,     *)
(* add_tx, remove_expired_transactions and trim, and the rolling minimum   *)
(* fee rate: read and decayed by validation, raised after trim, re-armed   *)
(* for decay by new_tip_set.                                               *)
(*                                                                         *)
(* add_transaction holds the mempool mutably from start to end, so one     *)
(* call is one step; the store operations it makes are operators on a      *)
(* store record, composed in the order the code calls them.  Sets of ids   *)
(* are iterated in the order of the transaction hashes, which the model    *)
(* fixes in Init as an arbitrary ranking of the transactions.              *)
(***************************************************************************)
EXTENDS Integers, FiniteSets, Sequences, SequencesExt, FiniteSetsExt, Functions, TLC

CONSTANTS
    Txs,                    \* transaction ids
    Ins,                    \* Ins[t]: the outpoints t spends
    Outs,                   \* Outs[t]: the outpoints t creates
    ChainUtxos,             \* outpoints in the chainstate's UTXO set
    Fee,                    \* Fee[t]: inputs minus outputs (try_get_fee)
    Size,                   \* Size[t]: encoded_size
    Replaceable,            \* transactions whose is_replaceable flag is set
    RelayFeePerByte,        \* RELAY_FEE_PER_BYTE
    MaxReplacementCandidates,\* MAX_BIP125_REPLACEMENT_CANDIDATES
    MaxSize,                \* max_size (MAX_MEMPOOL_SIZE_BYTES)
    MaxTxAge,               \* max_tx_age (DEFAULT_MEMPOOL_EXPIRY)
    IncrementalRelayFeeRate,\* INCREMENTAL_RELAY_FEE_RATE
    IncrementalRelayThreshold,\* INCREMENTAL_RELAY_THRESHOLD
    BaseHalflife,           \* ROLLING_FEE_BASE_HALFLIFE
    DecayInterval,          \* ROLLING_FEE_DECAY_INTERVAL
    MaxTime,                \* bound: clock ticks
    MaxAdds                 \* bound: calls of add_transaction

VARIABLES
    store,  \* the MempoolStore: [entries, desc, anc, spender, seq]
    now,    \* the clock
    rank,   \* the order of transaction ids (their hashes)
    adds,   \* counter for the bound
    rolling,\* the RollingFeeRate: [rate, blockSince, last]
    tipSinceRaise \* history: a new tip has been set since the rate last rose

vars == <<store, now, rank, adds, rolling, tipSinceRaise>>

Gr == INSTANCE Graphs

-----------------------------------------------------------------------------
(* The store.  entries is txs_by_id; desc and anc are txs_by_descendant_    *)
(* score and txs_by_ancestor_score, maps from a score to a set of ids;      *)
(* spender is spender_txs; seq is txs_by_seq_no in sequence order.  An      *)
(* entry is [id, parents, children, cntD, feeD, sizeD, cntA, feeA, sizeA,   *)
(* ctime].  The creation-time index is the ctime field.                     *)

EmptyStore ==
    [entries |-> <<>>, desc |-> <<>>, anc |-> <<>>, spender |-> <<>>, seq |-> <<>>]

Pool(S) == DOMAIN S.entries

\* Ids in the order a BTreeSet of them is iterated.
ById(ids) == SetToSortSeq(ids, LAMBDA a, b : rank[a] < rank[b])

RECURSIVE Walk(_, _, _, _)
\* unconfirmed_ancestors_inner / unconfirmed_descendants_inner: the closure
\* of a set of ids along the entries' parents (or children) fields.
Walk(S, frontier, visited, f) ==
    IF frontier = {} THEN visited
    ELSE LET next == UNION {S.entries[x][f] : x \in frontier} \ visited
         IN  Walk(S, next, visited \cup next, f)

UnconfirmedAncestors(S, parents) == Walk(S, parents, parents, "parents")

UnconfirmedDescendants(S, children) == Walk(S, children, children, "children")

SumFees(ids) == MapThenSumSet(LAMBDA x : Fee[x], ids)

SumSizes(ids) == MapThenSumSet(LAMBDA x : Size[x], ids)

\* TxMempoolEntry::descendant_score and ancestor_score (integer division).
DescendantScore(e) == Max({e.feeD \div e.sizeD, Fee[e.id] \div Size[e.id]})

AncestorScore(e) == Min({e.feeA \div e.sizeA, Fee[e.id] \div Size[e.id]})

\* Mutant: remove without dropping the bucket it empties.
RemoveFromIdxNoPrune(m, k, x) ==
    IF k \notin DOMAIN m THEN m ELSE [m EXCEPT ![k] = @ \ {x}]

\* BTreeMap<score, BTreeSet<id>>: insert, remove with pruning, and
\* retain(|_, txs| !txs.is_empty()).
InsertIdx(m, k, x) ==
    [j \in DOMAIN m \cup {k} |->
        (IF j \in DOMAIN m THEN m[j] ELSE {}) \cup (IF j = k THEN {x} ELSE {})]

RemoveFromIdx(m, k, x) ==
    IF k \notin DOMAIN m THEN m
    ELSE IF m[k] \ {x} = {} THEN Restrict(m, DOMAIN m \ {k})
    ELSE [m EXCEPT ![k] = @ \ {x}]

Pruned(m) == RestrictValues(m, LAMBDA v : v # {})

\* Remove the ids of the function score from every bucket and re-insert
\* each id under its score.
Refile(m, score) ==
    LET ids     == DOMAIN score
        cleared == [k \in DOMAIN m |-> m[k] \ ids]
    IN  [k \in DOMAIN cleared \cup Range(score) |->
            (IF k \in DOMAIN cleared THEN cleared[k] ELSE {})
                \cup {i \in ids : score[i] = k}]

\* Mutant: ancestors are not re-filed after their aggregates change.
RefreshAncestorsSkipped(S, e) == S

\* refresh_ancestors: the ancestors of e are re-filed by descendant score.
RefreshAncestors(S, e) ==
    LET anc == UnconfirmedAncestors(S, e.parents)
    IN  [S EXCEPT !.desc = Pruned(Refile(S.desc,
                               [a \in anc |-> DescendantScore(S.entries[a])]))]

\* refresh_descendants: the descendants of e are re-filed by ancestor score;
\* the pruning that follows is applied to the descendant-score index.
RefreshDescendants(S, e) ==
    LET ds == UnconfirmedDescendants(S, e.children)
    IN  [S EXCEPT !.anc  = Refile(S.anc, [d \in ds |-> AncestorScore(S.entries[d])]),
                  !.desc = Pruned(S.desc)]

\* update_ancestor_state_for_add (sign 1) and _for_drop (sign -1).
ShiftDescendantState(S, ids, t, sign) ==
    [S EXCEPT !.entries =
        [x \in DOMAIN S.entries |->
            IF x \in ids
            THEN [S.entries[x] EXCEPT !.feeD  = @ + sign * Fee[t],
                                      !.sizeD = @ + sign * Size[t],
                                      !.cntD  = @ + sign]
            ELSE S.entries[x]]]

\* Mutant: append_to_parents is not called.
AddTxWithoutAppendToParents(S, e) ==
    LET t  == e.id
        S2 == ShiftDescendantState(S, UnconfirmedAncestors(S, e.parents), t, 1)
        S3 == [S2 EXCEPT !.spender = [o \in DOMAIN S2.spender \cup Ins[t] |->
                                        IF o \in Ins[t] THEN t ELSE S2.spender[o]],
                         !.seq     = Append(S2.seq, t),
                         !.entries = S2.entries @@ (t :> e)]
        S4 == RefreshAncestors(S3, e)
    IN  [S4 EXCEPT !.desc = InsertIdx(S4.desc, DescendantScore(e), t),
                   !.anc  = InsertIdx(S4.anc, AncestorScore(e), t)]

\* add_tx: link to the parents, update the ancestors' descendant state, mark
\* the outpoints spent, take a sequence number, insert, and file the entry
\* (after re-filing its ancestors) in both score indices.
AddTx(S, e) ==
    LET t  == e.id
        S1 == [S EXCEPT !.entries =
                  [x \in DOMAIN S.entries |->
                      IF x \in e.parents
                      THEN [S.entries[x] EXCEPT !.children = @ \cup {t}]
                      ELSE S.entries[x]]]
        S2 == ShiftDescendantState(S1, UnconfirmedAncestors(S1, e.parents), t, 1)
        S3 == [S2 EXCEPT !.spender = [o \in DOMAIN S2.spender \cup Ins[t] |->
                                        IF o \in Ins[t] THEN t ELSE S2.spender[o]],
                         !.seq     = Append(S2.seq, t),
                         !.entries = S2.entries @@ (t :> e)]
        S4 == RefreshAncestors(S3, e)
    IN  [S4 EXCEPT !.desc = InsertIdx(S4.desc, DescendantScore(e), t),
                   !.anc  = InsertIdx(S4.anc, AncestorScore(e), t)]

\* update_for_drop: remove_from_parents and remove_from_children, each
\* of which expects the linked entry to be present.
UnlinkedEntries(S, e) ==
  IF ~Assert(e.parents \cup e.children \subseteq Pool(S), "remove_from_parents")
  THEN S.entries
  ELSE
    [x \in DOMAIN S.entries |->
        [S.entries[x] EXCEPT
            !.children = IF x \in e.parents THEN @ \ {e.id} ELSE @,
            !.parents  = IF x \in e.children THEN @ \ {e.id} ELSE @]]

\* remove_from_descendant_score_index: refresh_ancestors, then take the id
\* out of the bucket of the entry's (stored) descendant score.
RemoveFromDescendantScoreIndex(S, e) ==
    LET S1 == RefreshAncestors(S, e)
    IN  [S1 EXCEPT !.desc = RemoveFromIdx(S1.desc, DescendantScore(e), e.id)]

\* remove_from_ancestor_score_index: refresh_descendants, then take the id
\* out of the bucket of the entry's ancestor score.
RemoveFromAncestorScoreIndex(S, e) ==
    LET S1 == RefreshDescendants(S, e)
    IN  [S1 EXCEPT !.anc = RemoveFromIdx(S1.anc, AncestorScore(e), e.id)]

\* Mutant: unspend_outpoints is not called.
DropTxKeepingSpends(S, e) ==
    LET S1 == [S EXCEPT !.entries = UnlinkedEntries(S, e)]
        S3 == RemoveFromAncestorScoreIndex(RemoveFromDescendantScoreIndex(S1, e), e)
    IN  [S3 EXCEPT !.seq = SelectSeq(S3.seq, LAMBDA x : x # e.id)]

\* Mutant: remove_from_seq_no_index is not called.
DropTxKeepingSeqNo(S, e) ==
    LET S1 == [S EXCEPT !.entries = UnlinkedEntries(S, e)]
        S3 == RemoveFromAncestorScoreIndex(RemoveFromDescendantScoreIndex(S1, e), e)
    IN  [S3 EXCEPT !.spender = RestrictValues(S3.spender, LAMBDA v : v # e.id)]

\* drop_tx: unlink, both score indices, the creation-time and sequence
\* indices, and unspend_outpoints.
DropTx(S, e) ==
    LET S1 == [S EXCEPT !.entries = UnlinkedEntries(S, e)]
        S3 == RemoveFromAncestorScoreIndex(RemoveFromDescendantScoreIndex(S1, e), e)
    IN  [S3 EXCEPT !.seq     = SelectSeq(S3.seq, LAMBDA x : x # e.id),
                   !.spender = RestrictValues(S3.spender, LAMBDA v : v # e.id)]

\* remove_tx for every reason but Block: take the entry out of txs_by_id,
\* then update_ancestor_state_for_drop over the ancestors still reachable
\* through its parents, then drop_tx.  An absent id is a no-op.
RemoveTx(S, t) ==
    IF t \notin Pool(S) THEN S
    ELSE LET e  == S.entries[t]
             S1 == [S EXCEPT !.entries = Restrict(S.entries, Pool(S) \ {t})]
             S2 == ShiftDescendantState(S1, UnconfirmedAncestors(S1, e.parents), t, -1)
         IN  DropTx(S2, e)

\* Mutant: the descendants are not dropped.
DropTxOnly(S, t) == RemoveTx(S, t)

\* drop_tx_and_descendants: collect the descendants, remove the transaction,
\* then each descendant still present, in id order.
DropTxAndDescendants(S, t) ==
    IF t \notin Pool(S) THEN S
    ELSE FoldLeft(LAMBDA acc, d : RemoveTx(acc, d),
                  RemoveTx(S, t),
                  ById(UnconfirmedDescendants(S, S.entries[t].children)))

\* drop_conflicts: remove_tx on each conflict, in id order.
DropConflicts(S, conflicts) ==
    FoldLeft(LAMBDA acc, c : RemoveTx(acc, c), S, ById(conflicts))

\* The memory usage estimator: the encoded sizes of the pooled transactions.
MemoryUsage(S) == SumSizes(Pool(S))

\* remove_expired_transactions: the entries older than MaxTxAge, in order of
\* creation time then id, each dropped with its descendants.
RemoveExpiredTransactions(S) ==
    LET expired == {x \in Pool(S) : now - S.entries[x].ctime > MaxTxAge}
        before(a, b) == \/ S.entries[a].ctime < S.entries[b].ctime
                        \/ S.entries[a].ctime = S.entries[b].ctime /\ rank[a] < rank[b]
    IN  FoldLeft(LAMBDA acc, x : DropTxAndDescendants(acc, x), S,
                 SetToSortSeq(expired, before))

\* FeeRate::from_total_tx_fee, a rate per byte.
FromTotalTxFee(fee, size) == fee \div size

RECURSIVE TrimLoop(_, _)
\* trim: while the pool is over max_size, drop the first id of the lowest
\* descendant-score bucket together with its descendants, collecting the
\* fee rate of each transaction picked (removed_fees).
TrimLoop(S, removedFees) ==
    IF Pool(S) # {} /\ MemoryUsage(S) > MaxSize
    THEN LET victim == Head(ById(S.desc[Min(DOMAIN S.desc)]))
         IN  IF Assert(victim \in Pool(S), "tx with id should exist")
             THEN TrimLoop(DropTxAndDescendants(S, victim),
                           removedFees \cup {FromTotalTxFee(Fee[victim], Size[victim])})
             ELSE [store |-> S, removedFees |-> removedFees]
    ELSE [store |-> S, removedFees |-> removedFees]

Trim(S) == TrimLoop(S, {})

-----------------------------------------------------------------------------
(* The rolling minimum fee rate.  rolling is the RollingFeeRate behind the  *)
(* RwLock: rate (rolling_minimum_fee_rate), blockSince                      *)
(* (block_since_last_rolling_fee_bump) and last (last_rolling_fee_update).  *)

\* Mutant: a bump that does not clear the block flag.
UpdateMinFeeRateKeepingFlag(R, rate) == [R EXCEPT !.rate = rate]

\* update_min_fee_rate: set the rate and clear the block flag.
UpdateMinFeeRate(R, rate) == [R EXCEPT !.rate = rate, !.blockSince = FALSE]

\* limit_mempool_size: trim, then raise the rate to the highest removed fee
\* rate plus the incremental relay fee rate when that is above it.
LimitMempoolSize(S, R) ==
    LET tr     == Trim(S)
        newMin == Max(tr.removedFees) + IncrementalRelayFeeRate
    IN  [store   |-> tr.store,
         rolling |-> IF tr.removedFees # {} /\ newMin > R.rate
                     THEN UpdateMinFeeRate(R, newMin) ELSE R]

\* rolling_fee_halflife: shorter while the pool uses little memory.
RollingFeeHalflife(S) ==
    CASE MemoryUsage(S) < MaxSize \div 4 -> BaseHalflife \div 4
      [] MemoryUsage(S) < MaxSize \div 2 -> BaseHalflife \div 2
      [] OTHER                           -> BaseHalflife

\* The rates decay_fee may give: the rate divided by 2 to the power
\* (time - last) / halflife, a fraction, so between the rate halved
\* floor and ceiling times, as the rounding may fall.
DecayedRates(R, halflife, time) ==
    LET k == time - R.last
    IN  R.rate \div 2^((k + halflife - 1) \div halflife)
            .. R.rate \div 2^(k \div halflife)

\* get_update_min_fee_rate, with d the rate decay_rolling_fee_rate gives:
\* no decay unless a block came since the last bump and the rate is not 0;
\* decay once the decay interval has passed, dropping a rate under the
\* threshold to 0; otherwise at least the incremental relay fee rate.
\* The result is [rate, rolling], the minimum and the new RollingFeeRate.
GetUpdateMinFeeRate(R, d) ==
    IF ~R.blockSince \/ R.rate = 0
    THEN [rate |-> R.rate, rolling |-> R]
    ELSE IF now > R.last + DecayInterval
    THEN IF d < IncrementalRelayThreshold
         THEN [rate |-> 0, rolling |-> [R EXCEPT !.rate = 0, !.last = now]]
         ELSE [rate |-> Max({d, IncrementalRelayFeeRate}),
               rolling |-> [R EXCEPT !.rate = d, !.last = now]]
    ELSE [rate |-> Max({R.rate, IncrementalRelayFeeRate}), rolling |-> R]

\* The decayed rates validation may use against store S.
DecayChoices(S, R) ==
    IF R.blockSince /\ R.rate # 0 /\ now > R.last + DecayInterval
    THEN DecayedRates(R, RollingFeeHalflife(S), now)
    ELSE {R.rate}

\* pays_minimum_mempool_fee: the fee covers compute_fee of the minimum rate.
PaysMinimumMempoolFee(t, minRate) == Fee[t] >= minRate * Size[t]

-----------------------------------------------------------------------------
(* Admission: validate_transaction, the replace-by-fee checks and           *)
(* create_entry.  The fee and the inputs are those of the constants; the    *)
(* checks on inputs, outputs, duplicates and block size hold of every        *)
(* transaction in Txs, so the model starts at the already-in-mempool check.  *)

\* An outpoint created by a transaction in the pool (spends_unconfirmed,
\* MempoolStore::contains_outpoint).
SpendsUnconfirmed(S, o) == \E p \in Pool(S) : o \in Outs[p]

\* get_relay_fee
RelayFee(t) == Size[t] * RelayFeePerByte

\* pays_minimum_relay_fees: the fee covers the relay fee.
PaysMinimumRelayFees(t) == Fee[t] >= RelayFee(t)

\* rbf_checks: the direct conflicts, one per input spent in the pool (the
\* Vec may name a conflict once per input it shares with t).
ConflictInputs(S, t) == Ins[t] \cap DOMAIN S.spender

DirectConflicts(S, t) == {S.spender[o] : o \in ConflictInputs(S, t)}

\* is_replaceable: the flag of the transaction or of one of its ancestors.
IsReplaceable(S, c) ==
    \E a \in {c} \cup UnconfirmedAncestors(S, S.entries[c].parents) : a \in Replaceable

\* potential_replacements_within_limit: the conflicts and their descendants.
ConflictsWithDescendants(S, t) ==
    DirectConflicts(S, t)
        \cup UNION {UnconfirmedDescendants(S, S.entries[c].children) : c \in DirectConflicts(S, t)}

\* do_rbf_checks, in the code's order; every check is an early return.
RbfChecksPass(S, t) ==
    LET cs == DirectConflicts(S, t)
        total == SumFees(ConflictsWithDescendants(S, t))
    IN  cs = {} \/
        /\ \A c \in cs : IsReplaceable(S, c)                         \* Rule 1
        /\ \A c \in cs : Fee[c] < Fee[t]                             \* pays_more_than_direct_conflicts
        /\ \A o \in Ins[t] : SpendsUnconfirmed(S, o)                 \* Rule 2
                                => o \in UNION {Ins[c] : c \in cs}
        /\ MapThenSumSet(LAMBDA o : S.entries[S.spender[o]].cntD,    \* Rule 5
                         ConflictInputs(S, t)) <= MaxReplacementCandidates
        /\ Fee[t] > total                                            \* Rule 3
        /\ Fee[t] - total >= RelayFee(t)                             \* Rule 4

\* verify_inputs_available: every input is a chain UTXO or an output of a
\* pooled transaction.
InputsAvailable(S, t) ==
    \A o \in Ins[t] : o \in ChainUtxos \/ SpendsUnconfirmed(S, o)

\* validate_transaction up to pays_minimum_relay_fees; the last check,
\* pays_minimum_mempool_fee, updates the rolling fee rate and is taken
\* separately.
ValidateTransaction(S, t) ==
    /\ t \notin Pool(S)
    /\ RbfChecksPass(S, t)
    /\ InputsAvailable(S, t)
    /\ PaysMinimumRelayFees(t)

\* Mutant: the ancestors are taken to be the parents only.
CreateEntryParentsOnly(S, t) ==
    LET parents == {p \in Pool(S) : Outs[p] \cap Ins[t] # {}}
    IN  [id |-> t, parents |-> parents, children |-> {},
         cntD |-> 1, feeD |-> Fee[t], sizeD |-> Size[t],
         cntA |-> 1 + Cardinality(parents), feeA |-> Fee[t] + SumFees(parents),
         sizeA |-> Size[t] + SumSizes(parents), ctime |-> now]

\* TxMempoolEntry::new: an entry with no descendants yet, its ancestor
\* aggregates summed over the given ancestors.
NewEntry(t, parents, anc) ==
    [id |-> t, parents |-> parents, children |-> {},
     cntD |-> 1, feeD |-> Fee[t], sizeD |-> Size[t],
     cntA |-> 1 + Cardinality(anc), feeA |-> Fee[t] + SumFees(anc),
     sizeA |-> Size[t] + SumSizes(anc), ctime |-> now]

\* create_entry: the parents are the pooled transactions whose outputs t
\* spends, the ancestors their closure in the store.
CreateEntry(S, t) ==
    LET parents == {p \in Pool(S) : Outs[p] \cap Ins[t] # {}}
    IN  NewEntry(t, parents, UnconfirmedAncestors(S, parents))

\* finalize_tx: add_tx, remove_expired_transactions, and, if t survived,
\* limit_mempool_size.  The result is [store, rolling].
FinalizeTx(S, R, t) ==
    LET S1 == RemoveExpiredTransactions(AddTx(S, CreateEntry(S, t)))
    IN  IF t \in Pool(S1) THEN LimitMempoolSize(S1, R)
        ELSE [store |-> S1, rolling |-> R]

-----------------------------------------------------------------------------
(* Block assembly.                                                          *)

\* collect_txs: the ancestor-score index walked from the highest score down
\* (values().flatten().rev(): highest bucket first, each bucket's ids in
\* reverse hash order), every transaction offered to the accumulator in
\* turn.  The accumulator is one with room for the whole pool, so it is
\* never done and accepts every transaction.
CollectTxs(S) ==
    LET keys == SetToSortSeq(DOMAIN S.anc, <)
    IN  Reverse(FlattenSeq([i \in 1..Len(keys) |-> ById(S.anc[keys[i]])]))

\* into_transactions: every transaction of the store, in txs_by_seq_no
\* order, i.e. the order in which they were inserted.
IntoTransactions(S) == S.seq

-----------------------------------------------------------------------------

Init ==
    /\ store = EmptyStore
    /\ now = 0
    /\ rank \in Bijection(Txs, 1..Cardinality(Txs))
    /\ adds = 0
    /\ rolling = [rate |-> 0, blockSince |-> FALSE, last |-> now]
    /\ tipSinceRaise = FALSE

\* The history variable after a step to newRolling: a rise of the rate
\* clears it.
TrackRaise(newRolling) ==
    tipSinceRaise' = (tipSinceRaise /\ newRolling.rate <= rolling.rate)

\* add_transaction: validate (its last check reading and updating the
\* rolling fee rate), drop_conflicts, finalize_tx.  A transaction rejected
\* before pays_minimum_mempool_fee leaves the mempool unchanged (a
\* stuttering step).
AddTransaction(t) ==
    /\ adds < MaxAdds
    /\ ValidateTransaction(store, t)
    /\ \E d \in DecayChoices(store, rolling) :
        LET m == GetUpdateMinFeeRate(rolling, d)
            f == FinalizeTx(DropConflicts(store, ConflictsWithDescendants(store, t)),
                            m.rolling, t)
        IN  /\ PaysMinimumMempoolFee(t, m.rate)
            /\ store' = f.store
            /\ rolling' = f.rolling
            /\ TrackRaise(f.rolling)
    /\ adds' = adds + 1
    /\ UNCHANGED <<now, rank>>

\* add_transaction failing with RollingFeeThresholdNotMet: the store is
\* unchanged, the rolling fee rate keeps what get_update_min_fee_rate did.
AddTransactionBelowMinimumFee(t) ==
    /\ adds < MaxAdds
    /\ ValidateTransaction(store, t)
    /\ \E d \in DecayChoices(store, rolling) :
        LET m == GetUpdateMinFeeRate(rolling, d)
        IN  /\ ~PaysMinimumMempoolFee(t, m.rate)
            /\ rolling' = m.rolling
    /\ adds' = adds + 1
    /\ UNCHANGED <<store, now, rank, tipSinceRaise>>

\* new_tip_set (process_chainstate_event for NewTip): the rolling fee rate
\* may decay again.
NewTipSet ==
    /\ rolling' = [rolling EXCEPT !.blockSince = TRUE]
    /\ tipSinceRaise' = TRUE
    /\ UNCHANGED <<store, now, rank, adds>>

\* The clock (TimeGetter) advances.
Tick ==
    /\ now < MaxTime
    /\ now' = now + 1
    /\ UNCHANGED <<store, rank, adds, rolling, tipSinceRaise>>

Next ==
    \/ \E t \in Txs : AddTransaction(t)
    \/ \E t \in Txs : AddTransactionBelowMinimumFee(t)
    \/ NewTipSet
    \/ Tick

Spec == Init /\ [][Next]_vars

-----------------------------------------------------------------------------
(* Properties.                                                              *)

Entry == [id: Txs, parents: SUBSET Txs, children: SUBSET Txs,
          cntD: Nat, feeD: Nat, sizeD: Nat, cntA: Nat, feeA: Nat, sizeA: Nat,
          ctime: 0..MaxTime]

TypeOK ==
    /\ store.entries \in [Pool(store) -> Entry]
    /\ \A t \in Pool(store) : store.entries[t].id = t
    /\ \A k \in DOMAIN store.desc \cup DOMAIN store.anc : k \in Nat
    /\ store.spender \in [DOMAIN store.spender -> Txs]
    /\ IsInjective(store.seq) /\ ToSet(store.seq) = Pool(store)
    /\ now \in 0..MaxTime
    /\ rank \in Bijection(Txs, 1..Cardinality(Txs))
    /\ rolling \in [rate: Nat, blockSince: BOOLEAN, last: 0..MaxTime]
    /\ rolling.last <= now

\* The spend graph of the pool: an edge from p to c when c spends an output
\* of p.
SpendGraph(S) ==
    [node |-> Pool(S),
     edge |-> {pc \in Pool(S) \X Pool(S) : Outs[pc[1]] \cap Ins[pc[2]] # {}}]

\* The parents and children links that add_tx, remove_tx and update_for_drop
\* maintain are exactly the spend graph of the pooled transactions, whatever
\* was removed by replacement, expiry or trimming, in whatever order.
LinksMatchSpends ==
    LET G == SpendGraph(store)
    IN  \A t \in Pool(store) :
            /\ store.entries[t].parents = {p \in G.node : <<p, t>> \in G.edge}
            /\ store.entries[t].children = {c \in G.node : <<t, c>> \in G.edge}

\* No pooled transaction is left with an input that is neither a chain UTXO
\* nor an output of another pooled transaction: removing a transaction for
\* replacement, expiry or size always takes its descendants with it.
PoolInputsAvailable ==
    \A t \in Pool(store) : InputsAvailable(store, t)

\* spender_txs names, for each outpoint, the one pooled transaction that
\* spends it, and no two pooled transactions spend the same outpoint: the
\* replace-by-fee path drops every conflict before adding.
SpenderIndexExact ==
    /\ DOMAIN store.spender = UNION {Ins[t] : t \in Pool(store)}
    /\ \A t \in Pool(store) : \A o \in Ins[t] : store.spender[o] = t

\* Every entry's count, size and fees with ancestors equal the sums over its
\* ancestors in the spend graph (set by TxMempoolEntry::new, never updated).
AncestorStateExact ==
    LET G == SpendGraph(store)
    IN  \A t \in Pool(store) :
            LET e == store.entries[t]
                A == Gr!Ancestors(G, t)
            IN  /\ e.cntA = 1 + Cardinality(A)
                /\ e.feeA = Fee[t] + SumFees(A)
                /\ e.sizeA = Size[t] + SumSizes(A)

\* Every entry's count, size and fees with descendants equal the sums over
\* its descendants (kept by update_ancestor_state_for_add and _for_drop).
DescendantStateExact ==
    LET G == SpendGraph(store)
    IN  \A t \in Pool(store) :
            LET e == store.entries[t]
                D == Gr!Descendants(G, t)
            IN  /\ e.cntD = 1 + Cardinality(D)
                /\ e.feeD = Fee[t] + SumFees(D)
                /\ e.sizeD = Size[t] + SumSizes(D)

\* Each score index files every pooled transaction exactly once, under the
\* score its entry has now, and nothing else (refresh_ancestors and
\* refresh_descendants re-file entries whose aggregates changed; trim reads
\* the descendant-score index).
ScoreIndexExact(m, score(_)) ==
    /\ UNION {m[k] : k \in DOMAIN m} = Pool(store)
    /\ \A k \in DOMAIN m : \A t \in m[k] : k = score(store.entries[t])

ScoreIndexesExact ==
    /\ ScoreIndexExact(store.desc, DescendantScore)
    /\ ScoreIndexExact(store.anc, AncestorScore)

\* Neither score index keeps an empty bucket (both removals prune the
\* bucket they empty, and the refreshes retain only non-empty sets).
NoEmptyScoreBuckets ==
    /\ \A k \in DOMAIN store.desc : store.desc[k] # {}
    /\ \A k \in DOMAIN store.anc : store.anc[k] # {}


\* The transactions collect_txs hands to a block accumulator come in an
\* order the block can be connected in: each comes after every pooled
\* transaction it spends from.  A block's transactions are connected in
\* order, so a child before its parent fails with MissingOutputOrSpent
\* (and collect_txs logs a failing add_tx as CRITICAL).
CollectedTxsInDependencyOrder ==
    LET c == CollectTxs(store)
    IN  \A i \in 1..Len(c) :
            \A p \in store.entries[c[i]].parents : \E j \in 1..(i - 1) : c[j] = p

\* into_transactions hands the pool back in insertion order so that it can
\* be re-inserted in the same order after a reorg (the txs_by_seq_no
\* comment in store.rs): that order lists every pooled transaction after
\* each pooled transaction it spends from, so the replay never adds a
\* child before its parent.  It rests on expiry, trimming and replacement
\* removing whole descendant sets: a parent re-added later would get a
\* later sequence number than a child left behind.
InsertionOrderReplayable ==
    LET q == IntoTransactions(store)
        G == SpendGraph(store)
    IN  \A i, j \in 1..Len(q) : <<q[j], q[i]>> \in G.edge => j < i

\* The rolling minimum fee rate falls (decay, or the drop to 0) only after
\* a new tip has been set since it last rose: limit_mempool_size's bump
\* clears block_since_last_rolling_fee_bump and get_update_min_fee_rate
\* returns early without decaying until new_tip_set sets it.
MinFeeFallsOnlyAfterNewTip ==
    [][rolling'.rate < rolling.rate => tipSinceRaise]_vars

=============================================================================
