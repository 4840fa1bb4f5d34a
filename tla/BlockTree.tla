----------------------------- MODULE BlockTree ------------------------------
(***************************************************************************)
(* What the chainstate promises its callers, without storage transactions, *)
(* retries, orphans or undo data: a set of accepted blocks, each a child   *)
(* of genesis or of an accepted block and passing check_block, and a tip   *)
(* that moves to a newly accepted block exactly when the block has more    *)
(* chain trust than the tip.  A block that would become the tip must have  *)
(* a branch that is valid when replayed from genesis: every input spends   *)
(* an output that is unspent at that point of the branch, and no output    *)
(* overwrites an unspent one.                                              *)
(***************************************************************************)
EXTENDS Integers, Sequences, SequencesExt

CONSTANTS Genesis, Blocks, Parent, Txs, GenesisUtxos, Invalid

VARIABLES accepted, tip

RECURSIVE Branch(_)
\* The blocks from genesis (excluded) up to b.
Branch(b) == IF b = Genesis THEN <<>> ELSE Append(Branch(Parent[b]), b)

\* The chain trust of a block: every block contributes the same proof.
Trust(b) == Len(Branch(b))

\* The outputs unspent after the first k transactables of the sequence ts.
Unspent(ts, k) ==
    (GenesisUtxos \cup UNION {ts[i].outs : i \in 1..k})
        \ UNION {ts[i].ins : i \in 1..k}

\* A branch whose transactables, replayed from genesis in order, each spend
\* only unspent outputs and create only fresh ones.
ValidBranch(b) ==
    LET ts == FlattenSeq([h \in DOMAIN Branch(b) |-> Txs[Branch(b)[h]]])
    IN  \A j \in DOMAIN ts :
            /\ ts[j].ins \subseteq Unspent(ts, j - 1)
            /\ ts[j].outs \cap Unspent(ts, j - 1) = {}

Init ==
    /\ accepted = {}
    /\ tip = Genesis

\* A block is accepted; it becomes the tip if it has more trust.
Accept(b) ==
    /\ b \notin accepted
    /\ b \notin Invalid
    /\ Parent[b] \in accepted \cup {Genesis}
    /\ Trust(b) > Trust(tip) => ValidBranch(b)
    /\ accepted' = accepted \cup {b}
    /\ tip' = IF Trust(b) > Trust(tip) THEN b ELSE tip

Next == \E b \in Blocks : Accept(b)

Spec == Init /\ [][Next]_<<accepted, tip>>

=============================================================================
