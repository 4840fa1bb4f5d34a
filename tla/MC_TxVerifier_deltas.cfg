CONSTANTS
    Width = 3
    Currencies <- MCCurrencies
    Coin = "coin"
    Outpoints <- MCOutpoints
    Cur <- MCCur
    Amt <- MCAmt
    Burns = {"b1"}
    ChainUtxos = {"c1", "c2", "k1", "k2", "sA"}
    Txs <- MCTxs
    Ins <- MCIns
    Outs <- MCOuts
    Issuing = {"T1"}
    StakePoolOuts = {"s1", "s2", "s3", "sA"}
    ProduceOuts = {"p1", "p2", "p3", "p4"}
    ProducePool <- MCProducePool
    Staker <- MCStaker
    Params <- MCParams
    Input0 <- MCInput0
    ChainPools <- MCChainPools
    ChainTokens = {}
    Rewards <- MCRewards
    RewardIns <- MCRewardIns
    RewardOuts <- MCRewardOuts
    PoSRewards <- MCPoSRewards
    RewardPool <- MCRewardPool
    Subsidy = 3
    MinIssuanceFee = 1
    MaxBlockTxs = 4
    Src <- MCSrc
    BlockId = "blk"
    ChainTxIndex <- MCChainTxIndex
    Unspent = Unspent

SPECIFICATION Spec

INVARIANT BlockDeltasMatchAccounting


\* A block ends rejected, or accepted and then disconnected: the verifier
\* is dropped there.
CHECK_DEADLOCK FALSE
