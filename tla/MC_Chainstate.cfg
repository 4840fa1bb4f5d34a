CONSTANTS
    Genesis <- MCGenesis
    Blocks <- MCBlocks
    Parent <- MCParent
    Txs <- MCTxs
    GenesisUtxos <- MCGenesisUtxos
    Invalid <- MCInvalid
    EpochLength = 2
    SealedEpochDistance = 1
    MaxOrphans = 1
    MaxDbCommitAttempts = 1
    MaxSubmits = 6
    MaxCommitFailures = 2
    MaxSealFailures = 1
    MaxCrashes = 1

SPECIFICATION Spec

INVARIANT TypeOK
INVARIANT ChainSpendsOnlyUnspent
INVARIANT LedgerMatchesChain
INVARIANT BestChainIsMostTrusted
INVARIANT TxIndexMatchesFlag
PROPERTY ImplementsBlockTree
CHECK_DEADLOCK FALSE
