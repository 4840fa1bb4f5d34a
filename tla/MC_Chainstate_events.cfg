CONSTANTS
    Genesis <- MCGenesis
    Blocks <- MCBlocks
    Parent <- MCParent
    Txs <- MCTxs
    GenesisUtxos <- MCGenesisUtxos
    Invalid <- MCInvalid
    EpochLength = 2
    SealedEpochDistance = 1
    MaxOrphans = 3
    MaxDbCommitAttempts = 1
    MaxSubmits = 6
    MaxCommitFailures = 2
    MaxSealFailures = 0
    MaxCrashes = 1


SPECIFICATION Spec

INVARIANT TipEventMatchesBest
INVARIANT OrphansAwaitUnknownParent
CHECK_DEADLOCK FALSE
