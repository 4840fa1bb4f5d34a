CONSTANTS
    Genesis <- MCGenesis
    Blocks <- MCBlocks
    Parent <- MCParent
    Txs <- MCTxs
    GenesisUtxos <- MCGenesisUtxos
    Invalid <- MCInvalid
    EpochLength = 2
    SealedEpochDistance = 1
    MaxOrphans = 1
    MaxDbCommitAttempts = 1
    MaxSubmits = 6
    MaxCommitFailures = 0
    MaxSealFailures = 0
    MaxCrashes = 0


SPECIFICATION Spec

INVARIANT EpochSealedAtMostOnce
CHECK_DEADLOCK FALSE
