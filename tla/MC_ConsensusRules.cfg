CONSTANTS
    Width = 8
    Targets <- MCTargets
    EpochLength = 2
    SealedEpochDistance = 1
    MaxHeight = 9
    Purposes = {"Transfer", "LockThenTransfer", "Burn", "StakePool", "ProduceBlockFromStake"}
    Stakeable = {"StakePool", "ProduceBlockFromStake"}
    Hashes <- MCHashes
    Balances <- MCBalances
    NotFound <- MCNotFound
    SigOutpoints = {"a", "b", "c"}
    SigOutputs = {"x", "y"}
    UtxoOf <- MCUtxoOf
    Headers = {"h1"}
    NoHeader = NoHeader
    Keys = {"k1", "k2"}
    AnyoneCanSpend = AnyoneCanSpend
    NoSignature = NoSignature
    MaxInputs = 2

SPECIFICATION MCSpec

INVARIANT BlockProofMatchesSpec
INVARIANT StakeKernelMatchesSpec
INVARIANT SignatureCommitsPerSigHashType
CHECK_DEADLOCK FALSE
