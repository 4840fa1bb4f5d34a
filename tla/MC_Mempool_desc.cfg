CONSTANTS
    Txs <- MCTxs
    Ins <- MCIns
    Outs <- MCOuts
    ChainUtxos <- MCChainUtxos
    Fee <- MCFee
    Size <- MCSize
    Replaceable <- MCReplaceable
    RelayFeePerByte = 1
    MaxReplacementCandidates = 2
    MaxSize = 3
    MaxTxAge = 1
    IncrementalRelayFeeRate = 2
    IncrementalRelayThreshold = 1
    BaseHalflife = 2
    DecayInterval = 0
    MaxTime = 2
    MaxAdds = 4

SPECIFICATION Spec

INVARIANT DescendantStateExact

CHECK_DEADLOCK FALSE
