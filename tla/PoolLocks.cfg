SPECIFICATION Spec
CONSTANTS
    Sender = {"a", "b"}
    Txs <- TwoSenders
    Funds <- Rich
    BaseFee = 8
    GasLimit = 3
    ChangeDenominator = 8
    MinGasPrice = 1
    MaxPool = 3
    Rpc = {"r1", "r2"}
    MaxHeight = 1
    MaxCall = 2
    Found <- None
    Saved <- None
    Sent <- TwoSenders
    Delivery <- Nothing
INVARIANT NoCircularWait
