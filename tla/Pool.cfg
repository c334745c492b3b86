SPECIFICATION FairSpec
CONSTANTS
    Sender = {"a", "b"}
    Txs <- Four
    Funds <- Rich
    BaseFee = 8
    GasLimit = 2
    ChangeDenominator = 8
    MinGasPrice = 1
    MaxPool = 2
    Rpc = {"r1"}
    MaxHeight = 2
    MaxCall = 2
    Found <- Blocks
    Saved <- Files
    Sent <- Sends
    Delivery <- Deliveries
INVARIANTS PoolIsConsistent TemplateExecutes
PROPERTIES StaleLeave
