SPECIFICATION FairSpec
CONSTANTS
    b1 = b1  b2 = b2
    t1 = t1
    q1 = q1  q2 = q2
    usdc = usdc
    None = None
    Workers = {w1}
    Buyers = {b2}
    Txs = {t1}
    Quotes = {q1}
    Bids = {x1}
    Assets = {usdc}
    Allowlist = {}
    Reverted = {}
    Prices = {1, 2}
    MinConf = 2
    ToleranceBps = 100
    MaxHeight = 3
    MaxKeys = 2
    MaxFaults = 1
    Asset <- MCAsset
    Cost <- MCCost
    Paid <- MCPaid
INVARIANT KeysArePaidFor
PROPERTIES ClaimedIsFulfilled SaleSpec
