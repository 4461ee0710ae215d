SPECIFICATION Spec
CONSTANTS
    b1 = b1  b2 = b2
    t1 = t1
    q1 = q1  q2 = q2
    usdc = usdc
    None = None
    Workers = {w1, w2}
    Buyers = {b1, b2}
    Txs = {t1}
    Quotes = {q1, q2}
    Bids = {}
    Assets = {usdc}
    Allowlist = {}
    Reverted = {}
    Prices = {1}
    MinConf = 1
    ToleranceBps = 100
    MaxHeight = 1
    MaxKeys = 2
    MaxFaults = 0
    Asset <- MCAsset
    Cost <- MCCost
    Paid <- MCPaid
SYMMETRY Symmetry
INVARIANT OneKeyPerPayment
