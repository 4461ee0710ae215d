SPECIFICATION Spec
CONSTANTS
    b1 = b1  b2 = b2
    usdc = usdc
    None = None
    Policies = {}
    Clerks = {c1}
    Workers = {w1}
    Buyers = {b1, b2}
    Offers = {o1}
    Quotes = {q1, q2}
    Prices = {1}
    Bids = {x1, x2}
    Txs = {t1}
    Assets = {usdc}
    Allowlist = {}
    Reverted = {}
    MinConf = 1
    MaxHeight = 1
    ToleranceBps = 0
    MaxKeys = 1
    MaxFaults = 0
    Signer <- MCSigner
    Nonce <- MCNonce
    Limit <- MCLimit
    Asset <- MCAsset
    Cost <- MCCost
    Paid <- MCPaid
SYMMETRY Symmetry
PROPERTY FilledIsFinal
