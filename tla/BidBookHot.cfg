SPECIFICATION BookSpec
CONSTANTS
    b1 = b1  b2 = b2
    o1 = o1  o2 = o2  o3 = o3
    q1 = q1  q2 = q2
    None = None
    Policies = {"open", "hot"}
    Clerks = {c1}
    Buyers = {b1, b2}
    Offers = {o1}
    Quotes = {q1, q2}
    Prices = {1, 2}
    Bids = {x1, x2}
    Signer <- MCSigner
    Nonce <- MCNonce
    Limit <- MCLimit
PROPERTY HotPausesIntake
