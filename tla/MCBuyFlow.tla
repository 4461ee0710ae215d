----------------------------- MODULE MCBuyFlow -----------------------------
(* b1 signs an intent that either quote satisfies; b2 may try to pay for it *)
(* too.  Rows of the bid table, quotes and workers are interchangeable.      *)
EXTENDS BuyFlow, TLC

CONSTANTS b1, b2, usdc

MCSigner == [o \in Offers |-> b1]

MCNonce == [o \in Offers |-> 1]

MCLimit == [o \in Offers |-> 1]

MCAsset == [q \in Quotes |-> usdc]

MCCost == [p \in Quotes \X Prices |-> 100]

MCPaid == [p \in Txs \X Buyers \X Assets |-> 100]

Symmetry == Permutations(Bids) \cup Permutations(Quotes) \cup Permutations(Workers)
============================================================================
