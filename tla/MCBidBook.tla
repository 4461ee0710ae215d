----------------------------- MODULE MCBidBook -----------------------------
(* b1 signs two intents with one nonce, o1 for the lower price only; b2      *)
(* signs one with the same nonce.  Clerks and rows are interchangeable.      *)
EXTENDS BidBook, TLC

CONSTANTS b1, b2, o1, o2, o3, q1, q2

MCSigner == [o \in Offers |-> IF o = o3 THEN b2 ELSE b1]

MCNonce == [o \in Offers |-> 1]

MCLimit == [o \in Offers |-> IF o = o1 THEN 1 ELSE 2]

Symmetry == Permutations(Clerks) \cup Permutations(Bids)
============================================================================
