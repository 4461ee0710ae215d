---------------------------- MODULE MCPurchases ----------------------------
(* A transaction may carry transfers of two wallets: b1 can pay either      *)
(* quote at any price, b2 only q1 at the lower, within the tolerance.       *)
EXTENDS Purchases, TLC

CONSTANTS b1, b2, t1, q1, q2, usdc

MCAsset == [q \in Quotes |-> usdc]

MCCost == [c \in Quotes \X Prices |-> (IF c[1] = q1 THEN 100 ELSE 200) * c[2]]

MCPaid == [p \in Txs \X Buyers \X Assets |-> IF p[2] = b1 THEN 400 ELSE 99]

Symmetry == Permutations(Workers)
============================================================================
