---------------------------- MODULE AgentQuorum ----------------------------
(***************************************************************************)
(* The vote that stands between a trade signal and a live trade            *)
(* (agents/quorum/core.py, models.py).  Four models vote; a vote counts    *)
(* with its weight times its confidence, and the quorum approves when the  *)
(* approving share reaches the threshold.                                  *)
(*                                                                         *)
(* Confidences are in 900ths and weights in tenths, which makes every      *)
(* default of the code a whole number.  Premium and utilization are in     *)
(* percent.                                                                *)
(***************************************************************************)
EXTENDS Integers

Models == {"yield", "arbitrage", "risk", "demand"}

Sure == 900

Weight == [m \in Models |-> CASE m = "yield"     -> 10
                              [] m = "arbitrage" -> 12
                              [] m = "risk"      -> 20
                              [] m = "demand"    -> 8]

(* What QuorumContext holds, as far as the models look at it.  A premium of *)
(* 0 is a missing one, a utilization of -1 an unknown one.                  *)
Context == [stakeOk : BOOLEAN, active : BOOLEAN, beatError : BOOLEAN,
            rewards : Nat, simulated : BOOLEAN, premium : Nat, size : Nat,
            halt : BOOLEAN, warned : BOOLEAN, util : Int]

Vote == [approve : BOOLEAN, confidence : 0 .. Sure]

For(c) == [approve |-> TRUE, confidence |-> IF c > Sure THEN Sure ELSE c]

Against(c) == [approve |-> FALSE, confidence |-> IF c > Sure THEN Sure ELSE c]

YieldVote(ctx) ==
    IF ~ctx.stakeOk THEN Against(810)
    ELSE IF ~ctx.active THEN Against(720)
    ELSE IF ctx.beatError THEN Against(540)
    ELSE For(IF ctx.rewards > 0 THEN 585 ELSE 495)

ArbitrageVote(ctx) ==
    IF ~ctx.simulated THEN Against(360)
    ELSE IF ctx.premium = 0 THEN Against(450)
    ELSE IF ctx.size < 1 \/ ctx.premium < 103 THEN Against(540)
    ELSE For(540 + 36 * (ctx.premium - 103))

(* The trade branches pass no price guard and the volatility limit is unset *)
(* by default, so the halt and the warnings are what this model sees.       *)
RiskVoteOnWarnings(ctx) ==     \* mutant: the halt is not looked at
    IF ctx.warned THEN Against(630) ELSE For(495)

RiskVote(ctx) ==
    IF ctx.halt THEN Against(900)
    ELSE IF ctx.warned THEN Against(630)
    ELSE For(495)

DemandVote(ctx) ==
    IF ctx.util < 0 THEN Against(360)
    ELSE IF ctx.util >= 82 THEN For(540 + 20 * (ctx.util - 82))
    ELSE IF ctx.util <= 45 THEN Against(540 + 6 * (45 - ctx.util))
    ELSE Against(405)

Votes(ctx) == [m \in Models |-> CASE m = "yield"     -> YieldVote(ctx)
                                  [] m = "arbitrage" -> ArbitrageVote(ctx)
                                  [] m = "risk"      -> RiskVote(ctx)
                                  [] m = "demand"    -> DemandVote(ctx)]

(* What model m adds to the total, and to the approved side. *)
Effective(v, m) == Weight[m] * v[m].confidence

Approving(v, m) == IF v[m].approve THEN Effective(v, m) ELSE 0

Total(v) == Effective(v, "yield") + Effective(v, "arbitrage")
              + Effective(v, "risk") + Effective(v, "demand")

Approved(v) == Approving(v, "yield") + Approving(v, "arbitrage")
                 + Approving(v, "risk") + Approving(v, "demand")

(* decide_with_details: the ratio against QUORUM_THRESHOLD = 0.55. *)
Decide(v) == Total(v) > 0 /\ 100 * Approved(v) >= 55 * Total(v)

Approves(ctx) == Decide(Votes(ctx))
=============================================================================
