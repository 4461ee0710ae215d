-------------------------- MODULE AgentLoopProofs --------------------------
(* What the loop keeps over any number of cycles, for every profile, streak  *)
(* length and halt.                                                          *)
EXTENDS AgentLoop, StakeMasterProofs, FiniteSetTheorems

------------------------------------------------------------------------------
(* The vote: what the default weights and confidences allow, for every       *)
(* context.                                                                  *)

(* Every model's vote is a vote, whatever the context. *)
LEMMA VotesType ==
    ASSUME NEW ctx \in Context
    PROVE  /\ Votes(ctx) \in [Models -> Vote]
           /\ Votes(ctx)["yield"] = YieldVote(ctx)
           /\ Votes(ctx)["arbitrage"] = ArbitrageVote(ctx)
           /\ Votes(ctx)["risk"] = RiskVote(ctx)
           /\ Votes(ctx)["demand"] = DemandVote(ctx)
  <1>1. YieldVote(ctx) \in Vote
    BY SMT DEF YieldVote, Vote, For, Against, Sure, Context
  <1>2. ArbitrageVote(ctx) \in Vote
    BY SMT DEF ArbitrageVote, Vote, For, Against, Sure, Context
  <1>3. RiskVote(ctx) \in Vote
    BY SMT DEF RiskVote, Vote, For, Against, Sure, Context
  <1>4. DemandVote(ctx) \in Vote
    BY SMT DEF DemandVote, Vote, For, Against, Sure, Context
  <1> QED BY <1>1, <1>2, <1>3, <1>4, SMT DEF Votes, Models

(* The least and the greatest weight a model's vote can have. *)
LEMMA VoteBounds ==
    ASSUME NEW ctx \in Context
    PROVE  LET v == Votes(ctx) IN
           /\ IF v["yield"].approve THEN v["yield"].confidence \in 495 .. 585
                                    ELSE v["yield"].confidence \in 540 .. 810
           /\ IF v["arbitrage"].approve
                THEN v["arbitrage"].confidence \in 540 .. 900
                ELSE v["arbitrage"].confidence \in 360 .. 540
           /\ IF v["risk"].approve THEN v["risk"].confidence = 495
                                   ELSE v["risk"].confidence \in 630 .. 900
           /\ IF v["demand"].approve THEN v["demand"].confidence \in 540 .. 900
                                     ELSE v["demand"].confidence \in 360 .. 810
  <1>1. IF YieldVote(ctx).approve THEN YieldVote(ctx).confidence \in 495 .. 585
                                  ELSE YieldVote(ctx).confidence \in 540 .. 810
    BY SMT DEF YieldVote, For, Against, Sure, Context
  <1>2. IF ArbitrageVote(ctx).approve
          THEN ArbitrageVote(ctx).confidence \in 540 .. 900
          ELSE ArbitrageVote(ctx).confidence \in 360 .. 540
    BY SMT DEF ArbitrageVote, For, Against, Sure, Context
  <1>3. IF RiskVote(ctx).approve THEN RiskVote(ctx).confidence = 495
                                 ELSE RiskVote(ctx).confidence \in 630 .. 900
    BY SMT DEF RiskVote, For, Against, Sure, Context
  <1>4. IF DemandVote(ctx).approve
          THEN DemandVote(ctx).confidence \in 540 .. 900
          ELSE DemandVote(ctx).confidence \in 360 .. 810
    BY SMT DEF DemandVote, For, Against, Sure, Context
  <1> QED BY <1>1, <1>2, <1>3, <1>4, VotesType

(* The arithmetic of an approved tally. *)
LEMMA ApprovedTally ==
    ASSUME NEW ctx \in Context, Approves(ctx)
    PROVE  LET v == Votes(ctx) IN
           /\ ~v["risk"].approve => /\ v["yield"].approve
                                    /\ v["arbitrage"].approve
                                    /\ v["demand"].approve
           /\ \/ /\ v["yield"].approve
                 /\ v["arbitrage"].approve \/ v["risk"].approve \/ v["demand"].approve
              \/ v["arbitrage"].approve /\ (v["risk"].approve \/ v["demand"].approve)
              \/ v["risk"].approve /\ v["demand"].approve
  <1> DEFINE a == Votes(ctx)["yield"].approve
             b == Votes(ctx)["arbitrage"].approve
             c == Votes(ctx)["risk"].approve
             d == Votes(ctx)["demand"].approve
             x == Votes(ctx)["yield"].confidence
             y == Votes(ctx)["arbitrage"].confidence
             z == Votes(ctx)["risk"].confidence
             w == Votes(ctx)["demand"].confidence
  <1>1. a \in BOOLEAN /\ b \in BOOLEAN /\ c \in BOOLEAN /\ d \in BOOLEAN
    BY VotesType DEF Vote, Models
  <1>2. x \in Int /\ y \in Int /\ z \in Int /\ w \in Int
    <2>1. \A m \in Models : Votes(ctx)[m] \in Vote
      BY VotesType
    <2>2. \A u \in Vote : u.confidence \in Int
      BY SMT DEF Vote, Sure
    <2> QED BY <2>1, <2>2 DEF Models
  <1>3. /\ IF a THEN x \in 495 .. 585 ELSE x \in 540 .. 810
        /\ IF b THEN y \in 540 .. 900 ELSE y \in 360 .. 540
        /\ IF c THEN z = 495 ELSE z \in 630 .. 900
        /\ IF d THEN w \in 540 .. 900 ELSE w \in 360 .. 810
    BY VoteBounds
  <1>4. /\ Total(Votes(ctx)) = 10 * x + 12 * y + 20 * z + 8 * w
        /\ Approved(Votes(ctx)) =
               (IF a THEN 10 * x ELSE 0) + (IF b THEN 12 * y ELSE 0)
                 + (IF c THEN 20 * z ELSE 0) + (IF d THEN 8 * w ELSE 0)
    BY DEF Total, Approved, Effective, Approving, Weight, Models
  <1>5. 100 * ((IF a THEN 10 * x ELSE 0) + (IF b THEN 12 * y ELSE 0)
                 + (IF c THEN 20 * z ELSE 0) + (IF d THEN 8 * w ELSE 0))
          >= 55 * (10 * x + 12 * y + 20 * z + 8 * w)
    BY <1>4 DEF Approves, Decide
  <1>6. /\ ~c => a /\ b /\ d
        /\ \/ a /\ (b \/ c \/ d)
           \/ b /\ (c \/ d)
           \/ c /\ d
    <2> HIDE DEF a, b, c, d, x, y, z, w
    <2> QED BY <1>1, <1>2, <1>3, <1>5, SMTT(60)
  <1> QED BY <1>6

(* Risk is no veto, but close to one: when it refuses, the quorum approves *)
(* only if the three other models all do.                                  *)
THEOREM RiskRefusalNeedsAll ==
    ASSUME NEW ctx \in Context, Approves(ctx), ~Votes(ctx)["risk"].approve
    PROVE  \A m \in Models \ {"risk"} : Votes(ctx)[m].approve
  BY ApprovedTally DEF Models

(* No single model carries a decision: an approval has two models for it. *)
THEOREM NoLoneApproval ==
    ASSUME NEW ctx \in Context, Approves(ctx)
    PROVE  \E m, n \in Models : /\ m # n
                                /\ Votes(ctx)[m].approve
                                /\ Votes(ctx)[n].approve
  <1>1. /\ "yield" # "arbitrage" /\ "yield" # "risk" /\ "yield" # "demand"
        /\ "arbitrage" # "risk" /\ "arbitrage" # "demand" /\ "risk" # "demand"
    OBVIOUS
  <1> QED BY <1>1, ApprovedTally DEF Models

------------------------------------------------------------------------------
(* The cycle. *)


LoopType == [pc : Phases, counter : 0 .. Threshold, live : BOOLEAN, rec : BOOLEAN,
             haltUntil : Nat, streak : 0 .. StreakCap, recovery : BOOLEAN]

GuardType == [inactive : 0 .. InactiveLimit, errors : 0 .. ErrorLimit]

StoreType == [file : Records \cup {None}, buffer : Records]

CycleType == [live : BOOLEAN, stakeOk : BOOLEAN, active : BOOLEAN \cup {Unknown},
              beat : {"none", "sent", "error", "skipped"}, rewards : Nat, price : Int, missing : BOOLEAN,
              tripped : BOOLEAN, skip : BOOLEAN, bypassed : BOOLEAN,
              blocked : BOOLEAN, warned : BOOLEAN, util : Int, recoverable : BOOLEAN,
              act : Acts, outcome : Outcomes, errors : Nat \cup {Unknown}, note : Notes]

SeenType == [trips : 0 .. StreakCap, bypasses : 0 .. StreakCap,
             good : 0 .. Threshold, failed : Nat \cup {None}]

LoopTyped == loop \in LoopType /\ guard \in GuardType /\ store \in StoreType
             /\ cyc \in CycleType /\ seen \in SeenType

(* run_once runs in its phase of the cycle only. *)
Resting == loop.pc # "stake" => run = NoRun

(* What a cycle knows in each phase. *)
CycleOK ==
    /\ loop.pc \in {"sleep", "stake", "market"} => cyc.act = "none" /\ ~cyc.bypassed
    /\ loop.pc \in {"decide", "act", "end"} =>
          /\ cyc.live /\ ~cyc.blocked =>
                cyc.price > 0 /\ (cyc.missing => Recent.price <= 1)
          /\ ~cyc.blocked => now >= loop.haltUntil
          /\ cyc.skip => ~cyc.bypassed
    /\ cyc.stakeOk => cyc.active \in BOOLEAN
    /\ cyc.act = "trade" => cyc.live /\ ~cyc.blocked
    /\ cyc.act = "guarded" => ~cyc.bypassed

(* The halt outlasts the last failure. *)
HaltKept ==
    seen.failed # None => /\ seen.failed <= now
                          /\ loop.haltUntil >= seen.failed + HaltTTL

(* Before it goes live the counter lags what the stake steps earned. *)
Earning ==
    env.gated /\ ~loop.live =>
        /\ loop.pc # "sleep" => ~cyc.live
        /\ loop.pc \in {"sleep", "stake"} => loop.counter <= seen.good
        /\ loop.pc \in {"market", "decide", "act", "end"} /\ GoodStake(cyc) =>
              Capped(loop.counter + 1, Threshold) <= seen.good

(* No streak the loop reads back is longer than that of its trips. *)
StreaksKept ==
    "store" \notin faults =>
        /\ store.file = None
        /\ store.buffer.run <= seen.trips
        /\ loop.streak <= seen.trips
        /\ cyc.bypassed => seen.trips >= MinStreak

Inv == /\ StakeInv /\ LoopTyped /\ Resting /\ CycleOK /\ HaltKept /\ Earning
       /\ StreaksKept /\ HaltedRecoveryIsUnanimous

-----------------------------------------------------------------------------
(* A capped counter keeps its range. *)
LEMMA CappedType ==
    ASSUME NEW n \in Nat, NEW limit \in Nat
    PROVE  Capped(n + 1, limit) \in 0 .. limit /\ Capped(n + 1, limit) \in Nat
  BY DEF Capped

(* Two capped counters that step together keep their order. *)
LEMMA CappedGrows ==
    ASSUME NEW m \in Nat, NEW n \in Nat, NEW limit \in Nat, m <= n
    PROVE  Capped(m + 1, limit) <= Capped(n + 1, limit)
  BY DEF Capped

(* The limits, as the provers need them. *)
LEMMA LoopLimits ==
    /\ Threshold \in Nat /\ StreakCap \in Nat /\ MinStreak \in Nat /\ HaltTTL \in Nat
    /\ InactiveLimit \in Nat /\ ErrorLimit \in Nat
    /\ 0 \in 0 .. Threshold /\ 0 \in 0 .. StreakCap
    /\ 0 \in 0 .. InactiveLimit /\ 0 \in 0 .. ErrorLimit
  BY LoopAssumption, LimitsAssumption

(* What a fresh process knows has its type. *)
LEMMA Blanks ==
    /\ NoLoop \in LoopType /\ NoGuard \in GuardType /\ NoRecords \in Records
    /\ NoCycle \in CycleType /\ NoSeen \in SeenType
  <1>1. NoLoop \in LoopType
    BY LoopLimits DEF NoLoop, LoopType, Phases
  <1>2. NoGuard \in GuardType
    BY LoopLimits DEF NoGuard, GuardType
  <1>3. NoRecords \in Records
    BY LoopLimits DEF NoRecords, Records
  <1>4. NoCycle \in CycleType
    BY DEF NoCycle, CycleType, Acts, Outcomes, Notes
  <1>5. NoSeen \in SeenType
    BY LoopLimits DEF NoSeen, SeenType
  <1> QED BY <1>1, <1>2, <1>3, <1>4, <1>5

(* The types of what the lemmas below read of the state. *)
LEMMA LoopFields ==
    ASSUME Inv
    PROVE  /\ loop \in LoopType /\ guard \in GuardType /\ store \in StoreType
           /\ cyc \in CycleType /\ seen \in SeenType
           /\ loop.pc \in Phases /\ loop.counter \in Nat /\ loop.haltUntil \in Nat
           /\ loop.streak \in Nat /\ loop.live \in BOOLEAN
           /\ store.buffer \in Records /\ store.buffer.run \in Nat
           /\ seen.trips \in Nat /\ seen.good \in Nat /\ seen.bypasses \in Nat
           /\ seen.failed \in Nat \cup {None}
           /\ cyc.live \in BOOLEAN /\ cyc.stakeOk \in BOOLEAN
           /\ cyc.blocked \in BOOLEAN /\ cyc.bypassed \in BOOLEAN
           /\ now \in Nat /\ faults \subseteq FaultKinds /\ env \in Profiles
  <1>1. loop.pc \in Phases /\ loop.counter \in Nat /\ loop.haltUntil \in Nat
        /\ loop.streak \in Nat /\ loop.live \in BOOLEAN
    BY LoopLimits DEF Inv, LoopTyped, LoopType
  <1>2. store.buffer \in Records
    BY DEF Inv, LoopTyped, StoreType
  <1>3. store.buffer.run \in Nat
    BY <1>2, LoopLimits DEF Records
  <1>4. seen.trips \in Nat /\ seen.good \in Nat /\ seen.bypasses \in Nat
        /\ seen.failed \in Nat \cup {None}
    BY LoopLimits DEF Inv, LoopTyped, SeenType
  <1>5. cyc.live \in BOOLEAN /\ cyc.stakeOk \in BOOLEAN
        /\ cyc.blocked \in BOOLEAN /\ cyc.bypassed \in BOOLEAN
    BY DEF Inv, LoopTyped, CycleType
  <1>6. now \in Nat /\ faults \subseteq FaultKinds /\ env \in Profiles
    BY Fields, Types DEF Inv, StakeInv, Typed
  <1> QED BY <1>1, <1>2, <1>3, <1>4, <1>5, <1>6 DEF Inv, LoopTyped

-----------------------------------------------------------------------------
(* The stake phase. *)

(* A change of phase is nothing else. *)
LEMMA PhaseType ==
    ASSUME Inv, NEW pc \in Phases, To(pc)
    PROVE  /\ loop' \in LoopType /\ loop'.pc = pc /\ loop'.live = loop.live
           /\ loop'.counter = loop.counter /\ loop'.haltUntil = loop.haltUntil
           /\ loop'.streak = loop.streak /\ loop'.recovery = loop.recovery
  BY DEF To, LoopType, Inv, LoopTyped

(* Outside the stake phase no run_once waits to note its claim. *)
LEMMA NothingSent == NoRun.step = "none" /\ (Resting /\ loop.pc # "stake" => run.step = "none")
  BY DEF NoRun, Resting

(* Begin *)
LEMMA BeginInv == Inv /\ Begin => Inv'
  <1> SUFFICES ASSUME Inv, Begin PROVE Inv'
    OBVIOUS
  <1> DEFINE live == IF env.gated THEN loop.live ELSE TRUE
  <1>1. /\ loop.pc = "sleep" /\ To("stake") /\ StartRun(live)
        /\ cyc' = [NoCycle EXCEPT !.live = live]
        /\ UNCHANGED <<env, chain, kv, mem, now, faults, log, guard, store, seen>>
    BY Zenon DEF Begin
  <1>2. live \in BOOLEAN /\ (env.gated => live = loop.live)
    BY LoopFields
  <1> HIDE DEF live
  <1>3. loop' \in LoopType /\ loop'.pc = "stake" /\ loop'.live = loop.live
        /\ loop'.counter = loop.counter /\ loop'.haltUntil = loop.haltUntil
        /\ loop'.streak = loop.streak
    BY <1>1, PhaseType DEF Phases
  <1>4. /\ cyc' \in CycleType /\ cyc'.live = live /\ cyc'.act = "none"
        /\ cyc'.bypassed = FALSE /\ cyc'.active = FALSE
    BY <1>1, <1>2, Blanks DEF CycleType, NoCycle
  <1>5. StakeInv'
    <2>1. run' \in RunType /\ run'.step = "status"
      BY <1>1, <1>2, StartRunType
    <2>2. run.step # "claimed"
      BY <1>1, NothingSent DEF Inv
    <2> QED BY <1>1, <2>1, <2>2, NewRunInv DEF Inv
  <1>6. LoopTyped'
    BY <1>1, <1>3, <1>4 DEF LoopTyped, Inv
  <1>7. Resting' /\ CycleOK'
    BY <1>3, <1>4 DEF Resting, CycleOK
  <1>8. HaltKept'
    BY <1>1, <1>3, Zenon DEF HaltKept, Inv
  <1>9. Earning'
    BY <1>1, <1>2, <1>3, <1>4 DEF Earning, Inv
  <1>10. StreaksKept'
    BY <1>1, <1>3, <1>4 DEF StreaksKept, Inv
  <1>11. HaltedRecoveryIsUnanimous'
    BY <1>4 DEF HaltedRecoveryIsUnanimous
  <1> QED BY <1>5, <1>6, <1>7, <1>8, <1>9, <1>10, <1>11 DEF Inv

(* run_once forgets no fault. *)
LEMMA RunOnceFaults == RunOnce => faults \subseteq faults'
  <1> SUFFICES ASSUME RunOnce PROVE faults \subseteq faults'
    OBVIOUS
  <1>1. UNCHANGED faults \/ \E kind : Fault(kind)
    BY Zenon DEF RunOnce, ReadStatus, AutoCheck, AutoApprove, AutoStake, AutoRetry, AutoRead,
       Claim, RecordClaim, IdleBalance, IdleNonce, IdleApprove, IdleStake, Beat, RecordBeat,
       NoFault, PassNonceGate, AutoFails, Backoff
  <1> QED BY <1>1 DEF Fault

(* StakeStep *)
LEMMA StakeStepInv == Inv /\ StakeStep => Inv'
  <1> SUFFICES ASSUME Inv, StakeStep PROVE Inv'
    OBVIOUS
  <1>1. loop.pc = "stake" /\ RunOnce /\ UNCHANGED <<loop, guard, store, cyc, seen>>
    BY Zenon DEF StakeStep
  <1>2. UNCHANGED <<env, now>> /\ faults \subseteq faults'
    BY <1>1, RunOnceFaults DEF RunOnce
  <1>3. StakeInv'
    BY <1>1, RunOnceInv DEF Inv
  <1>4. LoopTyped' /\ Resting' /\ CycleOK' /\ HaltKept' /\ HaltedRecoveryIsUnanimous'
    BY <1>1, <1>2, Zenon DEF LoopTyped, Resting, CycleOK, HaltKept,
       HaltedRecoveryIsUnanimous, Inv
  <1>5. Earning'
    BY <1>1, <1>2, Zenon DEF Earning, GoodStake, Inv
  <1>6. StreaksKept'
    BY <1>1, <1>2, Zenon DEF StreaksKept, Inv
  <1> QED BY <1>3, <1>4, <1>5, <1>6 DEF Inv

(* StakeDone *)
LEMMA StakeDoneInv == Inv /\ StakeDone => Inv'
  <1> SUFFICES ASSUME Inv, StakeDone PROVE Inv'
    OBVIOUS
  <1> DEFINE good == run.step = "done" /\ (run.beat = "sent" \/ run.active)
  <1>1. /\ loop.pc = "stake" /\ run.step \in {"done", "failed"} /\ run' = NoRun
        /\ UNCHANGED <<env, chain, kv, mem, now, faults, log, guard, store>>
        /\ loop' = [loop EXCEPT !.pc = "market", !.rec = @ /\ Kept(run)]
        /\ seen' = [seen EXCEPT !.good = IF good THEN Capped(@ + 1, Threshold) ELSE 0]
        /\ cyc' = IF run.step = "done"
                THEN [cyc EXCEPT !.active = run.active, !.beat = run.beat,
                                 !.rewards = run.rewards]
                ELSE [cyc EXCEPT !.stakeOk = FALSE, !.active = Unknown]
    BY Zenon DEF StakeDone
  <1>2. run \in RunType /\ run.active \in BOOLEAN
    BY Fields DEF RunType, Inv, StakeInv
  <1>3. /\ loop' \in LoopType /\ loop'.pc = "market" /\ loop'.live = loop.live
        /\ loop'.counter = loop.counter /\ loop'.haltUntil = loop.haltUntil
        /\ loop'.streak = loop.streak
    <2>1. Kept(run) \in BOOLEAN
      BY DEF Kept
    <2> QED BY <1>1, <2>1, LoopFields DEF LoopType, Phases
  <1>4. /\ seen' \in SeenType /\ seen'.failed = seen.failed /\ seen'.trips = seen.trips
        /\ seen'.good = IF good THEN Capped(seen.good + 1, Threshold) ELSE 0
    <2>1. Capped(seen.good + 1, Threshold) \in 0 .. Threshold
      BY CappedType, LoopFields, LoopLimits
    <2> QED BY <1>1, <2>1, LoopFields, LoopLimits DEF SeenType
  <1>5. /\ cyc' \in CycleType /\ cyc'.act = cyc.act /\ cyc'.bypassed = cyc.bypassed
        /\ cyc'.live = cyc.live
        /\ cyc'.stakeOk => cyc'.active \in BOOLEAN
        /\ GoodStake(cyc)' => good
    <2>1. CASE run.step = "done"
      <3>1. cyc' = [cyc EXCEPT !.active = run.active, !.beat = run.beat,
                               !.rewards = run.rewards]
        BY <1>1, <2>1
      <3>2. cyc' \in CycleType /\ cyc'.act = cyc.act /\ cyc'.bypassed = cyc.bypassed
            /\ cyc'.live = cyc.live /\ cyc'.active = run.active /\ cyc'.beat = run.beat
        BY <1>2, <3>1, LoopFields DEF CycleType, RunType
      <3> QED BY <1>2, <2>1, <3>2 DEF GoodStake
    <2>2. CASE run.step = "failed"
      <3>1. cyc' = [cyc EXCEPT !.stakeOk = FALSE, !.active = Unknown]
        BY <1>1, <2>2
      <3>2. cyc' \in CycleType /\ cyc'.act = cyc.act /\ cyc'.bypassed = cyc.bypassed
            /\ cyc'.live = cyc.live /\ cyc'.stakeOk = FALSE
        BY <3>1, LoopFields DEF CycleType
      <3> QED BY <3>2 DEF GoodStake
    <2> QED BY <1>1, <2>1, <2>2
  <1>6. StakeInv'
    BY <1>1, NoRunType, NewRunInv DEF Inv
  <1>7. LoopTyped'
    BY <1>1, <1>3, <1>4, <1>5 DEF LoopTyped, Inv
  <1>8. Resting' /\ CycleOK'
    BY <1>1, <1>3, <1>5 DEF Resting, CycleOK, Inv
  <1>9. HaltKept'
    BY <1>1, <1>3, <1>4, Zenon DEF HaltKept, Inv
  <1>10. Earning'
    <2> SUFFICES ASSUME env.gated, ~loop.live
                 PROVE  /\ ~cyc'.live
                        /\ GoodStake(cyc)' => Capped(loop'.counter + 1, Threshold) <= seen'.good
      BY <1>1, <1>3 DEF Earning
    <2>1. ~cyc.live /\ loop.counter <= seen.good
      BY <1>1 DEF Earning, Inv
    <2>2. Capped(loop.counter + 1, Threshold) <= Capped(seen.good + 1, Threshold)
      BY <2>1, CappedGrows, LoopFields, LoopLimits
    <2> QED BY <1>3, <1>4, <1>5, <2>1, <2>2
  <1>11. StreaksKept'
    BY <1>1, <1>3, <1>4, <1>5, Zenon DEF StreaksKept, Inv
  <1>12. HaltedRecoveryIsUnanimous'
    BY <1>1, <1>5 DEF HaltedRecoveryIsUnanimous, CycleOK, Inv
  <1> QED BY <1>6, <1>7, <1>8, <1>9, <1>10, <1>11, <1>12 DEF Inv

-----------------------------------------------------------------------------
(* The market phase and the decision. *)

(* What the guardian answers, and what it never lets pass. *)
LEMMA Evaluated ==
    ASSUME NEW g \in GuardType, NEW price \in Int, NEW wild \in BOOLEAN, NEW util \in Int,
           NEW stakeOk \in BOOLEAN, NEW active \in BOOLEAN \cup {Unknown},
           NEW last \in Records
    PROVE  LET v == Evaluate(g, price, wild, util, stakeOk, active, last) IN
           /\ v.guard \in GuardType /\ v.warned \in BOOLEAN /\ v.halt \in BOOLEAN
           /\ ~v.halt => price > 0
  <1> DEFINE v == Evaluate(g, price, wild, util, stakeOk, active, last)
  <1>1. g.inactive \in Nat /\ g.errors \in Nat
    BY LoopLimits DEF GuardType
  <1>2. Inactive(g.inactive, active) \in 0 .. InactiveLimit
    <2>1. Capped(g.inactive + 1, InactiveLimit) \in 0 .. InactiveLimit
      BY <1>1, CappedType, LoopLimits
    <2> QED BY <2>1, LoopLimits DEF Inactive
  <1>3. Errors(g.errors, last.errors) \in 0 .. ErrorLimit
    <2>1. Capped(g.errors + 1, ErrorLimit) \in 0 .. ErrorLimit
      BY <1>1, CappedType, LoopLimits
    <2>2. g.errors \in 0 .. ErrorLimit
      BY DEF GuardType
    <2> QED BY <2>1, <2>2, LoopLimits DEF Errors
  <1>4. v.guard = [inactive |-> Inactive(g.inactive, active),
                   errors |-> Errors(g.errors, last.errors)]
    BY DEF Evaluate
  <1>5. v.guard \in GuardType
    BY <1>2, <1>3, <1>4 DEF GuardType
  <1>6. v.warned \in BOOLEAN /\ v.halt \in BOOLEAN
    BY DEF Evaluate
  <1>7. ~v.halt => price > 0
    BY DEF Evaluate, NoPrice
  <1> QED BY <1>5, <1>6, <1>7

(* A price of 1 is no drawdown only from a price of at most 1. *)
LEMMA FallsFromOne ==
    ASSUME NEW g, NEW wild, NEW util, NEW stakeOk, NEW active, NEW last \in Records,
           ~Evaluate(g, 1, wild, util, stakeOk, active, last).halt
    PROVE  last.price <= 1
  <1>1. last.price \in Int
    BY DEF Records
  <1>2. ~(last.price > 0 /\ Drawdown(last.price, 1))
    BY DEF Evaluate
  <1>3. \A n \in Int : ~(n > 0 /\ 100 * (n - 1) > 12 * n) => n <= 1
    OBVIOUS
  <1> QED BY <1>1, <1>2, <1>3 DEF Drawdown

(* The streak the loop reads back is one of its trips while no record was   *)
(* lost.                                                                     *)
LEMMA StreakBound ==
    ASSUME Inv
    PROVE  /\ Recent \in Records /\ Streak \in Nat
           /\ "store" \notin faults => Streak <= seen.trips
  <1>1. Recent \in Records
    <2>1. store.file \in Records \cup {None}
      BY LoopFields DEF StoreType
    <2> QED BY <2>1, LoopFields DEF Recent
  <1>2. Recent.run \in Nat
    BY <1>1, LoopLimits DEF Records
  <1>3. Streak \in Nat
    BY <1>2, LoopFields DEF Streak
  <1>4. "store" \notin faults => Recent = store.buffer
    BY DEF Recent, StreaksKept, Inv
  <1>5. "store" \notin faults => Streak <= seen.trips
    BY <1>4 DEF Streak, StreaksKept, Inv
  <1> QED BY <1>1, <1>3, <1>5

(* Survey *)
LEMMA SurveyInv == Inv /\ Survey => Inv'
  <1> SUFFICES ASSUME Inv, Survey PROVE Inv'
    OBVIOUS
  <1>1. /\ loop.pc = "market" /\ To("decide")
        /\ UNCHANGED <<stakeVars, store, seen>>
    BY Zenon DEF Survey
  <1>2. PICK raw \in env.prices, health \in env.health, wild \in env.wild,
             util \in env.utils, locked \in env.recoveries :
          Surveyed(raw, health, wild, util, locked)
    BY Zenon DEF Survey
  <1> DEFINE price == Quoted(raw)
             missing == raw = Unknown
             bypassed == Trips(health) /\ MayBypass(health)
             verdict  == Evaluate(guard, price, wild, util, cyc.stakeOk,
                                  cyc.active, Recent)
  <1>3. /\ price \in Int /\ wild \in BOOLEAN /\ util \in Int /\ locked \in BOOLEAN
        /\ missing \in BOOLEAN /\ (missing => price = 1)
    <2>1. /\ env.prices \subseteq Int \cup {Unknown} /\ env.utils \subseteq Int
          /\ env.wild \subseteq BOOLEAN /\ env.recoveries \subseteq BOOLEAN
      BY LoopProfileAssumption, LoopFields
    <2> QED BY <2>1 DEF Quoted
  <1> HIDE DEF price, missing
  <1>4. /\ verdict.guard \in GuardType /\ verdict.warned \in BOOLEAN
        /\ verdict.halt \in BOOLEAN
        /\ ~verdict.halt => price > 0 /\ (price = 1 => Recent.price <= 1)
    <2>1. cyc.active \in BOOLEAN \cup {Unknown}
      BY LoopFields DEF CycleType
    <2>2. guard \in GuardType /\ cyc.stakeOk \in BOOLEAN /\ Recent \in Records
      BY StreakBound, LoopFields
    <2>3. price \in Int /\ wild \in BOOLEAN /\ util \in Int
      BY <1>3
    <2>4. /\ verdict.guard \in GuardType /\ verdict.warned \in BOOLEAN
          /\ verdict.halt \in BOOLEAN
      BY <2>1, <2>2, <2>3, Evaluated
    <2>5. ~verdict.halt => price > 0
      BY <2>1, <2>2, <2>3, Evaluated
    <2>6. ~verdict.halt => (price = 1 => Recent.price <= 1)
      <3> SUFFICES ASSUME ~verdict.halt, price = 1 PROVE Recent.price <= 1
        BY Zenon
      <3> DEFINE halt == Evaluate(guard, 1, wild, util, cyc.stakeOk, cyc.active,
                                  Recent).halt
      <3>1. ~halt
        OBVIOUS
      <3> QED BY <2>2, <3>1, FallsFromOne, Zenon
    <2> QED BY <2>4, <2>5, <2>6
  <1>5. /\ bypassed \in BOOLEAN /\ Trips(health) \in BOOLEAN /\ Sticky \in BOOLEAN
        /\ Asked \in BOOLEAN /\ Recoverable(locked) \in BOOLEAN
    BY <1>3, LoopFields DEF Trips, MayBypass, Sticky, Asked, Recoverable
  <1>6. /\ loop' \in LoopType /\ loop'.pc = "decide" /\ loop'.live = loop.live
        /\ loop'.counter = loop.counter /\ loop'.haltUntil = loop.haltUntil
        /\ loop'.streak = loop.streak
    BY <1>1, PhaseType DEF Phases
  <1>7. /\ cyc' \in CycleType /\ cyc'.act = cyc.act /\ cyc'.live = cyc.live
        /\ cyc'.stakeOk = cyc.stakeOk /\ cyc'.active = cyc.active /\ cyc'.beat = cyc.beat
        /\ cyc'.price = price /\ cyc'.missing = missing /\ cyc'.bypassed = bypassed
        /\ cyc'.blocked = (Sticky \/ (Asked /\ verdict.halt))
        /\ cyc'.skip = (cyc.live /\ ~bypassed /\ (Trips(health) \/ price = 0))
    <2>1. cyc' = [cyc EXCEPT
                   !.price = price, !.missing = missing, !.tripped = Trips(health),
                   !.bypassed = bypassed,
                   !.skip = cyc.live /\ ~bypassed /\ (Trips(health) \/ price = 0),
                   !.blocked = Sticky \/ (Asked /\ verdict.halt),
                   !.warned = Asked /\ verdict.warned,
                   !.util = util,
                   !.recoverable = Recoverable(locked)]
      BY <1>2, Zenon DEF Surveyed, price, missing
    <2>2. /\ (cyc.live /\ ~bypassed /\ (Trips(health) \/ price = 0)) \in BOOLEAN
          /\ (Sticky \/ (Asked /\ verdict.halt)) \in BOOLEAN
          /\ (Asked /\ verdict.warned) \in BOOLEAN
      BY <1>4, <1>5
    <2> DEFINE skip == cyc.live /\ ~bypassed /\ (Trips(health) \/ price = 0)
               blocked == Sticky \/ (Asked /\ verdict.halt)
               warned == Asked /\ verdict.warned
    <2> HIDE DEF bypassed, verdict, skip, blocked, warned
    <2>3. cyc' = [cyc EXCEPT
                   !.price = price, !.missing = missing, !.tripped = Trips(health),
                   !.bypassed = bypassed,
                   !.skip = skip, !.blocked = blocked, !.warned = warned,
                   !.util = util, !.recoverable = Recoverable(locked)]
      BY <2>1, Zenon DEF skip, blocked, warned
    <2>4. skip \in BOOLEAN /\ blocked \in BOOLEAN /\ warned \in BOOLEAN
      BY <2>2, Zenon DEF skip, blocked, warned
    <2>5. /\ cyc' \in CycleType /\ cyc'.act = cyc.act /\ cyc'.live = cyc.live
          /\ cyc'.stakeOk = cyc.stakeOk /\ cyc'.active = cyc.active /\ cyc'.beat = cyc.beat
          /\ cyc'.price = price /\ cyc'.missing = missing /\ cyc'.bypassed = bypassed /\ cyc'.blocked = blocked
          /\ cyc'.skip = skip
      <3> DEFINE c1 == [cyc EXCEPT !.price = price, !.missing = missing,
                             !.tripped = Trips(health)]
                 c2 == [c1 EXCEPT !.bypassed = bypassed, !.skip = skip]
                 c3 == [c2 EXCEPT !.blocked = blocked, !.warned = warned]
                 c4 == [c3 EXCEPT !.util = util, !.recoverable = Recoverable(locked)]
      <3>1. cyc' = c4
        BY <2>3
      <3>2. /\ c1 \in CycleType /\ c1.act = cyc.act /\ c1.live = cyc.live
            /\ c1.stakeOk = cyc.stakeOk /\ c1.active = cyc.active /\ c1.beat = cyc.beat
            /\ c1.price = price /\ c1.missing = missing
        BY <1>3, <1>5, LoopFields DEF CycleType
      <3> HIDE DEF c1
      <3>3. /\ c2 \in CycleType /\ c2.act = cyc.act /\ c2.live = cyc.live
            /\ c2.stakeOk = cyc.stakeOk /\ c2.active = cyc.active /\ c2.beat = cyc.beat
            /\ c2.price = price /\ c2.missing = missing /\ c2.bypassed = bypassed /\ c2.skip = skip
        BY <1>5, <2>4, <3>2 DEF CycleType
      <3> HIDE DEF c2
      <3>4. /\ c3 \in CycleType /\ c3.act = cyc.act /\ c3.live = cyc.live
            /\ c3.stakeOk = cyc.stakeOk /\ c3.active = cyc.active /\ c3.beat = cyc.beat
            /\ c3.price = price /\ c3.missing = missing /\ c3.bypassed = bypassed /\ c3.skip = skip
            /\ c3.blocked = blocked
        BY <2>4, <3>3 DEF CycleType
      <3> HIDE DEF c3
      <3>5. /\ c4 \in CycleType /\ c4.act = cyc.act /\ c4.live = cyc.live
            /\ c4.stakeOk = cyc.stakeOk /\ c4.active = cyc.active /\ c4.beat = cyc.beat
            /\ c4.price = price /\ c4.missing = missing /\ c4.bypassed = bypassed /\ c4.skip = skip
            /\ c4.blocked = blocked
        BY <1>3, <1>5, <3>4 DEF CycleType
      <3> HIDE DEF c4
      <3> QED BY <3>1, <3>5
    <2> QED BY <2>5, Zenon DEF skip, blocked
  <1>8. guard' \in GuardType
    <2>1. guard' = IF Asked THEN verdict.guard ELSE guard
      BY <1>2, Zenon DEF Surveyed, price
    <2> QED BY <1>4, <2>1, LoopFields
  <1>9. StakeInv'
    BY <1>1, LoopInv DEF stakeVars, Inv
  <1>10. LoopTyped'
    BY <1>1, <1>6, <1>7, <1>8 DEF LoopTyped, Inv
  <1>11. Resting'
    BY <1>1, <1>6 DEF Resting, stakeVars, Inv
  <1>12. CycleOK'
    <2>1. cyc.live /\ ~cyc'.blocked =>
            price > 0 /\ (missing => Recent'.price <= 1)
      <3>1. Recent' = Recent
        BY <1>1 DEF Recent
      <3> QED BY <1>3, <1>4, <1>7, <3>1 DEF Asked
    <2>2. ~cyc'.blocked => ~Sticky
      BY <1>7
    <2>3. ~cyc'.blocked => now >= loop.haltUntil
      <3>1. \A m, n \in Nat : ~(m < n) => m >= n
        OBVIOUS
      <3> QED BY <2>2, <3>1, LoopFields DEF Sticky
    <2>4. cyc'.skip => ~cyc'.bypassed
      BY <1>7
    <2>5. cyc.act = "none" /\ (cyc.stakeOk => cyc.active \in BOOLEAN)
      BY <1>1 DEF CycleOK, Inv
    <2>6. now' = now
      BY <1>1 DEF stakeVars
    <2> QED BY <1>6, <1>7, <2>1, <2>3, <2>4, <2>5, <2>6 DEF CycleOK
  <1>13. HaltKept'
    BY <1>1, <1>6, Zenon DEF HaltKept, Inv, stakeVars
  <1>14. Earning'
    BY <1>1, <1>6, <1>7 DEF Earning, GoodStake, Inv, stakeVars
  <1>15. StreaksKept'
    <2>1. "store" \notin faults /\ bypassed => seen.trips >= MinStreak
      <3>1. bypassed => Streak >= MinStreak
        BY DEF MayBypass
      <3>2. \A m, n, k \in Nat : m >= n /\ m <= k => k >= n
        OBVIOUS
      <3> QED BY <3>1, <3>2, StreakBound, LoopFields, LoopLimits
    <2> QED BY <1>1, <1>6, <1>7, <2>1 DEF StreaksKept, Inv, stakeVars
  <1>16. HaltedRecoveryIsUnanimous'
    BY <1>1, <1>7 DEF HaltedRecoveryIsUnanimous, CycleOK, Inv
  <1> QED BY <1>9, <1>10, <1>11, <1>12, <1>13, <1>14, <1>15, <1>16 DEF Inv

-----------------------------------------------------------------------------
(* The ends of a cycle. *)

(* A record is one guarded cycle more, or the end of a streak. *)
LEMMA RecordType ==
    ASSUME Inv, NEW guarded \in BOOLEAN, NEW errors \in Nat \cup {Unknown},
           Record(guarded, errors)
    PROVE  /\ store' \in StoreType
           /\ UNCHANGED faults \/ Fault("store")
           /\ "store" \notin faults' =>
                 /\ "store" \notin faults /\ store'.file = store.file
                 /\ store'.buffer.run =
                       IF guarded THEN Capped(store.buffer.run + 1, StreakCap) ELSE 0
  <1> DEFINE After(r) == [run |-> IF guarded THEN Capped(r.run + 1, StreakCap) ELSE 0,
                          price |-> cyc.price, errors |-> errors]
  <1>1. ASSUME NEW r \in Records PROVE After(r) \in Records
    <2>1. r.run \in Nat
      BY LoopLimits DEF Records
    <2>2. Capped(r.run + 1, StreakCap) \in 0 .. StreakCap
      BY <2>1, CappedType, LoopLimits
    <2>3. cyc.price \in Int
      BY LoopFields DEF CycleType
    <2> QED BY <2>2, <2>3, LoopLimits DEF Records
  <1>2. \/ NoFault /\ store' = [store EXCEPT !.buffer = After(@)]
        \/ /\ Fault("store")
           /\ store' = IF env.fallback
                        THEN [file |-> After(IF store.file = None THEN NoRecords
                                                                  ELSE store.file),
                              buffer |-> After(store.buffer)]
                        ELSE store
    BY Zenon DEF Record
  <1>3. After(store.buffer).run = IF guarded THEN Capped(store.buffer.run + 1, StreakCap) ELSE 0
    OBVIOUS
  <1>4. store.file \in Records \cup {None} /\ store.buffer \in Records
    BY LoopFields DEF StoreType
  <1>5. /\ After(store.buffer) \in Records
        /\ After(IF store.file = None THEN NoRecords ELSE store.file) \in Records
    <2>1. (IF store.file = None THEN NoRecords ELSE store.file) \in Records
      BY <1>4, Blanks
    <2>2. After(store.buffer) \in Records
      BY <1>1, <1>4
    <2>3. After(IF store.file = None THEN NoRecords ELSE store.file) \in Records
      BY <1>1, <2>1
    <2> QED BY <2>2, <2>3
  <1>6. CASE NoFault /\ store' = [store EXCEPT !.buffer = After(@)]
    <2> HIDE DEF After
    <2>1. store' \in StoreType /\ store'.file = store.file
          /\ store'.buffer = After(store.buffer)
      BY <1>5, <1>6, LoopFields DEF StoreType
    <2> QED BY <1>3, <1>6, <2>1 DEF NoFault
  <1>7. CASE /\ Fault("store")
             /\ store' = IF env.fallback
                          THEN [file |-> After(IF store.file = None THEN NoRecords
                                                                    ELSE store.file),
                                buffer |-> After(store.buffer)]
                          ELSE store
    <2> HIDE DEF After
    <2>1. store' \in StoreType
      BY <1>5, <1>7, LoopFields DEF StoreType
    <2>2. "store" \in faults'
      BY <1>7 DEF Fault
    <2> QED BY <1>7, <2>1, <2>2
  <1> QED BY <1>2, <1>6, <1>7

(* The progressive state after a cycle. *)
LEMMA ProgressedType ==
    ASSUME Inv, NEW l \in LoopType
    PROVE  /\ Progressed(l) \in LoopType /\ Progressed(l).pc = l.pc
           /\ Progressed(l).haltUntil = l.haltUntil /\ Progressed(l).streak = l.streak
           /\ Progressed(l).live # l.live =>
                 env.gated /\ GoodStake(cyc) /\ Capped(l.counter + 1, Threshold) >= Threshold
           /\ env.gated /\ ~Progressed(l).live =>
                 /\ ~l.live
                 /\ Progressed(l).counter =
                       IF GoodStake(cyc) THEN Capped(l.counter + 1, Threshold) ELSE 0
  <1> DEFINE counter == IF GoodStake(cyc) THEN Capped(l.counter + 1, Threshold) ELSE 0
  <1>1. l.counter \in Nat /\ l.live \in BOOLEAN
    BY LoopLimits DEF LoopType
  <1>2. Capped(l.counter + 1, Threshold) \in 0 .. Threshold
    BY <1>1, CappedType, LoopLimits
  <1>3. counter \in 0 .. Threshold /\ counter \in Nat
    BY <1>2, LoopLimits
  <1>4. counter >= Threshold => GoodStake(cyc)
    BY <1>3, LoopAssumption
  <1> HIDE DEF counter
  <1>5. Progressed(l) = IF env.gated
                          THEN [l EXCEPT !.counter = counter,
                                         !.live = @ \/ counter >= Threshold]
                          ELSE l
    BY Zenon DEF Progressed, counter
  <1>6. /\ Progressed(l) \in LoopType /\ Progressed(l).pc = l.pc
        /\ Progressed(l).haltUntil = l.haltUntil /\ Progressed(l).streak = l.streak
        /\ env.gated => /\ Progressed(l).counter = counter
                        /\ Progressed(l).live = (l.live \/ counter >= Threshold)
        /\ ~env.gated => Progressed(l).live = l.live
    BY <1>1, <1>3, <1>5 DEF LoopType
  <1>7. counter = IF GoodStake(cyc) THEN Capped(l.counter + 1, Threshold) ELSE 0
    BY DEF counter
  <1> HIDE DEF counter
  <1> QED BY <1>1, <1>4, <1>6, <1>7

(* What the counter lags behind when a cycle is over. *)
LEMMA Earned ==
    ASSUME Inv, NEW l \in LoopType, l.live = loop.live, l.counter = loop.counter,
           loop.pc \in {"decide", "act", "end"},
           env.gated, ~Progressed(l).live
    PROVE  Progressed(l).counter <= seen.good
  <1>1. /\ ~l.live
        /\ Progressed(l).counter =
              IF GoodStake(cyc) THEN Capped(l.counter + 1, Threshold) ELSE 0
    BY ProgressedType
  <1>2. GoodStake(cyc) => Capped(loop.counter + 1, Threshold) <= seen.good
    BY <1>1 DEF Inv, Earning
  <1>3. 0 <= seen.good
    BY LoopFields
  <1> QED BY <1>1, <1>2, <1>3

(* With no cycle in progress nothing is known of it. *)
LEMMA Ended ==
    ASSUME cyc' = NoCycle, loop'.pc = "sleep"
    PROVE  CycleOK' /\ HaltedRecoveryIsUnanimous' /\ cyc'.bypassed = FALSE
           /\ cyc' \in CycleType
  BY Blanks DEF CycleOK, HaltedRecoveryIsUnanimous, NoCycle

(* Abandon *)
LEMMA AbandonInv == Inv /\ Abandon => Inv'
  <1> SUFFICES ASSUME Inv, Abandon PROVE Inv'
    OBVIOUS
  <1>1. /\ loop.pc = "market" /\ cyc.live /\ Fault("market") /\ To("sleep")
        /\ cyc' = NoCycle
        /\ UNCHANGED <<env, chain, kv, mem, run, now, log, guard, store, seen>>
    BY Zenon DEF Abandon
  <1>2. /\ loop' \in LoopType /\ loop'.pc = "sleep" /\ loop'.live = loop.live
        /\ loop'.counter = loop.counter /\ loop'.haltUntil = loop.haltUntil
        /\ loop'.streak = loop.streak
    BY <1>1, PhaseType DEF Phases
  <1>3. faults \subseteq faults'
    BY <1>1 DEF Fault
  <1>4. CycleOK' /\ HaltedRecoveryIsUnanimous' /\ cyc'.bypassed = FALSE /\ cyc' \in CycleType
    BY <1>1, <1>2, Ended
  <1>5. StakeInv'
    BY <1>1, LoopInv DEF FaultKinds, Inv
  <1>6. LoopTyped'
    BY <1>1, <1>2, <1>4 DEF LoopTyped, Inv
  <1>7. Resting'
    BY <1>1, <1>2 DEF Resting, Inv
  <1>8. HaltKept'
    BY <1>1, <1>2, Zenon DEF HaltKept, Inv
  <1>9. Earning'
    BY <1>1, <1>2 DEF Earning, Inv
  <1>10. StreaksKept'
    BY <1>1, <1>2, <1>3, <1>4 DEF StreaksKept, Inv
  <1> QED BY <1>4, <1>5, <1>6, <1>7, <1>8, <1>9, <1>10 DEF Inv

(* TimeOut *)
LEMMA TimeOutInv == Inv /\ TimeOut => Inv'
  <1> SUFFICES ASSUME Inv, TimeOut PROVE Inv'
    OBVIOUS
  <1> DEFINE l == [loop EXCEPT !.pc = "sleep"]
  <1>1. /\ loop.pc = "decide" /\ Record(FALSE, Unknown) /\ cyc' = NoCycle
        /\ loop' = Progressed(l)
        /\ UNCHANGED <<env, chain, kv, mem, run, now, log, guard, seen>>
    BY Zenon DEF TimeOut
  <1>2. /\ l \in LoopType /\ l.pc = "sleep" /\ l.live = loop.live
        /\ l.counter = loop.counter /\ l.haltUntil = loop.haltUntil
        /\ l.streak = loop.streak
    BY LoopFields DEF LoopType, Phases
  <1> HIDE DEF l
  <1>3. /\ loop' \in LoopType /\ loop'.pc = "sleep"
        /\ loop'.haltUntil = loop.haltUntil /\ loop'.streak = loop.streak
    BY <1>1, <1>2, ProgressedType
  <1>4. /\ store' \in StoreType
        /\ UNCHANGED faults \/ Fault("store")
        /\ "store" \notin faults' =>
              "store" \notin faults /\ store'.file = store.file /\ store'.buffer.run = 0
    BY <1>1, RecordType
  <1>5. CycleOK' /\ HaltedRecoveryIsUnanimous' /\ cyc'.bypassed = FALSE /\ cyc' \in CycleType
    BY <1>1, <1>3, Ended
  <1>6. StakeInv'
    BY <1>1, <1>4, LoopInv DEF FaultKinds, Inv
  <1>7. LoopTyped'
    BY <1>1, <1>3, <1>4, <1>5 DEF LoopTyped, Inv
  <1>8. Resting'
    BY <1>1, <1>3 DEF Resting, Inv
  <1>9. HaltKept'
    BY <1>1, <1>3, Zenon DEF HaltKept, Inv
  <1>10. Earning'
    <2>1. env.gated /\ ~loop'.live => loop'.counter <= seen.good
      BY <1>1, <1>2, Earned
    <2> QED BY <1>1, <1>3, <2>1 DEF Earning
  <1>11. StreaksKept'
    <2>1. 0 <= seen.trips
      BY LoopFields
    <2> QED BY <1>1, <1>3, <1>4, <1>5, <2>1 DEF StreaksKept, Inv
  <1> QED BY <1>5, <1>6, <1>7, <1>8, <1>9, <1>10, <1>11 DEF Inv

-----------------------------------------------------------------------------
(* The decision and the live leg. *)

(* What a decision may change. *)
LEMMA DecideInv ==
    ASSUME Inv, UNCHANGED <<env, chain, kv, mem, run, now, log, guard, store, seen>>,
           UNCHANGED faults \/ \E kind \in FaultKinds : Fault(kind),
           loop.pc \in {"decide", "act"}, loop' \in LoopType, loop'.pc \in {"act", "end"},
           loop'.live = loop.live, loop'.counter = loop.counter,
           loop'.haltUntil = loop.haltUntil, loop'.streak = loop.streak,
           cyc' \in CycleType, cyc'.live = cyc.live, cyc'.stakeOk = cyc.stakeOk,
           cyc'.active = cyc.active, cyc'.beat = cyc.beat, cyc'.price = cyc.price,
           cyc'.missing = cyc.missing,
           cyc'.bypassed = cyc.bypassed, cyc'.blocked = cyc.blocked, cyc'.skip = cyc.skip,
           cyc'.act = "trade" => cyc.live /\ ~cyc.blocked,
           cyc'.act = "guarded" => ~cyc.bypassed,
           HaltedRecoveryIsUnanimous'
    PROVE  Inv'
  <1>1. StakeInv'
    BY LoopInv DEF Inv
  <1>2. faults \subseteq faults'
    BY DEF Fault
  <1>3. LoopTyped'
    BY DEF LoopTyped, Inv
  <1>4. Resting'
    BY DEF Resting, Inv
  <1>5. CycleOK'
    <2>1. Recent' = Recent
      BY DEF Recent
    <2> QED BY <2>1, Zenon DEF CycleOK, Inv
  <1>6. HaltKept'
    BY Zenon DEF HaltKept, Inv
  <1>7. Earning'
    BY DEF Earning, GoodStake, Inv
  <1>8. StreaksKept'
    BY <1>2 DEF StreaksKept, Inv
  <1> QED BY <1>1, <1>3, <1>4, <1>5, <1>6, <1>7, <1>8 DEF Inv

(* A decision leaves what the cycle has read. *)
LEMMA DecisionType ==
    ASSUME Inv, NEW act \in Acts, Decision(act)
    PROVE  /\ cyc' \in CycleType /\ cyc'.live = cyc.live /\ cyc'.stakeOk = cyc.stakeOk
           /\ cyc'.active = cyc.active /\ cyc'.beat = cyc.beat /\ cyc'.price = cyc.price
        /\ cyc'.missing = cyc.missing
           /\ cyc'.bypassed = cyc.bypassed /\ cyc'.blocked = cyc.blocked
           /\ cyc'.skip = cyc.skip /\ cyc'.act = act
  BY LoopFields DEF Decision, CycleType

(* Halted and Guarded *)
LEMMA StoppedInv == Inv /\ (Halted \/ Guarded) => Inv'
  <1> SUFFICES ASSUME Inv, Halted \/ Guarded PROVE Inv'
    OBVIOUS
  <1>1. /\ loop.pc = "decide" /\ To("end")
        /\ UNCHANGED <<stakeVars, guard, store, seen>>
        /\ Decision("halted") \/ (Decision("guarded") /\ cyc.skip)
    BY Zenon DEF Halted, Guarded
  <1>2. /\ loop' \in LoopType /\ loop'.pc = "end" /\ loop'.live = loop.live
        /\ loop'.counter = loop.counter /\ loop'.haltUntil = loop.haltUntil
        /\ loop'.streak = loop.streak
    BY <1>1, PhaseType DEF Phases
  <1>3. cyc.skip => ~cyc.bypassed
    BY <1>1 DEF CycleOK, Inv
  <1>4. /\ cyc' \in CycleType /\ cyc'.live = cyc.live /\ cyc'.stakeOk = cyc.stakeOk
        /\ cyc'.active = cyc.active /\ cyc'.beat = cyc.beat /\ cyc'.price = cyc.price
        /\ cyc'.missing = cyc.missing
        /\ cyc'.bypassed = cyc.bypassed /\ cyc'.blocked = cyc.blocked
        /\ cyc'.skip = cyc.skip
        /\ cyc'.act \in {"halted", "guarded"}
        /\ cyc'.act = "guarded" => ~cyc.bypassed
    <2>1. CASE Decision("halted")
      BY <2>1, DecisionType DEF Acts
    <2>2. CASE Decision("guarded") /\ cyc.skip
      BY <1>3, <2>2, DecisionType DEF Acts
    <2> QED BY <1>1, <2>1, <2>2
  <1>5. HaltedRecoveryIsUnanimous'
    BY <1>4 DEF HaltedRecoveryIsUnanimous
  <1> QED BY <1>1, <1>2, <1>4, <1>5, DecideInv DEF stakeVars

(* In a halted cycle an approval has the stake and the demand behind it. *)
LEMMA HaltedApproval ==
    ASSUME Inv, NEW premium \in Nat, cyc.blocked, Approves(QuorumContext(premium))
    PROVE  cyc.stakeOk /\ cyc.active = TRUE /\ cyc.beat # "error" /\ cyc.util >= 82
  <1> DEFINE ctx == QuorumContext(premium)
  <1>1. cyc.util \in Int /\ cyc.rewards \in Nat /\ cyc.warned \in BOOLEAN
    BY LoopFields DEF CycleType
  <1>2. ctx \in Context
    BY <1>1, LoopFields DEF QuorumContext, Context
  <1>3. ctx.halt /\ ctx.util = cyc.util /\ ctx.stakeOk = cyc.stakeOk
        /\ ctx.active = (cyc.active = TRUE) /\ ctx.beatError = (cyc.beat = "error")
    BY DEF QuorumContext
  <1> HIDE DEF ctx
  <1>4. Approves(ctx)
    BY DEF ctx
  <1>5. ~RiskVote(ctx).approve
    BY <1>3 DEF RiskVote, Against
  <1>6. YieldVote(ctx).approve /\ DemandVote(ctx).approve
    BY <1>2, <1>4, <1>5, ApprovedTally, VotesType
  <1>7. ctx.stakeOk /\ ctx.active /\ ~ctx.beatError
    BY <1>6 DEF YieldVote, Against
  <1>8. ctx.util >= 82
    BY <1>1, <1>3, <1>6 DEF DemandVote, Against
  <1> QED BY <1>3, <1>7, <1>8

(* Simulate *)
LEMMA SimulateInv == Inv /\ Simulate => Inv'
  <1> SUFFICES ASSUME Inv, Simulate PROVE Inv'
    OBVIOUS
  <1>1. /\ loop.pc = "decide" /\ ~cyc.skip
        /\ UNCHANGED <<env, chain, kv, mem, run, now, log, guard, store, seen>>
    BY Zenon DEF Simulate
  <1>2. PICK signal \in env.signals, recovery \in env.recoveries, note \in env.notes,
             premium \in env.premiums, errors \in env.errors, sims \in BOOLEAN :
          LET found  == IF sims THEN signal ELSE cyc.price > 0
              action == IF sims THEN recovery ELSE loop.recovery
              branch == Branch(found, action, premium)
          IN /\ IF sims THEN NoFault ELSE Fault("sim")
             /\ cyc' = [cyc EXCEPT !.act = branch, !.errors = errors, !.note = note]
             /\ loop' = [loop EXCEPT
                           !.pc = IF branch \in {"trade", "recover"} THEN "act" ELSE "end",
                           !.recovery = action]
    BY Zenon DEF Simulate
  <1> DEFINE found  == IF sims THEN signal ELSE cyc.price > 0
             action == IF sims THEN recovery ELSE loop.recovery
             branch == Branch(found, action, premium)
             pc == IF branch \in {"trade", "recover"} THEN "act" ELSE "end"
  <1>3. /\ recovery \in BOOLEAN /\ note \in Notes /\ premium \in Nat
        /\ errors \in Nat \cup {Unknown}
    <2>1. /\ env.premiums \subseteq Nat /\ env.recoveries \subseteq BOOLEAN
          /\ env.errors \subseteq Nat \cup {Unknown} /\ env.notes \subseteq Notes
      BY LoopProfileAssumption, LoopFields
    <2> QED BY <2>1
  <1>4. action \in BOOLEAN
    BY <1>3, LoopFields DEF LoopType
  <1> HIDE DEF found, action
  <1>5. /\ branch \in Acts /\ branch # "guarded"
        /\ branch = "trade" => cyc.live /\ ~cyc.blocked
        /\ branch = "recover" => Approves(QuorumContext(premium))
    BY Zenon DEF Branch, Acts
  <1>6. pc \in {"act", "end"}
    OBVIOUS
  <1> HIDE DEF branch, pc
  <1>7. /\ cyc' = [cyc EXCEPT !.act = branch, !.errors = errors, !.note = note]
        /\ loop' = [loop EXCEPT !.pc = pc, !.recovery = action]
        /\ IF sims THEN NoFault ELSE Fault("sim")
    BY <1>2, Zenon DEF found, action, branch, pc
  <1>8. /\ loop' \in LoopType /\ loop'.pc = pc /\ loop'.live = loop.live
        /\ loop'.counter = loop.counter /\ loop'.haltUntil = loop.haltUntil
        /\ loop'.streak = loop.streak
    BY <1>4, <1>6, <1>7, LoopFields DEF LoopType, Phases
  <1>9. /\ cyc' \in CycleType /\ cyc'.live = cyc.live /\ cyc'.stakeOk = cyc.stakeOk
        /\ cyc'.active = cyc.active /\ cyc'.beat = cyc.beat /\ cyc'.price = cyc.price
        /\ cyc'.missing = cyc.missing
        /\ cyc'.bypassed = cyc.bypassed /\ cyc'.blocked = cyc.blocked
        /\ cyc'.skip = cyc.skip /\ cyc'.util = cyc.util /\ cyc'.act = branch
    BY <1>3, <1>5, <1>7, LoopFields DEF CycleType
  <1>10. UNCHANGED faults \/ \E kind \in FaultKinds : Fault(kind)
    BY <1>7 DEF NoFault, FaultKinds
  <1>11. HaltedRecoveryIsUnanimous'
    <2>1. branch = "recover" /\ cyc.blocked
            => cyc.stakeOk /\ cyc.active = TRUE /\ cyc.beat # "error" /\ cyc.util >= 82
      BY <1>3, <1>5, HaltedApproval
    <2> QED BY <1>9, <2>1 DEF HaltedRecoveryIsUnanimous
  <1> QED BY <1>1, <1>5, <1>6, <1>8, <1>9, <1>10, <1>11, DecideInv

(* Trade and Recover *)
LEMMA LegInv == Inv /\ (Trade \/ Recover) => Inv'
  <1> SUFFICES ASSUME Inv, Trade \/ Recover PROVE Inv'
    OBVIOUS
  <1>1. /\ loop.pc = "act" /\ \E o \in env.outcomes : cyc' = [cyc EXCEPT !.outcome = o]
        /\ To("end") \/ loop' = [loop EXCEPT !.pc = "end", !.recovery = FALSE]
        /\ UNCHANGED <<stakeVars, guard, store, seen>>
    BY Zenon DEF Trade, Recover
  <1>2. PICK o \in env.outcomes : cyc' = [cyc EXCEPT !.outcome = o]
    BY <1>1
  <1>3. o \in Outcomes
    BY LoopProfileAssumption, LoopFields
  <1>4. /\ loop' \in LoopType /\ loop'.pc = "end" /\ loop'.live = loop.live
        /\ loop'.counter = loop.counter /\ loop'.haltUntil = loop.haltUntil
        /\ loop'.streak = loop.streak
    BY <1>1, LoopFields DEF LoopType, Phases, To
  <1>5. /\ cyc' \in CycleType /\ cyc'.live = cyc.live /\ cyc'.stakeOk = cyc.stakeOk
        /\ cyc'.active = cyc.active /\ cyc'.beat = cyc.beat /\ cyc'.price = cyc.price
        /\ cyc'.missing = cyc.missing
        /\ cyc'.bypassed = cyc.bypassed /\ cyc'.blocked = cyc.blocked
        /\ cyc'.skip = cyc.skip /\ cyc'.util = cyc.util /\ cyc'.act = cyc.act
    BY <1>2, <1>3, LoopFields DEF CycleType
  <1>6. HaltedRecoveryIsUnanimous'
    BY <1>5 DEF HaltedRecoveryIsUnanimous, Inv
  <1>7. /\ cyc.act = "trade" => cyc.live /\ ~cyc.blocked
        /\ cyc.act = "guarded" => ~cyc.bypassed
    BY DEF CycleOK, Inv
  <1> QED BY <1>1, <1>4, <1>5, <1>6, <1>7, DecideInv DEF stakeVars

-----------------------------------------------------------------------------
(* The end of a cycle, the clock, the chain and a restart. *)

(* The halt as a failure arms it, and as it was. *)
LEMMA Armed ==
    ASSUME NEW failed \in Nat, NEW n \in Nat, NEW until \in Nat, failed <= n
    PROVE  /\ n + HaltTTL >= failed + HaltTTL /\ n <= n
           /\ n + HaltTTL >= n + HaltTTL /\ n + HaltTTL \in Nat
  BY LoopLimits

(* Finish *)
LEMMA FinishInv == Inv /\ Finish => Inv'
  <1> SUFFICES ASSUME Inv, Finish PROVE Inv'
    OBVIOUS
  <1> DEFINE errors == IF Explained THEN cyc.errors ELSE Unknown
             streak == IF cyc.act = "guarded" THEN Capped(Streak + 1, StreakCap) ELSE 0
             until  == IF Failing THEN now + HaltTTL ELSE loop.haltUntil
             broke  == cyc.outcome \notin Excused \cup Unread
                         /\ (cyc.outcome = "error" \/ ~cyc.stakeOk)
             rec    == loop.rec \/ Recommends
             l == [loop EXCEPT !.pc = "sleep", !.rec = rec, !.streak = streak,
                               !.haltUntil = until]
             trips    == IF NamesGuard THEN Capped(seen.trips + 1, StreakCap) ELSE 0
             bypasses == IF cyc.bypassed THEN Capped(seen.bypasses + 1, StreakCap) ELSE 0
             failed   == IF broke THEN now ELSE seen.failed
  <1>1. /\ loop.pc = "end" /\ Record(NamesGuard, errors) /\ cyc' = NoCycle
        /\ UNCHANGED <<env, chain, kv, mem, run, now, log, guard>>
    BY Zenon DEF Finish
  <1>2. loop' = Progressed(l)
    BY Zenon DEF Finish
  <1>3. seen' = [seen EXCEPT !.trips = trips, !.bypasses = bypasses, !.failed = failed]
    BY DEF Finish
  <1>4. NamesGuard \in BOOLEAN /\ Explained \in BOOLEAN /\ rec \in BOOLEAN
    BY LoopFields DEF NamesGuard, Explained, LoopType, Recommends
  <1>5. errors \in Nat \cup {Unknown}
    BY LoopFields DEF CycleType
  <1>6. streak \in 0 .. StreakCap /\ trips \in 0 .. StreakCap /\ bypasses \in 0 .. StreakCap
    <2>1. Capped(Streak + 1, StreakCap) \in 0 .. StreakCap
      BY CappedType, StreakBound, LoopLimits
    <2>2. Capped(seen.trips + 1, StreakCap) \in 0 .. StreakCap
      BY CappedType, LoopFields, LoopLimits
    <2>3. Capped(seen.bypasses + 1, StreakCap) \in 0 .. StreakCap
      BY CappedType, LoopFields, LoopLimits
    <2> QED BY <2>1, <2>2, <2>3, LoopLimits
  <1>7. until \in Nat /\ failed \in Nat \cup {None}
    BY LoopFields, LoopLimits
  <1>8. failed # None => failed <= now /\ until >= failed + HaltTTL
    <2>1. broke => Failing
      BY DEF Failing, ArmsHalt, HighSeverity
    <2>2. seen.failed # None =>
            seen.failed <= now /\ loop.haltUntil >= seen.failed + HaltTTL
            /\ now + HaltTTL >= seen.failed + HaltTTL
      BY Armed, LoopFields DEF Inv, HaltKept
    <2>3. now <= now /\ now + HaltTTL >= now + HaltTTL
      BY LoopFields, LoopLimits
    <2> HIDE DEF broke
    <2> QED BY <2>1, <2>2, <2>3
  <1>9. "store" \notin faults => streak <= trips
    <2>1. "store" \notin faults =>
            Capped(Streak + 1, StreakCap) <= Capped(seen.trips + 1, StreakCap)
      BY CappedGrows, StreakBound, LoopFields, LoopLimits
    <2>2. cyc.act = "guarded" => NamesGuard
      BY DEF NamesGuard
    <2>3. trips \in Nat
      BY <1>6, LoopLimits
    <2> QED BY <2>1, <2>2, <2>3
  <1>10. Capped(store.buffer.run + 1, StreakCap) <= Capped(seen.trips + 1, StreakCap)
           \/ "store" \in faults
    BY CappedGrows, LoopFields, LoopLimits DEF StreaksKept, Inv
  <1> HIDE DEF errors, streak, until, rec, bypasses, failed
  <1>11. /\ l \in LoopType /\ l.pc = "sleep" /\ l.live = loop.live
         /\ l.counter = loop.counter /\ l.haltUntil = until /\ l.streak = streak
    BY <1>4, <1>6, <1>7, LoopFields DEF LoopType, Phases
  <1>12. /\ store' \in StoreType
         /\ UNCHANGED faults \/ Fault("store")
         /\ "store" \notin faults' =>
               /\ "store" \notin faults /\ store'.file = store.file
               /\ store'.buffer.run =
                     IF NamesGuard THEN Capped(store.buffer.run + 1, StreakCap) ELSE 0
    BY <1>1, <1>4, <1>5, RecordType
  <1> HIDE DEF l
  <1>13. /\ loop' \in LoopType /\ loop'.pc = "sleep"
         /\ loop'.haltUntil = until /\ loop'.streak = streak
    BY <1>2, <1>11, ProgressedType
  <1>14. CycleOK' /\ HaltedRecoveryIsUnanimous' /\ cyc'.bypassed = FALSE /\ cyc' \in CycleType
    BY <1>1, <1>13, Ended
  <1>15. "store" \notin faults' => store'.buffer.run <= trips /\ streak <= trips
    BY <1>9, <1>10, <1>12
  <1>16. trips \in 0 .. StreakCap
    BY <1>6
  <1> HIDE DEF trips
  <1>17. /\ seen' \in SeenType /\ seen'.trips = trips /\ seen'.failed = failed
         /\ seen'.good = seen.good
    BY <1>3, <1>6, <1>7, <1>16, LoopFields DEF SeenType
  <1>18. StakeInv'
    BY <1>1, <1>12, LoopInv DEF FaultKinds, Inv
  <1>19. LoopTyped'
    BY <1>1, <1>12, <1>13, <1>14, <1>17 DEF LoopTyped, Inv
  <1>20. Resting'
    BY <1>1, <1>13 DEF Resting, Inv
  <1>21. HaltKept'
    BY <1>1, <1>8, <1>13, <1>17 DEF HaltKept
  <1>22. Earning'
    <2>1. env.gated /\ ~loop'.live => loop'.counter <= seen.good
      BY <1>1, <1>2, <1>11, Earned
    <2> QED BY <1>1, <1>13, <1>17, <2>1 DEF Earning
  <1>23. StreaksKept'
    BY <1>12, <1>13, <1>14, <1>15, <1>17 DEF StreaksKept, Inv
  <1> QED BY <1>14, <1>18, <1>19, <1>20, <1>21, <1>22, <1>23 DEF Inv

(* Sleep *)
LEMMA SleepInv == Inv /\ Sleep => Inv'
  <1> SUFFICES ASSUME Inv, Sleep PROVE Inv'
    OBVIOUS
  <1>1. /\ loop.pc = "sleep" /\ Tick
        /\ UNCHANGED <<env, kv, mem, run, faults, log, loop, guard, store, cyc, seen>>
    BY Zenon DEF Sleep
  <1>2. StakeInv'
    <2>1. run.step # "claimed"
      BY <1>1, NothingSent DEF Inv
    <2> QED BY <1>1, <2>1, TickInv DEF Inv
  <1>3. LoopTyped' /\ Resting' /\ Earning' /\ StreaksKept' /\ HaltedRecoveryIsUnanimous'
    BY <1>1, Zenon DEF LoopTyped, Resting, Earning, GoodStake, StreaksKept,
       HaltedRecoveryIsUnanimous, Inv
  <1>4. CycleOK'
    BY <1>1 DEF CycleOK, Inv
  <1>5. HaltKept'
    <2>1. now' = now + 1
      BY <1>1 DEF Tick
    <2>2. \A m, n \in Nat : m <= n => m <= n + 1
      OBVIOUS
    <2>3. seen.failed # None => seen.failed <= now'
      BY <2>1, <2>2, LoopFields DEF HaltKept, Inv
    <2> QED BY <1>1, <2>3 DEF HaltKept, Inv
  <1> QED BY <1>2, <1>3, <1>4, <1>5 DEF Inv

(* MineTx *)
LEMMA MineTxInv == Inv /\ MineTx => Inv'
  <1> SUFFICES ASSUME Inv, MineTx PROVE Inv'
    OBVIOUS
  <1>1. Mine /\ UNCHANGED <<loop, guard, store, cyc, seen>>
    BY Zenon DEF MineTx
  <1>2. UNCHANGED <<env, run, now, faults>>
    BY <1>1 DEF Mine
  <1>3. StakeInv'
    BY <1>1, MineInv DEF Inv
  <1>4. LoopTyped' /\ Resting' /\ StreaksKept' /\ HaltedRecoveryIsUnanimous'
    BY <1>1, <1>2, Zenon DEF LoopTyped, Resting, StreaksKept, HaltedRecoveryIsUnanimous, Inv
  <1>5. CycleOK' /\ HaltKept'
    BY <1>1, <1>2, Zenon DEF CycleOK, HaltKept, Recent, Inv
  <1>6. Earning'
    BY <1>1, <1>2, Zenon DEF Earning, GoodStake, Inv
  <1> QED BY <1>3, <1>4, <1>5, <1>6 DEF Inv

(* A process that starts knows no halt, no streak and no good cycle. *)
LEMMA Restarted ==
    ASSUME loop' = NoLoop, guard' = NoGuard, cyc' = NoCycle, seen' = NoSeen,
           store'.buffer = NoRecords, store' \in StoreType, run' = NoRun,
           "store" \notin faults' => store'.file = None
    PROVE  /\ LoopTyped' /\ Resting' /\ CycleOK' /\ HaltKept' /\ Earning'
           /\ StreaksKept' /\ HaltedRecoveryIsUnanimous'
  <1>1. loop'.pc = "sleep" /\ loop'.streak = 0 /\ loop'.counter = 0
    BY DEF NoLoop
  <1>2. cyc'.bypassed = FALSE
    BY DEF NoCycle
  <1>3. seen'.trips = 0 /\ seen'.good = 0 /\ seen'.failed = None
    BY DEF NoSeen
  <1>4. store'.buffer.run = 0
    BY DEF NoRecords
  <1>5. CycleOK' /\ HaltedRecoveryIsUnanimous'
    BY <1>1, Ended
  <1>6. LoopTyped'
    BY Blanks DEF LoopTyped
  <1>7. Resting'
    BY DEF Resting
  <1>8. HaltKept'
    BY <1>3 DEF HaltKept
  <1>9. Earning'
    BY <1>1, <1>3 DEF Earning
  <1>10. StreaksKept'
    BY <1>1, <1>2, <1>3, <1>4 DEF StreaksKept
  <1> QED BY <1>5, <1>6, <1>7, <1>8, <1>9, <1>10

(* Crash *)
LEMMA CrashInv == Inv /\ Crash => Inv'
  <1> SUFFICES ASSUME Inv, Crash PROVE Inv'
    OBVIOUS
  <1>1. /\ Fault("crash") /\ ForgetStake /\ loop' = NoLoop /\ guard' = NoGuard
        /\ store' = [store EXCEPT !.buffer = NoRecords] /\ cyc' = NoCycle
        /\ seen' = NoSeen /\ UNCHANGED <<env, chain, kv, now>>
    BY Zenon DEF Crash
  <1>2. StakeInv'
    BY <1>1, ForgetInv DEF Inv
  <1>3. store' \in StoreType /\ store'.buffer = NoRecords /\ store'.file = store.file
    BY <1>1, Blanks, LoopFields DEF StoreType
  <1>4. "store" \notin faults' => store'.file = None
    BY <1>1, <1>3 DEF Fault, StreaksKept, Inv
  <1>5. run' = NoRun
    BY <1>1 DEF ForgetStake
  <1> QED BY <1>1, <1>2, <1>3, <1>4, <1>5, Restarted DEF Inv

(* A fresh process has the invariant. *)
LEMMA InitInv == Init => Inv
  <1> SUFFICES ASSUME Init PROVE Inv
    OBVIOUS
  <1>1. /\ StakeInit /\ loop = NoLoop /\ guard = NoGuard /\ cyc = NoCycle /\ seen = NoSeen
        /\ store = [file |-> None, buffer |-> NoRecords]
    BY Zenon DEF Init
  <1>2. StakeInv
    BY <1>1, StakeInitInv
  <1>3. run = NoRun
    BY <1>1 DEF StakeInit
  <1>4. LoopTyped
    <2>1. store \in StoreType
      BY <1>1, Blanks DEF StoreType
    <2> QED BY <1>1, <2>1, Blanks DEF LoopTyped
  <1>5. Resting
    BY <1>3 DEF Resting
  <1>6. CycleOK /\ HaltedRecoveryIsUnanimous
    BY <1>1 DEF CycleOK, HaltedRecoveryIsUnanimous, NoLoop, NoCycle
  <1>7. HaltKept /\ Earning
    BY <1>1 DEF HaltKept, Earning, NoSeen, NoLoop
  <1>8. StreaksKept
    BY <1>1 DEF StreaksKept, NoRecords, NoSeen, NoLoop, NoCycle
  <1> QED BY <1>2, <1>4, <1>5, <1>6, <1>7, <1>8 DEF Inv

(* Nothing moves. *)
LEMMA StutterInv == Inv /\ UNCHANGED vars => Inv'
  <1> SUFFICES ASSUME Inv, UNCHANGED vars PROVE Inv'
    OBVIOUS
  <1>1. StakeInv'
    BY LoopInv DEF vars, stakeVars, Inv
  <1>2. LoopTyped' /\ Resting' /\ StreaksKept' /\ HaltedRecoveryIsUnanimous'
    BY Zenon DEF LoopTyped, Resting, StreaksKept, HaltedRecoveryIsUnanimous, Inv, vars,
       stakeVars
  <1>3. CycleOK' /\ HaltKept'
    BY Zenon DEF CycleOK, HaltKept, Recent, Inv, vars, stakeVars
  <1>4. Earning'
    BY Zenon DEF Earning, GoodStake, Inv, vars, stakeVars
  <1> QED BY <1>1, <1>2, <1>3, <1>4 DEF Inv

(* The invariant is inductive. *)
LEMMA StepInv == Inv /\ [Next]_vars => Inv'
  <1>1. Inv /\ Cycle => Inv'
    BY BeginInv, StakeStepInv, StakeDoneInv, SurveyInv, AbandonInv, TimeOutInv, StoppedInv,
       SimulateInv, LegInv, FinishInv, Zenon DEF Cycle
  <1> QED BY <1>1, SleepInv, MineTxInv, CrashInv, StutterInv, Zenon DEF Next

-----------------------------------------------------------------------------
(* The results. *)

(* What every behaviour of the loop keeps. *)
LEMMA Invariant == Spec => []Inv
  <1>1. Init => Inv
    BY InitInv
  <1>2. Inv /\ [Next]_vars => Inv'
    BY StepInv
  <1> QED BY <1>1, <1>2, PTL DEF Spec

(* The agent's and the loop's state keep their types, whatever the limits, *)
(* the environment and the failures.                                       *)
THEOREM TypeCorrect == Spec => []TypeOK
  <1>1. Inv => TypeOK
    BY DEF Inv, StakeInv, Typed, LoopTyped, TypeOK, LoopType, GuardType, StoreType,
       CycleType, SeenType
  <1> QED BY <1>1, Invariant, PTL

(* No two stakes wait to be mined at once while the nonce lookup works,    *)
(* across cycles, restarts and lost answers: the gate of run_once and of   *)
(* the idle stake suffices, although it is passed before the approval.     *)
THEOREM StakesNeverOverlap == Spec => []OneStakeInFlight
  <1>1. Inv => OneStakeInFlight
    <2> SUFFICES ASSUME Inv, "nonce" \notin faults
                 PROVE  ~(Cardinality({i \in DOMAIN chain.pending :
                                         chain.pending[i].kind = "stake"}) > 1)
      BY DEF OneStakeInFlight
    <2> DEFINE S == {i \in DOMAIN chain.pending : chain.pending[i].kind = "stake"}
    <2>1. \A i, j \in S : i = j
      BY DEF Inv, StakeInv, StakesApart, IsStake
    <2>2. CASE S = {}
      BY <2>2, FS_EmptySet
    <2>3. CASE S # {}
      <3>1. PICK i \in S : TRUE
        BY <2>3
      <3>2. S = {i}
        BY <2>1, <3>1
      <3> QED BY <3>2, FS_Singleton
    <2> QED BY <2>2, <2>3
  <1> QED BY <1>1, Invariant, PTL

(* A process sends the automatic first stake once unless the answer to it  *)
(* was lost: every end of an attempt that may have sent it uses the        *)
(* attempts up, even where a later read of the status fails.               *)
THEOREM AutoStakedOnce == Spec => []AutoStakeOnce
  <1>1. Inv => AutoStakeOnce
    BY DEF Inv, StakeInv, AutoOnce, AutoStakeOnce
  <1> QED BY <1>1, Invariant, PTL

(* Only the claim step of run_once sends a claim. *)
LEMMA OnlyClaim ==
    ASSUME Inv, Next, ClaimGoesOut
    PROVE  Claim /\ run.step = "claim"
  <1>1. chain.pending \in Seq(Tx)
    BY Fields DEF Inv, StakeInv
  <1>2. ASSUME NEW kind, NEW units, kind # "claim", Send(kind, units) PROVE FALSE
    <2>1. chain'.pending = Append(chain.pending, [kind |-> kind, units |-> units])
      <3>1. chain \in ChainType
        BY Fields DEF Inv, StakeInv
      <3> QED BY <1>2, <3>1 DEF Send, ChainType
    <2> QED BY <1>1, <1>2, <2>1 DEF ClaimGoesOut
  <1>3. ASSUME chain'.pending = chain.pending PROVE FALSE
    BY <1>1, <1>3 DEF ClaimGoesOut
  <1>4. CASE RunOnce
    <2>1. CASE AutoApprove
      <3>1. Send("approve", MinActive) \/ chain' = chain
        BY <2>1, Zenon DEF AutoApprove
      <3> QED BY <1>2, <1>3, <3>1
    <2>2. CASE AutoStake
      <3>1. (\E units : Send("stake", units)) \/ chain' = chain
        BY <2>2, Zenon DEF AutoStake
      <3> QED BY <1>2, <1>3, <3>1
    <2>3. CASE AutoRetry
      <3>1. \/ Send("stake", MinActive) \/ chain' = chain
            \/ /\ Waiting
               /\ chain' = [chain EXCEPT !.pending[Len(chain.pending)] =
                              [kind |-> "stake", units |-> MinActive]]
        BY <2>3, Zenon DEF AutoRetry
      <3>2. CASE /\ Waiting
                 /\ chain' = [chain EXCEPT !.pending[Len(chain.pending)] =
                                [kind |-> "stake", units |-> MinActive]]
        <4>1. chain'.pending = [chain.pending EXCEPT ![Len(chain.pending)] =
                                  [kind |-> "stake", units |-> MinActive]]
          <5>1. chain \in ChainType
            BY Fields DEF Inv, StakeInv
          <5> QED BY <3>2, <5>1 DEF ChainType
        <4>2. Len(chain'.pending) = Len(chain.pending)
          BY <1>1, <4>1
        <4>3. Len(chain.pending) \in Nat
          BY <1>1
        <4> QED BY <4>2, <4>3 DEF ClaimGoesOut
      <3> QED BY <1>2, <1>3, <3>1, <3>2
    <2>4. CASE IdleApprove
      <3>1. Send("approve", run.amount) \/ chain' = chain
        BY <2>4, Zenon DEF IdleApprove
      <3> QED BY <1>2, <1>3, <3>1
    <2>5. CASE IdleStake
      <3>1. (\E units : Send("stake", units)) \/ chain' = chain
        BY <2>5, Zenon DEF IdleStake
      <3> QED BY <1>2, <1>3, <3>1
    <2>6. CASE Claim
      BY <2>6, Zenon DEF Claim
    <2>7. CASE chain' = chain
      BY <1>3, <2>7
    <2> QED BY <1>4, <2>1, <2>2, <2>3, <2>4, <2>5, <2>6, <2>7, Zenon
            DEF RunOnce, ReadStatus, AutoCheck, AutoRead, RecordClaim, IdleBalance,
                IdleNonce, Beat, RecordBeat
  <1>5. CASE Mine
    <2>1. chain'.pending = Tail(chain.pending) /\ chain.pending # <<>>
      <3>1. chain.pending # <<>> /\ chain' = [Applied(Head(chain.pending)) EXCEPT
                                                !.pending = Tail(@)]
        BY <1>5, Zenon DEF Mine
      <3>2. Head(chain.pending) \in Tx
        BY <1>1, <3>1
      <3>3. Applied(Head(chain.pending)) \in ChainType
            /\ Applied(Head(chain.pending)).pending = chain.pending
        BY <3>2, MinedType, Fields DEF Inv, StakeInv
      <3> QED BY <3>1, <3>3 DEF ChainType
    <2> QED BY <1>1, <2>1 DEF ClaimGoesOut
  <1>6. CASE Tick
    <2>1. chain'.pending = chain.pending
      <3>1. chain \in ChainType
        BY Fields DEF Inv, StakeInv
      <3> QED BY <1>6, <3>1 DEF Tick, ChainType
    <2> QED BY <1>3, <2>1
  <1>7. CASE chain' = chain
    BY <1>3, <1>7
  <1> QED BY <1>4, <1>5, <1>6, <1>7, Zenon
          DEF Next, Cycle, Begin, StakeStep, StakeDone, Survey, Abandon, TimeOut, Halted,
              Guarded, Simulate, Trade, Recover, Finish, Sleep, MineTx, Crash, stakeVars

(* A claim that passes the pre-flight chain comes an interval after the     *)
(* last one it knows.                                                       *)
LEMMA Spaced ==
    ASSUME Inv, NEW value, log.claim # None, log.claim <= now,
           Claimable(log.claim, value)
    PROVE  ~(now - log.claim < ClaimInterval)
  <1>1. log.claim \in Nat /\ now \in Nat
    BY Fields DEF Inv, StakeInv
  <1>2. ClaimInterval \in Nat
    BY StakeAssumption
  <1>3. ClaimInterval > 0 => now - log.claim >= ClaimInterval
    BY DEF Claimable
  <1> HIDE DEF Claimable
  <1> QED BY <1>1, <1>2, <1>3

(* Claims keep their interval, even across a restart, unless an answer was *)
(* lost or the restart met a claim time the KV store lost or hid.          *)
THEOREM ClaimsKeepInterval == Spec => ClaimsSpaced
  <1> DEFINE step == ClaimGoesOut /\ log.claim # None /\ now - log.claim < ClaimInterval
                       => \/ "answer" \in faults'
                          \/ "crash" \in faults
                               /\ (kv.claim # log.claim \/ "kv read" \in faults')
  <1>1. Inv /\ [Next]_vars => [step]_vars
    <2> SUFFICES ASSUME Inv, Next, ClaimGoesOut, log.claim # None,
                        now - log.claim < ClaimInterval, "answer" \notin faults'
                 PROVE  "crash" \in faults
                          /\ (kv.claim # log.claim \/ "kv read" \in faults')
      BY Zenon
    <2>1. Claim /\ run.step = "claim"
      BY OnlyClaim
    <2>2. /\ UNCHANGED faults \/ \E kind : Fault(kind)
          /\ \E readable \in BOOLEAN :
                /\ \E value : Claimable(LastClaim(readable), value)
                /\ readable \/ (mem.claim = None /\ Fault("kv read"))
      <3>1. chain' # chain
        <4>1. chain.pending \in Seq(Tx)
          BY Fields DEF Inv, StakeInv
        <4> QED BY <4>1 DEF ClaimGoesOut
      <3> QED BY <2>1, <3>1, Zenon DEF Claim, NoFault
    <2>3. faults \subseteq faults'
      BY <2>2 DEF Fault
    <2>4. PICK readable \in BOOLEAN :
             /\ \E value : Claimable(LastClaim(readable), value)
             /\ readable \/ (mem.claim = None /\ Fault("kv read"))
      BY <2>2
    <2>5. "answer" \notin faults
      BY <2>3
    <2>6. /\ log.claim <= now
          /\ \/ mem.claim = log.claim
             \/ /\ "crash" \in faults
                /\ mem.claim = None \/ kv.claim # log.claim \/ "kv read" \in faults
      BY <2>1, <2>5 DEF Inv, StakeInv, LastClaimKnown
    <2>7. LastClaim(readable) # log.claim
      BY <2>4, <2>6, Spaced
    <2>8. mem.claim # log.claim
      BY <2>7 DEF LastClaim
    <2>9. "crash" \in faults
      BY <2>6, <2>8
    <2>10. CASE mem.claim = None
      <3>1. CASE readable
        BY <2>7, <2>10, <3>1, <2>9 DEF LastClaim
      <3>2. CASE mem.claim = None /\ Fault("kv read")
        BY <2>9, <3>2 DEF Fault
      <3> QED BY <2>4, <3>1, <3>2
    <2>11. CASE mem.claim # None
      BY <2>3, <2>6, <2>8, <2>9, <2>11
    <2> QED BY <2>10, <2>11
  <1> QED BY <1>1, Invariant, PTL DEF Spec, ClaimsSpaced

(* A bypass of the price guard follows MinStreak guarded cycles in a row   *)
(* of the same process, unless the store failed.                           *)
THEOREM BypassIsEarned == Spec => []BypassNeedsStreak
  <1>1. Inv => BypassNeedsStreak
    BY DEF Inv, StreaksKept, BypassNeedsStreak
  <1> QED BY <1>1, Invariant, PTL

(* No trade is sent at an invalid price, though a bypass lifts its skip;   *)
(* one at a price the market left out only where no record contradicts the *)
(* 1 that stands for it: the guardian stands behind both.                  *)
THEOREM TradesHaveAPrice == Spec => []TradeNeedsPrice
  <1>1. Inv => TradeNeedsPrice
    <2> SUFFICES ASSUME Inv, cyc.act = "trade"
                 PROVE  cyc.price > 0 /\ (cyc.missing => Recent.price <= 1)
      BY DEF TradeNeedsPrice
    <2>1. cyc.live /\ ~cyc.blocked
      BY DEF Inv, CycleOK
    <2>2. loop.pc \in {"decide", "act", "end"}
      <3>1. loop.pc \notin {"sleep", "stake", "market"}
        BY DEF Inv, CycleOK
      <3> QED BY <3>1, LoopFields DEF Phases
    <2> QED BY <2>1, <2>2 DEF Inv, CycleOK
  <1> QED BY <1>1, Invariant, PTL

(* After a cycle whose failure the reflection can read no trade is sent    *)
(* until the halt has run out.                                             *)
THEOREM FailuresHalt == Spec => []FailureHaltsTrade
  <1>1. Inv => FailureHaltsTrade
    <2> SUFFICES ASSUME Inv, cyc.act = "trade", seen.failed # None
                 PROVE  now - seen.failed >= HaltTTL
      BY DEF FailureHaltsTrade
    <2>1. ~cyc.blocked
      BY DEF Inv, CycleOK
    <2>2. loop.pc \in {"decide", "act", "end"}
      <3>1. loop.pc \notin {"sleep", "stake", "market"}
        BY DEF Inv, CycleOK
      <3> QED BY <3>1, LoopFields DEF Phases
    <2>3. now >= loop.haltUntil
      BY <2>1, <2>2 DEF Inv, CycleOK
    <2>4. loop.haltUntil >= seen.failed + HaltTTL
      BY DEF Inv, HaltKept
    <2>5. \A n, until, f, ttl \in Nat : n >= until /\ until >= f + ttl => n - f >= ttl
      OBVIOUS
    <2> QED BY <2>3, <2>4, <2>5, LoopFields, LoopLimits
  <1> QED BY <1>1, Invariant, PTL

(* A recovery in a halted cycle has every model but risk behind it.        *)
THEOREM HaltedRecoveryNeedsAll == Spec => []HaltedRecoveryIsUnanimous
  <1>1. Inv => HaltedRecoveryIsUnanimous
    BY DEF Inv
  <1> QED BY <1>1, Invariant, PTL

(* Progressive mode goes live on Threshold good stake steps in a row only, *)
(* whether the cycle that crosses it ends or times out.                    *)
THEOREM LiveMustBeEarned == Spec => LiveIsEarned
  <1> DEFINE step == env.gated /\ ~loop.live /\ loop'.live => seen.good >= Threshold
  <1>1. Inv /\ [Next]_vars => [step]_vars
    <2> SUFFICES ASSUME Inv, Next, env.gated, ~loop.live, loop'.live
                 PROVE  seen.good >= Threshold
      BY Zenon
    <2>1. ASSUME NEW l \in LoopType, l.live = loop.live, l.counter = loop.counter,
                 loop' = Progressed(l), loop.pc \in {"decide", "end"}
          PROVE  seen.good >= Threshold
      <3>1. GoodStake(cyc) /\ Capped(loop.counter + 1, Threshold) >= Threshold
        BY <2>1, ProgressedType
      <3>2. Capped(loop.counter + 1, Threshold) <= seen.good
        BY <2>1, <3>1 DEF Inv, Earning
      <3>3. Capped(loop.counter + 1, Threshold) \in Nat
        BY CappedType, LoopFields, LoopLimits
      <3> QED BY <3>1, <3>2, <3>3, LoopFields, LoopLimits
    <2>2. CASE TimeOut
      <3> DEFINE l == [loop EXCEPT !.pc = "sleep"]
      <3>1. loop' = Progressed(l) /\ loop.pc = "decide"
        BY <2>2, Zenon DEF TimeOut
      <3>2. l \in LoopType /\ l.live = loop.live /\ l.counter = loop.counter
        BY LoopFields DEF LoopType, Phases
      <3> QED BY <2>1, <3>1, <3>2
    <2>3. CASE Finish
      <3> DEFINE streak == IF cyc.act = "guarded" THEN Capped(Streak + 1, StreakCap) ELSE 0
                 until == IF Failing THEN now + HaltTTL ELSE loop.haltUntil
                 rec == loop.rec \/ Recommends
                 l == [loop EXCEPT !.pc = "sleep", !.rec = rec, !.streak = streak,
                                   !.haltUntil = until]
      <3>1. loop' = Progressed(l) /\ loop.pc = "end"
        BY <2>3, Zenon DEF Finish
      <3>2. streak \in 0 .. StreakCap /\ until \in Nat /\ rec \in BOOLEAN
        <4>1. Capped(Streak + 1, StreakCap) \in 0 .. StreakCap
          BY CappedType, StreakBound, LoopLimits
        <4>2. rec \in BOOLEAN
          BY LoopFields DEF LoopType, Recommends, Explained
        <4> QED BY <4>1, <4>2, LoopFields, LoopLimits
      <3> HIDE DEF streak, until, rec
      <3>3. l \in LoopType /\ l.live = loop.live /\ l.counter = loop.counter
        BY <3>2, LoopFields DEF LoopType, Phases
      <3> QED BY <2>1, <3>1, <3>3
    <2>4. CASE loop'.live = loop.live
      BY <2>4
    <2>5. CASE Crash
      BY <2>5 DEF Crash, NoLoop
    <2>6. CASE Simulate
      <3>1. \E pc, recovery : loop' = [loop EXCEPT !.pc = pc, !.recovery = recovery]
        BY <2>6, Zenon DEF Simulate
      <3> QED BY <2>4, <3>1, LoopFields DEF LoopType
    <2>7. CASE StakeDone \/ Recover \/ \E pc : To(pc)
      <3>1. \/ \E rec : loop' = [loop EXCEPT !.pc = "market", !.rec = rec]
            \/ \E pc : loop' = [loop EXCEPT !.pc = pc]
            \/ loop' = [loop EXCEPT !.pc = "end", !.recovery = FALSE]
        BY <2>7, Zenon DEF StakeDone, Recover, To
      <3> QED BY <2>4, <3>1, LoopFields DEF LoopType
    <2>8. CASE loop' = loop
      BY <2>4, <2>8
    <2> QED BY <2>2, <2>3, <2>5, <2>6, <2>7, <2>8, Zenon
            DEF Next, Cycle, Begin, StakeStep, Survey, Abandon, Halted, Guarded, Trade,
                Sleep, MineTx, stakeVars
  <1> QED BY <1>1, Invariant, PTL DEF Spec, LiveIsEarned

-----------------------------------------------------------------------------
(* The cap on bypasses.  They only go on while the streak read back grows   *)
(* with them, or began with the streak of the runtime, which a bypass       *)
(* clears: then the next streak is one, too short to bypass on.             *)
BypassesKept ==
    "store" \notin faults =>
        /\ seen.bypasses <= StreakCap - MinStreak
        /\ seen.bypasses > 0 => loop.streak = 0
        /\ seen.bypasses > 0 /\ store.buffer.run >= MinStreak
              => seen.bypasses <= store.buffer.run - MinStreak
        /\ cyc.bypassed => Streak >= MinStreak /\ Streak < StreakCap

(* What a step may do that ends no cycle. *)
LEMMA BypassesAlone ==
    ASSUME Inv, BypassesKept, faults \subseteq faults', UNCHANGED <<store, seen>>,
           loop'.streak = loop.streak, cyc'.bypassed => cyc.bypassed
    PROVE  BypassesKept'
  BY DEF BypassesKept, Streak, Recent

(* A timeout ends the streak and no bypass. *)
LEMMA BypassesTimeOut == ASSUME Inv, BypassesKept, TimeOut PROVE BypassesKept'
  <1> DEFINE l == [loop EXCEPT !.pc = "sleep"]
  <1>1. /\ Record(FALSE, Unknown) /\ cyc' = NoCycle /\ seen' = seen
        /\ loop' = Progressed(l)
    BY Zenon DEF TimeOut
  <1>2. l \in LoopType /\ l.streak = loop.streak
    BY LoopFields DEF LoopType, Phases
  <1> HIDE DEF l
  <1>3. loop'.streak = loop.streak
    BY <1>1, <1>2, ProgressedType
  <1>4. "store" \notin faults' => "store" \notin faults /\ store'.buffer.run = 0
    BY <1>1, RecordType
  <1>5. cyc'.bypassed = FALSE
    BY <1>1 DEF NoCycle
  <1> QED BY <1>1, <1>3, <1>4, <1>5, LoopAssumption DEF BypassesKept

(* A cycle that was bypassed adds one to both, unless its streak was that   *)
(* of the runtime. *)
LEMMA BypassCounted ==
    ASSUME NEW streak \in Nat, NEW kept \in Nat, NEW n \in Nat, MinStreak > 1,
           n <= StreakCap - MinStreak, n > 0 => kept = 0,
           n > 0 /\ streak >= MinStreak => n <= streak - MinStreak,
           (IF streak > 0 THEN streak ELSE kept) >= MinStreak,
           (IF streak > 0 THEN streak ELSE kept) < StreakCap
    PROVE  /\ Capped(n + 1, StreakCap) <= StreakCap - MinStreak
           /\ Capped(streak + 1, StreakCap) >= MinStreak
                => Capped(n + 1, StreakCap) <= Capped(streak + 1, StreakCap) - MinStreak
  <1>1. MinStreak \in Nat /\ StreakCap \in Nat /\ StreakCap > MinStreak
    BY LoopAssumption
  <1>2. CASE streak > 0
    BY <1>1, <1>2 DEF Capped
  <1>3. CASE streak = 0
    <2>1. n = 0
      BY <1>1, <1>3
    <2> QED BY <1>1, <1>3, <2>1 DEF Capped
  <1> QED BY <1>2, <1>3

(* Finish counts the bypass, or ends them. *)
LEMMA BypassesFinish == ASSUME MinStreak > 1, Inv, BypassesKept, Finish PROVE BypassesKept'
  <1> DEFINE errors == IF Explained THEN cyc.errors ELSE Unknown
             streak == IF cyc.act = "guarded" THEN Capped(Streak + 1, StreakCap) ELSE 0
             until  == IF Failing THEN now + HaltTTL ELSE loop.haltUntil
             rec    == loop.rec \/ Recommends
             l == [loop EXCEPT !.pc = "sleep", !.rec = rec, !.streak = streak,
                               !.haltUntil = until]
             bypasses == IF cyc.bypassed THEN Capped(seen.bypasses + 1, StreakCap) ELSE 0
  <1>1. /\ Record(NamesGuard, errors) /\ cyc' = NoCycle /\ loop' = Progressed(l)
    BY Zenon DEF Finish
  <1>2. seen'.bypasses = bypasses
    BY LoopFields DEF Finish, SeenType
  <1>3. l \in LoopType /\ l.streak = streak
    <2>1. streak \in 0 .. StreakCap
      BY CappedType, StreakBound, LoopLimits
    <2>2. until \in Nat /\ rec \in BOOLEAN
      BY LoopFields, LoopLimits DEF LoopType, Recommends, Explained
    <2> HIDE DEF streak, until, rec
    <2> QED BY <2>1, <2>2, LoopFields DEF LoopType, Phases
  <1>4. NamesGuard \in BOOLEAN /\ errors \in Nat \cup {Unknown}
    BY LoopFields DEF NamesGuard, CycleType
  <1> HIDE DEF errors, l
  <1>5. loop'.streak = streak
    BY <1>1, <1>3, ProgressedType
  <1>6. "store" \notin faults' =>
          /\ "store" \notin faults
          /\ store'.buffer.run =
                IF NamesGuard THEN Capped(store.buffer.run + 1, StreakCap) ELSE 0
    BY <1>1, <1>4, RecordType
  <1>7. cyc'.bypassed = FALSE
    BY <1>1 DEF NoCycle
  <1>8. CASE cyc.bypassed
    <2>1. streak = 0 /\ NamesGuard
      BY <1>8 DEF NamesGuard, CycleOK, Inv
    <2>2. "store" \notin faults => Recent = store.buffer
      BY DEF Recent, StreaksKept, Inv
    <2>3. "store" \notin faults =>
            /\ bypasses <= StreakCap - MinStreak
            /\ Capped(store.buffer.run + 1, StreakCap) >= MinStreak
                 => bypasses <= Capped(store.buffer.run + 1, StreakCap) - MinStreak
      BY <1>8, <2>2, BypassCounted, LoopFields DEF BypassesKept, Streak
    <2> QED BY <1>2, <1>5, <1>6, <1>7, <2>1, <2>3 DEF BypassesKept
  <1>9. CASE ~cyc.bypassed
    BY <1>2, <1>5, <1>6, <1>7, <1>9, LoopAssumption DEF BypassesKept
  <1> QED BY <1>8, <1>9, LoopFields

(* Survey bypasses within the bounds of the streak. *)
LEMMA BypassesSurvey == ASSUME Inv, BypassesKept, Survey PROVE BypassesKept'
  <1>1. loop' = [loop EXCEPT !.pc = "decide"] /\ UNCHANGED <<store, seen, faults>>
    BY DEF Survey, To, stakeVars
  <1>2. PICK raw, health, wild, util, locked :
          Surveyed(raw, health, wild, util, locked)
    BY Zenon DEF Survey
  <1>3. cyc'.bypassed => MayBypass(health)
    BY <1>2, LoopFields DEF Surveyed, CycleType
  <1>4. loop'.streak = loop.streak
    BY <1>1, LoopFields DEF LoopType
  <1>5. Streak' = Streak
    BY <1>1, <1>4 DEF Streak, Recent
  <1> QED BY <1>1, <1>3, <1>4, <1>5 DEF BypassesKept, MayBypass

(* Every other step of the cycle leaves streak and record alone. *)
LEMMA BypassesStep ==
    ASSUME MinStreak > 1, Inv, BypassesKept, [Next]_vars
    PROVE  BypassesKept'
  <1>1. CASE Begin
    <2>1. /\ UNCHANGED <<store, seen, faults>> /\ loop'.streak = loop.streak
          /\ cyc' = [NoCycle EXCEPT !.live = IF env.gated THEN loop.live ELSE TRUE]
      BY <1>1, LoopFields DEF Begin, To, LoopType
    <2>2. cyc'.bypassed = FALSE
      BY <2>1 DEF NoCycle
    <2> QED BY <2>1, <2>2, BypassesAlone
  <1>2. CASE StakeStep
    BY <1>2, RunOnceFaults, BypassesAlone DEF StakeStep
  <1>3. CASE StakeDone
    <2>1. UNCHANGED <<store, faults>> /\ loop'.streak = loop.streak
      BY <1>3, LoopFields DEF StakeDone, LoopType
    <2>2. seen'.bypasses = seen.bypasses
      BY <1>3, LoopFields DEF StakeDone, SeenType
    <2>3. cyc'.bypassed = cyc.bypassed
      BY <1>3, LoopFields DEF StakeDone, CycleType
    <2> QED BY <2>1, <2>2, <2>3 DEF BypassesKept, Streak, Recent
  <1>4. CASE Abandon
    <2>1. /\ UNCHANGED <<store, seen>> /\ loop'.streak = loop.streak /\ cyc' = NoCycle
          /\ faults \subseteq faults'
      BY <1>4, LoopFields DEF Abandon, To, LoopType, Fault
    <2>2. cyc'.bypassed = FALSE
      BY <2>1 DEF NoCycle
    <2> QED BY <2>1, <2>2, BypassesAlone
  <1>5. CASE Halted \/ Guarded
    <2>1. /\ UNCHANGED <<store, seen, faults>> /\ loop'.streak = loop.streak
          /\ cyc'.bypassed = cyc.bypassed
      BY <1>5, LoopFields DEF Halted, Guarded, Decision, To, LoopType, CycleType, stakeVars
    <2> QED BY <2>1, BypassesAlone
  <1>6. CASE Simulate
    <2>1. PICK signal \in env.signals, recovery \in env.recoveries, note \in env.notes,
               premium \in env.premiums, errors \in env.errors, sims \in BOOLEAN :
            LET found  == IF sims THEN signal ELSE cyc.price > 0
                action == IF sims THEN recovery ELSE loop.recovery
                branch == Branch(found, action, premium)
            IN /\ IF sims THEN NoFault ELSE Fault("sim")
               /\ cyc' = [cyc EXCEPT !.act = branch, !.errors = errors, !.note = note]
               /\ loop' = [loop EXCEPT
                             !.pc = IF branch \in {"trade", "recover"} THEN "act" ELSE "end",
                             !.recovery = action]
      BY <1>6, Zenon DEF Simulate
    <2>2. loop'.streak = loop.streak /\ cyc'.bypassed = cyc.bypassed
      BY <2>1, LoopFields DEF LoopType, CycleType
    <2>3. UNCHANGED <<store, seen>> /\ faults \subseteq faults'
      BY <1>6 DEF Simulate, NoFault, Fault
    <2> QED BY <2>2, <2>3, BypassesAlone
  <1>7. CASE Trade \/ Recover
    <2>1. /\ UNCHANGED <<store, seen, faults>> /\ loop'.streak = loop.streak
          /\ cyc'.bypassed = cyc.bypassed
      BY <1>7, LoopFields DEF Trade, Recover, To, LoopType, CycleType, stakeVars
    <2> QED BY <2>1, BypassesAlone
  <1>8. CASE Sleep \/ MineTx
    <2>1. UNCHANGED <<store, seen, faults, loop, cyc>>
      BY <1>8 DEF Sleep, MineTx, Mine
    <2> QED BY <2>1, BypassesAlone
  <1>9. CASE Crash
    <2>1. cyc'.bypassed = FALSE /\ seen'.bypasses = 0
      BY <1>9 DEF Crash, NoCycle, NoSeen
    <2> QED BY <2>1, LoopAssumption DEF BypassesKept
  <1>10. CASE UNCHANGED vars
    <2>1. UNCHANGED <<store, seen, faults, loop, cyc>>
      BY <1>10 DEF vars, stakeVars
    <2> QED BY <2>1, BypassesAlone
  <1> QED BY <1>1, <1>2, <1>3, <1>4, <1>5, <1>6, <1>7, <1>8, <1>9, <1>10,
             BypassesTimeOut, BypassesFinish, BypassesSurvey DEF Next, Cycle

(* Where the streak a bypass needs is longer than one, no more than          *)
(* StreakCap - MinStreak cycles in a row bypass the price guard, unless the  *)
(* store failed.                                                             *)
THEOREM BypassesEnd == ASSUME MinStreak > 1 PROVE Spec => []BypassIsBounded
  <1>1. Init => BypassesKept
    <2> SUFFICES ASSUME Init PROVE BypassesKept
      OBVIOUS
    <2>1. cyc.bypassed = FALSE /\ seen.bypasses = 0
      BY DEF Init, NoCycle, NoSeen
    <2> QED BY <2>1, LoopAssumption DEF BypassesKept
  <1>2. Inv /\ BypassesKept /\ [Next]_vars => BypassesKept'
    BY BypassesStep
  <1>3. Inv /\ BypassesKept => BypassIsBounded
    <2> SUFFICES ASSUME Inv, BypassesKept PROVE BypassIsBounded
      OBVIOUS
    <2>1. "store" \notin faults => seen.bypasses <= StreakCap - MinStreak
      BY DEF BypassesKept
    <2> QED BY <2>1, LoopFields, LoopAssumption DEF BypassIsBounded
  <1> QED BY <1>1, <1>2, <1>3, Invariant, PTL DEF Spec
=============================================================================
