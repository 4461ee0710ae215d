------------------------------ MODULE Recovery ------------------------------
(***************************************************************************)
(* ArbiDIEM (agents/arbi_diem/agent.py), and its cycle in the              *)
(* orchestrator, over the desk: a simulated decision that may plan a step  *)
(* of recovery for later, then the planned step, or a decision in earnest. *)
(*                                                                         *)
(* A recovery campaign lowers the share of the sVVV that is locked, when   *)
(* that is above the cap, to a target below it: it burns DIEM to unlock    *)
(* sVVV, or buys VVV and stakes it.  Prices and previews are the           *)
(* environment's: `modes' of the market, `wants' of the risk policy,       *)
(* `picky' where previews, quorum or risk may turn anything down,          *)
(* `halted' for whether the guardian halts the cycle.                      *)
(***************************************************************************)
EXTENDS DiemDesk

CONSTANTS
    MinInterval,  \* ARBI_DIEM_MIN_ACTION_INTERVAL_SECONDS, in cycles
    Hour,         \* the window of the mint limit, in cycles
    MaxMints,     \* mint & sell actions per Hour
    Whole,        \* basis points in one
    Cap,          \* ARBI_DIEM_LOCKED_SVVV_RATIO_CAP
    Target        \* ... _RATIO_TARGET

ASSUME RecoveryAssumption ==
    /\ {MinInterval, Hour} \subseteq Nat
    /\ MaxMints \in Nat \ {0}
    /\ Target \in Nat \ {0} /\ Cap \in Nat /\ Whole \in Nat
    /\ Target <= Cap /\ Cap < Whole

Modes == {"premium", "discount", "stuck", "neutral"}

ASSUME RecoveryProfileAssumption == \A p \in Profiles :
    /\ p.chain \in [free : Nat, locked : Nat, diem : Nat, vvv : Nat, usdc : Nat]
    /\ p.steps \in Nat \ {0}
    /\ p.modes \subseteq Modes /\ p.wants \subseteq Nat /\ p.faults \subseteq FaultKinds

CeilDiv(a, b) == (a + b - 1) \div b

Total(a) == a.free + a.locked

MaxLocked(a, share) == (Total(a) * share) \div Whole

OverCap == acct.locked > MaxLocked(acct, Cap)

-----------------------------------------------------------------------------
(* Pacing.  An action is recorded before it is executed; a recovery may    *)
(* skip the interval.  `mints' are the ages of the mints of the last Hour; *)
(* a cycle records one at most.                                            *)
MayAct(action) ==
    /\ \/ action = "recovery" /\ env.bypass
       \/ desk.since = None
       \/ desk.since >= MinInterval
    /\ action = "mint" => Cardinality(desk.mints) < MaxMints

Recorded(d, action) ==
    [d EXCEPT !.since = 0, !.mints = IF action = "mint" THEN @ \cup {0} ELSE @]

(* Time is counted in cycles of the loop, which sleeps between them. *)
Aged(d) ==
    [d EXCEPT !.since = IF @ = None THEN None ELSE LeastOf(@ + 1, MinInterval),
              !.mints = {age + 1 : age \in @} \cap (0 .. Hour)]

-----------------------------------------------------------------------------
(* The campaign: it starts above the cap and ends at the target, with the  *)
(* excess spread over the steps it has left.                               *)
Replanned(plan, a) ==
    IF a.locked <= MaxLocked(a, Target) THEN None
    ELSE IF plan # None THEN plan
    ELSE IF a.locked > MaxLocked(a, Cap) THEN 0
    ELSE None

StepsLeft(plan) == IF env.steps > plan THEN env.steps - plan ELSE 1

UnlockUnscaled(plan, a) ==     \* mutant: sVVV taken for DIEM
    CeilDiv(a.locked - MaxLocked(a, Target), StepsLeft(plan))

(* DIEM to burn: what would unlock this step's part of the excess. *)
Unlock(plan, a) ==
    IF (Total(a) * (Whole - Target)) \div Whole > a.free
      THEN CeilDiv(CeilDiv(a.locked - MaxLocked(a, Target), StepsLeft(plan)), Rate)
      ELSE 0

(* VVV to stake: this step's part of what the total lacks. *)
Dilute(plan, a) ==
    CeilDiv(Minus(CeilDiv(a.locked * Whole, Target), Total(a)), StepsLeft(plan))

Option == [kind : {"burn", "stake"}, units : Nat \ {0}]

Step(kind, units) == [kind |-> kind, units |-> units]

(* The risk policy and the halving of what previews turn down may leave    *)
(* less of either.  A step of burning needs its DIEM in the wallet already.*)
BurnSteps(plan, a) ==
    {Step("burn", n) : n \in {k \in 1 .. Unlock(plan, a) : Burnable(a, k)}}

StakeSteps(plan, a) ==
    {Step("stake", n) : n \in 1 .. LeastOf(Dilute(plan, a), a.usdc)}

Options(plan, a, stakeOnly) ==
    StakeSteps(plan, a) \cup (IF stakeOnly THEN {} ELSE BurnSteps(plan, a))

OffersWhileSteps(plan, stakeOnly) ==     \* mutant: no step beyond the planned ones
    LET options == IF plan \in {None, env.steps} THEN {} ELSE Options(plan, acct, stakeOnly) IN
    IF options = {} \/ env.picky THEN options \cup {None} ELSE options

(* _maybe_capacity_recovery up to its choice of an option, if any. *)
Offers(plan, stakeOnly) ==
    LET options == IF plan = None THEN {} ELSE Options(plan, acct, stakeOnly) IN
    IF options = {} \/ env.picky THEN options \cup {None} ELSE options

StepOf(choice) ==
    IF choice.kind = "burn" THEN "cover" ELSE IF desk.owed # None THEN "owed" ELSE "swap"

StartRecovery(choice, r) ==
    [r EXCEPT !.step = StepOf(choice), !.job = "recovery", !.left = choice.units]

-----------------------------------------------------------------------------
(* The mint falls short for what the risk policy wants. *)
Short(look, want) == want > look /\ acct.free < Rate * (want - look)

(* Whether a decision turns to the recovery.  A "stuck" market is one at a *)
(* discount with no route to buy DIEM by.                                  *)
Asks(mode, look, want) ==
    CASE mode = "premium" -> OverCap \/ (~desk.latched /\ Short(look, want))
      [] mode = "stuck"   -> OverCap
      [] OTHER            -> FALSE

(* A simulated decision drops the step planned by the last one. *)
Simulate ==
    /\ run.step = "idle"
    /\ \E mode \in env.modes, want \in env.wants :
          LET asks == Asks(mode, acct.diem, want)
              plan == IF asks THEN Replanned(desk.plan, acct) ELSE desk.plan IN
          \E choice \in IF asks THEN Offers(plan, mode = "stuck") ELSE {None} :
             /\ desk' = [Aged(desk) EXCEPT !.plan = plan,
                           !.pending = IF choice = None THEN None
                                       ELSE [option |-> choice, look |-> acct.diem,
                                             clean |-> pool = <<>>]]
             /\ run' = [NoRun EXCEPT !.step = "planned", !.mode = mode]
    /\ UNCHANGED <<env, acct, pool, seen>>

(* No signal, a quorum that refuses, or a halted cycle with nothing to do. *)
Rest ==
    /\ run.step = "planned"
    /\ env.picky \/ desk.pending = None
    /\ Over
    /\ UNCHANGED <<env, acct, pool, desk, seen>>

(* _execute_pending_recovery, in a halted cycle: the planned step, with    *)
(* the snapshot of its planning.                                           *)
RunPending ==
    /\ run.step = "planned"
    /\ TRUE \in env.halted
    /\ desk.pending # None
    /\ LET planned == desk.pending
           d == [desk EXCEPT !.pending = None] IN
       IF MayAct("recovery")
         THEN /\ desk' = Recorded(d, "recovery")
              /\ run' = [StartRecovery(planned.option, run) EXCEPT
                            !.look = planned.look, !.older = Len(pool),
                            !.clean = planned.clean]
         ELSE desk' = d /\ Over
    /\ UNCHANGED <<env, acct, pool, seen>>

(* evaluate_and_maybe_mint in earnest begins with a snapshot of the wallet. *)
Decide ==
    /\ run.step = "planned"
    /\ FALSE \in env.halted
    /\ run' = [run EXCEPT !.step = "decided", !.job = "trade", !.look = acct.diem,
                          !.older = Len(pool), !.clean = (pool = <<>>)]
    /\ UNCHANGED <<env, acct, pool, desk, seen>>

(* A recovery within a decision; one that is not made lets some decisions  *)
(* go on to trade.                                                         *)
Relief(stakeOnly, falls) ==
    LET plan == Replanned(desk.plan, acct)
        d == [desk EXCEPT !.plan = plan] IN
    \E choice \in Offers(plan, stakeOnly) :
       IF choice # None /\ MayAct("recovery")
         THEN /\ desk' = Recorded(d, "recovery")
              /\ run' = [StartRecovery(choice, run) EXCEPT !.falls = falls]
         ELSE /\ desk' = d
              /\ IF falls THEN Go("weighed") ELSE Over

Recover ==
    /\ run.step = "decided"
    /\ OverCap
    /\ \/ run.mode = "premium" /\ Relief(FALSE, TRUE)
       \/ run.mode = "stuck" /\ Relief(TRUE, FALSE)
    /\ UNCHANGED <<env, acct, pool, seen>>

AtPremium ==
    \/ run.step = "weighed"
    \/ run.step = "decided" /\ run.mode = "premium" /\ ~OverCap

(* Mint and sell at a premium. *)
MintAndSell ==
    /\ AtPremium
    /\ ~desk.latched
    /\ \E want \in env.wants \ {0} :
          /\ ~Short(run.look, want)
          /\ IF MayAct("mint")
               THEN /\ desk' = Recorded(desk, "mint")
                    /\ run' = [run EXCEPT !.step = "sale", !.left = want]
               ELSE Over /\ UNCHANGED desk
    /\ UNCHANGED <<env, acct, pool, seen>>

(* Where the sVVV falls short the decision asks for a stake and recovers. *)
HoldShort ==
    /\ AtPremium
    /\ ~desk.latched
    /\ \E want \in env.wants : Short(run.look, want)
    /\ Relief(FALSE, FALSE)
    /\ UNCHANGED <<env, acct, pool, seen>>

(* Without mintDiem the wallet's DIEM is all there is to sell. *)
SpotSell ==
    /\ AtPremium
    /\ desk.latched
    /\ \E want \in env.wants : /\ LeastOf(run.look, want) > 0
                              /\ Send("sell", LeastOf(run.look, want))
    /\ Over
    /\ UNCHANGED <<env, acct, desk, seen>>

(* At a discount: burn from the wallet and buy the rest, or only buy where *)
(* the wallet's DIEM cannot all be burned.                                 *)
BuyAndBurn ==
    /\ run.step = "decided"
    /\ run.mode = "discount"
    /\ \E want \in env.wants \ {0} :
          LET blocked == acct.diem >= run.look /\ ~Burnable(acct, run.look)
              burns == LeastOf(want, IF blocked THEN BurnPart(acct, run.look) ELSE run.look)
          IN run' = IF desk.latched \/ blocked
                      THEN IF want > burns
                             THEN [run EXCEPT !.step = "buy", !.left = want - burns]
                             ELSE NoRun
                      ELSE [run EXCEPT !.step = "cover", !.left = want]
    /\ UNCHANGED <<env, acct, pool, desk, seen>>

(* The market or the risk policy offers nothing, or there is no DIEM to sell.*)
Hold ==
    /\ \/ AtPremium /\ (env.picky \/ 0 \in env.wants \/ (desk.latched /\ run.look = 0))
       \/ run.step = "decided" /\ run.mode = "discount" /\ (env.picky \/ 0 \in env.wants)
       \/ run.step = "decided" /\ run.mode = "stuck" /\ ~OverCap
       \/ run.step = "decided" /\ run.mode = "neutral"
    /\ Over
    /\ UNCHANGED <<env, acct, pool, desk, seen>>

Agent ==
    \/ Simulate \/ Rest \/ RunPending \/ Decide
    \/ Recover \/ MintAndSell \/ HoldShort \/ SpotSell \/ BuyAndBurn \/ Hold

(* A restart keeps nothing of the desk; the wallet's transactions live on. *)
Crash ==
    /\ Fault("crash")
    /\ desk' = NoDesk
    /\ run' = NoRun
    /\ UNCHANGED <<env, acct, pool>>

Init ==
    /\ env \in Profiles
    /\ acct = env.chain
    /\ pool = <<>>
    /\ desk = NoDesk
    /\ run = NoRun
    /\ seen = NoSeen

Next == Agent \/ Client \/ Mine \/ Crash

(* The loop runs on, since every call of it has a timeout, and transactions *)
(* are mined in the end.                                                    *)
Spec ==
    /\ Init
    /\ [][Next]_deskVars
    /\ WF_deskVars(Agent \/ Client)
    /\ WF_deskVars(Mine)

-----------------------------------------------------------------------------
(* Every part of the state keeps its shape: nothing the desk holds or owes *)
(* is negative, a campaign is within its steps, the pacing memory within   *)
(* its limits.                                                             *)
TypeOK ==
    /\ env \in Profiles
    /\ acct \in [free : Nat, locked : Nat, diem : Nat, vvv : Nat, usdc : Nat]
    /\ pool \in Seq([kind : Kinds, units : Nat \ {0}, job : {"trade", "recovery"},
                     clean : BOOLEAN])
    /\ Len(pool) <= MaxPool
    /\ desk \in [latched : BOOLEAN, since : {None} \cup 0 .. MinInterval,
                mints : SUBSET (0 .. Hour), plan : {None} \cup 0 .. env.steps,
                pending : {None} \cup [option : Option, look : Nat, clean : BOOLEAN],
                owed : {None} \cup (Nat \ {0})]
    /\ Cardinality(desk.mints) <= MaxMints
    /\ run \in [step : Steps, job : {"none", "trade", "recovery"}, mode : Modes \cup {"none"},
                look : Nat, left : Nat, use : Nat, attempt : 0 .. MaxRetries,
                older : 0 .. MaxPool, got : {"none", "ok", "failed", "unknown"},
                before : Nat, minted : Nat, clean : BOOLEAN, falls : BOOLEAN]
    /\ seen \in [faults : SUBSET FaultKinds, bought : BOOLEAN, overlap : BOOLEAN]

Resting == run.step = "idle" /\ pool = <<>>

(* One decision to mint has more than one mint that may yet be good only   *)
(* after a confirmation that timed out or an answer that was lost: a retry *)
(* (actions.py:1310) never follows a mint that is known to have worked.    *)
ExtraMintNeedsDoubt ==
    run.minted > 1 => seen.faults \cap {"timeout", "lost"} # {}

(* Where nothing fails, what is minted is sold: once all is mined the      *)
(* wallet has no more DIEM than it began with, however snapshots, mints    *)
(* and sales of several decisions overlapped.                              *)
NothingStranded ==
    Resting /\ seen.faults = {} /\ ~seen.bought => acct.diem <= env.chain.diem

(* VVV the wallet keeps: the buffer, or what it held to begin with. *)
Allowance == IF env.chain.vvv > Buffer THEN env.chain.vvv ELSE Buffer

(* VVV bought by a recovery is staked, or noted as owed, unless a receipt  *)
(* was not seen in time, a stake was cut down, the swap gave more than its *)
(* quote, the process died, or the swap overlapped an unmined transaction. *)
BoughtIsStakedOrOwed ==
    Resting /\ desk.owed = None /\ ~seen.overlap
        /\ seen.faults \cap {"timeout", "overflow", "surplus", "crash"} = {}
        => acct.vvv <= Allowance

MinedNow == pool # <<>> /\ pool' = Tail(pool)

(* A burn of the campaign, sized with nothing in the air, unlocks no more  *)
(* than takes the locked share to the target, but for the rounding to a    *)
(* whole DIEM.                                                             *)
CampaignStopsAtTarget ==
    [][MinedNow /\ acct' # acct /\ Head(pool).kind = "burn"
         /\ Head(pool).job = "recovery" /\ Head(pool).clean
         => acct'.locked + Rate > MaxLocked(acct, Target)]_deskVars

(* What a decision sends that began with nothing in the air is still       *)
(* covered when it is mined, if nothing fails: its own earlier steps       *)
(* provide for its later ones.                                             *)
CleanSettles ==
    [][MinedNow /\ Head(pool).clean /\ seen'.faults = {} => acct' # acct]_deskVars

(* At a premium, where nothing fails and nothing is turned down, locked    *)
(* sVVV above the cap is brought under it, through pacing, campaign steps  *)
(* and the risk policy's smaller sizes.                                    *)
Relieved == (env.calm /\ OverCap) ~> ~OverCap
=============================================================================
