---------------------------- MODULE StakeMaster ----------------------------
(***************************************************************************)
(* One run_once of the StakeMaster agent (agents/stake_master/agent.py)    *)
(* over the staking contract and the wallet: read the status, stake the    *)
(* minimum when nothing is staked, claim, stake the idle balance, beat.    *)
(* Each transaction is a step, since the process may die or a transaction  *)
(* be mined between any two.                                               *)
(*                                                                         *)
(* send_tx returns when the node has taken a transaction (agentkit_wallet);*)
(* `chain.pending' holds those not mined yet, in nonce order.  Units are   *)
(* whole; a stake of any size earns one unit of reward per tick of `now'.  *)
(* `env.faults' are the kinds of failure the environment may show, at most *)
(* MaxKinds of them in a behaviour; `faults' are those it has shown.       *)
(***************************************************************************)
EXTENDS Integers, Sequences, FiniteSets

CONSTANTS
    MaxAttempts,    \* STAKEMASTER_AUTO_STAKE_MAX_ATTEMPTS
    MinActive,      \* VVV_ACTIVE_MIN_STAKE_UNITS
    Buffer,         \* STAKEMASTER_WALLET_VVV_BUFFER_UNITS
    MaxPerCycle,    \* STAKEMASTER_IDLE_STAKE_MAX_PER_CYCLE_UNITS, 0: no cap
    IdleMin,        \* units worth STAKEMASTER_IDLE_STAKE_MIN_USD
    ClaimInterval,  \* STAKEMASTER_MIN_CLAIM_INTERVAL_SECONDS, in ticks
    BeatInterval,   \* STAKEMASTER_HEARTBEAT_INTERVAL_HOURS, in ticks
    MaxRewards,     \* rewards stop accruing here (a bound)
    MaxTime,        \* no profile's clock runs further (a bound)
    MaxPending,     \* transactions waiting at once (a bound)
    MaxKinds,       \* kinds of fault in one behaviour (a bound)
    Profiles,       \* the environments an MC module chooses from
    None            \* no timestamp, no snapshot

ASSUME StakeAssumption ==
    /\ MaxAttempts \in Nat \ {0}
    /\ {MinActive, Buffer, MaxPerCycle, IdleMin, ClaimInterval, BeatInterval,
        MaxRewards, MaxTime, MaxPending, MaxKinds} \subseteq Nat
    /\ None \notin Int

(* A behaviour begins with nothing sent. *)
ASSUME StakeProfileAssumption == \A p \in Profiles :
    /\ p.chain \in [stake : Nat, wallet : Nat, allowance : Nat, rewards : Nat,
                    pending : {<<>>}]
    /\ p.until \in 0 .. MaxTime

VARIABLES
    env,      \* the environment, an element of Profiles
    chain,    \* contract and wallet, and the transactions not mined
    kv,       \* the KV store: last claim and last heartbeat
    mem,      \* the agent's memory: attempts, last claim, last good snapshot
    run,      \* run_once in progress
    now,      \* wall clock, in ticks
    faults,   \* kinds of fault so far
    log       \* history: last claim sent, auto-stakes this process has sent

stakeVars == <<env, chain, kv, mem, run, now, faults, log>>

Kinds == {"approve", "stake", "claim"}

Tx == [kind : Kinds, units : Nat]

FaultKinds == {"raise", "status", "balance", "nonce", "send", "answer", "nonce error",
               "overflow", "kv read", "kv write", "beat",
               "crash", "market", "sim", "timeout", "store"}

Steps == {"none", "status", "auto", "auto approve", "auto stake", "auto retry",
          "auto read", "retry read",
          "claim", "claimed", "idle", "idle nonce", "idle approve",
          "idle stake", "beat", "beaten", "done", "failed"}

Snapshot == [staked : Nat, active : BOOLEAN]

NoRun == [step |-> "none", live |-> FALSE, rewards |-> 0,
          active |-> FALSE, nonce |-> "next", amount |-> 0,
          beat |-> "none"]

NoMem == [attempts |-> 0, claim |-> None, snap |-> None]

StartRun(live) == run' = [NoRun EXCEPT !.step = "status", !.live = live]

Go(step) == run' = [run EXCEPT !.step = step]

NoFault == UNCHANGED faults

Fault(kind) ==
    /\ kind \in env.faults
    /\ kind \in faults \/ Cardinality(faults) < MaxKinds
    /\ faults' = faults \cup {kind}

(* A full pool makes the sender wait. *)
Send(kind, units) ==
    /\ Len(chain.pending) < MaxPending
    /\ chain' = [chain EXCEPT !.pending = Append(@, [kind |-> kind, units |-> units])]

(* StakingService.status: a failed read of the stake answers with the last *)
(* good snapshot, or 0 when there is none.  A stake of exactly the minimum *)
(* is not active.                                                          *)
Live == [staked |-> chain.stake, active |-> chain.stake > MinActive]

LastKnown == IF mem.snap = None THEN [staked |-> 0, active |-> FALSE] ELSE mem.snap

Adopt(snap, step) ==
    run' = [run EXCEPT !.step = step, !.rewards = chain.rewards, !.active = snap.active]

WantsAutoStakeAlways(snap) ==     \* mutant: attempts are not limited
    run.live /\ env.auto /\ snap.staked = 0

WantsAutoStake(snap) ==
    /\ run.live /\ env.auto
    /\ snap.staked = 0
    /\ MinActive > 0
    /\ mem.attempts < MaxAttempts

AfterStatus(snap) == IF WantsAutoStake(snap) THEN "auto" ELSE "claim"

ReadStatus ==
    /\ run.step = "status"
    /\ \/ /\ Adopt(Live, AfterStatus(Live))
          /\ mem' = [mem EXCEPT !.snap = Live]
          /\ NoFault
       \/ /\ Fault("status")
          /\ Adopt(LastKnown, AfterStatus(LastKnown))
          /\ UNCHANGED mem
       \/ /\ Fault("raise")
          /\ Go("failed")
          /\ UNCHANGED mem
    /\ UNCHANGED <<chain, kv, log>>

(* The automatic first stake. *)

GiveUp == mem' = [mem EXCEPT !.attempts = MaxAttempts]

CountAttempt == mem' = [mem EXCEPT !.attempts = @ + 1]

(* _nonce_state: nothing is known after a failed lookup, and nothing known *)
(* counts as nothing pending.                                              *)
PassNonceGateUnchecked(step) ==     \* mutant: pending transactions are not looked at
    /\ NoFault
    /\ run' = [run EXCEPT !.step = step, !.nonce = "next"]

PassNonceGate(step) ==
    \/ /\ chain.pending = <<>>
       /\ NoFault
       /\ run' = [run EXCEPT !.step = step, !.nonce = "next"]
    \/ /\ Fault("nonce")
       /\ run' = [run EXCEPT !.step = step, !.nonce = "unknown"]

AutoCheck ==
    /\ run.step = "auto"
    /\ \/ /\ \/ Fault("balance")
             \/ NoFault /\ chain.wallet < MinActive
             \/ NoFault /\ chain.wallet >= MinActive /\ chain.pending # <<>>
          /\ GiveUp
          /\ Go("claim")
       \/ /\ chain.wallet >= MinActive
          /\ PassNonceGate("auto approve")
          /\ UNCHANGED mem
    /\ UNCHANGED <<chain, kv, log>>

(* An attempt that raised counts, and a nonce error is retried at once. *)
AutoFails(kind) ==
    /\ Fault(kind)
    /\ CountAttempt
    /\ Go(IF kind = "nonce error" THEN "auto retry" ELSE "claim")

AutoApprove ==
    /\ run.step = "auto approve"
    /\ \/ /\ Send("approve", MinActive)
          /\ run' = [run EXCEPT !.step = "auto stake",
                                !.nonce = IF @ = "next" THEN "used" ELSE @]
          /\ NoFault /\ UNCHANGED mem
       \/ /\ AutoFails("answer")
          /\ Send("approve", MinActive)
       \/ /\ \E kind \in {"send", "nonce error"} : AutoFails(kind)
          /\ UNCHANGED chain
    /\ UNCHANGED <<kv, log>>

(* The amounts run_with_stake_overflow_backoff tries: the whole, then half. *)
Sizes(units) == {units, units \div 2} \ {0}

Backoff(units, whole) == IF units = whole THEN NoFault ELSE Fault("overflow")

AutoSent == log' = [log EXCEPT !.autos = @ + 1]

AutoDoneUncounted(step) == AutoSent /\ Go(step) /\ UNCHANGED mem     \* mutant: no attempt

(* After a stake went out no attempt is left and the status is read again. *)
AutoDone(step) == AutoSent /\ Go(step) /\ GiveUp

(* The gas estimate runs against the mined state, so it refuses a stake of  *)
(* more than the wallet then holds.                                         *)
AutoStake ==
    /\ run.step = "auto stake"
    /\ \/ /\ \E units \in Sizes(MinActive) :
                /\ Backoff(units, MinActive)
                /\ units <= chain.wallet
                /\ Send("stake", units)
          /\ AutoDone("auto read")
       \/ /\ MinActive > chain.wallet
          /\ NoFault
          /\ CountAttempt
          /\ Go("claim")
          /\ UNCHANGED <<chain, log>>
       \/ /\ Fault("overflow")
          /\ GiveUp
          /\ Go("claim")
          /\ UNCHANGED <<chain, log>>
       \/ /\ MinActive <= chain.wallet
          /\ AutoFails("answer")
          /\ Send("stake", MinActive)
          /\ AutoSent
       \/ /\ \E kind \in {"send", "nonce error"} : AutoFails(kind)
          /\ UNCHANGED <<chain, log>>
    /\ UNCHANGED kv

(* _retry_stake_with_gas_bump: the stake goes out under the nonce seen      *)
(* before the approval, which it replaces if that still waits and which is  *)
(* too low if that was mined.  An unknown nonce is looked up now.           *)
Waiting == Len(chain.pending) > 0 /\ chain.pending[Len(chain.pending)].kind = "approve"

AutoRetry ==
    /\ run.step = "auto retry"
    /\ \/ /\ NoFault
          /\ \/ /\ run.nonce = "used" /\ Waiting
                /\ chain' = [chain EXCEPT !.pending[Len(chain.pending)] =
                                [kind |-> "stake", units |-> MinActive]]
             \/ /\ run.nonce # "used"
                /\ Send("stake", MinActive)
          /\ AutoDone("retry read")
       \/ /\ NoFault \/ Fault("nonce") \/ Fault("send")
          /\ GiveUp
          /\ Go("claim")
          /\ UNCHANGED <<chain, log>>
    /\ UNCHANGED kv

(* A read that raises counts as one more failed attempt, and after a retry  *)
(* it ends run_once.                                                        *)
AutoRead ==
    /\ run.step \in {"auto read", "retry read"}
    /\ \/ /\ Adopt(Live, "claim")
          /\ mem' = [mem EXCEPT !.snap = Live]
          /\ NoFault
       \/ /\ Fault("status")
          /\ Adopt(LastKnown, "claim")
          /\ UNCHANGED mem
       \/ /\ Fault("raise")
          /\ IF run.step = "auto read"
               THEN CountAttempt /\ Go("claim")
               ELSE UNCHANGED mem /\ Go("failed")
    /\ UNCHANGED <<chain, kv, log>>

(* The claim. *)

(* What a reward is worth: less than its gas, less than the required value, *)
(* enough, not priced, or with no gas estimate to compare with.             *)
Values == {"dust", "poor", "worth", "unpriced", "no estimate"}

(* The last claim, from memory, else from the KV store; a failed read finds *)
(* none.                                                                    *)
LastClaimInMemory(readable) == mem.claim     \* mutant: the KV store is not asked

LastClaim(readable) ==
    IF mem.claim # None THEN mem.claim ELSE IF readable THEN kv.claim ELSE None

(* The pre-flight chain of run_once: once a last claim is known the value  *)
(* gate after the interval is not reached, only the gas test remains.      *)
Claimable(last, value) ==
    /\ run.rewards > 0
    /\ IF ClaimInterval > 0 /\ last # None
         THEN now - last >= ClaimInterval
         ELSE value # "poor"
    /\ value \notin {"dust", "no estimate"}

(* _last_claim_ts keeps what it read from the store. *)
Remember(readable) == mem' = [mem EXCEPT !.claim = LastClaim(readable)]

Claim ==
    /\ run.step = "claim"
    /\ \/ /\ \E readable \in BOOLEAN, value \in env.values :
                /\ IF readable THEN NoFault ELSE mem.claim = None /\ Fault("kv read")
                /\ Remember(readable)
                /\ \/ /\ ~run.live
                      /\ Go("beat")
                      /\ UNCHANGED <<chain, log>>
                   \/ /\ run.live /\ ~Claimable(LastClaim(readable), value)
                      /\ Go("idle")
                      /\ UNCHANGED <<chain, log>>
                   \/ /\ run.live /\ Claimable(LastClaim(readable), value)
                      /\ Send("claim", 0)
                      /\ Go("claimed")
                      /\ log' = [log EXCEPT !.claim = now]
       \/ /\ run.live
          /\ \E value \in env.values :
                /\ Claimable(LastClaim(TRUE), value)
                /\ \/ /\ Fault("send")
                      /\ UNCHANGED <<chain, log>>
                   \/ /\ Fault("answer")
                      /\ Send("claim", 0)
                      /\ log' = [log EXCEPT !.claim = now]
          /\ Remember(TRUE)
          /\ Go("idle")
    /\ UNCHANGED kv

(* _record_claim_ts: in memory always, in the store if the write succeeds. *)
RecordClaim ==
    /\ run.step = "claimed"
    /\ mem' = [mem EXCEPT !.claim = now]
    /\ \/ NoFault /\ kv' = [kv EXCEPT !.claim = now]
       \/ Fault("kv write") /\ UNCHANGED kv
    /\ Go("idle")
    /\ UNCHANGED <<chain, log>>

(* Staking the idle balance. *)

(* IdleStakeLimits.apply to the whole balance. *)
Stakeable(balance) ==
    LET spare == IF balance > Buffer THEN balance - Buffer ELSE 0
    IN IF MaxPerCycle > 0 /\ spare > MaxPerCycle THEN MaxPerCycle ELSE spare

IdleBalance ==
    /\ run.step = "idle"
    /\ LET amount == Stakeable(chain.wallet) IN
       \/ /\ Fault("balance")
          /\ Go("beat")
       \/ /\ amount = 0 \/ amount < IdleMin
          /\ Go("beat")
          /\ NoFault
       \/ /\ amount > 0 /\ amount >= IdleMin
          /\ run' = [run EXCEPT !.step = "idle nonce", !.amount = amount]
          /\ NoFault
    /\ UNCHANGED <<chain, kv, mem, log>>

IdleNonce ==
    /\ run.step = "idle nonce"
    /\ \/ /\ chain.pending # <<>>
          /\ Go("beat")
          /\ NoFault
       \/ PassNonceGate("idle approve")
    /\ UNCHANGED <<chain, kv, mem, log>>

IdleApprove ==
    /\ run.step = "idle approve"
    /\ \/ /\ Send("approve", run.amount)
          /\ Go("idle stake")
          /\ NoFault
       \/ /\ Fault("answer")
          /\ Send("approve", run.amount)
          /\ Go("beat")
       \/ /\ \E kind \in {"send", "nonce error", "overflow"} : Fault(kind)
          /\ Go("beat")
          /\ UNCHANGED chain
    /\ UNCHANGED <<kv, mem, log>>

IdleStake ==
    /\ run.step = "idle stake"
    /\ \/ /\ \E units \in Sizes(run.amount) :
                /\ Backoff(units, run.amount)
                /\ units >= IdleMin
                /\ units <= chain.wallet
                /\ Send("stake", units)
       \/ /\ run.amount > chain.wallet /\ NoFault
          /\ UNCHANGED chain
       \/ /\ Fault("answer")
          /\ run.amount <= chain.wallet
          /\ Send("stake", run.amount)
       \/ /\ \E kind \in {"send", "nonce error", "overflow"} : Fault(kind)
          /\ UNCHANGED chain
    /\ Go("beat")
    /\ UNCHANGED <<kv, mem, log>>

(* The heartbeat. *)

BeatDue == IF kv.beat = None THEN TRUE ELSE now - kv.beat >= BeatInterval

(* A failed lookup of the last heartbeat sends one, and so does an inactive *)
(* stake.                                                                   *)
Beat ==
    /\ run.step = "beat"
    /\ \/ /\ run.active /\ ~BeatDue /\ NoFault
          /\ run' = [run EXCEPT !.step = "done", !.beat = "skipped"]
       \/ /\ ~run.active \/ BeatDue
          /\ NoFault
          /\ run' = [run EXCEPT !.step = "beaten", !.beat = "sent"]
       \/ /\ Fault("kv read")
          /\ run' = [run EXCEPT !.step = "beaten", !.beat = "sent"]
       \/ /\ ~run.active \/ BeatDue
          /\ Fault("beat")
          /\ run' = [run EXCEPT !.step = "done", !.beat = "error"]
    /\ UNCHANGED <<chain, kv, mem, log>>

RecordBeat ==
    /\ run.step = "beaten"
    /\ \/ NoFault /\ kv' = [kv EXCEPT !.beat = now]
       \/ Fault("kv write") /\ UNCHANGED kv
    /\ Go("done")
    /\ UNCHANGED <<chain, mem, log>>

RunOnce ==
    /\ \/ ReadStatus
       \/ AutoCheck \/ AutoApprove \/ AutoStake \/ AutoRetry \/ AutoRead
       \/ Claim \/ RecordClaim
       \/ IdleBalance \/ IdleNonce \/ IdleApprove \/ IdleStake
       \/ Beat \/ RecordBeat
    /\ UNCHANGED <<env, now>>

(* The chain and the clock. *)

(* A transaction takes effect, or reverts, in nonce order. *)
Applied(tx) ==
    IF tx.kind = "approve" THEN [chain EXCEPT !.allowance = tx.units]
    ELSE IF tx.kind = "claim"
      THEN [chain EXCEPT !.wallet = @ + chain.rewards, !.rewards = 0]
    ELSE IF tx.units <= chain.wallet /\ tx.units <= chain.allowance
      THEN [chain EXCEPT !.stake = @ + tx.units, !.wallet = @ - tx.units,
                         !.allowance = @ - tx.units]
    ELSE chain

Mine ==
    /\ chain.pending # <<>>
    /\ chain' = [Applied(Head(chain.pending)) EXCEPT !.pending = Tail(@)]
    /\ UNCHANGED <<env, kv, mem, run, now, faults, log>>

Accrue == IF chain.stake > 0 /\ chain.rewards < MaxRewards THEN 1 ELSE 0

Tick ==
    /\ now < env.until
    /\ now' = now + 1
    /\ chain' = [chain EXCEPT !.rewards = @ + Accrue]

StakeInit ==
    /\ env \in Profiles
    /\ chain = env.chain
    /\ kv = [claim |-> None, beat |-> None]
    /\ mem = NoMem
    /\ run = NoRun
    /\ now = 0
    /\ faults = {}
    /\ log = [claim |-> None, autos |-> 0]

(* The process dies with whatever run_once was doing. *)
ForgetStake ==
    /\ mem' = NoMem
    /\ run' = NoRun
    /\ log' = [log EXCEPT !.autos = 0]

-----------------------------------------------------------------------------
(* The agent's part of the state keeps its types; the attempts pass their  *)
(* limit by no more than the one a failed read adds after the last.        *)
StakeTypeOK ==
    /\ env \in Profiles
    /\ chain \in [stake : Nat, wallet : Nat, allowance : Nat, rewards : Nat,
                  pending : Seq(Tx)]
    /\ kv \in [claim : Nat \cup {None}, beat : Nat \cup {None}]
    /\ mem \in [attempts : 0 .. MaxAttempts + 1, claim : Nat \cup {None},
                snap : Snapshot \cup {None}]
    /\ run \in [step : Steps, live : BOOLEAN, rewards : Nat,
                active : BOOLEAN, nonce : {"next", "used", "unknown"}, amount : Nat,
                beat : {"none", "sent", "error", "skipped"}]
    /\ now \in 0 .. MaxTime
    /\ faults \subseteq FaultKinds
    /\ log \in [claim : Nat \cup {None}, autos : Nat]
=============================================================================
