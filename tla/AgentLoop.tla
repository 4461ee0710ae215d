----------------------------- MODULE AgentLoop -----------------------------
(***************************************************************************)
(* The single loop of the agents (graph/workflows/orchestrator.py): each   *)
(* cycle runs StakeMaster, reads the market, asks the guardian, simulates  *)
(* a trade, has the quorum vote and trades, then reflects on itself and    *)
(* records what it did (services/memory/store.py).                         *)
(*                                                                         *)
(* A cycle is a handful of steps: the process may die between any two, and *)
(* a raised exception abandons the cycle.  The environment's profile says  *)
(* which readings the market gives (`prices', `health', `wild', `utils'),  *)
(* what the arbitrage agent finds (`signals', `recoveries', `notes',       *)
(* `premiums', `errors') and how a live leg ends (`outcomes').             *)
(***************************************************************************)
EXTENDS StakeMaster, Reflex, AgentQuorum

CONSTANTS
    Threshold,  \* STAKEMASTER_PROGRESSIVE_CYCLES
    MinStreak,  \* ARBI_PRICE_GUARD_MIN_STREAK
    StreakCap,  \* ARBI_PRICE_GUARD_STREAK_MAX
    HaltTTL     \* REFLECTION_HALT_TTL_SECONDS, in ticks

ASSUME LoopAssumption ==
    /\ Threshold \in Nat \ {0}
    /\ MinStreak \in Nat \ {0}
    /\ StreakCap \in Nat /\ StreakCap > MinStreak
    /\ HaltTTL \in Nat

Acts == {"none", "halted", "guarded", "refused", "dry", "hold", "trade", "recover"}

Notes == {"none", "short", "mismatch"}

(* What the environment may answer. *)
ASSUME LoopProfileAssumption == \A p \in Profiles :
    /\ p.prices \subseteq Int \cup {Unknown}
    /\ p.utils \subseteq Int /\ p.premiums \subseteq Nat
    /\ p.wild \subseteq BOOLEAN /\ p.signals \subseteq BOOLEAN
    /\ p.recoveries \subseteq BOOLEAN
    /\ p.errors \subseteq Nat \cup {Unknown}
    /\ p.outcomes \subseteq Outcomes /\ p.notes \subseteq Notes

VARIABLES
    loop,   \* the orchestrator's memory
    guard,  \* the guardian's streaks
    store,  \* the cycle records: the JSONL file, if any, and the buffer
    cyc,    \* the cycle in progress
    seen    \* history: trips and bypasses in a row, good stake steps, last failure

vars == <<stakeVars, loop, guard, store, cyc, seen>>

Phases == {"sleep", "stake", "market", "decide", "act", "end"}

NoLoop == [pc |-> "sleep", counter |-> 0, live |-> FALSE, rec |-> FALSE,
           haltUntil |-> 0, streak |-> 0, recovery |-> FALSE]

NoGuard == [inactive |-> 0, errors |-> 0]

(* What the loop reads back of its records: how many of the last ones in a *)
(* row name the price guard, and the price and errors of the last.         *)
NoRecords == [run |-> 0, price |-> 0, errors |-> Unknown]

Records == [run : 0 .. StreakCap, price : Int, errors : Nat \cup {Unknown}]

NoCycle == [live |-> FALSE, stakeOk |-> TRUE, active |-> FALSE,
            beat |-> "none", rewards |-> 0, price |-> 0, missing |-> FALSE,
            tripped |-> FALSE, skip |-> FALSE, bypassed |-> FALSE, blocked |-> FALSE,
            warned |-> FALSE, util |-> 0, recoverable |-> FALSE, act |-> "none",
            outcome |-> "none", errors |-> Unknown, note |-> "none"]

NoSeen == [trips |-> 0, bypasses |-> 0, good |-> 0, failed |-> None]

To(pc) == loop' = [loop EXCEPT !.pc = pc]

(* run_loop: in progressive mode a cycle is live once enough were good;    *)
(* otherwise the flags decide.  The stake recommendation is handed to      *)
(* StakeMaster with the cycle.                                             *)
Begin ==
    /\ loop.pc = "sleep"
    /\ LET live == IF env.gated THEN loop.live ELSE TRUE IN
          /\ cyc' = [NoCycle EXCEPT !.live = live]
          /\ StartRun(live)
    /\ To("stake")
    /\ UNCHANGED <<env, chain, kv, mem, now, faults, log, guard, store, seen>>

StakeStep ==
    /\ loop.pc = "stake"
    /\ RunOnce
    /\ UNCHANGED <<loop, guard, store, cyc, seen>>

GoodStakeIfOk(c) == c.stakeOk     \* mutant: neither active nor beaten

GoodStakeActive(c) == c.stakeOk /\ c.active     \* mutant: only an active stake is good

GoodStake(c) == c.stakeOk /\ (c.beat = "sent" \/ c.active)

KeptUntilActive(r) == r.step # "done" \/ ~r.active     \* mutant: cleared by an active stake

(* The recommendation stays until run_once returns. *)
Kept(r) == r.step # "done"

(* run_once returned, which clears the recommendation, or raised. *)
StakeDone ==
    /\ loop.pc = "stake"
    /\ run.step \in {"done", "failed"}
    /\ cyc' = IF run.step = "done"
                THEN [cyc EXCEPT !.active = run.active, !.beat = run.beat,
                                 !.rewards = run.rewards]
                ELSE [cyc EXCEPT !.stakeOk = FALSE, !.active = Unknown]
    /\ loop' = [loop EXCEPT !.pc = "market",
                            !.rec = @ /\ Kept(run)]
    /\ seen' = [seen EXCEPT !.good =
                   IF run.step = "done" /\ (run.beat = "sent" \/ run.active)
                     THEN Capped(@ + 1, Threshold) ELSE 0]
    /\ run' = NoRun
    /\ UNCHANGED <<env, chain, kv, mem, now, faults, log, guard, store>>

(* AgentMemoryStore.recent: the file if there is one, else the buffer. *)
Recent == IF store.file # None THEN store.file ELSE store.buffer

(* _price_guard_recent_stats *)
Streak == IF Recent.run > 0 THEN Recent.run ELSE loop.streak

(* _evaluate_price_guard_bypass; "near" is a drift within the cap. *)
MayBypassEarly(health) == health = "near" /\ Streak < StreakCap     \* mutant: no minimum

MayBypassForever(health) == health = "near" /\ Streak >= MinStreak     \* mutant: no cap

MayBypass(health) == health = "near" /\ Streak >= MinStreak /\ Streak < StreakCap

(* An invalid or clamped price trips the guard, in live mode. *)
Healths == {"ok", "near", "far"}

Trips(health) == cyc.live /\ health \in {"near", "far"}

(* market.prices leaves out what it could not fetch in time, and a price     *)
(* that is left out counts as 1; an invalid one is 0.                        *)
Quoted(raw) ==
    IF raw = Unknown THEN 1 ELSE IF NoPrice(raw) THEN 0 ELSE raw

(* The sticky halt of the reflection, and whether the guardian is asked.    *)
Sticky == now < loop.haltUntil

Asked == cyc.live /\ ~Sticky

(* The locked stake exceeds its cap, by the snapshot of the stake step. *)
Recoverable(locked) == locked /\ cyc.stakeOk

(* The price and what follows from it: a tripped guard skips the trade     *)
(* unless the streak lets it be bypassed, which lifts the skip of an invalid *)
(* price too.                                                               *)
Surveyed(raw, health, wild, util, locked) ==
    LET price    == Quoted(raw)
        bypassed == Trips(health) /\ MayBypass(health)
        verdict  == Evaluate(guard, price, wild, util, cyc.stakeOk, cyc.active, Recent)
    IN /\ cyc' = [cyc EXCEPT
             !.price = price, !.missing = raw = Unknown,
             !.tripped = Trips(health), !.bypassed = bypassed,
             !.skip = cyc.live /\ ~bypassed /\ (Trips(health) \/ price = 0),
             !.blocked = Sticky \/ (Asked /\ verdict.halt),
             !.warned = Asked /\ verdict.warned,
             !.util = util,
             !.recoverable = Recoverable(locked)]
       /\ guard' = IF Asked THEN verdict.guard ELSE guard

Survey ==
    /\ loop.pc = "market"
    /\ \E raw \in env.prices, health \in env.health, wild \in env.wild,
          util \in env.utils, locked \in env.recoveries :
          Surveyed(raw, health, wild, util, locked)
    /\ To("decide")
    /\ UNCHANGED <<stakeVars, store, seen>>

(* A live price request may raise, which ends the cycle with nothing noted. *)
Abandon ==
    /\ loop.pc = "market"
    /\ cyc.live
    /\ Fault("market")
    /\ To("sleep")
    /\ cyc' = NoCycle
    /\ UNCHANGED <<env, chain, kv, mem, run, now, log, guard, store, seen>>

(* _update_progressive_state *)
Progressed(l) ==
    LET counter == IF GoodStake(cyc) THEN Capped(l.counter + 1, Threshold) ELSE 0
    IN IF env.gated
         THEN [l EXCEPT !.counter = counter, !.live = @ \/ counter >= Threshold]
         ELSE l

(* record_cycle: SQL and the buffer; on an SQL error the file and the      *)
(* buffer where the fallback is allowed, else an error that is logged.     *)
Record(guarded, errors) ==
    LET After(r) == [run |-> IF guarded THEN Capped(r.run + 1, StreakCap) ELSE 0,
                     price |-> cyc.price, errors |-> errors]
    IN \/ /\ NoFault
          /\ store' = [store EXCEPT !.buffer = After(@)]
       \/ /\ Fault("store")
          /\ store' = IF env.fallback
                        THEN [file |-> After(IF store.file = None THEN NoRecords
                                                                  ELSE store.file),
                              buffer |-> After(store.buffer)]
                        ELSE store

(* The cycle took longer than ORCHESTRATOR_MAX_CYCLE_SECONDS: a record with *)
(* no price guard, no reflection, the runtime streak as it was.             *)
TimeOut ==
    /\ loop.pc = "decide"
    /\ "timeout" \in env.faults
    /\ Record(FALSE, Unknown)
    /\ loop' = Progressed([loop EXCEPT !.pc = "sleep"])
    /\ cyc' = NoCycle
    /\ UNCHANGED <<env, chain, kv, mem, run, now, log, guard, seen>>

Decision(act) == cyc' = [cyc EXCEPT !.act = act]

Halted ==
    /\ loop.pc = "decide"
    /\ cyc.blocked /\ ~cyc.recoverable
    /\ Decision("halted")
    /\ To("end")
    /\ UNCHANGED <<stakeVars, guard, store, seen>>

Guarded ==
    /\ loop.pc = "decide"
    /\ ~(cyc.blocked /\ ~cyc.recoverable)
    /\ cyc.skip
    /\ Decision("guarded")
    /\ To("end")
    /\ UNCHANGED <<stakeVars, guard, store, seen>>

(* _update_quorum_context, and the vote on a simulated signal. *)
QuorumContext(premium) ==
    [stakeOk |-> cyc.stakeOk, active |-> cyc.active = TRUE,
     beatError |-> cyc.beat = "error", rewards |-> cyc.rewards,
     simulated |-> TRUE, premium |-> premium, size |-> 1,
     halt |-> cyc.blocked, warned |-> cyc.warned, util |-> cyc.util]

(* The branches after the simulation.  `recovery' is the pending recovery  *)
(* action, `signal' the trade signal.                                      *)
Branch(signal, recovery, premium) ==
    IF recovery /\ cyc.live /\ (~signal \/ cyc.blocked)
      THEN IF Approves(QuorumContext(premium)) THEN "recover" ELSE "refused"
    ELSE IF (signal \/ recovery) /\ cyc.live /\ ~cyc.blocked
      THEN IF Approves(QuorumContext(premium)) THEN "trade" ELSE "refused"
    ELSE IF signal \/ recovery
      THEN IF cyc.blocked THEN "halted" ELSE "dry"
    ELSE "hold"

(* A simulation that raises leaves the pending recovery of an earlier      *)
(* cycle in place and takes any price for a signal.                        *)
Simulate ==
    /\ loop.pc = "decide"
    /\ ~(cyc.blocked /\ ~cyc.recoverable)
    /\ ~cyc.skip
    /\ \E signal \in env.signals, recovery \in env.recoveries, note \in env.notes,
          premium \in env.premiums, errors \in env.errors, sims \in BOOLEAN :
          LET found  == IF sims THEN signal ELSE cyc.price > 0
              action == IF sims THEN recovery ELSE loop.recovery
              branch == Branch(found, action, premium)
          IN /\ IF sims THEN NoFault ELSE Fault("sim")
             /\ cyc' = [cyc EXCEPT !.act = branch, !.errors = errors, !.note = note]
             /\ loop' = [loop EXCEPT
                           !.pc = IF branch \in {"trade", "recover"} THEN "act" ELSE "end",
                           !.recovery = action]
    /\ UNCHANGED <<env, chain, kv, mem, run, now, log, guard, store, seen>>

(* The live leg of a trade. *)
Trade ==
    /\ loop.pc = "act" /\ cyc.act = "trade"
    /\ \E outcome \in env.outcomes : cyc' = [cyc EXCEPT !.outcome = outcome]
    /\ To("end")
    /\ UNCHANGED <<stakeVars, guard, store, seen>>

(* The pending recovery is taken off whatever comes of it; its summary names *)
(* no leg, so the reflection can read it.                                    *)
Recover ==
    /\ loop.pc = "act" /\ cyc.act = "recover"
    /\ \E outcome \in env.outcomes \ Unread : cyc' = [cyc EXCEPT !.outcome = outcome]
    /\ loop' = [loop EXCEPT !.pc = "end", !.recovery = FALSE]
    /\ UNCHANGED <<stakeVars, guard, store, seen>>

(* Whether the record names the price guard, and whether a rationale of    *)
(* the arbitrage agent is what the record explains the cycle with.         *)
NamesGuard == cyc.act = "guarded" \/ cyc.bypassed

Explained == ~cyc.blocked /\ ~NamesGuard

Recommends == cyc.note = "short" /\ Explained

Failing == ArmsHalt(cyc.outcome, cyc.stakeOk, cyc.note = "mismatch" /\ Explained)

(* The end of run_cycle: the recommendation, the runtime streak, the       *)
(* reflection and its halt, the record, then the progressive state.        *)
Finish ==
    /\ loop.pc = "end"
    /\ Record(NamesGuard, IF Explained THEN cyc.errors ELSE Unknown)
    /\ loop' = Progressed(
         [loop EXCEPT !.pc = "sleep",
                      !.rec = @ \/ Recommends,
                      !.streak = IF cyc.act = "guarded"
                                   THEN Capped(Streak + 1, StreakCap) ELSE 0,
                      !.haltUntil = IF Failing THEN now + HaltTTL ELSE @])
    /\ seen' = [seen EXCEPT
                  !.trips = IF NamesGuard THEN Capped(@ + 1, StreakCap) ELSE 0,
                  !.bypasses = IF cyc.bypassed THEN Capped(@ + 1, StreakCap) ELSE 0,
                  !.failed = IF cyc.outcome \notin Excused \cup Unread
                                  /\ (cyc.outcome = "error" \/ ~cyc.stakeOk)
                               THEN now ELSE @]
    /\ cyc' = NoCycle
    /\ UNCHANGED <<env, chain, kv, mem, run, now, log, guard>>

(* The clock runs while the loop sleeps. *)
Sleep ==
    /\ loop.pc = "sleep"
    /\ Tick
    /\ UNCHANGED <<env, kv, mem, run, faults, log, loop, guard, store, cyc, seen>>

MineTx ==
    /\ Mine
    /\ UNCHANGED <<loop, guard, store, cyc, seen>>

(* A restart keeps the chain, the KV store and the file. *)
Crash ==
    /\ Fault("crash")
    /\ ForgetStake
    /\ loop' = NoLoop
    /\ guard' = NoGuard
    /\ store' = [store EXCEPT !.buffer = NoRecords]
    /\ cyc' = NoCycle
    /\ seen' = NoSeen
    /\ UNCHANGED <<env, chain, kv, now>>

Cycle ==
    \/ Begin \/ StakeStep \/ StakeDone
    \/ Survey \/ Abandon \/ TimeOut
    \/ Halted \/ Guarded \/ Simulate \/ Trade \/ Recover \/ Finish

Next == Cycle \/ Sleep \/ MineTx \/ Crash

Init ==
    /\ StakeInit
    /\ loop = NoLoop
    /\ guard = NoGuard
    /\ store = [file |-> None, buffer |-> NoRecords]
    /\ cyc = NoCycle
    /\ seen = NoSeen

(* The loop runs in a thread of its own that nothing blocks for good: every *)
(* external call has a timeout.                                             *)
Spec == Init /\ [][Next]_vars /\ WF_vars(Cycle)

-----------------------------------------------------------------------------
(* The loop's state keeps its types. *)
TypeOK ==
    /\ StakeTypeOK
    /\ loop \in [pc : Phases, counter : 0 .. Threshold, live : BOOLEAN, rec : BOOLEAN,
                 haltUntil : Nat, streak : 0 .. StreakCap, recovery : BOOLEAN]
    /\ guard \in [inactive : 0 .. InactiveLimit, errors : 0 .. ErrorLimit]
    /\ store \in [file : Records \cup {None}, buffer : Records]
    /\ cyc \in [live : BOOLEAN, stakeOk : BOOLEAN, active : BOOLEAN \cup {Unknown},
                beat : {"none", "sent", "error", "skipped"}, rewards : Nat, price : Int,
                missing : BOOLEAN, tripped : BOOLEAN, skip : BOOLEAN, bypassed : BOOLEAN,
                blocked : BOOLEAN, warned : BOOLEAN, util : Int, recoverable : BOOLEAN,
                act : Acts, outcome : Outcomes, errors : Nat \cup {Unknown}, note : Notes]
    /\ seen \in [trips : 0 .. StreakCap, bypasses : 0 .. StreakCap,
                 good : 0 .. Threshold, failed : Nat \cup {None}]

(* Two stakes wait to be mined at once only after a nonce lookup failed: the *)
(* gate of run_once and of the idle stake holds across cycles, restarts and  *)
(* lost answers.                                                             *)
OneStakeInFlight ==
    Cardinality({i \in DOMAIN chain.pending : chain.pending[i].kind = "stake"}) > 1
        => "nonce" \in faults

(* A process sends the automatic first stake once, whatever it reads of the  *)
(* chain, unless the answer to it was lost.                                  *)
AutoStakeOnce == log.autos > 1 => "answer" \in faults

ClaimGoesOut ==
    /\ Len(chain'.pending) > Len(chain.pending)
    /\ chain'.pending[Len(chain'.pending)].kind = "claim"

(* Two claims are an interval apart, even across a restart, unless an answer *)
(* was lost, or a restart met a claim time the KV store does not hold or     *)
(* give.                                                                     *)
ClaimsSpaced ==
    [][ClaimGoesOut /\ log.claim # None /\ now - log.claim < ClaimInterval
         => \/ "answer" \in faults'
            \/ "crash" \in faults /\ (kv.claim # log.claim \/ "kv read" \in faults')]_vars

(* A bypass of the price guard follows MinStreak guarded cycles in a row of  *)
(* this process, unless a record was lost or is a stale one of the file.     *)
BypassNeedsStreak ==
    cyc.bypassed => seen.trips >= MinStreak \/ "store" \in faults

(* The cap ends the bypassing: no more than StreakCap - MinStreak in a row.  *)
BypassIsBounded ==
    seen.bypasses > StreakCap - MinStreak => "store" \in faults

(* No trade is sent at an invalid price, even when a bypass of the price     *)
(* guard has lifted the skip: the guardian stands behind it.  One at a price *)
(* the market left out is sent only where the last record has none to        *)
(* compare with: the 1 that stands for it is a drawdown from any other.      *)
TradeNeedsPrice ==
    cyc.act = "trade" =>
        /\ cyc.price > 0
        /\ cyc.missing => Recent.price <= 1

(* After a cycle whose failure the reflection can read, a leg with a buy or  *)
(* the stake step, no trade is sent until the halt has run out; only a       *)
(* recovery of locked stake or a restart may come before.                    *)
FailureHaltsTrade ==
    cyc.act = "trade" /\ seen.failed # None => now - seen.failed >= HaltTTL

(* A recovery in a halted cycle has every other model of the quorum for it:  *)
(* the stake healthy, a premium and a hot utilization.                       *)
HaltedRecoveryIsUnanimous ==
    cyc.act = "recover" /\ cyc.blocked
        => cyc.stakeOk /\ cyc.active = TRUE /\ cyc.beat # "error" /\ cyc.util >= 82

(* In progressive mode a process goes live only on Threshold good stake      *)
(* steps in a row, whatever cut the cycles they began short.                 *)
LiveIsEarned ==
    [][env.gated /\ ~loop.live /\ loop'.live => seen.good >= Threshold]_vars

(* Where nothing fails, progressive mode goes live.                          *)
HealthyGoesLive == env.gated /\ env.faults = {} ~> loop.live

(* Where nothing fails, StakeMaster hears of a stake recommendation.         *)
RecommendationIsHeard == loop.rec /\ env.faults = {} ~> ~loop.rec
=============================================================================
