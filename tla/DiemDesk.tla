------------------------------ MODULE DiemDesk ------------------------------
(***************************************************************************)
(* The DIEM trading client (services/diem/client.py) and the chain actions *)
(* under it (libs/agentkit_ext/actions.py): sell from the wallet first and *)
(* mint the rest, burn from the wallet first and buy the rest, buy VVV and *)
(* stake it.  The agent that calls them is in Recovery.                    *)
(*                                                                         *)
(* `acct' is what the contracts and the wallet hold and `pool' the wallet's*)
(* transactions that are not mined, in nonce order.  A call is a few steps *)
(* long, since transactions are mined between its reads and its sends.     *)
(* Units are whole: one DIEM is minted from Rate sVVV.  DIEM staked for    *)
(* API use is left out, as when DIEM_STAKING_ADDRESS is not set, and so are *)
(* prices: a unit of anything bought costs one of USDC, and the USDC a sale *)
(* brings is not counted, so that what can be bought is bounded.            *)
(***************************************************************************)
EXTENDS Integers, Sequences, FiniteSets

CONSTANTS
    Rate,        \* sVVV locked by the mint of one DIEM
    MaxRetries,  \* DIEM_MINT_MAX_RETRIES
    Buffer,      \* STAKEMASTER_WALLET_VVV_BUFFER_UNITS
    MaxPool,     \* transactions waiting at once (a bound)
    Profiles,    \* the environments an MC module chooses from
    None         \* no plan, no pending recovery, no unstaked VVV

ASSUME DeskAssumption ==
    /\ {Rate, MaxRetries} \subseteq Nat \ {0}
    /\ {Buffer, MaxPool} \subseteq Nat
    /\ None \notin Int

VARIABLES
    env,   \* the environment, an element of Profiles
    acct,  \* contracts and wallet: free and locked sVVV, diem, vvv, usdc
    pool,  \* transactions not mined
    desk,  \* the memory of the client and of the agent
    run,   \* the decision in progress
    seen   \* history: kinds of fault, whether DIEM was bought, whether a swap
           \* was sent with other transactions unmined

deskVars == <<env, acct, pool, desk, run, seen>>

Kinds == {"mint", "sell", "burn", "buy", "swap", "stake"}

FaultKinds == {"timeout", "lost", "send", "refused", "revert", "blind", "unavailable",
               "surplus", "overflow", "crash"}

Fault(kind) ==
    /\ kind \in env.faults
    /\ seen' = [seen EXCEPT !.faults = @ \cup {kind}]

(* `look' is the DIEM of the decision's snapshot, `clean' says that nothing *)
(* was in the pool when it was taken, and `falls' that a recovery that      *)
(* fails leaves the cycle to trade.                                         *)
NoRun == [step |-> "idle", job |-> "none", mode |-> "none", look |-> 0, left |-> 0,
          use |-> 0, attempt |-> 0, older |-> 0, got |-> "none", before |-> 0,
          minted |-> 0, clean |-> FALSE, falls |-> FALSE]

Steps == {"idle", "planned", "decided", "weighed", "sale", "mint", "send", "await",
          "offer", "cover", "burn", "buy", "owed", "swap", "settle"}

NoSeen == [faults |-> {}, bought |-> FALSE, overlap |-> FALSE]

NoDesk == [latched |-> FALSE, since |-> None, mints |-> {}, plan |-> None,
           pending |-> None, owed |-> None]

LeastOf(a, b) == IF a < b THEN a ELSE b

Minus(a, b) == IF a > b THEN a - b ELSE 0

Send(kind, units) ==
    /\ Len(pool) < MaxPool
    /\ pool' = Append(pool, [kind |-> kind, units |-> units, job |-> run.job,
                             clean |-> run.clean])

Money == {"buy", "swap"}

(* What the chain does with a transaction.  One that the account does not  *)
(* cover reverts, and so may one whose price moved.                        *)
Covers(a, tx) ==
    CASE tx.kind = "mint"  -> a.free >= Rate * tx.units
      [] tx.kind = "sell"  -> a.diem >= tx.units
      [] tx.kind = "burn"  -> a.diem >= tx.units /\ a.locked >= Rate * tx.units
      [] tx.kind = "stake" -> a.vvv >= tx.units
      [] OTHER             -> a.usdc >= tx.units

Settled(a, tx) ==
    LET n == tx.units IN
    CASE tx.kind = "mint"  -> [a EXCEPT !.free = @ - Rate * n, !.locked = @ + Rate * n,
                                        !.diem = @ + n]
      [] tx.kind = "sell"  -> [a EXCEPT !.diem = @ - n]
      [] tx.kind = "burn"  -> [a EXCEPT !.free = @ + Rate * n, !.locked = @ - Rate * n,
                                        !.diem = @ - n]
      [] tx.kind = "buy"   -> [a EXCEPT !.diem = @ + n, !.usdc = @ - n]
      [] tx.kind = "swap"  -> [a EXCEPT !.vvv = @ + n, !.usdc = @ - n]
      [] OTHER             -> [a EXCEPT !.vvv = @ - n, !.free = @ + n]

(* The receipt a decision waits for is that of the newest transaction; one *)
(* of the decision's own mints that reverts minted nothing.                *)
Receipt(tx, result) ==
    run' = [run EXCEPT
        !.older = Minus(@, 1),
        !.got = IF Len(pool) = 1 /\ run.step \in {"await", "settle"} THEN result ELSE @,
        !.minted = IF tx.kind = "mint" /\ run.older = 0 /\ result = "failed"
                     THEN Minus(@, 1) ELSE @]

Mine ==
    /\ pool # <<>>
    /\ LET tx == Head(pool) IN
          \/ /\ Covers(acct, tx)
             /\ acct' = Settled(acct, tx)
             /\ Receipt(tx, "ok")
             /\ UNCHANGED seen
          \/ /\ tx.kind = "swap"
             /\ Covers(acct, tx)
             /\ Fault("surplus")
             /\ acct' = [Settled(acct, tx) EXCEPT !.vvv = @ + 1]
             /\ Receipt(tx, "ok")
          \/ /\ ~Covers(acct, tx)
             /\ Receipt(tx, "failed")
             /\ UNCHANGED <<acct, seen>>
          \/ /\ tx.kind \in Money \cup {"mint", "sell"}
             /\ Fault("revert")
             /\ Receipt(tx, "failed")
             /\ UNCHANGED acct
    /\ pool' = Tail(pool)
    /\ UNCHANGED <<env, desk>>

CountedUncapped(d) ==     \* mutant: steps_done runs past steps_total
    IF run.job = "recovery" /\ d.plan # None THEN [d EXCEPT !.plan = @ + 1] ELSE d

(* An executed step of a recovery counts in its campaign. *)
Counted(d) ==
    IF run.job = "recovery" /\ d.plan # None
      THEN [d EXCEPT !.plan = LeastOf(env.steps, @ + 1)] ELSE d

(* A decision ends, or falls through to trade after a failed recovery. *)
Over == run' = NoRun

Failed ==
    run' = IF run.falls
             THEN [NoRun EXCEPT !.step = "weighed", !.job = "trade", !.mode = run.mode,
                                !.look = run.look, !.clean = run.clean,
                                !.older = run.older]
             ELSE NoRun

Finish(executed) ==
    IF executed THEN Over /\ desk' = Counted(desk)
                ELSE Failed /\ UNCHANGED desk

Go(step) == run' = [run EXCEPT !.step = step]

-----------------------------------------------------------------------------
(* wallet_first_mint_and_sell: the wallet's DIEM as the snapshot has it is *)
(* sold first, and what it does not cover is minted whatever came of that. *)
AfterSale(r) == [r EXCEPT !.left = Minus(@, r.look)]

SellFirst ==
    /\ run.step = "sale"
    /\ LET use == LeastOf(run.look, run.left) IN
          \/ /\ use > 0
             /\ Send("sell", use)
             /\ UNCHANGED seen
          \/ /\ use > 0
             /\ Fault("refused")
             /\ UNCHANGED pool
          \/ /\ use = 0
             /\ UNCHANGED <<pool, seen>>
    /\ IF run.left > run.look
         THEN run' = [AfterSale(run) EXCEPT !.step = "mint"] /\ UNCHANGED desk
         ELSE Finish(TRUE)
    /\ UNCHANGED <<env, acct>>

(* DIEMService.mint: the locked amount counts as 0 and an unknown stake as *)
(* enough when they cannot be read.  A contract without mintDiem latches   *)
(* the client until its process ends.                                      *)
CheckMint ==
    /\ run.step = "mint"
    /\ \/ /\ ~desk.latched
          /\ acct.free >= Rate * run.left
          /\ run' = [run EXCEPT !.step = "send", !.attempt = 1]
          /\ UNCHANGED <<desk, seen>>
       \/ /\ ~desk.latched
          /\ Fault("blind")
          /\ run' = [run EXCEPT !.step = "send", !.attempt = 1]
          /\ UNCHANGED desk
       \/ /\ ~desk.latched
          /\ Fault("unavailable")
          /\ run' = NoRun
          /\ desk' = [desk EXCEPT !.latched = TRUE]
       \/ /\ desk.latched \/ acct.free < Rate * run.left
          /\ Finish(FALSE)
          /\ UNCHANGED seen
    /\ UNCHANGED <<env, acct, pool>>

Retried(r) ==
    IF r.attempt < MaxRetries THEN [r EXCEPT !.step = "send", !.attempt = @ + 1]
                              ELSE NoRun

(* The mint loop of actions.py sends the transaction afresh on every       *)
(* attempt; a send may raise although the node has the transaction.        *)
SendMint ==
    /\ run.step = "send"
    /\ \/ /\ Send("mint", run.left)
          /\ run' = [run EXCEPT !.step = "await", !.got = "none", !.minted = @ + 1]
          /\ UNCHANGED seen
       \/ /\ Fault("send")
          /\ run' = Retried(run)
          /\ UNCHANGED pool
       \/ /\ Fault("lost")
          /\ Send("mint", run.left)
          /\ run' = Retried([run EXCEPT !.minted = @ + 1])
    /\ UNCHANGED <<env, acct, desk>>

AnsweredAgain(r) == Retried(r)     \* mutant: a confirmed mint is sent again

(* wait_for_tx_confirmation *)
Answered(r) ==
    IF r.got = "ok" THEN [r EXCEPT !.step = "offer"] ELSE Retried(r)

AwaitMint ==
    /\ run.step = "await"
    /\ \/ /\ run.got # "none"
          /\ run' = Answered(run)
          /\ UNCHANGED seen
       \/ /\ Fault("timeout")
          /\ run' = Retried(run)
    /\ UNCHANGED <<env, acct, pool, desk>>

OfferedFromSnapshot(r) == LeastOf(r.left, r.look)     \* mutant: clamped to the snapshot

(* mint_and_sell_diem sells what it minted. *)
Offered(r) == r.left

OfferMinted ==
    /\ run.step = "offer"
    /\ \/ /\ IF Offered(run) > 0 THEN Send("sell", Offered(run)) ELSE UNCHANGED pool
          /\ Finish(TRUE)
          /\ UNCHANGED seen
       \/ /\ Fault("refused")
          /\ Finish(FALSE)
          /\ UNCHANGED pool
    /\ UNCHANGED <<env, acct>>

-----------------------------------------------------------------------------
BurnableByBalance(a, n) == a.diem >= n     \* mutant: locked sVVV not asked for

(* can_burn_diem: the DIEM is there and the locked sVVV that its burn      *)
(* unlocks too, or else how much of it the locked sVVV allows.             *)
Burnable(a, n) == a.diem >= n /\ a.locked >= Rate * n

BurnPart(a, n) ==
    IF Burnable(a, n) THEN n
    ELSE IF a.diem >= n THEN a.locked \div Rate
    ELSE 0

(* wallet_first_buy_and_burn: DIEM in the snapshot that cannot be burned   *)
(* at all ends the call, none in the snapshot goes straight to the buy.    *)
CoverBurn ==
    /\ run.step = "cover"
    /\ LET use == LeastOf(run.look, run.left) IN
          \/ /\ use = 0
             /\ Go("buy")
             /\ UNCHANGED <<desk, seen>>
          \/ /\ use > 0 /\ BurnPart(acct, use) > 0
             /\ run' = [run EXCEPT !.step = "burn", !.use = BurnPart(acct, use)]
             /\ UNCHANGED <<desk, seen>>
          \/ /\ use > 0 /\ BurnPart(acct, use) = 0
             /\ Finish(FALSE)
             /\ UNCHANGED seen
          \/ /\ use > 0
             /\ Fault("blind")
             /\ Finish(FALSE)
    /\ UNCHANGED <<env, acct, pool>>

(* DIEMService.burn checks again and actions.burn has the node try the     *)
(* call before it sends.  What was to be burned is taken off whatever came *)
(* of it, and the outcome of a buy that follows hides it.                  *)
BurnWallet ==
    /\ run.step = "burn"
    /\ LET left == run.left - run.use IN
          \/ /\ Burnable(acct, run.use)
             /\ Send("burn", run.use)
             /\ IF left > 0 THEN /\ run' = [run EXCEPT !.step = "buy", !.left = left]
                                 /\ UNCHANGED desk
                            ELSE Finish(TRUE)
             /\ UNCHANGED seen
          \/ /\ \/ ~Burnable(acct, run.use) /\ UNCHANGED seen
                \/ Fault("send")
             /\ IF left > 0 THEN /\ run' = [run EXCEPT !.step = "buy", !.left = left]
                                 /\ UNCHANGED desk
                            ELSE Finish(FALSE)
             /\ UNCHANGED pool
    /\ UNCHANGED <<env, acct>>

(* The bought DIEM is burned by a later decision (DIEM_DEFER_POST_BUY_BURN).*)
BuyRest ==
    /\ run.step = "buy"
    /\ \/ /\ acct.usdc >= run.left
          /\ Send("buy", run.left)
          /\ seen' = [seen EXCEPT !.bought = TRUE]
          /\ Finish(TRUE)
       \/ /\ \/ acct.usdc < run.left /\ UNCHANGED seen
             \/ Fault("refused")
          /\ Finish(FALSE)
          /\ UNCHANGED pool
    /\ UNCHANGED <<env, acct>>

-----------------------------------------------------------------------------
(* _execute_capacity_recovery_buy_vvv_and_stake.  IdleStakeLimits.apply    *)
(* keeps a buffer in the wallet.                                           *)
Stakeable(n) == LeastOf(n, Minus(acct.vvv, Buffer))

(* approve and stake n: when the stake fails, or the approval of a first   *)
(* try, the VVV of the wallet is noted in `owed'.  A stake found too large *)
(* is cut down, and what is cut off is not noted.                          *)
NotedNever(d) == d     \* mutant: a failed stake leaves no note

Noted(d) == [d EXCEPT !.owed = acct.vvv]

StakeVVV(n) ==
    /\ n > 0
    /\ \/ /\ Send("stake", n)
          /\ desk' = Counted([desk EXCEPT !.owed = None])
          /\ Over
          /\ UNCHANGED seen
       \/ /\ Fault("overflow")
          /\ \E k \in 1 .. n - 1 : Send("stake", k)
          /\ desk' = Counted([desk EXCEPT !.owed = None])
          /\ Over
       \/ /\ Fault("send")
          /\ desk' = Noted(desk)
          /\ Failed
          /\ UNCHANGED pool

(* VVV still owed to an earlier step is staked before any more is bought;  *)
(* when the wallet has none to stake the note is dropped.                  *)
StakeOwed ==
    /\ run.step = "owed"
    /\ \/ StakeVVV(Stakeable(desk.owed))
       \/ /\ Fault("send")
          /\ Failed
          /\ UNCHANGED <<pool, desk>>
       \/ /\ Stakeable(desk.owed) = 0
          /\ desk' = [desk EXCEPT !.owed = None]
          /\ Failed
          /\ UNCHANGED <<pool, seen>>
    /\ UNCHANGED <<env, acct>>

SwapForVVV ==
    /\ run.step = "swap"
    /\ \/ /\ acct.usdc >= run.left
          /\ Send("swap", run.left)
          /\ run' = [run EXCEPT !.step = "settle", !.got = "none", !.before = acct.vvv]
          /\ seen' = [seen EXCEPT !.overlap = @ \/ pool # <<>>]
          /\ UNCHANGED desk
       \/ /\ \/ acct.usdc < run.left /\ UNCHANGED seen
             \/ Fault("refused")
          /\ Finish(FALSE)
          /\ UNCHANGED pool
    /\ UNCHANGED <<env, acct>>

(* The wait for the swap may end with nothing known, and a revert is not   *)
(* looked at: what came into the wallet is staked, or else what the quote  *)
(* promised.  With nothing to stake the call raises and notes nothing.     *)
Received(r) == Minus(acct.vvv, r.before)

ToStake(r) == Stakeable(IF Received(r) > 0 THEN LeastOf(Received(r), r.left) ELSE r.left)

StakeSwapped ==
    /\ run.step = "settle"
    /\ run.got # "none"
    /\ \/ StakeVVV(ToStake(run))
       \/ /\ ToStake(run) = 0
          /\ run' = NoRun
          /\ UNCHANGED <<pool, desk, seen>>
    /\ UNCHANGED <<env, acct>>

SwapTimesOut ==
    /\ run.step = "settle"
    /\ Fault("timeout")
    /\ run' = [run EXCEPT !.got = "unknown"]
    /\ UNCHANGED <<env, acct, pool, desk>>

Client ==
    \/ SellFirst \/ CheckMint \/ SendMint \/ AwaitMint \/ OfferMinted
    \/ CoverBurn \/ BurnWallet \/ BuyRest
    \/ StakeOwed \/ SwapForVVV \/ StakeSwapped \/ SwapTimesOut
=============================================================================
