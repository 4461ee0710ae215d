---------------------------- MODULE RecoveryProofs ----------------------------
(* What the desk and its campaign keep, for every ratio, number of steps,    *)
(* rate and environment.                                                     *)
EXTENDS Recovery, TLAPS, SequenceTheorems, FiniteSetTheorems

AcctType == [free : Nat, locked : Nat, diem : Nat, vvv : Nat, usdc : Nat]

TxType == [kind : Kinds, units : Nat \ {0}, job : {"trade", "recovery"}, clean : BOOLEAN]

DeskType == [latched : BOOLEAN, since : {None} \cup 0 .. MinInterval,
             mints : SUBSET (0 .. Hour), plan : {None} \cup 0 .. env.steps,
             pending : {None} \cup [option : Option, look : Nat, clean : BOOLEAN],
             owed : {None} \cup (Nat \ {0})]

RunType == [step : Steps, job : {"none", "trade", "recovery"}, mode : Modes \cup {"none"},
            look : Nat, left : Nat, use : Nat, attempt : 0 .. MaxRetries,
            older : 0 .. MaxPool, got : {"none", "ok", "failed", "unknown"},
            before : Nat, minted : Nat, clean : BOOLEAN, falls : BOOLEAN]

SeenType == [faults : SUBSET FaultKinds, bought : BOOLEAN, overlap : BOOLEAN]

(* The steps of a decision that have an amount still to do. *)
Working == {"sale", "mint", "send", "await", "offer", "cover", "burn", "buy", "swap", "settle"}

(* What a step finds of its amounts when it begins. *)
Sized ==
    /\ run.step \in Working => run.left > 0
    /\ run.step = "burn" => run.use > 0 /\ run.use <= run.left
    /\ run.step = "owed" => desk.owed # None
    /\ run.step \notin {"idle", "planned"} => run.job # "none"
    /\ run.step \in {"decided", "weighed"} => run.job = "trade"

Typed == TypeOK /\ Sized

Doubt == seen.faults \cap {"timeout", "lost"} # {}

(* Before an attempt to mint nothing of the decision is minted, and the      *)
(* receipt it then waits for is that of its own mint, the newest in the pool.*)
MintsCounted ==
    /\ run.older <= Len(pool)
    /\ ~Doubt =>
        /\ run.minted <= 1
        /\ run.step \notin {"await", "offer"} => run.minted = 0
        /\ run.step = "await" =>
              \/ run.got = "none" /\ pool # <<>> /\ pool[Len(pool)].kind = "mint"
                    /\ run.older < Len(pool)
              \/ run.got = "ok" /\ pool = <<>>
              \/ run.got = "failed" /\ pool = <<>> /\ run.minted = 0

OnlySwaps == \A i \in DOMAIN pool : pool[i].kind = "swap"

(* A burn of n the wallet and the locked sVVV cover, and that stops at the   *)
(* target but for the rounding.                                              *)
Fits(a, n) ==
    /\ Burnable(a, n)
    /\ a.locked + Rate > MaxLocked(a, Target) + Rate * n

CampaignBurn(tx) == tx.kind = "burn" /\ tx.job = "recovery" /\ tx.clean

(* From its sizing to its mining nothing but swaps comes before a burn of a  *)
(* campaign that began with nothing in the air, and a swap leaves DIEM and   *)
(* sVVV alone.                                                               *)
RunKept ==
    /\ run.step = "planned" /\ desk.pending # None /\ desk.pending.clean =>
          /\ pool = <<>>
          /\ desk.pending.look = acct.diem
          /\ desk.pending.option.kind = "burn" => Fits(acct, desk.pending.option.units)
    /\ run.clean /\ run.step \in {"decided", "weighed"} =>
          OnlySwaps /\ run.look = acct.diem
    /\ run.clean /\ run.job = "recovery" /\ run.step # "idle" =>
          /\ OnlySwaps /\ run.look = acct.diem
          /\ run.step \in {"cover", "burn"} => Fits(acct, run.left)
          /\ run.step = "burn" => run.use = run.left
          /\ run.step \notin {"buy", "sale", "mint", "send", "await", "offer"}
    /\ run.falls => run.job = "recovery" /\ run.step # "planned"

PoolFits ==
    \A i \in DOMAIN pool : CampaignBurn(pool[i]) =>
       /\ Fits(acct, pool[i].units)
       /\ \A j \in 1 .. i - 1 : pool[j].kind = "swap"

CampaignKept == RunKept /\ PoolFits

-----------------------------------------------------------------------------
(* Division by a positive number rounds down. *)
LEMMA Division == \A a \in Int : \A b \in Nat \ {0} :
    a \div b \in Int /\ (a \div b) * b <= a /\ a < (a \div b) * b + b
  BY SMT

(* Division rounded up. *)
LEMMA DivisionUp ==
    ASSUME NEW a \in Nat, NEW b \in Nat \ {0}
    PROVE CeilDiv(a, b) \in Int /\ CeilDiv(a, b) * b < a + b
<1> DEFINE q == (a + b - 1) \div b
<1>1. a + b - 1 \in Int
  OBVIOUS
<1>2. q \in Int /\ q * b <= a + b - 1
  BY <1>1, Division
<1> QED BY <1>2, SMT DEF CeilDiv

(* Spread over steps, a part is no more than the whole. *)
LEMMA PartOfWhole ==
    ASSUME NEW e \in Nat \ {0}, NEW s \in Nat \ {0}
    PROVE CeilDiv(e, s) \in 1 .. e
<1> DEFINE q == (e + s - 1) \div s
<1>1. e + s - 1 \in Int
  OBVIOUS
<1>2. q \in Int /\ q * s <= e + s - 1 /\ e + s - 1 < q * s + s
  BY <1>1, Division
<1>3. q >= 1
  <2>1. SUFFICES ASSUME q <= 0 PROVE FALSE
    BY <1>2
  <2>2. q * s <= 0
    BY <2>1, <1>2, SMT
  <2> QED BY <2>2, <1>2
<1>4. q <= e
  <2>1. SUFFICES ASSUME q >= e + 1 PROVE FALSE
    BY <1>2
  <2>2. q * s >= (e + 1) * s
    BY <2>1, <1>2, SMT
  <2>3. (e + 1) * s = e * s + s
    BY SMT
  <2>4. e * s >= e
    BY SMT
  <2> QED BY <2>2, <2>3, <2>4, <1>2, SMT
<1> QED BY <1>2, <1>3, <1>4 DEF CeilDiv

(* The two roundings up of a step's burn unlock less than one DIEM too much. *)
LEMMA UnlockStops ==
    ASSUME NEW e \in Nat \ {0}, NEW s \in Nat \ {0}, NEW n \in Nat, NEW r \in Nat \ {0},
           n <= CeilDiv(CeilDiv(e, s), r)
    PROVE r * n < e + r
<1> DEFINE c == CeilDiv(e, s)
           d == CeilDiv(c, r)
<1>1. c \in 1 .. e
  BY PartOfWhole
<1>2. c \in Nat
  BY <1>1
<1>3. d \in Int /\ d * r < c + r
  BY <1>2, DivisionUp
<1>4. r * n <= d * r
  BY <1>3, SMT
<1> QED BY <1>1, <1>3, <1>4, SMT

-----------------------------------------------------------------------------
(* What a profile is made of. *)
LEMMA Profile ==
    ASSUME Typed
    PROVE /\ env.steps \in Nat \ {0}
          /\ env.modes \subseteq Modes /\ env.wants \subseteq Nat
          /\ env.faults \subseteq FaultKinds
          /\ env.chain \in AcctType
  BY RecoveryProfileAssumption DEF Typed, TypeOK, AcctType

(* A share of the total is a number, and no less for a larger share. *)
LEMMA LockedShare ==
    ASSUME NEW a \in AcctType, NEW share \in Nat
    PROVE MaxLocked(a, share) \in Int
<1>1. Total(a) \in Nat
  BY DEF Total, AcctType
<1>2. Total(a) * share \in Int
  BY <1>1, SMT
<1> QED BY <1>2, Division, RecoveryAssumption, SMT DEF MaxLocked

(* What is offered is a burn or a stake of at least one unit. *)
LEMMA OptionsTyped ==
    ASSUME Typed, NEW plan, NEW stakeOnly, NEW choice \in Offers(plan, stakeOnly)
    PROVE choice \in Option \cup {None}
  BY DEF Offers, Options, StakeSteps, BurnSteps, Step, Option

(* A campaign replanned is within its steps. *)
LEMMA PlanTyped ==
    ASSUME Typed
    PROVE Replanned(desk.plan, acct) \in {None} \cup 0 .. env.steps
  BY Profile DEF Typed, TypeOK, Replanned

(* A transaction sent is one more in the pool. *)
LEMMA SendTyped ==
    ASSUME pool \in Seq(TxType), Len(pool) < MaxPool, NEW tx \in TxType,
           pool' = Append(pool, tx)
    PROVE pool' \in Seq(TxType) /\ Len(pool') <= MaxPool
  BY DeskAssumption

(* The mints of the last hour grow by one, or age, or are forgotten. *)
LEMMA MintsBounded ==
    ASSUME Typed
    PROVE /\ Aged(desk).mints \in SUBSET (0 .. Hour) /\ Cardinality(Aged(desk).mints) <= MaxMints
          /\ \A action \in {"mint", "recovery"} : MayAct(action) =>
                /\ Recorded(desk, action).mints \in SUBSET (0 .. Hour)
                /\ Cardinality(Recorded(desk, action).mints) <= MaxMints
<1> DEFINE m == desk.mints
           older == {age + 1 : age \in m}
<1>1. m \in SUBSET (0 .. Hour) /\ Cardinality(m) <= MaxMints
  BY DEF Typed, TypeOK
<1>2. IsFiniteSet(m)
  <2>1. Hour \in Int
    BY RecoveryAssumption
  <2>2. IsFiniteSet(0 .. Hour)
    BY <2>1, FS_Interval
  <2> QED BY <1>1, <2>2, FS_Subset
<1>3. IsFiniteSet(older) /\ Cardinality(older) <= Cardinality(m)
  <2> DEFINE f == [age \in m |-> age + 1]
  <2>1. f \in Surjection(m, older)
    BY DEF Surjection
  <2> QED BY <1>2, <2>1, FS_Surjection
<1>4. IsFiniteSet(older \cap (0 .. Hour)) /\ Cardinality(older \cap (0 .. Hour)) <= Cardinality(older)
  BY <1>3, FS_Subset
<1>5. Cardinality(m) \in Nat /\ Cardinality(older) \in Nat /\ Cardinality(older \cap (0 .. Hour)) \in Nat
  BY <1>2, <1>3, <1>4, FS_CardinalityType
<1>6. Aged(desk).mints = older \cap (0 .. Hour)
  BY DEF Aged, Typed, TypeOK
<1>7. ASSUME Cardinality(m) < MaxMints
      PROVE Cardinality(m \cup {0}) <= MaxMints
  <2>1. IsFiniteSet(m \cup {0})
           /\ Cardinality(m \cup {0}) = IF 0 \in m THEN Cardinality(m) ELSE Cardinality(m) + 1
    BY <1>2, FS_AddElement
  <2> QED BY <2>1, <1>5, <1>7, RecoveryAssumption
<1>8. ASSUME NEW action \in {"mint", "recovery"}, MayAct(action)
      PROVE /\ Recorded(desk, action).mints \in SUBSET (0 .. Hour)
            /\ Cardinality(Recorded(desk, action).mints) <= MaxMints
  <2>1. Recorded(desk, action).mints = IF action = "mint" THEN m \cup {0} ELSE m
    BY DEF Recorded, Typed, TypeOK
  <2>2. action = "mint" => Cardinality(m) < MaxMints
    BY <1>8 DEF MayAct
  <2> QED BY <2>1, <2>2, <1>1, <1>7, RecoveryAssumption
<1> QED BY <1>1, <1>3, <1>4, <1>5, <1>6, <1>8, RecoveryAssumption

-----------------------------------------------------------------------------
(* Every step keeps the types and the amounts. *)

(* The parts of the state typed apart. *)
LEMMA Together ==
    ASSUME env' \in Profiles, acct' \in AcctType,
           pool' \in Seq(TxType), Len(pool') <= MaxPool,
           desk' \in DeskType, UNCHANGED env, Cardinality(desk'.mints) <= MaxMints,
           run' \in RunType, seen' \in SeenType
    PROVE TypeOK'
  BY DEF TypeOK, AcctType, TxType, DeskType, RunType, SeenType

(* And what of it a step leaves alone. *)
LEMMA Apart ==
    ASSUME Typed
    PROVE /\ env \in Profiles /\ acct \in AcctType /\ pool \in Seq(TxType)
          /\ Len(pool) <= MaxPool /\ desk \in DeskType
          /\ Cardinality(desk.mints) <= MaxMints /\ run \in RunType /\ seen \in SeenType
  BY DEF Typed, TypeOK, AcctType, TxType, DeskType, RunType, SeenType

(* The steps by name. *)
LEMMA StepNames == {"idle", "planned", "decided", "weighed", "sale", "mint", "send", "await",
                    "offer", "cover", "burn", "buy", "owed", "swap", "settle"} = Steps
  BY DEF Steps

(* With nothing in progress the types hold. *)
LEMMA NoRunTyped == NoRun \in RunType /\ NoRun.step = "idle"
  BY DeskAssumption DEF NoRun, RunType, Steps

(* A decision that ends, or falls through to trade. *)
LEMMA FailedTyped ==
    ASSUME Typed, run.step \notin {"idle", "planned"}, Failed
    PROVE /\ run' \in RunType
          /\ run'.step \in {"idle", "weighed"}
          /\ run'.step # "idle" => run'.job = "trade"
<1>1. run \in RunType
  BY Apart
<1>2. CASE run.falls
  BY <1>1, <1>2, NoRunTyped DEF Failed, RunType, Steps
<1>3. CASE ~run.falls
  BY <1>3, NoRunTyped DEF Failed
<1> QED BY <1>2, <1>3

(* A decision that ends by a call that was made or not. *)
LEMMA FinishTyped ==
    ASSUME Typed, run.step \notin {"idle", "planned"}, NEW executed \in BOOLEAN, Finish(executed)
    PROVE /\ run' \in RunType /\ desk' \in DeskType
          /\ desk'.mints = desk.mints /\ desk'.owed = desk.owed
          /\ desk'.pending = desk.pending
          /\ run'.step \in {"idle", "weighed"}
          /\ run'.step # "idle" => run'.job = "trade"
<1>1. CASE executed
  <2>1. run' = NoRun /\ desk' = Counted(desk)
    BY <1>1 DEF Finish, Over
  <2>2. desk.plan # None => LeastOf(env.steps, desk.plan + 1) \in 0 .. env.steps
    BY Profile, Apart DEF LeastOf, DeskType
  <2>3. Counted(desk) \in DeskType /\ Counted(desk).mints = desk.mints
          /\ Counted(desk).owed = desk.owed /\ Counted(desk).pending = desk.pending
    BY <2>2, Apart DEF Counted, DeskType
  <2> QED BY <2>1, <2>3, NoRunTyped
<1>2. CASE ~executed
  BY <1>2, FailedTyped, Apart DEF Finish
<1> QED BY <1>1, <1>2

(* A fault is added to those seen. *)
LEMMA FaultTyped ==
    ASSUME Typed, NEW kind, Fault(kind)
    PROVE /\ seen' \in SeenType
          /\ seen'.faults = seen.faults \cup {kind}
          /\ seen'.bought = seen.bought /\ seen'.overlap = seen.overlap
  BY Profile DEF Fault, Typed, TypeOK, SeenType

(* What is sent joins the pool. *)
LEMMA Sent ==
    ASSUME Typed, run.job # "none", NEW kind \in Kinds, NEW units \in Nat \ {0},
           Send(kind, units)
    PROVE pool' \in Seq(TxType) /\ Len(pool') <= MaxPool
<1> DEFINE tx == [kind |-> kind, units |-> units, job |-> run.job, clean |-> run.clean]
<1>1. tx \in TxType
  BY Apart DEF TxType, RunType
<1> QED BY <1>1, Apart, SendTyped DEF Send

(* An attempt that is tried again, or the end. *)
LEMMA RetriedTyped ==
    ASSUME NEW r \in RunType
    PROVE /\ Retried(r) \in RunType
          /\ \/ Retried(r).step = "idle" /\ Retried(r).minted = 0
             \/ /\ Retried(r).step = "send" /\ Retried(r).left = r.left
                /\ Retried(r).job = r.job /\ Retried(r).minted = r.minted
<1>1. CASE r.attempt < MaxRetries
  <2>1. r.attempt + 1 \in 0 .. MaxRetries /\ "send" \in Steps
    BY <1>1, DeskAssumption DEF RunType, Steps
  <2>2. Retried(r) = [r EXCEPT !.step = "send", !.attempt = @ + 1]
    BY <1>1 DEF Retried
  <2>3. Retried(r) \in RunType
    BY <2>1, <2>2 DEF RunType
  <2> QED BY <2>2, <2>3 DEF RunType
<1>2. CASE ~(r.attempt < MaxRetries)
  BY <1>2, NoRunTyped DEF Retried, NoRun
<1> QED BY <1>1, <1>2

(* How a step may leave the decision: over, or on to trade. *)
Ended == run'.step \in {"idle", "weighed"} /\ (run'.step # "idle" => run'.job = "trade")

(* Or further on with something left to do. *)
GoesOn(steps) == run'.step \in steps /\ run'.left > 0 /\ run'.job # "none"

DeskKept == desk' \in DeskType /\ Cardinality(desk'.mints) <= MaxMints

PoolKept == pool' \in Seq(TxType) /\ Len(pool') <= MaxPool

(* What a step of the client owes. *)
LEMMA StepTyped ==
    ASSUME Typed, UNCHANGED <<env, acct>>, PoolKept, DeskKept,
           seen' \in SeenType, run' \in RunType,
           \/ Ended
           \/ GoesOn(Working \ {"burn"})
           \/ GoesOn({"burn"}) /\ run'.use > 0 /\ run'.use <= run'.left
           \/ run'.step = "planned"
           \/ run'.step = "decided" /\ run'.job = "trade"
           \/ run'.step = "owed" /\ run'.job # "none" /\ desk'.owed # None
    PROVE Typed'
<1>1. TypeOK'
  BY Apart, Together DEF PoolKept, DeskKept
<1>2. Sized'
  BY DEF Sized, Working, Ended, GoesOn
<1> QED BY <1>1, <1>2 DEF Typed

(* The end of a call, as StepTyped asks for it. *)
LEMMA FinishEnds ==
    ASSUME Typed, run.step \notin {"idle", "planned"}, NEW executed \in BOOLEAN, Finish(executed)
    PROVE DeskKept /\ run' \in RunType /\ Ended
  BY FinishTyped, Apart DEF DeskKept, Ended

(* A recovery that fails ends, or goes on to trade. *)
LEMMA FailedEnds ==
    ASSUME Typed, run.step \notin {"idle", "planned"}, Failed
    PROVE run' \in RunType /\ Ended
  BY FailedTyped DEF Ended

(* A decision that is over has ended. *)
LEMMA OverEnds == ASSUME Over PROVE run' \in RunType /\ Ended
  BY NoRunTyped DEF Over, Ended

(* What is not touched keeps its type. *)
LEMMA Untouched ==
    ASSUME Typed
    PROVE /\ UNCHANGED desk => DeskKept
          /\ UNCHANGED pool => PoolKept
          /\ UNCHANGED seen => seen' \in SeenType
          /\ \A kind : Fault(kind) => seen' \in SeenType
  BY Apart, FaultTyped DEF DeskKept, PoolKept

(* Within a call the job is known and the amounts are numbers. *)
LEMMA Amounts ==
    ASSUME Typed, run.step \notin {"idle", "planned"}
    PROVE /\ run.job # "none" /\ run.look \in Nat /\ run.left \in Nat /\ run.use \in Nat
          /\ run.before \in Nat /\ run.minted \in Nat
          /\ run.step \in Working => run.left > 0
          /\ run.step = "burn" => run.use > 0 /\ run.use <= run.left
          /\ run.step = "owed" => desk.owed # None
          /\ acct.free \in Nat /\ acct.locked \in Nat /\ acct.diem \in Nat
          /\ acct.vvv \in Nat /\ acct.usdc \in Nat
  BY Apart DEF Typed, Sized, RunType, AcctType

(* The kinds of transaction by name. *)
LEMMA KindNames == {"mint", "sell", "burn", "buy", "swap", "stake"} = Kinds
  BY DEF Kinds

(* Each step of the client keeps the types and the amounts. *)
LEMMA SellFirstTyped ==
    ASSUME Typed, SellFirst
    PROVE Typed'
<1> DEFINE use == LeastOf(run.look, run.left)
<1>1. run.step = "sale" /\ UNCHANGED <<env, acct>>
  BY DEF SellFirst
<1>2. run.left > 0 /\ use \in Nat
  BY <1>1, Amounts DEF Working, LeastOf
<1>3. PoolKept /\ seen' \in SeenType
  <2>1. ASSUME use > 0, Send("sell", use) PROVE PoolKept
    <3>1. "sell" \in Kinds /\ use \in Nat \ {0} /\ run.job # "none"
      BY <2>1, <1>1, <1>2, Amounts, KindNames
    <3> HIDE DEF use
    <3> QED BY <3>1, <2>1, Sent DEF PoolKept
  <2> QED BY <2>1, Untouched DEF SellFirst
<1>4. CASE run.left > run.look
  <2>1. run' = [AfterSale(run) EXCEPT !.step = "mint"] /\ UNCHANGED desk
    BY <1>4 DEF SellFirst
  <2>2. Minus(run.left, run.look) \in Nat \ {0}
    BY <1>1, <1>4, Amounts DEF Minus
  <2>3. run' \in RunType
    BY <2>1, <2>2, Apart, StepNames DEF AfterSale, RunType
  <2>4. GoesOn({"mint"})
    BY <1>1, <2>1, <2>2, Amounts, Apart DEF AfterSale, RunType, GoesOn
  <2>5. GoesOn(Working \ {"burn"})
    BY <2>4 DEF GoesOn, Working
  <2> QED BY <1>1, <1>3, <2>1, <2>3, <2>5, StepTyped, Untouched
<1>5. CASE ~(run.left > run.look)
  BY <1>1, <1>3, <1>5, FinishEnds, StepTyped DEF SellFirst
<1> QED BY <1>4, <1>5

(* The check before a mint keeps them: it sends, latches or gives up. *)
LEMMA CheckMintTyped ==
    ASSUME Typed, CheckMint
    PROVE Typed'
<1>1. run.step = "mint" /\ UNCHANGED <<env, acct, pool>> /\ run.left > 0 /\ run.job # "none"
  BY Amounts DEF CheckMint, Working
<1>2. PoolKept /\ seen' \in SeenType
  BY <1>1, Untouched DEF CheckMint
<1>3. CASE run' = [run EXCEPT !.step = "send", !.attempt = 1] /\ UNCHANGED desk
  <2>1. "send" \in Steps /\ 1 \in 0 .. MaxRetries
    BY DeskAssumption, StepNames
  <2>2. run' \in RunType
    BY <1>3, <2>1, Apart DEF RunType
  <2>3. GoesOn({"send"})
    BY <1>1, <1>3, Apart DEF RunType, GoesOn
  <2>4. GoesOn(Working \ {"burn"})
    BY <2>3 DEF GoesOn, Working
  <2> QED BY <1>1, <1>2, <1>3, <2>2, <2>4, StepTyped, Untouched
<1>4. CASE run' = NoRun /\ desk' = [desk EXCEPT !.latched = TRUE]
  <2>1. DeskKept
    BY <1>4, Apart DEF DeskType, DeskKept
  <2> QED BY <1>1, <1>2, <1>4, <2>1, OverEnds, StepTyped DEF Over
<1>5. CASE Finish(FALSE)
  BY <1>1, <1>2, <1>5, FinishEnds, StepTyped
<1> QED BY <1>3, <1>4, <1>5 DEF CheckMint

(* An attempt that is tried again, as StepTyped asks for it. *)
LEMMA RetryEnds ==
    ASSUME NEW r \in RunType, r.left > 0, r.job # "none", run' = Retried(r)
    PROVE run' \in RunType /\ (Ended \/ GoesOn(Working \ {"burn"}))
  BY RetriedTyped DEF Ended, GoesOn, Working

(* A mint is sent while something is left to mint. *)
LEMMA SendMintTyped ==
    ASSUME Typed, SendMint
    PROVE Typed'
<1>1. run.step = "send" /\ UNCHANGED <<env, acct, desk>> /\ run.left \in Nat \ {0}
         /\ run.job # "none" /\ run.minted \in Nat /\ run \in RunType
  BY Amounts, Apart DEF SendMint, Working
<1>2. Send("mint", run.left) => PoolKept
  BY <1>1, Sent, KindNames DEF PoolKept
<1>3. PoolKept /\ seen' \in SeenType /\ DeskKept
  BY <1>1, <1>2, Untouched DEF SendMint
<1>4. CASE run' = [run EXCEPT !.step = "await", !.got = "none", !.minted = @ + 1]
  <2>0. run.minted + 1 \in Nat /\ "await" \in Steps
    BY <1>1, StepNames
  <2>1. run' \in RunType
    BY <1>1, <1>4, <2>0 DEF RunType
  <2>2. GoesOn({"await"})
    BY <1>1, <1>4 DEF RunType, GoesOn
  <2>3. GoesOn(Working \ {"burn"})
    BY <2>2 DEF GoesOn, Working
  <2> QED BY <1>1, <1>3, <2>1, <2>3, StepTyped
<1>5. CASE run' = Retried(run)
  BY <1>1, <1>3, <1>5, RetryEnds, StepTyped
<1>6. CASE run' = Retried([run EXCEPT !.minted = @ + 1])
  <2> DEFINE r == [run EXCEPT !.minted = @ + 1]
  <2>1. r \in RunType /\ r.left > 0 /\ r.job # "none"
    BY <1>1 DEF RunType
  <2> HIDE DEF r
  <2>2. run' = Retried(r)
    BY <1>6 DEF r
  <2> QED BY <1>1, <1>3, <2>1, <2>2, RetryEnds, StepTyped
<1> QED BY <1>4, <1>5, <1>6 DEF SendMint

(* A mint that is confirmed is offered, any other is tried again. *)
LEMMA AwaitMintTyped ==
    ASSUME Typed, AwaitMint
    PROVE Typed'
<1>1. run.step = "await" /\ UNCHANGED <<env, acct, pool, desk>> /\ run.left > 0
         /\ run.job # "none" /\ run \in RunType
  BY Amounts, Apart DEF AwaitMint, Working
<1>2. PoolKept /\ seen' \in SeenType /\ DeskKept
  BY <1>1, Untouched DEF AwaitMint
<1>3. CASE run' = [run EXCEPT !.step = "offer"]
  <2>1. run' \in RunType
    BY <1>1, <1>3, StepNames DEF RunType
  <2>2. GoesOn({"offer"})
    BY <1>1, <1>3 DEF RunType, GoesOn
  <2>3. GoesOn(Working \ {"burn"})
    BY <2>2 DEF GoesOn, Working
  <2> QED BY <1>1, <1>2, <2>1, <2>3, StepTyped
<1>4. CASE run' = Retried(run)
  BY <1>1, <1>2, <1>4, RetryEnds, StepTyped
<1> QED BY <1>3, <1>4 DEF AwaitMint, Answered

(* What was minted is offered once. *)
LEMMA OfferMintedTyped ==
    ASSUME Typed, OfferMinted
    PROVE Typed'
<1>1. run.step = "offer" /\ UNCHANGED <<env, acct>> /\ run.left \in Nat \ {0} /\ run.job # "none"
  BY Amounts DEF OfferMinted, Working
<1>2. Send("sell", run.left) => PoolKept
  BY <1>1, Sent, KindNames DEF PoolKept
<1>3. PoolKept /\ seen' \in SeenType
  BY <1>1, <1>2, Untouched DEF OfferMinted, Offered
<1>4. \E executed \in BOOLEAN : Finish(executed)
  BY DEF OfferMinted
<1> QED BY <1>1, <1>3, <1>4, FinishEnds, StepTyped

(* What a locked amount allows is a number, and short of n where it does not *)
(* cover n.                                                                  *)
LEMMA PartOfLocked ==
    ASSUME NEW l \in Nat, NEW r \in Nat \ {0}, NEW n \in Nat
    PROVE l \div r \in Nat /\ (l < r * n => l \div r <= n)
<1> DEFINE q == l \div r
<1>1. q \in Int /\ q * r <= l /\ l < q * r + r
  BY Division
<1>2. q >= 0
  <2>1. SUFFICES ASSUME q <= -1 PROVE FALSE
    BY <1>1
  <2>2. q * r <= -r
    BY <2>1, <1>1, SMT
  <2> QED BY <2>2, <1>1
<1>3. l < r * n => q <= n
  <2>1. SUFFICES ASSUME l < r * n, q >= n + 1 PROVE FALSE
    BY <1>1
  <2>2. q * r >= (n + 1) * r
    BY <2>1, <1>1, SMT
  <2>3. (n + 1) * r = r * n + r /\ r * n \in Nat
    BY SMT
  <2> QED BY <2>1, <2>2, <2>3, <1>1, SMT
<1> QED BY <1>1, <1>2, <1>3

(* How much of a burn the locked sVVV allows. *)
LEMMA BurnPartTyped ==
    ASSUME NEW a \in AcctType, NEW n \in Nat
    PROVE BurnPart(a, n) \in Nat /\ BurnPart(a, n) <= n
<1>1. a.locked \in Nat /\ a.diem \in Nat /\ Rate \in Nat \ {0} /\ Rate * n \in Nat
  BY DeskAssumption, SMT DEF AcctType
<1> DEFINE q == a.locked \div Rate
<1>2. q \in Nat /\ (a.locked < Rate * n => q <= n)
  BY <1>1, PartOfLocked, Zenon
<1> HIDE DEF q
<1>3. ~Burnable(a, n) /\ a.diem >= n => a.locked < Rate * n
  BY <1>1 DEF Burnable
<1>4. BurnPart(a, n) = IF Burnable(a, n) THEN n ELSE IF a.diem >= n THEN q ELSE 0
  BY DEF BurnPart, q
<1> QED BY <1>2, <1>3, <1>4

(* The part burned from the wallet is no more than is left to do. *)
LEMMA CoverBurnTyped ==
    ASSUME Typed, CoverBurn
    PROVE Typed'
<1> DEFINE use == LeastOf(run.look, run.left)
<1>1. run.step = "cover" /\ UNCHANGED <<env, acct, pool>> /\ run.left \in Nat \ {0}
         /\ run.job # "none" /\ run \in RunType /\ use \in Nat /\ use <= run.left
  BY Amounts, Apart DEF CoverBurn, Working, LeastOf
<1>2. PoolKept /\ seen' \in SeenType
  BY <1>1, Untouched DEF CoverBurn
<1>3. CASE Go("buy") /\ UNCHANGED desk
  <2>1. run' \in RunType
    BY <1>1, <1>3, StepNames DEF RunType, Go
  <2>2. GoesOn({"buy"})
    BY <1>1, <1>3 DEF RunType, GoesOn, Go
  <2>3. GoesOn(Working \ {"burn"})
    BY <2>2 DEF GoesOn, Working
  <2> QED BY <1>1, <1>2, <1>3, <2>1, <2>3, StepTyped, Untouched
<1>4. CASE /\ use > 0 /\ BurnPart(acct, use) > 0
           /\ run' = [run EXCEPT !.step = "burn", !.use = BurnPart(acct, use)]
           /\ UNCHANGED desk
  <2>1. BurnPart(acct, use) \in Nat /\ BurnPart(acct, use) <= run.left
    BY <1>1, BurnPartTyped, Apart
  <2>2. run' \in RunType
    BY <1>1, <1>4, <2>1, StepNames DEF RunType
  <2>3. GoesOn({"burn"}) /\ run'.use > 0 /\ run'.use <= run'.left
    BY <1>1, <1>4, <2>1 DEF RunType, GoesOn
  <2> QED BY <1>1, <1>2, <1>4, <2>2, <2>3, StepTyped, Untouched
<1>5. CASE Finish(FALSE)
  BY <1>1, <1>2, <1>5, FinishEnds, StepTyped
<1> QED BY <1>3, <1>4, <1>5 DEF CoverBurn

(* What the burn leaves over is bought. *)
LEMMA BurnWalletTyped ==
    ASSUME Typed, BurnWallet
    PROVE Typed'
<1> DEFINE left == run.left - run.use
<1>1. run.step = "burn" /\ UNCHANGED <<env, acct>> /\ run.use \in Nat \ {0}
         /\ run.job # "none" /\ run \in RunType /\ left \in Nat
  BY Amounts, Apart DEF BurnWallet, Working
<1>2. Send("burn", run.use) => PoolKept
  BY <1>1, Sent, KindNames DEF PoolKept
<1>3. PoolKept /\ seen' \in SeenType
  BY <1>2, Untouched DEF BurnWallet
<1>4. CASE left > 0 /\ run' = [run EXCEPT !.step = "buy", !.left = left] /\ UNCHANGED desk
  <2>1. run' \in RunType
    BY <1>1, <1>4, StepNames DEF RunType
  <2>2. GoesOn({"buy"})
    BY <1>1, <1>4 DEF RunType, GoesOn
  <2>3. GoesOn(Working \ {"burn"})
    BY <2>2 DEF GoesOn, Working
  <2> QED BY <1>1, <1>3, <1>4, <2>1, <2>3, StepTyped, Untouched
<1>5. CASE \E executed \in BOOLEAN : Finish(executed)
  BY <1>1, <1>3, <1>5, FinishEnds, StepTyped
<1> QED BY <1>4, <1>5 DEF BurnWallet

(* A buy ends the call. *)
LEMMA BuyRestTyped ==
    ASSUME Typed, BuyRest
    PROVE Typed'
<1>1. run.step = "buy" /\ UNCHANGED <<env, acct>> /\ run.left \in Nat \ {0} /\ run.job # "none"
  BY Amounts DEF BuyRest, Working
<1>2. Send("buy", run.left) => PoolKept
  BY <1>1, Sent, KindNames DEF PoolKept
<1>3. seen' = [seen EXCEPT !.bought = TRUE] => seen' \in SeenType
  BY Apart DEF SeenType
<1>4. PoolKept /\ seen' \in SeenType
  BY <1>2, <1>3, Untouched DEF BuyRest
<1>5. \E executed \in BOOLEAN : Finish(executed)
  BY DEF BuyRest
<1> QED BY <1>1, <1>4, <1>5, FinishEnds, StepTyped

(* Staking VVV, whole or cut down, or noting that it could not be. *)
LEMMA StakeTyped ==
    ASSUME Typed, run.step \notin {"idle", "planned"}, UNCHANGED <<env, acct>>,
           NEW n \in Int, acct.vvv \in Nat \ {0}, StakeVVV(n)
    PROVE Typed'
<1>1. n > 0 /\ run.job # "none"
  BY Amounts DEF StakeVVV
<1>2. "stake" \in Kinds
  BY KindNames
<1>3. \A k \in 1 .. n : Send("stake", k) => PoolKept
  BY <1>1, <1>2, Sent DEF PoolKept
<1>4. PoolKept /\ seen' \in SeenType
  BY <1>1, <1>3, Untouched DEF StakeVVV
<1>5. CASE desk' = Counted([desk EXCEPT !.owed = None]) /\ Over
  <2> DEFINE d == [desk EXCEPT !.owed = None]
  <2>1. d \in DeskType /\ d.mints = desk.mints /\ d.plan = desk.plan
    BY Apart DEF DeskType
  <2>2. d.plan # None => LeastOf(env.steps, d.plan + 1) \in 0 .. env.steps
    BY <2>1, Profile, Apart DEF LeastOf, DeskType
  <2> HIDE DEF d
  <2>3. Counted(d) \in DeskType /\ Counted(d).mints = desk.mints
    BY <2>1, <2>2 DEF Counted, DeskType
  <2>4. DeskKept
    BY <2>3, <1>5, Apart DEF DeskKept, d
  <2> QED BY <1>4, <1>5, <2>4, OverEnds, StepTyped
<1>6. CASE desk' = Noted(desk) /\ Failed
  <2>1. DeskKept
    BY <1>6, Apart DEF Noted, DeskType, DeskKept
  <2> QED BY <1>4, <1>6, <2>1, FailedEnds, StepTyped
<1> QED BY <1>5, <1>6 DEF StakeVVV

(* Nothing can be staked from an empty wallet. *)
LEMMA StakeableTyped ==
    ASSUME Typed, NEW n \in Nat
    PROVE /\ Stakeable(n) \in Nat /\ Stakeable(n) <= n
          /\ Stakeable(n) > 0 => acct.vvv \in Nat \ {0}
  BY Apart, DeskAssumption DEF Stakeable, LeastOf, Minus, AcctType

(* VVV owed to an earlier step is staked, kept as owed, or dropped. *)
LEMMA StakeOwedTyped ==
    ASSUME Typed, StakeOwed
    PROVE Typed'
<1>1. run.step = "owed" /\ UNCHANGED <<env, acct>> /\ desk.owed \in Nat
  BY Amounts, Apart DEF StakeOwed, DeskType
<1>2. CASE StakeVVV(Stakeable(desk.owed))
  <2>1. Stakeable(desk.owed) > 0
    BY <1>2 DEF StakeVVV
  <2> QED BY <1>1, <1>2, <2>1, StakeableTyped, StakeTyped
<1>3. CASE Failed /\ UNCHANGED <<pool, desk>> /\ seen' \in SeenType
  BY <1>1, <1>3, FailedEnds, Untouched, StepTyped
<1>4. CASE /\ desk' = [desk EXCEPT !.owed = None] /\ Failed
           /\ UNCHANGED <<pool, seen>>
  <2>1. DeskKept
    BY <1>4, Apart DEF DeskType, DeskKept
  <2> QED BY <1>1, <1>4, <2>1, FailedEnds, Untouched, StepTyped
<1> QED BY <1>2, <1>3, <1>4, Untouched DEF StakeOwed

(* A swap is waited for with its amount still known. *)
LEMMA SwapForVVVTyped ==
    ASSUME Typed, SwapForVVV
    PROVE Typed'
<1>1. run.step = "swap" /\ UNCHANGED <<env, acct>> /\ run.left \in Nat \ {0} /\ run.job # "none"
         /\ acct.vvv \in Nat /\ run \in RunType
  BY Amounts, Apart DEF SwapForVVV, Working
<1>2. Send("swap", run.left) => PoolKept
  BY <1>1, Sent, KindNames DEF PoolKept
<1>3. seen' = [seen EXCEPT !.overlap = @ \/ pool # <<>>] => seen' \in SeenType
  BY Apart DEF SeenType
<1>4. PoolKept /\ seen' \in SeenType
  BY <1>2, <1>3, Untouched DEF SwapForVVV
<1>5. CASE /\ run' = [run EXCEPT !.step = "settle", !.got = "none", !.before = acct.vvv]
           /\ UNCHANGED desk
  <2>1. run' \in RunType
    BY <1>1, <1>5, StepNames DEF RunType
  <2>2. GoesOn({"settle"})
    BY <1>1, <1>5 DEF RunType, GoesOn
  <2>3. GoesOn(Working \ {"burn"})
    BY <2>2 DEF GoesOn, Working
  <2> QED BY <1>1, <1>4, <1>5, <2>1, <2>3, StepTyped, Untouched
<1>6. CASE Finish(FALSE)
  BY <1>1, <1>4, <1>6, FinishEnds, StepTyped
<1> QED BY <1>5, <1>6 DEF SwapForVVV

(* The stake after a swap ends the call. *)
LEMMA StakeSwappedTyped ==
    ASSUME Typed, StakeSwapped
    PROVE Typed'
<1>1. run.step = "settle" /\ UNCHANGED <<env, acct>> /\ run.left \in Nat /\ run.before \in Nat
         /\ acct.vvv \in Nat
  BY Amounts DEF StakeSwapped
<1>2. ToStake(run) \in Nat /\ (ToStake(run) > 0 => acct.vvv \in Nat \ {0})
  <2>1. Received(run) \in Nat
    BY <1>1 DEF Received, Minus
  <2> DEFINE n == IF Received(run) > 0 THEN LeastOf(Received(run), run.left) ELSE run.left
  <2>2. n \in Nat
    BY <1>1, <2>1 DEF LeastOf
  <2> HIDE DEF n
  <2>3. Stakeable(n) \in Nat /\ (Stakeable(n) > 0 => acct.vvv \in Nat \ {0})
    BY <2>2, StakeableTyped
  <2> QED BY <2>3 DEF ToStake, n
<1>3. CASE StakeVVV(ToStake(run))
  <2>1. ToStake(run) > 0
    BY <1>3 DEF StakeVVV
  <2> QED BY <1>1, <1>2, <1>3, <2>1, StakeTyped
<1>4. CASE run' = NoRun /\ UNCHANGED <<pool, desk, seen>>
  BY <1>1, <1>4, OverEnds, Untouched, StepTyped DEF Over
<1> QED BY <1>3, <1>4 DEF StakeSwapped

(* A wait that ends with nothing known changes the answer alone. *)
LEMMA SwapTimesOutTyped ==
    ASSUME Typed, SwapTimesOut
    PROVE Typed'
<1>1. run.step = "settle" /\ UNCHANGED <<env, acct, pool, desk>> /\ run.left > 0
         /\ run.job # "none" /\ run \in RunType /\ seen' \in SeenType
         /\ run' = [run EXCEPT !.got = "unknown"]
  BY Amounts, Apart, Untouched DEF SwapTimesOut, Working
<1>2. run' \in RunType
  BY <1>1 DEF RunType
<1>3. GoesOn({"settle"})
  BY <1>1 DEF RunType, GoesOn
<1>4. GoesOn(Working \ {"burn"})
  BY <1>3 DEF GoesOn, Working
<1> QED BY <1>1, <1>2, <1>4, StepTyped, Untouched

-----------------------------------------------------------------------------
(* The agent's steps. *)

(* What pacing records. *)
LEMMA RecordedTyped ==
    ASSUME Typed, NEW d \in DeskType, d.mints = desk.mints,
           NEW action \in {"mint", "recovery"}, MayAct(action)
    PROVE /\ Recorded(d, action) \in DeskType
          /\ Cardinality(Recorded(d, action).mints) <= MaxMints
          /\ Recorded(d, action).owed = d.owed /\ Recorded(d, action).plan = d.plan
          /\ Recorded(d, action).pending = d.pending
<1>1. Recorded(desk, action).mints \in SUBSET (0 .. Hour)
        /\ Cardinality(Recorded(desk, action).mints) <= MaxMints
  BY MintsBounded
<1>2. Recorded(d, action).mints = Recorded(desk, action).mints
  BY Apart DEF Recorded, DeskType
<1>3. 0 \in 0 .. MinInterval
  BY RecoveryAssumption
<1> QED BY <1>1, <1>2, <1>3, RecoveryAssumption DEF Recorded, DeskType

(* A recovery begins with what is to be burned, owed or bought. *)
LEMMA StartTyped ==
    ASSUME Typed, NEW choice \in Option, NEW r \in RunType
    PROVE LET s == StartRecovery(choice, r) IN
          /\ s \in RunType /\ s.job = "recovery" /\ s.left = choice.units /\ s.left > 0
          /\ s.look = r.look /\ s.clean = r.clean /\ s.minted = r.minted /\ s.falls = r.falls
          /\ \/ s.step = "cover" /\ choice.kind = "burn"
             \/ s.step = "swap" /\ choice.kind # "burn"
             \/ s.step = "owed" /\ choice.kind # "burn" /\ desk.owed # None
<1>1. choice.units \in Nat /\ choice.units > 0
  BY DEF Option
<1>2. StepOf(choice) \in Steps
  BY StepNames DEF StepOf
<1>3. StartRecovery(choice, r) \in RunType
  BY <1>1, <1>2 DEF StartRecovery, RunType
<1>4. /\ StartRecovery(choice, r).step = StepOf(choice)
      /\ StartRecovery(choice, r).job = "recovery"
      /\ StartRecovery(choice, r).left = choice.units
      /\ StartRecovery(choice, r).look = r.look
      /\ StartRecovery(choice, r).clean = r.clean
      /\ StartRecovery(choice, r).minted = r.minted
      /\ StartRecovery(choice, r).falls = r.falls
  BY DEF StartRecovery, RunType
<1> QED BY <1>1, <1>3, <1>4 DEF StepOf

(* A recovery that has begun, as StepTyped asks for it. *)
LEMMA StartEnds ==
    ASSUME run'.job = "recovery", run'.left > 0, desk'.owed = desk.owed,
           \/ run'.step \in {"cover", "swap"}
           \/ run'.step = "owed" /\ desk.owed # None
    PROVE \/ GoesOn(Working \ {"burn"})
          \/ run'.step = "owed" /\ run'.job # "none" /\ desk'.owed # None
  BY DEF GoesOn, Working

(* Each step of the agent keeps them too; what is planned is a step of its campaign. *)
LEMMA SimulateTyped ==
    ASSUME Typed, Simulate
    PROVE Typed'
<1>1. PICK mode \in env.modes, want \in env.wants :
         LET asks == Asks(mode, acct.diem, want)
             plan == IF asks THEN Replanned(desk.plan, acct) ELSE desk.plan IN
         \E choice \in IF asks THEN Offers(plan, mode = "stuck") ELSE {None} :
            /\ desk' = [Aged(desk) EXCEPT !.plan = plan,
                          !.pending = IF choice = None THEN None
                                      ELSE [option |-> choice, look |-> acct.diem,
                                            clean |-> pool = <<>>]]
            /\ run' = [NoRun EXCEPT !.step = "planned", !.mode = mode]
  BY DEF Simulate
<1> DEFINE asks == Asks(mode, acct.diem, want)
           plan == IF asks THEN Replanned(desk.plan, acct) ELSE desk.plan
<1>2. PICK choice \in IF asks THEN Offers(plan, mode = "stuck") ELSE {None} :
            /\ desk' = [Aged(desk) EXCEPT !.plan = plan,
                          !.pending = IF choice = None THEN None
                                      ELSE [option |-> choice, look |-> acct.diem,
                                            clean |-> pool = <<>>]]
            /\ run' = [NoRun EXCEPT !.step = "planned", !.mode = mode]
  BY <1>1
<1>3. plan \in {None} \cup 0 .. env.steps
  BY PlanTyped, Apart DEF DeskType
<1>4. choice \in Option \cup {None}
  BY OptionsTyped
<1> HIDE DEF plan, asks
<1>5. Aged(desk) \in DeskType /\ Cardinality(Aged(desk).mints) <= MaxMints
  <2>1. Aged(desk).mints \in SUBSET (0 .. Hour) /\ Cardinality(Aged(desk).mints) <= MaxMints
    BY MintsBounded
  <2>2. desk.since # None => LeastOf(desk.since + 1, MinInterval) \in 0 .. MinInterval
    BY Apart, RecoveryAssumption DEF LeastOf, DeskType
  <2> QED BY <2>1, <2>2, Apart DEF Aged, DeskType
<1> DEFINE pending == IF choice = None THEN None
                      ELSE [option |-> choice, look |-> acct.diem, clean |-> pool = <<>>]
<1>6. pending \in {None} \cup [option : Option, look : Nat, clean : BOOLEAN]
  BY <1>4, Apart DEF AcctType
<1> HIDE DEF pending
<1>7. desk' = [Aged(desk) EXCEPT !.plan = plan, !.pending = pending]
  BY <1>2 DEF pending
<1>8. DeskKept
  BY <1>3, <1>5, <1>6, <1>7 DEF DeskKept, DeskType
<1>9. run' \in RunType /\ run'.step = "planned"
  <2>1. mode \in Modes /\ "planned" \in Steps
    BY Profile, StepNames
  <2> QED BY <1>2, <2>1, NoRunTyped DEF RunType
<1> QED BY <1>8, <1>9, Untouched, StepTyped DEF Simulate

(* A planned step starts with the amount it was planned with. *)
LEMMA RunPendingTyped ==
    ASSUME Typed, RunPending
    PROVE Typed'
<1> DEFINE planned == desk.pending
           d == [desk EXCEPT !.pending = None]
<1>1. planned \in [option : Option, look : Nat, clean : BOOLEAN]
  BY Apart DEF RunPending, DeskType
<1>2. d \in DeskType /\ d.mints = desk.mints /\ d.owed = desk.owed
  BY Apart DEF DeskType
<1>3. UNCHANGED <<env, acct, pool, seen>>
  BY DEF RunPending
<1>4. CASE MayAct("recovery")
  <2>1. desk' = Recorded(d, "recovery")
    BY <1>4 DEF RunPending
  <2>2. DeskKept /\ desk'.owed = desk.owed
    BY <1>2, <1>4, <2>1, RecordedTyped DEF DeskKept
  <2> DEFINE s == StartRecovery(planned.option, run)
  <2>3. /\ s \in RunType /\ s.job = "recovery" /\ s.left > 0
        /\ s.step \in {"cover", "swap"} \/ (s.step = "owed" /\ desk.owed # None)
    BY <1>1, Apart, StartTyped
  <2>4. run' = [s EXCEPT !.look = planned.look, !.older = Len(pool), !.clean = planned.clean]
    BY <1>4 DEF RunPending
  <2>5. Len(pool) \in 0 .. MaxPool
    BY Apart, LenProperties
  <2> HIDE DEF s
  <2>6. run' \in RunType
    BY <1>1, <2>3, <2>4, <2>5 DEF RunType
  <2>7. run'.job = s.job /\ run'.left = s.left /\ run'.step = s.step
    BY <2>3, <2>4 DEF RunType
  <2> QED BY <1>3, <2>2, <2>3, <2>6, <2>7, StartEnds, StepTyped, Untouched
<1>5. CASE ~MayAct("recovery")
  <2>1. desk' = d /\ Over
    BY <1>5 DEF RunPending
  <2>2. DeskKept
    BY <1>2, <2>1, Apart DEF DeskKept
  <2> QED BY <1>3, <2>1, <2>2, OverEnds, StepTyped, Untouched
<1> QED BY <1>4, <1>5

(* A decision in earnest begins with a snapshot. *)
LEMMA DecideTyped ==
    ASSUME Typed, Decide
    PROVE Typed'
<1>1. /\ run' = [run EXCEPT !.step = "decided", !.job = "trade", !.look = acct.diem,
                            !.older = Len(pool), !.clean = (pool = <<>>)]
      /\ UNCHANGED <<env, acct, pool, desk, seen>>
  BY DEF Decide
<1>2. Len(pool) \in 0 .. MaxPool /\ acct.diem \in Nat /\ "decided" \in Steps
  BY Apart, LenProperties, StepNames DEF AcctType
<1>3. run' \in RunType
  BY <1>1, <1>2, Apart DEF RunType
<1>4. run'.step = "decided" /\ run'.job = "trade"
  BY <1>1, Apart DEF RunType
<1> QED BY <1>1, <1>3, <1>4, StepTyped, Untouched

(* A recovery within a decision. *)
LEMMA ReliefTyped ==
    ASSUME Typed, run.step \notin {"idle", "planned"}, UNCHANGED <<env, acct, pool, seen>>,
           NEW stakeOnly \in BOOLEAN, NEW falls \in BOOLEAN, Relief(stakeOnly, falls),
           run.job = "trade"
    PROVE Typed'
<1> DEFINE plan == Replanned(desk.plan, acct)
           d == [desk EXCEPT !.plan = plan]
<1>1. d \in DeskType /\ d.mints = desk.mints /\ d.owed = desk.owed
  BY PlanTyped, Apart DEF DeskType
<1>2. PICK choice \in Offers(plan, stakeOnly) :
        IF choice # None /\ MayAct("recovery")
          THEN /\ desk' = Recorded(d, "recovery")
               /\ run' = [StartRecovery(choice, run) EXCEPT !.falls = falls]
          ELSE /\ desk' = d
               /\ IF falls THEN Go("weighed") ELSE Over
  BY DEF Relief
<1>3. choice \in Option \cup {None}
  BY OptionsTyped
<1>4. CASE choice # None /\ MayAct("recovery")
  <2>1. DeskKept /\ desk'.owed = desk.owed
    BY <1>1, <1>2, <1>4, RecordedTyped DEF DeskKept
  <2> DEFINE s == StartRecovery(choice, run)
  <2>2. /\ s \in RunType /\ s.job = "recovery" /\ s.left > 0
        /\ s.step \in {"cover", "swap"} \/ (s.step = "owed" /\ desk.owed # None)
    BY <1>3, <1>4, Apart, StartTyped
  <2>3. run' = [s EXCEPT !.falls = falls]
    BY <1>2, <1>4
  <2> HIDE DEF s
  <2>4. run' \in RunType
    BY <2>2, <2>3 DEF RunType
  <2>5. run'.job = s.job /\ run'.left = s.left /\ run'.step = s.step
    BY <2>2, <2>3 DEF RunType
  <2> QED BY <2>1, <2>2, <2>4, <2>5, StartEnds, StepTyped, Untouched
<1>5. CASE ~(choice # None /\ MayAct("recovery"))
  <2>1. DeskKept
    BY <1>1, <1>2, <1>5, Apart DEF DeskKept
  <2>2. CASE falls
    <3>1. run' = [run EXCEPT !.step = "weighed"]
      BY <1>2, <1>5, <2>2 DEF Go
    <3>2. run' \in RunType /\ Ended
      BY <3>1, Apart, StepNames DEF RunType, Ended
    <3> QED BY <2>1, <3>2, StepTyped, Untouched
  <2>3. CASE ~falls
    BY <1>2, <1>5, <2>1, <2>3, OverEnds, StepTyped, Untouched
  <2> QED BY <2>2, <2>3
<1> QED BY <1>4, <1>5

(* In a decision that has not turned to a recovery the job is to trade. *)
LEMMA MintAndSellTyped ==
    ASSUME Typed, MintAndSell
    PROVE Typed'
<1>1. run.step \notin {"idle", "planned"} /\ UNCHANGED <<env, acct, pool, seen>>
        /\ run.job # "none" /\ run \in RunType
  BY Amounts, Apart DEF MintAndSell, AtPremium
<1>2. PICK want \in env.wants \ {0} :
        IF MayAct("mint")
          THEN /\ desk' = Recorded(desk, "mint")
               /\ run' = [run EXCEPT !.step = "sale", !.left = want]
          ELSE Over /\ UNCHANGED desk
  BY DEF MintAndSell
<1>3. want \in Nat \ {0}
  BY Profile
<1>4. CASE MayAct("mint")
  <2>1. DeskKept
    BY <1>2, <1>4, Apart, RecordedTyped DEF DeskKept
  <2>a. run' = [run EXCEPT !.step = "sale", !.left = want]
    BY <1>2, <1>4
  <2>2. run' \in RunType
    BY <1>1, <1>3, <2>a, StepNames DEF RunType
  <2>3. GoesOn({"sale"})
    BY <1>1, <1>3, <2>a DEF RunType, GoesOn
  <2>4. GoesOn(Working \ {"burn"})
    BY <2>3 DEF GoesOn, Working
  <2> QED BY <1>1, <2>1, <2>2, <2>4, StepTyped, Untouched
<1>5. CASE ~MayAct("mint")
  BY <1>1, <1>2, <1>5, OverEnds, StepTyped, Untouched
<1> QED BY <1>4, <1>5

(* A sale of what the wallet holds is of at least one unit. *)
LEMMA SpotSellTyped ==
    ASSUME Typed, SpotSell
    PROVE Typed'
<1>1. run.step \notin {"idle", "planned"} /\ UNCHANGED <<env, acct, desk, seen>> /\ Over
        /\ run.job # "none"
  BY Amounts DEF SpotSell, AtPremium
<1>2. PICK want \in env.wants : LeastOf(run.look, want) > 0 /\ Send("sell", LeastOf(run.look, want))
  BY DEF SpotSell
<1>3. LeastOf(run.look, want) \in Nat \ {0}
  BY <1>1, <1>2, Amounts, Profile DEF LeastOf
<1>4. PoolKept
  BY <1>1, <1>2, <1>3, KindNames, Sent DEF PoolKept
<1> QED BY <1>1, <1>4, OverEnds, StepTyped, Untouched

(* A buy is of what the burn will not cover. *)
LEMMA BuyAndBurnTyped ==
    ASSUME Typed, BuyAndBurn
    PROVE Typed'
<1> DEFINE blocked == acct.diem >= run.look /\ ~Burnable(acct, run.look)
           Burns(want) == LeastOf(want, IF blocked THEN BurnPart(acct, run.look) ELSE run.look)
<1>1. run.step = "decided" /\ UNCHANGED <<env, acct, pool, desk, seen>> /\ run.job # "none"
        /\ run \in RunType /\ run.look \in Nat
  BY Amounts, Apart DEF BuyAndBurn
<1>2. PICK want \in env.wants \ {0} :
        run' = IF desk.latched \/ blocked
                 THEN IF want > Burns(want)
                        THEN [run EXCEPT !.step = "buy", !.left = want - Burns(want)]
                        ELSE NoRun
                 ELSE [run EXCEPT !.step = "cover", !.left = want]
  BY DEF BuyAndBurn
<1>3. want \in Nat \ {0} /\ Burns(want) \in Nat
  <2>1. want \in Nat \ {0} /\ BurnPart(acct, run.look) \in Nat
    BY <1>1, Profile, BurnPartTyped, Apart
  <2> QED BY <1>1, <2>1 DEF LeastOf
<1> HIDE DEF Burns, blocked
<1>4. CASE run' = [run EXCEPT !.step = "buy", !.left = want - Burns(want)] /\ want > Burns(want)
  <2>1. want - Burns(want) \in Nat \ {0}
    BY <1>3, <1>4
  <2>2. run' \in RunType
    BY <1>1, <1>4, <2>1, StepNames DEF RunType
  <2>3. GoesOn({"buy"})
    BY <1>1, <1>4, <2>1 DEF RunType, GoesOn
  <2>4. GoesOn(Working \ {"burn"})
    BY <2>3 DEF GoesOn, Working
  <2> QED BY <1>1, <2>2, <2>4, StepTyped, Untouched
<1>5. CASE run' = [run EXCEPT !.step = "cover", !.left = want]
  <2>1. run' \in RunType
    BY <1>1, <1>3, <1>5, StepNames DEF RunType
  <2>2. GoesOn({"cover"})
    BY <1>1, <1>3, <1>5 DEF RunType, GoesOn
  <2>3. GoesOn(Working \ {"burn"})
    BY <2>2 DEF GoesOn, Working
  <2> QED BY <1>1, <2>1, <2>3, StepTyped, Untouched
<1>6. CASE run' = NoRun
  BY <1>1, <1>6, OverEnds, StepTyped, Untouched DEF Over
<1> QED BY <1>2, <1>4, <1>5, <1>6

(* A decision with nothing to do. *)
LEMMA RestTyped ==
    ASSUME Typed, Over, UNCHANGED <<env, acct, pool, desk, seen>>
    PROVE Typed'
  BY OverEnds, Untouched, StepTyped

-----------------------------------------------------------------------------
(* The chain. *)

(* What a covered transaction leaves. *)
LEMMA SettledTyped ==
    ASSUME NEW a \in AcctType, NEW tx \in TxType, Covers(a, tx)
    PROVE Settled(a, tx) \in AcctType
<1> DEFINE n == tx.units
           m == Rate * n
<1>1. n \in Nat \ {0} /\ m \in Nat
  BY DeskAssumption, SMT DEF TxType
<1>2. a.free \in Nat /\ a.locked \in Nat /\ a.diem \in Nat /\ a.vvv \in Nat /\ a.usdc \in Nat
  BY DEF AcctType
<1>3. tx.kind \in Kinds
  BY DEF TxType
<1> HIDE DEF n
<1>4. CASE tx.kind = "mint"
  <2>1. Settled(a, tx) = [a EXCEPT !.free = @ - m, !.locked = @ + m, !.diem = @ + n]
    BY <1>4 DEF Settled, n
  <2>2. a.free >= m
    BY <1>4 DEF Covers, n
  <2> HIDE DEF m
  <2>3. a.free - m \in Nat /\ a.locked + m \in Nat /\ a.diem + n \in Nat
    BY <1>1, <1>2, <2>2
  <2> QED BY <2>1, <2>3 DEF AcctType
<1>5. CASE tx.kind = "sell"
  <2>1. Settled(a, tx) = [a EXCEPT !.diem = @ - n]
    BY <1>5 DEF Settled, n
  <2>2. a.diem >= n
    BY <1>5 DEF Covers, n
  <2> HIDE DEF m
  <2>3. a.diem - n \in Nat
    BY <1>1, <1>2, <2>2
  <2> QED BY <2>1, <2>3 DEF AcctType
<1>6. CASE tx.kind = "burn"
  <2>1. Settled(a, tx) = [a EXCEPT !.free = @ + m, !.locked = @ - m, !.diem = @ - n]
    BY <1>6 DEF Settled, n
  <2>2. a.diem >= n /\ a.locked >= m
    BY <1>6 DEF Covers, n
  <2> HIDE DEF m
  <2>3. a.free + m \in Nat /\ a.locked - m \in Nat /\ a.diem - n \in Nat
    BY <1>1, <1>2, <2>2
  <2> QED BY <2>1, <2>3 DEF AcctType
<1>7. CASE tx.kind = "buy"
  <2>1. Settled(a, tx) = [a EXCEPT !.diem = @ + n, !.usdc = @ - n]
    BY <1>7 DEF Settled, n
  <2>2. a.usdc >= n
    BY <1>7 DEF Covers, n
  <2> HIDE DEF m
  <2>3. a.diem + n \in Nat /\ a.usdc - n \in Nat
    BY <1>1, <1>2, <2>2
  <2> QED BY <2>1, <2>3 DEF AcctType
<1>8. CASE tx.kind = "swap"
  <2>1. Settled(a, tx) = [a EXCEPT !.vvv = @ + n, !.usdc = @ - n]
    BY <1>8 DEF Settled, n
  <2>2. a.usdc >= n
    BY <1>8 DEF Covers, n
  <2> HIDE DEF m
  <2>3. a.vvv + n \in Nat /\ a.usdc - n \in Nat
    BY <1>1, <1>2, <2>2
  <2> QED BY <2>1, <2>3 DEF AcctType
<1>9. CASE tx.kind = "stake"
  <2>1. Settled(a, tx) = [a EXCEPT !.vvv = @ - n, !.free = @ + n]
    BY <1>9 DEF Settled, n
  <2>2. a.vvv >= n
    BY <1>9 DEF Covers, n
  <2> HIDE DEF m
  <2>3. a.vvv - n \in Nat /\ a.free + n \in Nat
    BY <1>1, <1>2, <2>2
  <2> QED BY <2>1, <2>3 DEF AcctType
<1> QED BY <1>3, <1>4, <1>5, <1>6, <1>7, <1>8, <1>9 DEF Kinds

(* What the mining of a transaction tells the decision. *)
LEMMA ReceiptTyped ==
    ASSUME Typed, pool # <<>>, NEW tx \in TxType, NEW result \in {"ok", "failed"}, Receipt(tx, result)
    PROVE /\ run' \in RunType
          /\ run'.step = run.step /\ run'.job = run.job /\ run'.left = run.left
          /\ run'.use = run.use /\ run'.look = run.look /\ run'.clean = run.clean
          /\ run'.falls = run.falls
<1>1. run.older \in 0 .. MaxPool /\ run.minted \in Nat
  BY Apart DEF RunType
<1>2. Minus(run.older, 1) \in 0 .. MaxPool /\ Minus(run.minted, 1) \in Nat
  BY <1>1, DeskAssumption DEF Minus
<1> QED BY <1>2, Apart DEF Receipt, RunType

(* Mining keeps the account free of debts. *)
LEMMA MineTyped ==
    ASSUME Typed, Mine
    PROVE Typed'
<1> DEFINE tx == Head(pool)
<1>1. pool # <<>> /\ pool' = Tail(pool) /\ UNCHANGED <<env, desk>>
  BY DEF Mine
<1>2. tx \in TxType /\ Tail(pool) \in Seq(TxType) /\ Len(Tail(pool)) <= MaxPool
  BY <1>1, Apart, HeadTailProperties, DeskAssumption
<1>3. PICK result \in {"ok", "failed"} : Receipt(tx, result)
  BY DEF Mine
<1>4. acct' \in AcctType /\ seen' \in SeenType
  <2>1. CASE acct' = [Settled(acct, tx) EXCEPT !.vvv = @ + 1] /\ Covers(acct, tx) /\ Fault("surplus")
    <3>1. Settled(acct, tx) \in AcctType
      BY <1>2, <2>1, SettledTyped, Apart
    <3>2. acct' \in AcctType
      BY <3>1, <2>1 DEF AcctType
    <3> QED BY <2>1, <3>2, Untouched
  <2>2. CASE acct' = Settled(acct, tx) /\ Covers(acct, tx) /\ UNCHANGED seen
    BY <1>2, <2>2, SettledTyped, Apart, Untouched
  <2>3. CASE UNCHANGED acct /\ (UNCHANGED seen \/ Fault("revert"))
    BY <2>3, Apart, Untouched
  <2> QED BY <2>1, <2>2, <2>3 DEF Mine
<1>5. /\ run' \in RunType
      /\ run'.step = run.step /\ run'.job = run.job /\ run'.left = run.left
      /\ run'.use = run.use
  BY <1>1, <1>2, <1>3, ReceiptTyped
<1>6. TypeOK'
  BY <1>1, <1>2, <1>4, <1>5, Apart, Together
<1> QED BY <1>1, <1>5, <1>6 DEF Typed, Sized

(* A desk that remembers nothing is a desk. *)
LEMMA NoDeskTyped == \A e \in Profiles :
    /\ NoDesk.mints = {} /\ NoDesk.latched = FALSE /\ NoDesk.since = None
    /\ NoDesk.plan = None /\ NoDesk.pending = None /\ NoDesk.owed = None
    /\ Cardinality(NoDesk.mints) <= MaxMints
<1>1. Cardinality({}) = 0
  BY FS_EmptySet
<1> QED BY <1>1, RecoveryAssumption DEF NoDesk

(* A restart keeps the types. *)
LEMMA CrashTyped ==
    ASSUME Typed, Crash
    PROVE Typed'
<1>1. UNCHANGED <<env, acct, pool>> /\ desk' = NoDesk /\ Over
  BY DEF Crash, Over
<1>2. DeskKept
  BY <1>1, NoDeskTyped, Apart DEF DeskKept, DeskType, NoDesk
<1> QED BY <1>1, <1>2, OverEnds, Untouched, StepTyped DEF Crash

(* They hold at the start. *)
LEMMA InitTyped == Init => Typed
<1> SUFFICES ASSUME Init PROVE Typed
  OBVIOUS
<1>1. env \in Profiles /\ acct = env.chain /\ pool = <<>> /\ desk = NoDesk /\ run = NoRun
        /\ seen = NoSeen
  BY DEF Init
<1>2. acct \in AcctType
  BY <1>1, RecoveryProfileAssumption DEF AcctType
<1>3. pool \in Seq(TxType) /\ Len(pool) <= MaxPool
  BY <1>1, DeskAssumption
<1>4. desk \in DeskType /\ Cardinality(desk.mints) <= MaxMints
  BY <1>1, NoDeskTyped DEF DeskType, NoDesk
<1>5. run \in RunType /\ run.step = "idle"
  BY <1>1, NoRunTyped
<1>6. seen \in SeenType
  BY <1>1 DEF NoSeen, SeenType
<1>7. TypeOK
  BY <1>1, <1>2, <1>3, <1>4, <1>5, <1>6
     DEF TypeOK, AcctType, TxType, DeskType, RunType, SeenType
<1> QED BY <1>5, <1>7 DEF Typed, Sized, Working

(* Every step keeps them. *)
LEMMA NextTyped == Typed /\ [Next]_deskVars => Typed'
<1> SUFFICES ASSUME Typed, [Next]_deskVars PROVE Typed'
  OBVIOUS
<1>1. CASE Client
  BY <1>1, SellFirstTyped, CheckMintTyped, SendMintTyped, AwaitMintTyped, OfferMintedTyped,
     CoverBurnTyped, BurnWalletTyped, BuyRestTyped, StakeOwedTyped, SwapForVVVTyped,
     StakeSwappedTyped, SwapTimesOutTyped DEF Client
<1>2. CASE Agent
  <2>1. CASE Recover
    <3>1. run.step = "decided" /\ run.job = "trade" /\ UNCHANGED <<env, acct, pool, seen>>
      BY <2>1 DEF Recover, Typed, Sized
    <3> QED BY <2>1, <3>1, ReliefTyped DEF Recover
  <2>2. CASE HoldShort
    <3>1. run.step \in {"decided", "weighed"} /\ run.job = "trade" /\ UNCHANGED <<env, acct, pool, seen>>
      BY <2>2 DEF HoldShort, AtPremium, Typed, Sized
    <3> QED BY <2>2, <3>1, ReliefTyped DEF HoldShort
  <2>3. CASE Rest \/ Hold
    BY <2>3, RestTyped DEF Rest, Hold
  <2> QED BY <1>2, <2>1, <2>2, <2>3, SimulateTyped, RunPendingTyped, DecideTyped,
        MintAndSellTyped, SpotSellTyped, BuyAndBurnTyped DEF Agent
<1>3. CASE UNCHANGED deskVars
  BY <1>3 DEF deskVars, Typed, TypeOK, Sized
<1> QED BY <1>1, <1>2, <1>3, MineTyped, CrashTyped DEF Next

(* Every part of the desk keeps its shape: nothing it holds or owes is       *)
(* negative, a campaign is within its steps and the pacing memory within its *)
(* limits.                                                                   *)
THEOREM DeskTypeCorrect == Spec => []TypeOK
<1>1. Typed => TypeOK
  BY DEF Typed
<1> QED BY InitTyped, NextTyped, <1>1, PTL DEF Spec

-----------------------------------------------------------------------------
(* One mint at a time. *)

SeenGrows == seen.faults \subseteq seen'.faults

PoolGrows == Len(pool') >= Len(pool)

(* What was seen stays seen, and only the chain takes from the pool. *)
LEMMA Growing ==
    ASSUME Typed
    PROVE /\ UNCHANGED seen => SeenGrows
          /\ \A kind : Fault(kind) => SeenGrows
          /\ UNCHANGED pool => PoolGrows
          /\ \A kind, units : Send(kind, units) => PoolGrows /\ Len(pool') = Len(pool) + 1
<1>1. ASSUME NEW kind, NEW units, Send(kind, units) PROVE Len(pool') = Len(pool) + 1
  BY <1>1, Apart, AppendProperties DEF Send
<1>2. Len(pool) \in Nat
  BY Apart, LenProperties
<1> QED BY <1>1, <1>2, Apart DEF Fault, SeenGrows, PoolGrows, SeenType

(* A call forgets no fault and takes nothing from the pool. *)
LEMMA ClientGrows ==
    ASSUME Typed, Client
    PROVE SeenGrows /\ PoolGrows
<1> USE Growing
<1>1. CASE SellFirst
  BY <1>1 DEF SellFirst
<1>2. CASE CheckMint \/ SendMint \/ AwaitMint \/ OfferMinted
  BY <1>2 DEF CheckMint, SendMint, AwaitMint, OfferMinted
<1>3. CASE CoverBurn \/ BurnWallet
  BY <1>3 DEF CoverBurn, BurnWallet
<1>4. CASE BuyRest
  <2>1. seen' = [seen EXCEPT !.bought = TRUE] => SeenGrows
    BY Apart DEF SeenType, SeenGrows
  <2> QED BY <1>4, <2>1 DEF BuyRest
<1>5. CASE SwapForVVV
  <2>1. seen' = [seen EXCEPT !.overlap = @ \/ pool # <<>>] => SeenGrows
    BY Apart DEF SeenType, SeenGrows
  <2> QED BY <1>5, <2>1 DEF SwapForVVV
<1>6. CASE StakeOwed \/ StakeSwapped
  BY <1>6 DEF StakeOwed, StakeSwapped, StakeVVV
<1>7. CASE SwapTimesOut
  BY <1>7 DEF SwapTimesOut
<1> QED BY <1>1, <1>2, <1>3, <1>4, <1>5, <1>6, <1>7 DEF Client

(* Nor does the agent. *)
LEMMA AgentGrows ==
    ASSUME Typed, Agent
    PROVE SeenGrows /\ PoolGrows
<1> USE Growing
<1>1. CASE SpotSell
  BY <1>1 DEF SpotSell
<1>2. CASE ~SpotSell
  BY <1>2 DEF Agent, Simulate, Rest, RunPending, Decide, Recover, MintAndSell, HoldShort,
              BuyAndBurn, Hold
<1> QED BY <1>1, <1>2

(* A decision that neither sends a mint nor waits for one. *)
NoMintMade ==
    /\ run'.step \notin {"await", "offer"}
    /\ run'.minted = 0 \/ (run'.minted = run.minted /\ run.step \notin {"await", "offer"})

OlderKept == run'.older \in {0, run.older} \/ (run'.older = Len(pool) /\ UNCHANGED pool)

(* A step with no mint of its own to count keeps the count. *)
LEMMA NoneCounted ==
    ASSUME Typed, Typed', MintsCounted, NoMintMade, OlderKept, SeenGrows, PoolGrows
    PROVE MintsCounted'
<1>1. Doubt => Doubt'
  BY DEF Doubt, SeenGrows
<1>2. run.older \in Nat /\ Len(pool) \in Nat
  BY Apart, LenProperties, DeskAssumption DEF RunType
<1>3. run'.older <= Len(pool')
  <2>1. run.older <= Len(pool)
    BY DEF MintsCounted
  <2>2. Len(pool') >= Len(pool)
    BY DEF PoolGrows
  <2>3. Len(pool') \in Nat
    BY LenProperties DEF Typed, TypeOK
  <2> QED BY <1>2, <2>1, <2>2, <2>3 DEF OlderKept
<1> QED BY <1>1, <1>3 DEF MintsCounted, NoMintMade

(* The end of a decision makes none. *)
LEMMA EndCounts ==
    ASSUME Typed, Over \/ Failed
    PROVE NoMintMade /\ OlderKept
<1>1. CASE Over
  BY <1>1 DEF Over, NoRun, NoMintMade, OlderKept
<1>2. CASE Failed
  <2>1. run' = NoRun \/ run' = [NoRun EXCEPT !.step = "weighed", !.job = "trade",
                                !.mode = run.mode, !.look = run.look,
                                !.clean = run.clean, !.older = run.older]
    BY <1>2 DEF Failed
  <2>2. NoRun.minted = 0 /\ NoRun.step = "idle" /\ NoRun.older = 0
    BY DEF NoRun
  <2> QED BY <2>1, <2>2, NoRunTyped DEF RunType, NoMintMade, OlderKept
<1> QED BY <1>1, <1>2

(* A call that ends has nothing to count. *)
LEMMA FinishCounts ==
    ASSUME Typed, NEW executed \in BOOLEAN, Finish(executed)
    PROVE NoMintMade /\ OlderKept
  BY EndCounts DEF Finish

(* The client's steps but those of the mint, and the agent's. *)
LEMMA ClientCounts ==
    ASSUME Typed, Client, ~SendMint, ~AwaitMint, ~OfferMinted
    PROVE NoMintMade /\ OlderKept
<1>0. run \in RunType
  BY Apart
<1>1. CASE SellFirst
  <2>1. CASE run.left > run.look
    BY <1>0, <1>1, <2>1 DEF SellFirst, AfterSale, RunType, NoMintMade, OlderKept
  <2>2. CASE ~(run.left > run.look)
    BY <1>1, <2>2, FinishCounts DEF SellFirst
  <2> QED BY <2>1, <2>2
<1>2. CASE CheckMint
  <2>1. CASE run' = [run EXCEPT !.step = "send", !.attempt = 1]
    BY <1>0, <1>2, <2>1 DEF CheckMint, RunType, NoMintMade, OlderKept
  <2>2. CASE Over \/ Finish(FALSE)
    BY <2>2, EndCounts, FinishCounts
  <2> QED BY <1>2, <2>1, <2>2 DEF CheckMint, Over
<1>3. CASE CoverBurn
  <2> DEFINE use == LeastOf(run.look, run.left)
  <2>1. CASE run' = [run EXCEPT !.step = "buy"]
    BY <1>0, <1>3, <2>1 DEF CoverBurn, RunType, NoMintMade, OlderKept
  <2>2. CASE run' = [run EXCEPT !.step = "burn", !.use = BurnPart(acct, use)]
    BY <1>0, <1>3, <2>2 DEF CoverBurn, RunType, NoMintMade, OlderKept
  <2>3. CASE Finish(FALSE)
    BY <2>3, FinishCounts
  <2> QED BY <1>3, <2>1, <2>2, <2>3 DEF CoverBurn, Go
<1>4. CASE BurnWallet
  <2> DEFINE left == run.left - run.use
  <2>1. CASE run' = [run EXCEPT !.step = "buy", !.left = left]
    BY <1>0, <1>4, <2>1 DEF BurnWallet, RunType, NoMintMade, OlderKept
  <2>2. CASE \E executed \in BOOLEAN : Finish(executed)
    BY <2>2, FinishCounts
  <2> QED BY <1>4, <2>1, <2>2 DEF BurnWallet
<1>5. CASE BuyRest
  BY <1>5, FinishCounts DEF BuyRest
<1>6. CASE StakeOwed \/ StakeSwapped
  BY <1>6, EndCounts DEF StakeOwed, StakeSwapped, StakeVVV, Over
<1>7. CASE SwapForVVV
  <2>1. CASE run' = [run EXCEPT !.step = "settle", !.got = "none", !.before = acct.vvv]
    BY <1>0, <1>7, <2>1 DEF SwapForVVV, RunType, NoMintMade, OlderKept
  <2>2. CASE Finish(FALSE)
    BY <2>2, FinishCounts
  <2> QED BY <1>7, <2>1, <2>2 DEF SwapForVVV
<1>8. CASE SwapTimesOut
  BY <1>0, <1>8 DEF SwapTimesOut, RunType, NoMintMade, OlderKept
<1> QED BY <1>1, <1>2, <1>3, <1>4, <1>5, <1>6, <1>7, <1>8 DEF Client

(* A recovery within a decision has nothing to count. *)
LEMMA ReliefCounts ==
    ASSUME Typed, run.step \in {"decided", "weighed"},
           NEW stakeOnly \in BOOLEAN, NEW falls \in BOOLEAN, Relief(stakeOnly, falls)
    PROVE NoMintMade /\ OlderKept
<1> DEFINE plan == Replanned(desk.plan, acct)
<1>0. run \in RunType
  BY Apart
<1>1. PICK choice \in Offers(plan, stakeOnly) :
        IF choice # None /\ MayAct("recovery")
          THEN run' = [StartRecovery(choice, run) EXCEPT !.falls = falls]
          ELSE IF falls THEN Go("weighed") ELSE Over
  BY DEF Relief
<1>2. CASE choice # None /\ MayAct("recovery")
  <2>1. StepOf(choice) \in {"cover", "owed", "swap"}
    BY DEF StepOf
  <2> QED BY <1>0, <1>1, <1>2, <2>1 DEF StartRecovery, RunType, NoMintMade, OlderKept
<1>3. CASE ~(choice # None /\ MayAct("recovery"))
  <2>1. CASE falls
    BY <1>0, <1>1, <1>3, <2>1 DEF Go, RunType, NoMintMade, OlderKept
  <2>2. CASE ~falls
    BY <1>1, <1>3, <2>2, EndCounts
  <2> QED BY <2>1, <2>2
<1> QED BY <1>2, <1>3

(* Nor has any other step of the agent. *)
LEMMA AgentCounts ==
    ASSUME Typed, Agent
    PROVE NoMintMade /\ OlderKept
<1>0. run \in RunType
  BY Apart
<1>1. CASE Simulate
  <2>1. PICK mode : run' = [NoRun EXCEPT !.step = "planned", !.mode = mode]
    BY <1>1 DEF Simulate
  <2>2. NoRun.minted = 0 /\ NoRun.older = 0
    BY DEF NoRun
  <2> QED BY <2>1, <2>2, NoRunTyped DEF RunType, NoMintMade, OlderKept
<1>2. CASE RunPending
  <2>1. CASE Over
    BY <2>1, EndCounts
  <2>2. CASE ~Over
    <3> DEFINE planned == desk.pending
               r == StartRecovery(planned.option, run)
    <3>1. run' = [r EXCEPT !.look = planned.look, !.older = Len(pool), !.clean = planned.clean]
      BY <1>2, <2>2 DEF RunPending
    <3>2. StepOf(planned.option) \in {"cover", "owed", "swap"}
      BY DEF StepOf
    <3>3. run.step = "planned" /\ UNCHANGED pool
      BY <1>2 DEF RunPending
    <3> QED BY <1>0, <3>1, <3>2, <3>3 DEF StartRecovery, RunType, NoMintMade, OlderKept
  <2> QED BY <2>1, <2>2
<1>3. CASE Decide
  BY <1>0, <1>3 DEF Decide, RunType, NoMintMade, OlderKept
<1>4. CASE Recover \/ HoldShort
  <2>1. CASE Recover
    BY <2>1, ReliefCounts DEF Recover
  <2>2. CASE HoldShort
    <3>1. run.step \in {"decided", "weighed"} /\ Relief(FALSE, FALSE)
      BY <2>2 DEF HoldShort, AtPremium
    <3> QED BY <3>1, ReliefCounts
  <2> QED BY <1>4, <2>1, <2>2
<1>5. CASE MintAndSell
  <2>1. PICK want : run' = [run EXCEPT !.step = "sale", !.left = want] \/ Over
    BY <1>5 DEF MintAndSell
  <2>2. run.step \in {"decided", "weighed"}
    BY <1>5 DEF MintAndSell, AtPremium
  <2> QED BY <1>0, <2>1, <2>2, EndCounts DEF RunType, NoMintMade, OlderKept
<1>6. CASE BuyAndBurn
  <2>1. PICK n : \/ run' = [run EXCEPT !.step = "buy", !.left = n]
                 \/ run' = [run EXCEPT !.step = "cover", !.left = n]
                 \/ Over
    BY <1>6 DEF BuyAndBurn, Over
  <2>2. run.step = "decided"
    BY <1>6 DEF BuyAndBurn
  <2> QED BY <1>0, <2>1, <2>2, EndCounts DEF RunType, NoMintMade, OlderKept
<1>7. CASE Rest \/ Hold \/ SpotSell
  BY <1>7, EndCounts DEF Rest, Hold, SpotSell
<1> QED BY <1>1, <1>2, <1>3, <1>4, <1>5, <1>6, <1>7 DEF Agent

(* The steps of the mint. *)
LEMMA SendMintCounts ==
    ASSUME Typed, Typed', MintsCounted, SendMint
    PROVE MintsCounted'
<1>0. run \in RunType /\ pool \in Seq(TxType) /\ run.step = "send" /\ pool' \in Seq(TxType)
  BY Apart DEF SendMint, Typed, TypeOK, TxType
<1>1. SeenGrows /\ PoolGrows
  BY ClientGrows DEF Client
<1>2. CASE Send("mint", run.left)
           /\ run' = [run EXCEPT !.step = "await", !.got = "none", !.minted = @ + 1]
           /\ UNCHANGED seen
  <2> DEFINE tx == [kind |-> "mint", units |-> run.left, job |-> run.job, clean |-> run.clean]
  <2>1. pool' = Append(pool, tx)
    BY <1>2 DEF Send
  <2>2. Len(pool') = Len(pool) + 1 /\ Len(pool) \in Nat
    BY <1>0, <1>2, Growing, LenProperties
  <2>3. pool'[Len(pool')] = tx
    BY <1>0, <2>1, <2>2
  <2>4. run.older \in Nat /\ run.older <= Len(pool) /\ (~Doubt => run.minted = 0)
    BY <1>0, DeskAssumption DEF MintsCounted, RunType
  <2>5. run'.older = run.older /\ run'.minted = run.minted + 1 /\ run'.step = "await"
          /\ run'.got = "none"
    BY <1>0, <1>2 DEF RunType
  <2>6. Doubt' <=> Doubt
    BY <1>2 DEF Doubt
  <2>7. pool' # <<>>
    BY <1>0, <2>2
  <2> QED BY <2>2, <2>3, <2>4, <2>5, <2>6, <2>7 DEF MintsCounted
<1>3. CASE Fault("send") /\ run' = Retried(run)
  <2>1. run'.step \in {"idle", "send"} /\ (run'.minted = 0 \/ run'.minted = run.minted)
    BY <1>0, <1>3, RetriedTyped
  <2>2. run'.older \in {0, run.older}
    BY <1>0, <1>3 DEF Retried, NoRun, RunType
  <2>3. NoMintMade /\ OlderKept
    BY <1>0, <2>1, <2>2 DEF NoMintMade, OlderKept
  <2> QED BY <1>1, <2>3, NoneCounted
<1>4. CASE Fault("lost") /\ run' = Retried([run EXCEPT !.minted = @ + 1])
  <2>1. "lost" \in seen'.faults
    BY <1>4, FaultTyped
  <2>2. Doubt'
    BY <2>1 DEF Doubt
  <2> DEFINE r == [run EXCEPT !.minted = @ + 1]
  <2>a. run.minted + 1 \in Nat
    BY <1>0 DEF RunType
  <2>3. r \in RunType /\ r.older = run.older
    BY <1>0, <2>a DEF RunType
  <2> HIDE DEF r
  <2>4. run' = Retried(r)
    BY <1>4 DEF r
  <2>5. run'.older \in {0, run.older}
    BY <2>3, <2>4 DEF Retried, NoRun, RunType
  <2>6. run.older \in Nat /\ run.older <= Len(pool) /\ Len(pool) \in Nat /\ Len(pool') \in Nat
          /\ Len(pool') >= Len(pool)
    BY <1>0, <1>1, LenProperties, DeskAssumption DEF MintsCounted, PoolGrows, RunType
  <2> QED BY <2>2, <2>5, <2>6 DEF MintsCounted
<1> QED BY <1>2, <1>3, <1>4 DEF SendMint

(* A mint is tried again only when it failed, or in doubt. *)
LEMMA AwaitMintCounts ==
    ASSUME Typed, Typed', MintsCounted, AwaitMint
    PROVE MintsCounted'
<1>0. run \in RunType /\ run.step = "await" /\ UNCHANGED pool
  BY Apart DEF AwaitMint
<1>1. SeenGrows /\ PoolGrows
  BY ClientGrows DEF Client
<1>2. Doubt => Doubt'
  BY <1>1 DEF Doubt, SeenGrows
<1>3. run.older <= Len(pool) /\ Len(pool) \in Nat
  BY Apart, LenProperties DEF MintsCounted
<1>4. CASE run' = Retried(run)
  <2>1. run'.step \in {"idle", "send"} /\ (run'.minted = 0 \/ run'.minted = run.minted)
    BY <1>0, <1>4, RetriedTyped
  <2>2. run'.older \in {0, run.older}
    BY <1>0, <1>4 DEF Retried, NoRun, RunType
  <2>3. Doubt' \/ (run.got # "none" /\ run.got # "ok")
    <3>1. CASE Fault("timeout")
      <4>1. "timeout" \in seen'.faults
        BY <3>1, FaultTyped
      <4> QED BY <4>1 DEF Doubt
    <3>2. CASE ~Fault("timeout")
      <4>1. run.got # "none" /\ run' = Answered(run)
        BY <3>2 DEF AwaitMint
      <4>2. run.got # "ok"
        <5>1. SUFFICES ASSUME run.got = "ok" PROVE FALSE
          OBVIOUS
        <5>2. run' = [run EXCEPT !.step = "offer"]
          BY <4>1, <5>1 DEF Answered
        <5> QED BY <1>0, <2>1, <5>2 DEF RunType
      <4> QED BY <4>1, <4>2
    <3> QED BY <3>1, <3>2
  <2>4. ~Doubt' => run.minted = 0
    BY <1>0, <1>2, <2>3 DEF MintsCounted
  <2> QED BY <1>0, <1>3, <2>1, <2>2, <2>4 DEF MintsCounted
<1>5. CASE run' = [run EXCEPT !.step = "offer"]
  BY <1>0, <1>2, <1>3, <1>5 DEF MintsCounted, RunType
<1> QED BY <1>4, <1>5 DEF AwaitMint, Answered

(* The receipt that a decision waits for is that of its own mint. *)
LEMMA MineCounts ==
    ASSUME Typed, Typed', MintsCounted, Mine
    PROVE MintsCounted'
<1> DEFINE tx == Head(pool)
<1>0. run \in RunType /\ pool \in Seq(TxType) /\ pool # <<>> /\ pool' = Tail(pool)
  BY Apart DEF Mine
<1>1. Len(pool) \in Nat \ {0} /\ Len(pool') = Len(pool) - 1 /\ tx = pool[1]
  BY <1>0
<1>2. SeenGrows
  BY Growing DEF Mine
<1>3. Doubt => Doubt'
  BY <1>2 DEF Doubt, SeenGrows
<1>4. PICK result \in {"ok", "failed"} : Receipt(tx, result)
  BY DEF Mine
<1>5. /\ run'.older = Minus(run.older, 1)
      /\ run'.step = run.step
      /\ run'.got = IF Len(pool) = 1 /\ run.step \in {"await", "settle"} THEN result ELSE run.got
      /\ run'.minted = IF tx.kind = "mint" /\ run.older = 0 /\ result = "failed"
                         THEN Minus(run.minted, 1) ELSE run.minted
  BY <1>0, <1>4 DEF Receipt, RunType
<1>6. run.older \in Nat /\ run.older <= Len(pool) /\ run.minted \in Nat
  BY <1>0, DeskAssumption DEF MintsCounted, RunType
<1>7. run'.older <= Len(pool')
  BY <1>1, <1>5, <1>6 DEF Minus
<1>8. run'.minted <= run.minted /\ run'.minted \in Nat
  BY <1>5, <1>6 DEF Minus
<1>9. ASSUME ~Doubt', run.step = "await"
      PROVE \/ /\ run'.got = "none" /\ pool' # <<>> /\ pool'[Len(pool')].kind = "mint"
               /\ run'.older < Len(pool')
            \/ run'.got = "ok" /\ pool' = <<>>
            \/ run'.got = "failed" /\ pool' = <<>> /\ run'.minted = 0
  <2>1. /\ run.got = "none" /\ pool[Len(pool)].kind = "mint" /\ run.older < Len(pool)
        /\ run.minted <= 1
    BY <1>0, <1>3, <1>9 DEF MintsCounted
  <2>2. CASE Len(pool) = 1
    <3>1. run'.got = result /\ pool' = <<>> /\ tx.kind = "mint" /\ run.older = 0
      BY <1>0, <1>1, <1>5, <1>6, <1>9, <2>1, <2>2
    <3>2. result = "failed" => run'.minted = 0
      BY <1>5, <1>6, <2>1, <3>1 DEF Minus
    <3> QED BY <3>1, <3>2
  <2>3. CASE Len(pool) # 1
    <3>1. run'.got = "none"
      BY <1>5, <2>1, <2>3
    <3>a. \A i \in 1 .. Len(pool') : pool'[i] = pool[i + 1]
      BY <1>0, HeadTailProperties
    <3>b. Len(pool') \in Nat \ {0} /\ Len(pool') + 1 = Len(pool)
      BY <1>1, <2>3
    <3>2. pool' # <<>> /\ pool'[Len(pool')] = pool[Len(pool)]
      BY <3>a, <3>b
    <3>3. run'.older < Len(pool')
      BY <1>1, <1>5, <1>6, <2>1, <2>3 DEF Minus
    <3> QED BY <2>1, <3>1, <3>2, <3>3
  <2> QED BY <2>2, <2>3
<1> QED BY <1>3, <1>5, <1>6, <1>7, <1>8, <1>9 DEF MintsCounted

(* Every step keeps the count. *)
LEMMA NextCounts ==
    ASSUME Typed, Typed', MintsCounted, [Next]_deskVars
    PROVE MintsCounted'
<1>1. CASE Client
  <2>1. CASE OfferMinted
    <3>1. NoMintMade /\ OlderKept
      BY <2>1, FinishCounts DEF OfferMinted
    <3> QED BY <1>1, <3>1, ClientGrows, NoneCounted
  <2>2. CASE ~SendMint /\ ~AwaitMint /\ ~OfferMinted
    BY <1>1, <2>2, ClientCounts, ClientGrows, NoneCounted
  <2> QED BY <2>1, <2>2, SendMintCounts, AwaitMintCounts
<1>2. CASE Agent
  BY <1>2, AgentCounts, AgentGrows, NoneCounted
<1>3. CASE Mine
  BY <1>3, MineCounts
<1>4. CASE Crash
  <2>1. Over /\ UNCHANGED pool /\ Fault("crash")
    BY <1>4 DEF Crash, Over
  <2> QED BY <2>1, EndCounts, Growing, NoneCounted
<1>5. CASE UNCHANGED deskVars
  BY <1>5 DEF deskVars, MintsCounted, Doubt
<1> QED BY <1>1, <1>2, <1>3, <1>4, <1>5 DEF Next

(* One decision to mint has more than one mint that may yet be good only     *)
(* after a confirmation that timed out or an answer that was lost.           *)
THEOREM RetryNeedsDoubt == Spec => []ExtraMintNeedsDoubt
<1> DEFINE I == Typed /\ MintsCounted
<1>1. Init => I
  <2>1. Init => run.older = 0 /\ run.minted = 0 /\ run.step = "idle" /\ pool = <<>>
    BY DEF Init, NoRun
  <2>2. Init => MintsCounted
    BY <2>1 DEF MintsCounted
  <2> QED BY <2>2, InitTyped
<1>2. I /\ [Next]_deskVars => I'
  BY NextTyped, NextCounts
<1>3. I => ExtraMintNeedsDoubt
  <2>1. Typed => run.minted \in Nat
    BY Apart DEF RunType
  <2> QED BY <2>1 DEF MintsCounted, Doubt, ExtraMintNeedsDoubt
<1> QED BY <1>1, <1>2, <1>3, PTL DEF Spec

-----------------------------------------------------------------------------
(* The campaign's burns. *)

(* A burn that is offered stops at the target. *)
LEMMA OfferFits ==
    ASSUME Typed, NEW stakeOnly \in BOOLEAN,
           NEW choice \in Offers(Replanned(desk.plan, acct), stakeOnly),
           choice # None, choice.kind = "burn"
    PROVE Fits(acct, choice.units)
<1> DEFINE plan == Replanned(desk.plan, acct)
           m == MaxLocked(acct, Target)
           e == acct.locked - m
           s == StepsLeft(plan)
<1>1. choice \in Options(plan, acct, stakeOnly) /\ plan # None
  BY DEF Offers
<1>2. choice \in BurnSteps(plan, acct)
  BY <1>1 DEF Options, StakeSteps, Step
<1>3. PICK k \in 1 .. Unlock(plan, acct) : Burnable(acct, k) /\ choice = Step("burn", k)
  BY <1>2 DEF BurnSteps
<1>4. k \in Nat \ {0} /\ k <= Unlock(plan, acct) /\ choice.units = k
  BY <1>3 DEF Step
<1>5. m \in Int /\ acct.locked \in Nat
  BY Apart, LockedShare, RecoveryAssumption DEF AcctType
<1>6. acct.locked > m
  BY <1>1, <1>5 DEF Replanned
<1>7. e \in Nat \ {0}
  BY <1>5, <1>6
<1>8. s \in Nat \ {0}
  BY <1>1, PlanTyped, Profile DEF StepsLeft
<1>9. k <= CeilDiv(CeilDiv(e, s), Rate)
  BY <1>4 DEF Unlock
<1>10. Rate \in Nat \ {0}
  BY DeskAssumption
<1> HIDE DEF m, e, s, plan
<1>11. Rate * k < e + Rate
  BY <1>4, <1>7, <1>8, <1>9, <1>10, UnlockStops
<1>12. Rate * k \in Nat
  BY <1>4, <1>10, SMT
<1>13. acct.locked + Rate > m + Rate * k
  <2>1. e = acct.locked - m
    BY DEF e
  <2> HIDE DEF e
  <2> QED BY <1>5, <1>7, <1>10, <1>11, <1>12, <2>1
<1> QED BY <1>3, <1>4, <1>13 DEF Fits, m

(* What DIEM and sVVV decide. *)
LEMMA FitsKept ==
    ASSUME acct'.free = acct.free, acct'.locked = acct.locked, acct'.diem = acct.diem
    PROVE \A n : Fits(acct, n) => Fits(acct', n)
  BY DEF Fits, Burnable, MaxLocked, Total

(* A transaction joins the pool; a burn of the campaign only behind swaps.   *)
Joins(tx) ==
    /\ pool' = Append(pool, tx)
    /\ CampaignBurn(tx) => OnlySwaps /\ Fits(acct, tx.units)

(* Where the account stays, what joins the pool must fit itself. *)
LEMMA PoolFitsKept ==
    ASSUME Typed, PoolFits, UNCHANGED acct,
           \/ UNCHANGED pool
           \/ \E tx \in TxType : Joins(tx)
    PROVE PoolFits'
<1>1. \A n : Fits(acct, n) => Fits(acct', n)
  BY FitsKept
<1>2. CASE UNCHANGED pool
  BY <1>1, <1>2 DEF PoolFits, CampaignBurn
<1>3. CASE \E tx \in TxType : Joins(tx)
  <2>1. PICK tx \in TxType : Joins(tx)
    BY <1>3
  <2>2. pool \in Seq(TxType) /\ Len(pool) \in Nat
    BY Apart, LenProperties
  <2>3. Len(pool') = Len(pool) + 1
    BY <2>1, <2>2 DEF Joins
  <2>4. DOMAIN pool = 1 .. Len(pool) /\ DOMAIN pool' = 1 .. Len(pool) + 1
    <3>1. DOMAIN pool = 1 .. Len(pool)
      BY <2>2, LenProperties
    <3>2. pool' \in Seq(TxType)
      BY <2>1, <2>2 DEF Joins
    <3>3. DOMAIN pool' = 1 .. Len(pool')
      BY <3>2, LenProperties
    <3> QED BY <2>3, <3>1, <3>3
  <2>5. \A i \in 1 .. Len(pool) : pool'[i] = pool[i]
    BY <2>1, <2>2 DEF Joins
  <2>6. pool'[Len(pool) + 1] = tx
    BY <2>1, <2>2 DEF Joins
  <2>7. ASSUME NEW i \in DOMAIN pool', CampaignBurn(pool'[i])
        PROVE Fits(acct', pool'[i].units) /\ \A j \in 1 .. i - 1 : pool'[j].kind = "swap"
    <3>1. CASE i \in 1 .. Len(pool)
      <4>1. pool'[i] = pool[i] /\ \A j \in 1 .. i - 1 : pool'[j] = pool[j]
        BY <2>2, <2>5, <3>1
      <4>2. Fits(acct, pool[i].units) /\ \A j \in 1 .. i - 1 : pool[j].kind = "swap"
        BY <2>4, <2>7, <3>1, <4>1 DEF PoolFits
      <4> QED BY <1>1, <4>1, <4>2
    <3>2. CASE i = Len(pool) + 1
      <4>1. pool'[i] = tx
        BY <2>6, <3>2
      <4>2. CampaignBurn(tx)
        BY <2>7, <4>1
      <4>3. OnlySwaps /\ Fits(acct, tx.units)
        BY <2>1, <4>2 DEF Joins
      <4>4. \A j \in 1 .. i - 1 : pool'[j] = pool[j] /\ j \in DOMAIN pool
        BY <2>2, <2>4, <2>5, <3>2
      <4>5. \A j \in 1 .. i - 1 : pool'[j].kind = "swap"
        BY <4>3, <4>4 DEF OnlySwaps
      <4> QED BY <1>1, <4>1, <4>3, <4>5
    <3> QED BY <2>2, <2>4, <3>1, <3>2
  <2> QED BY <2>7 DEF PoolFits, CampaignBurn
<1> QED BY <1>2, <1>3

(* A step that leaves the account alone and owes nothing of the campaign. *)
LEMMA OutsideKept ==
    ASSUME run'.step # "planned", run'.clean => run'.step \notin {"decided", "weighed"},
           run'.clean => run'.job # "recovery" \/ run'.step = "idle",
           run'.falls => run'.job = "recovery"
    PROVE RunKept'
  BY DEF RunKept

(* The end of a decision: over, or on to trade with the pool as it was. *)
LEMMA EndKept ==
    ASSUME Typed, RunKept, UNCHANGED acct,
           run.step \in {"cover", "burn", "buy", "mint", "sale", "send", "await", "offer",
                         "owed", "swap", "settle"},
           Over \/ (Failed /\ UNCHANGED pool)
    PROVE RunKept'
<1>1. CASE Over
  BY <1>1, OutsideKept DEF Over, NoRun
<1>2. CASE Failed /\ run.falls /\ UNCHANGED pool
  <2>1. run' = [NoRun EXCEPT !.step = "weighed", !.job = "trade", !.mode = run.mode,
                             !.look = run.look, !.clean = run.clean, !.older = run.older]
    BY <1>2 DEF Failed
  <2>2. run'.step = "weighed" /\ run'.job = "trade" /\ run'.look = run.look
          /\ run'.clean = run.clean /\ run'.falls = FALSE
    BY <2>1 DEF NoRun
  <2>3. run.clean => OnlySwaps /\ run.look = acct.diem
    BY <1>2 DEF RunKept
  <2>4. OnlySwaps => OnlySwaps'
    BY <1>2 DEF OnlySwaps
  <2> QED BY <2>2, <2>3, <2>4 DEF RunKept
<1>3. CASE Failed /\ ~run.falls
  BY <1>3, OutsideKept DEF Failed, NoRun
<1> QED BY <1>1, <1>2, <1>3

(* A step of a decision that is not a recovery begun with nothing in the air. *)
LEMMA TradeKept ==
    ASSUME RunKept, run.clean => run.job # "recovery", run.step # "planned",
           run'.step \notin {"planned", "decided", "weighed"},
           run'.job = run.job, run'.clean = run.clean, run'.falls = run.falls
    PROVE RunKept'
<1>1. run'.clean => run'.job # "recovery" \/ run'.step = "idle"
  OBVIOUS
<1>2. run'.falls => run'.job = "recovery"
  BY DEF RunKept
<1> QED BY <1>1, <1>2, OutsideKept

(* A clean recovery goes on as it began. *)
LEMMA RecoveryKept ==
    ASSUME RunKept, UNCHANGED acct, run.clean, run.job = "recovery",
           run.step \in {"cover", "burn", "owed", "swap", "settle"},
           run'.step \in {"burn", "settle"},
           run'.job = run.job, run'.clean = run.clean, run'.falls = run.falls,
           run'.look = run.look, run'.left = run.left,
           run'.step = "burn" => run.step = "cover" /\ run'.use = run'.left,
           OnlySwaps => OnlySwaps'
    PROVE RunKept'
<1>1. OnlySwaps' /\ run'.look = acct'.diem /\ (run.step \in {"cover", "burn"} => Fits(acct, run.left))
  BY DEF RunKept
<1>2. run'.step = "burn" => Fits(acct', run'.left)
  BY <1>1, FitsKept
<1> QED BY <1>1, <1>2 DEF RunKept

(* A transaction other than a burn may join the pool. *)
LEMMA SendJoins ==
    ASSUME Typed, Typed', NEW kind, NEW units, Send(kind, units), kind # "burn"
    PROVE \E tx \in TxType : Joins(tx)
<1> DEFINE tx == [kind |-> kind, units |-> units, job |-> run.job, clean |-> run.clean]
<1>1. pool' = Append(pool, tx)
  BY DEF Send
<1>2. pool \in Seq(TxType) /\ pool' \in Seq(TxType) /\ Len(pool) \in Nat
  BY Apart, LenProperties DEF Typed, TypeOK, TxType
<1>3. ~CampaignBurn(tx)
  BY DEF CampaignBurn
<1> HIDE DEF tx
<1>4. pool'[Len(pool) + 1] = tx /\ Len(pool') = Len(pool) + 1
  BY <1>1, <1>2
<1>5. tx \in TxType
  BY <1>2, <1>4, ElementOfSeq
<1> QED BY <1>1, <1>3, <1>5 DEF Joins

(* Swaps may follow swaps. *)
LEMMA SwapsAppended ==
    ASSUME pool \in Seq(TxType), OnlySwaps, NEW tx, tx.kind = "swap", pool' = Append(pool, tx)
    PROVE OnlySwaps'
<1>1. Len(pool) \in Nat /\ DOMAIN pool = 1 .. Len(pool)
  BY LenProperties
<1>2. DOMAIN pool' = 1 .. Len(pool) + 1
  BY <1>1
<1>3. \A i \in 1 .. Len(pool) : pool'[i] = pool[i]
  BY <1>1
<1>4. pool'[Len(pool) + 1] = tx
  BY <1>1
<1>5. ASSUME NEW i \in DOMAIN pool'
      PROVE pool'[i].kind = "swap"
  <2>1. CASE i \in 1 .. Len(pool)
    BY <1>1, <1>3, <2>1 DEF OnlySwaps
  <2>2. CASE i = Len(pool) + 1
    BY <1>4, <2>2
  <2> QED BY <1>1, <1>2, <2>1, <2>2
<1> QED BY <1>5 DEF OnlySwaps

(* The steps of a call keep the pool as the campaign needs it. *)
LEMMA ClientPool ==
    ASSUME Typed, Typed', RunKept, PoolFits, Client
    PROVE PoolFits'
<1>1. UNCHANGED acct
  BY DEF Client, SellFirst, CheckMint, SendMint, AwaitMint, OfferMinted, CoverBurn, BurnWallet,
         BuyRest, StakeOwed, SwapForVVV, StakeSwapped, SwapTimesOut
<1>2. CASE UNCHANGED pool
  BY <1>1, <1>2, PoolFitsKept
<1>3. CASE \E kind, units : Send(kind, units) /\ kind # "burn"
  BY <1>1, <1>3, SendJoins, PoolFitsKept
<1>4. CASE BurnWallet
  <2>1. CASE Burnable(acct, run.use) /\ Send("burn", run.use)
    <3> DEFINE tx == [kind |-> "burn", units |-> run.use, job |-> run.job, clean |-> run.clean]
    <3>1. pool' = Append(pool, tx)
      BY <2>1 DEF Send
    <3>2. run.step = "burn" /\ run.use \in Nat \ {0} /\ run.job \in {"trade", "recovery"}
      BY <1>4, Amounts, Apart DEF BurnWallet, RunType
    <3>3. tx \in TxType
      BY <3>2, KindNames, Apart DEF TxType, RunType
    <3>4. CampaignBurn(tx) => OnlySwaps /\ Fits(acct, tx.units)
      BY <3>2 DEF CampaignBurn, RunKept
    <3> QED BY <1>1, <3>1, <3>3, <3>4, PoolFitsKept DEF Joins
  <2> QED BY <1>2, <1>4, <2>1 DEF BurnWallet
<1>5. ASSUME NEW kind \in {"mint", "sell", "buy", "swap", "stake"}, NEW units, Send(kind, units)
      PROVE PoolFits'
  BY <1>3, <1>5
<1>6. CASE SellFirst \/ OfferMinted
  BY <1>2, <1>5, <1>6 DEF SellFirst, OfferMinted
<1>7. CASE SendMint \/ BuyRest \/ SwapForVVV
  BY <1>2, <1>5, <1>7 DEF SendMint, BuyRest, SwapForVVV
<1>8. CASE StakeOwed \/ StakeSwapped
  BY <1>2, <1>5, <1>8 DEF StakeOwed, StakeSwapped, StakeVVV
<1>9. CASE CheckMint \/ AwaitMint \/ CoverBurn \/ SwapTimesOut
  BY <1>2, <1>9 DEF CheckMint, AwaitMint, CoverBurn, SwapTimesOut
<1> QED BY <1>4, <1>6, <1>7, <1>8, <1>9 DEF Client

(* A call's end, as EndKept asks for it. *)
LEMMA FinishKept ==
    ASSUME Typed, RunKept, UNCHANGED acct, NEW executed \in BOOLEAN, Finish(executed),
           executed \/ UNCHANGED pool,
           run.step \in {"cover", "burn", "buy", "mint", "sale", "send", "await", "offer",
                         "owed", "swap", "settle"}
    PROVE RunKept'
  BY EndKept DEF Finish

(* A burn of a clean recovery is all of what the wallet can burn. *)
LEMMA CoverBurnKept ==
    ASSUME Typed, RunKept, CoverBurn
    PROVE RunKept'
<1> DEFINE use == LeastOf(run.look, run.left)
<1>0. run \in RunType /\ run.step = "cover" /\ UNCHANGED <<acct, pool>>
  BY Apart DEF CoverBurn
<1>1. run.left \in Nat \ {0} /\ run.look \in Nat /\ use \in Nat
  BY <1>0, Amounts DEF Working, LeastOf
<1>2. ASSUME run.clean, run.job = "recovery"
      PROVE use = run.left /\ BurnPart(acct, use) = run.left
  <2>1. run.look = acct.diem /\ Fits(acct, run.left)
    BY <1>0, <1>2 DEF RunKept
  <2>2. acct.diem >= run.left /\ Burnable(acct, run.left)
    BY <2>1 DEF Fits, Burnable
  <2>3. use = run.left
    BY <1>1, <2>1, <2>2 DEF LeastOf
  <2> QED BY <2>2, <2>3 DEF BurnPart
<1>3. CASE use = 0 /\ Go("buy")
  <2>1. run.clean => run.job # "recovery"
    BY <1>1, <1>2, <1>3
  <2>2. run' = [run EXCEPT !.step = "buy"]
    BY <1>3 DEF Go
  <2>3. run'.step = "buy" /\ run'.job = run.job /\ run'.clean = run.clean /\ run'.falls = run.falls
    BY <1>0, <2>2 DEF RunType
  <2> QED BY <1>0, <2>1, <2>3, TradeKept
<1>4. CASE run' = [run EXCEPT !.step = "burn", !.use = BurnPart(acct, use)]
  <2>1. /\ run'.step = "burn" /\ run'.use = BurnPart(acct, use)
        /\ run'.job = run.job /\ run'.clean = run.clean /\ run'.falls = run.falls
        /\ run'.look = run.look /\ run'.left = run.left
    BY <1>0, <1>4 DEF RunType
  <2>2. CASE run.clean /\ run.job = "recovery"
    <3>1. run'.use = run'.left
      BY <1>2, <2>1, <2>2
    <3>2. OnlySwaps => OnlySwaps'
      BY <1>0 DEF OnlySwaps
    <3> QED BY <1>0, <2>1, <2>2, <3>1, <3>2, RecoveryKept
  <2>3. CASE ~(run.clean /\ run.job = "recovery")
    BY <1>0, <2>1, <2>3, TradeKept
  <2> QED BY <2>2, <2>3
<1>5. CASE Finish(FALSE)
  BY <1>0, <1>5, FinishKept
<1> QED BY <1>3, <1>4, <1>5 DEF CoverBurn

(* The other steps of a call. *)
LEMMA ClientKept ==
    ASSUME Typed, RunKept, Client
    PROVE RunKept'
<1>0. run \in RunType /\ UNCHANGED acct
  BY Apart
  DEF Client, SellFirst, CheckMint, SendMint, AwaitMint, OfferMinted, CoverBurn, BurnWallet,
      BuyRest, StakeOwed, SwapForVVV, StakeSwapped, SwapTimesOut
<1>1. CASE SellFirst
  <2>1. run.step = "sale" /\ (run.clean => run.job # "recovery")
    BY <1>1 DEF SellFirst, RunKept
  <2>2. CASE run' = [AfterSale(run) EXCEPT !.step = "mint"]
    <3>1. run'.step = "mint" /\ run'.job = run.job /\ run'.clean = run.clean
            /\ run'.falls = run.falls
      BY <1>0, <2>2 DEF AfterSale, RunType
    <3> QED BY <2>1, <3>1, TradeKept
  <2>3. CASE Finish(TRUE)
    BY <1>0, <2>1, <2>3, FinishKept
  <2> QED BY <1>1, <2>2, <2>3 DEF SellFirst
<1>2. CASE CheckMint
  <2>1. run.step = "mint" /\ UNCHANGED pool /\ (run.clean => run.job # "recovery")
    BY <1>2 DEF CheckMint, RunKept
  <2>2. CASE run' = [run EXCEPT !.step = "send", !.attempt = 1]
    <3>1. run'.step = "send" /\ run'.job = run.job /\ run'.clean = run.clean
            /\ run'.falls = run.falls
      BY <1>0, <2>2 DEF RunType
    <3> QED BY <2>1, <3>1, TradeKept
  <2>3. CASE run' = NoRun
    BY <1>0, <2>1, <2>3, EndKept DEF Over
  <2>4. CASE Finish(FALSE)
    BY <1>0, <2>1, <2>4, FinishKept
  <2> QED BY <1>2, <2>2, <2>3, <2>4 DEF CheckMint
<1>3. CASE SendMint \/ AwaitMint
  <2>1. run.step \in {"send", "await"} /\ (run.clean => run.job # "recovery")
    BY <1>3 DEF SendMint, AwaitMint, RunKept
  <2>2. ASSUME NEW r \in RunType, run' = Retried(r), r.job = run.job, r.clean = run.clean,
               r.falls = run.falls
        PROVE RunKept'
    <3>1. CASE run' = NoRun
      BY <1>0, <2>1, <3>1, EndKept DEF Over
    <3>2. CASE run' = [r EXCEPT !.step = "send", !.attempt = @ + 1]
      <4>1. run'.step = "send" /\ run'.job = run.job /\ run'.clean = run.clean
              /\ run'.falls = run.falls
        BY <2>2, <3>2 DEF RunType
      <4> QED BY <2>1, <4>1, TradeKept
    <3> QED BY <2>2, <3>1, <3>2 DEF Retried
  <2>3. CASE run' = [run EXCEPT !.step = "await", !.got = "none", !.minted = @ + 1]
              \/ run' = [run EXCEPT !.step = "offer"]
    <3>1. run'.step \in {"await", "offer"} /\ run'.job = run.job /\ run'.clean = run.clean
            /\ run'.falls = run.falls
      BY <1>0, <2>3 DEF RunType
    <3> QED BY <2>1, <3>1, TradeKept
  <2>4. CASE run' = Retried(run)
    BY <1>0, <2>2, <2>4
  <2>5. CASE run' = Retried([run EXCEPT !.minted = @ + 1])
    <3> DEFINE r == [run EXCEPT !.minted = @ + 1]
    <3>a. run.minted + 1 \in Nat
      BY <1>0 DEF RunType
    <3>1. r \in RunType /\ r.job = run.job /\ r.clean = run.clean /\ r.falls = run.falls
      BY <1>0, <3>a DEF RunType
    <3> QED BY <2>2, <2>5, <3>1
  <2> QED BY <1>3, <2>3, <2>4, <2>5 DEF SendMint, AwaitMint, Answered
<1>4. CASE OfferMinted \/ BuyRest
  BY <1>0, <1>4, FinishKept DEF OfferMinted, BuyRest
<1>5. CASE CoverBurn
  BY <1>5, CoverBurnKept
<1>6. CASE BurnWallet
  <2> DEFINE left == run.left - run.use
  <2>1. run.step = "burn"
    BY <1>6 DEF BurnWallet
  <2>2. CASE left > 0 /\ run' = [run EXCEPT !.step = "buy", !.left = left]
    <3>1. run'.step = "buy" /\ run'.job = run.job /\ run'.clean = run.clean
            /\ run'.falls = run.falls
      BY <1>0, <2>2 DEF RunType
    <3>2. run.clean /\ run.job = "recovery" => run.use = run.left
      BY <2>1 DEF RunKept
    <3>3. run.left \in Nat
      BY <1>0 DEF RunType
    <3>4. run.clean => run.job # "recovery"
      BY <2>2, <3>2, <3>3
    <3> QED BY <2>1, <3>1, <3>4, TradeKept
  <2>3. CASE Finish(TRUE) \/ (Finish(FALSE) /\ UNCHANGED pool)
    BY <1>0, <2>1, <2>3, FinishKept
  <2> QED BY <1>6, <2>2, <2>3 DEF BurnWallet
<1>7. CASE StakeOwed \/ StakeSwapped
  <2>1. Over \/ (Failed /\ UNCHANGED pool)
    BY <1>7 DEF StakeOwed, StakeSwapped, StakeVVV, Over
  <2>2. run.step \in {"owed", "settle"}
    BY <1>7 DEF StakeOwed, StakeSwapped
  <2> QED BY <1>0, <2>1, <2>2, EndKept
<1>8. CASE SwapForVVV
  <2>1. CASE Send("swap", run.left)
              /\ run' = [run EXCEPT !.step = "settle", !.got = "none", !.before = acct.vvv]
    <3>1. /\ run'.step = "settle" /\ run'.job = run.job /\ run'.clean = run.clean
          /\ run'.falls = run.falls /\ run'.look = run.look /\ run'.left = run.left
      BY <1>0, <2>1 DEF RunType
    <3>2. OnlySwaps => OnlySwaps'
      BY <2>1, Apart, SwapsAppended DEF Send
    <3>3. run.step = "swap"
      BY <1>8 DEF SwapForVVV
    <3> QED BY <1>0, <3>1, <3>2, <3>3, TradeKept, RecoveryKept
  <2>2. CASE Finish(FALSE) /\ UNCHANGED pool
    BY <1>0, <1>8, <2>2, FinishKept DEF SwapForVVV
  <2> QED BY <1>8, <2>1, <2>2 DEF SwapForVVV
<1>9. CASE SwapTimesOut
  <2>1. run.step = "settle" /\ UNCHANGED pool /\ run' = [run EXCEPT !.got = "unknown"]
    BY <1>9 DEF SwapTimesOut
  <2>2. /\ run'.step = "settle" /\ run'.job = run.job /\ run'.clean = run.clean
        /\ run'.falls = run.falls /\ run'.look = run.look /\ run'.left = run.left
    BY <1>0, <2>1 DEF RunType
  <2>3. OnlySwaps => OnlySwaps'
    BY <2>1 DEF OnlySwaps
  <2> QED BY <1>0, <2>1, <2>2, <2>3, TradeKept, RecoveryKept
<1> QED BY <1>1, <1>2, <1>3, <1>4, <1>5, <1>6, <1>7, <1>8, <1>9 DEF Client

(* A recovery started from a decision that began with nothing in the air. *)
LEMMA ReliefKept ==
    ASSUME Typed, RunKept, UNCHANGED <<acct, pool>>, run.step \in {"decided", "weighed"},
           NEW stakeOnly \in BOOLEAN, NEW falls \in BOOLEAN, Relief(stakeOnly, falls)
    PROVE RunKept'
<1> DEFINE plan == Replanned(desk.plan, acct)
<1>0. run \in RunType /\ run.job = "trade"
  BY Apart DEF Typed, Sized
<1>1. PICK choice \in Offers(plan, stakeOnly) :
        IF choice # None /\ MayAct("recovery")
          THEN run' = [StartRecovery(choice, run) EXCEPT !.falls = falls]
          ELSE IF falls THEN Go("weighed") ELSE Over
  BY DEF Relief
<1>2. run.clean => OnlySwaps /\ run.look = acct.diem
  BY DEF RunKept
<1>3. OnlySwaps => OnlySwaps'
  BY DEF OnlySwaps
<1>4. CASE choice # None /\ MayAct("recovery")
  <2>1. choice.kind = "burn" => Fits(acct, choice.units)
    BY <1>4, OfferFits
  <2>2. choice.kind = "burn" => Fits(acct', choice.units)
    BY <2>1, FitsKept
  <2>3. StepOf(choice) \in {"cover", "owed", "swap"} /\ (StepOf(choice) = "cover" => choice.kind = "burn")
    BY DEF StepOf
  <2> DEFINE s == StartRecovery(choice, run)
  <2>4. /\ s.step = StepOf(choice) /\ s.job = "recovery" /\ s.left = choice.units
        /\ s.look = run.look /\ s.clean = run.clean
        /\ DOMAIN s = DOMAIN run /\ s = [x \in DOMAIN s |-> s[x]]
    BY <1>0 DEF StartRecovery, RunType
  <2>5. run' = [s EXCEPT !.falls = falls]
    BY <1>1, <1>4
  <2> HIDE DEF s
  <2>6. /\ run'.step = StepOf(choice) /\ run'.job = "recovery" /\ run'.left = choice.units
        /\ run'.look = run.look /\ run'.clean = run.clean
    BY <2>4, <2>5
  <2>7. run'.clean => OnlySwaps' /\ run'.look = acct'.diem
    BY <1>2, <1>3, <2>6
  <2> QED BY <2>2, <2>3, <2>6, <2>7 DEF RunKept
<1>5. CASE ~(choice # None /\ MayAct("recovery")) /\ falls
  <2>1. run' = [run EXCEPT !.step = "weighed"]
    BY <1>1, <1>5 DEF Go
  <2>2. run'.step = "weighed" /\ run'.job = "trade" /\ run'.look = run.look
          /\ run'.clean = run.clean /\ run'.falls = run.falls
    BY <1>0, <2>1 DEF RunType
  <2>3. ~run.falls
    BY <1>0 DEF RunKept
  <2> QED BY <1>2, <1>3, <2>2, <2>3 DEF RunKept
<1>6. CASE Over
  BY <1>6, OutsideKept DEF Over, NoRun
<1> QED BY <1>1, <1>4, <1>5, <1>6

(* What a simulated decision plans. *)
LEMMA SimulateKept ==
    ASSUME Typed, RunKept, Simulate
    PROVE RunKept'
<1>1. PICK mode \in env.modes, want \in env.wants :
         LET asks == Asks(mode, acct.diem, want)
             plan == IF asks THEN Replanned(desk.plan, acct) ELSE desk.plan IN
         \E choice \in IF asks THEN Offers(plan, mode = "stuck") ELSE {None} :
            /\ desk' = [Aged(desk) EXCEPT !.plan = plan,
                          !.pending = IF choice = None THEN None
                                      ELSE [option |-> choice, look |-> acct.diem,
                                            clean |-> pool = <<>>]]
            /\ run' = [NoRun EXCEPT !.step = "planned", !.mode = mode]
  BY DEF Simulate
<1> DEFINE asks == Asks(mode, acct.diem, want)
           plan == IF asks THEN Replanned(desk.plan, acct) ELSE desk.plan
<1>2. PICK choice \in IF asks THEN Offers(plan, mode = "stuck") ELSE {None} :
            /\ desk' = [Aged(desk) EXCEPT !.plan = plan,
                          !.pending = IF choice = None THEN None
                                      ELSE [option |-> choice, look |-> acct.diem,
                                            clean |-> pool = <<>>]]
            /\ run' = [NoRun EXCEPT !.step = "planned", !.mode = mode]
  BY <1>1
<1>3. ASSUME choice # None, choice.kind = "burn"
      PROVE Fits(acct, choice.units)
  <2>1. asks /\ choice \in Offers(Replanned(desk.plan, acct), mode = "stuck")
    BY <1>2, <1>3
  <2> QED BY <1>3, <2>1, OfferFits
<1> HIDE DEF plan, asks
<1> DEFINE record == [option |-> choice, look |-> acct.diem, clean |-> pool = <<>>]
           pending == IF choice = None THEN None ELSE record
<1>4. record.option = choice /\ record.look = acct.diem /\ (record.clean <=> pool = <<>>)
  OBVIOUS
<1> HIDE DEF record
<1>5. desk'.pending = pending
  <2>1. desk' = [Aged(desk) EXCEPT !.plan = plan, !.pending = pending]
    BY <1>2 DEF record
  <2>2. "pending" \in DOMAIN Aged(desk)
    BY Apart DEF Aged, DeskType
  <2> HIDE DEF pending
  <2> QED BY <2>1, <2>2
<1>6. UNCHANGED <<acct, pool>>
  BY DEF Simulate
<1>7. \A n : Fits(acct, n) => Fits(acct', n)
  BY <1>6, FitsKept
<1>8. run'.step = "planned" /\ run'.clean = FALSE /\ run'.falls = FALSE
  BY <1>2 DEF NoRun
<1>9. desk'.pending # None /\ desk'.pending.clean =>
        /\ pool' = <<>>
        /\ desk'.pending.look = acct'.diem
        /\ desk'.pending.option.kind = "burn" => Fits(acct', desk'.pending.option.units)
  BY <1>3, <1>4, <1>5, <1>6, <1>7
<1> QED BY <1>8, <1>9 DEF RunKept

(* A planned step starts as it was planned. *)
LEMMA RunPendingKept ==
    ASSUME Typed, RunKept, RunPending
    PROVE RunKept'
<1> DEFINE planned == desk.pending
           option == desk.pending.option
<1>0. run \in RunType /\ run.step = "planned" /\ planned # None /\ UNCHANGED <<acct, pool>>
  BY Apart DEF RunPending
<1>1. CASE Over
  BY <1>1, OutsideKept DEF Over, NoRun
<1>2. CASE ~Over
  <2> DEFINE s == StartRecovery(option, run)
  <2>1. run' = [s EXCEPT !.look = planned.look, !.older = Len(pool), !.clean = planned.clean]
    BY <1>2 DEF RunPending
  <2>2. /\ s.step = StepOf(option) /\ s.job = "recovery" /\ s.left = option.units
        /\ s.falls = run.falls
        /\ DOMAIN s = DOMAIN run /\ s = [x \in DOMAIN s |-> s[x]]
        /\ {"look", "older", "clean"} \subseteq DOMAIN s
    BY <1>0 DEF StartRecovery, RunType
  <2> HIDE DEF s
  <2>3. /\ run'.step = StepOf(option) /\ run'.job = "recovery" /\ run'.left = option.units
        /\ run'.look = planned.look /\ run'.clean = planned.clean
    BY <2>1, <2>2
  <2>4. StepOf(option) \in {"cover", "owed", "swap"}
          /\ (StepOf(option) = "cover" => option.kind = "burn")
    BY DEF StepOf
  <2>5. planned.clean => /\ pool = <<>> /\ planned.look = acct.diem
                         /\ option.kind = "burn" => Fits(acct, option.units)
    BY <1>0 DEF RunKept
  <2>6. \A n : Fits(acct, n) => Fits(acct', n)
    BY <1>0, FitsKept
  <2>7. pool = <<>> => OnlySwaps'
    BY <1>0 DEF OnlySwaps
  <2>8. planned.clean => /\ OnlySwaps' /\ run'.look = acct'.diem
                         /\ option.kind = "burn" => Fits(acct', option.units)
    BY <1>0, <2>3, <2>5, <2>6, <2>7
  <2> HIDE DEF planned, option
  <2> QED BY <2>3, <2>4, <2>8 DEF RunKept
<1> QED BY <1>1, <1>2

(* The agent's steps. *)
LEMMA AgentKept ==
    ASSUME Typed, Typed', RunKept, PoolFits, Agent
    PROVE RunKept' /\ PoolFits'
<1>0. run \in RunType /\ UNCHANGED acct
  BY Apart DEF Agent, Simulate, Rest, RunPending, Decide, Recover, MintAndSell, HoldShort,
               SpotSell, BuyAndBurn, Hold
<1>1. PoolFits'
  <2>1. CASE SpotSell
    <3>1. PICK n : Send("sell", n)
      BY <2>1 DEF SpotSell
    <3> QED BY <1>0, <3>1, SendJoins, PoolFitsKept
  <2>2. CASE ~SpotSell
    <3>1. UNCHANGED pool
      BY <2>2 DEF Agent, Simulate, Rest, RunPending, Decide, Recover, MintAndSell, HoldShort,
                  BuyAndBurn, Hold
    <3> QED BY <1>0, <3>1, PoolFitsKept
  <2> QED BY <2>1, <2>2
<1>2. CASE Over
  BY <1>2, <1>1, OutsideKept DEF Over, NoRun
<1>3. CASE Decide
  <2>1. /\ run.step = "planned" /\ UNCHANGED pool
        /\ run' = [run EXCEPT !.step = "decided", !.job = "trade", !.look = acct.diem,
                              !.older = Len(pool), !.clean = (pool = <<>>)]
    BY <1>3 DEF Decide
  <2>2. /\ run'.step = "decided" /\ run'.job = "trade" /\ run'.look = acct.diem
        /\ run'.falls = run.falls
    BY <1>0, <2>1 DEF RunType
  <2>3. run'.clean <=> pool = <<>>
    BY <1>0, <2>1 DEF RunType
  <2>4. ~run.falls
    BY <2>1 DEF RunKept
  <2>5. pool = <<>> => OnlySwaps'
    BY <2>1 DEF OnlySwaps
  <2>6. RunKept'
    BY <1>0, <2>2, <2>3, <2>4, <2>5 DEF RunKept
  <2> QED BY <1>1, <2>6
<1>4. CASE Recover
  BY <1>1, <1>4, ReliefKept DEF Recover
<1>5. CASE HoldShort
  <2>1. run.step \in {"decided", "weighed"} /\ Relief(FALSE, FALSE) /\ UNCHANGED <<acct, pool>>
    BY <1>5 DEF HoldShort, AtPremium
  <2> QED BY <1>1, <2>1, ReliefKept
<1>6. CASE (MintAndSell \/ BuyAndBurn) /\ ~Over
  <2>1. run.step \in {"decided", "weighed"}
    BY <1>6 DEF MintAndSell, BuyAndBurn, AtPremium
  <2>2. run.job = "trade"
    BY <2>1 DEF Typed, Sized
  <2>3. PICK step \in {"sale", "buy", "cover"} :
          \E n : run' = [run EXCEPT !.step = step, !.left = n]
    BY <1>6 DEF MintAndSell, BuyAndBurn, Over
  <2>4. run'.step = step /\ run'.job = run.job /\ run'.clean = run.clean /\ run'.falls = run.falls
    BY <1>0, <2>3 DEF RunType
  <2>5. RunKept'
    BY <2>1, <2>2, <2>4, TradeKept
  <2> QED BY <1>1, <2>5
<1>7. CASE Simulate
  BY <1>1, <1>7, SimulateKept
<1>8. CASE RunPending
  BY <1>1, <1>8, RunPendingKept
<1>9. CASE Rest \/ SpotSell \/ Hold
  BY <1>2, <1>9 DEF Rest, SpotSell, Hold
<1> QED BY <1>2, <1>3, <1>4, <1>5, <1>6, <1>7, <1>8, <1>9 DEF Agent

(* What becomes of the account when the head of the pool is mined. *)
LEMMA MineMoves ==
    ASSUME Typed, Mine, pool[1].kind = "swap"
    PROVE acct'.free = acct.free /\ acct'.locked = acct.locked /\ acct'.diem = acct.diem
<1> DEFINE tx == pool[1]
           n == tx.units
<1>1. Head(pool) = tx /\ acct \in AcctType
  BY Apart DEF Mine
<1>2. Settled(acct, tx) = [acct EXCEPT !.vvv = @ + n, !.usdc = @ - n]
  BY DEF Settled
<1>3. CASE UNCHANGED acct
  BY <1>3
<1>4. CASE acct' = [acct EXCEPT !.vvv = @ + n, !.usdc = @ - n]
  BY <1>1, <1>4 DEF AcctType
<1>5. CASE acct' = [[acct EXCEPT !.vvv = @ + n, !.usdc = @ - n] EXCEPT !.vvv = @ + 1]
  BY <1>1, <1>5 DEF AcctType
<1> QED BY <1>1, <1>2, <1>3, <1>4, <1>5 DEF Mine

(* Mining keeps what the campaign needs: only swaps are before its burns. *)
LEMMA MineKept ==
    ASSUME Typed, RunKept, PoolFits, Mine
    PROVE RunKept' /\ PoolFits'
<1>1. pool \in Seq(TxType) /\ pool # <<>> /\ pool' = Tail(pool) /\ UNCHANGED desk
  BY Apart DEF Mine
<1>2. Len(pool) \in Nat \ {0} /\ DOMAIN pool = 1 .. Len(pool) /\ Head(pool) = pool[1]
  BY <1>1, LenProperties
<1>3. Len(pool') = Len(pool) - 1 /\ pool' \in Seq(TxType)
  BY <1>1, <1>2, HeadTailProperties
<1>4. DOMAIN pool' = 1 .. Len(pool) - 1
  BY <1>3, LenProperties
<1>5. \A i \in 1 .. Len(pool) - 1 : pool'[i] = pool[i + 1]
  BY <1>1, <1>2, <1>3, HeadTailProperties
<1>6. pool[1].kind = "swap" => \A n : Fits(acct, n) => Fits(acct', n)
  BY MineMoves, FitsKept
<1>7. OnlySwaps => OnlySwaps' /\ pool[1].kind = "swap"
  <2>1. SUFFICES ASSUME OnlySwaps PROVE OnlySwaps' /\ pool[1].kind = "swap"
    OBVIOUS
  <2>2. \A i \in 1 .. Len(pool) : pool[i].kind = "swap"
    BY <1>2, <2>1 DEF OnlySwaps
  <2>3. ASSUME NEW i \in DOMAIN pool'
        PROVE pool'[i].kind = "swap"
    <3>1. i \in 1 .. Len(pool) - 1 /\ i + 1 \in 1 .. Len(pool)
      BY <1>2, <1>4, <2>3
    <3> QED BY <1>5, <2>2, <3>1
  <2> QED BY <1>2, <2>2, <2>3 DEF OnlySwaps
<1>8. PICK tx \in TxType, result \in {"ok", "failed"} : Receipt(tx, result)
  <2>1. Head(pool) \in TxType
    BY <1>1, HeadTailProperties
  <2> QED BY <2>1 DEF Mine
<1>9. /\ run'.step = run.step /\ run'.job = run.job /\ run'.left = run.left
      /\ run'.use = run.use /\ run'.look = run.look /\ run'.clean = run.clean
      /\ run'.falls = run.falls
  BY <1>1, <1>8, ReceiptTyped
<1>10. OnlySwaps /\ run.look = acct.diem => OnlySwaps' /\ run'.look = acct'.diem
  BY <1>7, <1>9, MineMoves
<1>11. OnlySwaps /\ Fits(acct, run.left) => Fits(acct', run'.left)
  BY <1>6, <1>7, <1>9
<1>12. RunKept'
  <2>1. ~(run.step = "planned" /\ desk.pending # None /\ desk.pending.clean)
    BY <1>1 DEF RunKept
  <2>2. run.clean /\ run.step \in {"decided", "weighed"} => OnlySwaps' /\ run'.look = acct'.diem
    BY <1>10 DEF RunKept
  <2>3. run.clean /\ run.job = "recovery" /\ run.step # "idle" =>
          /\ OnlySwaps' /\ run'.look = acct'.diem
          /\ run.step \in {"cover", "burn"} => Fits(acct', run'.left)
          /\ run.step = "burn" => run.use = run.left
          /\ run.step \notin {"buy", "sale", "mint", "send", "await", "offer"}
    BY <1>10, <1>11 DEF RunKept
  <2>4. run.falls => run.job = "recovery" /\ run.step # "planned"
    BY DEF RunKept
  <2> QED BY <1>1, <1>9, <2>1, <2>2, <2>3, <2>4 DEF RunKept
<1>13. ASSUME NEW i \in DOMAIN pool', CampaignBurn(pool'[i])
       PROVE Fits(acct', pool'[i].units) /\ \A j \in 1 .. i - 1 : pool'[j].kind = "swap"
  <2>1. i \in 1 .. Len(pool) - 1 /\ i + 1 \in DOMAIN pool /\ pool'[i] = pool[i + 1]
    BY <1>2, <1>4, <1>5, <1>13
  <2>2. Fits(acct, pool[i + 1].units) /\ \A j \in 1 .. i : pool[j].kind = "swap"
    <3>1. CampaignBurn(pool[i + 1])
      BY <1>13, <2>1
    <3>2. (i + 1) - 1 = i
      BY <1>2, <2>1
    <3>3. Fits(acct, pool[i + 1].units) /\ \A j \in 1 .. (i + 1) - 1 : pool[j].kind = "swap"
      BY <2>1, <3>1 DEF PoolFits
    <3> QED BY <3>2, <3>3
  <2>3. pool[1].kind = "swap"
    BY <1>2, <2>1, <2>2
  <2>4. ASSUME NEW j \in 1 .. i - 1
        PROVE pool'[j].kind = "swap"
    <3>1. j \in 1 .. Len(pool) - 1 /\ j + 1 \in 1 .. i
      BY <1>2, <2>1
    <3> QED BY <1>5, <2>2, <3>1
  <2> QED BY <1>6, <2>1, <2>2, <2>3, <2>4
<1>14. PoolFits'
  BY <1>13 DEF PoolFits, CampaignBurn
<1> QED BY <1>12, <1>14

(* Every step keeps what the burns of a campaign rest on. *)
LEMMA NextKept ==
    ASSUME Typed, Typed', CampaignKept, [Next]_deskVars
    PROVE CampaignKept'
<1>1. CASE Client
  BY <1>1, ClientPool, ClientKept DEF CampaignKept
<1>2. CASE Agent
  BY <1>2, AgentKept DEF CampaignKept
<1>3. CASE Mine
  BY <1>3, MineKept DEF CampaignKept
<1>4. CASE Crash
  <2>1. RunKept'
    BY <1>4, OutsideKept DEF Crash, NoRun
  <2>2. PoolFits'
    BY <1>4, PoolFitsKept DEF Crash, CampaignKept
  <2> QED BY <2>1, <2>2 DEF CampaignKept
<1>5. CASE UNCHANGED deskVars
  <2>1. UNCHANGED <<acct, pool, run, desk>>
    BY <1>5 DEF deskVars
  <2>2. \A n : Fits(acct, n) => Fits(acct', n)
    BY <2>1, FitsKept
  <2>3. PoolFits'
    BY <2>1, PoolFitsKept DEF CampaignKept
  <2>4. OnlySwaps => OnlySwaps'
    BY <2>1 DEF OnlySwaps
  <2>5. RunKept'
    BY <2>1, <2>2, <2>4 DEF RunKept, CampaignKept
  <2> QED BY <2>3, <2>5 DEF CampaignKept
<1> QED BY <1>1, <1>2, <1>3, <1>4, <1>5 DEF Next

(* A burn that fits takes the locked share to the target and no further, but *)
(* for less than what one DIEM unlocks.                                      *)
LEMMA BurnStops ==
    ASSUME NEW a \in AcctType, NEW tx \in TxType, tx.kind = "burn", Fits(a, tx.units)
    PROVE Settled(a, tx).locked + Rate > MaxLocked(a, Target)
<1> DEFINE m == Rate * tx.units
<1>1. Settled(a, tx) = [a EXCEPT !.free = @ + m, !.locked = @ - m, !.diem = @ - tx.units]
  BY DEF Settled
<1>2. m \in Nat /\ Rate \in Nat
  BY DeskAssumption, SMT DEF TxType
<1>3. a.locked + Rate > MaxLocked(a, Target) + m
  BY DEF Fits
<1>4. MaxLocked(a, Target) \in Int /\ a.locked \in Nat
  BY LockedShare, RecoveryAssumption DEF AcctType
<1> HIDE DEF m
<1>5. Settled(a, tx).locked = a.locked - m
  BY <1>1 DEF AcctType
<1> QED BY <1>2, <1>3, <1>4, <1>5

(* A burn of the campaign, sized with nothing in the air, unlocks no more    *)
(* than takes the locked share to the target, but for the rounding to a      *)
(* whole DIEM, whatever was mined between its sizing and its own mining.     *)
THEOREM CampaignBurnsStop == Spec => CampaignStopsAtTarget
<1> DEFINE I == Typed /\ CampaignKept
           Stops == MinedNow /\ acct' # acct /\ Head(pool).kind = "burn"
                      /\ Head(pool).job = "recovery" /\ Head(pool).clean
                      => acct'.locked + Rate > MaxLocked(acct, Target)
<1>1. Init => I
  <2>1. SUFFICES ASSUME Init PROVE I
    OBVIOUS
  <2>2. run.step = "idle" /\ ~run.falls /\ ~run.clean /\ pool = <<>>
    BY <2>1 DEF Init, NoRun
  <2>3. DOMAIN pool = {}
    BY <2>2
  <2> QED BY <2>1, <2>2, <2>3, InitTyped DEF CampaignKept, RunKept, PoolFits
<1>2. I /\ [Next]_deskVars => I'
  BY NextTyped, NextKept
<1>3. I /\ [Next]_deskVars => [Stops]_deskVars
  <2>1. SUFFICES ASSUME I, Next, MinedNow, acct' # acct, Head(pool).kind = "burn",
                        Head(pool).job = "recovery", Head(pool).clean
                 PROVE acct'.locked + Rate > MaxLocked(acct, Target)
    OBVIOUS
  <2>2. Mine
    BY <2>1 DEF Next, Crash, Agent, Simulate, Rest, RunPending, Decide, Recover, MintAndSell,
                HoldShort, SpotSell, BuyAndBurn, Hold, Client, SellFirst, CheckMint, SendMint,
                AwaitMint, OfferMinted, CoverBurn, BurnWallet, BuyRest, StakeOwed, SwapForVVV,
                StakeSwapped, SwapTimesOut
  <2> DEFINE tx == Head(pool)
  <2>3. acct \in AcctType /\ pool \in Seq(TxType) /\ pool # <<>>
    BY <2>1, <2>2, Apart DEF Mine
  <2>4. tx \in TxType /\ tx = pool[1] /\ 1 \in DOMAIN pool
    BY <2>3, HeadTailProperties, LenProperties
  <2>5. Fits(acct, tx.units)
    BY <2>1, <2>4 DEF CampaignKept, PoolFits, CampaignBurn
  <2>6. acct' = Settled(acct, tx)
    BY <2>1, <2>2 DEF Mine
  <2> QED BY <2>1, <2>3, <2>4, <2>5, <2>6, BurnStops
<1>4. Spec => [][Stops]_deskVars
  BY <1>1, <1>2, <1>3, PTL DEF Spec
<1> QED BY <1>4 DEF CampaignStopsAtTarget

-----------------------------------------------------------------------------
(* The pool as a queue. *)

(* What a transaction that is sent leaves of the pool. *)
LEMMA PoolSent ==
    ASSUME Typed, NEW tx, pool' = Append(pool, tx)
    PROVE /\ Len(pool) \in Nat /\ DOMAIN pool = 1 .. Len(pool)
          /\ Len(pool') = Len(pool) + 1 /\ DOMAIN pool' = 1 .. Len(pool) + 1 /\ pool' # <<>>
          /\ \A i \in 1 .. Len(pool) : pool'[i] = pool[i]
          /\ pool'[Len(pool) + 1] = tx
<1>1. pool \in Seq(TxType)
  BY Apart
<1>2. Len(pool) \in Nat /\ DOMAIN pool = 1 .. Len(pool)
  BY <1>1, LenProperties
<1>3. Len(pool') = Len(pool) + 1 /\ DOMAIN pool' = 1 .. Len(pool) + 1
  BY <1>1
<1>4. \A i \in 1 .. Len(pool) : pool'[i] = pool[i]
  BY <1>1
<1>5. pool'[Len(pool) + 1] = tx
  BY <1>1
<1>6. pool' # <<>>
  BY <1>2, <1>3
<1> QED BY <1>2, <1>3, <1>4, <1>5, <1>6

(* What a transaction that is mined leaves of it. *)
LEMMA PoolMined ==
    ASSUME Typed, pool # <<>>, pool' = Tail(pool)
    PROVE /\ Len(pool) \in Nat \ {0} /\ DOMAIN pool = 1 .. Len(pool)
          /\ Head(pool) = pool[1] /\ pool[1] \in TxType
          /\ Len(pool') = Len(pool) - 1 /\ DOMAIN pool' = 1 .. Len(pool) - 1
          /\ \A i \in 1 .. Len(pool) - 1 : pool'[i] = pool[i + 1]
          /\ pool' = <<>> <=> Len(pool) = 1
<1>1. pool \in Seq(TxType)
  BY Apart
<1>2. Len(pool) \in Nat \ {0} /\ DOMAIN pool = 1 .. Len(pool) /\ Head(pool) = pool[1]
  BY <1>1, LenProperties
<1>3. Len(pool') = Len(pool) - 1 /\ pool' \in Seq(TxType)
  BY <1>1, <1>2, HeadTailProperties
<1>4. DOMAIN pool' = 1 .. Len(pool) - 1
  BY <1>3, LenProperties
<1>5. \A i \in 1 .. Len(pool) - 1 : pool'[i] = pool[i + 1]
  BY <1>1, <1>2, <1>3, HeadTailProperties
<1>6. pool[1] \in TxType
  BY <1>1, <1>2
<1>7. pool' = <<>> <=> Len(pool) = 1
  BY <1>2, <1>3, EmptySeq
<1> QED BY <1>2, <1>3, <1>4, <1>5, <1>6, <1>7

(* What is sent is the newest of the pool. *)
LEMMA SendAdds ==
    ASSUME Typed, Typed', NEW kind, NEW units, Send(kind, units)
    PROVE \E tx \in TxType : /\ tx.kind = kind /\ tx.units = units
                             /\ tx.job = run.job /\ tx.clean = run.clean
                             /\ pool' = Append(pool, tx)
<1> DEFINE tx == [kind |-> kind, units |-> units, job |-> run.job, clean |-> run.clean]
<1>1. pool' = Append(pool, tx)
  BY DEF Send
<1>2. pool \in Seq(TxType) /\ pool' \in Seq(TxType) /\ Len(pool) \in Nat
  BY Apart, LenProperties DEF Typed, TypeOK, TxType
<1>3. tx.kind = kind /\ tx.units = units /\ tx.job = run.job /\ tx.clean = run.clean
  OBVIOUS
<1> HIDE DEF tx
<1>4. pool'[Len(pool) + 1] = tx /\ Len(pool') = Len(pool) + 1
  BY <1>1, <1>2
<1>5. tx \in TxType
  BY <1>2, <1>4, ElementOfSeq
<1> QED BY <1>1, <1>3, <1>5

(* A step sends one of some kinds, or nothing. *)
Sends(kinds) ==
    UNCHANGED pool \/ \E tx \in TxType : tx.kind \in kinds /\ pool' = Append(pool, tx)

(* The mining of the head: the transaction is covered and settled, or it     *)
(* fails, and without a fault it fails only where it is not covered.         *)
LEMMA MineIs ==
    ASSUME Typed, Mine
    PROVE /\ pool # <<>> /\ pool' = Tail(pool) /\ UNCHANGED <<env, desk>>
          /\ pool[1] \in TxType
          /\ \E result \in {"ok", "failed"} :
                /\ Receipt(pool[1], result)
                /\ \/ /\ result = "ok" /\ Covers(acct, pool[1])
                      /\ \/ acct' = Settled(acct, pool[1]) /\ UNCHANGED seen
                         \/ /\ pool[1].kind = "swap" /\ Fault("surplus")
                            /\ acct' = [Settled(acct, pool[1]) EXCEPT !.vvv = @ + 1]
                   \/ /\ result = "failed" /\ UNCHANGED acct
                      /\ \/ ~Covers(acct, pool[1]) /\ UNCHANGED seen
                         \/ Fault("revert") /\ pool[1].kind \notin {"burn", "stake"}
<1>1. pool # <<>> /\ pool' = Tail(pool) /\ UNCHANGED <<env, desk>>
  BY DEF Mine
<1>2. Head(pool) = pool[1] /\ pool[1] \in TxType
  BY <1>1, PoolMined
<1> QED BY <1>1, <1>2 DEF Mine, Money

-----------------------------------------------------------------------------
(* What is minted is sold. *)

Faultless == seen.faults = {}

(* Without faults a mint is the newest of the pool and awaited, and its sale *)
(* goes into an empty pool.                                                  *)
MintAwaited ==
    /\ \A i \in DOMAIN pool : pool[i].kind # "buy"
    /\ \A i \in DOMAIN pool : pool[i].kind = "mint" =>
          i = Len(pool) /\ run.step = "await" /\ pool[i].units = run.left
    /\ run.step = "offer" => pool = <<>>

(* What the wallet has beyond its beginnings was just minted, or its sale is *)
(* the next to be mined.                                                     *)
ExcessSold ==
    \/ acct.diem <= env.chain.diem
    \/ /\ run.step = "offer" \/ (run.step = "await" /\ run.got = "ok")
       /\ run.left <= acct.diem /\ acct.diem <= env.chain.diem + run.left
    \/ /\ pool # <<>> /\ pool[1].kind = "sell"
       /\ pool[1].units <= acct.diem /\ acct.diem <= env.chain.diem + pool[1].units

MintedKept == Faultless /\ ~seen.bought => MintAwaited /\ ExcessSold

(* A step outside the mint's wait keeps both. *)
LEMMA OutsideMint ==
    ASSUME Typed, MintAwaited, ExcessSold, UNCHANGED <<env, acct>>,
           run.step \notin {"await", "offer"}, run'.step \notin {"await", "offer"},
           Sends({"sell", "burn", "swap", "stake"})
    PROVE MintAwaited' /\ ExcessSold'
<1>1. CASE UNCHANGED pool
  BY <1>1 DEF MintAwaited, ExcessSold
<1>2. CASE \E tx \in TxType : tx.kind \in {"sell", "burn", "swap", "stake"} /\ pool' = Append(pool, tx)
  <2>1. PICK tx \in TxType : tx.kind \in {"sell", "burn", "swap", "stake"} /\ pool' = Append(pool, tx)
    BY <1>2
  <2>2. /\ Len(pool) \in Nat /\ DOMAIN pool = 1 .. Len(pool)
        /\ DOMAIN pool' = 1 .. Len(pool) + 1 /\ pool' # <<>>
        /\ \A i \in 1 .. Len(pool) : pool'[i] = pool[i]
        /\ pool'[Len(pool) + 1] = tx
    BY <2>1, PoolSent
  <2>3. \A i \in DOMAIN pool : pool[i].kind \notin {"buy", "mint"}
    BY DEF MintAwaited
  <2>4. \A i \in DOMAIN pool' : pool'[i].kind \notin {"buy", "mint"}
    BY <2>1, <2>2, <2>3
  <2>5. pool # <<>> => pool'[1] = pool[1]
    <3>1. pool # <<>> => 1 \in 1 .. Len(pool)
      BY Apart, LenProperties, <2>2
    <3> QED BY <2>2, <3>1
  <2> QED BY <2>2, <2>4, <2>5 DEF MintAwaited, ExcessSold
<1> QED BY <1>1, <1>2 DEF Sends

(* What the steps of the client send. *)
LEMMA ClientSends ==
    ASSUME Typed, Typed', Client, ~SendMint, ~BuyRest
    PROVE Sends({"sell", "burn", "swap", "stake"})
<1>1. \A kind \in {"sell", "burn", "swap", "stake"} : \A units :
        Send(kind, units) => Sends({"sell", "burn", "swap", "stake"})
  BY SendAdds DEF Sends
<1>2. UNCHANGED pool => Sends({"sell", "burn", "swap", "stake"})
  BY DEF Sends
<1>3. CASE SellFirst \/ OfferMinted
  BY <1>1, <1>2, <1>3 DEF SellFirst, OfferMinted
<1>4. CASE BurnWallet \/ SwapForVVV
  BY <1>1, <1>2, <1>4 DEF BurnWallet, SwapForVVV
<1>5. CASE StakeOwed \/ StakeSwapped
  BY <1>1, <1>2, <1>5 DEF StakeOwed, StakeSwapped, StakeVVV
<1>6. CASE CheckMint \/ AwaitMint \/ CoverBurn \/ SwapTimesOut
  BY <1>2, <1>6 DEF CheckMint, AwaitMint, CoverBurn, SwapTimesOut
<1> QED BY <1>3, <1>4, <1>5, <1>6 DEF Client

(* A mint is sent, with nothing minted before it in the pool. *)
LEMMA SendMintSold ==
    ASSUME Typed, Typed', MintAwaited, ExcessSold, SendMint, seen'.faults = {}
    PROVE MintAwaited' /\ ExcessSold'
<1>1. run \in RunType /\ run.step = "send" /\ UNCHANGED <<env, acct>>
  BY Apart DEF SendMint
<1>2. ~Fault("send") /\ ~Fault("lost")
  BY FaultTyped
<1>3. Send("mint", run.left)
        /\ run' = [run EXCEPT !.step = "await", !.got = "none", !.minted = @ + 1]
  BY <1>2 DEF SendMint
<1>4. run'.step = "await" /\ run'.left = run.left /\ run'.got = "none"
  BY <1>1, <1>3 DEF RunType
<1>5. PICK tx \in TxType : tx.kind = "mint" /\ tx.units = run.left /\ pool' = Append(pool, tx)
  BY <1>3, SendAdds
<1>6. /\ Len(pool) \in Nat /\ DOMAIN pool = 1 .. Len(pool) /\ Len(pool') = Len(pool) + 1
      /\ DOMAIN pool' = 1 .. Len(pool) + 1 /\ pool' # <<>>
      /\ \A i \in 1 .. Len(pool) : pool'[i] = pool[i]
      /\ pool'[Len(pool) + 1] = tx
  BY <1>5, PoolSent
<1>7. \A i \in DOMAIN pool : pool[i].kind \notin {"buy", "mint"}
  BY <1>1 DEF MintAwaited
<1>8. MintAwaited'
  <2>1. \A i \in DOMAIN pool' : \/ pool'[i].kind \notin {"buy", "mint"}
                                \/ i = Len(pool') /\ pool'[i] = tx
    BY <1>6, <1>7
  <2> QED BY <1>4, <1>5, <2>1 DEF MintAwaited
<1>9. pool # <<>> => pool'[1] = pool[1]
  <2>1. pool # <<>> => 1 \in 1 .. Len(pool)
    BY Apart, LenProperties, <1>6
  <2> QED BY <1>6, <2>1
<1>10. ExcessSold'
  BY <1>1, <1>4, <1>6, <1>9 DEF ExcessSold
<1> QED BY <1>8, <1>10

(* The mint is confirmed, or tried again. *)
LEMMA AwaitMintSold ==
    ASSUME Typed, MintsCounted, MintAwaited, ExcessSold, AwaitMint, seen'.faults = {},
           Faultless
    PROVE MintAwaited' /\ ExcessSold'
<1>1. run \in RunType /\ run.step = "await" /\ UNCHANGED <<env, acct, pool>>
  BY Apart DEF AwaitMint
<1>2. ~Fault("timeout")
  BY FaultTyped
<1>3. run.got # "none" /\ run' = Answered(run)
  BY <1>2 DEF AwaitMint
<1>4. run.got \in {"ok", "failed"} /\ pool = <<>>
  BY <1>1, <1>3 DEF MintsCounted, Doubt, Faultless
<1>5. CASE run.got = "ok"
  <2>1. run' = [run EXCEPT !.step = "offer"]
    BY <1>3, <1>5 DEF Answered
  <2>2. run'.step = "offer" /\ run'.left = run.left
    BY <1>1, <2>1 DEF RunType
  <2> QED BY <1>1, <1>4, <2>2 DEF MintAwaited, ExcessSold
<1>6. CASE run.got = "failed"
  <2>1. run' = Retried(run)
    BY <1>3, <1>6 DEF Answered
  <2>2. run'.step \in {"idle", "send"}
    BY <1>1, <2>1, RetriedTyped
  <2>3. acct.diem <= env.chain.diem
    BY <1>1, <1>4, <1>6 DEF ExcessSold
  <2> QED BY <1>1, <1>4, <2>2, <2>3 DEF MintAwaited, ExcessSold
<1> QED BY <1>4, <1>5, <1>6

(* What was minted is offered, alone in the pool. *)
LEMMA OfferMintedSold ==
    ASSUME Typed, Typed', MintAwaited, ExcessSold, OfferMinted, seen'.faults = {}
    PROVE MintAwaited' /\ ExcessSold'
<1>1. run.step = "offer" /\ UNCHANGED <<env, acct>> /\ pool = <<>>
  BY DEF OfferMinted, MintAwaited
<1>2. ~Fault("refused")
  BY FaultTyped
<1>3. run.left > 0 /\ run.left \in Nat /\ acct.diem \in Nat
  BY <1>1, Amounts DEF Working
<1>4. Send("sell", run.left) /\ Finish(TRUE)
  BY <1>2, <1>3 DEF OfferMinted, Offered
<1>5. run'.step \in {"idle", "weighed"}
  BY <1>1, <1>4, FinishTyped
<1>6. PICK tx \in TxType : tx.kind = "sell" /\ tx.units = run.left /\ pool' = Append(pool, tx)
  BY <1>4, SendAdds
<1>7. DOMAIN pool' = 1 .. 1 /\ pool'[1] = tx /\ pool' # <<>>
  <2>1. Len(pool) = 0
    BY <1>1
  <2> QED BY <1>6, <2>1, PoolSent
<1>8. MintAwaited'
  BY <1>5, <1>6, <1>7 DEF MintAwaited
<1>9. ExcessSold'
  BY <1>1, <1>6, <1>7 DEF ExcessSold
<1> QED BY <1>8, <1>9

(* A call keeps both. *)
LEMMA ClientSold ==
    ASSUME Typed, Typed', MintsCounted, MintAwaited, ExcessSold, Client, Faultless,
           seen'.faults = {}, ~seen'.bought
    PROVE MintAwaited' /\ ExcessSold'
<1>1. CASE SendMint
  BY <1>1, SendMintSold
<1>2. CASE AwaitMint
  BY <1>2, AwaitMintSold
<1>3. CASE OfferMinted
  BY <1>3, OfferMintedSold
<1>4. CASE ~SendMint /\ ~AwaitMint /\ ~OfferMinted
  <2>1. run'.step \notin {"await", "offer"}
    BY <1>4, ClientCounts DEF NoMintMade
  <2>2. run.step \notin {"await", "offer"} /\ UNCHANGED <<env, acct>>
    BY <1>4 DEF Client, SellFirst, CheckMint, CoverBurn, BurnWallet, BuyRest, StakeOwed,
                SwapForVVV, StakeSwapped, SwapTimesOut
  <2>3. CASE ~BuyRest
    BY <1>4, <2>1, <2>2, <2>3, ClientSends, OutsideMint
  <2>4. CASE BuyRest
    <3>1. UNCHANGED pool
      <4>1. seen' # [seen EXCEPT !.bought = TRUE]
        BY Apart DEF SeenType
      <4> QED BY <2>4, <4>1 DEF BuyRest
    <3> QED BY <2>1, <2>2, <3>1, OutsideMint DEF Sends
  <2> QED BY <2>3, <2>4
<1> QED BY <1>1, <1>2, <1>3, <1>4

(* So does the agent, which may sell the wallet's DIEM. *)
LEMMA AgentSold ==
    ASSUME Typed, Typed', MintAwaited, ExcessSold, Agent
    PROVE MintAwaited' /\ ExcessSold'
<1>1. run'.step \notin {"await", "offer"}
  BY AgentCounts DEF NoMintMade
<1>2. run.step \notin {"await", "offer"} /\ UNCHANGED <<env, acct>>
  BY DEF Agent, Simulate, Rest, RunPending, Decide, Recover, MintAndSell, HoldShort,
         SpotSell, BuyAndBurn, Hold, AtPremium
<1>3. Sends({"sell", "burn", "swap", "stake"})
  <2>1. CASE SpotSell
    BY <2>1, SendAdds DEF SpotSell, Sends
  <2>2. CASE ~SpotSell
    BY <2>2 DEF Agent, Simulate, Rest, RunPending, Decide, Recover, MintAndSell, HoldShort,
                BuyAndBurn, Hold, Sends
  <2> QED BY <2>1, <2>2
<1> QED BY <1>1, <1>2, <1>3, OutsideMint

(* The DIEM of the wallet after a covered transaction. *)
LEMMA DiemSettled ==
    ASSUME NEW a \in AcctType, NEW tx \in TxType
    PROVE Settled(a, tx).diem = CASE tx.kind \in {"mint", "buy"}  -> a.diem + tx.units
                                  [] tx.kind \in {"sell", "burn"} -> a.diem - tx.units
                                  [] OTHER                        -> a.diem
<1>1. tx.kind \in Kinds
  BY DEF TxType
<1> DEFINE n == tx.units
           m == Rate * n
<1>2. CASE tx.kind = "mint"
  <2>1. Settled(a, tx) = [a EXCEPT !.free = @ - m, !.locked = @ + m, !.diem = @ + n]
    BY <1>2 DEF Settled
  <2> QED BY <1>2, <2>1 DEF AcctType
<1>3. CASE tx.kind = "sell"
  BY <1>3 DEF Settled, AcctType
<1>4. CASE tx.kind = "burn"
  <2>1. Settled(a, tx) = [a EXCEPT !.free = @ + m, !.locked = @ - m, !.diem = @ - n]
    BY <1>4 DEF Settled
  <2> QED BY <1>4, <2>1 DEF AcctType
<1>5. CASE tx.kind = "buy"
  BY <1>5 DEF Settled, AcctType
<1>6. CASE tx.kind \in {"swap", "stake"}
  BY <1>6 DEF Settled, AcctType
<1> QED BY <1>1, <1>2, <1>3, <1>4, <1>5, <1>6 DEF Kinds

(* The chain turns a mint into DIEM that is known to be there, and a sale    *)
(* takes away what was minted for it.                                        *)
LEMMA MineSold ==
    ASSUME Typed, MintsCounted, MintAwaited, ExcessSold, Mine, Faultless, seen'.faults = {}
    PROVE MintAwaited' /\ ExcessSold'
<1> DEFINE tx == pool[1]
<1>1. PICK result \in {"ok", "failed"} :
        /\ Receipt(tx, result)
        /\ \/ /\ result = "ok" /\ Covers(acct, tx)
              /\ \/ acct' = Settled(acct, tx) /\ UNCHANGED seen
                 \/ Fault("surplus")
           \/ /\ result = "failed" /\ UNCHANGED acct
              /\ \/ ~Covers(acct, tx) /\ UNCHANGED seen
                 \/ Fault("revert")
  BY MineIs
<1>2. ~Fault("surplus") /\ ~Fault("revert")
  BY FaultTyped
<1>3. \/ result = "ok" /\ Covers(acct, tx) /\ acct' = Settled(acct, tx)
      \/ result = "failed" /\ ~Covers(acct, tx) /\ UNCHANGED acct
  BY <1>1, <1>2
<1>4. pool # <<>> /\ pool' = Tail(pool) /\ UNCHANGED env /\ tx \in TxType
  BY MineIs
<1>5. /\ Len(pool) \in Nat \ {0} /\ DOMAIN pool = 1 .. Len(pool)
      /\ Len(pool') = Len(pool) - 1 /\ DOMAIN pool' = 1 .. Len(pool) - 1
      /\ \A i \in 1 .. Len(pool) - 1 : pool'[i] = pool[i + 1]
      /\ pool' = <<>> <=> Len(pool) = 1
  BY <1>4, PoolMined
<1>6. run \in RunType /\ acct \in AcctType /\ env.chain \in AcctType
  BY Apart, Profile
<1>7. /\ run'.step = run.step /\ run'.left = run.left
      /\ run'.got = IF Len(pool) = 1 /\ run.step \in {"await", "settle"} THEN result ELSE run.got
  BY <1>1, <1>6 DEF Receipt, RunType
<1>8. run.step # "offer"
  BY <1>4 DEF MintAwaited
<1>9. MintAwaited'
  <2>1. ASSUME NEW i \in DOMAIN pool'
        PROVE /\ pool'[i].kind # "buy"
              /\ pool'[i].kind = "mint" =>
                    i = Len(pool') /\ run'.step = "await" /\ pool'[i].units = run'.left
    <3>1. i + 1 \in DOMAIN pool /\ pool'[i] = pool[i + 1]
      BY <1>5, <2>1
    <3>2. pool[i + 1].kind # "buy"
            /\ (pool[i + 1].kind = "mint" =>
                  i + 1 = Len(pool) /\ run.step = "await" /\ pool[i + 1].units = run.left)
      BY <3>1 DEF MintAwaited
    <3> QED BY <1>5, <1>7, <2>1, <3>1, <3>2
  <2> QED BY <1>7, <1>8, <2>1 DEF MintAwaited
<1>10. /\ tx.kind # "buy"
       /\ tx.kind = "mint" => Len(pool) = 1 /\ run.step = "await" /\ tx.units = run.left
  BY <1>5 DEF MintAwaited
<1>11. run.step = "await" => run.got = "none"
  BY <1>4 DEF MintsCounted, Doubt, Faultless
<1>12. /\ acct.diem \in Nat /\ env.chain.diem \in Nat /\ tx.units \in Nat \ {0}
       /\ run.left \in Nat
  BY <1>4, <1>6 DEF AcctType, TxType, RunType
<1>13. CASE result = "ok" /\ tx.kind = "mint"
  <2>1. acct'.diem = acct.diem + run.left
    BY <1>3, <1>4, <1>6, <1>10, <1>13, DiemSettled
  <2>2. acct.diem <= env.chain.diem
    BY <1>8, <1>11, <1>13 DEF ExcessSold
  <2>3. run'.step = "await" /\ run'.got = "ok"
    BY <1>7, <1>10, <1>13
  <2> QED BY <1>4, <1>7, <1>9, <1>12, <2>1, <2>2, <2>3 DEF ExcessSold
<1>14. CASE result = "ok" /\ tx.kind = "sell"
  <2>1. acct'.diem = acct.diem - tx.units
    BY <1>3, <1>4, <1>6, <1>14, DiemSettled
  <2>2. acct.diem <= env.chain.diem \/ acct.diem <= env.chain.diem + tx.units
    BY <1>8, <1>11 DEF ExcessSold
  <2>3. acct'.diem <= env.chain.diem
    BY <1>12, <2>1, <2>2
  <2> QED BY <1>4, <1>9, <2>3 DEF ExcessSold
<1>15. CASE result = "ok" /\ tx.kind \notin {"mint", "sell"}
  <2>1. acct'.diem = acct.diem \/ acct'.diem = acct.diem - tx.units
    BY <1>3, <1>4, <1>6, <1>10, <1>15, DiemSettled
  <2>2. acct.diem <= env.chain.diem
    BY <1>8, <1>11, <1>15 DEF ExcessSold
  <2>3. acct'.diem <= env.chain.diem
    BY <1>12, <2>1, <2>2
  <2> QED BY <1>4, <1>9, <2>3 DEF ExcessSold
<1>16. CASE result = "failed"
  <2>1. ~Covers(acct, tx) /\ UNCHANGED acct
    BY <1>3, <1>16
  <2>2. tx.kind = "sell" => ~(acct.diem >= tx.units)
    BY <2>1 DEF Covers
  <2>3. acct.diem <= env.chain.diem
    BY <1>8, <1>11, <1>12, <2>2 DEF ExcessSold
  <2> QED BY <1>4, <1>9, <2>1, <2>3 DEF ExcessSold
<1> QED BY <1>13, <1>14, <1>15, <1>16

(* What a step may do to what was seen. *)
LEMMA SeenSteps ==
    ASSUME [Next]_deskVars
    PROVE \/ UNCHANGED seen \/ \E kind : Fault(kind)
          \/ seen' = [seen EXCEPT !.bought = TRUE]
          \/ seen' = [seen EXCEPT !.overlap = @ \/ pool # <<>>]
<1>1. CASE Client
  BY <1>1 DEF Client, SellFirst, CheckMint, SendMint, AwaitMint, OfferMinted, CoverBurn,
     BurnWallet, BuyRest, StakeOwed, SwapForVVV, StakeSwapped, SwapTimesOut, StakeVVV
<1>2. CASE Agent
  BY <1>2 DEF Agent, Simulate, Rest, RunPending, Decide, Recover, MintAndSell, HoldShort,
     SpotSell, BuyAndBurn, Hold
<1>3. CASE Mine \/ Crash \/ UNCHANGED deskVars
  BY <1>3 DEF Mine, Crash, deskVars
<1> QED BY <1>1, <1>2, <1>3 DEF Next

(* A purchase, or a swap that overlapped, stays on record. *)
LEMMA FlagsStay ==
    ASSUME Typed, [Next]_deskVars
    PROVE (seen.bought => seen'.bought) /\ (seen.overlap => seen'.overlap)
<1>1. seen \in SeenType
  BY Apart
<1> QED BY <1>1, SeenSteps, FaultTyped DEF SeenType

(* No fault is forgotten by any step. *)
LEMMA FaultsStay ==
    ASSUME Typed, [Next]_deskVars
    PROVE seen.faults \subseteq seen'.faults
<1>1. CASE Client \/ Agent
  BY <1>1, ClientGrows, AgentGrows DEF SeenGrows
<1>2. CASE Mine \/ Crash \/ UNCHANGED deskVars
  BY <1>2, Growing DEF Mine, Crash, deskVars, SeenGrows
<1> QED BY <1>1, <1>2 DEF Next

(* Every step keeps what is minted on its way to its sale. *)
LEMMA NextSold ==
    ASSUME Typed, Typed', MintsCounted, MintedKept, [Next]_deskVars
    PROVE MintedKept'
<1> SUFFICES ASSUME seen'.faults = {}, ~seen'.bought PROVE MintAwaited' /\ ExcessSold'
  BY DEF MintedKept, Faultless
<1>1. Faultless /\ ~seen.bought
  BY FaultsStay, FlagsStay DEF Faultless
<1>2. MintAwaited /\ ExcessSold
  BY <1>1 DEF MintedKept
<1>3. CASE Client
  BY <1>1, <1>2, <1>3, ClientSold
<1>4. CASE Agent
  BY <1>2, <1>4, AgentSold
<1>5. CASE Mine
  BY <1>1, <1>2, <1>5, MineSold
<1>6. CASE Crash
  BY <1>6, FaultTyped DEF Crash
<1>7. CASE UNCHANGED deskVars
  BY <1>2, <1>7 DEF deskVars, MintAwaited, ExcessSold
<1> QED BY <1>3, <1>4, <1>5, <1>6, <1>7 DEF Next

(* Where nothing fails, what is minted is sold: once all is mined the wallet *)
(* has no more DIEM than it began with, however snapshots, mints and sales   *)
(* of several decisions overlapped.                                          *)
THEOREM MintedIsSold == Spec => []NothingStranded
<1> DEFINE I == Typed /\ MintsCounted /\ MintedKept
<1>1. Init => I
  <2>1. SUFFICES ASSUME Init PROVE I
    OBVIOUS
  <2>2. /\ run.older = 0 /\ run.minted = 0 /\ run.step = "idle" /\ pool = <<>>
        /\ acct = env.chain
    BY <2>1 DEF Init, NoRun
  <2>3. MintsCounted
    BY <2>2 DEF MintsCounted
  <2>4. env.chain.diem \in Nat /\ DOMAIN pool = {}
    BY <2>1, <2>2, InitTyped, Profile DEF AcctType
  <2>5. MintedKept
    BY <2>2, <2>4 DEF MintedKept, MintAwaited, ExcessSold
  <2> QED BY <2>1, <2>3, <2>5, InitTyped
<1>2. I /\ [Next]_deskVars => I'
  BY NextTyped, NextCounts, NextSold
<1>3. I => NothingStranded
  BY DEF MintedKept, ExcessSold, Faultless, NothingStranded, Resting
<1> QED BY <1>1, <1>2, <1>3, PTL DEF Spec

-----------------------------------------------------------------------------
(* What is bought is staked or noted. *)

Moving == {"swap", "stake"}

StillPool == \A i \in DOMAIN pool : pool[i].kind \notin Moving

(* No VVV is on its way: what is too much is noted, all of it. *)
AtRest ==
    /\ run.step # "settle"
    /\ run.step = "swap" => desk.owed = None
    /\ StillPool
    /\ IF desk.owed = None THEN acct.vvv <= Allowance ELSE desk.owed = acct.vvv

(* One stake in the pool takes away what is too much. *)
InStake ==
    /\ run.step # "settle"
    /\ desk.owed = None
    /\ \E i \in DOMAIN pool :
          /\ pool[i].kind = "stake"
          /\ pool[i].units <= acct.vvv /\ acct.vvv <= Allowance + pool[i].units
          /\ \A j \in DOMAIN pool \ {i} : pool[j].kind \notin Moving

(* A swap, alone in the pool, or its receipt, is waited for. *)
InSwap ==
    /\ run.step = "settle"
    /\ desk.owed = None
    /\ run.before <= Allowance
    /\ \/ /\ run.got = "none" /\ acct.vvv = run.before
          /\ Len(pool) = 1 /\ pool[1].kind = "swap" /\ pool[1].units = run.left
       \/ run.got = "ok" /\ pool = <<>> /\ acct.vvv = run.before + run.left
       \/ run.got = "failed" /\ pool = <<>> /\ acct.vvv = run.before

Undisturbed ==
    ~seen.overlap /\ seen.faults \cap {"timeout", "overflow", "surplus", "crash"} = {}

BoughtKept == Undisturbed => AtRest \/ InStake \/ InSwap

(* What the wallet keeps is no less than the buffer. *)
LEMMA AllowanceTyped ==
    ASSUME Typed
    PROVE /\ Allowance \in Nat /\ Buffer \in Nat /\ Buffer <= Allowance
          /\ env.chain.vvv <= Allowance
          /\ UNCHANGED env => Allowance' = Allowance
  BY Profile, DeskAssumption DEF Allowance, AcctType

(* A step that moves no VVV, and turns to a swap only where none is owed. *)
LEMMA StillKept ==
    ASSUME Typed, AtRest \/ InStake, UNCHANGED <<env, acct>>, desk'.owed = desk.owed,
           run'.step # "settle", run'.step = "swap" => desk.owed = None,
           Sends({"mint", "sell", "burn", "buy"})
    PROVE AtRest' \/ InStake'
<1>1. Allowance' = Allowance
  BY AllowanceTyped
<1>2. CASE UNCHANGED pool
  BY <1>1, <1>2 DEF AtRest, InStake, StillPool
<1>3. CASE \E tx \in TxType : tx.kind \in {"mint", "sell", "burn", "buy"} /\ pool' = Append(pool, tx)
  <2>1. PICK tx \in TxType : tx.kind \in {"mint", "sell", "burn", "buy"} /\ pool' = Append(pool, tx)
    BY <1>3
  <2>2. /\ Len(pool) \in Nat /\ DOMAIN pool = 1 .. Len(pool)
        /\ DOMAIN pool' = 1 .. Len(pool) + 1
        /\ \A i \in 1 .. Len(pool) : pool'[i] = pool[i]
        /\ pool'[Len(pool) + 1] = tx
    BY <2>1, PoolSent
  <2>3. tx.kind \notin Moving
    BY <2>1 DEF Moving
  <2>4. \A j \in DOMAIN pool' : (j \in DOMAIN pool /\ pool'[j] = pool[j]) \/ pool'[j].kind \notin Moving
    BY <2>2, <2>3
  <2>5. CASE AtRest
    BY <1>1, <2>4, <2>5 DEF AtRest, StillPool
  <2>6. CASE InStake
    <3>1. PICK i \in DOMAIN pool :
            /\ pool[i].kind = "stake"
            /\ pool[i].units <= acct.vvv /\ acct.vvv <= Allowance + pool[i].units
            /\ \A j \in DOMAIN pool \ {i} : pool[j].kind \notin Moving
      BY <2>6 DEF InStake
    <3>2. i \in DOMAIN pool' /\ pool'[i] = pool[i]
      BY <2>2, <3>1
    <3>3. \A j \in DOMAIN pool' \ {i} : pool'[j].kind \notin Moving
      BY <2>4, <3>1
    <3> QED BY <1>1, <2>6, <3>1, <3>2, <3>3 DEF InStake
  <2> QED BY <2>5, <2>6
<1> QED BY <1>2, <1>3 DEF Sends

(* Calls that have nothing to do with VVV. *)
LEMMA ClientStill ==
    ASSUME Typed, Typed', Client, ~StakeOwed, ~SwapForVVV, ~StakeSwapped, ~SwapTimesOut
    PROVE /\ UNCHANGED <<env, acct>> /\ desk'.owed = desk.owed
          /\ run.step # "settle" /\ run'.step \notin {"settle", "swap"}
          /\ Sends({"mint", "sell", "burn", "buy"})
<1>0. run \in RunType /\ desk \in DeskType
  BY Apart
<1>1. run.step \notin {"idle", "planned", "settle"} /\ UNCHANGED <<env, acct>>
  BY DEF Client, SellFirst, CheckMint, SendMint, AwaitMint, OfferMinted, CoverBurn, BurnWallet,
         BuyRest
<1>2. Sends({"mint", "sell", "burn", "buy"})
  <2>1. \A kind \in {"mint", "sell", "burn", "buy"} : \A units :
          Send(kind, units) => Sends({"mint", "sell", "burn", "buy"})
    BY SendAdds DEF Sends
  <2>2. UNCHANGED pool => Sends({"mint", "sell", "burn", "buy"})
    BY DEF Sends
  <2>3. CASE SellFirst \/ OfferMinted \/ SendMint
    BY <2>1, <2>2, <2>3 DEF SellFirst, OfferMinted, SendMint
  <2>4. CASE BurnWallet \/ BuyRest
    BY <2>1, <2>2, <2>4 DEF BurnWallet, BuyRest
  <2>5. CASE CheckMint \/ AwaitMint \/ CoverBurn
    BY <2>2, <2>5 DEF CheckMint, AwaitMint, CoverBurn
  <2> QED BY <2>3, <2>4, <2>5 DEF Client
<1>3. \A executed \in BOOLEAN : Finish(executed) =>
        desk'.owed = desk.owed /\ run'.step \in {"idle", "weighed"}
  BY <1>1, FinishTyped
<1>4. desk'.owed = desk.owed
  <2>1. CASE CheckMint /\ desk' = [desk EXCEPT !.latched = TRUE]
    BY <1>0, <2>1 DEF DeskType
  <2> QED BY <1>3, <2>1 DEF Client, SellFirst, CheckMint, SendMint, AwaitMint, OfferMinted,
              CoverBurn, BurnWallet, BuyRest
<1>5. \A step : run' = [run EXCEPT !.step = step] => run'.step = step
  BY <1>0 DEF RunType
<1>6. run'.step \notin {"settle", "swap"}
  <2>1. CASE SellFirst
    <3>1. run' = [AfterSale(run) EXCEPT !.step = "mint"] => run'.step = "mint"
      BY <1>0 DEF AfterSale, RunType
    <3> QED BY <1>3, <2>1, <3>1 DEF SellFirst
  <2>2. CASE CheckMint
    <3>1. run' = [run EXCEPT !.step = "send", !.attempt = 1] => run'.step = "send"
      BY <1>0 DEF RunType
    <3> QED BY <1>3, <2>2, <3>1, NoRunTyped DEF CheckMint
  <2>3. CASE SendMint \/ AwaitMint
    <3>1. \A r \in RunType : Retried(r).step \in {"idle", "send"}
      BY RetriedTyped
    <3>2. [run EXCEPT !.minted = @ + 1] \in RunType
      <4>1. run.minted + 1 \in Nat
        BY <1>0 DEF RunType
      <4> QED BY <1>0, <4>1 DEF RunType
    <3>3. run' = [run EXCEPT !.step = "await", !.got = "none", !.minted = @ + 1] => run'.step = "await"
      BY <1>0 DEF RunType
    <3> QED BY <1>0, <1>5, <2>3, <3>1, <3>2, <3>3 DEF SendMint, AwaitMint, Answered
  <2>4. CASE OfferMinted \/ BuyRest
    BY <1>3, <2>4 DEF OfferMinted, BuyRest
  <2>5. CASE CoverBurn
    <3> DEFINE use == LeastOf(run.look, run.left)
    <3>1. run' = [run EXCEPT !.step = "burn", !.use = BurnPart(acct, use)] => run'.step = "burn"
      BY <1>0 DEF RunType
    <3> QED BY <1>3, <1>5, <2>5, <3>1 DEF CoverBurn, Go
  <2>6. CASE BurnWallet
    <3> DEFINE left == run.left - run.use
    <3>1. run' = [run EXCEPT !.step = "buy", !.left = left] => run'.step = "buy"
      BY <1>0 DEF RunType
    <3> QED BY <1>3, <2>6, <3>1 DEF BurnWallet
  <2> QED BY <2>1, <2>2, <2>3, <2>4, <2>5, <2>6 DEF Client
<1> QED BY <1>1, <1>2, <1>4, <1>6

(* A recovery turns to a swap only where no VVV is owed. *)
LEMMA ReliefOwes ==
    ASSUME Typed, run.step \in {"decided", "weighed"},
           NEW stakeOnly \in BOOLEAN, NEW falls \in BOOLEAN, Relief(stakeOnly, falls)
    PROVE /\ desk'.owed = desk.owed
          /\ run'.step # "settle" /\ (run'.step = "swap" => desk.owed = None)
<1> DEFINE plan == Replanned(desk.plan, acct)
           d == [desk EXCEPT !.plan = plan]
<1>0. run \in RunType /\ desk \in DeskType
  BY Apart
<1>1. PICK choice \in Offers(plan, stakeOnly) :
        IF choice # None /\ MayAct("recovery")
          THEN /\ desk' = Recorded(d, "recovery")
               /\ run' = [StartRecovery(choice, run) EXCEPT !.falls = falls]
          ELSE /\ desk' = d
               /\ IF falls THEN Go("weighed") ELSE Over
  BY DEF Relief
<1>2. d.owed = desk.owed /\ Recorded(d, "recovery").owed = desk.owed
  BY <1>0 DEF Recorded, DeskType
<1>3. CASE choice # None /\ MayAct("recovery")
  <2>1. StepOf(choice) # "settle" /\ (StepOf(choice) = "swap" => desk.owed = None)
    BY DEF StepOf
  <2>2. run'.step = StepOf(choice)
    BY <1>0, <1>1, <1>3 DEF StartRecovery, RunType
  <2> QED BY <1>1, <1>2, <1>3, <2>1, <2>2
<1>4. CASE ~(choice # None /\ MayAct("recovery"))
  <2>1. run'.step \in {"weighed", "idle"}
    BY <1>0, <1>1, <1>4 DEF Go, Over, NoRun, RunType
  <2> QED BY <1>1, <1>2, <1>4, <2>1
<1> QED BY <1>3, <1>4

(* Nor does any other step of the agent. *)
LEMMA AgentStill ==
    ASSUME Typed, Typed', Agent
    PROVE /\ UNCHANGED <<env, acct>> /\ desk'.owed = desk.owed
          /\ run.step # "settle" /\ run'.step # "settle"
          /\ run'.step = "swap" => desk.owed = None
          /\ Sends({"mint", "sell", "burn", "buy"})
<1>0. run \in RunType /\ desk \in DeskType
  BY Apart
<1>1. run.step # "settle" /\ UNCHANGED <<env, acct>>
  BY DEF Agent, Simulate, Rest, RunPending, Decide, Recover, MintAndSell, HoldShort,
         SpotSell, BuyAndBurn, Hold, AtPremium
<1>2. Sends({"mint", "sell", "burn", "buy"})
  <2>1. CASE SpotSell
    BY <2>1, SendAdds DEF SpotSell, Sends
  <2>2. CASE ~SpotSell
    BY <2>2 DEF Agent, Simulate, Rest, RunPending, Decide, Recover, MintAndSell, HoldShort,
                BuyAndBurn, Hold, Sends
  <2> QED BY <2>1, <2>2
<1>3. Over => run'.step = "idle"
  BY DEF Over, NoRun
<1>4. /\ desk'.owed = desk.owed /\ run'.step # "settle"
      /\ run'.step = "swap" => desk.owed = None
  <2>1. CASE Simulate
    <3>0. PICK mode \in env.modes, want \in env.wants :
             LET asks == Asks(mode, acct.diem, want)
                 plan == IF asks THEN Replanned(desk.plan, acct) ELSE desk.plan IN
             \E choice \in IF asks THEN Offers(plan, mode = "stuck") ELSE {None} :
                /\ desk' = [Aged(desk) EXCEPT !.plan = plan,
                              !.pending = IF choice = None THEN None
                                          ELSE [option |-> choice, look |-> acct.diem,
                                                clean |-> pool = <<>>]]
                /\ run' = [NoRun EXCEPT !.step = "planned", !.mode = mode]
      BY <2>1 DEF Simulate
    <3> DEFINE asks == Asks(mode, acct.diem, want)
               plan == IF asks THEN Replanned(desk.plan, acct) ELSE desk.plan
    <3>1. PICK choice \in IF asks THEN Offers(plan, mode = "stuck") ELSE {None} :
            /\ desk' = [Aged(desk) EXCEPT !.plan = plan,
                          !.pending = IF choice = None THEN None
                                      ELSE [option |-> choice, look |-> acct.diem,
                                            clean |-> pool = <<>>]]
            /\ run' = [NoRun EXCEPT !.step = "planned", !.mode = mode]
      BY <3>0
    <3> DEFINE pending == IF choice = None THEN None
                          ELSE [option |-> choice, look |-> acct.diem, clean |-> pool = <<>>]
    <3>2. run'.step = "planned"
      BY <3>1, NoRunTyped DEF RunType
    <3>3. desk'.owed = desk.owed
      <4>1. desk' = [Aged(desk) EXCEPT !.plan = plan, !.pending = pending]
        BY <3>1
      <4> HIDE DEF plan, pending
      <4> QED BY <1>0, <4>1 DEF Aged, DeskType
    <3> QED BY <3>2, <3>3
  <2>2. CASE RunPending
    <3> DEFINE planned == desk.pending
               d == [desk EXCEPT !.pending = None]
    <3>1. d.owed = desk.owed /\ Recorded(d, "recovery").owed = desk.owed
      BY <1>0 DEF Recorded, DeskType
    <3>2. StepOf(planned.option) # "settle" /\ (StepOf(planned.option) = "swap" => desk.owed = None)
      BY DEF StepOf
    <3>3. \/ desk' = d /\ Over
          \/ /\ desk' = Recorded(d, "recovery")
             /\ run' = [StartRecovery(planned.option, run) EXCEPT
                           !.look = planned.look, !.older = Len(pool), !.clean = planned.clean]
      BY <2>2 DEF RunPending
    <3>4. CASE desk' = d /\ Over
      BY <1>3, <3>1, <3>4
    <3>5. CASE run' = [StartRecovery(planned.option, run) EXCEPT
                           !.look = planned.look, !.older = Len(pool), !.clean = planned.clean]
      <4>1. run'.step = StepOf(planned.option)
        BY <1>0, <3>5 DEF StartRecovery, RunType
      <4> QED BY <3>1, <3>2, <3>3, <4>1
    <3> QED BY <3>3, <3>4, <3>5
  <2>3. CASE Recover
    BY <2>3, ReliefOwes DEF Recover
  <2>4. CASE HoldShort
    <3>1. run.step \in {"decided", "weighed"} /\ Relief(FALSE, FALSE)
      BY <2>4 DEF HoldShort, AtPremium
    <3> QED BY <3>1, ReliefOwes
  <2>5. CASE MintAndSell
    <3>1. Recorded(desk, "mint").owed = desk.owed
      BY <1>0 DEF Recorded, DeskType
    <3>2. \A want : run' = [run EXCEPT !.step = "sale", !.left = want] => run'.step = "sale"
      BY <1>0 DEF RunType
    <3> QED BY <1>3, <2>5, <3>1, <3>2 DEF MintAndSell
  <2>6. CASE BuyAndBurn
    <3>1. CASE ~Over
      <4>1. PICK step \in {"buy", "cover"} : \E n : run' = [run EXCEPT !.step = step, !.left = n]
        BY <2>6, <3>1 DEF BuyAndBurn, Over
      <4>2. run'.step = step
        BY <1>0, <4>1 DEF RunType
      <4> QED BY <2>6, <4>1, <4>2 DEF BuyAndBurn
    <3> QED BY <1>3, <2>6, <3>1 DEF BuyAndBurn
  <2>7. CASE Decide
    BY <1>0, <2>7 DEF Decide, RunType
  <2>8. CASE Rest \/ SpotSell \/ Hold
    BY <1>3, <2>8 DEF Rest, SpotSell, Hold
  <2> QED BY <2>1, <2>2, <2>3, <2>4, <2>5, <2>6, <2>7, <2>8 DEF Agent
<1> QED BY <1>1, <1>2, <1>4

(* What may be staked leaves no more than is kept. *)
LEMMA StakeLeaves ==
    ASSUME Typed, NEW n \in Nat, acct.vvv <= Allowance + n
    PROVE /\ Stakeable(n) \in Nat /\ Stakeable(n) <= acct.vvv
          /\ acct.vvv <= Allowance + Stakeable(n)
<1>1. acct.vvv \in Nat /\ Allowance \in Nat /\ Buffer \in Nat /\ Buffer <= Allowance
  BY AllowanceTyped, Apart DEF AcctType
<1> QED BY <1>1 DEF Stakeable, LeastOf, Minus

(* An attempt to stake puts what is too much on its way or notes it. *)
LEMMA StakeMoves ==
    ASSUME Typed, Typed', NEW n \in Nat, StakeVVV(n), run.step \in {"owed", "settle"},
           UNCHANGED <<env, acct>>, StillPool, n <= acct.vvv, acct.vvv <= Allowance + n,
           "overflow" \notin seen'.faults
    PROVE AtRest' \/ InStake'
<1>0. desk \in DeskType /\ run.step \notin {"idle", "planned"} /\ Allowance' = Allowance
  BY Apart, AllowanceTyped
<1>1. ~Fault("overflow")
  BY FaultTyped
<1>2. CASE Send("stake", n) /\ desk' = Counted([desk EXCEPT !.owed = None]) /\ Over
  <2>1. desk'.owed = None
    BY <1>0, <1>2 DEF Counted, DeskType
  <2>2. run'.step = "idle"
    BY <1>2 DEF Over, NoRun
  <2>3. PICK tx \in TxType : tx.kind = "stake" /\ tx.units = n /\ pool' = Append(pool, tx)
    BY <1>2, SendAdds
  <2>4. /\ Len(pool) \in Nat /\ DOMAIN pool = 1 .. Len(pool)
        /\ DOMAIN pool' = 1 .. Len(pool) + 1
        /\ \A i \in 1 .. Len(pool) : pool'[i] = pool[i]
        /\ pool'[Len(pool) + 1] = tx
    BY <2>3, PoolSent
  <2>5. \A j \in DOMAIN pool' \ {Len(pool) + 1} : pool'[j].kind \notin Moving
    BY <2>4 DEF StillPool
  <2>6. Len(pool) + 1 \in DOMAIN pool'
    BY <2>4
  <2> QED BY <1>0, <2>1, <2>2, <2>3, <2>4, <2>5, <2>6 DEF InStake
<1>3. CASE desk' = Noted(desk) /\ Failed /\ UNCHANGED pool
  <2>1. desk'.owed = acct.vvv
    BY <1>0, <1>3 DEF Noted, DeskType
  <2>2. run'.step \in {"idle", "weighed"}
    BY <1>0, <1>3, FailedTyped
  <2>3. acct.vvv # None
    BY Apart, DeskAssumption DEF AcctType
  <2> QED BY <1>3, <2>1, <2>2, <2>3 DEF AtRest, StillPool
<1> QED BY <1>1, <1>2, <1>3 DEF StakeVVV

(* VVV owed is all the wallet has. *)
LEMMA StakeOwedMoves ==
    ASSUME Typed, Typed', AtRest \/ InStake \/ InSwap, StakeOwed,
           "overflow" \notin seen'.faults
    PROVE AtRest' \/ InStake'
<1>1. run.step = "owed" /\ UNCHANGED <<env, acct>>
  BY DEF StakeOwed
<1>2. desk.owed # None
  BY <1>1, Amounts
<1>3. AtRest /\ desk.owed = acct.vvv /\ StillPool
  BY <1>2 DEF AtRest, InStake, InSwap
<1>4. acct.vvv \in Nat /\ acct.vvv <= Allowance + desk.owed /\ Allowance' = Allowance
  BY <1>1, <1>3, AllowanceTyped, Apart DEF AcctType
<1> DEFINE n == Stakeable(desk.owed)
<1>5. n \in Nat /\ n <= acct.vvv /\ acct.vvv <= Allowance + n
  BY <1>3, <1>4, StakeLeaves
<1> HIDE DEF n
<1>6. CASE StakeVVV(n)
  BY <1>1, <1>3, <1>5, <1>6, StakeMoves
<1>7. CASE Failed /\ UNCHANGED <<pool, desk>>
  <2>1. run'.step \in {"idle", "weighed"}
    BY <1>1, <1>7, FailedTyped
  <2> QED BY <1>1, <1>2, <1>3, <1>7, <2>1 DEF AtRest, StillPool
<1>8. CASE n = 0 /\ desk' = [desk EXCEPT !.owed = None] /\ Failed /\ UNCHANGED pool
  <2>1. run'.step \in {"idle", "weighed"}
    BY <1>1, <1>8, FailedTyped
  <2>2. desk'.owed = None
    BY <1>8, Apart DEF DeskType
  <2>3. acct.vvv <= Allowance
    BY <1>4, <1>5, <1>8, AllowanceTyped
  <2> QED BY <1>1, <1>3, <1>4, <1>8, <2>1, <2>2, <2>3 DEF AtRest, StillPool
<1> QED BY <1>6, <1>7, <1>8 DEF StakeOwed, n

(* A swap is sent into an empty pool. *)
LEMMA SwapMoves ==
    ASSUME Typed, Typed', AtRest \/ InStake \/ InSwap, SwapForVVV, ~seen'.overlap
    PROVE AtRest' \/ InStake' \/ InSwap'
<1>1. run.step = "swap" /\ UNCHANGED <<env, acct>> /\ run \in RunType /\ Allowance' = Allowance
  BY Apart, AllowanceTyped DEF SwapForVVV
<1>2. AtRest \/ InStake
  BY <1>1 DEF InSwap
<1>3. CASE /\ Send("swap", run.left)
           /\ run' = [run EXCEPT !.step = "settle", !.got = "none", !.before = acct.vvv]
           /\ seen' = [seen EXCEPT !.overlap = @ \/ pool # <<>>]
           /\ UNCHANGED desk
  <2>1. pool = <<>>
    BY <1>3, Apart DEF SeenType
  <2>2. desk.owed = None /\ acct.vvv <= Allowance
    <3>1. DOMAIN pool = {}
      BY <2>1
    <3> QED BY <1>1, <1>2, <3>1 DEF AtRest, InStake
  <2>3. PICK tx \in TxType : tx.kind = "swap" /\ tx.units = run.left /\ pool' = Append(pool, tx)
    BY <1>3, SendAdds
  <2>4. Len(pool') = 1 /\ pool'[1] = tx
    <3>1. Len(pool) = 0
      BY <2>1
    <3> QED BY <2>3, <3>1, PoolSent
  <2>5. run'.step = "settle" /\ run'.got = "none" /\ run'.before = acct.vvv /\ run'.left = run.left
    BY <1>1, <1>3 DEF RunType
  <2> QED BY <1>1, <1>3, <2>2, <2>3, <2>4, <2>5 DEF InSwap
<1>4. CASE Finish(FALSE) /\ UNCHANGED pool
  <2>1. desk'.owed = desk.owed /\ run'.step \in {"idle", "weighed"}
    BY <1>1, <1>4, FinishTyped
  <2> QED BY <1>1, <1>2, <1>4, <2>1, StillKept DEF Sends
<1> QED BY <1>3, <1>4 DEF SwapForVVV

(* What came of a swap is staked as far as it is too much. *)
LEMMA SettleMoves ==
    ASSUME Typed, Typed', AtRest \/ InStake \/ InSwap, StakeSwapped,
           "overflow" \notin seen'.faults
    PROVE AtRest' \/ InStake'
<1>1. run.step = "settle" /\ run.got # "none" /\ UNCHANGED <<env, acct>> /\ Allowance' = Allowance
  BY AllowanceTyped DEF StakeSwapped
<1>2. InSwap /\ pool = <<>> /\ StillPool
  BY <1>1 DEF AtRest, InStake, InSwap, StillPool
<1>3. /\ run.left \in Nat \ {0} /\ run.before \in Nat /\ acct.vvv \in Nat
      /\ Allowance \in Nat
  BY <1>1, Amounts, AllowanceTyped DEF Working
<1> DEFINE n == ToStake(run)
<1>4. n = Stakeable(run.left) /\ acct.vvv <= Allowance + run.left
  <2>1. CASE acct.vvv = run.before + run.left
    <3>1. Received(run) = run.left
      BY <1>3, <2>1 DEF Received, Minus
    <3>2. LeastOf(Received(run), run.left) = run.left
      BY <3>1 DEF LeastOf
    <3> QED BY <1>2, <1>3, <2>1, <3>1, <3>2 DEF ToStake, InSwap
  <2>2. CASE acct.vvv = run.before
    <3>1. Received(run) = 0
      BY <1>3, <2>2 DEF Received, Minus
    <3> QED BY <1>2, <1>3, <2>2, <3>1 DEF ToStake, InSwap
  <2> QED BY <1>1, <1>2, <2>1, <2>2 DEF InSwap
<1>5. n \in Nat /\ n <= acct.vvv /\ acct.vvv <= Allowance + n
  BY <1>3, <1>4, StakeLeaves
<1> HIDE DEF n
<1>6. CASE StakeVVV(n)
  BY <1>1, <1>2, <1>5, <1>6, StakeMoves
<1>7. CASE n = 0 /\ run' = NoRun /\ UNCHANGED <<pool, desk>>
  <2>1. acct.vvv <= Allowance
    BY <1>3, <1>5, <1>7
  <2> QED BY <1>1, <1>2, <1>7, <2>1, NoRunTyped DEF AtRest, InSwap, StillPool
<1> QED BY <1>6, <1>7 DEF StakeSwapped, n

(* The VVV of the wallet after a covered transaction. *)
LEMMA VVVSettled ==
    ASSUME NEW a \in AcctType, NEW tx \in TxType
    PROVE Settled(a, tx).vvv = CASE tx.kind = "swap"  -> a.vvv + tx.units
                                 [] tx.kind = "stake" -> a.vvv - tx.units
                                 [] OTHER             -> a.vvv
<1>1. tx.kind \in Kinds
  BY DEF TxType
<1> DEFINE n == tx.units
           m == Rate * n
<1>2. CASE tx.kind = "mint"
  <2>1. Settled(a, tx) = [a EXCEPT !.free = @ - m, !.locked = @ + m, !.diem = @ + n]
    BY <1>2 DEF Settled
  <2> QED BY <1>2, <2>1 DEF AcctType
<1>3. CASE tx.kind = "burn"
  <2>1. Settled(a, tx) = [a EXCEPT !.free = @ + m, !.locked = @ - m, !.diem = @ - n]
    BY <1>3 DEF Settled
  <2> QED BY <1>3, <2>1 DEF AcctType
<1>4. CASE tx.kind \in {"sell", "buy"}
  BY <1>4 DEF Settled, AcctType
<1>5. CASE tx.kind = "swap"
  BY <1>5 DEF Settled, AcctType
<1>6. CASE tx.kind = "stake"
  BY <1>6 DEF Settled, AcctType
<1> QED BY <1>1, <1>2, <1>3, <1>4, <1>5, <1>6 DEF Kinds

(* The chain: a swap brings what it promised or nothing, a stake never fails *)
(* for want of VVV, and nothing else moves any.                              *)
LEMMA MineMovesVVV ==
    ASSUME Typed, AtRest \/ InStake \/ InSwap, Mine, "surplus" \notin seen'.faults
    PROVE AtRest' \/ InStake' \/ InSwap'
<1> DEFINE tx == pool[1]
<1>1. PICK result \in {"ok", "failed"} :
        /\ Receipt(tx, result)
        /\ \/ result = "ok" /\ (acct' = Settled(acct, tx) \/ Fault("surplus"))
           \/ /\ result = "failed" /\ UNCHANGED acct
              /\ ~Covers(acct, tx) \/ tx.kind \notin {"burn", "stake"}
  BY MineIs
<1>2. ~Fault("surplus")
  BY FaultTyped
<1>3. pool # <<>> /\ pool' = Tail(pool) /\ UNCHANGED <<env, desk>> /\ tx \in TxType
  BY MineIs
<1>4. /\ Len(pool) \in Nat \ {0} /\ DOMAIN pool = 1 .. Len(pool)
      /\ DOMAIN pool' = 1 .. Len(pool) - 1
      /\ \A i \in 1 .. Len(pool) - 1 : pool'[i] = pool[i + 1]
      /\ pool' = <<>> <=> Len(pool) = 1
  BY <1>3, PoolMined
<1>5. run \in RunType /\ acct \in AcctType /\ Allowance' = Allowance /\ Allowance \in Nat
  BY <1>3, Apart, AllowanceTyped
<1>6. /\ run'.step = run.step /\ run'.left = run.left /\ run'.before = run.before
      /\ run'.got = IF Len(pool) = 1 /\ run.step \in {"await", "settle"} THEN result ELSE run.got
  BY <1>1, <1>5 DEF Receipt, RunType
<1>7. tx.kind \notin Moving => acct'.vvv = acct.vvv
  BY <1>1, <1>2, <1>3, <1>5, VVVSettled DEF Moving
<1>8. \A j \in DOMAIN pool' : j + 1 \in DOMAIN pool \ {1} /\ pool'[j] = pool[j + 1]
  BY <1>4
<1>9. CASE AtRest
  <2>1. tx.kind \notin Moving /\ StillPool'
    BY <1>4, <1>8, <1>9 DEF AtRest, StillPool
  <2> QED BY <1>3, <1>5, <1>6, <1>7, <1>9, <2>1 DEF AtRest
<1>10. CASE InStake
  <2>1. PICK i \in DOMAIN pool :
          /\ pool[i].kind = "stake"
          /\ pool[i].units <= acct.vvv /\ acct.vvv <= Allowance + pool[i].units
          /\ \A j \in DOMAIN pool \ {i} : pool[j].kind \notin Moving
    BY <1>10 DEF InStake
  <2>2. CASE i = 1
    <3>1. Covers(acct, tx)
      BY <2>1, <2>2 DEF Covers
    <3>2. acct' = Settled(acct, tx)
      BY <1>1, <1>2, <2>1, <2>2, <3>1
    <3>3. acct'.vvv = acct.vvv - tx.units
      BY <1>3, <1>5, <2>1, <2>2, <3>2, VVVSettled
    <3>4. acct'.vvv <= Allowance
      BY <1>3, <1>5, <2>1, <2>2, <3>3 DEF AcctType, TxType
    <3>5. StillPool'
      BY <1>8, <2>1, <2>2 DEF StillPool
    <3> QED BY <1>3, <1>5, <1>6, <1>10, <3>4, <3>5 DEF AtRest, InStake
  <2>3. CASE i # 1
    <3>1. tx.kind \notin Moving
      BY <1>4, <2>1, <2>3
    <3>2. i - 1 \in DOMAIN pool' /\ pool'[i - 1] = pool[i]
      BY <1>4, <2>1, <2>3
    <3>3. \A j \in DOMAIN pool' \ {i - 1} : pool'[j].kind \notin Moving
      BY <1>4, <1>8, <2>1
    <3> QED BY <1>3, <1>5, <1>6, <1>7, <1>10, <2>1, <3>1, <3>2, <3>3 DEF InStake
  <2> QED BY <2>2, <2>3
<1>11. CASE InSwap
  <2>1. /\ run.got = "none" /\ acct.vvv = run.before
        /\ Len(pool) = 1 /\ tx.kind = "swap" /\ tx.units = run.left
    BY <1>3, <1>11 DEF InSwap
  <2>2. pool' = <<>> /\ run'.got = result
    BY <1>4, <1>6, <1>11, <2>1 DEF InSwap
  <2>3. CASE result = "ok"
    <3>1. acct'.vvv = run'.before + run'.left
      BY <1>1, <1>2, <1>3, <1>5, <1>6, <2>1, <2>3, VVVSettled
    <3> QED BY <1>3, <1>5, <1>6, <1>11, <2>2, <2>3, <3>1 DEF InSwap
  <2>4. CASE result = "failed"
    BY <1>1, <1>3, <1>5, <1>6, <1>11, <2>1, <2>2, <2>4 DEF InSwap
  <2> QED BY <2>3, <2>4
<1> QED BY <1>9, <1>10, <1>11

(* Every step keeps VVV at rest, or on its way into a stake. *)
LEMMA NextMoves ==
    ASSUME Typed, Typed', BoughtKept, [Next]_deskVars
    PROVE BoughtKept'
<1> SUFFICES ASSUME Undisturbed' PROVE AtRest' \/ InStake' \/ InSwap'
  BY DEF BoughtKept
<1>1. Undisturbed
  BY FaultsStay, FlagsStay DEF Undisturbed
<1>2. AtRest \/ InStake \/ InSwap
  BY <1>1 DEF BoughtKept
<1>3. /\ ~seen'.overlap /\ "timeout" \notin seen'.faults /\ "overflow" \notin seen'.faults
      /\ "surplus" \notin seen'.faults /\ "crash" \notin seen'.faults
  BY DEF Undisturbed
<1>4. CASE Client
  <2>1. CASE SwapTimesOut
    BY <1>3, <2>1, FaultTyped DEF SwapTimesOut
  <2>2. CASE ~StakeOwed /\ ~SwapForVVV /\ ~StakeSwapped /\ ~SwapTimesOut
    <3>1. AtRest \/ InStake
      BY <1>2, <1>4, <2>2, ClientStill DEF InSwap
    <3> QED BY <1>4, <2>2, <3>1, ClientStill, StillKept
  <2> QED BY <1>2, <1>3, <1>4, <2>1, <2>2, StakeOwedMoves, SwapMoves, SettleMoves
<1>5. CASE Agent
  <2>1. AtRest \/ InStake
    BY <1>2, <1>5, AgentStill DEF InSwap
  <2> QED BY <1>5, <2>1, AgentStill, StillKept
<1>6. CASE Mine
  BY <1>2, <1>3, <1>6, MineMovesVVV
<1>7. CASE Crash
  BY <1>3, <1>7, FaultTyped DEF Crash
<1>8. CASE UNCHANGED deskVars
  BY <1>2, <1>8, AllowanceTyped DEF deskVars, AtRest, InStake, InSwap, StillPool
<1> QED BY <1>4, <1>5, <1>6, <1>7, <1>8 DEF Next

(* VVV bought by a recovery is staked, or noted as owed, unless a receipt    *)
(* was not seen in time, a stake was cut down, the swap gave more than its   *)
(* quote, the process died, or the swap overlapped an unmined transaction:   *)
(* whatever the wallet held to begin with.                                   *)
THEOREM BoughtVVVIsKept == Spec => []BoughtIsStakedOrOwed
<1> DEFINE I == Typed /\ BoughtKept
<1>1. Init => I
  <2>1. SUFFICES ASSUME Init PROVE I
    OBVIOUS
  <2>2. Typed
    BY <2>1, InitTyped
  <2>3. run.step = "idle" /\ pool = <<>> /\ acct = env.chain /\ desk.owed = None
    BY <2>1 DEF Init, NoRun, NoDesk
  <2>4. DOMAIN pool = {} /\ acct.vvv <= Allowance
    BY <2>2, <2>3, AllowanceTyped
  <2>5. AtRest
    BY <2>3, <2>4 DEF AtRest, StillPool
  <2> QED BY <2>2, <2>5 DEF BoughtKept
<1>2. I /\ [Next]_deskVars => I'
  BY NextTyped, NextMoves
<1>3. I => BoughtIsStakedOrOwed
  <2>1. SUFFICES ASSUME I, Resting, desk.owed = None, Undisturbed PROVE acct.vvv <= Allowance
    BY DEF BoughtIsStakedOrOwed, Undisturbed
  <2>2. DOMAIN pool = {} /\ run.step = "idle"
    BY <2>1 DEF Resting
  <2> QED BY <2>1, <2>2 DEF BoughtKept, AtRest, InStake, InSwap
<1> QED BY <1>1, <1>2, <1>3, PTL DEF Spec

-----------------------------------------------------------------------------
(* What was decided with nothing in the air is covered when it is mined. *)

Only(kind) == \A i \in DOMAIN pool : pool[i].kind = kind

(* Whether the mining of one kind leaves what another needs. *)
Allows(first, then) ==
    <<first, then>> \in {<<"sell", "mint">>, <<"burn", "buy">>, <<"swap", "stake">>}

(* What a decision that began with nothing in the air finds at each step:    *)
(* its own earlier transactions, and what its next one needs.                *)
CleanRun == run.clean =>
    /\ run.step \in {"decided", "weighed", "sale", "offer", "cover", "burn", "owed", "swap"}
          => pool = <<>>
    /\ run.step = "sale" => run.look = acct.diem
    /\ run.step \in {"mint", "send"} => Only("sell")
    /\ run.step = "send" => acct.free >= Rate * run.left
    /\ run.step = "await" => \/ /\ run.got = "none"
                                /\ pool[Len(pool)].clean /\ pool[Len(pool)].units = run.left
                             \/ run.got = "ok" /\ acct.diem >= run.left
    /\ run.step = "offer" => acct.diem >= run.left
    /\ run.step = "buy" => Only("burn")
    /\ run.step = "settle" => Only("swap")

(* A clean transaction is covered now, and still is when those before it are *)
(* mined.                                                                    *)
PoolClean == \A i \in DOMAIN pool : pool[i].clean =>
    /\ Covers(acct, pool[i])
    /\ \A j \in 1 .. i - 1 : Allows(pool[j].kind, pool[i].kind)

CleanKept == Faultless => CleanRun /\ PoolClean

(* In an empty pool there is only what one likes. *)
LEMMA OnlyEmpty == pool = <<>> => \A kind : Only(kind)
<1>1. pool = <<>> => DOMAIN pool = {}
  OBVIOUS
<1> QED BY <1>1 DEF Only

(* Where nothing is sent or mined the pool stays clean. *)
LEMMA CleanStays ==
    ASSUME UNCHANGED <<acct, pool>>
    PROVE /\ PoolClean => PoolClean'
          /\ \A kind : Only(kind) => Only(kind)'
  BY DEF PoolClean, Only, Covers

(* What joins a clean pool is covered, and allowed by all before it. *)
LEMMA CleanSent ==
    ASSUME Typed, PoolClean, UNCHANGED acct, NEW tx \in TxType, pool' = Append(pool, tx),
           tx.clean => /\ Covers(acct, tx)
                       /\ \A j \in DOMAIN pool : Allows(pool[j].kind, tx.kind)
    PROVE PoolClean'
<1>1. /\ Len(pool) \in Nat /\ DOMAIN pool = 1 .. Len(pool)
      /\ DOMAIN pool' = 1 .. Len(pool) + 1
      /\ \A i \in 1 .. Len(pool) : pool'[i] = pool[i]
      /\ pool'[Len(pool) + 1] = tx
  BY PoolSent
<1>2. ASSUME NEW i \in DOMAIN pool', pool'[i].clean
      PROVE Covers(acct', pool'[i]) /\ \A j \in 1 .. i - 1 : Allows(pool'[j].kind, pool'[i].kind)
  <2>1. CASE i \in DOMAIN pool
    <3>1. pool'[i] = pool[i] /\ \A j \in 1 .. i - 1 : pool'[j] = pool[j]
      BY <1>1, <2>1
    <3>2. Covers(acct, pool[i]) /\ \A j \in 1 .. i - 1 : Allows(pool[j].kind, pool[i].kind)
      BY <1>2, <2>1, <3>1 DEF PoolClean
    <3> QED BY <3>1, <3>2
  <2>2. CASE i = Len(pool) + 1
    <3>1. pool'[i] = tx /\ \A j \in 1 .. i - 1 : j \in DOMAIN pool /\ pool'[j] = pool[j]
      BY <1>1, <2>2
    <3> QED BY <1>2, <3>1
  <2> QED BY <1>1, <2>1, <2>2
<1> QED BY <1>2 DEF PoolClean, Covers

(* The same for a call that sends, with what it knows when it sends. *)
LEMMA CleanSend ==
    ASSUME Typed, Typed', PoolClean, UNCHANGED acct, NEW kind, NEW units, Send(kind, units),
           \A tx \in TxType : run.clean /\ tx.kind = kind /\ tx.units = units => Covers(acct, tx),
           run.clean => \A j \in DOMAIN pool : Allows(pool[j].kind, kind)
    PROVE /\ PoolClean'
          /\ pool' # <<>>
          /\ run.clean => pool'[Len(pool')].clean /\ pool'[Len(pool')].units = units
          /\ Only(kind) => Only(kind)'
<1>1. PICK tx \in TxType : tx.kind = kind /\ tx.units = units /\ tx.clean = run.clean
                             /\ pool' = Append(pool, tx)
  BY SendAdds
<1>2. PoolClean'
  BY <1>1, CleanSent
<1>3. /\ DOMAIN pool = 1 .. Len(pool) /\ Len(pool) \in Nat /\ pool' # <<>>
      /\ Len(pool') = Len(pool) + 1 /\ DOMAIN pool' = 1 .. Len(pool) + 1
      /\ \A i \in 1 .. Len(pool) : pool'[i] = pool[i]
      /\ pool'[Len(pool) + 1] = tx
  BY <1>1, PoolSent
<1>4. Only(kind) => Only(kind)'
  BY <1>1, <1>3 DEF Only
<1> QED BY <1>1, <1>2, <1>3, <1>4

(* The end of a decision: over, or on to trade with the pool still empty. *)
LEMMA EndClean ==
    ASSUME Typed, RunKept, CleanRun, Over \/ (Failed /\ UNCHANGED pool),
           run.step \in {"sale", "mint", "send", "await", "offer", "cover", "burn", "buy",
                         "owed", "swap"}
    PROVE CleanRun'
<1>1. CASE run' = NoRun
  BY <1>1 DEF CleanRun, NoRun
<1>2. CASE run.falls /\ Failed /\ UNCHANGED pool
  <2>1. run' = [NoRun EXCEPT !.step = "weighed", !.job = "trade", !.mode = run.mode,
                             !.look = run.look, !.clean = run.clean, !.older = run.older]
    BY <1>2 DEF Failed
  <2>2. run'.step = "weighed" /\ run'.clean = run.clean
    BY <2>1 DEF NoRun
  <2>3. run.clean => run.step \in {"cover", "burn", "owed", "swap"}
    BY <1>2 DEF RunKept
  <2>4. run.clean => pool = <<>>
    BY <2>3 DEF CleanRun
  <2> QED BY <1>2, <2>2, <2>4 DEF CleanRun
<1> QED BY <1>1, <1>2 DEF Over, Failed

(* A call's end, as EndClean asks for it. *)
LEMMA FinishClean ==
    ASSUME Typed, RunKept, CleanRun, NEW executed \in BOOLEAN, Finish(executed),
           executed \/ UNCHANGED pool,
           run.step \in {"sale", "mint", "send", "await", "offer", "cover", "burn", "buy",
                         "owed", "swap"}
    PROVE CleanRun'
  BY EndClean DEF Finish

(* The steps of the mint. *)
LEMMA SellFirstClean ==
    ASSUME Typed, Typed', RunKept, CleanRun, PoolClean, SellFirst, seen'.faults = {}
    PROVE CleanRun' /\ PoolClean'
<1> DEFINE use == LeastOf(run.look, run.left)
<1>1. run.step = "sale" /\ UNCHANGED <<env, acct>> /\ run \in RunType
  BY Apart DEF SellFirst
<1>2. run.look \in Nat /\ run.left \in Nat /\ use <= run.look
  BY <1>1, Amounts DEF LeastOf
<1>3. run.clean => pool = <<>> /\ run.look = acct.diem
  BY <1>1 DEF CleanRun
<1>4. ~Fault("refused")
  BY FaultTyped
<1>5. PoolClean' /\ (run.clean => Only("sell")')
  <2>1. CASE Send("sell", use)
    <3>1. \A tx \in TxType : run.clean /\ tx.kind = "sell" /\ tx.units = use => Covers(acct, tx)
      BY <1>2, <1>3 DEF Covers
    <3>2. run.clean => Only("sell") /\ \A j \in DOMAIN pool : Allows(pool[j].kind, "sell")
      BY <1>3, OnlyEmpty
    <3> HIDE DEF use
    <3> QED BY <1>1, <2>1, <3>1, <3>2, CleanSend
  <2>2. CASE UNCHANGED pool
    BY <1>1, <1>3, <2>2, CleanStays, OnlyEmpty
  <2> QED BY <1>4, <2>1, <2>2 DEF SellFirst
<1>6. CASE run.left > run.look
  <2>1. run' = [AfterSale(run) EXCEPT !.step = "mint"]
    BY <1>6 DEF SellFirst
  <2>2. run'.step = "mint" /\ run'.clean = run.clean
    BY <1>1, <2>1 DEF AfterSale, RunType
  <2> QED BY <1>5, <2>2 DEF CleanRun
<1>7. CASE ~(run.left > run.look)
  BY <1>1, <1>5, <1>7, FinishClean DEF SellFirst
<1> QED BY <1>6, <1>7

LEMMA CheckMintClean ==
    ASSUME Typed, RunKept, CleanRun, PoolClean, CheckMint, seen'.faults = {}
    PROVE CleanRun' /\ PoolClean'
<1>1. run.step = "mint" /\ UNCHANGED <<env, acct, pool>> /\ run \in RunType
  BY Apart DEF CheckMint
<1>2. ~Fault("blind") /\ ~Fault("unavailable")
  BY FaultTyped
<1>3. PoolClean' /\ (Only("sell") => Only("sell")')
  BY <1>1, CleanStays
<1>4. CASE acct.free >= Rate * run.left /\ run' = [run EXCEPT !.step = "send", !.attempt = 1]
  <2>1. run'.step = "send" /\ run'.clean = run.clean /\ run'.left = run.left
    BY <1>1, <1>4 DEF RunType
  <2> QED BY <1>1, <1>3, <1>4, <2>1 DEF CleanRun
<1>5. CASE Finish(FALSE)
  BY <1>1, <1>3, <1>5, FinishClean
<1> QED BY <1>2, <1>4, <1>5 DEF CheckMint

LEMMA SendMintClean ==
    ASSUME Typed, Typed', CleanRun, PoolClean, SendMint, seen'.faults = {}
    PROVE CleanRun' /\ PoolClean'
<1>1. run.step = "send" /\ UNCHANGED <<env, acct>> /\ run \in RunType
  BY Apart DEF SendMint
<1>2. ~Fault("send") /\ ~Fault("lost")
  BY FaultTyped
<1>3. Send("mint", run.left)
        /\ run' = [run EXCEPT !.step = "await", !.got = "none", !.minted = @ + 1]
  BY <1>2 DEF SendMint
<1>4. run.clean => Only("sell") /\ acct.free >= Rate * run.left
  BY <1>1 DEF CleanRun
<1>5. \A tx \in TxType : run.clean /\ tx.kind = "mint" /\ tx.units = run.left => Covers(acct, tx)
  BY <1>4 DEF Covers
<1>6. run.clean => \A j \in DOMAIN pool : Allows(pool[j].kind, "mint")
  BY <1>4 DEF Only, Allows
<1>7. PoolClean' /\ (run.clean => pool'[Len(pool')].clean /\ pool'[Len(pool')].units = run.left)
  BY <1>1, <1>3, <1>5, <1>6, CleanSend
<1>8. run'.step = "await" /\ run'.got = "none" /\ run'.clean = run.clean /\ run'.left = run.left
  BY <1>1, <1>3 DEF RunType
<1> QED BY <1>7, <1>8 DEF CleanRun

LEMMA AwaitMintClean ==
    ASSUME Typed, MintsCounted, CleanRun, PoolClean, AwaitMint, Faultless, seen'.faults = {}
    PROVE CleanRun' /\ PoolClean'
<1>1. run.step = "await" /\ UNCHANGED <<env, acct, pool>> /\ run \in RunType
  BY Apart DEF AwaitMint
<1>2. ~Fault("timeout")
  BY FaultTyped
<1>3. run.got # "none" /\ run' = Answered(run)
  BY <1>2 DEF AwaitMint
<1>4. PoolClean'
  BY <1>1, CleanStays
<1>5. CASE run.got = "ok"
  <2>1. pool = <<>>
    BY <1>1, <1>5 DEF MintsCounted, Doubt, Faultless
  <2>2. run' = [run EXCEPT !.step = "offer"]
    BY <1>3, <1>5 DEF Answered
  <2>3. run'.step = "offer" /\ run'.clean = run.clean /\ run'.left = run.left
    BY <1>1, <2>2 DEF RunType
  <2>4. run.clean => acct.diem >= run.left
    BY <1>1, <1>5 DEF CleanRun
  <2> QED BY <1>1, <1>4, <2>1, <2>3, <2>4 DEF CleanRun
<1>6. CASE run.got # "ok"
  <2>1. ~run.clean
    BY <1>1, <1>3, <1>6 DEF CleanRun
  <2>2. run' = NoRun \/ run' = [run EXCEPT !.step = "send", !.attempt = @ + 1]
    BY <1>3, <1>6 DEF Answered, Retried
  <2>3. CASE run' = NoRun
    BY <1>4, <2>3 DEF CleanRun, NoRun
  <2>4. CASE run' = [run EXCEPT !.step = "send", !.attempt = @ + 1]
    <3>1. run'.clean = run.clean
      BY <1>1, <2>4 DEF RunType
    <3> QED BY <1>4, <2>1, <3>1 DEF CleanRun
  <2> QED BY <2>2, <2>3, <2>4
<1> QED BY <1>5, <1>6

LEMMA OfferMintedClean ==
    ASSUME Typed, Typed', RunKept, CleanRun, PoolClean, OfferMinted, seen'.faults = {}
    PROVE CleanRun' /\ PoolClean'
<1>1. run.step = "offer" /\ UNCHANGED <<env, acct>>
  BY DEF OfferMinted
<1>2. ~Fault("refused") /\ run.left > 0
  BY <1>1, FaultTyped, Amounts DEF Working
<1>3. Send("sell", run.left) /\ Finish(TRUE)
  BY <1>2 DEF OfferMinted, Offered
<1>4. run.clean => pool = <<>> /\ acct.diem >= run.left
  BY <1>1 DEF CleanRun
<1>5. \A tx \in TxType : run.clean /\ tx.kind = "sell" /\ tx.units = run.left => Covers(acct, tx)
  BY <1>4 DEF Covers
<1>6. run.clean => \A j \in DOMAIN pool : Allows(pool[j].kind, "sell")
  BY <1>4
<1>7. PoolClean'
  BY <1>1, <1>3, <1>5, <1>6, CleanSend
<1> QED BY <1>1, <1>3, <1>7, FinishClean

(* The steps of the burn. *)
LEMMA CoverBurnClean ==
    ASSUME Typed, RunKept, CleanRun, PoolClean, CoverBurn
    PROVE CleanRun' /\ PoolClean'
<1> DEFINE use == LeastOf(run.look, run.left)
<1>1. run.step = "cover" /\ UNCHANGED <<env, acct, pool>> /\ run \in RunType
  BY Apart DEF CoverBurn
<1>2. PoolClean' /\ (run.clean => pool' = <<>>)
  BY <1>1, CleanStays DEF CleanRun
<1>3. CASE Go("buy") \/ run' = [run EXCEPT !.step = "burn", !.use = BurnPart(acct, use)]
  <2>1. run'.step \in {"buy", "burn"} /\ run'.clean = run.clean
    BY <1>1, <1>3 DEF Go, RunType
  <2>2. pool' = <<>> => Only("burn")'
    BY <1>1, OnlyEmpty, CleanStays
  <2> QED BY <1>2, <2>1, <2>2 DEF CleanRun
<1>4. CASE Finish(FALSE)
  BY <1>1, <1>2, <1>4, FinishClean
<1> QED BY <1>3, <1>4 DEF CoverBurn

LEMMA BurnWalletClean ==
    ASSUME Typed, Typed', RunKept, CleanRun, PoolClean, BurnWallet, seen'.faults = {}
    PROVE CleanRun' /\ PoolClean'
<1> DEFINE left == run.left - run.use
<1>1. run.step = "burn" /\ UNCHANGED <<env, acct>> /\ run \in RunType
  BY Apart DEF BurnWallet
<1>2. ~Fault("send")
  BY FaultTyped
<1>3. run.clean => pool = <<>>
  BY <1>1 DEF CleanRun
<1>4. PoolClean' /\ (run.clean => Only("burn")')
  <2>1. CASE Burnable(acct, run.use) /\ Send("burn", run.use)
    <3>1. \A tx \in TxType : run.clean /\ tx.kind = "burn" /\ tx.units = run.use => Covers(acct, tx)
      BY <2>1 DEF Covers, Burnable
    <3>2. run.clean => Only("burn") /\ \A j \in DOMAIN pool : Allows(pool[j].kind, "burn")
      BY <1>3, OnlyEmpty
    <3> QED BY <1>1, <2>1, <3>1, <3>2, CleanSend
  <2>2. CASE UNCHANGED pool
    BY <1>1, <1>3, <2>2, CleanStays, OnlyEmpty
  <2> QED BY <2>1, <2>2 DEF BurnWallet
<1>5. CASE left > 0 /\ run' = [run EXCEPT !.step = "buy", !.left = left]
  <2>1. run'.step = "buy" /\ run'.clean = run.clean
    BY <1>1, <1>5 DEF RunType
  <2> QED BY <1>4, <2>1 DEF CleanRun
<1>6. CASE Finish(TRUE) \/ (Finish(FALSE) /\ UNCHANGED pool)
  BY <1>1, <1>4, <1>6, FinishClean
<1> QED BY <1>5, <1>6 DEF BurnWallet

LEMMA BuyRestClean ==
    ASSUME Typed, Typed', RunKept, CleanRun, PoolClean, BuyRest
    PROVE CleanRun' /\ PoolClean'
<1>1. run.step = "buy" /\ UNCHANGED <<env, acct>>
  BY DEF BuyRest
<1>2. CASE acct.usdc >= run.left /\ Send("buy", run.left) /\ Finish(TRUE)
  <2>1. \A tx \in TxType : run.clean /\ tx.kind = "buy" /\ tx.units = run.left => Covers(acct, tx)
    BY <1>2 DEF Covers
  <2>2. run.clean => \A j \in DOMAIN pool : Allows(pool[j].kind, "buy")
    BY <1>1 DEF CleanRun, Only, Allows
  <2>3. PoolClean'
    BY <1>1, <1>2, <2>1, <2>2, CleanSend
  <2> QED BY <1>1, <1>2, <2>3, FinishClean
<1>3. CASE Finish(FALSE) /\ UNCHANGED pool
  BY <1>1, <1>3, FinishClean, CleanStays
<1> QED BY <1>2, <1>3 DEF BuyRest

(* The steps of the stake. *)
LEMMA StakeClean ==
    ASSUME Typed, Typed', PoolClean, UNCHANGED acct, NEW n \in Nat, n <= acct.vvv, StakeVVV(n),
           run.clean => Only("swap"), seen'.faults = {}
    PROVE CleanRun' /\ PoolClean'
<1>1. ~Fault("overflow") /\ ~Fault("send")
  BY FaultTyped
<1>2. Send("stake", n) /\ Over
  BY <1>1 DEF StakeVVV
<1>3. \A tx \in TxType : run.clean /\ tx.kind = "stake" /\ tx.units = n => Covers(acct, tx)
  BY DEF Covers
<1>4. run.clean => \A j \in DOMAIN pool : Allows(pool[j].kind, "stake")
  BY DEF Only, Allows
<1>5. PoolClean'
  BY <1>2, <1>3, <1>4, CleanSend
<1> QED BY <1>2, <1>5 DEF CleanRun, Over, NoRun

(* No more is staked than the wallet has. *)
LEMMA StakeableCovered ==
    ASSUME Typed, NEW n \in Nat
    PROVE Stakeable(n) \in Nat /\ Stakeable(n) <= acct.vvv
  BY Apart, DeskAssumption DEF Stakeable, LeastOf, Minus, AcctType

LEMMA StakeOwedClean ==
    ASSUME Typed, Typed', RunKept, CleanRun, PoolClean, StakeOwed, seen'.faults = {}
    PROVE CleanRun' /\ PoolClean'
<1>1. run.step = "owed" /\ UNCHANGED <<env, acct>> /\ desk.owed \in Nat
  BY Amounts, Apart DEF StakeOwed, DeskType
<1>2. ~Fault("send")
  BY FaultTyped
<1>3. run.clean => pool = <<>> /\ Only("swap")
  BY <1>1, OnlyEmpty DEF CleanRun
<1>4. CASE StakeVVV(Stakeable(desk.owed))
  BY <1>1, <1>3, <1>4, StakeableCovered, StakeClean
<1>5. CASE Failed /\ UNCHANGED pool
  BY <1>1, <1>5, EndClean, CleanStays
<1> QED BY <1>2, <1>4, <1>5 DEF StakeOwed

LEMMA SwapForVVVClean ==
    ASSUME Typed, Typed', RunKept, CleanRun, PoolClean, SwapForVVV
    PROVE CleanRun' /\ PoolClean'
<1>1. run.step = "swap" /\ UNCHANGED <<env, acct>> /\ run \in RunType
  BY Apart DEF SwapForVVV
<1>2. CASE /\ acct.usdc >= run.left /\ Send("swap", run.left)
           /\ run' = [run EXCEPT !.step = "settle", !.got = "none", !.before = acct.vvv]
  <2>1. run.clean => pool = <<>>
    BY <1>1 DEF CleanRun
  <2>2. \A tx \in TxType : run.clean /\ tx.kind = "swap" /\ tx.units = run.left => Covers(acct, tx)
    BY <1>2 DEF Covers
  <2>3. run.clean => Only("swap") /\ \A j \in DOMAIN pool : Allows(pool[j].kind, "swap")
    BY <2>1, OnlyEmpty
  <2>4. PoolClean' /\ (run.clean => Only("swap")')
    BY <1>1, <1>2, <2>2, <2>3, CleanSend
  <2>5. run'.step = "settle" /\ run'.clean = run.clean
    BY <1>1, <1>2 DEF RunType
  <2> QED BY <2>4, <2>5 DEF CleanRun
<1>3. CASE Finish(FALSE) /\ UNCHANGED pool
  BY <1>1, <1>3, FinishClean, CleanStays
<1> QED BY <1>2, <1>3 DEF SwapForVVV

LEMMA StakeSwappedClean ==
    ASSUME Typed, Typed', CleanRun, PoolClean, StakeSwapped, seen'.faults = {}
    PROVE CleanRun' /\ PoolClean'
<1>1. run.step = "settle" /\ UNCHANGED <<env, acct>>
  BY DEF StakeSwapped
<1>2. run.left \in Nat /\ run.before \in Nat /\ acct.vvv \in Nat
  BY <1>1, Amounts
<1> DEFINE n == IF Received(run) > 0 THEN LeastOf(Received(run), run.left) ELSE run.left
<1>3. n \in Nat /\ ToStake(run) = Stakeable(n)
  BY <1>2 DEF Received, Minus, LeastOf, ToStake
<1> HIDE DEF n
<1>4. CASE StakeVVV(ToStake(run))
  <2>1. run.clean => Only("swap")
    BY <1>1 DEF CleanRun
  <2> QED BY <1>1, <1>3, <1>4, <2>1, StakeableCovered, StakeClean
<1>5. CASE run' = NoRun /\ UNCHANGED pool
  BY <1>1, <1>5, CleanStays DEF CleanRun, NoRun
<1> QED BY <1>4, <1>5 DEF StakeSwapped

(* A call keeps what its later steps need. *)
LEMMA ClientClean ==
    ASSUME Typed, Typed', MintsCounted, RunKept, CleanRun, PoolClean, Client, Faultless,
           seen'.faults = {}
    PROVE CleanRun' /\ PoolClean'
<1>1. CASE SwapTimesOut
  BY <1>1, FaultTyped DEF SwapTimesOut
<1> QED BY <1>1, SellFirstClean, CheckMintClean, SendMintClean, AwaitMintClean,
     OfferMintedClean, CoverBurnClean, BurnWalletClean, BuyRestClean, StakeOwedClean,
     SwapForVVVClean, StakeSwappedClean DEF Client

(* A decision that begins with nothing in the air. *)
LEMMA BeginsClean ==
    ASSUME UNCHANGED <<acct, pool>>, PoolClean,
           run'.step \in {"decided", "weighed", "sale", "cover", "buy", "owed", "swap"},
           run'.clean => pool = <<>>,
           run'.clean /\ run'.step = "sale" => run'.look = acct.diem
    PROVE CleanRun' /\ PoolClean'
<1>1. pool = <<>> => Only("burn")'
  BY OnlyEmpty, CleanStays
<1> QED BY <1>1, CleanStays DEF CleanRun

(* A recovery within a decision. *)
LEMMA ReliefClean ==
    ASSUME Typed, RunKept, CleanRun, PoolClean, UNCHANGED <<acct, pool>>,
           run.step \in {"decided", "weighed"},
           NEW stakeOnly \in BOOLEAN, NEW falls \in BOOLEAN, Relief(stakeOnly, falls)
    PROVE CleanRun' /\ PoolClean'
<1> DEFINE plan == Replanned(desk.plan, acct)
<1>0. run \in RunType /\ (run.clean => pool = <<>>)
  BY Apart DEF CleanRun
<1>1. PICK choice \in Offers(plan, stakeOnly) :
        IF choice # None /\ MayAct("recovery")
          THEN run' = [StartRecovery(choice, run) EXCEPT !.falls = falls]
          ELSE IF falls THEN Go("weighed") ELSE Over
  BY DEF Relief
<1>2. CASE choice # None /\ MayAct("recovery")
  <2>1. StepOf(choice) \in {"cover", "owed", "swap"}
    BY DEF StepOf
  <2>2. run'.step = StepOf(choice) /\ run'.clean = run.clean
    BY <1>0, <1>1, <1>2 DEF StartRecovery, RunType
  <2> QED BY <1>0, <2>1, <2>2, BeginsClean
<1>3. CASE run' = [run EXCEPT !.step = "weighed"]
  <2>1. run'.step = "weighed" /\ run'.clean = run.clean
    BY <1>0, <1>3 DEF RunType
  <2> QED BY <1>0, <2>1, BeginsClean
<1>4. CASE Over
  BY <1>4, CleanStays DEF CleanRun, Over, NoRun
<1> QED BY <1>1, <1>2, <1>3, <1>4 DEF Go

(* The agent's steps. *)
LEMMA AgentClean ==
    ASSUME Typed, Typed', RunKept, CleanRun, PoolClean, Agent
    PROVE CleanRun' /\ PoolClean'
<1>0. run \in RunType /\ UNCHANGED acct
  BY Apart DEF Agent, Simulate, Rest, RunPending, Decide, Recover, MintAndSell, HoldShort,
               SpotSell, BuyAndBurn, Hold
<1>1. CASE Over /\ UNCHANGED pool
  BY <1>0, <1>1, CleanStays DEF CleanRun, Over, NoRun
<1>2. CASE Simulate
  <2>1. PICK mode : run' = [NoRun EXCEPT !.step = "planned", !.mode = mode]
    BY <1>2 DEF Simulate
  <2>2. ~run'.clean
    BY <2>1 DEF NoRun
  <2>3. UNCHANGED pool
    BY <1>2 DEF Simulate
  <2> QED BY <1>0, <2>2, <2>3, CleanStays DEF CleanRun
<1>3. CASE RunPending /\ ~Over
  <2> DEFINE planned == desk.pending
  <2>1. run' = [StartRecovery(planned.option, run) EXCEPT
                   !.look = planned.look, !.older = Len(pool), !.clean = planned.clean]
    BY <1>3 DEF RunPending
  <2>2. run.step = "planned" /\ planned # None /\ UNCHANGED pool
    BY <1>3 DEF RunPending
  <2>3. planned.clean => pool = <<>>
    BY <2>2 DEF RunKept
  <2>4. StepOf(planned.option) \in {"cover", "owed", "swap"}
    BY DEF StepOf
  <2>5. run'.step = StepOf(planned.option) /\ run'.clean = planned.clean
    BY <1>0, <2>1 DEF StartRecovery, RunType
  <2> QED BY <1>0, <2>2, <2>3, <2>4, <2>5, BeginsClean
<1>4. CASE Decide
  <2>1. /\ UNCHANGED pool
        /\ run' = [run EXCEPT !.step = "decided", !.job = "trade", !.look = acct.diem,
                              !.older = Len(pool), !.clean = (pool = <<>>)]
    BY <1>4 DEF Decide
  <2>2. run'.step = "decided" /\ (run'.clean <=> pool = <<>>)
    BY <1>0, <2>1 DEF RunType
  <2> QED BY <1>0, <2>1, <2>2, BeginsClean
<1>5. CASE Recover
  BY <1>5, ReliefClean DEF Recover
<1>6. CASE HoldShort
  <2>1. run.step \in {"decided", "weighed"} /\ Relief(FALSE, FALSE) /\ UNCHANGED <<acct, pool>>
    BY <1>6 DEF HoldShort, AtPremium
  <2> QED BY <2>1, ReliefClean
<1>7. ASSUME run.step \in {"decided", "weighed"}, run.clean
      PROVE pool = <<>> /\ run.look = acct.diem
  BY <1>7 DEF CleanRun, RunKept
<1>8. CASE (MintAndSell \/ BuyAndBurn) /\ ~Over
  <2>1. run.step \in {"decided", "weighed"} /\ UNCHANGED pool
    BY <1>8 DEF MintAndSell, BuyAndBurn, AtPremium
  <2>2. PICK step \in {"sale", "buy", "cover"} :
          \E n : run' = [run EXCEPT !.step = step, !.left = n]
    BY <1>8 DEF MintAndSell, BuyAndBurn, Over
  <2>3. run'.step = step /\ run'.clean = run.clean /\ run'.look = run.look
    BY <1>0, <2>2 DEF RunType
  <2> QED BY <1>0, <1>7, <2>1, <2>3, BeginsClean
<1>9. CASE SpotSell
  <2>1. PICK want \in env.wants : LeastOf(run.look, want) > 0 /\ Send("sell", LeastOf(run.look, want))
    BY <1>9 DEF SpotSell
  <2>2. run.step \in {"decided", "weighed"} /\ Over
    BY <1>9 DEF SpotSell, AtPremium
  <2> DEFINE n == LeastOf(run.look, want)
  <2>3. n <= run.look
    BY <1>0, Profile DEF LeastOf, RunType
  <2>4. \A tx \in TxType : run.clean /\ tx.kind = "sell" /\ tx.units = n => Covers(acct, tx)
    BY <1>7, <2>2, <2>3 DEF Covers
  <2>5. run.clean => \A j \in DOMAIN pool : Allows(pool[j].kind, "sell")
    BY <1>7, <2>2
  <2> HIDE DEF n
  <2>6. PoolClean'
    BY <1>0, <2>1, <2>4, <2>5, CleanSend DEF n
  <2> QED BY <2>2, <2>6 DEF CleanRun, Over, NoRun
<1>10. CASE Rest \/ Hold
  BY <1>1, <1>10 DEF Rest, Hold
<1>11. RunPending \/ MintAndSell \/ BuyAndBurn => UNCHANGED pool
  BY DEF RunPending, MintAndSell, BuyAndBurn
<1> QED BY <1>1, <1>2, <1>3, <1>4, <1>5, <1>6, <1>8, <1>9, <1>10, <1>11 DEF Agent

(* The rest of the account after a covered transaction. *)
LEMMA FundsSettled ==
    ASSUME NEW a \in AcctType, NEW tx \in TxType
    PROVE /\ tx.kind = "sell" => Settled(a, tx).free = a.free
          /\ tx.kind = "burn" => Settled(a, tx).usdc = a.usdc
<1> DEFINE n == tx.units
           m == Rate * n
<1>1. CASE tx.kind = "burn"
  <2>1. Settled(a, tx) = [a EXCEPT !.free = @ + m, !.locked = @ - m, !.diem = @ - n]
    BY <1>1 DEF Settled
  <2> QED BY <1>1, <2>1 DEF AcctType
<1>2. CASE tx.kind = "sell"
  BY <1>2 DEF Settled, AcctType
<1> QED BY <1>1, <1>2

(* What is before a clean transaction leaves what it needs. *)
LEMMA AllowedCovers ==
    ASSUME NEW a \in AcctType, NEW first \in TxType, NEW tx \in TxType,
           Allows(first.kind, tx.kind), Covers(a, tx)
    PROVE Covers(Settled(a, first), tx)
<1>1. CASE first.kind = "sell" /\ tx.kind = "mint"
  BY <1>1, FundsSettled DEF Covers
<1>2. CASE first.kind = "burn" /\ tx.kind = "buy"
  BY <1>2, FundsSettled DEF Covers
<1>3. CASE first.kind = "swap" /\ tx.kind = "stake"
  <2>1. Settled(a, first).vvv = a.vvv + first.units
    BY <1>3, VVVSettled
  <2>2. a.vvv >= tx.units /\ a.vvv \in Nat /\ first.units \in Nat /\ tx.units \in Nat
    BY <1>3 DEF Covers, AcctType, TxType
  <2> QED BY <1>3, <2>1, <2>2 DEF Covers
<1> QED BY <1>1, <1>2, <1>3 DEF Allows

(* A clean transaction is covered until it is mined, and the mint that is    *)
(* waited for brings what its sale needs.                                    *)
LEMMA MineClean ==
    ASSUME Typed, MintsCounted, RunKept, CleanRun, PoolClean, Mine, Faultless, seen'.faults = {}
    PROVE CleanRun' /\ PoolClean'
<1> DEFINE tx == pool[1]
<1>1. PICK result \in {"ok", "failed"} :
        /\ Receipt(tx, result)
        /\ \/ result = "ok" /\ Covers(acct, tx) /\ (acct' = Settled(acct, tx) \/ Fault("surplus"))
           \/ result = "failed" /\ UNCHANGED acct /\ (~Covers(acct, tx) \/ Fault("revert"))
  BY MineIs
<1>2. \/ result = "ok" /\ Covers(acct, tx) /\ acct' = Settled(acct, tx)
      \/ result = "failed" /\ UNCHANGED acct /\ ~Covers(acct, tx)
  BY <1>1, FaultTyped
<1>3. pool # <<>> /\ pool' = Tail(pool) /\ tx \in TxType
  BY MineIs
<1>4. /\ Len(pool) \in Nat \ {0} /\ DOMAIN pool = 1 .. Len(pool)
      /\ Len(pool') = Len(pool) - 1 /\ DOMAIN pool' = 1 .. Len(pool) - 1
      /\ \A i \in 1 .. Len(pool) - 1 : pool'[i] = pool[i + 1]
      /\ pool' = <<>> <=> Len(pool) = 1
  BY <1>3, PoolMined
<1>5. run \in RunType /\ acct \in AcctType /\ pool \in Seq(TxType)
  BY Apart
<1>6. /\ run'.step = run.step /\ run'.left = run.left /\ run'.look = run.look
      /\ run'.clean = run.clean
      /\ run'.got = IF Len(pool) = 1 /\ run.step \in {"await", "settle"} THEN result ELSE run.got
  BY <1>1, <1>5 DEF Receipt, RunType
<1>7. \A i \in DOMAIN pool' : i + 1 \in DOMAIN pool /\ pool'[i] = pool[i + 1]
  BY <1>4
<1>8. \A kind : Only(kind) => Only(kind)' /\ tx.kind = kind
  BY <1>4, <1>7 DEF Only
<1>9. PoolClean'
  <2>1. ASSUME NEW i \in DOMAIN pool', pool'[i].clean
        PROVE Covers(acct', pool'[i]) /\ \A j \in 1 .. i - 1 : Allows(pool'[j].kind, pool'[i].kind)
    <3> DEFINE next == pool[i + 1]
    <3>1. i \in Nat \ {0} /\ i + 1 \in DOMAIN pool /\ pool'[i] = next /\ (i + 1) - 1 = i
      BY <1>4, <1>7
    <3>2. Covers(acct, next) /\ \A j \in 1 .. (i + 1) - 1 : Allows(pool[j].kind, next.kind)
      BY <2>1, <3>1 DEF PoolClean
    <3>3. Allows(tx.kind, next.kind)
      BY <3>1, <3>2
    <3>4. next \in TxType
      BY <1>4, <1>5, <3>1, ElementOfSeq
    <3>5. Covers(acct', next)
      BY <1>2, <1>3, <1>5, <3>2, <3>3, <3>4, AllowedCovers
    <3>6. ASSUME NEW j \in 1 .. i - 1
          PROVE Allows(pool'[j].kind, next.kind)
      <4>1. j \in DOMAIN pool' /\ j + 1 \in 1 .. (i + 1) - 1
        BY <1>4, <3>1
      <4> QED BY <1>7, <3>2, <4>1
    <3> QED BY <3>1, <3>5, <3>6
  <2> QED BY <2>1 DEF PoolClean
<1>10. ASSUME run.clean, run.step = "await"
       PROVE \/ /\ run'.got = "none"
                /\ pool'[Len(pool')].clean /\ pool'[Len(pool')].units = run.left
             \/ run'.got = "ok" /\ acct'.diem >= run.left
  <2>1. run.got = "none" /\ pool[Len(pool)].kind = "mint"
    BY <1>3, <1>10 DEF MintsCounted, Doubt, Faultless
  <2>2. pool[Len(pool)].clean /\ pool[Len(pool)].units = run.left
    BY <1>10, <2>1 DEF CleanRun
  <2>3. CASE Len(pool) = 1
    <3>1. Covers(acct, tx)
      BY <1>4, <2>2, <2>3 DEF PoolClean
    <3>2. result = "ok" /\ acct' = Settled(acct, tx)
      BY <1>2, <3>1
    <3>3. acct'.diem = acct.diem + run.left
      BY <1>3, <1>5, <2>1, <2>2, <2>3, <3>2, DiemSettled
    <3>4. acct'.diem >= run.left
      BY <1>5, <3>3 DEF AcctType, RunType
    <3> QED BY <1>6, <1>10, <2>3, <3>2, <3>4
  <2>4. CASE Len(pool) # 1
    <3>1. Len(pool') \in 1 .. Len(pool) - 1 /\ Len(pool') + 1 = Len(pool)
      BY <1>4, <2>4
    <3>2. pool'[Len(pool')] = pool[Len(pool)]
      BY <1>4, <3>1
    <3> QED BY <1>6, <2>1, <2>2, <2>4, <3>2
  <2> QED BY <2>3, <2>4
<1>11. ASSUME run.clean, run.step = "send"
       PROVE acct'.free >= Rate * run.left
  <2>1. tx.kind = "sell" /\ acct.free >= Rate * run.left
    BY <1>8, <1>11 DEF CleanRun
  <2>2. acct'.free = acct.free
    BY <1>2, <1>3, <1>5, <2>1, FundsSettled
  <2> QED BY <2>1, <2>2
<1>12. CleanRun'
  BY <1>3, <1>6, <1>8, <1>10, <1>11 DEF CleanRun
<1> QED BY <1>9, <1>12

(* Every step keeps it. *)
LEMMA NextClean ==
    ASSUME Typed, Typed', MintsCounted, CampaignKept, CleanKept, [Next]_deskVars
    PROVE CleanKept'
<1> SUFFICES ASSUME seen'.faults = {} PROVE CleanRun' /\ PoolClean'
  BY DEF CleanKept, Faultless
<1>1. Faultless
  BY FaultsStay DEF Faultless
<1>2. CleanRun /\ PoolClean /\ RunKept
  BY <1>1 DEF CleanKept, CampaignKept
<1>3. CASE Client
  BY <1>1, <1>2, <1>3, ClientClean
<1>4. CASE Agent
  BY <1>2, <1>4, AgentClean
<1>5. CASE Mine
  BY <1>1, <1>2, <1>5, MineClean
<1>6. CASE Crash
  BY <1>6, FaultTyped DEF Crash
<1>7. CASE UNCHANGED deskVars
  <2>1. UNCHANGED <<acct, pool, run>>
    BY <1>7 DEF deskVars
  <2> QED BY <1>2, <2>1, CleanStays DEF CleanRun
<1> QED BY <1>3, <1>4, <1>5, <1>6, <1>7 DEF Next

(* A transaction that is settled moves something. *)
LEMMA SettledMoves ==
    ASSUME NEW a \in AcctType, NEW tx \in TxType
    PROVE Settled(a, tx) # a
<1>1. a.diem \in Nat /\ a.vvv \in Nat /\ tx.units \in Nat \ {0} /\ tx.kind \in Kinds
  BY DEF AcctType, TxType
<1>2. CASE tx.kind \in {"mint", "sell", "burn", "buy"}
  <2>1. Settled(a, tx).diem # a.diem
    BY <1>1, <1>2, DiemSettled
  <2> QED BY <2>1
<1>3. CASE tx.kind \in {"swap", "stake"}
  <2>1. Settled(a, tx).vvv # a.vvv
    BY <1>1, <1>3, VVVSettled
  <2> QED BY <2>1
<1> QED BY <1>1, <1>2, <1>3 DEF Kinds

(* Only the chain takes the head off the pool. *)
LEMMA OnlyMine ==
    ASSUME Typed, Next, MinedNow
    PROVE Mine
<1>1. Len(pool') = Len(pool) - 1 /\ Len(pool) \in Nat
  BY PoolMined DEF MinedNow
<1>2. ~PoolGrows
  BY <1>1 DEF PoolGrows
<1>3. Crash => PoolGrows
  BY Growing DEF Crash
<1> QED BY <1>2, <1>3, ClientGrows, AgentGrows DEF Next

(* What a decision sends that began with nothing in the air is still covered *)
(* when it is mined, if nothing fails: its own earlier steps provide for its *)
(* later ones, and no later decision's come between.                         *)
THEOREM CleanDecisionsSettle == Spec => CleanSettles
<1> DEFINE I == Typed /\ MintsCounted /\ CampaignKept /\ CleanKept
           Settles == MinedNow /\ Head(pool).clean /\ seen'.faults = {} => acct' # acct
<1>1. Init => I
  <2>1. SUFFICES ASSUME Init PROVE I
    OBVIOUS
  <2>2. /\ run.step = "idle" /\ ~run.falls /\ ~run.clean /\ pool = <<>>
        /\ run.older = 0 /\ run.minted = 0
    BY <2>1 DEF Init, NoRun
  <2>3. DOMAIN pool = {}
    BY <2>2
  <2>4. MintsCounted
    BY <2>2 DEF MintsCounted
  <2>5. CampaignKept
    BY <2>2, <2>3 DEF CampaignKept, RunKept, PoolFits
  <2>6. CleanKept
    BY <2>2, <2>3 DEF CleanKept, CleanRun, PoolClean
  <2> QED BY <2>1, <2>4, <2>5, <2>6, InitTyped
<1>2. I /\ [Next]_deskVars => I'
  BY NextTyped, NextCounts, NextKept, NextClean
<1>3. I /\ [Next]_deskVars => [Settles]_deskVars
  <2>1. SUFFICES ASSUME I, Next, MinedNow, Head(pool).clean, seen'.faults = {}
                 PROVE acct' # acct
    OBVIOUS
  <2>2. Mine
    BY <2>1, OnlyMine
  <2>3. CleanRun /\ PoolClean
    BY <2>1, FaultsStay DEF CleanKept, Faultless
  <2> DEFINE tx == pool[1]
  <2>4. /\ acct \in AcctType /\ tx \in TxType /\ Head(pool) = tx /\ 1 \in DOMAIN pool
    BY <2>1, <2>2, Apart, MineIs, PoolMined
  <2>5. Covers(acct, tx)
    BY <2>1, <2>3, <2>4 DEF PoolClean
  <2>6. acct' = Settled(acct, tx)
    BY <2>1, <2>2, <2>5, MineIs, FaultTyped
  <2> QED BY <2>4, <2>6, SettledMoves
<1>4. Spec => [][Settles]_deskVars
  BY <1>1, <1>2, <1>3, PTL DEF Spec
<1> QED BY <1>4 DEF CleanSettles
=============================================================================
