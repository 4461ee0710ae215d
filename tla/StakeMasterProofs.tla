------------------------- MODULE StakeMasterProofs -------------------------
(* What one run_once of StakeMaster keeps, whatever the chain, the clock and *)
(* the failures do between its steps.                                        *)
EXTENDS StakeMaster, TLAPS, SequenceTheorems

ChainType == [stake : Nat, wallet : Nat, allowance : Nat, rewards : Nat,
              pending : Seq(Tx)]

MemType == [attempts : 0 .. MaxAttempts + 1, claim : Nat \cup {None},
            snap : Snapshot \cup {None}]

RunType == [step : Steps, live : BOOLEAN, rewards : Nat,
            active : BOOLEAN, nonce : {"next", "used", "unknown"}, amount : Nat,
            beat : {"none", "sent", "error", "skipped"}]

KvType == [claim : Nat \cup {None}, beat : Nat \cup {None}]

LogType == [claim : Nat \cup {None}, autos : Nat]

(* Where the first stake is in its attempts. *)
Attempting ==
    /\ run.step \in {"auto", "auto approve", "auto stake"} => mem.attempts < MaxAttempts
    /\ run.step = "auto retry" => mem.attempts <= MaxAttempts
    /\ run.step \in {"auto read", "retry read"} => mem.attempts = MaxAttempts

Typed == StakeTypeOK /\ Attempting

(* The steps between a passed nonce gate and the stake it lets through, and  *)
(* those of the first stake before it is sent.                               *)
Gated == {"auto approve", "auto stake", "auto retry", "idle approve", "idle stake"}

FirstStake == {"auto", "auto approve", "auto stake", "auto retry"}

IsStake(i) == chain.pending[i].kind = "stake"

(* No two stakes wait, and none behind a passed gate. *)
StakesApart ==
    "nonce" \notin faults =>
        /\ \A i, j \in DOMAIN chain.pending : IsStake(i) /\ IsStake(j) => i = j
        /\ run.step \in Gated => \A i \in DOMAIN chain.pending : ~IsStake(i)

(* The first stake uses the attempts up. *)
AutoOnce ==
    "answer" \notin faults =>
        /\ log.autos = 0 \/ (log.autos = 1 /\ mem.attempts >= MaxAttempts)
        /\ run.step \in FirstStake => log.autos = 0

(* The agent knows its last claim, but between sending and noting it and    *)
(* after a restart.                                                          *)
LastClaimKnown ==
    "answer" \notin faults /\ log.claim # None =>
        /\ log.claim <= now
        /\ run.step = "claimed" => log.claim = now
        /\ run.step # "claimed" =>
              \/ mem.claim = log.claim
              \/ /\ "crash" \in faults
                 /\ mem.claim = None \/ kv.claim # log.claim \/ "kv read" \in faults

StakeInv == Typed /\ StakesApart /\ AutoOnce /\ LastClaimKnown

(* The type invariant by its parts. *)
LEMMA Types ==
    StakeTypeOK <=> /\ env \in Profiles
                    /\ chain \in ChainType /\ kv \in KvType /\ mem \in MemType
                    /\ run \in RunType /\ now \in 0 .. MaxTime
                    /\ faults \subseteq FaultKinds /\ log \in LogType
  BY DEF StakeTypeOK, ChainType, MemType, RunType, KvType, LogType

(* The same after a step. *)
LEMMA TypesNext ==
    StakeTypeOK' <=> /\ env' \in Profiles
                     /\ chain' \in ChainType /\ kv' \in KvType /\ mem' \in MemType
                     /\ run' \in RunType /\ now' \in 0 .. MaxTime
                     /\ faults' \subseteq FaultKinds /\ log' \in LogType
  BY DEF StakeTypeOK, ChainType, MemType, RunType, KvType, LogType

(* The limits, as the provers need them. *)
LEMMA Limits ==
    /\ MaxAttempts \in Nat /\ MaxAttempts > 0 /\ MaxAttempts >= MaxAttempts
    /\ MinActive \in Nat /\ Buffer \in Nat /\ MaxPerCycle \in Nat /\ IdleMin \in Nat
  BY StakeAssumption

(* What a transaction sent leaves of the chain. *)
LEMMA SendType ==
    ASSUME NEW kind \in Kinds, NEW units \in Nat,
           chain \in ChainType, Send(kind, units)
    PROVE  /\ chain' \in ChainType
           /\ chain'.pending = Append(chain.pending, [kind |-> kind, units |-> units])
  <1>1. [kind |-> kind, units |-> units] \in Tx
    BY DEF Tx
  <1>2. Append(chain.pending, [kind |-> kind, units |-> units]) \in Seq(Tx)
    BY <1>1 DEF ChainType
  <1> QED BY <1>2 DEF Send, ChainType

(* A fault is one more of its kinds. *)
LEMMA FaultType ==
    ASSUME faults \subseteq FaultKinds,
           NEW kind \in FaultKinds, Fault(kind)
    PROVE  faults' \subseteq FaultKinds /\ kind \in faults' /\ faults \subseteq faults'
  BY DEF Fault

(* A change of step is nothing else. *)
LEMMA GoType ==
    ASSUME NEW step \in Steps, run \in RunType, Go(step)
    PROVE  /\ run' \in RunType /\ run'.step = step
           /\ run'.live = run.live /\ run'.amount = run.amount
           /\ run'.active = run.active /\ run'.beat = run.beat
  BY DEF RunType, Go

(* Giving up uses the attempts up. *)
LEMMA GiveUpType ==
    ASSUME mem \in MemType, GiveUp
    PROVE  mem' \in MemType /\ mem'.attempts = MaxAttempts /\ mem'.claim = mem.claim
  <1>1. MaxAttempts \in 0 .. MaxAttempts + 1
    BY StakeAssumption
  <1> QED BY <1>1 DEF MemType, GiveUp

(* A counted attempt is one more. *)
LEMMA CountType ==
    ASSUME mem \in MemType, CountAttempt, mem.attempts <= MaxAttempts
    PROVE  mem' \in MemType /\ mem'.attempts = mem.attempts + 1 /\ mem'.claim = mem.claim
  <1>1. mem.attempts + 1 \in 0 .. MaxAttempts + 1
    BY StakeAssumption DEF MemType
  <1> QED BY <1>1 DEF MemType, CountAttempt

(* The types of what the lemmas below read of the state. *)
LEMMA Fields ==
    ASSUME Typed
    PROVE  /\ chain \in ChainType /\ kv \in KvType /\ mem \in MemType
           /\ run \in RunType /\ faults \subseteq FaultKinds /\ log \in LogType
           /\ mem.attempts \in Nat /\ mem.claim \in Nat \cup {None}
           /\ run.step \in Steps /\ run.amount \in Nat
           /\ log.autos \in Nat /\ log.claim \in Nat \cup {None}
           /\ now \in Nat /\ chain.pending \in Seq(Tx) /\ chain.wallet \in Nat
  <1>1. mem.attempts \in Nat /\ mem.claim \in Nat \cup {None}
    BY Types DEF MemType, Typed
  <1>2. run.step \in Steps /\ run.amount \in Nat
    BY Types DEF RunType, Typed
  <1>3. log.autos \in Nat /\ log.claim \in Nat \cup {None}
    BY Types DEF LogType, Typed
  <1>4. chain.pending \in Seq(Tx) /\ chain.wallet \in Nat
    BY Types DEF ChainType, Typed
  <1>5. now \in Nat
    BY Types, StakeAssumption DEF Typed
  <1> QED BY <1>1, <1>2, <1>3, <1>4, <1>5, Types DEF Typed

(* The order of a number and itself. *)
LEMMA Self == \A n \in Nat : n <= n /\ n >= n /\ n + 1 >= n
  OBVIOUS

(* The first of a count. *)
LEMMA First == \A n \in Nat : n = 0 => n + 1 = 1
  OBVIOUS

(* A first stake sent is one more. *)
LEMMA SentType ==
    ASSUME log \in LogType, AutoSent
    PROVE  /\ log' \in LogType /\ log'.claim = log.claim
           /\ log.autos = 0 => log'.autos = 1
  <1>1. log.autos + 1 \in Nat
    BY DEF LogType
  <1>2. log' \in LogType /\ log'.autos = log.autos + 1 /\ log'.claim = log.claim
    BY <1>1 DEF AutoSent, LogType
  <1>3. log.autos \in Nat
    BY DEF LogType
  <1> QED BY <1>2, <1>3, First

(* Both answers of the status are snapshots. *)
LEMMA SnapTypes ==
    ASSUME chain \in ChainType, mem \in MemType
    PROVE  Live \in Snapshot /\ LastKnown \in Snapshot
  <1>1. Live \in Snapshot
    BY StakeAssumption DEF Live, Snapshot, ChainType
  <1>2. LastKnown \in Snapshot
    BY DEF LastKnown, Snapshot, MemType
  <1> QED BY <1>1, <1>2

(* Adopting a snapshot is a change of step. *)
LEMMA AdoptType ==
    ASSUME NEW step \in Steps, NEW snap \in Snapshot, chain \in ChainType,
           run \in RunType, Adopt(snap, step)
    PROVE  run' \in RunType /\ run'.step = step
  <1>1. snap.active \in BOOLEAN /\ chain.rewards \in Nat
    BY DEF Snapshot, ChainType
  <1> QED BY <1>1 DEF RunType, Adopt

(* Keeping a snapshot leaves the attempts and the claim. *)
LEMMA SnapType ==
    ASSUME mem \in MemType, chain \in ChainType, mem' = [mem EXCEPT !.snap = Live]
    PROVE  mem' \in MemType /\ mem'.attempts = mem.attempts /\ mem'.claim = mem.claim
  BY SnapTypes DEF MemType

(* Outside the first stake nothing is asked of its attempts. *)
LEMMA OffAttempt ==
    ASSUME run'.step \notin {"auto", "auto approve", "auto stake", "auto retry",
                             "auto read", "retry read"}
    PROVE  Attempting'
  BY DEF Attempting

(* Faults are kept and are of their kinds. *)
LEMMA Faults ==
    ASSUME faults \subseteq FaultKinds,
           UNCHANGED faults \/ \E kind \in FaultKinds : Fault(kind)
    PROVE  faults' \subseteq FaultKinds /\ faults \subseteq faults'
  BY FaultType

-----------------------------------------------------------------------------
(* How the parts of the invariant survive. *)

(* What waits is the same, or one transaction more that is no stake. *)
LEMMA ApartSame ==
    ASSUME StakesApart, chain'.pending = chain.pending, faults \subseteq faults',
           run'.step \in Gated => run.step \in Gated
    PROVE  StakesApart'
  BY DEF StakesApart, IsStake

(* A transaction sent that is no stake. *)
LEMMA ApartOther ==
    ASSUME StakesApart, chain.pending \in Seq(Tx), faults \subseteq faults',
           NEW kind, kind # "stake", NEW units,
           chain'.pending = Append(chain.pending, [kind |-> kind, units |-> units]),
           run'.step \in Gated => run.step \in Gated
    PROVE  StakesApart'
  BY DEF StakesApart, IsStake

(* A stake sent from behind the gate. *)
LEMMA ApartStake ==
    ASSUME StakeInv, faults \subseteq faults',
           NEW units, run.step \in Gated, run'.step \notin Gated,
           chain'.pending = Append(chain.pending, [kind |-> "stake", units |-> units])
    PROVE  StakesApart'
  <1>1. StakesApart /\ chain.pending \in Seq(Tx)
    BY Fields DEF StakeInv
  <1> QED BY <1>1 DEF StakesApart, IsStake

(* A stake that takes the place of the last transaction. *)
LEMMA ApartReplace ==
    ASSUME StakeInv, faults \subseteq faults',
           NEW tx, run.step \in Gated, run'.step \notin Gated,
           chain'.pending = [chain.pending EXCEPT ![Len(chain.pending)] = tx]
    PROVE  StakesApart'
  <1>1. StakesApart /\ chain.pending \in Seq(Tx)
    BY Fields DEF StakeInv
  <1> QED BY <1>1 DEF StakesApart, IsStake

(* The gate. *)
LEMMA ApartGate ==
    ASSUME chain.pending = <<>> \/ "nonce" \in faults', chain'.pending = chain.pending
    PROVE  StakesApart'
  BY DEF StakesApart, IsStake

(* A transaction mined. *)
LEMMA ApartMine ==
    ASSUME StakesApart, chain.pending \in Seq(Tx), chain.pending # <<>>,
           chain'.pending = Tail(chain.pending), faults' = faults, run' = run
    PROVE  StakesApart'
  BY DEF StakesApart, IsStake

(* What a counter below its limit has left. *)
LEMMA Room ==
    ASSUME NEW m \in Nat, NEW n \in Nat, m < n
    PROVE  m <= n /\ m + 1 <= n /\ m + 1 >= m /\ m >= m
  OBVIOUS

(* A limit, read from the other side. *)
LEMMA AtMost ==
    ASSUME NEW m \in Nat, NEW n \in Nat, m < n \/ m <= n
    PROVE  n >= m
  OBVIOUS

(* A sequence with its last element replaced. *)
LEMMA LastReplaced ==
    ASSUME NEW S, NEW seq \in Seq(S), NEW x \in S, Len(seq) > 0
    PROVE  [seq EXCEPT ![Len(seq)] = x] \in Seq(S)
  <1>1. Len(seq) \in 1 .. Len(seq)
    OBVIOUS
  <1> QED BY <1>1, ExceptSeq

(* Attempts within the first stake are at most their limit. *)
LEMMA AttemptsGiven ==
    ASSUME StakeInv, run.step \in {"auto", "auto approve", "auto stake", "auto retry"}
    PROVE  MaxAttempts >= mem.attempts
  <1>1. mem.attempts \in Nat
    BY Fields DEF StakeInv
  <1>2. mem.attempts < MaxAttempts \/ mem.attempts <= MaxAttempts
    BY DEF StakeInv, Typed, Attempting
  <1>3. MaxAttempts \in Nat
    BY Limits
  <1> QED BY <1>1, <1>2, <1>3, AtMost

(* An attempt is left until the first stake is sent. *)
LEMMA AttemptsLeft ==
    ASSUME StakeInv, run.step \in {"auto", "auto approve", "auto stake"}
    PROVE  /\ mem.attempts \in Nat /\ mem.attempts < MaxAttempts
           /\ mem.attempts <= MaxAttempts /\ mem.attempts + 1 <= MaxAttempts
           /\ mem.attempts + 1 >= mem.attempts /\ mem.attempts >= mem.attempts
  <1>1. mem.attempts \in Nat
    BY Fields DEF StakeInv
  <1>2. mem.attempts < MaxAttempts
    BY DEF StakeInv, Typed, Attempting
  <1>3. MaxAttempts \in Nat
    BY Limits
  <1> QED BY <1>1, <1>2, <1>3, Room

(* A step that neither sends the first stake nor claims. *)
LEMMA KeepInv ==
    ASSUME StakeInv, env' = env, now' = now, log' = log,
           chain' \in ChainType, kv' \in KvType, mem' \in MemType, run' \in RunType,
           faults \subseteq faults', faults' \subseteq FaultKinds,
           kv'.claim = kv.claim, mem'.claim = mem.claim, mem'.attempts >= mem.attempts,
           run.step # "claimed", run'.step # "claimed",
           run'.step \in FirstStake => run.step \in FirstStake,
           Attempting', StakesApart'
    PROVE  StakeInv'
  <1>1. Typed'
    BY Types, TypesNext DEF StakeInv, Typed
  <1>2. AutoOnce'
    <2>1. mem.attempts \in Nat /\ mem'.attempts \in Nat /\ MaxAttempts \in Nat
      BY Fields, Limits DEF MemType, StakeInv
    <2> QED BY <2>1 DEF AutoOnce, StakeInv
  <1>3. LastClaimKnown'
    BY DEF LastClaimKnown, StakeInv
  <1> QED BY <1>1, <1>2, <1>3 DEF StakeInv

-----------------------------------------------------------------------------
(* The steps of run_once. *)

(* ReadStatus *)
LEMMA ReadStatusInv == StakeInv /\ ReadStatus /\ UNCHANGED <<env, now>> => StakeInv'
  <1> SUFFICES ASSUME StakeInv, ReadStatus, UNCHANGED <<env, now>> PROVE StakeInv'
    OBVIOUS
  <1>1. UNCHANGED <<chain, kv, log>> /\ run.step = "status"
    BY Zenon DEF ReadStatus
  <1>2. faults' \subseteq FaultKinds /\ faults \subseteq faults'
    <2>1. UNCHANGED faults \/ Fault("status") \/ Fault("raise")
      BY Zenon DEF ReadStatus, NoFault
    <2> QED BY <2>1, Faults, Fields DEF FaultKinds, StakeInv
  <1>3. ASSUME NEW snap \in Snapshot, Adopt(snap, AfterStatus(snap)),
               mem'.attempts = mem.attempts
        PROVE  run' \in RunType /\ Attempting' /\ run'.step \in {"auto", "claim"}
               /\ (run'.step = "auto" => mem.attempts < MaxAttempts)
    <2>1. AfterStatus(snap) \in {"auto", "claim"}
          /\ (AfterStatus(snap) = "auto" => mem.attempts < MaxAttempts)
      BY DEF AfterStatus, WantsAutoStake
    <2>2. run' \in RunType /\ run'.step = AfterStatus(snap)
      BY <1>3, <2>1, Fields, AdoptType DEF Steps, StakeInv
    <2> QED BY <1>3, <2>1, <2>2 DEF Attempting
  <1>4. /\ run' \in RunType /\ mem' \in MemType /\ Attempting'
        /\ mem'.attempts = mem.attempts /\ mem'.claim = mem.claim
        /\ run'.step \in {"auto", "claim", "failed"}
        /\ run'.step = "auto" => mem.attempts < MaxAttempts
    <2>1. CASE Adopt(Live, AfterStatus(Live)) /\ mem' = [mem EXCEPT !.snap = Live]
      BY <2>1, <1>3, SnapTypes, SnapType, Fields DEF StakeInv
    <2>2. CASE Adopt(LastKnown, AfterStatus(LastKnown)) /\ mem' = mem
      BY <2>2, <1>3, SnapTypes, Fields DEF StakeInv
    <2>3. CASE Go("failed") /\ mem' = mem
      BY <2>3, GoType, Fields DEF Steps, Attempting, StakeInv
    <2> QED BY <2>1, <2>2, <2>3, Zenon DEF ReadStatus
  <1>5. StakesApart'
    <2>1. run'.step \notin Gated /\ chain'.pending = chain.pending
      BY <1>1, <1>4 DEF Gated
    <2> QED BY <1>2, <2>1, ApartSame DEF StakeInv
  <1>6. AutoOnce'
    <2>1. run'.step \in FirstStake => mem.attempts < MaxAttempts
      BY <1>4 DEF FirstStake
    <2>2. log' = log /\ log.autos \in Nat /\ mem.attempts \in Nat
      BY <1>1, Fields DEF StakeInv
    <2> QED BY <1>2, <1>4, <2>1, <2>2, Limits DEF AutoOnce, StakeInv
  <1>7. LastClaimKnown'
    BY <1>1, <1>2, <1>4 DEF LastClaimKnown, StakeInv
  <1>8. Typed'
    BY <1>1, <1>2, <1>4, Types, TypesNext DEF StakeInv, Typed
  <1> QED BY <1>5, <1>6, <1>7, <1>8 DEF StakeInv

(* The nonce gate leaves everything but the step and the nonce. *)
LEMMA GateType ==
    ASSUME StakeInv, NEW step \in Steps, PassNonceGate(step)
    PROVE  /\ run' \in RunType /\ run'.step = step
           /\ faults' \subseteq FaultKinds /\ faults \subseteq faults'
           /\ chain.pending = <<>> \/ "nonce" \in faults'
  <1>1. run' \in RunType /\ run'.step = step
    BY Fields DEF PassNonceGate, RunType, StakeInv
  <1>2. faults' \subseteq FaultKinds /\ faults \subseteq faults'
    <2>1. UNCHANGED faults \/ Fault("nonce")
      BY Zenon DEF PassNonceGate, NoFault
    <2> QED BY <2>1, Faults, Fields DEF FaultKinds, StakeInv
  <1>3. chain.pending = <<>> \/ "nonce" \in faults'
    BY DEF PassNonceGate, Fault
  <1> QED BY <1>1, <1>2, <1>3

(* AutoCheck *)
LEMMA AutoCheckInv == StakeInv /\ AutoCheck /\ UNCHANGED <<env, now>> => StakeInv'
  <1> SUFFICES ASSUME StakeInv, AutoCheck, UNCHANGED <<env, now>> PROVE StakeInv'
    OBVIOUS
  <1>1. UNCHANGED <<chain, kv, log>> /\ run.step = "auto"
    BY Zenon DEF AutoCheck
  <1>2. CASE GiveUp /\ Go("claim") /\ (UNCHANGED faults \/ Fault("balance"))
    <2>1. faults' \subseteq FaultKinds /\ faults \subseteq faults'
      BY <1>2, Faults, Fields DEF FaultKinds, StakeInv
    <2>2. run' \in RunType /\ run'.step = "claim"
      BY <1>2, GoType, Fields DEF Steps, StakeInv
    <2>3. mem' \in MemType /\ mem'.attempts >= mem.attempts /\ mem'.claim = mem.claim
      <3>1. mem' \in MemType /\ mem'.attempts = MaxAttempts /\ mem'.claim = mem.claim
        BY <1>2, GiveUpType, Fields DEF StakeInv
      <3> QED BY <1>1, <3>1, AttemptsGiven
    <2>4. StakesApart'
      BY <1>1, <2>1, <2>2, ApartSame DEF StakeInv, Gated
    <2>5. run'.step \notin FirstStake /\ Attempting'
      BY <2>2, OffAttempt DEF FirstStake
    <2> QED BY <1>1, <2>1, <2>2, <2>3, <2>4, <2>5, KeepInv, Fields DEF StakeInv
  <1>3. CASE PassNonceGate("auto approve") /\ UNCHANGED mem
    <2>1. /\ run' \in RunType /\ run'.step = "auto approve"
          /\ faults' \subseteq FaultKinds /\ faults \subseteq faults'
          /\ chain.pending = <<>> \/ "nonce" \in faults'
      BY <1>3, GateType DEF Steps
    <2>2. StakesApart'
      BY <1>1, <2>1, ApartGate
    <2>3. Attempting' /\ mem'.attempts >= mem.attempts
      <3>1. mem' = mem /\ mem.attempts < MaxAttempts /\ mem.attempts >= mem.attempts
        BY <1>1, <1>3, AttemptsLeft
      <3> QED BY <2>1, <3>1 DEF Attempting
    <2>4. run'.step \in FirstStake => run.step \in FirstStake
      BY <1>1 DEF FirstStake
    <2> QED BY <1>1, <1>3, <2>1, <2>2, <2>3, <2>4, KeepInv, Fields DEF StakeInv
  <1> QED BY <1>2, <1>3, Zenon DEF AutoCheck, NoFault

(* An attempt that failed, without a stake sent or with its answer lost. *)
LEMMA FailedAttempt ==
    ASSUME StakeInv, run.step \in {"auto approve", "auto stake"},
           NEW kind \in {"send", "nonce error", "answer"}, AutoFails(kind)
    PROVE  /\ run' \in RunType /\ run'.step \in {"auto retry", "claim"}
           /\ run'.step = "auto retry" => kind # "answer"
           /\ mem' \in MemType /\ mem'.attempts >= mem.attempts /\ mem'.claim = mem.claim
           /\ mem'.attempts <= MaxAttempts
           /\ faults' \subseteq FaultKinds /\ faults \subseteq faults' /\ kind \in faults'
           /\ Attempting'
  <1>1. /\ Go("auto retry") \/ Go("claim")
        /\ kind = "nonce error" \/ Go("claim")
        /\ CountAttempt /\ Fault(kind)
    BY Zenon DEF AutoFails
  <1>2. run' \in RunType /\ run'.step \in {"auto retry", "claim"}
        /\ (run'.step = "auto retry" => kind # "answer")
    BY <1>1, GoType, Fields DEF Steps, StakeInv
  <1>3. mem' \in MemType /\ mem'.attempts = mem.attempts + 1 /\ mem'.claim = mem.claim
    BY <1>1, AttemptsLeft, CountType, Fields DEF StakeInv
  <1>4. mem'.attempts >= mem.attempts /\ mem'.attempts <= MaxAttempts
    <2>1. mem'.attempts = mem.attempts + 1
      BY <1>3
    <2> QED BY <2>1, AttemptsLeft
  <1>5. faults' \subseteq FaultKinds /\ faults \subseteq faults' /\ kind \in faults'
    BY <1>1, FaultType, Fields DEF FaultKinds, StakeInv
  <1> QED BY <1>2, <1>3, <1>4, <1>5 DEF Attempting

(* AutoApprove *)
LEMMA AutoApproveInv == StakeInv /\ AutoApprove /\ UNCHANGED <<env, now>> => StakeInv'
  <1> SUFFICES ASSUME StakeInv, AutoApprove, UNCHANGED <<env, now>> PROVE StakeInv'
    OBVIOUS
  <1>1. UNCHANGED <<kv, log>> /\ run.step = "auto approve"
    BY Zenon DEF AutoApprove
  <1>2. chain' \in ChainType
        /\ \/ chain'.pending = chain.pending
           \/ chain'.pending = Append(chain.pending,
                                      [kind |-> "approve", units |-> MinActive])
    <2>1. Send("approve", MinActive) \/ chain' = chain
      BY Zenon DEF AutoApprove
    <2> QED BY <2>1, SendType, Fields, Limits DEF Kinds, StakeInv
  <1>3. /\ run' \in RunType /\ run'.step \in {"auto stake", "auto retry", "claim"}
        /\ mem' \in MemType /\ mem'.attempts >= mem.attempts /\ mem'.claim = mem.claim
        /\ faults' \subseteq FaultKinds /\ faults \subseteq faults'
        /\ Attempting'
    <2>1. ASSUME NEW kind \in {"send", "nonce error", "answer"}, AutoFails(kind)
          PROVE  /\ run' \in RunType /\ run'.step \in {"auto retry", "claim"}
                 /\ mem' \in MemType /\ mem'.attempts >= mem.attempts
                 /\ mem'.claim = mem.claim
                 /\ faults' \subseteq FaultKinds /\ faults \subseteq faults'
                 /\ Attempting'
      BY <1>1, <2>1, FailedAttempt
    <2>2. CASE /\ run' = [run EXCEPT !.step = "auto stake",
                                     !.nonce = IF @ = "next" THEN "used" ELSE @]
               /\ UNCHANGED faults /\ UNCHANGED mem
      <3>1. run' \in RunType /\ run'.step = "auto stake"
        BY <2>2, Fields DEF RunType, Steps, StakeInv
      <3>2. mem' = mem /\ mem.attempts < MaxAttempts /\ mem.attempts \in Nat
        BY <1>1, <2>2, AttemptsLeft
      <3> QED BY <2>2, <3>1, <3>2, Fields DEF Attempting, StakeInv
    <2> QED BY <2>1, <2>2, Zenon DEF AutoApprove, NoFault
  <1>4. StakesApart'
    <2>1. run'.step \in Gated => run.step \in Gated
      BY <1>1 DEF Gated
    <2> QED BY <1>2, <1>3, <2>1, ApartSame, ApartOther, Fields DEF StakeInv
  <1>5. run'.step \in FirstStake => run.step \in FirstStake
    BY <1>1 DEF FirstStake
  <1> QED BY <1>1, <1>2, <1>3, <1>4, <1>5, KeepInv, Fields DEF StakeInv

(* The first stake went out, with its answer: no attempt is left. *)
LEMMA SentInv ==
    ASSUME StakeInv, UNCHANGED <<env, now, kv>>, NEW step \in {"auto read", "retry read"},
           AutoDone(step), run.step \in {"auto stake", "auto retry"},
           chain' \in ChainType, StakesApart',
           faults' \subseteq FaultKinds, faults \subseteq faults'
    PROVE  StakeInv'
  <1>1. run' \in RunType /\ run'.step = step
    BY GoType, Fields DEF AutoDone, Steps, StakeInv
  <1>2. mem' \in MemType /\ mem'.attempts = MaxAttempts /\ mem'.claim = mem.claim
    BY GiveUpType, Fields DEF AutoDone, StakeInv
  <1>3. /\ log' \in LogType /\ log'.claim = log.claim
        /\ log.autos = 0 => log'.autos = 1
    BY SentType, Fields DEF AutoDone, StakeInv
  <1>4. AutoOnce'
    <2>1. "answer" \notin faults => log.autos = 0
      BY DEF AutoOnce, StakeInv, FirstStake
    <2>2. run'.step \notin FirstStake
      BY <1>1 DEF FirstStake
    <2>3. mem'.attempts >= MaxAttempts
      BY <1>2, Limits, Zenon
    <2> QED BY <1>3, <2>1, <2>2, <2>3, Zenon DEF AutoOnce
  <1>5. LastClaimKnown'
    BY <1>1, <1>2, <1>3 DEF LastClaimKnown, StakeInv
  <1>6. Attempting'
    BY <1>1, <1>2 DEF Attempting
  <1>7. Typed'
    BY <1>1, <1>2, <1>3, <1>6, Types, TypesNext DEF StakeInv, Typed
  <1> QED BY <1>4, <1>5, <1>7 DEF StakeInv

(* The attempt ended without a stake. *)
LEMMA GaveUpInv ==
    ASSUME StakeInv, UNCHANGED <<env, now, kv, chain, log>>,
           run.step \in {"auto stake", "auto retry"},
           GiveUp \/ (CountAttempt /\ run.step = "auto stake"), Go("claim"),
           faults' \subseteq FaultKinds, faults \subseteq faults'
    PROVE  StakeInv'
  <1>1. run' \in RunType /\ run'.step = "claim"
    BY GoType, Fields DEF Steps, StakeInv
  <1>2. mem' \in MemType /\ mem'.attempts >= mem.attempts /\ mem'.claim = mem.claim
    <2>1. CASE GiveUp
      <3>1. mem' \in MemType /\ mem'.attempts = MaxAttempts /\ mem'.claim = mem.claim
        BY <2>1, GiveUpType, Fields DEF StakeInv
      <3> QED BY <3>1, AttemptsGiven
    <2>2. CASE CountAttempt /\ run.step = "auto stake"
      BY <2>2, AttemptsLeft, CountType, Fields DEF StakeInv
    <2> QED BY <2>1, <2>2
  <1>3. StakesApart'
    BY <1>1, ApartSame DEF StakeInv, Gated
  <1>4. Attempting' /\ run'.step \notin FirstStake
    BY <1>1, OffAttempt DEF FirstStake
  <1> QED BY <1>1, <1>2, <1>3, <1>4, KeepInv, Fields DEF StakeInv

(* AutoStake *)
LEMMA AutoStakeInv == StakeInv /\ AutoStake /\ UNCHANGED <<env, now>> => StakeInv'
  <1> SUFFICES ASSUME StakeInv, AutoStake, UNCHANGED <<env, now>> PROVE StakeInv'
    OBVIOUS
  <1>1. kv' = kv /\ run.step = "auto stake"
    BY Zenon DEF AutoStake
  <1>2. \A units \in Sizes(MinActive) : units \in Nat
    BY Limits DEF Sizes
  <1>3. CASE /\ AutoDone("auto read")
             /\ \E units \in Sizes(MinActive) :
                    Backoff(units, MinActive) /\ Send("stake", units)
    <2>1. PICK units \in Sizes(MinActive) : Backoff(units, MinActive) /\ Send("stake", units)
      BY <1>3
    <2>2. faults' \subseteq FaultKinds /\ faults \subseteq faults'
      <3>1. UNCHANGED faults \/ Fault("overflow")
        BY <2>1, Zenon DEF Backoff, NoFault
      <3> QED BY <3>1, Faults, Fields DEF FaultKinds, StakeInv
    <2>3. chain' \in ChainType
          /\ chain'.pending = Append(chain.pending, [kind |-> "stake", units |-> units])
      BY <1>2, <2>1, SendType, Fields DEF Kinds, StakeInv
    <2>4. run'.step = "auto read"
      BY <1>3, GoType, Fields DEF AutoDone, Steps, StakeInv
    <2>5. StakesApart'
      <3>1. run.step \in Gated /\ run'.step \notin Gated
        BY <1>1, <2>4 DEF Gated
      <3> QED BY <2>2, <2>3, <3>1, ApartStake
    <2> QED BY <1>1, <1>3, <2>2, <2>3, <2>5, SentInv
  <1>4. CASE (GiveUp \/ CountAttempt) /\ Go("claim") /\ UNCHANGED <<chain, log>>
             /\ (UNCHANGED faults \/ Fault("overflow"))
    <2>1. faults' \subseteq FaultKinds /\ faults \subseteq faults'
      BY <1>4, Faults, Fields DEF FaultKinds, StakeInv
    <2> QED BY <1>1, <1>4, <2>1, GaveUpInv
  <1>5. CASE AutoFails("answer") /\ Send("stake", MinActive) /\ AutoSent
    <2>1. /\ run' \in RunType /\ run'.step = "claim"
          /\ mem' \in MemType /\ mem'.claim = mem.claim
          /\ faults' \subseteq FaultKinds /\ faults \subseteq faults' /\ "answer" \in faults'
          /\ Attempting'
      BY <1>1, <1>5, FailedAttempt
    <2>2. chain' \in ChainType
          /\ chain'.pending = Append(chain.pending, [kind |-> "stake", units |-> MinActive])
      BY <1>5, Limits, SendType, Fields DEF Kinds, StakeInv
    <2>3. StakesApart'
      <3>1. run.step \in Gated /\ run'.step \notin Gated
        BY <1>1, <2>1 DEF Gated
      <3> QED BY <2>1, <2>2, <3>1, ApartStake
    <2>4. log' \in LogType
      BY <1>5, SentType, Fields DEF StakeInv
    <2>5. AutoOnce' /\ LastClaimKnown'
      BY <2>1 DEF AutoOnce, LastClaimKnown
    <2>6. Typed'
      BY <1>1, <2>1, <2>2, <2>4, Types, TypesNext DEF StakeInv, Typed
    <2> QED BY <2>3, <2>5, <2>6 DEF StakeInv
  <1>6. ASSUME NEW kind \in {"send", "nonce error"}, AutoFails(kind), UNCHANGED <<chain, log>>
        PROVE StakeInv'
    <2>1. /\ run' \in RunType /\ run'.step \in {"auto retry", "claim"}
          /\ mem' \in MemType /\ mem'.attempts >= mem.attempts /\ mem'.claim = mem.claim
          /\ faults' \subseteq FaultKinds /\ faults \subseteq faults'
          /\ Attempting'
      BY <1>1, <1>6, FailedAttempt
    <2>2. StakesApart'
      BY <1>1, <1>6, <2>1, ApartSame DEF StakeInv, Gated
    <2>3. run'.step \in FirstStake => run.step \in FirstStake
      BY <1>1 DEF FirstStake
    <2> QED BY <1>1, <1>6, <2>1, <2>2, <2>3, KeepInv, Fields DEF StakeInv
  <1> QED BY <1>3, <1>4, <1>5, <1>6, Zenon DEF AutoStake, NoFault

(* AutoRetry: the stake takes the place of the approval or follows it. *)
LEMMA AutoRetryInv == StakeInv /\ AutoRetry /\ UNCHANGED <<env, now>> => StakeInv'
  <1> SUFFICES ASSUME StakeInv, AutoRetry, UNCHANGED <<env, now>> PROVE StakeInv'
    OBVIOUS
  <1>1. kv' = kv /\ run.step = "auto retry"
    BY Zenon DEF AutoRetry
  <1>2. CASE /\ NoFault /\ AutoDone("retry read")
             /\ \/ /\ Waiting
                   /\ chain' = [chain EXCEPT !.pending[Len(chain.pending)] =
                                   [kind |-> "stake", units |-> MinActive]]
                \/ Send("stake", MinActive)
    <2>1. faults' \subseteq FaultKinds /\ faults \subseteq faults'
      BY <1>2, Fields DEF NoFault, StakeInv
    <2>2. run'.step = "retry read"
      BY <1>2, GoType, Fields DEF AutoDone, Steps, StakeInv
    <2>3. CASE Send("stake", MinActive)
      <3>1. chain' \in ChainType
            /\ chain'.pending = Append(chain.pending,
                                       [kind |-> "stake", units |-> MinActive])
        BY <2>3, Limits, SendType, Fields DEF Kinds, StakeInv
      <3>2. StakesApart'
        <4>1. run.step \in Gated /\ run'.step \notin Gated
          BY <1>1, <2>2 DEF Gated
        <4> QED BY <2>1, <3>1, <4>1, ApartStake
      <3> QED BY <1>1, <1>2, <2>1, <3>1, <3>2, SentInv
    <2>4. CASE /\ Waiting
               /\ chain' = [chain EXCEPT !.pending[Len(chain.pending)] =
                               [kind |-> "stake", units |-> MinActive]]
      <3> DEFINE tx == [kind |-> "stake", units |-> MinActive]
                 next == [chain.pending EXCEPT ![Len(chain.pending)] = tx]
      <3>1. tx \in Tx
        BY Limits DEF Tx, Kinds
      <3>2. next \in Seq(Tx)
        <4>1. chain.pending \in Seq(Tx)
          BY Fields DEF StakeInv
        <4> QED BY <2>4, <3>1, <4>1, LastReplaced DEF Waiting
      <3>3. chain' = [chain EXCEPT !.pending = next]
        BY <2>4
      <3>4. chain' \in ChainType /\ chain'.pending = next
        <4> HIDE DEF next
        <4> QED BY <3>2, <3>3, Fields DEF ChainType, StakeInv
      <3>5. StakesApart'
        <4>1. run.step \in Gated /\ run'.step \notin Gated
          BY <1>1, <2>2 DEF Gated
        <4> QED BY <2>1, <3>4, <4>1, ApartReplace
      <3> QED BY <1>1, <1>2, <2>1, <3>4, <3>5, SentInv
    <2> QED BY <1>2, <2>3, <2>4
  <1>3. CASE /\ NoFault \/ Fault("nonce") \/ Fault("send")
             /\ GiveUp /\ Go("claim") /\ UNCHANGED <<chain, log>>
    <2>1. faults' \subseteq FaultKinds /\ faults \subseteq faults'
      BY <1>3, Faults, Fields DEF FaultKinds, NoFault, StakeInv
    <2> QED BY <1>1, <1>3, <2>1, GaveUpInv
  <1> QED BY <1>2, <1>3, Zenon DEF AutoRetry

(* AutoRead *)
LEMMA AutoReadInv == StakeInv /\ AutoRead /\ UNCHANGED <<env, now>> => StakeInv'
  <1> SUFFICES ASSUME StakeInv, AutoRead, UNCHANGED <<env, now>> PROVE StakeInv'
    OBVIOUS
  <1>1. UNCHANGED <<chain, kv, log>> /\ run.step \in {"auto read", "retry read"}
    BY Zenon DEF AutoRead
  <1>2. faults' \subseteq FaultKinds /\ faults \subseteq faults'
    <2>1. UNCHANGED faults \/ Fault("status") \/ Fault("raise")
      BY Zenon DEF AutoRead, NoFault
    <2> QED BY <2>1, Faults, Fields DEF FaultKinds, StakeInv
  <1>3. mem.attempts = MaxAttempts /\ mem.attempts \in Nat
    BY <1>1, Fields DEF Attempting, StakeInv, Typed
  <1>4. \A n \in Nat : n <= n /\ n >= n /\ n + 1 >= n
    BY Self
  <1>5. /\ run' \in RunType /\ run'.step \in {"claim", "failed"}
        /\ mem' \in MemType /\ mem'.attempts >= mem.attempts /\ mem'.claim = mem.claim
    <2>1. CASE Adopt(Live, "claim") /\ mem' = [mem EXCEPT !.snap = Live]
      BY <1>3, <1>4, <2>1, AdoptType, SnapTypes, SnapType, Fields DEF Steps, StakeInv
    <2>2. CASE Adopt(LastKnown, "claim") /\ mem' = mem
      BY <1>3, <1>4, <2>2, AdoptType, SnapTypes, Fields DEF Steps, StakeInv
    <2>3. CASE CountAttempt /\ Go("claim")
      BY <1>3, <1>4, <2>3, GoType, CountType, Fields DEF Steps, StakeInv
    <2>4. CASE mem' = mem /\ Go("failed")
      BY <1>3, <1>4, <2>4, GoType, Fields DEF Steps, StakeInv
    <2> QED BY <2>1, <2>2, <2>3, <2>4, Zenon DEF AutoRead
  <1>6. StakesApart'
    BY <1>1, <1>2, <1>5, ApartSame DEF StakeInv, Gated
  <1>7. Attempting' /\ run'.step \notin FirstStake
    BY <1>5, OffAttempt DEF FirstStake
  <1> QED BY <1>1, <1>2, <1>5, <1>6, <1>7, KeepInv, Fields DEF StakeInv

(* What is left to show of a step off the first stake that leaves mem.       *)
LEMMA QuietInv ==
    ASSUME StakeInv, UNCHANGED <<env, now, mem, log>>, run.step # "claimed",
           chain' = chain \/ \E units \in Nat : Send("approve", units),
           kv' \in KvType, kv'.claim = kv.claim,
           run' \in RunType, run'.step \in {"idle nonce", "idle stake", "beat", "beaten", "done"},
           run'.step \in Gated => run.step \in Gated,
           UNCHANGED faults \/ \E kind \in FaultKinds : Fault(kind)
    PROVE  StakeInv'
  <1>1. faults' \subseteq FaultKinds /\ faults \subseteq faults'
    BY Faults, Fields DEF StakeInv
  <1>2. chain' \in ChainType
        /\ \/ chain'.pending = chain.pending
           \/ \E units \in Nat : chain'.pending =
                 Append(chain.pending, [kind |-> "approve", units |-> units])
    BY SendType, Fields DEF Kinds, StakeInv
  <1>3. StakesApart'
    BY <1>1, <1>2, ApartSame, ApartOther, Fields DEF StakeInv
  <1>4. Attempting' /\ run'.step \notin FirstStake
    BY OffAttempt DEF FirstStake
  <1>5. mem'.attempts >= mem.attempts
    BY Self, Fields DEF StakeInv
  <1> QED BY <1>1, <1>2, <1>3, <1>4, <1>5, KeepInv, Fields DEF StakeInv

(* What may be staked is a whole number of units. *)
LEMMA StakeableType == ASSUME NEW b \in Nat PROVE Stakeable(b) \in Nat
  BY Limits DEF Stakeable

(* IdleBalance *)
LEMMA IdleBalanceInv == StakeInv /\ IdleBalance /\ UNCHANGED <<env, now>> => StakeInv'
  <1> SUFFICES ASSUME StakeInv, IdleBalance, UNCHANGED <<env, now>> PROVE StakeInv'
    OBVIOUS
  <1>1. UNCHANGED <<chain, kv, mem, log>> /\ run.step = "idle"
    BY Zenon DEF IdleBalance
  <1>2. Stakeable(chain.wallet) \in Nat
    BY StakeableType, Fields DEF StakeInv
  <1>3. run' \in RunType /\ run'.step \in {"beat", "idle nonce"}
    <2>1. Go("beat") \/ run' = [run EXCEPT !.step = "idle nonce",
                                           !.amount = Stakeable(chain.wallet)]
      BY Zenon DEF IdleBalance
    <2>2. CASE Go("beat")
      BY <2>2, GoType, Fields DEF Steps, StakeInv
    <2>3. CASE run' = [run EXCEPT !.step = "idle nonce", !.amount = Stakeable(chain.wallet)]
      BY <1>2, <2>3, Fields DEF RunType, Steps, StakeInv
    <2> QED BY <2>1, <2>2, <2>3
  <1>4. UNCHANGED faults \/ \E kind \in FaultKinds : Fault(kind)
    <2>1. UNCHANGED faults \/ Fault("balance")
      BY Zenon DEF IdleBalance, NoFault
    <2> QED BY <2>1 DEF FaultKinds
  <1>5. run'.step \notin Gated
    BY <1>3 DEF Gated
  <1> QED BY <1>1, <1>3, <1>4, <1>5, QuietInv, Fields DEF StakeInv

(* IdleNonce: the gate of the idle stake. *)
LEMMA IdleNonceInv == StakeInv /\ IdleNonce /\ UNCHANGED <<env, now>> => StakeInv'
  <1> SUFFICES ASSUME StakeInv, IdleNonce, UNCHANGED <<env, now>> PROVE StakeInv'
    OBVIOUS
  <1>1. UNCHANGED <<chain, kv, mem, log>> /\ run.step = "idle nonce"
    BY Zenon DEF IdleNonce
  <1>2. CASE Go("beat") /\ NoFault
    <2>1. run' \in RunType /\ run'.step = "beat"
      BY <1>2, GoType, Fields DEF Steps, StakeInv
    <2>2. run'.step \notin Gated /\ UNCHANGED faults
      BY <1>2, <2>1 DEF Gated, NoFault
    <2> QED BY <1>1, <2>1, <2>2, QuietInv, Fields DEF StakeInv
  <1>3. CASE PassNonceGate("idle approve")
    <2>1. /\ run' \in RunType /\ run'.step = "idle approve"
          /\ faults' \subseteq FaultKinds /\ faults \subseteq faults'
          /\ chain.pending = <<>> \/ "nonce" \in faults'
      BY <1>3, GateType DEF Steps
    <2>2. StakesApart'
      BY <1>1, <2>1, ApartGate
    <2>3. Attempting' /\ run'.step \notin FirstStake
      BY <2>1, OffAttempt DEF FirstStake
    <2>4. mem'.attempts >= mem.attempts
      BY <1>1, Self, Fields DEF StakeInv
    <2> QED BY <1>1, <2>1, <2>2, <2>3, <2>4, KeepInv, Fields DEF StakeInv
  <1> QED BY <1>2, <1>3, Zenon DEF IdleNonce

(* IdleApprove *)
LEMMA IdleApproveInv == StakeInv /\ IdleApprove /\ UNCHANGED <<env, now>> => StakeInv'
  <1> SUFFICES ASSUME StakeInv, IdleApprove, UNCHANGED <<env, now>> PROVE StakeInv'
    OBVIOUS
  <1>1. UNCHANGED <<kv, mem, log>> /\ run.step = "idle approve"
    BY Zenon DEF IdleApprove
  <1>2. chain' = chain \/ \E units \in Nat : Send("approve", units)
    <2>1. chain' = chain \/ Send("approve", run.amount)
      BY Zenon DEF IdleApprove
    <2> QED BY <2>1, Fields DEF StakeInv
  <1>3. run' \in RunType /\ run'.step \in {"beat", "idle stake"}
    <2>1. Go("beat") \/ Go("idle stake")
      BY Zenon DEF IdleApprove
    <2> QED BY <2>1, GoType, Fields DEF Steps, StakeInv
  <1>4. UNCHANGED faults \/ \E kind \in FaultKinds : Fault(kind)
    <2>1. UNCHANGED faults \/ \E kind \in {"answer", "send", "nonce error", "overflow"} :
                                 Fault(kind)
      BY Zenon DEF IdleApprove, NoFault
    <2> QED BY <2>1 DEF FaultKinds
  <1>5. run.step \in Gated
    BY <1>1 DEF Gated
  <1> QED BY <1>1, <1>2, <1>3, <1>4, <1>5, QuietInv, Fields DEF StakeInv

(* IdleStake *)
LEMMA IdleStakeInv == StakeInv /\ IdleStake /\ UNCHANGED <<env, now>> => StakeInv'
  <1> SUFFICES ASSUME StakeInv, IdleStake, UNCHANGED <<env, now>> PROVE StakeInv'
    OBVIOUS
  <1>1. UNCHANGED <<kv, mem, log>> /\ run.step = "idle stake" /\ Go("beat")
    BY Zenon DEF IdleStake
  <1>2. run' \in RunType /\ run'.step = "beat"
    BY <1>1, GoType, Fields DEF Steps, StakeInv
  <1>3. run.step \in Gated /\ run'.step \notin Gated
    BY <1>1, <1>2 DEF Gated
  <1>4. faults' \subseteq FaultKinds /\ faults \subseteq faults'
    <2>1. UNCHANGED faults \/ \E kind \in {"answer", "send", "nonce error", "overflow"} :
                                 Fault(kind)
      BY Zenon DEF IdleStake, NoFault, Backoff
    <2> QED BY <2>1, Faults, Fields DEF FaultKinds, StakeInv
  <1>5. chain' = chain \/ \E units \in Nat : Send("stake", units)
    <2>1. \/ chain' = chain
          \/ \E units \in Sizes(run.amount) : Send("stake", units)
          \/ Send("stake", run.amount)
      BY Zenon DEF IdleStake
    <2>2. run.amount \in Nat
      BY Fields DEF StakeInv
    <2>3. \A units \in Sizes(run.amount) : units \in Nat
      BY <2>2 DEF Sizes
    <2> QED BY <2>1, <2>2, <2>3
  <1>6. chain' \in ChainType
        /\ \/ chain'.pending = chain.pending
           \/ \E units \in Nat : chain'.pending =
                 Append(chain.pending, [kind |-> "stake", units |-> units])
    BY <1>5, SendType, Fields DEF Kinds, StakeInv
  <1>7. StakesApart'
    BY <1>3, <1>4, <1>6, ApartSame, ApartStake DEF StakeInv
  <1>8. Attempting' /\ run'.step \notin FirstStake
    BY <1>2, OffAttempt DEF FirstStake
  <1>9. mem'.attempts >= mem.attempts
    BY <1>1, Self, Fields DEF StakeInv
  <1> QED BY <1>1, <1>2, <1>4, <1>6, <1>7, <1>8, <1>9, KeepInv, Fields DEF StakeInv

(* Beat, RecordBeat *)
LEMMA BeatInv == StakeInv /\ (Beat \/ RecordBeat) /\ UNCHANGED <<env, now>> => StakeInv'
  <1> SUFFICES ASSUME StakeInv, Beat \/ RecordBeat, UNCHANGED <<env, now>> PROVE StakeInv'
    OBVIOUS
  <1>1. UNCHANGED <<chain, mem, log>> /\ run.step \in {"beat", "beaten"}
    BY Zenon DEF Beat, RecordBeat
  <1>2. kv' \in KvType /\ kv'.claim = kv.claim
    <2>1. kv' = kv \/ kv' = [kv EXCEPT !.beat = now]
      BY Zenon DEF Beat, RecordBeat
    <2> QED BY <2>1, Fields DEF KvType, StakeInv
  <1>3. run' \in RunType /\ run'.step \in {"beaten", "done"}
    <2>1. CASE Beat
      <3>1. \E b \in {"sent", "error", "skipped"}, step \in {"beaten", "done"} :
               run' = [run EXCEPT !.step = step, !.beat = b]
        BY <2>1, Zenon DEF Beat
      <3> QED BY <3>1, Fields DEF RunType, Steps, StakeInv
    <2>2. CASE RecordBeat
      BY <2>2, GoType, Fields DEF RecordBeat, Steps, StakeInv
    <2> QED BY <2>1, <2>2
  <1>4. UNCHANGED faults \/ \E kind \in FaultKinds : Fault(kind)
    <2>1. UNCHANGED faults \/ \E kind \in {"kv read", "kv write", "beat"} : Fault(kind)
      BY Zenon DEF Beat, RecordBeat, NoFault
    <2> QED BY <2>1 DEF FaultKinds
  <1>5. run'.step \notin Gated
    BY <1>3 DEF Gated
  <1> QED BY <1>1, <1>2, <1>3, <1>4, <1>5, QuietInv

(* What Remember leaves of the memory. *)
LEMMA RememberType ==
    ASSUME StakeInv, NEW readable \in BOOLEAN, Remember(readable)
    PROVE  mem' \in MemType /\ mem'.attempts = mem.attempts
           /\ mem'.claim = LastClaim(readable)
  <1>1. LastClaim(readable) \in Nat \cup {None}
    BY Fields DEF LastClaim, KvType, StakeInv
  <1> QED BY <1>1, Fields DEF Remember, MemType, StakeInv

(* A claim was sent, or a claim time was read. *)
LEMMA ClaimFrame ==
    ASSUME StakeInv, Claim, UNCHANGED <<env, now>>
    PROVE  /\ kv' = kv /\ run.step = "claim"
           /\ faults' \subseteq FaultKinds /\ faults \subseteq faults'
           /\ run' \in RunType /\ run'.step \in {"beat", "idle", "claimed"}
           /\ \E readable \in BOOLEAN :
                 /\ Remember(readable)
                 /\ readable \/ "kv read" \in faults'
           /\ \/ chain' = chain /\ log' = log /\ run'.step # "claimed"
              \/ /\ Send("claim", 0) /\ log' = [log EXCEPT !.claim = now]
                 /\ run'.step = "claimed" \/ "answer" \in faults'
  <1>1. kv' = kv /\ run.step = "claim"
    BY Zenon DEF Claim
  <1>2. faults' \subseteq FaultKinds /\ faults \subseteq faults'
    <2>1. UNCHANGED faults \/ \E kind \in {"kv read", "send", "answer"} : Fault(kind)
      BY Zenon DEF Claim, NoFault
    <2> QED BY <2>1, Faults, Fields DEF FaultKinds, StakeInv
  <1>3. \E step \in {"beat", "idle", "claimed"} : Go(step)
    BY Zenon DEF Claim
  <1>4. run' \in RunType /\ run'.step \in {"beat", "idle", "claimed"}
    BY <1>3, GoType, Fields DEF Steps, StakeInv
  <1>5. \E readable \in BOOLEAN : Remember(readable) /\ (readable \/ "kv read" \in faults')
    <2>1. \E readable \in BOOLEAN : Remember(readable) /\ (readable \/ Fault("kv read"))
      BY Zenon DEF Claim
    <2> QED BY <2>1 DEF Fault
  <1>6. \/ chain' = chain /\ log' = log /\ (Go("beat") \/ Go("idle"))
        \/ Send("claim", 0) /\ log' = [log EXCEPT !.claim = now]
             /\ (Go("claimed") \/ Fault("answer"))
    BY Zenon DEF Claim
  <1>7. Go("beat") \/ Go("idle") => run'.step # "claimed"
    BY GoType, Fields DEF Steps, StakeInv
  <1>8. Go("claimed") => run'.step = "claimed"
    BY GoType, Fields DEF Steps, StakeInv
  <1>9. Fault("answer") => "answer" \in faults'
    BY DEF Fault
  <1> QED BY <1>1, <1>2, <1>4, <1>5, <1>6, <1>7, <1>8, <1>9

(* Claim *)
LEMMA ClaimInv == StakeInv /\ Claim /\ UNCHANGED <<env, now>> => StakeInv'
  <1> SUFFICES ASSUME StakeInv, Claim, UNCHANGED <<env, now>> PROVE StakeInv'
    OBVIOUS
  <1>1. /\ kv' = kv /\ run.step = "claim"
        /\ faults' \subseteq FaultKinds /\ faults \subseteq faults'
        /\ run' \in RunType /\ run'.step \in {"beat", "idle", "claimed"}
    BY ClaimFrame
  <1>2. PICK readable \in BOOLEAN : Remember(readable) /\ (readable \/ "kv read" \in faults')
    BY ClaimFrame
  <1>3. \/ chain' = chain /\ log' = log /\ run'.step # "claimed"
        \/ /\ Send("claim", 0) /\ log' = [log EXCEPT !.claim = now]
           /\ run'.step = "claimed" \/ "answer" \in faults'
    BY ClaimFrame
  <1>4. mem' \in MemType /\ mem'.attempts = mem.attempts /\ mem'.claim = LastClaim(readable)
    BY <1>2, RememberType
  <1>5. chain' \in ChainType
        /\ \/ chain'.pending = chain.pending
           \/ chain'.pending = Append(chain.pending, [kind |-> "claim", units |-> 0])
    <2>1. 0 \in Nat
      OBVIOUS
    <2> QED BY <1>3, <2>1, SendType, Fields DEF Kinds, StakeInv
  <1>6. log' \in LogType /\ log'.autos = log.autos
    BY <1>3, Fields DEF LogType, StakeInv
  <1>7. Attempting' /\ run'.step \notin FirstStake /\ run'.step \notin Gated
    BY <1>1, OffAttempt DEF FirstStake, Gated
  <1>8. StakesApart'
    BY <1>1, <1>5, <1>7, ApartSame, ApartOther, Fields DEF StakeInv
  <1>9. AutoOnce'
    BY <1>1, <1>4, <1>6, <1>7, Zenon DEF AutoOnce, StakeInv
  <1>10. LastClaimKnown'
    <2>1. CASE chain' = chain /\ log' = log /\ run'.step # "claimed"
      BY <1>1, <1>2, <1>4, <2>1, Zenon DEF LastClaimKnown, LastClaim, StakeInv
    <2>2. CASE log' = [log EXCEPT !.claim = now] /\ (run'.step = "claimed" \/ "answer" \in faults')
      <3>1. log'.claim = now /\ now <= now /\ now' = now
        BY <2>2, Self, Fields DEF LogType, StakeInv
      <3> QED BY <2>2, <3>1 DEF LastClaimKnown
    <2> QED BY <1>3, <2>1, <2>2
  <1>11. Typed'
    BY <1>1, <1>4, <1>5, <1>6, <1>7, Types, TypesNext DEF StakeInv, Typed
  <1> QED BY <1>8, <1>9, <1>10, <1>11 DEF StakeInv

(* RecordClaim *)
LEMMA RecordClaimInv == StakeInv /\ RecordClaim /\ UNCHANGED <<env, now>> => StakeInv'
  <1> SUFFICES ASSUME StakeInv, RecordClaim, UNCHANGED <<env, now>> PROVE StakeInv'
    OBVIOUS
  <1>1. /\ UNCHANGED <<chain, log>> /\ run.step = "claimed" /\ Go("idle")
        /\ mem' = [mem EXCEPT !.claim = now]
    BY Zenon DEF RecordClaim
  <1>2. faults' \subseteq FaultKinds /\ faults \subseteq faults'
    <2>1. UNCHANGED faults \/ Fault("kv write")
      BY Zenon DEF RecordClaim, NoFault
    <2> QED BY <2>1, Faults, Fields DEF FaultKinds, StakeInv
  <1>3. kv' \in KvType
    <2>1. kv' = kv \/ kv' = [kv EXCEPT !.claim = now]
      BY Zenon DEF RecordClaim
    <2> QED BY <2>1, Fields DEF KvType, StakeInv
  <1>4. mem' \in MemType /\ mem'.claim = now /\ mem'.attempts = mem.attempts
    BY <1>1, Fields DEF MemType, StakeInv
  <1>5. run' \in RunType /\ run'.step = "idle"
    BY <1>1, GoType, Fields DEF Steps, StakeInv
  <1>6. Attempting' /\ run'.step \notin FirstStake /\ run'.step \notin Gated
    BY <1>5, OffAttempt DEF FirstStake, Gated
  <1>7. StakesApart'
    BY <1>1, <1>2, <1>6, ApartSame DEF StakeInv
  <1>8. AutoOnce'
    BY <1>1, <1>2, <1>4, <1>6, Zenon DEF AutoOnce, StakeInv
  <1>9. LastClaimKnown'
    BY <1>1, <1>2, <1>4, <1>5 DEF LastClaimKnown, StakeInv
  <1>10. Typed'
    BY <1>1, <1>2, <1>3, <1>4, <1>5, <1>6, Types, TypesNext DEF StakeInv, Typed
  <1> QED BY <1>7, <1>8, <1>9, <1>10 DEF StakeInv

(* Every step of run_once keeps the invariant. *)
THEOREM RunOnceInv == StakeInv /\ RunOnce => StakeInv'
  BY ReadStatusInv, AutoCheckInv, AutoApproveInv, AutoStakeInv, AutoRetryInv, AutoReadInv,
     ClaimInv, RecordClaimInv, IdleBalanceInv, IdleNonceInv, IdleApproveInv, IdleStakeInv,
     BeatInv, Zenon DEF RunOnce

-----------------------------------------------------------------------------
(* What happens around run_once. *)

(* A run begins or is over. *)
LEMMA NewRunInv ==
    ASSUME StakeInv, UNCHANGED <<env, chain, kv, mem, now, log>>,
           run.step # "claimed", run' \in RunType, run'.step \in {"none", "status"},
           UNCHANGED faults \/ \E kind \in FaultKinds : Fault(kind)
    PROVE  StakeInv'
  <1>1. faults' \subseteq FaultKinds /\ faults \subseteq faults'
    BY Faults, Fields DEF StakeInv
  <1>2. Attempting' /\ run'.step \notin FirstStake /\ run'.step \notin Gated
    BY OffAttempt DEF FirstStake, Gated
  <1>3. StakesApart'
    BY <1>1, <1>2, ApartSame DEF StakeInv
  <1>4. mem'.attempts >= mem.attempts
    BY Self, Fields DEF StakeInv
  <1> QED BY <1>1, <1>2, <1>3, <1>4, KeepInv, Fields DEF StakeInv

(* The run that is none. *)
LEMMA NoRunType == NoRun \in RunType /\ NoRun.step = "none"
  BY DEF NoRun, RunType, Steps

(* A run begins with the status. *)
LEMMA StartRunType ==
    ASSUME NEW live \in BOOLEAN, StartRun(live)
    PROVE  run' \in RunType /\ run'.step = "status"
  BY NoRunType DEF StartRun, RunType, Steps, NoRun

(* A step of the loop that is not about the stake. *)
LEMMA LoopInv ==
    ASSUME StakeInv, UNCHANGED <<env, chain, kv, mem, run, now, log>>,
           UNCHANGED faults \/ \E kind \in FaultKinds : Fault(kind)
    PROVE  StakeInv'
  <1>1. faults' \subseteq FaultKinds /\ faults \subseteq faults'
    BY Faults, Fields DEF StakeInv
  <1>2. Typed'
    <2>1. Attempting'
      BY DEF Attempting, StakeInv, Typed
    <2> QED BY <1>1, <2>1, Types, TypesNext DEF StakeInv, Typed
  <1>3. StakesApart'
    BY <1>1, ApartSame DEF StakeInv
  <1>4. AutoOnce' /\ LastClaimKnown'
    BY <1>1, Zenon DEF AutoOnce, LastClaimKnown, StakeInv
  <1> QED BY <1>2, <1>3, <1>4 DEF StakeInv

(* What a mined transaction makes of the chain. *)
LEMMA MinedType ==
    ASSUME chain \in ChainType, NEW tx \in Tx
    PROVE  /\ Applied(tx) \in ChainType
           /\ Applied(tx).pending = chain.pending
  <1>1. tx.units \in Nat
    BY DEF Tx
  <1>2. chain.wallet + chain.rewards \in Nat /\ chain.stake + tx.units \in Nat
    BY <1>1 DEF ChainType
  <1>3. tx.units <= chain.wallet /\ tx.units <= chain.allowance
          => chain.wallet - tx.units \in Nat /\ chain.allowance - tx.units \in Nat
    BY <1>1 DEF ChainType
  <1> QED BY <1>1, <1>2, <1>3 DEF Applied, ChainType

(* Mine *)
LEMMA MineInv == StakeInv /\ Mine => StakeInv'
  <1> SUFFICES ASSUME StakeInv, Mine PROVE StakeInv'
    OBVIOUS
  <1>1. UNCHANGED <<env, kv, mem, run, now, faults, log>> /\ chain.pending # <<>>
    BY Zenon DEF Mine
  <1>2. Head(chain.pending) \in Tx /\ Tail(chain.pending) \in Seq(Tx)
    BY <1>1, HeadTailProperties, Fields DEF StakeInv
  <1>3. Applied(Head(chain.pending)) \in ChainType
        /\ Applied(Head(chain.pending)).pending = chain.pending
    BY <1>2, MinedType, Fields DEF StakeInv
  <1>4. chain' = [Applied(Head(chain.pending)) EXCEPT !.pending = Tail(@)]
    BY Zenon DEF Mine
  <1>5. chain' \in ChainType /\ chain'.pending = Tail(chain.pending)
    BY <1>2, <1>3, <1>4 DEF ChainType
  <1>6. StakesApart'
    BY <1>1, <1>5, ApartMine, Fields DEF StakeInv
  <1>7. Attempting'
    BY <1>1 DEF Attempting, StakeInv, Typed
  <1>8. Typed'
    BY <1>1, <1>5, <1>7, Types, TypesNext DEF StakeInv, Typed
  <1>9. AutoOnce' /\ LastClaimKnown'
    BY <1>1, Zenon DEF AutoOnce, LastClaimKnown, StakeInv
  <1> QED BY <1>6, <1>8, <1>9 DEF StakeInv

(* The clock runs between two runs only. *)
LEMMA TickInv ==
    ASSUME StakeInv, Tick, UNCHANGED <<env, kv, mem, run, faults, log>>,
           run.step # "claimed"
    PROVE  StakeInv'
  <1>1. chain' \in ChainType /\ chain'.pending = chain.pending
    <2>1. chain' = [chain EXCEPT !.rewards = @ + Accrue]
      BY Zenon DEF Tick
    <2>2. chain \in ChainType
      BY Fields DEF StakeInv
    <2>3. chain.rewards + Accrue \in Nat
      BY <2>2 DEF Accrue, ChainType
    <2> QED BY <2>1, <2>2, <2>3 DEF ChainType
  <1>2. now' \in 0 .. MaxTime /\ now' = now + 1
    <2>1. env \in Profiles /\ now \in Nat /\ now < env.until
      BY Types, Fields DEF Tick, StakeInv, Typed
    <2>2. env.until \in 0 .. MaxTime
      BY <2>1, StakeProfileAssumption
    <2>3. MaxTime \in Nat
      BY StakeAssumption
    <2> QED BY <2>1, <2>2, <2>3 DEF Tick
  <1>3. StakesApart'
    BY <1>1, ApartSame, Fields DEF StakeInv
  <1>4. Attempting'
    BY DEF Attempting, StakeInv, Typed
  <1>5. Typed'
    BY <1>1, <1>2, <1>4, Types, TypesNext DEF StakeInv, Typed
  <1>6. AutoOnce'
    BY Zenon DEF AutoOnce, StakeInv
  <1>7. LastClaimKnown'
    <2>1. log.claim <= now /\ log.claim # None => log.claim <= now'
      <3>1. \A m, n \in Nat : m <= n => m <= n + 1
        OBVIOUS
      <3> QED BY <1>2, <3>1, Fields DEF StakeInv
    <2> QED BY <2>1 DEF LastClaimKnown, StakeInv
  <1> QED BY <1>3, <1>5, <1>6, <1>7 DEF StakeInv

(* Crash *)
LEMMA ForgetInv ==
    ASSUME StakeInv, ForgetStake, Fault("crash"), UNCHANGED <<env, chain, kv, now>>
    PROVE  StakeInv'
  <1>1. faults' \subseteq FaultKinds /\ faults \subseteq faults' /\ "crash" \in faults'
    BY FaultType, Fields DEF FaultKinds, StakeInv
  <1>2. run' \in RunType /\ run'.step = "none"
    BY NoRunType DEF ForgetStake
  <1>3. mem' \in MemType /\ mem'.claim = None
    BY Limits DEF ForgetStake, NoMem, MemType
  <1>4. log' \in LogType /\ log'.autos = 0 /\ log'.claim = log.claim
    BY Fields DEF ForgetStake, LogType, StakeInv
  <1>5. Attempting' /\ run'.step \notin Gated
    BY <1>2, OffAttempt DEF Gated
  <1>6. StakesApart'
    BY <1>1, <1>5, ApartSame DEF StakeInv
  <1>7. AutoOnce'
    BY <1>4 DEF AutoOnce
  <1>8. LastClaimKnown'
    BY <1>1, <1>2, <1>3, <1>4 DEF LastClaimKnown, StakeInv
  <1>9. Typed'
    BY <1>1, <1>2, <1>3, <1>4, <1>5, Types, TypesNext DEF StakeInv, Typed
  <1> QED BY <1>6, <1>7, <1>8, <1>9 DEF StakeInv

(* Nothing sent, nothing known. *)
LEMMA StakeInitInv == StakeInit => StakeInv
  <1> SUFFICES ASSUME StakeInit PROVE StakeInv
    OBVIOUS
  <1>1. chain \in ChainType /\ chain.pending = <<>> /\ env \in Profiles
    <2>1. env \in Profiles /\ chain = env.chain
      BY DEF StakeInit
    <2>2. chain \in [stake : Nat, wallet : Nat, allowance : Nat, rewards : Nat,
                     pending : {<<>>}]
      BY <2>1, StakeProfileAssumption
    <2>3. <<>> \in Seq(Tx)
      OBVIOUS
    <2> QED BY <2>1, <2>2, <2>3 DEF ChainType
  <1>2. run \in RunType /\ run.step = "none"
    BY NoRunType DEF StakeInit
  <1>3. mem \in MemType /\ kv \in KvType /\ log \in LogType /\ now \in 0 .. MaxTime
    BY Limits, StakeAssumption DEF StakeInit, NoMem, MemType, KvType, LogType
  <1>4. faults = {} /\ log.claim = None /\ log.autos = 0
    BY DEF StakeInit
  <1>5. Typed
    BY <1>1, <1>2, <1>3, <1>4, Types DEF Typed, Attempting
  <1>6. StakesApart
    BY <1>1, <1>2 DEF StakesApart, Gated
  <1>7. AutoOnce /\ LastClaimKnown
    BY <1>4 DEF AutoOnce, LastClaimKnown
  <1> QED BY <1>5, <1>6, <1>7 DEF StakeInv
=============================================================================
