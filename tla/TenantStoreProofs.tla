------------------------- MODULE TenantStoreProofs -------------------------
(***************************************************************************)
(* What holds of TenantStore for any number of processes, threads, tenants *)
(* and keys.  A subkey reaches a cache through a row a request holds, the  *)
(* key row a commit inserts or what a refresh has scanned, so the invariant*)
(* follows the key of a tenant through all of them.                        *)
(***************************************************************************)
EXTENDS TenantStore, TLAPS

(* Key k, if it is a key at all, was minted for t.                          *)
MintedFor(m, k, t) == k # 0 => k \in DOMAIN m /\ m[k] = t

(* A request on a tenant holds that tenant's keys only, and a refresh has   *)
(* scanned for each tenant its own.                                         *)
JobOK(m, j) ==
    /\ j.pc \in {"get", "put", "act", "load", "commit"} => j.kind # "list"
    /\ j.pc = "idle" => j.kind = "list"
    /\ j.kind # "list" => j.tenant \in Tenants
    /\ \A t \in Tenants : j.tenant = t =>
         MintedFor(m, j.held.latest.key, t) /\ MintedFor(m, j.key, t)
    /\ \A t \in Tenants : MintedFor(m, j.scan[t].latest.key, t)

KeysOnRecord == \A t \in Tenants : MintedFor(minted, latest[t].key, t)

StoreInv ==
    /\ StateTypeOK
    /\ KeysOnRecord
    /\ SubkeyIsOwn
    /\ \A w \in Workers : JobOK(minted, job[w])

-----------------------------------------------------------------------------
(* Types.                                                                   *)

(* What there is before a key or a request is typed, and owns nothing.      *)
LEMMA BlankJob == /\ NoRecord \in Record /\ NoKey \in KeyRow /\ Blank \in Job
                  /\ NoRecord.latest.key = 0
                  /\ JobOK(minted, Blank) /\ JobOK(minted', Blank)
  <1>1. NoKey \in KeyRow /\ NoRecord \in Record /\ NoRecord.latest.key = 0
    BY StoreAssumption DEF NoKey, NoRecord, KeyRow, KeyIds, Record, Statuses
  <1>2. Blank \in Job
    <2> HIDE DEF NoRecord
    <2> QED
      BY <1>1, StoreAssumption DEF Blank, Job, Kinds, KeyIds, Statuses
  <1>3. \A m : JobOK(m, Blank)
    BY <1>1 DEF Blank, JobOK, MintedFor
  <1> QED
    BY <1>1, <1>2, <1>3

(* An empty store satisfies the invariant.                                  *)
THEOREM StoreInitInv == Init => StoreInv
  <1> SUFFICES ASSUME Init PROVE StoreInv
    OBVIOUS
  <1>1. StateTypeOK
    BY BlankJob, StoreAssumption DEF Init, StateTypeOK, Statuses, KeyIds
  <1>2. KeysOnRecord
    BY DEF Init, KeysOnRecord, NoKey, MintedFor
  <1>3. SubkeyIsOwn
    BY BlankJob DEF Init, SubkeyIsOwn
  <1>4. \A w \in Workers : JobOK(minted, job[w])
    BY BlankJob DEF Init
  <1> QED
    BY <1>1, <1>2, <1>3, <1>4 DEF StoreInv

(* What a read of the tables shows of a tenant is typed and its own.        *)
LEMMA OnRecordOwn ==
  ASSUME StoreInv, NEW t \in Tenants
  PROVE  OnRecord(t) \in Record /\ MintedFor(minted, OnRecord(t).latest.key, t)
  BY BlankJob DEF StoreInv, StateTypeOK, OnRecord, Record, KeysOnRecord, MintedFor

(* A step of one thread that leaves keys and caches alone.                  *)
LEMMA JobInv ==
  ASSUME StoreInv, NEW w \in Workers, NEW j,
         UNCHANGED <<status, latest, minted, cache>>,
         stamps' \in 0..MaxWrites,
         j \in Job /\ JobOK(minted, j),
         job' = [job EXCEPT ![w] = j]
  PROVE  StoreInv'
  <1>1. StateTypeOK'
    BY DEF StoreInv, StateTypeOK
  <1>2. \A v \in Workers : JobOK(minted, job'[v])
    BY DEF StoreInv, StateTypeOK
  <1> QED
    BY <1>1, <1>2 DEF StoreInv, KeysOnRecord, SubkeyIsOwn

(* A thread that ends its request owns nothing any more.                    *)
LEMMA FinishInv ==
  ASSUME StoreInv, NEW w \in Workers, Finish(w), UNCHANGED <<status, latest, minted, stamps, cache>>
  PROVE  StoreInv'
  BY BlankJob, JobInv DEF Finish, StoreInv, StateTypeOK

-----------------------------------------------------------------------------
(* The steps of a request that read.                                        *)

(* A request that starts holds nothing.                                     *)
LEMMA RequestInv ==
  ASSUME StoreInv, NEW w \in Workers, NEW kind \in Kinds \ {"list"}, NEW t \in Tenants,
         Request(w, kind, t)
  PROVE  StoreInv'
  <1> DEFINE j == [Blank EXCEPT !.pc = "get", !.kind = kind, !.tenant = t]
  <1>1. j \in Job /\ JobOK(minted, j)
    BY BlankJob DEF Job, JobOK, Blank, NoRecord, NoKey, MintedFor
  <1>2. job' = [job EXCEPT ![w] = j]
    BY DEF Request
  <1> HIDE DEF j
  <1> QED
    BY <1>1, <1>2, JobInv DEF Request, StoreInv, StateTypeOK

(* A request that holds a record of its tenant.                             *)
LEMMA HoldingJob ==
  ASSUME NEW m, NEW j \in Job, JobOK(m, j), j.pc = "get",
         NEW r \in Record, MintedFor(m, r.latest.key, j.tenant),
         NEW step \in {"act", "put"}, NEW b \in BOOLEAN
  PROVE  LET k == [j EXCEPT !.pc = step, !.live = b, !.held = r]
         IN  k \in Job /\ JobOK(m, k)
  BY DEF Job, JobOK

(* What get finds, in the cache or in the table, is the tenant's own.       *)
LEMMA GetInv ==
  ASSUME StoreInv, NEW w \in Workers, GetCached(w) \/ GetRow(w)
  PROVE  StoreInv'
  <1> DEFINE t == job[w].tenant
  <1>1. t \in Tenants /\ job[w] \in Job /\ JobOK(minted, job[w]) /\ job[w].pc = "get"
    BY DEF GetCached, GetRow, StoreInv, StateTypeOK, JobOK
  <1>2. CASE GetCached(w)
    <2>1. Mine(w)[t] \in Record /\ MintedFor(minted, Mine(w)[t].latest.key, t)
      BY <1>1, StoreAssumption DEF Mine, StoreInv, StateTypeOK, SubkeyIsOwn, MintedFor
    <2> DEFINE j == [job[w] EXCEPT !.pc = "act", !.live = TRUE, !.held = Mine(w)[t]]
    <2>2. j \in Job /\ JobOK(minted, j)
      BY <1>1, <2>1, HoldingJob
    <2>3. job' = [job EXCEPT ![w] = j]
      BY <1>2 DEF GetCached
    <2> HIDE DEF j
    <2> QED
      BY <1>2, <2>2, <2>3, JobInv DEF GetCached, StoreInv, StateTypeOK
  <1>3. CASE GetRow(w)
    <2> DEFINE step == IF status[t] = "absent" THEN "act" ELSE "put"
               j == [job[w] EXCEPT !.pc = step, !.held = OnRecord(t)]
    <2>1. OnRecord(t) \in Record /\ MintedFor(minted, OnRecord(t).latest.key, t)
      BY <1>1, OnRecordOwn
    <2>2. step \in {"act", "put"}
      OBVIOUS
    <2>3. job' = [job EXCEPT ![w] = j]
      BY <1>3 DEF GetRow
    <2> HIDE DEF step
    <2>4. j \in Job /\ JobOK(minted, j)
      BY <1>1, <2>1, <2>2 DEF Job, JobOK
    <2> HIDE DEF j
    <2> QED
      BY <1>3, <2>3, <2>4, JobInv DEF GetRow, StoreInv, StateTypeOK
  <1> QED
    BY <1>2, <1>3

(* The upsert's load puts a stamp on the key row to be.                     *)
LEMMA LoadInv ==
  ASSUME StoreInv, NEW w \in Workers, Load(w)
  PROVE  StoreInv'
  <1> DEFINE j == [job[w] EXCEPT !.pc = "commit", !.seen = status[job[w].tenant],
                                 !.stamp = stamps + 1]
  <1>1. job[w] \in Job /\ JobOK(minted, job[w]) /\ job[w].pc = "load"
    BY DEF Load, StoreInv, StateTypeOK
  <1>2. stamps' \in 0..MaxWrites /\ stamps' = stamps + 1
    BY StoreAssumption DEF Load, StoreInv, StateTypeOK
  <1>3. status[job[w].tenant] \in Statuses
    BY <1>1 DEF JobOK, StoreInv, StateTypeOK
  <1>4. j \in Job /\ JobOK(minted, j)
    BY <1>1, <1>2, <1>3 DEF Job, JobOK
  <1>5. job' = [job EXCEPT ![w] = j]
    BY DEF Load
  <1> HIDE DEF j
  <1> QED
    BY <1>2, <1>4, <1>5, JobInv DEF Load

(* A refresh that has scanned for each tenant its own.                      *)
LEMMA ScannedJob ==
  ASSUME NEW m, NEW j \in Job, JobOK(m, j), j.pc # "idle",
         NEW s \in [Tenants -> Record], \A t \in Tenants : MintedFor(m, s[t].latest.key, t),
         NEW step \in {"keys", "publish"}
  PROVE  LET k == [j EXCEPT !.pc = step, !.scan = s] IN k \in Job /\ JobOK(m, k)
  BY DEF Job, JobOK

(* The reads of a refresh, of its own or in list.                           *)
LEMMA ScanInv ==
  ASSUME StoreInv, NEW w \in Workers, ScanRows(w) \/ ScanKeys(w) \/ List(w)
  PROVE  StoreInv'
  <1>1. job[w] \in Job /\ JobOK(minted, job[w])
    BY DEF StoreInv, StateTypeOK
  <1>2. CASE ScanRows(w)
    <2> DEFINE s == [t \in Tenants |-> [NoRecord EXCEPT !.status = status[t]]]
               j == [job[w] EXCEPT !.pc = "keys", !.scan = s]
    <2>1. s \in [Tenants -> Record] /\ \A t \in Tenants : s[t].latest.key = 0
      BY BlankJob DEF Record, NoRecord, StoreInv, StateTypeOK
    <2>2. job' = [job EXCEPT ![w] = j]
      BY <1>2 DEF ScanRows
    <2> HIDE DEF s
    <2>3. j \in Job /\ JobOK(minted, j)
      BY <1>1, <1>2, <2>1, ScannedJob DEF ScanRows, MintedFor
    <2> HIDE DEF j
    <2> QED
      BY <1>2, <2>2, <2>3, JobInv DEF ScanRows, StoreInv, StateTypeOK
  <1>3. CASE ScanKeys(w)
    <2> DEFINE s == [t \in Tenants |-> IF job[w].scan[t].status = "absent" THEN NoRecord
                                       ELSE [job[w].scan[t] EXCEPT !.latest = LatestKey(t)]]
               j == [job[w] EXCEPT !.pc = "publish", !.scan = s]
    <2>1. ASSUME NEW t \in Tenants
          PROVE  s[t] \in Record /\ MintedFor(minted, s[t].latest.key, t)
      <3>1. job[w].scan[t] \in Record /\ latest[t] \in KeyRow
        BY <1>1 DEF Job, StoreInv, StateTypeOK
      <3>2. MintedFor(minted, latest[t].key, t)
        BY DEF StoreInv, KeysOnRecord
      <3>3. CASE job[w].scan[t].status = "absent"
        BY <3>3, BlankJob DEF MintedFor
      <3>4. CASE job[w].scan[t].status # "absent"
        BY <3>1, <3>2, <3>4 DEF Record, LatestKey
      <3> QED
        BY <3>3, <3>4
    <2>2. s \in [Tenants -> Record]
      BY <2>1
    <2>3. job' = [job EXCEPT ![w] = j]
      BY <1>3 DEF ScanKeys
    <2> HIDE DEF s
    <2>4. j \in Job /\ JobOK(minted, j)
      BY <1>1, <1>3, <2>1, <2>2, ScannedJob DEF ScanKeys
    <2> HIDE DEF j
    <2> QED
      BY <1>3, <2>3, <2>4, JobInv DEF ScanKeys, StoreInv, StateTypeOK
  <1>4. CASE List(w)
    <2> DEFINE j == [job[w] EXCEPT !.pc = "rows"]
    <2>1. j \in Job /\ JobOK(minted, j)
      BY <1>1, <1>4 DEF List, Job, JobOK
    <2>2. job' = [job EXCEPT ![w] = j]
      BY <1>4 DEF List
    <2> HIDE DEF j
    <2> QED
      BY <1>4, <2>1, <2>2, JobInv DEF List, StoreInv, StateTypeOK
  <1> QED
    BY <1>2, <1>3, <1>4

-----------------------------------------------------------------------------
(* The steps that write.                                                    *)

(* An object that is no longer the cached one is still typed and its        *)
(* holder's own.                                                            *)
LEMMA OrphanJob ==
  ASSUME NEW m, NEW j \in Job, JobOK(m, j)
  PROVE  [j EXCEPT !.live = FALSE] \in Job /\ JobOK(m, [j EXCEPT !.live = FALSE])
  BY DEF Job, JobOK

LEMMA OrphanedOK ==
  ASSUME StoreInv, NEW w \in Workers, NEW gone
  PROVE  /\ Orphaned(w, gone) \in [Workers -> Job]
         /\ \A v \in Workers : JobOK(minted, Orphaned(w, gone)[v])
  BY OrphanJob DEF Orphaned, StoreInv, StateTypeOK

(* A step that replaces cached records by the tenants' own.                 *)
LEMMA CacheInv ==
  ASSUME StoreInv, UNCHANGED <<status, latest, minted, stamps>>,
         job' \in [Workers -> Job], \A v \in Workers : JobOK(minted, job'[v]),
         cache' \in [Procs -> [Tenants -> Record]],
         \A p \in Procs, t \in Tenants : MintedFor(minted, cache'[p][t].latest.key, t)
  PROVE  StoreInv'
  BY DEF StoreInv, StateTypeOK, KeysOnRecord, SubkeyIsOwn, MintedFor

LEMMA PutInv ==
  ASSUME StoreInv, NEW w \in Workers, PutRow(w)
  PROVE  StoreInv'
  <1> DEFINE t == job[w].tenant
             base == Orphaned(w, {t})
             j == [base[w] EXCEPT !.pc = "act", !.live = TRUE]
  <1>1. /\ job[w] \in Job /\ JobOK(minted, job[w]) /\ job[w].kind # "list"
        /\ job[w].held \in Record /\ MintedFor(minted, job[w].held.latest.key, t)
        /\ t \in Tenants /\ Home[w] \in Procs
    BY StoreAssumption DEF PutRow, StoreInv, StateTypeOK, Job, JobOK
  <1>2. base \in [Workers -> Job] /\ \A v \in Workers : JobOK(minted, base[v])
    BY OrphanedOK
  <1>3. base[w].kind # "list"
    BY <1>1 DEF Orphaned, Job
  <1>4. job' = [base EXCEPT ![w] = j]
    BY DEF PutRow
  <1> HIDE DEF base
  <1>5. j \in Job /\ JobOK(minted, j)
    BY <1>2, <1>3 DEF Job, JobOK
  <1> HIDE DEF j
  <1>6. job' \in [Workers -> Job] /\ \A v \in Workers : JobOK(minted, job'[v])
    BY <1>2, <1>4, <1>5
  <1>7. cache' \in [Procs -> [Tenants -> Record]]
    BY <1>1 DEF PutRow, StoreInv, StateTypeOK
  <1>8. \A p \in Procs, u \in Tenants : MintedFor(minted, cache'[p][u].latest.key, u)
    BY <1>1 DEF PutRow, StoreInv, StateTypeOK, SubkeyIsOwn, MintedFor
  <1> QED
    BY <1>6, <1>7, <1>8, CacheInv DEF PutRow

LEMMA PublishInv ==
  ASSUME StoreInv, NEW w \in Workers, Publish(w)
  PROVE  StoreInv'
  <1> DEFINE base == Orphaned(w, Tenants)
             j == [base[w] EXCEPT !.pc = "done"]
  <1>1. base \in [Workers -> Job] /\ \A v \in Workers : JobOK(minted, base[v])
    BY OrphanedOK
  <1>2. base[w].pc # "idle" /\ job[w].scan \in [Tenants -> Record]
    BY DEF Publish, Orphaned, StoreInv, StateTypeOK, Job
  <1>3. job' = [base EXCEPT ![w] = j]
    BY DEF Publish
  <1> HIDE DEF base
  <1>4. j \in Job /\ JobOK(minted, j)
    BY <1>1, <1>2 DEF Job, JobOK
  <1> HIDE DEF j
  <1>5. job' \in [Workers -> Job] /\ \A v \in Workers : JobOK(minted, job'[v])
    BY <1>1, <1>3, <1>4
  <1>6. cache' \in [Procs -> [Tenants -> Record]]
    BY <1>2 DEF Publish, StoreInv, StateTypeOK
  <1>7. \A p \in Procs, t \in Tenants : MintedFor(minted, cache'[p][t].latest.key, t)
    <2>1. \A t \in Tenants : MintedFor(minted, job[w].scan[t].latest.key, t)
      BY DEF StoreInv, JobOK
    <2> QED
      BY <2>1 DEF Publish, StoreInv, StateTypeOK, SubkeyIsOwn, MintedFor
  <1> QED
    BY <1>5, <1>6, <1>7, CacheInv DEF Publish

(* A process that restarts has no request left and caches what is on record.*)
LEMMA RestartInv ==
  ASSUME StoreInv, NEW p \in Procs, Restart(p)
  PROVE  StoreInv'
  <1> DEFINE filled == [t \in Tenants |-> OnRecord(t)]
  <1>1. filled \in [Tenants -> Record]
    BY OnRecordOwn
  <1>2. \A t \in Tenants : MintedFor(minted, filled[t].latest.key, t)
    BY OnRecordOwn
  <1>3. cache' = [cache EXCEPT ![p] = filled]
    BY DEF Restart
  <1> HIDE DEF filled
  <1>4. job' \in [Workers -> Job] /\ \A v \in Workers : JobOK(minted, job'[v])
    BY BlankJob DEF Restart, StoreInv, StateTypeOK
  <1>5. cache' \in [Procs -> [Tenants -> Record]]
    BY <1>1, <1>3 DEF StoreInv, StateTypeOK
  <1>6. \A q \in Procs, t \in Tenants : MintedFor(minted, cache'[q][t].latest.key, t)
    BY <1>2, <1>3 DEF StoreInv, StateTypeOK, SubkeyIsOwn, MintedFor
  <1> QED
    BY <1>4, <1>5, <1>6, CacheInv DEF Restart

(* The object a revocation marks keeps its key, in the cache and out of it. *)
LEMMA RevokeInv ==
  ASSUME StoreInv, NEW w \in Workers, Revoke(w)
  PROVE  StoreInv'
  <1> DEFINE t == job[w].tenant
             j == [job[w] EXCEPT !.pc = "load", !.key = job[w].held.latest.key]
  <1>1. /\ job[w] \in Job /\ JobOK(minted, job[w]) /\ job[w].pc = "act"
        /\ t \in Tenants /\ Home[w] \in Procs /\ job[w].held.latest.key \in KeyIds
    BY StoreAssumption DEF Revoke, StoreInv, StateTypeOK, Job, JobOK, Record, KeyRow
  <1>2. j \in Job /\ JobOK(minted, j)
    BY <1>1 DEF Job, JobOK
  <1>3. job' = [job EXCEPT ![w] = j]
    BY DEF Revoke
  <1> HIDE DEF j
  <1>4. job' \in [Workers -> Job] /\ \A v \in Workers : JobOK(minted, job'[v])
    BY <1>2, <1>3 DEF StoreInv, StateTypeOK
  <1> DEFINE old == cache[Home[w]][t]
             r == [old EXCEPT !.status = "revoked"]
  <1>5. cache' = cache \/ cache' = [cache EXCEPT ![Home[w]][t] = r]
    BY DEF Revoke
  <1>6. r \in Record /\ r.latest = old.latest
    <2>1. old \in Record
      BY <1>1 DEF StoreInv, StateTypeOK
    <2> HIDE DEF old
    <2> QED
      BY <2>1 DEF Record, Statuses
  <1> HIDE DEF r, t
  <1>7. cache' \in [Procs -> [Tenants -> Record]]
    <2>1. cache \in [Procs -> [Tenants -> Record]] /\ r \in Record
      BY <1>6 DEF StoreInv, StateTypeOK
    <2>2. t \in Tenants /\ Home[w] \in Procs
      BY <1>1
    <2> HIDE DEF old
    <2>3. [cache EXCEPT ![Home[w]][t] = r] \in [Procs -> [Tenants -> Record]]
      BY <2>1, <2>2
    <2> QED
      BY <1>5, <2>1, <2>3
  <1>8. ASSUME NEW p \in Procs, NEW u \in Tenants
        PROVE  cache'[p][u].latest = cache[p][u].latest
    <2>1. cache \in [Procs -> [Tenants -> Record]]
      BY DEF StoreInv, StateTypeOK
    <2>2. cache'[p][u] = cache[p][u] \/ (p = Home[w] /\ u = t /\ cache'[p][u] = r)
      BY <1>1, <1>5, <2>1
    <2> QED
      BY <1>6, <2>2
  <1>9. \A p \in Procs, u \in Tenants : MintedFor(minted, cache'[p][u].latest.key, u)
    BY <1>8 DEF StoreInv, SubkeyIsOwn, MintedFor
  <1> QED
    BY <1>4, <1>7, <1>9, CacheInv DEF Revoke

(* A key minted takes no key from its owner.                                *)
LEMMA AppendKeeps ==
  ASSUME NEW m \in Seq(Tenants), NEW u \in Tenants
  PROVE  /\ \A k, t : MintedFor(m, k, t) => MintedFor(Append(m, u), k, t)
         /\ \A j : JobOK(m, j) => JobOK(Append(m, u), j)
         /\ MintedFor(Append(m, u), Len(m) + 1, u)
  <1>1. \A k, t : MintedFor(m, k, t) => MintedFor(Append(m, u), k, t)
    BY DEF MintedFor
  <1>2. MintedFor(Append(m, u), Len(m) + 1, u)
    BY DEF MintedFor
  <1> QED
    BY <1>1, <1>2 DEF JobOK

LEMMA MintInv ==
  ASSUME StoreInv, NEW w \in Workers, Mint(w)
  PROVE  StoreInv'
  <1>1. CASE Finish(w) /\ UNCHANGED minted
    BY <1>1, FinishInv DEF Mint
  <1>2. CASE ~(Finish(w) /\ UNCHANGED minted)
    <2> DEFINE t == job[w].tenant
               k == Len(minted) + 1
               j == [job[w] EXCEPT !.pc = "load", !.key = k]
    <2>1. /\ job[w] \in Job /\ JobOK(minted, job[w]) /\ job[w].kind # "list"
          /\ job[w].pc = "act" /\ t \in Tenants /\ minted \in Seq(Tenants)
      BY DEF Mint, StoreInv, StateTypeOK, JobOK
    <2>2. /\ Len(minted) < MaxKeys /\ minted' = Append(minted, t)
          /\ job' = [job EXCEPT ![w] = j]
      BY <1>2 DEF Mint
    <2>3. k \in KeyIds /\ Len(minted') = k
      BY <2>1, <2>2, StoreAssumption DEF KeyIds
    <2>4. MintedFor(minted', k, t) /\ JobOK(minted', job[w])
      BY <2>1, <2>2, AppendKeeps
    <2>5. minted' \in Seq(Tenants) /\ Len(minted') \in KeyIds
      BY <2>1, <2>2, <2>3
    <2> HIDE DEF k
    <2>6. j \in Job /\ JobOK(minted', j)
      BY <2>1, <2>3, <2>4 DEF Job, JobOK
    <2> HIDE DEF j
    <2>7. \A v \in Workers : JobOK(minted, job[v]) => JobOK(minted', job[v])
      BY <2>1, <2>2, AppendKeeps
    <2>8. job' \in [Workers -> Job] /\ \A v \in Workers : JobOK(minted', job'[v])
      BY <2>2, <2>6, <2>7 DEF StoreInv, StateTypeOK
    <2>9. \A x, u : MintedFor(minted, x, u) => MintedFor(minted', x, u)
      BY <2>1, <2>2, AppendKeeps
    <2>10. KeysOnRecord'
      BY <2>9 DEF Mint, StoreInv, KeysOnRecord
    <2>11. SubkeyIsOwn'
      BY <2>9 DEF Mint, StoreInv, SubkeyIsOwn, MintedFor
    <2>12. StateTypeOK'
      BY <2>5, <2>8 DEF Mint, StoreInv, StateTypeOK
    <2> QED
      BY <2>8, <2>10, <2>11, <2>12 DEF StoreInv
  <1> QED
    BY <1>1, <1>2

(* The key row a commit inserts carries a key of its tenant.                *)
LEMMA CommitInv ==
  ASSUME StoreInv, NEW w \in Workers, Commit(w)
  PROVE  StoreInv'
  <1> DEFINE t == job[w].tenant
             j == [job[w] EXCEPT !.pc = "rows"]
             row == NewRow(job[w])
  <1>1. /\ job[w] \in Job /\ JobOK(minted, job[w]) /\ job[w].pc = "commit"
        /\ t \in Tenants /\ row \in KeyRow /\ MintedFor(minted, row.key, t)
    BY DEF Commit, NewRow, StoreInv, StateTypeOK, Job, JobOK, KeyRow
  <1>2. j \in Job /\ JobOK(minted, j)
    BY <1>1 DEF Job, JobOK
  <1>3. job' = [job EXCEPT ![w] = j]
    BY DEF Commit, Goto
  <1>4. latest' = latest \/ latest' = [latest EXCEPT ![t] = row]
    BY DEF Commit
  <1>5. status' \in [Tenants -> Statuses]
    BY DEF Commit, NewStatus, StoreInv, StateTypeOK, Statuses
  <1> HIDE DEF j, row
  <1>6. job' \in [Workers -> Job] /\ \A v \in Workers : JobOK(minted, job'[v])
    BY <1>2, <1>3 DEF StoreInv, StateTypeOK
  <1>7. latest' \in [Tenants -> KeyRow]
    BY <1>1, <1>4 DEF StoreInv, StateTypeOK
  <1>8. \A u \in Tenants : MintedFor(minted, latest'[u].key, u)
    BY <1>1, <1>4 DEF StoreInv, StateTypeOK, KeysOnRecord
  <1> QED
    BY <1>5, <1>6, <1>7, <1>8 DEF Commit, StoreInv, StateTypeOK, KeysOnRecord, SubkeyIsOwn

-----------------------------------------------------------------------------
(* The theorems.                                                            *)

(* Every step of a request, every restart keeps keys with their tenants.    *)
THEOREM StoreStepInv == StoreInv /\ [Next]_vars => StoreInv'
  <1> SUFFICES ASSUME StoreInv, [Step]_state PROVE StoreInv'
    BY DEF Next, vars
  <1>1. CASE UNCHANGED state
    BY <1>1 DEF state, StoreInv, StateTypeOK, KeysOnRecord, SubkeyIsOwn
  <1>2. ASSUME NEW p \in Procs, Restart(p) PROVE StoreInv'
    BY <1>2, RestartInv
  <1>3. ASSUME NEW w \in Workers, Handle(w) PROVE StoreInv'
    <2>1. ASSUME NEW kind \in Kinds \ {"list"}, NEW t \in Tenants, Request(w, kind, t)
          PROVE  StoreInv'
      BY <2>1, RequestInv
    <2>2. CASE GetCached(w) \/ GetRow(w)
      BY <2>2, GetInv
    <2>3. CASE PutRow(w)
      BY <2>3, PutInv
    <2>4. CASE Mint(w)
      BY <2>4, MintInv
    <2>5. CASE Revoke(w)
      BY <2>5, RevokeInv
    <2>6. CASE Load(w)
      BY <2>6, LoadInv
    <2>7. CASE Commit(w)
      BY <2>7, CommitInv
    <2>8. CASE ScanRows(w) \/ ScanKeys(w) \/ List(w)
      BY <2>8, ScanInv
    <2>9. CASE Publish(w)
      BY <2>9, PublishInv
    <2>10. CASE Answer(w) \/ CommitClashes(w) \/ Done(w) \/ DatabaseFails(w)
      BY <2>10, FinishInv DEF Answer, CommitClashes, Done, DatabaseFails
    <2> QED
      BY <1>3, <2>1, <2>2, <2>3, <2>4, <2>5, <2>6, <2>7, <2>8, <2>9, <2>10
         DEF Handle, Upsert, Refresh
  <1> QED
    BY <1>1, <1>2, <1>3 DEF Step

(* StoreInv holds throughout.                                               *)
THEOREM StoreInvariant == Spec => []StoreInv
  <1> QED
    BY StoreInitInv, StoreStepInv, PTL DEF Spec

(* The history keeps its types.                                             *)
LEMMA HistoryTypes ==
  ASSUME StoreInv', StoreTypeOK, [Next]_vars
  PROVE  StoreTypeOK'
  <1>1. written' \in [Tenants -> SUBSET KeyRow] /\ crowded' \subseteq Procs
    <2>1. CASE UNCHANGED vars
      BY <2>1 DEF vars, StoreTypeOK
    <2>2. CASE Next
      <3>1. \A t \in Tenants : written[t] \cup ({latest'[t]} \ {NoKey}) \subseteq KeyRow
        BY DEF StoreInv, StateTypeOK, StoreTypeOK
      <3> QED
        BY <2>2, <3>1 DEF Next, History
    <2> QED
      BY <2>1, <2>2
  <1> QED
    BY <1>1 DEF StoreInv, StoreTypeOK

(* The type invariant of the store.                                         *)
THEOREM StoreTypes == Spec => []StoreTypeOK
  <1>1. Init => StoreTypeOK
    BY StoreInitInv DEF Init, StoreInv, StoreTypeOK
  <1>2. StoreInv' /\ StoreTypeOK /\ [Next]_vars => StoreTypeOK'
    BY HistoryTypes
  <1> QED
    BY <1>1, <1>2, StoreInvariant, PTL DEF Spec

(* A subkey authorises no tenant but the one it was minted for              *)
(* (SubkeyIsOwn), however many processes, threads and tenants race.         *)
THEOREM SubkeysAreOwn == Spec => []SubkeyIsOwn
  <1>1. StoreInv => SubkeyIsOwn
    BY DEF StoreInv
  <1> QED
    BY <1>1, StoreInvariant, PTL

-----------------------------------------------------------------------------
(* Freshness.                                                               *)

(* Stamps on record are above those any process serves.                     *)
RecordOK ==
    /\ \A t \in Tenants : status[t] = "absent" => latest[t].stamp = 0
    /\ \A p \in Procs, t \in Tenants :
         /\ cache[p][t].latest.stamp <= latest[t].stamp
         /\ cache[p][t].status = "absent" => cache[p][t].latest.stamp = 0

(* The row is on record when a commit need not insert it, and so is what    *)
(* the commit wrote, or newer, while it refreshes.                          *)
UpsertOK(w) ==
    LET t == job[w].tenant IN
    /\ job[w].pc = "put" =>
         /\ job[w].held.latest.stamp <= latest[t].stamp
         /\ job[w].held.status # "absent"
    /\ job[w].pc = "commit" /\ job[w].seen # "absent" => status[t] # "absent"
    /\ job[w].pc \in {"rows", "keys", "publish"} /\ job[w].kind # "list" =>
         status[t] # "absent" /\ job[w].stamp <= latest[t].stamp

(* A refresh misses no tenant written before it, and has read keys that are *)
(* on record, of the tenant written none older.                             *)
RefreshOK(w) ==
    LET j == job[w] IN
    /\ j.pc = "keys" => \A t \in Tenants :
         j.scan[t].status = "absent" /\ j.kind # "list" => t # j.tenant
    /\ j.pc = "publish" => \A t \in Tenants :
         /\ j.scan[t].latest.stamp <= latest[t].stamp
         /\ j.scan[t].status = "absent" => j.scan[t].latest.stamp = 0
         /\ j.kind # "list" /\ t = j.tenant => j.stamp <= j.scan[t].latest.stamp

(* What a request may count on of its process's cache while no other request*)
(* of the process is in progress.                                           *)
Settled(w) ==
    LET j == job[w] IN
    /\ j.pc = "put" => Mine(w)[j.tenant].latest.stamp = 0
    /\ j.pc = "keys" => \A t \in Tenants :
         j.scan[t].status = "absent" => Mine(w)[t].latest.stamp = 0
    /\ j.pc = "publish" => \A t \in Tenants :
         Mine(w)[t].latest.stamp <= j.scan[t].latest.stamp
    /\ j.pc = "done" /\ j.kind # "list" => j.stamp <= Mine(w)[j.tenant].latest.stamp

AloneOK(w) == Home[w] \notin crowded => Settled(w)

FreshInv == RecordOK /\ \A w \in Workers : UpsertOK(w) /\ RefreshOK(w) /\ AloneOK(w)

Forward ==
    \A p \in Procs \ crowded, t \in Tenants :
        cache[p][t].latest.stamp <= cache'[p][t].latest.stamp

(* A request as it was, or but for the object it holds.                     *)
SameWork(v) == job'[v] = job[v] \/ job'[v] = [job[v] EXCEPT !.live = FALSE]

(* Rows stay on record, and their latest keys get no older.                 *)
Grows ==
    \A t \in Tenants :
        /\ status[t] # "absent" => status'[t] # "absent"
        /\ latest[t].stamp <= latest'[t].stamp

(* An empty store is as fresh as can be.                                    *)
LEMMA FreshInit == Init => FreshInv
  <1> SUFFICES ASSUME Init PROVE FreshInv
    OBVIOUS
  <1>1. RecordOK
    BY DEF Init, RecordOK, NoRecord, NoKey
  <1>2. \A w \in Workers : UpsertOK(w) /\ RefreshOK(w) /\ AloneOK(w)
    BY DEF Init, UpsertOK, RefreshOK, AloneOK, Settled, Blank
  <1> QED
    BY <1>1, <1>2 DEF FreshInv

(* Stamps are numbers.                                                      *)
LEMMA Stamps ==
  ASSUME StoreInv
  PROVE  /\ \A t \in Tenants : latest[t].stamp \in Nat
         /\ \A p \in Procs, t \in Tenants : cache[p][t] \in Record /\ cache[p][t].latest.stamp \in Nat
         /\ \A w \in Workers : job[w] \in Job /\ job[w].stamp \in Nat
                               /\ job[w].held.latest.stamp \in Nat
         /\ \A w \in Workers, t \in Tenants : job[w].scan[t].latest.stamp \in Nat
  <1>1. \A r \in KeyRow : r.stamp \in Nat
    BY StoreAssumption DEF KeyRow
  <1>2. \A r \in Record : r.latest \in KeyRow
    BY DEF Record
  <1>3. \A j \in Job : j.stamp \in Nat /\ j.held \in Record /\ j.scan \in [Tenants -> Record]
    BY StoreAssumption DEF Job
  <1> QED
    BY <1>1, <1>2, <1>3 DEF StoreInv, StateTypeOK

(* A request that is not the one that steps.                                *)
LEMMA OthersFresh ==
  ASSUME StoreInv, Grows, NEW v \in Workers, UpsertOK(v), RefreshOK(v),
         StoreInv', SameWork(v)
  PROVE  UpsertOK(v)' /\ RefreshOK(v)'
  <1>1. /\ job[v] \in Job /\ JobOK(minted, job[v])
        /\ job[v].stamp \in Nat /\ job[v].held.latest.stamp \in Nat
        /\ \A t \in Tenants : job[v].scan[t].latest.stamp \in Nat
        /\ \A t \in Tenants : latest[t].stamp \in Nat
        /\ \A t \in Tenants : latest'[t].stamp \in Nat
    <2>1. \A t \in Tenants : latest'[t].stamp \in Nat
      BY StoreAssumption DEF StoreInv, StateTypeOK, KeyRow
    <2> QED
      BY <2>1, Stamps DEF StoreInv
  <1> DEFINE j == job[v]
             k == job'[v]
  <1>2. /\ k.pc = j.pc /\ k.kind = j.kind /\ k.tenant = j.tenant /\ k.held = j.held
        /\ k.seen = j.seen /\ k.stamp = j.stamp /\ k.scan = j.scan
    BY <1>1 DEF SameWork, Job
  <1>3. UpsertOK(v)'
    <2>1. j.pc \in {"put", "commit"} \/ j.kind # "list" => j.tenant \in Tenants
      BY <1>1 DEF JobOK
    <2> HIDE DEF j, k
    <2>2. /\ k.pc = "put" =>
               /\ k.held.latest.stamp <= latest'[k.tenant].stamp
               /\ k.held.status # "absent"
          /\ k.pc = "commit" /\ k.seen # "absent" => status'[k.tenant] # "absent"
          /\ k.pc \in {"rows", "keys", "publish"} /\ k.kind # "list" =>
               status'[k.tenant] # "absent" /\ k.stamp <= latest'[k.tenant].stamp
      <3>1. j.held.latest.stamp \in Nat /\ j.stamp \in Nat
        BY <1>1 DEF j
      <3>2. /\ j.pc = "put" =>
                 /\ j.held.latest.stamp <= latest[j.tenant].stamp
                 /\ j.held.status # "absent"
            /\ j.pc = "commit" /\ j.seen # "absent" => status[j.tenant] # "absent"
            /\ j.pc \in {"rows", "keys", "publish"} /\ j.kind # "list" =>
                 status[j.tenant] # "absent" /\ j.stamp <= latest[j.tenant].stamp
        BY DEF UpsertOK, j
      <3> QED
        BY <1>1, <1>2, <2>1, <3>1, <3>2 DEF Grows
    <2> QED
      BY <2>2 DEF UpsertOK, k
  <1>4. RefreshOK(v)'
    BY <1>1, <1>2 DEF RefreshOK, Grows
  <1> QED
    BY <1>3, <1>4

(* What it counts on of the cache stays, or another request of its process  *)
(* is in progress.                                                          *)
LEMMA OthersAlone ==
  ASSUME StoreInv, StoreInv', NEW v \in Workers, SameWork(v), AloneOK(v), History,
         \/ cache'[Home[v]] = cache[Home[v]]
         \/ \E w \in Workers \ {v} : Home[v] = Home[w] /\ job'[w].pc # "idle"
  PROVE  AloneOK(v)'
  <1> SUFFICES ASSUME Home[v] \notin crowded' PROVE Settled(v)'
    BY DEF AloneOK
  <1>1. job[v] \in Job /\ Home[v] \in Procs
    BY StoreAssumption DEF StoreInv, StateTypeOK
  <1>2. /\ job'[v].pc = job[v].pc /\ job'[v].kind = job[v].kind
        /\ job'[v].tenant = job[v].tenant /\ job'[v].stamp = job[v].stamp
        /\ job'[v].scan = job[v].scan
    BY <1>1 DEF SameWork, Job
  <1>3. CASE job[v].pc = "idle"
    BY <1>2, <1>3 DEF Settled
  <1>4. CASE job[v].pc # "idle"
    <2>1. v \in Busy(Home[v])'
      BY <1>2, <1>4 DEF Busy
    <2>2. Home[v] \notin crowded /\ \A u \in Busy(Home[v])' : u = v
      BY <1>1, <2>1 DEF History
    <2>3. ~\E w \in Workers \ {v} : Home[v] = Home[w] /\ job'[w].pc # "idle"
      BY <2>2 DEF Busy
    <2>4. Mine(v)' = Mine(v)
      BY <2>3 DEF Mine
    <2> QED
      BY <1>2, <2>2, <2>4 DEF AloneOK, Settled
  <1> QED
    BY <1>3, <1>4

(* A step of one request.                                                   *)
LEMMA StepFresh ==
  ASSUME StoreInv, FreshInv, StoreInv', History, NEW w \in Workers, Grows, RecordOK',
         \A v \in Workers \ {w} : SameWork(v),
         \A p \in Procs : p # Home[w] => cache'[p] = cache[p],
         cache' = cache \/ job'[w].pc # "idle",
         UpsertOK(w)', RefreshOK(w)',
         Home[w] \notin crowded =>
             /\ Settled(w)'
             /\ \A t \in Tenants :
                    cache[Home[w]][t].latest.stamp <= cache'[Home[w]][t].latest.stamp
  PROVE  FreshInv' /\ Forward
  <1>1. \A v \in Workers \ {w} : UpsertOK(v)' /\ RefreshOK(v)'
    BY OthersFresh DEF FreshInv
  <1>2. ASSUME NEW v \in Workers \ {w} PROVE AloneOK(v)'
    <2>1. cache'[Home[v]] = cache[Home[v]] \/ (Home[v] = Home[w] /\ job'[w].pc # "idle")
      BY StoreAssumption
    <2> QED
      BY <2>1, OthersAlone DEF FreshInv
  <1>3. AloneOK(w)'
    <2>1. CASE Home[w] \notin crowded
      BY <2>1 DEF AloneOK
    <2>2. CASE Home[w] \in crowded /\ job'[w].pc # "idle"
      <3>1. w \in Busy(Home[w])' /\ Home[w] \in Procs
        BY <2>2, StoreAssumption DEF Busy
      <3>2. Home[w] \in crowded'
        BY <2>2, <3>1 DEF History
      <3> QED
        BY <3>2 DEF AloneOK
    <2>3. CASE job'[w].pc = "idle"
      BY <2>3 DEF AloneOK, Settled
    <2> QED
      BY <2>1, <2>2, <2>3
  <1>4. Forward
    <2> SUFFICES ASSUME NEW p \in Procs \ crowded, NEW t \in Tenants
                 PROVE  cache[p][t].latest.stamp <= cache'[p][t].latest.stamp
      BY DEF Forward
    <2>1. CASE p = Home[w]
      BY <2>1
    <2>2. CASE p # Home[w]
      BY <2>2, Stamps
    <2> QED
      BY <2>1, <2>2
  <1> QED
    BY <1>1, <1>2, <1>3, <1>4 DEF FreshInv

(* A step of one thread that leaves the record and the caches alone.        *)
LEMMA QuietFresh ==
  ASSUME StoreInv, FreshInv, NEW w \in Workers, StoreInv', History,
         UNCHANGED <<status, latest, cache>>,
         \A v \in Workers \ {w} : job'[v] = job[v],
         UpsertOK(w)', RefreshOK(w)', Home[w] \notin crowded => Settled(w)'
  PROVE  FreshInv' /\ Forward
  <1>1. Grows
    BY Stamps DEF Grows
  <1>2. RecordOK'
    BY DEF FreshInv, RecordOK
  <1>3. \A t \in Tenants : cache[Home[w]][t].latest.stamp <= cache'[Home[w]][t].latest.stamp
    BY Stamps, StoreAssumption
  <1>4. \A v \in Workers \ {w} : SameWork(v)
    BY DEF SameWork
  <1> QED
    BY <1>1, <1>2, <1>3, <1>4, StepFresh

(* A request that starts, ends or waits for Venice promises nothing.        *)
LEMMA WaitFresh ==
  ASSUME StoreInv, FreshInv, NEW w \in Workers, StoreInv', History,
         UNCHANGED <<status, latest, cache>>,
         \A v \in Workers \ {w} : job'[v] = job[v],
         job'[w].pc \in {"idle", "get", "act", "load"}
  PROVE  FreshInv' /\ Forward
  <1>1. UpsertOK(w)' /\ RefreshOK(w)' /\ Settled(w)'
    BY DEF UpsertOK, RefreshOK, Settled
  <1> QED
    BY <1>1, QuietFresh

(* The steps after which a request waits.                                   *)
LEMMA WaitingFresh ==
  ASSUME StoreInv, FreshInv, StoreInv', History, NEW w \in Workers,
         \/ \E kind \in Kinds \ {"list"}, t \in Tenants : Request(w, kind, t)
         \/ GetCached(w) \/ Answer(w) \/ Mint(w)
         \/ CommitClashes(w) \/ Done(w) \/ DatabaseFails(w)
  PROVE  FreshInv' /\ Forward
  <1>1. job \in [Workers -> Job] /\ job[w] \in Job
    BY DEF StoreInv, StateTypeOK
  <1>2. Blank.pc = "idle"
    BY DEF Blank
  <1>3. CASE \E kind \in Kinds \ {"list"}, t \in Tenants : Request(w, kind, t)
    <2>1. PICK kind \in Kinds \ {"list"}, t \in Tenants : Request(w, kind, t)
      BY <1>3
    <2> DEFINE j == [Blank EXCEPT !.pc = "get", !.kind = kind, !.tenant = t]
    <2>2. j.pc = "get"
      BY DEF Blank
    <2>3. job' = [job EXCEPT ![w] = j]
      BY <2>1 DEF Request
    <2> HIDE DEF j
    <2> QED
      BY <1>1, <2>1, <2>2, <2>3, WaitFresh DEF Request
  <1>4. CASE GetCached(w)
    <2> DEFINE j == [job[w] EXCEPT !.pc = "act", !.live = TRUE, !.held = Mine(w)[job[w].tenant]]
    <2>1. j.pc = "act"
      BY <1>1 DEF Job
    <2>2. job' = [job EXCEPT ![w] = j]
      BY <1>4 DEF GetCached
    <2> HIDE DEF j
    <2> QED
      BY <1>1, <1>4, <2>1, <2>2, WaitFresh DEF GetCached
  <1>5. CASE Mint(w) /\ ~Finish(w)
    <2> DEFINE j == [job[w] EXCEPT !.pc = "load", !.key = Len(minted) + 1]
    <2>1. j.pc = "load"
      BY <1>1 DEF Job
    <2>2. job' = [job EXCEPT ![w] = j]
      BY <1>5 DEF Mint
    <2> HIDE DEF j
    <2> QED
      BY <1>1, <1>5, <2>1, <2>2, WaitFresh DEF Mint
  <1>6. CASE Finish(w) /\ UNCHANGED <<status, latest, cache>>
    BY <1>1, <1>2, <1>6, WaitFresh DEF Finish
  <1> QED
    BY <1>3, <1>4, <1>5, <1>6 DEF Answer, Mint, CommitClashes, Done, DatabaseFails

(* A row is read only for a tenant the process serves no key of.            *)
LEMMA GetRowFresh ==
  ASSUME StoreInv, FreshInv, StoreInv', History, NEW w \in Workers, GetRow(w)
  PROVE  FreshInv' /\ Forward
  <1> DEFINE t == job[w].tenant
             step == IF status[t] = "absent" THEN "act" ELSE "put"
             j == [job[w] EXCEPT !.pc = step, !.held = OnRecord(t)]
  <1>1. /\ job \in [Workers -> Job] /\ job[w] \in Job
        /\ t \in Tenants /\ Home[w] \in Procs
    BY StoreAssumption DEF GetRow, StoreInv, StateTypeOK, JobOK
  <1>2. job' = [job EXCEPT ![w] = j]
    BY DEF GetRow
  <1>3. j.pc = step /\ j.held = OnRecord(t) /\ j.tenant = t
    BY <1>1 DEF Job
  <1>4. CASE status[t] = "absent"
    <2>1. j.pc = "act"
      BY <1>3, <1>4
    <2> HIDE DEF j
    <2> QED
      BY <1>1, <1>2, <2>1, WaitFresh DEF GetRow
  <1>5. CASE status[t] # "absent"
    <2>1. j.pc = "put"
      BY <1>3, <1>5
    <2>2. OnRecord(t).latest = latest[t] /\ OnRecord(t).status = status[t]
      BY <1>5 DEF OnRecord
    <2>3. Mine(w)[t].latest.stamp = 0
      BY <1>1 DEF GetRow, FreshInv, RecordOK, Mine
    <2>4. latest[t].stamp \in Nat
      BY <1>1, Stamps
    <2> HIDE DEF j
    <2>5. /\ job'[w].pc = "put" /\ job'[w].held = OnRecord(t) /\ job'[w].tenant = t
          /\ Mine(w)' = Mine(w) /\ latest' = latest /\ status' = status
      BY <1>1, <1>2, <1>3, <2>1 DEF GetRow, Mine
    <2>6. UpsertOK(w)' /\ RefreshOK(w)' /\ Settled(w)'
      BY <1>5, <2>2, <2>3, <2>4, <2>5 DEF UpsertOK, RefreshOK, Settled
    <2> QED
      BY <1>1, <1>2, <2>6, QuietFresh DEF GetRow
  <1> QED
    BY <1>4, <1>5

(* A status loaded as present is still present at the commit.               *)
LEMMA LoadFresh ==
  ASSUME StoreInv, FreshInv, StoreInv', History, NEW w \in Workers, Load(w)
  PROVE  FreshInv' /\ Forward
  <1> DEFINE j == [job[w] EXCEPT !.pc = "commit", !.seen = status[job[w].tenant],
                                 !.stamp = stamps + 1]
  <1>1. job \in [Workers -> Job] /\ job[w] \in Job
    BY DEF StoreInv, StateTypeOK
  <1>2. job' = [job EXCEPT ![w] = j]
    BY DEF Load
  <1>3. j.pc = "commit" /\ j.seen = status[j.tenant]
    BY <1>1 DEF Job
  <1> HIDE DEF j
  <1>4. UpsertOK(w)' /\ RefreshOK(w)' /\ Settled(w)'
    BY <1>1, <1>2, <1>3 DEF Load, UpsertOK, RefreshOK, Settled
  <1> QED
    BY <1>1, <1>2, <1>4, QuietFresh DEF Load

(* A refresh starts, alone or after a commit, and reads what is on record.  *)
LEMMA ScanFresh ==
  ASSUME StoreInv, FreshInv, StoreInv', History, NEW w \in Workers, List(w) \/ ScanRows(w) \/ ScanKeys(w)
  PROVE  FreshInv' /\ Forward
  <1>1. /\ job \in [Workers -> Job] /\ job[w] \in Job /\ JobOK(minted, job[w])
        /\ Home[w] \in Procs /\ UpsertOK(w) /\ RefreshOK(w) /\ AloneOK(w) /\ RecordOK
    BY StoreAssumption DEF StoreInv, StateTypeOK, FreshInv
  <1>2. /\ Mine(w)' = Mine(w) /\ latest' = latest /\ status' = status
        /\ \A v \in Workers \ {w} : job'[v] = job[v]
    BY <1>1 DEF List, ScanRows, ScanKeys, Mine
  <1>3. UpsertOK(w)' /\ RefreshOK(w)' /\ (Home[w] \notin crowded => Settled(w)')
    <2>1. CASE List(w)
      <3> DEFINE j == [job[w] EXCEPT !.pc = "rows"]
      <3>1. j.pc = "rows" /\ j.kind = "list"
        BY <1>1, <2>1 DEF List, Job, JobOK
      <3>2. job' = [job EXCEPT ![w] = j]
        BY <2>1 DEF List
      <3> HIDE DEF j
      <3> QED
        BY <1>1, <3>1, <3>2 DEF UpsertOK, RefreshOK, Settled
    <2>2. CASE ScanRows(w)
      <3> DEFINE s == [t \in Tenants |-> [NoRecord EXCEPT !.status = status[t]]]
                 j == [job[w] EXCEPT !.pc = "keys", !.scan = s]
      <3>1. \A t \in Tenants : s[t].status = status[t]
        BY DEF NoRecord
      <3>2. job' = [job EXCEPT ![w] = j]
        BY <2>2 DEF ScanRows
      <3> HIDE DEF s
      <3>3. /\ j.pc = "keys" /\ j.scan = s /\ j.kind = job[w].kind
            /\ j.tenant = job[w].tenant /\ j.stamp = job[w].stamp
        BY <1>1 DEF Job
      <3> HIDE DEF j
      <3>4. job'[w] = j /\ job[w].pc = "rows"
        BY <1>1, <2>2, <3>2 DEF ScanRows
      <3>5. UpsertOK(w)'
        BY <1>1, <1>2, <3>3, <3>4 DEF UpsertOK
      <3>6. ASSUME NEW t \in Tenants, status[t] = "absent"
            PROVE  Mine(w)[t].latest.stamp = 0
        <4>1. latest[t].stamp = 0 /\ cache[Home[w]][t].latest.stamp <= latest[t].stamp
          BY <1>1, <3>6 DEF RecordOK
        <4>2. cache[Home[w]][t].latest.stamp \in Nat
          BY <1>1, Stamps
        <4> QED
          BY <4>1, <4>2 DEF Mine
      <3>7. RefreshOK(w)' /\ Settled(w)'
        BY <1>1, <1>2, <3>1, <3>3, <3>4, <3>6 DEF RefreshOK, UpsertOK, Settled
      <3> QED
        BY <3>5, <3>7
    <2>3. CASE ScanKeys(w)
      <3> DEFINE s == [t \in Tenants |-> IF job[w].scan[t].status = "absent" THEN NoRecord
                                         ELSE [job[w].scan[t] EXCEPT !.latest = LatestKey(t)]]
                 j == [job[w] EXCEPT !.pc = "publish", !.scan = s]
      <3>1. ASSUME NEW t \in Tenants
            PROVE  /\ job[w].scan[t].status = "absent" =>
                        s[t].status = "absent" /\ s[t].latest.stamp = 0
                   /\ job[w].scan[t].status # "absent" =>
                        s[t].status # "absent" /\ s[t].latest = latest[t]
        <4>1. job[w].scan[t] \in Record
          BY <1>1 DEF Job
        <4> QED
          BY <4>1 DEF Record, LatestKey, NoRecord, NoKey
      <3>2. job' = [job EXCEPT ![w] = j]
        BY <2>3 DEF ScanKeys
      <3> HIDE DEF s
      <3>3. /\ j.pc = "publish" /\ j.scan = s /\ j.kind = job[w].kind
            /\ j.tenant = job[w].tenant /\ j.stamp = job[w].stamp
        BY <1>1 DEF Job
      <3> HIDE DEF j
      <3>4. job'[w] = j /\ job[w].pc = "keys"
        BY <1>1, <2>3, <3>2 DEF ScanKeys
      <3>5. UpsertOK(w)'
        BY <1>1, <1>2, <3>3, <3>4 DEF UpsertOK
      <3>6. ASSUME NEW t \in Tenants
            PROVE  /\ Home[w] \notin crowded => Mine(w)[t].latest.stamp <= s[t].latest.stamp
                   /\ s[t].latest.stamp <= latest[t].stamp
                   /\ s[t].status = "absent" => s[t].latest.stamp = 0
                   /\ j.kind # "list" /\ t = j.tenant => j.stamp <= s[t].latest.stamp
        <4>1. /\ cache[Home[w]][t].latest.stamp \in Nat /\ latest[t].stamp \in Nat
              /\ cache[Home[w]][t].latest.stamp <= latest[t].stamp
          BY <1>1, Stamps DEF RecordOK
        <4>2. CASE job[w].scan[t].status = "absent"
          BY <1>1, <3>1, <3>3, <3>4, <4>1, <4>2 DEF RefreshOK, AloneOK, Settled, Mine
        <4>3. CASE job[w].scan[t].status # "absent"
          BY <1>1, <3>1, <3>3, <3>4, <4>1, <4>3 DEF UpsertOK, Mine
        <4> QED
          BY <4>2, <4>3
      <3>7. RefreshOK(w)' /\ (Home[w] \notin crowded => Settled(w)')
        BY <1>2, <3>3, <3>4, <3>6 DEF RefreshOK, Settled
      <3> QED
        BY <3>5, <3>7
    <2> QED
      BY <2>1, <2>2, <2>3
  <1> QED
    BY <1>2, <1>3, QuietFresh DEF List, ScanRows, ScanKeys

(* A commit puts its key on record, or leaves a newer one there.            *)
LEMMA CommitFresh ==
  ASSUME StoreInv, FreshInv, StoreInv', History, NEW w \in Workers, Commit(w)
  PROVE  FreshInv' /\ Forward
  <1> DEFINE t == job[w].tenant
             j == [job[w] EXCEPT !.pc = "rows"]
             row == NewRow(job[w])
  <1>1. /\ job \in [Workers -> Job] /\ job[w] \in Job /\ job[w].pc = "commit"
        /\ t \in Tenants /\ Home[w] \in Procs /\ UpsertOK(w) /\ RecordOK
        /\ status \in [Tenants -> Statuses] /\ latest \in [Tenants -> KeyRow]
    BY StoreAssumption DEF Commit, StoreInv, StateTypeOK, JobOK, FreshInv
  <1>2. /\ \A u \in Tenants : latest[u].stamp \in Nat
        /\ job[w].stamp \in Nat /\ row.stamp = job[w].stamp
    BY Stamps DEF NewRow
  <1>3. cache' = cache /\ job' = [job EXCEPT ![w] = j]
    BY DEF Commit, Goto
  <1>4. j.pc = "rows" /\ j.tenant = t /\ j.stamp = job[w].stamp
    BY <1>1 DEF Job
  <1>5. \/ job[w].stamp > latest[t].stamp /\ latest' = [latest EXCEPT ![t] = row]
        \/ ~(job[w].stamp > latest[t].stamp) /\ latest' = latest
    BY DEF Commit, Newest
  <1> HIDE DEF j, row
  <1>6. \A u \in Tenants : latest[u].stamp <= latest'[u].stamp
    BY <1>1, <1>2, <1>5
  <1>7. job[w].stamp <= latest'[t].stamp
    BY <1>1, <1>2, <1>5
  <1>8. \A u \in Tenants : latest'[u] = latest[u] \/ u = t
    BY <1>1, <1>5
  <1>9. /\ status'[t] # "absent"
        /\ \A u \in Tenants : status'[u] = status[u] \/ u = t
    BY <1>1 DEF Commit, NewStatus, UpsertOK
  <1>10. Grows
    BY <1>6, <1>9 DEF Grows
  <1>11. RecordOK'
    <2>1. \A u \in Tenants : status'[u] = "absent" => latest'[u].stamp = 0
      BY <1>1, <1>8, <1>9 DEF RecordOK
    <2>2. \A p \in Procs, u \in Tenants :
            /\ cache'[p][u].latest.stamp <= latest'[u].stamp
            /\ cache'[p][u].status = "absent" => cache'[p][u].latest.stamp = 0
      <3>1. \A u \in Tenants : latest'[u].stamp \in Nat
        BY <1>1, <1>2, <1>5
      <3> QED
        BY <1>1, <1>2, <1>3, <1>6, <3>1, Stamps DEF RecordOK
    <2> QED
      BY <2>1, <2>2 DEF RecordOK
  <1>12. UpsertOK(w)' /\ RefreshOK(w)' /\ Settled(w)'
    BY <1>1, <1>3, <1>4, <1>7, <1>9 DEF UpsertOK, RefreshOK, Settled
  <1>13. \A v \in Workers \ {w} : SameWork(v)
    BY <1>1, <1>3 DEF SameWork
  <1>14. \A u \in Tenants : cache[Home[w]][u].latest.stamp <= cache'[Home[w]][u].latest.stamp
    BY <1>1, <1>3, Stamps
  <1> QED
    BY <1>3, <1>10, <1>11, <1>12, <1>13, <1>14, StepFresh

(* What a thread orphans is as it was for the others, but for the object.   *)
LEMMA OrphanedAlone ==
  ASSUME StoreInv, NEW w \in Workers, NEW gone, NEW j, job' = [Orphaned(w, gone) EXCEPT ![w] = j]
  PROVE  job'[w] = j /\ \A v \in Workers \ {w} : SameWork(v)
  BY DEF Orphaned, SameWork

(* A step of one request that replaces what its process serves.             *)
LEMMA CachingFresh ==
  ASSUME StoreInv, FreshInv, StoreInv', History, NEW w \in Workers,
         UNCHANGED <<status, latest>>,
         \A p \in Procs : p # Home[w] => cache'[p] = cache[p],
         \A v \in Workers \ {w} : SameWork(v),
         UpsertOK(w)' /\ RefreshOK(w)' /\ Settled(w)' /\ job'[w].pc # "idle",
         \A t \in Tenants : /\ Home[w] \notin crowded =>
                                 cache[Home[w]][t].latest.stamp <= cache'[Home[w]][t].latest.stamp
                            /\ cache'[Home[w]][t].latest.stamp <= latest[t].stamp
                            /\ cache'[Home[w]][t].status = "absent" =>
                                 cache'[Home[w]][t].latest.stamp = 0
  PROVE  FreshInv' /\ Forward
  <1>1. Grows
    BY Stamps DEF Grows
  <1>2. RecordOK'
    BY DEF FreshInv, RecordOK
  <1> QED
    BY <1>1, <1>2, StepFresh

(* A thread that orphans keeps its own request.                             *)
LEMMA OrphanedSame ==
  ASSUME StoreInv, NEW w \in Workers, NEW gone
  PROVE  LET o == Orphaned(w, gone)[w] IN
         /\ o \in Job
         /\ o.kind = job[w].kind /\ o.tenant = job[w].tenant /\ o.stamp = job[w].stamp
  <1>1. job[w] \in Job /\ Orphaned(w, gone)[w] \in Job
    BY OrphanedOK DEF StoreInv, StateTypeOK
  <1>2. Orphaned(w, gone)[w] = job[w] \/ Orphaned(w, gone)[w] = [job[w] EXCEPT !.live = FALSE]
    BY DEF Orphaned
  <1> QED
    BY <1>1, <1>2 DEF Job

(* The row a process caches is of a tenant it served no key of.             *)
LEMMA PutFresh ==
  ASSUME StoreInv, FreshInv, StoreInv', History, NEW w \in Workers, PutRow(w)
  PROVE  FreshInv' /\ Forward
  <1> DEFINE t == job[w].tenant
             j == [Orphaned(w, {t})[w] EXCEPT !.pc = "act", !.live = TRUE]
  <1>1. /\ job[w] \in Job /\ t \in Tenants /\ Home[w] \in Procs /\ job[w].pc = "put"
        /\ UpsertOK(w) /\ AloneOK(w) /\ RecordOK /\ cache \in [Procs -> [Tenants -> Record]]
    BY StoreAssumption DEF PutRow, StoreInv, StateTypeOK, JobOK, FreshInv
  <1>2. job' = [Orphaned(w, {t}) EXCEPT ![w] = j]
    BY DEF PutRow
  <1>3. j.pc = "act"
    BY OrphanedSame DEF Job
  <1> HIDE DEF j
  <1>4. UpsertOK(w)' /\ RefreshOK(w)' /\ Settled(w)' /\ job'[w].pc # "idle"
    BY <1>2, <1>3, OrphanedAlone DEF UpsertOK, RefreshOK, Settled
  <1>5. cache' = [cache EXCEPT ![Home[w]][t] = job[w].held]
    BY DEF PutRow
  <1>6. /\ Home[w] \notin crowded => cache[Home[w]][t].latest.stamp = 0
        /\ job[w].held.latest.stamp <= latest[t].stamp
        /\ job[w].held.status # "absent" /\ job[w].held.latest.stamp \in Nat
    BY <1>1, Stamps DEF UpsertOK, AloneOK, Settled, Mine
  <1>7. \A u \in Tenants : cache[Home[w]][u].latest.stamp \in Nat
    BY <1>1, Stamps
  <1>8. ASSUME NEW u \in Tenants
        PROVE  /\ Home[w] \notin crowded =>
                    cache[Home[w]][u].latest.stamp <= cache'[Home[w]][u].latest.stamp
               /\ cache'[Home[w]][u].latest.stamp <= latest[u].stamp
               /\ cache'[Home[w]][u].status = "absent" => cache'[Home[w]][u].latest.stamp = 0
    <2>1. CASE u = t
      <3>1. cache'[Home[w]][u] = job[w].held
        BY <1>1, <1>5, <2>1
      <3> QED
        BY <1>6, <2>1, <3>1
    <2>2. CASE u # t
      <3>1. cache'[Home[w]][u] = cache[Home[w]][u]
        BY <1>1, <1>5, <2>2
      <3> QED
        BY <1>1, <1>7, <3>1 DEF RecordOK
    <2> QED
      BY <2>1, <2>2
  <1>9. \A p \in Procs : p # Home[w] => cache'[p] = cache[p]
    BY <1>1, <1>5
  <1>10. \A v \in Workers \ {w} : SameWork(v)
    BY <1>2, OrphanedAlone
  <1>11. UNCHANGED <<status, latest>>
    BY DEF PutRow
  <1> QED
    BY <1>1, <1>4, <1>8, <1>9, <1>10, <1>11, CachingFresh

(* What a refresh publishes is no older than what it replaces.              *)
LEMMA PublishFresh ==
  ASSUME StoreInv, FreshInv, StoreInv', History, NEW w \in Workers, Publish(w)
  PROVE  FreshInv' /\ Forward
  <1> DEFINE o == Orphaned(w, Tenants)[w]
             j == [o EXCEPT !.pc = "done"]
  <1>1. /\ job[w] \in Job /\ JobOK(minted, job[w]) /\ Home[w] \in Procs
        /\ job[w].pc = "publish"
        /\ UpsertOK(w) /\ RefreshOK(w) /\ AloneOK(w) /\ cache \in [Procs -> [Tenants -> Record]]
    BY StoreAssumption DEF Publish, StoreInv, StateTypeOK, FreshInv
  <1>2. job' = [Orphaned(w, Tenants) EXCEPT ![w] = j]
    BY DEF Publish
  <1>3. /\ j.pc = "done" /\ j.kind = job[w].kind
        /\ j.tenant = job[w].tenant /\ j.stamp = job[w].stamp
    <2>1. o \in Job /\ o.kind = job[w].kind /\ o.tenant = job[w].tenant /\ o.stamp = job[w].stamp
      BY OrphanedSame
    <2> HIDE DEF o
    <2> QED
      BY <2>1 DEF Job
  <1> HIDE DEF j
  <1>4. cache' = [cache EXCEPT ![Home[w]] = job[w].scan]
    BY DEF Publish
  <1>5. Mine(w)' = job[w].scan
    BY <1>1, <1>4 DEF Mine
  <1>6. UpsertOK(w)' /\ RefreshOK(w)' /\ Settled(w)' /\ job'[w].pc # "idle"
    <2>1. job'[w] = j
      BY <1>2, OrphanedAlone
    <2> QED
      BY <1>1, <1>3, <1>5, <2>1 DEF UpsertOK, RefreshOK, Settled, JobOK
  <1>7. \A t \in Tenants :
          /\ Home[w] \notin crowded =>
               cache[Home[w]][t].latest.stamp <= cache'[Home[w]][t].latest.stamp
          /\ cache'[Home[w]][t].latest.stamp <= latest[t].stamp
          /\ cache'[Home[w]][t].status = "absent" => cache'[Home[w]][t].latest.stamp = 0
    BY <1>1, <1>4 DEF RefreshOK, AloneOK, Settled, Mine
  <1>8. \A p \in Procs : p # Home[w] => cache'[p] = cache[p]
    BY <1>1, <1>4
  <1>9. \A v \in Workers \ {w} : SameWork(v)
    BY <1>2, OrphanedAlone
  <1>10. UNCHANGED <<status, latest>>
    BY DEF Publish
  <1> QED
    BY <1>1, <1>6, <1>7, <1>8, <1>9, <1>10, CachingFresh

(* A revocation marks a status and leaves the stamps.                       *)
LEMMA RevokeFresh ==
  ASSUME StoreInv, FreshInv, StoreInv', History, NEW w \in Workers, Revoke(w)
  PROVE  FreshInv' /\ Forward
  <1> DEFINE t == job[w].tenant
             j == [job[w] EXCEPT !.pc = "load", !.key = job[w].held.latest.key]
             old == cache[Home[w]][t]
             r == [old EXCEPT !.status = "revoked"]
  <1>1. /\ job \in [Workers -> Job] /\ job[w] \in Job /\ t \in Tenants /\ Home[w] \in Procs
        /\ cache \in [Procs -> [Tenants -> Record]] /\ RecordOK
    BY StoreAssumption DEF Revoke, StoreInv, StateTypeOK, JobOK, FreshInv
  <1>2. /\ job' = [job EXCEPT ![w] = j]
        /\ cache' = cache \/ cache' = [cache EXCEPT ![Home[w]][t] = r]
    BY DEF Revoke
  <1>3. j.pc = "load"
    BY <1>1 DEF Job
  <1>4. r.latest = old.latest /\ r.status = "revoked"
    <2>1. old \in Record
      BY <1>1
    <2> HIDE DEF old
    <2> QED
      BY <2>1 DEF Record
  <1> HIDE DEF j, r, t
  <1>5. UpsertOK(w)' /\ RefreshOK(w)' /\ Settled(w)' /\ job'[w].pc # "idle"
    BY <1>1, <1>2, <1>3 DEF UpsertOK, RefreshOK, Settled
  <1>6. \A p \in Procs : p # Home[w] => cache'[p] = cache[p]
    BY <1>1, <1>2
  <1>7. ASSUME NEW u \in Tenants
        PROVE  \/ cache'[Home[w]][u] = cache[Home[w]][u]
               \/ /\ cache'[Home[w]][u].latest = cache[Home[w]][u].latest
                  /\ cache'[Home[w]][u].status # "absent"
    BY <1>1, <1>2, <1>4
  <1>8. \A u \in Tenants :
          /\ cache[Home[w]][u].latest.stamp <= cache'[Home[w]][u].latest.stamp
          /\ cache'[Home[w]][u].latest.stamp <= latest[u].stamp
          /\ cache'[Home[w]][u].status = "absent" => cache'[Home[w]][u].latest.stamp = 0
    <2>1. \A u \in Tenants : cache[Home[w]][u].latest.stamp \in Nat
      BY <1>1, Stamps
    <2> QED
      BY <1>1, <1>7, <2>1 DEF RecordOK
  <1>9. \A v \in Workers \ {w} : SameWork(v)
    BY <1>1, <1>2 DEF SameWork
  <1> QED
    BY <1>1, <1>5, <1>6, <1>8, <1>9, CachingFresh DEF Revoke

(* A process that restarts serves the newest on record.                     *)
LEMMA RestartFresh ==
  ASSUME StoreInv, FreshInv, StoreInv', History, NEW p \in Procs, Restart(p)
  PROVE  FreshInv' /\ Forward
  <1> DEFINE filled == [t \in Tenants |-> OnRecord(t)]
  <1>1. RecordOK /\ cache \in [Procs -> [Tenants -> Record]]
    BY DEF FreshInv, StoreInv, StateTypeOK
  <1>2. ASSUME NEW t \in Tenants
        PROVE  /\ cache[p][t].latest.stamp <= filled[t].latest.stamp
               /\ filled[t].latest.stamp <= latest[t].stamp
               /\ filled[t].status = "absent" => filled[t].latest.stamp = 0
    <2>1. /\ cache[p][t].latest.stamp \in Nat /\ latest[t].stamp \in Nat
          /\ cache[p][t].latest.stamp <= latest[t].stamp
          /\ status[t] = "absent" => latest[t].stamp = 0
      BY <1>1, Stamps DEF RecordOK
    <2>2. CASE status[t] = "absent"
      BY <2>1, <2>2 DEF OnRecord, NoRecord, NoKey
    <2>3. CASE status[t] # "absent"
      BY <2>1, <2>3 DEF OnRecord
    <2> QED
      BY <2>2, <2>3
  <1>3. cache' = [cache EXCEPT ![p] = filled] /\ UNCHANGED <<status, latest>>
    BY DEF Restart
  <1> HIDE DEF filled
  <1>4. RecordOK'
    BY <1>1, <1>2, <1>3 DEF RecordOK
  <1>5. Forward
    BY <1>1, <1>2, <1>3, Stamps DEF Forward
  <1>6. Grows
    BY <1>3, Stamps DEF Grows
  <1>7. ASSUME NEW v \in Workers PROVE UpsertOK(v)' /\ RefreshOK(v)' /\ AloneOK(v)'
    <2>1. CASE Home[v] = p
      <3>1. job'[v].pc = "idle"
        BY <2>1 DEF Restart, Blank
      <3> QED
        BY <3>1 DEF UpsertOK, RefreshOK, AloneOK, Settled
    <2>2. CASE Home[v] # p
      <3>1. job'[v] = job[v] /\ cache'[Home[v]] = cache[Home[v]]
        BY <1>1, <1>3, <2>2, StoreAssumption DEF Restart
      <3>2. SameWork(v)
        BY <3>1 DEF SameWork
      <3>3. UpsertOK(v)' /\ RefreshOK(v)'
        BY <1>6, <3>2, OthersFresh DEF FreshInv
      <3>4. AloneOK(v)'
        BY <3>1, <3>2, OthersAlone DEF FreshInv
      <3> QED
        BY <3>3, <3>4
    <2> QED
      BY <2>1, <2>2
  <1> QED
    BY <1>4, <1>5, <1>7 DEF FreshInv

(* Every step keeps what is fresh, and makes no cached row older where      *)
(* requests do not overlap.                                                 *)
THEOREM FreshStep == StoreInv /\ StoreInv' /\ FreshInv /\ [Next]_vars => FreshInv' /\ Forward
  <1> SUFFICES ASSUME StoreInv, StoreInv', FreshInv, [Next]_vars PROVE FreshInv' /\ Forward
    OBVIOUS
  <1>1. CASE UNCHANGED vars
    <2>1. FreshInv'
      BY <1>1 DEF vars, state, FreshInv, RecordOK, UpsertOK, RefreshOK, AloneOK, Settled, Mine
    <2>2. Forward
      BY <1>1, Stamps DEF vars, state, Forward
    <2> QED
      BY <2>1, <2>2
  <1>2. ASSUME NEW p \in Procs, Restart(p), History PROVE FreshInv' /\ Forward
    BY <1>2, RestartFresh
  <1>3. ASSUME NEW w \in Workers, Handle(w), History PROVE FreshInv' /\ Forward
    <2>1. CASE \/ \E kind \in Kinds \ {"list"}, t \in Tenants : Request(w, kind, t)
               \/ GetCached(w) \/ Answer(w) \/ Mint(w)
               \/ CommitClashes(w) \/ Done(w) \/ DatabaseFails(w)
      BY <1>3, <2>1, WaitingFresh
    <2>2. CASE GetRow(w)
      BY <1>3, <2>2, GetRowFresh
    <2>3. CASE PutRow(w)
      BY <1>3, <2>3, PutFresh
    <2>4. CASE Revoke(w)
      BY <1>3, <2>4, RevokeFresh
    <2>5. CASE Load(w)
      BY <1>3, <2>5, LoadFresh
    <2>6. CASE Commit(w)
      BY <1>3, <2>6, CommitFresh
    <2>7. CASE List(w) \/ ScanRows(w) \/ ScanKeys(w)
      BY <1>3, <2>7, ScanFresh
    <2>8. CASE Publish(w)
      BY <1>3, <2>8, PublishFresh
    <2> QED
      BY <1>3, <2>1, <2>2, <2>3, <2>4, <2>5, <2>6, <2>7, <2>8 DEF Handle, Upsert, Refresh
  <1> QED
    BY <1>1, <1>2, <1>3 DEF Next, Step

(* A request that no other of its process overlaps reads its own writes     *)
(* (ReadsOwnWrites), however many threads and processes there are and       *)
(* whatever they write meanwhile.                                           *)
THEOREM OwnWritesAreRead == Spec => []ReadsOwnWrites
  <1>1. FreshInv /\ StoreInv => ReadsOwnWrites
    <2> SUFFICES ASSUME FreshInv, StoreInv, NEW w \in Workers,
                        job[w].pc = "done", job[w].kind # "list", Home[w] \notin crowded
                 PROVE  Mine(w)[job[w].tenant].latest.stamp >= job[w].stamp
      BY DEF ReadsOwnWrites
    <2>1. job[w].tenant \in Tenants /\ Home[w] \in Procs
      BY StoreAssumption DEF StoreInv, JobOK
    <2>2. job[w].stamp <= Mine(w)[job[w].tenant].latest.stamp
      BY DEF FreshInv, AloneOK, Settled
    <2>3. job[w].stamp \in Nat /\ Mine(w)[job[w].tenant].latest.stamp \in Nat
      BY <2>1, Stamps DEF Mine
    <2> QED
      BY <2>2, <2>3
  <1>2. StoreInv /\ StoreInv' /\ FreshInv /\ [Next]_vars => FreshInv'
    BY FreshStep
  <1> QED
    BY <1>1, <1>2, FreshInit, StoreInvariant, PTL DEF Spec

-----------------------------------------------------------------------------
(* What is cached, held or scanned has been on record.                      *)

Minting(j) == j.pc \in {"load", "commit"} /\ j.kind # "revoke"

(* The rows of tenant t seen in h so far, and none.                         *)
Past(h, t) == h[t] \cup {NoKey}

(* A request holds and has scanned rows of the past; a key it has minted is *)
(* on none of them yet, and one it revokes was read off one.                *)
PastJob(h, j) ==
    /\ \A t \in Tenants : /\ j.scan[t].latest \in Past(h, t)
                          /\ j.tenant = t => j.held.latest \in Past(h, t)
    /\ Minting(j) => j.key # 0 /\ \A t \in Tenants : \A r \in h[t] : r.key # j.key
    /\ j.pc \in {"load", "commit"} /\ j.kind = "revoke" =>
         j.key = 0 \/ \E r \in h[j.tenant] : r.key = j.key

PastRows ==
    \A t \in Tenants :
        /\ latest[t] \in Past(written, t)
        /\ \A r \in written[t] : /\ r \in KeyRow /\ r.stamp <= latest[t].stamp
                                 /\ MintedFor(minted, r.key, t)

PastCaches == \A p \in Procs, t \in Tenants : cache[p][t].latest \in Past(written, t)

KeysApart ==
    \A v, w \in Workers : v # w /\ Minting(job[v]) /\ Minting(job[w]) => job[v].key # job[w].key

PastInv == PastRows /\ PastCaches /\ KeysApart /\ \A w \in Workers : PastJob(written, job[w])

(* Nothing has been on record of an empty store.                            *)
LEMMA PastInit == Init => PastInv
  <1> SUFFICES ASSUME Init PROVE PastInv
    OBVIOUS
  <1>1. NoRecord.latest = NoKey
    BY DEF NoRecord
  <1>2. PastRows /\ PastCaches
    BY <1>1 DEF Init, PastRows, PastCaches, Past
  <1>3. KeysApart /\ \A w \in Workers : PastJob(written, job[w])
    BY <1>1 DEF Init, KeysApart, PastJob, Past, Minting, Blank
  <1> QED
    BY <1>2, <1>3 DEF PastInv

(* A step that leaves the rows alone adds nothing to the past.              *)
LEMMA SamePast ==
  ASSUME StoreTypeOK, PastRows, History, UNCHANGED latest
  PROVE  written' = written
  <1>1. \A t \in Tenants : written[t] \cup ({latest'[t]} \ {NoKey}) = written[t]
    BY DEF PastRows, Past
  <1>2. written' = [t \in Tenants |-> written[t]]
    BY <1>1 DEF History
  <1> QED
    BY <1>2 DEF StoreTypeOK

(* A step that mints nothing and writes nothing.                            *)
LEMMA QuietPast ==
  ASSUME StoreTypeOK, PastInv, History, UNCHANGED <<minted, latest>>,
         \A p \in Procs, t \in Tenants : cache'[p][t].latest \in Past(written, t),
         \A v \in Workers : /\ PastJob(written, job'[v])
                            /\ Minting(job'[v]) => Minting(job[v]) /\ job'[v].key = job[v].key
  PROVE  PastInv'
  <1>1. written' = written
    BY SamePast DEF PastInv
  <1>2. PastRows' /\ PastCaches'
    BY <1>1 DEF PastInv, PastRows, PastCaches, Past
  <1>3. KeysApart'
    BY DEF PastInv, KeysApart, Minting
  <1>4. \A v \in Workers : PastJob(written, job[v])'
    BY <1>1
  <1> QED
    BY <1>2, <1>3, <1>4 DEF PastInv

(* A thread that has no request any more.                                   *)
LEMMA BlankPast == ASSUME NEW h PROVE PastJob(h, Blank) /\ ~Minting(Blank)
  <1>1. NoRecord.latest = NoKey
    BY DEF NoRecord
  <1> QED
    BY <1>1 DEF PastJob, Past, Minting, Blank

(* A request as it was, or but for the object it holds.                     *)
LEMMA SamePastJob ==
  ASSUME NEW h, NEW j \in Job, PastJob(h, j), NEW k, k = j \/ k = [j EXCEPT !.live = FALSE]
  PROVE  PastJob(h, k) /\ (Minting(k) => Minting(j) /\ k.key = j.key)
  <1>1. /\ k.pc = j.pc /\ k.kind = j.kind /\ k.tenant = j.tenant /\ k.held = j.held
        /\ k.key = j.key /\ k.scan = j.scan
    BY DEF Job
  <1> QED
    BY <1>1 DEF PastJob, Minting

(* A step of one request that mints nothing and writes nothing.             *)
LEMMA StepPast ==
  ASSUME StoreInv, StoreTypeOK, PastInv, History, UNCHANGED <<minted, latest>>, NEW w \in Workers,
         \A p \in Procs, t \in Tenants : cache'[p][t].latest \in Past(written, t),
         \A v \in Workers \ {w} : SameWork(v),
         PastJob(written, job'[w]),
         Minting(job'[w]) => Minting(job[w]) /\ job'[w].key = job[w].key
  PROVE  PastInv'
  <1>1. ASSUME NEW v \in Workers, v # w
        PROVE  /\ PastJob(written, job'[v])
               /\ Minting(job'[v]) => Minting(job[v]) /\ job'[v].key = job[v].key
    <2>1. job[v] \in Job /\ PastJob(written, job[v]) /\ SameWork(v)
      BY <1>1 DEF StoreInv, StateTypeOK, PastInv
    <2> QED
      BY <2>1, SamePastJob DEF SameWork
  <1> QED
    BY <1>1, QuietPast

(* The steps that begin or end a request, and those that look up its tenant.*)
LEMMA LookupPast ==
  ASSUME StoreInv, StoreTypeOK, PastInv, History, NEW w \in Workers,
         \/ \E kind \in Kinds \ {"list"}, t \in Tenants : Request(w, kind, t)
         \/ GetCached(w) \/ GetRow(w) \/ List(w)
         \/ Finish(w) /\ UNCHANGED <<latest, minted, cache>>
  PROVE  PastInv'
  <1>1. /\ job \in [Workers -> Job] /\ job[w] \in Job /\ PastJob(written, job[w])
        /\ Home[w] \in Procs /\ PastRows /\ PastCaches
    BY StoreAssumption DEF StoreInv, StateTypeOK, PastInv
  <1>2. NoRecord.latest = NoKey
    BY DEF NoRecord
  <1>3. /\ UNCHANGED <<minted, latest, cache>>
        /\ \A v \in Workers \ {w} : SameWork(v)
    BY <1>1 DEF Request, GetCached, GetRow, List, Finish, SameWork
  <1>4. PastJob(written, job'[w]) /\ ~Minting(job'[w])
    <2>1. CASE \E kind \in Kinds \ {"list"}, t \in Tenants : Request(w, kind, t)
      <3>1. PICK kind \in Kinds \ {"list"}, t \in Tenants : Request(w, kind, t)
        BY <2>1
      <3> DEFINE j == [Blank EXCEPT !.pc = "get", !.kind = kind, !.tenant = t]
      <3>2. j.pc = "get" /\ j.held = NoRecord /\ \A u \in Tenants : j.scan[u] = NoRecord
        BY DEF Blank
      <3>3. job'[w] = j
        BY <1>1, <3>1 DEF Request
      <3> HIDE DEF j
      <3> QED
        BY <1>2, <3>2, <3>3 DEF PastJob, Past, Minting
    <2>2. CASE GetCached(w)
      <3> DEFINE j == [job[w] EXCEPT !.pc = "act", !.live = TRUE, !.held = Mine(w)[job[w].tenant]]
      <3>1. /\ j.pc = "act" /\ j.held = Mine(w)[job[w].tenant] /\ j.tenant = job[w].tenant
            /\ j.scan = job[w].scan
        BY <1>1 DEF Job
      <3>2. job'[w] = j
        BY <1>1, <2>2 DEF GetCached
      <3>3. \A u \in Tenants : Mine(w)[u].latest \in Past(written, u)
        BY <1>1 DEF PastCaches, Mine
      <3> HIDE DEF j
      <3> QED
        BY <1>1, <3>1, <3>2, <3>3 DEF PastJob, Minting
    <2>3. CASE GetRow(w)
      <3> DEFINE step == IF status[job[w].tenant] = "absent" THEN "act" ELSE "put"
                 j == [job[w] EXCEPT !.pc = step, !.held = OnRecord(job[w].tenant)]
      <3>1. /\ j.pc = step /\ j.held = OnRecord(job[w].tenant) /\ j.tenant = job[w].tenant
            /\ j.scan = job[w].scan
        BY <1>1 DEF Job
      <3>2. job'[w] = j
        BY <1>1, <2>3 DEF GetRow
      <3>3. \A u \in Tenants : OnRecord(u).latest \in Past(written, u)
        BY <1>1, <1>2 DEF PastRows, OnRecord, Past
      <3> HIDE DEF j
      <3> QED
        BY <1>1, <3>1, <3>2, <3>3 DEF PastJob, Minting
    <2>4. CASE List(w)
      <3> DEFINE j == [job[w] EXCEPT !.pc = "rows"]
      <3>1. /\ j.pc = "rows" /\ j.held = job[w].held /\ j.tenant = job[w].tenant
            /\ j.scan = job[w].scan
        BY <1>1 DEF Job
      <3>2. job'[w] = j
        BY <1>1, <2>4 DEF List
      <3> HIDE DEF j
      <3> QED
        BY <1>1, <3>1, <3>2 DEF PastJob, Minting
    <2>5. CASE Finish(w)
      BY <1>1, <2>5, BlankPast DEF Finish
    <2> QED
      BY <2>1, <2>2, <2>3, <2>4, <2>5
  <1>5. \A p \in Procs, t \in Tenants : cache'[p][t].latest \in Past(written, t)
    BY <1>1, <1>3 DEF PastCaches
  <1> QED
    BY <1>3, <1>4, <1>5, StepPast

(* A revocation takes the key of a row of the past.                         *)
LEMMA RevokePast ==
  ASSUME StoreInv, StoreTypeOK, PastInv, History, NEW w \in Workers, Revoke(w)
  PROVE  PastInv'
  <1> DEFINE t == job[w].tenant
             j == [job[w] EXCEPT !.pc = "load", !.key = job[w].held.latest.key]
             old == cache[Home[w]][t]
             r == [old EXCEPT !.status = "revoked"]
  <1>1. /\ job \in [Workers -> Job] /\ job[w] \in Job /\ t \in Tenants /\ Home[w] \in Procs
        /\ cache \in [Procs -> [Tenants -> Record]] /\ PastCaches
        /\ job[w].kind = "revoke" /\ PastJob(written, job[w])
    BY StoreAssumption DEF Revoke, StoreInv, StateTypeOK, JobOK, PastInv
  <1>2. /\ job' = [job EXCEPT ![w] = j]
        /\ cache' = cache \/ cache' = [cache EXCEPT ![Home[w]][t] = r]
        /\ UNCHANGED <<minted, latest>>
    BY DEF Revoke
  <1>3. /\ j.pc = "load" /\ j.kind = "revoke" /\ j.tenant = t /\ j.scan = job[w].scan
        /\ j.held = job[w].held /\ j.key = job[w].held.latest.key
    BY <1>1 DEF Job
  <1>4. r.latest = old.latest
    <2>1. old \in Record
      BY <1>1
    <2> HIDE DEF old
    <2> QED
      BY <2>1 DEF Record
  <1> HIDE DEF j, r
  <1>5. \A p \in Procs, u \in Tenants : cache'[p][u].latest = cache[p][u].latest
    <2>1. \A p \in Procs, u \in Tenants : cache'[p][u] = cache[p][u] \/ (cache'[p][u] = r /\ p = Home[w] /\ u = t)
      BY <1>1, <1>2
    <2> QED
      BY <1>4, <2>1
  <1>6. \A p \in Procs, u \in Tenants : cache'[p][u].latest \in Past(written, u)
    BY <1>1, <1>5 DEF PastCaches
  <1>7. job'[w] = j /\ \A v \in Workers \ {w} : SameWork(v)
    BY <1>1, <1>2 DEF SameWork
  <1>8. j.key = 0 \/ \E row \in written[t] : row.key = j.key
    <2>1. job[w].held.latest \in written[t] \cup {NoKey}
      BY <1>1 DEF PastJob, Past
    <2> QED
      BY <1>3, <2>1 DEF NoKey
  <1>9. PastJob(written, j) /\ ~Minting(j)
    BY <1>1, <1>3, <1>8 DEF PastJob, Minting
  <1> QED
    BY <1>2, <1>6, <1>7, <1>9, StepPast

(* What a load waits to commit is what it was.                              *)
LEMMA LoadPast ==
  ASSUME StoreInv, StoreTypeOK, PastInv, History, NEW w \in Workers, Load(w)
  PROVE  PastInv'
  <1> DEFINE j == [job[w] EXCEPT !.pc = "commit", !.seen = status[job[w].tenant],
                                 !.stamp = stamps + 1]
  <1>1. job \in [Workers -> Job] /\ job[w] \in Job /\ PastJob(written, job[w]) /\ PastCaches
    BY DEF StoreInv, StateTypeOK, PastInv
  <1>2. job' = [job EXCEPT ![w] = j] /\ job[w].pc = "load" /\ UNCHANGED <<minted, latest, cache>>
    BY DEF Load
  <1>3. /\ j.pc = "commit" /\ j.kind = job[w].kind /\ j.tenant = job[w].tenant
        /\ j.held = job[w].held /\ j.key = job[w].key /\ j.scan = job[w].scan
    BY <1>1 DEF Job
  <1> HIDE DEF j
  <1>4. job'[w] = j /\ \A v \in Workers \ {w} : SameWork(v)
    BY <1>1, <1>2 DEF SameWork
  <1>5. PastJob(written, j) /\ (Minting(j) => Minting(job[w]) /\ j.key = job[w].key)
    BY <1>1, <1>2, <1>3 DEF PastJob, Minting
  <1>6. \A p \in Procs, t \in Tenants : cache'[p][t].latest \in Past(written, t)
    BY <1>1, <1>2 DEF PastCaches
  <1> QED
    BY <1>2, <1>4, <1>5, <1>6, StepPast

(* A scan reads rows that are on record.                                    *)
LEMMA ScanPast ==
  ASSUME StoreInv, StoreTypeOK, PastInv, History, NEW w \in Workers, ScanRows(w) \/ ScanKeys(w)
  PROVE  PastInv'
  <1>1. job \in [Workers -> Job] /\ job[w] \in Job /\ PastJob(written, job[w]) /\ PastCaches /\ PastRows
    BY DEF StoreInv, StateTypeOK, PastInv
  <1>2. /\ \A v \in Workers \ {w} : SameWork(v)
        /\ UNCHANGED <<minted, latest, cache>>
    BY <1>1 DEF ScanRows, ScanKeys, SameWork
  <1>3. NoRecord.latest = NoKey
    BY DEF NoRecord
  <1>4. ASSUME NEW s, NEW step \in {"keys", "publish"},
               job' = [job EXCEPT ![w].pc = step, ![w].scan = s],
               \A t \in Tenants : s[t].latest \in Past(written, t)
        PROVE  PastJob(written, job'[w]) /\ ~Minting(job'[w])
    <2> DEFINE j == [job[w] EXCEPT !.pc = step, !.scan = s]
    <2>1. j.pc = step /\ j.scan = s /\ j.held = job[w].held /\ j.tenant = job[w].tenant
      BY <1>1 DEF Job
    <2>2. job'[w] = j
      BY <1>1, <1>4
    <2> HIDE DEF j
    <2> QED
      BY <1>1, <1>4, <2>1, <2>2 DEF PastJob, Minting
  <1>5. PastJob(written, job'[w]) /\ ~Minting(job'[w])
    <2>1. CASE ScanRows(w)
      <3> DEFINE s == [t \in Tenants |-> [NoRecord EXCEPT !.status = status[t]]]
      <3>1. \A t \in Tenants : s[t].latest \in Past(written, t)
        BY DEF NoRecord, Past
      <3> QED
        BY <1>4, <2>1, <3>1 DEF ScanRows
    <2>2. CASE ScanKeys(w)
      <3> DEFINE s == [t \in Tenants |-> IF job[w].scan[t].status = "absent" THEN NoRecord
                                         ELSE [job[w].scan[t] EXCEPT !.latest = LatestKey(t)]]
      <3>1. ASSUME NEW t \in Tenants PROVE s[t].latest \in Past(written, t)
        <4>1. job[w].scan[t] \in Record
          BY <1>1 DEF Job
        <4>2. s[t].latest = NoKey \/ s[t].latest = latest[t]
          BY <1>3, <4>1 DEF Record, LatestKey
        <4> QED
          BY <1>1, <4>2 DEF PastRows, Past
      <3> QED
        BY <1>4, <2>2, <3>1 DEF ScanKeys
    <2> QED
      BY <2>1, <2>2
  <1>6. \A p \in Procs, t \in Tenants : cache'[p][t].latest \in Past(written, t)
    BY <1>1, <1>2 DEF PastCaches
  <1> QED
    BY <1>2, <1>5, <1>6, StepPast

(* What is cached was held or scanned.                                      *)
LEMMA CachingPast ==
  ASSUME StoreInv, StoreTypeOK, PastInv, History, NEW w \in Workers, PutRow(w) \/ Publish(w)
  PROVE  PastInv'
  <1>1. /\ job \in [Workers -> Job] /\ job[w] \in Job /\ Home[w] \in Procs
        /\ cache \in [Procs -> [Tenants -> Record]] /\ PastCaches /\ PastJob(written, job[w])
        /\ UNCHANGED <<minted, latest>>
    BY StoreAssumption DEF PutRow, Publish, StoreInv, StateTypeOK, PastInv
  <1>2. \A p \in Procs, t \in Tenants : cache'[p][t].latest \in Past(written, t)
    <2>1. CASE PutRow(w)
      <3>1. cache' = [cache EXCEPT ![Home[w]][job[w].tenant] = job[w].held]
        BY <2>1 DEF PutRow
      <3>2. \A p \in Procs, t \in Tenants :
               cache'[p][t] = cache[p][t] \/ (t = job[w].tenant /\ cache'[p][t] = job[w].held)
        BY <1>1, <3>1
      <3> QED
        BY <1>1, <3>2 DEF PastCaches, PastJob
    <2>2. CASE Publish(w)
      <3>1. \A p \in Procs : cache'[p] = cache[p] \/ cache'[p] = job[w].scan
        BY <1>1, <2>2 DEF Publish
      <3> QED
        BY <1>1, <3>1 DEF PastCaches, PastJob
    <2> QED
      BY <2>1, <2>2
  <1>3. ASSUME NEW gone, NEW b \in BOOLEAN, NEW step \in {"act", "done"}, NEW j,
               j = [Orphaned(w, gone)[w] EXCEPT !.pc = step, !.live = b]
                 \/ j = [Orphaned(w, gone)[w] EXCEPT !.pc = step],
               job' = [Orphaned(w, gone) EXCEPT ![w] = j]
        PROVE  PastInv'
    <2> DEFINE o == Orphaned(w, gone)[w]
    <2>1. o \in Job /\ PastJob(written, o)
      <3>1. o = job[w] \/ o = [job[w] EXCEPT !.live = FALSE]
        BY DEF Orphaned
      <3>2. o \in Job
        BY OrphanedSame
      <3> HIDE DEF o
      <3> QED
        BY <1>1, <3>1, <3>2, SamePastJob
    <2>2. j = [o EXCEPT !.pc = step, !.live = b] \/ j = [o EXCEPT !.pc = step]
      BY <1>3
    <2> HIDE DEF o
    <2>3. j.pc = step /\ j.scan = o.scan /\ j.held = o.held /\ j.tenant = o.tenant
      BY <2>1, <2>2 DEF Job
    <2>4. PastJob(written, j) /\ ~Minting(j)
      BY <2>1, <2>3 DEF PastJob, Minting
    <2>5. job'[w] = j /\ \A v \in Workers \ {w} : SameWork(v)
      BY <1>3, OrphanedAlone
    <2> QED
      BY <1>1, <1>2, <2>4, <2>5, StepPast
  <1>4. CASE PutRow(w)
    <2> DEFINE gone == {job[w].tenant}
               j == [Orphaned(w, gone)[w] EXCEPT !.pc = "act", !.live = TRUE]
    <2>1. job' = [Orphaned(w, gone) EXCEPT ![w] = j]
      BY <1>4 DEF PutRow
    <2> QED
      BY <1>3, <2>1
  <1>5. CASE Publish(w)
    <2> DEFINE j == [Orphaned(w, Tenants)[w] EXCEPT !.pc = "done"]
    <2>1. job' = [Orphaned(w, Tenants) EXCEPT ![w] = j]
      BY <1>5 DEF Publish
    <2> QED
      BY <1>3, <2>1
  <1> QED
    BY <1>4, <1>5

(* A process that restarts caches what is on record.                        *)
LEMMA RestartPast ==
  ASSUME StoreInv, StoreTypeOK, PastInv, History, NEW p \in Procs, Restart(p)
  PROVE  PastInv'
  <1> DEFINE filled == [t \in Tenants |-> OnRecord(t)]
  <1>1. \A t \in Tenants : filled[t].latest \in Past(written, t)
    BY DEF PastInv, PastRows, OnRecord, NoRecord, Past
  <1>2. cache' = [cache EXCEPT ![p] = filled] /\ UNCHANGED <<minted, latest>>
    BY DEF Restart
  <1> HIDE DEF filled
  <1>3. \A q \in Procs, t \in Tenants : cache'[q][t].latest \in Past(written, t)
    BY <1>1, <1>2 DEF PastInv, PastCaches, StoreInv, StateTypeOK
  <1>4. ASSUME NEW v \in Workers
        PROVE  /\ PastJob(written, job'[v])
               /\ Minting(job'[v]) => Minting(job[v]) /\ job'[v].key = job[v].key
    <2>1. job'[v] = Blank \/ job'[v] = job[v]
      BY DEF Restart
    <2> QED
      BY <2>1, BlankPast DEF PastInv
  <1> QED
    BY <1>2, <1>3, <1>4, QuietPast

(* A key that is minted is on no row, and no other request has it.          *)
LEMMA MintPast ==
  ASSUME StoreInv, StoreTypeOK, PastInv, History, NEW w \in Workers, Mint(w)
  PROVE  PastInv'
  <1>1. CASE Finish(w) /\ UNCHANGED minted
    BY <1>1, LookupPast DEF Mint
  <1>2. CASE ~(Finish(w) /\ UNCHANGED minted)
    <2> DEFINE k == Len(minted) + 1
               j == [job[w] EXCEPT !.pc = "load", !.key = k]
    <2>1. /\ job \in [Workers -> Job] /\ job[w] \in Job /\ PastJob(written, job[w])
          /\ job[w].kind # "revoke" /\ job[w].kind # "list" /\ job[w].tenant \in Tenants
          /\ minted \in Seq(Tenants)
          /\ PastRows /\ PastCaches /\ KeysApart
      BY DEF Mint, StoreInv, StateTypeOK, JobOK, PastInv
    <2>2. /\ minted' = Append(minted, job[w].tenant) /\ job' = [job EXCEPT ![w] = j]
          /\ UNCHANGED <<latest, cache>>
      BY <1>2 DEF Mint
    <2>3. written' = written
      BY <2>1, <2>2, SamePast
    <2>4. k # 0 /\ k \notin DOMAIN minted
      BY <2>1
    <2> HIDE DEF k
    <2>5. /\ j.pc = "load" /\ j.key = k /\ j.kind = job[w].kind /\ j.tenant = job[w].tenant
          /\ j.held = job[w].held /\ j.scan = job[w].scan
      BY <2>1 DEF Job
    <2> HIDE DEF j
    <2>6. job'[w] = j /\ \A v \in Workers \ {w} : job'[v] = job[v]
      BY <2>1, <2>2
    <2>7. \A u \in Tenants : \A r \in written[u] : r.key # k
      BY <2>1, <2>4 DEF PastRows, MintedFor
    <2>8. PastJob(written, j)
      BY <2>1, <2>4, <2>5, <2>7 DEF PastJob, Minting
    <2>9. ASSUME NEW v \in Workers, Minting(job[v]) PROVE job[v].key # k
      <3>1. /\ PastJob(written, job[v]) /\ JobOK(minted, job[v]) /\ job[v].tenant \in Tenants
        BY <2>9 DEF PastInv, StoreInv, JobOK, Minting
      <3>2. job[v].key # 0 /\ job[v].key \in DOMAIN minted
        BY <2>9, <3>1 DEF PastJob, JobOK, MintedFor
      <3> QED
        BY <2>4, <3>2
    <2>10. KeysApart'
      <3> SUFFICES ASSUME NEW u \in Workers, NEW v \in Workers, u # v,
                          Minting(job'[u]), Minting(job'[v])
                   PROVE  job'[u].key # job'[v].key
        BY DEF KeysApart, Minting
      <3>1. CASE u = w
        BY <2>5, <2>6, <2>9, <3>1
      <3>2. CASE v = w
        BY <2>5, <2>6, <2>9, <3>2
      <3>3. CASE u # w /\ v # w
        BY <2>1, <2>6, <3>3 DEF KeysApart
      <3> QED
        BY <3>1, <3>2, <3>3
    <2>11. PastRows'
      <3>1. \A x, u : MintedFor(minted, x, u) => MintedFor(minted', x, u)
        BY <2>1, <2>2, AppendKeeps
      <3> QED
        BY <2>1, <2>2, <2>3, <3>1 DEF PastRows, Past
    <2>12. PastCaches'
      BY <2>1, <2>2, <2>3 DEF PastCaches, Past
    <2>13. \A v \in Workers : PastJob(written, job[v])'
      BY <2>3, <2>6, <2>8 DEF PastInv
    <2> QED
      BY <2>10, <2>11, <2>12, <2>13 DEF PastInv
  <1> QED
    BY <1>1, <1>2

(* Rows that were of the past stay so, and a key no new row has stays off   *)
(* the record.                                                              *)
LEMMA GrowingPast ==
  ASSUME NEW h, NEW g, NEW j \in Job, PastJob(h, j),
         j.kind # "list" => j.tenant \in Tenants,
         j.pc \in {"load", "commit"} => j.kind # "list",
         \A t \in Tenants :
             /\ h[t] \subseteq g[t]
             /\ Minting(j) => \A r \in g[t] \ h[t] : r.key # j.key
  PROVE  PastJob(g, j)
  <1>1. \A t \in Tenants : h[t] \subseteq g[t]
    OBVIOUS
  <1>2. \A t \in Tenants : /\ j.scan[t].latest \in Past(g, t)
                           /\ j.tenant = t => j.held.latest \in Past(g, t)
    BY <1>1 DEF PastJob, Past
  <1>3. Minting(j) => j.key # 0 /\ \A t \in Tenants : \A x \in g[t] : x.key # j.key
    BY <1>1 DEF PastJob
  <1>4. j.pc \in {"load", "commit"} /\ j.kind = "revoke" =>
          j.key = 0 \/ \E x \in g[j.tenant] : x.key = j.key
    BY <1>1 DEF PastJob
  <1> QED
    BY <1>2, <1>3, <1>4 DEF PastJob

(* A commit adds its row to the past, or nothing.                           *)
LEMMA CommitAdds ==
  ASSUME StoreInv, StoreTypeOK, PastInv, History, NEW w \in Workers, Commit(w)
  PROVE  LET t == job[w].tenant
             row == NewRow(job[w]) IN
         \/ latest' = latest /\ written' = written
         \/ /\ latest' = [latest EXCEPT ![t] = row]
            /\ written' = [written EXCEPT ![t] = @ \cup {row}]
            /\ row.stamp > latest[t].stamp
  <1> DEFINE t == job[w].tenant
             row == NewRow(job[w])
  <1>1. /\ job[w] \in Job /\ t \in Tenants /\ latest \in [Tenants -> KeyRow]
        /\ written \in [Tenants -> SUBSET KeyRow]
        /\ PastRows
    BY DEF Commit, StoreInv, StateTypeOK, StoreTypeOK, JobOK, PastInv
  <1>2. \/ latest' = latest
        \/ latest' = [latest EXCEPT ![t] = row] /\ row.stamp > latest[t].stamp
    BY DEF Commit, Newest, NewRow
  <1>3. CASE latest' = latest
    BY <1>1, <1>3, SamePast
  <1>4. CASE latest' = [latest EXCEPT ![t] = row] /\ row.stamp > latest[t].stamp
    <2>1. row # NoKey
      <3>1. latest[t].stamp \in Nat
        BY <1>1, Stamps
      <3> QED
        BY <1>4, <3>1 DEF NoKey
    <2> HIDE DEF row
    <2>2. written' = [u \in Tenants |-> written[u] \cup ({latest'[u]} \ {NoKey})]
      BY DEF History
    <2>3. \A u \in Tenants : written'[u] = IF u = t THEN written[u] \cup {row} ELSE written[u]
      BY <1>1, <1>4, <2>1, <2>2 DEF PastRows, Past
    <2>4. written' = [written EXCEPT ![t] = @ \cup {row}]
      BY <1>1, <2>2, <2>3
    <2> QED
      BY <1>4, <2>4 DEF row
  <1> QED
    BY <1>2, <1>3, <1>4

LEMMA CommitPast ==
  ASSUME StoreInv, StoreTypeOK, PastInv, History, NEW w \in Workers, Commit(w)
  PROVE  PastInv'
  <1> DEFINE t == job[w].tenant
             j == [job[w] EXCEPT !.pc = "rows"]
             row == NewRow(job[w])
  <1>1. /\ job \in [Workers -> Job] /\ job[w] \in Job /\ job[w].pc = "commit"
        /\ t \in Tenants /\ row \in KeyRow /\ MintedFor(minted, row.key, t)
        /\ row.key = job[w].key /\ PastJob(written, job[w])
        /\ latest \in [Tenants -> KeyRow] /\ written \in [Tenants -> SUBSET KeyRow]
        /\ PastRows /\ PastCaches /\ KeysApart
    BY DEF Commit, NewRow, StoreInv, StateTypeOK, StoreTypeOK, Job, JobOK, KeyRow, PastInv
  <1>2. /\ job' = [job EXCEPT ![w] = j] /\ UNCHANGED <<minted, cache>>
    BY DEF Commit, Goto
  <1>3. /\ j.pc = "rows" /\ j.scan = job[w].scan /\ j.held = job[w].held /\ j.tenant = t
    BY <1>1 DEF Job
  <1>4. \/ latest' = latest /\ written' = written
        \/ /\ latest' = [latest EXCEPT ![t] = row]
           /\ written' = [written EXCEPT ![t] = @ \cup {row}]
           /\ row.stamp > latest[t].stamp
    BY CommitAdds
  <1> HIDE DEF j, row
  <1>5. job'[w] = j /\ \A v \in Workers \ {w} : job'[v] = job[v]
    BY <1>1, <1>2
  <1>6. \A u \in Tenants : written'[u] = written[u] \/ (u = t /\ written'[u] = written[u] \cup {row})
    BY <1>1, <1>4
  <1>7. ASSUME NEW v \in Workers PROVE PastJob(written', job'[v])
    <2>1. CASE v = w
      <3>1. ~Minting(j) /\ PastJob(written, j)
        BY <1>1, <1>3 DEF PastJob, Minting
      <3>2. \A u \in Tenants : Past(written, u) \subseteq Past(written', u)
        BY <1>6 DEF Past
      <3> QED
        BY <1>3, <1>5, <2>1, <3>1, <3>2 DEF PastJob, Minting
    <2>2. CASE v # w
      <3>1. /\ job[v] \in Job /\ PastJob(written, job[v])
            /\ job[v].kind # "list" => job[v].tenant \in Tenants
            /\ job[v].pc \in {"load", "commit"} => job[v].kind # "list"
        BY DEF StoreInv, StateTypeOK, JobOK, PastInv
      <3>2. ASSUME Minting(job[v]) PROVE row.key # job[v].key
        <4>1. CASE job[w].kind # "revoke"
          <5>1. Minting(job[w])
            BY <1>1, <4>1 DEF Minting
          <5> QED
            BY <1>1, <2>2, <3>2, <5>1 DEF KeysApart
        <4>2. CASE job[w].kind = "revoke"
          <5>1. row.key = 0 \/ \E r \in written[t] : r.key = row.key
            BY <1>1, <4>2 DEF PastJob
          <5>2. job[v].key # 0 /\ \A r \in written[t] : r.key # job[v].key
            BY <1>1, <3>1, <3>2 DEF PastJob
          <5> QED
            BY <5>1, <5>2
        <4> QED
          BY <4>1, <4>2
      <3>3. \A u \in Tenants :
               /\ written[u] \subseteq written'[u]
               /\ Minting(job[v]) => \A r \in written'[u] \ written[u] : r.key # job[v].key
        BY <1>6, <3>2
      <3>4. PastJob(written', job[v])
        BY <3>1, <3>3, GrowingPast
      <3> QED
        BY <1>5, <2>2, <3>4
    <2> QED
      BY <2>1, <2>2
  <1>8. KeysApart'
    <2>1. \A v \in Workers : Minting(job'[v]) => Minting(job[v]) /\ job'[v].key = job[v].key
      BY <1>3, <1>5 DEF Minting
    <2> QED
      BY <1>1, <2>1 DEF KeysApart, Minting
  <1>9. PastRows'
    <2> SUFFICES ASSUME NEW u \in Tenants
                 PROVE  /\ latest'[u] \in Past(written', u)
                        /\ \A r \in written'[u] : /\ r \in KeyRow /\ r.stamp <= latest'[u].stamp
                                                  /\ MintedFor(minted, r.key, u)
      BY <1>2 DEF PastRows, Past
    <2>1. CASE latest' = latest /\ written' = written
      BY <1>1, <2>1 DEF PastRows, Past
    <2>2. CASE /\ latest' = [latest EXCEPT ![t] = row]
               /\ written' = [written EXCEPT ![t] = @ \cup {row}]
               /\ row.stamp > latest[t].stamp
      <3>1. CASE u # t
        <4>1. latest'[u] = latest[u] /\ written'[u] = written[u]
          BY <1>1, <2>2, <3>1
        <4> QED
          BY <1>1, <4>1 DEF PastRows, Past
      <3>2. CASE u = t
        <4>1. latest'[u] = row /\ written'[u] = written[u] \cup {row}
          BY <1>1, <2>2, <3>2
        <4>2. \A x \in KeyRow : x.stamp \in Nat
          BY StoreAssumption DEF KeyRow
        <4>3. ASSUME NEW r \in written'[u]
              PROVE  r \in KeyRow /\ r.stamp <= row.stamp /\ MintedFor(minted, r.key, u)
          <5>1. CASE r = row
            BY <1>1, <3>2, <4>2, <5>1
          <5>2. CASE r \in written[u]
            <6>1. r \in KeyRow /\ r.stamp <= latest[u].stamp /\ MintedFor(minted, r.key, u)
              BY <1>1, <5>2 DEF PastRows
            <6>2. r.stamp \in Nat /\ latest[u].stamp \in Nat /\ row.stamp \in Nat
              BY <1>1, <4>2, <6>1
            <6> QED
              BY <2>2, <3>2, <6>1, <6>2
          <5> QED
            BY <4>1, <5>1, <5>2
        <4> QED
          BY <4>1, <4>3 DEF Past
      <3> QED
        BY <3>1, <3>2
    <2> QED
      BY <1>4, <2>1, <2>2
  <1>10. PastCaches'
    BY <1>1, <1>2, <1>6 DEF PastCaches, Past
  <1> QED
    BY <1>7, <1>8, <1>9, <1>10 DEF PastInv

(* Every step caches, holds and scans rows that have been on record.        *)
LEMMA PastStep == StoreInv /\ StoreTypeOK /\ PastInv /\ [Next]_vars => PastInv'
  <1> SUFFICES ASSUME StoreInv, StoreTypeOK, PastInv, [Next]_vars PROVE PastInv'
    OBVIOUS
  <1>1. CASE UNCHANGED vars
    BY <1>1 DEF vars, state, PastInv, PastRows, PastCaches, KeysApart, Past, Minting
  <1>2. ASSUME NEW p \in Procs, Restart(p), History PROVE PastInv'
    BY <1>2, RestartPast
  <1>3. ASSUME NEW w \in Workers, Handle(w), History PROVE PastInv'
    <2>1. CASE \/ \E kind \in Kinds \ {"list"}, t \in Tenants : Request(w, kind, t)
               \/ GetCached(w) \/ GetRow(w) \/ List(w)
      BY <1>3, <2>1, LookupPast
    <2>2. CASE Answer(w) \/ CommitClashes(w) \/ Done(w) \/ DatabaseFails(w)
      BY <1>3, <2>2, LookupPast DEF Answer, CommitClashes, Done, DatabaseFails
    <2>3. CASE Mint(w)
      BY <1>3, <2>3, MintPast
    <2>4. CASE Revoke(w)
      BY <1>3, <2>4, RevokePast
    <2>5. CASE Load(w)
      BY <1>3, <2>5, LoadPast
    <2>6. CASE Commit(w)
      BY <1>3, <2>6, CommitPast
    <2>7. CASE ScanRows(w) \/ ScanKeys(w)
      BY <1>3, <2>7, ScanPast
    <2>8. CASE PutRow(w) \/ Publish(w)
      BY <1>3, <2>8, CachingPast
    <2> QED
      BY <1>3, <2>1, <2>2, <2>3, <2>4, <2>5, <2>6, <2>7, <2>8 DEF Handle, Upsert, Refresh
  <1> QED
    BY <1>1, <1>2, <1>3 DEF Next, Step

-----------------------------------------------------------------------------
(* The tenant store implements the key service.                             *)

(* A process two of whose requests are in progress is crowded, and stays so *)
(* until none is.                                                           *)
CrowdedOK ==
    \A p \in Procs : /\ (\E v, w \in Busy(p) : v # w) => p \in crowded
                     /\ p \in crowded => Busy(p) # {}

LEMMA CrowdedInit == Init => CrowdedOK
  <1> SUFFICES ASSUME Init PROVE CrowdedOK
    OBVIOUS
  <1>1. \A w \in Workers : job[w].pc = "idle"
    BY DEF Init, Blank
  <1>2. \A p \in Procs : Busy(p) = {}
    BY <1>1 DEF Busy
  <1> QED
    BY <1>2 DEF Init, CrowdedOK

LEMMA CrowdedStep == CrowdedOK /\ [Next]_vars => CrowdedOK'
  <1> SUFFICES ASSUME CrowdedOK, [Next]_vars PROVE CrowdedOK'
    OBVIOUS
  <1>1. CASE UNCHANGED vars
    BY <1>1 DEF vars, state, CrowdedOK, Busy
  <1>2. CASE History
    <2> SUFFICES ASSUME NEW p \in Procs
                 PROVE  /\ (\E v, w \in Busy(p)' : v # w) => p \in crowded'
                        /\ p \in crowded' => Busy(p)' # {}
      BY DEF CrowdedOK
    <2>1. p \in crowded' <=> (\E v, w \in Busy(p)' : v # w) \/ (p \in crowded /\ Busy(p)' # {})
      BY <1>2 DEF History
    <2> QED
      BY <2>1
  <1> QED
    BY <1>1, <1>2 DEF Next

(* An empty store serves nothing.                                           *)
LEMMA ServiceInit == Init => Service!Init
  <1> SUFFICES ASSUME Init PROVE Service!Init
    OBVIOUS
  <1>1. NoRecord.latest = Service!Nothing
    BY DEF NoRecord, NoKey, Service!Nothing
  <1>2. Served = [p \in Procs |-> [t \in Tenants |-> Service!Nothing]]
    BY <1>1 DEF Init, Served
  <1>3. \A w \in Workers : job[w].pc # "done"
    BY DEF Init, Blank
  <1>4. Answering = [p \in Procs |-> {}]
    <2>1. \A p \in Procs : Upserted(p) = {}
      BY <1>3 DEF Upserted
    <2> QED
      BY <2>1 DEF Answering
  <1> QED
    BY <1>2, <1>4 DEF Init, Service!Init

(* An invariant state answers what it serves.                               *)
LEMMA AnswersAreServed ==
  ASSUME StoreInv, FreshInv, NEW p \in Procs
  PROVE  \A write \in Answering[p] : Served[p][write[1]].stamp >= write[2]
  <1> SUFFICES ASSUME NEW write \in Answering[p] PROVE Served[p][write[1]].stamp >= write[2]
    OBVIOUS
  <1>1. PICK w \in Upserted(p) : write = <<job[w].tenant, job[w].stamp>>
    BY DEF Answering
  <1>2. /\ w \in Workers /\ Home[w] = p /\ p \notin crowded
        /\ job[w].pc = "done" /\ job[w].kind # "list"
    BY <1>1 DEF Upserted
  <1>3. job[w].tenant \in Tenants /\ job[w].stamp <= cache[p][job[w].tenant].latest.stamp
    BY <1>2 DEF StoreInv, JobOK, FreshInv, AloneOK, Settled, Mine
  <1>4. job[w].stamp \in Nat /\ cache[p][job[w].tenant].latest.stamp \in Nat
    BY <1>2, <1>3, Stamps
  <1>5. Served[p][job[w].tenant] = cache[p][job[w].tenant].latest
    BY <1>3 DEF Served
  <1> QED
    BY <1>1, <1>3, <1>4, <1>5

(* A process answers the same writes and is as crowded while its requests   *)
(* stay the same, and whatever they do that neither begins nor ends.        *)
LEMMA SameAnswers ==
  ASSUME CrowdedOK, History, NEW p \in Procs,
         \A w \in Workers : Home[w] = p =>
             \/ job'[w] = job[w]
             \/ job[w].pc \notin {"idle", "done"} /\ job'[w].pc \notin {"idle", "done"}
  PROVE  Answering'[p] = Answering[p] /\ (p \in crowded' <=> p \in crowded)
  <1>1. Busy(p)' = Busy(p)
    BY DEF Busy
  <1>2. p \in crowded' <=> p \in crowded
    BY <1>1 DEF History, CrowdedOK
  <1>3. Upserted(p)' = Upserted(p)
    BY <1>2 DEF Upserted
  <1>4. \A w \in Upserted(p) : job'[w] = job[w]
    BY DEF Upserted
  <1>5. {<<job[w].tenant, job[w].stamp>> : w \in Upserted(p)}'
          = {<<job[w].tenant, job[w].stamp>> : w \in Upserted(p)}
    BY <1>3, <1>4
  <1> QED
    BY <1>2, <1>5 DEF Answering

(* A step in which no request begins or ends leaves the answers alone.      *)
LEMMA QuietAnswers ==
  ASSUME StoreTypeOK, CrowdedOK, History, NEW w \in Workers,
         \A v \in Workers : v # w => job'[v] = job[v],
         job[w].pc \notin {"idle", "done"}, job'[w].pc \notin {"idle", "done"}
  PROVE  UNCHANGED <<Answering, crowded>>
  <1>1. \A p \in Procs : Answering'[p] = Answering[p] /\ (p \in crowded' <=> p \in crowded)
    BY SameAnswers
  <1>2. Answering' = Answering
    BY <1>1 DEF Answering
  <1>3. crowded' = crowded
    <2>1. crowded' \subseteq Procs /\ crowded \subseteq Procs
      BY DEF History, StoreTypeOK
    <2> QED
      BY <1>1, <2>1
  <1> QED
    BY <1>2, <1>3

(* A step of one process that neither mints nor writes serves.              *)
LEMMA ServeStep ==
  ASSUME StoreInv, StoreInv', StoreTypeOK, FreshInv', PastInv, PastInv', CrowdedOK, History,
         Forward, UNCHANGED <<minted, latest>>, NEW p \in Procs,
         \A q \in Procs : q # p => cache'[q] = cache[q],
         \A w \in Workers : Home[w] # p => job'[w] = job[w]
  PROVE  Service!Serve(p)
  <1>1. ASSUME NEW q \in Procs, q # p
        PROVE  /\ Served'[q] = Served[q] /\ Answering'[q] = Answering[q]
               /\ q \in crowded' <=> q \in crowded
    <2>1. Answering'[q] = Answering[q] /\ (q \in crowded' <=> q \in crowded)
      BY <1>1, SameAnswers
    <2> QED
      BY <1>1, <2>1 DEF Served
  <1>2. Served' = [Served EXCEPT ![p] = Served'[p]]
    BY <1>1 DEF Served
  <1>3. Answering' = [Answering EXCEPT ![p] = Answering'[p]]
    BY <1>1 DEF Answering
  <1>4. crowded' \ {p} = crowded \ {p}
    <2>1. crowded' \subseteq Procs /\ crowded \subseteq Procs
      BY DEF History, StoreTypeOK
    <2> QED
      BY <1>1, <2>1
  <1>5. \A write \in Answering'[p] : Served'[p][write[1]].stamp >= write[2]
    <2>1. (\A write \in Answering[p] : Served[p][write[1]].stamp >= write[2])'
      BY AnswersAreServed, PTL
    <2> QED
      BY <2>1
  <1>6. written' = written
    BY SamePast DEF PastInv
  <1>7. \A t \in Tenants : Served'[p][t] \in written[t] \cup {Service!Nothing}
    BY <1>6 DEF PastInv, PastCaches, Past, Served, NoKey, Service!Nothing
  <1>8. ASSUME NEW t \in Tenants, p \notin crowded PROVE Served'[p][t].stamp >= Served[p][t].stamp
    <2>1. cache[p][t].latest.stamp <= cache'[p][t].latest.stamp
      BY <1>8 DEF Forward
    <2>2. cache[p][t].latest.stamp \in Nat
      BY Stamps
    <2>3. cache'[p][t].latest.stamp \in Nat
      BY StoreAssumption DEF StoreInv, StateTypeOK, Record, KeyRow
    <2> QED
      BY <2>1, <2>2, <2>3 DEF Served
  <1> QED
    BY <1>2, <1>3, <1>4, <1>5, <1>6, <1>7, <1>8 DEF Service!Serve

(* A key minted for a tenant is issued to it.                               *)
LEMMA MintServes ==
  ASSUME StoreInv, StoreInv', StoreTypeOK, FreshInv', PastInv, PastInv', CrowdedOK, History,
         Forward, NEW w \in Workers, Mint(w)
  PROVE  [Service!Next]_Service!serviceVars
  <1>1. /\ job \in [Workers -> Job] /\ job[w] \in Job /\ Home[w] \in Procs
        /\ job[w].pc = "act" /\ job[w].tenant \in Tenants /\ UNCHANGED <<latest, cache>>
    BY StoreAssumption DEF Mint, StoreInv, StateTypeOK, JobOK
  <1>2. CASE Finish(w) /\ UNCHANGED minted
    <2>1. \A v \in Workers : Home[v] # Home[w] => job'[v] = job[v]
      BY <1>1, <1>2 DEF Finish
    <2>2. Service!Serve(Home[w])
      BY <1>1, <1>2, <2>1, ServeStep
    <2> QED
      BY <1>1, <2>2 DEF Service!Next
  <1>3. CASE /\ minted' = Append(minted, job[w].tenant)
             /\ job' = [job EXCEPT ![w].pc = "load", ![w].key = Len(minted) + 1]
    <2>1. job'[w].pc = "load" /\ \A v \in Workers : v # w => job'[v] = job[v]
      BY <1>1, <1>3 DEF Job
    <2>2. UNCHANGED <<Answering, crowded>>
      BY <1>1, <2>1, QuietAnswers
    <2>3. Served' = Served /\ written' = written
      BY <1>1, SamePast DEF Served, PastInv
    <2>4. Service!Issue(job[w].tenant)
      BY <1>3, <2>2, <2>3 DEF Service!Issue
    <2> QED
      BY <1>1, <2>4 DEF Service!Next
  <1> QED
    BY <1>2, <1>3 DEF Mint

(* A commit writes a newer row of a new key, or of a known one where it     *)
(* revokes, or leaves the row on record.                                    *)
LEMMA CommitServes ==
  ASSUME StoreInv, StoreTypeOK, PastInv, CrowdedOK, History, NEW w \in Workers, Commit(w)
  PROVE  [Service!Next]_Service!serviceVars
  <1> DEFINE t == job[w].tenant
             row == NewRow(job[w])
  <1>1. /\ job \in [Workers -> Job] /\ job[w] \in Job /\ job[w].pc = "commit" /\ t \in Tenants
        /\ latest \in [Tenants -> KeyRow] /\ written \in [Tenants -> SUBSET KeyRow]
        /\ row \in KeyRow /\ MintedFor(minted, row.key, t)
        /\ PastJob(written, job[w]) /\ PastRows
    BY DEF Commit, NewRow, StoreInv, StateTypeOK, StoreTypeOK, Job, JobOK, KeyRow, PastInv
  <1>2. job'[w].pc = "rows" /\ \A v \in Workers : v # w => job'[v] = job[v]
    BY <1>1 DEF Commit, Goto, Job
  <1>3. UNCHANGED <<Answering, crowded>>
    BY <1>1, <1>2, QuietAnswers
  <1>4. Served' = Served /\ minted' = minted
    BY DEF Commit, Served
  <1>5. row.key = job[w].key /\ (row.again <=> job[w].kind = "revoke")
    BY DEF NewRow
  <1> HIDE DEF row
  <1>6. \/ latest' = latest /\ written' = written
        \/ /\ latest' = [latest EXCEPT ![t] = row]
           /\ written' = [written EXCEPT ![t] = @ \cup {row}]
           /\ row.stamp > latest[t].stamp
    BY CommitAdds DEF row
  <1>7. CASE written' = written
    BY <1>3, <1>4, <1>7 DEF Service!serviceVars
  <1>8. CASE /\ written' = [written EXCEPT ![t] = @ \cup {row}]
             /\ row.stamp > latest[t].stamp
    <2>1. Service!Owned(row, t)
      BY <1>1 DEF MintedFor, Service!Owned
    <2>2. \A old \in written[t] : row.stamp > old.stamp
      <3>1. \A x \in KeyRow : x.stamp \in Nat
        BY StoreAssumption DEF KeyRow
      <3>2. \A old \in written[t] : old \in KeyRow /\ old.stamp <= latest[t].stamp
        BY <1>1 DEF PastRows
      <3> QED
        BY <1>1, <1>8, <3>1, <3>2
    <2>3. IF row.again THEN Service!Known(row.key, t) ELSE Service!New(row.key)
      BY <1>1, <1>5 DEF PastJob, Minting, Service!Known, Service!New
    <2>4. row \in written'[t]
      BY <1>1, <1>8
    <2>5. Service!Write(t)
      BY <1>3, <1>4, <1>8, <2>1, <2>2, <2>3, <2>4 DEF Service!Write
    <2> QED
      BY <1>1, <2>5 DEF Service!Next
  <1> QED
    BY <1>6, <1>7, <1>8

(* All other steps of a request touch its process only.                     *)
LEMMA LocalStep ==
  ASSUME StoreInv, NEW w \in Workers, Handle(w), ~Mint(w), ~Commit(w)
  PROVE  /\ UNCHANGED <<minted, latest>>
         /\ \A q \in Procs : q # Home[w] => cache'[q] = cache[q]
         /\ \A v \in Workers : Home[v] # Home[w] => job'[v] = job[v]
  <1>1. job \in [Workers -> Job] /\ cache \in [Procs -> [Tenants -> Record]]
    BY DEF StoreInv, StateTypeOK
  <1>2. CASE \E kind \in Kinds \ {"list"}, t \in Tenants : Request(w, kind, t)
    BY <1>1, <1>2 DEF Request
  <1>3. CASE GetCached(w) \/ GetRow(w) \/ Load(w) \/ List(w) \/ ScanRows(w) \/ ScanKeys(w)
    BY <1>1, <1>3 DEF GetCached, GetRow, Load, List, ScanRows, ScanKeys
  <1>4. CASE Answer(w) \/ CommitClashes(w) \/ DatabaseFails(w) \/ Done(w)
    BY <1>1, <1>4 DEF Answer, CommitClashes, DatabaseFails, Done, Finish
  <1>5. CASE PutRow(w)
    BY <1>1, <1>5 DEF PutRow, Orphaned
  <1>6. CASE Publish(w)
    BY <1>1, <1>6 DEF Publish, Orphaned
  <1>7. CASE Revoke(w)
    BY <1>1, <1>7 DEF Revoke
  <1> QED
    BY <1>2, <1>3, <1>4, <1>5, <1>6, <1>7 DEF Handle, Upsert, Refresh

(* Every step is one of the service, or none.                               *)
LEMMA ServiceStep ==
  StoreInv /\ StoreInv' /\ StoreTypeOK /\ FreshInv /\ PastInv /\ CrowdedOK /\ [Next]_vars
    => [Service!Next]_Service!serviceVars
  <1> SUFFICES ASSUME StoreInv, StoreInv', StoreTypeOK, FreshInv, PastInv, CrowdedOK, [Next]_vars
               PROVE  [Service!Next]_Service!serviceVars
    OBVIOUS
  <1>1. FreshInv' /\ Forward /\ PastInv'
    BY FreshStep, PastStep
  <1>2. CASE UNCHANGED vars
    BY <1>2 DEF vars, state, Service!serviceVars, Served, Answering, Upserted
  <1>3. ASSUME NEW p \in Procs, Restart(p), History PROVE [Service!Next]_Service!serviceVars
    <2>1. /\ UNCHANGED <<minted, latest>>
          /\ \A q \in Procs : q # p => cache'[q] = cache[q]
          /\ \A w \in Workers : Home[w] # p => job'[w] = job[w]
      BY <1>3 DEF Restart, StoreInv, StateTypeOK
    <2>2. Service!Serve(p)
      BY <1>1, <1>3, <2>1, ServeStep
    <2> QED
      BY <2>2 DEF Service!Next
  <1>4. ASSUME NEW w \in Workers, Handle(w), History PROVE [Service!Next]_Service!serviceVars
    <2>1. CASE Mint(w)
      BY <1>1, <1>4, <2>1, MintServes
    <2>2. CASE Commit(w)
      BY <1>4, <2>2, CommitServes
    <2>3. CASE ~Mint(w) /\ ~Commit(w)
      <3>1. Home[w] \in Procs
        BY StoreAssumption
      <3>2. Service!Serve(Home[w])
        BY <1>1, <1>4, <2>3, <3>1, LocalStep, ServeStep
      <3> QED
        BY <3>1, <3>2 DEF Service!Next
    <2> QED
      BY <2>1, <2>2, <2>3
  <1> QED
    BY <1>2, <1>3, <1>4 DEF Next, Step

(* The tenant store implements the key service (ServiceSpec), for any number*)
(* of processes, threads and tenants: caches, refreshes, read-throughs and  *)
(* restarts are looks at rows that were on record, which go back only where *)
(* requests of a process overlap; a minted key enters the record once, and  *)
(* only a revocation puts an older one back; and an upsert no other request *)
(* of its process overlaps is answered once it is served.                   *)
THEOREM StoreImplementsService == Spec => ServiceSpec
  <1>1. StoreInv /\ StoreInv' /\ StoreTypeOK /\ FreshInv /\ PastInv /\ CrowdedOK /\ [Next]_vars
          => FreshInv' /\ PastInv' /\ CrowdedOK' /\ [Service!Next]_Service!serviceVars
    BY FreshStep, PastStep, CrowdedStep, ServiceStep
  <1> QED
    BY <1>1, FreshInit, PastInit, CrowdedInit, ServiceInit, StoreInvariant, StoreTypes, PTL
       DEF Spec, ServiceSpec, Service!Spec
=============================================================================
