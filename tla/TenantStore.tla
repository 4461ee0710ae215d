---------------------------- MODULE TenantStore ----------------------------
(***************************************************************************)
(* The SQL tenant store and its cache (apps/broker_api/tenant_store_sql.py)*)
(* under the handlers that use it: purchases, and the administrator's      *)
(* create, rotate and revoke (routers/tenants.py).  Each API process holds *)
(* a cache of the whole table, replaced after every upsert by what a       *)
(* refresh has read; the lock covers the replacement, not the reads.       *)
(*                                                                         *)
(* A tenant is its status and its latest key, the key row with the latest  *)
(* created_at, which is stamped when the row object is made and not when it*)
(* is committed; label, quota, expiry and owner travel with them and are   *)
(* left out.  What Venice does with a revoked key is out of the broker's   *)
(* sight.  `delete' has no caller.                                         *)
(***************************************************************************)
EXTENDS Integers, Sequences

CONSTANTS
    Procs,      \* API processes
    Workers,    \* request threads
    Home,       \* Home[w]: the process of w
    Tenants,    \* tenant ids
    MaxKeys,    \* bound: keys minted in a behaviour
    MaxWrites,  \* bound: upserts in a behaviour
    DbMayFail,  \* whether database statements may fail
    None        \* no tenant

ASSUME StoreAssumption ==
    /\ Home \in [Workers -> Procs]
    /\ MaxKeys \in Nat
    /\ MaxWrites \in Nat
    /\ DbMayFail \in BOOLEAN
    /\ None \notin Tenants

VARIABLES
    status,    \* tenant.status by id, "absent" where there is no row
    latest,    \* the latest key row of each tenant: key and stamp
    minted,    \* the tenant each key was minted for, a key being its place
    stamps,    \* upserts stamped so far
    cache,     \* _cache of each process
    job,       \* what each thread is doing
    written,   \* history: the key rows each tenant has had as its latest
    crowded    \* history: the processes whose requests overlap

state == <<status, latest, minted, stamps, cache, job>>

vars == <<state, written, crowded>>

KeyIds == 0..MaxKeys    \* 0: the empty subkey of a tenant with no key row

Statuses == {"absent", "active", "revoked"}

(* `again' marks a row a revocation made, of the key it found.              *)
KeyRow == [key: KeyIds, stamp: 0..MaxWrites, again: BOOLEAN]

NoKey == [key |-> 0, stamp |-> 0, again |-> FALSE]

Record == [status: Statuses, latest: KeyRow]

NoRecord == [status |-> "absent", latest |-> NoKey]

(* A request in progress: `held' is the Tenant object get returned, `live'  *)
(* tells whether that object is still the one in the cache, `key' goes into *)
(* the new key row, `seen' is the status loaded by the upsert and `scan'    *)
(* what its refresh has read.                                               *)
Kinds == {"purchase", "create", "rotate", "revoke", "list"}

Job == [pc: {"idle", "get", "put", "act", "load", "commit", "rows", "keys", "publish", "done"},
        kind: Kinds, tenant: Tenants \cup {None}, held: Record, live: BOOLEAN, key: KeyIds,
        seen: Statuses, stamp: 0..MaxWrites, scan: [Tenants -> Record]]

Blank == [pc |-> "idle", kind |-> "list", tenant |-> None, held |-> NoRecord,
          live |-> FALSE, key |-> 0, seen |-> "absent", stamp |-> 0,
          scan |-> [t \in Tenants |-> NoRecord]]

StateTypeOK ==
    /\ status \in [Tenants -> Statuses]
    /\ latest \in [Tenants -> KeyRow]
    /\ minted \in Seq(Tenants) /\ Len(minted) \in KeyIds
    /\ stamps \in 0..MaxWrites
    /\ cache \in [Procs -> [Tenants -> Record]]
    /\ job \in [Workers -> Job]

StoreTypeOK ==
    /\ StateTypeOK
    /\ written \in [Tenants -> SUBSET KeyRow]
    /\ crowded \subseteq Procs

(* What a read of the tables shows of a tenant.                             *)
OnRecord(t) == IF status[t] = "absent" THEN NoRecord
               ELSE [status |-> status[t], latest |-> latest[t]]

Init ==
    /\ status = [t \in Tenants |-> "absent"]
    /\ latest = [t \in Tenants |-> NoKey]
    /\ minted = <<>>
    /\ stamps = 0
    /\ cache = [p \in Procs |-> [t \in Tenants |-> NoRecord]]
    /\ job = [w \in Workers |-> Blank]
    /\ written = [t \in Tenants |-> {}]
    /\ crowded = {}

---------------------------------------------------------------------------
Mine(w) == cache[Home[w]]

Goto(w, step) == job' = [job EXCEPT ![w].pc = step]

Finish(w) == job' = [job EXCEPT ![w] = Blank]    \* a reply, or an exception

(* create_tenant, which also rotates, is a coroutine that never awaits: a   *)
(* process runs one at a time, beside the threads of the other handlers.    *)
Coroutines == {"create", "rotate"}

(* A handler that works on one tenant begins with get.                      *)
Request(w, kind, t) ==
    /\ job[w].pc = "idle"
    /\ kind \in Coroutines =>
         \A v \in Workers : Home[v] = Home[w] => job[v].kind \notin Coroutines
    /\ job' = [job EXCEPT ![w] = [Blank EXCEPT !.pc = "get", !.kind = kind, !.tenant = t]]
    /\ UNCHANGED <<status, latest, minted, stamps, cache>>

(* get: the cached object itself, or a copy of the row, cached afterwards.  *)
GetCached(w) ==
    /\ job[w].pc = "get"
    /\ Mine(w)[job[w].tenant].status # "absent"
    /\ job' = [job EXCEPT ![w].pc = "act", ![w].live = TRUE,
                          ![w].held = Mine(w)[job[w].tenant]]
    /\ UNCHANGED <<status, latest, minted, stamps, cache>>

GetRow(w) ==
    /\ job[w].pc = "get"
    /\ Mine(w)[job[w].tenant].status = "absent"
    /\ job' = [job EXCEPT ![w].pc = IF status[job[w].tenant] = "absent" THEN "act" ELSE "put",
                          ![w].held = OnRecord(job[w].tenant)]
    /\ UNCHANGED <<status, latest, minted, stamps, cache>>

(* Objects other threads hold of what is replaced are theirs alone now.     *)
Orphaned(w, gone) ==
    [v \in Workers |-> IF Home[v] = Home[w] /\ job[v].tenant \in gone
                       THEN [job[v] EXCEPT !.live = FALSE] ELSE job[v]]

PutRow(w) ==
    /\ job[w].pc = "put"
    /\ cache' = [cache EXCEPT ![Home[w]][job[w].tenant] = job[w].held]
    /\ job' = [Orphaned(w, {job[w].tenant}) EXCEPT ![w].pc = "act", ![w].live = TRUE]
    /\ UNCHANGED <<status, latest, minted, stamps>>

(* create_tenant answers for a tenant it finds, unless asked to rotate;     *)
(* revoke_tenant_key answers 404 for one it does not find.                  *)
Answers(j) ==
    \/ j.kind = "create" /\ j.held.status # "absent"
    \/ j.kind = "revoke" /\ j.held.status = "absent"

Answer(w) ==
    /\ job[w].pc = "act"
    /\ Answers(job[w])
    /\ Finish(w)
    /\ UNCHANGED <<status, latest, minted, stamps, cache>>

(* issue_scoped_key, which may also fail and end the request.               *)
Mint(w) ==
    /\ job[w].pc = "act"
    /\ ~Answers(job[w]) /\ job[w].kind # "revoke"
    /\ \/ Finish(w) /\ UNCHANGED minted
       \/ /\ Len(minted) < MaxKeys
          /\ minted' = Append(minted, job[w].tenant)
          /\ job' = [job EXCEPT ![w].pc = "load", ![w].key = Len(minted) + 1]
    /\ UNCHANGED <<status, latest, stamps, cache>>

(* Revocation marks the object get returned, wherever it is shared, and     *)
(* upserts it: its old key becomes a new key row.                           *)
Revoke(w) ==
    /\ job[w].pc = "act"
    /\ ~Answers(job[w]) /\ job[w].kind = "revoke"
    /\ cache' = IF job[w].live
                THEN [cache EXCEPT ![Home[w]][job[w].tenant].status = "revoked"]
                ELSE cache
    /\ job' = [job EXCEPT ![w].pc = "load", ![w].key = job[w].held.latest.key]
    /\ UNCHANGED <<status, latest, minted, stamps>>

(* upsert loads the row, and the key row is stamped as it is made.          *)
Load(w) ==
    /\ job[w].pc = "load"
    /\ stamps < MaxWrites
    /\ stamps' = stamps + 1
    /\ job' = [job EXCEPT ![w].pc = "commit", ![w].seen = status[job[w].tenant],
                          ![w].stamp = stamps + 1]
    /\ UNCHANGED <<status, latest, minted, cache>>

NewStatusAsAsked(j) ==                   \* mutant: the request's word for the status
    IF j.kind = "revoke" THEN "revoke" ELSE "active"

NewStatus(j) == IF j.kind = "revoke" THEN "revoked" ELSE "active"

(* The commit fails where another thread has inserted the row meanwhile; a  *)
(* status equal to the one loaded is not written.                           *)
InsertClashes(w) == job[w].seen = "absent" /\ status[job[w].tenant] # "absent"

NewestById(w, row) == TRUE               \* mutant: ordered by id, not by created_at

Newest(w, row) == job[w].stamp > row.stamp

NewRow(j) == [key |-> j.key, stamp |-> j.stamp, again |-> j.kind = "revoke"]

Commit(w) ==
    /\ job[w].pc = "commit"
    /\ ~InsertClashes(w)
    /\ LET t == job[w].tenant IN
       /\ status' = IF job[w].seen = NewStatus(job[w]) THEN status
                    ELSE [status EXCEPT ![t] = NewStatus(job[w])]
       /\ latest' = IF Newest(w, latest[t])
                    THEN [latest EXCEPT ![t] = NewRow(job[w])]
                    ELSE latest
    /\ Goto(w, "rows")
    /\ UNCHANGED <<minted, stamps, cache>>

CommitClashes(w) ==
    /\ job[w].pc = "commit"
    /\ InsertClashes(w)
    /\ Finish(w)
    /\ UNCHANGED <<status, latest, minted, stamps, cache>>

(* _refresh_cache: the tenant rows, then for each row its latest key, then  *)
(* the replacement of the cache.                                            *)
ScanRows(w) ==
    /\ job[w].pc = "rows"
    /\ job' = [job EXCEPT ![w].pc = "keys",
                          ![w].scan = [t \in Tenants |-> [NoRecord EXCEPT !.status = status[t]]]]
    /\ UNCHANGED <<status, latest, minted, stamps, cache>>

LatestKeyOfAll(t) ==                     \* mutant: no filter on tenant_id
    LET newest == CHOOSE s \in Tenants : \A r \in Tenants : latest[r].stamp <= latest[s].stamp
    IN  latest[newest]

LatestKey(t) == latest[t]

ScanKeys(w) ==
    /\ job[w].pc = "keys"
    /\ job' = [job EXCEPT ![w].pc = "publish",
                          ![w].scan = [t \in Tenants |->
                              IF job[w].scan[t].status = "absent" THEN NoRecord
                              ELSE [job[w].scan[t] EXCEPT !.latest = LatestKey(t)]]]
    /\ UNCHANGED <<status, latest, minted, stamps, cache>>

PublishMissing(w) ==                     \* mutant: cached tenants are left alone
    /\ job[w].pc = "publish"
    /\ cache' = [cache EXCEPT ![Home[w]] =
                    [t \in Tenants |-> IF @[t].status = "absent" THEN job[w].scan[t] ELSE @[t]]]
    /\ job' = [Orphaned(w, Tenants) EXCEPT ![w].pc = "done"]
    /\ UNCHANGED <<status, latest, minted, stamps>>

Publish(w) ==
    /\ job[w].pc = "publish"
    /\ cache' = [cache EXCEPT ![Home[w]] = job[w].scan]
    /\ job' = [Orphaned(w, Tenants) EXCEPT ![w].pc = "done"]
    /\ UNCHANGED <<status, latest, minted, stamps>>

Done(w) ==
    /\ job[w].pc = "done"
    /\ Finish(w)
    /\ UNCHANGED <<status, latest, minted, stamps, cache>>

(* The database fails a statement of the upsert or of the refresh.          *)
DatabaseFails(w) ==
    /\ DbMayFail
    /\ job[w].pc \in {"load", "commit", "rows", "keys"}
    /\ Finish(w)
    /\ UNCHANGED <<status, latest, minted, stamps, cache>>

(* all refreshes a cache that is empty; authorisation by subkey goes        *)
(* through it.                                                              *)
List(w) ==
    /\ job[w].pc = "idle"
    /\ \A t \in Tenants : Mine(w)[t].status = "absent"
    /\ job' = [job EXCEPT ![w].pc = "rows"]
    /\ UNCHANGED <<status, latest, minted, stamps, cache>>

(* A process restarts and fills its cache anew.                             *)
Restart(p) ==
    /\ cache' = [cache EXCEPT ![p] = [t \in Tenants |-> OnRecord(t)]]
    /\ job' = [w \in Workers |-> IF Home[w] = p THEN Blank ELSE job[w]]
    /\ UNCHANGED <<status, latest, minted, stamps>>

---------------------------------------------------------------------------
Upsert(w) == Load(w) \/ Commit(w) \/ CommitClashes(w) \/ DatabaseFails(w)

Refresh(w) == List(w) \/ ScanRows(w) \/ ScanKeys(w) \/ Publish(w)

Handle(w) ==
    \/ \E kind \in Kinds \ {"list"}, t \in Tenants : Request(w, kind, t)
    \/ GetCached(w) \/ GetRow(w) \/ PutRow(w)
    \/ Answer(w) \/ Mint(w) \/ Revoke(w)
    \/ Upsert(w) \/ Refresh(w) \/ Done(w)

(* The history, which no step reads: the rows that have been the latest, and*)
(* the processes in which two requests were in progress at once since none  *)
(* last was.                                                                *)
Busy(p) == {w \in Workers : Home[w] = p /\ job[w].pc # "idle"}

History ==
    /\ written' = [t \in Tenants |-> written[t] \cup ({latest'[t]} \ {NoKey})]
    /\ crowded' = {p \in Procs : \/ \E v, w \in Busy(p)' : v # w
                                 \/ p \in crowded /\ Busy(p)' # {}}

Step == (\E w \in Workers : Handle(w)) \/ (\E p \in Procs : Restart(p))

Next == Step /\ History

Spec == Init /\ [][Next]_vars

---------------------------------------------------------------------------
(* Properties.                                                              *)

(* A subkey authorises no tenant but the one it was minted for, whatever    *)
(* refreshes, read-throughs and re-inserted keys race in whatever process.  *)
SubkeyIsOwn ==
    \A p \in Procs, t \in Tenants :
        LET k == cache[p][t].latest.key IN k # 0 => k \in DOMAIN minted /\ minted[k] = t

(* A request that no other of its process overlapped leaves a cache no older*)
(* than what it has just written, whatever other processes write and        *)
(* whatever overlapped before it.                                           *)
ReadsOwnWrites ==
    \A w \in Workers :
        job[w].pc = "done" /\ job[w].kind # "list" /\ Home[w] \notin crowded =>
            Mine(w)[job[w].tenant].latest.stamp >= job[w].stamp

(* What each process serves of keys, and the upserts it is about to answer, *)
(* which count where requests do not overlap.                               *)
Served == [p \in Procs |-> [t \in Tenants |-> cache[p][t].latest]]

Upserted(p) ==
    {w \in Workers : Home[w] = p /\ p \notin crowded
                        /\ job[w].pc = "done" /\ job[w].kind # "list"}

Answering == [p \in Procs |-> {<<job[w].tenant, job[w].stamp>> : w \in Upserted(p)}]

Service == INSTANCE KeyService WITH keys <- minted, rows <- written,
                                    view <- Served, answering <- Answering

(* Requests, refreshes and restarts are, seen from outside, steps of the key*)
(* service of KeyService: a minted key enters the record once, and an older *)
(* one comes back by a revocation only (the stale upsert of tenants.py:235);*)
(* every scan of two tables that other processes write meanwhile is one look*)
(* at rows that were on record; and where requests of a process do not      *)
(* overlap it never goes back to an older row, and a request is answered    *)
(* when its write is served.                                                *)
ServiceSpec == Service!Spec

(* "assert client.get("/v1/me") ... == 401" after a revocation              *)
(* (test_broker_revocation_enforcement.py): with every request answered, no *)
(* tenant revoked on record is served as active.                            *)
RevokedIsRefused ==
    (\A w \in Workers : job[w].pc = "idle") =>
        \A p \in Procs, t \in Tenants : status[t] = "revoked" => cache[p][t].status # "active"
=============================================================================
