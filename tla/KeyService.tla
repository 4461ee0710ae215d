----------------------------- MODULE KeyService -----------------------------
(***************************************************************************)
(* What the tenant store promises of subkeys, with no cache, refresh, row  *)
(* object or lock in it: a subkey is one tenant's for good and enters the  *)
(* record once, unless a revocation puts it there again; rows on record    *)
(* give way to newer ones only; an API process serves rows that were on    *)
(* record, goes back to an older one only while requests of its own        *)
(* overlap, and otherwise answers a write when it serves that write or a   *)
(* newer one.                                                              *)
(*                                                                         *)
(* So a newer row may well hold an older key: a revocation, which names the*)
(* key it found, puts that key above one a rotation has put there since.   *)
(***************************************************************************)
EXTENDS Integers, Sequences

CONSTANTS
    Procs,     \* API processes
    Tenants    \* tenants

VARIABLES
    keys,       \* the tenant of each subkey, a key id being its place
    rows,       \* the key rows each tenant has had on record; the newest counts
    view,       \* the row each process serves for each tenant
    answering,  \* the writes each process is answering: <<tenant, stamp>>
    crowded     \* the processes whose requests overlap

serviceVars == <<keys, rows, view, answering, crowded>>

Nothing == [key |-> 0, stamp |-> 0, again |-> FALSE]    \* no key yet

Init ==
    /\ keys = <<>>
    /\ rows = [t \in Tenants |-> {}]
    /\ view = [p \in Procs |-> [t \in Tenants |-> Nothing]]
    /\ answering = [p \in Procs |-> {}]
    /\ crowded = {}

Owned(row, t) == row.key # 0 => row.key \in DOMAIN keys /\ keys[row.key] = t

Issue(t) ==
    /\ keys' = Append(keys, t)
    /\ UNCHANGED <<rows, view, answering, crowded>>

(* A key new to the record, and one a revocation puts there again.          *)
New(key) == key # 0 /\ \A t \in Tenants : \A row \in rows[t] : row.key # key

Known(key, t) == key = 0 \/ \E row \in rows[t] : row.key = key

Write(t) ==
    /\ \E row \in rows'[t] :
          /\ rows' = [rows EXCEPT ![t] = @ \cup {row}]
          /\ Owned(row, t)
          /\ \A old \in rows[t] : row.stamp > old.stamp
          /\ IF row.again THEN Known(row.key, t) ELSE New(row.key)
    /\ UNCHANGED <<keys, view, answering, crowded>>

(* A process looks at the record again, as a whole or in part, and answers. *)
Serve(p) ==
    /\ view' = [view EXCEPT ![p] = view'[p]]
    /\ answering' = [answering EXCEPT ![p] = answering'[p]]
    /\ crowded' \ {p} = crowded \ {p}
    /\ \A t \in Tenants :
          /\ view'[p][t] \in rows[t] \cup {Nothing}
          /\ p \notin crowded => view'[p][t].stamp >= view[p][t].stamp
    /\ \A write \in answering'[p] : view'[p][write[1]].stamp >= write[2]
    /\ UNCHANGED <<keys, rows>>

Next ==
    \/ \E t \in Tenants : Issue(t) \/ Write(t)
    \/ \E p \in Procs : Serve(p)

Spec == Init /\ [][Next]_serviceVars
=============================================================================
