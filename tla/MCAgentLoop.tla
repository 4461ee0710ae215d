---------------------------- MODULE MCAgentLoop ----------------------------
(* Each profile lets one part of the loop vary and holds the others calm, so *)
(* the state space is a sum over the profiles and not their product.         *)
EXTENDS AgentLoop

Empty == [stake |-> 0, wallet |-> 4, allowance |-> 0, rewards |-> 0,
          pending |-> <<>>]

Idle == [stake |-> 3, wallet |-> 1, allowance |-> 0, rewards |-> 0,
         pending |-> <<>>]

Ripe == [Idle EXCEPT !.wallet = 0, !.rewards = 1]

Calm == [gated |-> FALSE, auto |-> FALSE, fallback |-> FALSE, faults |-> {},
         until |-> 0, chain |-> Idle, values |-> {"dust"}, prices |-> {100}, health |-> {"ok"},
         wild |-> {FALSE}, utils |-> {60}, signals |-> {FALSE},
         recoveries |-> {FALSE}, notes |-> {"none"}, premiums |-> {110},
         errors |-> {0}, outcomes |-> {"done"}]

(* From nothing staked to live, with nothing failing. *)
Healthy == [Calm EXCEPT !.gated = TRUE, !.auto = TRUE, !.chain = Empty, !.until = 2,
                        !.values = {"worth", "poor"}, !.notes = {"none", "short"}]

(* The first stake, and transactions that fail or whose answer is lost. *)
Sending == [Healthy EXCEPT !.notes = {"none"}, !.until = 0, !.values = {"dust"},
              !.faults = {"raise", "nonce", "send", "answer", "nonce error", "crash"}]

Reading == [Healthy EXCEPT !.notes = {"none"}, !.until = 0, !.values = {"dust"},
              !.faults = {"raise", "status", "balance", "nonce", "overflow"}]

(* A stake too small for the automatic stake: a heartbeat is all that earns. *)
Beating == [Healthy EXCEPT !.notes = {"none"}, !.chain = [Empty EXCEPT !.wallet = 1],
              !.faults = {"beat", "raise", "kv write", "crash"}]

(* Claims and heartbeats over a KV store and a process that fail. *)
Claiming == [Calm EXCEPT !.until = 1, !.values = Values, !.chain = Ripe,
               !.faults = {"kv read", "kv write", "crash"}]

Answering == [Claiming EXCEPT !.faults = {"answer", "send", "beat"}]

(* The price guard, its streaks and its records. *)
Pricing == [Calm EXCEPT !.prices = {Unknown, 0, 100}, !.health = Healths,
                        !.signals = BOOLEAN,
                        !.faults = {"market", "timeout", "store", "crash"}]

FilePricing == [Pricing EXCEPT !.fallback = TRUE, !.faults = {"store", "crash"}]

(* The halts: failing legs, a failing stake step, drawdowns. *)
Halting == [Calm EXCEPT !.until = 2, !.prices = {80, 100}, !.wild = BOOLEAN, !.signals = BOOLEAN,
                        !.errors = {Unknown, 0, 1}, !.outcomes = Outcomes \ {"none"},
                        !.notes = {"none", "mismatch"},
                        !.faults = {"raise", "sim", "crash"}]

(* Recovery of locked stake through a halt. *)
Recovering == [Calm EXCEPT !.until = 1, !.prices = {80, 100}, !.utils = {60, 90, 95},
                           !.recoveries = BOOLEAN, !.signals = BOOLEAN,
                           !.premiums = {0, 110}, !.outcomes = {"done", "error"},
                           !.faults = {"raise", "sim", "status", "beat"}]

MCProfiles == {Healthy, Sending, Reading, Beating, Claiming, Answering,
               Pricing, FilePricing, Halting, Recovering}
=============================================================================
