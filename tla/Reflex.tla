------------------------------- MODULE Reflex -------------------------------
(***************************************************************************)
(* The two brakes of the agent loop, as functions.  The guardian           *)
(* (agents/reflex/guardian.py) looks at a cycle before it trades and at    *)
(* the record of the one before; the reflection                            *)
(* (services/memory/reflection.py) scores a finished cycle, and a high     *)
(* severity that no label excuses halts the next ones.                     *)
(***************************************************************************)
EXTENDS Integers

CONSTANTS
    InactiveLimit,  \* REFLEX_STAKE_INACTIVE_CONSEC, 3 by default
    ErrorLimit,     \* provider error streak that halts, 2 by default
    Unknown         \* a reading that is absent

ASSUME LimitsAssumption ==
    /\ InactiveLimit \in Nat \ {0}
    /\ ErrorLimit \in Nat \ {0}
    /\ Unknown \notin Int

(* max_drawdown is 12%. *)
Drawdown(last, price) == 100 * (last - price) > 12 * last

Capped(n, limit) == IF n < limit THEN n ELSE limit

(* The streaks after a cycle whose stake step gave `active' and whose       *)
(* predecessor's record counts `errors' provider errors: an unknown stake   *)
(* clears the first, an absent count leaves the second.                     *)
Inactive(streak, active) ==
    IF active = FALSE THEN Capped(streak + 1, InactiveLimit) ELSE 0

Errors(streak, errors) ==
    IF errors = Unknown THEN streak
    ELSE IF errors > 0 THEN Capped(streak + 1, ErrorLimit) ELSE 0

NoPriceNegative(price) == price < 0     \* mutant: zero passes

NoPrice(price) == price <= 0

(* evaluate: the guardian's state after it, whether the cycle halts, and    *)
(* whether it is warned.  `last' is the record of the previous cycle;       *)
(* max_utilization is 92%.                                                  *)
Evaluate(guard, price, wild, util, stakeOk, active, last) ==
    LET inactive == Inactive(guard.inactive, active)
        errors   == Errors(guard.errors, last.errors)
        failing  == last.errors # Unknown /\ last.errors > 0
    IN [guard |-> [inactive |-> inactive, errors |-> errors],
        warned |-> failing \/ util > 92,
        halt |-> \/ NoPrice(price)
                 \/ last.price > 0 /\ Drawdown(last.price, price)
                 \/ wild
                 \/ ~stakeOk
                 \/ inactive >= InactiveLimit
                 \/ failing /\ errors >= ErrorLimit]

(* How a live leg may end.  "purchased" is a burn refused because the DIEM  *)
(* was bought and locks nothing, "synced" a burn that failed after its buy  *)
(* on a balance read too early, "gas" one that failed for its gas; "sold"   *)
(* and "unsold" are a leg without a buy, a mint and sale or a burn alone,   *)
(* that went well and that failed.                                          *)
Outcomes == {"none", "done", "noop", "error", "gas", "purchased", "synced",
             "sold", "unsold"}

Excused == {"purchased", "synced"}

(* The summary of a leg without a buy holds buy |-> None, on which reflect  *)
(* raises before it scores anything; the loop goes on without it.           *)
Unread == {"sold", "unsold"}

(* reflect: a high severity, from how a leg it can read ended, whether the  *)
(* stake step failed and whether a mint was signalled below parity.  A burn *)
(* that failed for its gas is medium unless one of the others holds.        *)
HighSeverityOfLegs(outcome, stakeOk, mismatch) ==     \* mutant: the stake step is left out
    outcome = "error" \/ mismatch

HighSeverity(outcome, stakeOk, mismatch) ==
    \/ outcome = "error"
    \/ ~stakeOk
    \/ mismatch

(* _maybe_arm_reflection_halt, reached only when reflect returns: the two    *)
(* excusing labels win over every other reason for the severity.            *)
ArmsHalt(outcome, stakeOk, mismatch) ==
    /\ outcome \notin Unread
    /\ HighSeverity(outcome, stakeOk, mismatch)
    /\ outcome \notin Excused
=============================================================================
