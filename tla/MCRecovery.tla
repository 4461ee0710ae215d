----------------------------- MODULE MCRecovery -----------------------------
(* Each profile lets one part of the desk vary, as in MCAgentLoop. *)
EXTENDS Recovery

Account(free, locked, diem, vvv, usdc) ==
    [free |-> free, locked |-> locked, diem |-> diem, vvv |-> vvv, usdc |-> usdc]

(* Eight of ten sVVV locked: over the cap of six. *)
Heavy == Account(2, 8, 2, 1, 6)

Quiet == [steps |-> 2, picky |-> FALSE, calm |-> TRUE, halted |-> BOOLEAN, bypass |-> FALSE,
          modes |-> {"premium"}, wants |-> {0}, faults |-> {}, chain |-> Heavy]

Busy == [Quiet EXCEPT !.calm = FALSE, !.halted = {FALSE}]

(* Minting, selling, burning and buying with nothing failing. *)
Trading == [Busy EXCEPT !.modes = {"premium", "discount"}, !.wants = {1, 2},
                        !.chain = Account(4, 2, 1, 1, 1)]

Minting == [Busy EXCEPT !.wants = {2}, !.chain = Account(4, 0, 1, 1, 0),
               !.faults = {"timeout", "lost", "send"}]

Selling == [Minting EXCEPT !.faults = {"revert", "refused", "crash"}]

Blind == [Busy EXCEPT !.wants = {2}, !.modes = {"premium", "discount"},
             !.chain = Account(2, 2, 1, 1, 1), !.faults = {"blind", "unavailable"}]

(* DIEM beyond what the locked sVVV lets burn. *)
Burning == [Busy EXCEPT !.wants = {0, 1, 3}, !.modes = {"discount", "neutral"},
               !.chain = Account(2, 4, 1, 1, 3), !.faults = {"send", "refused", "revert"}]

(* Recoveries that fail half way, with and without the interval between. *)
Staking == [Busy EXCEPT !.picky = TRUE, !.halted = {TRUE}, !.bypass = TRUE,
               !.modes = {"premium", "stuck"}, !.chain = Account(2, 8, 1, 1, 3),
               !.faults = {"send", "timeout"}]

Cutting == [Staking EXCEPT !.faults = {"overflow", "surplus"}]

Swapping == [Staking EXCEPT !.halted = {FALSE}, !.bypass = FALSE,
               !.chain = Account(2, 8, 1, 2, 2), !.faults = {"revert", "refused", "crash"}]

MCProfiles == {Quiet, [Quiet EXCEPT !.bypass = TRUE], Trading, Minting, Selling, Blind,
               Burning, Staking, Cutting, Swapping}
=============================================================================
