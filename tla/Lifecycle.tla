------------------------------ MODULE Lifecycle ------------------------------
(***************************************************************************)
(* The lifecycle recorder of one request (flow/lifecycle.ts) and the fixed *)
(* vocabulary a failure reason is drawn from (flow/failure-vocabulary.ts). *)
(*                                                                         *)
(* The recorder is a value, not a component with variables of its own: the *)
(* module gives the type of that value and the operators that change it.   *)
(* Positions are a set, because observation() re-orders whatever was       *)
(* entered by the declared order before anybody reads it.                  *)
(***************************************************************************)

LIFECYCLE_STATES ==
    {"request_received", "payment_required", "payment_payload_received",
     "payment_verified", "resource_executed", "payment_settled",
     "response_prepared", "response_write_attempted"}

TERMINAL_STATES ==
    {"response_write_attempted", "payment_rejected_pre_verification",
     "verification_rejected", "handler_error_status", "settlement_failed",
     "payment_required_only"}

\* Whether a terminal state claims that the settlement succeeded.
PaymentWasSettled(terminal) == terminal = "response_write_attempted"

-----------------------------------------------------------------------------
(* The vocabulary. *)

DERIVED_REASONS ==
    {"verification_rejected", "verification_exception",
     "settlement_rejected", "settlement_exception", "handler_failed"}

SUPPORTED_UPSTREAM_REASONS ==
    {"duplicate_settlement", "network_mismatch", "scheme_mismatch",
     "asset_mismatch", "amount_mismatch", "recipient_mismatch",
     "missing_authorization", "handler_failed"}

\* "none": the optional member is absent.
FAILURE_REASONS == DERIVED_REASONS \cup SUPPORTED_UPSTREAM_REASONS \cup {"none"}

\* Mutants of PersistableFailureReason: the word is kept as it came; the shape
\* of a machine code is enough.
AnyReason(upstream, derived) == upstream

ShapedReason(upstream, derived) ==
    IF upstream \in FAILURE_REASONS THEN upstream ELSE derived

\* What is written down of a word a remote party supplied: the word when the
\* allowlist has it, the term this flow derived otherwise.
PersistableFailureReason(upstream, derived) ==
    IF upstream \in SUPPORTED_UPSTREAM_REASONS THEN upstream ELSE derived

-----------------------------------------------------------------------------
(* The recorder. *)

Recorder == [seen     : SUBSET LIFECYCLE_STATES,
             terminal : TERMINAL_STATES,
             reported : BOOLEAN,
             reason   : FAILURE_REASONS]

NewRecorder == [seen     |-> {},
                terminal |-> "payment_required_only",
                reported |-> FALSE,
                reason   |-> "none"]

Enter(rec, positions) == [rec EXCEPT !.seen = @ \cup positions]

\* finish() overwrites the terminal state and merges the detail: a call that
\* names no failure reason keeps the one already recorded.
Terminate(rec, terminal, reason) ==
    [rec EXCEPT !.terminal = terminal,
                !.reported = TRUE,
                !.reason   = IF reason = "none" THEN @ ELSE reason]

Reached(rec, position) == position \in rec.seen

=============================================================================
