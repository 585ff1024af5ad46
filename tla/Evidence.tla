------------------------------ MODULE Evidence ------------------------------
(***************************************************************************)
(* What a run leaves behind: the observation document                      *)
(* (flow/observe-settlement.ts), the binding documents (binding.ts), the   *)
(* record and the files around it (flow/issue-record.ts), which of them    *)
(* each terminal state should have produced (flow/presence.ts), and        *)
(* buildEvidence (flow/fixture-e2e.ts), which makes them of a run.         *)
(*                                                                         *)
(* Documents are values.  A digest is the name of what it was computed of, *)
(* equal to another exactly when the two are: here, the thing itself.      *)
(* None stands for a member that is not there.                             *)
(***************************************************************************)
EXTENDS Lifecycle

CONSTANTS
    None,      \* the member, the header or the answer is absent
    Garbled    \* bytes no reader of the artifact admits

ASSUME GarbledAssumption == None # Garbled

EVIDENCE_ARTIFACTS ==
    {"record.jws", "request-binding.json", "origin-result-binding.json",
     "origin-result-body.bin", "artifacts/payment-required.txt",
     "artifacts/payment-signature.txt", "artifacts/payment-response.txt",
     "chain-observation.json"}

JsonArtifacts ==
    {"request-binding.json", "origin-result-binding.json", "chain-observation.json"}

-----------------------------------------------------------------------------
(* The presence contract. *)

ResultFiles == {"origin-result-binding.json", "origin-result-body.bin"}

\* Mutant of RequiredFor: the body of a result that was never written to the
\* client need not be kept.
RequiredWithoutUnwritten(terminal) ==
    {"record.jws", "request-binding.json", "chain-observation.json",
     "artifacts/payment-required.txt"}
    \cup (IF terminal = "payment_required_only"
          THEN {} ELSE {"artifacts/payment-signature.txt"})
    \cup (IF terminal \in {"response_write_attempted", "handler_error_status"}
          THEN ResultFiles ELSE {})
    \cup (IF PaymentWasSettled(terminal)
          THEN {"artifacts/payment-response.txt"} ELSE {})

RequiredFor(terminal) ==
    {"record.jws", "request-binding.json", "chain-observation.json",
     "artifacts/payment-required.txt"}
    \cup (IF terminal = "payment_required_only"
          THEN {} ELSE {"artifacts/payment-signature.txt"})
    \cup (IF terminal \in {"response_write_attempted", "handler_error_status",
                           "settlement_failed"}
          THEN ResultFiles ELSE {})
    \cup (IF PaymentWasSettled(terminal)
          THEN {"artifacts/payment-response.txt"} ELSE {})

OptionalFor(terminal) ==
    IF terminal = "settlement_failed" THEN {"artifacts/payment-response.txt"} ELSE {}

\* checkPresence finds no violation: whatever is neither required nor optional
\* is declared absent.
PresenceHolds(terminal, present) ==
    /\ RequiredFor(terminal) \subseteq present
    /\ present \subseteq RequiredFor(terminal) \cup OptionalFor(terminal)

-----------------------------------------------------------------------------
(* The expectation, the settlement report and their comparison. *)

Verdict(evaluated, agrees) ==
    IF ~ evaluated THEN "not_evaluated" ELSE IF agrees THEN "match" ELSE "mismatch"

\* The whole expected transfer at once: token, from, to and value.
TransferMatches(transfer, e) ==
    /\ e.payer # None
    /\ transfer = [asset |-> e.asset, from |-> e.payer,
                   to |-> e.recipient, amount |-> e.amount]

\* compareExpectationToObservation
Comparison(e, report, rpc) ==
    LET transfer == IF rpc = None THEN None ELSE rpc.transfer
        seen     == transfer # None
    IN  [network        |-> Verdict(report.network # None, report.network = e.network),
         asset          |-> Verdict(seen, seen /\ transfer.asset = e.asset),
         recipient      |-> Verdict(seen, seen /\ transfer.to = e.recipient),
         amount         |-> Verdict(seen, seen /\ transfer.amount = e.amount),
         linked         |-> e.authorization # None,
         transfer_event |-> Verdict(rpc # None /\ rpc.status # None,
                                    seen /\ TransferMatches(transfer, e))]

Settled(run) ==
    /\ PaymentWasSettled(run.terminal)
    /\ run.response # None
    /\ run.response.success

Outcome(run) ==
    IF Settled(run) THEN "succeeded"
    ELSE IF run.response # None \/ run.terminal = "settlement_failed" THEN "refused"
    ELSE "not_reached"

\* Read from the native payment: the terms it accepted, and its authorization.
Expectation(payload) ==
    [network       |-> payload.accepted.network,
     asset         |-> payload.accepted.asset,
     amount        |-> payload.accepted.amount,
     recipient     |-> payload.accepted.recipient,
     payer         |-> IF payload.authorization = None THEN None
                       ELSE payload.authorization.from,
     authorization |-> payload.authorization]

\* Transaction facts only beside a settlement that succeeded.
SettlementReport(run) ==
    [outcome     |-> Outcome(run),
     transaction |-> IF Settled(run) THEN run.response.transaction ELSE None,
     network     |-> IF Settled(run) THEN run.response.network ELSE None,
     payer       |-> run.payer]

RpcObservation(run) ==
    IF SettlementReport(run).transaction # None THEN run.rpc ELSE None

ResultDigest(run) == IF run.result = None THEN None ELSE run.result.body

\* observeSettlement
Observation(run) ==
    [shape      |-> "local",
     expected   |-> Expectation(run.payload),
     report     |-> SettlementReport(run),
     rpc        |-> RpcObservation(run),
     comparison |-> Comparison(Expectation(run.payload), SettlementReport(run),
                               RpcObservation(run)),
     terminal   |-> run.terminal,
     response   |-> run.response,
     result     |-> ResultDigest(run)]

-----------------------------------------------------------------------------
(* The files.  `state' is what opening the name gives; `form' tells one     *)
(* rendering of a document from another with the same canonical value.      *)

File(value) == [state |-> "present", value |-> value, form |-> "as issued"]
NoFile == [state |-> "absent", value |-> None, form |-> "none"]
Unreadable == [state |-> "refused", value |-> None, form |-> "none"]

FileOf(value) == IF value = None THEN NoFile ELSE File(value)

RequestBinding(run) ==
    [shape |-> "local", url |-> run.url, signature |-> run.payload]

OriginResultBinding(run) ==
    IF run.result = None THEN None
    ELSE [shape |-> "local", status |-> run.result.status, body |-> ResultDigest(run)]

\* The record: the two extension groups, and the key it is signed with.
Claims(run) ==
    [key       |-> run.key,
     type      |-> "payment",
     groups    |-> TRUE,
     asset     |-> Observation(run).expected.asset,
     amount    |-> Observation(run).expected.amount,
     reference |-> run.reference,
     network   |-> Observation(run).expected.network,
     terminal  |-> run.terminal,
     request   |-> RequestBinding(run),
     result    |-> OriginResultBinding(run),
     required  |-> run.required,
     signature |-> run.payload,
     response  |-> run.response,
     observed  |-> Observation(run)]

\* What issueEvidence puts under a name, of what buildEvidence makes of a run.
Issued(run, a) ==
    CASE a = "record.jws"                      -> File(Claims(run))
      [] a = "request-binding.json"            -> File(RequestBinding(run))
      [] a = "origin-result-binding.json"      -> FileOf(OriginResultBinding(run))
      [] a = "origin-result-body.bin"          -> FileOf(ResultDigest(run))
      [] a = "artifacts/payment-required.txt"  -> File(run.required)
      [] a = "artifacts/payment-signature.txt" -> FileOf(run.payload)
      [] a = "artifacts/payment-response.txt"  -> FileOf(run.response)
      [] a = "chain-observation.json"          -> File(Observation(run))

Layout(run) == [a \in EVIDENCE_ARTIFACTS |-> Issued(run, a)]

=============================================================================
