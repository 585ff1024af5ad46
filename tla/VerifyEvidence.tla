--------------------------- MODULE VerifyEvidence ---------------------------
(***************************************************************************)
(* verifyEvidence (flow/verify-evidence.ts): from what was read of a       *)
(* directory, and a public key, the set of the checks that fail.  A        *)
(* directory verifies when the set is empty; a check that is not reached,  *)
(* or that does not apply, is not in it.                                   *)
(*                                                                         *)
(* `d' is what reading gave: a file for every artifact.  `supplied' is the *)
(* key to verify under and, when it came from a file, the key that file    *)
(* describes by its identifier and issuer, None otherwise.  Which members  *)
(* a document has is its `shape': "local" for one of the closed schema.    *)
(***************************************************************************)
EXTENDS Evidence

\* A check is known by its name and by what it is made of.
Fails(name) == {<<name, "evidence">>}

Check(name, holds) == IF holds THEN {} ELSE Fails(name)

PresentIn(d) == {a \in EVIDENCE_ARTIFACTS : d[a].state = "present"}

\* A document the strict parser admits, and an object.
Admitted(d, a) == d[a].state = "present" /\ d[a].value # Garbled

\* The digest of a JSON document is taken over its canonical value, that of
\* any other artifact over its bytes.
DigestOf(d, a) == IF a \in JsonArtifacts THEN d[a].value ELSE d[a]

\* The digest a record, or a binding, names for the bytes of a value.
BytesOf(value) == IF value = None THEN None ELSE File(value)

-----------------------------------------------------------------------------
(* 1. The record. *)

RecordOf(d) == d["record.jws"].value

\* verifyLocal: the text, trimmed, is a record signed with this key.
SignatureHolds(d, supplied) ==
    Admitted(d, "record.jws") /\ RecordOf(d).key = supplied.public

\* A key identifier, and an issuer, that are not the record's.
KeyChecks(d, supplied) ==
    Check("supplied key matches the record",
          supplied.describes = None \/ supplied.describes = RecordOf(d).key)

-----------------------------------------------------------------------------
(* 2. The digests, 3. the schemas, 4. the result body. *)

\* The record's claim about an artifact: None when it binds no digest for it.
Claimed(claims, a) ==
    CASE a = "request-binding.json"            -> claims.request
      [] a = "origin-result-binding.json"      -> claims.result
      [] a = "chain-observation.json"          -> claims.observed
      [] a = "artifacts/payment-required.txt"  -> BytesOf(claims.required)
      [] a = "artifacts/payment-signature.txt" -> BytesOf(claims.signature)
      [] a = "artifacts/payment-response.txt"  -> BytesOf(claims.response)

DigestBound == EVIDENCE_ARTIFACTS \ {"record.jws", "origin-result-body.bin"}

\* Mutant of DigestHolds: what the record binds no digest for is not looked at.
DigestHoldsIfClaimed(d, a) ==
    Claimed(RecordOf(d), a) # None =>
        /\ d[a].state = "present"
        /\ a \in JsonArtifacts => d[a].value # Garbled
        /\ DigestOf(d, a) = Claimed(RecordOf(d), a)

\* recomputeJson and recomputeObserved
DigestHolds(d, a) ==
    IF Claimed(RecordOf(d), a) = None THEN d[a].state # "present"
    ELSE /\ d[a].state = "present"
         /\ a \in JsonArtifacts => d[a].value # Garbled
         /\ DigestOf(d, a) = Claimed(RecordOf(d), a)

DigestChecks(d) ==
    {<<"digest", a>> : a \in {b \in DigestBound : ~ DigestHolds(d, b)}}

ProfileChecks(d) ==
    {<<"local profile", a>> :
       a \in {b \in JsonArtifacts : Admitted(d, b) /\ d[b].value.shape # "local"}}

\* Mutant of BodyHolds: a body is asked for, and not compared.
BodyIsThere(d) ==
    d["origin-result-binding.json"].state = "present" =>
        /\ Admitted(d, "origin-result-binding.json")
        /\ d["origin-result-body.bin"].state = "present"

\* The body is checked against the binding that names it.
BodyHolds(d) ==
    d["origin-result-binding.json"].state = "present" =>
        /\ Admitted(d, "origin-result-binding.json")
        /\ d["origin-result-body.bin"].state = "present"
        /\ d["origin-result-body.bin"]
             = BytesOf(d["origin-result-binding.json"].value.body)

-----------------------------------------------------------------------------
(* 6. The observation, by itself and against the record. *)

ObservationOf(d) == d["chain-observation.json"].value

\* An account by RPC is of the transaction the settlement reported, and
\* carries the placement its inclusion level was established from.
RpcChecks(o) ==
    Check("rpc observation transaction",
          o.rpc # None => /\ o.report.transaction # None
                          /\ o.rpc.transaction = o.report.transaction)
    \cup
    Check("rpc inclusion claim carries its basis",
          o.rpc # None => (o.rpc.level = "l2_block_inclusion" => o.rpc.placed))

ComparisonChecks(o) ==
    Check("expectation comparison",
          o.comparison = Comparison(o.expected, o.report, o.rpc))
    \cup
    Check("transfer event verdict evaluated",
          (o.rpc # None /\ o.rpc.status # None) =>
              Comparison(o.expected, o.report, o.rpc).transfer_event # "not_evaluated")

\* What the result binding names, None when there is no binding.
BoundBody(d) ==
    IF Admitted(d, "origin-result-binding.json")
    THEN d["origin-result-binding.json"].value.body ELSE None

\* Mutant of AgreementChecks: the network and the digests are compared, the
\* terms of the payment are not.
AgreementWithoutTerms(d) ==
    LET claims == RecordOf(d)
        o      == ObservationOf(d)
    IN  Check("same network", claims.network = o.expected.network)
        \cup Check("same terminal state", claims.terminal = o.terminal)
        \cup Check("same settlement response digest", claims.response = o.response)
        \cup Check("same origin result digest",
                   d["origin-result-binding.json"].value # Garbled =>
                       BoundBody(d) = o.result)

AgreementChecks(d) ==
    LET claims == RecordOf(d)
        o      == ObservationOf(d)
    IN  Check("same network", claims.network = o.expected.network)
        \cup Check("same terminal state", claims.terminal = o.terminal)
        \cup Check("same asset", claims.asset = o.expected.asset)
        \cup Check("same amount", claims.amount = o.expected.amount)
        \cup Check("same settlement response digest", claims.response = o.response)
        \cup Check("same origin result digest",
                   d["origin-result-binding.json"].value # Garbled =>
                       BoundBody(d) = o.result)

-----------------------------------------------------------------------------
(* The native artifacts, measured only when the record holds a settled      *)
(* payment: decoded, and compared on their own terms.                       *)

Required == "artifacts/payment-required.txt"
Signature == "artifacts/payment-signature.txt"
Response == "artifacts/payment-response.txt"

DecodeChecks(d) ==
    {<<"native decodes", a>> :
       a \in {b \in {Required, Signature, Response} :
                d[b].state = "present" /\ ~ Admitted(d, b)}}

\* accepted terms, authorization, identifier and resource
SignatureChecks(d) ==
    LET payload == d[Signature].value
        e       == ObservationOf(d).expected
        auth    == payload.authorization
    IN  Check("terms match the expectation",
              payload.accepted = [network |-> e.network, asset |-> e.asset,
                                  amount |-> e.amount, recipient |-> e.recipient])
        \cup
        Check("authorization matches the expectation",
              /\ auth # None
              /\ auth = e.authorization
              /\ auth.from = e.payer
              /\ auth.to = e.recipient
              /\ auth.value = e.amount)
        \cup
        Check("identifier matches the record reference",
              payload.identifier = RecordOf(d).reference)
        \cup
        Check("resource matches the request binding",
              Admitted(d, "request-binding.json") =>
                  payload.url = d["request-binding.json"].value.url)

\* Mutant of AdvertisedCheck: any advertised resource will do.
AdvertisedAnywhere(d) ==
    Check("payment-required advertises the accepted terms",
          d[Signature].value.accepted \in d[Required].value.accepts)

AdvertisedCheck(d) ==
    Check("payment-required advertises the accepted terms",
          /\ d[Required].value.url = d[Signature].value.url
          /\ d[Signature].value.accepted \in d[Required].value.accepts)

\* A response always names a transaction, if only by the empty string, None
\* here, which is not the observation's missing member.
ResponseCheck(d) ==
    LET response == d[Response].value
        report   == ObservationOf(d).report
    IN  Check("payment-response matches the settlement observation",
              /\ response.success = (report.outcome = "succeeded")
              /\ response.transaction # None
              /\ response.transaction = report.transaction
              /\ response.network = report.network
              /\ response.payer = None \/ response.payer = report.payer)

\* A check that depends on a decoded artifact is made only if it decoded.
NativeChecks(d) ==
    DecodeChecks(d)
    \cup (IF Admitted(d, Signature) THEN SignatureChecks(d) ELSE {})
    \cup (IF Admitted(d, Signature) /\ Admitted(d, Required)
          THEN AdvertisedCheck(d) ELSE {})
    \cup (IF Admitted(d, Response) THEN ResponseCheck(d) ELSE {})

\* Mutant of ObservationChecks: the native artifacts are never decoded.
ObservationChecksOpaque(d) ==
    LET o == ObservationOf(d)
    IN  IF d["chain-observation.json"].state # "present" THEN {}
        ELSE IF o = Garbled THEN Fails("chain observation")
        ELSE IF o.shape = "unattributed" THEN Fails("separately attributed")
        ELSE Check("settlement facts match the outcome",
                   (o.report.outcome = "succeeded") = (o.report.transaction # None))
             \cup RpcChecks(o) \cup ComparisonChecks(o) \cup AgreementChecks(d)

\* Everything that follows the presence contract.  The profile and the scheme
\* belong to the shape.  Without an expectation and a report apart from it there
\* is nothing further to compare.
ObservationChecks(d) ==
    LET o == ObservationOf(d)
    IN  IF d["chain-observation.json"].state # "present" THEN {}
        ELSE IF o = Garbled THEN Fails("chain observation")
        ELSE IF o.shape = "unattributed" THEN Fails("separately attributed")
        ELSE Check("settlement facts match the outcome",
                   (o.report.outcome = "succeeded") = (o.report.transaction # None))
             \cup RpcChecks(o) \cup ComparisonChecks(o) \cup AgreementChecks(d)
             \cup (IF PaymentWasSettled(RecordOf(d).terminal)
                   THEN NativeChecks(d) ELSE {})

-----------------------------------------------------------------------------
(* The report. *)

ContentChecks(d) ==
    DigestChecks(d)
    \cup ProfileChecks(d)
    \cup Check("origin result body", BodyHolds(d))
    \cup IF RecordOf(d).terminal \notin TERMINAL_STATES THEN Fails("terminal state")
         ELSE Check("artifact presence contract",
                    PresenceHolds(RecordOf(d).terminal, PresentIn(d)))
              \cup ObservationChecks(d)

\* The checks of a record whose signature holds.
RecordChecks(d, supplied) ==
    KeyChecks(d, supplied)
    \cup Check("record type", RecordOf(d).type = "payment")
    \cup IF ~ RecordOf(d).groups THEN Fails("extension groups") ELSE ContentChecks(d)

\* Mutant of FailedChecks: what cannot be read counts as not there.
FailedChecksLenient(d, supplied) ==
    IF d["record.jws"].state # "present" THEN Fails("record present")
    ELSE IF ~ SignatureHolds(d, supplied) THEN Fails("record signature and schema")
    ELSE RecordChecks(d, supplied)

\* Whatever cannot be read ends the report, and is never taken for absent.
FailedChecks(d, supplied) ==
    IF \E a \in EVIDENCE_ARTIFACTS : d[a].state = "refused"
    THEN Fails("every artifact is readable")
    ELSE IF d["record.jws"].state # "present" THEN Fails("record present")
    ELSE IF ~ SignatureHolds(d, supplied) THEN Fails("record signature and schema")
    ELSE RecordChecks(d, supplied)

=============================================================================
