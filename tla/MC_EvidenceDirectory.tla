------------------------ MODULE MC_EvidenceDirectory ------------------------
(***************************************************************************)
(* The runs, the re-signed layouts and the stray files that TLC takes      *)
(* EvidenceDirectory through.                                              *)
(***************************************************************************)
EXTENDS EvidenceDirectory

CONSTANTS k1, k2, n1, n2, a1, m1, m2, p1, c1, x1, x2, u1, u2, i1, i2, b1, b2, e1

Terms(amount) == [network |-> n1, asset |-> a1, amount |-> amount, recipient |-> p1]

Pays(amount, identifier, url) ==
    [accepted      |-> Terms(amount),
     authorization |-> [from |-> c1, to |-> p1, value |-> amount],
     identifier    |-> identifier,
     url           |-> url]

\* An ordinary paid run.
Paid ==
    [key       |-> k1,
     terminal  |-> "response_write_attempted",
     required  |-> [url |-> u1, accepts |-> {Terms(m1)}],
     payload   |-> Pays(m1, i1, u1),
     response  |-> [success |-> TRUE, transaction |-> x1, network |-> n1, payer |-> c1],
     result    |-> [status |-> "ok", body |-> b1],
     payer     |-> c1,
     url       |-> u1,
     reference |-> i1,
     rpc       |-> None]

Rpc(state, level, status, placed, transfer) ==
    [transaction |-> x1, state |-> state, level |-> level, status |-> status,
     placed |-> placed, transfer |-> transfer]

Transferred(amount) == [asset |-> a1, from |-> c1, to |-> p1, amount |-> amount]

With(account) == [Paid EXCEPT !.rpc = account]

\* The four ends an RPC observation has, and a transfer of another amount.
Observed ==
    {With(Rpc("found", "l2_block_inclusion", "success", TRUE, Transferred(m1))),
     With(Rpc("found", "l2_block_inclusion", "success", TRUE, Transferred(m2))),
     With(Rpc("found", None, "reverted", FALSE, None)),
     With(Rpc("not_found", None, None, FALSE, None)),
     With(Rpc("unavailable", None, None, FALSE, None))}

Unsettled(terminal) ==
    [Paid EXCEPT !.terminal = terminal, !.response = None, !.payer = None, !.result = None]

SettlementRefused ==
    [Unsettled("settlement_failed") EXCEPT
        !.response = [success |-> FALSE, transaction |-> None, network |-> n1, payer |-> None],
        !.result = Paid.result]

SettlementRaised == [Unsettled("settlement_failed") EXCEPT !.result = Paid.result]

HandlerFailed ==
    [Unsettled("handler_error_status") EXCEPT !.result = [status |-> "error", body |-> e1]]

HandlerThrew == Unsettled("handler_error_status")

VerificationRejected == Unsettled("verification_rejected")

\* The payment accepts terms the origin never advertised.
RefusedBefore ==
    [Unsettled("payment_rejected_pre_verification") EXCEPT !.payload = Pays(m2, i1, u1)]

\* Another payment under the same key; the same payment under another key.
SecondPaid ==
    [Paid EXCEPT !.payload = Pays(m1, i2, u1), !.reference = i2,
                 !.response.transaction = x2, !.result.body = b2]

OtherKey == [Paid EXCEPT !.key = k2]

\* What a facilitator, or a client, may get wrong without the flow noticing.
Irregular ==
    {[Paid EXCEPT !.response.transaction = None],
     [Paid EXCEPT !.response.network = n2, !.response.payer = None],
     [Paid EXCEPT !.payload.identifier = None]}

MCRuns ==
    Observed \cup Irregular \cup
    {Paid, SettlementRefused, SettlementRaised, HandlerFailed, VerificationRejected,
     RefusedBefore, SecondPaid, OtherKey}

MCRunsThrown == MCRuns \cup {HandlerThrew}

(* Re-signing after an edit: the file is replaced, and the digest the record
   binds for it refreshed.                                                  *)
Member ==
    [a \in DigestBound |->
       CASE a = "request-binding.json"        -> "request"
         [] a = "origin-result-binding.json"  -> "result"
         [] a = "chain-observation.json"      -> "observed"
         [] a = Required                      -> "required"
         [] a = Signature                     -> "signature"
         [] a = Response                      -> "response"]

Reissue(l, a, value) ==
    [l EXCEPT ![a] = File(value),
              !["record.jws"] = File([RecordOf(l) EXCEPT ![Member[a]] = value])]

Claim(l, member, value) ==
    [l EXCEPT !["record.jws"] = File([RecordOf(l) EXCEPT ![member] = value])]

Honest == Layout(Paid)

MCReissued ==
    {\* the payment names another amount, url, identifier; the response another transaction
     Reissue(Honest, Signature, Pays(m2, i1, u1)),
     Reissue(Honest, Signature, Pays(m1, i1, u2)),
     Reissue(Honest, Signature, Pays(m1, i2, u1)),
     Reissue(Honest, Response, [Paid.response EXCEPT !.transaction = x2]),
     \* another resource was advertised; a payment that does not decode
     Reissue(Honest, Required, [url |-> u2, accepts |-> {Terms(m1)}]),
     Reissue(Honest, Signature, Garbled),
     Reissue(Layout(VerificationRejected), Signature, Garbled),
     \* the observation has a member outside its schema, another transaction by
     \* RPC, a comparison edited to agree
     Reissue(Honest, "chain-observation.json", [Observation(Paid) EXCEPT !.shape = "other"]),
     Reissue(Honest, "chain-observation.json",
             [Observation(Paid) EXCEPT
                !.rpc = [Rpc("unavailable", None, None, FALSE, None) EXCEPT !.transaction = x2]]),
     Reissue(Honest, "chain-observation.json",
             [Observation(Paid) EXCEPT !.comparison.transfer_event = "match"]),
     \* it has no expectation apart from the report
     Reissue(Honest, "chain-observation.json", [Observation(Paid) EXCEPT !.shape = "unattributed"]),
     \* the record names another amount, another terminal state
     Claim(Honest, "amount", m2),
     Claim(Honest, "terminal", "settlement_failed"),
     Claim(Honest, "groups", FALSE)}

\* Stray files: another paid run, one that settled nothing, one of another key.
MCFound == {Layout(SecondPaid), Layout(SettlementRaised), Layout(OtherKey)}

MCSuppliedKeys ==
    {[public |-> k1, describes |-> None], [public |-> k1, describes |-> k2]}

=============================================================================
