------------------------ MODULE PaidResourceInvariant ------------------------
(***************************************************************************)
(* The inductive invariant of PaidResource, on which the proofs rest.      *)
(***************************************************************************)
EXTENDS PaidResource

\* Settlement is only ever asked for an authorization object that is there,
\* well-formed or not: without this TypeOK is not inductive, since the pair it
\* names is then consumed.
SettlingIsAuthorized == \A r \in Requests : pc[r] = "settling" => present[r].auth # None

\* The settlement of r raised instead of answering.
Raised(r) ==
    /\ recorder[r].reported
    /\ recorder[r].terminal = "settlement_failed"
    /\ recorder[r].reason = "settlement_exception"

\* What the recorder and the world outside agree on at each place.
RecorderTrail ==
    \A r \in Requests :
        /\ pc[r] \notin {"verifying", "settling", "responding", "finished"} =>
              recorder[r].seen = {} /\ ~ recorder[r].reported /\ did[r] = {}
        /\ pc[r] = "verifying" =>
              /\ ~ recorder[r].reported
              /\ ~ Reached(recorder[r], "resource_executed")
              /\ ~ Settled(r) /\ ~ Transferred(r)
        /\ pc[r] = "settling" =>
              /\ ~ recorder[r].reported
              /\ Reached(recorder[r], "resource_executed")
              /\ ~ Settled(r) /\ ~ Transferred(r) /\ produced[r]
        /\ Settled(r) => Transferred(r) /\ produced[r]
        /\ Transferred(r) => Settled(r) \/ Raised(r)
        /\ Transferred(r) => Identity[present[r].auth] \in consumed \cup {None}

\* A request whose listeners are not registered has concluded nothing, and one
\* that finished has concluded: nothing is left for a later `close' to do.
ConcludedTrail ==
    \A r \in Requests :
        /\ concluded[r] => pc[r] \in Underway \cup {"finished"}
        /\ pc[r] = "finished" => concluded[r]

\* An operation concluded and not given up is past verification, and one that
\* is paid for, or may yet be, has closed its identifier for good.
StoreTrail ==
    \A r \in Requests : Claimed(r) /\ concluded[r] /\ r \notin abandoned =>
        /\ pc[r] \notin {"middleware", "verifying"}
        /\ pc[r] = "settling" \/ Transferred(r) =>
              store[IdOf(r)].kind \in {"completed", "uncertain"} /\ store[IdOf(r)].by = r

\* How far r came at the facilitator, by what it caused and what its recorder
\* was told; nobody but `finish' may say that it settled.
Unasked(r) ==
    /\ did[r] = {} /\ ~ recorder[r].reported
    /\ recorder[r].terminal = "payment_required_only"
    /\ ~ Reached(recorder[r], "payment_verified") /\ ~ Reached(recorder[r], "resource_executed")

RefusedAtVerification(r) ==
    /\ did[r] = {"verify"} /\ recorder[r].reported
    /\ recorder[r].terminal = "verification_rejected"
    /\ ~ Reached(recorder[r], "resource_executed")

HandlerFailed(r) ==
    /\ did[r] = {"verify", "execute"} /\ recorder[r].reported
    /\ recorder[r].terminal = "handler_error_status"

RefusedAtSettlement(r) ==
    /\ did[r] = {"verify", "execute", "settle"} /\ recorder[r].reported
    /\ recorder[r].terminal = "settlement_failed"
    /\ recorder[r].reason # "settlement_exception"

RaisedAtSettlement(r) ==
    /\ {"verify", "execute", "settle", "raise"} \subseteq did[r]
    /\ Raised(r)

EndOf(r) ==
    LET rec == recorder[r] IN
    /\ pc[r] \in Underway =>
          rec.terminal \notin {"response_write_attempted", "payment_rejected_pre_verification"}
    /\ pc[r] \notin {"verifying", "settling", "responding", "finished"} => Unasked(r)
    /\ pc[r] = "verifying" => did[r] = {"verify"} /\ rec.terminal = "payment_required_only"
    /\ pc[r] = "settling" =>
          did[r] = {"verify", "execute", "settle"} /\ rec.terminal = "payment_required_only"
    /\ pc[r] = "responding" =>
          \/ Settled(r) /\ ~ rec.reported
          \/ /\ ~ Settled(r)
             /\ \/ Unasked(r) \/ RefusedAtVerification(r) \/ HandlerFailed(r)
                \/ RefusedAtSettlement(r) \/ RaisedAtSettlement(r)
    /\ pc[r] = "finished" =>
          \/ Settled(r) /\ rec.terminal = "response_write_attempted"
          \/ /\ ~ Settled(r)
             /\ \/ Unasked(r)
                \/ did[r] = {} /\ rec.terminal = "payment_rejected_pre_verification"
                \/ RefusedAtVerification(r) \/ HandlerFailed(r)
                \/ RefusedAtSettlement(r) \/ RaisedAtSettlement(r)

EndTrail == \A r \in Requests : EndOf(r)

\* Whoever asked the facilitator presented a payment, and one that carries a
\* signed object if the handler ran; a payment without an identifier never gets
\* past the decision when one is required.
BoundOf(r) ==
    /\ did[r] # {} => present[r].header = "payload"
    /\ did[r] \cap {"execute", "transfer"} # {} => present[r].auth # None
    /\ pc[r] \in Underway \cup {"finished"} =>
          ~ (present[r].header = "payload" /\ IdentifierRequired /\ IdOf(r) = None)

BoundTrail == \A r \in Requests : BoundOf(r)

\* A replay is of the completed entry the request's own presentation matches.
CachedTrail ==
    \A r \in Requests : pc[r] = "cached" =>
        SameRequest(r, "completed") /\ store[IdOf(r)].auth = present[r].auth

\* An uncertain entry is some request's.
UncertainTrail ==
    \A i \in Identifiers : store[i].kind = "uncertain" => store[i].by \in Requests

ObservedTrail == \A k \in DOMAIN observations : pc[observations[k]] = "finished"

IInv ==
    /\ TypeOK
    /\ SettlingIsAuthorized
    /\ ConcludedTrail
    /\ OneOwner
    /\ RecorderTrail
    /\ StoreTrail
    /\ CompletedIsPaid
    /\ EndTrail
    /\ BoundTrail
    /\ CachedTrail
    /\ UncertainTrail
    /\ UncertainIsExplained
    /\ ObservedTrail
=============================================================================
