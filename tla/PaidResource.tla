---------------------------- MODULE PaidResource ----------------------------
(***************************************************************************)
(* The paid resource (flow/server.ts): overlapping requests, the           *)
(* idempotency store that decides which of them may verify, execute and    *)
(* settle, the lifecycle hooks of the payment middleware, and the two      *)
(* response events, `finish' and `close', that conclude an operation.      *)
(*                                                                         *)
(* One action stands for one uninterrupted stretch of the event loop.  The *)
(* payment middleware and the facilitator are libraries and services; they *)
(* appear through the hooks they call and the answers they give, as        *)
(* server.ts and fixture-facilitator.ts describe them.                     *)
(*                                                                         *)
(* Requests are numbered in the order they arrive.                         *)
(***************************************************************************)
EXTENDS Lifecycle, Integers, Sequences, FiniteSets

CONSTANTS
    NumRequests,        \* how many requests arrive
    Identifiers,        \* payment identifiers
    Fingerprints,       \* normalized request fingerprints
    Protected,          \* the fingerprints that name the paid route
    Authorizations,     \* normalized signed authorizations
    Malformed,          \* authorization objects with a member that is not a string
    Identities,         \* pairs of an authorizer and a nonce
    Identity,           \* the pair an authorization names
    None,               \* no identifier, no authorization, no binding, no pair
    Inputs,             \* the presentations a client may make
    Capacity,           \* identifierCapacity
    IdentifierRequired, \* does the declaration mark the identifier required?
    Droppable,          \* the requests whose connection may drop
    Closing,            \* the requests whose `close' after `finish' is followed
    Words               \* the words a facilitator may give as its reason

Requests == 1 .. NumRequests

(* What the PAYMENT-SIGNATURE field of a request holds.  `auth' is None when
   the payload carries no authorization object, or no signature.            *)
Presentation == [header : {"absent", "undecodable", "payload"},
                 id     : Identifiers \cup {None},
                 fp     : Fingerprints,
                 auth   : Authorizations \cup Malformed \cup {None}]

ASSUME NumRequestsAssumption == NumRequests \in Nat
ASSUME CapacityAssumption == Capacity \in Nat
ASSUME NoneAssumption ==
    None \notin Identifiers \cup Fingerprints \cup Authorizations \cup Malformed \cup Identities
ASSUME MalformedAssumption == Malformed \cap Authorizations = {}
ASSUME IdentityAssumption ==
    /\ Identity \in [Authorizations \cup Malformed -> Identities \cup {None}]
    /\ \A a \in Authorizations : Identity[a] \in Identities
ASSUME InputsAssumption == Inputs \subseteq Presentation
ASSUME DroppableAssumption == Droppable \subseteq Requests
ASSUME ClosingAssumption == Closing \subseteq Requests
ASSUME IdentifierRequiredAssumption == IdentifierRequired \in BOOLEAN

VARIABLES
    pc,            \* where each request is
    present,       \* what it presents
    connected,     \* has its response not closed yet?
    recorder,      \* its LifecycleRecorder
    produced,      \* has the handler produced an origin result for it?
    waitsOn,       \* the request whose operation it awaits, 0 when none
    concluded,     \* has concludeOperation run for it?
    store,         \* the idempotency map
    observations,  \* the requests whose observation was pushed, in order
    consumed,      \* the authorizer and nonce pairs the facilitator has consumed
    did,           \* history: what each request caused outside the server
    abandoned      \* history: operations concluded before verification answered

vars == <<pc, present, connected, recorder, produced, waitsOn, concluded,
          store, observations, consumed, did, abandoned>>

Kinds == {"absent", "pending", "completed", "rejected", "uncertain"}

(* One map entry.  `by' is the request whose own entry it is: the owner of a
   pending operation, and afterwards the one whose conclusion wrote it, whose
   produced result a completed entry holds.                                  *)
Entry == [kind : Kinds,
          fp   : Fingerprints \cup {None},
          auth : Authorizations \cup {None},
          by   : 0 .. NumRequests]

AbsentEntry == [kind |-> "absent", fp |-> None, auth |-> None, by |-> 0]

PendingEntry(r) == [kind |-> "pending", fp |-> present[r].fp,
                    auth |-> present[r].auth, by |-> r]

\* A rejected entry keeps its fingerprint and nothing of the authorization.
ConcludedEntry(r, kind) ==
    [PendingEntry(r) EXCEPT !.kind = kind,
                            !.auth = IF kind = "rejected" THEN None ELSE @]

Effects == {"verify", "execute", "settle", "transfer", "raise"}

InFlight == {"middleware", "verifying", "settling"}
Underway == InFlight \cup {"responding"}
Answered == {"refused400", "refused409", "refused503", "cached", "finished"}
Places == {"idle", "deciding", "waiting"} \cup Underway \cup Answered

TypeOK ==
    /\ pc \in [Requests -> Places]
    /\ present \in [Requests -> Presentation]
    /\ connected \in [Requests -> BOOLEAN]
    /\ recorder \in [Requests -> Recorder]
    /\ produced \in [Requests -> BOOLEAN]
    /\ waitsOn \in [Requests -> 0 .. NumRequests]
    /\ concluded \in [Requests -> BOOLEAN]
    /\ store \in [Identifiers -> Entry]
    /\ observations \in Seq(Requests)
    /\ consumed \subseteq Identities
    /\ did \in [Requests -> SUBSET Effects]
    /\ abandoned \subseteq Requests

\* A request this layer binds to an identifier: anything else, an authorization
\* it cannot read included, is left to the payment middleware.
Bindable(p) == p.header = "payload" /\ p.id # None /\ p.auth \in Authorizations

IdOf(r) == present[r].id

\* The request set requestState.operation: it owns, or owned, a pending entry.
Claimed(r) == Bindable(present[r]) /\ pc[r] \in Underway \cup {"finished"}

Bound == {i \in Identifiers : store[i].kind # "absent"}

Init ==
    /\ pc = [r \in Requests |-> "idle"]
    /\ present \in [Requests -> Inputs]
    /\ connected = [r \in Requests |-> TRUE]
    /\ recorder = [r \in Requests |-> NewRecorder]
    /\ produced = [r \in Requests |-> FALSE]
    /\ waitsOn = [r \in Requests |-> 0]
    /\ concluded = [r \in Requests |-> FALSE]
    /\ store = [i \in Identifiers |-> AbsentEntry]
    /\ observations = <<>>
    /\ consumed = {}
    /\ did = [r \in Requests |-> {}]
    /\ abandoned = {}

Goto(r, place) == pc' = [pc EXCEPT ![r] = place]

Cause(r, effects) == did' = [did EXCEPT ![r] = @ \cup effects]

Record(r, rec) == recorder' = [recorder EXCEPT ![r] = rec]

-----------------------------------------------------------------------------
(* Arrival, and the decision the idempotency layer makes before the finish *)
(* and close listeners are registered.  A request it answers records no    *)
(* lifecycle and adds no observation.                                      *)

Arrive(r) ==
    /\ pc[r] = "idle"
    /\ \A earlier \in 1 .. (r - 1) : pc[earlier] # "idle"
    /\ Goto(r, "deciding")
    /\ UNCHANGED <<present, connected, recorder, produced, waitsOn, concluded,
                   store, observations, consumed, did, abandoned>>

\* At the head of the decision loop: on arrival, or when the operation the
\* request awaited has been concluded.
Deciding(r) ==
    \/ pc[r] = "deciding"
    \/ pc[r] = "waiting" /\ concluded[waitsOn[r]]

\* The layer answers the request itself.
AnswerHere(r, answer) ==
    /\ Goto(r, answer)
    /\ UNCHANGED <<present, connected, recorder, produced, waitsOn, concluded,
                   store, observations, consumed, did, abandoned>>

\* 400: the declaration requires an identifier and the payload carries none.
RefuseIdentifier(r) ==
    /\ Deciding(r)
    /\ present[r].header = "payload"
    /\ IdentifierRequired /\ IdOf(r) = None
    /\ AnswerHere(r, "refused400")

\* Mutant of PassThrough: the identifier requirement is not consulted.
PassThroughUnidentified(r) ==
    /\ Deciding(r)
    /\ ~ Bindable(present[r])
    /\ Goto(r, "middleware")
    /\ UNCHANGED <<present, connected, recorder, produced, waitsOn, concluded,
                   store, observations, consumed, did, abandoned>>

\* No field value, one that does not decode, or a payload there is nothing to
\* bind: next(), with the listeners registered and nothing claimed.
PassThrough(r) ==
    /\ Deciding(r)
    /\ ~ Bindable(present[r])
    /\ ~ (present[r].header = "payload" /\ IdentifierRequired /\ IdOf(r) = None)
    /\ Goto(r, "middleware")
    /\ UNCHANGED <<present, connected, recorder, produced, waitsOn, concluded,
                   store, observations, consumed, did, abandoned>>

\* 503: a new identifier, and the store holds as many as it may.
RefuseCapacity(r) ==
    /\ Deciding(r)
    /\ Bindable(present[r])
    /\ store[IdOf(r)].kind = "absent"
    /\ Cardinality(Bound) >= Capacity
    /\ AnswerHere(r, "refused503")

\* The request sets its own pending entry and goes on with it.
Own(r) ==
    /\ Deciding(r)
    /\ store' = [store EXCEPT ![IdOf(r)] = PendingEntry(r)]
    /\ Goto(r, "middleware")
    /\ UNCHANGED <<present, connected, recorder, produced, waitsOn, concluded,
                   observations, consumed, did, abandoned>>

\* An earlier attempt at this same request ended without settling.
Available(e, fp) == e.kind = "rejected" /\ e.fp = fp

\* Mutants of Claim: a pending entry is claimed over when the authorization is
\* another; an uncertain one is retried; the capacity is off by one.
ClaimOverPending(r) ==
    /\ Bindable(present[r])
    /\ \/ store[IdOf(r)].kind = "absent" /\ Cardinality(Bound) < Capacity
       \/ Available(store[IdOf(r)], present[r].fp)
       \/ store[IdOf(r)].kind = "pending" /\ store[IdOf(r)].auth # present[r].auth
    /\ Own(r)

ClaimUncertain(r) ==
    /\ Bindable(present[r])
    /\ \/ store[IdOf(r)].kind = "absent" /\ Cardinality(Bound) < Capacity
       \/ Available(store[IdOf(r)], present[r].fp)
       \/ store[IdOf(r)].kind = "uncertain"
    /\ Own(r)

ClaimOverCapacity(r) ==
    /\ Bindable(present[r])
    /\ \/ store[IdOf(r)].kind = "absent" /\ Cardinality(Bound) <= Capacity
       \/ Available(store[IdOf(r)], present[r].fp)
    /\ Own(r)

\* The identifier is unused and there is room for it, or an earlier attempt at
\* this same request ended as `rejected': the request becomes its owner.
Claim(r) ==
    /\ Bindable(present[r])
    /\ \/ store[IdOf(r)].kind = "absent" /\ Cardinality(Bound) < Capacity
       \/ Available(store[IdOf(r)], present[r].fp)
    /\ Own(r)

\* 409: the identifier is bound to a different request.
RefuseFingerprint(r) ==
    /\ Deciding(r)
    /\ Bindable(present[r])
    /\ store[IdOf(r)].kind # "absent"
    /\ store[IdOf(r)].fp # present[r].fp
    /\ AnswerHere(r, "refused409")

\* The entry is bound to this very request, in a state of the given kind.
SameRequest(r, kind) ==
    /\ Bindable(present[r])
    /\ store[IdOf(r)].kind = kind
    /\ store[IdOf(r)].fp = present[r].fp

\* 409: pending or completed under a different authorization.
RefuseAuthorization(r) ==
    /\ Deciding(r)
    /\ SameRequest(r, "pending") \/ SameRequest(r, "completed")
    /\ store[IdOf(r)].auth # present[r].auth
    /\ AnswerHere(r, "refused409")

\* 409: the outcome of an earlier attempt is unknown.
RefuseUncertain(r) ==
    /\ Deciding(r)
    /\ SameRequest(r, "uncertain")
    /\ AnswerHere(r, "refused409")

\* await entry.done
Wait(r) ==
    /\ Deciding(r)
    /\ SameRequest(r, "pending")
    /\ store[IdOf(r)].auth = present[r].auth
    /\ Goto(r, "waiting")
    /\ waitsOn' = [waitsOn EXCEPT ![r] = store[IdOf(r)].by]
    /\ UNCHANGED <<present, connected, recorder, produced, concluded,
                   store, observations, consumed, did, abandoned>>

\* Mutant of ServeCached: the identifier and the request are enough.
ServeCachedToAnyone(r) ==
    /\ Deciding(r)
    /\ SameRequest(r, "completed")
    /\ AnswerHere(r, "cached")

\* The cached result, with no payment processing.
ServeCached(r) ==
    /\ Deciding(r)
    /\ SameRequest(r, "completed")
    /\ store[IdOf(r)].auth = present[r].auth
    /\ AnswerHere(r, "cached")

Decide(r) ==
    \/ RefuseIdentifier(r)  \/ PassThrough(r)         \/ RefuseCapacity(r)
    \/ Claim(r)             \/ RefuseFingerprint(r)   \/ RefuseAuthorization(r)
    \/ RefuseUncertain(r)   \/ Wait(r)                \/ ServeCached(r)

-----------------------------------------------------------------------------
(* The payment middleware, up to the request it sends the facilitator.     *)

\* Not the paid route: no hook fires and the router answers 404.
Unrouted(r) ==
    /\ pc[r] = "middleware"
    /\ present[r].fp \notin Protected
    /\ Goto(r, "responding")
    /\ UNCHANGED <<present, connected, recorder, produced, waitsOn, concluded,
                   store, observations, consumed, did, abandoned>>

\* onProtectedRequest, for a request that presents no payment: the challenge.
Challenge(r) ==
    /\ pc[r] = "middleware"
    /\ present[r].fp \in Protected
    /\ present[r].header = "absent"
    /\ Record(r, Enter(recorder[r], {"request_received", "payment_required"}))
    /\ Goto(r, "responding")
    /\ UNCHANGED <<present, connected, produced, waitsOn, concluded,
                   store, observations, consumed, did, abandoned>>

PaymentReceived(r) ==
    Enter(recorder[r], {"request_received", "payment_payload_received"})

\* The payment does not decode, or does not match the advertised requirements:
\* it is refused and the facilitator is never asked.
RefusePreVerification(r) ==
    /\ pc[r] = "middleware"
    /\ present[r].fp \in Protected
    /\ present[r].header # "absent"
    /\ Record(r, PaymentReceived(r))
    /\ Goto(r, "responding")
    /\ UNCHANGED <<present, connected, produced, waitsOn, concluded,
                   store, observations, consumed, did, abandoned>>

BeginVerify(r) ==
    /\ pc[r] = "middleware"
    /\ present[r].fp \in Protected
    /\ present[r].header = "payload"
    /\ Record(r, PaymentReceived(r))
    /\ Cause(r, {"verify"})
    /\ Goto(r, "verifying")
    /\ UNCHANGED <<present, connected, produced, waitsOn, concluded,
                   store, observations, consumed, abandoned>>

Middleware(r) ==
    Unrouted(r) \/ Challenge(r) \/ RefusePreVerification(r) \/ BeginVerify(r)

-----------------------------------------------------------------------------
(* The facilitator's answer to verify, and what runs in the same stretch.  *)

\* What the facilitator asks of an authorization: that there is a signed object.
\* Its members it does not look at.
CheckTerms(p) == p.auth # None

\* onAfterVerify with isValid = FALSE
VerifyInvalid(r) ==
    /\ pc[r] = "verifying"
    /\ \E word \in Words :
         Record(r, Terminate(Enter(recorder[r], {"payment_payload_received"}),
                             "verification_rejected",
                             PersistableFailureReason(word, "verification_rejected")))
    /\ Goto(r, "responding")
    /\ UNCHANGED <<present, connected, produced, waitsOn, concluded,
                   store, observations, consumed, did, abandoned>>

\* onVerifyFailure
VerifyRaises(r) ==
    /\ pc[r] = "verifying"
    /\ Record(r, Terminate(recorder[r], "verification_rejected", "verification_exception"))
    /\ Goto(r, "responding")
    /\ UNCHANGED <<present, connected, produced, waitsOn, concluded,
                   store, observations, consumed, did, abandoned>>

Verified(r) ==
    Enter(recorder[r], {"payment_payload_received", "payment_verified", "resource_executed"})

\* Mutant of VerifyValid: no onBeforeSettle hook records that the handler ran.
VerifyValidUnrecorded(r) ==
    /\ pc[r] = "verifying"
    /\ CheckTerms(present[r])
    /\ Record(r, Enter(recorder[r], {"payment_payload_received", "payment_verified"}))
    /\ produced' = [produced EXCEPT ![r] = TRUE]
    /\ Cause(r, {"execute", "settle"})
    /\ Goto(r, "settling")
    /\ UNCHANGED <<present, connected, waitsOn, concluded,
                   store, observations, consumed, abandoned>>

\* onAfterVerify with isValid = TRUE, the handler, which is synchronous and
\* returns a result, and onBeforeSettle: settlement is requested.
VerifyValid(r) ==
    /\ pc[r] = "verifying"
    /\ CheckTerms(present[r])
    /\ Record(r, Verified(r))
    /\ produced' = [produced EXCEPT ![r] = TRUE]
    /\ Cause(r, {"execute", "settle"})
    /\ Goto(r, "settling")
    /\ UNCHANGED <<present, connected, waitsOn, concluded,
                   store, observations, consumed, abandoned>>

\* As above, but the handler returned an error status or threw, in which case
\* it produced nothing: onVerifiedPaymentCanceled, and no settlement.
HandlerFails(r) ==
    /\ pc[r] = "verifying"
    /\ CheckTerms(present[r])
    /\ Record(r, Terminate(Verified(r), "handler_error_status", "none"))
    /\ \E returned \in BOOLEAN : produced' = [produced EXCEPT ![r] = returned]
    /\ Cause(r, {"execute"})
    /\ Goto(r, "responding")
    /\ UNCHANGED <<present, connected, waitsOn, concluded,
                   store, observations, consumed, abandoned>>

VerifyAnswered(r) ==
    VerifyInvalid(r) \/ VerifyRaises(r) \/ VerifyValid(r) \/ HandlerFails(r)

-----------------------------------------------------------------------------
(* The facilitator's answer to settle.  A consumed authorization cannot    *)
(* produce a second transfer; a settlement that raised may or may not have *)
(* reached the network.                                                    *)

\* The pair the authorization names, if it names one, has not been consumed.
Spendable(r) == Identity[present[r].auth] \notin consumed

Consume(r) == consumed' = consumed \cup ({Identity[present[r].auth]} \ {None})

\* onAfterSettle with success = TRUE
SettleSucceeds(r) ==
    /\ pc[r] = "settling"
    /\ Spendable(r)
    /\ Consume(r)
    /\ Cause(r, {"transfer"})
    /\ Record(r, Enter(recorder[r], {"payment_settled"}))
    /\ Goto(r, "responding")
    /\ UNCHANGED <<present, connected, produced, waitsOn, concluded,
                   store, observations, abandoned>>

\* onAfterSettle with success = FALSE
SettleRefused(r) ==
    /\ pc[r] = "settling"
    /\ \E word \in Words :
         Record(r, Terminate(recorder[r], "settlement_failed",
                             PersistableFailureReason(word, "settlement_rejected")))
    /\ Goto(r, "responding")
    /\ UNCHANGED <<present, connected, produced, waitsOn, concluded,
                   store, observations, consumed, did, abandoned>>

\* onSettleFailure
SettleRaises(r) ==
    /\ pc[r] = "settling"
    /\ Record(r, Terminate(recorder[r], "settlement_failed", "settlement_exception"))
    /\ \/ /\ Cause(r, {"raise"})
          /\ UNCHANGED consumed
       \/ /\ Spendable(r)
          /\ Consume(r)
          /\ Cause(r, {"raise", "transfer"})
    /\ Goto(r, "responding")
    /\ UNCHANGED <<present, connected, produced, waitsOn, concluded,
                   store, observations, abandoned>>

SettleAnswered(r) == SettleSucceeds(r) \/ SettleRefused(r) \/ SettleRaises(r)

-----------------------------------------------------------------------------
(* The end of a response. *)

\* Mutants of Verdict: a settlement that raised is a refusal like any other; an
\* operation nobody reported on is always safe to retry; a produced result is
\* taken for a settled one.
VerdictOfRefusal(rec, hasResult) ==
    IF Reached(rec, "payment_settled")
    THEN IF hasResult THEN "completed" ELSE "uncertain"
    ELSE IF rec.reported THEN "rejected"
    ELSE IF Reached(rec, "resource_executed") THEN "uncertain" ELSE "rejected"

VerdictWithoutDoubt(rec, hasResult) ==
    IF Reached(rec, "payment_settled")
    THEN IF hasResult THEN "completed" ELSE "uncertain"
    ELSE IF /\ rec.reported
            /\ rec.terminal = "settlement_failed" /\ rec.reason = "settlement_exception"
    THEN "uncertain" ELSE "rejected"

VerdictByResult(rec, hasResult) ==
    IF hasResult THEN "completed"
    ELSE IF Reached(rec, "resource_executed") THEN "uncertain" ELSE "rejected"

\* The state an operation ends in, from what its recorder holds.
Verdict(rec, hasResult) ==
    IF Reached(rec, "payment_settled")
    THEN IF hasResult THEN "completed" ELSE "uncertain"
    ELSE IF rec.reported
    THEN IF rec.terminal = "settlement_failed" /\ rec.reason = "settlement_exception"
         THEN "uncertain" ELSE "rejected"
    ELSE IF Reached(rec, "resource_executed") THEN "uncertain" ELSE "rejected"

\* Mutant of ConcludeOperation: an operation that did not settle is left as it is.
ConcludeSettledOnly(r, rec) ==
    /\ concluded' = [concluded EXCEPT ![r] = Reached(rec, "payment_settled")]
    /\ store' = IF Reached(rec, "payment_settled") /\ Claimed(r)
                THEN [store EXCEPT ![IdOf(r)] = ConcludedEntry(r, Verdict(rec, produced[r]))]
                ELSE store

\* Mutant of ConcludeOperation: neither the flag nor the entry is looked at.
ConcludeEachTime(r, rec) ==
    /\ concluded' = [concluded EXCEPT ![r] = TRUE]
    /\ store' = IF Claimed(r)
                THEN [store EXCEPT ![IdOf(r)] = ConcludedEntry(r, Verdict(rec, produced[r]))]
                ELSE store

\* concludeOperation: at most once, only for a claimed operation, and only if
\* the entry in the map is still this request's own.  It wakes the waiters.
ConcludeOperation(r, rec) ==
    /\ concluded' = [concluded EXCEPT ![r] = TRUE]
    /\ store' = IF /\ ~ concluded[r]
                   /\ Claimed(r)
                   /\ store[IdOf(r)].kind = "pending"
                   /\ store[IdOf(r)].by = r
                THEN [store EXCEPT ![IdOf(r)] = ConcludedEntry(r, Verdict(rec, produced[r]))]
                ELSE store

\* Mutant of AtFinish: a verdict already reported is not looked at.
AtFinishUnread(rec) ==
    IF Reached(rec, "payment_settled")
    THEN Terminate(Enter(rec, {"response_prepared", "response_write_attempted"}),
                   "response_write_attempted", "none")
    ELSE IF /\ Reached(rec, "payment_payload_received")
            /\ ~ Reached(rec, "payment_verified")
    THEN Terminate(rec, "payment_rejected_pre_verification", "none")
    ELSE rec

\* What the finish listener adds to the recorder before it is observed.
AtFinish(rec) ==
    IF Reached(rec, "payment_settled")
    THEN Terminate(Enter(rec, {"response_prepared", "response_write_attempted"}),
                   "response_write_attempted", "none")
    ELSE IF /\ ~ rec.reported
            /\ Reached(rec, "payment_payload_received")
            /\ ~ Reached(rec, "payment_verified")
    THEN Terminate(rec, "payment_rejected_pre_verification", "none")
    ELSE rec

\* `finish': the response was handed to a connection that is still there.
Finish(r) ==
    /\ pc[r] = "responding"
    /\ connected[r]
    /\ Record(r, AtFinish(recorder[r]))
    /\ observations' = Append(observations, r)
    /\ ConcludeOperation(r, AtFinish(recorder[r]))
    /\ Goto(r, "finished")
    /\ UNCHANGED <<present, connected, produced, waitsOn, consumed, did, abandoned>>

\* Mutants of Drop: there is no close listener; it pushes an observation too.
DropUnheard(r) ==
    /\ r \in Droppable
    /\ connected[r]
    /\ pc[r] \in Underway \cup {"waiting"}
    /\ connected' = [connected EXCEPT ![r] = FALSE]
    /\ UNCHANGED <<pc, present, recorder, produced, waitsOn, concluded,
                   store, observations, consumed, did, abandoned>>

DropObserved(r) ==
    /\ r \in Droppable
    /\ connected[r]
    /\ pc[r] \in Underway
    /\ connected' = [connected EXCEPT ![r] = FALSE]
    /\ ConcludeOperation(r, recorder[r])
    /\ observations' = Append(observations, r)
    /\ UNCHANGED <<pc, present, recorder, produced, waitsOn, consumed, did, abandoned>>

\* `close' before `finish': the connection dropped.  The listener concludes
\* the operation, if it is registered by then; whatever is in flight for the
\* request goes on.
Drop(r) ==
    /\ r \in Droppable
    /\ connected[r]
    /\ pc[r] \in Underway \cup {"waiting"}
    /\ connected' = [connected EXCEPT ![r] = FALSE]
    /\ IF pc[r] \in Underway
       THEN ConcludeOperation(r, recorder[r])
       ELSE UNCHANGED <<concluded, store>>
    /\ abandoned' = IF pc[r] \in {"middleware", "verifying"}
                    THEN abandoned \cup {r} ELSE abandoned
    /\ UNCHANGED <<pc, present, recorder, produced, waitsOn, observations, consumed, did>>

\* `close' after `finish': the listener runs once more.
Close(r) ==
    /\ r \in Closing
    /\ pc[r] = "finished"
    /\ connected[r]
    /\ connected' = [connected EXCEPT ![r] = FALSE]
    /\ ConcludeOperation(r, recorder[r])
    /\ UNCHANGED <<pc, present, recorder, produced, waitsOn, observations, consumed, did,
                   abandoned>>

-----------------------------------------------------------------------------
Advance(r) ==
    \/ Decide(r) \/ Middleware(r) \/ VerifyAnswered(r) \/ SettleAnswered(r) \/ Finish(r)

Next == \E r \in Requests : Arrive(r) \/ Advance(r) \/ Drop(r) \/ Close(r)

Spec == Init /\ [][Next]_vars

(* The event loop runs what is ready, and every call to the facilitator is *)
(* answered or raises.  Nobody has to send a request or to disconnect.     *)
FairSpec == Spec /\ \A r \in Requests : WF_vars(Advance(r))

-----------------------------------------------------------------------------
(* Properties. *)

Transferred(r) == "transfer" \in did[r]
Settled(r) == Reached(recorder[r], "payment_settled")

\* Its connection was lost before the response was finished.
Dropped(r) == ~ connected[r] /\ pc[r] # "finished"

\* No payment presents an authorization the idempotency layer cannot read.
WellFormedInputs == \A p \in Inputs : p.auth \notin Malformed

\* Two requests that present the same identifier.
SameIdentifier(r, s) == r # s /\ IdOf(r) = IdOf(s) /\ IdOf(r) # None

\* Two requests that owned, at different times, the same identifier.
Rivals(r, s) == r # s /\ Claimed(r) /\ Claimed(s) /\ IdOf(r) = IdOf(s)

(* An unconcluded operation is the one its identifier's entry is pending   *)
(* for, and a pending entry has exactly one unconcluded owner.             *)
OneOwner ==
    /\ \A r \in Requests : Claimed(r) /\ ~ concluded[r] => store[IdOf(r)] = PendingEntry(r)
    /\ \A i \in Identifiers : store[i].kind = "pending" =>
          LET r == store[i].by IN
            r \in Requests /\ Claimed(r) /\ IdOf(r) = i /\ ~ concluded[r]

(* README: one identifier yields at most one settlement.  Counted over all *)
(* requests that present it, as transfers the facilitator made, those of a *)
(* settlement that raised included.                                        *)
OneSettlementPerIdentifier ==
    \A r, s \in Requests : SameIdentifier(r, s) => ~ (Transferred(r) /\ Transferred(s))

(* What remains of it when connections may drop and authorizations may be  *)
(* malformed: of two requests that paid under one identifier, one had been *)
(* given up as `rejected' while its verification was still in flight, or   *)
(* was never bound to the identifier since its authorization is malformed. *)
PaidTwiceIsExplained ==
    \A r, s \in Requests :
        SameIdentifier(r, s) /\ Transferred(r) /\ Transferred(s) =>
            \E q \in {r, s} : q \in abandoned \/ present[q].auth \in Malformed

(* A `rejected' identifier is one under which nothing was paid: this is    *)
(* what makes it safe to release for another attempt.                      *)
ReleasedOnlyUnpaid ==
    \A r \in Requests :
        Claimed(r) /\ store[IdOf(r)].kind = "rejected" /\ r \notin abandoned
            => ~ Transferred(r) /\ pc[r] # "settling"

(* Overlapping requests under one identifier never verify, execute or      *)
(* settle side by side: only one has a payment under way.                  *)
SerializedPerIdentifier ==
    \A r, s \in Requests :
        Rivals(r, s) /\ pc[r] \in InFlight /\ pc[s] \in InFlight
            => r \in abandoned \/ s \in abandoned

(* A completed entry is backed by a transfer of exactly the authorization  *)
(* it names, made for the request whose result it holds.                   *)
CompletedIsPaid ==
    \A i \in Identifiers : store[i].kind = "completed" =>
        LET r == store[i].by IN
          /\ r \in Requests /\ Claimed(r) /\ produced[r] /\ Transferred(r)
          /\ present[r].id = i /\ present[r].fp = store[i].fp /\ present[r].auth = store[i].auth
          /\ Identity[present[r].auth] \in consumed

(* A cached result goes only to a request that presents the identifier,    *)
(* the fingerprint and the authorization that were settled.                *)
CachedOnlyToPayer ==
    \A r \in Requests : pc[r] = "cached" =>
        LET e == store[IdOf(r)] IN
          /\ e.kind = "completed" /\ e.fp = present[r].fp /\ e.auth = present[r].auth
          /\ \E s \in Requests : s # r /\ Transferred(s) /\ present[s] = present[r]

(* Doubt has a cause the server can name: the settlement raised, or the    *)
(* connection dropped once settlement had been asked for.  No word of the  *)
(* facilitator's can put an identifier there.                              *)
UncertainIsExplained ==
    \A i \in Identifiers : store[i].kind = "uncertain" =>
        LET r == store[i].by IN
          "raise" \in did[r] \/ ("settle" \in did[r] /\ Dropped(r))

(* What an observation says happened is what happened outside the server.  *)
ObservationsAreTrue ==
    \A k \in DOMAIN observations :
        LET r == observations[k]
            t == recorder[r].terminal
        IN /\ PaymentWasSettled(t) <=> Settled(r)
           /\ PaymentWasSettled(t) => Transferred(r)
           /\ t = "settlement_failed" /\ recorder[r].reason # "settlement_exception"
                => ~ Transferred(r) /\ "settle" \in did[r] /\ "raise" \notin did[r]
           /\ t = "payment_rejected_pre_verification" => "verify" \notin did[r]
           /\ t \in {"payment_rejected_pre_verification", "verification_rejected",
                     "payment_required_only"} => "execute" \notin did[r]
           /\ t = "handler_error_status" => "execute" \in did[r] /\ "settle" \notin did[r]

(* One observation for every response that was finished, and none for a    *)
(* request the idempotency layer answered or whose connection dropped.     *)
ObservedOnce ==
    \A r \in Requests :
        Cardinality({k \in DOMAIN observations : observations[k] = r})
            = IF pc[r] = "finished" THEN 1 ELSE 0

Paid(r) == did[r] \cap {"execute", "transfer"} # {}

(* When the declaration marks the identifier required, the handler runs    *)
(* and money moves only for a request that owned an identifier, or that    *)
(* presents one beside an authorization this layer cannot read.            *)
PaymentsAreBound ==
    IdentifierRequired =>
        \A r \in Requests : Paid(r) =>
            Claimed(r) \/ (IdOf(r) # None /\ present[r].auth \in Malformed)

(* Nothing is evicted, an identifier stays bound to the request that first *)
(* used it, a completed or uncertain entry never changes again, and a new  *)
(* identifier is bound only where there is room for it.                    *)
BoundForLife ==
    [][\A i \in Identifiers :
          /\ store[i].kind # "absent" => store'[i].kind # "absent" /\ store'[i].fp = store[i].fp
          /\ store[i].kind \in {"completed", "uncertain"} => store'[i] = store[i]
          /\ store[i].kind = "absent" /\ store'[i].kind # "absent" =>
                Cardinality(Bound) < Capacity]_store

(* Every request that arrives is answered, the waiting ones included.      *)
EveryRequestAnswered ==
    \A r \in Requests : pc[r] = "deciding" ~> pc[r] \in Answered

(* An operation claimed over a connection that was still there is          *)
(* concluded, whatever happens to the connection after.                    *)
LiveClaimsConclude ==
    \A r \in Requests : Claimed(r) /\ connected[r] ~> concluded[r]

=============================================================================
