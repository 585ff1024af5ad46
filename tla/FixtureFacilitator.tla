---------------------------- MODULE FixtureFacilitator ----------------------------
(***************************************************************************)
(* One instance of the in-process facilitator that stands in for the       *)
(* network's (FixtureExactEvmFacilitator, flow/fixture-facilitator.ts),    *)
(* under concurrent calls to verify and to settle.  An action is a stretch *)
(* of code without an await: settle is one, unless a barrier holds it at   *)
(* its entry until a test releases it.                                     *)
(***************************************************************************)
EXTENDS Naturals, FiniteSets

CONSTANTS
    Calls,       \* the calls made of the instance
    Authorizers, \* addresses that authorize transfers
    Nonces,
    None

ASSUME FacilitatorAssumption == None \notin Authorizers \cup Nonces

VARIABLES
    behavior, \* how the instance was built to behave
    released, \* whether the promise of the barrier is resolved
    arrived,  \* how often the barrier was told of an arrival
    counts,   \* how often verify and settle were called
    calls,    \* each call: where it is, what it was asked, and its answer
    settled   \* settledAuthorizations

vars == <<behavior, released, arrived, counts, calls, settled>>

-----------------------------------------------------------------------------
(* Payments. *)

\* The hex of an authorization is spelled in lower case or in another.
Spellings == {"lower", "other"}

\* An authorization with its two names; one that is an object without them; none.
Authorizations ==
    [kind : {"named"}, from : Authorizers, nonce : Nonces, spelling : Spellings]
        \cup [kind : {"unnamed", "missing"}, from : {None}, nonce : {None}, spelling : {"lower"}]

\* Whether the payment accepts the network, scheme, asset, amount and recipient that
\* were advertised and has a signature, and its authorization.
Payments == [matching : BOOLEAN, authorization : Authorizations]

\* checkTerms finds no problem.
CheckTerms(payment) == payment.matching /\ payment.authorization.kind # "missing"

\* Mutants of AuthorizationIdentity: the two halves are not lower-cased; the nonce
\* alone identifies.
IdentityAsSpelled(a) ==
    IF a.kind = "named" THEN {<<a.from, IF a.spelling = "lower" THEN a.nonce ELSE None>>} ELSE {}
IdentityByNonce(a) == IF a.kind = "named" THEN {<<None, a.nonce>>} ELSE {}

\* authorizationIdentity: at most one pair, in lower case.
AuthorizationIdentity(a) == IF a.kind = "named" THEN {<<a.from, a.nonce>>} ELSE {}

\* throwOnVerify and rejectVerification, throwOnSettle and rejectSettlement, and
\* settlementBarrier.
Behaviors == [verify : {"check", "throw", "reject"}, settle : {"check", "throw", "reject"},
              barrier : BOOLEAN]

Idle == [pc |-> "idle", answer |-> None, payment |-> None]

Init ==
    /\ behavior \in Behaviors
    /\ released = FALSE /\ arrived = 0
    /\ counts = [verify |-> 0, settle |-> 0]
    /\ calls = [c \in Calls |-> Idle]
    /\ settled = {}

-----------------------------------------------------------------------------
(* The calls. *)

Answer(c, payment, answer) ==
    calls' = [calls EXCEPT ![c] = [pc |-> "answered", answer |-> answer, payment |-> payment]]

\* verify: it counts, and answers at once; nothing is consumed.
Verify(c, payment) ==
    /\ calls[c].pc = "idle"
    /\ counts' = [counts EXCEPT !.verify = @ + 1]
    /\ Answer(c, payment, IF behavior.verify = "throw" THEN "verify_raised"
                          ELSE IF behavior.verify = "reject" THEN "verify_rejected"
                          ELSE IF CheckTerms(payment) THEN "valid" ELSE "invalid")
    /\ UNCHANGED <<behavior, released, arrived, settled>>

\* Mutant of Conclude: the authorization is consumed before the checks.
ConcludeConsuming(c, payment) ==
    IF AuthorizationIdentity(payment.authorization) \cap settled # {}
    THEN Answer(c, payment, "duplicate") /\ UNCHANGED settled
    ELSE /\ settled' = settled \cup AuthorizationIdentity(payment.authorization)
         /\ Answer(c, payment, IF behavior.settle = "throw" THEN "raised"
                               ELSE IF behavior.settle = "reject" THEN "rejected"
                               ELSE IF CheckTerms(payment) THEN "success" ELSE "problem")

\* What settle does once it is past the barrier: the duplicate check, the ways it was
\* built to fail, the terms, and the consumption, in one stretch.
Conclude(c, payment) ==
    \/ /\ AuthorizationIdentity(payment.authorization) \cap settled # {}
       /\ Answer(c, payment, "duplicate")
       /\ UNCHANGED settled
    \/ /\ AuthorizationIdentity(payment.authorization) \cap settled = {}
       /\ behavior.settle # "check" \/ ~ CheckTerms(payment)
       /\ Answer(c, payment, IF behavior.settle = "throw" THEN "raised"
                             ELSE IF behavior.settle = "reject" THEN "rejected" ELSE "problem")
       /\ UNCHANGED settled
    \/ /\ AuthorizationIdentity(payment.authorization) \cap settled = {}
       /\ behavior.settle = "check" /\ CheckTerms(payment)
       /\ settled' = settled \cup AuthorizationIdentity(payment.authorization)
       /\ Answer(c, payment, "success")

\* settle, where no barrier was given.
Settle(c, payment) ==
    /\ calls[c].pc = "idle" /\ ~ behavior.barrier
    /\ counts' = [counts EXCEPT !.settle = @ + 1]
    /\ Conclude(c, payment)
    /\ UNCHANGED <<behavior, released, arrived>>

\* settle up to the await of the barrier.
Arrive(c, payment) ==
    /\ calls[c].pc = "idle" /\ behavior.barrier
    /\ counts' = [counts EXCEPT !.settle = @ + 1]
    /\ arrived' = arrived + 1
    /\ calls' = [calls EXCEPT ![c] = [pc |-> "held", answer |-> None, payment |-> payment]]
    /\ UNCHANGED <<behavior, released, settled>>

\* The test that was told of an arrival releases the barrier, for good.
Release ==
    /\ arrived > 0 /\ ~ released
    /\ released' = TRUE
    /\ UNCHANGED <<behavior, arrived, counts, calls, settled>>

\* settle from the await on.
Proceed(c) ==
    /\ calls[c].pc = "held" /\ released
    /\ Conclude(c, calls[c].payment)
    /\ UNCHANGED <<behavior, released, arrived, counts>>

Next ==
    \/ \E c \in Calls, payment \in Payments :
          Verify(c, payment) \/ Settle(c, payment) \/ Arrive(c, payment)
    \/ \E c \in Calls : Proceed(c)
    \/ Release

Spec == Init /\ [][Next]_vars

-----------------------------------------------------------------------------
(* Properties. *)

Answers == {"verify_raised", "verify_rejected", "valid", "invalid", "duplicate", "raised",
            "rejected", "problem", "success"}

Concluded(c, answer) == calls[c].pc = "answered" /\ calls[c].answer = answer

\* The authorization a call is for, whatever its spelling.
For(c) ==
    IF calls[c].payment.authorization.kind = "named"
    THEN {<<calls[c].payment.authorization.from, calls[c].payment.authorization.nonce>>}
    ELSE {}

\* The calls that transferred something with a name.
Successes == {c \in Calls : Concluded(c, "success") /\ For(c) # {}}

TypeOK ==
    /\ behavior \in Behaviors /\ released \in BOOLEAN /\ arrived \in Nat
    /\ counts \in [verify : Nat, settle : Nat]
    /\ calls \in [Calls -> {Idle} \cup [pc : {"held"}, answer : {None}, payment : Payments]
                                  \cup [pc : {"answered"}, answer : Answers, payment : Payments]]
    /\ settled \subseteq Authorizers \X Nonces

(* A settlement is refused as a duplicate only after another call settled   *)
(* the same authorization: neither one that failed nor another authorizer   *)
(* with the same nonce gives reason for it, in whatever order the calls     *)
(* that wait at the barrier go on.                                          *)
DuplicateOfASuccess ==
    \A c \in Calls : Concluded(c, "duplicate") => \E d \in Successes : For(d) = For(c)

\* What is consumed is what was settled with success, and once.
IInv ==
    /\ TypeOK
    /\ settled = UNION {For(c) : c \in Successes}
    /\ \A c, d \in Successes : For(c) = For(d) => c = d
    /\ DuplicateOfASuccess

Outcome(c) ==
    IF calls[c].pc # "answered" \/ calls[c].answer \in {"verify_raised", "verify_rejected", "valid", "invalid"}
    THEN "none"
    ELSE IF calls[c].answer = "duplicate" THEN "duplicate"
    ELSE IF calls[c].answer = "success"
         THEN IF For(c) = {} THEN "unnamed" ELSE "transferred"
    ELSE "failed"

(* The instance keeps the promise of the state of authorizations, whatever  *)
(* the barrier lets interleave: each call to settle that has concluded is   *)
(* one step of it, and the authorizations that were transferred are those   *)
(* of the calls that were told of a success.                                *)
AS == INSTANCE AuthorizationState
        WITH consumed <- UNION {For(c) : c \in Successes},
             outcome <- [c \in Calls |-> Outcome(c)]

ImplementsAuthorizationState == AS!Spec
=============================================================================
