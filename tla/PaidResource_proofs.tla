------------------------- MODULE PaidResource_proofs -------------------------
(***************************************************************************)
(* What is proved of PaidResource for every number of requests, every set  *)
(* of identifiers, fingerprints, authorizations and presentations, and any *)
(* choice of connections that drop.                                        *)
(***************************************************************************)
EXTENDS PaidResourceInvariant, PaidResourceRefinement, FiniteSetTheorems, TLAPS

LEMMA RecorderTypes ==
    /\ NewRecorder \in Recorder
    /\ \A rec \in Recorder, P \in SUBSET LIFECYCLE_STATES : Enter(rec, P) \in Recorder
    /\ \A rec \in Recorder, t \in TERMINAL_STATES, w \in FAILURE_REASONS :
          Terminate(rec, t, w) \in Recorder
<1>1. NewRecorder \in Recorder
  BY DEF NewRecorder, Recorder, TERMINAL_STATES, FAILURE_REASONS
<1>2. ASSUME NEW rec \in Recorder, NEW P \in SUBSET LIFECYCLE_STATES
      PROVE  Enter(rec, P) \in Recorder
  BY DEF Enter, Recorder
<1>3. ASSUME NEW rec \in Recorder, NEW t \in TERMINAL_STATES, NEW w \in FAILURE_REASONS
      PROVE  Terminate(rec, t, w) \in Recorder
  BY DEF Terminate, Recorder
<1> QED  BY <1>1, <1>2, <1>3

LEMMA PersistableType ==
    ASSUME NEW word, NEW derived \in FAILURE_REASONS
    PROVE  PersistableFailureReason(word, derived) \in FAILURE_REASONS
BY DEF PersistableFailureReason, FAILURE_REASONS

LEMMA AtFinishType == ASSUME NEW rec \in Recorder PROVE AtFinish(rec) \in Recorder
<1>1. "none" \in FAILURE_REASONS
  BY DEF FAILURE_REASONS
<1>2. /\ {"response_prepared", "response_write_attempted"} \in SUBSET LIFECYCLE_STATES
      /\ "response_write_attempted" \in TERMINAL_STATES
      /\ "payment_rejected_pre_verification" \in TERMINAL_STATES
  BY DEF LIFECYCLE_STATES, TERMINAL_STATES
<1> QED  BY <1>1, <1>2, RecorderTypes DEF AtFinish

LEMMA VerdictType ==
    ASSUME NEW rec, NEW p PROVE Verdict(rec, p) \in {"completed", "rejected", "uncertain"}
BY DEF Verdict

LEMMA EntryTypes ==
    ASSUME TypeOK, NEW r \in Requests, Bindable(present[r])
    PROVE  /\ IdOf(r) \in Identifiers
           /\ PendingEntry(r) \in Entry
           /\ \A kind \in {"completed", "rejected", "uncertain"} :
                 ConcludedEntry(r, kind) \in Entry
<1>1. r \in 0 .. NumRequests
  BY NumRequestsAssumption DEF Requests
<1>2. present[r] \in Presentation
  BY DEF TypeOK
<1> QED  BY <1>1, <1>2 DEF IdOf, Bindable, Presentation, PendingEntry, ConcludedEntry, Entry, Kinds

LEMMA ConcludeType ==
    ASSUME TypeOK, NEW r \in Requests, NEW rec, ConcludeOperation(r, rec)
    PROVE  /\ concluded' \in [Requests -> BOOLEAN]
           /\ store' \in [Identifiers -> Entry]
<1>1. concluded' \in [Requests -> BOOLEAN]
  BY DEF TypeOK, ConcludeOperation
<1>2. CASE store' = store
  BY <1>1, <1>2 DEF TypeOK
<1>3. CASE Claimed(r) /\ store' =
             [store EXCEPT ![IdOf(r)] = ConcludedEntry(r, Verdict(rec, produced[r]))]
  BY <1>1, <1>3, EntryTypes, VerdictType DEF TypeOK, Claimed
<1> QED  BY <1>2, <1>3 DEF ConcludeOperation

-----------------------------------------------------------------------------
(* Type correctness. *)

LEMMA SettlingStep ==
    ASSUME TypeOK, SettlingIsAuthorized, [Next]_vars PROVE SettlingIsAuthorized'
<1> USE DEF SettlingIsAuthorized, TypeOK, Goto
<1>1. CASE UNCHANGED vars
  BY <1>1 DEF vars
<1> SUFFICES ASSUME NEW s \in Requests, Arrive(s) \/ Advance(s) \/ Drop(s) \/ Close(s)
             PROVE  SettlingIsAuthorized'
  BY <1>1 DEF Next
<1>2. CASE Arrive(s) \/ Drop(s) \/ Close(s) \/ Finish(s)
  BY <1>2 DEF Arrive, Drop, Close, Finish
<1>3. CASE Decide(s)
  BY <1>3 DEF Decide, RefuseIdentifier, PassThrough, RefuseCapacity, Claim, Own, Available,
       RefuseFingerprint,
              RefuseAuthorization, RefuseUncertain, Wait, ServeCached, AnswerHere
<1>4. CASE Middleware(s)
  BY <1>4 DEF Middleware, Unrouted, Challenge, RefusePreVerification, BeginVerify
<1>5. CASE VerifyAnswered(s)
  BY <1>5 DEF VerifyAnswered, VerifyInvalid, VerifyRaises, VerifyValid, HandlerFails, CheckTerms
<1>6. CASE SettleAnswered(s)
  BY <1>6 DEF SettleAnswered, SettleSucceeds, SettleRefused, SettleRaises
<1> QED  BY <1>2, <1>3, <1>4, <1>5, <1>6 DEF Advance

\* What a settlement consumes is a pair of an authorizer and a nonce.
LEMMA ConsumeType ==
    ASSUME TypeOK, SettlingIsAuthorized, NEW r \in Requests, pc[r] = "settling", Consume(r)
    PROVE  consumed' \subseteq Identities
<1>1. present[r].auth \in Authorizations \cup Malformed
  BY DEF SettlingIsAuthorized, TypeOK, Presentation
<1>2. Identity[present[r].auth] \in Identities \cup {None}
  BY <1>1, IdentityAssumption
<1> QED  BY <1>2 DEF Consume, TypeOK

LEMMA TypeStep == ASSUME TypeOK, SettlingIsAuthorized, [Next]_vars PROVE TypeOK'
<1> USE DEF Goto, Record, Cause
<1>0. CASE UNCHANGED vars
  BY <1>0 DEF TypeOK, vars
<1> SUFFICES ASSUME NEW r \in Requests, Arrive(r) \/ Advance(r) \/ Drop(r) \/ Close(r)
             PROVE  TypeOK'
  BY <1>0 DEF Next
<1>1. CASE Arrive(r)
  BY <1>1 DEF TypeOK, Arrive, Places
<1>2. CASE Decide(r)
  <2>1. ASSUME NEW a \in Answered, AnswerHere(r, a) PROVE TypeOK'
    BY <2>1 DEF TypeOK, AnswerHere, Places
  <2>2. CASE RefuseIdentifier(r) \/ RefuseCapacity(r) \/ RefuseFingerprint(r)
               \/ RefuseAuthorization(r) \/ RefuseUncertain(r) \/ ServeCached(r)
    BY <2>1, <2>2 DEF Answered, RefuseIdentifier, RefuseCapacity, RefuseFingerprint,
                      RefuseAuthorization, RefuseUncertain, ServeCached
  <2>3. CASE PassThrough(r)
    BY <2>3 DEF TypeOK, PassThrough, Places, Underway, InFlight
  <2>4. CASE Claim(r)
    BY <2>4, EntryTypes DEF TypeOK, Claim, Own, Available, Places, Underway, InFlight
  <2>5. CASE Wait(r)
    <3>1. store[IdOf(r)].by \in 0 .. NumRequests
      BY <2>5, EntryTypes DEF TypeOK, Wait, SameRequest, Entry
    <3> QED  BY <2>5, <3>1 DEF TypeOK, Wait, Places
  <2> QED  BY <1>2, <2>2, <2>3, <2>4, <2>5 DEF Decide
<1>3. ASSUME recorder'[r] \in Recorder,
             recorder' = [recorder EXCEPT ![r] = recorder'[r]],
             produced' \in [Requests -> BOOLEAN],
             did' \in [Requests -> SUBSET Effects],
             pc' \in [Requests -> Places],
             consumed' \subseteq Identities,
             UNCHANGED <<present, connected, waitsOn, concluded, store, observations, abandoned>>
      PROVE  TypeOK'
  BY <1>3 DEF TypeOK
<1>4. recorder[r] \in Recorder
  BY DEF TypeOK
<1>5. CASE Middleware(r)
  <2>1. PaymentReceived(r) \in Recorder
        /\ Enter(recorder[r], {"request_received", "payment_required"}) \in Recorder
    BY <1>4, RecorderTypes DEF PaymentReceived, LIFECYCLE_STATES
  <2>2. CASE Unrouted(r)
    BY <1>3, <1>4, <2>2 DEF TypeOK, Unrouted, Places, Underway
  <2>3. CASE Challenge(r)
    BY <1>3, <2>1, <2>3 DEF TypeOK, Challenge, Places, Underway
  <2>4. CASE RefusePreVerification(r)
    BY <1>3, <2>1, <2>4 DEF TypeOK, RefusePreVerification, Places, Underway
  <2>5. CASE BeginVerify(r)
    BY <1>3, <2>1, <2>5 DEF TypeOK, BeginVerify, Places, Underway, InFlight, Effects
  <2> QED  BY <1>5, <2>2, <2>3, <2>4, <2>5 DEF Middleware
<1>6. CASE VerifyAnswered(r)
  <2>1. Verified(r) \in Recorder /\ Enter(recorder[r], {"payment_payload_received"}) \in Recorder
    BY <1>4, RecorderTypes DEF Verified, LIFECYCLE_STATES
  <2>2. /\ {"verification_rejected", "handler_error_status"} \subseteq TERMINAL_STATES
        /\ {"verification_rejected", "verification_exception", "none"} \subseteq FAILURE_REASONS
    BY DEF TERMINAL_STATES, FAILURE_REASONS, DERIVED_REASONS
  <2>3. CASE VerifyInvalid(r)
    <3>1. recorder'[r] \in Recorder /\ recorder' = [recorder EXCEPT ![r] = recorder'[r]]
      BY <2>1, <2>2, <2>3, PersistableType, RecorderTypes DEF VerifyInvalid, TypeOK
    <3> QED  BY <1>3, <2>3, <3>1 DEF VerifyInvalid, TypeOK, Places, Underway
  <2>4. CASE VerifyRaises(r)
    BY <1>3, <1>4, <2>2, <2>4, RecorderTypes DEF VerifyRaises, TypeOK, Places, Underway
  <2>5. CASE VerifyValid(r)
    BY <1>3, <2>1, <2>5 DEF VerifyValid, TypeOK, Places, Underway, InFlight, Effects
  <2>6. CASE HandlerFails(r)
    BY <1>3, <2>1, <2>2, <2>6, RecorderTypes DEF HandlerFails, TypeOK, Places, Underway, Effects
  <2> QED  BY <1>6, <2>3, <2>4, <2>5, <2>6 DEF VerifyAnswered
<1>7. CASE SettleAnswered(r)
  <2>1. /\ "settlement_failed" \in TERMINAL_STATES
        /\ {"settlement_rejected", "settlement_exception"} \subseteq FAILURE_REASONS
        /\ {"payment_settled"} \in SUBSET LIFECYCLE_STATES
    BY DEF TERMINAL_STATES, FAILURE_REASONS, DERIVED_REASONS, LIFECYCLE_STATES
  <2>2. Enter(recorder[r], {"payment_settled"}) \in Recorder
    BY <1>4, <2>1, RecorderTypes
  <2>3. CASE SettleSucceeds(r)
    <3>1. consumed' \subseteq Identities
      BY <2>3, ConsumeType DEF SettleSucceeds
    <3> QED  BY <1>3, <2>2, <2>3, <3>1 DEF SettleSucceeds, TypeOK, Places, Underway, Effects
  <2>4. CASE SettleRefused(r)
    <3>1. recorder'[r] \in Recorder /\ recorder' = [recorder EXCEPT ![r] = recorder'[r]]
      BY <1>4, <2>1, <2>4, PersistableType, RecorderTypes DEF SettleRefused, TypeOK
    <3> QED  BY <1>3, <2>4, <3>1 DEF SettleRefused, TypeOK, Places, Underway
  <2>5. CASE SettleRaises(r)
    <3>1. Terminate(recorder[r], "settlement_failed", "settlement_exception") \in Recorder
      BY <1>4, <2>1, RecorderTypes
    <3>2. Consume(r) => consumed' \subseteq Identities
      BY <2>5, ConsumeType DEF SettleRaises
    <3>3. recorder'[r] \in Recorder /\ recorder' = [recorder EXCEPT ![r] = recorder'[r]]
      BY <2>5, <3>1 DEF SettleRaises, TypeOK
    <3>4. pc' \in [Requests -> Places]
      BY <2>5 DEF SettleRaises, TypeOK, Places, Underway
    <3>5. did' \in [Requests -> SUBSET Effects] /\ consumed' \subseteq Identities
      <4>1. CASE UNCHANGED consumed /\ Cause(r, {"raise"})
        BY <4>1 DEF TypeOK, Effects
      <4>2. CASE Consume(r) /\ Cause(r, {"raise", "transfer"})
        BY <3>2, <4>2 DEF TypeOK, Effects
      <4> QED  BY <2>5, <4>1, <4>2 DEF SettleRaises
    <3>6. UNCHANGED <<present, connected, waitsOn, concluded, store, observations, abandoned>>
      BY <2>5 DEF SettleRaises
    <3>7. produced' \in [Requests -> BOOLEAN]
      BY <2>5 DEF SettleRaises, TypeOK
    <3> QED  BY <1>3, <3>3, <3>4, <3>5, <3>6, <3>7
  <2> QED  BY <1>7, <2>3, <2>4, <2>5 DEF SettleAnswered
<1>8. CASE Finish(r)
  <2>1. concluded' \in [Requests -> BOOLEAN] /\ store' \in [Identifiers -> Entry]
    BY <1>8, ConcludeType DEF Finish
  <2>2. recorder' \in [Requests -> Recorder]
    BY <1>4, <1>8, AtFinishType DEF Finish, TypeOK
  <2> QED  BY <1>8, <2>1, <2>2 DEF Finish, TypeOK, Places, Answered
<1>9. CASE Drop(r)
  <2>1. concluded' \in [Requests -> BOOLEAN] /\ store' \in [Identifiers -> Entry]
    BY <1>9, ConcludeType DEF Drop, TypeOK
  <2> QED  BY <1>9, <2>1 DEF Drop, TypeOK
<1>10. CASE Close(r)
  <2>1. concluded' \in [Requests -> BOOLEAN] /\ store' \in [Identifiers -> Entry]
    BY <1>10, ConcludeType DEF Close
  <2> QED  BY <1>10, <2>1 DEF Close, TypeOK
<1> QED  BY <1>1, <1>2, <1>5, <1>6, <1>7, <1>8, <1>9, <1>10 DEF Advance

(* Every variable keeps its type: in particular an entry always has the    *)
(* shape its kind calls for and every request is at a place of the code.   *)
THEOREM TypeCorrect == Spec => []TypeOK
<1>1. Init => TypeOK /\ SettlingIsAuthorized
  BY RecorderTypes, InputsAssumption, NumRequestsAssumption
     DEF Init, TypeOK, SettlingIsAuthorized, Places, Entry, AbsentEntry, Kinds, Effects
<1>2. TypeOK /\ SettlingIsAuthorized /\ [Next]_vars => (TypeOK /\ SettlingIsAuthorized)'
  BY TypeStep, SettlingStep
<1> QED  BY <1>1, <1>2, PTL DEF Spec
-----------------------------------------------------------------------------
(* The inductive invariant is inductive. *)

\* What a request presents is fixed, and so is who is claimed unless the step
\* is a Claim.
LEMMA PresentFrame == ASSUME [Next]_vars PROVE present' = present
BY DEF Next, vars, Arrive, Advance, Decide, RefuseIdentifier, PassThrough, RefuseCapacity,
       Claim, Own, Available,
            RefuseFingerprint, RefuseAuthorization, RefuseUncertain, Wait, ServeCached,
       AnswerHere, Middleware, Unrouted, Challenge, RefusePreVerification, BeginVerify,
       VerifyAnswered, VerifyInvalid, VerifyRaises, VerifyValid, HandlerFails,
       SettleAnswered, SettleSucceeds, SettleRefused, SettleRaises, Finish, Drop, Close

\* A step of r that is not a Claim, Finish or Drop leaves the store alone and
\* every operation with the owner it had: a `close' after `finish' finds the
\* operation concluded.
Quiet(r) ==
    \/ Arrive(r) \/ (Decide(r) /\ ~ Claim(r)) \/ Close(r)
    \/ Middleware(r) \/ VerifyAnswered(r) \/ SettleAnswered(r)

LEMMA QuietFrame ==
    ASSUME TypeOK, ConcludedTrail, NEW r \in Requests, Quiet(r)
    PROVE  /\ UNCHANGED <<present, store, concluded, abandoned, observations>>
           /\ \A q \in Requests : Claimed(q)' = Claimed(q)
           /\ \A q \in Requests \ {r} : pc'[q] = pc[q]
<1> USE DEF Claimed, TypeOK, Goto, Underway, InFlight
<1>1. CASE Arrive(r)
  BY <1>1 DEF Arrive
<1>2. CASE Decide(r) /\ ~ Claim(r)
  <2>1. ASSUME NEW a \in Answered \ {"finished"}, Deciding(r), AnswerHere(r, a)
        PROVE  /\ UNCHANGED <<present, store, concluded, abandoned, observations>>
               /\ \A q \in Requests : Claimed(q)' = Claimed(q)
               /\ \A q \in Requests \ {r} : pc'[q] = pc[q]
    BY <2>1 DEF AnswerHere, Answered, Deciding
  <2>2. CASE PassThrough(r) \/ Wait(r)
    BY <2>2 DEF PassThrough, Wait, Deciding
  <2> QED  BY <1>2, <2>1, <2>2 DEF Decide, Answered, RefuseIdentifier, RefuseCapacity,
                 RefuseFingerprint, RefuseAuthorization, RefuseUncertain, ServeCached
<1>3. CASE Middleware(r)
  BY <1>3 DEF Middleware, Unrouted, Challenge, RefusePreVerification, BeginVerify
<1>4. CASE VerifyAnswered(r)
  BY <1>4 DEF VerifyAnswered, VerifyInvalid, VerifyRaises, VerifyValid, HandlerFails
<1>5. CASE SettleAnswered(r)
  BY <1>5 DEF SettleAnswered, SettleSucceeds, SettleRefused, SettleRaises
<1>6. CASE Close(r)
  BY <1>6 DEF Close, ConcludeOperation, ConcludedTrail
<1> QED  BY <1>1, <1>2, <1>3, <1>4, <1>5, <1>6 DEF Quiet

LEMMA StepCases ==
    ASSUME [Next]_vars
    PROVE  \/ UNCHANGED vars
           \/ \E r \in Requests : Quiet(r) \/ Claim(r) \/ Finish(r) \/ Drop(r)
BY DEF Next, Advance, Quiet

\* Who is claimed after a Claim, a Finish or a Drop.
LEMMA ClaimedFrame ==
    ASSUME TypeOK, NEW r \in Requests
    PROVE  /\ Claim(r) => /\ Claimed(r)' /\ ~ Claimed(r)
                          /\ \A q \in Requests \ {r} : Claimed(q)' = Claimed(q)
           /\ Finish(r) \/ Drop(r) => \A q \in Requests : Claimed(q)' = Claimed(q)
<1> USE DEF Claimed, TypeOK, Goto, Underway, InFlight
<1>1. CASE Claim(r)
  BY <1>1 DEF Claim, Own, Available, Deciding, Finish, Drop
<1>2. CASE Finish(r) \/ Drop(r)
  BY <1>2 DEF Finish, Drop, Claim, Own, Available, Deciding
<1> QED  BY <1>1, <1>2

LEMMA ConcludedStep ==
    ASSUME TypeOK, ConcludedTrail, [Next]_vars PROVE ConcludedTrail'
<1> USE DEF ConcludedTrail, TypeOK, Goto, Underway, InFlight
<1>1. CASE UNCHANGED vars
  BY <1>1 DEF vars
<1> SUFFICES ASSUME NEW s \in Requests, Arrive(s) \/ Advance(s) \/ Drop(s) \/ Close(s)
             PROVE  ConcludedTrail'
  BY <1>1 DEF Next
<1>2. CASE Arrive(s)
  BY <1>2 DEF Arrive
<1>3. CASE Drop(s) \/ Close(s) \/ Finish(s)
  BY <1>3 DEF Drop, Close, Finish, ConcludeOperation
<1>4. CASE Decide(s)
  BY <1>4 DEF Decide, RefuseIdentifier, PassThrough, RefuseCapacity, Claim, Own, Available,
       RefuseFingerprint,
              RefuseAuthorization, RefuseUncertain, Wait, ServeCached, AnswerHere, Deciding
<1>5. CASE Middleware(s)
  BY <1>5 DEF Middleware, Unrouted, Challenge, RefusePreVerification, BeginVerify
<1>6. CASE VerifyAnswered(s)
  BY <1>6 DEF VerifyAnswered, VerifyInvalid, VerifyRaises, VerifyValid, HandlerFails
<1>7. CASE SettleAnswered(s)
  BY <1>7 DEF SettleAnswered, SettleSucceeds, SettleRefused, SettleRaises
<1> QED  BY <1>2, <1>3, <1>4, <1>5, <1>6, <1>7 DEF Advance

\* concludeOperation either finds nothing of its own to conclude, or turns the
\* request's own pending entry into its verdict.
LEMMA ConcludeCases ==
    ASSUME TypeOK, OneOwner, NEW r \in Requests, NEW rec, ConcludeOperation(r, rec)
    PROVE  /\ concluded'[r]
           /\ \A q \in Requests \ {r} : concluded'[q] = concluded[q]
           /\ (~ Claimed(r) \/ concluded[r]) => store' = store
           /\ Claimed(r) /\ ~ concluded[r] =>
                /\ IdOf(r) \in Identifiers
                /\ store[IdOf(r)] = PendingEntry(r)
                /\ store' = [store EXCEPT ![IdOf(r)] =
                                ConcludedEntry(r, Verdict(rec, produced[r]))]
<1>1. concluded'[r] /\ \A q \in Requests \ {r} : concluded'[q] = concluded[q]
  BY DEF ConcludeOperation, TypeOK
<1>2. ASSUME Claimed(r), ~ concluded[r]
      PROVE  store[IdOf(r)] = PendingEntry(r) /\ IdOf(r) \in Identifiers
  BY <1>2, EntryTypes DEF OneOwner, Claimed
<1>3. PendingEntry(r).kind = "pending" /\ PendingEntry(r).by = r
  BY DEF PendingEntry
<1> QED  BY <1>1, <1>2, <1>3 DEF ConcludeOperation

LEMMA ConcludedEntryFields ==
    ASSUME NEW r, NEW kind
    PROVE  /\ ConcludedEntry(r, kind).kind = kind
           /\ ConcludedEntry(r, kind).by = r
           /\ ConcludedEntry(r, kind).fp = present[r].fp
           /\ kind # "rejected" => ConcludedEntry(r, kind).auth = present[r].auth
BY DEF ConcludedEntry, PendingEntry

LEMMA OwnerConclude ==
    ASSUME TypeOK, OneOwner, NEW r \in Requests, NEW rec, ConcludeOperation(r, rec),
           present' = present, \A q \in Requests : Claimed(q)' = Claimed(q)
    PROVE  OneOwner'
<1>1. CASE ~ Claimed(r) \/ concluded[r]
  <2>1. store' = store /\ \A q \in Requests : Claimed(q) => (concluded'[q] <=> concluded[q])
    BY <1>1, ConcludeCases
  <2> QED  BY <2>1 DEF OneOwner, IdOf, PendingEntry, Claimed
<1>2. CASE Claimed(r) /\ ~ concluded[r]
  <2>1. /\ store' = [store EXCEPT ![IdOf(r)] = ConcludedEntry(r, Verdict(rec, produced[r]))]
        /\ store'[IdOf(r)].kind # "pending"
        /\ store[IdOf(r)] = PendingEntry(r)
        /\ IdOf(r) \in Identifiers
    <3>1. /\ IdOf(r) \in Identifiers
          /\ store[IdOf(r)] = PendingEntry(r)
          /\ store' = [store EXCEPT ![IdOf(r)] = ConcludedEntry(r, Verdict(rec, produced[r]))]
      BY <1>2, ConcludeCases
    <3>2. store'[IdOf(r)] = ConcludedEntry(r, Verdict(rec, produced[r]))
      BY <3>1 DEF TypeOK
    <3>3. store'[IdOf(r)].kind = Verdict(rec, produced[r])
      BY <3>2, ConcludedEntryFields
    <3> QED  BY <3>1, <3>3, VerdictType
  <2>2. ASSUME NEW q \in Requests, Claimed(q), ~ concluded'[q]
        PROVE  store'[IdOf(q)] = PendingEntry(q)
    <3>1. q # r /\ ~ concluded[q] /\ store[IdOf(q)] = PendingEntry(q)
      BY <2>2, ConcludeCases DEF OneOwner
    <3>2. IdOf(q) # IdOf(r)
      BY <2>1, <3>1 DEF PendingEntry
    <3> QED  BY <2>1, <3>1, <3>2 DEF TypeOK
  <2>3. ASSUME NEW i \in Identifiers, store'[i].kind = "pending"
        PROVE  LET q == store'[i].by IN
                 q \in Requests /\ Claimed(q) /\ IdOf(q) = i /\ ~ concluded'[q]
    <3>1. i # IdOf(r) /\ store'[i] = store[i]
      BY <2>1, <2>3 DEF TypeOK
    <3>2. LET q == store[i].by IN
            q \in Requests /\ Claimed(q) /\ IdOf(q) = i /\ ~ concluded[q]
      BY <2>3, <3>1 DEF OneOwner
    <3> QED  BY <3>1, <3>2, ConcludeCases
  <2> QED  BY <2>2, <2>3 DEF OneOwner, IdOf, PendingEntry
<1> QED  BY <1>1, <1>2

LEMMA OwnerStep ==
    ASSUME TypeOK, ConcludedTrail, OneOwner, [Next]_vars PROVE OneOwner'
<1>1. CASE UNCHANGED vars
  BY <1>1 DEF vars, OneOwner, Claimed, IdOf, PendingEntry
<1> SUFFICES ASSUME NEW r \in Requests, Quiet(r) \/ Claim(r) \/ Finish(r) \/ Drop(r)
             PROVE  OneOwner'
  BY <1>1, StepCases
<1>2. CASE Quiet(r)
  BY <1>2, QuietFrame DEF OneOwner, IdOf, PendingEntry
<1>3. CASE Claim(r)
  <2>1. /\ store' = [store EXCEPT ![IdOf(r)] = PendingEntry(r)]
        /\ UNCHANGED <<present, concluded>>
        /\ store[IdOf(r)].kind # "pending"
        /\ IdOf(r) \in Identifiers
    BY <1>3, EntryTypes DEF Claim, Own, Available
  <2>2. ~ concluded[r]
    BY <1>3 DEF ConcludedTrail, Claim, Own, Available, Deciding, Underway, InFlight
  <2>3. ASSUME NEW q \in Requests, Claimed(q)', ~ concluded[q], q # r
        PROVE  store'[IdOf(q)] = PendingEntry(q)
    <3>1. store[IdOf(q)] = PendingEntry(q)
      BY <1>3, <2>3, ClaimedFrame DEF OneOwner
    <3>2. store[IdOf(q)].kind = "pending"
      BY <3>1 DEF PendingEntry
    <3>3. IdOf(q) # IdOf(r)
      BY <2>1, <3>2
    <3> QED  BY <2>1, <3>1, <3>3 DEF TypeOK
  <2>4. ASSUME NEW i \in Identifiers, store'[i].kind = "pending", i # IdOf(r)
        PROVE  \E q \in Requests :
                 q = store'[i].by /\ Claimed(q)' /\ IdOf(q) = i /\ ~ concluded[q]
    <3>1. store'[i] = store[i]
      BY <2>1, <2>4 DEF TypeOK
    <3>2. PICK q \in Requests : q = store[i].by /\ Claimed(q) /\ IdOf(q) = i /\ ~ concluded[q]
      BY <2>4, <3>1 DEF OneOwner
    <3>3. Claimed(q)'
      BY <1>3, <2>4, <3>2, ClaimedFrame
    <3> QED  BY <3>1, <3>2, <3>3
  <2>5. store'[IdOf(r)] = PendingEntry(r) /\ PendingEntry(r).by = r /\ Claimed(r)'
    BY <1>3, <2>1, ClaimedFrame DEF TypeOK, PendingEntry
  <2> QED  BY <2>1, <2>2, <2>3, <2>4, <2>5 DEF OneOwner, IdOf, PendingEntry, Claimed
<1>4. CASE Finish(r)
  BY <1>4, ClaimedFrame, OwnerConclude DEF Finish
<1>5. CASE Drop(r)
  <2>1. CASE ConcludeOperation(r, recorder[r])
    BY <1>5, <2>1, ClaimedFrame, OwnerConclude DEF Drop
  <2>2. CASE UNCHANGED <<concluded, store>>
    BY <1>5, <2>2, ClaimedFrame DEF Drop, OneOwner, IdOf, PendingEntry
  <2> QED  BY <1>5, <2>1, <2>2 DEF Drop
<1> QED  BY <1>2, <1>3, <1>4, <1>5

\* A step of r leaves what the other requests recorded and caused alone, and
\* an authorization once consumed stays consumed.
LEMMA OthersFrame ==
    ASSUME TypeOK, NEW r \in Requests, Arrive(r) \/ Advance(r) \/ Drop(r) \/ Close(r)
    PROVE  /\ \A q \in Requests \ {r} :
                 /\ pc'[q] = pc[q] /\ recorder'[q] = recorder[q]
                 /\ did'[q] = did[q] /\ produced'[q] = produced[q]
           /\ present' = present
           /\ consumed \subseteq consumed'
<1> USE DEF TypeOK, Goto, Record, Cause
<1>1. CASE Arrive(r) \/ Finish(r) \/ Drop(r) \/ Close(r)
  BY <1>1 DEF Arrive, Finish, Drop, Close
<1>2. CASE Decide(r)
  BY <1>2 DEF Decide, RefuseIdentifier, PassThrough, RefuseCapacity, Claim, Own, Available,
       RefuseFingerprint,
              RefuseAuthorization, RefuseUncertain, Wait, ServeCached, AnswerHere
<1>3. CASE Middleware(r)
  BY <1>3 DEF Middleware, Unrouted, Challenge, RefusePreVerification, BeginVerify
<1>4. CASE VerifyAnswered(r)
  BY <1>4 DEF VerifyAnswered, VerifyInvalid, VerifyRaises, VerifyValid, HandlerFails
<1>5. CASE SettleAnswered(r)
  BY <1>5 DEF SettleAnswered, SettleSucceeds, SettleRefused, SettleRaises, Consume
<1> QED  BY <1>1, <1>2, <1>3, <1>4, <1>5 DEF Advance

\* RecorderTrail, for one request.
TrailOf(r) ==
    /\ pc[r] \notin {"verifying", "settling", "responding", "finished"} =>
          recorder[r].seen = {} /\ ~ recorder[r].reported /\ did[r] = {}
    /\ pc[r] = "verifying" =>
          /\ ~ recorder[r].reported
          /\ ~ Reached(recorder[r], "resource_executed")
          /\ ~ Settled(r) /\ ~ Transferred(r)
    /\ pc[r] = "settling" =>
          /\ ~ recorder[r].reported
          /\ Reached(recorder[r], "resource_executed")
          /\ ~ Settled(r) /\ ~ Transferred(r) /\ produced[r]
    /\ Settled(r) => Transferred(r) /\ produced[r]
    /\ Transferred(r) => Settled(r) \/ Raised(r)
    /\ Transferred(r) => Identity[present[r].auth] \in consumed \cup {None}

LEMMA RecorderStep ==
    ASSUME TypeOK, RecorderTrail, [Next]_vars PROVE RecorderTrail'
<1> USE DEF Goto, Record, Cause
<1>1. CASE UNCHANGED vars
  BY <1>1 DEF vars, RecorderTrail, Settled, Transferred, Raised
<1> SUFFICES ASSUME NEW r \in Requests, Arrive(r) \/ Advance(r) \/ Drop(r) \/ Close(r)
             PROVE  TrailOf(r)'
  <2>1. SUFFICES ASSUME NEW r \in Requests, Arrive(r) \/ Advance(r) \/ Drop(r) \/ Close(r), TrailOf(r)'
                 PROVE  RecorderTrail'
    BY <1>1 DEF Next
  <2>2. ASSUME NEW q \in Requests, q # r PROVE TrailOf(q)'
    <3>1. TrailOf(q)
      BY DEF RecorderTrail, TrailOf
    <3>2. /\ pc'[q] = pc[q] /\ recorder'[q] = recorder[q]
          /\ did'[q] = did[q] /\ produced'[q] = produced[q]
          /\ present' = present /\ consumed \subseteq consumed'
      BY <2>1, <2>2, OthersFrame
    <3> QED  BY <3>1, <3>2 DEF TrailOf, Settled, Transferred, Raised
  <2> QED  BY <2>1, <2>2 DEF RecorderTrail, TrailOf
<1> DEFINE rec == recorder[r]
<1>2. TrailOf(r) /\ rec \in Recorder
  BY DEF RecorderTrail, TrailOf, TypeOK
<1>3. CASE Arrive(r) \/ Drop(r) \/ Close(r)
  BY <1>2, <1>3 DEF TrailOf, TypeOK, Arrive, Drop, Close, Settled, Transferred, Raised
<1>4. CASE Decide(r)
  BY <1>2, <1>4 DEF TrailOf, TypeOK, Settled, Transferred, Raised, Deciding,
       Decide, RefuseIdentifier, PassThrough, RefuseCapacity, Claim, Own, Available,
            RefuseFingerprint,
       RefuseAuthorization, RefuseUncertain, Wait, ServeCached, AnswerHere
<1> USE DEF Settled, Transferred, Raised, Reached, Recorder
<1>5. CASE Middleware(r)
  <2>1. pc[r] = "middleware" /\ rec.seen = {} /\ ~ rec.reported /\ did[r] = {}
    BY <1>2, <1>5 DEF TrailOf, Middleware, Unrouted, Challenge, RefusePreVerification, BeginVerify
  <2>2. CASE Unrouted(r)
    BY <2>1, <2>2 DEF TrailOf, TypeOK, Unrouted
  <2>3. CASE Challenge(r)
    BY <1>2, <2>1, <2>3 DEF TrailOf, TypeOK, Challenge, Enter
  <2>4. CASE RefusePreVerification(r)
    BY <1>2, <2>1, <2>4 DEF TrailOf, TypeOK, RefusePreVerification, PaymentReceived, Enter
  <2>5. CASE BeginVerify(r)
    BY <1>2, <2>1, <2>5 DEF TrailOf, TypeOK, BeginVerify, PaymentReceived, Enter
  <2> QED  BY <1>5, <2>2, <2>3, <2>4, <2>5 DEF Middleware
<1>6. CASE VerifyAnswered(r)
  <2>1. /\ pc[r] = "verifying" /\ ~ rec.reported
        /\ "resource_executed" \notin rec.seen /\ "payment_settled" \notin rec.seen
        /\ "transfer" \notin did[r]
    BY <1>2, <1>6 DEF TrailOf, VerifyAnswered, VerifyInvalid, VerifyRaises,
         VerifyValid, HandlerFails
  <2>2. CASE VerifyInvalid(r)
    BY <1>2, <2>1, <2>2 DEF TrailOf, TypeOK, VerifyInvalid, Enter, Terminate
  <2>3. CASE VerifyRaises(r)
    BY <1>2, <2>1, <2>3 DEF TrailOf, TypeOK, VerifyRaises, Terminate
  <2>4. CASE VerifyValid(r)
    BY <1>2, <2>1, <2>4 DEF TrailOf, TypeOK, VerifyValid, Verified, Enter
  <2>5. CASE HandlerFails(r)
    BY <1>2, <2>1, <2>5 DEF TrailOf, TypeOK, HandlerFails, Verified, Enter, Terminate
  <2> QED  BY <1>6, <2>2, <2>3, <2>4, <2>5 DEF VerifyAnswered
<1>7. CASE SettleAnswered(r)
  <2>1. /\ pc[r] = "settling" /\ ~ rec.reported /\ "payment_settled" \notin rec.seen
        /\ "transfer" \notin did[r] /\ produced[r]
    BY <1>2, <1>7 DEF TrailOf, SettleAnswered, SettleSucceeds, SettleRefused, SettleRaises
  <2>2. CASE SettleSucceeds(r)
    BY <1>2, <2>1, <2>2 DEF TrailOf, TypeOK, SettleSucceeds, Consume, Enter
  <2>3. CASE SettleRefused(r)
    BY <1>2, <2>1, <2>3 DEF TrailOf, TypeOK, SettleRefused, Terminate
  <2>4. CASE SettleRaises(r)
    BY <1>2, <2>1, <2>4 DEF TrailOf, TypeOK, SettleRaises, Consume, Terminate
  <2> QED  BY <1>7, <2>2, <2>3, <2>4 DEF SettleAnswered
<1>8. CASE Finish(r)
  BY <1>2, <1>8 DEF TrailOf, TypeOK, Settled, Transferred, Raised, Recorder, Reached, Enter,
       Terminate, AtFinish, Finish
<1> QED  BY <1>3, <1>4, <1>5, <1>6, <1>7, <1>8 DEF Advance

\* The verdict on an operation that is paid for, or whose settlement has been
\* asked for and not answered, never releases the identifier; and one that says
\* `completed' speaks of a settlement that succeeded.
LEMMA VerdictTrail ==
    ASSUME TypeOK, RecorderTrail, NEW r \in Requests, NEW rec,
           rec = recorder[r] \/ (rec = AtFinish(recorder[r]) /\ pc[r] = "responding")
    PROVE  /\ pc[r] = "settling" \/ Transferred(r) =>
                 Verdict(rec, produced[r]) \in {"completed", "uncertain"}
           /\ Verdict(rec, produced[r]) = "completed" => Settled(r) /\ produced[r]
<1>1. TrailOf(r) /\ recorder[r] \in Recorder
  BY DEF RecorderTrail, TrailOf, TypeOK
<1>2. CASE rec = recorder[r]
  BY <1>1, <1>2 DEF TrailOf, Verdict, Settled, Raised
<1>3. CASE rec = AtFinish(recorder[r]) /\ pc[r] = "responding"
  <2>1. CASE Settled(r)
    <3>1. Reached(rec, "payment_settled")
      BY <1>1, <1>3, <2>1 DEF AtFinish, Settled, Reached, Terminate, Enter, Recorder
    <3> QED  BY <1>1, <2>1, <3>1 DEF Verdict, TrailOf
  <2>2. CASE ~ Settled(r) /\ recorder[r].reported
    <3>1. rec = recorder[r]
      BY <1>3, <2>2 DEF AtFinish, Settled
    <3> QED  BY <1>2, <3>1
  <2>3. CASE ~ Settled(r) /\ ~ recorder[r].reported
    <3>1. ~ Transferred(r)
      BY <1>1, <2>3 DEF TrailOf, Raised
    <3>2. ~ Reached(rec, "payment_settled")
      BY <1>1, <1>3, <2>3 DEF AtFinish, Settled, Reached, Terminate, Recorder
    <3> QED  BY <1>3, <3>1, <3>2 DEF Verdict
  <2> QED  BY <2>1, <2>2, <2>3
<1> QED  BY <1>2, <1>3

\* What was caused stays caused, and a result that was paid for is kept.
LEMMA TransferKept ==
    ASSUME TypeOK, RecorderTrail, NEW r \in Requests, Arrive(r) \/ Advance(r) \/ Drop(r) \/ Close(r),
           NEW q \in Requests, Transferred(q)
    PROVE  Transferred(q)' /\ (produced[q] => produced'[q])
<1>1. CASE q # r
  BY <1>1, OthersFrame DEF Transferred
<1>2. CASE q = r
  <2> USE DEF TypeOK, Goto, Record, Cause, Transferred
  <2>1. pc[r] # "verifying"
    BY <1>2 DEF RecorderTrail
  <2>2. CASE Arrive(r) \/ Finish(r) \/ Drop(r) \/ Close(r)
    BY <1>2, <2>2 DEF Arrive, Finish, Drop, Close
  <2>3. CASE Decide(r)
    BY <1>2, <2>3 DEF Decide, RefuseIdentifier, PassThrough, RefuseCapacity,
       Claim, Own, Available,
              RefuseFingerprint, RefuseAuthorization, RefuseUncertain, Wait, ServeCached, AnswerHere
  <2>4. CASE Middleware(r)
    BY <1>2, <2>4 DEF Middleware, Unrouted, Challenge, RefusePreVerification, BeginVerify
  <2>5. CASE VerifyAnswered(r)
    BY <2>1, <2>5 DEF VerifyAnswered, VerifyInvalid, VerifyRaises, VerifyValid, HandlerFails
  <2>6. CASE SettleAnswered(r)
    BY <1>2, <2>6 DEF SettleAnswered, SettleSucceeds, SettleRefused, SettleRaises
  <2> QED  BY <2>2, <2>3, <2>4, <2>5, <2>6 DEF Advance
<1> QED  BY <1>1, <1>2

\* The operation of q has closed its identifier for good.
ClosedBy(q) == store[IdOf(q)].kind \in {"completed", "uncertain"} /\ store[IdOf(q)].by = q

LEMMA StoreConclude ==
    ASSUME TypeOK, OneOwner, RecorderTrail, StoreTrail, NEW r \in Requests, NEW rec,
           rec = recorder[r] \/ (rec = AtFinish(recorder[r]) /\ pc[r] = "responding"),
           ConcludeOperation(r, rec), present' = present,
           NEW q \in Requests, Claimed(q), concluded'[q],
           q \notin abandoned, pc[q] = "settling" \/ Transferred(q)
    PROVE  ClosedBy(q)'
<1>1. CASE ~ Claimed(r) \/ concluded[r]
  <2>1. store' = store /\ concluded[q]
    BY <1>1, ConcludeCases
  <2> QED  BY <2>1 DEF StoreTrail, ClosedBy, IdOf
<1>2. CASE Claimed(r) /\ ~ concluded[r]
  <2>1. /\ IdOf(r) \in Identifiers
        /\ store[IdOf(r)] = PendingEntry(r)
        /\ store' = [store EXCEPT ![IdOf(r)] = ConcludedEntry(r, Verdict(rec, produced[r]))]
    BY <1>2, ConcludeCases
  <2>2. CASE q = r
    <3>1. store'[IdOf(r)] = ConcludedEntry(r, Verdict(rec, produced[r]))
      BY <2>1 DEF TypeOK
    <3>2. Verdict(rec, produced[r]) \in {"completed", "uncertain"}
      BY <2>2, VerdictTrail
    <3> QED  BY <2>2, <3>1, <3>2, ConcludedEntryFields DEF ClosedBy, IdOf
  <2>3. CASE q # r
    <3>1. concluded[q]
      BY <2>3, ConcludeCases
    <3>2. ClosedBy(q)
      BY <3>1 DEF StoreTrail, ClosedBy
    <3>3. IdOf(q) # IdOf(r)
      BY <2>1, <3>2 DEF ClosedBy, PendingEntry
    <3>4. store'[IdOf(q)] = store[IdOf(q)]
      BY <2>1, <3>3 DEF TypeOK
    <3> QED  BY <3>2, <3>4 DEF ClosedBy, IdOf
  <2> QED  BY <2>2, <2>3
<1> QED  BY <1>1, <1>2

LEMMA StoreStep ==
    ASSUME TypeOK, ConcludedTrail, OneOwner, RecorderTrail, StoreTrail, [Next]_vars
    PROVE  StoreTrail'
<1>1. CASE UNCHANGED vars
  BY <1>1 DEF vars, StoreTrail, Claimed, IdOf, Transferred
<1> SUFFICES ASSUME NEW r \in Requests, Arrive(r) \/ Advance(r) \/ Drop(r) \/ Close(r),
                    NEW q \in Requests, Claimed(q)', concluded'[q], q \notin abandoned'
             PROVE  /\ pc'[q] \notin {"middleware", "verifying"}
                    /\ pc'[q] = "settling" \/ Transferred(q)' => ClosedBy(q)'
  BY <1>1 DEF Next, StoreTrail, ClosedBy
<1>2. present' = present /\ (q # r => pc'[q] = pc[q] /\ (Transferred(q)' <=> Transferred(q)))
  BY OthersFrame DEF Transferred
<1>3. CASE Quiet(r)
  <2>1. /\ UNCHANGED <<store, concluded, abandoned>> /\ Claimed(q)
    BY <1>3, QuietFrame
  <2>2. /\ pc[q] \notin {"middleware", "verifying"}
        /\ pc[q] = "settling" \/ Transferred(q) => ClosedBy(q)
    BY <2>1 DEF StoreTrail, ClosedBy
  <2>3. CASE q # r
    BY <1>2, <2>1, <2>2, <2>3 DEF ClosedBy, IdOf
  <2>4. CASE q = r /\ Close(r)
    BY <2>1, <2>2, <2>4 DEF Close, ClosedBy, IdOf, Transferred
  <2>5. CASE q = r /\ ~ Close(r)
    <3>1. SettleAnswered(r)
      BY <1>3, <2>1, <2>2, <2>5 DEF Quiet, Claimed, Underway, InFlight, Arrive, Decide, Deciding,
           RefuseIdentifier, PassThrough, RefuseCapacity, RefuseFingerprint,
           RefuseAuthorization, RefuseUncertain, Wait, ServeCached, Middleware, Unrouted,
           Challenge, RefusePreVerification, BeginVerify, VerifyAnswered, VerifyInvalid,
           VerifyRaises, VerifyValid, HandlerFails
    <3>2. pc[r] = "settling" /\ pc'[r] = "responding"
      BY <3>1 DEF SettleAnswered, SettleSucceeds, SettleRefused, SettleRaises, Goto, TypeOK
    <3> QED  BY <1>2, <2>1, <2>2, <2>5, <3>2 DEF ClosedBy, IdOf
  <2> QED  BY <2>3, <2>4, <2>5
<1>4. CASE Claim(r)
  <2>1. q # r
    BY <1>4 DEF ConcludedTrail, Claim, Own, Available, Deciding, Underway, InFlight
  <2>2. Claimed(q) /\ concluded[q] /\ q \notin abandoned
    BY <1>4, <2>1, ClaimedFrame DEF Claim, Own, Available
  <2>3. /\ pc[q] \notin {"middleware", "verifying"}
        /\ pc[q] = "settling" \/ Transferred(q) => ClosedBy(q)
    BY <2>2 DEF StoreTrail, ClosedBy
  <2>4. ClosedBy(q) => ClosedBy(q)'
    <3>1. ClosedBy(q) => IdOf(q) # IdOf(r)
      BY <1>4 DEF Claim, Own, Available, ClosedBy
    <3>2. IdOf(q) # IdOf(r) => store'[IdOf(q)] = store[IdOf(q)]
      BY <1>4, <2>2, EntryTypes DEF Claim, Own, Available, TypeOK, Claimed
    <3> QED  BY <1>2, <3>1, <3>2 DEF ClosedBy, IdOf
  <2> QED  BY <1>2, <2>1, <2>3, <2>4
<1>5. CASE Finish(r)
  <2>1. Claimed(q) /\ q \notin abandoned /\ (Transferred(q)' <=> Transferred(q))
    BY <1>5, ClaimedFrame DEF Finish, Transferred
  <2>2. pc'[q] \notin {"middleware", "verifying"}
    <3>1. CASE q = r
      BY <1>5, <3>1 DEF Finish, Goto, TypeOK
    <3>2. CASE q # r
      BY <1>2, <1>5, <2>1, <3>2, ConcludeCases DEF Finish, StoreTrail
    <3> QED  BY <3>1, <3>2
  <2>3. pc'[q] = "settling" => pc[q] = "settling"
    BY <1>5 DEF Finish, Goto, TypeOK
  <2> QED  BY <1>2, <1>5, <2>1, <2>2, <2>3, StoreConclude DEF Finish
<1>6. CASE Drop(r)
  <2>1. /\ Claimed(q) /\ q \notin abandoned /\ (Transferred(q)' <=> Transferred(q))
        /\ pc' = pc
    BY <1>6, ClaimedFrame DEF Drop, Transferred
  <2>2. CASE ConcludeOperation(r, recorder[r])
    <3>1. pc[q] \notin {"middleware", "verifying"}
      <4>1. CASE q = r
        BY <1>6, <4>1 DEF Drop
      <4>2. CASE q # r
        BY <2>1, <2>2, <4>2, ConcludeCases DEF StoreTrail
      <4> QED  BY <4>1, <4>2
    <3> QED  BY <1>2, <2>1, <2>2, <3>1, StoreConclude
  <2>3. CASE UNCHANGED <<concluded, store>>
    BY <1>2, <2>1, <2>3 DEF StoreTrail, ClosedBy, IdOf
  <2> QED  BY <1>6, <2>2, <2>3 DEF Drop
<1> QED  BY <1>3, <1>4, <1>5, <1>6 DEF Quiet, Advance

\* CompletedIsPaid, for one identifier.
Backed(i) ==
    LET r == store[i].by IN
      /\ r \in Requests /\ Claimed(r) /\ produced[r] /\ Transferred(r)
      /\ present[r].id = i /\ present[r].fp = store[i].fp /\ present[r].auth = store[i].auth
      /\ Identity[present[r].auth] \in consumed

LEMMA BackedKept ==
    ASSUME TypeOK, RecorderTrail, NEW r \in Requests, Arrive(r) \/ Advance(r) \/ Drop(r) \/ Close(r),
           NEW i \in Identifiers, Backed(i), store'[i] = store[i],
           \A q \in Requests : Claimed(q) => Claimed(q)'
    PROVE  Backed(i)'
<1>1. PICK q \in Requests :
        /\ q = store[i].by /\ Claimed(q) /\ produced[q] /\ Transferred(q)
        /\ present[q].id = i /\ present[q].fp = store[i].fp /\ present[q].auth = store[i].auth
        /\ Identity[present[q].auth] \in consumed
  BY DEF Backed
<1>2. Claimed(q)' /\ produced'[q] /\ Transferred(q)' /\ present' = present
      /\ consumed \subseteq consumed'
  BY <1>1, TransferKept, OthersFrame
<1> QED  BY <1>1, <1>2 DEF Backed, Claimed, Transferred

LEMMA BackedConclude ==
    ASSUME TypeOK, OneOwner, RecorderTrail, NEW r \in Requests, NEW rec,
           rec = recorder[r] \/ (rec = AtFinish(recorder[r]) /\ pc[r] = "responding"),
           ConcludeOperation(r, rec),
           NEW i \in Identifiers, store'[i].kind = "completed", store'[i] # store[i]
    PROVE  /\ r = store'[i].by /\ Claimed(r) /\ produced[r] /\ Transferred(r)
           /\ present[r].id = i /\ present[r].fp = store'[i].fp
           /\ present[r].auth = store'[i].auth /\ Identity[present[r].auth] \in consumed
<1>1. Claimed(r) /\ ~ concluded[r]
  BY ConcludeCases
<1>2. /\ IdOf(r) \in Identifiers
      /\ store' = [store EXCEPT ![IdOf(r)] = ConcludedEntry(r, Verdict(rec, produced[r]))]
  BY <1>1, ConcludeCases
<1>3. i = IdOf(r) /\ store'[i] = ConcludedEntry(r, Verdict(rec, produced[r]))
  BY <1>2 DEF TypeOK
<1>4. Verdict(rec, produced[r]) = "completed"
  BY <1>3, ConcludedEntryFields
<1>5. Settled(r) /\ produced[r]
  BY <1>4, VerdictTrail
<1>6. Transferred(r) /\ Identity[present[r].auth] \in consumed \cup {None}
  BY <1>5 DEF RecorderTrail
<1>7. Identity[present[r].auth] # None
  BY <1>1, IdentityAssumption, NoneAssumption DEF Claimed, Bindable
<1> QED  BY <1>1, <1>3, <1>4, <1>5, <1>6, <1>7, ConcludedEntryFields DEF IdOf

LEMMA CompletedStep ==
    ASSUME TypeOK, ConcludedTrail, OneOwner, RecorderTrail, CompletedIsPaid, [Next]_vars
    PROVE  CompletedIsPaid'
<1>1. CASE UNCHANGED vars
  BY <1>1 DEF vars, CompletedIsPaid, Claimed, Transferred
<1> SUFFICES ASSUME NEW r \in Requests, Arrive(r) \/ Advance(r) \/ Drop(r) \/ Close(r),
                    NEW i \in Identifiers, store'[i].kind = "completed"
             PROVE  Backed(i)'
  BY <1>1 DEF Next, CompletedIsPaid, Backed
<1>2. ASSUME store'[i] = store[i], \A q \in Requests : Claimed(q) => Claimed(q)'
      PROVE  Backed(i)'
  BY <1>2, BackedKept DEF CompletedIsPaid, Backed
<1>3. CASE Quiet(r)
  BY <1>2, <1>3, QuietFrame
<1>4. CASE Claim(r)
  <2>1. store' = [store EXCEPT ![IdOf(r)] = PendingEntry(r)]
    BY <1>4 DEF Claim, Own, Available
  <2>2. store'[i] = store[i]
    BY <2>1 DEF PendingEntry, TypeOK
  <2> QED  BY <1>2, <1>4, <2>2, ClaimedFrame
<1>5. CASE Finish(r) \/ Drop(r)
  <2>1. \A q \in Requests : Claimed(q)' = Claimed(q)
    BY <1>5, ClaimedFrame
  <2>2. CASE store'[i] = store[i]
    BY <1>2, <2>1, <2>2
  <2>3. CASE store'[i] # store[i]
    <3>1. PICK rec : /\ ConcludeOperation(r, rec)
                     /\ rec = recorder[r]
                        \/ (rec = AtFinish(recorder[r]) /\ pc[r] = "responding")
      BY <1>5, <2>3 DEF Finish, Drop
    <3>2. /\ r = store'[i].by /\ Claimed(r) /\ produced[r] /\ Transferred(r)
          /\ present[r].id = i /\ present[r].fp = store'[i].fp
          /\ present[r].auth = store'[i].auth /\ Identity[present[r].auth] \in consumed
      BY <2>3, <3>1, BackedConclude
    <3>3. UNCHANGED <<present, produced, did, consumed>>
      BY <1>5 DEF Finish, Drop
    <3>4. Claimed(r)'
      BY <2>1, <3>2
    <3> QED  BY <3>2, <3>3, <3>4 DEF Backed, Transferred, Claimed
  <2> QED  BY <2>2, <2>3
<1> QED  BY <1>3, <1>4, <1>5 DEF Quiet, Advance

-----------------------------------------------------------------------------
(* How each request ends, and what the world outside knows of it.          *)

\* No word a facilitator may say is recorded as the code of a settlement that raised.
LEMMA AllowlistLemma ==
    ASSUME NEW word
    PROVE  PersistableFailureReason(word, "settlement_rejected") \notin
              {"settlement_exception", "none"}
BY DEF PersistableFailureReason, SUPPORTED_UPSTREAM_REASONS

LEMMA EndFinish ==
    ASSUME TypeOK, RecorderTrail, NEW r \in Requests, EndOf(r), Finish(r)
    PROVE  EndOf(r)'
<1> USE DEF TypeOK, Goto, Record, Reached, Settled
<1>1. /\ recorder[r] \in Recorder /\ pc[r] = "responding" /\ pc'[r] = "finished"
      /\ recorder'[r] = AtFinish(recorder[r]) /\ did' = did
  BY DEF Finish
<1>2. CASE Settled(r)
  <2>1. recorder'[r].terminal = "response_write_attempted"
        /\ "payment_settled" \in recorder'[r].seen
    BY <1>1, <1>2 DEF AtFinish, Enter, Terminate, Recorder
  <2> QED  BY <1>1, <2>1 DEF EndOf, Underway, InFlight
<1>3. CASE ~ Settled(r) /\ recorder[r].reported
  <2>1. recorder'[r] = recorder[r]
    BY <1>1, <1>3 DEF AtFinish
  <2> QED  BY <1>1, <1>3, <2>1 DEF EndOf, Underway, InFlight, Unasked, RefusedAtVerification,
              HandlerFailed, RefusedAtSettlement, RaisedAtSettlement, Raised
<1>4. CASE ~ Settled(r) /\ ~ recorder[r].reported
  <2>1. Unasked(r)
    BY <1>1, <1>4 DEF EndOf, Unasked, RefusedAtVerification, HandlerFailed,
                      RefusedAtSettlement, RaisedAtSettlement, Raised
  <2>2. \/ recorder'[r] = recorder[r]
        \/ recorder'[r] = Terminate(recorder[r], "payment_rejected_pre_verification", "none")
    BY <1>1, <1>4 DEF AtFinish
  <2>3. CASE recorder'[r] = recorder[r]
    BY <1>1, <1>4, <2>1, <2>3 DEF EndOf, Unasked, Underway, InFlight
  <2>4. CASE recorder'[r] = Terminate(recorder[r], "payment_rejected_pre_verification", "none")
    <3>1. /\ recorder'[r].terminal = "payment_rejected_pre_verification"
          /\ "payment_settled" \notin recorder'[r].seen
      BY <1>1, <1>4, <2>4 DEF Terminate, Recorder
    <3> QED  BY <1>1, <2>1, <3>1 DEF EndOf, Unasked, Underway, InFlight
  <2> QED  BY <2>2, <2>3, <2>4
<1> QED  BY <1>2, <1>3, <1>4

LEMMA EndStep ==
    ASSUME TypeOK, RecorderTrail, EndTrail, [Next]_vars PROVE EndTrail'
<1>1. CASE UNCHANGED vars
  BY <1>1 DEF vars, EndTrail, EndOf, Unasked, RefusedAtVerification, HandlerFailed,
              RefusedAtSettlement, RaisedAtSettlement, Raised, Settled
<1> SUFFICES ASSUME NEW r \in Requests, Arrive(r) \/ Advance(r) \/ Drop(r) \/ Close(r)
             PROVE  EndOf(r)'
  <2>1. SUFFICES ASSUME NEW r \in Requests, Arrive(r) \/ Advance(r) \/ Drop(r) \/ Close(r), EndOf(r)'
                 PROVE  EndTrail'
    BY <1>1 DEF Next
  <2>2. ASSUME NEW q \in Requests, q # r PROVE EndOf(q)'
    <3>1. EndOf(q) /\ pc'[q] = pc[q] /\ recorder'[q] = recorder[q] /\ did'[q] = did[q]
      BY <2>1, <2>2, OthersFrame DEF EndTrail
    <3> QED  BY <3>1 DEF EndOf, Unasked, RefusedAtVerification, HandlerFailed,
                RefusedAtSettlement, RaisedAtSettlement, Raised, Settled
  <2> QED  BY <2>1, <2>2 DEF EndTrail
<1>2. EndOf(r) /\ TrailOf(r) /\ recorder[r] \in Recorder
  BY DEF EndTrail, RecorderTrail, TrailOf, TypeOK
<1> USE DEF TypeOK, Goto, Record, Cause, Settled, Reached
<1>3. CASE UNCHANGED <<recorder, did>>
      /\ (pc'[r] # pc[r] =>
             /\ pc[r] \in {"idle", "deciding", "waiting"}
             /\ pc'[r] \notin {"verifying", "settling", "responding", "finished"})
  <2>1. CASE pc'[r] = pc[r]
    BY <1>2, <1>3, <2>1 DEF EndOf, Unasked, RefusedAtVerification, HandlerFailed,
                RefusedAtSettlement, RaisedAtSettlement, Raised
  <2>2. CASE pc'[r] # pc[r]
    BY <1>2, <1>3, <2>2 DEF EndOf, Unasked
  <2> QED  BY <2>1, <2>2
<1>4. CASE Arrive(r) \/ Drop(r) \/ Close(r)
  BY <1>3, <1>4 DEF Arrive, Drop, Close
<1>5. CASE Decide(r)
  BY <1>3, <1>5 DEF Deciding, Decide, RefuseIdentifier, PassThrough, RefuseCapacity, Claim, Own,
       Available, RefuseFingerprint, RefuseAuthorization, RefuseUncertain, Wait, ServeCached,
       AnswerHere
<1>6. CASE Middleware(r)
  <2>1. pc[r] = "middleware" /\ Unasked(r) /\ recorder[r].seen = {}
    BY <1>2, <1>6 DEF EndOf, TrailOf, Middleware, Unrouted, Challenge, RefusePreVerification,
                      BeginVerify
  <2>2. CASE Unrouted(r)
    BY <2>1, <2>2 DEF EndOf, Unasked, Unrouted
  <2>3. CASE Challenge(r)
    BY <1>2, <2>1, <2>3 DEF EndOf, Unasked, Challenge, Enter, Recorder
  <2>4. CASE RefusePreVerification(r)
    BY <1>2, <2>1, <2>4 DEF EndOf, Unasked, RefusePreVerification, PaymentReceived, Enter, Recorder
  <2>5. CASE BeginVerify(r)
    BY <1>2, <2>1, <2>5 DEF EndOf, Unasked, BeginVerify, PaymentReceived, Enter, Recorder
  <2> QED  BY <1>6, <2>2, <2>3, <2>4, <2>5 DEF Middleware
<1>7. CASE VerifyAnswered(r)
  <2>1. /\ pc[r] = "verifying" /\ did[r] = {"verify"} /\ ~ recorder[r].reported
        /\ "resource_executed" \notin recorder[r].seen /\ "payment_settled" \notin recorder[r].seen
        /\ recorder[r].terminal = "payment_required_only"
    BY <1>2, <1>7 DEF EndOf, TrailOf, VerifyAnswered, VerifyInvalid, VerifyRaises,
         VerifyValid, HandlerFails
  <2>2. CASE VerifyInvalid(r)
    BY <1>2, <2>1, <2>2 DEF EndOf, RefusedAtVerification, VerifyInvalid, Enter, Terminate, Recorder
  <2>3. CASE VerifyRaises(r)
    BY <1>2, <2>1, <2>3 DEF EndOf, RefusedAtVerification, VerifyRaises, Terminate, Recorder
  <2>4. CASE VerifyValid(r)
    BY <1>2, <2>1, <2>4 DEF EndOf, Underway, InFlight, VerifyValid, Verified, Enter, Recorder
  <2>5. CASE HandlerFails(r)
    BY <1>2, <2>1, <2>5 DEF EndOf, HandlerFailed, HandlerFails, Verified, Enter, Terminate, Recorder
  <2> QED  BY <1>7, <2>2, <2>3, <2>4, <2>5 DEF VerifyAnswered
<1>8. CASE SettleAnswered(r)
  <2>1. /\ pc[r] = "settling" /\ did[r] = {"verify", "execute", "settle"}
        /\ ~ recorder[r].reported /\ "payment_settled" \notin recorder[r].seen
        /\ recorder[r].terminal = "payment_required_only"
    BY <1>2, <1>8 DEF EndOf, TrailOf, SettleAnswered, SettleSucceeds, SettleRefused, SettleRaises
  <2>2. CASE SettleSucceeds(r)
    BY <1>2, <2>1, <2>2 DEF EndOf, Underway, InFlight, SettleSucceeds, Enter, Recorder
  <2>3. CASE SettleRefused(r)
    <3>1. PICK word \in Words :
            recorder'[r] = Terminate(recorder[r], "settlement_failed",
                                     PersistableFailureReason(word, "settlement_rejected"))
      BY <2>3 DEF SettleRefused
    <3>2. recorder'[r].reason # "settlement_exception"
      BY <1>2, <2>1, <3>1, AllowlistLemma DEF Terminate, Recorder
    <3> QED  BY <1>2, <2>1, <2>3, <3>1, <3>2
             DEF EndOf, RefusedAtSettlement, SettleRefused, Terminate, Recorder
  <2>4. CASE SettleRaises(r)
    BY <1>2, <2>1, <2>4 DEF EndOf, RaisedAtSettlement, Raised, SettleRaises, Terminate, Recorder
  <2> QED  BY <1>8, <2>2, <2>3, <2>4 DEF SettleAnswered
<1>9. CASE Finish(r)
  BY <1>2, <1>9, EndFinish
<1> QED  BY <1>4, <1>5, <1>6, <1>7, <1>8, <1>9 DEF Advance

\* A request's presentation settles whether it may be bound, and whether it ran.
LEMMA BoundStep == ASSUME TypeOK, EndTrail, BoundTrail, [Next]_vars PROVE BoundTrail'
<1>1. CASE UNCHANGED vars
  BY <1>1 DEF vars, BoundTrail, BoundOf, IdOf
<1> SUFFICES ASSUME NEW r \in Requests, Arrive(r) \/ Advance(r) \/ Drop(r) \/ Close(r)
             PROVE  BoundOf(r)'
  <2>1. SUFFICES ASSUME NEW r \in Requests, Arrive(r) \/ Advance(r) \/ Drop(r) \/ Close(r), BoundOf(r)'
                 PROVE  BoundTrail'
    BY <1>1 DEF Next
  <2>2. ASSUME NEW q \in Requests, q # r PROVE BoundOf(q)'
    <3>1. BoundOf(q) /\ pc'[q] = pc[q] /\ did'[q] = did[q] /\ present' = present
      BY <2>1, <2>2, OthersFrame DEF BoundTrail
    <3> QED  BY <3>1 DEF BoundOf, IdOf
  <2> QED  BY <2>1, <2>2 DEF BoundTrail
<1>2. BoundOf(r) /\ EndOf(r) /\ present' = present
  BY OthersFrame DEF BoundTrail, EndTrail
<1> USE DEF TypeOK, Goto, Cause, IdOf, Underway, InFlight
<1>3. CASE Arrive(r) \/ Drop(r) \/ Close(r) \/ Finish(r)
  BY <1>2, <1>3 DEF BoundOf, Arrive, Drop, Close, Finish
<1>4. CASE Decide(r)
  BY <1>2, <1>4 DEF BoundOf, Deciding, Decide, RefuseIdentifier, PassThrough, RefuseCapacity, Claim,
       Own, Available, RefuseFingerprint, RefuseAuthorization, RefuseUncertain, Wait, ServeCached,
       AnswerHere, Bindable
<1>5. CASE Middleware(r)
  BY <1>2, <1>5 DEF BoundOf, EndOf, Unasked, Middleware, Unrouted, Challenge,
       RefusePreVerification, BeginVerify
<1>6. CASE VerifyAnswered(r)
  BY <1>2, <1>6 DEF BoundOf, EndOf, VerifyAnswered, VerifyInvalid, VerifyRaises, VerifyValid,
       HandlerFails, CheckTerms
<1>7. CASE SettleAnswered(r)
  BY <1>2, <1>7 DEF BoundOf, EndOf, SettleAnswered, SettleSucceeds, SettleRefused, SettleRaises
<1> QED  BY <1>3, <1>4, <1>5, <1>6, <1>7 DEF Advance

\* A step of r leaves an entry alone, claims an absent or released one, or
\* concludes a pending one.
LEMMA EntryStep ==
    ASSUME TypeOK, ConcludedTrail, OneOwner,
           NEW r \in Requests, Arrive(r) \/ Advance(r) \/ Drop(r) \/ Close(r),
           NEW i \in Identifiers, store'[i] # store[i]
    PROVE  \/ /\ store[i].kind \in {"absent", "rejected"} /\ Claim(r)
              /\ i = IdOf(r) /\ store'[i] = PendingEntry(r)
           \/ \E rec : /\ store[i] = PendingEntry(r) /\ Claimed(r) /\ ~ concluded[r]
                       /\ i = IdOf(r)
                       /\ store'[i] = ConcludedEntry(r, Verdict(rec, produced[r]))
                       /\ ConcludeOperation(r, rec)
                       /\ \/ Drop(r) /\ rec = recorder[r] /\ pc[r] \in Underway
                          \/ Finish(r) /\ rec = AtFinish(recorder[r]) /\ pc[r] = "responding"
<1>1. ~ Quiet(r)
  BY QuietFrame
<1>2. CASE Claim(r)
  <2>1. store' = [store EXCEPT ![IdOf(r)] = PendingEntry(r)]
    BY <1>2 DEF Claim, Own
  <2>2. i = IdOf(r) /\ store'[i] = PendingEntry(r)
    BY <2>1 DEF TypeOK
  <2> QED  BY <1>2, <2>2 DEF Claim, Available
<1>3. CASE Drop(r) \/ Finish(r)
  <2>1. PICK rec : /\ ConcludeOperation(r, rec)
                   /\ \/ Drop(r) /\ rec = recorder[r] /\ pc[r] \in Underway
                      \/ Finish(r) /\ rec = AtFinish(recorder[r]) /\ pc[r] = "responding"
    BY <1>3 DEF Drop, Finish
  <2>2. /\ Claimed(r) /\ ~ concluded[r] /\ store[IdOf(r)] = PendingEntry(r)
        /\ store' = [store EXCEPT ![IdOf(r)] = ConcludedEntry(r, Verdict(rec, produced[r]))]
    BY <2>1, ConcludeCases
  <2>3. i = IdOf(r) /\ store'[i] = ConcludedEntry(r, Verdict(rec, produced[r]))
    BY <2>2 DEF TypeOK
  <2> QED  BY <2>1, <2>2, <2>3
<1> QED  BY <1>1, <1>2, <1>3 DEF Quiet, Advance

LEMMA CachedStep ==
    ASSUME TypeOK, ConcludedTrail, OneOwner, CachedTrail, [Next]_vars PROVE CachedTrail'
<1>1. CASE UNCHANGED vars
  BY <1>1 DEF vars, CachedTrail, SameRequest, IdOf
<1> SUFFICES ASSUME NEW r \in Requests, Arrive(r) \/ Advance(r) \/ Drop(r) \/ Close(r),
                    NEW q \in Requests, pc'[q] = "cached"
             PROVE  (SameRequest(q, "completed") /\ store[IdOf(q)].auth = present[q].auth)'
  BY <1>1 DEF Next, CachedTrail
<1>2. present' = present
  BY OthersFrame
<1>3. SameRequest(q, "completed") /\ store[IdOf(q)].auth = present[q].auth
  <2>1. CASE pc[q] = "cached"
    BY <2>1 DEF CachedTrail
  <2>2. CASE pc[q] # "cached"
    <3>1. q = r
      BY <2>2, OthersFrame
    <3>2. ServeCached(r)
      BY <2>2, <3>1 DEF TypeOK, Goto, Advance, Arrive, Drop, Close, Finish, Decide, RefuseIdentifier,
         PassThrough, RefuseCapacity, Claim, Own, Available, RefuseFingerprint,
         RefuseAuthorization, RefuseUncertain, Wait, AnswerHere, Middleware, Unrouted, Challenge,
         RefusePreVerification, BeginVerify, VerifyAnswered, VerifyInvalid, VerifyRaises,
         VerifyValid, HandlerFails, SettleAnswered, SettleSucceeds, SettleRefused, SettleRaises
    <3> QED  BY <3>1, <3>2 DEF ServeCached
  <2> QED  BY <2>1, <2>2
<1>4. IdOf(q) \in Identifiers
  BY <1>3, EntryTypes DEF SameRequest
<1>5. store'[IdOf(q)] = store[IdOf(q)]
  <2>1. PendingEntry(r).kind = "pending"
    BY DEF PendingEntry
  <2>2. store[IdOf(q)].kind = "completed"
    BY <1>3 DEF SameRequest
  <2> QED  BY <1>4, <2>1, <2>2, EntryStep
<1> QED  BY <1>2, <1>3, <1>5 DEF SameRequest, IdOf

\* A finished request stays where it is, and so does what it recorded.
LEMMA FinishedKept ==
    ASSUME TypeOK, NEW r \in Requests, Arrive(r) \/ Advance(r) \/ Drop(r) \/ Close(r),
           NEW q \in Requests, pc[q] = "finished"
    PROVE  pc'[q] = "finished"
<1>1. CASE q # r
  BY <1>1, OthersFrame
<1>2. CASE q = r
  BY <1>2 DEF Deciding, Arrive, Drop, Close, Advance, Finish, Decide, RefuseIdentifier,
       PassThrough, RefuseCapacity, Claim, Own, Available, RefuseFingerprint,
       RefuseAuthorization, RefuseUncertain, Wait, ServeCached, AnswerHere, Middleware, Unrouted,
       Challenge, RefusePreVerification, BeginVerify, VerifyAnswered, VerifyInvalid, VerifyRaises,
       VerifyValid, HandlerFails, SettleAnswered, SettleSucceeds, SettleRefused, SettleRaises
<1> QED  BY <1>1, <1>2

\* Only `finish' pushes an observation, and only it ends a response.
LEMMA PushedFrame ==
    ASSUME TypeOK, NEW r \in Requests, Arrive(r) \/ Advance(r) \/ Drop(r) \/ Close(r), ~ Finish(r)
    PROVE  /\ observations' = observations
           /\ \A q \in Requests : pc'[q] = "finished" <=> pc[q] = "finished"
<1>1. CASE Drop(r) \/ Close(r)
  BY <1>1 DEF Drop, Close
<1>2. CASE Arrive(r)
  BY <1>2 DEF Arrive, Goto, TypeOK
<1>3. CASE Decide(r)
  BY <1>3 DEF Goto, TypeOK, Deciding, Decide, RefuseIdentifier, PassThrough, RefuseCapacity, Claim,
       Own, Available, RefuseFingerprint, RefuseAuthorization, RefuseUncertain, Wait, ServeCached,
       AnswerHere
<1>4. CASE Middleware(r)
  BY <1>4 DEF Goto, TypeOK, Middleware, Unrouted, Challenge, RefusePreVerification, BeginVerify
<1>5. CASE VerifyAnswered(r)
  BY <1>5 DEF Goto, TypeOK, VerifyAnswered, VerifyInvalid, VerifyRaises, VerifyValid, HandlerFails
<1>6. CASE SettleAnswered(r)
  BY <1>6 DEF Goto, TypeOK, SettleAnswered, SettleSucceeds, SettleRefused, SettleRaises
<1> QED  BY <1>1, <1>2, <1>3, <1>4, <1>5, <1>6 DEF Advance

\* What was caused stays caused, and a request whose connection dropped never
\* finishes.
LEMMA DidKept ==
    ASSUME TypeOK, EndTrail, NEW r \in Requests, Arrive(r) \/ Advance(r) \/ Drop(r) \/ Close(r),
           NEW q \in Requests
    PROVE  did[q] \subseteq did'[q] /\ (Dropped(q) => Dropped(q)')
<1>1. did[q] \subseteq did'[q]
  <2>1. CASE Arrive(r) \/ Drop(r) \/ Close(r) \/ Finish(r)
    BY <2>1 DEF Arrive, Drop, Close, Finish
  <2>2. ASSUME NEW effects, did' = did \/ Cause(r, effects)
        PROVE  did[q] \subseteq did'[q]
    BY <2>2 DEF TypeOK, Cause
  <2>3. CASE Decide(r)
    BY <2>2, <2>3 DEF Decide, RefuseIdentifier, PassThrough, RefuseCapacity, Claim, Own, Available,
          RefuseFingerprint, RefuseAuthorization, RefuseUncertain, Wait, ServeCached, AnswerHere
  <2>4. CASE Middleware(r)
    BY <2>2, <2>4 DEF Middleware, Unrouted, Challenge, RefusePreVerification, BeginVerify
  <2>5. CASE VerifyAnswered(r)
    BY <2>2, <2>5 DEF VerifyAnswered, VerifyInvalid, VerifyRaises, VerifyValid, HandlerFails
  <2>6. CASE SettleAnswered(r)
    BY <2>2, <2>6 DEF SettleAnswered, SettleSucceeds, SettleRefused, SettleRaises
  <2> QED  BY <2>1, <2>3, <2>4, <2>5, <2>6 DEF Advance
<1>2. ~ connected[q] => ~ connected'[q]
  <2>1. CASE Drop(r) \/ Close(r)
    BY <2>1 DEF TypeOK, Drop, Close
  <2>2. CASE ~ Drop(r) /\ ~ Close(r)
    BY <2>2 DEF Arrive, Advance, Finish, Decide, RefuseIdentifier, PassThrough, RefuseCapacity,
       Claim, Own, Available, RefuseFingerprint, RefuseAuthorization, RefuseUncertain, Wait,
       ServeCached, AnswerHere, Middleware, Unrouted, Challenge, RefusePreVerification,
       BeginVerify, VerifyAnswered, VerifyInvalid, VerifyRaises, VerifyValid, HandlerFails,
       SettleAnswered, SettleSucceeds, SettleRefused, SettleRaises
  <2> QED  BY <2>1, <2>2
<1>3. Dropped(q) => pc'[q] # "finished"
  <2>1. CASE Finish(r)
    BY <2>1 DEF Dropped, Finish, Goto, TypeOK
  <2>2. CASE ~ Finish(r)
    BY <2>2, PushedFrame DEF Dropped
  <2> QED  BY <2>1, <2>2
<1> QED  BY <1>1, <1>2, <1>3 DEF Dropped

\* The verdict is in doubt only of a settlement that raised, or of one that was
\* asked for and not yet answered.
LEMMA DoubtLemma ==
    ASSUME TypeOK, RecorderTrail, EndTrail, NEW r \in Requests, NEW rec,
           \/ rec = recorder[r] /\ pc[r] \in Underway
           \/ rec = AtFinish(recorder[r]) /\ pc[r] = "responding",
           Verdict(rec, produced[r]) = "uncertain"
    PROVE  "raise" \in did[r] \/ (pc[r] = "settling" /\ "settle" \in did[r])
<1>1. EndOf(r) /\ TrailOf(r) /\ recorder[r] \in Recorder
  BY DEF EndTrail, RecorderTrail, TrailOf, TypeOK
<1> USE DEF Settled, Reached
<1>2. CASE rec = recorder[r] /\ pc[r] \in {"middleware", "verifying"}
  BY <1>1, <1>2 DEF EndOf, TrailOf, Unasked, Verdict
<1>3. CASE rec = recorder[r] /\ pc[r] = "settling"
  BY <1>1, <1>3 DEF EndOf
<1>4. CASE rec = recorder[r] /\ pc[r] = "responding"
  BY <1>1, <1>4 DEF EndOf, TrailOf, Verdict, Unasked, RefusedAtVerification, HandlerFailed,
                    RefusedAtSettlement, RaisedAtSettlement, Raised
<1>5. CASE rec = AtFinish(recorder[r]) /\ pc[r] = "responding"
  <2>1. CASE Settled(r)
    <3>1. Reached(rec, "payment_settled") /\ produced[r]
      BY <1>1, <1>5, <2>1 DEF AtFinish, Enter, Terminate, Recorder, TrailOf
    <3> QED  BY <3>1 DEF Verdict
  <2>2. CASE ~ Settled(r) /\ recorder[r].reported
    BY <1>4, <1>5, <2>2 DEF AtFinish
  <2>3. CASE ~ Settled(r) /\ ~ recorder[r].reported
    <3>1. "resource_executed" \notin recorder[r].seen
      BY <1>1, <1>5, <2>3 DEF EndOf, Unasked, RefusedAtVerification, HandlerFailed,
                        RefusedAtSettlement, RaisedAtSettlement, Raised
    <3>2. rec = recorder[r] \/
          rec = Terminate(recorder[r], "payment_rejected_pre_verification", "none")
      BY <1>5, <2>3 DEF AtFinish
    <3>3. CASE rec = recorder[r]
      BY <2>3, <3>1, <3>3 DEF Verdict
    <3>4. CASE rec = Terminate(recorder[r], "payment_rejected_pre_verification", "none")
      <4>1. /\ rec.seen = recorder[r].seen
            /\ rec.terminal = "payment_rejected_pre_verification" /\ rec.reported
        BY <1>1, <3>4 DEF Terminate, Recorder
      <4> QED  BY <2>3, <4>1 DEF Verdict
    <3> QED  BY <3>2, <3>3, <3>4
  <2> QED  BY <2>1, <2>2, <2>3
<1> QED  BY <1>2, <1>3, <1>4, <1>5 DEF Underway, InFlight

LEMMA UncertainStep ==
    ASSUME TypeOK, ConcludedTrail, OneOwner, RecorderTrail, EndTrail, UncertainTrail,
           UncertainIsExplained, [Next]_vars
    PROVE  UncertainTrail' /\ UncertainIsExplained'
<1> DEFINE Explained(i) ==
      \E r \in Requests : /\ store[i].by = r
                          /\ "raise" \in did[r] \/ ("settle" \in did[r] /\ Dropped(r))
<1>1. CASE UNCHANGED vars
  BY <1>1 DEF vars, UncertainTrail, UncertainIsExplained, Dropped
<1> SUFFICES ASSUME NEW r \in Requests, Arrive(r) \/ Advance(r) \/ Drop(r) \/ Close(r),
                    NEW i \in Identifiers, store'[i].kind = "uncertain"
             PROVE  Explained(i)'
  BY <1>1 DEF Next, UncertainTrail, UncertainIsExplained
<1>2. CASE store'[i] = store[i]
  <2>1. Explained(i)
    BY <1>2 DEF UncertainTrail, UncertainIsExplained
  <2> QED  BY <1>2, <2>1, DidKept
<1>3. CASE store'[i] # store[i]
  <2>1. PICK rec : /\ store'[i] = ConcludedEntry(r, Verdict(rec, produced[r]))
                   /\ \/ Drop(r) /\ rec = recorder[r] /\ pc[r] \in Underway
                      \/ Finish(r) /\ rec = AtFinish(recorder[r]) /\ pc[r] = "responding"
    <3>1. PendingEntry(r).kind = "pending"
      BY DEF PendingEntry
    <3> QED  BY <1>3, <3>1, EntryStep
  <2>2. Verdict(rec, produced[r]) = "uncertain" /\ store'[i].by = r
    BY <2>1, ConcludedEntryFields
  <2>3. "raise" \in did[r] \/ (pc[r] = "settling" /\ "settle" \in did[r])
    BY <2>1, <2>2, DoubtLemma
  <2>4. did' = did /\ (Drop(r) => Dropped(r)')
    BY <2>1 DEF Drop, Finish, TypeOK, Dropped, Underway, InFlight
  <2>5. Finish(r) => pc[r] # "settling"
    BY DEF Finish
  <2> QED  BY <2>1, <2>2, <2>3, <2>4, <2>5
<1> QED  BY <1>2, <1>3

LEMMA ObservedStep == ASSUME TypeOK, ObservedTrail, [Next]_vars PROVE ObservedTrail'
<1>1. CASE UNCHANGED vars
  BY <1>1 DEF vars, ObservedTrail
<1> SUFFICES ASSUME NEW r \in Requests, Arrive(r) \/ Advance(r) \/ Drop(r) \/ Close(r),
                    NEW k \in DOMAIN observations'
             PROVE  pc'[observations'[k]] = "finished"
  BY <1>1 DEF Next, ObservedTrail
<1>2. CASE Finish(r)
  <2>1. observations' = Append(observations, r) /\ pc'[r] = "finished"
    BY <1>2 DEF Finish, Goto, TypeOK
  <2>2. \/ k \in DOMAIN observations /\ observations'[k] = observations[k]
        \/ observations'[k] = r
    BY <2>1 DEF TypeOK
  <2>3. CASE k \in DOMAIN observations /\ observations'[k] = observations[k]
    <3>1. pc[observations[k]] = "finished" /\ observations[k] \in Requests
      BY <2>3 DEF ObservedTrail, TypeOK
    <3> QED  BY <2>3, <3>1, FinishedKept
  <2> QED  BY <2>1, <2>2, <2>3
<1>3. CASE ~ Finish(r)
  <2>1. observations' = observations
    BY <1>3, PushedFrame
  <2>2. pc[observations[k]] = "finished" /\ observations[k] \in Requests
    BY <2>1 DEF ObservedTrail, TypeOK
  <2> QED  BY <2>1, <2>2, FinishedKept
<1> QED  BY <1>2, <1>3

\* A request that matches a completed entry presents what the payer presented.
LEMMA PayerLemma ==
    ASSUME TypeOK, CompletedIsPaid, NEW r \in Requests, ~ Claimed(r),
           SameRequest(r, "completed"), store[IdOf(r)].auth = present[r].auth
    PROVE  \E s \in Requests : /\ s # r /\ Claimed(s) /\ IdOf(s) = IdOf(r)
                               /\ Transferred(s) /\ present[s] = present[r]
<1> DEFINE e == store[IdOf(r)]
<1>1. e.kind = "completed" /\ e.fp = present[r].fp /\ Bindable(present[r])
  BY DEF SameRequest
<1>2. IdOf(r) \in Identifiers
  BY <1>1, EntryTypes
<1>3. PICK s \in Requests :
         /\ s = e.by /\ Claimed(s) /\ Transferred(s)
         /\ present[s].id = IdOf(r) /\ present[s].fp = e.fp /\ present[s].auth = e.auth
  BY <1>1, <1>2 DEF CompletedIsPaid
<1>4. present[s] = present[r]
  <2>1. present[s] \in Presentation /\ present[r] \in Presentation
    BY DEF TypeOK
  <2>2. present[s].header = "payload" /\ present[r].header = "payload"
    BY <1>1, <1>3 DEF Claimed, Bindable
  <2> QED  BY <1>1, <1>3, <2>1, <2>2 DEF Presentation, IdOf
<1> QED  BY <1>3, <1>4 DEF IdOf

-----------------------------------------------------------------------------
(* The theorems. *)

LEMMA Inductive == Spec => []IInv
<1>1. Init => IInv
  <2> SUFFICES ASSUME Init PROVE IInv
    OBVIOUS
  <2>1. TypeOK /\ SettlingIsAuthorized
    BY RecorderTypes, InputsAssumption, NumRequestsAssumption
       DEF Init, TypeOK, SettlingIsAuthorized, Places, Entry, AbsentEntry, Kinds, Effects
  <2>2. \A r \in Requests : ~ Claimed(r)
    BY DEF Init, Claimed, Underway, InFlight
  <2>3. /\ ConcludedTrail /\ OneOwner /\ RecorderTrail /\ StoreTrail /\ CompletedIsPaid
        /\ UncertainTrail /\ UncertainIsExplained
    BY <2>2 DEF Init, ConcludedTrail, OneOwner, RecorderTrail, StoreTrail, CompletedIsPaid,
       UncertainTrail, UncertainIsExplained, AbsentEntry, NewRecorder, Settled, Transferred, Reached
  <2>4. EndTrail
    BY DEF Init, EndTrail, EndOf, Unasked, NewRecorder, Reached, Underway, InFlight
  <2>5. BoundTrail /\ CachedTrail /\ ObservedTrail
    BY DEF Init, BoundTrail, BoundOf, CachedTrail, ObservedTrail, Underway, InFlight
  <2> QED  BY <2>1, <2>3, <2>4, <2>5 DEF IInv
<1>2. IInv /\ [Next]_vars => IInv'
  BY TypeStep, SettlingStep, ConcludedStep, OwnerStep, RecorderStep, StoreStep, CompletedStep,
     EndStep, BoundStep, CachedStep, UncertainStep, ObservedStep
     DEF IInv
<1> QED  BY <1>1, <1>2, PTL DEF Spec

(* An unconcluded operation and the pending entry of its identifier belong *)
(* to each other: no two requests ever process a payment under one entry.  *)
THEOREM OneOwnerAlways == Spec => []OneOwner
BY Inductive, PTL DEF IInv

(* A completed entry is backed by a transfer of exactly the authorization  *)
(* it names: what a cached result is served on is a real payment.          *)
THEOREM CompletedIsPaidAlways == Spec => []CompletedIsPaid
BY Inductive, PTL DEF IInv

\* Whoever pays under an identifier has owned it, unless its authorization is
\* malformed.
LEMMA PaidIsClaimed ==
    ASSUME IInv, NEW q \in Requests, Transferred(q), IdOf(q) # None
    PROVE  Claimed(q) \/ present[q].auth \in Malformed
<1>1. did[q] \cap {"execute", "transfer"} # {}
  BY DEF Transferred
<1>2. present[q].header = "payload" /\ present[q].auth # None
  BY <1>1 DEF IInv, BoundTrail, BoundOf
<1>3. pc[q] \in Underway \cup {"finished"}
  BY <1>1 DEF IInv, RecorderTrail, Underway, InFlight
<1>4. present[q].auth \in Authorizations \cup Malformed \cup {None}
  BY DEF IInv, TypeOK, Presentation
<1> QED  BY <1>2, <1>3, <1>4 DEF Claimed, Bindable, IdOf

(* Whatever connections drop and whatever is presented, two payments under *)
(* one identifier mean that an operation was given up before its           *)
(* verification answered, or that a malformed authorization was paid.      *)
THEOREM PaidTwiceIsExplainedAlways == Spec => []PaidTwiceIsExplained
<1>1. ASSUME IInv, NEW q \in Requests, Claimed(q), Transferred(q), q \notin abandoned
      PROVE  store[IdOf(q)].by = q
  <2>1. CASE concluded[q]
    BY <1>1, <2>1 DEF IInv, StoreTrail
  <2>2. CASE ~ concluded[q]
    <3>1. store[IdOf(q)] = PendingEntry(q)
      BY <1>1, <2>2 DEF IInv, OneOwner
    <3> QED  BY <3>1 DEF PendingEntry
  <2> QED  BY <2>1, <2>2
<1>2. IInv => PaidTwiceIsExplained
  <2> SUFFICES ASSUME IInv, NEW r \in Requests, NEW s \in Requests, SameIdentifier(r, s),
                      Transferred(r), Transferred(s),
                      \A q \in {r, s} : q \notin abandoned /\ present[q].auth \notin Malformed
               PROVE  FALSE
    BY DEF PaidTwiceIsExplained
  <2>1. Claimed(r) /\ Claimed(s)
    BY PaidIsClaimed DEF SameIdentifier
  <2>2. store[IdOf(r)].by = r /\ store[IdOf(s)].by = s
    BY <1>1, <2>1
  <2> QED  BY <2>2 DEF SameIdentifier
<1> QED  BY <1>2, Inductive, PTL

(* Whatever connections drop, only one request at a time has a payment     *)
(* under way for an identifier, unless an operation was given up before    *)
(* its verification answered.                                              *)
THEOREM SerializedPerIdentifierAlways == Spec => []SerializedPerIdentifier
<1>1. ASSUME IInv, NEW q \in Requests, Claimed(q), pc[q] \in InFlight, q \notin abandoned
      PROVE  store[IdOf(q)].by = q
  <2>1. CASE concluded[q]
    <3>1. pc[q] = "settling"
      BY <1>1, <2>1 DEF IInv, StoreTrail, InFlight
    <3> QED  BY <1>1, <2>1, <3>1 DEF IInv, StoreTrail
  <2>2. CASE ~ concluded[q]
    <3>1. store[IdOf(q)] = PendingEntry(q)
      BY <1>1, <2>2 DEF IInv, OneOwner
    <3> QED  BY <3>1 DEF PendingEntry
  <2> QED  BY <2>1, <2>2
<1>2. IInv => SerializedPerIdentifier
  BY <1>1 DEF SerializedPerIdentifier, Rivals
<1> QED  BY <1>2, Inductive, PTL

(* An identifier is released for another attempt only when nothing was     *)
(* paid under it and nothing more will be, unless an operation was given   *)
(* up before its verification answered.                                    *)
THEOREM ReleasedOnlyUnpaidAlways == Spec => []ReleasedOnlyUnpaid
<1>1. IInv => ReleasedOnlyUnpaid
  <2> SUFFICES ASSUME IInv, NEW r \in Requests, Claimed(r), r \notin abandoned,
                      store[IdOf(r)].kind = "rejected"
               PROVE  ~ Transferred(r) /\ pc[r] # "settling"
    BY DEF ReleasedOnlyUnpaid
  <2>1. concluded[r]
    <3>1. ~ concluded[r] => store[IdOf(r)] = PendingEntry(r)
      BY DEF IInv, OneOwner
    <3> QED  BY <3>1 DEF PendingEntry
  <2> QED  BY <2>1 DEF IInv, StoreTrail
<1> QED  BY <1>1, Inductive, PTL

(* README: one identifier yields at most one settlement.  It is proved for *)
(* connections that stay and authorizations that are well-formed.          *)
THEOREM OneSettlement ==
    ASSUME Droppable = {}, WellFormedInputs PROVE Spec => []OneSettlementPerIdentifier
<1> DEFINE Regular == \A r \in Requests : present[r].auth \notin Malformed
<1>1. Init => abandoned = {} /\ Regular
  BY DEF Init, WellFormedInputs
<1>2. abandoned = {} /\ [Next]_vars => (abandoned = {})'
  <2> SUFFICES ASSUME abandoned = {}, [Next]_vars PROVE abandoned' = {}
    OBVIOUS
  <2>1. ASSUME NEW r \in Requests, Finish(r) \/ Claim(r) PROVE abandoned' = {}
    BY <2>1 DEF Finish, Claim, Own, Available
  <2>2. ASSUME NEW r \in Requests, Quiet(r) PROVE abandoned' = {}
    BY <2>2 DEF Quiet, Arrive, Close, Decide, RefuseIdentifier, PassThrough, RefuseCapacity,
       Claim, Own, Available,
       RefuseFingerprint, RefuseAuthorization, RefuseUncertain, Wait, ServeCached, AnswerHere,
       Middleware, Unrouted, Challenge, RefusePreVerification, BeginVerify,
       VerifyAnswered, VerifyInvalid, VerifyRaises, VerifyValid, HandlerFails,
       SettleAnswered, SettleSucceeds, SettleRefused, SettleRaises
  <2> QED  BY <2>1, <2>2, StepCases DEF vars, Drop
<1>3. Regular /\ [Next]_vars => Regular'
  BY PresentFrame
<1>4. abandoned = {} /\ Regular /\ PaidTwiceIsExplained => OneSettlementPerIdentifier
  BY DEF PaidTwiceIsExplained, OneSettlementPerIdentifier, SameIdentifier
<1> QED  BY <1>1, <1>2, <1>3, <1>4, PaidTwiceIsExplainedAlways, PTL DEF Spec

(* Whatever happens, an identifier stays bound to the request that first   *)
(* used it, a completed or an uncertain entry never changes again, and a   *)
(* new identifier is bound only where there is room (server.ts:503-605).   *)
THEOREM BoundForLifeAlways == Spec => BoundForLife
<1> DEFINE Kept(i) ==
      /\ store[i].kind # "absent" => store'[i].kind # "absent" /\ store'[i].fp = store[i].fp
      /\ store[i].kind \in {"completed", "uncertain"} => store'[i] = store[i]
      /\ store[i].kind = "absent" /\ store'[i].kind # "absent" => Cardinality(Bound) < Capacity
<1>1. ASSUME IInv, [Next]_vars, NEW i \in Identifiers PROVE Kept(i)
  <2>1. CASE store'[i] = store[i]
    BY <2>1
  <2>2. CASE store'[i] # store[i]
    <3>1. TypeOK /\ ConcludedTrail /\ OneOwner
      BY <1>1 DEF IInv
    <3>2. PICK r \in Requests : Claim(r) \/ Finish(r) \/ Drop(r)
      BY <1>1, <2>2, <3>1, StepCases, QuietFrame DEF vars
    <3>3. CASE Claim(r)
      <4>1. store' = [store EXCEPT ![IdOf(r)] = PendingEntry(r)]
        BY <3>3 DEF Claim, Own, Available
      <4>2. i = IdOf(r) /\ store'[i] = PendingEntry(r)
        BY <2>2, <3>1, <4>1 DEF TypeOK
      <4> QED  BY <3>3, <4>2 DEF Claim, Own, Available, PendingEntry
    <3>4. CASE Finish(r) \/ Drop(r)
      <4>1. PICK rec : ConcludeOperation(r, rec)
        BY <2>2, <3>4 DEF Finish, Drop
      <4>2. /\ store[IdOf(r)] = PendingEntry(r)
            /\ store' = [store EXCEPT ![IdOf(r)] = ConcludedEntry(r, Verdict(rec, produced[r]))]
        BY <2>2, <3>1, <4>1, ConcludeCases
      <4>3. i = IdOf(r) /\ store'[i] = ConcludedEntry(r, Verdict(rec, produced[r]))
        BY <2>2, <3>1, <4>2 DEF TypeOK
      <4>4. store[i].kind = "pending" /\ store[i].fp = present[r].fp
        BY <4>2, <4>3 DEF PendingEntry
      <4> QED  BY <4>3, <4>4, ConcludedEntryFields, VerdictType
    <3> QED  BY <3>2, <3>3, <3>4
  <2> QED  BY <2>1, <2>2
<1>2. IInv /\ [Next]_vars => [\A i \in Identifiers : Kept(i)]_store
  BY <1>1
<1> QED  BY <1>2, Inductive, PTL DEF Spec, BoundForLife

(* A cached result goes only to a request that presents what another one   *)
(* paid with (server.ts:560-575): the entry it is served from is completed *)
(* under its own fingerprint and authorization, and is backed by a payment.*)
THEOREM CachedOnlyToPayerAlways == Spec => []CachedOnlyToPayer
<1>1. IInv => CachedOnlyToPayer
  <2> SUFFICES ASSUME IInv, NEW r \in Requests, pc[r] = "cached"
               PROVE  LET e == store[IdOf(r)] IN
                        /\ e.kind = "completed" /\ e.fp = present[r].fp
                        /\ e.auth = present[r].auth
                        /\ \E s \in Requests : s # r /\ Transferred(s) /\ present[s] = present[r]
    BY DEF CachedOnlyToPayer
  <2>1. SameRequest(r, "completed") /\ store[IdOf(r)].auth = present[r].auth
    BY DEF IInv, CachedTrail
  <2>2. ~ Claimed(r)
    BY DEF Claimed, Underway, InFlight
  <2> QED  BY <2>1, <2>2, PayerLemma DEF IInv, SameRequest
<1> QED  BY <1>1, Inductive, PTL

(* No word a facilitator may say puts an identifier in doubt: there was a  *)
(* settlement that raised, or a connection that dropped while one was in   *)
(* flight (server.ts:405-452, failure-vocabulary.ts:84-88).                *)
THEOREM UncertainIsExplainedAlways == Spec => []UncertainIsExplained
BY Inductive, PTL DEF IInv

(* Every observation tells what happened at the facilitator: settled means *)
(* transferred, a refused settlement means that nothing moved, and no      *)
(* rejection before the handler is told of a handler that ran              *)
(* (server.ts:607-700, lifecycle.ts:125-162).                              *)
THEOREM ObservationsAreTrueAlways == Spec => []ObservationsAreTrue
<1>1. IInv => ObservationsAreTrue
  <2> SUFFICES ASSUME IInv, NEW k \in DOMAIN observations
               PROVE  LET r == observations[k]
                          t == recorder[r].terminal
                      IN /\ PaymentWasSettled(t) <=> Settled(r)
                         /\ PaymentWasSettled(t) => Transferred(r)
                         /\ t = "settlement_failed" /\ recorder[r].reason # "settlement_exception"
                              => ~ Transferred(r) /\ "settle" \in did[r] /\ "raise" \notin did[r]
                         /\ t = "payment_rejected_pre_verification" => "verify" \notin did[r]
                         /\ t \in {"payment_rejected_pre_verification", "verification_rejected",
                                   "payment_required_only"} => "execute" \notin did[r]
                         /\ t = "handler_error_status" =>
                              "execute" \in did[r] /\ "settle" \notin did[r]
    BY DEF ObservationsAreTrue
  <2>1. PICK r \in Requests : r = observations[k]
    BY DEF IInv, TypeOK
  <2>2. pc[r] = "finished" /\ EndOf(r) /\ TrailOf(r)
    BY <2>1 DEF IInv, ObservedTrail, EndTrail, RecorderTrail, TrailOf
  <2>3. CASE Settled(r)
    <3>1. recorder[r].terminal = "response_write_attempted" /\ Transferred(r)
      BY <2>2, <2>3 DEF EndOf, TrailOf
    <3> QED  BY <2>1, <2>3, <3>1 DEF PaymentWasSettled
  <2>4. CASE ~ Settled(r)
    BY <2>1, <2>2, <2>4 DEF EndOf, Unasked, RefusedAtVerification, HandlerFailed,
       RefusedAtSettlement, RaisedAtSettlement, Raised, PaymentWasSettled, Transferred
  <2> QED  BY <2>3, <2>4
<1> QED  BY <1>1, Inductive, PTL

(* One observation for every response that was finished, and none for any  *)
(* other request (server.ts:694).                                          *)
THEOREM ObservedOnceAlways == Spec => []ObservedOnce
<1> DEFINE Of(r) == {k \in DOMAIN observations : observations[k] = r}
           Once(r) == Cardinality(Of(r)) = IF pc[r] = "finished" THEN 1 ELSE 0
<1>1. Init => ObservedOnce
  <2> SUFFICES ASSUME Init, NEW r \in Requests PROVE Once(r)
    BY DEF ObservedOnce
  <2>1. Of(r) = {} /\ pc[r] = "idle"
    BY DEF Init
  <2> QED  BY <2>1, FS_EmptySet
<1>2. IInv /\ ObservedOnce /\ [Next]_vars => ObservedOnce'
  <2> SUFFICES ASSUME IInv, ObservedOnce, [Next]_vars PROVE ObservedOnce'
    OBVIOUS
  <2>1. CASE UNCHANGED vars
    BY <2>1 DEF vars, ObservedOnce
  <2> SUFFICES ASSUME NEW r \in Requests, Arrive(r) \/ Advance(r) \/ Drop(r) \/ Close(r),
                      NEW q \in Requests
               PROVE  Once(q)'
    BY <2>1 DEF Next, ObservedOnce
  <2>2. TypeOK /\ Once(q)
    BY DEF IInv, ObservedOnce
  <2>3. CASE Finish(r)
    <3>1. /\ observations' = Append(observations, r) /\ observations \in Seq(Requests)
          /\ pc'[r] = "finished" /\ pc[r] # "finished" /\ (q # r => pc'[q] = pc[q])
      BY <2>2, <2>3 DEF Finish, Goto, TypeOK
    <3>2. CASE q # r
      <4>1. Of(q)' = Of(q)
        BY <3>1, <3>2
      <4> QED  BY <2>2, <3>1, <3>2, <4>1
    <3>3. CASE q = r
      <4>1. Of(r)' = Of(r) \cup {Len(observations) + 1} /\ Len(observations) + 1 \notin Of(r)
        BY <3>1
      <4>2. IsFiniteSet(Of(r))
        <5>0. Len(observations) \in Int
          BY <3>1
        <5>1. IsFiniteSet(1 .. Len(observations))
          BY <5>0, FS_Interval
        <5>2. Of(r) \subseteq DOMAIN observations
          OBVIOUS
        <5>3. DOMAIN observations = 1 .. Len(observations)
          BY <3>1
        <5> QED  BY <5>1, <5>2, <5>3, FS_Subset
      <4>3. Cardinality(Of(r)) = 0
        BY <2>2, <3>1, <3>3
      <4>4. Cardinality(Of(r) \cup {Len(observations) + 1}) = 1
        <5> HIDE DEF Of
        <5> QED  BY <4>1, <4>2, <4>3, FS_AddElement
      <4>5. Cardinality(Of(r)') = 1
        BY <4>1, <4>4
      <4> QED  BY <3>1, <3>3, <4>5
    <3> QED  BY <3>2, <3>3
  <2>4. CASE ~ Finish(r)
    BY <2>2, <2>4, PushedFrame
  <2> QED  BY <2>3, <2>4
<1> QED  BY <1>1, <1>2, Inductive, PTL DEF Spec

(* When an identifier is required, the handler runs and money moves only   *)
(* for a request that owned one, or that presents one beside an            *)
(* authorization that could not be read (server.ts:485-606).               *)
THEOREM PaymentsAreBoundAlways == Spec => []PaymentsAreBound
<1>1. IInv => PaymentsAreBound
  <2> SUFFICES ASSUME IInv, IdentifierRequired, NEW r \in Requests,
                      Paid(r)
               PROVE  Claimed(r) \/ (IdOf(r) # None /\ present[r].auth \in Malformed)
    BY DEF PaymentsAreBound
  <2>1. BoundOf(r) /\ pc[r] \in {"verifying", "settling", "responding", "finished"}
    BY DEF IInv, BoundTrail, RecorderTrail, Paid
  <2>2. present[r].auth \in Authorizations \cup Malformed \cup {None}
    BY DEF IInv, TypeOK, Presentation
  <2> QED  BY <2>1, <2>2 DEF BoundOf, Paid, Claimed, Bindable, IdOf, Underway, InFlight
<1> QED  BY <1>1, Inductive, PTL

-----------------------------------------------------------------------------
(* The refinement of ChargeOnce, over connections that stay and            *)
(* authorizations that are well-formed.                                    *)

\* Nothing is given up, an operation is concluded by `finish' alone, and every
\* authorization can be read.
Undisturbed ==
    /\ abandoned = {}
    /\ \A r \in Requests : concluded[r] => pc[r] = "finished"
    /\ \A r \in Requests : present[r].auth \notin Malformed

LEMMA UndisturbedStep ==
    ASSUME Droppable = {}, TypeOK, ConcludedTrail, Undisturbed, [Next]_vars PROVE Undisturbed'
<1>1. CASE UNCHANGED vars
  BY <1>1 DEF vars, Undisturbed
<1> SUFFICES ASSUME NEW r \in Requests, Arrive(r) \/ Advance(r) \/ Close(r)
             PROVE  Undisturbed'
  BY <1>1 DEF Next, Drop
<1>2. \A q \in Requests :
         (pc[q] = "finished" => pc'[q] = "finished") /\ present'[q] = present[q]
  BY FinishedKept, PresentFrame
<1>3. CASE Finish(r)
  <2>1. abandoned' = {} /\ pc'[r] = "finished" /\ concluded' = [concluded EXCEPT ![r] = TRUE]
    BY <1>3 DEF Undisturbed, Finish, ConcludeOperation, Goto, TypeOK
  <2> QED  BY <1>2, <2>1 DEF Undisturbed, TypeOK
<1>4. CASE Claim(r)
  BY <1>2, <1>4 DEF Undisturbed, Claim, Own
<1>5. CASE Quiet(r)
  BY <1>2, <1>5, QuietFrame DEF Undisturbed
<1> QED  BY <1>3, <1>4, <1>5 DEF Advance, Quiet

\* The state the abstract promise speaks of is the same after a step that moves
\* no entry, pays for no owner and replays nothing.
LEMMA MapFrame ==
    ASSUME present' = present, store' = store,
           \A q \in Requests : IdOf(q) \in Identifiers => (Transferred(q)' <=> Transferred(q)),
           \A q \in Requests : pc'[q] = "cached" <=> pc[q] = "cached"
    PROVE  UNCHANGED Charges!vars
BY DEF Charges!vars, IdOf

\* Whoever paid under an identifier holds it or has sealed it.
LEMMA PaidEntry ==
    ASSUME IInv, Undisturbed, NEW q \in Requests, IdOf(q) \in Identifiers, Transferred(q)
    PROVE  store[IdOf(q)].kind \in {"completed", "uncertain"} \/ store[IdOf(q)] = PendingEntry(q)
<1>1. Claimed(q) /\ q \notin abandoned
  BY PaidIsClaimed, NoneAssumption DEF Undisturbed
<1> QED  BY <1>1 DEF IInv, StoreTrail, OneOwner

\* What a quiet step of r changes of what a request caused, and of replays.
LEMMA QuietEffects ==
    ASSUME TypeOK, NEW r \in Requests, Quiet(r)
    PROVE  /\ \A q \in Requests :
                 /\ q # r \/ ~ SettleAnswered(r) => (Transferred(q)' <=> Transferred(q))
                 /\ q # r \/ ~ ServeCached(r) => (pc'[q] = "cached" <=> pc[q] = "cached")
           /\ SettleAnswered(r) => pc'[r] = "responding" /\ pc[r] = "settling"
           /\ ServeCached(r) => pc' = [pc EXCEPT ![r] = "cached"] /\ did' = did
<1> USE DEF Transferred, TypeOK, Goto, Cause
<1>1. ASSUME NEW q \in Requests, q # r
      PROVE  /\ Transferred(q)' <=> Transferred(q)
             /\ pc'[q] = "cached" <=> pc[q] = "cached"
  BY <1>1, OthersFrame DEF Quiet, Advance
<1>2. CASE Arrive(r) \/ Close(r)
  BY <1>1, <1>2 DEF Arrive, Close, SettleAnswered, SettleSucceeds, SettleRefused, SettleRaises, ServeCached,
       Deciding
<1>3. CASE Decide(r) /\ ~ Claim(r)
  BY <1>1, <1>3 DEF Deciding, Decide, RefuseIdentifier, PassThrough, RefuseCapacity,
       RefuseFingerprint, RefuseAuthorization, RefuseUncertain, Wait, ServeCached, AnswerHere,
       SettleAnswered, SettleSucceeds, SettleRefused, SettleRaises
<1>4. CASE Middleware(r)
  BY <1>1, <1>4 DEF Middleware, Unrouted, Challenge, RefusePreVerification, BeginVerify,
       SettleAnswered, SettleSucceeds, SettleRefused, SettleRaises, ServeCached, Deciding
<1>5. CASE VerifyAnswered(r)
  <2>1. /\ pc[r] = "verifying" /\ pc'[r] \in {"settling", "responding"}
        /\ \E effects \in {{}, {"execute"}, {"execute", "settle"}} :
              did'[r] = did[r] \cup effects
    <3>1. CASE VerifyValid(r)
      BY <3>1 DEF VerifyValid
    <3>2. CASE HandlerFails(r)
      BY <3>2 DEF HandlerFails
    <3>3. CASE VerifyInvalid(r) \/ VerifyRaises(r)
      BY <3>3 DEF VerifyInvalid, VerifyRaises
    <3> QED  BY <1>5, <3>1, <3>2, <3>3 DEF VerifyAnswered
  <2>2. ~ SettleAnswered(r) /\ ~ ServeCached(r)
    BY <2>1 DEF SettleAnswered, SettleSucceeds, SettleRefused, SettleRaises, ServeCached, Deciding
  <2>3. (Transferred(r)' <=> Transferred(r)) /\ (pc'[r] = "cached" <=> pc[r] = "cached")
    BY <2>1
  <2> QED  BY <1>1, <2>2, <2>3
<1>6. CASE SettleAnswered(r)
  BY <1>1, <1>6 DEF SettleAnswered, SettleSucceeds, SettleRefused, SettleRaises, ServeCached,
       Deciding
<1> QED  BY <1>2, <1>3, <1>4, <1>5, <1>6 DEF Quiet

\* Whoever pays while connections stay holds the identifier, and is the first
\* to pay under it.
LEMMA ChargeStep ==
    ASSUME IInv, Undisturbed, NEW r \in Requests, SettleAnswered(r),
           IdOf(r) \in Identifiers, Transferred(r)'
    PROVE  \E k \in Identifiers : Charges!Charge(k, r)
<1> DEFINE Payers(i) == {q \in Requests : IdOf(q) = i /\ Transferred(q)}
<1>1. TypeOK /\ pc[r] = "settling" /\ Quiet(r)
  BY DEF IInv, Quiet, SettleAnswered, SettleSucceeds, SettleRefused, SettleRaises
<1>2. ~ concluded[r] /\ ~ Transferred(r) /\ Claimed(r)
  <2>1. ~ concluded[r] /\ ~ Transferred(r)
    BY <1>1 DEF Undisturbed, IInv, RecorderTrail
  <2>2. present[r] \in Presentation /\ present[r].auth # None /\ present[r].auth \notin Malformed
    BY <1>1 DEF IInv, TypeOK, SettlingIsAuthorized, Undisturbed
  <2>3. present[r].header = "payload"
    BY <1>1 DEF IInv, BoundTrail, BoundOf, EndTrail, EndOf
  <2> QED  BY <1>1, <2>1, <2>2, <2>3, NoneAssumption
           DEF Claimed, Bindable, Presentation, IdOf, Underway, InFlight
<1>3. PICK k \in Identifiers : k = IdOf(r) /\ store[k] = PendingEntry(r)
  <2>1. store[IdOf(r)] = PendingEntry(r)
    BY <1>2 DEF IInv, OneOwner
  <2> QED  BY <2>1
<1>4. store[k].kind = "pending" /\ store[k].by = r
  BY <1>3 DEF PendingEntry
<1>5. Payers(k) = {}
  <2> SUFFICES ASSUME NEW q \in Requests, IdOf(q) = k, Transferred(q) PROVE FALSE
    OBVIOUS
  <2>1. store[IdOf(q)].kind \in {"completed", "uncertain"} \/ store[IdOf(q)] = PendingEntry(q)
    BY PaidEntry
  <2>2. store[k].kind \in {"completed", "uncertain"} \/ store[k].by = q
    BY <2>1 DEF PendingEntry
  <2> QED  BY <1>2, <1>4, <2>2
<1>6. /\ present' = present /\ store' = store
      /\ \A q \in Requests : q # r => (Transferred(q)' <=> Transferred(q))
      /\ \A q \in Requests : pc'[q] = "cached" <=> pc[q] = "cached"
  <2>1. ~ ServeCached(r)
    BY <1>1 DEF ServeCached, Deciding
  <2> QED  BY <1>1, <2>1, QuietFrame, QuietEffects DEF IInv
<1>7. Payers(k)' = {r}
  <2>1. \A q \in Requests : IdOf(q)' = IdOf(q)
    BY <1>6 DEF IdOf
  <2>2. \A q \in Requests : (IdOf(q) = k /\ Transferred(q))' <=> q = r
    BY <1>3, <1>5, <1>6, <2>1
  <2> QED  BY <2>2
<1>8. \A i \in Identifiers : i # k => Payers(i)' = Payers(i)
  BY <1>3, <1>6 DEF IdOf
<1>9. [i \in Identifiers |-> Payers(i)]' = [[i \in Identifiers |-> Payers(i)] EXCEPT ![k] = {r}]
  <2> HIDE DEF Payers
  <2> QED  BY <1>7, <1>8
<1>10. Charges!Charge(k, r)
  BY <1>4, <1>5, <1>6, <1>9 DEF Charges!Charge
<1> QED  BY <1>10

LEMMA ReplayStep ==
    ASSUME IInv, NEW r \in Requests, ServeCached(r), Quiet(r)
    PROVE  \E k \in Identifiers : Charges!Replay(k, r)
<1> DEFINE k == IdOf(r)
<1>1. TypeOK /\ SameRequest(r, "completed") /\ store[k].auth = present[r].auth
  BY DEF IInv, ServeCached
<1>2. k \in Identifiers /\ store[k].kind = "completed"
  BY <1>1, EntryTypes DEF SameRequest
<1>3. ~ Claimed(r)
  BY DEF ServeCached, Deciding, Claimed, Underway, InFlight
<1>4. PICK s \in Requests : /\ s # r /\ Claimed(s) /\ IdOf(s) = k
                            /\ Transferred(s) /\ present[s] = present[r]
  BY <1>1, <1>3, PayerLemma DEF IInv
<1>5. ~ SettleAnswered(r)
  BY DEF ServeCached, Deciding, SettleAnswered, SettleSucceeds, SettleRefused, SettleRaises
<1>6. /\ present' = present /\ store' = store /\ pc' = [pc EXCEPT ![r] = "cached"]
      /\ \A q \in Requests : Transferred(q)' <=> Transferred(q)
  BY <1>1, <1>5, QuietFrame, QuietEffects DEF IInv
<1>7. {q \in Requests : pc'[q] = "cached"} = {q \in Requests : pc[q] = "cached"} \cup {r}
  BY <1>1, <1>6 DEF TypeOK
<1>8. Charges!Replay(k, r)
  BY <1>2, <1>4, <1>6, <1>7 DEF Charges!Replay, IdOf
<1> QED  BY <1>2, <1>8

\* A claim takes an identifier nobody holds, and under which nobody paid.
LEMMA TakeStep ==
    ASSUME IInv, Undisturbed, NEW r \in Requests, Claim(r)
    PROVE  \E k \in Identifiers : Charges!Take(k, r)
<1> DEFINE k == IdOf(r)
<1>1. /\ TypeOK /\ k \in Identifiers /\ store[k].kind \in {"absent", "rejected"}
      /\ store' = [store EXCEPT ![k] = PendingEntry(r)]
      /\ present' = present /\ did' = did /\ pc' = [pc EXCEPT ![r] = "middleware"]
  BY EntryTypes DEF IInv, Claim, Own, Available, Goto
<1>2. PendingEntry(r).kind = "pending" /\ PendingEntry(r).by = r
  BY DEF PendingEntry
<1>3. {q \in Requests : IdOf(q) = k /\ Transferred(q)} = {}
  <2> SUFFICES ASSUME NEW q \in Requests, IdOf(q) = k, Transferred(q) PROVE FALSE
    OBVIOUS
  <2>1. store[IdOf(q)].kind \in {"completed", "uncertain"} \/ store[IdOf(q)] = PendingEntry(q)
    BY <1>1, PaidEntry
  <2> QED  BY <1>1, <2>1 DEF PendingEntry
<1>4. ~ Transferred(r) /\ pc[r] # "cached"
  BY DEF IInv, RecorderTrail, Claim, Own, Deciding, Transferred
<1>5. \A q \in Requests : /\ Transferred(q)' <=> Transferred(q)
                          /\ pc'[q] = "cached" <=> pc[q] = "cached"
  BY <1>1, <1>4 DEF Transferred, TypeOK
<1>6. [i \in Identifiers |-> IF store[i].kind = "pending" THEN store[i].by ELSE 0]'
        = [[i \in Identifiers |-> IF store[i].kind = "pending" THEN store[i].by ELSE 0]
              EXCEPT ![k] = r]
  BY <1>1, <1>2 DEF TypeOK
<1>7. UNCHANGED {i \in Identifiers : store[i].kind \in {"completed", "uncertain"}}
  BY <1>1, <1>2 DEF TypeOK
<1>8. UNCHANGED [i \in Identifiers |->
                   {q \in Requests : IdOf(q) = i /\ Transferred(q)}]
  BY <1>1, <1>5 DEF IdOf
<1>9. Charges!Take(k, r)
  BY <1>1, <1>3, <1>5, <1>6, <1>7, <1>8 DEF Charges!Take
<1> QED  BY <1>1, <1>9

\* An owner that finishes gives its identifier back when it ends as `rejected',
\* under which nobody paid, and seals it otherwise.
LEMMA FinishStep ==
    ASSUME IInv, Undisturbed, NEW r \in Requests, Finish(r)
    PROVE  Charges!Next \/ UNCHANGED Charges!vars
<1> DEFINE verdict == Verdict(AtFinish(recorder[r]), produced[r])
<1>1. /\ TypeOK /\ OneOwner /\ RecorderTrail
      /\ pc[r] = "responding" /\ ConcludeOperation(r, AtFinish(recorder[r]))
  BY DEF IInv, Finish
<1>2. present' = present /\ did' = did /\ pc' = [pc EXCEPT ![r] = "finished"]
  BY DEF Finish, Goto
<1>3. /\ \A q \in Requests : Transferred(q)' <=> Transferred(q)
      /\ \A q \in Requests : pc'[q] = "cached" <=> pc[q] = "cached"
  BY <1>1, <1>2 DEF Transferred, TypeOK
<1>4. CASE ~ Claimed(r) \/ concluded[r]
  <2>1. store' = store
    BY <1>1, <1>4, ConcludeCases
  <2> QED  BY <1>2, <1>3, <2>1, MapFrame
<1>5. CASE Claimed(r) /\ ~ concluded[r]
  <2>0. PICK k \in Identifiers : k = IdOf(r)
    BY <1>1, <1>5, ConcludeCases
  <2>1. /\ store[k] = PendingEntry(r)
        /\ store' = [store EXCEPT ![k] = ConcludedEntry(r, verdict)]
    BY <1>1, <1>5, <2>0, ConcludeCases
  <2>2. /\ store[k].kind = "pending" /\ store[k].by = r /\ r # 0
        /\ ConcludedEntry(r, verdict).kind = verdict
        /\ verdict \in {"completed", "rejected", "uncertain"}
    BY <2>1, ConcludedEntryFields, VerdictType DEF PendingEntry, Requests
  <2>3. UNCHANGED <<present,
                    [i \in Identifiers |->
                       {q \in Requests : IdOf(q) = i /\ Transferred(q)}],
                    {q \in Requests : pc[q] = "cached"}>>
    BY <1>2, <1>3 DEF IdOf
  <2>4. [i \in Identifiers |-> IF store[i].kind = "pending" THEN store[i].by ELSE 0]'
          = [[i \in Identifiers |-> IF store[i].kind = "pending" THEN store[i].by ELSE 0]
                EXCEPT ![k] = 0]
    BY <1>1, <2>1, <2>2 DEF TypeOK
  <2>5. CASE verdict = "rejected"
    <3>1. {q \in Requests : IdOf(q) = k /\ Transferred(q)} = {}
      <4> SUFFICES ASSUME NEW q \in Requests, IdOf(q) = k, Transferred(q) PROVE FALSE
        OBVIOUS
      <4>1. store[k].kind \in {"completed", "uncertain"} \/ store[k] = PendingEntry(q)
        BY PaidEntry
      <4>2. q = r
        BY <2>2, <4>1 DEF PendingEntry
      <4> QED  BY <1>1, <2>5, <4>2, VerdictTrail
    <3>2. UNCHANGED {i \in Identifiers : store[i].kind \in {"completed", "uncertain"}}
      BY <1>1, <2>1, <2>2, <2>5 DEF TypeOK
    <3>3. Charges!GiveBack(k)
      BY <2>2, <2>3, <2>4, <3>1, <3>2 DEF Charges!GiveBack
    <3> QED  BY <3>3 DEF Charges!Next
  <2>6. CASE verdict # "rejected"
    <3>1. {i \in Identifiers : store[i].kind \in {"completed", "uncertain"}}'
            = {i \in Identifiers : store[i].kind \in {"completed", "uncertain"}} \cup {k}
      BY <1>1, <2>1, <2>2, <2>6 DEF TypeOK
    <3>2. Charges!Seal(k)
      BY <2>2, <2>3, <2>4, <3>1 DEF Charges!Seal
    <3> QED  BY <3>2 DEF Charges!Next
  <2> QED  BY <2>5, <2>6
<1> QED  BY <1>4, <1>5

(* While no connection drops and no authorization is malformed, the store, *)
(* the hooks and the response events together do what a buyer is promised  *)
(* of an identifier, by all requests that present it: it is taken by       *)
(* one request at a time, charged for at most once, given back only if     *)
(* nothing was paid, and replayed only to a request that presents what the *)
(* payer presented (server.ts:405-605).                                    *)
THEOREM ChargeOnceRefinement ==
    ASSUME Droppable = {}, WellFormedInputs PROVE Spec => ImplementsChargeOnce
<1>1. Init => Undisturbed
  BY DEF Init, Undisturbed, WellFormedInputs
<1>2. Init => Charges!Init
  <2> SUFFICES ASSUME Init PROVE Charges!Init
    OBVIOUS
  <2>1. \A r \in Requests : ~ Transferred(r) /\ pc[r] # "cached"
    BY DEF Init, Transferred
  <2>2. \A i \in Identifiers : store[i].kind = "absent"
    BY DEF Init, AbsentEntry
  <2>3. present \in [Requests -> Inputs]
    BY DEF Init
  <2> QED  BY <2>1, <2>2, <2>3 DEF Charges!Init
<1>3. IInv /\ Undisturbed /\ [Next]_vars => [Charges!Next]_Charges!vars
  <2> SUFFICES ASSUME IInv, Undisturbed, [Next]_vars
               PROVE  Charges!Next \/ UNCHANGED Charges!vars
    BY DEF Charges!vars
  <2>1. CASE UNCHANGED vars
    BY <2>1, MapFrame DEF vars, Transferred
  <2>2. ASSUME NEW r \in Requests, Claim(r) PROVE Charges!Next
    BY <2>2, TakeStep DEF Charges!Next
  <2>3. ASSUME NEW r \in Requests, Finish(r) PROVE Charges!Next \/ UNCHANGED Charges!vars
    BY <2>3, FinishStep
  <2>4. ASSUME NEW r \in Requests, Drop(r) PROVE FALSE
    BY <2>4 DEF Drop
  <2>5. ASSUME NEW r \in Requests, Quiet(r) PROVE Charges!Next \/ UNCHANGED Charges!vars
    <3>1. TypeOK /\ ConcludedTrail
      BY DEF IInv
    <3>2. present' = present /\ store' = store
      BY <2>5, <3>1, QuietFrame
    <3>3. CASE ServeCached(r)
      BY <2>5, <3>3, ReplayStep DEF Charges!Next
    <3>4. CASE ~ ServeCached(r) /\ SettleAnswered(r) /\ IdOf(r) \in Identifiers /\ Transferred(r)'
      BY <3>4, ChargeStep DEF Charges!Next
    <3>5. CASE ~ ServeCached(r)
               /\ ~ (SettleAnswered(r) /\ IdOf(r) \in Identifiers /\ Transferred(r)')
      <4>1. \A q \in Requests : IdOf(q) \in Identifiers => (Transferred(q)' <=> Transferred(q))
        <5>1. ASSUME SettleAnswered(r), IdOf(r) \in Identifiers PROVE Transferred(r)' <=> Transferred(r)
          <6>1. ~ Transferred(r)
            BY <5>1 DEF IInv, RecorderTrail, SettleAnswered, SettleSucceeds, SettleRefused,
               SettleRaises
          <6> QED  BY <3>5, <5>1, <6>1
        <5> QED  BY <2>5, <3>1, <5>1, QuietEffects
      <4>2. \A q \in Requests : pc'[q] = "cached" <=> pc[q] = "cached"
        BY <2>5, <3>1, <3>5, QuietEffects
      <4> QED  BY <3>2, <4>1, <4>2, MapFrame
    <3> QED  BY <3>3, <3>4, <3>5
  <2> QED  BY <2>1, <2>2, <2>3, <2>4, <2>5, StepCases
<1>4. TypeOK /\ ConcludedTrail /\ Undisturbed /\ [Next]_vars => Undisturbed'
  BY UndisturbedStep
<1>5. IInv => TypeOK /\ ConcludedTrail
  BY DEF IInv
<1> QED  BY <1>1, <1>2, <1>3, <1>4, <1>5, Inductive, PTL DEF Spec, ImplementsChargeOnce, Charges!Spec

=============================================================================
