------------------------- MODULE FixtureFacilitator_proofs -------------------------
(***************************************************************************)
(* What is proved of FixtureFacilitator for any number of calls and of     *)
(* authorizations, whatever the barrier lets interleave.                   *)
(***************************************************************************)
EXTENDS FixtureFacilitator, TLAPS

Held == [pc : {"held"}, answer : {None}, payment : Payments]
Answered == [pc : {"answered"}, answer : Answers, payment : Payments]
Records == {Idle} \cup Held \cup Answered

\* An answered call stays as it is; one that was not counts with the successes
\* exactly if it is answered so, for a named authorization.
LEMMA AnswerStep ==
    ASSUME TypeOK, NEW c \in Calls, calls[c].pc # "answered", NEW payment \in Payments,
           NEW answer \in Answers, Answer(c, payment, answer)
    PROVE  /\ calls' \in [Calls -> Records]
           /\ calls'[c] = [pc |-> "answered", answer |-> answer, payment |-> payment]
           /\ \A d \in Calls \ {c} : calls'[d] = calls[d] /\ For(d)' = For(d)
           /\ For(c)' = AuthorizationIdentity(payment.authorization)
           /\ c \notin Successes
           /\ Successes' = Successes \cup
                             IF answer = "success" /\ AuthorizationIdentity(payment.authorization) # {}
                             THEN {c} ELSE {}
PROOF
  <1>1. calls \in [Calls -> Records]
    BY DEF TypeOK, Records, Held, Answered
  <1>2. [pc |-> "answered", answer |-> answer, payment |-> payment] \in Records
    BY DEF Records, Answered
  <1>3. /\ calls' \in [Calls -> Records]
        /\ calls'[c] = [pc |-> "answered", answer |-> answer, payment |-> payment]
        /\ \A d \in Calls \ {c} : calls'[d] = calls[d]
    BY <1>1, <1>2 DEF Answer
  <1>4. /\ \A d \in Calls \ {c} : For(d)' = For(d)
        /\ For(c)' = AuthorizationIdentity(payment.authorization)
    <2>1. ASSUME NEW d \in Calls \ {c} PROVE For(d)' = For(d)
      <3>1. calls'[d] = calls[d]
        BY <1>3
      <3> QED BY <3>1 DEF For
    <2>2. calls'[c].payment = payment
      BY <1>3
    <2>3. For(c)' = AuthorizationIdentity(payment.authorization)
      BY <2>2 DEF For, AuthorizationIdentity
    <2> QED BY <2>1, <2>3
  <1>5. c \notin Successes
    BY DEF Successes, Concluded
  <1>6. \A d \in Calls \ {c} : d \in Successes' <=> d \in Successes
    BY <1>3, <1>4 DEF Successes, Concluded
  <1>7. c \in Successes' <=> answer = "success" /\ AuthorizationIdentity(payment.authorization) # {}
    BY <1>3, <1>4 DEF Successes, Concluded
  <1>8. Successes \subseteq Calls /\ Successes' \subseteq Calls
    BY DEF Successes
  <1> QED BY <1>3, <1>4, <1>5, <1>6, <1>7, <1>8

Consumed == UNION {For(c) : c \in Successes}
Outcomes == [c \in Calls |-> Outcome(c)]

\* An authorization names at most one pair.
LEMMA NamedOnce ==
    ASSUME NEW payment \in Payments
    PROVE  LET id == AuthorizationIdentity(payment.authorization)
           IN  id = {} \/ \E a \in Authorizers \X Nonces : id = {a}
PROOF
  <1>1. CASE payment.authorization.kind = "named"
    <2>1. payment.authorization.from \in Authorizers /\ payment.authorization.nonce \in Nonces
      BY <1>1 DEF Payments, Authorizations
    <2> QED BY <1>1, <2>1 DEF AuthorizationIdentity
  <1>2. CASE payment.authorization.kind # "named"
    BY <1>2 DEF AuthorizationIdentity
  <1> QED BY <1>1, <1>2

\* What was answered to others is what it was to them.
LEMMA OthersKeep ==
    ASSUME NEW c \in Calls, \A d \in Calls \ {c} : calls'[d] = calls[d] /\ For(d)' = For(d)
    PROVE  \A d \in Calls \ {c} : Outcome(d)' = Outcome(d)
PROOF
  <1> SUFFICES ASSUME NEW d \in Calls \ {c} PROVE Outcome(d)' = Outcome(d)
    OBVIOUS
  <1>1. calls'[d] = calls[d] /\ For(d)' = For(d)
    OBVIOUS
  <1> QED BY <1>1 DEF Outcome

\* An answer that is no success leaves what is consumed, and is explained if it
\* claims a duplicate.
LEMMA Unsuccessful ==
    ASSUME FacilitatorAssumption, IInv, NEW c \in Calls, calls[c].pc # "answered",
           NEW payment \in Payments, NEW answer \in Answers \ {"success"},
           Answer(c, payment, answer), settled' = settled,
           answer = "duplicate" => AuthorizationIdentity(payment.authorization) \cap settled # {}
    PROVE  /\ calls' \in [Calls -> Records]
           /\ settled' = Consumed' /\ Consumed' = Consumed
           /\ (\A d, e \in Successes : For(d) = For(e) => d = e)'
           /\ DuplicateOfASuccess'
           /\ Outcomes' = [Outcomes EXCEPT ![c] = Outcome(c)']
PROOF
  <1> TypeOK
    BY DEF IInv
  <1>1. /\ calls' \in [Calls -> Records]
        /\ calls'[c] = [pc |-> "answered", answer |-> answer, payment |-> payment]
        /\ \A d \in Calls \ {c} : calls'[d] = calls[d] /\ For(d)' = For(d)
        /\ For(c)' = AuthorizationIdentity(payment.authorization)
        /\ c \notin Successes /\ Successes' = Successes
    BY AnswerStep
  <1>2. \A d \in Successes : d \in Calls \ {c} /\ For(d)' = For(d)
    BY <1>1 DEF Successes
  <1>3. Consumed' = Consumed
    BY <1>1, <1>2 DEF Consumed
  <1>4. settled' = Consumed'
    BY <1>3 DEF IInv, Consumed
  <1>5. (\A d, e \in Successes : For(d) = For(e) => d = e)'
    BY <1>1, <1>2 DEF IInv
  <1>6. DuplicateOfASuccess'
    <2> SUFFICES ASSUME NEW d \in Calls, Concluded(d, "duplicate")'
                 PROVE  \E e \in Successes' : For(e)' = For(d)'
      BY DEF DuplicateOfASuccess
    <2>1. CASE d # c
      <3>1. Concluded(d, "duplicate") /\ For(d)' = For(d)
        BY <1>1, <2>1 DEF Concluded
      <3>2. PICK e \in Successes : For(e) = For(d)
        BY <3>1 DEF IInv, DuplicateOfASuccess
      <3> QED BY <1>1, <1>2, <3>1, <3>2
    <2>2. CASE d = c
      <3>1. AuthorizationIdentity(payment.authorization) \cap settled # {}
        BY <1>1, <2>2 DEF Concluded
      <3>2. PICK a : AuthorizationIdentity(payment.authorization) = {a} /\ a \in settled
        BY <3>1, NamedOnce
      <3>3. PICK e \in Successes : a \in For(e)
        BY <3>2 DEF IInv
      <3>4. For(e) = {a}
        BY <3>3 DEF For
      <3> QED BY <1>1, <1>2, <2>2, <3>2, <3>3, <3>4
    <2> QED BY <2>1, <2>2
  <1>7. Outcomes' = [Outcomes EXCEPT ![c] = Outcome(c)']
    BY <1>1, OthersKeep DEF Outcomes
  <1> QED BY <1>1, <1>3, <1>4, <1>5, <1>6, <1>7

\* A success consumes what was not consumed, and is the first for it.
LEMMA Successful ==
    ASSUME FacilitatorAssumption, IInv, NEW c \in Calls, calls[c].pc # "answered",
           NEW payment \in Payments, Answer(c, payment, "success"),
           AuthorizationIdentity(payment.authorization) \cap settled = {},
           settled' = settled \cup AuthorizationIdentity(payment.authorization)
    PROVE  /\ calls' \in [Calls -> Records]
           /\ settled' = Consumed'
           /\ Consumed' = Consumed \cup AuthorizationIdentity(payment.authorization)
           /\ AuthorizationIdentity(payment.authorization) \cap Consumed = {}
           /\ (\A d, e \in Successes : For(d) = For(e) => d = e)'
           /\ DuplicateOfASuccess'
           /\ For(c)' = AuthorizationIdentity(payment.authorization)
           /\ Outcomes' = [Outcomes EXCEPT ![c] = Outcome(c)']
PROOF
  <1> DEFINE id == AuthorizationIdentity(payment.authorization)
  <1> TypeOK /\ "success" \in Answers
    BY DEF IInv, Answers
  <1>1. /\ calls' \in [Calls -> Records]
        /\ calls'[c] = [pc |-> "answered", answer |-> "success", payment |-> payment]
        /\ \A d \in Calls \ {c} : calls'[d] = calls[d] /\ For(d)' = For(d)
        /\ For(c)' = id
        /\ c \notin Successes
        /\ Successes' = Successes \cup IF id # {} THEN {c} ELSE {}
    BY AnswerStep
  <1>2. \A d \in Successes : d \in Calls \ {c} /\ For(d)' = For(d)
    BY <1>1 DEF Successes
  <1>3. settled = Consumed
    BY DEF IInv, Consumed
  <1>4. Consumed' = Consumed \cup id
    <2>1. CASE id = {}
      BY <1>1, <1>2, <2>1 DEF Consumed
    <2>2. CASE id # {}
      BY <1>1, <1>2, <2>2 DEF Consumed
    <2> QED BY <2>1, <2>2
  <1>5. (\A d, e \in Successes : For(d) = For(e) => d = e)'
    <2>1. ASSUME NEW d \in Successes, id # {} PROVE For(d) # id
      <3>1. For(d) \subseteq settled
        BY <1>3 DEF Consumed
      <3> QED BY <2>1, <3>1
    <2> QED BY <1>1, <1>2, <2>1 DEF IInv
  <1>6. DuplicateOfASuccess'
    <2> SUFFICES ASSUME NEW d \in Calls, Concluded(d, "duplicate")'
                 PROVE  \E e \in Successes' : For(e)' = For(d)'
      BY DEF DuplicateOfASuccess
    <2>1. d # c
      BY <1>1 DEF Concluded
    <2>2. Concluded(d, "duplicate") /\ For(d)' = For(d)
      BY <1>1, <2>1 DEF Concluded
    <2>3. PICK e \in Successes : For(e) = For(d)
      BY <2>2 DEF IInv, DuplicateOfASuccess
    <2> QED BY <1>1, <1>2, <2>2, <2>3
  <1>7. Outcomes' = [Outcomes EXCEPT ![c] = Outcome(c)']
    BY <1>1, OthersKeep DEF Outcomes
  <1> QED BY <1>1, <1>3, <1>4, <1>5, <1>6, <1>7

\* The part of the invariant that a call which concludes has to account for.
Sound ==
    /\ calls \in [Calls -> Records]
    /\ settled = Consumed
    /\ \A c, d \in Successes : For(c) = For(d) => c = d
    /\ DuplicateOfASuccess

\* A step of the state of authorizations.
ASStep == [AS!Next]_<<Consumed, Outcomes>>

\* With the rest of the state typed, it is the invariant.
LEMMA SoundStep ==
    ASSUME IInv, Sound', settled' \subseteq Authorizers \X Nonces, behavior' = behavior,
           released' \in BOOLEAN, arrived' \in Nat, counts' \in [verify : Nat, settle : Nat]
    PROVE  IInv'
  BY DEF IInv, Sound, TypeOK, Records, Held, Answered, Consumed

\* What has concluded with another outcome is one step of the state.
LEMMA FailureIsAStep ==
    ASSUME NEW c \in Calls, Outcome(c) = "none", Consumed' = Consumed,
           Outcomes' = [Outcomes EXCEPT ![c] = Outcome(c)'],
           \/ Outcome(c)' \in {"none", "failed", "unnamed"}
           \/ Outcome(c)' = "duplicate" /\ Consumed # {}
    PROVE  ASStep
PROOF
  <1>1. Outcomes[c] = "none"
    BY DEF Outcomes
  <1>2. CASE Outcome(c)' = "none"
    BY <1>1, <1>2 DEF Outcomes, ASStep
  <1>3. CASE Outcome(c)' # "none"
    <2>1. AS!Concludes(c, Outcome(c)')
      BY <1>1 DEF AS!Concludes, Outcomes
    <2>2. CASE Outcome(c)' = "failed"
      BY <2>1, <2>2 DEF ASStep, AS!Next, AS!Fail, Consumed
    <2>3. CASE Outcome(c)' = "unnamed"
      BY <2>1, <2>3 DEF ASStep, AS!Next, AS!TransferUnnamed, Consumed
    <2>4. CASE Outcome(c)' = "duplicate" /\ Consumed # {}
      BY <2>1, <2>4 DEF ASStep, AS!Next, AS!RefuseDuplicate, Consumed
    <2> QED BY <1>3, <2>2, <2>3, <2>4
  <1> QED BY <1>2, <1>3

LEMMA ConcludeStep ==
    ASSUME FacilitatorAssumption, IInv, NEW c \in Calls, calls[c].pc # "answered",
           NEW payment \in Payments, Conclude(c, payment)
    PROVE  Sound' /\ settled' \subseteq Authorizers \X Nonces /\ ASStep
PROOF
  <1> DEFINE id == AuthorizationIdentity(payment.authorization)
  <1>1. Outcome(c) = "none" /\ settled \subseteq Authorizers \X Nonces /\ settled = Consumed
    BY DEF Outcome, IInv, TypeOK, Consumed
  <1>2. ASSUME NEW answer \in {"duplicate", "raised", "rejected", "problem"},
               Answer(c, payment, answer), settled' = settled,
               answer = "duplicate" => id \cap settled # {}
        PROVE  Sound' /\ settled' \subseteq Authorizers \X Nonces /\ ASStep
    <2>1. answer \in Answers \ {"success"}
      BY <1>2 DEF Answers
    <2>2. /\ Sound' /\ Consumed' = Consumed
          /\ Outcomes' = [Outcomes EXCEPT ![c] = Outcome(c)']
      BY <1>2, <2>1, Unsuccessful DEF Sound
    <2>3. calls'[c] = [pc |-> "answered", answer |-> answer, payment |-> payment]
      BY <1>2, <2>1, AnswerStep DEF IInv
    <2>4. \/ answer = "duplicate" /\ Outcome(c)' = "duplicate" /\ Consumed # {}
          \/ Outcome(c)' = "failed"
      BY <1>1, <1>2, <2>3 DEF Outcome
    <2> QED BY <1>1, <1>2, <2>2, <2>4, FailureIsAStep
  <1>3. ASSUME id \cap settled = {}, settled' = settled \cup id, Answer(c, payment, "success")
        PROVE  Sound' /\ settled' \subseteq Authorizers \X Nonces /\ ASStep
    <2>1. /\ Sound' /\ Consumed' = Consumed \cup id /\ id \cap Consumed = {} /\ For(c)' = id
          /\ Outcomes' = [Outcomes EXCEPT ![c] = Outcome(c)']
      BY <1>3, Successful DEF Sound
    <2>2. calls'[c] = [pc |-> "answered", answer |-> "success", payment |-> payment]
      BY <1>3, AnswerStep DEF IInv, Answers
    <2>3. settled' \subseteq Authorizers \X Nonces
      BY <1>1, <1>3, NamedOnce
    <2>4. CASE id = {}
      <3>1. Outcome(c)' = "unnamed"
        BY <2>1, <2>2, <2>4 DEF Outcome
      <3> QED BY <1>1, <2>1, <2>3, <2>4, <3>1, FailureIsAStep
    <2>5. CASE id # {}
      <3>1. PICK a \in Authorizers \X Nonces : id = {a}
        BY <2>5, NamedOnce
      <3>2. Outcome(c)' = "transferred"
        BY <2>1, <2>2, <2>5 DEF Outcome
      <3>3. AS!Concludes(c, "transferred")
        BY <1>1, <2>1, <3>2 DEF AS!Concludes, Outcomes
      <3>4. a \in AS!Authorizations \ Consumed /\ Consumed' = Consumed \cup {a}
        BY <2>1, <3>1 DEF AS!Authorizations
      <3>5. AS!Transfer(c)
        BY <3>3, <3>4 DEF AS!Transfer, Consumed
      <3> QED BY <2>1, <2>3, <3>5 DEF ASStep, AS!Next
    <2> QED BY <2>4, <2>5
  <1>4. CASE id \cap settled # {}
    BY <1>2, <1>4 DEF Conclude
  <1>5. CASE id \cap settled = {} /\ (behavior.settle # "check" \/ ~ CheckTerms(payment))
    <2>1. PICK answer \in {"raised", "rejected", "problem"} :
             Answer(c, payment, answer) /\ settled' = settled
      BY <1>5 DEF Conclude
    <2> QED BY <1>2, <2>1
  <1>6. CASE id \cap settled = {} /\ behavior.settle = "check" /\ CheckTerms(payment)
    BY <1>3, <1>6 DEF Conclude
  <1> QED BY <1>4, <1>5, <1>6

\* A step that answers nobody changes nothing that counts.
LEMMA NobodyAnswered ==
    ASSUME IInv, calls' \in [Calls -> Records], settled' = settled,
           \A c \in Calls : calls'[c] = calls[c] \/ (calls[c].pc # "answered" /\ calls'[c].pc # "answered")
    PROVE  Sound' /\ settled' \subseteq Authorizers \X Nonces /\ ASStep
PROOF
  <1>1. \A c \in Calls :
           /\ c \in Successes' <=> c \in Successes
           /\ c \in Successes => For(c)' = For(c)
           /\ Outcome(c)' = Outcome(c)
           /\ Concluded(c, "duplicate")' => Concluded(c, "duplicate") /\ For(c)' = For(c)
    <2> SUFFICES ASSUME NEW c \in Calls
                 PROVE  /\ c \in Successes' <=> c \in Successes
                        /\ c \in Successes => For(c)' = For(c)
                        /\ Outcome(c)' = Outcome(c)
                        /\ Concluded(c, "duplicate")' => Concluded(c, "duplicate") /\ For(c)' = For(c)
      OBVIOUS
    <2>1. CASE calls'[c] = calls[c]
      BY <2>1 DEF Successes, Concluded, For, Outcome
    <2>2. CASE calls[c].pc # "answered" /\ calls'[c].pc # "answered"
      BY <2>2 DEF Successes, Concluded, Outcome
    <2> QED BY <2>1, <2>2
  <1>2. Successes \subseteq Calls /\ Successes' \subseteq Calls
    BY DEF Successes
  <1>3. Successes' = Successes
    BY <1>1, <1>2
  <1>4. Consumed' = Consumed
    BY <1>1, <1>2, <1>3 DEF Consumed
  <1>5. DuplicateOfASuccess'
    <2> SUFFICES ASSUME NEW d \in Calls, Concluded(d, "duplicate")'
                 PROVE  \E e \in Successes' : For(e)' = For(d)'
      BY DEF DuplicateOfASuccess
    <2>1. Concluded(d, "duplicate") /\ For(d)' = For(d)
      BY <1>1
    <2>2. PICK e \in Successes : For(e) = For(d)
      BY <2>1 DEF IInv, DuplicateOfASuccess
    <2> QED BY <1>1, <1>2, <1>3, <2>1, <2>2
  <1>6. Outcomes' = Outcomes
    BY <1>1 DEF Outcomes
  <1>7. (\A c, d \in Successes : For(c) = For(d) => c = d)'
    BY <1>1, <1>2, <1>3 DEF IInv
  <1> QED BY <1>4, <1>5, <1>6, <1>7 DEF Sound, IInv, TypeOK, Consumed, ASStep

LEMMA VerifyStep ==
    ASSUME FacilitatorAssumption, IInv, NEW c \in Calls, NEW payment \in Payments, Verify(c, payment)
    PROVE  IInv' /\ ASStep
PROOF
  <1>1. /\ calls[c].pc # "answered" /\ UNCHANGED <<behavior, released, arrived, settled>>
        /\ counts' \in [verify : Nat, settle : Nat]
    BY DEF Verify, IInv, TypeOK
  <1>2. PICK answer \in {"verify_raised", "verify_rejected", "valid", "invalid"} : Answer(c, payment, answer)
    BY DEF Verify
  <1>3. answer \in Answers \ {"success"}
    BY DEF Answers
  <1>4. /\ Sound' /\ Consumed' = Consumed
        /\ Outcomes' = [Outcomes EXCEPT ![c] = Outcome(c)']
    BY <1>1, <1>2, <1>3, Unsuccessful DEF Sound
  <1>5. calls'[c] = [pc |-> "answered", answer |-> answer, payment |-> payment]
    BY <1>1, <1>2, <1>3, AnswerStep DEF IInv
  <1>6. Outcome(c) = "none" /\ Outcome(c)' = "none"
    BY <1>1, <1>5 DEF Outcome
  <1>7. ASStep
    BY <1>4, <1>6, FailureIsAStep
  <1> QED BY <1>1, <1>4, <1>7, SoundStep DEF IInv, TypeOK

LEMMA SettleStep ==
    ASSUME FacilitatorAssumption, IInv, NEW c \in Calls, NEW payment \in Payments, Settle(c, payment)
    PROVE  IInv' /\ ASStep
PROOF
  <1>1. /\ calls[c].pc # "answered" /\ UNCHANGED <<behavior, released, arrived>>
        /\ counts' \in [verify : Nat, settle : Nat] /\ Conclude(c, payment)
    BY DEF Settle, IInv, TypeOK
  <1>2. Sound' /\ settled' \subseteq Authorizers \X Nonces /\ ASStep
    BY <1>1, ConcludeStep
  <1> QED BY <1>1, <1>2, SoundStep DEF IInv, TypeOK

LEMMA ProceedStep ==
    ASSUME FacilitatorAssumption, IInv, NEW c \in Calls, Proceed(c)
    PROVE  IInv' /\ ASStep
PROOF
  <1>1. /\ calls[c].pc = "held" /\ UNCHANGED <<behavior, released, arrived, counts>>
        /\ Conclude(c, calls[c].payment)
    BY DEF Proceed
  <1>2. PICK payment : payment = calls[c].payment
    OBVIOUS
  <1>3. payment \in Payments
    <2>1. calls[c] \in {Idle} \cup Held \cup Answered
      BY DEF IInv, TypeOK, Held, Answered
    <2> QED BY <1>1, <1>2, <2>1 DEF Held, Answered, Idle
  <1>4. Sound' /\ settled' \subseteq Authorizers \X Nonces /\ ASStep
    BY <1>1, <1>2, <1>3, ConcludeStep
  <1> QED BY <1>1, <1>4, SoundStep DEF IInv, TypeOK

LEMMA ArriveStep ==
    ASSUME FacilitatorAssumption, IInv, NEW c \in Calls, NEW payment \in Payments, Arrive(c, payment)
    PROVE  IInv' /\ ASStep
PROOF
  <1>1. /\ calls[c].pc = "idle" /\ UNCHANGED <<behavior, released, settled>>
        /\ counts' \in [verify : Nat, settle : Nat] /\ arrived' \in Nat
        /\ calls' = [calls EXCEPT ![c] = [pc |-> "held", answer |-> None, payment |-> payment]]
    BY DEF Arrive, IInv, TypeOK
  <1>2. [pc |-> "held", answer |-> None, payment |-> payment] \in Records
    BY DEF Records, Held
  <1>3. calls \in [Calls -> Records]
    BY DEF IInv, TypeOK, Records, Held, Answered
  <1>4. calls' \in [Calls -> Records]
    BY <1>1, <1>2, <1>3
  <1>5. ASSUME NEW d \in Calls
        PROVE  calls'[d] = calls[d] \/ (calls[d].pc # "answered" /\ calls'[d].pc # "answered")
    BY <1>1, <1>3
  <1>6. Sound' /\ settled' \subseteq Authorizers \X Nonces /\ ASStep
    BY <1>1, <1>4, <1>5, NobodyAnswered
  <1> QED BY <1>1, <1>6, SoundStep DEF IInv, TypeOK

LEMMA NextStep ==
    ASSUME FacilitatorAssumption, IInv, [Next]_vars
    PROVE  IInv' /\ ASStep
PROOF
  <1>1. ASSUME UNCHANGED <<behavior, arrived, counts, calls, settled>>, released' \in BOOLEAN
        PROVE  IInv' /\ ASStep
    <2>1. calls' \in [Calls -> Records]
      BY <1>1 DEF IInv, TypeOK, Records, Held, Answered
    <2>2. Sound' /\ settled' \subseteq Authorizers \X Nonces /\ ASStep
      BY <1>1, <2>1, NobodyAnswered
    <2> QED BY <1>1, <2>2, SoundStep DEF IInv, TypeOK
  <1>2. CASE UNCHANGED vars \/ Release
    BY <1>1, <1>2 DEF vars, Release, IInv, TypeOK
  <1>3. ASSUME NEW c \in Calls, NEW payment \in Payments,
               Verify(c, payment) \/ Settle(c, payment) \/ Arrive(c, payment)
        PROVE  IInv' /\ ASStep
    BY <1>3, VerifyStep, SettleStep, ArriveStep, FacilitatorAssumption
  <1>4. ASSUME NEW c \in Calls, Proceed(c) PROVE IInv' /\ ASStep
    BY <1>4, ProceedStep, FacilitatorAssumption
  <1> QED BY <1>2, <1>3, <1>4 DEF Next

LEMMA InitStep ==
    ASSUME FacilitatorAssumption, Init
    PROVE  IInv /\ Consumed = {} /\ Outcomes = [c \in Calls |-> "none"]
PROOF
  <1>1. \A c \in Calls : calls[c] = Idle /\ calls[c].pc = "idle"
    BY DEF Init, Idle
  <1>2. Successes = {}
    BY <1>1 DEF Successes, Concluded
  <1>3. Consumed = {}
    BY <1>2 DEF Consumed
  <1>4. Outcomes = [c \in Calls |-> "none"]
    BY <1>1 DEF Outcomes, Outcome
  <1>5. TypeOK
    BY DEF Init, TypeOK, Behaviors
  <1>6. DuplicateOfASuccess
    BY <1>1 DEF DuplicateOfASuccess, Concluded
  <1> QED BY <1>2, <1>3, <1>4, <1>5, <1>6 DEF Init, IInv, Consumed

(* The authorizations the instance holds as settled are those of the calls   *)
(* it told of a success, each of one call (settle,                           *)
(* fixture-facilitator.ts), for any number of calls.                         *)
THEOREM Invariance == Spec => []IInv
PROOF
  <1>1. Init => IInv
    BY InitStep, FacilitatorAssumption
  <1>2. IInv /\ [Next]_vars => IInv'
    BY NextStep, FacilitatorAssumption
  <1> QED BY <1>1, <1>2, PTL DEF Spec

(* No call is refused as a duplicate of one that failed, or of another       *)
(* authorizer's with the same nonce (authorizationIdentity).                 *)
THEOREM DuplicateTheorem == Spec => []DuplicateOfASuccess
PROOF
  <1>1. IInv => DuplicateOfASuccess
    BY DEF IInv
  <1> QED BY <1>1, Invariance, PTL

(* The instance implements the state of authorizations: every step of it is  *)
(* a step of AuthorizationState or changes nothing there.                    *)
THEOREM Refinement == Spec => ImplementsAuthorizationState
PROOF
  <1>1. Init => AS!Init
    BY InitStep, FacilitatorAssumption DEF AS!Init, Consumed, Outcomes
  <1>2. IInv /\ [Next]_vars => [AS!Next]_<<UNION {For(c) : c \in Successes}, [c \in Calls |-> Outcome(c)]>>
    BY NextStep, FacilitatorAssumption DEF ASStep, Consumed, Outcomes
  <1> QED BY <1>1, <1>2, Invariance, PTL DEF Spec, ImplementsAuthorizationState, AS!Spec
=============================================================================
