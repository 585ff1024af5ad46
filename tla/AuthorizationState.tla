---------------------------- MODULE AuthorizationState ----------------------------
(***************************************************************************)
(* What a facilitator stands in for (settledAuthorizations,                *)
(* flow/fixture-facilitator.ts): an EIP-3009 authorization, named by its   *)
(* authorizer and its nonce, is transferred at most once, by one call, and *)
(* a call that came to nothing leaves it to be transferred.                *)
(***************************************************************************)
CONSTANTS Calls, Authorizers, Nonces

VARIABLES
    consumed, \* the authorizations that were transferred
    outcome   \* what each call to settle came to

Authorizations == Authorizers \X Nonces

Init == consumed = {} /\ outcome = [c \in Calls |-> "none"]

Concludes(c, what) == outcome[c] = "none" /\ outcome' = [outcome EXCEPT ![c] = what]

Transfer(c) ==
    /\ \E a \in Authorizations \ consumed : consumed' = consumed \cup {a}
    /\ Concludes(c, "transferred")

\* Something was transferred that has no name to be consumed under.
TransferUnnamed(c) == Concludes(c, "unnamed") /\ UNCHANGED consumed

\* Only what was transferred before is refused as a duplicate.
RefuseDuplicate(c) == consumed # {} /\ Concludes(c, "duplicate") /\ UNCHANGED consumed

Fail(c) == Concludes(c, "failed") /\ UNCHANGED consumed

Next == \E c \in Calls : Transfer(c) \/ TransferUnnamed(c) \/ RefuseDuplicate(c) \/ Fail(c)

Spec == Init /\ [][Next]_<<consumed, outcome>>
=============================================================================
