-------------------------------- MODULE JsonRpc --------------------------------
(***************************************************************************)
(* One JSON-RPC exchange under a deadline, as the strict reader takes it   *)
(* (jsonRpcRequest and readBodyWithinBudget, flow/evm-json-rpc.ts): what   *)
(* may come of a request, and whether it is a result or which failure.     *)
(*                                                                         *)
(* A result is a record with the field `type', the RPC type it is written  *)
(* in; whoever asked admits it by that type.                               *)
(***************************************************************************)

FailureKinds == {"unreachable", "temporarily_unavailable", "rpc_error", "unusable"}

Retryable == {"unreachable", "temporarily_unavailable"}

\* Results without a value: `null', and anything of a shape no rule admits.
Null == [type |-> "null"]
Misshapen == [type |-> "misshapen"]

Quantity(n) == [type |-> "quantity", value |-> n]
Word(n) == [type |-> "word", value |-> n]

\* What a request without an answer, or with an answer that is no JSON object,
\* comes to: no connection within the deadline, a connection that breaks off
\* while the body is read, a status of the temporary set or another error
\* status, a body over the budget, and text that is not an object.
Fragments == {"nothing", "broken_off", "temporary", "error_status", "over_budget", "no_object"}

\* What comes of a request.  An object has its version and identifier right or
\* not, and its members: which of `result' and `error' it has, and whether the
\* error, if any, is the error object of JSON-RPC 2.0.
Exchanges(results) ==
    [got : Fragments, framed : {FALSE}, members : {{}}, errorObject : {FALSE}, result : {Null}]
        \cup
    [got : {"object"}, framed : BOOLEAN, members : SUBSET {"result", "error"},
     errorObject : BOOLEAN, result : results]

\* Mutant of IsResult: the error beside a result is not looked at.
IsResultBesideError(e) == e.got = "object" /\ e.framed /\ "result" \in e.members

\* Exactly one of the two members, and it is the result.
IsResult(e) == e.got = "object" /\ e.framed /\ e.members = {"result"}

IsError(e) == e.got = "object" /\ e.framed /\ e.members = {"error"} /\ e.errorObject

\* Which failure an exchange without a result is.
FailureOf(e) ==
    IF e.got \in {"nothing", "broken_off"} THEN "unreachable"
    ELSE IF e.got = "temporary" THEN "temporarily_unavailable"
    ELSE IF IsError(e) THEN "rpc_error"
    ELSE "unusable"

\* What an endpoint may send that asserts nothing false: a result stands alone
\* in its envelope only if it is one of the true ones, or misshapen.  Whatever
\* stands beside an error, or in an envelope for another request, may be false.
Truthful(true, results) ==
    {e \in Exchanges(results \cup true \cup {Null, Misshapen}) :
        e.framed /\ e.members = {"result"} => e.result \in true \cup {Misshapen}}
=============================================================================
