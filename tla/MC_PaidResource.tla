-------------------------- MODULE MC_PaidResource --------------------------
(***************************************************************************)
(* Small instances of PaidResource: which presentations clients make.      *)
(***************************************************************************)
EXTENDS PaidResourceRefinement, PaidResourceInvariant, TLC

CONSTANTS i1, i2, paid, other, a1, a2, partial, unnamed, n1, n2

Pay(i, f, a) == [header |-> "payload", id |-> i, fp |-> f, auth |-> a]

\* Retries of one purchase: same identifier, with either authorization.
RetryInputs == {Pay(i1, paid, a1), Pay(i1, paid, a2)}

\* Retries that may also name a different request.
OverlapInputs == RetryInputs \cup {Pay(i1, other, a1)}

\* The authorizer and nonce pair each authorization names.  In `partial' another
\* member of the first one is not a string, in `unnamed' the nonce is not.
Pairs == (a1 :> n1) @@ (a2 :> n2) @@ (partial :> n1) @@ (unnamed :> None)

\* Everything a client may send over one connection: no payment, a field that
\* does not decode, no identifier, no authorization, a malformed one, and two
\* identifiers.
MixedInputs ==
    {[header |-> "absent",      id |-> None, fp |-> paid, auth |-> None],
     [header |-> "undecodable", id |-> None, fp |-> paid, auth |-> None],
     Pay(None, paid, a1), Pay(i1, paid, None),
     Pay(i1, paid, a1), Pay(i1, paid, a2), Pay(i1, other, a1), Pay(i2, paid, a2),
     Pay(i1, paid, partial), Pay(i1, paid, unnamed)}

\* A facilitator may say a supported code, one of this flow's own words, or
\* anything else.
AllWords == {"duplicate_settlement", "settlement_exception", "free text"}
=============================================================================
