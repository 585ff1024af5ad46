----------------------- MODULE PaidResourceRefinement -----------------------
(***************************************************************************)
(* The paid resource keeps the promise of ChargeOnce while no connection   *)
(* drops and no authorization is malformed.  An identifier is held while   *)
(* its entry is pending and sealed once it is completed or uncertain.      *)
(***************************************************************************)
EXTENDS PaidResource

Charges == INSTANCE ChargeOnce WITH
    Attempts  <- Requests,
    Keys      <- Identifiers,
    NoAttempt <- 0,
    Purchases <- Inputs,
    buys      <- present,
    holder    <- [i \in Identifiers |->
                    IF store[i].kind = "pending" THEN store[i].by ELSE 0],
    sealed    <- {i \in Identifiers : store[i].kind \in {"completed", "uncertain"}},
    charged   <- [i \in Identifiers |->
                    {r \in Requests : IdOf(r) = i /\ Transferred(r)}],
    replayed  <- {r \in Requests : pc[r] = "cached"}

(* Every step of the server over live connections is one the abstract      *)
(* promise allows: nobody is charged twice under an identifier, a charged  *)
(* identifier is never given back, and a result is replayed only to a      *)
(* request like the one that was charged.                                  *)
ImplementsChargeOnce == Charges!Spec
=============================================================================
