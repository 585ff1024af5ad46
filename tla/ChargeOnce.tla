------------------------------ MODULE ChargeOnce ------------------------------
(***************************************************************************)
(* What a payment identifier promises, said without requests in flight,    *)
(* response events or lifecycle: attempts take the identifier one at a     *)
(* time, one of them at most is charged, an attempt that was not charged   *)
(* may give the identifier back, and from the moment it is sealed nobody   *)
(* takes it again.  A result is replayed only from a sealed identifier     *)
(* that was charged, to an attempt like the one that was charged.          *)
(***************************************************************************)
CONSTANTS Attempts, Keys, NoAttempt, Purchases

VARIABLES buys,     \* what each attempt asks for, and pays with
          holder,   \* the attempt that holds each identifier
          sealed,   \* the identifiers nobody may take again
          charged,  \* the attempts charged under each identifier
          replayed  \* the attempts answered with an earlier result

vars == <<buys, holder, sealed, charged, replayed>>

Init ==
    /\ buys \in [Attempts -> Purchases]
    /\ holder = [k \in Keys |-> NoAttempt]
    /\ sealed = {}
    /\ charged = [k \in Keys |-> {}]
    /\ replayed = {}

Take(k, a) ==
    /\ holder[k] = NoAttempt
    /\ k \notin sealed
    /\ charged[k] = {}
    /\ holder' = [holder EXCEPT ![k] = a]
    /\ UNCHANGED <<buys, sealed, charged, replayed>>

Charge(k, a) ==
    /\ holder[k] = a
    /\ charged[k] = {}
    /\ charged' = [charged EXCEPT ![k] = {a}]
    /\ UNCHANGED <<buys, holder, sealed, replayed>>

GiveBack(k) ==
    /\ holder[k] # NoAttempt
    /\ charged[k] = {}
    /\ holder' = [holder EXCEPT ![k] = NoAttempt]
    /\ UNCHANGED <<buys, sealed, charged, replayed>>

Seal(k) ==
    /\ holder[k] # NoAttempt
    /\ holder' = [holder EXCEPT ![k] = NoAttempt]
    /\ sealed' = sealed \cup {k}
    /\ UNCHANGED <<buys, charged, replayed>>

Replay(k, a) ==
    /\ k \in sealed
    /\ \E c \in charged[k] : c # a /\ buys[c] = buys[a]
    /\ replayed' = replayed \cup {a}
    /\ UNCHANGED <<buys, holder, sealed, charged>>

Next ==
    \E k \in Keys :
        \/ GiveBack(k) \/ Seal(k)
        \/ \E a \in Attempts : Take(k, a) \/ Charge(k, a) \/ Replay(k, a)

Spec == Init /\ [][Next]_vars
=============================================================================
