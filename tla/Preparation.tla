------------------------------ MODULE Preparation ------------------------------
(***************************************************************************)
(* What comes before a payment: the preflight (runPreflight,               *)
(* flow/preflight.ts), the two key files it reads and creates              *)
(* (flow/payer-key.ts, flow/issuer-key.ts, flow/key-file.ts) and what a    *)
(* live run reads again once the preflight said it is ready (main,         *)
(* flow/live-e2e.ts), up to the payment itself.                            *)
(*                                                                         *)
(* A process prepares a wallet or makes a live run.  An action is one file *)
(* operation, or one request to an endpoint: other processes, and the      *)
(* operator who funds, moves, damages and repairs key files, act between.  *)
(* A key is named by the process that generated it, and so is its account. *)
(***************************************************************************)
EXTENDS Integers, FiniteSets, JsonRpc

CONSTANTS
    Preparers, \* the processes that run demo:live:prepare
    Lives,     \* those that run demo:live
    Issuers,   \* canonical https origins
    MaxFunds,  \* how often the faucet sends an account the amount of a payment
    MaxEdits,  \* how often the operator takes the payer key from its file
    Elsewhere, \* an account of which nobody here has the key
    None

ASSUME PreparationAssumption ==
    /\ Preparers \cap Lives = {}
    /\ None \notin Preparers \cup Lives \cup Issuers \cup {Elsewhere}
    /\ Elsewhere \notin Preparers
    /\ MaxFunds \in Nat /\ MaxEdits \in Nat

VARIABLES
    run,        \* each process: where it is and what it holds
    payerFile,  \* .local/keys/payer.json
    issuerFile, \* .local/keys/issuer.json
    aside,      \* the payer keys the operator moved aside
    edits,      \* how often the operator took the payer key from its file
    funds,      \* the balance of each account, in payments
    sent,       \* how many payments left each account (history)
    faucet,     \* how often the faucet still sends
    announced,  \* the payer addresses that were printed (history)
    claims      \* the keys and issuers that live runs sign under (history)

chain == <<funds, sent, faucet>>
files == <<payerFile, issuerFile, aside, edits>>
vars == <<run, files, chain, announced, claims>>

Runs == Preparers \cup Lives

-----------------------------------------------------------------------------
(* Values. *)

\* The amount of a payment, and the balance the preflight asks for.
MinUsdc == 1

\* The chain an endpoint serves.
BaseSepolia == "base_sepolia"
Chains == {BaseSepolia, "another"}

\* An address is spelled with its checksum or in another case.
Spellings == {"checksummed", "other"}

NoFile == [state |-> "absent", key |-> None]
NoIssuerFile == [state |-> "absent", key |-> None, issuer |-> None]

\* A file that was created and not yet filled is empty; one that holds no key,
\* although it once did, is damaged.
Empty(r) == [state |-> "empty", key |-> r]

\* Where the payer is known, where the checks have passed, and where the key
\* that signs is known.  "ended" is every end without an answer to the payment: an
\* exception, a report that says ready or not, an exchange that was cut short.
Checking == {"chain_id", "balance", "facilitator"}
Ready == {"issuer", "create_issuer", "fill_issuer", "payer_again"}
Signing == {"pay", "uncovered"}
Places == {"begin", "payer", "create_payer", "fill_payer", "ended"} \cup Checking \cup Ready \cup Signing

\* What a process holds: the recipient and the issuer it is configured with, the
\* payer, how many payments had left its account when its balance was asked for,
\* the edits of its file when it was read, the key that signs, and whether the key
\* was taken from its file between the two readings.  A process whose preflight
\* cannot be ready goes on for the report alone, with the payer.
Fresh == [pc |-> "begin", clean |-> FALSE, payTo |-> None, issuer |-> None, payer |-> None,
          seen |-> 0, edits |-> 0, signer |-> None, moved |-> FALSE]

Init ==
    /\ run = [r \in Runs |-> Fresh]
    /\ payerFile = NoFile /\ issuerFile = NoIssuerFile
    /\ aside = {} /\ edits = 0
    /\ funds = [k \in Preparers |-> 0] /\ sent = [k \in Preparers |-> 0] /\ faucet = MaxFunds
    /\ announced = {} /\ claims = {}

At(r, place) == run[r].pc = place

Goto(r, place) == run' = [run EXCEPT ![r].pc = place]

\* The process ends, and what it held is gone.
End(r) == run' = [run EXCEPT ![r] = [Fresh EXCEPT !.pc = "ended"]]

\* A check failed: the run is not ready, whatever the others find.
NotReady(r, key, place) == run' = [run EXCEPT ![r] = [Fresh EXCEPT !.pc = place, !.payer = key]]

-----------------------------------------------------------------------------
(* The preflight. *)

\* checkIssuerReadiness: a usable issuer, and a key file that is absent or
\* records it.
IssuerReady(issuer) ==
    /\ issuer # None
    /\ \/ issuerFile.state = "absent"
       \/ issuerFile.state = "complete" /\ issuerFile.issuer = issuer

\* The configuration is read: a usable recipient, whose account is known by then,
\* and an issuer, or something is wrong with it.  The report of a preparation, ready
\* or not, changes nothing.
Begin(r) ==
    /\ At(r, "begin")
    /\ \/ Goto(r, "payer")
       \/ /\ r \in Lives
          /\ \E account \in announced \cup {Elsewhere}, issuer \in Issuers :
                /\ IssuerReady(issuer)
                /\ run' = [run EXCEPT ![r].clean = TRUE, ![r].payTo = account,
                                      ![r].issuer = issuer, ![r].pc = "payer"]
    /\ UNCHANGED <<files, chain, announced, claims>>

\* Mutant of DistinctRoles: the addresses are compared as they are spelled.
DistinctSpellings(account, spelling, payer) == ~ (account = payer /\ spelling = "checksummed")

\* distinctRolesCheck, in whatever case the recipient is spelled.
DistinctRoles(account, spelling, payer) == account # payer

\* The payer is known, with the edits of its file until then; out/ cannot be
\* written, or it can and the two roles are distinct or not.
Known(r, key) ==
    \/ NotReady(r, key, "chain_id")
    \/ /\ run[r].clean
       /\ \E spelling \in Spellings :
            /\ DistinctRoles(run[r].payTo, spelling, key)
            /\ run' = [run EXCEPT ![r].payer = key, ![r].edits = edits, ![r].pc = "chain_id"]

\* A live run needs the key that was funded; preparing creates the first one.  A
\* file that holds no key is refused by an exception.
LoadPayer(r) ==
    /\ At(r, "payer")
    /\ \/ payerFile.state = "complete" /\ Known(r, payerFile.key)
       \/ payerFile.state = "absent" /\ r \in Preparers /\ Goto(r, "create_payer")
       \/ payerFile.state = "absent" /\ r \in Lives /\ End(r)
       \/ payerFile.state \in {"empty", "damaged"} /\ End(r)
    /\ UNCHANGED <<files, chain, announced, claims>>

\* Mutant of CreatePayer: the file is not created exclusively.
CreatePayerAnyway(r) ==
    /\ At(r, "create_payer")
    /\ payerFile' = Empty(r) /\ Goto(r, "fill_payer")
    /\ UNCHANGED <<issuerFile, aside, edits, chain, announced, claims>>

\* createPayerKeyFile: the file is created, unless one appeared meanwhile.
CreatePayer(r) ==
    /\ At(r, "create_payer")
    /\ IF payerFile.state = "absent"
       THEN payerFile' = Empty(r) /\ Goto(r, "fill_payer")
       ELSE End(r) /\ UNCHANGED payerFile
    /\ UNCHANGED <<issuerFile, aside, edits, chain, announced, claims>>

\* The key is written, or the write fails; or the process dies, before or after.
FillPayer(r) ==
    /\ At(r, "fill_payer")
    /\ \/ payerFile' = [payerFile EXCEPT !.state = "complete"] /\ (Known(r, r) \/ End(r))
       \/ End(r) /\ UNCHANGED payerFile
    /\ UNCHANGED <<issuerFile, aside, edits, chain, announced, claims>>

\* The endpoint is asked for its chain.  Without a usable answer nothing is asked
\* of the balance; with another chain it is.
AskChainId(r) ==
    /\ At(r, "chain_id")
    /\ \E served \in Chains : \E e \in Truthful({Quantity(served)}, {Quantity(BaseSepolia)}) :
         IF IsResult(e) /\ e.result.type = "quantity"
         THEN IF e.result.value = BaseSepolia
              THEN Goto(r, "balance")
              ELSE NotReady(r, run[r].payer, "balance")
         ELSE NotReady(r, run[r].payer, "facilitator")
    /\ UNCHANGED <<files, chain, announced, claims>>

\* The balance of the payer: one word of ABI data, which on another chain changes
\* nothing for the run.
AskBalance(r) ==
    /\ At(r, "balance")
    /\ \E e \in Truthful({Word(funds[run[r].payer])}, {Word(MinUsdc)}) :
         IF run[r].clean /\ IsResult(e) /\ e.result.type = "word" /\ e.result.value >= MinUsdc
         THEN run' = [run EXCEPT ![r].seen = sent[run[r].payer], ![r].pc = "facilitator"]
         ELSE NotReady(r, run[r].payer, "facilitator")
    /\ UNCHANGED <<files, chain, announced, claims>>

\* The facilitator supports the network or it does not, or says neither; the
\* report, with the payer address, is printed.  A live run goes on when all is well.
AskFacilitator(r) ==
    /\ At(r, "facilitator")
    /\ \E supported \in BOOLEAN :
         IF run[r].clean /\ supported THEN Goto(r, "issuer") ELSE End(r)
    /\ announced' = announced \cup {run[r].payer}
    /\ UNCHANGED <<files, chain, claims>>

-----------------------------------------------------------------------------
(* A live run whose preflight is ready. *)

\* The run signs under the key and the configured issuer.
Signs(r, key) ==
    /\ claims' = claims \cup {[key |-> key, issuer |-> run[r].issuer]}
    /\ Goto(r, "payer_again")

\* Mutant of LoadIssuer: what the preflight compared is not compared again.
LoadIssuerUnchecked(r) ==
    /\ At(r, "issuer")
    /\ \/ issuerFile.state = "complete" /\ Signs(r, issuerFile.key)
       \/ issuerFile.state = "empty" /\ End(r) /\ UNCHANGED claims
       \/ issuerFile.state = "absent" /\ Goto(r, "create_issuer") /\ UNCHANGED claims
    /\ UNCHANGED <<files, chain, announced>>

\* resolveIssuerKey: a key that records another issuer is refused.
LoadIssuer(r) ==
    /\ At(r, "issuer")
    /\ \/ /\ issuerFile.state = "complete"
          /\ IF issuerFile.issuer = run[r].issuer
             THEN Signs(r, issuerFile.key)
             ELSE End(r) /\ UNCHANGED claims
       \/ issuerFile.state = "empty" /\ End(r) /\ UNCHANGED claims
       \/ issuerFile.state = "absent" /\ Goto(r, "create_issuer") /\ UNCHANGED claims
    /\ UNCHANGED <<files, chain, announced>>

CreateIssuer(r) ==
    /\ At(r, "create_issuer")
    /\ IF issuerFile.state = "absent"
       THEN /\ issuerFile' = [state |-> "empty", key |-> r, issuer |-> run[r].issuer]
            /\ Goto(r, "fill_issuer")
       ELSE End(r) /\ UNCHANGED issuerFile
    /\ UNCHANGED <<payerFile, aside, edits, chain, announced, claims>>

FillIssuer(r) ==
    /\ At(r, "fill_issuer")
    /\ \/ /\ issuerFile' = [issuerFile EXCEPT !.state = "complete"]
          /\ Signs(r, r) \/ (End(r) /\ UNCHANGED claims)
       \/ End(r) /\ UNCHANGED <<issuerFile, claims>>
    /\ UNCHANGED <<payerFile, aside, edits, chain, announced>>

\* The payer key is read again, and signs; its roles and its balance are those
\* of the key the preflight read.
LoadSigner(r) ==
    /\ At(r, "payer_again")
    /\ IF payerFile.state = "complete"
       THEN run' = [run EXCEPT ![r].signer = payerFile.key, ![r].moved = edits # run[r].edits,
                               ![r].pc = "pay"]
       ELSE End(r)
    /\ UNCHANGED <<files, chain, announced, claims>>

\* What the recipient's account has once the payer's was charged.
Transferred(payer, account) ==
    [k \in Preparers |-> funds[k] - (IF k = payer THEN MinUsdc ELSE 0)
                                  + (IF k = account THEN MinUsdc ELSE 0)]

\* The exchange: it comes to a transfer, or is refused for want of funds, or
\* ends before anything is asked of the chain.
Pay(r) ==
    /\ At(r, "pay")
    /\ \/ /\ funds[run[r].signer] >= MinUsdc
          /\ funds' = Transferred(run[r].signer, run[r].payTo)
          /\ sent' = [sent EXCEPT ![run[r].signer] = @ + 1]
          /\ End(r)
       \/ /\ funds[run[r].signer] < MinUsdc
          /\ Goto(r, "uncovered")
          /\ UNCHANGED <<funds, sent>>
       \/ End(r) /\ UNCHANGED <<funds, sent>>
    /\ UNCHANGED <<files, faucet, announced, claims>>

-----------------------------------------------------------------------------
(* The operator. *)

\* An announced account is sent the amount of a payment.
Fund ==
    /\ faucet > 0
    /\ \E k \in announced : funds' = [funds EXCEPT ![k] = @ + MinUsdc]
    /\ faucet' = faucet - 1
    /\ UNCHANGED <<run, files, sent, announced, claims>>

\* A payer key file nobody is writing is moved aside, or damaged by a half-made
\* edit.
DisturbPayer ==
    /\ edits < MaxEdits /\ edits' = edits + 1
    /\ payerFile.state # "absent"
    /\ \/ /\ ~ \E r \in Preparers : At(r, "fill_payer")
          /\ aside' = IF payerFile.state = "empty" THEN aside ELSE aside \cup {payerFile.key}
          /\ payerFile' = NoFile
       \/ /\ payerFile.state = "complete"
          /\ payerFile' = [payerFile EXCEPT !.state = "damaged"]
          /\ UNCHANGED aside
    /\ UNCHANGED <<run, issuerFile, chain, announced, claims>>

\* One that was moved aside is put back where there is none, or a damaged one is
\* repaired.
RestorePayer ==
    /\ \/ \E k \in aside :
          /\ payerFile.state = "absent"
          /\ payerFile' = [state |-> "complete", key |-> k]
          /\ aside' = aside \ {k}
       \/ /\ payerFile.state = "damaged"
          /\ payerFile' = [payerFile EXCEPT !.state = "complete"]
          /\ UNCHANGED aside
    /\ UNCHANGED <<run, issuerFile, edits, chain, announced, claims>>

\* An issuer key file nobody is writing is moved aside.
MoveIssuerAside ==
    /\ issuerFile.state # "absent"
    /\ ~ \E r \in Lives : At(r, "fill_issuer")
    /\ issuerFile' = NoIssuerFile
    /\ UNCHANGED <<run, payerFile, aside, edits, chain, announced, claims>>

Preflight(r) ==
    \/ Begin(r) \/ LoadPayer(r) \/ CreatePayer(r) \/ FillPayer(r)
    \/ AskChainId(r) \/ AskBalance(r) \/ AskFacilitator(r)

Live(r) == LoadIssuer(r) \/ CreateIssuer(r) \/ FillIssuer(r) \/ LoadSigner(r) \/ Pay(r)

Next ==
    \/ \E r \in Runs : Preflight(r)
    \/ \E r \in Lives : Live(r)
    \/ Fund \/ DisturbPayer \/ RestorePayer \/ MoveIssuerAside

Spec == Init /\ [][Next]_vars

-----------------------------------------------------------------------------
(* Properties. *)

TypeOK ==
    /\ run \in [Runs -> [pc : Places, clean : BOOLEAN, payTo : Preparers \cup {Elsewhere, None},
                         issuer : Issuers \cup {None}, payer : Preparers \cup {None}, seen : Nat,
                         edits : Nat, signer : Preparers \cup {None}, moved : BOOLEAN]]
    /\ payerFile \in [state : {"absent", "empty", "damaged", "complete"}, key : Preparers \cup {None}]
    /\ issuerFile \in [state : {"absent", "empty", "complete"}, key : Lives \cup {None},
                       issuer : Issuers \cup {None}]
    /\ aside \subseteq Preparers /\ edits \in Nat
    /\ funds \in [Preparers -> Nat] /\ sent \in [Preparers -> Nat] /\ faucet \in Nat
    /\ announced \subseteq Preparers
    /\ claims \subseteq [key : Lives, issuer : Issuers]

\* The key is on the disk: in the payer key file, or with the operator.
Kept(k) ==
    k \in aside \/ (payerFile.key = k /\ payerFile.state \in {"damaged", "complete"})

(* An address that was printed, for a person to fund, is the address of a  *)
(* key that still exists: no process replaces a payer key, whatever other  *)
(* processes prepare and however the operator handles the file.            *)
FundsAreReachable == \A k \in announced : Kept(k)

(* No two live runs sign under one key and different issuers, although     *)
(* each compares issuers with a file that others create and the operator   *)
(* moves between its preflight and its start.                              *)
OneIssuerPerKey == \A c, d \in claims : c.key = d.key => c.issuer = d.issuer

(* Unless the operator took the payer key away meanwhile, a live run pays  *)
(* with the key its preflight read, and it pays somebody else.             *)
PaidAsChecked ==
    \A r \in Lives : run[r].pc \in Signing /\ ~ run[r].moved =>
        run[r].signer = run[r].payer /\ run[r].payTo \notin {run[r].signer, None}

(* A payment that is not covered was covered when the preflight asked: the *)
(* account paid for another run since.                                     *)
UncoveredIsExplained ==
    \A r \in Lives : At(r, "uncovered") /\ ~ run[r].moved =>
        sent[run[r].signer] > run[r].seen

\* A process that has a key file open for writing alone may fill it.
WritersOwn ==
    /\ \A r \in Runs : At(r, "fill_payer") => r \in Preparers /\ payerFile = Empty(r)
    /\ \A r \in Runs : At(r, "fill_issuer") =>
          issuerFile = [state |-> "empty", key |-> r, issuer |-> run[r].issuer]
    /\ \A r \in Runs : At(r, "create_payer") => r \in Preparers
    /\ payerFile.state # "absent" => payerFile.key # None
    /\ issuerFile.state # "absent" => issuerFile.key \in Lives /\ issuerFile.issuer \in Issuers

\* An issuer key is claimed, and recorded, under one issuer, and only once the
\* process that generates it came to that.
IssuersOwn ==
    /\ \A c \in claims :
          /\ issuerFile.key = c.key => issuerFile.issuer = c.issuer
          /\ \A d \in claims : c.key = d.key => c.issuer = d.issuer
    /\ \A r \in Lives : (issuerFile.key = r \/ \E c \in claims : c.key = r) =>
          run[r].pc \in {"fill_issuer", "payer_again", "ended"} \cup Signing
    /\ \A r \in Lives : At(r, "fill_issuer") => \A c \in claims : c.key # r

\* What is known of the payer of a run whose payer is known.
PayerKnown ==
    \A r \in Runs : run[r].pc \in Checking \cup Ready \cup Signing =>
        /\ run[r].payer \in Preparers /\ Kept(run[r].payer)
        /\ run[r].clean =>
              /\ run[r].edits <= edits
              /\ run[r].edits = edits => payerFile = [state |-> "complete", key |-> run[r].payer]

\* What its checks have found, as long as none failed.
ChecksHeld ==
    \A r \in Runs :
        /\ run[r].pc \in Ready \cup Signing => run[r].clean
        /\ run[r].clean => r \in Lives /\ run[r].payTo # None /\ run[r].issuer # None
        /\ run[r].clean /\ run[r].pc \in Checking \cup Ready \cup Signing =>
              /\ run[r].payTo # run[r].payer
              /\ run[r].pc \notin {"chain_id", "balance"} =>
                    /\ sent[run[r].payer] >= run[r].seen
                    /\ funds[run[r].payer] >= MinUsdc \/ sent[run[r].payer] > run[r].seen

SignersKnown ==
    \A r \in Runs : run[r].pc \in Signing =>
        run[r].signer \in Preparers /\ (run[r].moved \/ run[r].signer = run[r].payer)

IInv ==
    /\ TypeOK /\ WritersOwn /\ IssuersOwn /\ PayerKnown /\ ChecksHeld /\ SignersKnown
    /\ FundsAreReachable
=============================================================================
