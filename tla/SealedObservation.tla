--------------------------- MODULE SealedObservation ---------------------------
(***************************************************************************)
(* The RPC observer of a settlement: one observation made of four queries  *)
(* (observeSealedTransaction, flow/observe-transaction.ts) and the bounded *)
(* poll around it (observeUntilSealed, flow/live-e2e.ts), against a chain  *)
(* that grows, is reorganized at its tip and holds preconfirmations, asked *)
(* through an endpoint whose replicas may lag.                             *)
(*                                                                         *)
(* The chain and the endpoint are outside the repository: what they may    *)
(* report is what the observer's own comments say of them, and any part of *)
(* an answer may be spoiled.  A block's hash is its place in `blocks', the *)
(* sequence of all blocks ever sealed.                                     *)
(***************************************************************************)
EXTENDS Integers, Sequences, FiniteSets, JsonRpc

CONSTANTS
    MaxBlocks,  \* how many blocks are ever sealed
    MaxLag,     \* how many blocks a replica may be behind
    Poll,       \* pollMs
    Deadline,   \* deadlineMs
    Timeout,    \* timeoutMs of one query
    Oversleep,  \* how late a timer may fire
    Horizon     \* bound on the clock of the model

ASSUME BlocksAssumption == MaxBlocks \in Nat /\ MaxLag \in Nat
ASSUME TimeAssumption ==
    /\ Poll \in Nat \ {0} /\ Deadline \in Nat /\ Timeout \in Nat /\ Oversleep \in Nat
    /\ Horizon \in Nat /\ Horizon > Deadline + Oversleep + 4 * Timeout

VARIABLES
    blocks,       \* every block ever sealed, in order
    chain,        \* the sealed chain: the hash of the block at each number
    preconfirmed, \* how the transaction ran in the block being built, if it did
    wellFormed,   \* is the transaction reference a 32-byte hash?
    step,         \* where the observer is
    receipt,      \* the receipt it was given
    transaction,  \* the transaction object it was given
    sealedBlock,  \* the sealed block it was given
    now,          \* time since the poll started
    spent,        \* time since the query or the sleep under way began
    begun,        \* when the observation under way began
    observation,  \* the last observation made
    outcome       \* how the poll ended

world == <<blocks, chain, preconfirmed, wellFormed>>
queries == <<receipt, transaction, sealedBlock>>
vars == <<world, step, queries, now, spent, begun, observation, outcome>>

Transfers == {"expected", "other", "none"}

\* How the transaction ran.  A reverted one emits no event.
Executions == [status : {"success"}, transfer : Transfers]
                \cup {[status |-> "reverted", transfer |-> "none"]}
NotRun == [status |-> "none", transfer |-> "none"]

Blocks == [number : 1 .. MaxBlocks, ran : Executions \cup {NotRun}]

\* A block placement as reported; no sealed block has the hash 0.
Placements == [number : 0 .. MaxBlocks + 1, hash : 0 .. MaxBlocks]
NoPlace == [number |-> 0, hash |-> 0]

Reports == [known : BOOLEAN, ran : Executions \cup {NotRun}, place : Placements]
NoReport == [known |-> FALSE, ran |-> NotRun, place |-> NoPlace]

SealedBlocks == [place : Placements, lists : BOOLEAN]
NoBlock == [place |-> NoPlace, lists |-> FALSE]

\* SealedRpcObservationV1.  `place' is NoPlace unless the observation level is
\* l2_block_inclusion; `ran' is the receipt's status and the recorded transfer.
Observations == [state  : {"none", "found", "not_found", "unavailable"},
                 ran    : Executions \cup {NotRun},
                 place  : Placements,
                 reason : {"none", "retryable", "terminal"}]
NoObservation == [state |-> "none", ran |-> NotRun, place |-> NoPlace, reason |-> "none"]

Included(o) == o.place # NoPlace

Outcomes == {"none", "matched", "reverted", "wrong_transfer", "not_established"}

TypeOK ==
    /\ blocks \in Seq(Blocks) /\ Len(blocks) <= MaxBlocks
    /\ chain \in Seq(DOMAIN blocks)
    /\ preconfirmed \in Executions \cup {NotRun}
    /\ wellFormed \in BOOLEAN
    /\ step \in {"receipt", "transaction", "block", "head", "sleeping", "ended"}
    /\ receipt \in Reports /\ transaction \in Reports /\ sealedBlock \in SealedBlocks
    /\ now \in 0 .. Horizon /\ spent \in 0 .. Horizon /\ begun \in 0 .. Horizon
    /\ observation \in Observations
    /\ outcome \in Outcomes

Init ==
    /\ blocks = <<>> /\ chain = <<>> /\ preconfirmed = NotRun
    /\ wellFormed \in BOOLEAN
    /\ step = "receipt"
    /\ receipt = NoReport /\ transaction = NoReport /\ sealedBlock = NoBlock
    /\ now = 0 /\ spent = 0 /\ begun = 0
    /\ observation = NoObservation
    /\ outcome = "none"

-----------------------------------------------------------------------------
(* The chain and the clock. *)

RanIn(view) == {n \in DOMAIN view : blocks[view[n]].ran # NotRun}

\* The transaction runs, or runs again, in the block being built.
Preconfirm ==
    /\ RanIn(chain) = {}
    /\ preconfirmed' \in Executions \ {preconfirmed}
    /\ UNCHANGED <<blocks, chain, wellFormed, step, queries, now, spent, begun,
                   observation, outcome>>

\* A block is sealed, with the transaction, perhaps run otherwise, or without.
Seal ==
    /\ Len(blocks) < MaxBlocks
    /\ \E ran \in Executions \cup {NotRun} :
         /\ RanIn(chain) # {} => ran = NotRun
         /\ blocks' = Append(blocks, [number |-> Len(chain) + 1, ran |-> ran])
    /\ chain' = Append(chain, Len(blocks) + 1)
    /\ preconfirmed' = NotRun
    /\ UNCHANGED <<wellFormed, step, queries, now, spent, begun, observation, outcome>>

\* The tip of the chain gives way; what is sealed next is another block.
Reorganize ==
    /\ chain # <<>>
    /\ Len(blocks) < MaxBlocks
    /\ chain' = SubSeq(chain, 1, Len(chain) - 1)
    /\ UNCHANGED <<blocks, preconfirmed, wellFormed, step, queries, now, spent, begun,
                   observation, outcome>>

Asking == {"receipt", "transaction", "block", "head"}

\* Time passes, while a query or a sleep may still take longer.
Tick ==
    /\ now < Horizon
    /\ \/ step \in Asking /\ spent < Timeout
       \/ step = "sleeping" /\ spent < Poll + Oversleep
    /\ now' = now + 1
    /\ spent' = spent + 1
    /\ UNCHANGED <<world, step, queries, begun, observation, outcome>>

-----------------------------------------------------------------------------
(* What a replica may report, from the prefix of the chain it knows.       *)

Views == {SubSeq(chain, 1, n) : n \in {k \in 0 .. Len(chain) : k + MaxLag >= Len(chain)}}

PlaceIn(view, n) == [number |-> n, hash |-> view[n]]

\* A transaction that is not sealed yet is reported without a placement, as
\* part of the block being built, or as part of the block that one builds on.
UnsealedPlaces(view) ==
    {NoPlace, [number |-> Len(view) + 1, hash |-> 0]}
        \cup {PlaceIn(view, n) : n \in {Len(view)} \ {0}}

ReceiptReports(view) ==
    IF RanIn(view) # {}
    THEN {[known |-> TRUE, ran |-> blocks[view[n]].ran, place |-> PlaceIn(view, n)]
              : n \in RanIn(view)}
    ELSE {NoReport} \cup
         {[known |-> TRUE, ran |-> preconfirmed, place |-> p]
              : p \in IF preconfirmed = NotRun THEN {} ELSE UnsealedPlaces(view)}

TransactionReports(view) ==
    IF RanIn(view) # {}
    THEN {[known |-> TRUE, ran |-> NotRun, place |-> PlaceIn(view, n)] : n \in RanIn(view)}
    ELSE {NoReport} \cup
         {[known |-> TRUE, ran |-> NotRun, place |-> p]
              : p \in IF preconfirmed = NotRun THEN {NoPlace} ELSE UnsealedPlaces(view)}

BlockReport(view, n) ==
    IF n \in DOMAIN view
    THEN [place |-> PlaceIn(view, n), lists |-> blocks[view[n]].ran # NotRun]
    ELSE NoBlock

-----------------------------------------------------------------------------
(* How a report is written, and how it is admitted (admitReceiptResult,    *)
(* admitTransactionResult, admitSealedBlockResult).                        *)

\* What a log tells: of the expected transfer, of another one on the token
\* contract, or of anything else.
Events == {"expected", "other", "foreign"}

\* The transfer recorded: the expected one among those on the contract, or else
\* the first of them.
TransferIn(events) ==
    IF "expected" \in events THEN "expected" ELSE IF "other" \in events THEN "other" ELSE "none"

\* The results that tell of a report.  A field may be misshapen.  Of the logs,
\* some may be spoiled: misshapen, marked removed, beyond the number that is
\* read, or at odds with the transaction or the placement of their receipt.
ReceiptResults(report) ==
    IF ~ report.known THEN {Null, Misshapen}
    ELSE {[type |-> "receipt", fields |-> f, status |-> report.ran.status, place |-> report.place,
           logs |-> l, spoiled |-> s] :
             f \in BOOLEAN,
             l \in {e \in SUBSET Events : TransferIn(e) = report.ran.transfer},
             s \in SUBSET Events}

\* Mutant of AdmittedLogs: a spoiled log is skipped.
LogsSkipped(result) == TRUE

\* The receipt is refused whole for one log that is spoiled.
AdmittedLogs(result) == result.spoiled \cap result.logs = {}

AdmissibleReceipt(result) ==
    \/ result = Null
    \/ result.type = "receipt" /\ result.fields /\ AdmittedLogs(result)

\* `null' is the answer that there is no receipt.
ReceiptOf(result) ==
    IF result = Null THEN NoReport
    ELSE [known |-> TRUE, place |-> result.place,
          ran |-> [status |-> result.status, transfer |-> TransferIn(result.logs \ result.spoiled)]]

\* An entry of a block's list may be spoiled: the transaction's, or another.
BlockResults(report) ==
    IF report = NoBlock THEN {Null, Misshapen}
    ELSE {[type |-> "block", fields |-> f, place |-> report.place,
           lists |-> report.lists /\ s # "own", spoiled |-> s] :
             f \in BOOLEAN, s \in {"no_entry", "own", "another"}}

AdmissibleBlock(result) ==
    \/ result = Null
    \/ result.type = "block" /\ result.fields /\ result.spoiled = "no_entry"

BlockOf(result) ==
    IF result = Null THEN NoBlock ELSE [place |-> result.place, lists |-> result.lists]

-----------------------------------------------------------------------------
(* The poll: what an observation is taken to mean. *)

\* Mutants of OutcomeOf: a reverted execution is not looked at; the sleep is not
\* counted.
RetriedReverts(o, time) ==
    IF Included(o)
    THEN IF o.ran.transfer = "expected" THEN "matched" ELSE "wrong_transfer"
    ELSE IF o.state = "unavailable" /\ o.reason = "terminal" THEN "not_established"
    ELSE IF time + Poll > Deadline THEN "not_established"
    ELSE "none"

SleepsPastDeadline(o, time) ==
    IF o.ran.status = "reverted" THEN "reverted"
    ELSE IF Included(o)
    THEN IF o.ran.transfer = "expected" THEN "matched" ELSE "wrong_transfer"
    ELSE IF o.state = "unavailable" /\ o.reason = "terminal" THEN "not_established"
    ELSE IF time > Deadline THEN "not_established"
    ELSE "none"

\* "none": another observation is to be made after a sleep.
OutcomeOf(o, time) ==
    IF o.ran.status = "reverted" THEN "reverted"
    ELSE IF Included(o)
    THEN IF o.ran.transfer = "expected" THEN "matched" ELSE "wrong_transfer"
    ELSE IF o.state = "unavailable" /\ o.reason = "terminal" THEN "not_established"
    ELSE IF time + Poll > Deadline THEN "not_established"
    ELSE "none"

\* The observation is made: the poll ends, or sleeps.
Observed(o) ==
    /\ observation' = o
    /\ outcome' = OutcomeOf(o, now)
    /\ step' = IF OutcomeOf(o, now) = "none" THEN "sleeping" ELSE "ended"
    /\ spent' = 0
    /\ UNCHANGED <<world, now, begun>>

\* Mutant of Wake: the deadline is looked at again after the sleep, and a poll
\* that has no time for another sleep is left without an outcome.
WakeWithTimeLeft ==
    /\ step = "sleeping"
    /\ spent >= Poll
    /\ now + Poll <= Deadline
    /\ step' = "receipt"
    /\ receipt' = NoReport /\ transaction' = NoReport /\ sealedBlock' = NoBlock
    /\ spent' = 0
    /\ begun' = now
    /\ UNCHANGED <<world, now, observation, outcome>>

\* The sleep is over: the next observation begins with nothing known.
Wake ==
    /\ step = "sleeping"
    /\ spent >= Poll
    /\ step' = "receipt"
    /\ receipt' = NoReport /\ transaction' = NoReport /\ sealedBlock' = NoBlock
    /\ spent' = 0
    /\ begun' = now
    /\ UNCHANGED <<world, now, observation, outcome>>

-----------------------------------------------------------------------------
(* One observation. *)

Unavailable(reason) == [NoObservation EXCEPT !.state = "unavailable", !.reason = reason]

\* No endpoint is asked about a reference that is not a hash.
RefuseReference ==
    /\ step = "receipt" /\ ~ wellFormed
    /\ Observed(Unavailable("terminal"))
    /\ UNCHANGED queries

\* Unreachable and temporarily unavailable may pass; everything else is for good.
ReasonFor(e) == IF FailureOf(e) \in Retryable THEN "retryable" ELSE "terminal"

\* The query for the receipt or for the transaction brings no result.
FirstQueriesFail ==
    /\ step \in {"receipt", "transaction"} /\ wellFormed
    /\ \E e \in Exchanges({Null}) : ~ IsResult(e) /\ Observed(Unavailable(ReasonFor(e)))
    /\ UNCHANGED queries

\* The receipt is admitted as it is written, or the response is unusable.
ReceiptAnswered ==
    /\ step = "receipt" /\ wellFormed
    /\ \E view \in Views : \E report \in ReceiptReports(view) : \E result \in ReceiptResults(report) :
         IF AdmissibleReceipt(result)
         THEN /\ receipt' = ReceiptOf(result)
              /\ step' = "transaction"
              /\ spent' = 0
              /\ UNCHANGED <<world, now, begun, observation, outcome>>
         ELSE /\ Observed(Unavailable("terminal"))
              /\ UNCHANGED receipt
    /\ UNCHANGED <<transaction, sealedBlock>>

\* Found, with the receipt's facts and no inclusion.
Found(r) == [state |-> "found", ran |-> r.ran, place |-> NoPlace, reason |-> "none"]

PlacementsAgree(r, t) == r.place # NoPlace /\ t.known /\ t.place = r.place

\* A transaction object that is not admitted is as FirstQueriesFail has it.
TransactionAnswered ==
    /\ step = "transaction"
    /\ \E view \in Views : transaction' \in TransactionReports(view)
    /\ IF receipt.known /\ PlacementsAgree(receipt, transaction')
       THEN /\ step' = "block"
            /\ spent' = 0
            /\ UNCHANGED <<world, now, begun, observation, outcome>>
       ELSE Observed(IF ~ receipt.known /\ ~ transaction'.known
                     THEN [NoObservation EXCEPT !.state = "not_found"]
                     ELSE Found(receipt))
    /\ UNCHANGED <<receipt, sealedBlock>>

\* The block is admitted as it is written, or nothing is known of its inclusion.
BlockAnswered ==
    /\ step = "block"
    /\ \E view \in Views : \E result \in BlockResults(BlockReport(view, receipt.place.number)) :
         IF AdmissibleBlock(result)
         THEN /\ sealedBlock' = BlockOf(result)
              /\ step' = "head"
              /\ spent' = 0
              /\ UNCHANGED <<world, now, begun, observation, outcome>>
         ELSE /\ Observed(Found(receipt))
              /\ UNCHANGED sealedBlock
    /\ UNCHANGED <<receipt, transaction>>

\* Mutants of Agrees: the hash is not compared; the list is not consulted.
AgreesOnNumber(block, r, head) ==
    block.place.number = r.place.number /\ block.lists /\ r.place.number <= head

AgreesUnlisted(block, r, head) == block.place = r.place /\ r.place.number <= head

\* The sealed block carries the reported placement and lists the transaction.
Agrees(block, r, head) == block.place = r.place /\ block.lists /\ r.place.number <= head

HeadAnswered ==
    /\ step = "head"
    /\ \E view \in Views :
         Observed(IF Agrees(sealedBlock, receipt, Len(view))
                  THEN [Found(receipt) EXCEPT !.place = receipt.place]
                  ELSE Found(receipt))
    /\ UNCHANGED queries

\* The sealed block or the head cannot be queried, for whatever reason.
SecondQueriesFail ==
    /\ step \in {"block", "head"}
    /\ Observed(Found(receipt))
    /\ UNCHANGED queries

Observe ==
    \/ RefuseReference \/ FirstQueriesFail \/ ReceiptAnswered \/ TransactionAnswered
    \/ BlockAnswered \/ HeadAnswered \/ SecondQueriesFail \/ Wake

Next == Preconfirm \/ Seal \/ Reorganize \/ Tick \/ Observe

Spec == Init /\ [][Next]_vars

(* Time passes, and a query that is out of time is answered or fails.      *)
FairSpec == Spec /\ WF_vars(Tick) /\ WF_vars(Observe)

-----------------------------------------------------------------------------
(* Properties. *)

(* An inclusion names one block that was sealed and lists the transaction, *)
(* and the execution recorded with it is that block's: nothing of another  *)
(* view of the chain, or of a preconfirmation, is mixed in.                *)
InclusionNamesOneBlock ==
    Included(observation) =>
        /\ observation.place.hash \in DOMAIN blocks
        /\ LET b == blocks[observation.place.hash] IN
             b.number = observation.place.number /\ b.ran = observation.ran /\ b.ran # NotRun

(* A verdict on the transfer is given on an inclusion of a transaction     *)
(* that succeeded, and a failed execution is never called a wrong transfer.*)
OutcomeIsBacked ==
    outcome \in {"matched", "wrong_transfer"} =>
        /\ Included(observation) /\ observation.ran.status = "success"
        /\ outcome = "matched" <=> observation.ran.transfer = "expected"

(* No observation begins past the deadline, but for a timer that is late,  *)
(* and none is under way longer than its four queries may take.            *)
PollIsBounded ==
    /\ begun <= Deadline + Oversleep
    /\ step \in Asking => now <= begun + 4 * Timeout

(* The poll comes to an end, whatever the chain and the endpoint do.       *)
PollEnds == <>(outcome # "none")

=============================================================================
