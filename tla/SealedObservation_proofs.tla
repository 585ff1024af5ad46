----------------------- MODULE SealedObservation_proofs -----------------------
(***************************************************************************)
(* What is proved of SealedObservation for chains of any length, replicas  *)
(* that lag by any number of blocks and any timing: an inclusion names one *)
(* sealed block, and the verdict on the transfer rests on it.              *)
(***************************************************************************)
EXTENDS SealedObservation, TLAPS

\* Blocks and what is reported of them, for chains of any length.
AnyPlacement == [number : Nat, hash : Nat]
AnyBlock == [number : Nat, ran : Executions \cup {NotRun}]
AnyReport == [known : BOOLEAN, ran : Executions \cup {NotRun}, place : AnyPlacement]
AnySealedBlock == [place : AnyPlacement, lists : BOOLEAN]

\* The block is one that was sealed, at the number it was sealed at.
WasSealed(place) ==
    place.hash \in DOMAIN blocks /\ blocks[place.hash].number = place.number

\* The chain is made of sealed blocks, each at its number.
ChainTrail ==
    /\ blocks \in Seq(AnyBlock)
    /\ chain \in Seq(Nat)
    /\ \A n \in DOMAIN chain : chain[n] \in DOMAIN blocks /\ blocks[chain[n]].number = n

\* A receipt placed in a sealed block that lists the transaction tells how it
\* ran in that block.
ReceiptTrail ==
    /\ receipt \in AnyReport
    /\ receipt.place.hash # 0 =>
          /\ WasSealed(receipt.place)
          /\ blocks[receipt.place.hash].ran \in {NotRun, receipt.ran}

BlockTrail ==
    /\ sealedBlock \in AnySealedBlock
    /\ sealedBlock.place.hash # 0 =>
          /\ WasSealed(sealedBlock.place)
          /\ sealedBlock.lists <=> blocks[sealedBlock.place.hash].ran # NotRun
    /\ sealedBlock.lists => sealedBlock.place.hash # 0

LEMMA RanTypes ==
    /\ NotRun \notin Executions
    /\ \A e \in Executions : e.status \in {"success", "reverted"}
    /\ NotRun.status = "none"
  BY DEF Executions, NotRun

LEMMA ElementOf == ASSUME NEW S, NEW s \in Seq(S)  PROVE \A n \in DOMAIN s : s[n] \in S
  OBVIOUS

LEMMA NoPlaceType == NoPlace \in [number : Nat, hash : Nat] /\ NoPlace.hash = 0 /\ NoPlace.number = 0
  BY DEF NoPlace

\* What a replica knows is a prefix of the chain.
LEMMA ViewTrail ==
    ASSUME ChainTrail, NEW view \in Views
    PROVE  /\ view \in Seq(Nat)
           /\ \A n \in DOMAIN view :
                 /\ view[n] \in DOMAIN blocks /\ view[n] # 0 /\ view[n] \in Nat
                 /\ n \in Nat /\ blocks[view[n]].number = n
           /\ Len(view) \in Nat
<1>1. PICK k \in 0 .. Len(chain) : view = SubSeq(chain, 1, k)
  BY DEF Views
<1>2. /\ view \in Seq(Nat) /\ Len(view) = k
      /\ \A n \in 1 .. k : view[n] = chain[n]
  BY <1>1 DEF ChainTrail
<1>3. \A n \in 1 .. k : n \in DOMAIN chain
  BY DEF ChainTrail
<1>4. \A n \in 1 .. k : chain[n] \in DOMAIN blocks /\ blocks[chain[n]].number = n
  BY <1>3 DEF ChainTrail
<1>5. \A h \in DOMAIN blocks : h \in Nat /\ h # 0
  BY DEF ChainTrail
<1>6. DOMAIN view = 1 .. k /\ k \in Nat
  BY <1>2 DEF ChainTrail
<1>7. ASSUME NEW n \in DOMAIN view
      PROVE  /\ view[n] \in DOMAIN blocks /\ view[n] # 0 /\ view[n] \in Nat
             /\ n \in Nat /\ blocks[view[n]].number = n
  <2>1. n \in 1 .. k /\ n \in Nat
    BY <1>6
  <2>2. view[n] = chain[n]
    BY <2>1, <1>2
  <2>3. view[n] \in DOMAIN blocks /\ blocks[view[n]].number = n
    BY <2>1, <2>2, <1>4
  <2> QED  BY <2>1, <2>3, <1>5
<1> QED  BY <1>2, <1>6, <1>7

\* Every report of a receipt is one ReceiptTrail allows.
LEMMA ReceiptReported ==
    ASSUME ChainTrail, preconfirmed \in Executions \cup {NotRun}, NEW view \in Views,
           NEW r \in ReceiptReports(view)
    PROVE  /\ r \in AnyReport
           /\ r = NoReport \/ (r.known /\ r.ran \in Executions)
           /\ r.place.hash # 0 =>
                 WasSealed(r.place) /\ blocks[r.place.hash].ran \in {NotRun, r.ran}
<1>1. CASE RanIn(view) # {}
  <2>1. PICK n \in RanIn(view) :
          r = [known |-> TRUE, ran |-> blocks[view[n]].ran, place |-> PlaceIn(view, n)]
    BY <1>1 DEF ReceiptReports
  <2>2. n \in DOMAIN view /\ blocks[view[n]].ran # NotRun
    BY DEF RanIn
  <2>3. blocks[view[n]].ran \in Executions \cup {NotRun}
    <3>1. view[n] \in DOMAIN blocks
      BY <2>2, ViewTrail
    <3>2. \A h \in DOMAIN blocks : blocks[h].ran \in Executions \cup {NotRun}
      <4>1. \A h \in DOMAIN blocks : blocks[h] \in AnyBlock
        BY ElementOf DEF ChainTrail
      <4> QED  BY <4>1 DEF AnyBlock
    <3> QED  BY <3>1, <3>2
  <2>4. r.known /\ r.ran \in Executions
    BY <2>1, <2>2, <2>3
  <2>5. r.place = [number |-> n, hash |-> view[n]] /\ r.ran = blocks[view[n]].ran
    BY <2>1 DEF PlaceIn
  <2>6. WasSealed(r.place) /\ blocks[r.place.hash].ran = r.ran
    BY <2>2, <2>5, ViewTrail DEF WasSealed
  <2>7. n \in Nat /\ view[n] \in Nat
    BY <2>2, ViewTrail
  <2>8. r.place \in AnyPlacement
    BY <2>5, <2>7 DEF AnyPlacement
  <2>9. r \in AnyReport
    BY <2>1, <2>3, <2>5, <2>8 DEF AnyReport
  <2> QED  BY <2>4, <2>6, <2>9
<1>2. CASE RanIn(view) = {} /\ r = NoReport
  BY <1>2, NoPlaceType DEF AnyReport, AnyPlacement, NoReport
<1>3. CASE RanIn(view) = {} /\ r # NoReport
  <2>1. /\ preconfirmed \in Executions
        /\ \E q \in UnsealedPlaces(view) :
             r = [known |-> TRUE, ran |-> preconfirmed, place |-> q]
    BY <1>3 DEF ReceiptReports
  <2> PICK p \in UnsealedPlaces(view) : r = [known |-> TRUE, ran |-> preconfirmed, place |-> p]
    BY <2>1
  <2>2. CASE p = NoPlace \/ p = [number |-> Len(view) + 1, hash |-> 0]
    BY <2>1, <2>2, NoPlaceType, ViewTrail DEF AnyReport, AnyPlacement
  <2>3. CASE Len(view) # 0 /\ p = PlaceIn(view, Len(view))
    <3>1. Len(view) \in DOMAIN view
      BY <2>3, ViewTrail
    <3>2. blocks[view[Len(view)]].ran = NotRun
      BY <1>3, <3>1 DEF RanIn
    <3> QED  BY <2>1, <2>3, <3>1, <3>2, ViewTrail DEF AnyReport, AnyPlacement, PlaceIn, WasSealed
  <2> QED  BY <2>1, <2>2, <2>3 DEF UnsealedPlaces
<1> QED  BY <1>1, <1>2, <1>3

\* A receipt that is admitted is the one reported: nothing is lost with a log.
LEMMA ReceiptAdmitted ==
    ASSUME NEW report, report \in AnyReport, report = NoReport \/ report.known,
           report.known => report.ran \in Executions,
           NEW result \in ReceiptResults(report), AdmissibleReceipt(result)
    PROVE  ReceiptOf(result) = report
<1>1. CASE ~ report.known
  <2>1. report = NoReport
    BY <1>1
  <2>2. result = Null
    BY <1>1 DEF ReceiptResults, AdmissibleReceipt, Misshapen
  <2> QED  BY <2>1, <2>2 DEF ReceiptOf
<1>2. CASE report.known
  <2>1. PICK f \in BOOLEAN, l \in {e \in SUBSET Events : TransferIn(e) = report.ran.transfer},
             s \in SUBSET Events :
          result = [type |-> "receipt", fields |-> f, status |-> report.ran.status,
                    place |-> report.place, logs |-> l, spoiled |-> s]
    BY <1>2 DEF ReceiptResults
  <2>2. result # Null
    BY <2>1 DEF Null
  <2>3. l \cap s = {}
    BY <2>1, <2>2 DEF AdmissibleReceipt, AdmittedLogs
  <2>4. result.logs \ result.spoiled = l
    BY <2>1, <2>3
  <2>5. ReceiptOf(result) = [known |-> TRUE, place |-> report.place,
                             ran |-> [status |-> report.ran.status, transfer |-> report.ran.transfer]]
    BY <2>1, <2>2, <2>4 DEF ReceiptOf
  <2>6. report.ran = [status |-> report.ran.status, transfer |-> report.ran.transfer]
    BY <1>2 DEF Executions
  <2> QED  BY <1>2, <2>5, <2>6 DEF AnyReport
<1> QED  BY <1>1, <1>2

\* So is a block: no list with an entry that is spoiled is consulted.
LEMMA BlockAdmitted ==
    ASSUME NEW report, report \in AnySealedBlock,
           NEW result \in BlockResults(report), AdmissibleBlock(result)
    PROVE  BlockOf(result) = report
<1>1. CASE report = NoBlock
  BY <1>1 DEF BlockResults, AdmissibleBlock, BlockOf, Null, Misshapen
<1>2. CASE report # NoBlock
  <2>1. PICK f \in BOOLEAN, s \in {"no_entry", "own", "another"} :
          result = [type |-> "block", fields |-> f, place |-> report.place,
                    lists |-> report.lists /\ s # "own", spoiled |-> s]
    BY <1>2 DEF BlockResults
  <2>2. result # Null
    BY <2>1 DEF Null
  <2>3. s = "no_entry"
    BY <2>1, <2>2 DEF AdmissibleBlock
  <2>4. BlockOf(result) = [place |-> report.place, lists |-> report.lists]
    BY <2>1, <2>2, <2>3 DEF BlockOf, AnySealedBlock
  <2> QED  BY <2>4 DEF AnySealedBlock
<1> QED  BY <1>1, <1>2

LEMMA BlockReported ==
    ASSUME ChainTrail, NEW view \in Views, NEW n, NEW b, b = BlockReport(view, n)
    PROVE  /\ b \in AnySealedBlock
           /\ b.place.hash # 0 =>
                 WasSealed(b.place) /\ (b.lists <=> blocks[b.place.hash].ran # NotRun)
           /\ b.lists => b.place.hash # 0
<1>1. CASE n \in DOMAIN view
  <2>1. b = [place |-> [number |-> n, hash |-> view[n]], lists |-> blocks[view[n]].ran # NotRun]
    BY <1>1 DEF BlockReport, PlaceIn
  <2>2. /\ view[n] \in DOMAIN blocks /\ view[n] # 0 /\ view[n] \in Nat
        /\ n \in Nat /\ blocks[view[n]].number = n
    BY <1>1, ViewTrail
  <2>3. WasSealed(b.place)
    BY <2>1, <2>2 DEF WasSealed
  <2>4. b \in AnySealedBlock
    BY <2>1, <2>2 DEF AnySealedBlock, AnyPlacement
  <2>5. b.place.hash = view[n] /\ b.place.hash # 0
    BY <2>1, <2>2
  <2>6. b.lists = (blocks[b.place.hash].ran # NotRun)
    <3>1. CASE blocks[view[n]].ran = NotRun
      BY <2>1, <3>1
    <3>2. CASE blocks[view[n]].ran # NotRun
      BY <2>1, <3>2
    <3> QED  BY <3>1, <3>2
  <2> QED  BY <2>3, <2>4, <2>5, <2>6
<1>2. CASE n \notin DOMAIN view
  BY <1>2, NoPlaceType DEF BlockReport, AnySealedBlock, AnyPlacement, NoBlock
<1> QED  BY <1>1, <1>2

\* Blocks are only ever added: what is known of one stays true.
LEMMA BlocksGrow ==
    ASSUME ChainTrail, [Next]_vars
    PROVE  /\ \A h \in DOMAIN blocks : h \in DOMAIN blocks' /\ blocks'[h] = blocks[h]
           /\ (observation' = observation /\ outcome' = outcome) \/ blocks' = blocks
<1>1. CASE blocks' = blocks
  BY <1>1
<1>2. CASE Seal
  BY <1>2 DEF Seal, ChainTrail
<1>3. CASE ~ Seal
  BY <1>3 DEF Next, vars, world, Preconfirm, Reorganize, Tick, Observe, RefuseReference,
              FirstQueriesFail, ReceiptAnswered, TransactionAnswered, BlockAnswered,
              HeadAnswered, SecondQueriesFail, Wake, Observed
<1> QED  BY <1>1, <1>2, <1>3

LEMMA ChainStep ==
    ASSUME ChainTrail, preconfirmed \in Executions \cup {NotRun}, [Next]_vars
    PROVE  ChainTrail' /\ preconfirmed' \in Executions \cup {NotRun}
<1>1. CASE UNCHANGED <<blocks, chain, preconfirmed>>
  BY <1>1 DEF ChainTrail
<1>2. CASE Preconfirm
  BY <1>2 DEF Preconfirm, ChainTrail
<1>3. CASE Seal
  <2>1. PICK ran \in Executions \cup {NotRun} :
          blocks' = Append(blocks, [number |-> Len(chain) + 1, ran |-> ran])
    BY <1>3 DEF Seal
  <2>2. chain' = Append(chain, Len(blocks) + 1) /\ preconfirmed' = NotRun
    BY <1>3 DEF Seal
  <2>3. blocks' \in Seq(AnyBlock)
    <3>1. [number |-> Len(chain) + 1, ran |-> ran] \in AnyBlock
      BY DEF ChainTrail, AnyBlock
    <3> QED  BY <2>1, <3>1 DEF ChainTrail
  <2>4. /\ chain' \in Seq(Nat)
        /\ DOMAIN chain' = 1 .. Len(chain) + 1
        /\ \A n \in DOMAIN chain : chain'[n] = chain[n]
        /\ chain'[Len(chain) + 1] = Len(blocks) + 1
    BY <2>2 DEF ChainTrail
  <2>5. /\ \A h \in DOMAIN blocks : h \in DOMAIN blocks' /\ blocks'[h] = blocks[h]
        /\ Len(blocks) + 1 \in DOMAIN blocks'
        /\ blocks'[Len(blocks) + 1].number = Len(chain) + 1
    BY <2>1 DEF ChainTrail
  <2>6. \A n \in DOMAIN chain' : n \in DOMAIN chain \/ n = Len(chain) + 1
    BY <2>4 DEF ChainTrail
  <2>7. ASSUME NEW n \in DOMAIN chain'
        PROVE  chain'[n] \in DOMAIN blocks' /\ blocks'[chain'[n]].number = n
    <3>1. CASE n \in DOMAIN chain
      BY <3>1, <2>4, <2>5 DEF ChainTrail
    <3>2. CASE n = Len(chain) + 1
      BY <3>2, <2>4, <2>5
    <3> QED  BY <3>1, <3>2, <2>6
  <2> QED  BY <2>2, <2>3, <2>4, <2>7 DEF ChainTrail
<1>4. CASE Reorganize
  <2>1. chain' = SubSeq(chain, 1, Len(chain) - 1) /\ UNCHANGED <<blocks, preconfirmed>>
    BY <1>4 DEF Reorganize
  <2>2. Len(chain) \in Nat \ {0}
    BY <1>4 DEF Reorganize, ChainTrail
  <2>3. /\ chain' \in Seq(Nat)
        /\ \A n \in DOMAIN chain' : n \in DOMAIN chain /\ chain'[n] = chain[n]
    BY <2>1, <2>2 DEF ChainTrail
  <2> QED  BY <2>1, <2>3 DEF ChainTrail
<1>5. CASE Tick \/ Observe \/ UNCHANGED vars
  <2>1. UNCHANGED <<blocks, chain, preconfirmed>>
    BY <1>5 DEF vars, world, Tick, Observe, RefuseReference, FirstQueriesFail, ReceiptAnswered,
                TransactionAnswered, BlockAnswered, HeadAnswered, SecondQueriesFail, Wake,
                Observed
  <2> QED  BY <2>1, <1>1
<1> QED  BY <1>2, <1>3, <1>4, <1>5 DEF Next

\* What is known of a receipt, and of a block, stays true while it is kept.
LEMMA ReceiptStep ==
    ASSUME ChainTrail, preconfirmed \in Executions \cup {NotRun}, ReceiptTrail, [Next]_vars
    PROVE  ReceiptTrail'
<1>1. CASE receipt' = receipt
  <2>1. \A h \in DOMAIN blocks : h \in DOMAIN blocks' /\ blocks'[h] = blocks[h]
    BY BlocksGrow
  <2> QED  BY <1>1, <2>1 DEF ReceiptTrail, WasSealed
<1>2. CASE ReceiptAnswered
  <2>1. PICK view \in Views : \E report \in ReceiptReports(view) :
          \E result \in ReceiptResults(report) :
            \/ receipt' = receipt
            \/ AdmissibleReceipt(result) /\ receipt' = ReceiptOf(result)
    BY <1>2 DEF ReceiptAnswered
  <2>2. PICK report \in ReceiptReports(view) : \E result \in ReceiptResults(report) :
            \/ receipt' = receipt
            \/ AdmissibleReceipt(result) /\ receipt' = ReceiptOf(result)
    BY <2>1
  <2>3. /\ report \in AnyReport /\ (report = NoReport \/ report.known)
        /\ report.known => report.ran \in Executions
    <3>1. report \in AnyReport /\ (report = NoReport \/ (report.known /\ report.ran \in Executions))
      BY ReceiptReported
    <3> QED  BY <3>1 DEF NoReport
  <2>4. receipt' = receipt \/ receipt' = report
    BY <2>2, <2>3, ReceiptAdmitted
  <2>5. blocks' = blocks
    BY <1>2 DEF ReceiptAnswered, Observed, world
  <2> QED  BY <2>4, <2>5, <1>1, ReceiptReported DEF ReceiptTrail, WasSealed
<1>3. CASE Wake
  <2>1. receipt' = NoReport
    BY <1>3 DEF Wake
  <2> QED  BY <2>1 DEF ReceiptTrail, NoReport, NoPlace, AnyReport, AnyPlacement
<1> QED  BY <1>1, <1>2, <1>3
         DEF Next, vars, queries, Preconfirm, Seal, Reorganize, Tick, Observe, RefuseReference,
             FirstQueriesFail, TransactionAnswered, BlockAnswered, HeadAnswered,
             SecondQueriesFail

LEMMA BlockStep ==
    ASSUME ChainTrail, BlockTrail, [Next]_vars
    PROVE  BlockTrail'
<1>1. CASE sealedBlock' = sealedBlock
  <2>1. \A h \in DOMAIN blocks : h \in DOMAIN blocks' /\ blocks'[h] = blocks[h]
    BY BlocksGrow
  <2> QED  BY <1>1, <2>1 DEF BlockTrail, WasSealed
<1>2. CASE BlockAnswered
  <2>1. PICK view \in Views : \E result \in BlockResults(BlockReport(view, receipt.place.number)) :
            \/ sealedBlock' = sealedBlock
            \/ AdmissibleBlock(result) /\ sealedBlock' = BlockOf(result)
    BY <1>2 DEF BlockAnswered
  <2>2. sealedBlock' = sealedBlock \/ sealedBlock' = BlockReport(view, receipt.place.number)
    BY <2>1, BlockReported, BlockAdmitted
  <2>3. blocks' = blocks
    BY <1>2 DEF BlockAnswered, Observed, world
  <2> QED  BY <2>2, <2>3, <1>1, BlockReported DEF BlockTrail, WasSealed
<1>3. CASE Wake
  <2>1. sealedBlock' = NoBlock
    BY <1>3 DEF Wake
  <2> QED  BY <2>1 DEF BlockTrail, NoBlock, NoPlace, AnySealedBlock, AnyPlacement
<1> QED  BY <1>1, <1>2, <1>3
         DEF Next, vars, queries, Preconfirm, Seal, Reorganize, Tick, Observe, RefuseReference,
             FirstQueriesFail, ReceiptAnswered, TransactionAnswered, HeadAnswered,
             SecondQueriesFail

\* An observation, as far as its inclusion is true of the sealed blocks.
InclusionIsTrue(o) ==
    Included(o) =>
        /\ o.place.hash \in DOMAIN blocks
        /\ blocks[o.place.hash].number = o.place.number
        /\ blocks[o.place.hash].ran = o.ran
        /\ o.ran \in Executions

LEMMA ObservedSound ==
    ASSUME NEW o, InclusionIsTrue(o), Observed(o)
    PROVE  InclusionNamesOneBlock' /\ OutcomeIsBacked'
<1>1. blocks' = blocks /\ observation' = o /\ outcome' = OutcomeOf(o, now)
  BY DEF Observed, world
<1>2. InclusionNamesOneBlock'
  BY <1>1, RanTypes DEF InclusionIsTrue, InclusionNamesOneBlock, Included
<1>3. outcome' \in {"matched", "wrong_transfer"} =>
        /\ Included(o) /\ o.ran.status # "reverted"
        /\ outcome' = "matched" <=> o.ran.transfer = "expected"
  BY <1>1 DEF OutcomeOf
<1>4. Included(o) => o.ran.status \in {"success", "reverted"}
  BY RanTypes DEF InclusionIsTrue
<1> QED  BY <1>1, <1>2, <1>3, <1>4 DEF OutcomeIsBacked, Included

\* An observation without an inclusion.
LEMMA Excluded ==
    /\ \A reason : ~ Included(Unavailable(reason))
    /\ \A r : ~ Included(Found(r))
    /\ ~ Included([NoObservation EXCEPT !.state = "not_found"])
  BY DEF Included, Unavailable, Found, NoObservation

LEMMA ObservationStep ==
    ASSUME ChainTrail, ReceiptTrail, BlockTrail, InclusionNamesOneBlock, OutcomeIsBacked,
           [Next]_vars
    PROVE  InclusionNamesOneBlock' /\ OutcomeIsBacked'
<1>1. CASE observation' = observation /\ outcome' = outcome
  <2>1. \A h \in DOMAIN blocks : h \in DOMAIN blocks' /\ blocks'[h] = blocks[h]
    BY BlocksGrow
  <2> QED  BY <1>1, <2>1 DEF InclusionNamesOneBlock, OutcomeIsBacked, Included
<1>2. ASSUME NEW o, ~ Included(o), Observed(o)
      PROVE  InclusionNamesOneBlock' /\ OutcomeIsBacked'
  BY <1>2, ObservedSound DEF InclusionIsTrue
<1>3. CASE RefuseReference
  BY <1>3, <1>2, Excluded DEF RefuseReference
<1>4. CASE FirstQueriesFail
  BY <1>4, <1>2, Excluded DEF FirstQueriesFail
<1>5. CASE TransactionAnswered
  <2>1. \/ observation' = observation /\ outcome' = outcome
        \/ Observed([NoObservation EXCEPT !.state = "not_found"])
        \/ Observed(Found(receipt))
    BY <1>5 DEF TransactionAnswered
  <2> QED  BY <2>1, <1>1, <1>2, Excluded
<1>6. CASE SecondQueriesFail
  BY <1>6, <1>2, Excluded DEF SecondQueriesFail
<1>7. CASE HeadAnswered
  <2>1. PICK view \in Views :
          Observed(IF Agrees(sealedBlock, receipt, Len(view))
                   THEN [Found(receipt) EXCEPT !.place = receipt.place]
                   ELSE Found(receipt))
    BY <1>7 DEF HeadAnswered
  <2>2. CASE ~ Agrees(sealedBlock, receipt, Len(view))
    BY <2>1, <2>2, <1>2, Excluded
  <2>3. CASE Agrees(sealedBlock, receipt, Len(view))
    <3> DEFINE o == [Found(receipt) EXCEPT !.place = receipt.place]
    <3>1. o.place = receipt.place /\ o.ran = receipt.ran
      BY DEF Found
    <3>2. receipt.place.hash # 0 /\ sealedBlock.lists /\ sealedBlock.place = receipt.place
      BY <2>3 DEF Agrees, BlockTrail
    <3>3. WasSealed(receipt.place) /\ blocks[receipt.place.hash].ran # NotRun
      BY <3>2 DEF BlockTrail
    <3>4. blocks[receipt.place.hash].ran = receipt.ran /\ receipt.ran \in Executions
      BY <3>2, <3>3 DEF ReceiptTrail, AnyReport
    <3>5. InclusionIsTrue(o)
      BY <3>1, <3>3, <3>4 DEF InclusionIsTrue, WasSealed
    <3> HIDE DEF o
    <3> QED  BY <2>1, <2>3, <3>5, ObservedSound DEF o
  <2> QED  BY <2>2, <2>3
<1>8. CASE ReceiptAnswered
  <2>1. \/ observation' = observation /\ outcome' = outcome
        \/ Observed(Unavailable("terminal"))
    BY <1>8 DEF ReceiptAnswered
  <2> QED  BY <2>1, <1>1, <1>2, Excluded
<1>9. CASE BlockAnswered
  <2>1. \/ observation' = observation /\ outcome' = outcome
        \/ Observed(Found(receipt))
    BY <1>9 DEF BlockAnswered
  <2> QED  BY <2>1, <1>1, <1>2, Excluded
<1>10. CASE Preconfirm \/ Seal \/ Reorganize \/ Tick \/ Wake \/ UNCHANGED vars
  <2>1. observation' = observation /\ outcome' = outcome
    BY <1>10 DEF Preconfirm, Seal, Reorganize, Tick, Wake, vars
  <2> QED  BY <2>1, <1>1
<1> QED  BY <1>3, <1>4, <1>5, <1>6, <1>7, <1>8, <1>9, <1>10 DEF Next, Observe

\* The invariant the two properties rest on.
ObservationInv ==
    /\ ChainTrail /\ preconfirmed \in Executions \cup {NotRun}
    /\ ReceiptTrail
    /\ BlockTrail
    /\ InclusionNamesOneBlock
    /\ OutcomeIsBacked

\* The chain only holds blocks that were sealed, and what the observer was told
\* of the receipt and of the block is true of one, at every step.
THEOREM ObservationInvariant == Spec => []ObservationInv
<1>1. Init => ObservationInv
  <2> SUFFICES ASSUME Init PROVE ObservationInv
    OBVIOUS
  <2>1. ChainTrail /\ preconfirmed \in Executions \cup {NotRun}
    BY DEF Init, ChainTrail
  <2>2. ReceiptTrail /\ BlockTrail
    BY DEF Init, ReceiptTrail, BlockTrail, NoReport, NoBlock, NoPlace, AnyReport,
           AnySealedBlock, AnyPlacement
  <2>3. InclusionNamesOneBlock /\ OutcomeIsBacked
    BY DEF Init, InclusionNamesOneBlock, OutcomeIsBacked, Included, NoObservation
  <2> QED  BY <2>1, <2>2, <2>3 DEF ObservationInv
<1>2. ObservationInv /\ [Next]_vars => ObservationInv'
  BY ChainStep, ReceiptStep, BlockStep, ObservationStep DEF ObservationInv
<1> QED  BY <1>1, <1>2, PTL DEF Spec

\* An inclusion never mixes two views of the chain, however far replicas lag.
THEOREM InclusionNamesOneBlockAlways == Spec => []InclusionNamesOneBlock
<1>1. ObservationInv => InclusionNamesOneBlock
  BY DEF ObservationInv
<1> QED  BY <1>1, ObservationInvariant, PTL

\* A transfer is judged only by the events of a sealed, successful execution.
THEOREM OutcomeIsBackedAlways == Spec => []OutcomeIsBacked
<1>1. ObservationInv => OutcomeIsBacked
  BY DEF ObservationInv
<1> QED  BY <1>1, ObservationInvariant, PTL

\* How long ago each query and each sleep began.
PollClock ==
    /\ now \in Nat /\ spent \in Nat /\ begun \in Nat
    /\ begun <= Deadline + Oversleep
    /\ step \in Asking => spent <= Timeout
    /\ step = "receipt" => now <= begun + spent
    /\ step = "transaction" => now <= begun + Timeout + spent
    /\ step = "block" => now <= begun + 2 * Timeout + spent
    /\ step = "head" => now <= begun + 3 * Timeout + spent
    /\ step = "sleeping" => spent <= Poll + Oversleep /\ now + Poll <= Deadline + spent

LEMMA ObservedClock ==
    ASSUME PollClock, NEW o, Observed(o)
    PROVE  PollClock'
<1>1. now' = now /\ begun' = begun /\ spent' = 0
  BY DEF Observed
<1>2. CASE step' = "ended"
  BY <1>1, <1>2 DEF PollClock, Asking
<1>3. CASE step' = "sleeping"
  <2>1. ~ (now + Poll > Deadline)
    BY <1>3 DEF Observed, OutcomeOf
  <2>2. now + Poll <= Deadline
    BY <2>1, TimeAssumption DEF PollClock
  <2> QED  BY <1>1, <1>3, <2>2, TimeAssumption DEF PollClock, Asking
<1> QED  BY <1>2, <1>3 DEF Observed

LEMMA ClockStep ==
    ASSUME PollClock, [Next]_vars
    PROVE  PollClock'
<1>1. CASE Preconfirm \/ Seal \/ Reorganize \/ UNCHANGED vars
  <2>1. UNCHANGED <<now, spent, begun, step>>
    BY <1>1 DEF Preconfirm, Seal, Reorganize, vars
  <2> QED  BY <2>1 DEF PollClock
<1>2. CASE Tick
  BY <1>2, TimeAssumption DEF Tick, PollClock, Asking
<1>3. CASE RefuseReference \/ FirstQueriesFail \/ HeadAnswered \/ SecondQueriesFail
  <2>1. PICK o : Observed(o)
    BY <1>3 DEF RefuseReference, FirstQueriesFail, HeadAnswered, SecondQueriesFail
  <2> QED  BY <2>1, ObservedClock
<1>4. CASE ReceiptAnswered
  <2>1. CASE \E o : Observed(o)
    BY <2>1, ObservedClock
  <2>2. CASE ~ \E o : Observed(o)
    <3>1. step = "receipt" /\ step' = "transaction" /\ spent' = 0 /\ UNCHANGED <<now, begun>>
      BY <1>4, <2>2 DEF ReceiptAnswered
    <3> QED  BY <3>1, TimeAssumption DEF PollClock, Asking
  <2> QED  BY <2>1, <2>2
<1>5. CASE TransactionAnswered
  <2>1. CASE \E o : Observed(o)
    BY <2>1, ObservedClock
  <2>2. CASE ~ \E o : Observed(o)
    <3>1. step = "transaction" /\ step' = "block" /\ spent' = 0 /\ UNCHANGED <<now, begun>>
      BY <1>5, <2>2 DEF TransactionAnswered
    <3> QED  BY <3>1, TimeAssumption DEF PollClock, Asking
  <2> QED  BY <2>1, <2>2
<1>6. CASE BlockAnswered
  <2>1. CASE \E o : Observed(o)
    BY <2>1, ObservedClock
  <2>2. CASE ~ \E o : Observed(o)
    <3>1. step = "block" /\ step' = "head" /\ spent' = 0 /\ UNCHANGED <<now, begun>>
      BY <1>6, <2>2 DEF BlockAnswered
    <3> QED  BY <3>1, TimeAssumption DEF PollClock, Asking
  <2> QED  BY <2>1, <2>2
<1>7. CASE Wake
  BY <1>7, TimeAssumption DEF Wake, PollClock, Asking
<1> QED  BY <1>1, <1>2, <1>3, <1>4, <1>5, <1>6, <1>7 DEF Next, Observe

\* The deadline, a late timer and four query timeouts bound the poll.
THEOREM PollIsBoundedAlways == Spec => []PollIsBounded
<1>1. Init => PollClock
  BY TimeAssumption DEF Init, PollClock, Asking
<1>2. PollClock /\ [Next]_vars => PollClock'
  BY ClockStep
<1>3. PollClock => PollIsBounded
  BY TimeAssumption DEF PollClock, PollIsBounded, Asking
<1> QED  BY <1>1, <1>2, <1>3, PTL DEF Spec
=============================================================================
