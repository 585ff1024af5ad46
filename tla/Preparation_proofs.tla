--------------------------- MODULE Preparation_proofs ---------------------------
(***************************************************************************)
(* What is proved of Preparation for any number of preparing and live      *)
(* processes, issuers, funds and edits of the key files.                   *)
(***************************************************************************)
EXTENDS Preparation, TLAPS

Records == [pc : Places, clean : BOOLEAN, payTo : Preparers \cup {Elsewhere, None},
            issuer : Issuers \cup {None}, payer : Preparers \cup {None}, seen : Nat,
            edits : Nat, signer : Preparers \cup {None}, moved : BOOLEAN]

PayerFiles == [state : {"absent", "empty", "damaged", "complete"}, key : Preparers \cup {None}]
IssuerFiles == [state : {"absent", "empty", "complete"}, key : Lives \cup {None},
                issuer : Issuers \cup {None}]

\* Where the payer is known, and where a process has come to its own issuer key.
Knowing == Checking \cup Ready \cup Signing
Issuing == {"fill_issuer", "payer_again", "ended"} \cup Signing

(***************************************************************************)
(* The invariant again, by what a record q of the process r must satisfy   *)
(* and by what must hold of the files, the accounts and the claims.        *)
(***************************************************************************)
Writes(r, q) ==
    /\ q.pc = "fill_payer" => r \in Preparers /\ payerFile = Empty(r)
    /\ q.pc = "create_payer" => r \in Preparers
    /\ q.pc = "fill_issuer" => issuerFile = [state |-> "empty", key |-> r, issuer |-> q.issuer]

Claimed(r) == issuerFile.key = r \/ \E c \in claims : c.key = r

Claims(r, q) ==
    /\ r \in Lives /\ Claimed(r) => q.pc \in Issuing
    /\ r \in Lives /\ q.pc = "fill_issuer" => \A c \in claims : c.key # r

KnowsPayer(q) ==
    q.pc \in Knowing =>
        /\ q.payer \in Preparers /\ Kept(q.payer)
        /\ q.clean => /\ q.edits <= edits
                      /\ q.edits = edits => payerFile = [state |-> "complete", key |-> q.payer]

Covered(q) ==
    sent[q.payer] >= q.seen /\ (funds[q.payer] >= MinUsdc \/ sent[q.payer] > q.seen)

Held(r, q) ==
    /\ q.pc \in Ready \cup Signing => q.clean
    /\ q.clean => r \in Lives /\ q.payTo # None /\ q.issuer # None
    /\ q.clean /\ q.pc \in Knowing =>
          /\ q.payTo # q.payer
          /\ q.pc \notin {"chain_id", "balance"} => Covered(q)

Signer(q) == q.pc \in Signing => q.signer \in Preparers /\ (q.moved \/ q.signer = q.payer)

Explained(r, q) ==
    r \in Lives /\ q.pc = "uncovered" /\ ~ q.moved => sent[q.signer] > q.seen

Process(r, q) ==
    /\ q \in Records
    /\ Writes(r, q) /\ Claims(r, q) /\ KnowsPayer(q) /\ Held(r, q) /\ Signer(q) /\ Explained(r, q)

Shared ==
    /\ payerFile \in PayerFiles /\ issuerFile \in IssuerFiles
    /\ aside \subseteq Preparers /\ edits \in Nat
    /\ funds \in [Preparers -> Nat] /\ sent \in [Preparers -> Nat] /\ faucet \in Nat
    /\ announced \subseteq Preparers /\ claims \subseteq [key : Lives, issuer : Issuers]
    /\ payerFile.state # "absent" => payerFile.key # None
    /\ issuerFile.state # "absent" => issuerFile.key \in Lives /\ issuerFile.issuer \in Issuers
    /\ \A c \in claims : issuerFile.key = c.key => issuerFile.issuer = c.issuer
    /\ \A c, d \in claims : c.key = d.key => c.issuer = d.issuer
    /\ \A k \in announced : Kept(k)

Processes ==
    /\ run \in [Runs -> Records]
    /\ \A s \in Runs : Process(s, run[s])

Inv == Shared /\ Processes

Same == UNCHANGED <<files, chain, claims>>

\* The two forms of the invariant agree.
LEMMA InvIsIInv == Inv => IInv /\ UncoveredIsExplained
  BY DEF Inv, IInv, Shared, Processes, Process, TypeOK, Records, PayerFiles, IssuerFiles, Writes,
         WritersOwn, Claims, Claimed, IssuersOwn, Issuing, KnowsPayer, PayerKnown, Knowing, Held,
         Covered, ChecksHeld, Signer, SignersKnown, Explained, UncoveredIsExplained, At,
         FundsAreReachable, Runs

\* A step of one process that leaves the files, the accounts and the claims alone
\* has only its own record to account for.
LEMMA OwnStep ==
    ASSUME Inv, NEW r \in Runs, NEW q, run' = [run EXCEPT ![r] = q], Process(r, q), Same
    PROVE  Processes'
PROOF
  <1>1. q \in Records
    BY DEF Process
  <1>2. run' \in [Runs -> Records]
    BY <1>1 DEF Inv, Processes
  <1>3. ASSUME NEW s \in Runs PROVE Process(s, run[s])'
    <2>1. Process(s, run'[s])
      <3>1. CASE s = r
        BY <3>1 DEF Inv, Processes
      <3>2. CASE s # r
        BY <3>2 DEF Inv, Processes
      <3> QED BY <3>1, <3>2
    <2> QED BY <2>1 DEF Process, Writes, Claims, Claimed, KnowsPayer, Kept, Held, Covered, Signer,
                        Explained, Same, files, chain
  <1> QED BY <1>2, <1>3 DEF Processes

LEMMA ProcessStep ==
    ASSUME Inv, NEW r \in Runs, NEW q, run' = [run EXCEPT ![r] = q], Process(r, q),
           Same, announced' = announced
    PROVE  Inv'
  BY OwnStep DEF Inv, Shared, Same, files, chain, Kept

LEMMA EndedProcess ==
    ASSUME NEW r \in Runs, NEW q, q = [Fresh EXCEPT !.pc = "ended"]
    PROVE  Process(r, q)
  BY DEF Process, Records, Writes, Claims, KnowsPayer, Held, Signer, Explained, Fresh, Places,
         Checking, Ready, Signing, Knowing, Issuing

\* The steps of a process that ends, or whose check failed, or that goes on.
LEMMA EndStep ==
    ASSUME Inv, NEW r \in Runs, End(r), Same, announced' = announced
    PROVE  Inv'
PROOF
  <1>1. PICK q : q = [Fresh EXCEPT !.pc = "ended"]
    OBVIOUS
  <1>2. run' = [run EXCEPT ![r] = q]
    BY <1>1 DEF End
  <1>3. Process(r, q)
    BY <1>1, EndedProcess
  <1> QED BY <1>2, <1>3, ProcessStep

LEMMA NotReadyStep ==
    ASSUME Inv, NEW r \in Runs, NEW key \in Preparers, Kept(key), NEW place \in Checking,
           NotReady(r, key, place), r \in Lives => ~ Claimed(r), Same, announced' = announced
    PROVE  Inv'
PROOF
  <1>1. PICK q : q = [Fresh EXCEPT !.pc = place, !.payer = key]
    OBVIOUS
  <1>2. run' = [run EXCEPT ![r] = q]
    BY <1>1 DEF NotReady
  <1>3. q \in Records /\ q.pc = place /\ q.payer = key /\ ~ q.clean
    BY <1>1 DEF Records, Fresh, Places, Checking
  <1>4. Process(r, q)
    BY <1>3 DEF Process, Writes, Claims, KnowsPayer, Held, Signer, Explained, Checking, Ready,
                Signing, Knowing, Issuing
  <1> QED BY <1>2, <1>4, ProcessStep

\* A process that has not come to its issuer key has claimed none.
LEMMA Unclaimed ==
    ASSUME Inv, NEW r \in Runs, run[r].pc \notin Issuing
    PROVE  r \in Lives => ~ Claimed(r)
  BY DEF Inv, Processes, Process, Claims

LEMMA BeginStep ==
    ASSUME PreparationAssumption, Inv, NEW r \in Runs, Begin(r)
    PROVE  Inv'
PROOF
  <1>1. Same /\ announced' = announced /\ At(r, "begin")
    BY DEF Begin, Same
  <1>2. Process(r, run[r]) /\ (r \in Lives => ~ Claimed(r))
    BY <1>1, Unclaimed DEF Inv, Processes, At, Issuing, Signing
  <1>3. CASE Goto(r, "payer")
    <2>1. PICK q : q = [run[r] EXCEPT !.pc = "payer"]
      OBVIOUS
    <2>2. run' = [run EXCEPT ![r] = q]
      BY <1>3, <2>1 DEF Goto
    <2>3. Process(r, q)
      BY <1>1, <1>2, <2>1 DEF Process, Records, Writes, Claims, KnowsPayer, Held, Signer, Explained,
                              At, Places, Checking, Ready, Signing, Knowing, Issuing
    <2> QED BY <1>1, <2>2, <2>3, ProcessStep
  <1>4. CASE ~ Goto(r, "payer")
    <2>1. PICK account \in announced \cup {Elsewhere}, issuer \in Issuers :
             /\ r \in Lives
             /\ run' = [run EXCEPT ![r].clean = TRUE, ![r].payTo = account, ![r].issuer = issuer,
                                   ![r].pc = "payer"]
      BY <1>4 DEF Begin
    <2>2. PICK q : q = [run[r] EXCEPT !.clean = TRUE, !.payTo = account, !.issuer = issuer,
                                      !.pc = "payer"]
      OBVIOUS
    <2>3. run' = [run EXCEPT ![r] = q]
      BY <2>1, <2>2 DEF Inv, Processes
    <2>4. account \in Preparers \cup {Elsewhere} /\ account # None /\ issuer # None
      BY DEF Inv, Shared, PreparationAssumption
    <2>5. Process(r, q)
      BY <1>1, <1>2, <2>1, <2>2, <2>4
         DEF Process, Records, Writes, Claims, KnowsPayer, Held, Signer, Explained,
             At, Places, Checking, Ready, Signing, Knowing, Issuing
    <2> QED BY <1>1, <2>3, <2>5, ProcessStep
  <1> QED BY <1>3, <1>4

\* Whoever has just read or written a payer key knows it.
LEMMA KnownStep ==
    ASSUME PreparationAssumption, Inv, NEW r \in Runs, run[r].pc \notin Issuing,
           payerFile.state = "complete", Known(r, payerFile.key), Same, announced' = announced
    PROVE  Inv'
PROOF
  <1>1. PICK key : key = payerFile.key
    OBVIOUS
  <1>2. key \in Preparers /\ Kept(key) /\ payerFile = [state |-> "complete", key |-> key]
    BY <1>1 DEF Inv, Shared, PayerFiles, Kept
  <1>3. r \in Lives => ~ Claimed(r)
    BY Unclaimed
  <1>4. CASE NotReady(r, key, "chain_id")
    BY <1>2, <1>3, <1>4, NotReadyStep DEF Checking
  <1>5. CASE ~ NotReady(r, key, "chain_id")
    <2>1. /\ run[r].clean /\ run[r].payTo # key
          /\ run' = [run EXCEPT ![r].payer = key, ![r].edits = edits, ![r].pc = "chain_id"]
      BY <1>1, <1>5 DEF Known, DistinctRoles
    <2>2. PICK q : q = [run[r] EXCEPT !.payer = key, !.edits = edits, !.pc = "chain_id"]
      OBVIOUS
    <2>3. run' = [run EXCEPT ![r] = q]
      BY <2>1, <2>2 DEF Inv, Processes
    <2>4. Process(r, run[r]) /\ edits \in Nat
      BY DEF Inv, Processes, Shared
    <2>5. /\ q \in Records /\ q.pc = "chain_id" /\ q.payer = key /\ q.edits = edits
          /\ q.payTo = run[r].payTo /\ q.issuer = run[r].issuer /\ q.clean
      BY <1>2, <2>1, <2>2, <2>4 DEF Process, Records, Places, Checking
    <2>6. Process(r, q)
      BY <1>2, <1>3, <2>1, <2>4, <2>5
         DEF Process, Writes, Claims, KnowsPayer, Held, Signer, Explained, Checking, Ready, Signing,
             Knowing, Issuing
    <2> QED BY <2>3, <2>6, ProcessStep
  <1> QED BY <1>4, <1>5

LEMMA LoadPayerStep ==
    ASSUME PreparationAssumption, Inv, NEW r \in Runs, LoadPayer(r)
    PROVE  Inv'
PROOF
  <1>1. Same /\ announced' = announced /\ At(r, "payer")
    BY DEF LoadPayer, Same
  <1>2. run[r].pc \notin Issuing
    BY <1>1 DEF At, Issuing, Signing
  <1>3. CASE payerFile.state = "complete" /\ Known(r, payerFile.key)
    BY <1>1, <1>2, <1>3, KnownStep
  <1>4. CASE r \in Preparers /\ Goto(r, "create_payer")
    <2>1. PICK q : q = [run[r] EXCEPT !.pc = "create_payer"]
      OBVIOUS
    <2>2. run' = [run EXCEPT ![r] = q]
      BY <1>4, <2>1 DEF Goto
    <2>3. Process(r, run[r]) /\ (r \in Lives => ~ Claimed(r))
      BY <1>2, Unclaimed DEF Inv, Processes
    <2>4. Process(r, q)
      BY <1>1, <1>4, <2>3, <2>1 DEF Process, Records, Writes, Claims, KnowsPayer, Held, Signer,
                              Explained, At, Places, Checking, Ready, Signing, Knowing, Issuing
    <2> QED BY <1>1, <2>2, <2>4, ProcessStep
  <1>5. CASE End(r)
    BY <1>1, <1>5, EndStep
  <1> QED BY <1>3, <1>4, <1>5 DEF LoadPayer

\* A process alone creates the payer key file, and alone fills it: nobody else
\* knows a key of it.
LEMMA CreatePayerStep ==
    ASSUME PreparationAssumption, Inv, NEW r \in Runs, CreatePayer(r)
    PROVE  Inv'
PROOF
  <1>1. UNCHANGED <<issuerFile, aside, edits, chain, announced, claims>> /\ At(r, "create_payer")
    BY DEF CreatePayer
  <1>2. CASE payerFile.state = "absent"
    <2>1. PICK q : q = [run[r] EXCEPT !.pc = "fill_payer"]
      OBVIOUS
    <2>2. run' = [run EXCEPT ![r] = q] /\ payerFile' = Empty(r)
      BY <1>2, <2>1 DEF CreatePayer, Goto
    <2>3. Process(r, run[r]) /\ (r \in Lives => ~ Claimed(r)) /\ r \in Preparers
      BY <1>1, Unclaimed DEF Inv, Processes, At, Issuing, Signing, Process, Writes
    <2>4. \A k : Kept(k) => Kept(k)'
      BY <1>1, <1>2, <2>2 DEF Kept
    <2>5. Shared'
      BY <1>1, <2>2, <2>3, <2>4 DEF Inv, Shared, Empty, PayerFiles, PreparationAssumption, chain
    <2>6. q \in Records /\ q.pc = "fill_payer" /\ q.clean = run[r].clean /\ q.payTo = run[r].payTo
          /\ q.issuer = run[r].issuer
      BY <2>1, <2>3 DEF Process, Records, Places
    <2>7. ASSUME NEW s \in Runs PROVE Process(s, run[s])'
      <3>1. CASE s = r
        <4>1. run'[s] = q
          BY <2>2, <3>1 DEF Inv, Processes
        <4> QED BY <1>1, <2>2, <2>3, <2>6, <3>1, <4>1
                DEF Process, Writes, Claims, Claimed, KnowsPayer, Held, Signer, Explained, Checking,
                    Ready, Signing, Knowing, Issuing
      <3>2. CASE s # r
        <4>1. run'[s] = run[s] /\ Process(s, run[s])
          BY <2>2, <3>2 DEF Inv, Processes
        <4>2. run[s].pc # "fill_payer"
          BY <1>2, <4>1 DEF Process, Writes, Empty
        <4>3. KnowsPayer(run[s])'
          BY <1>1, <1>2, <2>4, <4>1 DEF Process, KnowsPayer
        <4> QED BY <1>1, <4>1, <4>2, <4>3 DEF Process, Writes, Claims, Claimed, Held, Covered, Signer,
                                          Explained, chain
      <3> QED BY <3>1, <3>2
    <2> QED BY <2>2, <2>5, <2>6, <2>7 DEF Inv, Processes
  <1>3. CASE payerFile.state # "absent"
    BY <1>1, <1>3, EndStep DEF CreatePayer, Same, files
  <1> QED BY <1>2, <1>3

\* The process that fills the payer key file prepares a wallet, and goes on for its
\* report, or ends.
LEMMA FillPayerStep ==
    ASSUME PreparationAssumption, Inv, NEW r \in Runs, FillPayer(r)
    PROVE  Inv'
PROOF
  <1>1. UNCHANGED <<issuerFile, aside, edits, chain, announced, claims>> /\ At(r, "fill_payer")
    BY DEF FillPayer
  <1>2. /\ Process(r, run[r]) /\ (r \in Lives => ~ Claimed(r)) /\ r \in Preparers /\ r \notin Lives
        /\ payerFile = Empty(r) /\ ~ run[r].clean
    BY <1>1, Unclaimed DEF Inv, Processes, At, Issuing, Signing, Process, Writes, Held,
                           PreparationAssumption
  <1>3. CASE payerFile' = [payerFile EXCEPT !.state = "complete"] /\ (Known(r, r) \/ End(r))
    <2>1. PICK q : /\ run' = [run EXCEPT ![r] = q]
                   /\ \/ q = [Fresh EXCEPT !.pc = "chain_id", !.payer = r]
                      \/ q = [Fresh EXCEPT !.pc = "ended"]
      BY <1>2, <1>3 DEF Known, NotReady, End
    <2>2. /\ q \in Records /\ q.pc \in {"chain_id", "ended"} /\ ~ q.clean
          /\ q.pc = "chain_id" => q.payer = r
      <3>1. CASE q = [Fresh EXCEPT !.pc = "chain_id", !.payer = r]
        BY <1>2, <3>1 DEF Records, Fresh, Places, Checking
      <3>2. CASE q = [Fresh EXCEPT !.pc = "ended"]
        BY <3>2 DEF Records, Fresh, Places
      <3> QED BY <2>1, <3>1, <3>2
    <2>3. payerFile' = [state |-> "complete", key |-> r]
      BY <1>2, <1>3 DEF Empty
    <2>4. \A k : Kept(k) => Kept(k)'
      BY <1>1, <1>2, <2>3 DEF Kept, Empty
    <2>5. Shared'
      BY <1>1, <1>2, <2>3, <2>4 DEF Inv, Shared, PayerFiles, PreparationAssumption, chain
    <2>6. ASSUME NEW s \in Runs PROVE Process(s, run[s])'
      <3>1. CASE s = r
        <4>1. run'[s] = q
          BY <2>1, <3>1 DEF Inv, Processes
        <4> QED BY <1>1, <1>2, <2>2, <2>3, <3>1, <4>1
                DEF Process, Writes, Claims, Claimed, KnowsPayer, Kept, Held, Signer, Explained,
                    Checking, Ready, Signing, Knowing, Issuing
      <3>2. CASE s # r
        <4>1. run'[s] = run[s] /\ Process(s, run[s])
          BY <2>1, <3>2 DEF Inv, Processes
        <4>2. run[s].pc # "fill_payer"
          BY <1>2, <3>2, <4>1 DEF Process, Writes, Empty
        <4>3. KnowsPayer(run[s])'
          BY <1>1, <1>2, <2>4, <4>1 DEF Process, KnowsPayer, Empty
        <4> QED BY <1>1, <4>1, <4>2, <4>3 DEF Process, Writes, Claims, Claimed, Held, Covered, Signer,
                                          Explained, chain
      <3> QED BY <3>1, <3>2
    <2> QED BY <2>1, <2>2, <2>5, <2>6 DEF Inv, Processes
  <1>4. CASE End(r) /\ UNCHANGED payerFile
    BY <1>1, <1>4, EndStep DEF Same, files
  <1> QED BY <1>3, <1>4 DEF FillPayer

\* A process that asks an endpoint knows its payer.
LEMMA Asking ==
    ASSUME Inv, NEW r \in Runs, run[r].pc \in Checking
    PROVE  /\ run[r].payer \in Preparers /\ Kept(run[r].payer)
           /\ r \in Lives => ~ Claimed(r)
           /\ Process(r, run[r])
  BY Unclaimed DEF Inv, Processes, Process, KnowsPayer, Knowing, Checking, Issuing, Signing

\* An ask after which the run cannot be ready.
LEMMA AskedInVain ==
    ASSUME Inv, NEW r \in Runs, run[r].pc \in Checking, NEW place \in Checking,
           NotReady(r, run[r].payer, place), Same, announced' = announced
    PROVE  Inv'
PROOF
  <1>1. PICK key : key = run[r].payer
    OBVIOUS
  <1>2. key \in Preparers /\ Kept(key) /\ (r \in Lives => ~ Claimed(r))
    BY <1>1, Asking
  <1> QED BY <1>1, <1>2, NotReadyStep

LEMMA AskChainIdStep ==
    ASSUME Inv, NEW r \in Runs, AskChainId(r)
    PROVE  Inv'
PROOF
  <1>1. Same /\ announced' = announced /\ At(r, "chain_id") /\ run[r].pc \in Checking
    BY DEF AskChainId, Same, At, Checking
  <1>2. CASE Goto(r, "balance")
    <2>1. PICK q : q = [run[r] EXCEPT !.pc = "balance"]
      OBVIOUS
    <2>2. run' = [run EXCEPT ![r] = q]
      BY <1>2, <2>1 DEF Goto
    <2>3. Process(r, q)
      BY <1>1, <2>1, Asking
         DEF Process, Records, Writes, Claims, KnowsPayer, Held, Signer, Explained, At, Places,
             Checking, Ready, Signing, Knowing, Issuing
    <2> QED BY <1>1, <2>2, <2>3, ProcessStep
  <1>3. CASE \E place \in Checking : NotReady(r, run[r].payer, place)
    BY <1>1, <1>3, AskedInVain
  <1> QED BY <1>2, <1>3 DEF AskChainId, Checking

LEMMA AskBalanceStep ==
    ASSUME Inv, NEW r \in Runs, AskBalance(r)
    PROVE  Inv'
PROOF
  <1>1. Same /\ announced' = announced /\ At(r, "balance") /\ run[r].pc \in Checking
    BY DEF AskBalance, Same, At, Checking
  <1>2. CASE NotReady(r, run[r].payer, "facilitator")
    BY <1>1, <1>2, AskedInVain DEF Checking
  <1>3. CASE ~ NotReady(r, run[r].payer, "facilitator")
    <2>1. PICK e \in Truthful({Word(funds[run[r].payer])}, {Word(MinUsdc)}) :
             /\ IsResult(e) /\ e.result.type = "word" /\ e.result.value >= MinUsdc
             /\ run' = [run EXCEPT ![r].seen = sent[run[r].payer], ![r].pc = "facilitator"]
      BY <1>3 DEF AskBalance
    <2>2. e.result = Word(funds[run[r].payer])
      BY <2>1 DEF Truthful, IsResult, Misshapen
    <2>3. funds[run[r].payer] >= MinUsdc
      BY <2>1, <2>2 DEF Word
    <2>4. PICK q : q = [run[r] EXCEPT !.seen = sent[run[r].payer], !.pc = "facilitator"]
      OBVIOUS
    <2>5. run' = [run EXCEPT ![r] = q]
      BY <2>1, <2>4 DEF Inv, Processes
    <2>6. /\ run[r].payer \in Preparers /\ Process(r, run[r]) /\ (r \in Lives => ~ Claimed(r))
          /\ sent[run[r].payer] \in Nat
      BY <1>1, Asking DEF Inv, Shared
    <2>7. /\ q \in Records /\ q.pc = "facilitator" /\ q.seen = sent[run[r].payer]
          /\ q.payer = run[r].payer /\ q.clean = run[r].clean /\ q.edits = run[r].edits
          /\ q.payTo = run[r].payTo /\ q.issuer = run[r].issuer
      BY <2>4, <2>6 DEF Process, Records, Places, Checking
    <2>8. Covered(q)
      BY <2>3, <2>6, <2>7 DEF Covered
    <2>9. Process(r, q)
      BY <1>1, <2>6, <2>7, <2>8
         DEF Process, Writes, Claims, KnowsPayer, Held, Signer, Explained, At,
             Checking, Ready, Signing, Knowing, Issuing
    <2> QED BY <1>1, <2>5, <2>9, ProcessStep
  <1> QED BY <1>2, <1>3

\* The report prints the address of a key that is kept; a live run that is ready
\* goes on, everything else ends.
LEMMA AskFacilitatorStep ==
    ASSUME Inv, NEW r \in Runs, AskFacilitator(r)
    PROVE  Inv'
PROOF
  <1>1. /\ Same /\ announced' = announced \cup {run[r].payer} /\ At(r, "facilitator")
        /\ run[r].pc \in Checking
    BY DEF AskFacilitator, Same, At, Checking
  <1>2. /\ run[r].payer \in Preparers /\ Kept(run[r].payer) /\ Process(r, run[r])
        /\ r \in Lives => ~ Claimed(r)
    BY <1>1, Asking
  <1>3. Shared'
    BY <1>1, <1>2 DEF Inv, Shared, Same, files, chain, Kept
  <1>4. CASE End(r)
    <2>1. PICK q : q = [Fresh EXCEPT !.pc = "ended"]
      OBVIOUS
    <2> QED BY <1>1, <1>3, <1>4, <2>1, EndedProcess, OwnStep DEF End, Inv
  <1>5. CASE run[r].clean /\ Goto(r, "issuer")
    <2>1. PICK q : q = [run[r] EXCEPT !.pc = "issuer"]
      OBVIOUS
    <2>2. run' = [run EXCEPT ![r] = q]
      BY <1>5, <2>1 DEF Goto
    <2>3. Process(r, q)
      BY <1>1, <1>2, <1>5, <2>1
         DEF Process, Records, Writes, Claims, KnowsPayer, Held, Covered, Signer, Explained, At,
             Places, Checking, Ready, Signing, Knowing, Issuing
    <2> QED BY <1>1, <1>3, <2>2, <2>3, OwnStep DEF Inv
  <1> QED BY <1>4, <1>5 DEF AskFacilitator

\* The key of a file that names the issuer is claimed under it.
LEMMA LoadIssuerStep ==
    ASSUME PreparationAssumption, Inv, NEW r \in Lives, LoadIssuer(r)
    PROVE  Inv'
PROOF
  <1> r \in Runs
    BY DEF Runs
  <1>1. UNCHANGED <<files, chain, announced>> /\ At(r, "issuer")
    BY DEF LoadIssuer
  <1>2. Process(r, run[r]) /\ ~ Claimed(r)
    BY <1>1, Unclaimed DEF Inv, Processes, At, Issuing, Signing
  <1>3. CASE issuerFile.state = "complete" /\ issuerFile.issuer = run[r].issuer /\ Signs(r, issuerFile.key)
    <2>1. PICK q : q = [run[r] EXCEPT !.pc = "payer_again"]
      OBVIOUS
    <2>2. run' = [run EXCEPT ![r] = q]
      BY <1>3, <2>1 DEF Signs, Goto
    <2>3. PICK d : /\ d = [key |-> issuerFile.key, issuer |-> issuerFile.issuer]
                   /\ claims' = claims \cup {d}
      BY <1>3 DEF Signs
    <2>4. d \in [key : Lives, issuer : Issuers] /\ d.key = issuerFile.key /\ d.issuer = issuerFile.issuer
      BY <1>3, <2>3 DEF Inv, Shared
    <2>5. Shared'
      BY <1>1, <2>3, <2>4 DEF Inv, Shared, Kept, files, chain
    <2>6. q \in Records /\ q.pc = "payer_again"
      BY <1>2, <2>1 DEF Process, Records, Places, Ready
    <2>7. ASSUME NEW s \in Runs PROVE Process(s, run[s])'
      <3>1. CASE s = r
        <4>1. run'[s] = q
          BY <2>2, <3>1 DEF Inv, Processes
        <4> QED BY <1>1, <1>2, <2>1, <2>6, <3>1, <4>1
                DEF At, Process, Records, Writes, Claims, Claimed, KnowsPayer, Kept, Held, Covered, Signer,
                    Explained, Checking, Ready, Signing, Knowing, Issuing, files, chain
      <3>2. CASE s # r
        <4>1. run'[s] = run[s] /\ Process(s, run[s])
          BY <2>2, <3>2 DEF Inv, Processes
        <4>2. run[s].pc # "fill_issuer"
          BY <1>3, <4>1 DEF Process, Writes
        <4>3. Claims(s, run[s])'
          BY <1>1, <2>3, <2>4, <4>1, <4>2 DEF Process, Claims, Claimed, files
        <4> QED BY <1>1, <4>1, <4>3 DEF Process, Writes, KnowsPayer, Kept, Held, Covered, Signer,
                                        Explained, files, chain
      <3> QED BY <3>1, <3>2
    <2> QED BY <2>2, <2>5, <2>6, <2>7 DEF Inv, Processes
  <1>4. CASE End(r) /\ UNCHANGED claims
    BY <1>1, <1>4, EndStep DEF Same
  <1>5. CASE Goto(r, "create_issuer") /\ UNCHANGED claims
    <2>1. PICK q : q = [run[r] EXCEPT !.pc = "create_issuer"]
      OBVIOUS
    <2>2. run' = [run EXCEPT ![r] = q]
      BY <1>5, <2>1 DEF Goto
    <2>3. Process(r, q)
      BY <1>1, <1>2, <2>1
         DEF Process, Records, Writes, Claims, KnowsPayer, Held, Covered, Signer, Explained, At,
             Places, Checking, Ready, Signing, Knowing, Issuing
    <2> QED BY <1>1, <1>5, <2>2, <2>3, ProcessStep DEF Same
  <1> QED BY <1>3, <1>4, <1>5 DEF LoadIssuer

\* A process creates the issuer key file for a key of its own, which nobody claims.
LEMMA CreateIssuerStep ==
    ASSUME PreparationAssumption, Inv, NEW r \in Lives, CreateIssuer(r)
    PROVE  Inv'
PROOF
  <1> r \in Runs
    BY DEF Runs
  <1>1. UNCHANGED <<payerFile, aside, edits, chain, announced, claims>> /\ At(r, "create_issuer")
    BY DEF CreateIssuer
  <1>2. Process(r, run[r]) /\ ~ Claimed(r)
    BY <1>1, Unclaimed DEF Inv, Processes, At, Issuing, Signing
  <1>3. CASE issuerFile.state = "absent"
    <2>1. PICK q : q = [run[r] EXCEPT !.pc = "fill_issuer"]
      OBVIOUS
    <2>2. /\ run' = [run EXCEPT ![r] = q]
          /\ issuerFile' = [state |-> "empty", key |-> r, issuer |-> run[r].issuer]
      BY <1>3, <2>1 DEF CreateIssuer, Goto
    <2>3. q \in Records /\ q.pc = "fill_issuer" /\ q.issuer = run[r].issuer
      BY <1>2, <2>1 DEF Process, Records, Places, Ready
    <2>4. run[r].issuer \in Issuers
      BY <1>1, <1>2 DEF Process, Held, Records, At, Ready
    <2>5. Shared'
      BY <1>1, <1>2, <2>2, <2>4 DEF Inv, Shared, Claimed, Kept, chain, IssuerFiles
    <2>6. ASSUME NEW s \in Runs PROVE Process(s, run[s])'
      <3>1. CASE s = r
        <4>1. run'[s] = q
          BY <2>2, <3>1 DEF Inv, Processes
        <4> QED BY <1>1, <1>2, <2>1, <2>2, <2>3, <3>1, <4>1
                DEF At, Process, Records, Writes, Claims, Claimed, KnowsPayer, Kept, Held, Covered, Signer,
                    Explained, Checking, Ready, Signing, Knowing, Issuing, chain
      <3>2. CASE s # r
        <4>1. run'[s] = run[s] /\ Process(s, run[s])
          BY <2>2, <3>2 DEF Inv, Processes
        <4>2. run[s].pc # "fill_issuer"
          BY <1>3, <4>1 DEF Process, Writes
        <4> QED BY <1>1, <2>2, <3>2, <4>1, <4>2
                DEF Process, Writes, Claims, Claimed, KnowsPayer, Kept, Held, Covered, Signer,
                    Explained, chain
      <3> QED BY <3>1, <3>2
    <2> QED BY <2>2, <2>3, <2>5, <2>6 DEF Inv, Processes
  <1>4. CASE issuerFile.state # "absent"
    BY <1>1, <1>4, EndStep DEF CreateIssuer, Same, files
  <1> QED BY <1>3, <1>4

\* It alone fills it, and claims its key, or leaves it to others.
LEMMA FillIssuerStep ==
    ASSUME PreparationAssumption, Inv, NEW r \in Lives, FillIssuer(r)
    PROVE  Inv'
PROOF
  <1> r \in Runs
    BY DEF Runs
  <1>1. UNCHANGED <<payerFile, aside, edits, chain, announced>> /\ At(r, "fill_issuer")
    BY DEF FillIssuer
  <1>2. /\ Process(r, run[r]) /\ run[r].clean /\ run[r].issuer \in Issuers
        /\ issuerFile = [state |-> "empty", key |-> r, issuer |-> run[r].issuer]
        /\ \A c \in claims : c.key # r
    BY <1>1 DEF Inv, Processes, Process, At, Held, Ready, Records, Writes, Claims
  <1>3. ASSUME NEW s \in Runs, s # r PROVE run[s].pc # "fill_issuer" /\ Process(s, run[s])
    BY <1>2, <1>3 DEF Inv, Processes, Process, Writes
  <1>4. CASE issuerFile' = [issuerFile EXCEPT !.state = "complete"]
    <2>1. issuerFile' = [state |-> "complete", key |-> r, issuer |-> run[r].issuer]
      BY <1>2, <1>4
    <2>2. PICK q : /\ run' = [run EXCEPT ![r] = q]
                   /\ \/ /\ q = [run[r] EXCEPT !.pc = "payer_again"]
                         /\ claims' = claims \cup {[key |-> r, issuer |-> run[r].issuer]}
                      \/ q = [Fresh EXCEPT !.pc = "ended"] /\ claims' = claims
      BY <1>2, <1>4, <2>1 DEF FillIssuer, Signs, End, Goto
    <2>3. PICK d : d = [key |-> r, issuer |-> run[r].issuer]
      OBVIOUS
    <2>4. d \in [key : Lives, issuer : Issuers] /\ d.key = r /\ d.issuer = run[r].issuer
          /\ claims' \in {claims, claims \cup {d}}
      BY <1>2, <2>2, <2>3
    <2>5. Shared'
      BY <1>1, <1>2, <2>1, <2>4 DEF Inv, Shared, Kept, chain, IssuerFiles
    <2>6. Process(r, q)' /\ q \in Records
      <3>1. CASE q = [Fresh EXCEPT !.pc = "ended"]
        BY <3>1 DEF Process, Records, Writes, Claims, KnowsPayer, Held, Signer, Explained, Fresh,
                    Places, Checking, Ready, Signing, Knowing, Issuing
      <3>2. CASE q = [run[r] EXCEPT !.pc = "payer_again"]
        BY <1>1, <1>2, <3>2
           DEF At, Process, Records, Writes, Claims, Claimed, KnowsPayer, Kept, Held, Covered, Signer,
               Explained, Places, Checking, Ready, Signing, Knowing, Issuing, chain
      <3> QED BY <2>2, <3>1, <3>2
    <2>7. ASSUME NEW s \in Runs PROVE Process(s, run[s])'
      <3>1. CASE s = r
        <4>1. run'[s] = q
          BY <2>2, <3>1 DEF Inv, Processes
        <4> QED BY <2>6, <3>1, <4>1 DEF Process, Writes, Claims, Claimed, KnowsPayer, Kept, Held,
                                        Covered, Signer, Explained
      <3>2. CASE s # r
        <4>1. run'[s] = run[s] /\ Process(s, run[s]) /\ run[s].pc # "fill_issuer"
          BY <1>3, <2>2, <3>2 DEF Inv, Processes
        <4>2. Claims(s, run[s])'
          BY <1>2, <2>1, <2>4, <3>2, <4>1 DEF Process, Claims, Claimed
        <4> QED BY <1>1, <4>1, <4>2 DEF Process, Writes, KnowsPayer, Kept, Held, Covered, Signer,
                                        Explained, chain
      <3> QED BY <3>1, <3>2
    <2> QED BY <2>2, <2>5, <2>6, <2>7 DEF Inv, Processes
  <1>5. CASE End(r) /\ UNCHANGED <<issuerFile, claims>>
    BY <1>1, <1>5, EndStep DEF Same, files
  <1> QED BY <1>4, <1>5 DEF FillIssuer

\* The key that is read again is the one the preflight read, unless an edit of its
\* file is to be seen.
LEMMA LoadSignerStep ==
    ASSUME PreparationAssumption, Inv, NEW r \in Lives, LoadSigner(r)
    PROVE  Inv'
PROOF
  <1> r \in Runs
    BY DEF Runs
  <1>1. Same /\ announced' = announced /\ At(r, "payer_again")
    BY DEF LoadSigner, Same
  <1>2. CASE payerFile.state = "complete"
    <2>1. PICK q : q = [run[r] EXCEPT !.signer = payerFile.key, !.moved = (edits # run[r].edits),
                                      !.pc = "pay"]
      OBVIOUS
    <2>2. run' = [run EXCEPT ![r] = q]
      BY <1>2, <2>1 DEF LoadSigner, Inv, Processes
    <2>3. Process(r, run[r]) /\ payerFile.key \in Preparers
      BY <1>2 DEF Inv, Processes, Shared, PayerFiles
    <2>4. /\ q \in Records /\ q.pc = "pay" /\ q.signer = payerFile.key
          /\ q.moved = (edits # run[r].edits) /\ q.clean = run[r].clean /\ q.payTo = run[r].payTo
          /\ q.issuer = run[r].issuer /\ q.payer = run[r].payer /\ q.seen = run[r].seen
          /\ q.edits = run[r].edits
      BY <2>1, <2>3 DEF Process, Records, Places, Signing
    <2>5. q.moved \/ q.signer = q.payer
      <3>1. edits = run[r].edits => payerFile = [state |-> "complete", key |-> run[r].payer]
        BY <1>1, <2>3 DEF Process, KnowsPayer, Held, Knowing, Ready, At
      <3>2. CASE edits = run[r].edits
        BY <2>4, <3>1, <3>2
      <3>3. CASE edits # run[r].edits
        BY <2>4, <3>3
      <3> QED BY <3>2, <3>3
    <2>6. Process(r, q)
      BY <1>1, <2>3, <2>4, <2>5
         DEF Process, Writes, Claims, KnowsPayer, Held, Covered, Signer, Explained, At,
             Checking, Ready, Signing, Knowing, Issuing
    <2> QED BY <1>1, <2>2, <2>6, ProcessStep
  <1>3. CASE payerFile.state # "complete"
    BY <1>1, <1>3, EndStep DEF LoadSigner
  <1> QED BY <1>2, <1>3

\* A payment takes from the account of the signer what it adds to the count of its
\* payments; one that is not covered was, by another payment since.
LEMMA PayStep ==
    ASSUME PreparationAssumption, Inv, NEW r \in Lives, Pay(r)
    PROVE  Inv'
PROOF
  <1> r \in Runs
    BY DEF Runs
  <1>1. UNCHANGED <<files, faucet, announced, claims>> /\ At(r, "pay")
    BY DEF Pay
  <1>2. Process(r, run[r]) /\ run[r].signer \in Preparers
    BY <1>1 DEF Inv, Processes, Process, Signer, At, Signing
  <1>3. CASE /\ funds[run[r].signer] >= MinUsdc
             /\ funds' = Transferred(run[r].signer, run[r].payTo)
             /\ sent' = [sent EXCEPT ![run[r].signer] = @ + 1]
             /\ End(r)
    <2>1. PICK q : q = [Fresh EXCEPT !.pc = "ended"]
      OBVIOUS
    <2>2. run' = [run EXCEPT ![r] = q]
      BY <1>3, <2>1 DEF End
    <2>3. funds' \in [Preparers -> Nat] /\ sent' \in [Preparers -> Nat]
      <3>1. ASSUME NEW k \in Preparers
            PROVE  funds[k] - (IF k = run[r].signer THEN MinUsdc ELSE 0)
                     + (IF k = run[r].payTo THEN MinUsdc ELSE 0) \in Nat
        <4>1. funds[k] \in Nat
          BY DEF Inv, Shared
        <4>2. CASE k = run[r].signer
          BY <1>3, <4>1, <4>2 DEF MinUsdc
        <4>3. CASE k # run[r].signer
          BY <4>1, <4>3 DEF MinUsdc
        <4> QED BY <4>2, <4>3
      <3>2. funds' \in [Preparers -> Nat]
        BY <1>3, <3>1 DEF Transferred
      <3>3. sent' \in [Preparers -> Nat]
        BY <1>2, <1>3 DEF Inv, Shared
      <3> QED BY <3>2, <3>3
    <2>4. ASSUME NEW k \in Preparers
          PROVE  /\ sent'[k] >= sent[k]
                 /\ sent'[k] > sent[k] \/ funds'[k] >= funds[k]
      <3>1. sent[k] \in Nat /\ funds[k] \in Nat
        BY DEF Inv, Shared
      <3>2. CASE k = run[r].signer
        BY <1>2, <1>3, <3>1, <3>2 DEF Inv, Shared
      <3>3. CASE k # run[r].signer
        <4>1. sent'[k] = sent[k]
          BY <1>2, <1>3, <3>3 DEF Inv, Shared
        <4>2. funds'[k] = funds[k] + (IF k = run[r].payTo THEN MinUsdc ELSE 0)
          BY <1>3, <3>1, <3>3 DEF Transferred
        <4>3. funds'[k] >= funds[k]
          BY <3>1, <4>2 DEF MinUsdc
        <4> QED BY <3>1, <4>1, <4>3
      <3> QED BY <3>2, <3>3
    <2>5. Shared'
      BY <1>1, <2>3 DEF Inv, Shared, Kept, files
    <2>6. ASSUME NEW s \in Runs PROVE Process(s, run[s])'
      <3>1. CASE s = r
        <4>1. run'[s] = q
          BY <2>2, <3>1 DEF Inv, Processes
        <4>2. q \in Records /\ q.pc = "ended" /\ ~ q.clean
          BY <2>1, EndedProcess DEF Process, Fresh
        <4> QED BY <3>1, <4>1, <4>2 DEF Process, Writes, Claims, KnowsPayer, Held, Signer, Explained,
                    Checking, Ready, Signing, Knowing, Issuing
      <3>2. CASE s # r
        <4>1. run'[s] = run[s] /\ Process(s, run[s])
          BY <2>2, <3>2 DEF Inv, Processes
        <4>2. Writes(s, run[s])' /\ Claims(s, run[s])' /\ KnowsPayer(run[s])' /\ Signer(run[s])'
          BY <1>1, <4>1 DEF Process, Writes, Claims, Claimed, KnowsPayer, Kept, Signer, files
        <4>3. Held(s, run[s])'
          <5>1. ASSUME run[s].payer \in Preparers, Covered(run[s]) PROVE Covered(run[s])'
            <6>1. /\ sent[run[s].payer] \in Nat /\ sent'[run[s].payer] \in Nat /\ run[s].seen \in Nat
                  /\ funds[run[s].payer] \in Nat /\ funds'[run[s].payer] \in Nat
              BY <2>3, <4>1, <5>1 DEF Process, Records, Inv, Shared
            <6> QED BY <2>4, <4>1, <5>1, <6>1 DEF Covered, MinUsdc
          <5> QED BY <4>1, <5>1 DEF Process, Held, KnowsPayer, Knowing, Checking, Ready, Signing
        <4>4. Explained(s, run[s])'
          <5>1. ASSUME run[s].signer \in Preparers, sent[run[s].signer] > run[s].seen
                PROVE  sent'[run[s].signer] > run[s].seen
            <6>1. /\ sent[run[s].signer] \in Nat /\ sent'[run[s].signer] \in Nat
                  /\ run[s].seen \in Nat
              BY <2>3, <4>1, <5>1 DEF Process, Records, Inv, Shared
            <6> QED BY <2>4, <5>1, <6>1
          <5> QED BY <4>1, <5>1 DEF Process, Explained, Signer, Signing
        <4> QED BY <4>1, <4>2, <4>3, <4>4 DEF Process
      <3> QED BY <3>1, <3>2
    <2>7. q \in Records
      BY <2>1, EndedProcess DEF Process
    <2> QED BY <2>2, <2>5, <2>6, <2>7 DEF Inv, Processes
  <1>4. CASE funds[run[r].signer] < MinUsdc /\ Goto(r, "uncovered") /\ UNCHANGED <<funds, sent>>
    <2>1. PICK q : q = [run[r] EXCEPT !.pc = "uncovered"]
      OBVIOUS
    <2>2. run' = [run EXCEPT ![r] = q]
      BY <1>4, <2>1 DEF Goto
    <2>3. q \in Records /\ q.pc = "uncovered" /\ q.signer = run[r].signer /\ q.payer = run[r].payer
          /\ q.moved = run[r].moved /\ q.seen = run[r].seen
      BY <1>2, <2>1 DEF Process, Records, Places, Signing
    <2>4. ASSUME ~ q.moved PROVE sent[q.signer] > q.seen
      <3>1. q.signer = q.payer /\ Covered(run[r])
        BY <1>1, <1>2, <2>3, <2>4 DEF Process, Signer, Held, At, Signing, Knowing
      <3>2. funds[q.signer] \in Nat
        BY <1>2, <2>3 DEF Inv, Shared
      <3> QED BY <1>4, <2>3, <3>1, <3>2 DEF Covered, MinUsdc
    <2>5. Process(r, q)
      BY <1>1, <1>2, <2>1, <2>3, <2>4
         DEF Process, Writes, Claims, KnowsPayer, Held, Covered, Signer, Explained, At,
             Checking, Ready, Signing, Knowing, Issuing
    <2> QED BY <1>1, <1>4, <2>2, <2>5, ProcessStep DEF Same, chain
  <1>5. CASE End(r) /\ UNCHANGED <<funds, sent>>
    BY <1>1, <1>5, EndStep DEF Same, chain
  <1> QED BY <1>3, <1>4, <1>5 DEF Pay

-----------------------------------------------------------------------------
(* The operator. *)

\* What others do leaves every process what it has to account for.
LEMMA OthersStep ==
    ASSUME Inv, Shared', run' = run, \A s \in Runs : Process(s, run[s])'
    PROVE  Inv'
  BY DEF Inv, Processes

LEMMA FundStep ==
    ASSUME PreparationAssumption, Inv, Fund, faucet' \in Nat
    PROVE  Inv'
PROOF
  <1>1. UNCHANGED <<run, files, sent, announced, claims>>
    BY DEF Fund
  <1>2. PICK k \in announced : funds' = [funds EXCEPT ![k] = @ + MinUsdc]
    BY DEF Fund
  <1>3. funds' \in [Preparers -> Nat] /\ \A j \in Preparers : funds'[j] >= funds[j]
    <2>1. ASSUME NEW j \in Preparers PROVE funds'[j] \in Nat /\ funds'[j] >= funds[j]
      BY <1>2 DEF Inv, Shared, MinUsdc
    <2> QED BY <1>2, <2>1 DEF Inv, Shared
  <1>4. Shared'
    BY <1>1, <1>3 DEF Inv, Shared, Kept, files
  <1>5. ASSUME NEW s \in Runs PROVE Process(s, run[s])'
    <2>1. Process(s, run[s])
      BY DEF Inv, Processes
    <2>2. Held(s, run[s])'
      <3>1. ASSUME run[s].payer \in Preparers, Covered(run[s]) PROVE Covered(run[s])'
        <4>1. funds[run[s].payer] \in Nat /\ funds'[run[s].payer] \in Nat
          BY <1>3, <3>1 DEF Inv, Shared
        <4> QED BY <1>1, <1>3, <3>1, <4>1 DEF Covered, MinUsdc
      <3> QED BY <1>1, <2>1, <3>1 DEF Process, Held, KnowsPayer, Knowing, Checking, Ready, Signing
    <2> QED BY <1>1, <2>1, <2>2 DEF Process, Writes, Claims, Claimed, KnowsPayer, Kept, Signer,
                                    Explained, files
  <1> QED BY <1>1, <1>4, <1>5, OthersStep

\* An edit is counted, so nobody who read the file before takes it for the same.
LEMMA DisturbPayerStep ==
    ASSUME PreparationAssumption, Inv, DisturbPayer
    PROVE  Inv'
PROOF
  <1>1. /\ UNCHANGED <<run, issuerFile, chain, announced, claims>>
        /\ edits' = edits + 1 /\ payerFile.state # "absent" /\ edits \in Nat
    BY DEF DisturbPayer, Inv, Shared
  <1>2. payerFile.key \in Preparers
    BY <1>1 DEF Inv, Shared, PayerFiles
  <1>3. ASSUME NEW k \in Preparers, Kept(k) PROVE Kept(k)'
    <2>1. CASE payerFile' = NoFile /\ aside' = IF payerFile.state = "empty" THEN aside ELSE aside \cup {payerFile.key}
      BY <1>3, <2>1 DEF Kept
    <2>2. CASE payerFile' = [payerFile EXCEPT !.state = "damaged"] /\ aside' = aside
      <3>1. payerFile'.key = payerFile.key /\ payerFile'.state = "damaged"
        BY <2>2 DEF Inv, Shared, PayerFiles
      <3> QED BY <1>3, <2>2, <3>1 DEF Kept
    <2> QED BY <2>1, <2>2 DEF DisturbPayer
  <1>4. /\ payerFile' \in PayerFiles /\ aside' \subseteq Preparers
        /\ payerFile'.state # "absent" => payerFile'.key # None
    BY <1>1, <1>2 DEF DisturbPayer, Inv, Shared, PayerFiles, NoFile, PreparationAssumption
  <1>5. Shared'
    BY <1>1, <1>3, <1>4 DEF Inv, Shared, chain
  <1>6. ASSUME NEW s \in Runs PROVE Process(s, run[s])'
    <2>1. Process(s, run[s])
      BY DEF Inv, Processes
    <2>2. run[s].pc # "fill_payer"
      BY <2>1 DEF DisturbPayer, Process, Writes, Empty, At
    <2>3. KnowsPayer(run[s])'
      <3>1. run[s].edits \in Nat
        BY <2>1 DEF Process, Records
      <3> QED BY <1>1, <1>3, <2>1, <3>1 DEF Process, KnowsPayer
    <2> QED BY <1>1, <2>1, <2>2, <2>3 DEF Process, Writes, Claims, Claimed, Held, Covered, Signer,
                                          Explained, chain
  <1> QED BY <1>1, <1>5, <1>6, OthersStep

\* A file that is put back or repaired was taken by an edit since anybody read it.
LEMMA RestorePayerStep ==
    ASSUME PreparationAssumption, Inv, RestorePayer
    PROVE  Inv'
PROOF
  <1>1. UNCHANGED <<run, issuerFile, edits, chain, announced, claims>>
    BY DEF RestorePayer
  <1>2. payerFile.state \in {"absent", "damaged"}
    BY DEF RestorePayer
  <1>3. ASSUME NEW k \in Preparers, Kept(k) PROVE Kept(k)'
    <2>1. ASSUME NEW j \in aside, payerFile.state = "absent",
                 payerFile' = [state |-> "complete", key |-> j], aside' = aside \ {j}
          PROVE  Kept(k)'
      BY <1>3, <2>1 DEF Kept
    <2>2. CASE payerFile' = [payerFile EXCEPT !.state = "complete"] /\ aside' = aside
      <3>1. payerFile'.key = payerFile.key /\ payerFile'.state = "complete"
        BY <2>2 DEF Inv, Shared, PayerFiles
      <3> QED BY <1>3, <2>2, <3>1 DEF Kept
    <2> QED BY <2>1, <2>2 DEF RestorePayer
  <1>4. /\ payerFile' \in PayerFiles /\ aside' \subseteq Preparers
        /\ payerFile'.state # "absent" => payerFile'.key # None
    BY DEF RestorePayer, Inv, Shared, PayerFiles, PreparationAssumption
  <1>5. Shared'
    BY <1>1, <1>3, <1>4 DEF Inv, Shared, chain
  <1>6. ASSUME NEW s \in Runs PROVE Process(s, run[s])'
    <2>1. Process(s, run[s])
      BY DEF Inv, Processes
    <2>2. run[s].pc # "fill_payer"
      BY <1>2, <2>1 DEF Process, Writes, Empty
    <2>3. KnowsPayer(run[s])'
      BY <1>1, <1>2, <1>3, <2>1 DEF Process, KnowsPayer
    <2> QED BY <1>1, <2>1, <2>2, <2>3 DEF Process, Writes, Claims, Claimed, Held, Covered, Signer,
                                          Explained, chain
  <1> QED BY <1>1, <1>5, <1>6, OthersStep

LEMMA MoveIssuerAsideStep ==
    ASSUME PreparationAssumption, Inv, MoveIssuerAside
    PROVE  Inv'
PROOF
  <1>1. /\ UNCHANGED <<run, payerFile, aside, edits, chain, announced, claims>>
        /\ issuerFile' = NoIssuerFile
    BY DEF MoveIssuerAside
  <1>2. Shared'
    BY <1>1 DEF Inv, Shared, Kept, chain, NoIssuerFile, IssuerFiles, PreparationAssumption
  <1>3. ASSUME NEW s \in Runs PROVE Process(s, run[s])'
    <2>1. Process(s, run[s])
      BY DEF Inv, Processes
    <2>2. run[s].pc # "fill_issuer"
      BY <2>1 DEF MoveIssuerAside, Process, Held, Ready, At
    <2> QED BY <1>1, <2>1, <2>2 DEF Process, Writes, Claims, Claimed, KnowsPayer, Kept, Held, Covered,
                    Signer, Explained, chain, NoIssuerFile, PreparationAssumption
  <1> QED BY <1>1, <1>2, <1>3, OthersStep

-----------------------------------------------------------------------------
(* The theorems. *)

LEMMA InitInv ==
    ASSUME PreparationAssumption, Init
    PROVE  Inv
PROOF
  <1>1. Fresh \in Records
    BY DEF Fresh, Records, Places
  <1>2. Shared
    BY DEF Init, Shared, NoFile, NoIssuerFile, PayerFiles, IssuerFiles, PreparationAssumption
  <1>3. ASSUME NEW s \in Runs PROVE Process(s, run[s])
    <2>1. run[s] = Fresh
      BY DEF Init
    <2>2. run[s] \in Records /\ run[s].pc = "begin" /\ ~ run[s].clean
      BY <1>1, <2>1 DEF Fresh
    <2> QED BY <2>2 DEF Init, Process, Writes, Claims, Claimed, KnowsPayer, Held, Signer, Explained,
                  Checking, Ready, Signing, Knowing, Issuing, NoIssuerFile, PreparationAssumption
  <1> QED BY <1>1, <1>2, <1>3 DEF Init, Inv, Processes

LEMMA NextInv ==
    ASSUME PreparationAssumption, Inv, [Next]_vars
    PROVE  Inv'
PROOF
  <1>1. CASE UNCHANGED vars
    <2>1. UNCHANGED <<run, files, chain, announced, claims>>
      BY <1>1 DEF vars
    <2>2. Shared'
      BY <2>1 DEF Inv, Shared, Kept, files, chain
    <2>3. ASSUME NEW s \in Runs PROVE Process(s, run[s])'
      BY <2>1 DEF Inv, Processes, Process, Writes, Claims, Claimed, KnowsPayer, Kept, Held, Covered,
                  Signer, Explained, files, chain
    <2> QED BY <2>1, <2>2, <2>3, OthersStep
  <1>2. ASSUME NEW r \in Runs, Preflight(r) PROVE Inv'
    BY <1>2, BeginStep, LoadPayerStep, CreatePayerStep, FillPayerStep, AskChainIdStep,
       AskBalanceStep, AskFacilitatorStep DEF Preflight
  <1>3. ASSUME NEW r \in Lives, Live(r) PROVE Inv'
    BY <1>3, LoadIssuerStep, CreateIssuerStep, FillIssuerStep, LoadSignerStep, PayStep DEF Live
  <1>4. CASE Fund
    <2>1. faucet' \in Nat
      BY <1>4 DEF Fund, Inv, Shared
    <2> QED BY <1>4, <2>1, FundStep, PreparationAssumption
  <1>5. CASE DisturbPayer
    BY <1>5, DisturbPayerStep
  <1>6. CASE RestorePayer
    BY <1>6, RestorePayerStep
  <1>7. CASE MoveIssuerAside
    BY <1>7, MoveIssuerAsideStep
  <1> QED BY <1>1, <1>2, <1>3, <1>4, <1>5, <1>6, <1>7 DEF Next

LEMMA SpecInv == Spec => []Inv
PROOF
  <1>1. Init => Inv
    BY InitInv, PreparationAssumption
  <1>2. Inv /\ [Next]_vars => Inv'
    BY NextInv, PreparationAssumption
  <1> QED BY <1>1, <1>2, PTL DEF Spec

(* The invariant of the files, the checks and the claims holds throughout,  *)
(* and with it every printed address keeps its key (preflight.ts,           *)
(* payer-key.ts, issuer-key.ts, and the start of main in live-e2e.ts).      *)
THEOREM Invariance == Spec => []IInv
  BY SpecInv, InvIsIInv, PTL

(* Nothing that prepares a wallet, and nothing the operator does to the     *)
(* payer key file, loses the key of an address that was printed             *)
(* (createPayerKeyFile).                                                    *)
THEOREM FundsTheorem == Spec => []FundsAreReachable
PROOF
  <1>1. IInv => FundsAreReachable
    BY DEF IInv
  <1> QED BY <1>1, Invariance, PTL

(* One signing key speaks for one issuer, for any number of live runs with  *)
(* any issuers configured (resolveIssuerKey).                               *)
THEOREM IssuerTheorem == Spec => []OneIssuerPerKey
PROOF
  <1>1. IInv => OneIssuerPerKey
    BY DEF IInv, IssuersOwn, OneIssuerPerKey
  <1> QED BY <1>1, Invariance, PTL

(* A live run pays with the key its preflight read, and somebody else,      *)
(* unless the operator took the key from its file in between (the two       *)
(* readings of the payer key, preflight.ts and live-e2e.ts).                *)
THEOREM PaidAsCheckedTheorem == Spec => []PaidAsChecked
PROOF
  <1>1. IInv => PaidAsChecked
    BY DEF IInv, TypeOK, ChecksHeld, SignersKnown, PaidAsChecked, Runs, Signing, Checking, Ready
  <1> QED BY <1>1, Invariance, PTL

(* A payment finds too little on the account only if another run paid from  *)
(* it since the preflight asked for the balance (checkChainState).          *)
THEOREM UncoveredTheorem == Spec => []UncoveredIsExplained
  BY SpecInv, InvIsIInv, PTL
=============================================================================
