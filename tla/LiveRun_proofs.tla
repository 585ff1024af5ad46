----------------------------- MODULE LiveRun_proofs -----------------------------
(***************************************************************************)
(* What is proved of LiveRun for any number of runs, identifiers and moves *)
(* of the issuer key file, whatever runs are killed or refused a write.    *)
(***************************************************************************)
EXTENDS LiveRun, TLAPS

Records == [pc : Places, stage : Stages \cup {None}, id : Ids \cup {None}, key : Nat,
            signer : Nat, exchange : Exchanges \cup {None}, poll : Polls \cup {None}]
Files == [state : {"absent", "partial", "complete"}, by : Runs \cup {None}, key : Nat]
Directories == [state : {"absent", "partial", "written", "noted"}, by : Runs \cup {None},
                key : Nat, result : BOOLEAN]
Attempts == [state : {"absent", "begun", "blank", "completed", "failed"},
             by : Runs \cup {None}, stage : Stages \cup {None}]
Materials == [by : Runs \cup {None}, stage : Stages \cup {None},
              exchange : Exchanges \cup {None}, poll : Polls \cup {None}]

Types ==
    /\ run \in [Runs -> Records]
    /\ issuerFile \in Files /\ generated \in Nat
    /\ published \in [Ids -> Files]
    /\ attempt \in [Ids -> Attempts]
    /\ material \in [Ids -> Materials]
    /\ staged \in [Runs -> Directories] /\ final \in [Ids -> Directories]
    /\ spent \subseteq Runs

\* The identifier is the run's, and its public key file is written.
Owns(r) ==
    /\ run[r].id \in Ids
    /\ published[run[r].id].state = "complete"
    /\ published[run[r].id].by = r
    /\ published[run[r].id].key = run[r].key

\* What a run knows, at each place and stage.
StageOf(r) ==
    /\ run[r].pc \in {"preflight", "prepare", "claim", "publish", "begin"} => run[r].stage = None
    /\ run[r].pc \in {"listen", "pay"} => run[r].stage = "payment_exchange"
    /\ run[r].pc = "observe" => run[r].stage = "rpc_observation"
    /\ run[r].pc = "assemble" => run[r].stage = "evidence_assembly"
    /\ run[r].pc \in {"stage", "write", "verify", "move", "rename", "record", "recorded",
                     "copy", "tamper"}
          => run[r].stage = "evidence_finalization"
    /\ run[r].pc \in {"resolve", "create", "fill"}
          => run[r].stage \in {None, "evidence_assembly"}
    /\ run[r].pc \in {"preserve", "mark", "marked"} => run[r].stage # None
    /\ run[r].stage \in {"rpc_observation", "evidence_assembly", "evidence_finalization"}
          => run[r].exchange \in Exchanges

OutputsOf(r) ==
    /\ run[r].stage # None => Owns(r) /\ attempt[run[r].id].by = r
    /\ run[r].pc \in {"claim", "publish"} => run[r].id \in Ids
    /\ run[r].pc = "publish" =>
          /\ published[run[r].id].state = "partial" /\ published[run[r].id].by = r
          /\ published[run[r].id].key = run[r].key
    /\ run[r].pc = "begin" => Owns(r)
    /\ run[r].pc \in {"write", "verify", "move", "rename"} =>
          staged[r].by = r /\ staged[r].result = run[r].exchange.result
    /\ run[r].pc \in {"move", "rename"} =>
          staged[r].state = "noted" /\ staged[r].key = run[r].key
    /\ run[r].pc \in {"record", "recorded", "copy", "tamper"} =>
          final[run[r].id].by = r /\ final[run[r].id].result = run[r].exchange.result

SpendingOf(r) ==
    r \in spent =>
        /\ run[r].stage # None
        /\ run[r].stage # "payment_exchange" => run[r].exchange.result = TRUE
        /\ run[r].pc \in Ended /\ r \notin Faulty => run[r].pc \in {"failed", "passed", "not_passed"}

RunInv(r) == StageOf(r) /\ OutputsOf(r) /\ SpendingOf(r)

\* Whatever lies under an identifier is of the run that published its key there.
FileInv(i) ==
    /\ attempt[i].by # None =>
          published[i].state = "complete" /\ published[i].by = attempt[i].by
    /\ material[i].by # None =>
          published[i].state = "complete" /\ published[i].by = material[i].by
    /\ final[i].by # None =>
          /\ published[i].state = "complete" /\ published[i].by = final[i].by
          /\ published[i].key = final[i].key /\ final[i].state = "noted"
    /\ final[i].by = None => final[i] = NoDirectory

LiveInv == Types /\ (\A r \in Runs : RunInv(r)) /\ (\A i \in Ids : FileInv(i))

\* A step of one run that touches no output but its own staging directory.
LEMMA QuietStep ==
    ASSUME LiveInv, Types', NEW r \in Runs,
           \A q \in Runs \ {r} : /\ run'[q] = run[q] /\ staged'[q] = staged[q]
                                 /\ q \in spent' <=> q \in spent,
           UNCHANGED <<published, attempt, material, final>>,
           RunInv(r)'
    PROVE  LiveInv'
<1>1. ASSUME NEW q \in Runs  PROVE RunInv(q)'
  <2>1. CASE q = r
    BY <2>1
  <2>2. CASE q # r
    <3>1. RunInv(q)
      BY DEF LiveInv
    <3> QED  BY <2>2, <3>1 DEF RunInv, StageOf, OutputsOf, Owns, SpendingOf
  <2> QED  BY <2>1, <2>2
<1>2. ASSUME NEW i \in Ids  PROVE FileInv(i)'
  <2>1. FileInv(i)
    BY DEF LiveInv
  <2> QED  BY <2>1 DEF FileInv
<1> QED  BY <1>1, <1>2 DEF LiveInv

\* Only the place of one run changes.
LEMMA GotoStep ==
    ASSUME Types, NEW r \in Runs, NEW p \in Places, Goto(r, p)
    PROVE  /\ run' \in [Runs -> Records]
           /\ \A q \in Runs \ {r} : run'[q] = run[q]
           /\ run'[r].pc = p
           /\ run'[r].stage = run[r].stage /\ run'[r].id = run[r].id
           /\ run'[r].key = run[r].key /\ run'[r].signer = run[r].signer
           /\ run'[r].exchange = run[r].exchange /\ run'[r].poll = run[r].poll
  BY DEF Goto, Types, Records

LEMMA ThrowStep ==
    ASSUME NEW r \in Runs, Throw(r)
    PROVE  \E p \in Places :
              /\ Goto(r, p)
              /\ \/ p = "preserve" /\ run[r].stage # None
                 \/ p = "escaped" /\ (run[r].stage = None \/ run[r].pc \in Past)
  BY DEF Throw, Places, Past, Ended

\* A throw keeps what is known, if a run that spent throws where it is caught.
LEMMA ThrowQuiet ==
    ASSUME LiveInv, NEW r \in Runs, Throw(r), UNCHANGED <<keys, outputs, spent>>,
           r \in spent \ Faulty => run[r].pc \notin Past
    PROVE  LiveInv'
<1>1. PICK p \in Places :
         /\ Goto(r, p)
         /\ \/ p = "preserve" /\ run[r].stage # None
            \/ p = "escaped" /\ (run[r].stage = None \/ run[r].pc \in Past)
  BY ThrowStep
<1>2. Types
  BY DEF LiveInv
<1>3. /\ \A q \in Runs \ {r} : run'[q] = run[q]
      /\ run'[r].pc = p
      /\ run'[r].stage = run[r].stage /\ run'[r].id = run[r].id
      /\ run'[r].key = run[r].key /\ run'[r].exchange = run[r].exchange
  BY <1>1, <1>2, GotoStep
<1>4. Types'
  BY <1>1, <1>2, GotoStep DEF Types, keys, outputs
<1>5. RunInv(r)
  BY DEF LiveInv
<1>6. RunInv(r)'
  <2>1. StageOf(r)'
    BY <1>1, <1>3, <1>5 DEF RunInv, StageOf, Past
  <2>2. OutputsOf(r)'
    BY <1>1, <1>3, <1>5 DEF RunInv, OutputsOf, Owns, outputs
  <2>3. SpendingOf(r)'
    BY <1>1, <1>3, <1>5 DEF RunInv, SpendingOf, Ended
  <2> QED  BY <2>1, <2>2, <2>3 DEF RunInv
<1> QED  BY <1>3, <1>4, <1>6, QuietStep DEF keys, outputs

-----------------------------------------------------------------------------
(* Before the payment. *)

\* One step for the steps that lead to a place that is no end, without a throw.
LEMMA GotoQuiet ==
    ASSUME LiveInv, NEW r \in Runs, NEW p \in Places, Goto(r, p), Types',
           \A q \in Runs \ {r} : staged'[q] = staged[q],
           UNCHANGED <<published, attempt, material, final, spent>>,
           RunInv(r)'
    PROVE  LiveInv'
<1>1. \A q \in Runs \ {r} : run'[q] = run[q]
  BY GotoStep DEF LiveInv
<1> QED  BY <1>1, QuietStep

LEMMA PreflightStep == ASSUME LiveInv, NEW r \in Runs, Preflight(r)  PROVE LiveInv'
<1>1. PICK p \in {"stopped", "resolve"} : Goto(r, p)
  BY DEF Preflight
<1>2. p \in Places /\ Types /\ RunInv(r)
  BY DEF Places, Ended, LiveInv
<1>3. /\ run'[r].pc = p /\ run'[r].stage = run[r].stage /\ run'[r].id = run[r].id
      /\ run' \in [Runs -> Records]
  BY <1>1, <1>2, GotoStep
<1>4. Types' /\ UNCHANGED <<published, attempt, material, staged, final, spent>>
  BY <1>2, <1>3 DEF Preflight, Types, keys, outputs
<1>5. run[r].stage = None /\ r \notin spent
  BY <1>2 DEF Preflight, At, RunInv, StageOf, SpendingOf
<1>6. RunInv(r)'
  BY <1>2, <1>3, <1>4, <1>5, NoneAssumption DEF RunInv, Stages, StageOf, OutputsOf, SpendingOf, Owns
<1> QED  BY <1>1, <1>2, <1>4, <1>6, GotoQuiet

LEMMA ResolvedStep ==
    ASSUME LiveInv, NEW r \in Runs, NEW k \in Nat, Resolved(r, k),
           run[r].pc \in {"resolve", "fill"},
           UNCHANGED <<outputs, spent>>, issuerFile' \in Files, generated' \in Nat
    PROVE  LiveInv'
<1>1. Types /\ RunInv(r)
  BY DEF LiveInv
<1>2. run[r].stage \in {None, "evidence_assembly"}
  BY <1>1 DEF RunInv, StageOf
<1>3. /\ run' \in [Runs -> Records]
      /\ \A q \in Runs \ {r} : run'[q] = run[q]
      /\ run'[r].stage = run[r].stage /\ run'[r].id = run[r].id
      /\ run'[r].exchange = run[r].exchange
      /\ run[r].stage = None => run'[r].pc = "prepare"
      /\ run[r].stage # None => run'[r].pc = "assemble" /\ run'[r].key = run[r].key
  BY <1>1 DEF Resolved, Types, Records, Places
<1>4. Types' /\ UNCHANGED <<published, attempt, material, staged, final, spent>>
  BY <1>1, <1>3 DEF Types, outputs
<1>5. RunInv(r)'
  <2>1. CASE run[r].stage = None
    BY <2>1, <1>1, <1>3, <1>4, NoneAssumption DEF RunInv, Stages, StageOf, OutputsOf, SpendingOf, Owns
  <2>2. CASE run[r].stage # None
    <3>1. StageOf(r)'
      BY <2>2, <1>1, <1>2, <1>3 DEF RunInv, StageOf
    <3>2. OutputsOf(r)'
      BY <2>2, <1>1, <1>3, <1>4 DEF RunInv, OutputsOf, Owns
    <3>3. SpendingOf(r)'
      BY <2>2, <1>1, <1>3, <1>4 DEF RunInv, SpendingOf, Ended
    <3> QED  BY <3>1, <3>2, <3>3 DEF RunInv
  <2> QED  BY <2>1, <2>2
<1> QED  BY <1>3, <1>4, <1>5, QuietStep

LEMMA LoadKeyStep == ASSUME LiveInv, NEW r \in Runs, LoadKey(r)  PROVE LiveInv'
<1>1. Types /\ RunInv(r) /\ run[r].pc = "resolve" /\ UNCHANGED <<keys, outputs, spent>>
  BY DEF LiveInv, LoadKey, At
<1>2. CASE Resolved(r, issuerFile.key)
  BY <1>1, <1>2, ResolvedStep DEF Types, Files, keys
<1>3. CASE Throw(r)
  BY <1>1, <1>3, ThrowQuiet DEF Past
<1>4. CASE Goto(r, "create")
  <2>1. /\ run'[r].pc = "create" /\ run'[r].stage = run[r].stage /\ run'[r].id = run[r].id
        /\ run'[r].key = run[r].key /\ run'[r].exchange = run[r].exchange
        /\ run' \in [Runs -> Records] /\ "create" \in Places
    BY <1>1, <1>4, GotoStep DEF Places
  <2>2. Types' /\ UNCHANGED <<published, attempt, material, staged, final, spent>>
    BY <1>1, <2>1 DEF Types, keys, outputs
  <2>3. RunInv(r)'
    BY <1>1, <2>1, <2>2 DEF RunInv, StageOf, OutputsOf, SpendingOf, Owns, Ended
  <2> QED  BY <1>4, <2>1, <2>2, <2>3, GotoQuiet
<1> QED  BY <1>2, <1>3, <1>4 DEF LoadKey

LEMMA CreateKeyFileStep == ASSUME LiveInv, NEW r \in Runs, CreateKeyFile(r)  PROVE LiveInv'
<1>1. Types /\ RunInv(r) /\ run[r].pc = "create" /\ UNCHANGED <<outputs, spent>>
  BY DEF LiveInv, CreateKeyFile, At
<1>2. CASE Throw(r) /\ UNCHANGED <<issuerFile, generated>>
  <2>1. UNCHANGED <<keys, outputs, spent>>
    BY <1>2 DEF CreateKeyFile, keys
  <2> QED  BY <1>1, <1>2, <2>1, ThrowQuiet DEF Past
<1>3. CASE /\ Goto(r, "fill") /\ generated' = generated + 1
           /\ issuerFile' = [state |-> "partial", by |-> r, key |-> generated + 1]
  <2>1. /\ run'[r].pc = "fill" /\ run'[r].stage = run[r].stage /\ run'[r].id = run[r].id
        /\ run'[r].key = run[r].key /\ run'[r].exchange = run[r].exchange
        /\ run' \in [Runs -> Records] /\ "fill" \in Places
    BY <1>1, <1>3, GotoStep DEF Places
  <2>2. Types' /\ UNCHANGED <<published, attempt, material, staged, final, spent>>
    BY <1>1, <1>3, <2>1 DEF Types, outputs, Files
  <2>3. RunInv(r)'
    BY <1>1, <2>1, <2>2 DEF RunInv, StageOf, OutputsOf, SpendingOf, Owns, Ended
  <2> QED  BY <1>3, <2>1, <2>2, <2>3, GotoQuiet
<1> QED  BY <1>2, <1>3 DEF CreateKeyFile

LEMMA FillKeyFileStep == ASSUME LiveInv, NEW r \in Runs, FillKeyFile(r)  PROVE LiveInv'
<1>1. issuerFile' \in Files /\ generated' \in Nat /\ issuerFile.key \in Nat
  BY DEF LiveInv, Types, FillKeyFile, Files
<1> QED  BY <1>1, ResolvedStep DEF FillKeyFile, At

LEMMA PrepareStep == ASSUME LiveInv, NEW r \in Runs, Prepare(r)  PROVE LiveInv'
<1>1. Types /\ RunInv(r) /\ run[r].pc = "prepare" /\ UNCHANGED <<keys, outputs, spent>>
  BY DEF LiveInv, Prepare, At
<1>2. CASE Throw(r)
  BY <1>1, <1>2, ThrowQuiet DEF Past
<1>3. CASE \E i \in Ids : run' = [run EXCEPT ![r].id = i, ![r].pc = "claim"]
  <2>1. /\ run'[r].pc = "claim" /\ run'[r].stage = run[r].stage /\ run'[r].id \in Ids
        /\ run' \in [Runs -> Records] /\ \A q \in Runs \ {r} : run'[q] = run[q]
    BY <1>1, <1>3 DEF Places, Types, Records
  <2>2. Types' /\ UNCHANGED <<published, attempt, material, staged, final, spent>>
    BY <1>1, <2>1 DEF Types, keys, outputs
  <2>3. run[r].stage = None /\ r \notin spent
    BY <1>1 DEF RunInv, StageOf, SpendingOf
  <2>4. RunInv(r)'
    BY <1>1, <2>1, <2>2, <2>3, NoneAssumption DEF RunInv, Stages, StageOf, OutputsOf, SpendingOf, Owns, Ended
  <2> QED  BY <2>1, <2>2, <2>4, QuietStep
<1> QED  BY <1>2, <1>3 DEF Prepare


\* What a step of one run writes under its own identifier.
LEMMA OwnStep ==
    ASSUME LiveInv, Types', NEW r \in Runs, NEW i \in Ids, run[r].id = i, Owns(r),
           \A q \in Runs \ {r} : /\ run'[q] = run[q] /\ staged'[q] = staged[q]
                                 /\ q \in spent' <=> q \in spent,
           UNCHANGED published,
           \A j \in Ids \ {i} : /\ attempt'[j] = attempt[j] /\ material'[j] = material[j]
                                /\ final'[j] = final[j],
           RunInv(r)', FileInv(i)'
    PROVE  LiveInv'
<1>1. ASSUME NEW q \in Runs \ {r}  PROVE RunInv(q)'
  <2>1. RunInv(q) /\ run'[q] = run[q] /\ (run[q].stage = None \/ run[q].stage # None)
    BY DEF LiveInv
  <2>2. Owns(q) => run[q].id \in Ids \ {i}
    BY DEF Owns
  <2>3. StageOf(q)' /\ SpendingOf(q)'
    BY <2>1 DEF RunInv, StageOf, SpendingOf
  <2>4. OutputsOf(q)'
    <3>1. Owns(q) => Owns(q)' /\ attempt'[run[q].id] = attempt[run[q].id]
                              /\ final'[run[q].id] = final[run[q].id]
      BY <2>1, <2>2 DEF Owns
    <3>2. run[q].pc \in {"record", "recorded", "copy", "tamper"} => run[q].stage # None
      BY <2>1, NoneAssumption DEF RunInv, StageOf, Stages
    <3> QED  BY <2>1, <3>1, <3>2 DEF RunInv, OutputsOf
  <2> QED  BY <2>3, <2>4 DEF RunInv
<1>2. ASSUME NEW j \in Ids \ {i}  PROVE FileInv(j)'
  <2>1. FileInv(j)
    BY DEF LiveInv
  <2> QED  BY <2>1 DEF FileInv
<1> QED  BY <1>1, <1>2 DEF LiveInv

LEMMA ClaimStep == ASSUME LiveInv, NEW r \in Runs, Claim(r)  PROVE LiveInv'
<1> DEFINE i == run[r].id
<1>1. Types /\ RunInv(r) /\ run[r].pc = "claim" /\ i \in Ids
  BY DEF LiveInv, Claim, At, RunInv, OutputsOf
<1>2. CASE Throw(r) /\ UNCHANGED published
  <2>1. UNCHANGED <<keys, outputs, spent>>
    BY <1>2 DEF Claim, outputs
  <2> QED  BY <1>1, <1>2, <2>1, ThrowQuiet DEF Past
<1>3. CASE /\ published[i].state = "absent" /\ Goto(r, "publish")
           /\ published' = [published EXCEPT ![i] =
                                [state |-> "partial", by |-> r, key |-> run[r].key]]
  <2>1. /\ run'[r].pc = "publish" /\ run'[r].stage = run[r].stage /\ run'[r].id = i
        /\ run'[r].key = run[r].key
        /\ \A q \in Runs \ {r} : run'[q] = run[q]
        /\ run' \in [Runs -> Records] /\ "publish" \in Places
    BY <1>1, <1>3, GotoStep DEF Places
  <2>2. UNCHANGED <<issuerFile, generated, attempt, material, staged, final, spent>>
    BY DEF Claim, keys
  <2>3. Types'
    BY <1>1, <1>3, <2>1, <2>2 DEF Types, Files, Records
  <2>4. run[r].stage = None /\ r \notin spent
    BY <1>1 DEF RunInv, StageOf, SpendingOf
  <2>5. ASSUME NEW q \in Runs  PROVE RunInv(q)'
    <3>1. CASE q = r
      BY <1>1, <1>3, <2>1, <2>2, <2>4, <3>1, NoneAssumption
      DEF RunInv, Stages, StageOf, OutputsOf, SpendingOf, Owns, Types
    <3>2. CASE q # r
      <4>1. RunInv(q) /\ run'[q] = run[q]
        BY <2>1, <3>2 DEF LiveInv
      <4>2. Owns(q) => Owns(q)'
        BY <1>1, <1>3, <4>1 DEF Owns, Types
      <4> QED  BY <1>1, <1>3, <2>2, <4>1, <4>2
               DEF RunInv, StageOf, OutputsOf, SpendingOf, Types
    <3> QED  BY <3>1, <3>2
  <2>6. ASSUME NEW j \in Ids  PROVE FileInv(j)'
    <3>1. FileInv(j)
      BY DEF LiveInv
    <3> QED  BY <1>1, <1>3, <2>2, <3>1 DEF FileInv, Types
  <2> QED  BY <2>3, <2>5, <2>6 DEF LiveInv
<1> QED  BY <1>2, <1>3 DEF Claim

LEMMA PublishStep == ASSUME LiveInv, NEW r \in Runs, Publish(r)  PROVE LiveInv'
<1> DEFINE i == run[r].id
<1>1. /\ Types /\ RunInv(r) /\ run[r].pc = "publish" /\ i \in Ids
      /\ published[i].state = "partial" /\ published[i].by = r /\ published[i].key = run[r].key
  BY DEF LiveInv, Publish, At, RunInv, OutputsOf
<1>2. /\ Goto(r, "begin") /\ published' = [published EXCEPT ![i].state = "complete"]
      /\ UNCHANGED <<issuerFile, generated, attempt, material, staged, final, spent>>
  BY DEF Publish, keys
<1>3. /\ run'[r].pc = "begin" /\ run'[r].stage = run[r].stage /\ run'[r].id = i
      /\ run'[r].key = run[r].key
      /\ \A q \in Runs \ {r} : run'[q] = run[q]
      /\ run' \in [Runs -> Records] /\ "begin" \in Places
  BY <1>1, <1>2, GotoStep DEF Places
<1>4. Types'
  BY <1>1, <1>2, <1>3 DEF Types, Files, Records
<1>5. run[r].stage = None /\ r \notin spent
  BY <1>1 DEF RunInv, StageOf, SpendingOf
<1>6. ASSUME NEW q \in Runs  PROVE RunInv(q)'
  <2>1. CASE q = r
    <3>1. Owns(r)'
      BY <1>1, <1>2, <1>3 DEF Owns, Types, Files
    <3> QED  BY <1>2, <1>3, <1>5, <2>1, <3>1, NoneAssumption
         DEF RunInv, Stages, StageOf, OutputsOf, SpendingOf
  <2>2. CASE q # r
    <3>1. RunInv(q) /\ run'[q] = run[q]
      BY <1>3, <2>2 DEF LiveInv
    <3>2. Owns(q) => Owns(q)'
      BY <1>1, <1>2, <3>1 DEF Owns, Types, Files
    <3> QED  BY <1>1, <1>2, <2>2, <3>1, <3>2
             DEF RunInv, StageOf, OutputsOf, SpendingOf, Types, Files
  <2> QED  BY <2>1, <2>2
<1>7. ASSUME NEW j \in Ids  PROVE FileInv(j)'
  <2>1. FileInv(j)
    BY DEF LiveInv
  <2> QED  BY <1>1, <1>2, <2>1 DEF FileInv, Types, Files
<1> QED  BY <1>4, <1>6, <1>7 DEF LiveInv

LEMMA BeginStep == ASSUME LiveInv, NEW r \in Runs, Begin(r)  PROVE LiveInv'
<1>1. Types /\ RunInv(r) /\ run[r].pc = "begin" /\ Owns(r)
  BY DEF LiveInv, Begin, At, RunInv, OutputsOf
<1>0. PICK i \in Ids : run[r].id = i
  BY <1>1 DEF Owns
<1>2. /\ attempt' = [attempt EXCEPT ![i] = [state |-> "begun", by |-> r, stage |-> None]]
      /\ UNCHANGED <<issuerFile, generated, published, material, staged, final, spent>>
  BY <1>0 DEF Begin, keys
<1>3. /\ run'[r].pc = "listen" /\ run'[r].stage = "payment_exchange" /\ run'[r].id = i
      /\ run'[r].key = run[r].key
      /\ \A q \in Runs \ {r} : run'[q] = run[q]
      /\ run' \in [Runs -> Records]
  <2>1. "listen" \in Places /\ "payment_exchange" \in Stages
    BY DEF Places, Stages
  <2>2. run' = [run EXCEPT ![r].pc = "listen", ![r].stage = "payment_exchange"]
    BY DEF Begin
  <2>3. run[r] \in Records /\ run \in [Runs -> Records]
    BY <1>1 DEF Types
  <2>4. [run[r] EXCEPT !.pc = "listen", !.stage = "payment_exchange"] \in Records
    BY <2>1, <2>3 DEF Records
  <2>5. run'[r] = [run[r] EXCEPT !.pc = "listen", !.stage = "payment_exchange"]
    BY <2>2, <2>3
  <2>6. /\ run'[r].pc = "listen" /\ run'[r].stage = "payment_exchange" /\ run'[r].id = i
        /\ run'[r].key = run[r].key
    BY <1>0, <2>3, <2>5 DEF Records
  <2> QED  BY <2>2, <2>3, <2>4, <2>6
<1>4. Types'
  BY <1>1, <1>2, <1>3 DEF Types, Attempts
<1>5. run[r].stage = None /\ r \notin spent
  BY <1>1 DEF RunInv, StageOf, SpendingOf
<1>6. Owns(r)' /\ attempt'[i].by = r
  BY <1>0, <1>1, <1>2, <1>3 DEF Owns, Types
<1>7. RunInv(r)'
  BY <1>2, <1>3, <1>5, <1>6 DEF RunInv, StageOf, OutputsOf, SpendingOf
<1>8. FileInv(i)
  BY <1>1 DEF LiveInv
<1>9. FileInv(i)'
  BY <1>0, <1>1, <1>2, <1>8 DEF FileInv, Owns, Types
<1> QED  BY <1>0, <1>1, <1>2, <1>3, <1>4, <1>7, <1>9, OwnStep


-----------------------------------------------------------------------------
(* The phases. *)

LEMMA ListenStep == ASSUME LiveInv, NEW r \in Runs, Listen(r)  PROVE LiveInv'
<1>1. Types /\ RunInv(r) /\ run[r].pc = "listen" /\ UNCHANGED <<keys, outputs, spent>>
  BY DEF LiveInv, Listen, At
<1>2. CASE Throw(r)
  BY <1>1, <1>2, ThrowQuiet DEF Past
<1>3. CASE Goto(r, "pay")
  <2>1. /\ run'[r].pc = "pay" /\ run'[r].stage = run[r].stage /\ run'[r].id = run[r].id
        /\ run'[r].key = run[r].key /\ run'[r].exchange = run[r].exchange
        /\ run' \in [Runs -> Records] /\ "pay" \in Places
    BY <1>1, <1>3, GotoStep DEF Places
  <2>2. Types' /\ UNCHANGED <<published, attempt, material, staged, final, spent>>
    BY <1>1, <2>1 DEF Types, keys, outputs
  <2>3. RunInv(r)'
    BY <1>1, <2>1, <2>2 DEF RunInv, StageOf, OutputsOf, SpendingOf, Owns, Ended
  <2> QED  BY <1>3, <2>1, <2>2, <2>3, GotoQuiet
<1> QED  BY <1>2, <1>3 DEF Listen

LEMMA TransferStep == ASSUME LiveInv, NEW r \in Runs, Transfer(r)  PROVE LiveInv'
<1>1. Types /\ RunInv(r) /\ run[r].pc = "pay" /\ run[r].stage = "payment_exchange"
  BY DEF LiveInv, Transfer, At, RunInv, StageOf
<1>2. UNCHANGED <<run, issuerFile, generated, published, attempt, material, staged, final>>
  BY DEF Transfer, keys, outputs
<1>3. spent' = spent \cup {r}
  BY DEF Transfer
<1>4. Types'
  BY <1>1, <1>2, <1>3 DEF Types
<1>5. SpendingOf(r)'
  BY <1>1, <1>2, NoneAssumption DEF SpendingOf, Ended, Stages
<1>6. RunInv(r)'
  BY <1>1, <1>2, <1>5 DEF RunInv, StageOf, OutputsOf, Owns
<1> QED  BY <1>2, <1>3, <1>4, <1>6, QuietStep

LEMMA PayThrowsStep == ASSUME LiveInv, NEW r \in Runs, PayThrows(r)  PROVE LiveInv'
  BY ThrowQuiet DEF PayThrows, At, Past

LEMMA PayReturnsStep == ASSUME LiveInv, NEW r \in Runs, PayReturns(r)  PROVE LiveInv'
<1>1. Types /\ RunInv(r) /\ run[r].pc = "pay" /\ run[r].stage = "payment_exchange"
  BY DEF LiveInv, PayReturns, At, RunInv, StageOf
<1>2. PICK e \in Exchanges :
        /\ r \in spent => e.result
        /\ run' = [run EXCEPT ![r].exchange = e, ![r].stage = "rpc_observation",
                              ![r].pc = "observe"]
  BY DEF PayReturns
<1>3. "observe" \in Places /\ "rpc_observation" \in Stages
  BY DEF Places, Stages
<1>4. /\ run'[r].pc = "observe" /\ run'[r].stage = "rpc_observation" /\ run'[r].id = run[r].id
      /\ run'[r].key = run[r].key /\ run'[r].exchange = e
      /\ \A q \in Runs \ {r} : run'[q] = run[q]
      /\ run' \in [Runs -> Records]
  BY <1>1, <1>2, <1>3 DEF Types, Records
<1>5. UNCHANGED <<issuerFile, generated, published, attempt, material, staged, final, spent>>
  BY DEF PayReturns, keys, outputs
<1>6. Types'
  BY <1>1, <1>4, <1>5 DEF Types
<1>7. e.result \in BOOLEAN
  BY <1>2 DEF Exchanges
<1>8. StageOf(r)' /\ SpendingOf(r)'
  BY <1>2, <1>4, <1>5, <1>7, NoneAssumption DEF StageOf, SpendingOf, Stages, Ended
<1>9. OutputsOf(r)'
  <2>1. Owns(r) /\ attempt[run[r].id].by = r
    BY <1>1, NoneAssumption DEF RunInv, OutputsOf, Stages
  <2> QED  BY <1>4, <1>5, <2>1 DEF OutputsOf, Owns
<1> QED  BY <1>4, <1>5, <1>6, <1>8, <1>9, QuietStep DEF RunInv

LEMMA ObserveStep == ASSUME LiveInv, NEW r \in Runs, Observe(r)  PROVE LiveInv'
<1>1. Types /\ RunInv(r) /\ run[r].pc = "observe" /\ run[r].stage = "rpc_observation"
  BY DEF LiveInv, Observe, At, RunInv, StageOf
<1>2. PICK poll \in Polls :
        run' = [run EXCEPT ![r].poll = poll, ![r].stage = "evidence_assembly",
                           ![r].pc = "resolve"]
  BY DEF Observe
<1>3. "resolve" \in Places /\ "evidence_assembly" \in Stages
  BY DEF Places, Stages
<1>4. /\ run'[r].pc = "resolve" /\ run'[r].stage = "evidence_assembly"
      /\ run'[r].id = run[r].id /\ run'[r].key = run[r].key
      /\ run'[r].exchange = run[r].exchange
      /\ \A q \in Runs \ {r} : run'[q] = run[q]
      /\ run' \in [Runs -> Records]
  BY <1>1, <1>2, <1>3 DEF Types, Records
<1>5. UNCHANGED <<issuerFile, generated, published, attempt, material, staged, final, spent>>
  BY DEF Observe, keys, outputs
<1>6. Types'
  BY <1>1, <1>4, <1>5 DEF Types
<1>7. StageOf(r)'
  BY <1>1, <1>4 DEF RunInv, StageOf
<1>8. SpendingOf(r)'
  BY <1>1, <1>4, <1>5, NoneAssumption DEF RunInv, SpendingOf, Stages, Ended
<1>9. OutputsOf(r)'
  <2>1. Owns(r) /\ attempt[run[r].id].by = r
    BY <1>1, NoneAssumption DEF RunInv, OutputsOf, Stages
  <2> QED  BY <1>4, <1>5, <2>1 DEF OutputsOf, Owns
<1> QED  BY <1>4, <1>5, <1>6, <1>7, <1>8, <1>9, QuietStep DEF RunInv

LEMMA AssembleStep == ASSUME LiveInv, NEW r \in Runs, Assemble(r)  PROVE LiveInv'
<1>1. /\ Types /\ RunInv(r) /\ run[r].pc = "assemble" /\ run[r].stage = "evidence_assembly"
      /\ UNCHANGED <<keys, outputs, spent>>
  BY DEF LiveInv, Assemble, At, RunInv, StageOf
<1>2. CASE Throw(r)
  BY <1>1, <1>2, ThrowQuiet DEF Past
<1>3. CASE run' = [run EXCEPT ![r].stage = "evidence_finalization", ![r].pc = "stage"]
  <2>1. "stage" \in Places /\ "evidence_finalization" \in Stages
    BY DEF Places, Stages
  <2>2. /\ run'[r].pc = "stage" /\ run'[r].stage = "evidence_finalization"
        /\ run'[r].id = run[r].id /\ run'[r].key = run[r].key
        /\ run'[r].exchange = run[r].exchange
        /\ \A q \in Runs \ {r} : run'[q] = run[q]
        /\ run' \in [Runs -> Records]
    BY <1>1, <1>3, <2>1 DEF Types, Records
  <2>3. Types' /\ UNCHANGED <<published, attempt, material, staged, final, spent>>
    BY <1>1, <2>2 DEF Types, keys, outputs
  <2>4. StageOf(r)'
    BY <1>1, <2>2 DEF RunInv, StageOf
  <2>5. SpendingOf(r)'
    BY <1>1, <2>2, <2>3, NoneAssumption DEF RunInv, SpendingOf, Stages, Ended
  <2>6. OutputsOf(r)'
    <3>1. Owns(r) /\ attempt[run[r].id].by = r
      BY <1>1, NoneAssumption DEF RunInv, OutputsOf, Stages
    <3> QED  BY <2>2, <2>3, <3>1 DEF OutputsOf, Owns
  <2> QED  BY <2>2, <2>3, <2>4, <2>5, <2>6, QuietStep DEF RunInv
<1> QED  BY <1>2, <1>3 DEF Assemble

LEMMA StageStep == ASSUME LiveInv, NEW r \in Runs, Stage(r)  PROVE LiveInv'
<1>1. /\ Types /\ RunInv(r) /\ run[r].pc = "stage" /\ run[r].stage = "evidence_finalization"
      /\ UNCHANGED <<keys, published, attempt, material, final, scratch, spent>>
  BY DEF LiveInv, Stage, At, RunInv, StageOf
<1>2. CASE Throw(r) /\ UNCHANGED staged
  BY <1>1, <1>2, ThrowQuiet DEF Past, outputs
<1>3. CASE /\ staged' = [staged EXCEPT ![r] =
                             [state |-> "partial", by |-> r, key |-> run[r].signer,
                              result |-> run[r].exchange.result]]
           /\ Goto(r, "write")
  <2>1. /\ run'[r].pc = "write" /\ run'[r].stage = run[r].stage /\ run'[r].id = run[r].id
        /\ run'[r].key = run[r].key /\ run'[r].exchange = run[r].exchange
        /\ run' \in [Runs -> Records] /\ "write" \in Places
    BY <1>1, <1>3, GotoStep DEF Places
  <2>2. run[r].exchange.result \in BOOLEAN
    BY <1>1 DEF RunInv, StageOf, Exchanges
  <2>3. Types'
    BY <1>1, <1>3, <2>1, <2>2 DEF Types, keys, Directories, Records
  <2>4. staged'[r].by = r /\ staged'[r].result = run[r].exchange.result
    BY <1>1, <1>3 DEF Types
  <2>5. StageOf(r)' /\ SpendingOf(r)' /\ OutputsOf(r)'
    BY <1>1, <2>1, <2>4 DEF RunInv, StageOf, OutputsOf, SpendingOf, Owns, Ended
  <2> QED  BY <1>1, <1>3, <2>1, <2>3, <2>5, GotoQuiet DEF RunInv, Types
<1> QED  BY <1>2, <1>3 DEF Stage


\* A change of its state leaves the rest of a run's staging directory as it is.
LEMMA StagedStep ==
    ASSUME Types, NEW r \in Runs, NEW st \in {"written", "noted"},
           staged' = [staged EXCEPT ![r].state = st]
    PROVE  /\ staged' \in [Runs -> Directories]
           /\ staged'[r].state = st /\ staged'[r].key = staged[r].key
           /\ staged'[r].by = staged[r].by /\ staged'[r].result = staged[r].result
           /\ \A q \in Runs \ {r} : staged'[q] = staged[q]
<1> DEFINE d == [staged[r] EXCEPT !.state = st]
<1>1. staged \in [Runs -> Directories] /\ staged[r] \in Directories
  BY DEF Types
<1>2. /\ d \in Directories
      /\ d.state = st /\ d.key = staged[r].key
      /\ d.by = staged[r].by /\ d.result = staged[r].result
  BY <1>1 DEF Directories
<1>3. staged' = [staged EXCEPT ![r] = d]
  OBVIOUS
<1> HIDE DEF d
<1> QED  BY <1>1, <1>2, <1>3

LEMMA WriteStagedStep == ASSUME LiveInv, NEW r \in Runs, WriteStaged(r)  PROVE LiveInv'
<1>1. /\ Types /\ RunInv(r) /\ run[r].pc = "write" /\ run[r].stage = "evidence_finalization"
      /\ UNCHANGED <<keys, published, attempt, material, final, scratch, spent>>
      /\ staged' = [staged EXCEPT ![r].state = "written"] /\ Goto(r, "verify")
  BY DEF LiveInv, WriteStaged, At, RunInv, StageOf
<1>2. /\ run'[r].pc = "verify" /\ run'[r].stage = run[r].stage /\ run'[r].id = run[r].id
      /\ run'[r].key = run[r].key /\ run'[r].exchange = run[r].exchange
      /\ run' \in [Runs -> Records] /\ "verify" \in Places
  BY <1>1, GotoStep DEF Places
<1>3. Types' /\ staged'[r].by = staged[r].by /\ staged'[r].result = staged[r].result
  BY <1>1, <1>2, StagedStep DEF Types, keys
<1>4. StageOf(r)' /\ SpendingOf(r)'
  BY <1>1, <1>2 DEF RunInv, StageOf, SpendingOf, Ended
<1>5. OutputsOf(r)'
  BY <1>1, <1>2, <1>3 DEF RunInv, OutputsOf, Owns
<1> QED  BY <1>1, <1>2, <1>3, <1>4, <1>5, StagedStep, GotoQuiet DEF RunInv

\* Verification alone tells whether the run goes on to move the directory.
LEMMA VerifyStep == ASSUME LiveInv, NEW r \in Runs, Verify(r)  PROVE LiveInv'
<1>1. /\ Types /\ RunInv(r) /\ run[r].pc = "verify" /\ run[r].stage = "evidence_finalization"
      /\ UNCHANGED <<keys, published, attempt, material, final, scratch, spent>>
      /\ staged' = [staged EXCEPT ![r].state = "noted"]
  BY DEF LiveInv, Verify, At, RunInv, StageOf
<1>2. PICK p \in {"move", "preserve"} :
         Goto(r, p) /\ (p = "move" => staged[r].key = run[r].key)
  BY <1>1, NoneAssumption DEF Verify, Throw, Past, Stages
<1>3. /\ run'[r].pc = p /\ run'[r].stage = run[r].stage /\ run'[r].id = run[r].id
      /\ run'[r].key = run[r].key /\ run'[r].exchange = run[r].exchange
      /\ run' \in [Runs -> Records] /\ p \in Places
  <2>1. p \in Places
    BY DEF Places, Past
  <2> QED  BY <1>1, <1>2, <2>1, GotoStep
<1>4. /\ Types' /\ staged'[r].state = "noted" /\ staged'[r].key = staged[r].key
      /\ staged'[r].by = staged[r].by /\ staged'[r].result = staged[r].result
  BY <1>1, <1>3, StagedStep DEF Types, keys
<1>5. StageOf(r)'
  BY <1>1, <1>2, <1>3, NoneAssumption DEF RunInv, StageOf, Stages
<1>6. SpendingOf(r)'
  BY <1>1, <1>2, <1>3 DEF RunInv, SpendingOf, Ended
<1>7. OutputsOf(r)'
  BY <1>1, <1>2, <1>3, <1>4 DEF RunInv, OutputsOf, Owns
<1> QED  BY <1>1, <1>2, <1>3, <1>4, <1>5, <1>6, <1>7, StagedStep, GotoQuiet DEF RunInv

LEMMA CheckDestinationStep ==
    ASSUME LiveInv, NEW r \in Runs, CheckDestination(r)
    PROVE  LiveInv'
<1>1. /\ Types /\ RunInv(r) /\ run[r].pc = "move" /\ run[r].stage = "evidence_finalization"
      /\ UNCHANGED <<keys, outputs, spent>>
  BY DEF LiveInv, CheckDestination, At, RunInv, StageOf
<1>2. CASE Throw(r)
  BY <1>1, <1>2, ThrowQuiet DEF Past, outputs
<1>3. CASE Goto(r, "rename")
  <2>1. /\ run'[r].pc = "rename" /\ run'[r].stage = run[r].stage /\ run'[r].id = run[r].id
        /\ run'[r].key = run[r].key /\ run'[r].exchange = run[r].exchange
        /\ run' \in [Runs -> Records] /\ "rename" \in Places
    BY <1>1, <1>3, GotoStep DEF Places
  <2>2. Types'
    BY <1>1, <2>1 DEF Types, keys, outputs
  <2>3. StageOf(r)' /\ SpendingOf(r)'
    BY <1>1, <2>1 DEF RunInv, StageOf, SpendingOf, Ended
  <2>4. OutputsOf(r)'
    BY <1>1, <2>1 DEF RunInv, OutputsOf, Owns, outputs
  <2> QED  BY <1>1, <1>3, <2>1, <2>2, <2>3, <2>4, GotoQuiet DEF RunInv, outputs
<1> QED  BY <1>2, <1>3 DEF CheckDestination

LEMMA MoveStep == ASSUME LiveInv, NEW r \in Runs, Move(r)  PROVE LiveInv'
<1>1. /\ Types /\ RunInv(r) /\ run[r].pc = "rename" /\ run[r].stage = "evidence_finalization"
      /\ UNCHANGED <<keys, published, attempt, material, scratch, spent>>
  BY DEF LiveInv, Move, At, RunInv, StageOf
<1>2. Owns(r) /\ attempt[run[r].id].by = r
  BY <1>1, NoneAssumption DEF RunInv, OutputsOf, Stages
<1>0. PICK i \in Ids : run[r].id = i
  BY <1>2 DEF Owns
<1>3. CASE Throw(r) /\ UNCHANGED <<final, staged>>
  BY <1>1, <1>3, ThrowQuiet DEF Past, outputs
<1>4. CASE /\ final' = [final EXCEPT ![i] = staged[r]]
           /\ staged' = [staged EXCEPT ![r] = NoDirectory]
           /\ Goto(r, "record")
  <2>1. /\ run'[r].pc = "record" /\ run'[r].stage = run[r].stage /\ run'[r].id = run[r].id
        /\ run'[r].key = run[r].key /\ run'[r].exchange = run[r].exchange
        /\ \A q \in Runs \ {r} : run'[q] = run[q]
        /\ run' \in [Runs -> Records] /\ "record" \in Places
    BY <1>1, <1>4, GotoStep DEF Places
  <2>2. final' \in [Ids -> Directories] /\ final'[i] = staged[r]
    BY <1>1, <1>4 DEF Types
  <2>3. NoDirectory \in Directories
    BY DEF NoDirectory, Directories
  <2>4. Types'
    BY <1>1, <1>4, <2>1, <2>2, <2>3 DEF Types, keys
  <2>5. /\ staged[r].by = r /\ staged[r].result = run[r].exchange.result
        /\ staged[r].state = "noted" /\ staged[r].key = run[r].key
    BY <1>1 DEF RunInv, OutputsOf
  <2>6. StageOf(r)' /\ SpendingOf(r)'
    BY <1>1, <2>1 DEF RunInv, StageOf, SpendingOf, Ended
  <2>7. Owns(r)' /\ attempt'[i].by = r
    BY <1>0, <1>1, <1>2, <2>1 DEF Owns
  <2>8. OutputsOf(r)'
    BY <1>0, <2>1, <2>2, <2>5, <2>7 DEF OutputsOf
  <2>9. FileInv(i)'
    <3>1. FileInv(i) /\ r # None
      BY RunsAssumption DEF LiveInv
    <3> QED  BY <1>0, <1>1, <1>2, <2>2, <2>5, <3>1 DEF FileInv, Owns
  <2>10. /\ \A q \in Runs \ {r} : staged'[q] = staged[q]
         /\ \A j \in Ids \ {i} : final'[j] = final[j]
    BY <1>1, <1>4 DEF Types
  <2> QED  BY <1>0, <1>1, <1>2, <2>1, <2>4, <2>6, <2>8, <2>9, <2>10, OwnStep DEF RunInv
<1> QED  BY <1>0, <1>3, <1>4 DEF Move

-----------------------------------------------------------------------------
(* The catch clause, the record, and the tamper check. *)

LEMMA PreserveStep == ASSUME LiveInv, NEW r \in Runs, Preserve(r)  PROVE LiveInv'
<1>1. /\ Types /\ RunInv(r) /\ run[r].pc = "preserve" /\ run[r].stage # None /\ Goto(r, "mark")
      /\ UNCHANGED <<keys, published, attempt, staged, final, scratch, spent>>
  BY DEF LiveInv, Preserve, At, RunInv, StageOf
<1>2. Owns(r) /\ attempt[run[r].id].by = r
  BY <1>1 DEF RunInv, OutputsOf
<1>0. PICK i \in Ids : run[r].id = i
  BY <1>2 DEF Owns
<1>3. /\ run'[r].pc = "mark" /\ run'[r].stage = run[r].stage /\ run'[r].id = run[r].id
      /\ run'[r].key = run[r].key /\ run'[r].exchange = run[r].exchange
      /\ \A q \in Runs \ {r} : run'[q] = run[q]
      /\ run' \in [Runs -> Records]
  <2>1. "mark" \in Places
    BY DEF Places, Past
  <2> QED  BY <1>1, <2>1, GotoStep
<1>4. PICK m \in Materials : m.by = r /\ material' = [material EXCEPT ![i] = m]
  <2> DEFINE m == [by |-> r, stage |-> run[r].stage, exchange |-> run[r].exchange,
                   poll |-> run[r].poll]
  <2>1. m \in Materials /\ m.by = r
    BY <1>1 DEF Types, Records, Materials
  <2>2. material' = [material EXCEPT ![i] = m]
    BY <1>0 DEF Preserve
  <2> QED  BY <2>1, <2>2
<1>5. Types'
  BY <1>1, <1>3, <1>4 DEF Types, keys
<1>6. StageOf(r)' /\ SpendingOf(r)' /\ OutputsOf(r)'
  BY <1>1, <1>3 DEF RunInv, StageOf, SpendingOf, OutputsOf, Owns, Ended
<1>7. FileInv(i)'
  <2>1. FileInv(i)
    BY DEF LiveInv
  <2> QED  BY <1>0, <1>1, <1>2, <1>4, <2>1 DEF FileInv, Owns, Types
<1>8. \A j \in Ids \ {i} : material'[j] = material[j]
  BY <1>1, <1>4 DEF Types
<1> QED  BY <1>0, <1>1, <1>2, <1>3, <1>5, <1>6, <1>7, <1>8, OwnStep DEF RunInv

\* What a step does to the record of the run's own attempt.
LEMMA AttemptStep ==
    ASSUME LiveInv, NEW r \in Runs, NEW p \in Places, Goto(r, p), run[r].stage # None,
           NEW a \in Attempts, a.by = r, attempt' = [attempt EXCEPT ![run[r].id] = a],
           UNCHANGED <<keys, published, material, staged, final, spent>>,
           StageOf(r)', SpendingOf(r)',
           p \in {"recorded", "copy"} => run[r].pc \in {"record", "recorded"},
           p \in {"recorded", "copy", "marked", "failed"}
    PROVE  LiveInv'
<1>1. Types /\ RunInv(r) /\ Owns(r) /\ attempt[run[r].id].by = r
  BY DEF LiveInv, RunInv, OutputsOf
<1>0. PICK i \in Ids : run[r].id = i
  BY <1>1 DEF Owns
<1>2. /\ run'[r].pc = p /\ run'[r].stage = run[r].stage /\ run'[r].id = run[r].id
      /\ run'[r].key = run[r].key /\ run'[r].exchange = run[r].exchange
      /\ \A q \in Runs \ {r} : run'[q] = run[q]
      /\ run' \in [Runs -> Records]
  BY <1>1, GotoStep
<1>3. /\ attempt' \in [Ids -> Attempts] /\ attempt'[i] = a
      /\ \A j \in Ids \ {i} : attempt'[j] = attempt[j]
  BY <1>0, <1>1 DEF Types
<1>4. Types'
  BY <1>1, <1>2, <1>3 DEF Types, keys
<1>5. OutputsOf(r)'
  BY <1>0, <1>1, <1>2, <1>3 DEF RunInv, OutputsOf, Owns
<1>6. FileInv(i)'
  <2>1. FileInv(i)
    BY DEF LiveInv
  <2> QED  BY <1>0, <1>1, <1>3, <2>1 DEF FileInv, Owns
<1> QED  BY <1>0, <1>1, <1>2, <1>3, <1>4, <1>5, <1>6, OwnStep DEF RunInv

LEMMA EmptyAttemptStep == ASSUME LiveInv, NEW r \in Runs, EmptyAttempt(r)  PROVE LiveInv'
<1>1. Types /\ RunInv(r) /\ run[r].pc \in {"record", "mark"} /\ run[r].stage # None
  BY NoneAssumption DEF LiveInv, EmptyAttempt, At, RunInv, StageOf, Stages
<1>2. run[r].id \in Ids /\ attempt[run[r].id].by = r
  BY <1>1 DEF RunInv, OutputsOf, Owns
<1>3. PICK p \in {"recorded", "marked"} :
         /\ Goto(r, p)
         /\ p = "recorded" <=> run[r].pc = "record"
  BY <1>1 DEF EmptyAttempt, At
<1>4. p \in Places
  BY DEF Places, Past
<1> DEFINE a == [attempt[run[r].id] EXCEPT !.state = "blank"]
<1>5. a \in Attempts /\ a.by = r /\ attempt' = [attempt EXCEPT ![run[r].id] = a]
  BY <1>1, <1>2 DEF Types, Attempts, EmptyAttempt
<1>6. UNCHANGED <<keys, published, material, staged, final, spent>>
  BY DEF EmptyAttempt
<1>7. StageOf(r)' /\ SpendingOf(r)'
  <2>1. /\ run'[r].pc = p /\ run'[r].stage = run[r].stage
        /\ run'[r].exchange = run[r].exchange
    BY <1>1, <1>3, <1>4, GotoStep
  <2> QED  BY <1>1, <1>3, <1>6, <2>1 DEF RunInv, StageOf, SpendingOf, Ended
<1> QED  BY <1>1, <1>3, <1>4, <1>5, <1>6, <1>7, AttemptStep

LEMMA WriteAttemptStep == ASSUME LiveInv, NEW r \in Runs, WriteAttempt(r)  PROVE LiveInv'
<1>1. Types /\ RunInv(r) /\ run[r].pc \in {"recorded", "marked"} /\ run[r].stage # None
  BY NoneAssumption DEF LiveInv, WriteAttempt, At, RunInv, StageOf, Stages
<1>2. run[r].id \in Ids /\ attempt[run[r].id].by = r
  BY <1>1 DEF RunInv, OutputsOf, Owns
<1>3. PICK p \in {"copy", "failed"} : Goto(r, p) /\ (p = "copy" <=> run[r].pc = "recorded")
  BY <1>1 DEF WriteAttempt, At
<1>4. p \in Places
  BY DEF Places, Past, Ended
<1>5. PICK a \in Attempts : a.by = r /\ attempt' = [attempt EXCEPT ![run[r].id] = a]
  <2>1. CASE attempt' = [attempt EXCEPT ![run[r].id].state = "completed"]
    <3> DEFINE a == [attempt[run[r].id] EXCEPT !.state = "completed"]
    <3>1. a \in Attempts /\ a.by = r /\ attempt' = [attempt EXCEPT ![run[r].id] = a]
      BY <1>1, <1>2, <2>1 DEF Types, Attempts
    <3> QED  BY <3>1
  <2>2. CASE attempt' = [attempt EXCEPT ![run[r].id] =
                             [state |-> "failed", by |-> r, stage |-> run[r].stage]]
    <3> DEFINE a == [state |-> "failed", by |-> r, stage |-> run[r].stage]
    <3>1. a \in Attempts /\ a.by = r
      BY <1>1 DEF Types, Records, Attempts
    <3> QED  BY <2>2, <3>1
  <2> QED  BY <2>1, <2>2 DEF WriteAttempt
<1>6. UNCHANGED <<keys, published, material, staged, final, spent>>
  BY DEF WriteAttempt
<1>7. StageOf(r)' /\ SpendingOf(r)'
  <2>1. /\ run'[r].pc = p /\ run'[r].stage = run[r].stage
        /\ run'[r].exchange = run[r].exchange
    BY <1>1, <1>3, <1>4, GotoStep
  <2> QED  BY <1>1, <1>3, <1>6, <2>1 DEF RunInv, StageOf, SpendingOf, Ended
<1> QED  BY <1>1, <1>3, <1>4, <1>5, <1>6, <1>7, AttemptStep


LEMMA CopyStep == ASSUME LiveInv, NEW r \in Runs, Copy(r)  PROVE LiveInv'
<1>1. /\ Types /\ RunInv(r) /\ run[r].pc = "copy" /\ Goto(r, "tamper")
      /\ UNCHANGED <<keys, published, attempt, material, staged, final, spent>>
  BY DEF LiveInv, Copy, At
<1>2. "tamper" \in Places
  BY DEF Places, Past
<1>3. /\ run'[r].pc = "tamper" /\ run'[r].stage = run[r].stage /\ run'[r].id = run[r].id
      /\ run'[r].key = run[r].key /\ run'[r].exchange = run[r].exchange
      /\ run' \in [Runs -> Records]
  BY <1>1, <1>2, GotoStep
<1>4. Types'
  BY <1>1, <1>3 DEF Types, keys
<1>5. StageOf(r)' /\ SpendingOf(r)'
  BY <1>1, <1>3 DEF RunInv, StageOf, SpendingOf, Ended
<1>6. OutputsOf(r)'
  BY <1>1, <1>3 DEF RunInv, OutputsOf, Owns
<1> QED  BY <1>1, <1>2, <1>3, <1>4, <1>5, <1>6, GotoQuiet DEF RunInv

\* A run that spent has an origin result to tamper with: its check does not throw.
LEMMA TamperStep == ASSUME LiveInv, NEW r \in Runs, Tamper(r)  PROVE LiveInv'
<1>1. /\ Types /\ RunInv(r) /\ run[r].pc = "tamper"
      /\ UNCHANGED <<keys, published, attempt, material, staged, final, spent>>
  BY DEF LiveInv, Tamper, At
<1>2. run[r].stage = "evidence_finalization" /\ final[run[r].id].result = run[r].exchange.result
  BY <1>1 DEF RunInv, StageOf, OutputsOf
<1>3. CASE ~ final[run[r].id].result /\ Throw(r) /\ UNCHANGED scratch
  <2>1. r \notin spent
    BY <1>1, <1>2, <1>3 DEF RunInv, SpendingOf
  <2> QED  BY <1>1, <1>3, <2>1, ThrowQuiet DEF outputs
<1>4. CASE \E p \in {"passed", "not_passed"} : Goto(r, p)
  <2>1. PICK p \in {"passed", "not_passed"} : Goto(r, p)
    BY <1>4
  <2>2. p \in Places
    BY DEF Places, Ended
  <2>3. /\ run'[r].pc = p /\ run'[r].stage = run[r].stage /\ run'[r].id = run[r].id
        /\ run'[r].key = run[r].key /\ run'[r].exchange = run[r].exchange
        /\ run' \in [Runs -> Records]
    BY <1>1, <2>1, <2>2, GotoStep
  <2>4. Types'
    BY <1>1, <2>3 DEF Types, keys
  <2>5. StageOf(r)'
    BY <1>1, <1>2, <2>3 DEF RunInv, StageOf
  <2>6. SpendingOf(r)'
    BY <1>1, <1>2, <2>3 DEF RunInv, SpendingOf
  <2>7. OutputsOf(r)'
    BY <1>1, <2>3 DEF RunInv, OutputsOf, Owns
  <2> QED  BY <1>1, <2>1, <2>2, <2>4, <2>5, <2>6, <2>7, GotoQuiet DEF RunInv
<1> QED  BY <1>3, <1>4 DEF Tamper

-----------------------------------------------------------------------------
(* What else may happen. *)

LEMMA WriteRefusedStep == ASSUME LiveInv, NEW r \in Runs, WriteRefused(r)  PROVE LiveInv'
  BY ThrowQuiet DEF WriteRefused

LEMMA KillStep == ASSUME LiveInv, NEW r \in Runs, Kill(r)  PROVE LiveInv'
<1>1. /\ Types /\ RunInv(r) /\ r \in Faulty /\ Goto(r, "killed")
      /\ UNCHANGED <<keys, published, attempt, material, staged, final, spent>>
  BY DEF LiveInv, Kill, outputs
<1>2. "killed" \in Places
  BY DEF Places, Ended
<1>3. /\ run'[r].pc = "killed" /\ run'[r].stage = run[r].stage /\ run'[r].id = run[r].id
      /\ run'[r].key = run[r].key /\ run'[r].exchange = run[r].exchange
      /\ run' \in [Runs -> Records]
  BY <1>1, <1>2, GotoStep
<1>4. Types'
  BY <1>1, <1>3 DEF Types, keys
<1>5. StageOf(r)' /\ SpendingOf(r)'
  BY <1>1, <1>3 DEF RunInv, StageOf, SpendingOf
<1>6. OutputsOf(r)'
  BY <1>1, <1>3 DEF RunInv, OutputsOf, Owns
<1> QED  BY <1>1, <1>2, <1>3, <1>4, <1>5, <1>6, GotoQuiet DEF RunInv

LEMMA MoveAsideStep == ASSUME LiveInv, MoveAside  PROVE LiveInv'
<1>1. UNCHANGED <<run, generated, published, attempt, material, staged, final, spent>>
      /\ issuerFile' = NoFile
  BY DEF MoveAside, outputs
<1>2. Types'
  BY <1>1 DEF LiveInv, Types, Files, NoFile
<1>3. ASSUME NEW q \in Runs  PROVE RunInv(q)'
  BY <1>1 DEF LiveInv, RunInv, StageOf, OutputsOf, SpendingOf, Owns
<1>4. ASSUME NEW i \in Ids  PROVE FileInv(i)'
  BY <1>1 DEF LiveInv, FileInv
<1> QED  BY <1>2, <1>3, <1>4 DEF LiveInv

LEMMA InitStep == ASSUME Init  PROVE LiveInv
<1> DEFINE start == [pc |-> "preflight", stage |-> None, id |-> None, key |-> 0,
                     signer |-> 0, exchange |-> None, poll |-> None]
<1>1. start \in Records
  BY DEF Records, Places
<1>2. NoFile \in Files /\ NoDirectory \in Directories /\ NoAttempt \in Attempts
      /\ NoMaterial \in Materials
  BY DEF NoFile, Files, NoDirectory, Directories, NoAttempt, Attempts, NoMaterial, Materials
<1>3. Types
  BY <1>1, <1>2 DEF Init, Types
<1>4. ASSUME NEW q \in Runs  PROVE RunInv(q)
  BY NoneAssumption DEF Init, RunInv, StageOf, OutputsOf, SpendingOf, Owns, Stages
<1>5. ASSUME NEW i \in Ids  PROVE FileInv(i)
  BY DEF Init, FileInv, NoAttempt, NoMaterial, NoDirectory
<1> QED  BY <1>3, <1>4, <1>5 DEF LiveInv

LEMMA NextStep == ASSUME LiveInv, [Next]_vars  PROVE LiveInv'
<1>1. ASSUME NEW r \in Runs, Proceed(r)  PROVE LiveInv'
  BY <1>1, PreflightStep, LoadKeyStep, CreateKeyFileStep, FillKeyFileStep, PrepareStep,
     ClaimStep, PublishStep, BeginStep, ListenStep, TransferStep, PayThrowsStep,
     PayReturnsStep, ObserveStep, AssembleStep, StageStep, WriteStagedStep, VerifyStep,
     CheckDestinationStep, MoveStep, PreserveStep, EmptyAttemptStep, WriteAttemptStep, CopyStep,
     TamperStep
  DEF Proceed
<1>2. CASE UNCHANGED vars
  <2>1. UNCHANGED <<run, issuerFile, generated, published, attempt, material, staged, final,
                    spent>>
    BY <1>2 DEF vars, keys, outputs
  <2>2. Types'
    BY <2>1 DEF LiveInv, Types
  <2>3. ASSUME NEW q \in Runs  PROVE RunInv(q)'
    BY <2>1 DEF LiveInv, RunInv, StageOf, OutputsOf, SpendingOf, Owns
  <2>4. ASSUME NEW i \in Ids  PROVE FileInv(i)'
    BY <2>1 DEF LiveInv, FileInv
  <2> QED  BY <2>2, <2>3, <2>4 DEF LiveInv
<1> QED  BY <1>1, <1>2, WriteRefusedStep, KillStep, MoveAsideStep DEF Next

-----------------------------------------------------------------------------
(* What the record of an attempt says.  The invariant rests on LiveInv.    *)

\* A run that has begun and whose directory is not in its place yet.
Working == {"listen", "pay", "observe", "resolve", "create", "fill", "assemble",
            "stage", "write", "verify", "move", "rename"}

\* Before its directory is moved a run that has begun has none; one that threw
\* afterwards could not write its record.
TrackOf(r) ==
    LET i == run[r].id IN
    /\ run[r].stage = None => run[r].exchange = None /\ run[r].poll = None
    /\ run[r].stage # None =>
          /\ run[r].stage = "payment_exchange" <=> run[r].exchange = None
          /\ run[r].stage \in {"evidence_assembly", "evidence_finalization"}
                <=> run[r].poll # None
    /\ run[r].pc \in {"publish", "begin"} => final[i] = NoDirectory
    /\ run[r].stage # None /\ run[r].pc \in Working => final[i] = NoDirectory
    /\ run[r].pc \in {"copy", "tamper", "passed", "not_passed"} =>
          run[r].stage # None /\ attempt[i].state = "completed" /\ final[i].by = r
    /\ run[r].pc \in {"preserve", "mark", "marked", "failed"} =>
          /\ run[r].stage # None
          /\ final[i] # NoDirectory => run[r].stage = "evidence_finalization" /\ r \in Faulty
    /\ run[r].pc \in {"mark", "marked", "failed"} =>
          material[i] = [by |-> r, stage |-> run[r].stage,
                         exchange |-> run[r].exchange, poll |-> run[r].poll]
    /\ run[r].pc = "failed" =>
          attempt[i] = [state |-> "failed", by |-> r, stage |-> run[r].stage]

\* An attempt recorded as failed is that of a run which is over.
FailedOf(i) ==
    attempt[i].state = "failed" =>
        \E q \in Runs : run[q].pc = "failed" /\ run[q].id = i

RecordInv == (\A r \in Runs : TrackOf(r)) /\ (\A i \in Ids : FailedOf(i))

\* A step of r writes under no name but its own, and fails no other's attempt.
LEMMA RecordFrame ==
    ASSUME LiveInv, RecordInv, NEW r \in Runs, run[r].pc # "failed",
           \A q \in Runs \ {r} : run'[q] = run[q],
           \A i \in Ids : published[i].by # r =>
               attempt'[i] = attempt[i] /\ material'[i] = material[i] /\ final'[i] = final[i],
           \A i \in Ids : attempt'[i].state = "failed" =>
               attempt'[i] = attempt[i] \/ (run'[r].pc = "failed" /\ run'[r].id = i),
           TrackOf(r)'
    PROVE  RecordInv'
<1>1. ASSUME NEW q \in Runs \ {r}  PROVE TrackOf(q)'
  <2>1. TrackOf(q) /\ StageOf(q) /\ OutputsOf(q) /\ run'[q] = run[q]
    BY DEF RecordInv, LiveInv, RunInv
  <2>2. ASSUME run[q].stage # None \/ run[q].pc \in {"publish", "begin"}
        PROVE  /\ attempt'[run[q].id] = attempt[run[q].id]
               /\ material'[run[q].id] = material[run[q].id]
               /\ final'[run[q].id] = final[run[q].id]
    BY <2>1, <2>2 DEF OutputsOf, Owns
  <2> QED  BY <2>1, <2>2 DEF TrackOf
<1>2. ASSUME NEW i \in Ids  PROVE FailedOf(i)'
  <2>1. FailedOf(i)
    BY DEF RecordInv
  <2> QED  BY <2>1 DEF FailedOf
<1> QED  BY <1>1, <1>2 DEF RecordInv

\* A throw of a run that still runs: of one whose directory is in its place, only
\* if it may be refused a write.
LEMMA ThrowTrack ==
    ASSUME LiveInv, RecordInv, NEW r \in Runs, Throw(r), run[r].pc \notin Ended,
           UNCHANGED <<attempt, material, final>>,
           run[r].pc \in {"record", "recorded"} => r \in Faulty
    PROVE  RecordInv'
<1>1. PICK p \in Places :
         /\ Goto(r, p)
         /\ \/ p = "preserve" /\ run[r].stage # None /\ run[r].pc \notin Past
            \/ p = "escaped"
  BY DEF Throw, Places, Past, Ended
<1>2. Types /\ TrackOf(r) /\ StageOf(r)
  BY DEF LiveInv, RunInv, RecordInv
<1>3. /\ \A q \in Runs \ {r} : run'[q] = run[q]
      /\ run'[r].pc = p
      /\ run'[r].stage = run[r].stage /\ run'[r].id = run[r].id
      /\ run'[r].exchange = run[r].exchange /\ run'[r].poll = run[r].poll
  BY <1>1, <1>2, GotoStep
<1>4. run[r].stage # None /\ run[r].pc \notin Past =>
         run[r].pc \in Working \cup {"record", "recorded"}
  BY <1>2 DEF StageOf, Working, Past, Ended, Types, Records, Places
<1>5. run[r].pc \in {"record", "recorded"} => run[r].stage = "evidence_finalization"
  BY <1>2 DEF StageOf
<1>6. p = "preserve" => /\ run[r].stage # None
                        /\ final[run[r].id] # NoDirectory =>
                              run[r].stage = "evidence_finalization" /\ r \in Faulty
  BY <1>1, <1>2, <1>4, <1>5 DEF TrackOf
<1>7. TrackOf(r)'
  BY <1>1, <1>2, <1>3, <1>6 DEF TrackOf, Working
<1> QED  BY <1>3, <1>7, RecordFrame DEF Ended

\* Only the place of r changes, and what the new place says of it holds.
LEMMA GotoTrack ==
    ASSUME LiveInv, RecordInv, NEW r \in Runs, NEW p \in Places, Goto(r, p),
           run[r].pc # "failed", p # "failed", UNCHANGED <<attempt, material, final>>,
           p \in {"publish", "begin"} => final[run[r].id] = NoDirectory,
           run[r].stage # None /\ p \in Working => final[run[r].id] = NoDirectory,
           p \in {"copy", "tamper", "passed", "not_passed"} =>
               run[r].pc \in {"copy", "tamper"},
           p \notin {"preserve", "mark", "marked"}
    PROVE  RecordInv'
<1>1. Types /\ TrackOf(r)
  BY DEF LiveInv, RecordInv
<1>2. /\ \A q \in Runs \ {r} : run'[q] = run[q]
      /\ run'[r].pc = p
      /\ run'[r].stage = run[r].stage /\ run'[r].id = run[r].id
      /\ run'[r].exchange = run[r].exchange /\ run'[r].poll = run[r].poll
  BY <1>1, GotoStep
<1>3. TrackOf(r)'
  BY <1>1, <1>2 DEF TrackOf
<1> QED  BY <1>2, <1>3, RecordFrame

\* Every step before the outputs are claimed, and those of a key file.
LEMMA KeyTrack ==
    ASSUME LiveInv, RecordInv, NEW r \in Runs,
           Preflight(r) \/ LoadKey(r) \/ CreateKeyFile(r) \/ FillKeyFile(r) \/ Prepare(r)
    PROVE  RecordInv'
<1>1. Types /\ TrackOf(r) /\ StageOf(r)
  BY DEF LiveInv, RunInv, RecordInv
<1>2. UNCHANGED <<attempt, material, final>>
  BY DEF Preflight, LoadKey, CreateKeyFile, FillKeyFile, Prepare, outputs
<1>3. run[r].pc \in {"preflight", "resolve", "create", "fill", "prepare"}
  BY DEF Preflight, LoadKey, CreateKeyFile, FillKeyFile, Prepare, At
<1>4. CASE Throw(r)
  BY <1>2, <1>3, <1>4, ThrowTrack DEF Ended
<1>5. CASE \E p \in {"stopped", "resolve", "create", "fill"} : Goto(r, p)
  <2>1. PICK p \in {"stopped", "resolve", "create", "fill"} : Goto(r, p)
    BY <1>5
  <2>2. p \in Places
    BY DEF Places, Ended
  <2>3. run[r].stage # None => final[run[r].id] = NoDirectory
    BY <1>1, <1>3, NoneAssumption DEF TrackOf, StageOf, Working, Stages
  <2> QED  BY <1>2, <1>3, <2>1, <2>2, <2>3, GotoTrack
<1>6. CASE \E k : Resolved(r, k)
  <2>1. /\ \A q \in Runs \ {r} : run'[q] = run[q]
        /\ run'[r].pc = IF run[r].stage = None THEN "prepare" ELSE "assemble"
        /\ run'[r].stage = run[r].stage /\ run'[r].id = run[r].id
        /\ run'[r].exchange = run[r].exchange /\ run'[r].poll = run[r].poll
    BY <1>1, <1>6 DEF Resolved, Types, Records
  <2>2. run[r].stage # None => final[run[r].id] = NoDirectory
    BY <1>1, <1>3, NoneAssumption DEF TrackOf, StageOf, Working, Stages
  <2>3. TrackOf(r)'
    BY <1>1, <1>2, <2>1, <2>2 DEF TrackOf, Working
  <2> QED  BY <1>2, <1>3, <2>1, <2>3, RecordFrame
<1>7. CASE \E i \in Ids : run' = [run EXCEPT ![r].id = i, ![r].pc = "claim"] /\ Prepare(r)
  <2>1. run[r].stage = None /\ run[r].exchange = None /\ run[r].poll = None
    BY <1>1, <1>7 DEF Prepare, At, StageOf, TrackOf
  <2>2. /\ \A q \in Runs \ {r} : run'[q] = run[q]
        /\ run'[r].pc = "claim" /\ run'[r].stage = None
        /\ run'[r].exchange = None /\ run'[r].poll = None
    BY <1>1, <1>7, <2>1 DEF Types, Records
  <2>3. TrackOf(r)'
    BY <2>2 DEF TrackOf, Working
  <2> QED  BY <1>2, <1>3, <2>2, <2>3, RecordFrame
<1> QED  BY <1>4, <1>5, <1>6, <1>7
         DEF Preflight, LoadKey, CreateKeyFile, FillKeyFile, Prepare

LEMMA ClaimTrack ==
    ASSUME LiveInv, RecordInv, NEW r \in Runs, Claim(r) \/ Publish(r)  PROVE RecordInv'
<1>1. Types /\ RunInv(r) /\ TrackOf(r)
  BY DEF LiveInv, RecordInv
<1>2. run[r].pc \in {"claim", "publish"} /\ run[r].id \in Ids /\ run[r].stage = None
      /\ UNCHANGED <<attempt, material, final>>
  BY <1>1 DEF Claim, Publish, At, RunInv, OutputsOf, StageOf
<1>3. CASE Throw(r)
  BY <1>2, <1>3, ThrowTrack DEF Ended
<1>4. CASE \E p \in {"publish", "begin"} : Goto(r, p) /\ ~ Throw(r)
  <2>1. PICK p \in {"publish", "begin"} : Goto(r, p)
    BY <1>4
  <2>2. p \in Places
    BY DEF Places
  <2>3. final[run[r].id] = NoDirectory
    <3>1. CASE Publish(r)
      BY <1>1, <3>1 DEF TrackOf, Publish, At
    <3>2. CASE Claim(r)
      <4>1. published[run[r].id].state = "absent" /\ FileInv(run[r].id)
        BY <1>2, <1>4, <3>2 DEF Claim, LiveInv
      <4> QED  BY <4>1 DEF FileInv
    <3> QED  BY <3>1, <3>2
  <2> QED  BY <1>2, <2>1, <2>2, <2>3, GotoTrack
<1> QED  BY <1>3, <1>4 DEF Claim, Publish

LEMMA BeginTrack == ASSUME LiveInv, RecordInv, NEW r \in Runs, Begin(r)  PROVE RecordInv'
<1>1. Types /\ RunInv(r) /\ TrackOf(r) /\ run[r].pc = "begin"
  BY DEF LiveInv, RecordInv, Begin, At
<1>2. Owns(r) /\ run[r].stage = None
  BY <1>1 DEF RunInv, OutputsOf, StageOf
<1>3. /\ attempt' = [attempt EXCEPT ![run[r].id] = [state |-> "begun", by |-> r, stage |-> None]]
      /\ UNCHANGED <<material, final>>
  BY DEF Begin
<1>4. /\ \A q \in Runs \ {r} : run'[q] = run[q]
      /\ run'[r].pc = "listen" /\ run'[r].stage = "payment_exchange" /\ run'[r].id = run[r].id
      /\ run'[r].exchange = run[r].exchange /\ run'[r].poll = run[r].poll
  BY <1>1 DEF Begin, Types, Records
<1>5. TrackOf(r)'
  BY <1>1, <1>2, <1>3, <1>4, NoneAssumption DEF TrackOf, Working, Stages
<1>6. \A i \in Ids : (published[i].by # r => attempt'[i] = attempt[i])
                     /\ (attempt'[i].state = "failed" => attempt'[i] = attempt[i])
  BY <1>1, <1>2, <1>3 DEF Owns, Types
<1> QED  BY <1>1, <1>3, <1>4, <1>5, <1>6, RecordFrame

LEMMA PayTrack ==
    ASSUME LiveInv, RecordInv, NEW r \in Runs,
           Listen(r) \/ PayThrows(r) \/ PayReturns(r) \/ Observe(r)
    PROVE  RecordInv'
<1>1. Types /\ TrackOf(r) /\ StageOf(r)
  <2>1. Types /\ RunInv(r)
    BY DEF LiveInv
  <2>2. TrackOf(r)
    BY DEF RecordInv
  <2> QED  BY <2>1, <2>2 DEF RunInv
<1>2. /\ run[r].pc \in {"listen", "pay", "observe"}
      /\ run[r].stage = IF run[r].pc = "observe" THEN "rpc_observation" ELSE "payment_exchange"
      /\ UNCHANGED <<attempt, material, final>>
  BY <1>1 DEF Listen, PayThrows, PayReturns, Observe, At, StageOf, outputs
<1>3. run[r].stage # None /\ final[run[r].id] = NoDirectory
  BY <1>1, <1>2, NoneAssumption DEF TrackOf, Working, Stages
<1>4. CASE Throw(r)
  BY <1>2, <1>4, ThrowTrack DEF Ended
<1>5. CASE Goto(r, "pay")
  <2>1. "pay" \in Places
    BY DEF Places
  <2> QED  BY <1>2, <1>3, <1>5, <2>1, GotoTrack
<1>6. CASE PayReturns(r)
  <2>1. /\ \A q \in Runs \ {r} : run'[q] = run[q]
        /\ run'[r].pc = "observe" /\ run'[r].stage = "rpc_observation" /\ run'[r].id = run[r].id
        /\ run'[r].exchange \in Exchanges /\ run'[r].poll = run[r].poll
    <3>1. PICK e \in Exchanges :
             run' = [run EXCEPT ![r].exchange = e, ![r].stage = "rpc_observation",
                                ![r].pc = "observe"]
      BY <1>6 DEF PayReturns
    <3> QED  BY <1>1, <3>1 DEF Types, Records
  <2>2. run'[r].exchange # None /\ run[r].poll = None
    <3>1. run[r].stage = "payment_exchange"
      BY <1>2, <1>6 DEF PayReturns, At
    <3> QED  BY <1>1, <1>3, <2>1, <3>1, NoneAssumption DEF TrackOf
  <2>3. TrackOf(r)'
    BY <1>2, <1>3, <2>1, <2>2, NoneAssumption DEF TrackOf, Working, Stages
  <2> QED  BY <1>2, <2>1, <2>3, RecordFrame
<1>7. CASE Observe(r)
  <2>1. PICK poll \in Polls :
          run' = [run EXCEPT ![r].poll = poll, ![r].stage = "evidence_assembly",
                             ![r].pc = "resolve"]
    BY <1>7 DEF Observe
  <2>2. /\ \A q \in Runs \ {r} : run'[q] = run[q]
        /\ run'[r].pc = "resolve" /\ run'[r].stage = "evidence_assembly"
        /\ run'[r].id = run[r].id
        /\ run'[r].exchange = run[r].exchange /\ run'[r].poll = poll
    BY <1>1, <2>1 DEF Types, Records
  <2>3. poll # None
    BY NoneAssumption
  <2>4. run[r].exchange # None
    BY <1>1, <1>2, <1>3, <1>7 DEF TrackOf, Observe, At
  <2>5. TrackOf(r)'
    BY <1>2, <1>3, <2>2, <2>3, <2>4, NoneAssumption DEF TrackOf, Working, Stages
  <2> QED  BY <1>2, <2>2, <2>5, RecordFrame
<1> QED  BY <1>4, <1>5, <1>6, <1>7 DEF Listen, PayThrows

LEMMA StageTrack ==
    ASSUME LiveInv, RecordInv, NEW r \in Runs,
           Assemble(r) \/ Stage(r) \/ WriteStaged(r) \/ Verify(r) \/ CheckDestination(r)
    PROVE  RecordInv'
<1>1. Types /\ TrackOf(r) /\ StageOf(r)
  BY DEF LiveInv, RunInv, RecordInv
<1>2. /\ run[r].pc \in {"assemble", "stage", "write", "verify", "move"}
      /\ run[r].stage \in {"evidence_assembly", "evidence_finalization"}
      /\ UNCHANGED <<attempt, material, final>>
  BY <1>1 DEF Assemble, Stage, WriteStaged, Verify, CheckDestination, At, StageOf, outputs
<1>3. run[r].stage # None /\ final[run[r].id] = NoDirectory
  BY <1>1, <1>2, NoneAssumption DEF TrackOf, Working, Stages
<1>4. CASE Throw(r)
  BY <1>2, <1>4, ThrowTrack DEF Ended
<1>5. CASE \E p \in {"write", "verify", "move", "rename"} : Goto(r, p)
  <2>1. PICK p \in {"write", "verify", "move", "rename"} : Goto(r, p)
    BY <1>5
  <2>2. p \in Places
    BY DEF Places
  <2> QED  BY <1>2, <1>3, <2>1, <2>2, GotoTrack
<1>6. CASE run' = [run EXCEPT ![r].stage = "evidence_finalization", ![r].pc = "stage"]
           /\ run[r].pc = "assemble"
  <2>1. /\ \A q \in Runs \ {r} : run'[q] = run[q]
        /\ run'[r].pc = "stage" /\ run'[r].stage = "evidence_finalization"
        /\ run'[r].id = run[r].id
        /\ run'[r].exchange = run[r].exchange /\ run'[r].poll = run[r].poll
    BY <1>1, <1>6 DEF Types, Records
  <2>2. run[r].exchange # None /\ run[r].poll # None
    BY <1>1, <1>2, <1>3 DEF TrackOf
  <2>3. TrackOf(r)'
    BY <1>2, <1>3, <2>1, <2>2, NoneAssumption DEF TrackOf, Working, Stages
  <2> QED  BY <1>2, <2>1, <2>3, RecordFrame
<1> QED  BY <1>4, <1>5, <1>6 DEF Assemble, Stage, WriteStaged, Verify, CheckDestination, At

LEMMA MoveTrack == ASSUME LiveInv, RecordInv, NEW r \in Runs, Move(r)  PROVE RecordInv'
<1>1. Types /\ RunInv(r) /\ TrackOf(r) /\ run[r].pc = "rename" /\ UNCHANGED <<attempt, material>>
  BY DEF LiveInv, RecordInv, Move, At
<1>2. run[r].stage = "evidence_finalization" /\ run[r].stage # None
      /\ Owns(r) /\ final[run[r].id] = NoDirectory
  BY <1>1, NoneAssumption DEF RunInv, StageOf, OutputsOf, TrackOf, Working, Stages
<1>3. Goto(r, "record") /\ final' = [final EXCEPT ![run[r].id] = staged[r]] /\ "record" \in Places
  BY <1>2 DEF Move, Places
<1>4. /\ \A q \in Runs \ {r} : run'[q] = run[q]
      /\ run'[r].pc = "record" /\ run'[r].stage = run[r].stage /\ run'[r].id = run[r].id
      /\ run'[r].exchange = run[r].exchange /\ run'[r].poll = run[r].poll
  BY <1>1, <1>3, GotoStep
<1>5. TrackOf(r)'
  BY <1>1, <1>2, <1>4 DEF TrackOf, Working
<1>6. \A i \in Ids : published[i].by # r => final'[i] = final[i]
  BY <1>1, <1>2, <1>3 DEF Owns, Types
<1> QED  BY <1>1, <1>4, <1>5, <1>6, RecordFrame

LEMMA PreserveTrack == ASSUME LiveInv, RecordInv, NEW r \in Runs, Preserve(r)  PROVE RecordInv'
<1>1. /\ Types /\ RunInv(r) /\ TrackOf(r) /\ run[r].pc = "preserve"
      /\ UNCHANGED <<attempt, final>> /\ Goto(r, "mark") /\ "mark" \in Places
  BY DEF LiveInv, RecordInv, Preserve, At, Places, Past
<1>2. run[r].stage # None /\ Owns(r)
  BY <1>1 DEF RunInv, OutputsOf, TrackOf
<1>3. material' = [material EXCEPT ![run[r].id] =
          [by |-> r, stage |-> run[r].stage, exchange |-> run[r].exchange,
           poll |-> run[r].poll]]
  BY DEF Preserve
<1>4. /\ \A q \in Runs \ {r} : run'[q] = run[q]
      /\ run'[r].pc = "mark" /\ run'[r].stage = run[r].stage /\ run'[r].id = run[r].id
      /\ run'[r].exchange = run[r].exchange /\ run'[r].poll = run[r].poll
  BY <1>1, GotoStep
<1>5. material'[run[r].id] = [by |-> r, stage |-> run[r].stage, exchange |-> run[r].exchange,
                              poll |-> run[r].poll]
  BY <1>1, <1>2, <1>3 DEF Types, Owns
<1>6. TrackOf(r)'
  BY <1>1, <1>2, <1>4, <1>5 DEF TrackOf, Working
<1>7. \A i \in Ids : published[i].by # r => material'[i] = material[i]
  BY <1>1, <1>2, <1>3 DEF Owns, Types
<1> QED  BY <1>1, <1>4, <1>6, <1>7, RecordFrame

LEMMA AttemptTrack ==
    ASSUME LiveInv, RecordInv, NEW r \in Runs, EmptyAttempt(r) \/ WriteAttempt(r)
    PROVE  RecordInv'
<1> DEFINE i == run[r].id
<1>1. /\ Types /\ RunInv(r) /\ TrackOf(r) /\ run[r].pc \in {"record", "mark", "recorded", "marked"}
      /\ UNCHANGED <<material, final>>
  BY DEF LiveInv, RecordInv, EmptyAttempt, WriteAttempt, At
<1>2. run[r].stage # None
  BY <1>1, NoneAssumption DEF RunInv, StageOf, Stages
<1>3. Owns(r) /\ i \in Ids
  BY <1>1, <1>2 DEF RunInv, OutputsOf, Owns
<1>4. PICK p \in {"recorded", "marked", "copy", "failed"} :
         /\ Goto(r, p)
         /\ p = "recorded" => run[r].pc = "record" /\ attempt'[i].state = "blank"
         /\ p = "marked" => run[r].pc = "mark" /\ attempt'[i].state = "blank"
         /\ p = "copy" => run[r].pc = "recorded" /\ attempt'[i].state = "completed"
         /\ p = "failed" => /\ run[r].pc = "marked"
                            /\ attempt'[i] = [state |-> "failed", by |-> r, stage |-> run[r].stage]
         /\ \A j \in Ids \ {i} : attempt'[j] = attempt[j]
  <2>1. CASE EmptyAttempt(r)
    BY <1>1, <1>3, <2>1 DEF EmptyAttempt, At, Types, Attempts
  <2>2. CASE WriteAttempt(r)
    BY <1>1, <1>3, <2>2 DEF WriteAttempt, At, Types, Attempts
  <2> QED  BY <2>1, <2>2
<1>5. p \in Places
  BY DEF Places, Past, Ended
<1>6. /\ \A q \in Runs \ {r} : run'[q] = run[q]
      /\ run'[r].pc = p /\ run'[r].stage = run[r].stage /\ run'[r].id = i
      /\ run'[r].exchange = run[r].exchange /\ run'[r].poll = run[r].poll
  BY <1>1, <1>4, <1>5, GotoStep
<1>7. run[r].pc = "recorded" => final[i].by = r
  BY <1>1 DEF RunInv, OutputsOf
<1>8. TrackOf(r)'
  BY <1>1, <1>2, <1>4, <1>6, <1>7 DEF TrackOf, Working
<1>9. \A j \in Ids : /\ published[j].by # r => attempt'[j] = attempt[j]
                     /\ attempt'[j].state = "failed" =>
                          attempt'[j] = attempt[j] \/ (run'[r].pc = "failed" /\ run'[r].id = j)
  BY <1>3, <1>4, <1>6 DEF Owns
<1> QED  BY <1>1, <1>6, <1>8, <1>9, RecordFrame

LEMMA EndTrack ==
    ASSUME LiveInv, RecordInv, NEW r \in Runs,
           Copy(r) \/ Tamper(r) \/ WriteRefused(r) \/ Kill(r)
    PROVE  RecordInv'
<1>1. UNCHANGED <<attempt, material, final>> /\ run[r].pc \notin Ended
  BY DEF Copy, Tamper, WriteRefused, Kill, At, outputs, Ended, Writing
<1>2. CASE Throw(r)
  <2>1. run[r].pc \in {"record", "recorded"} => r \in Faulty
    BY DEF Copy, Tamper, WriteRefused, Kill, At
  <2> QED  BY <1>1, <1>2, <2>1, ThrowTrack
<1>3. CASE \E p \in {"tamper", "passed", "not_passed", "killed"} :
              Goto(r, p) /\ (p # "killed" => run[r].pc \in {"copy", "tamper"})
  <2>1. PICK p \in {"tamper", "passed", "not_passed", "killed"} :
              Goto(r, p) /\ (p # "killed" => run[r].pc \in {"copy", "tamper"})
    BY <1>3
  <2>2. p \in Places
    BY DEF Places, Past, Ended
  <2> QED  BY <1>1, <2>1, <2>2, GotoTrack DEF Ended, Working
<1> QED  BY <1>2, <1>3 DEF Copy, Tamper, WriteRefused, Kill, At

LEMMA RecordStep == ASSUME LiveInv, RecordInv, [Next]_vars  PROVE RecordInv'
<1>1. ASSUME UNCHANGED <<run, attempt, material, final>>  PROVE RecordInv'
  <2>1. ASSUME NEW q \in Runs  PROVE TrackOf(q)'
    BY <1>1 DEF RecordInv, TrackOf
  <2>2. ASSUME NEW i \in Ids  PROVE FailedOf(i)'
    BY <1>1 DEF RecordInv, FailedOf
  <2> QED  BY <2>1, <2>2 DEF RecordInv
<1>2. CASE UNCHANGED vars
  BY <1>1, <1>2 DEF vars, outputs
<1>3. CASE MoveAside
  BY <1>1, <1>3 DEF MoveAside, outputs
<1>4. ASSUME NEW r \in Runs, Transfer(r)  PROVE RecordInv'
  BY <1>1, <1>4 DEF Transfer, outputs
<1>5. ASSUME NEW r \in Runs, Proceed(r) \/ WriteRefused(r) \/ Kill(r)  PROVE RecordInv'
  BY <1>4, <1>5, KeyTrack, ClaimTrack, BeginTrack, PayTrack, StageTrack, MoveTrack,
     PreserveTrack, AttemptTrack, EndTrack DEF Proceed
<1> QED  BY <1>2, <1>3, <1>5 DEF Next

-----------------------------------------------------------------------------
(* Theorems. *)

(* What every run knows of its outputs, and what lies under an identifier, *)
(* holds throughout (executeLiveRun, and the files it and the functions it *)
(* calls write).                                                           *)
THEOREM LiveInvariant == Spec => []LiveInv
  BY InitStep, NextStep, PTL DEF Spec

(* Everything under one identifier is of one run, for any number of runs   *)
(* that begin within any set of seconds (prepareRunOutputs).               *)
THEOREM NamesAreOwnAlways == Spec => []NamesAreOwn
<1>1. LiveInv => NamesAreOwn
  BY DEF LiveInv, FileInv, NamesAreOwn
<1> QED  BY <1>1, LiveInvariant, PTL

(* A final directory verifies under the public key file beside it, however *)
(* runs interleave, die or are refused a write, and however often the      *)
(* issuer key is moved aside (writeEvidenceTransactionally).               *)
THEOREM FinalIsVerifiableAlways == Spec => []FinalIsVerifiable
<1>1. ASSUME LiveInv, NEW i \in Ids, final[i] # NoDirectory
      PROVE  /\ final[i].state = "noted"
             /\ published[i].state = "complete" /\ published[i].key = final[i].key
  BY <1>1 DEF LiveInv, FileInv
<1>2. LiveInv => FinalIsVerifiable
  BY <1>1 DEF FinalIsVerifiable
<1> QED  BY <1>2, LiveInvariant, PTL

(* Nothing is spent but by a run whose attempt is recorded and whose       *)
(* public key is published (beginLiveAttempt before the payment phase).    *)
THEOREM SpentIsDocumentedAlways == Spec => []SpentIsDocumented
<1>1. ASSUME LiveInv, NEW r \in spent
      PROVE  /\ run[r].id # None
             /\ attempt[run[r].id].by = r
             /\ published[run[r].id] = [state |-> "complete", by |-> r, key |-> run[r].key]
  <2>1. r \in Runs /\ RunInv(r) /\ Types
    BY <1>1 DEF LiveInv, Types
  <2>2. run[r].stage # None
    BY <1>1, <2>1 DEF RunInv, SpendingOf
  <2>3. Owns(r) /\ attempt[run[r].id].by = r
    BY <2>1, <2>2 DEF RunInv, OutputsOf
  <2>4. published[run[r].id] \in Files
    BY <2>1, <2>3 DEF Types, Owns
  <2>5. published[run[r].id] = [state |-> "complete", by |-> r, key |-> run[r].key]
    BY <2>3, <2>4 DEF Owns, Files
  <2> QED  BY <2>3, <2>5, RunsAssumption DEF Owns
<1>2. LiveInv => SpentIsDocumented
  BY <1>1 DEF SpentIsDocumented
<1> QED  BY <1>2, LiveInvariant, PTL

(* A run that spent and met no fault of the machine ends in a verdict or   *)
(* in a recorded failure (the catch clause of executeLiveRun, and main).   *)
THEOREM SpentIsConcludedAlways == Spec => []SpentIsConcluded
<1>1. LiveInv => SpentIsConcluded
  BY DEF LiveInv, Types, RunInv, SpendingOf, SpentIsConcluded
<1> QED  BY <1>1, LiveInvariant, PTL


\* Which steps touch a final directory, a public key file or the issuer key file.
LEMMA TouchStep ==
    ASSUME NEW r \in Runs, Proceed(r) \/ WriteRefused(r) \/ Kill(r)
    PROVE  /\ UNCHANGED final \/ Move(r)
           /\ UNCHANGED published \/ Claim(r) \/ Publish(r)
           /\ UNCHANGED issuerFile \/ CreateKeyFile(r) \/ FillKeyFile(r)
<1>1. CASE Preflight(r) \/ LoadKey(r) \/ CreateKeyFile(r) \/ FillKeyFile(r) \/ Prepare(r)
  BY <1>1 DEF Preflight, LoadKey, CreateKeyFile, FillKeyFile, Prepare, outputs, keys
<1>2. CASE Claim(r) \/ Publish(r) \/ Begin(r) \/ Listen(r)
  BY <1>2 DEF Claim, Publish, Begin, Listen, outputs, keys
<1>3. CASE Transfer(r) \/ PayThrows(r) \/ PayReturns(r) \/ Observe(r) \/ Assemble(r)
  BY <1>3 DEF Transfer, PayThrows, PayReturns, Observe, Assemble, outputs, keys
<1>4. CASE Stage(r) \/ WriteStaged(r)
  BY <1>4 DEF Stage, WriteStaged, outputs, keys
<1>5. CASE Verify(r) \/ CheckDestination(r) \/ Move(r)
  BY <1>5 DEF Verify, CheckDestination, Move, outputs, keys
<1>6. CASE Preserve(r) \/ EmptyAttempt(r) \/ WriteAttempt(r) \/ Copy(r) \/ Tamper(r)
  BY <1>6 DEF Preserve, EmptyAttempt, WriteAttempt, Copy, Tamper, outputs, keys
<1>7. CASE WriteRefused(r) \/ Kill(r)
  BY <1>7 DEF WriteRefused, Kill, outputs, keys
<1> QED  BY <1>1, <1>2, <1>3, <1>4, <1>5, <1>6, <1>7 DEF Proceed

LEMMA OverwriteStep ==
    ASSUME LiveInv, Next
    PROVE  /\ \A i \in Ids : /\ final[i] # NoDirectory => final'[i] = final[i]
                             /\ published[i].state = "complete" => published'[i] = published[i]
           /\ issuerFile.state = "complete" => issuerFile' = issuerFile \/ MoveAside
<1>1. CASE MoveAside
  BY <1>1 DEF MoveAside, outputs
<1>2. ASSUME NEW r \in Runs, Proceed(r) \/ WriteRefused(r) \/ Kill(r)
      PROVE  /\ \A i \in Ids : /\ final[i] # NoDirectory => final'[i] = final[i]
                               /\ published[i].state = "complete" => published'[i] = published[i]
             /\ issuerFile.state = "complete" => issuerFile' = issuerFile
  <2>1. Types /\ RunInv(r)
    BY DEF LiveInv
  <2>2. ASSUME NEW i \in Ids, final[i] # NoDirectory, Move(r)  PROVE final'[i] = final[i]
    BY <2>1, <2>2 DEF Move, Types
  <2>3. ASSUME NEW i \in Ids, published[i].state = "complete", Claim(r) \/ Publish(r)
        PROVE  published'[i] = published[i]
    <3>1. Claim(r) => published[run[r].id].state = "absent" \/ UNCHANGED published
      BY DEF Claim
    <3>2. Publish(r) => published[run[r].id].state = "partial"
      BY <2>1 DEF Publish, At, RunInv, OutputsOf
    <3>3. i # run[r].id \/ UNCHANGED published
      BY <2>3, <3>1, <3>2
    <3> QED  BY <2>1, <2>3, <3>3 DEF Claim, Publish, Types
  <2>4. ASSUME issuerFile.state = "complete", CreateKeyFile(r) \/ FillKeyFile(r)
        PROVE  issuerFile' = issuerFile
    BY <2>1, <2>4 DEF CreateKeyFile, FillKeyFile, Types, Files
  <2> QED  BY <1>2, <2>2, <2>3, <2>4, TouchStep
<1> QED  BY <1>1, <1>2 DEF Next

(* No step replaces a final directory or a public key file, and none but   *)
(* the operator's takes away an issuer key file (the exclusive creations   *)
(* and the rename of the code).                                            *)
THEOREM NothingIsOverwrittenAlways == Spec => NothingIsOverwritten
<1>1. LiveInv /\ [Next]_vars =>
        [/\ \A i \in Ids : /\ final[i] # NoDirectory => final'[i] = final[i]
                           /\ published[i].state = "complete" => published'[i] = published[i]
         /\ issuerFile.state = "complete" => issuerFile' = issuerFile \/ MoveAside]_vars
  BY OverwriteStep
<1> QED  BY <1>1, LiveInvariant, PTL DEF Spec, NothingIsOverwritten

(* The record of an attempt says how it ended, for any number of runs and  *)
(* whatever dies or is refused a write: a failed run left what it held at  *)
(* the stage it names, a verdict is recorded as completed with its         *)
(* evidence in place, and an attempt recorded as failed has evidence only  *)
(* if that very record could not be written (executeLiveRun, and           *)
(* writeAttemptState and preserveRunMaterial).                             *)
THEOREM RecordsAreTrueAlways == Spec => []RecordsAreTrue
<1>1. Init => RecordInv
  <2> SUFFICES ASSUME Init PROVE RecordInv
    OBVIOUS
  <2>1. ASSUME NEW r \in Runs  PROVE TrackOf(r)
    BY <2>1 DEF Init, TrackOf, Working
  <2>2. ASSUME NEW i \in Ids  PROVE FailedOf(i)
    BY <2>2 DEF Init, FailedOf, NoAttempt
  <2> QED  BY <2>1, <2>2 DEF RecordInv
<1>2. LiveInv /\ RecordInv => RecordsAreTrue
  <2> SUFFICES ASSUME LiveInv, RecordInv PROVE RecordsAreTrue
    OBVIOUS
  <2>1. ASSUME NEW i \in Ids, attempt[i].state = "failed", final[i] # NoDirectory
        PROVE  attempt[i].stage = "evidence_finalization" /\ attempt[i].by \in Faulty
    <3>1. PICK q \in Runs : run[q].pc = "failed" /\ run[q].id = i /\ TrackOf(q)
      BY <2>1 DEF RecordInv, FailedOf
    <3> QED  BY <2>1, <3>1 DEF TrackOf
  <2>2. ASSUME NEW r \in Runs, At(r, "failed")
        PROVE  /\ attempt[run[r].id] = [state |-> "failed", by |-> r, stage |-> run[r].stage]
               /\ material[run[r].id] = [by |-> r, stage |-> run[r].stage,
                                         exchange |-> run[r].exchange, poll |-> run[r].poll]
               /\ run[r].stage = "payment_exchange" <=> run[r].exchange = None
               /\ run[r].stage \in {"evidence_assembly", "evidence_finalization"}
                     <=> run[r].poll # None
    BY <2>2 DEF RecordInv, TrackOf, At
  <2>3. ASSUME NEW r \in Runs, At(r, "passed") \/ At(r, "not_passed")
        PROVE  attempt[run[r].id].state = "completed" /\ final[run[r].id].by = r
    BY <2>3 DEF RecordInv, TrackOf, At
  <2> QED  BY <2>1, <2>2, <2>3 DEF RecordsAreTrue
<1> QED  BY <1>1, <1>2, RecordStep, LiveInvariant, PTL DEF Spec
=============================================================================
