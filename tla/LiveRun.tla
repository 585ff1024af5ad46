-------------------------------- MODULE LiveRun --------------------------------
(***************************************************************************)
(* Live runs over one file system: the preflight, the issuer key, the      *)
(* outputs a run claims before it spends, the four phases under the        *)
(* preserving orchestrator and the tamper check (main and executeLiveRun,  *)
(* flow/live-e2e.ts; prepareRunOutputs and writeEvidenceTransactionally,   *)
(* flow/issue-record.ts; resolveIssuerKey, flow/issuer-key.ts).            *)
(*                                                                         *)
(* A run is one process.  An action is one file operation, or one phase    *)
(* between two of them: another process may act in between, and a process  *)
(* may die there.  A run named in Faulty may be killed and may find any    *)
(* write refused.                                                          *)
(***************************************************************************)
EXTENDS Integers, FiniteSets

CONSTANTS
    Runs,     \* the processes
    Faulty,   \* those that may be killed, or meet a full disk
    Ids,      \* the run identifiers: the seconds at which a run may begin
    MaxMoves, \* how often the operator moves the issuer key file aside
    None

ASSUME RunsAssumption == Faulty \subseteq Runs /\ None \notin Runs \cup Ids
ASSUME MovesAssumption == MaxMoves \in Nat

VARIABLES
    run,        \* each process: where it is and what it holds
    issuerFile, \* the issuer key file, shared by all runs
    generated,  \* how many issuer keys were ever generated
    moves,      \* how often the issuer key file was moved aside
    published,  \* out/<id>-issuer.pub.json
    attempt,    \* out/<id>-attempt/attempt.json
    material,   \* out/<id>-attempt/run-material.json
    staged,     \* each run's own staging directory
    final,      \* out/<id>
    scratch,    \* the runs whose tamper copy exists
    port,       \* who listens on LIVE_ORIGIN_PORT
    spent       \* the runs whose payment was transferred (history)

keys == <<issuerFile, generated, moves>>
outputs == <<published, attempt, material, staged, final, scratch>>
vars == <<run, keys, outputs, port, spent>>

-----------------------------------------------------------------------------
(* Values. *)

\* What the paid exchange returned: did it end in response_write_attempted,
\* with a well-formed transaction reference, and was an origin result produced?
Exchanges == {e \in [settled : BOOLEAN, reference : BOOLEAN, result : BOOLEAN] :
                  (e.settled => e.result) /\ (e.reference => e.settled)}

\* How the poll ended; "unasked" when no observation was made.
Polls == {"unasked", "matched", "not_matched"}

Stages == {"payment_exchange", "rpc_observation", "evidence_assembly", "evidence_finalization"}

ASSUME NoneAssumption == None \notin Stages /\ None \notin Polls /\ None \notin Exchanges

\* Files and directories, each with the run that wrote it (history) and with the
\* number of the key in it; no key has the number 0.
NoFile == [state |-> "absent", by |-> None, key |-> 0]

\* `key' is the one that signed; is the origin result among the artifacts?
NoDirectory == [state |-> "absent", by |-> None, key |-> 0, result |-> FALSE]

NoAttempt == [state |-> "absent", by |-> None, stage |-> None]
NoMaterial == [by |-> None, stage |-> None, exchange |-> None, poll |-> None]

Ended == {"stopped", "escaped", "failed", "passed", "not_passed", "killed"}

\* Where an exception is no longer caught by the orchestrator.
Past == {"preserve", "mark", "marked", "copy", "tamper"}

Places == {"preflight", "resolve", "create", "fill", "prepare", "claim", "publish", "begin",
           "listen", "pay", "observe", "assemble", "stage", "write", "verify", "move",
           "rename", "record", "recorded"} \cup Past \cup Ended

TypeOK ==
    LET Keys == 0 .. generated
        Files == [state : {"absent", "partial", "complete"}, by : Runs \cup {None}, key : Keys]
        Directories == [state : {"absent", "partial", "written", "noted"},
                        by : Runs \cup {None}, key : Keys, result : BOOLEAN]
    IN /\ generated \in Nat /\ moves \in 0 .. MaxMoves
       /\ run \in [Runs -> [pc : Places, stage : Stages \cup {None}, id : Ids \cup {None},
                            key : Keys, signer : Keys,
                            exchange : Exchanges \cup {None}, poll : Polls \cup {None}]]
       /\ issuerFile \in Files
       /\ published \in [Ids -> Files]
       /\ attempt \in [Ids -> [state : {"absent", "begun", "blank", "completed", "failed"},
                               by : Runs \cup {None}, stage : Stages \cup {None}]]
       /\ material \in [Ids -> [by : Runs \cup {None}, stage : Stages \cup {None},
                                exchange : Exchanges \cup {None}, poll : Polls \cup {None}]]
       /\ staged \in [Runs -> Directories] /\ final \in [Ids -> Directories]
       /\ scratch \in SUBSET Runs /\ spent \in SUBSET Runs
       /\ port \in Runs \cup {None}

Init ==
    /\ run = [r \in Runs |-> [pc |-> "preflight", stage |-> None, id |-> None, key |-> 0,
                              signer |-> 0, exchange |-> None, poll |-> None]]
    /\ issuerFile = NoFile /\ generated = 0 /\ moves = 0
    /\ published = [i \in Ids |-> NoFile]
    /\ attempt = [i \in Ids |-> NoAttempt]
    /\ material = [i \in Ids |-> NoMaterial]
    /\ staged = [r \in Runs |-> NoDirectory]
    /\ final = [i \in Ids |-> NoDirectory]
    /\ scratch = {} /\ spent = {}
    /\ port = None

At(r, place) == run[r].pc = place

Goto(r, place) == run' = [run EXCEPT ![r].pc = place]

\* Mutant of Throw: the catch clause is around the payment only.
ThrowAroundPayment(r) ==
    Goto(r, IF run[r].stage = "payment_exchange" /\ run[r].pc \notin Past
            THEN "preserve" ELSE "escaped")

\* What a throw leads to: the orchestrator's catch clause, or out of main.
Throw(r) ==
    Goto(r, IF run[r].stage # None /\ run[r].pc \notin Past THEN "preserve" ELSE "escaped")

-----------------------------------------------------------------------------
(* Before the payment. *)

\* The preflight refuses, for any of its checks, or finds the run ready: then
\* the issuer key file was absent or readable.
Preflight(r) ==
    /\ At(r, "preflight")
    /\ \/ Goto(r, "stopped")
       \/ issuerFile.state # "partial" /\ Goto(r, "resolve")
    /\ UNCHANGED <<keys, outputs, port, spent>>

\* The key is the one the run publishes, or the one evidence is signed with:
\* it is resolved when the run begins, and again when evidence is assembled.
Resolved(r, k) ==
    run' = IF run[r].stage = None
           THEN [run EXCEPT ![r].key = k, ![r].pc = "prepare"]
           ELSE [run EXCEPT ![r].signer = k, ![r].pc = "assemble"]

LoadKey(r) ==
    /\ At(r, "resolve")
    /\ \/ issuerFile.state = "complete" /\ Resolved(r, issuerFile.key)
       \/ issuerFile.state = "partial" /\ Throw(r)
       \/ issuerFile.state = "absent" /\ Goto(r, "create")
    /\ UNCHANGED <<keys, outputs, port, spent>>

\* A key is generated and its file created, unless one appeared meanwhile.
CreateKeyFile(r) ==
    /\ At(r, "create")
    /\ IF issuerFile.state = "absent"
       THEN /\ issuerFile' = [state |-> "partial", by |-> r, key |-> generated + 1]
            /\ generated' = generated + 1
            /\ Goto(r, "fill")
       ELSE Throw(r) /\ UNCHANGED <<issuerFile, generated>>
    /\ UNCHANGED <<moves, outputs, port, spent>>

FillKeyFile(r) ==
    /\ At(r, "fill")
    /\ issuerFile' = [issuerFile EXCEPT !.state = "complete"]
    /\ Resolved(r, issuerFile.key)
    /\ UNCHANGED <<generated, moves, outputs, port, spent>>

\* The run takes its identifier from the clock and looks whether its outputs exist.
Prepare(r) ==
    /\ At(r, "prepare")
    /\ \E i \in Ids :
         IF final[i] = NoDirectory /\ published[i].state = "absent"
         THEN run' = [run EXCEPT ![r].id = i, ![r].pc = "claim"]
         ELSE Throw(r)
    /\ UNCHANGED <<keys, outputs, port, spent>>

\* Mutant of Claim: what was looked up before is relied on.
ClaimUnchecked(r) ==
    /\ At(r, "claim")
    /\ published' = [published EXCEPT ![run[r].id] =
                         [state |-> "partial", by |-> r, key |-> run[r].key]]
    /\ Goto(r, "publish")
    /\ UNCHANGED <<keys, attempt, material, staged, final, scratch, port, spent>>

\* The public key file is created exclusively: whoever creates it has the name.
Claim(r) ==
    /\ At(r, "claim")
    /\ IF published[run[r].id].state = "absent"
       THEN /\ published' = [published EXCEPT ![run[r].id] =
                                 [state |-> "partial", by |-> r, key |-> run[r].key]]
            /\ Goto(r, "publish")
       ELSE Throw(r) /\ UNCHANGED published
    /\ UNCHANGED <<keys, attempt, material, staged, final, scratch, port, spent>>

\* Its contents are written and read back.
Publish(r) ==
    /\ At(r, "publish")
    /\ published' = [published EXCEPT ![run[r].id].state = "complete"]
    /\ Goto(r, "begin")
    /\ UNCHANGED <<keys, attempt, material, staged, final, scratch, port, spent>>

\* Mutant of Begin: the attempt is recorded only when it is over.
BeginUnrecorded(r) ==
    /\ At(r, "begin")
    /\ run' = [run EXCEPT ![r].pc = "listen", ![r].stage = "payment_exchange"]
    /\ UNCHANGED <<keys, outputs, port, spent>>

\* beginLiveAttempt: the record of the attempt is written; the phases begin.
Begin(r) ==
    /\ At(r, "begin")
    /\ attempt' = [attempt EXCEPT ![run[r].id] = [state |-> "begun", by |-> r, stage |-> None]]
    /\ run' = [run EXCEPT ![r].pc = "listen", ![r].stage = "payment_exchange"]
    /\ UNCHANGED <<keys, published, material, staged, final, scratch, port, spent>>

-----------------------------------------------------------------------------
(* The phases. *)

\* The origin listens on its fixed port, or the payment phase fails.
Listen(r) ==
    /\ At(r, "listen")
    /\ IF port = None THEN port' = r /\ Goto(r, "pay") ELSE Throw(r) /\ UNCHANGED port
    /\ UNCHANGED <<keys, outputs, spent>>

\* The facilitator transfers the payment; what it answers is still to come.
Transfer(r) ==
    /\ At(r, "pay")
    /\ spent' = spent \cup {r}
    /\ UNCHANGED <<run, keys, outputs, port>>

\* The exchange throws at one of its requests, whatever the origin has seen.
PayThrows(r) ==
    /\ At(r, "pay")
    /\ Throw(r)
    /\ port' = None
    /\ UNCHANGED <<keys, outputs, spent>>

\* The exchange is over.  A settlement is reported only of a transfer, and a
\* transfer is made only for a request whose result was produced.
PayReturns(r) ==
    /\ At(r, "pay")
    /\ \E e \in Exchanges :
         /\ e.settled => r \in spent
         /\ r \in spent => e.result
         /\ run' = [run EXCEPT ![r].exchange = e, ![r].stage = "rpc_observation",
                               ![r].pc = "observe"]
    /\ port' = None
    /\ UNCHANGED <<keys, outputs, spent>>

\* Mutant of Observe: the stage is not advanced.
ObserveInStage(r) ==
    /\ At(r, "observe")
    /\ \E poll \in Polls :
         /\ (poll = "unasked") = ~ run[r].exchange.reference
         /\ run' = [run EXCEPT ![r].poll = poll, ![r].pc = "resolve"]
    /\ UNCHANGED <<keys, outputs, port, spent>>

\* The chain is asked about a settlement with a well-formed reference only.
Observe(r) ==
    /\ At(r, "observe")
    /\ \E poll \in Polls :
         /\ (poll = "unasked") = ~ run[r].exchange.reference
         /\ run' = [run EXCEPT ![r].poll = poll, ![r].stage = "evidence_assembly",
                               ![r].pc = "resolve"]
    /\ UNCHANGED <<keys, outputs, port, spent>>

\* buildEvidence, once it has its key: what was observed is captured and signed,
\* or refused.
Assemble(r) ==
    /\ At(r, "assemble")
    /\ \/ Throw(r)
       \/ run' = [run EXCEPT ![r].stage = "evidence_finalization", ![r].pc = "stage"]
    /\ UNCHANGED <<keys, outputs, port, spent>>

\* Mutant of Stage: the destination itself is created.
StageInPlace(r) ==
    /\ At(r, "stage")
    /\ IF final[run[r].id] = NoDirectory
       THEN /\ final' = [final EXCEPT ![run[r].id] =
                  [state |-> "partial", by |-> r, key |-> run[r].signer,
                   result |-> run[r].exchange.result]]
            /\ Goto(r, "write")
       ELSE Throw(r) /\ UNCHANGED final
    /\ UNCHANGED <<keys, published, attempt, material, staged, scratch, port, spent>>

\* A staging directory of a name of its own is created.
Stage(r) ==
    /\ At(r, "stage")
    /\ IF final[run[r].id] = NoDirectory
       THEN /\ staged' = [staged EXCEPT ![r] =
                  [state |-> "partial", by |-> r, key |-> run[r].signer,
                   result |-> run[r].exchange.result]]
            /\ Goto(r, "write")
       ELSE Throw(r) /\ UNCHANGED staged
    /\ UNCHANGED <<keys, published, attempt, material, final, scratch, port, spent>>

WriteStaged(r) ==
    /\ At(r, "write")
    /\ staged' = [staged EXCEPT ![r].state = "written"]
    /\ Goto(r, "verify")
    /\ UNCHANGED <<keys, published, attempt, material, final, scratch, port, spent>>

\* Mutants of Verify: the report is written and not acted on; the directory is
\* moved before it is verified.
VerifyNoted(r) ==
    /\ At(r, "verify")
    /\ staged' = [staged EXCEPT ![r].state = "noted"]
    /\ Goto(r, "move")
    /\ UNCHANGED <<keys, published, attempt, material, final, scratch, port, spent>>

VerifyMoved(r) ==
    /\ At(r, "verify")
    /\ final' = [final EXCEPT ![run[r].id] = [staged[r] EXCEPT !.state = "noted"]]
    /\ IF staged[r].key = run[r].key THEN Goto(r, "record") ELSE Throw(r)
    /\ UNCHANGED <<keys, published, attempt, material, staged, scratch, port, spent>>

\* The staged directory is verified under the key the run published; the report
\* and the note are added to it, and only then is a failure raised.
Verify(r) ==
    /\ At(r, "verify")
    /\ staged' = [staged EXCEPT ![r].state = "noted"]
    /\ IF staged[r].key = run[r].key THEN Goto(r, "move") ELSE Throw(r)
    /\ UNCHANGED <<keys, published, attempt, material, final, scratch, port, spent>>

\* The destination is looked up once more, and the directory moved to it after
\* that: another run may act in between.
CheckDestination(r) ==
    /\ At(r, "move")
    /\ IF final[run[r].id] = NoDirectory THEN Goto(r, "rename") ELSE Throw(r)
    /\ UNCHANGED <<keys, outputs, port, spent>>

\* One rename, which an evidence directory at the destination refuses.
Move(r) ==
    /\ At(r, "rename")
    /\ IF final[run[r].id] = NoDirectory
       THEN /\ final' = [final EXCEPT ![run[r].id] = staged[r]]
            /\ staged' = [staged EXCEPT ![r] = NoDirectory]
            /\ Goto(r, "record")
       ELSE Throw(r) /\ UNCHANGED <<final, staged>>
    /\ UNCHANGED <<keys, published, attempt, material, scratch, port, spent>>

-----------------------------------------------------------------------------
(* The catch clause, and the record of the attempt. *)

\* preserveRunMaterial: what the orchestrator holds at that point.
Preserve(r) ==
    /\ At(r, "preserve")
    /\ material' = [material EXCEPT ![run[r].id] =
           [by |-> r, stage |-> run[r].stage, exchange |-> run[r].exchange,
            poll |-> run[r].poll]]
    /\ Goto(r, "mark")
    /\ UNCHANGED <<keys, published, attempt, staged, final, scratch, port, spent>>

\* writeAttemptState rewrites the file in place: it is emptied, then written.
EmptyAttempt(r) ==
    /\ At(r, "record") \/ At(r, "mark")
    /\ attempt' = [attempt EXCEPT ![run[r].id].state = "blank"]
    /\ Goto(r, IF At(r, "record") THEN "recorded" ELSE "marked")
    /\ UNCHANGED <<keys, published, material, staged, final, scratch, port, spent>>

WriteAttempt(r) ==
    /\ \/ /\ At(r, "recorded")
          /\ attempt' = [attempt EXCEPT ![run[r].id].state = "completed"]
          /\ Goto(r, "copy")
       \/ /\ At(r, "marked")
          /\ attempt' = [attempt EXCEPT ![run[r].id] =
                 [state |-> "failed", by |-> r, stage |-> run[r].stage]]
          /\ Goto(r, "failed")
    /\ UNCHANGED <<keys, published, material, staged, final, scratch, port, spent>>

-----------------------------------------------------------------------------
(* The tamper check and the verdict. *)

Copy(r) ==
    /\ At(r, "copy")
    /\ scratch' = scratch \cup {r}
    /\ Goto(r, "tamper")
    /\ UNCHANGED <<keys, published, attempt, material, staged, final, port, spent>>

Accepted(r) == run[r].exchange.settled /\ run[r].poll = "matched"

\* Mutant of Tamper: the outcome of the poll stands for the verdict.
TamperOutcome(r) ==
    /\ At(r, "tamper")
    /\ scratch' = scratch \ {r}
    /\ Goto(r, run[r].poll)
    /\ UNCHANGED <<keys, published, attempt, material, staged, final, port, spent>>

\* One byte of the origin result is altered in the copy, which then fails to
\* verify and is removed.  Without an origin result there is no file to read.
Tamper(r) ==
    /\ At(r, "tamper")
    /\ IF final[run[r].id].result
       THEN /\ scratch' = scratch \ {r}
            /\ Goto(r, IF Accepted(r) THEN "passed" ELSE "not_passed")
       ELSE Throw(r) /\ UNCHANGED scratch
    /\ UNCHANGED <<keys, published, attempt, material, staged, final, port, spent>>

-----------------------------------------------------------------------------
(* What else may happen. *)

Writing == {"create", "fill", "claim", "publish", "begin", "stage", "write", "verify", "rename",
            "record", "recorded", "preserve", "mark", "marked", "copy", "tamper"}

\* A write is refused.  A file that was opened for it stays as it is.
WriteRefused(r) ==
    /\ r \in Faulty /\ run[r].pc \in Writing
    /\ Throw(r)
    /\ UNCHANGED <<keys, outputs, port, spent>>

Kill(r) ==
    /\ r \in Faulty /\ run[r].pc \notin Ended \cup {"preflight"}
    /\ Goto(r, "killed")
    /\ port' = IF port = r THEN None ELSE port
    /\ UNCHANGED <<keys, outputs, spent>>

\* The operator moves the issuer key file aside, when no run is writing it.
MoveAside ==
    /\ moves < MaxMoves
    /\ issuerFile.state # "absent"
    /\ \A r \in Runs : ~ At(r, "fill")
    /\ issuerFile' = NoFile
    /\ moves' = moves + 1
    /\ UNCHANGED <<run, generated, outputs, port, spent>>

Proceed(r) ==
    \/ Preflight(r) \/ LoadKey(r) \/ CreateKeyFile(r) \/ FillKeyFile(r)
    \/ Prepare(r) \/ Claim(r) \/ Publish(r) \/ Begin(r)
    \/ Listen(r) \/ Transfer(r) \/ PayThrows(r) \/ PayReturns(r) \/ Observe(r)
    \/ Assemble(r) \/ Stage(r) \/ WriteStaged(r) \/ Verify(r)
    \/ CheckDestination(r) \/ Move(r)
    \/ Preserve(r) \/ EmptyAttempt(r) \/ WriteAttempt(r) \/ Copy(r) \/ Tamper(r)

Next == (\E r \in Runs : Proceed(r) \/ WriteRefused(r) \/ Kill(r)) \/ MoveAside

Spec == Init /\ [][Next]_vars

-----------------------------------------------------------------------------
(* Properties. *)

(* A final directory is complete, carries its report and note, and was     *)
(* signed with the key in the public key file beside it: whoever finds it  *)
(* can verify it, whatever became of the issuer key file meanwhile.        *)
FinalIsVerifiable ==
    \A i \in Ids : final[i] # NoDirectory =>
        /\ final[i].state = "noted"
        /\ published[i].state = "complete" /\ published[i].key = final[i].key

(* Everything under one identifier is of one run, although the identifier  *)
(* is a second of the clock.                                               *)
NamesAreOwn ==
    \A i \in Ids :
        \A by \in {attempt[i].by, material[i].by, final[i].by} \ {None} :
            published[i].by = by

(* Nothing is spent but by a run that has the record of its attempt and    *)
(* the key a reviewer needs on the disk, and they stay there.              *)
SpentIsDocumented ==
    \A r \in spent :
        /\ run[r].id # None
        /\ attempt[run[r].id].by = r
        /\ published[run[r].id] = [state |-> "complete", by |-> r, key |-> run[r].key]

(* The record of an attempt says how it ended: a failed run left what it   *)
(* held at the stage it names, a run that gave a verdict is recorded as    *)
(* completed with its evidence in place, and what is recorded as failed    *)
(* has such evidence only if that very record could not be written.        *)
RecordsAreTrue ==
    /\ \A i \in Ids :
          attempt[i].state = "failed" /\ final[i] # NoDirectory =>
              attempt[i].stage = "evidence_finalization" /\ attempt[i].by \in Faulty
    /\ \A r \in Runs :
        LET i == run[r].id IN
        /\ At(r, "failed") =>
              /\ attempt[i] = [state |-> "failed", by |-> r, stage |-> run[r].stage]
              /\ material[i] = [by |-> r, stage |-> run[r].stage,
                                exchange |-> run[r].exchange, poll |-> run[r].poll]
              /\ run[r].stage = "payment_exchange" <=> run[r].exchange = None
              /\ run[r].stage \in {"evidence_assembly", "evidence_finalization"}
                    <=> run[r].poll # None
        /\ At(r, "passed") \/ At(r, "not_passed") =>
              attempt[i].state = "completed" /\ final[i].by = r

(* A run that spent, and met no fault of the machine, ends in a verdict or *)
(* in a recorded failure: no exception of a phase gets past the record.    *)
SpentIsConcluded ==
    \A r \in spent \ Faulty :
        run[r].pc \in Ended => run[r].pc \in {"failed", "passed", "not_passed"}

(* A final directory and a public key file are never touched again, and    *)
(* only the operator takes away a complete issuer key file.                *)
NothingIsOverwritten ==
    [][/\ \A i \in Ids : /\ final[i] # NoDirectory => final'[i] = final[i]
                         /\ published[i].state = "complete" => published'[i] = published[i]
       /\ issuerFile.state = "complete" => issuerFile' = issuerFile \/ MoveAside]_vars

(* live-e2e.ts, on the invariant of an attempt: every exception path past  *)
(* the payment boundary preserves the material that exists.                *)
SpentIsPreserved ==
    \A r \in spent : At(r, "failed") => material[run[r].id].exchange # None

=============================================================================
