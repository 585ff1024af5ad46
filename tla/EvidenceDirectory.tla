-------------------------- MODULE EvidenceDirectory --------------------------
(***************************************************************************)
(* One evidence directory between whoever writes it and whoever verifies   *)
(* it.  The offline run writes its directory in place, file by file, over  *)
(* whatever an earlier run left there (writeEvidence); the directory is    *)
(* copied and handed on, and files of it may be lost, spoiled, reformatted *)
(* or exchanged with those of another directory; and verifyEvidence, in a  *)
(* process of its own, reads the files one after the other and decides on  *)
(* what it has read.                                                       *)
(***************************************************************************)
EXTENDS VerifyEvidence, Naturals, Sequences

CONSTANTS
    Runs,          \* the runs buildEvidence is called for, each with its options
    Reissued,      \* layouts re-signed by the holder of a key after an edit
    Found,         \* the layouts written over it, and stray files come from
    SuppliedKeys,  \* what a verifier may be given to verify under
    MaxChanges     \* bound: how many times the directory is written or altered

Layouts == {Layout(r) : r \in Runs} \cup Reissued

(* A layout whose record binds every other file of it, as issueEvidence makes
   it, and as re-signing with refreshed digests keeps it.                   *)
BoundByRecord(l) ==
    /\ l["record.jws"].state = "present"
    /\ l["record.jws"].value # Garbled
    /\ l = [a \in EVIDENCE_ARTIFACTS |-> l[a]]
    /\ \A a \in EVIDENCE_ARTIFACTS : l[a] = NoFile \/ l[a] = File(l[a].value)
    /\ \A a \in DigestBound : DigestHolds(l, a)
    /\ BodyHolds(l)
    /\ l["origin-result-binding.json"] = NoFile => l["origin-result-body.bin"] = NoFile

\* None and Garbled are no document and no file, every run has a 402 response,
\* and every result has a body.
ASSUME DocumentsAssumption ==
    \A r \in Runs :
      /\ r.required # None
      /\ {RequestBinding(r), Observation(r), Claims(r)} \cap {None, Garbled} = {}
      /\ r.result # None => /\ r.result.body # None
                            /\ OriginResultBinding(r) \notin {None, Garbled}
      /\ \A a \in EVIDENCE_ARTIFACTS : Layout(r)[a] # None

\* The client made the payment, and decoded the challenge it answers; a settlement
\* response is encoded by the middleware.
ASSUME PartiesAssumption ==
    \A r \in Runs :
      /\ r.payload \notin {None, Garbled}
      /\ Garbled \notin {r.required, r.response}
      /\ r.payload.accepted = [network   |-> r.payload.accepted.network,
                               asset     |-> r.payload.accepted.asset,
                               amount    |-> r.payload.accepted.amount,
                               recipient |-> r.payload.accepted.recipient]
      /\ r.response # None => r.response.success \in BOOLEAN

ASSUME ReissuedAssumption == \A l \in Reissued : BoundByRecord(l)
ASSUME FoundAssumption == Found \subseteq Layouts
ASSUME MaxChangesAssumption == MaxChanges \in Nat

WRITE_ORDER ==
    <<"record.jws", "request-binding.json", "chain-observation.json",
      "artifacts/payment-required.txt", "artifacts/payment-signature.txt",
      "artifacts/payment-response.txt", "origin-result-binding.json",
      "origin-result-body.bin">>

READ_ORDER ==
    <<"record.jws", "request-binding.json", "origin-result-binding.json",
      "origin-result-body.bin", "artifacts/payment-required.txt",
      "artifacts/payment-signature.txt", "artifacts/payment-response.txt",
      "chain-observation.json">>

Nested == {Required, Signature, Response}

VARIABLES
    dir,        \* the directory: a file for every artifact name
    container,  \* what artifacts/ is: "directory" or "refused"
    layout,     \* what is being written, or was last
    next,       \* the place in WRITE_ORDER of the file to write
    open,       \* has that file been opened, hence truncated?
    changes,    \* how many times the directory was written or altered
    phase,      \* of the verifier: "idle", "reading", "reported"
    supplied,   \* what it verifies under
    at,         \* the place in READ_ORDER of the file to read
    read,       \* what it has read
    failed      \* the checks that failed

vars == <<dir, container, layout, next, open, changes,
          phase, supplied, at, read, failed>>

writer == <<layout, next, open>>
verifier == <<phase, supplied, at, read, failed>>

Nothing == [a \in EVIDENCE_ARTIFACTS |-> NoFile]

\* There is no directory yet, or an earlier run wrote it to the end.
Init ==
    /\ layout \in Layouts
    /\ dir \in {Nothing, layout}
    /\ container = "directory"
    /\ next = Len(WRITE_ORDER) + 1
    /\ open = FALSE
    /\ changes = 0
    /\ phase = "idle"
    /\ supplied = None
    /\ at = 1
    /\ read = Nothing
    /\ failed = {}

-----------------------------------------------------------------------------
(* Writing. *)

Writing == next <= Len(WRITE_ORDER)

\* A run of the program writes its evidence over what is there, whether or not
\* the earlier one got to the end.
Write ==
    /\ changes < MaxChanges
    /\ changes' = changes + 1
    /\ layout' \in Found
    /\ next' = 1
    /\ open' = FALSE
    /\ UNCHANGED <<dir, container, verifier>>

\* A file the layout does not have is not touched: what stands there stays.
Skip ==
    /\ Writing
    /\ layout[WRITE_ORDER[next]].state # "present"
    /\ next' = next + 1
    /\ UNCHANGED <<dir, container, layout, open, changes, verifier>>

\* writeFileSync opens and truncates ...
Truncate ==
    /\ Writing
    /\ ~ open
    /\ layout[WRITE_ORDER[next]].state = "present"
    /\ dir[WRITE_ORDER[next]] # Unreadable
    /\ dir' = [dir EXCEPT ![WRITE_ORDER[next]] = File(Garbled)]
    /\ open' = TRUE
    /\ UNCHANGED <<container, layout, next, changes, verifier>>

\* ... and then writes the bytes.
Fill ==
    /\ Writing
    /\ open
    /\ dir' = [dir EXCEPT ![WRITE_ORDER[next]] = layout[WRITE_ORDER[next]]]
    /\ open' = FALSE
    /\ next' = next + 1
    /\ UNCHANGED <<container, layout, changes, verifier>>

-----------------------------------------------------------------------------
(* What may become of a directory in other hands. *)

Alter(a, file) ==
    /\ changes < MaxChanges
    /\ changes' = changes + 1
    /\ ~ (Writing /\ open)
    /\ dir[a] # file
    /\ dir' = [dir EXCEPT ![a] = file]
    /\ UNCHANGED <<container, writer, verifier>>

Lose(a) == Alter(a, NoFile)

Spoil(a) == dir[a].state = "present" /\ Alter(a, File(Garbled))

\* It is not a regular file any more, is too large, or may not be opened.
Close(a) == Alter(a, Unreadable)

\* The same document with other white space: another text of the same record,
\* another rendering of the same canonical value.
Reformat(a) ==
    /\ a \in JsonArtifacts \cup {"record.jws"}
    /\ dir[a].state = "present"
    /\ Alter(a, [dir[a] EXCEPT !.form = "reformatted"])

Exchange(a) == \E l \in Found : Alter(a, l[a])

\* Another directory stands where artifacts/ stood.
Redirect ==
    /\ changes < MaxChanges
    /\ changes' = changes + 1
    /\ ~ Writing
    /\ container' = "refused"
    /\ \E l \in Found : dir' = [a \in EVIDENCE_ARTIFACTS |->
                                  IF a \in Nested THEN l[a] ELSE dir[a]]
    /\ UNCHANGED <<writer, verifier>>

Damage ==
    \/ \E a \in EVIDENCE_ARTIFACTS :
         Lose(a) \/ Spoil(a) \/ Close(a) \/ Reformat(a) \/ Exchange(a)
    \/ Redirect

-----------------------------------------------------------------------------
(* Verifying. *)

Report(checks) == phase' = "reported" /\ failed' = checks

\* checkContainerDirectory, before any name below it is read.
Begin ==
    /\ phase = "idle"
    /\ IF container = "refused"
       THEN Report(Fails("nested artifact directories are directories"))
       ELSE phase' = "reading" /\ UNCHANGED failed
    /\ UNCHANGED <<dir, container, writer, changes, supplied, at, read>>

ReadNext ==
    /\ phase = "reading"
    /\ at <= Len(READ_ORDER)
    /\ read' = [read EXCEPT ![READ_ORDER[at]] = dir[READ_ORDER[at]]]
    /\ at' = at + 1
    /\ UNCHANGED <<dir, container, writer, changes, phase, supplied, failed>>

\* What it verifies under is not looked at before this.
Decide ==
    /\ phase = "reading"
    /\ at > Len(READ_ORDER)
    /\ supplied' \in SuppliedKeys
    /\ Report(FailedChecks(read, supplied'))
    /\ UNCHANGED <<dir, container, writer, changes, at, read>>

Next ==
    \/ Write \/ Skip \/ Truncate \/ Fill
    \/ Damage
    \/ Begin \/ ReadNext \/ Decide

Spec == Init /\ [][Next]_vars

-----------------------------------------------------------------------------
(* Properties. *)

\* What a name may give when it is opened, up to what a file holds.
Plausible(file) ==
    \/ file \in {NoFile, Unreadable}
    \/ /\ file = [state |-> "present", value |-> file.value, form |-> file.form]
       /\ file.form \in {"as issued", "reformatted"}

\* Every variable keeps its type: the directory and what was read of it hold a
\* file for every artifact name, and the counters stay within their bounds.
TypeOK ==
    /\ dir = [a \in EVIDENCE_ARTIFACTS |-> dir[a]]
    /\ read = [a \in EVIDENCE_ARTIFACTS |-> read[a]]
    /\ \A a \in EVIDENCE_ARTIFACTS : Plausible(dir[a]) /\ Plausible(read[a])
    /\ container \in {"directory", "refused"}
    /\ layout \in Layouts
    /\ next \in 1 .. (Len(WRITE_ORDER) + 1)
    /\ open \in BOOLEAN
    /\ changes \in 0 .. MaxChanges
    /\ phase \in {"idle", "reading", "reported"}
    /\ supplied \in SuppliedKeys \cup {None}
    /\ at \in 1 .. (Len(READ_ORDER) + 1)

Verified == phase = "reported" /\ failed = {}

\* Two files hold the same: the same bytes, or, for a document whose digest
\* is that of its canonical value and for the record, the same value.
SameFile(a, f, g) ==
    IF a \in JsonArtifacts \cup {"record.jws"}
    THEN f.state = g.state /\ f.value = g.value
    ELSE f = g

SameEvidence(d, l) == \A a \in EVIDENCE_ARTIFACTS : SameFile(a, d[a], l[a])

\* A directory that verifies was read as one whole emission by the holder of
\* the supplied key: nothing missing, nothing added, and no file of another
\* run, whatever was written or altered while it was read.
VerifiedIsOneIssuance ==
    Verified => \E l \in Layouts : /\ SameEvidence(read, l)
                                   /\ RecordOf(l).key = supplied.public

\* The report tells which file was edited: of files that can be read, beside an
\* intact record, the digest check of a file fails exactly when the file is not
\* the one that was issued, and the check of the body exactly when the body is
\* not the one its intact binding names.
EditIsNamed ==
    /\ phase = "reported"
    /\ \A a \in EVIDENCE_ARTIFACTS : read[a].state # "refused"
    /\ SignatureHolds(read, supplied)
    /\ RecordOf(read).groups
    => \A l \in Layouts :
         RecordOf(l) = RecordOf(read) =>
           /\ \A a \in DigestBound :
                <<"digest", a>> \in failed <=> ~ SameFile(a, read[a], l[a])
           /\ /\ l["origin-result-binding.json"].state = "present"
              /\ SameFile("origin-result-binding.json",
                          read["origin-result-binding.json"],
                          l["origin-result-binding.json"])
              => (Fails("origin result body") \subseteq failed
                    <=> read["origin-result-body.bin"] # l["origin-result-body.bin"])

(* What a run of the flow looks like when the parties to the payment answered
   in accordance with it.  Its terminal state is one the paid request reaches. *)
Produced(r) ==
    CASE r.terminal \in {"response_write_attempted", "settlement_failed"} -> r.result # None
      [] r.terminal = "handler_error_status" -> TRUE
      [] OTHER -> r.result = None

PaidAsAgreed(r) ==
    /\ r.response # None /\ r.response.success /\ r.response.transaction # None
    /\ r.response.payer \in {None, r.payer}
    /\ r.payload.authorization # None
    /\ r.payload.authorization.to = r.payload.accepted.recipient
    /\ r.payload.authorization.value = r.payload.accepted.amount
    /\ r.payload.accepted \in r.required.accepts
    /\ r.required.url = r.payload.url /\ r.url = r.payload.url
    /\ r.reference = r.payload.identifier
    /\ r.rpc # None => /\ r.rpc.transaction = r.response.transaction
                       /\ r.rpc.level = "l2_block_inclusion" => r.rpc.placed

Ordinary(r) ==
    /\ r.terminal \in TERMINAL_STATES \ {"payment_required_only"}
    /\ Produced(r)
    /\ PaymentWasSettled(r.terminal) => PaidAsAgreed(r)
    /\ r.response # None =>
         \/ PaymentWasSettled(r.terminal)
         \/ r.terminal = "settlement_failed" /\ ~ r.response.success

\* The directory was read whole, as it was issued for run r, under its key.
ReadAsIssued(r) ==
    /\ phase = "reported"
    /\ supplied # None
    /\ supplied.public = r.key
    /\ supplied.describes \in {None, r.key}
    /\ SameEvidence(read, Layout(r))

\* Evidence is verifiable whatever the outcome of the run: what buildEvidence
\* makes of an ordinary run, left as it is or only reformatted, verifies; also
\* when the facilitator and the RPC endpoint disagree.  The handler is taken to
\* have returned a result, if only one with an error status.
WrittenEvidenceVerifies ==
    \A r \in Runs :
      /\ Ordinary(r)
      /\ r.terminal = "handler_error_status" => r.result # None
      /\ ReadAsIssued(r)
      => failed = {}

\* As above, of every ordinary run: presence.ts:80 says that in the state
\* handler_error_status "The handler produced an error result, which is written
\* to the client, so it is bound", and lifecycle.ts:62-65 that this one state
\* covers a handler that throws, which produces none.
EveryRunVerifies ==
    \A r \in Runs : Ordinary(r) /\ ReadAsIssued(r) => failed = {}

\* A record that verifies and holds a settled payment tells of one payment: what
\* the client authorized is what the origin advertised, what the record names
\* and what the observation expected; it was for the resource the request
\* binding names; and the transaction of the settlement response is the one the
\* observation reports and the one the RPC endpoint was asked about.
VerifiedIsOnePayment ==
    (Verified /\ PaymentWasSettled(RecordOf(read).terminal)) =>
      LET claims == RecordOf(read)
          paid   == read[Signature].value
          asked  == read[Required].value
          answer == read[Response].value
          o      == ObservationOf(read)
      IN  /\ paid.accepted \in asked.accepts
          /\ paid.accepted.network = claims.network
          /\ paid.accepted.asset = claims.asset
          /\ paid.accepted.amount = claims.amount
          /\ paid.authorization.value = claims.amount
          /\ paid.authorization.to = paid.accepted.recipient
          /\ paid.authorization.from = o.expected.payer
          /\ paid.identifier = claims.reference
          /\ asked.url = read["request-binding.json"].value.url
          /\ answer.transaction = o.report.transaction
          /\ o.rpc # None => o.rpc.transaction = answer.transaction
          /\ o.comparison.transfer_event = "match" =>
               o.rpc.transfer = [asset |-> claims.asset,
                                 from |-> paid.authorization.from,
                                 to |-> paid.accepted.recipient,
                                 amount |-> claims.amount]

=============================================================================
