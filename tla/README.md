# x402-base-evidence in TLA+

A verification project for the reference in `src/`: an HTTP resource paid for through x402 on Base,
and the evidence a paid run leaves behind. It says what each part of the program does, which parts
are modelled, what TLC checks on small instances and what TLAPS proves for every instance.

Paths below are relative to the repository; line numbers are those of the files as they stand.

## 1. Inventory

| Part | Code | State it keeps | Operations | What makes it correct |
|---|---|---|---|---|
| Paid resource | `src/flow/server.ts` | the idempotency map, one `RequestState` per request, the observations | the decision loop (refuse, wait, serve from cache, claim, pass through), seven hooks of the payment middleware, `finish`, `close` | one identifier pays once; cached results go to the payer; every waiter is woken; a released identifier is unpaid |
| Lifecycle recorder | `src/flow/lifecycle.ts` | positions seen, terminal state, detail | `enter`, `finish`, `note`, `observation` | never claims what did not happen |
| Failure vocabulary | `src/flow/failure-vocabulary.ts` | none | `persistableFailureReason` | only declared terms reach a record |
| Fixture facilitator | `src/flow/fixture-facilitator.ts` | consumed authorizations, a barrier | `verify`, `settle` | consumption exactly on success; a duplicate is one of what settled |
| Paying client | `src/flow/client.ts` | none | two requests, one payment | never retries a payment |
| Transaction observation | `src/flow/observe-transaction.ts`, `src/flow/evm-json-rpc.ts` | none across calls; four queries in sequence | `observeSealedTransaction`, admissions | an inclusion names one sealed block that lists the transaction |
| Polling | `src/flow/live-e2e.ts:180-238` | the last observation, a clock | `observeUntilSealed` | ends; ends in what was observed |
| Live run | `src/flow/live-e2e.ts:313-774`, `src/flow/issue-record.ts` | attempt directory, staged and final evidence directories, key file | preflight, prepare, begin, pay, observe, assemble, finalize, record | a final directory is complete; a crash or a failure loses nothing that was spent; two runs never mix |
| Preflight | `src/flow/preflight.ts`, `src/flow/evm-json-rpc.ts` | none; files and balances that others change | gates before a run, preparation of a payer key | what is paid is what was checked; an announced address can be spent from |
| Settlement observation | `src/flow/observe-settlement.ts` | none | `observeSettlement`, comparison | the two accounts are never merged |
| Issuing | `src/flow/fixture-e2e.ts:292-421`, `src/flow/issue-record.ts:136-240`, `src/binding.ts` | files | `buildEvidence`, `issueEvidence`, `writeEvidence` | the record binds what lies beside it; what is issued verifies |
| Evidence verifier | `src/flow/verify-evidence.ts`, `presence.ts`, `profile-schema.ts`, `tamper-demo.ts` | none across calls; one read of each file | `verifyEvidence` | an edit is noticed and named; what verifies was issued as one, of one payment |
| Key files | `src/flow/key-file.ts`, `issuer-key.ts`, `payer-key.ts`, `public-key-file.ts` | files | create exclusively, admit, load, resolve | a key is never overwritten; a half-written one is never used |
| Bounded reading | `src/flow/safe-read.ts` | a descriptor | `readBoundedFile` | its outcome was true at one moment; it ends |
| Decoders | `src/strict-json.ts`, `src/x402-header.ts` | a text scanned once; an artifact built stage by stage | scan, parse, capture, promote | one meaning for every accepted text; a digest for what is sound, a reason for what is not |
| Components, binding, digests | `src/components.ts`, `src/binding.ts`, `src/digest.ts`, `src/jcs-independent.ts` | none | capture, canonicalize, digest | equal digests for equal content only |
| Demonstrations, tests, ledgers, schemas, workflows | the rest | - | - | not modelled |

How they interact: the client sends requests to the paid resource; the resource calls the payment
middleware (a library), which calls the facilitator (a service, or the fixture) and fires the
resource's hooks. The live run starts a resource and a client in one process, polls an RPC endpoint
about the settlement, issues a signed record over everything, has the verifier check the staged
directory and moves it into place. The verifier, later and elsewhere, reads that directory.

The hard parts are the interleavings of requests on one event loop (every `await` is a point where
another request runs), connections that drop at any of them, settlements whose outcome is unknown,
an endpoint whose view of the chain moves between queries, and a process that may die between
writing two files. Nothing of the resource survives a restart: the store lives in memory and says
so, so there is no recovery to model there. `PROJECT.json` lists each hazard at its line.

## 2. Plan

1. `Lifecycle`, `PaidResource`: the resource, because money moves there. **Done.**
2. `ChargeOnce` and its refinement: what a payment identifier promises. **Done.**
3. `PaidResource_proofs`: the inductive invariant and the theorems on it. **Done.**
4. `SealedObservation`: one observation made of four queries, against a chain that moves, and the
   poll around it. **Done.**
5. `LiveRun`: two runs over one file system, failures in every phase, crashes, the tamper check.
   **Done.**
6. `Evidence`, `VerifyEvidence`, `EvidenceDirectory`: what is issued, what the verifier accepts, and
   what may become of the directory between the two. **Done.**
7. `SafeRead`: one bounded read of a file other processes touch. **Done.**
8. `StrictJson`, `X402Header`: the scanner against a definition of JSON, and the capture of a header.
   **Done.**
9. `JsonRpc`, and in `SealedObservation` the admission of what an endpoint answers. **Done.**
10. `Preparation`: preflight, key files and the start of a live run. **Done.**
11. `FixtureFacilitator` against `AuthorizationState`. **Done.**
12. Proofs of each of them: every safety property and both refinements. **Done.** What is only
    model-checked is liveness (section 10).

## 3. The paid resource

`PaidResource` extends `Lifecycle`. One action is one uninterrupted stretch of the event loop.

| Model | Code |
|---|---|
| `present` | the method, target and `PAYMENT-SIGNATURE` field of a request: how the field decodes, the identifier, `requestFingerprint`, `presentedAuthorization` |
| `pc` | where the request's asynchronous function stands |
| `recorder`, `produced`, `Claimed` | `RequestState.recorder`, `.originResult`, `.operation` |
| `store` | `idempotency`: an entry has a kind, a fingerprint, an authorization, and the request whose own entry it is (object identity, `server.ts:666`) |
| `concluded` | the flag of the listeners' closure; concluding resolves `entry.done` |
| `Decide` | the loop of lines 503-605 and the ways around it |
| `Middleware` | `onProtectedRequest`, or the router's 404 |
| `VerifyAnswered`, `SettleAnswered` | the other hooks, with the handler run between verification and settlement |
| `Finish`, `Drop`, `Close` | the `finish` listener; the `close` listener before `finish`, and once more after it |
| `consumed` | `settledAuthorizations`, keyed by the authorizer and nonce an authorization names (`Identity`, `None` when it names none) |
| `Bindable`, `CheckTerms` | what the resource binds (502), and what the facilitator asks of a payment (`fixture-facilitator.ts:77-98`) |
| `did`, `abandoned` | history variables: what a request caused outside, and which operations were concluded before their verification answered |

Assumptions about what is not in `src/`. The payment middleware calls the hooks in the order the
comments of `server.ts` state; it does not stop when the connection drops; `finish` never fires on
a response whose connection is gone, and `close` fires once. The handler is synchronous, so
verification's answer, the handler and the request for settlement are one step. A settlement that
raises may have transferred or not. The order in which waiters wake is left open, which allows more
than the microtask queue does.

The two conditions differ, and `Malformed` is the difference: authorization objects of which some
member is not a string. `presentedAuthorization` (157-196) returns `undefined` for those, so the
request passes on unbound, with its identifier; the facilitator looks at no member, so it accepts,
and the payment is executed and settled. One that lacks a `from` or a `nonce` has no `Identity` and is
never consumed.

`Lifecycle` keeps the positions seen as a set, since `observation()` sorts them before anybody reads
them, and the member `reason` of the recorder for `failureReason`; the other members of the detail
are payload.

### The abstract promise

`ChargeOnce` says what an identifier is for without requests in flight: attempts hold it one at a
time, one of them at most is charged, an uncharged attempt may give it back, a sealed one is never
taken again, and a replay goes to the like of what was charged. `PaidResourceRefinement` maps a
pending entry to *held*, and a completed or uncertain one to *sealed*. The implementation is checked
and proved over connections that stay and well-formed authorizations (`ChargeOnceRefinement`). With
connections that drop, or with malformed authorizations, it is false, as the finding and the first
remark below say.

### Runs

All of them are instances of `MC_PaidResource`, with one identifier (two in `mixed`),
two fingerprints and two authorizations. Deadlock is not checked: once every request is answered the
server stops, as it may.

| Run | Bounds | Shows |
|---|---|---|
| `overlap` | 3 requests, 3 presentations of one identifier, connections stay | one settlement, replay only to the payer, every request answered; every step is a `ChargeOnce` step or leaves it alone. Three requests are an owner, a waiter, and a third that meets the entry the waiter made of it |
| `mixed` | 2 requests, 10 presentations (retries under another authorization and two malformed authorizations among them: one with an identity, `partial`, and one without, `unnamed`), room for 1 identifier, any word from the facilitator, both connections may drop, before `finish` or after it | the inductive invariant; serialization, what a released entry means, permanence of bindings and the limit (`BoundForLife`); the observations; which payments are bound to their identifier; an operation claimed over a live connection is concluded |
| `paid_twice` | 2 requests, the first may drop | finding |

Two authorizations and two fingerprints are enough because the code only compares them for equality
with one entry's; a third value behaves as the second. The facilitator's word is one of: a supported
code, a word of the flow's own vocabulary, anything else.

Fairness: weak fairness of `Advance(r)` for each request. The event loop runs what is ready, and a
call to the facilitator is answered or raises. Nobody is assumed to send a request or to drop.

### Finding and remarks

- `paid_twice`. A connection that closes while verification is in flight has its operation concluded
  as `rejected` (`server.ts:659`), although the middleware goes on to settle. A retry claims the
  released identifier and settles too. `README.md:194` promises one settlement.

A remark on lines 143-144 and 499-501, by which the middleware refuses a payload without a well-formed
authorization on its own terms. The terms of `fixture-facilitator.ts:77-98` accept a malformed one, so
that it is executed and settled without having owned its identifier, beside another payment under the
same identifier too.

A remark on lines 714-716, by which the close listener exists "so a claimed operation is not left
pending forever". A request whose connection closes while it waits (551) may afterwards claim the
identifier; its listeners are registered after `close` has fired, and the entry stays pending.

What is left of these promises is checked in `mixed`. Two payments under one identifier mean that one
of the two was given up during verification or is malformed (`PaidTwiceIsExplained`). Where the
identifier is required, a payment owned one, or is malformed and presents one (`PaymentsAreBound`). An
operation claimed over a live connection is concluded (`LiveClaimsConclude`). The first two are proved.

`Close` follows a `finish` in `mixed` only: it finds the operation concluded and does nothing, which is
the point of the flag at line 611. Without it, and without the look at the entry (666), it would write
the entry again, which `BoundForLife` refutes (its mutant `ConcludeEachTime`).

A remark: observations are pushed in the `finish` listener (`server.ts:694`), hence in completion
order, and not in the arrival order that the comment at line 119 names. Nothing in `src/` overlaps
requests and then reads the order.

## 4. The sealed observation and the poll

`SealedObservation` is one poll (`observeUntilSealed`, `live-e2e.ts:180-238`) of one transaction,
each of its observations (`observeSealedTransaction`, `observe-transaction.ts`) made of up to four
queries, one action each. Between any two of them the chain may change: the transaction runs in the
block being built (`Preconfirm`), a block is sealed with it or without it (`Seal`), or the tip of
the chain gives way to other blocks (`Reorganize`), as the comments of both files describe Base. The
endpoint answers each query from a replica that may be behind (`Views`), or fails, and what it
writes is admitted or refused.

| Model | Code |
|---|---|
| `ReceiptAnswered`, `TransactionAnswered`, `BlockAnswered`, `HeadAnswered` | the four awaits of `observeSealedTransaction`, in that order, with the comparisons made between them |
| `ReceiptResults`, `AdmissibleReceipt`, `BlockResults`, `AdmissibleBlock` | an answer as it is written, with fields or single logs that are spoiled (misshapen, marked removed, placed elsewhere than their receipt), and what `admitReceiptResult` and `admitSealedBlockResult` take of it: all or nothing |
| `JsonRpc!Exchanges`, `FailureOf`, `ReasonFor` | what may come of one request of `jsonRpcRequest`, which failure each is, and which failures are worth a retry |
| `FirstQueriesFail`, `SecondQueriesFail` | its catch clauses. A failure of the first two makes the observation unavailable, for now or for good; a failure of the block or of the head query, even one for good, leaves the receipt found and not included (line 421), and the poll goes on |
| `OutcomeOf` | `live-e2e.ts:192-235`, in the code's order: a revert, then the transfer of an inclusion, then what is unavailable for good, then the deadline |
| `Tick`, `Wake` | the clock, which passes during queries and sleeps; the end of a sleep |

A block's hash is its place in `blocks`, the sequence of all blocks ever sealed, so that two hashes
are equal for one block only. Runs of a transaction differ by status and by whether the transfer
they record is the expected one, another, or none.

| Run | Bounds | Shows |
|---|---|---|
| `sealed` | 2 blocks, replicas one block behind, deadline 1, sleeps of 1, queries of up to 1, a timer one late | an inclusion names one block that was sealed, lists the transaction and ran it as recorded (`InclusionNamesOneBlock`); a verdict on the transfer is backed by the observation kept (`OutcomeIsBacked`); the poll ends (`PollEnds`), and when (`PollIsBounded`) |

Two blocks are the one that is reported and the one that replaces it at the same number, or the one
after it that does not list the transaction; the proofs are for any number. `Horizon` bounds the clock beyond what any poll can reach; the
assumption says so.

Fairness is weak fairness of `Tick` and of `Observe`: time passes, and since every query has a
timeout and a timer fires, what is out of time is answered, fails or wakes. The chain is never
assumed to move.

Remarks. The deadline is compared once a round and cuts no query short, although lines 108-109 say
that it bounds the whole loop: a round begun just before it runs for a late timer and four timeouts
more, and `PollIsBounded` says no longer. `JSON.parse`, which `jsonRpcRequest` uses on an answer,
keeps the last of two members of one name. A reverted receipt ends the poll (198) although
its block need not be sealed, so that the transaction may yet be sealed as a success; lines 199-200
call the receipt definitive.

## 5. Live runs over one file system

`LiveRun` is any number of processes, each running `main` of `live-e2e.ts`, with the files they
share. One action is one file operation, or one phase between two of them. A run in `Faulty` may be
killed anywhere and may find any write refused; the operator may move the issuer key file aside, as
the messages of `issuer-key.ts` ask for, while no run is filling it.

| Model | Code |
|---|---|
| `run[r].pc`, `.stage` | where `main` stands; the variable `stage` of `executeLiveRun`, `None` before it is called |
| `.key`, `.signer` | the key of `main` (599), which is published and verified under, and that of `buildEvidence` (`fixture-e2e.ts:296`), which signs: two calls of `resolveIssuerKey` |
| `.exchange`, `.poll` | `run` and `observed` of `executeLiveRun` |
| `LoadKey`, `CreateKeyFile`, `FillKeyFile` | `resolveIssuerKey`: load, or else generate, create exclusively, write |
| `Prepare`, `Claim`, `Publish`, `Begin` | the identifier taken from the clock; `prepareRunOutputs`; `beginLiveAttempt` |
| `Listen` .. `PayReturns` | `runLiveOnce`. The port is fixed, so two runs cannot pay at once |
| `Observe`, `Assemble` | the phases of those names |
| `Stage`, `WriteStaged`, `Verify`, `CheckDestination`, `Move` | `writeEvidenceTransactionally` and the `finalize` it is given; the second look at the destination and the rename are two steps (`issue-record.ts:347-348`) |
| `Preserve`, `EmptyAttempt`, `WriteAttempt` | the catch clause, and `writeAttemptState` on either path; `attempt.json` is truncated and then written |
| `Throw` | to the catch clause from inside the `try`; out of `main` from anywhere else |
| `Copy`, `Tamper` | the demonstration at lines 743-769 |

Abstractions. The preflight is one choice between refusing and going on. A key is a number: the
order in which it was generated. Verification succeeds exactly when the evidence was signed with the
key the run published, since the artifacts are those the run just wrote (section 6 opens
them). `beginLiveAttempt` and `preserveRunMaterial` write one new file each and are one step: a
process that dies inside the first has spent nothing, and what dies inside the second leaves a
material nobody claims anything of. The origin reports a settlement only of a true transfer, and the
facilitator transfers only for a request whose result was produced; both follow from the resource
(section 3) and an honest facilitator. The `observe` phase does not throw: `observeSealedTransaction`
turns every failure into an observation. That the preflight is one choice is opened in section 8.

The gap between the last look at the destination and the rename is open in the model. No second run
ever steps into it: the public key file, created exclusively (`Claim`), gives an identifier to one run,
and the proofs rest on that and not on the two looks. A rename onto a directory that has files is
refused by the file system.

### Runs

Two runs (`r1`, `r2`) and two identifiers, so that both may begin in the same second or not; one of
the runs is faulty in `crash`, and the key file is moved once. Two runs are
enough for every conflict over a name, a port or a key, since each of those is between the one that
holds it and the one that comes. `CHECK_DEADLOCK` is off: runs end.

| Run | Shows |
|---|---|
| `crash` | everything that holds, in every interleaving of two runs and after every fault |
| `spent` | finding: the payment phase may throw after the transfer; `run` is then undefined and `payment_exchange` is `null`, though the origin in the same process recorded the settlement. Lines 243-245 promise that what exists is preserved |

What is left of the promise holds, in `crash`: a run that spent is recorded before it spends
(`SpentIsDocumented`), and ends in a verdict or a recorded failure (`SpentIsConcluded`); the record
and the material agree with the stage reached (`RecordsAreTrue`), and an attempt recorded as failed
has a final directory only after a refused write. That exception is a remark:
`writeAttemptState('completed')` is inside the `try` (436), so that when it is refused, a complete
final directory stands beside a material whose note says that the run failed before its evidence was
finalized (378). Another: evidence of a run whose payment was refused has no
`origin-result-body.bin`; reading it from the copy (748) throws out of `main`, the verdict is not
given, and the copy stays, although lines 743-744 say that it is removed. Such a run has spent
nothing.

## 6. The evidence

`Evidence` says what a run leaves behind, `VerifyEvidence` what `verifyEvidence` finds wrong with a
directory, and `EvidenceDirectory` puts a directory between the two.

| Model | Code |
|---|---|
| a run `r` | what `buildEvidence` is given: the terminal state, the captured fields, the origin's result, the settlement response, the RPC account, the request identity, the key |
| `Expectation`, `SettlementReport`, `RpcObservation`, `Comparison`, `Observation` | `observe-settlement.ts:182-333` |
| `RequestBinding`, `OriginResultBinding`, `Claims`, `Issued`, `Layout` | `binding.ts`, `issueEvidence`, `buildEvidence` |
| `RequiredFor`, `OptionalFor`, `PresenceHolds` | the contracts of `presence.ts` |
| `FailedChecks` | `verifyEvidence`: the set of the checks that fail, with its early returns; below it one operator per group of checks, each over the files as read |
| `Write`, `Skip`, `Truncate`, `Fill` | `writeEvidence`, in place, file by file; a file is truncated and then written |
| `Begin`, `ReadNext`, `Decide` | the container check, one `readBoundedFile` per artifact, and everything decided on what was read (255-303) |
| `Lose`, `Spoil`, `Close`, `Reformat`, `Exchange`, `Redirect` | what a directory that was handed on may have met, the edit of `tamper-demo.ts` among it |

A document is a value, and its digest is the value itself: equal digests for equal content, only. A
JSON document's digest is that of its canonical value, so that `Reformat` (other white space) keeps
it; that of any other artifact is of its bytes. Signatures cannot be forged: the only records there
are were issued of a run, or signed again by the holder of a key. The latter are the layouts in
`Reissued`: a producer edits a document and refreshes the digest, so that every integrity check
passes and only the comparisons of the documents with each other can tell. A document's `shape`
stands for the members the local schemas ask for. `Irregular` runs are those in which a facilitator
or a client said something the flow lets pass.

The writer writes in place because that is what the offline run does with `fixtures/expected-evidence`
(`fixture-e2e.ts:553`, `issue-record.ts:224-233`); the verifier may run at the same time, as `verify`
does in another shell. Live runs stage and move their directories (section 5).

### Runs

| Run | Bounds | Shows |
|---|---|---|
| `directory` | 16 runs, 14 re-signed layouts, one rewriting or one alteration at any moment of the reading, two descriptions of the supplied key | what verifies was issued as one under the supplied key (`VerifiedIsOneIssuance`); the checks that fail name what was edited, and nothing else (`EditIsNamed`); evidence of an ordinary run of any outcome verifies (`WrittenEvidenceVerifies`); a verified settled payment is one payment in every document (`VerifiedIsOnePayment`) |
| `thrown` | as `directory`, with a run whose handler threw, and no changes | the finding |

One change is one whole rewriting, of any length of which a reader may see any part, or one
alteration of one file; the first two theorems of the directory hold for any number. The runs have
each terminal state that `runOnce` can end in, each of the four ends an RPC account has, a transfer
of another amount, and the pairs of runs that share all but a payment, or all but a key. Deadlock is
not checked: the verifier reports once and stops.

### Finding and remarks

- `thrown`. A handler that throws ends in `handler_error_status` (`lifecycle.ts:62-65`) without a
  result (`server.ts:730-736`), while the contract of that state requires one
  (`presence.ts:83-89`). The evidence of such a run fails its own presence contract. The offline run
  exercises the branch but builds no evidence of it.

Things that hold nowhere in the code and that no comment promises: the terminal state is not
compared with the settlement outcome; the header digests in the request binding are not compared
with the captured payment; `lifecycle_states` and the commerce event are not compared with anything.
`transfer event verdict evaluated` (844) cannot fail, since the comparison it looks at was just
recomputed. A settled run whose response has an empty transaction reference cannot have evidence
that verifies (704, 1329); it is one of the `Irregular` runs. `payment_required_only` has a contract,
but `runOnce` does not return for it, and `buildEvidence` needs the client's payment.

## 7. Reading and decoding

### One bounded read

`VerifyEvidence` takes the reading of a file for one step. `SafeRead` says when that is justified: it
is one call of `readBoundedFile`, one action for each of its system calls (`Lstat`, `Open`, `Fstat`,
and each turn of the loop around `readSync`, `Read`), over a name that may be made to stand for
another file, a link, a pipe or a directory between any two of them (`Replace`), and over files that
may grow or be cut under it (`Grow`, `Cut`). `stood` is the history of what the name stood for, with
the bytes of the file at each moment.

`OutcomeIsOfAMoment` is what a caller may believe: bytes are within the bound and those of one regular
file that stood under the name, whole at one moment unless the file was cut meanwhile; `absent` means
that the name did not exist at some moment; a refusal is for something that was there. A file that
grew past its inspected size is refused as `too_large`, and the property says so. `ReadEnds` says that
the call ends, whatever the name comes to stand for, a pipe nobody writes to included. It says
nothing of a file that grows without end, since the edits are bounded; a reader that follows a
growing file past its inspected size is what `OutcomeIsOfAMoment` excludes (mutant `ReadFollowing`). Fairness is weak
fairness of `Call`: the calls are synchronous, and each is sure to return, since nothing it is made on
blocks. The directory is not fair; it need not stand still.

The platform is one with `O_NOFOLLOW` and `O_NONBLOCK`, which lines 127-132 use where they are
defined; elsewhere a link that replaces the file between `lstat` and `open` is followed, which is the
mutant `OpenFollowing`.

### The scanner and the capture

`StrictJson` is the scanner of `strict-json.ts`, one action per token: its call stack is the stack of
open containers, and its place in the code is what it expects next. A text is chosen token by token,
so that every text up to `MaxTokens` is scanned. The characters of a string are one token, with a
spelling and the name it decodes to; a run of number or literal characters is a value (`bare`) or none
(`run`), which only `JSON.parse` can tell.

The second half of the module defines JSON without a scanner: which token may stand at a place
given the innermost container around it and the token before it (`WellPlaced`), which two names are
of one object (`Duplicate`), which container is too deep. `ScanIsExact` compares the two on every
text, at every token: the scanner refuses a text at the first place that gives reason, for the reason
there is, and accepts everything else; so `parseStrictJson` reads exactly the JSON documents that are
unambiguous and not too deep.

`X402Header` is `captureObservedX402Artifact`, one action per stage, on the verdict of such a scan;
then promotion, which a caller asks for. The canonicalizer behind `Digest` is a library: it returns a
digest or throws. What the upstream schemas report of an object is an input, any
of a set of lists of issues, some beyond the caps. `DigestIsDeserved` relates four readings of one
artifact: what was observed, the canonical digest (541), the lists of stages the three promotions ask
for (711-793), and the verifier's own list (`verify-evidence.ts:1055-1097`). They are kept apart in
the code, differ by the kind of header, and must agree. `RefusalIsNamed` says that a header without a
digest was rejected by one stage, and that the caps, applied from the end of the list, never drop its
last diagnostic.

| Run | Bounds | Shows |
|---|---|---|
| `reading` | 2 files, a pipe, a directory and links; 2 byte values, contents of up to 3, `maxBytes` 2, 2 edits | the two properties. Two edits are what a name that is exchanged and put back needs, or a file that grows and is cut; the theorem holds for any number |
| `decoding` | depth 2, 9 tokens, 2 names in 3 spellings (one of them escaped); lengths at and around the limits; issue lists of up to 9, with paths at and past the caps | the invariant and the three properties. Nine tokens are an object of two members, closed, and more than two objects in an array need to show that their names are kept apart; depth 2 is the limit and one below it |

Deadlock is checked in neither: both are one call that returns.

Remarks. `JSON.parse` yields values that RFC 8785 has no form for, as `jcs-independent.ts:8-10` and
`60` say: a number like 1e400, a lone surrogate. If the canonicalizer refuses one in a member the
schemas leave open, nothing catches it (541-545) and the capture throws, though line 366 says that it
never does for malformed payloads. The properties speak of artifacts that are returned.

The name of a header is looked up with `name in X402_HEADERS` (376-388), which is also true
of the names every object inherits, `constructor` among them; nothing in `src/` captures under such a
name. `decodeStrictUtf8` drops a byte order mark, so that a document and the same with a mark are read
as one text.

## 8. What comes before a payment

`Preparation` is any number of processes, each a `demo:live:prepare` or a live run up to its
payment: `runPreflight`, the payer key and issuer key files, and what `main` of `live-e2e.ts` reads
again once the preflight was ready (588-603). One action is one file operation or one request; in
between, other processes do theirs, the faucet sends, and the operator moves key files aside, damages
them by half-made edits and restores them.

| Model | Code |
|---|---|
| `payerFile`, `issuerFile` | the key files: absent, created and empty, damaged, complete |
| `Begin` | `checkLocalConfiguration` and `checkIssuerReadiness` |
| `LoadPayer`, `CreatePayer`, `FillPayer` | `loadPayerAccount`, `createPayerKeyFile` over `writeNewKeyFile`: exclusive creation, and then the write, which may fail or never come |
| `Known` | the roles and `reviewerMaterialWritableCheck` |
| `AskChainId`, `AskBalance`, `AskFacilitator` | `checkChainState`, `checkFacilitatorSupport`: answers are those of `JsonRpc`, from an endpoint that asserts nothing false in an envelope of its own |
| `LoadIssuer`, `CreateIssuer`, `FillIssuer` | `resolveIssuerKey` |
| `LoadSigner` | the second `loadPayerAccount` (600) |
| `Pay` | the exchange, which is opened in `LiveRun` |
| `announced`, `sent`, `claims`, `seen`, `moved` | history: addresses printed for funding, payments that left an account, keys and issuers signed under, what a run was told when it asked, whether the operator took its key away since |

A run that has failed a check goes on for its report alone (`clean` is false), as the code does.

`OneIssuerPerKey`: no two runs sign under one key and different issuers, although the preflight's
comparison is of a file others create and move afterwards; the second comparison, in
`resolveIssuerKey`, is the one that counts (`LoadIssuerUnchecked` is the mutant without it).
`PaidAsChecked`: a run pays with the key its preflight read, to an account other than that key's,
unless the operator took the key from its file in between. `UncoveredIsExplained`: a payment finds too
little only if the account paid for another run after this one asked. Both conditions are remarks as
well: exchanging the payer file between the preflight and the start of the run leaves the roles and the
balance of the new key unchecked, and the balance is not reserved. `FundsAreReachable`, part of the
invariant: the key of an address that was printed for funding is never lost.

| Run | Bounds | Shows |
|---|---|---|
| `preparation` | 2 preparations, 2 live runs, 2 issuers, one funding, the payer file disturbed twice (putting it back is not counted), symmetric processes, accounts and issuers | the inductive invariant and the three properties |

Every conflict over a file is between the process that holds it and one that comes; two disturbances
exchange one payer key for another and back. Processes and issuers are only compared for equality, so
symmetry is sound, and no liveness is checked under it. Deadlock is not checked: processes end.

A remark: the loader of the payer key decodes its file leniently and parses it with `JSON.parse`
(`key-file.ts:101`, `140`), the loader of the issuer key strictly (`177`). Both are one attribute here:
the file holds a key or it does not.

## 9. The fixture facilitator

`FixtureFacilitator` is one instance of `FixtureExactEvmFacilitator` under overlapping calls of
`verify` and `settle`, each over any payment: terms that match or not, an authorization whose names
are spelled in lower case or not, one without names, none. `settle` is one stretch of code, unless the
instance was built with a barrier: then a call arrives there (`Arrive`) and goes on after a test
opens it (`Release`, `Proceed`), when others may have settled.

`AuthorizationState` is what the instance stands in for: an authorization, named by its authorizer and
its nonce, is transferred at most once, by one call, and what came to nothing leaves it to be
transferred. `ImplementsAuthorizationState` maps it to the calls that were told of a success, not to the
instance's own set, so that what is consumed must be what succeeded. `DuplicateOfASuccess` adds which
authorization a duplicate is of.

| Run | Bounds | Shows |
|---|---|---|
| `settling` | 3 calls, 2 authorizers, 1 nonce, every behavior | both. Three calls are one that settles, its duplicate, and one of the other authorizer with the same nonce |

A remark: an authorization that has no `from` or no `nonce` settles with success and is consumed under
no name (107-115), so that it may settle again; `TransferUnnamed` says so. The client of `src/` makes
none; one that does is executed and settled without its identifier (section 3, first remark).

## 10. What is proved

`PaidResource_proofs` proves, for any number of requests and any constants:
`TypeCorrect`, `OneOwnerAlways`, `CompletedIsPaidAlways`, `SerializedPerIdentifierAlways`,
`PaidTwiceIsExplainedAlways`, `ReleasedOnlyUnpaidAlways`, `BoundForLifeAlways` (with the limit of
the store), `CachedOnlyToPayerAlways`, `UncertainIsExplainedAlways`, `PaymentsAreBoundAlways`,
`ObservationsAreTrueAlways`, `ObservedOnceAlways`, and, assuming `Droppable = {}` and
`WellFormedInputs`, `OneSettlement` and `ChargeOnceRefinement`. The assumptions are those named in `PaidResource`; TLC evaluates them in every
run.

None of the properties is inductive. `PaidResourceInvariant!IInv` adds: settlement is asked only for
an authorization object, well-formed or not; what a recorder has seen agrees with what the request caused, at
each place (`RecorderTrail`: settled means transferred; transferred means settled or raised);
only requests past the decision have concluded anything, and those that finished have, so that a later
`close` finds nothing to do (`ConcludedTrail`); and `StoreTrail`, the heart of it: an
operation concluded and not given up is past verification, and if it is paid, or being settled, its
identifier is completed or uncertain and the entry is its own. Two payers under one identifier would
both own its entry. The step lemmas follow the actions: a *quiet* step leaves the store and the
owners alone (`QuietFrame`), a claim takes an absent or rejected entry, and a conclusion either finds
nothing of its own or turns its own pending entry into its verdict (`ConcludeCases`).

Five further conjuncts carry the properties of what is recorded. `EndTrail` says what a recorder's
terminal state means at each place, so that the observation pushed when the response ends says what
was caused; `BoundTrail`, that whoever asked the facilitator presented a payment, with an
authorization object if the handler ran, and with an identifier where one is required; `CachedTrail`, that a replay is of the completed entry that the
request's own presentation matches; `UncertainTrail`, that an uncertain entry is some request's; and
`ObservedTrail`, that only a request that is over has an observation.

The refinement is proved action by action: each step of the resource is an action of `ChargeOnce`
(`TakeStep`, `ChargeStep`, `ReplayStep`, and `FinishStep` for giving back and sealing) or leaves its state
alone (`MapFrame`). The one step that is none of these charges for an operation that was given up while
its verification was in flight; `Undisturbed` says that without dropped connections there is none; nor, with well-formed
authorizations, is there a charge for a request that owns no identifier.

`SealedObservation_proofs` proves, for any hashes, any chain and any deadline:
`InclusionNamesOneBlockAlways`, `OutcomeIsBackedAlways` and `PollIsBoundedAlways`, from
`ObservationInvariant`: what the observation under way has collected at each of its queries, and
what the time since it began may be there.

`LiveRun_proofs` proves, for any set of runs, of identifiers and of faulty runs, and any number of
times the key file is moved: `NamesAreOwnAlways`, `FinalIsVerifiableAlways`,
`SpentIsDocumentedAlways`, `SpentIsConcludedAlways`, `RecordsAreTrueAlways` and
`NothingIsOverwrittenAlways`. The invariant,
`LiveInv`, has two halves. `FileInv`, of each identifier: whatever lies under it is of the run whose
complete public key file lies there, and a final directory carries that file's key. `RunInv`, of
each run: from its claim on, the public key file under its identifier is its own (`Owns`); its stage
fits its place; the directory it is about to move is its own, was verified, and carries its key; and
if it spent, its exchange has an origin result. Ownership of the public key file is what keeps two
runs apart: a step that writes under an identifier is a step of its owner (`OwnStep`), so that no
other run's knowledge is disturbed, and the two existence checks before the move are not needed for
it. `SpentIsConcluded` needs the last part: the tamper check of a run that spent finds the file it
alters and so does not throw past the record. `RecordsAreTrue` has an invariant of its own, `RecordInv`, besides `LiveInv`: `TrackOf` says which stage,
exchange, poll, directory and attempt go together at a run's place, and `FailedOf` that an attempt
recorded as failed is that of a run which is over. `NoneAssumption` keeps the absent value apart from stages,
polls and exchanges.

`EvidenceDirectory_proofs` proves, for any runs, any re-signed layouts and any number of changes at
any moment: `TypeCorrect`, `VerifiedIsOneIssuanceTheorem`, `EditIsNamedTheorem`,
`VerifiedIsOnePaymentTheorem` and `WrittenEvidenceVerifiesTheorem`. The assumptions are on the data: `DocumentsAssumption` (a document is
never the absent or the unreadable value, a result has a body), `ReissuedAssumption` (signing again
refreshes every digest, `BoundByRecord`), `PartiesAssumption` (a run that writes evidence has a decoded
payment and accepted terms of four members; `buildEvidence` reads them off the run and throws without a
payment, `fixture-e2e.ts:363-395`), `FoundAssumption`, `MaxChangesAssumption` and `GarbledAssumption`.
The invariant adds to the type invariant that every record in the directory, and
every one read, is that of a layout (`Genuine`: nobody forges), and that a report is that of what was
read (`Reported`). The argument does not depend on when a file was read: a record that verifies is
the record of some layout; each file whose digest it binds is then that layout's, up to its
rendering (`SameFileLemma`); what it binds no digest for is absent in both; and the body, which no
digest of the record names, is pinned by the result binding, and may not stand without that binding,
since every contract requires both or forbids both (`ResultFilesLemma`, `WholeLemma`). For one payment, the
presence contract makes every artifact of a settled payment present, so that each comparison was
reached and none of them was skipped (`ReachedLemma`), and the comparisons chain.
`WrittenEvidenceVerifies` is the converse, of the issuer and the verifier together, which decide
separately which files there are and what they must say: what a run produced is present where the
contract asks for it and nowhere else (`WrittenPresenceLemma`), and what was read as it was issued, up
to rendering, meets each comparison of the observation and of the native artifacts
(`ObservationHoldsLemma`, `NativeHoldsLemma`), so that no check fails (`WrittenLemma`). The invariant adds
nothing to it: it is true of every state in which the directory was read.

`SafeRead_proofs` proves, for any files, any bound and any number of edits, `OutcomeTheorem`, from
`Invariance`: the open file stood under the name, has been regular and within the bound, and unless it
was cut it still has the bytes that were read, at their places; and every file that stood under the
name holds what it held at a moment of the history. `X402Header_proofs` proves, for any names,
spellings, depth and length of texts and any lists of issues, `Invariance`, `DigestTheorem` and
`UnambiguousTheorem`, `ScanIsExactAlways` and `RefusalIsNamedAlways`: the names kept with an open object
are those read of it, objects are numbered apart, and at each stage the artifact says what the stages
before it found.

`ScanIsExact` compares the scanner with definitions that know no scanner, so its invariant, `TextInv`,
says in their terms what the stack and the expectation mean: the j-th frame is of a container opened
at depth j - 1 and open since, and holds the names read of it (`Holds`); the depth of the text is the
height of the stack; every place inside a container has an innermost one; every place read is clean;
and what is expected follows from the last token (`ExpectFollows`). A token alters nothing of what
stands before it: depth, enclosure, names and duplicates of a prefix are those of the text
(`DepthOfPrefix` to `CleanInPrefix`). The next place is therefore in the container of the last frame
(`NextPlace`), the grammar takes there exactly what the scanner takes (`NextFits`), and a name is a
duplicate exactly when its frame has it (`NextName`). `EndDecides` is the end of the text. For
`RefusalIsNamed`, the caps drop diagnostics from the end, and the first alone always fits
(`BoundedShort`, `ShortFits`), so that one is kept; the serialized length is a fold, unfolded once.

`Preparation_proofs` proves,
for any processes, issuers and edits, `Invariance`, `FundsTheorem`, `IssuerTheorem`,
`PaidAsCheckedTheorem` and `UncoveredTheorem`: a key file being filled is its creator's alone, an issuer
key is claimed only after its creator filled it and under the issuer in the file, and a run whose checks
passed knows a payer that was in the file, unless the operator has taken it since. Its arithmetic is one
fact of the balance: what was seen to be covered is covered, or was spent since.
`FixtureFacilitator_proofs` proves `Invariance`, `DuplicateTheorem` and `Refinement`, a refinement
theorem of initial states and steps: the consumed set is the set of the successes' authorizations, each
of one call.

Of `SealedObservation`, the proofs include the admission of answers: a receipt that was admitted is a
report of the replica, because one spoiled log refuses it whole.

Only model-checked: liveness (`EveryRequestAnswered`, `LiveClaimsConclude`, `PollEnds`, `ReadEnds`). It
rests on fairness, hence on ENABLED, which the prover does not handle. Every other property of the passing
runs is a theorem.

## 11. Not modelled

The characters of a string or a number, and which field of a key file or an answer is malformed; the
capture of components, the independent canonicalization and the digests, which are pure functions of
bytes (a digest is its content here); header bytes and start-up checks of the resource; the members
of a document beyond its shape, the verifier's warnings, texts and command line; the format of each
configured value, and the printing of reports; signing; the scripts around the demonstrations, tests,
ledgers, schemas and workflows.
