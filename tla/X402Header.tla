------------------------------- MODULE X402Header -------------------------------
(***************************************************************************)
(* The staged capture of an observed payment field and its promotion       *)
(* (captureObservedX402Artifact, promoteTo..., requireValidX402Artifact of *)
(* x402-header.ts), and what the verifier asks of the stages               *)
(* (verify-evidence.ts:1055-1097).                                         *)
(*                                                                         *)
(* A payload's text is scanned by StrictJson; what is kept of it is what   *)
(* the scan and the upstream decoder find, and the text is let go.  The    *)
(* upstream schemas are external: what they report is any list of issues.  *)
(***************************************************************************)
EXTENDS StrictJson, Functions

CONSTANTS
    Lengths,    \* how long an observed value may be
    MaxEncoded, \* X402_LIMITS.maxEncodedValueBytes
    MaxDecoded, \* X402_LIMITS.maxDecodedPayloadBytes
    IssueLists  \* the lists of issues a schema may report; <<>> when it accepts

ASSUME LimitsAssumption ==
    /\ Lengths \subseteq Nat /\ MaxEncoded \in Nat /\ MaxDecoded \in Nat
    /\ 3 * MaxEncoded <= 4 * MaxDecoded

\* DIAGNOSTIC_LIMITS, and what a serialized diagnostic needs beside its path.
MaxIssues == 8
MaxPathDepth == 8
MaxSegmentChars == 64
MaxSerialized == 1024
Overhead == 82

ASSUME IssuesAssumption ==
    <<>> \in IssueLists /\ IssueLists \subseteq Seq([known : BOOLEAN, depth : Nat, chars : Nat])

VARIABLES
    pc,       \* the stage that is next
    value,    \* what was observed
    artifact, \* the captured artifact
    promoted  \* what requireValidX402Artifact made of it

capture == <<pc, value, artifact, promoted>>
vars == <<scanner, capture>>

-----------------------------------------------------------------------------
(* Values. *)

Stages == {"transport", "json", "duplicate-members", "upstream-schema", "scheme-payload",
           "extensions"}

HeaderNames == {"payment-required", "payment-signature", "payment-response"}

\* checkSchemePayload asks in this order, and reports the first that fails.
SchemeChecks ==
    <<"unsupported_scheme", "unsupported_asset_transfer_method", "expected_eip3009_authorization",
      "expected_object", "expected_hex_address", "expected_decimal_string", "expected_bytes32",
      "expected_hex_signature">>

\* An observed value: its field, length and alphabet; what its text turned out to be; what
\* the schema of its field reports of the object (for payment-response the local check);
\* which scheme check fails first, 0 for none; what it declares of payment-identifier.
Values ==
    [name : HeaderNames \cup {"other"}, length : Lengths, visible : BOOLEAN, base64 : BOOLEAN,
     utf8 : BOOLEAN, decodes : BOOLEAN, object : BOOLEAN, scan : {"accepted"} \cup Codes,
     issues : IssueLists, scheme : 0 .. Len(SchemeChecks),
     identifier : {"absent", "valid", "invalid"}]

\* The codes this code gives, and for those of a schema whether they are known.
DiagnosticCodes ==
    {SchemeChecks[i] : i \in DOMAIN SchemeChecks} \cup Codes
        \cup {"not_standard_base64", "empty_payload", "not_valid_utf8", "upstream_decode_failed",
              "not_a_json_object", "invalid_payment_identifier", "known", "unspecified"}

Diagnostics ==
    [stage : Stages \cup {"local-structural"}, code : DiagnosticCodes, depth : Nat, chars : Nat]

Status == {"accepted", "rejected", "not_evaluated"}

Artifacts ==
    [stages : [Stages -> Status], local : Status, diagnostics : Seq(Diagnostics),
     decoded : BOOLEAN, digest : BOOLEAN]

NoArtifact ==
    [stages |-> [s \in Stages |-> "not_evaluated"], local |-> "not_evaluated",
     diagnostics |-> <<>>, decoded |-> FALSE, digest |-> FALSE]

Texts == [scan : {"accepted"} \cup Codes, decodes : BOOLEAN, object : BOOLEAN]

Pcs == {"text", "observe", "gate", "transport", "utf8", "json", "duplicates", "schema", "scheme",
        "extensions", "digest", "captured", "promoted", "thrown"}

CaptureTypeOK ==
    /\ pc \in Pcs
    /\ value \in Values \cup Texts \cup {None}
    /\ artifact \in Artifacts
    /\ promoted \in {"unasked", "yes", "no"}

-----------------------------------------------------------------------------
(* Diagnostics. *)

AtMost(a, b) == IF a <= b THEN a ELSE b

\* boundDiagnostic: a code outside the vocabulary and a long path are cut to size.
Bounded(stage, code, depth, chars) ==
    [stage |-> stage, code |-> code, depth |-> AtMost(depth, MaxPathDepth),
     chars |-> AtMost(chars, MaxSegmentChars)]

Diagnostic(stage, code) == Bounded(stage, code, 0, 0)

FromIssues(stage, issues) ==
    [i \in DOMAIN issues |-> Bounded(stage, IF issues[i].known THEN "known" ELSE "unspecified",
                                     issues[i].depth, issues[i].chars)]

\* At most how long a diagnostic is when serialized: quotes and commas, and its path,
\* which holds no character that would be escaped.
Length(d) == Overhead + d.depth * (d.chars + 3)

Serialized(ds) ==
    FoldFunction(+, 2, [n \in DOMAIN ds |-> Length(ds[n]) + 1])

\* Mutant of Kept: the path is counted in full, as if it were not cut to size.
KeptUncut(ds) ==
    LET first == SubSeq(ds, 1, AtMost(Len(ds), MaxIssues))
        fits == {n \in 0 .. Len(first) :
                     n > 0 => 2 * Serialized(SubSeq(first, 1, n)) <= MaxSerialized}
    IN  SubSeq(first, 1, CHOOSE n \in fits : \A m \in fits : m <= n)

\* boundDiagnostics: the first MaxIssues, popped from the end until they fit.
Kept(ds) ==
    LET first == SubSeq(ds, 1, AtMost(Len(ds), MaxIssues))
        fits == {n \in 0 .. Len(first) :
                     n > 0 => Serialized(SubSeq(first, 1, n)) <= MaxSerialized}
    IN  SubSeq(first, 1, CHOOSE n \in fits : \A m \in fits : m <= n)

-----------------------------------------------------------------------------
(* The capture. *)

\* What there is to know of the text of a payload, once it is scanned: what the scan said,
\* whether the upstream decoder parses it, and to an object.  A text the scanner left early
\* may go on in any way.
TextRead ==
    /\ pc = "text" /\ verdict # "scanning"
    /\ \E decodes \in BOOLEAN :
          /\ verdict = "accepted" => decodes = IsJson(text)
          /\ verdict = "scan_incomplete" => ~decodes
          /\ value' = [scan |-> verdict, decodes |-> decodes,
                       object |-> text # <<>> /\ text[1].kind = "object"]
    /\ pc' = "observe"
    /\ text' = <<>> /\ ended' = FALSE /\ stack' = <<>> /\ expect' = "value"
    /\ objects' = 0 /\ members' = <<>> /\ verdict' = "scanning"
    /\ UNCHANGED <<artifact, promoted>>

\* A field value whose payload has that text was observed.
Observe ==
    /\ pc = "observe"
    /\ \E v \in Values :
          /\ v.scan = value.scan /\ v.decodes = value.decodes /\ v.object = value.object
          /\ value' = v
    /\ pc' = "gate" /\ UNCHANGED <<scanner, artifact, promoted>>

To(p) == pc' = p /\ UNCHANGED <<scanner, value, promoted>>

Accept(stage, next) ==
    /\ artifact' = [artifact EXCEPT !.stages[stage] = "accepted"]
    /\ To(next)

\* Every exit applies the caps (finish).
Reject(stage, diagnostics) ==
    /\ artifact' = [artifact EXCEPT !.stages[stage] = "rejected", !.diagnostics = Kept(diagnostics)]
    /\ To("captured")

\* What is no observed x402 field value at all is thrown.
Gate ==
    /\ pc = "gate" /\ UNCHANGED artifact
    /\ LET ok == /\ value.name \in HeaderNames
                 /\ value.length > 0 /\ value.length <= MaxEncoded /\ value.visible
       IN  \/ ok /\ To("transport")
           \/ ~ok /\ To("thrown")

PayloadLength(v) == (v.length * 3) \div 4

\* exceedsDecodedPayloadBound is never so: three quarters of MaxEncoded is MaxDecoded.
Transport ==
    /\ pc = "transport"
    /\ \/ ~value.base64 /\ Reject("transport", <<Diagnostic("transport", "not_standard_base64")>>)
       \/ /\ value.base64
          /\ \/ /\ PayloadLength(value) = 0
                /\ Reject("transport", <<Diagnostic("transport", "empty_payload")>>)
             \/ PayloadLength(value) > 0 /\ Accept("transport", "utf8")

\* The bytes are text; the stage it belongs to is json.
Utf8 ==
    /\ pc = "utf8"
    /\ \/ ~value.utf8 /\ Reject("json", <<Diagnostic("json", "not_valid_utf8")>>)
       \/ value.utf8 /\ UNCHANGED artifact /\ To("json")

\* The object comes from the upstream decoder.
Json ==
    /\ pc = "json"
    /\ \/ ~value.decodes /\ Reject("json", <<Diagnostic("json", "upstream_decode_failed")>>)
       \/ /\ value.decodes /\ ~value.object
          /\ Reject("json", <<Diagnostic("json", "not_a_json_object")>>)
       \/ /\ value.decodes /\ value.object
          /\ artifact' = [artifact EXCEPT !.stages["json"] = "accepted", !.decoded = TRUE]
          /\ To("duplicates")

\* The diagnostic has the path of names down to where the scan stopped.
Duplicates ==
    /\ pc = "duplicates"
    /\ \/ /\ value.scan # "accepted"
          /\ \E depth \in 0 .. MaxDepth, chars \in {0, MaxSegmentChars + 1} :
                Reject("duplicate-members",
                       <<Bounded("duplicate-members", value.scan, depth, chars)>>)
       \/ value.scan = "accepted" /\ Accept("duplicate-members", "schema")

\* No upstream validator exists of payment-response: the local check has a report of its
\* own, and the upstream stage stays as it is.
Schema ==
    /\ pc = "schema"
    /\ \/ /\ value.name # "payment-response" /\ value.issues # <<>>
          /\ Reject("upstream-schema", FromIssues("upstream-schema", value.issues))
       \/ /\ value.name # "payment-response" /\ value.issues = <<>>
          /\ Accept("upstream-schema", "scheme")
       \/ /\ value.name = "payment-response" /\ value.issues # <<>>
          /\ artifact' = [artifact EXCEPT !.local = "rejected",
                              !.diagnostics = Kept(FromIssues("local-structural", value.issues))]
          /\ To("captured")
       \/ /\ value.name = "payment-response" /\ value.issues = <<>>
          /\ artifact' = [artifact EXCEPT !.local = "accepted"]
          /\ To("scheme")

\* Mutant of Scheme: the object is digested as soon as upstream accepts it.
SchemeDigested ==
    /\ pc = "scheme"
    /\ \/ value.name # "payment-signature" /\ UNCHANGED artifact /\ To("extensions")
       \/ /\ value.name = "payment-signature" /\ value.scheme # 0
          /\ artifact' = [artifact EXCEPT !.stages["scheme-payload"] = "rejected", !.digest = TRUE,
                  !.diagnostics = <<Diagnostic("scheme-payload", SchemeChecks[value.scheme])>>]
          /\ To("captured")
       \/ /\ value.name = "payment-signature" /\ value.scheme = 0
          /\ Accept("scheme-payload", "extensions")

Scheme ==
    /\ pc = "scheme"
    /\ \/ value.name # "payment-signature" /\ UNCHANGED artifact /\ To("extensions")
       \/ /\ value.name = "payment-signature" /\ value.scheme # 0
          /\ Reject("scheme-payload",
                    <<Diagnostic("scheme-payload", SchemeChecks[value.scheme])>>)
       \/ /\ value.name = "payment-signature" /\ value.scheme = 0
          /\ Accept("scheme-payload", "extensions")

\* Only what declares the extension is asked about it.
Extensions ==
    /\ pc = "extensions"
    /\ LET asked == value.name = "payment-signature" /\ value.identifier # "absent"
       IN  \/ ~asked /\ UNCHANGED artifact /\ To("digest")
           \/ /\ asked /\ value.identifier = "invalid"
              /\ Reject("extensions", <<Diagnostic("extensions", "invalid_payment_identifier")>>)
           \/ asked /\ value.identifier = "valid" /\ Accept("extensions", "digest")

\* The object is canonicalized and digested.  The canonicalizer is external and may
\* refuse what JSON.parse yields (a number out of range, half of a surrogate pair):
\* nothing here catches that.
Digest ==
    /\ pc = "digest"
    /\ \/ artifact' = [artifact EXCEPT !.digest = TRUE] /\ To("captured")
       \/ UNCHANGED artifact /\ To("thrown")

-----------------------------------------------------------------------------
(* What others make of a captured artifact. *)

Passed(stages) == \A s \in stages : artifact.stages[s] = "accepted"

\* promoteToPaymentRequired, promoteToPaymentPayload, promoteToSettleResponse.
Promotable ==
    /\ artifact.digest /\ artifact.decoded
    /\ CASE value.name = "payment-required" -> Passed({"duplicate-members", "upstream-schema"})
         [] value.name = "payment-signature" ->
                /\ Passed({"duplicate-members", "upstream-schema", "scheme-payload"})
                /\ artifact.stages["extensions"] # "rejected"
         [] value.name = "payment-response" ->
                Passed({"duplicate-members"}) /\ artifact.local = "accepted"

\* requireValidX402Artifact, by a caller that may require extensions.
Require ==
    /\ pc = "captured"
    /\ \E required \in {{}, {"payment-identifier"}, {"another"}} :
          promoted' = IF /\ Promotable
                         /\ required \subseteq {"payment-identifier"}
                         /\ required # {} => artifact.stages["extensions"] = "accepted"
                      THEN "yes" ELSE "no"
    /\ pc' = "promoted" /\ UNCHANGED <<scanner, value, artifact>>

\* The verifier's own list of the stages a captured field must have passed.
VerifierAccepts ==
    CASE value.name = "payment-required" ->
             Passed({"transport", "json", "duplicate-members", "upstream-schema"})
      [] value.name = "payment-signature" ->
             /\ Passed({"transport", "json", "duplicate-members", "upstream-schema",
                        "scheme-payload"})
             /\ artifact.stages["extensions"] # "rejected"
      [] value.name = "payment-response" ->
             /\ Passed({"transport", "json", "duplicate-members"})
             /\ artifact.local = "accepted"

-----------------------------------------------------------------------------

Init == ScanInit /\ pc = "text" /\ value = None /\ artifact = NoArtifact /\ promoted = "unasked"

ReadText == pc = "text" /\ Scan /\ UNCHANGED capture

Next ==
    \/ ReadText \/ TextRead \/ Observe \/ Gate \/ Transport \/ Utf8 \/ Json \/ Duplicates \/ Schema
    \/ Scheme \/ Extensions \/ Digest \/ Require

Spec == Init /\ [][Next]_vars

-----------------------------------------------------------------------------
(* Properties. *)

Signed == value.name = "payment-signature"

\* The stages a capture has accepted when it comes to p, of those after "transport".
AcceptedBefore(p) ==
    {s \in Stages :
        \/ s = "transport"
        \/ s = "json" /\ p \notin {"utf8", "json"}
        \/ s = "duplicate-members" /\ p \in {"schema", "scheme", "extensions", "digest"}
        \/ /\ s = "upstream-schema" /\ p \in {"scheme", "extensions", "digest"}
           /\ value.name # "payment-response"
        \/ s = "scheme-payload" /\ p \in {"extensions", "digest"} /\ Signed
        \/ s = "extensions" /\ p = "digest" /\ Signed /\ value.identifier = "valid"}

\* What a capture has found at each stage.
CaptureTrail ==
    /\ pc \in {"text", "observe", "gate", "transport"} => artifact = NoArtifact
    /\ pc = "observe" => value \in Texts
    /\ pc \notin {"text", "observe"} => value \in Values
    /\ pc \notin {"text", "observe", "gate", "thrown"} =>
          value.name \in HeaderNames /\ value.length <= MaxEncoded
    /\ pc \in {"utf8", "json", "duplicates", "schema", "scheme", "extensions", "digest"} =>
          /\ ~artifact.digest
          /\ artifact.stages = [s \in Stages |-> IF s \in AcceptedBefore(pc) THEN "accepted"
                                                ELSE "not_evaluated"]
          /\ artifact.local = IF /\ value.name = "payment-response"
                                 /\ pc \in {"scheme", "extensions", "digest"}
                              THEN "accepted" ELSE "not_evaluated"
          /\ value.base64 /\ PayloadLength(value) > 0
          /\ pc # "utf8" => value.utf8
          /\ pc \notin {"utf8", "json"} => value.decodes /\ value.object /\ artifact.decoded
          /\ pc \in {"schema", "scheme", "extensions", "digest"} => value.scan = "accepted"
          /\ pc \in {"scheme", "extensions", "digest"} => value.issues = <<>>
          /\ pc \in {"extensions", "digest"} => (Signed => value.scheme = 0)
          /\ pc = "digest" => (Signed => value.identifier # "invalid")
    /\ pc # "promoted" => promoted = "unasked"

\* What may be bound to a record: an object of one reading (its text decodes, nests no
\* deeper than is scanned, and has no member twice), accepted by the authority of its
\* field, with a payload and an extension this profile knows.
Sound(v) ==
    /\ v.base64 /\ PayloadLength(v) \in 1 .. MaxDecoded
    /\ v.utf8 /\ v.decodes /\ v.object /\ v.scan = "accepted" /\ v.issues = <<>>
    /\ v.name = "payment-signature" => v.scheme = 0 /\ v.identifier # "invalid"

\* A canonical digest, promotion and the verifier's check each have a list of stages of
\* their own (x402-header.ts:541, 715-793; verify-evidence.ts:1055-1097): they agree, and
\* with what the observed value is.  So nothing ambiguous or refused is ever bound, and
\* what was bound when it was captured verifies when it is read again.
DigestIsDeserved ==
    pc \in {"captured", "promoted"} =>
        /\ artifact.digest <=> Sound(value)
        /\ Promotable <=> artifact.digest
        /\ VerifierAccepts <=> artifact.digest
        /\ promoted = "yes" => artifact.digest

\* The inductive invariant (proved in X402Header_proofs): the types, what the scanner and
\* the capture have found so far, and what they conclude (strict-json.ts:86-150,
\* x402-header.ts:370-547).
IInv ==
    /\ ScanTypeOK /\ ScanTrail /\ TextInv /\ Unambiguous
    /\ CaptureTypeOK /\ CaptureTrail /\ DigestIsDeserved

Order == <<"transport", "json", "duplicate-members", "upstream-schema", "scheme-payload",
           "extensions">>

\* A capture that ends without a digest says why: one stage rejected it (for the settle
\* response the local check), none after it was evaluated, and at least one diagnostic of
\* that stage is kept, in order and within the caps, however many and long the issues
\* were (x402-header.ts:324-346, 410-413).
RefusalIsNamed ==
    pc \in {"captured", "promoted"} /\ ~artifact.digest =>
        LET rejected == {i \in DOMAIN Order : artifact.stages[Order[i]] = "rejected"}
            by == IF artifact.local = "rejected" THEN "local-structural"
                  ELSE Order[CHOOSE i \in rejected : TRUE]
        IN  /\ IF artifact.local = "rejected" THEN rejected = {} ELSE Cardinality(rejected) = 1
            /\ \A i \in rejected, j \in DOMAIN Order :
                  j > i => artifact.stages[Order[j]] = "not_evaluated"
            /\ artifact.diagnostics # <<>>
            /\ Len(artifact.diagnostics) <= MaxIssues
            /\ Serialized(artifact.diagnostics) <= MaxSerialized
            /\ \A i \in DOMAIN artifact.diagnostics : artifact.diagnostics[i].stage = by
=============================================================================
