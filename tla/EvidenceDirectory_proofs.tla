----------------------- MODULE EvidenceDirectory_proofs -----------------------
(***************************************************************************)
(* What EvidenceDirectory shows on small instances, for every set of runs, *)
(* of re-signed layouts and of supplied keys, and any number of changes:   *)
(* a directory that verifies was read as one whole emission.               *)
(*                                                                         *)
(* The argument: a record that is read and admitted is some layout's,      *)
(* since nobody else holds the key (Genuine).  The record binds every      *)
(* other file of its layout, so reading with no check failed leaves no     *)
(* room for another file (WholeLemma): a file whose digest the record      *)
(* names is that file, one whose digest it does not name may not be there, *)
(* and the body, which only the result binding names, may not be there     *)
(* without that binding by the presence contract.                          *)
(***************************************************************************)
EXTENDS EvidenceDirectory, TLAPS

\* A file that can be read as a record holds the record of some layout.
GenuineFile(file) ==
    (file.state = "present" /\ file.value # Garbled) =>
        \E l \in Layouts : file.value = RecordOf(l)

Genuine == GenuineFile(dir["record.jws"]) /\ GenuineFile(read["record.jws"])

\* The verifier reports on what it read, unless it stopped before reading.
Reported ==
    /\ phase # "reported" => supplied = None
    /\ phase = "idle" => read = Nothing
    /\ phase = "reported" =>
         \/ supplied = None /\ failed # {} /\ read = Nothing
         \/ supplied \in SuppliedKeys /\ failed = FailedChecks(read, supplied)

IInv == TypeOK /\ Genuine /\ Reported

-----------------------------------------------------------------------------
(* The layouts. *)

\* A file, and a file of a member that may be absent.
LEMMA FileLemma ==
  ASSUME NEW value
  PROVE  /\ File(value).state = "present" /\ File(value).value = value
         /\ NoFile.state = "absent"
         /\ value = None => FileOf(value) = NoFile /\ BytesOf(value) = None
         /\ value # None => FileOf(value) = File(value) /\ BytesOf(value) = File(value)
BY DEF File, NoFile, FileOf, BytesOf

\* The two forms a layout's file has are plausible, and what can be opened
\* without finding a file there is none.
LEMMA PlausibleLemma ==
  /\ Plausible(NoFile)
  /\ \A v : Plausible(File(v))
  /\ \A f : (Plausible(f) /\ f.state # "present" /\ f.state # "refused") => f = NoFile
<1>1. Plausible(NoFile)
  BY DEF Plausible
<1>2. \A v : Plausible(File(v))
  BY DEF Plausible, File
<1>3. Unreadable.state = "refused"
  BY DEF Unreadable
<1>4. ASSUME NEW f, Plausible(f), f.state # "present", f.state # "refused"
      PROVE  f = NoFile
  <2>1. f # [state |-> "present", value |-> f.value, form |-> f.form]
    BY <1>4
  <2> QED
    BY <1>3, <1>4, <2>1 DEF Plausible
<1> QED
  BY <1>1, <1>2, <1>4

\* The files of a layout, one by one.
LEMMA LayoutFilesLemma ==
  ASSUME NEW r \in Runs
  PROVE  /\ Layout(r)["record.jws"] = File(Claims(r))
         /\ Layout(r)["request-binding.json"] = File(RequestBinding(r))
         /\ Layout(r)["origin-result-binding.json"] = FileOf(OriginResultBinding(r))
         /\ Layout(r)["origin-result-body.bin"] = FileOf(ResultDigest(r))
         /\ Layout(r)["artifacts/payment-required.txt"] = File(r.required)
         /\ Layout(r)["artifacts/payment-signature.txt"] = FileOf(r.payload)
         /\ Layout(r)["artifacts/payment-response.txt"] = FileOf(r.response)
         /\ Layout(r)["chain-observation.json"] = File(Observation(r))
BY DEF Layout, Issued, EVIDENCE_ARTIFACTS

\* What the record of a run names, artifact by artifact.
LEMMA ClaimsLemma ==
  ASSUME NEW r \in Runs
  PROVE  /\ RecordOf(Layout(r)) = Claims(r)
         /\ Claimed(Claims(r), "request-binding.json") = RequestBinding(r)
         /\ Claimed(Claims(r), "origin-result-binding.json") = OriginResultBinding(r)
         /\ Claimed(Claims(r), "chain-observation.json") = Observation(r)
         /\ Claimed(Claims(r), "artifacts/payment-required.txt") = BytesOf(r.required)
         /\ Claimed(Claims(r), "artifacts/payment-signature.txt") = BytesOf(r.payload)
         /\ Claimed(Claims(r), "artifacts/payment-response.txt") = BytesOf(r.response)
<1>1. RecordOf(Layout(r)) = Claims(r)
  BY LayoutFilesLemma, FileLemma DEF RecordOf
<1>2. /\ Claims(r).request = RequestBinding(r)
      /\ Claims(r).result = OriginResultBinding(r)
      /\ Claims(r).observed = Observation(r)
      /\ Claims(r).required = r.required
      /\ Claims(r).signature = r.payload
      /\ Claims(r).response = r.response
  BY DEF Claims
<1> QED
  BY <1>1, <1>2 DEF Claimed

\* What issueEvidence makes of a run, its record binds.
LEMMA LayoutLemma ==
  ASSUME NEW r \in Runs
  PROVE  BoundByRecord(Layout(r))
<1> DEFINE l == Layout(r)
<1>1. /\ r.required # None
      /\ RequestBinding(r) # None /\ RequestBinding(r) # Garbled
      /\ Observation(r) # None /\ Observation(r) # Garbled
      /\ Claims(r) # None /\ Claims(r) # Garbled
      /\ r.result # None => /\ r.result.body # None
                            /\ OriginResultBinding(r) # None
                            /\ OriginResultBinding(r) # Garbled
      /\ \A a \in EVIDENCE_ARTIFACTS : l[a] # None
  BY DocumentsAssumption
<1>2. l["record.jws"].state = "present" /\ l["record.jws"].value # Garbled
  BY <1>1, LayoutFilesLemma, FileLemma
<1>3. \A a \in EVIDENCE_ARTIFACTS : l[a] = NoFile \/ l[a] = File(l[a].value)
  <2>1. \A a \in EVIDENCE_ARTIFACTS : \E v : l[a] = File(v) \/ l[a] = FileOf(v)
    BY LayoutFilesLemma DEF EVIDENCE_ARTIFACTS
  <2> QED
    BY <2>1, FileLemma
<1>4. \A a \in DigestBound : DigestHolds(l, a)
  <2>1. DigestHolds(l, "request-binding.json")
    BY <1>1, LayoutFilesLemma, ClaimsLemma, FileLemma
       DEF DigestHolds, DigestOf, JsonArtifacts
  <2>2. DigestHolds(l, "chain-observation.json")
    BY <1>1, LayoutFilesLemma, ClaimsLemma, FileLemma
       DEF DigestHolds, DigestOf, JsonArtifacts
  <2>3. DigestHolds(l, "origin-result-binding.json")
    <3>1. r.result = None => OriginResultBinding(r) = None
      BY DEF OriginResultBinding
    <3> QED
      BY <1>1, <3>1, LayoutFilesLemma, ClaimsLemma, FileLemma
         DEF DigestHolds, DigestOf, JsonArtifacts
  <2>4. ASSUME NEW a \in EVIDENCE_ARTIFACTS, a \notin JsonArtifacts, NEW v,
               Claimed(RecordOf(l), a) = BytesOf(v),
               l[a] = FileOf(v)
        PROVE  DigestHolds(l, a)
    BY <1>1, <2>4, FileLemma DEF DigestHolds, DigestOf
  <2>5. DigestHolds(l, "artifacts/payment-required.txt")
    <3>1. l["artifacts/payment-required.txt"] = FileOf(r.required)
      BY <1>1, LayoutFilesLemma, FileLemma
    <3> QED
      BY <2>4, <3>1, ClaimsLemma DEF EVIDENCE_ARTIFACTS, JsonArtifacts
  <2>6. DigestHolds(l, "artifacts/payment-signature.txt")
    BY <2>4, LayoutFilesLemma, ClaimsLemma DEF EVIDENCE_ARTIFACTS, JsonArtifacts
  <2>7. DigestHolds(l, "artifacts/payment-response.txt")
    BY <2>4, LayoutFilesLemma, ClaimsLemma DEF EVIDENCE_ARTIFACTS, JsonArtifacts
  <2> QED
    BY <2>1, <2>2, <2>3, <2>5, <2>6, <2>7 DEF DigestBound, EVIDENCE_ARTIFACTS
<1>5. /\ BodyHolds(l)
      /\ l["origin-result-binding.json"] = NoFile => l["origin-result-body.bin"] = NoFile
  <2>1. CASE r.result = None
    <3>1. OriginResultBinding(r) = None /\ ResultDigest(r) = None
      BY <2>1 DEF OriginResultBinding, ResultDigest
    <3> QED
      BY <3>1, LayoutFilesLemma, FileLemma DEF BodyHolds
  <2>2. CASE r.result # None
    <3>1. ResultDigest(r) = r.result.body /\ OriginResultBinding(r).body = ResultDigest(r)
      BY <2>2 DEF OriginResultBinding, ResultDigest
    <3> QED
      BY <1>1, <2>2, <3>1, LayoutFilesLemma, FileLemma DEF BodyHolds, Admitted
  <2> QED
    BY <2>1, <2>2
<1>6. l = [a \in EVIDENCE_ARTIFACTS |-> l[a]]
  BY DEF Layout
<1> QED
  BY <1>2, <1>3, <1>4, <1>5, <1>6 DEF BoundByRecord

\* So is every layout bound by its record.
LEMMA BoundLemma ==
  ASSUME NEW l \in Layouts
  PROVE  BoundByRecord(l)
BY LayoutLemma, ReissuedAssumption DEF Layouts

\* The files of a layout are files, and its record is one.
LEMMA FilesLemma ==
  ASSUME NEW l \in Layouts
  PROVE  /\ l = [a \in EVIDENCE_ARTIFACTS |-> l[a]]
         /\ \A a \in EVIDENCE_ARTIFACTS : Plausible(l[a])
         /\ GenuineFile(l["record.jws"])
<1>1. BoundByRecord(l)
  BY BoundLemma
<1>2. \A a \in EVIDENCE_ARTIFACTS : Plausible(l[a])
  BY <1>1, PlausibleLemma DEF BoundByRecord
<1>3. GenuineFile(l["record.jws"])
  BY DEF GenuineFile, RecordOf
<1> QED
  BY <1>1, <1>2, <1>3 DEF BoundByRecord

\* The body of a result and its binding are asked for together.
LEMMA ResultFilesLemma ==
  ASSUME NEW terminal, NEW present,
         PresenceHolds(terminal, present),
         "origin-result-body.bin" \in present
  PROVE  "origin-result-binding.json" \in present
BY DEF PresenceHolds, RequiredFor, OptionalFor, ResultFiles

\* When no check of a report fails, nothing in it was cut short.
LEMMA AllHoldLemma ==
  ASSUME NEW d, NEW key, FailedChecks(d, key) = {}
  PROVE  /\ \A a \in EVIDENCE_ARTIFACTS : d[a].state # "refused"
         /\ SignatureHolds(d, key)
         /\ \A a \in DigestBound : DigestHolds(d, a)
         /\ BodyHolds(d)
         /\ PresenceHolds(RecordOf(d).terminal, PresentIn(d))
         /\ ObservationChecks(d) = {}
<1>1. /\ \A a \in EVIDENCE_ARTIFACTS : d[a].state # "refused"
      /\ SignatureHolds(d, key)
      /\ RecordChecks(d, key) = {}
  BY DEF FailedChecks, Fails
<1>2. ContentChecks(d) = {}
  BY <1>1 DEF RecordChecks, Fails
<1>3. DigestChecks(d) = {} /\ BodyHolds(d)
  BY <1>2 DEF ContentChecks, Check, Fails
<1>4. PresenceHolds(RecordOf(d).terminal, PresentIn(d)) /\ ObservationChecks(d) = {}
  BY <1>2 DEF ContentChecks, Check, Fails
<1>5. \A a \in DigestBound : DigestHolds(d, a)
  <2> SUFFICES ASSUME NEW a \in DigestBound, ~ DigestHolds(d, a)
               PROVE  FALSE
    OBVIOUS
  <2> QED
    BY <1>3 DEF DigestChecks
<1> QED
  BY <1>1, <1>3, <1>4, <1>5

\* Beside the record of a layout, the digest of a file holds exactly for the
\* file of the layout.
LEMMA SameFileLemma ==
  ASSUME NEW l \in Layouts, NEW a \in DigestBound,
         Plausible(read[a]),
         read[a].state # "refused",
         RecordOf(read) = RecordOf(l)
  PROVE  DigestHolds(read, a) <=> SameFile(a, read[a], l[a])
<1>1. /\ a \in EVIDENCE_ARTIFACTS
      /\ DigestHolds(l, a)
      /\ l[a] = NoFile \/ l[a] = File(l[a].value)
  BY BoundLemma DEF DigestBound, BoundByRecord
<1>2. a # "record.jws"
  BY DEF DigestBound
<1>3. CASE Claimed(RecordOf(l), a) = None
  <2>1. l[a] = NoFile
    BY <1>1, <1>3, FileLemma DEF DigestHolds
  <2>2. DigestHolds(read, a) <=> read[a] = NoFile
    BY <1>3, PlausibleLemma, FileLemma DEF DigestHolds
  <2>3. SameFile(a, read[a], l[a]) <=> read[a] = NoFile
    BY <2>1, PlausibleLemma, FileLemma DEF SameFile
  <2> QED
    BY <2>2, <2>3
<1>4. CASE Claimed(RecordOf(l), a) # None
  <2>1. l[a].state = "present" /\ DigestOf(l, a) = Claimed(RecordOf(l), a)
    BY <1>1, <1>4 DEF DigestHolds
  <2>2. CASE a \in JsonArtifacts
    <3>1. l[a].value # Garbled
      BY <1>1, <1>4, <2>2 DEF DigestHolds
    <3> QED
      BY <1>4, <2>1, <2>2, <3>1 DEF DigestHolds, DigestOf, SameFile
  <2>3. CASE a \notin JsonArtifacts
    BY <1>2, <1>4, <2>1, <2>3 DEF DigestHolds, DigestOf, SameFile
  <2> QED
    BY <2>2, <2>3
<1> QED
  BY <1>3, <1>4

\* Files read beside the record of a layout, every check of which holds, are the
\* files of the layout.
LEMMA WholeLemma ==
  ASSUME NEW l \in Layouts, NEW key,
         \A a \in EVIDENCE_ARTIFACTS : Plausible(read[a]),
         RecordOf(read) = RecordOf(l),
         FailedChecks(read, key) = {}
  PROVE  SameEvidence(read, l)
<1>0. /\ \A a \in EVIDENCE_ARTIFACTS : read[a].state # "refused"
      /\ SignatureHolds(read, key)
      /\ \A a \in DigestBound : DigestHolds(read, a)
      /\ BodyHolds(read)
      /\ PresenceHolds(RecordOf(read).terminal, PresentIn(read))
  BY AllHoldLemma
<1>1. BoundByRecord(l)
  BY BoundLemma
<1>2. \A a \in EVIDENCE_ARTIFACTS : read[a].state # "present" => read[a] = NoFile
  BY <1>0, PlausibleLemma
<1>3. SameFile("record.jws", read["record.jws"], l["record.jws"])
  BY <1>0, <1>1 DEF SameFile, SignatureHolds, Admitted, BoundByRecord, RecordOf
<1>4. ASSUME NEW a \in DigestBound
      PROVE  SameFile(a, read[a], l[a])
  BY <1>0, SameFileLemma DEF DigestBound
<1>5. SameFile("origin-result-body.bin", read["origin-result-body.bin"],
               l["origin-result-body.bin"])
  <2>1. SameFile("origin-result-binding.json", read["origin-result-binding.json"],
                 l["origin-result-binding.json"])
    BY <1>4 DEF DigestBound, EVIDENCE_ARTIFACTS
  <2>2. /\ read["origin-result-binding.json"].state = l["origin-result-binding.json"].state
        /\ read["origin-result-binding.json"].value = l["origin-result-binding.json"].value
    BY <2>1 DEF SameFile, JsonArtifacts
  <2>3. CASE read["origin-result-binding.json"].state = "present"
    <3>1. read["origin-result-body.bin"] = l["origin-result-body.bin"]
      BY <1>0, <1>1, <2>2, <2>3 DEF BoundByRecord, BodyHolds
    <3> QED
      BY <3>1 DEF SameFile, JsonArtifacts
  <2>4. CASE read["origin-result-binding.json"].state # "present"
    <3>1. "origin-result-body.bin" \notin PresentIn(read)
      BY <1>0, <2>4, ResultFilesLemma DEF PresentIn
    <3>2. read["origin-result-body.bin"] = NoFile
      BY <1>2, <3>1 DEF PresentIn, EVIDENCE_ARTIFACTS
    <3>3. l["origin-result-binding.json"] = NoFile
      BY <1>1, <2>2, <2>4, FileLemma DEF BoundByRecord, EVIDENCE_ARTIFACTS
    <3>4. l["origin-result-body.bin"] = NoFile
      BY <1>1, <3>3 DEF BoundByRecord
    <3> QED
      BY <3>2, <3>4 DEF SameFile
  <2> QED
    BY <2>3, <2>4
<1> QED
  BY <1>3, <1>4, <1>5 DEF SameEvidence, DigestBound

-----------------------------------------------------------------------------
(* The steps. *)

\* Both orders name eight artifacts.
LEMMA WriteOrderLemma ==
  /\ Len(WRITE_ORDER) = 8
  /\ Len(READ_ORDER) = 8
  /\ \A i \in 1 .. 8 : /\ WRITE_ORDER[i] \in EVIDENCE_ARTIFACTS
                       /\ READ_ORDER[i] \in EVIDENCE_ARTIFACTS
BY DEF WRITE_ORDER, READ_ORDER, EVIDENCE_ARTIFACTS

\* The invariant holds at first: a directory written whole is a layout.
LEMMA InitInv == Init => IInv
<1> SUFFICES ASSUME Init
             PROVE  IInv
  OBVIOUS
<1>1. /\ Nothing = [a \in EVIDENCE_ARTIFACTS |-> Nothing[a]]
      /\ \A a \in EVIDENCE_ARTIFACTS : Nothing[a] = NoFile
  BY DEF Nothing
<1>2. /\ dir = [a \in EVIDENCE_ARTIFACTS |-> dir[a]]
      /\ \A a \in EVIDENCE_ARTIFACTS : Plausible(dir[a])
      /\ GenuineFile(dir["record.jws"])
  <2>1. CASE dir = Nothing
    BY <1>1, <2>1, PlausibleLemma, FileLemma DEF GenuineFile, EVIDENCE_ARTIFACTS
  <2>2. CASE dir = layout
    BY <2>2, FilesLemma DEF Init
  <2> QED
    BY <2>1, <2>2 DEF Init
<1>3. /\ read = [a \in EVIDENCE_ARTIFACTS |-> read[a]]
      /\ \A a \in EVIDENCE_ARTIFACTS : Plausible(read[a])
      /\ GenuineFile(read["record.jws"])
  BY <1>1, PlausibleLemma, FileLemma DEF Init, GenuineFile, EVIDENCE_ARTIFACTS
<1>4. TypeOK
  <2>1. open \in BOOLEAN
    BY DEF Init
  <2>2. changes \in 0 .. MaxChanges
    BY MaxChangesAssumption DEF Init
  <2> QED
    BY <1>2, <1>3, <2>1, <2>2, WriteOrderLemma DEF Init, TypeOK
<1>5. Genuine /\ Reported
  BY <1>2, <1>3 DEF Genuine, Reported, Init
<1> QED
  BY <1>4, <1>5 DEF IInv

\* Whatever is put under a name is a file, and a record put there, or left
\* there, is some layout's: then the invariant on the directory is kept.
LEMMA PutLemma ==
  ASSUME IInv, NEW a \in EVIDENCE_ARTIFACTS, NEW file,
         Plausible(file),
         a = "record.jws" => GenuineFile(file),
         dir' = [dir EXCEPT ![a] = file]
  PROVE  /\ dir' = [b \in EVIDENCE_ARTIFACTS |-> dir'[b]]
         /\ \A b \in EVIDENCE_ARTIFACTS : Plausible(dir'[b])
         /\ GenuineFile(dir'["record.jws"])
<1>1. dir = [b \in EVIDENCE_ARTIFACTS |-> dir[b]]
  BY DEF IInv, TypeOK
<1>2. DOMAIN dir = EVIDENCE_ARTIFACTS /\ "record.jws" \in EVIDENCE_ARTIFACTS
  BY <1>1 DEF EVIDENCE_ARTIFACTS
<1>3. \A b \in EVIDENCE_ARTIFACTS : dir'[b] = IF b = a THEN file ELSE dir[b]
  BY <1>2
<1>4. dir' = [b \in EVIDENCE_ARTIFACTS |-> dir'[b]]
  BY <1>1, <1>2
<1>5. \A b \in EVIDENCE_ARTIFACTS : Plausible(dir[b])
  BY DEF IInv, TypeOK
<1>6. GenuineFile(dir["record.jws"])
  BY DEF IInv, Genuine
<1> QED
  BY <1>2, <1>3, <1>4, <1>5, <1>6

\* A write replaces nothing the verifier holds, and starts with the first file.
LEMMA WriteInv == IInv /\ Write => IInv'
<1> SUFFICES ASSUME IInv, Write
             PROVE  IInv'
  OBVIOUS
<1>1. TypeOK'
  <2>1. open' \in BOOLEAN
    BY DEF Write
  <2>2. changes' \in 0 .. MaxChanges
    BY MaxChangesAssumption DEF Write, IInv, TypeOK
  <2> QED
    BY <2>1, <2>2, FoundAssumption, WriteOrderLemma DEF IInv, TypeOK, Write, verifier
<1>2. Genuine' /\ Reported'
  BY DEF IInv, Genuine, Reported, Write, verifier
<1> QED
  BY <1>1, <1>2 DEF IInv

\* A file that is passed over is left as it is.
LEMMA SkipInv == IInv /\ Skip => IInv'
<1> SUFFICES ASSUME IInv, Skip
             PROVE  IInv'
  OBVIOUS
<1>1. TypeOK'
  BY WriteOrderLemma DEF IInv, TypeOK, Skip, Writing, verifier
<1>2. Genuine' /\ Reported'
  BY DEF IInv, Genuine, Reported, Skip, verifier
<1> QED
  BY <1>1, <1>2 DEF IInv

\* What the verifier holds is not changed by an action that only puts a file.
LEMMA DirectoryStep ==
  ASSUME IInv,
         dir' = [b \in EVIDENCE_ARTIFACTS |-> dir'[b]],
         \A b \in EVIDENCE_ARTIFACTS : Plausible(dir'[b]),
         GenuineFile(dir'["record.jws"]),
         container' \in {"directory", "refused"},
         layout' = layout,
         next' \in 1 .. (Len(WRITE_ORDER) + 1),
         open' \in BOOLEAN,
         changes' \in 0 .. MaxChanges,
         UNCHANGED verifier
  PROVE  IInv'
<1>1. TypeOK'
  BY DEF IInv, TypeOK, verifier
<1>2. Genuine' /\ Reported'
  BY DEF IInv, Genuine, Reported, verifier
<1> QED
  BY <1>1, <1>2 DEF IInv

\* A truncated file holds no record.
LEMMA TruncateInv == IInv /\ Truncate => IInv'
<1> SUFFICES ASSUME IInv, Truncate
             PROVE  IInv'
  OBVIOUS
<1> DEFINE a == WRITE_ORDER[next]
<1>1. a \in EVIDENCE_ARTIFACTS
  BY WriteOrderLemma DEF IInv, TypeOK, Truncate, Writing
<1>2. Plausible(File(Garbled)) /\ GenuineFile(File(Garbled))
  BY PlausibleLemma, FileLemma DEF GenuineFile
<1>3. dir' = [dir EXCEPT ![a] = File(Garbled)]
  BY DEF Truncate
<1> HIDE DEF a
<1>4. /\ dir' = [b \in EVIDENCE_ARTIFACTS |-> dir'[b]]
      /\ \A b \in EVIDENCE_ARTIFACTS : Plausible(dir'[b])
      /\ GenuineFile(dir'["record.jws"])
  BY <1>1, <1>2, <1>3, PutLemma
<1> QED
  BY <1>4, DirectoryStep DEF Truncate, IInv, TypeOK

\* A filled file is the layout's.
LEMMA FillInv == IInv /\ Fill => IInv'
<1> SUFFICES ASSUME IInv, Fill
             PROVE  IInv'
  OBVIOUS
<1> DEFINE a == WRITE_ORDER[next]
<1>1. a \in EVIDENCE_ARTIFACTS
  BY WriteOrderLemma DEF IInv, TypeOK, Fill, Writing
<1>2. Plausible(layout[a]) /\ (a = "record.jws" => GenuineFile(layout[a]))
  BY <1>1, FilesLemma DEF IInv, TypeOK
<1>3. dir' = [dir EXCEPT ![a] = layout[a]]
  BY DEF Fill
<1> HIDE DEF a
<1>4. /\ dir' = [b \in EVIDENCE_ARTIFACTS |-> dir'[b]]
      /\ \A b \in EVIDENCE_ARTIFACTS : Plausible(dir'[b])
      /\ GenuineFile(dir'["record.jws"])
  BY <1>1, <1>2, <1>3, PutLemma
<1>5. next' \in 1 .. (Len(WRITE_ORDER) + 1)
  BY WriteOrderLemma DEF Fill, Writing, IInv, TypeOK
<1>6. open' \in BOOLEAN
  BY DEF Fill
<1> QED
  BY <1>4, <1>5, <1>6, DirectoryStep DEF Fill, IInv, TypeOK

\* Each of the single alterations, if what it puts there is a file.
LEMMA AlterInv ==
  ASSUME IInv, NEW a \in EVIDENCE_ARTIFACTS, NEW file,
         Plausible(file),
         a = "record.jws" => GenuineFile(file),
         Alter(a, file)
  PROVE  IInv'
<1>1. /\ dir' = [b \in EVIDENCE_ARTIFACTS |-> dir'[b]]
      /\ \A b \in EVIDENCE_ARTIFACTS : Plausible(dir'[b])
      /\ GenuineFile(dir'["record.jws"])
  BY PutLemma DEF Alter
<1>2. changes' \in 0 .. MaxChanges
  BY MaxChangesAssumption DEF Alter, IInv, TypeOK
<1> QED
  BY <1>1, <1>2, DirectoryStep DEF Alter, writer, IInv, TypeOK

\* No alteration makes a record: it loses, spoils, closes or reformats the one
\* that is there, or brings one of a layout that was found.
LEMMA DamageInv == IInv /\ Damage => IInv'
<1> SUFFICES ASSUME IInv, Damage
             PROVE  IInv'
  OBVIOUS
<1>1. ASSUME NEW a \in EVIDENCE_ARTIFACTS, Lose(a)
      PROVE  IInv'
  BY <1>1, AlterInv, PlausibleLemma, FileLemma DEF Lose, GenuineFile
<1>2. ASSUME NEW a \in EVIDENCE_ARTIFACTS, Spoil(a)
      PROVE  IInv'
  BY <1>2, AlterInv, PlausibleLemma, FileLemma DEF Spoil, GenuineFile
<1>3. ASSUME NEW a \in EVIDENCE_ARTIFACTS, Close(a)
      PROVE  IInv'
  <2>1. Plausible(Unreadable) /\ GenuineFile(Unreadable)
    BY DEF Plausible, GenuineFile, Unreadable
  <2> QED
    BY <1>3, <2>1, AlterInv DEF Close
<1>4. ASSUME NEW a \in EVIDENCE_ARTIFACTS, Reformat(a)
      PROVE  IInv'
  <2> DEFINE file == [dir[a] EXCEPT !.form = "reformatted"]
  <2>1. file.state = dir[a].state /\ file.value = dir[a].value
    OBVIOUS
  <2>2. dir[a].state = "present" /\ Plausible(dir[a])
    BY <1>4 DEF Reformat, IInv, TypeOK
  <2>3. dir[a] = [state |-> "present", value |-> dir[a].value, form |-> dir[a].form]
    BY <2>2 DEF Plausible, File, NoFile, Unreadable
  <2>4. Plausible(file)
    <3>1. file = [state |-> "present", value |-> dir[a].value, form |-> "reformatted"]
      BY <2>3
    <3> HIDE DEF file
    <3> QED
      BY <3>1 DEF Plausible
  <2>5. a = "record.jws" => GenuineFile(file)
    BY <2>1 DEF IInv, Genuine, GenuineFile
  <2> QED
    BY <1>4, <2>4, <2>5, AlterInv DEF Reformat
<1>5. ASSUME NEW a \in EVIDENCE_ARTIFACTS, Exchange(a)
      PROVE  IInv'
  <2>1. PICK l \in Found : Alter(a, l[a])
    BY <1>5 DEF Exchange
  <2>2. Plausible(l[a]) /\ (a = "record.jws" => GenuineFile(l[a]))
    BY <2>1, FoundAssumption, FilesLemma
  <2> QED
    BY <2>1, <2>2, AlterInv
<1>6. ASSUME Redirect
      PROVE  IInv'
  <2>1. PICK l \in Found : dir' = [a \in EVIDENCE_ARTIFACTS |->
                                     IF a \in Nested THEN l[a] ELSE dir[a]]
    BY <1>6 DEF Redirect
  <2>2. \A b \in EVIDENCE_ARTIFACTS : Plausible(l[b]) /\ Plausible(dir[b])
    BY <2>1, FoundAssumption, FilesLemma DEF IInv, TypeOK
  <2>3. "record.jws" \in EVIDENCE_ARTIFACTS /\ "record.jws" \notin Nested
    BY DEF EVIDENCE_ARTIFACTS, Nested, Required, Signature, Response
  <2>4. /\ dir' = [b \in EVIDENCE_ARTIFACTS |-> dir'[b]]
        /\ \A b \in EVIDENCE_ARTIFACTS : Plausible(dir'[b])
        /\ GenuineFile(dir'["record.jws"])
    BY <2>1, <2>2, <2>3 DEF IInv, Genuine
  <2>5. changes' \in 0 .. MaxChanges
    BY <1>6, MaxChangesAssumption DEF Redirect, IInv, TypeOK
  <2> QED
    BY <1>6, <2>4, <2>5, DirectoryStep DEF Redirect, writer, IInv, TypeOK
<1> QED
  BY <1>1, <1>2, <1>3, <1>4, <1>5, <1>6 DEF Damage

\* The verifier starts, reads what is there, and reports on what it read.
LEMMA VerifierInv == IInv /\ (Begin \/ ReadNext \/ Decide) => IInv'
<1> SUFFICES ASSUME IInv, Begin \/ ReadNext \/ Decide
             PROVE  IInv'
  OBVIOUS
<1>1. CASE Begin
  <2>1. TypeOK'
    BY <1>1 DEF IInv, TypeOK, Begin, Report, writer
  <2>2. Genuine'
    BY <1>1 DEF IInv, Genuine, Begin
  <2>3. Reported'
    BY <1>1 DEF IInv, Reported, Begin, Report, Fails
  <2> QED
    BY <2>1, <2>2, <2>3 DEF IInv
<1>2. CASE ReadNext
  <2> DEFINE a == READ_ORDER[at]
  <2>1. a \in EVIDENCE_ARTIFACTS
    BY <1>2, WriteOrderLemma DEF IInv, TypeOK, ReadNext
  <2>2. read' = [read EXCEPT ![a] = dir[a]]
    BY <1>2 DEF ReadNext
  <2> HIDE DEF a
  <2>3. read = [b \in EVIDENCE_ARTIFACTS |-> read[b]]
    BY DEF IInv, TypeOK
  <2>4. \A b \in EVIDENCE_ARTIFACTS : read'[b] = IF b = a THEN dir[a] ELSE read[b]
    BY <2>2, <2>3
  <2>5. read' = [b \in EVIDENCE_ARTIFACTS |-> read'[b]]
    BY <2>2, <2>3
  <2>6. \A b \in EVIDENCE_ARTIFACTS : Plausible(read'[b])
    BY <2>1, <2>4 DEF IInv, TypeOK
  <2>7. at' \in 1 .. (Len(READ_ORDER) + 1)
    BY <1>2, WriteOrderLemma DEF ReadNext, IInv, TypeOK
  <2>8. TypeOK'
    BY <1>2, <2>5, <2>6, <2>7 DEF ReadNext, IInv, TypeOK, writer
  <2>9. Genuine'
    <3>1. read'["record.jws"] \in {dir["record.jws"], read["record.jws"]}
      BY <2>4 DEF EVIDENCE_ARTIFACTS
    <3>2. dir' = dir
      BY <1>2 DEF ReadNext
    <3> QED
      BY <3>1, <3>2 DEF IInv, Genuine
  <2>10. Reported'
    BY <1>2 DEF ReadNext, IInv, Reported
  <2> QED
    BY <2>8, <2>9, <2>10 DEF IInv
<1>3. CASE Decide
  <2>1. TypeOK'
    BY <1>3 DEF IInv, TypeOK, Decide, Report, writer
  <2>2. Genuine'
    BY <1>3 DEF IInv, Genuine, Decide
  <2>3. Reported'
    BY <1>3 DEF Reported, Decide, Report
  <2> QED
    BY <2>1, <2>2, <2>3 DEF IInv
<1> QED
  BY <1>1, <1>2, <1>3

\* Every step keeps the invariant.
LEMMA NextInv == IInv /\ [Next]_vars => IInv'
<1> SUFFICES ASSUME IInv, [Next]_vars
             PROVE  IInv'
  OBVIOUS
<1>1. CASE UNCHANGED vars
  BY <1>1 DEF vars, IInv, TypeOK, Genuine, Reported
<1> QED
  BY <1>1, WriteInv, SkipInv, TruncateInv, FillInv, DamageInv, VerifierInv DEF Next

-----------------------------------------------------------------------------
(* The theorems. *)

\* Every variable keeps its type, whatever is written, altered and read when.
THEOREM TypeCorrect == Spec => []TypeOK
<1>1. IInv => TypeOK
  BY DEF IInv
<1> QED
  BY <1>1, InitInv, NextInv, PTL DEF Spec

\* The invariant, and with no check failed the evidence of one layout.
LEMMA WholeInv == IInv => VerifiedIsOneIssuance
<1> SUFFICES ASSUME IInv, Verified
             PROVE  \E l \in Layouts : /\ SameEvidence(read, l)
                                       /\ RecordOf(l).key = supplied.public
  BY DEF VerifiedIsOneIssuance
<1>1. FailedChecks(read, supplied) = {}
  BY DEF IInv, Reported, Verified
<1>2. SignatureHolds(read, supplied)
  BY <1>1, AllHoldLemma
<1>3. PICK l \in Layouts : RecordOf(read) = RecordOf(l)
  BY <1>2 DEF IInv, Genuine, GenuineFile, SignatureHolds, Admitted, RecordOf
<1>4. SameEvidence(read, l)
  BY <1>1, <1>3, WholeLemma DEF IInv, TypeOK
<1> QED
  BY <1>2, <1>3, <1>4 DEF SignatureHolds

\* A directory that verifies was read as one whole emission by the holder of the
\* supplied key, also when it was written and altered while it was read.
THEOREM VerifiedIsOneIssuanceTheorem == Spec => []VerifiedIsOneIssuance
BY InitInv, NextInv, WholeInv, PTL DEF Spec


-----------------------------------------------------------------------------
(* The report names what was edited. *)

\* The names of the checks that compare a file with what is bound for it are not
\* among these.
Neither(a, checks) ==
    <<"digest", a>> \notin checks /\ <<"origin result body", "evidence">> \notin checks

\* No other check goes by the name of a digest check, or of that of the body.
LEMMA OtherChecksLemma ==
  ASSUME NEW d, NEW key, NEW a
  PROVE  /\ Neither(a, KeyChecks(d, key))
         /\ Neither(a, ProfileChecks(d))
         /\ Neither(a, ObservationChecks(d))
<1>1. Neither(a, KeyChecks(d, key))
  BY DEF KeyChecks, Check, Fails, Neither
<1>2. Neither(a, ProfileChecks(d))
  BY DEF ProfileChecks, Neither
<1>3. Neither(a, RpcChecks(ObservationOf(d)))
  BY DEF RpcChecks, Check, Fails, Neither
<1>4. Neither(a, ComparisonChecks(ObservationOf(d)))
  BY DEF ComparisonChecks, Check, Fails, Neither
<1>5. Neither(a, AgreementChecks(d))
  BY DEF AgreementChecks, Check, Fails, Neither
<1>6. Neither(a, NativeChecks(d))
  <2>1. Neither(a, DecodeChecks(d))
    BY DEF DecodeChecks, Neither
  <2>2. Neither(a, SignatureChecks(d))
    BY DEF SignatureChecks, Check, Fails, Neither
  <2>3. Neither(a, AdvertisedCheck(d) \cup ResponseCheck(d))
    BY DEF AdvertisedCheck, ResponseCheck, Check, Fails, Neither
  <2> QED
    BY <2>1, <2>2, <2>3 DEF NativeChecks, Neither
<1>7. Neither(a, ObservationChecks(d))
  BY <1>3, <1>4, <1>5, <1>6 DEF ObservationChecks, Check, Fails, Neither
<1> QED
  BY <1>1, <1>2, <1>7

\* They are in a report on an intact record exactly when they do not hold.
LEMMA NamedLemma ==
  ASSUME NEW d, NEW key,
         \A a \in EVIDENCE_ARTIFACTS : d[a].state # "refused",
         SignatureHolds(d, key),
         RecordOf(d).groups
  PROVE  /\ \A a \in DigestBound :
              <<"digest", a>> \in FailedChecks(d, key) <=> ~ DigestHolds(d, a)
         /\ <<"origin result body", "evidence">> \in FailedChecks(d, key) <=> ~ BodyHolds(d)
<1>1. FailedChecks(d, key) = RecordChecks(d, key)
  BY DEF FailedChecks, SignatureHolds, Admitted
<1>2. ASSUME NEW a \in DigestBound
      PROVE  <<"digest", a>> \in RecordChecks(d, key) <=> ~ DigestHolds(d, a)
  <2>1. <<"digest", a>> \in DigestChecks(d) <=> ~ DigestHolds(d, a)
    BY DEF DigestChecks
  <2> QED
    BY <2>1, OtherChecksLemma DEF Neither, RecordChecks, ContentChecks, Check, Fails
<1>3. <<"origin result body", "evidence">> \in RecordChecks(d, key) <=> ~ BodyHolds(d)
  <2>1. <<"origin result body", "evidence">> \notin DigestChecks(d)
    BY DEF DigestChecks
  <2> QED
    BY <2>1, OtherChecksLemma DEF Neither, RecordChecks, ContentChecks, Check, Fails
<1> QED
  BY <1>1, <1>2, <1>3

\* The digest check of a file fails exactly when the file is not the one that
\* was issued, and the check of the body exactly when the body is not the one
\* its intact binding names: the report tells which file was edited.
LEMMA NamedInv == IInv => EditIsNamed
<1> SUFFICES ASSUME IInv,
                    phase = "reported",
                    \A a \in EVIDENCE_ARTIFACTS : read[a].state # "refused",
                    SignatureHolds(read, supplied),
                    RecordOf(read).groups,
                    NEW l \in Layouts, RecordOf(l) = RecordOf(read)
             PROVE  /\ \A a \in DigestBound :
                         <<"digest", a>> \in failed <=> ~ SameFile(a, read[a], l[a])
                    /\ /\ l["origin-result-binding.json"].state = "present"
                       /\ SameFile("origin-result-binding.json",
                                   read["origin-result-binding.json"],
                                   l["origin-result-binding.json"])
                       => (Fails("origin result body") \subseteq failed
                             <=> read["origin-result-body.bin"] # l["origin-result-body.bin"])
  BY DEF EditIsNamed
<1>1. failed = FailedChecks(read, supplied)
  <2>1. read # Nothing
    BY FileLemma DEF SignatureHolds, Admitted, Nothing, EVIDENCE_ARTIFACTS
  <2> QED
    BY <2>1 DEF IInv, Reported
<1>2. ASSUME NEW a \in DigestBound
      PROVE  <<"digest", a>> \in failed <=> ~ SameFile(a, read[a], l[a])
  <2>1. a \in EVIDENCE_ARTIFACTS /\ Plausible(read[a])
    BY DEF DigestBound, IInv, TypeOK
  <2>2. DigestHolds(read, a) <=> SameFile(a, read[a], l[a])
    BY <2>1, SameFileLemma
  <2> QED
    BY <1>1, <2>2, NamedLemma
<1>3. ASSUME l["origin-result-binding.json"].state = "present",
             SameFile("origin-result-binding.json", read["origin-result-binding.json"],
                      l["origin-result-binding.json"])
      PROVE  BodyHolds(read)
               <=> read["origin-result-body.bin"] = l["origin-result-body.bin"]
  <2>1. /\ read["origin-result-binding.json"].state = "present"
        /\ read["origin-result-binding.json"].value = l["origin-result-binding.json"].value
    BY <1>3 DEF SameFile, JsonArtifacts
  <2>2. BodyHolds(l)
    BY BoundLemma DEF BoundByRecord
  <2> QED
    BY <1>3, <2>1, <2>2 DEF BodyHolds, Admitted
<1>4. <<"origin result body", "evidence">> \in failed <=> ~ BodyHolds(read)
  BY <1>1, NamedLemma
<1> QED
  BY <1>2, <1>3, <1>4 DEF Fails

\* The report tells which file was edited.
THEOREM EditIsNamedTheorem == Spec => []EditIsNamed
BY InitInv, NextInv, NamedInv, PTL DEF Spec


-----------------------------------------------------------------------------
(* One payment. *)

\* Of a settled payment, the contract asks for every file a check opens.
LEMMA SettledFilesLemma ==
  ASSUME NEW terminal, NEW present,
         PaymentWasSettled(terminal),
         PresenceHolds(terminal, present)
  PROVE  {Required, Signature, Response, "request-binding.json", "chain-observation.json"}
           \subseteq present
BY DEF PresenceHolds, RequiredFor, PaymentWasSettled, Required, Signature, Response

\* With no check failed, each of the checks that compare one artifact of a settled
\* payment with another was reached, and holds.
LEMMA ReachedLemma ==
  ASSUME NEW d, NEW key,
         FailedChecks(d, key) = {},
         PaymentWasSettled(RecordOf(d).terminal)
  PROVE  /\ RpcChecks(ObservationOf(d)) = {}
         /\ ComparisonChecks(ObservationOf(d)) = {}
         /\ AgreementChecks(d) = {}
         /\ SignatureChecks(d) = {}
         /\ AdvertisedCheck(d) = {}
         /\ ResponseCheck(d) = {}
         /\ Admitted(d, "request-binding.json")
<1>1. /\ ObservationChecks(d) = {}
      /\ PresenceHolds(RecordOf(d).terminal, PresentIn(d))
      /\ \A a \in DigestBound : DigestHolds(d, a)
  BY AllHoldLemma
<1>2. \A a \in {Required, Signature, Response, "request-binding.json",
                "chain-observation.json"} : d[a].state = "present"
  BY <1>1, SettledFilesLemma DEF PresentIn
<1>3. /\ RpcChecks(ObservationOf(d)) = {}
      /\ ComparisonChecks(ObservationOf(d)) = {}
      /\ AgreementChecks(d) = {}
      /\ NativeChecks(d) = {}
  BY <1>1, <1>2 DEF ObservationChecks, Fails
<1>4. \A a \in {Required, Signature, Response} : Admitted(d, a)
  <2> SUFFICES ASSUME NEW a \in {Required, Signature, Response}, ~ Admitted(d, a)
               PROVE  FALSE
    OBVIOUS
  <2>1. <<"native decodes", a>> \in DecodeChecks(d)
    BY <1>2 DEF DecodeChecks
  <2> QED
    BY <1>3, <2>1 DEF NativeChecks
<1>5. SignatureChecks(d) = {} /\ AdvertisedCheck(d) = {} /\ ResponseCheck(d) = {}
  BY <1>3, <1>4 DEF NativeChecks
<1>6. Admitted(d, "request-binding.json")
  <2>1. "request-binding.json" \in DigestBound /\ "request-binding.json" \in JsonArtifacts
    BY DEF DigestBound, EVIDENCE_ARTIFACTS, JsonArtifacts
  <2> QED
    BY <1>1, <1>2, <2>1 DEF DigestHolds, Admitted
<1> QED
  BY <1>3, <1>5, <1>6

\* The comparisons, chained, make the files tell of one payment.
LEMMA OnePaymentInv == IInv => VerifiedIsOnePayment
<1> SUFFICES ASSUME IInv, Verified, PaymentWasSettled(RecordOf(read).terminal)
             PROVE  VerifiedIsOnePayment
  BY DEF VerifiedIsOnePayment
<1> DEFINE claims == RecordOf(read)
           paid   == read[Signature].value
           asked  == read[Required].value
           answer == read[Response].value
           o      == ObservationOf(read)
<1>1. FailedChecks(read, supplied) = {}
  BY DEF IInv, Reported, Verified
<1>2. /\ RpcChecks(o) = {} /\ ComparisonChecks(o) = {} /\ AgreementChecks(read) = {}
      /\ SignatureChecks(read) = {} /\ AdvertisedCheck(read) = {} /\ ResponseCheck(read) = {}
      /\ Admitted(read, "request-binding.json")
  BY <1>1, ReachedLemma
<1>3. /\ claims.network = o.expected.network
      /\ claims.asset = o.expected.asset
      /\ claims.amount = o.expected.amount
  BY <1>2 DEF AgreementChecks, Check, Fails
<1>4. /\ paid.accepted = [network |-> o.expected.network, asset |-> o.expected.asset,
                          amount |-> o.expected.amount, recipient |-> o.expected.recipient]
      /\ paid.authorization.from = o.expected.payer
      /\ paid.authorization.to = o.expected.recipient
      /\ paid.authorization.value = o.expected.amount
      /\ paid.identifier = claims.reference
      /\ paid.url = read["request-binding.json"].value.url
  BY <1>2 DEF SignatureChecks, Check, Fails
<1>5. asked.url = paid.url /\ paid.accepted \in asked.accepts
  BY <1>2 DEF AdvertisedCheck, Check, Fails
<1>6. answer.transaction = o.report.transaction
  BY <1>2 DEF ResponseCheck, Check, Fails
<1>7. o.rpc # None => o.rpc.transaction = o.report.transaction
  BY <1>2 DEF RpcChecks, Check, Fails
<1>8. o.comparison = Comparison(o.expected, o.report, o.rpc)
  BY <1>2 DEF ComparisonChecks, Check, Fails
<1>9. o.comparison.transfer_event = "match" =>
        o.rpc.transfer = [asset |-> o.expected.asset, from |-> o.expected.payer,
                          to |-> o.expected.recipient, amount |-> o.expected.amount]
  BY <1>8 DEF Comparison, Verdict, TransferMatches
<1> QED
  BY <1>3, <1>4, <1>5, <1>6, <1>7, <1>9 DEF VerifiedIsOnePayment

\* A record of a settled payment that verifies tells of one payment.
THEOREM VerifiedIsOnePaymentTheorem == Spec => []VerifiedIsOnePayment
BY InitInv, NextInv, OnePaymentInv, PTL DEF Spec

-----------------------------------------------------------------------------
(* What is written verifies. *)

\* What an ordinary run has, by its terminal state.
LEMMA ProducedLemma ==
  ASSUME NEW r \in Runs, Ordinary(r),
         r.terminal = "handler_error_status" => r.result # None
  PROVE  /\ r.result # None <=> r.terminal \in {"response_write_attempted",
                                    "handler_error_status", "settlement_failed"}
         /\ r.response # None =>
              r.terminal \in {"response_write_attempted", "settlement_failed"}
         /\ r.terminal = "response_write_attempted" => r.response # None
BY DEF Ordinary, Produced, PaidAsAgreed, PaymentWasSettled, TERMINAL_STATES

\* The files of a run are those its terminal state should have produced.
LEMMA WrittenPresenceLemma ==
  ASSUME NEW r \in Runs, Ordinary(r),
         r.terminal = "handler_error_status" => r.result # None
  PROVE  PresenceHolds(r.terminal, PresentIn(Layout(r)))
<1>1. /\ r.payload # None
      /\ r.result # None => r.result.body # None /\ OriginResultBinding(r) # None
  BY DocumentsAssumption, PartiesAssumption
<1>2. r.result = None => OriginResultBinding(r) = None /\ ResultDigest(r) = None
  BY DEF OriginResultBinding, ResultDigest
<1>3. r.result # None => ResultDigest(r) # None
  BY <1>1 DEF ResultDigest
<1>4. /\ {"record.jws", "request-binding.json", "chain-observation.json",
          "artifacts/payment-required.txt", "artifacts/payment-signature.txt"}
           \subseteq PresentIn(Layout(r))
      /\ "origin-result-binding.json" \in PresentIn(Layout(r)) <=> r.result # None
      /\ "origin-result-body.bin" \in PresentIn(Layout(r)) <=> r.result # None
      /\ "artifacts/payment-response.txt" \in PresentIn(Layout(r)) <=> r.response # None
  <2>1. NoFile.state # "present" /\ \A v : File(v).state = "present"
    BY FileLemma
  <2>2. \A v : FileOf(v).state = "present" <=> v # None
    BY <2>1, FileLemma
  <2>3. \A a \in EVIDENCE_ARTIFACTS :
           a \in PresentIn(Layout(r)) <=> Layout(r)[a].state = "present"
    BY DEF PresentIn
  <2> QED
    BY <1>1, <1>2, <1>3, <2>1, <2>2, <2>3, LayoutFilesLemma DEF EVIDENCE_ARTIFACTS
<1>5. PresentIn(Layout(r)) \subseteq EVIDENCE_ARTIFACTS
  BY DEF PresentIn
<1>6. r.terminal \in TERMINAL_STATES \ {"payment_required_only"}
  BY DEF Ordinary
<1> QED
  BY <1>4, <1>5, <1>6, ProducedLemma
     DEF PresenceHolds, RequiredFor, OptionalFor, ResultFiles, PaymentWasSettled,
         TERMINAL_STATES, EVIDENCE_ARTIFACTS

\* Of what was read as it was issued, the documents, the native artifacts and
\* the names of the files are those of the run.
LEMMA ReadLemma ==
  ASSUME NEW r \in Runs, SameEvidence(read, Layout(r))
  PROVE  /\ RecordOf(read) = Claims(r)
         /\ Admitted(read, "record.jws")
         /\ read["request-binding.json"].value = RequestBinding(r)
         /\ Admitted(read, "request-binding.json")
         /\ read["origin-result-binding.json"].state = FileOf(OriginResultBinding(r)).state
         /\ read["origin-result-binding.json"].value = FileOf(OriginResultBinding(r)).value
         /\ ObservationOf(read) = Observation(r)
         /\ Admitted(read, "chain-observation.json")
         /\ read["origin-result-body.bin"] = FileOf(ResultDigest(r))
         /\ read[Required] = File(r.required)
         /\ read[Signature] = FileOf(r.payload)
         /\ read[Response] = FileOf(r.response)
         /\ PresentIn(read) = PresentIn(Layout(r))
         /\ \A a \in EVIDENCE_ARTIFACTS : read[a].state # "refused"
<1> DEFINE l == Layout(r)
<1>1. \A a \in EVIDENCE_ARTIFACTS : read[a].state = l[a].state /\ read[a].value = l[a].value
  BY DEF SameEvidence, SameFile
<1>2. \A a \in EVIDENCE_ARTIFACTS \ (JsonArtifacts \cup {"record.jws"}) : read[a] = l[a]
  BY DEF SameEvidence, SameFile
<1>3. Claims(r) # Garbled /\ RequestBinding(r) # Garbled /\ Observation(r) # Garbled
  BY DocumentsAssumption
<1>4. PresentIn(read) = PresentIn(Layout(r))
  BY <1>1 DEF PresentIn
<1>5. \A a \in EVIDENCE_ARTIFACTS : read[a].state # "refused"
  <2>1. \A a \in EVIDENCE_ARTIFACTS : l[a] = NoFile \/ l[a] = File(l[a].value)
    BY LayoutLemma DEF BoundByRecord
  <2>2. \A a \in EVIDENCE_ARTIFACTS : l[a].state # "refused"
    BY <2>1, FileLemma
  <2> QED
    BY <1>1, <2>2
<1>6. /\ RecordOf(read) = Claims(r) /\ Admitted(read, "record.jws")
      /\ read["request-binding.json"].value = RequestBinding(r)
      /\ Admitted(read, "request-binding.json")
      /\ ObservationOf(read) = Observation(r) /\ Admitted(read, "chain-observation.json")
  BY <1>1, <1>3, LayoutFilesLemma, FileLemma
     DEF RecordOf, ObservationOf, Admitted, EVIDENCE_ARTIFACTS
<1>7. /\ read["origin-result-binding.json"].state = FileOf(OriginResultBinding(r)).state
      /\ read["origin-result-binding.json"].value = FileOf(OriginResultBinding(r)).value
  BY <1>1, LayoutFilesLemma DEF EVIDENCE_ARTIFACTS
<1>8. /\ read["origin-result-body.bin"] = FileOf(ResultDigest(r))
      /\ read[Required] = File(r.required)
      /\ read[Signature] = FileOf(r.payload)
      /\ read[Response] = FileOf(r.response)
  BY <1>2, LayoutFilesLemma
     DEF EVIDENCE_ARTIFACTS, JsonArtifacts, Required, Signature, Response
<1> QED
  BY <1>4, <1>5, <1>6, <1>7, <1>8

\* The result binding that was read, if there is one, names the body that was.
LEMMA ReadResultLemma ==
  ASSUME NEW r \in Runs, SameEvidence(read, Layout(r))
  PROVE  /\ BodyHolds(read)
         /\ BoundBody(read) = ResultDigest(r)
         /\ Admitted(read, "origin-result-binding.json") =>
              read["origin-result-binding.json"].value.shape = "local"
<1>1. CASE r.result = None
  <2>1. OriginResultBinding(r) = None /\ ResultDigest(r) = None
    BY <1>1 DEF OriginResultBinding, ResultDigest
  <2>2. read["origin-result-binding.json"].state # "present"
    BY <2>1, ReadLemma, FileLemma
  <2> QED
    BY <2>1, <2>2 DEF BodyHolds, BoundBody, Admitted
<1>2. CASE r.result # None
  <2>1. /\ r.result.body # None /\ OriginResultBinding(r) # None
        /\ OriginResultBinding(r) # Garbled
    BY <1>2, DocumentsAssumption
  <2>2. /\ ResultDigest(r) = r.result.body /\ OriginResultBinding(r).body = ResultDigest(r)
        /\ OriginResultBinding(r).shape = "local"
    BY <1>2 DEF OriginResultBinding, ResultDigest
  <2>3. /\ read["origin-result-binding.json"].state = "present"
        /\ read["origin-result-binding.json"].value = OriginResultBinding(r)
    BY <2>1, ReadLemma, FileLemma
  <2>4. read["origin-result-body.bin"] = File(ResultDigest(r))
    BY <2>1, <2>2, ReadLemma, FileLemma
  <2>5. BytesOf(ResultDigest(r)) = File(ResultDigest(r)) /\ File(ResultDigest(r)).state = "present"
    BY <2>1, <2>2, FileLemma
  <2> QED
    BY <2>1, <2>2, <2>3, <2>4, <2>5 DEF BodyHolds, BoundBody, Admitted
<1> QED
  BY <1>1, <1>2

\* What observeSettlement says of the settlement, and the RPC endpoint's account.
LEMMA ReportLemma ==
  ASSUME NEW r \in Runs, Ordinary(r)
  PROVE  /\ Settled(r) <=> PaymentWasSettled(r.terminal)
         /\ SettlementReport(r).outcome = "succeeded" <=> Settled(r)
         /\ SettlementReport(r).transaction # None <=> Settled(r)
         /\ Settled(r) => /\ SettlementReport(r).transaction = r.response.transaction
                          /\ SettlementReport(r).network = r.response.network
         /\ SettlementReport(r).payer = r.payer
         /\ RpcObservation(r) # None =>
              /\ Settled(r)
              /\ RpcObservation(r).transaction = SettlementReport(r).transaction
              /\ RpcObservation(r).level = "l2_block_inclusion" => RpcObservation(r).placed
<1>1. Settled(r) <=> PaymentWasSettled(r.terminal)
  BY DEF Settled, Ordinary, PaidAsAgreed
<1>2. Settled(r) => r.response.transaction # None
  BY <1>1 DEF Ordinary, PaidAsAgreed
<1>3. /\ SettlementReport(r).outcome = Outcome(r)
      /\ SettlementReport(r).transaction = IF Settled(r) THEN r.response.transaction ELSE None
      /\ SettlementReport(r).network = IF Settled(r) THEN r.response.network ELSE None
      /\ SettlementReport(r).payer = r.payer
  BY DEF SettlementReport
<1>4. Outcome(r) = "succeeded" <=> Settled(r)
  BY DEF Outcome
<1>5. RpcObservation(r) # None =>
         Settled(r) /\ r.rpc # None /\ RpcObservation(r) = r.rpc
  BY <1>3 DEF RpcObservation
<1>6. Settled(r) /\ r.rpc # None =>
         /\ r.rpc.transaction = r.response.transaction
         /\ r.rpc.level = "l2_block_inclusion" => r.rpc.placed
  BY <1>1 DEF Ordinary, PaidAsAgreed
<1> QED
  BY <1>1, <1>2, <1>3, <1>4, <1>5, <1>6

\* An observation has the members observeSettlement gave it.
LEMMA ObservationLemma ==
  ASSUME NEW r \in Runs
  PROVE  /\ Observation(r).shape = "local"
         /\ Observation(r).expected = Expectation(r.payload)
         /\ Observation(r).report = SettlementReport(r)
         /\ Observation(r).rpc = RpcObservation(r)
         /\ Observation(r).comparison = Comparison(Expectation(r.payload),
                                           SettlementReport(r), RpcObservation(r))
         /\ Observation(r).terminal = r.terminal
         /\ Observation(r).response = r.response
         /\ Observation(r).result = ResultDigest(r)
BY DEF Observation

\* The checks of the observation by itself, and against the record.
LEMMA ObservationHoldsLemma ==
  ASSUME NEW r \in Runs, Ordinary(r), SameEvidence(read, Layout(r))
  PROVE  /\ RpcChecks(Observation(r)) = {}
         /\ ComparisonChecks(Observation(r)) = {}
         /\ AgreementChecks(read) = {}
<1>1. RpcChecks(Observation(r)) = {}
  <2> DEFINE o == Observation(r)
  <2>1. o.report = SettlementReport(r) /\ o.rpc = RpcObservation(r)
    BY ObservationLemma
  <2>2. o.rpc # None => /\ o.report.transaction # None
                        /\ o.rpc.transaction = o.report.transaction
                        /\ o.rpc.level = "l2_block_inclusion" => o.rpc.placed
    BY <2>1, ReportLemma
  <2> HIDE DEF o
  <2>3. RpcChecks(o) = {}
    BY <2>2 DEF RpcChecks, Check
  <2> QED
    BY <2>3 DEF o
<1>2. ComparisonChecks(Observation(r)) = {}
  <2>1. ASSUME RpcObservation(r) # None /\ RpcObservation(r).status # None
        PROVE  Comparison(Expectation(r.payload), SettlementReport(r),
                          RpcObservation(r)).transfer_event # "not_evaluated"
    BY <2>1 DEF Comparison, Verdict
  <2> QED
    BY <2>1, ObservationLemma DEF ComparisonChecks, Check
<1>3. AgreementChecks(read) = {}
  <2>1. /\ Claims(r).network = Observation(r).expected.network
        /\ Claims(r).asset = Observation(r).expected.asset
        /\ Claims(r).amount = Observation(r).expected.amount
        /\ Claims(r).terminal = r.terminal /\ Claims(r).response = r.response
    BY DEF Claims
  <2>2. RecordOf(read) = Claims(r) /\ ObservationOf(read) = Observation(r)
    BY ReadLemma
  <2>3. BoundBody(read) = ResultDigest(r)
    BY ReadResultLemma
  <2> QED
    BY <2>1, <2>2, <2>3, ObservationLemma DEF AgreementChecks, Check
<1> QED
  BY <1>1, <1>2, <1>3

\* The checks of the native artifacts of a settled payment.
LEMMA NativeHoldsLemma ==
  ASSUME NEW r \in Runs, Ordinary(r), SameEvidence(read, Layout(r)),
         PaymentWasSettled(r.terminal)
  PROVE  NativeChecks(read) = {}
<1>1. PaidAsAgreed(r) /\ Settled(r)
  BY ReportLemma DEF Ordinary
<1>2. /\ r.payload # None /\ r.payload # Garbled /\ r.required # Garbled
      /\ r.response # Garbled /\ r.response # None /\ r.response.success = TRUE
      /\ r.payload.accepted = [network   |-> r.payload.accepted.network,
                               asset     |-> r.payload.accepted.asset,
                               amount    |-> r.payload.accepted.amount,
                               recipient |-> r.payload.accepted.recipient]
  BY <1>1, PartiesAssumption DEF PaidAsAgreed
<1>3. /\ read[Required] = File(r.required) /\ read[Signature] = File(r.payload)
      /\ read[Response] = File(r.response)
  BY <1>2, ReadLemma, FileLemma
<1>4. /\ read[Required].value = r.required /\ read[Signature].value = r.payload
      /\ read[Response].value = r.response
      /\ Admitted(read, Required) /\ Admitted(read, Signature) /\ Admitted(read, Response)
  BY <1>2, <1>3, FileLemma DEF Admitted
<1>5. DecodeChecks(read) = {}
  BY <1>4 DEF DecodeChecks
<1>6. /\ ObservationOf(read).expected = Expectation(r.payload)
      /\ ObservationOf(read).report = SettlementReport(r)
      /\ RecordOf(read).reference = r.reference
      /\ read["request-binding.json"].value.url = r.url
  <2>1. Claims(r).reference = r.reference /\ RequestBinding(r).url = r.url
    BY DEF Claims, RequestBinding
  <2> QED
    BY <2>1, ReadLemma, ObservationLemma
<1>7. SignatureChecks(read) = {}
  <2> DEFINE e == Expectation(r.payload)
  <2>1. /\ e.network = r.payload.accepted.network /\ e.asset = r.payload.accepted.asset
        /\ e.amount = r.payload.accepted.amount /\ e.recipient = r.payload.accepted.recipient
        /\ e.authorization = r.payload.authorization
        /\ r.payload.authorization # None => e.payer = r.payload.authorization.from
    BY DEF Expectation
  <2> HIDE DEF e
  <2>2. r.payload.accepted = [network |-> e.network, asset |-> e.asset,
                              amount |-> e.amount, recipient |-> e.recipient]
    BY <1>2, <2>1
  <2>3. LET auth == r.payload.authorization
        IN  /\ auth # None /\ auth = e.authorization /\ auth.from = e.payer
            /\ auth.to = e.recipient /\ auth.value = e.amount
    BY <1>1, <2>1 DEF PaidAsAgreed
  <2>4. r.payload.identifier = r.reference /\ r.payload.url = r.url
    BY <1>1 DEF PaidAsAgreed
  <2>5. ObservationOf(read).expected = e
    BY <1>6 DEF e
  <2> QED
    BY <1>4, <1>6, <2>2, <2>3, <2>4, <2>5 DEF SignatureChecks, Check
<1>8. AdvertisedCheck(read) = {}
  BY <1>1, <1>4 DEF AdvertisedCheck, Check, PaidAsAgreed
<1>9. ResponseCheck(read) = {}
  <2>1. /\ SettlementReport(r).outcome = "succeeded"
        /\ SettlementReport(r).transaction = r.response.transaction
        /\ SettlementReport(r).network = r.response.network
        /\ SettlementReport(r).payer = r.payer
    BY <1>1, ReportLemma
  <2>2. r.response.transaction # None /\ r.response.payer \in {None, r.payer}
    BY <1>1 DEF PaidAsAgreed
  <2> QED
    BY <1>2, <1>4, <1>6, <2>1, <2>2 DEF ResponseCheck, Check
<1> QED
  BY <1>5, <1>7, <1>8, <1>9 DEF NativeChecks

\* What buildEvidence made of an ordinary run fails no check.
LEMMA WrittenLemma ==
  ASSUME NEW r \in Runs, NEW key, Ordinary(r),
         r.terminal = "handler_error_status" => r.result # None,
         SameEvidence(read, Layout(r)),
         \A a \in EVIDENCE_ARTIFACTS : Plausible(read[a]),
         key.public = r.key, key.describes \in {None, r.key}
  PROVE  FailedChecks(read, key) = {}
<1>1. /\ Claims(r).key = r.key /\ Claims(r).type = "payment" /\ Claims(r).groups = TRUE
      /\ Claims(r).terminal = r.terminal
  BY DEF Claims
<1>2. /\ RecordOf(read) = Claims(r) /\ Admitted(read, "record.jws")
      /\ \A a \in EVIDENCE_ARTIFACTS : read[a].state # "refused"
      /\ ObservationOf(read) = Observation(r) /\ Admitted(read, "chain-observation.json")
  BY ReadLemma
<1>3. SignatureHolds(read, key) /\ read["record.jws"].state = "present"
  BY <1>1, <1>2 DEF SignatureHolds, Admitted
<1>4. KeyChecks(read, key) = {}
  BY <1>1, <1>2 DEF KeyChecks, Check
<1>5. DigestChecks(read) = {}
  <2>1. ASSUME NEW a \in DigestBound  PROVE DigestHolds(read, a)
    <3>1. a \in EVIDENCE_ARTIFACTS /\ Layout(r) \in Layouts
      BY DEF DigestBound, Layouts
    <3>2. RecordOf(read) = RecordOf(Layout(r))
      BY <1>2, ClaimsLemma
    <3> QED
      BY <1>2, <3>1, <3>2, SameFileLemma DEF SameEvidence
  <2> QED
    BY <2>1 DEF DigestChecks
<1>6. ProfileChecks(read) = {}
  <2>1. ASSUME NEW a \in JsonArtifacts, Admitted(read, a)  PROVE read[a].value.shape = "local"
    <3>1. CASE a = "request-binding.json"
      <4>1. RequestBinding(r).shape = "local"
        BY DEF RequestBinding
      <4> QED
        BY <3>1, <4>1, ReadLemma
    <3>2. CASE a = "chain-observation.json"
      BY <3>2, ReadLemma, ObservationLemma DEF ObservationOf
    <3>3. CASE a = "origin-result-binding.json"
      BY <2>1, <3>3, ReadResultLemma
    <3> QED
      BY <3>1, <3>2, <3>3 DEF JsonArtifacts
  <2> QED
    BY <2>1 DEF ProfileChecks
<1>7. BodyHolds(read)
  BY ReadResultLemma
<1>8. r.terminal \in TERMINAL_STATES /\ PresenceHolds(r.terminal, PresentIn(read))
  BY ReadLemma, WrittenPresenceLemma DEF Ordinary
<1>9. ObservationChecks(read) = {}
  <2>1. (Observation(r).report.outcome = "succeeded") = (Observation(r).report.transaction # None)
    BY ReportLemma, ObservationLemma
  <2>2. Observation(r).shape = "local" /\ Observation(r) # Garbled
    BY ObservationLemma, DocumentsAssumption
  <2>3. read["chain-observation.json"].state = "present"
    BY <1>2 DEF Admitted
  <2> QED
    BY <1>1, <1>2, <2>1, <2>2, <2>3, ObservationHoldsLemma, NativeHoldsLemma
       DEF ObservationChecks, Check
<1>10. ContentChecks(read) = {}
  BY <1>1, <1>2, <1>5, <1>6, <1>7, <1>8, <1>9 DEF ContentChecks, Check
<1>11. RecordChecks(read, key) = {}
  BY <1>1, <1>2, <1>4, <1>10 DEF RecordChecks, Check
<1> QED
  BY <1>2, <1>3, <1>11 DEF FailedChecks

LEMMA WrittenInv == IInv => WrittenEvidenceVerifies
<1> SUFFICES ASSUME IInv, NEW r \in Runs, Ordinary(r),
                    r.terminal = "handler_error_status" => r.result # None,
                    ReadAsIssued(r)
             PROVE  failed = {}
  BY DEF WrittenEvidenceVerifies
<1>1. /\ failed = FailedChecks(read, supplied)
      /\ supplied.public = r.key /\ supplied.describes \in {None, r.key}
      /\ SameEvidence(read, Layout(r))
  BY DEF ReadAsIssued, IInv, Reported
<1> QED
  BY <1>1, WrittenLemma DEF IInv, TypeOK

\* What buildEvidence makes of an ordinary run, whatever its terminal state, verifies
\* under its key, left as it is or only reformatted: the writer's contract and the
\* verifier's checks agree (issue-record.ts, presence.ts, verify-evidence.ts).
THEOREM WrittenEvidenceVerifiesTheorem == Spec => []WrittenEvidenceVerifies
BY InitInv, NextInv, WrittenInv, PTL DEF Spec

=============================================================================
