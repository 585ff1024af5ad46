----------------------------- MODULE SafeRead_proofs -----------------------------
(***************************************************************************)
(* What is proved of SafeRead for any files, any bound, and any number of  *)
(* edits of the directory during the read.                                 *)
(***************************************************************************)
EXTENDS SafeRead, SequenceTheorems, TLAPS

Moments == [entry : Entries, bytes : Seq(Bytes)]

\* The state as the proofs use it.
Types ==
    /\ entry \in Entries /\ content \in [Files -> Seq(Bytes)]
    /\ size \in Nat /\ buffer \in Seq(Bytes)
    /\ stood \in SUBSET Moments

LEMMA EntryKinds ==
    ASSUME NEW e \in Entries
    PROVE  /\ e.kind \in {"nothing", "link", "inode"}
           /\ e.kind = "inode" => e.at \in Files \cup Others /\ e = Inode(e.at)
           /\ e.kind = "nothing" => e = Nothing
  BY DEF Entries, Nothing, Link, Inode

LEMMA MomentType ==
    ASSUME NEW e \in Entries, NEW c \in [Files -> Seq(Bytes)]
    PROVE  /\ Moment(e, c) \in Moments
           /\ Moment(e, c).entry = e
           /\ e.kind = "inode" /\ e.at \in Files => Moment(e, c).bytes = c[e.at]
  BY DEF Moment, Moments

\* A step of the reader leaves the history alone.
LEMMA ReaderHistory ==
    ASSUME HistoryIsCurrent, UNCHANGED <<directory, stood, cut>>
    PROVE  HistoryIsCurrent'
  BY DEF HistoryIsCurrent, Stood, IsOf, directory

LEMMA LstatStep == ASSUME IInv, Lstat PROVE IInv'
<1>1. entry \in Entries
  BY DEF IInv, TypeOK
<1>2. Moment(entry, content) \in stood /\ Moment(entry, content).entry = entry
  BY DEF IInv, HistoryIsCurrent, Moment
<1>3. HistoryIsCurrent'
  BY ReaderHistory DEF IInv, Lstat, Return, Goto, directory
<1>4. TypeOK'
  BY DEF IInv, TypeOK, Lstat, Return, Goto, directory, Outcomes, Refusals
<1>5. ReaderTrail' /\ OutcomeIsOfAMoment'
  <2>1. CASE entry = Nothing /\ Return("absent")
    BY <2>1, <1>2 DEF IInv, Lstat, Return, ReaderTrail, OutcomeIsOfAMoment
  <2>2. CASE entry.kind = "link" /\ Return("symbolic_link")
    BY <2>2, <1>2 DEF IInv, Lstat, Return, ReaderTrail, OutcomeIsOfAMoment
  <2>3. CASE entry.kind = "inode" /\ entry.at \in Others /\ Return("not_a_regular_file")
    BY <2>3, <1>1, <1>2, EntryKinds
       DEF IInv, Lstat, Return, ReaderTrail, OutcomeIsOfAMoment, IsOf
  <2>4. CASE Goto("open") /\ UNCHANGED <<fd, size>>
    BY <2>4 DEF IInv, Lstat, Goto, ReaderTrail, OutcomeIsOfAMoment
  <2> QED  BY <2>1, <2>2, <2>3, <2>4 DEF Lstat
<1> QED  BY <1>3, <1>4, <1>5 DEF IInv

LEMMA OpenStep == ASSUME IInv, Open PROVE IInv'
<1>1. entry \in Entries
  BY DEF IInv, TypeOK
<1>2. Moment(entry, content) \in stood /\ Moment(entry, content).entry = entry
  BY DEF IInv, HistoryIsCurrent, Moment
<1>3. HistoryIsCurrent'
  BY ReaderHistory DEF IInv, Open, Opened, Return, Goto, directory
<1>4. TypeOK'
  BY <1>1, EntryKinds DEF IInv, TypeOK, Open, Opened, Return, Goto, directory, Outcomes, Refusals
<1>5. ReaderTrail' /\ OutcomeIsOfAMoment'
  <2>1. CASE entry = Nothing /\ Return("absent")
    BY <2>1, <1>2 DEF IInv, Open, Return, ReaderTrail, OutcomeIsOfAMoment
  <2>2. CASE entry.kind = "link" /\ Return("symbolic_link")
    BY <2>2, <1>2 DEF IInv, Open, Return, ReaderTrail, OutcomeIsOfAMoment
  <2>3. CASE entry.kind = "inode" /\ Opened(entry.at)
    <3>1. /\ stood' = stood /\ fd' = entry.at /\ pc' = "fstat" /\ buffer' = buffer
          /\ outcome' = outcome /\ outcome = "pending" /\ buffer = <<>>
      BY <2>3 DEF IInv, ReaderTrail, Open, Opened, Goto
    <3>2. Stood(fd)' /\ fd' \in Files \cup Others
      BY <3>1, <2>3, <1>1, <1>2, EntryKinds DEF Stood, IsOf
    <3> QED  BY <3>1, <3>2 DEF ReaderTrail, OutcomeIsOfAMoment
  <2> QED  BY <2>1, <2>2, <2>3 DEF Open
<1> QED  BY <1>3, <1>4, <1>5 DEF IInv

LEMMA FstatStep == ASSUME IInv, Fstat PROVE IInv'
<1>1. /\ TypeOK /\ buffer = <<>> /\ pc = "fstat" /\ outcome = "pending"
      /\ fd \in Files \cup Others /\ Stood(fd) /\ fd # None
  BY KindsAssumption DEF IInv, ReaderTrail, Fstat
<1>2. fd \in Files => \E m \in stood : IsOf(m, fd) /\ m.bytes = content[fd]
  BY <1>1 DEF IInv, HistoryIsCurrent
<1>3. HistoryIsCurrent'
  BY ReaderHistory DEF IInv, Fstat, Return, Goto, directory
<1>4. fd \in Files => Len(content[fd]) \in Nat
  BY <1>1 DEF TypeOK
<1>5. TypeOK'
  BY <1>1, <1>4 DEF TypeOK, Fstat, Return, Goto, directory, Outcomes, Refusals
<1>6. ReaderTrail' /\ OutcomeIsOfAMoment'
  <2>1. CASE fd \notin Files /\ Return("not_a_regular_file")
    BY <2>1, <1>1 DEF Fstat, Return, ReaderTrail, OutcomeIsOfAMoment, Stood, IsOf
  <2>2. CASE fd \in Files /\ Len(content[fd]) > MaxBytes /\ Return("too_large")
    <3>1. PICK m \in stood : IsOf(m, fd) /\ Len(m.bytes) > MaxBytes
      BY <1>2, <2>2
    <3>2. \E i \in Files, k, n \in stood : IsOf(k, i) /\ IsOf(n, i) /\ Len(k.bytes) > MaxBytes
      BY <3>1, <2>2
    <3> QED  BY <2>2, <3>2 DEF Fstat, Return, ReaderTrail, OutcomeIsOfAMoment, IsOf
  <2>3. CASE /\ fd \in Files /\ Len(content[fd]) <= MaxBytes
             /\ size' = Len(content[fd]) /\ Goto("read") /\ UNCHANGED fd
    <3>1. BytesOf(fd)' /\ DOMAIN buffer' = {} /\ Len(buffer') = 0
      BY <1>1, <2>3 DEF Fstat, BytesOf
    <3>2. \E m \in stood : IsOf(m, fd) /\ Len(m.bytes) = size'
      BY <1>2, <2>3
    <3> QED  BY <1>1, <1>4, <2>3, <3>1, <3>2, BoundsAssumption
             DEF Fstat, Goto, ReaderTrail, OutcomeIsOfAMoment, Stood, IsOf, directory
  <2> QED  BY <2>1, <2>2, <2>3 DEF Fstat
<1> QED  BY <1>3, <1>5, <1>6 DEF IInv

\* What one turn of the loop adds to the buffer.
LEMMA Filled ==
    ASSUME NEW b \in Seq(Bytes), NEW c \in Seq(Bytes),
           NEW n \in Nat, 1 <= n, Len(b) + n <= Len(c)
    PROVE  LET d == b \o SubSeq(c, Len(b) + 1, Len(b) + n)
           IN  /\ d \in Seq(Bytes) /\ Len(d) = Len(b) + n
               /\ \A k \in 1 .. Len(b) : d[k] = b[k]
               /\ \A k \in Len(b) + 1 .. Len(b) + n : d[k] = c[k]
<1> DEFINE s == SubSeq(c, Len(b) + 1, Len(b) + n)
<1>1. /\ s \in Seq(Bytes) /\ Len(s) = n
      /\ \A k \in 1 .. n : s[k] = c[Len(b) + k]
  BY SubSeqProperties
<1>2. /\ b \o s \in Seq(Bytes) /\ Len(b \o s) = Len(b) + n
      /\ \A k \in 1 .. Len(b) + n :
            (b \o s)[k] = IF k <= Len(b) THEN b[k] ELSE s[k - Len(b)]
  BY <1>1, ConcatProperties
<1>3. ASSUME NEW k \in 1 .. Len(b)  PROVE (b \o s)[k] = b[k]
  <2>1. k <= Len(b) /\ k \in 1 .. Len(b) + n
    OBVIOUS
  <2> QED  BY <2>1, <1>2
<1>4. ASSUME NEW k \in Len(b) + 1 .. Len(b) + n  PROVE (b \o s)[k] = c[k]
  <2>1. ~(k <= Len(b)) /\ k \in 1 .. Len(b) + n /\ k - Len(b) \in 1 .. n
        /\ Len(b) + (k - Len(b)) = k
    OBVIOUS
  <2> QED  BY <2>1, <1>1, <1>2
<1> QED  BY <1>2, <1>3, <1>4

LEMMA ReadStep == ASSUME IInv, Read PROVE IInv'
<1>1. /\ TypeOK /\ HistoryIsCurrent /\ pc = "read" /\ outcome = "pending"
      /\ fd \in Files /\ Stood(fd) /\ BytesOf(fd) /\ Len(buffer) <= size /\ size <= MaxBytes
  BY DEF IInv, ReaderTrail, Read
<1>2. /\ content[fd] \in Seq(Bytes) /\ Len(content[fd]) \in Nat
      /\ buffer \in Seq(Bytes) /\ Len(buffer) \in Nat /\ size \in Nat /\ MaxBytes \in Nat
  BY <1>1, BoundsAssumption DEF TypeOK
<1>3. PICK now \in stood : IsOf(now, fd) /\ now.bytes = content[fd]
  BY <1>1 DEF HistoryIsCurrent
<1>4. HistoryIsCurrent'
  BY ReaderHistory DEF IInv, Read, Return, Goto, directory
<1>5. fd \notin cut =>
          /\ size <= Len(content[fd])
          /\ \A k \in DOMAIN buffer : k \in DOMAIN content[fd] /\ buffer[k] = content[fd][k]
  BY <1>1 DEF IInv, ReaderTrail
<1>6. CASE Len(content[fd]) - Len(buffer) <= 0 /\ UNCHANGED buffer /\ Return("read")
  <2>1. TypeOK'
    BY <1>6, <1>1 DEF TypeOK, Return, directory, Outcomes, Refusals
  <2>2. fd \notin cut => now.bytes = buffer
    <3> SUFFICES ASSUME fd \notin cut  PROVE buffer = content[fd]
      BY <1>3
    <3>1. Len(buffer) = Len(content[fd])
      BY <1>1, <1>2, <1>5, <1>6
    <3> QED  BY <1>2, <1>5, <3>1, SeqEqual
  <2>3. \A i \in Files : (BytesOf(i) => BytesOf(i)') /\ (Stood(i) => Stood(i)')
    BY <1>6 DEF Return, BytesOf, Stood, IsOf
  <2>4. OutcomeIsOfAMoment'
    <3>1. stood' = stood /\ cut' = cut /\ buffer' = buffer /\ outcome' = "read"
      BY <1>6 DEF Return
    <3>2. \E i \in Files :
             /\ Stood(i)' /\ BytesOf(i)'
             /\ i \in cut' \/ \E m \in stood' : IsOf(m, i) /\ m.bytes = buffer'
      BY <3>1, <2>2, <2>3, <1>1, <1>3
    <3>3. Len(buffer') <= MaxBytes
      BY <3>1, <1>1, <1>2
    <3> QED  BY <3>1, <3>2, <3>3 DEF OutcomeIsOfAMoment, IsOf
  <2>5. ReaderTrail'
    BY <1>6 DEF Return, ReaderTrail
  <2> QED  BY <1>4, <2>1, <2>4, <2>5 DEF IInv
<1>7. ASSUME NEW n \in 1 .. Len(content[fd]) - Len(buffer),
             n <= size + 1 - Len(buffer),
             buffer' = buffer \o SubSeq(content[fd], Len(buffer) + 1, Len(buffer) + n),
             IF Len(buffer) + n > size
             THEN Return("too_large")
             ELSE Goto("read") /\ UNCHANGED <<fd, size>>
      PROVE  IInv'
  <2>1. n \in Nat /\ 1 <= n /\ Len(buffer) + n <= Len(content[fd])
    BY <1>2
  <2>2. /\ buffer' \in Seq(Bytes) /\ Len(buffer') = Len(buffer) + n
        /\ \A k \in 1 .. Len(buffer) : buffer'[k] = buffer[k]
        /\ \A k \in Len(buffer) + 1 .. Len(buffer) + n : buffer'[k] = content[fd][k]
    BY <2>1, <1>2, <1>7, Filled
  <2>3. TypeOK'
    BY <1>7, <1>1, <2>2 DEF TypeOK, Return, Goto, directory, Outcomes, Refusals
  <2>4. CASE Len(buffer) + n > size /\ Return("too_large")
    <3>1. PICK m \in stood : IsOf(m, fd) /\ Len(m.bytes) = size
      BY <1>1 DEF IInv, ReaderTrail
    <3>2. Len(now.bytes) # Len(m.bytes)
      BY <1>2, <1>3, <2>1, <2>4, <3>1
    <3>3. \E i \in Files, k, l \in stood :
             IsOf(k, i) /\ IsOf(l, i) /\ Len(k.bytes) # Len(l.bytes)
      BY <1>1, <1>3, <3>1, <3>2
    <3>4. stood' = stood /\ outcome' = "too_large" /\ pc' = "done"
      BY <2>4 DEF Return
    <3>5. OutcomeIsOfAMoment'
      BY <3>3, <3>4 DEF OutcomeIsOfAMoment, IsOf
    <3>6. ReaderTrail'
      BY <3>4 DEF ReaderTrail
    <3> QED  BY <1>4, <2>3, <3>5, <3>6 DEF IInv
  <2>5. CASE Len(buffer) + n <= size /\ Goto("read") /\ UNCHANGED <<fd, size>>
    <3>1. /\ stood' = stood /\ cut' = cut /\ content' = content /\ pc' = "read"
          /\ outcome' = "pending" /\ fd' = fd /\ size' = size
      BY <2>5, <1>1 DEF Goto, directory
    <3>2. DOMAIN buffer' = 1 .. Len(buffer) + n /\ DOMAIN buffer = 1 .. Len(buffer)
          /\ DOMAIN content[fd] = 1 .. Len(content[fd])
      BY <1>2, <2>2
    <3>3. ASSUME NEW k \in DOMAIN buffer'
          PROVE  \E m \in stood : IsOf(m, fd) /\ k \in DOMAIN m.bytes /\ m.bytes[k] = buffer'[k]
      <4>1. CASE k \in DOMAIN buffer
        BY <4>1, <1>1, <2>2, <3>2 DEF BytesOf
      <4>2. CASE k \notin DOMAIN buffer
        BY <4>2, <3>2, <1>2, <1>3, <2>1, <2>2
      <4> QED  BY <4>1, <4>2
    <3>4. BytesOf(fd)'
      BY <3>1, <3>3 DEF BytesOf, IsOf
    <3>5. fd \notin cut =>
             /\ size <= Len(content[fd])
             /\ \A k \in DOMAIN buffer' : k \in DOMAIN content[fd] /\ buffer'[k] = content[fd][k]
      BY <1>2, <1>5, <2>1, <2>2, <3>2
    <3>6. \E m \in stood : IsOf(m, fd) /\ Len(m.bytes) = size
      BY <1>1 DEF IInv, ReaderTrail
    <3>7. ReaderTrail'
      BY <1>1, <2>2, <2>5, <3>1, <3>4, <3>5, <3>6 DEF ReaderTrail, Stood, IsOf
    <3>8. OutcomeIsOfAMoment'
      BY <3>1 DEF OutcomeIsOfAMoment
    <3> QED  BY <1>4, <2>3, <3>7, <3>8 DEF IInv
  <2> QED  BY <1>2, <1>7, <2>4, <2>5
<1> QED  BY <1>6, <1>7 DEF Read

LEMMA FailStep == ASSUME IInv, Fail PROVE IInv'
<1>1. HistoryIsCurrent'
  BY ReaderHistory DEF IInv, Fail, Return, directory
<1>2. TypeOK'
  BY DEF IInv, TypeOK, Fail, Return, directory, Outcomes, Refusals
<1> QED  BY <1>1, <1>2 DEF IInv, Fail, Return, ReaderTrail, OutcomeIsOfAMoment

\* What an edit adds to the history keeps what the reader knows, as long as a file that
\* is not counted as cut keeps the bytes it had.
LEMMA EditStep ==
    ASSUME IInv, Edited, entry' \in Entries, content' \in [Files -> Seq(Bytes)],
           cut \subseteq cut', cut' \subseteq Files,
           \A i \in Files : content'[i] # content[i] => entry' = Inode(i),
           \A i \in Files \ cut' :
              /\ Len(content[i]) <= Len(content'[i])
              /\ \A k \in DOMAIN content[i] :
                    k \in DOMAIN content'[i] /\ content'[i][k] = content[i][k]
    PROVE  IInv'
<1> DEFINE new == Moment(entry', content')
<1>1. /\ new \in Moments /\ new.entry = entry'
      /\ entry'.kind = "inode" /\ entry'.at \in Files => new.bytes = content'[entry'.at]
  BY MomentType
<1>2. /\ stood' = stood \cup {new} /\ UNCHANGED reader
      /\ pc # "done" /\ outcome = "pending" /\ TypeOK /\ HistoryIsCurrent /\ ReaderTrail
  BY DEF IInv, Edited, ReaderTrail
<1>3. TypeOK'
  BY <1>1, <1>2, BoundsAssumption DEF TypeOK, Edited, reader, Moments
<1>4. HistoryIsCurrent'
  <2>1. ASSUME NEW i \in Files, Stood(i)'
        PROVE  \E m \in stood' : IsOf(m, i) /\ m.bytes = content'[i]
    <3>1. CASE entry' = Inode(i)
      <4>1. entry'.kind = "inode" /\ entry'.at = i
        BY <3>1 DEF Inode
      <4> QED  BY <3>1, <4>1, <1>1, <1>2 DEF IsOf
    <3>2. CASE entry' # Inode(i)
      <4>1. Stood(i)
        BY <2>1, <3>2, <1>1, <1>2 DEF Stood, IsOf
      <4>2. content'[i] = content[i]
        BY <3>2
      <4> QED  BY <4>1, <4>2, <1>2 DEF HistoryIsCurrent, IsOf
    <3> QED  BY <3>1, <3>2
  <2>2. ASSUME NEW i \in Files
        PROVE  Stood(i)' => \E m \in stood' : IsOf(m, i)' /\ m.bytes = content'[i]
    BY <2>1 DEF IsOf
  <2>3. new \in stood'
    BY <1>2
  <2> QED  BY <2>2, <2>3 DEF HistoryIsCurrent
<1>5. ReaderTrail'
  <2>1. pc' = pc /\ fd' = fd /\ size' = size /\ buffer' = buffer /\ outcome' = outcome
    BY <1>2 DEF reader
  <2>2. Stood(fd) => Stood(fd)'
    BY <1>2, <2>1 DEF Stood, IsOf
  <2>3. BytesOf(fd) => BytesOf(fd)'
    BY <1>2, <2>1 DEF BytesOf, IsOf
  <2>4. CASE pc = "read"
    <3>1. fd \in Files /\ BytesOf(fd) /\ Len(buffer) <= size /\ size <= MaxBytes /\ Stood(fd)
      BY <2>4, <1>2 DEF ReaderTrail
    <3>2. \E m \in stood' : IsOf(m, fd)' /\ Len(m.bytes) = size
      BY <2>1, <2>4, <1>2 DEF ReaderTrail, IsOf
    <3>3. fd \notin cut' => fd \notin cut
      OBVIOUS
    <3>4. fd \notin cut' =>
             /\ size <= Len(content'[fd])
             /\ \A k \in DOMAIN buffer : k \in DOMAIN content'[fd] /\ buffer[k] = content'[fd][k]
      <4> SUFFICES ASSUME fd \notin cut'
                   PROVE  /\ size <= Len(content'[fd])
                          /\ \A k \in DOMAIN buffer :
                                k \in DOMAIN content'[fd] /\ buffer[k] = content'[fd][k]
        OBVIOUS
      <4>1. /\ size <= Len(content[fd])
            /\ \A k \in DOMAIN buffer : k \in DOMAIN content[fd] /\ buffer[k] = content[fd][k]
        BY <2>4, <3>3, <1>2 DEF ReaderTrail
      <4>2. /\ Len(content[fd]) <= Len(content'[fd])
            /\ \A k \in DOMAIN content[fd] :
                  k \in DOMAIN content'[fd] /\ content'[fd][k] = content[fd][k]
        BY <3>1
      <4>3. content[fd] \in Seq(Bytes) /\ content'[fd] \in Seq(Bytes) /\ size \in Nat
        BY <3>1, <1>2 DEF TypeOK
      <4>4. size <= Len(content'[fd])
        BY <4>1, <4>2, <4>3
      <4> QED  BY <4>1, <4>2, <4>4
    <3> QED  BY <2>1, <2>2, <2>3, <2>4, <3>1, <3>2, <3>4, <1>2 DEF ReaderTrail
  <2>5. CASE pc # "read"
    BY <2>1, <2>2, <2>5, <1>2 DEF ReaderTrail
  <2> QED  BY <2>4, <2>5
<1>6. OutcomeIsOfAMoment'
  BY <1>2 DEF OutcomeIsOfAMoment, reader
<1> QED  BY <1>3, <1>4, <1>5, <1>6 DEF IInv

LEMMA ReplaceStep == ASSUME IInv, Replace PROVE IInv'
<1>1. entry' \in Entries /\ content' = content /\ cut' = cut /\ Edited
  BY DEF Replace
<1>2. content \in [Files -> Seq(Bytes)] /\ cut \subseteq Files
  BY DEF IInv, TypeOK
<1>3. \A i \in Files : Len(content[i]) \in Nat
  BY <1>2
<1> QED  BY <1>1, <1>2, <1>3, EditStep

LEMMA GrowStep == ASSUME IInv, Grow PROVE IInv'
<1> DEFINE f == entry.at
<1>1. /\ entry.kind = "inode" /\ f \in Files /\ entry' = entry /\ cut' = cut /\ Edited
      /\ content \in [Files -> Seq(Bytes)] /\ cut \subseteq Files /\ entry \in Entries
  BY DEF Grow, IInv, TypeOK
<1>2. PICK b \in Bytes : content' = [content EXCEPT ![f] = Append(@, b)]
  BY DEF Grow
<1>3. /\ content'[f] \in Seq(Bytes) /\ Len(content'[f]) = Len(content[f]) + 1
      /\ \A k \in 1 .. Len(content[f]) : content'[f][k] = content[f][k]
  BY <1>1, <1>2, AppendProperties
<1>4. \A i \in Files \ {f} : content'[i] = content[i]
  BY <1>1, <1>2
<1>5. content' \in [Files -> Seq(Bytes)] /\ entry' = Inode(f)
  BY <1>1, <1>2, EntryKinds
<1>6. ASSUME NEW i \in Files
      PROVE  /\ Len(content[i]) <= Len(content'[i])
             /\ \A k \in DOMAIN content[i] :
                   k \in DOMAIN content'[i] /\ content'[i][k] = content[i][k]
  <2>1. Len(content[i]) \in Nat /\ DOMAIN content[i] = 1 .. Len(content[i])
        /\ DOMAIN content'[i] = 1 .. Len(content'[i]) /\ Len(content'[i]) \in Nat
    BY <1>1, <1>5
  <2> QED  BY <2>1, <1>3, <1>4
<1> QED  BY <1>1, <1>4, <1>5, <1>6, EditStep

LEMMA CutStep == ASSUME IInv, Cut PROVE IInv'
<1> DEFINE f == entry.at
<1>1. /\ entry.kind = "inode" /\ f \in Files /\ entry' = entry /\ cut' = cut \cup {f} /\ Edited
      /\ content \in [Files -> Seq(Bytes)] /\ cut \subseteq Files /\ entry \in Entries
  BY DEF Cut, IInv, TypeOK
<1>2. PICK n \in 0 .. Len(content[f]) - 1 : content' = [content EXCEPT ![f] = SubSeq(@, 1, n)]
  BY DEF Cut
<1>3. SubSeq(content[f], 1, n) \in Seq(Bytes)
  BY <1>1, <1>2, SubSeqProperties
<1>4. content' \in [Files -> Seq(Bytes)] /\ entry' = Inode(f)
  BY <1>1, <1>2, <1>3, EntryKinds
<1>5. \A i \in Files \ {f} : content'[i] = content[i]
  BY <1>1, <1>2
<1>6. \A i \in Files : Len(content[i]) \in Nat
  BY <1>1
<1> QED  BY <1>1, <1>4, <1>5, <1>6, EditStep

\* The inductive invariant (readBoundedFile, safe-read.ts:161-217).
THEOREM Invariance == Spec => []IInv
<1>1. Init => IInv
  <2> SUFFICES ASSUME Init  PROVE IInv
    OBVIOUS
  <2>1. content \in [Files -> Seq(Bytes)]
    <3>1. Contents \subseteq Seq(Bytes)
      BY BoundsAssumption DEF Contents
    <3> QED  BY <3>1 DEF Init
  <2>2. Moment(entry, content) \in Moments /\ Moment(entry, content).entry = entry
    BY <2>1, MomentType DEF Init
  <2>3. TypeOK
    BY <2>1, <2>2, BoundsAssumption DEF Init, TypeOK, Outcomes, Moments
  <2>4. ASSUME NEW i \in Files, Stood(i)
        PROVE  \E m \in stood : IsOf(m, i) /\ m.bytes = content[i]
    <3>1. entry = Inode(i)
      BY <2>2, <2>4 DEF Init, Stood, IsOf
    <3> QED  BY <3>1, <2>2 DEF Init, IsOf, Moment, Inode
  <2>5. HistoryIsCurrent
    BY <2>4 DEF Init, HistoryIsCurrent
  <2> QED  BY <2>3, <2>5 DEF IInv, Init, ReaderTrail, OutcomeIsOfAMoment
<1>2. IInv /\ [Next]_vars => IInv'
  <2> SUFFICES ASSUME IInv, [Next]_vars  PROVE IInv'
    OBVIOUS
  <2>1. CASE UNCHANGED vars
    BY <2>1 DEF IInv, TypeOK, HistoryIsCurrent, ReaderTrail, OutcomeIsOfAMoment, Stood, BytesOf,
                IsOf, vars, directory, reader
  <2>2. CASE Next
    BY <2>2, LstatStep, OpenStep, FstatStep, ReadStep, FailStep, ReplaceStep, GrowStep, CutStep
       DEF Next, ReadFile, Call
  <2> QED  BY <2>1, <2>2
<1> QED  BY <1>1, <1>2, PTL DEF Spec

\* Every outcome of a bounded read is true of one moment of the directory, however it is
\* edited meanwhile (safe-read.ts:161-217).
THEOREM OutcomeTheorem == Spec => []OutcomeIsOfAMoment
<1>1. IInv => OutcomeIsOfAMoment
  BY DEF IInv
<1> QED  BY <1>1, Invariance, PTL
=============================================================================
