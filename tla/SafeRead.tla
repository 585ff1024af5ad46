-------------------------------- MODULE SafeRead --------------------------------
(***************************************************************************)
(* One bounded read of a file handed over by someone else (readBoundedFile *)
(* of flow/safe-read.ts), one action per system call, while the directory  *)
(* may be edited between any two of them: the name may be removed or made  *)
(* to stand for another file, a symbolic link, a pipe or a directory, and  *)
(* the file under it may grow, or be cut and written again.                *)
(*                                                                         *)
(* VerifyEvidence takes such a read for one atomic step.  This module says *)
(* when that is justified: see OutcomeIsOfAMoment.  The platform is one    *)
(* that defines O_NOFOLLOW and O_NONBLOCK.                                 *)
(***************************************************************************)
EXTENDS Integers, Sequences, FiniteSets

CONSTANTS
    Files,     \* regular files, by inode
    Others,    \* what is neither a regular file nor a link
    Pipes,     \* those of Others that are named pipes nobody writes to
    Bytes,     \* what a file is made of
    MaxBytes,  \* the caller's bound
    MaxLength, \* the longest content the environment writes (bound)
    MaxEdits,  \* how often the directory is edited during the read (bound)
    None

ASSUME KindsAssumption ==
    /\ Pipes \subseteq Others
    /\ Files \cap Others = {} /\ None \notin Files \cup Others
ASSUME BoundsAssumption == MaxBytes \in Nat /\ MaxLength \in Nat /\ MaxEdits \in Nat

VARIABLES
    entry,    \* what the name stands for
    content,  \* the bytes of each regular file
    edits,    \* edits so far
    pc,       \* the next system call
    fd,       \* the file the descriptor is open on
    size,     \* its size, as fstat gave it
    buffer,   \* the filled region
    outcome,  \* what the read reports
    stood,    \* what the name stood for since the read began (history)
    cut       \* the files that were cut since then (history)

directory == <<entry, content, edits>>
reader == <<pc, fd, size, buffer, outcome>>
vars == <<directory, reader, stood, cut>>

-----------------------------------------------------------------------------
(* Values. *)

Link(target) == [kind |-> "link", at |-> target]
Inode(i) == [kind |-> "inode", at |-> i]
Nothing == [kind |-> "nothing", at |-> None]

Entries == {Nothing} \cup {Link(t) : t \in Files \cup {None}} \cup {Inode(i) : i \in Files \cup Others}

Refusals == {"symbolic_link", "not_a_regular_file", "too_large", "unreadable"}

\* The result of a read; `pending' until there is one.
Outcomes == {"pending", "read", "absent"} \cup Refusals

\* What the name stands for at one moment, with the bytes of the file if it is one.
Moment(e, c) ==
    [entry |-> e, bytes |-> IF e.kind = "inode" /\ e.at \in Files THEN c[e.at] ELSE <<>>]

TypeOK ==
    /\ entry \in Entries
    /\ content \in [Files -> Seq(Bytes)]
    /\ edits \in 0 .. MaxEdits
    /\ pc \in {"lstat", "open", "fstat", "read", "done"}
    /\ fd \in Files \cup Others \cup {None}
    /\ size \in Nat
    /\ buffer \in Seq(Bytes)
    /\ outcome \in Outcomes
    /\ stood \subseteq [entry : Entries, bytes : Seq(Bytes)]
    /\ cut \subseteq Files

-----------------------------------------------------------------------------
(* The read. *)

\* The function returns: `finally' closes the descriptor.
Return(result) ==
    /\ outcome' = result /\ pc' = "done" /\ fd' = None
    /\ UNCHANGED <<directory, size, stood, cut>>

Goto(p) == pc' = p /\ UNCHANGED <<directory, outcome, stood, cut>>

Lstat ==
    /\ pc = "lstat" /\ UNCHANGED buffer
    /\ \/ entry = Nothing /\ Return("absent")
       \/ entry.kind = "link" /\ Return("symbolic_link")
       \/ entry.kind = "inode" /\ entry.at \in Others /\ Return("not_a_regular_file")
       \/ entry.kind = "inode" /\ entry.at \in Files /\ Goto("open") /\ UNCHANGED <<fd, size>>

Opened(i) == fd' = i /\ Goto("fstat") /\ UNCHANGED size

\* Mutant of Open: a name that is a link by now is followed, without O_NOFOLLOW.
OpenFollowing ==
    /\ pc = "open" /\ UNCHANGED buffer
    /\ \/ entry = Nothing /\ Return("absent")
       \/ entry.kind = "link" /\ entry.at = None /\ Return("absent")
       \/ entry.kind # "nothing" /\ entry.at # None /\ Opened(entry.at)

\* Mutant of Open: without O_NONBLOCK the open of a pipe waits for a writer.
OpenWaiting ==
    /\ pc = "open" /\ UNCHANGED buffer
    /\ \/ entry = Nothing /\ Return("absent")
       \/ entry.kind = "link" /\ Return("symbolic_link")
       \/ entry.kind = "inode" /\ entry.at \notin Pipes /\ Opened(entry.at)

\* openSync(path, OPEN_FLAGS): O_NOFOLLOW gives ELOOP for a link, and O_NONBLOCK opens
\* a pipe at once.
Open ==
    /\ pc = "open" /\ UNCHANGED buffer
    /\ \/ entry = Nothing /\ Return("absent")
       \/ entry.kind = "link" /\ Return("symbolic_link")
       \/ entry.kind = "inode" /\ Opened(entry.at)

\* The descriptor is inspected, not the name.
Fstat ==
    /\ pc = "fstat" /\ UNCHANGED buffer
    /\ \/ fd \notin Files /\ Return("not_a_regular_file")
       \/ fd \in Files /\ Len(content[fd]) > MaxBytes /\ Return("too_large")
       \/ /\ fd \in Files /\ Len(content[fd]) <= MaxBytes
          /\ size' = Len(content[fd])
          /\ Goto("read") /\ UNCHANGED fd

\* Mutant of Read: a short read is taken for the end of the file.
ReadOnce ==
    /\ pc = "read"
    /\ LET left == Len(content[fd]) - Len(buffer)
       IN  \/ left <= 0 /\ UNCHANGED buffer /\ Return("read")
           \/ \E n \in 1 .. left :
                 /\ n <= size + 1 - Len(buffer)
                 /\ buffer' = buffer \o SubSeq(content[fd], Len(buffer) + 1, Len(buffer) + n)
                 /\ Return(IF Len(buffer) + n > size THEN "too_large" ELSE "read")

\* Mutant of Read: the file is followed to its end, with room for all there is.
ReadFollowing ==
    /\ pc = "read"
    /\ LET left == Len(content[fd]) - Len(buffer)
       IN  \/ left <= 0 /\ UNCHANGED buffer /\ Return("read")
           \/ \E n \in 1 .. left :
                 /\ buffer' = buffer \o SubSeq(content[fd], Len(buffer) + 1, Len(buffer) + n)
                 /\ Goto("read") /\ UNCHANGED <<fd, size>>

\* One turn of the loop.  readSync returns some of the bytes there are, as many as the
\* buffer of one byte more than the size has room for, and none at the end of the file.
Read ==
    /\ pc = "read"
    /\ LET left == Len(content[fd]) - Len(buffer)
       IN  \/ left <= 0 /\ UNCHANGED buffer /\ Return("read")
           \/ \E n \in 1 .. left :
                 /\ n <= size + 1 - Len(buffer)
                 /\ buffer' = buffer \o SubSeq(content[fd], Len(buffer) + 1, Len(buffer) + n)
                 /\ IF Len(buffer) + n > size
                    THEN Return("too_large")
                    ELSE Goto("read") /\ UNCHANGED <<fd, size>>

\* A call may fail in a way that is not ENOENT: no permission, an I/O error.
Fail == pc # "done" /\ Return("unreadable") /\ UNCHANGED buffer

Call == Lstat \/ Open \/ Fstat \/ Read

ReadFile == Call \/ Fail

-----------------------------------------------------------------------------
(* The one who holds the directory. *)

Edited ==
    /\ pc # "done" /\ edits < MaxEdits /\ edits' = edits + 1
    /\ stood' = stood \cup {Moment(entry', content')}
    /\ UNCHANGED reader

\* The name is removed, or another one is renamed over it.
Replace == \E e \in Entries \ {entry} : entry' = e /\ UNCHANGED <<content, cut>> /\ Edited

\* The file under the name is opened by its name and grows, ...
Grow ==
    /\ entry.kind = "inode" /\ entry.at \in Files
    /\ Len(content[entry.at]) < MaxLength
    /\ \E b \in Bytes : content' = [content EXCEPT ![entry.at] = Append(@, b)]
    /\ UNCHANGED <<entry, cut>> /\ Edited

\* ... or is cut, to be written again.
Cut ==
    /\ entry.kind = "inode" /\ entry.at \in Files
    /\ \E n \in 0 .. Len(content[entry.at]) - 1 :
          content' = [content EXCEPT ![entry.at] = SubSeq(@, 1, n)]
    /\ cut' = cut \cup {entry.at}
    /\ UNCHANGED entry /\ Edited

-----------------------------------------------------------------------------

Contents == UNION {[1 .. n -> Bytes] : n \in 0 .. MaxLength}

\* The caller asks for a name; it is called with nothing open.
Init ==
    /\ entry \in Entries /\ content \in [Files -> Contents] /\ edits = 0
    /\ pc = "lstat" /\ fd = None /\ size = 0 /\ buffer = <<>> /\ outcome = "pending"
    /\ stood = {Moment(entry, content)} /\ cut = {}

Next == ReadFile \/ Replace \/ Grow \/ Cut

Spec == Init /\ [][Next]_vars

\* The read is a run of synchronous calls: it goes on whatever the directory does, and
\* need not be saved by a failure.
FairSpec == Spec /\ WF_vars(Call)

-----------------------------------------------------------------------------
(* Properties. *)

IsOf(m, i) == m.entry = Inode(i)

\* The name itself stood for i since the read began.
Stood(i) == \E m \in stood : IsOf(m, i)

\* Each byte of the buffer stands where i had it at a moment.
BytesOf(i) ==
    \A k \in DOMAIN buffer :
        \E m \in stood : IsOf(m, i) /\ k \in DOMAIN m.bytes /\ m.bytes[k] = buffer[k]

\* Every outcome is true of one moment of the read, though the name and the file may
\* change between any two calls.  Bytes are within the bound, of one regular file that
\* stood under the name (no link is followed, no unfilled memory is returned), and whole
\* unless that file was cut meanwhile; `absent' means that the name did not exist; a link
\* or something else that was refused had stood there; and a file refused for its size
\* was too large or had changed its length (readBoundedFile, safe-read.ts:161-217).
OutcomeIsOfAMoment ==
    /\ outcome = "read" =>
          /\ Len(buffer) <= MaxBytes
          /\ \E i \in Files :
                /\ Stood(i) /\ BytesOf(i)
                /\ i \in cut \/ \E m \in stood : IsOf(m, i) /\ m.bytes = buffer
    /\ outcome = "absent" => \E m \in stood : m.entry = Nothing
    /\ outcome = "symbolic_link" => \E m \in stood : m.entry.kind = "link"
    /\ outcome = "not_a_regular_file" => \E m \in stood, i \in Others : IsOf(m, i)
    /\ outcome = "too_large" =>
          \E i \in Files, m, k \in stood :
             /\ IsOf(m, i) /\ IsOf(k, i)
             /\ Len(m.bytes) > MaxBytes \/ Len(m.bytes) # Len(k.bytes)

\* What the name stands for now is of the history, and so is what any file that stood
\* under it holds now: it is edited by its name only.
HistoryIsCurrent ==
    /\ Moment(entry, content) \in stood
    /\ \A i \in Files : Stood(i) => \E m \in stood : IsOf(m, i) /\ m.bytes = content[i]

\* What the reader knows between two calls: the open file stood under the name, had the
\* size at a moment, and has it still unless it was cut; what was read is where it was.
ReaderTrail ==
    /\ pc \in {"lstat", "open", "fstat"} => buffer = <<>>
    /\ pc \in {"fstat", "read"} => fd \in Files \cup Others /\ Stood(fd)
    /\ pc # "done" <=> outcome = "pending"
    /\ pc = "read" =>
          /\ fd \in Files /\ BytesOf(fd)
          /\ Len(buffer) <= size /\ size <= MaxBytes
          /\ \E m \in stood : IsOf(m, fd) /\ Len(m.bytes) = size
          /\ fd \notin cut =>
                /\ size <= Len(content[fd])
                /\ \A k \in DOMAIN buffer : k \in DOMAIN content[fd] /\ buffer[k] = content[fd][k]

\* The inductive invariant (proved in SafeRead_proofs): the types, the history, what the
\* reader knows, and what it reports of the path it was asked for (safe-read.ts:161-217).
IInv == TypeOK /\ HistoryIsCurrent /\ ReaderTrail /\ OutcomeIsOfAMoment

\* Whatever the name is made to stand for meanwhile, a read ends: a pipe with no writer
\* is not waited for (the flags of safe-read.ts:124-130).  That a growing file is not
\* followed past its size is OutcomeIsOfAMoment's to say: here it grows MaxEdits times.
ReadEnds == <>(pc = "done")
=============================================================================
