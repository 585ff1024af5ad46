------------------------------- MODULE StrictJson -------------------------------
(***************************************************************************)
(* The scanner for duplicate members and the strict reading of a JSON      *)
(* document (strict-json.ts).                                              *)
(*                                                                         *)
(* A text is a sequence of tokens, taken one at a time: what the recursive *)
(* scanner holds on its call stack is the stack of open containers here,   *)
(* and its place in the code is what it expects next.  The text is chosen  *)
(* token by token, so every text up to MaxTokens is scanned.               *)
(***************************************************************************)
EXTENDS Integers, Sequences, FiniteSets

CONSTANTS
    Names,     \* member names, as decoded
    Spellings, \* ways to write them in a text
    Decoded,   \* the name a spelling decodes to, escapes resolved
    MaxDepth,  \* DUPLICATE_SCAN_LIMITS.maxDepth
    MaxTokens, \* the longest text (bound)
    None

ASSUME DecodedAssumption == Decoded \in [Spellings -> Names] /\ None \notin Spellings
ASSUME DepthAssumption == MaxDepth \in Nat \ {0} /\ MaxTokens \in Nat

VARIABLES
    text,    \* the tokens read so far
    ended,   \* has the scanner met the end of the text?
    stack,   \* the open objects and arrays, outermost first
    expect,  \* what may come next
    objects, \* how many objects were opened (history)
    members, \* the members read, each with the number of its object (history)
    verdict  \* accepted, a DuplicateScanCode, or "scanning"

scanner == <<text, ended, stack, expect, objects, members, verdict>>

-----------------------------------------------------------------------------
(* Tokens.  A `run' is made of the characters of numbers and literals, but *)
(* is none; a `broken' string is not closed, or holds a control character  *)
(* or an unknown escape; `other' is any other character.                   *)

Punctuation == {"object", "end_object", "array", "end_array", "comma", "colon"}
Scalars == {"string", "bare", "run"}

Tokens ==
    [kind : Punctuation \cup {"bare", "run", "broken", "other"}, spelling : {None}]
        \cup [kind : {"string"}, spelling : Spellings]

Codes == {"duplicate_member", "depth_limit_exceeded", "scan_incomplete"}

\* `number' tells the objects of a text apart; an array has number 0 and no names.
Frames == [open : {"object", "array"}, number : Nat, seen : SUBSET Names]

Expectations ==
    {"value", "first_element", "first_member", "member", "colon", "separator", "end"}

ScanTypeOK ==
    /\ text \in Seq(Tokens) /\ ended \in BOOLEAN
    /\ stack \in Seq(Frames) /\ Len(stack) <= MaxDepth
    /\ expect \in Expectations
    /\ objects \in Nat /\ members \in Seq([object : Nat, name : Names])
    /\ verdict \in {"scanning", "accepted"} \cup Codes

-----------------------------------------------------------------------------
(* Scanning. *)

Last(s) == s[Len(s)]
Front(s) == SubSeq(s, 1, Len(s) - 1)

Fail(code) == verdict' = code /\ UNCHANGED <<stack, expect, objects, members>>

Go(e) == expect' = e /\ UNCHANGED verdict

\* A value is complete: the container it stands in goes on, if there is one.
AfterValue(containers) == Go(IF containers = <<>> THEN "end" ELSE "separator")

\* Mutant of Enter: the depth is compared when a container is already open, so one
\* more than the bound is entered.
EnterTooDeep(open) ==
    \/ Len(stack) > MaxDepth /\ Fail("depth_limit_exceeded")
    \/ /\ Len(stack) <= MaxDepth
       /\ objects' = IF open = "object" THEN objects + 1 ELSE objects
       /\ stack' = Append(stack, [open |-> open, seen |-> {},
                                  number |-> IF open = "object" THEN objects + 1 ELSE 0])
       /\ Go(IF open = "object" THEN "first_member" ELSE "first_element")
       /\ UNCHANGED members

\* scanObject and scanArray, down to the opening character.
Enter(open) ==
    \/ Len(stack) >= MaxDepth /\ Fail("depth_limit_exceeded")
    \/ /\ Len(stack) < MaxDepth
       /\ objects' = IF open = "object" THEN objects + 1 ELSE objects
       /\ stack' = Append(stack, [open |-> open, seen |-> {},
                                  number |-> IF open = "object" THEN objects + 1 ELSE 0])
       /\ Go(IF open = "object" THEN "first_member" ELSE "first_element")
       /\ UNCHANGED members

Leave == stack' = Front(stack) /\ AfterValue(Front(stack)) /\ UNCHANGED <<objects, members>>

\* scanValue.
Value(t) ==
    /\ expect \in {"value", "first_element"}
    /\ \/ t.kind \in {"object", "array"} /\ Enter(t.kind)
       \/ t.kind \in Scalars /\ AfterValue(stack) /\ UNCHANGED <<stack, objects, members>>
       \/ t.kind = "end_array" /\ expect = "first_element" /\ Leave
       \/ /\ t.kind \notin Scalars \cup {"object", "array"}
          /\ t.kind = "end_array" => expect = "value"
          /\ Fail("scan_incomplete")

\* Mutant of Member: names are compared as they are spelled.
MemberAsSpelled(t) ==
    /\ expect \in {"first_member", "member"}
    /\ LET again == \E k \in DOMAIN text : text[k] = t
       IN  \/ t.kind = "string" /\ again /\ Fail("duplicate_member")
           \/ /\ t.kind = "string" /\ ~again
              /\ stack' = [stack EXCEPT ![Len(stack)].seen = @ \cup {Decoded[t.spelling]}]
              /\ members' = Append(members, [object |-> Last(stack).number,
                                             name |-> Decoded[t.spelling]])
              /\ Go("colon") /\ UNCHANGED objects
           \/ t.kind = "end_object" /\ expect = "first_member" /\ Leave
           \/ /\ t.kind # "string" /\ (t.kind = "end_object" => expect = "member")
              /\ Fail("scan_incomplete")

\* A member name: compared with those of the same object, as decoded.
Member(t) ==
    /\ expect \in {"first_member", "member"}
    /\ \/ /\ t.kind = "string" /\ Decoded[t.spelling] \in Last(stack).seen
          /\ Fail("duplicate_member")
       \/ /\ t.kind = "string" /\ Decoded[t.spelling] \notin Last(stack).seen
          /\ stack' = [stack EXCEPT ![Len(stack)].seen = @ \cup {Decoded[t.spelling]}]
          /\ members' = Append(members, [object |-> Last(stack).number,
                                         name |-> Decoded[t.spelling]])
          /\ Go("colon") /\ UNCHANGED objects
       \/ t.kind = "end_object" /\ expect = "first_member" /\ Leave
       \/ /\ t.kind # "string" /\ (t.kind = "end_object" => expect = "member")
          /\ Fail("scan_incomplete")

Colon(t) ==
    /\ expect = "colon"
    /\ \/ t.kind = "colon" /\ Go("value") /\ UNCHANGED <<stack, objects, members>>
       \/ t.kind # "colon" /\ Fail("scan_incomplete")

Closes(open) == IF open = "object" THEN "end_object" ELSE "end_array"

Separator(t) ==
    /\ expect = "separator"
    /\ \/ /\ t.kind = "comma"
          /\ Go(IF Last(stack).open = "object" THEN "member" ELSE "value")
          /\ UNCHANGED <<stack, objects, members>>
       \/ t.kind = Closes(Last(stack).open) /\ Leave
       \/ t.kind \notin {"comma", Closes(Last(stack).open)} /\ Fail("scan_incomplete")

\* run(): nothing but white space may follow the value.
Trailing(t) == expect = "end" /\ Fail("scan_incomplete")

Token ==
    /\ verdict = "scanning" /\ Len(text) < MaxTokens
    /\ \E t \in Tokens :
          /\ text' = Append(text, t)
          /\ Value(t) \/ Member(t) \/ Colon(t) \/ Separator(t) \/ Trailing(t)
    /\ UNCHANGED ended

\* The text is over, where it may be and where it may not.
EndOfText ==
    /\ verdict = "scanning"
    /\ ended' = TRUE
    /\ \/ expect = "end" /\ verdict' = "accepted"
       \/ expect # "end" /\ verdict' = "scan_incomplete"
    /\ UNCHANGED <<text, stack, expect, objects, members>>

ScanInit ==
    /\ text = <<>> /\ ended = FALSE /\ stack = <<>> /\ expect = "value"
    /\ objects = 0 /\ members = <<>> /\ verdict = "scanning"

Scan == Token \/ EndOfText

-----------------------------------------------------------------------------
(* The documents a scan is about, said without a scanner: `s' is a text. *)

Opening(s, i) == s[i].kind \in {"object", "array"}
Closing(s, i) == s[i].kind \in {"end_object", "end_array"}

\* How many containers are open before the i-th token, and the innermost of them.
Depth(s, i) == Cardinality({k \in 1 .. i - 1 : Opening(s, k)})
               - Cardinality({k \in 1 .. i - 1 : Closing(s, k)})

Encloses(s, k, i) ==
    /\ Opening(s, k) /\ Depth(s, k) = Depth(s, i) - 1
    /\ \A l \in k + 1 .. i - 1 : Depth(s, l) >= Depth(s, i)

Around(s, i) == CHOOSE k \in 1 .. i - 1 : Encloses(s, k, i)

Within(s, i, open) == Depth(s, i) > 0 /\ s[Around(s, i)].kind = open

Before(s, i) == IF i = 1 THEN "start" ELSE s[i - 1].kind

NameAt(s, i) ==
    s[i].kind = "string" /\ Within(s, i, "object") /\ Before(s, i) \in {"object", "comma"}

\* A value has just ended.
AfterOne(s, i) ==
    /\ i > 1 /\ ~NameAt(s, i - 1)
    /\ Before(s, i) \in {"end_object", "end_array"} \cup Scalars

ValueAt(s, i) ==
    \/ i = 1 \/ Before(s, i) \in {"colon", "array"}
    \/ Before(s, i) = "comma" /\ Within(s, i, "array")

\* The grammar of JSON, as what may stand at a place given what stands around it and
\* before it.  A run counts as a value: only JSON.parse can tell that it is none.
WellPlaced(s, i) ==
    \/ s[i].kind \in Scalars \cup {"object", "array"} /\ ValueAt(s, i)
    \/ NameAt(s, i)
    \/ s[i].kind = "colon" /\ i > 1 /\ NameAt(s, i - 1)
    \/ s[i].kind = "comma" /\ AfterOne(s, i) /\ Depth(s, i) > 0
    \/ /\ s[i].kind = "end_object" /\ Within(s, i, "object")
       /\ AfterOne(s, i) \/ Before(s, i) = "object"
    \/ /\ s[i].kind = "end_array" /\ Within(s, i, "array")
       /\ AfterOne(s, i) \/ Before(s, i) = "array"

\* Two members of one object have one name.
Duplicate(s, i, j) ==
    /\ i < j /\ NameAt(s, i) /\ NameAt(s, j) /\ Around(s, i) = Around(s, j)
    /\ Decoded[s[i].spelling] = Decoded[s[j].spelling]

TooDeep(s, i) == Opening(s, i) /\ Depth(s, i) >= MaxDepth

\* A place a text may be read past.
Clean(s, i) ==
    WellPlaced(s, i) /\ ~TooDeep(s, i) /\ ~\E k \in DOMAIN s : Duplicate(s, k, i)

Complete(s) ==
    /\ s # <<>> /\ Depth(s, Len(s) + 1) = 0
    /\ s[Len(s)].kind \in Scalars \cup {"end_object", "end_array"}

-----------------------------------------------------------------------------
(* Reading a document: parseStrictJson, given the bytes of a text. *)

IsJson(s) == Complete(s) /\ \A i \in DOMAIN s : WellPlaced(s, i) /\ s[i].kind # "run"

\* What it refuses the bytes for, or `parsed'.
Parsed(validUtf8) ==
    IF ~validUtf8 THEN "invalid_utf8"
    ELSE IF verdict # "accepted" THEN verdict
    ELSE IF ~IsJson(text) THEN "not_json" ELSE "parsed"

-----------------------------------------------------------------------------
(* Properties. *)

\* The scanner decides exactly what it is for, on every text: it refuses a text for a
\* duplicate member when the last name read is one of its object already, by whatever
\* spelling, for its depth when the last container opened is one too many, and as
\* incomplete when it is no JSON text whatever follows; and it accepts when there is no
\* such place (Scanner, strict-json.ts:57-226).  So parseStrictJson refuses a JSON document
\* (strict-json.ts:287-297) for ambiguity or depth only.
ScanIsExact ==
    LET n == Len(text)
        duplicate == \E k \in DOMAIN text : Duplicate(text, k, n)
    IN  /\ \A i \in 1 .. n - 1 : Clean(text, i)
        /\ verdict = "scanning" /\ n > 0 => Clean(text, n)
        /\ verdict = "accepted" => Complete(text) /\ Clean(text, n)
        /\ verdict = "duplicate_member" => WellPlaced(text, n) /\ duplicate
        /\ verdict = "depth_limit_exceeded" => WellPlaced(text, n) /\ TooDeep(text, n)
        /\ verdict = "scan_incomplete" =>
              IF ended THEN ~Complete(text) ELSE ~WellPlaced(text, n)
        /\ verdict # "scanning" =>
              (Parsed(TRUE) = "parsed"
                 <=> IsJson(text) /\ \A i \in DOMAIN text : Clean(text, i))

\* What is expected, e, fits the innermost of the open containers, c.
Fits(e, c) ==
    /\ e \in {"first_member", "member", "colon"} => c # <<>> /\ Last(c).open = "object"
    /\ e = "first_element" => c # <<>> /\ Last(c).open = "array"
    /\ e = "separator" => c # <<>>
    /\ e = "end" => c = <<>>

ExpectFits == Fits(expect, stack)

\* An object's frame holds exactly the names read of that object.
SeenIsRead ==
    \A i \in DOMAIN stack :
        /\ stack[i].number <= objects
        /\ stack[i].open = "object" =>
              /\ stack[i].number > 0
              /\ \A n \in Names : n \in stack[i].seen <=>
                    \E k \in DOMAIN members :
                        members[k] = [object |-> stack[i].number, name |-> n]

\* Objects are numbered apart.
NumberedApart ==
    \A i, j \in DOMAIN stack :
        stack[i].open = "object" /\ stack[j].open = "object" /\ stack[i].number = stack[j].number
            => i = j

ScanTrail ==
    /\ verdict = "scanning" => ExpectFits
    /\ SeenIsRead /\ NumberedApart
    /\ \A k \in DOMAIN members : members[k].object <= objects

\* The names read of the object opened at place k of the text s.
ReadIn(s, k) ==
    {Decoded[s[m].spelling] : m \in {l \in DOMAIN s : NameAt(s, l) /\ Around(s, l) = k}}

\* The frame f, the j-th of the stack, is of the container opened at place k of the text,
\* which is open still, and holds the names read of it.
Holds(s, k, f, j) ==
    /\ s[k].kind = f.open /\ Depth(s, k) = j - 1
    /\ \A l \in k + 1 .. Len(s) + 1 : Depth(s, l) >= j
    /\ f.open = "object" => f.seen = ReadIn(s, k)

\* What the scan has found of the text s that it has read, when the frames of the open
\* containers are c.
Scanned(s, c) ==
    /\ Depth(s, Len(s) + 1) = Len(c)
    /\ \A j \in DOMAIN c : \E k \in DOMAIN s : Holds(s, k, c[j], j)
    /\ \A i \in DOMAIN s :
          /\ Depth(s, i) \in Nat
          /\ Depth(s, i) > 0 => \E k \in 1 .. i - 1 : Encloses(s, k, i)
    /\ \A i \in DOMAIN s : Clean(s, i)

\* What comes next is what the text read so far, s, and its open containers, c, let stand
\* there.
ExpectFollows(e, s, c) ==
    LET n == Len(s)
    IN  /\ e = "value" =>
              \/ n = 0 \/ s[n].kind = "colon"
              \/ s[n].kind = "comma" /\ c # <<>> /\ Last(c).open = "array"
        /\ e # "value" => n > 0
        /\ e = "first_element" => s[n].kind = "array"
        /\ e = "first_member" => s[n].kind = "object"
        /\ e = "member" => s[n].kind = "comma"
        /\ e = "colon" => NameAt(s, n)
        /\ e \in {"separator", "end"} => AfterOne(s, n + 1)

\* What a scan that goes on knows of its text, said of the text alone.
TextInv ==
    verdict = "scanning" =>
        ~ended /\ Scanned(text, stack) /\ ExpectFollows(expect, text, stack)

\* No object of what was read has two members that decode to one name.
Unambiguous ==
    \A j, k \in DOMAIN members : members[j] = members[k] => j = k
=============================================================================
