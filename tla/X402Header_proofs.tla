---------------------------- MODULE X402Header_proofs ----------------------------
(***************************************************************************)
(* What is proved of the scanner and of the capture for any names, any     *)
(* spellings, any depth, any text and any issues a schema may report.      *)
(***************************************************************************)
EXTENDS X402Header, SequenceTheorems, FiniteSetTheorems, TLAPS

ScanInv == ScanTypeOK /\ ScanTrail /\ Unambiguous

(***************************************************************************)
(* The scanner.                                                            *)
(***************************************************************************)

LEMMA FrontProperties ==
    ASSUME NEW S, NEW s \in Seq(S), s # <<>>
    PROVE  /\ Front(s) \in Seq(S) /\ Len(Front(s)) = Len(s) - 1
           /\ Len(s) \in Nat \ {0} /\ Last(s) \in S /\ Last(s) = s[Len(s)]
           /\ \A i \in 1 .. Len(s) - 1 : Front(s)[i] = s[i]
<1>1. Len(s) \in Nat \ {0} /\ Last(s) \in S
  BY EmptySeq DEF Last
<1> PICK n \in Nat : Len(s) = n + 1
  BY <1>1
<1>2. n = Len(s) - 1 /\ \A i \in 1 .. n : s[i] \in S
  BY <1>1
<1>3. /\ SubSeq(s, 1, n) \in Seq(S)
      /\ Len(SubSeq(s, 1, n)) = IF 1 <= n THEN n - 1 + 1 ELSE 0
      /\ \A i \in 1 .. n - 1 + 1 : SubSeq(s, 1, n)[i] = s[1 + i - 1]
  BY <1>2, SubSeqProperties
<1>4. n - 1 + 1 = n /\ \A i \in 1 .. n : 1 + i - 1 = i
  OBVIOUS
<1>5. Len(SubSeq(s, 1, n)) = n
  BY <1>3, <1>4
<1>6. \A i \in 1 .. n : SubSeq(s, 1, n)[i] = s[i]
  BY <1>3, <1>4
<1> QED  BY <1>1, <1>2, <1>3, <1>5, <1>6 DEF Front, Last

\* A failing step and one that ends the text keep everything but the verdict.
LEMMA FailStep ==
    ASSUME ScanInv, UNCHANGED <<stack, expect, objects, members>>,
           text' \in Seq(Tokens), ended' \in BOOLEAN, verdict' \in {"accepted"} \cup Codes
    PROVE  ScanInv'
<1>1. ScanTypeOK'
  BY DEF ScanInv, ScanTypeOK
<1>2. ScanTrail'
  BY DEF ScanInv, ScanTrail, Codes, SeenIsRead, NumberedApart
<1>3. Unambiguous'
  BY DEF ScanInv, Unambiguous
<1> QED  BY <1>1, <1>2, <1>3 DEF ScanInv

\* Only what is expected next changes, to fit the innermost container.
LEMMA GoStep ==
    ASSUME ScanInv, UNCHANGED <<stack, objects, members, verdict, ended>>, verdict = "scanning",
           text' \in Seq(Tokens), expect' \in Expectations, ExpectFits'
    PROVE  ScanInv'
<1>1. ScanTypeOK'
  BY DEF ScanInv, ScanTypeOK
<1>2. ScanTrail'
  BY DEF ScanInv, ScanTrail, SeenIsRead, NumberedApart
<1>3. Unambiguous'
  BY DEF ScanInv, Unambiguous
<1> QED  BY <1>1, <1>2, <1>3 DEF ScanInv

LEMMA LeaveStep ==
    ASSUME ScanInv, Leave, stack # <<>>, verdict = "scanning", ended' = ended,
           text' \in Seq(Tokens)
    PROVE  ScanInv'
<1>1. /\ stack \in Seq(Frames) /\ Len(stack) <= MaxDepth /\ MaxDepth \in Nat
      /\ stack' = Front(stack) /\ UNCHANGED <<objects, members, verdict>>
      /\ expect' = IF stack' = <<>> THEN "end" ELSE "separator"
  BY DepthAssumption DEF ScanInv, ScanTypeOK, Leave, AfterValue, Go
<1>2. /\ stack' \in Seq(Frames) /\ Len(stack') = Len(stack) - 1 /\ Len(stack) \in Nat \ {0}
      /\ \A i \in 1 .. Len(stack) - 1 : stack'[i] = stack[i]
  BY <1>1, FrontProperties
<1>3. DOMAIN stack' = 1 .. Len(stack) - 1 /\ DOMAIN stack = 1 .. Len(stack)
  BY <1>1, <1>2
<1>4. Len(stack') <= MaxDepth
  BY <1>1, <1>2
<1>5. ScanTypeOK'
  BY <1>1, <1>2, <1>4 DEF ScanInv, ScanTypeOK, Expectations
<1>6. \A i \in DOMAIN stack' : i \in DOMAIN stack /\ stack'[i] = stack[i]
  BY <1>2, <1>3
<1>7. ScanTrail'
  <2>1. SeenIsRead'
    BY <1>1, <1>6 DEF ScanInv, ScanTrail, SeenIsRead
  <2>2. NumberedApart'
    BY <1>6 DEF ScanInv, ScanTrail, NumberedApart
  <2>3. ExpectFits'
    BY <1>1 DEF ExpectFits, Fits
  <2> QED  BY <1>1, <2>1, <2>2, <2>3 DEF ScanInv, ScanTrail
<1>8. Unambiguous'
  BY <1>1 DEF ScanInv, Unambiguous
<1> QED  BY <1>5, <1>7, <1>8 DEF ScanInv

\* A frame whose names alone change.
LEMMA SeenFrame ==
    ASSUME NEW f \in Frames, NEW S \in SUBSET Names
    PROVE  /\ [f EXCEPT !.seen = S] \in Frames
           /\ [f EXCEPT !.seen = S].open = f.open
           /\ [f EXCEPT !.seen = S].number = f.number
           /\ [f EXCEPT !.seen = S].seen = S
  BY DEF Frames

LEMMA EnterStep ==
    ASSUME ScanInv, NEW open \in {"object", "array"}, Enter(open), verdict = "scanning",
           ended' = ended, text' \in Seq(Tokens)
    PROVE  ScanInv'
<1>1. CASE Len(stack) >= MaxDepth /\ Fail("depth_limit_exceeded")
  BY <1>1, FailStep DEF Fail, Codes, ScanInv, ScanTypeOK
<1>3. Len(stack) \in Nat /\ MaxDepth \in Nat
  BY DepthAssumption DEF ScanInv, ScanTypeOK
<1>2. CASE Len(stack) < MaxDepth
  <2> DEFINE number == IF open = "object" THEN objects + 1 ELSE 0
             top == Len(stack) + 1
  <2> PICK new : new = [open |-> open, seen |-> {}, number |-> number]
    OBVIOUS
  <2>1. /\ objects' = (IF open = "object" THEN objects + 1 ELSE objects)
        /\ stack' = Append(stack, new) /\ members' = members /\ verdict' = verdict
        /\ expect' = IF open = "object" THEN "first_member" ELSE "first_element"
    BY <1>2, <1>3 DEF Enter, Go
  <2>2. /\ stack \in Seq(Frames) /\ Len(stack) \in Nat /\ MaxDepth \in Nat /\ objects \in Nat
        /\ members \in Seq([object : Nat, name : Names])
    BY DepthAssumption DEF ScanInv, ScanTypeOK
  <2>3. new \in Frames
    BY <2>2 DEF Frames
  <2>4. /\ stack' \in Seq(Frames) /\ Len(stack') = top
        /\ \A i \in 1 .. Len(stack) : stack'[i] = stack[i]
        /\ stack'[top] = new
    BY <2>1, <2>2, <2>3, AppendProperties
  <2>5. /\ DOMAIN stack' = 1 .. top /\ DOMAIN stack = 1 .. Len(stack)
        /\ Last(stack') = new /\ stack' # <<>>
    BY <2>2, <2>4 DEF Last
  <2>6. ScanTypeOK'
    BY <1>2, <2>1, <2>2, <2>4 DEF ScanInv, ScanTypeOK, Expectations
  <2>7. objects' \in Nat /\ objects <= objects' /\ number \in Nat /\ number <= objects'
    <3>1. objects' \in Nat /\ objects <= objects'
      BY <2>1, <2>2
    <3>2. number \in Nat
      BY <2>2
    <3>3. open = "object" => number = objects'
      BY <2>1
    <3>4. open # "object" => number = 0
      OBVIOUS
    <3>5. number <= objects'
      BY <3>1, <3>3, <3>4
    <3> QED  BY <3>1, <3>2, <3>5
  <2>8. \A k \in DOMAIN members : members[k].object \in Nat /\ members[k].object <= objects
    <3>1. \A k \in DOMAIN members : members[k] \in [object : Nat, name : Names]
      BY <2>2, ElementOfSeq, LenProperties
    <3> QED  BY <3>1 DEF ScanInv, ScanTrail
  <2>9. \A i \in DOMAIN stack : stack[i].number \in Nat /\ stack[i].number <= objects
    <3>1. \A i \in DOMAIN stack : stack[i] \in Frames
      BY <2>2
    <3> QED  BY <3>1 DEF ScanInv, ScanTrail, SeenIsRead, Frames
  <2>10. /\ new.open = open /\ new.seen = {} /\ new.number = number
         /\ open = "object" => number = objects + 1
    BY <2>2
  <2>11. \A i \in DOMAIN stack' :
            i = top \/ (i \in DOMAIN stack /\ stack'[i] = stack[i])
    BY <2>2, <2>4, <2>5
  <2>12. SeenIsRead'
    <3> SUFFICES ASSUME NEW i \in DOMAIN stack'
                 PROVE  /\ stack'[i].number <= objects'
                        /\ stack'[i].open = "object" =>
                              /\ stack'[i].number > 0
                              /\ \A n \in Names : n \in stack'[i].seen <=>
                                    \E k \in DOMAIN members :
                                       members[k] = [object |-> stack'[i].number, name |-> n]
      BY <2>1 DEF SeenIsRead
    <3>1. CASE i = top
      <4>1. stack'[i] = new
        BY <3>1, <2>4
      <4>2. open = "object" => \A n \in Names, k \in DOMAIN members :
                members[k] # [object |-> number, name |-> n]
        BY <2>2, <2>8, <2>10
      <4>3. open = "object" => number > 0
        BY <2>2, <2>10
      <4> QED  BY <4>1, <4>2, <4>3, <2>7, <2>10
    <3>2. CASE i \in DOMAIN stack /\ stack'[i] = stack[i]
      <4>1. stack[i].number <= objects'
        BY <3>2, <2>2, <2>7, <2>9
      <4> QED  BY <3>2, <4>1 DEF ScanInv, ScanTrail, SeenIsRead
    <3> QED  BY <3>1, <3>2, <2>11
  <2>13. NumberedApart'
    <3> SUFFICES ASSUME NEW i \in DOMAIN stack', NEW j \in DOMAIN stack',
                        stack'[i].open = "object", stack'[j].open = "object",
                        stack'[i].number = stack'[j].number
                 PROVE  i = j
      BY DEF NumberedApart
    <3>1. CASE i = top /\ j # top
      BY <3>1, <2>2, <2>4, <2>9, <2>10, <2>11
    <3>2. CASE j = top /\ i # top
      BY <3>2, <2>2, <2>4, <2>9, <2>10, <2>11
    <3>3. CASE i # top /\ j # top
      BY <3>3, <2>11 DEF ScanInv, ScanTrail, NumberedApart
    <3> QED  BY <3>1, <3>2, <3>3
  <2>14. \A k \in DOMAIN members : members[k].object <= objects'
    BY <2>2, <2>7, <2>8
  <2>15. ExpectFits'
    BY <2>1, <2>5, <2>10 DEF ExpectFits, Fits
  <2>16. ScanTrail'
    BY <2>1, <2>12, <2>13, <2>14, <2>15 DEF ScanTrail
  <2>17. Unambiguous'
    BY <2>1 DEF ScanInv, Unambiguous
  <2> QED  BY <2>6, <2>16, <2>17 DEF ScanInv
<1> QED  BY <1>1, <1>2 DEF Enter

\* A new name of the innermost object.
LEMMA NameStep ==
    ASSUME ScanInv, verdict = "scanning", stack # <<>>, Last(stack).open = "object",
           NEW n \in Names, n \notin Last(stack).seen,
           stack' = [stack EXCEPT ![Len(stack)].seen = @ \cup {n}],
           members' = Append(members, [object |-> Last(stack).number, name |-> n]),
           expect' = "colon", UNCHANGED <<verdict, objects, ended>>, text' \in Seq(Tokens)
    PROVE  ScanInv'
<1> DEFINE top == Len(stack)
           f == Last(stack)
           Pair(o, m) == [object |-> o, name |-> m]
           Read(o, m) == \E k \in DOMAIN members : members[k] = Pair(o, m)
<1>1. /\ stack \in Seq(Frames) /\ top \in Nat \ {0} /\ f \in Frames /\ f = stack[top]
      /\ members \in Seq([object : Nat, name : Names]) /\ objects \in Nat
      /\ DOMAIN stack = 1 .. top /\ top \in DOMAIN stack
  BY FrontProperties DEF ScanInv, ScanTypeOK
<1>2. f.open = "object" /\ f.number \in Nat /\ f.seen \subseteq Names
  BY <1>1 DEF Frames
<1>3. PICK g : g = [f EXCEPT !.seen = f.seen \cup {n}]
  OBVIOUS
<1>4. g \in Frames /\ g.open = f.open /\ g.number = f.number /\ g.seen = f.seen \cup {n}
  <2>1. f.seen \cup {n} \in SUBSET Names
    BY <1>2
  <2> QED  BY <1>1, <1>3, <2>1, SeenFrame
<1>24. stack' = [stack EXCEPT ![top] = g]
  BY <1>1, <1>3
<1>5. /\ stack' \in Seq(Frames) /\ Len(stack') = top /\ DOMAIN stack' = DOMAIN stack
      /\ \A i \in DOMAIN stack : i # top => stack'[i] = stack[i]
      /\ stack'[top] = g
  <2>1. stack' \in [1 .. top -> Frames]
    <3>1. stack \in [1 .. top -> Frames]
      BY <1>1
    <3> QED  BY <3>1, <1>1, <1>4, <1>24
  <2>2. stack' \in Seq(Frames) /\ Len(stack') = top
    BY <2>1, <1>1
  <2> QED  BY <2>1, <2>2, <1>1, <1>24
<1>6. /\ stack'[top].open = "object" /\ stack'[top].number = f.number
      /\ stack'[top].seen = f.seen \cup {n}
  BY <1>2, <1>4, <1>5
<1>7. Pair(f.number, n) \in [object : Nat, name : Names]
  BY <1>2
<1>8. members' = Append(members, Pair(f.number, n))
  OBVIOUS
<1>9. /\ f.number <= objects /\ f.number > 0
      /\ \A m \in Names : m \in f.seen <=> Read(f.number, m)
  BY <1>1 DEF ScanInv, ScanTrail, SeenIsRead
<1>10. ~Read(f.number, n)
  BY <1>9
<1>11. \A o, m : Pair(f.number, n) = Pair(o, m) <=> f.number = o /\ n = m
  OBVIOUS
<1> HIDE DEF Pair
<1>12. /\ members' \in Seq([object : Nat, name : Names]) /\ Len(members') = Len(members) + 1
       /\ \A k \in 1 .. Len(members) : members'[k] = members[k]
       /\ members'[Len(members) + 1] = Pair(f.number, n)
  BY <1>1, <1>7, <1>8, AppendProperties
<1>13. /\ DOMAIN members' = 1 .. Len(members) + 1 /\ DOMAIN members = 1 .. Len(members)
       /\ Len(members) \in Nat
  BY <1>1, <1>12
<1>14. \A k \in DOMAIN members' :
          \/ k \in DOMAIN members /\ members'[k] = members[k]
          \/ k = Len(members) + 1 /\ members'[k] = Pair(f.number, n)
  BY <1>12, <1>13
<1>15. /\ \A k \in DOMAIN members : k \in DOMAIN members' /\ members'[k] = members[k]
       /\ Len(members) + 1 \in DOMAIN members'
  BY <1>12, <1>13
<1>16. \A o, m : (\E k \in DOMAIN members' : members'[k] = Pair(o, m)) <=>
                 Read(o, m) \/ Pair(f.number, n) = Pair(o, m)
  BY <1>12, <1>14, <1>15
<1> HIDE DEF Read
<1>17. ScanTypeOK'
  BY <1>1, <1>5, <1>12 DEF ScanInv, ScanTypeOK, Expectations
<1>18. SeenIsRead'
  <2> SUFFICES ASSUME NEW i \in DOMAIN stack
               PROVE  /\ stack'[i].number <= objects
                      /\ stack'[i].open = "object" =>
                            /\ stack'[i].number > 0
                            /\ \A m \in Names : m \in stack'[i].seen <=>
                                  \E k \in DOMAIN members' :
                                     members'[k] = Pair(stack'[i].number, m)
    BY <1>5 DEF SeenIsRead, Pair
  <2>1. CASE i = top
    <3>1. \A m \in Names : m \in f.seen \cup {n} <=>
              \E k \in DOMAIN members' : members'[k] = Pair(f.number, m)
      BY <1>9, <1>11, <1>16
    <3> QED  BY <2>1, <3>1, <1>6, <1>9
  <2>2. CASE i # top
    <3>1. stack'[i] = stack[i]
      BY <2>2, <1>5
    <3>2. /\ stack[i].number <= objects
          /\ stack[i].open = "object" =>
                /\ stack[i].number > 0
                /\ \A m \in Names : m \in stack[i].seen <=> Read(stack[i].number, m)
      BY DEF ScanInv, ScanTrail, SeenIsRead, Pair, Read
    <3>3. stack[i].open = "object" => stack[i].number # f.number
      BY <2>2, <1>1, <1>2 DEF ScanInv, ScanTrail, NumberedApart
    <3>4. stack[i].open = "object" => \A m : Pair(f.number, n) # Pair(stack[i].number, m)
      BY <3>3, <1>11
    <3>5. stack[i].open = "object" => \A m :
             (\E k \in DOMAIN members' : members'[k] = Pair(stack[i].number, m))
                <=> Read(stack[i].number, m)
      BY <3>4, <1>16
    <3> QED  BY <3>1, <3>2, <3>5
  <2> QED  BY <2>1, <2>2
<1>19. NumberedApart'
  <2>1. \A i \in DOMAIN stack : stack'[i].open = stack[i].open /\ stack'[i].number = stack[i].number
    BY <1>1, <1>2, <1>5, <1>6
  <2> QED  BY <2>1, <1>5 DEF ScanInv, ScanTrail, NumberedApart
<1>20. \A k \in DOMAIN members' : members'[k].object <= objects
  <2>1. Pair(f.number, n).object <= objects
    BY <1>9 DEF Pair
  <2>2. \A k \in DOMAIN members : members[k].object <= objects
    BY DEF ScanInv, ScanTrail
  <2> QED  BY <2>1, <2>2, <1>14
<1>21. ExpectFits'
  BY <1>1, <1>5, <1>6 DEF ExpectFits, Fits, Last
<1>22. ScanTrail'
  BY <1>18, <1>19, <1>20, <1>21 DEF ScanTrail
<1>23. Unambiguous'
  <2> SUFFICES ASSUME NEW j \in DOMAIN members', NEW k \in DOMAIN members',
                      members'[j] = members'[k]
               PROVE  j = k
    BY DEF Unambiguous
  <2>1. \A i \in DOMAIN members : members[i] # Pair(f.number, n)
    BY <1>10 DEF Read
  <2>2. CASE members'[j] = Pair(f.number, n)
    BY <2>1, <2>2, <1>14
  <2>3. CASE members'[j] # Pair(f.number, n)
    <3>1. j \in DOMAIN members /\ k \in DOMAIN members /\ members[j] = members[k]
      BY <2>3, <1>14
    <3> QED  BY <3>1 DEF ScanInv, Unambiguous
  <2> QED  BY <2>2, <2>3
<1> QED  BY <1>17, <1>22, <1>23 DEF ScanInv

LEMMA ScanStep == ASSUME ScanInv, Scan PROVE ScanInv'
<1>1. CASE EndOfText
  BY <1>1, FailStep DEF EndOfText, Codes, ScanInv, ScanTypeOK
<1>2. CASE Token
  <2>1. PICK t \in Tokens : /\ text' = Append(text, t)
                            /\ Value(t) \/ Member(t) \/ Colon(t) \/ Separator(t) \/ Trailing(t)
    BY <1>2 DEF Token
  <2>2. verdict = "scanning" /\ ended' = ended /\ text' \in Seq(Tokens) /\ ScanTypeOK
    BY <1>2, <2>1 DEF Token, ScanInv, ScanTypeOK
  <2>3. ASSUME NEW code \in Codes, Fail(code)  PROVE ScanInv'
    BY <2>2, <2>3, FailStep DEF Fail, ScanTypeOK
  <2>4. ExpectFits
    BY <2>2 DEF ScanInv, ScanTrail
  <2>5. "duplicate_member" \in Codes /\ "scan_incomplete" \in Codes
    BY DEF Codes
  <2>6. ASSUME NEW e, Go(e), e \in Expectations, UNCHANGED <<stack, objects, members>>,
               e \in {"first_member", "member", "colon"} =>
                  stack # <<>> /\ Last(stack).open = "object",
               e = "first_element" => stack # <<>> /\ Last(stack).open = "array",
               e = "separator" => stack # <<>>,
               e = "end" => stack = <<>>
        PROVE  ScanInv'
    <3>1. ExpectFits'
      BY <2>6 DEF Go, ExpectFits, Fits
    <3> QED  BY <3>1, <2>2, <2>6, GoStep DEF Go
  <2>7. CASE Value(t)
    <3>1. CASE t.kind \in {"object", "array"} /\ Enter(t.kind)
      BY <3>1, <2>2, EnterStep
    <3>2. CASE AfterValue(stack) /\ UNCHANGED <<stack, objects, members>>
      <4>1. CASE stack = <<>>
        BY <4>1, <3>2, <2>6 DEF AfterValue, Expectations
      <4>2. CASE stack # <<>>
        BY <4>2, <3>2, <2>6 DEF AfterValue, Expectations
      <4> QED  BY <4>1, <4>2
    <3>3. CASE expect = "first_element" /\ Leave
      BY <3>3, <2>2, <2>4, LeaveStep DEF ExpectFits, Fits
    <3> QED  BY <2>3, <2>5, <2>7, <3>1, <3>2, <3>3 DEF Value
  <2>8. CASE Member(t)
    <3>1. CASE /\ t.kind = "string" /\ Decoded[t.spelling] \notin Last(stack).seen
               /\ stack' = [stack EXCEPT ![Len(stack)].seen = @ \cup {Decoded[t.spelling]}]
               /\ members' = Append(members, [object |-> Last(stack).number,
                                              name |-> Decoded[t.spelling]])
               /\ Go("colon") /\ UNCHANGED objects
      <4>1. t.spelling \in Spellings
        BY <3>1, <2>1 DEF Tokens, Punctuation
      <4>2. Decoded[t.spelling] \in Names
        BY <4>1, DecodedAssumption
      <4>3. stack # <<>> /\ Last(stack).open = "object"
        BY <2>4, <2>8 DEF Member, ExpectFits, Fits
      <4> QED  BY <3>1, <4>2, <4>3, <2>2, NameStep DEF Go
    <3>2. CASE expect = "first_member" /\ Leave
      BY <3>2, <2>2, <2>4, LeaveStep DEF ExpectFits, Fits
    <3> QED  BY <2>3, <2>5, <2>8, <3>1, <3>2 DEF Member
  <2>9. CASE Colon(t)
    BY <2>3, <2>5, <2>6, <2>9 DEF Colon, Expectations
  <2>10. CASE Separator(t)
    <3>1. CASE /\ Go(IF Last(stack).open = "object" THEN "member" ELSE "value")
               /\ UNCHANGED <<stack, objects, members>>
      <4>1. CASE Last(stack).open = "object"
        BY <4>1, <3>1, <2>4, <2>6, <2>10 DEF Separator, Expectations, ExpectFits, Fits
      <4>2. CASE Last(stack).open # "object"
        BY <4>2, <3>1, <2>6 DEF Expectations
      <4> QED  BY <4>1, <4>2
    <3>2. CASE Leave
      BY <3>2, <2>2, <2>4, <2>10, LeaveStep DEF Separator, ExpectFits, Fits
    <3> QED  BY <2>3, <2>5, <2>10, <3>1, <3>2 DEF Separator
  <2>11. CASE Trailing(t)
    BY <2>3, <2>5, <2>11 DEF Trailing
  <2> QED  BY <2>1, <2>7, <2>8, <2>9, <2>10, <2>11
<1> QED  BY <1>1, <1>2 DEF Scan

LEMMA ScanStart ==
    ASSUME text = <<>>, ended = FALSE, stack = <<>>, expect = "value",
           objects = 0, members = <<>>, verdict = "scanning"
    PROVE  ScanInv
<1>1. ScanTypeOK
  <2>1. \A S : <<>> \in Seq(S) /\ Len(<<>>) = 0
    OBVIOUS
  <2>2. Len(stack) <= MaxDepth
    BY <2>1, DepthAssumption
  <2> QED  BY <2>1, <2>2 DEF ScanTypeOK, Expectations
<1> QED  BY <1>1 DEF ScanInv, ScanTrail, Unambiguous, ExpectFits, Fits, SeenIsRead, NumberedApart

LEMMA ScanRestart ==
    ASSUME text' = <<>>, ended' = FALSE, stack' = <<>>, expect' = "value",
           objects' = 0, members' = <<>>, verdict' = "scanning"
    PROVE  ScanInv'
<1>1. ScanTypeOK'
  <2>1. \A S : <<>> \in Seq(S) /\ Len(<<>>) = 0
    OBVIOUS
  <2>2. Len(stack') <= MaxDepth
    BY <2>1, DepthAssumption
  <2> QED  BY <2>1, <2>2 DEF ScanTypeOK, Expectations
<1> QED  BY <1>1 DEF ScanInv, ScanTrail, Unambiguous, ExpectFits, Fits, SeenIsRead, NumberedApart

(***************************************************************************)
(* Documents: depth and enclosure, and what another token leaves alone.    *)
(***************************************************************************)

LEMMA DepthStep ==
    ASSUME NEW s, NEW i \in Nat \ {0}
    PROVE  /\ Depth(s, i) \in Int /\ Depth(s, 1) = 0
           /\ Depth(s, i + 1) = Depth(s, i) + (IF Opening(s, i) THEN 1 ELSE 0)
                                            - (IF Closing(s, i) THEN 1 ELSE 0)
<1> DEFINE O(j) == {k \in 1 .. j - 1 : Opening(s, k)}
           C(j) == {k \in 1 .. j - 1 : Closing(s, k)}
<1>1. ASSUME NEW j \in Nat \ {0}
      PROVE  IsFiniteSet(O(j)) /\ IsFiniteSet(C(j))
  <2>1. IsFiniteSet(1 .. j - 1)
    BY FS_Interval
  <2>2. O(j) \in SUBSET (1 .. j - 1) /\ C(j) \in SUBSET (1 .. j - 1)
    OBVIOUS
  <2> QED  BY <2>1, <2>2, FS_Subset
<1>2. ASSUME NEW j \in Nat \ {0}
      PROVE  Cardinality(O(j)) \in Nat /\ Cardinality(C(j)) \in Nat
  BY <1>1, FS_CardinalityType
<1>3. Depth(s, 1) = 0
  <2>1. O(1) = {} /\ C(1) = {}
    OBVIOUS
  <2> QED  BY <2>1, FS_EmptySet DEF Depth
<1>4. i + 1 \in Nat \ {0} /\ i \notin O(i) /\ i \notin C(i)
  OBVIOUS
<1>5. Cardinality(O(i + 1)) = Cardinality(O(i)) + (IF Opening(s, i) THEN 1 ELSE 0)
  <2>1. O(i + 1) = IF Opening(s, i) THEN O(i) \cup {i} ELSE O(i)
    OBVIOUS
  <2>2. Cardinality(O(i) \cup {i}) = Cardinality(O(i)) + 1
    BY <1>1, <1>4, FS_AddElement
  <2>3. CASE Opening(s, i)
    BY <1>2, <2>1, <2>2, <2>3
  <2>4. CASE ~Opening(s, i)
    <3>1. O(i + 1) = O(i)
      BY <2>1, <2>4
    <3>2. Cardinality(O(i)) \in Nat
      BY <1>2
    <3> HIDE DEF O
    <3> QED  BY <2>4, <3>1, <3>2
  <2> QED  BY <2>3, <2>4
<1>6. Cardinality(C(i + 1)) = Cardinality(C(i)) + (IF Closing(s, i) THEN 1 ELSE 0)
  <2>1. C(i + 1) = IF Closing(s, i) THEN C(i) \cup {i} ELSE C(i)
    OBVIOUS
  <2>2. Cardinality(C(i) \cup {i}) = Cardinality(C(i)) + 1
    BY <1>1, <1>4, FS_AddElement
  <2>3. CASE Closing(s, i)
    BY <1>2, <2>1, <2>2, <2>3
  <2>4. CASE ~Closing(s, i)
    <3>1. C(i + 1) = C(i)
      BY <2>1, <2>4
    <3>2. Cardinality(C(i)) \in Nat
      BY <1>2
    <3> HIDE DEF C
    <3> QED  BY <2>4, <3>1, <3>2
  <2> QED  BY <2>3, <2>4
<1>7. /\ Depth(s, i) = Cardinality(O(i)) - Cardinality(C(i))
      /\ Depth(s, i + 1) = Cardinality(O(i + 1)) - Cardinality(C(i + 1))
  BY DEF Depth
<1> HIDE DEF O, C
<1> QED  BY <1>2, <1>3, <1>4, <1>5, <1>6, <1>7

LEMMA DepthOfPrefix ==
    ASSUME NEW s, NEW u, NEW n \in Nat, \A k \in 1 .. n : u[k] = s[k], NEW i \in 1 .. n + 1
    PROVE  Depth(u, i) = Depth(s, i)
<1>1. \A k \in 1 .. i - 1 : u[k] = s[k]
  OBVIOUS
<1>2. /\ {k \in 1 .. i - 1 : Opening(u, k)} = {k \in 1 .. i - 1 : Opening(s, k)}
      /\ {k \in 1 .. i - 1 : Closing(u, k)} = {k \in 1 .. i - 1 : Closing(s, k)}
  BY <1>1 DEF Opening, Closing
<1> QED  BY <1>2 DEF Depth

LEMMA EnclosesInPrefix ==
    ASSUME NEW s, NEW u, NEW n \in Nat, \A k \in 1 .. n : u[k] = s[k],
           NEW i \in 1 .. n + 1, NEW k \in 1 .. i - 1
    PROVE  Encloses(u, k, i) <=> Encloses(s, k, i)
<1>1. k \in 1 .. n + 1 /\ u[k] = s[k] /\ \A l \in k + 1 .. i - 1 : l \in 1 .. n + 1
  OBVIOUS
<1>2. Depth(u, i) = Depth(s, i) /\ Depth(u, k) = Depth(s, k)
  BY <1>1, DepthOfPrefix
<1>3. \A l \in k + 1 .. i - 1 : Depth(u, l) = Depth(s, l)
  BY <1>1, DepthOfPrefix
<1> QED  BY <1>1, <1>2, <1>3 DEF Encloses, Opening

\* At most one container is the innermost around a place.
LEMMA AroundIs ==
    ASSUME NEW s, NEW i \in Nat \ {0}, NEW k \in 1 .. i - 1, Encloses(s, k, i)
    PROVE  Around(s, i) = k
<1> PICK a : a = Around(s, i)
  OBVIOUS
<1>1. a \in 1 .. i - 1 /\ Encloses(s, a, i)
  BY DEF Around
<1>2. Depth(s, i) \in Int
  BY DepthStep
<1>3. ~(a < k)
  <2> SUFFICES ASSUME a < k PROVE FALSE
    OBVIOUS
  <2>1. k \in a + 1 .. i - 1
    BY <1>1
  <2> QED  BY <1>1, <1>2, <2>1 DEF Encloses
<1>4. ~(k < a)
  <2> SUFFICES ASSUME k < a PROVE FALSE
    OBVIOUS
  <2>1. a \in k + 1 .. i - 1
    BY <1>1
  <2> QED  BY <1>1, <1>2, <2>1 DEF Encloses
<1> QED  BY <1>1, <1>3, <1>4

\* Every place up to n + 1 that is inside a container has an innermost one.
Nested(s, n) ==
    \A i \in 1 .. n + 1 : Depth(s, i) > 0 => \E k \in 1 .. i - 1 : Encloses(s, k, i)

LEMMA AroundExists ==
    ASSUME NEW s, NEW n \in Nat, Nested(s, n), NEW i \in 1 .. n + 1, Depth(s, i) > 0
    PROVE  Around(s, i) \in 1 .. i - 1 /\ Encloses(s, Around(s, i), i)
<1>1. PICK k \in 1 .. i - 1 : Encloses(s, k, i)
  BY DEF Nested
<1> QED  BY <1>1, AroundIs

LEMMA AroundInPrefix ==
    ASSUME NEW s, NEW u, NEW n \in Nat, \A k \in 1 .. n : u[k] = s[k], Nested(s, n),
           NEW i \in 1 .. n + 1
    PROVE  /\ Depth(s, i) > 0 => Around(u, i) = Around(s, i) /\ Around(s, i) \in 1 .. i - 1
           /\ \A open : Within(u, i, open) <=> Within(s, i, open)
           /\ Depth(u, i) > 0 => \E k \in 1 .. i - 1 : Encloses(u, k, i)
<1>1. Depth(u, i) = Depth(s, i)
  BY DepthOfPrefix
<1>2. CASE Depth(s, i) > 0
  <2>1. Around(s, i) \in 1 .. i - 1 /\ Encloses(s, Around(s, i), i)
    BY <1>2, AroundExists
  <2>2. PICK k \in 1 .. i - 1 : k = Around(s, i)
    BY <2>1
  <2>3. Encloses(u, k, i)
    BY <2>1, <2>2, EnclosesInPrefix
  <2>4. Around(u, i) = k
    BY <2>3, AroundIs
  <2>5. u[k] = s[k]
    OBVIOUS
  <2> QED  BY <1>1, <1>2, <2>1, <2>2, <2>3, <2>4, <2>5 DEF Within
<1>3. CASE ~(Depth(s, i) > 0)
  BY <1>1, <1>3 DEF Within
<1> QED  BY <1>2, <1>3

LEMMA NamesInPrefix ==
    ASSUME NEW s, NEW u, NEW n \in Nat, \A k \in 1 .. n : u[k] = s[k], Nested(s, n),
           NEW i \in 1 .. n
    PROVE  NameAt(u, i) <=> NameAt(s, i)
<1>1. i \in 1 .. n + 1 /\ u[i] = s[i] /\ (i # 1 => u[i - 1] = s[i - 1])
  OBVIOUS
<1>2. Within(u, i, "object") <=> Within(s, i, "object")
  BY <1>1, AroundInPrefix
<1>3. Before(u, i) = Before(s, i)
  BY <1>1 DEF Before
<1> QED  BY <1>1, <1>2, <1>3 DEF NameAt

LEMMA PlacesInPrefix ==
    ASSUME NEW s, NEW u, NEW n \in Nat, \A k \in 1 .. n : u[k] = s[k], Nested(s, n),
           NEW i \in 1 .. n + 1
    PROVE  /\ Before(u, i) = Before(s, i)
           /\ AfterOne(u, i) <=> AfterOne(s, i)
           /\ ValueAt(u, i) <=> ValueAt(s, i)
<1>1. i # 1 => i - 1 \in 1 .. n /\ u[i - 1] = s[i - 1]
  OBVIOUS
<1>2. Before(u, i) = Before(s, i)
  BY <1>1 DEF Before
<1>3. i # 1 => (NameAt(u, i - 1) <=> NameAt(s, i - 1))
  BY <1>1, NamesInPrefix
<1>4. Within(u, i, "array") <=> Within(s, i, "array")
  BY AroundInPrefix
<1> QED  BY <1>2, <1>3, <1>4 DEF AfterOne, ValueAt

LEMMA WellPlacedInPrefix ==
    ASSUME NEW s, NEW u, NEW n \in Nat, \A k \in 1 .. n : u[k] = s[k], Nested(s, n),
           NEW i \in 1 .. n
    PROVE  /\ WellPlaced(u, i) <=> WellPlaced(s, i)
           /\ TooDeep(u, i) <=> TooDeep(s, i)
<1>1. i \in 1 .. n + 1 /\ u[i] = s[i]
  OBVIOUS
<1>2. Depth(u, i) = Depth(s, i)
  BY <1>1, DepthOfPrefix
<1>3. \A open : Within(u, i, open) <=> Within(s, i, open)
  BY <1>1, AroundInPrefix
<1>4. /\ Before(u, i) = Before(s, i)
      /\ AfterOne(u, i) <=> AfterOne(s, i)
      /\ ValueAt(u, i) <=> ValueAt(s, i)
  BY <1>1, PlacesInPrefix
<1>5. NameAt(u, i) <=> NameAt(s, i)
  BY NamesInPrefix
<1>6. i > 1 => (NameAt(u, i - 1) <=> NameAt(s, i - 1))
  <2>1. i > 1 => i - 1 \in 1 .. n
    OBVIOUS
  <2> QED  BY <2>1, NamesInPrefix
<1> QED  BY <1>1, <1>2, <1>3, <1>4, <1>5, <1>6 DEF WellPlaced, TooDeep, Opening

LEMMA NamedIsInside ==
    ASSUME NEW s, NEW n \in Nat, Nested(s, n), NEW i \in 1 .. n + 1, NameAt(s, i)
    PROVE  Depth(s, i) > 0 /\ Around(s, i) \in 1 .. i - 1
<1>1. Depth(s, i) > 0
  BY DEF NameAt, Within
<1> QED  BY <1>1, AroundExists

LEMMA DuplicatesInPrefix ==
    ASSUME NEW s, NEW u, NEW n \in Nat, \A k \in 1 .. n : u[k] = s[k], Nested(s, n),
           NEW i \in 1 .. n, NEW j \in 1 .. n
    PROVE  Duplicate(u, i, j) <=> Duplicate(s, i, j)
<1>1. i \in 1 .. n + 1 /\ j \in 1 .. n + 1 /\ u[i] = s[i] /\ u[j] = s[j]
  OBVIOUS
<1>2. (NameAt(u, i) <=> NameAt(s, i)) /\ (NameAt(u, j) <=> NameAt(s, j))
  BY NamesInPrefix
<1>3. NameAt(s, i) => Around(u, i) = Around(s, i)
  BY <1>1, NamedIsInside, AroundInPrefix
<1>4. NameAt(s, j) => Around(u, j) = Around(s, j)
  BY <1>1, NamedIsInside, AroundInPrefix
<1> QED  BY <1>1, <1>2, <1>3, <1>4 DEF Duplicate

\* A text and the text with one more token.
LEMMA OneMore ==
    ASSUME NEW s \in Seq(Tokens), NEW t \in Tokens
    PROVE  LET u == Append(s, t)
               n == Len(s)
           IN  /\ n \in Nat /\ u \in Seq(Tokens) /\ Len(u) = n + 1
               /\ \A k \in 1 .. n : u[k] = s[k]
               /\ u[n + 1] = t /\ u # <<>>
               /\ DOMAIN s = 1 .. n /\ DOMAIN u = 1 .. n + 1
<1>1. Len(s) \in Nat /\ DOMAIN s = 1 .. Len(s)
  BY LenProperties
<1>2. /\ Append(s, t) \in Seq(Tokens) /\ Append(s, t) # <<>>
      /\ Len(Append(s, t)) = Len(s) + 1
      /\ \A i \in 1 .. Len(s) : Append(s, t)[i] = s[i]
      /\ Append(s, t)[Len(s) + 1] = t
  BY AppendProperties
<1>3. DOMAIN Append(s, t) = 1 .. Len(s) + 1
  BY <1>2, LenProperties
<1> QED  BY <1>1, <1>2, <1>3

LEMMA CleanInPrefix ==
    ASSUME NEW s \in Seq(Tokens), NEW t \in Tokens, Nested(s, Len(s)),
           NEW i \in 1 .. Len(s), Clean(s, i)
    PROVE  Clean(Append(s, t), i)
<1> DEFINE n == Len(s)
<1> PICK u : u = Append(s, t)
  OBVIOUS
<1>1. /\ n \in Nat /\ \A k \in 1 .. n : u[k] = s[k]
      /\ DOMAIN s = 1 .. n /\ DOMAIN u = 1 .. n + 1 /\ i \in 1 .. n /\ Nested(s, n)
  BY OneMore
<1> HIDE DEF n
<1>2. WellPlaced(u, i) /\ ~TooDeep(u, i)
  BY <1>1, WellPlacedInPrefix DEF Clean
<1>3. ASSUME NEW k \in DOMAIN u, Duplicate(u, k, i)  PROVE FALSE
  <2>1. k < i
    BY <1>3 DEF Duplicate
  <2>2. k \in 1 .. n
    BY <1>1, <2>1
  <2>3. Duplicate(s, k, i)
    BY <1>1, <1>3, <2>2, DuplicatesInPrefix
  <2> QED  BY <1>1, <2>2, <2>3 DEF Clean
<1> QED  BY <1>2, <1>3 DEF Clean

(***************************************************************************)
(* Documents: what the stack and the expectation say of the text.          *)
(***************************************************************************)

\* Where the next token stands: in the container of the last frame.
LEMMA NextPlace ==
    ASSUME NEW s \in Seq(Tokens), NEW c \in Seq(Frames), Scanned(s, c)
    PROVE  LET n == Len(s)
           IN  /\ Nested(s, n) /\ Depth(s, n + 1) = Len(c) /\ Len(c) \in Nat
               /\ c # <<>> => \E k \in 1 .. n : /\ Holds(s, k, Last(c), Len(c))
                                                /\ Encloses(s, k, n + 1)
                                                /\ Around(s, n + 1) = k
               /\ \A open : Within(s, n + 1, open) <=> c # <<>> /\ Last(c).open = open
<1> DEFINE n == Len(s)
<1>1. n \in Nat /\ DOMAIN s = 1 .. n /\ Len(c) \in Nat /\ Depth(s, n + 1) = Len(c)
  BY LenProperties DEF Scanned
<1>2. ASSUME c # <<>>
      PROVE  \E k \in 1 .. n : /\ Holds(s, k, Last(c), Len(c))
                               /\ Encloses(s, k, n + 1) /\ Around(s, n + 1) = k
  <2>1. Len(c) \in DOMAIN c /\ Last(c) = c[Len(c)] /\ Last(c) \in Frames
    BY <1>2, FrontProperties
  <2>2. PICK k \in 1 .. n : Holds(s, k, Last(c), Len(c))
    BY <1>1, <2>1 DEF Scanned
  <2>3. Opening(s, k)
    BY <2>1, <2>2 DEF Holds, Opening, Frames
  <2>4. \A l \in k + 1 .. n : Depth(s, l) >= Len(c)
    BY <1>1, <2>2 DEF Holds
  <2>5. Encloses(s, k, n + 1)
    <3>1. n + 1 - 1 = n
      BY <1>1
    <3>2. Depth(s, k) = Len(c) - 1
      BY <2>2 DEF Holds
    <3> QED  BY <1>1, <2>3, <2>4, <3>1, <3>2 DEF Encloses
  <2>6. k \in 1 .. (n + 1) - 1 /\ n + 1 \in Nat \ {0}
    BY <1>1
  <2>7. Around(s, n + 1) = k
    BY <2>5, <2>6, AroundIs
  <2> QED  BY <2>2, <2>5, <2>7
<1>3. Nested(s, n)
  <2>1. ASSUME NEW i \in 1 .. n + 1, Depth(s, i) > 0
        PROVE  \E k \in 1 .. i - 1 : Encloses(s, k, i)
    <3>1. CASE i \in 1 .. n
      BY <1>1, <2>1, <3>1 DEF Scanned
    <3>2. CASE i = n + 1
      <4>1. c # <<>>
        BY <1>1, <2>1, <3>2, EmptySeq
      <4>2. PICK k \in 1 .. n : Encloses(s, k, n + 1)
        BY <1>2, <4>1
      <4>3. k \in 1 .. i - 1
        BY <1>1, <3>2
      <4> QED  BY <3>2, <4>2, <4>3
    <3> QED  BY <1>1, <3>1, <3>2
  <2> QED  BY <2>1 DEF Nested
<1>4. ASSUME NEW open
      PROVE  Within(s, n + 1, open) <=> c # <<>> /\ Last(c).open = open
  <2>1. CASE c = <<>>
    <3>1. ~(Depth(s, n + 1) > 0)
      BY <1>1, <2>1, EmptySeq
    <3> QED  BY <2>1, <3>1 DEF Within
  <2>2. CASE c # <<>>
    <3>1. PICK k \in 1 .. n : Holds(s, k, Last(c), Len(c)) /\ Around(s, n + 1) = k
      BY <1>2, <2>2
    <3>2. s[k].kind = Last(c).open
      BY <3>1 DEF Holds
    <3>3. Depth(s, n + 1) > 0
      BY <1>1, <2>2, FrontProperties
    <3> QED  BY <2>2, <3>1, <3>2, <3>3 DEF Within
  <2> QED  BY <2>1, <2>2
<1> QED  BY <1>1, <1>2, <1>3, <1>4

\* What the grammar takes next, by what is expected.
Takes(e, c, t) ==
    \/ e \in {"value", "first_element"} /\ t.kind \in Scalars \cup {"object", "array"}
    \/ e = "first_element" /\ t.kind = "end_array"
    \/ e \in {"first_member", "member"} /\ t.kind = "string"
    \/ e = "first_member" /\ t.kind = "end_object"
    \/ e = "colon" /\ t.kind = "colon"
    \/ e = "separator" /\ t.kind \in {"comma", Closes(Last(c).open)}

LEMMA NextFits ==
    ASSUME NEW s \in Seq(Tokens), NEW c \in Seq(Frames), Scanned(s, c), NEW t \in Tokens,
           NEW e \in Expectations, Fits(e, c), ExpectFollows(e, s, c)
    PROVE  LET u == Append(s, t)
               p == Len(s) + 1
           IN  /\ NameAt(u, p) <=> e \in {"first_member", "member"} /\ t.kind = "string"
               /\ WellPlaced(u, p) <=> Takes(e, c, t)
               /\ TooDeep(u, p) <=> t.kind \in {"object", "array"} /\ Len(c) >= MaxDepth
<1> DEFINE n == Len(s)
           p == n + 1
<1> PICK u : u = Append(s, t)
  OBVIOUS
<1> PICK b : b = Before(s, p)
  OBVIOUS
<1>1. /\ n \in Nat /\ \A k \in 1 .. n : u[k] = s[k]
      /\ DOMAIN s = 1 .. n /\ u[p] = t /\ Nested(s, n)
      /\ Depth(s, p) = Len(c) /\ Len(c) \in Nat /\ p \in 1 .. n + 1 /\ p - 1 = n
      /\ p > 1 <=> n > 0
      /\ p = 1 <=> n = 0
      /\ p = n + 1
  BY OneMore, NextPlace
<1> HIDE DEF n, p
<1>0. /\ n \in Nat /\ \A k \in 1 .. n : u[k] = s[k]
      /\ Nested(s, n) /\ p \in 1 .. n + 1
  BY <1>1
<1>2. b = IF n = 0 THEN "start" ELSE s[n].kind
  BY <1>1 DEF Before
<1>3. Depth(u, p) = Len(c)
  BY <1>1, DepthOfPrefix
<1>4. \A open : Within(u, p, open) <=> c # <<>> /\ Last(c).open = open
  <2>1. \A open : Within(s, p, open) <=> c # <<>> /\ Last(c).open = open
    BY NextPlace DEF n, p
  <2> QED  BY <1>0, <2>1, AroundInPrefix
<1>5. Before(u, p) = b /\ (AfterOne(u, p) <=> AfterOne(s, p))
  <2>1. Before(u, p) = Before(s, p) /\ (AfterOne(u, p) <=> AfterOne(s, p))
    BY <1>0, PlacesInPrefix
  <2> QED  BY <1>1, <2>1
<1>6. n > 0 => (NameAt(u, n) <=> NameAt(s, n))
  <2>1. n > 0 => n \in 1 .. n
    BY <1>1
  <2> QED  BY <1>0, <2>1, NamesInPrefix
<1>7. Len(c) > 0 <=> c # <<>>
  <2>1. c # <<>> => Len(c) \in Nat \ {0}
    BY FrontProperties
  <2> QED  BY <1>1, <2>1, EmptySeq
<1>8. NameAt(u, p) <=> /\ t.kind = "string" /\ c # <<>> /\ Last(c).open = "object"
                       /\ b \in {"object", "comma"}
  BY <1>1, <1>4, <1>5 DEF NameAt
<1>9. AfterOne(s, p) <=> n > 0 /\ ~NameAt(s, n) /\ b \in {"end_object", "end_array"} \cup Scalars
  BY <1>1 DEF AfterOne
<1>10. WellPlaced(u, p) <=>
          \/ /\ t.kind \in Scalars \cup {"object", "array"}
             /\ \/ n = 0 \/ b \in {"colon", "array"}
                \/ b = "comma" /\ c # <<>> /\ Last(c).open = "array"
          \/ NameAt(u, p)
          \/ t.kind = "colon" /\ n > 0 /\ NameAt(s, n)
          \/ t.kind = "comma" /\ AfterOne(s, p) /\ c # <<>>
          \/ /\ t.kind = "end_object" /\ c # <<>> /\ Last(c).open = "object"
             /\ AfterOne(s, p) \/ b = "object"
          \/ /\ t.kind = "end_array" /\ c # <<>> /\ Last(c).open = "array"
             /\ AfterOne(s, p) \/ b = "array"
  BY <1>1, <1>3, <1>4, <1>5, <1>6, <1>7 DEF WellPlaced, ValueAt
<1>11. TooDeep(u, p) <=> t.kind \in {"object", "array"} /\ Len(c) >= MaxDepth
  BY <1>1, <1>3 DEF TooDeep, Opening
<1>12. n > 0 /\ NameAt(s, n) => b = "string"
  BY <1>2 DEF NameAt
<1>13. c # <<>> => Last(c).open \in {"object", "array"}
  <2>1. c # <<>> => Last(c) \in Frames
    BY FrontProperties
  <2> QED  BY <2>1 DEF Frames
<1>14. /\ NameAt(u, p) <=> e \in {"first_member", "member"} /\ t.kind = "string"
       /\ WellPlaced(u, p) <=> Takes(e, c, t)
  <2>0. n > 0 => n # 0
    BY <1>1
  <2>1. CASE e = "value"
    <3>1. /\ n = 0 \/ b = "colon" \/ (b = "comma" /\ c # <<>> /\ Last(c).open = "array")
          /\ n = 0 => b = "start"
      BY <2>1, <1>2 DEF ExpectFollows, n, p
    <3>2. ~NameAt(u, p)
      BY <3>1, <1>8
    <3>3. ~AfterOne(s, p) /\ ~(n > 0 /\ NameAt(s, n))
      BY <3>1, <1>9, <1>12, <2>0 DEF Scalars
    <3> QED  BY <2>1, <3>1, <3>2, <3>3, <1>10 DEF Takes, Scalars
  <2>2. CASE e = "first_element"
    <3>1. n > 0 /\ b = "array" /\ c # <<>> /\ Last(c).open = "array"
      BY <2>2, <1>2, <2>0 DEF ExpectFollows, n, p, Fits
    <3>2. ~NameAt(u, p) /\ ~AfterOne(s, p) /\ ~NameAt(s, n)
      BY <3>1, <1>8, <1>9, <1>12 DEF Scalars
    <3> QED  BY <2>2, <3>1, <3>2, <1>10 DEF Takes, Scalars
  <2>3. CASE e = "first_member"
    <3>1. n > 0 /\ b = "object" /\ c # <<>> /\ Last(c).open = "object"
      BY <2>3, <1>2, <2>0 DEF ExpectFollows, n, p, Fits
    <3>2. ~AfterOne(s, p) /\ ~NameAt(s, n)
      BY <3>1, <1>9, <1>12 DEF Scalars
    <3>3. NameAt(u, p) <=> t.kind = "string"
      BY <3>1, <1>8
    <3> QED  BY <2>0, <2>3, <3>1, <3>2, <3>3, <1>10 DEF Takes, Scalars
  <2>4. CASE e = "member"
    <3>1. n > 0 /\ b = "comma" /\ c # <<>> /\ Last(c).open = "object"
      BY <2>4, <1>2, <2>0 DEF ExpectFollows, n, p, Fits
    <3>2. ~AfterOne(s, p) /\ ~NameAt(s, n)
      BY <3>1, <1>9, <1>12 DEF Scalars
    <3>3. NameAt(u, p) <=> t.kind = "string"
      BY <3>1, <1>8
    <3> QED  BY <2>0, <2>4, <3>1, <3>2, <3>3, <1>10 DEF Takes, Scalars
  <2>5. CASE e = "colon"
    <3>1. n > 0 /\ NameAt(s, n) /\ b = "string"
      BY <2>5, <1>12 DEF ExpectFollows, n, p
    <3>2. ~NameAt(u, p) /\ ~AfterOne(s, p)
      BY <3>1, <1>8, <1>9
    <3> QED  BY <2>0, <2>5, <3>1, <3>2, <1>10 DEF Takes, Scalars
  <2>6. CASE e \in {"separator", "end"}
    <3>1. AfterOne(s, p)
      BY <2>6 DEF ExpectFollows, n, p
    <3>2. n > 0 /\ ~NameAt(s, n) /\ b \in {"end_object", "end_array"} \cup Scalars
      BY <3>1, <1>9
    <3>3. ~NameAt(u, p)
      BY <3>2, <1>8 DEF Scalars
    <3>4. CASE e = "separator"
      <4>1. c # <<>> /\ Last(c).open \in {"object", "array"}
        BY <3>4, <1>13 DEF Fits
      <4> QED  BY <2>0, <3>1, <3>2, <3>3, <3>4, <4>1, <1>10 DEF Takes, Closes, Scalars
    <3>5. CASE e = "end"
      <4>1. c = <<>>
        BY <3>5 DEF Fits
      <4> QED  BY <2>0, <3>1, <3>2, <3>3, <3>5, <4>1, <1>10 DEF Takes, Scalars
    <3> QED  BY <2>6, <3>4, <3>5
  <2> QED  BY <2>1, <2>2, <2>3, <2>4, <2>5, <2>6 DEF Expectations
<1> QED  BY <1>11, <1>14 DEF n, p

\* A name stands in the object of the last frame, and is one of its names already when it
\* is in the frame.
LEMMA NextName ==
    ASSUME NEW s \in Seq(Tokens), NEW c \in Seq(Frames), Scanned(s, c), NEW t \in Tokens
    PROVE  LET u == Append(s, t)
               p == Len(s) + 1
           IN  /\ NameAt(u, p) => /\ t.kind = "string" /\ c # <<>> /\ Last(c).open = "object"
                                  /\ Around(u, p) \in 1 .. Len(s)
                                  /\ Holds(s, Around(u, p), Last(c), Len(c))
               /\ (\E k \in DOMAIN u : Duplicate(u, k, p)) <=>
                     NameAt(u, p) /\ Decoded[t.spelling] \in Last(c).seen
<1> DEFINE n == Len(s)
           p == n + 1
<1> PICK u : u = Append(s, t)
  OBVIOUS
<1>1. /\ n \in Nat /\ DOMAIN s = 1 .. n /\ u[p] = t /\ p \in Nat /\ p \notin 1 .. n
      /\ DOMAIN u = 1 .. p
  BY OneMore
<1>2. \A k \in 1 .. n : u[k] = s[k] /\ k \in 1 .. p /\ k < p
  BY OneMore
<1>3. Nested(s, n) /\ p \in 1 .. n + 1 /\ Depth(s, p) = Len(c) /\ Len(c) \in Nat
  BY <1>1, NextPlace
<1>4. \A open : Within(s, p, open) <=> c # <<>> /\ Last(c).open = open
  BY NextPlace
<1>5. c # <<>> => /\ \E k \in 1 .. n : Holds(s, k, Last(c), Len(c)) /\ Around(s, p) = k
                  /\ Depth(s, p) > 0
  <2>1. c # <<>> => Len(c) \in Nat \ {0}
    BY FrontProperties
  <2> QED  BY <1>3, <2>1, NextPlace
<1> HIDE DEF n, p
<1>0. /\ n \in Nat /\ \A k \in 1 .. n : u[k] = s[k]
      /\ Nested(s, n) /\ p \in 1 .. n + 1
  BY <1>1, <1>2, <1>3
<1>6. ASSUME NameAt(u, p)
      PROVE  /\ t.kind = "string" /\ c # <<>> /\ Last(c).open = "object"
             /\ Around(u, p) = Around(s, p) /\ Around(u, p) \in 1 .. n
             /\ Holds(s, Around(u, p), Last(c), Len(c))
  <2>1. t.kind = "string" /\ Within(u, p, "object")
    BY <1>1, <1>6 DEF NameAt
  <2>2. Within(s, p, "object")
    BY <1>0, <2>1, AroundInPrefix
  <2>3. c # <<>> /\ Last(c).open = "object"
    BY <1>4, <2>2
  <2>4. PICK k \in 1 .. n : Holds(s, k, Last(c), Len(c)) /\ Around(s, p) = k
    BY <1>5, <2>3
  <2>5. Depth(s, p) > 0
    BY <1>5, <2>3
  <2>6. Around(u, p) = Around(s, p)
    BY <1>0, <2>5, AroundInPrefix
  <2> QED  BY <2>1, <2>3, <2>4, <2>6
<1>7. ASSUME NEW k \in 1 .. n, NameAt(s, k)
      PROVE  Around(u, k) = Around(s, k)
  <2>1. k \in 1 .. n + 1
    BY <1>1
  <2>2. Depth(s, k) > 0
    BY <1>0, <1>7, <2>1, NamedIsInside
  <2> QED  BY <1>0, <2>1, <2>2, AroundInPrefix
<1>8. \A k \in 1 .. n : NameAt(u, k) <=> NameAt(s, k)
  BY <1>0, NamesInPrefix
<1>9. ASSUME NameAt(u, p)
      PROVE  Last(c).seen = ReadIn(s, Around(u, p))
  BY <1>6, <1>9 DEF Holds
<1>10. ASSUME NEW k \in DOMAIN u, Duplicate(u, k, p)
       PROVE  NameAt(u, p) /\ Decoded[t.spelling] \in Last(c).seen
  <2>1. /\ k < p /\ NameAt(u, k) /\ NameAt(u, p) /\ Around(u, k) = Around(u, p)
        /\ Decoded[u[k].spelling] = Decoded[t.spelling]
    BY <1>1, <1>10 DEF Duplicate
  <2>2. k \in 1 .. n
    BY <1>1, <1>10, <2>1 DEF p
  <2>3. NameAt(s, k) /\ Around(s, k) = Around(u, p) /\ u[k] = s[k]
    BY <1>2, <1>7, <1>8, <2>1, <2>2
  <2>4. Decoded[s[k].spelling] \in ReadIn(s, Around(u, p))
    BY <1>1, <2>2, <2>3 DEF ReadIn
  <2> QED  BY <1>9, <2>1, <2>3, <2>4
<1>11. ASSUME NameAt(u, p), Decoded[t.spelling] \in Last(c).seen
       PROVE  \E k \in DOMAIN u : Duplicate(u, k, p)
  <2>1. Decoded[t.spelling] \in ReadIn(s, Around(u, p))
    BY <1>9, <1>11
  <2>2. PICK k \in DOMAIN s : /\ NameAt(s, k) /\ Around(s, k) = Around(u, p)
                              /\ Decoded[s[k].spelling] = Decoded[t.spelling]
    BY <2>1 DEF ReadIn
  <2>3. NameAt(u, k) /\ Around(u, k) = Around(u, p) /\ u[k] = s[k]
    BY <1>1, <1>2, <1>7, <1>8, <2>2
  <2>4. Duplicate(u, k, p)
    BY <1>1, <1>2, <1>11, <2>2, <2>3 DEF Duplicate
  <2> QED  BY <1>1, <1>2, <2>2, <2>4
<1> QED  BY <1>6, <1>10, <1>11 DEF n, p

\* The names read of the objects of a text, when one more token is read.
LEMMA ReadGrows ==
    ASSUME NEW s \in Seq(Tokens), NEW c \in Seq(Frames), Scanned(s, c), NEW t \in Tokens
    PROVE  LET u == Append(s, t)
               p == Len(s) + 1
           IN  /\ \A k \in 1 .. Len(s) :
                     ReadIn(u, k) = IF NameAt(u, p) /\ Around(u, p) = k
                                    THEN ReadIn(s, k) \cup {Decoded[t.spelling]}
                                    ELSE ReadIn(s, k)
               /\ ReadIn(u, p) = {}
<1> DEFINE n == Len(s)
           p == n + 1
<1> PICK u : u = Append(s, t)
  OBVIOUS
<1>1. /\ n \in Nat /\ DOMAIN s = 1 .. n /\ u[p] = t /\ p \in Nat /\ p \notin 1 .. n
      /\ DOMAIN u = 1 .. p /\ 1 .. p = 1 .. n \cup {p}
  BY OneMore
<1>2. \A k \in 1 .. n : u[k] = s[k] /\ k \in 1 .. p /\ k < p /\ k \in 1 .. n + 1
  BY OneMore
<1>3. Nested(s, n)
  BY NextPlace
<1>4. NameAt(u, p) => Around(u, p) \in 1 .. n
  BY NextName
<1> HIDE DEF n, p
<1>0. n \in Nat /\ (\A k \in 1 .. n : u[k] = s[k]) /\ Nested(s, n)
  BY <1>1, <1>2, <1>3
<1>5. \A k \in 1 .. n : NameAt(u, k) <=> NameAt(s, k)
  BY <1>0, NamesInPrefix
<1>6. ASSUME NEW k \in 1 .. n, NameAt(s, k)
      PROVE  Around(u, k) = Around(s, k) /\ Around(s, k) \in 1 .. n
  <2>1. Depth(s, k) > 0 /\ Around(s, k) \in 1 .. k - 1
    BY <1>0, <1>2, <1>6, NamedIsInside
  <2>2. Around(u, k) = Around(s, k)
    BY <1>0, <1>2, <2>1, AroundInPrefix
  <2>3. \A a \in 1 .. k - 1 : a \in 1 .. n
    BY <1>1
  <2> QED  BY <2>1, <2>2, <2>3
<1> DEFINE Of(x, k) == {l \in DOMAIN x : NameAt(x, l) /\ Around(x, l) = k}
<1>7. ASSUME NEW k \in 1 .. n
      PROVE  /\ Of(u, k) = IF NameAt(u, p) /\ Around(u, p) = k THEN Of(s, k) \cup {p} ELSE Of(s, k)
             /\ Of(s, k) \subseteq 1 .. n
  BY <1>1, <1>5, <1>6
<1>8. Of(u, p) = {}
  BY <1>1, <1>4, <1>5, <1>6
<1>9. \A x, k : ReadIn(x, k) = {Decoded[x[m].spelling] : m \in Of(x, k)}
  BY DEF ReadIn
<1> HIDE DEF Of
<1>10. ReadIn(u, p) = {}
  BY <1>8, <1>9
<1>11. ASSUME NEW k \in 1 .. n
       PROVE  ReadIn(u, k) = IF NameAt(u, p) /\ Around(u, p) = k
                             THEN ReadIn(s, k) \cup {Decoded[t.spelling]} ELSE ReadIn(s, k)
  <2>1. {Decoded[u[m].spelling] : m \in Of(s, k)} = {Decoded[s[m].spelling] : m \in Of(s, k)}
    BY <1>2, <1>7
  <2>2. CASE NameAt(u, p) /\ Around(u, p) = k
    <3>1. Of(u, k) = Of(s, k) \cup {p}
      BY <1>7, <2>2
    <3>2. ReadIn(u, k) = {Decoded[u[m].spelling] : m \in Of(s, k)} \cup {Decoded[u[p].spelling]}
      BY <1>9, <3>1
    <3> QED  BY <1>1, <1>9, <2>1, <2>2, <3>2
  <2>3. CASE ~(NameAt(u, p) /\ Around(u, p) = k)
    <3>1. Of(u, k) = Of(s, k)
      BY <1>7, <2>3
    <3> QED  BY <1>9, <2>1, <2>3, <3>1
  <2> QED  BY <2>2, <2>3
<1> QED  BY <1>10, <1>11 DEF n, p

(***************************************************************************)
(* Documents: one more token, and the frames that follow it.               *)
(***************************************************************************)

LEMMA NextDepth ==
    ASSUME NEW s \in Seq(Tokens), NEW c \in Seq(Frames), Scanned(s, c), NEW t \in Tokens
    PROVE  LET depth == Depth(Append(s, t), Len(s) + 2)
           IN  /\ Depth(Append(s, t), Len(s) + 1) = Len(c)
               /\ t.kind \in {"object", "array"} => depth = Len(c) + 1
               /\ t.kind \in {"end_object", "end_array"} => depth = Len(c) - 1
               /\ t.kind \notin {"object", "array", "end_object", "end_array"} => depth = Len(c)
<1> DEFINE n == Len(s)
           p == n + 1
<1> PICK u : u = Append(s, t)
  OBVIOUS
<1>1. /\ n \in Nat /\ u[p] = t /\ \A k \in 1 .. n : u[k] = s[k]
      /\ p \in 1 .. n + 1 /\ p \in Nat \ {0} /\ Depth(s, p) = Len(c) /\ p + 1 = n + 2
  BY OneMore, NextPlace
<1> HIDE DEF n, p
<1>2. Depth(u, p) = Len(c)
  BY <1>1, DepthOfPrefix
<1>3. Depth(u, p + 1) = Depth(u, p) + (IF Opening(u, p) THEN 1 ELSE 0)
                                    - (IF Closing(u, p) THEN 1 ELSE 0)
  BY <1>1, DepthStep
<1>4. /\ Opening(u, p) <=> t.kind \in {"object", "array"}
      /\ Closing(u, p) <=> t.kind \in {"end_object", "end_array"}
      /\ ~(Opening(u, p) /\ Closing(u, p))
  BY <1>1 DEF Opening, Closing
<1>5. Len(c) \in Nat
  BY LenProperties
<1>6. /\ Opening(u, p) => Depth(u, p + 1) = Len(c) + 1
      /\ Closing(u, p) => Depth(u, p + 1) = Len(c) - 1
      /\ ~Opening(u, p) /\ ~Closing(u, p) => Depth(u, p + 1) = Len(c)
  <2>1. CASE Opening(u, p)
    <3>1. ~Closing(u, p)
      BY <1>4, <2>1
    <3> QED  BY <1>2, <1>3, <1>5, <2>1, <3>1
  <2>2. CASE Closing(u, p)
    <3>1. ~Opening(u, p)
      BY <1>4, <2>2
    <3> QED  BY <1>2, <1>3, <1>5, <2>2, <3>1
  <2>3. CASE ~Opening(u, p) /\ ~Closing(u, p)
    BY <1>2, <1>3, <1>5, <2>3
  <2> QED  BY <2>1, <2>2, <2>3
<1> QED  BY <1>1, <1>2, <1>4, <1>6 DEF n, p

\* A frame that stays open holds the names it held, and the one that is read now.
LEMMA FrameStays ==
    ASSUME NEW s \in Seq(Tokens), NEW c \in Seq(Frames), Scanned(s, c), NEW t \in Tokens,
           NEW j \in DOMAIN c, NEW f \in Frames, f.open = c[j].open,
           Depth(Append(s, t), Len(s) + 2) >= j,
           f.seen = IF NameAt(Append(s, t), Len(s) + 1) /\ j = Len(c)
                    THEN c[j].seen \cup {Decoded[t.spelling]} ELSE c[j].seen
    PROVE  \E k \in DOMAIN Append(s, t) : Holds(Append(s, t), k, f, j)
<1> DEFINE n == Len(s)
           p == n + 1
<1> PICK u : u = Append(s, t)
  OBVIOUS
<1>1. /\ n \in Nat /\ DOMAIN s = 1 .. n /\ DOMAIN u = 1 .. p /\ Len(u) + 1 = n + 2
      /\ \A k \in 1 .. n : u[k] = s[k]
  BY OneMore
<1>2. Nested(s, n) /\ Len(c) \in Nat /\ Depth(s, p) = Len(c) /\ j \in 1 .. Len(c)
  BY NextPlace, LenProperties
<1>3. PICK k \in 1 .. n : Holds(s, k, c[j], j)
  BY <1>1 DEF Scanned
<1>4. \A l \in 1 .. n + 1 : Depth(u, l) = Depth(s, l)
  BY <1>1, DepthOfPrefix
<1>5. Depth(u, k) = j - 1 /\ u[k].kind = f.open
  BY <1>1, <1>3, <1>4 DEF Holds
<1>6. ASSUME NEW l \in k + 1 .. Len(u) + 1
      PROVE  Depth(u, l) >= j
  <2>1. CASE l \in k + 1 .. n + 1
    BY <1>1, <1>3, <1>4, <2>1 DEF Holds
  <2>2. CASE l = n + 2
    BY <2>2
  <2> QED  BY <1>1, <2>1, <2>2
<1>7. ASSUME NameAt(u, p)
      PROVE  Around(u, p) = k <=> j = Len(c)
  <2>1. PICK a \in 1 .. n : a = Around(u, p) /\ Holds(s, a, Last(c), Len(c))
    BY <1>7, NextName
  <2>2. Depth(s, a) = Len(c) - 1 /\ \A l \in a + 1 .. n + 1 : Depth(s, l) >= Len(c)
    BY <2>1 DEF Holds
  <2>3. Depth(s, k) = j - 1 /\ \A l \in k + 1 .. n + 1 : Depth(s, l) >= j
    BY <1>3 DEF Holds
  <2>4. a < k => k \in a + 1 .. n + 1
    BY <1>1
  <2>5. k < a => a \in k + 1 .. n + 1
    BY <1>1
  <2>6. ASSUME j = Len(c)  PROVE a = k
    <3>1. ~(a < k)
      BY <1>2, <2>2, <2>3, <2>4, <2>6
    <3>2. ~(k < a)
      BY <1>2, <2>2, <2>3, <2>5, <2>6
    <3> QED  BY <1>1, <3>1, <3>2
  <2>7. ASSUME a = k  PROVE j = Len(c)
    BY <1>2, <2>2, <2>3, <2>7
  <2> QED  BY <2>1, <2>6, <2>7
<1>8. ReadIn(u, k) = IF NameAt(u, p) /\ Around(u, p) = k
                     THEN ReadIn(s, k) \cup {Decoded[t.spelling]} ELSE ReadIn(s, k)
  BY ReadGrows
<1>9. c[j].open = "object" => c[j].seen = ReadIn(s, k)
  BY <1>3 DEF Holds
<1>10. f.open = "object" => f.seen = ReadIn(u, k)
  BY <1>7, <1>8, <1>9
<1>11. Holds(u, k, f, j)
  BY <1>5, <1>6, <1>10 DEF Holds
<1>12. k \in DOMAIN u
  BY <1>1
<1> QED  BY <1>11, <1>12

LEMMA ScannedGrows ==
    ASSUME NEW s \in Seq(Tokens), NEW c \in Seq(Frames), Scanned(s, c), NEW t \in Tokens,
           NEW d \in Seq(Frames), Clean(Append(s, t), Len(s) + 1),
           Depth(Append(s, t), Len(s) + 2) = Len(d),
           \A j \in DOMAIN d :
              \E k \in DOMAIN Append(s, t) : Holds(Append(s, t), k, d[j], j)
    PROVE  Scanned(Append(s, t), d)
<1> DEFINE n == Len(s)
           p == n + 1
<1> PICK u : u = Append(s, t)
  OBVIOUS
<1>1. /\ n \in Nat /\ DOMAIN s = 1 .. n /\ Len(u) + 1 = n + 2 /\ \A k \in 1 .. n : u[k] = s[k]
      /\ DOMAIN u = 1 .. n + 1 /\ p \in 1 .. n + 1
  BY OneMore
<1>2. Nested(s, n) /\ Depth(s, p) = Len(c) /\ Len(c) \in Nat
  BY NextPlace
<1>0. n \in Nat /\ (\A k \in 1 .. n : u[k] = s[k]) /\ Nested(s, n)
  BY <1>1, <1>2
<1>3. ASSUME NEW i \in DOMAIN u
      PROVE  /\ Depth(u, i) \in Nat
             /\ Depth(u, i) > 0 => \E k \in 1 .. i - 1 : Encloses(u, k, i)
  <2>0. i \in 1 .. n + 1
    BY <1>1
  <2>1. Depth(u, i) = Depth(s, i)
    BY <1>0, <2>0, DepthOfPrefix
  <2>2. Depth(s, i) \in Nat
    <3>1. CASE i \in 1 .. n
      BY <1>1, <3>1 DEF Scanned
    <3>2. CASE i = p
      BY <1>2, <3>2
    <3> QED  BY <1>1, <3>1, <3>2
  <2>3. Depth(u, i) > 0 => \E k \in 1 .. i - 1 : Encloses(u, k, i)
    BY <1>0, <2>0, AroundInPrefix
  <2> QED  BY <2>1, <2>2, <2>3
<1>4. ASSUME NEW i \in DOMAIN u
      PROVE  Clean(u, i)
  <2>1. CASE i \in 1 .. n
    <3>1. Clean(s, i)
      BY <1>1, <2>1 DEF Scanned
    <3> QED  BY <1>2, <2>1, <3>1, CleanInPrefix
  <2>2. CASE i = p
    BY <2>2
  <2> QED  BY <1>1, <2>1, <2>2
<1>5. Depth(u, Len(u) + 1) = Len(d)
  BY <1>1
<1> QED  BY <1>3, <1>4, <1>5 DEF Scanned

LEMMA ScannedStays ==
    ASSUME NEW s \in Seq(Tokens), NEW c \in Seq(Frames), Scanned(s, c), NEW t \in Tokens,
           Clean(Append(s, t), Len(s) + 1), ~NameAt(Append(s, t), Len(s) + 1),
           t.kind \notin {"object", "array", "end_object", "end_array"}
    PROVE  Scanned(Append(s, t), c)
<1>1. Len(s) + 1 + 1 = Len(s) + 2 /\ Len(c) \in Nat
  BY LenProperties
<1>2. Depth(Append(s, t), Len(s) + 2) = Len(c)
  BY <1>1, NextDepth
<1>3. ASSUME NEW j \in DOMAIN c
      PROVE  \E k \in DOMAIN Append(s, t) : Holds(Append(s, t), k, c[j], j)
  <2>1. j \in 1 .. Len(c) /\ c[j] \in Frames
    BY LenProperties, ElementOfSeq
  <2>2. Depth(Append(s, t), Len(s) + 2) >= j
    BY <1>1, <1>2, <2>1
  <2> QED  BY <2>1, <2>2, FrameStays
<1> QED  BY <1>2, <1>3, ScannedGrows

LEMMA ScannedNamed ==
    ASSUME NEW s \in Seq(Tokens), NEW c \in Seq(Frames), Scanned(s, c), NEW t \in Tokens,
           Clean(Append(s, t), Len(s) + 1), NameAt(Append(s, t), Len(s) + 1),
           Decoded[t.spelling] \in Names
    PROVE  Scanned(Append(s, t), [c EXCEPT ![Len(c)].seen = @ \cup {Decoded[t.spelling]}])
<1> DEFINE top == Len(c)
           f == [c[top] EXCEPT !.seen = @ \cup {Decoded[t.spelling]}]
           d == [c EXCEPT ![top].seen = @ \cup {Decoded[t.spelling]}]
<1>1. t.kind = "string" /\ c # <<>>
  BY NextName
<1>2. top \in Nat \ {0} /\ top \in DOMAIN c /\ DOMAIN c = 1 .. top /\ c[top] \in Frames
  BY <1>1, FrontProperties DEF Last
<1>3. c[top].seen \cup {Decoded[t.spelling]} \in SUBSET Names
  BY <1>2 DEF Frames
<1>4. d = [c EXCEPT ![top] = f]
  OBVIOUS
<1> HIDE DEF d
<1>5. f \in Frames /\ f.open = c[top].open /\ f.seen = c[top].seen \cup {Decoded[t.spelling]}
  <2> PICK S \in SUBSET Names : S = c[top].seen \cup {Decoded[t.spelling]}
    BY <1>3
  <2> PICK g \in Frames : g = c[top]
    BY <1>2
  <2> HIDE DEF top
  <2>1. /\ [g EXCEPT !.seen = S] \in Frames
        /\ [g EXCEPT !.seen = S].open = g.open /\ [g EXCEPT !.seen = S].seen = S
    BY SeenFrame, ZenonT(40)
  <2>2. f = [g EXCEPT !.seen = S]
    OBVIOUS
  <2> QED  BY <2>1, <2>2
<1> HIDE DEF f, top
<1>6. d \in Seq(Frames) /\ Len(d) = top
  BY <1>4, <1>2, <1>5, ExceptSeq
<1>7. Depth(Append(s, t), Len(s) + 2) = top
  BY <1>1, NextDepth DEF top
<1>8. ASSUME NEW j \in DOMAIN d
      PROVE  \E k \in DOMAIN Append(s, t) : Holds(Append(s, t), k, d[j], j)
  <2>1. j \in DOMAIN c /\ j \in 1 .. top
    BY <1>2, <1>4, <1>8
  <2>2. Depth(Append(s, t), Len(s) + 2) >= j
    BY <1>2, <1>7, <2>1
  <2>3. d[j] = IF j = top THEN f ELSE c[j]
    BY <1>4, <2>1
  <2>4. c[j] \in Frames
    BY <2>1, ElementOfSeq
  <2>5. /\ d[j] \in Frames /\ d[j].open = c[j].open
        /\ d[j].seen = IF NameAt(Append(s, t), Len(s) + 1) /\ j = top
                       THEN c[j].seen \cup {Decoded[t.spelling]} ELSE c[j].seen
    BY <1>5, <2>3, <2>4
  <2> QED  BY <2>1, <2>2, <2>5, FrameStays DEF top
<1> QED  BY <1>6, <1>7, <1>8, ScannedGrows DEF d, f, top

LEMMA ScannedEntered ==
    ASSUME NEW s \in Seq(Tokens), NEW c \in Seq(Frames), Scanned(s, c), NEW t \in Tokens,
           Clean(Append(s, t), Len(s) + 1), ~NameAt(Append(s, t), Len(s) + 1),
           t.kind \in {"object", "array"}, NEW f \in Frames, f.open = t.kind, f.seen = {}
    PROVE  Scanned(Append(s, t), Append(c, f))
<1> PICK u : u = Append(s, t)
  OBVIOUS
<1> PICK d : d = Append(c, f)
  OBVIOUS
<1>1. /\ Len(s) \in Nat /\ Len(c) \in Nat /\ Len(s) + 1 + 1 = Len(s) + 2
      /\ u[Len(s) + 1] = t /\ DOMAIN u = 1 .. Len(s) + 1 /\ Len(u) + 1 = Len(s) + 2
      /\ \A k \in 1 .. Len(s) : u[k] = s[k]
  BY OneMore, LenProperties
<1>2. /\ d \in Seq(Frames) /\ Len(d) = Len(c) + 1 /\ d[Len(c) + 1] = f
      /\ \A j \in 1 .. Len(c) : d[j] = c[j]
      /\ DOMAIN d = 1 .. Len(c) + 1 /\ DOMAIN c = 1 .. Len(c)
  BY AppendProperties, LenProperties
<1>3. Depth(u, Len(s) + 2) = Len(c) + 1
  BY <1>1, NextDepth
<1>4. ASSUME NEW j \in DOMAIN d
      PROVE  \E k \in DOMAIN u : Holds(u, k, d[j], j)
  <2>1. CASE j \in 1 .. Len(c)
    <3>1. j \in DOMAIN c /\ d[j] = c[j] /\ c[j] \in Frames
      BY <1>2, <2>1, ElementOfSeq
    <3>2. Depth(u, Len(s) + 2) >= j
      BY <1>1, <1>3, <2>1
    <3> QED  BY <3>1, <3>2, FrameStays
  <2>2. CASE j = Len(c) + 1
    <3>2. Len(s) + 1 \in 1 .. Len(s) + 1
      BY <1>1
    <3>3. Depth(u, Len(s) + 1) = Len(c)
      BY NextDepth
    <3>4. \A l \in Len(s) + 1 + 1 .. Len(u) + 1 : l = Len(s) + 2
      BY <1>1
    <3>5. f.seen = ReadIn(u, Len(s) + 1)
      BY ReadGrows
    <3>6. Holds(u, Len(s) + 1, f, j)
      BY <1>1, <1>3, <2>2, <3>3, <3>4, <3>5 DEF Holds
    <3> QED  BY <1>1, <1>2, <2>2, <3>2, <3>6
  <2> QED  BY <1>2, <2>1, <2>2
<1> QED  BY <1>2, <1>3, <1>4, ScannedGrows

LEMMA ScannedLeft ==
    ASSUME NEW s \in Seq(Tokens), NEW c \in Seq(Frames), Scanned(s, c), NEW t \in Tokens,
           Clean(Append(s, t), Len(s) + 1), ~NameAt(Append(s, t), Len(s) + 1),
           t.kind \in {"end_object", "end_array"}, c # <<>>
    PROVE  Scanned(Append(s, t), Front(c))
<1> PICK u : u = Append(s, t)
  OBVIOUS
<1> PICK d : d = Front(c)
  OBVIOUS
<1>1. /\ Len(c) \in Nat \ {0} /\ d \in Seq(Frames) /\ Len(d) = Len(c) - 1
      /\ \A j \in 1 .. Len(c) - 1 : d[j] = c[j]
  BY FrontProperties
<1>2. DOMAIN d = 1 .. Len(c) - 1 /\ DOMAIN c = 1 .. Len(c) /\ Len(s) + 1 + 1 = Len(s) + 2
  BY <1>1, LenProperties
<1>3. Depth(u, Len(s) + 2) = Len(c) - 1
  BY <1>1, <1>2, NextDepth
<1>4. ASSUME NEW j \in DOMAIN d
      PROVE  \E k \in DOMAIN u : Holds(u, k, d[j], j)
  <2>1. j \in DOMAIN c /\ d[j] = c[j] /\ j \in 1 .. Len(c)
    BY <1>1, <1>2
  <2>3. c[j] \in Frames
    BY <2>1, ElementOfSeq
  <2>2. Depth(u, Len(s) + 2) >= j
    BY <1>1, <1>2, <1>3
  <2> QED  BY <2>1, <2>2, <2>3, FrameStays
<1> QED  BY <1>1, <1>3, <1>4, ScannedGrows

(***************************************************************************)
(* What the scanner decides.                                               *)
(***************************************************************************)

\* A token the scanner stops at.
LEMMA TokenFails ==
    ASSUME ScanTypeOK, TextInv, verdict = "scanning", ended' = ended,
           NEW t \in Tokens, text' = Append(text, t), verdict' \in Codes,
           verdict' = "duplicate_member" =>
              /\ WellPlaced(text', Len(text) + 1)
              /\ \E k \in DOMAIN text' : Duplicate(text', k, Len(text) + 1),
           verdict' = "depth_limit_exceeded" =>
              WellPlaced(text', Len(text) + 1) /\ TooDeep(text', Len(text) + 1),
           verdict' = "scan_incomplete" => ~WellPlaced(text', Len(text) + 1)
    PROVE  TextInv' /\ ScanIsExact'
<1> DEFINE n == Len(text)
           p == n + 1
<1>1. /\ text \in Seq(Tokens) /\ stack \in Seq(Frames) /\ ~ended /\ Scanned(text, stack)
  BY DEF ScanTypeOK, TextInv
<1>2. /\ n \in Nat /\ Len(text') = p /\ p - 1 = n /\ p \in DOMAIN text' /\ DOMAIN text = 1 .. n
  BY <1>1, OneMore
<1>3. \A i \in 1 .. n : Clean(text, i)
  BY <1>1, <1>2 DEF Scanned
<1>4. \A i \in 1 .. n : Clean(text', i)
  BY <1>1, <1>3, NextPlace, CleanInPrefix
<1> HIDE DEF n, p
<1>5. verdict' \in {"duplicate_member", "depth_limit_exceeded", "scan_incomplete"}
  BY DEF Codes
<1>6. ~Clean(text', p)
  BY <1>5 DEF Clean, n, p
<1>7. Parsed(TRUE)' # "parsed"
  BY <1>5 DEF Parsed
<1>8. TextInv'
  BY <1>5 DEF TextInv
<1>9. ScanIsExact'
  BY <1>1, <1>2, <1>4, <1>5, <1>6, <1>7 DEF ScanIsExact, n, p
<1> QED  BY <1>8, <1>9

\* A token the scanner goes on after.
LEMMA TokenGoes ==
    ASSUME ScanTypeOK, TextInv, verdict = "scanning", UNCHANGED <<ended, verdict>>,
           NEW t \in Tokens, text' = Append(text, t), Clean(text', Len(text) + 1),
           Scanned(text', stack'), ExpectFollows(expect', text', stack')
    PROVE  TextInv' /\ ScanIsExact'
<1> DEFINE n == Len(text)
           p == n + 1
<1>1. text \in Seq(Tokens) /\ ~ended
  BY DEF ScanTypeOK, TextInv
<1>2. /\ Len(text') = p /\ p - 1 = n /\ \A i \in 1 .. n : i \in DOMAIN text'
  BY <1>1, OneMore
<1>3. \A i \in 1 .. n : Clean(text', i)
  BY <1>2 DEF Scanned
<1> HIDE DEF n, p
<1>4. TextInv'
  BY <1>1 DEF TextInv
<1>5. ScanIsExact'
  BY <1>1, <1>2, <1>3 DEF ScanIsExact, n, p
<1> QED  BY <1>4, <1>5

\* The end of the text: it may be where nothing more is expected, and there alone.
LEMMA EndDecides == ASSUME ScanInv, TextInv, EndOfText PROVE TextInv' /\ ScanIsExact'
<1> DEFINE n == Len(text)
<1>1. /\ text \in Seq(Tokens) /\ stack \in Seq(Frames) /\ expect \in Expectations
      /\ Fits(expect, stack) /\ Scanned(text, stack) /\ ExpectFollows(expect, text, stack)
      /\ verdict = "scanning" /\ ended' = TRUE /\ UNCHANGED <<text, stack, expect>>
      /\ verdict' = IF expect = "end" THEN "accepted" ELSE "scan_incomplete"
  BY DEF EndOfText, ScanInv, ScanTypeOK, ScanTrail, TextInv, ExpectFits
<1>2. n \in Nat /\ DOMAIN text = 1 .. n /\ Depth(text, n + 1) = Len(stack) /\ Len(stack) \in Nat
  BY <1>1, LenProperties, NextPlace
<1>3. text # <<>> <=> n > 0
  BY <1>1, EmptySeq
<1>4. stack = <<>> <=> Len(stack) = 0
  BY <1>1, EmptySeq
<1>5. \A i \in DOMAIN text : Clean(text, i)
  BY <1>1 DEF Scanned
<1>6. ASSUME expect = "end"  PROVE Complete(text) /\ n > 0
  <2>1. stack = <<>> /\ n > 0 /\ AfterOne(text, n + 1)
    BY <1>1, <1>6 DEF Fits, ExpectFollows
  <2>2. Before(text, n + 1) = text[n].kind
    BY <1>2, <2>1 DEF Before
  <2>3. text[n].kind \in {"end_object", "end_array"} \cup Scalars
    BY <2>1, <2>2 DEF AfterOne
  <2> QED  BY <1>2, <1>3, <1>4, <2>1, <2>3 DEF Complete
<1>7. ASSUME expect # "end", Complete(text)  PROVE FALSE
  <2>1. /\ stack = <<>> /\ n > 0
        /\ text[n].kind \in {"end_object", "end_array"} \cup Scalars
    BY <1>2, <1>3, <1>4, <1>7 DEF Complete
  <2>2. expect = "value"
    BY <1>1, <1>7, <2>1 DEF Fits, Expectations
  <2>3. n = 0 \/ text[n].kind \in {"colon", "comma"}
    BY <1>1, <2>2 DEF ExpectFollows
  <2> QED  BY <1>2, <2>1, <2>3 DEF Scalars
<1>8. verdict' # "scanning"
  BY <1>1
<1>9. TextInv'
  BY <1>8 DEF TextInv
<1>10. \A i \in 1 .. n - 1 : i \in DOMAIN text
  BY <1>2
<1>11. n > 0 => n \in DOMAIN text
  BY <1>2
<1>12. CASE expect = "end"
  <2>1. verdict' = "accepted" /\ Complete(text) /\ Clean(text, n)
    BY <1>1, <1>5, <1>6, <1>11, <1>12
  <2>2. Parsed(TRUE)' = IF ~IsJson(text) THEN "not_json" ELSE "parsed"
    BY <1>1, <2>1 DEF Parsed
  <2>3. Parsed(TRUE)' = "parsed" <=> IsJson(text)
    BY <2>2
  <2>4. ScanIsExact'
    BY <1>1, <1>5, <1>10, <2>1, <2>3 DEF ScanIsExact
  <2> QED  BY <1>9, <2>4
<1>13. CASE expect # "end"
  <2>1. verdict' = "scan_incomplete" /\ ~Complete(text)
    BY <1>1, <1>7, <1>13
  <2>2. Parsed(TRUE)' = "scan_incomplete"
    BY <2>1 DEF Parsed
  <2>3. ~IsJson(text)
    BY <2>1 DEF IsJson
  <2>4. ScanIsExact'
    BY <1>1, <1>5, <1>10, <2>1, <2>2, <2>3 DEF ScanIsExact
  <2> QED  BY <1>9, <2>4
<1> QED  BY <1>12, <1>13

LEMMA TokenDecides == ASSUME ScanInv, TextInv, Token PROVE TextInv' /\ ScanIsExact'
<1>1. PICK t \in Tokens : /\ text' = Append(text, t)
                          /\ Value(t) \/ Member(t) \/ Colon(t) \/ Separator(t) \/ Trailing(t)
  BY DEF Token
<1> DEFINE p == Len(text) + 1
<1>2. /\ ScanTypeOK /\ text \in Seq(Tokens) /\ stack \in Seq(Frames) /\ expect \in Expectations
      /\ Fits(expect, stack) /\ Scanned(text, stack) /\ ExpectFollows(expect, text, stack)
      /\ verdict = "scanning" /\ ended' = ended /\ Len(stack) \in Nat /\ MaxDepth \in Nat
  BY DepthAssumption, LenProperties DEF Token, ScanInv, ScanTypeOK, ScanTrail, TextInv, ExpectFits
<1>3. /\ Len(text') = p /\ text'[p] = t /\ p > 0
      /\ p + 1 > 1 /\ p + 1 - 1 = p /\ p + 1 # 1
  BY <1>1, <1>2, OneMore
<1>4. /\ NameAt(text', p) <=> expect \in {"first_member", "member"} /\ t.kind = "string"
      /\ WellPlaced(text', p) <=> Takes(expect, stack, t)
      /\ TooDeep(text', p) <=> t.kind \in {"object", "array"} /\ Len(stack) >= MaxDepth
  BY <1>1, <1>2, NextFits
<1>5. /\ NameAt(text', p) => stack # <<>>
      /\ (\E k \in DOMAIN text' : Duplicate(text', k, p)) <=>
            NameAt(text', p) /\ Decoded[t.spelling] \in Last(stack).seen
  BY <1>1, <1>2, NextName
<1>6. Clean(text', p) <=>
         WellPlaced(text', p) /\ ~TooDeep(text', p)
            /\ ~(NameAt(text', p) /\ Decoded[t.spelling] \in Last(stack).seen)
  BY <1>5 DEF Clean
<1>7. t.kind = "string" => Decoded[t.spelling] \in Names
  <2>1. t.kind = "string" => t.spelling \in Spellings
    BY <1>1 DEF Tokens, Punctuation
  <2> QED  BY <2>1, DecodedAssumption
<1>8. ASSUME Fail("scan_incomplete"), ~Takes(expect, stack, t)
      PROVE  TextInv' /\ ScanIsExact'
  BY <1>1, <1>2, <1>4, <1>8, TokenFails DEF Fail, Codes
<1>9. AfterOne(text', p + 1) <=> /\ ~NameAt(text', p)
                                 /\ t.kind \in {"end_object", "end_array"} \cup Scalars
  BY <1>3 DEF AfterOne, Before
<1>10. ASSUME UNCHANGED verdict, Clean(text', p), Scanned(text', stack'),
              ExpectFollows(expect', text', stack')
       PROVE  TextInv' /\ ScanIsExact'
  BY <1>1, <1>2, <1>10, TokenGoes
<1> HIDE DEF p
<1>11. ASSUME Leave, Clean(text', p), ~NameAt(text', p), stack # <<>>,
              t.kind \in {"end_object", "end_array"}
       PROVE  TextInv' /\ ScanIsExact'
  <2>1. /\ UNCHANGED verdict /\ expect' \in {"separator", "end"} /\ stack' = Front(stack)
    BY <1>11 DEF Leave, AfterValue, Go
  <2>2. Scanned(text', stack')
    BY <1>1, <1>2, <1>11, <2>1, ScannedLeft DEF p
  <2>3. ExpectFollows(expect', text', stack')
    BY <1>3, <1>9, <1>11, <2>1 DEF ExpectFollows
  <2> QED  BY <1>10, <1>11, <2>1, <2>2, <2>3
<1>12. CASE Value(t)
  <2>1. expect \in {"value", "first_element"} /\ ~NameAt(text', p)
    BY <1>4, <1>12 DEF Value
  <2>2. CASE t.kind \in {"object", "array"} /\ Enter(t.kind)
    <3>1. WellPlaced(text', p)
      BY <1>4, <2>1, <2>2 DEF Takes
    <3>2. CASE Len(stack) >= MaxDepth
      <4>1. verdict' = "depth_limit_exceeded" /\ TooDeep(text', p)
        BY <1>2, <1>4, <2>2, <3>2 DEF Enter, Fail
      <4> QED  BY <1>1, <1>2, <3>1, <4>1, TokenFails DEF Codes, p
    <3>3. CASE ~(Len(stack) >= MaxDepth)
      <4> PICK f : f = [open |-> t.kind, seen |-> {},
                        number |-> IF t.kind = "object" THEN objects + 1 ELSE 0]
        OBVIOUS
      <4>1. /\ stack' = Append(stack, f) /\ UNCHANGED verdict
            /\ expect' = IF t.kind = "object" THEN "first_member" ELSE "first_element"
        BY <1>2, <2>2, <3>3 DEF Enter, Go
      <4>2. f \in Frames /\ f.open = t.kind /\ f.seen = {}
        BY <1>2, <2>2 DEF Frames, ScanTypeOK
      <4>3. Clean(text', p)
        BY <1>4, <1>6, <2>1, <3>1, <3>3
      <4>4. Scanned(text', stack')
        BY <1>1, <1>2, <2>1, <2>2, <4>1, <4>2, <4>3, ScannedEntered DEF p
      <4>5. ExpectFollows(expect', text', stack')
        BY <1>3, <2>2, <4>1 DEF ExpectFollows
      <4> QED  BY <1>10, <4>1, <4>3, <4>4, <4>5
    <3> QED  BY <3>2, <3>3
  <2>3. CASE t.kind \in Scalars /\ AfterValue(stack) /\ UNCHANGED <<stack, objects, members>>
    <3>1. UNCHANGED <<verdict, stack>> /\ expect' \in {"separator", "end"}
      BY <2>3 DEF AfterValue, Go
    <3>2. t.kind \notin {"object", "array", "end_object", "end_array"}
      BY <2>3 DEF Scalars
    <3>3. Clean(text', p)
      BY <1>4, <1>6, <2>1, <2>3, <3>2 DEF Takes
    <3>4. Scanned(text', stack')
      BY <1>1, <1>2, <2>1, <3>1, <3>2, <3>3, ScannedStays DEF p
    <3>5. ExpectFollows(expect', text', stack')
      BY <1>3, <1>9, <2>1, <2>3, <3>1 DEF ExpectFollows
    <3> QED  BY <1>10, <3>1, <3>3, <3>4, <3>5
  <2>4. CASE t.kind = "end_array" /\ expect = "first_element" /\ Leave
    <3>1. Clean(text', p)
      BY <1>4, <1>6, <2>1, <2>4 DEF Takes
    <3>2. stack # <<>>
      BY <1>2, <2>4 DEF Fits
    <3> QED  BY <1>11, <2>1, <2>4, <3>1, <3>2
  <2>5. CASE /\ t.kind \notin Scalars \cup {"object", "array"}
             /\ t.kind = "end_array" => expect = "value"
             /\ Fail("scan_incomplete")
    <3>1. ~Takes(expect, stack, t)
      BY <2>1, <2>5 DEF Takes
    <3> QED  BY <1>8, <2>5, <3>1
  <2> QED  BY <1>12, <2>2, <2>3, <2>4, <2>5 DEF Value
<1>13. CASE Member(t)
  <2>1. expect \in {"first_member", "member"} /\ stack # <<>>
    BY <1>2, <1>13 DEF Member, Fits
  <2>2. CASE /\ t.kind = "string" /\ Decoded[t.spelling] \in Last(stack).seen
             /\ Fail("duplicate_member")
    <3>1. WellPlaced(text', p) /\ NameAt(text', p)
      BY <1>4, <2>1, <2>2 DEF Takes
    <3>2. \E k \in DOMAIN text' : Duplicate(text', k, p)
      BY <1>5, <2>2, <3>1
    <3> QED  BY <1>1, <1>2, <2>2, <3>1, <3>2, TokenFails DEF Fail, Codes, p
  <2>3. CASE /\ t.kind = "string" /\ Decoded[t.spelling] \notin Last(stack).seen
             /\ stack' = [stack EXCEPT ![Len(stack)].seen = @ \cup {Decoded[t.spelling]}]
             /\ Go("colon")
    <3>1. UNCHANGED verdict /\ expect' = "colon"
      BY <2>3 DEF Go
    <3>2. WellPlaced(text', p) /\ NameAt(text', p) /\ ~TooDeep(text', p)
      BY <1>4, <2>1, <2>3 DEF Takes
    <3>3. Clean(text', p)
      BY <1>6, <2>3, <3>2
    <3>4. Scanned(text', stack')
      BY <1>1, <1>2, <1>7, <2>3, <3>2, <3>3, ScannedNamed DEF p
    <3>5. ExpectFollows(expect', text', stack')
      BY <1>3, <3>1, <3>2 DEF ExpectFollows
    <3> QED  BY <1>10, <3>1, <3>3, <3>4, <3>5
  <2>4. CASE t.kind = "end_object" /\ expect = "first_member" /\ Leave
    <3>1. ~NameAt(text', p) /\ Clean(text', p)
      BY <1>4, <1>6, <2>4 DEF Takes
    <3> QED  BY <1>11, <2>1, <2>4, <3>1
  <2>5. CASE /\ t.kind # "string" /\ (t.kind = "end_object" => expect = "member")
             /\ Fail("scan_incomplete")
    <3>1. ~Takes(expect, stack, t)
      BY <2>1, <2>5 DEF Takes
    <3> QED  BY <1>8, <2>5, <3>1
  <2> QED  BY <1>13, <2>2, <2>3, <2>4, <2>5 DEF Member
<1>14. ASSUME UNCHANGED <<stack, objects, members>>, NEW e, Go(e),
              t.kind \in {"comma", "colon"}, Takes(expect, stack, t),
              e = "value" => \/ t.kind = "colon"
                             \/ stack # <<>> /\ Last(stack).open = "array",
              e = "member" => t.kind = "comma", e \in {"value", "member"}
       PROVE  TextInv' /\ ScanIsExact'
  <2>1. UNCHANGED <<verdict, stack>> /\ expect' = e
    BY <1>14 DEF Go
  <2>2. ~NameAt(text', p) /\ Clean(text', p)
    BY <1>4, <1>6, <1>14
  <2>3. Scanned(text', stack')
    BY <1>1, <1>2, <1>14, <2>1, <2>2, ScannedStays DEF p
  <2>4. ExpectFollows(expect', text', stack')
    BY <1>3, <1>14, <2>1 DEF ExpectFollows
  <2> QED  BY <1>10, <2>1, <2>2, <2>3, <2>4
<1>15. CASE Colon(t)
  <2>1. CASE t.kind = "colon" /\ Go("value") /\ UNCHANGED <<stack, objects, members>>
    BY <1>14, <1>15, <2>1 DEF Colon, Takes
  <2>2. CASE t.kind # "colon" /\ Fail("scan_incomplete")
    <3>1. ~Takes(expect, stack, t)
      BY <1>15, <2>2 DEF Colon, Takes
    <3> QED  BY <1>8, <2>2, <3>1
  <2> QED  BY <1>15, <2>1, <2>2 DEF Colon
<1>16. CASE Separator(t)
  <2>1. expect = "separator" /\ stack # <<>> /\ Last(stack).open \in {"object", "array"}
    <3>1. expect = "separator" /\ stack # <<>>
      BY <1>2, <1>16 DEF Separator, Fits
    <3>2. Last(stack) \in Frames
      BY <1>2, <3>1, FrontProperties
    <3> QED  BY <3>1, <3>2 DEF Frames
  <2>2. CASE /\ t.kind = "comma"
             /\ Go(IF Last(stack).open = "object" THEN "member" ELSE "value")
             /\ UNCHANGED <<stack, objects, members>>
    <3>1. Takes(expect, stack, t)
      BY <2>1, <2>2 DEF Takes
    <3>2. CASE Last(stack).open = "object"
      BY <1>14, <2>2, <3>1, <3>2
    <3>3. CASE Last(stack).open # "object"
      BY <1>14, <2>1, <2>2, <3>1, <3>3
    <3> QED  BY <3>2, <3>3
  <2>3. CASE t.kind = Closes(Last(stack).open) /\ Leave
    <3>1. t.kind \in {"end_object", "end_array"}
      BY <2>3 DEF Closes
    <3>2. ~NameAt(text', p) /\ Clean(text', p)
      BY <1>4, <1>6, <2>1, <2>3, <3>1 DEF Takes
    <3> QED  BY <1>11, <2>1, <2>3, <3>1, <3>2
  <2>4. CASE t.kind \notin {"comma", Closes(Last(stack).open)} /\ Fail("scan_incomplete")
    <3>1. ~Takes(expect, stack, t)
      BY <2>1, <2>4 DEF Takes
    <3> QED  BY <1>8, <2>4, <3>1
  <2> QED  BY <1>16, <2>2, <2>3, <2>4 DEF Separator
<1>17. CASE Trailing(t)
  <2>1. ~Takes(expect, stack, t)
    BY <1>17 DEF Trailing, Takes
  <2> QED  BY <1>8, <1>17, <2>1 DEF Trailing
<1> QED  BY <1>1, <1>12, <1>13, <1>15, <1>16, <1>17

\* A scan begins, for the first time or again.
LEMMA NothingRead == Scanned(<<>>, <<>>) /\ ExpectFollows("value", <<>>, <<>>)
<1>1. Len(<<>>) = 0 /\ DOMAIN <<>> = {} /\ Depth(<<>>, 1) = 0
  BY DepthStep
<1> QED  BY <1>1 DEF Scanned, ExpectFollows

LEMMA ScanDecides == ASSUME ScanInv, TextInv, Scan PROVE TextInv' /\ ScanIsExact'
BY TokenDecides, EndDecides DEF Scan

LEMMA TextKept ==
    ASSUME UNCHANGED scanner
    PROVE  (TextInv => TextInv') /\ (ScanIsExact => ScanIsExact')
BY DEF scanner, TextInv, ScanIsExact, Parsed

LEMMA TextRestart ==
    ASSUME text' = <<>>, ended' = FALSE, stack' = <<>>, expect' = "value", verdict' = "scanning"
    PROVE  TextInv' /\ ScanIsExact'
<1>1. TextInv'
  BY NothingRead DEF TextInv
<1>2. Len(text') = 0 /\ \A i \in 1 .. Len(text') - 1 : FALSE
  OBVIOUS
<1>3. ScanIsExact'
  BY <1>2 DEF ScanIsExact
<1> QED  BY <1>1, <1>3

(***************************************************************************)
(* Diagnostics and artifacts.                                              *)
(***************************************************************************)

CaptureInv == CaptureTypeOK /\ CaptureTrail /\ DigestIsDeserved

\* Some prefix is the longest that fits.
LEMMA LongestExists ==
    ASSUME NEW F \in SUBSET (0 .. MaxIssues), 0 \in F
    PROVE  \E n \in F : \A m \in F : m <= n
<1>1. F \subseteq 0 .. 8
  BY DEF MaxIssues
<1> QED  BY <1>1

LEMMA KeptType ==
    ASSUME NEW ds \in Seq(Diagnostics)
    PROVE  Kept(ds) \in Seq(Diagnostics)
<1> DEFINE first == SubSeq(ds, 1, AtMost(Len(ds), MaxIssues))
           fits == {n \in 0 .. Len(first) :
                      n > 0 => Serialized(SubSeq(first, 1, n)) <= MaxSerialized}
<1>1. PICK k \in Nat : k = AtMost(Len(ds), MaxIssues) /\ k <= Len(ds) /\ k <= MaxIssues
  BY DEF AtMost, MaxIssues
<1>2. first \in Seq(Diagnostics) /\ Len(first) <= MaxIssues /\ Len(first) \in Nat
  <2>1. \A i \in 1 .. k : ds[i] \in Diagnostics
    BY <1>1
  <2>2. /\ first \in Seq(Diagnostics)
        /\ Len(first) = IF 1 <= k THEN k - 1 + 1 ELSE 0
    BY <1>1, <2>1, SubSeqProperties
  <2>3. CASE 1 <= k
    BY <1>1, <2>2, <2>3 DEF MaxIssues
  <2>4. CASE ~(1 <= k)
    BY <1>1, <2>2, <2>4 DEF MaxIssues
  <2> QED  BY <2>3, <2>4
<1> HIDE DEF first
<1>3. fits \subseteq 0 .. MaxIssues /\ 0 \in fits
  BY <1>2 DEF MaxIssues
<1>4. PICK n \in fits : n = CHOOSE l \in fits : \A m \in fits : m <= l
  BY <1>3, LongestExists
<1>5. n \in Int /\ n <= Len(first)
  BY <1>2, <1>4
<1>6. \A i \in 1 .. n : first[i] \in Diagnostics
  BY <1>2, <1>5
<1>7. SubSeq(first, 1, n) \in Seq(Diagnostics)
  BY <1>5, <1>6, SubSeqProperties
<1>8. Kept(ds) = SubSeq(first, 1, n)
  BY <1>4 DEF Kept, first
<1> QED  BY <1>7, <1>8

LEMMA BoundedType ==
    ASSUME NEW stage \in Stages \cup {"local-structural"}, NEW code \in DiagnosticCodes,
           NEW depth \in Nat, NEW chars \in Nat
    PROVE  Bounded(stage, code, depth, chars) \in Diagnostics
  BY DEF Bounded, AtMost, Diagnostics, MaxPathDepth, MaxSegmentChars

LEMMA DiagnosticType ==
    ASSUME NEW stage \in Stages \cup {"local-structural"}, NEW code \in DiagnosticCodes
    PROVE  <<Diagnostic(stage, code)>> \in Seq(Diagnostics)
<1>1. Diagnostic(stage, code) \in Diagnostics
  BY BoundedType DEF Diagnostic
<1> QED  BY <1>1

LEMMA BoundedSequence ==
    ASSUME NEW stage \in Stages \cup {"local-structural"}, NEW code \in DiagnosticCodes,
           NEW depth \in Nat, NEW chars \in Nat
    PROVE  <<Bounded(stage, code, depth, chars)>> \in Seq(Diagnostics)
<1>1. Bounded(stage, code, depth, chars) \in Diagnostics
  BY BoundedType
<1> QED  BY <1>1

LEMMA FromIssuesType ==
    ASSUME NEW stage \in Stages \cup {"local-structural"}, NEW issues \in IssueLists
    PROVE  FromIssues(stage, issues) \in Seq(Diagnostics)
<1>1. issues \in Seq([known : BOOLEAN, depth : Nat, chars : Nat])
  BY IssuesAssumption
<1>2. \A i \in 1 .. Len(issues) : issues[i] \in [known : BOOLEAN, depth : Nat, chars : Nat]
  BY <1>1, ElementOfSeq
<1>3. \A i \in 1 .. Len(issues) :
         Bounded(stage, IF issues[i].known THEN "known" ELSE "unspecified",
                 issues[i].depth, issues[i].chars) \in Diagnostics
  <2> TAKE i \in 1 .. Len(issues)
  <2>1. issues[i].depth \in Nat /\ issues[i].chars \in Nat
    BY <1>2
  <2>2. (IF issues[i].known THEN "known" ELSE "unspecified") \in DiagnosticCodes
    BY DEF DiagnosticCodes
  <2> QED  BY <2>1, <2>2, BoundedType
<1>4. DOMAIN issues = 1 .. Len(issues) /\ Len(issues) \in Nat
  BY <1>1, LenProperties
<1>5. FromIssues(stage, issues) \in [1 .. Len(issues) -> Diagnostics]
  BY <1>3, <1>4 DEF FromIssues
<1> QED  BY <1>4, <1>5, IsASeq

LEMMA PayloadBound ==
    ASSUME NEW l \in Nat, l <= MaxEncoded
    PROVE  (l * 3) \div 4 \in Nat /\ (l * 3) \div 4 <= MaxDecoded
  BY LimitsAssumption

\* A stage accepts; nothing else changes.
LEMMA AcceptEffect ==
    ASSUME artifact \in Artifacts, NEW stage \in Stages, NEW next, Accept(stage, next)
    PROVE  /\ artifact' \in Artifacts
           /\ artifact'.stages = [artifact.stages EXCEPT ![stage] = "accepted"]
           /\ artifact'.local = artifact.local /\ artifact'.digest = artifact.digest
           /\ artifact'.decoded = artifact.decoded
  BY DEF Accept, Artifacts, Status

LEMMA RejectEffect ==
    ASSUME artifact \in Artifacts, NEW stage \in Stages, NEW ds \in Seq(Diagnostics),
           Reject(stage, ds)
    PROVE  /\ artifact' \in Artifacts
           /\ artifact'.stages = [artifact.stages EXCEPT ![stage] = "rejected"]
           /\ artifact'.local = artifact.local /\ artifact'.digest = artifact.digest
           /\ artifact'.decoded = artifact.decoded
<1>1. Kept(ds) \in Seq(Diagnostics)
  BY KeptType
<1> QED  BY <1>1 DEF Reject, Artifacts, Status

(***************************************************************************)
(* The capture, action by action.                                          *)
(***************************************************************************)

\* The stages a capture has accepted, as a set.
Trail(A) == [s \in Stages |-> IF s \in A THEN "accepted" ELSE "not_evaluated"]

Open == {"utf8", "json", "duplicates", "schema", "scheme", "extensions", "digest"}

LEMMA TrailStep ==
    ASSUME NEW A, NEW stage \in Stages
    PROVE  [Trail(A) EXCEPT ![stage] = "accepted"] = Trail(A \cup {stage})
  BY DEF Trail

\* What is known while a capture goes on.
LEMMA Going ==
    ASSUME CaptureInv, pc \in Open
    PROVE  /\ value \in Values /\ value.name \in HeaderNames /\ value.length <= MaxEncoded
           /\ artifact \in Artifacts /\ ~artifact.digest /\ promoted = "unasked"
           /\ artifact.stages = Trail(AcceptedBefore(pc))
  BY DEF CaptureInv, CaptureTypeOK, CaptureTrail, Open, Trail

\* A value that is not sound is rejected at a stage its field must pass.
LEMMA Rejected ==
    ASSUME artifact \in Artifacts, ~artifact.digest, promoted = "unasked",
           value \in Values, value.name \in HeaderNames, value.length <= MaxEncoded,
           ~Sound(value),
           NEW stage \in Stages, NEW ds \in Seq(Diagnostics), Reject(stage, ds),
           \/ stage \in {"transport", "json", "duplicate-members"}
           \/ stage = "upstream-schema" /\ value.name # "payment-response"
           \/ stage \in {"scheme-payload", "extensions"} /\ value.name = "payment-signature"
    PROVE  CaptureInv'
<1>1. /\ artifact' \in Artifacts /\ ~artifact'.digest
      /\ artifact'.stages = [artifact.stages EXCEPT ![stage] = "rejected"]
  BY RejectEffect
<1>2. artifact'.stages[stage] = "rejected"
  BY <1>1 DEF Artifacts
<1>3. pc' = "captured" /\ value' = value /\ promoted' = promoted
  BY DEF Reject, To
<1>4. CaptureTypeOK' /\ CaptureTrail'
  BY <1>1, <1>3 DEF CaptureTypeOK, CaptureTrail, Pcs
<1>5. DigestIsDeserved'
  BY <1>1, <1>2, <1>3 DEF DigestIsDeserved, Promotable, VerifierAccepts, Passed, HeaderNames
<1> QED  BY <1>4, <1>5 DEF CaptureInv

LEMMA GateStep == ASSUME CaptureInv, Gate PROVE CaptureInv'
  BY DEF CaptureInv, Gate, To, CaptureTypeOK, Pcs, CaptureTrail, NoArtifact, DigestIsDeserved,
         AcceptedBefore, HeaderNames

LEMMA TransportStep == ASSUME CaptureInv, Transport PROVE CaptureInv'
<1>1. /\ value \in Values /\ value.name \in HeaderNames /\ value.length <= MaxEncoded
      /\ artifact = NoArtifact /\ artifact \in Artifacts /\ promoted = "unasked"
      /\ ~artifact.digest
  BY DEF CaptureInv, CaptureTypeOK, CaptureTrail, Transport, NoArtifact
<1>2. "transport" \in Stages
  BY DEF Stages
<1>3. CASE ~value.base64 /\ Reject("transport", <<Diagnostic("transport", "not_standard_base64")>>)
  BY <1>1, <1>2, <1>3, DiagnosticType, Rejected DEF Sound, DiagnosticCodes
<1>4. CASE /\ PayloadLength(value) = 0
           /\ Reject("transport", <<Diagnostic("transport", "empty_payload")>>)
  <2>1. ~Sound(value)
    BY <1>4, LimitsAssumption DEF Sound
  <2> QED  BY <1>1, <1>2, <1>4, <2>1, DiagnosticType, Rejected DEF DiagnosticCodes
<1>5. CASE value.base64 /\ PayloadLength(value) > 0 /\ Accept("transport", "utf8")
  <2>1. /\ artifact' \in Artifacts /\ ~artifact'.digest /\ artifact'.local = "not_evaluated"
        /\ artifact'.stages = [artifact.stages EXCEPT !["transport"] = "accepted"]
    BY <1>1, <1>2, <1>5, AcceptEffect DEF NoArtifact
  <2>2. artifact.stages = Trail({})
    BY <1>1 DEF NoArtifact, Trail
  <2>3. artifact'.stages = Trail({"transport"})
    BY <1>2, <2>1, <2>2, TrailStep
  <2>4. pc' = "utf8" /\ value' = value /\ promoted' = promoted
    BY <1>5 DEF Accept, To
  <2>5. AcceptedBefore("utf8")' = {"transport"}
    BY DEF AcceptedBefore, Stages
  <2> QED  BY <1>1, <1>5, <2>1, <2>3, <2>4, <2>5
           DEF CaptureInv, CaptureTypeOK, CaptureTrail, Pcs, DigestIsDeserved, Trail
<1> QED  BY <1>3, <1>4, <1>5 DEF Transport

LEMMA Utf8Step == ASSUME CaptureInv, Utf8 PROVE CaptureInv'
<1>1. pc \in Open /\ "json" \in Stages
  BY DEF Utf8, Open, Stages
<1>2. CASE ~value.utf8 /\ Reject("json", <<Diagnostic("json", "not_valid_utf8")>>)
  BY <1>1, <1>2, Going, DiagnosticType, Rejected DEF Sound, DiagnosticCodes
<1>3. CASE value.utf8 /\ UNCHANGED artifact /\ To("json")
  <2>1. AcceptedBefore("json")' = AcceptedBefore("utf8")
    BY <1>3 DEF To, AcceptedBefore
  <2> QED  BY <1>1, <1>3, <2>1
           DEF CaptureInv, Utf8, To, CaptureTypeOK, CaptureTrail, Pcs, DigestIsDeserved
<1> QED  BY <1>2, <1>3 DEF Utf8

LEMMA JsonStep == ASSUME CaptureInv, Json PROVE CaptureInv'
<1>1. pc \in Open /\ pc = "json" /\ "json" \in Stages
  BY DEF Json, Open, Stages
<1>2. CASE ~value.decodes /\ Reject("json", <<Diagnostic("json", "upstream_decode_failed")>>)
  BY <1>1, <1>2, Going, DiagnosticType, Rejected DEF Sound, DiagnosticCodes
<1>3. CASE ~value.object /\ Reject("json", <<Diagnostic("json", "not_a_json_object")>>)
  BY <1>1, <1>3, Going, DiagnosticType, Rejected DEF Sound, DiagnosticCodes
<1>4. CASE /\ value.decodes /\ value.object /\ To("duplicates")
           /\ artifact' = [artifact EXCEPT !.stages["json"] = "accepted", !.decoded = TRUE]
  <2>1. /\ artifact' \in Artifacts /\ ~artifact'.digest /\ artifact'.decoded
        /\ artifact'.local = artifact.local
        /\ artifact'.stages = [artifact.stages EXCEPT !["json"] = "accepted"]
    BY <1>1, <1>4, Going DEF Artifacts, Status
  <2>2. pc' = "duplicates" /\ value' = value /\ promoted' = promoted
    BY <1>4 DEF To
  <2>3. AcceptedBefore("duplicates")' = AcceptedBefore("json") \cup {"json"}
    BY <2>2 DEF AcceptedBefore, Stages
  <2>4. artifact'.stages = Trail(AcceptedBefore("duplicates")')
    BY <1>1, <2>1, <2>3, Going, TrailStep
  <2> QED  BY <1>1, <1>4, <2>1, <2>2, <2>4, Going
           DEF CaptureInv, CaptureTypeOK, CaptureTrail, Pcs, DigestIsDeserved, Trail
<1> QED  BY <1>2, <1>3, <1>4 DEF Json

LEMMA DuplicatesStep == ASSUME CaptureInv, Duplicates PROVE CaptureInv'
<1>1. pc \in Open /\ pc = "duplicates" /\ "duplicate-members" \in Stages
  BY DEF Duplicates, Open, Stages
<1>2. CASE /\ value.scan # "accepted"
           /\ \E depth \in 0 .. MaxDepth, chars \in {0, MaxSegmentChars + 1} :
                 Reject("duplicate-members",
                        <<Bounded("duplicate-members", value.scan, depth, chars)>>)
  <2>1. value.scan \in DiagnosticCodes
    BY <1>1, <1>2, Going DEF Values, DiagnosticCodes
  <2>2. PICK depth \in Nat, chars \in Nat :
           Reject("duplicate-members",
                  <<Bounded("duplicate-members", value.scan, depth, chars)>>)
    BY <1>2, DepthAssumption DEF MaxSegmentChars
  <2> QED  BY <1>1, <1>2, <2>1, <2>2, Going, BoundedSequence, Rejected DEF Sound
<1>3. CASE value.scan = "accepted" /\ Accept("duplicate-members", "schema")
  <2>1. /\ artifact' \in Artifacts /\ ~artifact'.digest /\ artifact'.local = artifact.local
        /\ artifact'.decoded = artifact.decoded
        /\ artifact'.stages = [artifact.stages EXCEPT !["duplicate-members"] = "accepted"]
    BY <1>1, <1>3, Going, AcceptEffect
  <2>2. pc' = "schema" /\ value' = value /\ promoted' = promoted
    BY <1>3 DEF Accept, To
  <2>3. AcceptedBefore("schema")' = AcceptedBefore("duplicates") \cup {"duplicate-members"}
    BY <2>2 DEF AcceptedBefore, Stages
  <2>4. artifact'.stages = Trail(AcceptedBefore("schema")')
    BY <1>1, <2>1, <2>3, Going, TrailStep
  <2> QED  BY <1>1, <1>3, <2>1, <2>2, <2>4, Going
           DEF CaptureInv, CaptureTypeOK, CaptureTrail, Pcs, DigestIsDeserved, Trail
<1> QED  BY <1>2, <1>3 DEF Duplicates

LEMMA SchemaStep == ASSUME CaptureInv, Schema PROVE CaptureInv'
<1>1. pc \in Open /\ pc = "schema" /\ "upstream-schema" \in Stages
  BY DEF Schema, Open, Stages
<1>2. value.issues \in IssueLists
  BY <1>1, Going DEF Values
<1>3. CASE /\ value.name # "payment-response" /\ value.issues # <<>>
           /\ Reject("upstream-schema", FromIssues("upstream-schema", value.issues))
  BY <1>1, <1>2, <1>3, Going, FromIssuesType, Rejected DEF Sound
<1>4. CASE /\ value.name # "payment-response" /\ value.issues = <<>>
           /\ Accept("upstream-schema", "scheme")
  <2>1. /\ artifact' \in Artifacts /\ ~artifact'.digest /\ artifact'.local = artifact.local
        /\ artifact'.decoded = artifact.decoded
        /\ artifact'.stages = [artifact.stages EXCEPT !["upstream-schema"] = "accepted"]
    BY <1>1, <1>4, Going, AcceptEffect
  <2>2. pc' = "scheme" /\ value' = value /\ promoted' = promoted
    BY <1>4 DEF Accept, To
  <2>3. AcceptedBefore("scheme")' = AcceptedBefore("schema") \cup {"upstream-schema"}
    BY <1>4, <2>2 DEF AcceptedBefore, Stages
  <2>4. artifact'.stages = Trail(AcceptedBefore("scheme")')
    BY <1>1, <2>1, <2>3, Going, TrailStep
  <2> QED  BY <1>1, <1>4, <2>1, <2>2, <2>4, Going
           DEF CaptureInv, CaptureTypeOK, CaptureTrail, Pcs, DigestIsDeserved, Trail
<1>5. CASE /\ value.name = "payment-response" /\ value.issues # <<>> /\ To("captured")
           /\ artifact' = [artifact EXCEPT !.local = "rejected",
                   !.diagnostics = Kept(FromIssues("local-structural", value.issues))]
  <2>1. Kept(FromIssues("local-structural", value.issues)) \in Seq(Diagnostics)
    BY <1>2, FromIssuesType, KeptType
  <2>2. artifact' \in Artifacts /\ ~artifact'.digest /\ artifact'.local = "rejected"
    BY <1>1, <1>5, <2>1, Going DEF Artifacts, Status
  <2>3. pc' = "captured" /\ value' = value /\ promoted' = promoted /\ promoted = "unasked"
    BY <1>1, <1>5, Going DEF To
  <2>4. CaptureTypeOK' /\ CaptureTrail'
    BY <1>1, <2>2, <2>3, Going DEF CaptureTypeOK, CaptureTrail, Pcs
  <2>5. DigestIsDeserved'
    BY <1>5, <2>2, <2>3 DEF DigestIsDeserved, Promotable, VerifierAccepts, Sound
  <2> QED  BY <2>4, <2>5 DEF CaptureInv
<1>6. CASE /\ value.name = "payment-response" /\ value.issues = <<>> /\ To("scheme")
           /\ artifact' = [artifact EXCEPT !.local = "accepted"]
  <2>1. /\ artifact' \in Artifacts /\ ~artifact'.digest /\ artifact'.local = "accepted"
        /\ artifact'.decoded = artifact.decoded /\ artifact'.stages = artifact.stages
    BY <1>1, <1>6, Going DEF Artifacts, Status
  <2>2. pc' = "scheme" /\ value' = value /\ promoted' = promoted
    BY <1>6 DEF To
  <2>3. AcceptedBefore("scheme")' = AcceptedBefore("schema")
    BY <1>6, <2>2 DEF AcceptedBefore, Stages
  <2>4. artifact'.stages = Trail(AcceptedBefore("scheme")')
    BY <1>1, <2>1, <2>3, Going
  <2> QED  BY <1>1, <1>6, <2>1, <2>2, <2>4, Going
           DEF CaptureInv, CaptureTypeOK, CaptureTrail, Pcs, DigestIsDeserved, Trail
<1> QED  BY <1>3, <1>4, <1>5, <1>6 DEF Schema

LEMMA SchemeStep == ASSUME CaptureInv, Scheme PROVE CaptureInv'
<1>1. pc \in Open /\ pc = "scheme" /\ "scheme-payload" \in Stages
  BY DEF Scheme, Open, Stages
<1>2. CASE value.name # "payment-signature" /\ UNCHANGED artifact /\ To("extensions")
  <2>1. AcceptedBefore("extensions")' = AcceptedBefore("scheme")
    BY <1>2 DEF To, AcceptedBefore, Signed
  <2> QED  BY <1>1, <1>2, <2>1
           DEF CaptureInv, To, CaptureTypeOK, CaptureTrail, Pcs, DigestIsDeserved, Signed
<1>3. CASE /\ value.name = "payment-signature" /\ value.scheme # 0
           /\ Reject("scheme-payload", <<Diagnostic("scheme-payload", SchemeChecks[value.scheme])>>)
  <2>1. value.scheme \in DOMAIN SchemeChecks
    BY <1>1, <1>3, Going DEF Values, SchemeChecks
  <2>2. SchemeChecks[value.scheme] \in DiagnosticCodes
    BY <2>1 DEF DiagnosticCodes
  <2> QED  BY <1>1, <1>3, <2>2, Going, DiagnosticType, Rejected DEF Sound
<1>4. CASE /\ value.name = "payment-signature" /\ value.scheme = 0
           /\ Accept("scheme-payload", "extensions")
  <2>1. /\ artifact' \in Artifacts /\ ~artifact'.digest /\ artifact'.local = artifact.local
        /\ artifact'.decoded = artifact.decoded
        /\ artifact'.stages = [artifact.stages EXCEPT !["scheme-payload"] = "accepted"]
    BY <1>1, <1>4, Going, AcceptEffect
  <2>2. pc' = "extensions" /\ value' = value /\ promoted' = promoted
    BY <1>4 DEF Accept, To
  <2>3. AcceptedBefore("extensions")' = AcceptedBefore("scheme") \cup {"scheme-payload"}
    BY <1>4, <2>2 DEF AcceptedBefore, Stages, Signed
  <2>4. artifact'.stages = Trail(AcceptedBefore("extensions")')
    BY <1>1, <2>1, <2>3, Going, TrailStep
  <2> QED  BY <1>1, <1>4, <2>1, <2>2, <2>4, Going
           DEF CaptureInv, CaptureTypeOK, CaptureTrail, Pcs, DigestIsDeserved, Trail, Signed
<1> QED  BY <1>2, <1>3, <1>4 DEF Scheme

LEMMA ExtensionsStep == ASSUME CaptureInv, Extensions PROVE CaptureInv'
<1>1. pc \in Open /\ pc = "extensions" /\ "extensions" \in Stages
  BY DEF Extensions, Open, Stages
<1>2. CASE /\ ~(value.name = "payment-signature" /\ value.identifier # "absent")
           /\ UNCHANGED artifact /\ To("digest")
  <2>1. AcceptedBefore("digest")' = AcceptedBefore("extensions")
    BY <1>2 DEF To, AcceptedBefore, Signed
  <2> QED  BY <1>1, <1>2, <2>1
           DEF CaptureInv, To, CaptureTypeOK, CaptureTrail, Pcs, DigestIsDeserved, Signed
<1>3. CASE /\ value.name = "payment-signature" /\ value.identifier = "invalid"
           /\ Reject("extensions", <<Diagnostic("extensions", "invalid_payment_identifier")>>)
  BY <1>1, <1>3, Going, DiagnosticType, Rejected DEF Sound, DiagnosticCodes
<1>4. CASE /\ value.name = "payment-signature" /\ value.identifier = "valid"
           /\ Accept("extensions", "digest")
  <2>1. /\ artifact' \in Artifacts /\ ~artifact'.digest /\ artifact'.local = artifact.local
        /\ artifact'.decoded = artifact.decoded
        /\ artifact'.stages = [artifact.stages EXCEPT !["extensions"] = "accepted"]
    BY <1>1, <1>4, Going, AcceptEffect
  <2>2. pc' = "digest" /\ value' = value /\ promoted' = promoted
    BY <1>4 DEF Accept, To
  <2>3. AcceptedBefore("digest")' = AcceptedBefore("extensions") \cup {"extensions"}
    BY <1>4, <2>2 DEF AcceptedBefore, Stages, Signed
  <2>4. artifact'.stages = Trail(AcceptedBefore("digest")')
    BY <1>1, <2>1, <2>3, Going, TrailStep
  <2> QED  BY <1>1, <1>4, <2>1, <2>2, <2>4, Going
           DEF CaptureInv, CaptureTypeOK, CaptureTrail, Pcs, DigestIsDeserved, Trail, Signed
<1> QED  BY <1>2, <1>3, <1>4 DEF Extensions

\* What the trail has come to is what soundness asks, and what every list of stages asks.
LEMMA DigestStep == ASSUME CaptureInv, Digest PROVE CaptureInv'
<1>1. pc \in Open /\ pc = "digest"
  BY DEF Digest, Open
<1>0. CASE UNCHANGED artifact /\ To("thrown")
  BY <1>0, <1>1, Going
     DEF CaptureInv, To, CaptureTypeOK, CaptureTrail, Pcs, DigestIsDeserved
<1> SUFFICES ASSUME artifact' = [artifact EXCEPT !.digest = TRUE], To("captured")
             PROVE  CaptureInv'
  BY <1>0 DEF Digest
<1>2. /\ artifact' \in Artifacts /\ artifact'.digest /\ artifact'.local = artifact.local
      /\ artifact'.stages = artifact.stages /\ artifact'.decoded = artifact.decoded
  BY <1>1, Going DEF Artifacts
<1>3. pc' = "captured" /\ value' = value /\ promoted' = promoted /\ promoted = "unasked"
  BY <1>1, Going DEF To
<1>4. Sound(value)
  <2>1. value.length \in Nat
    BY <1>1, Going, LimitsAssumption DEF Values
  <2>2. PayloadLength(value) \in 1 .. MaxDecoded
    BY <1>1, <2>1, Going, PayloadBound, LimitsAssumption
       DEF CaptureInv, CaptureTrail, PayloadLength
  <2> QED  BY <1>1, <2>2 DEF Sound, CaptureInv, CaptureTrail, Signed
<1>5. \A s \in Stages : artifact.stages[s] = IF s \in AcceptedBefore("digest") THEN "accepted"
                                            ELSE "not_evaluated"
  BY <1>1, Going DEF Trail
<1>6. value.name = "payment-response" => artifact.local = "accepted"
  BY <1>1 DEF CaptureInv, CaptureTrail
<1>7. artifact.decoded
  BY <1>1 DEF CaptureInv, CaptureTrail
<1>8. Passed({"transport", "json", "duplicate-members"})
  BY <1>5 DEF Passed, AcceptedBefore, Stages
<1>9. value.name # "payment-response" => Passed({"upstream-schema"})
  BY <1>5 DEF Passed, AcceptedBefore, Stages
<1>10. value.name = "payment-signature" =>
          Passed({"scheme-payload"}) /\ artifact.stages["extensions"] # "rejected"
  BY <1>5 DEF Passed, AcceptedBefore, Stages, Signed
<1>11. Promotable' /\ VerifierAccepts'
  BY <1>1, <1>2, <1>3, <1>6, <1>7, <1>8, <1>9, <1>10, Going
     DEF Promotable, VerifierAccepts, Passed, HeaderNames
<1>12. CaptureTypeOK' /\ CaptureTrail'
  BY <1>1, <1>2, <1>3, Going DEF CaptureTypeOK, CaptureTrail, Pcs
<1>13. DigestIsDeserved'
  BY <1>2, <1>3, <1>4, <1>11 DEF DigestIsDeserved
<1> QED  BY <1>12, <1>13 DEF CaptureInv

LEMMA RequireStep == ASSUME CaptureInv, Require PROVE CaptureInv'
<1>1. /\ pc = "captured" /\ pc' = "promoted" /\ value' = value /\ artifact' = artifact
      /\ promoted' \in {"yes", "no"} /\ (promoted' = "yes" => Promotable)
  BY DEF Require
<1>2. CaptureTypeOK' /\ CaptureTrail'
  BY <1>1 DEF CaptureInv, CaptureTypeOK, CaptureTrail, Pcs
<1>3. DigestIsDeserved'
  BY <1>1 DEF CaptureInv, DigestIsDeserved, Promotable, VerifierAccepts, Passed
<1> QED  BY <1>2, <1>3 DEF CaptureInv

LEMMA TextReadStep == ASSUME ScanInv, CaptureInv, TextRead PROVE ScanInv' /\ CaptureInv'
<1>1. ScanInv'
  BY ScanRestart DEF TextRead
<1>2. verdict \in {"accepted"} \cup Codes
  BY DEF ScanInv, ScanTypeOK, TextRead
<1>3. value' \in Texts
  BY <1>2 DEF TextRead, Texts
<1>4. /\ pc' = "observe" /\ artifact' = NoArtifact /\ artifact \in Artifacts /\ artifact' = artifact
      /\ promoted' = "unasked"
  BY DEF TextRead, CaptureInv, CaptureTypeOK, CaptureTrail
<1>5. CaptureInv'
  BY <1>3, <1>4 DEF CaptureInv, CaptureTypeOK, CaptureTrail, DigestIsDeserved, Pcs
<1> QED  BY <1>1, <1>5

LEMMA ObserveStep == ASSUME CaptureInv, Observe PROVE CaptureInv'
  BY DEF Observe, CaptureInv, CaptureTypeOK, CaptureTrail, DigestIsDeserved, Pcs

(***************************************************************************)
(* A refusal is named.                                                     *)
(***************************************************************************)

\* The serialization of one diagnostic: the sum over the one place there is.
LEMMA SerializedOne ==
    ASSUME NEW ds, DOMAIN ds = 1 .. 1, Length(ds[1]) \in Nat
    PROVE  Serialized(ds) = Length(ds[1]) + 3
<1> DEFINE f == [n \in DOMAIN ds |-> Length(ds[n]) + 1]
           S == DOMAIN f
           d == Length(ds[1]) + 1
           F(iter) == [s \in SUBSET S |->
                          IF s = {} THEN 2
                          ELSE LET x == CHOOSE y \in s : TRUE IN f[x] + iter[s \ {x}]]
           sum == CHOOSE iter : iter = F(iter)
           w == [s \in SUBSET S |-> IF s = {} THEN 2 ELSE d + 2]
<1>1. S = {1} /\ SUBSET S = {{}, {1}} /\ f[1] = d /\ d \in Nat /\ d = Length(ds[1]) + 1
  OBVIOUS
<1>2. Serialized(ds) = sum[S]
  BY DEF Serialized, FoldFunction, FoldFunctionOnSet, MapThenFoldSet
<1> HIDE DEF f, d
<1>3. w = F(w)
  <2>1. \A s \in SUBSET S : s # {} => (CHOOSE y \in s : TRUE) = 1 /\ f[1] = d /\ s \ {1} = {}
    BY <1>1
  <2>2. w[{}] = 2
    OBVIOUS
  <2>3. \A s \in SUBSET S : w[s] = F(w)[s]
    BY <2>1, <2>2, <1>1
  <2> QED  BY <2>3
<1>4. sum = F(sum)
  BY <1>3
<1> HIDE DEF sum
<1>5. \A s \in SUBSET S : sum[s] = F(sum)[s]
  BY <1>4
<1>6. sum[{}] = 2
  BY <1>5
<1>7. sum[{1}] = f[1] + sum[{1} \ {1}]
  <2>1. sum[{1}] = F(sum)[{1}]
    BY <1>1, <1>5
  <2>2. {1} \in SUBSET S /\ {1} # {} /\ (CHOOSE y \in {1} : TRUE) = 1
    BY <1>1
  <2> QED  BY <2>1, <2>2
<1>8. sum[{1}] = d + 2
  <2>1. {1} \ {1} = {}
    OBVIOUS
  <2> QED  BY <1>1, <1>6, <1>7, <2>1
<1> QED  BY <1>1, <1>2, <1>8

\* What boundDiagnostic makes of a diagnostic fits the cap by itself.
Short(d) == d.depth \in 0 .. MaxPathDepth /\ d.chars \in 0 .. MaxSegmentChars

LEMMA ShortFits ==
    ASSUME NEW d, Short(d)
    PROVE  Length(d) \in Nat /\ Length(d) + 3 <= MaxSerialized
<1>1. /\ d.depth \in 0 .. 8 /\ d.chars \in 0 .. 64
      /\ Length(d) = 82 + d.depth * (d.chars + 3)
  BY DEF Short, Length, MaxPathDepth, MaxSegmentChars, Overhead
<1>2. PICK c \in 3 .. 67 : c = d.chars + 3
  BY <1>1
<1>3. d.depth * c \in Nat /\ d.depth * c <= 8 * 67
  <2>1. \A k \in 0 .. 8 : k * c \in Nat /\ k * c <= 8 * 67
    BY <1>2
  <2> QED  BY <1>1, <2>1
<1> QED  BY <1>1, <1>2, <1>3 DEF MaxSerialized

LEMMA BoundedShort ==
    ASSUME NEW stage, NEW code, NEW depth \in Nat, NEW chars \in Nat
    PROVE  Short(Bounded(stage, code, depth, chars)) /\ Bounded(stage, code, depth, chars).stage = stage
  BY DEF Bounded, Short, AtMost, MaxPathDepth, MaxSegmentChars

\* The diagnostics of one stage, at least one, as boundDiagnostic makes them.
Naming(ds, stage) ==
    ds \in Seq(Diagnostics) /\ ds # <<>> /\ \A i \in DOMAIN ds : Short(ds[i]) /\ ds[i].stage = stage

LEMMA KeptNames ==
    ASSUME NEW stage, NEW ds, Naming(ds, stage)
    PROVE  /\ Kept(ds) # <<>> /\ Len(Kept(ds)) <= MaxIssues
           /\ Serialized(Kept(ds)) <= MaxSerialized
           /\ \A i \in DOMAIN Kept(ds) : Kept(ds)[i].stage = stage
<1> DEFINE first == SubSeq(ds, 1, AtMost(Len(ds), MaxIssues))
           fits == {n \in 0 .. Len(first) :
                      n > 0 => Serialized(SubSeq(first, 1, n)) <= MaxSerialized}
<1>1. /\ ds \in Seq(Diagnostics) /\ Len(ds) \in Nat \ {0} /\ DOMAIN ds = 1 .. Len(ds)
      /\ \A i \in 1 .. Len(ds) : Short(ds[i]) /\ ds[i].stage = stage
  BY EmptySeq DEF Naming
<1>2. PICK k \in Nat \ {0} : k = AtMost(Len(ds), MaxIssues) /\ k <= Len(ds) /\ k <= MaxIssues
  <2> DEFINE l == Len(ds)
  <2>1. l \in Nat \ {0} /\ AtMost(l, 8) \in Nat \ {0} /\ AtMost(l, 8) <= l /\ AtMost(l, 8) <= 8
    <3>1. l \in Nat \ {0}
      BY <1>1
    <3> HIDE DEF l
    <3> QED  BY <3>1 DEF AtMost
  <2> HIDE DEF l
  <2> QED  BY <2>1 DEF l, MaxIssues
<1>3. k \in Int /\ k - 1 + 1 = k /\ 1 <= k /\ \A i \in 1 .. k : 1 + i - 1 = i
  OBVIOUS
<1>4. /\ first \in Seq(Diagnostics) /\ Len(first) = k
      /\ \A i \in 1 .. k : first[i] = ds[i]
  <2>1. \A i \in 1 .. k : ds[i] \in Diagnostics
    BY <1>1, <1>2
  <2>2. /\ first \in Seq(Diagnostics)
        /\ Len(first) = IF 1 <= k THEN k - 1 + 1 ELSE 0
        /\ \A i \in 1 .. k - 1 + 1 : first[i] = ds[1 + i - 1]
    BY <1>2, <1>3, <2>1, SubSeqProperties
  <2> QED  BY <1>3, <2>2
<1> HIDE DEF first
<1>5. ASSUME NEW n \in 1 .. k
      PROVE  /\ SubSeq(first, 1, n) \in Seq(Diagnostics) /\ Len(SubSeq(first, 1, n)) = n
             /\ \A i \in 1 .. n : SubSeq(first, 1, n)[i] = ds[i]
  <2>1. n \in Int /\ n - 1 + 1 = n /\ 1 <= n /\ \A i \in 1 .. n : 1 + i - 1 = i /\ i \in 1 .. k
    OBVIOUS
  <2>2. \A i \in 1 .. n : first[i] \in Diagnostics
    BY <1>4, <2>1
  <2>3. /\ SubSeq(first, 1, n) \in Seq(Diagnostics)
        /\ Len(SubSeq(first, 1, n)) = IF 1 <= n THEN n - 1 + 1 ELSE 0
        /\ \A i \in 1 .. n - 1 + 1 : SubSeq(first, 1, n)[i] = first[1 + i - 1]
    BY <2>1, <2>2, SubSeqProperties
  <2> QED  BY <1>4, <2>1, <2>3
<1>6. 1 \in fits
  <2>1. 1 \in 1 .. k
    BY <1>2
  <2>2. DOMAIN SubSeq(first, 1, 1) = 1 .. 1 /\ SubSeq(first, 1, 1)[1] = ds[1]
    <3>1. /\ SubSeq(first, 1, 1) \in Seq(Diagnostics) /\ Len(SubSeq(first, 1, 1)) = 1
          /\ SubSeq(first, 1, 1)[1] = ds[1]
      BY <1>5, <2>1
    <3> QED  BY <3>1, LenProperties
  <2>3. Short(ds[1])
    BY <1>1
  <2>4. Serialized(SubSeq(first, 1, 1)) <= MaxSerialized
    <3>1. /\ Length(SubSeq(first, 1, 1)[1]) \in Nat
          /\ Length(SubSeq(first, 1, 1)[1]) + 3 <= MaxSerialized
      BY <2>2, <2>3, ShortFits
    <3>2. Serialized(SubSeq(first, 1, 1)) = Length(SubSeq(first, 1, 1)[1]) + 3
      BY <2>2, <3>1, SerializedOne
    <3> QED  BY <3>1, <3>2
  <2> QED  BY <2>4, <1>2, <1>4
<1>7. fits \subseteq 0 .. MaxIssues /\ 0 \in fits
  BY <1>2, <1>4 DEF MaxIssues
<1>8. PICK n \in fits : /\ n = CHOOSE l \in fits : \A m \in fits : m <= l
                        /\ \A m \in fits : m <= n
  BY <1>7, LongestExists
<1>9. n \in 1 .. k /\ Serialized(SubSeq(first, 1, n)) <= MaxSerialized
  <2>1. 1 <= n /\ n \in 0 .. Len(first)
    BY <1>6, <1>8
  <2> QED  BY <2>1, <1>4
<1>10. Kept(ds) = SubSeq(first, 1, n)
  BY <1>8 DEF Kept, first
<1>11. Len(Kept(ds)) = n /\ Kept(ds) \in Seq(Diagnostics) /\ DOMAIN Kept(ds) = 1 .. n
  BY <1>5, <1>9, <1>10
<1>12. \A i \in 1 .. n : Kept(ds)[i].stage = stage
  BY <1>1, <1>2, <1>5, <1>9, <1>10
<1> QED  BY <1>2, <1>9, <1>10, <1>11, <1>12, EmptySeq DEF MaxIssues

LEMMA DiagnosticNames ==
    ASSUME NEW stage \in Stages \cup {"local-structural"}, NEW code \in DiagnosticCodes
    PROVE  Naming(<<Diagnostic(stage, code)>>, stage)
<1>1. Short(Diagnostic(stage, code)) /\ Diagnostic(stage, code).stage = stage
  BY BoundedShort DEF Diagnostic
<1> QED  BY <1>1, DiagnosticType DEF Naming

LEMMA BoundedNames ==
    ASSUME NEW stage \in Stages \cup {"local-structural"}, NEW code \in DiagnosticCodes,
           NEW depth \in Nat, NEW chars \in Nat
    PROVE  Naming(<<Bounded(stage, code, depth, chars)>>, stage)
<1>1. /\ Short(Bounded(stage, code, depth, chars))
      /\ Bounded(stage, code, depth, chars).stage = stage
  BY BoundedShort
<1> QED  BY <1>1, BoundedSequence DEF Naming

LEMMA FromIssuesNames ==
    ASSUME NEW stage \in Stages \cup {"local-structural"}, NEW issues \in IssueLists, issues # <<>>
    PROVE  Naming(FromIssues(stage, issues), stage)
<1>1. issues \in Seq([known : BOOLEAN, depth : Nat, chars : Nat])
  BY IssuesAssumption
<1>2. DOMAIN issues = 1 .. Len(issues) /\ Len(issues) \in Nat \ {0}
  BY <1>1, EmptySeq
<1>3. \A i \in 1 .. Len(issues) : issues[i].depth \in Nat /\ issues[i].chars \in Nat
  <2> TAKE i \in 1 .. Len(issues)
  <2>1. issues[i] \in [known : BOOLEAN, depth : Nat, chars : Nat]
    BY <1>1, ElementOfSeq
  <2> QED  BY <2>1
<1>4. DOMAIN FromIssues(stage, issues) = 1 .. Len(issues)
  BY <1>2 DEF FromIssues
<1>5. \A i \in 1 .. Len(issues) :
         Short(FromIssues(stage, issues)[i]) /\ FromIssues(stage, issues)[i].stage = stage
  BY <1>2, <1>3, BoundedShort DEF FromIssues
<1>6. FromIssues(stage, issues) # <<>>
  BY <1>2, <1>4
<1> QED  BY <1>4, <1>5, <1>6, FromIssuesType DEF Naming

\* A stage that rejects what earlier stages have passed.
LEMMA RefusedBy ==
    ASSUME artifact \in Artifacts, artifact.local # "rejected",
           NEW A, artifact.stages = Trail(A),
           NEW i \in DOMAIN Order, \A j \in DOMAIN Order : j >= i => Order[j] \notin A,
           NEW ds, Naming(ds, Order[i]), Reject(Order[i], ds)
    PROVE  RefusalIsNamed'
<1> DEFINE rejected == {j \in DOMAIN Order : artifact'.stages[Order[j]] = "rejected"}
<1>1. /\ DOMAIN Order = 1 .. 6
      /\ \A j \in 1 .. 6 : Order[j] \in Stages
      /\ \A j, k \in 1 .. 6 : Order[j] = Order[k] => j = k
  BY DEF Order, Stages
<1>2. /\ artifact'.stages = [artifact.stages EXCEPT ![Order[i]] = "rejected"]
      /\ artifact'.local = artifact.local /\ artifact'.diagnostics = Kept(ds)
  BY DEF Reject, Artifacts
<1>3. artifact'.stages = [s \in Stages |-> IF s = Order[i] THEN "rejected"
                                           ELSE IF s \in A THEN "accepted" ELSE "not_evaluated"]
  BY <1>1, <1>2 DEF Trail
<1>4. rejected = {i}
  BY <1>1, <1>3
<1>5. \A j \in DOMAIN Order : j > i => artifact'.stages[Order[j]] = "not_evaluated"
  <2> TAKE j \in DOMAIN Order
  <2> HAVE j > i
  <2>1. j >= i /\ j # i
    BY <1>1
  <2>2. Order[j] \notin A /\ Order[j] # Order[i] /\ Order[j] \in Stages
    BY <1>1, <2>1
  <2> QED  BY <1>3, <2>2
<1>6. Cardinality(rejected) = 1
  BY <1>4, FS_Singleton
<1>7. (CHOOSE j \in rejected : TRUE) = i
  BY <1>4
<1>8. /\ artifact'.diagnostics # <<>> /\ Len(artifact'.diagnostics) <= MaxIssues
      /\ Serialized(artifact'.diagnostics) <= MaxSerialized
      /\ \A j \in DOMAIN artifact'.diagnostics : artifact'.diagnostics[j].stage = Order[i]
  BY <1>2, KeptNames
<1> QED  BY <1>2, <1>4, <1>5, <1>6, <1>7, <1>8 DEF RefusalIsNamed

\* The local check of a settle response rejects what the other stages have passed.
LEMMA RefusedLocally ==
    ASSUME artifact \in Artifacts, NEW A, artifact.stages = Trail(A),
           NEW ds, Naming(ds, "local-structural"),
           artifact' = [artifact EXCEPT !.local = "rejected", !.diagnostics = Kept(ds)]
    PROVE  RefusalIsNamed'
<1>1. /\ artifact'.stages = Trail(A) /\ artifact'.local = "rejected"
      /\ artifact'.diagnostics = Kept(ds)
  BY DEF Artifacts
<1>2. \A j \in DOMAIN Order : Order[j] \in Stages
  BY DEF Order, Stages
<1>3. {j \in DOMAIN Order : artifact'.stages[Order[j]] = "rejected"} = {}
  BY <1>1, <1>2 DEF Trail
<1>4. /\ artifact'.diagnostics # <<>> /\ Len(artifact'.diagnostics) <= MaxIssues
      /\ Serialized(artifact'.diagnostics) <= MaxSerialized
      /\ \A j \in DOMAIN artifact'.diagnostics :
            artifact'.diagnostics[j].stage = "local-structural"
  BY <1>1, KeptNames
<1> QED  BY <1>1, <1>3, <1>4 DEF RefusalIsNamed

\* A step that leaves the capture open, ends it with a digest, or leaves the artifact.
LEMMA RefusalFrame ==
    ASSUME RefusalIsNamed,
           \/ pc' \notin {"captured", "promoted"}
           \/ artifact'.digest
           \/ artifact' = artifact /\ (pc' \in {"captured", "promoted"} =>
                                         pc \in {"captured", "promoted"})
    PROVE  RefusalIsNamed'
<1>1. CASE pc' \notin {"captured", "promoted"} \/ artifact'.digest
  BY <1>1 DEF RefusalIsNamed
<1>2. CASE /\ artifact' = artifact
           /\ pc' \in {"captured", "promoted"} => pc \in {"captured", "promoted"}
  BY <1>2 DEF RefusalIsNamed
<1> QED  BY <1>1, <1>2

LEMMA RefusalStep == ASSUME CaptureInv, RefusalIsNamed, [Next]_vars PROVE RefusalIsNamed'
<1>1. /\ Order[1] = "transport" /\ Order[2] = "json" /\ Order[3] = "duplicate-members"
      /\ Order[4] = "upstream-schema" /\ Order[5] = "scheme-payload" /\ Order[6] = "extensions"
      /\ DOMAIN Order = 1 .. 6 /\ \A j \in 1 .. 6 : Order[j] \in Stages
  BY DEF Order, Stages
<1>2. CASE ReadText \/ TextRead \/ Observe \/ Gate
  BY <1>2, RefusalFrame DEF ReadText, TextRead, Observe, Gate, To, capture
<1>3. CASE Transport
  <2>1. artifact \in Artifacts /\ artifact.stages = Trail({}) /\ artifact.local # "rejected"
    BY <1>3 DEF Transport, CaptureInv, CaptureTypeOK, CaptureTrail, NoArtifact, Trail
  <2>2. ASSUME NEW code \in DiagnosticCodes, Reject("transport", <<Diagnostic("transport", code)>>)
        PROVE  RefusalIsNamed'
    BY <1>1, <2>1, <2>2, RefusedBy, DiagnosticNames
  <2>3. ASSUME Accept("transport", "utf8")  PROVE RefusalIsNamed'
    BY <2>3, RefusalFrame DEF Accept, To
  <2> QED  BY <1>3, <2>2, <2>3 DEF Transport, DiagnosticCodes
<1>4. CASE pc \in Open
  <2>1. artifact \in Artifacts /\ artifact.stages = Trail(AcceptedBefore(pc)) /\ value \in Values
    BY <1>4, Going
  <2>2. artifact.local # "rejected"
    BY <1>4 DEF CaptureInv, CaptureTrail, Open
  <2>3. ASSUME NEW i \in DOMAIN Order, NEW ds, Naming(ds, Order[i]), Reject(Order[i], ds),
               \A j \in DOMAIN Order : j >= i => Order[j] \notin AcceptedBefore(pc)
        PROVE  RefusalIsNamed'
    BY <2>1, <2>2, <2>3, RefusedBy
  <2>4. ASSUME NEW stage, NEW next \in Pcs \ {"captured", "promoted"}, Accept(stage, next)
        PROVE  RefusalIsNamed'
    BY <2>4, RefusalFrame DEF Accept, To
  <2>5. CASE Utf8
    <3>1. \A j \in DOMAIN Order : j >= 2 => Order[j] \notin AcceptedBefore(pc)
      BY <2>5, <1>1 DEF Utf8, AcceptedBefore, Order
    <3>2. ASSUME Reject("json", <<Diagnostic("json", "not_valid_utf8")>>)  PROVE RefusalIsNamed'
      BY <1>1, <2>3, <3>1, <3>2, DiagnosticNames DEF DiagnosticCodes
    <3> QED  BY <2>5, <3>2, RefusalFrame DEF Utf8, To
  <2>6. CASE Json
    <3>1. \A j \in DOMAIN Order : j >= 2 => Order[j] \notin AcceptedBefore(pc)
      BY <2>6, <1>1 DEF Json, AcceptedBefore, Order
    <3>2. ASSUME NEW code \in DiagnosticCodes, Reject("json", <<Diagnostic("json", code)>>)
          PROVE  RefusalIsNamed'
      BY <1>1, <2>3, <3>1, <3>2, DiagnosticNames
    <3> QED  BY <2>6, <3>2, RefusalFrame DEF Json, To, DiagnosticCodes
  <2>7. CASE Duplicates
    <3>1. \A j \in DOMAIN Order : j >= 3 => Order[j] \notin AcceptedBefore(pc)
      BY <2>7, <1>1 DEF Duplicates, AcceptedBefore, Order
    <3>2. value.scan # "accepted" => value.scan \in DiagnosticCodes
      BY <2>1 DEF Values, DiagnosticCodes
    <3>3. ASSUME NEW code \in DiagnosticCodes, NEW depth \in Nat, NEW chars \in Nat,
                 Reject("duplicate-members",
                        <<Bounded("duplicate-members", code, depth, chars)>>)
          PROVE  RefusalIsNamed'
      BY <1>1, <2>3, <3>1, <3>3, BoundedNames
    <3>4. ASSUME NEW depth \in 0 .. MaxDepth, NEW chars \in {0, MaxSegmentChars + 1}
          PROVE  depth \in Nat /\ chars \in Nat
      BY <3>4, DepthAssumption DEF MaxSegmentChars
    <3> QED  BY <2>7, <2>4, <3>2, <3>3, <3>4 DEF Duplicates, Pcs
  <2>8. CASE Schema
    <3>1. \A j \in DOMAIN Order : j >= 4 => Order[j] \notin AcceptedBefore(pc)
      BY <2>8, <1>1 DEF Schema, AcceptedBefore, Order
    <3>2. value.issues \in IssueLists
      BY <2>1 DEF Values
    <3>3. CASE /\ value.issues # <<>>
               /\ Reject("upstream-schema", FromIssues("upstream-schema", value.issues))
      BY <1>1, <2>3, <3>1, <3>2, <3>3, FromIssuesNames
    <3>4. CASE /\ value.issues # <<>>
               /\ artifact' = [artifact EXCEPT !.local = "rejected",
                                   !.diagnostics = Kept(FromIssues("local-structural", value.issues))]
      BY <2>1, <3>2, <3>4, FromIssuesNames, RefusedLocally
    <3>5. CASE To("scheme")
      BY <3>5, RefusalFrame DEF To
    <3> QED  BY <2>8, <2>4, <3>3, <3>4, <3>5 DEF Schema, Pcs
  <2>9. CASE Scheme
    <3>1. \A j \in DOMAIN Order : j >= 5 => Order[j] \notin AcceptedBefore(pc)
      BY <2>9, <1>1 DEF Scheme, AcceptedBefore, Order
    <3>2. value.scheme # 0 => SchemeChecks[value.scheme] \in DiagnosticCodes
      <4>1. value.scheme # 0 => value.scheme \in DOMAIN SchemeChecks
        BY <2>1 DEF Values, SchemeChecks
      <4> QED  BY <4>1 DEF DiagnosticCodes
    <3>3. ASSUME NEW code \in DiagnosticCodes,
                 Reject("scheme-payload", <<Diagnostic("scheme-payload", code)>>)
          PROVE  RefusalIsNamed'
      BY <1>1, <2>3, <3>1, <3>3, DiagnosticNames
    <3>4. ASSUME To("extensions")  PROVE RefusalIsNamed'
      BY <3>4, RefusalFrame DEF To
    <3> QED  BY <2>9, <2>4, <3>2, <3>3, <3>4 DEF Scheme, Pcs
  <2>10. CASE Extensions
    <3>1. \A j \in DOMAIN Order : j >= 6 => Order[j] \notin AcceptedBefore(pc)
      BY <2>10, <1>1 DEF Extensions, AcceptedBefore, Order
    <3>2. ASSUME Reject("extensions", <<Diagnostic("extensions", "invalid_payment_identifier")>>)
          PROVE  RefusalIsNamed'
      BY <1>1, <2>3, <3>1, <3>2, DiagnosticNames DEF DiagnosticCodes
    <3>3. ASSUME To("digest")  PROVE RefusalIsNamed'
      BY <3>3, RefusalFrame DEF To
    <3> QED  BY <2>10, <2>4, <3>2, <3>3 DEF Extensions, Pcs
  <2>11. CASE Digest
    <3>1. artifact'.digest \/ pc' = "thrown"
      BY <2>1, <2>11 DEF Digest, Artifacts, To
    <3> QED  BY <3>1, RefusalFrame
  <2>12. CASE UNCHANGED vars
    BY <2>12, RefusalFrame DEF vars, capture
  <2> QED  BY <1>4, <2>5, <2>6, <2>7, <2>8, <2>9, <2>10, <2>11, <2>12
           DEF Next, Open, ReadText, TextRead, Observe, Gate, Transport, Require, To, capture
<1>5. CASE Require
  BY <1>5, RefusalFrame DEF Require
<1>6. CASE UNCHANGED vars
  BY <1>6, RefusalFrame DEF vars, capture
<1> QED  BY <1>2, <1>3, <1>4, <1>5, <1>6
         DEF Next, Open, Utf8, Json, Duplicates, Schema, Scheme, Extensions, Digest

(***************************************************************************)
(* The specification.                                                      *)
(***************************************************************************)

LEMMA Start == ASSUME Init PROVE IInv
<1>1. ScanInv
  BY ScanStart DEF Init, ScanInit
<1>2. NoArtifact \in Artifacts
  BY EmptySeq DEF NoArtifact, Artifacts, Status
<1>3. TextInv
  BY NothingRead DEF Init, ScanInit, TextInv
<1>4. CaptureInv
  BY <1>2 DEF Init, CaptureInv, CaptureTypeOK, CaptureTrail, DigestIsDeserved, Pcs
<1> QED  BY <1>1, <1>3, <1>4 DEF IInv, ScanInv, CaptureInv

\* What the scan knows of its text, and what it decides, after any step.
LEMMA ExactStep ==
    ASSUME ScanInv, TextInv, [Next]_vars
    PROVE  TextInv' /\ (ScanIsExact => ScanIsExact')
<1>1. CASE ReadText
  BY <1>1, ScanDecides DEF ReadText
<1>2. CASE TextRead
  BY <1>2, TextRestart DEF TextRead
<1>3. CASE UNCHANGED scanner
  BY <1>3, TextKept
<1>4. CASE Observe \/ Gate \/ Transport \/ Utf8 \/ Json \/ Duplicates
  BY <1>3, <1>4 DEF Observe, Gate, Transport, Utf8, Json, Duplicates, Accept, Reject, To
<1>5. CASE Schema \/ Scheme \/ Extensions \/ Digest \/ Require
  BY <1>3, <1>5 DEF Schema, Scheme, Extensions, Digest, Require, Accept, Reject, To
<1>6. CASE UNCHANGED vars
  BY <1>3, <1>6 DEF vars
<1> QED  BY <1>1, <1>2, <1>4, <1>5, <1>6 DEF Next

LEMMA Step == ASSUME IInv, [Next]_vars PROVE IInv'
<1>1. ScanInv /\ TextInv /\ CaptureInv
  BY DEF IInv, ScanInv, CaptureInv
<1>0. TextInv'
  BY <1>1, ExactStep
<1>2. CASE ReadText
  <2>1. ScanInv'
    BY <1>1, <1>2, ScanStep DEF ReadText
  <2>2. CaptureInv'
    BY <1>1, <1>2 DEF ReadText, capture, CaptureInv, CaptureTypeOK, CaptureTrail, NoArtifact,
          DigestIsDeserved
  <2> QED  BY <1>0, <2>1, <2>2 DEF IInv, ScanInv, CaptureInv
<1>3. CASE TextRead
  BY <1>1, <1>0, <1>3, TextReadStep DEF IInv, ScanInv, CaptureInv
<1>4. ASSUME UNCHANGED scanner  PROVE ScanInv'
  BY <1>1, <1>4 DEF scanner, ScanInv, ScanTypeOK, ScanTrail, ExpectFits, Fits, SeenIsRead,
        NumberedApart, Unambiguous
<1>5. CASE Observe \/ Gate
  BY <1>1, <1>0, <1>4, <1>5, ObserveStep, GateStep DEF Observe, Gate, To, IInv, ScanInv, CaptureInv
<1>6. CASE Transport \/ Utf8 \/ Json \/ Duplicates
  <2>1. UNCHANGED scanner
    BY <1>6 DEF Transport, Utf8, Json, Duplicates, Accept, Reject, To
  <2> QED  BY <1>1, <1>0, <1>4, <1>6, <2>1, TransportStep, Utf8Step, JsonStep, DuplicatesStep
           DEF IInv, ScanInv, CaptureInv
<1>7. CASE Schema \/ Scheme \/ Extensions
  <2>1. UNCHANGED scanner
    BY <1>7 DEF Schema, Scheme, Extensions, Accept, Reject, To
  <2> QED  BY <1>1, <1>0, <1>4, <1>7, <2>1, SchemaStep, SchemeStep, ExtensionsStep
           DEF IInv, ScanInv, CaptureInv
<1>8. CASE Digest \/ Require
  <2>1. UNCHANGED scanner
    BY <1>8 DEF Digest, Require, To
  <2> QED  BY <1>1, <1>0, <1>4, <1>8, <2>1, DigestStep, RequireStep DEF IInv, ScanInv, CaptureInv
<1>9. CASE UNCHANGED vars
  <2>1. CaptureInv'
    <3>1. pc' = pc /\ value' = value /\ artifact' = artifact /\ promoted' = promoted
      BY <1>9 DEF vars, capture
    <3>2. CaptureTypeOK'
      BY <1>1, <3>1 DEF CaptureInv, CaptureTypeOK
    <3>3. CaptureTrail'
      BY <1>1, <3>1 DEF CaptureInv, CaptureTrail, AcceptedBefore, Signed
    <3>4. DigestIsDeserved'
      BY <1>1, <3>1 DEF CaptureInv, DigestIsDeserved, Promotable, VerifierAccepts, Passed
    <3> QED  BY <3>2, <3>3, <3>4 DEF CaptureInv
  <2> QED  BY <1>1, <1>0, <1>4, <1>9, <2>1 DEF vars, IInv, ScanInv, CaptureInv
<1> QED  BY <1>2, <1>3, <1>5, <1>6, <1>7, <1>8, <1>9 DEF Next

\* The invariant of the scanner and of the capture (strict-json.ts:86-150,
\* x402-header.ts:370-547) holds for any names and spellings, any depth, texts of any
\* length, and any issues a schema may report.
THEOREM Invariance == Spec => []IInv
<1> QED  BY Start, Step, PTL DEF Spec

\* What is digested is what is sound, and promotion and the verifier agree
\* (x402-header.ts:541, 715-793; verify-evidence.ts:1055-1097).
THEOREM DigestTheorem == Spec => []DigestIsDeserved
<1>1. IInv => DigestIsDeserved
  BY DEF IInv
<1> QED  BY <1>1, Invariance, PTL

\* No object of a text that was read has two members that decode to one name
\* (scanObject, strict-json.ts:106-137).
THEOREM UnambiguousTheorem == Spec => []Unambiguous
<1>1. IInv => Unambiguous
  BY DEF IInv
<1> QED  BY <1>1, Invariance, PTL

\* The scanner decides exactly what the grammar, the names and the depth of a text say
\* (Scanner, strict-json.ts:57-226; parseStrictJson, strict-json.ts:287-297): for texts of
\* any length, any depth bound, and any spellings of any names.
THEOREM ScanIsExactAlways == Spec => []ScanIsExact
<1>1. Init => ScanIsExact
  <2> SUFFICES ASSUME Init PROVE ScanIsExact
    OBVIOUS
  <2>1. text = <<>> /\ verdict = "scanning"
    BY DEF Init, ScanInit
  <2>2. Len(text) = 0 /\ \A i \in 1 .. Len(text) - 1 : FALSE
    BY <2>1
  <2> QED  BY <2>1, <2>2 DEF ScanIsExact
<1>2. IInv /\ ScanIsExact /\ [Next]_vars => ScanIsExact'
  BY ExactStep DEF IInv, ScanInv
<1> QED  BY <1>1, <1>2, Invariance, PTL DEF Spec

\* A refusal names one stage, and keeps at least one diagnostic of it within the caps
\* (boundDiagnostics and finish, x402-header.ts:324-346, 410-413), however many issues a
\* schema reports and however long their paths are.
THEOREM RefusalIsNamedAlways == Spec => []RefusalIsNamed
<1>1. Init => RefusalIsNamed
  BY DEF Init, RefusalIsNamed
<1>2. IInv /\ RefusalIsNamed /\ [Next]_vars => RefusalIsNamed'
  BY RefusalStep DEF IInv, CaptureInv
<1> QED  BY <1>1, <1>2, Invariance, PTL DEF Spec
=============================================================================
