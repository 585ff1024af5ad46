----------------------------- MODULE MC_X402Header -----------------------------
(***************************************************************************)
(* Small instances of X402Header: texts of two names in three spellings,   *)
(* values at the bounds, and lists of issues at and beyond the caps.       *)
(***************************************************************************)
EXTENDS X402Header

CONSTANTS a, b, plain, escaped, second

TheDecoded == [s \in Spellings |-> IF s = second THEN b ELSE a]

Issue(depth, chars) == [known |-> depth < 9, depth |-> depth, chars |-> chars]
Issues(n, depth, chars) == [i \in 1 .. n |-> Issue(depth, chars)]

TheIssueLists == {<<>>, Issues(1, 0, 0), Issues(9, 1, 5), Issues(1, 9, 65), Issues(2, 9, 65)}
TheLengths == {0, 1, 4, MaxEncoded, MaxEncoded + 1}
=============================================================================
