----------------------------- MODULE MCReading ------------------------------
(* Calls of the read tools for TLC: every text, listing and diff up to a     *)
(* few lines, entries and bytes, at every small range, limit and budget.     *)
EXTENDS Reading

UpTo(S, n) == UNION {[1..k -> S] : k \in 0..n}

ReadingLines == [lines : UpTo({0, 2, 5}, 4), start : {1, 2, 5}, end : {0, 2}]

ReadingLists == [tool : {"list", "find", "log"}, size : 0..6, limit : 1..4]

Change(p, h, i) == [paths |-> p, hidden |-> h, inside |-> i]
ChangeSets ==
  {<<>>, <<Change(<<1>>, TRUE, TRUE), Change(<<2>>, FALSE, FALSE)>>,
   <<Change(<<4>>, FALSE, TRUE), Change(<<1, 3>>, FALSE, TRUE), Change(<<3>>, FALSE, TRUE),
     Change(<<2>>, FALSE, TRUE), Change(<<5, 6>>, TRUE, TRUE)>>}
Bytes == {b \in UpTo({"text", "newline", "lead", "cont", "bad"}, 4) : InCharacters(b)}
ReadingDiffs == [changes : ChangeSets, bytes : Bytes, max : {0, 2, 3}]

Texts == [lines : {NoPage, <<>>, <<1, 1>>, <<4>>, <<3, 2>>}, start : {0, 1, 2}, end : {0, 1, 3}]
ReadingFiles == [files : UNION {[1..k -> Texts] : k \in 0..2}, max : {2, 4, 6, 9}]
=============================================================================
