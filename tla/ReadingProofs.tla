---------------------------- MODULE ReadingProofs ----------------------------
(***************************************************************************)
(* What the readers promise for every file, listing, diff and budget: a    *)
(* read_files call keeps within its budget, and pages follow on. The       *)
(* first lemmas are about numbers, and FileProofs uses them too.           *)
(***************************************************************************)
EXTENDS Reading, FiniteSetTheorems, SequenceTheorems, TLAPS

-----------------------------------------------------------------------------
(* Counting up to a number. *)

\* Every set of numbers has a least one.
LEMMA LeastNat ==
  ASSUME NEW T, T \subseteq Nat, T # {}
  PROVE  \E x \in T : \A y \in T : x <= y
<1> DEFINE R == {p \in Nat \X Nat : p[1] < p[2]}
<1>1. IsWellFoundedOn(OpToRel(<, Nat), Nat)
  BY NatLessThanWellFounded
<1>2. OpToRel(<, Nat) = R
  BY DEF OpToRel
<1>3. IsWellFoundedOn(R, Nat)
  BY <1>1, <1>2
<1> HIDE DEF R
<1>4. PICK x \in T : \A y \in T : ~ (<<y, x>> \in R)
  BY <1>3, WFMin
<1>5. \A y \in T : x <= y
  <2> SUFFICES ASSUME NEW y \in T PROVE x <= y
    OBVIOUS
  <2>1. x \in Nat /\ y \in Nat
    OBVIOUS
  <2>2. <<y, x>> \in Nat \X Nat /\ ~(<<y, x>> \in R)
    BY <1>4, <2>1
  <2>3. ~(y < x)
    BY <2>2 DEF R
  <2> QED BY <2>1, <2>3
<1> QED BY <1>5

\* What holds of 0 and is passed on holds of all; the predicate is the set of
\* numbers it holds of.
LEMMA UpTo ==
  ASSUME NEW N \in Nat, NEW P, 0 \in P, \A n \in 1..N : n - 1 \in P => n \in P
  PROVE  \A n \in 0..N : n \in P
<1> DEFINE T == {n \in 0..N : n \notin P}
<1>1. SUFFICES ASSUME T # {} PROVE FALSE
  OBVIOUS
<1>2. PICK x \in T : \A y \in T : x <= y
  <2>1. T \subseteq Nat
    OBVIOUS
  <2> HIDE DEF T
  <2> QED BY <1>1, <2>1, LeastNat
<1>3. x # 0 /\ x \in 0..N /\ x \notin P
  OBVIOUS
<1>4. x \in 1..N /\ x - 1 \in 0..N /\ ~(x <= x - 1)
  BY <1>3
<1>5. x - 1 \notin T
  BY <1>2, <1>4
<1> QED BY <1>3, <1>4, <1>5

\* A function may be defined by what it is at 0 and a step from each number to
\* the next one.
Steps(N, S) == [S \X (1..N) -> S]
Follows(f, N, S, base, step) ==
  f \in [0..N -> S] /\ f[0] = base /\ \A n \in 1..N : f[n] = step[<<f[n - 1], n>>]

\* There is a function that is base at 0 and follows the step.
LEMMA Recursion ==
  ASSUME NEW N \in Nat, NEW S, NEW base \in S, NEW step \in Steps(N, S)
  PROVE  \E f : Follows(f, N, S, base, step)
<1> DEFINE Def(f, m) == f \in [0..m -> S] /\ f[0] = base /\ \A n \in 1..m : f[n] = step[<<f[n - 1], n>>]
           P == {m \in 0..N : \E f : Def(f, m)}
<1>1. 0 \in P
  <2>1. Def([n \in 0..0 |-> base], 0)
    OBVIOUS
  <2>2. \E f : Def(f, 0)
    BY <2>1
  <2> QED BY <2>2
<1>2. ASSUME NEW m \in 1..N, m - 1 \in P PROVE m \in P
  <2>1. PICK f : Def(f, m - 1)
    BY <1>2
  <2>2. m \in Int /\ m - 1 \in 0..(m - 1) /\ f[m - 1] \in S
    BY <2>1
  <2> DEFINE g == [n \in 0..m |-> IF n = m THEN step[<<f[m - 1], m>>] ELSE f[n]]
  <2>3. step[<<f[m - 1], m>>] \in S
    BY <2>2 DEF Steps
  <2>4. \A n \in 0..m : n # m => n \in 0..(m - 1)
    BY <2>2
  <2>5. g \in [0..m -> S]
    BY <2>1, <2>3, <2>4
  <2>6. g[0] = base
    BY <2>1, <2>2
  <2>7. ASSUME NEW n \in 1..m PROVE g[n] = step[<<g[n - 1], n>>]
    <3>1. n - 1 \in 0..m /\ n - 1 # m /\ n \in 0..m /\ g[n - 1] = f[n - 1]
      BY <2>2
    <3>2. CASE n = m
      BY <3>1, <3>2
    <3>3. CASE n # m
      <4>1. n \in 1..(m - 1)
        BY <3>3, <2>2
      <4> QED BY <4>1, <3>1, <3>3, <2>1
    <3> QED BY <3>2, <3>3
  <2>8. Def(g, m)
    BY <2>5, <2>6, <2>7
  <2> HIDE DEF g
  <2> QED BY <2>8
<1>3. N \in P
  <2> HIDE DEF P
  <2> QED BY <1>1, <1>2, UpTo
<1> QED BY <1>3 DEF Follows

-----------------------------------------------------------------------------
(* What the assumption says of the bounds and of the calls. *)

Byte == {"text", "newline", "lead", "cont", "bad"}

\* A change git reports, as GitDiff filters it.
Change == [paths : Seq(Nat), hidden : BOOLEAN, inside : BOOLEAN]

\* A file of a read_files call.
FileAsked == [lines : Seq(Nat) \cup {NoPage}, start : Nat, end : Nat]

\* The bounds of a page of lines, as ReadingAssumption has them.
LEMMA LineBounds ==
  /\ DefaultLines \in Nat \ {0} /\ HardLines \in Nat \ {0} /\ FilesMaxLines \in Nat \ {0}
  /\ MinRead \in Nat /\ DefaultBytes \in Nat /\ HardBytes \in Nat
  BY ReadingAssumption

\* The bounds of a listing.
LEMMA ListBounds == ListSlack \in Nat \ {0} /\ MaxOffset \in Nat /\ FindEntries \in Nat \ {0}
  BY ReadingAssumption

\* The bounds of a diff: no maximum is less than a character.
LEMMA DiffBounds ==
  /\ MinRead \in Nat /\ DiffDefaultBytes \in Nat /\ DiffMaxBytes \in Nat
  /\ MinRead >= 2 /\ DiffDefaultBytes >= 2 /\ DiffMaxBytes >= 2
<1>1. MinRead \in Nat /\ DiffDefaultBytes \in Nat /\ DiffMaxBytes \in Nat
  BY ReadingAssumption
<1>2. 2 \in 0..MinRead /\ 2 \in 0..DiffDefaultBytes /\ 2 \in 0..DiffMaxBytes
  BY ReadingAssumption
<1> QED BY <1>1, <1>2

\* The bounds of a batch of paths.
LEMMA BatchBounds == BatchCount \in Nat /\ BatchBytes \in Nat /\ PathCost \in Nat
  BY ReadingAssumption

\* What a caller asks of a file.
LEMMA LinesAsked ==
  ASSUME NEW arg \in LineReads
  PROVE  arg.lines \in Seq(Nat) /\ arg.start \in Nat \ {0} /\ arg.end \in Nat
<1>1. arg \in [lines : Seq(Nat), start : Nat \ {0}, end : Nat]
  BY ReadingAssumption
<1> QED BY <1>1

\* What a caller asks of a listing, a search or a log.
LEMMA ListAsked ==
  ASSUME NEW arg \in ListReads
  PROVE  arg.tool \in {"list", "find", "log"} /\ arg.size \in Nat /\ arg.limit \in Nat \ {0}
<1>1. arg \in [tool : {"list", "find", "log"}, size : Nat, limit : Nat \ {0}]
  BY ReadingAssumption
<1> QED BY <1>1

\* What a caller asks of a diff, which git gives in characters.
LEMMA DiffAsked ==
  ASSUME NEW arg \in DiffReads
  PROVE  /\ arg.changes \in Seq(Change) /\ arg.bytes \in Seq(Byte) /\ arg.max \in Nat
         /\ InCharacters(arg.bytes) /\ Len(arg.bytes) \in Nat
<1>1. arg \in [changes : Seq(Change), bytes : Seq(Byte), max : Nat]
  BY ReadingAssumption DEF Change, Byte
<1>2. InCharacters(arg.bytes)
  BY ReadingAssumption
<1>3. arg.changes \in Seq(Change) /\ arg.bytes \in Seq(Byte) /\ arg.max \in Nat
  BY <1>1
<1>4. Len(arg.bytes) \in Nat
  BY <1>3
<1> QED BY <1>2, <1>3, <1>4

\* What a caller asks of several files.
LEMMA FilesAsked ==
  ASSUME NEW call \in FileReads
  PROVE  call.files \in Seq(FileAsked) /\ call.max \in Nat
<1>1. call \in [files : Seq(FileAsked), max : Nat]
  BY ReadingAssumption DEF FileAsked
<1> QED BY <1>1

-----------------------------------------------------------------------------
(* Pages of lines. *)

Page == [total : Nat, taken : Nat, used : Nat, end : Nat, cut : BOOLEAN]

\* Taking a line gives a page.
LEMMA TakeType ==
  ASSUME NEW page \in Page, NEW length \in Nat, NEW start \in Nat, NEW last \in Nat, NEW bytes \in Nat
  PROVE  Take(page, length, start, last, bytes) \in Page
<1> DEFINE n == page.total + 1
           cost == length + (IF page.taken > 0 THEN 1 ELSE 0)
<1>1. /\ n \in Nat /\ cost \in Nat /\ page.taken + 1 \in Nat /\ page.used + cost \in Nat
      /\ page = [total |-> page.total, taken |-> page.taken, used |-> page.used, end |-> page.end, cut |-> page.cut]
  BY DEF Page
<1> HIDE DEF n, cost
<1>2. /\ [page EXCEPT !.total = n] \in Page
      /\ [page EXCEPT !.total = n, !.taken = @ + 1, !.used = @ + cost, !.end = n] \in Page
      /\ [total |-> n, taken |-> 1, used |-> bytes, end |-> n, cut |-> TRUE] \in Page
      /\ [page EXCEPT !.total = n, !.cut = TRUE] \in Page
  BY <1>1 DEF Page
<1> QED BY <1>2 DEF Take, n, cost

\* The pages of Taking: empty before the first line, then one line at a time.
LEMMA TakingSteps ==
  ASSUME NEW lines \in Seq(Nat), NEW start \in Nat \ {0}, NEW last \in Nat, NEW bytes \in Nat
  PROVE  LET page == Taking(lines, start, last, bytes)
         IN /\ page \in [0..Len(lines) -> Page]
            /\ page[0] = [total |-> 0, taken |-> 0, used |-> 0, end |-> start - 1, cut |-> FALSE]
            /\ \A n \in 1..Len(lines) : page[n] = Take(page[n - 1], lines[n], start, last, bytes)
<1> DEFINE N == Len(lines)
           base == [total |-> 0, taken |-> 0, used |-> 0, end |-> start - 1, cut |-> FALSE]
           step == [x \in Page \X (1..N) |-> Take(x[1], lines[x[2]], start, last, bytes)]
           Body(p) == [n \in 0..N |-> IF n = 0 THEN base ELSE Take(p[n - 1], lines[n], start, last, bytes)]
<1>1. N \in Nat /\ base \in Page
  BY DEF Page
<1>2. step \in Steps(N, Page)
  <2> SUFFICES ASSUME NEW p \in Page, NEW n \in 1..N PROVE Take(p, lines[n], start, last, bytes) \in Page
    BY DEF Steps
  <2>1. lines[n] \in Nat
    OBVIOUS
  <2> QED BY <2>1, TakeType
<1> HIDE DEF base, N
<1>3. PICK f : Follows(f, N, Page, base, step)
  <2> HIDE DEF step
  <2> QED BY <1>1, <1>2, Recursion
<1>4. ASSUME NEW n \in 1..N PROVE f[n] = Take(f[n - 1], lines[n], start, last, bytes)
  <2>1. n - 1 \in 0..N /\ f[n - 1] \in Page
    BY <1>1, <1>3 DEF Follows
  <2>2. <<f[n - 1], n>> \in Page \X (1..N)
    BY <2>1
  <2> QED BY <1>3, <2>2 DEF Follows
<1>5. f = Body(f)
  BY <1>1, <1>3, <1>4 DEF Follows
<1>6. Taking(lines, start, last, bytes) = CHOOSE p : p = Body(p)
  BY DEF Taking, N, base
<1> DEFINE page == Taking(lines, start, last, bytes)
<1>7. page = Body(page)
  BY <1>5, <1>6
<1> HIDE DEF page
<1>8. page[0] = base /\ \A n \in 1..N : page[n] = Take(page[n - 1], lines[n], start, last, bytes)
  BY <1>1, <1>7
<1> DEFINE P == {n \in 0..N : page[n] \in Page}
<1>9. 0 \in P /\ \A n \in 1..N : n - 1 \in P => n \in P
  <2>1. ASSUME NEW n \in 1..N, n - 1 \in P PROVE n \in P
    <3>1. lines[n] \in Nat /\ n \in 0..N
      BY <1>1 DEF N
    <3>2. page[n - 1] \in Page
      BY <2>1
    <3>3. Take(page[n - 1], lines[n], start, last, bytes) \in Page
      BY <3>1, <3>2, TakeType
    <3>4. page[n] \in Page
      BY <1>8, <3>3
    <3> QED BY <3>1, <3>4
  <2>2. 0 \in P
    BY <1>1, <1>8
  <2> QED BY <2>1, <2>2
<1>10. \A n \in 0..N : n \in P
  <2> HIDE DEF P
  <2> QED BY <1>1, <1>9, UpTo
<1>11. page \in [0..N -> Page]
  BY <1>7, <1>10
<1> QED BY <1>8, <1>11 DEF page, base, N

\* Among the first n lines, a page with one line is as long as it, or no other fits.
OneLine(page, lines, n, bytes) ==
  /\ page.taken = 0 => page.used = 0
  /\ ~page.cut /\ page.taken = 1 => page.end \in 1..n /\ page.used = lines[page.end]
  /\ page.cut /\ page.taken = 1 => LeavesNoRoom(lines, page.end, bytes)

\* A page of lines counts all of them, holds consecutive ones from the first that
\* is asked for, does not exceed its bytes, and is cut where the next line does not
\* fit.
LEMMA PageOfLines ==
  ASSUME NEW lines \in Seq(Nat), NEW start \in Nat \ {0}, NEW last \in Nat, NEW bytes \in Nat
  PROVE  LET page == Taking(lines, start, last, bytes)[Len(lines)]
         IN /\ page \in Page /\ page.total = Len(lines) /\ page.used <= bytes
            /\ page.end + 1 = start + page.taken
            /\ page.taken > 0 => page.end <= Len(lines)
            /\ OneLine(page, lines, Len(lines), bytes)
<1> DEFINE page == Taking(lines, start, last, bytes)
           N == Len(lines)
           Good(p, n) == /\ p.total = n /\ p.used <= bytes
                         /\ p.end + 1 = start + p.taken /\ (p.taken > 0 => p.end <= n)
                         /\ (n < start => p.taken = 0)
                         /\ (~p.cut /\ n + 1 >= start /\ n <= last => p.end = n)
           P == {n \in 0..N : Good(page[n], n) /\ OneLine(page[n], lines, n, bytes)}
<1>1. /\ page \in [0..N -> Page]
      /\ page[0] = [total |-> 0, taken |-> 0, used |-> 0, end |-> start - 1, cut |-> FALSE]
      /\ \A n \in 1..N : page[n] = Take(page[n - 1], lines[n], start, last, bytes)
  BY TakingSteps
<1>2. N \in Nat
  OBVIOUS
<1> HIDE DEF page
<1>3. Good(page[0], 0)
  BY <1>1
<1>4. ASSUME NEW n \in 1..N, Good(page[n - 1], n - 1) PROVE Good(page[n], n)
  <2> DEFINE p == page[n - 1]
             cost == lines[n] + (IF p.taken > 0 THEN 1 ELSE 0)
  <2>0. n - 1 \in 0..N /\ n \in Nat /\ lines[n] \in Nat
    BY <1>2
  <2>1. /\ p \in Page /\ p.total + 1 = n /\ lines[n] \in Nat /\ n \in Nat
        /\ page[n] = Take(p, lines[n], start, last, bytes)
    <3>1. p \in Page
      BY <2>0, <1>1
    <3>2. p.total = n - 1
      BY <1>4
    <3>3. page[n] = Take(p, lines[n], start, last, bytes)
      BY <1>1
    <3> QED BY <2>0, <3>1, <3>2, <3>3
  <2>2. /\ p.total \in Nat /\ p.taken \in Nat /\ p.used \in Nat /\ p.end \in Nat /\ cost \in Nat
        /\ p = [total |-> p.total, taken |-> p.taken, used |-> p.used, end |-> p.end, cut |-> p.cut]
    <3>1. /\ p.total \in Nat /\ p.taken \in Nat /\ p.used \in Nat /\ p.end \in Nat
          /\ p = [total |-> p.total, taken |-> p.taken, used |-> p.used, end |-> p.end, cut |-> p.cut]
      BY <2>1 DEF Page
    <3> DEFINE length == lines[n]
               joined == IF p.taken > 0 THEN 1 ELSE 0
    <3>2. length \in Nat /\ joined \in Nat
      BY <2>1
    <3> HIDE DEF length, joined
    <3>3. length + joined \in Nat
      BY <3>2
    <3> QED BY <3>1, <3>3 DEF length, joined
  <2>3. Good(p, n - 1)
    BY <1>4
  <2> HIDE DEF p
  <2>4. CASE n < start \/ n > last \/ p.cut
    <3>1. page[n] = [total |-> n, taken |-> p.taken, used |-> p.used, end |-> p.end, cut |-> p.cut]
      BY <2>1, <2>2, <2>4 DEF Take
    <3>2. /\ p.used <= bytes /\ p.end + 1 = start + p.taken
          /\ (p.taken > 0 => p.end <= n - 1) /\ (n - 1 < start => p.taken = 0)
          /\ (~p.cut /\ (n - 1) + 1 >= start /\ n - 1 <= last => p.end = n - 1)
      BY <2>3
    <3> DEFINE taken == p.taken
               to == p.end
    <3>3. taken \in Nat /\ to \in Nat /\ n \in Nat
      BY <2>1, <2>2
    <3>4. /\ taken > 0 => to <= n
          /\ n < start => taken = 0
          /\ ~p.cut /\ n + 1 >= start /\ n <= last => to = n
      <4>1. /\ to + 1 = start + taken /\ (taken > 0 => to <= n - 1) /\ (n - 1 < start => taken = 0)
            /\ n < start \/ n > last \/ p.cut
        BY <3>2, <2>4
      <4> HIDE DEF taken, to
      <4> QED BY <3>3, <4>1
    <3> QED BY <3>1, <3>2, <3>4
  <2>5. CASE /\ ~(n < start \/ n > last \/ p.cut) /\ p.used + cost <= bytes
    <3>1. page[n] = [total |-> n, taken |-> p.taken + 1, used |-> p.used + cost, end |-> n, cut |-> FALSE]
      BY <2>1, <2>2, <2>5 DEF Take, Page
    <3>2. p.end = n - 1 /\ ~(n < start)
      BY <2>1, <2>3, <2>5
    <3>3. n + 1 = start + (p.taken + 1)
      BY <2>1, <2>2, <2>3, <3>2
    <3> HIDE DEF cost
    <3> QED BY <3>1, <2>1, <2>5, <3>2, <3>3
  <2>6. CASE /\ ~(n < start \/ n > last \/ p.cut) /\ ~(p.used + cost <= bytes) /\ p.taken = 0
    <3>1. page[n] = [total |-> n, taken |-> 1, used |-> bytes, end |-> n, cut |-> TRUE]
      BY <2>1, <2>2, <2>6 DEF Take
    <3> QED BY <3>1, <2>1, <2>2, <2>3, <2>6
  <2>7. CASE /\ ~(n < start \/ n > last \/ p.cut) /\ ~(p.used + cost <= bytes) /\ p.taken # 0
    <3>1. page[n] = [total |-> n, taken |-> p.taken, used |-> p.used, end |-> p.end, cut |-> TRUE]
      BY <2>1, <2>2, <2>7 DEF Take
    <3> QED BY <3>1, <2>1, <2>2, <2>3, <2>7
  <2> QED BY <2>4, <2>5, <2>6, <2>7
<1>7. OneLine(page[0], lines, 0, bytes)
  BY <1>1 DEF OneLine
<1>8. ASSUME NEW n \in 1..N, Good(page[n - 1], n - 1), OneLine(page[n - 1], lines, n - 1, bytes)
      PROVE  OneLine(page[n], lines, n, bytes)
  <2> DEFINE p == page[n - 1]
             length == lines[n]
             to == p.end
             taken == p.taken
             used == p.used
             cost == length + (IF taken > 0 THEN 1 ELSE 0)
  <2>1. n - 1 \in 0..N /\ n \in 1..N /\ n \in Nat /\ length \in Nat /\ n \in DOMAIN lines
    BY <1>2
  <2>2. p \in Page
    BY <1>1, <2>1
  <2>3. page[n] = Take(p, length, start, last, bytes) /\ p.total + 1 = n
    BY <1>1, <1>8, <2>1
  <2>4. /\ to \in Nat /\ taken \in Nat /\ used \in Nat /\ p.cut \in BOOLEAN
        /\ p = [total |-> p.total, taken |-> taken, used |-> used, end |-> to, cut |-> p.cut]
    BY <2>2 DEF Page
  <2>5. /\ to + 1 = start + taken /\ (taken > 0 => to <= n - 1) /\ (n - 1 < start => taken = 0)
        /\ (~p.cut /\ (n - 1) + 1 >= start /\ n - 1 <= last => to = n - 1)
    BY <1>8
  <2>6. /\ ~p.cut /\ taken = 1 => to \in 1..n-1 /\ used = lines[to]
        /\ p.cut /\ taken = 1 => LeavesNoRoom(lines, to, bytes)
        /\ taken = 0 => used = 0
    BY <1>8 DEF OneLine
  <2> HIDE DEF p, length, to, taken, used
  <2>7. CASE n < start \/ n > last \/ p.cut
    <3>1. page[n] = [total |-> n, taken |-> taken, used |-> used, end |-> to, cut |-> p.cut]
      BY <2>3, <2>4, <2>7 DEF Take, taken, used, to
    <3> QED BY <3>1, <2>1, <2>4, <2>6 DEF OneLine
  <2>8. CASE ~(n < start \/ n > last \/ p.cut) /\ used + cost <= bytes
    <3>1. page[n] = [total |-> n, taken |-> taken + 1, used |-> used + cost, end |-> n, cut |-> FALSE]
      BY <2>3, <2>4, <2>8 DEF Take, taken, used, to
    <3>5. length \in Nat /\ taken \in Nat /\ (taken = 0 => used = 0)
      BY <2>1, <2>4, <2>6
    <3>2. taken + 1 # 0 /\ (taken + 1 = 1 => used + cost = length)
      BY <3>5
    <3> HIDE DEF cost
    <3>3. /\ page[n].taken = taken + 1 /\ page[n].cut = FALSE
          /\ page[n].end = n /\ page[n].used = used + cost
      BY <3>1
    <3>4. n \in 1..n /\ length = lines[n]
      BY <2>1 DEF length
    <3> QED BY <3>2, <3>3, <3>4 DEF OneLine
  <2>9. CASE ~(n < start \/ n > last \/ p.cut) /\ ~(used + cost <= bytes) /\ taken = 0
    <3>1. page[n] = [total |-> n, taken |-> 1, used |-> bytes, end |-> n, cut |-> TRUE]
      BY <2>3, <2>4, <2>9 DEF Take, taken, used, to
    <3>2. length > bytes
      BY <2>1, <2>4, <2>6, <2>9
    <3>3. LeavesNoRoom(lines, n, bytes)
      BY <3>2, <2>1 DEF LeavesNoRoom, length
    <3> QED BY <3>1, <3>3 DEF OneLine
  <2>10. CASE ~(n < start \/ n > last \/ p.cut) /\ ~(used + cost <= bytes) /\ taken # 0
    <3>1. page[n] = [total |-> n, taken |-> taken, used |-> used, end |-> to, cut |-> TRUE]
      BY <2>3, <2>4, <2>10 DEF Take, taken, used, to
    <3>2. SUFFICES ASSUME taken = 1 PROVE LeavesNoRoom(lines, to, bytes)
      BY <3>1, <2>10 DEF OneLine
    <3>3. to \in 1..n-1 /\ used = lines[to] /\ to = n - 1
      BY <3>2, <2>1, <2>5, <2>6, <2>10
    <3>4. to \in DOMAIN lines /\ to + 1 = n /\ to < Len(lines)
      BY <3>3, <1>2
    <3>5. cost = length + 1 /\ used + cost > bytes
      BY <3>2, <2>1, <2>4, <2>10
    <3>8. length \in Nat /\ used \in Nat
      BY <2>1, <2>4
    <3> HIDE DEF cost
    <3>6. used + 1 + length > bytes
      BY <3>5, <3>8
    <3>7. length = lines[to + 1]
      BY <3>4 DEF length
    <3> QED BY <3>3, <3>4, <3>6, <3>7 DEF LeavesNoRoom
  <2> QED BY <2>4, <2>7, <2>8, <2>9, <2>10
<1>5. N \in P
  <2>1. 0 \in P /\ \A n \in 1..N : n - 1 \in P => n \in P
    BY <1>2, <1>3, <1>4, <1>7, <1>8
  <2>2. \A n \in 0..N : n \in P
    <3> HIDE DEF P, N
    <3> QED BY <1>2, <2>1, UpTo
  <2> QED BY <1>2, <2>2
<1>6. page[N] \in Page
  <2>1. N \in 0..N
    BY <1>2
  <2> HIDE DEF N
  <2> QED BY <1>1, <2>1
<1> QED BY <1>5, <1>6 DEF page

\* The page is of these lines, starts at this one, keeps to a maximum no less than
\* MinRead, and ends with its first line only where the next has no room.
Fits(page, lines, start, max) ==
  /\ page \in Page /\ page.total = Len(lines)
  /\ page.end + 1 = start + page.taken
  /\ page.taken > 0 => page.end <= Len(lines)
  /\ max >= MinRead => page.used <= max
  /\ page.cut /\ page.taken = 1 => LeavesNoRoom(lines, page.end, ReadBytes(max))

\* The page TextRange returns is what was asked for.
LEMMA TextRangeFits ==
  ASSUME NEW lines \in Seq(Nat), NEW start \in Nat \ {0}, NEW end \in Nat, NEW maxLines \in Nat \ {0}, NEW max \in Nat
  PROVE  Fits(TextRange(lines, start, end, maxLines, max), lines, start, max)
<1>1. /\ MinRead \in Nat /\ DefaultBytes \in Nat /\ HardBytes \in Nat /\ HardLines \in Nat \ {0}
  BY LineBounds
<1>2. RangeEnd(start, end, maxLines) \in Nat
  BY <1>1 DEF RangeEnd, AtMost
<1>3. ReadBytes(max) \in Nat /\ (max >= MinRead => ReadBytes(max) <= max)
  BY <1>1 DEF ReadBytes, AtMost
<1> DEFINE page == Taking(lines, start, RangeEnd(start, end, maxLines), ReadBytes(max))[Len(lines)]
<1>4. /\ page \in Page /\ page.total = Len(lines) /\ page.used <= ReadBytes(max)
      /\ page.end + 1 = start + page.taken
      /\ page.taken > 0 => page.end <= Len(lines)
      /\ OneLine(page, lines, Len(lines), ReadBytes(max))
  BY <1>2, <1>3, PageOfLines
<1>5. page.used \in Nat
  BY <1>4 DEF Page
<1>6. max >= MinRead => page.used <= max
  BY <1>1, <1>3, <1>4, <1>5
<1>7. page.cut /\ page.taken = 1 => LeavesNoRoom(lines, page.end, ReadBytes(max))
  BY <1>4 DEF OneLine
<1> QED BY <1>4, <1>6, <1>7 DEF TextRange, Fits

-----------------------------------------------------------------------------
(* Files on one budget. *)

\* What is known after some files of a call.
ReadState(budget) ==
  {x \in [returned : Nat, items : Seq(Page \cup {NoPage}), truncated : BOOLEAN, full : BOOLEAN] :
     x.returned <= budget /\ (x.full => x.truncated)}

\* Reading a file keeps within the budget, and adds an item unless it is used up.
LEMMA ReadNextType ==
  ASSUME NEW budget \in Nat, NEW x \in ReadState(budget), NEW f \in FileAsked
  PROVE  /\ ReadNext(x, f, budget) \in ReadState(budget)
         /\ \/ ReadNext(x, f, budget).full
            \/ ~x.full /\ Len(ReadNext(x, f, budget).items) = Len(x.items) + 1
<1> DEFINE left == budget - x.returned
           page == TextRange(f.lines, FirstLine(f), f.end, FilesMaxLines, left)
           y == ReadNext(x, f, budget)
<1>1. /\ x.returned \in Nat /\ x.items \in Seq(Page \cup {NoPage}) /\ x.truncated \in BOOLEAN /\ x.full \in BOOLEAN
      /\ x = [returned |-> x.returned, items |-> x.items, truncated |-> x.truncated, full |-> x.full]
      /\ x.returned <= budget /\ (x.full => x.truncated)
  BY DEF ReadState
<1>2. left \in Nat /\ x.returned + left = budget /\ MinRead \in Nat /\ FilesMaxLines \in Nat \ {0}
  <2> DEFINE spent == x.returned
  <2>1. spent \in Nat /\ spent <= budget
    BY <1>1
  <2> HIDE DEF spent
  <2>2. budget - spent \in Nat /\ spent + (budget - spent) = budget
    BY <2>1
  <2> QED BY <2>2, LineBounds DEF spent
<1>3. CASE x.full \/ left < MinRead
  <2>1. y = [returned |-> x.returned, items |-> x.items, truncated |-> TRUE, full |-> TRUE]
    BY <1>1, <1>3 DEF ReadNext
  <2> QED BY <2>1, <1>1 DEF ReadState
<1>4. CASE ~(x.full \/ left < MinRead) /\ f.lines = NoPage
  <2>1. y = [returned |-> x.returned, items |-> Append(x.items, NoPage), truncated |-> x.truncated, full |-> x.full]
    BY <1>1, <1>4 DEF ReadNext
  <2>2. Append(x.items, NoPage) \in Seq(Page \cup {NoPage}) /\ Len(Append(x.items, NoPage)) = Len(x.items) + 1
    BY <1>1
  <2> HIDE DEF y
  <2>3. y \in ReadState(budget)
    BY <2>1, <2>2, <1>1 DEF ReadState
  <2> QED BY <2>1, <2>2, <2>3, <1>4 DEF y
<1>5. CASE ~(x.full \/ left < MinRead) /\ f.lines # NoPage
  <2>0. f.lines \in Seq(Nat) /\ FirstLine(f) \in Nat \ {0} /\ f.end \in Nat
    BY <1>5 DEF FileAsked, FirstLine, AtLeast
  <2>1. page \in Page /\ page.used \in Nat /\ page.used <= left
    <3>1. left >= MinRead
      BY <1>2, <1>5
    <3>2. Fits(page, f.lines, FirstLine(f), left)
      <4> DEFINE lines == f.lines
                 from == FirstLine(f)
                 end == f.end
      <4>1. /\ lines \in Seq(Nat) /\ from \in Nat \ {0} /\ end \in Nat /\ FilesMaxLines \in Nat \ {0}
            /\ left \in Nat
        BY <1>2, <2>0
      <4> HIDE DEF left, lines, from, end
      <4>2. Fits(TextRange(lines, from, end, FilesMaxLines, left), lines, from, left)
        BY <4>1, TextRangeFits
      <4> QED BY <4>2 DEF lines, from, end
    <3> QED BY <3>1, <3>2 DEF Fits, Page
  <2>2. y = [returned |-> x.returned + page.used, items |-> Append(x.items, page),
             truncated |-> x.truncated \/ (Unread(page) /\ page.used = left), full |-> x.full]
    BY <1>1, <1>5 DEF ReadNext
  <2> HIDE DEF page, y
  <2>3. Append(x.items, page) \in Seq(Page \cup {NoPage}) /\ Len(Append(x.items, page)) = Len(x.items) + 1
    BY <1>1, <2>1
  <2>4. x.returned + page.used \in Nat /\ x.returned + page.used <= budget
    BY <1>1, <1>2, <2>1
  <2>5. (x.truncated \/ (Unread(page) /\ page.used = left)) \in BOOLEAN
    BY <1>1
  <2>6. y \in ReadState(budget)
    BY <2>2, <2>3, <2>4, <2>5, <1>1, <1>5 DEF ReadState
  <2> QED BY <2>2, <2>3, <2>6, <1>5 DEF y
<1> QED BY <1>3, <1>4, <1>5

\* What ReadSoFar is: nothing before the first file, then one file at a time.
LEMMA ReadSoFarSteps ==
  ASSUME NEW files \in Seq(FileAsked), NEW budget \in Nat
  PROVE  LET sofar == ReadSoFar(files, budget)
         IN /\ sofar \in [0..Len(files) -> ReadState(budget)]
            /\ sofar[0] = [returned |-> 0, items |-> <<>>, truncated |-> FALSE, full |-> FALSE]
            /\ \A n \in 1..Len(files) : sofar[n] = ReadNext(sofar[n - 1], files[n], budget)
<1> DEFINE N == Len(files)
           S == ReadState(budget)
           base == [returned |-> 0, items |-> <<>>, truncated |-> FALSE, full |-> FALSE]
           step == [x \in S \X (1..N) |-> ReadNext(x[1], files[x[2]], budget)]
           Body(p) == [n \in 0..N |-> IF n = 0 THEN base ELSE ReadNext(p[n - 1], files[n], budget)]
<1>1. N \in Nat /\ base \in S
  BY DEF ReadState
<1> HIDE DEF S
<1>2. step \in Steps(N, S)
  <2> SUFFICES ASSUME NEW x \in S, NEW n \in 1..N PROVE ReadNext(x, files[n], budget) \in S
    BY DEF Steps
  <2>1. files[n] \in FileAsked
    OBVIOUS
  <2> QED BY <2>1, ReadNextType DEF S
<1> HIDE DEF base, N
<1>3. PICK f : Follows(f, N, S, base, step)
  <2> HIDE DEF step
  <2> QED BY <1>1, <1>2, Recursion
<1>4. ASSUME NEW n \in 1..N PROVE f[n] = ReadNext(f[n - 1], files[n], budget)
  <2>1. n - 1 \in 0..N /\ f[n - 1] \in S
    BY <1>1, <1>3 DEF Follows
  <2>2. <<f[n - 1], n>> \in S \X (1..N)
    BY <2>1
  <2> QED BY <1>3, <2>2 DEF Follows
<1>5. f = Body(f)
  BY <1>1, <1>3, <1>4 DEF Follows
<1>6. ReadSoFar(files, budget) = CHOOSE p : p = Body(p)
  BY DEF ReadSoFar, N, base
<1> DEFINE sofar == ReadSoFar(files, budget)
<1>7. sofar = Body(sofar)
  BY <1>5, <1>6
<1> HIDE DEF sofar
<1>8. sofar[0] = base /\ \A n \in 1..N : sofar[n] = ReadNext(sofar[n - 1], files[n], budget)
  BY <1>1, <1>7
<1> DEFINE P == {n \in 0..N : sofar[n] \in S}
<1>9. 0 \in P /\ \A n \in 1..N : n - 1 \in P => n \in P
  <2>1. ASSUME NEW n \in 1..N, n - 1 \in P PROVE n \in P
    <3>1. files[n] \in FileAsked /\ n \in 0..N
      BY <1>1 DEF N
    <3>2. sofar[n - 1] \in S
      BY <2>1
    <3>3. ReadNext(sofar[n - 1], files[n], budget) \in S
      BY <3>1, <3>2, ReadNextType DEF S
    <3>4. sofar[n] \in S
      BY <1>8, <3>3
    <3> QED BY <3>1, <3>4
  <2>2. 0 \in P
    BY <1>1, <1>8
  <2> QED BY <2>1, <2>2
<1>10. \A n \in 0..N : n \in P
  <2> HIDE DEF P
  <2> QED BY <1>1, <1>9, UpTo
<1>11. sofar \in [0..N -> S]
  BY <1>7, <1>10
<1> QED BY <1>8, <1>11 DEF sofar, base, N, S

\* As long as the budget lasts, every file has an item.
LEMMA ReadManyFits ==
  ASSUME NEW files \in Seq(FileAsked), NEW budget \in Nat
  PROVE  LET a == ReadMany(files, budget)
         IN a.returned <= a.budget /\ (a.remaining > 0 => a.truncated)
<1> DEFINE sofar == ReadSoFar(files, budget)
           N == Len(files)
           P == {n \in 0..N : sofar[n].full \/ Len(sofar[n].items) = n}
<1>1. /\ sofar \in [0..N -> ReadState(budget)]
      /\ sofar[0] = [returned |-> 0, items |-> <<>>, truncated |-> FALSE, full |-> FALSE]
      /\ \A n \in 1..N : sofar[n] = ReadNext(sofar[n - 1], files[n], budget)
  BY ReadSoFarSteps
<1>2. N \in Nat
  OBVIOUS
<1> HIDE DEF sofar
<1>3. 0 \in P
  BY <1>1, <1>2
<1>4. ASSUME NEW n \in 1..N, n - 1 \in P PROVE n \in P
  <2>1. n - 1 \in 0..N /\ files[n] \in FileAsked /\ n \in 0..N
    BY <1>2
  <2>2. sofar[n - 1] \in ReadState(budget)
    BY <1>1, <2>1
  <2>3. sofar[n].full \/ (~sofar[n - 1].full /\ Len(sofar[n].items) = Len(sofar[n - 1].items) + 1)
    BY <1>1, <2>1, <2>2, ReadNextType
  <2>4. sofar[n - 1].full \/ Len(sofar[n - 1].items) = n - 1
    BY <1>4
  <2>5. sofar[n].full \/ Len(sofar[n].items) = n
    BY <2>1, <2>3, <2>4
  <2> QED BY <2>1, <2>5
<1>5. \A n \in 0..N : n \in P
  <2> HIDE DEF P, N
  <2> QED BY <1>2, <1>3, <1>4, UpTo
<1>6. sofar[N].full \/ Len(sofar[N].items) = N
  BY <1>2, <1>5
<1>7. sofar[N].returned <= budget /\ (sofar[N].full => sofar[N].truncated)
  BY <1>1, <1>2 DEF ReadState
<1> QED BY <1>2, <1>6, <1>7 DEF ReadMany, sofar

\* A read_files call returns no more bytes than its budget, whatever the files
\* hold, and an answer that leaves files out says so.
THEOREM BudgetIsKept == ReadingSpec => []WithinBudget
<1>1. ReadingInit => WithinBudget
  BY DEF ReadingInit, WithinBudget
<1>2. WithinBudget /\ [ReadingNext]_readingVars => WithinBudget'
  <2> SUFFICES ASSUME WithinBudget, [ReadingNext]_readingVars PROVE WithinBudget'
    OBVIOUS
  <2>1. CASE answer' = answer
    BY <2>1 DEF WithinBudget
  <2>2. ASSUME NEW call \in FileReads, ReadFiles(call) PROVE WithinBudget'
    <3>1. call.files \in Seq(FileAsked) /\ call.max \in Nat
      BY FilesAsked
    <3>2. answer' = ReadMany(call.files, call.max)
      BY <2>2 DEF ReadFiles
    <3> QED BY <3>1, <3>2, ReadManyFits DEF WithinBudget
  <2> QED BY <2>1, <2>2 DEF ReadingNext, readingVars, Ask, Follow, LinePage, ListPage, DiffPage
<1> QED BY <1>1, <1>2, PTL DEF ReadingSpec

-----------------------------------------------------------------------------
(* Pages of a diff. *)

\* The greatest number of a set of numbers that has a bound.
LEMMA MaxUpTo ==
  ASSUME NEW m \in Nat, NEW T \in SUBSET (0..m), T # {}
  PROVE  Max(T) \in T /\ \A x \in T : x <= Max(T)
<1> DEFINE R == {m - x : x \in T}
<1>1. R \subseteq Nat /\ R # {}
  <2>1. ASSUME NEW x \in T PROVE m - x \in Nat
    <3>1. x \in 0..m
      OBVIOUS
    <3> QED BY <3>1
  <2>2. PICK x \in T : TRUE
    OBVIOUS
  <2>3. m - x \in R
    BY <2>2
  <2> QED BY <2>1, <2>3
<1>2. PICK r \in R : \A y \in R : r <= y
  <2> HIDE DEF R
  <2> QED BY <1>1, LeastNat
<1>3. PICK t \in T : r = m - t
  BY <1>2
<1>4. \A x \in T : t >= x
  <2> SUFFICES ASSUME NEW x \in T PROVE t >= x
    OBVIOUS
  <2>1. m - t <= m - x
    BY <1>2, <1>3
  <2>2. x \in Int /\ t \in Int
    OBVIOUS
  <2> QED BY <2>1, <2>2
<1>5. Max(T) \in T /\ \A x \in T : Max(T) >= x
  BY <1>4 DEF Max
<1>6. \A x \in T : x \in Int
  OBVIOUS
<1> QED BY <1>5, <1>6

\* A page ends in the diff, never in a character, and is empty only before a byte
\* that is not UTF-8.
LEMMA DiffEnds ==
  ASSUME NEW full \in Seq(Byte), InCharacters(full), NEW offset \in 0..Len(full), NEW max \in Nat, max >= 2,
         0 < offset /\ offset < Len(full) => full[offset + 1] # "cont"
  PROVE  LET end == DiffEnd(full, offset, max)
         IN /\ end \in offset..Len(full)
            /\ 0 < end /\ end < Len(full) => full[end + 1] # "cont"
            /\ end = offset /\ end < Len(full) => full[end + 1] = "bad"
<1> DEFINE last == AtMost(offset + max, Len(full))
           chunk == SubSeq(full, offset + 1, last)
           size == last - offset
           lines == IF last < Len(full) /\ Newlines(chunk) \ {1} # {} THEN Max(Newlines(chunk)) ELSE Len(chunk)
           T == {n \in 0..lines : Utf8(SubSeq(chunk, 1, n))}
           end == DiffEnd(full, offset, max)
<1>1. /\ offset \in Nat /\ Len(full) \in Nat /\ offset <= Len(full) /\ last \in Nat
      /\ offset <= last /\ last <= Len(full) /\ size \in Nat
      /\ last < Len(full) => last = offset + max
  BY DEF AtMost
<1> HIDE DEF last
<1>2. /\ Len(chunk) = size /\ DOMAIN chunk = 1..size
      /\ \A i \in 1..size : chunk[i] = full[offset + i]
  BY <1>1
<1> HIDE DEF chunk
<1>3. lines \in 0..size /\ (lines = Len(chunk) \/ lines >= 2)
  <2>1. CASE Newlines(chunk) \ {1} # {}
    <3>1. Newlines(chunk) \in SUBSET (0..size)
      BY <1>2 DEF Newlines
    <3>2. Max(Newlines(chunk)) \in Newlines(chunk) /\ \A x \in Newlines(chunk) : x <= Max(Newlines(chunk))
      BY <1>1, <3>1, <2>1, MaxUpTo
    <3>3. PICK x \in Newlines(chunk) : x # 1
      BY <2>1
    <3>4. x \in 1..size /\ x <= Max(Newlines(chunk)) /\ Max(Newlines(chunk)) \in 1..size
      BY <1>2, <3>2 DEF Newlines
    <3>5. Max(Newlines(chunk)) >= 2
      BY <3>3, <3>4, <1>1
    <3> QED BY <3>4, <3>5, <1>1, <1>2
  <2>2. CASE ~(Newlines(chunk) \ {1} # {})
    BY <2>2, <1>1, <1>2
  <2> QED BY <2>1, <2>2
<1> HIDE DEF lines
<1>4. \A n \in 0..lines : /\ Len(SubSeq(chunk, 1, n)) = n /\ DOMAIN SubSeq(chunk, 1, n) = 1..n
                          /\ \A i \in 1..n : SubSeq(chunk, 1, n)[i] = full[offset + i]
  <2> SUFFICES ASSUME NEW n \in 0..lines
               PROVE /\ Len(SubSeq(chunk, 1, n)) = n /\ DOMAIN SubSeq(chunk, 1, n) = 1..n
                     /\ \A i \in 1..n : SubSeq(chunk, 1, n)[i] = full[offset + i]
    OBVIOUS
  <2>1. n \in Nat /\ n <= size
    BY <1>1, <1>3
  <2>2. chunk \in Seq(Byte)
    BY <1>1 DEF chunk
  <2> QED BY <2>1, <2>2, <1>1, <1>2
<1>5. 0 \in T
  BY <1>3, <1>4, <1>1 DEF Utf8
<1>6. Max(T) \in T /\ \A x \in T : x <= Max(T)
  <2>1. lines \in Nat /\ T \in SUBSET (0..lines) /\ T # {}
    BY <1>1, <1>3, <1>5
  <2> HIDE DEF T
  <2> QED BY <2>1, MaxUpTo
<1>7. end = offset + Max(T)
  BY DEF DiffEnd, last, chunk, lines
<1> HIDE DEF end
<1> DEFINE n == Max(T)
<1>8. n \in 0..lines /\ n \in Nat /\ n <= size /\ Utf8(SubSeq(chunk, 1, n)) /\ \A x \in T : x <= n
  BY <1>1, <1>3, <1>6
<1> HIDE DEF n
<1>9. end = offset + n
  BY <1>7 DEF n
<1>10. end \in offset..Len(full)
  BY <1>1, <1>8, <1>9
<1>11. ASSUME 0 < end, end < Len(full), full[end + 1] = "cont" PROVE FALSE
  <2>1. CASE n = 0
    BY <2>1, <1>1, <1>9, <1>11
  <2>2. CASE n # 0
    <3>1. end \in DOMAIN full /\ end < Len(full)
      BY <1>1, <1>8, <1>9, <1>11
    <3>2. full[end] = "lead"
      BY <3>1, <1>11 DEF InCharacters
    <3>3. n \in 1..n /\ SubSeq(chunk, 1, n)[n] = full[offset + n]
      BY <2>2, <1>4, <1>8
    <3>4. n < n
      BY <3>2, <3>3, <1>4, <1>8, <1>9 DEF Utf8
    <3> QED BY <3>4, <1>8
  <2> QED BY <2>1, <2>2
<1>12. ASSUME end = offset, end < Len(full), full[end + 1] # "bad" PROVE FALSE
  <2>1. n = 0 /\ \A x \in T : x <= 0
    BY <1>1, <1>8, <1>9, <1>12
  <2>2. size >= 1 /\ offset + 1 \in DOMAIN full /\ lines >= 1
    BY <1>1, <1>2, <1>3, <1>12
  <2>3. 1 \in 0..lines /\ ~Utf8(SubSeq(chunk, 1, 1))
    BY <2>1, <2>2, <1>1, <1>3
  <2>4. full[offset + 1] # "cont"
    BY <2>2, <1>1, <1>12 DEF InCharacters
  <2>5. full[offset + 1] = "lead"
    <3>1. full[offset + 1] \in Byte /\ full[offset + 1] # "bad"
      BY <2>2, <1>12
    <3>2. /\ DOMAIN SubSeq(chunk, 1, 1) = 1..1 /\ SubSeq(chunk, 1, 1)[1] = full[offset + 1]
      BY <2>3, <1>4
    <3> QED BY <2>3, <2>4, <3>1, <3>2 DEF Utf8, Byte
  <2>6. offset + 1 < Len(full) /\ full[offset + 2] = "cont"
    BY <2>2, <2>5, <1>1 DEF InCharacters
  <2>7. size >= 2 /\ 2 \in 0..lines
    BY <2>6, <1>1, <1>2, <1>3
  <2>8. /\ Len(SubSeq(chunk, 1, 2)) = 2 /\ DOMAIN SubSeq(chunk, 1, 2) = 1..2
        /\ SubSeq(chunk, 1, 2)[1] = full[offset + 1] /\ SubSeq(chunk, 1, 2)[2] = full[offset + 2]
    BY <2>7, <1>4
  <2>9. Utf8(SubSeq(chunk, 1, 2))
    BY <2>5, <2>6, <2>8 DEF Utf8
  <2>10. 2 \in T
    BY <2>7, <2>9
  <2> QED BY <2>1, <2>10
<1> QED BY <1>10, <1>11, <1>12 DEF end

-----------------------------------------------------------------------------
(* The calls of git for a diff. *)

\* A sequence of sequences leads to what its members add up to.
LEMMA FlattenIs ==
  ASSUME NEW X, NEW s \in Seq(Seq(X)), Len(s) > 0,
         NEW f \in [0..Len(s) -> Seq(X)], f[0] = <<>>, \A i \in 1..Len(s) : f[i] = f[i - 1] \o s[i]
  PROVE  FlattenSeq(s) = f[Len(s)]
<1> DEFINE N == Len(s)
           Body(p) == [i \in 1..N |-> IF i = 1 THEN s[i] ELSE p[i - 1] \o s[i]]
           g == [i \in 1..N |-> f[i]]
           flat == CHOOSE p : p = Body(p)
<1>1. N \in Nat /\ N \in 1..N
  OBVIOUS
<1>2. \A i \in 1..N : s[i] \in Seq(X) /\ f[i] \in Seq(X) /\ i - 1 \in 0..N /\ (i # 1 => i - 1 \in 1..N)
  OBVIOUS
<1>3. f[1] = s[1]
  <2>1. 1 \in 1..N /\ s[1] \in Seq(X) /\ 1 - 1 = 0
    BY <1>1, <1>2
  <2>2. f[1] = <<>> \o s[1]
    BY <2>1
  <2>3. <<>> \o s[1] = s[1]
    BY <2>1, ConcatEmptySeq
  <2> QED BY <2>2, <2>3
<1> HIDE DEF N
<1>4. g = Body(g)
  BY <1>1, <1>2, <1>3 DEF N
<1>5. flat = Body(flat)
  BY <1>4
<1>6. FlattenSeq(s) = flat[N]
  BY <1>1 DEF FlattenSeq, N
<1> HIDE DEF flat
<1> DEFINE P == {i \in 0..N : i = 0 \/ flat[i] = f[i]}
<1>7. 0 \in P /\ \A i \in 1..N : i - 1 \in P => i \in P
  <2>1. ASSUME NEW i \in 1..N, i - 1 \in P PROVE flat[i] = f[i]
    <3>1. flat[i] = IF i = 1 THEN s[i] ELSE flat[i - 1] \o s[i]
      BY <1>5
    <3>2. CASE i = 1
      BY <3>1, <3>2, <1>3
    <3>3. CASE i # 1
      <4>1. flat[i - 1] = f[i - 1]
        BY <2>1, <3>3, <1>1
      <4>2. f[i] = f[i - 1] \o s[i]
        BY DEF N
      <4> QED BY <3>1, <3>3, <4>1, <4>2
    <3> QED BY <3>2, <3>3
  <2> QED BY <1>1, <2>1
<1>8. \A i \in 0..N : i \in P
  <2> HIDE DEF P
  <2> QED BY <1>1, <1>7, UpTo
<1> QED BY <1>1, <1>6, <1>8 DEF N

\* The batches lead to what their paths add up to.
Leads(s, X, whole) ==
  \E f \in [0..Len(s) -> Seq(X)] :
    f[0] = <<>> /\ f[Len(s)] = whole /\ \A i \in 1..Len(s) : f[i] = f[i - 1] \o s[i]

\* A batch is within the bounds of one call of git, unless it is one path.
InBounds(batch) ==
  Len(batch) = 1 \/ (Len(batch) <= BatchCount /\ Len(batch) * PathCost <= BatchBytes)

\* A sequence in two parts.
MadeOf(whole, a, b) == whole = a \o b

\* What is added at the end of the last part is added at the end of the whole.
LEMMA AddedAtEnd ==
  ASSUME NEW S, NEW a \in Seq(S), NEW b \in Seq(S), NEW x \in S, NEW whole, MadeOf(whole, a, b)
  PROVE  MadeOf(Append(whole, x), a, Append(b, x))
<1>1. Append(a \o b, x) = a \o Append(b, x)
  OBVIOUS
<1> QED BY <1>1 DEF MadeOf

\* A path that is added comes at the end of the batches, and they stay within bounds.
LEMMA AddPathKeeps ==
  ASSUME NEW X, NEW s \in Seq(Seq(X)), Len(s) > 0, NEW path \in X, NEW whole \in Seq(X), Leads(s, X, whole),
         \A i \in 1..Len(s) : InBounds(s[i])
  PROVE  /\ AddPath(s, path) \in Seq(Seq(X)) /\ Len(AddPath(s, path)) > 0
         /\ Leads(AddPath(s, path), X, Append(whole, path))
         /\ \A i \in 1..Len(AddPath(s, path)) : InBounds(AddPath(s, path)[i])
<1> DEFINE N == Len(s)
           open == s[N]
           t == AddPath(s, path)
<1>1. N \in Nat /\ N \in 1..N /\ open \in Seq(X) /\ Len(open) \in Nat /\ N - 1 \in 0..N
  OBVIOUS
<1>2. PICK f \in [0..N -> Seq(X)] : f[0] = <<>> /\ f[N] = whole /\ \A i \in 1..N : f[i] = f[i - 1] \o s[i]
  BY DEF Leads
<1>3. <<path>> \in Seq(X) /\ Len(<<path>>) = 1 /\ whole \o <<path>> = Append(whole, path) /\ Append(whole, path) \in Seq(X)
  OBVIOUS
<1>4. CASE open # <<>> /\ (Len(open) >= BatchCount \/ (Len(open) + 1) * PathCost > BatchBytes)
  <2> DEFINE g == [i \in 0..(N + 1) |-> IF i = N + 1 THEN Append(whole, path) ELSE f[i]]
  <2>1. t = Append(s, <<path>>)
    BY <1>4 DEF AddPath, Last
  <2>2. t \in Seq(Seq(X)) /\ Len(t) = N + 1 /\ \A i \in 1..(N + 1) : t[i] = IF i = N + 1 THEN <<path>> ELSE s[i]
    BY <1>1, <1>3, <2>1
  <2> HIDE DEF t, N
  <2>3. g \in [0..(N + 1) -> Seq(X)] /\ g[0] = <<>> /\ g[N + 1] = Append(whole, path)
    BY <1>1, <1>2, <1>3
  <2>4. \A i \in 1..(N + 1) : g[i] = g[i - 1] \o t[i]
    <3> SUFFICES ASSUME NEW i \in 1..(N + 1) PROVE g[i] = g[i - 1] \o t[i]
      OBVIOUS
    <3>1. CASE i = N + 1
      <4>1. g[i] = Append(whole, path) /\ t[i] = <<path>>
        BY <3>1, <2>2
      <4>2. i - 1 = N /\ N \in 0..(N + 1) /\ N # N + 1
        BY <3>1, <1>1
      <4>3. g[i - 1] = whole
        BY <4>2, <1>2
      <4> HIDE DEF g
      <4> QED BY <4>1, <4>3, <1>3
    <3>2. CASE i # N + 1
      <4>1. i \in 1..N /\ i - 1 \in 0..(N + 1) /\ i - 1 # N + 1 /\ i \in 0..(N + 1)
        BY <3>2, <1>1
      <4>2. g[i] = f[i] /\ g[i - 1] = f[i - 1]
        BY <3>2, <4>1
      <4>3. t[i] = s[i]
        BY <3>2, <2>2
      <4>4. f[i] = f[i - 1] \o s[i]
        BY <4>1, <1>2
      <4> HIDE DEF g
      <4> QED BY <4>2, <4>3, <4>4
    <3> QED BY <3>1, <3>2
  <2> HIDE DEF g
  <2>5. Leads(t, X, Append(whole, path))
    BY <2>2, <2>3, <2>4 DEF Leads
  <2>6. \A i \in 1..Len(t) : InBounds(t[i])
    <3> SUFFICES ASSUME NEW i \in 1..(N + 1) PROVE InBounds(t[i])
      BY <2>2
    <3>1. CASE i = N + 1
      BY <3>1, <1>3, <2>2 DEF InBounds
    <3>2. CASE i # N + 1
      <4>1. i \in 1..N
        BY <3>2, <1>1
      <4> QED BY <3>2, <4>1, <2>2 DEF N
    <3> QED BY <3>1, <3>2
  <2> QED BY <1>1, <2>2, <2>5, <2>6 DEF t
<1>5. CASE ~(open # <<>> /\ (Len(open) >= BatchCount \/ (Len(open) + 1) * PathCost > BatchBytes))
  <2> DEFINE g == [f EXCEPT ![N] = Append(whole, path)]
  <2>1. t = [s EXCEPT ![N] = Append(open, path)]
    BY <1>5 DEF AddPath, Last
  <2>2. Append(open, path) \in Seq(X) /\ Len(Append(open, path)) = Len(open) + 1 /\ Append(open, path) = open \o <<path>>
    BY <1>1
  <2>3. t \in Seq(Seq(X)) /\ Len(t) = N /\ \A i \in 1..N : t[i] = IF i = N THEN Append(open, path) ELSE s[i]
    BY <1>1, <2>1, <2>2
  <2> HIDE DEF t, N, open
  <2>4. g \in [0..N -> Seq(X)] /\ g[0] = <<>> /\ g[N] = Append(whole, path)
    BY <1>1, <1>2, <1>3
  <2>5. \A i \in 1..N : g[i] = g[i - 1] \o t[i]
    <3> SUFFICES ASSUME NEW i \in 1..N PROVE g[i] = g[i - 1] \o t[i]
      OBVIOUS
    <3>1. i - 1 \in 0..N /\ i - 1 # N /\ g[i - 1] = f[i - 1] /\ f[i - 1] \in Seq(X)
      BY <1>1, <1>2
    <3>2. CASE i = N
      <4>1. whole = f[i - 1] \o open
        BY <3>2, <1>2 DEF open, N
      <4>2. MadeOf(Append(whole, path), f[i - 1], Append(open, path))
        <5> DEFINE a == f[i - 1]
        <5>1. a \in Seq(X) /\ open \in Seq(X) /\ path \in X /\ MadeOf(whole, a, open)
          BY <3>1, <4>1, <1>1 DEF MadeOf
        <5> HIDE DEF a
        <5>2. MadeOf(Append(whole, path), a, Append(open, path))
          BY <5>1, AddedAtEnd
        <5> QED BY <5>2 DEF a
      <4>3. g[i] = Append(whole, path) /\ t[i] = Append(open, path)
        BY <3>2, <2>3, <2>4
      <4>4. g[i - 1] = f[i - 1]
        BY <3>1
      <4> HIDE DEF g
      <4> QED BY <4>2, <4>3, <4>4 DEF MadeOf
    <3>3. CASE i # N
      <4>1. i \in 0..N /\ g[i] = f[i]
        BY <3>3, <1>1
      <4>2. t[i] = s[i]
        BY <3>3, <2>3
      <4>3. f[i] = f[i - 1] \o s[i]
        BY <1>2
      <4> HIDE DEF g
      <4> QED BY <3>1, <4>1, <4>2, <4>3
    <3> QED BY <3>2, <3>3
  <2> HIDE DEF g
  <2>6. Leads(t, X, Append(whole, path))
    BY <2>3, <2>4, <2>5 DEF Leads
  <2>7. InBounds(Append(open, path))
    <3>1. BatchCount \in Nat /\ BatchBytes \in Nat /\ PathCost \in Nat
      BY BatchBounds
    <3>2. CASE open = <<>>
      BY <3>2, <2>2, <1>1 DEF InBounds
    <3>3. CASE open # <<>>
      <4>1. ~(Len(open) >= BatchCount) /\ ~((Len(open) + 1) * PathCost > BatchBytes)
        BY <3>3, <1>5 DEF open
      <4> DEFINE size == (Len(open) + 1) * PathCost
      <4>2. size \in Nat
        BY <1>1, <3>1
      <4>3. size <= BatchBytes
        <5>1. ~(size > BatchBytes)
          BY <4>1
        <5> HIDE DEF size
        <5> QED BY <5>1, <4>2, <3>1
      <4>4. Len(open) + 1 <= BatchCount
        BY <4>1, <1>1, <3>1
      <4> QED BY <4>3, <4>4, <2>2 DEF InBounds
    <3> QED BY <3>2, <3>3
  <2>8. \A i \in 1..Len(t) : InBounds(t[i])
    BY <2>3, <2>7 DEF N
  <2> QED BY <1>1, <2>3, <2>6, <2>8 DEF t
<1> QED BY <1>4, <1>5 DEF open

\* The image of a finite set is finite.
LEMMA ImageIsFinite ==
  ASSUME NEW S, NEW f, IsFiniteSet(S)
  PROVE  IsFiniteSet({f[x] : x \in S})
<1> DEFINE T == {f[x] : x \in S}
           g == [x \in S |-> f[x]]
<1>1. g \in Surjection(S, T)
  BY DEF Surjection
<1> HIDE DEF T, g
<1>2. IsFiniteSet(T)
  BY <1>1, FS_Surjection
<1> QED BY <1>2 DEF T

\* The paths of a diff are a sequence.
LEMMA DiffPathsIsSeq ==
  ASSUME NEW changes \in Seq(Change)
  PROVE  \E X : DiffPaths(changes) \in Seq(X)
<1> DEFINE I == {j \in DOMAIN changes : ~changes[j].hidden /\ changes[j].inside}
           each == [i \in I |-> ToSet(changes[i].paths)]
           paths == PathsToDiff(changes)
<1>1. \A n \in Nat : IsFiniteSet(1..n)
  BY FS_Interval
<1>2. IsFiniteSet(I)
  <2>1. I \subseteq 1..Len(changes) /\ Len(changes) \in Nat
    OBVIOUS
  <2> HIDE DEF I
  <2> QED BY <1>1, <2>1, FS_Subset
<1>3. \A i \in I : IsFiniteSet(each[i])
  <2> SUFFICES ASSUME NEW i \in I PROVE IsFiniteSet(ToSet(changes[i].paths))
    OBVIOUS
  <2> DEFINE p == changes[i].paths
  <2>1. p \in Seq(Nat)
    <3>1. changes[i] \in Change
      OBVIOUS
    <3> QED BY <3>1 DEF Change
  <2>2. DOMAIN p = 1..Len(p) /\ Len(p) \in Nat
    BY <2>1
  <2> HIDE DEF p
  <2>3. IsFiniteSet({p[x] : x \in DOMAIN p})
    BY <1>1, <2>2, ImageIsFinite
  <2> QED BY <2>3 DEF ToSet, p
<1>4. IsFiniteSet(paths)
  <2> DEFINE sets == {each[i] : i \in I}
  <2>1. paths = UNION sets
    BY DEF PathsToDiff
  <2> HIDE DEF I, each
  <2>2. IsFiniteSet(sets) /\ \A T \in sets : IsFiniteSet(T)
    BY <1>2, <1>3, ImageIsFinite
  <2> HIDE DEF sets
  <2> QED BY <2>1, <2>2, FS_UNION
<1>5. Cardinality(paths) \in Nat
  BY <1>4, FS_CardinalityType
<1> HIDE DEF paths
<1> DEFINE e(k) == CHOOSE p \in paths : Cardinality({q \in paths : q < p}) = k - 1
           X == {e(k) : k \in 1..Cardinality(paths)}
<1>6. DiffPaths(changes) = [k \in 1..Cardinality(paths) |-> e(k)]
  BY DEF DiffPaths, paths
<1> HIDE DEF e
<1>7. DiffPaths(changes) \in Seq(X)
  BY <1>5, <1>6
<1> QED BY <1>7

\* Batches stay batches.
LEMMA AddPathType ==
  ASSUME NEW X, NEW s \in Seq(Seq(X)), Len(s) > 0, NEW path \in X
  PROVE  AddPath(s, path) \in Seq(Seq(X)) /\ Len(AddPath(s, path)) > 0
<1>1. Len(s) \in Nat /\ s[Len(s)] \in Seq(X) /\ <<path>> \in Seq(X) /\ Append(s[Len(s)], path) \in Seq(X)
  OBVIOUS
<1>2. Append(s, <<path>>) \in Seq(Seq(X)) /\ Len(Append(s, <<path>>)) > 0
  BY <1>1
<1>3. [s EXCEPT ![Len(s)] = Append(s[Len(s)], path)] \in Seq(Seq(X)) /\ Len([s EXCEPT ![Len(s)] = Append(s[Len(s)], path)]) > 0
  BY <1>1
<1> QED BY <1>2, <1>3 DEF AddPath, Last

\* The batches of paths keep their order, leave none out, and are within the
\* bounds of a call unless they hold one path.
LEMMA BatchesAreWhole ==
  ASSUME NEW X, NEW paths \in Seq(X), paths # <<>>
  PROVE  LET s == BatchPaths(paths)
         IN /\ s \in Seq(Seq(X)) /\ FlattenSeq(s) = paths
            /\ \A i \in DOMAIN s : InBounds(s[i])
<1> DEFINE N == Len(paths)
           S == {s \in Seq(Seq(X)) : Len(s) > 0}
           base == <<<<>>>>
           step == [x \in S \X (1..N) |-> AddPath(x[1], paths[x[2]])]
           Body(p) == [n \in 0..N |-> IF n = 0 THEN base ELSE AddPath(p[n - 1], paths[n])]
           Good(s, n) == /\ s \in S /\ Leads(s, X, SubSeq(paths, 1, n))
                         /\ \A i \in 1..Len(s) : InBounds(s[i])
<1>1. N \in Nat /\ N \in 1..N
  OBVIOUS
<1>2. <<>> \in Seq(X) /\ base \in Seq(Seq(X)) /\ Len(base) = 1 /\ base[1] = <<>> /\ base \in S
  OBVIOUS
<1>3. Good(base, 0)
  <2> DEFINE f == [i \in 0..1 |-> <<>>]
  <2>1. f \in [0..1 -> Seq(X)] /\ f[0] = <<>> /\ f[1] = <<>>
    BY <1>2
  <2>2. \A i \in 1..1 : f[i] = f[i - 1] \o base[i]
    BY <1>2
  <2>3. SubSeq(paths, 1, 0) = <<>>
    OBVIOUS
  <2>4. Leads(base, X, SubSeq(paths, 1, 0))
    <3> HIDE DEF f, base
    <3> QED BY <1>2, <2>1, <2>2, <2>3 DEF Leads
  <2>5. InBounds(<<>>)
    <3>1. BatchCount \in Nat /\ BatchBytes \in Nat /\ PathCost \in Nat
      BY BatchBounds
    <3>2. Len(<<>>) = 0 /\ 0 * PathCost = 0
      BY <3>1
    <3> QED BY <3>1, <3>2 DEF InBounds
  <2> HIDE DEF base, S
  <2> QED BY <1>2, <2>4, <2>5
<1>4. ASSUME NEW s, NEW n \in 1..N, Good(s, n - 1) PROVE Good(AddPath(s, paths[n]), n)
  <2>1. paths[n] \in X /\ SubSeq(paths, 1, n - 1) \in Seq(X) /\ SubSeq(paths, 1, n) = Append(SubSeq(paths, 1, n - 1), paths[n])
    OBVIOUS
  <2>2. s \in Seq(Seq(X)) /\ Len(s) > 0
    BY <1>4
  <2> DEFINE t == AddPath(s, paths[n])
  <2>3. /\ t \in Seq(Seq(X)) /\ Len(t) > 0
        /\ Leads(t, X, Append(SubSeq(paths, 1, n - 1), paths[n]))
        /\ \A i \in 1..Len(t) : InBounds(t[i])
    BY <1>4, <2>1, <2>2, AddPathKeeps
  <2> HIDE DEF t
  <2> QED BY <2>1, <2>3 DEF t
<1>5. step \in Steps(N, S)
  <2> SUFFICES ASSUME NEW s \in S, NEW n \in 1..N PROVE AddPath(s, paths[n]) \in S
    BY DEF Steps
  <2>1. paths[n] \in X
    OBVIOUS
  <2> QED BY <2>1, AddPathType
<1> HIDE DEF base, N, S
<1>6. PICK f : Follows(f, N, S, base, step)
  <2> HIDE DEF step
  <2> QED BY <1>1, <1>2, <1>5, Recursion
<1>7. ASSUME NEW n \in 1..N PROVE f[n] = AddPath(f[n - 1], paths[n])
  <2>1. n - 1 \in 0..N /\ f[n - 1] \in S
    BY <1>1, <1>6 DEF Follows
  <2>2. <<f[n - 1], n>> \in S \X (1..N)
    BY <2>1
  <2> QED BY <1>6, <2>2 DEF Follows
<1>8. f = Body(f)
  BY <1>1, <1>6, <1>7 DEF Follows
<1>9. Batching(paths) = CHOOSE p : p = Body(p)
  BY DEF Batching, N, base
<1> DEFINE done == Batching(paths)
<1>10. done = Body(done)
  BY <1>8, <1>9
<1> HIDE DEF done
<1>11. done[0] = base /\ \A n \in 1..N : done[n] = AddPath(done[n - 1], paths[n])
  BY <1>1, <1>10
<1> DEFINE P == {n \in 0..N : Good(done[n], n)}
<1>12. \A n \in 0..N : n \in P
  <2>1. ASSUME NEW n \in 1..N, n - 1 \in P PROVE n \in P
    <3>1. Good(done[n - 1], n - 1) /\ n \in 0..N
      BY <1>1, <2>1
    <3> HIDE DEF Good
    <3>2. Good(AddPath(done[n - 1], paths[n]), n)
      BY <1>4, <3>1
    <3> QED BY <1>11, <3>1, <3>2
  <2>2. 0 \in P
    <3> HIDE DEF Good
    <3> QED BY <1>1, <1>3, <1>11
  <2> HIDE DEF P
  <2> QED BY <1>1, <2>1, <2>2, UpTo
<1>13. Good(done[N], N)
  BY <1>1, <1>12
<1>14. SubSeq(paths, 1, N) = paths
  BY DEF N
<1> DEFINE s == done[N]
<1>15. BatchPaths(paths) = s
  BY DEF BatchPaths, done, N
<1>16. s \in Seq(Seq(X)) /\ Len(s) > 0 /\ Leads(s, X, paths) /\ \A i \in 1..Len(s) : InBounds(s[i])
  BY <1>13, <1>14 DEF S
<1> HIDE DEF s
<1>17. PICK g \in [0..Len(s) -> Seq(X)] : g[0] = <<>> /\ g[Len(s)] = paths /\ \A i \in 1..Len(s) : g[i] = g[i - 1] \o s[i]
  BY <1>16 DEF Leads
<1>18. FlattenSeq(s) = paths
  BY <1>16, <1>17, FlattenIs
<1>19. DOMAIN s = 1..Len(s)
  BY <1>16
<1> QED BY <1>15, <1>16, <1>18, <1>19

\* The positions from one place to another, one for each.
LEMMA PositionsType ==
  ASSUME NEW from \in Nat \ {0}, NEW to \in Nat, to + 1 >= from
  PROVE  Positions(from, to) \in Seq(Nat) /\ Len(Positions(from, to)) = to + 1 - from
<1> DEFINE n == IF to < from THEN 0 ELSE to - from + 1
<1>1. n \in Nat /\ n = to + 1 - from
  OBVIOUS
<1> HIDE DEF n
<1>2. \A i \in 1..n : from + i - 1 \in Nat
  BY <1>1
<1>3. [i \in 1..n |-> from + i - 1] \in Seq(Nat) /\ Len([i \in 1..n |-> from + i - 1]) = n
  BY <1>1, <1>2
<1> QED BY <1>1, <1>3 DEF Positions, n

\* The positions of two pages that follow each other are those of both.
LEMMA PositionsFollow ==
  ASSUME NEW from \in Nat \ {0}, NEW mid \in Nat, NEW to \in Nat, mid + 1 >= from, to >= mid
  PROVE  Positions(from, mid) \o Positions(mid + 1, to) = Positions(from, to)
<1> DEFINE a == Positions(from, mid)
           b == Positions(mid + 1, to)
           c == Positions(from, to)
<1>1. /\ a \in Seq(Nat) /\ Len(a) = mid + 1 - from
      /\ c \in Seq(Nat) /\ Len(c) = to + 1 - from
  <2>1. to + 1 >= from
    OBVIOUS
  <2>2. Positions(from, mid) \in Seq(Nat) /\ Len(Positions(from, mid)) = mid + 1 - from
    BY PositionsType
  <2>3. Positions(from, to) \in Seq(Nat) /\ Len(Positions(from, to)) = to + 1 - from
    BY <2>1, PositionsType
  <2> QED BY <2>2, <2>3
<1>2. b \in Seq(Nat) /\ Len(b) = to - mid
  <2>1. mid + 1 \in Nat \ {0} /\ to + 1 >= mid + 1 /\ (to + 1) - (mid + 1) = to - mid
    OBVIOUS
  <2>2. Positions(mid + 1, to) \in Seq(Nat) /\ Len(Positions(mid + 1, to)) = (to + 1) - (mid + 1)
    BY <2>1, PositionsType
  <2> QED BY <2>1, <2>2
<1>3. /\ \A i \in 1..Len(a) : a[i] = from + i - 1
      /\ \A i \in 1..Len(b) : b[i] = mid + i
      /\ \A i \in 1..Len(c) : c[i] = from + i - 1
  BY <1>1, <1>2 DEF Positions
<1> HIDE DEF a, b, c
<1>4. a \o b \in Seq(Nat) /\ Len(a \o b) = Len(c)
  <2>0. a \in Seq(Nat) /\ b \in Seq(Nat)
    BY <1>1, <1>2
  <2>1. a \o b \in Seq(Nat) /\ Len(a \o b) = Len(a) + Len(b)
    BY <2>0, ConcatProperties
  <2>2. (mid + 1 - from) + (to - mid) = to + 1 - from
    OBVIOUS
  <2> QED BY <2>1, <2>2, <1>1, <1>2
<1>5. \A i \in 1..Len(c) : (a \o b)[i] = c[i]
  <2> SUFFICES ASSUME NEW i \in 1..Len(c) PROVE (a \o b)[i] = c[i]
    OBVIOUS
  <2>1. i \in 1..(Len(a) + Len(b)) /\ Len(a) \in Nat /\ Len(b) \in Nat
    BY <1>1, <1>2
  <2>2. CASE i <= Len(a)
    <3>1. i \in 1..Len(a) /\ (a \o b)[i] = a[i]
      BY <2>1, <2>2, <1>1, <1>2
    <3> QED BY <3>1, <1>3
  <2>3. CASE ~(i <= Len(a))
    <3>1. i - Len(a) \in 1..Len(b)
      BY <2>1, <2>3
    <3>3. a \in Seq(Nat) /\ b \in Seq(Nat)
      BY <1>1, <1>2
    <3>4. (a \o b)[i] = b[i - Len(a)]
      BY <2>1, <2>3, <3>3, ConcatProperties
    <3>2. mid + (i - Len(a)) = from + i - 1
      BY <2>1, <1>1
    <3> QED BY <3>1, <3>2, <3>4, <1>3
  <2> QED BY <2>2, <2>3
<1>6. a \o b = c
  BY <1>1, <1>4, <1>5, SeqEqual
<1> QED BY <1>6 DEF a, b, c

\* A page that begins where what was delivered ends continues it.
LEMMA PositionsGrow ==
  ASSUME NEW from \in Nat \ {0}, NEW mid \in Nat, NEW to \in Nat, from <= mid + 1, mid <= to
  PROVE  /\ Positions(from, mid) \o Positions(mid + 1, to) = Positions(from, to)
         /\ Positions(from, to) \in Seq(Nat)
         /\ Len(Positions(from, to)) = to + 1 - from
<1>1. mid + 1 >= from /\ to + 1 >= from /\ to >= mid
  OBVIOUS
<1>2. Positions(from, mid) \o Positions(mid + 1, to) = Positions(from, to)
  BY <1>1, PositionsFollow
<1>3. Positions(from, to) \in Seq(Nat) /\ Len(Positions(from, to)) = to + 1 - from
  BY <1>1, PositionsType
<1> QED BY <1>2, <1>3

\* A call that is followed, per tool.
Lines == {[tool |-> "lines", arg |-> arg] : arg \in LineReads}
Lists == {[tool |-> "list", arg |-> arg] : arg \in ListReads}
Diffs == {[tool |-> "diff", arg |-> arg] : arg \in DiffReads}

\* What was delivered is what comes before the next page.
LinesSoFar ==
  LET before == asked.arg.start - 1
      reached == before + Len(got)
  IN /\ batches = <<>>
     /\ got = Positions(before + 1, reached)
     /\ got = <<>> \/ reached <= Len(asked.arg.lines)
     /\ next # NoPage => next = reached + 1
     /\ ended = "whole" => reached = AtLeast(Len(asked.arg.lines), before)
     /\ ended = "cut" => LeavesNoRoom(asked.arg.lines, reached, ReadBytes(0))
     /\ ended \notin {"window", "scanned", "stuck"}

ListSoFar ==
  /\ batches = <<>>
  /\ got = Positions(1, Len(got)) /\ Len(got) <= asked.arg.size
  /\ next # NoPage => next = Len(got)
  /\ ended = "whole" => Len(got) = asked.arg.size
  /\ asked.arg.tool = "find" => Len(got) <= FindEntries
  /\ ended = "window" => asked.arg.tool # "list" /\ Len(got) > MaxOffset
  /\ ended = "scanned" => asked.arg.tool = "find" /\ Len(got) = FindEntries
  /\ ended \notin {"cut", "stuck"}

DiffSoFar ==
  LET all == BatchPaths(DiffPaths(asked.arg.changes))
  IN /\ batches = all \/ (batches = <<>> /\ got = <<>>)
     /\ got = Positions(1, Len(got)) /\ Len(got) <= Len(asked.arg.bytes)
     /\ got # <<>> => all # <<>>
     /\ next # NoPage =>
          /\ next = Len(got)
          /\ next > 0 => next < Len(asked.arg.bytes) /\ asked.arg.bytes[next + 1] # "cont"
     /\ ended = "whole" => Len(got) = (IF batches = <<>> THEN 0 ELSE Len(asked.arg.bytes))
     /\ ended = "stuck" => asked.arg.bytes[Len(got) + 1] = "bad"
     /\ ended \notin {"cut", "window", "scanned"}

\* The inductive invariant: what the call that is followed has delivered.
PagesInv ==
  /\ got \in Seq(Nat)
  /\ asked = NoPage => batches = <<>>
  /\ \/ asked = NoPage
     \/ asked \in Lines /\ LinesSoFar
     \/ asked \in Lists /\ ListSoFar
     \/ asked \in Diffs /\ DiffSoFar

\* A call that is followed has delivered nothing yet.
LEMMA AskKeepsPages ==
  ASSUME asked = NoPage, PagesInv, NEW tool, NEW arg, NEW first, Ask(tool, arg, first),
         \/ tool = "lines" /\ arg \in LineReads /\ first = arg.start
         \/ tool = "list" /\ arg \in ListReads /\ first = 0
         \/ tool = "diff" /\ arg \in DiffReads /\ first = 0
  PROVE  PagesInv'
<1>1. /\ asked' = [tool |-> tool, arg |-> arg] /\ next' = first /\ got' = <<>> /\ ended' = "more" /\ batches' = <<>>
  BY DEF Ask, PagesInv
<1>2. got' \in Seq(Nat) /\ Len(got') = 0
  BY <1>1
<1>0. Positions(1, 0) = <<>>
  BY DEF Positions
<1>3. CASE tool = "lines" /\ arg \in LineReads /\ first = arg.start
  <2>1. asked' \in Lines
    BY <1>1, <1>3 DEF Lines
  <2>2. arg.start \in Nat \ {0} /\ arg.start - 1 \in Nat /\ asked'.arg = arg
    <3>1. arg.start \in Nat \ {0}
      BY <1>3, LinesAsked
    <3>2. asked'.arg = arg
      BY <1>1
    <3> QED BY <3>1, <3>2
  <2>3. Positions((arg.start - 1) + 1, (arg.start - 1) + 0) = <<>>
    BY <2>2 DEF Positions
  <2>4. LinesSoFar'
    BY <1>1, <1>2, <1>3, <2>2, <2>3 DEF LinesSoFar
  <2> QED BY <1>1, <1>2, <2>1, <2>4 DEF PagesInv
<1>4. CASE tool = "list" /\ arg \in ListReads /\ first = 0
  <2>1. asked' \in Lists
    BY <1>1, <1>4 DEF Lists
  <2>2. arg.size \in Nat /\ asked'.arg = arg /\ FindEntries \in Nat
    BY <1>1, <1>4, ListAsked, ListBounds
  <2>3. ListSoFar'
    BY <1>0, <1>1, <1>2, <1>4, <2>2 DEF ListSoFar
  <2> QED BY <1>1, <1>2, <2>1, <2>3 DEF PagesInv
<1>5. CASE tool = "diff" /\ arg \in DiffReads /\ first = 0
  <2>1. asked' \in Diffs
    BY <1>1, <1>5 DEF Diffs
  <2>2. arg.bytes \in Seq(Byte) /\ Len(arg.bytes) \in Nat /\ asked'.arg = arg
    BY <1>1, <1>5, DiffAsked
  <2>3. DiffSoFar'
    <3>1. /\ asked'.arg = arg /\ next' = 0 /\ got' = <<>> /\ ended' = "more" /\ batches' = <<>>
          /\ Len(got') = 0 /\ 0 <= Len(arg.bytes)
      BY <1>1, <1>2, <1>5, <2>2
    <3> QED BY <3>1, <1>0 DEF DiffSoFar
  <2> QED BY <1>1, <1>2, <2>1, <2>3 DEF PagesInv
<1> QED BY <1>3, <1>4, <1>5

\* The next page of lines goes on where the last one ended.
LEMMA LinePageKeepsPages ==
  ASSUME NEW arg \in LineReads, asked = [tool |-> "lines", arg |-> arg], next # NoPage,
         got \in Seq(Nat), LinesSoFar, LinePage(arg)
  PROVE  got' \in Seq(Nat) /\ LinesSoFar'
<1> DEFINE page == TextRange(arg.lines, next, arg.end, DefaultLines, 0)
           before == arg.start - 1
           reached == before + Len(got)
           size == Len(arg.lines)
<1>1. arg.lines \in Seq(Nat) /\ arg.end \in Nat /\ DefaultLines \in Nat \ {0} /\ arg.start \in Nat \ {0}
  BY LinesAsked, LineBounds
<1>2. before \in Nat /\ reached \in Nat /\ reached >= before /\ size \in Nat
  BY <1>1
<1>3. /\ batches = <<>> /\ got = Positions(before + 1, reached) /\ (got = <<>> \/ reached <= size)
      /\ next = reached + 1 /\ (got = <<>> => reached = before)
  <2>1. Len(<<>>) = 0
    OBVIOUS
  <2> QED BY <2>1, <1>1 DEF LinesSoFar
<1> HIDE DEF size
<1>4. /\ page \in Page /\ page.total = size /\ page.end + 1 = next + page.taken
      /\ page.taken > 0 => page.end <= size
      /\ page.cut /\ page.taken = 1 => LeavesNoRoom(arg.lines, page.end, ReadBytes(0))
  <2>1. next \in Nat \ {0} /\ 0 \in Nat
    BY <1>2, <1>3
  <2>2. LET p == TextRange(arg.lines, next, arg.end, DefaultLines, 0)
        IN /\ p \in Page /\ p.total = Len(arg.lines) /\ p.end + 1 = next + p.taken
           /\ p.taken > 0 => p.end <= Len(arg.lines)
           /\ p.cut /\ p.taken = 1 => LeavesNoRoom(arg.lines, p.end, ReadBytes(0))
    <3> DEFINE lines == arg.lines
               end == arg.end
               zero == 0
               most == DefaultLines
               from == next
    <3>1. lines \in Seq(Nat) /\ from \in Nat \ {0} /\ end \in Nat /\ most \in Nat \ {0} /\ zero \in Nat
      BY <1>1, <2>1
    <3> HIDE DEF lines, end, zero, most, from
    <3>2. Fits(TextRange(lines, from, end, most, zero), lines, from, zero)
      BY <3>1, TextRangeFits
    <3> QED BY <3>2 DEF Fits, lines, end, zero, most, from
  <2> QED BY <2>2 DEF size
<1>5. /\ got' = got \o Positions(next, page.end)
      /\ next' = NextLine(page, next)
      /\ ended' = (IF next' # NoPage THEN "more" ELSE IF Unread(page) THEN "cut" ELSE "whole")
      /\ asked' = asked /\ batches' = batches
  BY DEF LinePage
<1> HIDE DEF page, before, reached
<1>6. page.end \in Nat /\ page.taken \in Nat /\ page.end = reached + page.taken /\ page.end >= reached
  <2>1. page.end \in Nat /\ page.taken \in Nat
    BY <1>4 DEF Page
  <2> DEFINE e == page.end
             t == page.taken
  <2>2. e + 1 = reached + 1 + t /\ e \in Nat /\ t \in Nat
    BY <1>3, <1>4, <2>1
  <2> HIDE DEF e, t
  <2>3. e = reached + t /\ e >= reached
    BY <2>2, <1>2
  <2> QED BY <2>2, <2>3 DEF e, t
<1>7. /\ got' = Positions(before + 1, page.end)
      /\ got' \in Seq(Nat) /\ Len(got') = page.end - before
  <2> DEFINE to == page.end
             first == before + 1
  <2>1. to \in Nat /\ reached <= to /\ first \in Nat \ {0} /\ first <= reached + 1 /\ to + 1 - first = to - before
    BY <1>2, <1>6
  <2>2. got = Positions(first, reached) /\ got' = got \o Positions(reached + 1, to)
    BY <1>3, <1>5
  <2> HIDE DEF to, first
  <2>3. first \in Nat \ {0} /\ reached \in Nat /\ to \in Nat /\ first <= reached + 1 /\ reached <= to
    BY <1>2, <2>1
  <2>4. /\ Positions(first, reached) \o Positions(reached + 1, to) = Positions(first, to)
        /\ Positions(first, to) \in Seq(Nat)
        /\ Len(Positions(first, to)) = to + 1 - first
    BY <2>3, PositionsGrow
  <2>5. got' = Positions(first, to)
    BY <2>2, <2>4
  <2> QED BY <2>1, <2>4, <2>5 DEF to, first
<1>8. before + Len(got') = page.end
  <2> DEFINE to == page.end
             n == Len(got')
  <2>1. to \in Nat /\ to >= before /\ n = to - before
    BY <1>2, <1>6, <1>7
  <2> HIDE DEF to, n
  <2>2. before + n = to
    BY <2>1, <1>2
  <2> QED BY <2>2 DEF to, n
<1>9. got' = <<>> => page.end = before
  <2>1. Len(<<>>) = 0
    OBVIOUS
  <2> QED BY <2>1, <1>2, <1>8
<1>10. got' = <<>> \/ page.end <= size
  <2>1. CASE page.taken > 0
    BY <2>1, <1>4
  <2>2. CASE page.taken = 0
    <3>1. page.end = reached
      BY <2>2, <1>2, <1>6
    <3>2. got = <<>> => got' = got
      BY <3>1, <1>3, <1>7
    <3> QED BY <3>1, <3>2, <1>3
  <2> QED BY <2>1, <2>2, <1>6
<1>11. next' # NoPage => next' = page.end + 1
  BY <1>5 DEF NextLine
<1>12. ended' = "whole" => page.end = AtLeast(size, before)
  <2>1. SUFFICES ASSUME ended' = "whole" PROVE page.end = AtLeast(size, before)
    OBVIOUS
  <2>2. ~Unread(page)
    BY <2>1, <1>5
  <2>3. ~(page.total > page.end)
    BY <2>2 DEF Unread
  <2>4. size <= page.end
    BY <2>3, <1>2, <1>4, <1>6
  <2>5. CASE got' = <<>>
    BY <2>4, <2>5, <1>2, <1>9 DEF AtLeast
  <2>6. CASE got' # <<>>
    BY <2>4, <2>6, <1>2, <1>6, <1>10 DEF AtLeast
  <2> QED BY <2>5, <2>6
<1>13. ended' \notin {"window", "scanned", "stuck"}
  BY <1>5
<1>16. ended' = "cut" => LeavesNoRoom(arg.lines, page.end, ReadBytes(0))
  <2>1. SUFFICES ASSUME ended' = "cut" PROVE page.cut /\ page.taken = 1
    BY <1>4
  <2>2. next' = NoPage /\ Unread(page)
    BY <2>1, <1>5
  <2>3. page.end + 1 # NoPage
    <3>1. page.end + 1 \in Nat
      BY <1>6
    <3>2. NoPage \notin Nat
      BY ReadingAssumption
    <3> QED BY <3>1, <3>2
  <2>4. page.cut /\ page.taken = 1
    BY <2>2, <2>3, <1>5 DEF NextLine
  <2> QED BY <2>4
<1>14. asked'.arg = arg /\ batches' = <<>>
  BY <1>3, <1>5
<1>15. LinesSoFar'
  BY <1>7, <1>8, <1>10, <1>11, <1>12, <1>13, <1>14, <1>16 DEF LinesSoFar, before, size
<1> QED BY <1>7, <1>15

\* The next page of a listing goes on where the last one ended.
LEMMA ListPageKeepsPages ==
  ASSUME NEW arg \in ListReads, asked = [tool |-> "list", arg |-> arg], next # NoPage,
         got \in Seq(Nat), ListSoFar, ListPage(arg)
  PROVE  got' \in Seq(Nat) /\ ListSoFar'
<1> DEFINE all == Collected(arg)
           end == AtMost(AtMost(next, all) + arg.limit, all)
<1>1. /\ arg.size \in Nat /\ arg.limit \in Nat \ {0} /\ arg.tool \in {"list", "find", "log"}
      /\ ListSlack \in Nat \ {0} /\ MaxOffset \in Nat /\ FindEntries \in Nat \ {0}
  BY ListAsked, ListBounds
<1>2. /\ batches = <<>> /\ got = Positions(1, Len(got)) /\ Len(got) <= arg.size /\ next = Len(got)
      /\ next \in Nat /\ (arg.tool = "find" => next <= FindEntries)
  BY DEF ListSoFar
<1>3. /\ all \in Nat /\ next <= all /\ all <= arg.size
      /\ all = arg.size \/ next + arg.limit < all \/ (arg.tool = "find" /\ all = FindEntries)
      /\ arg.tool = "find" => all <= FindEntries
  <2> DEFINE size == arg.size
             room == next + arg.limit
  <2>1. size \in Nat /\ next \in Nat /\ room \in Nat /\ next <= room /\ next <= size
    BY <1>1, <1>2
  <2>2. \/ arg.tool = "find" /\ all = AtMost(size, FindEntries)
        \/ arg.tool # "find" /\ (all = AtMost(size, room + ListSlack) \/ all = AtMost(size, room + 1))
    BY <1>1 DEF Collected, Walked, Logged, Found
  <2> HIDE DEF size, room, all
  <2>3. CASE arg.tool = "find" /\ all = AtMost(size, FindEntries)
    <3>1. all \in Nat /\ next <= all /\ all <= size /\ (all = size \/ all = FindEntries) /\ all <= FindEntries
      BY <2>1, <2>3, <1>1, <1>2 DEF AtMost
    <3> QED BY <2>3, <3>1 DEF size
  <2>4. CASE arg.tool # "find" /\ (all = AtMost(size, room + ListSlack) \/ all = AtMost(size, room + 1))
    <3>1. \E more \in Nat \ {0} : all = AtMost(size, room + more)
      BY <2>4, <1>1
    <3>2. all \in Nat /\ next <= all /\ all <= size /\ (all = size \/ room < all)
      BY <2>1, <3>1 DEF AtMost
    <3> QED BY <2>4, <3>2 DEF size, room
  <2> QED BY <2>2, <2>3, <2>4
<1> HIDE DEF all
<1>4. /\ end \in Nat /\ next <= end /\ end <= all
      /\ end = all => all = arg.size \/ (arg.tool = "find" /\ all = FindEntries)
  <2> DEFINE room == next + arg.limit
  <2>1. room \in Nat /\ next <= room /\ AtMost(next, all) = next
    BY <1>1, <1>2, <1>3 DEF AtMost
  <2>2. end = AtMost(room, all)
    BY <2>1
  <2>3. all = arg.size \/ room < all \/ (arg.tool = "find" /\ all = FindEntries)
    BY <1>3
  <2> HIDE DEF room, end
  <2> QED BY <2>1, <2>2, <2>3, <1>2, <1>3 DEF AtMost
<1>5. /\ got' = got \o Positions(next + 1, end)
      /\ next' = (IF end < all /\ MayFollow(arg, end) THEN end ELSE NoPage)
      /\ ended' = (IF end < all THEN IF MayFollow(arg, end) THEN "more" ELSE "window"
                   ELSE IF all < arg.size THEN "scanned" ELSE "whole")
      /\ asked' = asked /\ batches' = batches
  BY DEF ListPage, all
<1> HIDE DEF end
<1>6. /\ got' = Positions(1, end)
      /\ got' \in Seq(Nat) /\ Len(got') = end
  <2> DEFINE first == 1
             mid == next
  <2>1. /\ first \in Nat \ {0} /\ mid \in Nat /\ end \in Nat /\ first <= mid + 1 /\ mid <= end
        /\ end + 1 - first = end
    BY <1>2, <1>4
  <2>2. got = Positions(first, mid)
    BY <1>2
  <2> HIDE DEF first, mid
  <2>3. /\ Positions(first, mid) \o Positions(mid + 1, end) = Positions(first, end)
        /\ Positions(first, end) \in Seq(Nat)
        /\ Len(Positions(first, end)) = end + 1 - first
    BY <2>1, PositionsGrow
  <2>4. got' = got \o Positions(mid + 1, end)
    BY <1>5 DEF mid
  <2>5. got' = Positions(first, end)
    BY <2>2, <2>3, <2>4
  <2> QED BY <2>1, <2>3, <2>5 DEF first
<1>10. end <= arg.size
  BY <1>1, <1>3, <1>4
<1>11. ended' = "window" => arg.tool # "list" /\ end > MaxOffset
  <2>1. ended' = "window" => ~MayFollow(arg, end)
    BY <1>5
  <2>2. ~MayFollow(arg, end) => arg.tool # "list" /\ end > MaxOffset
    BY <1>1, <1>4 DEF MayFollow
  <2> QED BY <2>1, <2>2
<1>12. /\ ended' = "whole" => end = arg.size
       /\ ended' = "scanned" => arg.tool = "find" /\ end = FindEntries
       /\ ended' \notin {"cut", "stuck"}
       /\ next' # NoPage => next' = end
       /\ arg.tool = "find" => end <= FindEntries
  <2>1. end < all \/ end = all
    BY <1>3, <1>4
  <2>2. end = all => all = arg.size \/ (all < arg.size /\ arg.tool = "find" /\ all = FindEntries)
    BY <1>1, <1>3, <1>4
  <2>3. /\ ended' = "whole" => end = arg.size
        /\ ended' = "scanned" => arg.tool = "find" /\ end = FindEntries
    BY <2>1, <2>2, <1>3, <1>4, <1>5
  <2>4. ended' \notin {"cut", "stuck"} /\ (next' # NoPage => next' = end)
    BY <1>5
  <2>5. arg.tool = "find" => end <= FindEntries
    BY <1>1, <1>3, <1>4
  <2> QED BY <2>3, <2>4, <2>5
<1>13. asked'.arg = arg /\ batches' = <<>>
  BY <1>2, <1>5
<1>14. ListSoFar'
  BY <1>6, <1>10, <1>11, <1>12, <1>13 DEF ListSoFar
<1> QED BY <1>6, <1>14

\* The next page of a diff goes on where the last one ended.
LEMMA DiffPageKeepsPages ==
  ASSUME NEW arg \in DiffReads, asked = [tool |-> "diff", arg |-> arg], next # NoPage,
         got \in Seq(Nat), DiffSoFar, DiffPage(arg)
  PROVE  got' \in Seq(Nat) /\ DiffSoFar'
<1> DEFINE all == BatchPaths(DiffPaths(arg.changes))
           full == IF all = <<>> THEN <<>> ELSE arg.bytes
           size == Len(full)
           offset == AtMost(next, size)
           max == DiffBytes(arg.max)
           end == DiffEnd(full, offset, max)
<1>1. /\ arg.bytes \in Seq(Byte) /\ arg.max \in Nat /\ InCharacters(arg.bytes)
      /\ MinRead \in Nat /\ DiffDefaultBytes \in Nat /\ DiffMaxBytes \in Nat
      /\ MinRead >= 2 /\ DiffDefaultBytes >= 2 /\ DiffMaxBytes >= 2
  BY DiffAsked, DiffBounds
<1>2. max \in Nat /\ max >= 2
  BY <1>1 DEF DiffBytes, AtMost
<1>3. /\ batches = all \/ (batches = <<>> /\ got = <<>>)
      /\ got = Positions(1, Len(got)) /\ (got # <<>> => all # <<>>)
      /\ next = Len(got) /\ next \in Nat
      /\ next > 0 => next < Len(arg.bytes) /\ arg.bytes[next + 1] # "cont"
  BY DEF DiffSoFar
<1>4. /\ asked' = asked /\ batches' = all
      /\ got' = got \o Positions(offset + 1, end)
      /\ next' = (IF end < size THEN end ELSE NoPage)
      /\ ended' = (IF end = size THEN "whole" ELSE IF end = offset THEN "stuck" ELSE "more")
  BY DEF DiffPage
<1> HIDE DEF all, max
<1>5. full \in Seq(Byte) /\ InCharacters(full) /\ size \in Nat
  <2>1. InCharacters(<<>>) /\ <<>> \in Seq(Byte)
    BY DEF InCharacters
  <2> QED BY <2>1, <1>1
<1>6. offset = next /\ offset \in 0..size /\ (0 < offset /\ offset < size => full[offset + 1] # "cont")
  <2>1. CASE next = 0
    BY <2>1, <1>5 DEF AtMost
  <2>2. CASE next > 0
    <3>1. Len(<<>>) = 0
      OBVIOUS
    <3>2. all # <<>> /\ full = arg.bytes
      BY <2>2, <3>1, <1>3
    <3> QED BY <2>2, <3>2, <1>3, <1>5 DEF AtMost
  <2> QED BY <2>1, <2>2, <1>3
<1> HIDE DEF full, offset
<1>7. /\ end \in offset..size
      /\ 0 < end /\ end < size => full[end + 1] # "cont"
      /\ end = offset /\ end < size => full[end + 1] = "bad"
  BY <1>2, <1>5, <1>6, DiffEnds
<1> HIDE DEF end
<1>8. end \in Nat /\ offset \in Nat /\ offset <= end /\ end <= size
  BY <1>5, <1>6, <1>7
<1>9. got' = Positions(1, end) /\ got' \in Seq(Nat) /\ Len(got') = end
  <2> DEFINE first == 1
  <2>1. /\ first \in Nat \ {0} /\ offset \in Nat /\ end \in Nat /\ first <= offset + 1 /\ offset <= end
        /\ end + 1 - first = end
    BY <1>8
  <2>2. got = Positions(first, offset)
    BY <1>3, <1>6
  <2> HIDE DEF first
  <2>3. /\ Positions(first, offset) \o Positions(offset + 1, end) = Positions(first, end)
        /\ Positions(first, end) \in Seq(Nat)
        /\ Len(Positions(first, end)) = end + 1 - first
    BY <2>1, PositionsGrow
  <2>4. got' = got \o Positions(offset + 1, end)
    BY <1>4
  <2>5. got' = Positions(first, end)
    BY <2>2, <2>3, <2>4
  <2> QED BY <2>1, <2>3, <2>5 DEF first
<1>10. /\ size > 0 => all # <<>> /\ full = arg.bytes
       /\ size = (IF all = <<>> THEN 0 ELSE Len(arg.bytes))
       /\ end <= Len(arg.bytes)
  <2>1. Len(<<>>) = 0 /\ Len(arg.bytes) \in Nat
    BY <1>1
  <2>2. size = (IF all = <<>> THEN 0 ELSE Len(arg.bytes))
    BY <2>1 DEF full
  <2>3. size > 0 => all # <<>> /\ full = arg.bytes
    BY <2>1 DEF full
  <2> HIDE DEF size
  <2> QED BY <2>1, <2>2, <2>3, <1>5, <1>8
<1>11. got' # <<>> => all # <<>>
  <2>1. got' # <<>> => end > 0
    <3>1. Positions(1, 0) = <<>>
      BY DEF Positions
    <3> QED BY <3>1, <1>8, <1>9
  <2> QED BY <2>1, <1>5, <1>8, <1>10
<1>12. next' # NoPage =>
         /\ next' = end
         /\ next' > 0 => next' < Len(arg.bytes) /\ arg.bytes[next' + 1] # "cont"
  <2>1. SUFFICES ASSUME next' # NoPage PROVE end > 0 => end < Len(arg.bytes) /\ arg.bytes[end + 1] # "cont"
    BY <1>4
  <2>2. end < size
    BY <2>1, <1>4
  <2>3. full = arg.bytes /\ size = Len(arg.bytes)
    BY <2>2, <1>5, <1>8, <1>10
  <2> QED BY <2>2, <2>3, <1>7, <1>8
<1>13. ended' = "stuck" => arg.bytes[end + 1] = "bad"
  <2>1. SUFFICES ASSUME ended' = "stuck" PROVE arg.bytes[end + 1] = "bad"
    OBVIOUS
  <2>2. end # size /\ end = offset
    BY <2>1, <1>4
  <2>3. end < size /\ full = arg.bytes
    BY <2>2, <1>5, <1>8, <1>10
  <2> QED BY <2>2, <2>3, <1>7
<1>14. /\ ended' = "whole" => end = size
       /\ ended' \notin {"cut", "window", "scanned"}
  BY <1>4
<1>15. asked'.arg = arg
  BY <1>4
<1> HIDE DEF size
<1>16. DiffSoFar'
  BY <1>4, <1>9, <1>10, <1>11, <1>12, <1>13, <1>14, <1>15 DEF DiffSoFar, all
<1> QED BY <1>9, <1>16

\* The invariant holds.
LEMMA PagesInvHolds == ReadingSpec => []PagesInv
<1>1. ReadingInit => PagesInv
  BY DEF ReadingInit, PagesInv
<1>2. PagesInv /\ [ReadingNext]_readingVars => PagesInv'
  <2> SUFFICES ASSUME PagesInv, [ReadingNext]_readingVars PROVE PagesInv'
    OBVIOUS
  <2>1. CASE UNCHANGED <<asked, next, got, ended, batches>>
    BY <2>1 DEF PagesInv, LinesSoFar, ListSoFar, DiffSoFar
  <2>2. ASSUME Idle, NEW arg \in LineReads, Ask("lines", arg, arg.start) PROVE PagesInv'
    BY <2>2, AskKeepsPages DEF Idle
  <2>3. ASSUME Idle, NEW arg \in ListReads, Ask("list", arg, 0) PROVE PagesInv'
    BY <2>3, AskKeepsPages DEF Idle
  <2>4. ASSUME Idle, NEW arg \in DiffReads, Ask("diff", arg, 0) PROVE PagesInv'
    BY <2>4, AskKeepsPages DEF Idle
  <2>5. CASE Follow
    <3>1. asked # NoPage /\ next # NoPage /\ got \in Seq(Nat)
      BY <2>5 DEF Follow, PagesInv
    <3>2. CASE asked \in Lines /\ LinesSoFar
      <4>1. PICK arg \in LineReads : asked = [tool |-> "lines", arg |-> arg]
        BY <3>2 DEF Lines
      <4>2. LinePage(arg)
        BY <4>1, <2>5 DEF Follow
      <4>3. got' \in Seq(Nat) /\ LinesSoFar' /\ asked' = asked
        BY <4>1, <4>2, <3>1, <3>2, LinePageKeepsPages DEF LinePage
      <4> QED BY <4>3, <3>1, <3>2 DEF PagesInv, Lines
    <3>3. CASE asked \in Lists /\ ListSoFar
      <4>1. PICK arg \in ListReads : asked = [tool |-> "list", arg |-> arg]
        BY <3>3 DEF Lists
      <4>2. ListPage(arg)
        BY <4>1, <2>5 DEF Follow
      <4>3. got' \in Seq(Nat) /\ ListSoFar' /\ asked' = asked
        BY <4>1, <4>2, <3>1, <3>3, ListPageKeepsPages DEF ListPage
      <4> QED BY <4>3, <3>1, <3>3 DEF PagesInv, Lists
    <3>4. CASE asked \in Diffs /\ DiffSoFar
      <4>1. PICK arg \in DiffReads : asked = [tool |-> "diff", arg |-> arg]
        BY <3>4 DEF Diffs
      <4>2. DiffPage(arg)
        BY <4>1, <2>5 DEF Follow
      <4>3. got' \in Seq(Nat) /\ DiffSoFar' /\ asked' = asked
        BY <4>1, <4>2, <3>1, <3>4, DiffPageKeepsPages DEF DiffPage
      <4> QED BY <4>3, <3>1, <3>4 DEF PagesInv, Diffs
    <3> QED BY <3>1, <3>2, <3>3, <3>4 DEF PagesInv
  <2> QED BY <2>1, <2>2, <2>3, <2>4, <2>5 DEF ReadingNext, readingVars, ReadFiles
<1> QED BY <1>1, <1>2, PTL DEF ReadingSpec

\* The pages of lines, entries, commits and bytes of a diff that are asked for one
\* after the other skip and repeat nothing, and end too early only where PagesAreWhole
\* says; the calls of git for a diff are of every path once.
THEOREM PagesFollow == ReadingSpec => []PagesAreWhole
<1>1. PagesInv => PagesAreWhole
  <2> SUFFICES ASSUME PagesInv, asked # NoPage PROVE PagesAreWhole
    BY DEF PagesAreWhole
  <2> DEFINE before == IF asked.tool = "lines" THEN asked.arg.start - 1 ELSE 0
             reached == before + Len(got)
  <2>1. CASE asked \in Lines /\ LinesSoFar
    <3>1. asked.tool = "lines"
      BY <2>1 DEF Lines
    <3>2. DOMAIN <<>> = {}
      OBVIOUS
    <3> QED BY <2>1, <3>1, <3>2 DEF PagesAreWhole, LinesSoFar, Whole
  <2>2. CASE asked \in Lists /\ ListSoFar
    <3>1. PICK arg \in ListReads : asked = [tool |-> "list", arg |-> arg]
      BY <2>2 DEF Lists
    <3>2. arg.size \in Nat /\ Len(got) \in Nat /\ asked.arg = arg /\ asked.tool = "list"
      <4>1. got \in Seq(Nat)
        BY DEF PagesInv
      <4>2. asked.arg = arg /\ asked.tool = "list"
        BY <3>1
      <4> QED BY <4>1, <4>2, ListAsked
    <3>3. DOMAIN <<>> = {} /\ 0 + 1 = 1 /\ 0 + Len(got) = Len(got) /\ AtLeast(arg.size, 0) = arg.size
      BY <3>2 DEF AtLeast
    <3> QED BY <2>2, <3>2, <3>3 DEF PagesAreWhole, ListSoFar, Whole
  <2>3. CASE asked \in Diffs /\ DiffSoFar
    <3>1. PICK arg \in DiffReads : asked = [tool |-> "diff", arg |-> arg]
      BY <2>3 DEF Diffs
    <3> DEFINE paths == DiffPaths(arg.changes)
               all == IF batches = <<>> THEN 0 ELSE Len(arg.bytes)
    <3>2. /\ Len(arg.bytes) \in Nat /\ Len(got) \in Nat /\ asked.arg = arg /\ asked.tool = "diff"
          /\ arg.changes \in Seq(Change)
      <4>1. got \in Seq(Nat)
        BY DEF PagesInv
      <4>2. asked.arg = arg /\ asked.tool = "diff"
        BY <3>1
      <4> QED BY <4>1, <4>2, DiffAsked
    <3>3. DOMAIN <<>> = {} /\ 0 + 1 = 1 /\ 0 + Len(got) = Len(got) /\ AtLeast(all, 0) = all
      BY <3>2 DEF AtLeast
    <3>4. batches # <<>> => FlattenSeq(batches) = paths /\ \A i \in DOMAIN batches : InBounds(batches[i])
      <4>1. SUFFICES ASSUME batches # <<>> PROVE FlattenSeq(batches) = paths /\ \A i \in DOMAIN batches : InBounds(batches[i])
        OBVIOUS
      <4>2. batches = BatchPaths(paths)
        BY <4>1, <2>3, <3>2 DEF DiffSoFar
      <4>3. paths # <<>>
        BY <4>1, <4>2 DEF BatchPaths
      <4>4. PICK X : paths \in Seq(X)
        BY <3>2, DiffPathsIsSeq
      <4> HIDE DEF paths
      <4> QED BY <4>2, <4>3, <4>4, BatchesAreWhole
    <3>5. next # NoPage /\ next > 0 => arg.bytes[next + 1] # "cont"
      BY <2>3, <3>2 DEF DiffSoFar
    <3> HIDE DEF paths
    <3>6. /\ got = Positions(0 + 1, 0 + Len(got))
          /\ ended = "whole" => 0 + Len(got) = AtLeast(all, 0)
          /\ ended \notin {"cut", "window", "scanned"}
          /\ ended = "stuck" => arg.bytes[(0 + Len(got)) + 1] = "bad"
      BY <2>3, <3>2, <3>3 DEF DiffSoFar
    <3>7. \A i \in DOMAIN batches : InBounds(batches[i])
      BY <3>3, <3>4
    <3> QED BY <3>2, <3>4, <3>5, <3>6, <3>7 DEF PagesAreWhole, Whole, InBounds, paths
  <2> QED BY <2>1, <2>2, <2>3 DEF PagesInv
<1> QED BY <1>1, PagesInvHolds, PTL
=============================================================================
