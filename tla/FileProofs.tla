----------------------------- MODULE FileProofs -----------------------------
(***************************************************************************)
(* What is read of files other programs write: records are found in a log  *)
(* that grows and is cut, and a read stays inside the workspace.           *)
(***************************************************************************)
EXTENDS Records, Paths, ReadingProofs

-----------------------------------------------------------------------------
(* Execution records. *)

\* What an append leaves in the file: a record, or a part of one.
PieceOf == [record : RecordIds, part : {"all", "head", "tail"}]

\* What a scan holds is what the pieces it passed hold: the line it is in, the
\* number of whole records, and the last of them in its ring.
Passed(file, n, limit, line, ring, count) ==
  LET whole == WholeRecords(file)[n]
  IN /\ n \in 0..Len(file) /\ limit \in Nat \ {0}
     /\ line \in Seq(PieceOf) /\ \A i \in 1..Len(line) : line[i].part = "head"
     /\ line = <<>> <=> Begins(file, n + 1)
     /\ Len(line) = 1 <=> (n > 0 /\ Begins(file, n) /\ file[n].part = "head")
     /\ Len(line) = 1 => line[1] = file[n]
     /\ DOMAIN ring = 0..(limit - 1) /\ count = Len(whole)
     /\ \A k \in 1..Len(whole) : k + limit > count => ring[(k - 1) % limit] = whole[k]

\* A scan is what some passed prefix of the file makes of it, without a long line.
ScanOk(s, file) ==
  \E n \in 0..Len(file) :
    /\ s = [limit |-> s.limit, at |-> n + 1, line |-> s.line, ring |-> s.ring, count |-> s.count]
    /\ Passed(file, n, s.limit, s.line, s.ring, s.count)
    /\ \A k \in 1..n : ~TooLong(file, k)

\* What a scan that ended returned.
SeenOk(s, file) ==
  /\ s.upto \in 0..Len(file)
  /\ s.failed <=> \E n \in 1..s.upto : TooLong(file, n)
  /\ ~s.failed => s.result = LastOf(WholeRecords(file)[s.upto], s.limit)

\* Every scan, and what the last one that ended returned.
ScansOk ==
  /\ DOMAIN scan = Readers
  /\ \A c \in Readers : scan[c] # NoReader => ScanOk(scan[c], pieces)
  /\ SeenOk(seen, pieces)

\* Only the last piece may be a head whose tail is still to come; the command of a
\* head succeeded only if its tail comes next; and a record that succeeded and is
\* not whole comes after a head whose command did not.
AckedOk ==
  /\ acked \subseteq Written
  /\ \A r \in half : half = {r} /\ Len(pieces) > 0 /\ pieces[Len(pieces)] = Piece(r, "head")
  /\ \A i \in 1..Len(pieces) : pieces[i].part = "head" =>
       /\ pieces[i].record \in half => i = Len(pieces)
       /\ pieces[i].record \in acked => i < Len(pieces) /\ pieces[i + 1].part = "tail"
  /\ \A r \in acked :
       \/ r \in ToSet(WholeRecords(pieces)[Len(pieces)])
       \/ \E i \in 2..Len(pieces) :
            pieces[i].record = r /\ pieces[i - 1].part = "head" /\ pieces[i - 1].record \notin acked

\* The inductive invariant.
RecordsInv == pieces \in Seq(PieceOf) /\ ScansOk /\ AckedOk

\* WholeRecords, piece by piece.
LEMMA WholeSteps ==
  ASSUME NEW file \in Seq(PieceOf)
  PROVE  LET whole == WholeRecords(file)
         IN /\ whole \in [0..Len(file) -> Seq(RecordIds)]
            /\ whole[0] = <<>>
            /\ \A n \in 1..Len(file) :
                 whole[n] = IF EndsWhole(file, n) THEN Append(whole[n - 1], file[n].record) ELSE whole[n - 1]
<1> DEFINE N == Len(file)
           S == Seq(RecordIds)
           Op(w, n) == IF EndsWhole(file, n) THEN Append(w, file[n].record) ELSE w
           step == [x \in S \X (1..N) |-> Op(x[1], x[2])]
           Body(p) == [n \in 0..N |-> IF n = 0 THEN <<>> ELSE Op(p[n - 1], n)]
<1>1. N \in Nat /\ <<>> \in S
  OBVIOUS
<1>2. \A w \in S, n \in 1..N : Op(w, n) \in S
  <2> SUFFICES ASSUME NEW w \in S, NEW n \in 1..N PROVE Op(w, n) \in S
    OBVIOUS
  <2>1. file[n] \in PieceOf
    OBVIOUS
  <2>2. file[n].record \in RecordIds
    BY <2>1 DEF PieceOf
  <2> QED BY <2>2
<1>3. WholeRecords(file) = CHOOSE p : p = Body(p)
  BY DEF WholeRecords, N
<1> HIDE DEF Op, N, S
<1>4. step \in Steps(N, S)
  BY <1>2 DEF Steps
<1>5. PICK f : Follows(f, N, S, <<>>, step)
  <2> HIDE DEF step
  <2> QED BY <1>1, <1>4, Recursion
<1>6. ASSUME NEW n \in 1..N PROVE f[n] = Op(f[n - 1], n)
  <2>1. n - 1 \in 0..N /\ f[n - 1] \in S
    BY <1>1, <1>5 DEF Follows
  <2>2. <<f[n - 1], n>> \in S \X (1..N)
    BY <2>1
  <2> QED BY <1>5, <2>2 DEF Follows
<1>7. f = Body(f)
  BY <1>1, <1>5, <1>6 DEF Follows
<1> DEFINE whole == WholeRecords(file)
<1>8. whole = Body(whole)
  BY <1>3, <1>7
<1> HIDE DEF whole
<1>9. whole[0] = <<>> /\ \A n \in 1..N : whole[n] = Op(whole[n - 1], n)
  BY <1>1, <1>8
<1> DEFINE P == {n \in 0..N : whole[n] \in S}
<1>10. \A n \in 0..N : n \in P
  <2>1. ASSUME NEW n \in 1..N, n - 1 \in P PROVE n \in P
    <3>1. whole[n - 1] \in S /\ n \in 0..N
      BY <1>1, <2>1
    <3>2. whole[n] \in S
      BY <3>1, <1>2, <1>9
    <3> QED BY <3>1, <3>2
  <2>2. 0 \in P
    BY <1>1, <1>9
  <2> HIDE DEF P
  <2> QED BY <1>1, <2>1, <2>2, UpTo
<1>11. whole \in [0..N -> S]
  BY <1>8, <1>10
<1> QED BY <1>9, <1>11 DEF whole, Op, N, S

\* What a file holds does not change as it grows.
LEMMA WholeStays ==
  ASSUME NEW file \in Seq(PieceOf), NEW piece \in PieceOf
  PROVE  \A n \in 0..Len(file) : WholeRecords(Append(file, piece))[n] = WholeRecords(file)[n]
<1> DEFINE N == Len(file)
           more == Append(file, piece)
           w == WholeRecords(file)
           v == WholeRecords(more)
           P == {n \in 0..N : v[n] = w[n]}
<1>1. N \in Nat /\ more \in Seq(PieceOf) /\ Len(more) = N + 1 /\ \A i \in 1..N : more[i] = file[i]
  OBVIOUS
<1>2. /\ w[0] = <<>>
      /\ \A n \in 1..N : w[n] = IF EndsWhole(file, n) THEN Append(w[n - 1], file[n].record) ELSE w[n - 1]
  BY WholeSteps
<1>3. /\ v[0] = <<>>
      /\ \A n \in 1..(N + 1) : v[n] = IF EndsWhole(more, n) THEN Append(v[n - 1], more[n].record) ELSE v[n - 1]
  <2> HIDE DEF more, N
  <2>1. /\ v[0] = <<>>
        /\ \A n \in 1..Len(more) : v[n] = IF EndsWhole(more, n) THEN Append(v[n - 1], more[n].record) ELSE v[n - 1]
    BY <1>1, WholeSteps
  <2> QED BY <1>1, <2>1
<1> HIDE DEF w, v, more, N
<1>4. ASSUME NEW n \in 1..N, n - 1 \in P PROVE n \in P
  <2>1. n \in 1..(N + 1) /\ n \in 0..N /\ v[n - 1] = w[n - 1] /\ more[n] = file[n]
    BY <1>1, <1>4
  <2>2. EndsWhole(more, n) <=> EndsWhole(file, n)
    <3>1. n > 1 => /\ more[n - 1] = file[n - 1]
                   /\ n - 1 > 1 => more[n - 1 - 1] = file[n - 1 - 1]
      <4>1. /\ n > 1 => n - 1 \in 1..N
            /\ n - 1 > 1 => n - 1 - 1 \in 1..N
        <5> HIDE DEF P
        <5> QED BY <1>1, <1>4
      <4>2. \A i \in 1..N : more[i] = file[i]
        BY <1>1
      <4> QED BY <4>1, <4>2
    <3>2. /\ n = 1 \/ n > 1
          /\ n - 1 = 1 \/ n - 1 > 1 \/ n = 1
      BY <1>1
    <3>3. Begins(more, n) <=> Begins(file, n)
      BY <3>1, <3>2 DEF Begins
    <3>4. n > 1 => (Begins(more, n - 1) <=> Begins(file, n - 1))
      BY <3>1, <3>2 DEF Begins
    <3> QED BY <2>1, <3>1, <3>2, <3>3, <3>4 DEF EndsWhole
  <2>3. /\ v[n] = IF EndsWhole(more, n) THEN Append(v[n - 1], more[n].record) ELSE v[n - 1]
        /\ w[n] = IF EndsWhole(file, n) THEN Append(w[n - 1], file[n].record) ELSE w[n - 1]
    BY <1>2, <1>3, <2>1
  <2>4. v[n] = w[n]
    BY <2>1, <2>2, <2>3
  <2> QED BY <2>1, <2>4
<1>5. 0 \in P
  BY <1>1, <1>2, <1>3
<1>6. \A n \in 0..N : n \in P
  <2> HIDE DEF P
  <2> QED BY <1>1, <1>4, <1>5, UpTo
<1> QED BY <1>6 DEF w, v, more, N

\* A line that is too long stays so as the file grows, and no other becomes so.
LEMMA TooLongStays ==
  ASSUME NEW file \in Seq(PieceOf), NEW piece \in PieceOf, NEW n \in 1..Len(file)
  PROVE  TooLong(Append(file, piece), n) <=> TooLong(file, n)
<1> DEFINE more == Append(file, piece)
           starts == {k \in 1..n : Begins(file, k)}
           first == Max(starts)
<1>1. n \in Nat /\ Len(file) \in Nat /\ Len(more) = Len(file) + 1 /\ \A i \in 1..Len(file) : more[i] = file[i]
  OBVIOUS
<1> HIDE DEF more
<1>2. \A k \in 1..n : Begins(more, k) <=> Begins(file, k)
  <2> SUFFICES ASSUME NEW k \in 1..n PROVE Begins(more, k) <=> Begins(file, k)
    OBVIOUS
  <2>1. k = 1 \/ more[k - 1] = file[k - 1]
    BY <1>1
  <2> QED BY <2>1 DEF Begins
<1>3. {k \in 1..n : Begins(more, k)} = starts
  BY <1>2
<1>4. first \in 1..n
  <2>1. starts \in SUBSET (0..n) /\ 1 \in starts
    BY <1>1 DEF Begins
  <2> HIDE DEF starts
  <2>2. first \in starts
    BY <1>1, <2>1, MaxUpTo
  <2> QED BY <2>2 DEF starts
<1> HIDE DEF first
<1>5. SubSeq(more, first, n) = SubSeq(file, first, n)
  <2>1. \A i \in 1..(n - first + 1) : first + i - 1 \in 1..Len(file)
    BY <1>1, <1>4
  <2>2. SubSeq(more, first, n) = [i \in 1..(n - first + 1) |-> more[first + i - 1]]
    BY <1>1, <1>4 DEF more
  <2>3. SubSeq(file, first, n) = [i \in 1..(n - first + 1) |-> file[first + i - 1]]
    BY <1>1, <1>4
  <2> QED BY <2>1, <2>2, <2>3, <1>1
<1>6. TooLong(more, n) <=> LineLength(SubSeq(more, first, n)) >= LineBytes
  BY <1>3 DEF TooLong, first
<1>7. TooLong(file, n) <=> LineLength(SubSeq(file, first, n)) >= LineBytes
  BY DEF TooLong, first
<1> QED BY <1>5, <1>6, <1>7 DEF more

\* Places in a ring are taken again only after a whole turn.
LEMMA RingTurns ==
  ASSUME NEW n \in Nat \ {0}, NEW a \in Nat, NEW b \in Nat, a < b, b < a + n
  PROVE  a % n # b % n /\ a % n \in 0..(n - 1) /\ b % n \in 0..(n - 1)
<1> DEFINE p == a \div n
           q == b \div n
<1>1. /\ p \in Int /\ q \in Int /\ a % n \in 0..(n - 1) /\ b % n \in 0..(n - 1)
      /\ a = n * p + (a % n) /\ b = n * q + (b % n)
  OBVIOUS
<1>2. SUFFICES ASSUME a % n = b % n PROVE FALSE
  BY <1>1
<1> HIDE DEF p, q
<1>3. b - a = n * q - n * p
  BY <1>1, <1>2
<1>4. CASE q <= p
  <2>1. n * q <= n * p
    BY <1>1, <1>4
  <2> QED BY <2>1, <1>1, <1>3
<1>5. CASE q >= p + 1
  <2>1. n * q >= n * p + n
    BY <1>1, <1>5
  <2> QED BY <2>1, <1>1, <1>3
<1> QED BY <1>1, <1>4, <1>5

\* What a scan passed is unchanged by what is appended later.
LEMMA PassedStays ==
  ASSUME NEW file \in Seq(PieceOf), NEW piece \in PieceOf, NEW n, NEW limit, NEW line, NEW ring, NEW count,
         Passed(file, n, limit, line, ring, count)
  PROVE  Passed(Append(file, piece), n, limit, line, ring, count)
<1> DEFINE more == Append(file, piece)
           N == Len(file)
<1>1. N \in Nat /\ Len(more) = N + 1 /\ \A i \in 1..N : more[i] = file[i]
  OBVIOUS
<1>2. n \in 0..N
  BY DEF Passed
<1>3. WholeRecords(more)[n] = WholeRecords(file)[n]
  BY <1>2, WholeStays
<1> HIDE DEF more, N
<1>4. /\ Begins(more, n + 1) <=> Begins(file, n + 1)
      /\ n > 0 => (Begins(more, n) <=> Begins(file, n))
      /\ n > 0 => more[n] = file[n]
  <2>1. /\ n > 0 => more[n] = file[n] /\ n + 1 # 1
        /\ n = 0 \/ n = 1 \/ n > 1
        /\ n > 1 => more[n - 1] = file[n - 1]
        /\ n + 1 - 1 = n /\ (n = 0 => n + 1 = 1)
    BY <1>1, <1>2
  <2> QED BY <2>1, <1>2 DEF Begins
<1>5. n \in 0..Len(more)
  BY <1>1, <1>2
<1>6. Len(line) = 1 => n > 0
  BY DEF Passed
<1> QED BY <1>3, <1>4, <1>5, <1>6 DEF Passed, more

\* The line a scan is in decodes when the next piece ends a whole record.
LEMMA LineDecodes ==
  ASSUME NEW file \in Seq(PieceOf), NEW n \in 1..Len(file), NEW line \in Seq(PieceOf), file[n].part # "head",
         \A i \in 1..Len(line) : line[i].part = "head",
         line = <<>> <=> Begins(file, n),
         Len(line) = 1 <=> (n > 1 /\ Begins(file, n - 1) /\ file[n - 1].part = "head"),
         Len(line) = 1 => line[1] = file[n - 1]
  PROVE  /\ Decodes(Append(line, file[n])) <=> EndsWhole(file, n)
         /\ Decodes(Append(line, file[n])) => Append(line, file[n])[1].record = file[n].record
<1> DEFINE piece == file[n]
           long == Append(line, piece)
<1>1. /\ piece \in PieceOf /\ Len(long) = Len(line) + 1 /\ long[Len(line) + 1] = piece /\ Len(line) \in Nat
      /\ \A i \in 1..Len(line) : long[i] = line[i]
      /\ line = <<>> <=> Len(line) = 0
  OBVIOUS
<1> HIDE DEF long, piece
<1>2. CASE Len(line) = 0
  <2>1. Len(long) = 1 /\ long[1] = piece /\ Begins(file, n)
    BY <1>1, <1>2
  <2>2. n > 1 => file[n - 1].part # "head"
    BY <2>1 DEF Begins
  <2> QED BY <2>1, <2>2 DEF Decodes, EndsWhole, piece, long
<1>3. CASE Len(line) = 1
  <2>1. /\ Len(long) = 2 /\ long[1] = file[n - 1] /\ long[2] = piece
        /\ n > 1 /\ Begins(file, n - 1) /\ file[n - 1].part = "head"
    BY <1>1, <1>3
  <2>2. ~Begins(file, n)
    BY <1>1, <1>3
  <2> QED BY <2>1, <2>2 DEF Decodes, EndsWhole, Piece, piece, long
<1>4. CASE Len(line) > 1
  <2> DEFINE m == Len(line)
             k == Len(long)
  <2>1. m \in Nat /\ m > 1 /\ k = m + 1
    BY <1>1, <1>4
  <2> HIDE DEF m, k
  <2>2. k # 1 /\ k # 2 /\ m # 1 /\ m # 0
    BY <2>1
  <2>3. ~Begins(file, n)
    BY <2>2, <1>1 DEF m
  <2>4. ~(n > 1 /\ Begins(file, n - 1) /\ file[n - 1].part = "head")
    BY <2>2 DEF m
  <2> QED BY <2>2, <2>3, <2>4 DEF Decodes, EndsWhole, k, long, piece
<1>5. Len(line) = 0 \/ Len(line) = 1 \/ Len(line) > 1
  <2> DEFINE m == Len(line)
  <2>1. m \in Nat
    BY <1>1
  <2> HIDE DEF m
  <2>2. m = 0 \/ m = 1 \/ m > 1
    BY <2>1
  <2> QED BY <2>2 DEF m
<1> QED BY <1>2, <1>3, <1>4, <1>5

\* A scan that reads a head adds it to its line.
LEMMA PassHead ==
  ASSUME NEW file \in Seq(PieceOf), NEW n \in 1..Len(file), NEW limit, NEW line, NEW ring, NEW count,
         Passed(file, n - 1, limit, line, ring, count), file[n].part = "head"
  PROVE  Passed(file, n, limit, Append(line, file[n]), ring, count)
<1> DEFINE piece == file[n]
           long == Append(line, piece)
           w == WholeRecords(file)
<1>1. piece \in PieceOf /\ n \in Nat /\ n \in 0..Len(file) /\ n > 0 /\ n + 1 # 1 /\ n + 1 - 1 = n /\ n - 1 + 1 = n
  OBVIOUS
<1>2. /\ limit \in Nat \ {0} /\ line \in Seq(PieceOf) /\ (\A i \in 1..Len(line) : line[i].part = "head")
      /\ line = <<>> <=> Begins(file, n)
      /\ DOMAIN ring = 0..(limit - 1) /\ count = Len(w[n - 1])
      /\ \A k \in 1..Len(w[n - 1]) : k + limit > count => ring[(k - 1) % limit] = w[n - 1][k]
  BY <1>1 DEF Passed
<1>3. w[n] = w[n - 1]
  <2>1. ~EndsWhole(file, n)
    BY DEF EndsWhole, Piece
  <2> QED BY <2>1, WholeSteps
<1>4. /\ long \in Seq(PieceOf) /\ Len(long) = Len(line) + 1 /\ long[Len(line) + 1] = piece
      /\ \A i \in 1..Len(line) : long[i] = line[i]
      /\ Len(line) \in Nat /\ (line = <<>> <=> Len(line) = 0)
  BY <1>1, <1>2
<1> HIDE DEF long, w
<1>5. \A i \in 1..Len(long) : long[i].part = "head"
  <2> SUFFICES ASSUME NEW i \in 1..Len(long) PROVE long[i].part = "head"
    OBVIOUS
  <2>1. i \in 1..Len(line) \/ i = Len(line) + 1
    BY <1>4
  <2> QED BY <2>1, <1>2, <1>4
<1>6. /\ long # <<>>
      /\ Len(long) = 1 <=> line = <<>>
      /\ Len(long) = 1 => long[1] = piece
  BY <1>4
<1>7. ~Begins(file, n + 1)
  BY <1>1 DEF Begins
<1> QED BY <1>1, <1>2, <1>3, <1>4, <1>5, <1>6, <1>7 DEF Passed, long, w

\* A scan that reads the end of a line keeps its record when the line decodes.
LEMMA PassEnd ==
  ASSUME NEW file \in Seq(PieceOf), NEW n \in 1..Len(file), NEW limit, NEW line, NEW ring, NEW count,
         Passed(file, n - 1, limit, line, ring, count), file[n].part # "head"
  PROVE  IF Decodes(Append(line, file[n]))
         THEN /\ Passed(file, n, limit, <<>>, [ring EXCEPT ![count % limit] = file[n].record], count + 1)
              /\ Append(line, file[n])[1].record = file[n].record
         ELSE Passed(file, n, limit, <<>>, ring, count)
<1> DEFINE r == file[n].record
           w == WholeRecords(file)
           turned == [ring EXCEPT ![count % limit] = r]
<1>1. n \in Nat /\ n \in 0..Len(file) /\ n + 1 # 1 /\ n + 1 - 1 = n /\ n - 1 + 1 = n /\ (n - 1 > 0 <=> n > 1) /\ n - 1 \in 0..Len(file)
  OBVIOUS
<1>2. /\ limit \in Nat \ {0} /\ line \in Seq(PieceOf) /\ (\A i \in 1..Len(line) : line[i].part = "head")
      /\ line = <<>> <=> Begins(file, n)
      /\ Len(line) = 1 <=> (n > 1 /\ Begins(file, n - 1) /\ file[n - 1].part = "head")
      /\ Len(line) = 1 => line[1] = file[n - 1]
      /\ DOMAIN ring = 0..(limit - 1) /\ count = Len(w[n - 1])
      /\ \A k \in 1..Len(w[n - 1]) : k + limit > count => ring[(k - 1) % limit] = w[n - 1][k]
  BY <1>1 DEF Passed
<1>3. /\ Decodes(Append(line, file[n])) <=> EndsWhole(file, n)
      /\ Decodes(Append(line, file[n])) => Append(line, file[n])[1].record = file[n].record
  BY <1>2, LineDecodes
<1>4. /\ w[n] = IF EndsWhole(file, n) THEN Append(w[n - 1], r) ELSE w[n - 1]
      /\ w[n - 1] \in Seq(RecordIds)
  BY <1>1, WholeSteps
<1>8. r \in RecordIds
  <2>1. file[n] \in PieceOf
    OBVIOUS
  <2> QED BY <2>1 DEF PieceOf
<1>5. /\ <<>> \in Seq(PieceOf) /\ Len(<<>>) = 0 /\ (\A i \in 1..Len(<<>>) : <<>>[i].part = "head")
      /\ Begins(file, n + 1) /\ ~(file[n].part = "head")
  <2>1. <<>> \in Seq(PieceOf) /\ Len(<<>>) = 0
    OBVIOUS
  <2>2. (n + 1) - 1 = n /\ file[n].part # "head"
    BY <1>1
  <2>3. Begins(file, n + 1)
    BY <2>2 DEF Begins
  <2> QED BY <2>1, <2>2, <2>3
<1> HIDE DEF w, r, turned
<1>6. CASE ~Decodes(Append(line, file[n]))
  <2>1. w[n] = w[n - 1]
    BY <1>3, <1>4, <1>6
  <2>2. Passed(file, n, limit, <<>>, ring, count)
    BY <2>1, <1>1, <1>2, <1>5 DEF Passed, w
  <2> QED BY <2>2, <1>6
<1>7. CASE Decodes(Append(line, file[n]))
  <2>1. w[n] = Append(w[n - 1], r)
    BY <1>3, <1>4, <1>7
  <2>2. count \in Nat /\ Len(w[n]) = count + 1 /\ w[n][count + 1] = r /\ \A k \in 1..count : w[n][k] = w[n - 1][k]
    <3> DEFINE u == w[n - 1]
    <3>1. u \in Seq(RecordIds) /\ count = Len(u) /\ w[n] = Append(u, r)
      BY <2>1, <1>2, <1>4
    <3> HIDE DEF u
    <3>2. Len(Append(u, r)) = Len(u) + 1 /\ Append(u, r)[Len(u) + 1] = r /\ \A k \in 1..Len(u) : Append(u, r)[k] = u[k]
      BY <3>1, <1>8
    <3>3. count \in Nat
      BY <3>1
    <3> QED BY <3>1, <3>2, <3>3 DEF u
  <2>3. DOMAIN turned = 0..(limit - 1)
    BY <1>2 DEF turned
  <2>4. ASSUME NEW k \in 1..(count + 1), k + limit > count + 1 PROVE turned[(k - 1) % limit] = w[n][k]
    <3>1. count % limit \in 0..(limit - 1)
      <4>1. count \in Nat /\ limit \in Nat \ {0}
        BY <2>2, <1>2
      <4> QED BY <4>1
    <3>2. CASE k = count + 1
      <4>1. k - 1 = count
        BY <3>2, <2>2
      <4> QED BY <3>1, <3>2, <4>1, <2>2, <1>2 DEF turned
    <3>3. CASE k # count + 1
      <4> DEFINE a == k - 1
      <4>0. count \in Nat /\ limit \in Nat
        BY <2>2, <1>2
      <4>1. k \in 1..count /\ k + limit > count /\ a \in Nat /\ a < count /\ count < a + limit
        BY <3>3, <4>0, <2>4
      <4>2. ring[a % limit] = w[n - 1][k]
        BY <4>1, <1>2
      <4> HIDE DEF a
      <4>3. a % limit # count % limit /\ a % limit \in 0..(limit - 1)
        BY <4>1, <2>2, <1>2, RingTurns
      <4>4. turned[a % limit] = ring[a % limit]
        BY <4>3, <1>2 DEF turned
      <4> QED BY <4>1, <4>2, <4>4, <2>2 DEF a
    <3> QED BY <3>2, <3>3
  <2> DEFINE c == count + 1
  <2>5. c = Len(w[n]) /\ \A k \in 1..Len(w[n]) : k + limit > c => turned[(k - 1) % limit] = w[n][k]
    BY <2>2, <2>4
  <2> HIDE DEF c
  <2>6. Passed(file, n, limit, <<>>, turned, c)
    BY <2>3, <2>5, <1>1, <1>2, <1>5 DEF Passed, w
  <2> QED BY <2>6, <1>3, <1>7 DEF turned, r, c
<1> QED BY <1>6, <1>7

\* What a scan that passed a whole file returns is the end of what the file holds.
LEMMA ReadReturns ==
  ASSUME NEW file \in Seq(PieceOf), NEW n, NEW limit, NEW line, NEW ring, NEW count,
         Passed(file, n, limit, line, ring, count)
  PROVE  LET size == IF count > limit THEN limit ELSE count
         IN [i \in 1..size |-> ring[(count - size + i - 1) % limit]] = LastOf(WholeRecords(file)[n], limit)
<1> DEFINE w == WholeRecords(file)[n]
           size == IF count > limit THEN limit ELSE count
           result == [i \in 1..size |-> ring[(count - size + i - 1) % limit]]
<1>1. /\ limit \in Nat \ {0} /\ count = Len(w)
      /\ \A k \in 1..count : k + limit > count => ring[(k - 1) % limit] = w[k]
  BY DEF Passed
<1>2. w \in Seq(RecordIds)
  <2>1. n \in 0..Len(file)
    BY DEF Passed
  <2> QED BY <2>1, WholeSteps
<1>3. count \in Nat
  BY <1>1, <1>2
<1> HIDE DEF w
<1>4. size \in Nat /\ size <= count /\ size <= limit /\ (size = count \/ size = limit)
  BY <1>1, <1>3
<1> HIDE DEF size
<1>5. ASSUME NEW i \in 1..size PROVE result[i] = w[count - size + i]
  <2> DEFINE k == count - size + i
  <2>1. k \in 1..count /\ k + limit > count /\ count - size + i - 1 = k - 1
    BY <1>1, <1>3, <1>4
  <2> HIDE DEF k
  <2>2. result[i] = ring[(k - 1) % limit]
    BY <2>1
  <2> QED BY <2>1, <2>2, <1>1 DEF k
<1>6. LastOf(w, limit) \in Seq(RecordIds) /\ Len(LastOf(w, limit)) = size /\ \A i \in 1..size : LastOf(w, limit)[i] = w[count - size + i]
  <2>1. CASE count > limit
    <3>1. LastOf(w, limit) = SubSeq(w, count - limit + 1, count) /\ size = limit
      BY <2>1, <1>1 DEF LastOf, size
    <3>2. /\ count - limit + 1 \in 1..count /\ count - limit + 1 \in Nat /\ count - (count - limit + 1) + 1 = limit
          /\ \A i \in 1..limit : count - limit + i = (count - limit + 1) + i - 1
      BY <2>1, <1>1, <1>3
    <3> DEFINE m == count - limit + 1
    <3> HIDE DEF m
    <3>3. m \in 1..count /\ count - m + 1 = limit /\ m <= count /\ m \in Int
      BY <3>2, <1>3 DEF m
    <3>4. /\ SubSeq(w, m, count) \in Seq(RecordIds) /\ Len(SubSeq(w, m, count)) = count - m + 1
          /\ \A i \in 1..(count - m + 1) : SubSeq(w, m, count)[i] = w[m + i - 1]
      BY <3>3, <1>1, <1>2, <1>3
    <3> QED BY <3>1, <3>2, <3>3, <3>4 DEF m
  <2>2. CASE ~(count > limit)
    <3>1. LastOf(w, limit) = w /\ size = count
      BY <2>2, <1>1 DEF LastOf, size
    <3>2. \A i \in 1..count : count - count + i = i
      BY <1>3
    <3> QED BY <3>1, <3>2, <1>1, <1>2
  <2> QED BY <2>1, <2>2
<1>7. result \in Seq(RecordIds) /\ Len(result) = size
  <2>1. \A i \in 1..size : result[i] \in RecordIds
    <3> SUFFICES ASSUME NEW i \in 1..size PROVE result[i] \in RecordIds
      OBVIOUS
    <3>1. count - size + i \in 1..Len(w)
      BY <1>1, <1>3, <1>4
    <3> HIDE DEF result
    <3> QED BY <3>1, <1>2, <1>5
  <2> QED BY <2>1, <1>4
<1> HIDE DEF result
<1>8. result = LastOf(w, limit)
  BY <1>5, <1>6, <1>7, SeqEqual
<1> QED BY <1>8 DEF result, size, w

\* An append leaves what the scans hold true of the longer file.
LEMMA GrowKeepsScans ==
  ASSUME pieces \in Seq(PieceOf), ScansOk, NEW piece \in PieceOf, pieces' = Append(pieces, piece),
         UNCHANGED <<scan, seen>>
  PROVE  ScansOk'
<1> DEFINE file == pieces
<1>1. PICK f : f = pieces
  OBVIOUS
<1>2. f \in Seq(PieceOf) /\ Len(f) \in Nat /\ pieces' = Append(f, piece) /\ Len(Append(f, piece)) = Len(f) + 1
  BY <1>1
<1>3. ASSUME NEW c \in Readers, scan'[c] # NoReader PROVE ScanOk(scan'[c], pieces')
  <2>1. PICK s : s = scan[c]
    OBVIOUS
  <2>2. scan'[c] = s /\ ScanOk(s, f)
    BY <2>1, <1>1, <1>3 DEF ScansOk
  <2>3. PICK n \in 0..Len(f) :
          /\ s = [limit |-> s.limit, at |-> n + 1, line |-> s.line, ring |-> s.ring, count |-> s.count]
          /\ Passed(f, n, s.limit, s.line, s.ring, s.count)
          /\ \A k \in 1..n : ~TooLong(f, k)
    BY <2>2 DEF ScanOk
  <2>4. Passed(Append(f, piece), n, s.limit, s.line, s.ring, s.count)
    BY <2>3, <1>2, PassedStays
  <2>5. n \in 0..Len(Append(f, piece))
    BY <1>2
  <2>7. \A k \in 1..n : ~TooLong(Append(f, piece), k)
    BY <2>3, <1>2, TooLongStays
  <2>6. ScanOk(s, Append(f, piece))
    BY <2>3, <2>4, <2>5, <2>7 DEF ScanOk
  <2> QED BY <2>2, <2>6, <1>2
<1>4. SeenOk(seen', pieces')
  <2>0. PICK e : e = seen
    OBVIOUS
  <2>1. SeenOk(e, f)
    BY <1>1, <2>0 DEF ScansOk
  <2>2. e.upto \in 0..Len(f) /\ e.upto \in 0..Len(Append(f, piece))
    BY <2>1, <1>2 DEF SeenOk
  <2>3. WholeRecords(Append(f, piece))[e.upto] = WholeRecords(f)[e.upto]
    BY <2>2, <1>2, WholeStays
  <2>4. \A n \in 1..e.upto : n \in 1..Len(f)
    BY <2>2, <1>2
  <2>5. \A n \in 1..e.upto : TooLong(Append(f, piece), n) <=> TooLong(f, n)
    BY <2>4, <1>2, TooLongStays
  <2>6. SeenOk(e, Append(f, piece))
    BY <2>1, <2>2, <2>3, <2>5 DEF SeenOk
  <2> QED BY <2>0, <2>6, <1>2
<1>5. DOMAIN scan' = Readers
  BY DEF ScansOk
<1> QED BY <1>3, <1>4, <1>5 DEF ScansOk

\* A step of one scan leaves the others as they are.
LEMMA ScanStepKeeps ==
  ASSUME ScansOk, NEW c \in Readers, NEW s, scan' = [scan EXCEPT ![c] = s], UNCHANGED pieces,
         s # NoReader => ScanOk(s, pieces),
         seen' = seen \/ SeenOk(seen', pieces)
  PROVE  ScansOk'
<1>1. DOMAIN scan' = Readers /\ \A d \in Readers : scan'[d] = IF d = c THEN s ELSE scan[d]
  BY DEF ScansOk
<1>2. \A d \in Readers : scan'[d] # NoReader => ScanOk(scan'[d], pieces')
  BY <1>1 DEF ScansOk
<1> QED BY <1>1, <1>2 DEF ScansOk

\* What an append adds to what a file holds.
LEMMA WholeGrows ==
  ASSUME NEW file \in Seq(PieceOf), NEW piece \in PieceOf
  PROVE  LET more == Append(file, piece)
             held == ToSet(WholeRecords(file)[Len(file)])
             holds == ToSet(WholeRecords(more)[Len(more)])
         IN /\ held \subseteq holds
            /\ EndsWhole(more, Len(more)) => piece.record \in holds
<1> DEFINE N == Len(file)
           more == Append(file, piece)
           w == WholeRecords(file)
           v == WholeRecords(more)
<1>1. N \in Nat /\ more \in Seq(PieceOf) /\ Len(more) = N + 1 /\ more[N + 1] = piece /\ N \in 0..N /\ piece.record \in RecordIds
  BY DEF PieceOf
<1>2. v[N] = w[N] /\ w[N] \in Seq(RecordIds)
  BY <1>1, WholeStays, WholeSteps
<1> HIDE DEF more, w
<1>3. v[N + 1] = IF EndsWhole(more, N + 1) THEN Append(v[N], piece.record) ELSE v[N]
  <2>1. \A n \in 1..Len(more) : v[n] = IF EndsWhole(more, n) THEN Append(v[n - 1], more[n].record) ELSE v[n - 1]
    BY <1>1, WholeSteps
  <2>2. N + 1 \in 1..Len(more) /\ N + 1 - 1 = N
    BY <1>1
  <2> HIDE DEF v
  <2> QED BY <2>1, <2>2, <1>1
<1> HIDE DEF v, N
<1> DEFINE u == w[N]
           r == piece.record
<1>4. /\ u \in Seq(RecordIds) /\ r \in RecordIds
  BY <1>1, <1>2
<1> HIDE DEF u, r
<1>5. ToSet(u) \subseteq ToSet(Append(u, r)) /\ r \in ToSet(Append(u, r))
  <2>1. /\ DOMAIN u = 1..Len(u) /\ DOMAIN Append(u, r) = 1..(Len(u) + 1) /\ Len(u) \in Nat
        /\ Append(u, r)[Len(u) + 1] = r /\ \A k \in 1..Len(u) : Append(u, r)[k] = u[k]
    BY <1>4
  <2>2. Len(u) + 1 \in DOMAIN Append(u, r) /\ \A k \in DOMAIN u : k \in DOMAIN Append(u, r)
    BY <2>1
  <2> QED BY <2>1, <2>2 DEF ToSet
<1>6. v[N + 1] = IF EndsWhole(more, N + 1) THEN Append(u, r) ELSE u
  BY <1>2, <1>3 DEF u, r
<1> QED BY <1>1, <1>5, <1>6 DEF u, r, v, w, more, N

\* A line that is not a whole record, though it could be.
LEMMA NotWhole ==
  ASSUME NEW file, NEW n, ~EndsWhole(file, n)
  PROVE  /\ file[n].part = "all" => n # 1 /\ file[n - 1].part = "head"
         /\ n > 1 /\ file[n - 1].part = "head" /\ file[n] = Piece(file[n - 1].record, "tail") => ~Begins(file, n - 1)
<1>1. file[n].part = "all" => ~Begins(file, n)
  BY DEF EndsWhole
<1>2. ~Begins(file, n) => n # 1 /\ file[n - 1].part = "head"
  BY DEF Begins
<1>3. n > 1 /\ file[n - 1].part = "head" /\ file[n] = Piece(file[n - 1].record, "tail") => ~Begins(file, n - 1)
  BY DEF EndsWhole
<1> QED BY <1>1, <1>2, <1>3

\* An append, whole or interrupted, keeps what is known of records.
LEMMA AppendKeepsAcked ==
  ASSUME pieces \in Seq(PieceOf), AckedOk, NEW r \in RecordIds, Append1(r)
  PROVE  pieces' \in Seq(PieceOf) /\ AckedOk'
<1> DEFINE N == Len(pieces)
<1>1. r \notin Written /\ half = {} /\ N \in Nat
  BY DEF Append1
<1>2. \A i \in 1..N : pieces[i].record # r
  BY <1>1 DEF Written
<1>3. PICK part \in {"all", "head"} :
        /\ pieces' = Append(pieces, Piece(r, part))
        /\ part = "all" => acked' = acked \cup {r} /\ half' = half
        /\ part = "head" => half' = {r} /\ acked' = acked
  BY DEF Append1
<1> DEFINE piece == Piece(r, part)
           p == pieces'
<1>4. piece \in PieceOf /\ piece.record = r /\ piece.part = part
  BY DEF Piece, PieceOf
<1>5. /\ p \in Seq(PieceOf) /\ Len(p) = N + 1 /\ p[N + 1] = piece /\ \A i \in 1..N : p[i] = pieces[i]
  BY <1>3, <1>4
<1>6. /\ ToSet(WholeRecords(pieces)[N]) \subseteq ToSet(WholeRecords(p)[N + 1])
      /\ EndsWhole(p, N + 1) => r \in ToSet(WholeRecords(p)[N + 1])
  <2>1. PICK f : f = pieces
    OBVIOUS
  <2>2. f \in Seq(PieceOf) /\ p = Append(f, piece)
    BY <2>1, <1>3
  <2> HIDE DEF piece
  <2> QED BY <2>1, <2>2, <1>4, <1>5, WholeGrows
<1> HIDE DEF piece, N, p
<1>7. \A s \in half' : half' = {s} /\ N + 1 > 0 /\ p[N + 1] = Piece(s, "head")
  BY <1>1, <1>3, <1>5 DEF piece
<1>8. ASSUME NEW i \in 1..(N + 1), p[i].part = "head"
      PROVE  /\ p[i].record \in half' => i = N + 1
             /\ p[i].record \in acked' => i < N + 1 /\ p[i + 1].part = "tail"
  <2>1. CASE i = N + 1
    <3>1. p[i].record = r /\ part = "head"
      BY <2>1, <1>4, <1>5, <1>8
    <3>2. r \notin acked
      BY <1>1 DEF AckedOk
    <3> QED BY <2>1, <3>1, <3>2, <1>3
  <2>2. CASE i # N + 1
    <3>1. i \in 1..N /\ p[i] = pieces[i] /\ p[i].record # r /\ i < N + 1
      BY <2>2, <1>1, <1>2, <1>5 DEF N
    <3>2. p[i].record \notin half'
      BY <3>1, <1>1, <1>3
    <3>3. p[i].record \in acked' => p[i].record \in acked
      BY <3>1, <1>3
    <3>4. p[i].record \in acked => i < N /\ pieces[i + 1].part = "tail"
      BY <3>1, <1>8 DEF AckedOk, N
    <3>5. i < N => p[i + 1] = pieces[i + 1]
      BY <3>1, <1>1, <1>5
    <3> QED BY <3>1, <3>2, <3>3, <3>4, <3>5
  <2> QED BY <2>1, <2>2
<1>9. acked' \subseteq {p[i].record : i \in DOMAIN p} /\ DOMAIN p = 1..(N + 1) /\ DOMAIN pieces = 1..N
  <2>1. DOMAIN p = 1..(N + 1) /\ DOMAIN pieces = 1..N
    BY <1>5 DEF N
  <2>2. \A i \in 1..N : i \in 1..(N + 1) /\ p[i].record = pieces[i].record
    BY <1>1, <1>5
  <2>3. N + 1 \in 1..(N + 1) /\ p[N + 1].record = r
    BY <1>1, <1>4, <1>5
  <2>4. acked \subseteq {pieces[i].record : i \in DOMAIN pieces}
    BY DEF AckedOk, Written
  <2>5. acked' \subseteq acked \cup {r}
    BY <1>3
  <2> QED BY <2>1, <2>2, <2>3, <2>4, <2>5
<1>10. ASSUME NEW s \in acked', s \notin ToSet(WholeRecords(p)[N + 1])
       PROVE  \E i \in 2..(N + 1) : p[i].record = s /\ p[i - 1].part = "head" /\ p[i - 1].record \notin acked'
  <2>1. CASE s = r /\ part = "all"
    <3>1. ~EndsWhole(p, N + 1)
      BY <2>1, <1>6, <1>10
    <3>2. p[N + 1].part = "all" /\ p[N + 1].record = r
      BY <2>1, <1>4, <1>5
    <3>3. N # 0 /\ p[N].part = "head"
      <4> DEFINE M == N + 1
      <4>1. ~EndsWhole(p, M)
        BY <3>1
      <4>2. p[M].part = "all"
        BY <3>2
      <4>4. M - 1 = N /\ (N = 0 => M = 1)
        BY <1>1
      <4> HIDE DEF M
      <4>3. M # 1 /\ p[M - 1].part = "head"
        BY <4>1, <4>2, NotWhole
      <4> QED BY <4>3, <4>4
    <3>4. N \in 1..N /\ N + 1 \in 2..(N + 1) /\ N + 1 - 1 = N /\ ~(N < N)
      BY <3>3, <1>1
    <3>5. p[N].part = "head" /\ p[N] = pieces[N] /\ p[N].record # r
      BY <3>3, <3>4, <1>2, <1>5
    <3>6. p[N].record \notin acked
      BY <3>4, <3>5 DEF AckedOk, N
    <3> QED BY <2>1, <3>2, <3>4, <3>5, <3>6, <1>3
  <2>2. CASE ~(s = r /\ part = "all")
    <3>1. s \in acked
      BY <2>2, <1>3
    <3>2. s \notin ToSet(WholeRecords(pieces)[N])
      BY <1>6, <1>10
    <3>3. PICK i \in 2..N : pieces[i].record = s /\ pieces[i - 1].part = "head" /\ pieces[i - 1].record \notin acked
      BY <3>1, <3>2 DEF AckedOk, N
    <3>4. i \in 1..N /\ i - 1 \in 1..N /\ i \in 2..(N + 1)
      BY <1>1
    <3>5. p[i] = pieces[i] /\ p[i - 1] = pieces[i - 1] /\ pieces[i - 1].record # r
      BY <3>4, <1>2, <1>5
    <3> QED BY <3>3, <3>4, <3>5, <1>3
  <2> QED BY <2>1, <2>2
<1>11. AckedOk'
  BY <1>5, <1>7, <1>8, <1>9, <1>10 DEF AckedOk, Written, p
<1> QED BY <1>5, <1>11 DEF p

\* The rest of an append keeps what is known of records.
LEMMA RestKeepsAcked ==
  ASSUME pieces \in Seq(PieceOf), AckedOk, AppendRest
  PROVE  /\ pieces' \in Seq(PieceOf) /\ AckedOk'
         /\ \E piece \in PieceOf : pieces' = Append(pieces, piece)
<1> DEFINE N == Len(pieces)
           p == pieces'
<1>1. PICK r \in half : pieces' = Append(pieces, Piece(r, "tail")) /\ acked' = acked \cup {r} /\ half' = {}
  BY DEF AppendRest
<1>2. N \in Nat /\ N > 0 /\ pieces[N] = Piece(r, "head") /\ N \in 1..N /\ half = {r}
  BY DEF AckedOk
<1> DEFINE piece == Piece(r, "tail")
<1>3. pieces[N].record = r /\ pieces[N].part = "head" /\ piece.record = r /\ piece.part = "tail" /\ piece \in PieceOf
  <2>1. pieces[N] \in PieceOf
    BY <1>2
  <2> QED BY <2>1, <1>2 DEF Piece, PieceOf
<1>5. /\ p \in Seq(PieceOf) /\ Len(p) = N + 1 /\ p[N + 1] = piece /\ \A i \in 1..N : p[i] = pieces[i]
  BY <1>1, <1>3
<1>6. /\ ToSet(WholeRecords(pieces)[N]) \subseteq ToSet(WholeRecords(p)[N + 1])
      /\ EndsWhole(p, N + 1) => r \in ToSet(WholeRecords(p)[N + 1])
  <2>1. PICK f : f = pieces
    OBVIOUS
  <2>2. f \in Seq(PieceOf) /\ p = Append(f, piece)
    BY <2>1, <1>1
  <2> HIDE DEF piece
  <2> QED BY <2>1, <2>2, <1>3, <1>5, WholeGrows
<1> HIDE DEF piece, N, p
<1>8. ASSUME NEW i \in 1..(N + 1), p[i].part = "head"
      PROVE  p[i].record \in acked' => i < N + 1 /\ p[i + 1].part = "tail"
  <2>1. i # N + 1
    BY <1>3, <1>5, <1>8
  <2>2. i \in 1..N /\ p[i] = pieces[i] /\ i < N + 1
    BY <2>1, <1>2, <1>5
  <2>3. CASE p[i].record = r
    <3>1. i = N
      BY <2>2, <2>3, <1>2, <1>8 DEF AckedOk, N
    <3> QED BY <2>2, <3>1, <1>3, <1>5
  <2>4. CASE p[i].record # r
    <3>1. p[i].record \in acked' => i < N /\ pieces[i + 1].part = "tail"
      BY <2>2, <2>4, <1>1, <1>8 DEF AckedOk, N
    <3>2. i < N => p[i + 1] = pieces[i + 1]
      BY <2>2, <1>2, <1>5
    <3> QED BY <2>2, <3>1, <3>2
  <2> QED BY <2>3, <2>4
<1>9. acked' \subseteq {p[i].record : i \in DOMAIN p} /\ DOMAIN p = 1..(N + 1) /\ DOMAIN pieces = 1..N
  <2>1. DOMAIN p = 1..(N + 1) /\ DOMAIN pieces = 1..N
    BY <1>5 DEF N
  <2>2. \A i \in 1..N : i \in 1..(N + 1) /\ p[i].record = pieces[i].record
    BY <1>2, <1>5
  <2>3. acked \subseteq {pieces[i].record : i \in DOMAIN pieces}
    BY DEF AckedOk, Written
  <2> QED BY <2>1, <2>2, <2>3, <1>1, <1>2, <1>3
<1>10. ASSUME NEW s \in acked', s \notin ToSet(WholeRecords(p)[N + 1])
       PROVE  \E i \in 2..(N + 1) : p[i].record = s /\ p[i - 1].part = "head" /\ p[i - 1].record \notin acked'
  <2>1. CASE s = r
    <3>1. ~EndsWhole(p, N + 1)
      BY <2>1, <1>6, <1>10
    <3>2. p[N] = pieces[N] /\ N + 1 > 1 /\ N + 1 - 1 = N
      BY <1>2, <1>5
    <3>3. p[N + 1] = Piece(p[N].record, "tail")
      BY <3>2, <1>3, <1>5 DEF piece
    <3>4. ~Begins(p, N)
      <4> DEFINE M == N + 1
      <4>a. ~EndsWhole(p, M)
        BY <3>1
      <4>b. M > 1 /\ M - 1 = N
        BY <3>2, <1>2
      <4>c. p[M] = Piece(p[N].record, "tail")
        BY <3>3
      <4> HIDE DEF M
      <4>d. p[N].part = "head"
        BY <3>2, <1>3
      <4>1. ~EndsWhole(p, M) /\ M > 1 /\ M - 1 = N /\ p[M] = Piece(p[N].record, "tail") /\ p[N].part = "head"
        BY <4>a, <4>b, <4>c, <4>d
      <4>2. p[M - 1].part = "head" /\ p[M] = Piece(p[M - 1].record, "tail")
        BY <4>1
      <4>3. ~Begins(p, M - 1)
        BY <4>1, <4>2, NotWhole
      <4> QED BY <4>1, <4>3
    <3>5. N # 1 /\ p[N - 1].part = "head"
      BY <3>4 DEF Begins
    <3>6. N - 1 \in 1..N /\ N \in 2..(N + 1) /\ N - 1 # N /\ N - 1 + 1 = N
      BY <3>5, <1>2
    <3>7. p[N - 1] = pieces[N - 1]
      BY <3>6, <1>5
    <3>8. pieces[N - 1].record \notin half /\ pieces[N - 1].record \notin acked
      <4>1. /\ pieces[N - 1].record \in half => N - 1 = N
            /\ pieces[N - 1].record \in acked => pieces[N - 1 + 1].part = "tail"
        BY <3>5, <3>6, <3>7 DEF AckedOk, N
      <4> QED BY <4>1, <3>6, <1>3
    <3> QED BY <2>1, <3>2, <3>5, <3>6, <3>7, <3>8, <1>1, <1>2, <1>3
  <2>2. CASE s # r
    <3>1. s \in acked
      BY <2>2, <1>1
    <3>2. s \notin ToSet(WholeRecords(pieces)[N])
      BY <1>6, <1>10
    <3>3. PICK i \in 2..N : pieces[i].record = s /\ pieces[i - 1].part = "head" /\ pieces[i - 1].record \notin acked
      BY <3>1, <3>2 DEF AckedOk, N
    <3>4. i \in 1..N /\ i - 1 \in 1..N /\ i \in 2..(N + 1) /\ i - 1 # N
      BY <1>2
    <3>5. p[i] = pieces[i] /\ p[i - 1] = pieces[i - 1]
      BY <3>4, <1>5
    <3>6. pieces[i - 1].record # r
      BY <3>3, <3>4, <1>2 DEF AckedOk, N
    <3> QED BY <3>3, <3>4, <3>5, <3>6, <1>1
  <2> QED BY <2>1, <2>2
<1>11. AckedOk'
  <2>1. half' = {} /\ Len(p) = N + 1
    BY <1>1, <1>5
  <2>2. acked' \subseteq Written'
    BY <1>9 DEF Written, p
  <2>3. \A i \in 1..Len(p) : p[i].part = "head" =>
          /\ p[i].record \in half' => i = Len(p)
          /\ p[i].record \in acked' => i < Len(p) /\ p[i + 1].part = "tail"
    BY <2>1, <1>8
  <2>4. \A s \in acked' :
          \/ s \in ToSet(WholeRecords(p)[Len(p)])
          \/ \E i \in 2..Len(p) : p[i].record = s /\ p[i - 1].part = "head" /\ p[i - 1].record \notin acked'
    BY <2>1, <1>10
  <2> QED BY <2>1, <2>2, <2>3, <2>4 DEF AckedOk, p
<1> QED BY <1>1, <1>3, <1>5, <1>11 DEF p, piece

\* A line of heads alone does not decode.
LEMMA HeadsDoNotDecode ==
  ASSUME NEW line \in Seq(PieceOf), \A i \in 1..Len(line) : line[i].part = "head"
  PROVE  ~Decodes(line)
<1>1. Len(line) = 1 => line[1].part = "head"
  OBVIOUS
<1>2. Len(line) = 2 => line[2].part = "head"
  OBVIOUS
<1> QED BY <1>1, <1>2 DEF Decodes, Piece

\* A scan starts before the first piece.
LEMMA StartKeepsRecords ==
  ASSUME RecordsInv, NEW c \in Readers, NEW n \in ReadLimits, ReadStart(c, n)
  PROVE  RecordsInv'
<1> DEFINE ring == [i \in 0..Limit(n) - 1 |-> NoReader]
           s == [limit |-> Limit(n), at |-> 1, line |-> <<>>, ring |-> ring, count |-> 0]
<1>1. PICK f : f = pieces
  OBVIOUS
<1>2. f \in Seq(PieceOf) /\ Len(f) \in Nat /\ ScansOk
  BY <1>1 DEF RecordsInv
<1>3. Limit(n) \in Nat \ {0}
  BY RecordsAssumption DEF Limit
<1>4. WholeRecords(f)[0] = <<>> /\ Begins(f, 0 + 1)
  BY <1>2, WholeSteps DEF Begins
<1>5. Passed(f, 0, Limit(n), <<>>, ring, 0)
  <2>1. /\ <<>> \in Seq(PieceOf) /\ Len(<<>>) = 0 /\ (\A i \in 1..Len(<<>>) : <<>>[i].part = "head")
        /\ 0 \in 0..Len(f) /\ ~(0 > 0) /\ DOMAIN ring = 0..(Limit(n) - 1)
    BY <1>2
  <2>2. 0 = Len(WholeRecords(f)[0]) /\ \A k \in 1..Len(WholeRecords(f)[0]) : FALSE
    BY <1>4
  <2> HIDE DEF ring
  <2> QED BY <2>1, <2>2, <1>3, <1>4 DEF Passed
<1>6. ScanOk(s, f)
  <2> HIDE DEF ring
  <2>1. 0 \in 0..Len(f) /\ s.at = 0 + 1 /\ s.limit = Limit(n) /\ s.line = <<>> /\ s.ring = ring /\ s.count = 0
    BY <1>2
  <2>2. s = [limit |-> s.limit, at |-> 0 + 1, line |-> s.line, ring |-> s.ring, count |-> s.count]
    OBVIOUS
  <2> HIDE DEF s
  <2>3. Passed(f, 0, s.limit, s.line, s.ring, s.count)
    BY <2>1, <1>5
  <2>4. \A k \in 1..0 : ~TooLong(f, k)
    OBVIOUS
  <2> QED BY <2>1, <2>2, <2>3, <2>4 DEF ScanOk
<1>7. scan' = [scan EXCEPT ![c] = s] /\ UNCHANGED <<pieces, half, acked, seen>>
  BY DEF ReadStart
<1> HIDE DEF s
<1>8. ScansOk'
  BY <1>1, <1>2, <1>6, <1>7, ScanStepKeeps
<1> QED BY <1>7, <1>8 DEF RecordsInv, AckedOk, Written

\* The reader is not a scan.
LEMMA ScanKeepsRecords ==
  ASSUME RecordsInv, NEW c \in Readers, ScanPiece(c)
  PROVE  RecordsInv'
<1>1. PICK f, s : f = pieces /\ s = scan[c]
  OBVIOUS
<1>2. f \in Seq(PieceOf) /\ Len(f) \in Nat /\ ScansOk /\ s # NoReader /\ s.at <= Len(f) /\ ScanOk(s, f)
  BY <1>1 DEF RecordsInv, ScansOk, ScanPiece
<1>3. PICK m \in 0..Len(f) :
        /\ s = [limit |-> s.limit, at |-> m + 1, line |-> s.line, ring |-> s.ring, count |-> s.count]
        /\ Passed(f, m, s.limit, s.line, s.ring, s.count)
        /\ \A k \in 1..m : ~TooLong(f, k)
  BY <1>2 DEF ScanOk
<1>4. s.at = m + 1
  BY <1>3
<1> DEFINE n == m + 1
<1>5. n \in 1..Len(f) /\ n - 1 = m /\ s.at = n /\ n \in 0..Len(f)
  BY <1>2, <1>4
<1>6. PICK limit, line, ring, count : limit = s.limit /\ line = s.line /\ ring = s.ring /\ count = s.count
  OBVIOUS
<1> HIDE DEF n
<1>7. s = [limit |-> limit, at |-> n, line |-> line, ring |-> ring, count |-> count]
  BY <1>3, <1>6 DEF n
<1>8. Passed(f, n - 1, limit, line, ring, count)
  BY <1>3, <1>5, <1>6
<1>12. \A k \in 1..n : ~TooLong(f, k)
  <2>1. ~TooLong(f, n)
    BY <1>1, <1>5 DEF ScanPiece
  <2>2. \A k \in 1..n : k = n \/ k \in 1..m
    BY <1>5
  <2> QED BY <2>1, <2>2, <1>3
<1> DEFINE piece == f[n]
           long == Append(line, piece)
           on == [limit |-> limit, at |-> n + 1, line |-> long, ring |-> ring, count |-> count]
           after == IF piece.part = "head" THEN on ELSE Visit(on, long)
<1>9. scan' = [scan EXCEPT ![c] = after] /\ UNCHANGED <<pieces, half, acked, seen>>
  <2>1. [s EXCEPT !.at = @ + 1, !.line = long] = on
    <3> HIDE DEF long
    <3> DEFINE x == n + 1
    <3>1. [[limit |-> limit, at |-> n, line |-> line, ring |-> ring, count |-> count] EXCEPT !.at = x, !.line = long]
            = [limit |-> limit, at |-> x, line |-> long, ring |-> ring, count |-> count]
      <4> HIDE DEF x
      <4>1. [[limit |-> limit, at |-> n, line |-> line, ring |-> ring, count |-> count] EXCEPT !.at = x]
              = [limit |-> limit, at |-> x, line |-> line, ring |-> ring, count |-> count]
        OBVIOUS
      <4>2. [[limit |-> limit, at |-> x, line |-> line, ring |-> ring, count |-> count] EXCEPT !.line = long]
              = [limit |-> limit, at |-> x, line |-> long, ring |-> ring, count |-> count]
        OBVIOUS
      <4> QED BY <4>1, <4>2
    <3>2. s.at + 1 = x
      BY <1>5
    <3> HIDE DEF x
    <3>3. [s EXCEPT !.at = s.at + 1, !.line = long] = [limit |-> limit, at |-> x, line |-> long, ring |-> ring, count |-> count]
      BY <1>7, <3>1, <3>2
    <3> QED BY <3>3 DEF x
  <2> HIDE DEF on, long
  <2>2. pieces[scan[c].at] = piece /\ Append(scan[c].line, piece) = long
    BY <1>1, <1>5, <1>6 DEF long
  <2> QED BY <2>1, <2>2, <1>1 DEF ScanPiece
<1>10. ScanOk(after, f)
  <2>1. CASE piece.part = "head"
    <3>1. Passed(f, n, limit, long, ring, count)
      BY <2>1, <1>2, <1>5, <1>8, PassHead
    <3> HIDE DEF long
    <3> QED BY <2>1, <3>1, <1>5, <1>12 DEF ScanOk
  <2>2. CASE piece.part # "head" /\ Decodes(long)
    <3> DEFINE turned == [ring EXCEPT ![count % limit] = piece.record]
               more == count + 1
    <3>1. Passed(f, n, limit, <<>>, turned, more) /\ long[1].record = piece.record
      BY <2>2, <1>2, <1>5, <1>8, PassEnd
    <3>2. after = [limit |-> limit, at |-> n + 1, line |-> <<>>, ring |-> turned, count |-> more]
      <4> HIDE DEF long
      <4> QED BY <2>2, <3>1 DEF Visit
    <3> HIDE DEF after, turned, more
    <3> QED BY <3>1, <3>2, <1>5, <1>12 DEF ScanOk
  <2>3. CASE piece.part # "head" /\ ~Decodes(long)
    <3>1. Passed(f, n, limit, <<>>, ring, count)
      BY <2>3, <1>2, <1>5, <1>8, PassEnd
    <3>2. after = [limit |-> limit, at |-> n + 1, line |-> <<>>, ring |-> ring, count |-> count]
      <4> HIDE DEF long
      <4> QED BY <2>3 DEF Visit
    <3> HIDE DEF after
    <3> QED BY <3>1, <3>2, <1>5, <1>12 DEF ScanOk
  <2> QED BY <2>1, <2>2, <2>3
<1> HIDE DEF after
<1>11. ScansOk'
  BY <1>1, <1>2, <1>9, <1>10, ScanStepKeeps
<1> QED BY <1>9, <1>11 DEF RecordsInv, AckedOk, Written

\* A scan that ends has passed the whole file.
LEMMA EndKeepsRecords ==
  ASSUME RecordsInv, NEW c \in Readers, ReadEnd(c)
  PROVE  RecordsInv'
<1>1. PICK f, s : f = pieces /\ s = scan[c]
  OBVIOUS
<1>2. f \in Seq(PieceOf) /\ Len(f) \in Nat /\ ScansOk /\ s # NoReader /\ s.at > Len(f) /\ ScanOk(s, f)
  <2>1. f \in Seq(PieceOf)
    BY <1>1 DEF RecordsInv
  <2>2. Len(f) \in Nat
    BY <2>1
  <2>3. s # NoReader /\ s.at > Len(f)
    BY <1>1 DEF ReadEnd
  <2>4. ScansOk
    BY DEF RecordsInv
  <2>5. \A r \in Readers : scan[r] # NoReader => ScanOk(scan[r], pieces)
    BY <2>4 DEF ScansOk
  <2>6. ScanOk(s, f)
    BY <1>1, <2>3, <2>5, Zenon
  <2> QED BY <2>1, <2>2, <2>3, <2>4, <2>6
<1>3. PICK n \in 0..Len(f) :
        /\ s = [limit |-> s.limit, at |-> n + 1, line |-> s.line, ring |-> s.ring, count |-> s.count]
        /\ Passed(f, n, s.limit, s.line, s.ring, s.count)
        /\ \A k \in 1..n : ~TooLong(f, k)
  BY <1>2 DEF ScanOk
<1>4. PICK limit, line, ring, count : limit = s.limit /\ line = s.line /\ ring = s.ring /\ count = s.count
  OBVIOUS
<1> DEFINE z == IF s.line = <<>> THEN s ELSE Visit(s, s.line)
<1>5. z.limit = limit /\ z.ring = ring /\ z.count = count /\ z.at - 1 = n
  <2>1. /\ s = [limit |-> limit, at |-> n + 1, line |-> line, ring |-> ring, count |-> count]
        /\ Passed(f, n, limit, line, ring, count)
    BY <1>3, <1>4
  <2>2. ~Decodes(line)
    BY <2>1, HeadsDoNotDecode DEF Passed
  <2>3. Visit(s, line) = [limit |-> limit, at |-> n + 1, line |-> <<>>, ring |-> ring, count |-> count]
    BY <2>1, <2>2 DEF Visit
  <2>4. n + 1 - 1 = n
    OBVIOUS
  <2> QED BY <2>1, <2>3, <2>4, <1>4
<1> DEFINE size == IF count > limit THEN limit ELSE count
           result == [i \in 1..size |-> ring[(count - size + i - 1) % limit]]
<1>6. seen' = [limit |-> limit, upto |-> n, failed |-> FALSE, result |-> result]
  <2>1. PICK y : y = z
    OBVIOUS
  <2>2. LET big == IF y.count > y.limit THEN y.limit ELSE y.count
        IN seen' = [limit |-> y.limit, upto |-> y.at - 1, failed |-> FALSE,
                    result |-> [i \in 1..big |-> y.ring[(y.count - big + i - 1) % y.limit]]]
    BY <1>1, <2>1 DEF ReadEnd
  <2>3. y.limit = limit /\ y.ring = ring /\ y.count = count /\ y.at - 1 = n
    BY <1>5, <2>1
  <2> QED BY <2>2, <2>3
<1>7. result = LastOf(WholeRecords(f)[n], limit)
  BY <1>2, <1>3, <1>4, ReadReturns
<1>8. scan' = [scan EXCEPT ![c] = NoReader] /\ UNCHANGED <<pieces, half, acked>>
  BY DEF ReadEnd
<1> HIDE DEF result
<1>9. SeenOk(seen', pieces)
  <2>1. /\ seen'.upto = n /\ seen'.failed = FALSE /\ seen'.limit = limit
        /\ seen'.result = LastOf(WholeRecords(f)[n], limit)
    BY <1>6, <1>7
  <2> QED BY <2>1, <1>1, <1>3 DEF SeenOk
<1>10. ScansOk'
  BY <1>2, <1>8, <1>9, ScanStepKeeps
<1> QED BY <1>8, <1>10 DEF RecordsInv, AckedOk, Written

\* A scan that fails has come to a line that is too long.
LEMMA FailKeepsRecords ==
  ASSUME RecordsInv, NEW c \in Readers, ReadFails(c)
  PROVE  RecordsInv'
<1>1. PICK f, s : f = pieces /\ s = scan[c]
  OBVIOUS
<1>2. f \in Seq(PieceOf) /\ Len(f) \in Nat /\ ScansOk /\ s # NoReader /\ s.at <= Len(f) /\ TooLong(f, s.at) /\ ScanOk(s, f)
  BY <1>1 DEF RecordsInv, ScansOk, ReadFails
<1>3. PICK n \in 0..Len(f) : s = [limit |-> s.limit, at |-> n + 1, line |-> s.line, ring |-> s.ring, count |-> s.count]
  BY <1>2 DEF ScanOk
<1>4. s.at = n + 1
  BY <1>3
<1>5. s.at \in 0..Len(f) /\ s.at \in 1..s.at
  BY <1>2, <1>4
<1>6. /\ seen' = [limit |-> s.limit, upto |-> s.at, result |-> <<>>, failed |-> TRUE]
      /\ scan' = [scan EXCEPT ![c] = NoReader] /\ UNCHANGED <<pieces, half, acked>>
  BY <1>1 DEF ReadFails
<1>7. SeenOk(seen', pieces)
  BY <1>1, <1>2, <1>5, <1>6 DEF SeenOk
<1>8. ScansOk'
  BY <1>2, <1>6, <1>7, ScanStepKeeps
<1> QED BY <1>6, <1>8 DEF RecordsInv, AckedOk, Written

\* The invariant holds.
LEMMA RecordsInvHolds == RecordsSpec => []RecordsInv
<1>1. RecordsInit => RecordsInv
  <2> SUFFICES ASSUME RecordsInit PROVE RecordsInv
    OBVIOUS
  <2>1. pieces = <<>> /\ <<>> \in Seq(PieceOf) /\ Len(<<>>) = 0 /\ 0 \in 0..0 /\ \A i \in 1..0 : FALSE
    BY DEF RecordsInit
  <2>2. WholeRecords(<<>>)[0] = <<>>
    BY <2>1, WholeSteps
  <2>3. LastOf(<<>>, 1) = <<>>
    BY DEF LastOf
  <2>6. SeenOk([limit |-> 1, upto |-> 0, result |-> <<>>, failed |-> FALSE], <<>>)
    BY <2>1, <2>2, <2>3 DEF SeenOk
  <2>4. ScansOk
    BY <2>1, <2>6 DEF RecordsInit, ScansOk
  <2>5. AckedOk
    BY <2>1 DEF RecordsInit, AckedOk
  <2> QED BY <2>1, <2>4, <2>5 DEF RecordsInv
<1>2. RecordsInv /\ [RecordsNext]_recordVars => RecordsInv'
  <2> SUFFICES ASSUME RecordsInv, [RecordsNext]_recordVars PROVE RecordsInv'
    OBVIOUS
  <2>1. ASSUME NEW r \in RecordIds, Append1(r) PROVE RecordsInv'
    <3>1. pieces' \in Seq(PieceOf) /\ AckedOk'
      BY <2>1, AppendKeepsAcked DEF RecordsInv
    <3>2. PICK piece \in PieceOf : pieces' = Append(pieces, piece)
      BY <2>1 DEF Append1, Piece, PieceOf
    <3>3. ScansOk'
      BY <2>1, <3>2, GrowKeepsScans DEF RecordsInv, Append1
    <3> QED BY <3>1, <3>3 DEF RecordsInv
  <2>2. CASE AppendRest
    <3>1. /\ pieces' \in Seq(PieceOf) /\ AckedOk'
          /\ \E piece \in PieceOf : pieces' = Append(pieces, piece)
      BY <2>2, RestKeepsAcked DEF RecordsInv
    <3>2. ScansOk'
      BY <2>2, <3>1, GrowKeepsScans DEF RecordsInv, AppendRest
    <3> QED BY <3>1, <3>2 DEF RecordsInv
  <2>3. CASE AppendTorn
    BY <2>3 DEF AppendTorn, RecordsInv, ScansOk, AckedOk, Written
  <2>4. ASSUME NEW c \in Readers, NEW n \in ReadLimits, ReadStart(c, n) PROVE RecordsInv'
    BY <2>4, StartKeepsRecords
  <2>5. ASSUME NEW c \in Readers, ScanPiece(c) PROVE RecordsInv'
    BY <2>5, ScanKeepsRecords
  <2>6. ASSUME NEW c \in Readers, ReadEnd(c) PROVE RecordsInv'
    BY <2>6, EndKeepsRecords
  <2>8. ASSUME NEW c \in Readers, ReadFails(c) PROVE RecordsInv'
    BY <2>8, FailKeepsRecords
  <2>7. CASE UNCHANGED recordVars
    BY <2>7 DEF recordVars, RecordsInv, ScansOk, AckedOk, Written
  <2> QED BY <2>1, <2>2, <2>3, <2>4, <2>5, <2>6, <2>7, <2>8 DEF RecordsNext
<1> QED BY <1>1, <1>2, PTL DEF RecordsSpec

\* A read returns the last whole records as of some moment of it, or fails because a
\* line it came to is too long; and a record whose command succeeded is otherwise
\* lost only to the write that broke off just before it.
THEOREM RecordsAreRead == RecordsSpec => []RecordsRead
<1>1. RecordsInv => RecordsRead
  BY DEF RecordsInv, ScansOk, SeenOk, AckedOk, RecordsRead
<1> QED BY <1>1, RecordsInvHolds, PTL

-----------------------------------------------------------------------------
(* Paths. *)

\* The least number of a set.
LEMMA MinIs ==
  ASSUME NEW T, T \subseteq Nat, T # {}
  PROVE  Min(T) \in T /\ \A x \in T : Min(T) <= x
<1>1. \E x \in T : \A y \in T : x <= y
  BY LeastNat
<1> QED BY <1>1 DEF Min

\* The members of two sequences put together.
LEMMA Joins ==
  ASSUME NEW S, NEW a \in Seq(S), NEW b \in Seq(S)
  PROVE  /\ a \o b \in Seq(S) /\ Len(a \o b) = Len(a) + Len(b) /\ Len(a) \in Nat /\ Len(b) \in Nat
         /\ \A i \in 1..Len(a) : (a \o b)[i] = a[i]
         /\ \A j \in 1..Len(b) : (a \o b)[Len(a) + j] = b[j]
<1>1. a \o b \in Seq(S) /\ Len(a \o b) = Len(a) + Len(b) /\ Len(a) \in Nat /\ Len(b) \in Nat
  OBVIOUS
<1>2. \A i \in 1..Len(a) : (a \o b)[i] = a[i]
  OBVIOUS
<1>3. \A j \in 1..Len(b) : (a \o b)[Len(a) + j] = b[j]
  <2>1. \A i \in 1..(Len(a) + Len(b)) : (a \o b)[i] = IF i <= Len(a) THEN a[i] ELSE b[i - Len(a)]
    OBVIOUS
  <2> SUFFICES ASSUME NEW j \in 1..Len(b) PROVE (a \o b)[Len(a) + j] = b[j]
    OBVIOUS
  <2> DEFINE i == Len(a) + j
  <2>2. i \in 1..(Len(a) + Len(b)) /\ ~(i <= Len(a)) /\ i - Len(a) = j
    BY <1>1
  <2> HIDE DEF i
  <2>3. (a \o b)[i] = b[j]
    BY <2>1, <2>2
  <2> QED BY <2>3 DEF i
<1> QED BY <1>1, <1>2, <1>3

\* A joined sequence that is split within its first part.
LEMMA SplitJoined ==
  ASSUME NEW S, NEW a \in Seq(S), NEW b \in Seq(S), NEW k \in 0..Len(a), NEW w, MadeOf(w, a, b)
  PROVE  /\ SubSeq(w, 1, k) = SubSeq(a, 1, k)
         /\ MadeOf(SubSeq(w, k + 1, Len(a) + Len(b)), SubSeq(a, k + 1, Len(a)), b)
<1> DEFINE tail == SubSeq(a, k + 1, Len(a))
           v == SubSeq(w, k + 1, Len(a) + Len(b))
<1>0. w = a \o b
  BY DEF MadeOf
<1>1. w \in Seq(S) /\ Len(w) = Len(a) + Len(b) /\ Len(a) \in Nat /\ Len(b) \in Nat
  BY <1>0
<1>2. \A i \in 1..Len(a) : w[i] = a[i]
  BY <1>0
<1>3. \A i \in 1..Len(b) : w[Len(a) + i] = b[i]
  <2>1. \A i \in 1..Len(b) : (a \o b)[Len(a) + i] = b[i]
    OBVIOUS
  <2> QED BY <2>1, <1>0
<1>4. SubSeq(w, 1, k) = SubSeq(a, 1, k)
  BY <1>1, <1>2
<1>5. tail \in Seq(S) /\ Len(tail) = Len(a) - k /\ \A i \in 1..(Len(a) - k) : tail[i] = a[k + i]
  BY <1>1
<1>6. /\ v \in Seq(S) /\ Len(v) = Len(a) + Len(b) - k
      /\ \A i \in 1..(Len(a) + Len(b) - k) : v[i] = w[k + i]
  BY <1>1
<1> HIDE DEF tail, v
<1>7. /\ tail \o b \in Seq(S) /\ Len(tail \o b) = Len(a) + Len(b) - k
      /\ \A i \in 1..(Len(a) - k) : (tail \o b)[i] = tail[i]
      /\ \A i \in 1..Len(b) : (tail \o b)[Len(a) - k + i] = b[i]
  <2>1. /\ tail \o b \in Seq(S) /\ Len(tail \o b) = Len(tail) + Len(b)
        /\ \A i \in 1..Len(tail) : (tail \o b)[i] = tail[i]
        /\ \A i \in 1..Len(b) : (tail \o b)[Len(tail) + i] = b[i]
    <3>0. tail \in Seq(S)
      BY <1>5
    <3>1. tail \o b \in Seq(S) /\ Len(tail \o b) = Len(tail) + Len(b)
      BY <3>0, Joins
    <3>2. \A i \in 1..Len(tail) : (tail \o b)[i] = tail[i]
      BY <3>0, Joins
    <3>3. \A i \in 1..Len(b) : (tail \o b)[Len(tail) + i] = b[i]
      BY <3>0, Joins
    <3> QED BY <3>1, <3>2, <3>3
  <2>2. Len(tail) = Len(a) - k /\ Len(a) - k + Len(b) = Len(a) + Len(b) - k
    BY <1>1, <1>5
  <2> DEFINE y == tail \o b
  <2> HIDE DEF y
  <2>3. /\ y \in Seq(S) /\ Len(y) = Len(a) - k + Len(b)
        /\ \A i \in 1..(Len(a) - k) : y[i] = tail[i]
        /\ \A i \in 1..Len(b) : y[Len(a) - k + i] = b[i]
    BY <2>1, <2>2 DEF y
  <2> QED BY <2>2, <2>3 DEF y
<1> DEFINE y == tail \o b
<1>8. ASSUME NEW i \in 1..Len(v) PROVE v[i] = y[i]
  <2>1. i \in 1..(Len(a) + Len(b) - k) /\ v[i] = w[k + i]
    BY <1>1, <1>6, <1>8
  <2>2. CASE i <= Len(a) - k
    <3>1. i \in 1..(Len(a) - k) /\ k + i \in 1..Len(a)
      BY <1>1, <2>1, <2>2
    <3> QED BY <3>1, <2>1, <1>2, <1>5, <1>7
  <2>3. CASE ~(i <= Len(a) - k)
    <3> DEFINE j == i - (Len(a) - k)
    <3>1. j \in 1..Len(b) /\ k + i = Len(a) + j /\ i = Len(a) - k + j
      BY <1>1, <2>1, <2>3
    <3> HIDE DEF j, y
    <3>2. w[Len(a) + j] = b[j]
      BY <3>1, <1>3
    <3>3. (tail \o b)[Len(a) - k + j] = b[j]
      BY <3>1, <1>7
    <3> QED BY <3>1, <3>2, <3>3, <2>1 DEF y
  <2> QED BY <2>2, <2>3
<1> HIDE DEF y
<1>9. v = y
  BY <1>6, <1>7, <1>8, SeqEqual DEF y
<1> QED BY <1>4, <1>9 DEF MadeOf, y, v, tail

\* A sequence is its beginning and its rest.
LEMMA Parts ==
  ASSUME NEW a \in Path, NEW b \in Path
  PROVE  /\ a \o b \in Path /\ Len(a \o b) = Len(a) + Len(b) /\ Len(a) \in Nat /\ Len(b) \in Nat
         /\ \A k \in 0..Len(a) : SubSeq(a \o b, 1, k) = SubSeq(a, 1, k)
         /\ \A k \in 0..Len(a) : SubSeq(a \o b, k + 1, Len(a) + Len(b)) = SubSeq(a, k + 1, Len(a)) \o b
         /\ SubSeq(a, 1, Len(a)) = a /\ a \o <<>> = a
<1> DEFINE S == STRING
<1>0. a \in Seq(S) /\ b \in Seq(S) /\ Path = Seq(S)
  BY DEF Path
<1> HIDE DEF S
<1>1. /\ a \o b \in Seq(S) /\ Len(a \o b) = Len(a) + Len(b) /\ Len(a) \in Nat /\ Len(b) \in Nat
  BY <1>0
<1>2. \A k \in 0..Len(a) : SubSeq(a \o b, 1, k) = SubSeq(a, 1, k)
  BY <1>0
<1>3. \A k \in 0..Len(a) : SubSeq(a \o b, k + 1, Len(a) + Len(b)) = SubSeq(a, k + 1, Len(a)) \o b
  <2> SUFFICES ASSUME NEW k \in 0..Len(a)
               PROVE  SubSeq(a \o b, k + 1, Len(a) + Len(b)) = SubSeq(a, k + 1, Len(a)) \o b
    OBVIOUS
  <2> DEFINE w == a \o b
             x == SubSeq(w, k + 1, Len(a) + Len(b))
             y == SubSeq(a, k + 1, Len(a))
  <2>1. MadeOf(w, a, b)
    BY DEF MadeOf
  <2> HIDE DEF w
  <2>2. MadeOf(x, y, b)
    BY <1>0, <2>1, SplitJoined
  <2> HIDE DEF x, y
  <2>3. x = y \o b
    BY <2>2 DEF MadeOf
  <2> QED BY <2>3 DEF x, y, w
<1>4. SubSeq(a, 1, Len(a)) = a /\ a \o <<>> = a
  BY <1>0
<1> QED BY <1>0, <1>1, <1>2, <1>3, <1>4

\* Where a path stops, the first place of it is met first.
LEMMA StopsAre ==
  ASSUME NEW f, NEW p \in Path
  PROVE  /\ Stops(f, p) \subseteq 1..Len(p) /\ Len(p) \in Nat
         /\ Stops(f, p) # {} => /\ Min(Stops(f, p)) \in Stops(f, p)
                                /\ \A k \in Stops(f, p) : Min(Stops(f, p)) <= k
<1>1. Stops(f, p) \subseteq 1..Len(p) /\ Len(p) \in Nat
  BY DEF Stops, Path
<1>2. Stops(f, p) \subseteq Nat
  BY <1>1
<1> QED BY <1>1, <1>2, MinIs

\* Following one link gives a path, the same one when nothing stops it.
LEMMA FollowLinkType ==
  ASSUME NEW f, IsFileSystem(f), NEW p \in Path
  PROVE  FollowLink(f, p) \in Path /\ (Stops(f, p) = {} => FollowLink(f, p) = p)
<1> DEFINE first == Min(Stops(f, p))
           link == SubSeq(p, 1, first)
<1>1. CASE Stops(f, p) # {} /\ link \in DOMAIN f
  <2>1. first \in 1..Len(p) /\ Len(p) \in Nat
    BY <1>1, StopsAre
  <2>2. f[link].to \in Path
    BY <1>1 DEF IsFileSystem
  <2> HIDE DEF first
  <2>3. SubSeq(p, first + 1, Len(p)) \in Path
    BY <2>1 DEF Path
  <2>4. FollowLink(f, p) = f[link].to \o SubSeq(p, first + 1, Len(p))
    BY <1>1 DEF FollowLink, first
  <2> QED BY <1>1, <2>2, <2>3, <2>4 DEF Path
<1>2. CASE ~(Stops(f, p) # {} /\ link \in DOMAIN f)
  BY <1>2 DEF FollowLink
<1> QED BY <1>1, <1>2

\* Followed, link by link.
LEMMA FollowedSteps ==
  ASSUME NEW f, IsFileSystem(f), NEW p \in Path
  PROVE  /\ Followed(f, p) \in [0..MaxLinks -> Path]
         /\ Followed(f, p)[0] = p
         /\ \A n \in 1..MaxLinks : Followed(f, p)[n] = FollowLink(f, Followed(f, p)[n - 1])
<1> DEFINE N == MaxLinks
           step == [x \in Path \X (1..N) |-> FollowLink(f, x[1])]
           Body(g) == [n \in 0..N |-> IF n = 0 THEN p ELSE FollowLink(f, g[n - 1])]
<1>1. N \in Nat
  BY PathsAssumption
<1>2. Followed(f, p) = CHOOSE g : g = Body(g)
  BY DEF Followed, N
<1> HIDE DEF N
<1>3. step \in Steps(N, Path)
  BY FollowLinkType DEF Steps
<1>4. PICK g : Follows(g, N, Path, p, step)
  <2> HIDE DEF step
  <2> QED BY <1>1, <1>3, Recursion
<1>5. ASSUME NEW n \in 1..N PROVE g[n] = FollowLink(f, g[n - 1])
  <2>1. n - 1 \in 0..N /\ g[n - 1] \in Path
    BY <1>1, <1>4 DEF Follows
  <2>2. <<g[n - 1], n>> \in Path \X (1..N)
    BY <2>1
  <2> QED BY <1>4, <2>2 DEF Follows
<1>6. g = Body(g)
  BY <1>1, <1>4, <1>5 DEF Follows
<1> DEFINE h == Followed(f, p)
<1>7. h = Body(h)
  BY <1>2, <1>6
<1> HIDE DEF h
<1>8. h[0] = p /\ \A n \in 1..N : h[n] = FollowLink(f, h[n - 1])
  BY <1>1, <1>7
<1> DEFINE P == {n \in 0..N : h[n] \in Path}
<1>9. \A n \in 0..N : n \in P
  <2>1. ASSUME NEW n \in 1..N, n - 1 \in P PROVE n \in P
    <3>1. h[n - 1] \in Path /\ n \in 0..N
      BY <1>1, <2>1
    <3>2. h[n] \in Path
      BY <3>1, <1>8, FollowLinkType
    <3> QED BY <3>1, <3>2
  <2>2. 0 \in P
    BY <1>1, <1>8
  <2> HIDE DEF P
  <2> QED BY <1>1, <2>1, <2>2, UpTo
<1>10. h \in [0..N -> Path]
  BY <1>7, <1>9
<1> QED BY <1>8, <1>10 DEF h, N

\* The names added to a path that leads on over a link are carried along.
LEMMA FollowLonger ==
  ASSUME NEW f, IsFileSystem(f), NEW a \in Path, NEW b \in Path, Stops(f, a) # {}
  PROVE  FollowLink(f, a \o b) = FollowLink(f, a) \o b /\ Stops(f, a \o b) # {}
<1> DEFINE m == Len(a)
           l == Len(b)
           first == Min(Stops(f, a))
           onward == Min(Stops(f, a \o b))
<1>1. /\ a \o b \in Path /\ Len(a \o b) = m + l /\ m \in Nat /\ l \in Nat
      /\ \A k \in 0..m : SubSeq(a \o b, 1, k) = SubSeq(a, 1, k)
      /\ \A k \in 0..m : SubSeq(a \o b, k + 1, m + l) = SubSeq(a, k + 1, m) \o b
  BY Parts
<1> HIDE DEF m, l
<1>2. \A k \in 1..m : k \in Stops(f, a) <=> k \in Stops(f, a \o b)
  <2> SUFFICES ASSUME NEW k \in 1..m PROVE k \in Stops(f, a) <=> k \in Stops(f, a \o b)
    OBVIOUS
  <2>1. k \in 0..m /\ k \in 1..(m + l)
    BY <1>1
  <2>2. SubSeq(a \o b, 1, k) = SubSeq(a, 1, k)
    BY <1>1, <2>1
  <2> DEFINE q == SubSeq(a, 1, k)
  <2>3. k \in Stops(f, a) <=> q \notin DOMAIN f \/ IsLink(f, q)
    BY DEF Stops, m
  <2>4. k \in Stops(f, a \o b) <=> q \notin DOMAIN f \/ IsLink(f, q)
    <3> DEFINE c == a \o b
    <3>1. Len(c) = m + l /\ SubSeq(c, 1, k) = q
      BY <1>1, <2>2
    <3> HIDE DEF c, q
    <3>2. k \in 1..Len(c)
      BY <2>1, <3>1
    <3>3. k \in Stops(f, c) <=> SubSeq(c, 1, k) \notin DOMAIN f \/ IsLink(f, SubSeq(c, 1, k))
      BY <3>2 DEF Stops
    <3>4. k \in Stops(f, c) <=> q \notin DOMAIN f \/ IsLink(f, q)
      BY <3>1, <3>3
    <3> QED BY <3>4 DEF c
  <2> QED BY <2>3, <2>4
<1>3. first \in Stops(f, a) /\ first \in 1..m /\ \A k \in Stops(f, a) : first <= k
  BY StopsAre DEF m
<1>4. Stops(f, a \o b) # {} /\ first \in Stops(f, a \o b)
  BY <1>2, <1>3
<1>5. onward \in Stops(f, a \o b) /\ onward \in 1..(m + l) /\ onward <= first
  BY <1>1, <1>4, StopsAre
<1> HIDE DEF first, onward
<1>6. onward \in 1..m
  BY <1>1, <1>3, <1>5
<1>7. onward = first
  BY <1>2, <1>3, <1>5, <1>6
<1> DEFINE link == SubSeq(a, 1, first)
<1>8. SubSeq(a \o b, 1, first) = link /\ SubSeq(a \o b, first + 1, m + l) = SubSeq(a, first + 1, m) \o b
  <2>1. first \in 0..m
    BY <1>1, <1>3
  <2>2. SubSeq(a \o b, 1, first) = link
    BY <1>1, <2>1
  <2>3. SubSeq(a \o b, first + 1, m + l) = SubSeq(a, first + 1, m) \o b
    <3>1. \A k \in 0..m : SubSeq(a \o b, k + 1, m + l) = SubSeq(a, k + 1, m) \o b
      BY <1>1
    <3> QED BY <3>1, <2>1
  <2> QED BY <2>2, <2>3
<1>9. SubSeq(a, first + 1, m) \in Path
  BY <1>1, <1>3 DEF Path
<1> HIDE DEF link
<1>10. FollowLink(f, a) = IF link \in DOMAIN f THEN f[link].to \o SubSeq(a, first + 1, m) ELSE a
  BY DEF FollowLink, first, link, m
<1>11. FollowLink(f, a \o b) = IF link \in DOMAIN f THEN f[link].to \o SubSeq(a \o b, first + 1, m + l) ELSE a \o b
  BY <1>1, <1>4, <1>7, <1>8 DEF FollowLink, onward
<1>12. ASSUME link \in DOMAIN f PROVE f[link].to \o (SubSeq(a, first + 1, m) \o b) = (f[link].to \o SubSeq(a, first + 1, m)) \o b
  <2>1. f[link].to \in Path
    BY <1>12 DEF IsFileSystem
  <2> DEFINE x == f[link].to
             y == SubSeq(a, first + 1, m)
  <2>2. x \in Seq(STRING) /\ y \in Seq(STRING) /\ b \in Seq(STRING)
    BY <2>1, <1>9 DEF Path
  <2> HIDE DEF x, y
  <2>3. x \o (y \o b) = (x \o y) \o b
    BY <2>2
  <2> QED BY <2>3 DEF x, y
<1>13. FollowLink(f, a \o b) = FollowLink(f, a) \o b
  <2>1. CASE link \in DOMAIN f
    BY <2>1, <1>8, <1>10, <1>11, <1>12
  <2>2. CASE link \notin DOMAIN f
    BY <2>2, <1>10, <1>11
  <2> QED BY <2>1, <2>2
<1> QED BY <1>4, <1>13

\* Until a path is canonical, names added to it are carried along.
LEMMA Carried ==
  ASSUME NEW f, IsFileSystem(f), NEW a \in Path, NEW b \in Path, NEW u \in 0..MaxLinks,
         \A i \in 0..MaxLinks : i < u => Stops(f, Followed(f, a)[i]) # {},
         NEW w, MadeOf(w, a, b)
  PROVE  MadeOf(Followed(f, w)[u], Followed(f, a)[u], b)
<1> DEFINE g == Followed(f, a)
           h == Followed(f, a \o b)
           P == {n \in 0..u : h[n] = g[n] \o b}
<1>1. u \in Nat /\ MaxLinks \in Nat /\ a \o b \in Path
  <2>1. MaxLinks \in Nat
    BY PathsAssumption
  <2>2. a \o b \in Path
    BY Parts
  <2> QED BY <2>1, <2>2
<1>2. g \in [0..MaxLinks -> Path] /\ g[0] = a /\ \A n \in 1..MaxLinks : g[n] = FollowLink(f, g[n - 1])
  BY FollowedSteps
<1>3. h[0] = a \o b /\ \A n \in 1..MaxLinks : h[n] = FollowLink(f, h[n - 1])
  BY <1>1, FollowedSteps
<1> HIDE DEF g, h
<1>4. 0 \in P
  BY <1>1, <1>2, <1>3
<1>5. ASSUME NEW n \in 1..u, n - 1 \in P PROVE n \in P
  <2>1. n \in 0..u /\ n \in 1..MaxLinks /\ n - 1 \in 0..MaxLinks /\ n - 1 < u /\ h[n - 1] = g[n - 1] \o b
    BY <1>1, <1>5
  <2> DEFINE c == g[n - 1]
  <2>2. c \in Path /\ Stops(f, c) # {}
    BY <2>1, <1>2 DEF g
  <2>3. h[n] = FollowLink(f, c \o b) /\ g[n] = FollowLink(f, c)
    BY <2>1, <1>2, <1>3
  <2> HIDE DEF c
  <2>4. FollowLink(f, c \o b) = FollowLink(f, c) \o b
    BY <2>2, FollowLonger
  <2> QED BY <2>1, <2>3, <2>4
<1>6. \A n \in 0..u : n \in P
  <2> HIDE DEF P
  <2> QED BY <1>1, <1>4, <1>5, UpTo
<1>7. u \in P
  BY <1>1, <1>6
<1>8. w = a \o b
  BY DEF MadeOf
<1> QED BY <1>7, <1>8 DEF MadeOf, g, h

\* A canonical path stays as it is.
LEMMA Settled ==
  ASSUME NEW f, IsFileSystem(f), NEW p \in Path, NEW u \in 0..MaxLinks, Stops(f, Followed(f, p)[u]) = {}
  PROVE  Followed(f, p)[MaxLinks] = Followed(f, p)[u]
<1> DEFINE h == Followed(f, p)
           N == MaxLinks - u
           P == {n \in 0..N : h[u + n] = h[u]}
<1>1. u \in Nat /\ MaxLinks \in Nat /\ N \in Nat /\ u + N = MaxLinks /\ u + 0 = u
  BY PathsAssumption
<1>2. h \in [0..MaxLinks -> Path] /\ \A n \in 1..MaxLinks : h[n] = FollowLink(f, h[n - 1])
  BY FollowedSteps
<1>3. h[u] \in Path /\ Stops(f, h[u]) = {}
  BY <1>2
<1> HIDE DEF h, N
<1>4. 0 \in P
  BY <1>1
<1>5. ASSUME NEW n \in 1..N, n - 1 \in P PROVE n \in P
  <2>1. n \in 0..N /\ u + n \in 1..MaxLinks /\ u + n - 1 = u + (n - 1)
    BY <1>1
  <2>2. h[u + (n - 1)] = h[u]
    BY <1>5
  <2>3. h[u + n] = FollowLink(f, h[u])
    BY <2>1, <2>2, <1>2
  <2>4. FollowLink(f, h[u]) = h[u]
    BY <1>3, FollowLinkType
  <2> QED BY <2>1, <2>3, <2>4
<1>6. \A n \in 0..N : n \in P
  <2> HIDE DEF P
  <2> QED BY <1>1, <1>4, <1>5, UpTo
<1>7. N \in P
  BY <1>1, <1>6
<1> QED BY <1>1, <1>7 DEF h

\* A path leads to what it has become when nothing stops it any more.
LEMMA Arrives ==
  ASSUME NEW f, IsFileSystem(f), NEW p \in Path
  PROVE  /\ \A u \in 0..MaxLinks : Stops(f, Followed(f, p)[u]) = {} =>
                EvalSymlinks(f, p) = Followed(f, p)[u] /\ EvalSymlinks(f, p) # NoPath
         /\ EvalSymlinks(f, p) # NoPath =>
              /\ EvalSymlinks(f, p) \in Path /\ Stops(f, EvalSymlinks(f, p)) = {}
              /\ \E u \in 0..MaxLinks :
                   /\ EvalSymlinks(f, p) = Followed(f, p)[u]
                   /\ \A i \in 0..MaxLinks : i < u => Stops(f, Followed(f, p)[i]) # {}
<1> DEFINE h == Followed(f, p)
<1>1. MaxLinks \in Nat /\ MaxLinks \in 0..MaxLinks /\ NoPath \notin Path
  BY PathsAssumption
<1>2. h \in [0..MaxLinks -> Path]
  BY FollowedSteps
<1>3. ASSUME NEW u \in 0..MaxLinks, Stops(f, h[u]) = {} PROVE h[MaxLinks] = h[u]
  BY <1>3, Settled
<1>4. EvalSymlinks(f, p) = IF Stops(f, h[MaxLinks]) = {} THEN h[MaxLinks] ELSE NoPath
  BY DEF EvalSymlinks
<1> HIDE DEF h
<1>5. ASSUME NEW u \in 0..MaxLinks, Stops(f, h[u]) = {} PROVE EvalSymlinks(f, p) = h[u] /\ EvalSymlinks(f, p) # NoPath
  <2>1. h[u] \in Path /\ h[u] # NoPath
    BY <1>1, <1>2
  <2> QED BY <2>1, <1>3, <1>4, <1>5
<1>6. ASSUME EvalSymlinks(f, p) # NoPath
      PROVE  /\ EvalSymlinks(f, p) \in Path /\ Stops(f, EvalSymlinks(f, p)) = {}
             /\ \E u \in 0..MaxLinks :
                  EvalSymlinks(f, p) = h[u] /\ \A i \in 0..MaxLinks : i < u => Stops(f, h[i]) # {}
  <2>1. Stops(f, h[MaxLinks]) = {} /\ EvalSymlinks(f, p) = h[MaxLinks] /\ h[MaxLinks] \in Path
    BY <1>1, <1>2, <1>4, <1>6
  <2> DEFINE T == {u \in 0..MaxLinks : Stops(f, h[u]) = {}}
  <2>2. MaxLinks \in T /\ T \subseteq Nat
    BY <2>1, <1>1
  <2> HIDE DEF T
  <2>3. PICK u \in T : \A i \in T : u <= i
    BY <2>2, LeastNat
  <2>4. u \in 0..MaxLinks /\ Stops(f, h[u]) = {}
    BY DEF T
  <2>5. ASSUME NEW i \in 0..MaxLinks, i < u PROVE Stops(f, h[i]) # {}
    <3>1. i \notin T
      BY <2>3, <2>4, <2>5, <1>1
    <3> QED BY <3>1 DEF T
  <2>6. h[u] = EvalSymlinks(f, p)
    BY <2>4, <1>5
  <2> QED BY <2>1, <2>4, <2>5, <2>6
<1> QED BY <1>5, <1>6 DEF h

\* A path that nothing stops leads to itself.
LEMMA CanonicalLeads ==
  ASSUME NEW f, IsFileSystem(f), NEW p \in Path, Stops(f, p) = {}
  PROVE  EvalSymlinks(f, p) = p /\ EvalSymlinks(f, p) # NoPath
<1>1. 0 \in 0..MaxLinks
  BY PathsAssumption
<1>2. Followed(f, p)[0] = p
  BY FollowedSteps
<1> QED BY <1>1, <1>2, Arrives

\* What leads somewhere does so from every place on the way.
LEMMA PrefixLeads ==
  ASSUME NEW f, IsFileSystem(f), NEW a \in Path, NEW b \in Path, EvalSymlinks(f, a \o b) # NoPath
  PROVE  EvalSymlinks(f, a) # NoPath
<1>1. SUFFICES ASSUME EvalSymlinks(f, a) = NoPath PROVE FALSE
  OBVIOUS
<1>2. MaxLinks \in 0..MaxLinks
  BY PathsAssumption
<1>3. \A i \in 0..MaxLinks : Stops(f, Followed(f, a)[i]) # {}
  BY <1>1, Arrives
<1>4. Followed(f, a \o b)[MaxLinks] = Followed(f, a)[MaxLinks] \o b
  <2> DEFINE w == a \o b
  <2>1. MadeOf(w, a, b)
    BY DEF MadeOf
  <2> HIDE DEF w
  <2>2. MadeOf(Followed(f, w)[MaxLinks], Followed(f, a)[MaxLinks], b)
    BY <1>2, <1>3, <2>1, Carried
  <2> QED BY <2>2 DEF MadeOf, w
<1> DEFINE c == Followed(f, a)[MaxLinks]
<1>5. c \in Path /\ Stops(f, c) # {}
  <2>1. Followed(f, a) \in [0..MaxLinks -> Path]
    BY FollowedSteps
  <2> QED BY <2>1, <1>2, <1>3
<1> HIDE DEF c
<1>6. Stops(f, c \o b) # {}
  BY <1>5, FollowLonger
<1> QED BY <1>4, <1>6 DEF EvalSymlinks, c

\* The members of a sequence with one more at its end.
LEMMA AtEnd ==
  ASSUME NEW S, NEW a \in Seq(S), NEW x \in S
  PROVE  /\ a \o <<x>> \in Seq(S) /\ Len(a \o <<x>>) = Len(a) + 1 /\ Len(a) \in Nat
         /\ \A i \in 1..Len(a) : (a \o <<x>>)[i] = a[i]
         /\ (a \o <<x>>)[Len(a) + 1] = x
<1>1. PICK b \in Seq(S) : b = <<x>>
  <2>1. <<x>> \in Seq(S)
    OBVIOUS
  <2> QED BY <2>1
<1>2. Len(b) = 1 /\ b[1] = x /\ 1 \in 1..Len(b)
  BY <1>1
<1>3. a \o b \in Seq(S) /\ Len(a \o b) = Len(a) + Len(b) /\ Len(a) \in Nat
  BY Joins
<1>4. \A i \in 1..Len(a) : (a \o b)[i] = a[i]
  BY Joins
<1>5. \A j \in 1..Len(b) : (a \o b)[Len(a) + j] = b[j]
  BY Joins
<1>6. (a \o b)[Len(a) + 1] = x
  BY <1>2, <1>5
<1> QED BY <1>1, <1>2, <1>3, <1>4, <1>6

\* The members of a sequence with one more before it.
LEMMA AtStart ==
  ASSUME NEW S, NEW a \in Seq(S), NEW x \in S
  PROVE  /\ <<x>> \o a \in Seq(S) /\ Len(<<x>> \o a) = 1 + Len(a) /\ Len(a) \in Nat
         /\ \A i \in 1..Len(a) : (<<x>> \o a)[1 + i] = a[i]
         /\ (<<x>> \o a)[1] = x
<1>1. PICK b \in Seq(S) : b = <<x>>
  <2>1. <<x>> \in Seq(S)
    OBVIOUS
  <2> QED BY <2>1
<1>2. Len(b) = 1 /\ b[1] = x /\ 1 \in 1..Len(b)
  BY <1>1
<1>3. b \o a \in Seq(S) /\ Len(b \o a) = Len(b) + Len(a) /\ Len(a) \in Nat
  BY Joins
<1>4. \A i \in 1..Len(b) : (b \o a)[i] = b[i]
  BY Joins
<1>5. \A j \in 1..Len(a) : (b \o a)[Len(b) + j] = a[j]
  BY Joins
<1>6. (b \o a)[1] = x
  BY <1>2, <1>4
<1> QED BY <1>1, <1>2, <1>3, <1>5, <1>6

\* A path is what comes before one of its names, that name, and what follows.
LEMMA AtName ==
  ASSUME NEW p \in Path, NEW m \in 1..Len(p)
  PROVE  /\ <<p[m]>> \in Path /\ SubSeq(p, m + 1, Len(p)) \in Path
         /\ SubSeq(p, 1, m - 1) \o <<p[m]>> = SubSeq(p, 1, m)
         /\ SubSeq(p, m, Len(p)) = <<p[m]>> \o SubSeq(p, m + 1, Len(p))
<1> DEFINE S == STRING
           N == Len(p)
           b == <<p[m]>>
           a == SubSeq(p, 1, m - 1)
           am == SubSeq(p, 1, m)
           r == SubSeq(p, m + 1, N)
           mr == SubSeq(p, m, N)
<1>1. p \in Seq(S) /\ Path = Seq(S) /\ m \in 1..N /\ N \in Nat /\ N = Len(p)
  BY DEF Path
<1> HIDE DEF S, N
<1>2. b \in Seq(S) /\ Len(b) = 1 /\ b[1] = p[m]
  BY <1>1
<1>3. r \in Seq(S) /\ Len(r) = N - m /\ \A i \in 1..(N - m) : r[i] = p[m + i]
  <2> DEFINE k == m + 1
  <2>1. k \in 1..(N + 1) /\ N - k + 1 = N - m /\ \A i \in 1..(N - m) : k + i - 1 = m + i
    BY <1>1
  <2> HIDE DEF k
  <2>2. SubSeq(p, k, N) \in Seq(S) /\ Len(SubSeq(p, k, N)) = N - k + 1 /\ \A i \in 1..(N - k + 1) : SubSeq(p, k, N)[i] = p[k + i - 1]
    BY <1>1, <2>1
  <2> QED BY <2>1, <2>2 DEF k
<1>4. mr \in Seq(S) /\ Len(mr) = N - m + 1 /\ \A i \in 1..(N - m + 1) : mr[i] = p[m + i - 1]
  BY <1>1
<1>5. am \in Seq(S) /\ Len(am) = m /\ \A i \in 1..m : am[i] = p[i]
  BY <1>1
<1>6. a \in Seq(S) /\ Len(a) = m - 1 /\ \A i \in 1..(m - 1) : a[i] = p[i]
  <2> DEFINE k == m - 1
  <2>1. k \in 0..N
    BY <1>1
  <2> HIDE DEF k
  <2>2. SubSeq(p, 1, k) \in Seq(S) /\ Len(SubSeq(p, 1, k)) = k /\ \A i \in 1..k : SubSeq(p, 1, k)[i] = p[i]
    BY <1>1, <2>1
  <2> QED BY <2>2 DEF k
<1> HIDE DEF a, b, r, am, mr
<1>7. a \o b = am
  <2> DEFINE y == a \o b
  <2>1. y \in Seq(S) /\ Len(y) = m /\ y[m] = b[1] /\ \A i \in 1..(m - 1) : y[i] = a[i]
    <3>1. PICK x \in S : b = <<x>>
      BY <1>1 DEF b
    <3>2. Len(a) = m - 1 /\ Len(a) + 1 = m /\ b[1] = x
      BY <1>1, <1>6, <3>1
    <3>3. /\ y \in Seq(S) /\ Len(y) = Len(a) + 1 /\ y[Len(a) + 1] = x
          /\ \A i \in 1..Len(a) : y[i] = a[i]
      <4>1. a \in Seq(S)
        BY <1>6
      <4> QED BY <3>1, <4>1, AtEnd
    <3> HIDE DEF y
    <3> QED BY <3>2, <3>3
  <2> HIDE DEF y
  <2>2. \A i \in 1..m : y[i] = am[i]
    <3> SUFFICES ASSUME NEW i \in 1..m PROVE y[i] = am[i]
      OBVIOUS
    <3>1. i = m \/ i \in 1..(m - 1)
      BY <1>1
    <3> QED BY <3>1, <2>1, <1>1, <1>2, <1>5, <1>6
  <2>3. y = am
    BY <2>1, <2>2, <1>5, SeqEqual
  <2> QED BY <2>3 DEF y
<1>8. mr = b \o r
  <2> DEFINE y == b \o r
  <2>1. y \in Seq(S) /\ Len(y) = N - m + 1 /\ y[1] = b[1] /\ \A i \in 1..(N - m) : y[i + 1] = r[i]
    <3>1. PICK x \in S : b = <<x>>
      BY <1>1 DEF b
    <3>2. Len(r) = N - m /\ 1 + Len(r) = N - m + 1 /\ b[1] = x
      BY <1>1, <1>3, <3>1
    <3>3. /\ y \in Seq(S) /\ Len(y) = 1 + Len(r) /\ y[1] = x
          /\ \A i \in 1..Len(r) : y[1 + i] = r[i]
      <4>1. r \in Seq(S)
        BY <1>3
      <4> QED BY <3>1, <4>1, AtStart
    <3>4. \A i \in 1..Len(r) : 1 + i = i + 1
      BY <1>1, <3>2
    <3> HIDE DEF y
    <3> QED BY <3>2, <3>3, <3>4
  <2> HIDE DEF y
  <2>2. ASSUME NEW i \in 1..(N - m + 1) PROVE mr[i] = y[i]
    <3>1. CASE i = 1
      <4>1. m + i - 1 = m
        BY <3>1, <1>1
      <4> QED BY <3>1, <4>1, <2>1, <1>2, <1>4
    <3>2. CASE i # 1
      <4> DEFINE j == i - 1
      <4>1. j \in 1..(N - m) /\ i = j + 1 /\ m + i - 1 = m + j
        BY <3>2, <1>1
      <4> HIDE DEF j
      <4>2. mr[i] = p[m + j]
        BY <4>1, <1>4
      <4> QED BY <4>1, <4>2, <2>1, <1>3
    <3> QED BY <3>1, <3>2
  <2>3. mr = y
    BY <2>1, <2>2, <1>4, SeqEqual
  <2> QED BY <2>3 DEF y
<1> QED BY <1>1, <1>2, <1>3, <1>7, <1>8 DEF a, b, r, am, mr, N

\* What Resolve makes of a path is canonical, or leads nowhere.
LEMMA Deepest ==
  ASSUME NEW f, IsFileSystem(f), NEW p \in Path, LinksSuffice(f, p)
  PROVE  LET c == CanonicalizeDeepest(f, p)
         IN c \in Path /\ (EvalSymlinks(f, c) # NoPath => EvalSymlinks(f, c) = c)
<1> DEFINE N == Len(p)
           K == {k \in 0..N : EvalSymlinks(f, SubSeq(p, 1, k)) # NoPath}
           n == Max(K)
           e == EvalSymlinks(f, SubSeq(p, 1, n))
           c == CanonicalizeDeepest(f, p)
<1>1. N \in Nat /\ p \in Seq(STRING) /\ SubSeq(p, 1, 0) = <<>> /\ <<>> \in Path /\ \A k \in 0..N : SubSeq(p, 1, k) \in Path
  BY DEF Path
<1>2. 0 \in K
  <2>1. PICK top \in Path : top = <<>> /\ Len(top) = 0
    BY <1>1
  <2>2. Stops(f, top) = {}
    BY <2>1 DEF Stops
  <2>3. EvalSymlinks(f, top) # NoPath
    BY <2>2, CanonicalLeads
  <2>4. SubSeq(p, 1, 0) = top /\ 0 \in 0..N
    BY <1>1, <2>1
  <2> QED BY <2>3, <2>4
<1>3. n \in K /\ \A k \in K : k <= n
  <2>1. K \subseteq 0..N /\ K # {}
    BY <1>2
  <2> HIDE DEF K
  <2> QED BY <1>1, <2>1, MaxUpTo
<1>4. c = e \o SubSeq(p, n + 1, N)
  BY DEF CanonicalizeDeepest
<1> HIDE DEF n, c
<1>5. n \in 0..N /\ e # NoPath /\ SubSeq(p, 1, n) \in Path
  BY <1>1, <1>3
<1> DEFINE a == SubSeq(p, 1, n)
<1>6. PICK u \in 0..MaxLinks : e = Followed(f, a)[u] /\ \A i \in 0..MaxLinks : i < u => Stops(f, Followed(f, a)[i]) # {}
  <2> HIDE DEF a
  <2> QED BY <1>5, Arrives DEF a
<1>7. e \in Path /\ Stops(f, e) = {}
  BY <1>5, Arrives
<1> HIDE DEF e
<1>8. CASE n = N
  <2>1. SubSeq(p, N + 1, N) = <<>> /\ e \o <<>> = e
    BY <1>1, <1>7 DEF Path
  <2>2. c = e
    BY <2>1, <1>4, <1>8
  <2> QED BY <2>2, <1>7, CanonicalLeads DEF c
<1>9. CASE n # N
  <2> DEFINE b == <<p[n + 1]>>
             rest == SubSeq(p, n + 2, N)
  <2>1. n + 1 \in 1..N /\ n + 1 \in 0..N /\ ~(n + 1 <= n)
    BY <1>1, <1>5, <1>9
  <2>2. b \in Path /\ rest \in Path /\ a \o b = SubSeq(p, 1, n + 1) /\ SubSeq(p, n + 1, N) = b \o rest
    <3> DEFINE m == n + 1
    <3>1. m \in 1..N /\ m - 1 = n /\ m + 1 = n + 2
      BY <2>1, <1>1, <1>5
    <3> HIDE DEF m
    <3>2. /\ <<p[m]>> \in Path /\ SubSeq(p, m + 1, N) \in Path
          /\ SubSeq(p, 1, m - 1) \o <<p[m]>> = SubSeq(p, 1, m)
          /\ SubSeq(p, m, N) = <<p[m]>> \o SubSeq(p, m + 1, N)
      BY <3>1, AtName
    <3> QED BY <3>1, <3>2 DEF m
  <2> HIDE DEF b, rest, a
  <2>5. c = (e \o b) \o rest
    <3>1. e \in Seq(STRING) /\ b \in Seq(STRING) /\ rest \in Seq(STRING)
      BY <1>7, <2>2 DEF Path
    <3>2. e \o (b \o rest) = (e \o b) \o rest
      BY <3>1
    <3> QED BY <3>2, <2>2, <1>4
  <2>6. e \o b \in Path
    BY <1>7, <2>2, Parts
  <2>7. c \in Path
    BY <2>2, <2>5, <2>6, Parts
  <2>8. ASSUME EvalSymlinks(f, c) # NoPath PROVE FALSE
    <3> DEFINE d == e \o b
    <3>1. d \in Path /\ EvalSymlinks(f, d \o rest) # NoPath
      BY <2>5, <2>6, <2>8
    <3> HIDE DEF d
    <3>2. EvalSymlinks(f, d) # NoPath
      BY <3>1, <2>2, PrefixLeads
    <3>3. Followed(f, a \o b)[u] = d
      <4>1. a \in Path /\ b \in Path
        BY <1>5, <2>2 DEF a
      <4>2. \A i \in 0..MaxLinks : i < u => Stops(f, Followed(f, a)[i]) # {}
        BY <1>5, <1>6 DEF a
      <4>3. Followed(f, a \o b)[u] = Followed(f, a)[u] \o b
        <5> DEFINE w == a \o b
        <5>1. MadeOf(w, a, b)
          BY DEF MadeOf
        <5> HIDE DEF w
        <5>2. MadeOf(Followed(f, w)[u], Followed(f, a)[u], b)
          BY <4>1, <4>2, <5>1, Carried
        <5> QED BY <5>2 DEF MadeOf, w
      <4>4. Followed(f, a)[u] = e
        BY <1>5, <1>6 DEF a
      <4> QED BY <4>3, <4>4 DEF d
    <3>4. EvalSymlinks(f, SubSeq(p, 1, n + 1)) # NoPath
      <4> DEFINE m == n + 1
      <4>1. m \in 1..N /\ EvalSymlinks(f, Followed(f, SubSeq(p, 1, m))[u]) # NoPath
        BY <2>1, <2>2, <3>2, <3>3
      <4> HIDE DEF m
      <4>2. EvalSymlinks(f, SubSeq(p, 1, m)) # NoPath
        BY <4>1 DEF LinksSuffice
      <4> QED BY <4>2 DEF m
    <3>5. n + 1 \in K
      BY <2>1, <3>4
    <3> QED BY <3>5, <2>1, <1>3
  <2> QED BY <2>7, <2>8 DEF c
<1> QED BY <1>8, <1>9

\* What filepath.Clean makes of a path; one without ".." stays as it is.
LEMMA CleanIs ==
  ASSUME NEW names \in Path
  PROVE  Clean(names) \in Path /\ (names \in Seq(STRING \ {".."}) => Clean(names) = names)
<1> DEFINE N == Len(names)
           Op(w, k) == IF names[k] # ".." THEN Append(w, names[k]) ELSE SubSeq(w, 1, Len(w) - 1)
           step == [x \in Path \X (1..N) |-> Op(x[1], x[2])]
           Body(g) == [k \in 0..N |-> CASE k = 0 -> <<>>
                                        [] k > 0 /\ names[k] # ".." -> Append(g[k - 1], names[k])
                                        [] OTHER -> SubSeq(g[k - 1], 1, Len(g[k - 1]) - 1)]
           h == CHOOSE g : g = Body(g)
<1>1. N \in Nat /\ <<>> \in Path /\ names \in Seq(STRING)
  BY DEF Path
<1>2. \A w \in Path, k \in 1..N : Op(w, k) \in Path
  <2> SUFFICES ASSUME NEW w \in Path, NEW k \in 1..N PROVE Op(w, k) \in Path
    OBVIOUS
  <2>1. names[k] \in STRING /\ w \in Seq(STRING) /\ Len(w) \in Nat
    BY <1>1 DEF Path
  <2>2. Append(w, names[k]) \in Seq(STRING)
    BY <2>1
  <2>3. SubSeq(w, 1, Len(w) - 1) \in Seq(STRING)
    BY <2>1
  <2> QED BY <2>2, <2>3 DEF Path
<1>3. Clean(names) = h[N]
  BY DEF Clean
<1> HIDE DEF Op, N
<1>4. step \in Steps(N, Path)
  BY <1>2 DEF Steps
<1>5. PICK g : Follows(g, N, Path, <<>>, step)
  <2> HIDE DEF step
  <2> QED BY <1>1, <1>4, Recursion
<1>6. ASSUME NEW k \in 1..N PROVE g[k] = Op(g[k - 1], k) /\ k # 0 /\ k > 0
  <2>1. k - 1 \in 0..N /\ g[k - 1] \in Path /\ k # 0 /\ k > 0
    BY <1>1, <1>5 DEF Follows
  <2>2. <<g[k - 1], k>> \in Path \X (1..N)
    BY <2>1
  <2> QED BY <1>5, <2>1, <2>2 DEF Follows
<1>7. g = Body(g)
  <2>1. g = [k \in 0..N |-> g[k]] /\ g[0] = <<>>
    BY <1>5 DEF Follows
  <2>2. ASSUME NEW k \in 0..N PROVE g[k] = Body(g)[k]
    <3>1. CASE k = 0
      BY <2>1, <3>1
    <3>2. CASE k # 0
      <4>1. k \in 1..N
        BY <1>1, <3>2
      <4>2. g[k] = Op(g[k - 1], k) /\ k > 0
        BY <4>1, <1>6
      <4> QED BY <3>2, <4>2 DEF Op
    <3> QED BY <3>1, <3>2
  <2> DEFINE b == Body(g)
  <2>3. b = [k \in 0..N |-> b[k]]
    OBVIOUS
  <2> HIDE DEF b
  <2>4. \A k \in 0..N : g[k] = b[k]
    BY <2>2 DEF b
  <2>5. g = b
    BY <2>1, <2>3, <2>4
  <2> QED BY <2>5 DEF b
<1>8. h = Body(h)
  BY <1>7
<1> HIDE DEF h
<1>9. h[0] = <<>> /\ \A k \in 1..N : h[k] = Op(h[k - 1], k)
  <2>1. h[0] = <<>>
    BY <1>1, <1>8
  <2>2. ASSUME NEW k \in 1..N PROVE h[k] = Op(h[k - 1], k)
    <3>1. k \in 0..N /\ k # 0 /\ k > 0
      BY <1>1
    <3>2. Body(h)[k] = Op(h[k - 1], k)
      BY <3>1 DEF Op
    <3> QED BY <3>2, <1>8
  <2> QED BY <2>1, <2>2
<1> DEFINE P == {k \in 0..N : h[k] \in Path}
<1>10. \A k \in 0..N : k \in P
  <2>1. ASSUME NEW k \in 1..N, k - 1 \in P PROVE k \in P
    <3>1. h[k - 1] \in Path /\ k \in 0..N
      BY <1>1, <2>1
    <3>2. h[k] \in Path
      BY <3>1, <1>2, <1>9
    <3> QED BY <3>1, <3>2
  <2>2. 0 \in P
    BY <1>1, <1>9
  <2> HIDE DEF P
  <2> QED BY <1>1, <2>1, <2>2, UpTo
<1>11. ASSUME names \in Seq(STRING \ {".."}) PROVE h[N] = names
  <2> DEFINE Q == {k \in 0..N : h[k] = SubSeq(names, 1, k)}
  <2>1. ASSUME NEW k \in 1..N, k - 1 \in Q PROVE k \in Q
    <3>1. h[k - 1] = SubSeq(names, 1, k - 1) /\ k \in 0..N /\ h[k - 1] \in Path
      BY <1>1, <2>1, <1>10
    <3>2. names[k] \in STRING \ {".."}
      BY <1>11 DEF N
    <3>3. h[k] = Append(h[k - 1], names[k])
      BY <3>2, <1>9 DEF Op
    <3>4. Append(h[k - 1], names[k]) = h[k - 1] \o <<names[k]>>
      <4> DEFINE w == h[k - 1]
                 x == names[k]
      <4>1. w \in Seq(STRING) /\ x \in STRING
        BY <3>1, <3>2 DEF Path
      <4> HIDE DEF w, x
      <4>2. Append(w, x) = w \o <<x>>
        BY <4>1, AppendIsConcat
      <4> QED BY <4>2 DEF w, x
    <3>5. SubSeq(names, 1, k - 1) \o <<names[k]>> = SubSeq(names, 1, k)
      BY AtName DEF N
    <3> QED BY <3>1, <3>3, <3>4, <3>5
  <2>2. 0 \in Q
    <3>1. SubSeq(names, 1, 0) = <<>>
      BY <1>1
    <3>2. h[0] = SubSeq(names, 1, 0) /\ 0 \in 0..N
      BY <3>1, <1>1, <1>9
    <3> QED BY <3>2
  <2>3. N \in Q
    <3> HIDE DEF Q
    <3> QED BY <1>1, <2>1, <2>2, UpTo
  <2> QED BY <2>3, <1>1 DEF N
<1> QED BY <1>1, <1>3, <1>10, <1>11

\* A path is put together again from where it is cut.
LEMMA SplitAt ==
  ASSUME NEW p \in Path, NEW n \in 0..Len(p)
  PROVE  SubSeq(p, 1, n) \o SubSeq(p, n + 1, Len(p)) = p
<1> DEFINE S == STRING
           N == Len(p)
           a == SubSeq(p, 1, n)
           b == SubSeq(p, n + 1, N)
           y == a \o b
<1>1. p \in Seq(S) /\ N \in Nat /\ n \in 0..N /\ N = Len(p)
  BY DEF Path
<1> HIDE DEF S, N
<1>2. a \in Seq(S) /\ Len(a) = n /\ \A i \in 1..n : a[i] = p[i]
  BY <1>1
<1>3. b \in Seq(S) /\ Len(b) = N - n /\ \A i \in 1..(N - n) : b[i] = p[n + i]
  BY <1>1
<1> HIDE DEF a, b
<1>4. y \in Seq(S) /\ Len(y) = Len(a) + Len(b)
  <2>1. a \in Seq(S) /\ b \in Seq(S)
    BY <1>2, <1>3
  <2> QED BY <2>1, Joins
<1>5. \A i \in 1..Len(a) : y[i] = a[i]
  <2>1. a \in Seq(S) /\ b \in Seq(S)
    BY <1>2, <1>3
  <2> QED BY <2>1, Joins
<1>6. \A i \in 1..Len(b) : y[Len(a) + i] = b[i]
  <2>1. a \in Seq(S) /\ b \in Seq(S)
    BY <1>2, <1>3
  <2> QED BY <2>1, Joins
<1> HIDE DEF y
<1>7. ASSUME NEW i \in 1..N PROVE y[i] = p[i]
  <2>1. CASE i <= n
    <3>1. i \in 1..n
      BY <2>1, <1>1
    <3> QED BY <3>1, <1>2, <1>5
  <2>2. CASE ~(i <= n)
    <3> DEFINE j == i - n
    <3>1. j \in 1..(N - n) /\ n + j = i
      BY <2>2, <1>1
    <3> HIDE DEF j
    <3>2. y[n + j] = b[j] /\ b[j] = p[n + j]
      BY <3>1, <1>2, <1>3, <1>6
    <3> QED BY <3>1, <3>2
  <2> QED BY <2>1, <2>2
<1>8. Len(y) = N
  BY <1>1, <1>2, <1>3, <1>4
<1>9. y = p
  BY <1>1, <1>4, <1>7, <1>8, SeqEqual
<1> QED BY <1>9 DEF y, a, b, N

\* A path below a directory of the workspace is inside the workspace.
LEMMA Below ==
  ASSUME NEW a \in Path, NEW b \in Path, NEW p \in Path, IsPrefix(a, b), IsStrictPrefix(b, p)
  PROVE  IsPrefix(a, p) /\ Len(b) < Len(p)
<1> DEFINE l == Len(a)
           m == Len(b)
           n == Len(p)
<1>1. /\ l \in Nat /\ m \in Nat /\ n \in Nat /\ l <= m /\ m <= n
      /\ SubSeq(a, 1, l) = SubSeq(b, 1, l) /\ SubSeq(b, 1, m) = SubSeq(p, 1, m) /\ b # p
      /\ a \in Seq(STRING) /\ b \in Seq(STRING) /\ p \in Seq(STRING)
  BY DEF IsPrefix, IsStrictPrefix, Path
<1>2. SubSeq(b, 1, m) = b /\ SubSeq(p, 1, n) = p
  BY <1>1
<1>3. m < n
  <2>1. m # n
    BY <1>1, <1>2
  <2> HIDE DEF m, n
  <2> QED BY <2>1, <1>1
<1>4. SubSeq(b, 1, l) = SubSeq(p, 1, l)
  <2> DEFINE x == SubSeq(b, 1, l)
             y == SubSeq(p, 1, l)
             z == SubSeq(p, 1, m)
  <2>1. x \in Seq(STRING) /\ Len(x) = l /\ \A i \in 1..l : x[i] = b[i]
    <3> HIDE DEF l
    <3> QED BY <1>1
  <2>2. y \in Seq(STRING) /\ Len(y) = l /\ \A i \in 1..l : y[i] = p[i]
    <3> HIDE DEF l
    <3> QED BY <1>1
  <2>3. \A i \in 1..m : z[i] = p[i]
    <3> HIDE DEF m
    <3> QED BY <1>1
  <2> HIDE DEF x, y, z, l, m
  <2>4. z = b
    BY <1>1, <1>2 DEF z
  <2>5. \A i \in 1..l : x[i] = y[i]
    <3> SUFFICES ASSUME NEW i \in 1..l PROVE x[i] = y[i]
      OBVIOUS
    <3>1. i \in 1..m
      BY <1>1 DEF l, m
    <3>2. b[i] = p[i]
      BY <3>1, <2>3, <2>4
    <3> QED BY <3>2, <2>1, <2>2
  <2>6. x = y
    BY <2>1, <2>2, <2>5, SeqEqual
  <2> QED BY <2>6 DEF x, y
<1> QED BY <1>1, <1>3, <1>4 DEF IsPrefix

\* A path below another is that path and what follows it.
LEMMA FollowsOn ==
  ASSUME NEW a \in Path, NEW p \in Path, IsPrefix(a, p), NEW k \in Len(a)..Len(p)
  PROVE  a \o SubSeq(p, Len(a) + 1, k) = SubSeq(p, 1, k)
<1> DEFINE n == Len(a)
           N == Len(p)
           w == SubSeq(p, 1, k)
           head == SubSeq(w, 1, n)
           tail == SubSeq(w, n + 1, k)
           rest == SubSeq(p, n + 1, k)
<1>1. /\ n \in Nat /\ N \in Nat /\ n <= N /\ k \in Nat /\ n <= k /\ k <= N
      /\ a \in Seq(STRING) /\ p \in Seq(STRING) /\ a = SubSeq(a, 1, n) /\ SubSeq(a, 1, n) = SubSeq(p, 1, n)
  BY DEF IsPrefix, Path
<1>2. w \in Seq(STRING) /\ Len(w) = k /\ \A i \in 1..k : w[i] = p[i]
  <2> HIDE DEF n, N
  <2> QED BY <1>1 DEF N
<1>3. SubSeq(p, 1, n) \in Seq(STRING) /\ Len(SubSeq(p, 1, n)) = n /\ \A i \in 1..n : SubSeq(p, 1, n)[i] = p[i]
  <2> HIDE DEF n
  <2> QED BY <1>1 DEF N
<1> HIDE DEF w
<1>4. head \in Seq(STRING) /\ Len(head) = n /\ \A i \in 1..n : head[i] = w[i]
  <2> HIDE DEF n
  <2> QED BY <1>1, <1>2
<1>5. \A i \in 1..n : head[i] = SubSeq(p, 1, n)[i]
  <2> HIDE DEF n, N, head
  <2> SUFFICES ASSUME NEW i \in 1..n PROVE head[i] = SubSeq(p, 1, n)[i]
    OBVIOUS
  <2>1. i \in 1..k
    BY <1>1
  <2> QED BY <2>1, <1>2, <1>3, <1>4
<1>6. head = SubSeq(p, 1, n)
  <2> HIDE DEF n, N, head
  <2> QED BY <1>1, <1>3, <1>4, <1>5, SeqEqual
<1>7. tail \in Seq(STRING) /\ Len(tail) = k - n /\ \A i \in 1..k - n : tail[i] = w[n + i]
  <2> HIDE DEF n
  <2> QED BY <1>1, <1>2
<1>8. rest \in Seq(STRING) /\ Len(rest) = k - n /\ \A i \in 1..k - n : rest[i] = p[n + i]
  <2> HIDE DEF n
  <2> QED BY <1>1 DEF N
<1>9. \A i \in 1..k - n : tail[i] = rest[i]
  <2> HIDE DEF n, N, tail, rest
  <2> SUFFICES ASSUME NEW i \in 1..k - n PROVE tail[i] = rest[i]
    OBVIOUS
  <2>1. n + i \in 1..k
    BY <1>1
  <2> QED BY <2>1, <1>2, <1>7, <1>8
<1>10. tail = rest
  <2> HIDE DEF n, N, tail, rest
  <2>1. k - n \in Nat
    BY <1>1
  <2> QED BY <2>1, <1>7, <1>8, <1>9, SeqEqual
<1>11. head \o SubSeq(w, n + 1, Len(w)) = w
  <2>1. n \in 0..Len(w) /\ w \in Path
    BY <1>1, <1>2 DEF Path
  <2> QED BY <2>1, SplitAt
<1>12. head = a /\ SubSeq(w, n + 1, Len(w)) = rest
  BY <1>1, <1>2, <1>6, <1>10
<1> QED BY <1>11, <1>12 DEF w

\* Below a directory that is shown under its own name, everything is.
WalkAsNamed(f, custom, dir) ==
  {p \in DOMAIN f : /\ IsStrictPrefix(dir, p)
                    /\ \A k \in Len(dir) + 1..Len(p) :
                         ~IsHidden(custom, Relative(SubSeq(p, 1, k))) /\ ~IsLink(f, SubSeq(p, 1, k))}

LEMMA ShownAsIs ==
  ASSUME NEW f, IsFileSystem(f), NEW custom, NEW c \in Path, NEW x \in Walk(f, custom, c, c)
  PROVE  x \in WalkAsNamed(f, custom, c)
<1> DEFINE Shown(p) == c \o SubSeq(p, Len(c) + 1, Len(p))
           Under(p) == {SubSeq(p, 1, k) : k \in Len(c) + 1..Len(p)}
<1>1. PICK e \in DOMAIN f : /\ x = Shown(e) /\ IsStrictPrefix(c, e)
                            /\ \A b \in Under(e) : ~IsHidden(custom, Relative(Shown(b))) /\ ~IsLink(f, b)
  BY DEF Walk
<1> DEFINE N == Len(e)
<1>2. e \in Path /\ N \in Nat /\ Len(c) \in Nat /\ IsPrefix(c, e) /\ Len(c) <= N
  <2>1. e \in Seq(STRING \ {".."})
    BY DEF IsFileSystem
  <2>2. e \in Path
    BY <2>1 DEF Path
  <2> QED BY <1>1, <2>2 DEF IsStrictPrefix, IsPrefix, Path
<1>3. ASSUME NEW k \in Len(c)..N PROVE Shown(SubSeq(e, 1, k)) = SubSeq(e, 1, k)
  <2> DEFINE b == SubSeq(e, 1, k)
             n == Len(c)
  <2>1. k \in 0..N /\ n \in 0..k /\ k \in Nat
    BY <1>2
  <2>2. b \in Path /\ Len(b) = k /\ \A i \in 1..k : b[i] = e[i]
    <3>1. e \in Seq(STRING)
      BY <1>2 DEF Path
    <3> QED BY <2>1, <3>1 DEF Path
  <2>3. SubSeq(b, 1, n) = SubSeq(e, 1, n)
    <3> HIDE DEF n, b, N
    <3>1. b \in Seq(STRING) /\ e \in Seq(STRING) /\ n \in 0..Len(b) /\ n \in 0..Len(e)
      BY <1>2, <2>1, <2>2 DEF Path, N
    <3>2. /\ SubSeq(b, 1, n) \in Seq(STRING) /\ Len(SubSeq(b, 1, n)) = n /\ \A i \in 1..n : SubSeq(b, 1, n)[i] = b[i]
      BY <3>1
    <3>3. /\ SubSeq(e, 1, n) \in Seq(STRING) /\ Len(SubSeq(e, 1, n)) = n /\ \A i \in 1..n : SubSeq(e, 1, n)[i] = e[i]
      BY <3>1
    <3>4. \A i \in 1..n : SubSeq(b, 1, n)[i] = SubSeq(e, 1, n)[i]
      <4> SUFFICES ASSUME NEW i \in 1..n PROVE SubSeq(b, 1, n)[i] = SubSeq(e, 1, n)[i]
        OBVIOUS
      <4>1. i \in 1..k
        BY <2>1
      <4> QED BY <4>1, <2>2, <3>2, <3>3
    <3> QED BY <3>2, <3>3, <3>4, SeqEqual
  <2>4. IsPrefix(c, b)
    <3> HIDE DEF b
    <3> QED BY <1>2, <2>1, <2>2, <2>3 DEF IsPrefix
  <2>5. SubSeq(b, 1, k) = b
    BY <2>1, <1>2 DEF Path
  <2>6. c \o SubSeq(b, Len(c) + 1, Len(b)) = SubSeq(b, 1, Len(b))
    <3> HIDE DEF b
    <3>1. Len(b) \in Len(c)..Len(b)
      BY <2>1, <2>2
    <3> QED BY <2>2, <2>4, <3>1, FollowsOn
  <2> QED BY <2>2, <2>5, <2>6
<1>4. SubSeq(e, 1, N) = e /\ N \in Len(c)..N
  BY <1>2 DEF Path
<1>5. x = e
  BY <1>1, <1>3, <1>4
<1>6. ASSUME NEW k \in Len(c) + 1..N
      PROVE  ~IsHidden(custom, Relative(SubSeq(e, 1, k))) /\ ~IsLink(f, SubSeq(e, 1, k))
  <2>1. SubSeq(e, 1, k) \in Under(e) /\ k \in Len(c)..N
    BY <1>2
  <2>2. Shown(SubSeq(e, 1, k)) = SubSeq(e, 1, k)
    BY <2>1, <1>3
  <2> HIDE DEF Shown, Under
  <2> QED BY <2>1, <2>2, <1>1
<1> QED BY <1>1, <1>5, <1>6 DEF WalkAsNamed

\* What a listing shows can be asked for under the name it shows.
LEMMA ListedIsFound ==
  ASSUME NEW f \in FileSystems, NEW custom, NEW c \in Path, Inside(c), NEW p \in WalkAsNamed(f, custom, c)
  PROVE  Resolve(f, custom, [absolute |-> FALSE, names |-> Relative(p)]) = p
<1> DEFINE N == Len(p)
           q == [absolute |-> FALSE, names |-> Relative(p)]
<1>1. /\ IsFileSystem(f) /\ Root \in DOMAIN f
      /\ p \in DOMAIN f /\ IsStrictPrefix(c, p)
      /\ \A k \in Len(c) + 1..N :
           ~IsHidden(custom, Relative(SubSeq(p, 1, k))) /\ ~IsLink(f, SubSeq(p, 1, k))
  BY PathsAssumption DEF WalkAsNamed
<1>2. p \in Seq(STRING \ {".."}) /\ p \in Path /\ Root \in Path
  <2>1. p \in Seq(STRING \ {".."}) /\ Root \in Seq(STRING \ {".."})
    BY <1>1 DEF IsFileSystem
  <2> QED BY <2>1 DEF Path
<1>3. N \in Nat /\ p \in Seq(STRING) /\ Len(c) \in Nat /\ Len(Root) \in Nat
  BY <1>2 DEF Path
<1>4. IsPrefix(Root, p) /\ Len(c) < N
  BY <1>1, <1>2, Below DEF Inside
<1>5. SubSeq(p, 1, N) = p /\ N \in Len(c) + 1..N
  BY <1>3, <1>4
<1>6. ~IsHidden(custom, Relative(p)) /\ ~IsLink(f, p)
  BY <1>1, <1>5
<1>7. Stops(f, p) = {}
  <2> SUFFICES ASSUME NEW k \in 1..N PROVE SubSeq(p, 1, k) \in DOMAIN f /\ ~IsLink(f, SubSeq(p, 1, k))
    BY DEF Stops
  <2>1. CASE k = N
    BY <2>1, <1>1, <1>5, <1>6
  <2>2. CASE k # N
    <3>1. k \in 1..N - 1
      BY <2>2, <1>3
    <3>2. SubSeq(p, 1, k) \in DOMAIN f /\ f[SubSeq(p, 1, k)].kind = "dir"
      BY <3>1, <1>1 DEF IsFileSystem
    <3> QED BY <3>2 DEF IsLink
  <2> QED BY <2>1, <2>2
<1>8. Root \o Relative(p) = p
  <2>1. Len(Root) \in 0..N /\ SubSeq(Root, 1, Len(Root)) = SubSeq(p, 1, Len(Root)) /\ SubSeq(Root, 1, Len(Root)) = Root
    <3>1. Root \in Seq(STRING)
      BY <1>2 DEF Path
    <3> QED BY <3>1, <1>3, <1>4 DEF IsPrefix
  <2> DEFINE n == Len(Root)
  <2>2. SubSeq(p, 1, n) \o SubSeq(p, n + 1, Len(p)) = p
    BY <2>1, <1>2, SplitAt
  <2> QED BY <2>1, <2>2 DEF Relative
<1>9. Joined(q) = p
  <2>1. Joined(q) = Clean(p)
    BY <1>8 DEF Joined
  <2> QED BY <2>1, <1>2, CleanIs
<1>10. CanonicalizeDeepest(f, p) = p
  <2> DEFINE K == {k \in 0..N : EvalSymlinks(f, SubSeq(p, 1, k)) # NoPath}
             n == Max(K)
  <2>1. EvalSymlinks(f, p) = p /\ p # NoPath
    BY <1>1, <1>2, <1>7, CanonicalLeads
  <2>2. N \in K /\ K \subseteq 0..N
    <3>1. EvalSymlinks(f, SubSeq(p, 1, N)) # NoPath
      BY <2>1, <1>5
    <3>2. N \in 0..N
      BY <1>3
    <3> HIDE DEF N
    <3> QED BY <3>1, <3>2
  <2>3. CanonicalizeDeepest(f, p) = EvalSymlinks(f, SubSeq(p, 1, n)) \o SubSeq(p, n + 1, N)
    BY DEF CanonicalizeDeepest
  <2>4. n \in K /\ N <= n
    <3> HIDE DEF K
    <3>1. K # {}
      BY <2>2
    <3> QED BY <2>2, <3>1, <1>3, MaxUpTo
  <2> HIDE DEF n, K
  <2>5. n = N
    BY <2>2, <2>4, <1>3
  <2>6. SubSeq(p, N + 1, N) = <<>> /\ p \o <<>> = p
    BY <1>3
  <2> QED BY <2>1, <2>3, <2>5, <2>6, <1>5
<1> QED BY <1>4, <1>6, <1>9, <1>10 DEF Resolve, Inside, IsHidden

\* Where the system opens a path, EvalSymlinks arrives too.
LEMMA OpenedIsCanonical ==
  ASSUME NEW f, IsFileSystem(f), NEW p \in Path, Opened(f, p) # NoPath
  PROVE  EvalSymlinks(f, p) # NoPath /\ Opened(f, p) = EvalSymlinks(f, p)
<1>1. OpenLinks \in 0..MaxLinks
  BY PathsAssumption
<1>2. Stops(f, Followed(f, p)[OpenLinks]) = {} /\ Opened(f, p) = Followed(f, p)[OpenLinks]
  BY DEF Opened
<1> QED BY <1>1, <1>2, Arrives

\* A lookup, and the read that may come of it, is confined.
LEMMA LookupIsConfined ==
  ASSUME NEW f \in FileSystems, NEW custom, NEW q \in Requested, Lookup(f, custom, q),
         LinksSuffice(f, Joined(q))
  PROVE  ReadsAreConfined'
<1> DEFINE p == Joined(q)
           c == CanonicalizeDeepest(f, p)
<1>1. IsFileSystem(f) /\ Root \in Path /\ NoPath \notin Path
  <2>1. IsFileSystem(f) /\ Root \in DOMAIN f /\ NoPath \notin Path
    BY PathsAssumption
  <2>2. Root \in Seq(STRING \ {".."})
    BY <2>1 DEF IsFileSystem
  <2> QED BY <2>1, <2>2 DEF Path
<1>2. p \in Path
  <2>1. q.names \in Path
    BY PathsAssumption
  <2>2. Root \o q.names \in Path
    <3> DEFINE names == q.names
    <3>1. names \in Path
      BY <2>1
    <3> HIDE DEF names
    <3>2. Root \o names \in Path
      BY <3>1, <1>1, Parts
    <3> QED BY <3>2 DEF names
  <2> DEFINE names == IF q.absolute THEN q.names ELSE Root \o q.names
  <2>3. names \in Path
    BY <2>1, <2>2
  <2> HIDE DEF names
  <2>4. Clean(names) \in Path
    BY <2>3, CleanIs
  <2> QED BY <2>4 DEF Joined, names
<1>3. LinksSuffice(f, p)
  OBVIOUS
<1> HIDE DEF p
<1>4. c \in Path /\ (EvalSymlinks(f, c) # NoPath => EvalSymlinks(f, c) = c)
  BY <1>1, <1>2, <1>3, Deepest
<1>5. found' = IF Inside(c) /\ ~IsSensitive(custom, Relative(c)) THEN c ELSE NoPath
  BY DEF Lookup, Resolve, p
<1>6. /\ files' = f /\ ignore' = custom
      /\ readFrom' = TextFile(f, found')
      /\ listed' = IF IsA("dir", f, found') THEN Walk(f, custom, Opened(f, found'), found') ELSE {}
  BY DEF Lookup
<1> HIDE DEF c
<1>7. ASSUME readFrom' # NoPath
      PROVE  /\ readFrom' = found' /\ Inside(readFrom')
             /\ ~Matches(Sensitive, Relative(readFrom')) /\ ~Matches(ignore', Relative(readFrom'))
  <2>1. IsA("file", f, found') /\ readFrom' = Opened(f, found')
    BY <1>6, <1>7 DEF TextFile
  <2>2. found' # NoPath /\ Opened(f, found') # NoPath
    BY <2>1 DEF IsA
  <2>3. found' = c /\ Inside(c) /\ ~IsSensitive(custom, Relative(c))
    BY <1>5, <2>2
  <2>4. readFrom' = c
    BY <2>1, <2>2, <2>3, <1>1, <1>4, OpenedIsCanonical
  <2> QED BY <2>3, <2>4, <1>6 DEF IsSensitive
<1>8. ASSUME NEW x \in listed'
      PROVE  Resolve(files', ignore', [absolute |-> FALSE, names |-> Relative(x)]) = x
  <2>1. IsA("dir", f, found') /\ x \in Walk(f, custom, Opened(f, found'), found')
    BY <1>6, <1>8
  <2>2. found' # NoPath /\ Opened(f, found') # NoPath
    BY <2>1 DEF IsA
  <2>3. found' = c /\ Inside(c)
    BY <1>5, <2>2
  <2>4. Opened(f, c) = c
    BY <2>2, <2>3, <1>1, <1>4, OpenedIsCanonical
  <2>5. x \in WalkAsNamed(f, custom, c)
    BY <2>1, <2>3, <2>4, <1>1, <1>4, ShownAsIs
  <2> QED BY <2>3, <2>5, <1>4, <1>6, ListedIsFound
<1> QED BY <1>7, <1>8 DEF ReadsAreConfined

\* What is read is inside the workspace, is what the answer names and is not hidden,
\* whatever links the file system holds, unless the path asked for leads somewhere
\* only over more of them than EvalSymlinks follows; what a listing shows can be
\* asked for.
THEOREM ReadsStayInside == PathsSpec => []ReadsAreConfined
<1>1. PathsInit => ReadsAreConfined
  BY DEF PathsInit, ReadsAreConfined
<1>2. ReadsAreConfined /\ [PathsNext]_pathsVars => ReadsAreConfined'
  <2> SUFFICES ASSUME ReadsAreConfined, [PathsNext]_pathsVars PROVE ReadsAreConfined'
    OBVIOUS
  <2>1. CASE PathsNext
    <3>1. PICK f \in FileSystems, custom \in Ignores, q \in Requested : Lookup(f, custom, q)
      BY <2>1 DEF PathsNext
    <3>2. files' = f /\ requested' = q
      BY <3>1 DEF Lookup
    <3>3. CASE LinksSuffice(f, Joined(q))
      BY <3>1, <3>3, LookupIsConfined
    <3>4. CASE ~LinksSuffice(f, Joined(q))
      BY <3>2, <3>4 DEF ReadsAreConfined
    <3> QED BY <3>3, <3>4
  <2>2. CASE UNCHANGED pathsVars
    BY <2>2 DEF pathsVars, ReadsAreConfined
  <2> QED BY <2>1, <2>2
<1> QED BY <1>1, <1>2, PTL DEF PathsSpec
=============================================================================
