------------------------------ MODULE Records ------------------------------
(***************************************************************************)
(* Execution records (internal/execution/records.go over AppendJSONLine    *)
(* and ScanJSONLines of internal/state/repository.go): commands append     *)
(* lines to a file while the bridge scans it.  An append is one write,     *)
(* which is appended as a whole but may be short when the disk is full or  *)
(* the process is killed; a reader may meet what is written in two halves. *)
(*                                                                         *)
(* The file is a sequence of pieces: [record, part], part "all" with the   *)
(* newline, "head" the beginning and "tail" the rest with the newline (and *)
(* more than that).  The reader gives up at a line it has no room for.     *)
(***************************************************************************)
EXTENDS Naturals, Sequences, SequencesExt, FiniteSetsExt, FiniteSets

CONSTANTS
  RecordIds,   \* records that are appended
  Readers,     \* calls of Read
  ReadLimits,  \* limits that are asked for
  DefaultRecords, MaxRecords,  \* the limit used for less than one, and the largest
  Sizes,       \* per record, the bytes of its head and of its tail, without the newline
  LineBytes,   \* the longest line the reader has room for, with its newline
  NoReader     \* absence of a call

ASSUME RecordsAssumption ==
  /\ {DefaultRecords, MaxRecords} \subseteq Nat \ {0} /\ ReadLimits \subseteq Nat
  /\ Sizes \in [RecordIds -> [head : Nat \ {0}, tail : Nat \ {0}]] /\ LineBytes \in Nat

VARIABLES
  pieces,   \* the file
  half,     \* the record of which only the head is visible yet
  acked,    \* records whose command reported success
  scan,     \* per call: [limit, at, line, ring, count] or NoReader
  seen      \* how the last call that finished ended: [limit, upto, result, failed]

recordVars == <<pieces, half, acked, scan, seen>>

-----------------------------------------------------------------------------
Piece(r, part) == [record |-> r, part |-> part]

Written == {pieces[i].record : i \in DOMAIN pieces}

\* The append is visible at once, or its head first.
Append1(r) ==
  /\ r \notin Written /\ half = {}
  /\ \/ pieces' = Append(pieces, Piece(r, "all")) /\ acked' = acked \cup {r} /\ UNCHANGED half
     \/ pieces' = Append(pieces, Piece(r, "head")) /\ half' = {r} /\ UNCHANGED acked
  /\ UNCHANGED <<scan, seen>>

AppendRest ==
  /\ \E r \in half : pieces' = Append(pieces, Piece(r, "tail")) /\ acked' = acked \cup {r}
  /\ half' = {}
  /\ UNCHANGED <<scan, seen>>

\* The write was short, or the process was killed: the next line begins in this one.
AppendTorn ==
  /\ half # {} /\ half' = {}
  /\ UNCHANGED <<pieces, acked, scan, seen>>

-----------------------------------------------------------------------------
(* Read. *)

\* A line begins at a piece of a file.
Begins(file, n) == n = 1 \/ file[n - 1].part # "head"

PieceBytes(piece) ==
  LET size == Sizes[piece.record]
  IN (IF piece.part # "tail" THEN size.head ELSE 0) + (IF piece.part # "head" THEN size.tail ELSE 0)

LineLength(line) ==
  LET bytes[n \in 0..Len(line)] == IF n = 0 THEN 0 ELSE bytes[n - 1] + PieceBytes(line[n])
  IN bytes[Len(line)]

\* The line a piece is in leaves no room for its newline.
TooLong(file, n) ==
  LineLength(SubSeq(file, Max({k \in 1..n : Begins(file, k)}), n)) >= LineBytes

Limit(n) == IF n < 1 THEN DefaultRecords ELSE IF n > MaxRecords THEN MaxRecords ELSE n

ReadStart(c, n) ==
  /\ scan[c] = NoReader
  /\ scan' = [scan EXCEPT ![c] = [limit |-> Limit(n), at |-> 1, line |-> <<>>,
                                  ring |-> [i \in 0..Limit(n) - 1 |-> NoReader], count |-> 0]]
  /\ UNCHANGED <<pieces, half, acked, seen>>

\* A line decodes if it is one record, whole.
Decodes(line) ==
  \/ Len(line) = 1 /\ line[1].part = "all"
  \/ Len(line) = 2 /\ line[1].part = "head" /\ line[2] = Piece(line[1].record, "tail")

\* Mutant: a line that does not decode takes a place.
VisitAll(s, line) ==
  [s EXCEPT !.ring[s.count % s.limit] = IF Decodes(line) THEN line[1].record ELSE NoReader,
            !.count = @ + 1, !.line = <<>>]

\* A line that does not decode is passed over.
Visit(s, line) ==
  IF Decodes(line)
  THEN [s EXCEPT !.ring[s.count % s.limit] = line[1].record, !.count = @ + 1, !.line = <<>>]
  ELSE [s EXCEPT !.line = <<>>]

ScanPiece(c) ==
  /\ scan[c] # NoReader /\ scan[c].at <= Len(pieces)
  /\ ~TooLong(pieces, scan[c].at)
  /\ LET piece == pieces[scan[c].at]
         line == Append(scan[c].line, piece)
         on == [scan[c] EXCEPT !.at = @ + 1, !.line = line]
     IN scan' = [scan EXCEPT ![c] = IF piece.part = "head" THEN on ELSE Visit(on, line)]
  /\ UNCHANGED <<pieces, half, acked, seen>>

\* The scan stops at a line that is too long, and nothing is returned.
ReadFails(c) ==
  /\ scan[c] # NoReader /\ scan[c].at <= Len(pieces)
  /\ TooLong(pieces, scan[c].at)
  /\ seen' = [limit |-> scan[c].limit, upto |-> scan[c].at, result |-> <<>>, failed |-> TRUE]
  /\ scan' = [scan EXCEPT ![c] = NoReader]
  /\ UNCHANGED <<pieces, half, acked>>

\* At the end of the file; a last line without newline is visited too.
ReadEnd(c) ==
  /\ scan[c] # NoReader /\ scan[c].at > Len(pieces)
  /\ LET s == IF scan[c].line = <<>> THEN scan[c] ELSE Visit(scan[c], scan[c].line)
         size == IF s.count > s.limit THEN s.limit ELSE s.count
     IN seen' = [limit |-> s.limit, upto |-> s.at - 1, failed |-> FALSE,
                 result |-> [i \in 1..size |-> s.ring[(s.count - size + i - 1) % s.limit]]]
  /\ scan' = [scan EXCEPT ![c] = NoReader]
  /\ UNCHANGED <<pieces, half, acked>>

RecordsInit ==
  /\ pieces = <<>> /\ half = {} /\ acked = {}
  /\ scan = [c \in Readers |-> NoReader]
  /\ seen = [limit |-> 1, upto |-> 0, result |-> <<>>, failed |-> FALSE]

RecordsNext ==
  \/ \E r \in RecordIds : Append1(r)
  \/ AppendRest \/ AppendTorn
  \/ \E c \in Readers : \/ \E n \in ReadLimits : ReadStart(c, n)
                        \/ ScanPiece(c) \/ ReadFails(c) \/ ReadEnd(c)

RecordsSpec == RecordsInit /\ [][RecordsNext]_recordVars

-----------------------------------------------------------------------------
(* Properties. *)

\* A piece ends a line that is one record, whole.
EndsWhole(file, n) ==
  \/ file[n].part = "all" /\ Begins(file, n)
  \/ /\ n > 1 /\ Begins(file, n - 1)
     /\ file[n - 1].part = "head" /\ file[n] = Piece(file[n - 1].record, "tail")

\* The whole records among the first pieces of each number, in order.
WholeRecords(file) ==
  LET whole[n \in 0..Len(file)] ==
        IF n = 0 THEN <<>>
        ELSE IF EndsWhole(file, n) THEN Append(whole[n - 1], file[n].record) ELSE whole[n - 1]
  IN whole

LastOf(s, n) == IF Len(s) > n THEN SubSeq(s, Len(s) - n + 1, Len(s)) ELSE s

\* However appends and scans overlap and wherever a write breaks off, a read that
\* succeeds returns the last whole records of the file as it stood at some moment
\* of the read, oldest first, as many as were asked for, and never half of one.  A
\* read fails exactly when a line it came to is too long: one such line, of a
\* record or joined from several, makes every read after it fail and hides all
\* records (repository.go:103, no writer bounds a line).  A record whose command
\* succeeded is otherwise lost only to the one write that broke off just before it.
RecordsRead ==
  /\ seen.failed <=> \E n \in 1..seen.upto : TooLong(pieces, n)
  /\ ~seen.failed => seen.result = LastOf(WholeRecords(pieces)[seen.upto], seen.limit)
  /\ \A r \in acked \ ToSet(WholeRecords(pieces)[Len(pieces)]) :
       \E i \in 2..Len(pieces) : pieces[i].record = r /\ pieces[i - 1].part = "head" /\ pieces[i - 1].record \notin acked
=============================================================================
