------------------------------ MODULE Reading ------------------------------
(***************************************************************************)
(* The read tools that answer in pages (internal/workspace, and the bounds *)
(* their arguments have in internal/mcp): a client asks for a first page   *)
(* and follows what each page says comes next.                             *)
(*                                                                         *)
(* A file is the sequence of its lines' lengths.  Entries of a directory,  *)
(* matches and commits are numbered in the order they are listed in.  A    *)
(* diff is the sequence of its bytes: a character of one byte, a newline,  *)
(* the two bytes of a longer character ("lead", "cont"), or a byte that is *)
(* not UTF-8.  What is read does not change between two pages.             *)
(***************************************************************************)
EXTENDS Naturals, Sequences, SequencesExt, FiniteSetsExt, FiniteSets

CONSTANTS
  LineReads,   \* calls of read_file: [lines, start, end]
  ListReads,   \* paged listings: [tool, size, limit]
  DiffReads,   \* calls of git_diff: [changes, bytes, max], bytes for the paths' diffs
  FileReads,   \* calls of read_files: [files, max], files sequences of [lines, start, end]
  DefaultLines, HardLines, MinRead, DefaultBytes, HardBytes,  \* bounds of readTextRange
  MaxFiles, FilesMinBytes, FilesMaxBytes, FilesMaxLines,      \* bounds of ReadFiles
  MaxOffset,   \* the last offset of find_files and git_log
  FindEntries, \* how many entries find_files scans
  ListSlack,   \* what list_directory collects beyond the page
  DiffDefaultBytes, DiffMaxBytes,
  BatchCount, BatchBytes, PathCost,  \* bounds of a call of git, and the length of a path in it
  NoPage       \* nothing comes next; no call; a file that cannot be read

\* A byte is "lead" or "cont" as part of a character, else it is not UTF-8.
InCharacters(bytes) ==
  /\ \A i \in DOMAIN bytes : bytes[i] = "lead" <=> i < Len(bytes) /\ bytes[i + 1] = "cont"
  /\ bytes # <<>> => bytes[1] # "cont"

ASSUME ReadingAssumption ==
  /\ {DefaultLines, HardLines, MinRead, DefaultBytes, HardBytes, MaxFiles, FilesMinBytes,
      FilesMaxBytes, FilesMaxLines, DiffDefaultBytes, DiffMaxBytes, BatchCount, BatchBytes, PathCost} \subseteq Nat \ {0}
  /\ MinRead <= FilesMinBytes /\ FilesMaxBytes <= HardBytes /\ FilesMaxLines <= HardLines
  /\ MaxOffset \in Nat /\ {ListSlack, FindEntries} \subseteq Nat \ {0}
  /\ 2 \in 0..MinRead /\ 2 \in 0..DiffDefaultBytes /\ 2 \in 0..DiffMaxBytes  \* a page holds a character
  /\ NoPage \notin Nat
  /\ LineReads \subseteq [lines : Seq(Nat), start : Nat \ {0}, end : Nat]
  /\ ListReads \subseteq [tool : {"list", "find", "log"}, size : Nat, limit : Nat \ {0}]
  /\ DiffReads \subseteq [changes : Seq([paths : Seq(Nat), hidden : BOOLEAN, inside : BOOLEAN]),
                         bytes : Seq({"text", "newline", "lead", "cont", "bad"}), max : Nat]
  /\ \A arg \in DiffReads : InCharacters(arg.bytes)
  /\ FileReads \subseteq [files : Seq([lines : Seq(Nat) \cup {NoPage}, start : Nat, end : Nat]), max : Nat]

VARIABLES
  asked,    \* the call that is followed, [tool, arg], or NoPage
  next,     \* where its next page begins, or NoPage
  got,      \* the positions of what it delivered so far, in order
  ended,    \* how the last page ended: more comes, all is "whole", lines were "cut", the
            \* "window" of offsets is over, only part was "scanned", or more comes but the
            \* page is empty ("stuck")
  batches,  \* the paths of each call of git for a diff
  answer    \* the answer of read_files: [returned, budget, items, remaining, truncated], or NoPage

readingVars == <<asked, next, got, ended, batches, answer>>

-----------------------------------------------------------------------------
AtMost(n, bound) == IF n > bound THEN bound ELSE n
AtLeast(n, bound) == IF n < bound THEN bound ELSE n
Positions(from, to) == [i \in 1..(IF to < from THEN 0 ELSE to - from + 1) |-> from + i - 1]

\* Calls share nothing: one of them is followed in each behaviour.
Idle == asked = NoPage /\ answer = NoPage

(* readTextRange. *)

RangeEnd(start, end, maxLines) ==
  AtMost(IF end < start THEN start + AtMost(maxLines, HardLines) - 1 ELSE end, start + HardLines - 1)

\* A line is taken while it fits; a first line that does not fit is cut.
Take(page, length, start, last, bytes) ==
  LET n == page.total + 1
      cost == length + (IF page.taken > 0 THEN 1 ELSE 0)
  IN IF n < start \/ n > last \/ page.cut THEN [page EXCEPT !.total = n]
     ELSE IF page.used + cost <= bytes
     THEN [page EXCEPT !.total = n, !.taken = @ + 1, !.used = @ + cost, !.end = n]
     ELSE IF page.taken = 0
     THEN [total |-> n, taken |-> 1, used |-> bytes, end |-> n, cut |-> TRUE]
     ELSE [page EXCEPT !.total = n, !.cut = TRUE]

\* The pages after each number of lines.
Taking(lines, start, last, bytes) ==
  LET page[n \in 0..Len(lines)] ==
        IF n = 0 THEN [total |-> 0, taken |-> 0, used |-> 0, end |-> start - 1, cut |-> FALSE]
        ELSE Take(page[n - 1], lines[n], start, last, bytes)
  IN page

ReadBytes(max) == IF max < MinRead THEN DefaultBytes ELSE AtMost(max, HardBytes)

TextRange(lines, start, end, maxLines, max) ==
  Taking(lines, start, RangeEnd(start, end, maxLines), ReadBytes(max))[Len(lines)]

Unread(page) == page.cut \/ page.total > page.end

\* Mutant: the line that did not fit is skipped.
NextLineSkips(page, start) ==
  IF ~Unread(page) \/ (page.cut /\ page.taken = 1 /\ page.end = start) THEN NoPage
  ELSE page.end + (IF page.cut THEN 2 ELSE 1)

\* No page follows one that holds a single line and was cut.
NextLine(page, start) ==
  IF ~Unread(page) \/ (page.cut /\ page.taken = 1 /\ page.end = start) THEN NoPage ELSE page.end + 1

LinePage(arg) ==
  LET page == TextRange(arg.lines, next, arg.end, DefaultLines, 0)
  IN /\ got' = got \o Positions(next, page.end)
     /\ next' = NextLine(page, next)
     /\ ended' = IF next' # NoPage THEN "more" ELSE IF Unread(page) THEN "cut" ELSE "whole"
     /\ UNCHANGED <<asked, batches, answer>>

-----------------------------------------------------------------------------
(* Listings: list_directory, find_files and git_log. *)

\* A directory is walked until the page and some more is full; a log is asked
\* for one commit beyond the page; files are found among the first entries of the
\* tree (all of them match here: others only use up the scan).
Walked(arg) == AtMost(arg.size, next + arg.limit + ListSlack)
Logged(arg) == AtMost(arg.size, next + arg.limit + 1)
Found(arg) == AtMost(arg.size, FindEntries)

Collected(arg) ==
  CASE arg.tool = "list" -> Walked(arg)
    [] arg.tool = "log"  -> Logged(arg)
    [] arg.tool = "find" -> Found(arg)

\* The page that would come next is one that may be asked for.
MayFollow(arg, end) == arg.tool = "list" \/ end <= MaxOffset

ListPage(arg) ==
  LET all == Collected(arg)
      end == AtMost(AtMost(next, all) + arg.limit, all)
  IN /\ got' = got \o Positions(next + 1, end)
     /\ next' = IF end < all /\ MayFollow(arg, end) THEN end ELSE NoPage
     /\ ended' = IF end < all THEN IF MayFollow(arg, end) THEN "more" ELSE "window"
                 ELSE IF all < arg.size THEN "scanned" ELSE "whole"
     /\ UNCHANGED <<asked, batches, answer>>

-----------------------------------------------------------------------------
(* git_diff. *)

\* The inventory: per change [paths, hidden, inside], paths two for a rename.
\* A change with a sensitive path, or out of scope, is left out.
PathsToDiff(changes) ==
  UNION {ToSet(changes[i].paths) : i \in {j \in DOMAIN changes : ~changes[j].hidden /\ changes[j].inside}}

\* The paths in order, each once.
DiffPaths(changes) ==
  LET paths == PathsToDiff(changes)
  IN [k \in 1..Cardinality(paths) |-> CHOOSE p \in paths : Cardinality({q \in paths : q < p}) = k - 1]

\* A batch is closed when the next path would exceed the count or the bytes.
AddPath(done, path) ==
  LET open == Last(done)
  IN IF open # <<>> /\ (Len(open) >= BatchCount \/ (Len(open) + 1) * PathCost > BatchBytes)
     THEN Append(done, <<path>>)
     ELSE [done EXCEPT ![Len(done)] = Append(@, path)]

\* The batches of each number of paths.
Batching(paths) ==
  LET done[n \in 0..Len(paths)] == IF n = 0 THEN <<<<>>>> ELSE AddPath(done[n - 1], paths[n])
  IN done

BatchPaths(paths) == IF paths = <<>> THEN <<>> ELSE Batching(paths)[Len(paths)]

Utf8(bytes) ==
  \A i \in DOMAIN bytes :
    /\ bytes[i] # "bad"
    /\ bytes[i] = "lead" => i < Len(bytes) /\ bytes[i + 1] = "cont"
    /\ bytes[i] = "cont" => i > 1 /\ bytes[i - 1] = "lead"

Newlines(bytes) == {i \in DOMAIN bytes : bytes[i] = "newline"}

\* The end of a page: after its last newline unless that is its first byte or
\* the page is the last one, then before the first byte that is not UTF-8.
DiffEnd(full, offset, max) ==
  LET end == AtMost(offset + max, Len(full))
      chunk == SubSeq(full, offset + 1, end)
      lines == IF end < Len(full) /\ Newlines(chunk) \ {1} # {} THEN Max(Newlines(chunk)) ELSE Len(chunk)
  IN offset + Max({n \in 0..lines : Utf8(SubSeq(chunk, 1, n))})

DiffBytes(max) == IF max < MinRead THEN DiffDefaultBytes ELSE AtMost(max, DiffMaxBytes)

DiffPage(arg) ==
  LET full == IF batches' = <<>> THEN <<>> ELSE arg.bytes
      offset == AtMost(next, Len(full))
      end == DiffEnd(full, offset, DiffBytes(arg.max))
  IN /\ batches' = BatchPaths(DiffPaths(arg.changes))
     /\ got' = got \o Positions(offset + 1, end)
     /\ next' = IF end < Len(full) THEN end ELSE NoPage
     /\ ended' = IF end = Len(full) THEN "whole" ELSE IF end = offset THEN "stuck" ELSE "more"
     /\ UNCHANGED <<asked, answer>>

-----------------------------------------------------------------------------
(* read_files. *)

\* The first line is read where none is asked for.
FirstLine(f) == AtLeast(f.start, 1)

ValidRequest(f) == f.end # 0 => f.end >= FirstLine(f) /\ f.end - FirstLine(f) + 1 <= FilesMaxLines

\* Mutant: the rest of the budget is used however small it is.
ReadNextNoFloor(sofar, f, budget) ==
  IF f.lines = NoPage THEN [sofar EXCEPT !.items = Append(@, NoPage)]
  ELSE LET page == TextRange(f.lines, FirstLine(f), f.end, FilesMaxLines, budget - sofar.returned)
       IN [sofar EXCEPT !.items = Append(@, page), !.returned = @ + page.used]

\* A file is read with what is left of the budget, unless that is less than a
\* read may ask for.
ReadNext(sofar, f, budget) ==
  LET left == budget - sofar.returned
  IN IF sofar.full \/ left < MinRead THEN [sofar EXCEPT !.full = TRUE, !.truncated = TRUE]
     ELSE IF f.lines = NoPage THEN [sofar EXCEPT !.items = Append(@, NoPage)]
     ELSE LET page == TextRange(f.lines, FirstLine(f), f.end, FilesMaxLines, left)
          IN [sofar EXCEPT !.items = Append(@, page), !.returned = @ + page.used,
                           !.truncated = @ \/ (Unread(page) /\ page.used = left)]

\* What was read after each number of files.
ReadSoFar(files, budget) ==
  LET sofar[n \in 0..Len(files)] ==
        IF n = 0 THEN [returned |-> 0, items |-> <<>>, truncated |-> FALSE, full |-> FALSE]
        ELSE ReadNext(sofar[n - 1], files[n], budget)
  IN sofar

ReadMany(files, budget) ==
  LET read == ReadSoFar(files, budget)[Len(files)]
  IN [returned |-> read.returned, items |-> read.items, truncated |-> read.truncated,
      budget |-> budget, remaining |-> Len(files) - Len(read.items)]

\* A call with a wrong number of files, range or budget, or with a path twice,
\* is refused as a whole.
ReadFiles(call) ==
  /\ Len(call.files) \in 1..MaxFiles /\ call.max \in FilesMinBytes..FilesMaxBytes
  /\ \A i \in DOMAIN call.files : ValidRequest(call.files[i])
  /\ answer' = ReadMany(call.files, call.max)
  /\ UNCHANGED <<asked, next, got, ended, batches>>

-----------------------------------------------------------------------------
\* A first page is asked for.
Ask(tool, arg, first) ==
  /\ asked' = [tool |-> tool, arg |-> arg]
  /\ next' = first /\ got' = <<>> /\ ended' = "more"
  /\ UNCHANGED <<batches, answer>>

\* The page that comes next is read.
Follow ==
  /\ asked # NoPage /\ next # NoPage
  /\ \/ asked.tool = "lines" /\ LinePage(asked.arg)
     \/ asked.tool = "list" /\ ListPage(asked.arg)
     \/ asked.tool = "diff" /\ DiffPage(asked.arg)

ReadingInit ==
  /\ asked = NoPage /\ next = NoPage /\ got = <<>> /\ ended = "more"
  /\ batches = <<>> /\ answer = NoPage

ReadingNext ==
  \/ /\ Idle
     /\ \/ \E arg \in LineReads : Ask("lines", arg, arg.start)
        \/ \E arg \in ListReads : Ask("list", arg, 0)
        \/ \E arg \in DiffReads : Ask("diff", arg, 0)
        \/ \E call \in FileReads : ReadFiles(call)
  \/ Follow

ReadingSpec == ReadingInit /\ [][ReadingNext]_readingVars

-----------------------------------------------------------------------------
(* Properties. *)

\* A line that exceeds a page, or leaves no room in it for the next one.
LeavesNoRoom(lines, n, bytes) ==
  /\ n \in DOMAIN lines
  /\ lines[n] > bytes \/ (n < Len(lines) /\ lines[n] + 1 + lines[n + 1] > bytes)

\* What the pages of one call have to add up to.
Whole ==
  CASE asked.tool = "lines" -> Len(asked.arg.lines)
    [] asked.tool = "list"  -> asked.arg.size
    [] asked.tool = "diff"  -> IF batches = <<>> THEN 0 ELSE Len(asked.arg.bytes)

\* Following the pages of a tool delivers everything once and in order: no line,
\* entry, commit or byte of a diff is skipped or repeated where one page ends
\* and the next begins, a character is never torn, and when nothing comes next
\* nothing is left.  The diff is that of every path once, in batches in the bounds
\* of a call (readTextRange, finishFindFilesPage, finishGitLogPage,
\* ListDirectory, GitDiff).  Four cases are excepted, no other: a page that holds
\* one line names no next one if that line exceeds it, and also if only the next
\* line finds no room, which a page of its own might hold (text.go:158); the last
\* offset and the last scanned entry are the end of a search or a log, as the page
\* says; and a byte of a diff that is not UTF-8 is never passed, the page before it
\* being empty and named as its own successor (git.go:530).
PagesAreWhole ==
  asked # NoPage =>
    LET arg == asked.arg
        before == IF asked.tool = "lines" THEN arg.start - 1 ELSE 0
        reached == before + Len(got)
    IN /\ got = Positions(before + 1, reached)
       /\ ended = "whole" => reached = AtLeast(Whole, before)
       /\ ended = "cut" => asked.tool = "lines" /\ LeavesNoRoom(arg.lines, reached, ReadBytes(0))
       /\ ended = "window" => asked.tool = "list" /\ arg.tool # "list" /\ reached > MaxOffset
       /\ ended = "scanned" => asked.tool = "list" /\ arg.tool = "find" /\ reached = FindEntries
       /\ ended = "stuck" => asked.tool = "diff" /\ arg.bytes[reached + 1] = "bad"
       /\ asked.tool = "diff" /\ next # NoPage /\ next > 0 => arg.bytes[next + 1] # "cont"
       /\ batches # <<>> => FlattenSeq(batches) = DiffPaths(arg.changes)
       /\ \A i \in DOMAIN batches :
            Len(batches[i]) = 1 \/ (Len(batches[i]) <= BatchCount /\ Len(batches[i]) * PathCost <= BatchBytes)

\* read_files answers "under one aggregate output budget" (tools_workspace.go),
\* and leaves nothing out without saying so: a file it did not come to is counted
\* and the answer is marked.
WithinBudget ==
  answer # NoPage =>
    /\ answer.returned <= answer.budget
    /\ answer.remaining > 0 => answer.truncated
=============================================================================
