-------------------------------- MODULE Paths --------------------------------
(***************************************************************************)
(* Which files the tools read (internal/workspace): a path a client asks   *)
(* for is made canonical, compared with the workspace's root and with the  *)
(* rules for sensitive files, and then opened; a listing passes over what  *)
(* is hidden.                                                              *)
(*                                                                         *)
(* A path is the sequence of its names from the top.  A file system is a   *)
(* function from the paths that exist to [kind, to]: "dir", "file", or     *)
(* "link" and the path it leads to.  A rule is [name, below, anchored,     *)
(* negated]: it is about the paths that end in that name, or, below, that  *)
(* go through it; anchored, only at the root of the workspace.             *)
(***************************************************************************)
EXTENDS Naturals, Sequences, SequencesExt, FiniteSetsExt

CONSTANTS
  Root,         \* the workspace's root, a canonical path
  FileSystems,
  Requested,    \* paths that are asked for: [absolute, names]
  Ignores,      \* sequences of rules an ignore file may hold
  Sensitive, Noise,  \* the rules that are built in
  MaxDepth,     \* levels of a listing
  MaxLinks,     \* links EvalSymlinks follows for one path, 255
  OpenLinks,    \* links the system follows when it opens one, 40 of Linux
  NoPath        \* a path that is refused or leads nowhere

\* Names from the top; what is in a directory is below it.
Path == Seq(STRING)
IsFileSystem(f) ==
  /\ DOMAIN f \subseteq Seq(STRING \ {".."})
  /\ \A p \in DOMAIN f :
       /\ f[p] \in [kind : {"dir", "file", "link"}, to : Path]
       /\ \A k \in 1..Len(p) - 1 : SubSeq(p, 1, k) \in DOMAIN f /\ f[SubSeq(p, 1, k)].kind = "dir"

ASSUME PathsAssumption ==
  /\ {MaxDepth, MaxLinks} \subseteq Nat /\ OpenLinks \in 0..MaxLinks /\ NoPath \notin Path
  /\ Requested \subseteq [absolute : BOOLEAN, names : Path]
  /\ \A f \in FileSystems : IsFileSystem(f) /\ Root \in DOMAIN f /\ f[Root].kind = "dir"

VARIABLES
  files,   \* the file system, NoPath before the call
  requested,  \* the path that was asked for
  ignore,  \* the rules of the ignore file
  found,   \* what the path was resolved to
  readFrom,  \* the file whose contents were read
  listed   \* the entries of the directory

pathsVars == <<files, requested, ignore, found, readFrom, listed>>

-----------------------------------------------------------------------------
(* The file system. *)

IsLink(f, p) == f[p].kind = "link"

\* How much of a path can be walked before something is missing, or a link.
Stops(f, p) == {k \in 1..Len(p) : SubSeq(p, 1, k) \notin DOMAIN f \/ IsLink(f, SubSeq(p, 1, k))}

\* The first link is followed from the top, the names after it from where it leads.
FollowLink(f, p) ==
  LET first == Min(Stops(f, p))
      link == SubSeq(p, 1, first)
  IN IF Stops(f, p) # {} /\ link \in DOMAIN f THEN f[link].to \o SubSeq(p, first + 1, Len(p)) ELSE p

\* What a path has become after each number of links.
Followed(f, p) ==
  LET after[n \in 0..MaxLinks] == IF n = 0 THEN p ELSE FollowLink(f, after[n - 1])
  IN after

\* filepath.EvalSymlinks
EvalSymlinks(f, p) ==
  LET end == Followed(f, p)[MaxLinks]
  IN IF Stops(f, end) = {} THEN end ELSE NoPath

\* filepath.Clean, of a path from the top.
Clean(names) ==
  LET clean[k \in 0..Len(names)] ==
        CASE k = 0 -> <<>>
          [] k > 0 /\ names[k] # ".." -> Append(clean[k - 1], names[k])
          [] OTHER -> SubSeq(clean[k - 1], 1, Len(clean[k - 1]) - 1)
  IN clean[Len(names)]

-----------------------------------------------------------------------------
(* Policy. *)

RuleMatches(rule, rel) ==
  \E i \in DOMAIN rel : /\ rel[i] = rule.name
                        /\ i = Len(rel) \/ rule.below
                        /\ rule.anchored => i = 1

\* The last rule that matches decides.
Matches(rules, rel) ==
  \E i \in DOMAIN rules : /\ RuleMatches(rules[i], rel) /\ ~rules[i].negated
                          /\ \A j \in i + 1..Len(rules) : ~RuleMatches(rules[j], rel)

\* Mutant: the rules of the ignore file continue those that are built in.
IsSensitiveTogether(custom, rel) == Matches(Sensitive \o custom, rel)

IsSensitive(custom, rel) == Matches(Sensitive, rel) \/ Matches(custom, rel)

IsHidden(custom, rel) == IsSensitive(custom, rel) \/ Matches(Noise, rel)

-----------------------------------------------------------------------------
(* Resolve, and the tools that start with it. *)

\* The part that exists is made canonical, the rest is kept as it is.
CanonicalizeDeepest(f, p) ==
  LET n == Max({k \in 0..Len(p) : EvalSymlinks(f, SubSeq(p, 1, k)) # NoPath})
  IN EvalSymlinks(f, SubSeq(p, 1, n)) \o SubSeq(p, n + 1, Len(p))

Inside(p) == IsPrefix(Root, p)
Relative(p) == SubSeq(p, Len(Root) + 1, Len(p))

Joined(q) == Clean(IF q.absolute THEN q.names ELSE Root \o q.names)

Resolve(f, custom, q) ==
  LET canonical == CanonicalizeDeepest(f, Joined(q))
  IN IF Inside(canonical) /\ ~IsSensitive(custom, Relative(canonical)) THEN canonical ELSE NoPath

\* What is opened is what the path leads to when the system follows it.
Opened(f, p) ==
  LET target == Followed(f, p)[OpenLinks]
  IN IF Stops(f, target) = {} THEN target ELSE NoPath

IsA(kind, f, p) == p # NoPath /\ Opened(f, p) # NoPath /\ f[Opened(f, p)].kind = kind

\* Only a regular file is read.
TextFile(f, p) == IF IsA("file", f, p) THEN Opened(f, p) ELSE NoPath

\* Below a directory nothing hidden is entered or shown, and no link.  What is
\* in the directory is shown under the name the directory was resolved to.
Walk(f, custom, dir, name) ==
  LET Shown(p) == name \o SubSeq(p, Len(dir) + 1, Len(p))
      Below(p) == {SubSeq(p, 1, k) : k \in Len(dir) + 1..Len(p)}
  IN {Shown(p) : p \in {e \in DOMAIN f :
        /\ IsStrictPrefix(dir, e) /\ Len(e) <= Len(dir) + MaxDepth
        /\ \A b \in Below(e) : ~IsHidden(custom, Relative(Shown(b))) /\ ~IsLink(f, b)}}

Lookup(f, custom, q) ==
  /\ files' = f /\ requested' = q /\ ignore' = custom
  /\ found' = Resolve(f, custom, q)
  /\ readFrom' = TextFile(f, found')
  /\ listed' = IF IsA("dir", f, found') THEN Walk(f, custom, Opened(f, found'), found') ELSE {}

PathsInit == files = NoPath /\ requested = NoPath /\ ignore = <<>> /\ found = NoPath /\ readFrom = NoPath /\ listed = {}

PathsNext == files = NoPath /\ \E f \in FileSystems, custom \in Ignores, q \in Requested : Lookup(f, custom, q)

PathsSpec == PathsInit /\ [][PathsNext]_pathsVars

-----------------------------------------------------------------------------
(* Properties. *)

\* Every link of the path is within the limit: what a part of it leads to counted
\* from a later link, it leads to counted from its beginning.
LinksSuffice(f, p) ==
  \A k \in 1..Len(p), n \in 0..MaxLinks :
    EvalSymlinks(f, Followed(f, SubSeq(p, 1, k))[n]) # NoPath => EvalSymlinks(f, SubSeq(p, 1, k)) # NoPath

\* Whatever links there are, to files or directories, inside or outside, to each
\* other or to nothing: what is read is the very file the answer names, it is
\* inside the workspace, and no rule of either kind hides it, where "a custom
\* negation can never make a built-in credential pattern readable" (Policy); and
\* whatever a listing shows can be asked for under the name it shows.  One case is
\* left out, where it fails: a path that leads somewhere, but over more links than
\* EvalSymlinks follows, which Resolve takes for an absent one.
ReadsAreConfined ==
  files # NoPath /\ LinksSuffice(files, Joined(requested)) =>
    /\ readFrom # NoPath => /\ readFrom = found /\ Inside(readFrom)
                          /\ ~Matches(Sensitive, Relative(readFrom)) /\ ~Matches(ignore, Relative(readFrom))
    /\ \A p \in listed : Resolve(files, ignore, [absolute |-> FALSE, names |-> Relative(p)]) = p
=============================================================================
