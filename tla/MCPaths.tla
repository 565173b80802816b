------------------------------- MODULE MCPaths -------------------------------
(* File systems for TLC: two entries of the workspace, and one below, that   *)
(* are absent, a file, a directory or a link to any place.                   *)
EXTENDS Paths

Node(kind) == [kind |-> kind, to |-> <<>>]
Named1(p, node) == IF node.kind = "absent" THEN <<>> ELSE p :> node

Places == {<<"w">>, <<"o">>, <<"o", "k">>, <<"w", "a">>, <<"w", "b">>, <<"w", "s">>, <<"w", "k">>, <<"w", "z">>, <<"w", "a", "b">>}
LinkTo(p) == [kind |-> "link", to |-> p]
Nodes == {Node("absent"), Node("file")} \cup {LinkTo(p) : p \in Places}

Fixed ==
  [p \in {<<"w">>, <<"o">>, <<"w", "s">>, <<"w", "n">>, <<"w", "l">>} |-> Node("dir")]
  @@ [p \in {<<"o", "k">>, <<"w", "k">>, <<"w", "s", "x">>, <<"w", "n", "x">>} |-> Node("file")]
  @@ <<"w", "c">> :> LinkTo(<<"w", "d">>) @@ <<"w", "d">> :> LinkTo(<<"w", "e">>)
  @@ <<"w", "e">> :> LinkTo(<<"w", "l">>) @@ <<"w", "l", "x">> :> LinkTo(<<"w", "b">>)

PathsFiles ==
  {Fixed @@ Named1(<<"w", "b">>, b) @@ Named1(<<"w", "a">>, a)
         @@ Named1(<<"w", "a", "b">>, IF a.kind = "dir" THEN below ELSE Node("absent")) :
     a \in Nodes \cup {Node("dir")}, b \in Nodes \cup {Node("dir")}, below \in Nodes}

Rule(name, below, anchored, negated) == [name |-> name, below |-> below, anchored |-> anchored, negated |-> negated]

PathsSensitive == <<Rule("k", FALSE, FALSE, FALSE), Rule("s", TRUE, FALSE, FALSE)>>
PathsNoise == <<Rule("n", TRUE, FALSE, FALSE)>>
PathsIgnores ==
  {<<>>, <<Rule("k", FALSE, FALSE, TRUE), Rule("s", TRUE, FALSE, TRUE)>>,
   <<Rule("b", FALSE, FALSE, FALSE), Rule("b", FALSE, TRUE, TRUE)>>, <<Rule("a", TRUE, FALSE, FALSE), Rule("b", FALSE, FALSE, TRUE)>>}

PathsRequested ==
  [absolute : {FALSE},
   names : {<<>>, <<"a">>, <<"b">>, <<"a", "b">>, <<"b", "a">>, <<"b", "b">>, <<"b", "x">>, <<"a", "..", "b">>, <<"..", "o", "k">>, <<"k">>, <<"n", "x">>, <<"c">>, <<"c", "x">>, <<"e", "x">>}]
  \cup [absolute : {TRUE}, names : {<<"w", "a">>, <<"w", "b", "k">>, <<"o", "k">>, <<"..", "w", "a", "b">>}]
PathsRoot == <<"w">>

\* Why ReadsAreConfined needs LinksSuffice: over a chain of more than MaxLinks links
\* a file outside the workspace is read, under the name of an entry inside.
ASSUME LongChainLeaves ==
  \E f \in FileSystems, q \in Requested :
    LET named == Resolve(f, <<>>, q)
    IN TextFile(f, named) # NoPath /\ Inside(named) /\ ~Inside(TextFile(f, named))
=============================================================================
