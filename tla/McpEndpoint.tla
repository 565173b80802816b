---------------------------- MODULE McpEndpoint ----------------------------
(***************************************************************************)
(* One POST to the MCP endpoint (internal/mcp): a JSON-RPC message, or a   *)
(* batch of them, is validated against the headers it came with, given a   *)
(* protocol version, and dispatched message by message; a tool that is     *)
(* called runs before the next message is looked at.                       *)
(*                                                                         *)
(* A protocol version is modern, legacy, or Unknown; a header is absent    *)
(* (Absent), repeated (Repeated), or has a value, which for Mcp-Name is    *)
(* the decoded one.  A body field that does not parse is Malformed.        *)
(***************************************************************************)
EXTENDS Naturals, Sequences, SequencesExt

CONSTANTS
  Tools,         \* registered tools
  Permitted,     \* tools whose scope the token has
  Modern,        \* the modern protocol version
  Legacy,        \* the legacy versions
  LatestLegacy,  \* offered when initialize asks for something else
  OldestLegacy,  \* assumed when nothing was negotiated
  Unknown,       \* a version that is not supported
  Absent, Repeated, Malformed,
  Posts          \* the POSTs that may arrive: [header, messages, batch]

ASSUME McpAssumption ==
  /\ Permitted \subseteq Tools
  /\ {LatestLegacy, OldestLegacy} \subseteq Legacy
  /\ \A p \in Posts : ~p.batch => Len(p.messages) = 1
  /\ Absent \notin Posts
  /\ Modern \notin Legacy /\ {Unknown, Absent, Repeated, Malformed} \cap (Legacy \cup {Modern}) = {}

VARIABLES
  post,       \* the POST that is handled, Absent before it arrives
  at,         \* the message that is next
  selected,   \* the version of the batch so far
  ran,        \* the calls of tools that ran: [message, tool, version]
  answers,    \* messages answered so far, in order
  httpStatus  \* HTTP status, 0 while the POST is handled

mcpVars == <<post, at, selected, ran, answers, httpStatus>>

-----------------------------------------------------------------------------
(* Validation of one message against the headers of its POST. *)

\* meta is [version, caps]: params._meta, its version and its capabilities,
\* each of them Absent or Malformed if it is; Absent altogether without _meta.
MetaVersion(m) ==
  IF m.meta = Absent \/ m.meta.version = Malformed THEN Absent ELSE m.meta.version

WellFormed(m) == m.meta = Absent \/ Malformed \notin {m.meta.version, m.meta.caps}

Named(m) == m.method \in {"tools/call", "prompts/get", "resources/read"}

\* Mutant: the version in the body does not count.
HeaderIntent(h, m) ==
  m.method = "server/discover" \/ h.version \notin Legacy \cup {Absent}

\* A repeated header is refused on either side of this.
ModernIntent(h, m) ==
  \/ m.method = "server/discover"
  \/ ~({h.version, MetaVersion(m)} \subseteq Legacy \cup {Absent})

ValidModern(h, m) ==
  /\ m.meta # Absent /\ WellFormed(m)
  /\ m.meta.caps # Absent
  /\ m.meta.version = Modern /\ h.version = Modern
  /\ h.method = m.method
  /\ IF Named(m) THEN m.name # Absent /\ h.name = m.name ELSE h.name = Absent

ValidLegacy(h, m) ==
  /\ h.method \in {Absent, m.method}
  /\ h.name # Absent => Named(m) /\ h.name = m.name

Valid(h, m) ==
  /\ Repeated \notin {h.version, h.method, h.name}
  /\ IF ModernIntent(h, m) THEN ValidModern(h, m) ELSE ValidLegacy(h, m)

\* The version a valid legacy message is handled under: the first source that
\* names a legacy version, and the metadata only if all of it parses.
LegacyVersion(h, m) ==
  LET asked == IF m.method = "initialize" THEN m.wants ELSE Absent
      inMeta == IF WellFormed(m) THEN MetaVersion(m) ELSE Absent
  IN CASE asked \in Legacy -> asked
       [] asked \notin Legacy /\ h.version \in Legacy -> h.version
       [] {asked, h.version} \cap Legacy = {} /\ inMeta \in Legacy -> inMeta
       [] OTHER -> IF asked # Absent THEN LatestLegacy ELSE OldestLegacy

Version(h, m) == IF ModernIntent(h, m) THEN Modern ELSE LegacyVersion(h, m)

-----------------------------------------------------------------------------
(* Dispatch.  A message is [rpc, method, id, name, meta, wants]; rpc says    *)
(* that it is JSON-RPC 2.0 with a method.                                    *)

IsNotification(m) == m.rpc /\ m.id = Absent

Runs(m) == m.rpc /\ ~IsNotification(m) /\ m.method = "tools/call" /\ m.name \in Permitted

\* The methods that succeed under a modern version; under a legacy one an
\* error does not show in the HTTP status.
ModernMethods == {"server/discover", "tools/list", "tools/call"}

ModernStatus(m) ==
  IF ~m.rpc \/ (m.method = "tools/call" /\ m.name \notin Tools) THEN 400
  ELSE IF m.method \in ModernMethods THEN 200 ELSE 404

Dispatch(m, v) ==
  /\ ran' = IF Runs(m) THEN ran \cup {[message |-> at, tool |-> m.name, version |-> v]} ELSE ran
  /\ answers' = IF IsNotification(m) THEN answers ELSE Append(answers, at)

-----------------------------------------------------------------------------
(* The handler. *)

Handling == post # Absent /\ httpStatus = 0
Message == post.messages[at]

Receive(p) ==
  /\ post' = p
  /\ UNCHANGED <<at, selected, ran, answers, httpStatus>>

\* What a batch is refused for before any message of it is looked at.
BatchHeader(h) ==
  \/ h.version \notin Legacy \cup {Absent}
  \/ h.method # Absent \/ h.name # Absent

RefuseBatch ==
  /\ Handling /\ at = 1 /\ post.batch
  /\ post.messages = <<>> \/ BatchHeader(post.header)
  /\ httpStatus' = 400
  /\ UNCHANGED <<post, at, selected, ran, answers>>

Refused(h, m) ==
  \/ ~Valid(h, m)
  \/ post.batch /\ (ModernIntent(h, m) \/ selected \notin {Absent, Version(h, m)})

Ready == Handling /\ at <= Len(post.messages) /\ ~(post.batch /\ BatchHeader(post.header))

\* A message that is refused ends the POST; a batch's answers so far are dropped.
RefuseMessage ==
  /\ Ready /\ Refused(post.header, Message)
  /\ httpStatus' = 400
  /\ answers' = <<>>
  /\ UNCHANGED <<post, at, selected, ran>>

Handle ==
  /\ Ready /\ ~Refused(post.header, Message)
  /\ selected' = Version(post.header, Message)
  /\ Dispatch(Message, selected')
  /\ at' = at + 1
  /\ UNCHANGED <<post, httpStatus>>

Reply ==
  /\ Handling /\ at > 1 /\ at > Len(post.messages)
  /\ httpStatus' = IF answers = <<>> THEN 202
               ELSE IF selected = Modern THEN ModernStatus(post.messages[1]) ELSE 200
  /\ UNCHANGED <<post, at, selected, ran, answers>>

McpInit ==
  /\ post = Absent /\ at = 1 /\ selected = Absent
  /\ ran = {} /\ answers = <<>> /\ httpStatus = 0

McpNext == (post = Absent /\ \E p \in Posts : Receive(p)) \/ RefuseBatch \/ RefuseMessage \/ Handle \/ Reply

McpSpec == McpInit /\ [][McpNext]_mcpVars

-----------------------------------------------------------------------------
(* Properties. *)

\* No tool runs on the word of one source that another contradicts: a call runs
\* under a modern version only if headers and body agree on version, method and
\* tool, under a legacy version only if neither names a version of another era
\* and a header that is given names this call ("two sources of truth" in
\* validateHTTPRequest); and the calls of one POST run under one version, however
\* many messages of a batch come between them (handleLegacyBatch).
SourcesAgree ==
  \A r \in ran :
    LET m == post.messages[r.message]
        h == post.header
    IN /\ h.method \in {Absent, "tools/call"} /\ h.name \in {Absent, r.tool}
       /\ IF r.version = Modern
          THEN /\ h.version = Modern /\ MetaVersion(m) = Modern
               /\ h.method = "tools/call" /\ h.name = r.tool
          ELSE {h.version, MetaVersion(m)} \subseteq Legacy \cup {Absent}
       /\ \A q \in ran : q.version = r.version
=============================================================================
