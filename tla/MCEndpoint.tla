----------------------------- MODULE MCEndpoint -----------------------------
(* POSTs for TLC: single messages of every kind under every header, and      *)
(* batches of up to three.                                                   *)
EXTENDS McpEndpoint
CONSTANTS t1, t2, l1, l2

Msg(rpc, method, id, name, meta, wants) ==
  [rpc |-> rpc, method |-> method, id |-> id, name |-> name, meta |-> meta, wants |-> wants]

Metas == {Absent} \cup [version : {Absent, Modern, l1, Unknown, Malformed}, caps : {Absent, "object", Malformed}]
ToolCalls(ids, names, metas) == {Msg(TRUE, "tools/call", i, n, x, Absent) : i \in ids, n \in names, x \in metas}
Initializes(wants) == {Msg(TRUE, "initialize", 1, Absent, Absent, v) : v \in wants}

Singles ==
  ToolCalls({Absent, 1}, {t1, t2}, Metas) \cup Initializes({Absent, l2, Unknown})
  \cup {Msg(TRUE, "server/discover", 1, Absent, x, Absent) : x \in Metas}
  \cup {Msg(FALSE, "tools/call", 1, t1, Absent, Absent), Msg(TRUE, "ping", 1, Absent, Absent, Absent)}

VersionOnly(v) == [version |-> v, caps |-> "object"]
Batched ==
  ToolCalls({1}, {t1}, {Absent, VersionOnly(l1), VersionOnly(Modern)}) \cup ToolCalls({Absent}, {t1}, {Absent})
  \cup Initializes({l1, l2})

HeaderSets(versions, methods, names) == [version : versions, method : methods, name : names]
McpPosts ==
  [header : HeaderSets({Absent, Modern, l1, l2, Unknown, Repeated}, {Absent, "tools/call", "server/discover"}, {Absent, t1}),
   messages : {<<m>> : m \in Singles}, batch : {FALSE}]
  \cup [header : HeaderSets({Absent, l1, Modern}, {Absent, "tools/call"}, {Absent}),
        messages : {<<>>} \cup (Batched \X Batched) \cup (Batched \X Batched \X Batched), batch : {TRUE}]
=============================================================================
