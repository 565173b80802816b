----------------------------- MODULE MCRequests -----------------------------
(* What a bridge does for its clients and commands, in the parts that share  *)
(* no state, each explored alone: a behaviour is one of one part.            *)
EXTENDS OAuthServer, RequestLimiter, ClientMetadata, ClientAssertion, MCEndpoint, MCReading, MCPaths, Setup, Provision, Records

CONSTANTS u1, u2, u3, k1, k2
VARIABLE part

\* Every host serves a document of its own; one also serves one it is refused for.
ServedBy(u, supported) ==
  [client |-> u, sound |-> TRUE, supported |-> supported, preferred |-> NoMethod, keys |-> FALSE]
ClientDocuments == {ServedBy(u, {}) : u \in Urls} \cup {ServedBy(u1, {"other"})}

\* One record is longer than a line may be; the others fit, even joined.
RecordSizes == [id \in RecordIds |-> IF id = 3 THEN [head |-> 2, tail |-> 2] ELSE [head |-> 1, tail |-> 1]]

SignedAssertions == {[id |-> 1, key |-> k1, expires |-> 2], [id |-> 2, key |-> k2, expires |-> 3]}

partsVars ==
  <<part, vars, limiterVars, metadataVars, assertionVars, mcpVars, readingVars, pathsVars, setupVars, provisionVars, recordVars>>

PartsInit ==
  /\ part \in {"oauth", "limiter", "metadata", "assertion", "mcp", "reading", "paths", "setup", "provision", "records"}
  /\ Init /\ LimiterInit /\ MetadataInit /\ AssertionInit /\ McpInit /\ ReadingInit
  /\ PathsInit /\ SetupInit /\ ProvisionInit /\ RecordsInit
  /\ part # "assertion" => published = {k1}

\* A request that has been answered; the other parts never stop.
Answered ==
  \/ part = "mcp" /\ httpStatus # 0
  \/ part = "paths" /\ files # NoPath
  \/ part = "reading" /\ (answer # NoPage \/ (asked # NoPage /\ next = NoPage))

PartsNext ==
  \/ /\ part = "oauth" /\ Next
     /\ UNCHANGED <<part, limiterVars, metadataVars, assertionVars, mcpVars, readingVars, pathsVars, setupVars, provisionVars, recordVars>>
  \/ /\ part = "limiter" /\ LimiterNext
     /\ UNCHANGED <<part, vars, metadataVars, assertionVars, mcpVars, readingVars, pathsVars, setupVars, provisionVars, recordVars>>
  \/ /\ part = "metadata" /\ MetadataNext
     /\ UNCHANGED <<part, vars, limiterVars, assertionVars, mcpVars, readingVars, pathsVars, setupVars, provisionVars, recordVars>>
  \/ /\ part = "assertion" /\ AssertionNext
     /\ UNCHANGED <<part, vars, limiterVars, metadataVars, mcpVars, readingVars, pathsVars, setupVars, provisionVars, recordVars>>
  \/ /\ part = "mcp" /\ McpNext
     /\ UNCHANGED <<part, vars, limiterVars, metadataVars, assertionVars, readingVars, pathsVars, setupVars, provisionVars, recordVars>>
  \/ /\ part = "reading" /\ ReadingNext
     /\ UNCHANGED <<part, vars, limiterVars, metadataVars, assertionVars, mcpVars, pathsVars, setupVars, provisionVars, recordVars>>
  \/ /\ part = "paths" /\ PathsNext
     /\ UNCHANGED <<part, vars, limiterVars, metadataVars, assertionVars, mcpVars, readingVars, setupVars, provisionVars, recordVars>>
  \/ /\ part = "setup" /\ SetupNext
     /\ UNCHANGED <<part, vars, limiterVars, metadataVars, assertionVars, mcpVars, readingVars, pathsVars, provisionVars, recordVars>>
  \/ /\ part = "provision" /\ ProvisionNext
     /\ UNCHANGED <<part, vars, limiterVars, metadataVars, assertionVars, mcpVars, readingVars, pathsVars, setupVars, recordVars>>
  \/ /\ part = "records" /\ RecordsNext
     /\ UNCHANGED <<part, vars, limiterVars, metadataVars, assertionVars, mcpVars, readingVars, pathsVars, setupVars, provisionVars>>
  \/ Answered /\ UNCHANGED partsVars

PartsSpec == PartsInit /\ [][PartsNext]_partsVars
=============================================================================
