--------------------------- MODULE ClientMetadata ---------------------------
(***************************************************************************)
(* Clients that are named by the URL of their metadata                     *)
(* (internal/auth/client_metadata.go): Resolve answers from a bounded      *)
(* cache or fetches the document, with the lock released during the fetch. *)
(*                                                                         *)
(* A document is [client, sound, supported, preferred, keys]: the          *)
(* client_id it states, whether its redirects, grant and response types,   *)
(* application type, name and sizes are acceptable, the authentication     *)
(* methods it lists and the one it prefers, and whether it names RS256 and *)
(* a key set on its own host.  The copy that is served is known by the     *)
(* moment it was served at.                                                *)
(***************************************************************************)
EXTENDS Naturals, FiniteSets

CONSTANTS
  Urls,        \* client identifiers that are metadata URLs
  Resolvers,   \* calls of Resolve
  Documents,   \* documents the hosts may serve
  MaxEntries,  \* entries of the cache
  CacheTTL,
  FetchTimeout,
  NoMethod,    \* a method that is not stated
  Nothing,     \* absence of an entry, a call or a document
  MaxMoment    \* bound on the clock

ASSUME MetadataAssumption ==
  /\ {MaxEntries, CacheTTL} \subseteq Nat \ {0}
  /\ {FetchTimeout, MaxMoment} \subseteq Nat

VARIABLES
  cache,     \* per URL: [served, expires, used] or Nothing
  fetch,     \* per call: [url, began, served] or Nothing
  moment,    \* the clock
  resolved   \* history: the last answer: [url, served, at]

metadataVars == <<cache, fetch, moment, resolved>>

-----------------------------------------------------------------------------
(* ClientMetadata.normalized. *)

Method(d) ==
  IF d.preferred # NoMethod THEN d.preferred
  ELSE IF d.supported = {} \/ "none" \in d.supported THEN "none" ELSE NoMethod

Normalizes(d) ==
  /\ d.sound
  /\ d.supported # {} => Method(d) \in d.supported
  /\ Method(d) \in {"none", "private_key_jwt"}
  /\ Method(d) = "private_key_jwt" => d.keys

-----------------------------------------------------------------------------
(* Resolve. *)

EntryOver(e) == moment >= e.expires
LivingEntries(c) == [u \in Urls |-> IF c[u] # Nothing /\ ~EntryOver(c[u]) THEN c[u] ELSE Nothing]
Entries(c) == {u \in Urls : c[u] # Nothing}

\* Mutant: an answer from the cache prolongs the entry.
TouchLonger(c, u) == [c EXCEPT ![u] = [@ EXCEPT !.used = moment, !.expires = moment + CacheTTL]]

Touch(c, u) == [c EXCEPT ![u] = [@ EXCEPT !.used = moment]]

ResolveStart(r, u) ==
  /\ fetch[r] = Nothing
  /\ IF LivingEntries(cache)[u] # Nothing
     THEN /\ cache' = Touch(LivingEntries(cache), u)
          /\ resolved' = [url |-> u, served |-> cache[u].served, at |-> moment]
          /\ UNCHANGED fetch
     ELSE /\ cache' = LivingEntries(cache)
          /\ fetch' = [fetch EXCEPT ![r] = [url |-> u, began |-> Nothing, served |-> Nothing]]
          /\ UNCHANGED resolved
  /\ UNCHANGED moment

\* The name has been resolved, to public addresses only; the request goes out.
Dial(r) ==
  /\ fetch[r] # Nothing /\ fetch[r].began = Nothing
  /\ fetch' = [fetch EXCEPT ![r].began = moment]
  /\ UNCHANGED <<cache, moment, resolved>>

\* The host answers; a document that is not acceptable ends the call.
ServeDocument(r, d) ==
  /\ fetch[r] # Nothing /\ fetch[r].began # Nothing /\ fetch[r].served = Nothing
  /\ fetch' = [fetch EXCEPT ![r] = IF Normalizes(d) /\ d.client = fetch[r].url
                                   THEN [@ EXCEPT !.served = moment]
                                   ELSE Nothing]
  /\ UNCHANGED <<cache, moment, resolved>>

\* The least recently used entry makes room, whether or not this URL has one.
Victims(c) == {u \in Entries(c) : \A v \in Entries(c) : c[u].used <= c[v].used}

Evicted(c) ==
  IF Cardinality(Entries(c)) < MaxEntries THEN {c} ELSE {[c EXCEPT ![u] = Nothing] : u \in Victims(c)}

ResolveEnd(r) ==
  /\ fetch[r] # Nothing /\ fetch[r].served # Nothing
  /\ LET f == fetch[r]
         entry == [served |-> f.served, expires |-> moment + CacheTTL, used |-> moment]
     IN /\ \E c \in Evicted(LivingEntries(cache)) : cache' = [c EXCEPT ![f.url] = entry]
        /\ resolved' = [url |-> f.url, served |-> f.served, at |-> moment]
  /\ fetch' = [fetch EXCEPT ![r] = Nothing]
  /\ UNCHANGED moment

\* The host has no public address, does not answer, or not in time.
FetchFails(r) ==
  /\ fetch[r] # Nothing
  /\ fetch' = [fetch EXCEPT ![r] = Nothing]
  /\ UNCHANGED <<cache, moment, resolved>>

Dialled == {r \in Resolvers : fetch[r] # Nothing /\ fetch[r].began # Nothing}

\* The client gives up after its timeout.
MetadataTick ==
  /\ moment < MaxMoment
  /\ \A r \in Dialled : moment < fetch[r].began + FetchTimeout
  /\ moment' = moment + 1
  /\ UNCHANGED <<cache, fetch, resolved>>

MetadataInit ==
  /\ cache = [u \in Urls |-> Nothing]
  /\ fetch = [r \in Resolvers |-> Nothing]
  /\ moment = 0
  /\ resolved = Nothing

MetadataNext ==
  \/ \E r \in Resolvers : \/ \E u \in Urls : ResolveStart(r, u)
                          \/ \E d \in Documents : ServeDocument(r, d)
                          \/ Dial(r) \/ ResolveEnd(r) \/ FetchFails(r)
  \/ MetadataTick

MetadataSpec == MetadataInit /\ [][MetadataNext]_metadataVars

-----------------------------------------------------------------------------
(* Properties. *)

\* A client is trusted on a document its host served recently: however often and
\* by how many calls at once it is asked for, the answer is no older than the
\* life of an entry and the fetch that made it, and the table stays bounded.
ResolvedIsRecent ==
  /\ resolved # Nothing => resolved.at - resolved.served < CacheTTL + FetchTimeout
  /\ Cardinality(Entries(cache)) <= MaxEntries
=============================================================================
