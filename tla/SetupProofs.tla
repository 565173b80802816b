---------------------------- MODULE SetupProofs -----------------------------
(***************************************************************************)
(* What a setup reports, replaces and shows, for any set of public URLs;   *)
(* and that a saved named tunnel exists, for any workspaces, hostnames and *)
(* number of commands.                                                     *)
(***************************************************************************)
EXTENDS Setup, Provision, TLAPS

Urls == PublicUrls \cup {LocalUrl}

Runs ==
  [stage : {"info", "status", "stop", "start", "publish", "audience", "url", "count", "read", "revoke", "write", "session"},
   local : BOOLEAN, reconnect : BOOLEAN, info : PublicUrls \cup {NoUrl}, public : PublicUrls \cup {NoUrl},
   audience : Urls \cup {NoUrl}, stopped : BOOLEAN, action : {"none", "create", "update"},
   authorized : BOOLEAN, reached : BOOLEAN, had : BOOLEAN, crossed : BOOLEAN]

SetupTypeOK ==
  /\ tunnel \in PublicUrls \cup {NoUrl} /\ remembered \in PublicUrls \cup {NoUrl}
  /\ handlers \in [Others -> PublicUrls \cup {NoUrl, "idle"}]
  /\ endpoint \in Urls \cup {NoUrl}
  /\ run \in Runs \cup {NoUrl}

\* What a run that did not stop the tunnel, and was not crossed, knows of the
\* bridge's URL: what it has read is still so, the second look finds a URL
\* unless the run is local and has seen none, and the tokens are counted for the
\* URL that is found.
UrlKnown ==
  run # NoUrl /\ run.reached /\ ~run.stopped /\ ~run.crossed =>
    /\ run.stage \in {"status", "start"} => run.info = remembered
    /\ run.stage = "publish" => run.public # NoUrl
    /\ run.stage \in {"audience", "url"} => remembered # NoUrl \/ (run.local /\ run.info = NoUrl)
    /\ run.stage = "url" => run.audience = Audience
    /\ run.stage = "count" => run.audience = McpUrl(run.public)

\* A run takes a connection for authorized only if it is one to its own URL, or
\* the run stopped the tunnel or was crossed.
AuthorizedIsOwn ==
  AtStage("read") \/ AtStage("revoke") \/ AtStage("write") \/ AtStage("session") => 
    (run.authorized => run.had \/ run.stopped \/ run.crossed)

\* When the endpoint is about to be replaced by another, nothing of the old
\* connection is left: no token, and no code whose page shows it.
NothingOld ==
  AtStage("write") =>
    \/ endpoint \in {NoUrl, McpUrl(run.public)}
    \/ (\A t \in granted : ~t.old) /\ opened # "page"

\* A page is made for the endpoint that was just saved.
PageHasEndpoint ==
  /\ opened = "page" => endpoint # NoUrl
  /\ AtStage("session") => endpoint = McpUrl(run.public)

SetupIInv ==
  /\ SetupTypeOK /\ UrlKnown /\ AuthorizedIsOwn /\ NothingOld /\ PageHasEndpoint
  /\ NoFalseConnection /\ PageIsOfEndpoint

\* A URL is never the absence of one.
LEMMA McpUrlReal == ASSUME NEW u \in PublicUrls \cup {NoUrl} PROVE McpUrl(u) \in Urls /\ McpUrl(u) # NoUrl
  BY SetupAssumption DEF McpUrl, Urls

LEMMA SetupInitHolds == SetupInit => SetupIInv
  BY SetupAssumption DEF SetupInit, NoHandlers, SetupIInv, SetupTypeOK, UrlKnown, AuthorizedIsOwn, NothingOld,
         PageHasEndpoint, NoFalseConnection, PageIsOfEndpoint, AtStage, Calls

\* A run that goes on before it has counted: nothing is promised of it yet but
\* that it is a run, and knows the URL.
LEMMA EarlyRun ==
  ASSUME SetupIInv, run' \in Runs, tunnel' \in PublicUrls \cup {NoUrl}, remembered' \in PublicUrls \cup {NoUrl},
         run'.stage \in {"info", "status", "stop", "start", "publish", "audience", "url", "count"}, UrlKnown',
         UNCHANGED <<handlers, granted, opened, page, endpoint>>, outcome' = outcome \/ outcome' = NoUrl
  PROVE  SetupIInv'
  BY DEF SetupIInv, SetupTypeOK, AtStage, AuthorizedIsOwn, NothingOld, PageHasEndpoint, NoFalseConnection,
         PageIsOfEndpoint

LEMMA SetupNextHolds == SetupIInv /\ [SetupNext]_setupVars => SetupIInv'
<1> SUFFICES ASSUME SetupIInv, [SetupNext]_setupVars PROVE SetupIInv'
  OBVIOUS
<1> USE DEF SetupIInv, AtStage, Calls, Goto, bridge
<1>1. ASSUME NEW local \in BOOLEAN, NEW reconnect \in BOOLEAN, EnsureBridge(local, reconnect) PROVE SetupIInv'
  <2>1. run' \in Runs /\ run'.stage = "info" BY <1>1 DEF EnsureBridge, Runs
  <2>2. UrlKnown' BY <2>1 DEF UrlKnown
  <2> QED BY <1>1, <2>1, <2>2, EarlyRun DEF EnsureBridge, SetupTypeOK
<1>2. CASE ReadPublic
  <2>1. run \in Runs /\ remembered \in PublicUrls \cup {NoUrl} BY <1>2 DEF ReadPublic, SetupTypeOK
  <2>2. run' \in Runs /\ run'.stage = "status" /\ run'.info = remembered BY <1>2, <2>1 DEF ReadPublic, Runs
  <2>3. UrlKnown' BY <1>2, <2>2 DEF ReadPublic, UrlKnown
  <2> QED BY <1>2, <2>2, <2>3, EarlyRun DEF ReadPublic, SetupTypeOK
<1>3. CASE ReadTunnel
  <2> DEFINE public == IF run.info # NoUrl THEN run.info ELSE tunnel
             crossed == run.crossed \/ (run.info = NoUrl /\ tunnel # NoUrl)
             stage == IF run.local THEN IF tunnel # NoUrl THEN "stop" ELSE "audience"
                      ELSE IF tunnel = NoUrl THEN "start" ELSE "audience"
  <2>1. /\ run \in Runs /\ run # NoUrl /\ run.reached /\ run.stage = "status"
        /\ tunnel \in PublicUrls \cup {NoUrl}
    BY <1>3 DEF ReadTunnel, SetupTypeOK
  <2>2. /\ public \in PublicUrls \cup {NoUrl} /\ crossed \in BOOLEAN /\ stage \in {"stop", "start", "audience"}
        /\ run.crossed => crossed
        /\ ~crossed => run.info # NoUrl \/ tunnel = NoUrl
        /\ stage = "audience" => (run.local /\ tunnel = NoUrl) \/ (~run.local /\ tunnel # NoUrl)
    BY <2>1 DEF Runs
  <2>3. run' = [run EXCEPT !.public = public, !.crossed = crossed, !.stage = stage] BY <1>3 DEF ReadTunnel
  <2> HIDE DEF public, crossed, stage
  <2>4. /\ run' \in Runs /\ run'.stage = stage /\ run'.crossed = crossed /\ run'.public = public
        /\ run'.info = run.info /\ run'.local = run.local /\ run'.stopped = run.stopped
    BY <2>1, <2>2, <2>3 DEF Runs
  <2>5. UrlKnown' BY <1>3, <2>1, <2>2, <2>4 DEF ReadTunnel, UrlKnown
  <2> QED BY <1>3, <2>2, <2>4, <2>5, EarlyRun DEF ReadTunnel, SetupTypeOK
<1>4. CASE StopTunnel \/ RunTunnel
  <2>1. /\ run \in Runs /\ tunnel' \in PublicUrls \cup {NoUrl}
        /\ RunTunnel => tunnel' \in PublicUrls
    BY <1>4 DEF StopTunnel, RunTunnel, StartTunnel, SetupTypeOK
  <2>2. run' \in Runs /\ run'.stage = "publish" /\ (run'.stopped \/ run'.public # NoUrl)
    <3>1. CASE StopTunnel BY <2>1, <3>1 DEF StopTunnel, Runs
    <3>2. CASE RunTunnel BY <2>1, <3>2, SetupAssumption DEF RunTunnel, Runs
    <3> QED BY <1>4, <3>1, <3>2
  <2>3. UrlKnown' BY <2>2 DEF UrlKnown
  <2> QED BY <1>4, <2>1, <2>2, <2>3, EarlyRun DEF StopTunnel, RunTunnel, SetupTypeOK
<1>5. CASE RunPublishes
  <2>1. run \in Runs /\ remembered' = run.public BY <1>5 DEF RunPublishes, SetupTypeOK
  <2>2. /\ run' \in Runs /\ run'.stage = "audience" /\ run'.stopped = run.stopped /\ run'.crossed = run.crossed
        /\ run.public \in PublicUrls \cup {NoUrl}
    BY <1>5, <2>1 DEF RunPublishes, Runs
  <2>3. UrlKnown' BY <1>5, <2>1, <2>2 DEF RunPublishes, UrlKnown
  <2> QED BY <1>5, <2>1, <2>2, <2>3, EarlyRun DEF RunPublishes, SetupTypeOK
<1>18. CASE RereadAudience
  <2>1. run \in Runs /\ run # NoUrl /\ Audience \in Urls
    BY <1>18, McpUrlReal DEF RereadAudience, SetupTypeOK, Audience
  <2>2. /\ run' \in Runs /\ run'.stage = "url" /\ run'.audience = Audience /\ run'.stopped = run.stopped
        /\ run'.crossed = run.crossed /\ run'.local = run.local /\ run'.info = run.info
    <3> DEFINE own == Audience
    <3>1. own \in Urls /\ run' = [run EXCEPT !.audience = own, !.stage = "url"] BY <1>18, <2>1 DEF RereadAudience
    <3> HIDE DEF own
    <3>2. /\ run' \in Runs /\ run'.stage = "url" /\ run'.audience = own /\ run'.stopped = run.stopped
          /\ run'.crossed = run.crossed /\ run'.local = run.local /\ run'.info = run.info
      BY <2>1, <3>1 DEF Runs
    <3> QED BY <3>2 DEF own
  <2>3. Audience' = Audience BY <1>18 DEF RereadAudience, Audience, McpUrl
  <2>4. UrlKnown' BY <1>18, <2>1, <2>2, <2>3 DEF RereadAudience, UrlKnown
  <2> QED BY <1>18, <2>2, <2>4, EarlyRun DEF RereadAudience, SetupTypeOK
<1>19. CASE RereadUrl
  <2> DEFINE public == IF InfoUrl # NoUrl THEN InfoUrl ELSE IF run.local THEN NoUrl ELSE run.public
  <2>1. /\ run \in Runs /\ run # NoUrl /\ run.reached /\ run.stage = "url"
        /\ remembered \in PublicUrls \cup {NoUrl}
    BY <1>19 DEF RereadUrl, SetupTypeOK
  <2>2. public \in PublicUrls \cup {NoUrl} BY <2>1 DEF InfoUrl, Runs
  <2>3. remembered # NoUrl \/ (run.local /\ run.info = NoUrl) => public = remembered BY DEF InfoUrl
  <2>4. run' = [run EXCEPT !.public = public, !.stage = "count"] BY <1>19 DEF RereadUrl
  <2> HIDE DEF public
  <2>5. /\ run' \in Runs /\ run'.stage = "count" /\ run'.public = public /\ run'.audience = run.audience
        /\ run'.stopped = run.stopped /\ run'.crossed = run.crossed
    BY <2>1, <2>2, <2>4 DEF Runs
  <2>6. UrlKnown' BY <1>19, <2>1, <2>3, <2>5 DEF UrlKnown, Audience, McpUrl
  <2> QED BY <1>19, <2>5, <2>6, EarlyRun DEF RereadUrl, SetupTypeOK
<1>20. CASE CountTokens
  <2> DEFINE own == TokenFor(run.audience)
             had == TokenFor(McpUrl(run.public))
  <2>1. run \in Runs /\ run # NoUrl /\ run.reached /\ run.stage = "count"
    BY <1>20 DEF CountTokens, WithTokens, SetupTypeOK
  <2>2. own \in BOOLEAN /\ had \in BOOLEAN BY DEF TokenFor
  <2>3. ~run.stopped /\ ~run.crossed => (own => had) BY <2>1 DEF UrlKnown
  <2>4. run' = [run EXCEPT !.authorized = own, !.had = had, !.stage = "read", !.info = NoUrl, !.audience = NoUrl]
    BY <1>20 DEF CountTokens, WithTokens
  <2> HIDE DEF own, had
  <2>5. /\ run' \in Runs /\ run'.stage = "read" /\ run'.authorized = own /\ run'.had = had
        /\ run'.stopped = run.stopped /\ run'.crossed = run.crossed
    BY <2>1, <2>2, <2>4 DEF Runs
  <2>6. AuthorizedIsOwn' /\ UrlKnown' BY <2>2, <2>3, <2>5 DEF AuthorizedIsOwn, UrlKnown, Runs
  <2> QED BY <1>20, <2>5, <2>6 DEF CountTokens, WithTokens, SetupTypeOK, NothingOld, PageHasEndpoint, NoFalseConnection,
                   PageIsOfEndpoint
<1>6. CASE Compare
  <2> DEFINE action == ConnectorAction(endpoint, McpUrl(run.public))
  <2>1. run \in Runs BY <1>6 DEF Compare, SetupTypeOK
  <2>2. action \in {"none", "create", "update"} BY DEF ConnectorAction
  <2>3. /\ run' \in Runs /\ run'.stage \in {"revoke", "write"}
        /\ run'.authorized = run.authorized /\ run'.had = run.had /\ run'.public = run.public
        /\ run'.stopped = run.stopped /\ run'.crossed = run.crossed
        /\ run'.stage = "write" => action # "update"
    <3> HIDE DEF action
    <3> QED BY <1>6, <2>1, <2>2 DEF Compare, Runs, action
  <2>4. run'.stage = "write" => endpoint \in {NoUrl, McpUrl(run.public)} BY <2>3 DEF ConnectorAction
  <2> QED BY <1>6, <2>3, <2>4 DEF Compare, McpUrl, SetupTypeOK, UrlKnown, AuthorizedIsOwn, NothingOld, PageHasEndpoint,
                   NoFalseConnection, PageIsOfEndpoint
<1>7. CASE RevokeAllOfAudience
  <2>1. run \in Runs BY <1>7 DEF RevokeAllOfAudience, SetupTypeOK
  <2>2. run' \in Runs /\ run'.stage = "write" /\ ~run'.authorized BY <1>7, <2>1 DEF RevokeAllOfAudience, Runs
  <2> QED BY <1>7, <2>2 DEF RevokeAllOfAudience, SetupTypeOK, UrlKnown, AuthorizedIsOwn, NothingOld, PageHasEndpoint,
                   NoFalseConnection, PageIsOfEndpoint
<1>8. CASE WriteEndpoint
  <2>1. run \in Runs /\ run.stage = "write" BY <1>8 DEF WriteEndpoint, SetupTypeOK
  <2>2. endpoint' = McpUrl(run.public) /\ endpoint' \in Urls /\ endpoint' # NoUrl
    BY <1>8, <2>1, McpUrlReal DEF WriteEndpoint, Runs
  <2>3. opened = "page" => page = endpoint' /\ endpoint # NoUrl
    BY <1>8, <2>2 DEF WriteEndpoint, NothingOld, PageHasEndpoint, PageIsOfEndpoint
  <2>4. CASE Required
    <3>1. run' \in Runs /\ run'.stage = "session" /\ run'.public = run.public
          /\ run'.authorized = run.authorized /\ run'.had = run.had
          /\ run'.stopped = run.stopped /\ run'.crossed = run.crossed
      BY <1>8, <2>1, <2>4 DEF WriteEndpoint, Runs
    <3> QED BY <1>8, <2>1, <2>2, <2>3, <2>4, <3>1 DEF WriteEndpoint, McpUrl, SetupTypeOK, UrlKnown, AuthorizedIsOwn, NothingOld, PageHasEndpoint,
                   NoFalseConnection, PageIsOfEndpoint
  <2>5. CASE ~Required
    <3>1. run' = NoUrl /\ outcome' = [required |-> FALSE, reconnect |-> run.reconnect, had |-> run.had,
               stopped |-> run.stopped, crossed |-> run.crossed]
      BY <1>8, <2>5 DEF WriteEndpoint, Finish
    <3>2. ~run.reconnect /\ (run.had \/ run.stopped \/ run.crossed) BY <1>8, <2>1, <2>5 DEF WriteEndpoint, Required, AuthorizedIsOwn, Runs
    <3> QED BY <1>8, <2>2, <2>3, <3>1, <3>2 DEF WriteEndpoint, SetupTypeOK, UrlKnown, AuthorizedIsOwn, NothingOld, PageHasEndpoint,
                   NoFalseConnection, PageIsOfEndpoint
  <2> QED BY <2>4, <2>5
<1>9. CASE SetupSession
  <2>1. run \in Runs /\ endpoint = McpUrl(run.public) /\ endpoint # NoUrl
    BY <1>9, McpUrlReal DEF SetupSession, SetupTypeOK, PageHasEndpoint, Runs
  <2>2. run' = NoUrl /\ outcome' = [required |-> TRUE, reconnect |-> run.reconnect, had |-> run.had,
               stopped |-> run.stopped, crossed |-> run.crossed]
    BY <1>9 DEF SetupSession, Finish
  <2> QED BY <1>9, <2>1, <2>2 DEF SetupSession, SetupTypeOK, UrlKnown, AuthorizedIsOwn, NothingOld, PageHasEndpoint,
                   NoFalseConnection, PageIsOfEndpoint
<1>10. CASE RunFails
  <2>1. handlers' \in [Others -> PublicUrls \cup {NoUrl, "idle"}] /\ run' = NoUrl
    <3>1. CASE Calls("publish")
      <4>1. run.public \in PublicUrls \cup {NoUrl} BY <3>1 DEF SetupTypeOK, Runs
      <4> QED BY <1>10, <3>1, <4>1 DEF RunFails, AddHandler, SetupTypeOK
    <3> QED BY <1>10, <3>1 DEF RunFails, SetupTypeOK
  <2> QED BY <1>10, <2>1 DEF RunFails, SetupTypeOK, UrlKnown, AuthorizedIsOwn, NothingOld, PageHasEndpoint,
                   NoFalseConnection, PageIsOfEndpoint
<1>11. CASE PairCommand
  BY <1>11 DEF PairCommand, SetupTypeOK, UrlKnown, Audience, McpUrl, AuthorizedIsOwn, NothingOld, PageHasEndpoint,
                   NoFalseConnection, PageIsOfEndpoint
<1>21. CASE PairTunnel
  <2>1. tunnel' \in PublicUrls BY <1>21 DEF PairTunnel, StartTunnel, SetupTypeOK
  <2>2. handlers' \in [Others -> PublicUrls \cup {NoUrl, "idle"}]
    BY <1>21, <2>1 DEF PairTunnel, AddHandler, SetupTypeOK
  <2> QED BY <1>21, <2>1, <2>2 DEF PairTunnel, SetupTypeOK, UrlKnown, Audience, McpUrl, AuthorizedIsOwn, NothingOld,
                   PageHasEndpoint, NoFalseConnection, PageIsOfEndpoint
<1>22. ASSUME NEW o \in Others, Publish(o) PROVE SetupIInv'
  <2>1. /\ handlers[o] \in PublicUrls \cup {NoUrl} /\ remembered' = handlers[o]
        /\ handlers' \in [Others -> PublicUrls \cup {NoUrl, "idle"}]
    BY <1>22 DEF Publish, SetupTypeOK
  <2>2. CASE run = NoUrl
    BY <1>22, <2>1, <2>2 DEF Publish, SetupTypeOK, UrlKnown, AuthorizedIsOwn, NothingOld, PageHasEndpoint,
                   NoFalseConnection, PageIsOfEndpoint
  <2>3. CASE run # NoUrl
    <3> DEFINE crossed == run.crossed \/ remembered # handlers[o]
    <3>1. run \in Runs /\ crossed \in BOOLEAN /\ run' = [run EXCEPT !.crossed = crossed]
      BY <1>22, <2>3 DEF Publish, SetupTypeOK, Runs
    <3>2. (run.crossed => crossed) /\ (~crossed => remembered' = remembered) BY <2>1, <3>1 DEF Runs
    <3> HIDE DEF crossed
    <3>3. /\ run' \in Runs /\ run'.crossed = crossed /\ run'.stage = run.stage /\ run'.local = run.local
          /\ run'.info = run.info /\ run'.public = run.public /\ run'.audience = run.audience
          /\ run'.stopped = run.stopped /\ run'.authorized = run.authorized /\ run'.reached = run.reached
          /\ run'.had = run.had
      BY <3>1 DEF Runs
    <3>4. UrlKnown' BY <2>3, <3>2, <3>3 DEF UrlKnown, Audience, McpUrl
    <3>5. AuthorizedIsOwn' BY <2>3, <3>2, <3>3 DEF AuthorizedIsOwn
    <3> QED BY <1>22, <2>1, <2>3, <3>3, <3>4, <3>5 DEF Publish, McpUrl, SetupTypeOK, NothingOld, PageHasEndpoint,
                   NoFalseConnection, PageIsOfEndpoint
  <2> QED BY <2>2, <2>3
<1>12. CASE Authorize
  <2>1. (\A t \in granted : ~t.old) => \A t \in granted' : ~t.old BY <1>12 DEF Authorize
  <2> QED BY <1>12, <2>1 DEF Authorize, SetupTypeOK, UrlKnown, Audience, McpUrl, AuthorizedIsOwn, NothingOld, PageHasEndpoint,
                   NoFalseConnection, PageIsOfEndpoint
<1>13. CASE CodeEnds
  BY <1>13 DEF CodeEnds, SetupTypeOK, UrlKnown, Audience, McpUrl, AuthorizedIsOwn, NothingOld, PageHasEndpoint,
                   NoFalseConnection, PageIsOfEndpoint
<1>14. CASE TokenEnds
  <2>1. granted' \subseteq granted BY <1>14 DEF TokenEnds
  <2> QED BY <1>14, <2>1 DEF TokenEnds, SetupTypeOK, UrlKnown, Audience, McpUrl, AuthorizedIsOwn, NothingOld, PageHasEndpoint,
                   NoFalseConnection, PageIsOfEndpoint
<1>15. CASE TunnelEnds
  BY <1>15 DEF TunnelEnds, SetupTypeOK, UrlKnown, Audience, McpUrl, AuthorizedIsOwn, NothingOld, PageHasEndpoint,
                   NoFalseConnection, PageIsOfEndpoint
<1>16. CASE BridgeEnds
  <2>1. run' = NoUrl \/ (run' \in Runs /\ run \in Runs /\ ~run'.reached /\ run'.stage = run.stage /\ run'.local = run.local
          /\ run'.authorized = run.authorized /\ run'.had = run.had /\ run'.public = run.public
          /\ run'.stopped = run.stopped /\ run'.crossed = run.crossed)
    BY <1>16 DEF BridgeEnds, SetupTypeOK, Runs
  <2>2. CASE run' = NoUrl BY <1>16, <2>2 DEF BridgeEnds, NoHandlers, SetupTypeOK, UrlKnown, AuthorizedIsOwn, NothingOld, PageHasEndpoint,
                   NoFalseConnection, PageIsOfEndpoint
  <2>3. CASE run' # NoUrl
    <3>1. run # NoUrl BY <1>16, <2>3 DEF BridgeEnds
    <3> QED BY <1>16, <2>1, <2>3, <3>1 DEF BridgeEnds, NoHandlers, McpUrl, SetupTypeOK, UrlKnown, AuthorizedIsOwn, NothingOld, PageHasEndpoint,
                   NoFalseConnection, PageIsOfEndpoint
  <2> QED BY <2>2, <2>3
<1>17. CASE UNCHANGED setupVars
  BY <1>17 DEF setupVars, Audience, McpUrl, SetupTypeOK, UrlKnown, AuthorizedIsOwn, NothingOld, PageHasEndpoint,
                   NoFalseConnection, PageIsOfEndpoint
<1> QED BY <1>1, <1>2, <1>3, <1>4, <1>5, <1>6, <1>7, <1>8, <1>9, <1>10, <1>11, <1>12, <1>13, <1>14, <1>15, <1>16, <1>17,
        <1>18, <1>19, <1>20, <1>21, <1>22
        DEF SetupNext

LEMMA SetupIInvHolds == SetupSpec => []SetupIInv
  BY SetupInitHolds, SetupNextHolds, PTL DEF SetupSpec

\* A run that asks for no authorization found a token for the endpoint it reports
\* (Service.Run).
THEOREM NoConnectionIsFalse == SetupSpec => []NoFalseConnection
<1>1. SetupIInv => NoFalseConnection BY DEF SetupIInv
<1> QED BY SetupIInvHolds, <1>1, PTL

\* The page whose code is open shows the saved endpoint (Service.Run, Manager.Create).
THEOREM PageAlwaysOfEndpoint == SetupSpec => []PageIsOfEndpoint
<1>1. SetupIInv => PageIsOfEndpoint BY DEF SetupIInv
<1> QED BY SetupIInvHolds, <1>1, PTL

\* An endpoint is replaced only when its tokens are gone, whatever failed before
\* (Service.Run revokes before it writes).
THEOREM AlwaysReplacedAfterRevoked == SetupSpec => ReplacedAfterRevoked
<1>1. SetupIInv /\ [SetupNext]_setupVars =>
        [endpoint' # endpoint /\ endpoint # NoUrl => \A t \in granted : ~t.old]_setupVars
  <2> SUFFICES ASSUME SetupIInv, SetupNext, endpoint' # endpoint, endpoint # NoUrl
               PROVE  \A t \in granted : ~t.old
    OBVIOUS
  <2>1. WriteEndpoint
    BY DEF SetupNext, EnsureBridge, ReadPublic, ReadTunnel, StopTunnel, RunTunnel, RunPublishes, RereadAudience, RereadUrl,
           CountTokens, WithTokens, Compare, RevokeAllOfAudience, SetupSession, RunFails, PairCommand, PairTunnel, Publish, Authorize, CodeEnds, TokenEnds, TunnelEnds, BridgeEnds
  <2> QED BY <2>1 DEF SetupIInv, WriteEndpoint, NothingOld
<1> QED BY SetupIInvHolds, <1>1, PTL DEF SetupSpec, ReplacedAfterRevoked

-----------------------------------------------------------------------------
(* Provisioning. *)

\* With these tunnels and routes, h leads to the tunnel of w, or another had it.
LeadsTo(tunnels, paths, taken, w, h) == w \in tunnels /\ (paths[h] = w \/ <<w, h>> \in taken)

\* The inductive invariant: a command that has passed a stage has what the stage
\* made, and nothing takes it away again.
ProvisionIInv ==
  /\ routes \in [Hostnames -> Workspaces \cup {NoTunnel}]
  /\ saved \in [Workspaces -> [preference : {"unset", "quick", "named"}, host : Hostnames \cup {NoTunnel}]]
  /\ choosing \in [Chooses -> [stage : {"create", "make", "again", "route", "save", "fallback"},
                               workspace : Workspaces, host : Hostnames] \cup {NoTunnel}]
  /\ \A c \in Chooses :
       /\ InStage(c, "route") => choosing[c].workspace \in Believed
       /\ InStage(c, "save") => LeadsTo(Believed, routes, lost, choosing[c].workspace, choosing[c].host)
  /\ NamedIsReal

LEMMA ProvisionInitHolds == ProvisionInit => ProvisionIInv
  BY DEF ProvisionInit, ProvisionIInv, NamedIsReal, ProviderForState, InStage

LEMMA ProvisionNextHolds == ProvisionIInv /\ [ProvisionNext]_provisionVars => ProvisionIInv'
<1> SUFFICES ASSUME ProvisionIInv, [ProvisionNext]_provisionVars PROVE ProvisionIInv'
  OBVIOUS
<1> DEFINE Call == [stage : {"create", "make", "again", "route", "save", "fallback"},
                    workspace : Workspaces, host : Hostnames]
\* A command in its place, which changes nothing that is saved.
<1>1. ASSUME NEW c \in Chooses, NEW call \in Call \cup {NoTunnel},
             choosing' = [choosing EXCEPT ![c] = call], UNCHANGED saved,
             routes' \in [Hostnames -> Workspaces \cup {NoTunnel}],
             Believed \subseteq Believed', lost \subseteq lost',
             \A h \in Hostnames : routes[h] = NoTunnel \/ routes'[h] = routes[h],
             call # NoTunnel /\ call.stage = "route" => call.workspace \in Believed',
             call # NoTunnel /\ call.stage = "save" => LeadsTo(Believed', routes', lost', call.workspace, call.host)
      PROVE  ProvisionIInv'
  <2>1. choosing' \in [Chooses -> Call \cup {NoTunnel}] BY <1>1 DEF ProvisionIInv
  <2>2. ASSUME NEW d \in Chooses, InStage(d, "route")' PROVE choosing'[d].workspace \in Believed'
    BY <1>1, <2>2 DEF ProvisionIInv, InStage
  <2>3. ASSUME NEW d \in Chooses, InStage(d, "save")'
        PROVE  LeadsTo(Believed', routes', lost', choosing'[d].workspace, choosing'[d].host)
    <3>1. CASE d = c BY <1>1, <2>3, <3>1 DEF ProvisionIInv, InStage
    <3>2. CASE d # c
      <4>1. choosing'[d] = choosing[d] /\ InStage(d, "save") /\ choosing[d] \in Call
        BY <1>1, <2>3, <3>2 DEF ProvisionIInv, InStage
      <4>2. LeadsTo(Believed, routes, lost, choosing[d].workspace, choosing[d].host) BY <4>1 DEF ProvisionIInv
      <4>3. choosing[d].workspace \in Workspaces /\ choosing[d].host \in Hostnames BY <4>1
      <4> QED BY <1>1, <4>1, <4>2, <4>3, ProvisionAssumption DEF LeadsTo
    <3> QED BY <3>1, <3>2
  <2>4. NamedIsReal'
    <3> SUFFICES ASSUME NEW w \in Workspaces, ProviderForState(w)' # NoTunnel
                 PROVE  LeadsTo(Believed', routes', lost', w, ProviderForState(w)')
      BY DEF NamedIsReal, LeadsTo
    <3>1. ProviderForState(w)' = ProviderForState(w) BY <1>1 DEF ProviderForState
    <3>2. LeadsTo(Believed, routes, lost, w, ProviderForState(w)) BY <3>1 DEF ProvisionIInv, NamedIsReal, LeadsTo
    <3>3. ProviderForState(w) \in Hostnames BY <3>1 DEF ProvisionIInv, ProviderForState
    <3> QED BY <1>1, <3>1, <3>2, <3>3, ProvisionAssumption DEF LeadsTo
  <2> QED BY <1>1, <2>1, <2>2, <2>3, <2>4 DEF ProvisionIInv
\* A choice that is saved, by a command that ends or by another one.
<1>2. ASSUME NEW w \in Workspaces, NEW h \in Hostnames \cup {NoTunnel}, NEW preference,
             saved' = [saved EXCEPT ![w] = [preference |-> preference, host |-> h]],
             preference = "quick" \/ (preference = "named" /\ h \in Hostnames /\ LeadsTo(Believed, routes, lost, w, h)),
             choosing' = choosing \/ \E c \in Chooses : choosing' = [choosing EXCEPT ![c] = NoTunnel],
             UNCHANGED <<Believed, routes, lost>>
      PROVE  ProvisionIInv'
  <2>1. \A d \in Chooses : choosing'[d] \in {choosing[d], NoTunnel}
    BY <1>2 DEF ProvisionIInv
  <2>2. choosing' \in [Chooses -> Call \cup {NoTunnel}] BY <1>2 DEF ProvisionIInv
  <2>3. saved' \in [Workspaces -> [preference : {"unset", "quick", "named"}, host : Hostnames \cup {NoTunnel}]]
    BY <1>2 DEF ProvisionIInv
  <2>4. ASSUME NEW d \in Chooses
        PROVE  /\ InStage(d, "route")' => choosing'[d].workspace \in Believed'
               /\ InStage(d, "save")' => LeadsTo(Believed', routes', lost', choosing'[d].workspace, choosing'[d].host)
    BY <1>2, <2>1 DEF ProvisionIInv, InStage, LeadsTo
  <2>5. NamedIsReal'
    <3> SUFFICES ASSUME NEW v \in Workspaces, ProviderForState(v)' # NoTunnel
                 PROVE  LeadsTo(Believed', routes', lost', v, ProviderForState(v)')
      BY DEF NamedIsReal, LeadsTo
    <3>1. CASE v = w BY <1>2, <3>1 DEF ProvisionIInv, ProviderForState, LeadsTo
    <3>2. CASE v # w
      <4>1. ProviderForState(v)' = ProviderForState(v) BY <1>2, <3>2 DEF ProvisionIInv, ProviderForState
      <4> QED BY <1>2, <4>1 DEF ProvisionIInv, NamedIsReal, LeadsTo
    <3> QED BY <3>1, <3>2
  <2>6. routes' \in [Hostnames -> Workspaces \cup {NoTunnel}] BY <1>2 DEF ProvisionIInv
  <2> QED BY <2>2, <2>3, <2>4, <2>5, <2>6 DEF ProvisionIInv
<1>3. ASSUME NEW c \in Chooses, choosing[c] # NoTunnel PROVE choosing[c] \in Call
  BY <1>3 DEF ProvisionIInv
<1>4. ASSUME NEW c \in Chooses, NEW w \in Workspaces, NEW h \in Hostnames, ProvisionNamed(c, w, h)
      PROVE  ProvisionIInv'
  <2>1. [stage |-> "create", workspace |-> w, host |-> h] \in Call OBVIOUS
  <2> QED BY <1>1, <1>4, <2>1 DEF ProvisionNamed, ProvisionIInv, Believed
<1>5. ASSUME NEW c \in Chooses, ListFirst(c) PROVE ProvisionIInv'
  <2>1. choosing[c] \in Call BY <1>3, <1>5 DEF ListFirst, InStage
  <2>2. PICK stage \in {"make", "route"} : Turn(c, stage) /\ (stage = "route" => choosing[c].workspace \in Believed)
    BY <1>5 DEF ListFirst, Believed
  <2>3. choosing' = [choosing EXCEPT ![c] = [choosing[c] EXCEPT !.stage = stage]] BY <2>2 DEF Turn
  <2>4. [choosing[c] EXCEPT !.stage = stage] \in Call BY <2>1
  <2> QED BY <1>1, <1>5, <2>1, <2>2, <2>3, <2>4 DEF ListFirst, ProvisionIInv, Believed
<1>6. ASSUME NEW c \in Chooses, Make(c) PROVE ProvisionIInv'
  <2>1. choosing[c] \in Call BY <1>3, <1>6 DEF Make, InStage
  <2>2. PICK stage \in {"again", "route", "fallback"} :
          Turn(c, stage) /\ (stage = "route" => choosing[c].workspace \in Believed')
    BY <1>6 DEF Make, Believed
  <2>3. choosing' = [choosing EXCEPT ![c] = [choosing[c] EXCEPT !.stage = stage]] BY <2>2 DEF Turn
  <2>4. [choosing[c] EXCEPT !.stage = stage] \in Call BY <2>1
  <2>5. Believed \subseteq Believed' BY <1>6 DEF Make, Believed
  <2> QED BY <1>1, <1>6, <2>1, <2>2, <2>3, <2>4, <2>5 DEF Make, ProvisionIInv
<1>7. ASSUME NEW c \in Chooses, ListAgain(c) PROVE ProvisionIInv'
  <2>1. choosing[c] \in Call BY <1>3, <1>7 DEF ListAgain, InStage
  <2>2. PICK stage \in {"route", "fallback"} : Turn(c, stage) /\ (stage = "route" => choosing[c].workspace \in Believed)
    BY <1>7 DEF ListAgain, Believed
  <2>3. choosing' = [choosing EXCEPT ![c] = [choosing[c] EXCEPT !.stage = stage]] BY <2>2 DEF Turn
  <2>4. [choosing[c] EXCEPT !.stage = stage] \in Call BY <2>1
  <2> QED BY <1>1, <1>7, <2>1, <2>2, <2>3, <2>4 DEF ListAgain, ProvisionIInv, Believed
<1>8. ASSUME NEW c \in Chooses, RouteDNS(c) PROVE ProvisionIInv'
  <2> DEFINE w == choosing[c].workspace
             h == choosing[c].host
  <2>1. choosing[c] \in Call /\ w \in Believed /\ w \in Workspaces /\ h \in Hostnames
    BY <1>3, <1>8 DEF RouteDNS, InStage, ProvisionIInv
  <2>2. PICK stage \in {"save", "fallback"} : Turn(c, stage) BY <1>8 DEF RouteDNS
  <2>3. choosing' = [choosing EXCEPT ![c] = [choosing[c] EXCEPT !.stage = stage]] BY <2>2 DEF Turn
  <2>4. [choosing[c] EXCEPT !.stage = stage] \in Call BY <2>1
  <2>5. /\ routes' \in [Hostnames -> Workspaces \cup {NoTunnel}]
        /\ \A k \in Hostnames : routes[k] = NoTunnel \/ routes'[k] = routes[k]
        /\ lost \subseteq lost' /\ Believed' = Believed /\ UNCHANGED saved
        /\ routes'[h] = w \/ <<w, h>> \in lost'
    BY <1>8, <2>1, Zenon DEF RouteDNS, ProvisionIInv, Believed
  <2>6. LeadsTo(Believed', routes', lost', w, h) BY <2>1, <2>3, <2>5, <2>4 DEF LeadsTo, ProvisionIInv
  <2> QED BY <1>1, <2>1, <2>3, <2>4, <2>5, <2>6
<1>9. ASSUME NEW c \in Chooses, Save(c) PROVE ProvisionIInv'
  <2>1. choosing[c] \in Call BY <1>3, <1>9 DEF Save, InStage
  <2>2. LeadsTo(Believed, routes, lost, choosing[c].workspace, choosing[c].host) BY <1>9 DEF Save, ProvisionIInv
  <2> QED BY <1>2, <1>9, <2>1, <2>2 DEF Save, Leave, Believed
<1>10. ASSUME NEW c \in Chooses, StepFails(c) PROVE ProvisionIInv'
  <2>1. choosing[c] \in Call BY <1>3, <1>10 DEF StepFails
  <2>2. choosing' = [choosing EXCEPT ![c] = [choosing[c] EXCEPT !.stage = "fallback"]] BY <1>10 DEF StepFails, Turn
  <2>3. [choosing[c] EXCEPT !.stage = "fallback"] \in Call BY <2>1
  <2> QED BY <1>1, <1>10, <2>1, <2>2, <2>3 DEF StepFails, ProvisionIInv, Believed
<1>11. ASSUME NEW c \in Chooses, Fallback(c) PROVE ProvisionIInv'
  <2>1. choosing[c] \in Call BY <1>3, <1>11 DEF Fallback, InStage
  <2>2. CASE ChooseQuick(choosing[c].workspace)
    BY <1>2, <1>11, <2>1, <2>2 DEF Fallback, Leave, ChooseQuick, Believed
  <2>3. CASE UNCHANGED saved
    BY <1>1, <1>11, <2>3 DEF Fallback, Leave, ProvisionIInv, Believed
  <2> QED BY <1>11, <2>2, <2>3 DEF Fallback
<1>12. ASSUME NEW c \in Chooses, Killed(c) PROVE ProvisionIInv'
  BY <1>1, <1>12 DEF Killed, Leave, ProvisionIInv, Believed
<1>13. ASSUME NEW w \in Workspaces, ChooseQuickCommand(w) PROVE ProvisionIInv'
  BY <1>2, <1>13 DEF ChooseQuickCommand, ChooseQuick, Believed
<1>14. CASE UNCHANGED provisionVars
  BY <1>14 DEF ProvisionIInv, provisionVars, InStage, LeadsTo, NamedIsReal, ProviderForState, Believed
<1> QED BY <1>4, <1>5, <1>6, <1>7, <1>8, <1>9, <1>10, <1>11, <1>12, <1>13, <1>14 DEF ProvisionNext

\* Whatever fails or is killed, and however commands overlap, a bridge is not
\* started for a hostname whose tunnel does not exist and no failed create printed
\* the ID of (ProvisionNamed).
THEOREM NamedIsAlwaysReal == ProvisionSpec => []NamedIsReal
<1>1. ProvisionIInv => NamedIsReal BY DEF ProvisionIInv
<1> QED BY ProvisionInitHolds, ProvisionNextHolds, <1>1, PTL DEF ProvisionSpec
=============================================================================
