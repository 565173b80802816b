------------------------------- MODULE Setup -------------------------------
(***************************************************************************)
(* The one-command setup (internal/setup/service.go) against a bridge that *)
(* may die, a tunnel that may end, a browser that may authorize, and the   *)
(* pair command.  A handler of the admin API is a step for each time it    *)
(* takes a mutex: of the provider, of the server, or of the token store.   *)
(* Between two steps anything else may happen, including the end of the    *)
(* run, after which its handler goes on in the bridge.                     *)
(*                                                                         *)
(* One setup runs at a time.  A token is known by the MCP URL it is for;   *)
(* consent and exchange, and the two halves of revoke-all, are one step    *)
(* here and apart in OAuthServer.                                          *)
(***************************************************************************)
EXTENDS Naturals, FiniteSets

CONSTANTS
  PublicUrls,  \* URLs a tunnel may get; a named tunnel always the same
  LocalUrl,    \* the URL without a tunnel
  NoUrl,       \* absence of a URL, a page or a run
  MaxGranted,  \* bound on live tokens
  Others       \* handlers of calls other than the run's, as many as may be under way at once

ASSUME SetupAssumption ==
  /\ LocalUrl \notin PublicUrls /\ NoUrl \notin PublicUrls \cup {LocalUrl}
  /\ MaxGranted \in Nat
  /\ "idle" \notin PublicUrls \cup {NoUrl}

VARIABLES
  serving,   \* the bridge is up
  tunnel,    \* the URL of the tunnel that runs (the provider's Status), or NoUrl
  remembered,\* Server.publicURL
  handlers,  \* the value each of Others is about to give remembered, after it has started
             \* or stopped the tunnel, or "idle"
  granted,   \* live tokens: [url, old], old if issued before the run's last look
  opened,    \* whose pairing code is open: "page", "command" or "none"
  page,      \* the MCP URL the setup page whose code is open shows, or NoUrl
  endpoint,  \* the saved endpoint's MCP URL, or NoUrl
  run,       \* the run, or NoUrl: [stage, local, reconnect, info (adminInfo.PublicURL), public,
             \* audience (whose tokens are counted), stopped (it stopped the tunnel), action,
             \* authorized, reached (its bridge is still up), had (history: there was a token
             \* for its URL), crossed (history: it took a URL that the bridge did not have, or
             \* another call changed the bridge's URL during the run)]
  outcome    \* how a run ended in the last step: [required, had, reconnect, stopped, crossed]
             \* or NoUrl

bridge    == <<serving, tunnel, remembered, handlers>>
setupVars == <<bridge, granted, opened, page, endpoint, run, outcome>>

-----------------------------------------------------------------------------
McpUrl(public) == IF public = NoUrl THEN LocalUrl ELSE public

Audience == McpUrl(remembered)

TokenFor(u) == \E t \in granted : t.url = u

ConnectorAction(previous, next) ==
  IF previous = NoUrl THEN "create" ELSE IF previous = next THEN "none" ELSE "update"

AtStage(stage) == run # NoUrl /\ run.stage = stage
Calls(stage) == AtStage(stage) /\ run.reached  \* a later bridge has another admin token
Goto(stage) == run' = [run EXCEPT !.stage = stage]

NoHandlers == [o \in Others |-> "idle"]

\* A handler of another call is to publish u.
AddHandler(u) == \E o \in Others : handlers[o] = "idle" /\ handlers' = [handlers EXCEPT ![o] = u]

\* The provider's Start returns the tunnel that is up, or a new one.
StartTunnel == tunnel' \in IF tunnel # NoUrl THEN {tunnel} ELSE PublicUrls

-----------------------------------------------------------------------------
(* The run. *)

\* Ensure spawns a bridge unless one is up.
EnsureBridge(local, reconnect) ==
  /\ run = NoUrl
  /\ serving' = TRUE
  /\ run' = [stage |-> "info", local |-> local, reconnect |-> reconnect,
             info |-> NoUrl, public |-> NoUrl, audience |-> NoUrl, stopped |-> FALSE, action |-> "none",
             authorized |-> FALSE, reached |-> TRUE, had |-> FALSE, crossed |-> FALSE]
  /\ outcome' = NoUrl
  /\ UNCHANGED <<tunnel, remembered, handlers, granted, opened, page, endpoint>>

\* The first /admin/info: the bridge's URL, and then the tunnel's status.
ReadPublic ==
  /\ Calls("info")
  /\ run' = [run EXCEPT !.info = remembered, !.stage = "status"]
  /\ UNCHANGED <<bridge, granted, opened, page, endpoint, outcome>>

\* A bridge without a URL may have a tunnel that runs: of a start or a stop
\* that is under way, or of two that overlapped.
ReadTunnel ==
  /\ Calls("status")
  /\ run' = [run EXCEPT !.public = IF run.info # NoUrl THEN run.info ELSE tunnel,
                        !.crossed = run.crossed \/ (run.info = NoUrl /\ tunnel # NoUrl),
                        !.stage = IF run.local THEN IF tunnel # NoUrl THEN "stop" ELSE "audience"
                                  ELSE IF tunnel = NoUrl THEN "start" ELSE "audience"]
  /\ UNCHANGED <<bridge, granted, opened, page, endpoint, outcome>>

StopTunnel ==
  /\ Calls("stop")
  /\ tunnel' = NoUrl
  /\ run' = [run EXCEPT !.public = NoUrl, !.stopped = TRUE, !.stage = "publish"]
  /\ UNCHANGED <<serving, remembered, handlers, granted, opened, page, endpoint, outcome>>

RunTunnel ==
  /\ Calls("start")
  /\ StartTunnel
  /\ run' = [run EXCEPT !.public = tunnel', !.stage = "publish"]
  /\ UNCHANGED <<serving, remembered, handlers, granted, opened, page, endpoint, outcome>>

\* The second half of the handler, which answers the run.
RunPublishes ==
  /\ Calls("publish")
  /\ remembered' = run.public
  /\ Goto("audience")
  /\ UNCHANGED <<serving, tunnel, handlers, granted, opened, page, endpoint, outcome>>

\* /admin/info once more: the audience, the URL, and whether tokens exist for
\* the audience.
RereadAudience ==
  /\ Calls("audience")
  /\ run' = [run EXCEPT !.audience = Audience, !.stage = "url"]
  /\ UNCHANGED <<bridge, granted, opened, page, endpoint, outcome>>

\* The answer is decoded over the first one, and the null of a bridge without a
\* public URL leaves what is there.
InfoUrl == IF remembered # NoUrl THEN remembered ELSE run.info

RereadUrl ==
  /\ Calls("url")
  /\ run' = [run EXCEPT !.public = IF InfoUrl # NoUrl THEN InfoUrl ELSE IF run.local THEN NoUrl ELSE run.public,
                        !.stage = "count"]
  /\ UNCHANGED <<bridge, granted, opened, page, endpoint, outcome>>

\* The run's last look at the tokens, after which it has no use for the two
\* answers (they are dropped to save states); found is what it takes for a connection.
WithTokens(found) ==
  /\ Calls("count")
  /\ run' = [run EXCEPT !.authorized = found, !.had = TokenFor(McpUrl(run.public)), !.stage = "read",
                        !.info = NoUrl, !.audience = NoUrl]
  /\ granted' = {[t EXCEPT !.old = TRUE] : t \in granted}
  /\ UNCHANGED <<bridge, opened, page, endpoint, outcome>>

\* Mutant: tokens are counted whatever endpoint they are for.
CountEverything == WithTokens(granted # {})

CountTokens == WithTokens(TokenFor(run.audience))

\* Mutant: a connector that changed is no reason to revoke.
CompareOnly ==
  /\ AtStage("read")
  /\ LET action == ConnectorAction(endpoint, McpUrl(run.public))
     IN run' = [run EXCEPT !.action = action, !.stage = IF run.reconnect THEN "revoke" ELSE "write"]
  /\ UNCHANGED <<bridge, granted, opened, page, endpoint, outcome>>

Compare ==
  /\ AtStage("read")
  /\ LET action == ConnectorAction(endpoint, McpUrl(run.public))
     IN run' = [run EXCEPT !.action = action,
                           !.stage = IF run.reconnect \/ action = "update" THEN "revoke" ELSE "write"]
  /\ UNCHANGED <<bridge, granted, opened, page, endpoint, outcome>>

\* Mutant: the open code outlives the tokens.
RevokeTokens ==
  /\ Calls("revoke")
  /\ granted' = {}
  /\ run' = [run EXCEPT !.authorized = FALSE, !.stage = "write"]
  /\ UNCHANGED <<bridge, opened, page, endpoint, outcome>>

RevokeAllOfAudience ==
  /\ Calls("revoke")
  /\ granted' = {} /\ opened' = "none" /\ page' = NoUrl
  /\ run' = [run EXCEPT !.authorized = FALSE, !.stage = "write"]
  /\ UNCHANGED <<bridge, endpoint, outcome>>

Required == run.reconnect \/ ~run.authorized \/ run.action # "none"

Finish(required) ==
  /\ run' = NoUrl
  /\ outcome' = [required |-> required, reconnect |-> run.reconnect, had |-> run.had,
               stopped |-> run.stopped, crossed |-> run.crossed]

WriteEndpoint ==
  /\ AtStage("write")
  /\ endpoint' = McpUrl(run.public)
  /\ IF Required THEN Goto("session") /\ UNCHANGED outcome ELSE Finish(FALSE)
  /\ UNCHANGED <<bridge, granted, opened, page>>

\* A new code and a new page, which replace the older ones.
SetupSession ==
  /\ Calls("session")
  /\ opened' = "page" /\ page' = McpUrl(run.public)
  /\ Finish(TRUE)
  /\ UNCHANGED <<bridge, granted, endpoint>>

\* A call fails, its effect may have happened; or the command is killed.  A
\* handler that is half done goes on.
RunFails ==
  /\ run # NoUrl
  /\ IF Calls("publish") THEN AddHandler(run.public) ELSE UNCHANGED handlers
  /\ run' = NoUrl
  /\ UNCHANGED <<serving, tunnel, remembered, granted, opened, page, endpoint, outcome>>

-----------------------------------------------------------------------------
(* Everything else. *)

\* The pair command: it writes no endpoint and makes no page.
PairCommand ==
  /\ serving' = TRUE
  /\ opened' = "command" /\ page' = NoUrl
  /\ UNCHANGED <<tunnel, remembered, handlers, granted, endpoint, run>>
  /\ outcome' = NoUrl

\* Before that it may start a tunnel, when it has found none; the one it gets
\* may have been started by another since.
PairTunnel ==
  /\ serving
  /\ StartTunnel
  /\ AddHandler(tunnel')
  /\ UNCHANGED <<serving, remembered, granted, opened, page, endpoint, run>>
  /\ outcome' = NoUrl

\* A handler of another call, the pair command's or that of a run that is over.
Publish(o) ==
  /\ handlers[o] # "idle" /\ handlers' = [handlers EXCEPT ![o] = "idle"]
  /\ remembered' = handlers[o]
  /\ run' = IF run = NoUrl THEN NoUrl ELSE [run EXCEPT !.crossed = @ \/ remembered # handlers[o]]
  /\ UNCHANGED <<serving, tunnel, granted, opened, page, endpoint>>
  /\ outcome' = NoUrl

Authorize ==
  /\ serving /\ opened # "none" /\ Cardinality(granted) < MaxGranted
  /\ opened' = "none" /\ page' = NoUrl
  /\ granted' = granted \cup {[url |-> Audience, old |-> FALSE]}
  /\ UNCHANGED <<bridge, endpoint, run>>
  /\ outcome' = NoUrl

\* A pairing code expires or is locked.
CodeEnds ==
  /\ opened # "none"
  /\ opened' = "none" /\ page' = NoUrl
  /\ UNCHANGED <<bridge, granted, endpoint, run>>
  /\ outcome' = NoUrl

TokenEnds ==
  /\ \E t \in granted : granted' = granted \ {t}
  /\ UNCHANGED <<bridge, opened, page, endpoint, run>>
  /\ outcome' = NoUrl

\* The bridge goes on remembering the URL.
TunnelEnds ==
  /\ tunnel # NoUrl /\ tunnel' = NoUrl
  /\ UNCHANGED <<serving, remembered, handlers, granted, opened, page, endpoint, run>>
  /\ outcome' = NoUrl

BridgeEnds ==
  /\ serving /\ serving' = FALSE
  /\ tunnel' = NoUrl /\ remembered' = NoUrl /\ handlers' = NoHandlers /\ opened' = "none" /\ page' = NoUrl
  /\ run' = IF run = NoUrl THEN NoUrl ELSE [run EXCEPT !.reached = FALSE]
  /\ UNCHANGED <<granted, endpoint>>
  /\ outcome' = NoUrl

SetupInit ==
  /\ serving = FALSE /\ tunnel = NoUrl /\ remembered = NoUrl /\ handlers = NoHandlers
  /\ granted = {} /\ opened = "none" /\ page = NoUrl /\ endpoint = NoUrl
  /\ run = NoUrl /\ outcome = NoUrl

SetupNext ==
  \/ \E local, reconnect \in BOOLEAN : EnsureBridge(local, reconnect)
  \/ ReadPublic \/ ReadTunnel \/ StopTunnel \/ RunTunnel \/ RunPublishes
  \/ RereadAudience \/ RereadUrl \/ CountTokens \/ Compare \/ RevokeAllOfAudience \/ WriteEndpoint
  \/ SetupSession \/ RunFails
  \/ PairCommand \/ PairTunnel \/ (\E o \in Others : Publish(o))
  \/ Authorize \/ CodeEnds \/ TokenEnds \/ TunnelEnds \/ BridgeEnds

SetupSpec == SetupInit /\ [][SetupNext]_setupVars

-----------------------------------------------------------------------------
(* Properties. *)

\* A saved endpoint is replaced only when the tokens from before the run are
\* gone: a run that fails anywhere leaves the old endpoint for the next one to
\* compare with, or nothing of the old connection (Service.Run revokes before
\* it writes).
ReplacedAfterRevoked ==
  [][endpoint' # endpoint /\ endpoint # NoUrl => \A t \in granted : ~t.old]_setupVars

\* A run that asks for no authorization found a token for the very endpoint it
\* reports and saves, whatever happened to bridge and tunnel on the way: "tokens
\* issued for an expired tunnel URL cannot make a new endpoint appear connected"
\* (TokenCountForAudience).  A run that was asked to reconnect always asks.  Two
\* exceptions: a run that stopped the tunnel (StopIsFinal), and a crossed run,
\* which took its URL from the tunnel's status because the bridge had none
\* (service.go:140), or during which the handler of another start or stop
\* changed the bridge's URL.  In both it may report a tunnel's URL with the tokens
\* of another audience.
NoFalseConnection ==
  outcome # NoUrl /\ ~outcome.required => (outcome.had \/ outcome.stopped \/ outcome.crossed) /\ ~outcome.reconnect

\* A local-only run that stopped the tunnel, with no other call in between, reports
\* and saves the bridge's own endpoint: it looks again "after the final tunnel
\* transition", so as to go by the "current MCP audience, not for stale tunnel
\* URLs" (Service.Run).
StopIsFinal == outcome # NoUrl /\ outcome.stopped /\ ~outcome.crossed => endpoint = LocalUrl

\* While the code of a setup page is open, the page shows the endpoint that is
\* saved: what the user copies from it is what the next run expects.
PageIsOfEndpoint == opened = "page" => page = endpoint
=============================================================================
