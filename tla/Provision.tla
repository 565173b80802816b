----------------------------- MODULE Provision -----------------------------
(***************************************************************************)
(* `codexlink tunnel choose` (internal/tunnel/provision.go, state.go): a   *)
(* named tunnel is created at Cloudflare, its hostname is routed, and the  *)
(* choice is saved; whatever fails on the way, the workspace is switched   *)
(* to a quick tunnel.  Each call of cloudflared is one step: it may fail,  *)
(* and it may have happened although it is reported as failed.  Commands   *)
(* overlap, and a command may be killed at any point.                      *)
(*                                                                         *)
(* A tunnel is known by its workspace, whose identifier its name contains. *)
(***************************************************************************)
CONSTANTS
  Workspaces,
  Hostnames,  \* hostnames that may be asked for
  Chooses,    \* runs of the command
  NoTunnel    \* absence of a route, a hostname or a command

ASSUME ProvisionAssumption == NoTunnel \notin Workspaces \cup Hostnames

VARIABLES
  account,   \* workspaces whose tunnel exists at Cloudflare
  routes,    \* per hostname: the workspace whose tunnel it leads to, or NoTunnel
  mistaken,  \* history: workspaces without a tunnel for which a failed create printed an ID
  lost,      \* history: <<workspace, hostname>> whose routing was refused because another has it
  saved,     \* per workspace: [preference, host], "unset" at first
  choosing   \* per command: [stage, workspace, host] or NoTunnel

provisionVars == <<account, mistaken, routes, lost, saved, choosing>>

-----------------------------------------------------------------------------
InStage(c, stage) == choosing[c] # NoTunnel /\ choosing[c].stage = stage
Turn(c, stage) == choosing' = [choosing EXCEPT ![c].stage = stage]
Leave(c) == choosing' = [choosing EXCEPT ![c] = NoTunnel]

\* ProvisionNamed with a valid zone and hostname, logged in.
ProvisionNamed(c, w, h) ==
  /\ choosing[c] = NoTunnel
  /\ choosing' = [choosing EXCEPT ![c] = [stage |-> "create", workspace |-> w, host |-> h]]
  /\ UNCHANGED <<account, mistaken, routes, lost, saved>>

\* The workspaces whose tunnel a command has some reason to believe in.
Believed == account \cup mistaken

\* The tunnel is looked for before it is made; the listing may fail.
ListFirst(c) ==
  /\ InStage(c, "create")
  /\ \/ Turn(c, "make")
     \/ choosing[c].workspace \in account /\ Turn(c, "route")
  /\ UNCHANGED <<account, mistaken, routes, lost, saved>>

\* An identifier in the output counts as a tunnel, whether the call fails or not.
\* Without one a refusal because the tunnel exists has it looked for again.
Make(c) ==
  /\ InStage(c, "make")
  /\ LET w == choosing[c].workspace
     IN IF w \in account THEN (Turn(c, "again") \/ Turn(c, "route")) /\ UNCHANGED <<account, mistaken>>
        ELSE \/ /\ account' = account \cup {w}
                /\ mistaken' = mistaken \ {w}
                /\ Turn(c, "route") \/ Turn(c, "fallback")
             \/ /\ mistaken' = mistaken \cup {w}
                /\ Turn(c, "route")
                /\ UNCHANGED account
  /\ UNCHANGED <<routes, lost, saved>>

ListAgain(c) ==
  /\ InStage(c, "again")
  /\ Turn(c, IF choosing[c].workspace \in account THEN "route" ELSE "fallback")
  /\ UNCHANGED <<account, mistaken, routes, lost, saved>>

\* Mutant: a routing that fails is taken for one that exists.
RouteAnyway(c) ==
  /\ InStage(c, "route")
  /\ Turn(c, "save")
  /\ LET h == choosing[c].host
     IN \/ routes[h] = NoTunnel /\ routes' = [routes EXCEPT ![h] = choosing[c].workspace] /\ UNCHANGED lost
        \/ UNCHANGED <<routes, lost>>
  /\ UNCHANGED <<account, mistaken, saved>>

\* A name that is routed, to whichever tunnel, counts as success.  Cloudflare may
\* take a name for a tunnel it does not have, or refuse it.
RouteDNS(c) ==
  /\ InStage(c, "route")
  /\ LET h == choosing[c].host
         w == choosing[c].workspace
     IN IF routes[h] = NoTunnel
        THEN /\ routes' = [routes EXCEPT ![h] = w]
             /\ Turn(c, "save") \/ Turn(c, "fallback")
             /\ UNCHANGED lost
        ELSE /\ Turn(c, "save")
             /\ lost' = IF routes[h] = w THEN lost ELSE lost \cup {<<w, h>>}
             /\ UNCHANGED routes
  /\ UNCHANGED <<account, mistaken, saved>>

Save(c) ==
  /\ InStage(c, "save")
  /\ saved' = [saved EXCEPT ![choosing[c].workspace] = [preference |-> "named", host |-> choosing[c].host]]
  /\ Leave(c)
  /\ UNCHANGED <<account, mistaken, routes, lost>>

\* The login, a listing, a call or the write fails.
StepFails(c) ==
  /\ choosing[c] # NoTunnel /\ ~InStage(c, "fallback")
  /\ Turn(c, "fallback")
  /\ UNCHANGED <<account, mistaken, routes, lost, saved>>

ChooseQuick(w) == saved' = [saved EXCEPT ![w] = [preference |-> "quick", host |-> NoTunnel]]

Fallback(c) ==
  /\ InStage(c, "fallback")
  /\ ChooseQuick(choosing[c].workspace) \/ UNCHANGED saved
  /\ Leave(c)
  /\ UNCHANGED <<account, mistaken, routes, lost>>

ChooseQuickCommand(w) ==
  /\ ChooseQuick(w)
  /\ UNCHANGED <<account, mistaken, routes, lost, choosing>>

Killed(c) ==
  /\ choosing[c] # NoTunnel
  /\ Leave(c)
  /\ UNCHANGED <<account, mistaken, routes, lost, saved>>

\* The hostname a bridge that is started now serves, NoTunnel for a quick tunnel.
ProviderForState(w) == IF saved[w].preference = "named" THEN saved[w].host ELSE NoTunnel

ProvisionInit ==
  /\ account = {} /\ mistaken = {} /\ lost = {}
  /\ routes = [h \in Hostnames |-> NoTunnel]
  /\ saved = [w \in Workspaces |-> [preference |-> "unset", host |-> NoTunnel]]
  /\ choosing = [c \in Chooses |-> NoTunnel]

ProvisionNext ==
  \/ \E c \in Chooses : \/ \E w \in Workspaces, h \in Hostnames : ProvisionNamed(c, w, h)
                        \/ ListFirst(c) \/ Make(c) \/ ListAgain(c) \/ RouteDNS(c) \/ Save(c)
                        \/ StepFails(c) \/ Fallback(c) \/ Killed(c)
  \/ \E w \in Workspaces : ChooseQuickCommand(w)

ProvisionSpec == ProvisionInit /\ [][ProvisionNext]_provisionVars

-----------------------------------------------------------------------------
(* Properties. *)

\* A bridge is started for a hostname only if its tunnel exists at Cloudflare and
\* the hostname leads to it, however often and by how many commands at once it was
\* provisioned, and wherever one of them failed or was killed (ProvisionNamed
\* saves the choice last).  Two cases are excepted: a name that was found taken is
\* counted as routed, and an ID that a failed create printed is counted as a
\* tunnel (provision.go:158 takes it before it looks at the error).
NamedIsReal ==
  \A w \in Workspaces : LET h == ProviderForState(w) IN
    h # NoTunnel => /\ w \in Believed
                    /\ routes[h] = w \/ <<w, h>> \in lost
=============================================================================
