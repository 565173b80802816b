------------------------------- MODULE Tunnel -------------------------------
(***************************************************************************)
(* The tunnel of a bridge: the provider that runs cloudflared              *)
(* (internal/tunnel/provider.go), and the admin calls that start and stop  *)
(* it and the end of the bridge (internal/bridge/admin.go, server.go).     *)
(*                                                                         *)
(* A critical section of processProvider.mu or Server.mu is one step.       *)
(* A URL is named by the process that announced it; every process          *)
(* announces one of its own.  The runtime record is left to                *)
(* BridgeLifecycle.                                                        *)
(***************************************************************************)
EXTENDS Integers

CONSTANTS
  Starts,   \* calls of /admin/tunnel/start
  Stops,    \* calls of /admin/tunnel/stop
  Procs,    \* processes of cloudflared (bound of the model)
  Close,    \* the end of the bridge, which also stops the tunnel
  None

ASSUME TunnelAssumption == None \notin Procs /\ Close \notin Stops

VARIABLES
  cmd,        \* processProvider.cmd
  url,        \* processProvider.url
  generation, \* processProvider.generation
  proc,       \* the processes: unused, running, over (its output is still read) or reaped
  born,       \* the generation each process was started in
  announced,  \* processes whose URL has been read
  doomed,     \* processes that were taken out of cmd and are about to be killed
  killed,     \* history: processes that have been killed
  startAt, startProc,  \* where each start is, and the process it waits for or answers with
  stopAt, stopProc,    \* where each stop is, and the process it kills
  publicURL,  \* Server.publicURL
  bridge,     \* open, closing (the tunnel is stopped), closed (no calls any more)
  late        \* history: processes that were started while the bridge was closing

provider   == <<cmd, url, generation>>
processes  == <<proc, born, announced, doomed, killed, late>>
calls      == <<startAt, startProc, stopAt, stopProc>>
server     == <<publicURL, bridge>>
tunnelVars == <<provider, processes, calls, server>>

StartGoes(c, from, to) == startAt[c] = from /\ startAt' = [startAt EXCEPT ![c] = to]
StopGoes(d, from, to)  == stopAt[d] = from /\ stopAt' = [stopAt EXCEPT ![d] = to]

Own(q) == generation = born[q] /\ cmd = q

-----------------------------------------------------------------------------
(* Start. *)

Launch(c, q) ==
  /\ proc[q] = "unused"
  /\ proc' = [proc EXCEPT ![q] = "running"]
  /\ born' = [born EXCEPT ![q] = generation + 1]
  /\ late' = IF bridge = "closing" THEN late \cup {q} ELSE late
  /\ generation' = generation + 1
  /\ cmd' = q /\ url' = None
  /\ StartGoes(c, "idle", "waiting")
  /\ startProc' = [startProc EXCEPT ![c] = q]

\* Mutant: a start does not see that another one is under way.
StartAgain(c) ==
  /\ bridge # "closed" /\ startAt[c] = "idle"
  /\ IF url # None
     THEN /\ StartGoes(c, "idle", "publish") /\ startProc' = [startProc EXCEPT ![c] = url]
          /\ UNCHANGED <<provider, proc, born, late>>
     ELSE \/ \E q \in Procs : Launch(c, q)
          \/ StartGoes(c, "idle", "done") /\ url' = None
             /\ UNCHANGED <<cmd, generation, proc, born, late, startProc>>
  /\ UNCHANGED <<announced, doomed, killed, stopAt, stopProc, server>>

\* A tunnel that is up is reused, one that is starting is an error, and
\* cloudflared may not be there.
Start(c) ==
  /\ bridge # "closed" /\ startAt[c] = "idle"
  /\ IF cmd # None
     THEN /\ IF url # None
             THEN StartGoes(c, "idle", "publish") /\ startProc' = [startProc EXCEPT ![c] = url]
             ELSE StartGoes(c, "idle", "done") /\ UNCHANGED startProc
          /\ UNCHANGED <<provider, proc, born, late>>
     ELSE \/ \E q \in Procs : Launch(c, q)
          \/ StartGoes(c, "idle", "done") /\ url' = None
             /\ UNCHANGED <<cmd, generation, proc, born, late, startProc>>
  /\ UNCHANGED <<announced, doomed, killed, stopAt, stopProc, server>>

\* Mutant: a tunnel that was stopped meanwhile is taken for established.
ReadyUnchecked(c) ==
  LET q == startProc[c] IN
  /\ q \in announced
  /\ StartGoes(c, "waiting", "publish") /\ url' = q
  /\ UNCHANGED <<cmd, generation, processes, startProc, stopAt, stopProc, server>>

Ready(c) ==
  LET q == startProc[c] IN
  /\ q \in announced
  /\ IF Own(q) THEN StartGoes(c, "waiting", "publish") /\ url' = q
     ELSE StartGoes(c, "waiting", "done") /\ UNCHANGED url
  /\ UNCHANGED <<cmd, generation, processes, startProc, stopAt, stopProc, server>>

ExitedEarly(c) ==
  /\ StartGoes(c, "waiting", "done")
  /\ proc[startProc[c]] = "reaped"
  /\ UNCHANGED <<provider, processes, startProc, stopAt, stopProc, server>>

\* stopGeneration, by the timer or the context.
TimedOut(c) ==
  LET q == startProc[c] IN
  /\ StartGoes(c, "waiting", "done")
  /\ IF generation = born[q] /\ cmd # None
     THEN cmd' = None /\ url' = None /\ doomed' = doomed \cup {cmd}
     ELSE UNCHANGED <<cmd, url, doomed>>
  /\ UNCHANGED <<generation, proc, born, announced, killed, late, startProc, stopAt, stopProc, server>>

-----------------------------------------------------------------------------
(* cloudflared and the goroutine that waits for it. *)

Announce(q) ==
  /\ proc[q] \in {"running", "over"} /\ q \notin announced
  /\ announced' = announced \cup {q}
  /\ UNCHANGED <<provider, proc, born, doomed, killed, late, calls, server>>

Exit(q) ==
  /\ proc[q] = "running"
  /\ proc' = [proc EXCEPT ![q] = "over"]
  /\ UNCHANGED <<provider, born, announced, doomed, killed, late, calls, server>>

Kill(q) ==
  /\ q \in doomed
  /\ doomed' = doomed \ {q} /\ killed' = killed \cup {q}
  /\ proc' = [proc EXCEPT ![q] = IF @ = "running" THEN "over" ELSE @]
  /\ UNCHANGED <<provider, born, announced, late, calls, server>>

\* Mutant: the end of a process is not noticed.
ReapOnly(q) ==
  /\ proc[q] = "over"
  /\ proc' = [proc EXCEPT ![q] = "reaped"]
  /\ UNCHANGED <<provider, born, announced, doomed, killed, late, calls, server>>

Reap(q) ==
  /\ proc[q] = "over"
  /\ proc' = [proc EXCEPT ![q] = "reaped"]
  /\ IF Own(q) THEN cmd' = None /\ url' = None ELSE UNCHANGED <<cmd, url>>
  /\ UNCHANGED <<generation, born, announced, doomed, killed, late, calls, server>>

-----------------------------------------------------------------------------
(* Stop, and what the server publishes. *)

\* processProvider.Stop, but for the kill.
Release ==
  /\ cmd' = None /\ url' = None /\ generation' = generation + 1
  /\ doomed' = IF cmd = None THEN doomed ELSE doomed \cup {cmd}

Stop(d) ==
  /\ bridge # "closed"
  /\ StopGoes(d, "idle", "killing")
  /\ stopProc' = [stopProc EXCEPT ![d] = cmd]
  /\ Release
  /\ UNCHANGED <<proc, born, announced, killed, late, startAt, startProc, server>>

\* The kill is over when the process is no longer doomed.
Unpublish(d) ==
  /\ stopProc[d] \notin doomed
  /\ StopGoes(d, "killing", "done")
  /\ publicURL' = None
  /\ UNCHANGED <<provider, processes, startAt, startProc, stopProc, bridge>>

Publish(c) ==
  /\ StartGoes(c, "publish", "done")
  /\ publicURL' = startProc[c]
  /\ UNCHANGED <<provider, processes, startProc, stopAt, stopProc, bridge>>

\* Server.Close stops the tunnel, and only then takes no more calls.  It waits
\* 5 seconds for those that run: a Stop or a TimedOut that has taken a process
\* out of cmd is given the time to kill it.
CloseStop ==
  /\ bridge = "open" /\ bridge' = "closing"
  /\ stopProc' = [stopProc EXCEPT ![Close] = cmd]
  /\ Release
  /\ UNCHANGED <<proc, born, announced, killed, late, startAt, startProc, stopAt, publicURL>>

CloseShutdown ==
  /\ bridge = "closing" /\ bridge' = "closed"
  /\ stopProc[Close] \notin doomed
  /\ UNCHANGED <<provider, processes, calls, publicURL>>

-----------------------------------------------------------------------------
TunnelInit ==
  /\ cmd = None /\ url = None /\ generation = 0
  /\ proc = [q \in Procs |-> "unused"] /\ born = [q \in Procs |-> 0]
  /\ announced = {} /\ doomed = {} /\ killed = {} /\ late = {}
  /\ startAt = [c \in Starts |-> "idle"] /\ startProc = [c \in Starts |-> None]
  /\ stopAt = [d \in Stops |-> "idle"] /\ stopProc = [d \in Stops \cup {Close} |-> None]
  /\ publicURL = None /\ bridge = "open"

TunnelNext ==
  \/ \E c \in Starts : Start(c) \/ Ready(c) \/ ExitedEarly(c) \/ TimedOut(c) \/ Publish(c)
  \/ \E d \in Stops : Stop(d) \/ Unpublish(d)
  \/ \E q \in Procs : Announce(q) \/ Exit(q) \/ Kill(q) \/ Reap(q)
  \/ CloseStop \/ CloseShutdown

\* The goroutine that waits for a process, and the one that is to kill it.
TunnelFairness == \A q \in Procs : WF_tunnelVars(Reap(q)) /\ WF_tunnelVars(Kill(q))

TunnelSpec == TunnelInit /\ [][TunnelNext]_tunnelVars /\ TunnelFairness

-----------------------------------------------------------------------------
(* Properties. *)

\* Status reports a URL only of the process that is current, that announced it
\* itself, and that nobody has stopped.
StatusIsOwn == url # None => url = cmd /\ url \in announced /\ url \notin killed \cup doomed

\* A cloudflared that runs can still be stopped, or is being killed: none is
\* lost between starts, stops, timeouts, the end of an older one and the end of
\* the bridge.  The exception is one that was started between the two halves
\* of Close (server.go:293-297): it runs on when the bridge is gone.
NoneLost ==
  \A q \in Procs : proc[q] = "running" /\ q \notin late =>
    (q = cmd /\ bridge # "closed") \/ q \in doomed

\* A tunnel that has ended, by itself or by a kill, stops being reported.
EndIsNoticed == \A q \in Procs : proc[q] = "over" ~> url # q
=============================================================================
