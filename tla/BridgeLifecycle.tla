-------------------------- MODULE BridgeLifecycle --------------------------
(***************************************************************************)
(* Starting, finding and stopping the bridge of one workspace: the bridge  *)
(* processes (codexlink serve: bridge/server.go), the commands that ensure *)
(* or stop one (runtime/daemon.go) and the two files they share, the       *)
(* runtime record and the workspace lock.                                  *)
(*                                                                         *)
(* Processes interleave between any two accesses to a file or to another   *)
(* process.  A bridge is also its PID: PIDs are not reused.                *)
(***************************************************************************)
EXTENDS FiniteSets, Integers

CONSTANTS
  Bridges,      \* processes that run codexlink serve for the workspace
  Commands,     \* processes that call Ensure or Stop
  Ports,        \* loopback ports
  DefaultPort,  \* the port a bridge prefers
  Versions,     \* released versions
  Version,      \* the version of each command, and of the bridges it spawns
  Mortal,       \* bridges that may be killed from outside
  None          \* absence of a file, a bridge, a port

ASSUME LifecycleAssumption ==
  /\ None \notin Bridges \cup Commands \cup Ports \cup {"ready", "failed", "none", "stopped"}
  /\ DefaultPort \in Ports
  /\ Version \in [Commands -> Versions]
  /\ Mortal \subseteq Bridges

VARIABLES
  stage,    \* per bridge: how far Start, serve and Close have come
  port,     \* per bridge: the port it is bound to, or was when it died
  release,  \* per bridge: its version
  found,    \* per bridge: the runtime record Start read
  tries,    \* per bridge: attempts of acquireWorkspaceLock that ended in a removal
  runtime,  \* runtime/<workspace>.json: the bridge whose state it holds
  lock,     \* locks/<workspace>.lock: who created it, whether its record was
            \* written, and whether it is younger than 30 seconds
  asked,    \* bridges that were told to stop
  step,     \* per command: where it is
  seen,     \* per command: the runtime record it read last
  child,    \* per command: the bridge it spawned
  pid,      \* per command: the PID in the health answer Stop got
  replaces, \* per command: the call of Stop is one of Ensure
  result,   \* per command: how it ended
  killed    \* history: bridges that died of a signal or a crash

bridgeVars  == <<stage, port, release, found, tries>>
files       == <<runtime, lock>>
commandVars == <<step, seen, child, pid, replaces, result>>
vars        == <<bridgeVars, files, asked, commandVars, killed>>

Starting == {"find", "probe", "clear", "lock", "inspect", "steal", "locked", "open"}
Closing  == {"closing", "cleared", "unlocked"}
Alive    == Starting \cup {"serving"} \cup Closing

At(b, s)      == stage[b] = s
Go(b, s)      == stage' = [stage EXCEPT ![b] = s]
Answering(p)  == {b \in Bridges : At(b, "serving") /\ port[b] = p}

-----------------------------------------------------------------------------
(* A bridge starts. *)

\* FindLive in Start: read, probe, clear; and then the lock.
StartRead(b) ==
  /\ At(b, "find")
  /\ found' = [found EXCEPT ![b] = runtime]
  /\ Go(b, IF runtime = None THEN "lock" ELSE "probe")
  /\ UNCHANGED <<port, release, tries, files, asked, commandVars, killed>>

StartProbe(b) ==
  /\ At(b, "probe")
  /\ Go(b, IF Answering(port[found[b]]) # {} THEN "dead" ELSE "clear")
  /\ UNCHANGED <<port, release, found, tries, files, asked, commandVars, killed>>

StartClear(b) ==
  /\ At(b, "clear")
  /\ runtime' = None
  /\ Go(b, "lock")
  /\ UNCHANGED <<port, release, found, tries, lock, asked, commandVars, killed>>

\* acquireWorkspaceLock: the file is created, and its record written afterwards.
LockCreate(b) ==
  /\ At(b, "lock")
  /\ IF lock = None
     THEN lock' = [owner |-> b, written |-> FALSE, fresh |-> TRUE] /\ Go(b, "locked")
     ELSE Go(b, "inspect") /\ UNCHANGED lock
  /\ UNCHANGED <<port, release, found, tries, runtime, asked, commandVars, killed>>

\* No file, and a file without a record, read as a record of PID 0 that is as
\* old as the epoch.
LockHeld == lock # None /\ lock.written /\ (lock.fresh \/ stage[lock.owner] \in Alive)

LockInspect(b) ==
  /\ At(b, "inspect")
  /\ Go(b, IF LockHeld THEN "dead" ELSE "steal")
  /\ UNCHANGED <<port, release, found, tries, files, asked, commandVars, killed>>

\* The lock that was found stale is removed, whatever it is by now; there are
\* two attempts.
LockRemove(b) ==
  /\ At(b, "steal")
  /\ lock' = None
  /\ tries' = [tries EXCEPT ![b] = @ + 1]
  /\ Go(b, IF tries[b] = 0 THEN "lock" ELSE "dead")
  /\ UNCHANGED <<port, release, found, runtime, asked, commandVars, killed>>

\* The record goes to the file that was created, removed or not.
LockWrite(b) ==
  /\ At(b, "locked")
  /\ lock' = IF lock # None /\ lock.owner = b THEN [lock EXCEPT !.written = TRUE] ELSE lock
  /\ Go(b, "open")
  /\ UNCHANGED <<port, release, found, tries, runtime, asked, commandVars, killed>>

FreePorts == {p \in Ports : Answering(p) = {}}

\* The rest of Start succeeded: port, stores and runtime record.
Opened(b) ==
  /\ \E p \in FreePorts :
       /\ DefaultPort \in FreePorts => p = DefaultPort
       /\ port' = [port EXCEPT ![b] = p]
  /\ runtime' = b
  /\ Go(b, "serving")
  /\ UNCHANGED lock

\* Mutant: a start that fails leaves the lock.
OpenFailedLeaking(b) == Go(b, "dead") /\ UNCHANGED <<port, files>>

\* It failed: the file at the lock's path is removed.
OpenFailed(b) == lock' = None /\ Go(b, "dead") /\ UNCHANGED <<port, runtime>>

Open(b) ==
  /\ At(b, "open")
  /\ Opened(b) \/ OpenFailed(b)
  /\ UNCHANGED <<release, found, tries, asked, commandVars, killed>>

-----------------------------------------------------------------------------
(* A bridge serves and ends. *)

\* persistRuntime, when a tunnel has been started or stopped.
PersistAgain(b) ==
  /\ At(b, "serving")
  /\ runtime' = b
  /\ UNCHANGED <<bridgeVars, lock, asked, commandVars, killed>>

\* Close, on /admin/shutdown, a signal, or an error of the HTTP server.
CloseListener(b) ==
  /\ At(b, "serving")
  /\ Go(b, "closing")
  /\ UNCHANGED <<port, release, found, tries, files, asked, commandVars, killed>>

CloseClear(b) ==
  /\ At(b, "closing")
  /\ runtime' = None
  /\ Go(b, "cleared")
  /\ UNCHANGED <<port, release, found, tries, lock, asked, commandVars, killed>>

CloseUnlock(b) ==
  /\ At(b, "cleared")
  /\ lock' = None
  /\ Go(b, "unlocked")
  /\ UNCHANGED <<port, release, found, tries, runtime, asked, commandVars, killed>>

Exit(b) ==
  /\ At(b, "unlocked")
  /\ Go(b, "dead")
  /\ UNCHANGED <<port, release, found, tries, files, asked, commandVars, killed>>

Crash(b) ==
  /\ b \in Mortal /\ stage[b] \in Alive
  /\ Go(b, "dead")
  /\ killed' = killed \cup {b}
  /\ UNCHANGED <<port, release, found, tries, files, asked, commandVars>>

\* 30 seconds have passed since the lock was created.
LockAges ==
  /\ lock # None /\ lock.fresh
  /\ lock' = [lock EXCEPT !.fresh = FALSE]
  /\ UNCHANGED <<bridgeVars, runtime, asked, commandVars, killed>>

\* SIGTERM: serve handles it only once Start has returned.
Terminate(b) ==
  \/ /\ At(b, "serving")
     /\ asked' = asked \cup {b}
     /\ UNCHANGED <<stage, killed>>
  \/ /\ stage[b] \in Starting \cup {"serving"}
     /\ Go(b, "dead")
     /\ killed' = killed \cup {b}
     /\ UNCHANGED asked
  \/ /\ stage[b] \in Closing \cup {"dead"}
     /\ UNCHANGED <<stage, killed, asked>>

\* Mutant: a second SIGTERM instead of SIGKILL.
KillPolitely(b) == stage[b] \in Alive /\ UNCHANGED <<stage, killed>>

\* SIGKILL.
Kill(b) ==
  /\ stage[b] \in Alive
  /\ Go(b, "dead")
  /\ killed' = killed \cup {b}

-----------------------------------------------------------------------------
(* Ensure. *)

Moves(c, from, to) == step[c] = from /\ step' = [step EXCEPT ![c] = to]
Ends(c, r) == step' = [step EXCEPT ![c] = "done"] /\ result' = [result EXCEPT ![c] = r]

\* FindLive, or the Read of Stop: a record is probed, its absence goes on.
Reads(c, from, probing, without) ==
  /\ step[c] = from
  /\ seen' = [seen EXCEPT ![c] = runtime]
  /\ step' = [step EXCEPT ![c] = IF runtime = None THEN without ELSE probing]

Clears(c, from, to) == Moves(c, from, to) /\ runtime' = None

EnsureRead(c) ==
  /\ Reads(c, "idle", "probe", "spawn")
  /\ UNCHANGED <<bridgeVars, files, asked, child, pid, replaces, result, killed>>

\* A bridge of the same version is reused, another one replaced.
EnsureProbe(c) ==
  /\ step[c] = "probe"
  /\ IF Answering(port[seen[c]]) = {}
     THEN Moves(c, "probe", "clear") /\ UNCHANGED <<replaces, result>>
     ELSE IF release[seen[c]] = Version[c]
     THEN Ends(c, "ready") /\ UNCHANGED replaces
     ELSE /\ Moves(c, "probe", "stop")
          /\ replaces' = [replaces EXCEPT ![c] = TRUE]
          /\ UNCHANGED result
  /\ UNCHANGED <<bridgeVars, files, asked, seen, child, pid, killed>>

EnsureClear(c) ==
  /\ Clears(c, "clear", "spawn")
  /\ UNCHANGED <<bridgeVars, lock, asked, seen, child, pid, replaces, result, killed>>

Spawn(c) ==
  /\ Moves(c, "spawn", "wait")
  /\ \E b \in Bridges :
       /\ At(b, "unborn") /\ Go(b, "find")
       /\ release' = [release EXCEPT ![b] = Version[c]]
       /\ child' = [child EXCEPT ![c] = b]
  /\ UNCHANGED <<port, found, tries, files, asked, seen, pid, replaces, result, killed>>

\* The ticker: FindLive again.
WaitRead(c) ==
  /\ Reads(c, "wait", "waitProbe", "wait")
  /\ UNCHANGED <<bridgeVars, files, asked, child, pid, replaces, result, killed>>

WaitProbe(c) ==
  /\ step[c] = "waitProbe"
  /\ IF Answering(port[seen[c]]) # {} THEN Ends(c, "ready")
     ELSE Moves(c, "waitProbe", "waitClear") /\ UNCHANGED result
  /\ UNCHANGED <<bridgeVars, files, asked, seen, child, pid, replaces, killed>>

WaitClear(c) ==
  /\ Clears(c, "waitClear", "wait")
  /\ UNCHANGED <<bridgeVars, lock, asked, seen, child, pid, replaces, result, killed>>

\* The spawned bridge has exited.
WaitExit(c) ==
  /\ step[c] = "wait" /\ At(child[c], "dead")
  /\ runtime' = None
  /\ Ends(c, "failed")
  /\ UNCHANGED <<bridgeVars, lock, asked, seen, child, pid, replaces, killed>>

\* Mutant: the bridge that did not become healthy is left alone.
WaitDeadlineLeaving(c) ==
  /\ step[c] = "wait"
  /\ Ends(c, "failed")
  /\ runtime' = None
  /\ UNCHANGED <<bridgeVars, lock, asked, seen, child, pid, replaces, killed>>

\* The deadline, or the caller gave up: the spawned bridge is stopped.
WaitDeadline(c) ==
  /\ Moves(c, "wait", "kill")
  /\ Terminate(child[c])
  /\ UNCHANGED <<port, release, found, tries, files, seen, child, pid, replaces, result>>

KillForce(c) ==
  /\ step[c] = "kill" /\ Kill(child[c])
  /\ UNCHANGED <<port, release, found, tries, files, asked, commandVars>>

KillDone(c) ==
  /\ step[c] = "kill" /\ At(child[c], "dead")
  /\ runtime' = None
  /\ Ends(c, "failed")
  /\ UNCHANGED <<bridgeVars, lock, asked, seen, child, pid, replaces, killed>>

-----------------------------------------------------------------------------
(* Stop, called by a command or by Ensure. *)

\* Nothing was stopped; an Ensure that wanted to replace a bridge fails.
Nothing(c) == Ends(c, IF replaces[c] THEN "failed" ELSE "none")

StopRead(c) ==
  /\ step[c] \in {"idle", "stop"}
  /\ seen' = [seen EXCEPT ![c] = runtime]
  /\ IF runtime = None THEN Nothing(c)
     ELSE step' = [step EXCEPT ![c] = "stopProbe"] /\ UNCHANGED result
  /\ UNCHANGED <<bridgeVars, files, asked, child, pid, replaces, killed>>

StopProbe(c) ==
  /\ step[c] = "stopProbe"
  /\ IF Answering(port[seen[c]]) = {}
     THEN step' = [step EXCEPT ![c] = "stopClear"] /\ UNCHANGED pid
     ELSE /\ step' = [step EXCEPT ![c] = "stopAdmin"]
          /\ \E b \in Answering(port[seen[c]]) : pid' = [pid EXCEPT ![c] = b]
  /\ UNCHANGED <<bridgeVars, files, asked, seen, child, replaces, result, killed>>

StopClear(c) ==
  /\ step[c] = "stopClear"
  /\ runtime' = None
  /\ Nothing(c)
  /\ UNCHANGED <<bridgeVars, lock, asked, seen, child, pid, replaces, killed>>

\* Without a health answer from the recorded PID there is no signal.
Fallback(c) ==
  IF pid[c] = seen[c] THEN step' = [step EXCEPT ![c] = "stopKill"] /\ UNCHANGED result
  ELSE Ends(c, "failed")

\* /admin/shutdown takes the token of the bridge that wrote the record.
StopAdmin(c) ==
  /\ step[c] = "stopAdmin"
  /\ IF At(seen[c], "serving")
     THEN /\ asked' = asked \cup {seen[c]}
          /\ step' = [step EXCEPT ![c] = "stopWait"]
          /\ UNCHANGED result
     ELSE Fallback(c) /\ UNCHANGED asked
  /\ UNCHANGED <<bridgeVars, files, seen, child, pid, replaces, killed>>

StopTimeout(c) ==
  /\ step[c] = "stopWait"
  /\ Fallback(c)
  /\ UNCHANGED <<bridgeVars, files, asked, seen, child, pid, replaces, killed>>

StopKill(c) ==
  /\ Moves(c, "stopKill", "stopKilling")
  /\ Terminate(seen[c])
  /\ UNCHANGED <<port, release, found, tries, files, seen, child, pid, replaces, result>>

StopForce(c) ==
  /\ step[c] = "stopKilling" /\ Kill(seen[c])
  /\ UNCHANGED <<port, release, found, tries, files, asked, commandVars>>

\* Mutant: an acknowledged shutdown counts as done.
StoppedEarly(c) ==
  /\ step[c] \in {"stopWait", "stopKilling"}
  /\ runtime' = None
  /\ IF replaces[c] THEN step' = [step EXCEPT ![c] = "spawn"] /\ UNCHANGED result
     ELSE Ends(c, "stopped")
  /\ UNCHANGED <<bridgeVars, lock, asked, seen, child, pid, replaces, killed>>

\* The process is gone; an Ensure goes on to spawn its own.
Stopped(c) ==
  /\ step[c] \in {"stopWait", "stopKilling"} /\ At(seen[c], "dead")
  /\ runtime' = None
  /\ IF replaces[c] THEN step' = [step EXCEPT ![c] = "spawn"] /\ UNCHANGED result
     ELSE Ends(c, "stopped")
  /\ UNCHANGED <<bridgeVars, lock, asked, seen, child, pid, replaces, killed>>

-----------------------------------------------------------------------------

Init ==
  /\ stage = [b \in Bridges |-> "unborn"]
  /\ port = [b \in Bridges |-> None] /\ release = [b \in Bridges |-> None]
  /\ found = [b \in Bridges |-> None] /\ tries = [b \in Bridges |-> 0]
  /\ runtime = None /\ lock = None
  /\ asked = {}
  /\ step = [c \in Commands |-> "idle"]
  /\ seen = [c \in Commands |-> None] /\ child = [c \in Commands |-> None]
  /\ pid = [c \in Commands |-> None]
  /\ replaces = [c \in Commands |-> FALSE] /\ result = [c \in Commands |-> None]
  /\ killed = {}

Start(b) ==
  \/ StartRead(b) \/ StartProbe(b) \/ StartClear(b)
  \/ LockCreate(b) \/ LockInspect(b) \/ LockRemove(b) \/ LockWrite(b)
  \/ Open(b)

Close(b) == CloseClear(b) \/ CloseUnlock(b) \/ Exit(b)

Ensure(c) ==
  \/ EnsureRead(c) \/ EnsureProbe(c) \/ EnsureClear(c) \/ Spawn(c)
  \/ WaitRead(c) \/ WaitProbe(c) \/ WaitClear(c) \/ WaitExit(c)
  \/ WaitDeadline(c) \/ KillForce(c) \/ KillDone(c)

Stop(c) ==
  \/ StopRead(c) \/ StopProbe(c) \/ StopClear(c) \/ StopAdmin(c) \/ StopTimeout(c)
  \/ StopKill(c) \/ StopForce(c) \/ Stopped(c)

Next ==
  \/ \E b \in Bridges : Start(b) \/ PersistAgain(b) \/ CloseListener(b) \/ Close(b) \/ Crash(b)
  \/ \E c \in Commands : Ensure(c) \/ Stop(c)
  \/ LockAges

Spec == Init /\ [][Next]_vars

\* A command that has begun goes on, its deadline comes, and SIGKILL kills;
\* whether it begins, and what bridges do, is left open.
FairSpec ==
  /\ Spec
  /\ \A c \in Commands :
       /\ WF_vars(step[c] # "idle" /\ (Ensure(c) \/ Stop(c)))
       /\ SF_vars(WaitDeadline(c))

-----------------------------------------------------------------------------
(* Properties. *)

TypeOK ==
  /\ stage \in [Bridges -> Alive \cup {"unborn", "dead"}]
  /\ port \in [Bridges -> Ports \cup {None}]
  /\ release \in [Bridges -> Versions \cup {None}]
  /\ found \in [Bridges -> Bridges \cup {None}]
  /\ tries \in [Bridges -> 0..2]
  /\ runtime \in Bridges \cup {None}
  /\ lock \in [owner : Bridges, written : BOOLEAN, fresh : BOOLEAN] \cup {None}
  /\ asked \subseteq Bridges
  /\ seen \in [Commands -> Bridges \cup {None}]
  /\ child \in [Commands -> Bridges \cup {None}]
  /\ result \in [Commands -> {"ready", "failed", "none", "stopped", None}]

\* A bridge that ends on its own account leaves no lock of its own behind that
\* would keep the next one from starting (cleanupLock in Start, and Close).
LockNotLeaked ==
  \A b \in Bridges : At(b, "dead") /\ b \notin killed => lock = None \/ lock.owner # b

\* An Ensure that reports failure after it spawned a bridge leaves no process
\* that might come up later and contradict the report (fail in Ensure).
FailureLeavesNothing ==
  \A c \in Commands : result[c] = "failed" /\ child[c] # None => At(child[c], "dead")

\* Whoever is told that a bridge was stopped, or replaces it, finds it gone,
\* with its hold of the stores.
StoppedIsGone ==
  \A c \in Commands : result[c] = "stopped" \/ (replaces[c] /\ child[c] # None) =>
    pid[c] # None /\ At(pid[c], "dead")

\* A command that has begun ends, whatever bridges and other commands do.
CommandEnds == \A c \in Commands : step[c] # "idle" ~> step[c] = "done"

\* The lock's promise (bridge/process_windows.go, "A fresh lock is protected by
\* the startup grace period"): two bridges never have the workspace's stores
\* open at the same time.
OneBridge ==
  \A a, b \in Bridges : stage[a] \in {"serving", "closing"} /\ stage[b] \in {"serving", "closing"} => a = b

\* skill/SKILL.md: the command "is idempotent" and "starts or reuses the bridge".
\* A bridge that a command has reported ready, and that nobody has asked to
\* stop, can be found by the next command.
Reusable ==
  \A c \in Commands : result[c] = "ready" =>
    (At(seen[c], "serving") /\ seen[c] \notin asked => runtime = seen[c])
=============================================================================
