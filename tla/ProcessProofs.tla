---------------------------- MODULE ProcessProofs ----------------------------
(***************************************************************************)
(* What the processes of the program promise that share a secret and a     *)
(* tunnel, for any number of calls and processes.                          *)
(***************************************************************************)
EXTENDS InstallSecret, Tunnel, TLAPS

-----------------------------------------------------------------------------
(* The secret of an installation: OneSecret, for any number of calls. *)

SecretTypeOK ==
  /\ secret \in Calls \cup {Absent, Corrupt}
  /\ lock \in Calls \cup {Absent}
  /\ at \in [Calls -> Running \cup {"idle", "end"}]
  /\ result \in [Calls -> Calls \cup {Absent}]
  /\ usurped \subseteq {"slow", "raced"}

\* Unless a lock was taken from a running call, whoever is between Mkdir and
\* Unlock has the lock, and does not write over a secret.
Exclusive ==
  usurped = {} => \A p \in Calls :
    /\ at[p] \in Holding => lock = p
    /\ at[p] \in {"unlink", "write"} => secret \notin Calls

SecretInv == SecretTypeOK /\ Exclusive /\ OneSecret

LEMMA SecretInitInv == SecretInit => SecretInv
<1> SUFFICES ASSUME SecretInit PROVE SecretInv
  OBVIOUS
<1>1. SecretTypeOK
  BY DEF SecretInit, SecretTypeOK
<1>2. \A p \in Calls : at[p] = "idle" /\ result[p] = Absent
  BY DEF SecretInit
<1> QED BY <1>1, <1>2 DEF SecretInv, Exclusive, OneSecret, Agree, Holding

\* A read changes nothing but where the call is, and returns what is there.
LEMMA ReadInv ==
  ASSUME SecretInv, NEW p \in Calls, NEW from, NEW last, NEW otherwise,
         last \in {"end", "unlock"}, from \notin Holding => last = "end" /\ otherwise \notin Holding,
         otherwise \in Running, otherwise \in {"unlink", "write"} => secret \notin Calls,
         Read(p, from, last, otherwise)
  PROVE  SecretInv'
<1>1. /\ at[p] = from /\ at' = [at EXCEPT ![p] = IF secret \in Calls THEN last ELSE otherwise]
      /\ result' = IF secret \in Calls THEN [result EXCEPT ![p] = secret] ELSE result
      /\ secret' = secret /\ lock' = lock /\ usurped' = usurped
  BY DEF Read, Goto, Return
<1>2. SecretTypeOK'
  BY <1>1 DEF SecretInv, SecretTypeOK, Running, Holding
<1>3. \A r \in Calls : at'[r] = IF r = p THEN (IF secret \in Calls THEN last ELSE otherwise) ELSE at[r]
  BY <1>1 DEF SecretInv, SecretTypeOK
<1>4. Exclusive'
  BY <1>1, <1>3 DEF SecretInv, Exclusive, Holding
<1>5. OneSecret'
  BY <1>1 DEF SecretInv, SecretTypeOK, OneSecret, Agree
<1> QED BY <1>2, <1>4, <1>5 DEF SecretInv

LEMMA SecretNextInv == SecretInv /\ [SecretNext]_secretVars => SecretInv'
<1> SUFFICES ASSUME SecretInv, [SecretNext]_secretVars PROVE SecretInv'
  OBVIOUS
<1> USE SecretAssumption
<1>1. ASSUME NEW p \in Calls, Step(p) PROVE SecretInv'
  <2>1. CASE ReadFirst(p) \/ Poll(p) \/ Recheck(p)
    <3>1. CASE ReadFirst(p)
      BY <3>1, ReadInv DEF ReadFirst, Holding, Looping, Running
    <3>2. CASE Poll(p)
      BY <3>2, ReadInv DEF Poll, Holding, Looping, Running
    <3>3. CASE Recheck(p)
      <4> DEFINE otherwise == IF secret = Corrupt THEN "unlink" ELSE "write"
      <4>1. Read(p, "recheck", "unlock", otherwise) /\ otherwise \in {"unlink", "write"}
        BY <3>3 DEF Recheck
      <4>2. CASE secret \in Calls
        <5>1. /\ at' = [at EXCEPT ![p] = "unlock"] /\ at[p] = "recheck"
              /\ result' = [result EXCEPT ![p] = secret]
              /\ secret' = secret /\ lock' = lock /\ usurped' = usurped
          BY <4>1, <4>2 DEF Read, Goto, Return
        <5> QED BY <4>2, <5>1 DEF SecretInv, SecretTypeOK, Exclusive, OneSecret, Agree, Holding, Running
      <4>3. CASE secret \notin Calls
        <5>1. otherwise \in Running
          BY <4>1 DEF Running, Holding
        <5> HIDE DEF otherwise
        <5> QED BY <4>1, <4>3, <5>1, ReadInv DEF Holding
      <4> QED BY <4>2, <4>3
    <3> QED BY <2>1, <3>1, <3>2, <3>3
  <2>2. CASE Mkdir(p)
    BY <2>2 DEF Mkdir, Goto, SecretInv, SecretTypeOK, Exclusive, OneSecret, Agree, Holding, Looping, Running
  <2>3. CASE Stat(p) \/ Deadline(p)
    BY <2>3 DEF Stat, Deadline, Goto, SecretInv, SecretTypeOK, Exclusive, OneSecret, Agree, Holding, Looping, Running
  <2>4. CASE BreakLock(p)
    BY <2>4 DEF BreakLock, RemoveLock, Goto, SecretInv, SecretTypeOK, Exclusive, OneSecret, Agree, Holding, Looping, Running
  <2>5. CASE Unlink(p)
    BY <2>5 DEF Unlink, Goto, SecretInv, SecretTypeOK, Exclusive, OneSecret, Agree, Holding, Looping, Running
  <2>6. CASE Unlock(p)
    BY <2>6 DEF Unlock, RemoveLock, Goto, SecretInv, SecretTypeOK, Exclusive, OneSecret, Agree, Holding, Looping, Running
  <2>7. CASE WriteSecret(p)
    BY <2>7 DEF WriteSecret, Goto, Return, SecretInv, SecretTypeOK, Exclusive, OneSecret, Agree, Holding, Looping, Running
  <2> QED BY <1>1, <2>1, <2>2, <2>3, <2>4, <2>5, <2>6, <2>7 DEF Step
<1>2. ASSUME NEW p \in Calls, Begin(p) \/ Fail(p) \/ Die(p) \/ Expire(p) PROVE SecretInv'
  BY <1>2 DEF Begin, Fail, Die, Expire, Goto, Return, SecretInv, SecretTypeOK, Exclusive, OneSecret, Agree, Holding, Looping, Running
<1>3. CASE GrowOld \/ UNCHANGED secretVars
  BY <1>3 DEF GrowOld, secretVars, SecretInv, SecretTypeOK, Exclusive, OneSecret, Agree, Holding
<1> QED BY <1>1, <1>2, <1>3 DEF SecretNext

\* All calls of InstallSecret that return a secret return the one on the file,
\* for any number of processes that start at once and die anywhere, as long as
\* nobody breaks the lock of a call that runs, because it is slow or in the race
\* of two calls that find one lock old (internal/runtime/runtime.go:193).
THEOREM AllGetOneSecret == SecretSpec => []OneSecret
<1>1. SecretInv => OneSecret
  BY DEF SecretInv
<1> QED BY <1>1, SecretInitInv, SecretNextInv, PTL DEF SecretSpec

-----------------------------------------------------------------------------
(* The tunnel provider, for any number of calls and processes. *)

TunnelTypeOK ==
  /\ cmd \in Procs \cup {None} /\ url \in Procs \cup {None} /\ generation \in Nat
  /\ proc \in [Procs -> {"unused", "running", "over", "reaped"}]
  /\ born \in [Procs -> Nat]
  /\ announced \subseteq Procs /\ doomed \subseteq Procs /\ killed \subseteq Procs /\ late \subseteq Procs
  /\ bridge \in {"open", "closing", "closed"}
  /\ startAt \in [Starts -> {"idle", "waiting", "publish", "done"}]
  /\ startProc \in [Starts -> Procs \cup {None}]

\* What is current is neither killed nor about to be; what was never started
\* has done nothing; after CloseStop, what is current has been started since.
Current ==
  /\ cmd \notin killed \cup doomed
  /\ \A q \in Procs : proc[q] = "unused" => q # cmd /\ q \notin announced \cup killed \cup doomed
  /\ bridge # "open" => cmd \in late \cup {None}

TunnelInv == TunnelTypeOK /\ Current /\ StatusIsOwn /\ NoneLost

LEMMA TunnelInitInv == TunnelInit => TunnelInv
  BY TunnelAssumption DEF TunnelInit, TunnelInv, TunnelTypeOK, Current, StatusIsOwn, NoneLost

LEMMA LaunchInv ==
  ASSUME TunnelInv, NEW c \in Starts, NEW q \in Procs, Launch(c, q), cmd = None,
         bridge # "closed", UNCHANGED <<announced, doomed, killed, bridge>>
  PROVE  TunnelInv'
<1>1. /\ announced' = announced /\ doomed' = doomed /\ killed' = killed
      /\ proc[q] = "unused" /\ proc' = [proc EXCEPT ![q] = "running"]
      /\ cmd' = q /\ url' = None /\ bridge' = bridge /\ bridge # "closed"
      /\ late' = IF bridge = "closing" THEN late \cup {q} ELSE late
  BY DEF Launch
<1>2. TunnelTypeOK'
  BY <1>1 DEF TunnelInv, TunnelTypeOK, Launch, StartGoes
<1>3. \A r \in Procs : proc'[r] = IF r = q THEN "running" ELSE proc[r]
  BY <1>1 DEF TunnelInv, TunnelTypeOK
<1>4. Current' /\ StatusIsOwn'
  BY <1>1, <1>3 DEF TunnelInv, TunnelTypeOK, Current, StatusIsOwn
<1>5. NoneLost'
  BY <1>1, <1>3, TunnelAssumption DEF TunnelInv, NoneLost
<1> QED BY <1>2, <1>4, <1>5 DEF TunnelInv

\* A step that takes the current process out and dooms it, if there is one.
LEMMA ReleaseInv ==
  ASSUME TunnelInv, cmd' = None, url' = None, generation' \in Nat,
         doomed' = IF cmd = None THEN doomed ELSE doomed \cup {cmd},
         UNCHANGED <<proc, born, announced, killed, late, startProc>>,
         bridge' = bridge \/ (bridge = "open" /\ bridge' = "closing"),
         startAt' \in [Starts -> {"idle", "waiting", "publish", "done"}]
  PROVE  TunnelInv'
<1>1. /\ proc' = proc /\ born' = born /\ announced' = announced /\ killed' = killed
      /\ late' = late /\ startProc' = startProc
  OBVIOUS
<1>2. TunnelTypeOK'
  BY <1>1 DEF TunnelInv, TunnelTypeOK
<1>3. Current' /\ StatusIsOwn' /\ NoneLost'
  BY <1>1, TunnelAssumption DEF TunnelInv, TunnelTypeOK, Current, StatusIsOwn, NoneLost
<1> QED BY <1>2, <1>3 DEF TunnelInv

\* A step that leaves provider and processes alone.
LEMMA StutterInv ==
  ASSUME TunnelInv, UNCHANGED <<cmd, url, generation, proc, born, announced, doomed, killed, late>>,
         bridge' = bridge \/ (bridge = "closing" /\ bridge' = "closed"),
         startAt' \in [Starts -> {"idle", "waiting", "publish", "done"}],
         startProc' \in [Starts -> Procs \cup {None}]
  PROVE  TunnelInv'
  BY TunnelAssumption DEF TunnelInv, TunnelTypeOK, Current, StatusIsOwn, NoneLost

LEMMA TunnelNextInv == TunnelInv /\ [TunnelNext]_tunnelVars => TunnelInv'
<1> SUFFICES ASSUME TunnelInv, [TunnelNext]_tunnelVars PROVE TunnelInv'
  OBVIOUS
<1> USE DEF provider, processes, calls, server
<1>1. ASSUME NEW c \in Starts, Start(c) PROVE TunnelInv'
  <2>1. ASSUME cmd = None, NEW q \in Procs, Launch(c, q) PROVE TunnelInv'
    BY <1>1, <2>1, LaunchInv DEF Start
  <2>2. CASE cmd = None /\ StartGoes(c, "idle", "done") /\ url' = None
             /\ UNCHANGED <<cmd, generation, proc, born, late, startProc>>
    <3>1. url = None
      BY <2>2 DEF TunnelInv, StatusIsOwn
    <3>2. startAt' \in [Starts -> {"idle", "waiting", "publish", "done"}]
      BY <2>2 DEF StartGoes, TunnelInv, TunnelTypeOK
    <3> QED BY <1>1, <2>2, <3>1, <3>2, StutterInv DEF Start, TunnelInv, TunnelTypeOK
  <2>3. CASE cmd # None
    <3>1. /\ startAt' \in [Starts -> {"idle", "waiting", "publish", "done"}]
          /\ startProc' \in [Starts -> Procs \cup {None}]
      BY <1>1, <2>3 DEF Start, StartGoes, TunnelInv, TunnelTypeOK
    <3> QED BY <1>1, <2>3, <3>1, StutterInv DEF Start
  <2> QED BY <1>1, <2>1, <2>2, <2>3 DEF Start
<1>2. ASSUME NEW c \in Starts, Ready(c) PROVE TunnelInv'
  <2> DEFINE q == startProc[c]
  <2>1. /\ q \in announced /\ (url' = url \/ (cmd = q /\ url' = q))
        /\ UNCHANGED <<cmd, generation, proc, born, announced, doomed, killed, late, bridge, startProc>>
    BY <1>2 DEF Ready, Own
  <2>2. startAt' \in [Starts -> {"idle", "waiting", "publish", "done"}]
    BY <1>2 DEF Ready, StartGoes, TunnelInv, TunnelTypeOK
  <2> HIDE DEF q
  <2> QED BY <2>1, <2>2 DEF TunnelInv, TunnelTypeOK, Current, StatusIsOwn, NoneLost
<1>3. ASSUME NEW c \in Starts, ExitedEarly(c) \/ Publish(c) PROVE TunnelInv'
  <2>1. startAt' \in [Starts -> {"idle", "waiting", "publish", "done"}]
        /\ startProc' \in [Starts -> Procs \cup {None}]
    BY <1>3 DEF ExitedEarly, Publish, StartGoes, TunnelInv, TunnelTypeOK
  <2> QED BY <1>3, <2>1, StutterInv DEF ExitedEarly, Publish
<1>4. ASSUME NEW c \in Starts, TimedOut(c) PROVE TunnelInv'
  <2>1. startAt' \in [Starts -> {"idle", "waiting", "publish", "done"}]
    BY <1>4 DEF TimedOut, StartGoes, TunnelInv, TunnelTypeOK
  <2>2. CASE generation = born[startProc[c]] /\ cmd # None
    BY <1>4, <2>1, <2>2, ReleaseInv DEF TimedOut, TunnelInv, TunnelTypeOK
  <2>3. CASE ~(generation = born[startProc[c]] /\ cmd # None)
    BY <1>4, <2>1, <2>3, StutterInv DEF TimedOut, TunnelInv, TunnelTypeOK
  <2> QED BY <2>2, <2>3
<1>5. ASSUME NEW d \in Stops, Stop(d) PROVE TunnelInv'
  BY <1>5, ReleaseInv DEF Stop, Release, TunnelInv, TunnelTypeOK
<1>6. CASE CloseStop
  BY <1>6, ReleaseInv DEF CloseStop, Release, TunnelInv, TunnelTypeOK
<1>7. CASE CloseShutdown \/ (\E d \in Stops : Unpublish(d)) \/ UNCHANGED tunnelVars
  BY <1>7, StutterInv DEF CloseShutdown, Unpublish, tunnelVars, TunnelInv, TunnelTypeOK
<1>8. ASSUME NEW q \in Procs, Announce(q) \/ Exit(q) \/ Kill(q) \/ Reap(q) PROVE TunnelInv'
  <2>1. CASE Announce(q)
    BY <2>1 DEF Announce, TunnelInv, TunnelTypeOK, Current, StatusIsOwn, NoneLost
  <2>2. CASE Exit(q)
    BY <2>2 DEF Exit, TunnelInv, TunnelTypeOK, Current, StatusIsOwn, NoneLost
  <2>3. CASE Kill(q)
    BY <2>3 DEF Kill, TunnelInv, TunnelTypeOK, Current, StatusIsOwn, NoneLost
  <2>4. CASE Reap(q)
    BY <2>4, TunnelAssumption DEF Reap, Own, TunnelInv, TunnelTypeOK, Current, StatusIsOwn, NoneLost
  <2> QED BY <1>8, <2>1, <2>2, <2>3, <2>4
<1> QED BY <1>1, <1>2, <1>3, <1>4, <1>5, <1>6, <1>7, <1>8 DEF TunnelNext

LEMMA TunnelInvariance == TunnelSpec => []TunnelInv
<1> QED BY TunnelInitInv, TunnelNextInv, PTL DEF TunnelSpec

\* The status of the provider never shows the URL of a process that was stopped,
\* nor one that another process announced (internal/tunnel/provider.go).
THEOREM StatusAlwaysOwn == TunnelSpec => []StatusIsOwn
<1>1. TunnelInv => StatusIsOwn
  BY DEF TunnelInv
<1> QED BY <1>1, TunnelInvariance, PTL

\* No cloudflared is lost between starts, stops, timeouts, the goroutines that
\* wait for older ones and the end of the bridge, but for those that were
\* started in the middle of Close (internal/bridge/server.go:293-297).
THEOREM NoTunnelLost == TunnelSpec => []NoneLost
<1>1. TunnelInv => NoneLost
  BY DEF TunnelInv
<1> QED BY <1>1, TunnelInvariance, PTL
=============================================================================
