---------------------------- MODULE BridgeProofs ----------------------------
(***************************************************************************)
(* What bridges and commands leave behind, for any number of bridges,      *)
(* commands, ports and versions.                                           *)
(***************************************************************************)
EXTENDS BridgeLifecycle, TLAPS

-----------------------------------------------------------------------------
(* The inductive invariant. *)

\* Stages of a bridge that has served, and of one that may own a lock.
Served  == {"serving"} \cup Closing \cup {"dead"}
Holding == {"locked", "open", "serving", "closing", "cleared"}

\* Steps of a command that has spawned nothing yet, and that waits for its bridge.
BeforeSpawn == {"idle", "probe", "clear", "spawn", "stop", "stopProbe", "stopClear",
                "stopAdmin", "stopWait", "stopKill", "stopKilling"}
AfterSpawn  == {"wait", "waitProbe", "waitClear", "kill"}

BridgeTypes ==
  /\ stage \in [Bridges -> Alive \cup {"unborn", "dead"}]
  /\ port \in [Bridges -> Ports \cup {None}]
  /\ runtime \in Bridges \cup {None}
  /\ lock # None => lock.owner \in Bridges

CommandTypes ==
  /\ step \in [Commands -> BeforeSpawn \cup AfterSpawn \cup {"done"}]
  /\ seen \in [Commands -> Bridges \cup {None}] /\ child \in [Commands -> Bridges \cup {None}]
  /\ pid \in [Commands -> Bridges \cup {None}] /\ replaces \in [Commands -> BOOLEAN]
  /\ result \in [Commands -> {"ready", "failed", "none", "stopped", None}]

\* Whoever owns the lock is between its creation and its removal, or was killed.
OwnerHolds ==
  lock # None => \/ stage[lock.owner] \in Holding
                 \/ At(lock.owner, "dead") /\ lock.owner \in killed

\* Bridges that serve have different ports.
PortsDiffer == \A a, b \in Bridges : At(a, "serving") /\ At(b, "serving") /\ port[a] = port[b] => a = b

\* A record that was ever in the runtime file is that of a bridge that has served.
RecordServed ==
  /\ runtime # None => stage[runtime] \in Served
  /\ \A c \in Commands : seen[c] # None => stage[seen[c]] \in Served

BridgeInv == BridgeTypes /\ OwnerHolds /\ PortsDiffer

\* A bridge that is to be killed is the one whose health answer was read; a command
\* ends but once, and one that replaces a bridge goes on only when that is gone.
CommandOK(c) ==
  /\ result[c] # None => step[c] = "done"
  /\ step[c] \in BeforeSpawn => child[c] = None
  /\ step[c] \in AfterSpawn => child[c] # None
  /\ step[c] \in {"idle", "probe", "clear"} => ~replaces[c]
  /\ replaces[c] /\ step[c] \in {"spawn"} \cup AfterSpawn => pid[c] # None /\ At(pid[c], "dead")
  /\ step[c] = "stopProbe" => seen[c] # None
  /\ step[c] = "stopAdmin" => seen[c] # None /\ pid[c] # None /\ (At(seen[c], "serving") => pid[c] = seen[c])
  /\ step[c] \in {"stopWait", "stopKill", "stopKilling"} => seen[c] # None /\ pid[c] = seen[c]
  /\ result[c] = "failed" /\ child[c] # None => At(child[c], "dead")
  /\ result[c] = "stopped" \/ (replaces[c] /\ child[c] # None) => pid[c] # None /\ At(pid[c], "dead")

LifecycleInv ==
  /\ BridgeInv /\ CommandTypes /\ RecordServed
  /\ \A c \in Commands : CommandOK(c)

LEMMA InvInit == Init => LifecycleInv
<1> SUFFICES ASSUME Init PROVE LifecycleInv
  OBVIOUS
<1>1. BridgeInv BY DEF Init, BridgeInv, BridgeTypes, OwnerHolds, PortsDiffer, At
<1>2. CommandTypes BY DEF Init, CommandTypes, BeforeSpawn
<1>3. RecordServed BY DEF Init, RecordServed
<1>4. ASSUME NEW c \in Commands PROVE CommandOK(c)
  <2>1. step[c] = "idle" /\ child[c] = None /\ result[c] = None /\ replaces[c] = FALSE BY DEF Init
  <2> QED BY <2>1, LifecycleAssumption DEF CommandOK, AfterSpawn
<1> QED BY <1>1, <1>2, <1>3, <1>4 DEF LifecycleInv

-----------------------------------------------------------------------------
(* How bridges move. *)

\* No bridge comes back to life, and none serves twice.
Progress ==
  \A b \in Bridges :
    /\ At(b, "dead") => stage'[b] = "dead"
    /\ stage[b] \in Served => stage'[b] \in Served /\ (stage'[b] = "serving" => At(b, "serving"))

\* A bridge moves on, and lets go of the lock first unless it is killed.
LEMMA MoveOn ==
  ASSUME BridgeInv, NEW b \in Bridges, NEW s \in Alive \cup {"dead"}, stage' = [stage EXCEPT ![b] = s], s # "serving",
         UNCHANGED <<port, lock>>, runtime' \in {runtime, None}, killed \subseteq killed',
         stage[b] # "dead", stage[b] \in Served => s \in Served,
         stage[b] \in Holding => s \in Holding \/ (s = "dead" /\ b \in killed')
  PROVE  BridgeInv' /\ Progress
<1>1. \A a \in Bridges : stage'[a] = IF a = b THEN s ELSE stage[a] BY DEF BridgeInv, BridgeTypes
<1>2. stage' \in [Bridges -> Alive \cup {"unborn", "dead"}] BY DEF BridgeInv, BridgeTypes
<1>3. BridgeTypes' BY <1>2 DEF BridgeInv, BridgeTypes
<1>4. OwnerHolds' BY <1>1 DEF BridgeInv, BridgeTypes, OwnerHolds, At
<1>5. PortsDiffer' BY <1>1 DEF BridgeInv, PortsDiffer, At
<1>6. Progress BY <1>1 DEF Progress, At
<1> QED BY <1>3, <1>4, <1>5, <1>6 DEF BridgeInv

\* Nobody moves; the files lose their record, or keep it.
LEMMA StayPut ==
  ASSUME BridgeInv, UNCHANGED <<stage, port, killed>>, runtime' \in Bridges \cup {None},
         lock' = lock \/ lock' = None \/ (lock # None /\ lock' # None /\ lock'.owner = lock.owner)
  PROVE  BridgeInv' /\ Progress
<1>1. BridgeTypes' BY DEF BridgeInv, BridgeTypes
<1>2. OwnerHolds' BY DEF BridgeInv, OwnerHolds, At
<1>3. PortsDiffer' BY DEF BridgeInv, PortsDiffer, At
<1>4. Progress BY DEF Progress, At
<1> QED BY <1>1, <1>2, <1>3, <1>4 DEF BridgeInv

\* The lock is gone, and a bridge moves on.
LEMMA MoveUnlocked ==
  ASSUME BridgeInv, NEW b \in Bridges, NEW s \in Alive \cup {"dead"}, stage' = [stage EXCEPT ![b] = s], s # "serving",
         UNCHANGED port, lock' = None, runtime' = runtime, stage[b] # "dead", stage[b] \in Served => s \in Served
  PROVE  BridgeInv' /\ Progress
<1>1. \A a \in Bridges : stage'[a] = IF a = b THEN s ELSE stage[a] BY DEF BridgeInv, BridgeTypes
<1>2. stage' \in [Bridges -> Alive \cup {"unborn", "dead"}] BY DEF BridgeInv, BridgeTypes
<1>3. BridgeTypes' BY <1>2 DEF BridgeInv, BridgeTypes
<1>4. OwnerHolds' BY DEF OwnerHolds
<1>5. PortsDiffer' BY <1>1 DEF BridgeInv, PortsDiffer, At
<1>6. Progress BY <1>1 DEF Progress, At
<1> QED BY <1>3, <1>4, <1>5, <1>6 DEF BridgeInv

LEMMA StartMoves == ASSUME BridgeInv, NEW b \in Bridges, Start(b) PROVE BridgeInv' /\ Progress
<1> USE DEF Alive, Starting, Closing, Served, Holding
<1>1. CASE StartRead(b) BY <1>1, MoveOn DEF StartRead, At, Go, files
<1>2. CASE StartProbe(b) BY <1>2, MoveOn DEF StartProbe, At, Go, files
<1>3. CASE StartClear(b) BY <1>3, MoveOn DEF StartClear, At, Go
<1>4. CASE LockCreate(b)
  <2>1. CASE lock = None /\ lock' = [owner |-> b, written |-> FALSE, fresh |-> TRUE] /\ Go(b, "locked")
    <3>1. \A a \in Bridges : stage'[a] = IF a = b THEN "locked" ELSE stage[a] BY <2>1 DEF BridgeInv, BridgeTypes, Go
    <3>2. lock'.owner = b BY <2>1
    <3>3. BridgeTypes' BY <1>4, <2>1, <3>2 DEF LockCreate, BridgeInv, BridgeTypes, Go
    <3>4. OwnerHolds' BY <3>1, <3>2 DEF OwnerHolds
    <3>5. PortsDiffer' BY <1>4, <3>1 DEF LockCreate, BridgeInv, PortsDiffer, At
    <3>6. Progress BY <1>4, <3>1 DEF LockCreate, Progress, At
    <3> QED BY <3>3, <3>4, <3>5, <3>6 DEF BridgeInv
  <2>2. CASE Go(b, "inspect") /\ UNCHANGED lock BY <1>4, <2>2, MoveOn DEF LockCreate, At, Go
  <2> QED BY <1>4, <2>1, <2>2 DEF LockCreate
<1>5. CASE LockInspect(b) BY <1>5, MoveOn DEF LockInspect, At, Go, files
<1>6. CASE LockRemove(b) BY <1>6, MoveUnlocked DEF LockRemove, At, Go
<1>7. CASE LockWrite(b)
  <2>1. \A a \in Bridges : stage'[a] = IF a = b THEN "open" ELSE stage[a] BY <1>7 DEF LockWrite, BridgeInv, BridgeTypes, Go
  <2>2. lock' # None => lock # None /\ lock'.owner = lock.owner BY <1>7 DEF LockWrite
  <2>3. BridgeTypes' BY <1>7, <2>2 DEF LockWrite, BridgeInv, BridgeTypes, Go
  <2>4. OwnerHolds' BY <1>7, <2>1, <2>2 DEF LockWrite, BridgeInv, BridgeTypes, OwnerHolds, At
  <2>5. PortsDiffer' BY <1>7, <2>1 DEF LockWrite, BridgeInv, PortsDiffer, At
  <2>6. Progress BY <1>7, <2>1 DEF LockWrite, Progress, At
  <2> QED BY <2>3, <2>4, <2>5, <2>6 DEF BridgeInv
<1>8. CASE Open(b)
  <2>1. CASE Opened(b)
    <3>1. PICK p \in FreePorts : port' = [port EXCEPT ![b] = p] BY <2>1 DEF Opened
    <3>2. \A a \in Bridges : /\ stage'[a] = IF a = b THEN "serving" ELSE stage[a]
                             /\ port'[a] = IF a = b THEN p ELSE port[a]
      BY <2>1, <3>1 DEF Opened, BridgeInv, BridgeTypes, Go
    <3>3. p \in Ports /\ \A a \in Bridges : At(a, "serving") => port[a] # p BY <3>1 DEF FreePorts, Answering
    <3>4. BridgeTypes' BY <2>1, <3>1, <3>3 DEF Opened, BridgeInv, BridgeTypes, Go
    <3>5. OwnerHolds' BY <1>8, <2>1, <3>2 DEF Open, Opened, BridgeInv, BridgeTypes, OwnerHolds, At
    <3>6. PortsDiffer' BY <3>2, <3>3 DEF BridgeInv, PortsDiffer, At
    <3>7. Progress BY <1>8, <3>2 DEF Open, Progress, At
    <3> QED BY <3>4, <3>5, <3>6, <3>7 DEF BridgeInv
  <2>2. CASE OpenFailed(b) BY <1>8, <2>2, MoveUnlocked DEF Open, OpenFailed, At, Go
  <2> QED BY <1>8, <2>1, <2>2 DEF Open
<1> QED BY <1>1, <1>2, <1>3, <1>4, <1>5, <1>6, <1>7, <1>8 DEF Start

LEMMA ServeMoves ==
  ASSUME BridgeInv, NEW b \in Bridges, PersistAgain(b) \/ CloseListener(b) \/ Close(b) \/ Crash(b) \/ LockAges
  PROVE  BridgeInv' /\ Progress
<1> USE DEF Alive, Starting, Closing, Served, Holding
<1>1. CASE PersistAgain(b) BY <1>1, StayPut DEF PersistAgain, bridgeVars
<1>2. CASE CloseListener(b) BY <1>2, MoveOn DEF CloseListener, At, Go, files
<1>3. CASE CloseClear(b) BY <1>3, MoveOn DEF CloseClear, At, Go
<1>4. CASE CloseUnlock(b) BY <1>4, MoveUnlocked DEF CloseUnlock, At, Go
<1>5. CASE Exit(b) BY <1>5, MoveOn DEF Exit, At, Go, files
<1>6. CASE Crash(b) BY <1>6, MoveOn DEF Crash, Go, files
<1>7. CASE LockAges
  <2>1. lock # None /\ (lock' = None \/ lock'.owner = lock.owner) BY <1>7 DEF LockAges
  <2> QED BY <1>7, <2>1, StayPut DEF LockAges, bridgeVars, BridgeInv, BridgeTypes
<1> QED BY <1>1, <1>2, <1>3, <1>4, <1>5, <1>6, <1>7 DEF Close

LEMMA SignalMoves ==
  ASSUME BridgeInv, NEW b \in Bridges, Terminate(b) \/ Kill(b), UNCHANGED <<port, files>>
  PROVE  BridgeInv' /\ Progress
<1> USE DEF Alive, Starting, Closing, Served, Holding
<1>1. CASE UNCHANGED <<stage, killed>> BY <1>1, StayPut DEF files, BridgeInv, BridgeTypes
<1>2. CASE stage[b] \in Alive /\ Go(b, "dead") /\ killed' = killed \cup {b} BY <1>2, MoveOn DEF Go, files
<1> QED BY <1>1, <1>2 DEF Terminate, Kill

LEMMA CommandMoves ==
  ASSUME BridgeInv, CommandTypes, NEW c \in Commands, CommandOK(c), Ensure(c) \/ Stop(c)
  PROVE  BridgeInv' /\ Progress
<1> USE DEF Moves, Ends, Reads, Clears, Nothing, Fallback
<1>1. CASE EnsureRead(c) \/ EnsureProbe(c) \/ WaitRead(c) \/ WaitProbe(c) \/ StopRead(c) \/ StopProbe(c) \/ StopAdmin(c) \/ StopTimeout(c)
  BY <1>1, StayPut
  DEF EnsureRead, EnsureProbe, WaitRead, WaitProbe, StopRead, StopProbe, StopAdmin, StopTimeout, bridgeVars, files,
      BridgeInv, BridgeTypes
<1>2. CASE EnsureClear(c) \/ WaitClear(c) \/ WaitExit(c) \/ KillDone(c) \/ StopClear(c) \/ Stopped(c)
  BY <1>2, StayPut DEF EnsureClear, WaitClear, WaitExit, KillDone, StopClear, Stopped, bridgeVars
<1>3. CASE Spawn(c)
  <2>1. PICK b \in Bridges : At(b, "unborn") /\ Go(b, "find") BY <1>3 DEF Spawn
  <2> QED BY <1>3, <2>1, MoveOn DEF Spawn, At, Go, files, Alive, Starting, Closing, Served, Holding
<1>4. CASE WaitDeadline(c) \/ KillForce(c)
  <2>1. child[c] \in Bridges BY <1>4 DEF WaitDeadline, KillForce, CommandTypes, CommandOK, AfterSpawn
  <2> QED BY <1>4, <2>1, SignalMoves DEF WaitDeadline, KillForce, files
<1>5. CASE StopKill(c) \/ StopForce(c)
  <2>1. seen[c] \in Bridges BY <1>5 DEF StopKill, StopForce, CommandTypes, CommandOK
  <2> QED BY <1>5, <2>1, SignalMoves DEF StopKill, StopForce, files
<1> QED BY <1>1, <1>2, <1>3, <1>4, <1>5 DEF Ensure, Stop

-----------------------------------------------------------------------------
(* What commands know. *)

\* A command that does nothing keeps what it knows, whatever moves.
LEMMA OthersKeep ==
  ASSUME LifecycleInv, Progress, NEW c \in Commands,
         step'[c] = step[c], seen'[c] = seen[c], child'[c] = child[c], pid'[c] = pid[c],
         replaces'[c] = replaces[c], result'[c] = result[c]
  PROVE  CommandOK(c)'
<1>1. seen[c] \in Bridges \cup {None} /\ child[c] \in Bridges \cup {None} /\ pid[c] \in Bridges \cup {None}
  BY DEF LifecycleInv, CommandTypes
<1>2. CommandOK(c) /\ (seen[c] # None => stage[seen[c]] \in Served) BY DEF LifecycleInv, RecordServed
<1> QED BY <1>1, <1>2 DEF CommandOK, Progress, At

\* The steps of a command change what that command knows alone.
Others(c) ==
  \A d \in Commands : d # c => /\ step'[d] = step[d] /\ seen'[d] = seen[d] /\ child'[d] = child[d]
                               /\ pid'[d] = pid[d] /\ replaces'[d] = replaces[d] /\ result'[d] = result[d]

\* What a command knows is at stake only in its own steps.
Learns(c) == CommandTypes' /\ CommandOK(c)' /\ (seen'[c] # None => stage'[seen'[c]] \in Served) /\ Others(c)

LEMMA ReadingSteps ==
  ASSUME LifecycleInv, Progress, NEW c \in Commands,
         EnsureRead(c) \/ WaitRead(c) \/ StopRead(c)
  PROVE  Learns(c)
<1>1. CommandOK(c) /\ CommandTypes /\ BridgeTypes /\ RecordServed BY DEF LifecycleInv, BridgeInv
<1>2. /\ seen' = [seen EXCEPT ![c] = runtime] /\ UNCHANGED <<child, pid, replaces, stage>>
  BY DEF EnsureRead, WaitRead, StopRead, Reads, bridgeVars
<1>3. seen'[c] # None => stage'[seen'[c]] \in Served BY <1>1, <1>2 DEF CommandTypes, RecordServed
<1>4. CASE EnsureRead(c) \/ WaitRead(c)
  <2>1. /\ \E t \in {"probe", "spawn", "waitProbe", "wait"} : step' = [step EXCEPT ![c] = t]
        /\ UNCHANGED result
    BY <1>4 DEF EnsureRead, WaitRead, Reads
  <2>2. CommandTypes' /\ Others(c)
    BY <1>1, <1>2, <2>1 DEF CommandTypes, BridgeTypes, Others, BeforeSpawn, AfterSpawn
  <2>3. CommandOK(c)'
    BY <1>1, <1>2, <1>4 DEF EnsureRead, WaitRead, Reads, CommandTypes, CommandOK, At, BeforeSpawn, AfterSpawn
  <2> QED BY <1>3, <2>2, <2>3 DEF Learns
<1>5. CASE StopRead(c)
  <2>1. /\ \E t \in {"done", "stopProbe"} : step' = [step EXCEPT ![c] = t]
        /\ \E r \in {"failed", "none", result[c]} : result' = [result EXCEPT ![c] = r]
    BY <1>1, <1>5 DEF StopRead, Nothing, Ends, CommandTypes
  <2>2. CommandTypes' /\ Others(c)
    BY <1>1, <1>2, <2>1 DEF CommandTypes, BridgeTypes, Others, BeforeSpawn, AfterSpawn
  <2>3. CommandOK(c)'
    BY <1>1, <1>2, <1>5, LifecycleAssumption
    DEF StopRead, Nothing, Ends, CommandTypes, CommandOK, At, BeforeSpawn, AfterSpawn
  <2> QED BY <1>3, <2>2, <2>3 DEF Learns
<1> QED BY <1>4, <1>5

\* A step that leaves the record it read alone is judged by what it does to the rest.
LEMMA LearnsRest ==
  ASSUME LifecycleInv, Progress, NEW c \in Commands, UNCHANGED seen, CommandTypes', Others(c), CommandOK(c)'
  PROVE  Learns(c)
<1>1. seen'[c] # None => stage'[seen'[c]] \in Served
  BY DEF LifecycleInv, CommandTypes, RecordServed, Progress
<1> QED BY <1>1 DEF Learns

\* What the health answer at the port of a recorded bridge says of it.
LEMMA AnswerIsRecorded ==
  ASSUME PortsDiffer, NEW a \in Bridges, NEW b \in Answering(port[a]), At(a, "serving") PROVE a = b
  BY DEF PortsDiffer, Answering

LEMMA EnsureSteps ==
  ASSUME LifecycleInv, Progress, NEW c \in Commands, Ensure(c)
  PROVE  Learns(c)
<1>1. CommandOK(c) /\ CommandTypes BY DEF LifecycleInv
<1> USE DEF BeforeSpawn, AfterSpawn, At
<1>2. CASE EnsureProbe(c)
  <2>1. CommandTypes' /\ Others(c) BY <1>1, <1>2 DEF EnsureProbe, Moves, Ends, CommandTypes, Others
  <2>2. CommandOK(c)' BY <1>1, <1>2, LifecycleAssumption DEF EnsureProbe, Moves, Ends, CommandTypes, CommandOK, bridgeVars
  <2> QED BY <1>2, <2>1, <2>2, LearnsRest DEF EnsureProbe
<1>3. CASE EnsureClear(c) \/ WaitClear(c)
  <2>1. CommandTypes' /\ Others(c) BY <1>1, <1>3 DEF EnsureClear, WaitClear, Clears, Moves, CommandTypes, Others
  <2>2. CommandOK(c)' BY <1>1, <1>3 DEF EnsureClear, WaitClear, Clears, Moves, CommandTypes, CommandOK, bridgeVars
  <2> QED BY <1>3, <2>1, <2>2, LearnsRest DEF EnsureClear, WaitClear
<1>4. CASE Spawn(c)
  <2>1. PICK b \in Bridges : child' = [child EXCEPT ![c] = b] BY <1>4 DEF Spawn
  <2>2. CommandTypes' /\ Others(c) BY <1>1, <1>4, <2>1 DEF Spawn, Moves, CommandTypes, Others
  <2>3. step[c] = "spawn" /\ step'[c] = "wait" /\ child'[c] = b /\ pid'[c] = pid[c] /\ replaces'[c] = replaces[c]
        /\ result'[c] = result[c] /\ result[c] = None
    BY <1>1, <1>4, <2>1 DEF Spawn, Moves, CommandTypes, CommandOK
  <2>4. replaces[c] => pid[c] # None /\ stage'[pid[c]] = "dead"
    BY <1>1, <2>3 DEF CommandTypes, CommandOK, Progress
  <2>5. CommandOK(c)' BY <2>1, <2>3, <2>4, LifecycleAssumption DEF CommandOK
  <2> QED BY <1>4, <2>2, <2>5, LearnsRest DEF Spawn
<1>5. CASE WaitProbe(c)
  <2>1. CommandTypes' /\ Others(c) BY <1>1, <1>5 DEF WaitProbe, Moves, Ends, CommandTypes, Others
  <2>2. CommandOK(c)' BY <1>1, <1>5, LifecycleAssumption DEF WaitProbe, Moves, Ends, CommandTypes, CommandOK, bridgeVars
  <2> QED BY <1>5, <2>1, <2>2, LearnsRest DEF WaitProbe
<1>6. CASE WaitExit(c) \/ KillDone(c)
  <2>1. CommandTypes' /\ Others(c) BY <1>1, <1>6 DEF WaitExit, KillDone, Ends, CommandTypes, Others
  <2>2. CommandOK(c)' BY <1>1, <1>6, LifecycleAssumption DEF WaitExit, KillDone, Ends, CommandTypes, CommandOK, bridgeVars
  <2> QED BY <1>6, <2>1, <2>2, LearnsRest DEF WaitExit, KillDone
<1>7. CASE WaitDeadline(c)
  <2>1. CommandTypes' /\ Others(c) BY <1>1, <1>7 DEF WaitDeadline, Moves, CommandTypes, Others
  <2>2. /\ step[c] = "wait" /\ step'[c] = "kill"
        /\ UNCHANGED <<seen, child, pid, replaces, result>>
    BY <1>1, <1>7 DEF WaitDeadline, Moves, CommandTypes
  <2>3. CommandOK(c)' BY <1>1, <2>2, LifecycleAssumption DEF CommandTypes, CommandOK, Progress
  <2> QED BY <2>1, <2>2, <2>3, LearnsRest
<1>8. CASE KillForce(c)
  <2>1. UNCHANGED commandVars BY <1>8 DEF KillForce
  <2>2. CommandTypes' /\ Others(c) BY <1>1, <2>1 DEF commandVars, CommandTypes, Others
  <2>3. CommandOK(c)' BY <2>1, OthersKeep DEF commandVars
  <2> QED BY <2>1, <2>2, <2>3, LearnsRest DEF commandVars
<1> QED BY <1>2, <1>3, <1>4, <1>5, <1>6, <1>7, <1>8, ReadingSteps DEF Ensure

LEMMA StopSteps ==
  ASSUME LifecycleInv, Progress, NEW c \in Commands, Stop(c)
  PROVE  Learns(c)
<1>1. CommandOK(c) /\ CommandTypes /\ PortsDiffer BY DEF LifecycleInv, BridgeInv
<1> USE DEF BeforeSpawn, AfterSpawn
<1>2. CASE StopProbe(c)
  <2>1. seen[c] \in Bridges BY <1>1, <1>2 DEF StopProbe, CommandTypes, CommandOK
  <2>2. CASE step' = [step EXCEPT ![c] = "stopClear"] /\ UNCHANGED pid
    <3>1. CommandTypes' /\ Others(c) BY <1>1, <1>2, <2>2 DEF StopProbe, CommandTypes, Others
    <3>2. CommandOK(c)' BY <1>1, <1>2, <2>2, LifecycleAssumption DEF StopProbe, CommandTypes, CommandOK, At, bridgeVars
    <3> QED BY <1>2, <3>1, <3>2, LearnsRest DEF StopProbe
  <2>3. ASSUME NEW b \in Answering(port[seen[c]]), pid' = [pid EXCEPT ![c] = b], step' = [step EXCEPT ![c] = "stopAdmin"]
        PROVE  Learns(c)
    <3>1. b \in Bridges /\ b # None /\ (At(seen[c], "serving") => b = seen[c])
      BY <1>1, <2>1, <2>3, AnswerIsRecorded, LifecycleAssumption DEF Answering
    <3>2. CommandTypes' /\ Others(c) BY <1>1, <1>2, <2>3, <3>1 DEF StopProbe, CommandTypes, Others
    <3>3. CommandOK(c)' BY <1>1, <1>2, <2>3, <3>1, LifecycleAssumption DEF StopProbe, CommandTypes, CommandOK, At, bridgeVars
    <3> QED BY <1>2, <3>2, <3>3, LearnsRest DEF StopProbe
  <2> QED BY <1>2, <2>2, <2>3 DEF StopProbe
<1>3. CASE StopClear(c)
  <2>1. CommandTypes' /\ Others(c) BY <1>1, <1>3 DEF StopClear, Nothing, Ends, CommandTypes, Others
  <2>2. CommandOK(c)' BY <1>1, <1>3, LifecycleAssumption DEF StopClear, Nothing, Ends, CommandTypes, CommandOK, At, bridgeVars
  <2> QED BY <1>3, <2>1, <2>2, LearnsRest DEF StopClear
<1>4. CASE StopAdmin(c) \/ StopTimeout(c)
  <2>1. CommandTypes' /\ Others(c)
    BY <1>1, <1>4 DEF StopAdmin, StopTimeout, Fallback, Ends, CommandTypes, Others
  <2>2. CommandOK(c)'
    BY <1>1, <1>4, LifecycleAssumption
    DEF StopAdmin, StopTimeout, Fallback, Ends, CommandTypes, CommandOK, At, bridgeVars
  <2> QED BY <1>4, <2>1, <2>2, LearnsRest DEF StopAdmin, StopTimeout
<1>5. CASE StopKill(c)
  <2>1. CommandTypes' /\ Others(c) BY <1>1, <1>5 DEF StopKill, Moves, CommandTypes, Others
  <2>2. /\ step[c] = "stopKill" /\ step'[c] = "stopKilling"
        /\ UNCHANGED <<seen, child, pid, replaces, result>>
    BY <1>1, <1>5 DEF StopKill, Moves, CommandTypes
  <2>3. CommandOK(c)' BY <1>1, <2>2, LifecycleAssumption DEF CommandTypes, CommandOK, Progress, At
  <2> QED BY <2>1, <2>2, <2>3, LearnsRest
<1>6. CASE StopForce(c)
  <2>1. UNCHANGED commandVars BY <1>6 DEF StopForce
  <2>2. CommandTypes' /\ Others(c) BY <1>1, <2>1 DEF commandVars, CommandTypes, Others
  <2>3. CommandOK(c)' BY <2>1, OthersKeep DEF commandVars
  <2> QED BY <2>1, <2>2, <2>3, LearnsRest DEF commandVars
<1>7. CASE Stopped(c)
  <2>1. CommandTypes' /\ Others(c) BY <1>1, <1>7 DEF Stopped, Ends, CommandTypes, Others
  <2>2. pid[c] = seen[c] /\ seen[c] # None /\ stage[seen[c]] = "dead" /\ child[c] = None /\ result[c] = None
    BY <1>1, <1>7 DEF Stopped, CommandOK, At
  <2>3. CommandOK(c)'
    BY <1>1, <1>7, <2>2, LifecycleAssumption DEF Stopped, Ends, CommandTypes, CommandOK, At, bridgeVars
  <2> QED BY <1>7, <2>1, <2>3, LearnsRest DEF Stopped
<1> QED BY <1>2, <1>3, <1>4, <1>5, <1>6, <1>7, ReadingSteps DEF Stop

-----------------------------------------------------------------------------
(* The theorems. *)

LEMMA RuntimeServed ==
  ASSUME LifecycleInv, Progress, runtime' # None, Next PROVE stage'[runtime'] \in Served
<1>1. BridgeTypes /\ RecordServed BY DEF LifecycleInv, BridgeInv
<1>2. CASE runtime' = runtime BY <1>1, <1>2 DEF BridgeTypes, RecordServed, Progress
<1>3. ASSUME NEW b \in Bridges, Open(b) \/ PersistAgain(b), runtime' = b PROVE stage'[runtime'] \in Served
  <2>1. stage'[b] = "serving" \/ runtime' = runtime
    BY <1>1, <1>3 DEF Open, Opened, OpenFailed, PersistAgain, Go, At, BridgeTypes, bridgeVars
  <2> QED BY <1>2, <1>3, <2>1 DEF Served
<1>4. ASSUME NEW b \in Bridges, Start(b) \/ PersistAgain(b) \/ CloseListener(b) \/ Close(b) \/ Crash(b)
      PROVE  runtime' \in {runtime, None} \/ ((Open(b) \/ PersistAgain(b)) /\ runtime' = b)
  BY <1>4
  DEF Start, StartRead, StartProbe, StartClear, LockCreate, LockInspect, LockRemove, LockWrite, Open, Opened, OpenFailed,
      PersistAgain, CloseListener, Close, CloseClear, CloseUnlock, Exit, Crash, files
<1>5. ASSUME NEW c \in Commands, Ensure(c) \/ Stop(c) PROVE runtime' \in {runtime, None}
  BY <1>5
  DEF Ensure, Stop, EnsureRead, EnsureProbe, EnsureClear, Spawn, WaitRead, WaitProbe, WaitClear, WaitExit, WaitDeadline,
      KillForce, KillDone, StopRead, StopProbe, StopClear, StopAdmin, StopTimeout, StopKill, StopForce, Stopped, Clears, files
<1>6. CASE LockAges BY <1>2, <1>6 DEF LockAges
<1> QED BY <1>2, <1>3, <1>4, <1>5, <1>6 DEF Next

LEMMA InvNext == ASSUME LifecycleInv, Next PROVE LifecycleInv'
<1>1. BridgeInv' /\ Progress
  <2>1. ASSUME NEW c \in Commands, Ensure(c) \/ Stop(c) PROVE BridgeInv' /\ Progress
    BY <2>1, CommandMoves DEF LifecycleInv
  <2>2. ASSUME LockAges PROVE BridgeInv' /\ Progress
    <3>1. lock # None /\ lock'.owner = lock.owner /\ UNCHANGED <<bridgeVars, runtime, killed>> BY <2>2 DEF LockAges
    <3> QED BY <2>2, <3>1, StayPut DEF LifecycleInv, BridgeInv, BridgeTypes, bridgeVars
  <2> QED BY <2>1, <2>2, StartMoves, ServeMoves DEF Next, LifecycleInv
<1>2. runtime' # None => stage'[runtime'] \in Served BY <1>1, RuntimeServed
<1>3. CASE UNCHANGED commandVars
  <2>1. CommandTypes' BY <1>3 DEF commandVars, LifecycleInv, CommandTypes
  <2>2. \A c \in Commands : CommandOK(c)' BY <1>1, <1>3, OthersKeep DEF commandVars
  <2>3. \A c \in Commands : seen'[c] # None => stage'[seen'[c]] \in Served
    BY <1>1, <1>3 DEF commandVars, LifecycleInv, CommandTypes, RecordServed, Progress
  <2> QED BY <1>1, <1>2, <2>1, <2>2, <2>3 DEF LifecycleInv, RecordServed
<1>4. ASSUME NEW c \in Commands, Learns(c) PROVE LifecycleInv'
  <2>1. \A d \in Commands : d # c => CommandOK(d)' BY <1>1, <1>4, OthersKeep DEF Learns, Others
  <2>2. \A d \in Commands : seen'[d] # None => stage'[seen'[d]] \in Served
    <3> SUFFICES ASSUME NEW d \in Commands, seen'[d] # None, d # c PROVE stage'[seen'[d]] \in Served
      BY <1>4 DEF Learns
    <3>1. seen'[d] = seen[d] /\ seen[d] \in Bridges /\ stage[seen[d]] \in Served
      BY <1>4 DEF Learns, Others, LifecycleInv, CommandTypes, RecordServed
    <3> QED BY <1>1, <3>1 DEF Progress
  <2> QED BY <1>1, <1>2, <1>4, <2>1, <2>2 DEF LifecycleInv, RecordServed, Learns
<1>5. ASSUME NEW c \in Commands, Ensure(c) \/ Stop(c) PROVE LifecycleInv'
  BY <1>1, <1>4, <1>5, EnsureSteps, StopSteps
<1>6. ASSUME NEW b \in Bridges, Start(b) \/ PersistAgain(b) \/ CloseListener(b) \/ Close(b) \/ Crash(b)
      PROVE  UNCHANGED commandVars
  BY <1>6
  DEF Start, StartRead, StartProbe, StartClear, LockCreate, LockInspect, LockRemove, LockWrite, Open, Opened, OpenFailed,
      PersistAgain, CloseListener, Close, CloseClear, CloseUnlock, Exit, Crash
<1>7. LockAges => UNCHANGED commandVars BY DEF LockAges
<1> QED BY <1>3, <1>5, <1>6, <1>7 DEF Next

LEMMA InvStutter == LifecycleInv /\ UNCHANGED vars => LifecycleInv'
<1> SUFFICES ASSUME LifecycleInv, UNCHANGED vars PROVE LifecycleInv'
  OBVIOUS
<1>1. UNCHANGED <<stage, port, runtime, lock, killed, step, seen, child, pid, replaces, result>>
  BY DEF vars, bridgeVars, files, commandVars
<1>2. BridgeInv' BY <1>1 DEF LifecycleInv, BridgeInv, BridgeTypes, OwnerHolds, PortsDiffer, At
<1>3. CommandTypes' /\ RecordServed' BY <1>1 DEF LifecycleInv, CommandTypes, RecordServed
<1>4. \A c \in Commands : CommandOK(c)' BY <1>1 DEF LifecycleInv, CommandOK, At
<1> QED BY <1>2, <1>3, <1>4 DEF LifecycleInv

LEMMA InvHolds == Spec => []LifecycleInv
<1>1. LifecycleInv /\ [Next]_vars => LifecycleInv' BY InvNext, InvStutter
<1> QED BY <1>1, InvInit, PTL DEF Spec

\* However many bridges start at once and whatever stops them, one that ends on its
\* own account leaves no lock of its own (cleanupLock in Start, and Close).
THEOREM NoLockLeaks == Spec => []LockNotLeaked
<1>1. LifecycleInv => LockNotLeaked
  BY DEF LifecycleInv, BridgeInv, BridgeTypes, OwnerHolds, LockNotLeaked, At, Holding
<1> QED BY <1>1, InvHolds, PTL

\* However many commands run, an Ensure that reports failure after it spawned a
\* bridge leaves no process (fail in Ensure): it waits for the one it killed, and
\* nothing that is dead comes back.
THEOREM FailureIsClean == Spec => []FailureLeavesNothing
<1>1. LifecycleInv => FailureLeavesNothing BY DEF LifecycleInv, CommandOK, FailureLeavesNothing
<1> QED BY <1>1, InvHolds, PTL

\* However many commands and bridges there are, one that a command reports stopped,
\* or replaces, is gone (Stop in daemon.go): ports of serving bridges differ, hence
\* the bridge that answers for a record that is alive is the one that wrote it.
THEOREM StopIsTrue == Spec => []StoppedIsGone
<1>1. LifecycleInv => StoppedIsGone BY DEF LifecycleInv, CommandOK, StoppedIsGone
<1> QED BY <1>1, InvHolds, PTL
=============================================================================
