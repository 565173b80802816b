--------------------------- MODULE InstallSecret ---------------------------
(***************************************************************************)
(* The secret of an installation (internal/runtime/runtime.go): the first  *)
(* of several processes to need it creates it, under a lock that is a      *)
(* directory.  A step makes one access to the file system; a process may   *)
(* die between two steps and leave its lock behind.                        *)
(*                                                                         *)
(* The random bytes a call would draw are named by the call.               *)
(***************************************************************************)
CONSTANTS
  Calls,     \* calls of InstallSecret, by any processes
  Absent,    \* absence of a file, a lock or a result
  Corrupt    \* contents that decodeInstallSecret refuses

ASSUME SecretAssumption == Absent \notin Calls /\ Corrupt \notin Calls /\ Absent # Corrupt

VARIABLES
  secret,    \* the file install-secret: Absent, Corrupt, or what a call wrote
  lock,      \* install-secret.lock: Absent, or the call that made it
  old,       \* the lock is more than 30 seconds old
  at,        \* where each call is
  expired,   \* calls whose 3 seconds are over
  result,    \* what each call has returned
  usurped,   \* history: how locks were broken whose calls still ran, "slow" or "raced"
  removable  \* whether a lock can be removed at all (constant)

secretVars == <<secret, lock, old, at, expired, result, usurped, removable>>

Holding == {"recheck", "unlink", "write", "unlock"}
Looping == {"mkdir", "poll", "stat", "break", "deadline"}
Running == Holding \cup Looping \cup {"first"}

Goto(p, from, to) == at[p] = from /\ at' = [at EXCEPT ![p] = to]
Return(p, s) == result' = [result EXCEPT ![p] = s]

-----------------------------------------------------------------------------
Begin(p) == Goto(p, "idle", "first") /\ UNCHANGED <<secret, lock, old, expired, result, usurped, removable>>

\* The read at a place of p, which ends p when the secret is there.
Read(p, from, last, otherwise) ==
  /\ IF secret \in Calls THEN Goto(p, from, last) /\ Return(p, secret)
     ELSE Goto(p, from, otherwise) /\ UNCHANGED result
  /\ UNCHANGED <<secret, lock, old, expired, usurped, removable>>

ReadFirst(p) == Read(p, "first", "end", "mkdir")

Mkdir(p) ==
  /\ IF lock = Absent
     THEN Goto(p, "mkdir", "recheck") /\ lock' = p /\ old' = FALSE
     ELSE Goto(p, "mkdir", "poll") /\ UNCHANGED <<lock, old>>
  /\ UNCHANGED <<secret, expired, result, usurped, removable>>

Poll(p) == Read(p, "poll", "end", "stat")

Stat(p) ==
  /\ Goto(p, "stat", IF lock # Absent /\ old THEN "break" ELSE "deadline")
  /\ UNCHANGED <<secret, lock, old, expired, result, usurped, removable>>

\* RemoveAll, whose error is dropped.
RemoveLock ==
  IF removable THEN lock' = Absent /\ old' = FALSE ELSE UNCHANGED <<lock, old>>

\* The lock that is removed need not be the one that was found old.  Removed or
\* not, the next step is another Mkdir: no look at the deadline, and no sleep.
BreakLock(p) ==
  /\ Goto(p, "break", "mkdir")
  /\ RemoveLock
  /\ usurped' = IF lock' # lock /\ at[lock] \in Holding
                 THEN usurped \cup {IF old THEN "slow" ELSE "raced"} ELSE usurped
  /\ UNCHANGED <<secret, expired, result, removable>>

\* Mutant: the loop has no deadline.
NoDeadline(p) == Goto(p, "deadline", "mkdir") /\ UNCHANGED <<secret, lock, old, expired, result, usurped, removable>>

Deadline(p) ==
  /\ Goto(p, "deadline", IF p \in expired THEN "end" ELSE "mkdir")
  /\ UNCHANGED <<secret, lock, old, expired, result, usurped, removable>>

\* Mutant: whoever gets the lock creates the secret.
RecheckNothing(p) == Goto(p, "recheck", "write") /\ UNCHANGED <<secret, lock, old, expired, result, usurped, removable>>

Recheck(p) == Read(p, "recheck", "unlock", IF secret = Corrupt THEN "unlink" ELSE "write")

Unlink(p) ==
  /\ Goto(p, "unlink", "write")
  /\ secret' = Absent
  /\ UNCHANGED <<lock, old, expired, result, usurped, removable>>

WriteSecret(p) ==
  /\ Goto(p, "write", "unlock")
  /\ secret' = p /\ Return(p, p)
  /\ UNCHANGED <<lock, old, expired, usurped, removable>>

\* The deferred removal takes whatever lock is there.
Unlock(p) ==
  /\ Goto(p, "unlock", "end")
  /\ RemoveLock
  /\ UNCHANGED <<secret, expired, result, usurped, removable>>

\* An access to the file system fails where the code returns the error: the
\* lock, if p made it, goes with the return.
Fail(p) ==
  /\ \/ at[p] \in {"first", "mkdir"} /\ at' = [at EXCEPT ![p] = "end"]
     \/ at[p] \in {"recheck", "unlink", "write"} /\ at' = [at EXCEPT ![p] = "unlock"]
  /\ UNCHANGED <<secret, lock, old, expired, result, usurped, removable>>

\* The process of p dies; what it would have returned is of no use to anyone.
Die(p) ==
  /\ at[p] \in Running
  /\ at' = [at EXCEPT ![p] = "end"]
  /\ Return(p, Absent)
  /\ UNCHANGED <<secret, lock, old, expired, usurped, removable>>

Expire(p) ==
  /\ at[p] \in Looping /\ p \notin expired
  /\ expired' = expired \cup {p}
  /\ UNCHANGED <<secret, lock, old, at, result, usurped, removable>>

GrowOld == lock # Absent /\ old' = TRUE /\ UNCHANGED <<secret, lock, at, expired, result, usurped, removable>>

Step(p) ==
  \/ ReadFirst(p) \/ Mkdir(p) \/ Poll(p) \/ Stat(p) \/ BreakLock(p) \/ Deadline(p)
  \/ Recheck(p) \/ Unlink(p) \/ WriteSecret(p) \/ Unlock(p)

SecretInit ==
  /\ secret \in {Absent, Corrupt}
  /\ lock = Absent /\ old = FALSE
  /\ at = [p \in Calls |-> "idle"]
  /\ expired = {}
  /\ result = [p \in Calls |-> Absent]
  /\ usurped = {}
  /\ removable \in BOOLEAN

SecretNext == (\E p \in Calls : Begin(p) \/ Step(p) \/ Fail(p) \/ Die(p) \/ Expire(p)) \/ GrowOld

\* A call that runs is scheduled, and its clock runs.
SecretFairness == \A p \in Calls : WF_secretVars(Step(p)) /\ WF_secretVars(Expire(p))

SecretSpec == SecretInit /\ [][SecretNext]_secretVars /\ SecretFairness

-----------------------------------------------------------------------------
(* Properties. *)

\* Whoever has been given a secret has the one on the file.
Agree == \A p \in Calls : result[p] # Absent => secret = result[p]

\* Whoever has been given a secret has the one on the file, also when several
\* processes come first at once, when one dies on the way, and when the file
\* was damaged.  There are two exceptions, both from the breaking of a lock
\* whose call still runs.  "slow": the call has had it for 30 seconds.
\* "raced": one call found a lock old, the lock went (another call broke it, or
\* its owner was done), a third call made its own, and the first removed that:
\* runtime.go:193-194 looks at a lock and removes what is at its path by then.
OneSecret == usurped = {} => Agree

\* No call waits for ever, whoever died holding the lock, if the lock can be
\* removed.  If it cannot, a call that finds it old goes round without end.
SecretEnds == \A p \in Calls : (removable /\ at[p] \in Running) ~> at[p] = "end"
=============================================================================
