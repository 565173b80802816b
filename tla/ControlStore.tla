---------------------------- MODULE ControlStore ----------------------------
(***************************************************************************)
(* The control store of one bridge process (internal/control/store.go) with*)
(* its file, the callers of the loopback admin API that prepare, wait for  *)
(* and cancel a slot (internal/bridge/control_admin.go), and the remote    *)
(* submit_control_response tool (internal/mcp/tools_control.go).           *)
(*                                                                         *)
(* Every operation runs under Store.mu, so it is one step; Cancel takes the*)
(* mutex twice and is two.  Each write of the file may fail, leaving the   *)
(* file as it was (state.WriteFileAtomic renames a complete temporary      *)
(* file), and the process may die between any two steps.                   *)
(***************************************************************************)
EXTENDS FiniteSets, Integers

CONSTANTS
  Requests,    \* request identifiers; a random one is never drawn twice
  Tuples,      \* (task, iteration) pairs
  Answers,     \* canonical encodings of submissions
  Cancellers,  \* concurrent calls of /admin/control/cancel
  Waiters,     \* concurrent calls of /admin/control/wait
  None,        \* absence of a record, a time or an answer
  MaxActive,   \* MaxActive, 16 in the code
  MinTTL, MaxTTL,  \* limits of a pending slot's life (1 minute, 4 hours)
  Retention,   \* life of a submitted answer (30 minutes)
  MaxWait,     \* longest wait a caller may ask for
  Size(_),     \* length of the JSON encoding of a set of records
  MaxSize,     \* largest encoding that is written, largest file that is read (1 MiB)
  MaxTime,     \* bound of the model: the clock stops here
  MaxStepBack  \* how far the wall clock may be set back (0: it never is)

\* A record of the store; times and answer are absent while it is pending.
Slot == [tuple : Tuples, status : {"pending", "submitted"}, created : Nat, expires : Nat,
         submitted : Nat \cup {None}, answer : Answers \cup {None}]

ASSUME ControlAssumption ==
  /\ None \notin Tuples \cup Answers \cup Requests \cup Nat \cup Slot
  /\ MaxActive \in Nat \ {0}
  /\ MinTTL \in Nat \ {0} /\ MaxTTL \in Nat /\ MinTTL <= MaxTTL
  /\ Retention \in Nat \ {0}
  /\ MaxWait \in Nat /\ MaxTime \in Nat /\ MaxStepBack \in Nat
  /\ IsFiniteSet(Requests)

VARIABLES
  up,          \* the bridge process serves this workspace
  mem,         \* Store.records
  disk,        \* control/<workspace>.json, all None when there is no file
  now,         \* the wall clock: UTC() drops Go's monotonic reading
  cancelling,  \* per canceller, the request it looked up and not yet deleted
  waiting,     \* per waiter, the request it polls and the time it has left
  issued,      \* history: requests a Prepare has stored
  receipts,    \* history: receipts Submit has returned
  cancelled,   \* history: requests a Cancel reported as cancelled
  heard        \* history: answers a waiter has been given

store   == <<mem, disk>>
callers == <<cancelling, waiting>>
history == <<issued, receipts, cancelled, heard>>
vars    == <<up, now, store, callers, history>>

Store == [Requests -> Slot \cup {None}]
Wait  == [request : Requests, tuple : Tuples, left : Nat]

Empty == [r \in Requests |-> None]
Active(s) == {r \in Requests : s[r] # None}
Without(s, r) == [s EXCEPT ![r] = None]

-----------------------------------------------------------------------------
(* Expiry and persistence. *)

IsExpired(rec) == rec # None /\ rec.expires <= now

\* pruneLocked: drops every record whose time is up.
Prune(s) == [r \in Requests |-> IF IsExpired(s[r]) THEN None ELSE s[r]]

\* saveLocked: no file for an empty store, no encoding larger than the limit,
\* and a newline after the encoding; io is whether the file system obliges.
FileSize(s) == Size(s) + 1

Fits(s) == Size(s) <= MaxSize

Saved(s, io) == io /\ (s = Empty \/ Fits(s))

\* Mutant: the records are not put back when the write fails.
PersistNoRollback(s, io) ==
  IF s # mem THEN mem' = s /\ disk' = (IF Saved(s, io) THEN s ELSE disk) ELSE UNCHANGED store

\* A change of the records that is kept only if it was written.
Persist(s, io) ==
  IF s # mem /\ Saved(s, io) THEN mem' = s /\ disk' = s ELSE UNCHANGED store

\* pruneAndSaveLocked succeeded: nothing to drop, or what is left was written.
Swept(io) == Prune(mem) = mem \/ Saved(Prune(mem), io)

\* The store a lookup of r leaves: the one expired record it was asked for is
\* dropped alone, otherwise all expired records are.
AfterLookup(r) == IF IsExpired(mem[r]) THEN Without(mem, r) ELSE Prune(mem)

\* The lookup returned the record of r under the identity t.
Finds(r, t, io) ==
  /\ mem[r] # None /\ ~IsExpired(mem[r])
  /\ Swept(io)
  /\ mem[r].tuple = t

-----------------------------------------------------------------------------
(* Operations. *)

NewSlot(t, ttl) ==
  [tuple |-> t, status |-> "pending", created |-> now, expires |-> now + ttl,
   submitted |-> None, answer |-> None]

AnsweredSlot(rec, a) ==
  [tuple |-> rec.tuple, status |-> "submitted", created |-> rec.created,
   expires |-> now + Retention, submitted |-> now, answer |-> a]

Receipt(r, rec) == [request |-> r, answer |-> rec.answer, expires |-> rec.expires]

\* Mutant: a failed second write leaves the new records in memory.
PersistAfterSweepNoRollback(s, sweepIO, io) ==
  mem' = s /\ disk' = IF Saved(s, io) THEN s ELSE disk

\* The second write of an operation: new records, or the swept ones when it fails.
PersistAfterSweep(s, sweepIO, io) ==
  IF Saved(s, io) THEN mem' = s /\ disk' = s ELSE Persist(Prune(mem), sweepIO)

\* Mutant: only a pending slot is reused.
HasPendingTuple(s, t) == \E r \in Active(s) : s[r].tuple = t /\ s[r].status = "pending"

HasTuple(s, t) == \E r \in Active(s) : s[r].tuple = t

\* Prepare opens no slot when the sweep cannot be written, when the tuple has a
\* slot, pending or submitted (which it returns), and when the store is full.
PrepareNoSlot(t, sweepIO) ==
  /\ ~Swept(sweepIO) \/ HasTuple(Prune(mem), t)
                     \/ Cardinality(Active(Prune(mem))) >= MaxActive
  /\ Persist(Prune(mem), sweepIO)
  /\ UNCHANGED issued

\* Mutant: one slot too many.
PrepareNewOffByOne(t, ttl, sweepIO, io) ==
  /\ Swept(sweepIO)
  /\ ~HasTuple(Prune(mem), t)
  /\ Cardinality(Active(Prune(mem))) <= MaxActive
  /\ \E r \in Requests \ issued :
       LET next == [Prune(mem) EXCEPT ![r] = NewSlot(t, ttl)] IN
       /\ PersistAfterSweep(next, sweepIO, io)
       /\ issued' = IF Saved(next, io) THEN issued \cup {r} ELSE issued

PrepareNew(t, ttl, sweepIO, io) ==
  /\ Swept(sweepIO)
  /\ ~HasTuple(Prune(mem), t)
  /\ Cardinality(Active(Prune(mem))) < MaxActive
  /\ \E r \in Requests \ issued :
       LET next == [Prune(mem) EXCEPT ![r] = NewSlot(t, ttl)] IN
       /\ PersistAfterSweep(next, sweepIO, io)
       /\ issued' = IF Saved(next, io) THEN issued \cup {r} ELSE issued

Prepare(t, ttl, sweepIO, io) ==
  /\ up
  /\ PrepareNoSlot(t, sweepIO) \/ PrepareNew(t, ttl, sweepIO, io)
  /\ UNCHANGED <<up, now, callers, receipts, cancelled, heard>>

\* Submit refuses what it does not find, or finds answered otherwise; it
\* acknowledges a repetition, and stores the first answer.
SubmitRefused(r, t, a, io) ==
  /\ Finds(r, t, io) => mem[r].status = "submitted" /\ mem[r].answer # a
  /\ Persist(AfterLookup(r), io)
  /\ UNCHANGED receipts

SubmitRepeated(r, t, a, io) ==
  /\ Finds(r, t, io)
  /\ mem[r].status = "submitted" /\ mem[r].answer = a
  /\ Persist(AfterLookup(r), io)
  /\ receipts' = receipts \cup {Receipt(r, mem[r])}

\* Mutant: a second, different answer replaces the first.
SubmitLast(r, t, a, sweepIO, io) ==
  /\ Finds(r, t, sweepIO)
  /\ LET rec  == AnsweredSlot(mem[r], a)
         next == [Prune(mem) EXCEPT ![r] = rec] IN
     /\ PersistAfterSweep(next, sweepIO, io)
     /\ receipts' = IF Saved(next, io) THEN receipts \cup {Receipt(r, rec)} ELSE receipts

\* Mutant: the receipt does not wait for the write.
SubmitEager(r, t, a, sweepIO, io) ==
  /\ Finds(r, t, sweepIO)
  /\ mem[r].status = "pending"
  /\ LET rec  == AnsweredSlot(mem[r], a) IN
     /\ PersistAfterSweep([Prune(mem) EXCEPT ![r] = rec], sweepIO, io)
     /\ receipts' = receipts \cup {Receipt(r, rec)}

SubmitFirst(r, t, a, sweepIO, io) ==
  /\ Finds(r, t, sweepIO)
  /\ mem[r].status = "pending"
  /\ LET rec  == AnsweredSlot(mem[r], a)
         next == [Prune(mem) EXCEPT ![r] = rec] IN
     /\ PersistAfterSweep(next, sweepIO, io)
     /\ receipts' = IF Saved(next, io) THEN receipts \cup {Receipt(r, rec)} ELSE receipts

Submit(r, t, a, sweepIO, io) ==
  /\ up
  /\ \/ SubmitRefused(r, t, a, sweepIO)
     \/ SubmitRepeated(r, t, a, sweepIO)
     \/ SubmitFirst(r, t, a, sweepIO, io)
  /\ UNCHANGED <<up, now, callers, issued, cancelled, heard>>

\* Cancel, first half: Get under its own hold of the mutex.
CancelLookup(k, r, t, io) ==
  /\ up /\ cancelling[k] = None
  /\ Persist(AfterLookup(r), io)
  /\ cancelling' = IF Finds(r, t, io) THEN [cancelling EXCEPT ![k] = r] ELSE cancelling
  /\ UNCHANGED <<up, now, waiting, history>>

\* Mutant: the record is not looked at again under the second hold of the mutex.
CancelDeleteUnchecked(k, io) ==
  LET r    == cancelling[k]
      next == Without(mem, r) IN
  /\ up /\ r # None
  /\ cancelling' = [cancelling EXCEPT ![k] = None]
  /\ Persist(next, io)
  /\ cancelled' = IF Saved(next, io) THEN cancelled \cup {r} ELSE cancelled
  /\ UNCHANGED <<up, now, waiting, issued, receipts, heard>>

\* Cancel, second half: the record may have been answered, cancelled or pruned
\* since; expiry is not looked at again.
CancelDelete(k, io) ==
  LET r == cancelling[k] IN
  /\ up /\ r # None
  /\ cancelling' = [cancelling EXCEPT ![k] = None]
  /\ IF mem[r] # None /\ mem[r].status = "pending"
     THEN LET next == Without(mem, r) IN
          /\ Persist(next, io)
          /\ cancelled' = IF Saved(next, io) THEN cancelled \cup {r} ELSE cancelled
     ELSE UNCHANGED <<store, cancelled>>
  /\ UNCHANGED <<up, now, waiting, issued, receipts, heard>>

\* /admin/control/wait polls Get until the answer is there or its time is up.
WaitStart(w, r, t, wait) ==
  /\ up /\ waiting[w] = None
  /\ now + wait <= MaxTime  \* bound of the model: a wait ends before the clock does
  /\ waiting' = [waiting EXCEPT ![w] = [request |-> r, tuple |-> t, left |-> wait]]
  /\ UNCHANGED <<up, now, store, cancelling, history>>

\* Mutant: the deadline is not looked at.
WaitPollForever(w, io) ==
  LET r == waiting[w].request
      found == Finds(r, waiting[w].tuple, io) IN
  /\ up /\ waiting[w] # None
  /\ Persist(AfterLookup(r), io)
  /\ waiting' = IF found /\ mem[r].status = "pending" THEN waiting ELSE [waiting EXCEPT ![w] = None]
  /\ heard' = IF found /\ mem[r].status = "submitted"
              THEN heard \cup {[request |-> r, answer |-> mem[r].answer]} ELSE heard
  /\ UNCHANGED <<up, now, cancelling, issued, receipts, cancelled>>

WaitPoll(w, io) ==
  LET r == waiting[w].request
      found == Finds(r, waiting[w].tuple, io)
      again == found /\ mem[r].status = "pending" /\ waiting[w].left > 0 IN
  /\ up /\ waiting[w] # None
  /\ Persist(AfterLookup(r), io)
  /\ waiting' = IF again THEN waiting ELSE [waiting EXCEPT ![w] = None]
  /\ heard' = IF found /\ mem[r].status = "submitted"
              THEN heard \cup {[request |-> r, answer |-> mem[r].answer]} ELSE heard
  /\ UNCHANGED <<up, now, cancelling, issued, receipts, cancelled>>

\* The caller of a wait hangs up.
WaitAbandoned(w) ==
  /\ up /\ waiting[w] # None
  /\ waiting' = [waiting EXCEPT ![w] = None]
  /\ UNCHANGED <<up, now, store, cancelling, history>>

-----------------------------------------------------------------------------
(* Restart, crash and the clock. *)

\* validateRecord, for a record of this workspace.
ValidRecord(rec) ==
  /\ rec.created < rec.expires
  /\ rec.status = "pending" =>
       /\ rec.answer = None /\ rec.submitted = None
       /\ rec.expires - rec.created \in MinTTL..MaxTTL
  /\ rec.status = "submitted" =>
       /\ rec.answer # None /\ rec.submitted # None
       /\ rec.created <= rec.submitted /\ rec.submitted < rec.expires
       /\ rec.expires - rec.submitted <= Retention

\* What NewStore accepts: it refuses the whole file for one record it dislikes.
Loadable(s) ==
  /\ s = Empty \/ FileSize(s) <= MaxSize
  /\ Cardinality(Active(s)) <= MaxActive
  /\ \A r \in Active(s) : ValidRecord(s[r])
  /\ \A q, r \in Active(s) : s[q].tuple = s[r].tuple => q = r

\* NewStore: an error, of the file or of the pruning write, and the bridge
\* does not start.
NewStore(io) ==
  LET kept == Prune(disk) IN
  /\ ~up
  /\ Loadable(disk)
  /\ kept = disk \/ Saved(kept, io)
  /\ up' = TRUE
  /\ mem' = kept
  /\ disk' = kept
  /\ UNCHANGED <<now, callers, history>>

\* The process dies: the records in memory go, pending calls end in an error.
Crash ==
  /\ up
  /\ up' = FALSE
  /\ mem' = Empty
  /\ cancelling' = [k \in Cancellers |-> None]
  /\ waiting' = [w \in Waiters |-> None]
  /\ UNCHANGED <<now, disk, history>>

\* Time passes, on the wall clock and for the deadlines, which are monotonic.
Elapse(wait) == IF wait # None /\ wait.left > 0 THEN [wait EXCEPT !.left = @ - 1] ELSE wait

Tick ==
  /\ now < MaxTime
  /\ now' = now + 1
  /\ waiting' = [w \in Waiters |-> Elapse(waiting[w])]
  /\ UNCHANGED <<up, store, cancelling, history>>

\* The wall clock is corrected backwards.
SetBack ==
  /\ \E d \in 1..MaxStepBack : d <= now /\ now' = now - d
  /\ UNCHANGED <<up, store, callers, history>>

Init ==
  /\ up = FALSE
  /\ mem = Empty
  /\ disk = Empty
  /\ now = 0
  /\ cancelling = [k \in Cancellers |-> None]
  /\ waiting = [w \in Waiters |-> None]
  /\ issued = {}
  /\ receipts = {}
  /\ cancelled = {}
  /\ heard = {}

Call(sweepIO, io) ==
  \/ \E t \in Tuples, ttl \in MinTTL..MaxTTL : Prepare(t, ttl, sweepIO, io)
  \/ \E r \in Requests, t \in Tuples, a \in Answers : Submit(r, t, a, sweepIO, io)
  \/ \E k \in Cancellers, r \in Requests, t \in Tuples : CancelLookup(k, r, t, io)
  \/ \E k \in Cancellers : CancelDelete(k, io)
  \/ \E w \in Waiters, r \in Requests, t \in Tuples, wait \in 0..MaxWait : WaitStart(w, r, t, wait)
  \/ \E w \in Waiters : WaitPoll(w, io)
  \/ \E w \in Waiters : WaitAbandoned(w)

Next ==
  \/ \E sweepIO, io \in BOOLEAN : Call(sweepIO, io)
  \/ \E io \in BOOLEAN : NewStore(io)
  \/ Crash
  \/ Tick
  \/ SetBack

Spec == Init /\ [][Next]_vars

-----------------------------------------------------------------------------
(* Properties. *)

TypeOK ==
  /\ up \in BOOLEAN
  /\ mem \in Store
  /\ disk \in Store
  /\ now \in Nat
  /\ cancelling \in [Cancellers -> Requests \cup {None}]
  /\ waiting \in [Waiters -> Wait \cup {None}]
  /\ issued \subseteq Requests
  /\ receipts \subseteq [request : Requests, answer : Answers, expires : Nat]
  /\ cancelled \subseteq Requests
  /\ heard \subseteq [request : Requests, answer : Answers \cup {None}]

\* A refused or failed call leaves no trace: the records in memory are exactly
\* those of the file after every call, so that a restart loses nothing a
\* caller was told and revives nothing a caller was denied
\* (the rollbacks of store.go after saveLocked).
MemoryIsFile == up => mem = disk

\* The first response is immutable: over the whole life of a request, through
\* retries, races, failed writes and restarts, all receipts for it are for
\* one content, and a waiter is only ever given that content
\* (docs/control-response.md, "The first response is immutable").
OneAnswer ==
  /\ \A p, q \in receipts : p.request = q.request => p.answer = q.answer
  /\ \A h \in heard : \E p \in receipts : p.request = h.request /\ p.answer = h.answer

\* A request is not both answered and cancelled: a caller told its cancel took
\* effect will never learn that the other side holds a receipt.
CancelOrAnswer == \A p \in receipts : p.request \notin cancelled

\* A response with a receipt stays readable until the time on the receipt:
\* no cancel, sweep, failed write or restart removes it earlier.
AnswerKept ==
  \A p \in receipts : now < p.expires =>
    /\ disk[p.request] # None
    /\ disk[p.request].answer = p.answer

\* The file the store leaves behind, at any moment, is one NewStore accepts: a
\* bridge that dies can start again.  It holds when no encoding has the length
\* of the limit exactly and the wall clock is never set back.
Restartable == Loadable(disk)

\* What docs/control-response.md promises of a submitted response ("submitted
\* responses remain for 30 minutes"): while a receipt has time left, a bridge
\* that starts can load it.  It holds of a wall clock that is never set back.
AnswersReloadable == (\E p \in receipts : now < p.expires) => Loadable(disk)

\* docs/control-response.md, "workspace control state is at most 1 MiB": the file
\* is within the limit that saveLocked and NewStore both apply.
StateWithinLimit == disk = Empty \/ FileSize(disk) <= MaxSize

\* The store implements the life cycle of ControlSlots, read off the file.
SlotIn(s, r) ==
  IF s[r] # None
  THEN [phase |-> s[r].status, tuple |-> s[r].tuple, answer |-> s[r].answer]
  ELSE [phase |-> IF r \in cancelled THEN "cancelled"
                  ELSE IF r \in issued THEN "expired" ELSE "unused",
        tuple |-> None, answer |-> None]

Slots == INSTANCE ControlSlots WITH slot <- [r \in Requests |-> SlotIn(disk, r)]

\* Whatever the file system, the clock and the callers do, a request goes
\* through unused, pending, submitted, expired or unused, pending, cancelled,
\* with one slot per tuple and MaxActive slots at most.
LifeCycle == Slots!Spec

\* The inductive invariant behind MemoryIsFile, OneAnswer and CancelOrAnswer:
\* what the file, the receipts and the cancellations say of a request agrees.
Consistent ==
  /\ cancelled \subseteq issued
  /\ \A r \in Active(disk) : r \in issued /\ r \notin cancelled
  /\ \A r \in Active(disk) : disk[r].status = "submitted" => Receipt(r, disk[r]) \in receipts
  /\ \A p \in receipts :
       /\ p.request \in issued /\ p.request \notin cancelled
       /\ p.request \in Active(disk) =>
            disk[p.request].status = "submitted" /\ Receipt(p.request, disk[p.request]) = p

Bounded ==
  /\ disk = Empty \/ Fits(disk)
  /\ Cardinality(Active(disk)) <= MaxActive
  /\ \A q, r \in Active(disk) : disk[q].tuple = disk[r].tuple => q = r

IInv == TypeOK /\ MemoryIsFile /\ Consistent /\ OneAnswer /\ Bounded

\* With a clock that never goes back, also behind AnswerKept and Restartable:
\* every record has times NewStore accepts, none of them in the future.
RecordsValid == \A r \in Active(disk) : ValidRecord(disk[r]) /\ disk[r].created <= now

\* The handler of /admin/control/wait polls without end conditions other than
\* its own and the clock runs: both are scheduled again and again.
FairSpec ==
  /\ Spec
  /\ WF_vars(Tick)
  /\ \A w \in Waiters : WF_vars(\E io \in BOOLEAN : WaitPoll(w, io))

\* A wait ends, with an answer, an error or a timeout.
WaitEnds == \A w \in Waiters : waiting[w] # None ~> waiting[w] = None
=============================================================================
