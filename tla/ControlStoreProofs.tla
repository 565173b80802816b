------------------------- MODULE ControlStoreProofs -------------------------
(***************************************************************************)
(* Theorems of ControlStore, for every number of requests, tuples, answers *)
(* and callers, every capacity and every clock.                            *)
(*                                                                         *)
(* The argument: TypeOK is inductive.  Under it, and while memory and file *)
(* agree, every operation has one of four effects on the file: it sweeps   *)
(* expired records, and may besides open a fresh slot, answer a pending    *)
(* one, or delete a pending one (StepEffect).  The invariant IInv, and the *)
(* steps of the abstract life cycle, are then checked effect by effect.    *)
(***************************************************************************)
EXTENDS ControlStore, FiniteSetTheorems, TLAPS

-----------------------------------------------------------------------------
(* Type correctness. *)

LEMMA EmptyType == Empty \in Store
  BY DEF Empty, Store

LEMMA PruneType == ASSUME NEW s \in Store PROVE Prune(s) \in Store
  BY DEF Prune, Store

LEMMA WithoutType ==
  ASSUME NEW s \in Store, NEW r \in Requests PROVE Without(s, r) \in Store
  BY DEF Without, Store

LEMMA AfterLookupType ==
  ASSUME mem \in Store, NEW r \in Requests PROVE AfterLookup(r) \in Store
  BY PruneType, WithoutType DEF AfterLookup

\* A record found under the mutex is a record.
LEMMA FoundType ==
  ASSUME mem \in Store, NEW r \in Requests, NEW t, NEW io, Finds(r, t, io)
  PROVE  mem[r] \in Slot
  BY DEF Finds, Store

LEMMA NewSlotType ==
  ASSUME now \in Nat, NEW t \in Tuples, NEW ttl \in Nat PROVE NewSlot(t, ttl) \in Slot
  BY DEF NewSlot, Slot

LEMMA AnsweredSlotType ==
  ASSUME now \in Nat, NEW rec \in Slot, NEW a \in Answers
  PROVE  AnsweredSlot(rec, a) \in Slot
  BY ControlAssumption DEF AnsweredSlot, Slot

LEMMA PersistType ==
  ASSUME TypeOK, NEW s \in Store, NEW io \in BOOLEAN, Persist(s, io)
  PROVE  mem' \in Store /\ disk' \in Store
  BY DEF TypeOK, Persist, store

LEMMA PersistAfterSweepType ==
  ASSUME TypeOK, NEW s \in Store, NEW sweepIO \in BOOLEAN, NEW io \in BOOLEAN,
         PersistAfterSweep(s, sweepIO, io)
  PROVE  mem' \in Store /\ disk' \in Store
<1>1. CASE Saved(s, io)
  BY <1>1 DEF PersistAfterSweep
<1>2. CASE ~Saved(s, io)
  <2>1. Persist(Prune(mem), sweepIO)
    BY <1>2 DEF PersistAfterSweep
  <2>2. Prune(mem) \in Store
    BY PruneType DEF TypeOK
  <2> QED BY <2>1, <2>2, PersistType
<1> QED BY <1>1, <1>2

LEMMA ReceiptType ==
  ASSUME NEW r \in Requests, NEW rec \in Slot, rec.answer \in Answers
  PROVE  Receipt(r, rec) \in [request : Requests, answer : Answers, expires : Nat]
  BY DEF Receipt, Slot

LEMMA TypeInit == Init => TypeOK
<1> SUFFICES ASSUME Init PROVE TypeOK
  OBVIOUS
<1>1. mem \in Store /\ disk \in Store
  BY EmptyType DEF Init
<1>2. cancelling \in [Cancellers -> Requests \cup {None}] /\ waiting \in [Waiters -> Wait \cup {None}]
  BY DEF Init
<1> QED BY <1>1, <1>2 DEF Init, TypeOK

LEMMA TypeNext == TypeOK /\ [Next]_vars => TypeOK'
<1> SUFFICES ASSUME TypeOK, [Next]_vars PROVE TypeOK'
  OBVIOUS
<1>1. ASSUME NEW t \in Tuples, NEW ttl \in MinTTL..MaxTTL,
             NEW sweepIO \in BOOLEAN, NEW io \in BOOLEAN, Prepare(t, ttl, sweepIO, io)
      PROVE  TypeOK'
  <2>1. CASE PrepareNoSlot(t, sweepIO)
    <3>1. Prune(mem) \in Store
      BY PruneType DEF TypeOK
    <3>2. mem' \in Store /\ disk' \in Store
      BY <2>1, <3>1, PersistType DEF PrepareNoSlot
    <3> QED BY <1>1, <2>1, <3>2 DEF TypeOK, Prepare, PrepareNoSlot, callers
  <2>2. CASE PrepareNew(t, ttl, sweepIO, io)
    <3>1. PICK r \in Requests \ issued :
            /\ PersistAfterSweep([Prune(mem) EXCEPT ![r] = NewSlot(t, ttl)], sweepIO, io)
            /\ issued' = IF Saved([Prune(mem) EXCEPT ![r] = NewSlot(t, ttl)], io)
                         THEN issued \cup {r} ELSE issued
      BY <2>2 DEF PrepareNew
    <3>2. NewSlot(t, ttl) \in Slot
      BY NewSlotType, ControlAssumption DEF TypeOK
    <3>3. [Prune(mem) EXCEPT ![r] = NewSlot(t, ttl)] \in Store
      BY <3>2, PruneType DEF TypeOK, Store
    <3>4. mem' \in Store /\ disk' \in Store
      BY <3>1, <3>3, PersistAfterSweepType
    <3> QED BY <1>1, <3>1, <3>4 DEF TypeOK, Prepare, callers
  <2> QED BY <1>1, <2>1, <2>2 DEF Prepare
<1>2. ASSUME NEW r \in Requests, NEW t \in Tuples, NEW a \in Answers,
             NEW sweepIO \in BOOLEAN, NEW io \in BOOLEAN, Submit(r, t, a, sweepIO, io)
      PROVE  TypeOK'
  <2>0. AfterLookup(r) \in Store
    BY AfterLookupType DEF TypeOK
  <2>1. CASE SubmitRefused(r, t, a, sweepIO)
    <3>1. mem' \in Store /\ disk' \in Store
      BY <2>0, <2>1, PersistType DEF SubmitRefused
    <3> QED BY <1>2, <2>1, <3>1 DEF TypeOK, Submit, SubmitRefused, callers
  <2>2. CASE SubmitRepeated(r, t, a, sweepIO)
    <3>1. mem' \in Store /\ disk' \in Store
      BY <2>0, <2>2, PersistType DEF SubmitRepeated
    <3>2. Receipt(r, mem[r]) \in [request : Requests, answer : Answers, expires : Nat]
      BY <2>2, FoundType, ReceiptType DEF TypeOK, SubmitRepeated
    <3> QED BY <1>2, <2>2, <3>1, <3>2 DEF TypeOK, Submit, SubmitRepeated, callers
  <2>3. CASE SubmitFirst(r, t, a, sweepIO, io)
    <3> DEFINE rec == AnsweredSlot(mem[r], a)
               next == [Prune(mem) EXCEPT ![r] = rec]
    <3>1. mem[r] \in Slot
      BY <2>3, FoundType DEF TypeOK, SubmitFirst
    <3>2. rec \in Slot /\ rec.answer = a
      BY <3>1, AnsweredSlotType DEF TypeOK, AnsweredSlot, Slot
    <3>3. next \in Store
      BY <3>2, PruneType DEF TypeOK, Store
    <3>4. mem' \in Store /\ disk' \in Store
      BY <2>3, <3>3, PersistAfterSweepType DEF SubmitFirst
    <3>5. Receipt(r, rec) \in [request : Requests, answer : Answers, expires : Nat]
      BY <3>2, ReceiptType
    <3> QED BY <1>2, <2>3, <3>4, <3>5 DEF TypeOK, Submit, SubmitFirst, callers
  <2> QED BY <1>2, <2>1, <2>2, <2>3 DEF Submit
<1>3. ASSUME NEW k \in Cancellers, NEW r \in Requests, NEW t \in Tuples,
             NEW io \in BOOLEAN, CancelLookup(k, r, t, io)
      PROVE  TypeOK'
  <2>1. mem' \in Store /\ disk' \in Store
    BY <1>3, AfterLookupType, PersistType DEF TypeOK, CancelLookup
  <2> QED BY <1>3, <2>1 DEF TypeOK, CancelLookup, history
<1>4. ASSUME NEW k \in Cancellers, NEW io \in BOOLEAN, CancelDelete(k, io)
      PROVE  TypeOK'
  <2>1. cancelling[k] \in Requests
    BY <1>4 DEF TypeOK, CancelDelete
  <2>2. mem' \in Store /\ disk' \in Store
    BY <1>4, <2>1, WithoutType, PersistType DEF TypeOK, CancelDelete, store
  <2>3. cancelled' \subseteq Requests
    BY <1>4, <2>1 DEF TypeOK, CancelDelete
  <2> QED BY <1>4, <2>2, <2>3 DEF TypeOK, CancelDelete
<1>5. ASSUME NEW w \in Waiters, NEW r \in Requests, NEW t \in Tuples,
             NEW wait \in 0..MaxWait, WaitStart(w, r, t, wait)
      PROVE  TypeOK'
  <2>1. [request |-> r, tuple |-> t, left |-> wait] \in Wait
    BY ControlAssumption DEF Wait
  <2> QED BY <1>5, <2>1 DEF TypeOK, WaitStart, store, history
<1>6. ASSUME NEW w \in Waiters, NEW io \in BOOLEAN, WaitPoll(w, io)
      PROVE  TypeOK'
  <2> DEFINE r == waiting[w].request
             found == Finds(r, waiting[w].tuple, io)
  <2>1. r \in Requests
    BY <1>6 DEF TypeOK, WaitPoll, Wait
  <2>2. mem' \in Store /\ disk' \in Store
    BY <1>6, <2>1, AfterLookupType, PersistType DEF TypeOK, WaitPoll
  <2>3. waiting' \in [Waiters -> Wait \cup {None}]
    BY <1>6 DEF TypeOK, WaitPoll
  <2>4. heard' \subseteq [request : Requests, answer : Answers \cup {None}]
    <3>1. found => mem[r].answer \in Answers \cup {None}
      BY <2>1, FoundType DEF TypeOK, Slot
    <3> QED BY <1>6, <2>1, <3>1 DEF TypeOK, WaitPoll
  <2> QED BY <1>6, <2>2, <2>3, <2>4 DEF TypeOK, WaitPoll
<1>7. ASSUME NEW io \in BOOLEAN, NewStore(io) PROVE TypeOK'
  BY <1>7, PruneType DEF TypeOK, NewStore, callers, history
<1>8. CASE Crash
  BY <1>8, EmptyType DEF TypeOK, Crash, history
<1>9. CASE Tick
  <2>1. \A w \in Waiters : Elapse(waiting[w]) \in Wait \cup {None}
    BY DEF TypeOK, Elapse, Wait
  <2> QED BY <1>9, <2>1 DEF TypeOK, Tick, store, history
<1>10. CASE SetBack
  BY <1>10, ControlAssumption DEF TypeOK, SetBack, store, callers, history
<1>12. ASSUME NEW w \in Waiters, WaitAbandoned(w) PROVE TypeOK'
  BY <1>12 DEF TypeOK, WaitAbandoned, store, history
<1>11. CASE UNCHANGED vars
  BY <1>11 DEF TypeOK, vars, store, callers, history
<1> QED BY <1>1, <1>2, <1>3, <1>4, <1>5, <1>6, <1>7, <1>8, <1>9, <1>10, <1>11, <1>12
     DEF Next, Call

\* Every reachable state of the store is well typed.
THEOREM TypeCorrect == Spec => []TypeOK
  BY TypeInit, TypeNext, PTL DEF Spec

-----------------------------------------------------------------------------
(* The effects of a step on the file. *)

\* s is what the file holds but for some records whose time is up.
Keeps(s) ==
  /\ s \in Store
  /\ \A q \in Requests : s[q] = disk[q] \/ (s[q] = None /\ IsExpired(disk[q]))

Told == <<issued, receipts, cancelled>>

SweepEffect == Keeps(disk') /\ UNCHANGED Told

OpenEffect(s, r, t, ttl) ==
  /\ Keeps(s)
  /\ r \notin issued
  /\ ~HasTuple(s, t)
  /\ Cardinality(Active(s)) < MaxActive
  /\ disk' = [s EXCEPT ![r] = NewSlot(t, ttl)]
  /\ issued' = issued \cup {r}
  /\ UNCHANGED <<receipts, cancelled>>

AnswerEffect(s, r, a) ==
  /\ Keeps(s)
  /\ disk[r] # None /\ disk[r].status = "pending"
  /\ s[r] = disk[r]
  /\ disk' = [s EXCEPT ![r] = AnsweredSlot(disk[r], a)]
  /\ receipts' = receipts \cup {Receipt(r, AnsweredSlot(disk[r], a))}
  /\ UNCHANGED <<issued, cancelled>>

CancelEffect(r) ==
  /\ disk[r] # None /\ disk[r].status = "pending"
  /\ disk' = Without(disk, r)
  /\ cancelled' = cancelled \cup {r}
  /\ UNCHANGED <<issued, receipts>>

Effect ==
  \/ SweepEffect
  \/ \E s \in Store, r \in Requests, t \in Tuples, ttl \in MinTTL..MaxTTL : OpenEffect(s, r, t, ttl)
  \/ \E s \in Store, r \in Requests, a \in Answers : AnswerEffect(s, r, a)
  \/ \E r \in Requests : CancelEffect(r)

\* What a step does to the file, its copy in memory and the answers read.
StepEffect ==
  /\ Effect
  /\ up' => mem' = disk'
  /\ disk' = Empty \/ Fits(disk')
  /\ \A h \in heard' : h \in heard \/ \E p \in receipts : p.request = h.request /\ p.answer = h.answer
  /\ now' = now \/ (disk' = disk /\ UNCHANGED Told)

LEMMA KeepsSelf == ASSUME TypeOK PROVE Keeps(disk)
  BY DEF TypeOK, Keeps

LEMMA KeepsPrune == ASSUME TypeOK, mem = disk PROVE Keeps(Prune(mem))
  BY PruneType DEF TypeOK, Keeps, Prune

LEMMA KeepsAfterLookup ==
  ASSUME TypeOK, mem = disk, NEW r \in Requests PROVE Keeps(AfterLookup(r))
<1>1. CASE IsExpired(mem[r])
  <2>1. AfterLookup(r) = Without(mem, r)
    BY <1>1 DEF AfterLookup
  <2>2. Without(mem, r) \in Store
    BY WithoutType DEF TypeOK
  <2>3. \A q \in Requests : Without(mem, r)[q] = IF q = r THEN None ELSE mem[q]
    BY DEF Without, TypeOK, Store
  <2> QED BY <1>1, <2>1, <2>2, <2>3 DEF Keeps
<1>2. CASE ~IsExpired(mem[r])
  BY <1>2, KeepsPrune DEF AfterLookup
<1> QED BY <1>1, <1>2

\* A write that sweeps keeps memory and file together.
LEMMA PersistKeeps ==
  ASSUME IInv, up, NEW s, Keeps(s), NEW io \in BOOLEAN, Persist(s, io)
  PROVE  Keeps(disk') /\ mem' = disk' /\ (disk' = Empty \/ Fits(disk'))
<1>1. mem = disk
  BY DEF IInv, MemoryIsFile
<1>2. CASE s # mem /\ Saved(s, io)
  BY <1>2 DEF Persist, Saved
<1>3. CASE ~(s # mem /\ Saved(s, io))
  BY <1>1, <1>3, KeepsSelf DEF Persist, store, IInv, Bounded
<1> QED BY <1>2, <1>3

\* A refused second write leaves what the sweep left.
LEMMA SecondWriteFails ==
  ASSUME IInv, up, NEW s, NEW sweepIO \in BOOLEAN, NEW io \in BOOLEAN,
         PersistAfterSweep(s, sweepIO, io), ~Saved(s, io)
  PROVE  Keeps(disk') /\ mem' = disk' /\ (disk' = Empty \/ Fits(disk'))
<1>1. Keeps(Prune(mem))
  BY KeepsPrune DEF IInv, MemoryIsFile
<1>2. Persist(Prune(mem), sweepIO)
  BY DEF PersistAfterSweep
<1> QED BY <1>1, <1>2, PersistKeeps

\* What a lookup finds pending or submitted survives its sweep.
LEMMA FoundSurvives ==
  ASSUME IInv, up, NEW r \in Requests, NEW t, NEW io, Finds(r, t, io)
  PROVE  disk[r] = mem[r] /\ mem[r] # None /\ Prune(mem)[r] = disk[r]
  BY DEF IInv, MemoryIsFile, Finds, Prune

\* An answer that is read has a receipt.
LEMMA ReadHasReceipt ==
  ASSUME IInv, up, NEW r \in Requests, NEW t, NEW io, Finds(r, t, io),
         mem[r].status = "submitted"
  PROVE  Receipt(r, mem[r]) \in receipts
  BY FoundSurvives DEF IInv, Consistent, Active

LEMMA PrepareEffect ==
  ASSUME IInv, NEW t \in Tuples, NEW ttl \in MinTTL..MaxTTL,
         NEW sweepIO \in BOOLEAN, NEW io \in BOOLEAN, Prepare(t, ttl, sweepIO, io)
  PROVE  StepEffect
<1>0. up /\ mem = disk /\ Keeps(Prune(mem))
  BY KeepsPrune DEF Prepare, IInv, MemoryIsFile
<1>1. CASE PrepareNoSlot(t, sweepIO)
  <2>1. Keeps(disk') /\ mem' = disk' /\ (disk' = Empty \/ Fits(disk'))
    BY <1>0, <1>1, PersistKeeps DEF PrepareNoSlot
  <2> QED BY <1>1, <2>1 DEF Prepare, PrepareNoSlot, StepEffect, Effect, SweepEffect, Told
<1>2. CASE PrepareNew(t, ttl, sweepIO, io)
  <2>1. PICK r \in Requests \ issued :
          /\ PersistAfterSweep([Prune(mem) EXCEPT ![r] = NewSlot(t, ttl)], sweepIO, io)
          /\ issued' = IF Saved([Prune(mem) EXCEPT ![r] = NewSlot(t, ttl)], io)
                       THEN issued \cup {r} ELSE issued
    BY <1>2 DEF PrepareNew
  <2> DEFINE next == [Prune(mem) EXCEPT ![r] = NewSlot(t, ttl)]
  <2>2. CASE Saved(next, io)
    <3>1. mem' = next /\ disk' = next /\ issued' = issued \cup {r}
      BY <2>1, <2>2 DEF PersistAfterSweep
    <3>2. OpenEffect(Prune(mem), r, t, ttl)
      BY <1>0, <1>1, <1>2, <2>1, <3>1 DEF OpenEffect, Prepare, PrepareNew
    <3>3. Prune(mem) \in Store /\ r \in Requests
      BY <1>0, <2>1 DEF Keeps
    <3>4. Effect
      BY <3>2, <3>3 DEF Effect
    <3> QED BY <2>2, <3>1, <3>4 DEF Prepare, StepEffect, Saved
  <2>3. CASE ~Saved(next, io)
    <3>1. Keeps(disk') /\ mem' = disk' /\ (disk' = Empty \/ Fits(disk'))
      BY <1>0, <2>1, <2>3, SecondWriteFails
    <3>2. UNCHANGED Told
      BY <2>1, <2>3 DEF Prepare, Told
    <3> QED BY <3>1, <3>2 DEF Prepare, StepEffect, Effect, SweepEffect
  <2> QED BY <2>2, <2>3
<1> QED BY <1>1, <1>2 DEF Prepare

LEMMA SubmitEffect ==
  ASSUME IInv, NEW r \in Requests, NEW t \in Tuples, NEW a \in Answers,
         NEW sweepIO \in BOOLEAN, NEW io \in BOOLEAN, Submit(r, t, a, sweepIO, io)
  PROVE  StepEffect
<1>0. up /\ mem = disk /\ Keeps(AfterLookup(r))
  BY KeepsAfterLookup DEF Submit, IInv, MemoryIsFile
<1>1. CASE SubmitRefused(r, t, a, sweepIO)
  <2>1. Keeps(disk') /\ mem' = disk' /\ (disk' = Empty \/ Fits(disk'))
    BY <1>0, <1>1, PersistKeeps DEF SubmitRefused
  <2> QED BY <1>1, <2>1 DEF Submit, SubmitRefused, StepEffect, Effect, SweepEffect, Told
<1>2. CASE SubmitRepeated(r, t, a, sweepIO)
  <2>1. Keeps(disk') /\ mem' = disk' /\ (disk' = Empty \/ Fits(disk'))
    BY <1>0, <1>2, PersistKeeps DEF SubmitRepeated
  <2>2. receipts' = receipts
    BY <1>0, <1>2, ReadHasReceipt DEF SubmitRepeated
  <2> QED BY <1>2, <2>1, <2>2 DEF Submit, StepEffect, Effect, SweepEffect, Told
<1>3. CASE SubmitFirst(r, t, a, sweepIO, io)
  <2> DEFINE rec  == AnsweredSlot(mem[r], a)
             next == [Prune(mem) EXCEPT ![r] = rec]
  <2>1. disk[r] = mem[r] /\ mem[r] # None /\ Prune(mem)[r] = disk[r]
    BY <1>0, <1>3, FoundSurvives DEF SubmitFirst
  <2>2. PersistAfterSweep(next, sweepIO, io)
    BY <1>3 DEF SubmitFirst
  <2>3. CASE Saved(next, io)
    <3>1. mem' = next /\ disk' = next
      BY <2>2, <2>3 DEF PersistAfterSweep
    <3>2. Keeps(Prune(mem)) /\ Prune(mem) \in Store
      BY <1>0, KeepsPrune DEF Keeps, IInv
    <3>3. AnswerEffect(Prune(mem), r, a)
      BY <1>3, <2>1, <2>3, <3>1, <3>2 DEF AnswerEffect, Submit, SubmitFirst
    <3>4. Effect
      BY <3>2, <3>3 DEF Effect
    <3> QED BY <2>3, <3>1, <3>4 DEF Submit, StepEffect, Saved
  <2>4. CASE ~Saved(next, io)
    <3>1. Keeps(disk') /\ mem' = disk' /\ (disk' = Empty \/ Fits(disk'))
      BY <1>0, <2>2, <2>4, SecondWriteFails
    <3>2. UNCHANGED Told
      BY <1>3, <2>4 DEF Submit, SubmitFirst, Told
    <3> QED BY <3>1, <3>2 DEF Submit, StepEffect, Effect, SweepEffect
  <2> QED BY <2>3, <2>4
<1> QED BY <1>1, <1>2, <1>3 DEF Submit

LEMMA CancelLookupEffect ==
  ASSUME IInv, NEW k \in Cancellers, NEW r \in Requests, NEW t \in Tuples,
         NEW io \in BOOLEAN, CancelLookup(k, r, t, io)
  PROVE  StepEffect
<1>1. Keeps(disk') /\ mem' = disk' /\ (disk' = Empty \/ Fits(disk'))
  BY KeepsAfterLookup, PersistKeeps DEF CancelLookup, IInv, MemoryIsFile
<1> QED BY <1>1 DEF CancelLookup, StepEffect, Effect, SweepEffect, Told, history

LEMMA CancelDeleteEffect ==
  ASSUME IInv, NEW k \in Cancellers, NEW io \in BOOLEAN, CancelDelete(k, io)
  PROVE  StepEffect
<1> DEFINE r == cancelling[k]
           next == Without(mem, r)
<1>0. up /\ mem = disk /\ r \in Requests /\ next \in Store
  BY WithoutType DEF CancelDelete, IInv, MemoryIsFile, TypeOK
<1>1. CASE mem[r] # None /\ mem[r].status = "pending"
  <2>1. next # mem
    BY <1>0, <1>1 DEF Without, Store
  <2>2. CASE Saved(next, io)
    <3>1. mem' = next /\ disk' = next /\ cancelled' = cancelled \cup {r}
      BY <1>1, <2>1, <2>2 DEF CancelDelete, Persist
    <3>2. CancelEffect(r)
      BY <1>0, <1>1, <3>1 DEF CancelEffect, CancelDelete
    <3>3. Effect
      BY <1>0, <3>2 DEF Effect
    <3> QED BY <2>2, <3>1, <3>3 DEF CancelDelete, StepEffect, Saved
  <2>3. CASE ~Saved(next, io)
    <3>1. UNCHANGED store /\ UNCHANGED cancelled
      BY <1>1, <2>3 DEF CancelDelete, Persist
    <3>2. SweepEffect
      BY <3>1, KeepsSelf DEF SweepEffect, CancelDelete, store, Told, IInv
    <3> QED BY <1>0, <3>1, <3>2 DEF CancelDelete, StepEffect, Effect, store, IInv, Bounded
  <2> QED BY <2>2, <2>3
<1>2. CASE ~(mem[r] # None /\ mem[r].status = "pending")
  <2>1. UNCHANGED store /\ UNCHANGED cancelled
    BY <1>2 DEF CancelDelete
  <2>2. SweepEffect
    BY <2>1, KeepsSelf DEF SweepEffect, CancelDelete, store, Told, IInv
  <2> QED BY <1>0, <2>1, <2>2 DEF CancelDelete, StepEffect, Effect, store, IInv, Bounded
<1> QED BY <1>1, <1>2

LEMMA WaitPollEffect ==
  ASSUME IInv, NEW w \in Waiters, NEW io \in BOOLEAN, WaitPoll(w, io)
  PROVE  StepEffect
<1> DEFINE r == waiting[w].request
           found == Finds(r, waiting[w].tuple, io)
<1>0. up /\ mem = disk /\ r \in Requests
  BY DEF WaitPoll, IInv, MemoryIsFile, TypeOK, Wait
<1>1. Keeps(disk') /\ mem' = disk' /\ (disk' = Empty \/ Fits(disk'))
  BY <1>0, KeepsAfterLookup, PersistKeeps DEF WaitPoll, IInv
<1>2. found /\ mem[r].status = "submitted" => Receipt(r, mem[r]) \in receipts
  BY <1>0, ReadHasReceipt
<1>3. \A h \in heard' :
        h \in heard \/ \E p \in receipts : p.request = h.request /\ p.answer = h.answer
  BY <1>2 DEF WaitPoll, Receipt
<1> QED BY <1>1, <1>3 DEF WaitPoll, StepEffect, Effect, SweepEffect, Told

\* The bridge starts: the sweep of NewStore is written before it serves.
LEMMA NewStoreEffect ==
  ASSUME IInv, NEW io \in BOOLEAN, NewStore(io) PROVE StepEffect
<1>1. Keeps(disk')
  BY PruneType DEF NewStore, Keeps, Prune, IInv, TypeOK
<1>2. disk' = Empty \/ Fits(disk')
  BY DEF NewStore, Saved, IInv, Bounded
<1> QED BY <1>1, <1>2 DEF NewStore, StepEffect, Effect, SweepEffect, Told, history

\* Steps that leave the file and what was said of it alone.
LEMMA IdleEffect ==
  ASSUME IInv, disk' = disk, UNCHANGED history, up' => (up /\ mem' = mem)
  PROVE  StepEffect
<1>1. SweepEffect
  BY KeepsSelf DEF SweepEffect, Told, history, IInv
<1>2. up' => mem' = disk'
  BY DEF IInv, MemoryIsFile
<1> QED BY <1>1, <1>2 DEF StepEffect, Effect, IInv, Bounded, history, Told

LEMMA NextEffect == IInv /\ [Next]_vars => StepEffect
<1> SUFFICES ASSUME IInv, [Next]_vars PROVE StepEffect
  OBVIOUS
<1>1. ASSUME NEW sweepIO \in BOOLEAN, NEW io \in BOOLEAN, Call(sweepIO, io) PROVE StepEffect
  <2>1. CASE \E w \in Waiters, r \in Requests, t \in Tuples, wait \in 0..MaxWait :
               WaitStart(w, r, t, wait)
    BY <2>1, IdleEffect DEF WaitStart, store
  <2>2. CASE \E w \in Waiters : WaitAbandoned(w)
    BY <2>2, IdleEffect DEF WaitAbandoned, store
  <2> QED BY <1>1, <2>1, <2>2, PrepareEffect, SubmitEffect, CancelLookupEffect, CancelDeleteEffect,
             WaitPollEffect DEF Call
<1>2. ASSUME NEW io \in BOOLEAN, NewStore(io) PROVE StepEffect
  BY <1>2, NewStoreEffect
<1>3. CASE Crash
  BY <1>3, IdleEffect DEF Crash
<1>4. CASE Tick
  BY <1>4, IdleEffect DEF Tick, store
<1>5. CASE SetBack
  BY <1>5, IdleEffect DEF SetBack, store
<1>6. CASE UNCHANGED vars
  BY <1>6, IdleEffect DEF vars, store
<1> QED BY <1>1, <1>2, <1>3, <1>4, <1>5, <1>6 DEF Next

-----------------------------------------------------------------------------
(* The invariant. *)

LEMMA ActiveFinite == ASSUME NEW s PROVE IsFiniteSet(Active(s))
  BY ControlAssumption, FS_Subset DEF Active

\* A sweep only removes active records.
LEMMA KeepsActive ==
  ASSUME NEW s, Keeps(s)
  PROVE  /\ Active(s) \subseteq Active(disk)
         /\ \A q \in Active(s) : s[q] = disk[q]
         /\ Cardinality(Active(s)) <= Cardinality(Active(disk))
<1>1. /\ Active(s) \subseteq Active(disk)
      /\ \A q \in Active(s) : s[q] = disk[q]
  BY DEF Keeps, Active
<1>2. Cardinality(Active(s)) <= Cardinality(Active(disk))
  BY <1>1, ActiveFinite, FS_Subset
<1> QED BY <1>1, <1>2

\* Storing one more record makes one more active at most.
LEMMA StoredActive ==
  ASSUME NEW s, NEW next, NEW r \in Requests, next[r] # None,
         \A q \in Requests : q # r => next[q] = s[q]
  PROVE  /\ Active(next) = Active(s) \cup {r}
         /\ Cardinality(Active(next)) <= Cardinality(Active(s)) + 1
<1>1. Active(next) = Active(s) \cup {r}
  BY DEF Active
<1>2. IsFiniteSet(Active(s)) /\ Cardinality(Active(s)) \in Nat
  BY ActiveFinite, FS_CardinalityType
<1>3. Cardinality(Active(s) \cup {r}) =
        IF r \in Active(s) THEN Cardinality(Active(s)) ELSE Cardinality(Active(s)) + 1
  BY <1>2, FS_AddElement
<1>4. Cardinality(Active(next)) <= Cardinality(Active(s)) + 1
  BY <1>1, <1>2, <1>3
<1> QED BY <1>1, <1>4

LEMMA BoundedNext ==
  ASSUME IInv, StepEffect, disk' \in Store, now \in Nat PROVE Bounded'
<1>0. Cardinality(Active(disk)) \in Nat
  BY ActiveFinite, FS_CardinalityType
<1>1. disk' = Empty \/ Fits(disk')
  BY DEF StepEffect
<1>2. CASE SweepEffect
  BY <1>0, <1>1, <1>2, KeepsActive, ActiveFinite, FS_CardinalityType, ControlAssumption
     DEF SweepEffect, IInv, Bounded
<1>3. ASSUME NEW s \in Store, NEW r \in Requests, NEW t \in Tuples, NEW ttl \in MinTTL..MaxTTL,
             OpenEffect(s, r, t, ttl)
      PROVE  Bounded'
  <2>1. NewSlot(t, ttl) \in Slot /\ NewSlot(t, ttl).tuple = t
    BY NewSlotType, ControlAssumption DEF NewSlot
  <2>2. /\ disk'[r] = NewSlot(t, ttl)
        /\ \A q \in Requests : q # r => disk'[q] = s[q]
        /\ disk'[r] # None
    BY <1>3, <2>1, ControlAssumption DEF OpenEffect, Store
  <2>2a. /\ Active(disk') = Active(s) \cup {r}
         /\ Cardinality(Active(disk')) <= Cardinality(Active(s)) + 1
    BY <2>2, StoredActive
  <2>3. Cardinality(Active(disk')) <= MaxActive
    <3>1. Cardinality(Active(s)) \in Nat /\ Cardinality(Active(disk')) \in Nat
      BY ActiveFinite, FS_CardinalityType
    <3> QED BY <1>3, <2>2a, <3>1, ControlAssumption DEF OpenEffect
  <2>4. \A q \in Active(s) : s[q] = disk[q] /\ q \in Active(disk) /\ s[q].tuple # t
    BY <1>3, KeepsActive DEF OpenEffect, HasTuple
  <2>5. \A p, q \in Active(disk') : disk'[p].tuple = disk'[q].tuple => p = q
    <3> SUFFICES ASSUME NEW p \in Active(disk'), NEW q \in Active(disk'),
                        disk'[p].tuple = disk'[q].tuple, p # q
                 PROVE  FALSE
      OBVIOUS
    <3>1. p \in Requests /\ q \in Requests
      BY DEF Active
    <3>2. CASE p = r
      BY <2>1, <2>2, <2>2a, <2>4, <3>1, <3>2
    <3>3. CASE q = r
      BY <2>1, <2>2, <2>2a, <2>4, <3>1, <3>3
    <3>4. CASE p # r /\ q # r
      BY <2>2, <2>2a, <2>4, <3>1, <3>4 DEF IInv, Bounded
    <3> QED BY <3>2, <3>3, <3>4
  <2> QED BY <1>1, <2>3, <2>5 DEF Bounded
<1>4. ASSUME NEW s \in Store, NEW r \in Requests, NEW a \in Answers, AnswerEffect(s, r, a)
      PROVE  Bounded'
  <2> DEFINE rec == AnsweredSlot(disk[r], a)
  <2>1. disk[r] \in Slot
    BY <1>4 DEF AnswerEffect, IInv, TypeOK, Store
  <2>2. rec \in Slot /\ rec.tuple = disk[r].tuple
    BY <2>1, AnsweredSlotType DEF AnsweredSlot
  <2>3. r \in Active(s)
    BY <1>4 DEF AnswerEffect, Active
  <2>4. /\ disk'[r] = rec
        /\ \A q \in Requests : q # r => disk'[q] = s[q]
        /\ disk'[r] # None
    BY <1>4, <2>2, ControlAssumption DEF AnswerEffect, Store
  <2>4a. Active(disk') = Active(s)
    BY <2>3, <2>4, StoredActive
  <2>5. \A q \in Active(s) : q \in Active(disk) /\ disk'[q].tuple = disk[q].tuple
    <3>1. \A q \in Active(s) : q \in Active(disk) /\ s[q] = disk[q] /\ q \in Requests
      BY <1>4, KeepsActive DEF AnswerEffect, Active
    <3> QED BY <2>2, <2>4, <3>1
  <2>6. Cardinality(Active(disk')) <= MaxActive
    <3>1. Cardinality(Active(s)) \in Nat /\ Cardinality(Active(disk)) \in Nat
      BY ActiveFinite, FS_CardinalityType
    <3>2. Cardinality(Active(s)) <= Cardinality(Active(disk))
      BY <1>4, KeepsActive DEF AnswerEffect
    <3> QED BY <2>4a, <3>1, <3>2, ControlAssumption DEF IInv, Bounded
  <2> QED BY <1>1, <2>4a, <2>5, <2>6 DEF IInv, Bounded
<1>5. ASSUME NEW r \in Requests, CancelEffect(r) PROVE Bounded'
  <2>1. \A q \in Requests : disk'[q] = IF q = r THEN None ELSE disk[q]
    BY <1>5 DEF CancelEffect, Without, IInv, TypeOK, Store
  <2>2. Active(disk') \subseteq Active(disk)
    BY <2>1 DEF Active
  <2>3. Cardinality(Active(disk')) <= Cardinality(Active(disk))
    BY <2>2, ActiveFinite, FS_Subset
  <2>4. Cardinality(Active(disk')) <= MaxActive
    BY <1>0, <2>3, ActiveFinite, FS_CardinalityType, ControlAssumption DEF IInv, Bounded
  <2>5. \A q \in Active(disk') : disk'[q] = disk[q]
    BY <2>1 DEF Active
  <2> QED BY <1>1, <2>2, <2>4, <2>5 DEF IInv, Bounded
<1> QED BY <1>2, <1>3, <1>4, <1>5 DEF StepEffect, Effect

LEMMA ConsistentNext ==
  ASSUME IInv, StepEffect, TypeOK' PROVE Consistent'
<1>1. CASE SweepEffect
  <2>1. /\ Active(disk') \subseteq Active(disk)
        /\ \A q \in Active(disk') : disk'[q] = disk[q]
    BY <1>1, KeepsActive DEF SweepEffect
  <2> QED BY <1>1, <2>1 DEF SweepEffect, Told, IInv, Consistent
<1>2. ASSUME NEW s \in Store, NEW r \in Requests, NEW t \in Tuples, NEW ttl \in MinTTL..MaxTTL,
             OpenEffect(s, r, t, ttl)
      PROVE  Consistent'
  <2>1. /\ disk'[r].status = "pending"
        /\ \A q \in Active(disk') : q # r => q \in Active(disk) /\ disk'[q] = disk[q]
    BY <1>2, KeepsActive DEF OpenEffect, NewSlot, Active, Store
  <2>2. /\ \A p \in receipts : p.request # r
        /\ r \notin cancelled
    BY <1>2 DEF OpenEffect, IInv, Consistent
  <2>3. issued' = issued \cup {r} /\ UNCHANGED <<receipts, cancelled>>
    BY <1>2 DEF OpenEffect
  <2>4. \A q \in Active(disk') : q \in issued' /\ q \notin cancelled'
    BY <2>1, <2>2, <2>3 DEF IInv, Consistent
  <2>5. \A q \in Active(disk') : disk'[q].status = "submitted" => Receipt(q, disk'[q]) \in receipts'
    BY <2>1, <2>3 DEF IInv, Consistent
  <2>6. \A p \in receipts' :
          /\ p.request \in issued' /\ p.request \notin cancelled'
          /\ p.request \in Active(disk') =>
               disk'[p.request].status = "submitted" /\ Receipt(p.request, disk'[p.request]) = p
    BY <2>1, <2>2, <2>3 DEF IInv, Consistent
  <2> QED BY <2>3, <2>4, <2>5, <2>6 DEF IInv, Consistent
<1>3. ASSUME NEW s \in Store, NEW r \in Requests, NEW a \in Answers, AnswerEffect(s, r, a)
      PROVE  Consistent'
  <2> DEFINE rec == AnsweredSlot(disk[r], a)
  <2>1. /\ disk'[r] = rec /\ rec.status = "submitted"
        /\ \A q \in Active(disk') : q # r => q \in Active(disk) /\ disk'[q] = disk[q]
        /\ r \in Active(disk)
    BY <1>3, KeepsActive DEF AnswerEffect, AnsweredSlot, Active, Store
  <2>2. \A p \in receipts : p.request # r
    BY <1>3, <2>1 DEF AnswerEffect, IInv, Consistent
  <2>3. receipts' = receipts \cup {Receipt(r, rec)} /\ Receipt(r, rec).request = r
    BY <1>3 DEF AnswerEffect, Receipt
  <2>4. r \in issued /\ r \notin cancelled
    BY <2>1 DEF IInv, Consistent
  <2>5. issued' = issued /\ cancelled' = cancelled
    BY <1>3 DEF AnswerEffect
  <2> HIDE DEF rec
  <2>6. \A q \in Active(disk') : q \in issued /\ q \notin cancelled
    BY <2>1, <2>4 DEF IInv, Consistent
  <2>7. \A q \in Active(disk') : disk'[q].status = "submitted" => Receipt(q, disk'[q]) \in receipts'
    BY <2>1, <2>3 DEF IInv, Consistent
  <2>8. \A p \in receipts' :
          /\ p.request \in issued /\ p.request \notin cancelled
          /\ p.request \in Active(disk') =>
               disk'[p.request].status = "submitted" /\ Receipt(p.request, disk'[p.request]) = p
    <3> TAKE p \in receipts'
    <3>1. CASE p \in receipts
      BY <2>1, <2>2, <3>1 DEF IInv, Consistent
    <3>2. CASE p = Receipt(r, rec)
      BY <2>1, <2>3, <2>4, <3>2
    <3> QED BY <2>3, <3>1, <3>2
  <2> QED BY <2>5, <2>6, <2>7, <2>8 DEF IInv, Consistent
<1>4. ASSUME NEW r \in Requests, CancelEffect(r) PROVE Consistent'
  <2>1. \A q \in Active(disk') : q # r /\ q \in Active(disk) /\ disk'[q] = disk[q]
    BY <1>4 DEF CancelEffect, Without, Active, IInv, TypeOK, Store
  <2>2. r \in issued /\ \A p \in receipts : p.request # r
    BY <1>4 DEF CancelEffect, IInv, Consistent, Active
  <2> QED BY <1>4, <2>1, <2>2 DEF CancelEffect, IInv, Consistent
<1> QED BY <1>1, <1>2, <1>3, <1>4 DEF StepEffect, Effect

LEMMA OneAnswerNext ==
  ASSUME IInv, StepEffect PROVE OneAnswer'
<1>1. \A h \in heard' : \E p \in receipts : p.request = h.request /\ p.answer = h.answer
  BY DEF StepEffect, IInv, OneAnswer
<1>2. CASE receipts' = receipts
  BY <1>1, <1>2 DEF IInv, OneAnswer
<1>3. ASSUME NEW s \in Store, NEW r \in Requests, NEW a \in Answers, AnswerEffect(s, r, a)
      PROVE  OneAnswer'
  <2>1. \A p \in receipts : p.request # r
    BY <1>3 DEF AnswerEffect, IInv, Consistent, Active
  <2>2. PICK new : receipts' = receipts \cup {new} /\ new.request = r
    <3>1. Receipt(r, AnsweredSlot(disk[r], a)).request = r
      BY DEF Receipt
    <3> QED BY <1>3, <3>1 DEF AnswerEffect
  <2> QED BY <1>1, <2>1, <2>2 DEF IInv, OneAnswer
<1> QED BY <1>2, <1>3 DEF StepEffect, Effect, SweepEffect, OpenEffect, CancelEffect, Told

LEMMA IInvInit == Init => IInv
<1> SUFFICES ASSUME Init PROVE IInv
  OBVIOUS
<1>1. disk = Empty /\ Active(disk) = {}
  BY DEF Init, Active, Empty
<1>2. Cardinality(Active(disk)) = 0
  BY <1>1, FS_EmptySet
<1>3. Bounded
  BY <1>1, <1>2, ControlAssumption DEF Bounded
<1>4. MemoryIsFile /\ Consistent /\ OneAnswer
  BY <1>1 DEF Init, MemoryIsFile, Consistent, OneAnswer
<1> QED BY <1>3, <1>4, TypeInit DEF IInv

LEMMA IInvNext == IInv /\ [Next]_vars => IInv'
<1> SUFFICES ASSUME IInv, [Next]_vars PROVE IInv'
  OBVIOUS
<1>1. TypeOK' /\ disk' \in Store /\ now \in Nat
  BY TypeNext DEF IInv, TypeOK
<1>2. StepEffect
  BY NextEffect
<1>3. MemoryIsFile'
  BY <1>2 DEF StepEffect, MemoryIsFile
<1> QED BY <1>1, <1>2, <1>3, ConsistentNext, OneAnswerNext, BoundedNext DEF IInv

\* IInv holds in every reachable state.
THEOREM Invariance == Spec => []IInv
  BY IInvInit, IInvNext, PTL DEF Spec

\* A refused call leaves no trace: memory and file agree whenever the bridge serves.
THEOREM MemoryAlwaysFile == Spec => []MemoryIsFile
<1>1. IInv => MemoryIsFile
  BY DEF IInv
<1> QED BY <1>1, Invariance, PTL

\* The first response is immutable, through races, failed writes and restarts.
THEOREM FirstAnswerImmutable == Spec => []OneAnswer
<1>1. IInv => OneAnswer
  BY DEF IInv
<1> QED BY <1>1, Invariance, PTL

\* No request is both answered and cancelled.
THEOREM CancelExcludesAnswer == Spec => []CancelOrAnswer
<1>1. IInv => CancelOrAnswer
  BY DEF IInv, Consistent, CancelOrAnswer
<1> QED BY <1>1, Invariance, PTL

-----------------------------------------------------------------------------
(* What holds of a wall clock that is never set back. *)

LEMMA ClockAdvances ==
  ASSUME MaxStepBack = 0, TypeOK, [Next]_vars PROVE now' \in Nat /\ now <= now'
<1>1. now \in Nat
  BY DEF TypeOK
<1>2. ASSUME NEW sweepIO \in BOOLEAN, NEW io \in BOOLEAN, Call(sweepIO, io) PROVE now' = now
  BY <1>2 DEF Call, Prepare, Submit, CancelLookup, CancelDelete, WaitStart, WaitPoll,
     WaitAbandoned
<1>3. ASSUME NEW io \in BOOLEAN, NewStore(io) PROVE now' = now
  BY <1>3 DEF NewStore
<1>4. CASE Crash
  BY <1>1, <1>4 DEF Crash
<1>5. CASE Tick
  BY <1>1, <1>5 DEF Tick
<1>6. CASE SetBack
  BY <1>6 DEF SetBack
<1>7. CASE UNCHANGED vars
  BY <1>1, <1>7 DEF vars
<1> QED BY <1>1, <1>2, <1>3, <1>4, <1>5, <1>6, <1>7 DEF Next

\* A record whose answer has a receipt that is still good is not expired.
LEMMA GoodReceiptKept ==
  ASSUME IInv, AnswerKept, NEW p \in receipts, now < p.expires, NEW s, Keeps(s)
  PROVE  s[p.request] = disk[p.request] /\ disk[p.request] # None /\ disk[p.request].answer = p.answer
<1>1. p.request \in Requests /\ now \in Nat /\ p.expires \in Nat
  BY DEF IInv, TypeOK
<1>2. disk[p.request] # None /\ disk[p.request].answer = p.answer
  BY DEF AnswerKept
<1>3. Receipt(p.request, disk[p.request]) = p
  BY <1>1, <1>2 DEF IInv, Consistent, Active
<1>4. disk[p.request].expires = p.expires
  BY <1>3 DEF Receipt
<1>5. ~IsExpired(disk[p.request])
  BY <1>1, <1>4 DEF IsExpired
<1> QED BY <1>1, <1>2, <1>5 DEF Keeps

LEMMA AnswerKeptNext ==
  ASSUME MaxStepBack = 0, IInv, AnswerKept, [Next]_vars PROVE AnswerKept'
<1>1. StepEffect /\ now' \in Nat /\ now <= now' /\ now \in Nat
  BY NextEffect, ClockAdvances DEF IInv, TypeOK
<1>2. \A p \in receipts : p.expires \in Nat /\ p.request \in Requests
  BY DEF IInv, TypeOK
<1>3. \A p \in receipts : now' < p.expires => now < p.expires
  BY <1>1, <1>2
<1>4. CASE SweepEffect
  BY <1>3, <1>4, GoodReceiptKept DEF SweepEffect, Told, AnswerKept
<1>5. ASSUME NEW s \in Store, NEW r \in Requests, NEW t \in Tuples, NEW ttl \in MinTTL..MaxTTL,
             OpenEffect(s, r, t, ttl)
      PROVE  AnswerKept'
  <2>1. \A p \in receipts : p.request # r
    BY <1>5 DEF OpenEffect, IInv, Consistent
  <2>2. \A q \in Requests : q # r => disk'[q] = s[q]
    BY <1>5 DEF OpenEffect, Store
  <2>3. receipts' = receipts /\ Keeps(s)
    BY <1>5 DEF OpenEffect
  <2> QED BY <1>2, <1>3, <2>1, <2>2, <2>3, GoodReceiptKept DEF AnswerKept
<1>6. ASSUME NEW s \in Store, NEW r \in Requests, NEW a \in Answers, AnswerEffect(s, r, a)
      PROVE  AnswerKept'
  <2> DEFINE rec == AnsweredSlot(disk[r], a)
  <2>1. \A p \in receipts : p.request # r
    BY <1>6 DEF AnswerEffect, IInv, Consistent, Active
  <2>2. disk'[r] = rec /\ \A q \in Requests : q # r => disk'[q] = s[q]
    BY <1>6 DEF AnswerEffect, Store
  <2>3. rec \in Slot
    BY <1>6, AnsweredSlotType DEF AnswerEffect, IInv, TypeOK, Store
  <2>4. rec # None
    BY <2>3, ControlAssumption
  <2>5. receipts' = receipts \cup {Receipt(r, rec)} /\ Keeps(s)
    BY <1>6 DEF AnswerEffect
  <2> HIDE DEF rec
  <2>6. Receipt(r, rec).request = r /\ Receipt(r, rec).answer = rec.answer
    BY DEF Receipt
  <2> SUFFICES ASSUME NEW p \in receipts', now' < p.expires
               PROVE  disk'[p.request] # None /\ disk'[p.request].answer = p.answer
    BY DEF AnswerKept
  <2>7. CASE p \in receipts
    BY <1>2, <1>3, <2>1, <2>2, <2>5, <2>7, GoodReceiptKept
  <2>8. CASE p = Receipt(r, rec)
    BY <2>2, <2>4, <2>6, <2>8
  <2> QED BY <2>5, <2>7, <2>8
<1>7. ASSUME NEW r \in Requests, CancelEffect(r) PROVE AnswerKept'
  <2>1. \A p \in receipts : p.request # r
    BY <1>7 DEF CancelEffect, IInv, Consistent, Active
  <2>2. \A q \in Requests : q # r => disk'[q] = disk[q]
    BY <1>7 DEF CancelEffect, Without, IInv, TypeOK, Store
  <2>3. receipts' = receipts
    BY <1>7 DEF CancelEffect
  <2> QED BY <1>2, <1>3, <2>1, <2>2, <2>3 DEF AnswerKept
<1> QED BY <1>1, <1>4, <1>5, <1>6, <1>7 DEF StepEffect, Effect

LEMMA RecordsValidNext ==
  ASSUME MaxStepBack = 0, IInv, RecordsValid, [Next]_vars PROVE RecordsValid'
<1>1. StepEffect /\ now' \in Nat /\ now <= now' /\ now \in Nat
  BY NextEffect, ClockAdvances DEF IInv, TypeOK
<1>2. \A r \in Active(disk) : disk[r] \in Slot
  BY DEF Active, IInv, TypeOK, Store
<1>3. \A r \in Active(disk) : ValidRecord(disk[r]) /\ disk[r].created <= now'
  BY <1>1, <1>2 DEF RecordsValid, Slot
<1>4. CASE SweepEffect
  BY <1>3, <1>4, KeepsActive DEF SweepEffect, RecordsValid, ValidRecord
<1>5. ASSUME NEW s \in Store, NEW r \in Requests, NEW t \in Tuples, NEW ttl \in MinTTL..MaxTTL,
             OpenEffect(s, r, t, ttl)
      PROVE  RecordsValid'
  <2>1. \A q \in Active(disk') : q # r => q \in Active(disk) /\ disk'[q] = disk[q]
    BY <1>5, KeepsActive DEF OpenEffect, Active, Store
  <2>2. disk'[r] = NewSlot(t, ttl)
    BY <1>5 DEF OpenEffect, Store
  <2>3. ValidRecord(NewSlot(t, ttl)) /\ NewSlot(t, ttl).created <= now'
    BY <1>1, ControlAssumption DEF ValidRecord, NewSlot
  <2> QED BY <1>3, <2>1, <2>2, <2>3 DEF RecordsValid, ValidRecord
<1>6. ASSUME NEW s \in Store, NEW r \in Requests, NEW a \in Answers, AnswerEffect(s, r, a)
      PROVE  RecordsValid'
  <2>1. \A q \in Active(disk') : q # r => q \in Active(disk) /\ disk'[q] = disk[q]
    BY <1>6, KeepsActive DEF AnswerEffect, Active, Store
  <2>2. disk'[r] = AnsweredSlot(disk[r], a) /\ r \in Active(disk)
    BY <1>6 DEF AnswerEffect, Active, Store
  <2>3. disk[r].created \in Nat /\ disk[r].created <= now
    BY <1>2, <2>2 DEF RecordsValid, Slot
  <2>4. ValidRecord(AnsweredSlot(disk[r], a)) /\ AnsweredSlot(disk[r], a).created <= now'
    BY <1>1, <2>3, ControlAssumption DEF ValidRecord, AnsweredSlot
  <2> QED BY <1>3, <2>1, <2>2, <2>4 DEF RecordsValid, ValidRecord
<1>7. ASSUME NEW r \in Requests, CancelEffect(r) PROVE RecordsValid'
  <2>1. \A q \in Active(disk') : q \in Active(disk) /\ disk'[q] = disk[q]
    BY <1>7 DEF CancelEffect, Without, Active, IInv, TypeOK, Store
  <2> QED BY <1>3, <2>1 DEF RecordsValid, ValidRecord
<1> QED BY <1>1, <1>4, <1>5, <1>6, <1>7 DEF StepEffect, Effect

\* While a receipt has time left, its answer is on the file.
THEOREM ReceiptsAreKept == ASSUME MaxStepBack = 0 PROVE Spec => []AnswerKept
<1>1. Init => AnswerKept
  BY DEF Init, AnswerKept
<1>2. IInv /\ AnswerKept /\ [Next]_vars => AnswerKept'
  BY AnswerKeptNext
<1> QED BY <1>1, <1>2, Invariance, PTL DEF Spec

\* The file is always one that NewStore accepts, unless an encoding is exactly as
\* long as the limit or the clock is set back.
THEOREM AlwaysRestartable ==
  ASSUME MaxStepBack = 0, MaxSize \in Nat, \A s \in Store : Size(s) \in Nat /\ Size(s) # MaxSize
  PROVE  Spec => []Restartable
<1>1. Init => RecordsValid
  BY DEF Init, RecordsValid, Active, Empty
<1>2. IInv /\ RecordsValid /\ [Next]_vars => RecordsValid'
  BY RecordsValidNext
<1>3. IInv /\ RecordsValid => Restartable
  BY DEF IInv, TypeOK, Bounded, RecordsValid, Restartable, Loadable, Fits, FileSize
<1> QED BY <1>1, <1>2, <1>3, Invariance, PTL DEF Spec

-----------------------------------------------------------------------------
(* Refinement: the store implements the life cycle of ControlSlots. *)

Gone(s) == {q \in Requests : disk[q] # None /\ s[q] = None}

\* Active slots of the abstract state are the records of the store.
LEMMA AbstractActive ==
  ASSUME NEW s \in Store, NEW slots, slots = [q \in Requests |-> SlotIn(s, q)]
  PROVE  Slots!Active(slots) = Active(s)
<1>1. \A q \in Requests : s[q] # None => s[q].status \in {"pending", "submitted"}
  BY DEF Store, Slot
<1>2. \A q \in Requests : slots[q].phase \in {"pending", "submitted"} <=> s[q] # None
  BY <1>1 DEF SlotIn
<1> QED BY <1>2 DEF Slots!Active, Slots!IsActive, Active

\* Sweeping the file is sweeping the abstract state.
LEMMA AbstractSweep ==
  ASSUME IInv, NEW s, Keeps(s)
  PROVE  Slots!Swept(Gone(s)) = [q \in Requests |-> SlotIn(s, q)]
<1> DEFINE abs == [q \in Requests |-> SlotIn(disk, q)]
<1>1. ASSUME NEW q \in Requests
      PROVE  SlotIn(s, q) = IF q \in Gone(s) /\ Slots!IsActive(abs[q])
                            THEN Slots!Expired ELSE abs[q]
  <2>1. CASE disk[q] # None /\ s[q] = None
    <3>1. q \in issued /\ q \notin cancelled
      BY <2>1 DEF IInv, Consistent, Active
    <3>2. disk[q].status \in {"pending", "submitted"}
      BY <2>1 DEF IInv, TypeOK, Store, Slot
    <3>3. q \in Gone(s) /\ Slots!IsActive(abs[q])
      BY <2>1, <3>2 DEF Gone, Slots!IsActive, SlotIn
    <3> QED BY <2>1, <3>1, <3>3 DEF SlotIn, Slots!Expired
  <2>2. CASE ~(disk[q] # None /\ s[q] = None)
    <3>1. s[q] = disk[q] /\ q \notin Gone(s)
      BY <2>2 DEF Keeps, Gone
    <3> QED BY <3>1 DEF SlotIn
  <2> QED BY <2>1, <2>2
<1> QED BY <1>1 DEF Slots!Swept

\* The instance has a Cardinality of its own, with the definition of FiniteSets.
LEMMA SameCardinality == \A S : Slots!Cardinality(S) = Cardinality(S)
  BY DEF Slots!Cardinality, Cardinality

LEMMA AbstractInit == Init => Slots!Init
<1> SUFFICES ASSUME Init PROVE Slots!Init
  OBVIOUS
<1>1. \A r \in Requests : SlotIn(disk, r) = Slots!Unused
  BY DEF Init, Empty, SlotIn, Slots!Unused
<1> QED BY <1>1 DEF Slots!Init

LEMMA AbstractNext == IInv /\ [Next]_vars => Slots!Next
<1> SUFFICES ASSUME IInv, [Next]_vars PROVE Slots!Next
  OBVIOUS
<1> DEFINE abs == [q \in Requests |-> SlotIn(disk, q)]
<1>0. StepEffect
  BY NextEffect
<1>1. CASE SweepEffect
  <2>1. Slots!Swept(Gone(disk')) = [q \in Requests |-> SlotIn(disk', q)]
    BY <1>1, AbstractSweep DEF SweepEffect
  <2>2. \A q \in Requests : SlotIn(disk, q)' = SlotIn(disk', q)
    BY <1>1 DEF SweepEffect, Told, SlotIn
  <2>3. Slots!Expire(Gone(disk'))
    BY <2>1, <2>2 DEF Slots!Expire
  <2>4. Gone(disk') \in SUBSET Requests
    BY DEF Gone
  <2> QED BY <2>3, <2>4 DEF Slots!Next
<1>2. ASSUME NEW s \in Store, NEW r \in Requests, NEW t \in Tuples, NEW ttl \in MinTTL..MaxTTL,
             OpenEffect(s, r, t, ttl)
      PROVE  Slots!Next
  <2> DEFINE kept == Slots!Swept(Gone(s))
  <2>1. kept = [q \in Requests |-> SlotIn(s, q)]
    BY <1>2, AbstractSweep DEF OpenEffect
  <2>2. s[r] = None /\ r \notin issued /\ r \notin cancelled
    BY <1>2 DEF OpenEffect, Keeps, IInv, Consistent, Active
  <2>3. kept[r] = Slots!Unused
    BY <2>1, <2>2 DEF SlotIn, Slots!Unused
  <2>4. Slots!Active(kept) = Active(s)
    BY <2>1, AbstractActive
  <2>5. \A q \in Slots!Active(kept) : kept[q].tuple # t
    BY <1>2, <2>1, <2>4 DEF OpenEffect, HasTuple, Active, SlotIn
  <2>6. Cardinality(Slots!Active(kept)) < MaxActive
    BY <1>2, <2>4 DEF OpenEffect
  <2>7. \A q \in Requests : SlotIn(disk, q)' =
           IF q = r THEN [phase |-> "pending", tuple |-> t, answer |-> None] ELSE kept[q]
    <3>1. /\ disk'[r] = NewSlot(t, ttl)
          /\ \A q \in Requests : q # r => disk'[q] = s[q]
          /\ issued' = issued \cup {r} /\ cancelled' = cancelled
      BY <1>2 DEF OpenEffect, Store
    <3>2. NewSlot(t, ttl) \in Slot /\ NewSlot(t, ttl) # None
      BY NewSlotType, ControlAssumption DEF IInv, TypeOK
    <3>3. SlotIn(disk, r)' = [phase |-> "pending", tuple |-> t, answer |-> None]
      BY <3>1, <3>2 DEF SlotIn, NewSlot
    <3>4. \A q \in Requests : q # r => SlotIn(disk, q)' = SlotIn(s, q)
      BY <3>1 DEF SlotIn
    <3> QED BY <2>1, <3>3, <3>4
  <2>8. [q \in Requests |-> SlotIn(disk, q)]' =
          [kept EXCEPT ![r] = [phase |-> "pending", tuple |-> t, answer |-> None]]
    BY <2>1, <2>7
  <2>9. Slots!Open(r, t, Gone(s))
    BY <2>3, <2>5, <2>6, <2>8, SameCardinality DEF Slots!Open
  <2>10. Gone(s) \in SUBSET Requests
    BY DEF Gone
  <2> QED BY <2>9, <2>10 DEF Slots!Next
<1>3. ASSUME NEW s \in Store, NEW r \in Requests, NEW a \in Answers, AnswerEffect(s, r, a)
      PROVE  Slots!Next
  <2> DEFINE kept == Slots!Swept(Gone(s))
             rec  == AnsweredSlot(disk[r], a)
  <2>1. kept = [q \in Requests |-> SlotIn(s, q)]
    BY <1>3, AbstractSweep DEF AnswerEffect
  <2>2. kept[r].phase = "pending" /\ kept[r].tuple = disk[r].tuple
    BY <1>3, <2>1 DEF AnswerEffect, SlotIn
  <2>3. /\ disk'[r] = rec
        /\ \A q \in Requests : q # r => disk'[q] = s[q]
        /\ issued' = issued /\ cancelled' = cancelled
    BY <1>3 DEF AnswerEffect, Store
  <2>4. rec # None
    BY <1>3, AnsweredSlotType, ControlAssumption DEF AnswerEffect, IInv, TypeOK, Store
  <2>5. SlotIn(disk, r)' = [phase |-> "submitted", tuple |-> disk[r].tuple, answer |-> a]
    BY <2>3, <2>4 DEF SlotIn, AnsweredSlot
  <2>6. \A q \in Requests : q # r => SlotIn(disk, q)' = SlotIn(s, q)
    BY <2>3 DEF SlotIn
  <2>7. [q \in Requests |-> SlotIn(disk, q)]' =
          [kept EXCEPT ![r] = [phase |-> "submitted", tuple |-> kept[r].tuple, answer |-> a]]
    BY <2>1, <2>2, <2>5, <2>6
  <2>8. Slots!Answer(r, a, Gone(s))
    BY <2>2, <2>7 DEF Slots!Answer
  <2>9. Gone(s) \in SUBSET Requests
    BY DEF Gone
  <2> QED BY <2>8, <2>9 DEF Slots!Next
<1>4. ASSUME NEW r \in Requests, CancelEffect(r) PROVE Slots!Next
  <2>1. \A q \in Requests : disk'[q] = IF q = r THEN None ELSE disk[q]
    BY <1>4 DEF CancelEffect, Without, IInv, TypeOK, Store
  <2>2. cancelled' = cancelled \cup {r} /\ issued' = issued
    BY <1>4 DEF CancelEffect
  <2>3. SlotIn(disk, r)' = Slots!Cancelled
    BY <2>1, <2>2 DEF SlotIn, Slots!Cancelled
  <2>4. \A q \in Requests : q # r => SlotIn(disk, q)' = SlotIn(disk, q)
    BY <2>1, <2>2 DEF SlotIn
  <2>5. abs[r].phase = "pending"
    BY <1>4 DEF CancelEffect, SlotIn
  <2>6. Slots!Cancel(r)
    BY <2>3, <2>4, <2>5 DEF Slots!Cancel
  <2> QED BY <2>6 DEF Slots!Next
<1> QED BY <1>0, <1>1, <1>2, <1>3, <1>4 DEF StepEffect, Effect

\* The store implements the life cycle of docs/control-response.md.
THEOREM Refinement == Spec => LifeCycle
  BY AbstractInit, AbstractNext, Invariance, PTL DEF Spec, LifeCycle, Slots!Spec
=============================================================================
