---------------------------- MODULE ControlSlots ----------------------------
(***************************************************************************)
(* What the workflow control channel promises its two sides, without files,*)
(* clocks, crashes or failing writes (docs/control-response.md, "Lifecycle *)
(* is pending -> submitted -> expired or pending -> cancelled").           *)
(* A slot is opened once, answered at most once, and never comes back.     *)
(* The detailed store, ControlStore, is shown to implement this module.    *)
(***************************************************************************)
EXTENDS FiniteSets, Naturals

CONSTANTS
  Requests,   \* request identifiers, e.g. {r1, r2, r3}
  Tuples,     \* (task, iteration) pairs, e.g. {t1, t2}
  Answers,    \* contents of a submission, e.g. {plan, done}
  MaxActive,  \* active slots allowed at once (16 in the code)
  None        \* absence of a value

VARIABLE slot \* slot[r]: where the request r is in its life

Unused    == [phase |-> "unused",    tuple |-> None, answer |-> None]
Expired   == [phase |-> "expired",   tuple |-> None, answer |-> None]
Cancelled == [phase |-> "cancelled", tuple |-> None, answer |-> None]

IsActive(s) == s.phase \in {"pending", "submitted"}
Active(slots) == {r \in Requests : IsActive(slots[r])}

\* Any active slots may run out of time together, on the occasion of any step.
Swept(gone) == [r \in Requests |->
                  IF r \in gone /\ IsActive(slot[r]) THEN Expired ELSE slot[r]]

Init == slot = [r \in Requests |-> Unused]

\* A fresh slot for a tuple that has none, while there is room for one more.
Open(r, t, gone) ==
  LET kept == Swept(gone) IN
  /\ kept[r] = Unused
  /\ \A q \in Active(kept) : kept[q].tuple # t
  /\ Cardinality(Active(kept)) < MaxActive
  /\ slot' = [kept EXCEPT ![r] = [phase |-> "pending", tuple |-> t, answer |-> None]]

\* The first answer, and only the first, fills the slot.
Answer(r, a, gone) ==
  LET kept == Swept(gone) IN
  /\ kept[r].phase = "pending"
  /\ slot' = [kept EXCEPT ![r] = [phase |-> "submitted", tuple |-> kept[r].tuple, answer |-> a]]

\* Only a slot nobody has answered can be withdrawn.
Cancel(r) ==
  /\ slot[r].phase = "pending"
  /\ slot' = [slot EXCEPT ![r] = Cancelled]

Expire(gone) == slot' = Swept(gone)

Next == \E gone \in SUBSET Requests :
  \/ \E r \in Requests, t \in Tuples : Open(r, t, gone)
  \/ \E r \in Requests, a \in Answers : Answer(r, a, gone)
  \/ \E r \in Requests : Cancel(r)
  \/ Expire(gone)

Spec == Init /\ [][Next]_slot
=============================================================================
