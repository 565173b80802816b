--------------------------- MODULE RequestLimiter ---------------------------
(***************************************************************************)
(* The limiter of registrations and authorizations                         *)
(* (internal/auth/limits.go): fixed windows per address and for all        *)
(* addresses together, and a bounded table of addresses.  Allow runs under *)
(* a lock, so a call is one step.                                          *)
(***************************************************************************)
EXTENDS Naturals, FiniteSets

CONSTANTS
  Addresses,     \* addresses requests come from
  PerAddress,    \* requests per window of one address
  Global,        \* requests per window of all
  Window,        \* length of a window
  MaxAddresses,  \* size of the table
  NoBucket,      \* absence of a bucket
  MaxClock       \* bound on the clock

ASSUME LimiterAssumption ==
  /\ {PerAddress, Global, Window, MaxAddresses} \subseteq Nat \ {0}
  /\ MaxClock \in Nat
  /\ NoBucket \notin [start : Nat, count : Nat]

VARIABLES
  buckets,       \* per address: [start, count] or NoBucket
  globalBucket,  \* [start, count] or NoBucket
  clock,
  admitted       \* history: requests admitted, <<address, time, number>>

limiterVars == <<buckets, globalBucket, clock, admitted>>

-----------------------------------------------------------------------------
WindowOver(b) == clock >= b.start + Window
InWindow(b) == b # NoBucket /\ ~WindowOver(b)

NewBucket == [start |-> clock, count |-> 0]

\* The table without the addresses whose window is over.
LivingBuckets == [a \in Addresses |-> IF InWindow(buckets[a]) THEN buckets[a] ELSE NoBucket]

GlobalNow == IF InWindow(globalBucket) THEN globalBucket ELSE NewBucket

Tracked(table) == {a \in Addresses : table[a] # NoBucket}

Counted(b) == [b EXCEPT !.count = @ + 1]

\* Requests of one address at one moment are numbered.
AdmittedAt(a, t) == {x \in admitted : x[1] = a /\ x[2] = t}
Admission(a) == <<a, clock, Cardinality(AdmittedAt(a, clock))>>

\* Mutant: a request that the address is refused for counts for all.
AllowGlobalFirst(a) ==
  LET mine == IF LivingBuckets[a] = NoBucket THEN NewBucket ELSE LivingBuckets[a]
      room == LivingBuckets[a] # NoBucket \/ Cardinality(Tracked(LivingBuckets)) < MaxAddresses
  IN /\ globalBucket' = IF room /\ GlobalNow.count < Global THEN Counted(GlobalNow) ELSE GlobalNow
     /\ IF room /\ mine.count < PerAddress /\ GlobalNow.count < Global
        THEN buckets' = [LivingBuckets EXCEPT ![a] = Counted(mine)] /\ admitted' = admitted \cup {Admission(a)}
        ELSE buckets' = LivingBuckets /\ UNCHANGED admitted
     /\ UNCHANGED clock

Allow(a) ==
  LET mine == IF LivingBuckets[a] = NoBucket THEN NewBucket ELSE LivingBuckets[a]
      room == LivingBuckets[a] # NoBucket \/ Cardinality(Tracked(LivingBuckets)) < MaxAddresses
  IN /\ IF room /\ mine.count < PerAddress /\ GlobalNow.count < Global
        THEN /\ buckets' = [LivingBuckets EXCEPT ![a] = Counted(mine)]
             /\ globalBucket' = Counted(GlobalNow)
             /\ admitted' = admitted \cup {Admission(a)}
        ELSE /\ buckets' = LivingBuckets
             /\ globalBucket' = GlobalNow
             /\ UNCHANGED admitted
     /\ UNCHANGED clock

LimiterTick == clock < MaxClock /\ clock' = clock + 1 /\ UNCHANGED <<buckets, globalBucket, admitted>>

LimiterInit ==
  /\ buckets = [a \in Addresses |-> NoBucket]
  /\ globalBucket = NoBucket
  /\ clock = 0
  /\ admitted = {}

LimiterNext == (\E a \in Addresses : Allow(a)) \/ LimiterTick

LimiterSpec == LimiterInit /\ [][LimiterNext]_limiterVars

-----------------------------------------------------------------------------
(* Properties. *)

AdmittedIn(who, times) == Cardinality({x \in admitted : x[1] \in who /\ x[2] \in times})

\* A rejected request never consumes capacity (comment of requestLimiter): what
\* the buckets in use count is exactly what was admitted since their windows
\* began, so that neither an address nor everyone together is refused early,
\* and in no stretch of a window's length are more than two windows' worth
\* admitted.
CountsAreAdmissions ==
  /\ InWindow(globalBucket) => globalBucket.count = AdmittedIn(Addresses, globalBucket.start..clock)
  /\ \A a \in Addresses : InWindow(buckets[a]) => buckets[a].count = AdmittedIn({a}, buckets[a].start..clock)
  /\ \A t \in 0..clock : AdmittedIn(Addresses, t..t + Window - 1) <= 2 * Global
=============================================================================
