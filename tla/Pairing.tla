------------------------------ MODULE Pairing ------------------------------
(***************************************************************************)
(* The pairing manager (internal/auth/pairing.go): one session at a time,  *)
(* whose one-time code approves one authorization, a bounded number of     *)
(* wrong guesses per session, and a bounded number of guesses per address  *)
(* and window of time.                                                     *)
(*                                                                         *)
(* Every method runs under PairingManager.mu and is one step.  The code of *)
(* a session is named by the session: a guess is the session whose code is *)
(* entered, or None for anything else.                                     *)
(***************************************************************************)
EXTENDS FiniteSets, Integers

CONSTANTS
  Sessions,      \* pairing sessions and their one-time codes
  IPs,           \* addresses guesses come from
  None,          \* absence of a session, a counter, an address or a code
  MaxAttempts,   \* wrong guesses a session survives, plus one (5)
  PairingTTL,    \* life of a session (5 minutes)
  IPLimit,       \* guesses per address and window (10)
  IPWindow,      \* length of the window (1 minute)
  MaxTrackedIPs, \* addresses remembered at a time (2048)
  MaxTime        \* bound of the model: the clock stops here

VARIABLES
  now,        \* the clock
  session,    \* PairingManager.session
  status,     \* PairingManager.state
  hits,       \* PairingManager.ipHits
  created,    \* history: sessions that have been created
  latest,     \* history: the last one of them
  accepted,   \* history: sessions whose code was accepted
  wrong,      \* history: wrong guesses that were compared with the code of a session
  guessed     \* history: guesses let through, per address and moment

pairingVars == <<session, status, hits, created, latest, accepted, wrong, guessed>>

PairingSession == [id : Sessions, expires : Nat, left : Nat]
Counter == [count : Nat, reset : Nat]
Statuses == {"idle", "active", "consumed", "expired", "locked", "invalidated"}

-----------------------------------------------------------------------------
(* Guesses per address. *)

LiveHits == [ip \in IPs |-> IF hits[ip] # None /\ hits[ip].reset <= now THEN None ELSE hits[ip]]
Tracked == {ip \in IPs : LiveHits[ip] # None}

\* Mutant: a refused guess starts the window again.
HitsAfterRestarting(ip) ==
  IF ip = None THEN hits
  ELSE IF LiveHits[ip] # None /\ LiveHits[ip].count < IPLimit THEN [LiveHits EXCEPT ![ip].count = @ + 1]
  ELSE [LiveHits EXCEPT ![ip] = [count |-> 1, reset |-> now + IPWindow]]

\* allowIPLocked; an unknown address (None) is not limited.
HitsAfter(ip) ==
  IF ip = None THEN hits
  ELSE IF LiveHits[ip] # None THEN [LiveHits EXCEPT ![ip].count = @ + 1]
  ELSE IF Cardinality(Tracked) >= MaxTrackedIPs THEN LiveHits
  ELSE [LiveHits EXCEPT ![ip] = [count |-> 1, reset |-> now + IPWindow]]

Allowed(ip) == ip # None => HitsAfter(ip)[ip] # None /\ HitsAfter(ip)[ip].count <= IPLimit

-----------------------------------------------------------------------------
(* Sessions. *)

Create(s) ==
  /\ s \notin created
  /\ session' = [id |-> s, expires |-> now + PairingTTL, left |-> MaxAttempts]
  /\ created' = created \cup {s} /\ latest' = s
  /\ status' = "active"
  /\ UNCHANGED <<hits, accepted, wrong, guessed>>

Expired == session # None /\ session.expires <= now

\* Mutant: the session outlives its use.
AcceptKeeping(guess) ==
  /\ session # None /\ ~Expired /\ guess = session.id
  /\ status' = "consumed"
  /\ accepted' = accepted \cup {guess}
  /\ UNCHANGED <<session, wrong>>

\* The guess is right: the session is used up.  A session has attempts left:
\* the last one ends it.
Accept(guess) ==
  /\ session # None /\ ~Expired /\ guess = session.id
  /\ session' = None
  /\ status' = "consumed"
  /\ accepted' = accepted \cup {guess}
  /\ UNCHANGED wrong

\* Mutant: the session outlives its last attempt.
WrongForgiving(guess) ==
  /\ session # None /\ ~Expired /\ guess # session.id
  /\ wrong' = [wrong EXCEPT ![session.id] = @ + 1]
  /\ session' = [session EXCEPT !.left = IF @ > 1 THEN @ - 1 ELSE @]
  /\ UNCHANGED <<status, accepted>>

\* A wrong guess; the last one ends the session.
Wrong(guess) ==
  /\ session # None /\ ~Expired /\ guess # session.id
  /\ wrong' = [wrong EXCEPT ![session.id] = @ + 1]
  /\ IF session.left = 1 THEN session' = None /\ status' = "locked"
     ELSE session' = [session EXCEPT !.left = @ - 1] /\ UNCHANGED status
  /\ UNCHANGED accepted

\* There is no session, or none any more.
Expire ==
  /\ IF Expired THEN session' = None /\ status' = "expired" ELSE UNCHANGED <<session, status>>
  /\ UNCHANGED <<accepted, wrong>>

\* Verify; the guess was accepted exactly when Verifies holds.
Verifies(guess, ip) ==
  Allowed(ip) /\ session # None /\ ~Expired /\ guess = session.id

Verify(guess, ip) ==
  /\ hits' = HitsAfter(ip)
  /\ IF Allowed(ip)
     THEN /\ \/ Accept(guess)
             \/ Wrong(guess)
             \/ (session = None \/ Expired) /\ Expire
          /\ guessed' = IF ip = None THEN guessed ELSE [guessed EXCEPT ![ip][now] = @ + 1]
     ELSE UNCHANGED <<session, status, accepted, wrong, guessed>>
  /\ UNCHANGED <<created, latest>>

\* Status, which setup polls.
ReadStatus == Expire /\ UNCHANGED <<hits, created, latest, guessed>>

Invalidate ==
  /\ session' = None
  /\ status' = "invalidated"
  /\ UNCHANGED <<hits, created, latest, accepted, wrong, guessed>>

InitPairing ==
  /\ session = None
  /\ status = "idle"
  /\ hits = [ip \in IPs |-> None]
  /\ created = {} /\ latest = None /\ accepted = {}
  /\ wrong = [s \in Sessions |-> 0]
  /\ guessed = [ip \in IPs |-> [t \in 0..MaxTime |-> 0]]

\* The bridge process dies: the manager starts afresh with the next one.
Forget ==
  /\ session' = None
  /\ status' = "idle"
  /\ hits' = [ip \in IPs |-> None]
  /\ UNCHANGED <<created, latest, accepted, wrong, guessed>>

-----------------------------------------------------------------------------
(* Properties. *)

PairingTypeOK ==
  /\ session \in [id : created, expires : Nat, left : 1..MaxAttempts] \cup {None}
  /\ status \in Statuses
  /\ hits \in [IPs -> [count : Nat, reset : Nat] \cup {None}]
  /\ created \subseteq Sessions /\ accepted \subseteq created
  /\ wrong \in [Sessions -> 0..MaxAttempts]

\* What setup and the command line show of the last code is what became of it:
\* it was consumed by a browser, locked by wrong guesses, or is still open
\* (PairingManager.Status).
StatusIsOutcome ==
  /\ status = "active" => session # None /\ session.id = latest
  /\ status = "consumed" => latest \in accepted
  /\ status = "locked" => wrong[latest] = MaxAttempts
  /\ session # None => status = "active" /\ session.id \notin accepted

\* A code is dead after MaxAttempts wrong guesses, over all addresses.
AttemptsBounded ==
  \A s \in Sessions : wrong[s] <= MaxAttempts /\ (wrong[s] = MaxAttempts => s \notin accepted)
=============================================================================
