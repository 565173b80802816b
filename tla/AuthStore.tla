----------------------------- MODULE AuthStore -----------------------------
(***************************************************************************)
(* The token store of one workspace (internal/auth/store.go): registered   *)
(* clients, authorization codes, token families with refresh rotation and  *)
(* the tombstones of rotated refresh tokens, and their file.               *)
(*                                                                         *)
(* Every operation runs under Store.mu and is one step.  Each write of the *)
(* file may fail, and the process may die between any two steps; the codes *)
(* live in memory only.                                                    *)
(*                                                                         *)
(* A code starts at most one token family, so both are named by a member   *)
(* of Families; a token is named by its family, its generation and kind.   *)
(* Random identifiers are never drawn twice.                               *)
(***************************************************************************)
EXTENDS FiniteSets, Integers

CONSTANTS
  Families,       \* authorization codes and the token families they start
  Clients,        \* identifiers of registered clients
  Audiences,      \* MCP resources tokens are bound to
  None,           \* absence of a code
  MaxClients, MaxTokens, MaxCodes, MaxTombstones,  \* 256, 4096, 256 and 4096 in the code
  CodeTTL, AccessTTL, RefreshTTL,  \* 5 minutes, 1 hour and 30 days in the code
  MaxGen,         \* bound of the model: rotations of a family
  MaxTime         \* bound of the model: the clock stops here

ASSUME AuthAssumption ==
  /\ IsFiniteSet(Families) /\ IsFiniteSet(Clients)
  /\ MaxClients \in Nat \ {0} /\ MaxTokens \in Nat \ {0}
  /\ MaxCodes \in Nat \ {0} /\ MaxTombstones \in Nat \ {0}
  /\ CodeTTL \in Nat \ {0} /\ AccessTTL \in Nat \ {0} /\ RefreshTTL \in Nat \ {0}
  /\ MaxGen \in Nat /\ MaxTime \in Nat

VARIABLES
  up,        \* the process that holds the store runs
  clients,   \* Store.clients
  codes,     \* Store.codes
  tokens,    \* Store.tokens
  tombs,     \* Store.refreshTombstones
  disk,      \* auth/<workspace>.json
  now,       \* the clock
  drawn,     \* history: codes and clients that have been created
  told,      \* history: tokens that have been returned to a client
  exchanges, \* history: successful exchanges of each code
  revoking,  \* history: families a revocation has been tried on
  revoked    \* history: families a revocation has been reported for

memory  == <<clients, codes, tokens, tombs>>
history == <<drawn, told, exchanges, revoking, revoked>>
vars    == <<up, memory, disk, now, history>>

Kinds == {"access", "refresh"}
Token == [family : Families, gen : 0..MaxGen, kind : Kinds, client : Clients,
          audience : Audiences, expires : Nat]
Tombstone == [family : Families, gen : 0..MaxGen, audience : Audiences, expires : Nat]

\* refresh: the client may use the refresh grant and asked for offline_access.
Code == [client : Clients, audience : Audiences, refresh : BOOLEAN, expires : Nat]

-----------------------------------------------------------------------------
(* Expiry and persistence. *)

\* pruneLocked, for tokens and tombstones, and for codes.
Live(records) == {r \in records : r.expires > now}
LiveCodes == [f \in Families |-> IF codes[f] # None /\ codes[f].expires <= now THEN None ELSE codes[f]]
Pending(cs) == {f \in Families : cs[f] # None}

OfFamily(records, f)   == {r \in records : r.family = f}
OfAudience(records, a) == {r \in records : r.audience = a}

\* saveLocked: the whole file, less what has expired.
Write(cl, ts, tbs) == disk' = [clients |-> cl, tokens |-> Live(ts), tombs |-> Live(tbs)]

\* The operation fails, or does nothing: it leaves what pruneLocked leaves.
Refused ==
  /\ tokens' = Live(tokens) /\ tombs' = Live(tombs)
  /\ UNCHANGED <<disk, told, exchanges, revoking, revoked>>

\* Tokens and tombstones are dropped from memory whether or not io, the file
\* system, obliges; only then is the revocation of fs reported.
Drop(ts, tbs, fs, io) ==
  /\ tokens' = Live(ts) /\ tombs' = Live(tbs)
  /\ IF io THEN Write(clients, ts, tbs) ELSE UNCHANGED disk
  /\ revoking' = revoking \cup fs
  /\ revoked' = IF io THEN revoked \cup fs ELSE revoked
  /\ UNCHANGED <<told, exchanges>>

-----------------------------------------------------------------------------
(* Clients and codes. *)

\* Mutant: an outstanding code does not protect its client.
IdleDespiteCode == {c \in clients : \A t \in Live(tokens) : t.client # c}

\* makeClientRoomLocked: clients without a token or a code may make room.  The
\* oldest goes; which one that is does not matter here.
Idle == {c \in clients : /\ \A t \in Live(tokens) : t.client # c
                         /\ \A f \in Pending(LiveCodes) : LiveCodes[f].client # c}

Room(kept) ==
  IF Cardinality(clients) < MaxClients THEN kept = clients
  ELSE IF Idle = {} THEN kept = clients
  ELSE \E c \in Idle : kept = clients \ {c}

\* Mutant: the client stays registered although it could not be written.
RegisterClientNoRollback(c, io) ==
  /\ up /\ c \notin drawn
  /\ codes' = LiveCodes /\ tokens' = Live(tokens) /\ tombs' = Live(tombs)
  /\ \E kept \in SUBSET clients :
       /\ Room(kept)
       /\ IF Cardinality(kept) < MaxClients
          THEN /\ clients' = kept \cup {c}
               /\ IF io THEN Write(clients', tokens, tombs) ELSE UNCHANGED disk
               /\ drawn' = drawn \cup {c}
          ELSE UNCHANGED <<clients, disk, drawn>>
  /\ UNCHANGED <<up, now, told, exchanges, revoking, revoked>>

RegisterClient(c, io) ==
  /\ up /\ c \notin drawn
  /\ codes' = LiveCodes /\ tokens' = Live(tokens) /\ tombs' = Live(tombs)
  /\ \E kept \in SUBSET clients :
       /\ Room(kept)
       /\ IF Cardinality(kept) < MaxClients /\ io
          THEN /\ clients' = kept \cup {c}
               /\ Write(clients', tokens, tombs)
               /\ drawn' = drawn \cup {c}
          ELSE UNCHANGED <<clients, disk, drawn>>
  /\ UNCHANGED <<up, now, told, exchanges, revoking, revoked>>

CreateAuthorizationCode(f, c, a, refresh) ==
  /\ up /\ f \notin drawn
  /\ tokens' = Live(tokens) /\ tombs' = Live(tombs)
  /\ IF Cardinality(Pending(LiveCodes)) < MaxCodes
     THEN /\ codes' = [LiveCodes EXCEPT ![f] = [client |-> c, audience |-> a, refresh |-> refresh,
                                                expires |-> now + CodeTTL]]
          /\ drawn' = drawn \cup {f}
     ELSE codes' = LiveCodes /\ UNCHANGED drawn
  /\ UNCHANGED <<up, clients, disk, now, told, exchanges, revoking, revoked>>

-----------------------------------------------------------------------------
(* Tokens. *)

\* issueTokensLocked: an access token, and a refresh token where it is allowed.
NewTokens(f, gen, c, a, refresh) ==
  {[family |-> f, gen |-> gen, kind |-> k, client |-> c, audience |-> a,
    expires |-> now + IF k = "access" THEN AccessTTL ELSE RefreshTTL] :
     k \in IF refresh THEN Kinds ELSE {"access"}}

\* Mutant: one token too many.
FitsOffByOne(ts, new) == Cardinality(Live(ts)) + Cardinality(new) <= MaxTokens + 1

Fits(ts, new) == Cardinality(Live(ts)) + Cardinality(new) <= MaxTokens

\* Mutant: the tokens are returned without being written.
IssueUnwritten(new, ts, tbs) ==
  /\ tokens' = Live(ts) \cup new /\ tombs' = Live(tbs)
  /\ told' = told \cup new
  /\ UNCHANGED <<disk, revoking, revoked>>

Issue(new, ts, tbs) ==
  /\ tokens' = Live(ts) \cup new /\ tombs' = Live(tbs)
  /\ Write(clients, ts \cup new, tbs)
  /\ told' = told \cup new
  /\ UNCHANGED <<revoking, revoked>>

\* Redirect URI, verifier and audience are those of the code, or not (matches).
Exchangeable(f, c, matches) == LiveCodes[f] # None /\ LiveCodes[f].client = c /\ matches

FirstTokens(f) ==
  LET code == LiveCodes[f] IN NewTokens(f, 0, code.client, code.audience, code.refresh)

\* Mutant: the code is removed only when tokens are issued for it.
ExchangeRemovingLate(f, c, matches, io) ==
  /\ up
  /\ IF Exchangeable(f, c, matches) /\ Fits(tokens, FirstTokens(f)) /\ io
     THEN /\ Issue(FirstTokens(f), tokens, tombs)
          /\ codes' = LiveCodes
          /\ exchanges' = [exchanges EXCEPT ![f] = @ + 1]
     ELSE Refused /\ codes' = [LiveCodes EXCEPT ![f] = None]
  /\ UNCHANGED <<up, clients, now, drawn>>

\* The code is gone whatever comes of its exchange.
ExchangeAuthorizationCode(f, c, matches, io) ==
  /\ up
  /\ codes' = [LiveCodes EXCEPT ![f] = None]
  /\ IF Exchangeable(f, c, matches) /\ Fits(tokens, FirstTokens(f)) /\ io
     THEN /\ Issue(FirstTokens(f), tokens, tombs)
          /\ exchanges' = [exchanges EXCEPT ![f] = @ + 1]
     ELSE Refused
  /\ UNCHANGED <<up, clients, now, drawn>>

TombOf(t) == [family |-> t.family, gen |-> t.gen, audience |-> t.audience, expires |-> t.expires]

Replays(t) == t \notin Live(tokens) /\ t.kind = "refresh" /\ TombOf(t) \in Live(tombs)

NextTokens(t) == NewTokens(t.family, t.gen + 1, t.client, t.audience, TRUE)

Refreshable(t, c, matches) ==
  /\ t \in Live(tokens) /\ t.kind = "refresh" /\ t.client = c /\ matches
  /\ Cardinality(Live(tombs)) < MaxTombstones
  /\ Fits(tokens \ {t}, NextTokens(t))

\* Mutant: the rotated token stays.
RotateKeeping(t) == Issue(NextTokens(t), tokens, tombs \cup {TombOf(t)})

\* Mutant: a rotated token leaves no tombstone.
RotateForgetting(t) == Issue(NextTokens(t), tokens \ {t}, tombs)

Rotate(t) == Issue(NextTokens(t), tokens \ {t}, tombs \cup {TombOf(t)})

\* A client presents t; its grant types and the audience are right, or not
\* (matches).  A rotated token that comes again ends its family.
Refresh(t, c, matches, io) ==
  /\ up
  /\ t.gen < MaxGen  \* bound of the model
  /\ IF Refreshable(t, c, matches) /\ io
     THEN Rotate(t) /\ UNCHANGED exchanges
     ELSE IF Replays(t) THEN Drop(tokens \ OfFamily(tokens, t.family), tombs, {t.family}, io)
     ELSE Refused
  /\ UNCHANGED <<up, clients, now, drawn>>
  /\ codes' = LiveCodes

-----------------------------------------------------------------------------
(* Revocation. *)

\* Mutant: only the token itself is revoked.
RevokeOne(t, io) ==
  /\ up
  /\ Drop(tokens \ {t}, tombs, IF t \in tokens THEN {t.family} ELSE {}, io)
  /\ codes' = LiveCodes
  /\ UNCHANGED <<up, clients, now, drawn>>

\* Known, live or rotated, by the records of the last prune.
Known(t) == t \in tokens \/ (t.kind = "refresh" /\ TombOf(t) \in tombs)

Revoke(t, io) ==
  /\ up
  /\ IF Known(t) THEN Drop(tokens \ OfFamily(tokens, t.family), tombs, {t.family}, io)
     ELSE Drop(tokens, tombs, {}, io)
  /\ codes' = LiveCodes
  /\ UNCHANGED <<up, clients, now, drawn>>

RevokeAll(io) ==
  /\ up
  /\ Drop({}, {}, Families \cap drawn, io)
  /\ codes' = [f \in Families |-> None]
  /\ UNCHANGED <<up, clients, now, drawn>>

RevokeAudience(a, io) ==
  /\ up
  /\ Drop(tokens \ OfAudience(tokens, a), tombs \ OfAudience(tombs, a),
          {t.family : t \in OfAudience(told, a)}, io)
  /\ codes' = LiveCodes
  /\ UNCHANGED <<up, clients, now, drawn>>

\* codexlink unpair, while no bridge runs, opens the file itself.
RevokeAllOffline(io) ==
  /\ ~up
  /\ disk' = IF io THEN [clients |-> disk.clients, tokens |-> {}, tombs |-> {}] ELSE disk
  /\ revoking' = revoking \cup (Families \cap drawn)
  /\ revoked' = IF io THEN revoked \cup (Families \cap drawn) ELSE revoked
  /\ UNCHANGED <<up, memory, now, drawn, told, exchanges>>

-----------------------------------------------------------------------------
(* Restart, crash and the clock. *)

Loadable(d) ==
  /\ Cardinality(d.clients) <= MaxClients
  /\ Cardinality(d.tokens) <= MaxTokens
  /\ Cardinality(d.tombs) <= MaxTombstones

NewStore ==
  /\ ~up /\ Loadable(disk)
  /\ up' = TRUE
  /\ clients' = disk.clients
  /\ tokens' = Live(disk.tokens)
  /\ tombs' = Live(disk.tombs)
  /\ UNCHANGED <<codes, disk, now, history>>

Crash ==
  /\ up
  /\ up' = FALSE
  /\ clients' = {} /\ tokens' = {} /\ tombs' = {}
  /\ codes' = [f \in Families |-> None]
  /\ UNCHANGED <<disk, now, history>>

Tick ==
  /\ now < MaxTime
  /\ now' = now + 1
  /\ UNCHANGED <<up, memory, disk, history>>

Init ==
  /\ up = FALSE
  /\ clients = {} /\ tokens = {} /\ tombs = {}
  /\ codes = [f \in Families |-> None]
  /\ disk = [clients |-> {}, tokens |-> {}, tombs |-> {}]
  /\ now = 0
  /\ drawn = {} /\ told = {} /\ revoking = {} /\ revoked = {}
  /\ exchanges = [f \in Families |-> 0]

Call(c, matches, io) ==
  \/ RegisterClient(c, io)
  \/ \E f \in Families : ExchangeAuthorizationCode(f, c, matches, io)
  \/ \E t \in told : Refresh(t, c, matches, io)

Next ==
  \/ \E c \in Clients, matches, io \in BOOLEAN : Call(c, matches, io)
  \/ \E f \in Families, c \in Clients \cap drawn, a \in Audiences, refresh \in BOOLEAN :
        CreateAuthorizationCode(f, c, a, refresh)
  \/ \E io \in BOOLEAN : \/ \E t \in told : Revoke(t, io)
                        \/ RevokeAll(io)
                        \/ \E a \in Audiences : RevokeAudience(a, io)
                        \/ RevokeAllOffline(io)
  \/ NewStore
  \/ Crash
  \/ Tick

Spec == Init /\ [][Next]_vars

-----------------------------------------------------------------------------
(* Properties. *)

State == [clients : SUBSET Clients, tokens : SUBSET Token, tombs : SUBSET Tombstone]

TypeOK ==
  /\ up \in BOOLEAN
  /\ clients \subseteq Clients
  /\ codes \in [Families -> Code \cup {None}]
  /\ tokens \subseteq Token
  /\ tombs \subseteq Tombstone
  /\ disk \in State
  /\ now \in Nat
  /\ drawn \subseteq Families \cup Clients
  /\ told \subseteq Token
  /\ exchanges \in [Families -> Nat]
  /\ revoking \subseteq Families
  /\ revoked \subseteq revoking

Rotated(t) == t.kind = "refresh" /\ \E u \in told : u.family = t.family /\ u.gen = t.gen + 1

\* An authorization code buys tokens at most once, whatever fails on the way.
CodeUsedOnce == \A f \in Families : exchanges[f] <= 1

\* What a client was given survives failed writes and restarts until it
\* expires, is rotated, or someone asks for its revocation.
GrantKept ==
  \A t \in told : t.expires > now /\ ~Rotated(t) /\ t.family \notin revoking =>
    t \in disk.tokens /\ (up => t \in tokens)

\* A refresh token that was rotated is never accepted again, by this process
\* or by one that loads the file.
RotatedIsDead == \A t \in told : Rotated(t) => t \notin tokens \cup disk.tokens

\* A rotated token that comes again before its time is recognised, so that its
\* family can be ended, across restarts.
ReplayIsDetected ==
  \A t \in told : Rotated(t) /\ t.expires > now /\ t.family \notin revoking =>
    TombOf(t) \in disk.tombs /\ (up => TombOf(t) \in tombs)

\* Once a revocation is reported, nothing of the family is accepted again: not
\* by this process, not after a restart, not through a rotation or a code.
RevokedIsDead == \A t \in tokens \cup disk.tokens : t.family \notin revoked

\* The store can be opened again at any moment.
Reopenable == Loadable(disk)

\* The inductive invariant behind them.  What is in memory was written, unless it
\* was revoked and the write failed; what was written was returned to a client.
MemoryIsWritten ==
  IF up THEN tokens \subseteq disk.tokens /\ tombs \subseteq disk.tombs /\ clients = disk.clients
  ELSE tokens = {} /\ tombs = {} /\ clients = {} /\ codes = [f \in Families |-> None]

\* A code is good for one exchange, and only until its family is revoked.
CodesFresh ==
  /\ \A f \in Families : codes[f] # None => f \in drawn /\ exchanges[f] = 0 /\ f \notin revoked
  /\ \A f \in Families : exchanges[f] # 0 => f \in drawn
  /\ revoked \subseteq drawn

\* The history of a family is one chain of rotations that starts with its code.
Chained ==
  /\ disk.tokens \subseteq told
  /\ \A x \in disk.tombs : \E t \in told : x = TombOf(t)
  /\ \A t \in told : exchanges[t.family] = 1
  /\ \A t, u \in told : t.family = u.family =>
       /\ t.audience = u.audience
       /\ t.gen = u.gen /\ t.kind = u.kind => t = u
  /\ \A t \in told : t.gen # 0 =>
       \E u \in told : u.family = t.family /\ u.gen = t.gen - 1 /\ u.kind = "refresh"

WithinLimits ==
  /\ IsFiniteSet(disk.clients) /\ IsFiniteSet(disk.tokens) /\ IsFiniteSet(disk.tombs)
  /\ Loadable(disk)

IInv ==
  /\ TypeOK /\ MemoryIsWritten /\ CodesFresh /\ Chained /\ WithinLimits
  /\ CodeUsedOnce /\ RotatedIsDead /\ RevokedIsDead
=============================================================================
