---------------------------- MODULE OAuthServer ----------------------------
(***************************************************************************)
(* The OAuth endpoints of one bridge (internal/auth/http.go) over its token*)
(* store (AuthStore) and its pairing manager (Pairing), with the admin     *)
(* calls that open a pairing and end all of them (internal/bridge/admin.go)*)
(* and codexlink unpair (internal/cli/commands.go).                        *)
(*                                                                         *)
(* authorizeComplete verifies the pairing code and stores the              *)
(* authorization code under OAuthServer.mu: one step.  The token handler   *)
(* resolves its client before it calls the store: two steps.  Unpairing    *)
(* revokes the tokens and then invalidates the pairing: two steps.         *)
(***************************************************************************)
EXTENDS FiniteSets, Integers

CONSTANTS
  \* of AuthStore
  Families, Clients, Audiences, None, MaxClients, MaxTokens, MaxCodes, MaxTombstones,
  CodeTTL, AccessTTL, RefreshTTL, MaxGen, MaxTime,
  \* of Pairing
  Sessions, IPs, MaxAttempts, PairingTTL, IPLimit, IPWindow, MaxTrackedIPs,
  \* of this module
  Requests,      \* authorization requests a browser has open
  Handlers,      \* concurrent calls of the token endpoint
  MaxPending,    \* OAuthLimits.MaxPending
  PendingTTL,    \* life of an authorization request (10 minutes)
  CompletedTTL   \* how long a completed request answers a second POST (1 minute)

ASSUME OAuthAssumption ==
  /\ None \notin Requests \cup Handlers \cup Sessions \cup IPs
  /\ MaxAttempts \in Nat \ {0} /\ PairingTTL \in Nat \ {0}
  /\ IPLimit \in Nat \ {0} /\ IPWindow \in Nat \ {0} /\ MaxTrackedIPs \in Nat \ {0}
  /\ MaxPending \in Nat \ {0} /\ PendingTTL \in Nat \ {0} /\ CompletedTTL \in Nat \ {0}

VARIABLES
  up, clients, codes, tokens, tombs, disk, now, drawn, told, exchanges, revoking, revoked,
  session, status, hits, created, latest, accepted, wrong, guessed,
  pending,    \* OAuthServer.pending
  completed,  \* OAuthServer.completed
  calls,      \* per token handler, what it was asked for by the client it resolved
  unpairing,  \* an unpairing has revoked the tokens and not yet invalidated the pairing
  started,    \* history: requests that have been started
  approvals,  \* history: the session and the code of each approved request
  shown,      \* history: the code in each redirect a browser was given
  unpaired    \* history: sessions created before an unpairing that was reported

storeVars   == <<up, clients, codes, tokens, tombs, disk, now, drawn, told, exchanges, revoking, revoked>>
pairingVars == <<session, status, hits, created, latest, accepted, wrong, guessed>>
serverVars  == <<pending, completed, calls, unpairing, started, approvals, shown, unpaired>>

Store   == INSTANCE AuthStore
Pairing == INSTANCE Pairing

vars == <<storeVars, pairingVars, serverVars>>

\* refresh: the client may refresh and asked for it.
PendingAuthorization == [client : Clients, audience : Audiences, refresh : BOOLEAN, expires : Nat]

\* Identifiers are random: which unused one is drawn makes no difference.
Fresh(ids, used) == IF ids \subseteq used THEN {} ELSE {CHOOSE x \in ids : x \notin used}

-----------------------------------------------------------------------------
(* The authorization endpoint. *)

\* prunePendingLocked.
Unexpired(rs) == [r \in Requests |-> IF rs[r] # None /\ rs[r].expires <= now THEN None ELSE rs[r]]

Count(rs) == Cardinality({r \in Requests : rs[r] # None})

\* authorizeStart: its client is resolved first, and may be gone when the
\* request is stored and later.
AuthorizeStart(r, c, a, refresh) ==
  /\ up /\ c \in clients
  /\ completed' = Unexpired(completed)
  /\ IF Count(Unexpired(pending)) < MaxPending
     THEN /\ pending' = [Unexpired(pending) EXCEPT ![r] =
                           [client |-> c, audience |-> a, refresh |-> refresh, expires |-> now + PendingTTL]]
          /\ started' = started \cup {r}
     ELSE pending' = Unexpired(pending) /\ UNCHANGED started
  /\ UNCHANGED <<storeVars, pairingVars, calls, unpairing, approvals, shown, unpaired>>

\* The form of a request that is not pending: its redirect again, or an error.
CompleteAgain(r) ==
  /\ Unexpired(pending)[r] = None
  /\ pending' = Unexpired(pending) /\ completed' = Unexpired(completed)
  /\ shown' = IF Unexpired(completed)[r] # None
              THEN shown \cup {[request |-> r, family |-> completed[r].family]} ELSE shown
  /\ UNCHANGED <<storeVars, pairingVars, approvals>>

\* The pairing code is wrong, or there is no pairing.
CompleteRefused(r, guess, ip) ==
  /\ Unexpired(pending)[r] # None
  /\ ~Pairing!Verifies(guess, ip)
  /\ Pairing!Verify(guess, ip)
  /\ pending' = Unexpired(pending) /\ completed' = Unexpired(completed)
  /\ UNCHANGED <<storeVars, approvals, shown>>

Redirects(r, f) ==
  /\ completed' = [Unexpired(completed) EXCEPT ![r] = [family |-> f, expires |-> now + CompletedTTL]]
  /\ shown' = shown \cup {[request |-> r, family |-> f]}

\* Mutant: the request stays pending.
CompleteAcceptedKeeping(r, guess, ip) ==
  LET p == Unexpired(pending)[r] IN
  /\ p # None
  /\ Pairing!Verifies(guess, ip) /\ Pairing!Verify(guess, ip)
  /\ \E f \in Fresh(Families, drawn) :
       /\ Store!CreateAuthorizationCode(f, p.client, p.audience, p.refresh)
       /\ IF f \in drawn'
          THEN /\ Redirects(r, f)
               /\ approvals' = approvals \cup {[request |-> r, session |-> guess, family |-> f]}
          ELSE completed' = Unexpired(completed) /\ UNCHANGED <<shown, approvals>>
  /\ pending' = Unexpired(pending)

\* The session is used up; the request is done unless the store has no room
\* for its code.
CompleteAccepted(r, guess, ip) ==
  LET p == Unexpired(pending)[r] IN
  /\ p # None
  /\ Pairing!Verifies(guess, ip) /\ Pairing!Verify(guess, ip)
  /\ \E f \in Fresh(Families, drawn) :
       /\ Store!CreateAuthorizationCode(f, p.client, p.audience, p.refresh)
       /\ IF f \in drawn'
          THEN /\ pending' = [Unexpired(pending) EXCEPT ![r] = None]
               /\ Redirects(r, f)
               /\ approvals' = approvals \cup {[request |-> r, session |-> guess, family |-> f]}
          ELSE /\ pending' = Unexpired(pending) /\ completed' = Unexpired(completed)
               /\ UNCHANGED <<shown, approvals>>

AuthorizeComplete(r, guess, ip) ==
  /\ up
  /\ \/ CompleteAgain(r)
     \/ CompleteRefused(r, guess, ip)
     \/ CompleteAccepted(r, guess, ip)
  /\ UNCHANGED <<calls, unpairing, started, unpaired>>

-----------------------------------------------------------------------------
(* The other endpoints. *)

RegisterClient(c, io) ==
  /\ Store!RegisterClient(c, io)
  /\ UNCHANGED <<pairingVars, serverVars>>

\* token: the request names a code or a refresh token, and its client is known.
Authenticate(h, call) ==
  /\ up /\ calls[h] = None /\ call.client \in clients
  /\ calls' = [calls EXCEPT ![h] = call]
  /\ UNCHANGED <<storeVars, pairingVars, pending, completed, unpairing, started, approvals, shown, unpaired>>

TokenStart(h) ==
  \E c \in Clients :
    \/ \E f \in Families \cap drawn : Authenticate(h, [grant |-> "code", of |-> f, client |-> c])
    \/ \E t \in told : Authenticate(h, [grant |-> "refresh", of |-> t, client |-> c])

TokenFinish(h, matches, io) ==
  LET call == calls[h] IN
  /\ call # None
  /\ calls' = [calls EXCEPT ![h] = None]
  /\ IF call.grant = "code"
     THEN Store!ExchangeAuthorizationCode(call.of, call.client, matches, io)
     ELSE Store!Refresh(call.of, call.client, matches, io)
  /\ UNCHANGED <<pairingVars, pending, completed, unpairing, started, approvals, shown, unpaired>>

\* revoke answers 200 whatever the store says.
Revoke(t, io) ==
  /\ Store!Revoke(t, io)
  /\ UNCHANGED <<pairingVars, serverVars>>

-----------------------------------------------------------------------------
(* The admin API and the command line. *)

\* /admin/pairing, and /admin/setup-session when its session is stored.
CreatePairing ==
  /\ up /\ \E s \in Fresh(Sessions, created) : Pairing!Create(s)
  /\ UNCHANGED <<storeVars, serverVars>>

\* /admin/setup-session, when its session is refused after Create.
AbandonSetup ==
  /\ up /\ Pairing!Invalidate
  /\ UNCHANGED <<storeVars, serverVars>>

ReadStatus ==
  /\ up /\ Pairing!ReadStatus
  /\ UNCHANGED <<storeVars, serverVars>>

\* /admin/revoke-all.
RevokeAll(io) ==
  /\ ~unpairing
  /\ Store!RevokeAll(io)
  /\ unpairing' = io
  /\ UNCHANGED <<pairingVars, pending, completed, calls, started, approvals, shown, unpaired>>

InvalidatePairing ==
  /\ up /\ unpairing
  /\ Pairing!Invalidate
  /\ unpairing' = FALSE
  /\ unpaired' = unpaired \cup created
  /\ UNCHANGED <<storeVars, pending, completed, calls, started, approvals, shown>>

\* codexlink unpair without a bridge.
UnpairOffline(io) ==
  /\ Store!RevokeAllOffline(io)
  /\ unpaired' = IF io THEN unpaired \cup created ELSE unpaired
  /\ UNCHANGED <<pairingVars, pending, completed, calls, unpairing, started, approvals, shown>>

-----------------------------------------------------------------------------
(* Restart, crash and the clock. *)

NewServer == Store!NewStore /\ UNCHANGED <<pairingVars, serverVars>>

Crash ==
  /\ Store!Crash
  /\ Pairing!Forget
  /\ pending' = [r \in Requests |-> None] /\ completed' = [r \in Requests |-> None]
  /\ calls' = [h \in Handlers |-> None]
  /\ unpairing' = FALSE
  /\ UNCHANGED <<started, approvals, shown, unpaired>>

Tick == Store!Tick /\ UNCHANGED <<pairingVars, serverVars>>

Init ==
  /\ Store!Init
  /\ Pairing!InitPairing
  /\ pending = [r \in Requests |-> None] /\ completed = [r \in Requests |-> None]
  /\ calls = [h \in Handlers |-> None]
  /\ unpairing = FALSE
  /\ started = {} /\ approvals = {} /\ shown = {} /\ unpaired = {}

Browser ==
  \/ \E r \in Fresh(Requests, started), c \in Clients, a \in Audiences, refresh \in BOOLEAN :
        AuthorizeStart(r, c, a, refresh)
  \/ \E r \in started, guess \in created \cup {None}, ip \in IPs \cup {None} :
        AuthorizeComplete(r, guess, ip)

Connector ==
  \/ \E c \in Fresh(Clients, drawn), io \in BOOLEAN : RegisterClient(c, io)
  \/ \E h \in Handlers : TokenStart(h)
  \/ \E h \in Handlers, matches, io \in BOOLEAN : TokenFinish(h, matches, io)
  \/ \E t \in told, io \in BOOLEAN : Revoke(t, io)

Operator ==
  \/ CreatePairing
  \/ AbandonSetup
  \/ ReadStatus
  \/ \E io \in BOOLEAN : RevokeAll(io)
  \/ InvalidatePairing
  \/ \E io \in BOOLEAN : UnpairOffline(io)

Next ==
  \/ Browser
  \/ Connector
  \/ Operator
  \/ NewServer
  \/ Crash
  \/ Tick

Spec == Init /\ [][Next]_vars

-----------------------------------------------------------------------------
(* Properties. *)

TypeOK ==
  /\ Store!TypeOK
  /\ Pairing!PairingTypeOK
  /\ pending \in [Requests -> PendingAuthorization \cup {None}]
  /\ completed \in [Requests -> [family : drawn \cap Families, expires : Nat] \cup {None}]
  /\ unpairing \in BOOLEAN
  /\ started \subseteq Requests

\* A pairing code approves one authorization request at most, whatever browsers
\* submit at the same time and whatever fails after the code was accepted.
PairingOnce ==
  \A p, q \in approvals : p.session = q.session => p = q

\* A form that is submitted twice leads to the same code, or to an error: an
\* authorization request never yields a second code (comment in
\* authorizeComplete, "replay the same redirect").
SameRedirect ==
  \A p, q \in shown : p.request = q.request => p = q

\* The client of a live token is registered, so that it can be refreshed: making
\* room for a new client never strands a grant, not even between the two steps
\* of a token request (makeClientRoomLocked).
TokensHaveClients == \A t \in Store!Live(tokens) : t.client \in clients

\* README.md says that the confirmation in the browser is needed again when
\* "codexlink unpair was run": once an unpairing is reported, no code and no
\* token of a pairing created before it is accepted.
UnpairEnds ==
  \A p \in approvals : p.session \in unpaired =>
    /\ Store!LiveCodes[p.family] = None
    /\ \A t \in tokens \cup disk.tokens : t.family # p.family
=============================================================================
