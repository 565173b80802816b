---------------------------- MODULE RequestProofs ----------------------------
(***************************************************************************)
(* What the endpoints promise, for any number of browsers, requests,       *)
(* pairings, clients and restarts: approvals and authorizations, what is   *)
(* believed of clients (how many requests are admitted, their metadata,    *)
(* the assertions they sign), and what runs for an MCP client.             *)
(***************************************************************************)
EXTENDS OAuthServer, RequestLimiter, ClientMetadata, ClientAssertion, McpEndpoint, FiniteSetTheorems, TLAPS

-----------------------------------------------------------------------------
(* Approvals. *)

\* A session that is open has approved nothing.
OpenIsUnused ==
  /\ \A p \in approvals : p.session \in created
  /\ session # None => "id" \in DOMAIN session /\ session.id \in created /\ \A p \in approvals : p.session # session.id

\* A request that is pending was shown no code, and one that is completed the one
\* that is remembered for it.
ShownIsRemembered ==
  /\ started \subseteq Requests
  /\ \A p \in shown : /\ p.request \in started
                      /\ p = [request |-> p.request, family |-> p.family]
                      /\ pending[p.request] = None
                      /\ completed[p.request] # None => completed[p.request].family = p.family

ApprovalInv == OpenIsUnused /\ PairingOnce /\ ShownIsRemembered /\ SameRedirect

\* What is drawn was not used.
LEMMA FreshUnused == ASSUME NEW ids, NEW taken, NEW x \in Fresh(ids, taken) PROVE x \in ids /\ x \notin taken
  BY DEF Fresh

LEMMA ApprovalInit == Init => ApprovalInv
  BY DEF Init, ApprovalInv, OpenIsUnused, PairingOnce, ShownIsRemembered, SameRedirect, Pairing!InitPairing

\* A step that opens no session and approves nothing, and shows nothing.
LEMMA ApprovalKept ==
  ASSUME ApprovalInv, session' \in {session, None}, UNCHANGED <<created, approvals, shown, started>>,
         \/ UNCHANGED <<pending, completed>>
         \/ pending' = [r \in Requests |-> None] /\ completed' = [r \in Requests |-> None]
  PROVE  ApprovalInv'
  BY DEF ApprovalInv, OpenIsUnused, PairingOnce, ShownIsRemembered, SameRedirect

LEMMA ApprovalStart ==
  ASSUME ApprovalInv, NEW r \in Fresh(Requests, started), NEW c \in Clients, NEW a \in Audiences,
         NEW refresh \in BOOLEAN, AuthorizeStart(r, c, a, refresh)
  PROVE  ApprovalInv'
<1>1. r \in Requests /\ r \notin started BY FreshUnused
<1>2. /\ \A q \in Requests : q # r => pending'[q] = Unexpired(pending)[q]
      /\ completed' = Unexpired(completed) /\ started \subseteq started' /\ started' \subseteq Requests
  BY <1>1 DEF AuthorizeStart, Unexpired, ApprovalInv, ShownIsRemembered
<1>3. UNCHANGED <<shown, approvals, created, session>> BY DEF AuthorizeStart, pairingVars
<1>4. ShownIsRemembered' BY <1>1, <1>2, <1>3 DEF ApprovalInv, ShownIsRemembered, Unexpired
<1> QED BY <1>3, <1>4 DEF ApprovalInv, OpenIsUnused, PairingOnce, SameRedirect

LEMMA ApprovalAgain ==
  ASSUME ApprovalInv, NEW r \in started, CompleteAgain(r), UNCHANGED started
  PROVE  ApprovalInv'
<1>1. r \in Requests /\ started \subseteq Requests BY DEF ApprovalInv, ShownIsRemembered
<1>2. UNCHANGED <<approvals, created, session>> BY DEF CompleteAgain, pairingVars
<1>3. /\ \A q \in Requests : pending'[q] \in {pending[q], None} /\ completed'[q] \in {completed[q], None}
      /\ pending'[r] = None
  BY <1>1 DEF CompleteAgain, Unexpired
<1>4. CASE Unexpired(completed)[r] = None
  <2>1. shown' = shown BY <1>4 DEF CompleteAgain
  <2> QED BY <1>1, <1>2, <1>3, <2>1 DEF ApprovalInv, OpenIsUnused, PairingOnce, ShownIsRemembered, SameRedirect
<1>5. CASE Unexpired(completed)[r] # None
  <2>1. shown' = shown \cup {[request |-> r, family |-> completed[r].family]} BY <1>5 DEF CompleteAgain
  <2>2. completed[r] # None BY <1>1, <1>5 DEF Unexpired
  <2>3. SameRedirect' BY <2>1, <2>2 DEF ApprovalInv, ShownIsRemembered, SameRedirect
  <2>4. ShownIsRemembered' BY <1>1, <1>3, <2>1, <2>2 DEF ApprovalInv, ShownIsRemembered
  <2> QED BY <1>2, <2>3, <2>4 DEF ApprovalInv, OpenIsUnused, PairingOnce
<1> QED BY <1>4, <1>5

LEMMA ApprovalRefused ==
  ASSUME ApprovalInv, NEW r \in started, NEW guess, NEW ip, CompleteRefused(r, guess, ip), UNCHANGED started
  PROVE  ApprovalInv'
<1>1. started \subseteq Requests BY DEF ApprovalInv, ShownIsRemembered
<1>2. UNCHANGED <<approvals, shown, created>> BY DEF CompleteRefused, Pairing!Verify
<1>3. \A q \in Requests : pending'[q] \in {pending[q], None} /\ completed'[q] \in {completed[q], None}
  BY DEF CompleteRefused, Unexpired
<1>4. session' # None => session # None /\ session'.id = session.id /\ DOMAIN session' = DOMAIN session
  <2>1. CASE Pairing!Wrong(guess)
    <3>1. session # None /\ session' \in {None, [session EXCEPT !.left = session.left - 1]} BY <2>1 DEF Pairing!Wrong
    <3> QED BY <3>1 DEF ApprovalInv, OpenIsUnused
  <2>2. CASE session' \in {session, None} BY <2>2
  <2> QED BY <2>1, <2>2 DEF CompleteRefused, Pairing!Verify, Pairing!Accept, Pairing!Expire
<1>5. OpenIsUnused' BY <1>2, <1>4 DEF ApprovalInv, OpenIsUnused
<1> QED BY <1>1, <1>2, <1>3, <1>5 DEF ApprovalInv, PairingOnce, ShownIsRemembered, SameRedirect

LEMMA ApprovalAccepted ==
  ASSUME ApprovalInv, NEW r \in started, NEW guess, NEW ip, CompleteAccepted(r, guess, ip), UNCHANGED started
  PROVE  ApprovalInv'
<1>1. r \in Requests /\ started \subseteq Requests BY DEF ApprovalInv, ShownIsRemembered
<1>2. /\ session # None /\ guess = session.id /\ session' = None /\ UNCHANGED created
  <2>1. Pairing!Verifies(guess, ip) /\ Pairing!Verify(guess, ip) BY DEF CompleteAccepted
  <2>2. Pairing!Accept(guess)
    BY <2>1 DEF Pairing!Verifies, Pairing!Verify, Pairing!Wrong, Pairing!Expire
  <2> QED BY <2>1, <2>2 DEF Pairing!Accept, Pairing!Verify
<1>3. Unexpired(pending)[r] # None /\ pending[r] # None BY <1>1 DEF CompleteAccepted, Unexpired
<1>4. \A p \in shown : p.request # r BY <1>3 DEF ApprovalInv, ShownIsRemembered
<1>5. \A p \in approvals : p.session # guess BY <1>2 DEF ApprovalInv, OpenIsUnused
<1>6. PICK f \in Fresh(Families, drawn) :
        IF f \in drawn'
        THEN /\ pending' = [Unexpired(pending) EXCEPT ![r] = None]
             /\ Redirects(r, f)
             /\ approvals' = approvals \cup {[request |-> r, session |-> guess, family |-> f]}
        ELSE /\ pending' = Unexpired(pending) /\ completed' = Unexpired(completed)
             /\ UNCHANGED <<shown, approvals>>
  BY DEF CompleteAccepted
<1>7. CASE f \in drawn'
  <2>1. /\ shown' = shown \cup {[request |-> r, family |-> f]}
        /\ completed' = [Unexpired(completed) EXCEPT ![r] = [family |-> f, expires |-> now + CompletedTTL]]
        /\ pending' = [Unexpired(pending) EXCEPT ![r] = None]
        /\ approvals' = approvals \cup {[request |-> r, session |-> guess, family |-> f]}
    BY <1>6, <1>7 DEF Redirects
  <2>2. OpenIsUnused' BY <1>2, <2>1 DEF ApprovalInv, OpenIsUnused
  <2>3. PairingOnce' BY <1>5, <2>1 DEF ApprovalInv, PairingOnce
  <2>4. SameRedirect' BY <1>4, <2>1 DEF ApprovalInv, SameRedirect
  <2>5. /\ \A q \in Requests : q # r => pending'[q] \in {pending[q], None} /\ completed'[q] \in {completed[q], None}
        /\ pending'[r] = None /\ completed'[r].family = f
    BY <1>1, <2>1 DEF Unexpired
  <2>6. ShownIsRemembered' BY <1>1, <1>4, <2>1, <2>5 DEF ApprovalInv, ShownIsRemembered
  <2> QED BY <2>2, <2>3, <2>4, <2>6 DEF ApprovalInv
<1>8. CASE f \notin drawn'
  <2>1. UNCHANGED <<shown, approvals>> /\ pending' = Unexpired(pending) /\ completed' = Unexpired(completed)
    BY <1>6, <1>8
  <2>2. \A q \in Requests : pending'[q] \in {pending[q], None} /\ completed'[q] \in {completed[q], None}
    BY <2>1 DEF Unexpired
  <2> QED BY <1>1, <1>2, <2>1, <2>2 DEF ApprovalInv, OpenIsUnused, PairingOnce, ShownIsRemembered, SameRedirect
<1> QED BY <1>7, <1>8

LEMMA ApprovalNext == ApprovalInv /\ [Next]_vars => ApprovalInv'
<1> SUFFICES ASSUME ApprovalInv, [Next]_vars PROVE ApprovalInv'
  OBVIOUS
<1>1. ASSUME NEW r \in started, NEW guess \in created \cup {None}, NEW ip \in IPs \cup {None}, AuthorizeComplete(r, guess, ip)
      PROVE  ApprovalInv'
  BY <1>1, ApprovalAgain, ApprovalRefused, ApprovalAccepted DEF AuthorizeComplete
<1>2. CASE Browser BY <1>1, <1>2, ApprovalStart DEF Browser
<1>3. CASE Connector
  <2>1. UNCHANGED <<session, created, approvals, shown, started, pending, completed>>
    BY <1>3 DEF Connector, RegisterClient, TokenStart, Authenticate, TokenFinish, Revoke, pairingVars, serverVars
  <2> QED BY <2>1, ApprovalKept
<1>4. CASE CreatePairing
  <2>1. PICK s \in Fresh(Sessions, created) : Pairing!Create(s) BY <1>4 DEF CreatePairing
  <2>2. s \notin created BY <2>1, FreshUnused
  <2>3. UNCHANGED <<approvals, shown, started, pending, completed>> BY <1>4 DEF CreatePairing, serverVars
  <2>4. session'.id = s /\ "id" \in DOMAIN session' /\ created' = created \cup {s} BY <2>1 DEF Pairing!Create
  <2> QED BY <2>2, <2>3, <2>4 DEF ApprovalInv, OpenIsUnused, PairingOnce, ShownIsRemembered, SameRedirect
<1>5. CASE Operator /\ ~CreatePairing
  <2>1. /\ session' \in {session, None}
        /\ UNCHANGED <<created, approvals, shown, started, pending, completed>>
    BY <1>5 DEF Operator, AbandonSetup, ReadStatus, RevokeAll, InvalidatePairing, UnpairOffline,
                Pairing!Invalidate, Pairing!ReadStatus, Pairing!Expire, pairingVars, serverVars
  <2> QED BY <2>1, ApprovalKept
<1>6. CASE NewServer \/ Tick \/ UNCHANGED vars
  <2>1. UNCHANGED <<session, created, approvals, shown, started, pending, completed>>
    BY <1>6 DEF NewServer, Tick, vars, pairingVars, serverVars
  <2> QED BY <2>1, ApprovalKept
<1>7. CASE Crash
  <2>1. /\ session' = None /\ UNCHANGED <<created, approvals, shown, started>>
        /\ pending' = [r \in Requests |-> None] /\ completed' = [r \in Requests |-> None]
    BY <1>7 DEF Crash, Pairing!Forget
  <2> QED BY <2>1, ApprovalKept
<1> QED BY <1>2, <1>3, <1>4, <1>5, <1>6, <1>7 DEF Next

LEMMA ApprovalsHold == Spec => []ApprovalInv
  BY ApprovalInit, ApprovalNext, PTL DEF Spec

\* One pairing code approves one authorization at most (Verify under the lock of
\* authorizeComplete): the session that is open has approved nothing, and is used up
\* by the step that approves.
THEOREM PairingIsOnce == Spec => []PairingOnce
<1>1. ApprovalInv => PairingOnce BY DEF ApprovalInv
<1> QED BY <1>1, ApprovalsHold, PTL

\* A form that is submitted again leads to the code it led to, or to an error
\* (authorizeComplete): a pending request was shown nothing, and what was shown is
\* what is remembered.
THEOREM RedirectIsSame == Spec => []SameRedirect
<1>1. ApprovalInv => SameRedirect BY DEF ApprovalInv
<1> QED BY <1>1, ApprovalsHold, PTL

-----------------------------------------------------------------------------
(* Clients of tokens. *)

TokensOfClients ==
  /\ \A t \in tokens : t.client \in clients
  /\ \A t \in disk.tokens : t.client \in disk.clients
  /\ IF up THEN clients = disk.clients ELSE tokens = {}

\* A token request that is under way for a code that is live: the code is for
\* another client, or it keeps this one.
CallsOfClients ==
  /\ DOMAIN calls = Handlers
  /\ ~up => \A h \in Handlers : calls[h] = None
  /\ \A h \in Handlers : calls[h] # None /\ calls[h].grant = "code" =>
       /\ calls[h].of \in Families \cap drawn
       /\ codes[calls[h].of] # None /\ codes[calls[h].of].client = calls[h].client => calls[h].client \in clients

ClientInv == TokensOfClients /\ CallsOfClients

LEMMA ClientInit == Init => ClientInv
  BY DEF Init, Store!Init, ClientInv, TokensOfClients, CallsOfClients

\* A step of a bridge that runs, in which no client goes, and no token or drawn
\* code comes but for clients that are there.
LEMMA ClientsKept ==
  ASSUME ClientInv, up, UNCHANGED <<up, clients>>, drawn \subseteq drawn',
         \A t \in tokens' : t.client \in clients,
         disk' = disk \/ (disk'.clients = clients /\ \A t \in disk'.tokens : t.client \in clients),
         \A f \in Families \cap drawn : codes'[f] \in {codes[f], None},
         calls' = calls \/ \E h \in Handlers : calls' = [calls EXCEPT ![h] = None]
  PROVE  ClientInv'
<1>1. TokensOfClients' BY DEF ClientInv, TokensOfClients
<1>2. DOMAIN calls' = Handlers /\ \A h \in Handlers : calls'[h] \in {calls[h], None} BY DEF ClientInv, CallsOfClients
<1>3. CallsOfClients' BY <1>2 DEF ClientInv, CallsOfClients
<1> QED BY <1>1, <1>3 DEF ClientInv

LEMMA LiveCodesFewer == \A f \in Families : Store!LiveCodes[f] \in {codes[f], None}
  BY DEF Store!LiveCodes

LEMMA NewTokensClient ==
  ASSUME NEW f, NEW gen, NEW c, NEW a, NEW refresh
  PROVE  \A t \in Store!NewTokens(f, gen, c, a, refresh) : t.client = c
  BY DEF Store!NewTokens

LEMMA IssueClients ==
  ASSUME ClientInv, up, NEW new, NEW ts \in SUBSET tokens, NEW tbs, Store!Issue(new, ts, tbs),
         \A t \in new : t.client \in clients
  PROVE  /\ \A t \in tokens' : t.client \in clients
         /\ disk'.clients = clients /\ \A t \in disk'.tokens : t.client \in clients
<1>1. Store!Live(ts) \subseteq tokens /\ Store!Live(ts \cup new) \subseteq tokens \cup new BY DEF Store!Live
<1>2. tokens' = Store!Live(ts) \cup new BY DEF Store!Issue
<1>3. disk'.clients = clients /\ disk'.tokens = Store!Live(ts \cup new) BY DEF Store!Issue, Store!Write
<1> QED BY <1>1, <1>2, <1>3 DEF ClientInv, TokensOfClients

LEMMA RefusedClients ==
  ASSUME ClientInv, Store!Refused PROVE (\A t \in tokens' : t.client \in clients) /\ disk' = disk
  BY DEF Store!Refused, Store!Live, ClientInv, TokensOfClients

LEMMA DropClients ==
  ASSUME ClientInv, NEW ts \in SUBSET tokens, NEW tbs, NEW fs, NEW io, Store!Drop(ts, tbs, fs, io)
  PROVE  /\ \A t \in tokens' : t.client \in clients
         /\ disk' = disk \/ (disk'.clients = clients /\ \A t \in disk'.tokens : t.client \in clients)
<1>1. Store!Live(ts) \subseteq tokens BY DEF Store!Live
<1>2. tokens' = Store!Live(ts) BY DEF Store!Drop
<1>3. disk' = disk \/ (disk'.clients = clients /\ disk'.tokens = Store!Live(ts)) BY DEF Store!Drop, Store!Write
<1> QED BY <1>1, <1>2, <1>3 DEF ClientInv, TokensOfClients

LEMMA RoomFacts ==
  ASSUME NEW kept, Store!Room(kept) PROVE kept = clients \/ \E d \in Store!Idle : kept = clients \ {d}
  BY DEF Store!Room

LEMMA ClientRegisters ==
  ASSUME ClientInv, NEW c, NEW io, RegisterClient(c, io) PROVE ClientInv'
<1>1. PICK kept \in SUBSET clients :
        /\ Store!Room(kept)
        /\ \/ clients' = kept \cup {c} /\ Store!Write(clients', tokens, tombs) /\ drawn' = drawn \cup {c}
           \/ UNCHANGED <<clients, disk, drawn>>
  BY Zenon DEF RegisterClient, Store!RegisterClient
<1>2. /\ up /\ up' = up /\ codes' = Store!LiveCodes /\ tokens' = Store!Live(tokens)
      /\ calls' = calls /\ drawn \subseteq drawn'
  BY <1>1 DEF RegisterClient, Store!RegisterClient, serverVars
<1>3. tokens' \subseteq tokens BY <1>2 DEF Store!Live
<1>4. CASE UNCHANGED <<clients, disk, drawn>>
  BY <1>2, <1>3, <1>4, LiveCodesFewer, ClientsKept DEF ClientInv, TokensOfClients
<1>5. CASE clients' = kept \cup {c} /\ Store!Write(clients', tokens, tombs)
  <2>1. /\ \A t \in tokens' : t.client \in clients'
        /\ \A f \in Families : Store!LiveCodes[f] # None /\ Store!LiveCodes[f].client \in clients => Store!LiveCodes[f].client \in clients'
    <3>1. kept = clients \/ \E d \in Store!Idle : kept = clients \ {d} BY <1>1, RoomFacts
    <3>2. CASE kept = clients BY <1>3, <1>5, <3>2 DEF ClientInv, TokensOfClients
    <3>3. ASSUME NEW d \in Store!Idle, kept = clients \ {d}
          PROVE  /\ \A t \in tokens' : t.client \in clients'
                 /\ \A f \in Families : Store!LiveCodes[f] # None /\ Store!LiveCodes[f].client \in clients => Store!LiveCodes[f].client \in clients'
      <4>1. \A t \in tokens' : t.client # d BY <1>2 DEF Store!Idle
      <4>2. \A f \in Families : Store!LiveCodes[f] # None => Store!LiveCodes[f].client # d
        BY DEF Store!Idle, Store!Pending
      <4> QED BY <1>3, <1>5, <3>3, <4>1, <4>2 DEF ClientInv, TokensOfClients
    <3> QED BY <3>1, <3>2, <3>3
  <2>2. disk'.clients = clients' /\ disk'.tokens = tokens' BY <1>2, <1>5 DEF Store!Write
  <2>3. TokensOfClients' BY <1>2, <2>1, <2>2 DEF TokensOfClients
  <2>4. CallsOfClients' BY <1>2, <2>1, LiveCodesFewer DEF ClientInv, CallsOfClients
  <2> QED BY <2>3, <2>4 DEF ClientInv
<1> QED BY <1>1, <1>4, <1>5

LEMMA ClientFinishes ==
  ASSUME ClientInv, NEW h \in Handlers, NEW matches, NEW io, TokenFinish(h, matches, io) PROVE ClientInv'
<1>1. calls[h] # None /\ calls' = [calls EXCEPT ![h] = None] BY DEF TokenFinish
<1>2. CASE calls[h].grant = "code"
  <2> DEFINE f == calls[h].of
  <2>1. f \in Families \cap drawn BY <1>1, <1>2 DEF ClientInv, CallsOfClients
  <2>2. Store!ExchangeAuthorizationCode(f, calls[h].client, matches, io) BY <1>2 DEF TokenFinish
  <2>3. /\ up /\ UNCHANGED <<up, clients, drawn>> /\ codes' = [Store!LiveCodes EXCEPT ![f] = None]
    BY <2>2 DEF Store!ExchangeAuthorizationCode
  <2>4. \A g \in Families : codes'[g] \in {codes[g], None}
    <3>1. \A g \in Families : codes'[g] \in {Store!LiveCodes[g], None} BY <2>3 DEF Store!LiveCodes
    <3> QED BY <3>1, LiveCodesFewer
  <2>5. CASE Store!Refused BY <1>1, <2>3, <2>4, <2>5, RefusedClients, ClientsKept
  <2>6. CASE Store!Exchangeable(f, calls[h].client, matches) /\ Store!Issue(Store!FirstTokens(f), tokens, tombs)
    <3>1. codes[f] # None /\ codes[f].client = calls[h].client /\ Store!LiveCodes[f] = codes[f]
      BY <2>1, <2>6, LiveCodesFewer DEF Store!Exchangeable
    <3>2. codes[f].client \in clients BY <1>1, <1>2, <3>1 DEF ClientInv, CallsOfClients
    <3>3. \A t \in Store!FirstTokens(f) : t.client \in clients BY <3>1, <3>2, NewTokensClient DEF Store!FirstTokens
    <3> HIDE DEF f
    <3>4. /\ \A t \in tokens' : t.client \in clients
          /\ disk'.clients = clients /\ \A t \in disk'.tokens : t.client \in clients
      BY <2>3, <2>6, <3>3, IssueClients
    <3> QED BY <1>1, <2>3, <2>4, <3>4, ClientsKept
  <2> QED BY <2>2, <2>5, <2>6 DEF Store!ExchangeAuthorizationCode
<1>3. CASE calls[h].grant # "code"
  <2> DEFINE t == calls[h].of
  <2>1. Store!Refresh(t, calls[h].client, matches, io) BY <1>3 DEF TokenFinish
  <2>2. /\ up /\ UNCHANGED <<up, clients, drawn>> /\ codes' = Store!LiveCodes BY <2>1 DEF Store!Refresh
  <2>3. CASE Store!Refused BY <1>1, <2>2, <2>3, RefusedClients, LiveCodesFewer, ClientsKept
  <2>4. CASE Store!Drop(tokens \ Store!OfFamily(tokens, t.family), tombs, {t.family}, io)
    BY <1>1, <2>2, <2>4, DropClients, LiveCodesFewer, ClientsKept
  <2>5. CASE Store!Refreshable(t, calls[h].client, matches) /\ Store!Rotate(t)
    <3>1. t \in tokens BY <2>5 DEF Store!Refreshable, Store!Live
    <3>2. \A u \in Store!NextTokens(t) : u.client \in clients
      BY <3>1, NewTokensClient DEF Store!NextTokens, ClientInv, TokensOfClients
    <3>3. Store!Issue(Store!NextTokens(t), tokens \ {t}, tombs \cup {Store!TombOf(t)}) BY <2>5 DEF Store!Rotate
    <3> HIDE DEF t
    <3>4. /\ \A u \in tokens' : u.client \in clients
          /\ disk'.clients = clients /\ \A u \in disk'.tokens : u.client \in clients
      BY <2>2, <3>2, <3>3, IssueClients
    <3> QED BY <1>1, <2>2, <3>4, LiveCodesFewer, ClientsKept
  <2> QED BY <2>1, <2>3, <2>4, <2>5 DEF Store!Refresh
<1> QED BY <1>2, <1>3

LEMMA ClientStarts ==
  ASSUME ClientInv, NEW h \in Handlers, TokenStart(h) PROVE ClientInv'
<1>1. PICK c \in Clients :
        \/ \E f \in Families \cap drawn : Authenticate(h, [grant |-> "code", of |-> f, client |-> c])
        \/ \E t \in told : Authenticate(h, [grant |-> "refresh", of |-> t, client |-> c])
  BY DEF TokenStart
<1>2. PICK call : /\ Authenticate(h, call) /\ (call.grant = "code" => call.of \in Families \cap drawn)
  <2>1. CASE \E f \in Families \cap drawn : Authenticate(h, [grant |-> "code", of |-> f, client |-> c]) BY <2>1
  <2>2. CASE \E t \in told : Authenticate(h, [grant |-> "refresh", of |-> t, client |-> c])
    <3>1. PICK t \in told : Authenticate(h, [grant |-> "refresh", of |-> t, client |-> c]) BY <2>2
    <3>2. [grant |-> "refresh", of |-> t, client |-> c].grant # "code" OBVIOUS
    <3> QED BY <3>1, <3>2
  <2> QED BY <1>1, <2>1, <2>2
<1>3. /\ up /\ call.client \in clients /\ calls' = [calls EXCEPT ![h] = call] /\ UNCHANGED storeVars
  BY <1>2 DEF Authenticate
<1>4. CallsOfClients' BY <1>2, <1>3 DEF ClientInv, CallsOfClients, storeVars
<1> QED BY <1>3, <1>4 DEF ClientInv, TokensOfClients, storeVars

LEMMA ClientCompletes ==
  ASSUME ClientInv, NEW r, NEW guess, NEW ip, AuthorizeComplete(r, guess, ip) PROVE ClientInv'
<1>1. up /\ calls' = calls BY DEF AuthorizeComplete
<1>2. CASE UNCHANGED storeVars BY <1>1, <1>2 DEF storeVars, ClientInv, TokensOfClients, CallsOfClients
<1>3. ASSUME NEW f \in Fresh(Families, drawn), NEW c, NEW a, NEW refresh,
             Store!CreateAuthorizationCode(f, c, a, refresh)
      PROVE  ClientInv'
  <2>1. f \notin drawn BY <1>3, FreshUnused
  <2>2. /\ UNCHANGED <<up, clients, disk>> /\ drawn \subseteq drawn' /\ tokens' \subseteq tokens
    BY <1>3 DEF Store!CreateAuthorizationCode, Store!Live
  <2>3. codes' = Store!LiveCodes \/ \E code : codes' = [Store!LiveCodes EXCEPT ![f] = code]
    BY <1>3 DEF Store!CreateAuthorizationCode
  <2>4. \A g \in Families \cap drawn : codes'[g] = Store!LiveCodes[g] BY <2>1, <2>3 DEF Store!LiveCodes
  <2>5. \A t \in tokens' : t.client \in clients BY <2>2 DEF ClientInv, TokensOfClients
  <2> QED BY <1>1, <2>2, <2>4, <2>5, LiveCodesFewer, ClientsKept
<1> QED BY <1>2, <1>3 DEF AuthorizeComplete, CompleteAgain, CompleteRefused, CompleteAccepted

LEMMA ClientNext == ClientInv /\ [Next]_vars => ClientInv'
<1> SUFFICES ASSUME ClientInv, [Next]_vars PROVE ClientInv'
  OBVIOUS
<1>1. CASE UNCHANGED <<storeVars, calls>> BY <1>1 DEF storeVars, ClientInv, TokensOfClients, CallsOfClients
<1>2. CASE Browser
  <2>1. ASSUME NEW r, NEW c, NEW a, NEW refresh, AuthorizeStart(r, c, a, refresh) PROVE ClientInv'
    BY <1>1, <2>1 DEF AuthorizeStart
  <2> QED BY <1>2, <2>1, ClientCompletes DEF Browser
<1>3. ASSUME NEW t, NEW io, Revoke(t, io) PROVE ClientInv'
  <2>1. /\ up /\ UNCHANGED <<up, clients, drawn>> /\ codes' = Store!LiveCodes
        /\ \E ts \in SUBSET tokens : \E fs : Store!Drop(ts, tombs, fs, io)
    BY <1>3 DEF Revoke, Store!Revoke
  <2>2. calls' = calls BY <1>3 DEF Revoke, serverVars
  <2> QED BY <2>1, <2>2, DropClients, LiveCodesFewer, ClientsKept
<1>4. CASE Connector
  BY <1>3, <1>4, ClientRegisters, ClientStarts, ClientFinishes DEF Connector
<1>5. ASSUME NEW io, RevokeAll(io) PROVE ClientInv'
  <2>1. /\ up /\ UNCHANGED <<up, clients, drawn, calls>> /\ codes' = [f \in Families |-> None]
        /\ \E ts \in SUBSET tokens : \E tbs, fs : Store!Drop(ts, tbs, fs, io)
    BY <1>5 DEF RevokeAll, Store!RevokeAll
  <2>2. \A f \in Families \cap drawn : codes'[f] = None BY <2>1
  <2> QED BY <2>1, <2>2, DropClients, ClientsKept
<1>6. ASSUME NEW io, UnpairOffline(io) PROVE ClientInv'
  <2>1. /\ ~up /\ UNCHANGED <<up, clients, tokens, codes, drawn, calls>>
        /\ disk' = disk \/ disk'.tokens = {}
    BY <1>6 DEF UnpairOffline, Store!RevokeAllOffline, Store!memory
  <2> QED BY <2>1 DEF ClientInv, TokensOfClients, CallsOfClients
<1>7. CASE Operator
  BY <1>1, <1>5, <1>6, <1>7 DEF Operator, CreatePairing, AbandonSetup, ReadStatus, InvalidatePairing, serverVars
<1>8. CASE NewServer
  <2>1. /\ ~up /\ up' /\ clients' = disk.clients /\ tokens' = Store!Live(disk.tokens) /\ UNCHANGED <<codes, disk, drawn, calls>>
    BY <1>8 DEF NewServer, Store!NewStore, Store!history, serverVars
  <2>2. tokens' \subseteq disk.tokens BY <2>1 DEF Store!Live
  <2>3. \A h \in Handlers : calls[h] = None BY <2>1 DEF ClientInv, CallsOfClients
  <2> QED BY <2>1, <2>2, <2>3 DEF ClientInv, TokensOfClients, CallsOfClients
<1>9. CASE Crash
  <2>1. /\ ~up' /\ tokens' = {} /\ UNCHANGED <<disk, drawn>> /\ calls' = [h \in Handlers |-> None]
    BY <1>9 DEF Crash, Store!Crash, Store!history
  <2> QED BY <2>1 DEF ClientInv, TokensOfClients, CallsOfClients
<1>10. CASE Tick
  <2>1. UNCHANGED <<up, clients, codes, tokens, disk, drawn, calls>>
    BY <1>10 DEF Tick, Store!Tick, Store!memory, Store!history, serverVars
  <2> QED BY <2>1 DEF ClientInv, TokensOfClients, CallsOfClients
<1> QED BY <1>1, <1>2, <1>4, <1>7, <1>8, <1>9, <1>10 DEF Next, vars, serverVars

\* A client that has a live token stays registered, although room is made for others
\* between the two steps of a token request (makeClientRoomLocked): a code that
\* can still be exchanged keeps the client it is for.
THEOREM TokensAlwaysHaveClients == Spec => []TokensHaveClients
<1>1. ClientInv => TokensHaveClients BY DEF ClientInv, TokensOfClients, TokensHaveClients, Store!Live
<1> QED BY <1>1, ClientInit, ClientNext, PTL DEF Spec

-----------------------------------------------------------------------------
(* The cache of client metadata. *)

\* A fetch is no longer than the timeout of the client, and what it was served lies
\* in it; an entry outlives what was served by a fetch and the life of an entry.
FetchOK(f) ==
  f # Nothing =>
    /\ DOMAIN f = {"url", "began", "served"} /\ f.url \in Urls
    /\ f.began # Nothing => f.began \in Nat /\ f.began <= moment /\ moment <= f.began + FetchTimeout
    /\ f.served # Nothing => /\ f.began # Nothing /\ f.served \in Nat
                            /\ f.began <= f.served /\ f.served <= moment

EntryOK(e) ==
  e # Nothing =>
    /\ DOMAIN e = {"served", "expires", "used"}
    /\ e.served \in Nat /\ e.expires \in Nat
    /\ e.served <= moment /\ e.expires <= e.served + FetchTimeout + CacheTTL

MetadataInv ==
  /\ moment \in Nat
  /\ DOMAIN fetch = Resolvers /\ \A r \in Resolvers : FetchOK(fetch[r])
  /\ DOMAIN cache = Urls /\ \A u \in Urls : EntryOK(cache[u])
  /\ IsFiniteSet(Entries(cache))
  /\ ResolvedIsRecent

LEMMA MetadataInitHolds == MetadataInit => MetadataInv
<1> SUFFICES ASSUME MetadataInit PROVE MetadataInv
  OBVIOUS
<1>1. Entries(cache) = {} BY DEF MetadataInit, Entries
<1>2. IsFiniteSet(Entries(cache)) /\ Cardinality(Entries(cache)) = 0 BY <1>1, FS_EmptySet
<1> QED BY <1>2, MetadataAssumption DEF MetadataInit, MetadataInv, FetchOK, EntryOK, ResolvedIsRecent

\* Dropping what is over, and touching an entry, keep the table.
LEMMA LivingOK ==
  ASSUME MetadataInv
  PROVE  /\ DOMAIN LivingEntries(cache) = Urls
         /\ \A u \in Urls : LivingEntries(cache)[u] \in {cache[u], Nothing} /\ EntryOK(LivingEntries(cache)[u])
         /\ Entries(LivingEntries(cache)) \subseteq Entries(cache)
         /\ IsFiniteSet(Entries(LivingEntries(cache)))
         /\ Cardinality(Entries(LivingEntries(cache))) <= MaxEntries
<1>1. DOMAIN LivingEntries(cache) = Urls /\ \A u \in Urls : LivingEntries(cache)[u] \in {cache[u], Nothing}
  BY DEF LivingEntries
<1>2. Entries(LivingEntries(cache)) \subseteq Entries(cache) BY <1>1 DEF Entries
<1>3. IsFiniteSet(Entries(cache)) /\ Cardinality(Entries(cache)) <= MaxEntries BY DEF MetadataInv, ResolvedIsRecent
<1>4. /\ IsFiniteSet(Entries(LivingEntries(cache)))
      /\ Cardinality(Entries(LivingEntries(cache))) <= Cardinality(Entries(cache))
  BY <1>2, <1>3, FS_Subset
<1>5. Cardinality(Entries(LivingEntries(cache))) \in Nat /\ Cardinality(Entries(cache)) \in Nat
  BY <1>3, <1>4, FS_CardinalityType
<1>6. \A u \in Urls : EntryOK(LivingEntries(cache)[u]) BY <1>1 DEF MetadataInv, EntryOK
<1> QED BY <1>1, <1>2, <1>3, <1>4, <1>5, <1>6, MetadataAssumption

LEMMA MetadataHit ==
  ASSUME MetadataInv, NEW r \in Resolvers, NEW u \in Urls, ResolveStart(r, u) PROVE MetadataInv'
<1> DEFINE living == LivingEntries(cache)
<1>1. moment' = moment BY DEF ResolveStart
<1>2. CASE living[u] # Nothing
  <2>1. living[u] = cache[u] /\ cache[u] # Nothing /\ moment < cache[u].expires
    BY <1>2 DEF LivingEntries, EntryOver, MetadataInv, EntryOK
  <2>2. /\ cache' = [living EXCEPT ![u] = [living[u] EXCEPT !.used = moment]] /\ UNCHANGED fetch
        /\ resolved' = [url |-> u, served |-> cache[u].served, at |-> moment]
    BY <1>2 DEF ResolveStart, Touch
  <2>3. EntryOK(cache[u]) BY DEF MetadataInv
  <2>4. /\ cache'[u].served = cache[u].served /\ cache'[u].expires = cache[u].expires
        /\ DOMAIN cache'[u] = {"served", "expires", "used"}
        /\ DOMAIN cache' = Urls /\ \A v \in Urls : v # u => cache'[v] = living[v]
    BY <2>1, <2>2, <2>3, LivingOK DEF EntryOK
  <2>5. Entries(cache') \subseteq Entries(living)
    BY <1>2, <2>4 DEF Entries
  <2>6. IsFiniteSet(Entries(cache')) /\ Cardinality(Entries(cache')) <= MaxEntries
    <3>1. IsFiniteSet(Entries(living)) /\ Cardinality(Entries(living)) <= MaxEntries BY LivingOK
    <3>2. IsFiniteSet(Entries(cache')) /\ Cardinality(Entries(cache')) <= Cardinality(Entries(living))
      BY <2>5, <3>1, FS_Subset
    <3>3. Cardinality(Entries(living)) \in Nat /\ Cardinality(Entries(cache')) \in Nat BY <3>1, <3>2, FS_CardinalityType
    <3> QED BY <3>1, <3>2, <3>3, MetadataAssumption
  <2>7. resolved'.at - resolved'.served < CacheTTL + FetchTimeout
    BY <2>1, <2>2, <2>3, MetadataAssumption DEF EntryOK, MetadataInv
  <2>8. \A v \in Urls : EntryOK(cache[v])' BY <1>1, <2>1, <2>3, <2>4, LivingOK DEF EntryOK
  <2> QED BY <1>1, <2>2, <2>4, <2>6, <2>7, <2>8 DEF MetadataInv, ResolvedIsRecent, FetchOK
<1>3. CASE living[u] = Nothing
  <2>1. /\ cache' = living /\ UNCHANGED resolved
        /\ fetch' = [fetch EXCEPT ![r] = [url |-> u, began |-> Nothing, served |-> Nothing]]
    BY <1>3 DEF ResolveStart
  <2>2. \A v \in Urls : EntryOK(cache[v])' BY <1>1, <2>1, LivingOK DEF EntryOK
  <2>3. \A q \in Resolvers : FetchOK(fetch[q])' BY <1>1, <2>1 DEF MetadataInv, FetchOK
  <2>4. DOMAIN fetch' = Resolvers /\ moment' \in Nat BY <1>1, <2>1 DEF MetadataInv
  <2> QED BY <1>1, <2>1, <2>2, <2>3, <2>4, LivingOK DEF MetadataInv, ResolvedIsRecent
<1> QED BY <1>2, <1>3

\* The entry that makes room, if one does.
LEMMA EvictedOK ==
  ASSUME MetadataInv, NEW c \in Evicted(LivingEntries(cache))
  PROVE  /\ DOMAIN c = Urls /\ \A u \in Urls : EntryOK(c[u])
         /\ IsFiniteSet(Entries(c)) /\ Cardinality(Entries(c)) <= MaxEntries - 1
<1> DEFINE living == LivingEntries(cache)
<1>1. /\ DOMAIN living = Urls /\ \A u \in Urls : EntryOK(living[u])
      /\ IsFiniteSet(Entries(living)) /\ Cardinality(Entries(living)) <= MaxEntries
      /\ Cardinality(Entries(living)) \in Nat
  BY LivingOK, FS_CardinalityType
<1> HIDE DEF living
<1>2. CASE Cardinality(Entries(living)) < MaxEntries
  <2>1. c = living BY <1>2 DEF Evicted, living
  <2> QED BY <1>1, <1>2, <2>1, MetadataAssumption
<1>3. CASE ~(Cardinality(Entries(living)) < MaxEntries)
  <2>1. PICK u \in Victims(living) : c = [living EXCEPT ![u] = Nothing] BY <1>3 DEF Evicted, living
  <2>2. u \in Entries(living) BY <2>1 DEF Victims
  <2>3. /\ DOMAIN c = Urls /\ \A v \in Urls : c[v] \in {living[v], Nothing} /\ EntryOK(c[v])
    BY <1>1, <2>1 DEF EntryOK
  <2>4. Entries(c) = Entries(living) \ {u} BY <1>1, <2>1, <2>2 DEF Entries
  <2>5. IsFiniteSet(Entries(c)) /\ Cardinality(Entries(c)) = Cardinality(Entries(living)) - 1
    BY <1>1, <2>2, <2>4, FS_RemoveElement
  <2> QED BY <1>1, <2>3, <2>5, MetadataAssumption
<1> QED BY <1>2, <1>3

LEMMA MetadataEnd ==
  ASSUME MetadataInv, NEW r \in Resolvers, ResolveEnd(r) PROVE MetadataInv'
<1> DEFINE f == fetch[r]
           entry == [served |-> f.served, expires |-> moment + CacheTTL, used |-> moment]
<1>1. /\ f # Nothing /\ f.served # Nothing /\ moment' = moment /\ fetch' = [fetch EXCEPT ![r] = Nothing]
      /\ resolved' = [url |-> f.url, served |-> f.served, at |-> moment]
  BY DEF ResolveEnd
<1>2. /\ f.url \in Urls /\ f.served \in Nat /\ f.served <= moment /\ moment \in Nat
      /\ moment <= f.served + FetchTimeout
  BY <1>1, MetadataAssumption DEF MetadataInv, FetchOK
<1>3. PICK c \in Evicted(LivingEntries(cache)) : cache' = [c EXCEPT ![f.url] = entry]
  BY DEF ResolveEnd
<1> HIDE DEF f
<1>4. \A u \in Urls : EntryOK(cache[u])'
  <2>1. /\ DOMAIN entry = {"served", "expires", "used"} /\ entry.served \in Nat /\ entry.expires \in Nat
        /\ entry.served <= moment /\ entry.expires <= entry.served + FetchTimeout + CacheTTL
    BY <1>2, MetadataAssumption
  <2> HIDE DEF entry
  <2>2. \A u \in Urls : cache'[u] = IF u = f.url THEN entry ELSE c[u] BY <1>3, EvictedOK
  <2>3. \A u \in Urls : EntryOK(c[u]) BY EvictedOK
  <2> QED BY <1>1, <2>1, <2>2, <2>3 DEF EntryOK
<1>5. Entries(cache)' \subseteq Entries(c) \cup {f.url} BY <1>2, <1>3, EvictedOK DEF Entries
<1>6. IsFiniteSet(Entries(cache)') /\ Cardinality(Entries(cache)') <= MaxEntries
  <2>1. IsFiniteSet(Entries(c)) /\ Cardinality(Entries(c)) <= MaxEntries - 1 /\ Cardinality(Entries(c)) \in Nat
    BY EvictedOK, FS_CardinalityType
  <2>2. /\ IsFiniteSet(Entries(c) \cup {f.url})
        /\ Cardinality(Entries(c) \cup {f.url}) \in {Cardinality(Entries(c)), Cardinality(Entries(c)) + 1}
    BY <2>1, FS_AddElement
  <2>3. /\ IsFiniteSet(Entries(cache)') /\ Cardinality(Entries(cache)') \in Nat
        /\ Cardinality(Entries(cache)') <= Cardinality(Entries(c) \cup {f.url})
    BY <1>5, <2>2, FS_Subset, FS_CardinalityType
  <2> QED BY <2>1, <2>2, <2>3, MetadataAssumption
<1>7. (resolved # Nothing => resolved.at - resolved.served < CacheTTL + FetchTimeout)'
  BY <1>1, <1>2, MetadataAssumption
<1>8. DOMAIN cache' = Urls BY <1>3, EvictedOK
<1>9. DOMAIN fetch' = Resolvers /\ \A q \in Resolvers : FetchOK(fetch[q])' BY <1>1 DEF MetadataInv, FetchOK
<1> QED BY <1>1, <1>2, <1>4, <1>6, <1>7, <1>8, <1>9 DEF MetadataInv, ResolvedIsRecent, Entries

LEMMA MetadataNextHolds == MetadataInv /\ [MetadataNext]_metadataVars => MetadataInv'
<1> SUFFICES ASSUME MetadataInv, [MetadataNext]_metadataVars PROVE MetadataInv'
  OBVIOUS
<1>1. ASSUME UNCHANGED <<cache, moment, resolved>>, DOMAIN fetch' = Resolvers, \A r \in Resolvers : FetchOK(fetch[r])'
      PROVE  MetadataInv'
  BY <1>1 DEF MetadataInv, EntryOK, Entries, ResolvedIsRecent
<1>2. ASSUME NEW r \in Resolvers, Dial(r) PROVE MetadataInv'
  <2>1. \A q \in Resolvers : FetchOK(fetch[q])' BY <1>2, MetadataAssumption DEF Dial, MetadataInv, FetchOK
  <2> QED BY <1>1, <1>2, <2>1 DEF Dial, MetadataInv
<1>3. ASSUME NEW r \in Resolvers, NEW d \in Documents, ServeDocument(r, d) PROVE MetadataInv'
  <2>1. \A q \in Resolvers : FetchOK(fetch[q])' BY <1>3, MetadataAssumption DEF ServeDocument, MetadataInv, FetchOK
  <2> QED BY <1>1, <1>3, <2>1 DEF ServeDocument, MetadataInv
<1>4. ASSUME NEW r \in Resolvers, FetchFails(r) PROVE MetadataInv'
  <2>1. \A q \in Resolvers : FetchOK(fetch[q])' BY <1>4 DEF FetchFails, MetadataInv, FetchOK
  <2> QED BY <1>1, <1>4, <2>1 DEF FetchFails, MetadataInv
<1>5. CASE MetadataTick
  <2>1. moment' = moment + 1 /\ moment' \in Nat /\ UNCHANGED <<cache, fetch, resolved>> BY <1>5 DEF MetadataTick, MetadataInv
  <2>2. \A r \in Resolvers : FetchOK(fetch[r])'
    BY <1>5, <2>1, MetadataAssumption DEF MetadataTick, Dialled, MetadataInv, FetchOK
  <2>3. \A u \in Urls : EntryOK(cache[u])' BY <2>1, MetadataAssumption DEF MetadataInv, EntryOK
  <2> QED BY <2>1, <2>2, <2>3 DEF MetadataInv, Entries, ResolvedIsRecent
<1>6. CASE UNCHANGED metadataVars BY <1>1, <1>6 DEF metadataVars, MetadataInv, FetchOK
<1> QED BY <1>2, <1>3, <1>4, <1>5, <1>6, MetadataHit, MetadataEnd DEF MetadataNext

\* What a client is trusted on was served within the life of a cache entry and the
\* time a fetch may take, and the cache stays bounded, for any number of hosts and
\* overlapping calls (HTTPClientMetadataResolver.Resolve): an entry's end is set
\* once, from a fetch that is no older than its timeout.
THEOREM MetadataIsRecent == MetadataSpec => []ResolvedIsRecent
<1>1. MetadataInv => ResolvedIsRecent BY DEF MetadataInv
<1> QED BY <1>1, MetadataInitHolds, MetadataNextHolds, PTL DEF MetadataSpec

-----------------------------------------------------------------------------
(* Assertions. *)

\* A call has a keeping: the keys it fetched were served since it began, and the
\* key it goes on with was trusted when it began.
TokenCallOK(t) ==
  t # Missing =>
    /\ DOMAIN t = {"assertion", "began", "stage", "keys"}
    /\ t.assertion \in Assertions /\ t.began \in Nat /\ t.began <= today
    /\ t.stage = "fetched" =>
         t.keys \subseteq Keys /\ \A k \in t.keys : k \in published \/ withdrawn[k] >= t.began
    /\ t.stage = "check" =>
         /\ t.assertion.key \in Keys
         /\ t.assertion.key \in published \/ withdrawn[t.assertion.key] + KeyTTL > t.began

\* A key that is cached is served, or was withdrawn since the cached set was asked
\* for.
KnownOK ==
  /\ known \subseteq Keys /\ knownUntil \in Nat /\ knownUntil <= today + KeyTTL
  /\ \A k \in known : k \in published \/ withdrawn[k] + KeyTTL >= knownUntil

KeyInv ==
  /\ today \in Nat /\ published \in KeySets /\ withdrawn \in [Keys -> Nat]
  /\ DOMAIN token = TokenCalls /\ \A c \in TokenCalls : TokenCallOK(token[c])
  /\ KnownOK
  /\ KeysAreRecent

LEMMA KeyInitHolds == AssertionInit => KeyInv
  BY AssertionAssumption DEF AssertionInit, KeyInv, TokenCallOK, KnownOK, KeysAreRecent, Keys

\* A step of one call that leaves keys, cache and clock alone.
LEMMA KeyCallStep ==
  ASSUME KeyInv, UNCHANGED <<published, withdrawn, today>>, NEW c \in TokenCalls, NEW t,
         token' = [token EXCEPT ![c] = t], TokenCallOK(t), KnownOK', ~stale'
  PROVE  KeyInv'
<1>1. \A d \in TokenCalls : token'[d] = IF d = c THEN t ELSE token[d] BY DEF KeyInv
<1>2. \A d \in TokenCalls : TokenCallOK(token'[d]) BY <1>1 DEF KeyInv
<1>3. \A d \in TokenCalls : TokenCallOK(token[d])' BY <1>2 DEF TokenCallOK, Keys
<1> QED BY <1>3 DEF KeyInv, KeysAreRecent, Keys

LEMMA KeyStep == ASSUME KeyInv, AssertionNext PROVE KeyInv'
<1>1. ASSUME NEW c \in TokenCalls, NEW x \in Assertions, Verify(c, x) PROVE KeyInv'
  <2> DEFINE t == [assertion |-> x, began |-> today, stage |-> "key", keys |-> {}]
  <2>1. TokenCallOK(t) BY DEF TokenCallOK, KeyInv
  <2>2. KnownOK' /\ ~stale' BY <1>1 DEF Verify, KeyInv, KnownOK, KeysAreRecent, Keys
  <2> HIDE DEF t
  <2> QED BY <1>1, <2>1, <2>2, KeyCallStep DEF Verify, t
<1>2. ASSUME NEW c \in TokenCalls, End(c), UNCHANGED <<published, withdrawn, today, known, knownUntil, stale>> PROVE KeyInv'
  <2>1. KnownOK' /\ ~stale' BY <1>2 DEF KeyInv, KnownOK, KeysAreRecent, Keys
  <2> QED BY <1>2, <2>1, KeyCallStep DEF End, TokenCallOK
<1>3. ASSUME NEW c \in TokenCalls, KeyFromCache(c) PROVE KeyInv'
  <2>1. CASE End(c) BY <1>2, <1>3, <2>1 DEF KeyFromCache
  <2>2. CASE token[c].assertion.key \in known /\ Move(c, "check")
    <3> DEFINE t == [token[c] EXCEPT !.stage = "check"]
    <3>1. token[c] # Missing /\ TokenCallOK(token[c]) /\ token[c].began < knownUntil
      BY <1>3 DEF KeyFromCache, At, KeyInv
    <3>2. TokenCallOK(t)
      <4>1. token[c].assertion.key \in Keys BY <2>2 DEF KeyInv, KnownOK
      <4>2. withdrawn[token[c].assertion.key] \in Nat BY <4>1 DEF KeyInv
      <4>3. \/ token[c].assertion.key \in published
            \/ withdrawn[token[c].assertion.key] + KeyTTL > token[c].began
        BY <2>2, <3>1, <4>2, AssertionAssumption DEF KeyInv, KnownOK, TokenCallOK
      <4> QED BY <3>1, <4>1, <4>3 DEF TokenCallOK
    <3>3. KnownOK' /\ ~stale' BY <1>3 DEF KeyFromCache, KeyInv, KnownOK, KeysAreRecent, Keys
    <3>4. token' = [token EXCEPT ![c] = t] BY <2>2 DEF Move
    <3> HIDE DEF t
    <3> QED BY <1>3, <3>2, <3>3, <3>4, KeyCallStep DEF KeyFromCache
  <2> QED BY <1>3, <2>1, <2>2 DEF KeyFromCache
<1>4. ASSUME NEW c \in TokenCalls, KeyFetch(c) PROVE KeyInv'
  <2> DEFINE t == [token[c] EXCEPT !.stage = "fetched", !.keys = published]
  <2>1. token[c] # Missing /\ TokenCallOK(token[c]) BY <1>4 DEF KeyFetch, At, KeyInv
  <2>2. published \subseteq Keys BY DEF KeyInv, Keys
  <2>3. TokenCallOK(t) BY <2>1, <2>2 DEF TokenCallOK
  <2>4. KnownOK' /\ ~stale' BY <1>4 DEF KeyFetch, KeyInv, KnownOK, KeysAreRecent, Keys
  <2>5. token' = [token EXCEPT ![c] = t] BY <1>4 DEF KeyFetch
  <2> HIDE DEF t
  <2> QED BY <1>4, <2>3, <2>4, <2>5, KeyCallStep DEF KeyFetch
<1>5. ASSUME NEW c \in TokenCalls, KeyStore(c) PROVE KeyInv'
  <2>1. /\ token[c] # Missing /\ TokenCallOK(token[c]) /\ token[c].stage = "fetched"
        /\ UNCHANGED <<published, withdrawn, today, stale>>
        /\ known' = token[c].keys /\ knownUntil' = token[c].began + KeyTTL
    BY <1>5 DEF KeyStore, At, KeyInv
  <2>2. token[c].began \in Nat /\ token[c].began <= today /\ today \in Nat /\ KeyTTL \in Nat \ {0}
    BY <2>1, AssertionAssumption DEF TokenCallOK, KeyInv
  <2>3. \A k \in token[c].keys : k \in Keys /\ withdrawn[k] \in Nat /\ (k \in published \/ withdrawn[k] >= token[c].began)
    BY <2>1 DEF TokenCallOK, KeyInv
  <2>4. KnownOK' BY <2>1, <2>2, <2>3 DEF KnownOK, Keys
  <2>5. ~stale' BY <2>1 DEF KeyInv, KeysAreRecent
  <2>6. CASE End(c) BY <2>1, <2>4, <2>5, <2>6, KeyCallStep DEF End, TokenCallOK
  <2>7. CASE token[c].assertion.key \in token[c].keys /\ Move(c, "check")
    <3> DEFINE t == [token[c] EXCEPT !.stage = "check"]
    <3>1. \/ token[c].assertion.key \in published
          \/ withdrawn[token[c].assertion.key] + KeyTTL > token[c].began
      BY <2>2, <2>3, <2>7
    <3>2. TokenCallOK(t) BY <2>1, <2>3, <2>7, <3>1 DEF TokenCallOK
    <3>3. token' = [token EXCEPT ![c] = t] BY <2>7 DEF Move
    <3> HIDE DEF t
    <3> QED BY <2>1, <2>4, <2>5, <3>2, <3>3, KeyCallStep
  <2> QED BY <1>5, <2>6, <2>7 DEF KeyStore
<1>6. ASSUME NEW c \in TokenCalls, VerifyFails(c) \/ ExchangeFails(c) \/ Record(c) PROVE KeyInv'
  BY <1>2, <1>6 DEF VerifyFails, ExchangeFails, Record
<1>7. ASSUME NEW c \in TokenCalls, Check(c) PROVE KeyInv'
  <2>1. CASE End(c) /\ UNCHANGED stale BY <1>2, <1>7, <2>1 DEF Check
  <2>2. CASE /\ Move(c, "exchange")
             /\ stale' = (stale \/ (/\ token[c].assertion.key \notin published
                                    /\ withdrawn[token[c].assertion.key] + KeyTTL <= token[c].began))
    <3> DEFINE t == [token[c] EXCEPT !.stage = "exchange"]
    <3>1. token[c] # Missing /\ TokenCallOK(token[c]) /\ token[c].stage = "check" BY <1>7 DEF Check, At, KeyInv
    <3>2. token[c].assertion.key \in Keys /\ withdrawn[token[c].assertion.key] \in Nat /\ token[c].began \in Nat
      BY <3>1 DEF TokenCallOK, KeyInv
    <3>3. ~stale'
      <4>1. ~(/\ token[c].assertion.key \notin published
              /\ withdrawn[token[c].assertion.key] + KeyTTL <= token[c].began)
        BY <3>1, <3>2, AssertionAssumption DEF TokenCallOK
      <4>2. ~stale BY DEF KeyInv, KeysAreRecent
      <4> QED BY <2>2, <4>1, <4>2
    <3>4. TokenCallOK(t) BY <3>1 DEF TokenCallOK
    <3>5. KnownOK' BY <1>7 DEF Check, KeyInv, KnownOK, Keys
    <3>6. token' = [token EXCEPT ![c] = t] BY <2>2 DEF Move
    <3> HIDE DEF t
    <3> QED BY <1>7, <3>3, <3>4, <3>5, <3>6, KeyCallStep DEF Check
  <2> QED BY <1>7, <2>1, <2>2 DEF Check
<1>8. ASSUME NEW ks \in KeySets, ChangeKeys(ks) PROVE KeyInv'
  <2>1. /\ published' = ks /\ UNCHANGED <<known, knownUntil, token, today, stale>>
        /\ withdrawn' \in [Keys -> Nat]
        /\ \A k \in Keys : withdrawn'[k] = IF k \in published \ ks THEN today ELSE withdrawn[k]
    BY <1>8 DEF ChangeKeys, KeyInv
  <2>2. \A k \in Keys, n \in Nat : (n <= today /\ (k \in published \/ withdrawn[k] >= n)) => (k \in ks \/ withdrawn'[k] >= n)
    BY <2>1
  <2>3. \A c \in TokenCalls : TokenCallOK(token[c])'
    <3> SUFFICES ASSUME NEW c \in TokenCalls, token[c] # Missing PROVE TokenCallOK(token[c])'
      BY <2>1 DEF TokenCallOK
    <3>1. TokenCallOK(token[c]) BY DEF KeyInv
    <3>2. token[c].stage = "fetched" => \A k \in token[c].keys : k \in ks \/ withdrawn'[k] >= token[c].began
      BY <2>2, <3>1 DEF TokenCallOK
    <3>3. token[c].stage = "check" => \/ token[c].assertion.key \in ks
                                      \/ withdrawn'[token[c].assertion.key] + KeyTTL > token[c].began
      <4> SUFFICES ASSUME token[c].stage = "check"
                   PROVE  \/ token[c].assertion.key \in ks
                          \/ withdrawn'[token[c].assertion.key] + KeyTTL > token[c].began
        OBVIOUS
      <4> DEFINE k == token[c].assertion.key
                 b == token[c].began
      <4>1. k \in Keys /\ b \in Nat /\ b <= today /\ (k \in published \/ withdrawn[k] + KeyTTL > b) BY <3>1 DEF TokenCallOK
      <4>2. withdrawn'[k] = IF k \in published \ ks THEN today ELSE withdrawn[k] BY <2>1, <4>1
      <4>3. today \in Nat /\ KeyTTL \in Nat \ {0} BY AssertionAssumption DEF KeyInv
      <4> HIDE DEF k, b
      <4>4. k \in ks \/ withdrawn'[k] + KeyTTL > b BY <4>1, <4>2, <4>3
      <4> QED BY <4>4 DEF k, b
    <3> QED BY <2>1, <3>1, <3>2, <3>3 DEF TokenCallOK, Keys
  <2>4. KnownOK'
    <3>1. \A k \in known : k \in ks \/ withdrawn'[k] + KeyTTL >= knownUntil
      BY <2>1, AssertionAssumption DEF KnownOK, KeyInv
    <3> QED BY <2>1, <3>1 DEF KnownOK, KeyInv, Keys
  <2> QED BY <2>1, <2>3, <2>4 DEF KeyInv, KeysAreRecent, Keys
<1>9. ASSUME AssertionTick PROVE KeyInv'
  <2>1. /\ today' = today + 1 /\ today \in Nat
        /\ UNCHANGED <<published, withdrawn, known, knownUntil, token, stale>>
    BY <1>9 DEF AssertionTick, KeyInv
  <2>2. \A c \in TokenCalls : TokenCallOK(token[c])' BY <2>1 DEF KeyInv, TokenCallOK, Keys
  <2>3. KnownOK' BY <2>1, AssertionAssumption DEF KeyInv, KnownOK, Keys
  <2> QED BY <2>1, <2>2, <2>3 DEF KeyInv, KeysAreRecent, Keys
<1> QED BY <1>1, <1>3, <1>4, <1>5, <1>6, <1>7, <1>8, <1>9 DEF AssertionNext

LEMMA KeyStutter == KeyInv /\ UNCHANGED assertionVars => KeyInv'
  BY DEF KeyInv, assertionVars, TokenCallOK, KnownOK, KeysAreRecent, Keys

\* A key that its owner has withdrawn for the life of a key set is not trusted, for
\* any number of requests and however slow their fetches are
\* (ChatGPTAssertionVerifier.key): a cached set counts from the moment the request
\* that fetched it began, which is before the owner served it.
THEOREM WithdrawnKeysEnd == AssertionSpec => []KeysAreRecent
<1>1. KeyInv /\ [AssertionNext]_assertionVars => KeyInv' BY KeyStep, KeyStutter
<1>2. KeyInv => KeysAreRecent BY DEF KeyInv
<1> QED BY <1>1, <1>2, KeyInitHolds, PTL DEF AssertionSpec

-----------------------------------------------------------------------------
(* Replays. *)

\* A call judges its assertion by a moment that is past.
BoundedCall(t) ==
  t # Missing =>
    /\ DOMAIN t = {"assertion", "began", "stage", "keys"}
    /\ t.assertion \in Assertions /\ t.began \in Nat /\ t.began <= today
    /\ t.assertion.expires <= t.began + Lifetime

\* The entry of a spent identifier lives as long as its assertion.
ReplayInv ==
  /\ today \in Nat /\ used \in [Ids -> Nat]
  /\ DOMAIN token = TokenCalls /\ \A c \in TokenCalls : BoundedCall(token[c])
  /\ \A x \in Assertions : x.id \in spent /\ today < x.expires => used[x.id] >= x.expires
  /\ NoLateReplay

LEMMA ReplayInitHolds == AssertionInit => ReplayInv
  BY AssertionAssumption DEF AssertionInit, ReplayInv, BoundedCall, NoLateReplay, Ids

LEMMA IdOfAssertion == \A x \in Assertions : x.id \in Ids
  BY DEF Ids

LEMMA ReplayCallStep ==
  ASSUME ReplayInv, UNCHANGED <<today, used, spent, late>>, NEW c \in TokenCalls, NEW t,
         token' = [token EXCEPT ![c] = t], BoundedCall(t)
  PROVE  ReplayInv'
<1>1. \A d \in TokenCalls : token'[d] = IF d = c THEN t ELSE token[d] BY DEF ReplayInv
<1>2. \A d \in TokenCalls : BoundedCall(token'[d]) BY <1>1 DEF ReplayInv
<1>3. \A d \in TokenCalls : BoundedCall(token[d])' BY <1>2 DEF BoundedCall
<1> QED BY <1>3 DEF ReplayInv, NoLateReplay

LEMMA ReplayStep == ASSUME ReplayInv, AssertionNext PROVE ReplayInv'
<1>1. ASSUME NEW c \in TokenCalls, NEW x \in Assertions, Verify(c, x) PROVE ReplayInv'
  <2> DEFINE t == [assertion |-> x, began |-> today, stage |-> "key", keys |-> {}]
  <2>1. BoundedCall(t) BY <1>1 DEF BoundedCall, Verify, ReplayInv
  <2> HIDE DEF t
  <2> QED BY <1>1, <2>1, ReplayCallStep DEF Verify, t
<1>2. ASSUME NEW c \in TokenCalls, End(c), UNCHANGED <<today, used, spent, late>> PROVE ReplayInv'
  BY <1>2, ReplayCallStep DEF End, BoundedCall
<1>3. ASSUME NEW c \in TokenCalls, NEW stage, Move(c, stage), token[c] # Missing, UNCHANGED <<today, used, spent, late>>
      PROVE  ReplayInv'
  <2> DEFINE t == [token[c] EXCEPT !.stage = stage]
  <2>1. BoundedCall(t) BY <1>3 DEF ReplayInv, BoundedCall
  <2>2. token' = [token EXCEPT ![c] = t] BY <1>3 DEF Move
  <2> HIDE DEF t
  <2> QED BY <1>3, <2>1, <2>2, ReplayCallStep
<1>4. ASSUME NEW c \in TokenCalls, KeyFromCache(c) \/ KeyStore(c) PROVE ReplayInv'
  BY <1>2, <1>3, <1>4 DEF KeyFromCache, KeyStore, At
<1>5. ASSUME NEW c \in TokenCalls, KeyFetch(c) PROVE ReplayInv'
  <2> DEFINE t == [token[c] EXCEPT !.stage = "fetched", !.keys = published]
  <2>1. BoundedCall(t) BY <1>5 DEF KeyFetch, At, ReplayInv, BoundedCall
  <2>2. token' = [token EXCEPT ![c] = t] BY <1>5 DEF KeyFetch
  <2> HIDE DEF t
  <2> QED BY <1>5, <2>1, <2>2, ReplayCallStep DEF KeyFetch
<1>6. ASSUME NEW c \in TokenCalls, VerifyFails(c) \/ ExchangeFails(c) PROVE ReplayInv'
  BY <1>2, <1>6 DEF VerifyFails, ExchangeFails
<1>7. ASSUME NEW c \in TokenCalls, Check(c) PROVE ReplayInv'
  <2> DEFINE x == token[c].assertion
  <2>1. token[c] # Missing /\ x \in Assertions /\ x.id \in Ids /\ x.expires \in Nat
    BY <1>7, IdOfAssertion, AssertionAssumption DEF Check, At, ReplayInv, BoundedCall
  <2>2. /\ used' = [i \in Ids |-> IF today < used[i] THEN used[i] ELSE 0] /\ used' \in [Ids -> Nat]
        /\ UNCHANGED <<today, spent>>
    BY <1>7 DEF Check, ReplayInv
  <2>3. \A y \in Assertions : y.id \in spent /\ today < y.expires => used'[y.id] >= y.expires
    BY <2>2, IdOfAssertion, AssertionAssumption DEF ReplayInv
  <2>4. ~late'
    <3>1. late' => late \/ (used'[x.id] = 0 /\ x.id \in spent /\ today < x.expires) BY <1>7 DEF Check
    <3>2. x.id \in spent /\ today < x.expires => used'[x.id] >= x.expires BY <2>1, <2>3
    <3> QED BY <2>1, <3>1, <3>2 DEF ReplayInv, NoLateReplay
  <2>5. DOMAIN token' = TokenCalls /\ \A d \in TokenCalls : BoundedCall(token[d])'
    BY <1>7, <2>1, <2>2 DEF Check, End, Move, ReplayInv, BoundedCall
  <2> QED BY <2>2, <2>3, <2>4, <2>5 DEF ReplayInv, NoLateReplay, Ids
<1>8. ASSUME NEW c \in TokenCalls, Record(c) PROVE ReplayInv'
  <2> DEFINE x == token[c].assertion
  <2>1. /\ x \in Assertions /\ x.id \in Ids /\ x.expires \in Nat /\ today + Lifetime \in Nat
        /\ x.expires <= today + Lifetime
    BY <1>8, IdOfAssertion, AssertionAssumption DEF Record, At, ReplayInv, BoundedCall
  <2>2. /\ used' = [used EXCEPT ![x.id] = today + Lifetime] /\ spent' = spent \cup {x.id} /\ UNCHANGED <<today, late>>
        /\ used' \in [Ids -> Nat]
    BY <1>8, <2>1 DEF Record, ReplayInv
  <2> HIDE DEF x
  <2>3. \A y \in Assertions : y.id = x.id => y.expires = x.expires BY <2>1, AssertionAssumption
  <2>4. \A y \in Assertions : y.id \in spent' /\ today < y.expires => used'[y.id] >= y.expires
    BY <2>1, <2>2, <2>3, IdOfAssertion DEF ReplayInv
  <2>5. DOMAIN token' = TokenCalls /\ \A d \in TokenCalls : BoundedCall(token[d])'
    BY <1>8, <2>2 DEF Record, End, ReplayInv, BoundedCall
  <2> QED BY <2>2, <2>4, <2>5 DEF ReplayInv, NoLateReplay, Ids
<1>9. ASSUME NEW ks \in KeySets, ChangeKeys(ks) PROVE ReplayInv'
  BY <1>9 DEF ChangeKeys, ReplayInv, BoundedCall, NoLateReplay
<1>10. ASSUME AssertionTick PROVE ReplayInv'
  <2>1. today' = today + 1 /\ today \in Nat /\ UNCHANGED <<used, token, spent, late>> BY <1>10 DEF AssertionTick, ReplayInv
  <2>2. \A c \in TokenCalls : BoundedCall(token[c])' BY <2>1 DEF ReplayInv, BoundedCall
  <2>3. \A x \in Assertions : x.id \in spent /\ today' < x.expires => used[x.id] >= x.expires
    BY <2>1, AssertionAssumption DEF ReplayInv
  <2> QED BY <2>1, <2>2, <2>3 DEF ReplayInv, NoLateReplay
<1> QED BY <1>1, <1>4, <1>5, <1>6, <1>7, <1>8, <1>9, <1>10 DEF AssertionNext

LEMMA ReplayStutter == ReplayInv /\ UNCHANGED assertionVars => ReplayInv'
  BY DEF ReplayInv, assertionVars, BoundedCall, NoLateReplay

\* An assertion that was used up is refused as long as it is valid, for any number of
\* requests (OAuthServer.handleToken): its entry is written for the longest an
\* assertion may live, counted from a later moment than the one it was judged by.
THEOREM SpentStaysSpent == AssertionSpec => []NoLateReplay
<1>1. ReplayInv /\ [AssertionNext]_assertionVars => ReplayInv' BY ReplayStep, ReplayStutter
<1>2. ReplayInv => NoLateReplay BY DEF ReplayInv
<1> QED BY <1>1, <1>2, ReplayInitHolds, PTL DEF AssertionSpec

-----------------------------------------------------------------------------
(* The limiter of requests. *)

Bucket == [start : Nat, count : Nat]

LimiterTypeOK ==
  /\ buckets \in [Addresses -> Bucket \cup {NoBucket}]
  /\ globalBucket \in Bucket \cup {NoBucket}
  /\ clock \in Nat
  /\ IsFiniteSet(admitted) /\ admitted \subseteq Addresses \X (0..clock) \X Nat

\* The requests of one address at one moment are numbered from 0, so that the
\* next one is another.
Numbered == \A x \in admitted : x[3] < Cardinality(AdmittedAt(x[1], x[2]))

Since(t) == {x \in admitted : x[2] >= t}
SinceBy(a, t) == {x \in admitted : x[1] = a /\ x[2] >= t}

\* What was admitted within a window's length before t.
Before(t) == {x \in admitted : x[2] < t /\ x[2] + Window > t}

\* A bucket counts what was admitted since its window began, for all even when
\* the window is over, as nothing is admitted before the next one begins.
GlobalCounts ==
  IF globalBucket = NoBucket THEN admitted = {}
  ELSE /\ globalBucket.start <= clock /\ globalBucket.count <= Global
       /\ globalBucket.count = Cardinality(Since(globalBucket.start))
       /\ Cardinality(Before(globalBucket.start)) <= Global
       /\ \A x \in admitted : x[2] < globalBucket.start + Window

AddressCounts ==
  \A a \in Addresses :
    IF buckets[a] = NoBucket THEN \A x \in admitted : x[1] = a => x[2] < clock
    ELSE /\ buckets[a].start <= clock
         /\ buckets[a].count = Cardinality(SinceBy(a, buckets[a].start))
         /\ \A x \in admitted : x[1] = a => x[2] < buckets[a].start + Window

\* In no stretch of a window's length too many.
Stretch(t) == {x \in admitted : x[2] >= t /\ x[2] < t + Window}
NeverTooMany == \A t \in Nat : Cardinality(Stretch(t)) <= 2 * Global

LimiterInv == LimiterTypeOK /\ Numbered /\ GlobalCounts /\ AddressCounts /\ NeverTooMany

LEMMA LimiterInitInv == LimiterInit => LimiterInv
<1> SUFFICES ASSUME LimiterInit PROVE LimiterInv
  OBVIOUS
<1>1. admitted = {} /\ clock = 0 /\ globalBucket = NoBucket /\ \A a \in Addresses : buckets[a] = NoBucket
  BY DEF LimiterInit
<1>2. LimiterTypeOK
  BY <1>1, FS_EmptySet DEF LimiterInit, LimiterTypeOK
<1>3. \A t \in Nat : Cardinality(Stretch(t)) <= 2 * Global
  <2> TAKE t \in Nat
  <2>1. Stretch(t) = {}
    BY <1>1 DEF Stretch
  <2> QED BY <2>1, FS_EmptySet, LimiterAssumption
<1> QED
  BY <1>1, <1>2, <1>3 DEF LimiterInv, Numbered, GlobalCounts, AddressCounts, NeverTooMany

\* What is admitted now was not admitted before, and is counted wherever its
\* address and its moment are.
LEMMA AdmissionCounts ==
  ASSUME LimiterInv, NEW a \in Addresses, admitted' = admitted \cup {Admission(a)}, clock' = clock
  PROVE  /\ Admission(a) \notin admitted
         /\ admitted' \subseteq Addresses \X (0..clock) \X Nat /\ IsFiniteSet(admitted')
         /\ Numbered'
         /\ \A S \in SUBSET admitted : /\ IsFiniteSet(S) /\ Cardinality(S) \in Nat
                                       /\ IsFiniteSet(S \cup {Admission(a)})
                                       /\ Cardinality(S \cup {Admission(a)}) = Cardinality(S) + 1
<1> DEFINE k == Cardinality(AdmittedAt(a, clock))
           y == <<a, clock, k>>
<1>0. /\ IsFiniteSet(admitted) /\ clock \in Nat /\ admitted \subseteq Addresses \X (0..clock) \X Nat
      /\ Numbered
  BY DEF LimiterInv, LimiterTypeOK
<1>1. IsFiniteSet(AdmittedAt(a, clock)) /\ k \in Nat
  <2>1. AdmittedAt(a, clock) \in SUBSET admitted
    BY DEF AdmittedAt
  <2> QED BY <1>0, <2>1, FS_Subset, FS_CardinalityType
<1>2. Admission(a) = y
  BY DEF Admission
<1> HIDE DEF k
<1>3. y \notin admitted
  <2> SUFFICES ASSUME y \in admitted PROVE FALSE
    OBVIOUS
  <2>1. y[3] < Cardinality(AdmittedAt(y[1], y[2]))
    BY <1>0 DEF Numbered
  <2>2. k < k
    BY <2>1 DEF k
  <2> QED BY <2>2, <1>1
<1>4. admitted' \subseteq Addresses \X (0..clock) \X Nat
  BY <1>0, <1>1, <1>2
<1>5. IsFiniteSet(admitted')
  BY <1>0, <1>2, FS_AddElement
<1>6. Numbered'
  <2> SUFFICES ASSUME NEW x \in admitted' PROVE x[3] < Cardinality(AdmittedAt(x[1], x[2])')
    BY DEF Numbered, AdmittedAt
  <2>a. x \in Addresses \X (0..clock) \X Nat
    BY <1>4
  <2>1. CASE x[1] = a /\ x[2] = clock
    <3>1. AdmittedAt(x[1], x[2])' = AdmittedAt(a, clock) \cup {y}
      BY <2>1, <1>2 DEF AdmittedAt
    <3>2. y \notin AdmittedAt(a, clock)
      BY <1>3 DEF AdmittedAt
    <3>3. Cardinality(AdmittedAt(a, clock) \cup {y}) = k + 1
      BY <3>2, <1>1, FS_AddElement DEF k
    <3>4. x = y \/ x \in admitted
      BY <1>2
    <3>5. x[3] < k + 1
      <4>1. CASE x = y
        BY <4>1, <1>1
      <4>2. CASE x \in admitted
        <5>1. x[3] < k
          BY <4>2, <2>1, <1>0 DEF Numbered, k
        <5> QED BY <5>1, <1>1, <2>a
      <4> QED BY <3>4, <4>1, <4>2
    <3> QED BY <3>1, <3>3, <3>5
  <2>2. CASE ~(x[1] = a /\ x[2] = clock)
    <3>1. x # y
      BY <2>2
    <3>2. x \in admitted
      BY <3>1, <1>2
    <3>3. AdmittedAt(x[1], x[2])' = AdmittedAt(x[1], x[2])
      BY <2>2, <1>2 DEF AdmittedAt
    <3> QED BY <3>2, <3>3, <1>0 DEF Numbered
  <2> QED BY <2>1, <2>2
<1>7. ASSUME NEW S \in SUBSET admitted
      PROVE /\ IsFiniteSet(S) /\ Cardinality(S) \in Nat
            /\ IsFiniteSet(S \cup {y})
            /\ Cardinality(S \cup {y}) = Cardinality(S) + 1
  <2>1. IsFiniteSet(S) /\ Cardinality(S) \in Nat
    BY <1>0, FS_Subset, FS_CardinalityType
  <2>2. y \notin S
    BY <1>3
  <2> QED BY <2>1, <2>2, FS_AddElement
<1> QED BY <1>2, <1>3, <1>4, <1>5, <1>6, <1>7

\* The bucket for all that a request meets.
LEMMA GlobalNowCounts ==
  ASSUME LimiterInv
  PROVE  /\ GlobalNow \in Bucket /\ GlobalNow.start <= clock /\ clock < GlobalNow.start + Window
         /\ GlobalNow.count <= Global
         /\ GlobalNow.count = Cardinality(Since(GlobalNow.start))
         /\ Cardinality(Before(GlobalNow.start)) <= Global
<1>0. /\ IsFiniteSet(admitted) /\ clock \in Nat /\ globalBucket \in Bucket \cup {NoBucket}
      /\ \A x \in admitted : x[2] \in Nat
      /\ GlobalCounts /\ Window \in Nat \ {0} /\ Global \in Nat
  BY LimiterAssumption DEF LimiterInv, LimiterTypeOK
<1>1. CASE InWindow(globalBucket)
  <2>1. /\ GlobalNow = globalBucket /\ globalBucket # NoBucket
        /\ ~(clock >= globalBucket.start + Window)
    BY <1>1 DEF GlobalNow, InWindow, WindowOver
  <2>2. globalBucket.start \in Nat /\ globalBucket.count \in Nat
    BY <2>1, <1>0 DEF Bucket
  <2>3. clock < globalBucket.start + Window
    BY <2>1, <2>2, <1>0
  <2> QED BY <2>1, <2>3, <1>0 DEF GlobalCounts
<1>2. CASE ~InWindow(globalBucket)
  <2>1. GlobalNow = NewBucket /\ GlobalNow.start = clock /\ GlobalNow.count = 0
    BY <1>2 DEF GlobalNow, NewBucket
  <2>2. GlobalNow \in Bucket
    BY <2>1, <1>0 DEF NewBucket, Bucket
  <2>3. Since(clock) = {} /\ Cardinality(Before(clock)) <= Global
    <3>1. CASE globalBucket = NoBucket
      <4>1. Since(clock) = {} /\ Before(clock) = {}
        BY <3>1, <1>0 DEF GlobalCounts, Since, Before
      <4> QED BY <4>1, <1>0, FS_EmptySet
    <3>2. CASE globalBucket # NoBucket
      <4>0. globalBucket.start \in Nat /\ globalBucket.start + Window <= clock
        BY <3>2, <1>2, <1>0 DEF InWindow, WindowOver, Bucket
      <4>1. Since(clock) = {}
        <5> SUFFICES ASSUME NEW x \in admitted, x[2] >= clock PROVE FALSE
          BY DEF Since
        <5>1. x[2] < globalBucket.start + Window
          BY <3>2, <1>0 DEF GlobalCounts
        <5> QED BY <5>1, <4>0, <1>0
      <4>2. Before(clock) \subseteq Since(globalBucket.start)
        <5> SUFFICES ASSUME NEW x \in admitted, x[2] + Window > clock PROVE x[2] >= globalBucket.start
          BY DEF Since, Before
        <5> QED BY <4>0, <1>0
      <4>3. IsFiniteSet(Since(globalBucket.start))
        <5>1. Since(globalBucket.start) \in SUBSET admitted
          BY DEF Since
        <5> QED BY <5>1, <1>0, FS_Subset
      <4>4. Cardinality(Before(clock)) <= Cardinality(Since(globalBucket.start))
        BY <4>2, <4>3, FS_Subset
      <4>5. Cardinality(Since(globalBucket.start)) <= Global
        BY <3>2, <1>0 DEF GlobalCounts
      <4>6. Before(clock) \in SUBSET admitted /\ Since(globalBucket.start) \in SUBSET admitted
        BY DEF Before, Since
      <4>7. Cardinality(Before(clock)) \in Nat /\ Cardinality(Since(globalBucket.start)) \in Nat
        BY <4>6, <1>0, FS_Subset, FS_CardinalityType
      <4> QED BY <4>1, <4>4, <4>5, <4>7, <1>0
    <3> QED BY <3>1, <3>2
  <2>4. clock < clock + Window /\ clock <= clock /\ 0 <= Global
    BY <1>0
  <2> QED BY <2>1, <2>2, <2>3, <2>4, FS_EmptySet
<1> QED BY <1>1, <1>2

\* The buckets of the addresses that a request meets.
LEMMA LivingCounts ==
  ASSUME LimiterInv, NEW a \in Addresses
  PROVE  /\ LivingBuckets \in [Addresses -> Bucket \cup {NoBucket}]
         /\ LivingBuckets[a] = NoBucket => \A x \in admitted : x[1] = a => x[2] < clock
         /\ LivingBuckets[a] # NoBucket => LivingBuckets[a] = buckets[a] /\ clock < buckets[a].start + Window
<1>0. /\ buckets \in [Addresses -> Bucket \cup {NoBucket}] /\ clock \in Nat /\ Window \in Nat
      /\ \A x \in admitted : x[2] \in Nat
      /\ AddressCounts
  BY LimiterAssumption DEF LimiterInv, LimiterTypeOK
<1>1. LivingBuckets \in [Addresses -> Bucket \cup {NoBucket}]
  BY <1>0 DEF LivingBuckets
<1>2. LivingBuckets[a] = IF InWindow(buckets[a]) THEN buckets[a] ELSE NoBucket
  BY DEF LivingBuckets
<1>3. buckets[a] # NoBucket => buckets[a].start \in Nat
  BY <1>0 DEF Bucket
<1>4. ASSUME LivingBuckets[a] = NoBucket, NEW x \in admitted, x[1] = a PROVE x[2] < clock
  <2>1. CASE buckets[a] = NoBucket
    BY <2>1, <1>0, <1>4 DEF AddressCounts
  <2>2. CASE buckets[a] # NoBucket
    <3>1. buckets[a].start + Window <= clock
      BY <2>2, <1>2, <1>3, <1>0, <1>4 DEF InWindow, WindowOver
    <3>2. x[2] < buckets[a].start + Window
      BY <2>2, <1>0, <1>4 DEF AddressCounts
    <3> QED BY <3>1, <3>2, <1>3, <1>0, <2>2
  <2> QED BY <2>1, <2>2
<1>5. ASSUME LivingBuckets[a] # NoBucket PROVE LivingBuckets[a] = buckets[a] /\ clock < buckets[a].start + Window
  BY <1>5, <1>2, <1>3, <1>0 DEF InWindow, WindowOver
<1> QED BY <1>1, <1>4, <1>5

\* A refused request counts nowhere; windows that are over are forgotten.
LEMMA RefusedInv ==
  ASSUME LimiterInv, buckets' = LivingBuckets, globalBucket' = GlobalNow, UNCHANGED <<admitted, clock>>
  PROVE  LimiterInv'
<1>1. LimiterTypeOK'
  BY GlobalNowCounts, LivingCounts DEF LimiterInv, LimiterTypeOK, LivingBuckets
<1>2. Numbered' /\ NeverTooMany'
  BY DEF LimiterInv, Numbered, AdmittedAt, NeverTooMany, Stretch
<1>3. GlobalCounts'
  <2>1. \A x \in admitted : x[2] \in 0..clock
    BY DEF LimiterInv, LimiterTypeOK
  <2>2. /\ globalBucket'.start \in Nat /\ clock \in Nat /\ Window \in Nat
        /\ clock < globalBucket'.start + Window
    BY GlobalNowCounts, LimiterAssumption DEF LimiterInv, LimiterTypeOK, Bucket
  <2>3. \A x \in admitted : x[2] < globalBucket'.start + Window
    BY <2>1, <2>2
  <2>4. globalBucket' # NoBucket
    BY GlobalNowCounts, LimiterAssumption DEF Bucket
  <2>5. Since(globalBucket.start)' = Since(GlobalNow.start) /\ Before(globalBucket.start)' = Before(GlobalNow.start)
    BY DEF Since, Before
  <2> QED BY <2>3, <2>4, <2>5, GlobalNowCounts DEF GlobalCounts
<1>4. AddressCounts'
  <2> SUFFICES ASSUME NEW a \in Addresses
               PROVE IF buckets'[a] = NoBucket THEN \A x \in admitted : x[1] = a => x[2] < clock
                     ELSE /\ buckets'[a].start <= clock
                          /\ buckets'[a].count = Cardinality(SinceBy(a, buckets'[a].start))
                          /\ \A x \in admitted : x[1] = a => x[2] < buckets'[a].start + Window
    BY DEF AddressCounts, SinceBy
  <2>1. CASE buckets'[a] = NoBucket
    BY <2>1, LivingCounts
  <2>2. CASE buckets'[a] # NoBucket
    <3>1. buckets'[a] = buckets[a]
      BY <2>2, LivingCounts
    <3> QED BY <3>1, <2>2 DEF LimiterInv, AddressCounts
  <2> QED BY <2>1, <2>2
<1> QED BY <1>1, <1>2, <1>3, <1>4 DEF LimiterInv

\* An admitted one counts in both buckets.
LEMMA AdmittedInv ==
  ASSUME LimiterInv, NEW a \in Addresses, NEW mine, clock' = clock,
         mine = IF LivingBuckets[a] = NoBucket THEN NewBucket ELSE LivingBuckets[a],
         GlobalNow.count < Global,
         buckets' = [LivingBuckets EXCEPT ![a] = Counted(mine)],
         globalBucket' = Counted(GlobalNow),
         admitted' = admitted \cup {Admission(a)}
  PROVE  LimiterInv'
<1> DEFINE y == Admission(a)
<1>0. /\ IsFiniteSet(admitted) /\ clock \in Nat /\ Window \in Nat \ {0} /\ Global \in Nat
      /\ \A x \in admitted : x[2] \in Nat /\ x[2] <= clock
      /\ y[1] = a /\ y[2] = clock
      /\ LivingBuckets \in [Addresses -> Bucket \cup {NoBucket}]
  BY LivingCounts, LimiterAssumption DEF LimiterInv, LimiterTypeOK, Admission
<1> DEFINE g == GlobalNow
<1>1. /\ g.start \in Nat /\ g.count \in Nat /\ g.start <= clock /\ clock < g.start + Window
      /\ g.count = Cardinality(Since(g.start)) /\ Cardinality(Before(g.start)) <= Global
      /\ g.count < Global
      /\ Counted(g) = [start |-> g.start, count |-> g.count + 1]
  BY GlobalNowCounts DEF Bucket, Counted
<1>2. mine \in Bucket
  BY <1>0 DEF NewBucket, Bucket
<1>3. /\ mine.start \in Nat /\ mine.count \in Nat /\ mine.start <= clock /\ clock < mine.start + Window
      /\ mine.count = Cardinality(SinceBy(a, mine.start))
  <2>1. CASE LivingBuckets[a] = NoBucket
    <3>1. mine.start = clock /\ mine.count = 0
      BY <2>1 DEF NewBucket
    <3>2. SinceBy(a, clock) = {}
      <4> SUFFICES ASSUME NEW x \in admitted, x[1] = a, x[2] >= clock PROVE FALSE
        BY DEF SinceBy
      <4>1. x[2] < clock
        BY <2>1, LivingCounts
      <4> QED BY <4>1, <1>0
    <3>3. SinceBy(a, mine.start) = {}
      BY <3>1, <3>2
    <3>4. clock < mine.start + Window
      BY <3>1, <1>0
    <3>5. Cardinality(SinceBy(a, mine.start)) = 0
      BY <3>3, FS_EmptySet
    <3>6. mine.start \in Nat /\ mine.count \in Nat /\ mine.start <= clock
      BY <3>1, <1>0
    <3> QED BY <3>1, <3>4, <3>5, <3>6
  <2>2. CASE LivingBuckets[a] # NoBucket
    <3>1. mine = buckets[a] /\ clock < buckets[a].start + Window /\ buckets[a] # NoBucket
      BY <2>2, LivingCounts
    <3> QED BY <3>1, <1>2 DEF LimiterInv, AddressCounts, Bucket
  <2> QED BY <2>1, <2>2
<1>4. Counted(mine) = [start |-> mine.start, count |-> mine.count + 1] /\ Counted(mine) \in Bucket
  BY <1>2 DEF Counted, Bucket
<1>5. /\ y \notin admitted /\ IsFiniteSet(admitted') /\ Numbered'
      /\ admitted' \subseteq Addresses \X (0..clock) \X Nat
      /\ \A S \in SUBSET admitted : /\ IsFiniteSet(S) /\ Cardinality(S) \in Nat
                                    /\ Cardinality(S \cup {y}) = Cardinality(S) + 1
  BY AdmissionCounts
<1> HIDE DEF y
<1>6. LimiterTypeOK'
  <2>1. Counted(g) \in Bucket
    BY <1>1 DEF Bucket
  <2>2. buckets' \in [Addresses -> Bucket \cup {NoBucket}]
    BY <1>0, <1>4
  <2> QED BY <2>1, <2>2, <1>0, <1>5 DEF LimiterTypeOK
<1>7. GlobalCounts'
  <2>1. /\ globalBucket' # NoBucket /\ globalBucket'.start = g.start /\ globalBucket'.count = g.count + 1
    BY <1>1, LimiterAssumption DEF Bucket
  <2>2. Since(globalBucket.start)' = Since(g.start) \cup {y}
    BY <2>1, <1>0, <1>1 DEF Since, y
  <2>3. Cardinality(Since(g.start) \cup {y}) = g.count + 1
    <3>1. Since(g.start) \in SUBSET admitted
      BY DEF Since
    <3> QED BY <3>1, <1>5, <1>1
  <2>4. Before(globalBucket.start)' = Before(g.start)
    <3>1. ~(y[2] < g.start)
      BY <1>0, <1>1
    <3> QED BY <3>1, <2>1 DEF Before, y
  <2>5. \A x \in admitted' : x[2] < g.start + Window
    <3> SUFFICES ASSUME NEW x \in admitted' PROVE x[2] < g.start + Window
      OBVIOUS
    <3>1. x[2] \in Nat /\ x[2] <= clock
      BY <1>0 DEF y
    <3> QED BY <3>1, <1>0, <1>1
  <2>6. g.count + 1 <= Global /\ g.start <= clock'
    BY <1>1, <1>0
  <2> QED BY <2>1, <2>2, <2>3, <2>4, <2>5, <2>6, <1>1 DEF GlobalCounts
<1>8. AddressCounts'
  <2> SUFFICES ASSUME NEW b \in Addresses
               PROVE IF buckets'[b] = NoBucket THEN \A x \in admitted' : x[1] = b => x[2] < clock
                     ELSE /\ buckets'[b].start <= clock
                          /\ buckets'[b].count = Cardinality({x \in admitted' : x[1] = b /\ x[2] >= buckets'[b].start})
                          /\ \A x \in admitted' : x[1] = b => x[2] < buckets'[b].start + Window
    BY DEF AddressCounts, SinceBy
  <2>1. CASE b = a
    <3>1. /\ buckets'[a] # NoBucket /\ buckets'[a].start = mine.start /\ buckets'[a].count = mine.count + 1
      BY <1>0, <1>4, LimiterAssumption DEF Bucket
    <3>3. Cardinality(SinceBy(a, mine.start) \cup {y}) = mine.count + 1
      <4>1. SinceBy(a, mine.start) \in SUBSET admitted
        BY DEF SinceBy
      <4> QED BY <4>1, <1>5, <1>3
    <3>4. \A x \in admitted' : x[2] < mine.start + Window
      <4> SUFFICES ASSUME NEW x \in admitted' PROVE x[2] < mine.start + Window
        OBVIOUS
      <4>1. x[2] \in Nat /\ x[2] <= clock
        BY <1>0 DEF y
      <4> QED BY <4>1, <1>0, <1>3
    <3>5. {x \in admitted' : x[1] = a /\ x[2] >= buckets'[a].start} = SinceBy(a, mine.start) \cup {y}
      BY <3>1, <1>0, <1>3 DEF SinceBy, y
    <3> QED BY <2>1, <3>1, <3>3, <3>4, <3>5, <1>3
  <2>2. CASE b # a
    <3>1. buckets'[b] = LivingBuckets[b]
      BY <2>2, <1>0
    <3>2. \A x \in admitted' : x[1] = b => x \in admitted
      BY <2>2, <1>0 DEF y
    <3>3. CASE buckets'[b] = NoBucket
      BY <3>1, <3>2, <3>3, LivingCounts
    <3>4. CASE buckets'[b] # NoBucket
      <4>1. buckets'[b] = buckets[b] /\ buckets[b] # NoBucket
        BY <3>1, <3>4, LivingCounts
      <4>3. {x \in admitted' : x[1] = b /\ x[2] >= buckets'[b].start} = SinceBy(b, buckets[b].start)
        BY <3>2, <4>1 DEF SinceBy
      <4> QED BY <4>1, <4>3, <3>2 DEF LimiterInv, AddressCounts, SinceBy
    <3> QED BY <3>3, <3>4
  <2> QED BY <2>1, <2>2
<1>9. NeverTooMany'
  <2> SUFFICES ASSUME NEW t \in Nat PROVE Cardinality(Stretch(t)') <= 2 * Global
    BY DEF NeverTooMany
  <2>0. Stretch(t) \in SUBSET admitted
    BY DEF Stretch
  <2>1. CASE clock < t \/ clock >= t + Window
    <3>1. Stretch(t)' = Stretch(t)
      BY <2>1, <1>0 DEF Stretch, y
    <3> QED BY <3>1 DEF LimiterInv, NeverTooMany
  <2>2. CASE t <= clock /\ clock < t + Window
    <3> DEFINE S == Since(g.start) \cup {y}
               B == Before(g.start)
    <3>1. Stretch(t)' \subseteq S \cup B
      <4> SUFFICES ASSUME NEW x \in admitted, x[2] >= t, x[2] < t + Window, ~(x[2] >= g.start)
                   PROVE x[2] < g.start /\ x[2] + Window > g.start
        BY DEF Stretch, Since, Before, y
      <4> QED BY <1>0, <1>1, <2>2
    <3>2. Since(g.start) \in SUBSET admitted /\ B \in SUBSET admitted
      BY DEF Since, Before
    <3>3. /\ IsFiniteSet(S) /\ Cardinality(S) = g.count + 1
          /\ IsFiniteSet(B) /\ Cardinality(B) \in Nat
      BY <3>2, <1>5, <1>1, FS_AddElement
    <3>4. Cardinality(B) <= Global
      BY <1>1
    <3> HIDE DEF S, B
    <3>5. /\ IsFiniteSet(S \cup B)
          /\ Cardinality(S \cup B) = Cardinality(S) + Cardinality(B) - Cardinality(S \cap B)
      BY <3>3, FS_Union
    <3>6. IsFiniteSet(S \cap B) /\ Cardinality(S \cap B) \in Nat
      BY <3>3, FS_Intersection, FS_Subset, FS_CardinalityType
    <3>7. Cardinality(S \cup B) <= 2 * Global
      BY <3>3, <3>4, <3>5, <3>6, <1>1, <1>0
    <3>8. Cardinality(Stretch(t)') <= Cardinality(S \cup B) /\ IsFiniteSet(Stretch(t)')
      BY <3>1, <3>5, FS_Subset
    <3>9. Cardinality(Stretch(t)') \in Nat /\ Cardinality(S \cup B) \in Nat
      BY <3>5, <3>8, FS_CardinalityType
    <3> QED BY <3>7, <3>8, <3>9, <1>0
  <2>3. QED BY <2>1, <2>2, <1>0
<1> QED BY <1>5, <1>6, <1>7, <1>8, <1>9 DEF LimiterInv

LEMMA LimiterTickInv == ASSUME LimiterInv, LimiterTick PROVE LimiterInv'
<1>1. /\ clock \in Nat /\ clock' = clock + 1 /\ UNCHANGED <<buckets, globalBucket, admitted>>
      /\ admitted \subseteq Addresses \X (0..clock) \X Nat
  BY DEF LimiterTick, LimiterInv, LimiterTypeOK
<1>2. LimiterTypeOK'
  <2>1. 0..clock \subseteq 0..clock'
    BY <1>1
  <2>2. Addresses \X (0..clock) \X Nat \subseteq Addresses \X (0..clock') \X Nat
    BY <2>1
  <2> QED BY <1>1, <2>2 DEF LimiterInv, LimiterTypeOK
<1>3. Numbered' /\ NeverTooMany'
  BY <1>1 DEF LimiterInv, Numbered, AdmittedAt, NeverTooMany, Stretch
<1>4. GlobalCounts'
  <2>1. globalBucket # NoBucket => globalBucket.start \in Nat
    BY DEF LimiterInv, LimiterTypeOK, Bucket
  <2>2. globalBucket # NoBucket => globalBucket.start <= clock'
    BY <2>1, <1>1 DEF LimiterInv, GlobalCounts
  <2>3. Since(globalBucket.start)' = Since(globalBucket.start) /\ Before(globalBucket.start)' = Before(globalBucket.start)
    BY <1>1 DEF Since, Before
  <2> QED BY <1>1, <2>2, <2>3 DEF LimiterInv, GlobalCounts
<1>5. AddressCounts'
  <2> SUFFICES ASSUME NEW a \in Addresses
               PROVE IF buckets[a] = NoBucket THEN \A x \in admitted : x[1] = a => x[2] < clock'
                     ELSE /\ buckets[a].start <= clock'
                          /\ buckets[a].count = Cardinality(SinceBy(a, buckets[a].start))
                          /\ \A x \in admitted : x[1] = a => x[2] < buckets[a].start + Window
    BY <1>1 DEF AddressCounts, SinceBy
  <2>1. \A x \in admitted : x[2] \in Nat /\ x[2] < clock'
    BY <1>1
  <2>2. buckets[a] # NoBucket => buckets[a].start \in Nat
    BY DEF LimiterInv, LimiterTypeOK, Bucket
  <2>3. buckets[a] # NoBucket => buckets[a].start <= clock'
    BY <2>2, <1>1 DEF LimiterInv, AddressCounts
  <2> QED BY <2>1, <2>3 DEF LimiterInv, AddressCounts
<1> QED BY <1>2, <1>3, <1>4, <1>5 DEF LimiterInv

LEMMA LimiterNextInv == LimiterInv /\ [LimiterNext]_limiterVars => LimiterInv'
<1> SUFFICES ASSUME LimiterInv, [LimiterNext]_limiterVars PROVE LimiterInv'
  OBVIOUS
<1>1. ASSUME NEW a \in Addresses, Allow(a) PROVE LimiterInv'
  <2> DEFINE mine == IF LivingBuckets[a] = NoBucket THEN NewBucket ELSE LivingBuckets[a]
             room == LivingBuckets[a] # NoBucket \/ Cardinality(Tracked(LivingBuckets)) < MaxAddresses
  <2>1. CASE room /\ mine.count < PerAddress /\ GlobalNow.count < Global
    <3>1. /\ buckets' = [LivingBuckets EXCEPT ![a] = Counted(mine)] /\ globalBucket' = Counted(GlobalNow)
          /\ admitted' = admitted \cup {Admission(a)} /\ clock' = clock
      BY <1>1, <2>1 DEF Allow
    <3> QED BY <3>1, <2>1, AdmittedInv
  <2>2. CASE ~(room /\ mine.count < PerAddress /\ GlobalNow.count < Global)
    <3>1. buckets' = LivingBuckets /\ globalBucket' = GlobalNow /\ UNCHANGED <<admitted, clock>>
      BY <1>1, <2>2 DEF Allow
    <3> QED BY <3>1, RefusedInv
  <2> QED BY <2>1, <2>2
<1>2. CASE LimiterTick
  BY <1>2, LimiterTickInv
<1>3. CASE UNCHANGED limiterVars
  <2>1. UNCHANGED <<buckets, globalBucket, clock, admitted>>
    BY <1>3 DEF limiterVars
  <2> QED BY <2>1 DEF LimiterInv, LimiterTypeOK, Numbered, AdmittedAt, GlobalCounts, Since, Before,
                      AddressCounts, SinceBy, NeverTooMany, Stretch
<1> QED BY <1>1, <1>2, <1>3 DEF LimiterNext

\* What the buckets in use count is what was admitted, and no stretch of a
\* window's length admits two windows' worth and more (requestLimiter.Allow).
THEOREM LimiterCounts == LimiterSpec => []CountsAreAdmissions
<1>1. LimiterInv => CountsAreAdmissions
  <2> SUFFICES ASSUME LimiterInv PROVE CountsAreAdmissions
    OBVIOUS
  <2>0. /\ clock \in Nat /\ \A x \in admitted : x[1] \in Addresses /\ x[2] \in 0..clock
        /\ Window \in Nat \ {0}
    BY LimiterAssumption DEF LimiterInv, LimiterTypeOK
  <2>1. InWindow(globalBucket) => globalBucket.count = AdmittedIn(Addresses, globalBucket.start..clock)
    <3> SUFFICES ASSUME globalBucket # NoBucket
                 PROVE globalBucket.count = AdmittedIn(Addresses, globalBucket.start..clock)
      BY DEF InWindow
    <3>1. globalBucket.start \in Nat
      BY DEF LimiterInv, LimiterTypeOK, Bucket
    <3>2. {x \in admitted : x[1] \in Addresses /\ x[2] \in globalBucket.start..clock} = Since(globalBucket.start)
      BY <3>1, <2>0 DEF Since
    <3> QED BY <3>2 DEF LimiterInv, GlobalCounts, AdmittedIn
  <2>2. ASSUME NEW a \in Addresses, InWindow(buckets[a])
        PROVE  buckets[a].count = AdmittedIn({a}, buckets[a].start..clock)
    <3>1. buckets[a] # NoBucket /\ buckets[a].start \in Nat
      BY <2>2 DEF InWindow, LimiterInv, LimiterTypeOK, Bucket
    <3>2. {x \in admitted : x[1] \in {a} /\ x[2] \in buckets[a].start..clock} = SinceBy(a, buckets[a].start)
      BY <3>1, <2>0 DEF SinceBy
    <3> QED BY <3>1, <3>2 DEF LimiterInv, AddressCounts, AdmittedIn
  <2>3. ASSUME NEW t \in 0..clock
        PROVE  AdmittedIn(Addresses, t..t + Window - 1) <= 2 * Global
    <3>1. {x \in admitted : x[1] \in Addresses /\ x[2] \in t..t + Window - 1} = Stretch(t)
      BY <2>0 DEF Stretch
    <3>2. t \in Nat
      BY <2>0
    <3> QED BY <3>1, <3>2 DEF LimiterInv, NeverTooMany, AdmittedIn
  <2> QED BY <2>1, <2>2, <2>3 DEF CountsAreAdmissions
<1> QED BY <1>1, LimiterInitInv, LimiterNextInv, PTL DEF LimiterSpec

-----------------------------------------------------------------------------
(* MCP, for every set of POSTs, tools and protocol versions. *)

\* What was known when a call was allowed to run, and stays so.
Justified(r) ==
  LET m == post.messages[r.message]
      h == post.header
  IN /\ Valid(h, m) /\ Runs(m)
     /\ r.tool = m.name
     /\ r.version = Version(h, m) /\ r.version = selected

\* The inductive invariant: calls are justified, and only a message that was
\* handled has selected a version or run a tool.
McpIInv ==
  /\ at \in Nat \ {0}
  /\ post = Absent \/ post \in Posts
  /\ post = Absent => at = 1
  /\ at = 1 => ran = {} /\ selected = Absent
  /\ \A r \in ran : Justified(r)
  /\ at > 1 => selected # Absent

\* A message that is handled has a version, legacy unless it means a modern one.
LEMMA VersionKnown ==
  ASSUME NEW h, NEW m
  PROVE  /\ LegacyVersion(h, m) \in Legacy
         /\ Version(h, m) \in Legacy \cup {Modern}
         /\ Version(h, m) = Modern => ModernIntent(h, m)
         /\ Version(h, m) # Modern => ~ModernIntent(h, m)
         /\ Version(h, m) # Absent
<1>1. LegacyVersion(h, m) \in Legacy BY McpAssumption DEF LegacyVersion
<1> QED BY <1>1, McpAssumption DEF Version

\* A valid call of a tool names the same version, method and tool in its headers
\* as in its body.
LEMMA ValidCallAgrees ==
  ASSUME NEW h, NEW m, Valid(h, m), Runs(m)
  PROVE  /\ h.method \in {Absent, "tools/call"} /\ h.name \in {Absent, m.name}
         /\ IF Version(h, m) = Modern
            THEN /\ h.version = Modern /\ MetaVersion(m) = Modern
                 /\ h.method = "tools/call" /\ h.name = m.name
            ELSE {h.version, MetaVersion(m)} \subseteq Legacy \cup {Absent}
<1>1. m.method = "tools/call" /\ Named(m) BY DEF Runs, Named
<1>2. CASE ModernIntent(h, m)
  <2>1. ValidModern(h, m) BY <1>2 DEF Valid
  <2>2. MetaVersion(m) = Modern BY <2>1 DEF ValidModern, WellFormed, MetaVersion
  <2>3. h.version = Modern /\ h.method = "tools/call" /\ h.name = m.name BY <1>1, <2>1 DEF ValidModern
  <2>4. Version(h, m) = Modern BY <1>2 DEF Version
  <2> QED BY <2>2, <2>3, <2>4
<1>3. CASE ~ModernIntent(h, m)
  <2>1. ValidLegacy(h, m) BY <1>3 DEF Valid
  <2>2. h.method \in {Absent, "tools/call"} /\ h.name \in {Absent, m.name} BY <1>1, <2>1 DEF ValidLegacy
  <2>3. {h.version, MetaVersion(m)} \subseteq Legacy \cup {Absent} BY <1>3 DEF ModernIntent
  <2>4. Version(h, m) # Modern BY <1>3, VersionKnown
  <2> QED BY <2>2, <2>3, <2>4
<1> QED BY <1>2, <1>3

LEMMA McpInitHolds == McpInit => McpIInv
  BY DEF McpInit, McpIInv, Justified

LEMMA McpNextHolds == McpIInv /\ [McpNext]_mcpVars => McpIInv'
<1> SUFFICES ASSUME McpIInv, [McpNext]_mcpVars PROVE McpIInv'
  OBVIOUS
<1>1. CASE post = Absent /\ \E p \in Posts : Receive(p)
  <2>1. PICK p \in Posts : Receive(p) BY <1>1
  <2>2. ran = {} /\ at = 1 /\ selected = Absent BY <1>1 DEF McpIInv
  <2>3. post' = p /\ p # Absent BY <2>1, McpAssumption DEF Receive
  <2> QED BY <2>1, <2>2, <2>3 DEF McpIInv, Receive
<1>2. CASE RefuseBatch
  BY <1>2 DEF McpIInv, RefuseBatch, Justified, Valid, Runs, Version, IsNotification
<1>3. CASE RefuseMessage
  BY <1>3 DEF McpIInv, RefuseMessage, Justified
<1>4. CASE Handle
  <2> DEFINE m == post.messages[at]
             h == post.header
             new == [message |-> at, tool |-> m.name, version |-> Version(h, m)]
  <2>1. /\ post # Absent /\ post \in Posts /\ at <= Len(post.messages)
        /\ ~Refused(h, m) /\ selected' = Version(h, m) /\ at' = at + 1 /\ post' = post
        /\ ran' \in {ran, ran \cup {new}} /\ (ran' # ran => Runs(m))
    BY <1>4 DEF Handle, Ready, Handling, Message, Dispatch, McpIInv
  <2>2. Valid(h, m) /\ Version(h, m) # Absent BY <2>1, VersionKnown DEF Refused
  <2>3. ran # {} => selected = Version(h, m)
    <3> SUFFICES ASSUME ran # {} PROVE selected = Version(h, m)
      OBVIOUS
    <3>1. at > 1 /\ selected # Absent BY DEF McpIInv
    <3>2. post.batch BY <2>1, <3>1, McpAssumption DEF McpIInv
    <3> QED BY <2>1, <3>1, <3>2 DEF Refused
  <2>4. ASSUME NEW r \in ran' PROVE Justified(r)'
    <3>1. CASE r \in ran
      BY <2>1, <2>3, <3>1 DEF McpIInv, Justified
    <3>2. CASE r \notin ran
      <4>1. r = new /\ Runs(m) BY <2>1, <2>4, <3>2
      <4> QED BY <2>1, <2>2, <4>1 DEF Justified
    <3> QED BY <3>1, <3>2
  <2> QED BY <2>1, <2>2, <2>4 DEF McpIInv
<1>5. CASE Reply
  BY <1>5 DEF McpIInv, Reply, Justified
<1>6. CASE UNCHANGED mcpVars
  BY <1>6 DEF McpIInv, mcpVars, Justified
<1> QED BY <1>1, <1>2, <1>3, <1>4, <1>5, <1>6 DEF McpNext

\* No tool runs on the word of a header that the body contradicts, nor under two
\* versions for one POST (validateHTTPRequest, handleLegacyBatch).
THEOREM SourcesAlwaysAgree == McpSpec => []SourcesAgree
<1>1. McpIInv => SourcesAgree
  <2> SUFFICES ASSUME McpIInv, NEW r \in ran
               PROVE  LET m == post.messages[r.message]
                          h == post.header
                      IN /\ h.method \in {Absent, "tools/call"} /\ h.name \in {Absent, r.tool}
                         /\ IF r.version = Modern
                            THEN /\ h.version = Modern /\ MetaVersion(m) = Modern
                                 /\ h.method = "tools/call" /\ h.name = r.tool
                            ELSE {h.version, MetaVersion(m)} \subseteq Legacy \cup {Absent}
                         /\ \A q \in ran : q.version = r.version
    BY DEF SourcesAgree
  <2>1. Justified(r) /\ \A q \in ran : Justified(q) BY DEF McpIInv
  <2>2. \A q \in ran : q.version = r.version BY <2>1 DEF Justified
  <2> DEFINE m == post.messages[r.message]
             h == post.header
  <2>3. Valid(h, m) /\ Runs(m) /\ r.tool = m.name /\ r.version = Version(h, m) BY <2>1 DEF Justified
  <2> HIDE DEF m, h
  <2>4. /\ h.method \in {Absent, "tools/call"} /\ h.name \in {Absent, m.name}
        /\ IF Version(h, m) = Modern
           THEN h.version = Modern /\ MetaVersion(m) = Modern /\ h.method = "tools/call" /\ h.name = m.name
           ELSE {h.version, MetaVersion(m)} \subseteq Legacy \cup {Absent}
    BY <2>3, ValidCallAgrees
  <2> QED BY <2>2, <2>3, <2>4 DEF m, h
<1> QED BY McpInitHolds, McpNextHolds, <1>1, PTL DEF McpSpec
=============================================================================
