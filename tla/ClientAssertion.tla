-------------------------- MODULE ClientAssertion --------------------------
(***************************************************************************)
(* Token requests of a client that signs assertions                        *)
(* (internal/auth/client_assertion.go and the handler of /oauth/token in   *)
(* http.go): the assertion is checked against a cached set of signing      *)
(* keys, looked up in the table of assertions that were used, and recorded *)
(* there once the exchange has succeeded.  No lock is held from one to the *)
(* next, nor while keys are fetched.                                       *)
(*                                                                         *)
(* An assertion is [id, key, expires]; that it is well-formed, for this    *)
(* client and audience, and not from the future is taken as given.         *)
(***************************************************************************)
EXTENDS Naturals

CONSTANTS
  Assertions,    \* assertions that are sent: [id, key, expires]
  TokenCalls,    \* requests
  KeySets,       \* sets of signing keys the client's host may serve
  KeyTTL,        \* life of the cached key set
  Lifetime,      \* the longest an assertion may still have to live, and the
                 \* time a used one is remembered
  Missing,       \* absence of a request
  LastMoment     \* bound on the clock

\* The last conjunct: a client gives an identifier to one assertion only.
ASSUME AssertionAssumption ==
  /\ {KeyTTL, Lifetime} \subseteq Nat \ {0} /\ LastMoment \in Nat
  /\ \A x \in Assertions : x.expires \in Nat
  /\ \A x, y \in Assertions : x.id = y.id => x.expires = y.expires

Ids == {x.id : x \in Assertions}
Keys == UNION KeySets

VARIABLES
  published,  \* the keys the client's host serves
  withdrawn,  \* history: when each key was taken out last
  known,      \* the cached key set
  knownUntil, \* its end
  used,       \* the table: per id, the end of its entry, 0 without one
  token,      \* per request: [assertion, began, stage, keys] or Missing
  today,      \* the clock
  spent,      \* history: ids an exchange was ever recorded for
  late,       \* history: a request was admitted although its id was spent before
  stale       \* history: a request was admitted on a key withdrawn long before

assertionVars == <<published, withdrawn, known, knownUntil, used, token, today, spent, late, stale>>

-----------------------------------------------------------------------------
At(c, stage) == token[c] # Missing /\ token[c].stage = stage
Move(c, stage) == token' = [token EXCEPT ![c].stage = stage]
End(c) == token' = [token EXCEPT ![c] = Missing]

\* A request arrives; the handler's clock for the assertion is read here.
Verify(c, x) ==
  /\ token[c] = Missing
  /\ today < x.expires /\ x.expires <= today + Lifetime
  /\ token' = [token EXCEPT ![c] = [assertion |-> x, began |-> today, stage |-> "key", keys |-> {}]]
  /\ UNCHANGED <<published, withdrawn, known, knownUntil, used, today, spent, late, stale>>

\* A fresh key set decides at once, also about a key it does not have.
KeyFromCache(c) ==
  /\ At(c, "key") /\ token[c].began < knownUntil
  /\ IF token[c].assertion.key \in known THEN Move(c, "check") ELSE End(c)
  /\ UNCHANGED <<published, withdrawn, known, knownUntil, used, today, spent, late, stale>>

KeyFetch(c) ==
  /\ At(c, "key") /\ token[c].began >= knownUntil
  /\ token' = [token EXCEPT ![c].stage = "fetched", ![c].keys = published]
  /\ UNCHANGED <<published, withdrawn, known, knownUntil, used, today, spent, late, stale>>

\* Mutant: the key set lives from the end of the fetch.
KeyStoreLonger(c) ==
  /\ At(c, "fetched")
  /\ known' = token[c].keys /\ knownUntil' = today + KeyTTL
  /\ IF token[c].assertion.key \in token[c].keys THEN Move(c, "check") ELSE End(c)
  /\ UNCHANGED <<published, withdrawn, used, today, spent, late, stale>>

\* The key set lives from the moment the request began, however long it took
\* and whatever another request has stored meanwhile.
KeyStore(c) ==
  /\ At(c, "fetched")
  /\ known' = token[c].keys /\ knownUntil' = token[c].began + KeyTTL
  /\ IF token[c].assertion.key \in token[c].keys THEN Move(c, "check") ELSE End(c)
  /\ UNCHANGED <<published, withdrawn, used, today, spent, late, stale>>

\* The fetch fails, or the signature does not match.
VerifyFails(c) ==
  /\ At(c, "key") \/ At(c, "fetched") \/ At(c, "check")
  /\ End(c)
  /\ UNCHANGED <<published, withdrawn, known, knownUntil, used, today, spent, late, stale>>

\* authenticateTokenClient: entries that are over are dropped first.
Check(c) ==
  /\ At(c, "check")
  /\ used' = [i \in Ids |-> IF today < used[i] THEN used[i] ELSE 0]
  /\ LET x == token[c].assertion
     IN IF used'[x.id] # 0
        THEN End(c) /\ UNCHANGED <<late, stale>>
        ELSE /\ Move(c, "exchange")
             /\ late' = (late \/ (x.id \in spent /\ today < x.expires))
             /\ stale' = (stale \/ (x.key \notin published /\ withdrawn[x.key] + KeyTTL <= token[c].began))
  /\ UNCHANGED <<published, withdrawn, known, knownUntil, today, spent>>

\* The store refuses the code or the refresh token: the assertion is not spent.
ExchangeFails(c) ==
  /\ At(c, "exchange")
  /\ End(c)
  /\ UNCHANGED <<published, withdrawn, known, knownUntil, used, today, spent, late, stale>>

\* Mutant: a used assertion is remembered for less than it may live.
RecordShort(c) ==
  /\ At(c, "exchange")
  /\ LET i == token[c].assertion.id
     IN used' = [used EXCEPT ![i] = today + Lifetime - 1] /\ spent' = spent \cup {i}
  /\ End(c)
  /\ UNCHANGED <<published, withdrawn, known, knownUntil, today, late, stale>>

Record(c) ==
  /\ At(c, "exchange")
  /\ LET i == token[c].assertion.id
     IN used' = [used EXCEPT ![i] = today + Lifetime] /\ spent' = spent \cup {i}
  /\ End(c)
  /\ UNCHANGED <<published, withdrawn, known, knownUntil, today, late, stale>>

\* The client's host changes its keys.
ChangeKeys(ks) ==
  /\ published' = ks
  /\ withdrawn' = [k \in Keys |-> IF k \in published \ ks THEN today ELSE withdrawn[k]]
  /\ UNCHANGED <<known, knownUntil, used, token, today, spent, late, stale>>

AssertionTick ==
  /\ today < LastMoment
  /\ today' = today + 1
  /\ UNCHANGED <<published, withdrawn, known, knownUntil, used, token, spent, late, stale>>

AssertionInit ==
  /\ published \in KeySets /\ withdrawn = [k \in Keys |-> 0]
  /\ known = {} /\ knownUntil = 0
  /\ used = [i \in Ids |-> 0]
  /\ token = [c \in TokenCalls |-> Missing]
  /\ today = 0
  /\ spent = {} /\ late = FALSE /\ stale = FALSE

AssertionNext ==
  \/ \E c \in TokenCalls :
       \/ \E x \in Assertions : Verify(c, x)
       \/ KeyFromCache(c) \/ KeyFetch(c) \/ KeyStore(c) \/ VerifyFails(c)
       \/ Check(c) \/ ExchangeFails(c) \/ Record(c)
  \/ \E ks \in KeySets : ChangeKeys(ks)
  \/ AssertionTick

AssertionSpec == AssertionInit /\ [][AssertionNext]_assertionVars

-----------------------------------------------------------------------------
(* Properties. *)

\* An assertion whose exchange has been recorded is not accepted again while it
\* is valid, whatever else has expired in the meantime: two requests can share
\* one only if they overlap ("client assertion was replayed").  This is of one
\* process: the table is in memory, and a restart of the bridge forgets it.
NoLateReplay == ~late

\* A key its owner has withdrawn is trusted for the life of the key set at most,
\* measured to the time the request is judged by, however slow the fetches are
\* and in whatever order they end (ChatGPTAssertionVerifier.key).
KeysAreRecent == ~stale
=============================================================================
