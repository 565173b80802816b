-------------------------- MODULE AuthStoreProofs --------------------------
(***************************************************************************)
(* Theorems of AuthStore, for every number of codes, clients and audiences,*)
(* all limits and all lives of tokens.                                     *)
(***************************************************************************)
EXTENDS AuthStore, FiniteSetTheorems, TLAPS

-----------------------------------------------------------------------------
(* Type correctness. *)

LEMMA LiveSubset == ASSUME NEW rs PROVE Live(rs) \subseteq rs
  BY DEF Live

LEMMA LiveCodesType ==
  ASSUME codes \in [Families -> Code \cup {None}]
  PROVE  LiveCodes \in [Families -> Code \cup {None}]
  BY DEF LiveCodes

\* New tokens are tokens of their family and generation, one of each kind, with
\* time left.
LEMMA NewTokensFacts ==
  ASSUME now \in Nat, NEW f \in Families, NEW gen \in 0..MaxGen, NEW c \in Clients,
         NEW a \in Audiences, NEW refresh \in BOOLEAN, NEW u \in NewTokens(f, gen, c, a, refresh)
  PROVE  /\ u \in Token
         /\ u.family = f /\ u.gen = gen /\ u.audience = a
         /\ u.expires > now
         /\ \A v \in NewTokens(f, gen, c, a, refresh) : v.kind = u.kind => v = u
<1>1. PICK k \in Kinds : u = [family |-> f, gen |-> gen, kind |-> k, client |-> c, audience |-> a,
                              expires |-> now + IF k = "access" THEN AccessTTL ELSE RefreshTTL]
  BY DEF NewTokens, Kinds
<1>2. (IF k = "access" THEN AccessTTL ELSE RefreshTTL) \in Nat \ {0}
  BY AuthAssumption
<1>3. now + (IF k = "access" THEN AccessTTL ELSE RefreshTTL) \in Nat
      /\ now + (IF k = "access" THEN AccessTTL ELSE RefreshTTL) > now
  BY <1>2
<1>4. u.expires > now /\ u \in Token
  BY <1>1, <1>3 DEF Token
<1>5. ASSUME NEW v \in NewTokens(f, gen, c, a, refresh), v.kind = u.kind PROVE v = u
  BY <1>1, <1>5 DEF NewTokens
<1> QED BY <1>1, <1>4, <1>5

LEMMA WriteType ==
  ASSUME NEW cl \in SUBSET Clients, NEW ts \in SUBSET Token, NEW tbs \in SUBSET Tombstone,
         Write(cl, ts, tbs)
  PROVE  disk' \in State
  BY LiveSubset DEF Write, State

LEMMA RefusedType ==
  ASSUME TypeOK, Refused
  PROVE  tokens' \subseteq Token /\ tombs' \subseteq Tombstone /\ disk' \in State
  BY LiveSubset DEF Refused, TypeOK

LEMMA DropType ==
  ASSUME TypeOK, NEW ts \in SUBSET tokens, NEW tbs \in SUBSET tombs, NEW fs \in SUBSET Families,
         NEW io \in BOOLEAN, Drop(ts, tbs, fs, io)
  PROVE  /\ tokens' \subseteq Token /\ tombs' \subseteq Tombstone /\ disk' \in State
         /\ revoking' \subseteq Families /\ revoked' \subseteq revoking'
<1>1. ts \subseteq Token /\ tbs \subseteq Tombstone /\ clients \subseteq Clients
  BY DEF TypeOK
<1>2. disk' \in State
  BY <1>1, WriteType DEF Drop, TypeOK
<1> QED BY <1>1, <1>2, LiveSubset DEF Drop, TypeOK

LEMMA IssueType ==
  ASSUME TypeOK, NEW new \in SUBSET Token, NEW ts \in SUBSET tokens,
         NEW tbs \in SUBSET Tombstone, Issue(new, ts, tbs)
  PROVE  /\ tokens' \subseteq Token /\ tombs' \subseteq Tombstone /\ disk' \in State
         /\ told' \subseteq Token
<1>1. ts \cup new \subseteq Token /\ clients \subseteq Clients
  BY DEF TypeOK
<1>2. disk' \in State
  BY <1>1, WriteType DEF Issue
<1> QED BY <1>1, <1>2, LiveSubset DEF Issue, TypeOK

LEMMA TypeInit == Init => TypeOK
<1> SUFFICES ASSUME Init PROVE TypeOK
  OBVIOUS
<1>1. disk \in State
  BY DEF Init, State
<1>2. codes \in [Families -> Code \cup {None}] /\ exchanges \in [Families -> Nat]
  BY DEF Init
<1> QED BY <1>1, <1>2 DEF Init, TypeOK

LEMMA FirstTokensType ==
  ASSUME TypeOK, NEW f \in Families, LiveCodes[f] # None
  PROVE  FirstTokens(f) \subseteq Token
<1>1. LiveCodes[f] \in Code
  BY LiveCodesType DEF TypeOK
<1>2. 0 \in 0..MaxGen
  BY AuthAssumption
<1> QED BY <1>1, <1>2, NewTokensFacts DEF FirstTokens, TypeOK, Code

LEMMA NextTokensType ==
  ASSUME TypeOK, NEW t \in Token, t.gen < MaxGen
  PROVE  NextTokens(t) \subseteq Token
<1>1. t.gen + 1 \in 0..MaxGen
  BY AuthAssumption DEF Token
<1>2. now \in Nat /\ t.family \in Families /\ t.client \in Clients /\ t.audience \in Audiences /\ TRUE \in BOOLEAN
  BY DEF TypeOK, Token
<1>3. \A u \in NewTokens(t.family, t.gen + 1, t.client, t.audience, TRUE) : u \in Token
  BY <1>1, <1>2, NewTokensFacts
<1> QED BY <1>3 DEF NextTokens

LEMMA TombType == ASSUME NEW t \in Token PROVE TombOf(t) \in Tombstone
  BY DEF TombOf, Token, Tombstone

LEMMA TypeNext == TypeOK /\ [Next]_vars => TypeOK'
<1> SUFFICES ASSUME TypeOK, [Next]_vars PROVE TypeOK'
  OBVIOUS
<1>0. LiveCodes \in [Families -> Code \cup {None}]
  BY LiveCodesType DEF TypeOK
<1>1. ASSUME NEW c \in Clients, NEW io \in BOOLEAN, RegisterClient(c, io) PROVE TypeOK'
  <2>1. PICK kept \in SUBSET clients :
          IF Cardinality(kept) < MaxClients /\ io
          THEN /\ clients' = kept \cup {c}
               /\ Write(clients', tokens, tombs)
               /\ drawn' = drawn \cup {c}
          ELSE UNCHANGED <<clients, disk, drawn>>
    BY <1>1 DEF RegisterClient
  <2>2. clients' \in SUBSET Clients /\ drawn' \subseteq Families \cup Clients
    BY <2>1 DEF TypeOK
  <2>3. disk' \in State
    BY <2>1, <2>2, WriteType DEF TypeOK
  <2> QED BY <1>0, <1>1, <2>2, <2>3, LiveSubset DEF RegisterClient, TypeOK
<1>2. ASSUME NEW f \in Families, NEW c \in Clients, NEW a \in Audiences, NEW refresh \in BOOLEAN,
             CreateAuthorizationCode(f, c, a, refresh)
      PROVE  TypeOK'
  <2>1. [client |-> c, audience |-> a, refresh |-> refresh, expires |-> now + CodeTTL] \in Code
    BY AuthAssumption DEF Code, TypeOK
  <2>2. codes' \in [Families -> Code \cup {None}]
    BY <1>0, <1>2, <2>1 DEF CreateAuthorizationCode
  <2> QED BY <1>2, <2>2, LiveSubset DEF CreateAuthorizationCode, TypeOK
<1>3. ASSUME NEW f \in Families, NEW c \in Clients, NEW matches \in BOOLEAN, NEW io \in BOOLEAN,
             ExchangeAuthorizationCode(f, c, matches, io)
      PROVE  TypeOK'
  <2>1. codes' \in [Families -> Code \cup {None}]
    BY <1>0, <1>3 DEF ExchangeAuthorizationCode
  <2>2. CASE Exchangeable(f, c, matches) /\ Fits(tokens, FirstTokens(f)) /\ io
    <3>1. Issue(FirstTokens(f), tokens, tombs) /\ exchanges' = [exchanges EXCEPT ![f] = @ + 1]
      BY <1>3, <2>2 DEF ExchangeAuthorizationCode
    <3>2. FirstTokens(f) \subseteq Token
      BY <2>2, FirstTokensType DEF Exchangeable
    <3>3. tokens' \subseteq Token /\ tombs' \subseteq Tombstone /\ disk' \in State /\ told' \subseteq Token
      BY <3>1, <3>2, IssueType DEF TypeOK
    <3>4. exchanges' \in [Families -> Nat]
      BY <3>1 DEF TypeOK
    <3> QED BY <1>3, <2>1, <3>1, <3>3, <3>4 DEF ExchangeAuthorizationCode, Issue, TypeOK
  <2>3. CASE ~(Exchangeable(f, c, matches) /\ Fits(tokens, FirstTokens(f)) /\ io)
    <3>1. Refused
      BY <1>3, <2>3 DEF ExchangeAuthorizationCode
    <3> QED BY <1>3, <2>1, <3>1, RefusedType DEF ExchangeAuthorizationCode, Refused, TypeOK
  <2> QED BY <2>2, <2>3
<1>4. ASSUME NEW t \in told, NEW c \in Clients, NEW matches \in BOOLEAN, NEW io \in BOOLEAN,
             Refresh(t, c, matches, io)
      PROVE  TypeOK'
  <2>0. t \in Token /\ t.family \in Families /\ t.gen < MaxGen
    BY <1>4 DEF TypeOK, Refresh, Token
  <2>1. CASE Refreshable(t, c, matches) /\ io
    <3>1. Issue(NextTokens(t), tokens \ {t}, tombs \cup {TombOf(t)}) /\ UNCHANGED exchanges
      BY <1>4, <2>1 DEF Refresh, Rotate
    <3>2. NextTokens(t) \subseteq Token /\ tombs \cup {TombOf(t)} \subseteq Tombstone
      BY <2>0, NextTokensType, TombType DEF TypeOK
    <3>3. tokens' \subseteq Token /\ tombs' \subseteq Tombstone /\ disk' \in State /\ told' \subseteq Token
      BY <3>1, <3>2, IssueType
    <3> QED BY <1>0, <1>4, <3>1, <3>3 DEF Refresh, Issue, TypeOK
  <2>2. CASE ~(Refreshable(t, c, matches) /\ io) /\ Replays(t)
    <3>1. Drop(tokens \ OfFamily(tokens, t.family), tombs, {t.family}, io)
      BY <1>4, <2>2 DEF Refresh
    <3>2. /\ tokens' \subseteq Token /\ tombs' \subseteq Tombstone /\ disk' \in State
          /\ revoking' \subseteq Families /\ revoked' \subseteq revoking'
      BY <2>0, <3>1, DropType
    <3> QED BY <1>0, <1>4, <3>1, <3>2 DEF Refresh, Drop, TypeOK
  <2>3. CASE ~(Refreshable(t, c, matches) /\ io) /\ ~Replays(t)
    <3>1. Refused
      BY <1>4, <2>3 DEF Refresh
    <3> QED BY <1>0, <1>4, <3>1, RefusedType DEF Refresh, Refused, TypeOK
  <2> QED BY <2>1, <2>2, <2>3
<1>5. ASSUME NEW t \in told, NEW io \in BOOLEAN, Revoke(t, io) PROVE TypeOK'
  <2>0. t.family \in Families
    BY DEF TypeOK, Token
  <2>1. PICK ts \in SUBSET tokens, fs \in SUBSET Families : Drop(ts, tombs, fs, io)
    BY <1>5, <2>0 DEF Revoke
  <2>2. /\ tokens' \subseteq Token /\ tombs' \subseteq Tombstone /\ disk' \in State
        /\ revoking' \subseteq Families /\ revoked' \subseteq revoking'
    BY <2>1, DropType
  <2> QED BY <1>0, <1>5, <2>1, <2>2 DEF Revoke, Drop, TypeOK
<1>6. ASSUME NEW io \in BOOLEAN, RevokeAll(io) PROVE TypeOK'
  <2>1. Drop({}, {}, Families \cap drawn, io)
    BY <1>6 DEF RevokeAll
  <2>2. /\ tokens' \subseteq Token /\ tombs' \subseteq Tombstone /\ disk' \in State
        /\ revoking' \subseteq Families /\ revoked' \subseteq revoking'
    BY <2>1, DropType
  <2> QED BY <1>6, <2>1, <2>2 DEF RevokeAll, Drop, TypeOK
<1>7. ASSUME NEW a \in Audiences, NEW io \in BOOLEAN, RevokeAudience(a, io) PROVE TypeOK'
  <2>1. PICK ts \in SUBSET tokens, tbs \in SUBSET tombs, fs \in SUBSET Families : Drop(ts, tbs, fs, io)
    <3>1. {t.family : t \in OfAudience(told, a)} \subseteq Families
      BY DEF OfAudience, TypeOK, Token
    <3> QED BY <1>7, <3>1 DEF RevokeAudience
  <2>2. /\ tokens' \subseteq Token /\ tombs' \subseteq Tombstone /\ disk' \in State
        /\ revoking' \subseteq Families /\ revoked' \subseteq revoking'
    BY <2>1, DropType
  <2> QED BY <1>0, <1>7, <2>1, <2>2 DEF RevokeAudience, Drop, TypeOK
<1>8. ASSUME NEW io \in BOOLEAN, RevokeAllOffline(io) PROVE TypeOK'
  <2>1. disk' \in State
    BY <1>8 DEF RevokeAllOffline, TypeOK, State
  <2> QED BY <1>8, <2>1 DEF RevokeAllOffline, TypeOK, memory
<1>9. CASE NewStore
  <2>1. tokens' \subseteq Token /\ tombs' \subseteq Tombstone /\ clients' \subseteq Clients
    BY <1>9, LiveSubset DEF NewStore, TypeOK, State
  <2> QED BY <1>9, <2>1 DEF NewStore, TypeOK, history
<1>10. CASE Crash
  BY <1>10 DEF Crash, TypeOK, history
<1>11. CASE Tick
  BY <1>11 DEF Tick, TypeOK, memory, history
<1>12. CASE UNCHANGED vars
  BY <1>12 DEF vars, memory, history, TypeOK
<1> QED BY <1>1, <1>2, <1>3, <1>4, <1>5, <1>6, <1>7, <1>8, <1>9, <1>10, <1>11, <1>12 DEF Next, Call

\* Type correctness: whatever is stored, written or returned is a client, a
\* code, a token or a tombstone (internal/auth/store.go).
THEOREM TypeCorrect == Spec => []TypeOK
<1> QED BY TypeInit, TypeNext, PTL DEF Spec

-----------------------------------------------------------------------------
(* What a step does to records, codes and histories. *)

\* Records leave the file, but those that are in use, live and not revoked stay.
Shrinks(held, file, held2, file2) ==
  /\ file2 \subseteq file
  /\ \A x \in file : x.expires > now' /\ x.family \notin revoking' /\ (up => x \in held)
       => x \in file2 /\ (up' => x \in held2)

CodesShrink == \A f \in Families : codes'[f] # None => codes[f] # None \/ (f \notin drawn /\ f \in drawn')

\* Nothing is granted; the revocation of fs is reported.
ShrinkEffect(fs) ==
  /\ Shrinks(tokens, disk.tokens, tokens', disk'.tokens)
  /\ Shrinks(tombs, disk.tombs, tombs', disk'.tombs)
  /\ CodesShrink
  /\ fs \subseteq drawn /\ \A f \in fs : codes'[f] = None
  /\ \A x \in disk'.tokens : x.family \notin fs
  /\ told' = told /\ exchanges' = exchanges /\ revoked' = revoked \cup fs

\* New tokens of one generation of the family f.
Granted(new, f, gen, a) ==
  \A u \in new : /\ u \in Token /\ u.family = f /\ u.gen = gen /\ u.audience = a /\ u.expires > now
                 /\ \A v \in new : v.kind = u.kind => v = u

IssueEffect(new, ts, tbs) ==
  /\ up /\ up' /\ now' = now
  /\ tokens' = Live(ts) \cup new /\ disk'.tokens = Live(ts) \cup new
  /\ tombs' = Live(tbs) /\ disk'.tombs = Live(tbs)
  /\ told' = told \cup new
  /\ UNCHANGED <<revoking, revoked, drawn>>

ExchangeEffect(f, new, a) ==
  /\ IssueEffect(new, tokens, tombs)
  /\ Granted(new, f, 0, a)
  /\ codes[f] # None /\ codes'[f] = None /\ CodesShrink
  /\ exchanges' = [exchanges EXCEPT ![f] = @ + 1]

RotateEffect(t, new) ==
  /\ IssueEffect(new, tokens \ {t}, tombs \cup {TombOf(t)})
  /\ new # {} /\ Granted(new, t.family, t.gen + 1, t.audience)
  /\ t \in tokens /\ t.kind = "refresh" /\ t.expires > now
  /\ CodesShrink
  /\ exchanges' = exchanges

Effect ==
  \/ \E fs \in SUBSET Families : ShrinkEffect(fs)
  \/ \E f \in Families, a \in Audiences, new \in SUBSET Token : ExchangeEffect(f, new, a)
  \/ \E t \in tokens, new \in SUBSET Token : RotateEffect(t, new)

StepEffect ==
  /\ Effect
  /\ now' \in Nat /\ now <= now' /\ drawn \subseteq drawn' /\ revoking \subseteq revoking'

LEMMA LiveCodesShrink ==
  ASSUME NEW f \in Families, LiveCodes[f] # None PROVE codes[f] # None /\ LiveCodes[f] = codes[f]
  BY DEF LiveCodes

LEMMA WriteFacts ==
  ASSUME NEW cl, NEW ts, NEW tbs, Write(cl, ts, tbs)
  PROVE  disk'.clients = cl /\ disk'.tokens = Live(ts) /\ disk'.tombs = Live(tbs)
  BY DEF Write

\* An operation that only prunes.
LEMMA PruneShrinks ==
  ASSUME IInv, up, up', now' = now, tokens' = Live(tokens), tombs' = Live(tombs), revoking' = revoking,
         disk' = disk \/ (disk'.tokens = Live(tokens) /\ disk'.tombs = Live(tombs))
  PROVE  /\ Shrinks(tokens, disk.tokens, tokens', disk'.tokens)
         /\ Shrinks(tombs, disk.tombs, tombs', disk'.tombs)
         /\ tokens' \subseteq disk'.tokens /\ tombs' \subseteq disk'.tombs
  BY DEF IInv, MemoryIsWritten, Shrinks, Live

\* What every action is shown to do, besides keeping what is in memory on the file.
Shrunk == (\E fs \in SUBSET Families : ShrinkEffect(fs)) /\ MemoryIsWritten'
          /\ now' \in Nat /\ now <= now' /\ drawn \subseteq drawn' /\ revoking \subseteq revoking'

LEMMA RegisterEffect ==
  ASSUME IInv, NEW c \in Clients, NEW io \in BOOLEAN, RegisterClient(c, io)
  PROVE  Shrunk
<1>1. PICK kept \in SUBSET clients :
        IF Cardinality(kept) < MaxClients /\ io
        THEN /\ clients' = kept \cup {c}
             /\ Write(clients', tokens, tombs)
             /\ drawn' = drawn \cup {c}
        ELSE UNCHANGED <<clients, disk, drawn>>
  BY DEF RegisterClient
<1>2. /\ disk' = disk \/ (disk'.tokens = Live(tokens) /\ disk'.tombs = Live(tombs))
      /\ clients' = disk'.clients /\ drawn \subseteq drawn'
  BY <1>1, WriteFacts DEF IInv, MemoryIsWritten, RegisterClient
<1>3. /\ up /\ up' /\ now' = now /\ tokens' = Live(tokens) /\ tombs' = Live(tombs)
      /\ UNCHANGED <<told, exchanges, revoking, revoked>> /\ codes' = LiveCodes
  BY DEF RegisterClient
<1>4. /\ Shrinks(tokens, disk.tokens, tokens', disk'.tokens)
      /\ Shrinks(tombs, disk.tombs, tombs', disk'.tombs)
      /\ tokens' \subseteq disk'.tokens /\ tombs' \subseteq disk'.tombs
  BY <1>2, <1>3, PruneShrinks
<1>5. CodesShrink
  BY <1>3, LiveCodesShrink DEF CodesShrink
<1>6. ShrinkEffect({})
  BY <1>3, <1>4, <1>5 DEF ShrinkEffect
<1>7. MemoryIsWritten'
  BY <1>2, <1>3, <1>4 DEF MemoryIsWritten
<1> QED BY <1>2, <1>3, <1>6, <1>7 DEF Shrunk, IInv, TypeOK

LEMMA CreateCodeEffect ==
  ASSUME IInv, NEW f \in Families, NEW c \in Clients, NEW a \in Audiences, NEW refresh \in BOOLEAN,
         CreateAuthorizationCode(f, c, a, refresh)
  PROVE  Shrunk
<1>1. /\ up /\ up' /\ now' = now /\ tokens' = Live(tokens) /\ tombs' = Live(tombs) /\ disk' = disk
      /\ UNCHANGED <<clients, told, exchanges, revoking, revoked>>
      /\ f \notin drawn /\ drawn \subseteq drawn'
  BY DEF CreateAuthorizationCode
<1>2. ASSUME NEW g \in Families, codes'[g] # None
      PROVE  codes[g] # None \/ (g \notin drawn /\ g \in drawn')
  <2>1. CASE Cardinality(Pending(LiveCodes)) < MaxCodes
    <3>1. CASE g = f
      BY <1>1, <2>1, <3>1 DEF CreateAuthorizationCode
    <3>2. CASE g # f
      <4>1. codes'[g] = LiveCodes[g]
        BY <2>1, <3>2 DEF CreateAuthorizationCode, LiveCodes
      <4> QED BY <1>2, <4>1, LiveCodesShrink
    <3> QED BY <3>1, <3>2
  <2>2. CASE ~(Cardinality(Pending(LiveCodes)) < MaxCodes)
    BY <1>2, <2>2, LiveCodesShrink DEF CreateAuthorizationCode
  <2> QED BY <2>1, <2>2
<1>3. /\ Shrinks(tokens, disk.tokens, tokens', disk'.tokens)
      /\ Shrinks(tombs, disk.tombs, tombs', disk'.tombs)
      /\ tokens' \subseteq disk'.tokens /\ tombs' \subseteq disk'.tombs
  BY <1>1, PruneShrinks
<1>4. ShrinkEffect({})
  BY <1>1, <1>2, <1>3 DEF ShrinkEffect, CodesShrink
<1>5. MemoryIsWritten'
  BY <1>1, <1>3 DEF MemoryIsWritten, IInv
<1> QED BY <1>1, <1>4, <1>5 DEF Shrunk, IInv, TypeOK

LEMMA RefusedEffect ==
  ASSUME IInv, up, UNCHANGED <<up, clients, now, drawn, exchanges>>, Refused,
         \A g \in Families : codes'[g] # None => codes[g] # None
  PROVE  Shrunk
<1>1. /\ tokens' = Live(tokens) /\ tombs' = Live(tombs) /\ disk' = disk /\ now' = now /\ up'
      /\ UNCHANGED <<told, revoking, revoked>>
  BY DEF Refused
<1>2. /\ Shrinks(tokens, disk.tokens, tokens', disk'.tokens)
      /\ Shrinks(tombs, disk.tombs, tombs', disk'.tombs)
      /\ tokens' \subseteq disk'.tokens /\ tombs' \subseteq disk'.tombs
  BY <1>1, PruneShrinks
<1>3. ShrinkEffect({})
  BY <1>1, <1>2 DEF ShrinkEffect, CodesShrink
<1>4. MemoryIsWritten'
  BY <1>1, <1>2 DEF MemoryIsWritten, IInv
<1> QED BY <1>1, <1>3, <1>4 DEF Shrunk, IInv, TypeOK

\* A revocation: fs are the families it is for.
LEMMA DropEffect ==
  ASSUME IInv, up, UNCHANGED <<up, clients, now, drawn>>,
         NEW ts \in SUBSET tokens, NEW tbs \in SUBSET tombs,
         NEW fs \in SUBSET Families, NEW io \in BOOLEAN, Drop(ts, tbs, fs, io),
         \A x \in tokens : x \in ts \/ x.family \in fs,
         \A x \in tombs : x \in tbs \/ x.family \in fs,
         \A x \in ts : x.family \notin fs,
         fs \subseteq drawn, \A g \in fs : codes'[g] = None,
         \A g \in Families : codes'[g] # None => codes[g] # None
  PROVE  Shrunk
<1>0. up' /\ now' = now
  OBVIOUS
<1>1. /\ Shrinks(tokens, disk.tokens, tokens', disk'.tokens)
      /\ Shrinks(tombs, disk.tombs, tombs', disk'.tombs)
      /\ tokens' \subseteq disk'.tokens /\ tombs' \subseteq disk'.tombs
      /\ io => \A x \in disk'.tokens : x.family \notin fs
      /\ disk'.clients = disk.clients
      /\ told' = told /\ exchanges' = exchanges
      /\ revoked' = revoked \cup (IF io THEN fs ELSE {}) /\ revoking \subseteq revoking'
  <2>1. CASE io
    <3>1. disk'.clients = clients /\ disk'.tokens = Live(ts) /\ disk'.tombs = Live(tbs)
      BY <2>1, WriteFacts DEF Drop
    <3> QED BY <1>0, <2>1, <3>1 DEF IInv, MemoryIsWritten, Shrinks, Live, Drop
  <2>2. CASE ~io
    BY <1>0, <2>2 DEF IInv, MemoryIsWritten, Shrinks, Live, Drop
  <2> QED BY <2>1, <2>2
<1>2. ShrinkEffect(IF io THEN fs ELSE {})
  BY <1>1 DEF ShrinkEffect, CodesShrink
<1>3. MemoryIsWritten'
  BY <1>1 DEF MemoryIsWritten, IInv
<1> QED BY <1>0, <1>1, <1>2, <1>3 DEF Shrunk, IInv, TypeOK

\* Every family in use has been drawn, and its code is used up.
LEMMA ToldFacts ==
  ASSUME IInv, NEW t \in told
  PROVE  t.family \in Families /\ t.family \in drawn /\ codes[t.family] = None /\ t \in Token
<1>1. t \in Token /\ t.family \in Families /\ exchanges[t.family] = 1
  BY DEF IInv, TypeOK, Token, Chained
<1> QED BY <1>1 DEF IInv, CodesFresh

LEMMA HeldIsTold == ASSUME IInv PROVE tokens \subseteq told /\ disk.tokens \subseteq told
  BY DEF IInv, MemoryIsWritten, Chained

LEMMA HeldTombIsTold ==
  ASSUME IInv, NEW x \in tombs \cup disk.tombs
  PROVE  \E t \in told : x = TombOf(t) /\ x.family = t.family /\ x.audience = t.audience
<1>1. x \in disk.tombs
  BY DEF IInv, MemoryIsWritten
<1> QED BY <1>1 DEF IInv, Chained, TombOf

LEMMA FamilyDropEffect ==
  ASSUME IInv, NEW t \in told, NEW io \in BOOLEAN,
         up, UNCHANGED <<up, clients, now, drawn>>, codes' = LiveCodes,
         Drop(tokens \ OfFamily(tokens, t.family), tombs, {t.family}, io)
  PROVE  Shrunk
<1>1. t.family \in Families /\ t.family \in drawn /\ codes[t.family] = None
  BY ToldFacts
<1>2. \A g \in Families : codes'[g] # None => codes[g] # None
  BY LiveCodesShrink
<1>3. codes'[t.family] = None
  BY <1>1, <1>2
<1> DEFINE ts == tokens \ OfFamily(tokens, t.family)
           fs == {t.family}
<1>4. /\ ts \in SUBSET tokens /\ fs \in SUBSET Families /\ fs \subseteq drawn
      /\ \A x \in tokens : x \in ts \/ x.family \in fs
      /\ \A x \in ts : x.family \notin fs
      /\ \A g \in fs : codes'[g] = None
      /\ \A x \in tombs : x \in tombs \/ x.family \in fs
  BY <1>1, <1>3 DEF OfFamily
<1>5. Drop(ts, tombs, fs, io)
  OBVIOUS
<1> HIDE DEF ts, fs
<1> QED BY <1>2, <1>4, <1>5, DropEffect

LEMMA RevokeEffect ==
  ASSUME IInv, NEW t \in told, NEW io \in BOOLEAN, Revoke(t, io)
  PROVE  Shrunk
<1>1. up /\ UNCHANGED <<up, clients, now, drawn>> /\ codes' = LiveCodes
  BY DEF Revoke
<1>2. CASE Known(t)
  <2>1. Drop(tokens \ OfFamily(tokens, t.family), tombs, {t.family}, io)
    BY <1>2 DEF Revoke
  <2> QED BY <1>1, <2>1, FamilyDropEffect
<1>3. CASE ~Known(t)
  <2>1. Drop(tokens, tombs, {}, io)
    BY <1>3 DEF Revoke
  <2>2. \A g \in Families : codes'[g] # None => codes[g] # None
    BY <1>1, LiveCodesShrink
  <2> QED BY <1>1, <2>1, <2>2, DropEffect
<1> QED BY <1>2, <1>3

LEMMA RevokeAllEffect ==
  ASSUME IInv, NEW io \in BOOLEAN, RevokeAll(io)
  PROVE  Shrunk
<1>1. up /\ UNCHANGED <<up, clients, now, drawn>> /\ codes' = [f \in Families |-> None]
      /\ Drop({}, {}, Families \cap drawn, io)
  BY DEF RevokeAll
<1>2. \A x \in tokens : x.family \in Families \cap drawn
  BY ToldFacts, HeldIsTold
<1>3. \A x \in tombs : x.family \in Families \cap drawn
  BY ToldFacts, HeldTombIsTold
<1> DEFINE fs == Families \cap drawn
<1>4. /\ fs \in SUBSET Families /\ fs \subseteq drawn
      /\ \A x \in tokens : x \in {} \/ x.family \in fs
      /\ \A x \in tombs : x \in {} \/ x.family \in fs
      /\ \A g \in fs : codes'[g] = None
      /\ \A g \in Families : codes'[g] # None => codes[g] # None
      /\ Drop({}, {}, fs, io)
  BY <1>1, <1>2, <1>3
<1> HIDE DEF fs
<1> QED BY <1>1, <1>4, DropEffect

LEMMA RevokeAudienceEffect ==
  ASSUME IInv, NEW a \in Audiences, NEW io \in BOOLEAN, RevokeAudience(a, io)
  PROVE  Shrunk
<1> DEFINE ts == tokens \ OfAudience(tokens, a)
           tbs == tombs \ OfAudience(tombs, a)
           fs == {t.family : t \in OfAudience(told, a)}
<1>1. up /\ UNCHANGED <<up, clients, now, drawn>> /\ codes' = LiveCodes /\ Drop(ts, tbs, fs, io)
  BY DEF RevokeAudience
<1>2. \A x \in tokens : x \in ts \/ x.family \in fs
  BY HeldIsTold DEF OfAudience
<1>3. \A x \in tombs : x \in tbs \/ x.family \in fs
  <2> SUFFICES ASSUME NEW x \in tombs, x.audience = a PROVE x.family \in fs
    BY DEF OfAudience
  <2>1. PICK t \in told : x.family = t.family /\ x.audience = t.audience
    BY HeldTombIsTold
  <2> QED BY <2>1 DEF OfAudience
<1>4. ASSUME NEW x \in ts PROVE x.family \notin fs
  <2>1. x \in told /\ x.audience # a
    BY HeldIsTold DEF OfAudience
  <2>2. \A t \in told : t.family = x.family => t.audience = x.audience
    BY <2>1 DEF IInv, Chained
  <2> QED BY <2>1, <2>2 DEF OfAudience
<1>5. \A g \in Families : codes'[g] # None => codes[g] # None
  BY <1>1, LiveCodesShrink
<1>6. fs \in SUBSET Families /\ fs \subseteq drawn /\ \A g \in fs : codes'[g] = None
  BY <1>5, ToldFacts DEF OfAudience
<1>7. ts \in SUBSET tokens /\ tbs \in SUBSET tombs
  OBVIOUS
<1> HIDE DEF ts, tbs, fs
<1> QED BY <1>1, <1>2, <1>3, <1>4, <1>5, <1>6, <1>7, DropEffect

LEMMA RevokeAllOfflineEffect ==
  ASSUME IInv, NEW io \in BOOLEAN, RevokeAllOffline(io)
  PROVE  Shrunk
<1> DEFINE fs == IF io THEN Families \cap drawn ELSE {}
<1>1. /\ ~up /\ up' = up /\ now' = now /\ clients' = clients /\ codes' = codes /\ tokens' = tokens
      /\ tombs' = tombs /\ drawn' = drawn /\ told' = told /\ exchanges' = exchanges
  BY DEF RevokeAllOffline, memory
<1>2. /\ revoking' = revoking \cup (Families \cap drawn)
      /\ revoked' = revoked \cup fs
      /\ ~io => disk' = disk
      /\ io => disk'.tokens = {} /\ disk'.tombs = {}
  BY DEF RevokeAllOffline
<1>3. /\ tokens = {} /\ tombs = {} /\ clients = {} /\ \A g \in Families : codes[g] = None
  BY <1>1 DEF IInv, MemoryIsWritten
<1>4. \A x \in disk.tokens : x.family \in Families \cap drawn
  BY ToldFacts, HeldIsTold
<1>5. \A x \in disk.tombs : x.family \in Families \cap drawn
  BY ToldFacts, HeldTombIsTold
<1>6. Shrinks(tokens, disk.tokens, tokens', disk'.tokens)
  BY <1>1, <1>2, <1>4 DEF Shrinks
<1>7. Shrinks(tombs, disk.tombs, tombs', disk'.tombs)
  BY <1>1, <1>2, <1>5 DEF Shrinks
<1>8. \A x \in disk'.tokens : x.family \notin fs
  BY <1>2
<1>9. ShrinkEffect(fs)
  BY <1>1, <1>2, <1>3, <1>6, <1>7, <1>8 DEF ShrinkEffect, CodesShrink
<1>10. MemoryIsWritten'
  BY <1>1 DEF MemoryIsWritten, IInv
<1>11. fs \in SUBSET Families
  OBVIOUS
<1> HIDE DEF fs
<1> QED BY <1>1, <1>2, <1>9, <1>10, <1>11 DEF Shrunk, IInv, TypeOK

LEMMA NewStoreEffect == ASSUME IInv, NewStore PROVE Shrunk
<1>1. /\ up' /\ now' = now /\ clients' = disk.clients /\ codes' = codes /\ disk' = disk
      /\ tokens' = Live(disk.tokens) /\ tombs' = Live(disk.tombs)
      /\ drawn' = drawn /\ told' = told /\ exchanges' = exchanges /\ revoking' = revoking /\ revoked' = revoked
  BY DEF NewStore, history
<1>2. /\ Shrinks(tokens, disk.tokens, tokens', disk'.tokens)
      /\ Shrinks(tombs, disk.tombs, tombs', disk'.tombs)
  BY <1>1 DEF Shrinks, Live
<1>3. ShrinkEffect({})
  BY <1>1, <1>2 DEF ShrinkEffect, CodesShrink
<1>4. MemoryIsWritten'
  BY <1>1 DEF MemoryIsWritten, Live
<1> QED BY <1>1, <1>3, <1>4 DEF Shrunk, IInv, TypeOK

LEMMA CrashEffect == ASSUME IInv, Crash PROVE Shrunk
<1>1. /\ ~up' /\ now' = now /\ disk' = disk
      /\ clients' = {} /\ tokens' = {} /\ tombs' = {} /\ codes' = [f \in Families |-> None]
      /\ drawn' = drawn /\ told' = told /\ exchanges' = exchanges /\ revoking' = revoking /\ revoked' = revoked
  BY DEF Crash, history
<1>2. /\ Shrinks(tokens, disk.tokens, tokens', disk'.tokens)
      /\ Shrinks(tombs, disk.tombs, tombs', disk'.tombs)
  BY <1>1 DEF Shrinks
<1>3. ShrinkEffect({})
  BY <1>1, <1>2 DEF ShrinkEffect, CodesShrink
<1>4. MemoryIsWritten'
  BY <1>1 DEF MemoryIsWritten
<1> QED BY <1>1, <1>3, <1>4 DEF Shrunk, IInv, TypeOK

\* The clock, and steps that change nothing.
LEMMA TickEffect ==
  ASSUME IInv, UNCHANGED <<up, memory, disk, history>>, now' = now \/ now' = now + 1
  PROVE  Shrunk
<1>1. /\ up' = up /\ disk' = disk
      /\ clients' = clients /\ codes' = codes /\ tokens' = tokens /\ tombs' = tombs
      /\ drawn' = drawn /\ told' = told /\ exchanges' = exchanges /\ revoking' = revoking /\ revoked' = revoked
  BY DEF memory, history
<1>2. /\ Shrinks(tokens, disk.tokens, tokens', disk'.tokens)
      /\ Shrinks(tombs, disk.tombs, tombs', disk'.tombs)
  BY <1>1 DEF Shrinks
<1>3. ShrinkEffect({})
  BY <1>1, <1>2 DEF ShrinkEffect, CodesShrink
<1>4. MemoryIsWritten'
  BY <1>1 DEF MemoryIsWritten, IInv
<1>5. now' \in Nat /\ now <= now'
  BY DEF IInv, TypeOK
<1> QED BY <1>1, <1>3, <1>4, <1>5 DEF Shrunk

\* New tokens have time left: they are written.
LEMMA IssueFacts ==
  ASSUME IInv, up, UNCHANGED <<up, clients, now, drawn>>, NEW new, NEW ts, NEW tbs,
         Issue(new, ts, tbs), \A u \in new : u.expires > now
  PROVE  IssueEffect(new, ts, tbs) /\ MemoryIsWritten'
<1>0. up' /\ now' = now /\ clients' = clients /\ drawn' = drawn
  OBVIOUS
<1>1. Live(ts \cup new) = Live(ts) \cup new
  BY DEF Live
<1>2. disk'.clients = clients /\ disk'.tokens = Live(ts) \cup new /\ disk'.tombs = Live(tbs)
  BY <1>1, WriteFacts DEF Issue
<1>3. /\ tokens' = Live(ts) \cup new /\ tombs' = Live(tbs) /\ told' = told \cup new
      /\ UNCHANGED <<revoking, revoked>>
  BY DEF Issue
<1>4. IssueEffect(new, ts, tbs)
  BY <1>0, <1>2, <1>3 DEF IssueEffect
<1>5. MemoryIsWritten'
  BY <1>0, <1>2, <1>3 DEF MemoryIsWritten
<1> QED BY <1>4, <1>5

LEMMA ExchangeStep ==
  ASSUME IInv, NEW f \in Families, NEW c \in Clients, NEW matches \in BOOLEAN, NEW io \in BOOLEAN,
         ExchangeAuthorizationCode(f, c, matches, io)
  PROVE  StepEffect /\ MemoryIsWritten'
<1>0. /\ up /\ UNCHANGED <<up, clients, now, drawn>>
      /\ codes' = [LiveCodes EXCEPT ![f] = None]
  BY DEF ExchangeAuthorizationCode
<1>1. codes'[f] = None /\ \A g \in Families : codes'[g] # None => codes[g] # None
  BY <1>0, LiveCodesShrink DEF LiveCodes
<1>2. CASE Exchangeable(f, c, matches) /\ Fits(tokens, FirstTokens(f)) /\ io
  <2>1. Issue(FirstTokens(f), tokens, tombs) /\ exchanges' = [exchanges EXCEPT ![f] = @ + 1]
    BY <1>2 DEF ExchangeAuthorizationCode
  <2>2. LiveCodes[f] # None /\ LiveCodes[f] \in Code /\ codes[f] # None
    BY <1>2, LiveCodesType, LiveCodesShrink DEF Exchangeable, IInv, TypeOK
  <2> DEFINE new == FirstTokens(f)
             a == LiveCodes[f].audience
  <2>3. a \in Audiences /\ now \in Nat /\ 0 \in 0..MaxGen
    BY <2>2, AuthAssumption DEF Code, IInv, TypeOK
  <2>4. Granted(new, f, 0, a) /\ new \in SUBSET Token
    BY <2>2, <2>3, NewTokensFacts DEF Granted, FirstTokens, Code
  <2>5. Issue(new, tokens, tombs)
    BY <2>1
  <2> HIDE DEF new, a
  <2>6. \A u \in new : u.expires > now
    BY <2>4 DEF Granted
  <2>7. IssueEffect(new, tokens, tombs) /\ MemoryIsWritten'
    BY <1>0, <2>5, <2>6, IssueFacts
  <2>8. ExchangeEffect(f, new, a)
    BY <1>1, <2>1, <2>2, <2>4, <2>7 DEF ExchangeEffect, CodesShrink
  <2>9. Effect
    BY <2>3, <2>4, <2>8 DEF Effect
  <2> QED BY <1>0, <2>3, <2>7, <2>9 DEF StepEffect, IssueEffect
<1>3. CASE ~(Exchangeable(f, c, matches) /\ Fits(tokens, FirstTokens(f)) /\ io)
  <2>1. Refused
    BY <1>3 DEF ExchangeAuthorizationCode
  <2>2. Shrunk
    BY <1>0, <1>1, <2>1, RefusedEffect DEF Refused
  <2> QED BY <2>2 DEF Shrunk, StepEffect, Effect
<1> QED BY <1>2, <1>3

LEMMA RefreshStep ==
  ASSUME IInv, NEW t \in told, NEW c \in Clients, NEW matches \in BOOLEAN, NEW io \in BOOLEAN,
         Refresh(t, c, matches, io)
  PROVE  StepEffect /\ MemoryIsWritten'
<1>0. /\ up /\ UNCHANGED <<up, clients, now, drawn>> /\ codes' = LiveCodes /\ t.gen < MaxGen
  BY DEF Refresh
<1>1. \A g \in Families : codes'[g] # None => codes[g] # None
  BY <1>0, LiveCodesShrink
<1>2. CASE Refreshable(t, c, matches) /\ io
  <2> DEFINE new == NextTokens(t)
             ts == tokens \ {t}
             tbs == tombs \cup {TombOf(t)}
  <2>1. Issue(new, ts, tbs) /\ exchanges' = exchanges
    BY <1>2 DEF Refresh, Rotate
  <2>2. t \in tokens /\ t.kind = "refresh" /\ t.expires > now
    BY <1>2 DEF Refreshable, Live
  <2>3. t \in Token /\ now \in Nat
    BY DEF IInv, TypeOK
  <2>4. t.gen + 1 \in 0..MaxGen /\ t.family \in Families /\ t.client \in Clients /\ t.audience \in Audiences
    BY <1>0, <2>3, AuthAssumption DEF Token
  <2>5. Granted(new, t.family, t.gen + 1, t.audience) /\ new \in SUBSET Token
    <3> DEFINE refresh == TRUE
    <3>1. new = NewTokens(t.family, t.gen + 1, t.client, t.audience, refresh) /\ refresh \in BOOLEAN
      BY DEF NextTokens
    <3> HIDE DEF new, refresh
    <3> QED BY <2>3, <2>4, <3>1, NewTokensFacts DEF Granted
  <2>10. new # {}
    BY DEF NextTokens, NewTokens, Kinds
  <2> HIDE DEF new, ts, tbs
  <2>6. \A u \in new : u.expires > now
    BY <2>5 DEF Granted
  <2>7. IssueEffect(new, ts, tbs) /\ MemoryIsWritten'
    BY <1>0, <2>1, <2>6, IssueFacts
  <2>8. RotateEffect(t, new)
    BY <1>1, <2>1, <2>2, <2>5, <2>7, <2>10 DEF RotateEffect, CodesShrink, ts, tbs
  <2>9. Effect
    BY <2>2, <2>5, <2>8 DEF Effect
  <2> QED BY <1>0, <2>3, <2>7, <2>9 DEF StepEffect, IssueEffect
<1>3. CASE ~(Refreshable(t, c, matches) /\ io) /\ Replays(t)
  <2>1. Drop(tokens \ OfFamily(tokens, t.family), tombs, {t.family}, io)
    BY <1>3 DEF Refresh
  <2>2. Shrunk
    BY <1>0, <2>1, FamilyDropEffect
  <2> QED BY <2>2 DEF Shrunk, StepEffect, Effect
<1>4. CASE ~(Refreshable(t, c, matches) /\ io) /\ ~Replays(t)
  <2>1. Refused
    BY <1>4 DEF Refresh
  <2>2. Shrunk
    BY <1>0, <1>1, <2>1, RefusedEffect DEF Refused
  <2> QED BY <2>2 DEF Shrunk, StepEffect, Effect
<1> QED BY <1>2, <1>3, <1>4

\* Every step has one of the effects, and leaves in memory what is on the file.
LEMMA EveryStep == IInv /\ [Next]_vars => StepEffect /\ MemoryIsWritten'
<1> SUFFICES ASSUME IInv, [Next]_vars PROVE StepEffect /\ MemoryIsWritten'
  OBVIOUS
<1>0. Shrunk => StepEffect /\ MemoryIsWritten'
  BY DEF Shrunk, StepEffect, Effect
<1>1. ASSUME NEW c \in Clients, NEW matches \in BOOLEAN, NEW io \in BOOLEAN, Call(c, matches, io)
      PROVE  StepEffect /\ MemoryIsWritten'
  BY <1>0, <1>1, RegisterEffect, ExchangeStep, RefreshStep DEF Call
<1>2. ASSUME NEW f \in Families, NEW c \in Clients, NEW a \in Audiences, NEW refresh \in BOOLEAN,
             CreateAuthorizationCode(f, c, a, refresh)
      PROVE  StepEffect /\ MemoryIsWritten'
  BY <1>0, <1>2, CreateCodeEffect
<1>3. ASSUME NEW io \in BOOLEAN,
             \/ \E t \in told : Revoke(t, io)
             \/ RevokeAll(io)
             \/ \E a \in Audiences : RevokeAudience(a, io)
             \/ RevokeAllOffline(io)
      PROVE  StepEffect /\ MemoryIsWritten'
  BY <1>0, <1>3, RevokeEffect, RevokeAllEffect, RevokeAudienceEffect, RevokeAllOfflineEffect
<1>4. CASE NewStore
  BY <1>0, <1>4, NewStoreEffect
<1>5. CASE Crash
  BY <1>0, <1>5, CrashEffect
<1>6. CASE Tick
  BY <1>0, <1>6, TickEffect DEF Tick
<1>7. CASE UNCHANGED vars
  <2>1. UNCHANGED <<up, memory, disk, history>> /\ now' = now
    BY <1>7 DEF vars
  <2> QED BY <1>0, <2>1, TickEffect
<1> QED BY <1>1, <1>2, <1>3, <1>4, <1>5, <1>6, <1>7 DEF Next

-----------------------------------------------------------------------------
(* The limits: what is written can be loaded again. *)

LEMMA SubsetFits ==
  ASSUME NEW S, NEW T \in SUBSET S, NEW n \in Nat, IsFiniteSet(S), Cardinality(S) <= n
  PROVE  IsFiniteSet(T) /\ Cardinality(T) <= n
<1>1. IsFiniteSet(T) /\ Cardinality(T) <= Cardinality(S)
  BY FS_Subset
<1>2. Cardinality(T) \in Nat /\ Cardinality(S) \in Nat
  BY <1>1, FS_CardinalityType
<1> QED BY <1>1, <1>2

LEMMA OneMoreFits ==
  ASSUME NEW S, NEW x, NEW n \in Nat, IsFiniteSet(S), Cardinality(S) < n
  PROVE  IsFiniteSet(S \cup {x}) /\ Cardinality(S \cup {x}) <= n
<1>1. IsFiniteSet(S \cup {x}) /\ (Cardinality(S \cup {x}) = Cardinality(S) \/ Cardinality(S \cup {x}) = Cardinality(S) + 1)
  BY FS_AddElement
<1>2. Cardinality(S) \in Nat
  BY FS_CardinalityType
<1> QED BY <1>1, <1>2

LEMMA UnionFits ==
  ASSUME NEW S, NEW T, NEW n \in Nat, IsFiniteSet(S), IsFiniteSet(T), Cardinality(S) + Cardinality(T) <= n
  PROVE  IsFiniteSet(S \cup T) /\ Cardinality(S \cup T) <= n
<1>1. /\ IsFiniteSet(S \cup T) /\ IsFiniteSet(S \cap T)
      /\ Cardinality(S \cup T) = Cardinality(S) + Cardinality(T) - Cardinality(S \cap T)
  BY FS_Union, FS_Intersection
<1>2. /\ Cardinality(S) \in Nat /\ Cardinality(T) \in Nat /\ Cardinality(S \cap T) \in Nat
  BY <1>1, FS_CardinalityType
<1> QED BY <1>1, <1>2

\* What is in memory fits.
LEMMA MemoryFits ==
  ASSUME IInv
  PROVE  /\ IsFiniteSet(disk.clients) /\ Cardinality(disk.clients) <= MaxClients
         /\ \A ts \in SUBSET tokens : IsFiniteSet(Live(ts)) /\ Cardinality(Live(ts)) <= MaxTokens
         /\ \A tbs \in SUBSET tombs : IsFiniteSet(Live(tbs)) /\ Cardinality(Live(tbs)) <= MaxTombstones
<1>1. tokens \subseteq disk.tokens /\ tombs \subseteq disk.tombs
  BY DEF IInv, MemoryIsWritten
<1>2. /\ IsFiniteSet(disk.clients) /\ Cardinality(disk.clients) <= MaxClients
      /\ IsFiniteSet(disk.tokens) /\ Cardinality(disk.tokens) <= MaxTokens
      /\ IsFiniteSet(disk.tombs) /\ Cardinality(disk.tombs) <= MaxTombstones
  BY DEF IInv, WithinLimits, Loadable
<1>3. MaxTokens \in Nat /\ MaxTombstones \in Nat
  BY AuthAssumption
<1>4. ASSUME NEW ts \in SUBSET tokens PROVE IsFiniteSet(Live(ts)) /\ Cardinality(Live(ts)) <= MaxTokens
  <2>1. Live(ts) \in SUBSET disk.tokens
    BY <1>1, LiveSubset
  <2> QED BY <1>2, <1>3, <2>1, SubsetFits
<1>5. ASSUME NEW tbs \in SUBSET tombs PROVE IsFiniteSet(Live(tbs)) /\ Cardinality(Live(tbs)) <= MaxTombstones
  <2>1. Live(tbs) \in SUBSET disk.tombs
    BY <1>1, LiveSubset
  <2> QED BY <1>2, <1>3, <2>1, SubsetFits
<1> QED BY <1>2, <1>4, <1>5

LEMMA SameLimits == ASSUME IInv, disk' = disk PROVE WithinLimits'
  BY DEF IInv, WithinLimits, Loadable

LEMMA DropLimits ==
  ASSUME IInv, up, NEW ts \in SUBSET tokens, NEW tbs \in SUBSET tombs, NEW fs, NEW io \in BOOLEAN,
         Drop(ts, tbs, fs, io)
  PROVE  WithinLimits'
<1>1. CASE io
  <2>1. disk'.clients = disk.clients /\ disk'.tokens = Live(ts) /\ disk'.tombs = Live(tbs)
    BY <1>1, WriteFacts DEF Drop, IInv, MemoryIsWritten
  <2> QED BY <2>1, MemoryFits DEF WithinLimits, Loadable
<1>2. CASE ~io
  BY <1>2, SameLimits DEF Drop
<1> QED BY <1>1, <1>2

LEMMA IssueLimits ==
  ASSUME IInv, up, NEW new, IsFiniteSet(new), \A u \in new : u.expires > now,
         NEW ts \in SUBSET tokens, NEW tbs, Fits(ts, new),
         IsFiniteSet(Live(tbs)), Cardinality(Live(tbs)) <= MaxTombstones,
         Issue(new, ts, tbs)
  PROVE  WithinLimits'
<1>1. disk'.clients = disk.clients /\ disk'.tokens = Live(ts) \cup new /\ disk'.tombs = Live(tbs)
  <2>1. Live(ts \cup new) = Live(ts) \cup new
    BY DEF Live
  <2>2. Write(clients, ts \cup new, tbs) /\ clients = disk.clients
    BY DEF Issue, IInv, MemoryIsWritten
  <2>3. disk'.clients = clients /\ disk'.tokens = Live(ts \cup new) /\ disk'.tombs = Live(tbs)
    BY <2>2, WriteFacts
  <2> QED BY <2>1, <2>2, <2>3
<1>2. IsFiniteSet(Live(ts)) /\ Cardinality(Live(ts)) + Cardinality(new) <= MaxTokens /\ MaxTokens \in Nat
  BY MemoryFits, AuthAssumption DEF Fits
<1>3. IsFiniteSet(Live(ts) \cup new) /\ Cardinality(Live(ts) \cup new) <= MaxTokens
  BY <1>2, UnionFits
<1> QED BY <1>1, <1>3, MemoryFits DEF WithinLimits, Loadable

LEMMA NewTokensFinite ==
  ASSUME NEW f, NEW gen, NEW c, NEW a, NEW refresh \in BOOLEAN
  PROVE  IsFiniteSet(NewTokens(f, gen, c, a, refresh))
<1> DEFINE new(k) == [family |-> f, gen |-> gen, kind |-> k, client |-> c, audience |-> a,
                      expires |-> now + IF k = "access" THEN AccessTTL ELSE RefreshTTL]
<1>1. NewTokens(f, gen, c, a, refresh) = {new(k) : k \in IF refresh THEN Kinds ELSE {"access"}}
  BY DEF NewTokens
<1> HIDE DEF new
<1>2. \/ NewTokens(f, gen, c, a, refresh) = {new("access")}
      \/ NewTokens(f, gen, c, a, refresh) = {new("access")} \cup {new("refresh")}
  BY <1>1 DEF Kinds
<1>3. IsFiniteSet({new("access")})
  BY FS_Singleton
<1>4. IsFiniteSet({new("access")} \cup {new("refresh")})
  BY <1>3, FS_AddElement
<1> QED BY <1>2, <1>3, <1>4

LEMMA LimitsNext == IInv /\ [Next]_vars => WithinLimits'
<1> SUFFICES ASSUME IInv, [Next]_vars PROVE WithinLimits'
  OBVIOUS
<1>1. ASSUME NEW c \in Clients, NEW io \in BOOLEAN, RegisterClient(c, io) PROVE WithinLimits'
  <2>1. PICK kept \in SUBSET clients :
          IF Cardinality(kept) < MaxClients /\ io
          THEN /\ clients' = kept \cup {c}
               /\ Write(clients', tokens, tombs)
               /\ drawn' = drawn \cup {c}
          ELSE UNCHANGED <<clients, disk, drawn>>
    BY <1>1 DEF RegisterClient
  <2>2. CASE Cardinality(kept) < MaxClients /\ io
    <3>1. disk'.clients = kept \cup {c} /\ disk'.tokens = Live(tokens) /\ disk'.tombs = Live(tombs)
      BY <2>1, <2>2, WriteFacts
    <3>2. kept \in SUBSET disk.clients
      BY <1>1 DEF RegisterClient, IInv, MemoryIsWritten
    <3>3. IsFiniteSet(kept)
      BY <3>2, MemoryFits, FS_Subset
    <3>4. IsFiniteSet(kept \cup {c}) /\ Cardinality(kept \cup {c}) <= MaxClients
      BY <2>2, <3>3, OneMoreFits, AuthAssumption
    <3>5. /\ IsFiniteSet(Live(tokens)) /\ Cardinality(Live(tokens)) <= MaxTokens
          /\ IsFiniteSet(Live(tombs)) /\ Cardinality(Live(tombs)) <= MaxTombstones
      BY MemoryFits
    <3> QED BY <3>1, <3>4, <3>5 DEF WithinLimits, Loadable
  <2>3. CASE ~(Cardinality(kept) < MaxClients /\ io)
    BY <2>1, <2>3, SameLimits
  <2> QED BY <2>2, <2>3
<1>2. ASSUME NEW f \in Families, NEW c \in Clients, NEW a \in Audiences, NEW refresh \in BOOLEAN,
             CreateAuthorizationCode(f, c, a, refresh)
      PROVE  WithinLimits'
  BY <1>2, SameLimits DEF CreateAuthorizationCode
<1>3. ASSUME NEW f \in Families, NEW c \in Clients, NEW matches \in BOOLEAN, NEW io \in BOOLEAN,
             ExchangeAuthorizationCode(f, c, matches, io)
      PROVE  WithinLimits'
  <2>1. CASE Exchangeable(f, c, matches) /\ Fits(tokens, FirstTokens(f)) /\ io
    <3> DEFINE new == FirstTokens(f)
    <3>1. up /\ Issue(new, tokens, tombs) /\ Fits(tokens, new)
      BY <1>3, <2>1 DEF ExchangeAuthorizationCode
    <3>2. LiveCodes[f] \in Code /\ now \in Nat /\ 0 \in 0..MaxGen
      BY <2>1, LiveCodesType, AuthAssumption DEF Exchangeable, IInv, TypeOK
    <3>3. IsFiniteSet(new)
      BY <3>2, NewTokensFinite DEF FirstTokens, Code
    <3>4. \A u \in new : u.expires > now
      BY <3>2, NewTokensFacts DEF FirstTokens, Code
    <3>5. IsFiniteSet(Live(tombs)) /\ Cardinality(Live(tombs)) <= MaxTombstones
      BY MemoryFits
    <3> HIDE DEF new
    <3> QED BY <3>1, <3>3, <3>4, <3>5, IssueLimits
  <2>2. CASE ~(Exchangeable(f, c, matches) /\ Fits(tokens, FirstTokens(f)) /\ io)
    BY <1>3, <2>2, SameLimits DEF ExchangeAuthorizationCode, Refused
  <2> QED BY <2>1, <2>2
<1>4. ASSUME NEW t \in told, NEW c \in Clients, NEW matches \in BOOLEAN, NEW io \in BOOLEAN,
             Refresh(t, c, matches, io)
      PROVE  WithinLimits'
  <2>0. up
    BY <1>4 DEF Refresh
  <2>1. CASE Refreshable(t, c, matches) /\ io
    <3> DEFINE new == NextTokens(t)
               ts == tokens \ {t}
               tbs == tombs \cup {TombOf(t)}
               refresh == TRUE
    <3>1. Issue(new, ts, tbs) /\ Fits(ts, new) /\ Cardinality(Live(tombs)) < MaxTombstones
      BY <1>4, <2>1 DEF Refresh, Rotate, Refreshable
    <3>2. t \in Token /\ now \in Nat /\ t.gen < MaxGen
      BY <1>4 DEF IInv, TypeOK, Refresh
    <3>3. t.gen + 1 \in 0..MaxGen /\ t.family \in Families /\ t.client \in Clients /\ t.audience \in Audiences
      BY <3>2, AuthAssumption DEF Token
    <3>4. new = NewTokens(t.family, t.gen + 1, t.client, t.audience, refresh) /\ refresh \in BOOLEAN
      BY DEF NextTokens
    <3>5. ts \in SUBSET tokens
      OBVIOUS
    <3>6. Live(tbs) = Live(tombs) \cup {TombOf(t)}
      <4>1. TombOf(t).expires > now
        BY <2>1 DEF Refreshable, Live, TombOf
      <4> QED BY <4>1 DEF Live
    <3> HIDE DEF new, ts, tbs, refresh
    <3>7. IsFiniteSet(new)
      BY <3>4, NewTokensFinite
    <3>8. \A u \in new : u.expires > now
      BY <3>2, <3>3, <3>4, NewTokensFacts
    <3>9. IsFiniteSet(Live(tbs)) /\ Cardinality(Live(tbs)) <= MaxTombstones
      <4>1. IsFiniteSet(Live(tombs)) /\ MaxTombstones \in Nat
        BY MemoryFits, AuthAssumption
      <4> QED BY <3>1, <3>6, <4>1, OneMoreFits
    <3> QED BY <2>0, <3>1, <3>5, <3>7, <3>8, <3>9, IssueLimits
  <2>2. CASE ~(Refreshable(t, c, matches) /\ io) /\ Replays(t)
    <3> DEFINE ts == tokens \ OfFamily(tokens, t.family)
    <3>1. Drop(ts, tombs, {t.family}, io) /\ ts \in SUBSET tokens
      BY <1>4, <2>2 DEF Refresh
    <3> HIDE DEF ts
    <3> QED BY <2>0, <3>1, DropLimits
  <2>3. CASE ~(Refreshable(t, c, matches) /\ io) /\ ~Replays(t)
    BY <1>4, <2>3, SameLimits DEF Refresh, Refused
  <2> QED BY <2>1, <2>2, <2>3
<1>5. ASSUME NEW t \in told, NEW io \in BOOLEAN, Revoke(t, io) PROVE WithinLimits'
  <2>1. up /\ \E ts \in SUBSET tokens : \E fs : Drop(ts, tombs, fs, io)
    BY <1>5 DEF Revoke
  <2> QED BY <2>1, DropLimits
<1>6. ASSUME NEW io \in BOOLEAN, RevokeAll(io) PROVE WithinLimits'
  <2>1. up /\ Drop({}, {}, Families \cap drawn, io)
    BY <1>6 DEF RevokeAll
  <2> QED BY <2>1, DropLimits
<1>7. ASSUME NEW a \in Audiences, NEW io \in BOOLEAN, RevokeAudience(a, io) PROVE WithinLimits'
  <2>1. up /\ \E ts \in SUBSET tokens, tbs \in SUBSET tombs : \E fs : Drop(ts, tbs, fs, io)
    BY <1>7 DEF RevokeAudience
  <2> QED BY <2>1, DropLimits
<1>8. ASSUME NEW io \in BOOLEAN, RevokeAllOffline(io) PROVE WithinLimits'
  <2>1. CASE io
    <3>1. disk'.clients = disk.clients /\ disk'.tokens = {} /\ disk'.tombs = {}
      BY <1>8, <2>1 DEF RevokeAllOffline
    <3>2. 0 <= MaxTokens /\ 0 <= MaxTombstones
      BY AuthAssumption
    <3> QED BY <3>1, <3>2, MemoryFits, FS_EmptySet DEF WithinLimits, Loadable
  <2>2. CASE ~io
    BY <1>8, <2>2, SameLimits DEF RevokeAllOffline
  <2> QED BY <2>1, <2>2
<1>9. CASE NewStore \/ Crash \/ Tick \/ UNCHANGED vars
  BY <1>9, SameLimits DEF NewStore, Crash, Tick, vars
<1> QED BY <1>1, <1>2, <1>3, <1>4, <1>5, <1>6, <1>7, <1>8, <1>9 DEF Next, Call

-----------------------------------------------------------------------------
(* The inductive invariant, one effect at a time. *)

\* The conjuncts that are shown by effects.
Rest == CodesFresh /\ Chained /\ CodeUsedOnce /\ RotatedIsDead /\ RevokedIsDead

LEMMA HeldNext == ASSUME MemoryIsWritten' PROVE tokens' \subseteq disk'.tokens
  BY DEF MemoryIsWritten

LEMMA ShrinkRest ==
  ASSUME IInv, MemoryIsWritten', drawn \subseteq drawn', NEW fs \in SUBSET Families, ShrinkEffect(fs)
  PROVE  Rest'
<1>1. disk'.tokens \subseteq disk.tokens /\ disk'.tombs \subseteq disk.tombs /\ tokens' \subseteq disk.tokens
  BY HeldNext DEF ShrinkEffect, Shrinks
<1>2. told' = told /\ exchanges' = exchanges /\ revoked' = revoked \cup fs
  BY DEF ShrinkEffect
<1>3. CodesFresh'
  <2>1. ASSUME NEW f \in Families, codes'[f] # None
        PROVE  f \in drawn' /\ exchanges'[f] = 0 /\ f \notin revoked'
    <3>1. f \notin fs /\ (f \in fs => f \in drawn)
      BY <2>1 DEF ShrinkEffect
    <3>2. CASE codes[f] # None
      BY <1>2, <3>1, <3>2 DEF IInv, CodesFresh
    <3>3. CASE f \notin drawn /\ f \in drawn'
      BY <1>2, <3>1, <3>3 DEF IInv, CodesFresh
    <3> QED BY <2>1, <3>2, <3>3 DEF ShrinkEffect, CodesShrink
  <2>2. \A f \in Families : exchanges'[f] # 0 => f \in drawn'
    BY <1>2 DEF IInv, CodesFresh
  <2>3. revoked' \subseteq drawn'
    BY <1>2 DEF IInv, CodesFresh, ShrinkEffect
  <2> QED BY <2>1, <2>2, <2>3 DEF CodesFresh
<1>4. Chained'
  BY <1>1, <1>2 DEF IInv, Chained, TombOf
<1>5. CodeUsedOnce'
  BY <1>2 DEF IInv, CodeUsedOnce
<1>6. RotatedIsDead'
  BY <1>1, <1>2 DEF IInv, RotatedIsDead, Rotated
<1>7. RevokedIsDead'
  BY <1>1, <1>2, HeldNext DEF IInv, RevokedIsDead, ShrinkEffect
<1> QED BY <1>3, <1>4, <1>5, <1>6, <1>7 DEF Rest

\* An exchange starts a family: nothing was rotated by it.
LEMMA ExchangeFacts ==
  ASSUME IInv, NEW f \in Families, NEW new \in SUBSET Token, NEW a \in Audiences, ExchangeEffect(f, new, a)
  PROVE  /\ up /\ up' /\ now' = now
         /\ tokens' = Live(tokens) \cup new /\ disk'.tokens = Live(tokens) \cup new
         /\ tombs' = Live(tombs) /\ disk'.tombs = Live(tombs)
         /\ told' = told \cup new /\ revoking' = revoking /\ revoked' = revoked /\ drawn' = drawn
         /\ f \in drawn /\ f \notin revoked /\ exchanges[f] = 0
         /\ \A t \in told : t.family # f
         /\ \A t \in new : t.family = f /\ t.gen = 0 /\ t.audience = a
<1>1. /\ up /\ up' /\ now' = now
      /\ tokens' = Live(tokens) \cup new /\ disk'.tokens = Live(tokens) \cup new
      /\ tombs' = Live(tombs) /\ disk'.tombs = Live(tombs)
      /\ told' = told \cup new /\ revoking' = revoking /\ revoked' = revoked /\ drawn' = drawn
  BY DEF ExchangeEffect, IssueEffect
<1>2. f \in drawn /\ f \notin revoked /\ exchanges[f] = 0
  BY DEF ExchangeEffect, IInv, CodesFresh
<1>3. \A t \in told : t.family # f
  BY <1>2 DEF IInv, Chained
<1>4. \A t \in new : t.family = f /\ t.gen = 0 /\ t.audience = a
  BY DEF ExchangeEffect, Granted
<1> QED BY <1>1, <1>2, <1>3, <1>4

LEMMA ExchangeRotated ==
  ASSUME IInv, NEW f \in Families, NEW new \in SUBSET Token, NEW a \in Audiences, ExchangeEffect(f, new, a),
         NEW t \in told', Rotated(t)'
  PROVE  t \in told /\ Rotated(t)
<1>1. /\ told' = told \cup new
      /\ \A u \in told : u.family # f
      /\ \A u \in new : u.family = f /\ u.gen = 0
  BY ExchangeFacts
<1>2. PICK u \in told \cup new : u.family = t.family /\ u.gen = t.gen + 1 /\ t.kind = "refresh"
  BY <1>1 DEF Rotated
<1>3. t.gen \in Nat
  BY <1>1, AuthAssumption DEF IInv, TypeOK, Token
<1>4. u \in told
  BY <1>1, <1>2, <1>3
<1>5. t \in told
  BY <1>1, <1>2, <1>4
<1> QED BY <1>2, <1>4, <1>5 DEF Rotated

LEMMA ExchangeRest ==
  ASSUME IInv, NEW f \in Families, NEW new \in SUBSET Token, NEW a \in Audiences, ExchangeEffect(f, new, a)
  PROVE  Rest'
<1>1. /\ tokens' = Live(tokens) \cup new /\ disk'.tokens = Live(tokens) \cup new
      /\ disk'.tombs = Live(tombs)
      /\ told' = told \cup new /\ revoked' = revoked /\ drawn' = drawn
      /\ f \in drawn /\ f \notin revoked /\ exchanges[f] = 0
      /\ \A t \in told : t.family # f
      /\ \A t \in new : t.family = f /\ t.gen = 0 /\ t.audience = a
  <2>1. /\ tokens' = Live(tokens) \cup new /\ disk'.tokens = Live(tokens) \cup new
        /\ disk'.tombs = Live(tombs)
        /\ told' = told \cup new /\ revoked' = revoked /\ drawn' = drawn
    BY DEF ExchangeEffect, IssueEffect
  <2>2. f \in drawn /\ f \notin revoked /\ exchanges[f] = 0
    BY ExchangeFacts
  <2>3. \A t \in told : t.family # f
    BY ExchangeFacts
  <2>4. \A t \in new : t.family = f /\ t.gen = 0 /\ t.audience = a
    BY ExchangeFacts
  <2> QED BY <2>1, <2>2, <2>3, <2>4
<1>2. \A t \in told' : Rotated(t)' => t \in told /\ Rotated(t)
  BY ExchangeRotated
<1>3. exchanges' = [exchanges EXCEPT ![f] = @ + 1] /\ exchanges \in [Families -> Nat] /\ codes'[f] = None
  BY DEF ExchangeEffect, IInv, TypeOK
<1>4. exchanges'[f] = 1 /\ \A g \in Families : g # f => exchanges'[g] = exchanges[g]
  BY <1>1, <1>3
<1>5. Live(tokens) \subseteq told /\ Live(tombs) \subseteq disk.tombs /\ Live(tokens) \subseteq tokens
  BY HeldIsTold, LiveSubset DEF IInv, MemoryIsWritten, ExchangeEffect, IssueEffect
<1>6. CodesFresh'
  <2>1. ASSUME NEW g \in Families, codes'[g] # None
        PROVE  g \in drawn' /\ exchanges'[g] = 0 /\ g \notin revoked'
    BY <1>1, <1>3, <1>4, <2>1 DEF IInv, CodesFresh, ExchangeEffect, CodesShrink
  <2>2. \A g \in Families : exchanges'[g] # 0 => g \in drawn'
    BY <1>1, <1>4 DEF IInv, CodesFresh
  <2> QED BY <1>1, <2>1, <2>2 DEF IInv, CodesFresh
<1>7. Chained'
  <2>1. disk'.tokens \subseteq told'
    BY <1>1, <1>5
  <2>2. \A x \in disk'.tombs : \E t \in told' : x = TombOf(t)
    BY <1>1, <1>5 DEF IInv, Chained
  <2>3. \A t \in told' : exchanges'[t.family] = 1
    BY <1>1, <1>4 DEF IInv, Chained, TypeOK, Token
  <2>4. ASSUME NEW t \in told', NEW u \in told', t.family = u.family
        PROVE  t.audience = u.audience /\ (t.gen = u.gen /\ t.kind = u.kind => t = u)
    <3>1. CASE t \in told
      BY <1>1, <2>4, <3>1 DEF IInv, Chained
    <3>2. CASE t \in new
      <4>1. u \in new
        BY <1>1, <2>4, <3>2
      <4> QED BY <1>1, <3>2, <4>1 DEF ExchangeEffect, Granted
    <3> QED BY <1>1, <3>1, <3>2
  <2>5. \A t \in told' : t.gen # 0 =>
          \E u \in told' : u.family = t.family /\ u.gen = t.gen - 1 /\ u.kind = "refresh"
    BY <1>1 DEF IInv, Chained
  <2> QED BY <2>1, <2>2, <2>3, <2>4, <2>5 DEF Chained, TombOf
<1>8. CodeUsedOnce'
  BY <1>4 DEF IInv, CodeUsedOnce
<1>9. RotatedIsDead'
  BY <1>1, <1>2, <1>5 DEF IInv, RotatedIsDead
<1>10. RevokedIsDead'
  BY <1>1, <1>5 DEF IInv, RevokedIsDead
<1> QED BY <1>6, <1>7, <1>8, <1>9, <1>10 DEF Rest

\* A rotation extends the chain of its family by one generation.
LEMMA RotateFacts ==
  ASSUME IInv, NEW t \in tokens, NEW new \in SUBSET Token, RotateEffect(t, new)
  PROVE  /\ up /\ up' /\ now' = now /\ t \in told /\ t \in Token
         /\ tokens' = Live(tokens \ {t}) \cup new /\ disk'.tokens = Live(tokens \ {t}) \cup new
         /\ tombs' = Live(tombs \cup {TombOf(t)}) /\ disk'.tombs = Live(tombs \cup {TombOf(t)})
         /\ told' = told \cup new /\ revoking' = revoking /\ revoked' = revoked /\ drawn' = drawn
         /\ \A u \in new : u.family = t.family /\ u.gen = t.gen + 1 /\ u.audience = t.audience
         /\ \A u \in told : u.family = t.family => u.gen # t.gen + 1
         /\ \A v \in told' : Rotated(v)' => v = t \/ (v \in told /\ Rotated(v))
<1>1. /\ up /\ up' /\ now' = now
      /\ tokens' = Live(tokens \ {t}) \cup new /\ disk'.tokens = Live(tokens \ {t}) \cup new
      /\ tombs' = Live(tombs \cup {TombOf(t)}) /\ disk'.tombs = Live(tombs \cup {TombOf(t)})
      /\ told' = told \cup new /\ revoking' = revoking /\ revoked' = revoked /\ drawn' = drawn
  BY DEF RotateEffect, IssueEffect
<1>2. t \in told /\ t \in Token /\ t.gen \in Nat /\ t.kind = "refresh"
  BY HeldIsTold, AuthAssumption DEF RotateEffect, IInv, TypeOK, Token
<1>3. \A u \in new : u.family = t.family /\ u.gen = t.gen + 1 /\ u.audience = t.audience
  BY DEF RotateEffect, Granted
<1>4. \A u \in told : u.family = t.family => u.gen # t.gen + 1
  BY <1>2 DEF IInv, RotatedIsDead, Rotated
<1>5. ASSUME NEW v \in told', Rotated(v)' PROVE v = t \/ (v \in told /\ Rotated(v))
  <2>1. PICK w \in told \cup new : w.family = v.family /\ w.gen = v.gen + 1 /\ v.kind = "refresh"
    BY <1>1, <1>5 DEF Rotated
  <2>2. v.gen \in Nat
    BY <1>1, AuthAssumption DEF IInv, TypeOK, Token
  <2>3. CASE w \in new
    <3>1. v.family = t.family /\ v.gen = t.gen
      BY <1>2, <1>3, <2>1, <2>2, <2>3
    <3>2. v \in told
      BY <1>1, <1>2, <1>3, <3>1
    <3> QED BY <1>2, <2>1, <3>1, <3>2 DEF IInv, Chained
  <2>4. CASE w \in told
    <3>1. v \in told
      <4> SUFFICES ASSUME v \in new PROVE FALSE
        BY <1>1
      <4>1. w.gen = t.gen + 2 /\ w.family = t.family
        BY <1>2, <1>3, <2>1
      <4>2. w.gen # 0 /\ w.gen - 1 = t.gen + 1
        BY <1>2, <4>1
      <4>3. PICK u \in told : u.family = w.family /\ u.gen = w.gen - 1
        BY <2>4, <4>2 DEF IInv, Chained
      <4> QED BY <1>4, <4>1, <4>2, <4>3
    <3> QED BY <2>1, <2>4, <3>1 DEF Rotated
  <2> QED BY <2>3, <2>4
<1> QED BY <1>1, <1>2, <1>3, <1>4, <1>5

LEMMA RotateRest ==
  ASSUME IInv, NEW t \in tokens, NEW new \in SUBSET Token, RotateEffect(t, new)
  PROVE  Rest'
<1>1. /\ tokens' = Live(tokens \ {t}) \cup new /\ disk'.tokens = Live(tokens \ {t}) \cup new
      /\ disk'.tombs = Live(tombs \cup {TombOf(t)})
      /\ told' = told \cup new /\ revoked' = revoked /\ drawn' = drawn /\ t \in told
      /\ \A u \in new : u.family = t.family /\ u.gen = t.gen + 1 /\ u.audience = t.audience
      /\ \A u \in told : u.family = t.family => u.gen # t.gen + 1
  BY RotateFacts
<1>2. \A v \in told' : Rotated(v)' => v = t \/ (v \in told /\ Rotated(v))
  BY RotateFacts
<1>3. /\ exchanges' = exchanges /\ CodesShrink /\ t.kind = "refresh"
      /\ t.gen \in Nat /\ t.gen + 1 # 0 /\ t.gen + 1 - 1 = t.gen /\ t.gen # t.gen + 1
  BY AuthAssumption DEF RotateEffect, IInv, TypeOK, Token
<1>4. /\ Live(tokens \ {t}) \subseteq told /\ Live(tokens \ {t}) \subseteq tokens
      /\ t \notin Live(tokens \ {t}) /\ tombs \subseteq disk.tombs
      /\ Live(tombs \cup {TombOf(t)}) \subseteq tombs \cup {TombOf(t)}
  BY HeldIsTold DEF Live, IInv, MemoryIsWritten, RotateEffect, IssueEffect
<1>5. CodesFresh'
  BY <1>1, <1>3 DEF IInv, CodesFresh, CodesShrink
<1>6. Chained'
  <2>1. disk'.tokens \subseteq told'
    BY <1>1, <1>4
  <2>2. \A x \in disk'.tombs : \E u \in told' : x = TombOf(u)
    BY <1>1, <1>4 DEF IInv, Chained
  <2>3. \A u \in told' : exchanges'[u.family] = 1
    BY <1>1, <1>3 DEF IInv, Chained
  <2>4. ASSUME NEW v \in told', NEW u \in told', v.family = u.family
        PROVE  v.audience = u.audience /\ (v.gen = u.gen /\ v.kind = u.kind => v = u)
    <3>1. CASE v \in told /\ u \in told
      BY <2>4, <3>1 DEF IInv, Chained
    <3>2. CASE v \in new /\ u \in new
      BY <1>1, <2>4, <3>2 DEF RotateEffect, Granted
    <3>3. CASE v \in told /\ u \in new
      BY <1>1, <2>4, <3>3 DEF IInv, Chained
    <3>4. CASE v \in new /\ u \in told
      BY <1>1, <2>4, <3>4 DEF IInv, Chained
    <3> QED BY <1>1, <3>1, <3>2, <3>3, <3>4
  <2>5. ASSUME NEW v \in told', v.gen # 0
        PROVE  \E u \in told' : u.family = v.family /\ u.gen = v.gen - 1 /\ u.kind = "refresh"
    <3>1. CASE v \in told
      BY <1>1, <2>5, <3>1 DEF IInv, Chained
    <3>2. CASE v \in new
      BY <1>1, <1>3, <3>2
    <3> QED BY <1>1, <3>1, <3>2
  <2> QED BY <2>1, <2>2, <2>3, <2>4, <2>5 DEF Chained, TombOf
<1>7. CodeUsedOnce'
  BY <1>3 DEF IInv, CodeUsedOnce
<1>8. RotatedIsDead'
  BY <1>1, <1>2, <1>3, <1>4 DEF IInv, RotatedIsDead
<1>9. RevokedIsDead'
  BY <1>1, <1>4 DEF IInv, RevokedIsDead
<1> QED BY <1>5, <1>6, <1>7, <1>8, <1>9 DEF Rest

LEMMA InvInit == Init => IInv
<1> SUFFICES ASSUME Init PROVE IInv
  OBVIOUS
<1>0. TypeOK
  BY TypeInit
<1>1. /\ ~up /\ clients = {} /\ tokens = {} /\ tombs = {} /\ codes = [f \in Families |-> None]
      /\ disk.clients = {} /\ disk.tokens = {} /\ disk.tombs = {} /\ drawn = {} /\ told = {} /\ revoked = {}
      /\ \A f \in Families : exchanges[f] = 0 /\ codes[f] = None
  BY DEF Init
<1>2. MemoryIsWritten /\ CodesFresh /\ Chained
  BY <1>1 DEF MemoryIsWritten, CodesFresh, Chained
<1>3. WithinLimits
  BY <1>1, FS_EmptySet, AuthAssumption DEF WithinLimits, Loadable
<1>4. CodeUsedOnce /\ RotatedIsDead /\ RevokedIsDead
  BY <1>1 DEF CodeUsedOnce, RotatedIsDead, RevokedIsDead
<1> QED BY <1>0, <1>2, <1>3, <1>4 DEF IInv

LEMMA InvNext == IInv /\ [Next]_vars => IInv'
<1> SUFFICES ASSUME IInv, [Next]_vars PROVE IInv'
  OBVIOUS
<1>1. StepEffect /\ MemoryIsWritten'
  BY EveryStep
<1>2. TypeOK' /\ WithinLimits'
  BY TypeNext, LimitsNext DEF IInv
<1>3. Rest'
  <2>1. ASSUME NEW fs \in SUBSET Families, ShrinkEffect(fs) PROVE Rest'
    BY <1>1, <2>1, ShrinkRest DEF StepEffect
  <2>2. ASSUME NEW f \in Families, NEW a \in Audiences, NEW new \in SUBSET Token, ExchangeEffect(f, new, a)
        PROVE  Rest'
    BY <2>2, ExchangeRest
  <2>3. ASSUME NEW t \in tokens, NEW new \in SUBSET Token, RotateEffect(t, new) PROVE Rest'
    BY <2>3, RotateRest
  <2> QED BY <1>1, <2>1, <2>2, <2>3 DEF StepEffect, Effect
<1> QED BY <1>1, <1>2, <1>3 DEF IInv, Rest

\* The inductive invariant of the token store, through failed writes, crashes
\* and restarts (internal/auth/store.go).
THEOREM Invariance == Spec => []IInv
<1> QED BY InvInit, InvNext, PTL DEF Spec

\* ExchangeAuthorizationCode issues tokens for a code at most once, whatever
\* fails and however often the code comes again.
THEOREM CodesBuyOnce == Spec => []CodeUsedOnce
<1>1. IInv => CodeUsedOnce
  BY DEF IInv
<1> QED BY <1>1, Invariance, PTL

\* A refresh token that Refresh has rotated is in nobody's memory and on no
\* file: it is never accepted again.
THEOREM RotatedStaysDead == Spec => []RotatedIsDead
<1>1. IInv => RotatedIsDead
  BY DEF IInv
<1> QED BY <1>1, Invariance, PTL

\* After a revocation that was reported to be done, no token of the family is
\* accepted, not even by a process that loads the file later.
THEOREM RevokedStaysDead == Spec => []RevokedIsDead
<1>1. IInv => RevokedIsDead
  BY DEF IInv
<1> QED BY <1>1, Invariance, PTL

\* What saveLocked writes is within the limits NewStore checks when it loads.
THEOREM AlwaysReopenable == Spec => []Reopenable
<1>1. IInv => Reopenable
  BY DEF IInv, WithinLimits, Reopenable
<1> QED BY <1>1, Invariance, PTL

-----------------------------------------------------------------------------
(* Nothing granted is lost, and nothing rotated is forgotten. *)

LEMMA GrantStep == IInv /\ GrantKept /\ StepEffect => GrantKept'
<1> SUFFICES ASSUME IInv, GrantKept, StepEffect,
                    NEW t \in told', t.expires > now', ~Rotated(t)', t.family \notin revoking'
             PROVE  t \in disk'.tokens /\ (up' => t \in tokens')
  BY DEF GrantKept
<1>0. /\ now \in Nat /\ now' \in Nat /\ now <= now' /\ revoking \subseteq revoking'
      /\ t.family \notin revoking
  BY DEF StepEffect, IInv, TypeOK
<1>1. ASSUME t \in told, told \subseteq told' PROVE t \in disk.tokens /\ (up => t \in tokens) /\ t.expires > now
  <2>1. ~Rotated(t)
    BY <1>1 DEF Rotated
  <2>2. t.expires > now
    BY <1>0, <1>1 DEF IInv, TypeOK, Token
  <2> QED BY <1>0, <1>1, <2>1, <2>2 DEF GrantKept
<1>2. ASSUME NEW fs \in SUBSET Families, ShrinkEffect(fs) PROVE t \in disk'.tokens /\ (up' => t \in tokens')
  <2>1. told' = told
    BY <1>2 DEF ShrinkEffect
  <2> QED BY <1>1, <1>2, <2>1 DEF ShrinkEffect, Shrinks
<1>3. ASSUME NEW f \in Families, NEW a \in Audiences, NEW new \in SUBSET Token, ExchangeEffect(f, new, a)
      PROVE  t \in disk'.tokens /\ (up' => t \in tokens')
  <2>1. /\ up /\ told' = told \cup new
        /\ tokens' = Live(tokens) \cup new /\ disk'.tokens = Live(tokens) \cup new
    BY <1>3 DEF ExchangeEffect, IssueEffect
  <2> QED BY <1>1, <2>1 DEF Live
<1>4. ASSUME NEW s \in tokens, NEW new \in SUBSET Token, RotateEffect(s, new)
      PROVE  t \in disk'.tokens /\ (up' => t \in tokens')
  <2>1. /\ up /\ told' = told \cup new
        /\ tokens' = Live(tokens \ {s}) \cup new /\ disk'.tokens = Live(tokens \ {s}) \cup new
        /\ s.kind = "refresh"
    BY <1>4 DEF RotateEffect, IssueEffect
  <2>2. t # s
    <3>1. PICK u \in new : u.family = s.family /\ u.gen = s.gen + 1
      BY <1>4 DEF RotateEffect, Granted
    <3> QED BY <2>1, <3>1 DEF Rotated
  <2> QED BY <1>1, <2>1, <2>2 DEF Live
<1> QED BY <1>2, <1>3, <1>4 DEF StepEffect, Effect

\* A token that was returned to a client is on the file, and in the memory of
\* the process that runs, until it expires, is rotated, or somebody asks for
\* its revocation: no failed write and no restart loses it.
THEOREM GrantsAreKept == Spec => []GrantKept
<1>1. Init => GrantKept
  BY DEF Init, GrantKept
<1>2. IInv /\ GrantKept /\ [Next]_vars => GrantKept'
  BY EveryStep, GrantStep
<1> QED BY <1>1, <1>2, Invariance, PTL DEF Spec

LEMMA ReplayStep == IInv /\ ReplayIsDetected /\ StepEffect => ReplayIsDetected'
<1> SUFFICES ASSUME IInv, ReplayIsDetected, StepEffect,
                    NEW t \in told', Rotated(t)', t.expires > now', t.family \notin revoking'
             PROVE  TombOf(t) \in disk'.tombs /\ (up' => TombOf(t) \in tombs')
  BY DEF ReplayIsDetected, TombOf
<1>0. /\ now \in Nat /\ now' \in Nat /\ now <= now' /\ revoking \subseteq revoking'
      /\ t.family \notin revoking
      /\ TombOf(t).expires = t.expires /\ TombOf(t).family = t.family
  BY DEF StepEffect, IInv, TypeOK, TombOf
<1>1. ASSUME t \in told, Rotated(t)
      PROVE  TombOf(t) \in disk.tombs /\ (up => TombOf(t) \in tombs) /\ t.expires > now
  <2>1. t.expires > now
    BY <1>0, <1>1 DEF IInv, TypeOK, Token
  <2> QED BY <1>0, <1>1, <2>1 DEF ReplayIsDetected
<1>2. ASSUME NEW fs \in SUBSET Families, ShrinkEffect(fs)
      PROVE  TombOf(t) \in disk'.tombs /\ (up' => TombOf(t) \in tombs')
  <2>1. t \in told /\ Rotated(t)
    BY <1>2 DEF ShrinkEffect, Rotated
  <2>2. TombOf(t) \in disk.tombs /\ (up => TombOf(t) \in tombs)
    BY <1>1, <2>1
  <2>3. Shrinks(tombs, disk.tombs, tombs', disk'.tombs)
    BY <1>2 DEF ShrinkEffect
  <2> QED BY <1>0, <2>2, <2>3 DEF Shrinks
<1>3. ASSUME NEW f \in Families, NEW a \in Audiences, NEW new \in SUBSET Token, ExchangeEffect(f, new, a)
      PROVE  TombOf(t) \in disk'.tombs /\ (up' => TombOf(t) \in tombs')
  <2>1. up /\ tombs' = Live(tombs) /\ disk'.tombs = Live(tombs)
    BY <1>3 DEF ExchangeEffect, IssueEffect
  <2>2. t \in told /\ Rotated(t)
    BY <1>3, ExchangeRotated
  <2> QED BY <1>0, <1>1, <2>1, <2>2 DEF Live
<1>4. ASSUME NEW s \in tokens, NEW new \in SUBSET Token, RotateEffect(s, new)
      PROVE  TombOf(t) \in disk'.tombs /\ (up' => TombOf(t) \in tombs')
  <2>1. /\ up /\ now' = now
        /\ tombs' = Live(tombs \cup {TombOf(s)}) /\ disk'.tombs = Live(tombs \cup {TombOf(s)})
    BY <1>4 DEF RotateEffect, IssueEffect
  <2>2. t = s \/ (t \in told /\ Rotated(t))
    BY <1>4, RotateFacts
  <2> QED BY <1>0, <1>1, <2>1, <2>2 DEF Live
<1> QED BY <1>2, <1>3, <1>4 DEF StepEffect, Effect

\* A rotated refresh token leaves a tombstone that lives as long as the token
\* would have: a replay is recognised, by this process and by the next.
THEOREM ReplaysAreDetected == Spec => []ReplayIsDetected
<1>1. Init => ReplayIsDetected
  BY DEF Init, ReplayIsDetected
<1>2. IInv /\ ReplayIsDetected /\ [Next]_vars => ReplayIsDetected'
  BY EveryStep, ReplayStep
<1> QED BY <1>1, <1>2, Invariance, PTL DEF Spec
=============================================================================
