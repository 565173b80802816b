# Formal models of CodexLink

CodexLink connects a Codex workspace on a developer's machine with ChatGPT: a
*bridge* process per workspace serves MCP tools over a tunnel, guarded by OAuth;
the `codexlink` command line starts, pairs, queries and stops bridges over a
loopback admin API.  This directory holds TLA+ models of that program, the TLC
runs that check them, and TLAPS proofs.  All paths below are relative to the
repository (`src/` in `PROJECT.json`).

`PROJECT.json` is the index: components, runs, mutants (plausible bugs that each
property must detect), the map from definitions to source lines, the
disagreements between code and documentation the runs exhibit, the hazards the
properties are for, and the theorems.

To repeat a check: `tlc -config X.cfg M` for a run, `tlapm M.tla` for the
proofs of a module `M` whose name ends in `Proofs`.

## 1. The system

| Component | State | Operations | Interaction |
|---|---|---|---|
| Control store (`control`, `bridge/control_admin.go`, `mcp/tools_control.go`) | records in memory and one JSON file per workspace | Prepare, Submit, Get, Cancel, wait, load | prepared, awaited and cancelled by the command line over the admin API; submitted by ChatGPT through an MCP tool |
| Token store (`auth/store.go`) | clients, codes, tokens, tombstones of rotated refresh tokens; one file (without the codes) | register, create code, exchange, refresh, revoke (one, all, an audience), load | called by the OAuth endpoints, the admin API and, without a bridge, `codexlink unpair` |
| Pairing manager (`auth/pairing.go`) | one session with a one-time code, its outcome, guesses per address | Create, Verify, Status, Invalidate | created by setup, verified by the browser's form, polled by setup |
| OAuth endpoints (`auth/http.go`) | pending and completed authorization requests, seen assertions | register, authorize (start, complete), token, revoke | call token store and pairing manager |
| Client metadata and assertions (`auth/client_*.go`) | caches of metadata documents and keys, the table of assertions that were used | Resolve, Verify | fetched over HTTPS; called by the OAuth endpoints |
| Limiters (`auth/limits.go`) | buckets per address and one global | Allow | in front of the public endpoints |
| Bridge lifecycle (`bridge/server.go`, `runtime/daemon.go`, `runtime/runtime.go`) | runtime record, workspace lock, processes, ports | Start, Close, FindLive, Ensure, Stop | several commands and bridges of one workspace share two files |
| Install secret (`runtime/runtime.go`) | one file and its lock directory | InstallSecret | read by every process of the installation |
| Tunnel (`tunnel`) | the cloudflared process, its generation and URL; the named tunnel's state file | Start, Stop, Status, provision | started and stopped over the admin API, by Close |
| Setup (`setup`, `setupui`, `config/endpoint.go`) | setup sessions, endpoint record | Run, Create, Lookup, ConnectorAction | drives Ensure, tunnel, pairing and the browser |
| MCP endpoint (`mcp`) | none across requests | validation, version selection, batches, dispatch | calls tools; some of them change the control store |
| Workspace and git reading (`workspace`) | none but the discovered repositories | resolve, list, read, search, pages, status, diff, log | called by tools; files change under them |
| Session memory, execution records (`session`, `execution`, `state`) | one JSON file; one JSON-lines file | Merge, ClearChat; Append, Read | several commands share the files |
| Configuration, distribution, logging, browser | files of Codex, archives, output | migrate, install, pack | - |

What is hard about it, and therefore what the properties are for (the full list,
with lines, is under `hazards`):

* *Two holds of one mutex*, *two calls for one operation*: Cancel looks up and
  deletes; unpairing revokes and then invalidates; the token endpoint resolves
  its client and then asks the store.
* *Files shared by processes without transactions*: the runtime record and the
  lock are read, judged and then removed by path.
* *Failing writes and crashes*: every store changes memory and file together or
  rolls back, and must be able to load whatever it wrote.
* *Time*: records expire at the next operation, the wall clock may be set back,
  deadlines race late answers.
* *Locks released around a fetch*: metadata and key sets are looked up, fetched and
  stored by requests that overlap.
* *Several sources for one decision*: headers, metadata and body of an MCP message
  each name a version or a tool; setup asks a bridge that changes between two answers.
* *Boundaries*: where a page ends and the next begins, what is left of a budget, a
  path of which only a part exists.
* *Limits*: 16 control slots, 1 MiB of control state, 256 clients and codes,
  4096 tokens and tombstones: one too many makes a file unloadable.

What makes each component correct, in one line: the control store gives the one
first answer, durably, to everybody; the token store keeps a grant until it
expires, is rotated or revoked, and never revives it afterwards; one pairing
code approves one authorization; a workspace has one bridge, which commands find
and can stop; an installation has one secret; a tunnel's URL is that of a live
tunnel, and a saved hostname leads to one that exists; setup does not take a stale
connection for a new one; a limiter refuses without spending the budget of others;
what is believed of a client is recent; a tool runs only where all sources agree;
a read stays in the workspace; pages and ranges neither skip nor repeat; a record
that was acknowledged is read.

## 2. Modules

| Module | Models | Uses |
|---|---|---|
| `ControlSlots` | abstract: the life of a control request | - |
| `ControlStore` | the control store, its file, its callers | implements `ControlSlots` |
| `MCControlStore` | instances of it for TLC | |
| `ControlStoreProofs` | theorems about it | `ControlStore`, TLAPS |
| `AuthStore`, `MCAuthStore` | the token store and its file | - |
| `AuthStoreProofs` | theorems about it | `AuthStore`, TLAPS |
| `Pairing` | the pairing manager | - |
| `OAuthServer`, `MCOAuthServer` | endpoints and admin calls | composes `AuthStore` and `Pairing` |
| `RequestLimiter` | the limiter in front of the public endpoints | - |
| `ClientMetadata` | clients that are named by a metadata URL | - |
| `ClientAssertion` | token requests of clients that sign assertions | - |
| `BridgeLifecycle`, `MCBridgeLifecycle` | bridges, commands, runtime record, lock | - |
| `BridgeProofs` | theorems about it | `BridgeLifecycle`, TLAPS |
| `InstallSecret` | the first uses of the installation's secret | - |
| `Tunnel` | the provider that runs cloudflared, the admin calls and Close around it | - |
| `MCProcesses` | one instance of both for TLC | `InstallSecret`, `Tunnel` |
| `ProcessProofs` | theorems about both | `InstallSecret`, `Tunnel`, TLAPS |
| `Setup` | the one-command setup against a bridge that changes | - |
| `Provision` | `codexlink tunnel choose` against the provider's account | - |
| `SetupProofs` | theorems about both | `Setup`, `Provision`, TLAPS |
| `McpEndpoint`, `MCEndpoint` | one POST to the MCP endpoint; the POSTs for TLC | - |
| `RequestProofs` | theorems about what serves requests | `OAuthServer`, `RequestLimiter`, `ClientMetadata`, `ClientAssertion`, `McpEndpoint`, TLAPS |
| `Reading`, `MCReading` | pages and budgets of the read tools; calls for TLC | - |
| `Paths`, `MCPaths` | paths, links and rules of the workspace; file systems for TLC | - |
| `ReadingProofs` | theorems about pages and budgets; lemmas about numbers | `Reading`, TLAPS |
| `Records` | the file of execution records | - |
| `FileProofs` | theorems about records and paths | `Records`, `Paths`, `ReadingProofs` |
| `MCRequests` | one instance for TLC of what serves requests and commands | `OAuthServer`, `RequestLimiter`, `ClientMetadata`, `ClientAssertion`, `MCEndpoint`, `MCReading`, `MCPaths`, `Setup`, `Provision`, `Records` |

### How state and actions correspond to the code

**ControlStore.**  `mem` is `Store.records`, `disk` the decoded file.  A method
that runs under `Store.mu` is one action: `Prepare`, `Submit` (refused,
repeated, first), `WaitPoll` (one `Get` of the wait handler), `NewStore`.
`Cancel` takes the mutex twice and is two actions.  Every write takes a Boolean
chosen by the environment (`io`, and `sweepIO` for the write of the sweep that
precedes it): when it is false, `WriteFileAtomic` left the old file and the code's
rollback decides what memory holds.  Contents are names; their length matters
only through `Size`, the length of the encoding.  `Crash` may happen between any
two steps.  `Tick` and `SetBack` are the wall clock; the deadlines of waits are
monotonic in Go and only ever shrink (`Elapse`).

**AuthStore.**  As above for `Store` of `auth/store.go`.  A token is named by its
family (that of its code), its generation and kind; random identifiers are never
drawn twice.  `Drop` is the one place where the code does not roll back: a failed
revocation leaves memory without the tokens and the file with them.
`RevokeAllOffline` is `codexlink unpair` opening the file while no bridge runs.

**Pairing.**  Each method is one step.  `Verifies` tells which calls of Verify
succeed, so that the endpoint can be written around it.

**OAuthServer.**  `authorizeComplete` holds `OAuthServer.mu` throughout: one step,
which includes the calls of Verify and CreateAuthorizationCode.  The token
endpoint is two steps (`TokenStart`, `TokenFinish`), unpairing is two
(`RevokeAll`, `InvalidatePairing`).  A restart loses everything but the file.
`Fresh` draws an unused identifier; since identifiers are random and of no
meaning, one choice stands for all.

**BridgeLifecycle.**  A process is a sequence of stages; between two stages it
makes one access to a file or to another process, and anything may happen in
between.  Commands run Ensure (step by step: FindLive, the version check, Stop of
an old bridge, spawn, the polling loop, the deadline and the killing of the
child) or Stop (health, `/admin/shutdown`, wait, SIGTERM, SIGKILL).  Bridges run
Start (FindLive, lock creation, inspection and removal of a lock found stale,
writing its record, opening stores and port), serve, and Close (listener, runtime
record, lock, exit) - each a step of its own.

**InstallSecret.**  A call is a sequence of places, named after what it does next:
the first read, `Mkdir` (the lock), the polling loop (`Poll`, `Stat`, `BreakLock`,
`Deadline`), and under the lock `Recheck`, `Unlink` of a damaged file,
`WriteSecret`, `Unlock`.  A lock is removed by its path, so `BreakLock` and `Unlock`
take whichever lock is there; `usurped` remembers that one was broken whose call was
inside, because that call was there for 30 seconds (*slow*) or because the lock was made
after another had been found old (*raced*).  `RemoveLock` drops the error of the removal:
where a lock cannot be removed (`removable`, chosen at the start and constant) it changes
nothing, and the loop begins again without looking at the deadline.  `Fail` is an access whose error the code returns, `Die` the death
of a process anywhere.  A secret is named by the call that drew it.

**Tunnel.**  `cmd`, `url` and `generation` are the provider's fields, `publicURL` the
server's; a critical section of either mutex is a step.  `Start` is the handler up
to the select; `Ready`, `ExitedEarly` and `TimedOut` are its branches, and `Publish`
is what the handler does with the URL.  `Stop` and `CloseStop` release the process
under the mutex and kill it outside (`Kill`); `Reap` is the goroutine that waits.
cloudflared may announce its URL and end at any time, and its output may be read
after its end.  An admin call is accepted until `CloseShutdown`; `late` remembers the
processes that were started between `CloseStop` and it.

**RequestLimiter.**  `Allow` is one step under the limiter's mutex: the windows that
are over are dropped, an address without a bucket is refused when the table is full,
and both counters move only if both have room.  `admitted` is the history of admissions,
each with its address and moment.

**ClientMetadata.**  `ResolveStart` is the lookup under the lock, `Dial` and
`ServeDocument` the fetch without it, `ResolveEnd` the store.  A document is known by
the moment it was served, and has the fields `normalized` decides on.  The clock does
not pass the timeout of a fetch that was dialled (`MetadataTick`).

**ClientAssertion.**  A request reads the clock once (`Verify`), looks up or fetches
the keys (`KeyFromCache`, `KeyFetch`, `KeyStore`), looks up its assertion in the table
(`Check`), and records it after the exchange (`Record`); everything may come between.
The client's host changes its keys at any time.

**Setup.**  A step is one hold of a mutex by a handler of the admin API, or one access of
`Service.Run` to the endpoint record: `/admin/info` reads the bridge's URL and the tunnel's
status the first time (`ReadPublic`, `ReadTunnel`), and audience, URL and token count
the second (`RereadAudience`, `RereadUrl`, `CountTokens`); start and stop change the provider
(`RunTunnel`, `StopTunnel`) and then the bridge's URL (`RunPublishes`).  `handlers` are the
values that handlers of other calls have still to publish, the pair command's
(`PairTunnel`) and those of runs that are over (`RunFails`).  Between two steps the tunnel or
the bridge may end, a browser may authorize, codes and tokens expire, the pair command
runs, and the run itself fails or is killed, also after a call that took effect.  A later bridge has another admin
token: `reached` says whether the run's calls still get through.

**Provision.**  A call of cloudflared is a step that may fail, and that may have
happened although it failed.  `lost` remembers names that were routed to another
tunnel, which `RouteDNS` takes for success, and `mistaken` the tunnels that do not exist but
whose ID was found in the output of a `tunnel create` that failed, which `Make` takes for
success too.

**McpEndpoint.**  A POST is received, and its messages handled one after the other
(`Handle`, `RefuseMessage`, `Reply`).  `Valid`, `ModernIntent` and `LegacyVersion` are
the functions of `http_validation.go`; `ran` are the calls of tools that took place.

**Reading.**  A first page is asked for, and then what each page says comes next
(`Follow`), until nothing does.  A file is the lengths of its lines, a listing the
number of its entries, a diff its bytes.  `TextRange`, `ListPage`, `DiffPage`,
`BatchPaths` and `ReadMany` are the algorithms with their bounds as constants.  A loop of
the code is a function from the number of its turns to its variables: `Taking` after each
line, `Batching` after each path, `ReadSoFar` after each file.

**Paths.**  One lookup of one path in one file system: `Resolve` (`Clean`,
`CanonicalizeDeepest`, the root, the rules), the file that is opened, and the listing.
`EvalSymlinks` is the standard library's, with its bound on links: `Followed` is the path
after each link, and the result is what nothing stops any more (`Stops`).  A link names
the path it leads to from the top, as the library joins it.  `Opened` is what the system
makes of the resolved path when it stats and opens it: it follows links once more, up to
`OpenLinks`, of which there are none unless the library gave up (see section 5).

**Records.**  The file is a sequence of pieces; an append is visible at once or in two
halves, of which the second may never come.  A reader scans piece by piece, and keeps
the newest of what it read; at a line it has no room for (`TooLong`, `LineBytes` is the
scanner's 2 MiB) it gives up with an error (`ReadFails`).  `Sizes` are the lengths of a
record's two parts.

## 3. Runs

| Run | Instance | Shows |
|---|---|---|
| `control_slots` | 3 requests, 3 tuples, 2 slots, a short and a long answer, 2 cancellers, clock to 3 | MemoryIsFile, OneAnswer, CancelOrAnswer, AnswerKept, Restartable; the refinement LifeCycle |
| `control_wait` | 2 requests, 1 canceller, 1 waiter, a clock that may be set back | the inductive invariant IInv, the liveness property WaitEnds |
| `control_clock_back_reload` | as before | finding: an acknowledged answer that the next bridge cannot load |
| `control_full_file` | encodings of exactly the limit's length | finding: a file one byte over the limit |
| `auth_store` | 2 codes/families, 2 clients for 1 place, 2 audiences, 3 tokens, 2 rotations, clock to 3 | IInv, CodeUsedOnce, GrantKept, RotatedIsDead, ReplayIsDetected, RevokedIsDead, Reopenable |
| `requests` | ten parts side by side, see below | PairingOnce, SameRedirect, TokensHaveClients; CountsAreAdmissions; ResolvedIsRecent; KeysAreRecent, NoLateReplay; SourcesAgree; PagesAreWhole, WithinBudget; ReadsAreConfined; NoFalseConnection, PageIsOfEndpoint, ReplacedAfterRevoked; NamedIsReal; RecordsRead |
| `oauth_unpair` | 2 authorization requests, 2 pairing sessions | finding: an authorization completed inside an unpairing survives it |
| `bridge_lifecycle` | 2 commands of different releases, 2 bridges, one of which may crash | LockNotLeaked, FailureLeavesNothing, StoppedIsGone, CommandEnds |
| `bridge_one` | as before | finding: two bridges serve one workspace |
| `bridge_reusable` | 2 commands of one release, no crash | finding: a serving bridge that nobody can find |
| `processes` | 3 calls of InstallSecret; 2 starts, 1 stop, Close, 2 processes of cloudflared; locks that can be removed and that cannot | OneSecret, SecretEnds; StatusIsOwn, NoneLost, EndIsNoticed |
| `setup_stopped` | 2 public URLs, one setup at a time | finding: setup saves the URL of the tunnel it has just stopped |

### Bounds, and why they are enough

*ControlStore.*  Three requests for two slots: the store is full with one more
waiting, and a slot is opened after one is freed.  Two cancellers race each other
and a submission.  The size limit is such that a short and a long answer fit and
two long ones do not, so that the limit refuses and the code rolls back; it is
not the length of any encoding, except in `control_full_file`.  A clock of
`0..3` with lives of one and two lets records expire in any order, together and
one after the other.  `MinTTL` and `MaxTTL` differ so that lives differ.  The
second pass run trades requests for a waiter and a clock that is set back by one.

*AuthStore.*  Two families compete for tokens, one code is pending at a time, one
client has to make room for another.  Two rotations make a chain of three
refresh tokens, the shortest in which a replayed token's successor is itself
rotated.  Access tokens expire before refresh tokens.

*Requests.*  The ten parts share no state; `part` chooses the one a behaviour explores,
so that their states add up.  `PartsNext` gives each part its own next-state relation
and keeps the variables of the others.

| Part | Instance | Why it is enough |
|---|---|---|
| oauth | 2 authorization requests, 2 pairing sessions, 2 clients for 1 place, 1 token call | see OAuthServer below |
| limiter | 3 addresses for 2 places, 2 per address and 3 in all, windows of 2 in a clock of 4 moments | either limit may be the one that refuses, a full table refuses the third address, and windows begin at different moments |
| metadata | 3 URLs for 2 entries, 2 calls, lives of 2, a timeout of 1 | eviction, expiry and two overlapping fetches of one URL, of which the older may be stored last |
| assertion | 2 assertions with keys of two sets, 2 requests | the older of two key sets may be stored last; a key is withdrawn and comes back |
| mcp | every single message under every header; batches of up to three | a batch needs a first message that selects a version, one that is handled under it and one that contradicts it |
| reading | texts of up to 4 lines that fit, half fit or do not fit a page; listings of up to 6, of which find_files scans 5; diffs of up to 4 bytes; 2 files | a page begins and ends at each kind of line or byte, at the limit and one past it |
| paths | 2 entries and one below, each absent, a file, a directory or a link to any of 9 places ; a chain of three links, one more than the limit | links to links, to outside, to nothing, to themselves, above and below; over the chain, what EvalSymlinks does not resolve and the system opens |
| setup | 2 public URLs and the local one, 1 token, 1 handler of another call | an old and a new URL; one token for an audience that is not the run's is what a false connection takes; one other handler may start and publish at every point of a run |
| provision | 2 workspaces, 2 hostnames, 2 commands | both compete for one tunnel, or for one name |
| records | 3 records, 1 reader, limits 0, 1 and 5 between the default of 2 and the bound of 3; room for lines of 3 bytes and a newline, for a record of 4 and two of 2 | a torn line between two whole ones; one record more than the default; a line that is joined and too long |

`LocalUrl` stands for the loopback URL whatever its port; `MaxGranted` bounds tokens,
which are sets by URL and age.

*OAuthServer.*  Two of each: every race of the code is between two browsers, or a
browser and an operator, or a token request and a registration.  One wrong guess
ends a session here, and addresses are not limited: both counters are orthogonal
to the properties of this run.

*BridgeLifecycle.*  Each command spawns at most one bridge, so two commands need
two.  A third bridge adds no new kind of race: every hazard is between one
process that judges a file and one that changes it.  The second port is for a
bridge that finds the default one taken.

*Processes.*  The two parts do not interact; the variable `part` chooses the one that
is explored, so that the states add up and do not multiply.  Three calls: one that
dies with the lock, and two that race to break it.  Two processes of cloudflared:
an old one whose end is noticed late, and the one that replaced it; a stop and Close
are both there to come between them.

Bounds of the model are named in the modules: `MaxTime` (the clock stops),
`MaxGen` (rotations); identifiers are finite sets; `MaxClock`, `MaxMoment` and `LastMoment` stop the other
clocks.  Deadlock is checked in the runs of ControlStore and AuthStore and in `requests`,
where a call that has been answered may rest (`Answered`: the parts that follow one call
or POST).  In BridgeLifecycle it is not: commands
and bridges end, and the instance has only so many; nor in `processes`, whose calls
end too.

Symmetry is used where identifiers are interchangeable and no liveness property
is checked (`control_slots`, `auth_store`).

### Fairness

*WaitEnds* assumes that the clock runs (`Tick`) and that the wait handler, a
goroutine of a live process that sleeps 100 ms between polls, is scheduled
(`WaitPoll`); nothing is assumed of callers, of the file system, or that the
process lives.

*CommandEnds* assumes that a command that has begun takes its next enabled step
(weak fairness), and strong fairness of `WaitDeadline`: the loop of Ensure
alternates between reading and probing, and its timer fires although the loop
keeps it from being continuously at the select.  Nothing is assumed of bridges:
they may hang at any stage, which is what the deadlines are for.

*SecretEnds* assumes that a call whose process lives is scheduled and that its clock
runs (`Step`, `Expire`); nothing of the holder of the lock, which may be dead.  It says
nothing of calls that meet a lock they cannot remove: these do go round for ever once the
lock is 30 seconds old.

*EndIsNoticed* assumes that the goroutine that waits for a process is scheduled once
the process is over (`Reap`; `Wait` returns), and that a kill that is under way is
sent (`Kill`).  Nothing is assumed of cloudflared.

## 4. Proofs

### The control store

`ControlStoreProofs` proves, for every set of requests, tuples, answers, callers,
every limit and every `Size`:

| Theorem | Statement | Assumes |
|---|---|---|
| `TypeCorrect` | `Spec => []TypeOK` | - |
| `Invariance` | `Spec => []IInv` | - |
| `MemoryAlwaysFile` | `Spec => []MemoryIsFile` | - |
| `FirstAnswerImmutable` | `Spec => []OneAnswer` | - |
| `CancelExcludesAnswer` | `Spec => []CancelOrAnswer` | - |
| `Refinement` | `Spec => LifeCycle` | - |
| `ReceiptsAreKept` | `Spec => []AnswerKept` | the clock is not set back |
| `AlwaysRestartable` | `Spec => []Restartable` | the same, and no encoding has exactly the limit's length |

All of them use `ControlAssumption`, the assumption on the constants.  The two
extra hypotheses are needed: `control_clock_back_reload` and `control_full_file`
are their counterexamples.

*The inductive invariant.*  OneAnswer and CancelOrAnswer speak about histories;
they are kept because the file agrees with them.  `IInv` adds to TypeOK

* `MemoryIsFile`: without it a step could acknowledge what a restart undoes;
* `Consistent`: an answered record of the file has its receipt; a receipt whose
  record is still there is that record; no cancelled request has a record or a
  receipt; every record was issued.  It is what makes a second, different receipt
  impossible: the answer of the first is either still in the record, and refuses
  it, or the request is gone, and identifiers are not drawn again;
* `Bounded`: the number of records, their distinct tuples and their size.

The proof first shows that every step has one of four effects on the file
(`Effect`: records dropped, a new slot, a first answer, a cancellation), once per
action, and then proves each part of the invariant by cases of effects.  The refinement uses the same cases: each effect is a step of
`ControlSlots`, in which records that expire do so together with it.

### The token store

`AuthStoreProofs` proves, for every number of codes, clients, audiences and
generations, and all limits and lives of records, from `AuthAssumption` alone:

| Theorem | Statement |
|---|---|
| `TypeCorrect` | `Spec => []TypeOK` |
| `Invariance` | `Spec => []IInv` |
| `CodesBuyOnce` | `Spec => []CodeUsedOnce` |
| `RotatedStaysDead` | `Spec => []RotatedIsDead` |
| `RevokedStaysDead` | `Spec => []RevokedIsDead` |
| `AlwaysReopenable` | `Spec => []Reopenable` |
| `GrantsAreKept` | `Spec => []GrantKept` |
| `ReplaysAreDetected` | `Spec => []ReplayIsDetected` |

*The inductive invariant.*  None of the three safety properties is inductive alone:
a rotation might bring back a generation that was rotated before, a code might buy
tokens for a family that was revoked, and a failed revocation leaves a file that
the next process loads.  `IInv` adds

* `MemoryIsWritten`: tokens and tombstones in memory are on the file (not the other
  way round: a revocation that could not be written);
* `CodesFresh`: a code that is pending was never exchanged and its family never
  revoked;
* `Chained`: the tokens of a family that were ever returned are of one audience, one
  per kind and generation, and without gaps in their generations.  A token whose
  successor exists is thus the only one of its generation, and the newest generation
  has no successor, which is what makes the refresh token that `Refresh` finds in
  memory an unrotated one;
* `WithinLimits`: the limits, of finite sets.

The proof shows once per action that it has one of three effects (`Effect`: records
are dropped, a code is exchanged, a token is rotated) and keeps memory written, and
then proves the rest by cases of effects.  GrantKept and ReplayIsDetected are proved
on top of the invariant by the same cases; `Shrinks` says which records a step that
grants nothing must keep.

### The install secret

`ProcessProofs` proves `AllGetOneSecret` (`SecretSpec => []OneSecret`) for any
number of calls.  OneSecret alone does not survive `WriteSecret`, which overwrites
the file.  `Exclusive` adds that, as long as no lock was usurped, whoever is between
Mkdir and Unlock owns the lock, and that one about to write has seen no secret on
the file; a call writes under the lock alone, hence nobody has written since.  The premise
covers what section 5 says of `runtime.go:194`, and no more: a lock whose owner is dead
may be broken by any number of calls.

### The tunnel

`ProcessProofs` also proves `StatusAlwaysOwn` (`TunnelSpec => []StatusIsOwn`) and
`NoTunnelLost` (`TunnelSpec => []NoneLost`) for any number of starts, stops and
processes, the latter but for processes that were started while Close ran (`late`).  The
invariant adds `Current`: the provider's process is neither killed nor
about to be, and a process that was never started is not current and has announced
nothing.  Only Release and TimedOut doom a process, and they take it out of `cmd` in
the same critical section; Ready sets the URL only of the process it waits for, after
it has seen in the provider that this is the current one.

### Bridges and commands

`BridgeProofs` proves, for any number of bridges, commands, ports and versions,

| Theorem | Statement |
|---|---|
| `NoLockLeaks` | `Spec => []LockNotLeaked` |
| `FailureIsClean` | `Spec => []FailureLeavesNothing` |
| `StopIsTrue` | `Spec => []StoppedIsGone` |

*The inductive invariant* has a part about bridges and one about commands.  Whoever owns
the lock is between its creation and its removal, or was killed (`OwnerHolds`).  Bridges
that serve have different ports (`PortsDiffer`), and a runtime record, wherever a command
holds it, is that of a bridge that has served (`RecordServed`): hence the process whose
health answer Stop reads at a recorded port is the recorded one, or the recorded one no
longer serves and accepts no shutdown.  That is what makes it safe to wait for, and kill,
the recorded process.  `CommandOK` says what a command may rely on at each of its places.
The proof shows once that no bridge comes back to life or serves twice (`Progress`), so
that a command that does nothing keeps what it knows (`OthersKeep`).

### Authorization, limits, client metadata and assertions

`RequestProofs` proves, for any number of browsers, requests, pairings, clients and hosts,

| Theorem | Statement |
|---|---|
| `PairingIsOnce` | `Spec => []PairingOnce` |
| `RedirectIsSame` | `Spec => []SameRedirect` |
| `TokensAlwaysHaveClients` | `Spec => []TokensHaveClients` |
| `LimiterCounts` | `LimiterSpec => []CountsAreAdmissions` |
| `MetadataIsRecent` | `MetadataSpec => []ResolvedIsRecent` |
| `WithdrawnKeysEnd` | `AssertionSpec => []KeysAreRecent` |
| `SpentStaysSpent` | `AssertionSpec => []NoLateReplay` |

*Approvals*: a session that is open has approved nothing (`OpenIsUnused`), and a request
that was shown a code is either answered with that code or gone (`ShownIsRemembered`).
*Clients*: a client with a token, or with a code that may still buy one, is not evicted.
*Limits*: a bucket counts the admissions since its window began, so the admissions are a
finite set of pairwise different requests and the bucket its cardinality; the windows of
all follow each other without overlap, so that a span of one window's length meets two of
them at most.
*Metadata*: an entry ends no later than the life of an entry and the timeout of a fetch
after its document was served (`EntryOK`), which a hit does not change.
*Keys*: a key in a cached set is still served, or was withdrawn no more than the life of
a set before that set's end (`KnownOK`), because the set's life is counted from the
moment its request began; a request carries the same fact with it (`TokenCallOK`).
*Replays*: the entry of a spent identifier lives as long as the assertion (`ReplayInv`).
This needs the last conjunct of `AssertionAssumption`, that a client gives an identifier
to one assertion: of two that share one, the entry of the shorter could end first.

### The MCP endpoint

`RequestProofs` also proves `SourcesAlwaysAgree` (`McpSpec => []SourcesAgree`) for every set
of POSTs, of any length.  The invariant says that every call that ran was valid under the
version that is selected (`Justified`), and that nothing ran before one was.

### Setup and provisioning

`SetupProofs` proves, for any set of public URLs, `NoConnectionIsFalse`
(`SetupSpec => []NoFalseConnection`), `PageAlwaysOfEndpoint` (`SetupSpec => []PageIsOfEndpoint`)
and `AlwaysReplacedAfterRevoked` (`SetupSpec => ReplacedAfterRevoked`).  The invariant adds
what a run may rely on between its calls: unless it stopped the tunnel or was crossed, what
it has read of the bridge's URL is still so and the tokens are counted for the URL it takes
(`UrlKnown`), a connection is taken for authorized only for the run's own URL
(`AuthorizedIsOwn`), and nothing of the old connection is left when the endpoint is about
to be replaced (`NothingOld`).  The two exceptions are `setup_stopped` and the eighth of
section 5.  It also proves `NamedIsAlwaysReal` (`ProvisionSpec =>
[]NamedIsReal`) for any workspaces, hostnames and commands: a command past a stage has what
the stage made, or what the code takes for it (`Believed`, `lost`), and no command takes it
away again.

### Loops over data

What a loop computes for inputs of every length is proved by induction on the number of
its turns.  The induction theorems of the library take the predicate as an operator, so
`ReadingProofs` starts from the least number of a set (`LeastNat`, from the
well-foundedness of `<`) and takes a predicate to be the set of numbers it holds of:
`UpTo` says that what holds of 0 and is passed on holds up to any bound, and `Recursion`
that a function defined from its value one turn earlier exists and follows that
definition.  Each loop then has a lemma that says what it is at 0 and after one more turn
(`TakingSteps`, `ReadSoFarSteps`, `AddPathKeeps` with `BatchesAreWhole`, `WholeSteps`,
`FollowedSteps`, `CleanIs`), and the rest is about one turn.

### Pages and budgets

`ReadingProofs` proves, for every file, listing, log, diff and call of `read_files`, from
`ReadingAssumption` alone:

| Theorem | Statement |
|---|---|
| `BudgetIsKept` | `ReadingSpec => []WithinBudget` |
| `PagesFollow` | `ReadingSpec => []PagesAreWhole` |

The proofs do not cite the assumption as a whole: `LineBounds` to `BatchBounds` name what it
says of each loop's bounds, and `LinesAsked` to `FilesAsked` what it says of a call.

*Budget*: a page whose maximum is at least `MinRead` keeps to it (`TextRangeFits`); with less,
readTextRange would take its default, which is why ReadFiles stops below that minimum.
*Pages*: PagesAreWhole says where a call has got to, and nothing of where it goes on.
`PagesInv` adds, per tool, that the next page begins where the last one ended
(`LinesSoFar`, `ListSoFar`, `DiffSoFar`), and for a diff that this is not within a
character: without it `DiffEnd` could cut the page to nothing.  `DiffEnds` uses that
`full` is in characters (`InCharacters`: a lead byte has its continuation, or is a byte that
is not UTF-8).  That a page holds a character at all is the assumption that no maximum is
less than 2; the code's is 1024.

### Execution records

`FileProofs` proves `RecordsAreRead` (`RecordsSpec => []RecordsRead`), for any number of
records and readers and every limit.  RecordsRead speaks of the last scan that ended.  The
invariant `RecordsInv` adds

* `ScansOk`: every scan is what the prefix of the file it passed makes of it (`Passed`): the
  line it is in, the count of whole records, and in its ring, of as many places as the
  limit, the last of them; a place is taken again only after a whole turn (`RingTurns`).
  The file only grows, so that what a prefix holds stays (`WholeStays`);
* `AckedOk`: at most the last piece is a head whose tail may still come, and a head whose
  command succeeded is followed by its tail.  Hence a record that succeeded and is not whole
  comes directly after a head that was left behind.

That a scan fails exactly at a line that is too long is part of `ScansOk`: no piece a scan has
passed ends such a line.

### Paths

`FileProofs` also proves `ReadsStayInside` (`PathsSpec => []ReadsAreConfined`) for every
file system that is a tree with links (`IsFileSystem`), of any shape, any rules and any
path.  The argument: a path nothing stops is canonical and stays as it is (`Settled`);
until a path is canonical, names added to it are carried along (`Carried`), so a path that
leads somewhere does so from each of its beginnings (`PrefixLeads`).  What Resolve makes of
a path is therefore canonical, or leads nowhere (`Deepest`), and what is opened is what was
compared with the root and the rules.  A listing walks only over directories that are
canonical and not hidden, and so finds what a request for the name finds (`ListedIsFound`).

`Deepest` needs `LinksSuffice`, which ReadsAreConfined names as its one exception: a path that
leads somewhere does so over no more links than the library follows.  The library gives up
after 255; over a chain of more, Resolve takes the path for one that does not exist yet and
returns the canonical form of a beginning of it with the rest as it is, which may hold a
shorter chain that the system follows when the file is opened.  What is resolved otherwise
is left by no link (`FollowsOn`), so that what is opened is what was compared
(`OpenedIsCanonical`).  The exception is not empty: `LongChainLeaves` of `MCPaths`, which TLC
evaluates, is a file system in which a file outside is read through it.

### Only model-checked

WaitEnds, CommandEnds, SecretEnds and EndIsNoticed: liveness under fairness, which needs
ENABLED.  Every other property of a passing run is a theorem.

## 5. Disagreements between code and documentation

Each is told in full under `findings`.  The first six are violation runs; the last two are
cases that a property of a passing run names as its exceptions.

1. `control_full_file`: `saveLocked` compares the encoding with the limit and then
   appends a newline.
2. `control_clock_back_reload`: `Submit` stores a time before the record's creation
   when the wall clock was set back, and NewStore refuses the file.
3. `oauth_unpair`: `/admin/revoke-all` revokes before it invalidates the pairing.
4. `bridge_one`: a lock file without a record counts as stale, and every lock file
   is without one between its creation and its write.
5. `bridge_reusable`: a command that fails erases the runtime record, whosever it is.
6. `setup_stopped`: setup decodes the second answer of `/admin/info` over the first, and
   the `null` of a bridge without a public URL leaves the old one in place.
7. `requests`, ReadsAreConfined: a path that leads out of the workspace over more than 255
   links is taken for one that does not exist, and then opened (`LongChainLeaves`).
8. `requests`, NoFalseConnection: the handlers of start and stop publish the bridge's URL
   after the provider has changed, and `/admin/info` reads audience, URL and token count one
   after the other; a setup in between (`crossed`) may report a new URL with the tokens of
   another audience, and ask for no authorization.

Seen while modelling, without a run of its own:

* `mcp/http.go:107`: a batch that is refused in the middle has been executed up to there.
  The comment at lines 86-88 excludes this for some refusals only.
* `bridge/admin.go:110`: the start handler publishes its URL after the provider has returned
  it; a stop in between leaves the URL of a stopped tunnel as the audience.
* `setup/service.go:208`: the endpoint is saved before the page is made.  If that fails, the
  next run finds the endpoint it saved and calls the connector's action "none", although
  README.md:67 has the page tell that the app must be updated.
* `setup/service.go:145`: when a tunnel died by itself, a local-only setup keeps its URL.
* `workspace/text.go:158`: of two lines in a range, when the first fits and the second does
  not, the page ends there without a `next` (PagesAreWhole excepts it: `LeavesNoRoom`).
* `workspace/git.go:530`: a diff with a byte that is not UTF-8 ends before it, and the next
  page is empty and names itself as the next one (excepted too, `ended = "stuck"`).
* `workspace/git.go:334`: the status parser takes a second name only after R or C in the
  first column.  git prints one also for a rename in the worktree (` R`, after
  `git add -N`); that name is then read as a record of its own.
* `workspace/repositories.go:395`: repositories are selected without regard to case, so that
  of two that differ in case only, the first is always taken, although the comment says that
  operations "can never silently inspect the wrong repository".  Line 251: what was
  discovered, an error included, is kept until the bridge ends.
* `tunnel/provision.go:183`: a hostname that is routed to another tunnel counts as routed.
  Line 158: the ID in the output of a `tunnel create` that failed counts as a tunnel; its name
  is routed and saved.  NamedIsReal excepts both (`lost`, `mistaken`).
* `setupui/manager.go:85`: two setups at once each replace the other's page; the pair command
  leaves an older page waiting.
* `state/repository.go:83`: after a torn line, the next record is appended to it and lost,
  although its command reported success.  Line 103: the reader has room for lines of 2 MiB,
  and neither AppendJSONLine nor the record command (`cli/state_commands.go:204`) bounds one;
  after a longer line, of one record or of two that were joined, every read fails and no
  record of the file is shown any more.  RecordsRead states both.
* `cli/state_commands.go:109`: two commands that change the session at once: the later wins.
* `config/migrate.go:21`: a migration that stopped half-way is not taken up again, and one
  that runs while another command writes may overwrite it.
* `bridge/server.go:293`: a tunnel that is started while Close runs outlives it, the exception
  of NoneLost.  (So does one whose bridge is killed, which `Tunnel` does not model: the
  provider's state is of one bridge.)  Line 346: a
  bridge killed within 30 seconds leaves a lock that refuses the next until it is that old.
* `auth/http.go:545`: the revocation endpoint answers 200 after a failed write.
* `runtime/runtime.go:194`: the lock of the install secret is broken by its path.  Two waiters
  find the lock of a dead call old; the first removes it, makes its own and goes on, the
  second removes that one, and each writes and returns a secret of its own.  The same may
  happen to a call that is inside for 30 seconds.  These are the exceptions of OneSecret
  (`usurped`).  The error of the removal is dropped: a call that cannot remove an old lock
  loops without sleep and past its deadline, which SecretEnds leaves out (`removable`).
* `auth/client_assertion.go`, `auth/http.go:529`: the table of spent assertions is in memory; a
  restart of the bridge forgets it, and an assertion may be used again while it is valid.
  NoLateReplay is about one process.

## 6. What is not modelled

* Power failures: a renamed file is taken to stay renamed (the directory is not
  synced); the models let processes die, not the machine.
* Reuse of PIDs, and Windows' `processAlive`, which is always false.
* Two processes that hold one store file, other than through BridgeLifecycle.
* Contents of answers, HTML, JSON, scopes, signatures; hashing and randomness
  (identifiers are fresh, hashes are equality).
* Files that change while a path is resolved and opened, or between two pages.
* Guesses from several addresses: `Pairing` has the counters, the runs have one address
  that is not limited.
* Search, outlines, relations, the status and log formats of git: matching of text without
  state.  Session memory, configuration, distribution, logging: see the notes of the
  components in `PROJECT.json`.

## 7. What is left

1. `Pairing` over several addresses: no more than `IPLimit` guesses in a window.
2. Repositories and git status as functions, checked against git's format.
3. A file that grows between two pages, in `Reading`; a link that changes between Resolve and
   the read, in `Paths`.
4. Two setups at once, and the table of setup sessions, in `Setup`.
