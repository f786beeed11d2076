# Kenwea gateway: TLA+ specifications, TLC runs and TLAPS proofs

Kenwea is an MCP server in front of a marketplace. Agents and their human
operators call tools over JSON-RPC on one HTTP endpoint; the server
authenticates the caller against a platform API, passes the call through a
row of gates, forwards it to the platform, and answers a retried call from the
record of its first run. Sessions and idempotency records live in Redis, shared
by all goroutines and all replicas. Beside the endpoint there are a notary
(signed verdicts about packages), a witness for the notary's log, and clients in
JavaScript and Python.

The project models

* the marketplace endpoint and its two stores, from the arrival of a request to its
  reply, with every interleaving of concurrent handlers, with failing and repeated
  commands, with expiring records, and with a platform that revokes keys, claims
  agents and changes permissions at any moment;
* the way of a call from a client through the stdio bridge (or straight over HTTP),
  the envelope of either endpoint and the forwarder to the platform, with requests
  and answers that are lost and calls that outlive everybody's deadline;
* three smaller machines that rest on time: the witness of the notary's log, the
  notary server's cache of published keys, and the tokens that tie a copy of the
  published terms to the moment it was fetched.

Paths below are relative to the repository.

## 1. Inventory

| Part | State it keeps | Operations | Talks to | What makes it correct |
|---|---|---|---|---|
| Marketplace endpoint, `internal/mcp/server.go`, `tools.go` | none of its own; one goroutine per request | POST a tool call or a protocol method, GET a stream, DELETE a session | session store, idempotency store, platform | gates cannot be bypassed by a session, by a revision or by an older tool name; retries agree; a refusal is true; every request is answered |
| Stateless revision, `internal/mcp/stateless.go` | none | the same tool calls without sessions | as above | it neither reads, mints nor ends a session; headers name what the body runs |
| Session store, `internal/mcp/session` | `session:<id>` with a 30 minute TTL, restarted by each use | Issue, Get, Delete | Redis | one actor per session; a deleted session stays deleted; an idle one ends |
| Idempotency store, `internal/mcp/idempotency` | `mcp:idempotency:<actor>:<key>` with a 24 hour TTL | Resolve | Redis | the first record wins; all retries get its response; a differing request is a conflict and nothing else is |
| Authenticator and forwarder, `internal/auth/platformapi` | none | Authenticate, ForwardTool | platform | caller as the platform knows it now; failures become refusals |
| Platform API (documented in `docs/protocol`, code elsewhere) | keys, claims, permissions, orders, escrow, wallets | identify and the tools' routes | - | external |
| Notary server, `internal/mcp/notary.go` | cached list of published keys, under a mutex | check, checkTree, checkTools, verify | platform, a key list and a PEM key over HTTPS | a revocation is seen within a bound and never forgotten; a rotation counts at once; the website is not flooded |
| Log witness, `cmd/notary-log-witness`, and its workflow | `checkpoint.txt`, `witness.log` | one run per schedule: fetch, compare, prove, keep, push | notary log, git | a forked, rewritten or stalled log is told, whatever broke off before; its own lines never contradict each other |
| Stdio bridge, `clients/npm/src/proxy.js`, `protocol.js` | session id, the line it is at | read a line, POST it, write the answer, before the next line | endpoint | each request line is answered once, with its id; a notification never; a retry keeps its key |
| Commands, `clients/npm/src` (check, tree, doctor, init) | none | one question, one answer | endpoint, notary | a failed check never exits as a pass |
| Proposal token and terms history, `internal/mcp/proposal_token.go`, `terms_history.go` | none: a log of terms compiled into each build, a secret in the environment | mint, verify, redeem | descriptor | a token is honoured for the promised seven days; what is told of a change is the change |
| Telemetry (`usage_telemetry.go`, `refusal_telemetry.go`, `client_telemetry.go`) | counters under a mutex, read by `/metrics`, gone with a restart | record | log, Prometheus | the counters bound what was done |
| Descriptors, schemas, discovery files | none | static documents | - | - |
| Python client | last session id | call | endpoint | - |

What is hard here, and why tests hardly reach it:

* A session authenticates without asking the platform, so everything the gateway
  knows through it (that the key is good, what the operator delegated, whether an
  operator exists) may be half an hour old.
* Each store operation is one or two Redis commands, and other requests, on other
  replicas too, act between them. Any command may fail after having been carried
  out, and the client library repeats a command whose reply is lost.
* A forwarded call has happened before its idempotency record is looked up. Two
  racing retries each hold an answer of their own when they meet.
* The witness keeps a head by two writes and a push, each of which may be the last
  thing a run does, and the next run trusts what it finds.
* A verification rests on keys read up to an hour ago, through a source that may be
  down, with a mutex held across the reads.
* A call has four parties in a row (bridge, proxy, gateway, platform), each of which
  gives up on the next after a time of its own, while what it asked for goes on; the
  key that makes a retry safe is read at three of them, in three places of the call.
* A proposal token is redeemed by a build its minter does not know, newer or, after a
  rollback, older; all it can go by is the log compiled into it.
* One request may carry the session of one account, the credential of another,
  the headers of one revision and the metadata of the next.

`PROJECT.json` lists these and the smaller ones as hazards, each at its line and
with the properties that would notice it.

## 2. Modules

```
Tools --- Gates --- Gateway --- MCGateway       the endpoint over the promises
                     |  |  \___ GatewayProofs
                     |  ^ refines
                     |  |
                     | GatewayRedis --- MCGatewayRedis      the endpoint deployed
                     |     |     \___ GatewayRedisProofs
            INSTANCE |     | INSTANCE
      Sessions  Idempotency|                     abstract: what a store promises
         ^            ^    |
         | refines    |    |
   RedisSessions  RedisIdempotency               detailed: the Redis commands
         |            |
      ..Proofs     ..Proofs

WitnessLog  <--- refines --- Witness --- MCWitness
                                 \___ WitnessProofs

NotaryKeys --- MCNotaryKeys              Proposals --- MCProposals
       \___ NotaryKeysProofs                     \___ ProposalsProofs

Tools --- Envelope --- Transport --- MCTransport
                           |   \___ TransportProofs
                           | refines
                           v
                      LineServer
```

The endpoint is composed with the abstract stores, and the stores the server
really runs on (`cmd/mcp-server/main.go`) are shown to implement them, once with
TLC on small instances and once with TLAPS for all. `GatewayRedis` puts the three
together and is shown, in the same two ways, to implement `Gateway`; so what is proved
of `Gateway` holds over Redis, and section 4 says which steps that takes.
`Transport` and `Gateway` share `Tools` and cut the same server
at `serveTool`: `Envelope` is everything in front of it and `Transport` everything
around it, with the gates' verdict a free choice; `Gateway` is what `serveTool` does
with callers, sessions and records, with the envelope's verdict a free choice.

**Tools** is the tool table of `tools.go`: the names that answer, the aliases, and
the classes (idempotent, mutating, open to unclaimed agents, low priority, answered
locally) the gates consult. The `kenwea.` prefix is dropped, and an alias in its
dotted form is written with an underscore where it is a field of a record.

**Gates** holds what `serveTool` decides without asking anybody, as operators on a
request and a caller: `Entrance` (unknown tool, fresh Authorization demanded,
self-registration, session or credential) and `Gate` (backpressure, actor spoofing,
unclaimed agents, missing Idempotency-Key, validation, operator policy), in the
order they stand. A request is a record of what the gates tell apart: HTTP method,
revision, tool name, credential, session header, key, hash of params, and the
claims its params make. The three codes a policy refusal may carry are one.

**Gateway** is the endpoint. A handler `h` is at `pc[h]`:

| `pc[h]` | the code is | actions that leave it |
|---|---|---|
| `idle` | waiting for a request | `Post`, `DeleteOrGet` (`ServeHTTP`, `serveTool` up to its first call) |
| `session` | in `sessions.Get` or `Delete` | `SessionAnswers` (`authenticate`, `server.go:177-192`) |
| `identify` | in `Authenticate` | `Identified`, `IdentifyRevoked`, `IdentifyFails` |
| `issue` | in `sessions.Issue` | `IssueAnswers` |
| `gates` | authenticated | `PassGates` |
| `forward` | in `resultForRequest` | `Forward`, `ForwardFails`, `AnswerLocally` |
| `resolve` | in `idempotency.Resolve` | `StoreAnswers` |
| `replied` | answered | `Done` |

`who[h]` is the `AuthResult` in hand, `reply[h]` the answer. The variables of the
two stores are those of `Sessions` and `Idempotency`, whose operations take place
between the call and the answer. `revoked`, `claimed` and `granted` are the
platform's; `Revoke`, `Claim` and `Delegate` change them at any time. A claim is
never undone, as in `docs/protocol/state-machines.json` (`onboarding_state`);
permissions may be given and taken. `gone`, `held` and `current` are history: what
had been revoked when the request came, which rights were held at some moment since,
and which handlers were answered from a record that still stands.

**Sessions** and **Idempotency** are the promises of the two stores: one atomic step
per operation, as under the mutex of the in-memory stores (`teststore`), with the
liberty a network store needs: an operation may fail, with or without effect, a
session or record may run out, a record may be written before its caller hears so.

**RedisSessions** has one action per command: `SET` with TTL (`SetEx`), `GET`
(`GetFinds`, `GetMisses`), the `EXPIRE` that follows a hit (`Expire`, its outcome
ignored as in the code), `DEL`. `left[s]` is the TTL, counted down by `Tick`.

**RedisIdempotency** has `SetNX`, `SetNXTaken`, `Get` (with the comparison of
hashes), `GetGone` (the record lapsed between the two commands; `redis.Nil` is
returned as an error), and `Resend`/`GiveUp` for a command whose reply is lost, with
or without having been executed.

**GatewayRedis** is the endpoint as `cmd/mcp-server` wires it: the handlers' code from
`Gateway`, the commands from the two Redis modules, over one keyspace for sessions and
one for records. `HandlerSteps(h)` is a step of the handler's code that begins an
operation of a store, takes the answer of one, or leaves the store alone (`AsksSessions`,
`AsksRecords`); `SessionCommand(h)` and `RecordCommand(h)` are one command each of the
operation `h` is in. Commands of different handlers interleave, TTLs run out between any
two, and a reply may be lost. `promised` is what `h` has been promised by its session
operation: with `read[h]` set, the answer to its `Get` is decided though its `EXPIRE` is
still to come. With `promised` for `told` every behaviour of it is one of `Gateway`
(`ImplementsGateway`).

**Witness** is `run` and `keep` of `cmd/notary-log-witness/main.go`, one run after
another, with the workflow around them. What a head stands for is an element of
`Tree`, `size` the number of its records, and `extends` says which tree begins with
which: exactly what a consistency proof can show. The log is the adversary and serves
any head, with or without a time. The constant `Checkout` tells the two uses apart:
the workflow starts from a fresh checkout and its files count once pushed; on a plain
directory each write counts at once.

| `pc` | the code is | actions that leave it |
|---|---|---|
| `idle` | between runs | `Start` (`time.Now`, the checkout) |
| `look` | fetching and comparing, `main.go:69-136` | `Look(hd)`, one disjunct per `case` and return; `LookFails` |
| `prove` | fetching the proof, `main.go:137-161` | `Prove`, `ProveFails` |
| `write` | in `os.WriteFile` of the checkpoint | `Write`, `WriteBreaks` (nothing, a torn file, or all of it, and no more) |
| `append` | in the append to `witness.log` | `AppendLine`, `AppendFails` |
| `push` | in the workflow's commit and push | `Push`, `PushFails` (with or without effect) |

`kept` is what the next run will find, `copy` what this one works on. `since` in both
is history (when the checkpoint's tree was first kept), and so is `passed`, the trees
of all heads that passed.

**WitnessLog** is the promise of the lines in `witness.log`: an append-only list in
which each line's tree begins with the one before it and neither time goes back.

**NotaryKeys** is `notaryKeys.list` and what `notaryVerify` concludes from its answer.
`Hit` is a call that finds the mutex free and the cached keys good; `Read` one that
takes the mutex to read the list; `ListRead`, `ListFails`, `PemRead` and `PemFails`
are what becomes of the read, while the clock ticks, other verifications wait and the
website's list and PEM key change (`Rotate`, `Revoke`, `ReplacePem`; a status never
goes back). `cache` has the four fields of `notaryKeys`; `lockedAt` is the `now` read
after `k.mu.Lock()`. A record is the key it names and the key it was signed with.

**Envelope** is the reading of one HTTP request, as operators: `ServeHTTP` and
`serveNotary` give either a `Reply` or the tool to `Run`. On the way are the bodies that
are no request (`BadBody`), the split of the revisions (`isStatelessRequest`), the
checks of `_meta` and of the routing headers (`BadMeta`, `headerMismatch`), versions
nobody speaks, and the protocol methods. A message is what these tell apart: its shape,
whether its id is given, null or absent, its method, its name, its version. One name is
not header-safe (`"unicode"`) and one looks like that one's encoding. A `Reply` is a code
and whether the request's id comes with it, since it is by the id that a client behind
the bridge finds its answer. The second half is the bridge's: which lines are
notifications, which calls get a key and which, and the headers (`buildHeaders`).

**Transport** follows up to `MaxCalls` calls of one account. `stage[i]` is where the
gateway is with call `i` and `fate[i]` what the platform makes of it; these are two
variables because neither party knows the other's.

| action | the code |
|---|---|
| `ReadLine`, `ReadGarbage` | a line from stdin is parsed and POSTed, or refused (`proxy.js:117-135`) |
| `PostDirectly` | a client that needs no bridge |
| `Lose` | the request never reaches the gateway |
| `AnswerEnvelope`, `GateRefuses`, `KeyRequired`, `RouteFails`, `AnswerLocally` | the ways out before the platform is asked |
| `Forward` | usage is counted and the call sent with its key (`server.go:389`, `authenticator.go:115-143`) |
| `ForwardReturns`, `ForwardRefused`, `ForwardFails` | the platform's answer, its 4xx, or the deadline, a lost connection, a 5xx (`writeForwardError`) |
| `CarryOut`, `PlatformRefuses` | the platform, at any time: a call under a key it has carried out already is answered from the first |
| `Receive`, `ReceiveNoJson`, `FetchFails` | what the bridge writes for an answer, for one of the proxy's, for none (`proxy.js:66-97`, `137-156`) |

The bridge's fetch may fail while the gateway still works on the call, and the gateway
may give up while the platform does. That the platform acts once under a key is assumed
(`README.md:652-673`); what is checked is that the key gets there, the same each time.

**LineServer** is what the bridge promises its client: lines are taken one at a time,
and a request is answered, with its id, before the next line is read. `Transport`
implements it with the waiting line for `open`.

**Proposals** is the life of the published terms. `releases` is the log as it grows,
`live` the build that serves, whose own log ends at its entry; `Deploy` may go back to an
older one and change the secret; the clock may be set back. `Release` adds only terms the
log does not hold, because the repository's tests refuse a build that publishes
unrecorded terms or records any twice. A copy is the terms it shows and its token, whose
signature is the secret it was made with; there may be one from before the log, of
unrecorded terms or with a legacy token that has no fingerprint. The token names the second
in which the copy was `fetched` (`Unix`), and its age is taken with the finer clock. `redeemProposalToken`
leaves in `answer` what it said.

## 3. Runs

| Run | Question | Distinct states |
|---|---|---|
| `RedisIdempotency` | do requests answered from a standing record agree, is nobody answered with another request's response, is a conflict real, is a record never overwritten, is `SET NX` plus `GET` the one-step store, and does every Resolve return although records lapse and replies get lost? | 94 000 |
| `RedisSessions` | is a deletion final, does an idle session end and does a session keep its actor though GET and EXPIRE are apart, and is it the one-step store? | 568 000 |
| `GatewayRights` | can a revoked key mutate anything through a session it left behind, do stale policy bits or a stale claim let anything through, and do stateless requests leave sessions alone? | 2 466 000 |
| `GatewayRedis` | do racing retries on one key leave with one reply when every Redis command is a step of its own, and is the endpoint over Redis the endpoint over the two promises? | 317 000 |
| `GatewayLive` | is every request answered, and is the account the gates judge the one the platform acts for, also when a request names the live session of the other account? | 830 000 |
| `WitnessBranch` | in the workflow: does no fork pass, is the stall alarm exact, does a passing run leave a recent line, are the lines the list `WitnessLog` promises? | 311 000 |
| `NotaryKeys` | how long may a revoked key pass for good, can a revocation be forgotten, does a rotation count at once, how often is the list read, and is every verification answered while others hold the mutex? | 337 000 |
| `Transport` | does a key its client chose act once however the call is repeated, is a refusal true also later, do headers name what runs, do the usage counters bound what happened, and is the bridge a line server that answers in the end? | 96 000 |
| `Proposals` | does a redeemer get from his copy to the terms in force by what he is told, and is a token honoured for its life and no longer? | 1 305 000 |
| `GatewayJoin`, `NotaryKeysUnknown`, `TransportPinned` | expected violations, see section 6 | to the violation |

Bounds. Two handlers suffice for every pairwise race of the endpoint and two callers for
a race to one idempotency record (callers come back for more, and records lapse between
their calls); `RedisSessions` has a third, as its property is about what two were told
while a third interferes. One account with one key
is enough for revocation (its last key), two accounts for confusing them. One session
id is enough for an id to be minted, reused, deleted and run out; ids are drawn once
(`used`), being 256 random bits. `GatewayLive` has two: a request that carries one
account's credential mints a session itself, and only with a second id can it name the
live one of the other account (`With("agent_identity", c2, s1)` in `LiveRequests`); nobody
is claimed in it (`Agent` is empty), which `GatewayRights` is about. That run has one id
and so one minting request after another; what it sends beside the live session is
stateless, a bid on the credential among it, and can come at any time. `RoomForSession` is the bound that goes with it: a
POST that would mint a session is only taken while the instance has an unused id left
for every handler that may draw one. It keeps a handler from being stuck for want of
an id, which the program cannot be. Two hashes and two responses distinguish "same
request" from "same answer". In `RedisIdempotency` `MaxResends` is 2: a command may be repeated and its
repetition be repeated; in `RedisSessions` a TTL of 2 ticks allows a session to be used
halfway. `GatewayRedis` has 1 of each, one account and one id of each kind: what the
stores do at length is the business of their own runs, and here it is their commands
between the handlers' steps. Its `RedisRequests` mint a session with a keyed call, repeat
the key on the session with other params, and delete the session meanwhile; nobody is
claimed in it (`Agent` is empty), which `GatewayRights` is about. Each gateway run sends only the requests that bring its question to a head
(`RightsRequests`, `LiveRequests`, ... in `MCGateway`), because the full
product of request fields has no finite use; the theorems of section 4 lift that
restriction. Handlers are interchangeable, hence the symmetry in the
safety runs of the endpoint; of the other runs only `Proposals` uses one.

The trees of the witness are the smallest with every relation two heads can have:
`a1`, `a2`, `a3` grow from each other, `b2` is as large as `a2` and forks from `a1`,
`e0` is the empty log, of which nothing is proved. The limits are one or two ticks and
differ where their order matters (`every` over `stale`), and `MaxTime` leaves time for
a head to be kept, to turn old and to be judged again. In `NotaryKeys` two keys allow
one rotation, `Asked` holds a record without a key's name, one with and an altered one
(`MCAsked`), both lives are twice the minute, and `MaxTime` lets a list that was read
run out. `NotaryKeysUnknown` has a longer list life, as it is about other times.
`MaxTime` bounds the clock and with it the runs.

The witness on a plain directory (`Checkout` false) is not a run of its own: the
theorems of section 4 hold for it as for the workflow.

`Transport` has two calls and two lines: every property of it is about one call, or about
two that share a key or follow each other. The 27 lines and requests of `MCTransport`
take each way through the envelope once and name the one chosen key in each of its three
places; `TransportPinned` sends only purchases that carry it as an argument. Of
`Proposals`, one copy suffices, because copies do not touch each other and a mint
depends on nothing but the build; of the four sets of terms each two differ in another
way, three releases put one between a copy and the terms in force. A second has two ticks
(`Second`), a life one second and the clock two: a copy is fetched at the beginning or in
the middle of a second, and its token is young, at its last moment, in the part of the life
that the cut to whole seconds takes, and over. The two secrets are interchangeable, hence
the symmetry.

Fairness. `FairSpec` of `Gateway` assumes weak fairness of `Serving(h)`, the steps a
handler takes without its client: the calls to the platform have deadlines (`authTimeout`
5 s, `toolTimeout` 90 s), those to Redis time out in the client library, and the rest
is sequential code. Nothing is assumed of clients, of expiry or of the platform's own
actions. `FairSpec` of `RedisIdempotency` assumes the same of the commands of one
`Resolve`, which run under `context.Background()` and are not cancelled.
`FairSpec` of `NotaryKeys` assumes weak fairness of the read under way, which
`notaryHTTP` ends after ten seconds, and strong fairness of each waiting call: others
take the mutex between, but a Go mutex goes over to handing itself to the longest
waiter after a millisecond. Nothing is assumed of the clock or the website.

`FairSpec` of `Transport` assumes weak fairness of each gateway handler, for the same
deadlines as above, and of the bridge once its answer is there or its request lost. It
assumes nothing of the platform: a call it never speaks of is answered all the same.

Every property has a mutant: the model with one plausible bug in the code behind it
(an Idempotency-Key taken for protection enough, a session that wins over
Authorization, `SET` without `NX`, hashes not compared, a session rewritten by its
refresh, ...). The mutants stand in the modules before the definition they replace,
each with a comment that starts with "Mutant".

## 4. Proofs

The eight modules named `...Proofs` hold the proofs; `PROJECT.json` lists the theorems.
Every safety invariant, action property and refinement of the runs is one of them.
All are for arbitrary sets of handlers, requests, accounts, keys, sessions, hashes,
responses, policies, trees, messages, terms, secrets and limits. The assumptions are those
the modules name: agents are accounts (`AgentAssumption`), policies are sets of
permissions, requests are well-formed records (`RequestAssumption`), `Owner` maps each credential to an
account, TTL and `MaxResends` are natural numbers (TTL not 0), and `None` differs
from all values it stands beside (`NoneAssumption`). For the witness, a tree begins
with itself, with what its beginnings begin with and with the empty one
(`TreeAssumption`); lines and requests of `Transport` are messages and requests
(`Messages`) and `None` is no key and no method (`NoneIsNothing`); terms are records of their four parts (`TermsAreRecords`);
for the key cache, both lives of a list are at least the minute
between reads (`TimeAssumption`; in the code an hour, five minutes and one) and what
is asked about are records (`RecordAssumption`). TLC
evaluates them in every run.

Each safety theorem follows from an inductive invariant `IInv` of its module.

*RedisIdempotency.* `Shape` ties a caller's place in Resolve to what it holds;
`Standing` says that a caller counted as current was answered from the record still
standing, with its own hash; `Provenance` says that every record was offered by some
request on its key. Agreement alone is not inductive: a caller that is about to be
answered must be known to be answered from the standing record.

*RedisSessions.* `Ids` says an id is drawn once and only the drawer writes it;
`Ended` that a deleted id is empty, known and in nobody's hands who could write it;
`Timing` that TTL left and idle time add up to at most a TTL. The last is why
`EXPIRE` may restart the TTL at any moment without keeping an unused session alive:
a session being worked on is not idle.

*Gateway.* `Places` says what a handler holds at each place. `Callers` says that the
caller in hand is either `Fresh` (its credential was sent, is its own, had not been
revoked when the request came, and what is known of its rights was true at some
moment since) or `Reused` from a session, and then the tool mutates nothing. `Since`
says the history variables cover the present. `Claims` says that what a session or a
handler believes about a claim is true, because claims are not undone. `Standing`
says that an answer counted as current is the record's. `RevokedKeysDoNotMutate`,
`WithinDelegation` and `ActsForItsCaller` follow from `Callers`: bids and
publications are mutating, so only a fresh caller gets there. `TouristContainment`
needs `Claims` beside it, because an unclaimed agent's session does reach the gates.

*GatewayRedis.* Nothing is proved of the deployment twice. `G`, `SP` and `RP` in
`GatewayRedisProofs` are the theorems of the three proof modules in the variables of the
deployment, and `Parts` is the conjunction of their three invariants. The stores' parts
are kept because each step of the deployment is a step of either store or leaves it alone
(`StoresStep`). Gateway's part is kept because each is a step of `Gateway` under
`promised` (`StepMaps`), and that needs the stores' invariants: a handler that has read
an actor and not yet sent `EXPIRE` must not be told anything else. `Refinement` is
`ImplementsGateway`, and `GatewayOverRedis` carries over the safety properties of
`Gateway` by name. Three properties concern the handlers and the commands at once, and
neither side can state them alone: `DeletedSessionsAdmitNobody` (after a confirmed DELETE
no POST that begins later is taken for the session's actor), `RepliesAreOwn` and
`ConflictRepliesAreReal` (what a client gets for a keyed call was obtained for the same
account, key and params, and it hears of a conflict only if there is one). For them
`Honest` is proved along with `Parts`: `DeleteSticks` speaks of what the store says, and
between that and the reply lie the handler's steps.

*Witness.* `Places` says what the run holds at each place: before it writes, that the
head it is about to keep begins with the kept one and is not older. `Sound` is kept by
both copies of the files, torn or not: the lines agree with each other, the
checkpoint is at or past them all (`CheckpointLeads`) and past every head that passed
(`CheckpointRemembers`). That is why a crash between the two writes cannot hide a
fork: the checkpoint goes first, and the comparison is with the checkpoint. `InStep`
says that with a checkout the last line is the checkpoint's and from when its tree was
first kept; `StaleIsToldHolds` needs it and therefore assumes `Checkout`, without
which it does not hold: a run on a plain directory that breaks off between its two
writes leaves a checkpoint without a line, no later run adds one while the head is
unchanged and untimed, and the alarm comes never or early. `Refinement` maps `AppendLine` (or the
push) to `Keep` and every other step to a stutter.

*NotaryKeys.* `Holding` ties the holder of the mutex to its read, `Remembered` says
that what a list gave as revoked is so in the cache, which from then on is never a PEM
key. `Bounded`, `RevokedSince` and `ListedSince` say that the cache's two times bound
how much older than the website its keys can be, or that a read has failed recently
enough to excuse it; `Paced` that a read which left a list put off the next. The action
properties follow, each for the steps that tell a verdict or begin a read.

*Transport.* `Progress` ties what the gateway has done with a call to what may have become
of it: nothing before it is forwarded, and only calls of forwarded tools. With it
`AnswersAreTrue` is inductive: a refusal is given either before a call is handed on, or
when the platform has refused, which it does not take back; every doubtful outcome is
answered `platform_api_unavailable`. `Counted` says a call is counted by the time the
platform has it. `KeyOnce` is the platform's promise; `PinnedOnce` follows because the
key the forwarder sends is the one the client chose, for which `Bridging` keeps what the
bridge made of a line. `Identified` says that a request line's answer carries its id
whichever way it takes through the envelope, and `Waiting` that the line being waited
for is the last one; `BridgeImplements` maps `ReadLine` to `Read`, `ReadGarbage` to
`Reject`, the three ways a fetch ends to `Answer` or `Pass`, and the rest to a stutter.
`EachLineOnce` shows what the promise is worth.
`BridgeKeysSuffice` and `BridgeHeadersAgree` relate two programs that were written apart,
the JavaScript of the bridge and the Go of the endpoint, each with a table and a header
rule of its own: on the stateless revision the bridge adds a key for every tool the
endpoint wants one for, and its headers are refused only for a call without a name or with
one that looks like an encoded name. Both follow from `Blame`, which says for an answered
call which check of the endpoint the answer came from.

*Proposals.* What an answer says is fixed when it is given, and stays true because the
log is only appended to: `Binding` keeps each copy's fingerprint that of its terms. That
the change told is the right one rests on a lemma about `setDifference` (a set with the
difference applied is the other set) and on terms with one fingerprint being the same,
which makes any entry `entryOf` finds as good as the copy's own. `Dating` says that a token
is dated less than a second before its copy was fetched, so that is the most `SevenDays`
can fall short by.

The refinements (`Refinement` in the two Redis modules) map the initial states to
initial states and each command to the abstract operation or to a stutter: `GET` of a
live session is the abstract `Get`, its `EXPIRE` invisible; a `SET NX` whose reply is
lost is `WriteUnheard` or a stutter.

*Towards liveness.* That something happens in the end depends on fairness and is out of
the prover's reach. What the code itself contributes is not, and is proved in two parts
per component. A measure: `NearerHolds` in five of the modules says that every step of an
actor on its request leaves it fewer steps, that nothing else that happens, by whomever,
gives it more, and in what bound they begin. And a way on: a request in the middle of its
service always meets the guard of a step (`NeverStuckHolds` of `Gateway` and `Transport`,
`NeverLeftLocked` of the key list; of a Resolve, that none is left exactly when it is not
at work). Together they exclude the loops and the dead ends by which a fair system still
fails its clients; what remains to believe is that actors go on.

| Liveness property (TLC) | Measure (TLAPS) | Steps at most |
|---|---|---|
| `EveryRequestAnswered`, over the promises | `StepsLeft(h)` of `GatewayProofs` | 7 |
| the same over Redis | `StepsLeft(h)` of `GatewayRedisProofs`, commands included | 2 (`MaxResends` + 1) + 6 |
| `EveryResolveReturns` | `CommandsLeft(c)` | 2 (`MaxResends` + 1) |
| `EveryVerificationAnswered` | `StepsLeft(c)` of `NotaryKeysProofs` | 3 |
| `EveryLineAnswered`, the endpoint's part | `StepsLeft(i)` of `TransportProofs` | 2 |

The step of `GatewayRedis` is the one that can go wrong unseen: a `GET` that finds its
record lapsed is an error there and then, and would it start over with `SET NX` instead,
two handlers and a short TTL could keep each other going for ever.

Only model-checked: the four liveness properties themselves (`EveryResolveReturns`,
`EveryRequestAnswered`, `EveryVerificationAnswered`, `EveryLineAnswered`), and
the violations in section 6.

## 5. Not modelled, and why

* The paths and query strings of `ForwardTool`; in `Gateway`, a route that lacks a
  path parameter is `platform_rejected` like any refusal of the platform.
* What the platform does with a call beyond once for a key. Without a key, a call may be
  carried out as often as it is sent. Go's HTTP client may itself send a keyed POST twice;
  the second finds its key carried out and changes nothing, so it is no action.
* The bridge's session id: it is sent only beside the Authorization, which the server
  prefers (`Gateway` has requests with both), and nothing of the bridge depends on it.
  Blank lines, which it skips, and the text of its errors.
* The contents of `initialize`, `tools/list`, `server/discover` and of tools answered
  locally; health, metrics and discovery routes. None keeps state.
* The counters of the telemetry by tool and tier, and of proposal tokens by age: sums of
  what `Transport` has as sets. A restart empties them, as their reader expects.
* A Redis command that is carried out only after the client library has given it up for
  good: here a command takes effect before its caller goes on, or never. Such a `SET NX`
  would still offer one request's own response and overwrite nothing; such an `EXPIRE`
  could lengthen an idle session's last TTL.
* The nonce of a proposal token, and two terms with one 64-bit fingerprint: fingerprints
  stand for what they are made of.
* `resultFor` for tools that would be forwarded: without a forwarder (tests only).
* A line of `witness.log` written in part (it is one short write), two runs at once on
  one plain directory (the workflow's concurrency group excludes them), and a clock
  that goes back.
* The look into the transparency log that accompanies a valid verdict.
* Wording of messages, log lines, headers that are only echoed.
* The components marked `not_modelled` in `PROJECT.json`.

## 6. Findings

**`GatewayJoin`.** `kenwea.collab.join` documents its `role` argument as "Your role exactly as the
collaboration records it" (`internal/mcp/schemas.go:243`), and a recorded role is free
text. `rejectActorSpoof` (`server.go:753`) reads every `role` as a claim to be an
"agent" or an "operator" and refuses any other with 403, before the platform is asked.
`GatewayJoin` shows the refusal. A member can join over MCP only where the recorded
role happens to be its actor type.

**`NotaryKeysUnknown`.** `internal/mcp/notary.go:357-359` reads the list again for an
unknown key "at most once a minute". When both addresses fail, `list` returns before it
sets `retry`; with a PEM key cached, each record that names another key then starts two
more requests under the mutex. `ListAskedOnceAMinute` holds where a list was ever read.

**`TransportPinned`.** `internal/mcp/schemas.go:33` tells every client that the argument
`idempotencyKey` makes a call safe to retry. Through the bridge it does not: the bridge
looks for a key in `_meta` only (`protocol.js:82-93`), else draws a new one for each call
(`proxy.js:56`) and sends it as the header, which the gate (`tools.go:496`) and the
forwarder (`authenticator.go:133`) prefer. A client that repeats a purchase with the same
argument after `bridge_transport_error` buys twice. Over HTTP, and with the key in `_meta`,
a repetition is safe; that is `PinnedOnce`.

Met while modelling, without a run:

* A checkpoint without a time "falls back to the old rule", growth
  (`cmd/notary-log-witness/main.go:23-24`). In the code its time is Go's zero time, and
  `main.go:107` finds that earlier than any time a kept head names: once a timed head was
  kept, an untimed one is refused as signed in the year 1, grown or not. That is on the
  safe side, but not the rule described.
* `README.md:654-664` lists nine tools that need an Idempotency-Key, the code has ten
  (`onboarding.startOperatorAgent`).
* `server.go:374` calls the usage counters "real served calls", and they are incremented
  before the call is forwarded; `UsageBounds` says what they are: an upper bound.
* `protocol.js:31-32` says the server answers a notification "with 202 and no body". On
  the older revisions only `notifications/initialized` is; any other gets a body, which
  the bridge drops, and a `tools/call` without an id is executed.
* A request line over a megabyte, and one whose `method` or `jsonrpc` is no string, is
  answered with `invalid_json` and no id, so its client cannot match the answer.
* A tool name that looks like the encoding of another is refused as a header mismatch: the
  bridge sends it as it is and the server decodes it.
* After a rollback, a token minted by the newer build is told that its terms predate the
  log (`proposal_token.go:309`), when they postdate it; and a change in nothing but the
  order of the promises is a stale token with no change to tell.

## 7. Plan

Done: the endpoint and its stores, the envelope of both endpoints, the bridge and the way
to the platform, the witness, the key cache, the proposal tokens and the terms history.
What is left, in this order:

1. One state for a call in `Gateway` and `Transport`, which now meet only in `Tools` and in
   the words of `serveTool`: `Gateway`'s requests would then be what `Envelope` lets through,
   and the record of a key and the platform's own would be seen side by side.
2. The session id of the bridge, once a server does not prefer the Authorization.
3. The exit codes of `check` and `tree` as operators over the answers they may get.
4. Of the proofs: with 1, what a client is told of a keyed call over the whole way, from
   the line it writes to the record it is answered from (`PinnedOnce` and `RepliesAreOwn`
   in one theorem, each now holding on its own side of `serveTool`).
