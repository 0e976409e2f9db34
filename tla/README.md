# A verification development of monolake

Monolake is a proxy server in Rust. One process runs a *manager* thread, which watches a configuration file, and a
number of *worker* threads, each an asynchronous runtime (monoio) of its own that runs the accept loops and the
connections of every configured site. This directory holds TLA+ models of its parts, TLC runs that check them on small
instances, and TLAPS proofs of their main properties for every value of the constants. Paths in this document are
relative to `src/`.

* [Inventory](#inventory): the parts of the system, what they keep, do and have to guarantee
* [Modules](#modules): which module models what, and how its state and actions correspond to the code
* [Runs](#runs): what is checked, with which bounds and under which fairness
* [Proofs](#proofs): what holds for every value of the constants, and by which invariant
* [Disagreements](#disagreements-with-documentation-and-assertions): three runs in which the code does not do what it says
* [Limits](#limits): what is only model-checked, and what is not modelled
* [Plan](#plan)

## Inventory

### How the parts interact

```
        config file                                one worker thread (of NumWorkers)
             |                        +--------------------------------------------------------+
   StaticFileConfigManager --dispatch-+-> ServiceExecutor --Rc<slot>--> accept loop (serve)     |
   (manager thread)        <--result--+   table of sites   stop channel     |                   |
                                      |                                     v  one task each    |
                                      |   ConnectionPrefix (PROXY header, HTTP/2 preface), TLS  |
                                      |       |                    |                  |         |
                                      |   HttpConnection      H2Connection       ThriftProxy    |
                                      |   (h1_svc)            (h2_svc)           + pooled links |
                                      |       +---- handler chain ----+              |          |
                                      |          OpenIdSessions (shared by workers)  |          |
                                      |          HttpProxy + pooled connections      |          |
                                      +--------------------|-------------------------|----------+
                                                       upstreams                 upstream
```

The manager calls the workers, one after the other, through a queue with an answer for each command. Inside a worker
everything is cooperative: tasks interleave at `await` only. The executor and the accept loops of a worker share the
*slot* of a site (a reference-counted cell with its service); the executor stops a loop by dropping the receiver of
its stop channel. Connections share pools of upstream connections, which an update hands on from the old service of a
site to the new one. The session store of OpenID is the only state that workers share.

### Components

| Component | State | Operations | What is hard | What makes it correct |
|---|---|---|---|---|
| Configuration reload, `monolake/src/config/manager.rs`, `main.rs` | content and services applied last; position in the stage of a reload | watch loop, read, parse, diff (`patch`), prepare, commit, abort | the file changes during a read; a stage fails in the middle; a worker dies in a command; a failed commit ends the process | workers agree between reloads; a commit finds what was prepared; the last valid file is served eventually |
| Worker threads, `monolake-core/src/orchestrator/worker_manager.rs` | threads and their queues | spawn, `dispatch_service_command` | a worker that is dead, or never started, answers everything with an error | an answer for each command; all workers serve, or none |
| Service executor, `monolake-core/src/orchestrator/service_executor.rs` | table name → (staged, committed slot and stop channel) | Precommit, Update, Commit, PrepareAndCommit, Abort, Remove | commands await in the middle; slots are shared with loops | commands are atomic on a site; every deployed site has exactly its loop; a staged service starts from the state of the one it replaces |
| Accept loop, `serve` in `orchestrator/mod.rs` | slot, stop channel | accept, take the slot's service, spawn | `select!` with both branches ready | new connections get the service deployed last; a removed site's loop ends |
| HTTP/1, `h1_svc` in `monolake-services/src/http/core.rs`, `http/util.rs` | the request in progress, its half-read body, the response | decode, handle, send, drain, three timeouts | the body is filled while the handler runs, while the response is written, and after; pipelining | the next head is read from behind the last body; a future is not polled after it ended; every request ends |
| HTTP/2, `h2_svc` in the same file | channel of accepted streams, two pools of futures | accept, receive, handle, relay | a `select!` with disabled branches, an `else` that ends the loop | nobody starves; the loop does not leave a request behind |
| Connection persistence, `http/handlers/connection_persistence.rs` | – | rewriting of the `Connection` header in both directions | decided by version and header, away from the loop that acts on it | what the client is told is what happens |
| Content, upstream and routing handlers, `http/handlers/` | pools of connections, a selector for each route | `handle`, making a service from an old one | requests of all connections interleave on pools and selectors; updates in between; timeouts that apply to one scheme; panics in a worker | each request goes by the route of its service, on a connection that fits, and ends |
| OpenID handler, `http/handlers/openid.rs` | a map of sessions under a lock, shared by the workers | `handle`: check the cookie, redirect, exchange a code, store the token | a login takes two requests on any workers; callbacks come twice; a lock over a second lock; panics; restarts | nothing is served without a token for its session; a login in progress blocks nobody and is not undone |
| Cancellation, `common/cancel/` | list of wakers in a vector with reused nodes | poll, drop of a waiter, cancel, drop of a canceller | links of nodes that are used again; waiters come and go between polls | a queue; everybody is woken; the vector does not grow without need |
| PROXY protocol, `proxy_protocol/mod.rs`; version detection, `common/detect.rs`, `http/detect.rs` | a fixed buffer and a position | read, parse, hand on what was read | every fragmentation, every place to be closed in | the header is taken off whole, and only it; HTTP/2 is spoken with those who sent the preface; nobody is kept for ever |
| Thrift, `thrift/ttheader.rs`, `thrift/handlers/proxy.rs` | connection loop; pool of upstream connections | peek, decode, connect or reuse, send, receive, reply, two timeouts | pooled connections die or keep what an exchange left on them; messages are not numbered | the response is the one to this request; the pool's connections are idle |
| Selectors, `common/selector.rs` | index of round robin | make, select | lists without endpoints, sums of 16-bit weights; an index shared by all requests | what cannot be balanced is refused before it serves; no upstream is passed over |
| TLS, `tls/` | certificates | make an acceptor, handshake | an acceptor that cannot be made | a site without it is refused before it serves |
| Service factories, `monolake/src/factory.rs`; listeners, `monolake-core/src/listener.rs` | – | make the stack of a site, bind | errors and panics deep in a stack | a site that cannot be made leaves those that serve alone |
| Wrappers (`timeout.rs`, `delay.rs`, `panic.rs`, `erase.rs`, `map.rs`), contexts, hyper, echo | none of their own | – | – | – |

`PROJECT.json` lists every part with its status, and under "hazards" the 40 places in the code where something can go
wrong that a test would hardly reach, each with the properties that cover it or the reason why none does.

## Modules

The abstract specifications say what a component promises; the detailed ones are translated from the code and are
shown to implement them.

| Module | Models |
|---|---|
| `SiteTable` | The operations of the executor on the container of one site, as operators on a record; shared by the two modules about deployment. |
| `RollingDeploy` | *Abstract.* Workers go from one set of services to the next, each site of each worker once, and either all do or none does. |
| `ConfigReload` | The manager with all workers. Implements `RollingDeploy`. |
| `SiteFactory` | What can come of making the service and the listener of a site; operators, used by the instances of `ConfigReload`. |
| `SiteCommands` | *Abstract.* Commands on sites, each atomic. |
| `ServiceExecutor` | One worker's executor with its accept loops. Implements `SiteCommands`. |
| `HttpConnection` | One HTTP/1 connection with its client. |
| `H2Connection` | One HTTP/2 connection with its client. |
| `ConnectionPrefix` | The first bytes of one connection: PROXY header, then version detection. |
| `ThriftProxy` | Several Thrift connections that share the pooled connections to one upstream, with clients and upstream. |
| `HttpProxy` | The requests of one site in a worker: routes, selectors, bodies recoded or not, upstreams on pooled connections, and updates of the site. |
| `OpenIdSessions` | The session store of OpenID with the workers that share it, arbitrary clients, and the provider. |
| `WaitQueue` | *Abstract.* A queue of waiters. |
| `CancelWaiters` | The linked list in a vector, the waiters and the cancellers. Implements `WaitQueue`. |
| `MC…` | Values of the constants for TLC. |
| `…Proofs` | The theorems about a component. |

In each module an action is a step of the code from one point at which others can run to the next, and its name is that
of the function or of what happens. A few operators are variants of an action in which a line is missing or wrong
(`UpdateInNewSlot`, `PushBackKeepingLink`, `ReadMoreUnchecked`, …). They stand before the action that they vary, are no
part of the next-state relation, and document what each property catches: with the variant in the place of the action
the property named in `PROJECT.json` fails.

### ConfigReload

`file` is the content of the file, a sequence of lines (`Header`, a site, or `Garbage`), which `WriteFile` replaces at
any moment. The manager's locals are `pc`, `length`, `newContent`, `newServices`, `order` (the patches in the order
that the hash maps happen to give), `idx` and `wk` (the worker that is asked), and what it believes to be applied,
`onlineContent` and `onlineServices`. `alive` and `sites` belong to the workers. In the beginning any set of workers may
be `alive` (`Startable`): a worker whose runtime cannot be built has unwound its thread, and the manager does not ask.

* `Stat`, `ReadUnchanged`, `ReadError`, `ReadFails`, `ReadChanged`: `file_read` takes the length first and the content at a later
  await, so a file written in between is read as a prefix of the new one (`Readable`). Garbage, a key that is
  there twice and an empty text do not parse; a file cut at the end of a line is a valid file with fewer sites. `ReadError` is any I/O error, of the file
  or of a certificate that it names, at any time.
* `Precommit`, `Commit`, `Update`, `Remove`, `Abort`: one command to one worker. The making of a service has the
  outcomes that its factories have: it succeeds, fails, or panics, which unwinds the worker's thread. So do panics of
  connections (`WorkerDies`), of any worker that has had a site, for connections outlive their site.
  `Answer` goes on to the next worker or, at an error, ends the stage as the `?` of the code does.
* `NextPatch`, `SkipDelete`, `PatchDone`, `PrepareFails`, `PrepareEnds`, `CommitFails`, `CommitEnds`, `AbortEnds`: the
  control of the three stages. A deletion has no prepare. The failed patch and those behind it are aborted too; an
  abort of what was never staged is harmless, and the model shows it.
* `CommitFails` is the `expect` of `manager.rs:84`: it ends the process.

### SiteFactory

The outcomes that `ConfigReload` takes as the constants `BuildOutcomes` and `ListenerOutcomes` are computed here from
server configurations. `Stack` follows `l7_factory`: of the layers of an HTTP site only the router can fail
(`NewFromIter`, route by route: the balancer is made and unwrapped, then the path inserted), of a Thrift site only the
balancer. `TryFromUpstreams` is the construction of each selector, `WeightedIndex` that of the one with weights, whose
sum is of 16 bits; `MakeService` adds the acceptor of TLS, `MakeListener` the two kinds of listener. So an empty list of
upstreams is an error in a Thrift site and a panic in an HTTP site, and weights can be refused or panic because of their
sum: what the model of the reload may assume about a build is what these factories do. `SafeToMake` says of a configuration
that its making cannot panic; it is proved to be exact.

### ServiceExecutor

`table` is the map of sites, `slot` the contents of the shared cells, `running` the cells with an accept loop,
`stopped` the loops whose receiver has been dropped, `conns` the service that serves each connection, `origin` the
service whose state a staged one was made from, and `cmd` the command in progress, with where it awaits. `Precommit(n)`
reads the deployed service and awaits the factory (`PrecommitMade`, `MakeFails`); `Commit` and `PrepareAndCommit` await
the listener (`CommitBound`, `BindFails`); the others do not await. Accept loops and connections go on meanwhile:
`Accept`, `LoopStops`, `Close`. `PrepareAndCommit` makes the service and then the listener, and enters the site into the
table only when it has both (`PreparedAlone`, `PreparedBound`); `BindFails` leaves what the code leaves.

### HttpConnection

`wire` is what lies unread between client and server: heads, chunks, ends of bodies and junk. `pc` is the position in the
loop of `h1_svc`, `req`, `resp` the exchange, `fut` and `slot` the two halves of `AccompanyPair`: the future that fills
the body and the result that it leaves. `FillChunk`, `AccompanyReady` and `DrainReady` poll the future in each of the
three phases in which the code does (`PollsAccompany`). `HandleReturns` takes any result of the handler chain (a
version, a `Connection` header and the flag to go on; `Own` are the responses that are made here), rewritten by `Reuse`,
the whole of `connection_persistence.rs`: the header is set for every version, the version of the response only for
HTTP/1.0; `HandleFails`, `DecodeTimesOut` and
`BodyTimesOut` are the other ways on. `HandleReturns` also stands for a handler that answers without having read the
body, and the rest of the body is drained behind the response.

### H2Connection

`accept` is the task that accepts streams, `queue` the channel to the loop, `st` the place of each stream (in the
channel, in the pool of handlers, in the pool of responses, over), `off` the branches that the `select!` has turned off
in this round. `Recv`, `HandlerReturns`, `Relayed` are the branches that match and start another round; `RecvClosed`,
`BackendEmpty`, `FrontendEmpty` turn their branch off; `LoopEnds` is the `else`. An error in the channel does not match
the pattern of its branch, is consumed, and turns it off: the module shows why this does not end the loop early.

### ConnectionPrefix

Bytes are abstracted to lengths: a stream (`stream`) says how long its header is, how far it agrees with the magic of
the version it begins like, whether the header parses, and how much of the HTTP/2 preface follows, before (`front`) and
behind the header (`inner`). `sent` is how much of it has arrived. `FirstRead`, `Parse`, `ReadMore` are the loop of the
PROXY service, with the position in its buffer of `Max` bytes; `DetectSome`, `DetectEndsEarly`/`DetectEnds` the loop of
`PrefixDetector` on what is handed on. `FirstByteMissing` is the panic of an empty first read.

### ThriftProxy

`pc`, `got`, `resp`, `io` belong to the connections of `Clients`: position in the loop, number of the request read,
response held, link held. `pool` is the set of idle links, `link` what is on each: the request asked, whether the
stream is broken, the answer, whether it is closed. `Connect` takes an idle link or makes a new one, `SendRequest`,
`Receive`, and the failures of each let go of the link as the code does: into the pool only after a whole exchange.
The upstream answers (`Answer`), sends something that does not decode (`Garble`), or closes (`Die`), at any moment.

### HttpProxy

`cur` is the service of the site (services are numbered), `cfg` the configuration of each, `pool` whose pool it uses for
each scheme, `next` the index of each round robin. A client has its service (`svc`), its place in the chain (`pc`), and
what is known of its request there: `req`, `ver`, `ep`, `on`, `resp`. `conn` are the connections to upstreams. `count` is
history. The actions follow a request through `RewriteAndRouteHandler` (`NotFound`, `Rewrite`, `RewritePanics`),
`ContentHandler` (`Decode`, `Encode`, in chains that have it) and `UpstreamHandler` (`Unresolved`, `FromPool`, `NotPooled`,
`Connected`, `ConnectFails`, `Written`, `Answer`, `SendFails`). `ConnectTimesOut` and `ReadTimesOut` are the failures that a timer forces: they are
no disjuncts of their own, but what is fair about `ConnectFails` and `SendFails`. `Update` makes the next service from
the one before, with the pools that `transfer_pool` hands over (`HandedOver`); clients keep the service they have. A
connection of HTTP/2 is shared by several requests, one of HTTP/1 is not.

### OpenIdSessions

`store` is `SESSION_STORE`, `stuck` the workers whose thread waits for its lock, `dead` those that have panicked. `Requests`
are names for the requests under way; `req` is the pair of code and state that a request has in its URL, or `None`, `at` its
worker, `session` and `nonce` what it has read, `pc` its place. `issued` counts the states sent out, each with its nonce, and
`base` says how many of them an earlier life of the process sent out. Nothing is assumed of clients: a request may have any cookie,
any code of the provider or none, and any state, of whatever login, known or never issued (`Visit`, `Callback`, `Check`). A section
under the lock has no await and is one step; a worker that blocks in one takes its other requests with it (`Runs`).
`Check` is the look at the cookie, `CheckFails` the panic on one that does not parse, `Redirect`, `FindSession` and
`UnknownSession` the three ways on from a request without a session, `StoreToken` the end of the exchange, `DiscoverFails` and
`ExchangeFails` the panics of what the provider refuses. `UnknownSession` is the write lock of line 319 under the read guard
of line 304: the code means to redirect such a callback, and the worker blocks or panics. The provider gives any number of
codes for a nonce and takes each once (`TakeCode`). `Restart` empties the store.

### CancelWaiters

`len`, `prev`, `next`, `data` are the nodes of the vector, `head`, `tail`, `vacancy` the ends of the two lists in it,
`index` the waiter's entry, `task` the task that polled it last, `woken` the tasks woken. `order` and `free` are the
queue and the stack of vacant nodes that the links stand for: they are history, written by each action and read by
none, and the refinement to `WaitQueue` goes through them. `FirstPoll` (`push_back`), `PollAgain`, `DropWaiter`
(`remove`), `Cancel`, `Wake`, `CancelReturns`, `CancellerDropped` are the functions of `mod.rs`.

## Runs

Nine runs pass, one for each component; three show a disagreement. No run uses symmetry, because each of the passing ones
checks a liveness property. Deadlock is checked in all of them but `openid_sessions`; an action that stutters (`Exited`,
`Over`, `Dead`) marks the states in which the program really has nothing more to do. In `openid_sessions` all workers may be
stuck or dead. The type invariants are no property of any run: they are
conjuncts of the inductive invariants, and proved for all components.

| Run | Distinct states | What it shows |
|---|---|---|
| `config_reload` | 203,095 | `StableAgreement`: between reloads every live worker serves what the manager believes is online, with nothing staged. `CommitReady`: every command of the commit stage finds the stage of *this* reload. `ImplementsRolling`: every step is one of `RollingDeploy`. `ReloadConverges`: a deployable file that is left alone is what all workers serve in the end, if no worker dies and reading it succeeds in the end. `ServesWithAllWorkers`: if a worker could not start, no worker ever serves anything, whatever files come. `FailsForCause`: a prepare fails, and a commit ends the process, only for a worker that is gone or for what cannot be built or bound. |
| `service_executor` | 157,448 | `LoopsMatchSites`, `StagedFromCurrent`, `NewConnectionsUseLatest`; `ImplementsCommands`: awaits and all, the commands are atomic on their site; `StoppedLoopsEnd`. |
| `http_connection` | 32,434 | `RequestsFramed`, `AccompanyPolledOnce`; `PersistenceAgreed`: no client that its response tells to go on is closed on, and the loop goes on, unannounced only where an upstream's version is relayed, with those that asked for it; `RequestsAnswered`: a request whose body has come, whatever the client does behind it, is answered; `HangupEnds`. |
| `h2_connection` | 7,079 | `NobodyStarved`, `NoRequestAbandoned`; `StreamsAnswered`, `ConnectionEnds`. |
| `connection_prefix` | 3,636 | `HeaderTakenOff`, `VersionDetected`; `RefusedOnlyWhenFull`: nobody is refused whose bytes do not fill the buffer; `ConnectionsDecided`: nobody is kept waiting for bytes that nobody has a reason to send. |
| `thrift_proxy` | 361,156 | `ResponsesMatch`, `PooledLinksIdle`; `RequestsAnswered`, `HangupEnds`. |
| `cancel_waiters` | 32,526 | `EntriesOwned`, `VacanciesReused`; `ImplementsQueue`, `CancelWakes`. |
| `http_proxy` | 188,792 | `FairShare`: the turns of round robin differ by one at most, whoever asks. `AnsweredByRoute`: answers come by the route of the service that the client connected to. `ConnectionsFit`: a request is on a connection to its endpoint, made with its service's settings, without TLS in the connection's version, alone on it unless that is HTTP/2. `RequestsAnswered`: with endpoints whose rewriting is implemented, every request ends whose bodies end, although upstreams need not answer within their timeouts. |
| `openid_sessions` | 885,458 | `BlocksOnlyOnForeign`: whoever waits for the lock waits for a worker with a callback whose state this life of the process never sent out. `ServedLoggedIn`: what gets through has a session of this life of the process, with a token that the provider gave for its nonce. `SessionsKept`: no callback removes a session, changes its nonce or undoes its login. `RequestsAnswered`: without panics and callbacks of that kind every request gets through the handler. |
| `reload_panic`, `body_timeout`, `prefix_hangup` | – | see [Disagreements](#disagreements-with-documentation-and-assertions) |

### Bounds, and why they are enough

* **ConfigReload**: two workers and two sites are what it takes for a stage to fail in the second worker, or at the second
  patch, after the first succeeded. The seven server configurations are one of every kind that `SiteFactory` tells apart:
  HTTP and Thrift sites that can be made, a path that is there twice (an error), no upstreams in a Thrift site (an
  error) and in an HTTP site (a panic), weights whose sum wraps to zero (refused, hence a panic), an acceptor that may
  fail. One listener always binds, the other may fail or panic. The nine files contain every kind of patch against one
  another, a file that does not parse and an empty one. `WeightMax = 4` stands for 2^16, since all that matters of a sum
  is whether it wraps and whether to zero; `OverflowChecks = FALSE` is a release build, and `reload_panic` has a build that
  checks. Six files have more than one line, most of them with prefixes that parse, the final ones too, so that a torn read can be a valid file. `MaxWrites = 3`: one write for what is online, one whose reload fails or is torn, one that corrects it.
* **ServiceExecutor**: two sites, since a command touches one and must spare the other; four services, because a site
  holds at most two and one may be in the making; three slots, the two of the sites and one whose loop has not stopped
  yet; one connection at a time, which may come at any moment. Commands are unbounded: the state space is finite.
* **HttpConnection**: three requests are the shortest pipeline in which a body has a request before and behind it; five
  requests stand for all pairs of version and header that the code tells apart; `MaxWire = 3` lets a head, its body and
  the next head be there at once. All three timeouts are set, and a timer may or may not fire: the behaviours without
  them are included.
* **H2Connection**: three streams can be in the channel and in both pools at once; two errors, since the library may
  report more than one before its end.
* **ConnectionPrefix**: magics of three and four bytes, a preface of three, a buffer of eight stand for 6, 12, 24 and
  230. What matters is that the magics differ in length, that a header can fill the buffer exactly or exceed it, and that
  the preface shares its first byte with one magic. The eleven streams are of every kind: no magic, part of one, a magic
  without a header, good headers with and without an address, the largest size and one above it. One of those without a
  magic is longer than the buffer: it is passed on, where one with a magic is refused. Every fragmentation is enumerated. The proofs are for any sizes.
* **ThriftProxy**: two clients, two links, two requests each: a link goes from a client to the other and comes back. One
  upstream, because the pool is keyed by upstream.
* **HttpProxy**: two clients interleave on a selector and on a pool, and one can stay with the old service; two connections
  can be to different endpoints, or of different services to the same; two upstreams for a route; one update, to any of
  four configurations: with round robin over two schemes and both timeouts, with weights (one of them 0), HTTP/2 and an
  endpoint that is a socket, with one path less and no timeouts, and one without the content handler. Three requests in all are what it takes for a second turn and for a connection
  to be used again. The proofs are for any numbers.
* **OpenIdSessions**: two workers, since a login takes two requests and one worker may wait for the other; two requests at
  a time, each followed by any number of others; two sessions, so that codes and states can be mixed up; two codes for the
  nonce of one, so that a token is replaced, and one for the other's; one restart. Callbacks are not bounded.
* **CancelWaiters**: three waiters have a first, a middle and a last to remove, and may be dropped and created anew
  without limit, so that nodes are used again in every order.

### Fairness

Every fairness condition is weak, on what some scheduler of the program runs when it can.

* `ConfigReload`, `WF(Manager)`: the manager's thread and those of the workers keep running; the watch loop has no end.
  Writes of the file and deaths of workers are not fair. A read raced by a writer is part of `Manager`, and the sleep
  between two rounds ends.
* `ServiceExecutor`, `WF(Resume)` and `WF(LoopStops(l))`: a factory's future completes, and a loop whose stop channel is
  closed is woken. Since `select!` may choose an accept when both are ready, a loop could accept for ever only if
  connections came for ever just in time; the loop's stop branch stays ready, and the model's weak fairness says that it
  is taken some time.
* `HttpConnection`, `WF(Read)`, `WF(fut # "pending" /\ Handle)`, `WF(Write)`: the reader makes progress while there is
  something to read; a handler ends once the body that it may wait for is there or has failed (its upstream answers, or
  fails by its own timeouts), and a write completes or fails. No client action and no timer is fair.
* `H2Connection`, `WF(Accept)`, `WF(Poll)`, and for each stream `WF(HandlerReturns)`, `WF(Relayed)`: both tasks are polled;
  what an upstream owes comes, if only as an error. The HTTP/2 loop has no timeouts, so this is an assumption about
  upstreams and their timeouts, not about the loop.
* `ConnectionPrefix`, `WF(Service)`: the task reads what is there.
* `ThriftProxy`, `WF(Serve(c))` for each connection, and that an upstream answers or closes what it was asked
  (`Answer \/ Die`): there is no timeout on the upstream's side of the proxy.
* `HttpProxy`, `WF(Serve(c))`: handlers are polled when they can go on. `Body` is not fair: the content handler awaits the
  client's whole body (`content_handler.rs:144`) and the upstream's (`:150`), and a request that is not decoded is written as
  the client sends it, all of them without a timeout there, so that the premise `BodiesEnd` of `RequestsAnswered` says it. `WF(ConnectTimesOut(c))`, `WF(ReadTimesOut(c))`: timers
  fire where the code sets them. `WF(Unlimited(c) /\ Upstream(c))`: where no timeout applies, a connect ends and an upstream
  answers or fails in the end; without this nothing but the client could end such a request.
* `OpenIdSessions`, `WF(Handle(r))`: workers that are neither stuck nor dead are polled. `WF(TakeCode(r))` and `WF(Fail(r))`
  of a code that was refused: the provider answers, and the handler has no timeout for it. Nothing is fair of clients.
* `CancelWaiters`, `WF(Waking)`: `cancel` runs to its end. It does not await; it is cut into steps because wakers are called
  between its changes of the list.

## Proofs

TLAPS proves the following for every value of the constants that satisfies the assumption of the module (finite, where
sets have to be; positive, where a size has to be). No statement is taken without a proof.

| Module | Theorems |
|---|---|
| `ConfigReloadProofs` | `TypeCorrect`, `StagesCorrect` (`IInv`), `Agreement`, `CommitsAreReady`, `ReloadRefinesRolling`, `NothingWithoutAll`, `ServedIsUniform`, `WorkersAreCommanded`, `FailuresHaveCauses`, `SafeBuildsSpareServing`; of `SiteFactory`: `MakingPanicsExactly`, `ThriftSitesAreSafe`, `SafeSitesSpareServing` |
| `ServiceExecutorProofs` | `TypeCorrect`, `InvariantCorrect`, `LoopsAreMatched`, `TransfersCurrentState`, `LatestServiceServes`, `ExecutorRefinesCommands` |
| `HttpCoreProofs` | of `HttpConnection`: `TypeCorrect`, `InvariantCorrect`, `Framing`, `PolledOnce`, `AnnouncementsHold`; of `H2Connection`: `H2TypeCorrect`, `H2InvariantCorrect`, `RoundsPollEverybody`, `LoopOutlivesRequests` |
| `ConnectionPrefixProofs` | `TypeCorrect`, `InvariantCorrect`, `HeaderIsTakenOff`, `VersionIsDetected`, `RefusalsAreFull` |
| `ThriftProxyProofs` | `TypeCorrect`, `InvariantCorrect`, `ResponsesAreMatched`, `PooledLinksAreIdle` |
| `HttpProxyProofs` | `TypeCorrect`, `InvariantCorrect`, `TurnsAreFair`, `RoutesAreFollowed`, `ConnectionsAreFit` |
| `OpenIdSessionsProofs` | `TypeCorrect`, `InvariantCorrect`, `LoginsBlockNobody`, `ServedUnderToken`, `SessionsAreKept` |
| `CancelWaitersProofs` | `TypeCorrect`, `InvariantCorrect`, `EntriesAreOwned`, `MemoryIsReused`, `WaitersRefineQueue` |

Each component has an inductive invariant `IInv` (`H2Inv` for HTTP/2), defined in its module. With it every safety
property of the passing runs is proved, invariants, action properties and refinements alike. The arguments:

* **ConfigReload.** `StableAgreement` and `CommitReady` speak of the ends of stages. The invariant says how far a stage has
  got: each site of each live worker is `Untouched`, `Prepared` or `Switched`, and which of these depends on whether its
  command has been `Sent` to that worker (`StageInv`). The order of the patches covers every key of either map
  (`PatchesInv`), so a stage that got through reached everything. The only slack is the patch at which a command failed:
  it and those behind it are in either state, and the stage that follows is an abort that takes both back to
  `Untouched`, or, in a commit, the end of the process. The refinement is by cases on the stage: all steps are invisible
  but the ones that change what is served, and those are in the commit stage, from the old service to the new.
  `NothingWithoutAll` has an invariant of its own, `LoadInv`: a prepare never gets past its first patch, because the answer
  of the worker that is not there is an error, so the only commits are those of files without services. `ServedIsUniform` is the invariant of
  the abstract specification, read in the detailed one.
* **Causes of a failed reload.** `FailuresHaveCauses` needs to know where an answer that is an error came from
  (`CauseInv`). The answer stays while the manager is on its way to the failing step, and a worker that is gone stays
  gone. The case that matters is a command of the commit stage: by `CommitReady` it finds its stage, so only the listener
  can fail, and only for a new site. A worker that dies makes the hypothesis true for good.
* **Workers as the manager sees them.** `WorkersAreCommanded` composes the two models about deployment. `ServiceExecutor`
  is proved to implement `SiteCommands`; here each step that changes the table of a worker that lives on is a command of
  `SiteCommands` on that table (`Table(w)`), so what is proved of a worker's commands there holds for all workers here. That
  a site named in a patch has a service to be staged comes from `PatchesInv`.
* **SiteFactory.** `MakingPanicsExactly`: the making of an HTTP site panics if and only if the router comes to a route without a
  balancer before it comes to one that it refuses, and that of a Thrift site if and only if the sum of its weights is
  checked and too large. With `SafeBuildsSpareServing` follows that reloading safe configurations keeps the promise that
  `reload_panic` shows broken (`SafeSitesSpareServing`): the panics named are the only reason. What the sum of a list of
  weights is stays opaque to the provers (a fold over data); the statements are for any sum.
* **ServiceExecutor.** `LoopsMatchSites` is inductive with the fact that exactly the slots with a loop hold a service.
  `StagedFromCurrent` needs in addition that the service which a command was given before its await is still deployed
  after it (`MakingFromCurrent`), which is where the executor's one-command-at-a-time is used. In the refinement the
  committed slot of a site maps to the service *in* the slot, and the proof has to show that a write to one slot changes
  one site (no two sites share one).
* **HttpConnection.** `WireInv` says that what lies on the wire parses from the place where the reader is to the place where
  the client is, `SlotInv` that the result of the filling is in its slot until the drain takes it, `RespInv` that a
  response being written is of a result of the handlers, with the version that they relay, and has been through `Reuse`.
  Framing is the first at an empty prefix, polling the second, persistence the third with a case analysis of `Reuse`: a
  response that says "go on" has the flag set whatever version is relayed, the converse has the exception that the property
  states.
* **H2Connection.** The channel holds each request once, and behind an error only errors (`QueueInv`). So a branch that
  consumed an error and went off has nothing to wait for, and `NobodyStarved` is inductive: whoever adds to a pool ends
  the round, which turns its branch on again. When the loop ends all branches are off, so nothing is left.
* **ConnectionPrefix.** What has been read agrees with what the connection is taken for so far (`ReadingInv`,
  `DetectingInv`), so a decision made on a prefix of it stays right when the rest arrives. A connection is refused in `ReadMore` only, at a
  position that is the size of the buffer, and what has been read there has been sent (`RefusalsAreFull`).
* **ThriftProxy.** What is owed on a link belongs to the request of the one client that holds it, and a link nobody holds is
  clean (`LinkInv`): a message that comes on a link can only be the one response.
* **HttpProxy.** For round robin the invariant says where in the round the index stands: the upstreams before it have had
  one turn more than the last (`InTurn`), and the services to come none. For the pools it says that a pool has the settings
  of everyone who uses it (`SitesInv`), by induction over the updates, and that a connection of HTTP/1 has one user
  (`FitsOn`). For the routes it follows a request from its selection to its answer (`RequestInv`), in terms of the service
  that its client has, so that updates leave it alone.
* **OpenIdSessions.** States are unpredictable in the code and numbers in the model, so that the bound on them must not run
  out: a visit that has yet to be redirected has its session to come (`CountInv`, by the cardinality of `Visiting`). The
  sessions in the store are exactly those whose states this life of the process sent out (`StoreInv`): `Redirect` stores before
  it answers, nothing removes, and `Restart` moves `base`. So a callback that `UnknownSession` stops has a foreign state, and
  it stays at its place while its worker waits: `LoginsBlockNobody`. What a request has found is in the store until a restart,
  which ends the requests with the sessions (`RequestInv`), and this is why the slow exchange with the provider does not have
  to look again. A token is by a code of the session's own nonce, because it is stored only for a code that matches the
  nonce read before the exchange, and that nonce is still the session's: `ServedUnderToken`, `SessionsAreKept`.
* **CancelWaiters.** The links are those of the queue `order`, forward and back, and `vacancy` and `next` those of the stack
  `free` (`Linked`, `Vacated`, `Complete`). `push_back` into a reused node does not clear its `prev`; this is right only
  because the first vacant node of an *empty* list has none, the last conjunct of `Vacated`, and when the list is
  not empty the link is overwritten.

## Disagreements with documentation and assertions

| Run | What the repository says | What the code does |
|---|---|---|
| `reload_panic` (`ValidationSparesServing`) | `monolake-core/src/orchestrator/service_executor.rs:80`: preparation validates a service before it replaces the one that serves | `Router::new_from_iter` (`route.rs:133`) unwraps the error of an empty list of upstreams: preparing such a file panics in the worker's thread, which ends with all it serves |
| `body_timeout` (`BodyTimeoutSparesResponse`) | `monolake-services/src/http/core.rs:444`: the timeout is for receiving the full request body | it covers the writing of the response (`core.rs:195`), and cuts it off though the body was received |
| `prefix_hangup` (`PassedThrough`) | `monolake-services/src/proxy_protocol/mod.rs:63`: a connection without a header is passed through unchanged | one closed before its first byte panics at `buffer[0]`; one closed within a magic is read and parsed for ever |

Five more the models show as behaviour, without a run of their own. A listener is made at commit, so one that cannot bind
lets the commit fail after a prepare that succeeded, and the `expect` of `monolake/src/config/manager.rs:84` ends the
process (`CommitFails`; with all workers there it is the only cause, by `FailuresHaveCauses`). A PROXY header that arrives
in two reads, the second of which fills the buffer, is refused (`proxy_protocol/mod.rs:142`), while the same bytes in one
read are accepted (`ReadMore`); nobody else is refused (`RefusalsAreFull`). An endpoint that is a socket
address or a Unix path is accepted and panics at its first request (`route.rs:381`, `RewritePanics`). A callback with a state
that is not in the session store is meant to be redirected (`openid.rs:309-330`) and blocks its worker instead, and the store
with it (`UnknownSession`). Only the branch of HTTP/1.0 sets the version of a response
(`connection_persistence.rs:131`), although the comment of line 143 promises a reply that is keep-alive if client and server
support it: an HTTP/1.1 client is relayed the response of an HTTP/1.0 upstream in that version, without a `Connection`
header, which says that the connection ends, and the server goes on with it (the last conjunct of `PersistenceAgreed`).

## Limits

Only model-checked: all liveness (`ReloadConverges`, `StoppedLoopsEnd`, `RequestsAnswered`, `StreamsAnswered`, `HangupEnds`,
`ConnectionsDecided`, `ConnectionEnds`, `CancelWakes`), because the prover does not handle fairness. It handles neither
ENABLED nor induction over data, nor recursive operators; the modules use none of the last. So what the folds of
`SiteFactory` compute (a sum of weights) is only evaluated, on the configurations of `MCConfigReload`.

Abstracted: bytes, headers other than `Connection`, paths, addresses. A handler is one step whose outcomes are those of
the chain; a service is a value with the outcomes of its factory. Timers may fire whenever they run. The queue of 128
commands to a worker never holds more than one, since the manager waits for each answer.

`HttpProxy`: a client has one request at a time, so an HTTP/2 connection is several clients. The handling of a request and
the lookup in the pool are separate steps although nothing awaits between them, which adds interleavings and takes none
away. "200" stands for whatever an upstream answers; the resolution of names, which blocks the worker's thread, either
fails or not; endpoints are URIs with an authority; what a body is labelled with after decoding and the header with the
client's address are left out; the body of a response that is still relayed belongs to the connection's model.

`OpenIdSessions`: nothing in the code binds a state to the client that was redirected with it, and the model claims nothing of
that kind: a session is served to whoever has its state. Monolake itself gives the handler no configuration (`monolake/src/config/mod.rs:288`), so this concerns
other programs of the library. That a blocked writer keeps later readers out is how the standard library's lock behaves
on the platforms it is built for; that a thread which locks twice blocks or panics is all that it promises.

`CancelWaiters`: that the last canceller dropped without cancelling wakes nobody (`common/cancel/mod.rs:89`) is in the model
and in `WaitQueue`, which permits it; no property speaks of it. `NewConnectionsUseLatest` does not tell the sites apart.

Not modelled: TLS handshakes (libraries; a failure appears as a connection that fails); the contents of certificates
(one that cannot be read is a `ReadError`); the wrappers `timeout.rs`, `delay.rs`, `panic.rs`, `erase.rs`,
`map.rs`, contexts, hyper and echo (no state of their own, or not in the stacks this program builds); the codecs; the
compression itself; the socket options; the matching of paths (a library's).

## Plan

Done, in this order: deployment across workers (`ConfigReload`), inside a worker (`ServiceExecutor`), the connection
loops (`HttpConnection`, `H2Connection`), the first bytes (`ConnectionPrefix`), shared upstream connections
(`ThriftProxy`), cancellation (`CancelWaiters`), the making of sites (`SiteFactory`), what becomes of a request
(`HttpProxy`), sessions (`OpenIdSessions`).

Next:

1. *Bodies of responses* that are still relayed when the handler has returned: `HttpProxy` with `HttpConnection` and
   `H2Connection`, where an upstream that fails in the middle of a body ends a stream as if it were complete
   (`http/core.rs:278`).
2. *Several upstreams in `ThriftProxy`*, where a client's requests go to links whose pools are kept apart.
3. *Updates of listeners*: what of a site an update leaves as it was (its address), in `ConfigReload`.
4. Proofs: the invariants of what is added above. `RequestsAnswered` and its like rest on progress from one place of a
   request to the next, of which the safety half (no step leads back, or to a place that nothing leaves) could be stated
   and proved.

New behaviour extends the run of the component that it belongs to, so that each run stays the answer to one question.
