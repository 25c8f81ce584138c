# A TLA+ verification of m6

m6 is a web server in several processes. `m6-http` is the edge: it terminates
TLS and QUIC, caches responses and forwards the rest to backends. The backends
(`m6-html`, `m6-file`, `m6-auth-server` and a site's own services) are built on
`m6-core`, listen on Unix sockets or HTTP/2 URLs, and read the same `site.toml`.
`m6-md` turns a directory of Markdown into data for the pages, `m6-auth-cli`
edits the accounts, `m6-monitor` watches a fleet from outside.

This directory has one TLA+ module per part whose correctness depends on order,
time, failure or a boundary. TLC checks each on a small instance. TLAPS proves,
for every value of the constants, every safety property that the passing runs
check (section 4); what is left to TLC alone is liveness.

## 1. Inventory

| Part | State | Operations | What makes it hard |
|---|---|---|---|
| Config reloader, `m6-core/src/watcher.rs` | fingerprints seen, pending change, due time, last report, next poll, retry backoff | `on_readable`, `tick`, `retry`, `timeout_ms` | events lost, late or with no fingerprint change; writers that truncate or never stop |
| Service reload, `m6-core/src/app.rs` | the installed state | `reload`, the run loop | reads both files whichever changed; refused, skipped or failed |
| Service start, `app.rs`, `config.rs` | what each part was built from | `run_app` and its siblings, `--dump-config` | several reads of files that are being edited |
| Service lifecycle, `app.rs`, `server.rs`, `signal.rs` | worker queue, in-flight count, shutdown flag, the lock on the state | accept, serve, reload, drain | threads that wait for each other; a signal at any moment |
| Service wire, `h1.rs`, `parse.rs`, `server.rs` | the bytes read so far | `parse_request`, `serve_connection` | a request cut anywhere; a length promised before the body is read |
| Routes, pages and visitors, `app.rs`, `conditional.rs`, `response.rs` | route table, validators, form tokens | `find_route`, conditional answers, `verify_csrf` | ties between patterns; dates of one second; several tabs |
| Data files, `request.rs` | files beside the site | `write_json_atomic`, `write_bytes`, `touch`, `list_json` | readers and power losses between system calls |
| SQLite, `sqlite.rs` | schema version, rows | open, migrate, insert, prune | processes of different builds; deaths in a transaction |
| Log and traffic report, `log.rs`, `telemetry.rs`, `health.rs` | queue, file handle, rotated files | emit, reopen, read across a rotation, judge | rename, reopen and compression interleave |
| Event loop, `m6-http/src/main.rs`, `poller.rs` | ready descriptors, timers, replies | `event_loop` | replies and timers that wake nobody; full batches |
| Inbound connections, `http11.rs`, `http2.rs`, `main.rs` | connections, streams, windows, pending responses | `drive_conn`, `Http2Conn::drive`, `process_h3` | frames in any order, slow and silent peers, 0-RTT, limits |
| Request pipeline, `main.rs`, `router.rs`, `auth.rs`, `rate_limit.rs`, `error.rs` | buckets, cache, held error pages, fetches under way | `handle_request`, `finalize_url_response` | the order of the gates; what a reload changes under a fetch |
| Edge configuration and reload, `config.rs`, `main.rs` | running config, routes, pools, TLS material | `load`, `handle_config_change`, `handle_tls_reload` | two files, each taken only in part |
| Response cache, refreshes, invalidation, `cache.rs`, `main.rs` | map, byte counter, refresh queue, armed clears | `insert`, `lookup_with`, `queue_refresh`, clears | accounting, clocks, a backend that reloads on its own time |
| Socket pool, `pool.rs`, `watcher.rs` | members, backoff | pick, release, fail, rescan | directory events lost; counters at their limit |
| Outbound connections, `forward.rs`, `h2c_client.rs`, `h2s_client.rs` | streams, windows, buffers | `forward_*`, `dispatch`, `drive` | a backend that dies at any byte; short writes |
| Sessions and statistics, `analytics.rs`, `stats.rs`, `health.rs` | cookies, rings, counters | mint, record, emit, scrape | two hops that each mint; one ring with two readers |
| Accounts, `m6-auth`, `m6-auth-server`, `m6-auth-cli` | users, groups, tokens, keys, throttle | login, refresh, logout, the commands | workers and a command line on one database |
| Static files and Markdown, `m6-file`, `m6-md` | files served, log tail, output file | `serve`, `serve_tail`, `run` | files replaced, logs growing, bursts of events |
| Monitor, `m6-monitor` | snapshot, history database | poll, judge, record, prune, page | missing readings, restarts, rows that go while they are read |
| Redirect node, security headers, HTTP primitives, templates, probes, benches, test kit | none that outlives a call | | left to unit tests |

The parts meet in four places. Files: every process watches `site.toml` and its
own config through a `ConfigReloader`, and reads data files others write.
Sockets: the edge finds backends by the socket files they bind, and speaks
HTTP/1.1 to them. Channels: a request to a URL backend leaves the event loop and
its response comes back on an `mpsc` channel that the loop has to look at.
Databases: the account server and its command line, and the monitor's writer and
readers, share a SQLite file.

`PROJECT.json` lists forty hazards, each at its line with the properties that
would catch it. Section 5 has the ones no property covers.

## 2. Modules

Each module has its state as variables with a prefix of its own, so that several
can be put in one run, and one action per handler or per step of a thread between
two points where another may act.

### Configuration

**`ConfigReloader`** (`watcher.rs`). `seen`, `pending`, `due`, `lastReport`,
`nextPoll`, `failures` and `retrying` are the fields of the struct. A fingerprint
is a number, new at every change and 0 for a file that is not there. `PollReturn`
is poll(2) returning with `on_readable` when an event is there, `Tick` is `tick`
with the same `now`, `ReloadEnd` the end of whatever the process does on a
report. Writes come at any moment, in the three forms a watcher can tell apart:
seen by both `stat` and the event, by the event only (coarse timestamps), by
`stat` only (truncated and still open). A watch may be absent or be lost.

**`ServiceReload`**, **`EdgeReload`** add what is in the files, as the number of
the write that made it and whether it loads. A service reads both files on any
report, in two steps (`ReloadCheck`, `ReloadLoad`) between which a writer may
act, and builds its state from templates and params files nobody watches
(`EditPages`), which may refuse it too; it implements `ConfigReloader` (`ImplementsConfigReloader`, `INSTANCE ...
WITH`). The edge takes the site only on a site report, and rereads its
certificate on a process report, a failed one being retried.

**`EdgeConfig`** (`config.rs`, `run`, `handle_config_change`) is what one edge
reload takes: the merge of the two files, every refusal of the validation, which
keys a change of which file may replace, and what was built from them; route groups
and metrics peers included. `Unset` is a key that is not there.

**`ServiceStart`** (`app.rs`, `config.rs`) walks a service through its reads of
the files while an operator edits them, with the exit code of each refusal, the
four flavours of `App`, and what `--dump-config` says of the same files. `gap` is
history: the config was edited between the read the init functions were given and
the fingerprint; `renewed` says that a reload came since.

### The edge

**`EventLoop`** (`event_loop`, `poller.rs`, `run`). Binding and registering, the
wait with its cap, the batch of at most 64 events, the drive of everything
whether an event named it or not, the signal thread with its flag and its byte.
Fetches end on threads of their own or in a pooled connection. Which of the ready
descriptors a full batch leaves out is the kernel's choice. What each drive does
is the next three modules.

**`Http11Conn`** (`http11.rs`): one connection, plaintext or TLS, with the pieces
of a request the parser tells apart. `H1Drive` is the whole of `drive_conn`.
`expired` stands for the read timeout. **`RefusalLog`**: the h2c listener's log
of refused peers with its table, its interval and its summary.

**`Http2Server`** (`http2.rs`): the connection is one record and each frame
handler an operator to the set of its successors: streams are iterated in hash
order. A header block is the request it carries. **`Http3Conn`** (`main.rs`):
the QUIC connection through early data, handshake and close, with the request
and the partly sent response of each stream; quiche is external.

**`RequestPipeline`** (`handle_request` and the closures around it,
`router.rs`, `auth.rs`, `error.rs`, `rate_limit.rs`): the gates in their order
on one request, the cache reads and writes, the held error page, and fetches
that end after other requests and reloads; `padmitted` remembers when each address
was let through, so that the limit is stated on any window, not only on the
counter's own. **`Sessions`** (`analytics.rs`):
a cache node in front of an origin, both ready to mint a session.
**`EdgeStats`** (`stats.rs`, `health.rs`): one ring with two readers, the
periodic line and `/perf`.

**`ResponseCache`** (`cache.rs`): the map with `stored_at`, `expires_at`,
`serve_stale_until`, `footprint` and `last_read`. `Survivors` says in one line
what the sort, the cutoff and the `retain` of `evict_until_under` keep.
`LookupWith` lets the clock move between its readings. **`CacheRefresh`**
(`main.rs`): serving (stale hits queue a refresh), completing replies, taking one
refresh off the queue. **`CacheCoherence`** (`main.rs`): edge, backend and
content across a change; each process reloads within a lag of the first touch it
has not reported, the lag `ReportedInTime` bounds. The backend's depends on whether
its watcher or only its own poll finds the touch. The edge clears at its reload's
end and twice more. `late` and `missed` are history: an old answer may come after
the last clear, and one did.

**`BackendPool`** (`pool.rs`, `watcher.rs`, `forward_to_backend`): members with
connection count, what is left of their backoff and failure count; sockets come
and go, and the event, which says only which of the two, is handled late or lost.
`lost` is history: whose last change no event tells of.

**`Forwarding`** (`forward.rs`): the request rewritten for its leg, and the
response read by length, by chunks or to the end, from a backend that may stop at
any token. **`H2Client`** (`h2c_client.rs`): `drive` frame by frame, a stream
with the bytes still to send and its window; `PumpAll` takes the streams in any
order. The peer is external: `orderly` keeps its header blocks together and
closes cleanly, `splitting` also splits the block of a response without a body,
`faulty` does anything. **`Promise`** is what a caller of a client relies on: a
call goes from none to pending to answered or failed, once, and a connection that
dies fails all of its calls together; `H2Client` implements it
(`ClientKeepsPromises`). **`H2TlsClient`** (`h2s_client.rs`) is the record layer
below the same streams: half frames, short writes, plaintext that is still in
rustls when the socket ends, and `pump_all` stream by stream in any order. Its peer
cuts header blocks in two and frames by half, closes after an answer, and may break
the protocol (`gfault`), after which it says no more.

### A service

**`ServiceLifecycle`** (`app.rs`, `server.rs`, `signal.rs`): main loop, workers,
signal thread, peers and the editor of the config interleave; the lock on the
framework state is taken twice per request, as the code does, and one error is
written under it. A peer may go quiet at any point (`PeerStops`), the read timeout
may be off, `accept` may fail, and a panic aborts, as in the release profile.
**`BackendWire`** (`h1.rs`, `parse.rs`, `server.rs`): the parser's verdict on
every prefix of a stream of tokens; the reader that calls it at the end of each
read, wherever the stream was cut, with its two size caps, the `417` and the one
`100 Continue`; and the length promised for a file.
**`ServiceRoutes`** (`app.rs`): compilation, score, merge of code and config
routes, methods. **`PageValidators`** (`app.rs`, `response.rs`,
`conditional.rs`): dates in half seconds, tags, preconditions; a build dates its
inputs in one step (`StatInputs`) and reads each in another (`ReadInput`), and an
edit falls between with any date, older ones too.
**`ServiceVisitor`** (`app.rs`): the form token in the cookie and in each tab; the
tabs load, submit and lose answers at the same time, and `crossed` is history: a
request without a cookie was under way in another tab meanwhile.
**`ServiceData`** (`request.rs`): the file helpers as system calls on inodes, a
value as two blocks, a power loss that undoes what is not synced. Two workers may
write one file, and then share its temporary name; `shared` is history: an inode
that another call was using when it was created or truncated.
**`Storage`** (`sqlite.rs`): migrations, foreign keys and pruning by processes of
several builds.

### Beside the site

**`FileServer`** (`m6-file`): stat, decision, then body, with a deploy in
between; the tail of a log that grows. **`MarkdownWatch`** (`m6-md`): the channel
of events, the burst that is drained, the listing, the reads, and the passes that
fail at any of them or at the output (`ProcessFails`, `ReadDoc`, `WriteFails`).
`jtried` is the directory as the last pass found it. An input directory that is
removed and made again, and is then not watched, is left out.
**`Auth`** (`m6-auth`, `m6-auth-server`, `m6-auth-cli`): the database mutex, the
throttle and the key lock, taken where the handlers take them; a command's
statements fall between a handler's. **`AnalyticsLog`** (`log.rs`, `health.rs`):
files are inodes, so a handle keeps the one it opened; the rotation tool is the
one the user guide configures. The `/traffic` reader changes nothing the others
read, and no property is about what it returns (section 5): it is kept as the third
user of the files, with the steps between which a rotation falls. **`TrafficReport`** (`telemetry.rs`,
`monitoring.rs`): what one report counts and whom it names.
**`FleetMonitor`** (`m6-monitor`): the poll in its steps, the time each answer
takes, the snapshot, the certificates, versions and handshakes (with every reason
`tunnel.rs` has for not knowing one), and the verdict.
**`MonitorHistory`** (`history.rs`): queue, writer, interned names, crawl windows,
pruning, and a client that follows cursors.

## 3. Runs

Three runs check a module by itself, with the component's own module and the named
`.cfg`. The six others put several components side by side. These share no
state with each other, so a behaviour is of one of them, chosen by `focus` in the
first state, while the others stay as they begin: the run explores the sum of the
components' states, and every property is checked on its own component.

| Run | Components | Shows |
|---|---|---|
| `MCConfigReloader` | `ConfigReloader` | `ReloaderContract`: no change is lost and each known one has a time; `ReportedInTime`: none waits longer than a bound; `ReportsAreSpaced`: no two reports inside a window |
| `MCServiceReload` | `ServiceReload` | `ServiceContract`: a service ends on the files on disk whatever was refused, skipped or failed, templates included once a config was written after them; `ImplementsConfigReloader` |
| `MCEdgeReload` | `EdgeReload` | `EdgeIsCurrent`: a renewed certificate is served, process-owned keys are current once both files load |
| `MCCacheCoherence` | `CacheCoherence`, `EventLoop` | `CoherenceContract`: no old page survives a content change, but for an answer that comes after the last clear, and what makes one come that late; `LoopContract`: nothing due waits longer than the cap, which is the `EDGE_WAIT` of the first |
| `MCEdge` | `ResponseCache`, `CacheRefresh`, `BackendPool`, `RequestPipeline`, `Sessions`, `EdgeConfig`, `EdgeStats` | `CacheContract`: bytes exact, bound kept, both sides' directives obeyed; `LeastRecentlyReadGoesFirst`; `RefreshContract`: a stale serve is followed up; `PoolContract`: the pool follows the directory once its events are handled, or a rescan has run, and forgets no backoff; `PContract`: nothing private is stored or leaked, an error page is not a success, the limit holds; `NOneSessionPerAnswer`; `KConfigIsWhatRuns`; `EReportsAreExact` |
| `MCConnections` | `Http2Server`, `Http3Conn`, `RefusalLog`, `H2Client`, `H2TlsClient`, `Forwarding` | `H2Contract`: flow control exact, nothing stalls, each request answered once; `H3Contract`: answers whole, early data harmless; `RefusalsAreAccountedFor`; `ClientContract`, `ClientKeepsPromises`, `GFailureIsThePeers`: credit conserved, no orphan, an answer that arrived is delivered; `XContract`: a cut response is not a whole one, hop headers stay |
| `MCProgress` | `Http11Conn`, `ServiceLifecycle` | `H1AnsweredOnce`, `H1ConnectionsEnd`: every connection ends; `VContract`: every accepted connection is dealt with, and a signal ends the process, unless a peer that stopped reading holds a worker |
| `MCServices` | `ServiceStart`, `ServiceRoutes`, `PageValidators`, `ServiceData`, `ServiceVisitor`, `FileServer`, `MarkdownWatch`, `Storage`, `BackendWire` | `UMissesOnlyTheGap`: a quiet service runs what is on disk, and its own state is of it but for an edit before the fingerprint and for what no hook renews; `ZMostSpecificWins`: no order of the blocks matters but for ties; `YNotModifiedIsHonest`: by tag always, by date but for three ways a date can lie; `DFilesAreWhole`: but for what two workers wrote under one temporary name; `QOwnFormsAreAccepted`: but for first visits that cross; `IContract`: a tail has every byte once, labels are true; `JWaitingMeansCurrent`: a quiet converter has tried the directory as it is, and has written it unless that failed; `SMigrationsRunOnce`; `WContract`: the parser's verdict does not depend on the cuts, only what exceeds a cap or expects too much is refused by them, nobody waits for a `100`, the length is kept |
| `MCPlatform` | `Auth`, `FleetMonitor`, `MonitorHistory`, `AnalyticsLog`, `TrafficReport` | `AContract`: keys are a pair, rows have owners, a revoked token does not refresh, guesses are bounded; `FContract`: neither a false all-clear nor a false alarm; `HContract`: windows do not overlap, names are right, pages exact; `LNoLineLost`; `TClaimsAreAccountedFor` |

Three runs check one statement of a comment or a document each, and end in a
counterexample:

| Run | Statement | What happens |
|---|---|---|
| `MCShift` (`BackendPool`) | the backoff is "1→1s, 2→2s, 3→4s, ... max 30s" (`pool.rs:39`) | the shift overflows before the cap applies, a success does not reset the count, and the release profile aborts on overflow |
| `MCLogout` (`Auth`) | logout "Revokes the refresh token" (`docs/m6-auth.md:180`) | the cookie's path is `/auth/refresh` (`handlers.rs:193`), so a browser does not send it to the logout endpoint |
| `MCShared` (`Sessions`) | a held error page "must be the document, not this exchange" (`main.rs:3632`) | the origin's own `Set-Cookie` is held and replayed to the next visitor |

### Bounds

A constant whose comment says "bound" stops a counter that is unbounded in the
code. Each is chosen so that the longest chain its properties are about fits:

- `MCConfigReloader`: a poll, a window, a capped retry and a slow reload before
  `MaxTime`. `MCServiceReload`: two writes and any edits of the templates between,
  with a report, a refusal and a retry before `MaxTime`. `MCEdgeReload`: one file broken, the other written, the first
  repaired. `MCCacheCoherence`: both later clears and a second change between;
  two clients, a batch of two and five descriptors for the loop.
- `MCEdge`: a replacement, an eviction and a read of a survivor in three keys and
  8 bytes; both refresh queues full with three pages and queues of two; two
  sockets, a failure on each, a rescan and two unread events, so that a stale one is
  handled after it; a reload that makes the protected page
  public and the public one protected under a fetch; a rate-limit window and the
  one after it; three requests of two visitors over two hops; nine site files and
  seven system files, good and refused; a ring of two that wraps.
- `MCConnections`: four frames on two client streams and an even id, windows that
  bodies exceed; two HTTP/3 streams; six refusals of three strangers against a
  table of two; two requests on each client, with more frames than the TLS buffer
  takes: a cut header block and the end of its response are the three frames the TLS
  peer has. The largest window is 4, and 6 over TLS, in place of 2^31 - 1: an initial
  window below it that closes, and an increment that overflows it, both happen, and
  an orderly peer's other increments do not add up past it (`OrderlyAssumption`,
  `ModestAssumption`). The TLS peer's only increment is the largest; modest ones are
  `H2Client`'s here, and over TLS the theorem's (section 4).
- `MCProgress`: two requests on a connection and three pieces in one; two peers,
  two workers, a queue of one, a reload, a quiet peer on either connection.
- `MCServices`: two edits during one launch; every table of up to two config
  routes and the code routes; two writers of one file, readers, and a power loss
  over two inodes; one edit of each of three inputs with dates in two seconds; two
  tabs and five tokens; four edits of two documents; three builds
  and two deaths; seven tokens of a request in reads of at most three, with caps of
  four for a head and six in all, so that heads and bodies exceed them.
- `MCPlatform`: two workers, one command, two users, two key pairs; three nodes;
  three polls against a cap of one; four lines and two rotations; four records. The
  tunnelled node has a key and a peer (`Keyless`, `Unpeered` are empty: such a node
  is a fault at every poll, and the theorem has it).

Delays keep the order the code's constants have. `MCShift` counts to the real
width of 64 bits. Two runs are narrowed by a constraint: `MCAuthScope` explores
the key files, the rows beside the users and the throttle one at a time (the
property about one does not read the others' state), and `MCPScope` the rate limit on
a site of its own, since the other gates neither read nor change its table.
`MCAuthSymmetry` permutes the workers and the users, which no definition tells
apart; it is used where no temporal property is checked. `CHECK_DEADLOCK FALSE`
is said where a bound, a closed connection or the end of a process ends a
behaviour.

### Fairness

Only `MCProgress` assumes any. `H1Drive` is weakly fair because the event loop
drives every connection in every iteration (`LoopContract` is why there is a next
iteration), and `TimePasses` because a clock goes on; it is stated per request of
the connection (`turn`), so that a clock that keeps being restarted is no excuse.
`MainStep` and `WorkerStep` are weakly fair because they are threads that are
ready to run; what they wait for (a lock, a queue, a count, a peer) is in their
guards. `Accept` is strongly fair: descriptors do not stay exhausted for ever. A
handler is assumed to return. Nothing is assumed of signals, reloads or panics. Of
clients: a read ends when the peer speaks or closes, or at `read_timeout_s` when
that is on (0 turns it off, `config.rs:427`), and a write ends when the peer reads,
for service sockets have no write timeout (`server.rs:199`). A peer that does
neither holds its worker, and `VContract` promises nothing while one does (`Held`);
a silent peer under the timeout is no excuse.

## 4. Proofs

Each theorem is of the specification that TLC runs, under the assumptions named in
the component's module, and holds for every value of its constants: any number of
files, clients, streams, workers, processes or requests, any delay, window or
version. The bounds of section 3 are constants too, so no proof rests on one.
An `...Inv` is the inductive invariant of its part: the property with what it needs
of the state to survive a step. `PROJECT.json` lists the theorems.

### Reloaders

**`ReloadProofs`**, from the order of the code's delays: the debounce is
positive and no longer than the poll, the poll no longer than the retry cap.

- `ChangesAreNotLost` (`ReloaderContract`), `ReportsSpaced`, `TypeCorrect` from
  `Invariance`. The contract is not inductive: a report clears `pending`, and what
  it covers must be exactly what was written. `IInv` adds when a tick may report
  and what a due time is relative to the last report; the lemmas `ComparedOK` and
  `RetryDelayOK` say what `compare` and the backoff compute.
- `ReportsAreInTime` (`ReportedInTime`): a change is reported within `ReportBound`,
  a poll, the longer of a poll and a reload, and one wait of the loop. `TimeInv`
  splits that: a change not yet found is found by a poll that was due within
  `RELOAD_POLL` when it was made, or by an event read when the reload it came in is
  over (`UnfoundIsNear`); one that is found waits for nothing but an earlier report
  (`HeldByAReport`), which was not long after it (`ReportsNear`); and the loop is
  late for neither by more than a wait (`LoopInTime`).

In the same module, `ServiceLoopIsAReloader` shows the service's loop to implement
`ConfigReloader`, initial states and steps, so that the theorems above hold of it;
`ServiceIsCurrent` (`ServiceContract`) then needs one fact more, that a reload is
always of some file, so that a retry is of something. And the same of the edge:
`EdgeLoopIsAReloader`, and `RenewalsAndEditsAreTaken` (`EdgeIsCurrent`), because a
report does not outlive its reload.

The module also has `NotModifiedIsHonest` of `PageValidators`: an input that moved
since it was dated, since a page was built or since a client took it, carries a date
no older than the one given then or is marked (`MovedInFile`, `MovedInBuild`,
`MovedInState`). An action property: the invariant is used in the step that answers.

**`CacheCoherence`**: `LaterClearsSuffice` (`Spec => []CoherenceContract`), for every
lag. Nothing is assumed of the backend's: a touch whose reload and a fetch begun
before it may outlast the last clear is remembered as `late`, and so is an edit
through the edge that passes a response under way; in the run both happen
(`POLL_LAG`, `Editing`), and section 5 has the statements they contradict. The
invariant says that every old page in the cache, in the backend or under way has a
clear, or the edge's own reload, still to come or was `missed`, and that what is not
late fits into the last clear.

### The edge

**`EdgeProofs`** has seven parts that share no variable.

- `EventLoop`, `LoopIsNeverLate` (`LoopContract`): the wait in hand ends within
  `TICK` and by QUIC's timer, and what is posted during it was posted since the last
  drive, which took everything.
- `EdgeConfig`, `ConfigIsWhatRuns`: field by field, what a reload takes it builds,
  and what it does not build again it carries over.
- `Http11Conn`, `AnsweredOnce`: nothing has been answered in `Reading` and
  `WaitingBackend`, and no interim response before `expect_handled`. One lemma per
  stage of `drive_conn` says it keeps this.
- `Http3Conn`, `AnswersAreWhole` (`H3Contract`): bytes sent and left add up to the
  response on each stream, a request that is complete is being taken care of as
  long as the connection lives, and nothing unsafe was done on early data.
- `RequestPipeline`, `PrivateAndWithinLimits` (`PContract`). Privacy: a fetch that
  carries claims, or whose path was protected when it began, was asked for with a
  good token, and one whose answer may be stored carries none; a reload in between
  changes neither. Limit: an address's entry counts at least the admissions since
  its window began, and the window before kept the limit too, so that any window
  meets at most two of them. This holds of the configurations there were
  (`\E c \in PConfigs`), since a reload may change the limit within a window.
- `H2Client`, `EveryCallIsSettledOnce` (`ClientKeepsPromises`, the refinement of
  `Promise`): a call that waits has exactly one stream, and a dead connection none.
  `AnswersAreDelivered` (`ClientContract`), in four layers. `CreditInv`: each window
  is what the peer granted less what was sent, and a body that waits has a closed
  window. `AnswerInv`: a frame in the buffer belongs to a stream the peer knows, and
  the one that ends a response came after its headers; so a call is not answered
  before its response is there. `OrderlyInv`, for an orderly peer: the end of a
  response that is still waited for is in the buffer, header blocks are contiguous,
  and no frame that kills the connection has another behind it; so a response that
  was sent is not lost. It needs `OrderlyAssumption`: a server may not grant more
  than the largest window. `DrivenAlive`: a connection that is being driven
  is alive.
- `H2TlsClient`, `TlsFailureIsThePeers` (`GFailureIsThePeers`). `GInv` says all that
  follows of a peer that has kept to the protocol. Every half of a frame is in the
  socket, in rustls or in `recv_buf`, so that when `drive` acts on the end of the
  stream no whole frame is left (`GPiecesInv`). A header block that is begun is
  continued by the next frame (`GBlocksInv`). The end of a response that is still
  waited for is in those buffers, behind its headers, and if the response counts as
  whole its last frame is, and no GOAWAY is before it (`GEndsInv`, `GWholeInv`). A
  window has grown by at most `GMost` with each frame handled (`GCreditInv`), and
  `ModestAssumption` gives the room: such a peer is within its rights.

**`Sessions`**: `OneSessionPerAnswer`. The origin mints exactly when the request
came to it without a session, and then its answer carries that session alone, so
the cache node has one to take over.

### Services

**`ServicesProofs`**, from `"none" \notin Procs` and `"free" \notin AWorkers` (the
values of a free lock) and the finiteness of the set of workers, which a
cardinality needs.

- `Storage`, `MigrationsRunOnce`: a process between `BEGIN IMMEDIATE` and its commit
  holds the lock, has read the version under it, and is never more than one
  migration ahead of the file.
- `ServiceVisitor`, `OwnFormsAreAccepted`: a request brings a token only when it was
  sent without a cookie, and two such requests that overlap are marked, so every form
  on screen that was not crossed by another has the jar's token.
- `MarkdownWatch`, `WaitingMeansCurrent`: while no event is unread and none was
  missed, the last pass began with what is on disk, and what it read so far is that.
- `ServiceStart`, `StartMissesOnlyTheGap` (`UMissesOnlyTheGap`): fingerprints are
  taken no later than the reads they stand for, so an edit after a read is one the
  reloader will report; and what the init functions were given is the config that
  runs unless `gap` or `renewed` says otherwise (`GapIsKnown`).
- `AnalyticsLog`, `NoLineIsLost`: while the live path is gone the writer's handle is
  the newest renamed file, which nobody has compressed; compression begins only
  when the reopen is over, and a whole archive has every line of its file.
- `Auth`, `AccountsAreSound` (`AContract`): a refresh is safe from a revocation
  because the server's own revocations need the lock it holds, and a command's
  deletion leaves it no user to sign for; rows have owners because no id is handed
  out twice; the throttle's count and the workers that asked before it filled stay
  together within the allowance plus one for each other worker.
- `ServiceData`, `FilesAreWhole`: of the workers that write through a temporary name,
  those whose inode is not `shared` are alone on it (`BusyApart`), and rename it once
  it is written and synced; an inode that was ever under the file's own name, that a
  reader has open or that a power loss may bring back is never written again
  (`NamesKept`); one that is written in place has one name (`NamesApart`). The
  hypothesis about the names is `DataAssumption`: no handler's own file is a `.tmp`.
- `FleetMonitor`, `MonitorVerdictsAreEarned` (`FContract`): each node's reading is
  from a poll that began when its snapshot says, polls are spaced by the interval,
  and what the verdict calls late, behind or forged follows from the readings it was
  given. The node named as behind is the minimum of a set of dates, which the proof
  takes from the finiteness of the fleet.
- `MonitorHistory`, `HistoryIsTruthful` (`HContract`): rows with the same key are the
  same row, in the queue, in the writer's hands and in the tables; an agent's id is
  handed out again only once no row has it; a cursor has passed exactly the rows
  before it in the order of the pages, so that what it will still be given and what
  it was given are apart. `HNodes` is `1..n`, the order of the configuration.
- `ServiceRoutes`, `MostSpecificRouteWins` (`ZMostSpecificWins`): the fold of
  `find_route` keeps the first of the best matches so far, so what it returns is the
  same for every order of the blocks when only one route has the best score; and a
  pattern that is narrower, read off its segments, has the higher score.
- `BackendWire`, `WireVerdictsAreStable` (`WContract`): what the parser has read of a
  buffer is what it reads of any longer one, so complete and wrong stand; the two
  verdicts the reader gives between reads are explained by the bytes it had
  (`ReaderOK`), and the one `100 Continue` is written at the first read that leaves
  the request incomplete after its head.

**`FileServer`**: `FilesAreLabelledAndCut` (`IContract`). A poll's offset never
passes the size it took, nor that size the log, which only grows.

### Loops, sums and orders

**`FoldLemmas`** has the induction that the theorems below need. The library's
induction theorems take a predicate as a parameter, which the provers cannot
instantiate; stated for a set instead (a set of naturals that has 0 and the
successor of each member is `Nat`, and the same for the subsets of a finite set and
for indices) they need none, and follow from the well-foundedness of `<`. The
recursive functions that the community modules' folds choose are shown to exist,
after which a fold is the run of its loop: a sequence of intermediate values from
the base to the result (`FoldExists`, `FoldFunction`'s sums, cardinalities under a
change of one member).

**`DataProofs`** has nine theorems of parts that share no variable.

- `CacheRefresh`, `RefreshIsFollowedUp` (`RefreshContract`): a key that is owed is in
  the queue, in flight or in a reply that is kept, and only stale entries are owed.
- `ResponseCache`, `CacheIsExactAndBounded` (`CacheContract`): the byte count changes
  by the footprint of what an operation replaces or removes, so it stays their sum.
  `EvictionFollowsReads` (`LeastRecentlyReadGoesFirst`), an action property: reading
  times are distinct, so the cutoff of `evict_until_under` divides the entries.
- `RefusalLog`, `RefusalsAreCounted` (`RefusalsAreAccountedFor`): refusals of a peer
  are those in its lines and those its entry holds back, and an eviction from the
  table writes what it held back.
- `TrafficReport`, `ClaimsAreAccountedFor`: each claim is credited once or is forged.
- `Forwarding`, `ForwardedIsWhole` (`XContract`), from `MessagesAssumption`: a
  backend's message holds what its own framing says, as those of a server that
  frames correctly do. Where the backend stops is free.
- `Http2Server`, `Http2AnswersAreKept` (`H2Contract`). The invariant (`H2ConnOK`)
  says of each open stream that it is before its request, waits for its answer or
  has it, and that the counts of dispatches and answers are those of that stage; of
  a closed one that it was answered or given up; and that ids only grow, so none of
  a closed stream comes back. A receive window holds at least `MAX_FRAME_SIZE`
  because it is announced whole again at half (`2 * MAX_FRAME_SIZE <= H2_WINDOW` in
  `H2ServerAssumption`, true of the code's constants). One lemma per handler of
  `process_frame` says it keeps this for every frame. The flush is the run of its
  loop over any order of the streams: each stream it leaves waits at a closed
  window, and the later ones only lower the connection's, so none of those it left
  could be sent at the end (`NothingWaits`, which holds between two drives).
- `BackendPool`, `PoolFollowsTheDirectory` (`PoolContract`): a step property of the
  rescan and, between requests, an invariant on connections; the members are one
  per path, so that the fold over the sockets found adds each new one once. The last
  event about a socket tells of its last change unless that was lost (`LastIsTrue`),
  so handling it makes the pool right whatever a rescan did before it.
- `EdgeStats`, `ReportsAreExact` (`EReportsAreExact`): a ring's slots hold the newest
  samples of the channel's whole history, counted back from `idx`, and `added` of
  them came since the last line, however often it wrapped. Two lists of samples are
  shown to be the same sequence; their percentiles then agree, whatever `SortSeq` is.

### What only TLC checks

- Liveness: `H1ConnectionsEnd`, `VContract`. The prover has no rule for fairness.

## 5. What the code does not do

### Statements that do not hold

Met while modelling, beside the three above. The modules model what the code
does; their properties are stated so that they hold.

| Statement | What happens |
|---|---|
| a `flash` service starts with `flash_secret` in its config (`docs/m6-render-lib.md:565`, `docs/m6-app-anatomy.md:174`) | the key is the framework's (`m6-core/src/config.rs:230`) and is not passed on (495–497), but is read from what was passed on (`app.rs:801`): exit 2 (2746). `ServiceStart` |
| a config that dumps is one that starts (`docs/m6-app-anatomy.md:133`, `app.rs:2401`) | the dump makes fewer checks than the start. `ServiceStart` |
| a change after the first read is reported, not lost (`app.rs:2657`) | the stateful services have built their global state from a read before it (1140, 1268, 1362). `ServiceStart` |
| which route wins does not depend on declaration order (`app.rs:36`) | it does between two config routes of one score that both match: the first declared is taken (`ZMostSpecificWins` excludes such ties). `ServiceRoutes` |
| template changes are "rsync and done" (`docs/m6-user-guide.md:1413`) | only the two configs are watched: a template or params file that arrives after the config that reports it, or that repairs one the build refused (`app.rs:2867`), is not loaded, and the refusal is not tried again. `ServiceReload` |
| `Last-Modified` is a truthful date of the page's inputs (`app.rs:268`) | the global params files are left out. `PageValidators` |
| the date "errs toward revalidating, which costs a request rather than serving something stale" (`app.rs:642`) | the inputs are dated (647–676) before they are read (692–735), and a file may arrive with an older date (a copy that keeps it, a clock set back): a client that revalidates by date is told 304 for a page it does not have. `PageValidators` |
| the token in a form is the one its cookie gets (`app.rs:3228`) | two tabs opened at once without a cookie are each given a token of their own (1007); the `Set-Cookie` that arrives last wins and the other tab's form is refused with 403. `ServiceVisitor` |
| a body that ends early closes the connection (`h1.rs:741`) | the App handler (`app.rs:3381`) goes on. `BackendWire` |
| shutdown finishes what was accepted (`docs/m6-render-lib.md:619`) | connections in the kernel's backlog are dropped with the process (`app.rs:2932`, 3006), and an `accept` that fails after the signal leaves the loop without the drain (2997). `ServiceLifecycle` |
| an empty file is not loaded (`app.rs:2835`) | only the reported file is looked at, both are loaded. `ServiceReload` |
| "Write a JSON value atomically" (`request.rs:298`) | two workers that write one file share its temporary name (311, 474): one truncates what the other is writing or has just renamed into place, and a reader gets an empty or mixed file until a write that is alone. `DFilesAreWhole` excludes such inodes; in the run they occur. `ServiceData` |
| the tag is that of the body (`m6-file/src/handler.rs:136`) | the file may be replaced between its stat and its open (236). `FileServer` |
| `m6-md --watch` sees every change | events behind one of a foreign file are drained unread (`main.rs:293`, 308), and the first pass (251) precedes the watch (288). A pass that fails (a directory, a document, the write, the rename) is repeated only on the next event (336). `MarkdownWatch` |
| "a lost watch delays a reload by at most a second" (`docs/m6-http.md:195`) | by the poll alone it does; a report just before, a reload under way and one sleep of the loop come on top. `ReportedInTime` states the sum. `ConfigReloader` |
| "a single write is exactly one" report (`watcher.rs:334`) | the poll finds it first, then its event forces a second. `ConfigReloader` |
| both files in one burst is the union (`docs/m6-http.md:203`) | a site change reported while the system config is broken is lost (`main.rs:3965`). `EdgeReload` |
| the last clear covers a backend that polls (`docs/m6-http.md:213`) | its loop may sleep 100 ms (`app.rs:2919`), longer than the 80 ms margin: its old page may be stored after the last clear and stays until it expires (`late`, `missed`). `CacheCoherence` |
| an edit through the edge is not followed by the previous page (`main.rs:3408`) | a response under way is stored after the eviction (3697), which arms no clear. `CacheCoherence` |
| a route with `require` is enforced before forwarding (`docs/m6-http.md:138`) | a reload that brings `[auth]` and `require` while the key file cannot be read keeps the absence of a key (`main.rs:4033`), and the check is made only when there is one (2733). `EdgeConfig`, `RequestPipeline` |
| an aged response does not restart the clock (`cache.rs:373`) | `expires_at` is counted from the insert (749). `ResponseCache` |
| one background fetch per stale key (`main.rs:263`), a dropped one queued again (255) | fetches in flight are not seen; replies that never come fill the table. `CacheRefresh` |
| least-connections balancing (`docs/m6-http.md:50`), "consecutive failures" (`pool.rs:17`) | every count is 0 at every pick, so the first member is taken; a success does not reset the count. `BackendPool` |
| the channel resolves when the stream completes (`h2c_client.rs:5`) | END_STREAM on a split header block fails the request before the block is complete (507). `H2Client` |
| the backend leg has a `Host`, added when the client sent none (`forward.rs:135`) | on the URL leg it is always written (1126), and added again for a client without one (1153). `Forwarding` |
| whether a response leaves the connection open is decided per request (`http11.rs:146`) | a 204 or 304 says `close` (1336) and the connection is kept all the same (1156). `Http11Conn` |
| a sweep of missing paths costs one fetch (`main.rs:55`, 3057) | every request until the first answer comes fetches it. `RequestPipeline` |
| the poller and the handshake-limit check cannot disagree on the interval (`m6-monitor/src/fleet.rs:187`) | the poller keeps the one read at start, the check reads the file as it is. `FleetMonitor` |
| a node whose logging cannot be checked is not called all clear (`poll.rs:236`, `check.rs:1011`) | when `/traffic` fails and `/perf` does not there is no finding (`digest.rs:877`), and ALL CLEAR is printed (`check.rs:772`). `FAllClearIsEarned` lets this one source pass and no other. `FleetMonitor` |
| `--check` exits 1 when there are faults (`check.rs:28`); an old reading is not served without saying so (`main.rs:100`) | header faults do not count (209); `/` answers an old snapshot with 200. `FleetMonitor` |
| signals are installed "once it is bound and ready to serve" (`signal.rs:294`) | the edge installs them (`main.rs:4373`) before its TCP and h2c listeners. `EventLoop` |

### Hazards without a property

- `cache.rs:749`: `now + lifetime` overflows `Instant` for a max-age near 2^64 s;
  the model's clock has no end. `cache.rs:124`: a key longer than the 512-byte
  lookup buffer is stored and never found; keys are model values.
- `h2c_client.rs:762`: no deadline on a dispatched stream; every caller has a
  timeout of its own but the background one. `h2c_client.rs:154`: stream ids wrap
  after 2^30 requests on a connection.
- `http11.rs:268`: the TLS listener accepts for as long as connections come.
  `h2s_client.rs:95`: connect and handshake run on the event loop. `EventLoop`
  lets an iteration take any time.
- `log.rs:491`: a `/traffic` read that races a rotation repeats or misses lines.

### Observations

- HTTP/2: a SETTINGS delta is added to windows unchecked (`http2.rs:1116`), an
  overflow the release profile aborts on (`WindowOverflows`: the model's connection
  ends there, as every other one of the process does); HEADERS
  without a body or END_STREAM are answered with END_STREAM twice (1862); trailers
  over the cap reset a stream that is then still answered (1263, 1334). The
  clients' GOAWAY fails streams the peer would still answer.
- HTTP/1.1: bytes pipelined behind a complete request in one read are dropped; a
  TLS connection that never finishes its handshake does not time out; the read
  timeout also cuts a response that is waited for or being written; an unsupported
  `Expect` gets 417 only while the body is not there yet.
- HTTP/3: `conn_id_map` is not pruned (`main.rs:1376`); trailers overwrite headers
  (1696); a reset stream's request stays until the connection closes.
- Pipeline: any response is held as the error page, even a 503; a reload does not
  clear it; a URL backend's own error passes through, a socket's does not; error
  mode reaches only the socket pools.
- Forwarding: of several `Via` lines the last is kept; a `Connection` that names
  `Host` reaches a socket backend without one.
- Services: the state lock is taken twice per request (`app.rs:3057`, 3087)
  although a comment says once, so a reload may fall between; the answer to a
  request whose dictionary fails is written under the lock (3094), so that a peer
  that does not read it can hold up a reload and with it the accept loop; whether
  a head over the cap gets 413 and an unknown `Expect` 417 depends on how the
  request was cut over reads (`parse.rs:97`, 113); `destroy_global`
  never runs (1187, 1428); a page with a form that is cached as public carries one
  visitor's token; `touch` may truncate a file made since it looked; `x.json` and
  `x.png` share `x.tmp`; after a rotation a tail skips the new file's bytes.
- Pool: an event is acted on by its kind (`main.rs:3908`), so a late "deleted" about a
  socket that is bound again removes a member that is there, and its backoff with it,
  until the next event or rescan; a late "created" adds one that is gone.
- Accounts: the command line's role changes can lose one another; the throttle
  allows one guess more per other worker than `docs/m6-auth.md:293` says, and one to an address it has no entry of
  even when the allowance is 0 (`rate_limit.rs:72`; `config.rs:128` takes 0); a password change keeps the refresh
  tokens; the issuer's default is `localhost` in the command line and not in
  `docs/m6-auth.md:61`.
- Monitor: a window is stored under the time of its poll, and `/traffic` answers from
  a cache of up to `traffic_cache_s`: stored windows do not overlap (`HContract`), the
  spans they report on may, by that much. The interval is the one read at start; a poll thread that panicked reads
  "?"; a failed history write may go unreported (`history.rs:1267`).
- Log and traffic: between rename and reopen `/traffic` answers 503; a genuine
  crawler's entry lists the paths of its forgers (`telemetry.rs:651`).
- Storage: an older binary that was ready before a newer one migrated goes on
  writing. `m6-md` renames its output without a sync (`docs/m6-md.md:127`).

## 6. Not modelled

Not modelled: the redirect node and the constant response headers, the formatting
of monitoring records (its `LogPulse` is a counter and a time) and the parsing of
host readings, HTTP field parsing and formatting, multipart bodies, templates,
compression, HPACK, QUIC and TLS themselves, `m6-html` (a `main` that registers
nothing), the probe, benchmarks and the test kit. They have no state that outlives
a call, belong to a library, or are not part of the running system. In modules
listed as partly modelled, what is missing is header text, wording of reports and
`Vary`. `EventLoop` leaves out an error of `poller.wait`, `RequestPipeline` the
legacy `metrics_token_file` gate, which applies when `metrics_require` is not set.
