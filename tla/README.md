# proxify: TLA+ specifications

proxify is an intercepting proxy: an HTTP proxy with filters, rewriting and a
traffic logger (`proxify`), a raw TCP relay (`mitmrelay`), and two commands that
read the dumps again (`replay`, `swaggergen`). This directory holds TLA+ models of
it, the TLC runs that check them on small instances, and TLAPS proofs. Source
paths are relative to the repository.

Contents: [the system](#the-system) · [modules](#modules-and-the-code-they-model) ·
[runs](#the-runs) · [bounds](#bounds) · [fairness](#fairness) ·
[proofs](#proofs) · [divergences](#where-the-code-and-its-documentation-disagree) ·
[not modelled](#what-is-not-modelled) · [plan](#plan)

    tlc -config MCLoggerLog.cfg MCLogger      # any of the runs below
    tlapm LoggerProofs.tla

## The system

| Component | Code | State it keeps | Operations | Module |
|---|---|---|---|---|
| traffic logger | `pkg/logger/logger.go`, `writer.go` | `asyncqueue` (a channel of 1000), `Store`, `sWriter` | `NewLogger`, `LogRequest`, `LogResponse`, the goroutine `AsyncWrite`, `Close` | `Logger`, `TrafficLog` (its promise), `Bodies` |
| stores and structured writers | `pkg/logger/{file,elastic,kafka,jsonl,yaml}` | dump files, an index, a topic, one structured file | `Save`, `Write`, `Close` | `Logger` |
| HTTP proxy hooks | `proxy.go` 201-400, `pkg/util` | the martian context of each request | `ModifyRequest`, `ModifyResponse`, `MatchReplace*`, `removeBrEncoding`, `hijackNServe` | `Proxy`, `Bodies` |
| socket relay | `socket.go` | two sockets, `erred`, `errsig`, byte counters | `Run`, `Proxy`, `fullduplex`, `pipe`, `err`, `Clone` | `SocketProxy` |
| mitmrelay | `cmd/mitmrelay` | one relay per `-relay` flag | `main` | `SocketProxy` (its use of `Clone`) |
| certificate authority | `pkg/certs/mitm.go` | two files, the variables `cert` and `pkey` | `LoadCerts`, `generateCertificate`, `SaveCAToFile`, `SaveKeyToFile`, `readCertNKeyFromDisk` | `Certs`, within `Startup` |
| runner and options | `internal/runner`, `cmd/proxify` | the options, the export configuration, the file of `-out-ca` | `ParseOptions`, `NewRunner`, `Run`, `Close` | `Startup` |
| upstream transports | `proxy.go` 130-199, 490-528 | two rotating lists of upstreams | `getRoundTripper`, `Rotate` | - |
| listeners, DNS, own pages | `proxy.go` 402-487, 530-578 | - | `Run`, `Stop`, `/cacert` | in `Proxy` (hijack, pass-through) and `Startup` (`/cacert`) |
| replay | `cmd/replay` | the map `responses`, without a lock | `visit`, the HTTP handler | `Replay` |
| swaggergen | `cmd/swaggergen`, `pkg/swaggergen` | one specification, its file | `ReadLog`, `CreateSpec`, `WriteSpec`, `AddPath`, `New*`, `Update*` | `Swaggergen` |

**How they interact.** martian serves each client connection (a *session* here) in
a goroutine and calls the hooks of the proxy for each request and response. A hook
evaluates the filters, passes its verdict to the other hook through the context of
the request, and sends a transaction on `asyncqueue`; the send blocks when the
channel is full. One goroutine drains the channel and calls the structured writer
and every store in turn. A transaction points at the very request of the handler, so
that goroutine and the round trip read the same body. The dump files it leaves are
what `replay` and `swaggergen` read. The CA of
`pkg/certs` signs for the hooks' TLS interception. The relay of `socket.go` uses none
of the above: its connections share nothing, and within a connection three
goroutines share two sockets, a flag without a lock and an unbuffered channel.

**What is hard about it**, and what makes each part correct:

* *logger* - many producers, one consumer, three unreliable sinks and a structured
  file that is closed before the channel is. Correct when each sink gets the
  documents in the order of submission, a request before its response, no sink pays
  for the failure of another, no error ends the only goroutine that drains, and a
  drain ends.
* *hooks* - concurrent sessions, kept-alive connections, callbacks and hijacked
  connections that leave the context without user data. Correct when each exchange is
  judged by the conjunction of its own filters and filed under its own ID, once.
* *relay* - two pipes and a waiting goroutine, each able to block for good. Correct
  when the byte streams are faithful prefixes, and an error or the timeout ends all
  of the connection.
* *bodies* - a body can be read once; filters, rewriting, two or more dumps, the
  structured record and the round trip all read it, the last two in different goroutines,
  and each puts another reader in its place. Correct when the upstream and the log both
  get all of it.
* *start* - seven steps that can each fail or be killed, over four files the user also
  edits, deletes or installs. Correct when no start replaces the authority that clients
  trust, or the configuration that the user wrote.
* *CA* - crashes between four steps on two files, expiry. Correct when the key in
  use belongs to the certificate in use, and the certificate is valid.
* *replay* - a map shared without a lock, ordered only by the requests that go round
  through another process; a body read from a file that another goroutine closes.
* *swaggergen* - reads a directory that the proxy writes to, merges partial
  descriptions run after run, and rewrites a file in place without truncating it. Correct
  when the document is what one run over everything would have made.

`PROJECT.json` lists every hazard at its line with the properties aimed at it,
or the reason why none is.

## Modules and the code they model

`TrafficLog` ← `Logger` (`T == INSTANCE TrafficLog WITH log <- ...`, the refinement
`KeepsThePromise`); `Logger` ← `Proxy` (`L == INSTANCE Logger WITH Ids <- ...`: the
same actions with the hooks around them); `Startup` extends `Certs` and runs its actions as
steps of a whole start;
`SocketProxy`, `Replay`, `Swaggergen` and `Bodies` stand alone. `LoggerProofs`,
`LoggerPromise`, `ProxyProofs`, `SocketProofs`, `StartupProofs`, `ReplayProofs`,
`SwaggerProofs` and `BodiesProofs` extend the module they prove about; `ProxyProofs` has
the theorems of `LoggerProofs` by instantiation (`P`), `StartupProofs` proves about `Certs`, too. Each `MC*` module
instantiates a specification for TLC. Operators keep the names of the functions
they model. Operators that begin with "Mutant of ..." in their comment are plausible
bugs: they are no part of the specifications, and replacing the definition by its
mutant makes TLC report the property the mutant is listed with in `PROJECT.json`.

**`TrafficLog`**. What readers of the targets may rely on, without stores, failures or
`Close`: transactions are numbered as accepted, taken one after the other, and the log
of a target grows only by parts of the one taken last, in ascending order (`Deliver`).
Only a target in `Resends` may hold copies, and next to one another.

**`Logger`**. A transaction is its ID, the verdict of the filters and whether it has
a request and a response; a dump is a sequence of the tokens `head`, `body` and `nl`.
`Send` is the send on the channel, blocking when full; `SendOnClosed` is the panic.
`Receive` takes a transaction and computes what `AsyncWrite` will do with it: the
structured entry, the request to each store, the response to each store, in that
order (`Writes`), with the early returns of `storeWriter` (`Selected`), the file name
(`StoreName`) and the truncation. Then `WriteStructured`, `Save` and `SaveFails`
perform these writes one at a time, so that calls to `LogRequest` and `Close` can fall
between any two. What a call may leave at its target is a set: an Elasticsearch
upsert that failed may still have happened, a Kafka message may be repeated,
a file may have received any prefix. `CloseWriter` and `CloseQueue` are the two
statements of `Close`.

**`Proxy`**. A session reads a request (plain, CONNECT, or for proxify's own pages),
runs `ModifyRequest`, makes the round trip, runs `ModifyResponse` and goes on, with a
second request on the same connection, in a tunnel, or not at all. A hook is one
action up to its send and another one from there, as only the send can block.
`ctx` is the entry of the martian context; `data` the local variable `userData`. The
configuration is a variable (`options`) chosen initially from the constant `Options`:
one run covers several configurations. Filter results are arbitrary booleans; the
ghost `evals` remembers them, and `owner` which exchange a transaction came from.
A rewriting leaves any header behind.

**`SocketProxy`**. One connection. `main` is the goroutine of `Proxy` (dial, start the
pipes, set the deadlines - after the pipes have started -, wait, log, close twice).
`pipe[s]` is the goroutine that reads side `s`: `Read`, `Transform`, `Post` (with an
HTTP proxy), `Write` or `WriteFails`, and the three steps of `err`: the test of
`erred`, the send on `errsig`, the assignment. The test may miss the assignment of
the other pipe: it is a data race in the code. `Options` go through `Clone`
when `Cloned` holds.

**`Certs`**. The files and the package variables hold generations of authorities.
Each write to a file is two steps (truncated, written) and a start can crash before
each. Certificates expire and files are deleted between starts. Two ghosts remember what
the user did: `orphan` is a key that was left behind when its certificate was deleted,
`abandoned` the authorities of which a file was deleted.

**`Startup`**. A whole start: `ParseOptions` creates the export configuration in two
steps if there is none and parses it, `configureVerbosity` may end the start,
`Loading` is each step of `LoadCerts` in `Certs`, then `SaveBundle` (`-out-ca`, which
exits) or `RunProxy`. `Kill` ends it anywhere. Between and beside the starts a client
installs the certificate (`Install`: from the bundle or the page `/cacert`), the user
edits the configuration and deletes the certificate or the key (`DeleteFile`; what clients
have installed stays installed), and years pass. The options are chosen anew by each start.

**`Bodies`**. One request. `readers` are the `io.ReadCloser`s made so far, of three
kinds: the connection's stream, which fails once it is closed; a buffer, which is empty
once it is read; and the reusable reader of the library, which begins again after its
end. A stream ends well, or short of its Content-Length, or in an error (`Ends`): its client
broke off, or a replacement changed the length of the text, which `MatchReplaceRequest` parses
with the Content-Length of the old one (`Parsed`: any part of the text and any end). Whoever
reads it then fails, in the filters, the dump, `-vv`, the structured data or the round trip, and
leaves a drained body. The ghost `cut` says who shortened the body. `body` is the field `req.Body`, `taken` the reader the round trip keeps. The
handler's steps are those of `ModifyRequest` and the round trip; `AsyncWrite` reads a
chunk at a time in `DrainBody` and `CopyBody` (the two halves of `DumpRequest`),
`debugLogRequest` (`-vv`) and `NewHttpRequestData`, and assigns `req.Body` between them.

**`Swaggergen`**. `dir` is the log directory, in which the proxy adds files and
responses while a run reads (`LogFile`, `LogResponse`). A run is `Start`, one `ReadLog`
per file of the walk, `CreateSpec` (which decodes the document it finds), one
`CreateSpecLoop` per entry, and `WriteSpec`; the document is nested functions, one per
map of the code, merged by operators that bear the names of the code's. `made` says
whether a decoded map is nil. Of the text of the output file the model keeps the document,
whether the end of an older text stands behind it (`tail`) and whether its own end is missing
(`cut`). How long a text is depends on values the model does not have: whenever a parameter or
a schema is replaced by another (`Replaces`) the new text may be the shorter one. Files of
the log may vanish while a run walks (`Vanish`).

**`Replay`**. `visit` opens a file, parses it, stores the response, calls the client
and waits; each request that reaches the server gets a handler goroutine with its
three steps: lookup, delete, copy from the file. `Text` is what a file contains, for
the documented format and for what the logger writes. The proxy in between is
external: it passes an answer on as a whole, or while it is still receiving it.

## The runs

| Run | Module, cfg | Checks | Shows |
|---|---|---|---|
| `logger_log` | `MCLogger`, `MCLoggerLog` | `TypeOK`, `InSubmissionOrder`, `EvenHanded`, `StructuredFrozen`, `ExportedEventually`, `CloseDrains`, `KeepsThePromise` | With Kafka and a YAML file (dump files are in `proxy_live`). Any constructor, dump, fill, marshal, save and retry may fail and the process may stop anywhere: each target still has an ordered log without duplicates (Kafka's adjacent copies excepted), the loop over the stores calls each equally often, every accepted transaction is dealt with unless the process stops, `Close` ends in a drained channel, the structured file is frozen from the first statement of `Close`, and every step is a step of `TrafficLog` or a stutter. |
| `proxy_safety` | `MCProxy`, `MCProxySafety` | `TypeOK`, `VerdictOfItsExchange`, `FiledUnderItsExchange`, `PairsLogged`, `ResponseClosesFile` | Verdict, ID and order of an exchange survive the interleaving of sessions, reused connections and callbacks, down to the documents on disk. |
| `proxy_live` | `MCProxy`, `MCProxyLive` | `HooksReturn`, `DumpsInOrder` | A hook that blocks on the full channel returns, whatever saves fail, unless the process exits. The dump files, which a failed save leaves with a part of a document, are an ordered log like the other targets. |
| `socket_relay` | `MCSocketProxy`, `MCSocketRelay` | `TypeOK`, `FaithfulStream`, `ReportIsSound`, `AtMostOneLeaks`, `ErrorClosesBoth`, `TimeoutCloses` | Streams without gaps, repetitions or data behind a torn chunk; a sound log line; both sockets closed after an error or the timeout; one goroutine at most stays behind. |
| `startup` | `MCStartup`, `MCStartup` | `BootTypeOK`, `KeyBelongsToCert`, `ServesValid`, `TrustedCA`, `ExportKept` | Starts that fail or are killed at every step, certificates that expire and files that the user deletes: an expired certificate is never served; the authority a client has installed is replaced only if the user deletes a file of it, and two authorities are combined only if the user left a key without its certificate; the user's export configuration survives. |
| `replay_walk` | `MCReplay`, `MCReplayWalk` | `TypeOK`, `NoMapRace`, `AnsweredOnce`, `WholeWhileOpen` | The map is safe without a lock because an answer begins after the handler is done with it; a request repeated by a redirect finds nothing; no part of an answer is lost before `visit` is done with its file. |
| `swagger` | `MCSwaggergen`, `MCSwaggergen` | `TypeOK`, `SumOfTheRuns`, `PanicExplained` | Three runs over a directory whose files come, grow and vanish, with entries of two hosts, killed or out of room at any moment: a document that none of them damaged is the sum of the runs that ended well, and panics have the four listed causes and no other. |
| `bodies` | `MCBodies`, `MCBodies` | `TypeOK`, `LeftAsFound`, `AloneIsWhole`, `NotLostTwice` | What the round trip and `AsyncWrite` can take from each other, for every kind of body, whole or breaking off, and every combination of filters, rewriting, `-vv` and structured output. |
| `logger_exports`, `proxy_tag`, `socket_clone`, `replay_dumps` | | one property each | Violations: see [below](#where-the-code-and-its-documentation-disagree). |

What the less obvious properties say:

* `AtMostOneLeaks` is an observation of what the race on `erred` can cost: both pipes
  can pass the test, and the second one then blocks for ever on a channel nobody
  receives from again. It is bounded by one goroutine per connection.
* `ReportIsSound` covers the unsynchronised read of the other pipe's counter: the log
  line may be behind, never ahead.
* `TimeoutCloses` makes one exception, which the model forced: a pipe in
  `http.Client.Post` cannot be interrupted by a deadline of the sockets, and when
  both pipes are there nobody notices the timeout.
* `ResponseClosesFile` relates the order of submission to the files: no text follows
  the response in a dump file, whichever sessions interleave.
* `EvenHanded` says that no store pays for the failure of another: whichever saves
  fail, all stores have been called equally often, but for the one the loop is at.
* `LeftAsFound`, `AloneIsWhole` and `NotLostTwice` say together how much the sharing of a
  body costs. When the round trip has the reader to itself, the upstream gets all of
  it; so it does when the logger is done before the round trip begins. When both read the same
  reader, each gets the chunks the other did not: the upstream's part is cut short
  without an error, since `ContentLength` is -1 (chunked), and with the reusable reader
  a chunk can be sent twice. A chunk missing upstream is then in the log, except for the
  connection's own stream, whose reading fails for the second once the first has closed
  it. All three are about a body that the client sent whole and that no replacement cut
  (`cut = "no"`); bodies that are cut by a replacement or by a client that
  breaks off are in the behaviours of the run and in `TypeOK`, and nobody can promise their rest. `-vv` is excluded from the first two: `debugLogRequest` reads the body and does not
  put it back, so it can leave an empty body to whoever comes next.
* `TrustedCA` speaks of the certificate a client installed from *some* start and the one
  a *later* start signs with; failed starts, expiry and restarts lie in between. `LoadCerts`
  makes a new authority without a word when one of the files is missing (`mitm.go:126`); the
  property says that no start ever brings the directory of a trusted authority into that
  state: only the user does, who deletes a file of it (`abandoned`).
* `KeyBelongsToCert` has one exception, by the same reading: delete the certificate only, let
  a start crash between the two saves, and the next start serves the new certificate with the
  key that was left (`orphan`).
* `VerdictOfItsExchange` says whose filters made a verdict, not how the documents join them:
  the code joins with "and", the README with "or", which is the run `proxy_tag`.
* `WholeWhileOpen` bounds what the proxy in between can spoil: one that passes an answer on
  while it receives it lets `Do` return with the head, and `visit` close the file from which
  the handler still copies. Until then, through every redirect, nothing is lost.
* `SumOfTheRuns` compares the nested merging with a definition that knows no merging:
  `Documents` reads the document off the history of all entries, the newest first. It
  excludes a file that is `Damaged` (cut off, or with the end of an older text behind it) and
  what was merged into a damaged one (`sound`).
* `PanicExplained` bounds the known weaknesses: a file that the walk has listed and no longer
  finds, whose `FileInfo` is nil (`swaggergen.go:138`), the entry without a request (`:124`), the
  nil map of a method decoded without responses (`method.go:28`), and a file that an earlier run
  left damaged.
* `PairsLogged` counts entries per exchange. It is about a logger that has caught up,
  hence `Quiet`.

## Bounds

| Bound | Value | Why it is enough |
|---|---|---|
| `QueueCap` | 1 or 2 (1000 in the code) | The channel is full, empty and (with 2) in between; its capacity appears in the code only as the blocking of a send. The proofs hold for every capacity. |
| `MaxSent` | 2 in `logger_log`, up to 6 | More than the capacity, so that a sender blocks; in `Proxy` twice the requests, so that it never restricts a session (assumed in `ProxyAssumption`). |
| `MaxRequests` | 2 or 3 on two sessions | Two sessions interleave and one of them is reused for a second request. |
| `MaxChunks` | 2 a side | A chunk in hand while an earlier one has been written; torn chunk followed by another attempt. |
| `MaxGenerations` | 3 | An authority replaces another one, twice, with any number of failed starts in between (starts are not bounded). |
| `Chunks` | 3 | Each of two readers can miss the first, the middle or the last chunk; one entry for the request and one for the response is all that a request has. |
| `MaxRuns`, `NFiles` (swaggergen) | 3, 2 | A run that documents, one that is stopped or damages, one that merges into the result; two entries of one path, method and status meet. Each way to panic takes two runs at most. A file that has vanished does not come back under its name, which carries an ID. |
| `NFiles`, `MaxHops` (replay) | 3, 2 | A late handler of one file meets the next file; a redirect repeats a request. |
| Kafka retries | once (ten in the code) | Duplicates stay adjacent for any number; one is enough to break a property about duplicates. |
| `MaxSize` | 0 and 1 | Truncation off, and on in the middle of a dump. |
| `OutputFolder` | false in `logger_log`, true in `proxy_safety` and `proxy_live` | All faults with all targets at once are too many states. `logger_log` has every fault, with a target that resends (Kafka) and one that `Close` closes (YAML); `proxy_live` has the one that is written in parts, with the faults that reach it (`dump`, `save`, `halt`), behind the hooks. The proofs hold for all combinations. |

`proxy_safety` uses symmetry over `Sessions`; runs with temporal properties use none.

## Fairness

* `Logger`: weak fairness of `AsyncWrite` (the scheduler runs the goroutine, each
  `Save` returns with or without an error) and of the second statement of `Close`. None of
  the callers is fair.
* `Proxy`: in addition weak fairness of each session's hook. A blocked send is served
  by the channel in order of arrival, so a hook is not overtaken for ever; with
  bounded requests weak fairness is enough to express it. Reading a request and the
  round trip are not fair: a client or upstream may stay silent.
* `SocketProxy`: the three goroutines are scheduled and an armed deadline expires; a
  write returns when its socket is closed or past its deadline. No fairness makes a peer
  read or send, a write to a live peer return, or `Post` come back.
* `Certs`, `Startup`, `Replay`, `Swaggergen`, `Bodies`: none, their runs check safety only (a killed or
  failing run may be the last one).

## Proofs

`LoggerProofs` proves, for all values of the constants allowed by `LoggerAssumption`
(any set of IDs, any positive capacity, any configuration, any set of faults):

| Theorem | Statement | Argument |
|---|---|---|
| `TypeCorrect` | `Spec => []TypeOK` | `TypeOK` is inductive. The work is in the operators: `Writes` yields a sequence of writes to targets (lemmas `storeWriterWrites`, `structuredWriteWrites`, `WritesType`), and each `Save` adds at most a sequence of documents (`WritesAreDone`). |
| `LogIsOne` | `Spec => []OneLog` | The inductive strengthening, below. |
| `OrderIsKept` | `Spec => []InSubmissionOrder` | A conjunct of `OneLog`. |
| `FrozenAfterClose` | `Spec => StructuredFrozen` | An action property, from the invariant that the writer is not open once `Close` has begun. |

`InSubmissionOrder` speaks only about the documents written and is not inductive: a
step that writes a document needs to know that it ranks above those already
there. `OneLog` adds why: the channel is numbered without gaps from the number of
transactions received (`QueueNumbered`), the writes owed belong to the last one
received (`TodoIsCurrent`), those for one target are in ascending order
(`TodoInOrder`, which needs `StoresDistinct`: a store that appeared twice in
`Logger.Store` would get its documents interleaved), and what is written ranks below
what is owed (`SavedIsOlder`). One lemma per kind of step: `SendLog`, `ReceiveLog`,
`WriteLog`.

`LoggerPromise`, on top of it:

| Theorem | Statement | Argument |
|---|---|---|
| `LoggerKeepsThePromise` | `Spec => KeepsThePromise` | Step by step: a send is `Accept`, `Receive` is `Take`, `WriteStructured`, `Save` and a `SaveFails` that left something behind are `Deliver` of their target, everything else stutters. `OneLog` provides the guard of `Deliver`: what is written ranks above all that the target holds. |
| `StoresAreEven` | `Spec => []EvenHanded` | `EvenHanded` is not inductive, as it does not say what comes next. `GoesRound` does: the writes owed go round the stores in the order of `Logger.Store`, once for the request and once for the response; `Balanced` then says that tried and still due add up to the same number for every store. |

`ProxyProofs` (for any number of sessions and requests, any set of configurations, any
filter results and any set of the logger's faults):

| Theorem | Statement | Argument |
|---|---|---|
| `ProxyTypeCorrect` | `Spec => []TypeOK` | The logger's half from `LoggerInv`: each step of `Proxy` is one of `Logger` or leaves its variables alone, what a hook logs is of the type the logger expects (`DataLogged`), and the logger that the proxy instantiates is the one of `LoggerProofs` (lemmas `Same...`), so that its invariants hold here, too. That no session passes `MaxRequests` needs the exchanges begun to be finite (`Begun`), each session's own being among them. |
| `FiledRight` | `Spec => []FiledUnderItsExchange` | `Provenance`: what is in the channel (`Carries`), owed by the logger, or in a target (`Belongs`) agrees with what was `Known` of its transaction. A step of a session only adds to what is known, and a verdict is final once the response is logged (`Extends`); a step of the logger only moves and copies. |
| `MatchIsRight` | `Spec => []VerdictOfItsExchange` | From `Provenance` as well: the verdict of a transaction is `Known`. |
| `PairsAreLogged` | `Spec => []PairsLogged` | `PairsOwed`: without faults each response let through that the logger has received is in the structured file or owed to it; once, as `InSubmissionOrder` lets no transaction appear twice and `ResponseLast` lets no exchange log two responses. |
| `ResponseIsLast` | `Spec => []ResponseClosesFile` | Order of the logger (`OneLog`) and `ResponseLast` for what may not follow; `ResponsesFollow` for what must precede. |
| `DumpsAreInOrder` | `Spec => []DumpsInOrder` | `OneLog`, which the steps of the hooks preserve: each one is a step of `Logger` or leaves its variables alone. |

`ProxyInvariant` is the inductive invariant of the whole: `SessionInv` (`ContextKept` says, for
each place where a session can be, what its context and `userData` hold: its own exchange and
the verdict so far; `Unborn` that an exchange no hook has seen has no filter results;
`OwnersKept` that what was logged belongs to an exchange that is over or waits for its response),
the logger's
`TypeOK` and `OneLog`, `Provenance`, `PairsOwed`, `ResponsesFollow` and `NoFolder`. The
steps of the logger are dealt with once for all sessions (`LoggerSteps`), those of the
sessions once for all that the logger holds.

`SocketProofs` (for any number of chunks, with and without timeout, HTTP proxy and
`Clone`, whatever the expressions evaluate to):

| Theorem | Statement | Argument |
|---|---|---|
| `StreamIsFaithful` | `Spec => []FaithfulStream` | `StreamKept` says for each position of a pipe how many chunks it has read and written: all of them in `read`, one less in between; only a pipe that is past its last write has torn one. |
| `LogLineIsSound` | `Spec => []ReportIsSound` | `ReportKept`: the counter of the pipe that signalled does not move any more (`EndedByFirst`: it is in `mark` or `done`), the other one only grows. `CountIsWhole` turns the counter into a cardinality. |
| `OneLeaks` | `Spec => []AtMostOneLeaks` | From `EndedByFirst`. |
| `RelayTyped` | `Spec => []TypeOK` | Not inductive alone: that a counter stays in range needs `StreamKept`. |

The invariant `RelayInv` is the conjunction of these.

`StartupProofs` (for any number of generations), first about `Certs` alone:

| Theorem | Statement | Argument |
|---|---|---|
| `KeyIsTheCerts` | `Spec => []KeyBelongsToCert` | `KeyFollowsCert` (a part of `AuthorityIsWhole`): a key file exists only next to the complete certificate it belongs to, or is the one that the user left there (`orphan`), since the certificate is written first and both are generated whenever one is missing. |
| `ServedIsValid` | `Spec => []ServesValid` | `NotExpired`. |

and then about all of a start:

| Theorem | Statement | Argument |
|---|---|---|
| `KeyIsTheCertsAtBoot`, `ServedIsValidAtBoot` | `BootSpec => []KeyBelongsToCert`, `BootSpec => []ServesValid` | Every action of `Startup` is one of `Certs` or leaves its variables alone (lemma `BootBehavesAsCerts`), which carries the theorems about `Certs` over: nothing is proved twice. |
| `TrustIsKept` | `BootSpec => []TrustedCA` | `Settled`: the certificate is the one on the disk, a key is next to it, and no start is at a step that would make another pair. `Trust` says that of whatever is trusted or in the bundle and not `abandoned`; `Progress` says how far the files are at each step of `LoadCerts`, so that what is loaded, and can come to be trusted, is settled. |
| `BootTyped` | `BootSpec => []BootTypeOK` | With `InStep`, which ties the step of the start to the step of `LoadCerts`. |
| `ExportIsKept` | `BootSpec => ExportKept` | `CreatesOwn`: in the two steps that create the file it is not the user's, as the step before has found none and nobody edits it during a start. |

`BodiesProofs` (for any number of chunks, any kind of body and all options):

| Theorem | Statement | Argument |
|---|---|---|
| `LeftWhole` | `Spec => []LeftAsFound` | `Keeps`: while nobody has cut the body and until the round trip begins, what AsyncWrite has read of `req.Body` (`buf`) and what is left in the reader are together the whole (`Parts`); hence what it puts back is whole. |
| `SentWhole` | `Spec => []AloneIsWhole` | `Sends`: a reader that AsyncWrite has not touched has given to the round trip all that is missing from it. `SendsStay` is the reason: a step of AsyncWrite changes no reader but `req.Body`, and counts it as touched. |
| `BodyTyped` | `Spec => []TypeOK` | `Typed`: readers are added and read, but keep their kind, and what is left of one remains a suffix of what it had (`SuffixTail`); only a stream fails. |
| `MissedIsDumped` | `Spec => []NotLostTwice` | `Somewhere`: until the first dump is there, each chunk has been sent, or is in AsyncWrite's buffer, or is still in the body that AsyncWrite reads; from then on it has been sent or dumped. `DumpedOnce` says that the first dump is the one of the request, `Hidden` that the round trip holds the connection's stream, where the property makes its exception. |

`BodyInv` is the conjunction of the first two with `Places` (where the readers are) and says
nothing under `-vv`, where both properties are false. `DumpInv` (theorem `DumpIsKept`) is
the invariant of the other two and holds under `-vv`, too.

`ReplayProofs` (for any number of files of any kind and any number of redirects):

| Theorem | Statement | Argument |
|---|---|---|
| `MapIsSafe` | `Spec => []NoMapRace` | `OneAtATime`: a handler about to touch the map is the one of the last request, whose answer `visit` is waiting for. |
| `GivenOutOnce` | `Spec => []AnsweredOnce` | `InTheMap`: the response of the current file is in the map exactly until its first handler takes it out. |
| `RestIsKept` | `Spec => []WholeWhileOpen` | `CopiesFromOpen`: from the moment it is parsed until `visit` returns a file is open, and a handler copies from the file of its own request; so only a copy for an earlier file finds it closed. |
| `WalkTyped` | `Spec => []TypeOK` | A conjunct of `ReplayInv`. |

`SwaggerProofs` (for any number of files, runs and hosts, and any exchanges):

| Theorem | Statement | Argument |
|---|---|---|
| `DocumentIsSum` | `Spec => []SumOfTheRuns` | `Says` is `Documents` with witnesses for the newest entries. One entry more (`OneMore`) changes the sets of entries it belongs to and no others; one lemma for each map of the code shows that merging the entry (`AddsResponse`, `AddsToResponses`, `AddsToMethod`, `AddsToPath`, `AddsToDocument`) says the longer history and that what it is not about (`Same...`) still says what it did. `Summed` then says that the document of a run says what the earlier runs gave and the present one has added (`Past`). |
| `PanicsAreExplained` | `Spec => []PanicExplained` | `NilMaps`: a method whose map of responses is nil was documented by an entry without a response, since the decoder makes nil only what has no key (`DecodedSays`), and `AddPath` makes no nil map (`AddedMaps`); a file without a `FileInfo` is one that vanished. |
| `SwaggerTyped` | `Spec => []TypeOK` | Action by action. `DocumentOK` types the document map by map, so each operator that merges has a lemma of its own for it. |

Assumptions on the constants are those of the modules (`LoggerAssumption`,
`ProxyAssumption`, ...), which the runs evaluate; `ProxyAssumption` includes what the logger
assumes of the constants that it shares. No theorem has a hypothesis of its own. The inductive invariants of `Proxy`, `Bodies` and `Swaggergen` were checked
by TLC on the constants of the runs before they were proved.

Only model-checked: all liveness (`ExportedEventually`,
`CloseDrains`, `HooksReturn`, `ErrorClosesBoth`, `TimeoutCloses`), which is out of the
prover's reach, as is `ENABLED`. `OneLog` and the other strengthenings are only proved: no run
lists them, since the properties are what they are for.

## Where the code and its documentation disagree

Each is a run that is expected to fail with a counterexample:

* `logger_exports` (`ExportsCarryData`): `DataString` is formatted from `Data`, whose
  assignments are commented out (`logger.go:206`, `:213`), so Kafka and Elasticsearch
  receive a lone newline.
* `socket_clone` (`TimeoutCloses`): `Clone` forgets `Timeout` (`socket.go:63`), and
  mitmrelay clones the options of each relay: the documented flag has no effect.
* `replay_dumps` (`DumpsReplayed`): no file that the logger writes can be replayed; the
  first one ends the process. One reason is that the file of an exchange holds the
  request twice: the transaction of the response saves it again (`logger.go:202`), where
  `README.md:201` promises the request followed by the response.
* `proxy_tag` (`TaggedIfEither`): `README.md:223` tags a dump when the request *or* the response
  matches; `proxy.go:297` joins the two with *and*.

Met while modelling, in the behaviours of the runs and among the hazards, but without a run
of their own:

* the error of a start with unusable files says that new certificates are generated
  (`mitm.go:130`); none are, in this start or any later one;
* `visit` closes the file when `Do` returns (`replay.go:140`), while the handler may still copy
  from it (`replay.go:89`): behind a proxy that passes answers on as it receives them the rest of
  a body is lost, where `README.md:248` promises exactly all responses;
* a file with a response alone, which the proxy writes with `-dump-resp` and for each match,
  ends a run of swaggergen in a panic (`swaggergen.go:124`); so does a method that was
  documented before its response arrived (`method.go:28`), and a file that vanishes
  (`swaggergen.go:138`);
* swaggergen opens its output without `O_TRUNC` (`swaggergen.go:89`), so the end of a longer
  text stays behind a shorter document;
* a rewritten request is parsed with the Content-Length of the old one (`proxy.go:339`), which
  cuts a longer body and makes a shorter one fail, where the comment at `proxy.go:203` wants the
  length calculated anew;
* the body in the structured log is often empty, as it is read again when the response is
  logged, and the round trip has usually drained it by then (`userdata.go:71`);
* `br;q=1` survives the filter that removes `br` from `Accept-Encoding` (`proxy.go:253`).

## What is not modelled

* `MatchReplaceResponse` and the body of the response: `ResponseChain` of the library
  keeps a copy of its own. What the bodies say, before and after a replacement.
* The expression language (a filter is a boolean; one that is not is a hazard), formats of exports,
  banner, colours, console output, `config.yaml` (`readFlagsConfig`).
* The rotation over upstream proxies: it is that of the round-robin library, the source
  keeps no state of its own. Retries of the transport shift its count, which the library hides.
* Directories that cannot be read: swaggergen ignores that error as well, and goes on
  without their files (the walk has their `FileInfo`, so nothing is nil).
* martian, the dialers and round-robin library, the clients of Elasticsearch and Kafka, `net` and `os` are
  external: modelled by what the code relies on.
* Half-closed connections in the relay and two processes that start at the same time
  in one configuration directory are listed as hazards without a property.
* The DNS servers, the static pages.

## Plan

In order of importance.

1. The body of the response: `ResponseChain`, `MatchReplaceResponse` and `DumpResponse` in
   the manner of `Bodies`; the client is then the second reader.
2. Files from `Logger` to `Replay` and `Swaggergen`: the `Text` of a file derived from
   `saved["file"]`, `LogFile` from `Save`.
3. Two sessions in `Bodies`, so that the channel holds entries of other requests.
4. Proofs: the promise of `TrafficLog` carried over to `Proxy`.
