# op-alt-da: specification, model checking and proofs

op-alt-da is the Alt-DA server of the OP Stack for Celestia. An op-batcher PUTs
batches, the server submits them as blobs to Celestia and answers with a
commitment; an op-node later GETs the data by that commitment. An optional S3
bucket (the *fallback*) keeps copies. This directory holds TLA+ modules of the
server, TLC configurations that check them on small instances, and TLAPS proofs
for every instance.

`src/` below is the root of the repository. `PROJECT.json` maps every definition
to the lines it models.

## 1. Inventory

| Part | Where | State | Operations | Interacts with |
|---|---|---|---|---|
| HTTP handlers | `celestia_server.go` | none of their own; one goroutine per request | `HandlePut`, `HandleGet`, `getBlob`, `HandleHealth` | store, fallback, wait group, metrics |
| Panic recovery | `celestia_server.go:45` | none | turns a handler's panic into a 500 | handlers |
| Celestia store | `celestia_storage.go` | client, timeouts, blob ID format | `Get`, `Put`, `submitBlob`, `CreateCommitment` | Celestia node (RPC), transaction client |
| Blob ID codec | `celestia_storage.go:41-145, 250` | none | marshal, unmarshal, `parseBlobIDFromCommitment` | store, fallback verification |
| Fallback mode and provider | `fallback/` | mode, availability | `WriteEnabled`, `NormalizeMode`, `Available`, `Put`, `Get` | handlers, writers |
| S3 provider | `fallback/s3/s3.go` | objects under canonical and legacy keys | `Put`, `Get`, key construction | bucket |
| Asynchronous writers | `celestia_server.go:473` (`putFallback`) | `wg` | start in a handler, end on their own | bucket, metrics, `Stop` |
| Metrics | `metrics/metrics.go` | counters, histograms, a gauge | `Record*` | all of the above |
| Start and stop | `celestia_server.go` `Start`, `Stop`; `cmd/daserver/entrypoint.go` | `errCh`, `wg`, servers | listen, serve, signal, shutdown, drain | net/http, handlers, writers |
| Entry point, configuration | `cmd/daserver/` | none after start | read file and flags, validate, build | signer, store, server |
| Signers | `signer/` | configuration | validate, construct keyrings | transaction client |
| Throughput tool | `tests/manual/throughput/` | counts of its requests | PUT, GET, compare | the server |
| External | - | chain, pending transactions, bucket | - | Celestia node and transaction client, net/http, S3 |

What is hard, and what makes each part right:

* **PUT.** `Submit` may fail or time out after the transaction was broadcast, so
  a 500 does not mean "not on Celestia"; with full IDs the blob is fetched back,
  and that call can fail or return nil (a panic) once the blob is included. A
  200 must always name the caller's own blob in its own block.
* **GET.** The answer comes from the node, from a canonical or from a legacy
  object, and the bucket is not trusted. A 200 must carry data of the requested
  commitment, and a reader must never see anything but what the writer wrote.
* **Writers** outlive their request; a PutObject can take effect after its
  writer gave up and after the process died. Objects must be right whatever the
  order.
* **Wait group.** `Add` runs in handlers, `Done` in writers, `Wait` in a third
  goroutine that starts while handlers may still run.
* **Stop.** Three waits with two time limits, against handlers, writers and
  scrapes that may hang. A nil result must mean that nothing was cut off, and a
  signal must stop the process.
* **Names.** Commitments and object names are byte layouts that outlive a
  deployment: the form of blob IDs, the prefix and legacy reads may change under
  a bucket and under clients that keep what they were given. Nothing stored may
  be lost or answered to the wrong commitment for it.
* **Throughput tool.** Its workers share a channel and a collector; requests it gives
  up go on in the server. What it reports must be what happened.
* **Metrics** are recorded at many places by concurrent goroutines; they must
  account for every answer and every writer.
* **Configuration** has four sources (file, flags, environment, defaults), is merged
  twice, and has legacy fields that override newer ones; sizes are multiplied
  without an overflow check. What starts must be what was said and validated.

The complete list of hazards, each at its line and with the properties that
would catch it, is in `PROJECT.json`.

## 2. Modules

| Module | Models |
|---|---|
| `FallbackMode` | `fallback/mode.go`: which modes are valid, which of them write. |
| `CelestiaServer` | The data path: handlers, store, bucket, writers, wait group, chain, crashes; its properties and its inductive invariant. |
| `CelestiaMetrics` | The metric calls of handlers and writers on top of `CelestiaServer`, one by one. |
| `DAService` | Abstract: what clients are promised, with no handlers, bucket or node. |
| `CelestiaServerRefinement` | The mapping under which `CelestiaServer` implements `DAService`. |
| `ServerLifecycle` | Start and stop of the process with connections, handlers, writers, metrics server, waiter. |
| `Startup` | From configuration file, flags and environment to the server that is built. |
| `BlobID` | The blob ID codec and the commitment bytes, with the widths of all fields as parameters. |
| `SharedBucket` | One bucket under many deployments: object names, commitments, the external cache; uses `BlobID` and `FallbackMode`. |
| `ThroughputClient` | The throughput tool, composed with `DAService`. |
| `MCCelestiaServer`, `MCCelestiaMetrics`, `MCServerLifecycle`, `MCStartup`, `MCSharedBucket`, `MCThroughputClient` | Instances for TLC. |
| `CelestiaServerProofs`, `CelestiaMetricsProofs`, `CelestiaServerRefinementProofs` | TLAPS proofs about the data path, its metrics and its refinement; the last two extend the first. |
| `ServerLifecycleProofs`, `StartupProofs`, `SharedBucketProofs`, `ThroughputClientProofs` | TLAPS proofs about the other modules. |

How they fit together: `CelestiaServer` takes a commitment for a record and an
object for something stored under it; `BlobID` and `SharedBucket` show what makes
that right, down to bytes and names. `CelestiaMetrics` adds
the metrics to it, and without them is `CelestiaServer` again. `ServerLifecycle`
takes a handler for something that ends or hangs; `CelestiaServer` shows that it ends. `Startup` shows
which configurations and time limits reach `CelestiaServer`. `ThroughputClient`
relies on `DAService` alone, which `CelestiaServer` implements.

### CelestiaServer

Each request `r` is a program counter `pc[r]` through one handler, and one step
is taken per call that leaves the process or touches shared state:

| `pc` | where the handler is | steps |
|---|---|---|
| `idle` | not received | `PutReject`, `PutAccept`, `GetReject`, `GetAccept` |
| `submit` | in `Client.Submit` | `Broadcast` (the transaction leaves), `SubmitReturn`, `SubmitFail` |
| `refetch` | in `submitBlob`'s `Client.Get` (full IDs) | `RefetchReturn`, `RefetchFail`, `RefetchPanic` |
| `spawn`, `respond` | rest of `HandlePut` | `PutSpawn`, `PutRespond` |
| `fetch` | in `store.Get` | `FetchFound`, `FetchNotFound`, `FetchFail`, `FetchFallback` |
| `canonical`, `legacy` | in the provider's two `GetObject` calls | `...Found`, `CanonicalMissing`, `...Error` |
| `reply` | rest of `HandleGet` | `GetRespond` |
| `failed`, `notfound` | the error path of either handler | `RespondError` |

`data[r]` and `comm[r]` are the handler's variables, `resp[r]` is what the client
received (`"lost"` when it received nothing). `writer[r]` is the `putFallback`
goroutine the request started: `running` until `fallback.Put` returns, `success` or
`error` until the deferred `Done`, then `stored` or `failed`. `s3put[r]` is its
PutObject as the bucket sees it:
`BucketApply` carries it out at any time after it was sent, even after the writer
failed or the process died. `pool` and `included` are the transactions that are
broadcast and those in blocks; `NewBlock` takes any subset of the pool. `config` is
what `NewCelestiaServer` was given, one of `Configs`. `Crash` ends all goroutines,
clears the wait group and chooses `config` again: the next process may
have another mode, another form of blob IDs or no fallback. Chain, bucket and
sent calls stay.

What is abstracted, and why that is enough:

* Data and commitments are atoms. `ShareCommitment` is a function that several
  data may share; only `ReadYourWrite` and `CanonicalNeverChanges` need it to be
  collision free, and their theorems say so. In the runs it is.
* A commitment is (height, share commitment, tail), or `BadKey` for every byte
  string `parseBlobIDFromCommitment` refuses. The tail is the location a full ID
  carries; the server passes only height and commitment to the node, so the tail
  only tells objects in the bucket apart.
* A node's answer to `Get` is the blob or one of four failures: an error that
  says the blob is missing, an error that merely contains "not found", any other
  error (timeouts included), and nil without an error. Errors that say the blob
  is missing occur for published blobs only when `NodeMayMiss`.
* With `BucketTrusted` false the bucket answers anything at all. With
  `BucketTrusted` it answers what was stored, or an error, and its legacy objects
  are published blobs.
* Sizes, durations, log lines, headers and `HandleHealth` are left out; metrics are
  in the next module.

Assumed of the outside: a node that returns a blob returns one in the block of
that height with that commitment; blocks are final; a broadcast transaction is
included at most once. A client repeats a PUT as a new request, so duplicates of
the same data in several blocks are in the model.

### CelestiaMetrics

Every Prometheus metric is atomic and no two are updated together, so each call of
`metrics.go` is a step: `HandlerRecords` and `WriterRecords` make the next call of
the sequence that belongs to the place where a handler or writer is
(`HandlerCalls`, `WriterCalls`, in the order of the code), and a step of the data
path waits until the calls before it are made. `counted[r]` holds the calls made for
request `r`, which tells where its goroutines are between their calls; `metrics`
is what a scrape reads. A scrape, another goroutine, a block or a crash may come
between any two calls. Counters and histograms are numbers of updates, and
`inclusionHeight` is the gauge. A panic in `submitBlob` records nothing.

### ServerLifecycle

`main` is where `StartDAServer` is: `init`, `starting` (the 10 ms select of
`Start`), `waiting` (for a signal), `shutdown`, `metrics` and `drain` (the three
waits of `Stop`), `exited`. Beside it run `Serve`, the metrics server, the
connections, the writers and the waiter of `wg`. `Shutdown` is external: it stops
accepting, closes connections whose handler has not started, and returns nil only
when no connection is left. A handler of a connection accepted earlier may still
start meanwhile. Timers are nondeterministic: an expiry may always come first.
`StartCancellable` lets `Start`'s context end; in the daemon it never does, since
`main` installs the signal waiter without cancelling the context.

### BlobID and SharedBucket

`BlobID` translates the codec: `MarshalBinary`, `UnmarshalBinary` and
`parseBlobIDFromCommitment` as operators on sequences of bytes. An integer is the
string of its bytes, so byte order and the conversion of an `int` to 32 bits are
in the model and nothing depends on 64-bit arithmetic.

`SharedBucket` is about what survives a redeployment. `deployment` is the
configuration the server runs under, replaced at any time by `Redeploy`; `chain`
holds the blobs, `given` the commitments PUTs returned, `writes` the PutObjects
that are under way, `objects` the bucket, `get` the GET that is at the fallback.
`stored` and `cached` are history. Object names are pairs of a cleaned prefix and
bytes, a hash (`makeKey`) or the forked version byte and the blob ID
(`makeReadOnlyLegacyDerivationKey`). An external cache writes legacy objects of
blobs on the chain (`CacheWrites`). With a full ID the location is that of any
blob the node finds at the height under the share commitment, since nothing else
identifies it; `LowOrder` cuts it to its width, as Go's conversion does, so the
index -1 is a case. Requests are single steps here; their interleavings belong to
`CelestiaServer`. Assumed: Keccak-256 has no collisions among the keys considered
and yields fewer bytes than a legacy name has (32 against at least 41); the cache
stores blobs of the chain.

### ThroughputClient

`pc[w]` follows a worker: `select`, `put` and `get` (waiting for an answer),
`failed` (the result was added and not yet counted), `add`, `returned`. `task[w]`
is the `BlobResult` it fills, `queue` the channel, `counters` and `results` the
collector, `report` what main printed. The service is an instance of `DAService`
with a request per blob and method, so answers come at any time, also after the
tool gave the request up, and never have to come. `PutError` and `GetError` stand
for every status but 200, the HTTP timeout, an interrupt and a broken connection.
`StartWorker` keeps the code's `break`, which leaves the `select` and not the loop
(`concurrent_throughput.go:521`): workers start after an interrupt too. Sizes,
latencies and printing are left out, and the progress reporter, which only reads;
so is the failure of `rand.Read`, which does not return errors. `ToolInv` follows a
blob number from the channel through worker and service into results and counters.

### Startup

`phase` follows `StartDAServer`: `editing` (the operator, before the launch), then
`built` (`BuildConfigFromCLI` returned), `validated` (validation passed and the
Celestia configuration chosen), `store` (`NewCelestiaStore` returned), and
`started` or `failed`. An operator starts from nothing or from one of
`BaseFiles` and changes single settings of the file, the flags or
`POPSIGNER_API_KEY`, so every configuration within `MaxEdits` changes of a
starting point is launched.

A configuration is a function from field names to strings; a file or a set of
flags is such a function on some of the fields, and `Override` is what a decoder
or an `if ctx.IsSet` does. The two derivations of a signer (`buildSignerConfig` of
the configuration and of the flags), the validations, the second merge by
`firstNonEmpty` in the entry point and the constructors' checks are written out
as they are. Calls of external libraries that may fail (`ClientFails`,
`AWSConfigFails`) are steps of their own. `KeyringBackends` are the names of backends
that the Cosmos SDK knows; `NewLocalKeyring` passes the setting on to it
(`signer/local.go:22`), and validation does not look at it. What `keyring.New` itself may refuse, for instance a directory it
cannot read, is a `ClientFails`. `FlagsReplaceFile` is the condition of
`entrypoint.go:92` under which the flags replace all Celestia settings of the file. A
namespace may be missing, no 29 bytes in hex, or 29 bytes that `NewNamespaceFromBytes` refuses after validation passed. `server` records the fallback, the
namespace, the form of blob IDs and the time limits the server is built with.

`Text` is what a setting may be, any string; `FileSettings` and `FlagSettings` are
the pairs of field and value an operator may write. `DurationFlagAssumption` says
what the cli library does with `--fallback.s3.timeout`: a flag that is no duration
ends the program before `StartDAServer`. `MergedConfig`, `ChosenConfig` and
`BuiltServer` are what the three stages compute from the inputs; the actions
assign them.

Abstracted: a value is kept as far as it is compared (`"bad"` does not parse,
`"0s"` is a duration of zero); `limits` stands for the HTTP timeouts, blob size
and priority, which are only checked; the expansion of `~` and fields that no
check or choice depends on are left out. `server` keeps what the properties ask
of the result.

## 3. Runs

| Run | Instance | Question |
|---|---|---|
| `server_concurrent` | 3 requests, 2 data, 2 blocks, untrusted bucket, compact IDs | Do confirmations, verification, bucket and wait group hold in every interleaving? |
| `server_full_ids_crash` | 2 requests, 2 data, 2 blocks, 1 crash, trusted bucket; full IDs in mode both and compact IDs in write_through, either before and after the crash; metrics that may be read between any two calls | Are full IDs complete, do the inductive invariants hold, is only published data served, is `DAService` implemented? What may be concluded from the metrics while requests run, and once they have ended? |
| `server_live` | 2 requests, 1 block, 1 crash; a fallback in write_through with legacy reads, and no fallback with full IDs | Does every request and every writer end? |
| `lifecycle` | 3 connections | What does a nil `Stop` mean, and does a signal stop the process? |
| `startup` | 3 changes, two values or more for each setting | Is what starts what was said and validated? |
| `identifiers` | 3 blobs (two alike in one block), 3 deployments, 3 spellings of 2 prefixes, 6 commitments asked for; 2 commitments given, 1 fallback write, 1 cached object | Do commitments and names hold across deployments? |
| `throughput` | 2 workers, 2 blobs, 2 data, 2 blocks, an interrupt | Is what the tool reports what the service did, and does the tool end? |
| `doc_*` | 2 requests, 2 connections, or 1 or 2 changes | Five statements of documents and comments that the code does not keep, each refuted (section 5). |

Properties, beside one `TypeOK` per module:

* `PutConfirmed`, `GetIntegrity`, `ReadYourWrite`, `ServedIsPublished`: what a 200
  means to the client that gets it.
* `FallbackSound`, `CanonicalNeverChanges`: what the bucket holds, whatever order
  PutObjects of PUTs, GETs and dead processes take effect in.
* `WaitGroupCountsWriters`: the wait group counts the goroutines between `Add` and
  `Done`.
* `CountersAgree`: whenever a scrape comes, no answer and no started write is missing
  from the counters, a total never exceeds what it sums up, and the gauge is a
  height of a counted PUT. These are inequalities, since the metrics of one request
  are updated one after the other.
* `WritesCounted`, `RequestsCounted`: the equalities hold where the code's order
  gives them, for writes whenever the wait group is at zero, for requests whenever
  no handler runs. A PUT that panicked in `submitBlob` is counted nowhere.
* `ImplementsDAService`: refinement of the abstract service. A crash maps to the
  failure of all requests in flight, a block to a publication, the last step of a
  handler to its answer; the rest is invisible.
* `StopNilMeansDrained`, `NoAddAfterCleanShutdown`: after a clean `Shutdown` no
  writer is added, so a nil `Stop` lost nothing.
* `SubmitsAsConfigured`: a server whose configuration names a consensus endpoint
  signs with the signer of that configuration, and never with one that was not
  validated, unless the flags replace the file (`FlagsReplaceFile`): there it may be
  built without a signer, which `doc_consensus_endpoint` shows.
* `KeyringOfValidConfig`: the keyring's constructors ask nothing that validation
  did not, with two exceptions, both of local keyrings: a key name when the mode is
  explicitly empty, where `signer/config.go:175` checks the path only, and the
  name of the backend, which only the keyring opened at `signer/local.go:28` looks
  at. Both let the start
  fail after validation passed.
* `FallbackFollowsOperator`: merging file, flags and defaults twice still gives
  the fallback the operator asked for: mode, bucket, prefix, legacy reads.
* `CelestiaFollowsOperator`: blobs go to the namespace the operator said even where
  an empty `bridge_addr` makes the flags replace the whole Celestia configuration.
  The form of commitments follows the operator too, but for that case: there the
  file's `blobid_compact` is dropped.
* `TimersSet`: no call of a started server has a zero or unparsed time limit; the
  fairness of `CelestiaServer` rests on it. The entry point drops the error of
  `GetS3Timeout`, so this needs the default of the provider's constructor.
  Negative limits are accepted, and calls with them fail at once.
* `RequestsEnd`, `WritersEnd`, `InterruptStops`: liveness.
* `CommitmentsDecode`: every commitment ever returned parses under every later
  deployment to height, share commitment and location of its blob.
* `ServedIsNamed`: whatever bytes a client asks with (cut, extended, of another
  type), a GET is answered with a blob published at the height its key names.
* `StoredIsFound`, `LegacyIsFound`: what a deployment stored, and what the external
  cache stored, is found by every later deployment with the same prefix, however
  it spells it and whichever form of IDs it returns.
* `LegacyReadOnly`: no write of the server falls on a name the cache uses.
* `EachBlobOnce`, `SuccessIsPublished`, `NoMismatch`, `ReportAgrees`, `ToolEnds`: each
  blob number yields one result; a success is the blob's own publication; data
  never differ; counters and printed results agree although they are updated
  apart; and the tool ends whatever the service does.
* `ServerInv`, `MetricsInv`, `BucketInv`: inductive invariants of the proofs. Those of the
  other proofs, `StopInv`, `ToolInv` and `StartInv`, are only proved.

Bounds. Two requests already give a PUT with its GET, two PUTs of the same data
and a writer racing another; the third request in `server_concurrent` adds a GET
beside two PUTs that end in either order, with symmetry in requests and data. Two
blocks give a blob included later than a newer one, and one commitment at two
heights. One crash gives a bucket and a chain that an earlier process, with another
configuration, left behind, with its PutObjects still under way. One
location suffices for full IDs: a reader may ask with it or without, so keys of one blob
that differ in their tail only are in the run. Requests
are served once, so retries are other requests. The proofs remove all of these
bounds, for the safety properties and the refinement; only liveness stays bounded,
and for the server to the two configurations of `server_live` and the change from
either to the other.
Three
changes reach every pair of settings that override one another, and each switch
together with the two settings it needs (a mode with its key and its region); the
values are one good, one empty and one wrong one where the code tells them apart.
In `identifiers` bytes are 0 to 4, heights and ints have two bytes and the other
fields one: enough for a height that another one becomes when read backwards, an
int that does not fit, and compact, full, cut and extended keys of all lengths in
between. One write and one cached object suffice to meet each other and a reader;
two commitments allow the same blob to be named twice. That a second write leaves
the first one's object alone is beyond this run: `CanonicalNeverChanges` checks it in
`server_concurrent`, and `StoredAlwaysFound` proves it for any number of writes. Two workers and two blobs
give every race for the channel and the collector; with three blobs in one block
the same properties hold too.

Fairness. Only steps of handlers and writers are weakly fair in `CelestiaServer`:
`submitTimeout`, `getTimeout` and the provider's timeout give every call a
context, so each returns. Nothing is assumed of the node, the bucket or clients.
In `ThroughputClient` the goroutines run and every request ends: the HTTP client
has a timeout unless the operator passes `-timeout 0`. The service need not do
anything. In `ServerLifecycle` only the main goroutine is fair, since all its waits but the
one for a signal have a timer; handlers, writers and scrapes may hang. Liveness is
checked without symmetry. Deadlock is checked everywhere but in `throughput`, where
the tool ends and the service may have nothing left to do; elsewhere the end of all
requests and the exit of the process are steps that change nothing.

## 4. Proofs

Every safety property and action property the passing runs check is proved, and
the refinement of `DAService`: for every finite set of requests or connections, any
number of workers, blobs, crashes and edits, all data, all sets of configurations,
settings and deployments, and all widths of a blob ID's fields.

| Module | Theorems |
|---|---|
| `CelestiaServerProofs` | `Invariance`, `TypeCorrect`, `PutsAreConfirmed`, `GetsAreVerified`, `ReadsSeeWrites`, `ServedArePublished`, `FallbackIsSound`, `WaitGroupIsExact`, `ObjectsNeverChange` |
| `CelestiaMetricsProofs` | `MetricsInvariance`, `CountersAgreeAlways`, `WritesCountedAlways`, `RequestsCountedAlways` |
| `CelestiaServerRefinementProofs` | `Refinement` |
| `ServerLifecycleProofs` | `Invariance`, `TypeCorrect`, `NilMeansDrained`, `NothingAdded` |
| `SharedBucketProofs` | `RoundTrip`, `Invariance`, `TypeCorrect`, `CommitmentsAlwaysDecode`, `AnswersAreNamed`, `StoredAlwaysFound`, `CachedAlwaysFound`, `LegacyNamesReadOnly` |
| `StartupProofs` | `TypeCorrect`, `SubmissionConfigured`, `KeyringsAgree`, `FallbackAsSaid`, `CelestiaAsSaid`, `TimersNonZero` |
| `ThroughputClientProofs` | `Invariance`, `TypeCorrect`, `NumbersOnce`, `SuccessPublished`, `Matching`, `ReportExact` |

They rest on the `ASSUME`s of the modules: types of the constants, distinct model
values, finite sets. Beyond that:

* `ReadsSeeWrites` and `ObjectsNeverChange` have `CollisionFree` as a hypothesis,
  and `ThroughputAssumption` says the same of the tool's random payloads, without
  which two blobs could share a commitment; the names of objects need
  `HashAssumption`.
* `NumbersOnce` has the hypothesis `ConcurrentPuts > 0`. The tool does not validate
  its flag `-workers`: with 0 it starts no worker, sends nothing and prints zeros,
  and then not every blob has a result.
* `TimersNonZero` needs `DurationFlagAssumption`. Without it the merge of the flags
  could give a timeout that does not parse.

The argument for the data path. None of the properties is inductive: whether a GET
may serve an object depends on how the object came into the bucket. `ServerInv`
follows a commitment along that way. `RequestOK(r)` says that a handler past
`Submit` holds the commitment of its own blob at its own height, that a handler
about to reply to a GET holds data of the requested commitment, and that a
PutObject is only sent by such handlers; `StoreOK` says that what a PutObject
carries, and every object, is on the chain; `ServedOK` that what a handler serves
from a trusted bucket is too. `ChainGrows` shows that no step takes a blob off the
chain, so facts about the chain survive (`OnChainStable`); the other lemmas take
the parts of `ServerInv` one by one, and the wait group by adding or removing one
element of the set of running writers.

The argument for the stop. `StopInv` is a chain of three facts: once `Stop` began
no connection is accepted; so none is left after a clean `Shutdown`; so no handler
can add to the wait group any more, and the waiter's "done" stays true until the
process exits.

The argument for the bucket. `RoundTrip` computes the sequence a blob ID is encoded
to and cuts it up again; from it, what a returned commitment parses to never
depends on the deployment. `BucketInv` then says where everything comes from: a
commitment from a blob of the chain, a write from a blob its key names and under
the name of its key, an object from a write or from the cache. A reader is served
only what its own key verifies, whatever lies under the name; and a canonical name
is a hash, hence too short to be a legacy one, so neither kind of object replaces
the other, and an object under a canonical name comes from a write with the same
key.

The argument for the metrics. A metric call changes nothing of the data path
(`RecordingIsInvisible`), so `ServerInv` holds here as proved there. `MetricsInv` then
says two things. Each counter is the number of requests it was called for
(`CountsRequests`; `RecordCounts` adds one member to that set). And where a request's
handler and writer are tells which calls were made for it: the first few of
the sequence at its place while it is there (`InOrder`), all of the sequence it went
through once it has gone on. The properties follow by comparing sets of requests: a
call is made only after those before it, so the sets are nested, which gives the
inequalities (`FewerThan`, `MoreThan`, `AtMostBoth`); where no handler runs, or no
writer, the sets are equal. Nothing is claimed of a process that has crashed before,
since its counters start from zero and its clients' answers do not.

The argument for the refinement. What a client observes of a request is its input
and its outcome (`SameInput`, `SameOutcome`). Three lemmas turn that into a step of
`DAService`: nothing observable changed; some requests without an outcome failed;
one request was answered. Each action of the server is then one of these, `NewBlock`
is `Publish`, and `Crash` fails everything in flight at once. That an answer is one
the abstract service may give is where `ServerInv` is needed: `RequestOK` and `ServedOK`
say of a handler that is about to reply what `Confirm` and `Serve` demand.

The argument for the start. No step after `editing` changes the inputs, so the lemma
`Invariance` can say of each phase that `cfg`, `rpc` and `server` are what the stages before it
compute from them (`ConfigOK`, `ChoiceOK`, `ServerOK`), from a configuration that
passed validation. The properties are then facts about functions: what a merged
field is when the file, the flags or neither set it, and what is left of it when
the entry point merges a second time.

The argument for the tool. `ServiceOK` is what `DAService` promises of the requests
in flight, and `ServiceKept` that no step withdraws it: a publication, once made,
stays. `QueueOK` says that the channel holds the numbers after `Handed`, of which
the service never heard; `WorkerOK` ties a worker's task to its two requests;
`ResultsOK` says that each number handed out is with exactly one worker or in
exactly one result. `CountersOK` corrects each counter by the workers that are
between their two updates, so the counters agree with the results when nobody is.
They are invariant together: a result that is added moves its number from one
set to the other and its worker past an update, in a single step.

Only model-checked: the liveness properties `RequestsEnd`, `WritersEnd`,
`InterruptStops` and `ToolEnds`, which TLAPS does not prove under fairness; and the
`doc_*` runs, which show a counterexample.

## 5. Where documents and code differ

* `doc_not_found`. `API.md:112` says that 404 means the blob does not exist;
  `isBlobNotFoundError` (`celestia_storage.go:312`) takes any error whose text
  contains "not found" for that.
* `doc_inclusion_height`. `metrics/metrics.go:53` describes the gauge as the latest
  inclusion height; concurrent PUTs may set it back.
* `doc_consensus_endpoint`. `config.go:49` calls the core gRPC settings those "for
  submitting blobs to consensus", and `entrypoint.go:93` takes the flags "if TOML
  didn't provide celestia settings". The `if` asks for an empty `bridge_addr` only:
  with a namespace or a token among the flags, a file with `bridge_addr = ""` and
  a validated endpoint and signer starts a server that submits through the bridge
  node. It is the one case that `SubmitsAsConfigured` leaves out.
* `doc_completed`. `celestia_server.go:521` logs that all pending fallback
  operations completed; after a `Shutdown` that timed out, a handler may add a
  writer when `Wait` has already returned, and the exit cuts it off.
* `doc_signer_section`. `config.go:272` migrates legacy signer fields "if they are
  set"; `DefaultConfig` gives `default_key_name` a value (`config.go:167`), so the
  `if` at `config.go:303` is always taken and `signer.local.key_name` of a file has
  no effect unless the file empties the legacy field. `keyring_backend` hides
  `backend_name` in the same way.

Met while modelling, without a run of their own:

* `README.md:253` promises the fallback when a blob is not found in Celestia;
  `getBlob` (`celestia_server.go:292`) answers 404 at once and only reads the
  fallback after other errors (`FetchNotFound`, `FetchFallback`), so a pruned blob is
  not recovered. The code means it so:
  `TestGetBlob_DoesNotUseFallbackOnCelestiaNotFound`
  (`celestia_server_test.go:322`) asserts it, and it is the README that is wrong.
* `config.toml.example:173-174` makes reads from the fallback the business of
  `read_fallback` and `both`; `getBlob` (`celestia_server.go:297`) never asks the
  mode, so a `write_through` server reads the fallback too.
* `API.md:95-99` lists commitments without the version bytes as accepted;
  `parseBlobIDFromCommitment` refuses them and the answer is a 500. The fallback
  cannot answer either, since verification parses the key again (`Parses` in
  `verifyFallbackCommitment`). A commitment that is too short is a 500, not the 400
  of the table below.
* `API.md` allows commitments without `0x`; `hexutil.Decode` requires it, and the
  answer is 400.
* `POPSIGNER_API_KEY` is a source of a flag, so it beats the API key in the file,
  though `ResolveAPIKey` (`signer/config.go`) calls the environment a fallback.
* The throughput tool prints "All blobs verified successfully"
  (`concurrent_throughput.go:672`) when no GET failed and one succeeded, even if PUTs
  failed or an interrupt left blobs untried. `ReportAgrees` is about the counts,
  which are right.

## 6. Not modelled, and the plan

Not modelled: what RPC clients, transaction clients and keyrings do with their
settings (external libraries); `HandleHealth`, response headers, logging; the
arithmetic of size limits (`parseByteSize` multiplies in `int64` and may wrap, and
negative limits pass; neither code nor documents say what should hold, and
`max_blob_size` only reaches `http.MaxBytesReader`, where such a limit answers every
PUT with 413); the expansion of `~`; the tool's latency statistics and its printing;
tests and benchmarks, which are read as statements of intent.

Known and covered by no property: a `Serve` that fails later leaves a process that
serves nothing; a `Start` that fails after connections were accepted ends them with
the process, since `Stop` is not deferred yet; which API key was meant when file
and environment both give one.

Next:

1. The abstract safety of `DAService` by itself, from which the client side of
   `CelestiaServer` and `ThroughputClient` would follow by refinement: that a
   confirmed blob stays published where its commitment says, and that what is
   served is what is named. Both are proved today on each side.
2. One set of lemmas for what several proof modules state each in their own words: how the cardinality
   of a filtered set changes when one member changes, in `CelestiaServerProofs`,
   `CelestiaMetricsProofs`, `ServerLifecycleProofs` and `ThroughputClientProofs`.
