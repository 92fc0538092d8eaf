# picsum-photos: TLA+ models and proofs

This directory models what picsum-photos does under concurrency and failure, from the HTTP
handlers down to the files, rows and caches they share: the worker queue, the image handler with its
cache and request coalescing, the rendering pipeline over the source image cache, the
resolution of seeds, the catalog of rows and files, tags and merges, sessions, logins and API
keys, the public API's paging and redirects, and the health checker. The modules are translated from
the Go source under `src/`; `PROJECT.json` maps each definition to the lines it stands for. TLC
checks small instances of every module, and TLAPS proves the safety properties of all of them for
every value of the constants.

## 1. The system

Two programs share one repository.

`picsum-photos` (`cmd/picsum-photos/main.go`) answers the public API, the upload API and the
admin panel, keeps its metadata in PostgreSQL and serves images as well. `image-service`
(`cmd/image-service/main.go`) serves images only and has no database. Both read source images from
a storage (local files, or SFTP in the first) and render them with libvips.

| component | state | operations | depends on |
|---|---|---|---|
| worker queue `internal/queue` | buffered channel, `workers * 64` slots; the queue's context | `Process`, `worker`, `Run` | the handler it is given (libvips) |
| image service `internal/imageapi` | LRU cache of rendered images, map of in-flight keys with their done channels | `imageHandler` | image processor, HMAC |
| image processor `internal/image/vips` | none of its own | `ProcessImage`, the queue's handler | queue, source cache |
| source image cache `internal/cache` | memory provider (map under an RWMutex), singleflight group | `Auto.Get` | storage |
| storage `internal/storage` | files named id and extension | `Get`, `PutWithExt`, `Delete` | disk or SFTP server |
| image database `internal/database/postgres` | tables images, seed_resolutions, tag_registry, tag aliases, API keys | reads, seed resolution, tag resolution, keys | PostgreSQL |
| public API `internal/api` | none | redirects to signed image URLs, lists with paging, info | database, HMAC |
| upload API `internal/uploadapi` | none | fetch, decode, store file, store row | storage, database |
| admin panel `internal/admin` | one session token per process | upload, edit, delete, merge, tags, seeds, keys, deduplication | storage, database |
| admin login (`admin.go`, `oidc.go`) | cookies for state, nonce, id token and session | login, callback, logout | the OIDC provider |
| health checker `internal/health` | the last status | `Run`, `runCheck`, `check` | database, cache, storage |
| HTTP middleware `internal/handler` | none | recovery of panics, logging, metrics, timeouts | |

How they meet:

- A request for an image goes through `imageHandler`: cache, in-flight map, `ProcessImage`,
  which enqueues on the worker queue; a worker reads the source through `Auto.Get` and renders.
  Three layers share work of different requests (in-flight map, queue, singleflight), each with
  its own idea of who waits for whom and whose context counts.
- A request with a seed goes to `GetRandomWithSeedAndTag`, which reads and writes
  `seed_resolutions` in separate statements while admins upload, edit, delete and merge.
- `http.TimeoutHandler` (`imageapi/api.go:94`) ends every image request's context; the shutdown
  signal ends the queue's context at the moment it tells the HTTP server to drain.

What is hard here, and what makes each component correct:

- *Queue.* Callers give up, workers stop and the channel is closed at any moment. No job may be
  lost or answered twice, no worker may block on a caller that is gone, and nothing should be
  rendered for a dead caller.
- *Image service.* One leader per key; its followers must be released whatever becomes of it; a
  done channel must be closed exactly once and the map entry deleted by its owner only.
- *Seed resolution.* A seed must keep its image; rows must name images that exist; a merge must
  carry every resolution over to the winner.
- *Source cache.* One load per key; a late `Set` must not put older contents over newer ones.
- *Health checker.* Checks that are given up live on; their late answers must not become the
  status; an outage must be reported.
- *Catalog.* Files and rows are changed in separate steps without a transaction around both, ids
  are handed out before rows exist, and one id may have files with several extensions. A row must
  have a file; a failed or finished request must leave nothing behind; an upload with an assigned
  id must not replace anything.
- *Tags.* A tag is resolved in two statements outside the one that stores it; a merge locks rows and
  holds a pool connection while it asks for more. No connection or lock may be lost, and a merge
  must keep the tags of what it merges.
- *Image processor.* Every libvips call may fail with an image in hand; each image must be
  released once. What it renders may be old by the time it is kept.
- *Access.* State, nonce and code must belong to the browser that comes back, with several tabs,
  repeated callbacks and restarts; a key that was shown must work.
- *Public API.* Paging is by offset over a list that changes; a redirect is parsed again by
  another service, which must understand it as the client meant it.

`PROJECT.json` lists every hazard at its line, with the properties that cover it or why none does.

## 2. Modules

| module | models | state |
|---|---|---|
| `WorkerQueue` | `queue/queue.go` | `buffer` is the channel, `result[r]` the one-slot result channel of call `r`, `caller`, `wstate`, `held` where callers and workers are, `ctxDone` the requests' contexts, `qDone`/`closed` the shutdown |
| `JobService` | what the queue promises its callers | `reply[r]`, `work[r]` |
| `ImageCoalescing` | `imageapi/image.go` `imageHandler` | `lru` (`a.imageCache`), `inflight` (the `sync.Map`), `doneClosed`, and per request `pc`, `loaded`, `waitsOn`, `outcome` |
| `SourceCache` | `cache/cache.go`, `cache/memory/memory.go`, `image/cache.go`, with the storage's files and singleflight | `file`, `cache`, `flight`, per caller `pc`, `key`, `data`; history `seen`, `floor` |
| `ImagePipeline` | `image/vips/vips.go` and `vips/vips.go` over `SourceCache`, and what `imageHandler` keeps of the result | those of `SourceCache`; `rendered` (the LRU cache), and per worker `stage`, `variant`, `source`, `live` (libvips images it holds) |
| `SeedResolution` | `database/postgres/postgres.go` `GetRandomWithSeedAndTag` and the handlers of `admin/admin.go` that touch images, tags and resolutions | tables `alive`, `tags`, `row`; per call `pc`, `slot`, `img`, `effective`; the `merge` transaction |
| `SeedAgreement` | the same calls while the catalog stays as it is | those of `SeedResolution`; history `doubt` |
| `Catalog` | uploads of `uploadapi/uploadapi.go` and `admin/admin.go`, deletes, merges, `NextID`, both storages | `row[id]`, `file[id][ext]`; per request `pc`, `req`, `target`, `todo`; `faults`; history `clashed` |
| `ImageStore` | what the catalog promises its clients | `meta[i]` and `shown[i]`, the uploads that image `i` is described as and shown from, `half[i]` who is replacing it; `lost`, `failed` |
| `Tags` | the tag registry and `ResolveTags` of `postgres.go`, with the uploads, edits and merges that store tags | `registry`, `alive`, `tags`, `conns` (the pool), `lock`; per call `pc`, `image`, `losers`, `unread`, `todo`, `tag`, `done`; history `meant`, `doubt`, `edited` |
| `Access` | `admin/oidc.go`, the sessions and keys of `admin/admin.go`, `api_keys` of `postgres.go`, authentication of `uploadapi.go` | `config`, `password`, `boot`, `asked`, `epoch`, `oidc`; the browsers' cookies; the provider's `starter`, `last`, `exchanged`; callbacks `cb`, admin requests `op`, keys; history `earned`, `accepted`, `dropped`, `refused` |
| `PublicApi` | `api/list.go`, `api/image.go`, `api/params.go`, `params/params.go`, and `imageapi` parsing what it is redirected to | `alive`, `walk` along the Link headers, `visit`: a request, its redirect and what comes of it; history `stable`, `up`, `down` |
| `Health` | `health/health.go` with the Postgres provider's `GetRandom` | `cond` of the dependencies, `runner`, `cur`, per check `pos`, `asking`, `verdict`, `channel`, `expired`; `status`; history `met`, `behind` |
| `MC*` | instances for TLC | symmetry, the pick function, rows, inputs and requests that are looked at |
| `*_proofs` | theorems | |

Each action is one step that other goroutines, or other sessions of the database, can come
between: a channel operation, a map or cache access, an SQL statement, a file, a question to a
dependency. Definitions whose comment begins "Mutant of" are plausible bugs in the definition
that follows; no specification uses them. They show that each property can fail.

How the modules meet: `ImagePipeline` extends `SourceCache`, takes its steps (its own specification
is `PipelineSpec`), and is shown to implement its specification `Spec`. `WorkerQueue` implements
`JobService`, `Catalog` implements `ImageStore`, and `ImageCoalescing` uses a processor that does
what `JobService`, or the panic seen in `WorkerQueue`, allows. `Catalog`, `Tags` and
`SeedResolution` are three views of the same admin handlers: files and rows; tags, locks and
connections; rows and resolutions. Each has the whole handler as far as its own state goes, so that
the three together cover `handleMerge` without one state space that multiplies all of it.

### WorkerQueue

A request `r` is one call of `Process` with its job. `Call` is the check of `q.ctx`, `Send`,
`SendOnClosed`, `SendShutdown`, `SendCancelled`, `SendFull` are the cases of the first select,
`Receive` and `Abandon` those of the second. A Go select takes any ready case, and `default` only
when none is ready. A send on a closed channel *is* a ready case; taking it panics. `Take`,
`TakeClosed`, `StopWorker`, `Skip`, `Start`, `Finish` are a worker's loop, `Shutdown` and `Close`
are the signal and `Run`.

`ImplementsService` is the refinement: `JobService` under `reply <- ReplyOf(caller)` and
`work <- Work`, where `Work(r)` is found in the channel, the workers or the result channel.

### ImageCoalescing

The processor is its contract: an image, an error, `ErrQueueFull`, or, once the queue is shut
down, a panic (`WorkerQueue` shows that it can). `Claim` and `Follow` are the two results of
`LoadOrStore`. A follower that wakes and misses (`Recheck`) processes the image on its own, with
`loaded` still true, so it skips the clean-up. `ProcessPanics` leaves without the clean-up, as
the handler has no defer: its entry stays in the map for good.

### SeedResolution

A slot is a pair of seed and tag. Every SQL statement of a call is an action: the lookup of the
row, the fetch of the image, the pool query with its pick, the count that finds out whether the
pick fell back, the store, and the second store under the requested tag. `Pick` is a constant
operator: proofs need only that it picks a member; TLC is given an index that depends on seed and
pool size, as `rand.New(rand.NewSource(seed))` does. `QueryFails` is what each statement does with
an error; `PoolCut` is the pool query that breaks while its rows are read: `rows.Err` is never asked, so
the pick is made from the rows that came (`Prefixes`: for proofs any set of subsets of the pool), and it is
stored. The merge is a transaction: `MergeBegin` reads, `MergeRewrite` locks the rows it finds,
`MergeCommit` deletes the losers (with `ON DELETE SET NULL`) and publishes, `MergeRollback` is the
deferred rollback. `Locked` and `ImageLocked` keep other sessions off the rows the merge holds.

`TaggedSeedsStick` says what alone may move a settled seed: the deletion of its own image, a clear of its
own slot, a failure to read it, or a merge of its image, and then the slot is the winner's if the merge
found it. What is done to other images and slots is no excuse.

`SeedAgreement` is the specification while no admin touches the catalog (`QuietSpec`), though seeds may be
cleared and queries fail. `doubt` are the slots two calls need not agree on: those a pool was cut
short for, and the slot of the empty tag where a count failed, as that makes the answer for a tag the one
of the seed alone. `Steady` are the others.

### SourceCache

File contents are numbered by the changes so far, so "older" is a comparison. `Do` is
`singleflight.Group.Do` (external): it leads or joins; `Land` ends the flight and gives its result
to all who joined. The Set comes inside the flight, which is what the ordering properties rest on.
A load may read a file that is being written (`Truncate`, then `Fill`).

### Health

`StartCheck` is a tick. The first tick comes 10 seconds after the initial check, whose deadline
is 8 seconds, so rounds do not overlap although the initial one has a goroutine of its own; but a check
that was given up goes on, and `Checks` bounds how many exist at once. `Ask`/`GiveUp` is the test
of `ctx.Err()` before a question, `Answer` the dependency's answer, `Send` the end. `Expire`
happens only while the current check waits for something that hangs. `met` records
which condition each dependency was in when it answered a check, and `behind` what the check of the round had
met by the time the status was published: a verdict published from any other check shows (`PublishLate`).

### ImagePipeline

A variant is the set of effects a request asks for. `Miss` is a request whose variant is not
in the LRU cache and whose task reached a worker; `GetOn` and `GetReturns` are the steps of
`SourceCache`; then come the libvips calls in `taskProcessor`'s order: `Resize`, or `LoadFrames`
and `Thumbnail` for a GIF, `Blur`, `Grayscale`, `Save`. Each may fail; `live` is what the worker has
yet to release. `Add` puts the result into the LRU cache, unless its request is gone. `Evict` is the
expiry (`imageCacheTTL`, 10 minutes) or the cache's limit. Contents have the number of the source
they were rendered from, so freshness of all three layers (file, source cache, LRU cache) is compared.

### Catalog

`ApiUpload`, `AdminUpload` and `UploadAuto` are the three ways to upload: with an id whose known
extension is dropped (`finishUpload`), with an id as it was typed (`handleUpload`), with an id
`AssignId` takes from `NextID`. `WriteFile` then `StoreRow`, `StoreFails` or `StoreUnheard`, then after an
error `CleanUp`, which removes the file just written. `StoreUnheard` is an `INSERT` that was applied although
`Exec` returned an error (the client left, the connection broke): the handler cannot tell, and removes the file
of a row that is there. `RemoveUnheard` is the same of a delete or a merge's commit: the files stay.
A statement that the server applies only after its handler has gone on is left out. `DeleteRow` and `MergeCommit` remove rows first; `Unlink` removes the
files one extension at a time, and does not notice failures. `Fault` guards every step that may
fail, `Crash` ends all requests in progress. `Served` is what readers find: the first extension in
their order. `Sftp` chooses the storage: SFTP normalises names when it writes, the directory
does not.

`clashed` names the cases in which the code gives no guarantee, each at its place: two requests busy with
one id, an id handed out after a failed query, a failed overwrite whose clean-up removes the
file of the older image, a row stored by a statement that returned an error, and ids that are not normal. The properties speak of all other ids.

`StoresImages` is the refinement: `ImageStore` with the row of an id for `meta`, what readers find under it
for `shown`, and for `half` the uploads that are between the file and the row of an image that exists;
clashed ids are `lost`. It says at which of its steps a request takes effect. A new image is
there when its row is stored (`StoreRow` is `Add`), a delete or merge when the rows are gone
(`Remove`, all of a merge's losers at once). An overwrite has no such step: its file (`WriteFile` is
`Replace`) and its row (`Describe`) are seen one after the other, with nobody in between; a crash
in between leaves the old description with the new contents (`Fail`). Steps clients see nothing of
are `Lose`, which is a stutter unless more ids clash or a step fails.

### Tags

`QueryName` and `QueryAlias` are the two statements of `ResolveTag`, with `PutEntry` and `DeleteEntry`
of the registry's handlers in between. A call that stores (`BeginStore`, `Store`) holds a connection
and waits for locked rows; a merge holds one from `BeginMerge` to `Commit`: it reads tags
(`ReadTags`), resolves them through *other* connections of the pool, locks and writes the winner
(`UpdateWinner`), deletes the losers and commits. `Free` is the pool's limit. `GiveUp` is a request
whose context ended, `Victim` PostgreSQL's choice in a deadlock of two or more merges (`Deadlocked`).
A statement or commit that was applied and still returned an error is `Store` or `Commit`: what a call
answers is not looked at.
`CanGo(c)` is what the guards of the calls' steps come to: that a query finds a connection or a row
unlocked. `OnlyMergesHang` is stated with it.
`meant`, `doubt` and `edited` are history: what a tag has meant since the first of its two statements,
how often the registry changed since then, and whether an image a merge has read, and not locked
yet, was changed. The first write locks the winner only, so a loser counts as unlocked until the
`DELETE`: tags it is given in between are lost, and `MergeKeepsTags` says so.

### Access

`Settings` are the environments the process may be started in, pairs of what is said of OIDC and the
password. `Start` and `Probe` are `newOIDC` at start-up: without a URL there is no OIDC, half an identity or a
failed discovery ends the process. `SubmitPassword` compares the form with `a.Password`, which is
empty when none is configured: an empty form is admitted then, as only the page hides the form
(`login.html:45`), and `earned` counts it so. `StartLogin` draws state and nonce and sets the cookies. A
login is a model value for its state, its nonce and the code it is given at the provider, but a callback
may bring the state of one login and the code of another (`Callback(c, b, s, l)`): the state is compared with
the cookie before the exchange, the nonce of the ID token after it, and without the second test
`SessionsAreEarned` fails (`ExchangeTrusting`). `Callback`, `Exchange`, `Respond` are the three parts of the
handler, with the browser's other tabs in between; `Abandon` is one that gets no answer.
`Auth` is the session check, and what it admits goes on in `InsertKey`,
`ShowKey`, `RevokeKey`, also when the session ends meanwhile; `Leave` is also a key that was stored though its
statement failed. `Lookup` is the upload API's check of a key. `Crash` makes a new session token with the next
`Start`. The token is `sess_` and the start time in nanoseconds (`admin.go:43`): the model only needs that
two processes have different ones; that somebody may guess it is outside, as are
signatures and the quality of random values.

### PublicApi

`Fetch` is one page of `listHandler`, `FetchCut` one whose rows ended early unnoticed (`rows.Err` is
not looked at), `FetchFails` an error. `Show` follows the Link header, which does not keep
`?author`. `Before` is an image's place in the list, `Page` the images whose places are on a page.
`Redirect` is a request for an image by any of the routes: `Parses`, `GetParams`, `Valid`,
`Choice` and `Location` are the handler's steps; `Follow` is `imageHandler` doing the same for the
URL it was redirected to, and `Answers` what it may answer: a 400 when it does not parse; a 500 when libvips
refuses a width or height of 0 (`unsized`; the minimum is 1, `vips-bridge.c:54`), or when the file is missing
or the queue is full (`failed`); else the image. Whether a row has a file is left open here, and said
in `Catalog`. Ids are numbers, so that escaping in the redirect's path (`api/image.go:165`) is
left out. Numbers beyond `MaxInt` fail to parse. `AskedFor`, the reference of the
redirects, is written in the client's terms and uses none of them.

## 3. Runs

Every cfg gives all constants their values; every property of a passing run has a mutant that
breaks it. State counts are distinct states.

| run | instance | shows |
|---|---|---|
| `WorkerQueue` | 3 calls, 2 workers, 1 slot each | `IInv` (types, no job lost or duplicated, workers never block, outcomes reach their own caller), `NoWorkForDeadCallers`, `ImplementsService`; `WorkersStop` and `AnsweredUnlessShutdown` from scheduling alone; `EveryCallReturns` when requests have deadlines |
| `WorkerQueue_panic` | 2 calls, 1 worker | **violated** `NoPanic` |
| `ImageCoalescing` | 3 requests, 1 key | `IInv` (followers have leaders, channels are closed once by their owner), `OneLeaderPerKey`; `FollowersReleased` from scheduling alone; `EveryRequestAnswered` when requests have deadlines |
| `SeedResolution_stick` | 2 calls, 2 images, 1 tag, failing queries and pools cut short; 306,615 states | `RowsAlive`, `TaggedSeedsStick`, `EveryCallReturns` |
| `SeedAgreement` | 3 calls, 3 images, 1 tag, fixed catalog, failing queries and pools cut short; 300,832 states | `SameImage` |
| `SourceCache` | 3 callers, 1 image, 3 changes | `ReadsNeverGoBack`, `CacheNeverGoesBack`, `EveryGetReturns` |
| `ImagePipeline` | 2 workers, 1 image, 2 changes, variants {} and {blur, grayscale}; 46,196 states | `HandlesInv`, `RenderedNotNewer`, `UsesSourceCache` (the refinement), `VariantsConverge` |
| `Catalog` | 2 requests, 4 ids, 2 extensions, one failure or crash; 740,353 states | `RowHasFile`, `NothingLeftBehind`, `AutoServesItself`, `AutoIdReplacesNothing`, `StoresImages` (the refinement) |
| `Tags` | 1 edit, 2 merges, 2 images, 2 entries, 2 connections; 1,031,987 states | `IInv` (connections, locks and names are kept in order), `OnlyMergesHang`, `AnswerWasMeant`, `MergeKeepsTags` |
| `Access` | 2 browsers, 2 logins, 2 callbacks, 1 key, 2 starts, 5 settings; 1,934,773 states | `SessionsAreEarned`, `LastLoginGetsThrough`, `ShownKeysWork` |
| `PublicApi` | 3 ids, pages of 1, 12 requests; 176,180 states | `WalkIsComplete`, `WalkRepeatsNothing`, `RedirectsAreServed`, `WalkEnds` |
| `Health` | database, cache, storage; 2 checks | `HealthyIsEarned`, `RunnerReturns`, `OutageReported` |

Where a run lists no type invariant, the module's inductive invariant, which contains it, is a theorem
(section 5); TLC found it to hold on the same instance before it was proved.

`CHECK_DEADLOCK FALSE` stands in the Health run (the checker may be stopped, and then nothing is
left to do), in the `SeedAgreement` run (its specification leaves the admin out, so finished calls end it), in
the Catalog run (its requests end) and in the Access run (a process that stopped for the last time is
not started again within the bound).
Elsewhere a state without a successor is an error; where everything may have returned, that state
is named (`Terminated`).

### Bounds

- Queue: 3 calls against capacity 2 fill the channel and have one refused; two workers race for
  jobs and for shutdown. What depends on more is covered by the proofs.
- Coalescing: a leader, a follower and a third request that can claim between the first one's
  delete and close, or follow a second leader. Keys meet only in the queue, which is abstract here,
  and the proofs are for any set of keys.
- Seeds: `Tags` and `Images` are small because a hazard needs one tag that empties or fills, a
  picked and a stored image, and a slow call beside a fast one; merging needs a winner and losers. With
three images a pool cut short is empty, or smaller by one or two.
- Source cache: `MaxGen = 3` lets a file be whole, partial and whole again, or gone, within the
  life of one Get; two callers race while a third hits.
- Pipeline: two workers with different variants of one image are the race for freshness; images
  meet nowhere. The variant with both effects takes every libvips call, the empty one the shortest path.
- Catalog: two requests are all a clash needs; ids 1 to 3 are numbers, 3 is beyond what the cast takes
  (`Top = 2`), 4 is the name `1.jpg` of id 1; two extensions are an order; one failure leaves every half-done state,
  and the proof of `RowHasFile` is for any number. The instance has the local storage; the proofs
  are for both.
- Tags: one name that is also another's alias, and two entries, make every outcome of a resolution; two
  merges exhaust two connections and can lock each other's winner; an edit races both.
- Access: two logins in two tabs or two browsers, a callback opened twice or in the wrong browser,
  and one restart. More are covered by the proofs. `Settings` has five of the eight pairs of an OIDC
  configuration and a password, as passwords are compared alike beside each of the four: each
  configuration once, and "none" with and without a password.
- Public API: three images on three pages are the fewest where a walk can miss one, repeat one and
  still see a stable one. `MaxPage` does not bite: three images have at most three pages and an empty
  one. The requests are the boundaries of each parameter: none, the largest that is valid, one more,
  and one more than parses; image 1 is stored with size 0 and asked for with and without a size.
- Health: with two checks one is given up and alive while the next one runs.

### Fairness

- *Scheduling*: weak fairness for each goroutine's next step. A goroutine that can run does. A
  select with several ready cases is one action group: no case is owed anything, which is why
  `WF_vars(SendSelect(r))` stands for all five cases. A handler call of libvips returns.
- *Deadlines* (`Deadlines` in `WorkerQueue` and `ImageCoalescing`): every request's context ends,
  as `http.TimeoutHandler` ends it at the latest. It is a premise of the two properties that need
  it, so that the others are seen to hold without.
- *Row locks* in `SeedResolution`: a store waiting for a row lock gets it in its turn, as
  PostgreSQL queues lock requests: strong fairness for the stores. A transaction that was begun
  ends. Calls and admin operations themselves are under no obligation to begin.
- *Health*: `Expire` is strongly fair, as the clock runs also while a dependency hangs only now and
  then. A dependency that hangs is under no obligation to answer.
- *Pipeline*: workers go on, and the LRU cache's entries expire, each of them (`WF_vars(Evict(k, v))`).
  Nothing makes requests, or changes of files, come.
- *Public API*: the client goes on with its walk (`WF_vars(WalkStep)`).
- `Catalog`, `Tags` and `Access` have no fairness: their properties are about safety. That calls in
  `Tags` cannot stop each other is the state property `OnlyMergesHang`, which says who can go on.

## 4. What the violated run shows, and what else was seen

**`WorkerQueue_panic`.** `Process` checks `q.ctx` (`queue.go:88`) and sends afterwards (`queue.go:94`).
`Run` may close the channel in between; the send case is then ready and panics. The repository says
of the same call that it gets an error (`queue_test.go:43-46`). `ImageCoalescing` shows what follows:
the leader's map entry stays and later requests for the key wait for their deadlines.

Observations the models make, where no document or test of the repository says otherwise, or where a
property states its exception instead.

Queue, images and caches:
- At shutdown a worker may take the `ctx.Done` case although jobs are buffered (`queue.go:75`); their
  callers wait for their deadlines. The queue's context ends before the HTTP server has drained.
- A follower woken before its leader has filled the LRU cache renders the image again (`Recheck`,
  `Settle`); a source image in the memory cache outlives a replacement or deletion of its file.
- When `vips_gifload_buffer` refuses a GIF, `resize_animated` (`vips-bridge.c:64`) calls a generic loader,
  takes its success for a failure and loses the image it made; `HandlesInv` is about the images
  the Go code is given. `save_image_to_png_buffer` inverts the result of the call it makes, on a path
  no request takes.

Seeds and health:
- A tagged request that falls back writes the slot of the empty tag (`postgres.go:208`), which may already
  have an image. Errors of the lookup and the fetch read as "no resolution" (`postgres.go:188`), so
  one failed query can move a seed for good. A pool query that breaks half-way is not noticed
  (`postgres.go:269-283`), and the pick from the part that came is stored like any other. A resolution stored between the merge's `UPDATE` and its
  `DELETE` is set to NULL, not rewritten (`admin.go:799`). `TaggedSeedsStick` names these exceptions.
- Every error of the health query reads as an empty table (`postgres.go:147`), which is healthy. A check that
  runs into its deadline in that query closes its channel, so `ClosedEarly` may keep an old status.

Catalog and tags:
- A failed row insert removes the file just written, also when it replaced an existing image's
  (`uploadapi.go:315`), and also when the insert was applied and only its answer was lost: the row is
  there then, and its file is not. Two uploads may be given the same id (`uploadapi.go:264`); an error of `NextID`'s
  query gives id 1 (`postgres.go:450`).
- On local storage an admin upload keeps the id as typed, while readers look for the normalised
  one and never find it. Normalisation is not idempotent: `x.jpg.jpg` is still not normal.
- `fetchAndStore` takes the extension from the Content-Type. Images whose size Go cannot decode are
  stored with size 0 and redirected with size 0, which libvips refuses: such an image is a 500 whenever
  the client leaves a size open.
- No tags at all become NULL, which the column refuses, although `uploadapi.go:13,25` calls them
  optional. Images keep tags that became aliases later. An `UPDATE` of a winner that was deleted meanwhile
  changes no row, unnoticed, and the losers are deleted all the same (`Tags!UpdateWinner`, `MergeKeepsTags`). Tags given
  to a loser after the merge has read it are lost, up to the `DELETE`: only the winner's row is locked.
- As many merges as the pool has connections wait for each other (`Exhausted`).

Access:
- Without a configured password an empty form logs in (`admin.go:167`): the page hides the form, the handler
  does not refuse it.
- A restart ends all sessions; a logout clears the cookie but not the token, which all sessions
  share. An id and secret without a URL turn OIDC off silently; an outage of discovery at start ends the
  process. After a failed first `Initialize` a second call returns nil. `newOIDC`'s client
  with its timeout is not used for the exchange. A database error in `LookupAPIKey` reads as an invalid
  key. `KeyAuthMiddleware` is not used.

Public API:
- The `download_url` of images larger than 5000 pixels is refused by the API's own route. `/id/{id}/{size}`
  is not reachable in the main binary. `.png` and `.raw` are not parsed although `docs.html:78,190`
  mention them. `?author` of the random route falls back to any image; the Link header drops
  `?author`. `rows.Err` is not looked at, so a page can be short. `ValidateHMAC` is not called by any route.

## 5. Proofs

All theorems are of the form "every behaviour of the specification satisfies ...", for all finite or
infinite sets of requests, keys, tags, images and callers (the workers are finite, as `queue.New` makes
them, and so are the ids of the public API's lists), from the named assumption of each module. Each
rests on an inductive invariant, which TLC found to hold on the run's instance first. Every invariant,
every action property and every refinement of a passing run is stated by a theorem.

- **WorkerQueue.** `IInv` is `TypeOK`, `JobConservation`, `WorkerNeverBlocks` and "who was served
  got the outcome in its own result channel". Conservation alone is not inductive: that the result
  channel of a held job is empty is needed to see that `Deliver` does not answer twice. From it:
  `TypeCorrect`, `JobsConserved`, `WorkersNeverBlock`, `DeadCallersNotServed` (an action property)
  and `QueueImplementsService` (initial states map to initial states; each step maps to a step of
  `JobService` or to a stutter).
- **ImageCoalescing.** `IInv` adds to the two properties on followers and channels who owns the
  map entry (`LeaderOwnsEntry`), what an entry says about its request (`EntryHasLeader`), and which
  phases belong to leaders (`PhaseInv`). A leader's entry is its own because nobody else claims
  while it is there, and nobody else deletes because whoever deletes leads; each half needs the
  other. From it: `CoalescingIsExclusive`, `FollowersHaveLeaders`, `DoneClosedByLeader`.
- **SeedResolution.** `RowsAlive` needs the merge's invariant `MergeInv`: the winner of a rewrite
  is still there when it is published, since its row is locked. `SeedsStick` needs that a call
  stores under its own tag or the empty one (`EffectiveInv`), so that nothing but a call for the
  slot itself can overwrite a tagged slot, and a settled slot has no such call left. A merge either found the
  slot, and then publishes its winner for it, or takes its image away (`MergeInv`).
  `SameSeedSameImage` is about `QuietSpec`. That all answers are the same is not inductive, as a call
  may have in hand what it read long ago; `QuietInv` says what it is: the one pick for its slot,
  for everything stored (`StoredInv`) and everything about to be (`Follows`). The store under the
  empty tag is the delicate step: it must come from a tag without images, whose pick is that of the
  empty tag. A broken query makes `Follows` false of the slots in `doubt` only; `DoubtInv` says that where
  a tag nobody carries is in doubt the empty tag is as well, as the call stores under it.
- **Catalog.** `IInv` is `TypeOK`, `SoleOwner` (an id outside `clashed` has at most one request busy with
  it), `NormalNames` (that request uses the id's own name in storage), `Halfway` (what each half-done
  upload or removal has already done) and `RowHasFile`. The last alone is not inductive: that a
  file is still there when its row is stored needs the owner to be alone, and that no removal unlinks
  it needs the owner's name to be its own. For any ids, extensions and requests, any number of
  failures and crashes, and both storages. From it: `RowsHaveFiles` and the action property
  `FreshIdsAreFree`.
  `NoOrphans` and `GivenIdsServeTheirUpload` need `TidyInv`: as long as nothing failed, an id nobody
  is between two halves with is whole (`WholeInv`), what a request is about to remove is all that is
  there without a row (`HalfDone`), and an upload with an assigned id has found no file under it
  (`GivenInv`), so that none with another extension comes before its own.
  `CatalogImplementsImageStore` is the refinement to `ImageStore`, for whatever fails. Most steps change
  no image that has a row and has not clashed (`UnseenImage`); who is to see that is the invariant's
  matter: a file that is cleaned up or unlinked has no row (`Halfway`), an image that is removed or
  overwritten is in nobody else's hands (`OneWriter`, from `SoleOwner`), and the row of an image is under
  a normal id, so that readers look at its own files (`GivenInv`). What readers find after a file more was
  written is the new one or what they found before (`FirstOfMore`); that there is a first extension at all
  is `LeastNumber`, from the well-foundedness of finite sets, as extensions may be infinitely many. That
  a new image shows its own upload as long as nothing failed is `HalfDone`. A row stored by a statement that
  failed is `Lose`: its id has clashed.
- **Tags.** `IInv` is `TypeOK`, `PoolInv` (who holds connections), `LockInv` (who holds row locks, and
  of which rows), `UniqueNames` and `WorkInv` (what a call under way has left to do). It holds for
  any pool size, number of calls, and failure of any query. `AnswersWereMeant` adds `MeantInv`: at the second statement of
  `ResolveTag`, all the tag has meant is in `meant`, and so are the names it is an alias of, also when
  the one change in between made the tag itself a name: that change cannot have given anybody else the
  alias (`NewNameKeepsAliases`). With two changes it can, hence the exception. `MergesKeepTags` adds
  `KeepInv`: while no image a merge has read was changed, their tags are resolved or yet to be, and it
  locks its winner. After its first write nobody changes the winner, whose row is locked; a change of a loser, up to
  the `DELETE`, is in `edited`, and excepted.
  `OnlyMergesMayHang`: whoever cannot go on wants a connection or a locked row. If a connection is free,
  or somebody who holds one does not want another, then a call can go on or a merge is deleting, as only
  those lock rows (`GoesOnOrDeleting`); and of merges that are deleting one can commit or is in a
  circle (`DeletingGoesOn`). That there is a circle among merges each of which waits for another
  needs no induction: one that reaches least (`Reach`, the merges it waits for, directly or through
  others) waits for one that reaches no less, and so for itself (`CircleOfMerges`). There is a least
  because only finitely many merges are under way, however many there are: the pool lends no more
  connections than it has (`PoolBound`, the theorem `PoolIsBounded`).
- **SourceCache and ImagePipeline** (`ImagePipeline_proofs`, as the latter extends the former).
  `FlightInv` (one flight per key, led by the one who is in it) and `AgeInv` (returned <= cached <=
  loaded <= stored). From them: `ReadsAreMonotone`, `CacheIsMonotone`. `PipelineInv` contains both, with
  `HandlesInv`, `RenderedNotNewer` and `StageInv`. The worker's source is no newer than the cache
  because what a Get returns is not, and the cache never goes back. From it: `HandlesReleased`,
  `RenderedIsNotNewer`, and `SourceCacheImplemented`: every step of the pipeline is one of `SourceCache`
  or a stutter.
- **Access.** `OwnLogins` (whatever names a login as a browser's own is right about it), `EpochInv`
  (cookies are of this process or an earlier one), `CodesOnce`, `StoredKeys`, `LastInv`, `RefusedInv`. A session
  is earned because a callback is accepted only with the nonce of its browser's cookie, which is that of a login
  this browser started, and the code has to be of the same login; for any settings, the empty
  password too. From it: `SessionsEarned`, `LastLoginPasses`, `ShownKeysAreStored`,
  for any number of browsers, logins and restarts.
- **PublicApi** (`PublicApi_proofs`, with the health checker it is served beside). The lemmas are about
  places in a list: an image's place is the number of images before it; places differ, and all
  places before a taken one are taken (`PlacesTaken`, by counting, as no induction is at hand), so a page
  with an image after it is full (`FullPage`). `SeenInv` says what a walk has seen when it asks for page p:
  of what was there all the time and had nothing before it deleted, all whose place is before the page; and of
  what had nothing inserted before it, nothing whose place is not. From it: `WalksAreComplete`, `WalksRepeatNothing`,
  for every catalog and page size. `VisitInv` says what a redirect asks for; from it
  `RedirectsServed`, for all requests the routes can take (`RequestSet`) and all bounds: a redirect is never
  refused, and its size fails only where the client left it open for an image stored with size 0; and
  `TypeCorrect`.
- **Health.** `FindingInv`: what a check wrote down is what it met, and it sends only after every
  answer; for any list of dependencies. From it: `HealthIsEarned`.

Only model-checked: all liveness properties. `NoPanic` has a counterexample instead.

## 6. Not modelled

Left out for good:
- *Pixels and bytes*: libvips' own work, image decoding, magic bytes, the text of cache keys,
  cryptography (HMAC, tokens' signatures), wording and layout of responses. The error buffer all libvips
  threads share only changes the text of errors.
- *Logging, metrics, tracing; web pages, templates and scripts; mocks*: no state of the service
  depends on them. Of the middleware only the recovery of panics matters (`ProcessPanics`).
- *File database*: a list loaded at start that neither binary uses any more.
- *Start-up wiring, flags, schema statements and the manifest generator*: these run before there is a
  service.
  What can fail at start and stay wrong is in `Access!Start` and `Probe`.
- *Notes, alternative texts and ignored pairs of the admin panel*: single statements on columns
  nothing else reads.
- *The SFTP connection*: its operations are those of `Catalog`; that it can hang is in `Health`.

What could still be added: files with partial contents in `Catalog`, as `SourceCache` has them, to compare
what readers see during an upload with what the source cache keeps afterwards.
