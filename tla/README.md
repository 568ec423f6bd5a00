# Verification of the NTP server and its exporter

TLA+ modules for the parts of this repository that keep state, the TLC runs that
model-check them on small instances, and TLAPS proofs for every value of the
constants. `PROJECT.json` lists components, runs, mutants, the map from
definitions to source lines, hazards, findings and theorems.

## The system

`chronyd` (external) answers NTP clients; `entrypoint.sh` starts it, watches its
certificate and restarts it. The exporter, beside it, watches the traffic and
publishes metrics; the load generator tests the server.

| part | source (under `src/exporter/` unless noted) | state | operations | modelled by |
|---|---|---|---|---|
| collector | `internal/aggregate/aggregate.go`, `asn.go` | per-worker counter maps, sharded pending and active tables, ASN totals, sweep counter, metrics | `HandleFrame` (one goroutine per worker), `Flush` (one goroutine) | `Collector`, `Asn` |
| unique-clients window | `aggregate.go` (`hourly`, `hour`) | ring of 24 sketches | `currentBucketLocked`, the merge in `Flush` | `HourlyRing`, `HourlyWindow`, `SketchWindow` |
| HyperLogLog sketch | `internal/hll/hll.go` | registers | `New`, `Add`, `Merge`, `Clone` | `Hll` |
| capture manager, process life cycle | `internal/capture/manager.go`, `cmd/exporter/main.go` | sockets, `stop`/`done` channels, backoff, manager pointer, scrape gauge | `Open`, `Run`, `RunWorker`, `reopenWorker`, `Close`, `KernelDrops`, `runCapture`, `flushForever`, the signal goroutine | `Capture`, `DropTally` |
| BPF program | `internal/ntpframe/frame.go` | none | `BuildNTPBPF` | `NtpFilter` |
| parser and direction filter | `frame.go`, `internal/capture/filter.go` | none | `ParseNTPFrame`, `ShouldAccept`, `ProcessFrame` | `NtpFrame`, `LocalIPs` |
| local address cache | `internal/capture/localips.go` | `set`, `lastLoad` | `Contains`, `maybeReload`, `reload` | `LocalIPs` |
| GeoIP resolver | `internal/geoip/geoip.go` | two readers with mtimes, LRU cache, loaded gauge | `Resolve`, `reopenIfNeeded`, `reopenOne` | `GeoIP` |
| pool.ntp.org poller | `internal/ntppool/ntppool.go` | published gauges | `PollOnce`, `Parse`, `ParseOverallScore`, `RunForever` | `NtpPool` |
| entrypoint | `entrypoint.sh` (top of the repository) | copied certificate and key, child PID, pid file, hash | start, TERM trap, certificate watcher | `Entrypoint` |
| load generator | `scripts/ntp-load/main.go` (top) | pending cookies, counts, sockets | `sendLoop`, `recvLoop`, `run`, `percentile` | `NtpLoad` |

How they interact. A capture worker reads a frame that passed the BPF program
from its own AF_PACKET ring, `ProcessFrame` parses and filters it (asking the
shared address cache) and calls `Collector.HandleFrame` on that worker, which
asks the shared GeoIP resolver. A request and its response are different flows,
so they usually reach different workers; they meet in the pending table of the
client's shard. A timer calls `Flush`, which drains every worker, asks the
capture manager for `KernelDrops`, and publishes. The manager replaces a
worker's socket after repeated errors. The container's script copies the
certificate, and ends chronyd when it was renewed so that docker restarts both.

What is hard. `HandleFrame` is a sequence of small critical sections (worker
lock, shard lock, ring lock) and atomic operations between which the others
run; `Flush` walks workers and shards one at a time while they change; kernel
tallies restart when a socket is replaced; the wall clock is set by the very
daemon that is observed; sockets are closed by three parties; databases are
swapped under lookups; one frame is decoded twice, in the kernel and in Go; a
signal or a renewal may fall between any two lines of a shell script; a reply
may be matched before its request was counted.

What correctness means here: every request counted once in every breakdown;
tables bounded and emptied; kernel drops not invented; the daily window right
whatever hours were silent, and right again after the clock was set; registers
that are those of the clients seen; no socket leaked, used after close or closed
twice; a stop that reaches everyone; upstream traffic not taken for clients; no
client traffic lost between the BPF program and the parser; lookups undisturbed
by reopening; gauges that show what the pool said last; renewed certificates
loaded and chronyd never torn down alive; a load report that adds up.

## Modelling

One step of a model is one critical section, atomic operation, clock reading,
system call or shell command of the code; everything a section does is in its
action. Locals of a goroutine are a record per worker with a program counter
(`hf`, `fl`, `wk`). Maps are total functions with a value for "no entry".
Counter metrics are numbers, a histogram is the set of values observed. Names
are those of the code. An operator that nothing uses is a faulty variant of the
definition after it; `PROJECT.json` ("mutants") says which property has to
notice it.

- `FiniteSums`: the loops that add numbers up, over labels, workers or sockets, as
  the size of a set: that can be reasoned about without induction.
- `Asn`: ranking, pruning and folding as pure operators. `sort.Slice` on counts
  alone is unstable, so `pruneToLargest` is the set of its possible outcomes.
- `HourlyRing`: the ring as pure operators, a sketch being the set of keys added,
  used by `Collector` and by `HourlyWindow`, which follows it over several days
  with clock settings. `Hll` is the sketch itself, registers computed from the
  bits of the hash; `SketchWindow` runs both side by side and merges Flush's
  clones one hour at a time after the lock is released. `SketchesRepresent` and
  `MergeRepresents` are what makes sets a faithful stand-in for registers.
- `DropTally`: what `KernelDrops` may return over time. It is the abstract
  specification that `Capture` implements and the environment of `Collector`.
  Assumed: `SocketStats` fails on closed sockets only.
- `Collector`: `HandleFrame(w)` = `AddFrame`, `CompareAndSwap`, `SweepShard`*,
  `Count`, `ReadClock`, `TouchActive`, `AddToBucket`, `StorePending` for a
  request, `PairResponse` for a response; `Flush` = `DrainWorker`*, `Publish`,
  `PublishBreakdowns`, `EvictShard`*, `SetActive`, `ExpireShard`*,
  `MergeHourly`. Two clocks: the monotonic one that only advances and the wall
  clock that `StepWall` sets. `GeoOf` gives the results `Resolve` may return.
- `Capture`: main's goroutines. `runCapture`, one `RunWorker(i)` per worker,
  `flushForever`, the signal goroutine. Sockets are numbered as they are opened
  so that a socket's whole history can be followed.
- `NtpFrame`: a frame is its length and the fields the code reads; the parser is
  its length checks and offsets. `NtpFilter`: the BPF program as the sequence of
  its instructions, and the kernel's machine (external) that runs them on the
  same fields; a load past the end of the frame rejects it.
- `LocalIPs`: `ProcessFrame` on several workers, for the frames the program lets
  through, over the shared address list.
- `GeoIP`: `Resolve` on several workers; files are replaced and removed and
  `Open` may fail. `r.mu` is a writer's `holder` and the readers at "lookup".
- `NtpPool`: one poll is two downloads, two parses and one step per setter call.
  The site gives its entries in any order, changes, goes down or answers
  something else than JSON. Two monitors may share a name; map iteration then
  decides, so the result is a choice. `After` says without loops what a gauge
  may show after a poll.
- `NtpLoad`: the two loops of each worker and `run`. `Pace` is the top of
  `sendLoop`; sends, writes and counts are separate steps, so a reply may
  overtake the count of its request. Rounding of `float64` is not modelled:
  `math.Ceil(p*float64(n))` is the exact value for the three percentiles used.
- `Entrypoint`: the script, its watcher in a subshell, and around them chronyd,
  the renewal (file by file, perhaps removing before writing), inotify and
  docker. A chronyd that was told to end may not (`"stuck"`): then `forward_term`
  gives up, and docker kills what is left. The watcher tests that both files can
  be read, and then copies them one after the other; a `cp` that fails leaves the
  old copy. `exit` inside the loop of the pipeline ends only the loop; inotifywait
  goes on until it writes the next event. The script is process 1, so a TERM
  before the trap is set is ignored. The two-second pause is just time.

Properties are in `CollectorProperties`, `CaptureProperties`, and at the end of
the other modules; `MC*` give small instances. `MCCollectorSafety` restricts what
the environment of the collector does to one of six scenarios, chosen at the
start, each with bounds of its own; what workers and Flush do is not restricted.

## Runs

| run | shows | instance |
|---|---|---|
| collector | `CountsConserved`: counted = published + in Flush + with workers, for each label; `BreakdownsAgree`: countries, versions and families add up alike between flushes; `AsnTotalsSound`; `DropsCoverUnanswered`: published drops cover the unanswered; `SweepNotLost`: past the threshold somebody is about to sweep; `PendingBounded`; `ActiveGaugeSound`: what Flush added up shard by shard is at most the clients in the tables; `KernelDropsNotOvercounted`; `CountersOnlyGrow`; `TypeOK` | 2 workers, 2 shards, six scenarios: 3 requests of an address that moves between two ASNs, with totals for one (`Counting`); its request and response in different flushes (`Answering`); 2 requests for 1 place, or one answered (`Competing`); the wall clock set under a request and response (`Setting`); clients of both shards that arrive and expire (`Expiring`); 2 kernel drops with sockets replaced (`Dropping`) |
| liveness | `RequestsEventuallyPublished`; `ExpiredEntriesLeave`: silent clients and unanswered requests leave their tables | 2 workers, 2 shards, the client in the last, no worker sweep (Flush alone must empty the tables) |
| window | `WindowExact`, `WindowHeals`; `SketchesRepresent`, `MergeRepresents`: registers, and those merged outside the lock, are those of the clients | a day of 3 hours, 6 hours, gaps of 2, clock set once; 2 clients that share a register, 4-bit hashes |
| capture | `NoMisuse`, `NoLeak`, `ImplementsDropTally` (refinement), `StopReachesAll`, `WorkerReadsAgain` | 2 workers, 4 sockets, 1 drop |
| filter | `FilterAgrees`: no frame that workers would count is lost to the program, unless tagged or a later fragment, and what passes and does not parse has a bad header length or is cut in its UDP header; `UpstreamNotCounted`, `ListKept` | 9078 frames on the wire, cut at both sides of every header's end; 2 workers, 3 address lists, 6 frames |
| geoip | `LookupUndisturbed`, `StaleBounded`, `ChecksSpaced`, `NewFileNoticed`: a file that stays in place is noticed, when the clock leaves time for a check | 2 workers, 2 databases with 2 versions, a removal |
| load | `SendsAccounted`: sent = pending + round trips; `LossWithinSent`: the unsigned loss does not wrap; `NeverAhead`; `SocketsHeld`; `RunReturns` | 2 workers, intervals on both sides of the sleep floor, batches of 2, 1 duplicate or stray |
| pool | `GaugesTellHistory`: every gauge shows the newest entry or what it showed before; `Recovers` | up to 3 of 6 entries with every kind of timestamp, missing values, a shared name, 2 changes of the site |
| entrypoint | `TermReachesChronyd`; `StopEnds`: a stop ends the script though chronyd may not end; `RenewalLoaded`; `ServiceRestored` | 2 renewals, 1 fault (a crash, or a chronyd that does not end), one stop, with and without inotifywait |
| asn_labels, geoip_gauge, watch_race | disagreements, below | |

Bounds. Two workers are the least that interleave, and two shards the least that
Flush visits at different times. Limits (pending table, ASN totals, top N) are 1
so that one more entry passes them; times to live are 0 or 1 ticks so that a
tick expires an entry. The day of three hours has a bucket that is neither the
current nor the next. A setting of the wall clock stamps a response before its
request; the hours it falls in are left to `window`. Four sockets let both
workers reopen once. Backoff runs from 2 to 3, so that doubling passes the cap.
A day and the longest gap pass after the clock was set, which is when `WindowHeals`
begins to speak. Batches of two in `load` pass the batch limit after a tick of
stall; words of 3 bits hold the requests that can be sent. Three entries of the
pool's history give a monitor two timestamps of different kinds beside another
monitor of the same name. A second renewal can overtake the copy of the first.
The bounds on traffic differ by scenario because their product is beyond TLC; each
scenario has what the properties named with it need to fail, and all ten
properties are checked in all six. What does not depend on these numbers is what the proofs below are for.
`LocalIPs` uses the symmetry of the workers, which no action or property tells
apart. `Entrypoint` may stop, when docker stopped it, so deadlock is not checked
there.

Fairness. `Collector`: weak fairness of each worker and of Flush (goroutines are
scheduled, no lock is held across a blocking call). `Capture`: weak fairness of
each goroutine (reads time out after a second, sleeps end), and strong fairness
of `flushForever` taking the stop case: a `select` with two ready cases chooses
at random, so it does not choose the ticker for ever. `GeoIP`: weak fairness of
the workers' steps and of time, strong fairness of taking `r.mu`, which does not
starve a writer. `NtpLoad`: weak fairness of `run`, of each loop and of time
(reads have a deadline of 200 ms). `NtpPool`: weak fairness of `PollOnce`
(`RunForever` repeats it, the HTTP client has a timeout). `Entrypoint`: weak
fairness of the script, of the watcher, of chronyd loading its files and ending
on TERM, of a renewal that has begun, and of docker's restart. Nothing is assumed
of signals, of files changing, of crashes or of the site coming back.

## Disagreements

Three documented statements are stated as properties that TLC refutes:

- `asn_labels`: `NTP_ASN_TOP_N` is said to bound the label's cardinality
  (`README.md:337-339`); ASNs that were once at the top keep their series.
- `geoip_gauge`: `ntp_geoip_database_loaded` is said to be 0 if the database is
  missing (`README.md:303-304`); when the file of an open database is removed, the
  next check keeps the reader, and the gauge stays 1. What the gauge does tell,
  whether a reader is open, is `GaugeTellsReader`, which is proved.
- `watch_race`: the check up front is said to close the race with the start of
  inotifywait (`entrypoint.sh:197-198`); it runs before inotifywait is started,
  so a renewal after it and before the watch waits for the next event. So does
  one between the copy of the files and the first hash (line 171), also when it
  falls between the two copies, and the pair that chronyd loads is mixed.

Others were met while modelling and have no run of their own:

- pairing is said to work when request and response are on different workers
  (`aggregate.go:5-9`); the response can be looked up before its request was
  stored, and the request then expires;
- `main.go:126-127` speaks of main returning after `stop`; main is in
  `poller.RunForever`, which has no exit, so SIGTERM never ends the process;
- the reply to a client that uses source port 123 parses as a request to the
  client and is rejected (`filter.go:20-22`);
- VLAN-tagged frames are parsed (`frame.go:53-59`) but never pass the BPF program;
- a request interval may be negative when two workers take the shard's lock in
  the other order of their clock readings (`aggregate.go:212-217`);
- pruning ties is arbitrary (`asn.go:38-39` says it cannot matter);
- a clock set back clears buckets whose clients were seen within 24h
  (`metrics.go:43`);
- a failed lookup postpones the next by an interval (`localips.go:61`), and when two
  workers reload at once the older answer may be stored last and stay that long;
- `Resolve` takes `r.mu` on cache hits too (`geoip.go:166-167` says it never does);
- a TERM between the start of chronyd and the assignment of its PID is lost, and
  docker kills the container after its grace period (`entrypoint.sh:155-156`);
- `RenewalLoaded` has one excuse: files that come back in the moment between the
  test that misses them and the watcher's exit raise an event nobody reads; it does not speak of a chronyd that does not end.

## Proofs

For any numbers of workers, shards, addresses, frames, hours, sends and so on,
from the assumptions named in the modules:

- `FiniteSumProofs`: lemmas about sums over finite sets (adding two functions, one
  entry that changes, a set split in two, a sum by label), from the library's
  facts about cardinality and a bijection of the counted sets.
- `CollectorProofs`: `TypeCorrect`. `TypeOK` is inductive; one lemma per group of
  actions (environment, `HandleFrame`, `Flush`) with a step per action. From
  `CollectorAssumption` (at least one worker and one shard, a positive sweep
  threshold and hour, limits that are naturals, finitely many addresses, xids and
  labels, `Absent` and `Nil` distinct from data) and those of `Asn` and
  `HourlyRing`. Then `SweepAlwaysPending` (inductive with `TypeOK`: the worker that
  raised the counter last holds its value and is at the CAS);
  `PendingTablesBounded` (a full table refuses a new entry and counts an overflow;
  every other step shrinks it or replaces an entry); `DropsNeverOvercounted` from
  `DropsInv`, which relates the published drops, Flush's baseline, the tally and
  the drops not yet seen; the bound alone is not inductive, since it says nothing
  of what is still to be added. `ActiveGaugeAlwaysSound` from `ActiveInv`: halfway
  through, Flush's sum is at most the clients in the shards it has visited. Only
  Flush removes clients, and only from the shard it is at, so what workers add in
  between cannot make the sum too large.
- `CollectorConservationProofs`: what becomes of the counts. A number read off a
  set of counters (the requests of a country, of an ASN, ...) is `Linear`: zero
  when new, added by draining, raised by the same amount whatever was counted
  before. `Settled(p)`, what was counted less what the workers and Flush hold, is
  changed by no step but `PublishBreakdowns`, which adds Flush's share;
  `StepKinds` sorts the steps into counting, draining, publishing and the rest.
  From this `CountsAlwaysConserved`, and, each with the invariant that ties the
  metric to `Settled`: `DropsAlwaysCover` (`Covered`), `AsnTotalsAlwaysSound`
  (`AsnInv`: totals at most what has settled, equal to it as long as the ASNs seen
  fit; what pruning keeps is at most what it was given). `BreakdownsAlwaysAgree`
  needs no history: `BreakdownInv` says that every set of counters is `Aligned`
  (the four maps have one sum) and that the metrics are, up to the snapshot when
  Flush is between `Publish` and `PublishBreakdowns`; folding keeps the sum
  because every key has one label (`FoldSum`). `CountersAlwaysGrow` is an action
  property: every step adds a natural number to each counter.
- `SketchProofs`: `SketchUnique` (a set of keys has one sketch, whatever the order
  of adding and merging), `SketchesRepresentAlways`, `MergeRepresentsAlways`, for
  every hash, precision and number of hours. Adding a key and merging preserve
  `Represents`; `SketchInv` adds that the clones represent the keys cloned and the
  merged sketch those of the clones merged so far. `WindowAlwaysExact` and
  `WindowAlwaysHeals` from `WindowInv`, which speaks of single buckets: from a time
  u on, the bucket of an hour holds the clients of that hour exactly, and u is the
  beginning, or at most a silence after the clock was set. The windows themselves
  are not inductive: they say nothing of the bucket that the next hour reuses.
  The arithmetic of hours modulo the day is in six lemmas. From
  `WindowAssumption`: the ring is used at least once a day (`MaxGap` is less than
  `HoursPerDay`).
- `CaptureProofs`: `NeverMisused`, `NothingLeaks`, `GaugeWhileRunning` and
  `TypeCorrect`, from `Inv`. `Control`: where runCapture is tells which goroutines
  there are, `running` counts them, and `done` is closed once they are gone.
  `Ownership`: the open sockets are exactly those that some worker answers for (its
  place in `m.sockets`, the one it is about to put there, the one it took out),
  each for its own, or Open's local ones. `NoLeak` and `NoMisuse` alone are not
  inductive: they do not say that two workers never hold the same socket.
  `DropTallyImplemented`: step by step, the sum `KernelDrops` computes and the
  drops it has not seen yet develop as `DropTally` allows. Replacing a worker's
  socket takes one tally out of the sum and puts another in, which `Ownership`
  shows to be another socket's.
- `LocalIPsProofs`: `TypeCorrect`, `ListAlwaysKept`, `UpstreamNeverCounted` and
  `RepliesAlwaysAccepted`, from `Inv`: workers and the cache hold whole lists of
  the host, but for the empty one of a first lookup that failed. An upstream
  frame has none of the host's addresses at our end (`UpstreamRejected`), so no
  list a worker can hold accepts it. `FilterDecides`: the BPF program accepts a
  frame exactly if `Wanted` holds of it. `Assertion` says what is known of the
  frame and the registers before each of the twenty instructions; `StepSound`
  shows, instruction by instruction, that executing one establishes the assertion
  of the next or returns the right verdict. Jumps are forward, so after k steps
  the machine is past instruction k or has returned (`TraceSound`), and after
  twenty it has returned. From this and the parser's length checks
  `FilterAlwaysAgrees`, for every set of frames. `FilterDecides` assumes of the
  frame that an IPv4 header length is at least 5 words (`Regular`), since below
  that the ports would overlap the header; the parser rejects such a frame and
  `FilterAgrees` excepts it.
- `GeoIPProofs`: `LookupsUndisturbed`, `GaugeAlwaysTellsReader`,
  `ChecksAlwaysSpaced`, from `Inv`: who is in `reopenOne` holds `r.mu`, who reads
  does so with nobody in it, and from the first check on the gauge of every
  database but the one being reopened is right. `StaleAlwaysBounded`: only a purge
  makes results stale, and it empties the cache, so it leaves at most those of the
  workers other than the one that reopened; adding one to the cache moves it from
  the one count to the other.
- `NtpLoadProofs`: `SendsAccountedAlways`, `LossWithinSentAlways`,
  `NearestRankAlways` from `LoadInv` (cookies in `pending` are those numbered and
  not matched, the counts of replies are those of the workers by partial sums,
  and nothing moves once all loops have returned); `SocketsHeldAlways` from
  `SocketInv` (all sockets are open from the last dial until run has summed up,
  and a failed dial starts no loop);
  `NeverAheadAlways` from `PaceInv` (all that is left of a batch was due when the
  batch was begun).

Only model-checked:

- every liveness property: fairness is out of the prover's reach;
- `GaugesTellHistory`: what a poll publishes is a fold over the entries of the
  answer, and the claim needs induction over them;
- `TermReachesChronyd`: the constants of `Entrypoint` are only bounds on how often
  the environment acts, and the run explores all of the script.

`RepliesAccepted`, `NearestRank`, `ScrapeWhileRunning`, `GaugeTellsReader` and the types of `LocalIPs`
and `Capture` are proved and have no run.

## Not modelled

- The estimate of `hll.Count`: floating point. It reads the registers only.
- The decoding of a JSON value (`flexTS.UnmarshalJSON`, `ntppool.go:52-68`), the
  parsing of environment variables and flags, name resolution and printing:
  conversions of single values with no state.
- Prometheus itself, the metric declarations and the HTTP listener.
- The rendering of chrony's configuration in `entrypoint.sh`, owners and modes of
  files, and the script with NTS disabled, which is the same without the copy and
  the watcher.
- A transient failure of `SocketStats` on an open socket, see `DropTally`.
- Collector and Capture are composed through `DropTally` only: the product of the
  two is beyond TLC, and frames do not depend on which socket they came from.
- Dashboards, alerts, compose and Alloy files, CI, and the host-check and
  smoke-test scripts, which have no state.
