# Verification of georoute

TLA+ modules that model georoute, TLC configurations that model-check them on small
instances, and theorems about them that TLAPS proves for every value of the constants.
Every definition is translated from the Go source (`main.go`, `rollback.go`, `refresh.go`,
`cache.go`, `health.go`, ...); `PROJECT.json` names the lines of each one.

## The system

georoute keeps three things in step with the list of prefixes of a country: the nft sets
`<cc>_v4` and `<cc>_v6` (data plane), a block of `network` lines in `frr.conf`, and what FRR
advertises (control plane). One process serves one country; a host may run several.

| Component | State it keeps | Operations | Interacts with |
|---|---|---|---|
| process lifecycle (`realMain`, `work`) | lock, signal context, success bit | start, lock, bind, cycle, park, shut down, exit | lock file, loop, health server |
| per-country lock (`acquireLock`) | a flock | acquire or fail, release at close or death | all processes of the country |
| refresh loop (`refreshLoop`) | mutex, WaitGroup, ticker channel | dispatch, skip, drain | `work`, SIGTERM |
| cycle (`run`) | its locals | fetch, extras, aggregate, nft, read, splice, apply | everything below |
| fetch with retry | attempt, last error | fetch, wait, give up | RIPE Stat, the context |
| feed cache | a file and its age | write, read, fall back | fetch, `run` |
| extras loader | none | load, merge | `run` |
| range parser, aggregation | locals | split, sort, dedup, merge | `run` |
| rendering, splicing | none | render, replace a block | `run`, `frr.conf` |
| nft apply | the sets, in the kernel | one `nft -f -` transaction | `run` |
| FRR apply and rollback | staged file, backup | check, back up, write, reload, restore, resync | `frr.conf`, vtysh, frr-reload.py |
| atomic file writes | temporary file | create, write, close, rename | live file, cache, marker |
| health server, marker | listener, last-success file | bind, serve, shut down, stamp, check | `work`, orchestrator |
| targets, IOS XE over SSH | the router's running and startup configurations | guard, dial, type the script, verify, save | `run` (instead of nft and FRR) |
| metrics, logging | counters | count, log | nothing reads them back |

What is hard about it:

* Two countries' instances hold different locks and share one `frr.conf` and one FRR. Each
  reads, splices, checks, backs up, writes, reloads, restores, with others in between.
* Every step of a cycle may fail, be killed by its context (SIGTERM, the five-minute budget)
  or be cut off by the death of the process. The rollback is a second sequence of such steps.
* nft is changed before FRR and is no part of the rollback.
* A cycle that finds `frr.conf` unchanged does not look at FRR.
* Ticks come while a cycle is slow or hangs; SIGTERM comes while one is under way.
* What the cache, the marker and the applied state are each of a different age.
* CIDR arithmetic at the ends of the address space.
* `splice` finds a block by the first occurrence of two strings in a file that belongs to the
  operator and to other countries, too.
* A router executes a script line by line, refuses lines without saying so in the exit status,
  and may stop answering at any point; nothing rolls it back.

The full list of hazards, with the line where each bites, is in `PROJECT.json`. What makes
each component correct:

| Component | Correct if |
|---|---|
| cycle and FRR apply | FRR advertises only what the nft sets mark; the live file is always one that `vtysh -C` accepts; a cycle that returns nil has applied what it fetched, one that fails leaves the file alone; a restored file is also the running configuration; no country's block is changed by another's cycle; transient failures leave nothing behind |
| refresh loop | one cycle at a time; none after the loop has returned; SIGTERM ends it; a hung call does not end the refreshing |
| lock, lifecycle | one process of a country cycles; SIGTERM ends a process; cycles go on whatever process dies or fails |
| fetch, cache | a failed fetch is bridged by the newest feed anybody got, just as long as it is young enough; the nft sets never get older data; readiness bounds the age of what was applied |
| ranges, aggregation | exactly the addresses given, in the fewest prefixes |
| atomic writes | a reader sees the old or the new file, whatever dies |
| splicing | every other block, and every line outside of blocks, stays as it is; the block has the wanted networks, each on a line of its own |
| IOS XE | nil means that the router has loaded the list, whatever earlier cycles have left in it; only a verified state is saved; never past the prefix limit; a cycle ends |

## Modules

| Module | Models |
|---|---|
| `RunCycle` | `run`, `applyNft`, `applyFRRConfigOpts` and the two programs it starts, for all countries on one host |
| `AllOrNothing` | abstract: a cycle replaces file and running configuration together by a valid one, or neither |
| `RefreshLoop` | `refreshLoop`: loop, goroutines, mutex, WaitGroup, ticker; calls that may hang |
| `SerialCycles` | abstract: one cycle at a time, none after the loop has returned |
| `FeedCache` | `fetchWithRetry`, `fetchWithCache`, the cache file, the steps of `run` by the flags that decide whether nft is touched, the ages of cache, nft sets and marker |
| `Lifecycle` | `realMain` from the lock to the exit code, for all processes of a country |
| `Addresses` | the `net/netip` operations the code uses, `lastAddr`, and the reference for a minimal cover |
| `Ranges` | `rangeToCIDR`, one action per step of its loops |
| `Aggregate` | `aggregate` and `canMerge`, one action per step of their loops |
| `FeedList` | `parsePrefixes` and the list that `run` makes: composes `Ranges` and `Aggregate` |
| `ConfFile` | the text of `frr.conf`: `splice`, `renderNetworks`, `atomicWrite`, backup and restore, for several countries |
| `SharedFile` | abstract: a file of blocks, replaced whole by a copy in which one country's block differs |
| `IOSXEApply` | `runTarget`, the SSH session, and the router that executes the script |
| `MCRunCycle`, `MCLifecycle`, `MCFeedList`, `MCConfFile`, `MCIOSXEApply` | instances for TLC |
| `RunCycleProofs` | theorems about `RunCycle`: any countries; one instance; one instance that is not cut short |
| `RefreshLoopProofs`, `FeedCacheProofs`, `LifecycleProofs`, `IOSXEApplyProofs`, `ConfFileProofs` | theorems about the module of that name |
| `AddressesProofs` | lemmas about prefixes: powers of two, nesting, halves, siblings |
| `FeedListProofs` | theorems about `Ranges`, `Aggregate` and `FeedList` |

The modules fit together by assumption and guarantee. `Lifecycle` shows that one process of a
country runs, `RefreshLoop` that the cycles of one process are serial; `RunCycle` therefore
has one cycle per country. `RunCycle` takes the feed a cycle gets from `FeedCache`'s outcome
(fresh, cached, failed) without ages. `FeedList` shows that the list covers exactly the
addresses of the feed and the extras in the fewest prefixes, so that it is a function of
those addresses and a text that did not change means a set that did not. `ConfFile` shows that
the text of the shared file behaves as `SharedFile` says, and `SharedFile` is how `RunCycle`
takes it: a block is a set, a splice replaces one block of the copy, a write puts the copy in
place in one step.

### RunCycle

State: `feed`, `nft`, `frr` are outside of georoute; `cache` and `conf` are files; the rest
are the locals of each country's `run`. A prefix is a model value; a configuration file is the
set of prefixes of each country's block (v4 and v6 together: they are read, spliced and
written together), because that is all georoute changes or compares in it. `Valid` are the
files that `vtysh -C` accepts: the code knows nothing else about validity.

Each action is a step between two points where another instance, a signal or a death can
come in: external calls, reads and writes of the shared file. Reading `frr.conf`, splicing and
comparing is one action (the file is read once), and so is staging with the check. Starting
and ending a reload are two (`BeginReload` takes the difference of file and running
configuration, `ReloadSucceeds` issues it), since frr-reload.py computes what to change when
it starts. A reload that fails or is killed has issued any part of its difference. A killed
`nft` may have committed or not, but never a part. `Cancel` is the end of the context; it makes
every later command fail (`exec.CommandContext` does not start one under a context that is
done) but not file operations, as in the code. `Crash` is the death of the process anywhere,
and of the program it has started, as when systemd kills the unit's control group.

Not in it: the other targets (`IOSXEApply`); a deleted `frr.conf` (the code's path without a
backup is reached only if the file disappears between two reads of one cycle).

### RefreshLoop

A cycle is the sequence of calls it makes; `After` is their order. `hung` says that the call
will not answer by itself; `Answers` that its own deadline (`Bounded`) or the end of the
loop's context still makes it return. `target` selects the calls of the FRR target or those of
an SSH session; of the latter, "setup" (the handshake, the session, the terminal and the shell)
is ended by nothing: `ssh.NewClientConn` works on a connection without a deadline, and `runCtx`
is looked at only once the script runs. `Worker` bounds the goroutines alive at a time.

### FeedCache

Ages are counted in units that are short against the maximum ages and long against a cycle;
they stop at `Top`, past everything the code compares with. An error is a class of answer, and
the classes are those that `fetch` and `isClientError` tell apart.

`run` returns nil, and the marker is stamped, on a dry run, with `--nft=false`, for another
target, and whether or not FRR had to be reloaded. `mode` is how the process of a cycle was
started in this respect, and each cycle may be another's: cache, marker and sets are the host's.
`dataAge` is the age of what is in the nft sets, changed by `NftApplied` (or a killed nft) only.
Three variables are history: `heard`, the last status the upstream answered with; `fedAge`, the
age of the newest feed any cycle went on with; `by`, the mode of the cycle that wrote the marker.
What FRR has is not in this module: `RunCycle` says when it agrees with the sets.

### Lifecycle

`Mode` holds the flags that decide where a process goes after a cycle. The lock is a set of
holders, so that exclusion is a property and not a type. SIGTERM is an action where it is caught
(loop, park) and a `Killed` elsewhere, as in the code, which installs no other handler. A cycle
may hang (`Hangs`) in one of the calls that `RefreshLoop` finds without a limit of their own:
`vtysh -C`, which the end of the context kills (SIGTERM in a daemon, five minutes in a oneshot
process), and the SSH setup of `--target=iosxe`, which nothing ends.

### Addresses, Ranges, Aggregate, FeedList

Addresses are numbers of `Width` bits and a prefix is a record of an address and a length, so
that alignment, the last address and its missing successor are the code's. `Sorted` says what
`sort.Slice` returns by the place each element goes to. Addresses of the
two families never meet in one call of either algorithm. `FeedList` is the sequence of both: a
feed is any prefixes and at most one range, the range is split by `Ranges`, and what comes out
is aggregated with the prefixes and the extras by `Aggregate`. A range that runs backwards
stands for a feed without one.

### ConfFile, SharedFile

A file is a sequence of tokens: markers with their indentation, network lines, line ends, other
text. `Splice` is the code's: the first BEGIN, a line end right after it, the body with a line
end, the rest from the first END. Markers are tokens because a marker is a fixed string of a
country and a family, none of which contains another: so it is with the default prefix
`<CC>-FEED`, and an operator who gives `-marker-prefix` has to see to it
(`TokensAssumption`). Each action is a step between two points
where another instance or a death can come in. `atomicWrite` is one step or none: its temporary
file has a random name that nothing reads, and the rename is assumed to be atomic and durable.

`Foreign` is what lies outside of all blocks, each token with its rank there, so that no token
may come, go, or change places. Two conditions on the file an operator has prepared are named:
`BlocksApart` (no marker inside of another block) and `BeginEndsLine` (nothing but a line end
behind BEGIN). `MCConfFile` assumes them of its layouts (`PreparedAssumption`), and
`ConfFile_crossed` and `ConfFile_remark` show what happens without.

The refinement maps the text to its blocks, as FRR reads them: the networks between the first
BEGIN and the first END that start a line. A cycle's spliced text is the abstract plan, its
backup the abstract copy.

### IOSXEApply

The process' actions are those of `runTarget` and of one call of `runIOSXESSHScript` for the
script and one for the save. A candidate line is a number: 0 removes the old list, 1 to P are
the entries, P+1 the deny tail, then the routes, the lines of the policy (`PolicyLine`: each
route-map, its match, the redistribution) and the shows of the postcheck; `Effect` says what
each does to the router, `Sent` which are in the candidate under the flags, which give a next-hop
and a BGP AS separately. `LastNamed` is the line by which all names the postcheck requires have
been echoed: with a next-hop and no BGP AS it is not the last one. `heard` is what the output
contains of what `verifyIOSXEApplyOutput` looks for: a refusal, and the names.

The router is outside of `src/` and modelled as the code relies on it: it executes lines in
order, an entry replaces the one of its sequence number, a list is searched by number and ends
with an implicit deny, a list that does not exist permits everything, the shell echoes what is
typed, and a session that is over executes nothing more. Faults let it refuse any line (with a
text the code looks for, or, "mutter", with another one), end the session early ("cut",
"cutSave"), lose the connection, or fall silent. The text of `--target=file` sent to it (a
list of prefixes without commands) is refused line by line.

## Runs

Each run checks one instance against what it promises. Deadlock is checked in all of them.

| Run | Shows | States |
|---|---|---|
| `RunCycle_shared` | two countries, all faults but a failing cache write, growing feeds: `AdvertisedIsMarked`, `LiveConfValid` | 728 k (with symmetry of countries) |
| `RunCycle_single` | one country, two prefixes, all flags, all faults, feeds that also shrink: `FailureKeepsConf`, `RestoredIsInSync` | 180 k |
| `RunCycle_transaction` | one country that is neither cancelled nor killed, and whose rollback works: `SuccessMeansApplied`, refinement of `AllOrNothing`; under fairness, `Heals` | 0.9 k |
| `RefreshLoop_hangs` | three goroutines, both targets, any call may hang: `OneAtATime`, refinement of `SerialCycles`, `StopsWhenDone`, `OneshotEnds`, and `OnlyCheckStalls`: of all calls only `vtysh -C` and the SSH setup can stop the refreshing | 1.7 k |
| `FeedCache_upstream` | three attempts, maximum ages 3 and 2, all answers, a cache that can be written and read, cycles that apply, leave nft alone, are dry or have another target: `ReadyBoundsAge`, `NeverGoesBack`, `OutageBridged` | 494 k |
| `Lifecycle_processes` | two processes, both targets, daemons and oneshot, with and without a server, all faults: `OneRuns`, `SigtermEnds`, and `OnlyParkedOrStuck`: nothing that ends a process keeps the next from the lock, only one that parks or is stuck in a call without a limit does | 4.9 k |
| `FeedList_any` | all sets of 3-bit prefixes, with and without extras, up to two of them with any range: `EmitsLeftPart`, `SplitsMinimally`, `ListCoversFeed`, `AggregatesMinimally`, `Returns` | 1.2 M |
| `IOSXEApply_apply` | flags that apply, with and without a replacement, a save, a BGP AS, and a next-hop with it, and those that do not; lists up to one over the limit; all faults but "mutter" and "cutSave": `SuccessMeansLoaded`, `SavedIsVerified`, `OnlySetupStalls` | 1.8 M |
| `ConfFile_shared` | two countries on one file, three layouts an operator may have prepared, all faults: `ForeignTextKept`, refinement of `SharedFile` | 37 k |

Why the bounds are enough. Two countries are the least at which blocks are lost; a third adds
only another such writer. One prefix per country suffices to tell an empty from a full block
and an old from a new one; runs about partial reloads have two, so that a part of a difference
exists. Three goroutines are the running one, the one that is skipped and the one dispatched
next. Three attempts have a first, a middle and a last one. 3-bit ranges include every
alignment, both ends of the space, and the range of all of it; 3-bit prefixes need three passes
of merging, one more than the pass that first shows whether passes are repeated. Up to two
prefixes come with a range (`Mixed`): one before and one after it in the order of addresses, or
one that contains the other; what more of them do to each other is covered by the feeds without
a range. The extras are a prefix that repeats the feed's and one that contains half of it.

The router's lists have up to `MaxPrefixes` = 2 entries and one list has one more, so that the
limit is met, kept and exceeded; two entries are the least of which a part can be loaded. With
`SeqStep` = 2 and `DenySeq` = 5 the third entry (6) is the first one behind the deny tail, as
the 100000th is with the numbers of the code, 10 and 999999. An entry moves to
another number from one list to the next and another takes its place, so that a list left behind
by an earlier cycle shows. The flags that touch different parts of the router are not all
combined (`MCFlags`): a BGP AS comes with a save, a next-hop with a replacement. The layouts of
`MCConfFile` have the families the other way round with a block that is there twice, a missing
block, and swapped markers; the wanted texts are an empty one, one network, and two.

`MCValid` rejects one file, the one with every prefix in every block, so that a check can fail
on a file that two valid writers compose. `FeedCache_upstream` leaves out cache files that
cannot be read or written, because `OutageBridged` needs both and `NeverGoesBack` the second;
that `ReadyBoundsAge` holds with them, too, is the theorem `ReadyDataIsBounded`. What a failing
cache write does to the other two is not covered.

### Where the code does not do what it says

Three runs end in a counterexample. `findings` in `PROJECT.json` quotes the sentence that each
refutes.

| Run | Property | What happens |
|---|---|---|
| `RunCycle_lost_update` | `OwnBlockOnly` | the lock is per country, `frr.conf` is not: a block is overwritten with what it was |
| `RunCycle_sigterm` | `DrainedInSync` | SIGTERM kills frr-reload.py, and the rollback's reload has the same context |
| `RunCycle_crash` | `SuccessMeansApplied` | dead between write and reload; the next cycle finds the file unchanged and skips |

Further configurations show consequences and smaller matters, each with a counterexample;
they are kept for reading and are run by hand (`tlc -config RunCycle_shrink.cfg MCRunCycle`).

| Configuration | Module | Property | What happens |
|---|---|---|---|
| `RunCycle_stale_frr` | `MCRunCycle` | `Heals` | after a lost update all cycles return nil and a country is never applied for good |
| `RunCycle_staged` | `MCRunCycle` | `ReloadPushes` | a file staged with `--reload=false` is never pushed, since the next cycle finds it unchanged |
| `RunCycle_planes` | `MCRunCycle` | `PlanesAgree` | a failed reload is rolled back, the nft sets are not |
| `RunCycle_shrink` | `MCRunCycle` | `AdvertisedIsMarked` | a prefix that leaves the feed is unmarked before it is withdrawn |
| `RunCycle_rollback` | `MCRunCycle` | `FailedReloadLeavesNext` | a failed reload has its file rolled back; the documentation says that it stays |
| `Lifecycle_parked` | `MCLifecycle` | `CyclesGoOn` | a parked process keeps the lock from the timer's next one |
| `Lifecycle_hangs` | `MCLifecycle` | `OnlyParkingStops` | so does a daemon whose `vtysh -C`, or SSH setup, hangs |
| `RefreshLoop_vtysh_hangs` | `RefreshLoop` | `KeepsRefreshing` | `vtysh -C` has no deadline in a daemon |
| `RefreshLoop_silent_router` | `RefreshLoop` | `SigtermReturns` | SIGTERM does not end a process whose router is silent between the connection and the shell |
| `FeedCache_transient` | `FeedCache` | `RateLimitFallsBack`, `ServerErrorFallsBack` | 429 counts as an operator's error, and so does a 5xx whose body has "status=4.." (`-continue` shows both) |
| `FeedCache_unreachable` | `FeedCache` | `UnreachableFails` | an upstream that cannot be reached does not end a cycle with an error while the cache is young; the documentation says that it does |
| `FeedCache_dry_run` | `FeedCache` | `AnyReadyBoundsAge` | a dry run stamps the marker: a host is ready whose nft sets are as old as you like, or empty |
| `FeedCache_masked` | `FeedCache` | `ClientErrorSurfaces` | a context that ends in the wait for a retry hides the 404 before it |
| `IOSXEApply_handshake` | `MCIOSXEApply` | `SessionsTimeOut` | `--iosxe-ssh-timeout` does not cover the handshake and the setup of the shell |
| `IOSXEApply_empty_feed` | `MCIOSXEApply` | `EmptyListDeniesAll` | an empty list replaces the old one by none at all, and the route-map permits everything |
| `IOSXEApply_no_limit` | `MCIOSXEApply` | `SuccessMeansLoaded` | without a limit, an entry comes behind the deny tail |
| `IOSXEApply_next_hop` | `MCIOSXEApply` | `SuccessMeansLoaded` | with a next-hop and no BGP AS, a session that ends behind `route-map .. permit` counts as applied; without its match the route-map permits everything |
| `IOSXEApply_unheard` | `MCIOSXEApply` | `SuccessMeansLoaded` | a refusal in words the code does not look for counts as applied or saved, and a save session that ends before the command as saved |
| `ConfFile_crossed` | `MCConfFile` | `ForeignTextKept` | blocks that overlap: a splice cuts out the other country's marker |
| `ConfFile_remark` | `MCConfFile` | `ImplementsSharedFile` | a remark behind BEGIN on its line ends up in front of the first network, which FRR then does not read |

Two of these refute a sentence of `docs/CONFIGURATION.md`, section "Failure modes", which
describes the program from before it had a rollback and a cache. Line 205: "`frr-reload.py`
syntax error. `georoute` already wrote the new `frr.conf`. Inspect, fix, and either revert
[...] or hand-edit." The code puts the backup back and reloads it (rollback.go:118-133), which is
what `FailureKeepsConf`, `RestoredIsInSync` and `ApplyIsAllOrNothing` say; the sentence is true
only of a restore that fails. Line 199: "RIPE Stat unreachable. Run exits with code 1." The code
falls back to the cache (cache.go:166-177), which is what `OutageBridged` says. Line 183, that
exit code 0 means "Either nothing changed and we skipped, or change applied", is refuted by
`RunCycle_crash` above.

The assumptions of the passing runs are these findings turned around: `AdvertisedIsMarked`
needs feeds that only grow and a cache that is written (a fallback to an older cache shrinks
the list, too), `SuccessMeansApplied` and the refinement of `AllOrNothing` need a process that is
not cancelled or killed, and all but the properties of `RunCycle_shared` need one instance on the
host; `ReadyBoundsAge` needs a marker that an applying cycle wrote; `OutageBridged` takes what
the code takes for a client error as given; `SuccessMeansLoaded` needs a list that is not empty,
a limit, no next-hop without a BGP AS, and a router that names its refusals and does not end a
save early.

## Fairness

Safety is checked without any. For liveness:

* `RunCycle`: weak fairness of the cycle's own steps (the goroutine is scheduled, and nft and
  frr-reload run under deadlines) and of the next cycle's start (timer or ticker). `Heals` says
  by itself that from some point on no cycle fails and the feed is stable: nothing in the code
  makes either come true, and while the feed changes the host is always behind it.
* `RefreshLoop`: weak fairness of the loop, each goroutine and the ticker. `SelectDone` and
  `SelectTick` separately: Go's select chooses at random, so neither is passed over for ever.
  The oneshot context has a deadline, hence fairness of `oneshot /\ Cancel`; nothing makes
  SIGTERM come.
* `Lifecycle`: weak fairness of a process's steps, the timer and the ticks, strong fairness of
  `Released` for the same random select. A process may be killed but need not be.
  The steps of a cycle that hangs without a limit are disabled, so that fairness does not end it
  (`Stuck`); that all other calls end is what `RefreshLoop` shows. `OnlyParkedOrStuck` exempts
  mishaps that recur for ever (an address that cannot be bound, a lock file that cannot be
  opened, kills): no program runs cycles through those.
* `FeedList`: sequential code that runs until it returns.
* `IOSXEApply`: weak fairness of the process's and the router's own steps, all of which are
  disabled when the router has fallen silent, and of the timer of `runCtx`. Nothing makes the
  environment cancel, answer again, or crash the process.
* `ConfFile`: none; its properties are safety.

## Proofs

tlapm checks every proof to the last leaf; nothing is assumed but the named assumptions on the
constants.

* `RunCycleProofs!MarkedBeforeAdvertised`: `AdvertisedIsMarked` for any countries and
  prefixes. The property is not inductive: a reload issues a difference that was taken before,
  from a file that another country may have written since. The strengthening adds that for
  every country what the file, every spliced file, every backup and every pending difference
  hold for it is marked, and that what is marked is within its feed and extras, so that a
  later cycle only marks more. `GrowOnly` names the assumptions: feeds do not shrink, cache
  writes do not fail, every instance updates nft.
* `RunCycleProofs!ConfStaysValid`: `LiveConfValid`, for instances that all check
  (`reloadOK`). Strengthening: what a cycle is past checking, and every backup, is valid.
* `TypeCorrect` of `RunCycleProofs`, `RefreshLoopProofs`, `FeedCacheProofs`, `LifecycleProofs`,
  `IOSXEApplyProofs`, `ConfFileProofs`, and `FeedListProofs!FeedTypeCorrect`: the types, on which
  the others rest.
* `RunCycleProofs!FailuresKeepConf`, `RestoredInSync`: `FailureKeepsConf` and
  `RestoredIsInSync` for one instance on the host (`Single`), any prefixes, flags and faults.
  Strengthening: up to its write the cycle finds the file as it was when it started, the backup
  is that file, and a reload under way has the whole difference of file and running
  configuration in hand.
* `RunCycleProofs!SuccessIsApplied`, `CyclesAreTransactions`: `SuccessMeansApplied`
  and the refinement of `AllOrNothing`, for one instance that updates nft, whose cycles are
  neither cancelled nor killed and whose rollbacks work (`Reliable`). Strengthening: between
  cycles, and up to the write of one, FRR runs the file; from there on the file is the checked
  one, with the block that nft has. Steps between the start and the end of a cycle are stutters
  of `AllOrNothing`, its end is a commit or an abort.
* `RefreshLoopProofs!CyclesExclude`, `LoopRunsSerially`: whoever works holds the mutex, and the
  mutex has one holder; once the loop has returned there is no goroutine. From these every step
  maps to a step of `SerialCycles` or a stutter.
* `FeedCacheProofs!ReadyDataIsBounded`: if an applying cycle wrote the marker, the data in the
  nft sets is at most `CacheMaxAge` older than it, and while a cycle of that mode is past nft, at
  most `CacheMaxAge` old. `DataNeverGoesBack`, when cache writes do not fail: the cache holds the
  newest feed that any cycle went on with, which is never older than the data, and what a cycle
  has in hand is that feed. `OutagesAreBridged`, when reads do not fail either, from the same
  invariant.
* `LifecycleProofs!OneProcessRuns`: who is past `acquireLock` holds the lock, and the lock has
  one holder.
* `IOSXEApplyProofs!SuccessLoads`, `SavesAreVerified`: `SuccessMeansLoaded` and
  `SavedIsVerified` for any lists, flags and numbers, if refusals are named and saves not cut
  (`TellsRefusals`), the limit keeps the list below the deny entry (`TailStaysLast`), and a
  next-hop comes with a BGP AS (`LastLineIsNamed`).
  Strengthening: as long as nothing refused has been heard, the router has executed every line
  up to the present one, so that after the last one it has the list; nothing but the session
  changes it until the save.

* `FeedListProofs`, for any `Width`, feed, range and extras. `RangeLeftPart`, `RangeMinimal`:
  what `rangeToCIDR` has emitted is ascending, has no siblings and covers the range up to where
  it stands; the prefix it is widening is aligned and within the range, and one that could not
  be widened is not the right half of a prefix within the range. `ListCovers`,
  `AggregateMinimal`: what the dedup and the passes have in hand is ascending by address
  without overlaps, and covers what was given; a merged pair is the two halves of its parent;
  the last pass has found no siblings. `MinimalList` ties both together: a list that is
  ascending and has no siblings is the minimal cover of its addresses, because a prefix that
  several of them cover would have both its halves covered by some, and so on down to two
  siblings. Loops over data of any size are no obstacle here, because the
  invariants speak of the list as it is at each step, never of what a recursion returns; the
  induction over the length of prefixes is a theorem about sets of numbers (`SetInduction`),
  which needs no operator parameter. `SameAddressesSameList`: the list depends on the addresses
  alone, so that `run` may compare texts.
* `ConfFileProofs!KeepsForeignText`: `ForeignTextKept`, if each file an operator may have
  prepared is `BlocksApart`. A splice is a cut (`Cut`): what stays is moved by one distance
  behind it, no marker goes or comes, and so the first BEGIN and END of each block, and with
  them the inside and the outside of all blocks, move along (`FirstMoves`, `SpanMoves`).
  Strengthening: the file and every copy a cycle holds are `BlocksApart` and have the foreign
  text of the original; a text is never made up, it is one there was or the file with blocks
  spliced in (`TextsStep`).
* `ConfFileProofs!ReaderSeesSharedFile`: the refinement of `SharedFile`, if they are
  `BeginEndsLine`, too. A splice leaves the networks of the other blocks, and in its own puts
  the wanted ones, each behind a line end (`SplicedBlocks`). Read and splice are a plan, a
  passed check keeps a copy, a write that a reload follows puts the plan in place, and every
  way to return, with or without a last write, leaves; a reload that fails is a stutter.

* `ConfFileProofs!NextCycleSkips`: on such files, splicing what is there already changes
  nothing, also when another country's blocks have been spliced since: a block is before or
  behind another one and moves as a whole (`OthersHold`). This is the other half of `run`'s
  comparison of texts, next to `SameAddressesSameList`: no needless reload, and no splice that
  fails on the result of an earlier one. It needs the hypotheses of the two theorems above
  for the text it starts from.

The runs check the strengthened invariants' consequences; each was also checked by TLC on its
run's instance before it was proved (`FeedInv` with 2-bit addresses).

Only model-checked: the liveness properties (`Heals`, `StopsWhenDone`, `OneshotEnds`,
`OnlyCheckStalls`, `SigtermEnds`, `OnlyParkedOrStuck`, `Returns`, `OnlySetupStalls`), which are
out of TLAPS's reach here. Every safety property of a passing run is a theorem.

## Not modelled

* Metrics and logging: nothing in the program reads them back.
* The defaults and the parsing of flags; the line syntax and the size limits of extras: they
  decide which flags and prefixes there are, and the models take any.
* The text of prefixes (net/netip), HTTP requests in flight and the mux (net/http).
* The VRF leak map, tags and names of the IOS XE candidate: more lines of the same kind. Two
  countries on one router and BGP AS, of which the later cycle's redistribution replaces the
  earlier one's (a hazard without a property): the router model has one country's policy.
* A child that outlives its parent: when georoute alone is killed in a manual run, nft or
  frr-reload.py goes on and may overlap the next cycle's (a hazard without a property).
* Power loss: what a rename without fsync leaves is up to the file system. A reboot, after which
  nft is empty and the marker is not: what restores the sets is outside of the repository's code.
* systemd units and the nft table: the timer appears as the start of a process and as the
  fairness of the next cycle.

## Plan

Done, in this order: `RunCycle` with its proofs, `RefreshLoop`, `FeedCache`, `Lifecycle`,
`Ranges` and `Aggregate`, composed in `FeedList`; `IOSXEApply` with its proofs; `ConfFile` with
`SharedFile`; the proofs for one instance; the proofs about prefixes, ranges and
aggregation; the proofs about the text of `frr.conf`.

Next, by importance:

1. A composition of `FeedCache` with `RunCycle`'s order of steps, with ages, so that readiness
   bounds what FRR announces and not only what a cycle applied.
2. Two countries in `IOSXEApply`: route-maps and the one redistribution by name.
