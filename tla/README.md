# A TLA+ verification of caching-in-llms

The repository measures what a KV-cache-aware router buys on a fleet of vLLM
engines. Its own programs are two:

* **the patches** (`src/patches/`): a replacement of LMCache's chunk table
  (`kv_controller.py`) and of the vLLM router's `routing_logic.py` and `parser.py`, which
  add the policy `loadaware` to the baselines `kvaware`, `session`, `roundrobin`,
  `prefixaware` and `disaggregated_prefill`;
* **the harness** (`src/benchmarks/`, `src/deploy/dev/`): the scripts that start a
  fleet cold, replay seeded workloads inside the cluster, carry the results out
  through a pod's log and analyse them.

The modules here model both, TLC checks them on small instances, and TLAPS proves
for every instance all that is safety: of the chunk table and its lookups, of every policy, of
the registry and the command line, of the cold start, the cell script and the collection of a
cell. Paths below are relative to `src/`.

## 1. Inventory

| component | state it keeps | operations | meets | what is hard | what makes it correct |
|---|---|---|---|---|---|
| **KVController** `patches/lmcache/.../kv_controller.py` | `kv_pool`, an insertion-ordered dict: chunk key → list of (instance, worker, location) | `admit`, `evict`, `deregister`; `lookup`, `batched_p2p_lookup` | engines report to it; routers look up in it | reports run on the controller's thread, `lookup` on the request loop, no lock; a `del` inside the iteration | credit is a gapless prefix per instance, never invented, never lost; no key without a holder; a departed worker is forgotten |
| **LoadAwareRouter** `routing_logic.py:433-763` | `instance_id_to_ip`, the *bridge* from instance ids to URLs | `route_request`: lookup, staleness test, one awaited question per endpoint, score, choose | lookup on the controller, questions to the registry, statistics of the request monitor, endpoints of service discovery | engines crash, restart under a new id and admit between two awaits | a live holder is scored with its own match; refreshes have a cause; the choice is the best score, never an overloaded engine; every refresh ends with one |
| **KvawareRouter** `:273-430` | a bridge of the same kind | `route_request`: follows the first name of the lookup | as above | as above; the bridge is indexed with an id it may not have | the bridge raises only for an id that no listed engine has; never another engine's URL |
| **RoundRobinRouter** `:176-216` | a sorted copy of the endpoint list, the `id()` and the hash of the last one, a counter | `route_request` | service discovery | the `id()` of a freed list is given to the next one | turns even, a changed list is seen |
| **SessionRouter** and the fallback routes `:99-142, 219-270` | the hash ring's nodes | ring update, session route, least-QPS route | the ring library (external) | the ring is updated only by the requests that use it | a session moves only for a cause |
| **PrefixAwareRouter** `:766-842` | the hash trie of another package, which knows the engines of each prefix | `route_request`: question, random choice, insertion | the trie (external), endpoints of service discovery | the trie is awaited twice, so requests interleave between question and insertion, while engines come and go | a prompt goes to an engine that was sent most of it |
| **DisaggregatedPrefillRouter** `:845-885` | the labels it was made with | `route_request`: two filters | command line and watcher give the labels, discovery the labelled endpoints | the labels are optional, and read only by a request | a request gets an engine of its role |
| **Router registry** `:889-970` | one singleton per policy, the controller task of two of them | `initialize`, `reconfigure`, `get`, `cleanup` | requests ask while the watcher thread reconfigures | the window between cleanup and initialisation; either can raise half way; a request tests for a class and calls it later | requests get the configured router or none; no controller task is left behind |
| **Command line** `parsers/parser.py` | none | `parse_args`: options, a configuration file under them, checks | argparse (external), the registry | choices are literals beside the enum and the constructors; a file's values escape the choices | what is accepted starts, and every policy can be asked for |
| **Job collection** `in_pod.sh`, `collect_job.py`, `bench_job.sh` | the pod's log; the collector's parse state and results directory; the script's position | replay, print, follow, wait, fetch, parse, write | the log is the only channel | the link drops, a log is cut or damaged, pods are killed, writes are interrupted | what is collected is what was measured; a Job that ended is settled |
| **Cold start** `cold_start.sh` | the script's position, the live pods it read; the engine pods and the router's log | drain, restart, scale, wait, assert | engines, router, `kubectl` | engines move between any two commands; registrations are counted as lines; a failed `kubectl` can read as an empty answer | no dead registration, no engine older than the router, no unknown engine |
| **Cell script** `run_cell.sh`, `apply-` and `revert-router-patch.sh` | the router's deployment, the overlay's ConfigMap | upgrade, revert, set environment, settle, cold start, warm-up, measure | `helm`, the cold start, job collection | cells fail half way and leave their deployment to the next | a cell measures what it is named for, on the router it warmed up, and ends |
| **Load driver** `load_driver.py`, `warmup.py`, `rate_pilot.sh`, `load_gate.py`, `scarcity_gate.sh` | the requests in flight, the rows measured | open-loop schedule, one streamed request | the router | lateness, streams that break off | not modelled |
| **Analysis** `analyze.py`, `utilization.py`, `export_summary.py` | none: functions of CSVs | exclusion, pairing, rates, tests | the results directory | boundaries of thresholds, counter resets, gaps in samples | not modelled |
| **Workloads, collectors, plots, sweep and helper scripts, test doubles** | files | generation, polling, figures, `kubectl`/`helm` in sequence | – | – | not modelled |

The hazards of `PROJECT.json` place each difficulty at its line and name the
properties that cover it.

How the parts meet: an engine registers its instance with the controller and then
reports the chunks it admits and evicts; the controller (its own thread and event
loop inside the router process) keeps both tables. A request enters the configured
router, which asks the controller which instances hold its prompt (`lookup`),
translates ids into URLs through its bridge, and refreshes the bridge by asking the
controller about every endpoint. The harness sees none of this: it replays prompts
and reads what the pod printed.

## 2. The modules

| module | models | built on |
|---|---|---|
| `Lists` | `Without`, the list comprehension of evict and deregister | – |
| `Holdings` | **abstract**: the relation chunk–holder, with admit, evict and a deregister that may forget any part | – |
| `KVController` | the chunk table; a handler without `await` is one action; `lookup` and `batched_p2p_lookup` as recursive functions over the prompt | `Lists`, `Holdings` (instance) |
| `ConcurrentLookup` | `lookup` one step per test and per read, the reports of the other thread between them | `KVController` |
| `KvawareMatch` | kvaware's band applied to the lookup of the chunk table | `KVController` |
| `Fleet` | external: engine processes, the registry's answers, and which processes the chunk table names | – |
| `Bridge` | `instance_id_to_ip`: put, read, and the inversion that `loadaware` uses | – |
| `LoadAwareSelect` | the scoring of `loadaware` in exact ratios | – |
| `Placement` | the load feedback: each decision raises the load the next one reads | `LoadAwareSelect` |
| `LoadAwareRouter` | `route_request` of `loadaware`, one action between two awaits | `Fleet`, `Bridge`, `LoadAwareSelect` |
| `KvawareRouter` | `route_request` of `kvaware`, the same way | `Fleet`, `Bridge` |
| `RoundRobin`, `SessionFallback` | the baselines without a cache | – |
| `PrefixAware` | `route_request` of `prefixaware`, cut at its awaits | – |
| `Disaggregated` | the two filters of `disaggregated_prefill` | – |
| `CommandLine` | the options, the file, the defaults and the checks of `parse_args`, as operators | – |
| `RoutingRegistry` | singletons, reconfiguration, controller tasks, and requests that overlap a replacement | – |
| `Baselines` | the router process: a command line starts a policy, the watcher replaces it, requests meet what is registered, over one discovery; a policy that is deregistered takes its memory with it | the six above |
| `InPod` | the pod of one cell and the lines it prints | – |
| `CollectJob` | the collector: one action per kind of line, per check, per file | `InPod` |
| `Engines` | external: engine pods, their processes, and the router's log of registrations | – |
| `ColdStart` | `cold_start.sh`, one action per command, start after start | `Engines` |
| `RunCell` | the router's deployment through cell after cell; the engines are counted and the cold start is told in four steps | – |
| `BenchJob` | the laptop's script, the link, damaged logs, interruptions; the three programs together | `CollectJob` |
| `KVControllerProofs` | theorems about the chunk table, its lookups and the concurrent lookup | `ConcurrentLookup` |
| `BaselinesProofs` | theorems about the router process: registry, command line and the policies without a controller | `Baselines` |
| `PlacementProofs`, `LoadAwareRouterProofs`, `KvawareRouterProofs`, `ColdStartProofs` | theorems | the modules they name |
| `CellProofs` | theorems about one cell: what it measures, and what is collected of it | `RunCell`, `BenchJob` |
| `FleetTheorems` | lemmas about `Fleet` and `Bridge`, for both routers | `Fleet`, `Bridge` |
| `MC*` | the small instances | – |

### State and actions against the code

*KVController.* `kv_pool` is a function and `order` the insertion order of the dict;
`raised` says that the last handler ended in an exception. `Admit`, `Evict` and
`Deregister` are the handlers. `DeregisterRaises` is the path on which the code
deletes a key of the dict it iterates over: the keys up to the first one it empties
are filtered, that key is gone, the rest is untouched. `Lookup` keeps, as the
patched `lookup` does, the set of instances still contiguous and each one's credit;
of the order of its result it keeps the first name, since nothing reads more.

*ConcurrentLookup.* `Test` is `if key not in self.kv_pool`, `Read` the loop over the
list, `ReadFails` the `KeyError` when the key left in between. `Report` is any
handler of the table on the other thread, a whole one between two steps of the walk.
`ever` and `always` are history.

*Fleet.* An engine process is `[url, nth]`: the nth process at a URL. `Start`,
`Crash`, `Stop` and `Register` are what the code assumes of the deployment: instance
ids are new at each start, a crash leaves the registration and the chunks, a process
admits after it registered. `named` is the set of processes the chunk table names,
the `layout_info` of a lookup. Two ids for one URL come from restarts only. The
answer for an unregistered engine is `NoId`, Python's `None`, which the routers write
into the bridge like any other id.

*LoadAwareRouter, KvawareRouter.* A handler is cut where it awaits: the lookup, then
one `Ask` and one `Write` per endpoint; `Decide` (or `Return`) is in the step that
ends the loop. The fleet and the cache change between any two steps. One request at
a time is inside the handler because the controller, in the same process, answers
without suspending the loop of the requests (the comment of `refresh_instance_map`).
`RouteRequestRaises` is the end of a request whose tokenizers raise, or whose lookup does
(`ReadFails` of `ConcurrentLookup`): neither router catches it, and neither has changed
anything by then. So not every request is given an engine; `EveryRefreshIsRouted` says it of
those that refresh.

*Placement.* `beta` is a ratio, or a ratio with the denominator 0 for `inf`, `-inf` and
`nan`, which `float()` reads; a score is then an infinity or no number. `stats` is the monitor's `request_stats`. A route adds a prefilling
request to the chosen engine, `FirstToken` turns it into a decoding one, `Finish`
ends it. Finite scores are compared by cross-multiplication. A request without a best engine
takes the fallback.

*RoundRobin.* `heap` gives the list at each address; `Reallocate` is a list that dies
and another that is made where it was. *SessionFallback* has the ring's nodes and the
request rates; the ring's answer is external: the first node in a fixed order per
session.

*PrefixAware.* A prompt is the sequence of the chunks that the trie cuts it into. `Select`
is the question and the random choice, `Insert` what follows the second await; `selected`
are the requests between the two. `served` is history. *Disaggregated* has one operator,
`RouteByRole`, which is 0 where the code raises.

*CommandLine.* A command line, a file and the parsed arguments are functions from options
to values; a missing option is not in the domain. `Args` parses twice if there is a file,
as the code does; `Accepted` is that `parse_args` returns. argparse is external: it holds
against the choices what is given, never a default, and what a file supplies is a default.

*RoutingRegistry.* `Clean` is a turn of `cleanup` for a registered policy, in the code's
order; the turns between, which do nothing, are passed over. `close` of a router with a
controller task reads `result()` and raises when that task failed. Such a failure leaves
the routers cleaned before it gone and the failed one registered. `Find` and `Call` are the
test and the call of `get_routing_logic`, on a request's thread: a class that is
deregistered between them is constructed anew, if it needs no argument (`revived`). Such a
request is followed only if it overlaps a cleanup: elsewhere test and call are one.

*Baselines.* `Launch` is a process start with an accepted command line, `RegistryStep` a step
of the registry, `Serve` a request of the policy that `get_routing_logic` answers with, or a
change of the lists. A deregistered policy's variables go back to their start
(`Remembered`). The policies with a controller serve in their own modules.

*ColdStart.* `rolling` says that the deployment asks for another router process;
`RouterStarts` is its start, with an empty registry and an empty log. `older` are the
engine processes that ran before it, `joined` those it knows, `logged` the lines of
each pod name in its log, which outlive the engine. `ContainerRestarts` is a new process
under an old pod name: a second line of the same name. The loops are bounded, so `Ends`
may end the script at any command; `blind` records that a test got no answer and read it
as an empty one, which the code does not tell apart.

*RunCell.* `deploy` is what the deployment says (image, policy, `beta`, overlay, a number
for `rollout restart`), `router` what the running process was started from; they differ
during a rollout, which can last until any later cell. `Upgrade` keeps `beta` and the
overlay, as helm's merge keeps what was added out of band. `Fails` is `set -e`, a timeout
or a gate; only the `until` of `revert-router-patch.sh` is not ended by it.

*BenchJob.* The pod prints `Results` line by line; a fetched log is that log or one of
the damages listed in `CollectDamaged`: cut at either end, a line lost, replaced,
doubled or exchanged with the next. A blob is a few `base64` lines and its declared
size and checksum are the lines themselves, so that `Decoded` is what gzip and
SHA-256 make it, true of the exact body only. Damage never alters the digits of a time mark:
the marks carry no checksum, and the collector takes them as they read. `WriteFails`
interrupts the collector with the file it had just opened left empty.

## 3. The runs

| run | checks | shows | states |
|---|---|---|---|
| `kv_controller` | `TypeOK`, `LookupIsLongestPrefix`, `FirstNameIsUpstreams`, `P2PReplyIsOnePeer`, `ImplementsHoldings` | after any reports, in any order and with duplicates, a lookup equals its definition, the order of lists decides the first name only, and the table is the relation `Holdings` | 12,170 |
| `concurrent_lookup` | `CreditWasHeld`, `CreditNotMissed`, `FailsOnlyOnLoss` | reports between the chunks of a walk neither invent nor lose credit | 35,840 |
| `placement` | `ChoiceIsLeastBest`, `OverloadIsBounded`, `FallbackHasCause`, `ScaleFree` | in every load that routed requests can build up, and with every kind of `beta`, the choice is the documented one, and there is one but for a `beta` that no score survives | 1,540 |
| `loadaware_router` | `TypeOK`, `NewestIdIsLast`, `AskedIsExact`, `LiveHolderIsScored`, `RefreshHasCause`, `EveryRefreshIsRouted` | no interleaving of restarts with a refresh makes it score a phantom; the residual window that the code documents ends with the first question | 295,845 |
| `kvaware_router` | `LiveHolderNeverFails`, `FollowsTheName`, `EveryRequestEnds` | the `KeyError` of the bridge strikes only for ids that no listed engine has | 85,568 |
| `baselines` | `TurnsAreEven`, `AnotherListIsSeen`, `SessionsStay`, `LongestServedIsChosen`, `RolesAreKept`, `ServedByTheConfigured`, `NoOrphanController`, `AcceptedStarts`, `EveryPolicyStarts` | from the command line through changing lists and reconfigurations, failed and overlapped ones included: an accepted command line starts its router, a request gets the configured one or none, each policy keeps its promise for as long as it is not replaced, no controller task is left | 68,946 |
| `cold_start` | `NoStaleRegistration`, `RouterBeforeEngines`, `EveryEngineIsKnown` | what `cold_start.sh` calls clean is, if its tests were answered | 608,585 |
| `run_cell` | `MeasuredAsLabelled`, `WarmedUpIsMeasured`, `OtherCellsEnd` | no earlier cell, finished or not, leaks into what a cell measures | 187,994 |
| `bench_job` | `CollectedIsMeasured`, `OnlyWholeIsWritten`, `IntactIsAccepted`, `EveryJobIsSettled` | a damaged log or an interruption never leaves a cell that looks complete and is not | 95,750 |

The runs `kv_controller` and `loadaware_router` also check a type invariant, whose parts say
what the data structures promise (no empty list, a dict has each key once, an id is never
mapped to another engine's URL) as well as the types.

What the properties of the scripts leave open is as informative as what they say. A start
is called clean though an engine is unknown when a container restarted and is logged
twice: "waiting for exactly $REPLICAS" (`cold_start.sh:55`) is `-ge` on lines;
`EveryEngineIsKnown` excepts it. A cell of `roundrobin` that finds the development overlay
does not end, since its router logs none of the registrations that
`revert-router-patch.sh:25` waits for; `OtherCellsEnd` excepts it. An overlay is measured
when the question for it got no answer; `MeasuredAsLabelled` excepts it. And round robin
takes a list at the address of the freed last one for that one; `AnotherListIsSeen` speaks
of other addresses. A policy that a configuration file names is not held against the
choices, so an unknown one is accepted and refused only when the router is made;
`AcceptedStarts` excepts it. A router that a request brings back after it was replaced serves
until the next replacement; `ServedByTheConfigured` says that nothing else does. And
`disaggregated_prefill` is accepted without labels, though each of its requests then raises;
`RolesAreKept` counts that as a cause.

### Disagreements between the code and what is said of it

Three runs state a sentence of the repository and find the code against it.

* `deregister` / `DeregisterForgetsAll`: "Deregister all kv chunks of an
  instance-worker" (`kv_controller.py:143`). The handler deletes from the dict it
  iterates over; at the first sole-holder chunk it raises, and later chunks stay
  credited to the departed worker. `ImplementsHoldings` and the theorem `Refinement`
  say what is still true: it only ever forgets entries of that worker.
* `refresh_cost` / `OncePerFleetChange`: the refresh "must stay a once-per-fleet-change
  cost, not a per-request one" (`routing_logic.py:668-669`). An engine that admits and
  is replaced before the router first asks about it stays in `layout_info` under an id
  that no query returns, and every request refreshes. `RefreshHasCause` is what holds.
* `kvaware_match` / `FollowsLongestMatch`: "by where the KV cache of the longest prefix
  match is found" (`routing_logic.py:275-276`). The first name is followed when its
  match is inside the band, though a later name holds more.

### Bounds, and why they suffice

* `MaxCopies = 2` per key: the second copy is what a duplicate, or a second holder
  behind the first, needs; two instances, one with two workers and two locations, and
  three chunks give a gap before, between and after held chunks.
* `ConcurrentLookup`: two chunks, because the hazard lies between a test and a read or
  between one chunk and the next; the two instances are symmetric.
* `MaxStarts`: the first engine is replaced once, the second not. Two processes of one
  URL and one of another are what a phantom match needs. A third engine, of another model,
  never registers: its answer takes the one place in the bridge that unregistered engines
  share, which is the other cause of `RefreshHasCause`. The theorems carry no bound.
* `Placement`: three engines, three requests in flight; matches of nothing, half, all
  and more than all of the prompt, prompts of zero and two tokens, `beta` at, above
  and below 1, negative, infinite and not a number, which includes every clamp and tie.
* `Baselines`: of `RoundRobin`, two addresses (reuse and non-reuse), four requests, lists
  that reorder, grow, shrink and replace a member. `MaxRequests` bounds `req_id`, which in the code
  is a Python integer and does not wrap. Of `PrefixAware`, a prompt and one that begins with
  it, and two requests between question and insertion (`MaxSelected`). Seven configurations
  for the watcher: every policy but `kvaware`, which the registry treats like `loadaware`,
  a session without its key, and a policy that does not exist. Command lines in every
  combination of discovery, policy, key, labels, intervals and file. One request at a time is
  between `Find` and `Call`; the requests of a revived router are not followed.
* `ColdStart`: two replicas, four pod names (two being drained, two new), one lost pod and
  one restarted container, either at any time in any number of starts.
* `RunCell`: two values of `beta`, so that one cell's can leak into another's; engines are
  counted up to the two of the deployment. Cells follow each other without a bound.
* `BenchJob`: two seeds and two lines per blob, so that cuts fall in, between and after
  blobs; `MaxPolls = 2` for the code's 300; `MaxFetches = 2`, one retry.

### Fairness, and why the code justifies it

`LoadAwareRouter` and `KvawareRouter`: `WF(Handler)`. A coroutine whose answer is there
is resumed by its event loop. Nothing is assumed of engines, caches or clients.
`BenchJob`: `WF(Script)` for the laptop's programs; `WF(LinkChanges)`, the link goes
and comes back for ever; `SF(Wait)`: the wait loop asks again and again (each
`kubectl wait` is capped), so it asks at some time when the link is up. Nothing is
assumed of the pod, of damage, or of the person who may run the script again.
`RunCell`: `WF(Commands)`, a command ends, with or without an error; `WF(EnginesScale)` and
`WF(Register)`, engines come up and send the heartbeats that `until` waits for. No rollout
is assumed to end.
`BenchJob` and `RunCell` turn TLC's deadlock check off: a Job is done once, and the cell
that waits for ever is a state with no successor.

## 4. What is proved

`tlapm` checks, for every value of the constants under the named assumptions:

| theorem | says | argument |
|---|---|---|
| `KVControllerProofs!TypeCorrect` | `Spec => []TypeOK` | `TypeOK` is inductive: a key leaves the dict exactly when its list becomes empty, and `order` with it (`Without` keeps distinctness and takes out exactly the deleted members) |
| `…!Refinement` | `Spec => ImplementsHoldings` | each handler maps to the relation's operation of that name; duplicates and order disappear in the range of a list; a `deregister` that raises removes a part of the worker's entries, which the abstract one may |
| `…!LongestPrefixes`, `…!HeadIsNamed`, `…!OnePeer` | `Spec => []LookupIsLongestPrefix`, `[]FirstNameIsUpstreams`, `[]P2PReplyIsOnePeer` | in any table that is `TypeOK`, by what each turn of the walk knows, below |
| `…!NoCreditWithoutEvidence`, `…!NoLossWithoutCause`, `…!NoFailureWithoutLoss` | `LookupSpec => []CreditWasHeld`, `[]CreditNotMissed`, `[]FailsOnlyOnLoss` | by `IInv`, below |
| `PlacementProofs!LeastBest`, `…!Bounded`, `…!NoneHasCause`, `…!Scales` | `Spec => []ChoiceIsLeastBest`, `[]OverloadIsBounded`, `[]FallbackHasCause`, `[]ScaleFree` | of any statistics, by what `select_url` computes, below |
| `LoadAwareRouterProofs!NewestLast`, `…!LiveScored` | `Spec => []NewestIdIsLast`, `Spec => LiveHolderIsScored` | by `IInv`, below |
| `…!AskedExact`, `…!TypeCorrect` | `Spec => []AskedIsExact`, `[]TypeOK` | by `IInv` and `FreshInv`: since the fleet last changed, an answer is in the bridge or in the handler's hand, and still true |
| `…!RefreshCaused` | `Spec => RefreshHasCause` | by these and `SharedPlaceInv`: of the unregistered engines asked about since, one has the place of `None` |
| `KvawareRouterProofs!NeverFailsALiveHolder`, `…!NeverGoesElsewhere` | `FairSpec => LiveHolderNeverFails`, `FollowsTheName` | by its `IInv`, below |
| `BaselinesProofs!Served`, `…!Owned` | `BaselinesSpec => []ServedByTheConfigured`, `[]NoOrphanController` | by `RegistryInv`, below |
| `…!RolesKept`, `…!SessionsKept`, `…!LongestChosen` | `BaselinesSpec => RolesAreKept`, `SessionsStay`, `LongestServedIsChosen` | by `LabelsInv`, `SessionInv`, `TrieInv`, below |
| `…!InTurn`, `…!OtherListSeen` | `BaselinesSpec => []TurnsAreEven`, `AnotherListIsSeen` | by `RoundRobinInv`, below |
| `…!AllAccepted`, `…!EveryPolicyAccepted` | `BaselinesSpec => []AcceptedStarts`, `[]EveryPolicyStarts` | of any command line and file, from how options override each other |
| `ColdStartProofs!NothingStale`, `…!RouterFirst`, `…!NobodyMissing` | `Spec => []NoStaleRegistration`, `[]RouterBeforeEngines`, `[]EveryEngineIsKnown` | by `IInv`, below |
| `CellProofs!Labelled`, `…!SameRouter` | `FairCells => []MeasuredAsLabelled`, `WarmedUpIsMeasured` | by `CellInv`, below |
| `…!OnlyMeasuredIsCollected`, `…!NothingPartialIsWritten`, `…!IntactLogsAreAccepted` | `Spec => []CollectedIsMeasured`, `OnlyWholeIsWritten`, `IntactIsAccepted` (of `BenchJob`) | by `JobInv`, below |

*The lookups of the chunk table.* `Lookup` and `BatchedP2PLookup` are recursive functions
over the prompt, so their equation is justified first, turn by turn. After `n` turns the
contiguous instances are those that hold all of the first `n` chunks, and each instance that
ever was contiguous is credited with the last turn at which it was (`After`, `Knows`). The
count of a peer-to-peer reply says of every counted chunk that the one peer holds it
(`Counted`).

*The concurrent lookup.* The properties speak of the end of a walk. On its way the set
of contiguous instances carries them: it has only instances that held every chunk so far at
some moment, and all that held every chunk so far at every moment; the credits follow it.

*Placement.* `select_url` is computed anew for each request, so of the state the proofs need
its types only; the argument is about the function. Its sorted list names each endpoint once,
in the order of URLs. After `n` turns of its loop the best entry is the first of the best
among the first `n` (by induction over `n`), where `Exceeds` is a strict order on the scores
that are numbers. `Bounded` compares the score of the choice with that of the idlest engine:
their benefits differ by one at the most, so their relative loads do by `1 / beta`. `Scales`
shows that a common factor multiplies every score, and hence changes no comparison. The sums
of loads are induced over the finite set of endpoints.

*The inductive invariant of `LoadAwareRouter`.* `NewestIdIsLast` alone is not inductive:
a `Write` appends an answer that was given earlier, perhaps of a process replaced
since. `IInv` is `FleetInv /\ BridgeInv /\ HandlerInv`. The heart of it: the registry
names the processes of a URL in the order of their start and never again one it has
stopped naming. Hence an answer in the handler's hand is either the one the registry
still gives, or a retired one that is at least as new as everything the bridge knows of
that URL; appending it keeps the order. A holder that the lookup named was registered
before the lookup, so if it is registered still at the decision, then either the bridge
knew it already or this very refresh asked about its URL and was answered with it.
The proof of `RefreshHasCause` showed that its second cause is wider than two endpoints of
one request: an unregistered engine that is an endpoint of *other* requests only can take the
place of `None` from this one's (two models, each with an engine that never registers, refresh
each other's bridge for ever). The property says so, and the run has such an engine.

*Of `KvawareRouter`.* The same fact about the fleet (`FleetTheorems!FleetStays`: a process
that was once named is never named anew) carries `FirstIsKnown`: once the engine that has
the named id was asked, the id is in the bridge. It is stable, since no engine can take the id
later, so after the last write an id that is missing from the bridge is no listed engine's.
`BridgeInv` adds that an id is mapped to where its process runs.

*Of the registry.* The next router is installed over what the cleanup left, so
`RegistryInv` says what the cleanup has done so far: of the classes it has passed, only those
that a late request brought back are registered. It survives the installation of any
configuration, wherever that comes from, and requests leave it alone.

*Of the policies without a controller.* A deregistered policy forgets, which keeps each of
these as its start does. `LabelsInv`: the labels of the disaggregated router are those of
the configuration installed last. `SessionInv`: what is remembered of a session is the ring's
answer among the engines it was asked with; the ring answers with the first in the session's
order, so a session that leaves a listed engine has found one that was not there. `TrieInv`:
the trie knows, for each engine, exactly the paths of the prompts that it served, so the
longest match of the trie is the longest of the served prompts. `RoundRobinInv` orders the
engines of the sorted list by whose turn is next: who is sooner has not been asked more often,
and at most once less, which the next turn keeps as the engine in front goes to the back. The
sorted copy is that of the list hashed last, and equal sets have one sorted copy, so no change
of order or address starts the turns anew.

*Of `ColdStart`.* `IInv` says of each position in the script what the tests before it, if they
were answered, have established and no engine can take back: from the end of the drain to the
scaling up there is no engine, so those there are since have seen no router but this one
(`DrainInv`); since the router's restart no name is in its log twice while no container
restarts, and a logged pod is a known one (`LogInv`); the names read of the pods are at most
as many as the replicas, and those in the log at least (`AssertionInv`). With no container
restarted, the subset that the last assertion tests is then an equality of finite sets, which
is `EveryEngineIsKnown`.

*Of `RunCell`.* An earlier cell may have been broken off anywhere, and a rollout may last into
the next cell. `CellInv` says of each position in the script what the commands so far have made
of the deployment, whatever it was before (`DeployInv`), and where the process must be the
one that the deployment asks for (`RouterInv`): a deployment that mounts a ConfigMap which is
not there does not come to the end of its rollout.

*Of `BenchJob`.* `CollectedIsMeasured` speaks of the end of a chain: the pod prints, a fetch
damages, the collector parses and then writes file by file. `JobInv` is `LogInv /\ CollectInv
/\ IntactInv`, a part for each link. `LogInv`: what is in the log follows from how far the pod
is; the results are the frames of the seeds one after the other, so each line's place is known
(`FramesPlaced`, by induction over the seeds). Whatever a fetch leaves is made of lines of that
log, of progress text, or of blob lines that no longer say what the pod wrote (`WhatIsRead`):
damage never makes a `BEGIN`, a mark or `ALL_DONE` that the pod did not print. Hence
`ParseInv`: the open blob has the declared size and checksum of its seed, its body is what
follows its `BEGIN` in the lines, and a blob that decoded has its frame, whole and in one
piece, in the lines that were read. `WriteInv`: a file is written only if all of this held for
every seed, and what is not left to write is right. This is inductive, and interrupted
collectors, doubled frames and retried fetches fall under it without a case of their own.
`IntactInv` is for the converse: it says at which line of an intact log the parse is and what
it has by then (in the head, between two frames, inside of one, behind the last), so that no
line raises, and in the end only the two times, equal if the clock never moved, can be wrong.

Assumptions, which TLC evaluates in the runs: `KVAssumption` (metadata and requests are of
their sets), `FleetAssumption`, `RouterAssumption`, `KvawareAssumption` (URLs are numbers,
lists are not empty, `beta` is a ratio, token counts are naturals), `PlacementAssumption`
(likewise, and the URLs are finitely many), `RoundRobinAssumption` (an address is not `None`,
discovery names no URL twice), `SessionAssumption` (of the ring's order), `PromptsAssumption`
(a prompt has a length), `BaselinesAssumption` (these, and each engine has a label),
`EnginesAssumption` (pods are finitely many numbers; a replica at the least),
`RunCellAssumption` (a replica at the least; no beta is not a beta), `InPodAssumption` (a seed and
a line at the least), `BenchJobAssumption` (of the bounds). The bounds of the runs are constants of
the theorems, of any value.

*Written for the prover.* `SortSeq`, `SelectSeq` and `@@` have no definition that `tlapm`
expands. So a sorted list is defined by ranks (`SortedByUrl`), a filter by the positions it
keeps (`Disaggregated!Labelled`), and what overrides what by `CommandLine!Over`.

*Model-checked only.* Liveness (`EveryRefreshIsRouted`, `EveryRequestEnds`,
`OtherCellsEnd`, `EveryJobIsSettled`) is out of the prover's reach. Every other property of a
passing run is a theorem.

## 5. What is not modelled, and why

* *Floats.* Finite scores are exact ratios. Rounding can change a choice only between scores
  that are equal up to rounding. Infinities and `nan` are modelled.
* *Tokenising* and its remote fallback: no state but a cached tokenizer. That both may raise is
  in `RouteRequestRaises`.
* *Answers the controller does not give in this repository*: a `None` reply to a lookup,
  a controller that suspends while it answers, an id of its own for an unregistered engine.
* *clear, pin, compress, decompress, move, check_finish*: forwarded to the cluster
  executor; `get_distributed_url` of other packages.
* *The hash trie's chunks and locks* (another package): it is modelled by what the router asks
  of it. *Options that are only handed on* (host, ports, logging, callbacks, storage): no check
  and no router here reads them. Combinations of prefill and decode requests: the router keeps
  nothing between them.
* *The load driver and the analysis*: the one measures, the other computes over finished
  files; what the harness does with their outputs is in `BenchJob`.
* *Collecting a directory that was collected before*: nothing in the repository does it.
* *In the cell script*: the Service's ports, the forwards, the Prometheus dump and the
  manifest, which change nothing that a cell measures; the router being lost by itself.
* Generation of workloads, collectors, plots, the order of a sweep's cells: functions of
  their inputs or plain I/O.

## 6. Plan

Done: the chunk table, all the policies with their registry and command line, the cold
start, the cell script and the collection of a cell, with the proofs above. The runs are kept
to one per question, so later modules are composed into larger instances rather than checked
apart. Next:

1. A cell's life in one: `RunCell` with the steps of `ColdStart` in place of its four, as
   a refinement, and with `BenchJob` for its measurement.
2. `LoadDriver` (`load_driver.py`): one streamed request through `classify_chunk` and
   `one_request`, and the open-loop schedule.
3. `Exclusion` and `Coverage` (`analyze.py`, `utilization.py`): which seeds of a pair
   count, counter rates across resets, covered fractions, as operators against
   reference definitions over bounded inputs.
