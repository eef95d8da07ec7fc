# A verification project for the LLM inference simulator

The repository simulates how a cluster of accelerators serves requests to a
large language model. A scheduler keeps requests in a queue and in running
batches, a loop advances simulated time iteration by iteration, and in each
iteration every simulated device runs a graph of modules whose costs make up
the iteration's time. What the simulator reports (time per token, latency to
the first token and to the end, KV traffic) depends on this machinery doing its
bookkeeping exactly; this project models that machinery in TLA+, checks it with
TLC, and proves the core of it with TLAPS.

Paths below are relative to `src/` in the repository, where the simulator's
code is itself in a directory `src/`: `scheduler.cpp` is
`src/scheduler/scheduler.cpp`, `cluster.cpp` is `src/hardware/cluster.cpp`.

## 1. Inventory

| Component | Source | State | Operations | Model |
|---|---|---|---|---|
| Request scheduler | `scheduler.cpp`, `sequence.cpp` | `sequence_queue`, `running_queue`, each `Sequence`, a static `rotate`, `cur_arrival_time_idx`, KV counters | `fillSequenceQueue` / `pushSeq` / `pushDummySeq`, `fillRunningQueue`, `setMetadata`, `updateScheduler`, `updateSchedulerSumGenSplit`, `hittingQueue` | `Scheduler` |
| Iteration loop | `cluster.cpp` 703-1010 | `total_time`, `sum_machine_time`, `stat_list` | `runIteration`, `runIterationMixed`, `runIterationSumGenSplit`, `addLatency` | `ClusterLoop` |
| Graph execution | `module_graph.cpp`, `cluster.cpp` 29-111, 1518-1526 | `current_module`, `ready` and `timeboard_synced` of tensors, `device_time`, `device_time_dep`, `pipeline_hop_time` | `Cluster::run`, `TopModuleGraph::run`, `check_ready`, `sync_devices`, `restart_graph`, `reportedIterationTime` | `ModuleGraph` |
| Layout and graph | `llm.cpp`, `decoder.cpp`, `expert.cpp`, `layer.cpp` | none after construction | the `forward` methods that record the graph | `LLMGraph` |
| MoE routing | `route.cpp`, `communication.cpp` | `num_token_in_expert` of each batch, page flags, tags of cold experts | `aggregate_expert`, `Route::forward`, `update_expert` | `ModuleGraph`: when the draw is made and read; `Executor`: its counts, flags and tags |
| Memory gate | `cluster.cpp` 135-568 | batch size | `checkMemorySize` | not modelled (section 6) |
| Executor | `executor.cpp`, `device.cpp` | the best status so far; flags and tags on tensors | `execution`, `executePType` | `Executor`; the DRAM simulator's answers and their cache are external |
| Time board | `timeboard.cpp`, `cluster.cpp` 1012-1516 | tree of stamps | `push_timestamp`, `pop_timestamp`, `setTimeBreakDown` | not modelled (section 6) |
| Tensor-parallel layers | `parallel.cpp`, `linear.cpp`, `activation.cpp`, `attention.cpp`, `layer.cpp` | shapes | constructors, `forward` | `Layers`, `Executor`: what `forward` hands to the kernels |
| Parallelism optimizer | `parallelism_optimizer.cpp`, `footprint.h` | candidates | enumeration, scoring | not modelled (section 6) |
| DRAM | `dram/` | address map | `mmap_controller` | not modelled (section 6) |
| Layer costs | `attention_gen_impl.cpp`, `attention_sum_impl.cpp`, `linear_impl.cpp`, `activation_impl.cpp`, `layer_impl.h` | none | the kernels of attention, product, activation | `CostModel`, `AttentionCost`, `AttentionPrefill` |
| Driver, configuration | `eval/test.cpp`, `hardware_config.h` | none | parsing, construction, `analytic_configs_only` | `AnalyticListing`: the listing of configurations; the rest is set-up code |
| Experiment scripts | `run_experiments.py`, `run_paper2.py` | `simcache.jsonl`, `_SIM_CACHE` and `_SIM_CACHE_POS` of each process, the locals of a search | `find_max_batch_size`, `run_simulation`, the `_sim_cache` functions, the pools of processes; plots | `ConfigSearch`; plots and the other scripts are left out |

How they interact: inside the simulator everything is called from one thread. `Cluster::runIteration`
fills the queue and the batches, warms the population up with
`hittingQueue(10000)` (iterations of no duration), switches the KV counters on
and enters the mixed or the split loop. Each pass calls `setMetadata`, which
decides how many tokens each sequence processes, then `Cluster::run`, which
lets all devices run their graphs, then `reportedIterationTime`, then
`updateScheduler`, `addLatency`, `fillSequenceQueue` and `fillRunningQueue`.
Devices communicate through flags on tensors and by writing each other's
clocks; pipeline stages share, through the scheduler's batches, the draw of the
experts. A module's `forward` describes its operation in a `LayerInfo` and calls
`Executor::execution`, which evaluates a cost kernel on each candidate processor
and keeps the cheapest status; tensors carry flags and tags from one operation
to the next.

Around it, `run_experiments.py` sweeps over cells (a model, a memory, a number of
GPUs, a workload). A pool of processes searches cells side by side: the driver's
mode `analytic_configs_only` lists the parallelism configurations with estimated
batches, `find_max_batch_size` then runs the simulator to find each
configuration's largest batch, and `run_simulation` keeps every result in a file
that all processes append to and read.

What is hard in the simulator although there is one thread: the round-robin over the devices
interleaves their graphs, so that synchronisation, tensor flags and shared
draws behave as in a concurrent program; the split loop keeps two clocks for
requests that pass from one machine to the other; arrivals are injected by time
windows; completion is tested with an equality after an increment; and the
scheduler's state lives on across the warm-up, the timed loop and their
counters. In the sweep, processes read the file while others write it, runs time
out or are killed, workers die, and a search of three bisections skips
configurations by a bound. `PROJECT.json` lists each hazard at its line.

What makes the components correct:

* scheduler: FIFO, no batch over capacity, no place idle beside a waiting
  request, every admitted request finishes, no request beyond its end, the
  decode population stays what the initial fill made it;
* loop: latencies in the rows are times that passed, each arrival comes once
  and at its time, each KV token is counted once, the two clocks never let a
  request decode before its prefill is over;
* graph execution: barriers hold, synchronised devices leave with the latest
  clock, no flag survives a run, every run ends, and the reconstruction of the
  pipelined time rests on clocks that agree;
* execution of a layer: a flag is used once, by the operation it is meant for;
  a tag reaches every operation of its step and none of the next; the cheapest
  processor is the one that is charged;
* costs: kernels written several times agree on the work; a stream of flash
  exposes one page; a moved or hidden byte is neither lost nor counted twice;
  what is said to grow with the batch does;
* sweep: the answer of a search is a batch that runs beside one that does not, and
  names what refuses the next; no configuration that was skipped is better; the
  file holds only what the simulator would return, and what it holds is not run
  again; the sweep ends, whatever goes wrong.

## 2. Modules

```
BatchServer   <--implements--  Scheduler  <--EXTENDS--  ClusterLoop
                                  ^    ^                    ^
                   SchedulerProofs     MCScheduler     MCClusterLoop

SchedulerProofs, ClusterLoop <-- ClusterProofs

LLMGraph  <--EXTENDS--  ModuleGraph  <-- GraphProofs, MCModuleGraph

Counting <-- SchedulerProofs, GraphProofs, CostProofs

CostModel <- AttentionCost <- AttentionPrefill <- Layers    (each EXTENDS the one before)
                                                    ^ ^ ^
              CostProofs ---------------------------+ | +---- CostLaws
                  ^                                   |           ^
        ExecutorProofs --> Executor ------------------+           |
                              ^                                   |
                          MCExecutor --> MCMachines <--- MCCost --+

CostLaws, CostProofs <-- LawProofs

AnalyticListing  <--EXTENDS--  ConfigSearch  <-- SearchProofs, MCConfigSearch
```

**BatchServer** is the abstract specification of the scheduler: a FIFO queue, a
set of requests for each batch, `Arrive`, `Admit` of the head into a batch with
room, `Complete`. Its fairness says that a free place beside a waiting request
is taken and that every served request leaves.

**Scheduler** has one action per method. `pushSeq` and `fillRunningQueue` loop
over requests and are one action per pass, `PushDummySeq` and `AdmitSequence`,
with the passes left in `to_push` and `to_admit`; a pass (`FillPass`) in which the inner
loop finds no batch with room is `SkipFullBatches`. `pc` is the method whose turn
it is. A `Sequence` object is a record under an identity; an identity is used
again when nothing refers to the object any more (`FreeIds`), as the shared
pointers free it. Since `rotate` is only used modulo the number of batches, the
model keeps the remainder. `Spec` drives the methods as the initial fill and
`hittingQueue` do, for ever: its ten thousand rounds are any number of rounds.

The data is abstracted to what the properties tell apart. A workload is a set
of pairs of lengths; the sampler of paper 2 is a choice from it, which covers
every draw and also its size bias. KV bytes are counted in tokens: the factor
for a token is a constant, and the cap of chunked attention is left out. The
offloaded fraction is kept as the tokens it stands for (`p2_kv_offload`), the counter of
the rotation as the remainder that the code takes at each use (`rotate`).
`reuse_percent` is the fraction of a prompt that is cached, rounded down as the
conversion to `int` does.

**ClusterLoop** extends it with `runIteration`. `phase` says whether the loop is
warming up, timed or done. The graph is a choice of an iteration's time from
`StepTimes`; the two loops share `RunDecodeMachine`, and `RunSumMachine` is the
prefill branch of the split loop. `total_time` is both the local variable and
the scheduler's copy, which is always assigned from it before it is read.
`prefill_end` is a history variable. `rows` holds the rows `addLatency` wrote
last: they are what the CSV will contain.

**LLMGraph** computes the list of modules of each device from a layout
(tensor-, pipeline- and expert-tensor degree, and which layers have experts).
Modules that no other device waits for are joined to one entry. **ModuleGraph**
runs the lists: `Forward` is `ModuleGraph::run` of the device whose turn it is,
with the test `check_ready` and the side effects of `sync_devices`; `Yield` is
the break out of `TopModuleGraph::run` or its end, with `Cluster::run`'s choice
of the next device; `Restart` is the next `Cluster::run`. A module's cost is a
function of the tokens its device processes, zero without tokens, where the
code returns early: a time, and the part of it that is charged to the batch, which
`Dependence` chooses for each kind of module (nothing where reading weights from
flash decides, what is moved for tokens where bytes or messages add up, the whole
where computing decides). The tokens of a device's experts are `expert_load`: those
of experts that are hot and of those that are cold in a microbatch. A cold one is
charged `pp / (pp - 1)` times its time (`ColdWork`, after `linear_impl.cpp:156-171` and
`activation_impl.cpp:82-91`), so that `device_time_dep` can exceed `device_time`. The
code's times are `double`s, the model's natural numbers: the time of a cold expert is
counted in multiples of `pp - 1`, which makes its charge a whole number, and only
`dep_sum / pp` is rounded down. `entered` and `left` are history variables: each device's
clock when it came to a module and after the module's synchronisation.

**CostModel** is what an operation costs: `layer_impl.h`'s times of flash,
activations, offloaded KV and KV writes, and the product and the activation of
`linear_impl.cpp` and `activation_impl.cpp`. Times are integers: rates are ticks
for a byte or a flop, so that the roofline's maximum, the sums and the
comparisons are the code's, up to the rounding of divisions. **AttentionCost**
holds the nine decode kernels of `attention_gen_impl.cpp` (grouped-query, latent,
latent absorbed; on GPU, logic die and PIM units), **AttentionPrefill** the nine
prefill kernels of `attention_sum_impl.cpp`. The kernels are copies of each other
that have drifted apart, about 180 lines each; the modules factor what they share
(`Work`, `Phase`, `Streamed`, `Run`) and keep each difference as an argument: whether
a phase goes through flash, over how many calls a page fill is amortised, whether
its computation hides a KV write, what it reports. **Layers** is what the
`forward` methods of `attention.cpp` write into `LayerInfo`, with what they leave
as declared, and the executor's table of kernels.

**Executor** runs one mixture-of-experts layer of a device, step after step.
`Begin` draws a batch and the experts' token counts, for the batch and for the
first of `pp` microbatches; attention decodes and prefills; `RouteForward` arms
the page flag of the first local expert with tokens and tags the cold experts;
then every expert's `gate_proj`, activation, `up_proj` and `down_proj` are executed.
`Evaluate` is one pass of the loop over processors in `Executor::execution`, with
the side effects of an evaluation: `linearCore` resets the flag it has read and
hands the tag on. `Fail` is a kernel that stops the program. `exposed` is a
history variable: the experts whose chosen `gate_proj` paid for a page.

**CostLaws** has no machine of the code. It lets a batch grow (`Join`, `Step`) so
that the laws it states are evaluated on every batch within the bounds. `Fields` are
the fields of a machine, of which a law changes the cost parameters to compare two
machines (`With`).

**AnalyticListing** is the mode `analytic_configs_only` of `eval/test.cpp`: for each
configuration the bracket and the bisection that find the largest batch that fits
and the largest that meets the latency bound, from estimates that are an input.
**ConfigSearch** is the sweep. A worker's `stage` says where its process is:
between configurations (`next`: `Prune`, `Probe`, `ReportBest`, `ReportNone`,
`FallBack`), in `run_simulation` (`lookup`, `run`, `write`), or `back` in the search
with a result, where one action for each kind of probe (`HintHolds`, `CapHolds`,
`WidenHolds`, `BisectHolds`, `ProbeFails`, `FallbackEnds`) decides what comes next.
The three bisections of `per_config_max_batch` are one, since each searches
between the last verified batch and a refused one. The file is a sequence of
lines. A write is one `os.write` under `O_APPEND`, so writers exclude each other,
but a reader may meet the line before it is complete (`Texts`); it breaks there,
`f.tell()` then raises, and the position stays where it was (`Position`).
`Fault` chooses what goes wrong: an exception in a run (`raise`, of which the
timeout is one), a simulator that the system kills (`kill`), a worker that
dies (`death`), which breaks the pool (`PoolBreaks`): its other workers end, their cells and
those still to come get `_crashed_cell`, and a line in flight is whole or cut
short. `NextPhase` is the next pool of processes, with empty memories. The
simulator is an input (`tpot`, `bound`): the sweep needs only that a run is
deterministic, as `run_simulation` says.

A definition whose comment begins with *Slip* is not part of a model. It repeats
the definition next to it with a plausible mistake; `PROJECT.json` says under
`mutants` which property must fail when it takes that definition's place, and
each one does.

## 3. Runs

| Run | Module | What it checks | Result |
|---|---|---|---|
| `scheduler` | MCScheduler | safety, refinement of `BatchServer` and its fairness | holds, 25 thousand states |
| `loop` | MCClusterLoop | the loop of one machine and of two, with a batch size the batches do not divide | holds, 1.13 million states |
| `graph` | MCModuleGraph | four devices, four layouts, two runs | holds, 205 thousand states |
| `executor` | MCExecutor | one layer on nine machines, any number of steps | holds, 31 thousand states |
| `cost` | MCCost | laws of the cost models on thirty machines | holds, 19 thousand states |
| `search` | MCConfigSearch | two workers, seven cells, two phases, one fault | holds, 29 thousand states |
| `zombie` | MCScheduler | `NoZombie` with outputs of one token | violated |
| `idle` | MCClusterLoop | `IdleAddsTime` with a lull | violated |
| `split_latency` | MCClusterLoop | `E2ELatencyIsElapsed` | violated |
| `route` | MCModuleGraph | `RouteReadsOwnDraw` with two stages | violated |
| `first_expert` | MCExecutor | `FirstExpertPaysOnce` where processors compete | violated |
| `killed` | MCConfigSearch | `HitsAreTrue` when the system kills a run | violated |

**`scheduler`.** `WithinCapacity` and `InOnePlace` say that batches and queue
are what they claim to be. `WorkConserving` is about the rotation that is kept
across calls: when a `fillRunningQueue` ends, no request waits beside a free
place. `QueueDrained` says that the queue is empty when an iteration runs, which
is all that keeps `fillSequenceQueue`, which ignores the queue's length, from
growing it; it needs a batch size that the number of batches divides.
`NoZombie` is about the equality test for completion, `SteadyDecode` says that in
decode mode every place is filled and processes a token (the comment in
`cluster.cpp` which justifies three shortcuts), `AgesStayUniform` that the ages
of the population stay those of the initial snapshot, turned round, and
`OffloadCoversKv` that what is reserved covers what a step writes.
`ImplementsBatchServer` and `ImplementsFairBatchServer` are the refinement.

**`loop`.** `RowsTellTheTime`: on one machine arrival plus queueing delay plus
latency is the time of the row, exactly. `ArrivalsInjectedOnce`: the windows
partition time, the n-th request gets the n-th arrival time, nobody is in the
system before arriving. `KvCountedOnce` is an action property: in the timed loop
each step adds to the counters exactly the growth of the KV held, outside of it
nothing. `PrefillAfterAdmission` and `NoEarlyDecode` are about the two clocks.
There are five places for two batches of two, so that `fillRunningQueue` also
makes passes that find every batch full (`SkipFullBatches`), and where requests
are refilled the place that no batch has adds one to the queue in each iteration:
that pile is a property of the code.

**`graph`.** `BarrierHolds`, `SyncTakesTheLatest` (all devices of a group leave
a synchronised module with the clock of the last one to come, and its
batch-dependent part), `FlagsLowered`, `TpPeersAgree` and
`ReconstructionIsSound` (what `reportedIterationTime` assumes: any device of a
tensor-parallel group stands for its stage, pipelining is not slower, no device took
longer than the serial reconstruction, and no stage's share of the pipelined time is
negative) and `EveryRunEnds`. A *term* of the reconstruction may well be negative: in
the run there are devices with `device_time_dep` above `device_time`, and replicas
whose `indep_sum` is below zero, where cold experts outweigh the rest. What must hold,
after all the clocks that synchronisation has carried from device to device, is
`(pp - 1) * dep <= pp * (time - hop)`: the charge takes away at most the time it was
made for.

**`executor`.** `NoFlagLeaks` is the contract of `tensor.h`: a page flag is used
up on every path, so that none outlives its layer. `FirstExpertPaysOnce` relates
the flag, the draw and the status the executor chose: at the end of a layer the
first activated expert has paid for a page, and only it. `TagsAreExact` is the
comment of `linear_impl.cpp:156-165` as an equation: the reconstruction takes
nothing of any operation of a cold expert, on every hop, and a tag never comes
from an earlier step. The division by `pp` is one of integers here, so what is left
is below one tick for each stage but one, and nothing with two stages. `PicksTheCheapest` says that the loop over processors, in
which zero stands for "no candidate yet", ends with the least status.

**`cost`.** `OneFillPerLayer`: a layer exposes the latency of at most one page,
however its calls split the stream (decoding of every kind, and grouped-query
prefill). `SameWork`: the copies of a kernel count the same flops, where the code
means them to. `ReconstructsTheMicrobatch`: what `reportedIterationTime` subtracts
turns the cost of a product on the batch into its cost on a microbatch, exactly
when both wait for memory and the same part of the cost grows with the batch in both,
and never above it otherwise. (With flash, the batch may wait for its activations and
the microbatch for the weights; `dep` is then more than grows. The attempt to prove
equality wherever both wait for memory found this; the machines with flash have slow
activations, `hbm_read = 3`, so that the run meets it.) `OffloadConserves`:
the split of the KV between GPU and CPU memory loses and doubles no byte.
`ReadsThenWrites`: only computation hides a KV write. `WindowCaps`: a local layer's
cost stops growing when the window is full (a `max_seq_len` of zero is no window).

**`search`.** `BoundaryIsTight`: the batch a search answers runs in the time
reported, the next larger one does not, and `bound_reason` says why. It needs no
monotonicity: each bisection keeps a verified batch and a refused one.
`AnswerIsTheBest`: where the estimates are the bounds that the comment on pruning
takes them for (`EstimatesAreBounds`), no configuration, simulated or skipped, has a
higher throughput at its largest batch. `HitsAreTrue`: what a process remembers or
the file holds is what the simulator would return, so no result of an attempt that
timed out is kept. `NeverRunTwice`: a result whose line is complete, and not behind
one that a dead process cut short, is never computed again, however the reads fell
among the writes. `EverySweepEnds`: searches over any estimates, with any fault,
end, and so does the sweep.

### What the code does otherwise than its text says

* `zombie`: a comment in `sampleWorkloadLengths` (`scheduler.cpp:255-259`) takes
  `total_len` for `input_len + output_len`, so that an output of one token would
  do. `total_len` is one less (`sequence.cpp:16`): in decode mode such a request
  starts at its end and is never collected. Sampled lengths are clamped to two;
  fixed lengths are not.
* `idle`: under the comment "if no reqeusts, add time" the loop assigns 20 ms to
  a local variable and continues, so neither the clock nor the injection of
  requests advances. With an injection rate, the first lull is the end.
* `split_latency`: the guide calls `end_token_time` the accumulated end-to-end
  latency. On separate machines a request also accumulates decode steps that
  ran while it waited for its own prefill's end on the other clock.
* `route`: `BUGS.md` item 29 is marked resolved, and each stage does aggregate
  now. But all stages write the same vectors, and with `pp > 1` the Route of one
  stage can read the draw that another stage made for another layer.
* `first_expert`: `linear.h` says that arming a weight makes its next execution
  charge one page. The executor evaluates an operation on every processor of the
  list: the first evaluation uses the flag up, the next one is cheaper for it and
  wins, and nobody is charged.
* `killed`: `run_simulation` keeps "deterministic outcomes of the simulator" and says
  that a crash is a property of the attempt. A `./run` that the kernel kills raises
  nothing: its return code makes it "OOM/Crash", which is kept, and every later
  sweep takes the batch for one that cannot run.

Seen while modelling, kept in the model as the code has it, and not among the
findings because nothing in the repository says otherwise in so many words:

* prefill of latent attention pays two page fills for a layer
  (`attention_sum_impl.cpp:1084`, `:1269`), where item 22 of `BUGS.md` unified the
  other kernels;
* the KV write of latent attention is computed from `LayerInfo` fields its
  `forward` leaves as declared (`attention.cpp:389`);
* the logic-die and PIM kernels of grouped-query attention read the whole context
  of a local layer, and the logic die's decode kernel has no softmax;
* no prefill kernel sets the batch-dependent part of its time, so the
  reconstruction never scales it;
* where the whole batch is bound by computation and its microbatch by memory,
  the reconstruction is below the microbatch's time;
* flops and cache sizes of some prefill kernels are products of `int`s
  (`attention_sum_impl.cpp:568`, `:724`), and the simulated time of some reads is
  overwritten (`:130`);
* the result of the activation in `FeedForward3Way` is read by nobody
  (`layer.cpp:430-441`; item 15 of `BUGS.md` on its buffer);
* a comment in `_sim_cache_refresh` says that the position is left at the start of a
  line that does not parse; it is left where the read began, so that a line a dead
  process cut short hides all later lines from every new process, for ever;
* `run_analytic_configs` does not look at the return code: a listing whose process is
  killed is taken for the whole listing (`Printed`).

### Bounds

* `scheduler`: two batches of two requests, four identities. Two batches are the
  fewest with a rotation that can point to the wrong one, two places the fewest
  where one frees up while the other is busy. Lengths from one to five tokens:
  an output of four or five gives the staggered ages distinct values, prompts of
  three and four tokens take several iterations under caps of one and three. The
  state space is finite without a bound on time because the untimed rounds do
  not move it.
* `loop`: five timed iterations of one or two time units and seven arrivals, two of
  them at once; enough for requests to be admitted, prefilled, decoded and
  completed, and for their successors to be. Twelve identities: more than are ever
  alive together. `QueueBound` ends the pile of requests at eight. `WarmedUp` leaves
  out timed loops that begin while a request of the initial fill still waits in
  the queue: ten thousand rounds of warm-up see to that, the model's any number of
  rounds may be fewer.
* `graph`: four devices in four layouts that combine tensor parallelism of one
  or two, one or two stages, and expert groups of one, two or four, with dense
  and expert layers; loads of zero (the early returns) and two tokens; experts without
  tokens, with two, and with forty more on cold ones, which is enough to outweigh all
  else a device does in the graph; two runs, since flags survive a restart.
* `executor`: two local experts, so that the first activated one is the first,
  the second or none; batches of one to three tokens, so that an expert has
  tokens in the batch and none in the microbatch; batches in which a prompt waits and
  a decoding sequence is not due, as both have no tokens in a step; nine machines: with flash and
  without, each kind of attention, each processor, one candidate and several,
  the DRAM simulator, an offloaded KV cache (with a kernel that allows it and one
  that stops the program).
* `cost`: batches of up to four sequences of up to six tokens, on both sides of
  the window of four and of the chunk of the staging pool; five sets of rates
  (memory-bound, compute-bound, pages hidden) for six models. The growing batch
  stops at its bounds, which is why deadlock is not checked in this run.
* `search`: two workers, the fewest that read what another writes; two configurations
  in a cell, with one and two replicas, so that batches and requests for each
  replica differ; seven cells, one for each way through the search (pruned,
  promised too much, bisected between hint and capacity, widened far beyond both,
  saved by the fallback, nothing fits, nothing fits with one replica); two phases,
  so that the second reads what the first left; one fault, anywhere. `MaxBatch` is 16,
  beyond the double of what any configuration holds, as 2^30 is in the code:
  the bracket of the listing ends because a batch no longer fits.

### Fairness

There is one thread, and every method of the model terminates, so weak fairness
of `Next` (`FairSpec` in `Scheduler` and `ModuleGraph`) is what the program does:
it never stops in the middle. `ClusterFairSpec` adds strong fairness of
`StartTimed`: the warm-up, any number of rounds in the model, ends after ten
thousand in the code. In `ConfigSearch` each worker's `Step` is weakly fair, because
it is a process of its own and a run of the simulator ends or meets its
`timeout=1800`, and so is `NextPhase`, the main process's wait for the futures. No
worker need die, and a write excludes other writers only while it lasts. Deadlock is checked in every run of a program: a program that has
finished is an explicit step, `Terminating` in `ClusterLoop`, `ModuleGraph` and `ConfigSearch`, `Stopped` in
`Executor`; only the harness of `cost` stops at its bounds.

### Assumptions on the configuration

The workload is synthetic (`real_data` is false). `num_max_batched_token` is only
read into a variable nothing uses and is left out; so are
`admitted_prefill_tokens_this_step` and the sum of the offload fractions, which
nothing reads, and the branch `parallel_execution`, which every hardware preset
disables. `ImplementsFairBatchServer` is checked where requests enter only for
free places; when arrivals keep coming faster than prefill, or when a batch of
one-token requests keeps the machine prefilling, decoding can starve, because a
prefill always goes first.

The experts have three projections (`FeedForward3Way`). `chunk_size_override` is
zero, as every caller leaves it. `int_limit` stands for 2^31. The answers of the
DRAM simulator are a linear function of the bytes it is given (`Ramulator`), its
cache of answers therefore invisible.

In the sweep the switches of the environment have their defaults (results are kept,
configurations pruned), the binaries do not change while the file lives, and the
order of lines with equal throughput is any order.

## 4. Proofs

`SchedulerProofs` proves about `Scheduler`, for every set of identities, every
number of batches, every batch size and every set of configurations that
satisfies `SchedulerAssumption` (the number of batches is positive, the batch
size a natural number, configurations have their type):

* `Invariance`: `Spec => []IInv`;
* `TypeCorrect`, `CapacityRespected`, `OnePlaceOnly`: `TypeOK`, `WithinCapacity`
  and `InOnePlace` are invariants;
* `SchedulerImplementsBatchServer`: `Spec => Server!Spec`, the refinement;
* `ProperWorkloadHasNoZombie`: `Spec => []NoZombie` when no decode-mode
  configuration has an output below two tokens (`ProperWorkload`), which is what
  the clamp of the sampler provides. The run `zombie` shows that the hypothesis
  cannot be dropped.

The argument. `IInv` is `TypeOK`, `FiniteBatches`, `WithinCapacity`, `InOnePlace`
and `ReturnedNotQueued`. Finiteness is needed for the cardinalities to be
numbers at all, since the identities may be infinite. `WithinCapacity` contains
that a `fillRunningQueue` has no more passes left than requests wait, without
which its head of the queue would not exist; it is preserved because a pass
removes at most one. `ReturnedNotQueued` keeps a request that an update has
returned from being queued before it is forgotten. There is one lemma for each
action. The refinement follows step by step: `PushDummySeq` is `Arrive`,
`AdmitSequence` is `Admit`, `HitUpdate` is `Complete` of the requests that ended
or a stutter, and everything else stutters; `IInv` provides that the identity
that arrives is nowhere and that the batch has room. `NoZombie` has an invariant
of its own, `NoZombieInv`, which adds that a request is between its start and
its end and that the tokens given to it do not go past the end; the arithmetic
of the staggered start is a lemma.

What the batches hold, and what it adds up to, is proved on top of `IInv`, with
the facts about counts and sums in `Counting`:

* `WorkIsConserved`: `WorkConserving`. `WorkInv` says that the passes
  `fillRunningQueue` has left are enough for the requests that wait or for the
  places that are free. The loop counts its passes before it starts and each
  takes a place or finds none, so that one count is always covered; that a pass
  which finds none has looked at every batch is a lemma about the rotation
  (`EveryBatchIsProbed`), and that a difference of two cardinalities counts the
  free places is `BatchSizeBound`;
* `QueueIsDrained`: `QueueDrained`. `DrainInv` bounds what waits and what is still
  to be pushed by the free places. The property has the divisibility of
  `total_batch_size` as its premise, since otherwise `batch_size_per_dp` drops a
  remainder that is refilled for ever;
* `OffloadIsEnough`: `OffloadCoversKv`, under `ProperWorkload`. `KvInv` remembers that
  the offload is what the reservation exceeds the budget by, and `NoZombieInv`
  that no request outgrows its reservation; the sum of the ones is then
  at most the sum of the others (`SumMonotone`);
* `DecodeIsSteady`: `SteadyDecode`, under `SteadyWorkload`: a configuration in decode
  mode has no arrivals of its own (`run_experiments.py:379` and
  `run_paper2.py:208` set the injection rate to zero) and no output below two
  tokens, to which the sampler clamps. `SteadyInv` carries the free places
  through the round: what is pushed, then the passes, are at least as many as they;
* `AgesAreUniform`: `AgesStayUniform`, under `SteadyWorkload`, finite sets of lengths and a
  `TotalBatch` that the batches divide. `AgesInv` states the property at every
  point of a round: the requests that live, in a batch or in the queue, and the
  ones still to be pushed (`Missing`, at age zero) have the ages of the initial fill,
  turned. A push moves one from `Missing` to the queue; an update moves every age
  on by one and turns those at the last age into what is missing, which is the next turn
  modulo `output_len - 1`. Before its admission the initial fill is described by `Filling`,
  and `FilledAges` shows by a bijection that admitting it begins at turn zero.

The lemmas are stated for the operators `ClusterLoop` uses too: `UpdateScheduler`
and `FillSequenceQueue` at any time, and a collection of any finished requests.
On them `ClusterProofs` builds, for every set of iteration times, every number of
iterations and every configuration that satisfies both modules' assumptions, on
one machine and on two:

* `LoopInvariance`: `IInv` is an invariant of the loop, with `LoopInv`, which says
  that clocks are natural numbers and that an iteration begins when no pass of
  `fillRunningQueue` is left;
* `LoopRespectsCapacity`, `LoopKeepsOnePlace`, `LoopImplementsBatchServer` and,
  under `ProperWorkload`, `LoopHasNoZombie`: the scheduler's theorems hold where
  the simulator runs it. The hard case is the split loop: a prefill advances every
  request that holds tokens but collects only from the prefills, so that
  `NoZombieInv` has to hold with a decode that keeps its tokens;
* `LoopRowsTellTheTime`: `ClockInv` says that on one machine an injected request
  in a batch has arrival time, queueing delay and the time since its admission
  adding up to `total_time`, and that a request that waits has no delay yet;
* `ClusterTypeCorrect`: `ClusterTypeOK`. `CountInv` adds that an iteration that has
  begun is one that is left, without which `iterations_left` could fall below
  zero; that no window and no difference of counts is negative rests on the
  bound on the batches;
* `LoopInjectsOnce`: `ArrivalsInjectedOnce`, under `ProperArrivals`: the arrivals of a run
  ascend, as sums of the gaps between them do (`scheduler.cpp:841`), and no
  request is without output, since `pushDummySeq` drops such a one
  (`scheduler.cpp:78`) and leaves its arrival time to the next. `InjectInv` says
  how many arrival times have been handed out at every point of an iteration: those
  before the clock, less the window that the last iteration of the decode
  machine opened and `pushSeq` has not worked off. Windows of successive
  iterations meet (`WindowsMeet`), prefills and iterations without a token open
  none, and the next arrival handed out is past because the list ascends
  (`NextArrivalIsPast`).

What concerns prefill and decode, in the same module:

* `LoopDecodesInTime`, that is `NoEarlyDecode`. `DecodeInv` says of each running
  request: while it is in prefill it is not reported and its prefill has no end;
  from then on the end is past on the decode machine's clock, or in
  `gen_start_time`, or in `stat.time` of the `addLatency` about to write it there;
  and tokens it holds for decoding were given when the end was past. The last part
  is not implied by the others, since a request keeps its tokens while the other
  machine prefills;
* `LoopPrefillsAfterAdmission`, that is `PrefillAfterAdmission`. `SplitInv` says that what
  an unreported request in prefill has waited, from its arrival, does not reach past the later of the
  two clocks, where the next prefill would start. The exception is a request
  whose whole prompt is cached, which never prefills: it decodes in the
  first iteration that serves it, before it could be reported as prefilled;
* `LoopCountsKvOnce`, that is `KvCountedOnce`, for behaviours in which `WarmedUp`
  holds: the warm-up outlasts the initial fill, the constraint of the run `loop`. `KvCountInv` says
  that a request in prefill holds no more tokens than its prompt has left
  and any other at most one, so that counting requests counts tokens; the KV the running
  requests hold is a sum of `Counting`, which grows by the requests that
  decode, by the prompt of one that enters, and loses what those that leave
  have, which is their full context.

`CostProofs` proves what the others need of the cost models, for every machine that
`IsMachine` describes (what the constructors of `ModelConfig` and `SystemConfig` and the
presets provide: no dimension of the model and no compute rate is zero, a pipeline has
no more stages than there are layers, and four tiles of a row fit the shared memory of the fused
latent kernel, which would divide by zero otherwise) and every batch of
any length, with sequences that have no token in this step among the others:

* `DecodeTakesTime`: each of the nine decode kernels either stops the program or returns a time, which
  is a natural number and zero exactly when no sequence has a token, and its
  batch-dependent part is no larger than it;
* `PrefillTakesTime`: so does each of the nine prefill kernels, if no product that grouped-query
  prefill keeps in an `int` overflows (`FitsInt`). Beyond the limit the model wraps, as
  the code's `int` does in practice, and a time may be anything.

That a time is zero only of no work is more than a curiosity: `Executor::execution` takes
zero for "no candidate yet". The argument goes along the modules: a sequence with
tokens needs two flops at least (`WorkOf`), which are a tick even where `ComputeTime`
halves them, and sums and maxima of phases keep both bounds. `SumOver` is a
`SumFunction` of the community modules; its values are natural numbers and bound each
term by the lemmas of `Counting`. `LinearIs` and `ActivationIs` say the same of the product and
the activation, with what they answer to a page flag and to a tag.

`ExecutorProofs` proves about `Executor`, for every set of machines, every number
of local experts and every set of batches that satisfies `ExecutorAssumption` (at
least one expert; `IsMachine` of each machine, whose processors are a sequence that is not
empty):

* `TypeCorrect`: `TypeOK` is an invariant;
* `FlagsStayInTheLayer`: `NoFlagLeaks` is. `FlagsInv` adds that no flag is set
  while attention runs and that `tried` is empty between operations; the flags
  are then set only by `RouteForward`, when none is, and the one expert armed is
  passed in the order of the experts, whose `gate_proj` resets it at the first
  evaluation;
* `FirstExpertPays`: `FirstExpertPaysOnce` is, where one processor executes the
  experts (`OneProcessor`). `DueInv` divides the experts into those passed and those
  to come: of the page that is due, the ones passed have paid, the others are
  armed. The run `first_expert` shows that the hypothesis cannot be dropped;
* `TagsAreOfThisStep`: every operation of an expert with tokens reads the tag
  `RouteForward` computed in this step. `TagsInv` says that the tag has arrived on
  the tensors behind the current operation, that `down_proj` included, which reads
  `up_proj`'s;
* `TagsStayExact`: `TagsAreExact` is an invariant, without a hypothesis. `LabelInv` adds
  to the tag the status that was computed with it: whichever processor is the
  best so far, its batch-dependent part is the one `Cold` computes from the tag of
  this expert. The rest is the arithmetic of one division;
* `TheCheapestWins`: `PicksTheCheapest` is. `BestInv` says of the candidates tried so
  far that `best` is one of their times and none is less, and that it is zero only
  when there is nothing to execute, in which case all are: it is here that
  the kernels' theorems are used, since a candidate that costs
  nothing for work would be thrown away by the next one. `BatchInv` keeps the batch
  within them. There are two hypotheses. `IntsSuffice` is `FitsInt` of every batch.
  `EqualTerms`: where several processors compete for experts, the page flag costs nothing,
  because the first evaluation uses the flag up and the
  candidates are then not asked the same question; the run `first_expert` shows
  what comes of that.

`SearchProofs` proves about `ConfigSearch`, for any workers, cells, configurations,
estimates and measured times, any number of phases and any bound on faults that
satisfy `SearchAssumption` and `ListingAssumption`:

* `TypeCorrect`: `TypeOK` is an invariant;
* `WhatIsKeptIsTrue`: `HitsAreTrue` is, when no run is killed (`"kill" \notin Faults`);
  the run `killed` shows that the hypothesis cannot be dropped;
* `NoRunIsRepeated`: `NeverRunTwice`, killed runs and dying workers included. The
  invariant is `ReadIsRemembered`: every line before a worker's position is a complete
  record whose key the worker remembers. It survives a pool's death because a line
  cut short was never passed by a reader, and a reader that finds no line it cannot parse
  has read the whole file;
* `AnswersAreTight`: `BoundaryIsTight` is an invariant, when no run is killed. `TightInv`
  says of a search in which nothing went wrong that its best so far is tight and that,
  while a configuration is probed, the verified batch was verified, the probe is
  above it, and a bisection has above `hi` a batch that was refused and is the last
  failure of the configuration (`Bracketed`). At the end of a bisection the two are neighbours.
  The proof rests on `HitsAreTrue`: a result from the file may come from another
  worker's search in another phase;
* `AnswersAreTheBest`: `AnswerIsTheBest` is an invariant, when no run is killed, the listing is
  the one `AnalyticListing` computes (`listing = Listings`), and its limit on batches is out of
  reach (`LimitIsAmple`: twice what fits in any configuration is below it; it is 2^30 in
  the code). `ThoroughInv` says of a search in which nothing went wrong, in a cell whose estimates
  are bounds, that every configuration with a batch that runs is still to be settled (`Ahead`) or has at its
  largest batch no higher throughput than the best so far (`Beaten`). A configuration leaves the list by
  being probed, and then `TightInv` makes its last verified batch the largest; or by
  pruning, and then its best estimate is no better than the answer. That the
  estimate at the hint bounds the throughput of every batch in reach is where the listing
  has to be unrolled: `doubled` and `step` of `Bracket` and `Bisected` are recursive functions
  that exist, by induction over what is left to search, and return the last batch
  that fits and the last that meets the bound; and throughput grows with
  the batch, one division at a time. That times grow is a premise of the property
  (`EstimatesAreBounds`), since the comment on pruning takes it for granted.

`GraphProofs` proves first about `LLMGraph`, for any number of devices, of layers, of
stages and every kind of layer in any order:

* `GraphsAreWellFormed`: the graph of a device has all that its execution relies
  on. Every module finds its input (`Fed`); a module that waits for others reads
  what the module right before it wrote, or follows a `sync__` (`Gated`); two
  waits on one tensor have a `sync__` between them (`Separated`), without which
  the one flag of the tensor would serve both; a device is in each group it waits for
  (`GroupsHold`); and what lets the clocks of a tensor group drift is
  followed by a `sync__` (`Reconverges`);
* `GraphsOfAStageAreAlike`: the devices of one stage have graphs of one length
  with the same modules, and what one waits for with another, the other waits for too.

The layers are tables of modules, checked entry by entry; a layer is a `Segment`,
two segments that meet are one, and the graph of a stage is a segment by
induction over its layers. `StageLayers` is a recursive function, and the library's
theorems about those take an operator, so its existence is proved by hand, by induction over
the set of lengths up to which a solution exists.

About `ModuleGraph` it proves, for every layout and on top of
the two, for all loads and any number of runs. `GraphInv` is inductive:

* the order (`OrderOK`): a tensor is ready exactly when a module the device has
  passed made it (`ReadyIsMade`); when a device has left a module that waits,
  the others have come to it or stand at the `sync__` right before it (`NearOK`); and a synced flag
  is up exactly on the devices that others of the group have left behind at a
  module (`FlagsOK`, with `Awaited`);
* the times (`TimesOK`): the history of the clocks with which each device came to
  and left each module; the clock is the last of it, or the one that the first to leave has
  set (`ClocksOK`); the clock set was the latest of the group (`LatestOK`); and a module
  adds its cost (`StepsOK`);
* the hop of a pipeline stage is the cost of its last module (`HopOK`), and what is charged to the
  batch, less its `pp`-th part, is covered by the time without the hop (`Covered`, `DepOK`).
  The part of a time that is charged may exceed the time, so that no bound by the time itself is
  inductive: a hot module adds no more than its time (`PartIsCovered`), a cold expert exactly
  what its charge gives back (`ColdIsCovered`), and a synchronisation takes a clock as a pair.

From it follow `GraphTypesAreCorrect`, `SyncsAreBarriers`, `RunsLowerTheFlags`,
`SyncTakesTheLatestClock`, `TensorPeersAgree` and `ReportIsSound`, that is
`TypeOK`, `BarrierHolds`, `FlagsLowered`, `SyncTakesTheLatest`, `TpPeersAgree` and
`ReconstructionIsSound`, and `NoCircularWait`: while a device is not done, one
that has come least far finds its input ready, for all that its input waits for lies
behind everyone. The last is the safety half of `EveryRunEnds`. `TensorPeersAgree` follows one pair
of peers along the graph: they are even after a `sync__`, stay so over
modules that cost both the same, and `Reconverges` promises a `sync__` after any
that do not. `ReportIsSound` adds up the stages of a replica by induction over
their number, with own times that may be negative (`SumsOfReplica`), for every `Dependence` and all loads
of hot and cold experts. It is under `WholeReplicas`, that each layout divides the
machine into whole replicas: `reportedIterationTime` looks at whole replicas only,
and the devices of a partial one would not be in its maximum. The optimizer passes
over layouts that leave devices stranded (`parallelism_optimizer.cpp:30`), and those of
the run `graph` divide the machine.

`LawProofs` proves the laws of `CostLaws`, for every machine that `IsMachine` describes and
batches of any length with sequences of any length:

* `LocalLayersAreCapped`: `WindowCaps`. In the window's reach the two batches are one;
* `MicrobatchIsReconstructed`: `ReconstructsTheMicrobatch`, for any number of microbatches, when no machine
  uses the DRAM simulator, which may take different rates for activations and weights, while
  `dep` takes the activations' part of the bytes (`~ramulator`);
* `LayersFillOnce`: `OneFillPerLayer`, without a hypothesis;
* `WritesAreExposed`: `ReadsThenWrites`, for machines without the DRAM simulator. The law compares three
  machines whose rates are set to zero, and the simulator's times are no rate of theirs;
* `OffloadingConserves`: `OffloadConserves`, where the ticks for a byte of GPU memory are a multiple of
  four. Shares of the KV are quarters here and the ticks of each are rounded down; the code's times
  are real numbers, and in them every such share is exact.

The argument. `LawsTypeOK` says that what the laws are asked about is a machine and a batch that
decodes. Four of the laws compare one kernel on two machines that differ in cost parameters, so each
decode kernel, and grouped-query prefill, is written as a sequence of phases (`Kernel`), whose times
`Run` adds (`RunJoined`, with the sums of `Counting`). `Dearer` relates two machines on which each
phase differs by no more than a given time, and `KernelDearer` lifts that to kernels, so that what is left of a law is
about single phases: a stream whose page fill is hidden by the chunk before it exposes at most
the first (`HiddenStream`), and only the call that opens the layer has one; a phase without computation takes its
reads, a free one nothing, and the write comes after; the two shares of an offloaded read, on a link as fast as the
memory, are the whole. `SameWork` compares different kernels on one machine. `Does` gives the flops of a sequence of
phases, whatever the processor and whether a phase takes the batch as one or sequence by sequence
(`ApartDoes`, `PlainDoes`, `StreamedDoes`); what surrounds the phases adds none (`Spent`). Each of the nine
decode and nine prefill kernels but one (the logic die's grouped-query decode kernel leaves the softmax out) is then
shown to take the same sum: `Products`, two flops for each new token, position and pair of components, and
`Exponents`, seven for each new token, position and head (`GqaFlops`, `MlaFlops`, `AbsorbFlops`; the fused decode
kernels count their own works, the same on each processor). What lengths a sequence comes to is a second
invariant, `LengthsOK`.

`Counting` has what these proofs share: induction over the natural numbers in the
form of a set that contains zero and with a number the next; the existence of
the function by which `MapThenSumSet` sums over a finite set, that its value does not
depend on the order in which members are taken, and what follows for parts, for equal,
larger and incremented terms; and the size of a family of bounded batches
(`PlacesBound`), which is full exactly when each batch is.

The inductive invariants were checked by TLC on the configurations of the
runs `scheduler`, `loop`, `graph`, `executor` and `search` before they were proved.

Only model-checked, and why:

* liveness: `ImplementsFairBatchServer`'s fairness half, `EverySweepEnds`,
  `EveryRunEnds`; fairness and `ENABLED` are outside the prover's reach;
* what the loop does not promise: `WorkConserving` is a property of the untimed
  rounds only, since after a prefill of the split machines the loop goes on to the
  next iteration without a `fillRunningQueue`.

## 5. Plan

Done: the scheduler with its abstract specification and its proofs, the loop,
the loop's proofs, the layout and the execution of graphs with their proofs, the cost models of attention, product
and activation with the proofs of their laws, the execution of a layer with its proofs, and the sweep with its
proofs. What could follow,
in this order:

1. **Volumes**: `MoEScatter`, `MoEGather` and `AllReduce` against a reference
   definition, and the conservation of tokens in `aggregate_expert`.
2. **Layout arithmetic**: heads, columns and experts of `parallel.cpp` and
   `expert.cpp`; every head, expert and layer is on some device.
3. **Time board**: the stamps as a tree, and `setTimeBreakDown`: each stretch of a
   device's time is attributed once.
4. **Memory gate**: the fallback of `checkMemorySize` and the scheduler after
   `clear`; `footprint.h` against it, since the search trusts the optimizer's
   capacities and the simulator refuses by its own.

## 6. Not modelled

* The memory gate (`checkMemorySize`) is a long sum of byte counts and one
  decision. The sum has no property short of itself; the decision's effect on the
  scheduler is in the plan.
* The time board is a print-out of what `ModuleGraph` already computes, except for
  `setTimeBreakDown`, which is in the plan.
* `attention_mixed_impl.cpp`, `BatchedLinear`'s unused variants and
  `parallel_execution` are not reached by any configuration.
* The parallelism optimizer is a closed formula over an enumeration: in
  `AnalyticListing` its estimates are an input. Whether it and the simulator agree
  on what fits is in the plan.
* The rest of the driver and the parsing of YAML build objects, once. The plots and the
  baselines' normalisation only compute what is printed. `regression_13cell.py` runs
  thirteen cells through the same search in a pool of its own; `run_paper2.py` has pools
  of single runs without a search and without a file of results; `compare_error_rates.py`
  compares printed figures.
* The DRAM simulator is a submodule whose sources are not part of the repository;
  its answers are external.
* Energy and utilisation are diagnostics that no decision reads.
