----------------------------- MODULE ModuleGraph -----------------------------
(***************************************************************************)
(* How the devices run their module graphs in one Cluster::run             *)
(* (src/hardware/cluster.cpp, src/module/module_graph.cpp): in turn, each  *)
(* as far as it gets.  A device stops at a synchronised module until its   *)
(* input is ready on all devices of the group; the first device that finds *)
(* it so sets the clocks of all of them to the latest one, and flags on    *)
(* the tensors tell the others that this has been done.                    *)
(*                                                                         *)
(* What a module costs is a function of the tokens the device has to       *)
(* process: a time and the part of it that is charged to the batch, which  *)
(* for an expert that is cold at the size of a microbatch is more than the *)
(* time itself.                                                            *)
(*                                                                         *)
(* A definition whose comment starts with "Slip" is not part of the model. *)
(***************************************************************************)
EXTENDS LLMGraph, Integers, FiniteSetsExt

CONSTANTS
  Layouts,            \* the model layouts to run
  Loads,              \* how many tokens a device may have to process
  ExpertLoads,        \* tokens a device's experts may have: of those that are
                      \*   hot, and of those that are cold at a microbatch
  Dependence,         \* which part of a module's time is charged to the batch:
                      \*   what its roofline and its kind of memory decide
  Runs                \* how often the graph is run

\* The modules whose time has such a part.
TimedModules == {"attention", "layer_norm", "feedforward", "all_reduce",
                 "gate_update", "moe_scatter", "expert_FFN", "moe_gather",
                 "shared_expert_FFN", "residual", "lm_head"}

ASSUME ModuleGraphAssumption ==
  /\ Layouts \subseteq Layout
  /\ Loads \subseteq Nat
  /\ ExpertLoads \subseteq [hot : Nat, cold : Nat]
  /\ Dependence \in [TimedModules -> {"none", "part", "whole"}]
  /\ Runs \in Nat \ {0}

VARIABLES
  layout,             \* the layout, fixed when the model is built
  module_graph,       \* the graph of each device, built with the model
  load,               \* tokens of each data-parallel replica
  expert_load,        \* tokens of each device's experts
  current_module,     \* where each device is in its graph
  ready,              \* the <<device, tensor>> whose `ready' flag is set
  timeboard_synced,   \* the <<device, tensor>> whose flag of that name is set
  device_time,
  device_time_dep,    \* the part of device_time that is charged to the batch
  pipeline_hop_time,
  num_token_for,      \* the layer that num_token_in_expert was drawn for
  turn,               \* the device that runs; NumDevice when all are done
  runs_left,
  entered,            \* history: the clock <<time, dep>> with which each
                      \*   device came to each module of its graph
  left                \* history: its clock after the module's synchronisation

vars == <<layout, module_graph, load, expert_load, current_module, ready,
          timeboard_synced, device_time, device_time_dep, pipeline_hop_time,
          num_token_for, turn, runs_left, entered, left>>

Finished(d) == current_module[d] > Len(module_graph[d])
Current(d) == module_graph[d][current_module[d]]
Clock(d) == <<device_time[d], device_time_dep[d]>>
RunDone == turn = NumDevice

\* What a run starts with: restart_graph, reset_status, and new metadata; the
\* graph's first tensor, EmbeddingVector in the code, is ready.  The flags
\* timeboard_synced are not reset.
Zero == [d \in Devices |-> 0]
AtTheStart == [d \in Devices |-> 1]

\* Route tags experts as cold only when there are microbatches.
ExpertLoadsOf(l) == {x \in ExpertLoads : l.pp = 1 => x.cold = 0}
InputsOf(graph) == {<<d, graph[d][1].input>> : d \in Devices}

Init ==
  /\ layout \in Layouts
  /\ module_graph = [d \in Devices |-> Graph(layout, d)]
  /\ load \in [{DpRank(layout, d) : d \in Devices} -> Loads]
  /\ expert_load \in [Devices -> ExpertLoadsOf(layout)]
  /\ current_module = AtTheStart
  /\ ready = InputsOf(module_graph)
  /\ timeboard_synced = {}
  /\ device_time = Zero
  /\ device_time_dep = Zero
  /\ pipeline_hop_time = Zero
  /\ num_token_for = 0
  /\ turn = 0
  /\ runs_left = Runs - 1
  /\ entered = [d \in Devices |-> <<<<0, 0>>>>]
  /\ left = [d \in Devices |-> <<>>]
----------------------------------------------------------------------------
\* The time of a module that processes n tokens; without tokens it returns
\* early.
Time(n) == IF n = 0 THEN 0 ELSE n + 1

\* The time and what of it is charged to the batch: nothing where reading
\* weights from flash decides, what is moved for tokens where bytes add up, and
\* the whole where computing decides or nothing but activations is moved.
Work(op, n) ==
  <<Time(n), CASE Dependence[op] = "none" -> 0
               [] Dependence[op] = "part" -> n
               [] OTHER -> Time(n)>>

\* A cold expert does not run in a microbatch: it is charged pp / (pp - 1) times
\* its time, so that its share of the pipelined time is zero.  Its time is
\* counted in multiples of pp - 1, to have a whole number.
ColdWork(n) == <<Time(n) * (layout.pp - 1), Time(n) * layout.pp>>

\* The experts of a device, hot and cold.
ExpertWork(l) ==
  LET hot == Work("expert_FFN", l.hot)
      cold == ColdWork(l.cold)
  IN <<hot[1] + cold[1], hot[2] + cold[2]>>

Cost(d, e) ==
  CASE e.op = "expert_FFN" -> ExpertWork(expert_load[d])
    [] e.op \in {"moe_scatter", "moe_gather"} ->
         Work(e.op, expert_load[d].hot + expert_load[d].cold)
    [] e.op \in {"sync__set", "sync__", "moe_route"} -> <<0, 0>>
    [] e.op = "pipeline_stage" -> <<Time(load[DpRank(layout, d)]), 0>>
    [] OTHER -> Work(e.op, load[DpRank(layout, d)])

\* Slip: a device only looks at its own input.
CheckReady_Own(d, e) == <<d, e.input>> \in ready

\* check_ready, without its side effect.
CheckReady(d, e) ==
  IF e.op \in SyncedModules
  THEN \A m \in e.group : <<m, e.input>> \in ready
  ELSE <<d, e.input>> \in ready

\* The clock that sync_devices broadcasts: the latest one, and among equals
\* the last device's.
Latest(group) ==
  LET latest == {m \in group :
                   \A k \in group : device_time[k] <= device_time[m]}
  IN Clock(CHOOSE m \in latest : \A k \in latest : k <= m)

Syncs(d, e) == e.op \in SyncedModules /\ <<d, e.input>> \notin timeboard_synced

\* Slip: only the device that synchronises takes the clock.
Synced_SelfOnly(d, e) ==
  [m \in Devices |->
     IF Syncs(d, e) /\ m = d THEN Latest(e.group) ELSE Clock(m)]

\* Slip: the batch-dependent part stays behind.
Synced_StaleDep(d, e) ==
  [m \in Devices |->
     IF Syncs(d, e) /\ m \in e.group
     THEN <<Latest(e.group)[1], device_time_dep[m]>> ELSE Clock(m)]

\* sync_devices: the clocks, and the flags of the inputs.
Synced(d, e) ==
  [m \in Devices |->
     IF Syncs(d, e) /\ m \in e.group THEN Latest(e.group) ELSE Clock(m)]

\* Slip: the device that synchronised leaves its own flag up.
SyncedFlags_OwnToo(d, e) ==
  IF e.op \notin SyncedModules THEN timeboard_synced
  ELSE IF Syncs(d, e)
       THEN timeboard_synced \union {<<m, e.input>> : m \in e.group}
       ELSE timeboard_synced \ {<<d, e.input>>}

SyncedFlags(d, e) ==
  IF e.op \notin SyncedModules THEN timeboard_synced
  ELSE IF Syncs(d, e)
       THEN timeboard_synced \union {<<m, e.input>> : m \in e.group \ {d}}
       ELSE timeboard_synced \ {<<d, e.input>>}

\* Slip: a module that returns early leaves its output alone.
Output_IfWork(d, e) ==
  IF Cost(d, e) = <<0, 0>> /\ e.op = "all_reduce" THEN {}
  ELSE {<<d, e.output>>}

\* get_activation comes before every early return.
Output(d, e) == {<<d, e.output>>}

\* The aggregator of the stage draws the experts of all batches anew.
Aggregates(d, e) ==
  /\ e.op = "gate_update"
  /\ \A m \in StageGroup(layout, d) : d <= m

\* ModuleGraph::run of the device whose turn it is, and the time it adds.
Forward ==
  /\ turn \in Devices
  /\ ~Finished(turn)
  /\ LET d == turn
         e == Current(turn)
         clock == Synced(d, e)
         cost == Cost(d, e)
         after == <<clock[d][1] + cost[1], clock[d][2] + cost[2]>>
     IN /\ CheckReady(d, e)
        /\ device_time' = [m \in Devices |->
                             IF m = d THEN after[1] ELSE clock[m][1]]
        /\ device_time_dep' = [m \in Devices |->
                                 IF m = d THEN after[2] ELSE clock[m][2]]
        /\ pipeline_hop_time' =
             IF e.op = "pipeline_stage"
             THEN [pipeline_hop_time EXCEPT ![d] = @ + cost[1]]
             ELSE pipeline_hop_time
        /\ timeboard_synced' = SyncedFlags(d, e)
        /\ ready' = ready \union Output(d, e)
        /\ num_token_for' = IF Aggregates(d, e) THEN e.layer ELSE num_token_for
        /\ current_module' = [current_module EXCEPT ![d] = @ + 1]
        /\ left' = [left EXCEPT ![d] = Append(@, clock[d])]
        /\ entered' = [entered EXCEPT ![d] = Append(@, after)]
  /\ UNCHANGED <<layout, module_graph, load, expert_load, turn, runs_left>>

\* Slip: the loop over the devices stops as soon as the last one is done.
NextTurn_LastOnly ==
  IF turn < NumDevice - 1 THEN turn + 1
  ELSE IF ~Finished(turn) THEN 0 ELSE NumDevice

\* Cluster::run goes round all devices and looks after each round whether
\* anything remains.
NextTurn ==
  IF turn < NumDevice - 1 THEN turn + 1
  ELSE IF \E d \in Devices : ~Finished(d) THEN 0 ELSE NumDevice

\* The device is at the end of its graph or must wait.
Yield ==
  /\ turn \in Devices
  /\ ~Finished(turn) => ~CheckReady(turn, Current(turn))
  /\ turn' = NextTurn
  /\ UNCHANGED <<layout, module_graph, load, expert_load, current_module,
                 ready, timeboard_synced, device_time, device_time_dep,
                 pipeline_hop_time, num_token_for, runs_left, entered, left>>

\* The next Cluster::run.
Restart ==
  /\ RunDone
  /\ runs_left > 0
  /\ runs_left' = runs_left - 1
  /\ load' \in [DOMAIN load -> Loads]
  /\ expert_load' \in [Devices -> ExpertLoadsOf(layout)]
  /\ current_module' = AtTheStart
  /\ ready' = InputsOf(module_graph)
  /\ device_time' = Zero
  /\ device_time_dep' = Zero
  /\ pipeline_hop_time' = Zero
  /\ turn' = 0
  /\ entered' = [d \in Devices |-> <<<<0, 0>>>>]
  /\ left' = [d \in Devices |-> <<>>]
  /\ UNCHANGED <<layout, module_graph, timeboard_synced, num_token_for>>

\* The program is over.
Terminating == RunDone /\ runs_left = 0 /\ UNCHANGED vars

Next == Forward \/ Yield \/ Restart \/ Terminating

Spec == Init /\ [][Next]_vars

\* One thread runs the devices in turn.
FairSpec == Spec /\ WF_vars(Next)
----------------------------------------------------------------------------
(***************************************************************************)
(* reportedIterationTime                                                   *)
(***************************************************************************)

\* Slip: as if a stage were one device.
Representative_NoTp(r, s) == r * (layout.tp * layout.pp) + s

\* The device that stands for stage s of replica r.
Representative(r, s) == r * (layout.tp * layout.pp) + s * layout.tp

MaxDeviceTime == Max({device_time[d] : d \in Devices})

\* The whole replicas, and the devices that stand for the stages of one.
Replicas == 0 .. NumDevice \div (layout.tp * layout.pp) - 1
Reps(r) == {Representative(r, s) : s \in 0 .. layout.pp - 1}

\* What a device did itself and is not charged to the batch; it is negative
\* where the charge for cold experts exceeds the rest.
OwnTime(d) == device_time[d] - pipeline_hop_time[d] - device_time_dep[d]

\* pipelined is the flag pp_pipelined_timing.
ReplicaTime(r, pipelined) ==
  LET dep == MapThenSumSet(LAMBDA d : device_time_dep[d], Reps(r))
  IN MapThenSumSet(OwnTime, Reps(r))
     + (IF pipelined THEN dep \div layout.pp ELSE dep)
     + MapThenSumSet(LAMBDA d : pipeline_hop_time[d], Reps(r))

ReportedIterationTime(pipelined) ==
  IF layout.pp = 1 THEN MaxDeviceTime
  ELSE Max({0} \union {ReplicaTime(r, pipelined) : r \in Replicas})
----------------------------------------------------------------------------
(***************************************************************************)
(* Properties.                                                             *)
(***************************************************************************)

\* Every variable holds a value of its type.
TypeOK ==
  /\ current_module \in [Devices -> Nat \ {0}]
  /\ device_time \in [Devices -> Nat]
  /\ device_time_dep \in [Devices -> Nat]
  /\ pipeline_hop_time \in [Devices -> Nat]
  /\ \A t \in ready \union timeboard_synced : t[1] \in Devices
  /\ num_token_for \in 0 .. Len(layout.moe)
  /\ turn \in 0 .. NumDevice
  /\ runs_left \in 0 .. Runs - 1
  /\ RunDone => \A d \in Devices : Finished(d)

\* No device is beyond a Sync that another device of the group has not come to.
BarrierHolds ==
  \A d \in Devices : \A k \in 1 .. current_module[d] - 1 :
    LET e == module_graph[d][k]
    IN e.op = "sync__" => \A m \in e.group : current_module[m] >= k

\* A synchronised module begins, on each device of its group, with the clock
\* of the device that came to it last, whichever device ran first and although
\* some of these modules share their input and with it their flags: the guide's
\* "maximum of get_time() across dependent devices", and the batch-dependent
\* part that belongs to it.
SyncTakesTheLatest ==
  RunDone => \A d \in Devices : \A k \in DOMAIN left[d] :
    LET e == module_graph[d][k]
    IN e.op \in SyncedModules =>
         /\ left[d][k] \in {entered[m][k] : m \in e.group}
         /\ \A m \in e.group : entered[m][k][1] <= left[d][k][1]

\* A run leaves no flag behind, so that the next one synchronises again: the
\* flags are not reset with the graph.
FlagsLowered == RunDone => timeboard_synced = {}

\* The devices of a tensor-parallel group end with the same clock, so that any
\* one of them may stand for its stage (reportedIterationTime).
TpPeersAgree ==
  RunDone => \A d \in Devices : \A m \in TpGroup(layout, d) :
    /\ Clock(d) = Clock(m)
    /\ pipeline_hop_time[d] = pipeline_hop_time[m]

\* Every stage has a share in the pipelined time that is not negative, although
\* the charge to the batch may exceed the time (cold experts) and synchronising
\* carries charges from one device to another; so pipelining takes nothing off
\* that was not there.  It does not make an iteration slower either, and an
\* iteration that is not pipelined takes at least as long as each device.
ReconstructionIsSound ==
  RunDone =>
    /\ \A d \in Devices :
         (layout.pp - 1) * device_time_dep[d]
           <= layout.pp * (device_time[d] - pipeline_hop_time[d])
    /\ ReportedIterationTime(TRUE) <= ReportedIterationTime(FALSE)
    /\ MaxDeviceTime <= ReportedIterationTime(FALSE)

\* Route reads the draw of its own layer (BUGS.md, item 29, marked resolved).
RouteReadsOwnDraw ==
  turn \in Devices /\ ~Finished(turn) =>
    LET e == Current(turn)
    IN e.op = "moe_route" /\ CheckReady(turn, e) => num_token_for = e.layer

\* Every run ends: no device waits for ever for one that waits itself.
EveryRunEnds == turn = 0 ~> RunDone
=============================================================================
