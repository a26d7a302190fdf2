------------------------------- MODULE Daemon -------------------------------
(***************************************************************************)
(* The daemon from its start to its end, and its next start: it chooses a   *)
(* contract, attaches the hooks, fills the policy maps, attaches the frame  *)
(* probes, runs the event loop and writes a report.  Any of these may fail, *)
(* and it may be killed at any time; nothing is pinned, so its programs and *)
(* maps go with it.  What stays is the ready marker in the file system.     *)
(***************************************************************************)
EXTENDS Policy, Contract, Audit

CONSTANT Scenes  \* what a daemon is started on, and how far it is followed

(* There are three LSM programs and three monitors, and a checksum is not   *)
(* empty.                                                                   *)
ASSUME SceneAssumption ==
  \A s \in Scenes :
    /\ s.config \in Configs /\ s.starts \in Nat
    /\ s.contexts \subseteq Ids /\ s.tools \subseteq Tools
    /\ s.hooks \subseteq [lsm : 0..3, called : BOOLEAN, listed : BOOLEAN, fentry : 0..3]
    /\ DOMAIN s.agents \subseteq Nat \ {0} /\ DOMAIN s.dir.index \subseteq Nat
    /\ \A i \in DOMAIN s.agents :
         s.agents[i].python.sha256 # NONE /\ s.agents[i].asyncio.sha256 # NONE

VARIABLES
  scene,     \* the one of this behaviour
  run,       \* how often the daemon was started
  stage,     \* how far it has come
  contract,  \* the one in use
  hooks,     \* how many LSM programs and monitors are attached, and what the
             \* kernel would take and call of them
  marker,    \* the run that wrote the ready file, 0 when there is none
  unclean    \* the runs that did not come to the end of the report

dvars == <<scene, run, stage, contract, hooks, marker, unclean>>
allvars == <<vars, kvars, uvars, dvars>>

Kinds == 1..3  \* file_open, bprm_check_security, socket_connect
NoHooks == [kernel |-> [lsm |-> 0, called |-> FALSE, listed |-> TRUE, fentry |-> 0],
            lsm |-> 0, fentry |-> 0]

PolicyGone ==
  /\ phase' = "attached"
  /\ todo' = <<>>
  /\ maps' = [fs |-> <<>>, exec |-> <<>>, net |-> <<>>]
  /\ ironscope_config' = NULL
  /\ seen' = disk
  /\ UNCHANGED <<config, disk>>

DaemonInit ==
  /\ scene \in Scenes
  /\ config = scene.config
  /\ disk \in scene.disks
  /\ seen = disk /\ phase = "attached" /\ todo = <<>> /\ ironscope_config = NULL
  /\ maps = [fs |-> <<>>, exec |-> <<>>, net |-> <<>>]
  /\ AuditInit
  /\ run = 0 /\ stage = "down" /\ contract = FAILED /\ hooks = NoHooks
  /\ marker = 0 /\ unclean = {}

(* The process is gone, and with it everything in the kernel.               *)
Down ==
  /\ stage' = "down"
  /\ contract' = FAILED
  /\ hooks' = NoHooks
  /\ PolicyGone
  /\ AuditGone
  /\ UNCHANGED <<scene, run>>

(* Up to the contract; without one the daemon ends.                         *)
Start ==
  /\ stage = "down"
  /\ run < scene.starts
  /\ run' = run + 1
  /\ contract' \in contract_for_agents(scene.dir, scene.agents)
  /\ stage' = IF contract' = FAILED THEN "down" ELSE "attach"
  /\ UNCHANGED <<vars, kvars, uvars, scene, hooks, marker, unclean>>

(* All three attached, and BPF in the list of active modules; a list that   *)
(* cannot be read counts as having it.                                      *)
lsm_effective(h) == h.lsm = 3 /\ (h.called \/ ~h.listed)

(* Faulty variant: the monitors stand in for all LSM programs or for none.  *)
AttachHooks_all_or_none ==
  /\ stage = "attach"
  /\ \E h \in scene.hooks :
       hooks' = [kernel |-> h, lsm |-> h.lsm, fentry |-> IF h.lsm = 0 THEN h.fentry ELSE 0]
  /\ stage' = "policy"
  /\ UNCHANGED <<vars, kvars, uvars, scene, run, contract, marker, unclean>>

(* attach_lsm_hooks stops at the first program that fails and leaves the    *)
(* earlier ones attached; the monitors are the fallback, up to the first    *)
(* that fails, which is only logged.                                        *)
AttachHooks ==
  /\ stage = "attach"
  /\ \E h \in scene.hooks :
       hooks' = [kernel |-> h, lsm |-> h.lsm, fentry |-> IF lsm_effective(h) THEN 0 ELSE h.fentry]
  /\ stage' = "policy"
  /\ UNCHANGED <<vars, kvars, uvars, scene, run, contract, marker, unclean>>

(* compile_with_hashed_tool_ids and populate_maps.                          *)
LoadPolicy ==
  /\ stage = "policy"
  /\ \/ (Compile \/ PopulateEntry \/ PopulateFails) /\ stage' = stage
     \/ PopulateConfig /\ stage' = "probes"
  /\ UNCHANGED <<kvars, uvars, scene, run, contract, hooks, marker, unclean>>

(* The frame, task and deallocation probes; then the rings are opened and a *)
(* marker of an earlier run is removed.                                     *)
AttachProbes ==
  /\ stage = "probes"
  /\ scene.loops
  /\ stage' = "loop"
  /\ pc' = "first"
  /\ marker' = 0
  /\ UNCHANGED <<vars, kvars, overwritten, hand, py_events, guard_events, tool_name_table,
                 scene, run, contract, hooks, unclean>>

(* An error on the way: rules that do not load, a program the kernel        *)
(* refuses, a policy map that is full, a probe that cannot be attached.     *)
StartFails ==
  /\ stage \in {"attach", "policy", "probes"}
  /\ scene.faults \/ phase = "ended"
  /\ Down
  /\ UNCHANGED <<marker, unclean>>

(* A signal that is not handled, at any time.                               *)
Killed ==
  /\ stage # "down"
  /\ scene.faults
  /\ Down
  /\ unclean' = unclean \cup {run}
  /\ UNCHANGED marker

(* The marker is written in the first turn of the loop, if it can be; this  *)
(* is not tried again.                                                      *)
FirstTurn ==
  /\ pc = "first"
  /\ pc' = "py"
  /\ marker' \in {run} \cup (IF scene.faults THEN {marker} ELSE {})
  /\ UNCHANGED <<vars, kvars, overwritten, hand, py_events, guard_events, tool_name_table,
                 scene, run, stage, contract, hooks, unclean>>

LeaveFirst ==
  /\ pc = "first"
  /\ pc' = "report"
  /\ UNCHANGED <<vars, kvars, overwritten, hand, py_events, guard_events, tool_name_table, dvars>>

Loop ==
  /\ stage = "loop"
  /\ Turn \/ LeaveLoop \/ LoopStep
  /\ UNCHANGED <<vars, dvars>>

(* Faulty variant: the ready file stays.                                    *)
Report_keeps_marker ==
  /\ pc = "report"
  /\ Down
  /\ UNCHANGED <<marker, unclean>>

(* The report is written, the ready file removed, and the daemon ends.      *)
Report ==
  /\ pc = "report"
  /\ Down
  /\ marker' = 0
  /\ UNCHANGED unclean

(* The output cannot be written: the error is returned first.               *)
ReportFails ==
  /\ pc = "report"
  /\ scene.faults
  /\ Down
  /\ unclean' = unclean \cup {run}
  /\ UNCHANGED marker

(* How many programs report an operation of a kind in context c.  A monitor *)
(* reports nothing outside a context.                                       *)
hooked(kind) == IF hooks.kernel.called /\ kind <= hooks.lsm THEN 1 ELSE 0
monitored(kind) == IF kind <= hooks.fentry THEN 1 ELSE 0
reporters(kind, c) == hooked(kind) + IF tool_ctx[c] = {} THEN 0 ELSE monitored(kind)

(* The traced processes, while the probes are attached.                     *)
Traffic ==
  /\ stage = "loop"
  /\ \/ /\ now < scene.events
        /\ \/ \E c \in scene.contexts, t \in scene.tools, h \in scene.holders : Begin(c, t, h)
           \/ scene.speculates /\ \E t \in scene.tools : Speculate(t)
           \/ \E c \in scene.contexts, h \in scene.holders, kind \in Kinds : Operation(c, h, reporters(kind, c))
     \/ \E c \in scene.contexts, h \in scene.holders : Carry(c, h) \/ Release(c, h)
  /\ UNCHANGED <<vars, uvars, dvars>>

OtherPrograms ==
  /\ scene.edits
  /\ ReplaceFile
  /\ UNCHANGED <<kvars, uvars, dvars>>

DaemonNext ==
  \/ Start \/ AttachHooks \/ LoadPolicy \/ AttachProbes \/ StartFails \/ Killed
  \/ FirstTurn \/ LeaveFirst \/ Loop \/ Report \/ ReportFails
  \/ Traffic \/ OtherPrograms

DaemonSpec == DaemonInit /\ [][DaemonNext]_allvars

-----------------------------------------------------------------------------
(* The contract in use is verified and made for the architecture and the    *)
(* _asyncio of every configured agent, and for its interpreter, whatever    *)
(* the order of the index and of the directory.  Build ids decide; an       *)
(* interpreter without one is told by its checksum, which is looked at for  *)
(* the first agent only, and not at all when the contract has no build id   *)
(* either (load_contract_for_detected, run_cpython_runtime).                *)
AgentsFit ==
  stage # "down" => \A i \in DOMAIN scene.agents :
    LET c == scene.dir.files[contract]
        p == scene.agents[i]
    IN  /\ c.verified
        /\ c.arch = p.python.arch
        /\ c.asyncio_build_id \in {asyncio_binary(p).build_id, asyncio_binary(p).sha256} \ {NONE}
        /\ \/ contract_python_build_id(c) = p.python.build_id
           \/ p.python.build_id = NONE /\ (c.fallback_sha256 = p.python.sha256 \/ i > 1)

(* The ready file says that a daemon has its policy in place and every      *)
(* probe attached, or it was left by one that was killed or could not write *)
(* its report, and then only until the next one is ready: the file is       *)
(* removed before the loop and after the report.                            *)
MarkerTells ==
  marker # 0 =>
    \/ marker = run /\ stage = "loop" /\ phase = "running" /\ todo = <<>>
    \/ marker \in unclean /\ pc = "off"

(* While the loop runs, a kind of operation goes unwatched only where the   *)
(* kernel takes neither an LSM program that it calls nor a monitor for it,  *)
(* or where the list of active modules cannot be read; and it is watched    *)
(* twice only where the kernel refused one of the LSM programs              *)
(* (attach_lsm_hooks and its fallback).                                     *)
WatchedOnce ==
  stage = "loop" => \A kind \in Kinds :
    LET kernel == hooks.kernel
        watchers == hooked(kind) + monitored(kind)
    IN  /\ watchers = 0 => /\ kernel.fentry < kind \/ (kernel.lsm = 3 /\ ~kernel.listed)
                           /\ ~kernel.called \/ kernel.lsm < kind
        /\ watchers = 2 => kernel.lsm < 3
=============================================================================
