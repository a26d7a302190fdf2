------------------------------ MODULE Contract ------------------------------
(***************************************************************************)
(* python_symbols.rs: which contract (the offsets and symbols of one build  *)
(* of CPython) the daemon attaches with.  A contract is named by its file;  *)
(* a directory is the record of its index and of the contract in each file. *)
(* Strings are members of small sets, and only compared.                    *)
(***************************************************************************)
EXTENDS Naturals, FiniteSets, FiniteSetsExt

NONE == ""          \* an empty string
FAILED == "failed"  \* an error instead of a contract

(* A binary has a build id, or none and then a checksum is taken.           *)
read_build_id_or_sha256(bin) ==
  IF bin.build_id # NONE THEN [build_id |-> bin.build_id, sha256 |-> NONE]
  ELSE [build_id |-> NONE, sha256 |-> bin.sha256]

(* _asyncio is an extension module that the process has mapped, or built    *)
(* into the interpreter.                                                    *)
asyncio_binary(p) == IF p.maps_asyncio THEN p.asyncio ELSE p.python

detect_runtime_for_pid(p) ==
  LET python == read_build_id_or_sha256(p.python)
      asyncio == read_build_id_or_sha256(asyncio_binary(p))
  IN  [python_path |-> p.python.path, asyncio_path |-> asyncio_binary(p).path,
       python_build_id |-> python.build_id, python_sha256 |-> python.sha256,
       asyncio_build_id |-> IF asyncio.build_id = NONE THEN asyncio.sha256
                            ELSE asyncio.build_id,
       arch |-> p.python.arch]

(* A free-threaded interpreter is refused, and one in which no _asyncio is  *)
(* found.                                                                   *)
detectable(p) == ~p.no_gil /\ (p.maps_asyncio \/ p.python.has_asyncio)

(* The section "python" of a contract comes before "libpython".             *)
contract_python_build_id(c) ==
  IF c.python_build_id # NONE THEN c.python_build_id ELSE c.libpython_build_id

(* Faulty variant: the architecture is taken on trust.                      *)
contract_matches_detected_any_arch(c, d) ==
  /\ \/ contract_python_build_id(c) = d.python_build_id
     \/ c.fallback_sha256 # NONE /\ c.fallback_sha256 = d.python_sha256
  /\ c.asyncio_build_id = d.asyncio_build_id

contract_matches_detected(c, d) ==
  /\ \/ contract_python_build_id(c) = d.python_build_id
     \/ c.fallback_sha256 # NONE /\ c.fallback_sha256 = d.python_sha256
  /\ c.asyncio_build_id = d.asyncio_build_id
  /\ c.arch = d.arch

(* PythonContract::load fails on a file that is not there or not a          *)
(* contract.                                                                *)
broken(dir, f) == f \notin DOMAIN dir.files \/ ~dir.files[f].parses

(* Where a search ends: at a file that does not load, or at one that        *)
(* matches, which is refused when it has no proper provenance or was not    *)
(* verified.                                                                *)
stops(dir, f, d) == broken(dir, f) \/ contract_matches_detected(dir.files[f], d)
outcome(dir, f) == IF broken(dir, f) \/ ~dir.files[f].verified THEN FAILED ELSE f

index_hits(dir, d) ==
  {i \in DOMAIN dir.index :
     LET e == dir.index[i]
     IN  /\ e.python_build_id = d.python_build_id
         /\ e.asyncio_build_id = d.asyncio_build_id
         /\ e.arch = d.arch
         /\ stops(dir, e.path, d)}

(* The index, when there is one, is searched in its order, then the         *)
(* directory in the order of read_dir, which may be any: the set of the     *)
(* possible outcomes.                                                       *)
load_contract_for_detected(dir, d) ==
  LET hits == index_hits(dir, d)
      met == {f \in DOMAIN dir.files : stops(dir, f, d)}
  IN  IF ~dir.index_parses THEN {FAILED}
      ELSE IF hits # {} THEN {outcome(dir, dir.index[Min(hits)].path)}
      ELSE IF met # {} THEN {outcome(dir, f) : f \in met}
      ELSE {FAILED}

load_contract_for_pid(dir, p) ==
  IF detectable(p) THEN load_contract_for_detected(dir, detect_runtime_for_pid(p))
  ELSE {FAILED}

(* What run_cpython_runtime compares between the agents.                    *)
same_runtime(d, e) ==
  /\ d.python_path = e.python_path /\ d.asyncio_path = e.asyncio_path
  /\ d.python_build_id = e.python_build_id
  /\ d.asyncio_build_id = e.asyncio_build_id
  /\ d.arch = e.arch

(* The contract of the first agent, when every other one has a contract too *)
(* and runs the same interpreter; the possible outcomes.                    *)
contract_for_agents(dir, agents) ==
  LET others == {agents[i] : i \in DOMAIN agents \ {1}}
      alike(p) == detectable(p) /\ detectable(agents[1]) /\
                  same_runtime(detect_runtime_for_pid(p), detect_runtime_for_pid(agents[1]))
      may_pass(p) == alike(p) /\ load_contract_for_pid(dir, p) # {FAILED}
      may_fail(p) == ~alike(p) \/ FAILED \in load_contract_for_pid(dir, p)
  IN  IF agents = <<>> THEN {FAILED}
      ELSE (IF \A p \in others : may_pass(p) THEN load_contract_for_pid(dir, agents[1]) ELSE {})
           \cup (IF \E p \in others : may_fail(p) THEN {FAILED} ELSE {})
=============================================================================
