------------------------------ MODULE MCDaemon ------------------------------
(* Instances of Daemon: one part of it is varied at a time.                 *)
EXTENDS Daemon

CONSTANTS p1, p2, toolA, toolB, h1, h2

Lists(S) == [allow : SUBSET S, deny : SUBSET S]
NoRules == [allow |-> {}, deny |-> {}]

Tool(id, fs, exec, net) == [id |-> id, fs |-> fs, exec |-> exec, net |-> net]

Config(tools, mode, default) ==
  [tools |-> tools, mode |-> mode, default_tool_policy |-> default,
   unknown_tool_policy |-> ALLOW, resolver_error_policy |-> DENY]

(* A tool next to one that forbids everything.                              *)
Strict == Tool(toolB, [allow |-> {}, deny |-> Paths \cap {p1}], [allow |-> {}, deny |-> {STAR}],
               [allow |-> {}, deny |-> {[form |-> "cidr", addr |-> <<0, 0>>, prefix |-> 0]}])
Beside(tools) == {<<t, Strict>> : t \in tools}

FileConfigs ==
  {Config(ts, md[1], md[2]) : md \in {<<"monitor", DENY>>, <<"enforce", ALLOW>>, <<"enforce", DENY>>},
     ts \in Beside({Tool(toolA, fs, NoRules, NoRules) : fs \in Lists({p1, p2})}
              \cup {Tool(toolA, NoRules, exec, NoRules) : exec \in Lists({p1, STAR})})}

(* Addresses of two bits and ports of one.                                  *)
NetRules == {[form |-> "cidr", addr |-> <<0, 1>>, prefix |-> 1],
             [form |-> "host", addr |-> <<0, 1>>],
             [form |-> "port", addr |-> <<0, 1>>, port |-> <<1>>],
             [form |-> "host", addr |-> NULL]}
NetConfigs ==
  {Config(ts, "enforce", default) : default \in {ALLOW, DENY},
     ts \in Beside({Tool(toolA, NoRules, NoRules, net) : net \in Lists(NetRules)})}

NoTools == Config(<<>>, "enforce", DENY)
AllConfigs == FileConfigs \cup NetConfigs \cup {NoTools}
Caps == [fs |-> 2, exec |-> 2, net |-> 6]

Resolver1 == {<<0, 1>>}
Loopback == {<<1, 1>>}

(* Interpreters with and without a build id, a _asyncio apart or built in.  *)
Binary(path, id, sha, arch) ==
  [path |-> path, build_id |-> id, sha256 |-> sha, arch |-> arch, has_asyncio |-> sha = "x"]
Module == Binary("_asyncio.so", "m", "n", "arm")
Agents ==
  [no_gil : {FALSE}, python : {Binary("python", id, sha, "arm") : id \in {"a", NONE}, sha \in {"x", "y"}},
   maps_asyncio : BOOLEAN, asyncio : {Module}]
  \cup [no_gil : BOOLEAN, python : {Binary("python", "a", "x", "x86")}, maps_asyncio : {TRUE},
        asyncio : {Module}]
PlainAgent == [no_gil |-> FALSE, python |-> Binary("python", "a", "x", "arm"),
               maps_asyncio |-> TRUE, asyncio |-> Module]

File(parses, verified, id, sha, asyncio, arch) ==
  [parses |-> parses, verified |-> verified, python_build_id |-> NONE, libpython_build_id |-> id,
   fallback_sha256 |-> sha, asyncio_build_id |-> asyncio, arch |-> arch]
PlainFile == File(TRUE, TRUE, "a", NONE, "m", "arm")
Files ==
  {PlainFile, File(TRUE, FALSE, "a", NONE, "m", "arm"), File(FALSE, TRUE, "a", NONE, "m", "arm"),
   File(TRUE, TRUE, "a", NONE, "m", "x86"), File(TRUE, TRUE, "a", "x", "a", "arm"),
   File(TRUE, TRUE, NONE, "y", "m", "arm"), File(TRUE, TRUE, "b", "x", "m", "arm"),
   File(TRUE, TRUE, "b", "y", "m", "arm"), File(TRUE, TRUE, "b", "x", "x", "arm")}
Entry(f) == [path |-> f, python_build_id |-> "a", asyncio_build_id |-> "m", arch |-> "arm"]
Dirs == [files : [{"f1", "f2"} -> Files], index_parses : {TRUE},
         index : {<<>>, <<Entry("f2")>>, <<Entry("f3"), Entry("f1")>>}]
PlainDir == [files |-> [f \in {"f1"} |-> PlainFile], index_parses |-> TRUE, index |-> <<>>]

AllHooks == [lsm |-> 3, called |-> TRUE, listed |-> TRUE, fentry |-> 3]
SomeHooks == [AllHooks EXCEPT !.lsm = 1]
AnyHooks == [lsm : 0..3, called : BOOLEAN, listed : BOOLEAN, fentry : 0..3]

Plain == [config |-> NoTools, disks |-> {[p \in Paths |-> NULL]}, agents |-> <<PlainAgent>>,
          dir |-> PlainDir, hooks |-> {AllHooks}, starts |-> 1, faults |-> FALSE, loops |-> FALSE,
          edits |-> FALSE, events |-> 0, contexts |-> {}, tools |-> {toolA},
          holders |-> {h1}, speculates |-> FALSE]

(* Files are replaced while the policy is loaded, or the lists vary most.   *)
PolicyScenes ==
  {[Plain EXCEPT !.config = c, !.disks = [Paths -> Inodes \cup {NULL}],
                 !.edits = (c \in FileConfigs /\ c.default_tool_policy = ALLOW)] : c \in AllConfigs}
ContractScenes ==
  {[Plain EXCEPT !.dir = d, !.agents = a] : d \in Dirs, a \in {<<>>} \cup [{1} -> Agents] \cup [{1, 2} -> Agents]}
  \cup {[Plain EXCEPT !.dir.index_parses = FALSE]}
FaultScenes == {[Plain EXCEPT !.hooks = AnyHooks, !.starts = 2, !.faults = TRUE, !.loops = TRUE]}
(* Two tools one after the other or at once, one tool with two carriers     *)
(* under hooks of which one is attached twice, and one whose object was     *)
(* asked about before.                                                      *)
AuditScenes ==
  {[Plain EXCEPT !.loops = TRUE, !.events = 4, !.contexts = {1, 2}, !.tools = {toolA, toolB}],
   [Plain EXCEPT !.loops = TRUE, !.events = 5, !.contexts = {1}, !.holders = {h1, h2},
                 !.hooks = {SomeHooks}],
   [Plain EXCEPT !.loops = TRUE, !.events = 4, !.contexts = {1, 2}, !.speculates = TRUE]}
AllScenes == PolicyScenes \cup ContractScenes \cup FaultScenes \cup AuditScenes

Rings == [py |-> 2, resolver |-> 1, guard |-> 2]
=============================================================================
