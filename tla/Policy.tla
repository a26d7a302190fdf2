------------------------------- MODULE Policy -------------------------------
(***************************************************************************)
(* The policy, from the YAML file to the answer of an LSM hook: compiler.rs *)
(* turns the lists of each tool into map entries, populate_maps (main.rs)   *)
(* inserts them one by one while the hooks are already attached, and the    *)
(* three hooks of lsm_hooks.rs look them up.  Which context a hook decides  *)
(* for is the matter of Agent; here a hook is given the outcome of          *)
(* resolve_ctx.                                                             *)
(***************************************************************************)
EXTENDS Naturals, Sequences, FiniteSets, FiniteSetsExt

CONSTANTS
  Configs,     \* the configuration files considered
  Paths,       \* path names
  Inodes,      \* (device, inode) pairs
  AddrBits,    \* width of an address (32 in the code)
  PortBits,    \* width of a port, with its padding (32 in the code)
  Nameservers, \* the addresses in /etc/resolv.conf
  Localhost,   \* 127.0.0.53 and 127.0.0.1
  MapCap,      \* max_entries of each policy map (1024, 256 and 256)
  NULL         \* nothing: the tool id 0, a missing file, an absent entry

ALLOW == "allow"
DENY == "deny"
STAR == "*"    \* the key (0, 0) of TOOL_EXEC_POLICY

Bits(n) == [1..n -> {0, 1}]
Addrs == Bits(AddrBits)
Ports == Bits(PortBits)

ASSUME PolicyAssumption ==
  /\ AddrBits \in Nat /\ PortBits \in Nat
  /\ MapCap \in [{"fs", "exec", "net"} -> Nat]
  /\ Nameservers \subseteq Addrs /\ Localhost \subseteq Addrs
  /\ NULL \notin Inodes \cup {ALLOW, DENY} /\ STAR \notin Inodes

(* struct Config: no field is optional once the file has been read.         *)
ASSUME ConfigAssumption ==
  \A c \in Configs : {"tools", "mode", "default_tool_policy", "unknown_tool_policy",
                      "resolver_error_policy"} \subseteq DOMAIN c

VARIABLES
  config,  \* the configuration the daemon was started with
  disk,    \* the file at each path, NULL when there is none
  seen,    \* disk when the daemon compiled the configuration
  phase,   \* of the daemon
  todo,    \* the entries populate_maps has still to insert
  maps,    \* the three policy maps
  ironscope_config  \* IRONSCOPE_CONFIG[0]

vars == <<config, disk, seen, phase, todo, maps, ironscope_config>>

-----------------------------------------------------------------------------
(* compiler.rs.  A list becomes a set of keys: all its entries have the     *)
(* same permission, so their order is of no account.                        *)
InAnyOrder(S) == CHOOSE s \in [1..Cardinality(S) -> S] : IsInjective(s)

entries(map, id, keys, perm) ==
  InAnyOrder({[map |-> map, key |-> <<id, k>>, perm |-> perm] : k \in keys})

(* A path that does not exist is dropped with a warning.                    *)
resolve_path_inode(files, paths) == {files[p] : p \in paths} \ {NULL}

compile_fs_rules(tool, files) ==
  entries("fs", tool.id, resolve_path_inode(files, tool.fs.allow), ALLOW)
  \o entries("fs", tool.id, resolve_path_inode(files, tool.fs.deny), DENY)

exec_keys(files, paths) ==
  resolve_path_inode(files, paths \ {STAR}) \cup (paths \cap {STAR})

compile_exec_rules(tool, files) ==
  entries("exec", tool.id, exec_keys(files, tool.exec.allow), ALLOW)
  \o entries("exec", tool.id, exec_keys(files, tool.exec.deny), DENY)

(* A rule a.b.c.d/n, host:port or host, as the prefix of address and port   *)
(* that it matches; a host that did not resolve has the address NULL.       *)
parse_net_rule(r) ==
  CASE r.form = "cidr" -> SubSeq(r.addr, 1, r.prefix)
    [] r.form = "port" -> r.addr \o r.port
    [] r.form = "host" -> r.addr

net_keys(rules) == {parse_net_rule(r) : r \in {r \in rules : r.addr # NULL}}

compile_net_rules(tool) ==
  entries("net", tool.id, net_keys(tool.net.allow), ALLOW)
  \o entries("net", tool.id, net_keys(tool.net.deny), DENY)

discover_dns_resolver_ips == IF Nameservers = {} THEN Localhost ELSE Nameservers

(* After all rules, for every tool that has one.                            *)
inject_dns_allows(rules) ==
  LET ids == {rules[i].key[1] : i \in DOMAIN rules}
  IN  InAnyOrder({[map |-> "net", key |-> <<id, ip>>, perm |-> ALLOW] :
                    id \in ids, ip \in discover_dns_resolver_ips})

(* What a loop over the tools collects, tool after tool.                    *)
Collected(lists) ==
  LET upto[i \in 0..Len(lists)] == IF i = 0 THEN <<>> ELSE upto[i - 1] \o lists[i]
  IN  upto[Len(lists)]

(* Faulty variant: the resolvers are let in before the rules for addresses. *)
compile_with_tool_ids_dns_first(c, files) ==
  LET Each(rules(_)) == Collected([i \in DOMAIN c.tools |-> rules(c.tools[i])])
      net == Each(compile_net_rules)
  IN  Each(LAMBDA t : compile_fs_rules(t, files))
      \o Each(LAMBDA t : compile_exec_rules(t, files))
      \o inject_dns_allows(net) \o net

(* The entries in the order in which populate_maps inserts them.            *)
compile_with_tool_ids(c, files) ==
  LET Each(rules(_)) == Collected([i \in DOMAIN c.tools |-> rules(c.tools[i])])
      net == Each(compile_net_rules)
  IN  Each(LAMBDA t : compile_fs_rules(t, files))
      \o Each(LAMBDA t : compile_exec_rules(t, files))
      \o net \o inject_dns_allows(net)

-----------------------------------------------------------------------------
(* lsm_hooks.rs.                                                            *)

(* The three ways in which a hook looks a resource up: exactly, exactly or  *)
(* by the wildcard, and by the longest prefix that was inserted.            *)
lookup(map, key) == IF key \in DOMAIN map THEN map[key] ELSE NULL

fs_permission(id, ino) == lookup(maps.fs, <<id, ino>>)

exec_permission(id, ino) ==
  IF <<id, ino>> \in DOMAIN maps.exec THEN maps.exec[<<id, ino>>]
  ELSE lookup(maps.exec, <<id, STAR>>)

(* The kernel's LPM trie.                                                   *)
net_permission(id, dest) ==
  LET hits == {n \in 0..Len(dest) : <<id, SubSeq(dest, 1, n)>> \in DOMAIN maps.net}
  IN  IF hits = {} THEN NULL ELSE maps.net[<<id, SubSeq(dest, 1, Max(hits))>>]

identity_state(who) ==
  CASE ~who.ctx -> "unattributed"
    [] who.ctx /\ who.error -> "resolver_error"
    [] who.ctx /\ ~who.error /\ who.tool = NULL -> "unknown_tool"
    [] OTHER -> "known_tool"

(* Whether access is denied.  Without a configuration every identity falls  *)
(* through to the rules, and what no rule covers is allowed.                *)
decide_known_tool_permission(perm) ==
  IF perm # NULL THEN perm = DENY
  ELSE ironscope_config # NULL /\ ironscope_config.default_tool_policy = DENY

denied(who, perm) ==
  LET identity == identity_state(who)
  IN  IF ironscope_config = NULL \/ identity = "known_tool"
      THEN decide_known_tool_permission(perm)
      ELSE CASE identity = "unattributed" -> FALSE
             [] identity = "unknown_tool" -> ironscope_config.unknown_tool_policy = DENY
             [] identity = "resolver_error" -> ironscope_config.resolver_error_policy = DENY

enforce_permission(d) ==
  d /\ ironscope_config # NULL /\ ironscope_config.mode = "enforce"

(* The three hooks: who asks, and for the file or the destination.  A hook  *)
(* leaves alone what is neither in a protected process nor in a context; it *)
(* only reads the maps, so it is no action but an answer in every state.    *)
answer(who, perm) ==
  LET d == (who.protected \/ who.ctx) /\ denied(who, perm)
  IN  [action |-> IF d THEN DENY ELSE ALLOW, blocked |-> enforce_permission(d)]

(* A hook returns early, with no decision and no event, where it cannot     *)
(* tell what is asked for: there is no file or its inode cannot be read,    *)
(* there is no address, it cannot be read, or it is of another family than  *)
(* AF_INET.  The argument is NULL then.                                     *)
allowed == [action |-> ALLOW, blocked |-> FALSE]

try_file_open(who, ino) ==
  IF ino = NULL THEN allowed ELSE answer(who, fs_permission(who.tool, ino))
try_bprm_check(who, ino) ==
  IF ino = NULL THEN allowed ELSE answer(who, exec_permission(who.tool, ino))
try_socket_connect(who, dest) ==
  IF dest = NULL THEN allowed ELSE answer(who, net_permission(who.tool, dest))

FileArgs == Inodes \cup {NULL}
ConnectArgs == {a \o p : a \in Addrs, p \in Ports} \cup {NULL}

(* The outcomes of resolve_ctx: no context, or one whose tool is unknown or *)
(* known, with or without the error mark, which a later success leaves.     *)
ToolIdsOf(c) == {c.tools[i].id : i \in DOMAIN c.tools}
Subjects ==
  [ctx : {FALSE}, tool : {NULL}, error : {FALSE}, protected : BOOLEAN]
  \cup [ctx : {TRUE}, tool : ToolIdsOf(config) \cup {NULL}, error : BOOLEAN,
        protected : BOOLEAN]

-----------------------------------------------------------------------------
Init ==
  /\ config \in Configs
  /\ disk \in [Paths -> Inodes \cup {NULL}]
  /\ seen = disk
  /\ phase = "attached"
  /\ todo = <<>>
  /\ maps = [fs |-> <<>>, exec |-> <<>>, net |-> <<>>]
  /\ ironscope_config = NULL

(* The daemon compiles the policy once, after it attached the hooks.        *)
Compile ==
  /\ phase = "attached"
  /\ phase' = "populating"
  /\ seen' = disk
  /\ todo' = compile_with_tool_ids(config, disk)
  /\ UNCHANGED <<config, disk, maps, ironscope_config>>

(* Faulty variant: a map holds one entry more.                              *)
Room_late(e) == e.key \in DOMAIN maps[e.map] \/ Cardinality(DOMAIN maps[e.map]) <= MapCap[e.map]

Room(e) == e.key \in DOMAIN maps[e.map] \/ Cardinality(DOMAIN maps[e.map]) < MapCap[e.map]

(* An insert of populate_maps.                                              *)
PopulateEntry ==
  /\ phase = "populating"
  /\ todo # <<>>
  /\ Room(Head(todo))
  /\ LET e == Head(todo)
     IN  maps' = [maps EXCEPT ![e.map] =
                    [k \in DOMAIN @ \cup {e.key} |-> IF k = e.key THEN e.perm ELSE @[k]]]
  /\ todo' = Tail(todo)
  /\ UNCHANGED <<config, disk, seen, phase, ironscope_config>>

(* An insert fails on a full map: the daemon ends, and with it its programs.*)
PopulateFails ==
  /\ phase = "populating"
  /\ todo # <<>>
  /\ ~Room(Head(todo))
  /\ phase' = "ended"
  /\ UNCHANGED <<config, disk, seen, todo, maps, ironscope_config>>

(* Faulty variant: the configuration does not wait for the rules.           *)
PopulateConfig_early ==
  /\ phase = "populating"
  /\ ironscope_config' = [f \in DOMAIN config \ {"tools"} |-> config[f]]
  /\ phase' = "running"
  /\ UNCHANGED <<config, disk, seen, todo, maps>>

(* The configuration is the last insert of populate_maps.                   *)
PopulateConfig ==
  /\ phase = "populating"
  /\ todo = <<>>
  /\ ironscope_config' = [f \in DOMAIN config \ {"tools"} |-> config[f]]
  /\ phase' = "running"
  /\ UNCHANGED <<config, disk, seen, todo, maps>>

(* A program writes a new file and renames it to a path.                    *)
ReplaceFile ==
  /\ \E p \in Paths, i \in Inodes : disk' = [disk EXCEPT ![p] = i]
  /\ UNCHANGED <<config, seen, phase, todo, maps, ironscope_config>>

Next ==
  \/ Compile \/ PopulateEntry \/ PopulateFails \/ PopulateConfig
  \/ ReplaceFile

Spec == Init /\ [][Next]_vars

-----------------------------------------------------------------------------
Types == [Paths -> Inodes \cup {NULL}]

(* The maps hold permissions, and no more entries than they have room for.  *)
TypeOK ==
  /\ config \in Configs
  /\ disk \in Types /\ seen \in Types
  /\ phase \in {"attached", "populating", "running", "ended"}
  /\ \A f \in DOMAIN maps : /\ Cardinality(DOMAIN maps[f]) <= MapCap[f]
                            /\ \A k \in DOMAIN maps[f] : maps[f][k] \in {ALLOW, DENY}

(* What the lists of a tool say about a resource, with no regard to keys,   *)
(* maps or the order of inserts: the most specific rule decides, and of     *)
(* two equally specific ones the one that denies.                           *)
ByRules(allows, denies, default) ==
  IF denies THEN DENY ELSE IF allows THEN ALLOW ELSE default

Named(paths, ino) == \E p \in paths \ {STAR} : seen[p] = ino

FsIntent(t, ino) ==
  ByRules(Named(t.fs.allow, ino), Named(t.fs.deny, ino), config.default_tool_policy)

ExecIntent(t, ino) ==
  ByRules(Named(t.exec.allow, ino), Named(t.exec.deny, ino),
          ByRules(STAR \in t.exec.allow, STAR \in t.exec.deny, config.default_tool_policy))

(* How many leading bits of a destination a rule fixes; whether it matches. *)
Specificity(r) ==
  CASE r.form = "cidr" -> r.prefix
    [] r.form = "host" -> AddrBits
    [] r.form = "port" -> AddrBits + PortBits
Covers(r, dest) ==
  /\ r.addr # NULL
  /\ \A i \in 1..AddrBits : i <= Specificity(r) => dest[i] = r.addr[i]
  /\ r.form = "port" => \A i \in 1..PortBits : dest[AddrBits + i] = r.port[i]

(* A resolver's address is allowed, as by a rule for the host that comes    *)
(* before every other rule for it, when the tool has a usable rule at all.  *)
NetIntent(t, dest) ==
  LET all == t.net.allow \cup t.net.deny
      hits == {r \in all : Covers(r, dest)}
      best == {r \in hits : \A q \in hits : Specificity(q) <= Specificity(r)}
      dns == /\ \E r \in all : r.addr # NULL
             /\ SubSeq(dest, 1, AddrBits) \in discover_dns_resolver_ips
             /\ \A r \in best : Specificity(r) <= AddrBits
  IN  IF dns THEN ALLOW
      ELSE ByRules(best \cap t.net.allow # {}, best \cap t.net.deny # {},
                   config.default_tool_policy)

(* Every call of a hook, its answer and what the configuration says.        *)
ToolOf(who) == CHOOSE t \in Range(config.tools) : t.id = who.tool
IdentityIntent(who, byrules) ==
  CASE identity_state(who) = "unattributed" -> ALLOW
    [] identity_state(who) = "unknown_tool" -> config.unknown_tool_policy
    [] identity_state(who) = "resolver_error" -> config.resolver_error_policy
    [] OTHER -> byrules

(* Once the policy is in place a hook answers a known tool as the lists of  *)
(* the configuration file say, and any other subject as the field for its   *)
(* identity says, although the answer comes from maps filled in some order  *)
(* with keys that overlap, by a daemon that looked the paths up once        *)
(* (compile_exec_rules, inject_dns_allows, try_bprm_check and the like).    *)
(* The exception is what a hook cannot tell, an IPv6 or Unix address or an  *)
(* unreadable inode: it is allowed, whatever the configuration says.        *)
(* The tools of the file have different ids.                                *)
DecidesAsConfigured ==
  phase = "running" => \A who \in Subjects :
    LET Intended(x, byrules) == IF x = NULL THEN ALLOW ELSE IdentityIntent(who, byrules)
    IN  /\ \A i \in FileArgs :
             /\ try_file_open(who, i).action = Intended(i, FsIntent(ToolOf(who), i))
             /\ try_bprm_check(who, i).action = Intended(i, ExecIntent(ToolOf(who), i))
        /\ \A d \in ConnectArgs :
             try_socket_connect(who, d).action = Intended(d, NetIntent(ToolOf(who), d))

(* The hooks run while the maps are being filled, and nothing is blocked by *)
(* a part of the policy, nor in monitor mode: the configuration, which      *)
(* switches enforcement on, goes in last.                                   *)
NoPartialPolicy ==
  phase # "running" \/ todo # <<>> \/ config.mode = "monitor" =>
    \A who \in Subjects :
      /\ \A i \in FileArgs : ~try_file_open(who, i).blocked /\ ~try_bprm_check(who, i).blocked
      /\ \A d \in ConnectArgs : ~try_socket_connect(who, d).blocked
=============================================================================
