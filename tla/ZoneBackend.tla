---------------------------- MODULE ZoneBackend ----------------------------
(***************************************************************************)
(* The zones of one host: the registry's create, delete, policy update and *)
(* start-up reconciliation (rauhad/src/zone/registry.rs) driving the Linux *)
(* backend (rauhad/src/backend/linux/mod.rs), step by step, over the       *)
(* kernel objects that a zone is made of: a cgroup and its processes, a    *)
(* network namespace and veth pair, nftables chains and the entries of the *)
(* eBPF maps.                                                              *)
(*                                                                         *)
(* Zone create, delete and recovery are serialised by zone_mutation_lock,  *)
(* so one operation `op' is in flight at a time.  A policy update takes    *)
(* only a read guard on the handle table and runs beside it (`rl').  Every *)
(* fallible call may fail, the daemon may be killed between any two steps, *)
(* and a killed daemon leaves its kernel objects behind while everything   *)
(* it kept in memory is lost.                                              *)
(***************************************************************************)
EXTENDS Naturals, FiniteSets, TLC

CONSTANTS Names,        \* zone names
          Policies,     \* policies a client may send: strict (admission), host
                        \* (network.mode) and allows (network.allowed_zones)
          Ips,          \* host offsets the allocator may hand out
          Reloaders,    \* concurrent apply_policy requests
          MaxZones,     \* bound: zones ever created
          MaxCgroups,   \* bound: cgroup directories ever made
          MaxFaults,    \* bound: calls that fail
          MaxCrashes    \* bound: times the daemon is killed

None == [absent |-> TRUE]
NoOp == [kind |-> "none", pc |-> "none"]
Idle == [pc |-> "idle"]

VARIABLES
  daemon,      \* "down", "recovering" (reconcile) or "up" (serving)
  todo,        \* persisted zones reconcile has still to recover
  attached,    \* the LSM programs are attached
  hooks,       \* every LSM hook this daemon wants is attached
  \* redb
  rows,        \* name -> persisted zone [uuid, pol, ip] or None
  \* memory of the daemon
  handles,     \* name -> ZoneHandle [uuid, cg, ip] or None
  ids,         \* zone_id_map: uuid -> kernel zone id
  names,       \* zone_name_map: name -> uuid, 0 when absent
  policies,    \* zone_policies: name -> last admitted policy or None
  degraded,    \* zone_degradations: name -> set of missing controls
  inodesOf,    \* registered_inodes: names with a stored inode list
  taken,       \* addresses the allocator considers in use
  nextZid,     \* next kernel zone id
  op,          \* the zone mutation in flight
  rl,          \* the policy updates in flight
  \* kernel
  cgroup,      \* name -> inode of the zone's cgroup, 0 when absent
  limits,      \* name -> policy whose resources the cgroup carries, or None
  live,        \* names with processes in the zone cgroup
  containers,  \* names whose shim runs and holds a created container
  netns, veth, \* names with a network namespace, a veth pair
  nft,         \* name -> policy whose rules the zone chains carry, or None
  member,      \* ZONE_MEMBERSHIP: cgroup inode -> kernel zone id
  polmap,      \* ZONE_POLICY: kernel zone id -> policy
  comms,       \* ZONE_ALLOWED_COMMS: pairs of kernel zone ids
  owned,       \* INODE_ZONE_MAP: name of a rootfs -> kernel zone id
  \* counters and history
  nextUuid, nextCg, faults, crashes,
  debris,      \* names whose best-effort clean-up, or row write, failed
  unrecovered  \* uuids of zones whose recovery failed at some start

memory == <<handles, ids, names, policies, degraded, inodesOf, taken, nextZid>>
objects == <<cgroup, limits, live, containers, netns, veth, nft>>
maps == <<member, polmap, comms, owned>>
counters == <<nextUuid, nextCg, crashes>>
history == <<debris, unrecovered>>
life == <<daemon, todo, attached, hooks>>
vars == <<life, rows, memory, op, rl, objects, maps, counters, faults, history>>

Without(f, S) == [x \in DOMAIN f \ S |-> f[x]]

\* k of the calls of this step fail.
Failing(k) == faults + k <= MaxFaults /\ faults' = faults + k
Works == UNCHANGED faults

At(kind, pc) == op.kind = kind /\ op.pc = pc
Goto(pc) == op' = [op EXCEPT !.pc = pc]

\* delete_zone keeps handles.write() from the lookup of the handle to its end.
DeleteHolds == op.kind = "delete"
\* apply_policy keeps handles.read() from the backend call to its end.
ReloadHolds == \E r \in Reloaders : rl[r].pc \notin {"idle", "lock"}

Init ==
  /\ daemon = "up" /\ todo = {} /\ attached = TRUE /\ hooks = TRUE
  /\ rows = [n \in Names |-> None]
  /\ handles = [n \in Names |-> None]
  /\ ids = <<>> /\ names = [n \in Names |-> 0]
  /\ policies = [n \in Names |-> None]
  /\ degraded = [n \in Names |-> {}]
  /\ inodesOf = {} /\ taken = {} /\ nextZid = 1
  /\ op = NoOp /\ rl = [r \in Reloaders |-> Idle]
  /\ cgroup = [n \in Names |-> 0]
  /\ limits = [n \in Names |-> None]
  /\ live = {} /\ containers = {} /\ netns = {} /\ veth = {}
  /\ nft = [n \in Names |-> None]
  /\ member = <<>> /\ polmap = <<>> /\ comms = {} /\ owned = <<>>
  /\ nextUuid = 1 /\ nextCg = 1 /\ faults = 0 /\ crashes = 0
  /\ debris = {} /\ unrecovered = {}

-----------------------------------------------------------------------------
(* Helpers of the backend *)

\* admit_linux_policy: a strict policy needs every LSM hook.
Admitted(p) == p.strict => hooks

\* sync_bpf_allowed_comms: the peers a policy names that are known now, the
\* pairs it revokes and the pairs it adds, both directions of each.
PeersOf(p) == {ids[names[m]] : m \in {x \in p.allows : names[x] \in DOMAIN ids}}
BothWays(z, S) == {<<z, y>> : y \in S} \cup {<<y, z>> : y \in S}
Revoked(z, p) ==
  BothWays(z, {ids[u] : u \in DOMAIN ids} \ ({z} \cup PeersOf(p)))

Synced(z, p) == (comms \ Revoked(z, p)) \cup BothWays(z, PeersOf(p))

\* What a sync that fails on the way may leave: it revokes first, then adds.
HalfSynced(z, p) ==
  {comms \ R : R \in SUBSET (Revoked(z, p) \cap comms)} \cup
  {(comms \ Revoked(z, p)) \cup A : A \in SUBSET BothWays(z, PeersOf(p))}

\* The rules apply_zone_rules leaves: a host-mode zone gets none.
RulesFor(p) == IF p.host THEN None ELSE p

\* The calls the backend makes on cgroupfs, the network and the maps.
create_zone_cgroup(n) ==
  /\ cgroup[n] = 0 /\ nextCg <= MaxCgroups
  /\ cgroup' = [cgroup EXCEPT ![n] = nextCg] /\ nextCg' = nextCg + 1
destroy_zone_cgroup(n) ==
  /\ cgroup' = [cgroup EXCEPT ![n] = 0]
  /\ limits' = [limits EXCEPT ![n] = None]
apply_resources(n, p) == limits' = [limits EXCEPT ![n] = p]
drain_zone(n) == live' = live \ {n}
create_netns(n) == netns' = netns \cup {n}
create_veth_pair(n) == n \notin veth /\ veth' = veth \cup {n}
apply_zone_rules(n, p) == nft' = [nft EXCEPT ![n] = RulesFor(p)]
\* It computes the new rules, removes the old ones and installs the new ones
\* in one transaction: a failure leaves the old rules or none.
ApplyZoneRulesFails(n) == nft' \in {nft, [nft EXCEPT ![n] = None]}
set_zone_policy(z, p) == polmap' = (z :> p) @@ polmap
add_zone_member(c, z) == member' = (c :> z) @@ member
insert_inodes(n, z) == owned' = (n :> z) @@ owned
put_zone(n, row) == rows' = [rows EXCEPT ![n] = row]

\* allocate: the lowest free offset.
LowestFree == CHOOSE i \in Ips \ taken : \A j \in Ips \ taken : i <= j

-----------------------------------------------------------------------------
(* create_zone of the registry: the backend's create_zone and enforce_policy,
   then the row, then the handle *)

CreateZone(n, p) ==
  /\ daemon = "up" /\ op = NoOp
  /\ rows[n] = None
  /\ Admitted(p)
  /\ nextUuid <= MaxZones
  /\ op' = [kind |-> "create", pc |-> "cgroup", n |-> n, pol |-> p,
            uuid |-> nextUuid, zid |-> nextZid, cg |-> 0, ip |-> 0]
  /\ ids' = (nextUuid :> nextZid) @@ ids
  /\ names' = [names EXCEPT ![n] = nextUuid]
  /\ nextUuid' = nextUuid + 1 /\ nextZid' = nextZid + 1
  /\ UNCHANGED <<life, rows, handles, policies, degraded, inodesOf, taken, rl,
                 objects, maps, nextCg, crashes, faults, history>>

\* create_zone_cgroup refuses a directory that exists; on an error only the
\* kernel id is taken back.
CreateCgroup ==
  /\ At("create", "cgroup")
  /\ \/ /\ create_zone_cgroup(op.n) /\ Works
        /\ op' = [op EXCEPT !.cg = nextCg,
                            !.pc = IF op.pol.host THEN "policy" ELSE "ip"]
        /\ UNCHANGED ids
     \/ /\ (cgroup[op.n] # 0 /\ Works) \/ Failing(1)
        /\ ids' = Without(ids, {op.uuid})
        /\ op' = NoOp
        /\ UNCHANGED <<cgroup, nextCg>>
  /\ UNCHANGED <<life, rows, handles, names, policies, degraded, inodesOf, taken,
                 nextZid, rl, limits, live, containers, netns, veth, nft, maps,
                 nextUuid, crashes, history>>

\* An address for the zone, or the pool is exhausted.
CreateIp ==
  /\ At("create", "ip") /\ Works
  /\ IF Ips \subseteq taken
     THEN Goto("rollback") /\ UNCHANGED taken
     ELSE /\ taken' = taken \cup {LowestFree}
          /\ op' = [op EXCEPT !.ip = LowestFree, !.pc = "netns"]
  /\ UNCHANGED <<life, rows, handles, ids, names, policies, degraded, inodesOf,
                 nextZid, rl, objects, maps, counters, history>>

\* create_netns is idempotent; its failure is fatal in both admissions.
CreateNetns ==
  /\ At("create", "netns")
  /\ \/ Works /\ create_netns(op.n) /\ Goto("veth")
     \/ Failing(1) /\ Goto("rollback") /\ UNCHANGED netns
  /\ UNCHANGED <<life, rows, memory, rl, cgroup, limits, live, containers, veth,
                 nft, maps, counters, history>>

\* create_veth_pair fails on an interface that is still there; a strict zone
\* is rolled back, an audit zone is marked degraded.
CreateVeth ==
  /\ At("create", "veth")
  /\ \/ create_veth_pair(op.n) /\ Works /\ Goto("policy") /\ UNCHANGED degraded
     \/ /\ (op.n \in veth /\ Works) \/ Failing(1)
        /\ UNCHANGED veth
        /\ IF op.pol.strict
           THEN Goto("rollback") /\ UNCHANGED degraded
           ELSE /\ degraded' = [degraded EXCEPT ![op.n] = @ \cup {"veth"}]
                /\ Goto("policy")
  /\ UNCHANGED <<life, rows, handles, ids, names, policies, inodesOf, taken,
                 nextZid, rl, cgroup, limits, live, containers, netns, nft, maps,
                 counters, history>>

\* set_zone_policy, then add_zone_member: in create_zone and in recover_zone.
InstallPolicy ==
  /\ op.pc = "policy"
  /\ \/ /\ Works /\ set_zone_policy(op.zid, op.pol) /\ Goto("member")
     \/ /\ Failing(1) /\ UNCHANGED polmap
        /\ Goto(IF op.kind = "create" THEN "rollback" ELSE "failed")
  /\ UNCHANGED <<life, rows, memory, rl, objects, member, comms, owned, counters,
                 history>>

InstallMember ==
  /\ op.pc = "member"
  /\ \/ /\ Works /\ add_zone_member(op.cg, op.zid)
        /\ Goto(IF op.kind = "create" THEN "limits" ELSE "inodes")
     \/ /\ Failing(1) /\ UNCHANGED member
        /\ Goto(IF op.kind = "create" THEN "rollback" ELSE "failed")
  /\ UNCHANGED <<life, rows, memory, rl, objects, polmap, comms, owned, counters,
                 history>>

CreateLimits ==
  /\ At("create", "limits")
  /\ \/ Works /\ apply_resources(op.n, op.pol) /\ Goto("enforce")
     \/ Failing(1) /\ UNCHANGED limits /\ Goto("rollback")
  /\ UNCHANGED <<life, rows, memory, rl, cgroup, live, containers, netns, veth, nft,
                 maps, counters, history>>

\* rollback_zone and the map entries removed beside it.  Every call is best
\* effort; those in `kept' fail.  A veth pair also goes with its namespace.
RollbackZone ==
  /\ At("create", "rollback")
  /\ \E kept \in SUBSET {"veth", "netns", "cgroup", "maps"} :
       /\ Failing(Cardinality(kept))
       /\ veth' = IF {"veth", "netns"} \subseteq kept THEN veth ELSE veth \ {op.n}
       /\ netns' = IF "netns" \in kept THEN netns ELSE netns \ {op.n}
       /\ IF "cgroup" \in kept
          THEN UNCHANGED <<cgroup, limits>>
          ELSE destroy_zone_cgroup(op.n)
       /\ IF "maps" \in kept
          THEN UNCHANGED <<member, polmap>>
          ELSE /\ member' = Without(member, {op.cg})
               /\ polmap' = Without(polmap, {op.zid})
       /\ debris' = IF kept = {} THEN debris ELSE debris \cup {op.n}
  /\ taken' = taken \ {op.ip}
  /\ ids' = Without(ids, {op.uuid})
  /\ names' = [names EXCEPT ![op.n] = 0]
  /\ degraded' = [degraded EXCEPT ![op.n] = {}]
  /\ op' = NoOp
  /\ UNCHANGED <<life, rows, handles, policies, inodesOf, nextZid, rl, live,
                 containers, nft, comms, owned, counters, unrecovered>>

\* enforce_policy: the kernel policy and the allowed pairs ...
EnforceMaps ==
  /\ At("create", "enforce")
  /\ \/ /\ Works /\ set_zone_policy(op.zid, op.pol)
        /\ comms' = Synced(op.zid, op.pol)
        /\ Goto("nft")
     \/ /\ Failing(1) /\ Goto("shutdown") /\ UNCHANGED polmap
        /\ comms' \in HalfSynced(op.zid, op.pol)
  /\ UNCHANGED <<life, rows, memory, rl, objects, member, owned, counters, history>>

\* ... apply_nftables_for_zone, in enforce_policy and in recover_zone ...
ApplyNft ==
  /\ op.pc = "nft"
  /\ \/ /\ Works /\ apply_zone_rules(op.n, op.pol)
        /\ degraded' = [degraded EXCEPT ![op.n] = @ \ {"nft"}]
        /\ Goto("admit")
     \/ /\ Failing(1) /\ ApplyZoneRulesFails(op.n)
        /\ IF op.pol.strict
           THEN /\ Goto(IF op.kind = "create" THEN "shutdown" ELSE "failed")
                /\ UNCHANGED degraded
           ELSE /\ degraded' = [degraded EXCEPT ![op.n] = @ \cup {"nft"}]
                /\ Goto("admit")
  /\ UNCHANGED <<life, rows, handles, ids, names, policies, inodesOf, taken, nextZid,
                 rl, cgroup, limits, live, containers, netns, veth, maps, counters,
                 history>>

\* ... the limits once more, and the policy becomes the admitted one.
EnforceAdmit ==
  /\ At("create", "admit")
  /\ \/ /\ Works /\ apply_resources(op.n, op.pol)
        /\ policies' = [policies EXCEPT ![op.n] = op.pol]
        /\ Goto("persist")
     \/ Failing(1) /\ Goto("shutdown") /\ UNCHANGED <<limits, policies>>
  /\ UNCHANGED <<life, rows, handles, ids, names, degraded, inodesOf, taken, nextZid,
                 rl, cgroup, live, containers, netns, veth, nft, maps, counters,
                 history>>

\* put_zone: an error is returned and nothing is undone.
PersistZone ==
  /\ At("create", "persist")
  /\ \/ /\ Works /\ put_zone(op.n, [uuid |-> op.uuid, pol |-> op.pol, ip |-> op.ip])
        /\ Goto("cache") /\ UNCHANGED debris
     \/ /\ Failing(1) /\ op' = NoOp /\ debris' = debris \cup {op.n} /\ UNCHANGED rows
  /\ UNCHANGED <<life, memory, rl, objects, maps, counters, unrecovered>>

CacheHandle ==
  /\ At("create", "cache") /\ ~ReloadHolds /\ Works
  /\ handles' = [handles EXCEPT ![op.n] = [uuid |-> op.uuid, cg |-> op.cg, ip |-> op.ip]]
  /\ op' = NoOp
  /\ UNCHANGED <<life, rows, ids, names, policies, degraded, inodesOf, taken, nextZid,
                 rl, objects, maps, counters, history>>

-----------------------------------------------------------------------------
(* delete_zone of the registry: the backend's destroy_zone, then the rows.
   create_zone runs the same destroy_zone when enforce_policy fails. *)

DeleteZone(n) ==
  /\ daemon = "up" /\ op = NoOp
  /\ rows[n] # None
  /\ ~ReloadHolds
  /\ handles[n] # None
  /\ op' = [kind |-> "delete", pc |-> "shutdown", n |-> n, uuid |-> handles[n].uuid,
            cg |-> handles[n].cg, ip |-> handles[n].ip]
  /\ UNCHANGED <<life, rows, memory, rl, objects, maps, counters, faults, history>>

\* The shim is asked to shut down; a failure is only logged.
DestroyShim ==
  /\ op.pc = "shutdown" /\ Goto("drain")
  /\ \/ /\ Works /\ containers' = containers \ {op.n}
        /\ live' \in {live, live \ {op.n}}
     \/ op.n \in containers /\ Failing(1) /\ UNCHANGED <<containers, live>>
  /\ UNCHANGED <<life, rows, memory, rl, cgroup, limits, netns, veth, nft, maps,
                 counters, history>>

\* A create whose undo stops here leaves its zone behind.
LeftByUndo == debris' = IF op.kind = "create" THEN debris \cup {op.n} ELSE debris

\* Mutant: the membership goes before the workloads do.
DrainAfterForget ==
  /\ op.pc = "drain" /\ Works /\ Goto("rmdir")
  /\ member' = Without(member, {op.cg})
  /\ UNCHANGED <<life, rows, memory, rl, objects, polmap, comms, owned, counters,
                 history>>

\* drain_zone kills what is left in the cgroup or gives up with an error.
DestroyDrain ==
  /\ op.pc = "drain"
  /\ \/ Works /\ drain_zone(op.n) /\ Goto("rmdir") /\ UNCHANGED debris
     \/ Failing(1) /\ op' = NoOp /\ LeftByUndo /\ UNCHANGED live
  /\ UNCHANGED <<life, rows, memory, rl, cgroup, limits, containers, netns, veth, nft,
                 maps, counters, unrecovered>>

\* destroy_zone_cgroup: the directory of a populated cgroup cannot go.
DestroyCgroup ==
  /\ op.pc = "rmdir"
  /\ \/ /\ op.n \notin live /\ Works /\ destroy_zone_cgroup(op.n)
        /\ Goto("forget") /\ UNCHANGED debris
     \/ /\ (op.n \in live /\ Works) \/ Failing(1)
        /\ op' = NoOp /\ LeftByUndo /\ UNCHANGED <<cgroup, limits>>
  /\ UNCHANGED <<life, rows, memory, rl, live, containers, netns, veth, nft, maps,
                 counters, unrecovered>>

\* The rest of destroy_zone: best effort once the cgroup is gone.  The pairs
\* of the dead id stay in ZONE_ALLOWED_COMMS.
DestroyRest ==
  /\ op.pc = "forget"
  /\ \E kept \in SUBSET {"maps", "nft", "veth", "netns"} :
       /\ Failing(Cardinality(kept))
       /\ IF op.uuid \notin DOMAIN ids \/ "maps" \in kept
          THEN UNCHANGED <<member, polmap, owned>>
          ELSE /\ member' = Without(member, {op.cg})
               /\ polmap' = Without(polmap, {ids[op.uuid]})
               /\ owned' = IF op.n \in inodesOf THEN Without(owned, {op.n}) ELSE owned
       /\ nft' = IF "nft" \in kept THEN nft ELSE [nft EXCEPT ![op.n] = None]
       /\ veth' = IF {"veth", "netns"} \subseteq kept THEN veth ELSE veth \ {op.n}
       /\ netns' = IF "netns" \in kept THEN netns ELSE netns \ {op.n}
       /\ debris' = IF kept = {} THEN debris ELSE debris \cup {op.n}
  /\ ids' = Without(ids, {op.uuid})
  /\ inodesOf' = inodesOf \ {op.n}
  /\ taken' = taken \ {op.ip}
  /\ names' = [names EXCEPT ![op.n] = 0]
  /\ policies' = [policies EXCEPT ![op.n] = None]
  /\ degraded' = [degraded EXCEPT ![op.n] = {}]
  /\ containers' = containers \ {op.n}
  /\ IF op.kind = "delete" THEN Goto("rows") ELSE op' = NoOp
  /\ UNCHANGED <<life, rows, handles, nextZid, rl, cgroup, limits, live, comms,
                 counters, unrecovered>>

\* The container rows and the zone row: an error returns before the handle is
\* removed, so the delete can be tried again.
DeleteRows ==
  /\ At("delete", "rows") /\ op' = NoOp
  /\ \/ /\ Works /\ rows' = [rows EXCEPT ![op.n] = None]
        /\ handles' = [handles EXCEPT ![op.n] = None]
        /\ UNCHANGED debris
     \/ Failing(1) /\ debris' = debris \cup {op.n} /\ UNCHANGED <<rows, handles>>
  /\ UNCHANGED <<life, ids, names, policies, degraded, inodesOf, taken, nextZid, rl,
                 objects, maps, counters, unrecovered>>

-----------------------------------------------------------------------------
(* apply_policy: the row is read before the handle table is locked, the
   backend is changed, and the copy of the row is written back *)

ReloadRead(r, n, p) ==
  /\ daemon = "up" /\ rl[r] = Idle
  /\ rows[n] # None
  /\ rl' = [rl EXCEPT ![r] = [pc |-> "lock", n |-> n, pol |-> p, row |-> rows[n]]]
  /\ UNCHANGED <<life, rows, memory, op, objects, maps, counters, faults, history>>

\* handles.read(), then the checks of hot_reload_policy.
ReloadLock(r) ==
  /\ rl[r].pc = "lock" /\ ~DeleteHolds
  /\ LET n == rl[r].n IN
     IF /\ handles[n] # None
        /\ Admitted(rl[r].pol)
        /\ policies[n] # None
        /\ handles[n].uuid \in DOMAIN ids
     THEN rl' = [rl EXCEPT ![r] = [pc |-> "policy", n |-> n, pol |-> rl[r].pol,
                                   row |-> rl[r].row, prev |-> policies[n],
                                   zid |-> ids[handles[n].uuid]]]
     ELSE rl' = [rl EXCEPT ![r] = Idle]
  /\ UNCHANGED <<life, rows, memory, op, objects, maps, counters, faults, history>>

ReloadGoto(r, pc) == rl' = [rl EXCEPT ![r].pc = pc]

ReloadMap(r) ==
  /\ rl[r].pc = "policy"
  /\ \/ /\ Works /\ set_zone_policy(rl[r].zid, rl[r].pol)
        /\ ReloadGoto(r, "comms")
     \/ Failing(1) /\ UNCHANGED polmap /\ ReloadGoto(r, "restore")
  /\ UNCHANGED <<life, rows, memory, op, objects, member, comms, owned, counters,
                 history>>

ReloadComms(r) ==
  /\ rl[r].pc = "comms"
  /\ \/ Works /\ comms' = Synced(rl[r].zid, rl[r].pol) /\ ReloadGoto(r, "nft")
     \/ /\ Failing(1) /\ comms' \in HalfSynced(rl[r].zid, rl[r].pol)
        /\ ReloadGoto(r, "restore")
  /\ UNCHANGED <<life, rows, memory, op, objects, member, polmap, owned, counters,
                 history>>

ReloadNft(r) ==
  /\ rl[r].pc = "nft"
  /\ LET n == rl[r].n IN
     \/ /\ Works /\ apply_zone_rules(n, rl[r].pol)
        /\ degraded' = [degraded EXCEPT ![n] = @ \ {"nft"}]
        /\ ReloadGoto(r, "limits")
     \/ /\ Failing(1) /\ ApplyZoneRulesFails(n)
        /\ IF rl[r].pol.strict
           THEN ReloadGoto(r, "restore") /\ UNCHANGED degraded
           ELSE /\ degraded' = [degraded EXCEPT ![n] = @ \cup {"nft"}]
                /\ ReloadGoto(r, "limits")
  /\ UNCHANGED <<life, rows, handles, ids, names, policies, inodesOf, taken, nextZid,
                 op, cgroup, limits, live, containers, netns, veth, maps, counters,
                 history>>

\* apply_resources writes the files of the cgroup one after another.
ReloadLimits(r) ==
  /\ rl[r].pc = "limits"
  /\ LET n == rl[r].n
         applied == [limits EXCEPT ![n] = rl[r].pol] IN
     \/ Works /\ limits' = applied /\ ReloadGoto(r, "admit")
     \/ Failing(1) /\ limits' \in {limits, applied} /\ ReloadGoto(r, "restore")
  /\ UNCHANGED <<life, rows, memory, op, cgroup, live, containers, netns, veth, nft,
                 maps, counters, history>>

\* Every part of the previous policy is put back; a failure is only logged.
ReloadRestore(r) ==
  /\ rl[r].pc = "restore"
  /\ LET n == rl[r].n
         prev == rl[r].prev IN
     \E lost \in SUBSET {"policy", "comms", "nft", "limits"} :
       /\ Failing(Cardinality(lost))
       /\ polmap' = IF "policy" \in lost THEN polmap ELSE (rl[r].zid :> prev) @@ polmap
       /\ IF "comms" \in lost THEN comms' \in HalfSynced(rl[r].zid, prev)
                              ELSE comms' = Synced(rl[r].zid, prev)
       /\ nft' = [nft EXCEPT ![n] = IF "nft" \in lost THEN None ELSE RulesFor(prev)]
       /\ degraded' = [degraded EXCEPT ![n] =
            IF "nft" \notin lost THEN @ \ {"nft"}
            ELSE IF prev.strict THEN @ ELSE @ \cup {"nft"}]
       /\ limits' = IF "limits" \in lost THEN limits ELSE [limits EXCEPT ![n] = prev]
       /\ debris' = IF lost = {} THEN debris ELSE debris \cup {n}
  /\ rl' = [rl EXCEPT ![r] = Idle]
  /\ UNCHANGED <<life, rows, handles, ids, names, policies, inodesOf, taken, nextZid,
                 op, cgroup, live, containers, netns, veth, member, owned, counters,
                 unrecovered>>

ReloadAdmit(r) ==
  /\ rl[r].pc = "admit" /\ Works
  /\ policies' = [policies EXCEPT ![rl[r].n] = rl[r].pol]
  /\ ReloadGoto(r, "persist")
  /\ UNCHANGED <<life, rows, handles, ids, names, degraded, inodesOf, taken, nextZid,
                 op, objects, maps, counters, history>>

ReloadPersist(r) ==
  /\ rl[r].pc = "persist"
  /\ \/ Works /\ put_zone(rl[r].n, [rl[r].row EXCEPT !.pol = rl[r].pol])
     \/ Failing(1) /\ UNCHANGED rows
  /\ rl' = [rl EXCEPT ![r] = Idle]
  /\ UNCHANGED <<life, memory, op, objects, maps, counters, history>>

-----------------------------------------------------------------------------
(* Containers of a zone: create_container under handles.read(), start_container
   under no lock of the registry *)

CreateContainer(n) ==
  /\ daemon = "up" /\ ~DeleteHolds
  /\ rows[n] # None /\ handles[n] # None /\ policies[n] # None
  /\ handles[n].uuid \in DOMAIN ids
  /\ \/ /\ Works /\ insert_inodes(n, ids[handles[n].uuid])
        /\ inodesOf' = inodesOf \cup {n}
        /\ containers' = containers \cup {n}
        /\ UNCHANGED degraded
     \/ /\ Failing(1)                      \* not every rootfs inode registered
        /\ IF policies[n].strict
           THEN UNCHANGED <<owned, inodesOf, degraded, containers>>
           ELSE /\ degraded' = [degraded EXCEPT ![n] = @ \cup {"inodes"}]
                /\ containers' = containers \cup {n}
                /\ UNCHANGED <<owned, inodesOf>>
  /\ UNCHANGED <<life, rows, handles, ids, names, policies, taken, nextZid, op, rl,
                 cgroup, limits, live, netns, veth, nft, member, polmap, comms,
                 counters, history>>

\* The child enrols in the zone cgroup before it runs the workload.
StartContainer(n) ==
  /\ daemon = "up" /\ names[n] # 0
  /\ n \in containers /\ cgroup[n] # 0
  /\ live' = live \cup {n}
  /\ UNCHANGED <<life, rows, memory, op, rl, cgroup, limits, containers, netns, veth,
                 nft, maps, counters, faults, history>>

WorkloadExits(n) ==
  /\ n \in live /\ live' = live \ {n}
  /\ UNCHANGED <<life, rows, memory, op, rl, cgroup, limits, containers, netns, veth,
                 nft, maps, counters, faults, history>>

-----------------------------------------------------------------------------
(* The daemon is killed and started again; reconcile recovers every persisted
   zone and then removes what belongs to none *)

\* The maps are pinned, the programs and their links are not.
Crash ==
  /\ daemon # "down" /\ crashes < MaxCrashes
  /\ daemon' = "down" /\ todo' = {} /\ attached' = FALSE
  /\ crashes' = crashes + 1
  /\ handles' = [n \in Names |-> None] /\ ids' = <<>>
  /\ names' = [n \in Names |-> 0]
  /\ policies' = [n \in Names |-> None]
  /\ degraded' = [n \in Names |-> {}]
  /\ inodesOf' = {} /\ taken' = {} /\ nextZid' = 1
  /\ op' = NoOp /\ rl' = [r \in Reloaders |-> Idle]
  /\ UNCHANGED <<hooks, rows, objects, maps, nextUuid, nextCg, faults, history>>

\* EbpfManager::load starts from empty maps, ensure_nat from empty tables; a
\* hook the new kernel does not expose is skipped.
Restart ==
  /\ daemon = "down" /\ daemon' = "recovering" /\ attached' = TRUE
  /\ todo' = {n \in Names : rows[n] # None}
  /\ \/ Works /\ hooks' = TRUE
     \/ Failing(1) /\ hooks' = FALSE
  /\ member' = <<>> /\ polmap' = <<>> /\ comms' = {} /\ owned' = <<>>
  /\ nft' = [n \in Names |-> None]
  /\ UNCHANGED <<rows, memory, op, rl, cgroup, limits, live, containers, netns, veth,
                 counters, history>>

\* recover_zone: a policy that is no longer admitted leaves the zone alone.
RecoverZone(n) ==
  /\ daemon = "recovering" /\ op = NoOp /\ n \in todo
  /\ todo' = todo \ {n}
  /\ IF Admitted(rows[n].pol)
     THEN /\ op' = [kind |-> "recover", pc |-> "cgroup", n |-> n, pol |-> rows[n].pol,
                    uuid |-> rows[n].uuid, zid |-> nextZid, cg |-> 0, ip |-> rows[n].ip]
          /\ ids' = (rows[n].uuid :> nextZid) @@ ids
          /\ names' = [names EXCEPT ![n] = rows[n].uuid]
          /\ nextZid' = nextZid + 1
          /\ UNCHANGED unrecovered
     ELSE /\ unrecovered' = unrecovered \cup {rows[n].uuid}
          /\ UNCHANGED <<op, ids, names, nextZid>>
  /\ UNCHANGED <<daemon, attached, hooks, rows, handles, policies, degraded, inodesOf, taken, rl,
                 objects, maps, counters, faults, debris>>

\* The cgroup is found or made, its limits written, the address marked.
RecoverCgroup ==
  /\ At("recover", "cgroup")
  /\ LET n == op.n
         found == IF cgroup[n] = 0 THEN nextCg ELSE cgroup[n] IN
     \/ /\ cgroup[n] # 0 \/ nextCg <= MaxCgroups
        /\ cgroup' = [cgroup EXCEPT ![n] = found]
        /\ nextCg' = IF cgroup[n] = 0 THEN nextCg + 1 ELSE nextCg
        /\ \/ /\ Works /\ apply_resources(n, op.pol)
              /\ taken' = taken \cup ({op.ip} \ {0})
              /\ op' = [op EXCEPT !.cg = found,
                                  !.pc = IF op.pol.host THEN "policy" ELSE "netns"]
           \/ /\ Failing(1) /\ op' = [op EXCEPT !.cg = found, !.pc = "failed", !.ip = 0]
              /\ UNCHANGED <<limits, taken>>
     \/ /\ cgroup[n] = 0 /\ Failing(1) /\ op' = [op EXCEPT !.pc = "failed", !.ip = 0]
        /\ UNCHANGED <<cgroup, nextCg, limits, taken>>
  /\ UNCHANGED <<life, rows, handles, ids, names, policies, degraded, inodesOf,
                 nextZid, rl, live, containers, netns, veth, nft, maps, nextUuid, crashes,
                 history>>

\* A missing namespace, then a missing veth pair, is made again.
RecoverNetns ==
  /\ At("recover", "netns")
  /\ \/ /\ Works /\ create_netns(op.n) /\ Goto("veth") /\ UNCHANGED degraded
     \/ /\ op.n \notin netns /\ Failing(1) /\ UNCHANGED netns
        /\ IF op.pol.strict THEN Goto("failed") /\ UNCHANGED degraded
           ELSE /\ degraded' = [degraded EXCEPT ![op.n] = @ \cup {"netns"}]
                /\ Goto("policy")
  /\ UNCHANGED <<life, rows, handles, ids, names, policies, inodesOf, taken, nextZid,
                 rl, cgroup, limits, live, containers, veth, nft, maps, counters, history>>

RecoverVeth ==
  /\ At("recover", "veth")
  /\ \/ /\ Works /\ veth' = veth \cup {op.n} /\ Goto("policy") /\ UNCHANGED degraded
     \/ /\ op.n \notin veth /\ Failing(1) /\ UNCHANGED veth
        /\ IF op.pol.strict THEN Goto("failed") /\ UNCHANGED degraded
           ELSE /\ degraded' = [degraded EXCEPT ![op.n] = @ \cup {"veth"}]
                /\ Goto("policy")
  /\ UNCHANGED <<life, rows, handles, ids, names, policies, inodesOf, taken, nextZid,
                 rl, cgroup, limits, live, containers, netns, nft, maps, counters, history>>

\* restore_rootfs_inodes, then sync_bpf_allowed_comms.
RecoverMaps ==
  /\ At("recover", "inodes")
  /\ \/ /\ Works /\ Goto("nft")
        /\ owned' = IF op.n \in containers THEN (op.n :> op.zid) @@ owned ELSE owned
        /\ inodesOf' = inodesOf \cup {op.n}
        /\ comms' = Synced(op.zid, op.pol) /\ UNCHANGED degraded
     \/ /\ Failing(1) /\ inodesOf' = inodesOf \cup {op.n} /\ UNCHANGED owned
        /\ IF op.pol.strict
           THEN Goto("failed") /\ UNCHANGED <<comms, degraded>>
           ELSE /\ degraded' = [degraded EXCEPT ![op.n] = @ \cup {"inodes"}]
                /\ comms' = Synced(op.zid, op.pol) /\ Goto("nft")
     \/ /\ Failing(1) /\ Goto("failed")
        /\ owned' = IF op.n \in containers THEN (op.n :> op.zid) @@ owned ELSE owned
        /\ inodesOf' = inodesOf \cup {op.n}
        /\ comms' \in HalfSynced(op.zid, op.pol) /\ UNCHANGED degraded
  /\ UNCHANGED <<life, rows, handles, ids, names, policies, taken, nextZid, rl, objects,
                 member, polmap, counters, history>>

\* The policy is the admitted one and reconcile keeps the handle.
RecoverDone ==
  /\ At("recover", "admit") /\ op' = NoOp /\ Works
  /\ policies' = [policies EXCEPT ![op.n] = op.pol]
  /\ handles' = [handles EXCEPT ![op.n] = [uuid |-> op.uuid, cg |-> op.cg,
                                            ip |-> rows[op.n].ip]]
  /\ UNCHANGED <<life, rows, ids, names, degraded, inodesOf, taken, nextZid, rl, objects,
                 maps, counters, history>>

\* A zone that cannot be recovered: live workloads are drained when the
\* membership is already in place, and when that fails everything is kept.
RecoverFailed ==
  /\ At("recover", "failed") /\ op' = NoOp
  /\ unrecovered' = unrecovered \cup {op.uuid}
  /\ LET mustDrain == op.cg \in DOMAIN member /\ op.n \in live IN
     \/ /\ Works
        /\ live' = IF mustDrain THEN live \ {op.n} ELSE live
        /\ member' = Without(member, {op.cg})
        /\ owned' = IF op.n \in inodesOf THEN Without(owned, {op.n}) ELSE owned
        /\ inodesOf' = inodesOf \ {op.n}
        /\ comms' = comms \ Revoked(op.zid, [op.pol EXCEPT !.allows = {}])
        /\ polmap' = Without(polmap, {op.zid})
        /\ nft' = [nft EXCEPT ![op.n] = None]
        /\ taken' = taken \ {op.ip}
        /\ ids' = Without(ids, {op.uuid})
        /\ names' = [names EXCEPT ![op.n] = 0]
        /\ degraded' = [degraded EXCEPT ![op.n] = {}]
     \/ /\ mustDrain /\ Failing(1)
        /\ UNCHANGED <<live, member, owned, inodesOf, comms, polmap, nft, taken, ids,
                       names, degraded>>
  /\ UNCHANGED <<life, rows, handles, policies, nextZid, rl, cgroup, limits, containers,
                 netns, veth, counters, debris>>

\* cleanup_orphans: cgroups and namespaces of names no row knows, unless
\* something still runs in them.
CleanupOrphans ==
  /\ daemon = "recovering" /\ op = NoOp /\ todo = {}
  /\ LET orphans == {n \in Names : rows[n] = None} \ live IN
     \E kept \in SUBSET orphans :
       LET gone == orphans \ kept IN
       /\ Failing(Cardinality(kept))
       /\ cgroup' = [n \in Names |-> IF n \in gone THEN 0 ELSE cgroup[n]]
       /\ limits' = [n \in Names |-> IF n \in gone THEN None ELSE limits[n]]
       /\ member' = Without(member, {cgroup[n] : n \in gone})
       /\ netns' = netns \ gone
       /\ veth' = veth \ gone
       /\ debris' = kept \cup {n \in debris : rows[n] # None}
  /\ daemon' = "up"
  /\ UNCHANGED <<todo, attached, hooks, rows, memory, op, rl, live, containers, nft, polmap, comms,
                 owned, counters, unrecovered>>

-----------------------------------------------------------------------------
ZoneStep ==
  \/ \E n \in Names, p \in Policies : CreateZone(n, p)
  \/ CreateCgroup \/ CreateIp \/ CreateNetns \/ CreateVeth
  \/ InstallPolicy \/ InstallMember \/ CreateLimits \/ RollbackZone
  \/ EnforceMaps \/ ApplyNft \/ EnforceAdmit \/ PersistZone \/ CacheHandle
  \/ \E n \in Names : DeleteZone(n)
  \/ DestroyShim \/ DestroyDrain \/ DestroyCgroup \/ DestroyRest \/ DeleteRows

ReloadStep(r) ==
  \/ \E n \in Names, p \in Policies : ReloadRead(r, n, p)
  \/ ReloadLock(r) \/ ReloadMap(r) \/ ReloadComms(r) \/ ReloadNft(r)
  \/ ReloadLimits(r) \/ ReloadRestore(r) \/ ReloadAdmit(r) \/ ReloadPersist(r)

RecoverStep ==
  \/ Restart
  \/ \E n \in Names : RecoverZone(n)
  \/ RecoverCgroup \/ RecoverNetns \/ RecoverVeth \/ RecoverMaps
  \/ RecoverDone \/ RecoverFailed \/ CleanupOrphans

ContainerStep ==
  \E n \in Names : CreateContainer(n) \/ StartContainer(n) \/ WorkloadExits(n)

Next == \/ ZoneStep
        \/ \E r \in Reloaders : ReloadStep(r)
        \/ RecoverStep \/ ContainerStep \/ Crash

Spec == Init /\ [][Next]_vars

-----------------------------------------------------------------------------
(* Properties *)

TypeOK ==
  /\ daemon \in {"down", "recovering", "up"} /\ {attached, hooks} \subseteq BOOLEAN
  /\ {todo, live, containers, netns, veth, inodesOf, debris} \subseteq SUBSET Names
  /\ \A n \in Names : /\ policies[n] \in Policies \cup {None}
                      /\ nft[n] \in Policies \cup {None}
                      /\ limits[n] \in Policies \cup {None}
                      /\ names[n] \in 0..MaxZones /\ cgroup[n] \in 0..MaxCgroups
  /\ taken \subseteq Ips /\ DOMAIN ids \subseteq 1..MaxZones
  /\ \A z \in DOMAIN polmap : polmap[z] \in Policies
  /\ faults \in 0..MaxFaults /\ crashes \in 0..MaxCrashes

\* No operation on zones is under way.
Quiet == daemon = "up" /\ op = NoOp /\ ~ReloadHolds

\* The hooks resolve the processes of the zone to an id that has a policy.
Enforced(n) == /\ attached
               /\ cgroup[n] \in DOMAIN member
               /\ member[cgroup[n]] \in DOMAIN polmap

\* While the registry holds a handle for a zone, in the middle of a delete
\* too, no process of the zone runs outside its membership and policy:
\* destroy_zone drains and removes the cgroup before it removes either, and
\* recover_zone hands out no handle before both are in place.
HandledZonesEnforced ==
  \A n \in live : handles[n] # None => Enforced(n)

\* A workload of a zone whose recovery failed is outside the boundary only if
\* recovery stopped before the membership was written: past that point
\* recover_zone drains it or keeps the membership.
LostOnlyBeforeMembership ==
  \A n \in live :
    (daemon = "up" /\ ~Enforced(n)) =>
      rows[n] # None /\ rows[n].uuid \in unrecovered /\ rows[n].uuid \notin DOMAIN ids

\* A name with no row has no kernel object and no state in the daemon, except
\* the entry a failed cgroup creation leaves in the name map: every failed
\* create is undone, and what a killed daemon left is removed at the next
\* start.  Excepted are names where a clean-up call itself failed.
NothingLeftBehind ==
  \A n \in Names \ (debris \cup live) :
    (Quiet /\ rows[n] = None) =>
      /\ cgroup[n] = 0 /\ n \notin netns \cup veth
      /\ nft[n] = None /\ n \notin DOMAIN owned
      /\ handles[n] = None /\ policies[n] = None
      /\ names[n] \notin DOMAIN ids

\* The allocator's set is exactly the addresses of the zones: none is leaked
\* by a failed create, none is given to two zones, as long as no recovery and
\* no clean-up has failed.
AddressLedger ==
  (Quiet /\ debris = {} /\ unrecovered = {}) =>
    /\ taken = {handles[n].ip : n \in {m \in Names : handles[m] # None
                                                     /\ names[m] # 0}} \ {0}
    /\ \A m, n \in Names :
         (m # n /\ handles[m] # None /\ handles[n] # None /\ handles[m].ip # 0)
           => handles[m].ip # handles[n].ip

\* The kernel enforces the policy the daemon last admitted, in every part: a
\* rejected or half-applied update is taken back.
PolicyAgreement ==
  \A n \in Names \ debris :
    (Quiet /\ handles[n] # None /\ policies[n] # None) =>
      /\ polmap[ids[handles[n].uuid]] = policies[n]
      /\ limits[n] = policies[n]
      /\ "nft" \notin degraded[n] => nft[n] = RulesFor(policies[n])

\* Two zones may talk only if the admitted policy of one of them names the
\* other, however creates, deletes, updates and restarts were interleaved.
CommsJustified ==
  \A m, n \in Names :
    ( /\ Quiet /\ debris = {} /\ m # n
      /\ names[m] \in DOMAIN ids /\ names[n] \in DOMAIN ids
      /\ policies[m] # None /\ policies[n] # None
      /\ <<ids[names[m]], ids[names[n]]>> \in comms )
    => n \in policies[m].allows \/ m \in policies[n].allows

\* A zone with no degradation on record has every control its policy asks for.
NoSilentDegradation ==
  \A n \in Names \ debris :
    (Quiet /\ handles[n] # None /\ policies[n] # None /\ degraded[n] = {}) =>
      /\ ~policies[n].host => n \in netns /\ n \in veth /\ nft[n] = policies[n]
      /\ n \in containers =>
           n \in DOMAIN owned /\ owned[n] = ids[handles[n].uuid]

\* Row and handle are of the same zone, and a persisted zone can be deleted
\* unless its recovery failed: a delete that could not remove the row keeps
\* the handle it needs to be tried again.
RowMatchesHandle ==
  Quiet =>
    \A n \in Names :
      /\ handles[n] # None =>
           /\ rows[n] # None
           /\ rows[n].uuid = handles[n].uuid /\ rows[n].ip = handles[n].ip
      /\ rows[n] # None => handles[n] # None \/ rows[n].uuid \in unrecovered
=============================================================================
