------------------------------ MODULE LsmHooks ------------------------------
(***************************************************************************)
(* The seven BPF-LSM programs of rauha-ebpf, running on the CPUs while the *)
(* daemon writes the maps they read.  A hook is not atomic: it looks up    *)
(* the caller's cgroup in ZONE_MEMBERSHIP, then its policy or the object's *)
(* zone, then the pair in ZONE_ALLOWED_COMMS, and the daemon may create,   *)
(* destroy or recover a zone between any two of these look-ups.            *)
(*                                                                         *)
(* The daemon is its map writes in the order of LinuxBackend::create_zone, *)
(* destroy_zone and recover_zone; the registry's zone_mutation_lock lets   *)
(* one zone be in transit at a time.  A zone's cgroup is named by the zone *)
(* and every cgroup id is fresh, so a zone name stands for its cgroup.     *)
(***************************************************************************)
EXTENDS Integers, FiniteSets, Sequences

CONSTANTS Zones,      \* zone cgroups
          PolicyOf,   \* zone -> [caps, ptrace, peers, global]
          Inodes,     \* inodes of rootfs files
          Rootfs,     \* zone -> inodes of its containers' rootfs
          Hooks,      \* the LSM programs that are attached
          Cpus,
          Caps,       \* capability numbers asked about
          RingSize,   \* events ENFORCEMENT_EVENTS holds
          MaxId,      \* bound: zone ids handed out
          MaxCalls,   \* bound: hook invocations
          MaxRestarts \* bound: daemon restarts

Host == "host"                \* a cgroup that belongs to no zone
Null == "null"                \* a NULL pointer argument
Fault == "fault"              \* bpf_probe_read_kernel fails on the way
None == [absent |-> TRUE]
Idle == [at |-> "idle"]
Cgroups == Zones \cup {Host}

VARIABLES
  member, policy, inode, comms,  \* the four maps the hooks read
  zone,    \* zone -> [at, id]: how far the daemon's operation on it got
  nextId,  \* next compact zone id
  live,    \* zones with processes
  daemon,  \* "up", or "down" between a stop and the next load
  cpu,     \* cpu -> the hook running on it
  count,   \* ENFORCEMENT_COUNTERS, summed over CPUs
  ring,    \* ENFORCEMENT_EVENTS
  lost,    \* hook -> events dropped because the ring was full (history)
  read,    \* hook -> events the reader took (history)
  last,    \* the call that returned last (history)
  calls, restarts

bpf == <<member, policy, inode, comms>>
lsm == <<cpu, count, ring, lost, read, last, calls>>
vars == <<bpf, zone, nextId, live, daemon, lsm, restarts>>

Lookup(m, k) == IF k \in DOMAIN m THEN m[k] ELSE None
Put(m, k, v) == [x \in DOMAIN m \cup {k} |-> IF x = k THEN v ELSE m[x]]
Del(m, S) == [x \in DOMAIN m \ S |-> m[x]]

Init ==
  /\ member = <<>> /\ policy = <<>> /\ inode = <<>> /\ comms = {}
  /\ zone = [z \in Zones |-> [at |-> "absent", id |-> 0]]
  /\ nextId = 1 /\ live = {} /\ daemon = "up"
  /\ cpu = [c \in Cpus |-> Idle]
  /\ count = [h \in Hooks |-> [allow |-> 0, deny |-> 0, error |-> 0]]
  /\ ring = <<>> /\ lost = [h \in Hooks |-> 0] /\ read = [h \in Hooks |-> 0]
  /\ last = None /\ calls = 0 /\ restarts = 0

-----------------------------------------------------------------------------
(* The daemon's writes *)

Settled == {"absent", "up", "lost"}
MayStart(z) == daemon = "up" /\ \A y \in Zones : zone[y].at \in Settled
Step(z, from, to) == zone[z].at = from /\ zone' = [zone EXCEPT ![z].at = to]

add_zone_member(z) ==
  member' = Put(member, z, [id |-> zone[z].id, global |-> PolicyOf[z].global])

enforcement_to_kernel(z) == [caps |-> PolicyOf[z].caps, ptrace |-> PolicyOf[z].ptrace]

\* A zone gets its id and its ZONE_POLICY entry, on creation and on recovery.
SetPolicy(z) ==
  /\ MayStart(z) /\ zone[z].at \in {"absent", "lost"} /\ nextId <= MaxId
  /\ zone' = [zone EXCEPT ![z] = [at |-> "policy", id |-> nextId]]
  /\ nextId' = nextId + 1
  /\ policy' = Put(policy, nextId, enforcement_to_kernel(z))
  /\ UNCHANGED <<member, inode, comms, live, daemon, lsm, restarts>>

AddMember(z) ==
  /\ Step(z, "policy", "member") /\ add_zone_member(z)
  /\ UNCHANGED <<policy, inode, comms, nextId, live, daemon, lsm, restarts>>

\* restore_rootfs_inodes on recovery; a new zone has no rootfs yet.
\* sync_bpf_allowed_comms follows, on both paths.
SyncComms(z) ==
  LET peers == {zone[y].id : y \in {x \in PolicyOf[z].peers : zone[x].at = "up"}}
  IN /\ Step(z, "member", "up")
     /\ comms' = comms \cup {<<zone[z].id, p>> : p \in peers}
                       \cup {<<p, zone[z].id>> : p \in peers}
     /\ inode' = IF z \in live
                   THEN [i \in DOMAIN inode \cup Rootfs[z] |->
                           IF i \in Rootfs[z] THEN zone[z].id ELSE inode[i]]
                   ELSE inode
     /\ UNCHANGED <<member, policy, nextId, live, daemon, lsm, restarts>>

\* create_container registers the rootfs, then the workload starts.
RunContainer(z) ==
  /\ daemon = "up" /\ zone[z].at = "up" /\ z \notin live
  /\ live' = live \cup {z}
  /\ inode' = [i \in DOMAIN inode \cup Rootfs[z] |->
                 IF i \in Rootfs[z] THEN zone[z].id ELSE inode[i]]
  /\ UNCHANGED <<member, policy, comms, zone, nextId, daemon, lsm, restarts>>

\* destroy_zone drains and removes the cgroup before it touches a map.
Running(z) == {c \in Cpus : cpu[c].at # "idle" /\ cpu[c].cg = z}

\* Mutant: the maps are cleaned while the zone's processes still run.
NoDrain(z) ==
  /\ MayStart(z) /\ Step(z, "up", "drained")
  /\ UNCHANGED <<bpf, nextId, live, daemon, lsm, restarts>>

Drain(z) ==
  /\ MayStart(z) /\ Step(z, "up", "drained")
  /\ Running(z) = {} /\ live' = live \ {z}
  /\ UNCHANGED <<bpf, nextId, daemon, lsm, restarts>>

RemoveInodes(z) ==
  /\ Step(z, "drained", "unowned")
  /\ inode' = Del(inode, Rootfs[z])
  /\ UNCHANGED <<member, policy, comms, nextId, live, daemon, lsm, restarts>>

RemoveMember(z) ==
  /\ Step(z, "unowned", "unmembered") /\ member' = Del(member, {z})
  /\ UNCHANGED <<policy, inode, comms, nextId, live, daemon, lsm, restarts>>

RemovePolicy(z) ==
  /\ Step(z, "unmembered", "absent") /\ policy' = Del(policy, {zone[z].id})
  /\ UNCHANGED <<member, inode, comms, nextId, live, daemon, lsm, restarts>>

\* The daemon stops: the links go with it, the zones' processes stay.  The
\* next load clears the pinned maps and attaches programs over empty ones.
Stop ==
  /\ daemon = "up" /\ restarts < MaxRestarts /\ restarts' = restarts + 1
  /\ \A c \in Cpus : cpu[c] = Idle
  /\ daemon' = "down"
  /\ zone' = [z \in Zones |-> IF zone[z].at = "up" \/ z \in live
                                THEN [at |-> "lost", id |-> 0]
                                ELSE [at |-> "absent", id |-> 0]]
  /\ member' = <<>> /\ policy' = <<>> /\ inode' = <<>> /\ comms' = {}
  /\ UNCHANGED <<nextId, live, lsm>>

Load ==
  /\ daemon = "down" /\ daemon' = "up"
  /\ UNCHANGED <<bpf, zone, nextId, live, lsm, restarts>>

-----------------------------------------------------------------------------
(* The look-ups *)

\* The zone whose id the maps give to a cgroup, an inode.
lookup_caller_zone(cg) == Lookup(member, cg)
lookup_task_zone(t) == IF t = Fault THEN None ELSE Lookup(member, t)
is_cross_zone_allowed(src, dst) == src = dst \/ <<src, dst>> \in comms

Answer(out) == [out |-> out, pair |-> 0]
AskPair(id) == [out |-> "pair", pair |-> id]

\* read_file_ino's inode against INODE_ZONE_MAP, for file_open and for exec.
OwnerOf(src, i) ==
  CASE i = Fault -> Answer("error")
    [] i \notin DOMAIN inode -> Answer("allow")
    [] inode[i] = src -> Answer("allow")
    [] OTHER -> AskPair(inode[i])

try_file_open(src, i) == IF i = Null THEN Answer("error") ELSE OwnerOf(src, i)
try_bprm_check(src, i) == IF i = Null THEN Answer("allow") ELSE OwnerOf(src, i)

check_cross_zone_task_access(src, t) ==
  CASE t = Null -> Answer("allow")
    [] lookup_task_zone(t) = None -> Answer("deny")
    [] OTHER -> AskPair(lookup_task_zone(t).id)

try_cgroup_attach(src, dst) ==
  CASE dst = Null -> Answer("allow")
    [] dst = Fault -> Answer("error")
    [] Lookup(member, dst) = None -> Answer("deny")
    [] Lookup(member, dst).id = src -> Answer("allow")
    [] OTHER -> Answer("deny")

try_capable(src, cap) ==
  CASE cap < 0 \/ cap > 63 -> Answer("deny")
    [] Lookup(policy, src) = None -> Answer("nopolicy")
    [] cap \in policy[src].caps -> Answer("allow")
    [] OTHER -> Answer("deny")

PtraceAllowed(src) == Lookup(policy, src) # None /\ policy[src].ptrace

Objects(h) ==
  CASE h \in {"file_open", "bprm_check"} -> Inodes \cup {Null, Fault}
    [] h = "capable" -> Caps
    [] h = "socket_connect" -> {Null}
    [] OTHER -> Cgroups \cup {Null, Fault}

\* The hook's second look-up.
Consult(h, src, o) ==
  CASE h = "file_open" -> try_file_open(src, o)
    [] h = "bprm_check" -> try_bprm_check(src, o)
    [] h = "cgroup_attach" -> try_cgroup_attach(src, o)
    [] h = "capable" -> try_capable(src, o)
    [] h = "socket_connect" -> Answer("allow")
    [] OTHER -> check_cross_zone_task_access(src, o)

-----------------------------------------------------------------------------
(* A hook runs *)

\* The return value: an error denies, except in the audit-only program.
Ret(h, out) == IF out = "allow" \/ (out = "error" /\ h = "socket_connect") THEN 0 ELSE -1

count_decision(h, out) ==
  LET k == IF out = "error" THEN "error" ELSE IF Ret(h, out) = 0 THEN "allow" ELSE "deny"
  IN count' = [count EXCEPT ![h][k] = @ + 1]

\* emit_deny_event and emit_error_event: a full ring drops the event.
Emit(h, src, decision) ==
  IF Len(ring) < RingSize
    THEN ring' = Append(ring, [hook |-> h, src |-> src, decision |-> decision])
         /\ UNCHANGED lost
    ELSE lost' = [lost EXCEPT ![h] = @ + 1] /\ UNCHANGED ring

\* The hook returns.  socket_connect reports each connection of a zoned
\* process through emit_deny_event and lets it through.
Return(c, call, out) ==
  /\ count_decision(call.hook, out)
  /\ CASE out = "error" -> Emit(call.hook, 0, "error")
       [] out \in {"deny", "nopolicy"} \/ (call.hook = "socket_connect" /\ call.src # 0)
            -> Emit(call.hook, call.src, "deny")
       [] OTHER -> UNCHANGED <<ring, lost>>
  /\ last' = [hook |-> call.hook, cg |-> call.cg, src |-> call.src, own |-> call.own,
              obj |-> call.obj, out |-> out, ret |-> Ret(call.hook, out)]
  /\ cpu' = [cpu EXCEPT ![c] = Idle]

Unhooked == <<bpf, zone, nextId, live, daemon, restarts>>

\* First look-up: the caller.  Unzoned and global callers pass at once.
Enter(c, h, cg, o) ==
  LET m == lookup_caller_zone(cg)
      own == IF cg \in Zones /\ zone[cg].at \notin {"absent", "policy", "lost"}
               THEN zone[cg].id ELSE 0
      call == [hook |-> h, cg |-> cg, obj |-> o, own |-> own, pair |-> 0,
               src |-> IF m = None THEN 0 ELSE m.id,
               at |-> IF h = "ptrace_check" THEN "policy" ELSE "object"]
  IN /\ daemon = "up" /\ cpu[c] = Idle /\ calls < MaxCalls /\ calls' = calls + 1
     /\ cg \in live \cup {Host} /\ o \in Objects(h)
     /\ IF m = None \/ (m # None /\ m.global)
          THEN Return(c, [call EXCEPT !.src = 0], "allow")
          ELSE cpu' = [cpu EXCEPT ![c] = call] /\ UNCHANGED <<count, ring, lost, last>>
     /\ UNCHANGED <<Unhooked, read>>

\* ptrace_access_check reads the policy flag before the target.
ReadPolicy(c) ==
  /\ cpu[c].at = "policy"
  /\ IF PtraceAllowed(cpu[c].src)
       THEN Return(c, cpu[c], "allow")
       ELSE cpu' = [cpu EXCEPT ![c].at = "object"] /\ UNCHANGED <<count, ring, lost, last>>
  /\ UNCHANGED <<Unhooked, read, calls>>

ReadObject(c) ==
  LET a == Consult(cpu[c].hook, cpu[c].src, cpu[c].obj)
  IN /\ cpu[c].at = "object"
     /\ IF a.out = "pair"
          THEN cpu' = [cpu EXCEPT ![c].at = "pair", ![c].pair = a.pair]
               /\ UNCHANGED <<count, ring, lost, last>>
          ELSE Return(c, cpu[c], a.out)
     /\ UNCHANGED <<Unhooked, read, calls>>

ReadPair(c) ==
  /\ cpu[c].at = "pair"
  /\ Return(c, cpu[c], IF is_cross_zone_allowed(cpu[c].src, cpu[c].pair) THEN "allow" ELSE "deny")
  /\ UNCHANGED <<Unhooked, read, calls>>

\* drain_events takes everything the ring holds.
DrainEvents ==
  /\ ring # <<>> /\ ring' = <<>>
  /\ read' = [h \in Hooks |-> read[h] + Cardinality({i \in DOMAIN ring : ring[i].hook = h})]
  /\ UNCHANGED <<Unhooked, cpu, count, lost, last, calls>>

Next ==
  \/ \E z \in Zones : \/ SetPolicy(z) \/ AddMember(z) \/ SyncComms(z) \/ RunContainer(z)
                      \/ Drain(z) \/ RemoveInodes(z) \/ RemoveMember(z) \/ RemovePolicy(z)
  \/ Stop \/ Load
  \/ \E c \in Cpus, h \in Hooks, cg \in Cgroups : \E o \in Objects(h) : Enter(c, h, cg, o)
  \/ \E c \in Cpus : ReadPolicy(c) \/ ReadObject(c) \/ ReadPair(c)
  \/ DrainEvents

Spec == Init /\ [][Next]_vars

-----------------------------------------------------------------------------
(* Properties *)

\* The maps, the calls and the counters keep their types.
TypeOK ==
  /\ DOMAIN member \subseteq Zones
  /\ \A z \in DOMAIN member : member[z].id \in 1..MaxId /\ member[z].global \in BOOLEAN
  /\ DOMAIN policy \subseteq 1..MaxId
  /\ DOMAIN inode \subseteq Inodes /\ \A i \in DOMAIN inode : inode[i] \in 1..MaxId
  /\ comms \subseteq (1..MaxId) \X (1..MaxId)
  /\ live \subseteq Zones /\ Len(ring) <= RingSize
  /\ \A h \in Hooks : count[h] \in [allow : 0..MaxCalls, deny : 0..MaxCalls, error : 0..MaxCalls]

\* No capability check finds its caller's zone without a policy, at whatever
\* look-up a creation, a teardown or a recovery of the zone overtakes it:
\* "once a process resolves to a zone via ZONE_MEMBERSHIP, its ZONE_POLICY
\* must already exist".
ResolvesWithPolicy == last # None => last.out # "nopolicy"

\* From the moment its zone is a member until the zone is gone, a live process
\* is judged as that zone's and never as a host process: "a failed teardown
\* must leave live workloads enforced", and no window of create, destroy or
\* recovery opens after add_zone_member.
JudgedAsItsZone ==
  last # None =>
    (last.own # 0 /\ ~PolicyOf[last.cg].global => last.src = last.own)

\* A workload of a plain zone never gets a signal through to a host process,
\* in any state of the maps; the daemon, itself on the host, always does.
SignalsStayInside ==
  last # None /\ last.hook = "task_kill" =>
    /\ (last.cg = Host => last.ret = 0)
    /\ (last.own # 0 /\ ~PolicyOf[last.cg].global /\ last.obj = Host => last.ret = -1)

\* Counters and events agree: for every enforcing hook the denials and errors
\* counted are exactly the events in the ring, read from it, or dropped
\* because it was full, so the counters stay the source of truth for totals.
EventsAccounted ==
  \A h \in Hooks \ {"socket_connect"} :
    count[h].deny + count[h].error
      = Cardinality({i \in DOMAIN ring : ring[i].hook = h}) + read[h] + lost[h]
=============================================================================
