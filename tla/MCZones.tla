------------------------------- MODULE MCZones -------------------------------
(***************************************************************************)
(* Zones: the Linux backend that makes, reloads, recovers and destroys     *)
(* them, the policies they are given and the pool their addresses come     *)
(* from, each by itself. A behaviour is about one of them, in the instance *)
(* that its scene names; the others stand still.                           *)
(***************************************************************************)
EXTENDS IpAllocator, TLC

CONSTANTS z1, z2, z3   \* zones with an address

VARIABLES
    scene,   \* what this behaviour is about; it never changes
    daemon, recovering, attached, hooks, rows, handles, ids, names, policies,
    degraded, inodesOf, taken, nextZid, op, rl, cgroup, limits, live,
    containers, netns, veth, nft, member, polmap, comms, owned, nextUuid,
    nextCg, faults, crashes, debris, unrecovered,
    zone, source, kernel, spec, specPolicy, shown, reloads

zoneBackendVars == <<daemon, recovering, attached, hooks, rows, handles, ids,
                     names, policies, degraded, inodesOf, taken, nextZid, op,
                     rl, cgroup, limits, live, containers, netns, veth, nft,
                     member, polmap, comms, owned, nextUuid, nextCg, faults,
                     crashes, debris, unrecovered>>
zonePolicyVars == <<zone, source, kernel, spec, specPolicy, shown, reloads>>
all == <<scene, poolVars, zoneBackendVars, zonePolicyVars>>

(***************************************************************************)
(* Addresses of five bits, and every subnet that parse_cidr accepts of     *)
(* them: not too large, not too small, no host bits.                       *)
(***************************************************************************)
Width == 5
Space == 2^Width
parse_cidr(base, prefix) ==
  /\ prefix <= Width - 2 /\ prefix >= 2
  /\ base % 2^(Width - prefix) = 0
ParsedSubnets ==
  {[base |-> c[1], size |-> 2^(Width - c[2])] :
     c \in {d \in (0..(Space - 1)) \X (0..Width) : parse_cidr(d[1], d[2])}}

ThreeZones == {z1, z2, z3}
Symmetry == Permutations(ThreeZones)

(***************************************************************************)
(* A strict policy, an audit policy that allows more, one in host mode.    *)
(***************************************************************************)
StrictClosed == [strict |-> TRUE, host |-> FALSE, allows |-> {}]
AuditOpen == [strict |-> FALSE, host |-> FALSE, allows |-> {"a"}]
AuditHost == [strict |-> FALSE, host |-> TRUE, allows |-> {}]

(***************************************************************************)
(* Policy files that vary a few sections at a time around a plain one, and *)
(* the paths /data, /data/x, /data_x, /etc (reserved), a relative one and  *)
(* one with dots.                                                          *)
(***************************************************************************)
Plain ==
  [name |-> "file", oversized |-> FALSE, type |-> "non-global", admission |-> "absent",
   caps |-> {}, mem |-> [n |-> 1, unit |-> "Mi"], mode |-> "absent", egress |-> {},
   writable |-> {}, devices |-> {}, deny |-> {}, broker |-> {}]

Data == <<"data">>
X == <<"x">>
Paths ==
  {[abs |-> TRUE, comps |-> c] :
     c \in {<<Data>>, <<Data, X>>, <<<<"data", "x">>>>, <<<<"etc">>>>, <<Data, <<"..">>>>}}
  \cup {[abs |-> FALSE, comps |-> <<Data>>]}
FullImage ==
  [c \in {<<Data>>, <<Data, X>>, <<<<"data", "x">>>>, <<<<"etc">>>>} |->
     IF c = <<<<"etc">>>> THEN "symlink" ELSE "full"]
BareImage ==
  [c \in {<<Data>>, <<Data, X>>, <<<<"data", "x">>>>, <<<<"etc">>>>} |->
     IF c = <<Data>> THEN "empty" ELSE IF c = <<Data, X>> THEN "missing" ELSE "file"]

FewCaps == {cs \in SUBSET [name : {"CHOWN", "SYS_PTRACE", "BOGUS"}, form : {"CAP_", ""}] :
              Cardinality(cs) <= 2}
Sizes == [n : 0..9, unit : {"Gi", "Mi", "Ki", "G", "M", ""}]
Targets ==
  {t \in [br : BOOLEAN, fam : {4, 6, 9}, groups : {<<5>>, <<5, 0>>}, prefix : {-1, 32, 64}, port : {-1, 0, 80}] :
     /\ t.fam = 4 => t.groups = <<5>>
     /\ t.fam = 6 /\ ~t.br /\ t.prefix = -1 => t.port = -1}

PolicyFiles ==
  [name : {"file"}, oversized : {FALSE}, type : {"non-global"}, admission : {"strict", "audit"},
   caps : {{}}, mem : {Plain.mem}, mode : {"host", "absent"}, egress : {{}},
   writable : {ps \in SUBSET Paths : Cardinality(ps) <= 2}, devices : {{}, {"/dev/null", "/dev/kvm"}},
   deny : {{"mount"}, {"openat"}}, broker : {{}, {"openat"}}]
  \cup {[Plain EXCEPT !.caps = cs, !.type = ty, !.admission = a, !.oversized = o] :
          cs \in FewCaps, ty \in {"global", "bogus"}, a \in {"absent", "bogus"}, o \in BOOLEAN}
  \cup {[Plain EXCEPT !.mem = sz, !.mode = md] : sz \in Sizes, md \in {"bridged", "bogus"}}
  \cup {[Plain EXCEPT !.egress = {t}] : t \in Targets}

\* A few of each kind, for reloads under a running container.
ReloadFiles ==
  {[Plain EXCEPT !.caps = cs, !.mode = md, !.devices = ds, !.admission = a] :
     cs \in FewCaps, md \in {"host", "isolated"}, ds \in {{}, {"/dev/kvm"}}, a \in {"strict", "audit"}}

-----------------------------------------------------------------------------
\* Zones come and go, the daemon is killed, a call fails.
Life == INSTANCE ZoneBackend WITH
    Names <- {"a", "b"}, Policies <- {StrictClosed, AuditOpen, AuditHost},
    Ips <- {2}, Reloaders <- {}, MaxZones <- 2, MaxCgroups <- 3,
    MaxFaults <- 2, MaxCrashes <- 1, todo <- recovering
\* A policy is reloaded while zones come and go, and calls fail.
Reload == INSTANCE ZoneBackend WITH
    Names <- {"a", "b"}, Policies <- {StrictClosed, AuditOpen}, Ips <- {2, 3},
    Reloaders <- {"r"}, MaxZones <- 2, MaxCgroups <- 2, MaxFaults <- 1,
    MaxCrashes <- 0, todo <- recovering
\* One policy file of every kind.
Parse == INSTANCE ZonePolicy WITH
    Files <- PolicyFiles, Image <- FullImage, Reserved <- {<<<<"etc">>>>},
    Skipped <- {}, Kibi <- 2, Kilo <- 3, Word <- 64, MaxReloads <- 0
\* A policy changes under a running container.
Update == INSTANCE ZonePolicy WITH
    Files <- ReloadFiles, Image <- FullImage, Reserved <- {<<<<"etc">>>>},
    Skipped <- {}, Kibi <- 2, Kilo <- 3, Word <- 64, MaxReloads <- 2
\* On a kernel without one of the hooks, for an image that lacks the paths.
Bare == INSTANCE ZonePolicy WITH
    Files <- PolicyFiles, Image <- BareImage, Reserved <- {<<<<"etc">>>>},
    Skipped <- {"bprm_check"}, Kibi <- 2, Kilo <- 3, Word <- 64,
    MaxReloads <- 0

\* The variables of a component that the scene is not about.
NoZoneBackend ==
    /\ daemon = 0 /\ recovering = 0 /\ attached = 0 /\ hooks = 0
    /\ rows = 0 /\ handles = 0 /\ ids = 0 /\ names = 0 /\ policies = 0
    /\ degraded = 0 /\ inodesOf = 0 /\ taken = 0 /\ nextZid = 0 /\ op = 0
    /\ rl = 0 /\ cgroup = 0 /\ limits = 0 /\ live = 0 /\ containers = 0
    /\ netns = 0 /\ veth = 0 /\ nft = 0 /\ member = 0 /\ polmap = 0
    /\ comms = 0 /\ owned = 0 /\ nextUuid = 0 /\ nextCg = 0 /\ faults = 0
    /\ crashes = 0 /\ debris = 0 /\ unrecovered = 0
NoZonePolicy ==
    /\ zone = 0 /\ source = 0 /\ kernel = 0 /\ spec = 0 /\ specPolicy = 0
    /\ shown = 0 /\ reloads = 0

Scenes == {"pool", "life", "reload", "files", "reloads", "kernel"}

AnyInit ==
    /\ scene \in Scenes
    /\ \/ scene = "pool" /\ PoolInit
       \/ scene # "pool" /\ PoolInit /\ subnet = CHOOSE x \in Subnets : TRUE
    /\ \/ scene = "life" /\ Life!Init
       \/ scene = "reload" /\ Reload!Init
       \/ scene \notin {"life", "reload"} /\ NoZoneBackend
    /\ \/ scene = "files" /\ Parse!Init
       \/ scene = "reloads" /\ Update!Init
       \/ scene = "kernel" /\ Bare!Init
       \/ scene \notin {"files", "reloads", "kernel"} /\ NoZonePolicy

\* The component that the scene is about takes a step of its own.
AnyNext ==
    /\ UNCHANGED scene
    /\ \/ scene = "pool" /\ PoolNext
       \/ scene # "pool" /\ UNCHANGED poolVars
    /\ \/ scene = "life" /\ Life!Next
       \/ scene = "reload" /\ Reload!Next
       \/ scene \notin {"life", "reload"} /\ UNCHANGED zoneBackendVars
    /\ \/ scene = "files" /\ Parse!Next
       \/ scene = "reloads" /\ Update!Next
       \/ scene = "kernel" /\ Bare!Next
       \/ scene \notin {"files", "reloads", "kernel"} /\ UNCHANGED zonePolicyVars

AnySpec == AnyInit /\ [][AnyNext]_all
-----------------------------------------------------------------------------
\* A zone keeps its boundary. While the daemon holds a handle no process of the
\* zone runs outside membership and policy (HandledZonesEnforced); a failed
\* recovery leaves a workload outside only if it stopped before the membership
\* was written (LostOnlyBeforeMembership); a zone with no degradation on record
\* has every control of its policy (NoSilentDegradation); row and handle are of
\* one zone (RowMatchesHandle), the allocator holds exactly the zones'
\* addresses (AddressLedger), and failed creates and crashes leave nothing
\* (NothingLeftBehind). With updates the kernel enforces the policy last
\* admitted, a half-applied one being taken back (PolicyAgreement), and two
\* zones talk only if the policy of one names the other (CommsJustified).
ZonesKept ==
    /\ scene = "life" =>
         /\ Life!TypeOK /\ Life!HandledZonesEnforced
         /\ Life!LostOnlyBeforeMembership /\ Life!NoSilentDegradation
         /\ Life!RowMatchesHandle /\ Life!AddressLedger
         /\ Life!NothingLeftBehind
    /\ scene = "reload" =>
         /\ Reload!TypeOK /\ Reload!PolicyAgreement /\ Reload!CommsJustified

\* A container gets nothing its policy does not name and every denied call is
\* denied (SpecWithinPolicy); tracing follows CAP_SYS_PTRACE however it is
\* spelled (PtraceNeedsCapability); a firewall rule is about the network its
\* target names, a bare IPv6 address ending in group 0 excepted
\* (RuleMatchesTarget); what a running container can use never exceeds the
\* current policy, also after a reload (CapsNeverExceedPolicy); and a strictly
\* admitted policy has every control it asks for (StrictMeansEnforced).
PoliciesFaithful ==
    /\ scene = "files" =>
         /\ Parse!TypeOK /\ Parse!SpecWithinPolicy
         /\ Parse!PtraceNeedsCapability /\ Parse!RuleMatchesTarget
    /\ scene = "reloads" =>
         /\ Update!TypeOK /\ Update!CapsNeverExceedPolicy
         /\ Update!StrictMeansEnforced
    /\ scene = "kernel" => Bare!StrictMeansEnforced

\* Applying what policy show printed is accepted and changes nothing else than
\* the broker list.
ShownReadsBack ==
    [][shown' # shown /\ shown' /\ scene \in {"files", "reloads", "kernel"}
         => zone' = [zone EXCEPT !.broker = {}]]_all
=============================================================================
