---------------------------- MODULE ZonePolicy ----------------------------
(***************************************************************************)
(* A policy on its way through the daemon: the TOML file an operator sends,*)
(* the ZonePolicy it parses to, admission, the kernel's zone enforcement,  *)
(* the OCI spec of a container created under it, the firewall rules, and   *)
(* the TOML `policy show` prints, which the operator may send back.        *)
(*                                                                         *)
(* Text is kept as its tokens: a memory size is a number and a suffix, a   *)
(* path its components, a component its words between underscores, a       *)
(* network target its address groups, prefix and port.                     *)
(***************************************************************************)
EXTENDS Integers, Sequences, SequencesExt, FiniteSets

CONSTANTS
    Files,      \* the policy files operators may send
    Image,      \* path components -> "missing", "symlink", "file", "empty", "full"
    Reserved,   \* safe_writable_roots: component sequences nobody may write
    Skipped,    \* LSM hooks the kernel does not offer
    Kibi, Kilo, \* stand for 1024 and 1000
    Word,       \* stands for 2^64
    MaxReloads  \* bound: policies applied to the running zone

VARIABLES
    zone,       \* the zone's ZonePolicy, or NoPolicy
    source,     \* the file that policy came from
    kernel,     \* ZoneEnforcement in the BPF policy map
    spec,       \* the OCI spec of the last container, or NoSpec
    specPolicy, \* the policy it was built from
    shown,      \* whether the text in `source` is what policy show printed
    reloads     \* policies applied so far

vars == <<zone, source, kernel, spec, specPolicy, shown, reloads>>

\* Capabilities the daemon knows, device paths it can number, and the system
\* calls the shim's broker can judge.
KnownCaps == {"CHOWN", "SYS_PTRACE"}
KnownDevices == {"/dev/null", "/dev/zero"}
BROKERABLE_SYSCALLS == {"openat", "openat2"}

NoPolicy == [ok |-> FALSE]
NoSpec == [ok |-> FALSE]
NoFile == [name |-> "none"]

-----------------------------------------------------------------------------
(* Network targets: [br, fam, groups, prefix, port] with prefix -1 and port *)
(* -1 for "not written".  An unbracketed IPv6 address without a prefix has  *)
(* no way to carry a port: what follows its last colon is a group.          *)

parse_network(t) == t.fam \in {4, 6} /\ t.prefix <= (IF t.fam = 4 THEN 32 ELSE 128)

\* FromStr for NetworkEndpoint.
EndpointOk(t) ==
    /\ parse_network(t)
    /\ t.br => t.port # -1
    /\ t.port # 0
Endpoint(t) ==
    [fam |-> t.fam, groups |-> t.groups, port |-> t.port,
     prefix |-> IF t.prefix # -1 THEN t.prefix ELSE IF t.fam = 4 THEN 32 ELSE 128]

\* strip_suffix(":0"), which looks at the text and not at its structure.
StripPortZero(t) ==
    IF t.port = 0 /\ ~t.br THEN [t EXCEPT !.port = -1]
    ELSE IF t.fam = 6 /\ ~t.br /\ t.prefix = -1 /\ t.port = -1 /\ Len(t.groups) > 1
            /\ Last(t.groups) = 0
         THEN [t EXCEPT !.groups = Front(@)]
    ELSE t

\* endpoint_rules: the rule written for one target.
endpoint_rule(t) ==
    LET legacy == StripPortZero(t)
        target == IF legacy # t /\ EndpointOk(legacy) THEN legacy ELSE t IN
    Endpoint(target)

-----------------------------------------------------------------------------
(* From the file to the policy.                                            *)

SizeOf(unit) ==
    CASE unit = "Gi" -> Kibi * Kibi * Kibi
      [] unit = "Mi" -> Kibi * Kibi
      [] unit = "Ki" -> Kibi
      [] unit = "G" -> Kilo * Kilo * Kilo
      [] unit = "M" -> Kilo * Kilo
      [] unit = "" -> 1

\* The product is computed in 64 bits; a release build wraps.
parse_memory_size(m) == (m.n * SizeOf(m.unit)) % Word

\* Mutant: what is no whole number of Gi is rounded down to Mi.
format_rounded(bytes) ==
    IF bytes % SizeOf("Gi") = 0 THEN [n |-> bytes \div SizeOf("Gi"), unit |-> "Gi"]
    ELSE [n |-> bytes \div SizeOf("Mi"), unit |-> "Mi"]

format_memory_size(bytes) ==
    IF bytes % SizeOf("Gi") = 0 THEN [n |-> bytes \div SizeOf("Gi"), unit |-> "Gi"]
    ELSE IF bytes % SizeOf("Mi") = 0 THEN [n |-> bytes \div SizeOf("Mi"), unit |-> "Mi"]
    ELSE [n |-> bytes, unit |-> ""]

\* A capability is written [name, form]; case and the CAP_ prefix do not matter.
canonical_linux_capability_name(c) == c.name
capabilities_to_mask(caps) == {canonical_linux_capability_name(c) : c \in caps}

\* What makes a file unacceptable; the request handlers add the size limit.
Acceptable(f) ==
    /\ ~f.oversized
    /\ f.type \in {"non-global", "privileged", "global"}
    /\ f.admission \in {"absent", "strict", "audit"}
    /\ capabilities_to_mask(f.caps) \subseteq KnownCaps
    /\ f.mode \in {"absent", "isolated", "bridged", "host"}
    /\ \A t \in f.egress : EndpointOk(t)

to_zone_policy(f) ==
    [ok |-> TRUE,
     admission |-> IF f.admission = "absent" THEN "strict" ELSE f.admission,
     caps |-> f.caps,
     mem |-> parse_memory_size(f.mem),
     mode |-> IF f.mode = "absent" THEN "isolated" ELSE f.mode,
     egress |-> f.egress,
     writable |-> f.writable,
     devices |-> f.devices,
     deny |-> f.deny,
     broker |-> f.broker]

\* policy_to_toml: the text has no broker list.
policy_to_toml(p) ==
    [name |-> "shown", oversized |-> FALSE, type |-> "non-global",
     admission |-> p.admission, caps |-> p.caps, mem |-> format_memory_size(p.mem),
     mode |-> p.mode, egress |-> p.egress, writable |-> p.writable,
     devices |-> p.devices, deny |-> p.deny, broker |-> {}]

-----------------------------------------------------------------------------
(* Admission and enforcement.                                              *)

safe_writable_path(path) ==
    /\ path.abs
    /\ path.comps # <<>>
    /\ \A r \in Reserved : ~IsPrefix(r, path.comps)
    /\ \A i \in DOMAIN path.comps : path.comps[i] # <<"..">>

unsupported_linux_controls(p) ==
    (IF \A path \in p.writable : safe_writable_path(path) THEN {} ELSE {"filesystem.writable_paths"})
    \cup (IF p.devices \subseteq KnownDevices THEN {} ELSE {"devices.allowed"})

admit_linux_policy(p) ==
    unsupported_linux_controls(p) \cup Skipped = {} \/ p.admission = "audit"

to_enforcement(p) ==
    [mask |-> capabilities_to_mask(p.caps),
     ptrace |-> \E c \in p.caps : c.name = "SYS_PTRACE",
     host_net |-> p.mode = "host"]

-----------------------------------------------------------------------------
(* The OCI spec.                                                           *)

oci_capabilities(p) == {canonical_linux_capability_name(c) : c \in p.caps}
oci_devices(p) == p.devices \cap KnownDevices

SeccompOk(p) == p.broker \cap p.deny = {} /\ p.broker \subseteq BROKERABLE_SYSCALLS

\* Mutant: a zone that brokers nothing is the only one to deny calls.
seccomp_broker_only(p) ==
    [errno |-> IF p.broker = {} THEN p.deny ELSE {}, notify |-> p.broker]

\* Denied names fail with EPERM, brokered ones are handed to the shim.
oci_seccomp(p) == [errno |-> p.deny, notify |-> p.broker]

\* The image must have every component as a real directory.
ImageHas(comps) ==
    /\ \A i \in 1..Len(comps) : Image[SubSeq(comps, 1, i)] \notin {"missing", "symlink"}
    /\ Image[comps] \in {"empty", "full"}

\* The flattened relative path: '/' becomes '_'.
writable_copy_dir(comps) == FlattenSeq(comps)

oci_mounts(p) ==
    {[dest |-> path.comps,
      typ |-> IF Image[path.comps] = "full" THEN "bind" ELSE "tmpfs",
      copy |-> IF Image[path.comps] = "full" THEN writable_copy_dir(path.comps) ELSE <<>>] :
        path \in {q \in p.writable : safe_writable_path(q)}}

MountsOk(p) == \A path \in p.writable : safe_writable_path(path) => ImageHas(path.comps)

-----------------------------------------------------------------------------
Init ==
    /\ zone = NoPolicy
    /\ source = NoFile
    /\ kernel = [mask |-> {}, ptrace |-> FALSE, host_net |-> FALSE]
    /\ spec = NoSpec
    /\ specPolicy = NoPolicy
    /\ shown = FALSE
    /\ reloads = 0

\* The policy takes effect: metadata row, BPF policy, firewall.
Take(f) ==
    /\ zone' = to_zone_policy(f)
    /\ source' = f
    /\ kernel' = to_enforcement(to_zone_policy(f))

\* ZoneService::create_zone with a policy file; a bad one changes nothing.
create_zone(f) ==
    /\ zone = NoPolicy
    /\ Acceptable(f)
    /\ admit_linux_policy(to_zone_policy(f))
    /\ Take(f)
    /\ shown' = FALSE
    /\ UNCHANGED <<spec, specPolicy, reloads>>

\* ZoneService::apply_policy on the running zone.
apply_policy(f) ==
    /\ zone # NoPolicy
    /\ reloads < MaxReloads
    /\ Acceptable(f)
    /\ admit_linux_policy(to_zone_policy(f))
    /\ Take(f)
    /\ shown' = FALSE
    /\ reloads' = reloads + 1
    /\ UNCHANGED <<spec, specPolicy>>

\* ZoneService::get_policy, and the operator applies what it printed.
get_policy ==
    /\ zone # NoPolicy
    /\ LET f == policy_to_toml(zone) IN
       /\ Acceptable(f)
       /\ admit_linux_policy(to_zone_policy(f))
       /\ Take(f)
    /\ shown' = TRUE
    /\ UNCHANGED <<spec, specPolicy, reloads>>

\* LinuxBackend::create_container builds the spec from the admitted policy.
create_container ==
    /\ zone # NoPolicy
    /\ SeccompOk(zone) /\ MountsOk(zone)
    /\ spec' = [ok |-> TRUE, caps |-> oci_capabilities(zone), devices |-> oci_devices(zone),
                mounts |-> oci_mounts(zone), seccomp |-> oci_seccomp(zone),
                netns |-> zone.mode # "host"]
    /\ specPolicy' = zone
    /\ UNCHANGED <<zone, source, kernel, shown, reloads>>

Next ==
    \/ \E f \in Files : create_zone(f) \/ apply_policy(f)
    \/ get_policy
    \/ create_container

Spec == Init /\ [][Next]_vars

-----------------------------------------------------------------------------
\* Every stored memory limit is a u64.
TypeOK ==
    zone # NoPolicy =>
        /\ zone.mem \in 0..(Word - 1)
        /\ zone.admission \in {"strict", "audit"}
        /\ zone.mode \in {"isolated", "bridged", "host"}
        /\ kernel.mask \subseteq KnownCaps

\* Whatever the admission mode, a container gets no device, capability,
\* writable path or host network its policy does not name, no reserved path is
\* writable, and every denied call is denied.
SpecWithinPolicy ==
    spec # NoSpec =>
        /\ spec.devices \subseteq specPolicy.devices
        /\ spec.caps \subseteq {c.name : c \in specPolicy.caps}
        /\ \A mnt \in spec.mounts : \A r \in Reserved : ~IsPrefix(r, mnt.dest)
        /\ {mnt.dest : mnt \in spec.mounts} \subseteq {p.comps : p \in specPolicy.writable}
        /\ specPolicy.deny \subseteq spec.seccomp.errno
        /\ ~spec.netns => specPolicy.mode = "host"

\* A container of a strictly admitted policy has every control the policy asks
\* for: each writable path mounted, each device made, each brokered call
\* notified, and no LSM hook missing.
StrictMeansEnforced ==
    spec # NoSpec /\ specPolicy.admission = "strict" =>
        /\ Skipped = {}
        /\ specPolicy.devices = spec.devices
        /\ {p.comps : p \in specPolicy.writable} = {mnt.dest : mnt \in spec.mounts}
        /\ spec.seccomp.notify = specPolicy.broker

\* What a running container can use, the capabilities of its spec that the
\* kernel's mask lets through, never exceeds the zone's current policy, also
\* after a reload took one away from under it.
CapsNeverExceedPolicy ==
    spec # NoSpec => spec.caps \cap kernel.mask \subseteq {c.name : c \in zone.caps}

\* The kernel lets a zone trace its own processes exactly when its mask has
\* CAP_SYS_PTRACE, however the policy spells it.
PtraceNeedsCapability == kernel.ptrace <=> "SYS_PTRACE" \in kernel.mask

-----------------------------------------------------------------------------

\* The firewall rule of a target is about the network the target names.  The
\* text of a bare IPv6 address that ends in the group 0 looks like a port 0 and
\* is the exception.
RuleMatchesTarget ==
    zone # NoPolicy =>
        \A t \in zone.egress :
            \/ endpoint_rule(t) = Endpoint(t)
            \/ t.fam = 6 /\ ~t.br /\ t.prefix = -1 /\ t.port = -1 /\ Last(t.groups) = 0
=============================================================================
