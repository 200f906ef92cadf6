---------------------------- MODULE LinuxEnforcer ----------------------------
(***************************************************************************)
(* The enforcer backend over the eBPF maps                                 *)
(* (rauhad/src/backend/linux/enforcer.rs).  Its trait methods take the     *)
(* lock of the eBPF manager and the lock of the zone table one after the   *)
(* other, so the calls of two clients interleave between them.  A client   *)
(* keeps the ZoneRef that register_zone gave it, also when the zone is     *)
(* gone.                                                                   *)
(***************************************************************************)
EXTENDS Naturals, FiniteSets

CONSTANTS Clients, Names, CgroupIds,
          MaxIds,       \* bound on the ids given out
          MayShutdown,  \* clients shut the backend down and load it again
          MayFail,      \* writes to the maps fail
          MayTalk,      \* clients call allow_comm and deny_comm
          Hooks         \* the programs of the object file

VARIABLES loaded,       \* ebpf is Some
          trait_zones,  \* id of each registered name, or 0
          next,         \* trait_next_zone_id
          ZONE_POLICY, ZONE_MEMBERSHIP, ZONE_ALLOWED_COMMS, INODE_ZONE_MAP,
          refs,         \* the ZoneRefs that clients hold
          attached,     \* the hooks whose programs are attached
          doing         \* what each client is in the middle of

maps == <<ZONE_POLICY, ZONE_MEMBERSHIP, ZONE_ALLOWED_COMMS, INODE_ZONE_MAP>>
table == <<trait_zones, next>>
enforcerVars == <<loaded, table, maps, refs, attached, doing>>

Ids == 1..MaxIds
Idle == [at |-> "idle", name |-> "none", id |-> 0, peer |-> 0]
At(k, where) == doing[k].at = where
Goes(k, c) == doing' = [doing EXCEPT ![k] = c]
Ends(k) == Goes(k, Idle)

NoMaps ==
    /\ ZONE_POLICY' = {} /\ ZONE_ALLOWED_COMMS' = {}
    /\ ZONE_MEMBERSHIP' = [c \in CgroupIds |-> 0] /\ INODE_ZONE_MAP' = 0

EnforcerInit ==
    /\ loaded = TRUE /\ trait_zones = [n \in Names |-> 0] /\ next = 1
    /\ ZONE_POLICY = {} /\ ZONE_ALLOWED_COMMS = {}
    /\ ZONE_MEMBERSHIP = [c \in CgroupIds |-> 0] /\ INODE_ZONE_MAP = 0
    /\ refs = {} /\ attached \in SUBSET Hooks \ {{}}
    /\ doing = [k \in Clients |-> Idle]

\* A write to the maps is done, or fails: always without the eBPF manager.
with_bpf(write, failed) ==
    \/ loaded /\ write
    \/ (~loaded \/ MayFail) /\ failed
-----------------------------------------------------------------------------
\* The object is loaded again with fresh maps; the zone table is as it was.
load(k) ==
    /\ At(k, "idle") /\ ~loaded
    /\ loaded' = TRUE /\ attached' \in SUBSET Hooks \ {{}}
    /\ NoMaps /\ UNCHANGED <<table, refs, doing>>

\* The programs and their maps go first, the zone table under its own lock.
shutdown_take(k) ==
    /\ MayShutdown /\ At(k, "idle")
    /\ loaded' = FALSE /\ NoMaps
    /\ Goes(k, [Idle EXCEPT !.at = "clear"])
    /\ UNCHANGED <<table, refs, attached>>

shutdown_clear(k) ==
    /\ At(k, "clear")
    /\ trait_zones' = [n \in Names |-> 0]
    /\ Ends(k) /\ UNCHANGED <<loaded, maps, next, refs, attached>>

\* register_zone and remove_zone refuse at once when nothing is loaded.
Begin(k, n, where) ==
    /\ At(k, "idle") /\ loaded
    /\ where = "register" => next + Cardinality({j \in Clients : At(j, where)}) <= MaxIds
    /\ Goes(k, [Idle EXCEPT !.at = where, !.name = n])
    /\ UNCHANGED <<loaded, maps, table, refs, attached>>

\* The zone is entered in the table before its policy is in the map.
register_enter(k) ==
    LET n == doing[k].name IN
    /\ At(k, "register")
    /\ IF trait_zones[n] # 0 THEN UNCHANGED table
       ELSE trait_zones' = [trait_zones EXCEPT ![n] = next] /\ next' = next + 1
    /\ Goes(k, [doing[k] EXCEPT !.at = "policy", !.id = trait_zones'[n]])
    /\ UNCHANGED <<loaded, maps, refs, attached>>

\* The client has a ZoneRef only when the policy was written; the zone stays
\* in the table either way.
register_apply(k) ==
    /\ At(k, "policy") /\ Ends(k)
    /\ with_bpf(/\ ZONE_POLICY' = ZONE_POLICY \cup {doing[k].id}
                /\ refs' = refs \cup {[name |-> doing[k].name, kernel_id |-> doing[k].id]},
                UNCHANGED <<ZONE_POLICY, refs>>)
    /\ UNCHANGED <<loaded, ZONE_MEMBERSHIP, ZONE_ALLOWED_COMMS, INODE_ZONE_MAP, table, attached>>

\* Mutant: the policy goes first, the name when it is gone.
remove_policy_first(k) ==
    LET n == doing[k].name IN
    /\ At(k, "remove")
    /\ ZONE_POLICY' = ZONE_POLICY \ {trait_zones[n]}
    /\ Ends(k)
    /\ UNCHANGED <<loaded, ZONE_MEMBERSHIP, ZONE_ALLOWED_COMMS, INODE_ZONE_MAP,
                   table, refs, attached>>

\* The name goes first; a name that is not there is fine.  drain is ignored.
remove_enter(k) ==
    LET n == doing[k].name IN
    /\ At(k, "remove")
    /\ trait_zones' = [trait_zones EXCEPT ![n] = 0]
    /\ IF trait_zones[n] = 0 THEN Ends(k)
       ELSE Goes(k, [doing[k] EXCEPT !.at = "unpolicy", !.id = trait_zones[n]])
    /\ UNCHANGED <<loaded, maps, next, refs, attached>>

remove_policy(k) ==
    /\ At(k, "unpolicy") /\ Ends(k)
    /\ with_bpf(ZONE_POLICY' = ZONE_POLICY \ {doing[k].id}, UNCHANGED ZONE_POLICY)
    /\ UNCHANGED <<loaded, ZONE_MEMBERSHIP, ZONE_ALLOWED_COMMS, INODE_ZONE_MAP,
                   table, refs, attached>>
-----------------------------------------------------------------------------
\* The id of the ZoneRef is used as it is: the zone table is not asked.
apply_policy(k, r) ==
    /\ At(k, "idle")
    /\ with_bpf(ZONE_POLICY' = ZONE_POLICY \cup {r.kernel_id}, UNCHANGED ZONE_POLICY)
    /\ UNCHANGED <<loaded, ZONE_MEMBERSHIP, ZONE_ALLOWED_COMMS, INODE_ZONE_MAP,
                   table, refs, attached, doing>>

attach_container(k, r, c) ==
    /\ At(k, "idle")
    /\ with_bpf(ZONE_MEMBERSHIP' = [ZONE_MEMBERSHIP EXCEPT ![c] = r.kernel_id],
                UNCHANGED ZONE_MEMBERSHIP)
    /\ UNCHANGED <<loaded, ZONE_POLICY, ZONE_ALLOWED_COMMS, INODE_ZONE_MAP,
                   table, refs, attached, doing>>

detach_container(k, c) ==
    /\ At(k, "idle")
    /\ with_bpf(ZONE_MEMBERSHIP' = [ZONE_MEMBERSHIP EXCEPT ![c] = 0],
                UNCHANGED ZONE_MEMBERSHIP)
    /\ UNCHANGED <<loaded, ZONE_POLICY, ZONE_ALLOWED_COMMS, INODE_ZONE_MAP,
                   table, refs, attached, doing>>

\* One inode stands for the tree under the path.
register_host_path(k, r) ==
    /\ At(k, "idle")
    /\ with_bpf(INODE_ZONE_MAP' = r.kernel_id, UNCHANGED INODE_ZONE_MAP)
    /\ UNCHANGED <<loaded, ZONE_POLICY, ZONE_MEMBERSHIP, ZONE_ALLOWED_COMMS,
                   table, refs, attached, doing>>

Comm(allow, a, b) ==
    ZONE_ALLOWED_COMMS' = IF allow THEN ZONE_ALLOWED_COMMS \cup {<<a, b>>}
                                   ELSE ZONE_ALLOWED_COMMS \ {<<a, b>>}

OnlyComms == UNCHANGED <<loaded, ZONE_POLICY, ZONE_MEMBERSHIP, INODE_ZONE_MAP,
                         table, refs, attached>>

\* allow_comm and deny_comm: one direction, then the other, each under the
\* lock; the second is not tried when the first has failed.
comm_there(k, a, b, allow) ==
    /\ At(k, "idle")
    /\ with_bpf(/\ Comm(allow, a.kernel_id, b.kernel_id)
                /\ Goes(k, [Idle EXCEPT !.at = IF allow THEN "allow" ELSE "deny",
                                        !.id = b.kernel_id, !.peer = a.kernel_id]),
                UNCHANGED <<ZONE_ALLOWED_COMMS, doing>>)
    /\ OnlyComms

\* Mutant: the call is over after one direction.
comm_one_way(k) ==
    /\ At(k, "allow") \/ At(k, "deny")
    /\ UNCHANGED ZONE_ALLOWED_COMMS
    /\ Ends(k) /\ OnlyComms

comm_back(k) ==
    /\ At(k, "allow") \/ At(k, "deny")
    /\ with_bpf(Comm(At(k, "allow"), doing[k].id, doing[k].peer), UNCHANGED ZONE_ALLOWED_COMMS)
    /\ Ends(k) /\ OnlyComms

EnforcerNext ==
    \E k \in Clients :
        \/ load(k) \/ shutdown_take(k) \/ shutdown_clear(k)
        \/ \E n \in Names : Begin(k, n, "register") \/ Begin(k, n, "remove")
        \/ register_enter(k) \/ register_apply(k) \/ remove_enter(k) \/ remove_policy(k)
        \/ \E r \in refs : apply_policy(k, r) \/ register_host_path(k, r)
        \/ \E r \in refs, c \in CgroupIds : attach_container(k, r, c)
        \/ \E c \in CgroupIds : detach_container(k, c)
        \/ \E a, b \in refs, allow \in BOOLEAN : MayTalk /\ comm_there(k, a, b, allow)
        \/ comm_back(k)

EnforcerSpec == EnforcerInit /\ [][EnforcerNext]_enforcerVars
-----------------------------------------------------------------------------
\* health_check and the rules: every hook of the seam's vocabulary counts as
\* supported, so only the programs can be reported.
verify(r) == loaded /\ attached = Hooks

\* A call is working on n; a shutdown works on every zone until it has cleared
\* the table.
Busy(n) == \E k \in Clients : doing[k].name = n \/ At(k, "clear")

\* The state has its type.
EnforcerTypeOK ==
    /\ loaded \in BOOLEAN /\ trait_zones \in [Names -> 0..MaxIds]
    /\ next \in 1..MaxIds + 1
    /\ ZONE_POLICY \subseteq Ids /\ ZONE_ALLOWED_COMMS \subseteq Ids \X Ids
    /\ ZONE_MEMBERSHIP \in [CgroupIds -> 0..MaxIds] /\ INODE_ZONE_MAP \in 0..MaxIds
    /\ refs \subseteq [name : Names, kernel_id : Ids] /\ attached \subseteq Hooks

\* A registered zone that no call is working on has its policy in the map,
\* whatever calls of register_zone, remove_zone and apply_policy overlapped.
RegisteredHasPolicy ==
    loaded => \A n \in Names :
        trait_zones[n] # 0 /\ ~Busy(n) => trait_zones[n] \in ZONE_POLICY

\* A ZoneRef names one zone for good: its id is never given to another name,
\* also after the zone was removed or the backend shut down and loaded again.
RefsNeverAlias ==
    \A r \in refs : \A n \in Names : trait_zones[n] = r.kernel_id => n = r.name

\* With nobody in the middle of a call, a backend that is down knows no zone.
\* This is of one client: a registration that overlaps another client's
\* shutdown still enters its zone in the table that was just cleared.
DownKnowsNothing ==
    (~loaded /\ \A k \in Clients : At(k, "idle")) => \A n \in Names : trait_zones[n] = 0

\* allow_comm and deny_comm are symmetric: between calls two zones may talk in
\* both directions or in none.
CommIsSymmetric ==
    (\A k \in Clients : At(k, "idle")) =>
        \A e \in ZONE_ALLOWED_COMMS : <<e[2], e[1]>> \in ZONE_ALLOWED_COMMS

\* A zone that is registered, and that no call is working on, has its policy
\* in the map if verify says ok of it, whatever writes to the maps failed.
VerifiedHasPolicy ==
    \A r \in refs :
        trait_zones[r.name] = r.kernel_id /\ ~Busy(r.name) /\ verify(r) => r.kernel_id \in ZONE_POLICY

\* What a ZoneRef says stays true: it names one zone, and while that zone is
\* registered it is enforced.
RefsFaithful == RefsNeverAlias /\ VerifiedHasPolicy

Places == {"idle", "clear", "register", "policy", "remove", "unpolicy", "allow", "deny"}

\* The types that the proofs need; a client that registers or removes has a name.
CallsTyped ==
    /\ trait_zones \in [Names -> Nat] /\ next \in Nat \ {0}
    /\ refs \subseteq [name : Names, kernel_id : Nat \ {0}]
    /\ doing \in [Clients -> [at : Places, name : Names \cup {"none"}, id : Nat, peer : Nat]]
    /\ \A k \in Clients : At(k, "register") \/ At(k, "remove") \/ At(k, "policy") =>
          doing[k].name \in Names

\* Ids in use were given out.
IdsGiven ==
    /\ \A n \in Names : trait_zones[n] < next
    /\ \A r \in refs : r.kernel_id < next
    /\ \A k \in Clients : doing[k].id < next

\* No id stands for two names: not in the table, not in the hands of a call
\* that is about to write its policy.  The policy that remove_zone is about to
\* take away is of no registered zone.
NoAlias ==
    /\ \A m, n \in Names : trait_zones[m] = trait_zones[n] /\ trait_zones[n] # 0 => m = n
    /\ RefsNeverAlias
    /\ \A k \in Clients : At(k, "policy") \/ At(k, "unpolicy") => doing[k].id # 0
    /\ \A k \in Clients : At(k, "policy") =>
          \A n \in Names : trait_zones[n] = doing[k].id => n = doing[k].name
    /\ \A k \in Clients : At(k, "unpolicy") => \A n \in Names : trait_zones[n] # doing[k].id

\* A registered zone that a ZoneRef names is enforced; maps are emptied only by
\* a shutdown that has yet to clear the table.
RefsEnforced ==
    \/ \E k \in Clients : At(k, "clear")
    \/ \A r \in refs : trait_zones[r.name] = r.kernel_id =>
          loaded /\ r.kernel_id \in ZONE_POLICY

\* What RefsFaithful rests on, in every state.
EnforcerInv == CallsTyped /\ IdsGiven /\ NoAlias /\ RefsEnforced

\* Why RegisteredHasPolicy holds where no write fails and nobody shuts down: a
\* registered zone has its policy, or a call is about to write it.
PolicyInv ==
    /\ loaded
    /\ \A n \in Names : trait_zones[n] # 0 =>
          \/ trait_zones[n] \in ZONE_POLICY
          \/ \E k \in Clients : At(k, "policy") /\ doing[k].name = n /\ doing[k].id = trait_zones[n]

\* Why DownKnowsNothing holds of one client: only a loaded backend begins a
\* call, and nobody takes it down before the call ends.
DownInv ==
    /\ \A k \in Clients : At(k, "idle") \/ At(k, "clear") \/ loaded
    /\ \/ loaded \/ \E k \in Clients : At(k, "clear")
       \/ \A n \in Names : trait_zones[n] = 0

\* Why CommIsSymmetric holds of one client whose writes do not fail: the entry
\* without its mirror is the one that the call is about to mirror.
CommInv ==
    /\ ZONE_ALLOWED_COMMS \subseteq Nat \X Nat
    /\ \A k \in Clients :
          /\ At(k, "allow") => <<doing[k].peer, doing[k].id>> \in ZONE_ALLOWED_COMMS
          /\ At(k, "deny") => <<doing[k].peer, doing[k].id>> \notin ZONE_ALLOWED_COMMS
    /\ \A e \in ZONE_ALLOWED_COMMS :
          \/ <<e[2], e[1]>> \in ZONE_ALLOWED_COMMS
          \/ \E k \in Clients : At(k, "allow") /\ e = <<doing[k].peer, doing[k].id>>
          \/ \E k \in Clients : At(k, "deny") /\ e = <<doing[k].id, doing[k].peer>>
=============================================================================
