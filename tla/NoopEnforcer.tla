---------------------------- MODULE NoopEnforcer ----------------------------
(***************************************************************************)
(* The enforcer backend without a kernel (rauha-enforcer-api/src/lib.rs).  *)
(* Each method locks the whole state, so it is an operator from a state to *)
(* the next state and the reply.  A policy is a set of rules; a rule says  *)
(* which hook it is for and whether it needs the kernel.                   *)
(***************************************************************************)
EXTENDS Naturals

CONSTANTS Names, Containers,
          Probe,      \* a name and a container the conformance suite uses
          ProbeC,
          MaxIds      \* bound on the zones registered over time

VARIABLES s,          \* loaded, next_id, zones and members
          accepted    \* the policy each zone was last given, with Ok

vars == <<s, accepted>>

Rules == [hook : {"FileOpen"}, requires_kernel : BOOLEAN]
Policies == SUBSET Rules
Default == {}

Ok(st) == [st |-> st, reply |-> "Ok"]
Err(st, why) == [st |-> st, reply |-> why]
NoZones == [n \in Names |-> 0]
NoMembers == [c \in Containers |-> "none"]

noop == [kernel_enforcement |-> FALSE, hooks |-> {}]

supports_rule(caps, r) ==
    (r.requires_kernel => caps.kernel_enforcement) /\ r.hook \in caps.hooks

\* A policy the backend would have to accept without enforcing it.
reject_unenforceable(p) == \E r \in p : ~supports_rule(noop, r)

ensure_zone(st, n) == st.zones[n] # 0

load(st) == Ok([st EXCEPT !.loaded = TRUE])

\* Everything is forgotten but the last id.
shutdown(st) ==
    Ok([st EXCEPT !.loaded = FALSE, !.zones = NoZones, !.members = NoMembers])

\* A name that is known keeps its id.
register_zone(st, n, p) ==
    IF ~st.loaded THEN Err(st, "NotLoaded")
    ELSE IF reject_unenforceable(p) THEN Err(st, "PolicyUnenforceable")
    ELSE IF ensure_zone(st, n) THEN Ok(st)
    ELSE Ok([st EXCEPT !.next_id = @ + 1, !.zones[n] = st.next_id + 1])

\* Mutant: drained containers stay members.
remove_keeps_members(st, n, drain) ==
    IF ~st.loaded THEN Err(st, "NotLoaded")
    ELSE IF ~ensure_zone(st, n) THEN Err(st, "ZoneNotFound")
    ELSE Ok([st EXCEPT !.zones[n] = 0])

\* Members are evicted, or keep the zone from being removed.
remove_zone(st, n, drain) ==
    IF ~st.loaded THEN Err(st, "NotLoaded")
    ELSE IF ~ensure_zone(st, n) THEN Err(st, "ZoneNotFound")
    ELSE IF ~drain /\ \E c \in Containers : st.members[c] = n THEN Err(st, "Verifier")
    ELSE Ok([st EXCEPT !.zones[n] = 0,
                       !.members = [c \in Containers |-> IF @[c] = n THEN "none" ELSE @[c]]])

\* What every method does first; nothing but the rules is looked at further.
known(st, n) ==
    IF ~st.loaded THEN Err(st, "NotLoaded")
    ELSE IF ~ensure_zone(st, n) THEN Err(st, "ZoneNotFound")
    ELSE Ok(st)

apply_policy(st, n, p) ==
    IF known(st, n).reply # "Ok" THEN known(st, n)
    ELSE IF reject_unenforceable(p) THEN Err(st, "PolicyUnenforceable") ELSE Ok(st)

attach_container(st, n, c) ==
    IF known(st, n).reply # "Ok" THEN known(st, n)
    ELSE Ok([st EXCEPT !.members[c] = n])

detach_container(st, c) ==
    IF ~st.loaded THEN Err(st, "NotLoaded") ELSE Ok([st EXCEPT !.members[c] = "none"])

register_host_path(st, n) == known(st, n)

allow_comm(st, a, b) == IF known(st, a).reply # "Ok" THEN known(st, a) ELSE known(st, b)

stats(st, n) == known(st, n)

\* The report's ok: loaded, registered, and every rule supported.
verify(st, n, p) == st.loaded /\ ensure_zone(st, n) /\ \A r \in p : supports_rule(noop, r)

\* The conformance suite: no reply of its calls is an error, and the zone
\* verifies against the empty policy.
run_basic_conformance(start) ==
    LET up == register_zone(load(start).st, Probe, Default)
        in == attach_container(up.st, Probe, ProbeC)
        out == detach_container(in.st, ProbeC)
        gone == remove_zone(out.st, Probe, TRUE)
    IN /\ up.reply = "Ok"
       /\ apply_policy(up.st, Probe, Default).reply = "Ok"
       /\ in.reply = "Ok"
       /\ register_host_path(in.st, Probe).reply = "Ok"
       /\ stats(in.st, Probe).reply = "Ok"
       /\ verify(in.st, Probe, Default)
       /\ out.reply = "Ok" /\ gone.reply = "Ok"
       /\ shutdown(gone.st).reply = "Ok"

-----------------------------------------------------------------------------
Init ==
    /\ s = [loaded |-> FALSE, next_id |-> 0, zones |-> NoZones, members |-> NoMembers]
    /\ accepted = [n \in Names |-> Default]

Becomes(x) == s' = x.st

Load == Becomes(load(s)) /\ UNCHANGED accepted
Shutdown == Becomes(shutdown(s)) /\ UNCHANGED accepted

\* A policy replaces the last one if the reply is Ok.
Given(n, p, x) ==
    /\ Becomes(x)
    /\ accepted' = IF x.reply = "Ok" THEN [accepted EXCEPT ![n] = p] ELSE accepted

Register(n, p) == s.next_id < MaxIds /\ Given(n, p, register_zone(s, n, p))
Apply(n, p) == Given(n, p, apply_policy(s, n, p))
Remove(n, drain) == Becomes(remove_zone(s, n, drain)) /\ UNCHANGED accepted
Attach(n, c) == Becomes(attach_container(s, n, c)) /\ UNCHANGED accepted
Detach(c) == Becomes(detach_container(s, c)) /\ UNCHANGED accepted

\* The calls that only answer.
Ask(n, m) ==
    /\ \/ Becomes(register_host_path(s, n)) \/ Becomes(allow_comm(s, n, m))
       \/ Becomes(stats(s, n))
    /\ UNCHANGED accepted

Next ==
    \/ Load \/ Shutdown
    \/ \E n \in Names, p \in Policies : Register(n, p) \/ Apply(n, p)
    \/ \E n \in Names, drain \in BOOLEAN : Remove(n, drain)
    \/ \E n \in Names, c \in Containers : Attach(n, c)
    \/ \E c \in Containers : Detach(c)
    \/ \E n, m \in Names : Ask(n, m)

Spec == Init /\ [][Next]_vars
-----------------------------------------------------------------------------
\* The state has its type.
TypeOK ==
    /\ s.loaded \in BOOLEAN /\ s.next_id \in 0..MaxIds
    /\ s.zones \in [Names -> 0..s.next_id]
    /\ s.members \in [Containers -> Names \cup {"none"}]
    /\ accepted \in [Names -> Policies]

\* A policy that was answered Ok verifies, as long as its zone exists: the
\* backend never accepts a rule that its own verify reports as unsupported.
AcceptedVerifies ==
    \A n \in Names : s.loaded /\ ensure_zone(s, n) => verify(s, n, accepted[n])

\* The conformance suite passes on the backend in whatever state it is, not
\* only on a fresh one.
AlwaysConforms == run_basic_conformance(s)
=============================================================================
