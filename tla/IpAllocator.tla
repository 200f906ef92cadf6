---------------------------- MODULE IpAllocator ----------------------------
(***************************************************************************)
(* The address pool of the zone network (rauhad/src/network/allocator.rs)  *)
(* across daemon restarts.  The pool is in memory only: each start takes   *)
(* the configured subnet (which may have changed) and rebuilds the pool    *)
(* from the addresses persisted with the zones, in subnet or not.          *)
(* An address is a number; 32 bit wrap-around is kept.                     *)
(***************************************************************************)
EXTENDS Integers, FiniteSets

CONSTANTS Zones,
          AddrSpace,   \* 2^32
          Subnets,     \* the subnets the configuration may name, as base and size
          MaxStarts    \* daemon starts

ASSUME SubnetsOK ==
  /\ AddrSpace \in Nat /\ MaxStarts \in Nat
  /\ \A s \in Subnets : /\ s.base \in Nat /\ s.size \in Nat
                        /\ s.size >= 4 /\ s.base + s.size <= AddrSpace

VARIABLES
  subnet,      \* the subnet of the running daemon
  allocated,   \* IpAllocator.allocated: host offsets
  addr,        \* the persisted address of each zone
  todo,        \* zones recovery has not come to yet
  starts

poolVars == <<subnet, allocated, addr, todo, starts>>

None == -1
Addresses == 0..(AddrSpace - 1)
Persisted == {z \in Zones : addr[z] # None}

max_host_offset == subnet.size - 2

offset_to_ip(offset) == subnet.base + offset

\* wrapping_sub
ip_to_offset(ip) == IF ip >= subnet.base THEN ip - subnet.base ELSE ip - subnet.base + AddrSpace

validated(ip) == ip_to_offset(ip) > 1 /\ ip_to_offset(ip) <= max_host_offset

mark_allocated(ip) == IF validated(ip) THEN allocated \cup {ip_to_offset(ip)} ELSE allocated

release(ip) == IF validated(ip) THEN allocated \ {ip_to_offset(ip)} ELSE allocated

Fresh == {0, 1}    \* the network address and the gateway

PoolInit ==
  /\ subnet \in Subnets /\ allocated = Fresh
  /\ addr = [z \in Zones |-> None]
  /\ todo = {} /\ starts = 0

\* create_zone: the lowest free offset, or an error when there is none.
allocate(z) ==
  /\ todo = {} /\ addr[z] = None
  /\ \E offset \in 2..max_host_offset :
       /\ offset \notin allocated
       /\ \A lower \in 2..(offset - 1) : lower \in allocated
       /\ allocated' = allocated \cup {offset}
       /\ addr' = [addr EXCEPT ![z] = offset_to_ip(offset)]
  /\ UNCHANGED <<subnet, todo, starts>>

\* destroy_zone
Destroy(z) ==
  /\ todo = {} /\ addr[z] # None
  /\ allocated' = release(addr[z])
  /\ addr' = [addr EXCEPT ![z] = None]
  /\ UNCHANGED <<subnet, todo, starts>>

\* The daemon starts again, with the subnet its configuration names now.
Restart ==
  /\ starts < MaxStarts /\ starts' = starts + 1
  /\ subnet' \in Subnets /\ allocated' = Fresh
  /\ todo' = Persisted
  /\ UNCHANGED addr

\* A mutant: recovery takes a zone's address for granted.
RecoverUnmarked(z) ==
  /\ z \in todo
  /\ todo' = todo \ {z}
  /\ UNCHANGED <<subnet, allocated, addr, starts>>

\* recover_zone: an address of this subnet is marked; one of another subnet
\* stays with the zone, which fails (strict) or is degraded (audit).
Recover(z) ==
  /\ z \in todo
  /\ allocated' = mark_allocated(addr[z])
  /\ todo' = todo \ {z}
  /\ UNCHANGED <<subnet, addr, starts>>

PoolNext == Restart \/ \E z \in Zones : allocate(z) \/ Destroy(z) \/ Recover(z)

PoolSpec == PoolInit /\ [][PoolNext]_poolVars

PoolTypeOK ==
  /\ subnet \in Subnets
  /\ allocated \subseteq 0..max_host_offset
  /\ addr \in [Zones -> Addresses \cup {None}]
  /\ todo \subseteq Persisted
  /\ starts \in Nat

\* No two zones ever have the same address, through restarts that change the
\* subnet to one that overlaps, contains or has nothing to do with the old one.
AddressesDistinct ==
  \A y, z \in Zones : y # z /\ addr[y] # None => addr[y] # addr[z]

\* contains() accepts exactly the host addresses of the subnet, without its
\* gateway and its broadcast address; an address below the subnet does not wrap
\* into it.
ContainsExact ==
  \A ip \in Addresses :
    validated(ip) <=> ip > subnet.base + 1 /\ ip < subnet.base + subnet.size - 1

\* Nothing is leaked: every offset taken belongs to a zone, so a full pool means
\* that every host address of the subnet is some zone's.
NothingLeaked ==
  \A offset \in allocated \ Fresh : \E z \in Persisted : addr[z] = offset_to_ip(offset)

\* The address a new zone gets is one contains() accepts.
AllocatesHosts ==
  [][\A z \in Zones : addr[z] = None /\ addr'[z] # None => validated(addr'[z])]_poolVars

\* The offset of every recovered address of this subnet is taken, which is why
\* the lowest free one is nobody's: releasing one zone's address never frees
\* another's, whatever subnet the two come from.
RecoveredTaken ==
  \A z \in Persisted \ todo : validated(addr[z]) => ip_to_offset(addr[z]) \in allocated

\* The pool and the zones agree: addresses are distinct, what recovery found is
\* taken, what is taken is somebody's, and contains() knows its subnet.
PoolExact == AddressesDistinct /\ RecoveredTaken /\ NothingLeaked /\ ContainsExact

\* The inductive invariant: distinctness needs the offsets of recovered zones taken.
PoolInv == PoolTypeOK /\ AddressesDistinct /\ RecoveredTaken
=============================================================================
