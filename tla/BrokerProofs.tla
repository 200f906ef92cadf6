---------------------------- MODULE BrokerProofs ----------------------------
(***************************************************************************)
(* The broker's judgments are faithful: the steps of a judge that work on  *)
(* its pins and its cache, the initial state and the theorem.  The         *)
(* invariant and the other steps are in BrokerSteps.                       *)
(***************************************************************************)
EXTENDS FiniteSetTheorems, BrokerSteps

-----------------------------------------------------------------------------
(* What a step does to a judge.                                            *)

\* A judge that goes on with new pins.
LEMMA GotoEffect ==
  ASSUME judge \in [Judges -> JudgeStates], NEW j \in Judges, NEW pc \in PCs, NEW pins \in Pins,
         JudgeTo(j, pc, pins)
  PROVE  /\ judge' \in [Judges -> JudgeStates] /\ Alone(j)
         /\ judge'[j].pc = pc /\ judge'[j].note = judge[j].note /\ judge'[j].pins = pins
         /\ judge'[j].grant = judge[j].grant
<1> DEFINE r == [judge[j] EXCEPT !.pc = pc, !.pins = pins]
<1>1. judge' = [judge EXCEPT ![j] = r]
  BY Zenon DEF JudgeTo
<1>2. judge[j] \in JudgeStates
  OBVIOUS
<1>3. r \in JudgeStates
  BY <1>2, Zenon DEF JudgeStates, PCs
<1>4. /\ r.pc = pc /\ r.note = judge[j].note /\ r.pins = pins
      /\ r.grant = judge[j].grant
  BY Zenon, <1>2 DEF JudgeStates
<1> HIDE DEF r
<1>5. judge'[j] = r /\ Alone(j) /\ judge' \in [Judges -> JudgeStates]
  BY Zenon, <1>1, <1>3 DEF Alone
<1> QED BY Zenon, <1>4, <1>5

\* A judge that denies.
LEMMA DenyEffect ==
  ASSUME judge \in [Judges -> JudgeStates], NEW j \in Judges, DenyCall(j)
  PROVE  /\ judge' \in [Judges -> JudgeStates] /\ Alone(j)
         /\ judge'[j].pc = "record" /\ judge'[j].note = judge[j].note /\ ~judge'[j].grant
<1> DEFINE r == [IdleJudge EXCEPT !.pc = "record", !.note = judge[j].note]
<1>1. judge' = [judge EXCEPT ![j] = r]
  BY Zenon DEF DenyCall
<1>2. judge[j].note \in Nat
  BY Zenon DEF JudgeStates
<1>3. r \in JudgeStates
  BY <1>2, IdleTypes, Zenon DEF JudgeStates, Busy, Before
<1>4. r.pc = "record" /\ r.note = judge[j].note /\ ~r.grant
  BY IdleFields
<1> HIDE DEF r
<1>5. judge'[j] = r /\ Alone(j) /\ judge' \in [Judges -> JudgeStates]
  BY Zenon, <1>1, <1>3 DEF Alone
<1> QED BY Zenon, <1>4, <1>5

\* A judge that has classified its call, or opened for it.
LEMMA WorkEffect ==
  ASSUME judge \in [Judges -> JudgeStates], NEW j \in Judges
  PROVE  /\ \A path \in Paths :
              judge' = [judge EXCEPT ![j].pc = "open", ![j].path = path] =>
                /\ judge' \in [Judges -> JudgeStates] /\ Alone(j)
                /\ judge'[j].pc = "open" /\ judge'[j].note = judge[j].note
                /\ judge'[j].pins = judge[j].pins /\ judge'[j].path = path
         /\ judge' = [judge EXCEPT ![j].pc = "addfd", ![j].grant = TRUE,
                                   ![j].opened = judge[j].pins.root, ![j].pins = NoPins] =>
                /\ judge' \in [Judges -> JudgeStates] /\ Alone(j)
                /\ judge'[j].pc = "addfd" /\ judge'[j].note = judge[j].note /\ judge'[j].grant
                /\ judge'[j].opened = judge[j].pins.root /\ judge'[j].path = judge[j].path
<1>0. judge[j] \in JudgeStates
  OBVIOUS
<1>1. ASSUME NEW path \in Paths, judge' = [judge EXCEPT ![j].pc = "open", ![j].path = path]
      PROVE  /\ judge' \in [Judges -> JudgeStates] /\ Alone(j)
             /\ judge'[j].pc = "open" /\ judge'[j].note = judge[j].note
             /\ judge'[j].pins = judge[j].pins /\ judge'[j].path = path
  <2> DEFINE r == [judge[j] EXCEPT !.pc = "open", !.path = path]
  <2>1. judge' = [judge EXCEPT ![j] = r]
    BY <1>1, Zenon
  <2>2. r \in JudgeStates
    BY <1>0, Zenon DEF JudgeStates, Busy, Before
  <2>3. r.pc = "open" /\ r.note = judge[j].note /\ r.pins = judge[j].pins /\ r.path = path
    BY Zenon, <1>0 DEF JudgeStates
  <2> HIDE DEF r
  <2>4. judge'[j] = r /\ Alone(j) /\ judge' \in [Judges -> JudgeStates]
    BY Zenon, <2>1, <2>2 DEF Alone
  <2> QED BY Zenon, <2>3, <2>4
<1>2. ASSUME judge' = [judge EXCEPT ![j].pc = "addfd", ![j].grant = TRUE,
                                    ![j].opened = judge[j].pins.root, ![j].pins = NoPins]
      PROVE  /\ judge' \in [Judges -> JudgeStates] /\ Alone(j)
             /\ judge'[j].pc = "addfd" /\ judge'[j].note = judge[j].note /\ judge'[j].grant
             /\ judge'[j].opened = judge[j].pins.root /\ judge'[j].path = judge[j].path
  <2> DEFINE r == [judge[j] EXCEPT !.pc = "addfd", !.grant = TRUE, !.opened = judge[j].pins.root,
                                   !.pins = NoPins]
  <2>1. judge' = [judge EXCEPT ![j] = r]
    BY <1>2, ZenonT(30)
  <2>2. judge[j].pins.root \in Nat
    BY Zenon, <1>0 DEF JudgeStates, Pins
  <2>3. r \in JudgeStates
    BY <1>0, <2>2, IdleTypes, Zenon DEF JudgeStates, Busy, Before
  <2>4. /\ r.pc = "addfd" /\ r.note = judge[j].note /\ r.grant
        /\ r.opened = judge[j].pins.root /\ r.path = judge[j].path
    BY Zenon, <1>0 DEF JudgeStates
  <2> HIDE DEF r
  <2>5. judge'[j] = r /\ Alone(j) /\ judge' \in [Judges -> JudgeStates]
    BY Zenon, <2>1, <2>3 DEF Alone
  <2> QED BY Zenon, <2>4, <2>5
<1> QED BY Zenon, <1>1, <1>2

-----------------------------------------------------------------------------
(* The cache.                                                              *)

\* A set of natural numbers has a smallest element.
LEMMA Smallest ==
  ASSUME NEW S \in SUBSET Nat, S # {}
  PROVE  \E x \in S : \A y \in S : x <= y
<1> DEFINE T == {0 .. x : x \in S}
           R == StrictSubsetOrdering(Nat)
<1>1. T \subseteq FiniteSubsetsOf(Nat)
  <2> SUFFICES ASSUME NEW x \in S PROVE 0 .. x \in FiniteSubsetsOf(Nat)
      OBVIOUS
  <2>1. IsFiniteSet(0 .. x)
    BY FS_Interval
  <2> QED BY <2>1 DEF FiniteSubsetsOf
<1>2. T # {}
  BY Zenon
<1>3. IsWellFoundedOn(R, FiniteSubsetsOf(Nat))
  BY Zenon, FS_StrictSubsetOrderingWellFounded
<1> HIDE DEF T, R
<1>4. PICK m \in T : \A t \in T : ~(<<t, m>> \in R)
  BY Zenon, <1>1, <1>2, <1>3, WFMin
<1>5. PICK x \in S : m = 0 .. x
  BY Zenon, <1>4 DEF T
<1>6. ASSUME NEW y \in S, y < x PROVE FALSE
  <2>1. 0 .. y \in T
    BY Zenon DEF T
  <2>2. <<0 .. y, 0 .. x>> \in R
    BY <1>6 DEF R, StrictSubsetOrdering
  <2> QED BY Zenon, <1>4, <1>5, <2>1, <2>2
<1> QED BY <1>6

\* What is left of a sequence without its first k elements.
LEMMA SuffixFacts ==
  ASSUME NEW S, NEW s \in Seq(S), NEW k \in 0 .. Len(s), NEW t, t = SubSeq(s, k + 1, Len(s))
  PROVE  /\ t \in Seq(S) /\ Len(t) = Len(s) - k
         /\ \A i \in 1 .. Len(s) - k : t[i] = s[k + i]
<1>1. Len(s) \in Nat /\ k \in Nat /\ \A i \in 1 .. Len(s) : s[i] \in S
  OBVIOUS
<1>2. k + 1 \in Int /\ Len(s) \in Int /\ \A i \in k + 1 .. Len(s) : s[i] \in S
  BY <1>1
<1>3. /\ t \in Seq(S) /\ Len(t) = IF k + 1 <= Len(s) THEN Len(s) - (k + 1) + 1 ELSE 0
      /\ \A i \in 1 .. Len(s) - (k + 1) + 1 : t[i] = s[k + 1 + i - 1]
  BY <1>2
<1>4. Len(t) = Len(s) - k
  BY <1>1, <1>3
<1>5. ASSUME NEW i \in 1 .. Len(s) - k PROVE t[i] = s[k + i]
  <2>1. i \in 1 .. Len(s) - (k + 1) + 1 /\ k + 1 + i - 1 = k + i
    BY <1>1
  <2> QED BY <1>3, <2>1, Zenon
<1> QED BY Zenon, <1>3, <1>4, <1>5

\* A cache that was robbed of one pin.
Robbed(c, tid) == [c EXCEPT !.pins = Without(c.pins, tid)]

\* What it still holds, it held before.
LEMMA WithoutFacts ==
  ASSUME NEW c \in Caches, NEW tid, NEW d, d = Robbed(c, tid)
  PROVE  /\ d \in Caches /\ d.order = c.order
         /\ DOMAIN d.pins = DOMAIN c.pins \ {tid}
         /\ \A t \in DOMAIN d.pins : d.pins[t] = c.pins[t]
<1>1. PICK T \in SUBSET Tids : c.pins \in [T -> Pins]
  BY Zenon DEF Caches
<1>2. Without(c.pins, tid) \in [T \ {tid} -> Pins]
  BY Zenon, <1>1 DEF Without
<1>3. d.pins = Without(c.pins, tid) /\ d.order = c.order
  BY Zenon DEF Caches, Robbed
<1>4. Without(c.pins, tid) \in UNION {[U -> Pins] : U \in SUBSET Tids}
  BY Zenon, <1>2
<1>5. d \in Caches
  BY <1>4, Zenon DEF Caches, Robbed
<1> QED BY Zenon, <1>1, <1>2, <1>3, <1>5 DEF Without

\* Eviction makes room for one more pin, and every pin left is in the queue.
LEMMA EvictFacts ==
  ASSUME NEW c \in Caches, NEW room \in Nat, room # 0, IsFiniteSet(DOMAIN c.pins),
         DOMAIN c.pins \subseteq Range(c.order),
         NEW d, d = EvictTo(c, room)
  PROVE  /\ d \in Caches /\ DOMAIN d.pins \subseteq DOMAIN c.pins
         /\ \A t \in DOMAIN d.pins : d.pins[t] = c.pins[t]
         /\ DOMAIN d.pins \subseteq Range(d.order)
         /\ IsFiniteSet(DOMAIN d.pins) /\ Cardinality(DOMAIN d.pins) < room
<1> DEFINE order == c.order
           Gone(k) == {order[i] : i \in 1 .. k}
           Fits(k) == Cardinality(DOMAIN c.pins \ Gone(k)) < room
           ks == {k \in 0 .. Len(order) : Fits(k) \/ k = Len(order)}
           Least(k) == k \in ks /\ \A y \in ks : k <= y
           kk == CHOOSE x \in ks : \A y \in ks : x <= y
<1>1. order \in Seq(Tids) /\ Len(order) \in Nat /\ DOMAIN order = 1 .. Len(order)
  BY DEF Caches
<1>2. ks \in SUBSET Nat /\ Len(order) \in ks
  BY <1>1
<1>3. kk \in ks
  <2> HIDE DEF ks
  <2>1. \E x \in ks : \A y \in ks : x <= y
    BY Zenon, <1>2, Smallest
  <2> QED BY Zenon, <2>1
<1>4. kk \in 0 .. Len(order) /\ (Fits(kk) \/ kk = Len(order))
  <2> HIDE DEF kk
  <2> QED BY Zenon, <1>3
<1>5. d = [pins |-> [t \in DOMAIN c.pins \ Gone(kk) |-> c.pins[t]],
           order |-> SubSeq(order, kk + 1, Len(order))]
  BY Zenon DEF EvictTo
<1> HIDE DEF kk, ks
<1>6. /\ d.pins = [t \in DOMAIN c.pins \ Gone(kk) |-> c.pins[t]]
      /\ d.order = SubSeq(order, kk + 1, Len(order))
  <2> DEFINE P == [t \in DOMAIN c.pins \ Gone(kk) |-> c.pins[t]]
             O == SubSeq(order, kk + 1, Len(order))
  <2>1. d = [pins |-> P, order |-> O]
    BY Zenon, <1>5
  <2> HIDE DEF P, O
  <2>2. d.pins = P /\ d.order = O
    BY <2>1
  <2> QED BY Zenon, <2>2 DEF P, O
<1>7. PICK T \in SUBSET Tids : c.pins \in [T -> Pins]
  BY Zenon DEF Caches
<1>8. d.pins \in [T \ Gone(kk) -> Pins]
  BY Zenon, <1>6, <1>7
<1>9. /\ d.order \in Seq(Tids) /\ Len(d.order) = Len(order) - kk
      /\ \A i \in 1 .. Len(order) - kk : d.order[i] = order[kk + i]
  BY <1>1, <1>4, <1>6, SuffixFacts
<1>10. d \in Caches
  <2>1. d.pins \in UNION {[U -> Pins] : U \in SUBSET Tids}
    BY Zenon, <1>8
  <2>2. d = [pins |-> d.pins, order |-> d.order]
    BY Zenon, <1>5, <1>6
  <2> QED BY <1>9, <2>1, <2>2, Zenon DEF Caches
<1>11. DOMAIN d.pins = DOMAIN c.pins \ Gone(kk) /\ \A t \in DOMAIN d.pins : d.pins[t] = c.pins[t]
  BY Zenon, <1>6
<1>12. ASSUME NEW t \in DOMAIN d.pins PROVE t \in Range(d.order)
  <2>1. PICK i \in DOMAIN order : order[i] = t
    BY Zenon, <1>11 DEF Range
  <2>2. i > kk /\ i \in 1 .. Len(order)
    BY <1>1, <1>4, <1>11, <2>1
  <2>3. i - kk \in 1 .. Len(order) - kk /\ d.order[i - kk] = t
    <3>1. i - kk \in 1 .. Len(order) - kk /\ kk + (i - kk) = i
      BY <1>1, <1>4, <2>2
    <3>2. d.order[i - kk] = order[kk + (i - kk)]
      BY Zenon, <1>9, <3>1
    <3> QED BY <2>1, <3>1, <3>2
  <2>4. i - kk \in DOMAIN d.order
    BY <1>9, <2>3
  <2> QED BY Zenon, <2>3, <2>4 DEF Range
<1>13. IsFiniteSet(DOMAIN d.pins)
  BY Zenon, <1>11, FS_Subset
<1>14. Cardinality(DOMAIN d.pins) < room
  <2>1. CASE Fits(kk)
    BY Zenon, <1>11, <2>1
  <2>2. CASE kk = Len(order)
    <3>1. Gone(kk) = Range(order)
      BY Zenon, <1>1, <2>2 DEF Range
    <3>2. DOMAIN d.pins = {}
      BY Zenon, <1>11, <3>1
    <3> QED BY <3>2, FS_EmptySet
  <2> QED BY Zenon, <1>4, <2>1, <2>2
<1> QED BY Zenon, <1>10, <1>11, <1>12, <1>13, <1>14

\* A cache that one more task was pinned in.
Pinned(c, tid, pins) ==
  [pins |-> [t \in DOMAIN c.pins \cup {tid} |-> IF t = tid THEN pins ELSE c.pins[t]],
   order |-> Append(c.order, tid)]

LEMMA PinnedFacts ==
  ASSUME NEW c \in Caches, NEW tid \in Tids, NEW pins \in Pins, NEW d, d = Pinned(c, tid, pins)
  PROVE  /\ d \in Caches /\ DOMAIN d.pins = DOMAIN c.pins \cup {tid}
         /\ \A t \in DOMAIN d.pins : d.pins[t] = IF t = tid THEN pins ELSE c.pins[t]
         /\ Range(d.order) = Range(c.order) \cup {tid}
<1>1. PICK T \in SUBSET Tids : c.pins \in [T -> Pins]
  BY Zenon DEF Caches
<1>2. c.order \in Seq(Tids)
  BY Zenon DEF Caches
<1>3. /\ d.pins = [t \in DOMAIN c.pins \cup {tid} |-> IF t = tid THEN pins ELSE c.pins[t]]
      /\ d.order = Append(c.order, tid)
  BY Zenon DEF Pinned
<1>4. d.pins \in [T \cup {tid} -> Pins]
  BY Zenon, <1>1, <1>3
<1>5. d.pins \in UNION {[U -> Pins] : U \in SUBSET Tids}
  BY Zenon, <1>4
<1>6. d.order \in Seq(Tids)
  BY <1>2, <1>3
<1>7. d \in Caches
  <2>1. d = [pins |-> d.pins, order |-> d.order]
    BY Zenon, <1>3 DEF Pinned
  <2> QED BY <1>5, <1>6, <2>1, Zenon DEF Caches
<1>8. Range(d.order) = Range(c.order) \cup {tid}
  <2> DEFINE o == c.order  p == d.order
  <2>1. /\ DOMAIN p = 1 .. Len(o) + 1 /\ DOMAIN o = 1 .. Len(o) /\ Len(o) \in Nat
        /\ \A i \in 1 .. Len(o) : p[i] = o[i]
        /\ p[Len(o) + 1] = tid
    BY <1>2, <1>3
  <2> HIDE DEF o, p
  <2>2. ASSUME NEW t \in Range(p) PROVE t \in Range(o) \cup {tid}
    <3>1. PICK i \in 1 .. Len(o) + 1 : p[i] = t
      BY Zenon, <2>1 DEF Range
    <3>2. i \in 1 .. Len(o) \/ i = Len(o) + 1
      BY <2>1
    <3>3. CASE i \in 1 .. Len(o)
      BY <2>1, <3>1, <3>3, Zenon DEF Range
    <3> QED BY Zenon, <2>1, <3>1, <3>2, <3>3
  <2>3. ASSUME NEW t \in Range(o) \cup {tid} PROVE t \in Range(p)
    <3>1. CASE t = tid
      <4>1. Len(o) + 1 \in DOMAIN p
        BY <2>1
      <4> QED BY <2>1, <3>1, <4>1, Zenon DEF Range
    <3>2. CASE t \in Range(o)
      <4>1. PICK i \in 1 .. Len(o) : o[i] = t
        BY Zenon, <2>1, <3>2 DEF Range
      <4>2. i \in DOMAIN p
        BY <2>1
      <4> QED BY <2>1, <4>1, <4>2, Zenon DEF Range
    <3> QED BY Zenon, <3>1, <3>2
  <2> QED BY Zenon, <2>2, <2>3 DEF o, p
<1> QED BY Zenon, <1>3, <1>7, <1>8

-----------------------------------------------------------------------------
(* The steps of a judge that no other part of the broker sees.             *)

\* The share of one judge is a number, whatever is configured.
LEMMA ShareIsNat ==
  ASSUME CacheMax \in Nat, NoFile \in Nat, FD_HEADROOM \in Nat, IsFiniteSet(Judges), Judges # {}
  PROVE  per_thread_cache \in Nat
<1>1. Cardinality(Judges) \in Nat /\ Cardinality(Judges) # 0
  BY Zenon, FS_CardinalityType, FS_EmptySet
<1>2. cache_cap \in Nat
  <2>1. NoFile >= FD_HEADROOM => (NoFile - FD_HEADROOM) \div 3 \in Nat
    BY Z3
  <2> QED BY <2>1 DEF cache_cap, cache_cap_within
<1>3. cache_cap \div Cardinality(Judges) \in Nat
  <2> DEFINE a == cache_cap  b == Cardinality(Judges)
  <2> HIDE DEF a, b
  <2>1. a \in Nat /\ b \in Nat /\ b # 0
    BY Zenon, <1>1, <1>2 DEF a, b
  <2>2. a \div b \in Nat
    BY <2>1, Z3
  <2> QED BY Zenon, <2>2 DEF a, b
<1> QED BY Zenon, <1>2, <1>3 DEF per_thread_cache

\* What one judge's cache guarantees, with room for one more pin.
Sound(c)  == /\ c \in Caches /\ DOMAIN c.pins \subseteq Range(c.order)
             /\ IsFiniteSet(DOMAIN c.pins) /\ Cardinality(DOMAIN c.pins) <= per_thread_cache
Roomy(c) == per_thread_cache # 0 => Cardinality(DOMAIN c.pins) < per_thread_cache

\* Only the cache of judge j changes.
CacheAlone(j) == \A k \in Judges : k # j => cache'[k] = cache[k]

\* for_task without a live pin: whatever stays was there before, and one more fits.
LEMMA ColdEffect ==
  ASSUME per_thread_cache \in Nat, cache \in [Judges -> Caches], NEW j \in Judges, Sound(cache[j]),
         ForTaskCold(j)
  PROVE  /\ cache' \in [Judges -> Caches] /\ CacheAlone(j) /\ Sound(cache'[j]) /\ Roomy(cache'[j])
         /\ DOMAIN cache'[j].pins \subseteq DOMAIN cache[j].pins
         /\ \A t \in DOMAIN cache'[j].pins : cache'[j].pins[t] = cache[j].pins[t]
<1> DEFINE tid == Note(j).tid
           rest == [cache[j] EXCEPT !.pins = Without(cache[j].pins, tid)]
           new == IF per_thread_cache = 0 THEN rest ELSE EvictTo(rest, per_thread_cache)
<1>1. cache' = [cache EXCEPT ![j] = new]
  BY Zenon DEF ForTaskCold
<1>2. cache[j] \in Caches
  OBVIOUS
<1>3. /\ rest \in Caches /\ rest.order = cache[j].order /\ DOMAIN rest.pins = DOMAIN cache[j].pins \ {tid}
      /\ \A t \in DOMAIN rest.pins : rest.pins[t] = cache[j].pins[t]
  <2>1. rest = Robbed(cache[j], tid)
    BY Zenon DEF Robbed
  <2> HIDE DEF tid, rest
  <2> QED BY <1>2, <2>1, WithoutFacts
<1> HIDE DEF rest
<1>4. /\ IsFiniteSet(DOMAIN rest.pins) /\ Cardinality(DOMAIN rest.pins) <= per_thread_cache
      /\ DOMAIN rest.pins \subseteq Range(rest.order)
  <2>1. /\ IsFiniteSet(DOMAIN rest.pins)
        /\ Cardinality(DOMAIN rest.pins) <= Cardinality(DOMAIN cache[j].pins)
    BY Zenon, <1>3, FS_Subset DEF Sound
  <2>2. /\ Cardinality(DOMAIN rest.pins) \in Nat /\ Cardinality(DOMAIN cache[j].pins) \in Nat
    BY Zenon, <2>1, FS_CardinalityType DEF Sound
  <2> QED BY <1>3, <2>1, <2>2 DEF Sound
<1>5. /\ new \in Caches /\ Sound(new) /\ Roomy(new)
      /\ DOMAIN new.pins \subseteq DOMAIN cache[j].pins
      /\ \A t \in DOMAIN new.pins : new.pins[t] = cache[j].pins[t]
  <2>1. CASE per_thread_cache = 0
    <3>1. new = rest
      BY Zenon, <2>1
    <3> HIDE DEF new
    <3> QED BY Zenon, <1>3, <1>4, <2>1, <3>1 DEF Sound, Roomy
  <2>2. CASE per_thread_cache # 0
    <3>1. new = EvictTo(rest, per_thread_cache)
      BY Zenon, <2>2
    <3> HIDE DEF new
    <3>2. /\ new \in Caches /\ DOMAIN new.pins \subseteq DOMAIN rest.pins
          /\ \A t \in DOMAIN new.pins : new.pins[t] = rest.pins[t]
          /\ DOMAIN new.pins \subseteq Range(new.order)
          /\ IsFiniteSet(DOMAIN new.pins) /\ Cardinality(DOMAIN new.pins) < per_thread_cache
      <4>1. per_thread_cache \in Nat
        OBVIOUS
      <4> HIDE DEF per_thread_cache
      <4> QED BY ZenonT(40), <1>3, <1>4, <2>2, <3>1, <4>1, EvictFacts
    <3>3. Cardinality(DOMAIN new.pins) \in Nat
      BY Zenon, <3>2, FS_CardinalityType
    <3>4. Sound(new) /\ Roomy(new)
      BY <3>2, <3>3 DEF Sound, Roomy
    <3> QED BY Zenon, <1>3, <3>2, <3>4
  <2> QED BY Zenon, <2>1, <2>2
<1> HIDE DEF new
<1>6. cache'[j] = new /\ CacheAlone(j) /\ cache' \in [Judges -> Caches]
  BY Zenon, <1>1, <1>5 DEF CacheAlone
<1> QED BY Zenon, <1>5, <1>6

\* A pin that is added to a cache with room.
LEMMA PinEffect ==
  ASSUME per_thread_cache \in Nat, per_thread_cache # 0, NEW c, Sound(c), Roomy(c),
         NEW tid \in Tids, NEW pins \in Pins, NEW new, new = Pinned(c, tid, pins)
  PROVE  /\ new \in Caches /\ Sound(new)
         /\ \A t \in DOMAIN new.pins :
              /\ t = tid => new.pins[t] = pins
              /\ t # tid => t \in DOMAIN c.pins /\ new.pins[t] = c.pins[t]
<1>1. c \in Caches
  BY Zenon DEF Sound
<1>2. /\ new \in Caches /\ DOMAIN new.pins = DOMAIN c.pins \cup {tid}
      /\ \A t \in DOMAIN new.pins : new.pins[t] = IF t = tid THEN pins ELSE c.pins[t]
      /\ Range(new.order) = Range(c.order) \cup {tid}
  BY <1>1, PinnedFacts
<1>3. IsFiniteSet(DOMAIN new.pins) /\ Cardinality(DOMAIN new.pins) <= per_thread_cache
  <2>1. /\ IsFiniteSet(DOMAIN c.pins) /\ Cardinality(DOMAIN c.pins) < per_thread_cache
        /\ Cardinality(DOMAIN c.pins) \in Nat
    BY Zenon, FS_CardinalityType DEF Sound, Roomy
  <2>2. /\ IsFiniteSet(DOMAIN c.pins \cup {tid})
        /\ Cardinality(DOMAIN c.pins \cup {tid}) <= Cardinality(DOMAIN c.pins) + 1
    <3>1. /\ IsFiniteSet(DOMAIN c.pins \cup {tid})
          /\ Cardinality(DOMAIN c.pins \cup {tid}) =
               IF tid \in DOMAIN c.pins THEN Cardinality(DOMAIN c.pins)
               ELSE Cardinality(DOMAIN c.pins) + 1
      BY Zenon, <2>1, FS_AddElement
    <3> QED BY <2>1, <3>1
  <2>3. Cardinality(DOMAIN c.pins \cup {tid}) \in Nat
    BY Zenon, <2>2, FS_CardinalityType
  <2> QED BY <1>2, <2>1, <2>2, <2>3
<1>4. Sound(new)
  BY Zenon, <1>2, <1>3 DEF Sound
<1> QED BY Zenon, <1>2, <1>4

\* open_root: the task is pinned, if caching is on, or the call is denied.
LEMMA RootEffect ==
  ASSUME per_thread_cache \in Nat, cache \in [Judges -> Caches], NEW j \in Judges,
         judge \in [Judges -> JudgeStates], Note(j).tid \in Tids,
         tasks \in [Tids -> [gen: Nat, up: BOOLEAN]],
         Sound(cache[j]), Roomy(cache[j]), OpenRoot(j)
  PROVE  LET pins == [judge[j].pins EXCEPT !.root = tasks[Note(j).tid].gen]
         IN  /\ pins \in Pins /\ pins.pidfd = judge[j].pins.pidfd /\ pins.mem = judge[j].pins.mem
             /\ pins.root = tasks[Note(j).tid].gen
             /\ cache' \in [Judges -> Caches] /\ CacheAlone(j) /\ Sound(cache'[j])
             /\ \A t \in DOMAIN cache'[j].pins :
                  \/ t = Note(j).tid /\ cache'[j].pins[t] = pins
                  \/ t \in DOMAIN cache[j].pins /\ cache'[j].pins[t] = cache[j].pins[t]
<1> DEFINE tid == Note(j).tid
           pins == [judge[j].pins EXCEPT !.root = tasks[tid].gen]
<1>1. judge[j].pins \in Pins /\ tasks[tid].gen \in Nat
  BY Zenon DEF JudgeStates
<1>2. pins \in Pins
  BY <1>1, Zenon DEF Pins
<1>3. /\ pins.pidfd = judge[j].pins.pidfd /\ pins.mem = judge[j].pins.mem
      /\ pins.root = tasks[tid].gen
  BY Zenon, <1>1 DEF Pins
<1>4. \/ UNCHANGED cache
      \/ per_thread_cache # 0 /\ cache' = [cache EXCEPT ![j] = Pinned(cache[j], tid, pins)]
  <2> DEFINE new == [cache EXCEPT ![j] = [pins |-> [t \in DOMAIN @.pins \cup {tid} |->
                                               IF t = tid THEN pins ELSE @.pins[t]],
                                   order |-> Append(@.order, tid)]]
  <2>1. \/ UNCHANGED cache
        \/ per_thread_cache # 0 /\ cache' = new
    <3> HIDE DEF new, pins
    <3> QED BY Zenon DEF OpenRoot, new, pins, tid
  <2>2. new = [cache EXCEPT ![j] = Pinned(cache[j], tid, pins)]
    BY Zenon DEF Pinned
  <2> QED BY <2>1, <2>2, Zenon
<1>5. CASE UNCHANGED cache
  BY Zenon, <1>2, <1>3, <1>5 DEF CacheAlone
<1>6. CASE per_thread_cache # 0 /\ cache' = [cache EXCEPT ![j] = Pinned(cache[j], tid, pins)]
  <2> DEFINE new == Pinned(cache[j], tid, pins)
  <2>1. /\ new \in Caches /\ Sound(new)
        /\ \A t \in DOMAIN new.pins :
             /\ t = tid => new.pins[t] = pins
             /\ t # tid => t \in DOMAIN cache[j].pins /\ new.pins[t] = cache[j].pins[t]
    <3>1. tid \in Tids /\ new = Pinned(cache[j], tid, pins)
      OBVIOUS
    <3> HIDE DEF pins, per_thread_cache, tid, new
    <3> QED BY <1>2, <1>6, <3>1, PinEffect
  <2>2. cache' = [cache EXCEPT ![j] = new]
    BY Zenon, <1>6
  <2> HIDE DEF new
  <2>3. cache'[j] = new /\ CacheAlone(j) /\ cache' \in [Judges -> Caches]
    BY Zenon, <2>1, <2>2 DEF CacheAlone
  <2> HIDE DEF pins, tid
  <2>4. \A t \in DOMAIN cache'[j].pins :
          \/ t = tid /\ cache'[j].pins[t] = pins
          \/ t \in DOMAIN cache[j].pins /\ cache'[j].pins[t] = cache[j].pins[t]
    BY Zenon, <2>1, <2>3
  <2> QED BY <1>2, <1>3, <2>1, <2>3, <2>4, Zenon DEF pins, tid
<1> QED BY Zenon, <1>4, <1>5, <1>6

\* A judge goes on with its call and touches nothing but itself and its cache.
Quiet(j) ==
  /\ judge' \in [Judges -> JudgeStates] /\ Alone(j)
  /\ judge[j].pc \in Before /\ judge'[j].pc \in Before /\ judge'[j].note = judge[j].note
  /\ UNCHANGED <<serve, crun, tasks, notes, log, result>>
  /\ faults' \in [other: Nat, poll: Nat] /\ faults.poll <= faults'.poll

Denied(j) == judge'[j].pc = "record" /\ ~judge'[j].grant

\* Any denial.
LEMMA DenyQuiet ==
  ASSUME BrokerTypes, NEW j \in Judges, judge[j].pc \in Before, DenyCall(j),
         UNCHANGED <<serve, crun, tasks, notes, log, result>>, faults' = faults \/ faults' = Count
  PROVE  Quiet(j) /\ Denied(j)
<1>1. /\ judge' \in [Judges -> JudgeStates] /\ Alone(j)
      /\ judge'[j].pc = "record" /\ judge'[j].note = judge[j].note /\ ~judge'[j].grant
  BY Zenon, DenyEffect DEF BrokerTypes
<1>2. faults' \in [other: Nat, poll: Nat] /\ faults.poll <= faults'.poll
  <2>1. faults \in [other: Nat, poll: Nat]
    BY Zenon DEF BrokerTypes
  <2>2. faults.poll \in Nat
    BY Zenon, <2>1
  <2> QED BY <2>1, <2>2, FaultTypes
<1> QED BY Zenon, <1>1, <1>2 DEF Quiet, Denied, Before

\* for_task: the cached pin is taken, and is the live task's if no poll failed.
LEMMA CachedQuiet ==
  ASSUME BrokerTypes, TakenInv, NEW j \in Judges, ForTaskCached(j)
  PROVE  /\ Quiet(j) /\ UNCHANGED cache /\ Note(j).tid \in DOMAIN Cached(j)
         /\ judge'[j].pc = "id_valid" /\ judge'[j].pins = Cached(j)[Note(j).tid]
         /\ faults'.poll = 0 => AliveAs(Note(j).tid, Cached(j)[Note(j).tid].pidfd)
<1> DEFINE tid == Note(j).tid
<1>1. /\ judge[j].pc = "for_task" /\ tid \in DOMAIN Cached(j)
      /\ UNCHANGED <<serve, crun, tasks, notes, cache, log, result>>
  BY Zenon DEF ForTaskCached
<1>2. PICK answer \in alive(j, tid) \ {"dead"} :
        /\ faults' = [faults EXCEPT !.poll = @ + IF answer = "poll_error" THEN 1 ELSE 0]
        /\ JudgeTo(j, "id_valid", Cached(j)[tid])
  BY Zenon DEF ForTaskCached
<1>3. Cached(j)[tid] \in Pins
  <2>1. cache[j] \in Caches
    BY Zenon DEF BrokerTypes
  <2>2. PICK T \in SUBSET Tids : Cached(j) \in [T -> Pins]
    BY Zenon, <2>1 DEF Caches, Cached
  <2> QED BY Zenon, <1>1, <2>2
<1>4. /\ judge' \in [Judges -> JudgeStates] /\ Alone(j)
      /\ judge'[j].pc = "id_valid" /\ judge'[j].note = judge[j].note /\ judge'[j].pins = Cached(j)[tid]
  <2>1. "id_valid" \in PCs
    BY Zenon DEF PCs, Busy, Before
  <2> HIDE DEF tid
  <2> QED BY <1>2, <1>3, <2>1, GotoEffect DEF BrokerTypes
<1>5. /\ faults' \in [other: Nat, poll: Nat] /\ faults.poll <= faults'.poll
      /\ answer = "poll_error" => faults'.poll # 0
  <2>1. faults \in [other: Nat, poll: Nat] /\ faults.poll \in Nat
    BY Zenon DEF BrokerTypes
  <2>2. CASE answer = "poll_error"
    <3>1. faults' = [faults EXCEPT !.poll = @ + 1]
      BY Zenon, <1>2, <2>2
    <3> QED BY <2>1, <3>1
  <2>3. CASE answer # "poll_error"
    <3>1. faults' = [faults EXCEPT !.poll = @ + 0]
      BY Zenon, <1>2, <2>3
    <3> QED BY <2>1, <2>3, <3>1
  <2> QED BY Zenon, <2>2, <2>3
<1>6. answer # "poll_error" => AliveAs(tid, Cached(j)[tid].pidfd)
  BY <1>2, Zenon DEF alive
<1> QED BY Zenon, <1>1, <1>4, <1>5, <1>6 DEF Quiet, Before

\* for_task without a live pin: the task is pinned now, or the call denied.
LEMMA ColdQuiet ==
  ASSUME BrokerTypes, TakenInv, NEW j \in Judges, ForTaskCold(j)
  PROVE  /\ Quiet(j)
         /\ \/ Denied(j)
            \/ judge'[j].pc = "open_mem" /\ judge'[j].pins.pidfd = tasks[Note(j).tid].gen
<1> DEFINE tid == Note(j).tid
           pins == [NoPins EXCEPT !.pidfd = tasks[tid].gen]
<1>1. judge[j].pc = "for_task" /\ UNCHANGED <<serve, crun, tasks, notes, log, result>>
  BY Zenon DEF ForTaskCold
<1>2. \/ JudgeTo(j, "open_mem", pins) /\ UNCHANGED faults
      \/ DenyCall(j) /\ (faults' = faults \/ faults' = Count)
  <2> HIDE DEF pins
  <2> QED BY Zenon DEF ForTaskCold, pins
<1>3. judge[j].pc \in Before /\ judge[j].pc \in Busy
  BY Zenon, <1>1 DEF Before, Busy
<1>4. CASE DenyCall(j) /\ (faults' = faults \/ faults' = Count)
  BY Zenon, <1>1, <1>3, <1>4, DenyQuiet
<1>5. CASE JudgeTo(j, "open_mem", pins) /\ UNCHANGED faults
  <2>1. tasks[tid].gen \in Nat
    BY Zenon, <1>3, CallTypes
  <2>2. pins \in Pins /\ pins.pidfd = tasks[tid].gen
    BY Zenon, <2>1, IdleTypes DEF NoPins
  <2>3. "open_mem" \in PCs
    BY Zenon DEF PCs, Busy, Before
  <2> HIDE DEF pins
  <2>4. /\ judge' \in [Judges -> JudgeStates] /\ Alone(j)
        /\ judge'[j].pc = "open_mem" /\ judge'[j].note = judge[j].note /\ judge'[j].pins = pins
    BY <1>5, <2>2, <2>3, GotoEffect DEF BrokerTypes
  <2>5. faults' \in [other: Nat, poll: Nat] /\ faults.poll <= faults'.poll
    BY <1>5 DEF BrokerTypes
  <2> QED BY Zenon, <1>1, <1>3, <2>2, <2>4, <2>5 DEF Quiet, Before
<1> QED BY Zenon, <1>2, <1>4, <1>5

\* open_mem reaches whoever has the id now, or the call is denied.
LEMMA MemQuiet ==
  ASSUME BrokerTypes, TakenInv, NEW j \in Judges, OpenMem(j)
  PROVE  /\ Quiet(j) /\ UNCHANGED cache /\ judge[j].pc = "open_mem"
         /\ \/ Denied(j)
            \/ /\ judge'[j].pc = "open_root" /\ judge'[j].pins.pidfd = judge[j].pins.pidfd
               /\ judge'[j].pins.mem = tasks[Note(j).tid].gen
<1> DEFINE tid == Note(j).tid
           pins == [judge[j].pins EXCEPT !.mem = tasks[tid].gen]
<1>1. judge[j].pc = "open_mem" /\ UNCHANGED <<serve, crun, tasks, notes, cache, log, result, faults>>
  BY Zenon DEF OpenMem
<1>2. JudgeTo(j, "open_root", pins) \/ DenyCall(j)
  BY Zenon DEF OpenMem
<1>3. judge[j].pc \in Before /\ judge[j].pc \in Busy
  BY Zenon, <1>1 DEF Before, Busy
<1>4. CASE DenyCall(j)
  BY Zenon, <1>1, <1>3, <1>4, DenyQuiet
<1>5. CASE JudgeTo(j, "open_root", pins)
  <2>1. tasks[tid].gen \in Nat /\ judge[j].pins \in Pins
    BY Zenon, <1>3, CallTypes
  <2>2. pins \in Pins
    BY <2>1, Zenon DEF Pins
  <2>3. pins.pidfd = judge[j].pins.pidfd /\ pins.mem = tasks[tid].gen
    BY Zenon, <2>1 DEF Pins
  <2>4. "open_root" \in PCs
    BY Zenon DEF PCs, Busy, Before
  <2> HIDE DEF pins
  <2>5. /\ judge' \in [Judges -> JudgeStates] /\ Alone(j)
        /\ judge'[j].pc = "open_root" /\ judge'[j].note = judge[j].note /\ judge'[j].pins = pins
    BY Zenon, <1>5, <2>2, <2>4, GotoEffect DEF BrokerTypes
  <2>6. faults' \in [other: Nat, poll: Nat] /\ faults.poll <= faults'.poll
    BY <1>1 DEF BrokerTypes
  <2> QED BY Zenon, <1>1, <1>3, <2>3, <2>5, <2>6 DEF Quiet, Before
<1> QED BY Zenon, <1>2, <1>4, <1>5

\* open_root likewise; the pins are then complete.
LEMMA RootQuiet ==
  ASSUME BrokerTypes, TakenInv, NEW j \in Judges, OpenRoot(j)
  PROVE  /\ Quiet(j) /\ judge[j].pc = "open_root"
         /\ \/ Denied(j)
            \/ /\ judge'[j].pc = "id_valid"
               /\ judge'[j].pins = [judge[j].pins EXCEPT !.root = tasks[Note(j).tid].gen]
<1> DEFINE tid == Note(j).tid
           pins == [judge[j].pins EXCEPT !.root = tasks[tid].gen]
<1>1. judge[j].pc = "open_root" /\ UNCHANGED <<serve, crun, tasks, notes, log, result, faults>>
  BY Zenon DEF OpenRoot
<1>2. JudgeTo(j, "id_valid", pins) \/ DenyCall(j)
  <2> HIDE DEF pins
  <2> QED BY Zenon DEF OpenRoot, pins
<1>3. judge[j].pc \in Before /\ judge[j].pc \in Busy
  BY Zenon, <1>1 DEF Before, Busy
<1>4. CASE DenyCall(j)
  BY Zenon, <1>1, <1>3, <1>4, DenyQuiet
<1>5. CASE JudgeTo(j, "id_valid", pins)
  <2>1. tasks[tid].gen \in Nat /\ judge[j].pins \in Pins
    BY Zenon, <1>3, CallTypes
  <2>2. pins \in Pins
    BY <2>1, Zenon DEF Pins
  <2>4. "id_valid" \in PCs
    BY Zenon DEF PCs, Busy, Before
  <2>6. faults' \in [other: Nat, poll: Nat] /\ faults.poll <= faults'.poll
    BY <1>1 DEF BrokerTypes
  <2>7. SUFFICES Quiet(j) /\ judge'[j].pc = "id_valid" /\ judge'[j].pins = pins
    BY Zenon, <1>1
  <2> HIDE DEF pins
  <2>5. /\ judge' \in [Judges -> JudgeStates] /\ Alone(j)
        /\ judge'[j].pc = "id_valid" /\ judge'[j].note = judge[j].note /\ judge'[j].pins = pins
    BY <1>5, <2>2, <2>4, GotoEffect DEF BrokerTypes
  <2> QED BY Zenon, <1>1, <1>3, <2>5, <2>6 DEF Quiet, Before
<1> QED BY Zenon, <1>2, <1>4, <1>5

\* The steps after the pins: each goes on with what it has, or denies.
LEMMA LateQuiet ==
  ASSUME BrokerTypes, TakenInv, NEW j \in Judges,
         IdValid(j) \/ ReadAndClassify(j) \/ OpenForTarget(j) \/ JudgePanics(j) \/ AddFd(j)
  PROVE  /\ Quiet(j) /\ UNCHANGED cache
         /\ \/ Denied(j)
            \/ /\ judge[j].pc = "id_valid" /\ judge'[j].pc = "read" /\ Valid(judge[j].note)
               /\ judge'[j].pins = judge[j].pins
            \/ /\ judge[j].pc = "read" /\ judge'[j].pc = "open" /\ Note(j).ok
               /\ judge'[j].pins = judge[j].pins /\ judge'[j].path = Note(j).path
            \/ /\ judge[j].pc = "open" /\ judge'[j].pc = "addfd"
               /\ judge'[j].opened = judge[j].pins.root /\ judge'[j].path = judge[j].path
            \/ /\ judge[j].pc = "addfd" /\ judge'[j].pc = "record" /\ judge'[j].grant = judge[j].grant
               /\ judge'[j].opened = judge[j].opened /\ judge'[j].path = judge[j].path
<1>1. /\ UNCHANGED <<serve, crun, tasks, notes, cache, log, result>>
      /\ judge[j].pc \in Before /\ judge[j].pc \in Busy /\ (faults' = faults \/ faults' = Count)
  BY Zenon DEF IdValid, ReadAndClassify, OpenForTarget, JudgePanics, AddFd, Before, Busy
<1>2. faults \in [other: Nat, poll: Nat] /\ judge \in [Judges -> JudgeStates]
  BY Zenon DEF BrokerTypes
<1>3. faults' \in [other: Nat, poll: Nat] /\ faults.poll <= faults'.poll
  <2>1. faults.poll \in Nat
    BY Zenon, <1>2
  <2> QED BY <1>1, <1>2, <2>1, FaultTypes
<1>4. \/ DenyCall(j)
      \/ judge[j].pc = "id_valid" /\ Valid(judge[j].note) /\ Step(j, "read")
      \/ /\ judge[j].pc = "read" /\ Note(j).ok
         /\ judge' = [judge EXCEPT ![j].pc = "open", ![j].path = Note(j).path]
      \/ /\ judge[j].pc = "open"
         /\ judge' = [judge EXCEPT ![j].pc = "addfd", ![j].grant = TRUE,
                                   ![j].opened = judge[j].pins.root, ![j].pins = NoPins]
      \/ judge[j].pc = "addfd" /\ Step(j, "record")
  BY Zenon DEF IdValid, ReadAndClassify, OpenForTarget, JudgePanics, AddFd
<1>5. "read" \in PCs /\ "record" \in PCs
  BY Zenon DEF PCs, Busy, Before
<1>6. CASE DenyCall(j)
  BY Zenon, <1>1, <1>6, DenyQuiet
<1>7. CASE judge[j].pc = "id_valid" /\ Valid(judge[j].note) /\ Step(j, "read")
  <2>1. /\ judge' \in [Judges -> JudgeStates] /\ Alone(j) /\ judge'[j].pc = "read"
        /\ judge'[j].note = judge[j].note /\ judge'[j].pins = judge[j].pins
    BY Zenon, <1>2, <1>5, <1>7, StepEffect
  <2>2. Quiet(j)
    BY Zenon, <1>1, <1>3, <2>1 DEF Quiet, Before
  <2> QED BY Zenon, <1>1, <1>7, <2>1, <2>2
<1>8. CASE /\ judge[j].pc = "read" /\ Note(j).ok
           /\ judge' = [judge EXCEPT ![j].pc = "open", ![j].path = Note(j).path]
  <2>0. Note(j).path \in Paths
    BY Zenon, <1>1, CallTypes
  <2>1. /\ judge' \in [Judges -> JudgeStates] /\ Alone(j) /\ judge'[j].pc = "open"
        /\ judge'[j].note = judge[j].note /\ judge'[j].pins = judge[j].pins
        /\ judge'[j].path = Note(j).path
    BY ZenonT(30), <1>2, <1>8, <2>0, WorkEffect
  <2>2. Quiet(j)
    BY Zenon, <1>1, <1>3, <2>1 DEF Quiet, Before
  <2> QED BY Zenon, <1>1, <1>8, <2>1, <2>2
<1>9. CASE /\ judge[j].pc = "open"
           /\ judge' = [judge EXCEPT ![j].pc = "addfd", ![j].grant = TRUE,
                                     ![j].opened = judge[j].pins.root, ![j].pins = NoPins]
  <2>1. /\ judge' \in [Judges -> JudgeStates] /\ Alone(j) /\ judge'[j].pc = "addfd"
        /\ judge'[j].note = judge[j].note /\ judge'[j].opened = judge[j].pins.root
        /\ judge'[j].path = judge[j].path
    BY <1>2, <1>9, WorkEffect, Zenon
  <2>2. Quiet(j)
    BY Zenon, <1>1, <1>3, <2>1 DEF Quiet, Before
  <2> QED BY Zenon, <1>1, <1>9, <2>1, <2>2
<1>10. CASE judge[j].pc = "addfd" /\ Step(j, "record")
  <2>1. /\ judge' \in [Judges -> JudgeStates] /\ Alone(j) /\ judge'[j].pc = "record"
        /\ judge'[j].note = judge[j].note /\ judge'[j].grant = judge[j].grant
        /\ judge'[j].opened = judge[j].opened /\ judge'[j].path = judge[j].path
    BY Zenon, <1>2, <1>5, <1>10, StepEffect
  <2>2. Quiet(j)
    BY Zenon, <1>1, <1>3, <2>1 DEF Quiet, Before
  <2> QED BY Zenon, <1>1, <1>10, <2>1, <2>2
<1> QED BY <1>4, <1>6, <1>7, <1>8, <1>9, <1>10

-----------------------------------------------------------------------------
(* What a step leaves alone.                                               *)

\* A quiet step of a judge, for everything but that judge's own pins and cache.
LEMMA QuietKeeps ==
  ASSUME BrokerInv, NEW j \in Judges, Quiet(j)
  PROVE  /\ HandoffInv' /\ TakenInv' /\ OrderInv' /\ LinesInv' /\ AnswerInv' /\ CoverInv' /\ ResultInv'
         /\ faults'.poll = 0 => faults.poll = 0 /\ InjectedAnswersTheCall'
         /\ \A k \in Judges \ {j} : (PinInv(k) => PinInv(k)') /\ (CallerInv(k) => CallerInv(k)')
         /\ Note(j)' = Note(j) /\ serve = "pool" /\ UNCHANGED tasks
         /\ cache' \in [Judges -> Caches] => BrokerTypes'
<1> /\ BrokerTypes /\ HandoffInv /\ TakenInv /\ CallersInv /\ OrderInv /\ LinesInv /\ AnswerInv
    /\ CoverInv /\ ResultInv
  BY Zenon DEF BrokerInv
<1>1. /\ judge' \in [Judges -> JudgeStates] /\ Alone(j)
      /\ judge[j].pc \in Before /\ judge'[j].pc \in Before /\ judge'[j].note = judge[j].note
      /\ UNCHANGED <<serve, crun, tasks, notes, log, result>>
      /\ faults' \in [other: Nat, poll: Nat] /\ faults.poll <= faults'.poll
  BY Zenon DEF Quiet
<1>2. tasks' \in [Tids -> [gen: Nat, up: BOOLEAN]] /\ Grow
  BY <1>1 DEF BrokerTypes, Grow
<1>3. AllKept /\ Carry
  BY Zenon, <1>1 DEF AllKept, Kept, Carry, Alone
<1>4. TakenInv' /\ LinesInv' /\ AnswerInv' /\ CoverInv'
  BY Zenon, <1>1, <1>2, <1>3, CarryKeeps
<1>5. serve = "pool"
  BY Zenon, <1>1 DEF HandoffInv, Before
<1>6. HandoffInv' /\ ResultInv' /\ OrderInv'
  BY Zenon, <1>1, <1>5 DEF HandoffInv, ResultInv, OrderInv, LogInOrder
<1>7. faults'.poll = 0 => faults.poll = 0 /\ InjectedAnswersTheCall'
  <2>1. faults.poll \in Nat /\ faults'.poll \in Nat
    BY Zenon, <1>1 DEF BrokerTypes
  <2> QED BY <1>1, <2>1 DEF CallersInv, InjectedAnswersTheCall
<1>8. ASSUME NEW k \in Judges \ {j} PROVE (PinInv(k) => PinInv(k)') /\ (CallerInv(k) => CallerInv(k)')
  <2>1. judge'[k] = judge[k]
    BY Zenon, <1>1 DEF Alone
  <2> QED BY Zenon, <1>2, <1>3, <2>1, JudgeKept
<1>9. Note(j)' = Note(j)
  BY Zenon, <1>1 DEF Note
<1>10. cache' \in [Judges -> Caches] => BrokerTypes'
  BY Zenon, <1>1, <1>2 DEF BrokerTypes
<1> QED BY Zenon, <1>1, <1>4, <1>5, <1>6, <1>7, <1>8, <1>9, <1>10

\* The cache of a judge in the terms of the cache lemmas.
LEMMA CacheSound ==
  ASSUME BrokerTypes, CacheInv
  PROVE  \A j \in Judges : /\ Sound(cache[j])
                           /\ judge[j].pc \in {"open_mem", "open_root"} => Roomy(cache[j])
  BY Zenon DEF BrokerTypes, CacheInv, Sound, Roomy, Cached

\* A quiet step that leaves the caches alone and does not go on to need room.
LEMMA SameCache ==
  ASSUME BrokerInv, NEW j \in Judges, Quiet(j), UNCHANGED cache,
         judge'[j].pc \in {"open_mem", "open_root"} => judge[j].pc \in {"open_mem", "open_root"}
  PROVE  /\ CacheInv' /\ BrokerTypes'
         /\ (\A k \in Judges : PinInv(k)') => PinsInv'
<1>1. BrokerTypes /\ CacheInv /\ PinsInv /\ Alone(j) /\ UNCHANGED tasks
  BY Zenon DEF BrokerInv, Quiet
<1>2. CacheInv'
  <2>1. \A k \in Judges : judge'[k].pc \in {"open_mem", "open_root"} => judge[k].pc \in {"open_mem", "open_root"}
    BY Zenon, <1>1 DEF Alone
  <2> QED BY Zenon, <1>1, <2>1 DEF CacheInv, Cached
<1>3. BrokerTypes'
  BY Zenon, <1>1, QuietKeeps DEF BrokerTypes
<1>4. \A k \in Judges : \A tid \in DOMAIN Cached(k)' : InOrder(Cached(k)[tid], tasks[tid].gen)'
  BY Zenon, <1>1 DEF PinsInv, Cached, InOrder
<1> QED BY Zenon, <1>2, <1>3, <1>4 DEF PinsInv

\* A denial asks nothing of pins.
LEMMA DeniedKeeps ==
  ASSUME NEW j \in Judges, Denied(j)
  PROVE  PinInv(j)' /\ CallerInv(j)'
  BY Zenon DEF Denied, PinInv, CallerInv

\* The invariant is complete once the judge that moved keeps its part.
LEMMA QuietDone ==
  ASSUME BrokerInv, NEW j \in Judges, Quiet(j), BrokerTypes', CacheInv',
         (\A k \in Judges : PinInv(k)') => PinsInv',
         PinInv(j)', faults'.poll = 0 => CallerInv(j)'
  PROVE  BrokerInv'
<1>0. PinsInv /\ CallersInv
  BY Zenon DEF BrokerInv
<1>1. \A k \in Judges : PinInv(k)'
  BY Zenon, <1>0, QuietKeeps DEF PinsInv
<1>2. CallersInv'
  <2>1. SUFFICES ASSUME faults'.poll = 0 PROVE (\A k \in Judges : CallerInv(k)') /\ InjectedAnswersTheCall'
    BY Zenon DEF CallersInv
  <2>2. faults.poll = 0 /\ InjectedAnswersTheCall'
    BY Zenon, <2>1, QuietKeeps
  <2>3. \A k \in Judges : CallerInv(k)
    BY Zenon, <1>0, <2>2 DEF CallersInv
  <2> QED BY Zenon, <2>1, <2>2, <2>3, QuietKeeps
<1>3. PinsInv'
  BY Zenon, <1>1
<1>4. HandoffInv' /\ TakenInv' /\ OrderInv' /\ LinesInv' /\ AnswerInv' /\ CoverInv' /\ ResultInv'
  BY Zenon, QuietKeeps
<1> QED BY Zenon, <1>2, <1>3, <1>4 DEF BrokerInv

\* for_task, with a cached pin.
LEMMA CachedStep ==
  ASSUME BrokerInv, NEW j \in Judges, ForTaskCached(j)
  PROVE  BrokerInv'
<1> /\ BrokerTypes /\ TakenInv /\ PinsInv /\ CallersInv
  BY Zenon DEF BrokerInv
<1> DEFINE tid == Note(j).tid
<1>1. /\ Quiet(j) /\ UNCHANGED cache /\ tid \in DOMAIN Cached(j)
      /\ judge'[j].pc = "id_valid" /\ judge'[j].pins = Cached(j)[tid]
      /\ faults'.poll = 0 => AliveAs(tid, Cached(j)[tid].pidfd)
  BY Zenon, CachedQuiet
<1>2. /\ CacheInv' /\ BrokerTypes'
      /\ (\A k \in Judges : PinInv(k)') => PinsInv'
  BY Zenon, <1>1, SameCache
<1>3. Note(j)' = Note(j) /\ UNCHANGED tasks
  BY Zenon, <1>1, QuietKeeps
<1>4. PinInv(j)'
  <2>1. InOrder(Cached(j)[tid], tasks[tid].gen)
    BY Zenon, <1>1 DEF PinsInv
  <2> QED BY Zenon, <1>1, <1>3, <2>1 DEF PinInv, InOrder
<1>5. faults'.poll = 0 => CallerInv(j)'
  <2>1. judge[j].pc \in Busy
    BY Zenon, <1>1 DEF Quiet, Busy
  <2>2. Note(j).gen <= tasks[tid].gen
    BY Zenon, <2>1, CallTypes
  <2> QED BY Zenon, <1>1, <1>3, <2>2 DEF CallerInv, AliveAs
<1> QED BY Zenon, <1>1, <1>2, <1>4, <1>5, QuietDone

\* for_task without a live pin.
LEMMA ColdStep ==
  ASSUME BrokerInv, per_thread_cache \in Nat, NEW j \in Judges, ForTaskCold(j)
  PROVE  BrokerInv'
<1> /\ BrokerTypes /\ TakenInv /\ PinsInv /\ CacheInv
  BY Zenon DEF BrokerInv
<1>1. /\ Quiet(j)
      /\ \/ Denied(j)
         \/ judge'[j].pc = "open_mem" /\ judge'[j].pins.pidfd = tasks[Note(j).tid].gen
  BY Zenon, ColdQuiet
<1>2. \A k \in Judges : /\ Sound(cache[k])
                        /\ judge[k].pc \in {"open_mem", "open_root"} => Roomy(cache[k])
  BY Zenon, CacheSound
<1>3. /\ cache' \in [Judges -> Caches] /\ CacheAlone(j) /\ Sound(cache'[j]) /\ Roomy(cache'[j])
      /\ DOMAIN cache'[j].pins \subseteq DOMAIN cache[j].pins
      /\ \A t \in DOMAIN cache'[j].pins : cache'[j].pins[t] = cache[j].pins[t]
  <2>1. cache \in [Judges -> Caches]
    BY Zenon DEF BrokerTypes
  <2> QED BY Zenon, <1>2, <2>1, ColdEffect
<1>4. BrokerTypes'
  BY Zenon, <1>1, <1>3, QuietKeeps
<1>5. CacheInv'
  <2>1. ASSUME NEW k \in Judges
        PROVE  Sound(cache[k])' /\ (judge'[k].pc \in {"open_mem", "open_root"} => Roomy(cache[k])')
    <3>1. CASE k = j
      BY Zenon, <1>3, <3>1 DEF Sound, Roomy
    <3>2. CASE k # j
      <4>1. cache'[k] = cache[k] /\ judge'[k] = judge[k]
        BY Zenon, <1>1, <1>3, <3>2 DEF CacheAlone, Quiet, Alone
      <4> QED BY Zenon, <1>2, <4>1 DEF Sound, Roomy
    <3> QED BY Zenon, <3>1, <3>2
  <2>2. CacheInv'
    BY Zenon, <2>1 DEF CacheInv, Sound, Roomy, Cached
  <2> QED BY Zenon, <2>2
<1>6. Note(j)' = Note(j) /\ UNCHANGED tasks
  BY Zenon, <1>1, QuietKeeps
<1>7. \A k \in Judges : \A t \in DOMAIN Cached(k)' : InOrder(Cached(k)[t], tasks[t].gen)'
  <2>1. ASSUME NEW k \in Judges, NEW t \in DOMAIN Cached(k)'
        PROVE  t \in DOMAIN Cached(k) /\ Cached(k)'[t] = Cached(k)[t]
    <3>1. CASE k = j
      BY Zenon, <1>3, <3>1 DEF Cached
    <3>2. CASE k # j
      BY Zenon, <1>3, <3>2 DEF CacheAlone, Cached
    <3> QED BY Zenon, <3>1, <3>2
  <2> QED BY Zenon, <1>6, <2>1 DEF PinsInv, InOrder
<1>8. PinInv(j)' /\ CallerInv(j)'
  <2>1. CASE Denied(j)
    BY Zenon, <2>1, DeniedKeeps
  <2>2. CASE judge'[j].pc = "open_mem" /\ judge'[j].pins.pidfd = tasks[Note(j).tid].gen
    <3>1. judge[j].pc \in Busy
      BY Zenon, <1>1 DEF Quiet, Busy
    <3>2. Note(j).gen <= tasks[Note(j).tid].gen /\ tasks[Note(j).tid].gen \in Nat
      BY Zenon, <3>1, CallTypes
    <3> QED BY <1>6, <2>2, <3>2 DEF PinInv, CallerInv
  <2> QED BY Zenon, <1>1, <2>1, <2>2
<1>9. (\A k \in Judges : PinInv(k)') => PinsInv'
  BY Zenon, <1>7 DEF PinsInv
<1> QED BY Zenon, <1>1, <1>4, <1>5, <1>8, <1>9, QuietDone

\* open_mem.
LEMMA MemStep ==
  ASSUME BrokerInv, NEW j \in Judges, OpenMem(j)
  PROVE  BrokerInv'
<1> /\ BrokerTypes /\ TakenInv /\ PinsInv
  BY Zenon DEF BrokerInv
<1>1. /\ Quiet(j) /\ UNCHANGED cache /\ judge[j].pc = "open_mem"
      /\ \/ Denied(j)
         \/ /\ judge'[j].pc = "open_root" /\ judge'[j].pins.pidfd = judge[j].pins.pidfd
            /\ judge'[j].pins.mem = tasks[Note(j).tid].gen
  BY Zenon, MemQuiet
<1>2. /\ CacheInv' /\ BrokerTypes'
      /\ (\A k \in Judges : PinInv(k)') => PinsInv'
  BY Zenon, <1>1, SameCache
<1>3. Note(j)' = Note(j) /\ UNCHANGED tasks
  BY Zenon, <1>1, QuietKeeps
<1>4. PinInv(j)' /\ CallerInv(j)'
  <2>1. CASE Denied(j)
    BY Zenon, <2>1, DeniedKeeps
  <2>2. CASE /\ judge'[j].pc = "open_root" /\ judge'[j].pins.pidfd = judge[j].pins.pidfd
             /\ judge'[j].pins.mem = tasks[Note(j).tid].gen
    <3>1. judge[j].pc \in Busy
      BY Zenon, <1>1 DEF Busy, Before
    <3>2. tasks[Note(j).tid].gen \in Nat
      BY Zenon, <3>1, CallTypes
    <3>3. Note(j).gen <= judge[j].pins.pidfd /\ judge[j].pins.pidfd <= tasks[Note(j).tid].gen
      BY Zenon, <1>1 DEF PinsInv, PinInv
    <3> QED BY <1>3, <2>2, <3>2, <3>3 DEF PinInv, CallerInv
  <2> QED BY Zenon, <1>1, <2>1, <2>2
<1> QED BY Zenon, <1>1, <1>2, <1>4, QuietDone

\* open_root.
LEMMA RootStep ==
  ASSUME BrokerInv, per_thread_cache \in Nat, NEW j \in Judges, OpenRoot(j)
  PROVE  BrokerInv'
<1> /\ BrokerTypes /\ TakenInv /\ PinsInv /\ CacheInv
  BY Zenon DEF BrokerInv
<1> DEFINE tid == Note(j).tid
           pins == [judge[j].pins EXCEPT !.root = tasks[tid].gen]
<1>1. Quiet(j) /\ judge[j].pc = "open_root" /\ (Denied(j) \/ (judge'[j].pc = "id_valid" /\ judge'[j].pins = pins))
  BY Zenon, RootQuiet
<1>2. \A k \in Judges : /\ Sound(cache[k])
                        /\ judge[k].pc \in {"open_mem", "open_root"} => Roomy(cache[k])
  BY Zenon, CacheSound
<1>3. /\ judge[j].pc \in Busy /\ tid \in Tids /\ tasks[tid].gen \in Nat /\ judge[j].pins.pidfd \in Nat
      /\ judge[j].pins.mem \in Nat
  <2>1. judge[j].pc \in Busy
    BY Zenon, <1>1 DEF Busy, Before
  <2> QED BY Zenon, <2>1, CallTypes
<1>4. /\ pins \in Pins /\ pins.pidfd = judge[j].pins.pidfd /\ pins.mem = judge[j].pins.mem
      /\ pins.root = tasks[tid].gen
      /\ cache' \in [Judges -> Caches] /\ CacheAlone(j) /\ Sound(cache'[j])
      /\ \A t \in DOMAIN cache'[j].pins :
           \/ t = tid /\ cache'[j].pins[t] = pins
           \/ t \in DOMAIN cache[j].pins /\ cache'[j].pins[t] = cache[j].pins[t]
  <2>1. /\ cache \in [Judges -> Caches] /\ judge \in [Judges -> JudgeStates]
        /\ tasks \in [Tids -> [gen: Nat, up: BOOLEAN]] /\ Sound(cache[j]) /\ Roomy(cache[j])
    BY Zenon, <1>1, <1>2 DEF BrokerTypes
  <2> QED BY <1>3, <2>1, RootEffect, Zenon
<1>5. Note(j)' = Note(j) /\ UNCHANGED tasks /\ BrokerTypes'
  BY Zenon, <1>1, <1>4, QuietKeeps
<1> HIDE DEF pins
<1>6. /\ Note(j).gen <= pins.pidfd /\ InOrder(pins, tasks[tid].gen)
  <2>1. /\ Note(j).gen <= judge[j].pins.pidfd /\ judge[j].pins.pidfd <= judge[j].pins.mem
        /\ judge[j].pins.mem <= tasks[tid].gen
    BY Zenon, <1>1 DEF PinsInv, PinInv
  <2> QED BY <1>3, <1>4, <2>1 DEF InOrder
<1>7. CacheInv'
  <2>1. ASSUME NEW k \in Judges
        PROVE  Sound(cache[k])' /\ (judge'[k].pc \in {"open_mem", "open_root"} => Roomy(cache[k])')
    <3>1. CASE k = j
      BY Zenon, <1>1, <1>4, <3>1 DEF Sound, Roomy, Denied
    <3>2. CASE k # j
      <4>1. cache'[k] = cache[k] /\ judge'[k] = judge[k]
        BY Zenon, <1>1, <1>4, <3>2 DEF CacheAlone, Quiet, Alone
      <4> QED BY Zenon, <1>2, <4>1 DEF Sound, Roomy
    <3> QED BY Zenon, <3>1, <3>2
  <2> QED BY Zenon, <2>1 DEF CacheInv, Sound, Roomy, Cached
<1>8. \A k \in Judges : \A t \in DOMAIN Cached(k)' : InOrder(Cached(k)[t], tasks[t].gen)'
  <2>1. ASSUME NEW k \in Judges, NEW t \in DOMAIN Cached(k)' PROVE InOrder(Cached(k)[t], tasks[t].gen)'
    <3>1. CASE k = j /\ t = tid /\ cache'[j].pins[t] = pins
      BY Zenon, <1>5, <1>6, <3>1 DEF Cached, InOrder
    <3>2. CASE k = j /\ t \in DOMAIN cache[j].pins /\ cache'[j].pins[t] = cache[j].pins[t]
      BY Zenon, <1>5, <3>2 DEF Cached, InOrder, PinsInv
    <3>3. CASE k # j
      BY Zenon, <1>4, <1>5, <3>3 DEF CacheAlone, Cached, InOrder, PinsInv
    <3>4. t \in DOMAIN cache'[k].pins
      BY Zenon DEF Cached
    <3> QED BY Zenon, <1>4, <3>1, <3>2, <3>3, <3>4
  <2> QED BY Zenon, <2>1
<1>9. PinInv(j)' /\ CallerInv(j)'
  <2>1. CASE Denied(j)
    BY Zenon, <2>1, DeniedKeeps
  <2>2. CASE judge'[j].pc = "id_valid" /\ judge'[j].pins = pins
    BY Zenon, <1>5, <1>6, <2>2 DEF PinInv, CallerInv, InOrder
  <2> QED BY Zenon, <1>1, <2>1, <2>2
<1>10. (\A k \in Judges : PinInv(k)') => PinsInv'
  BY Zenon, <1>8 DEF PinsInv
<1> QED BY Zenon, <1>1, <1>5, <1>7, <1>9, <1>10, QuietDone

\* id_valid: the call is still pending, so the id was never reused since.
LEMMA ValidPins ==
  ASSUME BrokerTypes, TakenInv, NEW j \in Judges, judge[j].pc = "id_valid", PinInv(j), CallerInv(j),
         Valid(judge[j].note)
  PROVE  judge[j].pins = [pidfd |-> Note(j).gen, mem |-> Note(j).gen, root |-> Note(j).gen]
<1> DEFINE p == judge[j].pins  g == Note(j).gen
<1>1. judge[j].pc \in Busy
  BY Zenon DEF Busy, Before
<1>2. p \in Pins /\ p.pidfd \in Nat /\ p.mem \in Nat /\ p.root \in Nat /\ g \in Nat
  BY Zenon, <1>1, CallTypes
<1>3. g <= p.pidfd /\ p.pidfd <= p.mem /\ p.mem <= p.root /\ p.root <= tasks[Note(j).tid].gen
  BY Zenon DEF PinInv, CallerInv, InOrder
<1>4. tasks[Note(j).tid].gen = g
  BY Zenon DEF Valid, AliveAs, Note
<1> HIDE DEF p, g
<1>5. p.pidfd = g /\ p.mem = g /\ p.root = g
  BY <1>2, <1>3, <1>4
<1>6. p = [pidfd |-> p.pidfd, mem |-> p.mem, root |-> p.root]
  BY <1>2, Zenon DEF Pins
<1> QED BY Zenon, <1>5, <1>6 DEF p, g

\* The steps after the pins.
LEMMA LateStep ==
  ASSUME BrokerInv, NEW j \in Judges,
         IdValid(j) \/ ReadAndClassify(j) \/ OpenForTarget(j) \/ JudgePanics(j) \/ AddFd(j)
  PROVE  BrokerInv'
<1> /\ BrokerTypes /\ TakenInv /\ PinsInv /\ CallersInv
  BY Zenon DEF BrokerInv
<1>1. /\ Quiet(j) /\ UNCHANGED cache
      /\ \/ Denied(j)
         \/ /\ judge[j].pc = "id_valid" /\ judge'[j].pc = "read" /\ Valid(judge[j].note)
            /\ judge'[j].pins = judge[j].pins
         \/ /\ judge[j].pc = "read" /\ judge'[j].pc = "open" /\ Note(j).ok
            /\ judge'[j].pins = judge[j].pins /\ judge'[j].path = Note(j).path
         \/ /\ judge[j].pc = "open" /\ judge'[j].pc = "addfd"
            /\ judge'[j].opened = judge[j].pins.root /\ judge'[j].path = judge[j].path
         \/ /\ judge[j].pc = "addfd" /\ judge'[j].pc = "record" /\ judge'[j].grant = judge[j].grant
            /\ judge'[j].opened = judge[j].opened /\ judge'[j].path = judge[j].path
  BY Zenon, LateQuiet
<1>2. judge'[j].pc \in {"read", "open", "addfd", "record"}
  BY Zenon, <1>1 DEF Denied
<1>3. /\ CacheInv' /\ BrokerTypes'
      /\ (\A k \in Judges : PinInv(k)') => PinsInv'
  BY Zenon, <1>1, <1>2, SameCache
<1>4. Note(j)' = Note(j) /\ (faults'.poll = 0 => faults.poll = 0)
  BY Zenon, <1>1, QuietKeeps
<1>5. PinInv(j)'
  BY Zenon, <1>2 DEF PinInv
<1>6. ASSUME faults'.poll = 0 PROVE CallerInv(j)'
  <2>1. CallerInv(j) /\ PinInv(j)
    BY Zenon, <1>4, <1>6 DEF CallersInv, PinsInv
  <2>2. CASE Denied(j)
    BY Zenon, <2>2, DeniedKeeps
  <2>3. CASE /\ judge[j].pc = "id_valid" /\ judge'[j].pc = "read" /\ Valid(judge[j].note)
             /\ judge'[j].pins = judge[j].pins
    <3>1. judge[j].pins = [pidfd |-> Note(j).gen, mem |-> Note(j).gen, root |-> Note(j).gen]
      BY Zenon, <2>1, <2>3, ValidPins
    <3> QED BY Zenon, <1>4, <2>3, <3>1 DEF CallerInv
  <2>4. CASE /\ judge[j].pc = "read" /\ judge'[j].pc = "open" /\ Note(j).ok
             /\ judge'[j].pins = judge[j].pins /\ judge'[j].path = Note(j).path
    BY Zenon, <1>4, <2>1, <2>4 DEF CallerInv
  <2>5. CASE /\ judge[j].pc = "open" /\ judge'[j].pc = "addfd"
             /\ judge'[j].opened = judge[j].pins.root /\ judge'[j].path = judge[j].path
    BY <1>4, <2>1, <2>5 DEF CallerInv
  <2>6. CASE /\ judge[j].pc = "addfd" /\ judge'[j].pc = "record" /\ judge'[j].grant = judge[j].grant
             /\ judge'[j].opened = judge[j].opened /\ judge'[j].path = judge[j].path
    BY Zenon, <1>4, <2>1, <2>6 DEF CallerInv
  <2> QED BY Zenon, <1>1, <2>2, <2>3, <2>4, <2>5, <2>6
<1> QED BY Zenon, <1>1, <1>3, <1>5, <1>6, QuietDone

-----------------------------------------------------------------------------
(* The theorem.                                                            *)

\* Nothing has happened yet.
LEMMA BrokerStarts ==
  ASSUME per_thread_cache \in Nat, BrokerInit
  PROVE  BrokerInv
<1>1. /\ serve = "bind" /\ crun = "starting" /\ notes = <<>>
      /\ log = [state |-> "closed", lines |-> <<>>, seq |-> 0, marker |-> FALSE, incomplete |-> FALSE]
      /\ result = [pc |-> "waiting", flagged |-> FALSE, seen |-> {}]
      /\ faults = [other |-> 0, poll |-> 0]
  BY Zenon DEF BrokerInit
<1>2. /\ tasks \in [Tids -> [gen: Nat, up: BOOLEAN]]
      /\ \A tid \in Tids : ~tasks[tid].up /\ tasks[tid].gen = 0
  BY Zenon DEF BrokerInit
<1>3. judge \in [Judges -> JudgeStates] /\ \A j \in Judges : judge[j].pc = "off" /\ judge[j].note = 0
  BY Zenon, IdleTypes, IdleFields DEF BrokerInit
<1>4. cache \in [Judges -> Caches] /\ \A j \in Judges : Cached(j) = <<>>
  <2> DEFINE e == [pins |-> <<>>, order |-> <<>>]
  <2>1. <<>> \in [{} -> Pins] /\ <<>> \in Seq(Tids)
    OBVIOUS
  <2>2. <<>> \in UNION {[T -> Pins] : T \in SUBSET Tids}
    BY Zenon, <2>1
  <2>3. e \in Caches
    BY <2>1, <2>2, Zenon DEF Caches
  <2>4. e.pins = <<>>
    OBVIOUS
  <2>5. cache = [j \in Judges |-> e]
    BY Zenon DEF BrokerInit
  <2> HIDE DEF e
  <2> QED BY Zenon, <2>3, <2>4, <2>5 DEF Cached
<1>5. log \in Logs /\ log.lines = <<>> /\ log.state = "closed" /\ ~log.marker /\ log.seq = 0
  <2>1. 0 \in Nat /\ <<>> \in Seq(Lines)
    OBVIOUS
  <2>2. log \in Logs
    BY <1>1, <2>1, Zenon DEF Logs
  <2> QED BY Zenon, <1>1, <2>2
<1>6. faults \in [other: Nat, poll: Nat] /\ result \in Results /\ result.pc = "waiting"
  <2>1. result \in Results
    BY <1>1, Zenon DEF Results
  <2> QED BY Zenon, <1>1, <2>1
<1>7. DOMAIN notes = {} /\ notes \in Seq(Notes) /\ DOMAIN log.lines = {} /\ Len(log.lines) = 0
  BY <1>1, <1>5
<1>8. \A j \in Judges : judge[j].pc \notin Busy
  BY Zenon, <1>3 DEF Busy, Before
<1>9. BrokerTypes /\ HandoffInv /\ TakenInv /\ AnswerInv /\ LinesInv /\ CoverInv /\ ResultInv /\ OrderInv
  BY <1>1, <1>2, <1>3, <1>4, <1>5, <1>6, <1>7, <1>8 DEF BrokerTypes, HandoffInv, TakenInv,
     AnswerInv, LinesInv, CoverInv, ResultInv, OrderInv, LogInOrder
<1>10. \A j \in Judges : DOMAIN Cached(j) = {}
  BY <1>4
<1>11. PinsInv /\ CallersInv
  BY Zenon, <1>3, <1>7, <1>10 DEF PinsInv, PinInv, CallersInv, CallerInv, InjectedAnswersTheCall
<1>12. CacheInv
  <2>1. IsFiniteSet({}) /\ Cardinality({}) = 0
    BY Zenon, FS_EmptySet
  <2> QED BY <1>3, <1>10, <2>1 DEF CacheInv
<1> QED BY Zenon, <1>9, <1>11, <1>12 DEF BrokerInv

\* Every step keeps the invariant.
LEMMA BrokerStep ==
  ASSUME BrokerInv, per_thread_cache \in Nat, [BrokerNext]_brokerVars
  PROVE  BrokerInv'
<1>1. CASE UNCHANGED brokerVars
  BY Zenon, <1>1, StillStep
<1>2. ASSUME NEW j \in Judges, JudgeStep(j) PROVE BrokerInv'
  BY <1>2, RecvStep, RecvEndsStep, CachedStep, ColdStep, MemStep, RootStep, LateStep, RecordStep,
     SendStep DEF JudgeStep
<1>3. CASE ServeStep
  BY Zenon, <1>3, StillStep, HandoffStep, EndStep DEF ServeStep
<1>4. CASE CrunStep \/ ReaderStep
  BY Zenon, <1>4, StillStep DEF CrunStep, ReaderStep
<1>5. CASE Workload
  BY Zenon, <1>5, StillStep, CallStep, ReleaseStep DEF Workload
<1> QED BY Zenon, <1>1, <1>2, <1>3, <1>4, <1>5 DEF BrokerNext

\* The invariant gives what the runs check.
LEMMA BrokerMeans ==
  ASSUME BrokerInv
  PROVE  JudgmentsFaithful
<1> /\ BrokerTypes /\ HandoffInv /\ TakenInv /\ CallersInv /\ CacheInv /\ OrderInv /\ LinesInv /\ CoverInv
    /\ ResultInv
  BY Zenon DEF BrokerInv
<1>1. BrokerTypeOK
  <2>1. \A j \in Judges : DOMAIN Cached(j) \subseteq Tids
    BY DEF BrokerTypes, Caches, Cached
  <2>2. log.seq \in Nat /\ log.state \in {"closed", "open", "disabled"}
    BY Zenon DEF BrokerTypes, Logs
  <2>3. \A j \in Judges : judge[j].note \in 0 .. Len(notes)
    <3>1. Len(notes) \in Nat /\ DOMAIN notes = 1 .. Len(notes)
      BY DEF BrokerTypes
    <3>2. \A j \in Judges : judge[j].note = 0 \/ judge[j].note \in DOMAIN notes
      BY Zenon DEF TakenInv
    <3> QED BY <3>1, <3>2
  <2> QED BY Zenon, <2>1, <2>2, <2>3 DEF BrokerTypeOK, BrokerTypes, CacheInv
<1>2. EveryPinEvictable /\ LogInOrder
  BY Zenon DEF EveryPinEvictable, CacheInv, OrderInv
<1>3. faults.poll = 0 => PinsBelongToCaller /\ InjectedAnswersTheCall
  BY Zenon DEF CallersInv, CallerInv, PinsBelongToCaller
<1>4. DecisionsCompleteOrFlagged
  <2>1. SUFFICES ASSUME result.pc = "read", ~result.flagged,
                        NEW n \in DOMAIN notes, notes[n].answer \in {"fd", "denied"}
                 PROVE  /\ Cardinality({l \in result.seen : l.note = n}) = 1
                        /\ \A l \in result.seen : l.note = n => (l.granted <=> notes[n].answer = "fd")
    BY Zenon DEF DecisionsCompleteOrFlagged
  <2>2. /\ serve = "ended" /\ ~log.marker
        /\ result.seen = {log.lines[i] : i \in DOMAIN log.lines}
    BY Zenon, <2>1 DEF ResultInv
  <2>3. Intact
    BY Zenon, <2>2 DEF HandoffInv, Intact
  <2>4. PICK i \in DOMAIN log.lines : log.lines[i].note = n
    BY Zenon, <2>1, <2>3 DEF CoverInv
  <2>5. {l \in result.seen : l.note = n} = {log.lines[i]}
    BY Zenon, <2>2, <2>4 DEF LinesInv
  <2>6. log.lines[i].granted = (notes[n].answer = "fd")
    BY Zenon, <2>1, <2>4 DEF LinesInv
  <2>7. Cardinality({log.lines[i]}) = 1
    BY Zenon, FS_Singleton
  <2>8. \A l \in result.seen : l.note = n => l = log.lines[i]
    BY Zenon, <2>5
  <2> QED BY Zenon, <2>5, <2>6, <2>7, <2>8
<1> QED BY Zenon, <1>1, <1>2, <1>3, <1>4 DEF JudgmentsFaithful

\* Whatever the number of judges, the capacity of their caches, the order of
\* threads, calls and answers and the failures on the way: a descriptor is
\* injected only into the call it was opened for and in that caller's root
\* (unless the poll of a cached pidfd failed), no cache outgrows its share or
\* loses a pin it could never evict, and the decisions the daemon reads are
\* complete, once each and truthful, or flagged (mod.rs, pins.rs, decision.rs,
\* broker_events.rs).
THEOREM JudgmentsAreFaithful ==
  ASSUME CacheMax \in Nat, NoFile \in Nat, FD_HEADROOM \in Nat, IsFiniteSet(Judges), Judges # {}
  PROVE  BrokerSpec => []JudgmentsFaithful
<1>0. per_thread_cache \in Nat
  BY Zenon, ShareIsNat
<1>1. BrokerInit => BrokerInv
  BY Zenon, <1>0, BrokerStarts
<1>2. BrokerInv /\ [BrokerNext]_brokerVars => BrokerInv'
  BY Zenon, <1>0, BrokerStep
<1>3. BrokerInv => JudgmentsFaithful
  BY Zenon, BrokerMeans
<1> QED BY <1>1, <1>2, <1>3, PTL DEF BrokerSpec
=============================================================================
