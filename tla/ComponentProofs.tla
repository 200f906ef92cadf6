-------------------------- MODULE ComponentProofs --------------------------
(***************************************************************************)
(* Theorems about four components with a small state, each with constants  *)
(* and variables of its own: the Run Protocol's reducer (RunLifecycle),    *)
(* the classifier of the broker's opens (BrokerClassify), the pool of zone *)
(* addresses (IpAllocator) and the enforcer backend over the eBPF maps     *)
(* (LinuxEnforcer).                                                        *)
(*                                                                         *)
(* For the reducer, LifecycleInv is the inductive invariant: each record   *)
(* was legal in the state that the lifecycle events before it lead to.     *)
(* For the classifier the invariant says that a verdict is computed from   *)
(* its call; the lemmas say what each of its checks answers.  For the pool *)
(* it is PoolInv: addresses are distinct, and those of recovered zones are *)
(* taken.  For the enforcer it is EnforcerInv: an id stands for one name,  *)
(* also in the hands of a call between its two locks.                      *)
(***************************************************************************)
EXTENDS RunLifecycle, BrokerClassify, IpAllocator, LinuxEnforcer, TLAPS

-----------------------------------------------------------------------------
(* The classifier: what each check answers.                                *)

\* A verdict refuses a call exactly when it carries an errno.
LEMMA DenyFields ==
  ASSUME NEW e, NEW r
  PROVE  ~Deny(e, r).granted /\ Deny(e, r).errno = e
  BY Zenon DEF Deny

\* The open flags with a side effect.
SideEffect(flags) ==
  \/ flags \cap {"WRITE", "CREAT", "TRUNC", "PATH", "DIRECT"} # {}
  \/ {"TMPFILE", "DIRECTORY"} \subseteq flags

\* check_open_flags refuses the flags with a side effect, and no others.
LEMMA FlagChecks ==
  ASSUME NEW flags
  PROVE  /\ SideEffect(flags) => ~check_open_flags(flags).granted /\ check_open_flags(flags).errno = "EPERM"
         /\ ~SideEffect(flags) => check_open_flags(flags).granted
<1>1. CASE "WRITE" \in flags
  BY Zenon, <1>1 DEF check_open_flags, Deny, SideEffect
<1>2. CASE "WRITE" \notin flags /\ {"TMPFILE", "DIRECTORY"} \subseteq flags
  BY Zenon, <1>2 DEF check_open_flags, Deny, SideEffect
<1>3. CASE "WRITE" \notin flags /\ ~({"TMPFILE", "DIRECTORY"} \subseteq flags)
  BY Zenon, <1>3 DEF check_open_flags, Deny, Allowed, SideEffect
<1> QED BY Zenon, <1>1, <1>2, <1>3

\* check_path lets absolute and relative paths through.
LEMMA PathChecks ==
  ASSUME NEW path \in PathShapes
  PROVE  /\ path \in {"absolute", "relative"} => check_path(path).granted
         /\ path \notin {"absolute", "relative"} =>
              ~check_path(path).granted /\ check_path(path).errno # "none"
  BY Zenon DEF PathShapes, check_path, Deny, Allowed

\* The open_how blocks that check_how takes.
WellFormed(size, how) ==
  /\ size = "exact" /\ how.resolve \subseteq KNOWN_RESOLVE
  /\ ~({"BENEATH", "IN_ROOT"} \subseteq how.resolve) /\ "HIGH" \notin how.flags

\* check_how lets a well-formed open_how through, and no other.
LEMMA HowChecks ==
  ASSUME NEW size \in Sizes, NEW how
  PROVE  /\ WellFormed(size, how) => check_how(size, how).granted
         /\ ~WellFormed(size, how) => ~check_how(size, how).granted /\ check_how(size, how).errno # "none"
  BY Zenon DEF Sizes, check_how, Deny, Allowed, WellFormed

\* The calls of openat that are granted.
Granted(path, flags) == path \in {"absolute", "relative"} /\ ~SideEffect(flags)

\* What classify_openat answers.
LEMMA OpenatAnswers ==
  ASSUME NEW flags, NEW path \in PathShapes
  PROVE  /\ Granted(path, flags) =>
              classify_openat(flags, path) =
                Grant(path, resolve_flags(path = "absolute", "NOFOLLOW" \in flags), flags)
         /\ ~Granted(path, flags) =>
              ~classify_openat(flags, path).granted /\ classify_openat(flags, path).errno # "none"
<1> DEFINE F == check_open_flags(flags)  P == check_path(path)
           R == Grant(path, resolve_flags(path = "absolute", "NOFOLLOW" \in flags), flags)
<1>1. classify_openat(flags, path) = CASE ~F.granted -> F [] ~P.granted -> P [] OTHER -> R
  BY Zenon DEF classify_openat
<1>2. /\ SideEffect(flags) => ~F.granted /\ F.errno = "EPERM"
      /\ ~SideEffect(flags) => F.granted
      /\ path \in {"absolute", "relative"} => P.granted
      /\ path \notin {"absolute", "relative"} => ~P.granted /\ P.errno # "none"
  BY Zenon, FlagChecks, PathChecks
<1> HIDE DEF F, P, R
<1>3. /\ Granted(path, flags) => classify_openat(flags, path) = R
      /\ ~Granted(path, flags) => /\ ~classify_openat(flags, path).granted
                                  /\ classify_openat(flags, path).errno # "none"
  BY Zenon, <1>1, <1>2 DEF Granted
<1> QED BY Zenon, <1>3 DEF R

\* The calls of openat2 that are granted.
Granted2(size, how, path) ==
  WellFormed(size, how) /\ Granted(path, how.flags) /\ ~(path = "absolute" /\ "BENEATH" \in how.resolve)

\* The resolve word of a grant of classify_openat2.
Resolution(how, path) ==
  {containment(path, how.resolve)} \cup caller_restrictions(how.resolve)
     \cup {IF "NOFOLLOW" \in how.flags THEN "NO_SYMLINKS" ELSE "NO_MAGICLINKS"}

\* What classify_openat2 answers.
LEMMA Openat2Answers ==
  ASSUME NEW size \in Sizes, NEW flags, NEW resolve, NEW path \in PathShapes, NEW how,
         how = [flags |-> flags, resolve |-> resolve]
  PROVE  /\ Granted2(size, how, path) =>
              classify_openat2(size, how, path) = Grant(path, Resolution(how, path), how.flags)
         /\ ~Granted2(size, how, path) => /\ ~classify_openat2(size, how, path).granted
                                          /\ classify_openat2(size, how, path).errno # "none"
<1> DEFINE H == check_how(size, how)  F == check_open_flags(how.flags)  P == check_path(path)
           R == Grant(path, Resolution(how, path), how.flags)
           D == Deny("EXDEV", "absolute path under RESOLVE_BENEATH")
           beneath == path = "absolute" /\ "BENEATH" \in how.resolve
<1>1. classify_openat2(size, how, path) =
        CASE ~H.granted -> H [] ~F.granted -> F [] ~P.granted -> P [] beneath -> D [] OTHER -> R
  BY Zenon DEF classify_openat2, Resolution
<1>2. /\ WellFormed(size, how) => H.granted
      /\ ~WellFormed(size, how) => ~H.granted /\ H.errno # "none"
      /\ SideEffect(how.flags) => ~F.granted /\ F.errno = "EPERM"
      /\ ~SideEffect(how.flags) => F.granted
      /\ path \in {"absolute", "relative"} => P.granted
      /\ path \notin {"absolute", "relative"} => ~P.granted /\ P.errno # "none"
      /\ ~D.granted /\ D.errno = "EXDEV"
  BY HowChecks, FlagChecks, PathChecks, DenyFields, Zenon
<1>3. Granted2(size, how, path) <=>
        WellFormed(size, how) /\ ~SideEffect(how.flags) /\ path \in {"absolute", "relative"} /\ ~beneath
  BY Zenon DEF Granted2, Granted
<1> HIDE DEF H, F, P, R, D, beneath
<1>4. CASE ~WellFormed(size, how)
  BY Zenon, <1>1, <1>2, <1>3, <1>4
<1>5. CASE WellFormed(size, how) /\ SideEffect(how.flags)
  BY Zenon, <1>1, <1>2, <1>3, <1>5
<1>6. CASE WellFormed(size, how) /\ ~SideEffect(how.flags) /\ path \notin {"absolute", "relative"}
  BY Zenon, <1>1, <1>2, <1>3, <1>6
<1>7. CASE WellFormed(size, how) /\ ~SideEffect(how.flags) /\ path \in {"absolute", "relative"}
  <2>1. classify_openat2(size, how, path) = IF beneath THEN D ELSE R
    BY Zenon, <1>1, <1>2, <1>7
  <2> QED BY Zenon, <1>2, <1>3, <1>7, <2>1 DEF R
<1> QED BY Zenon, <1>4, <1>5, <1>6, <1>7

\* The fields of a grant.
LEMMA GrantFields ==
  ASSUME NEW path, NEW resolve, NEW flags
  PROVE  /\ Grant(path, resolve, flags).granted /\ Grant(path, resolve, flags).resolve = resolve
         /\ Grant(path, resolve, flags).anchored = IF path = "absolute" THEN "TaskRoot" ELSE "TaskDir"
         /\ Grant(path, resolve, flags).cloexec = ("CLOEXEC" \in flags)
         /\ Grant(path, resolve, flags).nonblock = ("NONBLOCK" \in flags)
  BY Zenon DEF Grant

\* openat resolves as openat2 with no resolve flags does.
LEMMA OneResolution ==
  ASSUME NEW flags, NEW path
  PROVE  resolve_flags(path = "absolute", "NOFOLLOW" \in flags)
           = Resolution([flags |-> flags, resolve |-> {}], path)
  BY Zenon DEF resolve_flags, Resolution, caller_restrictions,
     containment, KNOWN_RESOLVE, RESOLVE_RESTRICTIONS

\* The openat2 that a call amounts to.
How(c) == [flags |-> c.flags, resolve |-> c.resolve]

\* The calls that are granted.
Grants(c) ==
  IF c.sc = "openat" THEN Granted(c.path, c.flags) ELSE Granted2(c.size, How(c), c.path)

\* What the broker answers to either call.
LEMMA Answers ==
  ASSUME NEW c \in Calls
  PROVE  /\ Grants(c) => Classify(c) = Grant(c.path, Resolution(How(c), c.path), c.flags)
         /\ ~Grants(c) => ~Classify(c).granted /\ Classify(c).errno # "none"
<1>1. CASE c.sc = "openat"
  <2>1. c.path \in PathShapes /\ c.resolve = {}
    BY Zenon, <1>1 DEF Calls
  <2> QED BY <1>1, <2>1, OpenatAnswers, OneResolution DEF Classify, Grants, How
<1>2. CASE c.sc # "openat"
  <2>1. c.path \in PathShapes /\ c.size \in Sizes
    BY Zenon, <1>2 DEF Calls
  <2>2. How(c).flags = c.flags /\ How(c) = [flags |-> c.flags, resolve |-> c.resolve]
    BY Zenon DEF How
  <2>3. Classify(c) = classify_openat2(c.size, How(c), c.path)
    BY Zenon, <1>2 DEF Classify, How
  <2> QED BY <1>2, <2>1, <2>2, <2>3, Openat2Answers DEF Grants
<1> QED BY Zenon, <1>1, <1>2

\* A call waits for its verdict or has the verdict of Classify.
ClassifyInv ==
  /\ call \in Calls
  /\ verdict \in {[granted |-> FALSE, errno |-> "none", reason |-> "pending"], Classify(call)}

\* ClassifyInv is an invariant: a verdict is computed from its call alone.
LEMMA ClassifyInvariant == ClassifySpec => []ClassifyInv
<1>1. ClassifyInit => ClassifyInv
  BY Zenon DEF ClassifyInit, ClassifyInv
<1>2. ClassifyInv /\ [ClassifyNext]_classifyVars => ClassifyInv'
  BY Zenon DEF ClassifyInv, ClassifyNext, Judge, classifyVars
<1> QED BY <1>1, <1>2, PTL DEF ClassifySpec

\* For every set of flag and resolve words: a granted open is resolved below
\* the task's own root or directory with the caller's restrictions and one
\* containment flag, the injected descriptor mirrors the flags asked for, only
\* flags with a side effect are refused as policy, openat is judged as the
\* openat2 it amounts to, and asking for more restrictions widens nothing.
THEOREM OpensAreConfined == ClassifySpec => []OpensConfined
<1>1. ClassifyInv => OpensConfined
  <2> SUFFICES ASSUME ClassifyInv PROVE OpensConfined
      OBVIOUS
  <2>1. verdict.granted => Grants(call) /\ verdict = Grant(call.path, Resolution(How(call), call.path), call.flags)
    BY Answers DEF ClassifyInv
  <2>2. Judged => verdict = Classify(call)
    BY DEF ClassifyInv, Judged
  <2>3. GrantConfined
    <3> SUFFICES ASSUME verdict.granted PROVE GrantConfined
        BY Zenon DEF GrantConfined
    <3>1. /\ verdict.resolve = Resolution(How(call), call.path)
          /\ verdict.anchored = IF call.path = "absolute" THEN "TaskRoot" ELSE "TaskDir"
      BY <2>1, GrantFields
    <3>2. How(call).flags = call.flags /\ How(call).resolve = call.resolve
      BY Zenon DEF How
    <3>3. verdict.resolve \cap {"BENEATH", "IN_ROOT"} = {containment(call.path, call.resolve)}
      BY Zenon, <3>1, <3>2 DEF Resolution, containment, caller_restrictions,
         KNOWN_RESOLVE, RESOLVE_RESTRICTIONS
    <3>4. \E c \in {"BENEATH", "IN_ROOT"} : verdict.resolve \cap {"BENEATH", "IN_ROOT"} = {c}
      BY Zenon, <3>3 DEF containment
    <3>5. (call.resolve \cap RESOLVE_RESTRICTIONS) \subseteq verdict.resolve
      BY Zenon, <3>1, <3>2 DEF Resolution, caller_restrictions, KNOWN_RESOLVE,
         RESOLVE_RESTRICTIONS
    <3>6. call.path = "absolute" => "IN_ROOT" \in verdict.resolve
      BY Zenon, <3>1 DEF Resolution, containment
    <3>7. verdict.resolve \cap {"NO_MAGICLINKS", "NO_SYMLINKS"} # {}
      BY Zenon, <3>1 DEF Resolution
    <3>8. "NOFOLLOW" \in call.flags => "NO_SYMLINKS" \in verdict.resolve
      BY Zenon, <3>1, <3>2 DEF Resolution
    <3>9. "BENEATH" \in call.resolve => "BENEATH" \in verdict.resolve
      <4> SUFFICES ASSUME "BENEATH" \in call.resolve PROVE "BENEATH" \in verdict.resolve
          OBVIOUS
      <4>1. call.sc # "openat"
        BY Zenon DEF ClassifyInv, Calls
      <4>2. Granted2(call.size, How(call), call.path)
        BY Zenon, <2>1, <4>1 DEF Grants
      <4>3. containment(call.path, call.resolve) = "BENEATH"
        BY Zenon, <3>2, <4>2 DEF Granted2, WellFormed, containment
      <4> QED BY Zenon, <3>1, <3>2, <4>3 DEF Resolution
    <3>10. verdict.anchored = "TaskRoot" <=> call.path = "absolute"
      BY Zenon, <3>1
    <3> QED BY Zenon, <3>4, <3>5, <3>6, <3>7, <3>8, <3>9, <3>10 DEF GrantConfined
  <2>4. MirroredFlags
    <3> SUFFICES ASSUME verdict.granted PROVE MirroredFlags
        BY Zenon DEF MirroredFlags
    <3>1. verdict.cloexec = ("CLOEXEC" \in call.flags) /\ verdict.nonblock = ("NONBLOCK" \in call.flags)
      BY <2>1, GrantFields
    <3>2. "NOFOLLOW" \in call.flags => "NO_SYMLINKS" \in verdict.resolve
      BY Zenon, <2>3 DEF GrantConfined
    <3> QED BY <3>1, <3>2, Zenon DEF MirroredFlags, Injected, OpenFlags
  <2>5. PolicyDenialsExact
    <3> SUFFICES ASSUME Judged,
                        call.path \in {"absolute", "relative"},
                        call.sc = "openat2" => check_how(call.size, How(call)).granted,
                        ~(call.path = "absolute" /\ "BENEATH" \in call.resolve)
                 PROVE  verdict.granted <=> ~SideEffect(call.flags)
        BY Zenon DEF PolicyDenialsExact, How, SideEffect
    <3>1. verdict.granted <=> Grants(call)
      BY <2>1, <2>2, Answers, GrantFields DEF ClassifyInv
    <3>2. CASE call.sc = "openat"
      BY Zenon, <3>1, <3>2 DEF Grants, Granted
    <3>3. CASE call.sc # "openat"
      <4>1. call.sc = "openat2" /\ call.size \in Sizes
        BY Zenon, <3>3 DEF ClassifyInv, Calls
      <4>2. WellFormed(call.size, How(call)) /\ How(call).flags = call.flags /\ How(call).resolve = call.resolve
        BY Zenon, <4>1, HowChecks DEF How
      <4> QED BY Zenon, <3>1, <3>3, <4>2 DEF Grants, Granted2, Granted
    <3> QED BY Zenon, <3>2, <3>3
  <2>6. OneJudgment
    <3> SUFFICES ASSUME Judged, call.sc = "openat", "HIGH" \notin call.flags
                 PROVE  verdict = classify_openat2("exact", [flags |-> call.flags, resolve |-> {}], call.path)
        BY Zenon DEF OneJudgment
    <3> DEFINE how == [flags |-> call.flags, resolve |-> {}]
    <3>1. call.path \in PathShapes /\ verdict = classify_openat(call.flags, call.path)
      BY Zenon, <2>2 DEF ClassifyInv, Calls, Classify
    <3>2. WellFormed("exact", how) /\ how.flags = call.flags /\ how.resolve = {}
      BY Zenon DEF WellFormed
    <3>3. CASE Granted(call.path, call.flags)
      <4>1. Granted2("exact", how, call.path)
        BY Zenon, <3>2, <3>3 DEF Granted2
      <4> QED BY <3>1, <3>2, <3>3, <4>1, OpenatAnswers, Openat2Answers, OneResolution
                 DEF Sizes
    <3>4. CASE ~Granted(call.path, call.flags)
      <4>1. check_how("exact", how).granted
        BY Zenon, <3>2, HowChecks DEF Sizes
      <4>2. CASE SideEffect(call.flags)
        BY <3>1, <3>2, <4>1, <4>2, FlagChecks DEF classify_openat,
           classify_openat2
      <4>3. CASE ~SideEffect(call.flags)
        BY Zenon, <3>1, <3>2, <3>4, <4>1, <4>3, FlagChecks, PathChecks
           DEF classify_openat, classify_openat2, Granted
      <4> QED BY Zenon, <4>2, <4>3
    <3> QED BY Zenon, <3>3, <3>4
  <2>7. RestrictingNeverWidens
    <3> SUFFICES ASSUME Judged, call.sc = "openat2", NEW r \in RESOLVE_RESTRICTIONS \cup {"BENEATH"},
                        classify_openat2(call.size, [flags |-> call.flags, resolve |-> call.resolve \cup {r}],
                                         call.path).granted
                 PROVE  /\ verdict.granted
                        /\ (verdict.resolve \ {"IN_ROOT"}) \subseteq
                             classify_openat2(call.size, [flags |-> call.flags, resolve |-> call.resolve \cup {r}],
                                              call.path).resolve
        BY Zenon DEF RestrictingNeverWidens
    <3> DEFINE how == [flags |-> call.flags, resolve |-> call.resolve \cup {r}]
    <3>1. call.path \in PathShapes /\ call.size \in Sizes
      BY Zenon DEF ClassifyInv, Calls
    <3>2. /\ how.flags = call.flags /\ how.resolve = call.resolve \cup {r}
          /\ How(call).flags = call.flags /\ How(call).resolve = call.resolve
          /\ how = [flags |-> call.flags, resolve |-> call.resolve \cup {r}]
      BY Zenon DEF How
    <3> HIDE DEF how
    <3>3. Granted2(call.size, how, call.path)
      BY Zenon, <3>1, <3>2, Openat2Answers
    <3>4. classify_openat2(call.size, how, call.path).resolve = Resolution(how, call.path)
      <4>1. classify_openat2(call.size, how, call.path)
              = Grant(call.path, Resolution(how, call.path), how.flags)
        BY <3>1, <3>2, <3>3, Openat2Answers, Zenon
      <4> QED BY <4>1, GrantFields
    <3>5. Granted2(call.size, How(call), call.path)
      BY Zenon, <3>2, <3>3 DEF Granted2, WellFormed
    <3>6. verdict.granted /\ verdict.resolve = Resolution(How(call), call.path)
      BY <2>2, <3>5, Answers, GrantFields DEF ClassifyInv, Grants
    <3>7. Resolution(How(call), call.path) \ {"IN_ROOT"} \subseteq Resolution(how, call.path)
      BY Zenon, <3>2, <3>3 DEF Resolution, containment, caller_restrictions,
         KNOWN_RESOLVE, RESOLVE_RESTRICTIONS, Granted2, WellFormed
    <3> QED BY Zenon, <3>4, <3>6, <3>7 DEF how
  <2> QED BY Zenon, <2>3, <2>4, <2>5, <2>6, <2>7 DEF OpensConfined
<1> QED BY <1>1, ClassifyInvariant, PTL

-----------------------------------------------------------------------------
(* The reducer: what a legal journal says.                                 *)

\* Move p is the last lifecycle event before position i.
LastBefore(p, i) == /\ p \in Moves
                    /\ p < i
                    /\ \A m \in Moves : m < i => m =< p

\* The lifecycle events before position i lead to state s.
StateAt(i, s) ==
    \/ (\A m \in Moves : i =< m) /\ s = "none"
    \/ \E p \in Moves : LastBefore(p, i) /\ s = Rule(journal[p].kind).to

\* Event e may be recorded in state s.
Legal(e, s) ==
    IF e.kind \in LifecycleKinds
    THEN s \in Rule(e.kind).from /\ e.emitter = Rule(e.kind).source
    ELSE /\ e.emitter \in NotedBy(e.kind)
         /\ s \in Terminal => e.kind \in {"receipt.sealed", "journal.compacted"}

\* The journal leads to the Run's state, and every record was legal where the
\* records before it lead.
LifecycleInv ==
    /\ TypeOK
    /\ StateAt(Len(journal) + 1, state)
    /\ \A i \in 1..Len(journal) : \E s \in States : StateAt(i, s) /\ Legal(journal[i], s)

-----------------------------------------------------------------------------
(* The catalogue.                                                          *)

\* Every lifecycle kind has a rule that leads from known states, never a
\* terminal one, to a known state other than "none", and a known emitter.
LEMMA Rules ==
  ASSUME NEW k \in LifecycleKinds
  PROVE  /\ Rule(k).source \in Emitters
         /\ Rule(k).from \subseteq States \ Terminal
         /\ Rule(k).to \in States \ {"none"}
  BY Zenon DEF Rule, LifecycleKinds, Step, Emitters, States, Open,
     Terminal

\* The kinds the proofs below follow back from an accepted Run, and to the
\* first event of a Run.
LEMMA KeyRules ==
  ASSUME NEW k \in LifecycleKinds
  PROVE  /\ Rule("run.accepted").from = {"review"}
         /\ Rule("proof.finished").from = {"proving"}
         /\ Rule("sandbox.ready").from = {"preparing"}
         /\ Rule("run.created").from = {"none"}
         /\ "none" \in Rule(k).from => k = "run.created"
         /\ Rule(k).to = "review" => k = "proof.finished"
         /\ Rule(k).to = "proving" => k = "proof.started"
         /\ Rule(k).to = "preparing" => k = "run.created"
  BY Zenon DEF Rule, LifecycleKinds, Step, Open

\* Notes and lifecycle events are different kinds, each note has one known
\* emitter, and a kind with no emitter is outside the catalogue.
LEMMA Notes ==
  ASSUME NEW k
  PROVE  /\ k \in LifecycleKinds => NotedBy(k) = {}
         /\ NotedBy(k) \subseteq Emitters
         /\ NotedBy(k) # {} => k \in Catalogue
         /\ NotedBy("journal.unknown_event") = {"reducer"}
         /\ "journal.unknown_event" \notin LifecycleKinds
<1>1. k \in LifecycleKinds => NotedBy(k) = {}
  BY Zenon DEF NotedBy, LifecycleKinds, CustodianNotes, BrokerNotes,
     SupervisorNotes
<1>2. NotedBy(k) \subseteq Emitters
  BY Zenon DEF NotedBy, Emitters
<1>3. NotedBy(k) # {} => k \in Catalogue
  BY Zenon DEF NotedBy, Catalogue
<1>4. NotedBy("journal.unknown_event") = {"reducer"}
  BY Zenon DEF NotedBy, CustodianNotes, BrokerNotes, SupervisorNotes
<1>5. "journal.unknown_event" \notin LifecycleKinds
  BY Zenon DEF LifecycleKinds
<1> QED BY Zenon, <1>1, <1>2, <1>3, <1>4, <1>5

\* What `reduce' accepts is recorded as a legal event, and leads where its
\* record leads.
LEMMA ReduceLegal ==
  ASSUME NEW s \in States, NEW k, NEW em \in Emitters, reduce(s, k, em).ok,
         NEW e, e = IF reduce(s, k, em).unknown THEN Marker
                    ELSE [kind |-> k, emitter |-> em]
  PROVE  /\ e \in [kind: Catalogue, emitter: Emitters]
         /\ Legal(e, s)
         /\ IF e.kind \in LifecycleKinds
            THEN reduce(s, k, em).state = Rule(e.kind).to
            ELSE reduce(s, k, em).state = s
<1>1. ~(s \in Terminal /\ k \notin {"receipt.sealed", "journal.compacted"})
  BY Zenon DEF reduce, Refused
<1>2. CASE k \in LifecycleKinds
  <2>1. s \in Rule(k).from /\ em = Rule(k).source
    BY Zenon, <1>1, <1>2 DEF reduce, Refused
  <2>2. reduce(s, k, em) = Accept(Rule(k).to)
    BY Zenon, <1>1, <1>2, <2>1 DEF reduce
  <2>3. e = [kind |-> k, emitter |-> em]
    BY <2>2 DEF Accept
  <2> QED BY <1>2, <2>1, <2>2, <2>3 DEF Accept, Legal, Catalogue
<1>3. CASE k \notin LifecycleKinds /\ NotedBy(k) = {}
  <2>1. reduce(s, k, em) = Unknown(s)
    BY Zenon, <1>1, <1>3 DEF reduce
  <2>2. e = Marker
    BY <2>1 DEF Unknown
  <2>3. s \notin Terminal
    BY Zenon, <1>1, <1>3 DEF NotedBy, CustodianNotes
  <2> QED BY <2>1, <2>2, <2>3, Notes DEF Unknown, Marker, Legal, Catalogue,
             Emitters
<1>4. CASE k \notin LifecycleKinds /\ NotedBy(k) # {}
  <2>1. em \in NotedBy(k)
    BY Zenon, <1>1, <1>4 DEF reduce, Refused
  <2>2. reduce(s, k, em) = Accept(s)
    BY Zenon, <1>1, <1>4, <2>1 DEF reduce, Refused, Accept
  <2>3. e = [kind |-> k, emitter |-> em]
    BY <2>2 DEF Accept
  <2> QED BY <1>1, <1>4, <2>1, <2>2, <2>3, Notes DEF Accept, Legal
<1> QED BY Zenon, <1>2, <1>3, <1>4

-----------------------------------------------------------------------------
(* The journal under append.                                               *)

\* Positions of lifecycle events are positions, and the lifecycle events of a
\* longer journal are those of the journal and perhaps the new one.
LEMMA MovesAppend ==
  ASSUME TypeOK, NEW e \in [kind: Catalogue, emitter: Emitters],
         journal' = Append(journal, e)
  PROVE  /\ Len(journal) \in Nat
         /\ Len(journal') = Len(journal) + 1
         /\ \A i \in 1..Len(journal) : journal'[i] = journal[i]
         /\ journal'[Len(journal) + 1] = e
         /\ Moves \subseteq 1..Len(journal)
         /\ Moves' = IF e.kind \in LifecycleKinds
                     THEN Moves \cup {Len(journal) + 1} ELSE Moves
<1>1. /\ Len(journal) \in Nat
      /\ Len(journal') = Len(journal) + 1
      /\ \A i \in 1..Len(journal) : journal'[i] = journal[i]
      /\ journal'[Len(journal) + 1] = e
  BY DEF TypeOK
<1>2. Moves \subseteq 1..Len(journal)
  BY Zenon DEF Moves
<1>3. \A i : i \in 1..(Len(journal) + 1) <=> i \in 1..Len(journal) \/ i = Len(journal) + 1
  BY <1>1
<1>4. \A i : i \in Moves' <=> (i \in Moves \/ (i = Len(journal) + 1 /\ e.kind \in LifecycleKinds))
  BY Zenon, <1>1, <1>3 DEF Moves
<1> QED BY Zenon, <1>1, <1>2, <1>4

\* An append leaves what the journal led to at every position it had.
LEMMA AtFrame ==
  ASSUME TypeOK, NEW e \in [kind: Catalogue, emitter: Emitters],
         journal' = Append(journal, e),
         NEW i \in 1..(Len(journal) + 1), NEW s, StateAt(i, s)
  PROVE  StateAt(i, s)'
<1>1. /\ \A m \in Moves : m \in 1..Len(journal) /\ journal'[m] = journal[m] /\ m \in Moves'
      /\ \A m \in Moves' : m \in Moves \/ m = Len(journal) + 1
      /\ Len(journal) \in Nat
  BY Zenon, MovesAppend
<1>2. CASE (\A m \in Moves : i =< m) /\ s = "none"
  BY <1>1, <1>2 DEF StateAt
<1>3. ASSUME NEW p \in Moves, LastBefore(p, i), s = Rule(journal[p].kind).to
      PROVE  StateAt(i, s)'
  <2>1. LastBefore(p, i)'
    BY <1>1, <1>3 DEF LastBefore
  <2> QED BY Zenon, <1>1, <1>3, <2>1 DEF StateAt
<1> QED BY Zenon, <1>2, <1>3 DEF StateAt

\* Submit preserves LifecycleInv: the event is legal in the Run's state, which is
\* the one the journal leads to.
LEMMA SubmitStep ==
  ASSUME LifecycleInv, NEW k, NEW em \in Emitters, Submit(k, em)
  PROVE  LifecycleInv'
<1> DEFINE r == reduce(state, k, em)
           e == IF r.unknown THEN Marker ELSE [kind |-> k, emitter |-> em]
<1>0. PICK n, s0 : n = Len(journal) + 1 /\ s0 = state
  OBVIOUS
<1>1. state \in States /\ r.ok /\ state' = r.state /\ journal' = Append(journal, e)
  BY Zenon DEF LifecycleInv, TypeOK, Submit
<1>2. /\ e \in [kind: Catalogue, emitter: Emitters]
      /\ Legal(e, state)
      /\ IF e.kind \in LifecycleKinds THEN r.state = Rule(e.kind).to
                                      ELSE r.state = state
  BY <1>1, ReduceLegal
<1> HIDE DEF r, e
<1>3. /\ Len(journal) \in Nat
      /\ Len(journal') = n
      /\ \A i \in 1..Len(journal) : journal'[i] = journal[i]
      /\ journal'[n] = e
      /\ Moves \subseteq 1..Len(journal)
      /\ Moves' = IF e.kind \in LifecycleKinds THEN Moves \cup {n} ELSE Moves
  BY Zenon, <1>0, <1>1, <1>2, MovesAppend DEF LifecycleInv
<1>4. ASSUME NEW i \in 1..n, NEW s, StateAt(i, s)
      PROVE  StateAt(i, s)'
  BY Zenon, <1>0, <1>1, <1>2, <1>4, AtFrame DEF LifecycleInv
<1>5. TypeOK'
  <2>1. state' \in States
    BY Zenon, <1>1, <1>2, Rules
  <2>2. journal' \in Seq([kind: Catalogue, emitter: Emitters])
    BY <1>1, <1>2 DEF LifecycleInv, TypeOK
  <2> QED BY Zenon, <2>1, <2>2 DEF TypeOK
<1>6. StateAt(Len(journal) + 1, state)'
  <2>1. CASE e.kind \in LifecycleKinds
    <3>1. LastBefore(n, n + 1)'
      BY <1>3, <2>1 DEF LastBefore
    <3> QED BY Zenon, <1>1, <1>2, <1>3, <2>1, <3>1 DEF StateAt, LastBefore
  <2>2. CASE e.kind \notin LifecycleKinds
    <3>1. StateAt(n, s0)' /\ state' = s0
      BY <1>0, <1>1, <1>2, <1>3, <1>4, <2>2 DEF LifecycleInv
    <3>2. \A m \in Moves' : m < n
      BY <1>0, <1>3, <2>2
    <3>3. \A m : m \in Moves' => m < n /\ m < n + 1 /\ ~(n =< m) /\ ~(n + 1 =< m)
      BY <1>0, <1>3, <3>2
    <3>4. StateAt(n + 1, s0)'
      BY Zenon, <3>1, <3>3 DEF StateAt, LastBefore
    <3> QED BY Zenon, <1>3, <3>1, <3>4
  <2> QED BY Zenon, <2>1, <2>2
<1>7. ASSUME NEW i \in 1..n
      PROVE  \E s \in States : StateAt(i, s)' /\ Legal(journal'[i], s)
  <2>1. CASE i = n
    BY Zenon, <1>0, <1>1, <1>2, <1>3, <1>4, <2>1 DEF LifecycleInv
  <2>2. CASE i \in 1..Len(journal)
    BY Zenon, <1>0, <1>3, <1>4, <2>2 DEF LifecycleInv
  <2> QED BY <1>0, <1>3, <2>1, <2>2
<1> QED BY Zenon, <1>3, <1>5, <1>6, <1>7 DEF LifecycleInv

-----------------------------------------------------------------------------
(* What the invariant says of a Run.                                       *)

\* A lifecycle event is the Run's first and its run.created, or was taken in
\* the state that the lifecycle event before it leads to.
LEMMA Predecessor ==
  ASSUME LifecycleInv, NEW i \in Moves
  PROVE  /\ i \in Nat /\ journal[i].kind \in LifecycleKinds
         /\ \/ (\A m \in Moves : i =< m) /\ journal[i].kind = "run.created"
            \/ \E p \in Moves : /\ LastBefore(p, i)
                               /\ Rule(journal[p].kind).to \in Rule(journal[i].kind).from
<1>1. i \in 1..Len(journal) /\ journal[i].kind \in LifecycleKinds
  BY Zenon DEF Moves
<1>2. PICK s \in States : StateAt(i, s) /\ Legal(journal[i], s)
  BY Zenon, <1>1 DEF LifecycleInv
<1>3. s \in Rule(journal[i].kind).from
  BY Zenon, <1>1, <1>2 DEF Legal
<1> QED BY <1>1, <1>2, <1>3, KeyRules DEF StateAt

\* The first lifecycle event is the only run.created.
LEMMA CreatedIsFirst ==
  ASSUME LifecycleInv, NEW i \in Moves
  PROVE  journal[i].kind = "run.created" <=> \A m \in Moves : i =< m
<1>1. ASSUME NEW p \in Moves, LastBefore(p, i),
             Rule(journal[p].kind).to \in Rule(journal[i].kind).from
      PROVE  journal[i].kind # "run.created" /\ ~(i =< p)
  <2>1. p \in Nat /\ i \in Nat /\ journal[p].kind \in LifecycleKinds
    BY Zenon, Predecessor
  <2>2. Rule(journal[p].kind).to # "none" /\ Rule("run.created").from = {"none"}
    BY Zenon, <2>1, Rules, KeyRules
  <2> QED BY <1>1, <2>1, <2>2 DEF LastBefore
<1> QED BY Zenon, <1>1, Predecessor

\* The state is the one the last lifecycle event leads to.
LEMMA InvStateFollows ==
  ASSUME LifecycleInv
  PROVE  StateFollowsJournal
<1>1. Len(journal) \in Nat /\ Moves \subseteq 1..Len(journal)
  BY DEF LifecycleInv, TypeOK, Moves
<1>2. StateAt(Len(journal) + 1, state)
  BY Zenon DEF LifecycleInv
<1>3. CASE Moves = {}
  BY Zenon, <1>2, <1>3 DEF StateFollowsJournal, LifecycleInv, StateAt
<1>4. CASE Moves # {}
  <2> PICK m \in Moves : TRUE
    BY Zenon, <1>4
  <2>0. m \in 1..Len(journal) /\ ~(Len(journal) + 1 =< m)
    BY <1>1
  <2>1. PICK p \in Moves : LastBefore(p, Len(journal) + 1) /\ state = Rule(journal[p].kind).to
    BY Zenon, <1>2, <2>0 DEF StateAt
  <2>2. \A j \in Moves : j =< p
    BY <1>1, <2>1 DEF LastBefore
  <2> QED BY Zenon, <1>4, <2>1, <2>2 DEF StateFollowsJournal, LifecycleInv
<1> QED BY Zenon, <1>3, <1>4

\* Back from run.accepted: review is reached by proof.finished alone, and
\* proving by proof.started alone.
LEMMA InvAcceptedProved ==
  ASSUME LifecycleInv
  PROVE  AcceptedWasProved
<1> SUFFICES ASSUME NEW k \in Moves, journal[k].kind = "run.accepted"
             PROVE  \E i, j \in Moves :
                      /\ i < j /\ j < k
                      /\ journal[i].kind = "proof.started"
                      /\ journal[j].kind = "proof.finished"
                      /\ \A m \in Moves : i =< m /\ m =< k => m \in {i, j, k}
    BY Zenon DEF AcceptedWasProved
<1>1. PICK j \in Moves : LastBefore(j, k) /\ journal[j].kind = "proof.finished"
  BY Zenon, Predecessor, KeyRules
<1>2. PICK i \in Moves : LastBefore(i, j) /\ journal[i].kind = "proof.started"
  BY <1>1, Predecessor, KeyRules
<1>3. \A m \in Moves : m \in Nat
  BY Zenon, Predecessor
<1>4. \A m \in Moves : i =< m /\ m =< k => m \in {i, j, k}
  BY <1>1, <1>2, <1>3 DEF LastBefore
<1> QED BY Zenon, <1>1, <1>2, <1>4 DEF LastBefore

\* run.created is first, and sandbox.ready comes right after it.
LEMMA InvBeginsOnce ==
  ASSUME LifecycleInv
  PROVE  BeginsOnce
<1>1. \A m \in Moves : m \in Nat
  BY Zenon, Predecessor
<1>2. ASSUME NEW i \in Moves, NEW j \in Moves,
             journal[i].kind = "run.created", journal[j].kind = "run.created"
      PROVE  i = j
  BY <1>1, <1>2, CreatedIsFirst
<1>3. ASSUME NEW i \in Moves, journal[i].kind = "sandbox.ready"
      PROVE  \E p \in Moves : LastBefore(p, i) /\ journal[p].kind = "run.created"
  BY <1>3, Predecessor, KeyRules
<1>4. ASSUME NEW i \in Moves, NEW j \in Moves,
             journal[i].kind = "sandbox.ready", journal[j].kind = "sandbox.ready"
      PROVE  i = j
  <2>1. PICK p \in Moves : LastBefore(p, i) /\ journal[p].kind = "run.created"
    BY Zenon, <1>3, <1>4
  <2>2. PICK q \in Moves : LastBefore(q, j) /\ journal[q].kind = "run.created"
    BY Zenon, <1>3, <1>4
  <2>3. p = q
    BY Zenon, <1>2, <2>1, <2>2
  <2> QED BY <1>1, <2>1, <2>2, <2>3 DEF LastBefore
<1> QED BY Zenon, <1>2, <1>4, CreatedIsFirst DEF BeginsOnce

\* Replayed(i) is the state that the journal leads to at i.
LEMMA ReplayedAt ==
  ASSUME LifecycleInv, NEW i \in 1..Len(journal), NEW s, StateAt(i, s)
  PROVE  Replayed(i) = s
<1>1. Len(journal) \in Nat /\ \A m : m \in Moves <=> m \in 1..Len(journal) /\ journal[m].kind \in LifecycleKinds
  BY DEF LifecycleInv, TypeOK, Moves
<1>2. CASE (\A m \in Moves : i =< m) /\ s = "none"
  <2>1. \A j \in 1..(i - 1) : journal[j].kind \notin LifecycleKinds
    BY <1>1, <1>2
  <2> QED BY Zenon, <1>2, <2>1 DEF Replayed
<1>3. ASSUME NEW p \in Moves, LastBefore(p, i), s = Rule(journal[p].kind).to
      PROVE  Replayed(i) = s
  <2> DEFINE last == CHOOSE j \in Moves : j < i /\ \A m \in Moves : m < i => m =< j
  <2>1. p \in 1..(i - 1) /\ journal[p].kind \in LifecycleKinds
    BY <1>1, <1>3 DEF LastBefore
  <2>2. p \in Moves /\ p < i /\ \A m \in Moves : m < i => m =< p
    BY Zenon, <1>3 DEF LastBefore
  <2>3. last \in Moves /\ last < i /\ \A m \in Moves : m < i => m =< last
    BY Zenon, <2>2
  <2> HIDE DEF last
  <2>4. last = p
    BY <1>1, <2>2, <2>3
  <2>5. Replayed(i) = Rule(journal[last].kind).to
    BY Zenon, <2>1 DEF Replayed, last
  <2> QED BY Zenon, <1>3, <2>4, <2>5
<1> QED BY Zenon, <1>2, <1>3 DEF StateAt

\* A legal event is accepted by `reduce', and not as an unknown one, unless it
\* is a note on a Run that is not created.
LEMMA LegalReduces ==
  ASSUME NEW e \in [kind: Catalogue, emitter: Emitters], NEW s, Legal(e, s),
         s # "none" \/ e.kind \in LifecycleKinds
  PROVE  reduce(s, e.kind, e.emitter).ok /\ ~reduce(s, e.kind, e.emitter).unknown
<1>1. CASE e.kind \in LifecycleKinds
  <2>1. s \in Rule(e.kind).from /\ e.emitter = Rule(e.kind).source /\ s \notin Terminal
    BY Zenon, <1>1, Rules DEF Legal
  <2> QED BY Zenon, <1>1, <2>1 DEF reduce, Accept
<1>2. CASE e.kind \notin LifecycleKinds
  <2>1. e.emitter \in NotedBy(e.kind) /\ s # "none"
        /\ ~(s \in Terminal /\ e.kind \notin {"receipt.sealed", "journal.compacted"})
    BY Zenon, <1>2 DEF Legal
  <2>2. NotedBy(e.kind) # {}
    BY Zenon, <2>1
  <2> QED BY Zenon, <1>2, <2>1, <2>2 DEF reduce, Accept
<1> QED BY Zenon, <1>1, <1>2

\* A journal that starts with run.created is accepted again.
LEMMA InvReplays ==
  ASSUME LifecycleInv
  PROVE  CreatedRunReplays
<1> SUFFICES ASSUME journal # <<>>, journal[1].kind = "run.created",
                    NEW i \in 1..Len(journal)
             PROVE  LET r == reduce(Replayed(i), journal[i].kind, journal[i].emitter)
                    IN  r.ok /\ ~r.unknown
    BY Zenon DEF CreatedRunReplays, JournalReplays
<1> DEFINE Events == [kind: Catalogue, emitter: Emitters]
<1>0. journal \in Seq(Events)
  BY Zenon DEF LifecycleInv, TypeOK
<1> HIDE DEF Events
<1>1. Len(journal) \in Nat /\ 1 =< Len(journal) /\ journal[i] \in Events
  BY <1>0
<1>2. 1 \in Moves
  BY <1>1 DEF Moves, LifecycleKinds
<1>3. PICK s \in States : StateAt(i, s) /\ Legal(journal[i], s)
  BY Zenon DEF LifecycleInv
<1>4. Replayed(i) = s
  BY Zenon, <1>3, ReplayedAt
<1>5. s # "none" \/ journal[i].kind \in LifecycleKinds
  <2>1. CASE i = 1
    BY Zenon, <2>1 DEF LifecycleKinds
  <2>2. CASE i # 1
    <3>1. ~ \A m \in Moves : i =< m
      BY <1>1, <1>2, <2>2
    <3>2. PICK p \in Moves : s = Rule(journal[p].kind).to
      BY Zenon, <1>3, <3>1 DEF StateAt
    <3> QED BY Zenon, <3>2, Rules DEF Moves
  <2> QED BY Zenon, <2>1, <2>2
<1> QED BY Zenon, <1>1, <1>3, <1>4, <1>5, LegalReduces DEF Events

-----------------------------------------------------------------------------
(* The theorems.                                                           *)

\* LifecycleInv holds of every reachable state.
LEMMA LifecycleInvariant ==
  Spec => []LifecycleInv
<1>1. Init => LifecycleInv
  BY DEF Init, LifecycleInv, TypeOK, StateAt, Moves, States
<1>2. LifecycleInv /\ [Next]_vars => LifecycleInv'
  <2> SUFFICES ASSUME LifecycleInv, [Next]_vars PROVE LifecycleInv'
      OBVIOUS
  <2>1. CASE Next
    BY Zenon, <2>1, SubmitStep DEF Next
  <2>2. CASE UNCHANGED vars
    BY Zenon, <2>2 DEF vars, LifecycleInv, TypeOK, StateAt, LastBefore, Moves
  <2> QED BY Zenon, <2>1, <2>2
<1> QED BY <1>1, <1>2, PTL DEF Spec

\* RP-1: the state of a Run is the one that the last lifecycle event in its
\* journal leads to, whatever `reduce' was asked to accept.
THEOREM StateIsJournaled ==
  Spec => []StateFollowsJournal
  BY LifecycleInvariant, InvStateFollows, PTL

\* Every run.accepted in a journal follows a proof.started and a
\* proof.finished, with no other lifecycle event between them.
THEOREM AcceptanceNeedsProof ==
  Spec => []AcceptedWasProved
  BY LifecycleInvariant, InvAcceptedProved, PTL

\* run.created is the first lifecycle event of every Run, and neither it nor
\* sandbox.ready is recorded twice.
THEOREM RunsBeginOnce ==
  Spec => []BeginsOnce
  BY LifecycleInvariant, InvBeginsOnce, PTL

\* RP-2: a journal that starts with run.created is accepted again, event by
\* event, when `reduce' replays it.
THEOREM CreatedRunsReplay ==
  Spec => []CreatedRunReplays
  BY LifecycleInvariant, InvReplays, PTL

\* RP-3: no event moves a Run out of accepted or discarded, and only
\* receipt.sealed and journal.compacted are recorded there.
THEOREM TerminalStays ==
  Spec => TerminalIsFinal
<1>1. ASSUME LifecycleInv, [Next]_vars, ~ UNCHANGED vars, state \in Terminal
      PROVE  /\ state' = state
             /\ journal'[Len(journal')].kind \in {"receipt.sealed", "journal.compacted"}
  <2>1. PICK k \in Kinds, em \in Emitters : Submit(k, em)
    BY Zenon, <1>1 DEF Next
  <2> DEFINE r == reduce(state, k, em)
             e == IF r.unknown THEN Marker ELSE [kind |-> k, emitter |-> em]
  <2>2. state \in States /\ r.ok /\ state' = r.state /\ journal' = Append(journal, e)
    BY Zenon, <1>1, <2>1 DEF LifecycleInv, TypeOK, Submit
  <2>3. /\ e \in [kind: Catalogue, emitter: Emitters]
        /\ Legal(e, state)
        /\ IF e.kind \in LifecycleKinds THEN r.state = Rule(e.kind).to
                                        ELSE r.state = state
    BY <2>2, ReduceLegal
  <2> HIDE DEF r, e
  <2>4. e.kind \notin LifecycleKinds
    BY Zenon, <1>1, <2>3, Rules DEF Legal
  <2>5. journal'[Len(journal')] = e
    BY Zenon, <1>1, <2>2, <2>3, MovesAppend DEF LifecycleInv
  <2> QED BY Zenon, <1>1, <2>2, <2>3, <2>4, <2>5 DEF Legal
<1>2. LifecycleInv /\ [Next]_vars
      => [(state \in Terminal) =>
            /\ state' = state
            /\ journal'[Len(journal')].kind \in {"receipt.sealed", "journal.compacted"}]_vars
  BY Zenon, <1>1
<1> QED BY <1>2, LifecycleInvariant, PTL DEF Spec, TerminalIsFinal

-----------------------------------------------------------------------------
(* The pool: no address of the subnet is given twice, none is leaked, and  *)
(* contains() is exact.                                                    *)

USE SMTT(20), ZenonT(20)

\* The subnet in use: four addresses or more, below the end of the space.
LEMMA SubnetBounds ==
  ASSUME subnet \in Subnets
  PROVE  /\ subnet.base \in Nat /\ subnet.size \in Nat /\ subnet.size >= 4
         /\ subnet.base + subnet.size <= AddrSpace /\ AddrSpace \in Nat
BY Zenon, SubnetsOK

\* For every subnet the configuration may name, contains() accepts exactly its
\* host addresses: wrapping subtraction never brings a lower address into range.
LEMMA ValidatedExact ==
  ASSUME subnet \in Subnets, NEW ip \in Addresses
  PROVE  validated(ip) <=> ip > subnet.base + 1 /\ ip < subnet.base + subnet.size - 1
<1>1. /\ subnet.base \in Nat /\ subnet.size \in Nat /\ subnet.size >= 4
      /\ subnet.base + subnet.size <= AddrSpace /\ AddrSpace \in Nat
  BY Zenon, SubnetBounds
<1>2. ip \in Nat /\ ip < AddrSpace
  BY <1>1 DEF Addresses
<1>3. CASE ip >= subnet.base
  BY <1>1, <1>2, <1>3 DEF validated, ip_to_offset, max_host_offset
<1>4. CASE ip < subnet.base
  <2>1. ip_to_offset(ip) = ip - subnet.base + AddrSpace
    BY <1>1, <1>2, <1>4 DEF ip_to_offset
  <2>2. ~validated(ip)
    BY <2>1, <1>1, <1>2 DEF validated, max_host_offset
  <2> QED
    BY <2>2, <1>4, <1>1, <1>2
<1> QED
  BY <1>1, <1>2, <1>3, <1>4

\* The offset of a host address is the inverse of offset_to_ip.
LEMMA OffsetInverse ==
  ASSUME subnet \in Subnets, NEW offset \in 2..max_host_offset
  PROVE  /\ offset_to_ip(offset) \in Addresses
         /\ ip_to_offset(offset_to_ip(offset)) = offset
         /\ validated(offset_to_ip(offset))
<1>1. /\ subnet.base \in Nat /\ subnet.size \in Nat /\ subnet.size >= 4
      /\ subnet.base + subnet.size <= AddrSpace /\ AddrSpace \in Nat
  BY Zenon, SubnetBounds
<1>2. offset \in Nat /\ offset >= 2 /\ offset <= subnet.size - 2
  BY <1>1 DEF max_host_offset
<1> QED
  BY <1>1, <1>2 DEF offset_to_ip, ip_to_offset, validated, max_host_offset, Addresses

\* A validated address has an offset between the gateway and the broadcast.
LEMMA ValidatedOffset ==
  ASSUME subnet \in Subnets, NEW ip \in Addresses, validated(ip)
  PROVE  ip_to_offset(ip) \in 2..max_host_offset
<1>1. /\ subnet.base \in Nat /\ subnet.size \in Nat /\ AddrSpace \in Nat
  BY Zenon, SubnetBounds
<1>2. ip_to_offset(ip) \in Int
  BY <1>1 DEF ip_to_offset, Addresses
<1> QED
  BY <1>1, <1>2 DEF validated, max_host_offset

\* Two validated addresses with the same offset are the same address.
LEMMA OffsetInjective ==
  ASSUME subnet \in Subnets, NEW x \in Addresses, NEW y \in Addresses,
         validated(x), validated(y), ip_to_offset(x) = ip_to_offset(y)
  PROVE  x = y
<1>1. /\ subnet.base \in Nat /\ subnet.size \in Nat /\ subnet.size >= 4
      /\ subnet.base + subnet.size <= AddrSpace /\ AddrSpace \in Nat
  BY Zenon, SubnetBounds
<1>2. x > subnet.base + 1 /\ y > subnet.base + 1
  BY Zenon, ValidatedExact
<1> QED
  BY <1>1, <1>2 DEF ip_to_offset, Addresses

LEMMA PoolStarts == PoolInit => PoolInv
<1> SUFFICES ASSUME PoolInit PROVE PoolInv
  OBVIOUS
<1>1. subnet \in Subnets
  BY Zenon DEF PoolInit
<1>2. /\ subnet.size \in Nat /\ subnet.size >= 4
  BY Zenon, <1>1, SubnetBounds
<1>3. allocated \subseteq 0..max_host_offset
  BY <1>2 DEF PoolInit, Fresh, max_host_offset
<1> QED
  BY Zenon, <1>1, <1>3 DEF PoolInit, PoolInv, PoolTypeOK, AddressesDistinct, RecoveredTaken, Persisted

\* allocate: the free offset belongs to no zone, since those of the zones are taken.
LEMMA AllocatePool ==
  ASSUME PoolInv, NEW z \in Zones, allocate(z)
  PROVE  PoolInv'
<1>1. PICK offset \in 2..max_host_offset :
        /\ offset \notin allocated
        /\ allocated' = allocated \cup {offset}
        /\ addr' = [addr EXCEPT ![z] = offset_to_ip(offset)]
  BY Zenon DEF allocate
<1>2. /\ subnet \in Subnets /\ subnet' = subnet /\ todo = {} /\ todo' = {} /\ addr[z] = None
      /\ addr \in [Zones -> Addresses \cup {None}] /\ allocated \subseteq 0..max_host_offset
      /\ starts' = starts /\ starts \in Nat
  BY Zenon DEF allocate, PoolInv, PoolTypeOK
<1>3. /\ offset_to_ip(offset) \in Addresses
      /\ ip_to_offset(offset_to_ip(offset)) = offset
      /\ validated(offset_to_ip(offset))
  BY Zenon, <1>2, OffsetInverse
<1>4. /\ subnet.size \in Nat /\ max_host_offset \in Int
  BY <1>2, SubnetBounds DEF max_host_offset
<1>5. PoolTypeOK'
  BY <1>1, <1>2, <1>3, <1>4 DEF PoolTypeOK, Persisted, max_host_offset
<1>6. \A y \in Zones : y # z => addr[y] # offset_to_ip(offset)
  <2> SUFFICES ASSUME NEW y \in Zones, y # z, addr[y] = offset_to_ip(offset) PROVE FALSE
    OBVIOUS
  <2>1. addr[y] # None
    BY <1>3, SubnetsOK DEF Addresses, None
  <2>2. y \in Persisted \ todo
    BY Zenon, <2>1, <1>2 DEF Persisted
  <2>3. ip_to_offset(addr[y]) \in allocated
    BY Zenon, <2>2, <1>3 DEF PoolInv, RecoveredTaken
  <2> QED
    BY Zenon, <2>3, <1>1, <1>3
<1>7. \A y \in Zones : addr'[y] = IF y = z THEN offset_to_ip(offset) ELSE addr[y]
  BY Zenon, <1>1, <1>2
<1>8. AddressesDistinct'
  BY Zenon, <1>6, <1>7 DEF PoolInv, AddressesDistinct
<1>9. RecoveredTaken'
  <2> SUFFICES ASSUME NEW y \in (Persisted \ todo)', validated(addr[y])'
               PROVE  ip_to_offset(addr[y])' \in allocated'
    BY Zenon DEF RecoveredTaken
  <2>0. y \in Zones /\ validated(addr'[y])
    BY Zenon, <1>2 DEF Persisted, validated, ip_to_offset, max_host_offset
  <2>1. ip_to_offset(addr[y])' = ip_to_offset(addr'[y])
    BY Zenon, <1>2 DEF ip_to_offset
  <2>2. CASE y = z
    BY <2>1, <2>2, <1>7, <1>3, <1>1
  <2>3. CASE y # z
    <3>1. addr'[y] = addr[y] /\ y \in Persisted \ todo
      BY Zenon, <2>0, <2>3, <1>7, <1>2 DEF Persisted
    <3> QED
      BY <3>1, <2>0, <2>1, <1>1 DEF PoolInv, RecoveredTaken
  <2> QED
    BY Zenon, <2>2, <2>3
<1> QED
  BY Zenon, <1>5, <1>8, <1>9 DEF PoolInv

\* Destroy: the offset released is that zone's alone.
LEMMA DestroyPool ==
  ASSUME PoolInv, NEW z \in Zones, Destroy(z)
  PROVE  PoolInv'
<1>1. /\ subnet \in Subnets /\ subnet' = subnet /\ todo = {} /\ todo' = {} /\ addr[z] # None
      /\ addr \in [Zones -> Addresses \cup {None}] /\ allocated \subseteq 0..max_host_offset
      /\ addr' = [addr EXCEPT ![z] = None] /\ allocated' = release(addr[z])
      /\ starts' = starts /\ starts \in Nat
  BY Zenon DEF Destroy, PoolInv, PoolTypeOK
<1>2. allocated' \subseteq allocated
  BY Zenon, <1>1 DEF release
<1>3. PoolTypeOK'
  BY Zenon, <1>1, <1>2 DEF PoolTypeOK, Persisted, max_host_offset
<1>4. \A y \in Zones : addr'[y] = IF y = z THEN None ELSE addr[y]
  BY Zenon, <1>1
<1>5. AddressesDistinct'
  BY Zenon, <1>4, <1>1 DEF PoolInv, AddressesDistinct
<1>6. RecoveredTaken'
  <2> SUFFICES ASSUME NEW y \in (Persisted \ todo)', validated(addr[y])'
               PROVE  ip_to_offset(addr[y])' \in allocated'
    BY Zenon DEF RecoveredTaken
  <2>1. y \in Zones /\ addr'[y] # None
    BY Zenon DEF Persisted
  <2>2. y # z /\ addr'[y] = addr[y] /\ y \in Persisted \ todo
    BY Zenon, <2>1, <1>4, <1>1 DEF Persisted
  <2>3. validated(addr[y])
    BY Zenon, <2>2, <1>1 DEF validated, ip_to_offset, max_host_offset
  <2>4. ip_to_offset(addr[y]) \in allocated
    BY Zenon, <2>2, <2>3 DEF PoolInv, RecoveredTaken
  <2>5. addr[y] \in Addresses /\ addr[z] \in Addresses /\ addr[y] # addr[z]
    BY Zenon, <2>1, <2>2, <1>1 DEF PoolInv, AddressesDistinct
  <2>6. ip_to_offset(addr[y]) \in allocated'
    <3>1. CASE ~validated(addr[z])
      BY Zenon, <3>1, <2>4, <1>1 DEF release
    <3>2. CASE validated(addr[z])
      <4>1. ip_to_offset(addr[y]) # ip_to_offset(addr[z])
        BY Zenon, <3>2, <2>3, <2>5, <1>1, OffsetInjective
      <4> QED
        BY Zenon, <4>1, <3>2, <2>4, <1>1 DEF release
    <3> QED
      BY Zenon, <3>1, <3>2
  <2>7. ip_to_offset(addr[y])' = ip_to_offset(addr[y])
    BY <2>2, <1>1 DEF ip_to_offset
  <2> QED
    BY Zenon, <2>6, <2>7
<1> QED
  BY Zenon, <1>3, <1>5, <1>6 DEF PoolInv

\* Restart: nothing is recovered yet, so nothing has to be taken.
LEMMA RestartPool ==
  ASSUME PoolInv, Restart
  PROVE  PoolInv'
<1>1. /\ subnet' \in Subnets /\ allocated' = Fresh /\ todo' = Persisted /\ addr' = addr
      /\ starts' = starts + 1 /\ starts \in Nat
  BY Zenon DEF Restart, PoolInv, PoolTypeOK
<1>2. subnet'.size \in Nat /\ subnet'.size >= 4
  BY Zenon, <1>1, SubnetsOK
<1>3. Fresh \subseteq 0..(subnet'.size - 2)
  BY <1>2 DEF Fresh
<1>4. PoolTypeOK'
  BY <1>1, <1>3 DEF PoolInv, PoolTypeOK, Persisted, max_host_offset
<1>5. AddressesDistinct' /\ RecoveredTaken'
  BY Zenon, <1>1 DEF PoolInv, AddressesDistinct, RecoveredTaken, Persisted
<1> QED
  BY Zenon, <1>4, <1>5 DEF PoolInv

\* Recover: the address is marked before its zone counts as recovered.
LEMMA RecoverPool ==
  ASSUME PoolInv, NEW z \in Zones, Recover(z)
  PROVE  PoolInv'
<1>1. /\ subnet \in Subnets /\ subnet' = subnet /\ z \in todo /\ todo' = todo \ {z} /\ addr' = addr
      /\ todo \subseteq Persisted
      /\ addr \in [Zones -> Addresses \cup {None}] /\ allocated \subseteq 0..max_host_offset
      /\ allocated' = mark_allocated(addr[z]) /\ starts' = starts /\ starts \in Nat
  BY Zenon DEF Recover, PoolInv, PoolTypeOK
<1>2. addr[z] \in Addresses
  BY Zenon, <1>1 DEF Persisted
<1>3. allocated \subseteq allocated' /\ allocated' \subseteq 0..max_host_offset
  <2>1. CASE validated(addr[z])
    <3>1. ip_to_offset(addr[z]) \in 2..max_host_offset
      BY Zenon, <2>1, <1>1, <1>2, ValidatedOffset
    <3>2. max_host_offset \in Int
      BY <1>1, SubnetBounds DEF max_host_offset
    <3>3. ip_to_offset(addr[z]) \in 0..max_host_offset
      BY <3>1, <3>2
    <3> QED
      BY Zenon, <3>3, <2>1, <1>1 DEF mark_allocated
  <2>2. CASE ~validated(addr[z])
    BY Zenon, <2>2, <1>1 DEF mark_allocated
  <2> QED
    BY Zenon, <2>1, <2>2
<1>4. PoolTypeOK'
  BY Zenon, <1>1, <1>3 DEF PoolTypeOK, Persisted, max_host_offset
<1>5. AddressesDistinct'
  BY Zenon, <1>1 DEF PoolInv, AddressesDistinct
<1>6. RecoveredTaken'
  <2> SUFFICES ASSUME NEW y \in (Persisted \ todo)', validated(addr[y])'
               PROVE  ip_to_offset(addr[y])' \in allocated'
    BY Zenon DEF RecoveredTaken
  <2>1. y \in Persisted /\ (y \notin todo \/ y = z) /\ addr'[y] = addr[y]
    BY Zenon, <1>1 DEF Persisted
  <2>2. validated(addr[y]) /\ ip_to_offset(addr[y])' = ip_to_offset(addr[y])
    BY Zenon, <2>1, <1>1 DEF validated, ip_to_offset, max_host_offset
  <2>3. CASE y = z
    BY Zenon, <2>2, <2>3, <1>1 DEF mark_allocated
  <2>4. CASE y \notin todo
    BY Zenon, <2>1, <2>2, <2>4, <1>3 DEF PoolInv, RecoveredTaken
  <2> QED
    BY Zenon, <2>1, <2>3, <2>4, <2>2
<1> QED
  BY Zenon, <1>4, <1>5, <1>6 DEF PoolInv

\* The invariant is inductive.
THEOREM PoolInvariant == PoolSpec => []PoolInv
<1>1. PoolInit => PoolInv
  BY Zenon, PoolStarts
<1>2. PoolInv /\ [PoolNext]_poolVars => PoolInv'
  <2> SUFFICES ASSUME PoolInv, [PoolNext]_poolVars PROVE PoolInv'
    OBVIOUS
  <2>1. CASE Restart
    BY Zenon, <2>1, RestartPool
  <2>2. ASSUME NEW z \in Zones, allocate(z) \/ Destroy(z) \/ Recover(z) PROVE PoolInv'
    BY Zenon, <2>2, AllocatePool, DestroyPool, RecoverPool
  <2>3. CASE UNCHANGED poolVars
    BY Zenon, <2>3 DEF poolVars, PoolInv, PoolTypeOK, AddressesDistinct, RecoveredTaken, Persisted, validated,
                ip_to_offset, max_host_offset
  <2> QED
    BY Zenon, <2>1, <2>2, <2>3 DEF PoolNext
<1> QED
  BY <1>1, <1>2, PTL DEF PoolSpec

\* The address of a zone whose offset is taken is validated, and is the address
\* of that offset.
LEMMA TakenOffset ==
  ASSUME PoolInv, NEW offset \in allocated \ Fresh
  PROVE  /\ validated(offset_to_ip(offset))
         /\ ip_to_offset(offset_to_ip(offset)) = offset
<1>1. subnet \in Subnets /\ allocated \subseteq 0..max_host_offset
  BY Zenon DEF PoolInv, PoolTypeOK
<1>2. max_host_offset \in Int
  BY <1>1, SubnetBounds DEF max_host_offset
<1>3. offset \in 2..max_host_offset
  BY <1>1, <1>2 DEF Fresh
<1> QED
  BY Zenon, <1>1, <1>3, OffsetInverse

\* A validated address is the one its offset stands for.
LEMMA AddressInverse ==
  ASSUME subnet \in Subnets, NEW ip \in Addresses, validated(ip)
  PROVE  offset_to_ip(ip_to_offset(ip)) = ip
<1>1. /\ subnet.base \in Nat /\ subnet.size \in Nat /\ AddrSpace \in Nat
  BY Zenon, SubnetBounds
<1>2. ip > subnet.base + 1
  BY Zenon, ValidatedExact
<1> QED
  BY <1>1, <1>2 DEF ip_to_offset, offset_to_ip, Addresses

\* No step leaks an offset: a zone that goes gives back its own, a zone that is
\* recovered takes its own.
LEMMA LeakStep ==
  ASSUME PoolInv, NothingLeaked, [PoolNext]_poolVars
  PROVE  NothingLeaked'
<1>0. subnet \in Subnets /\ addr \in [Zones -> Addresses \cup {None}] /\ todo \subseteq Persisted
  BY Zenon DEF PoolInv, PoolTypeOK
<1>1. CASE Restart
  BY Zenon, <1>1 DEF Restart, NothingLeaked, Fresh
<1>2. ASSUME NEW z \in Zones, allocate(z) PROVE NothingLeaked'
  <2>1. PICK offset \in 2..max_host_offset :
          /\ allocated' = allocated \cup {offset}
          /\ addr' = [addr EXCEPT ![z] = offset_to_ip(offset)]
    BY Zenon, <1>2 DEF allocate
  <2>2. subnet' = subnet /\ addr[z] = None
    BY Zenon, <1>2 DEF allocate
  <2>3. offset_to_ip(offset) \in Addresses
    BY Zenon, <1>0, OffsetInverse
  <2>4. addr'[z] = offset_to_ip(offset) /\ addr'[z] # None
    BY <2>1, <2>3, <1>0, SubnetBounds DEF Addresses, None
  <2>5. \A y \in Persisted : y \in Zones /\ addr'[y] = addr[y] /\ addr[y] # None
    BY Zenon, <2>1, <2>2, <1>0 DEF Persisted
  <2> QED
    BY <2>1, <2>2, <2>4, <2>5 DEF NothingLeaked, Persisted, Fresh, offset_to_ip
<1>3. ASSUME NEW z \in Zones, Destroy(z) PROVE NothingLeaked'
  <2>1. /\ allocated' = release(addr[z]) /\ subnet' = subnet
        /\ addr' = [addr EXCEPT ![z] = None]
    BY Zenon, <1>3 DEF Destroy
  <2>2. SUFFICES ASSUME NEW offset \in allocated' \ Fresh
                 PROVE  \E y \in Persisted' : addr'[y] = offset_to_ip(offset)
    BY Zenon, <2>1 DEF NothingLeaked, Fresh, offset_to_ip
  <2>3. offset \in allocated \ Fresh
    BY Zenon, <2>1, <2>2 DEF release
  <2>4. PICK y \in Persisted : addr[y] = offset_to_ip(offset)
    BY Zenon, <2>3 DEF NothingLeaked
  <2>5. y # z
    BY Zenon, <2>1, <2>2, <2>3, <2>4, TakenOffset DEF release
  <2> QED
    BY Zenon, <2>1, <2>4, <2>5, <1>0 DEF Persisted
<1>4. ASSUME NEW z \in Zones, Recover(z) PROVE NothingLeaked'
  <2>1. z \in Persisted /\ addr' = addr /\ subnet' = subnet /\ allocated' = mark_allocated(addr[z])
    BY Zenon, <1>4, <1>0 DEF Recover
  <2>2. addr[z] \in Addresses
    BY Zenon, <2>1, <1>0 DEF Persisted
  <2>3. validated(addr[z]) => offset_to_ip(ip_to_offset(addr[z])) = addr[z]
    BY Zenon, <2>2, <1>0, AddressInverse
  <2> QED
    BY Zenon, <2>1, <2>3 DEF NothingLeaked, mark_allocated, Persisted, Fresh, offset_to_ip
<1>5. CASE UNCHANGED poolVars
  BY Zenon, <1>5 DEF poolVars, NothingLeaked, Persisted, Fresh, offset_to_ip
<1> QED
  BY Zenon, <1>1, <1>2, <1>3, <1>4, <1>5 DEF PoolNext

\* The pool and the zones agree, for every number of zones, every address space
\* and every sequence of subnets the daemon is restarted with: no two zones share
\* an address, nothing is leaked, and contains() is exact.
THEOREM PoolIsExact == PoolSpec => []PoolExact
<1>1. PoolInit => NothingLeaked
  BY Zenon DEF PoolInit, NothingLeaked
<1>2. PoolInv /\ NothingLeaked /\ [PoolNext]_poolVars => NothingLeaked'
  BY Zenon, LeakStep
<1>3. PoolInv => AddressesDistinct /\ RecoveredTaken
  BY Zenon DEF PoolInv
<1>4. PoolInv => ContainsExact
  BY Zenon, ValidatedExact DEF PoolInv, PoolTypeOK, ContainsExact
<1>5. AddressesDistinct /\ RecoveredTaken /\ NothingLeaked /\ ContainsExact => PoolExact
  BY Zenon DEF PoolExact
<1> QED
  BY <1>1, <1>2, <1>3, <1>4, <1>5, PoolInvariant, PTL DEF PoolSpec

\* Every address a zone is given is a host address of the subnet in use.
THEOREM Hosts == PoolSpec => AllocatesHosts
<1>1. PoolInv /\ [PoolNext]_poolVars =>
        [\A z \in Zones : addr[z] = None /\ addr'[z] # None => validated(addr'[z])]_poolVars
  <2> SUFFICES ASSUME PoolInv, PoolNext,
                      NEW z \in Zones, addr[z] = None, addr'[z] # None
               PROVE  validated(addr'[z])
    BY Zenon DEF poolVars
  <2>0. addr \in [Zones -> Addresses \cup {None}] /\ subnet \in Subnets
    BY Zenon DEF PoolInv, PoolTypeOK
  <2>1. CASE Restart
    BY Zenon, <2>1 DEF Restart
  <2>2. ASSUME NEW y \in Zones, allocate(y) PROVE validated(addr'[z])
    <3>1. PICK offset \in 2..max_host_offset : addr' = [addr EXCEPT ![y] = offset_to_ip(offset)]
      BY Zenon, <2>2 DEF allocate
    <3>2. addr'[z] = offset_to_ip(offset)
      BY Zenon, <3>1, <2>0
    <3> QED
      BY Zenon, <3>2, <2>0, OffsetInverse
  <2>3. ASSUME NEW y \in Zones, Destroy(y) \/ Recover(y) PROVE validated(addr'[z])
    BY Zenon, <2>3, <2>0 DEF Destroy, Recover
  <2> QED
    BY Zenon, <2>1, <2>2, <2>3 DEF PoolNext
<1> QED
  BY <1>1, PoolInvariant, PTL DEF PoolSpec, AllocatesHosts

-----------------------------------------------------------------------------
(* The enforcer backend over the eBPF maps.                                *)

\* Nothing is registered and no call has begun.
LEMMA EnforcerStarts == EnforcerInit => EnforcerInv
<1> SUFFICES ASSUME EnforcerInit PROVE EnforcerInv
  OBVIOUS
<1>1. CallsTyped
  BY DEF EnforcerInit, CallsTyped, Idle, Places, At
<1>2. IdsGiven /\ NoAlias
  BY DEF EnforcerInit, IdsGiven, NoAlias, RefsNeverAlias, Idle, At
<1>3. RefsEnforced
  BY DEF EnforcerInit, RefsEnforced
<1> QED BY <1>1, <1>2, <1>3 DEF EnforcerInv

\* A client that goes on has its new call; the other clients have theirs.
LEMMA OthersGoOn ==
  ASSUME CallsTyped, NEW k \in Clients, NEW c, Goes(k, c)
  PROVE  /\ doing'[k] = c
         /\ \A j \in Clients \ {k} : doing'[j] = doing[j]
         /\ DOMAIN doing' = Clients
  BY DEF CallsTyped, Goes

\* The calls that only write a map.
Writes(k) ==
    \/ \E r \in refs : apply_policy(k, r) \/ register_host_path(k, r)
    \/ \E r \in refs, c \in CgroupIds : attach_container(k, r, c)
    \/ \E c \in CgroupIds : detach_container(k, c)

\* They leave the table, the ZoneRefs, the calls and who may talk alone, and
\* take no policy away.
LEMMA WriteFrame ==
  ASSUME NEW k \in Clients, Writes(k)
  PROVE  /\ UNCHANGED <<table, refs, doing, loaded, ZONE_ALLOWED_COMMS>>
         /\ ZONE_POLICY \subseteq ZONE_POLICY' /\ At(k, "idle")
<1>1. ASSUME NEW r \in refs, apply_policy(k, r)
      PROVE  ZONE_POLICY \subseteq ZONE_POLICY'
  BY <1>1 DEF apply_policy, with_bpf
<1>2. ASSUME NEW r \in refs, apply_policy(k, r)
      PROVE  UNCHANGED <<table, refs, doing, loaded, ZONE_ALLOWED_COMMS>> /\ At(k, "idle")
  BY <1>2 DEF apply_policy
<1>3. ASSUME NEW r \in refs, register_host_path(k, r)
      PROVE  UNCHANGED <<table, refs, doing, loaded, ZONE_ALLOWED_COMMS, ZONE_POLICY>> /\ At(k, "idle")
  BY <1>3 DEF register_host_path
<1>4. ASSUME NEW r \in refs, NEW c \in CgroupIds, attach_container(k, r, c)
      PROVE  UNCHANGED <<table, refs, doing, loaded, ZONE_ALLOWED_COMMS, ZONE_POLICY>> /\ At(k, "idle")
  BY <1>4 DEF attach_container
<1>5. ASSUME NEW c \in CgroupIds, detach_container(k, c)
      PROVE  UNCHANGED <<table, refs, doing, loaded, ZONE_ALLOWED_COMMS, ZONE_POLICY>> /\ At(k, "idle")
  BY <1>5 DEF detach_container
<1> QED BY <1>1, <1>2, <1>3, <1>4, <1>5 DEF Writes

\* Steps that leave the table, the ZoneRefs and the calls alone and take no
\* policy away: apply_policy, attach_container, detach_container,
\* register_host_path, and a first direction of allow_comm that fails.
LEMMA QuietStep ==
  ASSUME EnforcerInv, UNCHANGED <<table, refs, doing, loaded>>,
         ZONE_POLICY \subseteq ZONE_POLICY'
  PROVE  EnforcerInv'
<1>1. CallsTyped'
  BY DEF EnforcerInv, CallsTyped, table, At
<1>2. IdsGiven'
  BY DEF EnforcerInv, IdsGiven, table
<1>3. NoAlias'
  BY DEF EnforcerInv, NoAlias, RefsNeverAlias, table, At
<1>4. RefsEnforced'
  BY DEF EnforcerInv, RefsEnforced, table, At
<1> QED BY <1>1, <1>2, <1>3, <1>4 DEF EnforcerInv

\* Steps of a client that only move its call to one that is not between two
\* locks of register_zone, remove_zone or shutdown.
LEMMA CallStep ==
  ASSUME EnforcerInv, NEW k \in Clients, NEW c, Goes(k, c),
         c \in [at : Places, name : Names \cup {"none"}, id : Nat, peer : Nat],
         c.at \in {"register", "remove"} => c.name \in Names,
         c.at \notin {"policy", "unpolicy"}, c.id < next,
         ~At(k, "clear") \/ c.at = "clear",
         UNCHANGED <<table, refs, loaded>>, ZONE_POLICY \subseteq ZONE_POLICY'
  PROVE  EnforcerInv'
<1>1. /\ doing'[k] = c
      /\ \A j \in Clients \ {k} : doing'[j] = doing[j]
  BY OthersGoOn DEF EnforcerInv
<1>2. CallsTyped'
  BY <1>1 DEF EnforcerInv, CallsTyped, table, At, Goes
<1>3. IdsGiven'
  BY <1>1 DEF EnforcerInv, IdsGiven, table
<1>4. NoAlias'
  BY <1>1 DEF EnforcerInv, NoAlias, RefsNeverAlias, table, At
<1>5. RefsEnforced'
  BY <1>1 DEF EnforcerInv, RefsEnforced, table, At
<1> QED BY <1>2, <1>3, <1>4, <1>5 DEF EnforcerInv

\* load is called on a backend that is down: without a shutdown in progress no
\* ZoneRef names a registered zone, so the fresh maps lack nothing.
LEMMA LoadStep ==
  ASSUME EnforcerInv, NEW k \in Clients, load(k)
  PROVE  EnforcerInv'
<1> USE DEF load
<1>1. CallsTyped'
  BY DEF EnforcerInv, CallsTyped, table, At
<1>2. IdsGiven'
  BY DEF EnforcerInv, IdsGiven, table
<1>3. NoAlias'
  BY DEF EnforcerInv, NoAlias, RefsNeverAlias, table, At
<1>4. RefsEnforced'
  BY DEF EnforcerInv, RefsEnforced, table, At
<1> QED BY <1>1, <1>2, <1>3, <1>4 DEF EnforcerInv

\* The first lock of shutdown empties the maps and leaves the table to clear.
LEMMA TakeStep ==
  ASSUME EnforcerInv, NEW k \in Clients, shutdown_take(k)
  PROVE  EnforcerInv'
<1> DEFINE c == [Idle EXCEPT !.at = "clear"]
<1>1. /\ doing'[k] = c
      /\ \A j \in Clients \ {k} : doing'[j] = doing[j]
  BY OthersGoOn DEF EnforcerInv, shutdown_take
<1>2. /\ c \in [at : Places, name : Names \cup {"none"}, id : Nat, peer : Nat]
      /\ c.at = "clear" /\ c.id = 0
  BY DEF Idle, Places
<1>3. CallsTyped'
  BY <1>1, <1>2 DEF EnforcerInv, CallsTyped, shutdown_take, table, At, Goes
<1>4. IdsGiven'
  BY <1>1, <1>2 DEF EnforcerInv, CallsTyped, IdsGiven, shutdown_take, table
<1>5. NoAlias'
  BY <1>1, <1>2 DEF EnforcerInv, NoAlias, RefsNeverAlias, shutdown_take, table, At
<1>6. RefsEnforced'
  BY <1>1, <1>2 DEF RefsEnforced, At
<1> QED BY <1>3, <1>4, <1>5, <1>6 DEF EnforcerInv

\* The second lock of shutdown clears the table: no ZoneRef names a zone in it.
LEMMA ClearStep ==
  ASSUME EnforcerInv, NEW k \in Clients, shutdown_clear(k)
  PROVE  EnforcerInv'
<1>1. /\ doing'[k] = Idle
      /\ \A j \in Clients \ {k} : doing'[j] = doing[j]
  BY OthersGoOn DEF EnforcerInv, shutdown_clear, Ends
<1>2. /\ Idle \in [at : Places, name : Names \cup {"none"}, id : Nat, peer : Nat]
      /\ Idle.at = "idle" /\ Idle.id = 0
  BY DEF Idle, Places
<1>3. \A n \in Names : trait_zones'[n] = 0
  BY DEF shutdown_clear
<1>4. CallsTyped'
  BY <1>1, <1>2 DEF EnforcerInv, CallsTyped, shutdown_clear, At, Ends, Goes
<1>5. IdsGiven'
  BY <1>1, <1>2, <1>3 DEF EnforcerInv, CallsTyped, IdsGiven, shutdown_clear
<1>6. NoAlias'
  <2>1. RefsNeverAlias'
    BY <1>3 DEF EnforcerInv, CallsTyped, RefsNeverAlias, shutdown_clear
  <2>2. ASSUME NEW j \in Clients, At(j, "unpolicy")' PROVE doing'[j].id # 0
    BY <2>2, <1>1, <1>2 DEF EnforcerInv, NoAlias, At
  <2> QED BY <1>1, <1>2, <1>3, <2>1, <2>2 DEF EnforcerInv, NoAlias, At
<1>7. RefsEnforced'
  BY <1>3 DEF EnforcerInv, CallsTyped, RefsEnforced, shutdown_clear
<1> QED BY <1>4, <1>5, <1>6, <1>7 DEF EnforcerInv

\* register_zone's first lock: a new zone gets an id that nobody has seen.
LEMMA EnterStep ==
  ASSUME EnforcerInv, NEW k \in Clients, register_enter(k)
  PROVE  EnforcerInv'
<1> DEFINE n == doing[k].name
           c == [doing[k] EXCEPT !.at = "policy", !.id = trait_zones'[n]]
<1>1. /\ doing'[k] = c
      /\ \A j \in Clients \ {k} : doing'[j] = doing[j]
  BY OthersGoOn DEF EnforcerInv, register_enter
<1>2. n \in Names
  BY DEF EnforcerInv, CallsTyped, register_enter, At
<1>3. /\ trait_zones' \in [Names -> Nat] /\ next' \in Nat \ {0} /\ next <= next'
      /\ trait_zones'[n] # 0 /\ trait_zones'[n] < next'
      /\ trait_zones'[n] = trait_zones[n] \/ trait_zones'[n] = next
      /\ \A m \in Names \ {n} : trait_zones'[m] = trait_zones[m]
  BY <1>2 DEF EnforcerInv, CallsTyped, IdsGiven, register_enter, table
<1>4. /\ c \in [at : Places, name : Names \cup {"none"}, id : Nat, peer : Nat]
      /\ c.at = "policy" /\ c.name = n /\ c.id = trait_zones'[n]
  BY <1>2, <1>3 DEF EnforcerInv, CallsTyped, Places
<1>5. CallsTyped'
  BY <1>1, <1>2, <1>3, <1>4 DEF EnforcerInv, CallsTyped, register_enter, At, Goes
<1>6. UNCHANGED <<refs, loaded, ZONE_POLICY>>
  BY DEF register_enter, maps
<1> HIDE DEF c, n
<1>7. IdsGiven'
  BY <1>1, <1>2, <1>3, <1>4, <1>6 DEF EnforcerInv, CallsTyped, IdsGiven
<1>8. NoAlias'
  <2>1. ASSUME NEW m \in Names, NEW l \in Names, trait_zones'[m] = trait_zones'[l], trait_zones'[l] # 0
        PROVE  m = l
    BY <1>2, <1>3, <2>1 DEF EnforcerInv, CallsTyped, IdsGiven, NoAlias
  <2>2. RefsNeverAlias'
    BY <1>2, <1>3, <1>6 DEF EnforcerInv, CallsTyped, IdsGiven, NoAlias, RefsNeverAlias
  <2>3. ASSUME NEW j \in Clients \ {k}, At(j, "policy") \/ At(j, "unpolicy"), NEW m \in Names,
               trait_zones'[m] = doing[j].id
        PROVE  trait_zones[m] = doing[j].id
    BY <1>2, <1>3, <2>3 DEF EnforcerInv, CallsTyped, IdsGiven
  <2>4. ASSUME NEW j \in Clients PROVE At(j, "policy")' \/ At(j, "unpolicy")' => doing'[j].id # 0
    BY <1>1, <1>3, <1>4 DEF EnforcerInv, NoAlias, At
  <2>5. ASSUME NEW j \in Clients, At(j, "policy")', NEW m \in Names, trait_zones'[m] = doing'[j].id
        PROVE  m = doing'[j].name
    BY <1>1, <1>2, <1>3, <1>4, <2>1, <2>3, <2>5 DEF EnforcerInv, NoAlias, At
  <2>6. ASSUME NEW j \in Clients, At(j, "unpolicy")', NEW m \in Names
        PROVE  trait_zones'[m] # doing'[j].id
    BY <1>1, <1>4, <2>3, <2>6 DEF EnforcerInv, NoAlias, At
  <2> QED BY <2>1, <2>2, <2>4, <2>5, <2>6 DEF NoAlias
<1>9. RefsEnforced'
  BY <1>1, <1>2, <1>3, <1>4, <1>6
     DEF EnforcerInv, CallsTyped, IdsGiven, RefsEnforced, register_enter, At
<1> QED BY <1>5, <1>7, <1>8, <1>9 DEF EnforcerInv

\* register_zone's second lock: the ZoneRef is handed out with the policy.
LEMMA ApplyStep ==
  ASSUME EnforcerInv, NEW k \in Clients, register_apply(k)
  PROVE  EnforcerInv'
<1> DEFINE r == [name |-> doing[k].name, kernel_id |-> doing[k].id]
<1>1. /\ doing'[k] = Idle
      /\ \A j \in Clients \ {k} : doing'[j] = doing[j]
  BY OthersGoOn DEF EnforcerInv, register_apply, Ends
<1>2. /\ Idle \in [at : Places, name : Names \cup {"none"}, id : Nat, peer : Nat]
      /\ Idle.at = "idle" /\ Idle.id = 0
  BY DEF Idle, Places
<1>3. /\ r \in [name : Names, kernel_id : Nat \ {0}] /\ r.kernel_id < next
      /\ \A n \in Names : trait_zones[n] = r.kernel_id => n = r.name
      /\ r.kernel_id = doing[k].id
  BY DEF EnforcerInv, CallsTyped, IdsGiven, NoAlias, register_apply, At
<1>4. \/ loaded /\ ZONE_POLICY' = ZONE_POLICY \cup {r.kernel_id} /\ refs' = refs \cup {r}
      \/ ZONE_POLICY' = ZONE_POLICY /\ refs' = refs
  BY <1>3 DEF register_apply, with_bpf
<1>5. CallsTyped'
  BY <1>1, <1>2, <1>3, <1>4 DEF EnforcerInv, CallsTyped, register_apply, At, Ends, Goes, table
<1>6. IdsGiven'
  BY <1>1, <1>2, <1>3, <1>4 DEF EnforcerInv, CallsTyped, IdsGiven, register_apply, table
<1>7. NoAlias'
  BY <1>1, <1>2, <1>3, <1>4 DEF EnforcerInv, NoAlias, RefsNeverAlias, register_apply, At, table
<1>8. RefsEnforced'
  BY <1>1, <1>2, <1>3, <1>4 DEF EnforcerInv, RefsEnforced, register_apply, At, table
<1> QED BY <1>5, <1>6, <1>7, <1>8 DEF EnforcerInv

\* remove_zone's first lock: the id leaves the table, and is never given again.
LEMMA LeaveStep ==
  ASSUME EnforcerInv, NEW k \in Clients, remove_enter(k)
  PROVE  EnforcerInv'
<1> DEFINE n == doing[k].name
           c == IF trait_zones[n] = 0 THEN Idle
                ELSE [doing[k] EXCEPT !.at = "unpolicy", !.id = trait_zones[n]]
<1>1. /\ doing'[k] = c
      /\ \A j \in Clients \ {k} : doing'[j] = doing[j]
  <2>1. Goes(k, c)
    BY DEF remove_enter, Ends
  <2> QED BY <2>1, OthersGoOn DEF EnforcerInv
<1>2. n \in Names /\ ~At(k, "clear")
  BY DEF EnforcerInv, CallsTyped, remove_enter, At
<1>3. /\ trait_zones' \in [Names -> Nat] /\ trait_zones'[n] = 0
      /\ \A m \in Names \ {n} : trait_zones'[m] = trait_zones[m]
  BY <1>2 DEF EnforcerInv, CallsTyped, remove_enter
<1>4. /\ c \in [at : Places, name : Names \cup {"none"}, id : Nat, peer : Nat]
      /\ c.at \in {"idle", "unpolicy"} /\ c.id = trait_zones[n]
      /\ c.at = "unpolicy" => trait_zones[n] # 0
  BY <1>2 DEF EnforcerInv, CallsTyped, Places, Idle
<1>5. doing' \in [Clients -> [at : Places, name : Names \cup {"none"}, id : Nat, peer : Nat]]
  BY <1>1, <1>4 DEF EnforcerInv, CallsTyped, remove_enter, Goes, Ends
<1>6. UNCHANGED <<refs, loaded, ZONE_POLICY, next>>
  BY DEF remove_enter, maps
<1> HIDE DEF c, n
<1>7. CallsTyped'
  BY <1>1, <1>2, <1>3, <1>4, <1>5, <1>6 DEF EnforcerInv, CallsTyped, At
<1>8. IdsGiven'
  BY <1>1, <1>2, <1>3, <1>4, <1>6 DEF EnforcerInv, CallsTyped, IdsGiven
<1>9. NoAlias'
  <2>1. RefsNeverAlias'
    BY <1>2, <1>3, <1>6 DEF EnforcerInv, CallsTyped, NoAlias, RefsNeverAlias
  <2>2. ASSUME NEW j \in Clients, At(j, "policy")' \/ At(j, "unpolicy")' PROVE doing'[j].id # 0
    BY <1>1, <1>4, <2>2 DEF EnforcerInv, NoAlias, At
  <2>3. ASSUME NEW j \in Clients, At(j, "policy")', NEW m \in Names, trait_zones'[m] = doing'[j].id
        PROVE  m = doing'[j].name
    BY <1>1, <1>2, <1>3, <1>4, <2>2, <2>3 DEF EnforcerInv, NoAlias, At
  <2>4. ASSUME NEW j \in Clients, At(j, "unpolicy")', NEW m \in Names
        PROVE  trait_zones'[m] # doing'[j].id
    <3>1. CASE j = k
      BY <1>1, <1>2, <1>3, <1>4, <2>4, <3>1 DEF EnforcerInv, NoAlias, At
    <3>2. CASE j # k
      BY <1>1, <1>2, <1>3, <2>2, <2>4, <3>2 DEF EnforcerInv, NoAlias, At
    <3> QED BY <3>1, <3>2
  <2>5. ASSUME NEW m \in Names, NEW l \in Names, trait_zones'[m] = trait_zones'[l], trait_zones'[l] # 0
        PROVE  m = l
    BY <1>2, <1>3, <2>5 DEF EnforcerInv, NoAlias
  <2> QED BY <2>1, <2>2, <2>3, <2>4, <2>5 DEF NoAlias
<1>10. RefsEnforced'
  BY <1>1, <1>2, <1>3, <1>4, <1>6 DEF EnforcerInv, CallsTyped, RefsEnforced, At
<1> QED BY <1>7, <1>8, <1>9, <1>10 DEF EnforcerInv

\* remove_zone's second lock takes the policy of an id that no name has.
LEMMA UnpolicyStep ==
  ASSUME EnforcerInv, NEW k \in Clients, remove_policy(k)
  PROVE  EnforcerInv'
<1>1. /\ doing'[k] = Idle
      /\ \A j \in Clients \ {k} : doing'[j] = doing[j]
  BY OthersGoOn DEF EnforcerInv, remove_policy, Ends
<1>2. /\ Idle \in [at : Places, name : Names \cup {"none"}, id : Nat, peer : Nat]
      /\ Idle.at = "idle" /\ Idle.id = 0
  BY DEF Idle, Places
<1>3. \A p \in ZONE_POLICY : p # doing[k].id => p \in ZONE_POLICY'
  BY DEF remove_policy, with_bpf
<1>4. CallsTyped'
  BY <1>1, <1>2 DEF EnforcerInv, CallsTyped, remove_policy, At, Ends, Goes, table
<1>5. IdsGiven'
  BY <1>1, <1>2 DEF EnforcerInv, CallsTyped, IdsGiven, remove_policy, table
<1>6. NoAlias'
  BY <1>1, <1>2 DEF EnforcerInv, NoAlias, RefsNeverAlias, remove_policy, At, table
<1>7. RefsEnforced'
  BY <1>1, <1>2, <1>3 DEF EnforcerInv, CallsTyped, NoAlias, RefsEnforced, remove_policy, At, table
<1> QED BY <1>4, <1>5, <1>6, <1>7 DEF EnforcerInv

\* register_zone and remove_zone begin with a name.
LEMMA BeginStep ==
  ASSUME EnforcerInv, NEW k \in Clients, NEW n \in Names, NEW where \in {"register", "remove"},
         Begin(k, n, where)
  PROVE  EnforcerInv'
<1> DEFINE c == [Idle EXCEPT !.at = where, !.name = n]
<1>1. /\ c \in [at : Places, name : Names \cup {"none"}, id : Nat, peer : Nat]
      /\ c.at = where /\ c.name = n /\ c.id = 0
  BY DEF Idle, Places
<1>2. Goes(k, c) /\ ~At(k, "clear") /\ UNCHANGED <<table, refs, loaded, ZONE_POLICY>>
  BY DEF Begin, maps, At
<1>3. 0 < next
  BY DEF EnforcerInv, CallsTyped
<1> HIDE DEF c
<1> QED BY <1>1, <1>2, <1>3, CallStep

\* allow_comm and deny_comm write no policy.
LEMMA TalkStep ==
  ASSUME EnforcerInv, NEW k \in Clients,
         \/ comm_back(k)
         \/ \E a, b \in refs, allow \in BOOLEAN : comm_there(k, a, b, allow)
  PROVE  EnforcerInv'
<1> DEFINE calls == [at : Places, name : Names \cup {"none"}, id : Nat, peer : Nat]
<1>0. 0 < next
  BY DEF EnforcerInv, CallsTyped
<1>1. CASE comm_back(k)
  <2>1. Idle \in calls /\ Idle.at = "idle" /\ Idle.id = 0
    BY DEF Idle, Places
  <2>2. Goes(k, Idle) /\ ~At(k, "clear") /\ UNCHANGED <<table, refs, loaded, ZONE_POLICY>>
    BY <1>1 DEF comm_back, OnlyComms, Ends, At
  <2> QED BY <1>0, <2>1, <2>2, CallStep
<1>2. CASE \E a, b \in refs, allow \in BOOLEAN : comm_there(k, a, b, allow)
  <2>1. PICK a \in refs, b \in refs, allow \in BOOLEAN : comm_there(k, a, b, allow)
    BY <1>2
  <2> DEFINE c == [Idle EXCEPT !.at = IF allow THEN "allow" ELSE "deny",
                               !.id = b.kernel_id, !.peer = a.kernel_id]
  <2>2. /\ c \in calls /\ c.at \in {"allow", "deny"} /\ c.id < next
    BY DEF EnforcerInv, CallsTyped, IdsGiven, Idle, Places
  <2>3. /\ UNCHANGED <<table, refs, loaded, ZONE_POLICY>> /\ ~At(k, "clear")
        /\ Goes(k, c) \/ UNCHANGED doing
    BY <2>1 DEF comm_there, with_bpf, OnlyComms, At
  <2> HIDE DEF c
  <2>4. CASE Goes(k, c)
    BY <2>2, <2>3, <2>4, CallStep
  <2>5. CASE UNCHANGED doing
    BY <2>3, <2>5, QuietStep
  <2> QED BY <2>3, <2>4, <2>5
<1> QED BY <1>1, <1>2

\* The calls that only write a map keep EnforcerInv.
LEMMA WriteStep ==
  ASSUME EnforcerInv, NEW k \in Clients, Writes(k)
  PROVE  EnforcerInv'
  BY WriteFrame, QuietStep

\* Every step of every client keeps EnforcerInv.
LEMMA EnforcerSteps ==
  ASSUME EnforcerInv, [EnforcerNext]_enforcerVars
  PROVE  EnforcerInv'
<1>1. CASE UNCHANGED enforcerVars
  <2>1. UNCHANGED <<table, refs, doing, loaded>> /\ ZONE_POLICY \subseteq ZONE_POLICY'
    BY <1>1 DEF enforcerVars, maps
  <2> QED BY <2>1, QuietStep
<1>2. CASE EnforcerNext
  <2>1. PICK k \in Clients :
          \/ load(k) \/ shutdown_take(k) \/ shutdown_clear(k)
          \/ \E n \in Names : Begin(k, n, "register") \/ Begin(k, n, "remove")
          \/ register_enter(k) \/ register_apply(k) \/ remove_enter(k) \/ remove_policy(k)
          \/ Writes(k) \/ comm_back(k)
          \/ \E a, b \in refs, allow \in BOOLEAN : comm_there(k, a, b, allow)
    BY Zenon, <1>2 DEF EnforcerNext, Writes
  <2> QED BY Zenon, <2>1, LoadStep, TakeStep, ClearStep, BeginStep, EnterStep, ApplyStep,
             LeaveStep, UnpolicyStep, WriteStep, TalkStep
<1> QED BY <1>1, <1>2

\* EnforcerInv holds in every state, whatever calls overlap, whatever writes
\* fail, over any number of shutdowns and loads.
LEMMA EnforcerInvariant == EnforcerSpec => []EnforcerInv
  BY EnforcerStarts, EnforcerSteps, PTL DEF EnforcerSpec

\* For any clients, zones and failing writes: the id of a ZoneRef never comes
\* to name another zone, and a registered zone that verify says ok of and that
\* no call is working on has its policy in the map.
THEOREM RefsStayFaithful == EnforcerSpec => []RefsFaithful
<1>1. EnforcerInv => RefsFaithful
  BY DEF EnforcerInv, NoAlias, RefsEnforced, RefsFaithful, VerifiedHasPolicy, Busy
<1> QED BY <1>1, EnforcerInvariant, PTL

\* Where no write fails and nobody shuts down, a policy that is owed is being
\* written.
LEMMA PolicySteps ==
  ASSUME ~MayFail, ~MayShutdown, EnforcerInv, PolicyInv, [EnforcerNext]_enforcerVars
  PROVE  PolicyInv'
<1> DEFINE Talks(k) == \/ comm_back(k)
                       \/ \E a, b \in refs, allow \in BOOLEAN : comm_there(k, a, b, allow)
<1>1. ASSUME UNCHANGED <<trait_zones, loaded>>, ZONE_POLICY \subseteq ZONE_POLICY',
             NEW k \in Clients, ~At(k, "policy"), \A j \in Clients \ {k} : doing'[j] = doing[j]
      PROVE  PolicyInv'
  BY <1>1 DEF PolicyInv, At
<1>2. CASE UNCHANGED enforcerVars
  BY <1>2 DEF PolicyInv, enforcerVars, maps, table, At
<1>3. ASSUME NEW k \in Clients, shutdown_clear(k) PROVE PolicyInv'
  BY <1>3 DEF PolicyInv, shutdown_clear
<1>4. ASSUME NEW k \in Clients, NEW n \in Names, NEW where \in {"register", "remove"},
             Begin(k, n, where)
      PROVE  PolicyInv'
  <2>1. /\ \A j \in Clients \ {k} : doing'[j] = doing[j]
        /\ ~At(k, "policy") /\ UNCHANGED <<trait_zones, loaded, ZONE_POLICY>>
    BY <1>4, OthersGoOn DEF EnforcerInv, Begin, maps, table, At
  <2> QED BY <2>1, <1>1
<1>5. ASSUME NEW k \in Clients, register_enter(k) PROVE PolicyInv'
  <2> DEFINE n == doing[k].name
             c == [doing[k] EXCEPT !.at = "policy", !.id = trait_zones'[n]]
  <2>1. doing'[k] = c /\ \A j \in Clients \ {k} : doing'[j] = doing[j]
    BY <1>5, OthersGoOn DEF EnforcerInv, register_enter
  <2>2. c.at = "policy" /\ c.name = n /\ c.id = trait_zones'[n]
    BY DEF EnforcerInv, CallsTyped
  <2>3. /\ \A m \in Names \ {n} : trait_zones'[m] = trait_zones[m]
        /\ ~At(k, "policy") /\ UNCHANGED <<loaded, ZONE_POLICY>>
    BY <1>5 DEF EnforcerInv, CallsTyped, register_enter, table, maps, At
  <2> HIDE DEF c, n
  <2> QED BY <2>1, <2>2, <2>3 DEF PolicyInv, At
<1>6. ASSUME NEW k \in Clients, register_apply(k) PROVE PolicyInv'
  <2>1. \A j \in Clients \ {k} : doing'[j] = doing[j]
    BY <1>6, OthersGoOn DEF EnforcerInv, register_apply, Ends
  <2>2. /\ ZONE_POLICY' = ZONE_POLICY \cup {doing[k].id}
        /\ UNCHANGED <<loaded, trait_zones>>
    BY <1>6 DEF PolicyInv, register_apply, with_bpf, table
  <2> QED BY <2>1, <2>2 DEF PolicyInv, At
<1>7. ASSUME NEW k \in Clients, remove_enter(k) PROVE PolicyInv'
  <2> DEFINE n == doing[k].name
  <2>1. \A j \in Clients \ {k} : doing'[j] = doing[j]
    BY <1>7, OthersGoOn DEF EnforcerInv, remove_enter, Ends
  <2>2. /\ \A m \in Names \ {n} : trait_zones'[m] = trait_zones[m]
        /\ n \in Names => trait_zones'[n] = 0
        /\ ~At(k, "policy") /\ UNCHANGED <<loaded, ZONE_POLICY>>
    BY <1>7 DEF EnforcerInv, CallsTyped, remove_enter, maps, At
  <2> HIDE DEF n
  <2> QED BY <2>1, <2>2 DEF PolicyInv, At
<1>8. ASSUME NEW k \in Clients, remove_policy(k) PROVE PolicyInv'
  <2>1. \A j \in Clients \ {k} : doing'[j] = doing[j]
    BY <1>8, OthersGoOn DEF EnforcerInv, remove_policy, Ends
  <2>2. /\ \A p \in ZONE_POLICY : p # doing[k].id => p \in ZONE_POLICY'
        /\ \A m \in Names : trait_zones[m] # doing[k].id
        /\ ~At(k, "policy") /\ UNCHANGED <<loaded, trait_zones>>
    BY <1>8 DEF EnforcerInv, NoAlias, remove_policy, with_bpf, table, At
  <2> QED BY <2>1, <2>2 DEF PolicyInv, At
<1>9. ASSUME NEW k \in Clients, Writes(k) PROVE PolicyInv'
  <2>1. UNCHANGED <<trait_zones, doing, loaded>> /\ ZONE_POLICY \subseteq ZONE_POLICY'
    BY <1>9, WriteFrame DEF table
  <2> QED BY <2>1 DEF PolicyInv, At
<1>10. ASSUME NEW k \in Clients, Talks(k) PROVE PolicyInv'
  <2>1. ~At(k, "policy") /\ UNCHANGED <<trait_zones, loaded, ZONE_POLICY>>
    BY <1>10 DEF comm_back, comm_there, OnlyComms, table, At
  <2>2. \A j \in Clients \ {k} : doing'[j] = doing[j]
    BY <1>10 DEF comm_back, comm_there, with_bpf, Ends, Goes, EnforcerInv, CallsTyped
  <2> QED BY <2>1, <2>2, <1>1
<1>11. \A k \in Clients : ~load(k) /\ ~shutdown_take(k)
  BY DEF load, shutdown_take, PolicyInv
<1>12. EnforcerNext => \E k \in Clients :
          \/ shutdown_clear(k) \/ \E n \in Names : Begin(k, n, "register") \/ Begin(k, n, "remove")
          \/ register_enter(k) \/ register_apply(k) \/ remove_enter(k) \/ remove_policy(k)
          \/ Writes(k) \/ Talks(k)
  BY Zenon, <1>11 DEF EnforcerNext, Writes
<1> HIDE DEF Talks
<1> QED BY Zenon, <1>2, <1>3, <1>4, <1>5, <1>6, <1>7, <1>8, <1>9, <1>10, <1>12

\* With a kernel that takes every write, and no shutdown, a registered zone
\* that no call is working on has its policy, for any clients and zones.
THEOREM RegisteredEnforced ==
  ASSUME ~MayFail, ~MayShutdown
  PROVE  EnforcerSpec => []RegisteredHasPolicy
<1>1. EnforcerInit => PolicyInv
  BY DEF EnforcerInit, PolicyInv
<1>2. EnforcerInv /\ PolicyInv /\ [EnforcerNext]_enforcerVars => PolicyInv'
  BY PolicySteps
<1>3. PolicyInv => RegisteredHasPolicy
  BY DEF PolicyInv, RegisteredHasPolicy, Busy
<1> QED BY <1>1, <1>2, <1>3, EnforcerInvariant, PTL DEF EnforcerSpec

\* One client: a backend is not taken down in the middle of a call.
LEMMA DownSteps ==
  ASSUME \A k, l \in Clients : k = l, EnforcerInv, DownInv, [EnforcerNext]_enforcerVars
  PROVE  DownInv'
<1>1. ASSUME UNCHANGED loaded, NEW k \in Clients, ~At(k, "clear"),
             At(k, "idle")' \/ loaded \/ UNCHANGED doing,
             \A n \in Names : trait_zones'[n] = trait_zones[n] \/ trait_zones'[n] = 0 \/ loaded
      PROVE  DownInv'
  BY <1>1 DEF DownInv, At
<1>2. CASE UNCHANGED enforcerVars
  BY <1>2 DEF DownInv, enforcerVars, table, At
<1>3. ASSUME NEW k \in Clients, load(k) PROVE DownInv'
  BY <1>3 DEF DownInv, load, At
<1>4. ASSUME NEW k \in Clients, shutdown_take(k) PROVE DownInv'
  <2>1. doing'[k] = [Idle EXCEPT !.at = "clear"]
    BY <1>4, OthersGoOn DEF EnforcerInv, shutdown_take
  <2>2. At(k, "clear")'
    BY <2>1 DEF At, Idle
  <2> QED BY <2>2 DEF DownInv
<1>5. ASSUME NEW k \in Clients, shutdown_clear(k) PROVE DownInv'
  <2>1. At(k, "idle")'
    BY <1>5, OthersGoOn DEF EnforcerInv, shutdown_clear, Ends, At, Idle
  <2> QED BY <1>5, <2>1 DEF DownInv, shutdown_clear
<1>6. ASSUME NEW k \in Clients,
             \/ \E n \in Names : Begin(k, n, "register") \/ Begin(k, n, "remove")
             \/ register_enter(k) \/ remove_enter(k)
      PROVE  DownInv'
  <2>1. UNCHANGED loaded
    BY <1>6 DEF Begin, register_enter, remove_enter
  <2>2. loaded \/ At(k, "register") \/ At(k, "remove")
    BY Zenon, <1>6 DEF Begin, register_enter, remove_enter
  <2> QED BY <2>1, <2>2 DEF DownInv, At
<1>7. ASSUME NEW k \in Clients, register_apply(k) \/ remove_policy(k) \/ comm_back(k)
      PROVE  DownInv'
  <2>0. Ends(k)
    BY Zenon, <1>7 DEF register_apply, remove_policy, comm_back
  <2>1. At(k, "idle")'
    BY <2>0, OthersGoOn DEF EnforcerInv, Ends, At, Idle
  <2>2. ~At(k, "clear") /\ UNCHANGED <<loaded, trait_zones>>
    BY <1>7 DEF register_apply, remove_policy, comm_back, OnlyComms, table, At
  <2> QED BY <2>1, <2>2, <1>1
<1>8. ASSUME NEW k \in Clients, Writes(k) PROVE DownInv'
  <2>1. UNCHANGED <<loaded, trait_zones, doing>> /\ ~At(k, "clear")
    BY <1>8, WriteFrame DEF table, At
  <2> QED BY <2>1, <1>1
<1>9. ASSUME NEW k \in Clients, NEW a \in refs, NEW b \in refs, NEW allow \in BOOLEAN,
             comm_there(k, a, b, allow)
      PROVE  DownInv'
  <2>1. UNCHANGED <<loaded, trait_zones>> /\ ~At(k, "clear")
    BY <1>9 DEF comm_there, OnlyComms, table, At
  <2>2. UNCHANGED doing \/ loaded
    BY <1>9 DEF comm_there, with_bpf
  <2> QED BY <2>1, <2>2, <1>1
<1> QED BY Zenon, <1>2, <1>3, <1>4, <1>5, <1>6, <1>7, <1>8, <1>9 DEF EnforcerNext, Writes

\* With one client, a backend that is down knows no zone between calls,
\* although writes to the maps fail.
THEOREM DownForgets ==
  ASSUME \A k, l \in Clients : k = l
  PROVE  EnforcerSpec => []DownKnowsNothing
<1>1. EnforcerInit => DownInv
  BY DEF EnforcerInit, DownInv
<1>2. EnforcerInv /\ DownInv /\ [EnforcerNext]_enforcerVars => DownInv'
  BY DownSteps
<1>3. DownInv => DownKnowsNothing
  BY DEF DownInv, DownKnowsNothing, At
<1> QED BY <1>1, <1>2, <1>3, EnforcerInvariant, PTL DEF EnforcerSpec

\* One client whose writes do not fail: the second direction follows the first.
LEMMA CommSteps ==
  ASSUME ~MayFail, \A k, l \in Clients : k = l,
         EnforcerInv, DownInv, CommInv, [EnforcerNext]_enforcerVars
  PROVE  CommInv'
<1>1. ASSUME UNCHANGED ZONE_ALLOWED_COMMS,
             \A k \in Clients : ~At(k, "allow") /\ ~At(k, "deny") /\ ~At(k, "allow")' /\ ~At(k, "deny")'
      PROVE  CommInv'
  BY <1>1 DEF CommInv
<1>2. ASSUME UNCHANGED <<ZONE_ALLOWED_COMMS, doing>> PROVE CommInv'
  BY <1>2 DEF CommInv, At
<1>3. ASSUME NEW k \in Clients, load(k) \/ shutdown_take(k) PROVE CommInv'
  <2>1. \A j \in Clients : ~At(j, "allow")' /\ ~At(j, "deny")'
    <3>1. CASE load(k)
      BY <3>1 DEF load, At
    <3>2. CASE shutdown_take(k)
      <4>1. doing'[k] = [Idle EXCEPT !.at = "clear"]
        BY <3>2, OthersGoOn DEF EnforcerInv, shutdown_take
      <4> QED BY <4>1 DEF At, Idle
    <3> QED BY <1>3, <3>1, <3>2
  <2> QED BY <1>3, <2>1 DEF CommInv, load, shutdown_take, NoMaps
<1>4. ASSUME NEW k \in Clients,
             \/ shutdown_clear(k) \/ \E n \in Names : Begin(k, n, "register") \/ Begin(k, n, "remove")
             \/ register_enter(k) \/ register_apply(k) \/ remove_enter(k) \/ remove_policy(k)
      PROVE  CommInv'
  <2>1. UNCHANGED ZONE_ALLOWED_COMMS /\ ~At(k, "allow") /\ ~At(k, "deny")
    BY <1>4 DEF shutdown_clear, Begin, register_enter, register_apply, remove_enter,
                remove_policy, maps, At
  <2>2. ASSUME Ends(k) PROVE doing'[k].at = "idle"
    BY <2>2, OthersGoOn DEF EnforcerInv, Ends, Idle
  <2>3. ASSUME NEW n \in Names, NEW where \in {"register", "remove"}, Begin(k, n, where)
        PROVE  doing'[k].at = where
    <3>1. Goes(k, [Idle EXCEPT !.at = where, !.name = n])
      BY Zenon, <2>3 DEF Begin
    <3>2. doing'[k] = [Idle EXCEPT !.at = where, !.name = n]
      BY <3>1, OthersGoOn DEF EnforcerInv
    <3> QED BY <3>2 DEF Idle
  <2>4. ASSUME NEW z, NEW to, Goes(k, [doing[k] EXCEPT !.at = to, !.id = z]) PROVE doing'[k].at = to
    <3>1. doing'[k] = [doing[k] EXCEPT !.at = to, !.id = z]
      BY <2>4, OthersGoOn DEF EnforcerInv
    <3> QED BY <3>1 DEF EnforcerInv, CallsTyped
  <2>5. CASE register_enter(k)
    BY <1>1, <2>1, <2>4, <2>5 DEF register_enter, At
  <2>6. CASE remove_enter(k)
    BY <1>1, <2>1, <2>2, <2>4, <2>6 DEF remove_enter, At
  <2>7. CASE shutdown_clear(k) \/ register_apply(k) \/ remove_policy(k)
    BY <1>1, <2>1, <2>2, <2>7 DEF shutdown_clear, register_apply, remove_policy, At
  <2>8. CASE \E n \in Names : Begin(k, n, "register") \/ Begin(k, n, "remove")
    BY <1>1, <2>1, <2>3, <2>8 DEF At
  <2> QED BY Zenon, <1>4, <2>5, <2>6, <2>7, <2>8
<1>5. ASSUME NEW k \in Clients, Writes(k) PROVE CommInv'
  BY <1>2, <1>5, WriteFrame
<1>6. ASSUME NEW k \in Clients, NEW a \in refs, NEW b \in refs, NEW allow \in BOOLEAN,
             comm_there(k, a, b, allow)
      PROVE  CommInv'
  <2> DEFINE c == [Idle EXCEPT !.at = IF allow THEN "allow" ELSE "deny",
                               !.id = b.kernel_id, !.peer = a.kernel_id]
  <2>1. /\ c.at = IF allow THEN "allow" ELSE "deny"
        /\ c.id = b.kernel_id /\ c.peer = a.kernel_id
        /\ a.kernel_id \in Nat /\ b.kernel_id \in Nat
    BY DEF EnforcerInv, CallsTyped, Idle
  <2>2. \/ UNCHANGED <<ZONE_ALLOWED_COMMS, doing>>
        \/ Goes(k, c) /\ Comm(allow, a.kernel_id, b.kernel_id)
    BY <1>6 DEF comm_there, with_bpf
  <2> HIDE DEF c
  <2>3. CASE Goes(k, c) /\ Comm(allow, a.kernel_id, b.kernel_id)
    <3>1. doing'[k] = c
      BY <2>3, OthersGoOn DEF EnforcerInv
    <3>2. \A e \in ZONE_ALLOWED_COMMS : <<e[2], e[1]>> \in ZONE_ALLOWED_COMMS
      BY <1>6 DEF CommInv, comm_there, At
    <3>3. CASE allow
      BY <2>1, <2>3, <3>1, <3>2, <3>3 DEF CommInv, Comm, At
    <3>4. CASE ~allow
      BY <2>1, <2>3, <3>1, <3>2, <3>4 DEF CommInv, Comm, At
    <3> QED BY <3>3, <3>4
  <2> QED BY <2>2, <2>3, <1>2
<1>7. ASSUME NEW k \in Clients, comm_back(k) PROVE CommInv'
  <2>1. doing'[k] = Idle
    BY <1>7, OthersGoOn DEF EnforcerInv, comm_back, Ends
  <2>2. Comm(At(k, "allow"), doing[k].id, doing[k].peer)
    BY <1>7 DEF comm_back, with_bpf, DownInv, At
  <2>3. /\ \A j \in Clients : ~At(j, "allow")' /\ ~At(j, "deny")'
        /\ doing[k].id \in Nat /\ doing[k].peer \in Nat
    BY <2>1 DEF At, Idle, EnforcerInv, CallsTyped
  <2>4. CASE At(k, "allow")
    BY <2>2, <2>3, <2>4 DEF CommInv, Comm, At
  <2>5. CASE At(k, "deny")
    BY <2>2, <2>3, <2>5 DEF CommInv, Comm, At
  <2> QED BY <1>7, <2>4, <2>5 DEF comm_back
<1>8. CASE UNCHANGED enforcerVars
  BY <1>8, <1>2 DEF enforcerVars, maps
<1> QED BY Zenon, <1>3, <1>4, <1>5, <1>6, <1>7, <1>8 DEF EnforcerNext, Writes

\* With one client and a kernel that takes every write, two zones may talk in
\* both directions or in none between calls, over shutdowns and loads.
THEOREM CommStaysSymmetric ==
  ASSUME ~MayFail, \A k, l \in Clients : k = l
  PROVE  EnforcerSpec => []CommIsSymmetric
<1>1. EnforcerInit => DownInv /\ CommInv
  BY DEF EnforcerInit, DownInv, CommInv, At, Idle
<1>2. EnforcerInv /\ DownInv /\ CommInv /\ [EnforcerNext]_enforcerVars => DownInv' /\ CommInv'
  BY DownSteps, CommSteps
<1>3. CommInv => CommIsSymmetric
  BY DEF CommInv, CommIsSymmetric, At
<1> QED BY <1>1, <1>2, <1>3, EnforcerInvariant, PTL DEF EnforcerSpec
=============================================================================
