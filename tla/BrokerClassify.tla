-------------------------- MODULE BrokerClassify --------------------------
(***************************************************************************)
(* The pure judgment of the seccomp-notify broker                          *)
(* (rauha-shim/src/broker/classify.rs): one suspended openat or openat2    *)
(* becomes a confined grant or a denial with an errno.                     *)
(*                                                                         *)
(* A flag word is the set of its named bits.  O_TMPFILE is a mask of two   *)
(* bits, "TMPFILE" and "DIRECTORY"; "WRITE" stands for an access mode other*)
(* than O_RDONLY, "HIGH" for any bit above the 32nd of open_how.flags and  *)
(* "UNKNOWN" for any resolve bit outside KNOWN_RESOLVE.  A path is its     *)
(* shape.                                                                  *)
(***************************************************************************)
EXTENDS Naturals

CONSTANTS Openat,    \* the flag words tried with openat
          Openat2,   \* the flag words tried with openat2
          Resolve    \* the resolve words tried with openat2

PathShapes == {"absolute", "relative", "empty", "long", "nul"}
Sizes == {"smaller", "exact", "larger"}

RESOLVE_RESTRICTIONS == {"NO_XDEV", "NO_MAGICLINKS", "NO_SYMLINKS", "CTIME"}
KNOWN_RESOLVE == RESOLVE_RESTRICTIONS \cup {"BENEATH", "IN_ROOT"}

Deny(errno, reason) == [granted |-> FALSE, errno |-> errno, reason |-> reason]
Allowed == [granted |-> TRUE]

\* A mutant: the caller's own restrictions are dropped.
RestrictionsDropped(resolve) == {}

caller_restrictions(resolve) ==
  (resolve \cap KNOWN_RESOLVE) \ {"BENEATH", "IN_ROOT"}

resolve_flags(rooted, no_follow) ==
  {IF rooted THEN "IN_ROOT" ELSE "BENEATH"}
    \cup caller_restrictions({IF no_follow THEN "NO_SYMLINKS" ELSE "NO_MAGICLINKS"})

check_open_flags(flags) ==
  CASE "WRITE" \in flags -> Deny("EPERM", "not read-only")
    [] {"TMPFILE", "DIRECTORY"} \subseteq flags -> Deny("EPERM", "O_TMPFILE")
    [] flags \cap {"CREAT", "TRUNC", "PATH", "DIRECT"} # {} -> Deny("EPERM", "side effect")
    [] OTHER -> Allowed

check_path(path) ==
  CASE path = "empty" -> Deny("ENOENT", "empty path")
    [] path = "long" -> Deny("ENAMETOOLONG", "path too long")
    [] path = "nul" -> Deny("EINVAL", "NUL in path")
    [] OTHER -> Allowed

Grant(path, resolve, flags) ==
  [granted |-> TRUE,
   anchored |-> IF path = "absolute" THEN "TaskRoot" ELSE "TaskDir",
   resolve |-> resolve,
   cloexec |-> "CLOEXEC" \in flags, nonblock |-> "NONBLOCK" \in flags]

classify_openat(flags, path) ==
  CASE ~check_open_flags(flags).granted -> check_open_flags(flags)
    [] ~check_path(path).granted -> check_path(path)
    [] OTHER -> Grant(path, resolve_flags(path = "absolute", "NOFOLLOW" \in flags), flags)

\* What classify_openat2 refuses about the open_how before it looks at the flags.
check_how(size, how) ==
  CASE size = "larger" -> Deny("E2BIG", "oversized open_how")
    [] size = "smaller" -> Deny("EINVAL", "undersized open_how")
    [] ~(how.resolve \subseteq KNOWN_RESOLVE) -> Deny("EINVAL", "unknown resolve flags")
    [] {"BENEATH", "IN_ROOT"} \subseteq how.resolve -> Deny("EINVAL", "exclusive resolve flags")
    [] "HIGH" \in how.flags -> Deny("EINVAL", "unknown high flag bits")
    [] OTHER -> Allowed

containment(path, resolve) ==
  IF path = "absolute" \/ "IN_ROOT" \in resolve THEN "IN_ROOT" ELSE "BENEATH"

classify_openat2(size, how, path) ==
  CASE ~check_how(size, how).granted -> check_how(size, how)
    [] ~check_open_flags(how.flags).granted -> check_open_flags(how.flags)
    [] ~check_path(path).granted -> check_path(path)
    [] path = "absolute" /\ "BENEATH" \in how.resolve ->
         Deny("EXDEV", "absolute path under RESOLVE_BENEATH")
    [] OTHER -> Grant(path, {containment(path, how.resolve)}
                              \cup caller_restrictions(how.resolve)
                              \cup {IF "NOFOLLOW" \in how.flags THEN "NO_SYMLINKS"
                                                                ELSE "NO_MAGICLINKS"},
                      how.flags)

(***************************************************************************)
(* A call is judged in one step; every call of the constants is tried.     *)
(***************************************************************************)
VARIABLES call, verdict
classifyVars == <<call, verdict>>

Calls ==
  [sc : {"openat"}, flags : Openat, path : PathShapes, resolve : {{}}, size : {"exact"}]
    \cup [sc : {"openat2"}, flags : Openat2, path : PathShapes, resolve : Resolve, size : Sizes]

Classify(c) ==
  IF c.sc = "openat"
  THEN classify_openat(c.flags, c.path)
  ELSE classify_openat2(c.size, [flags |-> c.flags, resolve |-> c.resolve], c.path)

\* The flags of the broker's own openat2, and of the descriptor it injects.
OpenFlags(grant) ==
  {"CLOEXEC", "NOCTTY"} \cup (IF grant.nonblock THEN {"NONBLOCK"} ELSE {})
Injected(grant) ==
  (OpenFlags(grant) \ {"CLOEXEC"}) \cup (IF grant.cloexec THEN {"CLOEXEC"} ELSE {})

ClassifyInit == call \in Calls /\ verdict = [granted |-> FALSE, errno |-> "none", reason |-> "pending"]

Judge ==
  /\ verdict.granted = FALSE /\ verdict.errno = "none"
  /\ verdict' = Classify(call)
  /\ UNCHANGED call

ClassifyNext == Judge
ClassifySpec == ClassifyInit /\ [][ClassifyNext]_classifyVars

Judged == verdict.granted \/ verdict.errno # "none"

(***************************************************************************)
(* Properties                                                              *)
(***************************************************************************)

\* A granted open is confined: exactly one containment bit, the task's root
\* for an absolute path and the task's own directory otherwise, magic links
\* always refused, and every restriction the caller asked for (O_NOFOLLOW
\* included) still there ("never fewer than the caller asked", classify.rs).
GrantConfined ==
  verdict.granted =>
    /\ \E c \in {"BENEATH", "IN_ROOT"} : verdict.resolve \cap {"BENEATH", "IN_ROOT"} = {c}
    /\ (call.path = "absolute") <=> (verdict.anchored = "TaskRoot")
    /\ call.path = "absolute" => "IN_ROOT" \in verdict.resolve
    /\ verdict.resolve \cap {"NO_MAGICLINKS", "NO_SYMLINKS"} # {}
    /\ (call.resolve \cap RESOLVE_RESTRICTIONS) \subseteq verdict.resolve
    /\ "BENEATH" \in call.resolve => "BENEATH" \in verdict.resolve
    /\ "NOFOLLOW" \in call.flags => "NO_SYMLINKS" \in verdict.resolve

\* The flags granted are exactly the ones without a side effect: a call whose
\* arguments the kernel would accept is refused with EPERM if and only if it
\* asks to write, create, truncate, make a temporary file, or for O_PATH or
\* O_DIRECT; plain O_DIRECTORY stays grantable.
PolicyDenialsExact ==
  Judged =>
    LET WellFormed == /\ call.path \in {"absolute", "relative"}
                      /\ call.sc = "openat2" =>
                           check_how(call.size, [flags |-> call.flags, resolve |-> call.resolve]).granted
                      /\ ~(call.path = "absolute" /\ "BENEATH" \in call.resolve)
        SideEffect == \/ call.flags \cap {"WRITE", "CREAT", "TRUNC", "PATH", "DIRECT"} # {}
                      \/ {"TMPFILE", "DIRECTORY"} \subseteq call.flags
    IN  WellFormed => (verdict.granted <=> ~SideEffect)

\* openat2 with an empty resolve word answers as openat does for the same
\* flags and path: the two classifiers do not drift apart.
OneJudgment ==
  Judged /\ call.sc = "openat" /\ "HIGH" \notin call.flags =>
    verdict = classify_openat2("exact", [flags |-> call.flags, resolve |-> {}], call.path)

\* Asking for one restriction more never turns a denial into a grant and
\* never loosens a grant ("the result can only be stricter than either side").
RestrictingNeverWidens ==
  Judged /\ call.sc = "openat2" =>
    \A r \in RESOLVE_RESTRICTIONS \cup {"BENEATH"} :
      LET more == classify_openat2(call.size, [flags |-> call.flags, resolve |-> call.resolve \cup {r}],
                                   call.path)
      IN  more.granted =>
            /\ verdict.granted
            /\ (verdict.resolve \ {"IN_ROOT"}) \subseteq more.resolve

\* O_CLOEXEC and O_NONBLOCK are set on the descriptor the workload gets if and
\* only if it asked for them, and O_NOFOLLOW reaches the open as NO_SYMLINKS.
\* O_DIRECTORY, which the comment on check_open_flags lists with them, is lost.
MirroredFlags ==
  verdict.granted =>
    /\ \A f \in {"CLOEXEC", "NONBLOCK"} : f \in call.flags <=> f \in Injected(verdict)
    /\ "NOFOLLOW" \in call.flags => "NO_SYMLINKS" \in verdict.resolve

\* The five together: an open that is granted is confined and the one asked
\* for, and the two classifiers agree with each other and with the policy.
OpensConfined ==
  /\ GrantConfined /\ MirroredFlags
  /\ PolicyDenialsExact /\ OneJudgment /\ RestrictingNeverWidens
=============================================================================
