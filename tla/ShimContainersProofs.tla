------------------------ MODULE ShimContainersProofs ------------------------
(***************************************************************************)
(* What the zone shim says of its containers is true, for any number of    *)
(* containers and any sequence of requests, failures, unkillable inits and *)
(* crashes; and without the last two it implements ContainerContract.      *)
(***************************************************************************)
EXTENDS ShimContainers, TLAPS

-----------------------------------------------------------------------------
(* The inductive invariant.                                                *)

PCs    == {"idle", "reap", "join", "grace", "sigkill", "kill", "shutdown", "prepare", "create",
           "enrol", "start"}
Codes  == {-1, 0, SIGKILLED}
Requests == [pc: PCs, c: Containers \cup {"none"}, todo: SUBSET Containers,
             then: {"none", "answered", "stop", "delete", "stopping", "failed", "shutdown"},
             waited: Containers \cup {"none"}, code: Codes]
Rows    == [status: {"absent", "created", "running", "stopped"}, exit: Codes]
Inits   == [state: {"none", "created", "running", "zombie", "gone"}, enrolled: BOOLEAN,
            code: Codes, stuck: BOOLEAN]
Outputs == [file: BOOLEAN, marker: BOOLEAN, kept: Nat, remaining: Nat, incomplete: BOOLEAN,
            thread: {"none", "reading", "ended", "dead"}, stop: BOOLEAN, pipe: Nat, wrote: Nat]

ShimTypes ==
  /\ shim \in {"up", "down", "exited"}
  /\ req \in Requests
  /\ conts \in [Containers -> Rows]
  /\ init \in [Containers -> Inits]
  /\ out \in [Containers -> Outputs]
  /\ budget \in [faults: Nat, stuck: Nat, crashes: Nat]

\* A request at work on a container names it, and is idle when no shim runs.
Starting == {"prepare", "create", "enrol", "start"}
Stopping == {"grace", "sigkill", "kill"}
RequestInv ==
  /\ req.pc \in Starting \cup Stopping => req.c \in Containers
  /\ req.pc \in {"reap", "join"} /\ req.then \in {"stop", "delete"} => req.c \in Containers
  /\ req.pc = "join" => req.waited \in Containers
  /\ req.then \in CASE req.pc \in Stopping             -> {"stopping", "shutdown"}
                    [] req.pc = "shutdown"             -> {"none", "shutdown"}
                    [] req.pc = "reap"                 -> {"answered", "stop", "delete"}
                    [] req.pc \in Starting \cup {"idle"} -> {"none"}
                    [] OTHER                           -> {"answered", "stop", "delete", "stopping",
                                                           "failed", "shutdown"}
  /\ shim # "up" => req.pc = "idle"

\* What capture, log and marker of one container have to do with each other.
OutputInv(o) ==
  /\ ~o.file => /\ o.thread = "none" /\ ~o.incomplete
                /\ o.kept = 0 /\ o.pipe = 0 /\ o.wrote = 0 /\ o.remaining = 0
  /\ o.kept + o.remaining =< LogMaxBytes \/ ~o.file
  /\ o.thread = "reading" => o.file /\ o.marker /\ (o.incomplete \/ o.kept + o.pipe = o.wrote)
  /\ o.file /\ ~o.marker => o.kept = o.wrote

\* Nothing starts that is not enrolled, and no init exists before its log.
EnrolInv ==
  /\ req.pc = "start" => init[req.c].enrolled
  /\ req.pc = "create" => init[req.c].state = "none" /\ out[req.c].file
  /\ \A c \in Containers :
       /\ init[c].state = "running" \/ out[c].wrote > 0 => init[c].enrolled
       /\ init[c].state # "none" => out[c].file

\* The table of containers and their inits.
TableInv ==
  /\ req.pc \in Starting => conts[req.c].status = "created"
  /\ req.pc \in Stopping => conts[req.c].status = "running"
  /\ req.pc = "join" /\ req.then # "failed" => conts[req.waited].status = "running"
  /\ req.pc = "join" /\ req.then = "failed" => conts[req.waited].status = "created"
  /\ req.pc = "join" /\ ~init[req.waited].stuck =>
       /\ ~Alive(req.waited)
       /\ req.then # "failed" => init[req.waited].state = "gone" /\ req.code = init[req.waited].code
  /\ \A c \in Containers :
       /\ init[c].state = "none" => ~init[c].stuck
       /\ conts[c].status \in {"absent", "created"} => conts[c].exit = -1
       /\ conts[c].status = "created" => ~init[c].stuck /\ init[c].state \in {"none", "created", "zombie"}
       /\ conts[c].status = "running" => init[c].state \in {"running", "zombie", "gone"}
       /\ conts[c].status = "stopped" /\ ~init[c].stuck =>
            init[c].state = "gone" /\ conts[c].exit = init[c].code

\* Until the shim is killed, live inits are tracked; a shutdown still has the
\* running ones to stop.
TrackInv ==
  budget.crashes = 0 =>
  /\ shim # "down"
  /\ \A c \in Containers : Alive(c) /\ ~init[c].stuck =>
       /\ shim = "up"
       /\ conts[c].status = "running" \/ (req.c = c /\ req.pc \in {"enrol", "start"})
       /\ req.pc = "shutdown" \/ req.then = "shutdown" => c \in req.todo

ShimInv ==
  /\ ShimTypes /\ RequestInv
  /\ \A c \in Containers : OutputInv(out[c])
  /\ EnrolInv /\ TableInv /\ TrackInv

-----------------------------------------------------------------------------
(* Types.                                                                  *)

\* The requests in progress that the handlers go to are typed.
LEMMA RequestFields ==
  ASSUME NEW r \in Requests
  PROVE  /\ r.todo \subseteq Containers /\ r.c \in Containers \cup {"none"} /\ r.code \in Codes
         /\ Idle \in Requests
  BY ZenonT(20) DEF Requests, Idle, PCs, Codes

\* A step forward in a start or a stop keeps the request typed.
LEMMA GotoTypes ==
  ASSUME NEW r \in Requests
  PROVE  /\ \A pc \in {"create", "enrol", "start", "kill", "sigkill"} : [r EXCEPT !.pc = pc] \in Requests
         /\ [r EXCEPT !.pc = "grace", !.then = "stopping"] \in Requests
  BY ZenonT(20) DEF Requests, PCs

\* The first step of a start and of a shutdown are typed.
LEMMA FirstTypes ==
  /\ \A c \in Containers : [Idle EXCEPT !.pc = "prepare", !.c = c] \in Requests
  /\ \A S \in SUBSET Containers : [Idle EXCEPT !.pc = "shutdown", !.todo = S] \in Requests
  BY ZenonT(20) DEF Requests, Idle, PCs, Codes

\* Waiting for the capture of a deleted runtime is typed.
LEMMA WaitTypes ==
  ASSUME NEW r \in Requests, NEW c \in Containers
  PROVE  /\ [r EXCEPT !.pc = "join", !.then = "failed", !.waited = c] \in Requests
         /\ \A code \in Codes : [r EXCEPT !.pc = "join", !.waited = c, !.code = code] \in Requests
  BY ZenonT(20) DEF Requests, PCs

\* What follows the end of a capture is typed.
LEMMA JoinTypes ==
  ASSUME NEW r \in Requests, NEW c \in Containers
  PROVE  /\ [r EXCEPT !.pc = "reap", !.waited = "none", !.code = 0] \in Requests
         /\ [r EXCEPT !.pc = "shutdown", !.todo = @ \ {c}, !.c = "none", !.waited = "none",
                      !.code = 0] \in Requests
  BY ZenonT(20) DEF Requests, PCs, Codes

\* The steps of a shutdown are typed.
LEMMA ShutdownTypes ==
  ASSUME NEW r \in Requests, NEW c \in Containers
  PROVE  /\ [r EXCEPT !.todo = r.todo \ {c}] \in Requests
         /\ [r EXCEPT !.pc = "grace", !.c = c, !.then = "shutdown"] \in Requests
  BY ZenonT(20) DEF Requests, PCs

\* reap_children is started with typed arguments.
LEMMA ReapingTypes ==
  ASSUME NEW c \in Containers \cup {"none"}, NEW then \in {"answered", "stop", "delete"}
  PROVE  Reaping(c, then) \in Requests
<1>1. {k \in Containers : Exited(k)} \subseteq Containers
  OBVIOUS
<1> QED BY <1>1, ZenonT(20) DEF Requests, Reaping, Idle, PCs, Codes

\* Rows of the table.
LEMMA RowTypes ==
  /\ Absent \in Rows
  /\ [status |-> "created", exit |-> -1] \in Rows
  /\ \A code \in Codes : [status |-> "stopped", exit |-> code] \in Rows
  /\ \A row \in Rows : [row EXCEPT !.status = "running"] \in Rows
  BY ZenonT(20) DEF Rows, Absent, Codes

\* Inits stay typed, whatever is done to them.
LEMMA InitTypes ==
  ASSUME NEW i \in Inits
  PROVE  /\ Killed(i) \in Inits /\ i.code \in Codes
         /\ [i EXCEPT !.stuck = TRUE] \in Inits /\ [i EXCEPT !.enrolled = TRUE] \in Inits
         /\ \A s \in {"created", "running", "gone"} : [i EXCEPT !.state = s] \in Inits
         /\ [i EXCEPT !.state = "zombie", !.code = 0] \in Inits
<1>1. Killed(i) \in Inits
  BY ZenonT(20) DEF Inits, Killed, Codes, SIGKILLED
<1>2. i.code \in Codes
  BY Zenon DEF Inits
<1>3. [i EXCEPT !.stuck = TRUE] \in Inits /\ [i EXCEPT !.enrolled = TRUE] \in Inits
  BY ZenonT(20) DEF Inits
<1>4. \A s \in {"created", "running", "gone"} : [i EXCEPT !.state = s] \in Inits
  BY SMTT(20) DEF Inits
<1>5. [i EXCEPT !.state = "zombie", !.code = 0] \in Inits
  BY ZenonT(20) DEF Inits, Codes
<1> QED BY Zenon, <1>1, <1>2, <1>3, <1>4, <1>5

\* BoundedLog::write keeps the numbers of a capture natural.
LEMMA WriteNumbers ==
  ASSUME NEW o \in Outputs
  PROVE  LET count == IF o.pipe < o.remaining THEN o.pipe ELSE o.remaining
         IN  /\ o.pipe - o.pipe \in Nat /\ o.kept + count \in Nat /\ o.remaining - count \in Nat
             /\ (o.incomplete \/ count < o.pipe) \in BOOLEAN
  BY DEF Outputs

\* Captures stay typed.
LEMMA OutputTypes ==
  ASSUME NEW o \in Outputs, LogMaxBytes \in Nat
  PROVE  /\ StopCapture(o) \in Outputs /\ Opened(o) \in Outputs /\ write(o, o.pipe) \in Outputs
         /\ [o EXCEPT !.marker = TRUE] \in Outputs
         /\ [o EXCEPT !.pipe = 0, !.incomplete = TRUE, !.remaining = 0] \in Outputs
         /\ [o EXCEPT !.thread = "ended"] \in Outputs
         /\ [o EXCEPT !.thread = "ended", !.marker = o.incomplete] \in Outputs
         /\ [o EXCEPT !.pipe = @ + 1, !.wrote = @ + 1] \in Outputs
         /\ [o EXCEPT !.thread = "dead"] \in Outputs
         /\ [o EXCEPT !.thread = "dead", !.pipe = 0] \in Outputs
<1>1. 0 \in Nat /\ o.pipe + 1 \in Nat /\ o.wrote + 1 \in Nat
  BY DEF Outputs
<1>2. write(o, o.pipe) \in Outputs
  BY WriteNumbers, ZenonT(20) DEF Outputs, write
<1> QED BY <1>1, <1>2, ZenonT(20) DEF Outputs, StopCapture, Opened

\* The counts of faults go up by one at a time.
LEMMA BudgetTypes ==
  ASSUME ShimTypes, NEW what \in {"faults", "stuck", "crashes"}, Spend(what)
  PROVE  budget' \in [faults: Nat, stuck: Nat, crashes: Nat]
  BY DEF ShimTypes, Spend

\* try_wait keeps the types.
LEMMA TryWaitTypes ==
  ASSUME LogMaxBytes \in Nat, ShimTypes, NEW c \in Containers, try_wait(c)
  PROVE  ShimTypes'
<1>1. init[c] \in Inits /\ out[c] \in Outputs /\ req \in Requests
  BY Zenon DEF ShimTypes
<1>2. /\ [init[c] EXCEPT !.state = "gone"] \in Inits /\ init[c].code \in Codes
      /\ StopCapture(out[c]) \in Outputs
      /\ [req EXCEPT !.pc = "join", !.waited = c, !.code = init[c].code] \in Requests
  BY Zenon, <1>1, InitTypes, OutputTypes, WaitTypes
<1> QED BY Zenon, <1>2 DEF try_wait, ShimTypes

\* A failed start keeps the types.
LEMMA StartFailsTypes ==
  ASSUME LogMaxBytes \in Nat, ShimTypes, req.c \in Containers, StartFails
  PROVE  /\ req' \in Requests /\ init' \in [Containers -> Inits]
         /\ out' \in [Containers -> Outputs]
<1>1. init[req.c] \in Inits /\ out[req.c] \in Outputs /\ req \in Requests
  BY SMTT(30) DEF ShimTypes
<1>2. /\ Killed(init[req.c]) \in Inits /\ StopCapture(out[req.c]) \in Outputs
      /\ [req EXCEPT !.pc = "join", !.then = "failed", !.waited = req.c] \in Requests
  BY Zenon, <1>1, InitTypes, OutputTypes, WaitTypes
<1> QED BY Zenon, <1>2 DEF StartFails, ShimTypes

\* Every step keeps the types.
LEMMA TypesStep ==
  ASSUME LogMaxBytes \in Nat, ShimTypes, RequestInv, [Next]_vars
  PROVE  ShimTypes'
<1>1. ASSUME NEW c \in Containers,
             CreateContainer(c) \/ StartContainer(c) \/ StopContainer(c)
             \/ DeleteContainer(c) \/ GetState(c) \/ CaptureRead(c)
             \/ CaptureEof(c) \/ CaptureGivesUp(c) \/ WorkloadWrites(c)
             \/ InitExits(c)
      PROVE  ShimTypes'
  <2>1. CASE CreateContainer(c)
    <3>1. req' \in Requests
      BY Zenon, <2>1, ReapingTypes DEF CreateContainer, Answered, ShimTypes
    <3>2. conts' \in [Containers -> Rows]
      BY SMTT(30), <2>1, RowTypes DEF CreateContainer, ShimTypes
    <3> QED BY Zenon, <2>1, <3>1, <3>2 DEF CreateContainer, ShimTypes
  <2>2. CASE StartContainer(c)
    BY Zenon, <2>2, FirstTypes, ReapingTypes DEF StartContainer, Answered, ShimTypes
  <2>3. CASE StopContainer(c)
    BY Zenon, <2>3, ReapingTypes DEF StopContainer, ShimTypes
  <2>4. CASE DeleteContainer(c)
    BY Zenon, <2>4, ReapingTypes DEF DeleteContainer, ShimTypes
  <2>5. CASE GetState(c)
    BY Zenon, <2>5, ReapingTypes DEF GetState, Answered, ShimTypes
  <2>6. CASE CaptureRead(c)
    <3>1. out[c] \in Outputs
      BY SMTT(30) DEF ShimTypes
    <3>2. /\ write(out[c], out[c].pipe) \in Outputs
          /\ [out[c] EXCEPT !.pipe = 0, !.incomplete = TRUE, !.remaining = 0] \in Outputs
      BY Zenon, <3>1, OutputTypes
    <3>3. out' \in [Containers -> Outputs]
      BY Zenon, <2>6, <3>2 DEF CaptureRead, ShimTypes
    <3>4. budget' \in [faults: Nat, stuck: Nat, crashes: Nat]
      BY Zenon, <2>6, BudgetTypes DEF CaptureRead, ShimTypes
    <3> QED BY Zenon, <2>6, <3>3, <3>4 DEF CaptureRead, ShimTypes
  <2>7. CASE CaptureEof(c)
    <3>1. out[c] \in Outputs
      BY Zenon DEF ShimTypes
    <3>2. /\ [out[c] EXCEPT !.thread = "ended"] \in Outputs
          /\ [out[c] EXCEPT !.thread = "ended", !.marker = out[c].incomplete] \in Outputs
      BY Zenon, <3>1, OutputTypes
    <3>3. out' \in [Containers -> Outputs]
      BY Zenon, <2>7, <3>2 DEF CaptureEof, ShimTypes
    <3>4. budget' \in [faults: Nat, stuck: Nat, crashes: Nat]
      BY Zenon, <2>7, BudgetTypes DEF CaptureEof, ShimTypes
    <3> QED BY Zenon, <2>7, <3>3, <3>4 DEF CaptureEof, ShimTypes
  <2>8. CASE CaptureGivesUp(c)
    <3>1. out[c] \in Outputs
      BY Zenon DEF ShimTypes
    <3>2. [out[c] EXCEPT !.thread = "ended"] \in Outputs
      BY Zenon, <3>1, OutputTypes
    <3>3. budget' \in [faults: Nat, stuck: Nat, crashes: Nat]
      BY SMTT(30), <2>8, BudgetTypes DEF CaptureGivesUp, ShimTypes
    <3> QED BY SMTT(30), <2>8, <3>2, <3>3 DEF CaptureGivesUp, ShimTypes
  <2>9. CASE WorkloadWrites(c)
    BY ZenonT(40), <2>9, OutputTypes DEF WorkloadWrites, ShimTypes
  <2>10. CASE InitExits(c)
    BY Zenon, <2>10, InitTypes DEF InitExits, ShimTypes
  <2> QED BY Zenon, <1>1, <2>1, <2>2, <2>3, <2>4, <2>5, <2>6, <2>7, <2>8, <2>9, <2>10
<1>2. CASE OtherRequest
  BY SMTT(30), <1>2, ReapingTypes DEF OtherRequest, Answered, ShimTypes
<1>3. CASE Shutdown
  BY Zenon, <1>3, FirstTypes DEF Shutdown, ShimTypes
<1>4. CASE Join
  <2>1. req.waited \in Containers /\ req.code \in Codes
    BY SMTT(30), <1>4 DEF Join, At, RequestInv, ShimTypes, Requests
  <2>2. req' \in Requests
    BY Zenon, <1>4, <2>1, JoinTypes, ReapingTypes DEF Join, ShimTypes
  <2>3. conts' \in [Containers -> Rows]
    BY Zenon, <1>4, <2>1, RowTypes DEF Join, ShimTypes
  <2> QED BY Zenon, <1>4, <2>2, <2>3 DEF Join, ShimTypes
<1>5. CASE ReapOne
  BY Zenon, <1>5, TryWaitTypes DEF ReapOne
<1>6. CASE ReapEnds
  <2>1. req' \in Requests
    BY Zenon, <1>6, RequestFields, GotoTypes, ReapingTypes DEF ReapEnds, ShimTypes
  <2>2. conts' \in [Containers -> Rows]
    BY Zenon, <1>6, RowTypes DEF ReapEnds, ShimTypes
  <2> QED BY SMTT(30), <1>6, <2>1, <2>2 DEF ReapEnds, ShimTypes
<1>7. CASE GraceExit
  <2>1. req.c \in Containers
    BY Zenon, <1>7 DEF GraceExit, At, RequestInv, Stopping
  <2> QED BY Zenon, <1>7, <2>1, TryWaitTypes DEF GraceExit
<1>8. CASE GraceEnds
  <2>1. req.c \in Containers
    BY SMTT(30), <1>8 DEF GraceEnds, At, RequestInv, Starting, Stopping
  <2> QED BY Zenon, <1>8, <2>1, GotoTypes DEF GraceEnds, Goto, ShimTypes
<1>9. CASE SendKill
  <2>1. req.c \in Containers
    BY Zenon, <1>9 DEF SendKill, At, RequestInv, Stopping
  <2>2. init[req.c] \in Inits /\ req \in Requests
    BY SMTT(30), <2>1 DEF ShimTypes
  <2>3. Killed(init[req.c]) \in Inits /\ [init[req.c] EXCEPT !.stuck = TRUE] \in Inits
    BY Zenon, <2>2, InitTypes
  <2>4. init' \in [Containers -> Inits]
    BY Zenon, <1>9, <2>1, <2>3 DEF SendKill, ShimTypes
  <2>5. budget' \in [faults: Nat, stuck: Nat, crashes: Nat]
    BY Zenon, <1>9, BudgetTypes DEF SendKill, ShimTypes
  <2> QED BY Zenon, <1>9, <2>2, <2>4, <2>5, GotoTypes DEF SendKill, Goto, ShimTypes
<1>10. CASE KilledExit
  <2>1. req.c \in Containers
    BY Zenon, <1>10 DEF KilledExit, At, RequestInv, Stopping
  <2> QED BY Zenon, <1>10, <2>1, TryWaitTypes DEF KilledExit
<1>11. CASE KillTimesOut
  <2>1. req.c \in Containers
    BY Zenon, <1>11 DEF KillTimesOut, At, RequestInv, Starting, Stopping
  <2>2. SIGKILLED \in Codes
    BY SMTT(30) DEF Codes
  <2>3. req' \in Requests
    BY ZenonT(40), <1>11, <2>1, <2>2, WaitTypes DEF KillTimesOut, ShimTypes
  <2>4. out' \in [Containers -> Outputs]
    BY ZenonT(40), <1>11, <2>1, <2>2, OutputTypes DEF KillTimesOut, ShimTypes
  <2> QED BY Zenon, <1>11, <2>3, <2>4 DEF KillTimesOut, ShimTypes
<1>12. CASE ShutdownOne
  <2>1. PICK c \in req.todo :
          req' = IF conts[c].status = "running"
                 THEN [req EXCEPT !.pc = "grace", !.c = c, !.then = "shutdown"]
                 ELSE [req EXCEPT !.todo = req.todo \ {c}]
    BY Zenon, <1>12 DEF ShutdownOne
  <2>2. req \in Requests /\ c \in Containers
    BY Zenon, <2>1, RequestFields DEF ShimTypes
  <2> QED BY ZenonT(40), <1>12, <2>1, <2>2, ShutdownTypes DEF ShutdownOne, ShimTypes
<1>13. CASE ShutdownEnds
  <2>1. req' \in Requests
    BY SMTT(30), <1>13, RequestFields DEF ShutdownEnds, ShimTypes
  <2>2. out' \in [Containers -> Outputs]
    BY Zenon, <1>13, OutputTypes DEF ShutdownEnds, ShimTypes
  <2> QED BY Zenon, <1>13, <2>1, <2>2 DEF ShutdownEnds, ShimTypes
<1>14. CASE Prepare
  <2>1. req.c \in Containers
    BY Zenon, <1>14 DEF Prepare, At, RequestInv, Starting
  <2>2. out[req.c] \in Outputs /\ req \in Requests
    BY SMTT(30), <2>1 DEF ShimTypes
  <2>3. Opened(out[req.c]) \in Outputs /\ [out[req.c] EXCEPT !.marker = TRUE] \in Outputs
    BY Zenon, <2>2, OutputTypes
  <2>4. out' \in [Containers -> Outputs]
    BY Zenon, <1>14, <2>1, <2>3 DEF Prepare, ShimTypes
  <2>5. budget' \in [faults: Nat, stuck: Nat, crashes: Nat]
    BY SMTT(30), <1>14, BudgetTypes DEF Prepare, ShimTypes
  <2>6. req' \in Requests
    BY Zenon, <1>14, <2>2, GotoTypes, ReapingTypes DEF Prepare, Answered, Goto
  <2> QED BY Zenon, <1>14, <2>4, <2>5, <2>6 DEF Prepare, ShimTypes
<1>15. CASE CrunCreate
  <2>1. req.c \in Containers
    BY SMTT(30), <1>15 DEF CrunCreate, At, RequestInv, Starting
  <2>2. init[req.c] \in Inits /\ req \in Requests
    BY Zenon, <2>1 DEF ShimTypes
  <2>3. [init[req.c] EXCEPT !.state = "created"] \in Inits
    BY Zenon, <2>2, InitTypes
  <2>4. budget' \in [faults: Nat, stuck: Nat, crashes: Nat]
    BY Zenon, <1>15, BudgetTypes DEF CrunCreate, ShimTypes
  <2>5. CASE StartFails
    BY Zenon, <1>15, <2>1, <2>4, <2>5, StartFailsTypes DEF CrunCreate, ShimTypes
  <2>6. CASE ~StartFails
    <3>1. init' = [init EXCEPT ![req.c] = [init[req.c] EXCEPT !.state = "created"]] /\ UNCHANGED out
      BY Zenon, <1>15, <2>6 DEF CrunCreate
    <3>2. req' \in Requests
      BY Zenon, <1>15, <2>2, <2>6, GotoTypes DEF CrunCreate, Goto
    <3> QED BY Zenon, <1>15, <2>3, <2>4, <3>1, <3>2 DEF CrunCreate, ShimTypes
  <2> QED BY Zenon, <2>5, <2>6
<1>16. CASE Enroll
  <2>1. req.c \in Containers
    BY SMTT(30), <1>16 DEF Enroll, At, RequestInv, Starting
  <2>2. init[req.c] \in Inits /\ req \in Requests
    BY Zenon, <2>1 DEF ShimTypes
  <2>3. [init[req.c] EXCEPT !.enrolled = TRUE] \in Inits
    BY Zenon, <2>2, InitTypes
  <2>4. budget' \in [faults: Nat, stuck: Nat, crashes: Nat]
    BY Zenon, <1>16, BudgetTypes DEF Enroll, ShimTypes
  <2>5. CASE StartFails
    BY Zenon, <1>16, <2>1, <2>4, <2>5, StartFailsTypes DEF Enroll, ShimTypes
  <2>6. CASE ~StartFails
    <3>1. init' = [init EXCEPT ![req.c] = [init[req.c] EXCEPT !.enrolled = TRUE]] /\ UNCHANGED out
      BY Zenon, <1>16, <2>6 DEF Enroll
    <3>2. req' \in Requests
      BY Zenon, <1>16, <2>2, <2>6, GotoTypes DEF Enroll, Goto
    <3> QED BY Zenon, <1>16, <2>3, <2>4, <3>1, <3>2 DEF Enroll, ShimTypes
  <2> QED BY Zenon, <2>5, <2>6
<1>17. CASE CrunStart
  <2>1. req.c \in Containers
    BY SMTT(30), <1>17 DEF CrunStart, At, RequestInv, Starting
  <2>2. init[req.c] \in Inits /\ req \in Requests
    BY Zenon, <2>1 DEF ShimTypes
  <2>3. [init[req.c] EXCEPT !.state = "running"] \in Inits
    BY Zenon, <2>2, InitTypes
  <2>4. budget' \in [faults: Nat, stuck: Nat, crashes: Nat]
    BY Zenon, <1>17, BudgetTypes DEF CrunStart, ShimTypes
  <2>5. CASE StartFails
    BY <1>17, <2>1, <2>4, <2>5, StartFailsTypes, RowTypes DEF CrunStart, ShimTypes
  <2>6. CASE ~StartFails
    <3>1. init' = [init EXCEPT ![req.c] = [init[req.c] EXCEPT !.state = "running"]] /\ UNCHANGED out
      BY Zenon, <1>17, <2>6 DEF CrunStart
    <3>2. req' \in Requests
      BY Zenon, <1>17, <2>2, <2>6, ReapingTypes DEF CrunStart, Answered
    <3>3. conts' \in [Containers -> Rows]
      BY <1>17, <2>1, <2>6, RowTypes DEF CrunStart, ShimTypes
    <3> QED BY ZenonT(40), <1>17, <2>3, <2>4, <3>1, <3>2, <3>3 DEF CrunStart, ShimTypes
  <2> QED BY Zenon, <2>5, <2>6
<1>18. CASE ShimCrash
  <2>1. conts' \in [Containers -> Rows]
    BY ZenonT(40), <1>18, RowTypes DEF ShimCrash
  <2>2. out' \in [Containers -> Outputs]
    BY ZenonT(40), <1>18, OutputTypes DEF ShimCrash, ShimTypes
  <2>3. budget' \in [faults: Nat, stuck: Nat, crashes: Nat]
    BY Zenon, <1>18, BudgetTypes DEF ShimCrash
  <2> QED BY Zenon, <1>18, <2>1, <2>2, <2>3, RequestFields DEF ShimCrash, ShimTypes
<1>19. CASE ShimSpawned
  BY Zenon, <1>19 DEF ShimSpawned, ShimTypes
<1>20. CASE UNCHANGED vars
  BY Zenon, <1>20 DEF vars, ShimTypes
<1> QED BY Zenon, <1>1, <1>2, <1>3, <1>4, <1>5, <1>6, <1>7, <1>8, <1>9, <1>10,
           <1>11, <1>12, <1>13, <1>14, <1>15, <1>16, <1>17, <1>18, <1>19,
           <1>20 DEF Next, Request, Handle, Poll, Capture

-----------------------------------------------------------------------------
(* What the steps of a start do.                                           *)

\* The fields of a request that goes to reap.
LEMMA ReapingFields ==
  ASSUME NEW c, NEW then
  PROVE  /\ Reaping(c, then).pc = "reap" /\ Reaping(c, then).c = c
         /\ Reaping(c, then).then = then /\ Reaping(c, then).waited = "none"
  BY Zenon DEF Reaping, Idle

\* SIGKILL ends an init that is not stuck, and changes nothing else.
LEMMA KilledInit ==
  ASSUME NEW i \in Inits
  PROVE  /\ Killed(i).enrolled = i.enrolled /\ Killed(i).stuck = i.stuck
         /\ Killed(i).state = i.state \/ (i.state \in {"created", "running"} /\ Killed(i).state = "zombie")
         /\ Killed(i).state \in {"created", "running"} => i.stuck
         /\ i.state \notin {"created", "running"} => Killed(i) = i
<1>1. CASE i.state \in {"created", "running"} /\ ~i.stuck
  <2>1. Killed(i) = [i EXCEPT !.state = "zombie", !.code = SIGKILLED]
    BY Zenon, <1>1 DEF Killed
  <2> QED BY Zenon, <1>1, <2>1 DEF Inits
<1>2. CASE ~(i.state \in {"created", "running"} /\ ~i.stuck)
  BY Zenon, <1>2 DEF Killed
<1> QED BY Zenon, <1>1, <1>2

\* A capture thread leaves alone what was written and whether there is a log.
LEMMA CaptureFields ==
  ASSUME NEW o \in Outputs
  PROVE  /\ write(o, o.pipe).wrote = o.wrote /\ write(o, o.pipe).file = o.file
         /\ LET p == [o EXCEPT !.pipe = 0, !.incomplete = TRUE, !.remaining = 0]
            IN  p.wrote = o.wrote /\ p.file = o.file
         /\ LET p == [o EXCEPT !.thread = "ended", !.marker = o.incomplete]
            IN  p.wrote = o.wrote /\ p.file = o.file
         /\ LET p == [o EXCEPT !.thread = "ended"]
            IN  p.wrote = o.wrote /\ p.file = o.file
<1>1. write(o, o.pipe).wrote = o.wrote /\ write(o, o.pipe).file = o.file
  BY Zenon DEF write, Outputs
<1> QED BY Zenon, <1>1 DEF Outputs

\* StartContainer goes on to start a created container, or answers.
LEMMA StartEffect ==
  ASSUME NEW c \in Containers, StartContainer(c)
  PROVE  /\ \/ req'.pc = "prepare" /\ req'.c = c /\ req'.then = "none" /\ conts[c].status = "created"
            \/ req'.pc = "reap" /\ req'.then = "answered"
         /\ shim = "up" /\ req.pc = "idle"
         /\ UNCHANGED <<shim, conts, init, out, told, budget>>
<1>1. CASE conts[c].status = "created"
  BY Zenon, <1>1 DEF StartContainer, Idle, At
<1>2. CASE conts[c].status # "created"
  BY <1>2, ReapingFields DEF StartContainer, Answered, At
<1> QED BY Zenon, <1>1, <1>2

\* Prepare opens a new log, or answers.
LEMMA PrepareEffect ==
  ASSUME LogMaxBytes \in Nat, ShimTypes, RequestInv, Prepare
  PROVE  /\ req.c \in Containers /\ shim = "up" /\ req.pc = "prepare"
         /\ \/ /\ req'.pc = "create" /\ req'.c = req.c /\ req'.then = req.then
               /\ ~out[req.c].file /\ out'[req.c].file
            \/ req'.pc = "reap" /\ req'.then = "answered"
         /\ \A k \in Containers : out'[k].wrote = out[k].wrote /\ (out[k].file => out'[k].file)
         /\ budget'.crashes = budget.crashes
         /\ UNCHANGED <<shim, conts, init, told>>
<1>1. req.c \in Containers /\ shim = "up" /\ req.pc = "prepare" /\ UNCHANGED <<shim, conts, init, told>>
  BY Zenon DEF Prepare, At, RequestInv, Starting
<1>2. req \in Requests /\ \A k \in Containers : out[k] \in Outputs
  BY Zenon DEF ShimTypes
<1>3. CASE ~out[req.c].file /\ out' = [out EXCEPT ![req.c] = Opened(@)] /\ Goto("create") /\ UNCHANGED budget
  <2>1. req'.pc = "create" /\ req'.c = req.c /\ req'.then = req.then
    BY Zenon, <1>2, <1>3 DEF Goto, Requests
  <2>2. \A k \in Containers : out'[k] = IF k = req.c THEN Opened(out[k]) ELSE out[k]
    BY Zenon, <1>3 DEF ShimTypes
  <2>3. Opened(out[req.c]).file /\ Opened(out[req.c]).wrote = out[req.c].wrote
    BY <1>1, <1>2 DEF Opened, Outputs
  <2> QED BY Zenon, <1>1, <1>3, <2>1, <2>2, <2>3
<1>4. CASE out[req.c].file /\ out' = [out EXCEPT ![req.c].marker = TRUE] /\ Answered /\ UNCHANGED budget
  <2>1. \A k \in Containers : out'[k].wrote = out[k].wrote /\ out'[k].file = out[k].file
    BY Zenon, <1>1, <1>2, <1>4 DEF ShimTypes, Outputs
  <2> QED BY <1>1, <1>4, <2>1, ReapingFields DEF Answered
<1>5. CASE Answered /\ Spend("faults") /\ UNCHANGED out
  <2>1. budget'.crashes = budget.crashes
    BY Zenon, <1>5 DEF Spend, ShimTypes
  <2> QED BY <1>1, <1>5, <2>1, ReapingFields DEF Answered
<1> QED BY Zenon, <1>3, <1>4, <1>5 DEF Prepare

\* A start that fails kills its init and waits for its capture.
FailedStart ==
  /\ req'.pc = "join" /\ req'.then = "failed" /\ req'.waited = req.c /\ req'.c = req.c
  /\ \A k \in Containers : init'[k] = IF k = req.c THEN Killed(init[k]) ELSE init[k]
  /\ \A k \in Containers : out'[k].wrote = out[k].wrote /\ out'[k].file = out[k].file
  /\ UNCHANGED <<shim, conts, told>> /\ budget'.crashes = budget.crashes

\* The failure path of start_with_crun is a FailedStart.
LEMMA FailedStartEffect ==
  ASSUME ShimTypes, req.c \in Containers, StartFails, UNCHANGED <<shim, conts, told>>,
         Spend("faults") \/ UNCHANGED budget
  PROVE  FailedStart
<1>1. req'.pc = "join" /\ req'.then = "failed" /\ req'.waited = req.c /\ req'.c = req.c
  BY Zenon DEF StartFails, ShimTypes, Requests
<1>2. \A k \in Containers : init'[k] = IF k = req.c THEN Killed(init[k]) ELSE init[k]
  BY Zenon DEF StartFails, ShimTypes
<1>3. \A k \in Containers : out'[k].wrote = out[k].wrote /\ out'[k].file = out[k].file
  <2>1. \A k \in Containers : out'[k] = IF k = req.c THEN StopCapture(out[k]) ELSE out[k]
    BY Zenon DEF StartFails, ShimTypes
  <2>2. \A k \in Containers : out[k] \in Outputs
    BY Zenon DEF ShimTypes
  <2>3. \A o \in Outputs : StopCapture(o).wrote = o.wrote /\ StopCapture(o).file = o.file
    BY Zenon DEF StopCapture, Outputs
  <2> QED BY Zenon, <2>1, <2>2, <2>3
<1>4. budget'.crashes = budget.crashes
  BY Zenon DEF Spend, ShimTypes
<1> QED BY Zenon, <1>1, <1>2, <1>3, <1>4 DEF FailedStart

\* crun create makes the init, or the start fails.
LEMMA CreateEffect ==
  ASSUME ShimTypes, RequestInv, CrunCreate
  PROVE  /\ req.c \in Containers /\ shim = "up" /\ req.pc = "create"
         /\ \/ FailedStart
            \/ /\ req'.pc = "enrol" /\ req'.c = req.c /\ req'.then = req.then
               /\ init' = [init EXCEPT ![req.c].state = "created"]
               /\ UNCHANGED <<shim, conts, out, told, budget>>
<1>1. req.c \in Containers /\ shim = "up" /\ req.pc = "create"
  BY Zenon DEF CrunCreate, At, RequestInv, Starting
<1>2. CASE StartFails
  BY Zenon, <1>1, <1>2, FailedStartEffect DEF CrunCreate
<1>3. CASE ~StartFails
  BY Zenon, <1>1, <1>3 DEF CrunCreate, Goto, ShimTypes, Requests
<1> QED BY Zenon, <1>1, <1>2, <1>3

\* The enrolment of a created init, or the start fails.
LEMMA EnrollEffect ==
  ASSUME ShimTypes, RequestInv, Enroll
  PROVE  /\ req.c \in Containers /\ shim = "up" /\ req.pc = "enrol"
         /\ \/ FailedStart
            \/ /\ req'.pc = "start" /\ req'.c = req.c /\ req'.then = req.then
               /\ init[req.c].state = "created"
               /\ init' = [init EXCEPT ![req.c].enrolled = TRUE]
               /\ UNCHANGED <<shim, conts, out, told, budget>>
<1>1. req.c \in Containers /\ shim = "up" /\ req.pc = "enrol"
  BY Zenon DEF Enroll, At, RequestInv, Starting
<1>2. CASE StartFails
  BY Zenon, <1>1, <1>2, FailedStartEffect DEF Enroll
<1>3. CASE ~StartFails
  BY Zenon, <1>1, <1>3 DEF Enroll, Goto, ShimTypes, Requests
<1> QED BY Zenon, <1>1, <1>2, <1>3

\* crun start runs the workload and the container counts as running, or the
\* start fails.
LEMMA CrunStartEffect ==
  ASSUME ShimTypes, RequestInv, CrunStart
  PROVE  /\ req.c \in Containers /\ shim = "up" /\ req.pc = "start"
         /\ \/ FailedStart
            \/ /\ req'.pc = "reap" /\ req'.then = "answered"
               /\ init[req.c].state = "created"
               /\ init' = [init EXCEPT ![req.c].state = "running"]
               /\ conts' = [conts EXCEPT ![req.c].status = "running"]
               /\ UNCHANGED <<shim, out, told, budget>>
<1>1. req.c \in Containers /\ shim = "up" /\ req.pc = "start"
  BY Zenon DEF CrunStart, At, RequestInv, Starting
<1>2. CASE StartFails
  <2>1. req'.pc = "join"
    BY Zenon, <1>2 DEF StartFails, ShimTypes, Requests
  <2>2. ~Answered
    BY <2>1, ReapingFields DEF Answered
  <2> QED BY Zenon, <1>1, <1>2, <2>2, FailedStartEffect DEF CrunStart
<1>3. CASE ~StartFails
  BY <1>1, <1>3, ReapingFields DEF CrunStart, Answered
<1> QED BY Zenon, <1>1, <1>2, <1>3

\* SIGKILL ends the init, or finds that nothing does.
LEMMA SendKillEffect ==
  ASSUME ShimTypes, RequestInv, SendKill
  PROVE  /\ req.c \in Containers /\ shim = "up" /\ req.pc = "sigkill"
         /\ req'.pc = "kill" /\ req'.c = req.c /\ req'.then = req.then /\ req'.todo = req.todo
         /\ budget'.crashes = budget.crashes
         /\ UNCHANGED <<shim, conts, out, told>>
         /\ \A k \in Containers : k # req.c => init'[k] = init[k]
         /\ init'[req.c].enrolled = init[req.c].enrolled
         /\ \/ init'[req.c] = Killed(init[req.c])
            \/ /\ init[req.c].state \in {"created", "running"}
               /\ init'[req.c].state = init[req.c].state /\ init'[req.c].stuck
<1>1. req.c \in Containers /\ shim = "up" /\ req.pc = "sigkill"
  BY Zenon DEF SendKill, At, RequestInv, Stopping
<1>2. req'.pc = "kill" /\ req'.c = req.c /\ req'.then = req.then /\ req'.todo = req.todo
  BY Zenon DEF SendKill, Goto, ShimTypes, Requests
<1>3. budget'.crashes = budget.crashes
  BY Zenon DEF SendKill, Spend, ShimTypes
<1>4. init[req.c] \in Inits
  BY Zenon, <1>1 DEF ShimTypes
<1>5. CASE init' = [init EXCEPT ![req.c] = Killed(@)]
  BY Zenon, <1>1, <1>2, <1>3, <1>4, <1>5, KilledInit DEF SendKill, ShimTypes
<1>6. CASE Alive(req.c) /\ init' = [init EXCEPT ![req.c].stuck = TRUE]
  <2>1. init'[req.c] = [init[req.c] EXCEPT !.stuck = TRUE] /\ \A k \in Containers : k # req.c => init'[k] = init[k]
    BY Zenon, <1>1, <1>6 DEF ShimTypes
  <2>2. init'[req.c].stuck /\ init'[req.c].state = init[req.c].state /\ init'[req.c].enrolled = init[req.c].enrolled
    BY Zenon, <1>4, <2>1 DEF Inits
  <2> QED BY Zenon, <1>1, <1>2, <1>3, <1>6, <2>1, <2>2 DEF SendKill, Alive
<1> QED BY Zenon, <1>5, <1>6 DEF SendKill

-----------------------------------------------------------------------------
(* The request in progress.                                                *)

\* Every step leaves a request that names what it is at work on.
LEMMA RequestStep ==
  ASSUME LogMaxBytes \in Nat, ShimTypes, RequestInv, [Next]_vars
  PROVE  RequestInv'
<1>1. ASSUME NEW c \in Containers,
             CreateContainer(c) \/ StartContainer(c) \/ StopContainer(c)
             \/ DeleteContainer(c) \/ GetState(c) \/ CaptureRead(c)
             \/ CaptureEof(c) \/ CaptureGivesUp(c) \/ WorkloadWrites(c)
             \/ InitExits(c)
      PROVE  RequestInv'
  <2>1. CASE CreateContainer(c)
    BY Zenon, <2>1 DEF CreateContainer, At, Answered, Reaping, Idle, Absent, RequestInv,
       Starting, Stopping, ShimTypes, Requests
  <2>2. CASE StartContainer(c)
    BY Zenon, <2>2, StartEffect DEF RequestInv, Starting, Stopping
  <2>3. CASE StopContainer(c)
    BY Zenon, <2>3 DEF StopContainer, At, Reaping, Idle, RequestInv, Starting, Stopping,
       ShimTypes, Requests
  <2>4. CASE DeleteContainer(c)
    BY Zenon, <2>4 DEF DeleteContainer, At, Reaping, Idle, RequestInv, Starting, Stopping,
       ShimTypes, Requests
  <2>5. CASE GetState(c)
    BY Zenon, <2>5 DEF GetState, At, Answered, Reaping, Idle, RequestInv, Starting, Stopping,
       ShimTypes, Requests
  <2>6. CASE CaptureRead(c)
    BY Zenon, <2>6 DEF CaptureRead, RequestInv
  <2>7. CASE CaptureEof(c)
    BY Zenon, <2>7 DEF CaptureEof, RequestInv
  <2>8. CASE CaptureGivesUp(c)
    BY Zenon, <2>8 DEF CaptureGivesUp, RequestInv
  <2>9. CASE WorkloadWrites(c)
    BY Zenon, <2>9 DEF WorkloadWrites, RequestInv
  <2>10. CASE InitExits(c)
    BY Zenon, <2>10 DEF InitExits, RequestInv
  <2> QED BY Zenon, <1>1, <2>1, <2>2, <2>3, <2>4, <2>5, <2>6, <2>7, <2>8, <2>9, <2>10
<1>2. CASE OtherRequest
  BY Zenon, <1>2 DEF OtherRequest, At, Answered, Reaping, Idle, RequestInv, Starting,
     Stopping, ShimTypes, Requests
<1>3. CASE Shutdown
  BY Zenon, <1>3 DEF Shutdown, At, Idle, RequestInv, Starting, Stopping, ShimTypes, Requests
<1>4. CASE Join
  BY <1>4 DEF Join, At, Reaping, Idle, RequestInv, Starting, Stopping, ShimTypes,
     Requests
<1>5. CASE ReapOne
  BY <1>5 DEF ReapOne, At, Exited, try_wait, StopCapture, RequestInv, Starting,
     Stopping, ShimTypes, Requests
<1>6. CASE ReapEnds
  BY Zenon, <1>6 DEF ReapEnds, At, Reaping, Idle, Absent, RequestInv, Starting, Stopping,
     ShimTypes, Requests
<1>7. CASE GraceExit
  BY Zenon, <1>7 DEF GraceExit, At, try_wait, StopCapture, RequestInv, Starting, Stopping,
     ShimTypes, Requests
<1>8. CASE GraceEnds
  BY Zenon, <1>8 DEF GraceEnds, At, Goto, RequestInv, Starting, Stopping, ShimTypes,
     Requests
<1>9. CASE SendKill
  BY Zenon, <1>9 DEF SendKill, At, Goto, Killed, Spend, Alive, RequestInv, Starting,
     Stopping, ShimTypes, Requests
<1>10. CASE KilledExit
  BY Zenon, <1>10 DEF KilledExit, At, try_wait, StopCapture, RequestInv, Starting, Stopping,
     ShimTypes, Requests
<1>11. CASE KillTimesOut
  BY Zenon, <1>11 DEF KillTimesOut, At, StopCapture, RequestInv, Starting, Stopping,
     ShimTypes, Requests
<1>12. CASE ShutdownOne
  BY <1>12 DEF ShutdownOne, At, RequestInv, Starting, Stopping, ShimTypes, Requests
<1>13. CASE ShutdownEnds
  BY Zenon, <1>13 DEF ShutdownEnds, At, Idle, RequestInv, Starting, Stopping, ShimTypes,
     Requests
<1>14. CASE Prepare
  BY Zenon, <1>14, PrepareEffect DEF RequestInv, Starting, Stopping
<1>15. CASE CrunCreate
  BY ZenonT(40), <1>15 DEF CrunCreate, At, Goto, StartFails, Killed, StopCapture, Spend, Fault,
     RequestInv, Starting, Stopping, ShimTypes, Requests
<1>16. CASE Enroll
  BY Zenon, <1>16 DEF Enroll, At, Goto, StartFails, Killed, StopCapture, Spend, Fault,
     RequestInv, Starting, Stopping, ShimTypes, Requests
<1>17. CASE CrunStart
  BY ZenonT(40), <1>17 DEF CrunStart, At, Answered, Reaping, Idle, StartFails, Killed, StopCapture,
     Spend, Fault, RequestInv, Starting, Stopping, ShimTypes, Requests
<1>18. CASE ShimCrash
  BY Zenon, <1>18 DEF ShimCrash, Idle, Absent, Spend, RequestInv, Starting, Stopping,
     ShimTypes, Requests
<1>19. CASE ShimSpawned
  BY Zenon, <1>19 DEF ShimSpawned, RequestInv, Starting, Stopping, ShimTypes, Requests
<1>20. CASE UNCHANGED vars
  BY Zenon, <1>20 DEF vars, RequestInv, Starting, Stopping, ShimTypes, Requests
<1> QED BY Zenon, <1>1, <1>2, <1>3, <1>4, <1>5, <1>6, <1>7, <1>8, <1>9, <1>10,
           <1>11, <1>12, <1>13, <1>14, <1>15, <1>16, <1>17, <1>18, <1>19,
           <1>20 DEF Next, Request, Handle, Poll, Capture

-----------------------------------------------------------------------------
(* Output.                                                                 *)

\* What the shim and a capture thread do to an output keeps OutputInv.
LEMMA OutputSteps ==
  ASSUME NEW o \in Outputs, LogMaxBytes \in Nat, OutputInv(o)
  PROVE  /\ OutputInv(StopCapture(o))
         /\ ~o.file => OutputInv(Opened(o))
         /\ OutputInv([o EXCEPT !.marker = TRUE])
         /\ o.thread = "reading" =>
              /\ OutputInv(write(o, o.pipe))
              /\ OutputInv([o EXCEPT !.pipe = 0, !.incomplete = TRUE, !.remaining = 0])
              /\ OutputInv([o EXCEPT !.thread = "ended"])
              /\ o.pipe = 0 => OutputInv([o EXCEPT !.thread = "ended", !.marker = o.incomplete])
              /\ OutputInv([o EXCEPT !.pipe = @ + 1, !.wrote = @ + 1])
              /\ OutputInv([o EXCEPT !.thread = "dead"])
              /\ OutputInv([o EXCEPT !.thread = "dead", !.pipe = 0])
<1>1. OutputInv(StopCapture(o))
  BY Zenon DEF OutputInv, StopCapture, Outputs
<1>2. ~o.file => OutputInv(Opened(o))
  BY DEF OutputInv, Opened, Outputs
<1>3. OutputInv([o EXCEPT !.marker = TRUE])
  BY Zenon DEF OutputInv, Outputs
<1>4. ASSUME o.thread = "reading"
      PROVE  /\ OutputInv(write(o, o.pipe))
             /\ OutputInv([o EXCEPT !.pipe = 0, !.incomplete = TRUE, !.remaining = 0])
             /\ OutputInv([o EXCEPT !.thread = "ended"])
             /\ o.pipe = 0 => OutputInv([o EXCEPT !.thread = "ended", !.marker = o.incomplete])
             /\ OutputInv([o EXCEPT !.pipe = @ + 1, !.wrote = @ + 1])
             /\ OutputInv([o EXCEPT !.thread = "dead"])
             /\ OutputInv([o EXCEPT !.thread = "dead", !.pipe = 0])
  <2>1. OutputInv(write(o, o.pipe))
    BY <1>4 DEF OutputInv, write, Outputs
  <2>2. OutputInv([o EXCEPT !.pipe = 0, !.incomplete = TRUE, !.remaining = 0])
    BY <1>4 DEF OutputInv, Outputs
  <2>3. OutputInv([o EXCEPT !.thread = "ended"])
    BY Zenon, <1>4 DEF OutputInv, Outputs
  <2>4. o.pipe = 0 => OutputInv([o EXCEPT !.thread = "ended", !.marker = o.incomplete])
    BY <1>4 DEF OutputInv, Outputs
  <2>5. OutputInv([o EXCEPT !.pipe = @ + 1, !.wrote = @ + 1])
    BY <1>4 DEF OutputInv, Outputs
  <2>6. OutputInv([o EXCEPT !.thread = "dead"]) /\ OutputInv([o EXCEPT !.thread = "dead", !.pipe = 0])
    BY Zenon, <1>4 DEF OutputInv, Outputs
  <2> QED BY Zenon, <2>1, <2>2, <2>3, <2>4, <2>5, <2>6
<1> QED BY Zenon, <1>1, <1>2, <1>3, <1>4

\* The capture of every container stays as OutputInv says.
LEMMA OutputStep ==
  ASSUME LogMaxBytes \in Nat, ShimTypes, RequestInv, [Next]_vars,
         \A c \in Containers : OutputInv(out[c])
  PROVE  \A c \in Containers : OutputInv(out[c])'
<1>0. \A k \in Containers : out[k] \in Outputs
  BY Zenon DEF ShimTypes
<1>1. ASSUME NEW c \in Containers, Capture(c) \/ WorkloadWrites(c)
      PROVE  \A k \in Containers : OutputInv(out[k])'
  <2>1. PICK o : /\ out' = [out EXCEPT ![c] = o]
                 /\ \/ o = write(out[c], out[c].pipe)
                    \/ o = [out[c] EXCEPT !.pipe = 0, !.incomplete = TRUE, !.remaining = 0]
                    \/ o = [out[c] EXCEPT !.thread = "ended"]
                    \/ out[c].pipe = 0 /\ o = [out[c] EXCEPT !.thread = "ended", !.marker = out[c].incomplete]
                    \/ o = [out[c] EXCEPT !.pipe = @ + 1, !.wrote = @ + 1]
    <3>1. CASE CaptureRead(c)
      <4>1. CASE out' = [out EXCEPT ![c] = write(@, @.pipe)]
        BY <4>1, Zenon
      <4>2. CASE out' = [out EXCEPT ![c].pipe = 0, ![c].incomplete = TRUE, ![c].remaining = 0]
        BY <4>2, Zenon
      <4> QED BY Zenon, <3>1, <4>1, <4>2 DEF CaptureRead
    <3>2. CASE CaptureEof(c)
      <4>1. CASE out[c].pipe = 0 /\ out' = [out EXCEPT ![c].thread = "ended", ![c].marker = out[c].incomplete]
        BY <4>1, Zenon
      <4>2. CASE out' = [out EXCEPT ![c].thread = "ended"]
        BY <4>2, Zenon
      <4> QED BY Zenon, <3>2, <4>1, <4>2 DEF CaptureEof
    <3>3. CASE CaptureGivesUp(c)
      BY <3>3, Zenon DEF CaptureGivesUp
    <3>4. CASE WorkloadWrites(c)
      BY <3>4, Zenon DEF WorkloadWrites
    <3> QED BY Zenon, <1>1, <3>1, <3>2, <3>3, <3>4 DEF Capture
  <2>2. out[c].thread = "reading"
    BY Zenon, <1>1 DEF Capture, CaptureRead, CaptureEof, CaptureGivesUp, WorkloadWrites, Reading
  <2>3. OutputInv(o)
    BY Zenon, <1>0, <2>1, <2>2, OutputSteps
  <2>4. \A k \in Containers : out'[k] = IF k = c THEN o ELSE out[k]
    BY Zenon, <2>1 DEF ShimTypes
  <2>5. ASSUME NEW k \in Containers
        PROVE  OutputInv(out'[k])
    BY Zenon, <2>3, <2>4
  <2> QED BY Zenon, <2>5 DEF OutputInv
<1>2. ASSUME NEW c \in Containers, out' = [out EXCEPT ![c] = StopCapture(@)]
      PROVE  \A k \in Containers : OutputInv(out[k])'
  <2>1. \A k \in Containers : out'[k] = IF k = c THEN StopCapture(out[c]) ELSE out[k]
    BY Zenon, <1>2 DEF ShimTypes
  <2>2. ASSUME NEW k \in Containers
        PROVE  OutputInv(out'[k])
    BY Zenon, <1>0, <2>1, OutputSteps
  <2> QED BY Zenon, <2>2 DEF OutputInv
<1>3. CASE Prepare
  <2>1. req.c \in Containers
    BY SMTT(30), <1>3 DEF Prepare, At, RequestInv, Starting
  <2>2. ASSUME NEW k \in Containers
        PROVE  OutputInv(out'[k])
    <3>1. out'[k] \in {out[k], [out[k] EXCEPT !.marker = TRUE]} \/ (~out[k].file /\ out'[k] = Opened(out[k]))
      BY SMTT(30), <1>3, <2>1 DEF Prepare, ShimTypes
    <3> QED BY Zenon, <1>0, <3>1, OutputSteps
  <2> QED BY Zenon, <2>2 DEF OutputInv
<1>4. CASE ShimCrash \/ ShutdownEnds
  <2>1. ASSUME NEW k \in Containers
        PROVE  OutputInv(out'[k])
    <3>1. \/ out'[k] = out[k]
          \/ /\ out[k].thread = "reading"
             /\ out'[k] \in {[out[k] EXCEPT !.thread = "dead"], [out[k] EXCEPT !.thread = "dead", !.pipe = 0]}
      BY Zenon, <1>4 DEF ShimCrash, ShutdownEnds
    <3> QED BY ZenonT(40), <1>0, <3>1, OutputSteps
  <2> QED BY Zenon, <2>1 DEF OutputInv
<1>5. CASE UNCHANGED out
  BY SMTT(30), <1>5 DEF OutputInv
<1>6. ASSUME ReapOne \/ GraceExit \/ KilledExit \/ KillTimesOut \/ CrunCreate \/ Enroll \/ CrunStart
      PROVE  \/ UNCHANGED out
             \/ \E c \in Containers : out' = [out EXCEPT ![c] = StopCapture(@)]
  <2>1. ReapOne \/ req.c \in Containers
    BY SMTT(30), <1>6 DEF GraceExit, KilledExit, KillTimesOut, CrunCreate, Enroll, CrunStart,
       At, RequestInv,
       Starting, Stopping
  <2> QED BY Zenon, <1>6, <2>1 DEF ReapOne, GraceExit, KilledExit, KillTimesOut, CrunCreate,
     Enroll, CrunStart,
             try_wait, StartFails
<1>7. CASE Join \/ ReapEnds \/ GraceEnds \/ SendKill \/ ShutdownOne \/ ShimSpawned \/ Request
  BY Zenon, <1>5, <1>7 DEF Join, ReapEnds, GraceEnds, SendKill, ShutdownOne, ShimSpawned, Request,
     CreateContainer, StartContainer, StopContainer, DeleteContainer, OtherRequest, Shutdown
<1>8. ASSUME NEW c \in Containers, Poll(c) \/ InitExits(c)
      PROVE  UNCHANGED out
  BY Zenon, <1>8 DEF Poll, GetState, InitExits
<1>9. CASE UNCHANGED vars
  BY Zenon, <1>5, <1>9 DEF vars
<1> QED BY Zenon, <1>1, <1>2, <1>3, <1>4, <1>5, <1>6, <1>7, <1>8, <1>9 DEF Next, Handle

-----------------------------------------------------------------------------
(* Enrolment.                                                              *)

\* No step starts what is not enrolled, or creates an init before its log.
LEMMA EnrolStep ==
  ASSUME LogMaxBytes \in Nat, ShimTypes, RequestInv, EnrolInv, [Next]_vars
  PROVE  EnrolInv'
<1>1. ASSUME NEW c \in Containers,
             CreateContainer(c) \/ StartContainer(c) \/ StopContainer(c)
             \/ DeleteContainer(c) \/ GetState(c) \/ CaptureRead(c)
             \/ CaptureEof(c) \/ CaptureGivesUp(c) \/ WorkloadWrites(c)
             \/ InitExits(c)
      PROVE  EnrolInv'
  <2>1. CASE CreateContainer(c)
    BY Zenon, <2>1 DEF CreateContainer, At, Answered, Reaping, Idle, Absent, EnrolInv,
       ShimTypes, Requests, Inits, Outputs, RequestInv, Starting, Stopping
  <2>2. CASE StartContainer(c)
    BY Zenon, <2>2, StartEffect DEF EnrolInv, ShimTypes, Inits
  <2>3. CASE StopContainer(c)
    BY Zenon, <2>3 DEF StopContainer, At, Reaping, Idle, EnrolInv, ShimTypes, Requests,
       Inits, Outputs, RequestInv, Starting, Stopping
  <2>4. CASE DeleteContainer(c)
    BY Zenon, <2>4 DEF DeleteContainer, At, Reaping, Idle, EnrolInv, ShimTypes, Requests,
       Inits, Outputs, RequestInv, Starting, Stopping
  <2>5. CASE GetState(c)
    BY Zenon, <2>5 DEF GetState, At, Answered, Reaping, Idle, EnrolInv, ShimTypes, Requests,
       Inits, Outputs, RequestInv, Starting, Stopping
  <2>6. CASE CaptureRead(c)
    <3>1. out[c] \in Outputs
      BY Zenon DEF ShimTypes
    <3>2. PICK o : /\ out' = [out EXCEPT ![c] = o]
                 /\ \/ o = write(out[c], out[c].pipe)
                    \/ o = [out[c] EXCEPT !.pipe = 0, !.incomplete = TRUE, !.remaining = 0]
      BY Zenon, <2>6 DEF CaptureRead
    <3>3. o.wrote = out[c].wrote /\ o.file = out[c].file
      BY Zenon, <3>1, <3>2, CaptureFields
    <3>4. \A k \in Containers : out'[k].wrote = out[k].wrote /\ out'[k].file = out[k].file
      BY Zenon, <3>2, <3>3 DEF ShimTypes
    <3> QED BY Zenon, <2>6, <3>4 DEF CaptureRead, EnrolInv, RequestInv, Starting
  <2>7. CASE CaptureEof(c)
    <3>1. out[c] \in Outputs
      BY Zenon DEF ShimTypes
    <3>2. PICK o : /\ out' = [out EXCEPT ![c] = o]
                 /\ \/ o = [out[c] EXCEPT !.thread = "ended"]
                    \/ o = [out[c] EXCEPT !.thread = "ended", !.marker = out[c].incomplete]
      BY Zenon, <2>7 DEF CaptureEof
    <3>3. o.wrote = out[c].wrote /\ o.file = out[c].file
      BY ZenonT(40), <3>1, <3>2, CaptureFields
    <3>4. \A k \in Containers : out'[k].wrote = out[k].wrote /\ out'[k].file = out[k].file
      BY Zenon, <3>2, <3>3 DEF ShimTypes
    <3> QED BY Zenon, <2>7, <3>4 DEF CaptureEof, EnrolInv, RequestInv, Starting
  <2>8. CASE CaptureGivesUp(c)
    BY <2>8 DEF CaptureGivesUp, Reading, Spend, Fault, EnrolInv, ShimTypes, Requests,
       Inits, Outputs, RequestInv, Starting, Stopping
  <2>9. CASE WorkloadWrites(c)
    BY <2>9 DEF WorkloadWrites, Reading, EnrolInv, ShimTypes, Requests, Inits,
       Outputs, RequestInv, Starting, Stopping
  <2>10. CASE InitExits(c)
    BY <2>10 DEF InitExits, Alive, EnrolInv, ShimTypes, Requests, Inits, Outputs,
       RequestInv, Starting, Stopping
  <2> QED BY Zenon, <1>1, <2>1, <2>2, <2>3, <2>4, <2>5, <2>6, <2>7, <2>8, <2>9, <2>10
<1>2. CASE OtherRequest
  BY Zenon, <1>2 DEF OtherRequest, At, Answered, Reaping, Idle, EnrolInv, ShimTypes,
     Requests, Inits, Outputs, RequestInv, Starting, Stopping
<1>3. CASE Shutdown
  BY Zenon, <1>3 DEF Shutdown, At, Idle, EnrolInv, ShimTypes, Requests, Inits, Outputs,
     RequestInv, Starting, Stopping
<1>4. CASE Join
  BY Zenon, <1>4 DEF Join, At, Reaping, Idle, EnrolInv, ShimTypes, Requests, Inits, Outputs,
     RequestInv, Starting, Stopping
<1>5. CASE ReapOne
  BY <1>5 DEF ReapOne, At, Exited, try_wait, StopCapture, EnrolInv, ShimTypes,
     Requests, Inits, Outputs, RequestInv, Starting, Stopping
<1>6. CASE ReapEnds
  BY Zenon, <1>6 DEF ReapEnds, At, Reaping, Idle, Absent, EnrolInv, ShimTypes, Requests,
     Inits, Outputs, RequestInv, Starting, Stopping
<1>7. CASE GraceExit
  BY <1>7 DEF GraceExit, At, try_wait, StopCapture, EnrolInv, ShimTypes, Requests,
     Inits, Outputs, RequestInv, Starting, Stopping
<1>8. CASE GraceEnds
  BY Zenon, <1>8 DEF GraceEnds, At, Goto, EnrolInv, ShimTypes, Requests, Inits, Outputs,
     RequestInv, Starting, Stopping
<1>9. CASE SendKill
  BY <1>9, SendKillEffect, KilledInit DEF EnrolInv, ShimTypes, Inits
<1>10. CASE KilledExit
  BY <1>10 DEF KilledExit, At, try_wait, StopCapture, EnrolInv, ShimTypes, Requests,
     Inits, Outputs, RequestInv, Starting, Stopping
<1>11. CASE KillTimesOut
  BY <1>11 DEF KillTimesOut, At, StopCapture, EnrolInv, ShimTypes, Requests, Inits,
     Outputs, RequestInv, Starting, Stopping
<1>12. CASE ShutdownOne
  BY <1>12 DEF ShutdownOne, At, EnrolInv, ShimTypes, Requests, Inits, Outputs,
     RequestInv, Starting, Stopping
<1>13. CASE ShutdownEnds
  BY <1>13 DEF ShutdownEnds, At, Idle, EnrolInv, ShimTypes, Requests, Inits, Outputs,
     RequestInv, Starting, Stopping
<1>14. CASE Prepare
  BY Zenon, <1>14, PrepareEffect DEF EnrolInv, ShimTypes, Inits
<1>15. CASE CrunCreate
  <2>1. CASE FailedStart
    BY <1>15, <2>1, CreateEffect, KilledInit DEF FailedStart, EnrolInv, ShimTypes, Inits
  <2>2. CASE ~FailedStart
    BY <1>15, <2>2, CreateEffect DEF EnrolInv, ShimTypes, Inits
  <2> QED BY Zenon, <2>1, <2>2
<1>16. CASE Enroll
  <2>1. CASE FailedStart
    BY <1>16, <2>1, EnrollEffect, KilledInit DEF FailedStart, EnrolInv, ShimTypes, Inits
  <2>2. CASE ~FailedStart
    BY <1>16, <2>2, EnrollEffect DEF EnrolInv, ShimTypes, Inits
  <2> QED BY Zenon, <2>1, <2>2
<1>17. CASE CrunStart
  <2>1. CASE FailedStart
    BY <1>17, <2>1, CrunStartEffect, KilledInit DEF FailedStart, EnrolInv, ShimTypes, Inits
  <2>2. CASE ~FailedStart
    BY SMTT(30), <1>17, <2>2, CrunStartEffect DEF EnrolInv, ShimTypes, Inits
  <2> QED BY Zenon, <2>1, <2>2
<1>18. CASE ShimCrash
  <2>1. \A k \in Containers : out'[k].wrote = out[k].wrote /\ out'[k].file = out[k].file
    BY Zenon, <1>18 DEF ShimCrash, ShimTypes, Outputs
  <2> QED BY Zenon, <1>18, <2>1 DEF ShimCrash, EnrolInv, Idle
<1>19. CASE ShimSpawned
  BY Zenon, <1>19 DEF ShimSpawned, EnrolInv, ShimTypes, Requests, Inits, Outputs, RequestInv,
     Starting, Stopping
<1>20. CASE UNCHANGED vars
  BY Zenon, <1>20 DEF vars, EnrolInv, ShimTypes, Requests, Inits, Outputs, RequestInv, Starting,
     Stopping
<1> QED BY Zenon, <1>1, <1>2, <1>3, <1>4, <1>5, <1>6, <1>7, <1>8, <1>9, <1>10,
           <1>11, <1>12, <1>13, <1>14, <1>15, <1>16, <1>17, <1>18, <1>19,
           <1>20 DEF Next, Request, Handle, Poll, Capture

-----------------------------------------------------------------------------
(* The table of containers.                                                *)

\* A failed start leaves the container created and its init dead.
LEMMA FailedStartTable ==
  ASSUME ShimTypes, RequestInv, TableInv, FailedStart, req.pc \in {"create", "enrol", "start"}
  PROVE  TableInv'
<1>1. /\ req.c \in Containers /\ init[req.c] \in Inits
      /\ conts[req.c].status = "created" /\ ~init[req.c].stuck
      /\ init[req.c].state \in {"none", "created", "zombie"}
  BY Zenon DEF RequestInv, TableInv, ShimTypes, Starting
<1>2. /\ init'[req.c].state \in {"none", "zombie"} /\ ~init'[req.c].stuck
      /\ \A k \in Containers : k # req.c => init'[k] = init[k]
  BY <1>1, KilledInit DEF FailedStart
<1>3. req'.pc = "join" /\ req'.then = "failed" /\ req'.waited = req.c /\ UNCHANGED conts
  BY Zenon DEF FailedStart
<1> QED BY <1>1, <1>2, <1>3 DEF TableInv, Starting, Stopping, Alive

\* No step lets the table and the inits disagree.
LEMMA TableStep ==
  ASSUME LogMaxBytes \in Nat, ShimTypes, RequestInv, EnrolInv, TableInv, [Next]_vars
  PROVE  TableInv'
<1>1. ASSUME NEW c \in Containers,
             CreateContainer(c) \/ StartContainer(c) \/ StopContainer(c)
             \/ DeleteContainer(c) \/ GetState(c) \/ CaptureRead(c)
             \/ CaptureEof(c) \/ CaptureGivesUp(c) \/ WorkloadWrites(c)
             \/ InitExits(c)
      PROVE  TableInv'
  <2>1. CASE CreateContainer(c)
    BY <2>1 DEF CreateContainer, At, Answered, Reaping, Idle, Absent, TableInv, Alive,
       EnrolInv, Rows, Codes, SIGKILLED, ShimTypes, Requests, Inits, Outputs,
       RequestInv, Starting, Stopping
  <2>2. CASE StartContainer(c)
    BY <2>2, StartEffect DEF TableInv, EnrolInv, Alive, Starting, Stopping, RequestInv,
       ShimTypes, Inits, Rows
  <2>3. CASE StopContainer(c)
    BY <2>3 DEF StopContainer, At, Reaping, Idle, TableInv, Alive, EnrolInv, Rows,
       Codes, SIGKILLED, ShimTypes, Requests, Inits, Outputs, RequestInv,
       Starting, Stopping
  <2>4. CASE DeleteContainer(c)
    BY <2>4 DEF DeleteContainer, At, Reaping, Idle, TableInv, Alive, EnrolInv, Rows,
       Codes, SIGKILLED, ShimTypes, Requests, Inits, Outputs, RequestInv,
       Starting, Stopping
  <2>5. CASE GetState(c)
    BY <2>5 DEF GetState, At, Answered, Reaping, Idle, TableInv, Alive, EnrolInv,
       Rows, Codes, SIGKILLED, ShimTypes, Requests, Inits, Outputs,
       RequestInv, Starting, Stopping
  <2>6. CASE CaptureRead(c)
    BY <2>6 DEF CaptureRead, Reading, write, Spend, Fault, TableInv, Alive, EnrolInv,
       Rows, Codes, SIGKILLED, ShimTypes, Requests, Inits, Outputs,
       RequestInv, Starting, Stopping
  <2>7. CASE CaptureEof(c)
    BY <2>7 DEF CaptureEof, Reading, Spend, Fault, TableInv, Alive, EnrolInv, Rows,
       Codes, SIGKILLED, ShimTypes, Requests, Inits, Outputs, RequestInv,
       Starting, Stopping
  <2>8. CASE CaptureGivesUp(c)
    BY <2>8 DEF CaptureGivesUp, Reading, Spend, Fault, TableInv, Alive, EnrolInv,
       Rows, Codes, SIGKILLED, ShimTypes, Requests, Inits, Outputs,
       RequestInv, Starting, Stopping
  <2>9. CASE WorkloadWrites(c)
    BY <2>9 DEF WorkloadWrites, Reading, TableInv, Alive, EnrolInv, Rows, Codes,
       SIGKILLED, ShimTypes, Requests, Inits, Outputs, RequestInv, Starting,
       Stopping
  <2>10. CASE InitExits(c)
    BY <2>10 DEF InitExits, Alive, TableInv, EnrolInv, Rows, Codes, SIGKILLED,
       ShimTypes, Requests, Inits, Outputs, RequestInv, Starting, Stopping
  <2> QED BY Zenon, <1>1, <2>1, <2>2, <2>3, <2>4, <2>5, <2>6, <2>7, <2>8, <2>9, <2>10
<1>2. CASE OtherRequest
  BY <1>2 DEF OtherRequest, At, Answered, Reaping, Idle, TableInv, Alive, EnrolInv,
     Rows, Codes, SIGKILLED, ShimTypes, Requests, Inits, Outputs, RequestInv,
     Starting, Stopping
<1>3. CASE Shutdown
  BY <1>3 DEF Shutdown, At, Idle, TableInv, Alive, EnrolInv, Rows, Codes, SIGKILLED,
     ShimTypes, Requests, Inits, Outputs, RequestInv, Starting, Stopping
<1>4. CASE Join
  BY <1>4 DEF Join, At, Reaping, Idle, TableInv, Alive, EnrolInv, Rows, Codes,
     SIGKILLED, ShimTypes, Requests, Inits, Outputs, RequestInv, Starting,
     Stopping
<1>5. CASE ReapOne
  BY SMTT(30), <1>5 DEF ReapOne, At, Exited, try_wait, StopCapture, TableInv, Alive, EnrolInv,
     Rows, Codes, SIGKILLED, ShimTypes, Requests, Inits, Outputs, RequestInv,
     Starting, Stopping
<1>6. CASE ReapEnds
  BY SMTT(30), <1>6 DEF ReapEnds, At, Reaping, Idle, Absent, TableInv, Alive, EnrolInv, Rows,
     Codes, SIGKILLED, ShimTypes, Requests, Inits, Outputs, RequestInv,
     Starting, Stopping
<1>7. CASE GraceExit
  BY <1>7 DEF GraceExit, At, try_wait, StopCapture, TableInv, Alive, EnrolInv, Rows,
     Codes, SIGKILLED, ShimTypes, Requests, Inits, Outputs, RequestInv,
     Starting, Stopping
<1>8. CASE GraceEnds
  BY <1>8 DEF GraceEnds, At, Goto, TableInv, Alive, EnrolInv, Rows, Codes, SIGKILLED,
     ShimTypes, Requests, Inits, Outputs, RequestInv, Starting, Stopping
<1>9. CASE SendKill
  <2>1. /\ req.c \in Containers /\ req.pc = "sigkill" /\ req'.pc = "kill" /\ req'.c = req.c
        /\ UNCHANGED conts /\ \A k \in Containers : k # req.c => init'[k] = init[k]
    BY Zenon, <1>9, SendKillEffect
  <2>2. init[req.c] \in Inits
    BY Zenon, <2>1 DEF ShimTypes
  <2>3. conts[req.c].status = "running" /\ init[req.c].state \in {"running", "zombie", "gone"}
    BY Zenon, <2>1 DEF TableInv, Stopping
  <2>4. init'[req.c].state \in {"running", "zombie", "gone"}
    BY Zenon, <1>9, <2>2, <2>3, SendKillEffect, KilledInit
  <2> QED BY <2>1, <2>3, <2>4 DEF TableInv, Starting, Stopping, Alive
<1>10. CASE KilledExit
  BY <1>10 DEF KilledExit, At, try_wait, StopCapture, TableInv, Alive, EnrolInv, Rows,
     Codes, SIGKILLED, ShimTypes, Requests, Inits, Outputs, RequestInv,
     Starting, Stopping
<1>11. CASE KillTimesOut
  BY <1>11 DEF KillTimesOut, At, StopCapture, TableInv, Alive, EnrolInv, Rows, Codes,
     SIGKILLED, ShimTypes, Requests, Inits, Outputs, RequestInv, Starting,
     Stopping
<1>12. CASE ShutdownOne
  BY <1>12 DEF ShutdownOne, At, TableInv, Alive, EnrolInv, Rows, Codes, SIGKILLED,
     ShimTypes, Requests, Inits, Outputs, RequestInv, Starting, Stopping
<1>13. CASE ShutdownEnds
  BY <1>13 DEF ShutdownEnds, At, Idle, TableInv, Alive, EnrolInv, Rows, Codes,
     SIGKILLED, ShimTypes, Requests, Inits, Outputs, RequestInv, Starting,
     Stopping
<1>14. CASE Prepare
  BY <1>14, PrepareEffect DEF TableInv, EnrolInv, Alive, Starting, Stopping, RequestInv,
     ShimTypes, Inits, Rows
<1>15. CASE CrunCreate
  <2>1. CASE FailedStart
    BY Zenon, <1>15, <2>1, CreateEffect, FailedStartTable
  <2>2. CASE ~FailedStart
    <3>1. /\ req.c \in Containers /\ req.pc = "create" /\ req'.pc = "enrol" /\ req'.c = req.c
          /\ UNCHANGED conts /\ init' = [init EXCEPT ![req.c].state = "created"]
      BY Zenon, <1>15, <2>2, CreateEffect
    <3>2. /\ \A k \in Containers : k # req.c => init'[k] = init[k]
          /\ init'[req.c].state = "created" /\ init'[req.c].stuck = init[req.c].stuck
      BY Zenon, <3>1 DEF ShimTypes, Inits
    <3> QED BY <3>1, <3>2 DEF TableInv, EnrolInv, Starting, Stopping, Alive
  <2> QED BY Zenon, <2>1, <2>2
<1>16. CASE Enroll
  <2>1. CASE FailedStart
    BY Zenon, <1>16, <2>1, EnrollEffect, FailedStartTable
  <2>2. CASE ~FailedStart
    BY <1>16, <2>2, EnrollEffect DEF TableInv, EnrolInv, Alive, Starting, Stopping, RequestInv,
       ShimTypes, Inits, Rows
  <2> QED BY Zenon, <2>1, <2>2
<1>17. CASE CrunStart
  <2>1. CASE FailedStart
    BY Zenon, <1>17, <2>1, CrunStartEffect, FailedStartTable
  <2>2. CASE ~FailedStart
    <3>1. /\ req.c \in Containers /\ req.pc = "start" /\ req'.pc = "reap"
          /\ init' = [init EXCEPT ![req.c].state = "running"]
          /\ conts' = [conts EXCEPT ![req.c].status = "running"]
      BY Zenon, <1>17, <2>2, CrunStartEffect
    <3>2. \A k \in Containers : k # req.c => conts'[k] = conts[k] /\ init'[k] = init[k]
      BY Zenon, <3>1 DEF ShimTypes
    <3>3. conts'[req.c].status = "running" /\ init'[req.c].state = "running"
      BY ZenonT(30), <3>1 DEF ShimTypes, Inits, Rows
    <3> QED BY <3>1, <3>2, <3>3 DEF TableInv, Starting, Stopping, Alive
  <2> QED BY Zenon, <2>1, <2>2
<1>18. CASE ShimCrash
  BY Zenon, <1>18 DEF ShimCrash, Idle, Absent, Spend, TableInv, Alive, EnrolInv, Rows, Codes,
     SIGKILLED, ShimTypes, Requests, Inits, Outputs, RequestInv, Starting,
     Stopping
<1>19. CASE ShimSpawned
  BY <1>19 DEF ShimSpawned, TableInv, Alive, EnrolInv, Rows, Codes, SIGKILLED,
     ShimTypes, Requests, Inits, Outputs, RequestInv, Starting, Stopping
<1>20. CASE UNCHANGED vars
  BY <1>20 DEF vars, TableInv, Alive, EnrolInv, Rows, Codes, SIGKILLED, ShimTypes, Requests,
     Inits, Outputs, RequestInv, Starting, Stopping
<1> QED BY SMTT(30), <1>1, <1>2, <1>3, <1>4, <1>5, <1>6, <1>7, <1>8, <1>9, <1>10,
           <1>11, <1>12, <1>13, <1>14, <1>15, <1>16, <1>17, <1>18, <1>19,
           <1>20 DEF Next, Request, Handle, Poll, Capture

\* No step loses a live init.
LEMMA TrackStep ==
  ASSUME LogMaxBytes \in Nat, ShimTypes, RequestInv, TableInv, TrackInv, [Next]_vars
  PROVE  TrackInv'
<1>1. ASSUME NEW c \in Containers,
             CreateContainer(c) \/ StartContainer(c) \/ StopContainer(c)
             \/ DeleteContainer(c) \/ GetState(c) \/ CaptureRead(c)
             \/ CaptureEof(c) \/ CaptureGivesUp(c) \/ WorkloadWrites(c)
             \/ InitExits(c)
      PROVE  TrackInv'
  <2>1. CASE CreateContainer(c)
    BY <2>1 DEF CreateContainer, At, Answered, Reaping, Idle, Absent, TrackInv,
       TableInv, Alive, Rows, ShimTypes, Requests, Inits, Outputs,
       RequestInv, Starting, Stopping
  <2>2. CASE StartContainer(c)
    BY Zenon, <2>2, StartEffect DEF TrackInv, Alive
  <2>3. CASE StopContainer(c)
    BY Zenon, <2>3 DEF StopContainer, At, Reaping, Idle, TrackInv, TableInv, Alive, Rows,
       ShimTypes, Requests, Inits, Outputs, RequestInv, Starting, Stopping
  <2>4. CASE DeleteContainer(c)
    BY Zenon, <2>4 DEF DeleteContainer, At, Reaping, Idle, TrackInv, TableInv, Alive, Rows,
       ShimTypes, Requests, Inits, Outputs, RequestInv, Starting, Stopping
  <2>5. CASE GetState(c)
    BY Zenon, <2>5 DEF GetState, At, Answered, Reaping, Idle, TrackInv, TableInv, Alive,
       Rows, ShimTypes, Requests, Inits, Outputs, RequestInv, Starting,
       Stopping
  <2>6. CASE CaptureRead(c)
    BY <2>6 DEF CaptureRead, Reading, write, Spend, Fault, TrackInv, TableInv, Alive,
       Rows, ShimTypes, Requests, Inits, Outputs, RequestInv, Starting,
       Stopping
  <2>7. CASE CaptureEof(c)
    BY <2>7 DEF CaptureEof, Reading, Spend, Fault, TrackInv, TableInv, Alive, Rows,
       ShimTypes, Requests, Inits, Outputs, RequestInv, Starting, Stopping
  <2>8. CASE CaptureGivesUp(c)
    BY <2>8 DEF CaptureGivesUp, Reading, Spend, Fault, TrackInv, TableInv, Alive,
       Rows, ShimTypes, Requests, Inits, Outputs, RequestInv, Starting,
       Stopping
  <2>9. CASE WorkloadWrites(c)
    BY Zenon, <2>9 DEF WorkloadWrites, Reading, TrackInv, TableInv, Alive, Rows, ShimTypes,
       Requests, Inits, Outputs, RequestInv, Starting, Stopping
  <2>10. CASE InitExits(c)
    BY <2>10 DEF InitExits, Alive, TrackInv, TableInv, Rows, ShimTypes, Requests,
       Inits, Outputs, RequestInv, Starting, Stopping
  <2> QED BY Zenon, <1>1, <2>1, <2>2, <2>3, <2>4, <2>5, <2>6, <2>7, <2>8, <2>9, <2>10
<1>2. CASE OtherRequest
  BY Zenon, <1>2 DEF OtherRequest, At, Answered, Reaping, Idle, TrackInv, TableInv, Alive,
     Rows, ShimTypes, Requests, Inits, Outputs, RequestInv, Starting,
     Stopping
<1>3. CASE Shutdown
  BY Zenon, <1>3 DEF Shutdown, At, Idle, TrackInv, TableInv, Alive, Rows, ShimTypes,
     Requests, Inits, Outputs, RequestInv, Starting, Stopping
<1>4. CASE Join
  BY <1>4 DEF Join, At, Reaping, Idle, TrackInv, TableInv, Alive, Rows, ShimTypes,
     Requests, Inits, Outputs, RequestInv, Starting, Stopping
<1>5. CASE ReapOne
  BY <1>5 DEF ReapOne, At, Exited, try_wait, StopCapture, TrackInv, TableInv, Alive,
     Rows, ShimTypes, Requests, Inits, Outputs, RequestInv, Starting,
     Stopping
<1>6. CASE ReapEnds
  BY <1>6 DEF ReapEnds, At, Reaping, Idle, Absent, TrackInv, TableInv, Alive, Rows,
     ShimTypes, Requests, Inits, Outputs, RequestInv, Starting, Stopping
<1>7. CASE GraceExit
  BY <1>7 DEF GraceExit, At, try_wait, StopCapture, TrackInv, TableInv, Alive, Rows,
     ShimTypes, Requests, Inits, Outputs, RequestInv, Starting, Stopping
<1>8. CASE GraceEnds
  BY Zenon, <1>8 DEF GraceEnds, At, Goto, TrackInv, TableInv, Alive, Rows, ShimTypes,
     Requests, Inits, Outputs, RequestInv, Starting, Stopping
<1>9. CASE SendKill
  BY <1>9, SendKillEffect, KilledInit DEF TrackInv, TableInv, Alive, Starting, Stopping,
     RequestInv, ShimTypes, Inits, Rows
<1>10. CASE KilledExit
  BY <1>10 DEF KilledExit, At, try_wait, StopCapture, TrackInv, TableInv, Alive, Rows,
     ShimTypes, Requests, Inits, Outputs, RequestInv, Starting, Stopping
<1>11. CASE KillTimesOut
  BY Zenon, <1>11 DEF KillTimesOut, At, StopCapture, TrackInv, TableInv, Alive, Rows,
     ShimTypes, Requests, Inits, Outputs, RequestInv, Starting, Stopping
<1>12. CASE ShutdownOne
  BY <1>12 DEF ShutdownOne, At, TrackInv, TableInv, Alive, Rows, ShimTypes, Requests,
     Inits, Outputs, RequestInv, Starting, Stopping
<1>13. CASE ShutdownEnds
  BY Zenon, <1>13 DEF ShutdownEnds, At, Idle, TrackInv, TableInv, Alive, Rows, ShimTypes,
     Requests, Inits, Outputs, RequestInv, Starting, Stopping
<1>14. CASE Prepare
  BY <1>14, PrepareEffect DEF TrackInv, Alive, RequestInv, Starting
<1>15. CASE CrunCreate
  <2>1. CASE FailedStart
    BY <1>15, <2>1, CreateEffect, KilledInit DEF FailedStart, TrackInv, TableInv, Alive,
       Starting, Stopping, RequestInv, ShimTypes, Inits, Rows
  <2>2. CASE ~FailedStart
    BY <1>15, <2>2, CreateEffect DEF TrackInv, TableInv, Alive, Starting, Stopping, RequestInv,
       ShimTypes, Inits, Rows
  <2> QED BY Zenon, <2>1, <2>2
<1>16. CASE Enroll
  <2>1. CASE FailedStart
    BY <1>16, <2>1, EnrollEffect, KilledInit DEF FailedStart, TrackInv, TableInv, Alive,
       Starting, Stopping, RequestInv, ShimTypes, Inits, Rows
  <2>2. CASE ~FailedStart
    BY <1>16, <2>2, EnrollEffect DEF TrackInv, TableInv, Alive, Starting, Stopping, RequestInv,
       ShimTypes, Inits, Rows
  <2> QED BY Zenon, <2>1, <2>2
<1>17. CASE CrunStart
  <2>1. CASE FailedStart
    BY <1>17, <2>1, CrunStartEffect, KilledInit DEF FailedStart, TrackInv, TableInv, Alive,
       Starting, Stopping, RequestInv, ShimTypes, Inits, Rows
  <2>2. CASE ~FailedStart
    <3>1. /\ req.c \in Containers /\ req.pc = "start" /\ req'.pc = "reap" /\ req'.then = "answered"
          /\ init' = [init EXCEPT ![req.c].state = "running"]
          /\ conts' = [conts EXCEPT ![req.c].status = "running"]
          /\ UNCHANGED <<shim, budget>> /\ shim = "up"
      BY Zenon, <1>17, <2>2, CrunStartEffect
    <3>2. \A k \in Containers : k # req.c => conts'[k] = conts[k] /\ init'[k] = init[k]
      BY Zenon, <3>1 DEF ShimTypes
    <3>3. conts'[req.c].status = "running"
      BY Zenon, <3>1 DEF ShimTypes, Rows
    <3> QED BY Zenon, <3>1, <3>2, <3>3 DEF TrackInv, Alive
  <2> QED BY Zenon, <2>1, <2>2
<1>18. CASE ShimCrash
  <2>0. budget \in [faults: Nat, stuck: Nat, crashes: Nat] /\ budget' = [budget EXCEPT !.crashes = budget.crashes + 1]
    BY Zenon, <1>18 DEF ShimCrash, Spend, ShimTypes
  <2>1. budget'.crashes # 0
    BY <2>0
  <2> QED BY Zenon, <2>1 DEF TrackInv
<1>19. CASE ShimSpawned
  BY Zenon, <1>19 DEF ShimSpawned, TrackInv, TableInv, Alive, Rows, ShimTypes, Requests,
     Inits, Outputs, RequestInv, Starting, Stopping
<1>20. CASE UNCHANGED vars
  BY Zenon, <1>20 DEF vars, TrackInv, TableInv, Alive, Rows, ShimTypes, Requests, Inits, Outputs,
     RequestInv, Starting, Stopping
<1> QED BY SMTT(30), <1>1, <1>2, <1>3, <1>4, <1>5, <1>6, <1>7, <1>8, <1>9, <1>10,
           <1>11, <1>12, <1>13, <1>14, <1>15, <1>16, <1>17, <1>18, <1>19,
           <1>20 DEF Next, Request, Handle, Poll, Capture

-----------------------------------------------------------------------------
(* The theorems.                                                           *)

\* ShimInv holds of every reachable state.
LEMMA ShimInvariant ==
  ASSUME LogMaxBytes \in Nat
  PROVE  Spec => []ShimInv
<1>1. Init => ShimInv
  <2> SUFFICES ASSUME Init PROVE ShimInv
      OBVIOUS
  <2>1. ShimTypes
    <3>1. NoInit \in Inits
      BY Zenon DEF NoInit, Inits, Codes
    <3>2. 0 \in Nat
      OBVIOUS
    <3>3. NoOutput \in Outputs
      BY <3>2, Zenon DEF NoOutput, Outputs
    <3>4. Idle \in Requests
      BY Zenon DEF Idle, Requests, PCs, Codes
    <3>5. budget \in [faults: Nat, stuck: Nat, crashes: Nat]
      BY Zenon DEF Init
    <3> QED BY Zenon, <3>1, <3>3, <3>4, <3>5, RowTypes DEF Init, ShimTypes
  <2>2. RequestInv
    BY Zenon DEF Init, Idle, RequestInv, Starting, Stopping
  <2>3. \A c \in Containers : OutputInv(out[c])
    BY Zenon DEF Init, NoOutput, OutputInv
  <2>4. EnrolInv
    BY DEF Init, Idle, NoInit, NoOutput, EnrolInv
  <2>5. TableInv
    BY Zenon DEF Init, Idle, NoInit, Absent, TableInv, Starting, Stopping, Alive
  <2>6. TrackInv
    BY Zenon DEF Init, NoInit, TrackInv, Alive
  <2> QED BY Zenon, <2>1, <2>2, <2>3, <2>4, <2>5, <2>6 DEF ShimInv
<1>2. ShimInv /\ [Next]_vars => ShimInv'
  <2> SUFFICES ASSUME ShimInv, [Next]_vars PROVE ShimInv'
      OBVIOUS
  <2>1. ShimTypes'
    BY Zenon, TypesStep DEF ShimInv
  <2>2. RequestInv'
    BY Zenon, RequestStep DEF ShimInv
  <2>3. \A c \in Containers : OutputInv(out[c])'
    BY Zenon, OutputStep DEF ShimInv
  <2>4. EnrolInv'
    BY Zenon, EnrolStep DEF ShimInv
  <2>5. TableInv'
    BY Zenon, TableStep DEF ShimInv
  <2>6. TrackInv'
    BY Zenon, TrackStep DEF ShimInv
  <2> QED BY Zenon, <2>1, <2>2, <2>3, <2>4, <2>5, <2>6 DEF ShimInv
<1> QED BY <1>1, <1>2, PTL DEF Spec

\* What the shim says of a container and of its output is true, whatever is
\* requested, fails or crashes: no workload runs outside the zone's cgroup, a
\* log without its marker is complete, live inits are tracked and recorded exit
\* codes are those the inits ended with.
THEOREM ShimIsFaithful ==
  ASSUME LogMaxBytes \in Nat
  PROVE  Spec => []ContainersFaithful
<1>1. ShimInv => ContainersFaithful
  <2> SUFFICES ASSUME ShimInv PROVE ContainersFaithful
      OBVIOUS
  <2>1. TypeOK
    <3>1. \A c \in Containers : out[c].kept =< LogMaxBytes
      BY DEF ShimInv, ShimTypes, OutputInv, Outputs
    <3> QED BY <3>1 DEF ShimInv, ShimTypes, Requests, PCs, Rows, Codes, Inits, Outputs, TypeOK
  <2>2. EnrolledBeforeWorkload
    BY Zenon DEF ShimInv, EnrolInv, EnrolledBeforeWorkload
  <2>3. OutputCompleteOrMarked
    BY Zenon DEF ShimInv, OutputInv, OutputCompleteOrMarked
  <2>4. EveryInitTracked
    BY Zenon DEF ShimInv, TrackInv, EveryInitTracked
  <2>5. ExitCodeTrue
    BY Zenon DEF ShimInv, TableInv, ExitCodeTrue
  <2> QED BY Zenon, <2>1, <2>2, <2>3, <2>4, <2>5 DEF ContainersFaithful
<1> QED BY <1>1, ShimInvariant, PTL

-----------------------------------------------------------------------------
(* The refinement of ContainerContract.                                    *)

\* No init outlives its SIGKILL and the shim is not killed.
Undisturbed == budget.crashes = 0 /\ \A c \in Containers : ~init[c].stuck

\* A container k looks the same to the contract before and after a step.
Same(k) ==
  /\ conts'[k].status = conts[k].status
  /\ (init'[k].state = "running") = (init[k].state = "running")
  /\ conts[k].status = "running" => (Alive(k)' = Alive(k))

\* A step in which every container looks the same is a stutter of the contract.
LEMMA NothingMoves ==
  ASSUME \A k \in Containers : Same(k)
  PROVE  UNCHANGED Contract!vars
<1>1. Lifecycle' = Lifecycle
  BY Zenon DEF Same, Lifecycle, Alive
<1>2. Working' = Working
  BY Zenon DEF Same, Working
<1> QED BY Zenon, <1>1, <1>2 DEF Contract!vars

\* A step in which all but one look the same moves that one.
LEMMA OneMoves ==
  ASSUME NEW c \in Containers, \A k \in Containers \ {c} : Same(k)
  PROVE  /\ \A to : Lifecycle'[c] = to => Lifecycle' = [Lifecycle EXCEPT ![c] = to]
         /\ init'[c].state = "running" => Working' = Working \cup {c}
         /\ init'[c].state # "running" => Working' = Working \ {c}
         /\ (init'[c].state = "running") = (init[c].state = "running") => Working' = Working
<1>1. \A k \in Containers \ {c} : Lifecycle'[k] = Lifecycle[k]
  BY Zenon DEF Same, Lifecycle, Alive
<1>2. \A k \in Containers \ {c} : k \in Working' <=> k \in Working
  BY Zenon DEF Same, Working
<1>3. /\ c \in Working <=> init[c].state = "running"
      /\ c \in Working' <=> init'[c].state = "running"
      /\ Working \subseteq Containers /\ Working' \subseteq Containers
  BY Zenon DEF Working
<1>4. ASSUME NEW to, Lifecycle'[c] = to PROVE Lifecycle' = [Lifecycle EXCEPT ![c] = to]
  <2> DEFINE L == Lifecycle
  <2>1. L = [k \in Containers |-> L[k]] /\ L' = [k \in Containers |-> L'[k]]
    BY Zenon DEF Lifecycle
  <2> HIDE DEF L
  <2>2. \A k \in Containers \ {c} : L'[k] = L[k]
    BY Zenon, <1>1 DEF L
  <2>3. L'[c] = to
    BY Zenon, <1>4 DEF L
  <2>4. L' = [L EXCEPT ![c] = to]
    BY Zenon, <2>1, <2>2, <2>3
  <2> QED BY Zenon, <2>4 DEF L
<1> QED BY <1>2, <1>3, <1>4

\* What the invariant says of a container that is not disturbed: only a running
\* one has a running init, and the init of a running one is created no more.
LEMMA UndisturbedFacts ==
  ASSUME ShimInv, Undisturbed, NEW c \in Containers
  PROVE  /\ init[c].state = "running" => conts[c].status = "running"
         /\ conts[c].status = "running" => init[c].state \in {"running", "zombie", "gone"}
         /\ conts[c].status \in {"absent", "created", "running", "stopped"}
         /\ conts[c].status = "absent" => conts[c] = Absent
         /\ shim # "down" /\ ~init[c].stuck /\ init[c] \in Inits /\ conts[c] \in Rows
         /\ Lifecycle[c] = IF conts[c].status = "running" /\ init[c].state # "running"
                           THEN "exited" ELSE conts[c].status
<1>1. init[c].state = "running" => conts[c].status = "running"
  BY Zenon DEF ShimInv, TrackInv, TableInv, Undisturbed, Alive, Starting
<1>2. conts[c].status = "running" => init[c].state \in {"running", "zombie", "gone"}
  BY Zenon DEF ShimInv, TableInv
<1>3. conts[c] \in Rows /\ init[c] \in Inits
  BY Zenon DEF ShimInv, ShimTypes
<1>4. conts[c].status = "absent" => conts[c] = Absent
  BY Zenon, <1>3 DEF ShimInv, TableInv, Rows, Absent
<1>5. shim # "down" /\ ~init[c].stuck
  BY Zenon DEF ShimInv, TrackInv, Undisturbed
<1>6. conts[c].status \in {"absent", "created", "running", "stopped"}
  BY Zenon, <1>3 DEF Rows
<1>7. Lifecycle[c] = IF conts[c].status = "running" /\ init[c].state # "running"
                     THEN "exited" ELSE conts[c].status
  BY Zenon, <1>2 DEF Lifecycle, Alive
<1> QED BY Zenon, <1>1, <1>2, <1>3, <1>4, <1>5, <1>6, <1>7

\* try_wait takes the code of a dead init: the contract sees nothing of it.
LEMMA TryWaitUnseen ==
  ASSUME ShimInv, NEW c \in Containers, try_wait(c)
  PROVE  UNCHANGED Contract!vars
<1>1. init[c].state = "zombie" /\ UNCHANGED conts /\ init' = [init EXCEPT ![c].state = "gone"]
  BY Zenon DEF try_wait
<1>2. init'[c].state = "gone" /\ \A k \in Containers \ {c} : init'[k] = init[k]
  BY Zenon, <1>1 DEF ShimInv, ShimTypes, Inits
<1>3. \A k \in Containers : Same(k)
  BY <1>1, <1>2 DEF Same, Alive
<1> QED BY Zenon, <1>3, NothingMoves

\* A start that fails leaves a container that never ran.
LEMMA FailedStartUnseen ==
  ASSUME ShimInv, Undisturbed, FailedStart, req.pc \in {"create", "enrol", "start"}
  PROVE  UNCHANGED Contract!vars
<1>1. /\ req.c \in Containers /\ conts[req.c].status = "created"
      /\ init[req.c].state \in {"none", "created", "zombie"} /\ init[req.c] \in Inits
  BY Zenon DEF ShimInv, RequestInv, TableInv, ShimTypes, Starting
<1>2. /\ init'[req.c].state # "running" /\ UNCHANGED conts
      /\ \A k \in Containers \ {req.c} : init'[k] = init[k]
  BY <1>1, KilledInit DEF FailedStart
<1>3. \A k \in Containers : Same(k)
  BY Zenon, <1>1, <1>2 DEF Same, Alive
<1> QED BY Zenon, <1>3, NothingMoves

\* Every step of the shim is a step of the contract or a stutter of it.
LEMMA ContractStep ==
  ASSUME ShimInv, Undisturbed, Undisturbed', [Next]_vars, LogMaxBytes \in Nat
  PROVE  [Contract!Next]_(Contract!vars)
<1> /\ ShimTypes /\ RequestInv /\ EnrolInv /\ TableInv /\ TrackInv
  BY Zenon DEF ShimInv
<1>1. CASE UNCHANGED <<conts, init>>
  <2>1. \A k \in Containers : Same(k)
    BY Zenon, <1>1 DEF Same, Alive
  <2> QED BY Zenon, <2>1, NothingMoves
<1>2. ASSUME NEW c \in Containers, CreateContainer(c)
      PROVE  [Contract!Next]_(Contract!vars)
  <2>1. CASE conts[c] = Absent
    <3>1. /\ UNCHANGED init /\ conts'[c].status = "created"
          /\ \A k \in Containers \ {c} : conts'[k] = conts[k]
      BY Zenon, <1>2, <2>1 DEF CreateContainer, ShimTypes
    <3>2. \A k \in Containers \ {c} : Same(k)
      BY Zenon, <3>1 DEF Same, Alive
    <3>3. Lifecycle[c] = "absent" /\ Lifecycle'[c] = "created"
      BY <2>1, <3>1 DEF Lifecycle, Absent
    <3>4. Lifecycle' = [Lifecycle EXCEPT ![c] = "created"] /\ Working' = Working
      BY Zenon, <3>1, <3>2, <3>3, OneMoves
    <3>5. Contract!Create(c)
      BY Zenon, <3>3, <3>4 DEF Contract!Create, Contract!Move
    <3> QED BY Zenon, <3>5 DEF Contract!Next
  <2>2. CASE conts[c] # Absent
    BY Zenon, <1>1, <1>2, <2>2 DEF CreateContainer, ShimTypes
  <2> QED BY Zenon, <2>1, <2>2
<1>3. CASE Join
  <2>1. /\ req.waited \in Containers /\ UNCHANGED init /\ req.pc = "join"
    BY Zenon, <1>3 DEF Join, At, RequestInv
  <2>2. CASE req.then \notin {"failed", "shutdown"}
    <3>1. conts' = [conts EXCEPT ![req.waited] = [status |-> "stopped", exit |-> req.code]]
      BY Zenon, <1>3, <2>2 DEF Join
    <3>2. /\ conts'[req.waited].status = "stopped"
          /\ \A k \in Containers \ {req.waited} : conts'[k] = conts[k]
      BY Zenon, <2>1, <3>1 DEF ShimTypes
    <3>3. conts[req.waited].status = "running" /\ ~Alive(req.waited)
      BY Zenon, <2>1, <2>2 DEF TableInv, Undisturbed
    <3>4. \A k \in Containers \ {req.waited} : Same(k)
      BY Zenon, <2>1, <3>2 DEF Same, Alive
    <3>5. Lifecycle[req.waited] = "exited" /\ Lifecycle'[req.waited] = "stopped"
      BY Zenon, <2>1, <3>2, <3>3 DEF Lifecycle
    <3>6. Lifecycle' = [Lifecycle EXCEPT ![req.waited] = "stopped"] /\ Working' = Working
      BY Zenon, <2>1, <3>4, <3>5, OneMoves
    <3>7. Contract!Record(req.waited)
      BY Zenon, <3>5, <3>6 DEF Contract!Record, Contract!Move
    <3> QED BY Zenon, <2>1, <3>7 DEF Contract!Next
  <2>3. CASE req.then \in {"failed", "shutdown"}
    BY Zenon, <1>1, <1>3, <2>1, <2>3 DEF Join
  <2> QED BY Zenon, <2>2, <2>3
<1>4. CASE ReapEnds
  <2>1. UNCHANGED init /\ req.pc = "reap"
    BY Zenon, <1>4 DEF ReapEnds, At
  <2>2. CASE req.then = "delete" /\ conts[req.c].status \in {"created", "stopped"}
    <3>1. req.c \in Containers /\ conts' = [conts EXCEPT ![req.c] = Absent]
      BY Zenon, <1>4, <2>1, <2>2 DEF ReapEnds, RequestInv
    <3>2. conts'[req.c].status = "absent" /\ \A k \in Containers \ {req.c} : conts'[k] = conts[k]
      BY Zenon, <3>1 DEF ShimTypes, Absent
    <3>3. \A k \in Containers \ {req.c} : Same(k)
      BY Zenon, <2>1, <3>2 DEF Same, Alive
    <3>4. Lifecycle[req.c] \in {"created", "stopped"} /\ Lifecycle'[req.c] = "absent"
      BY Zenon, <2>2, <3>1, <3>2 DEF Lifecycle
    <3>5. Lifecycle' = [Lifecycle EXCEPT ![req.c] = "absent"] /\ Working' = Working
      BY Zenon, <2>1, <3>1, <3>3, <3>4, OneMoves
    <3>6. Contract!Delete(req.c)
      BY Zenon, <3>4, <3>5 DEF Contract!Delete, Contract!Move
    <3> QED BY Zenon, <3>1, <3>6 DEF Contract!Next
  <2>3. CASE req.then = "delete" /\ conts[req.c].status \notin {"created", "stopped"}
    <3>1. req.c \in Containers
      BY Zenon, <2>1, <2>3 DEF RequestInv
    <3>2. conts[req.c].status = "running" \/ conts[req.c] = Absent
      BY Zenon, <2>3, <3>1, UndisturbedFacts
    <3>3. UNCHANGED conts
      BY Zenon, <1>4, <3>1, <3>2 DEF ReapEnds, ShimTypes
    <3> QED BY Zenon, <1>1, <2>1, <3>3
  <2>4. CASE req.then # "delete"
    BY Zenon, <1>1, <1>4, <2>1, <2>4 DEF ReapEnds
  <2> QED BY Zenon, <2>2, <2>3, <2>4
<1>5. ASSUME ReapOne \/ GraceExit \/ KilledExit
      PROVE  [Contract!Next]_(Contract!vars)
  <2>1. \E c \in Containers : try_wait(c)
    BY Zenon, <1>5 DEF ReapOne, GraceExit, KilledExit, At, RequestInv, Stopping
  <2> QED BY Zenon, <2>1, TryWaitUnseen
<1>6. ASSUME NEW c \in Containers, UNCHANGED conts, Alive(c), init'[c].state \notin {"created", "running"},
             \A k \in Containers \ {c} : init'[k] = init[k]
      PROVE  [Contract!Next]_(Contract!vars)
  <2>1. \A k \in Containers \ {c} : Same(k)
    BY Zenon, <1>6 DEF Same, Alive
  <2>2. CASE conts[c].status = "running"
    <3>1. Lifecycle[c] = "running" /\ Lifecycle'[c] = "exited"
      BY Zenon, <1>6, <2>2 DEF Lifecycle, Alive
    <3>2. Lifecycle' = [Lifecycle EXCEPT ![c] = "exited"] /\ Working' = Working \ {c}
      BY Zenon, <1>6, <2>1, <3>1, OneMoves DEF Alive
    <3>3. Contract!Exit(c)
      BY Zenon, <3>1, <3>2 DEF Contract!Exit, Contract!Move
    <3> QED BY Zenon, <3>3 DEF Contract!Next
  <2>3. CASE conts[c].status # "running"
    <3>1. init[c].state # "running" /\ init'[c].state # "running"
      BY Zenon, <1>6, <2>3, UndisturbedFacts DEF Alive
    <3>2. Same(c)
      BY <1>6, <2>3, <3>1, Zenon DEF Same
    <3>3. \A k \in Containers : Same(k)
      BY Zenon, <2>1, <3>2
    <3> QED BY Zenon, <3>3, NothingMoves
  <2> QED BY Zenon, <2>2, <2>3
<1>7. ASSUME NEW c \in Containers, InitExits(c)
      PROVE  [Contract!Next]_(Contract!vars)
  <2>1. /\ Alive(c) /\ UNCHANGED conts /\ init'[c].state = "zombie"
        /\ \A k \in Containers \ {c} : init'[k] = init[k]
    BY Zenon, <1>7 DEF InitExits, ShimTypes, Inits
  <2> QED BY Zenon, <1>6, <2>1 DEF Alive
<1>8. CASE SendKill
  <2>1. /\ req.c \in Containers /\ UNCHANGED conts
        /\ \A k \in Containers \ {req.c} : init'[k] = init[k]
        /\ init'[req.c] = Killed(init[req.c])
    BY Zenon, <1>8, SendKillEffect DEF Undisturbed
  <2>2. CASE Alive(req.c)
    <3>1. init'[req.c].state \notin {"created", "running"}
      BY Zenon, <2>1, <2>2, KilledInit, UndisturbedFacts DEF Alive
    <3> QED BY Zenon, <1>6, <2>1, <2>2, <3>1
  <2>3. CASE ~Alive(req.c)
    <3>1. init'[req.c] = init[req.c]
      BY Zenon, <2>1, <2>3, KilledInit, UndisturbedFacts DEF Alive
    <3>2. \A k \in Containers : Same(k)
      BY Zenon, <2>1, <3>1 DEF Same, Alive
    <3> QED BY Zenon, <3>2, NothingMoves
  <2> QED BY Zenon, <2>2, <2>3
<1>9. CASE CrunCreate \/ Enroll \/ CrunStart
  <2>1. CASE FailedStart
    BY Zenon, <1>9, <2>1, CreateEffect, EnrollEffect, CrunStartEffect, FailedStartUnseen
  <2>2. CASE CrunCreate /\ ~FailedStart
    <3>1. /\ req.c \in Containers /\ UNCHANGED conts /\ req.pc = "create"
          /\ init' = [init EXCEPT ![req.c].state = "created"]
      BY Zenon, <2>2, CreateEffect
    <3>2. init'[req.c].state = "created" /\ \A k \in Containers \ {req.c} : init'[k] = init[k]
      BY Zenon, <3>1 DEF ShimTypes, Inits
    <3>3. conts[req.c].status = "created" /\ init[req.c].state = "none"
      BY Zenon, <3>1 DEF TableInv, EnrolInv, Starting
    <3>4. \A k \in Containers : Same(k)
      BY Zenon, <3>1, <3>2, <3>3 DEF Same, Alive
    <3> QED BY Zenon, <3>4, NothingMoves
  <2>3. CASE Enroll /\ ~FailedStart
    <3>1. /\ req.c \in Containers /\ UNCHANGED conts
          /\ init' = [init EXCEPT ![req.c].enrolled = TRUE]
      BY Zenon, <2>3, EnrollEffect
    <3>2. \A k \in Containers : init'[k].state = init[k].state
      BY Zenon, <3>1 DEF ShimTypes, Inits
    <3>3. \A k \in Containers : Same(k)
      BY Zenon, <3>1, <3>2 DEF Same, Alive
    <3> QED BY Zenon, <3>3, NothingMoves
  <2>4. CASE CrunStart /\ ~FailedStart
    <3>1. /\ req.c \in Containers /\ req.pc = "start"
          /\ init' = [init EXCEPT ![req.c].state = "running"]
          /\ conts' = [conts EXCEPT ![req.c].status = "running"]
      BY Zenon, <2>4, CrunStartEffect
    <3>2. \A k \in Containers \ {req.c} : conts'[k] = conts[k] /\ init'[k] = init[k]
      BY Zenon, <3>1 DEF ShimTypes
    <3>3. conts'[req.c].status = "running" /\ init'[req.c].state = "running"
      BY <3>1 DEF ShimTypes, Inits, Rows
    <3>4. \A k \in Containers \ {req.c} : Same(k)
      BY Zenon, <3>2 DEF Same, Alive
    <3>5. conts[req.c].status = "created"
      BY Zenon, <3>1 DEF TableInv, Starting
    <3>6. Lifecycle[req.c] = "created" /\ Lifecycle'[req.c] = "running"
      BY Zenon, <3>1, <3>3, <3>5 DEF Lifecycle, Alive
    <3>7. Lifecycle' = [Lifecycle EXCEPT ![req.c] = "running"] /\ Working' = Working \cup {req.c}
      BY Zenon, <3>1, <3>3, <3>4, <3>6, OneMoves
    <3>8. Contract!Start(req.c)
      BY Zenon, <3>6, <3>7 DEF Contract!Start, Contract!Move
    <3> QED BY Zenon, <3>1, <3>8 DEF Contract!Next
  <2> QED BY Zenon, <1>9, <2>1, <2>2, <2>3, <2>4
<1>10. CASE ShimCrash
  <2>1. /\ budget \in [faults: Nat, stuck: Nat, crashes: Nat]
        /\ budget' = [budget EXCEPT !.crashes = budget.crashes + 1]
    BY Zenon, <1>10 DEF ShimCrash, Spend, ShimTypes
  <2>2. budget'.crashes # 0
    BY <2>1
  <2> QED BY Zenon, <2>2 DEF Undisturbed
<1>11. ASSUME NEW c \in Containers,
              StartContainer(c) \/ StopContainer(c) \/ DeleteContainer(c) \/ GetState(c)
              \/ Capture(c) \/ WorkloadWrites(c)
       PROVE  [Contract!Next]_(Contract!vars)
  BY <1>1, <1>11, Zenon DEF StartContainer, StopContainer, DeleteContainer, GetState, Capture,
     CaptureRead,
     CaptureEof, CaptureGivesUp, WorkloadWrites
<1>12. ASSUME OtherRequest \/ Shutdown \/ GraceEnds \/ KillTimesOut \/ ShutdownOne \/ ShutdownEnds
              \/ Prepare \/ ShimSpawned \/ UNCHANGED vars
       PROVE  [Contract!Next]_(Contract!vars)
  BY <1>1, <1>12, Zenon DEF OtherRequest, Shutdown, GraceEnds, KillTimesOut, ShutdownOne,
     ShutdownEnds,
     Prepare, ShimSpawned, vars
<1> QED BY Zenon, <1>2, <1>3, <1>4, <1>5, <1>7, <1>8, <1>9, <1>10, <1>11, <1>12 DEF Next, Request,
           Handle, Poll

\* Whatever is requested and whatever start steps, logs and threads fail, the
\* shim keeps the contract with its containers as long as it is not killed and
\* SIGKILL ends an init: a container starts at most once, is recorded as stopped
\* only after its init ended, and is removed only when it does not run.
THEOREM ShimKeepsContract ==
  ASSUME LogMaxBytes \in Nat
  PROVE  Spec /\ []Undisturbed => KeepsContract
<1>1. Init => Contract!Init
  BY DEF Init, Contract!Init, Lifecycle, Working, Absent, NoInit
<1>2. ShimInv /\ Undisturbed /\ Undisturbed' /\ [Next]_vars => [Contract!Next]_(Contract!vars)
  BY Zenon, ContractStep
<1> QED BY <1>1, <1>2, ShimInvariant, PTL DEF Spec, KeepsContract, Contract!Spec

=============================================================================
