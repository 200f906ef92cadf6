------------------------------ MODULE ShimExec ------------------------------
(***************************************************************************)
(* Interactive exec in a running container (rauha-shim/src/attach.rs and   *)
(* the Exec and ResizePty requests of main.rs): the shim's only request    *)
(* thread opens a pty, forks, and hands the master to a relay thread of    *)
(* its own.                                                                *)
(*                                                                         *)
(* The forked process enters the container's namespaces and clones the     *)
(* exec child; three pipes (setup, ready, go) order the three of them.     *)
(* Descriptor numbers are reused by the kernel, lowest free number first,  *)
(* by the request thread's openpty and by any other thread of the shim.    *)
(* Output and input are counted in chunks, one read of the relay each.     *)
(***************************************************************************)
EXTENDS Naturals, FiniteSets

CONSTANTS Sessions,     \* exec sessions, each a fresh uuid
          MaxFd,        \* descriptor numbers 1..MaxFd
          MaxOutput,    \* chunks an exec child writes
          MaxInput,     \* chunks a client sends
          SockCap,      \* chunks the client's socket holds unread
          MaxFaults,    \* failing system calls
          ServeFails    \* whether serve_attach_session may fail

VARIABLES
  main,      \* the request thread
  fds,       \* what each descriptor number refers to
  table,     \* PTY_SESSIONS
  mid,       \* the forked process of each session
  child,     \* the exec child of each session
  pipes,     \* ready, setup and go of each session
  relay,     \* the relay thread of each session
  client,    \* the daemon's end of each session's socket
  faults

vars == <<main, fds, table, mid, child, pipes, relay, client, faults>>

Fds == 1..MaxFd
Idle == [pc |-> "idle", s |-> "none", fd |-> 0]

Init ==
  /\ main = Idle
  /\ fds = [f \in Fds |-> "free"]
  /\ table = [s \in Sessions |-> 0]
  /\ mid = [s \in Sessions |-> "none"]
  /\ child = [s \in Sessions |-> [pc |-> "none", enrolled |-> FALSE]]
  /\ pipes = [s \in Sessions |-> [ready |-> FALSE, setup |-> "open", go |-> "open"]]
  /\ relay = [s \in Sessions |-> [pc |-> "none", fd |-> 0, pty |-> 0, made |-> 0, sent |-> 0,
                                  input |-> 0]]
  /\ client = [s \in Sessions |-> [state |-> "away", unread |-> 0, typed |-> 0]]
  /\ faults = 0

Fault == faults < MaxFaults
Goto(pc) == main' = [main EXCEPT !.pc = pc]
At(pc) == main.pc = pc
Dead(s) == child[s].pc \in {"none", "dead"}

(***************************************************************************)
(* Exec on the request thread.                                             *)
(***************************************************************************)
\* The container runs, the command is not empty, no seccomp filter: a pty.
OpenPty(s) ==
  /\ At("idle") /\ relay[s].pc = "none" /\ mid[s] = "none"
  /\ \E f \in Fds :
       /\ fds[f] = "free" /\ \A g \in 1..(f - 1) : fds[g] # "free"
       /\ fds' = [fds EXCEPT ![f] = s]
       /\ main' = [pc |-> "fork", s |-> s, fd |-> f]
  /\ UNCHANGED <<table, mid, child, pipes, relay, client, faults>>

\* Anything between openpty and fork that fails drops the pty.
Fork ==
  /\ At("fork")
  /\ \/ /\ mid' = [mid EXCEPT ![main.s] = "enter"]
        /\ Goto("setup") /\ UNCHANGED <<fds, faults>>
     \/ /\ Fault /\ faults' = faults + 1
        /\ fds' = [fds EXCEPT ![main.fd] = "free"]
        /\ mid' = [mid EXCEPT ![main.s] = "gone"]
        /\ main' = Idle
  /\ UNCHANGED <<table, child, pipes, relay, client>>

\* The forked process enters the namespaces and clones the exec child.
EnterNamespaces(s) ==
  /\ mid[s] = "enter"
  /\ \/ /\ mid' = [mid EXCEPT ![s] = "ready"] /\ child' = [child EXCEPT ![s].pc = "setup"]
        /\ UNCHANGED <<pipes, faults>>
     \/ /\ Fault /\ faults' = faults + 1
        /\ mid' = [mid EXCEPT ![s] = "gone"] /\ pipes' = [pipes EXCEPT ![s].setup = "closed"]
        /\ UNCHANGED child
  /\ UNCHANGED <<main, fds, table, relay, client>>

\* exec_child up to its ready byte: session, chroot, capabilities.
ChildSetup(s) ==
  /\ child[s].pc = "setup"
  /\ \/ child' = [child EXCEPT ![s].pc = "waitgo"] /\ pipes' = [pipes EXCEPT ![s].ready = TRUE]
        /\ UNCHANGED faults
     \/ Fault /\ faults' = faults + 1 /\ child' = [child EXCEPT ![s].pc = "dead"] /\ UNCHANGED pipes
  /\ UNCHANGED <<main, fds, table, mid, relay, client>>

\* The forked process passes the child's pid on, or closes setup without it.
PassPid(s) ==
  /\ mid[s] = "ready" /\ (pipes[s].ready \/ Dead(s))
  /\ pipes' = [pipes EXCEPT ![s].setup = IF pipes[s].ready THEN "pid" ELSE "closed"]
  /\ mid' = [mid EXCEPT ![s] = "wait"]
  /\ UNCHANGED <<main, fds, table, child, relay, client, faults>>

MidExits(s) ==
  /\ mid[s] = "wait" /\ Dead(s)
  /\ mid' = [mid EXCEPT ![s] = "gone"]
  /\ UNCHANGED <<main, fds, table, child, pipes, relay, client, faults>>

\* The go byte, or end of file: image code starts only after the byte.
ChildGo(s) ==
  /\ child[s].pc = "waitgo" /\ pipes[s].go # "open"
  /\ child' = [child EXCEPT ![s].pc = IF pipes[s].go = "byte" THEN "exec" ELSE "dead"]
  /\ UNCHANGED <<main, fds, table, mid, pipes, relay, client, faults>>

\* The child exits, or dies with the container's init.
ChildDies(s) ==
  /\ child[s].pc \in {"setup", "waitgo", "exec"}
  /\ child' = [child EXCEPT ![s].pc = "dead"]
  /\ UNCHANGED <<main, fds, table, mid, pipes, relay, client, faults>>

\* Without a pid in the setup pipe, go is closed and the forked process awaited.
ReadSetup ==
  /\ At("setup") /\ pipes[main.s].setup # "open"
  /\ IF pipes[main.s].setup = "pid"
     THEN Goto("enrol") /\ UNCHANGED pipes
     ELSE Goto("waitpid") /\ pipes' = [pipes EXCEPT ![main.s].go = "closed"]
  /\ UNCHANGED <<fds, table, mid, child, relay, client, faults>>

Kill(s) == child' = [child EXCEPT ![s].pc = "dead"]

\* cgroup.procs of the zone; a failure (a dead child among them) kills the child
\* and waits for the forked process with the go pipe still open.
Enrol ==
  /\ At("enrol")
  /\ \/ ~Dead(main.s) /\ child' = [child EXCEPT ![main.s].enrolled = TRUE] /\ Goto("go") /\ UNCHANGED faults
     \/ Fault /\ faults' = faults + 1 /\ Kill(main.s) /\ Goto("waitpid")
     \/ Dead(main.s) /\ Goto("waitpid") /\ UNCHANGED <<child, faults>>
  /\ UNCHANGED <<fds, table, mid, pipes, relay, client>>

\* The go byte; a child that is gone by now makes the write fail.
SendGo ==
  /\ At("go")
  /\ IF Dead(main.s)
     THEN Goto("waitpid") /\ pipes' = [pipes EXCEPT ![main.s].go = "closed"]
     ELSE Goto("serve") /\ pipes' = [pipes EXCEPT ![main.s].go = "byte"]
  /\ UNCHANGED <<fds, table, mid, child, relay, client, faults>>

\* Every failure ends in waitpid, and the pty is dropped.
ExecFails ==
  /\ At("waitpid") /\ mid[main.s] = "gone"
  /\ fds' = [fds EXCEPT ![main.fd] = "free"]
  /\ pipes' = [pipes EXCEPT ![main.s].go = "closed"]
  /\ main' = Idle
  /\ UNCHANGED <<table, mid, child, relay, client, faults>>

\* serve_attach_session: the socket, the table entry, the relay thread.  The
\* master was forgotten before, so a failing bind leaves it open.
Serve ==
  /\ At("serve")
  /\ \/ /\ table' = [table EXCEPT ![main.s] = main.fd]
        /\ relay' = [relay EXCEPT ![main.s].pc = "accept", ![main.s].fd = main.fd]
        /\ UNCHANGED faults
     \/ ServeFails /\ Fault /\ faults' = faults + 1 /\ UNCHANGED <<table, relay>>
  /\ main' = Idle
  /\ UNCHANGED <<fds, mid, child, pipes, client>>

(***************************************************************************)
(* ResizePty: the number is looked up under the lock, used after it.       *)
(***************************************************************************)
ResizeLookup(s) ==
  /\ At("idle") /\ table[s] # 0
  /\ main' = [pc |-> "ioctl", s |-> s, fd |-> table[s]]
  /\ UNCHANGED <<fds, table, mid, child, pipes, relay, client, faults>>

ResizeIoctl ==
  /\ At("ioctl") /\ main' = Idle
  /\ UNCHANGED <<fds, table, mid, child, pipes, relay, client, faults>>

(***************************************************************************)
(* The relay thread.                                                       *)
(***************************************************************************)
Accept(s) ==
  /\ relay[s].pc = "accept" /\ client[s].state # "away"
  /\ relay' = [relay EXCEPT ![s].pc = "poll"]
  /\ UNCHANGED <<main, fds, table, mid, child, pipes, client, faults>>

HungUp(s) == child[s].pc = "dead"

\* write_all_fd to the client's socket: a full socket fails like a closed one.
Deliver(s, then) ==
  IF client[s].state = "up" /\ client[s].unread < SockCap
  THEN /\ relay' = [relay EXCEPT ![s].pty = @ - 1, ![s].sent = @ + 1, ![s].pc = then]
       /\ client' = [client EXCEPT ![s].unread = @ + 1]
  ELSE relay' = [relay EXCEPT ![s].pty = @ - 1, ![s].pc = "remove"] /\ UNCHANGED client

RelayOutput(s) ==
  /\ relay[s].pc = "poll" /\ relay[s].pty > 0
  /\ Deliver(s, IF HungUp(s) THEN "drain" ELSE "input")
  /\ UNCHANGED <<main, fds, table, mid, child, pipes, faults>>

RelayDrain(s) ==
  /\ relay[s].pc = "drain" \/ (relay[s].pc = "poll" /\ HungUp(s))
  /\ IF relay[s].pty > 0 THEN Deliver(s, "drain")
     ELSE relay' = [relay EXCEPT ![s].pc = "remove"] /\ UNCHANGED client
  /\ UNCHANGED <<main, fds, table, mid, child, pipes, faults>>

\* The client's side of the poll: input for the pty, or its end.
RelayInput(s) ==
  /\ \/ relay[s].pc = "input"
     \/ relay[s].pc = "poll" /\ relay[s].pty = 0 /\ ~HungUp(s)
  /\ relay' = [relay EXCEPT ![s].pc = IF client[s].typed > 0 THEN "writein"
                                      ELSE IF client[s].state = "gone" THEN "remove" ELSE "poll"]
  /\ client' = [client EXCEPT ![s].typed = IF @ > 0 THEN @ - 1 ELSE 0]
  /\ UNCHANGED <<main, fds, table, mid, child, pipes, faults>>

\* The write to the pty blocks while the child does not read.
RelayWriteIn(s) ==
  /\ relay[s].pc = "writein" /\ (relay[s].input = 0 \/ HungUp(s))
  /\ relay' = [relay EXCEPT ![s].pc = IF HungUp(s) THEN "remove" ELSE "poll",
                            ![s].input = IF HungUp(s) THEN 0 ELSE 1]
  /\ UNCHANGED <<main, fds, table, mid, child, pipes, client, faults>>

\* A mutant: the descriptor is closed before the entry is removed.
CloseFirst(s) ==
  /\ relay[s].pc = "remove"
  /\ fds' = [fds EXCEPT ![relay[s].fd] = "free"]
  /\ relay' = [relay EXCEPT ![s].pc = "unlink"]
  /\ UNCHANGED <<main, table, mid, child, pipes, client, faults>>

RelayRemove(s) ==
  /\ relay[s].pc = "remove"
  /\ table' = [table EXCEPT ![s] = 0]
  /\ relay' = [relay EXCEPT ![s].pc = "close"]
  /\ UNCHANGED <<main, fds, mid, child, pipes, client, faults>>

RelayClose(s) ==
  /\ relay[s].pc = "close"
  /\ fds' = [fds EXCEPT ![relay[s].fd] = "free"]
  /\ relay' = [relay EXCEPT ![s].pc = "unlink"]
  /\ UNCHANGED <<main, table, mid, child, pipes, client, faults>>

RelayUnlink(s) ==
  /\ relay[s].pc = "unlink"
  /\ relay' = [relay EXCEPT ![s].pc = "done"]
  /\ UNCHANGED <<main, fds, table, mid, child, pipes, client, faults>>

(***************************************************************************)
(* The exec'd program, the daemon's end and the shim's other threads.      *)
(***************************************************************************)
ChildWrites(s) ==
  /\ child[s].pc = "exec" /\ relay[s].pc # "none" /\ relay[s].made < MaxOutput
  /\ relay' = [relay EXCEPT ![s].pty = @ + 1, ![s].made = @ + 1]
  /\ UNCHANGED <<main, fds, table, mid, child, pipes, client, faults>>

ChildReads(s) ==
  /\ child[s].pc = "exec" /\ relay[s].input > 0
  /\ relay' = [relay EXCEPT ![s].input = 0]
  /\ UNCHANGED <<main, fds, table, mid, child, pipes, client, faults>>

\* ExecReady names the socket: the daemon connects to it.
Connect(s) ==
  /\ client[s].state = "away" /\ relay[s].pc = "accept"
  /\ \E n \in 0..MaxInput : client' = [client EXCEPT ![s].state = "up", ![s].typed = n]
  /\ UNCHANGED <<main, fds, table, mid, child, pipes, relay, faults>>

ClientReads(s) ==
  /\ client[s].state = "up" /\ client[s].unread > 0
  /\ client' = [client EXCEPT ![s].unread = @ - 1]
  /\ UNCHANGED <<main, fds, table, mid, child, pipes, relay, faults>>

ClientLeaves(s) ==
  /\ client[s].state = "up"
  /\ client' = [client EXCEPT ![s].state = "gone"]
  /\ UNCHANGED <<main, fds, table, mid, child, pipes, relay, faults>>

OtherDescriptor ==
  /\ \E f \in Fds :
       \/ fds[f] = "free" /\ (\A g \in 1..(f - 1) : fds[g] # "free") /\ fds' = [fds EXCEPT ![f] = "other"]
       \/ fds[f] = "other" /\ fds' = [fds EXCEPT ![f] = "free"]
  /\ UNCHANGED <<main, table, mid, child, pipes, relay, client, faults>>

\* The shim is killed: its ends of the pipes and the ptys close.
ShimDies ==
  /\ Fault /\ faults' = faults + 1 /\ ~At("dead")
  /\ main' = [Idle EXCEPT !.pc = "dead"]
  /\ fds' = [f \in Fds |-> "free"] /\ table' = [s \in Sessions |-> 0]
  /\ pipes' = [s \in Sessions |-> [pipes[s] EXCEPT !.go = IF @ = "open" THEN "closed" ELSE @]]
  /\ relay' = [s \in Sessions |-> [relay[s] EXCEPT !.pc = "done"]]
  /\ UNCHANGED <<mid, child, client>>

Exec == Fork \/ ReadSetup \/ Enrol \/ SendGo \/ ExecFails \/ Serve \/ ResizeIoctl
Child(s) == EnterNamespaces(s) \/ ChildSetup(s) \/ PassPid(s) \/ MidExits(s) \/ ChildGo(s)
Relay(s) ==
  \/ Accept(s) \/ RelayOutput(s) \/ RelayDrain(s) \/ RelayInput(s) \/ RelayWriteIn(s)
  \/ RelayRemove(s) \/ RelayClose(s) \/ RelayUnlink(s)

Next ==
  \/ Exec \/ OtherDescriptor \/ ShimDies
  \/ \E s \in Sessions :
       \/ OpenPty(s) \/ ResizeLookup(s) \/ Child(s) \/ Relay(s)
       \/ ChildDies(s) \/ ChildWrites(s) \/ ChildReads(s)
       \/ Connect(s) \/ ClientReads(s) \/ ClientLeaves(s)

Spec == Init /\ [][Next]_vars

(***************************************************************************)
(* Properties.                                                             *)
(***************************************************************************)
TypeOK ==
  /\ main.pc \in {"idle", "fork", "setup", "enrol", "go", "serve", "waitpid", "ioctl", "dead"}
  /\ \A f \in Fds : fds[f] \in Sessions \cup {"free", "other"}
  /\ \A s \in Sessions :
       /\ child[s].pc \in {"none", "setup", "waitgo", "exec", "dead"}
       /\ client[s].unread \in 0..SockCap
       /\ relay[s].sent + relay[s].pty <= relay[s].made

\* A program of the image runs only in the zone's cgroup: whatever fails in the
\* three-process handshake, an exec child that was not enrolled ends before exec.
ExecOnlyEnrolled == \A s \in Sessions : child[s].pc = "exec" => child[s].enrolled

\* A resize never reaches another session's terminal, although the number is
\* used after the lock is released and numbers are reused: the entry goes before
\* the descriptor is closed, and only the request thread opens ptys.
ResizeHitsOwnPty == At("ioctl") => fds[main.fd] \in {main.s, "free", "other"}

\* What the exec'd program wrote before it ended reaches a client that stayed:
\* the hangup of the pty is acted on only after the last read.
OutputRelayed ==
  \A s \in Sessions :
    relay[s].pc \in {"remove", "close", "unlink", "done"} /\ ~At("dead") /\ client[s].state = "up" /\ HungUp(s)
      => relay[s].sent = relay[s].made
=============================================================================
