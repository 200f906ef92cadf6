----------------------------- MODULE ContainerRows -----------------------------
(***************************************************************************)
(* The containers of one zone as the daemon's registry sees them: the row  *)
(* in the metadata store, the handle in memory and the shim's own record.  *)
(* Every gRPC call runs in a task of its own.  A call reads the row, asks  *)
(* the shim and writes its copy of the row back, and other calls run       *)
(* between any two of these steps.  The shim serves one request at a time. *)
(***************************************************************************)
EXTENDS Naturals, FiniteSets

CONSTANTS Containers, Calls,
          Ops,          \* what is called: see AllOps
          MaxCrashes,   \* bound on daemon crashes
          MaxLost,      \* bound on shim answers that are lost
          ZoneMayFail   \* a restarted daemon may fail to recover the zone

AllOps == {"create", "start", "stop", "state", "wait", "twait", "delete", "force", "get", "list"}

VARIABLES
    row,        \* the containers table: state, and whether an exit code is known
    handle,     \* containers with an entry in container_handles
    zone,       \* the zone has an entry in handles
    shim,       \* the shim's record; "exited": init is gone, not yet reaped
    pc, op, id, copy, todo, expired,   \* per call: its locals
    used, deleted,                     \* ids given out; ids a delete returned Ok for
    crashes, lost

vars == <<row, handle, zone, shim, pc, op, id, copy, todo, expired, used, deleted, crashes, lost>>
store == <<row, handle, zone, shim>>
ghosts == <<used, deleted, crashes, lost>>

NoRow == [state |-> "None", exit |-> FALSE]
Resting == {"idle", "ok", "failed"}
Waits == {"wait", "twait"}
Goto(k, l) == pc' = [pc EXCEPT ![k] = l]

\* An error ends every call but a wait, which goes on to look at its deadline.
Fail(k) == Goto(k, IF op[k] \in Waits THEN "deadline" ELSE "failed")

(***************************************************************************)
(* The metadata store: one transaction each.                               *)
(***************************************************************************)
get_container(c) == row[c]
put_container(c, r) == row' = [row EXCEPT ![c] = r]
delete_container_row(c) == row' = [row EXCEPT ![c] = NoRow]
list_containers_rows == {c \in Containers : row[c] # NoRow}

(***************************************************************************)
(* The shim: what a request does to its records.                           *)
(***************************************************************************)

reap_children(s) == [c \in Containers |-> IF s[c] = "exited" THEN "stopped" ELSE s[c]]

\* A request is handled, and then the children that exited are reaped.
Served(s) == shim' = reap_children(s)

\* The answer to a request k sent gets lost: k sees an error.
AnswerLost(k) == /\ lost < MaxLost /\ lost' = lost + 1
                 /\ Fail(k)
                 /\ UNCHANGED <<used, deleted, crashes>>

\* The request of k is answered: on to l, or to an error.
Answer(k, l) == Goto(k, l) /\ UNCHANGED ghosts

-----------------------------------------------------------------------------
\* A call of the API begins.
Begin(k, o, c) ==
    /\ pc[k] \in Resting
    /\ op' = [op EXCEPT ![k] = o]
    /\ id' = [id EXCEPT ![k] = c]
    /\ expired' = [expired EXCEPT ![k] = FALSE]
    /\ IF o = "create"
       THEN c \notin used /\ used' = used \cup {c} /\ Goto(k, "create")
       ELSE Goto(k, IF o \in {"get", "list"} THEN "snapshot" ELSE "read") /\ UNCHANGED used
    /\ UNCHANGED <<store, copy, todo, deleted, crashes, lost>>

\* create_container: the shim makes the container, if the zone has a handle,
CreateInShim(k) ==
    /\ pc[k] = "create"
    /\ IF zone
       THEN Served([shim EXCEPT ![id[k]] = "created"]) /\ (Answer(k, "record") \/ AnswerLost(k))
       ELSE Fail(k) /\ UNCHANGED <<shim, ghosts>>
    /\ UNCHANGED <<row, handle, zone, op, id, copy, todo, expired>>

\* then the row is written, and then the handle.
RecordCreated(k) ==
    /\ pc[k] = "record"
    /\ put_container(id[k], [state |-> "Created", exit |-> FALSE])
    /\ Goto(k, "insert")
    /\ UNCHANGED <<handle, zone, shim, op, id, copy, todo, expired, ghosts>>

InsertHandle(k) ==
    /\ pc[k] = "insert"
    /\ handle' = handle \cup {id[k]}
    /\ Goto(k, "ok")
    /\ UNCHANGED <<row, zone, shim, op, id, copy, todo, expired, ghosts>>

\* What follows the read of the row.
AfterRead(k, r) ==
    CASE op[k] \in {"start", "stop"}        -> "handle"
      [] op[k] \in {"state"} \cup Waits     -> "ask"
      [] op[k] = "delete" /\ r.state = "Running" -> "failed"
      [] op[k] = "force" /\ r.state = "Running"  -> "stop"
      [] OTHER                              -> "unlink"

ReadRow(k) ==
    /\ pc[k] = "read"
    /\ LET r == get_container(id[k]) IN
       IF r = NoRow
       THEN Fail(k) /\ UNCHANGED copy
       ELSE /\ copy' = [copy EXCEPT ![k][id[k]] = r]
            /\ Goto(k, AfterRead(k, r))
    /\ UNCHANGED <<store, op, id, todo, expired, ghosts>>

\* delete_container with force calls stop_container, which reads the row anew.
StopReadsRow(k) ==
    /\ pc[k] = "stop"
    /\ LET r == get_container(id[k]) IN
       IF r = NoRow
       THEN Fail(k) /\ UNCHANGED copy
       ELSE copy' = [copy EXCEPT ![k][id[k]] = r] /\ Goto(k, "handle")
    /\ UNCHANGED <<store, op, id, todo, expired, ghosts>>

LookUpHandle(k) ==
    /\ pc[k] = "handle"
    /\ IF id[k] \in handle THEN Goto(k, "request") ELSE Fail(k)
    /\ UNCHANGED <<store, op, id, copy, todo, expired, ghosts>>

\* The shim starts only what is created; crun may fail.
StartInShim(k) ==
    /\ pc[k] = "request" /\ op[k] = "start"
    /\ \/ /\ shim[id[k]] = "created"
          /\ Served([shim EXCEPT ![id[k]] = "running"])
          /\ (Answer(k, "started") \/ AnswerLost(k))
       \/ Served(shim) /\ Fail(k) /\ UNCHANGED ghosts
    /\ UNCHANGED <<row, handle, zone, op, id, copy, todo, expired>>

\* The shim stops only what runs, and returns when it is gone.
StopInShim(k) ==
    /\ pc[k] = "request" /\ op[k] \in {"stop", "force"}
    /\ IF shim[id[k]] = "running"
       THEN /\ Served([shim EXCEPT ![id[k]] = "stopped"])
            /\ (Answer(k, "stopped") \/ AnswerLost(k))
       ELSE Served(shim) /\ Fail(k) /\ UNCHANGED ghosts
    /\ UNCHANGED <<row, handle, zone, op, id, copy, todo, expired>>

RecordRunning(k) ==
    /\ pc[k] = "started"
    /\ put_container(id[k], [copy[k][id[k]] EXCEPT !.state = "Running"])
    /\ Goto(k, "ok")
    /\ UNCHANGED <<handle, zone, shim, op, id, copy, todo, expired, ghosts>>

RecordStopped(k) ==
    /\ pc[k] = "stopped"
    /\ put_container(id[k], [copy[k][id[k]] EXCEPT !.state = "Stopped"])
    /\ Goto(k, IF op[k] = "force" THEN "unlink" ELSE "ok")
    /\ UNCHANGED <<handle, zone, shim, op, id, copy, todo, expired, ghosts>>

\* What get_container_state does with the shim's status: "persist" the exit,
\* answer "stopped", or answer some other status.
Seen(k) ==
    LET c == copy[k][id[k]] IN
    IF shim[id[k]] # "stopped" THEN "answered"
    ELSE IF c.state # "Stopped" \/ ~c.exit THEN "persist" ELSE "seen"

\* get_container_state: the shim is asked if the zone has a handle.
AskShim(k) ==
    /\ pc[k] = "ask"
    /\ \/ /\ zone /\ shim[id[k]] # "absent"
          /\ Served(shim)
          /\ (Answer(k, Seen(k)) \/ AnswerLost(k))
       \/ /\ ~zone \/ shim[id[k]] = "absent"
          /\ IF zone THEN Served(shim) ELSE UNCHANGED shim
          /\ Fail(k) /\ UNCHANGED ghosts
    /\ UNCHANGED <<row, handle, zone, op, id, copy, todo, expired>>

PersistExit(k) ==
    /\ pc[k] = "persist"
    /\ put_container(id[k], [state |-> "Stopped", exit |-> TRUE])
    /\ Goto(k, "seen")
    /\ UNCHANGED <<handle, zone, shim, op, id, copy, todo, expired, ghosts>>

\* The status is returned; a wait goes on unless it was "stopped".
Return(k) ==
    /\ pc[k] \in {"answered", "seen"}
    /\ Goto(k, IF op[k] \in Waits /\ pc[k] = "answered" THEN "deadline" ELSE "ok")
    /\ UNCHANGED <<store, op, id, copy, todo, expired, ghosts>>

\* Mutant: the deadline is only looked at when the state could be read.
DeadlineAfterAnswer(k) ==
    /\ pc[k] = "deadline"
    /\ Goto(k, IF expired[k] /\ row[id[k]] # NoRow THEN "ok" ELSE "read")
    /\ UNCHANGED <<store, op, id, copy, todo, expired, ghosts>>

\* wait_for_exit: return at the deadline, or poll again.
CheckDeadline(k) ==
    /\ pc[k] = "deadline"
    /\ Goto(k, IF expired[k] THEN "ok" ELSE "read")
    /\ UNCHANGED <<store, op, id, copy, todo, expired, ghosts>>

Expire(k) ==
    /\ op[k] = "twait" /\ pc[k] \notin Resting /\ ~expired[k]
    /\ expired' = [expired EXCEPT ![k] = TRUE]
    /\ UNCHANGED <<store, pc, op, id, copy, todo, ghosts>>

\* Mutant: the shim's refusal is not looked at.
DeleteUnanswered(k) ==
    /\ pc[k] = "unlink"
    /\ Served(IF shim[id[k]] = "running" THEN shim ELSE [shim EXCEPT ![id[k]] = "absent"])
    /\ Answer(k, "forget")
    /\ UNCHANGED <<row, handle, zone, op, id, copy, todo, expired>>

\* delete_container: a zone without a handle is not asked; otherwise the shim
\* forgets the container unless it runs.
DeleteInShim(k) ==
    /\ pc[k] = "unlink"
    /\ CASE ~zone -> Answer(k, "forget") /\ UNCHANGED shim
         [] zone /\ shim[id[k]] = "running" -> Served(shim) /\ Fail(k) /\ UNCHANGED ghosts
         [] OTHER -> /\ Served([shim EXCEPT ![id[k]] = "absent"])
                     /\ (Answer(k, "forget") \/ AnswerLost(k))
    /\ UNCHANGED <<row, handle, zone, op, id, copy, todo, expired>>

\* The logs are removed first; when that fails, handle and row stay.
RemoveLogsFails(k) ==
    /\ pc[k] = "forget" /\ lost < MaxLost
    /\ lost' = lost + 1
    /\ Fail(k)
    /\ UNCHANGED <<store, op, id, copy, todo, expired, used, deleted, crashes>>

ForgetHandle(k) ==
    /\ pc[k] = "forget"
    /\ handle' = handle \ {id[k]}
    /\ Goto(k, "erase")
    /\ UNCHANGED <<row, zone, shim, op, id, copy, todo, expired, ghosts>>

EraseRow(k) ==
    /\ pc[k] = "erase"
    /\ delete_container_row(id[k])
    /\ deleted' = deleted \cup {id[k]}
    /\ Goto(k, "ok")
    /\ UNCHANGED <<handle, zone, shim, op, id, copy, todo, expired, used, crashes, lost>>

\* get_container and list_containers read one row or all of them,
Snapshot(k) ==
    /\ pc[k] = "snapshot"
    /\ copy' = [copy EXCEPT ![k] = row]
    /\ LET found == list_containers_rows \cap
                        (IF op[k] = "get" THEN {id[k]} ELSE Containers)
       IN /\ todo' = [todo EXCEPT ![k] = found]
          /\ Goto(k, IF op[k] = "get" /\ found = {} THEN "failed" ELSE "reap")
    /\ UNCHANGED <<store, op, id, expired, ghosts>>

\* The init of c is gone: kill(2) finds no process, or a zombie.
is_process_dead(c) == shim[c] # "running"

\* and then look at each that is Running in the copy,
maybe_reap_container(k, c) ==
    /\ pc[k] = "reap" /\ c \in todo[k]
    /\ todo' = [todo EXCEPT ![k] = @ \ {c}]
    /\ IF copy[k][c].state = "Running" /\ is_process_dead(c)
       THEN id' = [id EXCEPT ![k] = c] /\ Goto(k, "reaped")
       ELSE UNCHANGED <<id, pc>>
    /\ UNCHANGED <<store, op, copy, expired, ghosts>>

\* and write that copy back if its process is dead.
RecordReaped(k) ==
    /\ pc[k] = "reaped"
    /\ put_container(id[k], [copy[k][id[k]] EXCEPT !.state = "Stopped"])
    /\ Goto(k, "reap")
    /\ UNCHANGED <<handle, zone, shim, op, id, copy, todo, expired, ghosts>>

\* The answer needs the zone's name for every container in it.
ListAnswers(k) ==
    /\ pc[k] = "reap" /\ todo[k] = {}
    /\ Goto(k, IF zone \/ \A c \in Containers : copy[k][c] = NoRow THEN "ok" ELSE "failed")
    /\ UNCHANGED <<store, op, id, copy, todo, expired, ghosts>>

(***************************************************************************)
(* Around the calls.                                                       *)
(***************************************************************************)
\* The init process of a container exits by itself.
Exit(c) ==
    /\ shim[c] = "running" /\ shim' = [shim EXCEPT ![c] = "exited"]
    /\ UNCHANGED <<row, handle, zone, pc, op, id, copy, todo, expired, ghosts>>

\* The daemon dies and reconciles; the shim survives.  A zone that recovers
\* gets its handle back and its rows get container handles.
reconcile ==
    /\ crashes < MaxCrashes /\ crashes' = crashes + 1
    /\ zone' \in IF ZoneMayFail THEN BOOLEAN ELSE {TRUE}
    /\ handle' = IF zone' THEN list_containers_rows ELSE {}
    /\ pc' = [k \in Calls |-> "idle"]
    /\ UNCHANGED <<row, shim, op, id, copy, todo, expired, used, deleted, lost>>

Init ==
    /\ row = [c \in Containers |-> NoRow] /\ handle = {} /\ zone = TRUE
    /\ shim = [c \in Containers |-> "absent"]
    /\ pc = [k \in Calls |-> "idle"] /\ op = [k \in Calls |-> "get"]
    /\ id \in [Calls -> {CHOOSE c \in Containers : TRUE}]
    /\ copy = [k \in Calls |-> [c \in Containers |-> NoRow]]
    /\ todo = [k \in Calls |-> {}] /\ expired = [k \in Calls |-> FALSE]
    /\ used = {} /\ deleted = {} /\ crashes = 0 /\ lost = 0

Step(k) ==
    \/ CreateInShim(k) \/ RecordCreated(k) \/ InsertHandle(k)
    \/ ReadRow(k) \/ StopReadsRow(k) \/ LookUpHandle(k)
    \/ StartInShim(k) \/ StopInShim(k) \/ RecordRunning(k) \/ RecordStopped(k)
    \/ AskShim(k) \/ PersistExit(k) \/ Return(k) \/ CheckDeadline(k)
    \/ DeleteInShim(k) \/ RemoveLogsFails(k) \/ ForgetHandle(k) \/ EraseRow(k)
    \/ Snapshot(k) \/ (\E c \in Containers : maybe_reap_container(k, c))
    \/ RecordReaped(k) \/ ListAnswers(k)

Next ==
    \/ \E k \in Calls : Step(k) \/ Expire(k)
    \/ \E k \in Calls, o \in Ops, c \in Containers : Begin(k, o, c)
    \/ \E c \in Containers : Exit(c)
    \/ reconcile

Spec == Init /\ [][Next]_vars

-----------------------------------------------------------------------------
\* Rows, records and locals have their types.
TypeOK ==
    /\ row \in [Containers -> [state : {"None", "Created", "Running", "Stopped"}, exit : BOOLEAN]]
    /\ handle \subseteq Containers /\ zone \in BOOLEAN
    /\ shim \in [Containers -> {"absent", "created", "running", "exited", "stopped"}]
    /\ op \in [Calls -> AllOps] /\ id \in [Calls -> Containers]
    /\ todo \in [Calls -> SUBSET Containers] /\ expired \in [Calls -> BOOLEAN]
    /\ crashes \in 0..MaxCrashes /\ lost \in 0..MaxLost

\* Whatever calls run beside each other and wherever the daemon crashes, a
\* container that runs has a row: delete_container erases the row only after
\* the shim has forgotten the container.
RunningIsRecorded == \A c \in Containers : shim[c] = "running" => row[c] # NoRow

\* Without crashes and lost answers a running container is shown as Running,
\* except while the start that made it run has yet to write the row: no copy
\* of the row that another call writes back hides it.
RunningIsShown ==
    \A c \in Containers :
        shim[c] = "running" /\ (\A k \in Calls : pc[k] = "started" => id[k] # c)
        => row[c].state = "Running"

\* A container whose delete returned Ok is not in the shim any more.
DeletedIsGone == \A c \in deleted : shim[c] = "absent"

\* A container whose delete returned Ok never appears again: the rows are
\* kept "with ACID transactions".
DeletedStaysDeleted == \A c \in deleted : row[c] = NoRow
=============================================================================
