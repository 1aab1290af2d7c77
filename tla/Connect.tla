------------------------------ MODULE Connect ------------------------------
(***************************************************************************)
(* The controller side of the Git mailbox (local_hand_connect/            *)
(* controller.py): calls that publish a task and wait for its result.      *)
(*                                                                         *)
(* A call works in a clone of the mailbox that it locks for its duration;  *)
(* calls of one clone exclude each other, calls of different clones meet   *)
(* in the remote branch.  A push is refused when the branch moved, and may *)
(* be delivered without an answer.  A call may die at any step and leave   *)
(* its commit or file behind in the clone.  The worker at the other end is *)
(* module Mailbox; here it adds results and conflict records.              *)
(***************************************************************************)
EXTENDS Naturals

CONSTANTS
  Calls,          \* calls of the adapter, each with one task
  Clones,
  CloneOf,        \* [Calls -> Clones]
  Digests,        \* digests of task texts
  TaskOf,         \* [Digests -> task ids]
  DigestOf,       \* [Calls -> Digests]
  Policies,       \* transport policies an administrator admits a clone with
  None,           \* no record (a model value)
  PushAttempts,   \* PUSH_ATTEMPTS
  MaxOther,       \* bound: commits that concern other tasks (not in the code)
  MaxDeaths       \* bound: calls that die (not in the code)

Tasks == {TaskOf[d] : d \in Digests}

ConnectAssumption ==
  /\ CloneOf \in [Calls -> Clones] /\ DigestOf \in [Calls -> Digests]
  /\ PushAttempts \in Nat \ {0} /\ MaxDeaths \in Nat /\ MaxOther \in Nat

VARIABLES
  remote,   \* the branch: tasks, results, conflicts, commits about others
  view,     \* per clone: the branch as last fetched
  left,     \* per clone: the task file written there, committed or not
  marker,   \* per clone: the policy it was admitted with
  lock,     \* per clone: the call that owns it
  call,     \* per call: step, attempt, result
  pushed,   \* history: calls that sent a push
  deaths

vars == <<remote, view, left, marker, lock, call, pushed, deaths>>

Answers == {"none", "busy", "invalid", "unadmitted", "submitted", "present", "id conflict",
            "unconfirmed", "timeout", "git failed", "succeeded", "failed", "foreign"}

At(c, step) == call[c].step = step
Digest(c) == DigestOf[c]
Target(c) == TaskOf[Digest(c)]

Step(c, step) == call' = [call EXCEPT ![c].step = step]

\* The call returns or raises; its clone is free again.
End(c, answer) ==
  /\ call' = [call EXCEPT ![c].step = "ended", ![c].answer = answer]
  /\ lock' = [lock EXCEPT ![CloneOf[c]] = IF @ = c THEN None ELSE @]

----------------------------------------------------------------------------
(* Admission of a clone                                                    *)

\* initialize_controller_mailbox: without the clone's lock, but the marker is
\* linked into place, complete and only if there is none; the clone is clean.
Initialize(k, p) ==
  /\ marker[k] = None /\ left[k] = None
  /\ marker' = [marker EXCEPT ![k] = p]
  /\ UNCHANGED <<remote, view, left, lock, call, pushed, deaths>>

----------------------------------------------------------------------------
(* The calls                                                               *)

\* call_task, submit_task, wait_for_result: parameters first, then the lock
\* without waiting, then the admission of the clone.
Begin(c) ==
  /\ At(c, "idle")
  /\ \/ End(c, "invalid")
     \/ lock[CloneOf[c]] # None /\ End(c, "busy")
     \/ lock[CloneOf[c]] = None /\ marker[CloneOf[c]] = None /\ End(c, "unadmitted")
     \/ /\ lock[CloneOf[c]] = None /\ marker[CloneOf[c]] # None
        /\ lock' = [lock EXCEPT ![CloneOf[c]] = c]
        /\ \E step \in {"sync", "wait"} : Step(c, step)
  /\ UNCHANGED <<remote, view, left, marker, pushed, deaths>>

\* sync_mailbox: fetch, reset, move untracked files away.
SyncMailbox(k) ==
  /\ view' = [view EXCEPT ![k] = remote]
  /\ left' = [left EXCEPT ![k] = None]

\* Git may fail at any command before the push: the task is not sent, and
\* what was written stays in the clone.
Sync(c) ==
  /\ At(c, "sync")
  /\ \/ SyncMailbox(CloneOf[c]) /\ Step(c, "look") /\ UNCHANGED lock
     \/ End(c, "git failed") /\ UNCHANGED <<view, left>>
  /\ UNCHANGED <<remote, marker, pushed, deaths>>

\* The target exists: the same task is already there, another one is refused.
LookForTask(c) ==
  LET there == view[CloneOf[c]].tasks[Target(c)] IN
  /\ At(c, "look")
  /\ \/ there = None /\ Step(c, "create") /\ UNCHANGED lock
     \/ there = Digest(c) /\ ((Step(c, "wait") /\ UNCHANGED lock) \/ End(c, "present"))
     \/ there \notin {None, Digest(c)} /\ End(c, "id conflict")
  /\ UNCHANGED <<remote, view, left, marker, pushed, deaths>>

CreateAndCommit(c) ==
  /\ At(c, "create") /\ left' = [left EXCEPT ![CloneOf[c]] = Digest(c)]
  /\ \/ Step(c, "push") /\ UNCHANGED lock
     \/ End(c, "git failed")
  /\ UNCHANGED <<remote, view, marker, pushed, deaths>>

\* The push: delivered (and answered or not), refused because the branch
\* moved, or failed.  Only a refusal is tried again.
Push(c) ==
  /\ At(c, "push") /\ pushed' = pushed \cup {c}
  /\ \/ /\ remote = view[CloneOf[c]]
        /\ remote' = [remote EXCEPT !.tasks[Target(c)] = Digest(c)]
        /\ \/ Step(c, "wait") /\ UNCHANGED lock
           \/ End(c, "submitted")
           \/ End(c, "unconfirmed")
     \/ /\ remote # view[CloneOf[c]] /\ call[c].attempt < PushAttempts
        /\ call' = [call EXCEPT ![c].step = "sync", ![c].attempt = @ + 1]
        /\ UNCHANGED <<remote, lock>>
     \/ End(c, "unconfirmed") /\ UNCHANGED remote
  /\ UNCHANGED <<view, left, marker, deaths>>

WaitSync(c) ==
  /\ At(c, "wait")
  /\ \/ SyncMailbox(CloneOf[c]) /\ Step(c, "read") /\ UNCHANGED lock
     \/ End(c, "git failed") /\ UNCHANGED <<view, left>>
  /\ UNCHANGED <<remote, marker, pushed, deaths>>

\* _enforce_expected_provenance, and the outcome of an accepted record.
Outcome(rec) == IF rec.admitted THEN rec.status ELSE "foreign"

\* _wait_for_result_locked: a conflict record first, then the result, which
\* must carry the digest; until the deadline the call goes on polling.
ReadResult(c) ==
  LET there == view[CloneOf[c]].results[Target(c)]
      conflict == view[CloneOf[c]].conflicts[Digest(c)] IN
  /\ At(c, "read")
  /\ \/ conflict # None /\ End(c, Outcome(conflict))
     \/ conflict = None /\ there # None
        /\ End(c, IF there.digest = Digest(c) THEN Outcome(there) ELSE "foreign")
     \/ there = None /\ conflict = None /\ Step(c, "wait") /\ UNCHANGED lock
     \/ there = None /\ conflict = None /\ End(c, "timeout")
  /\ UNCHANGED <<remote, view, left, marker, pushed, deaths>>

\* The process is killed: the lock goes, the clone stays as it is.
Die(c) ==
  /\ call[c].step \notin {"idle", "ended"} /\ deaths < MaxDeaths
  /\ deaths' = deaths + 1
  /\ End(c, "none")
  /\ UNCHANGED <<remote, view, left, marker, pushed>>

\* The caller uses the same task again.
Again(c) ==
  /\ At(c, "ended")
  /\ call' = [call EXCEPT ![c] = [step |-> "idle", attempt |-> 1, answer |-> "none"]]
  /\ pushed' = pushed \ {c}
  /\ UNCHANGED <<remote, view, left, marker, lock, deaths>>

----------------------------------------------------------------------------
(* The worker of the node, see module Mailbox                              *)

Record(d, s, a) == [digest |-> d, status |-> s, admitted |-> a]

WorkerResult(t) ==
  /\ remote.tasks[t] # None /\ remote.results[t] = None
  /\ \E s \in {"succeeded", "failed"}, a \in BOOLEAN :
       remote' = [remote EXCEPT !.results[t] = Record(remote.tasks[t], s, a)]
  /\ UNCHANGED <<view, left, marker, lock, call, pushed, deaths>>

WorkerConflict(d) ==
  /\ remote.tasks[TaskOf[d]] = d /\ remote.conflicts[d] = None
  /\ remote' = [remote EXCEPT !.conflicts[d] = Record(d, "failed", TRUE)]
  /\ UNCHANGED <<view, left, marker, lock, call, pushed, deaths>>

OtherCommit ==
  /\ remote.others < MaxOther /\ remote' = [remote EXCEPT !.others = @ + 1]
  /\ UNCHANGED <<view, left, marker, lock, call, pushed, deaths>>

----------------------------------------------------------------------------

Empty == [tasks |-> [t \in Tasks |-> None], results |-> [t \in Tasks |-> None],
          conflicts |-> [d \in Digests |-> None], others |-> 0]

Init ==
  /\ remote = Empty /\ view = [k \in Clones |-> Empty] /\ left = [k \in Clones |-> None]
  /\ marker = [k \in Clones |-> None] /\ lock = [k \in Clones |-> None]
  /\ call = [c \in Calls |-> [step |-> "idle", attempt |-> 1, answer |-> "none"]]
  /\ pushed = {} /\ deaths = 0

Works(c) ==
  \/ Begin(c) \/ Sync(c) \/ LookForTask(c) \/ CreateAndCommit(c) \/ Push(c)
  \/ WaitSync(c) \/ ReadResult(c)

Next ==
  \/ \E c \in Calls : Works(c) \/ Die(c) \/ Again(c)
  \/ \E k \in Clones, p \in Policies : Initialize(k, p)
  \/ \E t \in Tasks : WorkerResult(t)
  \/ \E d \in Digests : WorkerConflict(d)
  \/ OtherCommit

Spec == Init /\ [][Next]_vars

----------------------------------------------------------------------------
(* Properties                                                              *)

\* The variables keep their types.
TypeOK ==
  /\ \A t \in Tasks : remote.tasks[t] \in {None} \cup {d \in Digests : TaskOf[d] = t}
  /\ left \in [Clones -> Digests \cup {None}] /\ lock \in [Clones -> Calls \cup {None}]
  /\ marker \in [Clones -> Policies \cup {None}]
  /\ call \in [Calls -> [step : {"idle", "sync", "look", "create", "push", "wait", "read", "ended"},
                         attempt : 1..PushAttempts, answer : Answers]]
  /\ pushed \subseteq Calls /\ deaths \in 0..MaxDeaths

\* What submit acknowledged, as submitted or as already present, is in the
\* branch, whatever earlier calls left in the clone (_submit_task_locked).
AcknowledgedIsPublished ==
  \A c \in Calls : call[c].answer \in {"submitted", "present"} => remote.tasks[Target(c)] = Digest(c)

\* A success that wait reports is the worker's result for this very text by
\* the admitted deployment (_validate_controller_result).
SuccessIsTrue ==
  \A c \in Calls : call[c].answer = "succeeded" =>
    remote.results[Target(c)] = Record(Digest(c), "succeeded", TRUE)

\* A refusal that claims certainty came before any push of the call
\* (call_task: it is still certain that this call sent no task).
RefusedIsUnsent ==
  \A c \in Calls : call[c].answer \in {"invalid", "busy", "unadmitted"} => c \notin pushed

\* Published tasks are never replaced: task ids are first come, first served
\* across clones, and lost answers and retries change nothing.
NeverReplaced ==
  \A t \in Tasks : remote.tasks[t] # None => remote'.tasks[t] = remote.tasks[t]

\* A success is not reported from a snapshot that also holds a conflict
\* record of the task (_wait_for_result_locked looks for it first).
SuccessUnqualified ==
  \A c \in Calls :
    call'[c].answer = "succeeded" /\ call[c].answer # "succeeded" =>
      view[CloneOf[c]].conflicts[Digest(c)] = None

============================================================================
