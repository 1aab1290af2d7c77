------------------------------- MODULE Mailbox -------------------------------
(***************************************************************************)
(* The local worker and its Git mailbox (local_hand/worker.py and          *)
(* mailbox_safety.py): one poll publishes the outbox, synchronises the     *)
(* checkout, and visits every task file once.                              *)
(*                                                                         *)
(* The remote branch is changed by others at any time: a controller adds a *)
(* task or replaces its text, somebody commits a result.  A push is        *)
(* refused when the branch moved and may be delivered without an answer.   *)
(* The worker stops at any step (a crash, or an exception that ends the    *)
(* poll) and starts again with what its files hold.  The instance lock     *)
(* keeps a second worker off the state directory.                          *)
(***************************************************************************)
EXTENDS Naturals, FiniteSets

CONSTANTS
  Tasks,        \* task_id
  Digests,      \* digests of task texts; a digest binds its task_id
  TaskOf,       \* [Digests -> Tasks]
  None,         \* no record (a model value)
  Valid,        \* digests whose task passes validate_task
  PushAttempts, \* MAILBOX_PUSH_ATTEMPTS
  MaxStops,     \* bound: polls that end early (not in the code)
  MaxForeign    \* bound: results committed by others (not in the code)

TasksAssumption == TaskOf \in [Digests -> Tasks] /\ Valid \subseteq Digests
BoundsAssumption == /\ PushAttempts \in Nat \ {0}
                           /\ MaxStops \in Nat /\ MaxForeign \in Nat

VARIABLES
  remote,     \* the branch: tasks, results, conflicts
  view,       \* the checkout: the branch as last fetched
  left,       \* the record a push left in the checkout, untracked or committed
  outbox,     \* pending records, by task (results) or digest (conflicts)
  receipts,   \* per task: digest and result
  markers,    \* per digest: the conflict recorded locally
  pc, cur,    \* the step, and the outbox name or the digest it is at
  new,        \* the record being written
  queue, todo, back, attempt,   \* the loops of publish_outbox and process_once
  executed,   \* history: executions per digest
  stops, foreign

vars == <<remote, view, left, outbox, receipts, markers, pc, cur, new, queue, todo, back, attempt,
          executed, stops, foreign>>
files == <<outbox, receipts, markers, left>>
loop == <<queue, todo, back, attempt>>
others == <<executed, stops, foreign>>

Rec(d, kind) == [digest |-> d, kind |-> kind]
Invalid == Rec(None, "invalid")
Names == Tasks \cup Digests
Goto(step) == pc' = step

\* _route_outbox_target: results by task, conflicts by digest.
At(tree, n) == IF n \in Tasks THEN tree.results[n] ELSE tree.conflicts[n]
With(tree, n, rec) ==
  IF n \in Tasks THEN [tree EXCEPT !.results[n] = rec] ELSE [tree EXCEPT !.conflicts[n] = rec]

-----------------------------------------------------------------------------
(* publish_outbox; back is where the poll goes on.                           *)

\* The names pending when the call begins.
Publish(then) ==
  /\ pc' = "next" /\ back' = then /\ queue' = {n \in Names : outbox'[n] # None}

PollStarts ==
  /\ pc = "idle" /\ UNCHANGED <<files, remote, view, cur, new, todo, attempt, others>>
  /\ Publish("sync")

PublishNext ==
  /\ pc = "next"
  /\ IF queue = {}
       THEN Goto(back) /\ UNCHANGED <<cur, queue, attempt>>
       ELSE \E n \in queue : cur' = n /\ queue' = queue \ {n} /\ attempt' = 1 /\ Goto("fetch")
  /\ UNCHANGED <<files, remote, view, new, todo, back, others>>

\* recover_mailbox_git_state and _preserve_untracked_control_files: the checkout
\* is only what was fetched; abandoned files are moved away, commits reset.
Preserve(tree) == view' = tree /\ left' = None

\* sync_mailbox: recover the checkout, fetch, admit the tree, reset to it.
Fetch ==
  /\ pc = "fetch" /\ Preserve(remote) /\ Goto("compare")
  /\ UNCHANGED <<outbox, receipts, markers, remote, cur, new, loop, others>>

\* _publish_conflict_from_collision and ..._from_invalid_remote.
CollisionRecord(local, there) ==
  Rec(local.digest, IF there = Invalid THEN "remote invalid" ELSE "collision")

\* An occupied target: the same record is delivered; another one is kept, the
\* local one quarantined, for a result with a conflict record first.
Compare ==
  LET there == At(view, cur)   local == outbox[cur] IN
  /\ pc = "compare"
  /\ IF there = None THEN Goto("create") /\ UNCHANGED <<outbox, new>>
     ELSE IF there = local \/ cur \in Digests
       THEN Goto("next") /\ outbox' = [outbox EXCEPT ![cur] = None] /\ UNCHANGED new
       ELSE /\ Goto("quarantine") /\ UNCHANGED new
            /\ outbox' = [outbox EXCEPT ![local.digest] =
                            CollisionRecord(local, there)]
  /\ UNCHANGED <<left, receipts, markers, remote, view, cur, loop, others>>

QuarantineLocal ==
  /\ pc = "quarantine" /\ Goto("next") /\ outbox' = [outbox EXCEPT ![cur] = None]
  /\ UNCHANGED <<left, receipts, markers, remote, view, cur, new, loop, others>>

\* The file is created exclusively in the checkout and committed there.
Create ==
  /\ pc = "create" /\ left' = <<cur, outbox[cur]>> /\ Goto("push")
  /\ UNCHANGED <<outbox, receipts, markers, remote, view, cur, new, loop, others>>

\* The push: delivered, refused because the branch moved, or unconfirmed.
Push ==
  /\ pc = "push" /\ UNCHANGED <<files, view, cur, new, queue, todo, back, executed, foreign>>
  /\ \/ /\ remote = view /\ remote' = With(view, cur, outbox[cur])
        /\ Goto("unlink") /\ UNCHANGED <<attempt, stops>>
     \/ /\ remote # view /\ attempt < PushAttempts /\ attempt' = attempt + 1
        /\ Goto("fetch") /\ UNCHANGED <<remote, stops>>
     \/ /\ remote # view /\ attempt = PushAttempts
        /\ Goto("idle") /\ UNCHANGED <<remote, attempt, stops>>
     \/ /\ remote = view /\ stops < MaxStops /\ stops' = stops + 1
        /\ remote' = With(view, cur, outbox[cur]) /\ Goto("idle") /\ UNCHANGED attempt

Unlink ==
  /\ pc = "unlink" /\ outbox' = [outbox EXCEPT ![cur] = None] /\ Goto("next")
  /\ UNCHANGED <<left, receipts, markers, remote, view, cur, new, loop, others>>

-----------------------------------------------------------------------------
(* process_once                                                              *)

Sync ==
  /\ pc = "sync" /\ Preserve(remote) /\ Goto("tasks")
  /\ todo' = {t \in Tasks : remote.tasks[t] # None}
  /\ UNCHANGED <<outbox, receipts, markers, remote, cur, new, queue, back, attempt, others>>

PollEnds ==
  /\ pc = "tasks" /\ todo = {} /\ Goto("idle")
  /\ UNCHANGED <<files, remote, view, cur, new, loop, others>>

\* The task file at hand; the next four actions are the branches of its visit.
Trusted(t, d) == TaskOf[d] = t     \* _trusted_local_identity
At1(t, d) ==
  /\ pc = "tasks" /\ t \in todo /\ d = view.tasks[t] /\ Trusted(t, d)
  /\ cur' = d /\ todo' = todo \ {t}
Skip == pc' = "tasks" /\ UNCHANGED <<queue, back>>

\* _recover_task_conflict: a recorded conflict is delivered again unless the
\* branch has it; any other record there, or pending, ends the poll.
VisitMarked(t, d) ==
  LET there == view.conflicts[d] IN
  /\ At1(t, d) /\ markers[d] # None
  /\ IF there = markers[d] THEN Skip /\ UNCHANGED outbox
     ELSE IF there # None \/ outbox[d] \notin {None, markers[d]}
       THEN Goto("idle") /\ UNCHANGED <<outbox, queue, back>>
       ELSE outbox' = [outbox EXCEPT ![d] = markers[d]] /\ Publish("tasks")
  /\ UNCHANGED <<left, receipts, markers, remote, view, new, attempt, others>>

\* A conflict on the branch is a barrier against execution: it is recorded here.
VisitConflict(t, d) ==
  /\ At1(t, d) /\ markers[d] = None /\ view.conflicts[d] # None
  /\ markers' = [markers EXCEPT ![d] = view.conflicts[d]] /\ Skip
  /\ UNCHANGED <<left, outbox, receipts, remote, view, new, attempt, others>>

\* _quarantine_task_conflict: the local record first, then the outbox.
Mark(d, kind) == new' = Rec(d, kind) /\ Goto("mark") /\ UNCHANGED <<queue, back>>

\* What a present result means for this task (_load_remote_or_quarantine).
Trouble(d, there) ==
  IF there = Invalid THEN "remote invalid" ELSE IF there.digest # d THEN "digest" ELSE None

\* _validate_receipt: the receipt is of this text.
Receipted(t, d) == receipts[t].digest = d

\* Fault: an intent without a result is taken for a task that never began.
VisitReceiptReplays(t, d) ==
  LET mine == receipts[t]   there == view.results[t] IN
  /\ At1(t, d) /\ markers[d] = None /\ view.conflicts[d] = None /\ mine # None
  /\ IF mine.digest = d /\ there = None /\ mine.result = None
       THEN Goto("execute") /\ UNCHANGED <<receipts, queue, back>>
       ELSE Skip /\ UNCHANGED receipts
  /\ UNCHANGED <<left, outbox, markers, remote, view, new, attempt, others>>

\* With a receipt: a result on the branch completes or contradicts it; without
\* one the saved result is delivered again, or the outcome is unknown.
VisitReceipt(t, d) ==
  LET mine == receipts[t]   there == view.results[t] IN
  /\ At1(t, d) /\ markers[d] = None /\ view.conflicts[d] = None /\ mine # None
  /\ \/ /\ ~Receipted(t, d) /\ Mark(d, "receipt") /\ UNCHANGED <<outbox, receipts>>
     \/ /\ Receipted(t, d) /\ there # None
        /\ IF Trouble(d, there) # None
             THEN Mark(d, Trouble(d, there)) /\ UNCHANGED <<outbox, receipts>>
             ELSE IF mine.result = None
               THEN receipts' = [receipts EXCEPT ![t].result = there] /\ Skip /\ UNCHANGED <<outbox, new>>
               ELSE IF mine.result # there
                 THEN Mark(d, "content") /\ UNCHANGED <<outbox, receipts>>
                 ELSE Skip /\ UNCHANGED <<outbox, receipts, new>>
     \/ /\ Receipted(t, d) /\ there = None /\ mine.result # None
        /\ outbox' = [outbox EXCEPT ![t] = mine.result] /\ Publish("tasks")
        /\ UNCHANGED <<receipts, new>>
     \/ /\ Receipted(t, d) /\ there = None /\ mine.result = None
        /\ new' = Rec(d, "unknown") /\ Goto("persist") /\ UNCHANGED <<outbox, receipts, queue, back>>
  /\ UNCHANGED <<left, markers, remote, view, attempt, others>>

\* Without a receipt: a result on the branch is taken over or quarantined; an
\* invalid task is rejected; else the intent is recorded before the execution.
VisitNew(t, d) ==
  LET there == view.results[t]   started(result) == [digest |-> d, result |-> result] IN
  /\ At1(t, d) /\ markers[d] = None /\ view.conflicts[d] = None /\ receipts[t] = None
  /\ IF there # None
       THEN IF Trouble(d, there) # None THEN Mark(d, Trouble(d, there)) /\ UNCHANGED receipts
            ELSE receipts' = [receipts EXCEPT ![t] = started(there)] /\ Skip /\ UNCHANGED new
       ELSE IF d \notin Valid
         THEN new' = Rec(d, "rejected") /\ Goto("persist") /\ UNCHANGED <<receipts, queue, back>>
         ELSE /\ receipts' = [receipts EXCEPT ![t] = started(None)]
              /\ Goto("execute") /\ UNCHANGED <<new, queue, back>>
  /\ UNCHANGED <<left, outbox, markers, remote, view, attempt, others>>

WriteMarker ==
  /\ pc = "mark" /\ markers' = [markers EXCEPT ![cur] = new] /\ Goto("marked")
  /\ UNCHANGED <<left, outbox, receipts, remote, view, cur, new, loop, others>>

WriteConflict ==
  /\ pc = "marked" /\ outbox' = [outbox EXCEPT ![cur] = new] /\ Publish("tasks")
  /\ UNCHANGED <<left, receipts, markers, remote, view, cur, new, todo, attempt, others>>

\* execute_task: the effect of the handler, whatever its result.
Execute ==
  /\ pc = "execute" /\ executed' = [executed EXCEPT ![cur] = @ + 1]
  /\ new' = Rec(cur, "done") /\ Goto("persist")
  /\ UNCHANGED <<files, remote, view, cur, loop, stops, foreign>>

\* _persist_result: outbox, then receipt, then publish.
Persist ==
  /\ pc = "persist" /\ outbox' = [outbox EXCEPT ![TaskOf[cur]] = new] /\ Goto("receipt")
  /\ UNCHANGED <<left, receipts, markers, remote, view, cur, new, loop, others>>

WriteReceipt ==
  /\ pc = "receipt"
  /\ receipts' = [receipts EXCEPT ![TaskOf[cur]] = [digest |-> cur, result |-> new]]
  /\ UNCHANGED <<left, outbox, markers, remote, view, cur, new, todo, attempt, others>> /\ Publish("tasks")

\* A crash, or an exception that ends the poll: the files are what is left.
StopPoll ==
  /\ pc # "idle" /\ stops < MaxStops /\ stops' = stops + 1 /\ Goto("idle")
  /\ UNCHANGED <<files, remote, view, cur, new, loop, executed, foreign>>

-----------------------------------------------------------------------------
(* Others on the branch                                                      *)

\* The controller's file for a task, also another text under the same task_id.
SubmitTask(d) ==
  /\ remote.tasks[TaskOf[d]] # d /\ remote' = [remote EXCEPT !.tasks[TaskOf[d]] = d]
  /\ foreign < MaxForeign /\ foreign' = foreign + 1
  /\ UNCHANGED <<view, files, pc, cur, new, loop, executed, stops>>

ForeignResult(t) ==
  /\ foreign < MaxForeign /\ foreign' = foreign + 1 /\ remote.results[t] = None
  /\ \E rec \in {Rec(d, "foreign") : d \in {e \in Digests : TaskOf[e] = t}} \cup {Invalid} :
       remote' = [remote EXCEPT !.results[t] = rec]
  /\ UNCHANGED <<view, files, pc, cur, new, loop, executed, stops>>

Init ==
  /\ remote \in {[tasks |-> f, results |-> [t \in Tasks |-> None], conflicts |-> [d \in Digests |-> None]] :
                   f \in {g \in [Tasks -> Digests] : \A t \in Tasks : TaskOf[g[t]] = t}}
  /\ view = remote /\ left = None /\ outbox = [n \in Names |-> None] /\ receipts = [t \in Tasks |-> None]
  /\ markers = [d \in Digests |-> None] /\ pc = "idle" /\ cur = None /\ new = None
  /\ queue = {} /\ todo = {} /\ back = "sync" /\ attempt = 1
  /\ executed = [d \in Digests |-> 0] /\ stops = 0 /\ foreign = 0

Visit == \E t \in Tasks, d \in Digests :
           VisitMarked(t, d) \/ VisitConflict(t, d) \/ VisitReceipt(t, d) \/ VisitNew(t, d)
Worker == \/ PollStarts \/ PublishNext \/ Fetch \/ Compare \/ QuarantineLocal \/ Create \/ Push \/ Unlink
          \/ Sync \/ PollEnds \/ Visit \/ WriteMarker \/ WriteConflict
          \/ Execute \/ Persist \/ WriteReceipt
Next == Worker \/ StopPoll \/ (\E d \in Digests : SubmitTask(d)) \/ (\E t \in Tasks : ForeignResult(t))

Spec == Init /\ [][Next]_vars
\* The worker polls for ever.
FairSpec == Spec /\ WF_vars(Worker)

-----------------------------------------------------------------------------
\* The form of the files and of the branch.
TypeOK ==
  /\ \A t \in Tasks : receipts[t] # None => receipts[t].digest \in Digests
  /\ \A t \in Tasks : outbox[t] # None => TaskOf[outbox[t].digest] = t
  /\ \A d \in Digests : \A rec \in {outbox[d], markers[d], remote.conflicts[d]} :
       rec # None => rec.digest = d /\ rec.kind \notin {"done", "foreign"}
  /\ queue \subseteq Names /\ todo \subseteq Tasks /\ attempt \in 1..PushAttempts

\* A task_id is executed at most once, over crashes, undelivered results, foreign
\* results and another text under the same id (process_once's receipts).
ExecutedOnce ==
  \A d, e \in Digests : executed[d] <= 1 /\ (executed[d] = 1 /\ executed[e] = 1 /\ TaskOf[d] = TaskOf[e] => d = e)

\* A result of this node on the branch is true of the execution: done only after
\* it, and rejected only when the task never ran.
ResultsAreTrue ==
  \A t \in Tasks : LET rec == remote.results[t] IN
    rec # None => /\ rec.kind = "done" => executed[rec.digest] = 1
                  /\ rec.kind = "rejected" => executed[rec.digest] = 0

\* What the branch holds as a result is never replaced: two writers race with fetch, commit and push.
NeverReplaced ==
  \A t \in Tasks : remote.results[t] # None => remote'.results[t] = remote.results[t]

\* When the branch has another result than the receipt's, a conflict record for
\* the text comes to the branch too: a difference is never silent.
DifferenceIsReported ==
  \A t \in Tasks, d \in Digests :
    (/\ remote.tasks[t] = d /\ receipts[t] # None /\ receipts[t].digest = d
     /\ None \notin {receipts[t].result, remote.results[t]} /\ receipts[t].result # remote.results[t])
      ~> (remote.conflicts[d] # None \/ remote.tasks[t] # d)

\* An execution is answered: its task gets a result or a conflict record.
ExecutionAnswered ==
  \A d \in Digests : (executed[d] = 1) ~>
     \/ remote.results[TaskOf[d]] # None \/ remote.conflicts[d] # None
     \/ remote.tasks[TaskOf[d]] # d

=============================================================================
