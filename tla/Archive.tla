------------------------------ MODULE Archive ------------------------------
(***************************************************************************)
(* The local archive of completed evidence (local_hand_jobs/               *)
(* artifact_archive.py): a store directory with one staged request per     *)
(* task, one reservation per task with the receipts of its two ledger      *)
(* operations, an initialization marker and the ledger database.           *)
(*                                                                         *)
(* Calls hold the store's lock, so at most one is under way.  A directory  *)
(* is published by a rename and synchronised afterwards: until then a      *)
(* power loss may take it back.  Operators may lose a part of the store,   *)
(* copy an older database over the present one or put another file in its  *)
(* place; the archive must then refuse, or go on with the same version.    *)
(* The evidence of a request is identified with its random token.          *)
(***************************************************************************)
EXTENDS Naturals, FiniteSets

CONSTANTS
  Tasks,        \* producer and operation identifiers
  Losses,       \* the kinds of loss that may happen, see Lose
  MaxFaults,    \* bound: interrupted calls, power losses, losses, remounts
  MaxTokens,    \* bound: staged requests (tokens are random in the code)
  MaxFiles,     \* bound: database files
  Legacy,       \* the store was created before filesystem bindings
  None

BoundsAssumption == {MaxFaults, MaxTokens, MaxFiles} \subseteq Nat
LegacyAssumption == Legacy \in BOOLEAN

VARIABLES
  task,         \* per task: the token of its staged request, or None
  reservation,  \* per task: token and database identity, or None
  receipt,      \* per task: operations with a commit receipt
  marker,       \* database-initialized: identity, fs (filesystem binding), or None
  bound,        \* database files with a recovery binding
  fresh,        \* names that are visible but not synchronised
  db,           \* ledger.sqlite: file and committed operations, or None
  dev,          \* device number of the mounted filesystem
  call,         \* the call that holds the lock
  checkpoint,   \* the last recovery checkpoint, or None
  past,         \* contents the ledger has had
  tokens, files, faults,
  executed,     \* history: <<task, operation, token>> ever committed
  acked,        \* history: <<task, token>> answered ARCHIVED
  lost          \* history: kinds of loss that happened

store == <<task, reservation, receipt, marker, bound, fresh>>
history == <<tokens, files, faults, executed, acked, lost>>
vars == <<store, db, dev, call, checkpoint, past, history>>

Kinds == {"create", "append"}
Receipting == [create |-> "receipt create", append |-> "receipt append"]
Syncing == [create |-> "sync create", append |-> "sync append"]
Idle == [pc |-> "idle", task |-> None]
At(step) == call.pc = step
Goto(step) == call' = [call EXCEPT !.pc = step]
End == call' = Idle

\* Names in the store directory and those below the marker or a reservation.
Receipt(t, k) == <<"receipt", t, k>>
RootNames == {<<"task", t>> : t \in Tasks} \cup {<<"reservation", t>> : t \in Tasks} \cup {<<"marker">>}

Published == {<<"task", t>> : t \in {u \in Tasks : task[u] # None}}
             \cup {<<"reservation", t>> : t \in {u \in Tasks : reservation[u] # None}}
             \cup {Receipt(p[1], p[2]) : p \in {q \in Tasks \X Kinds : q[2] \in receipt[q[1]]}}
             \cup {<<"bound", f>> : f \in bound} \cup (IF marker = None THEN {} ELSE {<<"marker">>})

-----------------------------------------------------------------------------
(* Identities of the database                                               *)

\* The file and device; a binding makes the device number irrelevant.
Physical == [dev |-> dev, file |-> db.file]

OriginalIdentity == IF marker = None THEN None ELSE marker.id
FilesystemBound == marker # None /\ marker.fs

DatabaseIdentity ==
  IF db.file \in bound THEN OriginalIdentity
  ELSE IF ~FilesystemBound THEN Physical
  ELSE IF marker.id.file = db.file THEN marker.id ELSE None

\* _database: what it refuses.  Without a database and without a marker it
\* creates one; a populated database without its marker is not adopted.
DatabaseOpens(create) ==
  IF db = None THEN create /\ marker = None /\ files < MaxFiles
  ELSE IF marker = None THEN db.ops = {} ELSE DatabaseIdentity = OriginalIdentity

\* The operations of a request carry its token; the scope is the task.
Request(t, k, token) == <<t, k, token>>

OperationOf(t, k) == {op \in db.ops : op[1] = t /\ op[2] = k}

\* _ensure_operation on an operation that is stored, and on the receipts that
\* prove it must be: an append receipt also vouches for the create.
Stored(t, k, token) == OperationOf(t, k) = {Request(t, k, token)}
MustExist(t, k) == k \in receipt[t] \/ (k = "create" /\ "append" \in receipt[t])

\* _reserve_task without creating.
ReservationFits(t) ==
  reservation[t] # None => db # None /\ reservation[t] = [token |-> task[t], id |-> DatabaseIdentity]

-----------------------------------------------------------------------------
(* archive_result and resume_archive                                        *)

\* _check_new_task: no reservation and no committed operation of the task.
CheckNewTask(t) ==
  /\ reservation[t] = None
  /\ db # None \/ marker # None => db # None /\ DatabaseOpens(FALSE) /\ \A k \in Kinds : OperationOf(t, k) = {}

\* A first call stages the request under a new token, a later one resumes it.
ArchiveResult(t) ==
  /\ At("idle") /\ task[t] = None /\ CheckNewTask(t) /\ tokens < MaxTokens
  /\ tokens' = tokens + 1 /\ task' = [task EXCEPT ![t] = tokens']
  /\ fresh' = fresh \cup {<<"task", t>>} /\ call' = [pc |-> "resume", task |-> t]
  /\ UNCHANGED <<reservation, receipt, marker, bound, db, dev, checkpoint, past, files, faults, executed, acked, lost>>

ResumeArchive(t) ==
  /\ At("idle") /\ task[t] # None /\ call' = [pc |-> "resume", task |-> t]
  /\ UNCHANGED <<store, db, dev, checkpoint, past, history>>

\* _resume_locked: the directory of the store is synchronised, the request is
\* read back, and its reservation is compared before a database can be created.
ResumeLocked(t) ==
  /\ At("resume") /\ call.task = t
  /\ fresh' = fresh \ RootNames
  /\ IF task[t] # None /\ ReservationFits(t) THEN Goto("database") ELSE End
  /\ UNCHANGED <<task, reservation, receipt, marker, bound, db, dev, checkpoint, past, history>>

Database ==
  /\ At("database")
  /\ IF DatabaseOpens(TRUE)
       THEN /\ Goto("marker")
            /\ files' = IF db = None THEN files + 1 ELSE files
            /\ db' = IF db = None THEN [file |-> files', ops |-> {}] ELSE db
       ELSE End /\ UNCHANGED <<db, files>>
  /\ UNCHANGED <<store, dev, checkpoint, past, tokens, faults, executed, acked, lost>>

\* The fence that keeps a lost database from being created again.
PublishMarker ==
  /\ At("marker") /\ Goto("marker_sync")
  /\ IF marker = None
       THEN marker' = [id |-> Physical, fs |-> TRUE] /\ fresh' = fresh \cup {<<"marker">>}
       ELSE UNCHANGED <<marker, fresh>>
  /\ UNCHANGED <<task, reservation, receipt, bound, db, dev, checkpoint, past, history>>

SyncMarker ==
  /\ At("marker_sync") /\ Goto("reserve") /\ fresh' = fresh \ RootNames
  /\ UNCHANGED <<task, reservation, receipt, marker, bound, db, dev, checkpoint, past, history>>

\* _reserve_task: the independent guard, before either transaction.
ReserveTask(t) ==
  /\ At("reserve") /\ call.task = t
  /\ IF ~ReservationFits(t) THEN End /\ UNCHANGED <<reservation, fresh>>
     ELSE /\ Goto("reserve_sync")
          /\ IF reservation[t] = None
               THEN /\ reservation' = [reservation EXCEPT ![t] = [token |-> task[t], id |-> DatabaseIdentity]]
                    /\ fresh' = fresh \cup {<<"reservation", t>>}
               ELSE UNCHANGED <<reservation, fresh>>
  /\ UNCHANGED <<task, receipt, marker, bound, db, dev, checkpoint, past, history>>

\* Fault: a reservation that is found is taken as durable.
KeepReservation ==
  /\ At("reserve_sync") /\ Goto("create")
  /\ UNCHANGED <<store, db, dev, checkpoint, past, history>>

SyncReservation ==
  /\ At("reserve_sync") /\ Goto("create") /\ fresh' = fresh \ RootNames
  /\ UNCHANGED <<task, reservation, receipt, marker, bound, db, dev, checkpoint, past, history>>

\* _ensure_operation: a stored operation is compared, a missing one is executed
\* only when nothing proves that it was committed before.
EnsureOperation(t, k) ==
  /\ At(k) /\ call.task = t
  /\ LET op == Request(t, k, task[t]) IN
     \/ Stored(t, k, task[t]) /\ Goto(Receipting[k]) /\ UNCHANGED <<db, past, executed>>
     \/ /\ OperationOf(t, k) = {} /\ ~MustExist(t, k) /\ Goto(Receipting[k])
        /\ db' = [db EXCEPT !.ops = @ \cup {op}] /\ past' = past \cup {db'.ops}
        /\ executed' = executed \cup {op}
     \/ /\ OperationOf(t, k) # {} \/ MustExist(t, k)
        /\ ~Stored(t, k, task[t]) /\ End /\ UNCHANGED <<db, past, executed>>
  /\ UNCHANGED <<store, dev, checkpoint, tokens, files, faults, acked, lost>>

PublishReceipt(t, k) ==
  /\ At(Receipting[k]) /\ call.task = t /\ Goto(Syncing[k])
  /\ IF k \in receipt[t] THEN UNCHANGED <<receipt, fresh>>
     ELSE /\ receipt' = [receipt EXCEPT ![t] = @ \cup {k}]
          /\ fresh' = fresh \cup {Receipt(t, k)}
  /\ UNCHANGED <<task, reservation, marker, bound, db, dev, checkpoint, past, history>>

SyncReceipt(t, k) ==
  /\ At(Syncing[k]) /\ call.task = t
  /\ Goto(IF k = "create" THEN "append" ELSE "load") /\ fresh' = fresh \ {Receipt(t, k)}
  /\ UNCHANGED <<task, reservation, receipt, marker, bound, db, dev, checkpoint, past, history>>

\* _load_version: the version is read back before the call answers.
LoadVersion(t) ==
  /\ At("load") /\ call.task = t /\ End
  /\ acked' = IF \A k \in Kinds : Stored(t, k, task[t]) THEN acked \cup {<<t, task[t]>>} ELSE acked
  /\ UNCHANGED <<store, db, dev, checkpoint, past, tokens, files, faults, executed, lost>>

-----------------------------------------------------------------------------
(* Maintenance: one action per command, under the same lock                  *)

\* bind_filesystem: a legacy store gets its binding for the file it was created
\* with, when reservations and receipts agree with the ledger.
BindFilesystem ==
  /\ At("idle") /\ marker # None /\ ~marker.fs /\ db # None
  /\ marker.id.file = db.file
  /\ \A t \in Tasks : reservation[t] # None =>
        /\ task[t] = reservation[t].token /\ reservation[t].id = marker.id
        /\ \A k \in Kinds : MustExist(t, k) => Stored(t, k, task[t])
  /\ marker' = [marker EXCEPT !.fs = TRUE]
  /\ UNCHANGED <<task, reservation, receipt, bound, fresh, db, dev, call, checkpoint, past, history>>

\* _archive_metadata_digest: everything published except the given binding.
Metadata(ignore) == [task |-> task, reservation |-> reservation, receipt |-> receipt,
                     marker |-> marker, bound |-> bound \ ignore]

\* _verify_recovery_requests: what was confirmed is stored, what is stored has
\* its request, and nothing else is in the ledger.
VerifyRecoveryRequests ==
  /\ \A t \in Tasks : reservation[t] # None =>
       task[t] # None /\ reservation[t] = [token |-> task[t], id |-> marker.id]
  /\ \A t \in Tasks, k \in Kinds : task[t] # None =>
       IF OperationOf(t, k) = {}
         THEN ~MustExist(t, k) /\ (k = "create" => OperationOf(t, "append") = {})
         ELSE Stored(t, k, task[t])
  /\ \A op \in db.ops : task[op[1]] # None

RecoveryCheckpoint ==
  /\ At("idle") /\ db # None /\ marker # None /\ DatabaseOpens(FALSE) /\ VerifyRecoveryRequests
  /\ checkpoint' = [id |-> marker.id, metadata |-> Metadata({}), ops |-> db.ops]
  /\ UNCHANGED <<store, db, dev, call, past, history>>

\* bind_restored: a file in the place of the database is bound to the identity
\* of the original when files and ledger are those of the trusted checkpoint.
BindRestored ==
  /\ At("idle") /\ db # None /\ marker # None /\ checkpoint # None /\ checkpoint.id = marker.id
  /\ Metadata({db.file}) = checkpoint.metadata
  /\ VerifyRecoveryRequests /\ db.ops = checkpoint.ops
  /\ bound' = bound \cup {db.file}
  /\ \/ UNCHANGED fresh
     \/ fresh' = fresh \cup {<<"bound", db.file>>}
  /\ UNCHANGED <<task, reservation, receipt, marker, db, dev, call, checkpoint, past, history>>

-----------------------------------------------------------------------------
(* What happens to the store                                                 *)

Fault == faults < MaxFaults /\ faults' = faults + 1

\* The call is killed, or one of its reads and writes fails.
Die ==
  /\ ~At("idle") /\ Fault /\ End
  /\ UNCHANGED <<store, db, dev, checkpoint, past, tokens, files, executed, acked, lost>>

\* Forget removes published names with everything below them.
Forget(names) ==
  LET gone(t) == <<"reservation", t>> \in names IN
  /\ task' = [t \in Tasks |-> IF <<"task", t>> \in names THEN None ELSE task[t]]
  /\ reservation' = [t \in Tasks |-> IF gone(t) THEN None ELSE reservation[t]]
  /\ receipt' = [t \in Tasks |-> IF gone(t) THEN {} ELSE {k \in receipt[t] : Receipt(t, k) \notin names}]
  /\ marker' = IF <<"marker">> \in names THEN None ELSE marker
  /\ bound' = IF <<"marker">> \in names THEN {} ELSE {f \in bound : <<"bound", f>> \notin names}

PowerLoss ==
  /\ fresh # {} /\ Fault /\ End /\ fresh' = {}
  /\ \E names \in SUBSET fresh : names # {} /\ Forget(names)
  /\ UNCHANGED <<db, dev, checkpoint, past, tokens, files, executed, acked, lost>>

\* A part of the store is lost, between calls.
Lose(kind) ==
  /\ At("idle") /\ kind \in Losses /\ Fault /\ lost' = lost \cup {kind}
  /\ \/ /\ UNCHANGED <<db, files>>
        /\ \/ kind = "task" /\ \E t \in Tasks : task[t] # None /\ Forget({<<"task", t>>})
           \/ kind = "reservation" /\ \E t \in Tasks : reservation[t] # None /\ Forget({<<"reservation", t>>})
           \/ kind = "receipt" /\ \E t \in Tasks, k \in Kinds : k \in receipt[t] /\ Forget({Receipt(t, k)})
           \/ kind = "marker" /\ marker # None /\ Forget({<<"marker">>})
        /\ fresh' = fresh \cap Published'
     \/ /\ UNCHANGED store
        /\ \/ kind = "database" /\ db # None /\ db' = None /\ UNCHANGED files
           \/ /\ kind = "rollback" /\ db # None /\ UNCHANGED files
              /\ \E ops \in past : db' = [db EXCEPT !.ops = ops]
           \/ /\ kind = "replace" /\ files < MaxFiles /\ files' = files + 1
              /\ \E ops \in past : db' = [file |-> files', ops |-> ops]
  /\ UNCHANGED <<dev, call, checkpoint, past, tokens, executed, acked>>

\* The filesystem gets another device number.
Remount ==
  /\ At("idle") /\ dev = 0 /\ Fault /\ dev' = 1
  /\ UNCHANGED <<store, db, call, checkpoint, past, tokens, files, executed, acked, lost>>

-----------------------------------------------------------------------------
Init ==
  /\ task = [t \in Tasks |-> None] /\ reservation = [t \in Tasks |-> None] /\ receipt = [t \in Tasks |-> {}]
  /\ fresh = {} /\ bound = {} /\ dev = 0 /\ call = Idle /\ checkpoint = None /\ past = {{}}
  /\ marker = IF Legacy THEN [id |-> [dev |-> 0, file |-> 1], fs |-> FALSE] ELSE None
  /\ db = IF Legacy THEN [file |-> 1, ops |-> {}] ELSE None
  /\ files = IF Legacy THEN 1 ELSE 0
  /\ tokens = 0 /\ faults = 0 /\ executed = {} /\ acked = {} /\ lost = {}

Resume(t) ==
  \/ ResumeLocked(t) \/ ReserveTask(t) \/ LoadVersion(t)
  \/ \E k \in Kinds : EnsureOperation(t, k) \/ PublishReceipt(t, k) \/ SyncReceipt(t, k)
Steps == Database \/ PublishMarker \/ SyncMarker \/ SyncReservation \/ \E t \in Tasks : Resume(t)
Maintenance == BindFilesystem \/ RecoveryCheckpoint \/ BindRestored
Next ==
  \/ \E t \in Tasks : ArchiveResult(t) \/ ResumeArchive(t)
  \/ Steps \/ Maintenance
  \/ Die \/ PowerLoss \/ Remount \/ \E kind \in Losses : Lose(kind)

Spec == Init /\ [][Next]_vars

-----------------------------------------------------------------------------
(* Properties                                                               *)

\* The form of the store: only published names wait for their synchronisation,
\* and receipts lie below a reservation.
TypeOK ==
  /\ task \in [Tasks -> 1..MaxTokens \cup {None}]
  /\ fresh \subseteq Published
  /\ \A t \in Tasks : receipt[t] \subseteq Kinds /\ (receipt[t] # {} => reservation[t] # None)
  /\ executed \subseteq Tasks \X Kinds \X (1..MaxTokens)

\* A task has one version: its operations were only ever executed under one
\* token, whatever two interruptions, power losses or losses come together.
OneVersion == \A a, b \in executed : a[1] = b[1] => a[3] = b[3]

\* Nothing is committed in the ledger before request, reservation and marker are
\* safe from a power loss.
CommitIsCovered ==
  \A op \in executed' \ executed :
    {<<"task", op[1]>>, <<"reservation", op[1]>>, <<"marker">>} \subseteq Published \ fresh

\* A database that held an answered archive is never created again in its place.
NeverRecreated ==
  (At("database") /\ db = None /\ db' # None) => acked = {} \/ "marker" \in lost

\* An operation with a receipt that was not lost is never executed again.
ConfirmedOnce ==
  \A t \in Tasks, k \in Kinds :
    At(k) /\ call.task = t /\ <<t, task[t]>> \in acked /\ lost \cap {"receipt", "reservation"} = {}
      => db' = db

\* A database is certified, as restored or for its filesystem, only when it has
\* every version that was answered and whose request and receipts are there.
CertifiedIsComplete ==
  (bound' \ bound # {} \/ (marker # None /\ marker' # None /\ ~marker.fs /\ marker'.fs)) =>
    \A a \in acked : task[a[1]] = a[2] /\ receipt[a[1]] = Kinds
                       => \A k \in Kinds : <<a[1], k, a[2]>> \in db.ops

=============================================================================
