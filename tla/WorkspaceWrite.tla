--------------------------- MODULE WorkspaceWrite ---------------------------
(***************************************************************************)
(* Writes to a registered repository: the worker's compare-and-swap        *)
(* (local_hand/act.py) and the local application of a verified edit        *)
(* (local_hand/workspace_apply.py), which uses it under its own lease.     *)
(*                                                                         *)
(* One file, HEAD with the file's index entry, and the rest of the        *)
(* checkout (the index of other files, their changes, untracked files).   *)
(* Each attempt has its own output directory and its own text to write.         *)
(* Writers that keep to the lease exclude each other; an editor outside    *)
(* does not know it, and the profile's single_writer only promises that he *)
(* stays out of the moment between the last comparison and the rename.     *)
(***************************************************************************)
EXTENDS Naturals, FiniteSets

CONSTANTS
  Writers,       \* processes that call one of the two operations once
  Appliers,      \* those of them that call apply_result
  Before,        \* the text each one read before
  After,         \* the text each one writes
  Outside,       \* texts an editor outside may write
  MaxEdits       \* bound: edits and Git operations outside (not in the code)

WritersAssumption == Appliers \subseteq Writers /\ DOMAIN Before = Writers /\ DOMAIN After = Writers
EditsAssumption == MaxEdits \in Nat

VARIABLES
  text,        \* the file's text
  synced,      \* the file with this text was synchronised
  checkout,    \* versions: tracked (HEAD and the file's index entry) and rest
  lease,       \* the writer that holds the repository's lock, or nobody
  pc,
  seen,        \* per writer: text and checkout it compared with
  saved,       \* per writer: files of its output directory
  report,      \* per writer: status, write_attempted
  wrote,       \* history: the writers that replaced the file
  edits

vars == <<text, synced, checkout, lease, pc, seen, saved, report, wrote, edits>>
repo == <<text, synced, checkout, edits, wrote>>

Nobody == "nobody"
Checkouts == [tracked : 0..MaxEdits, rest : 0..MaxEdits]
Texts == {Before[w] : w \in Writers} \cup {After[w] : w \in Writers} \cup Outside
NoReport == [status |-> "FAILED", attempted |-> FALSE]
Goto(w, step) == pc' = [pc EXCEPT ![w] = step]
\* Errors of apply_result lead to its final observation, those of a CAS end it.
Refuse(w, why) ==
  /\ Goto(w, IF w \in Appliers THEN "final" ELSE "end")
  /\ report' = [report EXCEPT ![w].status = why]
Save(w, name) == saved' = [saved EXCEPT ![w] = @ \cup {name}]

-----------------------------------------------------------------------------

\* _repository_write_lease: a lock that is held refuses the call.
Acquire(w) ==
  /\ pc[w] = "start"
  /\ IF lease = Nobody
       THEN /\ lease' = w /\ UNCHANGED report
            /\ Goto(w, IF w \in Appliers THEN "precheck" ELSE "read")
       ELSE UNCHANGED lease /\ Refuse(w, "FAILED")
  /\ UNCHANGED <<repo, seen, saved>>

\* apply_result before the write: the target is one of the two images and HEAD
\* and index fit; the baseline is taken.
Precheck(w) ==
  /\ pc[w] = "precheck" /\ UNCHANGED <<repo, lease, saved>>
  /\ \/ /\ text \in {Before[w], After[w]}
        /\ seen' = [seen EXCEPT ![w] = [text |-> text, checkout |-> checkout]]
        /\ Goto(w, "intent") /\ UNCHANGED report
     \/ UNCHANGED seen /\ Refuse(w, "CONFLICT")

\* The intent is durable before the checkout is compared again.
Intent(w) ==
  /\ pc[w] = "intent" /\ Save(w, "intent") /\ Goto(w, "recheck")
  /\ UNCHANGED <<repo, lease, seen, report>>

Recheck(w) ==
  /\ pc[w] = "recheck" /\ UNCHANGED <<repo, lease, seen, saved>>
  /\ IF checkout # seen[w].checkout THEN Refuse(w, "CONFLICT")
     ELSE IF seen[w].text = After[w] THEN Goto(w, "confirm") /\ UNCHANGED report
     ELSE Goto(w, "read") /\ report' = [report EXCEPT ![w].attempted = TRUE]

-----------------------------------------------------------------------------
(* fs_write_text_cas                                                         *)

\* The text that is wanted is there: nothing is written.  Another one than the
\* expected is stale.
ReadTarget(w) ==
  /\ pc[w] = "read" /\ UNCHANGED <<repo, lease, saved>>
  /\ seen' = [seen EXCEPT ![w].text = IF text = After[w] THEN text ELSE @]
  /\ IF text = After[w]
       THEN IF w \in Appliers THEN Goto(w, "confirm") /\ UNCHANGED report
            ELSE Goto(w, "end") /\ report' = [report EXCEPT ![w].status = "ALREADY_APPLIED"]
       ELSE IF text # Before[w] THEN Refuse(w, "CONFLICT") ELSE Goto(w, "reread") /\ UNCHANGED report

\* Fault: the temporary file is renamed without another comparison.
RereadTrusts(w) ==
  /\ pc[w] = "reread" /\ Goto(w, "replace")
  /\ UNCHANGED <<repo, lease, seen, saved, report>>

\* The temporary file is complete; the target is compared once more.
Reread(w) ==
  /\ pc[w] = "reread" /\ UNCHANGED <<repo, lease, seen, saved>>
  /\ \/ text = Before[w] /\ Goto(w, "replace") /\ UNCHANGED report
     \/ Refuse(w, IF text = Before[w] THEN "FAILED" ELSE "CONFLICT")

\* os.replace; its content was synchronised, the directory is next.
Replace(w) ==
  /\ pc[w] = "replace" /\ text' = After[w] /\ synced' = FALSE /\ wrote' = wrote \cup {w}
  /\ Goto(w, "sync") /\ UNCHANGED <<checkout, lease, seen, saved, report, edits>>

\* The directory and the read-back, or an outcome that is not confirmed.
ReadBack(w) ==
  /\ pc[w] = "sync" /\ UNCHANGED <<text, checkout, wrote, edits, lease, seen, saved>>
  /\ \/ /\ text = After[w] /\ synced' = TRUE
        /\ IF w \in Appliers THEN Goto(w, "checked") /\ UNCHANGED report
           ELSE Goto(w, "end") /\ report' = [report EXCEPT ![w].status = "APPLIED"]
     \/ UNCHANGED synced /\ Refuse(w, "UNCONFIRMED")

-----------------------------------------------------------------------------
(* apply_result after the write                                              *)

\* _confirm_existing: a text that was there is synchronised and read back.
Confirm(w) ==
  /\ pc[w] = "confirm" /\ UNCHANGED <<text, checkout, wrote, edits, lease, seen, saved>>
  /\ \/ text = After[w] /\ synced' = TRUE /\ Goto(w, "checked") /\ UNCHANGED report
     \/ UNCHANGED synced /\ Refuse(w, IF text = After[w] THEN "UNCONFIRMED" ELSE "CONFLICT")

\* The text and the whole checkout are as they were, under the lease.
Unchanged(w) == text = After[w] /\ checkout = seen[w].checkout /\ lease = w

\* Before the validation, which may write the file itself.
CheckBefore(w) ==
  /\ pc[w] = "checked" /\ UNCHANGED <<repo, lease, seen, saved>>
  /\ IF Unchanged(w) THEN Goto(w, "validate") /\ UNCHANGED report ELSE Refuse(w, "CONFLICT")

\* The validation may rewrite the file, with the same or another text.
Validate(w) ==
  /\ pc[w] = "validate" /\ UNCHANGED <<checkout, wrote, edits, lease, seen, saved>>
  /\ \/ UNCHANGED <<text, synced>>
     \/ text' \in {text} \cup Outside /\ synced' = FALSE
  /\ \/ Goto(w, "validated") /\ UNCHANGED report
     \/ Refuse(w, "VALIDATION_FAILED")

\* After it, only the text, HEAD and the file's index entry are compared.
CheckAfter(w) ==
  /\ pc[w] = "validated" /\ UNCHANGED <<repo, lease, seen, saved>>
  /\ IF text = After[w] /\ checkout.tracked = seen[w].checkout.tracked
       THEN Goto(w, "final") /\ report' = [report EXCEPT ![w].status =
                                  IF seen[w].text = After[w] THEN "ALREADY_APPLIED" ELSE "APPLIED"]
       ELSE Refuse(w, "CONFLICT")

Successful(w) == report[w].status \in {"APPLIED", "ALREADY_APPLIED"}

\* The final observation: a success needs the whole checkout as it was; reading
\* it may fail.  Failures keep their status, nothing is rolled back.
FinalCheck(w) ==
  /\ pc[w] = "final" /\ UNCHANGED <<repo, lease, seen, saved>>
  /\ \/ Successful(w) /\ Unchanged(w) /\ Goto(w, "final confirm") /\ UNCHANGED report
     \/ /\ Successful(w) /\ Goto(w, "report")
        /\ report' = [report EXCEPT ![w].status = IF Unchanged(w) THEN "UNCONFIRMED" ELSE "CONFLICT"]
     \/ ~Successful(w) /\ Goto(w, "report") /\ UNCHANGED report

\* _confirm_existing once more: the validation may have put another file there.
FinalConfirm(w) ==
  /\ pc[w] = "final confirm" /\ Goto(w, "report")
  /\ UNCHANGED <<text, checkout, wrote, edits, lease, seen, saved>>
  /\ \/ text = After[w] /\ lease = w /\ synced' = TRUE /\ UNCHANGED report
     \/ /\ UNCHANGED synced
        /\ report' = [report EXCEPT ![w].status = IF text = After[w] THEN "UNCONFIRMED" ELSE "CONFLICT"]

\* The lease is given back, then the report is saved; either may fail.
Report(w) ==
  /\ pc[w] = "report" /\ Goto(w, "end")
  /\ \/ Save(w, "report") /\ UNCHANGED report
     \/ /\ report' = [report EXCEPT ![w].status = "UNCONFIRMED"]
        /\ (UNCHANGED saved \/ Save(w, "report"))
  /\ lease' = IF lease = w THEN Nobody ELSE lease
  /\ UNCHANGED <<repo, seen>>

\* A CAS of its own gives its lease back when it ends.
Release(w) ==
  /\ pc[w] = "end" /\ lease = w /\ lease' = Nobody
  /\ UNCHANGED <<repo, pc, seen, saved, report>>

Die(w) ==
  /\ pc[w] \notin {"end", "dead"} /\ Goto(w, "dead")
  /\ lease' = IF lease = w THEN Nobody ELSE lease
  /\ UNCHANGED <<repo, seen, saved, report>>

-----------------------------------------------------------------------------
\* The editor outside, and Git operations; see the promise of single_writer.
Edit ==
  /\ edits < MaxEdits /\ edits' = edits + 1
  /\ \A w \in Writers : pc[w] # "replace"
  /\ \/ text' \in Outside /\ synced' = FALSE /\ UNCHANGED checkout
     \/ /\ \E part \in {"tracked", "rest"} : checkout' = [checkout EXCEPT ![part] = @ + 1]
        /\ UNCHANGED <<text, synced>>
  /\ UNCHANGED <<lease, pc, seen, saved, report, wrote>>

Init ==
  /\ text \in Texts /\ synced \in BOOLEAN /\ checkout = [tracked |-> 0, rest |-> 0] /\ lease = Nobody
  /\ pc = [w \in Writers |-> "start"]
  /\ seen = [w \in Writers |-> [text |-> Before[w], checkout |-> checkout]]
  /\ saved = [w \in Writers |-> {}] /\ report = [w \in Writers |-> NoReport]
  /\ wrote = {} /\ edits = 0

Cas(w) == ReadTarget(w) \/ Reread(w) \/ Replace(w) \/ ReadBack(w)
Apply(w) == \/ Precheck(w) \/ Intent(w) \/ Recheck(w) \/ Confirm(w) \/ CheckBefore(w)
            \/ Validate(w) \/ CheckAfter(w) \/ FinalCheck(w) \/ FinalConfirm(w) \/ Report(w)
Next == Edit \/ \E w \in Writers : Acquire(w) \/ Cas(w) \/ Apply(w) \/ Release(w) \/ Die(w)

Spec == Init /\ [][Next]_vars

-----------------------------------------------------------------------------
\* The form of the state; a writer in the middle holds the lease.
TypeOK ==
  /\ text \in Texts /\ synced \in BOOLEAN /\ checkout \in Checkouts /\ lease \in Writers \cup {Nobody}
  /\ saved \in [Writers -> SUBSET {"intent", "report"}] /\ wrote \subseteq Writers
  /\ \A w \in Writers : pc[w] \notin {"start", "final", "report", "end", "dead"} => lease = w

\* A write replaces only the text its writer expected: two writers, or an editor
\* between the first reading and the rename, lose no update.
NoLostUpdate == \A w \in Writers : w \in wrote' \ wrote => text = Before[w]

\* A result stays applied over the final observation only if the whole checkout
\* was as before the write when it was compared, and over the last confirmation
\* only if the file that is then there holds the text and is synchronised: the
\* validation, or an editor between the two, is seen by the one that comes after.
AppliedIsDurable ==
  \A w \in Appliers : report'[w].status \in {"APPLIED", "ALREADY_APPLIED"} =>
    /\ pc[w] # "final confirm" /\ pc'[w] = "final confirm"
         => text' = After[w] /\ checkout' = seen[w].checkout
    /\ pc[w] # "report" /\ pc'[w] = "report" => text' = After[w] /\ synced'

\* A replaced file is never denied: the attempt has its intent on disk, and its
\* report says that a write was attempted, also when it conflicts later or dies.
WriteIsAdmitted ==
  \A w \in wrote \cap Appliers : "intent" \in saved[w] /\ report[w].attempted
=============================================================================
