-------------------------- MODULE EvidenceDownload --------------------------
(***************************************************************************)
(* The download of one sealed artifact by host processes                   *)
(* (local_hand_jobs/evidence_client.py): chunks are fetched, appended to a  *)
(* partial file, synchronised and entered in a checkpoint journal; the     *)
(* whole is verified, validated against its external seal and renamed to   *)
(* its final name.  Processes die, the machine loses power, a server may   *)
(* answer wrong bytes with a digest of their own, and the files may be     *)
(* rewritten by another program of the same user.                          *)
(*                                                                         *)
(* A file is a sequence of chunks, each "good" or "bad".                   *)
(***************************************************************************)
EXTENDS Naturals, Sequences, FiniteSets

CONSTANTS
  Writers,     \* processes that download the artifact to one directory
  Size,        \* the artifact's size in chunks
  BadServer,   \* the server may answer other bytes
  MaxFaults,   \* bound: deaths, power losses, rewrites
  None

SizeAssumption == Size \in Nat \ {0}
FaultsAssumption == BadServer \in BOOLEAN /\ MaxFaults \in Nat

VARIABLES
  fits,        \* the artifact that the descriptor names fits its seal
  binding,     \* binding.json: none, empty or written
  partial,     \* partial.bin
  kept,        \* chunks of the partial file that were synchronised
  journal,     \* last complete checkpoint: an offset
  journalKept, \* last checkpoint that was synchronised
  torn,        \* the journal ends in an incomplete line
  final,       \* the final file, or None
  finalKept,   \* its directory entry was synchronised
  lock,        \* the process that holds the directory's lock, or None
  pc, offset,  \* per process: its step and its position
  returned,    \* processes that were given the final path
  refused,     \* a process was refused though nobody else had the directory
  faults

files == <<binding, partial, kept, journal, journalKept, torn, final, finalKept>>
vars == <<fits, files, lock, pc, offset, returned, refused, faults>>

Whole == [i \in 1..Size |-> "good"]
Goto(w, step) == pc' = [pc EXCEPT ![w] = step]

\* close: the descriptors and with them the lock are given up.
Close(w, step) == Goto(w, step) /\ lock' = IF lock = w THEN None ELSE lock

-----------------------------------------------------------------------------
(* BoundedFileWriter.prepare                                                *)

\* download reads the external seal first; another holder of the lock is refused.
Lock(w) ==
  /\ pc[w] = "idle" /\ lock = None /\ lock' = w /\ Goto(w, "bind")
  /\ UNCHANGED <<fits, files, offset, returned, refused, faults>>

\* binding.json is created exclusively, or compared when it is there.
Bind(w) ==
  /\ pc[w] = "bind"
  /\ \/ binding = "none" /\ binding' = "empty" /\ Goto(w, "write binding") /\ UNCHANGED <<lock, refused>>
     \/ binding = "written" /\ UNCHANGED <<binding, lock, refused>> /\ Goto(w, "open")
     \/ binding = "empty" /\ UNCHANGED binding /\ Close(w, "idle") /\ refused' = TRUE
  /\ UNCHANGED <<fits, partial, kept, journal, journalKept, torn, final, finalKept, offset, returned, faults>>

WriteBinding(w) ==
  /\ pc[w] = "write binding" /\ binding' = "written" /\ Goto(w, "open")
  /\ UNCHANGED <<fits, partial, kept, journal, journalKept, torn, final, finalKept, lock, offset, returned, refused, faults>>

\* A final file is verified; otherwise the last complete checkpoint decides how
\* much of the partial file is kept, and the rest of both files is cut off.
Open(w) ==
  /\ pc[w] = "open" /\ UNCHANGED <<binding, journal, journalKept, final, finalKept>>
  /\ IF final # None
       THEN /\ IF final = Whole THEN offset' = [offset EXCEPT ![w] = Size] /\ Goto(w, "verify") /\ UNCHANGED lock
               ELSE UNCHANGED offset /\ Close(w, "failed")
            /\ UNCHANGED <<partial, kept, torn>>
       ELSE IF Len(partial) < journal
         THEN Close(w, "failed") /\ UNCHANGED <<partial, kept, torn, offset>>
         ELSE /\ partial' = SubSeq(partial, 1, journal) /\ torn' = FALSE
              /\ kept' = IF kept < journal THEN kept ELSE journal
              /\ offset' = [offset EXCEPT ![w] = journal] /\ Goto(w, "fetch") /\ UNCHANGED lock
  /\ UNCHANGED <<fits, returned, refused, faults>>

-----------------------------------------------------------------------------
(* EvidenceClient._chunk and BoundedFileWriter.write                         *)

\* A chunk whose own digest and position agree is appended.
Fetch(w) ==
  /\ pc[w] = "fetch"
  /\ IF offset[w] = Size THEN Goto(w, "verify") /\ UNCHANGED <<partial, lock>>
     ELSE IF Len(partial) # offset[w] THEN Close(w, "failed") /\ UNCHANGED partial
     ELSE /\ \E c \in {"good"} \cup (IF BadServer THEN {"bad"} ELSE {}) : partial' = Append(partial, c)
          /\ Goto(w, "sync") /\ UNCHANGED lock
  /\ UNCHANGED <<fits, binding, kept, journal, journalKept, torn, final, finalKept, offset, returned, refused, faults>>

SyncPartial(w) ==
  /\ pc[w] = "sync" /\ kept' = Len(partial) /\ Goto(w, "checkpoint")
  /\ UNCHANGED <<fits, binding, partial, journal, journalKept, torn, final, finalKept, lock, offset, returned, refused, faults>>

Checkpoint(w) ==
  /\ pc[w] = "checkpoint" /\ offset' = [offset EXCEPT ![w] = @ + 1]
  /\ journal' = offset'[w] /\ Goto(w, "sync journal")
  /\ UNCHANGED <<fits, binding, partial, kept, journalKept, torn, final, finalKept, lock, returned, refused, faults>>

SyncJournal(w) ==
  /\ pc[w] = "sync journal" /\ journalKept' = journal /\ Goto(w, "fetch")
  /\ UNCHANGED <<fits, binding, partial, kept, journal, torn, final, finalKept, lock, offset, returned, refused, faults>>

-----------------------------------------------------------------------------
(* BoundedFileWriter.finish                                                  *)

\* _verify_descriptor: length and digest of the whole file.
Verified(content) == content = Whole

\* _validate_zip: the archive against the members of its seal.
Validated == fits

\* The open file is verified and validated; it then gets its final name.
Verify(w) ==
  /\ pc[w] = "verify"
  /\ IF Verified(IF final = None THEN partial ELSE final) /\ Validated
       THEN Goto(w, "publish") /\ UNCHANGED lock
       ELSE Close(w, "failed")
  /\ UNCHANGED <<fits, files, offset, returned, refused, faults>>

Publish(w) ==
  /\ pc[w] = "publish" /\ Goto(w, "barriers")
  /\ IF final = None
       THEN final' = partial /\ finalKept' = FALSE /\ partial' = <<>> /\ kept' = 0
       ELSE UNCHANGED <<final, finalKept, partial, kept>>
  /\ UNCHANGED <<fits, binding, journal, journalKept, torn, lock, offset, returned, refused, faults>>

\* File, directory and ancestry are synchronised, for a file found complete too.
Barriers(w) ==
  /\ pc[w] = "barriers" /\ finalKept' = (final # None) /\ Goto(w, "rehash")
  /\ UNCHANGED <<fits, binding, partial, kept, journal, journalKept, torn, final, lock, offset, returned, refused, faults>>

\* The bytes are read again after the barriers, before the path is given out.
Rehash(w) ==
  /\ pc[w] = "rehash"
  /\ IF final # None /\ Verified(final)
       THEN Close(w, "done") /\ returned' = returned \cup {w}
       ELSE Close(w, "failed") /\ UNCHANGED returned
  /\ UNCHANGED <<fits, files, offset, refused, faults>>

-----------------------------------------------------------------------------
Fault == faults < MaxFaults /\ faults' = faults + 1

\* A process dies, in the middle of a journal line perhaps; it is started again.
Die(w) ==
  /\ pc[w] \notin {"idle", "done", "failed"} /\ Fault /\ Close(w, "idle")
  /\ torn' \in {torn} \cup (IF pc[w] = "checkpoint" THEN {TRUE} ELSE {})
  /\ UNCHANGED <<fits, binding, partial, kept, journal, journalKept, final, finalKept, offset, returned, refused>>

\* What was not synchronised may be lost, in any combination.
PowerLoss ==
  /\ Fault /\ lock' = None
  /\ pc' = [w \in Writers |-> IF pc[w] \in {"done", "failed"} THEN pc[w] ELSE "idle"]
  /\ \E n \in kept..Len(partial), j \in {journal, journalKept} :
       /\ journal' = j /\ journalKept' = j
       /\ IF final # None /\ ~finalKept
            THEN \/ UNCHANGED final /\ partial' = SubSeq(partial, 1, n)
                 \/ final' = None /\ partial' = final
            ELSE UNCHANGED final /\ partial' = SubSeq(partial, 1, n)
  /\ kept' = Len(partial') /\ finalKept' = (final' # None)
  /\ UNCHANGED <<fits, binding, torn, offset, returned, refused>>

\* Another program of the user rewrites the published file in place.
Rewrite ==
  /\ BadServer /\ final # None /\ returned = {} /\ Fault
  /\ \E i \in 1..Len(final) : final' = [final EXCEPT ![i] = "bad"]
  /\ UNCHANGED <<fits, binding, partial, kept, journal, journalKept, torn, finalKept, lock, pc, offset, returned, refused>>

-----------------------------------------------------------------------------
Init ==
  /\ fits \in (IF BadServer THEN BOOLEAN ELSE {TRUE})
  /\ binding = "none" /\ partial = <<>> /\ kept = 0 /\ journal = 0 /\ journalKept = 0 /\ torn = FALSE
  /\ final = None /\ finalKept = FALSE /\ lock = None
  /\ pc = [w \in Writers |-> "idle"] /\ offset = [w \in Writers |-> 0]
  /\ returned = {} /\ refused = FALSE /\ faults = 0

Step(w) ==
  \/ Lock(w) \/ Bind(w) \/ WriteBinding(w) \/ Open(w)
  \/ Fetch(w) \/ SyncPartial(w) \/ Checkpoint(w) \/ SyncJournal(w)
  \/ Verify(w) \/ Publish(w) \/ Barriers(w) \/ Rehash(w)
Next == PowerLoss \/ Rewrite \/ \E w \in Writers : Step(w) \/ Die(w)

Spec == Init /\ [][Next]_vars

-----------------------------------------------------------------------------
(* Properties                                                               *)

\* The form of the state.
TypeOK ==
  /\ binding \in {"none", "empty", "written"} /\ Len(partial) <= Size /\ kept <= Len(partial)
  /\ offset \in [Writers -> 0..Size] /\ journalKept <= journal

\* A checkpoint never promises bytes that a power loss can take away.
CheckpointCovered == final = None => journal <= kept

\* A path is given out only for a complete file, verified against its seal,
\* that a power loss does not remove, whoever wrote parts of it.
ReturnedIsWhole == returned' # returned => final = Whole /\ fits /\ finalKept

=============================================================================
