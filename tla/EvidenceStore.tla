--------------------------- MODULE EvidenceStore ---------------------------
(***************************************************************************)
(* The store of sealed evidence of one operation                           *)
(* (local_hand_jobs/evidence.py): supervised helpers copy the frozen       *)
(* members to an archive, publish it with its manifest and then with its   *)
(* seal; the broker registers what a helper returned; readers list the     *)
(* registered seals page by page and read chunks of their archives.        *)
(*                                                                         *)
(* Helpers exclude each other by a lock on the store's directory.  They    *)
(* may be killed and leave their directories behind; members may change    *)
(* although they were declared frozen; a published archive may be          *)
(* rewritten, which gives the file another identity.                       *)
(***************************************************************************)
EXTENDS Naturals, Sequences, FiniteSets, SequencesExt

CONSTANTS
  Helpers,      \* sealing helpers
  Members,      \* files of the frozen evidence
  Seals,        \* seal identifiers, random in the code: numbers
  MaxSeals,     \* max_seals, half of the entries the store may have
  MaxWrites,    \* bound: changes of members
  MaxFaults,    \* bound: kills, power losses, rewrites, restarts of the reader
  MaxSeq,       \* bound: cutoffs of the broker's events
  None

StoreAssumption == Seals \subseteq Nat /\ {MaxSeals, MaxWrites, MaxFaults, MaxSeq} \subseteq Nat

VARIABLES
  source,      \* version of each member
  states,      \* history: the contents the source has had
  seq,         \* event cutoff of the broker's present snapshot
  staging,     \* number of staging directories
  seal,        \* per identifier: its directory, or None
  lock,        \* the helper that holds the store, or None
  helper,      \* per helper: step, seal, snapshot, inventory, copy
  returned,    \* seals whose helper returned them
  registered,  \* seals with a durable registration
  reader,      \* the chunk being read
  served,      \* history: <<seal, content>> answered
  listing,     \* the pages read so far: catalog, items, epoch of the cursor
  listed,      \* history: complete listings
  epoch,       \* restarts of the reading service: each has its own cursor key
  faults

hold == <<source, states, seq>>
shelf == <<staging, seal, lock, helper, returned, registered>>
reads == <<reader, served, listing, listed, epoch>>
vars == <<hold, shelf, reads, faults>>

Idle == [pc |-> "idle", seal |-> None, seq |-> 0, inventory |-> <<>>, copy |-> <<>>, again |-> {}, identity |-> 0]
Entries == staging + Cardinality({s \in Seals : seal[s] # None})
Goto(h, step) == helper' = [helper EXCEPT ![h].pc = step]
With(f, m, v) == [n \in DOMAIN f \cup {m} |-> IF n = m THEN v ELSE f[n]]
\* Fault: a member is recognised by its name.
SameName(h, m) == m \in DOMAIN helper[h].inventory

\* _same: device, inode, size and times of the member.
Same(h, m) == source[m] = helper[h].inventory[m]

\* An error leaves every directory as it is and gives the lock up.
Fail(h) == helper' = [helper EXCEPT ![h] = Idle] /\ lock' = None

-----------------------------------------------------------------------------
(* Sealing                                                                  *)

\* _seal and the start of _seal_locked: one helper at a time, the snapshot is
\* taken and both new entries are counted before anything is written.
Seal(h) ==
  /\ helper[h].pc = "idle" /\ lock = None /\ (Entries > 0 => Entries + 2 <= MaxSeals * 2)
  /\ \E s \in Seals : /\ seal[s] = None /\ \A g \in Helpers : helper[g].seal # s
                      /\ helper' = [helper EXCEPT ![h] = [Idle EXCEPT !.pc = "inventory", !.seal = s, !.seq = seq]]
  /\ lock' = h /\ staging' = staging + 1
  /\ UNCHANGED <<hold, seal, returned, registered, reads, faults>>

\* _inventory looks at one member after the other.
Inventory(h, m) ==
  /\ helper[h].pc = "inventory" /\ m \notin DOMAIN helper[h].inventory
  /\ helper' = [helper EXCEPT ![h].inventory = With(@, m, source[m]),
                              ![h].pc = IF DOMAIN helper[h].inventory \cup {m} = Members THEN "copy" ELSE @]
  /\ UNCHANGED <<hold, staging, seal, lock, returned, registered, reads, faults>>

\* A member is copied when it still has the identity of the inventory.
Copy(h, m) ==
  /\ helper[h].pc = "copy" /\ m \notin DOMAIN helper[h].copy
  /\ IF Same(h, m)
       THEN helper' = [helper EXCEPT ![h].copy = With(@, m, source[m])] /\ UNCHANGED lock
       ELSE Fail(h)
  /\ UNCHANGED <<hold, staging, seal, returned, registered, reads, faults>>

\* The members are compared again, one after the other, and then the broker's
\* snapshot.
Recheck(h, m) ==
  /\ helper[h].pc = "copy" /\ DOMAIN helper[h].copy = Members /\ m \notin helper[h].again
  /\ LET last == helper[h].again \cup {m} = Members IN
     IF Same(h, m) /\ (last => seq = helper[h].seq)
       THEN /\ helper' = [helper EXCEPT ![h].again = @ \cup {m}, ![h].pc = IF last THEN "publish" ELSE @]
            /\ UNCHANGED lock
       ELSE Fail(h)
  /\ UNCHANGED <<hold, staging, seal, returned, registered, reads, faults>>

\* Archive and manifest, in a directory of their own that did not exist.
PublishFiles(h) ==
  /\ helper[h].pc = "publish" /\ Goto(h, "sync files")
  /\ seal' = [seal EXCEPT ![helper[h].seal] =
       [state |-> "files", seq |-> helper[h].seq, content |-> helper[h].copy, file |-> helper[h].copy, identity |-> 0]]
  /\ UNCHANGED <<hold, staging, lock, returned, registered, reads, faults>>

SyncFiles(h) ==
  /\ helper[h].pc = "sync files" /\ Goto(h, "publish seal")
  /\ seal' = [seal EXCEPT ![helper[h].seal].state = "files synced"]
  /\ UNCHANGED <<hold, staging, lock, returned, registered, reads, faults>>

\* The seal binds the identities of the files; they were verified by digest.
PublishSeal(h) ==
  LET s == helper[h].seal IN
  /\ helper[h].pc = "publish seal"
  /\ IF seal[s].file = seal[s].content
       THEN /\ seal' = [seal EXCEPT ![s].state = "sealed"] /\ UNCHANGED lock
            /\ helper' = [helper EXCEPT ![h].pc = "sync seal", ![h].identity = seal[s].identity]
       ELSE Fail(h) /\ UNCHANGED seal
  /\ UNCHANGED <<hold, staging, returned, registered, reads, faults>>

\* The directories and their ancestry are synchronised and the identities
\* compared; the record is returned unregistered.
ReturnSeal(h) ==
  LET s == helper[h].seal IN
  /\ helper[h].pc = "sync seal" /\ Fail(h)
  /\ seal' = [seal EXCEPT ![s].state = "synced"]
  /\ returned' = IF seal[s].identity = helper[h].identity THEN returned \cup {s} ELSE returned
  /\ UNCHANGED <<hold, staging, registered, reads, faults>>

\* The broker registers what an exited helper returned.
Register(s) ==
  /\ s \in returned \ registered /\ registered' = registered \cup {s}
  /\ UNCHANGED <<hold, staging, seal, lock, helper, returned, reads, faults>>

-----------------------------------------------------------------------------
(* Reading                                                                  *)

NoChunk == [pc |-> "idle", seal |-> None, identity |-> 0, data |-> None]

\* read_chunk: the record of a registered seal gives the expected identity.
ReadRecord(s) ==
  /\ reader.pc = "idle" /\ seal[s] # None /\ seal[s].state \in {"sealed", "synced"} /\ s \in registered
  /\ reader' = [pc |-> "open", seal |-> s, identity |-> 0, data |-> None]
  /\ UNCHANGED <<hold, shelf, served, listing, listed, epoch, faults>>

ReadOpen ==
  /\ reader.pc = "open"
  /\ reader' = IF seal[reader.seal] # None /\ seal[reader.seal].identity = reader.identity
                 THEN [reader EXCEPT !.pc = "read"] ELSE NoChunk
  /\ UNCHANGED <<hold, shelf, served, listing, listed, epoch, faults>>

ReadBytes ==
  /\ reader.pc = "read" /\ reader' = [reader EXCEPT !.pc = "check", !.data = seal[reader.seal].file]
  /\ UNCHANGED <<hold, shelf, served, listing, listed, epoch, faults>>

Serve ==
  /\ reader.pc = "check" /\ reader' = NoChunk
  /\ served' = IF seal[reader.seal].identity = reader.identity
                 THEN served \cup {<<reader.seal, reader.data>>} ELSE served
  /\ UNCHANGED <<hold, shelf, listing, listed, epoch, faults>>

\* The registered seals in the order of their events and identifiers.
Before(a, b) == seal[a].seq < seal[b].seq \/ (seal[a].seq = seal[b].seq /\ a < b)
Catalog == SetToSortSeq(registered, Before)
NoListing == [catalog |-> None, items |-> <<>>, epoch |-> 0]

\* A cursor belongs to one catalog and to one run of the service.
CursorFits == listing.catalog # None /\ listing.catalog = Catalog /\ listing.epoch = epoch

\* manifest: one item per page; a cursor that does not fit is refused.
Page ==
  LET at == IF CursorFits THEN Len(listing.items) ELSE 0
      items == IF at < Len(Catalog) THEN Append(SubSeq(listing.items, 1, at), Catalog[at + 1]) ELSE listing.items IN
  /\ registered # {}
  /\ IF listing.catalog # None /\ ~CursorFits THEN listing' = NoListing /\ UNCHANGED listed
     ELSE IF Len(items) < Len(Catalog)
       THEN listing' = [catalog |-> Catalog, items |-> items, epoch |-> epoch] /\ UNCHANGED listed
       ELSE listing' = NoListing /\ listed' = listed \cup {<<items, Catalog>>}
  /\ UNCHANGED <<hold, shelf, reader, served, epoch, faults>>

-----------------------------------------------------------------------------
(* The world around                                                         *)

Write(m) ==
  /\ source[m] < MaxWrites /\ source' = [source EXCEPT ![m] = @ + 1] /\ states' = states \cup {source'}
  /\ UNCHANGED <<seq, shelf, reads, faults>>

\* The broker opens a new cutoff, as for another reconciliation.
NextSnapshot == seq < MaxSeq /\ seq' = seq + 1 /\ UNCHANGED <<source, states, shelf, reads, faults>>

Fault == faults < MaxFaults /\ faults' = faults + 1

Kill(h) ==
  /\ helper[h].pc # "idle" /\ Fault /\ Fail(h)
  /\ UNCHANGED <<hold, staging, seal, returned, registered, reads>>

PowerLoss ==
  /\ Fault /\ lock' = None /\ helper' = [h \in Helpers |-> Idle] /\ epoch' = epoch + 1
  /\ seal' = [s \in Seals |-> IF seal[s] = None \/ seal[s].state = "files" THEN None
                              ELSE [seal[s] EXCEPT !.state = IF @ = "sealed" THEN "files synced" ELSE @]]
  /\ reader' = NoChunk
  /\ UNCHANGED <<hold, staging, returned, registered, served, listing, listed>>

Rewrite(s) ==
  /\ seal[s] # None /\ Fault
  /\ seal' = [seal EXCEPT ![s].file = None, ![s].identity = @ + 1]
  /\ UNCHANGED <<hold, staging, lock, helper, returned, registered, reads>>

Restart ==
  /\ Fault /\ epoch' = epoch + 1 /\ reader' = NoChunk
  /\ UNCHANGED <<hold, shelf, served, listing, listed>>

Init ==
  /\ source = [m \in Members |-> 0] /\ states = {source} /\ seq = 0
  /\ staging = 0 /\ seal = [s \in Seals |-> None] /\ lock = None /\ helper = [h \in Helpers |-> Idle]
  /\ returned = {} /\ registered = {} /\ reader = NoChunk /\ served = {}
  /\ listing = NoListing /\ listed = {} /\ epoch = 0 /\ faults = 0

Sealing(h) ==
  \/ Seal(h) \/ (\E m \in Members : Inventory(h, m) \/ Copy(h, m) \/ Recheck(h, m))
  \/ PublishFiles(h) \/ SyncFiles(h) \/ PublishSeal(h) \/ ReturnSeal(h)
Next ==
  \/ \E h \in Helpers : Sealing(h) \/ Kill(h)
  \/ \E s \in Seals : Register(s) \/ ReadRecord(s) \/ Rewrite(s)
  \/ ReadOpen \/ ReadBytes \/ Serve \/ Page
  \/ (\E m \in Members : Write(m)) \/ NextSnapshot \/ PowerLoss \/ Restart
Spec == Init /\ [][Next]_vars

-----------------------------------------------------------------------------
(* Properties                                                               *)

\* The form of the state; a helper at work holds the store's lock.
TypeOK ==
  /\ source \in [Members -> 0..MaxWrites] /\ registered \subseteq Seals /\ returned \subseteq Seals
  /\ \A h \in Helpers : helper[h].pc # "idle" => lock = h

\* Retained directories, those of failed attempts included, stay within the
\* store's budget.
RetentionBounded == Entries <= MaxSeals * 2

\* A sealed archive holds the members as they were together at one moment.
SealedIsOneMoment == \A s \in returned : seal[s] # None => seal[s].content \in states

\* A registered seal and its files survive a power loss.
RegisteredIsDurable == \A s \in returned : seal[s] # None /\ seal[s].state = "synced"

\* What is answered are the sealed bytes, also when the file is rewritten
\* between two steps of the reader.
ServedIsSealed == \A r \in served : r[2] = seal[r[1]].content

=============================================================================
