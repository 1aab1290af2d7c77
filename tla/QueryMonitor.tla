---------------------------- MODULE QueryMonitor ----------------------------
(***************************************************************************)
(* supervision.QueryMonitor: the bounded collection of one query's output  *)
(* and the decision over it.  Calls come in any order, with any clock      *)
(* readings, from the adapter that owns the pipe and the unit.             *)
(*                                                                         *)
(* The report is a sequence of Report pieces; what was delivered differs   *)
(* from it in its number of pieces or by a changed one.                    *)
(***************************************************************************)
EXTENDS Naturals, FiniteSets

CONSTANTS
  Limit,       \* MAX_REPORT_BYTES
  Report,      \* the length of the report that matches the manifest
  Deadline,    \* the binding's deadline; it was issued at 0
  MaxClock,    \* bound: the largest clock reading (not in the code)
  Invocations

SizesAssumption == Limit \in Nat /\ Report \in 1..Limit
ClockAssumption == Deadline \in Nat /\ MaxClock \in Nat

VARIABLES
  raw,        \* pieces kept
  eof, invocation, reason, last, finished, recovered,
  answer,     \* the decision last returned
  sent,       \* history: pieces the pipe delivered, and whether one was changed
  units       \* history: invocations of accepted observations

vars == <<raw, eof, invocation, reason, last, finished, recovered, answer, sent, units>>
NoOne == "none"
Clock == 0..MaxClock
Facts == [unit : {"bound", "other"}, invocation : Invocations, fresh : BOOLEAN,
          flags : BOOLEAN, exit : BOOLEAN]

\* _clock: readings do not go back; one at the deadline is too late.  The
\* reasons it adds come before the ones of the call.
ClockReason(now) ==
  IF now < last THEN "CLOCK_UNCERTAIN"
  ELSE IF now >= Deadline THEN "DEADLINE_EXPIRED" ELSE NoOne
First(reasons) ==       \* _fail keeps the first reason
  IF reason # NoOne THEN reason
  ELSE IF reasons[1] # NoOne THEN reasons[1] ELSE reasons[2]
Advance(now) == last' = IF now < last THEN last ELSE now
Open == finished = NoOne

\* feed: bytes after the end of file are refused, and those over the limit.
Feed(size, changed, now) ==
  /\ Open /\ Advance(now) /\ sent.size + size <= Limit + 1
  /\ IF eof
       THEN /\ reason' = First(<<ClockReason(now), "BYTES_AFTER_EOF">>)
            /\ UNCHANGED <<raw, sent>>
       ELSE /\ reason' = First(<<ClockReason(now), IF raw + size > Limit THEN "OUTPUT_LIMIT" ELSE NoOne>>)
            /\ raw' = IF raw + size > Limit THEN Limit ELSE raw + size
            /\ sent' = [size |-> sent.size + size, changed |-> sent.changed \/ changed]
  /\ UNCHANGED <<eof, invocation, finished, recovered, answer, units>>

EndOfFile(now) ==
  /\ Open /\ Advance(now) /\ reason' = First(<<ClockReason(now), NoOne>>)
  /\ eof' = TRUE
  /\ UNCHANGED <<raw, invocation, finished, recovered, answer, sent, units>>

\* read_once without data: nothing to read yet, or an error of the pipe (it
\* changed, blocks, or the read failed).  With data it is Feed, at its end EndOfFile.
ReadOnce(error, now) ==
  /\ Open /\ Advance(now)
  /\ reason' = First(<<ClockReason(now), IF error /\ ~eof THEN "PIPE_CHANGED" ELSE NoOne>>)
  /\ UNCHANGED <<raw, eof, invocation, finished, recovered, answer, sent, units>>

\* _observe: the binding's process, at the moment of the call, of the one
\* invocation, which a recovered monitor must know from before.
Observe(facts) ==
  IF recovered /\ invocation = NoOne THEN "ORIGINAL_INVOCATION_REQUIRED"
  ELSE IF facts.unit # "bound" THEN "PROCESS_IDENTITY_CHANGED"
  ELSE IF ~facts.fresh THEN "STALE_UNIT_OBSERVATION"
  ELSE IF invocation \notin {NoOne, facts.invocation} THEN "INVOCATION_CHANGED" ELSE NoOne

\* The decision once the call's own refusal is known.
Decide(facts, refused, now) ==
  IF First(<<ClockReason(now), refused>>) # NoOne THEN "UNKNOWN"
  ELSE IF ~facts.flags \/ ~eof THEN "WAITING"
  ELSE IF facts.exit /\ raw = Report /\ ~sent.changed THEN "OBSERVED" ELSE "UNKNOWN"

\* inspect: a finished monitor repeats its decision.
Inspect(facts, now) ==
  LET refused == IF now < last THEN NoOne ELSE Observe(facts)
      decided == Decide(facts, refused, now) IN
  IF ~Open THEN answer' = finished /\ UNCHANGED <<raw, eof, invocation, reason, last, finished, recovered, sent, units>>
  ELSE /\ Advance(now) /\ answer' = decided
       /\ finished' = IF decided = "OBSERVED" THEN "OBSERVED" ELSE NoOne
       /\ reason' = First(<<ClockReason(now),
                            IF refused # NoOne THEN refused
                            ELSE IF decided = "UNKNOWN" THEN "QUERY_EXIT_UNSUCCESSFUL" ELSE NoOne>>)
       /\ IF now >= last /\ refused = NoOne
            THEN invocation' = facts.invocation /\ units' = units \cup {facts.invocation}
            ELSE UNCHANGED <<invocation, units>>
       /\ UNCHANGED <<raw, eof, recovered, sent>>

Init ==
  /\ raw = 0 /\ eof = FALSE /\ last = 0 /\ finished = NoOne /\ recovered \in BOOLEAN
  /\ invocation \in Invocations \cup {NoOne}
  /\ reason = IF recovered THEN "OUTPUT_LOST_ON_RECOVERY" ELSE NoOne
  /\ answer = NoOne /\ sent = [size |-> 0, changed |-> FALSE]
  /\ units = IF invocation = NoOne THEN {} ELSE {invocation}

Next == \E now \in Clock :
          \/ \E size \in 1..2, changed \in BOOLEAN : Feed(size, changed, now)
          \/ EndOfFile(now) \/ (\E error \in BOOLEAN : ReadOnce(error, now))
          \/ \E facts \in Facts : Inspect(facts, now)

Spec == Init /\ [][Next]_vars

-----------------------------------------------------------------------------
\* The form of the monitor: the kept bytes within the limit, one final decision.
TypeOK ==
  /\ raw \in 0..Limit /\ eof \in BOOLEAN /\ recovered \in BOOLEAN /\ last \in Clock
  /\ invocation \in Invocations \cup {NoOne} /\ units \subseteq Invocations
  /\ finished \in {NoOne, "OBSERVED"} /\ answer \in {NoOne, "UNKNOWN", "WAITING", "OBSERVED"}

\* OBSERVED stands for the whole unchanged report, its end of file, calls that
\* all came before the deadline, and the one invocation ever observed.
ObservedIsComplete ==
  finished = "OBSERVED" =>
    /\ reason = NoOne /\ ~recovered /\ eof /\ last < Deadline
    /\ sent = [size |-> Report, changed |-> FALSE] /\ Cardinality(units) = 1

\* Without a reason the kept bytes are all the delivered ones: output is never
\* cut short and taken for a shorter report.
NothingDropped == reason = NoOne => raw = sent.size

\* A reason is final, and no decision after it is other than UNKNOWN: a late
\* good observation does not repair an earlier failure.
UnknownIsFinal ==
  reason # NoOne => reason' = reason /\ answer' \in {answer, "UNKNOWN"} /\ finished' = NoOne
=============================================================================
