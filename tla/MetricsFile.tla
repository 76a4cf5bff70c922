---------------------------- MODULE MetricsFile ----------------------------
(***************************************************************************)
(* saveMetrics of src/scripts/validate-task.ts: every validation run reads *)
(* the file validation-metrics.json, adds its entry and writes the whole   *)
(* file back, with awaits in between and without a lock, while other runs  *)
(* of the server do the same.  An entry is the run it belongs to.          *)
(***************************************************************************)
EXTENDS Naturals, Sequences

CONSTANTS
  Savers,     \* the runs that have a verdict to save, once each
  MaxEntries  \* MAX_ENTRIES

ASSUME MetricsAssumption == MaxEntries \in Nat \ {0}

\* The file in the middle of a write: not JSON.
Torn == <<"torn">>

ASSUME SaversAssumption == "torn" \notin Savers

VARIABLES
  saver,     \* how far saveMetrics of each run has come
  draft,     \* the entries it writes
  file,      \* validation-metrics.json
  saves,     \* history: the runs whose write succeeded, in order
  disturbed  \* history: two saves overlapped, or a write broke off

fileVars == <<saver, draft, file, saves, disturbed>>

FileTypeOK ==
  /\ saver \in [Savers -> {"idle", "recording", "opening", "writing", "mixing",
                           "done"}]
  /\ draft \in [Savers -> Seq(Savers)]
  /\ \A r \in Savers : Len(draft[r]) <= MaxEntries
  /\ file \in Seq(Savers) \cup {Torn}
  /\ saves \in Seq(Savers)
  /\ disturbed \in BOOLEAN

FileInit ==
  /\ saver = [r \in Savers |-> "idle"]
  /\ draft = [r \in Savers |-> <<>>]
  /\ file = <<>>
  /\ saves = <<>>
  /\ disturbed = FALSE

\* Mutant: the oldest entries survive.
TrimNewest(entries) ==
  IF Len(entries) > MaxEntries THEN SubSeq(entries, 1, MaxEntries) ELSE entries

\* trimMetricsHistory
Trim(entries) ==
  IF Len(entries) > MaxEntries
  THEN SubSeq(entries, Len(entries) - MaxEntries + 1, Len(entries))
  ELSE entries

\* The runs that have read the file and not yet written it.
Busy == {r \in Savers : saver[r] \in {"opening", "writing", "mixing"}}

\* The run is first recorded in the database.
BeginSave(r) ==
  /\ saver[r] = "idle"
  /\ saver' = [saver EXCEPT ![r] = "recording"]
  /\ UNCHANGED <<draft, file, saves, disturbed>>

\* The database has answered, or failed, which is only logged; the file is
\* read.  A file that is not JSON counts as empty.
ReadFile(r) ==
  /\ saver[r] = "recording"
  /\ saver' = [saver EXCEPT ![r] = "opening"]
  /\ draft' = [draft EXCEPT ![r] =
                 Trim(IF file = Torn THEN <<r>> ELSE Append(file, r))]
  /\ disturbed' = (disturbed \/ Busy # {})
  /\ UNCHANGED <<file, saves>>

\* writeFile opens the file, which empties it.  Two writes at a time mix.
OpenFile(r) ==
  /\ saver[r] = "opening"
  /\ file' = Torn
  /\ LET W == {q \in Savers : saver[q] \in {"writing", "mixing"}}
     IN saver' = [q \in Savers |->
                    IF q \in W \/ (q = r /\ W # {}) THEN "mixing"
                    ELSE IF q = r THEN "writing" ELSE saver[q]]
  /\ UNCHANGED <<draft, saves, disturbed>>

WriteDone(r) ==
  /\ saver[r] \in {"writing", "mixing"}
  /\ file' \in {draft[r]} \cup (IF saver[r] = "mixing" THEN {Torn} ELSE {})
  /\ saver' = [saver EXCEPT ![r] = "done"]
  /\ saves' = Append(saves, r)
  /\ UNCHANGED <<draft, disturbed>>

\* The error is logged only.
WriteFails(r) ==
  /\ r \in Busy
  /\ saver' = [saver EXCEPT ![r] = "done"]
  /\ disturbed' = TRUE
  /\ UNCHANGED <<draft, file, saves>>

\* The server exits in the middle of whatever it writes.
SaversGone ==
  /\ \E r \in Savers : saver[r] \notin {"idle", "done"}
  /\ saver' = [r \in Savers |-> IF saver[r] = "idle" THEN "idle" ELSE "done"]
  /\ disturbed' = (disturbed \/ Busy # {})
  /\ file' \in {file} \cup (IF Busy # {} THEN {Torn} ELSE {})
  /\ UNCHANGED <<draft, saves>>

FileNext ==
  \/ \E r \in Savers :
       \/ BeginSave(r) \/ ReadFile(r) \/ OpenFile(r)
       \/ WriteDone(r) \/ WriteFails(r)
  \/ SaversGone

FileSpec == FileInit /\ [][FileNext]_fileVars

--------------------------------------------------------------------------
(* Properties *)

\* The newest MaxEntries of all entries ever written.
Newest(entries) ==
  LET n == Len(entries)
  IN SubSeq(entries, IF n > MaxEntries THEN n - MaxEntries + 1 ELSE 1, n)

\* The metrics file holds the entry of every run, up to MaxEntries and in the
\* order of the writes, as long as no save overlaps another or breaks off.
HistoryIsComplete == ~disturbed /\ Busy = {} => file = Newest(saves)

\* The inductive invariant: one save at a time, which has in its draft what the
\* file should hold when it is done.
FileInv ==
  ~disturbed =>
    /\ \A q, r \in Busy : q = r
    /\ \A r \in Busy :
         /\ draft[r] = Newest(Append(saves, r))
         /\ saver[r] \in {"opening", "writing"}
         /\ saver[r] = "opening" => file = Newest(saves)
    /\ Busy = {} => file = Newest(saves)
============================================================================
