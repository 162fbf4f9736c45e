-------------------------------- MODULE Evidence --------------------------------
(***************************************************************************)
(* The directory of one publishable benchmark run and the commands that    *)
(* work on it: the harness that measures (benchmark/harness.py, run, and   *)
(* benchmark/manifest.py), the reports built from what it measured         *)
(* (benchmark/report.py, build_report, by the commands run, report and     *)
(* compare) and the publishers (scripts/publish-run.py, publish_run).      *)
(*                                                                         *)
(* The commands are processes of their own that share nothing but the      *)
(* files.  A file is rewritten in place: opening it empties it, closing it *)
(* leaves its new content.  Any command may be killed between two steps.   *)
(* What is left of a file then is no file of its kind, "torn"; only a       *)
(* manifest, a YAML mapping that says near its head that the run was       *)
(* completed, may read as one though its end is missing, "cut".            *)
(***************************************************************************)
EXTENDS Naturals, Sequences

CONSTANTS
  Builders,    \* builds of the report, each identified with what it writes
  Publishers   \* runs of the publisher

ASSUME BuildersAssumption ==
  Builders \cap {"missing", "torn", "started", "cut", "completed", "whole"} = {}

VARIABLES
  files,       \* what each file of the run directory holds
  harness,     \* where the harness stands
  mismatched,  \* whether the records name providers the treatment does not have
  build,       \* where each build stands
  place,       \* the report file each build is at
  base,        \* what each build has read of the records
  publisher,   \* where each publisher stands
  staged,      \* what each publisher has read and copied
  published    \* what the published directory holds

run == <<harness, mismatched>>
builds == <<build, place, base>>
publishing == <<publisher, staged>>
vars == <<files, run, builds, publishing, published>>

\* Mutant of Reports: the report is noted in the manifest, too.
ReportsAndManifest == <<"summary", "quality", "cost", "csv", "manifest">>

\* The files a report consists of, in the order they are written; the scenario
\* grid, which no command reads, is left out.
Reports == <<"summary", "quality", "cost", "csv">>

Files == {"manifest", "records", "summary", "quality", "cost", "csv"}

\* The files a publisher copies, in this order.
Copied == <<"manifest", "summary", "quality", "cost", "csv">>

\* Manifests that say that the run was completed.
Completed == {"cut", "completed"}

\* What a publication consists of: the copies, and what is written from the
\* summary and the records the publisher read before it copied.
Items == {"manifest", "summary", "quality", "cost", "csv", "readme", "reference"}

Set(file, content) == files' = [files EXCEPT ![file] = content]

Nothing == [i \in Items |-> "missing"]

------------------------------------------------------------------------------
Init ==
  /\ files = [f \in Files |-> "missing"]
  /\ harness = "start"
  /\ mismatched \in BOOLEAN
  /\ build = [b \in Builders |-> "idle"]
  /\ place = [b \in Builders |-> 1]
  /\ base = [b \in Builders |-> "missing"]
  /\ publisher = [p \in Publishers |-> "idle"]
  /\ staged = [p \in Publishers |-> Nothing]
  /\ published = Nothing

\* The harness.

HarnessStep(from, to) ==
  /\ harness = from
  /\ harness' = to
  /\ UNCHANGED <<mismatched, builds, publishing, published>>

\* The run directory must be new; the manifest is written before any load.
MakeRun == HarnessStep("start", "made") /\ Set("manifest", "torn")
WriteManifest == HarnessStep("made", "load") /\ Set("manifest", "started")

\* The load raises; nothing is written.
LoadFails == HarnessStep("load", "failed") /\ UNCHANGED files

\* Mutant of OpenRecords: the manifest is completed first.
OpenManifestFirst == HarnessStep("load", "completing") /\ Set("manifest", "torn")

\* The load has all its records.
OpenRecords == HarnessStep("load", "records") /\ Set("records", "torn")
WriteRecords == HarnessStep("records", "measured") /\ Set("records", "whole")

\* complete_manifest reads the manifest and writes it anew, with completed_at and
\* the number of records.
OpenManifest == HarnessStep("measured", "completing") /\ Set("manifest", "torn")

\* So far all of it is written that a publisher asks for.
PartManifest ==
  /\ files["manifest"] = "torn"
  /\ HarnessStep("completing", "completing") /\ Set("manifest", "cut")

CompleteManifest == HarnessStep("completing", "done") /\ Set("manifest", "completed")

HarnessDies ==
  /\ harness \notin {"start", "failed", "done", "dead"}
  /\ HarnessStep(harness, "dead") /\ UNCHANGED files

Harness ==
  \/ MakeRun \/ WriteManifest \/ LoadFails \/ OpenRecords \/ WriteRecords
  \/ OpenManifest \/ PartManifest \/ CompleteManifest \/ HarnessDies

------------------------------------------------------------------------------
\* A build of the report.

BuildStep(b, from, to) ==
  /\ build[b] = from
  /\ build' = [build EXCEPT ![b] = to]
  /\ UNCHANGED <<run, publishing, published>>

\* The manifest parses and the records are there: all of them, or as many whole
\* lines as the harness has written so far.
ReadRun(b) ==
  /\ BuildStep(b, "idle", "open")
  /\ files["manifest"] \in {"started"} \cup Completed
  /\ files["records"] # "missing"
  /\ base' = [base EXCEPT ![b] = files["records"]]
  /\ UNCHANGED <<files, place>>

\* A file is missing, empty or cut off in the middle of a line, or before a field of
\* the manifest that a report needs.
ReadFails(b) ==
  /\ BuildStep(b, "idle", "failed")
  /\ \/ files["manifest"] \notin {"started", "completed"}
     \/ files["records"] # "whole"
  /\ UNCHANGED <<files, place, base>>

OpenReport(b) ==
  /\ place[b] <= Len(Reports)
  /\ BuildStep(b, "open", "write")
  /\ Set(Reports[place[b]], "torn")
  /\ UNCHANGED <<place, base>>

\* Another build that has written the file since this one emptied it may leave the
\* end of a longer content behind this one's.
WriteReport(b) ==
  LET file == Reports[place[b]] IN
  /\ BuildStep(b, "write", "open")
  /\ \/ Set(file, b)
     \/ files[file] # "torn" /\ Set(file, "torn")
  /\ place' = [place EXCEPT ![b] = @ + 1]
  /\ UNCHANGED base

\* Mutant of Written: a report is over before its last file.
WrittenButOne(b) == place[b] >= Len(Reports)

Written(b) == place[b] > Len(Reports)

\* Records that name providers of another mode are refused; some of them may not.
Verdicts(b) ==
  IF ~mismatched THEN {"accepted"}
  ELSE IF base[b] = "whole" THEN {"refused"} ELSE {"refused", "accepted"}

\* Only behind its last file is the report of a publishable run refused.
JudgeReport(b) ==
  /\ Written(b)
  /\ \E verdict \in Verdicts(b) : BuildStep(b, "open", verdict)
  /\ UNCHANGED <<files, place, base>>

BuildDies(b) ==
  /\ build[b] \in {"open", "write"}
  /\ BuildStep(b, build[b], "dead")
  /\ UNCHANGED <<files, place, base>>

Build(b) ==
  \/ ReadRun(b) \/ ReadFails(b) \/ OpenReport(b) \/ WriteReport(b)
  \/ JudgeReport(b) \/ BuildDies(b)

------------------------------------------------------------------------------
\* A publisher.

PublisherStep(p, from, to) ==
  /\ publisher[p] = from
  /\ publisher' = [publisher EXCEPT ![p] = to]
  /\ UNCHANGED <<files, run, builds>>

Keep(p, item, content) == staged' = [staged EXCEPT ![p][item] = content]

\* The staging directory is gone, moved or removed; one that a killed publisher
\* leaves behind is read by nobody.
Drop(p) == staged' = [staged EXCEPT ![p] = Nothing]

Exists == published # Nothing

\* _validate_source: the files are there, the manifest and the summary parse.
\* Whether the run has been completed, or its report accepted, is not asked.
Valid ==
  /\ \A f \in Files : files[f] # "missing"
  /\ files["manifest"] # "torn" /\ files["summary"] # "torn"

Validate(p) ==
  /\ PublisherStep(p, "idle", IF Valid /\ ~Exists THEN "valid" ELSE "refused")
  /\ IF Valid /\ ~Exists THEN Keep(p, "readme", files["summary"]) ELSE UNCHANGED staged
  /\ UNCHANGED published

\* The records are counted and hashed, whatever they are.
Digest(p) ==
  /\ PublisherStep(p, "valid", "copying")
  /\ Keep(p, "reference", files["records"])
  /\ UNCHANGED published

IsNextCopy(p, k) ==
  /\ staged[p][Copied[k]] = "missing"
  /\ \A j \in 1..(k - 1) : staged[p][Copied[j]] # "missing"

Copy(p) ==
  /\ PublisherStep(p, "copying", "copying")
  /\ \E k \in 1..Len(Copied) : IsNextCopy(p, k) /\ Keep(p, Copied[k], files[Copied[k]])
  /\ UNCHANGED published

\* Mutant of AllCopied: the last file is forgotten.
AllButOneCopied(p) ==
  \A k \in 1..(Len(Copied) - 1) : staged[p][Copied[k]] # "missing"

AllCopied(p) == \A k \in 1..Len(Copied) : staged[p][Copied[k]] # "missing"

\* The destination is looked at once more.
LookAgain(p) ==
  /\ AllCopied(p)
  /\ PublisherStep(p, "copying", IF Exists THEN "refused" ELSE "staged")
  /\ IF Exists THEN Drop(p) ELSE UNCHANGED staged
  /\ UNCHANGED published

\* Mutant of Rename: an existing destination is replaced.
RenameOver(p) ==
  /\ PublisherStep(p, "staged", "published")
  /\ published' = staged[p]
  /\ Drop(p)

\* The staging directory becomes the destination at one stroke; a directory with
\* files in it is not replaced, and the publisher fails.
Rename(p) ==
  /\ PublisherStep(p, "staged", IF Exists THEN "failed" ELSE "published")
  /\ published' = IF Exists THEN published ELSE staged[p]
  /\ Drop(p)

PublisherDies(p) ==
  /\ publisher[p] \in {"valid", "copying", "staged"}
  /\ PublisherStep(p, publisher[p], "dead")
  /\ Drop(p)
  /\ UNCHANGED published

Publish(p) ==
  \/ Validate(p) \/ Digest(p) \/ Copy(p) \/ LookAgain(p) \/ Rename(p)
  \/ PublisherDies(p)

Next ==
  \/ Harness
  \/ \E b \in Builders : Build(b)
  \/ \E p \in Publishers : Publish(p)

Spec == Init /\ [][Next]_vars

\* The discipline of a careful operator: builds begin when the harness is over, one
\* after the other and none killed, and no publisher is at work during a build.
AtWork(b) == build[b] \in {"open", "write"}

Orderly ==
  /\ \A b \in Builders : build[b] # "dead"
  /\ \A b \in Builders : AtWork(b) =>
       /\ harness \in {"failed", "done", "dead"}
       /\ \A c \in Builders \ {b} : ~AtWork(c)
       /\ \A p \in Publishers : publisher[p] \notin {"valid", "copying", "staged"}

OrderlySpec == Init /\ [][Next /\ Orderly']_vars
------------------------------------------------------------------------------
\* A completed manifest stands for records that are all there, wherever a command
\* was killed, in the middle of that manifest as well: no crash makes a run look
\* measured that was not.
CompletedMeansMeasured == files["manifest"] \in Completed => files["records"] = "whole"

\* A publication appears at one stroke: wherever publishers are killed, it is not
\* there or has all that belongs to it.
PublishedAtOnce == Exists => \A i \in Items : published[i] # "missing"

\* A published run is never touched again, whatever publishers race for it.
PublishedOnce == [][Exists => published' = published]_vars

\* A finalized manifest is immutable.
FinalManifestKept ==
  [][files["manifest"] = "completed" => files'["manifest"] = "completed"]_vars

\* Under that discipline a publication is of one build, the last to write before
\* it: the copies, and the texts made from the summary before they were copied.  If
\* the run was completed, that build and the reference tell all its records.
PublishedIsOneBuild ==
  Exists => \E b \in Builders :
    /\ \A i \in {"summary", "quality", "cost", "csv", "readme"} : published[i] = b
    /\ published["manifest"] \in Completed =>
         base[b] = "whole" /\ published["reference"] = "whole"

\* A report that was rejected is not published.
PublishedWasAccepted ==
  Exists => \A b \in Builders : published["summary"] = b => build[b] # "refused"
=============================================================================
