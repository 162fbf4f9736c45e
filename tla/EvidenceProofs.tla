----------------------------- MODULE EvidenceProofs -----------------------------
(***************************************************************************)
(* Proofs about the evidence of a run, for any number of builds and of     *)
(* publishers.  The invariant has two parts that do not need each other:   *)
(* what the harness has written, by where it stands (HarnessHolds), and    *)
(* what a publisher has gathered, by where it stands (PublisherHolds),     *)
(* which rests on files never going away.  A third one is about commands   *)
(* that come one after the other (OInv): what lies there is of one build,  *)
(* and so is what a publisher has copied of it.                            *)
(***************************************************************************)
EXTENDS Evidence, TLAPS

Contents == {"missing", "torn", "started", "cut", "completed", "whole"} \cup Builders

FilesTyped ==
  /\ files \in [Files -> Contents]
  /\ build \in [Builders -> {"idle", "open", "write", "failed", "refused", "accepted", "dead"}]
  /\ place \in [Builders -> 1..(Len(Reports) + 1)]
  /\ base \in [Builders -> Contents]
  /\ publisher \in [Publishers -> {"idle", "valid", "copying", "staged", "refused",
                                   "published", "failed", "dead"}]
  /\ staged \in [Publishers -> [Items -> Contents]]
  /\ published \in [Items -> Contents]

\* A build that writes is at one of its files.
BuildHolds == \A b \in Builders : build[b] = "write" => place[b] <= Len(Reports)

HarnessHolds ==
  /\ files["manifest"] = "completed" => harness = "done"
  /\ files["manifest"] = "cut" =>
       harness \in {"completing", "dead"} /\ files["records"] = "whole"
  /\ harness \in {"measured", "completing", "done"} => files["records"] = "whole"

\* What a publisher has gathered when it stands where it stands.
Gathered(p) ==
  /\ publisher[p] \in {"valid", "copying", "staged"} =>
       /\ \A f \in Files : files[f] # "missing"
       /\ staged[p]["readme"] # "missing"
  /\ publisher[p] \in {"copying", "staged"} => staged[p]["reference"] # "missing"
  /\ publisher[p] = "staged" => \A i \in Items : staged[p][i] # "missing"

PublisherHolds == (\A p \in Publishers : Gathered(p)) /\ PublishedAtOnce

EInv == FilesTyped /\ BuildHolds /\ HarnessHolds /\ PublisherHolds

------------------------------------------------------------------------------
\* The files of a report are neither the manifest nor the records.
LEMMA ReportsAre ==
  ASSUME NEW k \in 1..Len(Reports)
  PROVE  Reports[k] \in Files \ {"manifest", "records"}
BY DEF Reports, Files

\* A file that is written exists from then on; the others are left alone.
LEMMA FileWritten ==
  ASSUME FilesTyped, NEW f \in Files, NEW c \in Contents, Set(f, c)
  PROVE  /\ files' \in [Files -> Contents]
         /\ files'[f] = c
         /\ \A g \in Files \ {f} : files'[g] = files[g]
         /\ c # "missing" => \A g \in Files : files[g] # "missing" => files'[g] # "missing"
BY DEF FilesTyped, Set

LEMMA Initially == Init => EInv
BY DEF Init, EInv, FilesTyped, BuildHolds, HarnessHolds, PublisherHolds, Gathered, PublishedAtOnce,
       Exists, Nothing, Contents, Files, Items, Reports

\* What publishers have gathered stays while they rest and no file goes away.
LEMMA PublishersRest ==
  ASSUME PublisherHolds, UNCHANGED <<publishing, published>>,
         \A f \in Files : files[f] # "missing" => files'[f] # "missing"
  PROVE  PublisherHolds'
BY DEF PublisherHolds, Gathered, PublishedAtOnce, Exists, publishing, Nothing

LEMMA HarnessKeeps == ASSUME EInv, Harness PROVE EInv'
<1> USE DEF EInv
<1>1. /\ UNCHANGED <<publishing, published>> /\ UNCHANGED <<build, place, base>>
  BY DEF Harness, HarnessStep, builds, publishing, MakeRun, WriteManifest, LoadFails,
         OpenRecords, WriteRecords, OpenManifest, PartManifest, CompleteManifest, HarnessDies
<1>2. /\ files' \in [Files -> Contents] /\ HarnessHolds'
      /\ \A f \in Files : files[f] # "missing" => files'[f] # "missing"
  <2>1. CASE LoadFails \/ HarnessDies
    BY <2>1 DEF LoadFails, HarnessDies, HarnessStep, HarnessHolds, FilesTyped
  <2>2. CASE MakeRun \/ WriteManifest \/ OpenManifest \/ PartManifest \/ CompleteManifest
    BY <2>2 DEF MakeRun, WriteManifest, OpenManifest, PartManifest, CompleteManifest,
                HarnessStep, HarnessHolds, FilesTyped, Set, Files, Contents
  <2>3. CASE OpenRecords \/ WriteRecords
    BY <2>3 DEF OpenRecords, WriteRecords, HarnessStep, HarnessHolds, FilesTyped, Set,
                Files, Contents
  <2> QED BY <2>1, <2>2, <2>3 DEF Harness
<1>3. PublisherHolds'
  BY <1>1, <1>2, PublishersRest
<1> QED BY <1>1, <1>2, <1>3 DEF FilesTyped, BuildHolds, publishing

\* A report file that is written leaves the manifest and the records alone.
LEMMA ReportWritten ==
  ASSUME FilesTyped, HarnessHolds, harness' = harness,
         NEW k \in 1..Len(Reports), NEW c \in Contents \ {"missing"}, Set(Reports[k], c)
  PROVE  /\ files' \in [Files -> Contents] /\ HarnessHolds'
         /\ \A f \in Files : files[f] # "missing" => files'[f] # "missing"
<1>1. Reports[k] \in Files \ {"manifest", "records"}
  BY ReportsAre
<1>2. files'["manifest"] = files["manifest"] /\ files'["records"] = files["records"]
  BY <1>1, FileWritten DEF Files
<1> QED BY <1>1, <1>2, FileWritten DEF HarnessHolds

LEMMA BuildKeeps == ASSUME EInv, NEW b \in Builders, Build(b) PROVE EInv'
<1> USE DEF EInv
<1>1. /\ UNCHANGED <<publishing, published>> /\ harness' = harness
  BY DEF Build, BuildStep, run, ReadRun, ReadFails, OpenReport, WriteReport, JudgeReport,
         BuildDies
<1>3. CASE OpenReport(b)
  <2>1. /\ place[b] \in 1..Len(Reports) /\ Set(Reports[place[b]], "torn")
        /\ build' = [build EXCEPT ![b] = "write"] /\ UNCHANGED <<place, base>>
    BY <1>3 DEF OpenReport, BuildStep, FilesTyped, Reports
  <2>2. /\ files' \in [Files -> Contents] /\ HarnessHolds'
        /\ \A f \in Files : files[f] # "missing" => files'[f] # "missing"
    BY <1>1, <2>1, ReportWritten DEF Contents
  <2>3. BuildHolds'
    BY <2>1 DEF BuildHolds, FilesTyped
  <2> QED BY <1>1, <2>1, <2>2, <2>3, PublishersRest DEF FilesTyped, publishing
<1>4. CASE WriteReport(b)
  <2>1. /\ place[b] \in 1..Len(Reports)
        /\ Set(Reports[place[b]], b) \/ Set(Reports[place[b]], "torn")
        /\ build' = [build EXCEPT ![b] = "open"] /\ place' = [place EXCEPT ![b] = @ + 1]
        /\ base' = base
    BY <1>4 DEF WriteReport, BuildStep, FilesTyped, BuildHolds, Reports
  <2>2. b \in Contents \ {"missing"} /\ "torn" \in Contents \ {"missing"}
    BY BuildersAssumption DEF Contents
  <2>3. /\ files' \in [Files -> Contents] /\ HarnessHolds'
        /\ \A f \in Files : files[f] # "missing" => files'[f] # "missing"
    BY <1>1, <2>1, <2>2, ReportWritten
  <2>4. place' \in [Builders -> 1..(Len(Reports) + 1)] /\ BuildHolds'
    BY <2>1 DEF FilesTyped, BuildHolds, Reports
  <2> QED BY <1>1, <2>1, <2>3, <2>4, PublishersRest DEF FilesTyped, publishing
<1>5. CASE ReadRun(b) \/ ReadFails(b) \/ JudgeReport(b) \/ BuildDies(b)
  <2>1. /\ files' = files /\ place' = place
        /\ \E to \in {"open", "failed", "refused", "accepted", "dead"} :
             build' = [build EXCEPT ![b] = to]
        /\ base' \in [Builders -> Contents]
    BY <1>5 DEF ReadRun, ReadFails, JudgeReport, Verdicts, BuildDies, BuildStep,
                FilesTyped, Files
  <2>2. BuildHolds' /\ HarnessHolds'
    BY <1>1, <2>1 DEF BuildHolds, HarnessHolds, FilesTyped
  <2> QED BY <1>1, <2>1, <2>2, PublishersRest DEF FilesTyped, publishing
<1> QED BY <1>3, <1>4, <1>5 DEF Build

\* A publisher gathers more, or drops what it has.
LEMMA PublisherKeeps == ASSUME EInv, NEW p \in Publishers, Publish(p) PROVE EInv'
<1> USE DEF EInv
<1>1. UNCHANGED <<files, harness, build, place, base>>
  BY DEF Publish, PublisherStep, run, builds, Validate, Digest, Copy, LookAgain, Rename,
         PublisherDies
<1>2. BuildHolds' /\ HarnessHolds'
  BY <1>1 DEF BuildHolds, HarnessHolds
<1>3. /\ \E to \in {"valid", "copying", "staged", "refused", "published", "failed", "dead"} :
           publisher' = [publisher EXCEPT ![p] = to]
      /\ \E gathered : staged' = [staged EXCEPT ![p] = gathered]
  <2>1. CASE Validate(p) \/ Digest(p) \/ Copy(p)
    BY <2>1 DEF Validate, Digest, Copy, PublisherStep, Keep, FilesTyped
  <2>2. CASE LookAgain(p) \/ Rename(p) \/ PublisherDies(p)
    BY <2>2 DEF LookAgain, Rename, PublisherDies, PublisherStep, Drop, FilesTyped
  <2> QED BY <2>1, <2>2 DEF Publish
<1>4. \A q \in Publishers \ {p} : Gathered(q)'
  BY <1>1, <1>3 DEF Gathered, PublisherHolds, FilesTyped
<1>5. publisher' \in [Publishers -> {"idle", "valid", "copying", "staged", "refused",
                                    "published", "failed", "dead"}]
  BY <1>3 DEF FilesTyped
<1>6. SUFFICES /\ staged'[p] \in [Items -> Contents] /\ published' \in [Items -> Contents]
               /\ Gathered(p)' /\ PublishedAtOnce'
  <2>1. staged' \in [Publishers -> [Items -> Contents]]
    BY <1>3, <1>6 DEF FilesTyped
  <2> QED BY <1>1, <1>2, <1>4, <1>5, <1>6, <2>1 DEF FilesTyped, PublisherHolds
<1>7. /\ Gathered(p) /\ PublishedAtOnce /\ Nothing \in [Items -> Contents]
      /\ files \in [Files -> Contents] /\ published \in [Items -> Contents]
      /\ staged[p] \in [Items -> Contents]
  BY DEF PublisherHolds, FilesTyped, Nothing, Contents
<1>8. ASSUME NEW i \in Items, NEW c \in Contents, Keep(p, i, c)
      PROVE  /\ staged'[p] \in [Items -> Contents] /\ staged'[p][i] = c
             /\ \A j \in Items \ {i} : staged'[p][j] = staged[p][j]
  BY <1>7, <1>8 DEF Keep, FilesTyped
<1>9. CASE Validate(p)
  <2>1. published' = published /\ PublishedAtOnce'
    BY <1>7, <1>9 DEF Validate, PublishedAtOnce, Exists
  <2>2. CASE Valid /\ ~Exists
    <3>1. /\ publisher'[p] = "valid" /\ Keep(p, "readme", files["summary"])
          /\ \A f \in Files : files[f] # "missing"
      BY <1>9, <2>2 DEF Validate, PublisherStep, Valid, FilesTyped
    <3>2. "readme" \in Items /\ files["summary"] \in Contents /\ files["summary"] # "missing"
      BY <1>7, <3>1 DEF Items, Files
    <3>3. staged'[p] \in [Items -> Contents] /\ staged'[p]["readme"] # "missing"
      BY <1>8, <3>1, <3>2
    <3> QED BY <1>1, <1>7, <2>1, <3>1, <3>3 DEF Gathered
  <2>3. CASE ~(Valid /\ ~Exists)
    <3>1. publisher'[p] = "refused" /\ staged' = staged
      BY <1>9, <2>3 DEF Validate, PublisherStep, FilesTyped
    <3> QED BY <1>7, <2>1, <3>1 DEF Gathered
  <2> QED BY <2>2, <2>3
<1>10. CASE Digest(p)
  <2>1. /\ publisher[p] = "valid" /\ publisher'[p] = "copying" /\ published' = published
        /\ Keep(p, "reference", files["records"])
    BY <1>10 DEF Digest, PublisherStep, FilesTyped
  <2>2. /\ "reference" \in Items /\ "readme" \in Items \ {"reference"}
        /\ files["records"] \in Contents /\ files["records"] # "missing"
    BY <1>7, <2>1 DEF Items, Files, Gathered
  <2> QED BY <1>1, <1>7, <1>8, <2>1, <2>2 DEF Gathered, PublishedAtOnce, Exists
<1>11. CASE Copy(p)
  <2>1. PICK k \in 1..Len(Copied) : Keep(p, Copied[k], files[Copied[k]])
    BY <1>11 DEF Copy
  <2>2. Copied[k] \in Items \ {"readme", "reference"} /\ Copied[k] \in Files
    BY DEF Copied, Items, Files
  <2>3. publisher[p] = "copying" /\ publisher'[p] = "copying" /\ published' = published
    BY <1>11 DEF Copy, PublisherStep, FilesTyped
  <2>4. /\ staged'[p] \in [Items -> Contents]
        /\ staged'[p]["readme"] = staged[p]["readme"]
        /\ staged'[p]["reference"] = staged[p]["reference"]
    BY <1>7, <1>8, <2>1, <2>2 DEF Items
  <2> QED BY <1>1, <1>7, <2>3, <2>4 DEF Gathered, PublishedAtOnce, Exists
<1>12. CASE LookAgain(p)
  <2>1. \A i \in Items \ {"readme", "reference"} : staged[p][i] # "missing"
    <3>1. \A k \in 1..5 : staged[p][Copied[k]] # "missing"
      BY <1>12 DEF LookAgain, AllCopied, Copied
    <3>2. /\ Copied[1] = "manifest" /\ Copied[2] = "summary" /\ Copied[3] = "quality"
          /\ Copied[4] = "cost" /\ Copied[5] = "csv"
      BY DEF Copied
    <3> QED BY <3>1, <3>2 DEF Items
  <2>2. publisher[p] = "copying" /\ published' = published
    BY <1>12 DEF LookAgain, PublisherStep
  <2>3. CASE Exists
    BY <1>7, <1>12, <2>2, <2>3
    DEF LookAgain, PublisherStep, Drop, FilesTyped, Gathered, PublishedAtOnce, Exists
  <2>4. CASE ~Exists
    BY <1>1, <1>7, <1>12, <2>1, <2>2, <2>4
    DEF LookAgain, PublisherStep, FilesTyped, Gathered, PublishedAtOnce, Exists
  <2> QED BY <2>3, <2>4
<1>13. CASE Rename(p)
  <2>1. /\ publisher[p] = "staged" /\ publisher'[p] \in {"failed", "published"}
        /\ staged'[p] = Nothing /\ published' = IF Exists THEN published ELSE staged[p]
    BY <1>13 DEF Rename, PublisherStep, Drop, FilesTyped
  <2> QED BY <1>7, <2>1 DEF Gathered, PublishedAtOnce, Exists
<1>14. CASE PublisherDies(p)
  <2>1. publisher'[p] = "dead" /\ staged'[p] = Nothing /\ published' = published
    BY <1>14 DEF PublisherDies, PublisherStep, Drop, FilesTyped
  <2> QED BY <1>7, <2>1 DEF Gathered, PublishedAtOnce, Exists
<1> QED BY <1>9, <1>10, <1>11, <1>12, <1>13, <1>14 DEF Publish

LEMMA Stutters == ASSUME EInv, UNCHANGED vars PROVE EInv'
BY PublishersRest DEF vars, run, builds, publishing, EInv, FilesTyped, BuildHolds, HarnessHolds

LEMMA Steps == ASSUME EInv, [Next]_vars PROVE EInv'
BY HarnessKeeps, BuildKeeps, PublisherKeeps, Stutters DEF Next

THEOREM Invariance == Spec => []EInv
BY Initially, Steps, PTL DEF Spec
------------------------------------------------------------------------------
\* No crash makes a run look measured that was not.
THEOREM CompletedIsMeasured == Spec => []CompletedMeansMeasured
<1>1. EInv => CompletedMeansMeasured
  BY DEF EInv, HarnessHolds, CompletedMeansMeasured, Completed
<1> QED BY <1>1, Invariance, PTL

\* A publication is never there in part.
THEOREM PublicationIsAtomic == Spec => []PublishedAtOnce
<1>1. EInv => PublishedAtOnce
  BY DEF EInv, PublisherHolds
<1> QED BY <1>1, Invariance, PTL

\* Racing publishers publish one of them, once.
THEOREM PublicationIsFinal == Spec => PublishedOnce
<1>1. [Next]_vars => [Exists => published' = published]_vars
  BY DEF Next, Harness, HarnessStep, MakeRun, WriteManifest, LoadFails, OpenRecords,
     WriteRecords, OpenManifest, PartManifest, CompleteManifest, HarnessDies, Build,
     BuildStep, ReadRun, ReadFails, OpenReport, WriteReport, JudgeReport, BuildDies, Publish, Validate, Digest,
     Copy, LookAgain, Rename, PublisherDies
<1> QED BY <1>1, PTL DEF Spec, PublishedOnce

\* A finalized manifest is immutable.
THEOREM ManifestIsFinal == Spec => FinalManifestKept
<1>1. ASSUME EInv, EInv', [Next]_vars
      PROVE  [files["manifest"] = "completed" => files'["manifest"] = "completed"]_vars
  <2>1. CASE Harness
    BY <1>1, <2>1 DEF EInv, HarnessHolds, FilesTyped, Files, Harness, HarnessStep, MakeRun,
       WriteManifest, LoadFails, OpenRecords, WriteRecords, OpenManifest, PartManifest,
       CompleteManifest, HarnessDies, Set
  <2>2. ASSUME NEW b \in Builders, Build(b) PROVE files'["manifest"] = files["manifest"]
    <3>0. /\ Len(Reports) = 4 /\ "torn" \in Contents /\ b \in Contents
          /\ place[b] \in 1..Len(Reports) + 1
      BY <1>1 DEF EInv, FilesTyped, Contents, Reports
    <3>1. ASSUME NEW k \in 1..Len(Reports), NEW c \in Contents, Set(Reports[k], c)
          PROVE  files'["manifest"] = files["manifest"]
      <4>1. Reports[k] \in Files \ {"manifest", "records"} /\ FilesTyped
        BY <1>1, ReportsAre DEF EInv
      <4> QED BY <3>1, <4>1, FileWritten DEF Files
    <3>2. CASE OpenReport(b)
      <4>1. place[b] \in 1..Len(Reports) /\ "torn" \in Contents
        BY <3>0, <3>2 DEF OpenReport
      <4> QED BY <3>1, <3>2, <4>1 DEF OpenReport
    <3>3. CASE WriteReport(b)
      <4>1. place[b] \in 1..Len(Reports) /\ b \in Contents /\ "torn" \in Contents
        BY <1>1, <3>0, <3>3 DEF EInv, BuildHolds, WriteReport, BuildStep
      <4> QED BY <3>1, <3>3, <4>1 DEF WriteReport
    <3> QED BY <2>2, <3>2, <3>3 DEF Build, ReadRun, ReadFails, JudgeReport, BuildDies
  <2>3. ASSUME NEW p \in Publishers, Publish(p) PROVE files' = files
    BY <2>3 DEF Publish, PublisherStep, Validate, Digest, Copy, LookAgain, Rename,
       PublisherDies
  <2> QED BY <1>1, <2>1, <2>2, <2>3 DEF Next
<1> QED BY <1>1, Invariance, PTL DEF Spec, FinalManifestKept
------------------------------------------------------------------------------
\* The disciplined operator.  A build at work is alone, so the files of the report
\* are its own up to the one it is at; when none is at work they are all of the last
\* build, and stay so while a publisher copies them.

Over == harness \in {"failed", "done", "dead"}

\* A build that has read the run.
HasRead(b) == build[b] \notin {"idle", "failed"}

Working(p) == publisher[p] \in {"valid", "copying", "staged"}

\* The whole report is of one build.
ReportOf(b) ==
  /\ HasRead(b)
  /\ \A k \in 1..Len(Reports) : files[Reports[k]] = b

OrderedBuilds ==
  /\ \A b \in Builders : build[b] = "idle" => place[b] = 1
  /\ \A b \in Builders : HasRead(b) => Over /\ base[b] = files["records"]
  /\ \A b \in Builders : AtWork(b) =>
       \A k \in 1..Len(Reports) : k < place[b] => files[Reports[k]] = b
  /\ \A b \in Builders : build[b] = "write" => files[Reports[place[b]]] = "torn"
  /\ (\A b \in Builders : ~AtWork(b)) =>
       \/ \A k \in 1..Len(Reports) : files[Reports[k]] = "missing"
       \/ \E b \in Builders : ReportOf(b)

\* A publisher has copied what is there, of one build.
CopiesOf(p, b) ==
  /\ staged[p]["readme"] = b
  /\ \A i \in {"manifest", "summary", "quality", "cost", "csv"} :
       staged[p][i] \in {"missing", files[i]}
  /\ publisher[p] \in {"copying", "staged"} => staged[p]["reference"] = files["records"]

OrderedPublishers ==
  \A p \in Publishers :
    /\ publisher[p] = "idle" => staged[p] = Nothing
    /\ Working(p) => \E b \in Builders : ReportOf(b) /\ CopiesOf(p, b)

\* The publication tells one build that has read the run.
PublicationOf(b) ==
  /\ HasRead(b)
  /\ \A i \in {"summary", "quality", "cost", "csv", "readme"} : published[i] = b
  /\ published["manifest"] \in Completed =>
       base[b] = "whole" /\ published["reference"] = "whole"

OInv ==
  /\ Orderly
  /\ OrderedBuilds
  /\ OrderedPublishers
  /\ Exists => \E b \in Builders : PublicationOf(b)

LEMMA ReportNames ==
  /\ Len(Reports) = 4
  /\ Reports[1] = "summary" /\ Reports[2] = "quality"
  /\ Reports[3] = "cost" /\ Reports[4] = "csv"
  /\ \A j, k \in 1..Len(Reports) : Reports[j] = Reports[k] => j = k
BY DEF Reports

LEMMA OrderlyInit == Init => OInv
<1> SUFFICES ASSUME Init PROVE OInv
  OBVIOUS
<1>1. \A k \in 1..Len(Reports) : files[Reports[k]] = "missing"
  BY ReportsAre DEF Init
<1>2. Orderly /\ OrderedBuilds
  BY <1>1 DEF Init, Orderly, AtWork, OrderedBuilds, HasRead
<1>3. OrderedPublishers /\ ~Exists
  BY DEF Init, OrderedPublishers, Working, Exists
<1> QED BY <1>2, <1>3 DEF OInv

\* A harness that is still to write has been read by nobody.
LEMMA HarnessOrdered ==
  ASSUME EInv, OInv, Harness, Orderly'
  PROVE  OInv'
<1>1. ~Over /\ UNCHANGED <<builds, publishing, published>>
  BY DEF Over, Harness, HarnessStep, MakeRun, WriteManifest, LoadFails, OpenRecords,
         WriteRecords, OpenManifest, PartManifest, CompleteManifest, HarnessDies
<1>2. \A b \in Builders : ~HasRead(b) /\ ~AtWork(b) /\ ~ReportOf(b) /\ ~PublicationOf(b)
  BY <1>1 DEF OInv, OrderedBuilds, HasRead, AtWork, ReportOf, PublicationOf
<1>3. \A p \in Publishers : ~Working(p)
  BY <1>2 DEF OInv, OrderedPublishers
<1>4. \A k \in 1..Len(Reports) : files'[Reports[k]] = files[Reports[k]]
  <2> SUFFICES ASSUME NEW k \in 1..Len(Reports)
               PROVE  files'[Reports[k]] = files[Reports[k]]
    OBVIOUS
  <2>1. Reports[k] \in Files \ {"manifest", "records"}
    BY ReportsAre
  <2> QED BY <2>1 DEF EInv, FilesTyped, Set, Harness, MakeRun, WriteManifest, LoadFails,
             OpenRecords, WriteRecords, OpenManifest, PartManifest, CompleteManifest, HarnessDies
<1>5. OrderedBuilds'
  BY <1>1, <1>2, <1>4 DEF OInv, OrderedBuilds, HasRead, AtWork, builds
<1>6. OrderedPublishers' /\ ~Exists'
  BY <1>1, <1>2, <1>3 DEF OInv, OrderedPublishers, Working, Exists, publishing
<1> QED BY <1>5, <1>6 DEF OInv

\* A step of a build at work finds no publisher at work, and what has been published
\* stays as it is.
LEMMA BuildAlone ==
  ASSUME EInv, OInv, NEW b \in Builders, AtWork(b),
         Build(b), OrderedBuilds', Orderly'
  PROVE  OInv'
<1>1. \A p \in Publishers : ~Working(p)
  BY DEF OInv, Orderly, Working
<1>2. /\ UNCHANGED <<publisher, staged, published>>
      /\ base' = base
      /\ \A c \in Builders : HasRead(c) => HasRead(c)'
  BY DEF Build, BuildStep, ReadRun, ReadFails, OpenReport, WriteReport, JudgeReport,
         Verdicts, BuildDies, AtWork, publishing, HasRead, EInv, FilesTyped
<1>3. OrderedPublishers'
  BY <1>1, <1>2 DEF OInv, OrderedPublishers, Working
<1>4. \A c \in Builders : PublicationOf(c) => PublicationOf(c)'
  BY <1>2 DEF PublicationOf
<1>5. Exists' <=> Exists
  BY <1>2 DEF Exists
<1> QED BY <1>3, <1>4, <1>5 DEF OInv

LEMMA ReadOrdered ==
  ASSUME EInv, OInv, NEW b \in Builders, ReadRun(b) \/ ReadFails(b), Orderly'
  PROVE  OInv'
<1>1. /\ build[b] = "idle" /\ files' = files /\ place' = place /\ harness' = harness
      /\ UNCHANGED <<publisher, staged, published>>
      /\ \A c \in Builders \ {b} : build'[c] = build[c] /\ base'[c] = base[c]
  BY DEF ReadRun, ReadFails, BuildStep, run, publishing, EInv, FilesTyped
<1>2. \A c \in Builders : PublicationOf(c) => PublicationOf(c)'
  BY <1>1 DEF PublicationOf, HasRead
<1>3. \A c \in Builders : ReportOf(c) => ReportOf(c)'
  BY <1>1 DEF ReportOf, HasRead
<1>4. OrderedPublishers'
  BY <1>1, <1>3 DEF OInv, OrderedPublishers, Working, CopiesOf
<1>5. CASE ReadRun(b)
  <2>1. build'[b] = "open" /\ base'[b] = files["records"] /\ place[b] = 1
    BY <1>1, <1>5 DEF ReadRun, BuildStep, EInv, FilesTyped, OInv, OrderedBuilds
  <2>2. Over' /\ \A c \in Builders \ {b} : ~AtWork(c)'
    BY <2>1 DEF Orderly, AtWork, Over
  <2>3. OrderedBuilds'
    BY <1>1, <2>1, <2>2 DEF OInv, OrderedBuilds, HasRead, AtWork, Over
  <2> QED BY <1>1, <1>2, <1>4, <2>3 DEF OInv, Exists
<1>6. CASE ReadFails(b)
  <2>1. build'[b] = "failed" /\ base' = base
    BY <1>6 DEF ReadFails, BuildStep, EInv, FilesTyped
  <2>2. OrderedBuilds'
    BY <1>1, <1>3, <2>1 DEF OInv, OrderedBuilds, HasRead, AtWork, Over
  <2> QED BY <1>1, <1>2, <1>4, <2>2 DEF OInv, Exists
<1> QED BY <1>5, <1>6

LEMMA BuildOrdered ==
  ASSUME EInv, OInv, NEW b \in Builders, Build(b), Orderly'
  PROVE  OInv'
<1>1. CASE ReadRun(b) \/ ReadFails(b)
  BY <1>1, ReadOrdered
<1>2. CASE OpenReport(b)
  <2>1. /\ build[b] = "open" /\ build' = [build EXCEPT ![b] = "write"]
        /\ place[b] \in 1..Len(Reports) /\ Set(Reports[place[b]], "torn")
        /\ UNCHANGED <<place, base, harness>>
    BY <1>2 DEF OpenReport, BuildStep, run, EInv, FilesTyped, Reports
  <2>2. AtWork(b) /\ \A c \in Builders \ {b} : ~AtWork(c)
    BY <2>1 DEF AtWork, OInv, Orderly
  <2>3. /\ files'["records"] = files["records"]
        /\ files'[Reports[place[b]]] = "torn"
        /\ \A k \in 1..Len(Reports) : k # place[b] => files'[Reports[k]] = files[Reports[k]]
    BY <2>1, ReportsAre, ReportNames, FileWritten DEF EInv, Contents, Files
  <2>4. build'[b] = "write" /\ \A c \in Builders \ {b} : build'[c] = build[c]
    BY <2>1 DEF EInv, FilesTyped
  <2>5. \A k \in 1..Len(Reports) : k < place[b] => k # place[b]
    BY <2>1
  <2>6. OrderedBuilds'
    BY <2>1, <2>2, <2>3, <2>4, <2>5 DEF OInv, OrderedBuilds, HasRead, AtWork, Over
  <2> QED BY <2>2, <2>6, BuildAlone
<1>3. CASE WriteReport(b)
  <2>1. /\ build[b] = "write" /\ build' = [build EXCEPT ![b] = "open"]
        /\ place[b] \in 1..Len(Reports)
        /\ place' = [place EXCEPT ![b] = @ + 1]
        /\ UNCHANGED <<base, harness>>
    BY <1>3 DEF WriteReport, BuildStep, run, EInv, FilesTyped, BuildHolds, Reports
  <2>2. AtWork(b) /\ \A c \in Builders \ {b} : ~AtWork(c)
    BY <2>1 DEF AtWork, OInv, Orderly
  <2>3. Set(Reports[place[b]], b)
    BY <1>3, <2>1 DEF WriteReport, OInv, OrderedBuilds
  <2>4. /\ files'["records"] = files["records"]
        /\ files'[Reports[place[b]]] = b
        /\ \A k \in 1..Len(Reports) : k # place[b] => files'[Reports[k]] = files[Reports[k]]
    <3>1. Reports[place[b]] \in Files \ {"manifest", "records"} /\ b \in Contents
      BY <2>1, ReportsAre DEF Contents
    <3>2. /\ files'[Reports[place[b]]] = b
          /\ \A g \in Files \ {Reports[place[b]]} : files'[g] = files[g]
      BY <2>3, <3>1, FileWritten DEF EInv
    <3> QED BY <2>1, <3>1, <3>2, ReportsAre, ReportNames DEF Files
  <2>5. place'[b] = place[b] + 1 /\ \A c \in Builders \ {b} : place'[c] = place[c]
    BY <2>1 DEF EInv, FilesTyped
  <2>6. \A k \in 1..Len(Reports) : k < place'[b] => files'[Reports[k]] = b
    <3>1. \A k \in 1..Len(Reports) : k < place'[b] => k < place[b] \/ k = place[b]
      BY <2>1, <2>5
    <3> QED BY <2>2, <2>4, <3>1 DEF OInv, OrderedBuilds
  <2>7. OrderedBuilds'
    BY <2>1, <2>2, <2>4, <2>5, <2>6
       DEF OInv, OrderedBuilds, HasRead, AtWork, Over, EInv, FilesTyped
  <2> QED BY <2>2, <2>7, BuildAlone
<1>4. CASE JudgeReport(b)
  <2>1. /\ build[b] = "open"
        /\ \E verdict \in {"accepted", "refused"} :
             build' = [build EXCEPT ![b] = verdict]
        /\ place[b] > Len(Reports)
        /\ UNCHANGED <<files, place, base, harness>>
    BY <1>4 DEF JudgeReport, Verdicts, Written, BuildStep, run
  <2>2. AtWork(b) /\ \A c \in Builders \ {b} : ~AtWork(c)
    BY <2>1 DEF AtWork, OInv, Orderly
  <2>3. ReportOf(b)'
    <3>1. \A k \in 1..Len(Reports) : k < place[b]
      BY <2>1, ReportNames DEF EInv, FilesTyped
    <3>2. \A k \in 1..Len(Reports) : files[Reports[k]] = b
      BY <2>2, <3>1 DEF OInv, OrderedBuilds
    <3> QED BY <2>1, <3>2 DEF ReportOf, HasRead, EInv, FilesTyped
  <2>4. OrderedBuilds'
    BY <2>1, <2>2, <2>3
       DEF OInv, OrderedBuilds, HasRead, AtWork, Over, EInv, FilesTyped
  <2> QED BY <2>2, <2>4, BuildAlone
<1>5. CASE BuildDies(b)
  BY <1>5 DEF BuildDies, BuildStep, Orderly, EInv, FilesTyped
<1> QED BY <1>1, <1>2, <1>3, <1>4, <1>5 DEF Build

LEMMA PublisherOrdered ==
  ASSUME EInv, OInv, NEW p \in Publishers, Publish(p), Orderly'
  PROVE  OInv'
<1>1. UNCHANGED <<files, harness, build, place, base>>
  BY DEF Publish, PublisherStep, run, builds, Validate, Digest, Copy, LookAgain, Rename,
         PublisherDies
<1>2. OrderedBuilds'
  BY <1>1 DEF OInv, OrderedBuilds, HasRead, AtWork, Over, ReportOf
<1>3. \A b \in Builders : ReportOf(b)' = ReportOf(b) /\ HasRead(b)' = HasRead(b)
  BY <1>1 DEF ReportOf, HasRead
<1>4. /\ \A q \in Publishers \ {p} :
           publisher'[q] = publisher[q] /\ staged'[q] = staged[q]
      /\ publisher'[p] # "idle"
  <2>1. CASE Validate(p) \/ Digest(p) \/ Copy(p)
    BY <2>1 DEF Validate, Digest, Copy, PublisherStep, Keep, EInv, FilesTyped
  <2>2. CASE LookAgain(p) \/ Rename(p) \/ PublisherDies(p)
    BY <2>2 DEF LookAgain, Rename, PublisherDies, PublisherStep, Drop, EInv, FilesTyped
  <2> QED BY <2>1, <2>2 DEF Publish
<1>5. ASSUME published' = published
      PROVE  Exists' => \E b \in Builders : PublicationOf(b)'
  BY <1>1, <1>3, <1>5 DEF OInv, Exists, PublicationOf
<1>6. SUFFICES /\ Working(p)' => \E b \in Builders : ReportOf(b) /\ CopiesOf(p, b)'
               /\ Exists' => \E b \in Builders : PublicationOf(b)'
  <2>1. ASSUME NEW q \in Publishers \ {p}
        PROVE  /\ Working(q)' = Working(q)
               /\ \A b \in Builders : CopiesOf(q, b) => CopiesOf(q, b)'
    BY <1>1, <1>4 DEF Working, CopiesOf
  <2>2. OrderedPublishers'
    BY <1>3, <1>4, <1>6, <2>1 DEF OInv, OrderedPublishers
  <2> QED BY <1>2, <1>6, <2>2 DEF OInv
<1>7. ASSUME NEW i \in Items, NEW c, Keep(p, i, c)
      PROVE  staged'[p][i] = c /\ \A j \in Items \ {i} : staged'[p][j] = staged[p][j]
  BY <1>7 DEF Keep, EInv, FilesTyped
<1>8. {"manifest", "summary", "quality", "cost", "csv"} = Items \ {"readme", "reference"}
  BY DEF Items
<1>9. CASE Validate(p)
  <2>1. published' = published
    BY <1>9 DEF Validate
  <2>2. ASSUME Working(p)'
        PROVE  \E b \in Builders : ReportOf(b) /\ CopiesOf(p, b)'
    <3>1. /\ Valid /\ publisher'[p] = "valid" /\ publisher[p] = "idle"
          /\ Keep(p, "readme", files["summary"])
      BY <1>9, <2>2 DEF Validate, PublisherStep, Working, EInv, FilesTyped
    <3>2. \A b \in Builders : ~AtWork(b)
      BY <1>1, <2>2 DEF Orderly, Working, AtWork
    <3>3. 1 \in 1..Len(Reports) /\ files[Reports[1]] # "missing"
      BY <3>1, ReportNames DEF Valid, Files
    <3>4. PICK b \in Builders : ReportOf(b)
      BY <3>2, <3>3 DEF OInv, OrderedBuilds
    <3>5. files["summary"] = b
      BY <3>3, <3>4, ReportNames DEF ReportOf
    <3>6. staged[p] = Nothing
      BY <3>1 DEF OInv, OrderedPublishers
    <3>7. CopiesOf(p, b)'
      BY <1>1, <1>7, <1>8, <3>1, <3>5, <3>6 DEF CopiesOf, Items, Nothing
    <3> QED BY <3>4, <3>7
  <2> QED BY <1>5, <2>1, <2>2
<1>10. CASE Digest(p) \/ Copy(p) \/ (LookAgain(p) /\ ~Exists)
  <2>1. published' = published /\ Working(p)
    BY <1>10 DEF Digest, Copy, LookAgain, PublisherStep, Working
  <2>2. PICK b \in Builders : ReportOf(b) /\ CopiesOf(p, b)
    BY <2>1 DEF OInv, OrderedPublishers
  <2>3. CASE Digest(p)
    <3>1. Keep(p, "reference", files["records"])
      BY <2>3 DEF Digest
    <3>2. CopiesOf(p, b)'
      BY <1>1, <1>7, <1>8, <2>2, <3>1 DEF CopiesOf, Items
    <3> QED BY <1>5, <2>1, <2>2, <3>2
  <2>4. CASE Copy(p)
    <3>1. PICK k \in 1..Len(Copied) : Keep(p, Copied[k], files[Copied[k]])
      BY <2>4 DEF Copy
    <3>2. Copied[k] \in Items \ {"readme", "reference"}
      BY DEF Copied, Items
    <3>3. publisher[p] = "copying"
      BY <2>4 DEF Copy, PublisherStep
    <3>4. CopiesOf(p, b)'
      BY <1>1, <1>7, <1>8, <2>2, <3>1, <3>2, <3>3 DEF CopiesOf, Items
    <3> QED BY <1>5, <2>1, <2>2, <3>4
  <2>5. CASE LookAgain(p) /\ ~Exists
    <3>1. publisher[p] = "copying" /\ staged' = staged
      BY <2>5 DEF LookAgain, PublisherStep
    <3>2. CopiesOf(p, b)'
      BY <1>1, <2>2, <3>1 DEF CopiesOf
    <3> QED BY <1>5, <2>1, <2>2, <3>2
  <2> QED BY <1>10, <2>3, <2>4, <2>5
<1>11. CASE (LookAgain(p) /\ Exists) \/ PublisherDies(p) \/ (Rename(p) /\ Exists)
  <2>1. published' = published /\ ~Working(p)'
    BY <1>11 DEF LookAgain, PublisherDies, Rename, PublisherStep, Working, EInv, FilesTyped
  <2> QED BY <1>5, <2>1
<1>12. CASE Rename(p) /\ ~Exists
  <2>1. publisher[p] = "staged" /\ ~Working(p)' /\ published' = staged[p]
    BY <1>12 DEF Rename, PublisherStep, Working, EInv, FilesTyped
  <2>2. PICK b \in Builders : ReportOf(b) /\ CopiesOf(p, b)
    BY <2>1 DEF OInv, OrderedPublishers, Working
  <2>3. \A i \in Items : staged[p][i] # "missing"
    BY <2>1 DEF EInv, PublisherHolds, Gathered
  <2>4. \A i \in {"manifest", "summary", "quality", "cost", "csv"} :
          published'[i] = files[i]
    BY <1>8, <2>1, <2>2, <2>3 DEF CopiesOf
  <2>5. files["summary"] = b /\ files["quality"] = b /\ files["cost"] = b /\ files["csv"] = b
    <3>1. \A k \in 1..4 : files[Reports[k]] = b
      BY <2>2, ReportNames DEF ReportOf
    <3> QED BY <3>1, ReportNames
  <2>6. published'["readme"] = b /\ published'["reference"] = files["records"]
    BY <2>1, <2>2 DEF CopiesOf
  <2>7. HasRead(b) /\ base[b] = files["records"]
    BY <2>2 DEF ReportOf, OInv, OrderedBuilds
  <2>8. files["manifest"] \in Completed => files["records"] = "whole"
    BY DEF EInv, HarnessHolds, Completed
  <2>9. PublicationOf(b)'
    BY <1>1, <1>3, <2>4, <2>5, <2>6, <2>7, <2>8 DEF PublicationOf
  <2> QED BY <2>1, <2>9
<1> QED BY <1>9, <1>10, <1>11, <1>12 DEF Publish

LEMMA OrderlyStutters == ASSUME OInv, UNCHANGED vars PROVE OInv'
BY DEF vars, run, builds, publishing, OInv, Orderly, AtWork, OrderedBuilds, HasRead, Over,
       ReportOf, OrderedPublishers, Working, CopiesOf, Exists, PublicationOf

\* Evidence.PublishedIsOneBuild: where builds and publishers keep out of each other's
\* way, a publication is of one build, the last before it, and tells all the records
\* of a completed run (scripts/publish-run.py, publish_run; report.py, build_report).
THEOREM PublicationIsOneBuild == OrderlySpec => []PublishedIsOneBuild
<1>1. OrderlySpec => []EInv
  <2>1. [Next /\ Orderly']_vars => [Next]_vars
    OBVIOUS
  <2> QED BY <2>1, Invariance, PTL DEF OrderlySpec, Spec
<1>2. EInv /\ OInv /\ [Next /\ Orderly']_vars => OInv'
  BY HarnessOrdered, BuildOrdered, PublisherOrdered, OrderlyStutters DEF Next
<1>3. OInv => PublishedIsOneBuild
  BY DEF OInv, PublicationOf, PublishedIsOneBuild
<1> QED BY <1>1, <1>2, <1>3, OrderlyInit, PTL DEF OrderlySpec
=============================================================================
