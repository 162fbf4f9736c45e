-------------------------- MODULE ComparisonProofs --------------------------
(***************************************************************************)
(* Proofs about comparisons, for every set of runs, directories, commands  *)
(* and cases: a supported claim is about runs that the publisher takes and *)
(* is true of their records, commands that do not overlap leave every      *)
(* report with its newest comparison, and which of two runs is named first *)
(* does not change who wins.                                               *)
(*                                                                         *)
(* The costs are totals over the repeats of a run, folds of the library.   *)
(* What is needed of them is proved by induction over the subsets of a     *)
(* finite set, from the least size of a set that fails.                    *)
(***************************************************************************)
EXTENDS Comparison, FiniteSetTheorems, WellFoundedInduction, NaturalsInduction, TLAPS

\* A comparison says what the records of its pair say, by the bases it was given.
FromRecords(x) ==
  /\ x.pair \in Pairs /\ effect[x.pair] # NoEffect
  /\ x.bases \in Nat \X Nat
  /\ x.costs = CostsOf(x.pair, x.bases[1], x.bases[2])
  /\ x.direction = Judged(x.pair)
  /\ x.supported = Claimable(x.pair, x.costs)
Backed(x) == x # Nothing => FromRecords(x)
Drafted(x) ==
  FromRecords(x) /\ {"pair", "bases", "costs", "direction", "supported"} \subseteq DOMAIN x

\* What a command has drawn up so far it has drawn up from records.
CommandBacked(c) ==
  /\ command[c].step \in {"read", "write", "build", "save"} => command[c].basis \in Nat
  /\ command[c].step = "read" => command[c].preferred \in Pairs /\ command[c].first \in Nat
  /\ command[c].step = "write" =>
       command[c].preferred \in Pairs /\ Drafted(command[c].draft)
  /\ command[c].step \in {"build", "save"} =>
       /\ command[c].preferred \in Pairs \cup {<<>>}
       /\ DOMAIN command[c] = {"step", "preferred", "todo", "basis", "draft"}
  /\ command[c].step = "save" =>
       command[c].draft.basis \in Nat /\ Backed(command[c].draft.embedded)

\* The evidence is that of a case, and stays so.
FromCase == \E x \in Cases : evidence = x.evidence /\ effect = x.effect

CInv ==
  /\ FromCase
  /\ \A r \in Runs : Admitted(evidence[r].env)
  /\ DOMAIN file = Pairs /\ \A p \in Pairs : Backed(file[p])
  /\ DOMAIN summary = Runs
  /\ \A r \in Runs : summary[r].basis \in Nat /\ Backed(summary[r].embedded)
  /\ DOMAIN command = Commands /\ \A c \in Commands : CommandBacked(c)
------------------------------------------------------------------------------
\* What is known of the evidence, whichever case it is of.
LEMMA CaseTypes ==
  ASSUME FromCase
  PROVE  /\ \A r \in Runs : /\ evidence[r].repeats \in Seq(Repeats) \ {<<>>}
                           /\ evidence[r].measured \in Nat
         /\ \A p \in Pairs :
              \/ effect[p] = NoEffect /\ effect[Swapped(p)] = NoEffect
              \/ effect[p] \in Intervals /\ effect[Swapped(p)] = Mirror(effect[p])
BY CasesAssumption DEF FromCase

LEMMA BasesAreHours ==
  ASSUME FromCase, NEW runs \in SUBSET Runs, NEW basis \in Bases(runs)
  PROVE  basis \in Nat
BY CaseTypes DEF Bases, BySpan

\* A comparison that is drawn up is drawn up from records.
LEMMA ComparedIsBacked ==
  ASSUME NEW p \in Pairs, effect[p] # NoEffect, NEW a \in Nat, NEW b \in Nat
  PROVE  Drafted(Compared(p, a, b))
<1> DEFINE x == Compared(p, a, b)
<1>1. /\ x.pair = p /\ x.bases = <<a, b>> /\ x.costs = CostsOf(p, a, b)
      /\ x.direction = Judged(p) /\ x.supported = Claimable(p, CostsOf(p, a, b))
      /\ {"pair", "bases", "costs", "direction", "supported"} \subseteq DOMAIN x
  BY DEF Compared
<1> HIDE DEF x
<1>2. x.bases \in Nat \X Nat /\ x.bases[1] = a /\ x.bases[2] = b
  BY <1>1
<1>3. FromRecords(x)
  BY <1>1, <1>2 DEF FromRecords
<1>4. Drafted(x)
  BY <1>1, <1>3 DEF Drafted
<1> QED BY <1>4 DEF x

\* What is backed stays so while the evidence does.
LEMMA RecordsStay ==
  ASSUME UNCHANGED fixed
  PROVE  \A x : (Backed(x)' <=> Backed(x)) /\ (Drafted(x)' <=> Drafted(x))
<1>1. \A p : Delta(p)' = Delta(p) /\ Judged(p)' = Judged(p)
  BY DEF Delta, Judged, fixed
<1>2. \A p, a, b : CostsOf(p, a, b)' = CostsOf(p, a, b)
  BY DEF CostsOf, fixed
<1>3. \A p, costs : Claimable(p, costs)' <=> Claimable(p, costs)
  BY <1>1 DEF Claimable, fixed
<1>4. \A x : FromRecords(x)' <=> FromRecords(x)
  BY <1>1, <1>2, <1>3 DEF FromRecords, fixed
<1> QED BY <1>4 DEF Backed, Drafted

\* What a build may embed is backed.
LEMMA EmbeddedIsBacked ==
  ASSUME CInv, NEW r, NEW p \in Pairs \cup {<<>>}, NEW x \in ComparisonsFor(r, p)
  PROVE  Backed(x)
<1>1. CASE p # <<>>
  BY <1>1 DEF ComparisonsFor, CInv
<1>2. CASE p = <<>> /\ Mentions(r) # {}
  BY <1>2 DEF ComparisonsFor, CInv, Newest, Mentions
<1>3. CASE p = <<>> /\ Mentions(r) = {}
  BY <1>3 DEF ComparisonsFor, Backed
<1> QED BY <1>1, <1>2, <1>3

\* A step that keeps the files, the reports and the evidence, and moves one command
\* to a state that is backed, keeps the invariant.
LEMMA BecomeKeeps ==
  ASSUME CInv, NEW c \in Commands, NEW s, Become(c, s), UNCHANGED <<fixed, disk>>,
         s.step \in {"read", "write", "build", "save"} => s.basis \in Nat,
         s.step = "read" => s.preferred \in Pairs /\ s.first \in Nat,
         s.step = "write" => s.preferred \in Pairs /\ Drafted(s.draft),
         s.step \in {"build", "save"} =>
           /\ s.preferred \in Pairs \cup {<<>>}
           /\ DOMAIN s = {"step", "preferred", "todo", "basis", "draft"},
         s.step = "save" => s.draft.basis \in Nat /\ Backed(s.draft.embedded)
  PROVE  CInv'
<1>1. \A d \in Commands : command'[d] = IF d = c THEN s ELSE command[d]
  BY DEF Become, CInv
<1>2. \A x : (Backed(x)' <=> Backed(x)) /\ (Drafted(x)' <=> Drafted(x))
  BY RecordsStay DEF fixed
<1>3. ASSUME NEW d \in Commands PROVE CommandBacked(d)'
  <2>1. CASE d = c
    BY <1>1, <1>2, <2>1 DEF CommandBacked
  <2>2. CASE d # c
    BY <1>1, <1>2, <2>2 DEF CommandBacked, CInv
  <2> QED BY <2>1, <2>2
<1>4. DOMAIN command' = Commands
  BY DEF Become, CInv
<1> QED BY <1>2, <1>3, <1>4 DEF CInv, FromCase, fixed, disk

LEMMA ComparisonInit == Init => CInv
<1> SUFFICES ASSUME Init PROVE CInv
  OBVIOUS
<1>1. \A r \in Runs : Admitted(evidence[r].env)
  BY DEF Init
<1>2. DOMAIN file = Pairs /\ \A p \in Pairs : Backed(file[p])
  BY DEF Init, Backed
<1>3. /\ DOMAIN summary = Runs
      /\ \A r \in Runs : summary[r].basis \in Nat /\ Backed(summary[r].embedded)
  BY DEF Init, Backed, BySpan
<1>4. DOMAIN command = Commands /\ \A c \in Commands : CommandBacked(c)
  BY DEF Init, CommandBacked, Idle
<1>5. FromCase
  BY DEF Init, FromCase
<1> QED BY <1>1, <1>2, <1>3, <1>4, <1>5 DEF CInv

LEMMA ComparisonNext == CInv /\ [Next]_vars => CInv'
<1> SUFFICES ASSUME CInv, [Next]_vars PROVE CInv'
  OBVIOUS
<1>0. CASE UNCHANGED vars
  <2>1. \A x : (Backed(x)' <=> Backed(x)) /\ (Drafted(x)' <=> Drafted(x))
    BY <1>0, RecordsStay DEF vars
  <2>2. \A c \in Commands : CommandBacked(c)' <=> CommandBacked(c)
    BY <1>0, <2>1 DEF CommandBacked, vars
  <2> QED BY <1>0, <2>1, <2>2 DEF CInv, FromCase, vars, fixed, disk
<1> SUFFICES ASSUME NEW c \in Commands,
               \/ Report(c) \/ Compare(c) \/ ReadSecond(c) \/ WriteComparison(c)
               \/ Build(c) \/ Save(c) \/ Kill(c)
             PROVE CInv'
  BY <1>0 DEF Next
<1>1. CASE Report(c)
  <2>0. PICK r \in Runs : \E basis \in Bases({r}) :
          Begin(c, [step |-> "build", preferred |-> <<>>, todo |-> <<r>>, basis |-> basis,
                    draft |-> Nothing])
    BY <1>1 DEF Report
  <2>1. PICK basis \in Bases({r}) :
          Begin(c, [step |-> "build", preferred |-> <<>>, todo |-> <<r>>, basis |-> basis,
                    draft |-> Nothing])
    BY <2>0
  <2>2. basis \in Nat
    BY BasesAreHours DEF CInv
  <2> QED BY <1>1, <2>1, <2>2, BecomeKeeps DEF Report, Begin
<1>2. CASE Compare(c)
  <2>0. PICK p \in Pairs : \E basis \in Bases({p[1], p[2]}) :
          Begin(c, [step |-> "read", preferred |-> p, basis |-> basis,
                    first |-> summary[p[1]].basis])
    BY <1>2 DEF Compare
  <2>1. PICK basis \in Bases({p[1], p[2]}) :
          Begin(c, [step |-> "read", preferred |-> p, basis |-> basis,
                    first |-> summary[p[1]].basis])
    BY <2>0
  <2>2. p[1] \in Runs /\ p[2] \in Runs
    BY DEF Pairs
  <2>3. basis \in Nat /\ summary[p[1]].basis \in Nat
    BY <2>2, BasesAreHours DEF CInv
  <2> QED BY <1>2, <2>1, <2>3, BecomeKeeps DEF Compare, Begin
<1>3. CASE ReadSecond(c)
  <2> DEFINE p == command[c].preferred
             x == Compared(p, command[c].first, summary[p[2]].basis)
  <2>1. /\ p \in Pairs /\ p[2] \in Runs
        /\ command[c].basis \in Nat /\ command[c].first \in Nat
    BY <1>3 DEF ReadSecond, CInv, CommandBacked, Pairs
  <2>2. CASE effect[p] = NoEffect
    BY <1>3, <2>2, BecomeKeeps DEF ReadSecond, Idle
  <2>3. CASE effect[p] # NoEffect
    <3>1. Become(c, [step |-> "write", preferred |-> p, basis |-> command[c].basis,
                     draft |-> x])
      BY <1>3, <2>3 DEF ReadSecond
    <3>2. Drafted(x)
      BY <2>1, <2>3, ComparedIsBacked DEF CInv
    <3> HIDE DEF x
    <3> QED BY <1>3, <2>1, <3>1, <3>2, BecomeKeeps DEF ReadSecond
  <2> QED BY <2>2, <2>3
<1>4. CASE WriteComparison(c)
  <2> DEFINE p == command[c].preferred
             x == [command[c].draft EXCEPT !.written = writes + 1]
             s == [step |-> "build", preferred |-> p, basis |-> command[c].basis,
                   draft |-> Nothing,
                   todo |-> IF Home[p[1]] = Home[p[2]] THEN p ELSE <<p[1]>>]
  <2>1. p \in Pairs /\ Drafted(command[c].draft) /\ command[c].basis \in Nat
    BY <1>4 DEF WriteComparison, CInv, CommandBacked
  <2>2. /\ file' = [file EXCEPT ![p] = x] /\ Become(c, s)
        /\ UNCHANGED <<fixed, summary>>
    BY <1>4 DEF WriteComparison
  <2>3. FromRecords(x)
    BY <2>1 DEF Drafted, FromRecords
  <2>4. \A y : (Backed(y)' <=> Backed(y)) /\ (Drafted(y)' <=> Drafted(y))
    BY <2>2, RecordsStay
  <2>5. DOMAIN file' = Pairs /\ \A q \in Pairs : Backed(file'[q])
    BY <2>2, <2>3 DEF CInv, Backed
  <2>6. DOMAIN command' = Commands
        /\ \A d \in Commands : command'[d] = IF d = c THEN s ELSE command[d]
    BY <2>2 DEF Become, CInv
  <2>7. CommandBacked(c)'
    BY <2>1, <2>6 DEF CommandBacked
  <2>8. ASSUME NEW d \in Commands \ {c} PROVE CommandBacked(d)'
    BY <2>4, <2>6 DEF CommandBacked, CInv
  <2> QED BY <2>2, <2>4, <2>5, <2>6, <2>7, <2>8 DEF CInv, FromCase, fixed
<1>5. CASE Build(c)
  <2>1. PICK x \in ComparisonsFor(Head(command[c].todo), command[c].preferred) :
          Become(c, [command[c] EXCEPT
            !.step = "save", !.draft = [basis |-> command[c].basis, embedded |-> x]])
    BY <1>5 DEF Build
  <2> DEFINE s == [command[c] EXCEPT
            !.step = "save", !.draft = [basis |-> command[c].basis, embedded |-> x]]
  <2>2. /\ command[c].preferred \in Pairs \cup {<<>>} /\ command[c].basis \in Nat
        /\ DOMAIN command[c] = {"step", "preferred", "todo", "basis", "draft"}
    BY <1>5 DEF Build, CInv, CommandBacked
  <2>3. Backed(x)
    BY <2>2, EmbeddedIsBacked
  <2>4. /\ s.step = "save" /\ s.preferred = command[c].preferred
        /\ s.draft.embedded = x /\ DOMAIN s = DOMAIN command[c]
        /\ s.basis = command[c].basis /\ s.draft.basis = command[c].basis
    BY <2>2
  <2> HIDE DEF s
  <2> QED BY <1>5, <2>1, <2>2, <2>3, <2>4, BecomeKeeps DEF Build, s
<1>6. CASE Save(c)
  <2> DEFINE r == Head(command[c].todo)
             rest == Tail(command[c].todo)
             s == IF Refused(evidence[r]) \/ rest = <<>> THEN Idle
                  ELSE [command[c] EXCEPT !.step = "build", !.todo = rest]
  <2>1. /\ summary' = [summary EXCEPT ![r] = command[c].draft] /\ Become(c, s)
        /\ UNCHANGED <<fixed, file>> /\ command[c].step = "save"
    BY <1>6 DEF Save
  <2>2. /\ command[c].preferred \in Pairs \cup {<<>>}
        /\ DOMAIN command[c] = {"step", "preferred", "todo", "basis", "draft"}
        /\ Backed(command[c].draft.embedded)
        /\ command[c].basis \in Nat /\ command[c].draft.basis \in Nat
    BY <2>1 DEF CInv, CommandBacked
  <2>3. s.step = "idle" \/ (/\ s.step = "build" /\ s.preferred = command[c].preferred
                            /\ s.basis = command[c].basis /\ DOMAIN s = DOMAIN command[c])
    BY <2>2 DEF Idle
  <2>4. \A y : (Backed(y)' <=> Backed(y)) /\ (Drafted(y)' <=> Drafted(y))
    BY <2>1, RecordsStay
  <2>5. /\ DOMAIN summary' = Runs
        /\ \A q \in Runs : summary'[q].basis \in Nat /\ Backed(summary'[q].embedded)
    BY <2>1, <2>2 DEF CInv
  <2> HIDE DEF s
  <2>6. DOMAIN command' = Commands
        /\ \A d \in Commands : command'[d] = IF d = c THEN s ELSE command[d]
    BY <2>1 DEF Become, CInv
  <2>7. CommandBacked(c)'
    BY <2>2, <2>3, <2>6 DEF CommandBacked
  <2>8. ASSUME NEW d \in Commands \ {c} PROVE CommandBacked(d)'
    BY <2>4, <2>6 DEF CommandBacked, CInv
  <2> QED BY <2>1, <2>4, <2>5, <2>6, <2>7, <2>8 DEF CInv, FromCase, fixed
<1>7. CASE Kill(c)
  BY <1>7, BecomeKeeps DEF Kill, Idle
<1> QED BY <1>1, <1>2, <1>3, <1>4, <1>5, <1>6, <1>7

LEMMA ComparisonInvariant == Spec => []CInv
<1> QED BY ComparisonInit, ComparisonNext, PTL DEF Spec

\* What the manifest asks for and what the comparison asks for are, together, what
\* the publisher asks for.
LEMMA GatesAgree ==
  ASSUME NEW env, Admitted(env), ManifestOf(env).publishable, NonLocal(ManifestOf(env))
  PROVE  Publishable(ManifestOf(env)) \/ env.location \in {"blank", "spelled"}
<1> DEFINE m == ManifestOf(env)
<1>1. /\ m.publishable = env.publishable /\ m.sha = Revision(env)
      /\ m.location = Default(env.location)
  BY DEF ManifestOf
<1>2. m.sha # "unknown"
  BY <1>1 DEF Admitted, Vouched
<1>3. m.location \notin {"empty", "local"}
  BY DEF NonLocal
<1>4. m.location \in {"blank", "spelled"} => env.location = m.location
  BY <1>1 DEF Default
<1> QED BY <1>1, <1>2, <1>3, <1>4 DEF Publishable

\* Comparison.ClaimsArePublishable: whatever the runs and however the commands
\* overlap, are refused or are killed, a supported claim, in a file or in a report,
\* is about two runs that scripts/publish-run.py takes.
THEOREM ClaimsArePublishableHolds == Spec => []ClaimsArePublishable
<1>1. CInv => ClaimsArePublishable
  <2> SUFFICES ASSUME CInv, NEW x \in Claims, NEW r \in {x.pair[1], x.pair[2]}
               PROVE  \/ Publishable(ManifestOf(evidence[r].env))
                      \/ evidence[r].env.location \in {"blank", "spelled"}
    BY DEF ClaimsArePublishable
  <2>1. x # Nothing /\ x.supported /\ Backed(x)
    BY DEF Claims, Told, CInv
  <2>2. x.pair \in Pairs /\ Sound(evidence[r])
    BY <2>1 DEF Backed, FromRecords, Claimable
  <2>3. r \in Runs
    BY <2>2 DEF Pairs
  <2>4. Admitted(evidence[r].env)
    BY <2>3 DEF CInv
  <2> QED BY <2>2, <2>4, GatesAgree DEF Sound
<1> QED BY <1>1, ComparisonInvariant, PTL
------------------------------------------------------------------------------
\* What a report of the run should embed.
Current(r, x) ==
  IF Mentions(r) = {} THEN x = Nothing
  ELSE x \in Mentions(r) /\ \A y \in Mentions(r) : x.written >= y.written

Steps == {"read", "write", "build", "save"}
Building(c) == command[c].step \in {"build", "save"}

\* The parts of a command that a build uses.
CommandShape(c) ==
  /\ command[c] = Idle \/ command[c].step \in Steps
  /\ command[c].step \in {"read", "write"} => command[c].preferred \in Pairs
  /\ command[c].step = "write" => "written" \in DOMAIN command[c].draft
  /\ Building(c) =>
       /\ command[c].preferred \in Pairs \cup {<<>>}
       /\ command[c].todo \in Seq(Runs) /\ command[c].todo # <<>>
       /\ DOMAIN command[c] = {"step", "preferred", "todo", "basis", "draft"}

Shape ==
  /\ writes \in Nat
  /\ DOMAIN file = Pairs /\ \A p \in Pairs : file[p].written \in 0..writes
  /\ DOMAIN summary = Runs
  /\ DOMAIN command = Commands /\ \A c \in Commands : CommandShape(c)

\* One command at a time.
OneAtATime ==
  \A c, d \in Commands : c = d \/ command[c] = Idle \/ command[d] = Idle

\* A report is up to date, or it is about to be built again.
CurrentOrDue ==
  \A r \in Runs :
    \/ Current(r, summary[r].embedded)
    \/ \E c \in Commands : Building(c) /\ \E i \in DOMAIN command[c].todo :
         command[c].todo[i] = r

\* The comparison just written is the newest one of each run still to be built,
\* and what a build is about to save is.
DraftsCurrent(c) ==
  /\ Building(c) /\ command[c].preferred # <<>> =>
       \A i \in DOMAIN command[c].todo :
         Current(command[c].todo[i], file[command[c].preferred])
  /\ command[c].step = "save" =>
       Current(Head(command[c].todo), command[c].draft.embedded)

NInv ==
  /\ Shape
  /\ calm => OneAtATime /\ CurrentOrDue /\ \A c \in Commands : DraftsCurrent(c)

LEMMA NewestInit == Init => NInv
<1> SUFFICES ASSUME Init PROVE NInv
  OBVIOUS
<1>1. \A p \in Pairs : file[p] = Nothing
  BY DEF Init
<1>2. Shape
  BY <1>1 DEF Init, Shape, CommandShape, Building, Idle, Nothing
<1>3. \A r \in Runs : Mentions(r) = {}
  BY <1>1 DEF Mentions
<1>4. \A c \in Commands : command[c] = Idle
  BY DEF Init
<1>5. \A c \in Commands : ~Building(c) /\ command[c].step # "save"
  BY <1>4 DEF Building, Idle
<1>6. OneAtATime /\ \A c \in Commands : DraftsCurrent(c)
  BY <1>4, <1>5 DEF OneAtATime, DraftsCurrent
<1>7. CurrentOrDue
  BY <1>3 DEF CurrentOrDue, Current, Init
<1> QED BY <1>2, <1>6, <1>7 DEF NInv

\* When nothing but the state of commands changes, comparisons are what they were.
LEMMA FilesKept ==
  ASSUME file' = file
  PROVE  /\ \A r : Mentions(r)' = Mentions(r)
         /\ \A r, x : Current(r, x)' <=> Current(r, x)
<1>1. \A r : Mentions(r)' = Mentions(r)
  BY DEF Mentions
<1> QED BY <1>1 DEF Current

\* A command that is in good shape moves, and nothing on the disk changes.
LEMMA ShapeKept ==
  ASSUME Shape, NEW c \in Commands, NEW s, Become(c, s), UNCHANGED <<file, writes>>,
         DOMAIN summary' = Runs,
         s = Idle \/ s.step \in Steps,
         s.step \in {"read", "write"} => s.preferred \in Pairs,
         s.step = "write" => "written" \in DOMAIN s.draft,
         s.step \in {"build", "save"} =>
           /\ s.preferred \in Pairs \cup {<<>>}
           /\ s.todo \in Seq(Runs) /\ s.todo # <<>>
           /\ DOMAIN s = {"step", "preferred", "todo", "basis", "draft"}
  PROVE  /\ Shape'
         /\ \A d \in Commands : command'[d] = IF d = c THEN s ELSE command[d]
<1>1. \A d \in Commands : command'[d] = IF d = c THEN s ELSE command[d]
  BY DEF Become, Shape
<1>2. ASSUME NEW d \in Commands PROVE CommandShape(d)'
  <2>1. CASE d = c
    BY <1>1, <2>1 DEF CommandShape, Building
  <2>2. CASE d # c
    BY <1>1, <2>2 DEF CommandShape, Building, Shape
  <2> QED BY <2>1, <2>2
<1> QED BY <1>1, <1>2 DEF Shape, Become

\* A command that starts while all others are idle finds all reports up to date.
LEMMA BeginKeeps ==
  ASSUME NInv, NEW c \in Commands, NEW s, Begin(c, s), UNCHANGED <<fixed, disk>>,
         \/ s.step = "read" /\ s.preferred \in Pairs
         \/ /\ s.step = "build" /\ s.preferred = <<>>
            /\ s.todo \in Seq(Runs) /\ s.todo # <<>>
            /\ DOMAIN s = {"step", "preferred", "todo", "basis", "draft"}
  PROVE  NInv'
<1>1. Become(c, s) /\ command[c] = Idle /\ Shape /\ UNCHANGED <<file, writes, summary>>
  BY DEF Begin, NInv, disk
<1>2. /\ Shape'
      /\ \A d \in Commands : command'[d] = IF d = c THEN s ELSE command[d]
  BY <1>1, ShapeKept DEF Shape, Steps
<1> SUFFICES ASSUME calm'
             PROVE OneAtATime' /\ CurrentOrDue' /\ \A d \in Commands : DraftsCurrent(d)'
  BY <1>2 DEF NInv
<1>3. calm /\ \A d \in Commands : command[d] = Idle
  BY <1>1 DEF Begin, Quiet
<1>4. OneAtATime'
  BY <1>2, <1>3 DEF OneAtATime
<1>5. \A r \in Runs : Current(r, summary[r].embedded)
  BY <1>3 DEF NInv, CurrentOrDue, Building, Idle
<1>6. CurrentOrDue'
  BY <1>1, <1>5, FilesKept DEF CurrentOrDue
<1>7. ASSUME NEW d \in Commands PROVE DraftsCurrent(d)'
  BY <1>2, <1>3 DEF DraftsCurrent, Building, Idle
<1> QED BY <1>4, <1>6, <1>7

LEMMA ReadSecondKeeps ==
  ASSUME NInv, NEW c \in Commands, ReadSecond(c)
  PROVE  NInv'
<1> DEFINE p == command[c].preferred
           x == Compared(p, command[c].first, summary[p[2]].basis)
           s == IF effect[p] = NoEffect THEN Idle
                ELSE [step |-> "write", preferred |-> p, basis |-> command[c].basis,
                      draft |-> x]
<1>1. /\ Become(c, s) /\ command[c].step = "read" /\ UNCHANGED disk
      /\ calm' = (calm /\ effect[p] # NoEffect) \/ calm' = calm
  BY DEF ReadSecond
<1>2. p \in Pairs /\ command[c] # Idle
  BY <1>1 DEF NInv, Shape, CommandShape, Idle
<1>3. "written" \in DOMAIN x
  BY DEF Compared
<1>4. s = Idle \/ (s.step = "write" /\ s.preferred = p /\ s.draft = x)
  OBVIOUS
<1>5. s.step \in {"idle", "write"}
  BY DEF Idle
<1> HIDE DEF s, p, x
<1>6. /\ Shape'
      /\ \A d \in Commands : command'[d] = IF d = c THEN s ELSE command[d]
  BY <1>1, <1>2, <1>3, <1>4, <1>5, ShapeKept DEF NInv, Shape, disk, Steps, Idle
<1> SUFFICES ASSUME calm'
             PROVE OneAtATime' /\ CurrentOrDue' /\ \A d \in Commands : DraftsCurrent(d)'
  BY <1>6 DEF NInv
<1>7. calm
  BY DEF ReadSecond
<1>8. \A d \in Commands \ {c} : command[d] = Idle
  BY <1>2, <1>7 DEF NInv, OneAtATime
<1>9. OneAtATime'
  BY <1>6, <1>8 DEF OneAtATime
<1>10. \A r \in Runs : Current(r, summary[r].embedded)
  BY <1>1, <1>7, <1>8 DEF NInv, CurrentOrDue, Building, Idle
<1>11. CurrentOrDue'
  BY <1>1, <1>10, FilesKept DEF CurrentOrDue, disk
<1>12. ASSUME NEW d \in Commands PROVE DraftsCurrent(d)'
  BY <1>5, <1>6, <1>8 DEF DraftsCurrent, Building, Idle
<1> QED BY <1>9, <1>11, <1>12

LEMMA WriteKeeps ==
  ASSUME NInv, NEW c \in Commands, WriteComparison(c)
  PROVE  NInv'
<1>p. PICK p : p = command[c].preferred
  OBVIOUS
<1>x. PICK x : x = [command[c].draft EXCEPT !.written = writes + 1]
  OBVIOUS
<1>due. PICK due : due = IF Home[p[1]] = Home[p[2]] THEN p ELSE <<p[1]>>
  OBVIOUS
<1>s. PICK s : s = [step |-> "build", preferred |-> p, basis |-> command[c].basis,
                    draft |-> Nothing, todo |-> due]
  OBVIOUS
<1>1. /\ Become(c, s) /\ command[c].step = "write" /\ file' = [file EXCEPT ![p] = x]
      /\ writes' = writes + 1 /\ UNCHANGED <<summary, calm>>
  BY <1>p, <1>x, <1>due, <1>s DEF WriteComparison, history
<1>2. /\ p \in Pairs /\ command[c] # Idle /\ "written" \in DOMAIN command[c].draft
      /\ writes \in Nat /\ DOMAIN file = Pairs /\ DOMAIN summary = Runs
      /\ DOMAIN command = Commands
      /\ \A q \in Pairs : file[q].written \in 0..writes
  BY <1>1, <1>p DEF NInv, Shape, CommandShape, Idle
<1>3. x.written = writes + 1
  BY <1>2, <1>x
<1>4. x # Nothing
  BY <1>2, <1>3 DEF Nothing
<1>5. p[1] \in Runs /\ p[2] \in Runs /\ p = <<p[1], p[2]>>
  BY <1>2 DEF Pairs
<1>6. /\ due \in Seq(Runs) /\ due # <<>>
      /\ \A r \in Runs : r \in {p[1], p[2]} /\ Home[p[1]] = Home[r] =>
           \E i \in DOMAIN due : due[i] = r
      /\ \A i \in DOMAIN due : due[i] \in {p[1], p[2]} /\ Home[p[1]] = Home[due[i]]
  <2>1. CASE Home[p[1]] = Home[p[2]]
    <3>1. due = <<p[1], p[2]>>
      BY <1>5, <1>due, <2>1
    <3>2. /\ due \in Seq(Runs) /\ due # <<>> /\ DOMAIN due = {1, 2}
          /\ due[1] = p[1] /\ due[2] = p[2]
      BY <1>5, <3>1
    <3>3. \A r \in {p[1], p[2]} : \E i \in DOMAIN due : due[i] = r
      BY <3>2
    <3>4. \A i \in DOMAIN due : due[i] \in {p[1], p[2]} /\ Home[p[1]] = Home[due[i]]
      BY <2>1, <3>2
    <3> QED BY <3>2, <3>3, <3>4
  <2>2. CASE Home[p[1]] # Home[p[2]]
    <3>1. due = <<p[1]>>
      BY <1>due, <2>2
    <3>2. due \in Seq(Runs) /\ DOMAIN due = {1} /\ due[1] = p[1]
      BY <1>5, <3>1
    <3>3. \A r \in Runs : r \in {p[1], p[2]} /\ Home[p[1]] = Home[r] =>
            \E i \in DOMAIN due : due[i] = r
      BY <2>2, <3>2
    <3>4. \A i \in DOMAIN due : due[i] \in {p[1], p[2]} /\ Home[p[1]] = Home[due[i]]
      BY <3>2
    <3>5. due # <<>>
      BY <3>1
    <3> QED BY <3>2, <3>3, <3>4, <3>5
  <2> QED BY <2>1, <2>2
<1>7. /\ s.step = "build" /\ s.preferred = p /\ s.todo = due
      /\ DOMAIN s = {"step", "preferred", "todo", "basis", "draft"}
  BY <1>s
<1>8. /\ DOMAIN file' = Pairs
      /\ \A q \in Pairs : file'[q] = IF q = p THEN x ELSE file[q]
      /\ \A q \in Pairs : file'[q].written \in 0..writes'
  BY <1>1, <1>2, <1>3
<1>9. /\ DOMAIN command' = Commands
      /\ \A d \in Commands : command'[d] = IF d = c THEN s ELSE command[d]
  BY <1>1, <1>2 DEF Become
<1>10. ASSUME NEW d \in Commands PROVE CommandShape(d)'
  <2>1. CASE d = c
    BY <1>2, <1>6, <1>7, <1>9, <2>1 DEF CommandShape, Building, Steps
  <2>2. CASE d # c
    BY <1>9, <2>2 DEF CommandShape, Building, NInv, Shape
  <2> QED BY <2>1, <2>2
<1>11. Shape'
  BY <1>1, <1>2, <1>8, <1>9, <1>10 DEF Shape
<1> SUFFICES ASSUME calm'
             PROVE OneAtATime' /\ CurrentOrDue' /\ \A d \in Commands : DraftsCurrent(d)'
  BY <1>11 DEF NInv
<1>12. calm /\ \A d \in Commands \ {c} : command[d] = Idle
  BY <1>1, <1>2 DEF NInv, OneAtATime
<1>13. OneAtATime'
  BY <1>9, <1>12 DEF OneAtATime
<1>14. \A r \in Runs : Current(r, summary[r].embedded)
  BY <1>1, <1>12 DEF NInv, CurrentOrDue, Building, Idle
<1>15. ASSUME NEW r \in Runs, r \in {p[1], p[2]}, Home[p[1]] = Home[r]
       PROVE  Current(r, x)'
  <2>1. x \in Mentions(r)'
    BY <1>2, <1>4, <1>8, <1>15 DEF Mentions
  <2>2. \A y \in Mentions(r)' : writes + 1 >= y.written
    BY <1>1, <1>2, <1>8 DEF Mentions
  <2> QED BY <1>3, <2>1, <2>2 DEF Current
<1>16. ASSUME NEW r \in Runs, ~(r \in {p[1], p[2]} /\ Home[p[1]] = Home[r])
       PROVE  Mentions(r)' = Mentions(r)
  BY <1>2, <1>8, <1>16 DEF Mentions
<1>17. CurrentOrDue'
  <2> SUFFICES ASSUME NEW r \in Runs
               PROVE \/ Current(r, summary[r].embedded)'
                     \/ \E d \in Commands : Building(d)' /\ \E i \in DOMAIN command'[d].todo :
                          command'[d].todo[i] = r
    BY DEF CurrentOrDue
  <2>1. CASE r \in {p[1], p[2]} /\ Home[p[1]] = Home[r]
    BY <1>6, <1>7, <1>9, <2>1 DEF Building
  <2>2. CASE ~(r \in {p[1], p[2]} /\ Home[p[1]] = Home[r])
    BY <1>1, <1>14, <1>16, <2>2 DEF Current
  <2> QED BY <2>1, <2>2
<1>18. ASSUME NEW d \in Commands PROVE DraftsCurrent(d)'
  <2>1. CASE d = c
    <3>1. command'[c] = s /\ file'[p] = x
      BY <1>2, <1>8, <1>9
    <3>2. \A i \in DOMAIN due : due[i] \in Runs
      BY <1>6
    <3>3. \A i \in DOMAIN due : Current(due[i], x)'
      BY <1>6, <1>15, <3>2
    <3> QED BY <1>7, <2>1, <3>1, <3>3 DEF DraftsCurrent
  <2>2. CASE d # c
    BY <1>9, <1>12, <2>2 DEF DraftsCurrent, Building, Idle
  <2> QED BY <2>1, <2>2
<1> QED BY <1>13, <1>17, <1>18

LEMMA BuildKeeps ==
  ASSUME NInv, NEW c \in Commands, Build(c)
  PROVE  NInv'
<1>1. PICK x \in ComparisonsFor(Head(command[c].todo), command[c].preferred) :
        Become(c, [command[c] EXCEPT
          !.step = "save", !.draft = [basis |-> command[c].basis, embedded |-> x]])
  BY DEF Build
<1>2. PICK s : s = [command[c] EXCEPT
          !.step = "save", !.draft = [basis |-> command[c].basis, embedded |-> x]]
  OBVIOUS
<1>3. /\ command[c].step = "build" /\ Building(c) /\ command[c] # Idle
      /\ UNCHANGED <<file, summary, writes, calm>>
  BY DEF Build, disk, history, Building, Idle
<1>4. /\ Shape /\ command[c].preferred \in Pairs \cup {<<>>}
      /\ command[c].todo \in Seq(Runs) /\ command[c].todo # <<>>
      /\ DOMAIN command[c] = {"step", "preferred", "todo", "basis", "draft"}
  BY <1>3 DEF NInv, Shape, CommandShape
<1>5. /\ s.step = "save" /\ s.preferred = command[c].preferred
      /\ s.todo = command[c].todo /\ s.draft.embedded = x
      /\ DOMAIN s = {"step", "preferred", "todo", "basis", "draft"}
  BY <1>2, <1>4
<1>6. /\ Shape'
      /\ \A d \in Commands : command'[d] = IF d = c THEN s ELSE command[d]
  <2>1. Become(c, s)
    BY <1>1, <1>2
  <2> QED BY <1>3, <1>4, <1>5, <2>1, ShapeKept DEF Shape, Steps
<1> SUFFICES ASSUME calm'
             PROVE OneAtATime' /\ CurrentOrDue' /\ \A d \in Commands : DraftsCurrent(d)'
  BY <1>6 DEF NInv
<1>7. calm /\ \A d \in Commands \ {c} : command[d] = Idle
  BY <1>3 DEF NInv, OneAtATime
<1>8. OneAtATime'
  BY <1>6, <1>7 DEF OneAtATime
<1>9. ASSUME NEW d \in Commands
      PROVE  /\ Building(d)' <=> Building(d)
             /\ Building(d) => command'[d].todo = command[d].todo
  BY <1>3, <1>5, <1>6 DEF Building
<1>10. CurrentOrDue'
  BY <1>3, <1>7, <1>9, FilesKept DEF NInv, CurrentOrDue
<1>11. Current(Head(command[c].todo), x)
  <2>1. CASE command[c].preferred # <<>>
    <3>1. x = file[command[c].preferred]
      BY <2>1 DEF ComparisonsFor
    <3>2. 1 \in DOMAIN command[c].todo /\ Head(command[c].todo) = command[c].todo[1]
      BY <1>4
    <3> QED BY <1>3, <1>7, <2>1, <3>1, <3>2 DEF NInv, DraftsCurrent
  <2>2. CASE command[c].preferred = <<>>
    BY <2>2 DEF ComparisonsFor, Current, Newest
  <2> QED BY <2>1, <2>2
<1>12. ASSUME NEW d \in Commands PROVE DraftsCurrent(d)'
  <2>1. CASE d = c
    <3>1. command'[d] = s
      BY <1>6, <2>1
    <3>2. Current(Head(s.todo), x)'
      BY <1>3, <1>5, <1>11, FilesKept
    <3>3. s.preferred # <<>> =>
            \A i \in DOMAIN s.todo : Current(s.todo[i], file[s.preferred])'
      BY <1>3, <1>5, <1>7, FilesKept DEF NInv, DraftsCurrent
    <3> QED BY <1>5, <3>1, <3>2, <3>3 DEF DraftsCurrent
  <2>2. CASE d # c
    BY <1>6, <1>7, <2>2 DEF DraftsCurrent, Building, Idle
  <2> QED BY <2>1, <2>2
<1> QED BY <1>8, <1>10, <1>12

LEMMA SaveKeeps ==
  ASSUME NInv, NEW c \in Commands, Save(c)
  PROVE  NInv'
<1>r. PICK r : r = Head(command[c].todo)
  OBVIOUS
<1>rest. PICK rest : rest = Tail(command[c].todo)
  OBVIOUS
<1>s. PICK s : s = IF Refused(evidence[r]) \/ rest = <<>> THEN Idle
                   ELSE [command[c] EXCEPT !.step = "build", !.todo = rest]
  OBVIOUS
<1>1. /\ command[c].step = "save" /\ Building(c) /\ command[c] # Idle
      /\ summary' = [summary EXCEPT ![r] = command[c].draft] /\ Become(c, s)
      /\ calm' = (calm /\ ~Refused(evidence[r])) /\ UNCHANGED <<file, writes>>
  BY <1>r, <1>rest, <1>s DEF Save, Building, Idle
<1>2. /\ Shape /\ command[c].preferred \in Pairs \cup {<<>>}
      /\ command[c].todo \in Seq(Runs) /\ command[c].todo # <<>>
      /\ DOMAIN command[c] = {"step", "preferred", "todo", "basis", "draft"}
  BY <1>1 DEF NInv, Shape, CommandShape
<1>3. /\ r \in Runs /\ r = command[c].todo[1] /\ rest \in Seq(Runs)
      /\ DOMAIN command[c].todo = 1..Len(rest) + 1 /\ DOMAIN rest = 1..Len(rest)
      /\ Len(rest) \in Nat
      /\ \A i \in DOMAIN rest : rest[i] = command[c].todo[i + 1]
  BY <1>2, <1>r, <1>rest
<1>4. s # Idle =>
        /\ rest # <<>> /\ s.step = "build" /\ s.preferred = command[c].preferred
        /\ s.todo = rest
        /\ DOMAIN s = {"step", "preferred", "todo", "basis", "draft"}
  BY <1>2, <1>s
<1>5. /\ Shape'
      /\ \A d \in Commands : command'[d] = IF d = c THEN s ELSE command[d]
  <2>1. s = Idle \/ s.step = "build"
    BY <1>4
  <2>2. DOMAIN summary' = Runs
    BY <1>1, <1>2 DEF Shape
  <2> QED BY <1>1, <1>2, <1>3, <1>4, <2>1, <2>2, ShapeKept DEF Steps, Idle
<1> SUFFICES ASSUME calm'
             PROVE OneAtATime' /\ CurrentOrDue' /\ \A d \in Commands : DraftsCurrent(d)'
  BY <1>5 DEF NInv
<1>6. /\ calm /\ (s = Idle <=> rest = <<>>)
      /\ \A d \in Commands \ {c} : command[d] = Idle
  <2>1. calm /\ ~Refused(evidence[r])
    BY <1>1
  <2>2. s = Idle <=> rest = <<>>
    <3>1. CASE rest = <<>>
      BY <1>s, <3>1
    <3>2. CASE rest # <<>>
      <4>1. s.step = "build"
        BY <1>2, <1>s, <2>1, <3>2
      <4> QED BY <3>2, <4>1 DEF Idle
    <3> QED BY <3>1, <3>2
  <2> QED BY <1>1, <2>1, <2>2 DEF NInv, OneAtATime
<1>7. OneAtATime'
  BY <1>5, <1>6 DEF OneAtATime
<1>8. CurrentOrDue'
  <2> SUFFICES ASSUME NEW q \in Runs
               PROVE \/ Current(q, summary[q].embedded)'
                     \/ \E d \in Commands : Building(d)' /\ \E i \in DOMAIN command'[d].todo :
                          command'[d].todo[i] = q
    BY DEF CurrentOrDue
  <2>1. CASE q = r
    <3>1. summary'[r].embedded = command[c].draft.embedded
      BY <1>1, <1>2, <1>3 DEF Shape
    <3>2. Current(r, command[c].draft.embedded)
      BY <1>1, <1>6, <1>r DEF NInv, DraftsCurrent
    <3> QED BY <1>1, <2>1, <3>1, <3>2, FilesKept
  <2>2. CASE q # r /\ \E i \in DOMAIN rest : rest[i] = q
    <3>1. rest # <<>>
      BY <2>2
    <3>2. command'[c] = s /\ Building(c)' /\ s.todo = rest
      BY <1>4, <1>5, <1>6, <3>1 DEF Building
    <3> QED BY <2>2, <3>2
  <2>3. CASE q # r /\ ~\E i \in DOMAIN rest : rest[i] = q
    <3>1. ~\E i \in DOMAIN command[c].todo : command[c].todo[i] = q
      <4> SUFFICES ASSUME NEW i \in DOMAIN command[c].todo, command[c].todo[i] = q
                   PROVE FALSE
        OBVIOUS
      <4>1. i \in Int /\ i # 1 /\ i - 1 \in DOMAIN rest /\ rest[i - 1] = command[c].todo[i]
        BY <1>3, <2>3
      <4> QED BY <2>3, <4>1
    <3>2. Current(q, summary[q].embedded)
      BY <1>6, <3>1 DEF NInv, CurrentOrDue, Building, Idle
    <3>3. summary'[q] = summary[q]
      BY <1>1, <1>2, <2>3 DEF Shape
    <3> QED BY <1>1, <3>2, <3>3, FilesKept
  <2> QED BY <2>1, <2>2, <2>3
<1>9. ASSUME NEW d \in Commands PROVE DraftsCurrent(d)'
  <2>1. CASE d = c /\ s # Idle
    <3>1. command'[d] = s
      BY <1>5, <2>1
    <3>2. s.preferred # <<>> =>
            \A i \in DOMAIN s.todo : Current(s.todo[i], file[s.preferred])
      <4> SUFFICES ASSUME s.preferred # <<>>, NEW i \in DOMAIN rest
                   PROVE Current(rest[i], file[s.preferred])
        BY <1>4, <2>1
      <4>1. i + 1 \in DOMAIN command[c].todo /\ rest[i] = command[c].todo[i + 1]
        BY <1>3
      <4> QED BY <1>1, <1>4, <1>6, <2>1, <4>1 DEF NInv, DraftsCurrent
    <3>3. s.preferred # <<>> =>
            \A i \in DOMAIN s.todo : Current(s.todo[i], file[s.preferred])'
      BY <1>1, <3>2, FilesKept
    <3> QED BY <1>4, <2>1, <3>1, <3>3 DEF DraftsCurrent
  <2>2. CASE d # c \/ s = Idle
    BY <1>5, <1>6, <2>2 DEF DraftsCurrent, Building, Idle
  <2> QED BY <2>1, <2>2
<1> QED BY <1>7, <1>8, <1>9

LEMMA KillKeeps ==
  ASSUME NInv, NEW c \in Commands, Kill(c)
  PROVE  NInv'
<1>1. Become(c, Idle) /\ ~calm' /\ UNCHANGED disk
  BY DEF Kill
<1>2. Shape'
  BY <1>1, ShapeKept DEF NInv, Shape, disk, Idle
<1> QED BY <1>1, <1>2 DEF NInv

LEMMA NewestNext == NInv /\ [Next]_vars => NInv'
<1> SUFFICES ASSUME NInv, [Next]_vars PROVE NInv'
  OBVIOUS
<1>1. CASE UNCHANGED vars
  <2>1. \A r, x : Current(r, x)' <=> Current(r, x)
    BY <1>1, FilesKept DEF vars, disk
  <2>2. \A c \in Commands : (DraftsCurrent(c)' <=> DraftsCurrent(c))
                            /\ (Building(c)' <=> Building(c))
    BY <1>1, <2>1 DEF DraftsCurrent, Building, vars, disk
  <2>3. Shape'
    BY <1>1 DEF NInv, Shape, CommandShape, Building, vars, disk
  <2>4. OneAtATime' <=> OneAtATime
    BY <1>1 DEF OneAtATime, vars
  <2>5. CurrentOrDue' <=> CurrentOrDue
    BY <1>1, <2>1, <2>2 DEF CurrentOrDue, vars, disk
  <2>6. calm' = calm
    BY <1>1 DEF vars, history
  <2> QED BY <2>2, <2>3, <2>4, <2>5, <2>6 DEF NInv
<1> SUFFICES ASSUME NEW c \in Commands,
               \/ Report(c) \/ Compare(c) \/ ReadSecond(c) \/ WriteComparison(c)
               \/ Build(c) \/ Save(c) \/ Kill(c)
             PROVE NInv'
  BY <1>1 DEF Next
<1>2. CASE Report(c)
  <2>1. PICK r \in Runs : \E basis \in Bases({r}) :
          Begin(c, [step |-> "build", preferred |-> <<>>, todo |-> <<r>>, basis |-> basis,
                    draft |-> Nothing])
    BY <1>2 DEF Report
  <2>2. PICK s : /\ Begin(c, s) /\ s.step = "build" /\ s.preferred = <<>>
                 /\ s.todo = <<r>>
                 /\ DOMAIN s = {"step", "preferred", "todo", "basis", "draft"}
    BY <2>1
  <2>3. s.todo \in Seq(Runs) /\ s.todo # <<>>
    BY <2>2
  <2> QED BY <1>2, <2>2, <2>3, BeginKeeps DEF Report
<1>3. CASE Compare(c)
  <2>1. PICK p \in Pairs : \E basis \in Bases({p[1], p[2]}) :
          Begin(c, [step |-> "read", preferred |-> p, basis |-> basis,
                    first |-> summary[p[1]].basis])
    BY <1>3 DEF Compare
  <2>2. PICK s : Begin(c, s) /\ s.step = "read" /\ s.preferred = p
    BY <2>1
  <2> QED BY <1>3, <2>2, BeginKeeps DEF Compare
<1> QED BY <1>2, <1>3, ReadSecondKeeps, WriteKeeps, BuildKeeps, SaveKeeps, KillKeeps

\* Comparison.NewestEmbedded: whatever the runs, their directories and the order of
\* the commands, each report embeds the newest comparison of its run, as long as
\* commands do not overlap and none is refused or killed.
THEOREM NewestEmbeddedHolds == Spec => []NewestEmbedded
<1>1. Spec => []NInv
  BY NewestInit, NewestNext, PTL DEF Spec
<1>2. NInv => NewestEmbedded
  BY DEF NInv, NewestEmbedded, CurrentOrDue, Current, Building, Idle
<1> QED BY <1>1, <1>2, PTL
------------------------------------------------------------------------------
\* comparison.py's sign conventions agree: naming two runs in the other order
\* mirrors the interval of their cost difference, and with a mirrored quality
\* interval the same run wins.
THEOREM NamingMirrors ==
  ASSUME NEW a, NEW b, Bounded(a), Bounded(b), Interval(a) \in Intervals, Interval(b) \in Intervals,
         NEW quality \in Intervals
  PROVE  LET delta == DeltaInterval(a, b) IN
         /\ DeltaInterval(b, a) = Mirror(delta)
         /\ delta.low <= delta.high =>
              /\ Direction(delta, quality) = "second" <=>
                   Direction(Mirror(delta), Mirror(quality)) = "first"
              /\ Direction(delta, quality) = "first" <=>
                   Direction(Mirror(delta), Mirror(quality)) = "second"
<1>1. PICK i, j : i = Interval(a) /\ j = Interval(b) /\ i \in Intervals /\ j \in Intervals
  OBVIOUS
<1>2. PICK delta : delta = [low |-> j.low - i.high, high |-> j.high - i.low]
  OBVIOUS
<1>3. DeltaInterval(a, b) = delta
  BY <1>1, <1>2 DEF DeltaInterval
<1>4. DeltaInterval(b, a) = [low |-> i.low - j.high, high |-> i.high - j.low]
  BY <1>1 DEF DeltaInterval
<1>5. Mirror(delta) = [low |-> i.low - j.high, high |-> i.high - j.low]
  BY <1>1, <1>2 DEF Mirror, Intervals
<1>6. delta \in Intervals /\ Mirror(delta) \in Intervals
  BY <1>1, <1>2, <1>5 DEF Intervals
<1>7. delta # NoInterval /\ Mirror(delta) # NoInterval
  BY <1>6, IntervalAssumption
<1>8. /\ Mirror(delta).low = -delta.high /\ Mirror(delta).high = -delta.low
      /\ Mirror(quality).low = -quality.high /\ Mirror(quality).high = -quality.low
  BY DEF Mirror
<1>9. ASSUME delta.low <= delta.high
      PROVE  /\ Direction(delta, quality) = "second" <=>
                  Direction(Mirror(delta), Mirror(quality)) = "first"
             /\ Direction(delta, quality) = "first" <=>
                  Direction(Mirror(delta), Mirror(quality)) = "second"
  BY <1>6, <1>7, <1>8, <1>9 DEF Direction, Intervals
<1> QED BY <1>3, <1>4, <1>5, <1>9
------------------------------------------------------------------------------
\* The member of a set that a sum over it takes first.
Member(S) == CHOOSE x \in S : TRUE

\* Induction over the subsets of a finite set, in the form of sets: what holds of the
\* empty set, and of a set if it does without the member taken first, holds of all.
LEMMA SubsetInduction ==
  ASSUME NEW D, IsFiniteSet(D), NEW Good, {} \in Good,
         \A S \in SUBSET D : S # {} /\ S \ {Member(S)} \in Good => S \in Good
  PROVE  \A S \in SUBSET D : S \in Good
<1> DEFINE Bad == {S \in SUBSET D : S \notin Good}
           sizes == {Cardinality(S) : S \in Bad}
<1>1. \A S \in SUBSET D : IsFiniteSet(S) /\ Cardinality(S) \in Nat
  BY FS_Subset, FS_CardinalityType
<1> SUFFICES ASSUME Bad # {} PROVE FALSE
  OBVIOUS
<1>2. sizes \in SUBSET Nat /\ sizes # {}
  BY <1>1
<1>3. PICK n \in sizes : \A m \in sizes : ~(<<m, n>> \in OpToRel(<, Nat))
  <2> HIDE DEF sizes
  <2> QED BY <1>2, NatLessThanWellFounded, WFMin
<1>4. \A m \in sizes : ~(m < n)
  BY <1>2, <1>3 DEF OpToRel
<1>5. PICK S \in Bad : n = Cardinality(S)
  OBVIOUS
<1>6. S # {} /\ Member(S) \in S
  BY <1>5 DEF Member
<1> DEFINE T == S \ {Member(S)}
<1>7. T \in SUBSET D /\ T \in Bad
  BY <1>5, <1>6
<1>8. Cardinality(T) = Cardinality(S) - 1
  BY <1>1, <1>5, <1>6, FS_RemoveElement
<1> QED BY <1>1, <1>4, <1>5, <1>7, <1>8

\* A sum over a part of a function's domain, one member after the other.
IsSum(f, g, D) ==
  g = [S \in SUBSET D |-> IF S = {} THEN 0 ELSE f[Member(S)] + g[S \ {Member(S)}]]

LEMMA SumExists ==
  ASSUME NEW D, IsFiniteSet(D), NEW f
  PROVE  \E g : IsSum(f, g, D)
<1> DEFINE Level(n) == {S \in SUBSET D : Cardinality(S) <= n}
           OfLevel(g, n) == g = [S \in Level(n) |->
             IF S = {} THEN 0 ELSE f[Member(S)] + g[S \ {Member(S)}]]
           Bad == {n \in Nat : ~\E g : OfLevel(g, n)}
<1>1. \A S \in SUBSET D : IsFiniteSet(S) /\ Cardinality(S) \in Nat
                          /\ (S # {} => Cardinality(S \ {Member(S)}) = Cardinality(S) - 1)
  BY FS_Subset, FS_CardinalityType, FS_RemoveElement DEF Member
<1>2. Bad = {}
  <2> SUFFICES ASSUME Bad # {} PROVE FALSE
    OBVIOUS
  <2>1. Bad \in SUBSET Nat
    OBVIOUS
  <2>2. PICK n \in Bad : \A m \in Bad : ~(<<m, n>> \in OpToRel(<, Nat))
    <3> HIDE DEF Bad
    <3> QED BY <2>1, NatLessThanWellFounded, WFMin
  <2>3. \A m \in Bad : ~(m < n)
    BY <2>1, <2>2 DEF OpToRel
  <2>4. CASE n = 0
    <3> DEFINE g == [S \in Level(0) |-> 0]
    <3>1. ASSUME NEW S \in Level(0) PROVE S = {}
      <4>1. S \in SUBSET D /\ Cardinality(S) <= 0
        OBVIOUS
      <4>2. IsFiniteSet(S) /\ Cardinality(S) \in Nat
        BY <1>1, <4>1
      <4>3. Cardinality(S) = 0
        BY <4>1, <4>2
      <4> QED BY <4>2, <4>3, FS_EmptySet
    <3>2. OfLevel(g, 0)
      BY <3>1
    <3> QED BY <2>4, <3>2
  <2>5. CASE n # 0
    <3>1. n - 1 \in Nat /\ n - 1 < n /\ n \in Nat
      BY <2>1, <2>5
    <3>2. n - 1 \notin Bad
      BY <2>3, <3>1
    <3>3. PICK g : OfLevel(g, n - 1)
      BY <3>1, <3>2
    <3> DEFINE h == [S \in Level(n) |->
                 IF S = {} THEN 0 ELSE f[Member(S)] + g[S \ {Member(S)}]]
    <3>4. ASSUME NEW S \in Level(n - 1) PROVE h[S] = g[S]
      <4>1. S \in SUBSET D /\ Cardinality(S) \in Nat /\ Cardinality(S) <= n - 1
        BY <1>1
      <4>2. S \in Level(n)
        BY <3>1, <4>1
      <4> QED BY <3>3, <4>2
    <3>5. ASSUME NEW S \in Level(n), S # {} PROVE S \ {Member(S)} \in Level(n - 1)
      <4>1. S \in SUBSET D /\ Cardinality(S) \in Nat /\ Cardinality(S) <= n
        BY <1>1
      <4>2. Cardinality(S \ {Member(S)}) = Cardinality(S) - 1
        BY <1>1, <3>5, <4>1
      <4> QED BY <3>1, <4>1, <4>2
    <3>6. \A S \in Level(n) : h[S] =
            IF S = {} THEN 0 ELSE f[Member(S)] + h[S \ {Member(S)}]
      BY <3>4, <3>5
    <3>7. OfLevel(h, n)
      BY <3>6
    <3> QED BY <3>7
  <2> QED BY <2>4, <2>5
<1>3. Cardinality(D) \in Nat /\ Level(Cardinality(D)) = SUBSET D
  BY FS_Subset, FS_CardinalityType
<1>4. PICK g : OfLevel(g, Cardinality(D))
  BY <1>2, <1>3
<1> QED BY <1>3, <1>4 DEF IsSum

LEMMA TotalIsSum ==
  ASSUME NEW f, IsFiniteSet(DOMAIN f)
  PROVE  \E g : IsSum(f, g, DOMAIN f) /\ Total(f) = g[DOMAIN f]
<1>1. Total(f) = (CHOOSE h : IsSum(f, h, DOMAIN f))[DOMAIN f]
  BY DEF Total, FoldFunction, FoldFunctionOnSet, MapThenFoldSet, IsSum, Member
<1>2. \E h : IsSum(f, h, DOMAIN f)
  BY SumExists
<1> QED BY <1>1, <1>2

\* What a sum is made of.
LEMMA SumSteps ==
  ASSUME NEW D, NEW f, NEW g, IsSum(f, g, D)
  PROVE  /\ g[{}] = 0
         /\ \A S \in SUBSET D : S # {} =>
              /\ Member(S) \in S
              /\ S \ {Member(S)} \in SUBSET D
              /\ g[S] = f[Member(S)] + g[S \ {Member(S)}]
<1>1. \A S \in SUBSET D : S # {} => Member(S) \in S
  BY DEF Member
<1> HIDE DEF Member
<1> QED BY <1>1 DEF IsSum

LEMMA TotalType ==
  ASSUME NEW D, IsFiniteSet(D), NEW f \in [D -> Int]
  PROVE  Total(f) \in Int
<1>1. PICK g : IsSum(f, g, D) /\ Total(f) = g[D]
  BY TotalIsSum
<1> DEFINE Good == {S \in SUBSET D : g[S] \in Int}
<1>2. {} \in Good
  BY <1>1, SumSteps
<1>3. ASSUME NEW S \in SUBSET D, S # {}, S \ {Member(S)} \in Good PROVE S \in Good
  <2>1. Member(S) \in D /\ g[S] = f[Member(S)] + g[S \ {Member(S)}]
    BY <1>1, <1>3, SumSteps
  <2> QED BY <1>3, <2>1
<1>4. \A S \in SUBSET D : S \in Good
  <2> HIDE DEF Good
  <2> QED BY <1>2, <1>3, SubsetInduction
<1> QED BY <1>1, <1>4

\* The total of sums is the sum of the totals.
LEMMA TotalAdds ==
  ASSUME NEW D, IsFiniteSet(D), NEW a \in [D -> Int], NEW b \in [D -> Int]
  PROVE  Total([i \in D |-> a[i] + b[i]]) = Total(a) + Total(b)
<1> DEFINE f == [i \in D |-> a[i] + b[i]]
<1>1. f \in [D -> Int] /\ DOMAIN f = D /\ DOMAIN a = D /\ DOMAIN b = D
      /\ \A i \in D : f[i] = a[i] + b[i]
  OBVIOUS
<1> HIDE DEF f
<1>2. PICK g : IsSum(f, g, D) /\ Total(f) = g[D]
  BY <1>1, TotalIsSum
<1>3. PICK h : IsSum(a, h, D) /\ Total(a) = h[D]
  BY <1>1, TotalIsSum
<1>4. PICK k : IsSum(b, k, D) /\ Total(b) = k[D]
  BY <1>1, TotalIsSum
<1> DEFINE Good == {S \in SUBSET D : h[S] \in Int /\ k[S] \in Int /\ g[S] = h[S] + k[S]}
<1>5. {} \in Good
  BY <1>2, <1>3, <1>4, SumSteps
<1>6. ASSUME NEW S \in SUBSET D, S # {}, S \ {Member(S)} \in Good PROVE S \in Good
  <2>1. /\ Member(S) \in D
        /\ g[S] = f[Member(S)] + g[S \ {Member(S)}]
        /\ h[S] = a[Member(S)] + h[S \ {Member(S)}]
        /\ k[S] = b[Member(S)] + k[S \ {Member(S)}]
    BY <1>2, <1>3, <1>4, <1>6, SumSteps
  <2> QED BY <1>1, <1>6, <2>1
<1>7. \A S \in SUBSET D : S \in Good
  <2> HIDE DEF Good
  <2> QED BY <1>5, <1>6, SubsetInduction
<1> QED BY <1>2, <1>3, <1>4, <1>7 DEF f

\* What relates the parts of two totals, each weighted, relates the totals.
LEMMA TotalsCompare ==
  ASSUME NEW D, IsFiniteSet(D), NEW a \in [D -> Int], NEW b \in [D -> Int],
         NEW u \in Int, NEW v \in Int, \A i \in D : u * a[i] <= v * b[i]
  PROVE  /\ u * Total(a) <= v * Total(b)
         /\ (D # {} /\ \A i \in D : u * a[i] < v * b[i]) => u * Total(a) < v * Total(b)
<1>1. PICK h : IsSum(a, h, D) /\ Total(a) = h[D]
  BY TotalIsSum
<1>2. PICK k : IsSum(b, k, D) /\ Total(b) = k[D]
  BY TotalIsSum
<1> DEFINE Good == {S \in SUBSET D :
     /\ h[S] \in Int /\ k[S] \in Int
     /\ u * h[S] <= v * k[S]
     /\ (S # {} /\ \A i \in D : u * a[i] < v * b[i]) => u * h[S] < v * k[S]}
<1>3. {} \in Good
  BY <1>1, <1>2, SumSteps
<1>4. ASSUME NEW S \in SUBSET D, S # {}, S \ {Member(S)} \in Good PROVE S \in Good
  <2>1. PICK m \in D, T \in Good : /\ h[S] = a[m] + h[T] /\ k[S] = b[m] + k[T]
    <3>1. Member(S) \in D /\ h[S] = a[Member(S)] + h[S \ {Member(S)}]
      BY <1>1, <1>4, SumSteps
    <3>2. k[S] = b[Member(S)] + k[S \ {Member(S)}]
      <4> HIDE DEF Good
      <4> QED BY <1>2, <1>4, SumSteps
    <3> HIDE DEF Good
    <3> QED BY <1>4, <3>1, <3>2
  <2>2. /\ a[m] \in Int /\ b[m] \in Int /\ h[T] \in Int /\ k[T] \in Int
        /\ u * a[m] <= v * b[m] /\ u * h[T] <= v * k[T]
    OBVIOUS
  <2>3. /\ u * h[S] = u * a[m] + u * h[T]
        /\ v * k[S] = v * b[m] + v * k[T]
    BY <2>1, <2>2
  <2>4. u * h[S] <= v * k[S]
    BY <2>2, <2>3
  <2>5. u * a[m] < v * b[m] => u * h[S] < v * k[S]
    BY <2>2, <2>3
  <2> QED BY <1>4, <2>1, <2>2, <2>4, <2>5
<1>5. \A S \in SUBSET D : S \in Good
  <2> HIDE DEF Good
  <2> QED BY <1>3, <1>4, SubsetInduction
<1> QED BY <1>1, <1>2, <1>5

\* A finite set of integers that is not empty has a least and a greatest member.
LEMMA ExtremesExist ==
  ASSUME NEW R \in SUBSET Int, IsFiniteSet(R), R # {}
  PROVE  /\ Min(R) \in R /\ Max(R) \in R
         /\ \A x \in R : Min(R) <= x /\ x <= Max(R)
<1> DEFINE Good == {S \in SUBSET R : S # {} =>
     /\ \E x \in S : \A y \in S : x <= y
     /\ \E x \in S : \A y \in S : x >= y}
<1>1. {} \in Good
  OBVIOUS
<1>2. ASSUME NEW S \in SUBSET R, S # {}, S \ {Member(S)} \in Good PROVE S \in Good
  <2>1. Member(S) \in S
    BY <1>2 DEF Member
  <2>2. PICK m \in S : m = Member(S)
    BY <2>1
  <2>3. CASE S \ {m} = {}
    BY <2>2, <2>3
  <2>4. CASE S \ {m} # {}
    <3>1. PICK x, z \in S \ {m} : \A y \in S \ {m} : x <= y /\ z >= y
      BY <1>2, <2>2, <2>4
    <3>2. \A y \in S : y = m \/ (x <= y /\ z >= y)
      BY <3>1
    <3>3. \A y \in S : y \in Int
      OBVIOUS
    <3>4. \E w \in S : \A y \in S : w <= y
      <4>1. CASE m <= x
        BY <3>2, <3>3, <4>1
      <4>2. CASE x <= m
        BY <3>2, <3>3, <4>2
      <4> QED BY <3>3, <4>1, <4>2
    <3>5. \E w \in S : \A y \in S : w >= y
      <4>1. CASE m >= z
        BY <3>2, <3>3, <4>1
      <4>2. CASE z >= m
        BY <3>2, <3>3, <4>2
      <4> QED BY <3>3, <4>1, <4>2
    <3> QED BY <3>4, <3>5
  <2> QED BY <2>3, <2>4
<1>3. \A S \in SUBSET R : S \in Good
  <2> HIDE DEF Good
  <2> QED BY <1>1, <1>2, SubsetInduction
<1>4. /\ \E x \in R : \A y \in R : x <= y
      /\ \E x \in R : \A y \in R : x >= y
  BY <1>3
<1>5. Min(R) \in R /\ \A y \in R : Min(R) <= y
  BY <1>4 DEF Min
<1>6. Max(R) \in R /\ \A y \in R : Max(R) >= y
  BY <1>4 DEF Max
<1> QED BY <1>5, <1>6
------------------------------------------------------------------------------
\* A run of which there is something to count.
HasRepeats(run) == run.repeats \in Seq(Repeats) \ {<<>>}

LEMMA TotalScales ==
  ASSUME NEW D, IsFiniteSet(D), NEW a \in [D -> Int], NEW k \in Int
  PROVE  Total([i \in D |-> a[i] * k]) = Total(a) * k
<1> DEFINE b == [i \in D |-> a[i] * k]
<1>1. PICK u \in Int : u = 1
  OBVIOUS
<1>2. b \in [D -> Int] /\ \A i \in D : u * b[i] = k * a[i]
  BY <1>1
<1> HIDE DEF b
<1>3. \A i \in D : u * b[i] <= k * a[i] /\ k * a[i] <= u * b[i]
  BY <1>2
<1>4. Total(b) \in Int /\ Total(a) \in Int
  BY <1>2, TotalType
<1>5. u * Total(b) <= k * Total(a)
  BY <1>2, <1>3, TotalsCompare
<1>6. k * Total(a) <= u * Total(b)
  BY <1>2, <1>3, TotalsCompare
<1>7. Total(b) = Total(a) * k
  BY <1>1, <1>4, <1>5, <1>6
<1> QED BY <1>7 DEF b

LEMMA RepeatTypes ==
  ASSUME NEW run, HasRepeats(run)
  PROVE  /\ IsFiniteSet(DOMAIN run.repeats) /\ DOMAIN run.repeats # {}
         /\ \A i \in DOMAIN run.repeats :
              /\ run.repeats[i].seconds \in Nat /\ run.repeats[i].managed \in Nat
              /\ run.repeats[i].unpriced \in Nat /\ run.repeats[i].correct \in Nat
<1>1. run.repeats \in Seq(Repeats) /\ run.repeats # <<>>
  BY DEF HasRepeats
<1>2. Len(run.repeats) \in Nat /\ DOMAIN run.repeats = 1..Len(run.repeats)
  BY <1>1
<1>3. IsFiniteSet(DOMAIN run.repeats)
  BY <1>2, FS_Interval
<1>4. DOMAIN run.repeats # {}
  <2>1. Len(run.repeats) # 0
    BY <1>1
  <2> QED BY <1>2, <2>1
<1>5. \A i \in DOMAIN run.repeats : run.repeats[i] \in Repeats
  BY <1>1, <1>2
<1> QED BY <1>3, <1>4, <1>5 DEF Repeats

\* What the repeats add to the cost of a run's path is all of it.
LEMMA PathIsTotal ==
  ASSUME NEW run, HasRepeats(run), Priced(run)
  PROVE  /\ Numerators(run) \in [DOMAIN run.repeats -> Nat]
         /\ PathCost(run, BySpan) = Total(Numerators(run))
<1> DEFINE D == DOMAIN run.repeats
<1>1. IsFiniteSet(D)
  BY RepeatTypes
<1>2. Managed(run) \in [D -> Nat]
  BY RepeatTypes DEF Managed
<1>3. Span(run) \in [D -> Nat]
  BY RepeatTypes, CostingAssumption DEF Span
<1>4. Private(run) \in [D -> Nat]
  BY <1>3, CostingAssumption DEF Private
<1>5. Total(Private(run)) = Total(Span(run)) * Rate
  <2>1. Span(run) \in [D -> Int] /\ Rate \in Int
    BY <1>3, CostingAssumption
  <2>2. Private(run) = [i \in D |-> Span(run)[i] * Rate]
    BY DEF Private
  <2> QED BY <1>1, <2>1, <2>2, TotalScales
<1>6. CASE run.mode = "managed"
  BY <1>2, <1>6 DEF Numerators, PathCost
<1>7. CASE run.mode = "private"
  BY <1>4, <1>5, <1>7 DEF Numerators, PathCost, Billed, BySpan
<1>8. CASE run.mode = "hybrid"
  <2>1. Numerators(run) = [i \in D |-> Managed(run)[i] + Private(run)[i]]
    BY <1>8 DEF Numerators
  <2>2. Total(Numerators(run)) = Total(Managed(run)) + Total(Private(run))
    BY <1>1, <1>2, <1>4, <2>1, TotalAdds
  <2>3. Numerators(run) \in [D -> Nat]
    BY <1>2, <1>4, <2>1
  <2> QED BY <1>5, <1>8, <2>2, <2>3 DEF PathCost, Billed, BySpan
<1> QED BY <1>6, <1>7, <1>8 DEF Priced

\* The ratio of each repeat lies in the interval of its run.
LEMMA IntervalHolds ==
  ASSUME NEW run, HasRepeats(run), Bounded(run)
  PROVE  /\ Interval(run) \in Intervals
         /\ Interval(run).low <= Interval(run).high
         /\ \A i \in DOMAIN run.repeats :
              /\ run.repeats[i].correct \in Nat \ {0}
              /\ Interval(run).low <= (Numerators(run)[i] * Unit) \div run.repeats[i].correct
              /\ (Numerators(run)[i] * Unit) \div run.repeats[i].correct <= Interval(run).high
<1> DEFINE D == DOMAIN run.repeats
           ratio == [i \in D |-> PerCorrect(Numerators(run)[i], run.repeats[i].correct)]
           ratios == {PerCorrect(Numerators(run)[i], run.repeats[i].correct) : i \in D}
<1>1. /\ Priced(run) /\ IsFiniteSet(D) /\ D # {}
      /\ \A i \in D : run.repeats[i].correct \in Nat \ {0}
  BY RepeatTypes DEF Bounded
<1>2. Numerators(run) \in [D -> Nat]
  BY <1>1, PathIsTotal
<1>3. \A i \in D : ratio[i] = (Numerators(run)[i] * Unit) \div run.repeats[i].correct
  BY <1>1 DEF PerCorrect
<1>4. ASSUME NEW i \in D PROVE ratio[i] \in Int
  <2>1. Numerators(run)[i] * Unit \in Int
    BY <1>2, CostingAssumption
  <2> QED BY <1>1, <1>3, <2>1
<1>5. ratio \in Surjection(D, ratios)
  BY DEF Surjection
<1>6. IsFiniteSet(ratios)
  <2> HIDE DEF ratio, ratios
  <2> QED BY <1>1, <1>5, FS_Surjection
<1>7. ratios \in SUBSET Int /\ ratios # {} /\ \A i \in D : ratio[i] \in ratios
  BY <1>1, <1>4
<1>8. Interval(run) = [low |-> Min(ratios), high |-> Max(ratios)]
  BY DEF Interval
<1> HIDE DEF ratio, ratios
<1>9. /\ Min(ratios) \in Int /\ Max(ratios) \in Int
      /\ \A i \in D : Min(ratios) <= ratio[i] /\ ratio[i] <= Max(ratios)
  BY <1>6, <1>7, ExtremesExist
<1>10. Min(ratios) <= Max(ratios)
  BY <1>1, <1>4, <1>9
<1> QED BY <1>1, <1>3, <1>8, <1>9, <1>10 DEF Intervals

\* Whole quotients keep the order of what is divided.
LEMMA Quotients ==
  ASSUME NEW n \in Int, NEW c \in Nat \ {0}
  PROVE  /\ n \div c \in Int
         /\ (n \div c) * c <= n
         /\ n < ((n \div c) + 1) * c
         /\ \A k \in Int : k * c <= n => k <= n \div c
         /\ \A k \in Int : n < (k + 1) * c => n \div c <= k
<1>1. n \div c \in Int /\ c * (n \div c) <= n /\ n < c * ((n \div c) + 1)
  OBVIOUS
<1>2. PICK q \in Int : q = n \div c
  BY <1>1
<1>3. q * c <= n /\ n < (q + 1) * c
  BY <1>1, <1>2
<1>4. ASSUME NEW k \in Int, k * c <= n PROVE k <= q
  <2> SUFFICES ASSUME q + 1 <= k PROVE FALSE
    OBVIOUS
  <2>1. (q + 1) * c <= k * c
    OBVIOUS
  <2> QED BY <1>3, <1>4, <2>1
<1>5. ASSUME NEW k \in Int, n < (k + 1) * c PROVE q <= k
  <2> SUFFICES ASSUME k + 1 <= q PROVE FALSE
    OBVIOUS
  <2>1. (k + 1) * c <= q * c
    OBVIOUS
  <2> QED BY <1>3, <1>5, <2>1
<1> QED BY <1>1, <1>2, <1>3, <1>4, <1>5

\* The cost of a run for each task it got right, by the time its requests span, lies
\* in the interval that is told with it.
LEMMA CostWithinInterval ==
  ASSUME NEW run, HasRepeats(run), Bounded(run)
  PROVE  /\ PathCost(run, BySpan) \in Int /\ Correct(run) \in Nat \ {0}
         /\ Interval(run).low * Correct(run) <= PathCost(run, BySpan) * Unit
         /\ PathCost(run, BySpan) * Unit < (Interval(run).high + 1) * Correct(run)
<1> DEFINE D == DOMAIN run.repeats
           n == Numerators(run)
           right == [i \in D |-> run.repeats[i].correct]
<1>1. PICK low \in Int, high \in Int : low = Interval(run).low /\ high = Interval(run).high
  BY IntervalHolds DEF Intervals
<1>2. /\ IsFiniteSet(D) /\ D # {} /\ n \in [D -> Int]
      /\ PathCost(run, BySpan) = Total(n) /\ Correct(run) = Total(right)
  BY RepeatTypes, PathIsTotal DEF Bounded, Correct
<1>3. /\ right \in [D -> Int]
      /\ \A i \in D : /\ right[i] \in Nat \ {0}
                      /\ low <= (n[i] * Unit) \div right[i]
                      /\ (n[i] * Unit) \div right[i] <= high
  BY <1>1, IntervalHolds
<1> HIDE DEF n, right, D
<1>4. ASSUME NEW i \in D
      PROVE  low * right[i] <= Unit * n[i] /\ Unit * n[i] < (high + 1) * right[i]
  <2>1. n[i] \in Int /\ Unit \in Int /\ n[i] * Unit \in Int /\ right[i] \in Nat \ {0}
    BY <1>2, <1>3, CostingAssumption
  <2>2. PICK q \in Int : q = (n[i] * Unit) \div right[i]
    BY <2>1
  <2>3. q * right[i] <= n[i] * Unit /\ n[i] * Unit < (q + 1) * right[i]
    BY <2>1, <2>2, Quotients
  <2>4. low <= q /\ q <= high
    BY <1>3, <2>2
  <2>5. low * right[i] <= q * right[i] /\ (q + 1) * right[i] <= (high + 1) * right[i]
    BY <2>1, <2>4
  <2> QED BY <2>1, <2>3, <2>5
<1>5. Unit \in Int /\ high + 1 \in Int
  BY CostingAssumption
<1>v. PICK v \in Int : v = high + 1
  BY <1>5
<1>6. low * Total(right) <= Unit * Total(n)
  <2>1. \A i \in D : low * right[i] <= Unit * n[i]
    BY <1>4
  <2> QED BY <1>2, <1>3, <1>5, <2>1, TotalsCompare
<1>7. Unit * Total(n) < v * Total(right)
  <2>1. \A i \in D : Unit * n[i] < v * right[i]
    BY <1>4, <1>v
  <2>2. \A i \in D : Unit * n[i] <= v * right[i]
    <3>1. \A i \in D : Unit * n[i] \in Int /\ v * right[i] \in Int
      BY <1>2, <1>3, CostingAssumption
    <3> QED BY <2>1, <3>1
  <2> QED BY <1>2, <1>3, <1>5, <2>1, <2>2, TotalsCompare
<1>8. Total(right) \in Int /\ Total(n) \in Int
  BY <1>2, <1>3, TotalType
<1>9. 0 * Total(right) < 1 * Total(right)
  BY <1>2, <1>3, TotalsCompare
<1>10. Total(n) * Unit = Unit * Total(n) /\ Total(right) \in Nat \ {0}
  BY <1>5, <1>8, <1>9
<1> QED BY <1>1, <1>2, <1>v, <1>6, <1>7, <1>8, <1>10
------------------------------------------------------------------------------
\* What its unpriced requests add to the dues of a run.
Extra(run) ==
  IF run.mode = "private" THEN 0
  ELSE Total([i \in DOMAIN run.repeats |-> run.repeats[i].unpriced])

LEMMA ExtraIsFree ==
  ASSUME NEW run, HasRepeats(run)
  PROVE  /\ Extra(run) \in Nat
         /\ (\A i \in DOMAIN run.repeats : ~(run.repeats[i].unpriced > 0)) => Extra(run) = 0
<1> DEFINE D == DOMAIN run.repeats
           e == [i \in D |-> run.repeats[i].unpriced]
<1>1. IsFiniteSet(D) /\ e \in [D -> Int] /\ \A i \in D : e[i] \in Nat
  BY RepeatTypes
<1>2. PICK u \in Int, v \in Int : u = 0 /\ v = 1
  OBVIOUS
<1>3. Extra(run) = IF run.mode = "private" THEN 0 ELSE Total(e)
  BY DEF Extra
<1>4. \A i \in D : run.repeats[i].unpriced = e[i]
  OBVIOUS
<1> HIDE DEF e
<1>5. Total(e) \in Int
  BY <1>1, TotalType
<1>6. \A i \in D : u * e[i] <= v * e[i]
  BY <1>1, <1>2
<1>7. u * Total(e) <= v * Total(e)
  BY <1>1, <1>6, TotalsCompare
<1>8. ASSUME \A i \in D : ~(e[i] > 0) PROVE v * Total(e) <= u * Total(e)
  <2>1. \A i \in D : v * e[i] <= u * e[i]
    BY <1>1, <1>2, <1>8
  <2> QED BY <1>1, <2>1, TotalsCompare
<1> QED BY <1>2, <1>3, <1>4, <1>5, <1>7, <1>8

\* Where the intervals of two runs lie apart, so do their costs and their dues.
LEMMA ApartIsCheaper ==
  ASSUME NEW w, HasRepeats(w), Bounded(w), NEW l, HasRepeats(l), Bounded(l),
         Interval(w).high < Interval(l).low
  PROVE  /\ ViewA(w, BySpan) < ViewA(l, BySpan)
         /\ \/ Dues(w) < Dues(l)
            \/ \E i \in DOMAIN w.repeats : w.repeats[i].unpriced > 0
<1>1. PICK h \in Int, k \in Int : h = Interval(w).high /\ k = Interval(l).low /\ h < k
  BY IntervalHolds DEF Intervals
<1>2. PICK m \in Int, c \in Nat \ {0} :
        m = PathCost(w, BySpan) /\ c = Correct(w) /\ m * Unit < (h + 1) * c
  BY <1>1, CostWithinInterval
<1>3. PICK n \in Int, d \in Nat \ {0} :
        n = PathCost(l, BySpan) /\ d = Correct(l) /\ k * d <= n * Unit
  BY <1>1, CostWithinInterval
<1>4. PICK x \in Nat, y \in Nat :
        /\ x = Extra(w) /\ y = Extra(l)
        /\ x = 0 \/ \E i \in DOMAIN w.repeats : w.repeats[i].unpriced > 0
  BY ExtraIsFree
<1>5. /\ m * Unit \in Int /\ n * Unit \in Int /\ (n + y) * Unit \in Int
      /\ n * Unit <= (n + y) * Unit
  BY CostingAssumption
<1>6. /\ (m * Unit) \div c \in Int /\ (m * Unit) \div c <= h
  BY <1>1, <1>2, <1>5, Quotients
<1>7. k <= (n * Unit) \div d /\ (n * Unit) \div d \in Int
  BY <1>1, <1>3, <1>5, Quotients
<1>8. k <= ((n + y) * Unit) \div d /\ ((n + y) * Unit) \div d \in Int
  <2>1. k * d <= (n + y) * Unit
    BY <1>3, <1>5
  <2> QED BY <1>5, <2>1, Quotients
<1>9. /\ ViewA(w, BySpan) = (m * Unit) \div c
      /\ ViewA(l, BySpan) = (n * Unit) \div d
  BY <1>2, <1>3 DEF ViewA, PerCorrect, Bounded
<1>10. /\ Dues(w) = ((m + x) * Unit) \div c
       /\ Dues(l) = ((n + y) * Unit) \div d
  BY <1>2, <1>3, <1>4 DEF Dues, PerCorrect, Extra
<1>11. x = 0 => (m + x) * Unit = m * Unit
  OBVIOUS
<1> QED BY <1>1, <1>4, <1>6, <1>7, <1>8, <1>9, <1>10, <1>11

\* The two intervals of a pair that can be judged.
LEMMA DeltaHolds ==
  ASSUME FromCase, NEW p \in Pairs, Delta(p) # NoInterval
  PROVE  LET a == evidence[p[1]] b == evidence[p[2]] IN
         /\ HasRepeats(a) /\ HasRepeats(b) /\ Bounded(a) /\ Bounded(b)
         /\ Interval(a) \in Intervals /\ Interval(b) \in Intervals
         /\ Delta(p) = [low |-> Interval(b).low - Interval(a).high,
                        high |-> Interval(b).high - Interval(a).low]
         /\ Delta(p) \in Intervals /\ Delta(p).low <= Delta(p).high
<1> DEFINE a == evidence[p[1]]
           b == evidence[p[2]]
<1>1. HasRepeats(a) /\ HasRepeats(b)
  BY CaseTypes DEF Pairs, HasRepeats
<1>2. Bounded(a) /\ Bounded(b)
  BY DEF Delta, DeltaInterval
<1>3. Delta(p) = [low |-> Interval(b).low - Interval(a).high,
                  high |-> Interval(b).high - Interval(a).low]
  BY <1>2 DEF Delta, DeltaInterval
<1> HIDE DEF a, b
<1>4. /\ Interval(a) \in Intervals /\ Interval(a).low <= Interval(a).high
      /\ Interval(b) \in Intervals /\ Interval(b).low <= Interval(b).high
  BY <1>1, <1>2, IntervalHolds
<1>5. Delta(p) \in Intervals /\ Delta(p).low <= Delta(p).high
  BY <1>3, <1>4 DEF Intervals
<1> QED BY <1>1, <1>2, <1>3, <1>4, <1>5 DEF a, b

\* Comparison.WinnerIsBetter: a supported claim is true of the records it is about
\* (comparison.py, _cost_delta and _claimability; costing/engine.py), whatever the runs
\* cost and however many repeats they have.
THEOREM WinnerIsBetterHolds == Spec => []WinnerIsBetter
<1>1. CInv => WinnerIsBetter
  <2> SUFFICES ASSUME CInv, NEW x \in Claims
               PROVE  /\ \/ Dues(evidence[Winner(x)]) < Dues(evidence[Loser(x)])
                         \/ \E i \in DOMAIN evidence[Winner(x)].repeats :
                              evidence[Winner(x)].repeats[i].unpriced > 0
                      /\ effect[<<Loser(x), Winner(x)>>].low >= 0
                      /\ x.bases = <<BySpan, BySpan>> => x.costs[Win(x)] < x.costs[3 - Win(x)]
    BY DEF WinnerIsBetter
  <2>1. FromRecords(x) /\ x.supported
    BY DEF Claims, Told, CInv, Backed
  <2>2. PICK p \in Pairs : p = x.pair
    BY <2>1 DEF FromRecords
  <2>3. /\ FromCase /\ effect[p] # NoEffect
        /\ x.direction = Judged(p) /\ Judged(p) # "none" /\ Delta(p) # NoInterval
        /\ x.costs = CostsOf(p, x.bases[1], x.bases[2])
    BY <2>1, <2>2 DEF FromRecords, Claimable, CInv
  <2>4. PICK a, b, d : a = evidence[p[1]] /\ b = evidence[p[2]] /\ d = Delta(p)
    OBVIOUS
  <2>5. /\ HasRepeats(a) /\ HasRepeats(b) /\ Bounded(a) /\ Bounded(b)
        /\ Interval(a) \in Intervals /\ Interval(b) \in Intervals
        /\ d = [low |-> Interval(b).low - Interval(a).high,
                high |-> Interval(b).high - Interval(a).low]
        /\ d \in Intervals /\ d.low <= d.high
    BY <2>3, <2>4, DeltaHolds
  <2>6. effect[p] \in Intervals /\ effect[Swapped(p)] = Mirror(effect[p])
    BY <2>3, CaseTypes
  <2>7. x.bases = <<BySpan, BySpan>> =>
          x.costs[1] = ViewA(a, BySpan) /\ x.costs[2] = ViewA(b, BySpan)
    BY <2>3, <2>4 DEF CostsOf
  <2>8. CASE Judged(p) = "second"
    <3>1. d.high < 0 /\ effect[p].low >= 0
      BY <2>4, <2>5, <2>8 DEF Judged, Direction, Intervals
    <3>2. Interval(b).high < Interval(a).low
      BY <2>5, <3>1 DEF Intervals
    <3>3. Win(x) = 2 /\ Winner(x) = p[2] /\ Loser(x) = p[1] /\ <<Loser(x), Winner(x)>> = p
      BY <2>2, <2>3, <2>8 DEF Win, Winner, Loser, Pairs
    <3> QED BY <2>4, <2>5, <2>7, <3>1, <3>2, <3>3, ApartIsCheaper
  <2>9. CASE Judged(p) # "second"
    <3>1. d.low > 0 /\ effect[p].high <= 0
      BY <2>3, <2>4, <2>5, <2>9 DEF Judged, Direction, Intervals
    <3>2. Interval(a).high < Interval(b).low
      BY <2>5, <3>1 DEF Intervals
    <3>3. Win(x) = 1 /\ Winner(x) = p[1] /\ Loser(x) = p[2]
          /\ <<Loser(x), Winner(x)>> = Swapped(p)
      BY <2>2, <2>3, <2>9 DEF Win, Winner, Loser, Swapped
    <3>4. effect[Swapped(p)].low >= 0
      BY <2>6, <3>1 DEF Mirror, Intervals
    <3> QED BY <2>4, <2>5, <2>7, <3>2, <3>3, <3>4, ApartIsCheaper
  <2> QED BY <2>8, <2>9
<1> QED BY <1>1, ComparisonInvariant, PTL

\* Whether a run has a cost for each correct task does not depend on what is billed.
LEMMA CostsKnown ==
  ASSUME NEW run, HasRepeats(run), NEW basis \in Nat
  PROVE  /\ ViewA(run, basis) # NoCost <=> Priced(run) /\ Correct(run) # 0
         /\ ViewB(run, basis) # NoCost <=> Priced(run) /\ Correct(run) # 0
<1> DEFINE D == DOMAIN run.repeats
<1>1. Correct(run) \in Nat
  <2> DEFINE right == [i \in D |-> run.repeats[i].correct]
  <2>1. IsFiniteSet(D) /\ right \in [D -> Int] /\ \A i \in D : right[i] \in Nat
    BY RepeatTypes
  <2>2. PICK u \in Int, v \in Int : u = 0 /\ v = 1
    OBVIOUS
  <2> HIDE DEF right
  <2>3. \A i \in D : u * right[i] <= v * right[i]
    BY <2>1, <2>2
  <2>4. u * Total(right) <= v * Total(right) /\ Total(right) \in Int
    BY <2>1, <2>3, TotalsCompare, TotalType
  <2>5. Total(right) \in Nat
    BY <2>2, <2>4
  <2> QED BY <2>5 DEF Correct, right
<1>2. Total(Managed(run)) \in Int /\ Total(Span(run)) \in Int
  <2>1. IsFiniteSet(D) /\ Managed(run) \in [D -> Int]
    BY RepeatTypes DEF Managed
  <2>2. Span(run) \in [D -> Int]
    BY RepeatTypes, CostingAssumption DEF Span
  <2> QED BY <2>1, <2>2, TotalType
<1>3. Billed(run, basis) \in Int
  BY <1>2 DEF Billed
<1>4. ASSUME Priced(run)
      PROVE  /\ PathCost(run, basis) \in Int
             /\ PathCost(run, basis) + Billed(run, basis) * Shared \in Int
  <2>1. PathCost(run, basis) \in Int
    BY <1>2, <1>3, <1>4, CostingAssumption DEF PathCost, Priced
  <2> QED BY <1>3, <2>1, CostingAssumption
<1>5. ASSUME NEW total \in Int
      PROVE  PerCorrect(total, Correct(run)) # NoCost <=> Correct(run) # 0
  <2>1. total * Unit \in Int
    BY CostingAssumption
  <2>2. Correct(run) # 0 => (total * Unit) \div Correct(run) \in Int
    BY <1>1, <2>1
  <2> QED BY <2>2, CostingAssumption DEF PerCorrect
<1> QED BY <1>4, <1>5 DEF ViewA, ViewB

\* Both runs of a pair have costs, and pass the gates one run must pass.
Eligible(p) ==
  \A r \in {p[1], p[2]} :
    Sound(evidence[r]) /\ Priced(evidence[r]) /\ Correct(evidence[r]) # 0

LEMMA ClaimableByRuns ==
  ASSUME FromCase, NEW p \in Pairs, NEW a \in Nat, NEW b \in Nat
  PROVE  Claimable(p, CostsOf(p, a, b)) <=>
           /\ Eligible(p)
           /\ evidence[p[1]].dataset = evidence[p[2]].dataset
           /\ evidence[p[1]].cell = evidence[p[2]].cell
           /\ Delta(p) # NoInterval /\ Judged(p) # "none"
<1> DEFINE costs == CostsOf(p, a, b)
<1>1. HasRepeats(evidence[p[1]]) /\ HasRepeats(evidence[p[2]])
  BY CaseTypes DEF Pairs, HasRepeats
<1>2. /\ DOMAIN costs = 1..4
      /\ costs[1] = ViewA(evidence[p[1]], a) /\ costs[2] = ViewA(evidence[p[2]], b)
      /\ costs[3] = ViewB(evidence[p[1]], a) /\ costs[4] = ViewB(evidence[p[2]], b)
  BY DEF CostsOf
<1> HIDE DEF costs
<1>3. (\A i \in DOMAIN costs : costs[i] # NoCost) <=>
        /\ Priced(evidence[p[1]]) /\ Correct(evidence[p[1]]) # 0
        /\ Priced(evidence[p[2]]) /\ Correct(evidence[p[2]]) # 0
  <2>1. (\A i \in DOMAIN costs : costs[i] # NoCost) <=>
          /\ costs[1] # NoCost /\ costs[2] # NoCost
          /\ costs[3] # NoCost /\ costs[4] # NoCost
    BY <1>2
  <2> QED BY <1>1, <1>2, <2>1, CostsKnown
<1>4. Claimable(p, costs) <=>
        /\ Eligible(p)
        /\ evidence[p[1]].dataset = evidence[p[2]].dataset
        /\ evidence[p[1]].cell = evidence[p[2]].cell
        /\ Delta(p) # NoInterval /\ Judged(p) # "none"
  BY <1>3 DEF Claimable, Eligible
<1> QED BY <1>4 DEF costs

\* A pair is judged alike whichever of its runs is named first.
LEMMA JudgedAlike ==
  ASSUME FromCase, NEW p \in Pairs, effect[p] # NoEffect
  PROVE  /\ Delta(p) # NoInterval <=> Delta(Swapped(p)) # NoInterval
         /\ Delta(p) # NoInterval =>
              /\ Judged(p) = "second" <=> Judged(Swapped(p)) = "first"
              /\ Judged(p) = "first" <=> Judged(Swapped(p)) = "second"
<1> DEFINE a == evidence[p[1]]
           b == evidence[p[2]]
           q == Swapped(p)
<1>1. q \in Pairs /\ q[1] = p[2] /\ q[2] = p[1] /\ Swapped(q) = p
  BY DEF Pairs, Swapped
<1>2. Delta(q) = DeltaInterval(b, a) /\ Delta(p) = DeltaInterval(a, b)
  BY <1>1 DEF Delta
<1>3. effect[p] \in Intervals /\ effect[q] = Mirror(effect[p])
  BY CaseTypes
<1>4. CASE ~Bounded(a) \/ ~Bounded(b)
  BY <1>2, <1>4 DEF DeltaInterval
<1>5. CASE Bounded(a) /\ Bounded(b)
  <2>1. HasRepeats(a) /\ HasRepeats(b)
    BY CaseTypes DEF Pairs, HasRepeats
  <2> HIDE DEF a, b, q
  <2>2. /\ Interval(a) \in Intervals /\ Interval(a).low <= Interval(a).high
        /\ Interval(b) \in Intervals /\ Interval(b).low <= Interval(b).high
    BY <1>5, <2>1, IntervalHolds
  <2>3. PICK d : d = DeltaInterval(a, b)
    OBVIOUS
  <2>4. /\ d = [low |-> Interval(b).low - Interval(a).high,
                high |-> Interval(b).high - Interval(a).low]
    BY <1>5, <2>3 DEF DeltaInterval
  <2>5. d \in Intervals /\ d.low <= d.high /\ Mirror(d) \in Intervals
    BY <2>2, <2>4 DEF Intervals, Mirror
  <2>6. /\ Delta(q) = Mirror(d)
        /\ Direction(d, effect[p]) = "second" <=>
             Direction(Mirror(d), Mirror(effect[p])) = "first"
        /\ Direction(d, effect[p]) = "first" <=>
             Direction(Mirror(d), Mirror(effect[p])) = "second"
    BY <1>2, <1>3, <1>5, <2>2, <2>3, <2>5, NamingMirrors
  <2>7. Delta(p) = d /\ d # NoInterval /\ Mirror(d) # NoInterval
    BY <1>2, <2>3, <2>5, IntervalAssumption
  <2> QED BY <1>3, <2>6, <2>7 DEF Judged, q
<1> QED BY <1>4, <1>5

\* Comparison.OrderOfNamingIsFree: no two comparisons of the same runs, in a file or in
\* a report, of whatever age and by whatever bases, disagree on who wins or on whether
\* anyone does (comparison.py, build_comparison).
THEOREM OrderOfNamingIsFreeHolds == Spec => []OrderOfNamingIsFree
<1>1. CInv => OrderOfNamingIsFree
  <2> SUFFICES ASSUME CInv, NEW x \in Told, NEW y \in Told,
                      {x.pair[1], x.pair[2]} = {y.pair[1], y.pair[2]}
               PROVE  x.supported = y.supported /\ (x.supported => Winner(x) = Winner(y))
    BY DEF OrderOfNamingIsFree
  <2>1. FromCase /\ FromRecords(x) /\ FromRecords(y)
    BY DEF Told, CInv, Backed
  <2>2. PICK p \in Pairs, q \in Pairs : p = x.pair /\ q = y.pair
    BY <2>1 DEF FromRecords
  <2>3. /\ effect[p] # NoEffect
        /\ x.direction = Judged(p) /\ y.direction = Judged(q)
    BY <2>1, <2>2 DEF FromRecords
  <2>4. /\ x.supported <=>
             /\ Eligible(p)
             /\ evidence[p[1]].dataset = evidence[p[2]].dataset
             /\ evidence[p[1]].cell = evidence[p[2]].cell
             /\ Delta(p) # NoInterval /\ Judged(p) # "none"
        /\ x.supported \in BOOLEAN
    <3>1. PICK a \in Nat, b \in Nat : x.supported = Claimable(p, CostsOf(p, a, b))
      BY <2>1, <2>2 DEF FromRecords
    <3> QED BY <2>1, <3>1, ClaimableByRuns DEF Claimable
  <2>5. /\ y.supported <=>
             /\ Eligible(q)
             /\ evidence[q[1]].dataset = evidence[q[2]].dataset
             /\ evidence[q[1]].cell = evidence[q[2]].cell
             /\ Delta(q) # NoInterval /\ Judged(q) # "none"
        /\ y.supported \in BOOLEAN
    <3>1. PICK a \in Nat, b \in Nat : y.supported = Claimable(q, CostsOf(q, a, b))
      BY <2>1, <2>2 DEF FromRecords
    <3> QED BY <2>1, <3>1, ClaimableByRuns DEF Claimable
  <2>6. q = p \/ q = Swapped(p)
    BY <2>2 DEF Pairs, Swapped
  <2>7. \A r \in Pairs : Judged(r) \in {"none", "first", "second"}
    BY DEF Judged, Direction
  <2>8. CASE q = p
    BY <2>2, <2>3, <2>4, <2>5, <2>8 DEF Winner, Win
  <2>9. CASE q = Swapped(p)
    <3>1. q[1] = p[2] /\ q[2] = p[1]
      BY <2>9 DEF Swapped
    <3>2. Eligible(q) <=> Eligible(p)
      BY <3>1 DEF Eligible
    <3>3. /\ Delta(p) # NoInterval <=> Delta(q) # NoInterval
          /\ Delta(p) # NoInterval =>
               /\ Judged(p) = "second" <=> Judged(q) = "first"
               /\ Judged(p) = "first" <=> Judged(q) = "second"
      BY <2>1, <2>3, <2>9, JudgedAlike
    <3>4. x.supported = y.supported
      BY <2>4, <2>5, <2>7, <3>1, <3>2, <3>3
    <3>5. x.supported => Winner(x) = Winner(y)
      BY <2>2, <2>3, <2>4, <2>7, <3>1, <3>3 DEF Winner, Win
    <3> QED BY <3>4, <3>5
  <2> QED BY <2>6, <2>8, <2>9
<1> QED BY <1>1, ComparisonInvariant, PTL
==============================================================================
