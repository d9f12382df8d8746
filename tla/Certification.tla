----------------------------- MODULE Certification -----------------------------
(***************************************************************************)
(* The certification report (certification/certify.ts and                  *)
(* scripts/generate-certification-report.mjs): the driver runs each        *)
(* declared test file as a lane of its own, reads what its runner printed, *)
(* adds the contract matrix and a row for every file nobody declared,      *)
(* assembles the report, verifies it and writes it.                        *)
(*                                                                         *)
(* A runner prints line by line and may be killed at any line, by the time *)
(* limit or otherwise; the driver itself may stop at any step.             *)
(*                                                                         *)
(* Abstractions.  A line is what parseTapStream takes from it; headers,    *)
(* comments and the other details of a test are left out.  A test id is    *)
(* the file and the name of the test.  The order of rows is canonical, so  *)
(* the rows of a report are a set.  Its rendering is the report again.     *)
(***************************************************************************)
EXTENDS Integers, Sequences, FiniteSetsExt

CONSTANTS
    Null,
    Names,          \* of tests
    Manifest,       \* the declared lanes, in order: [file, category, declared]
    Trees,          \* the sets of test files that may be on disk
    SuitesOf,       \* file -> what a run of it may come to
    MatrixRuns      \* what runContractMatrix may return: rows, or Null if it throws

Entries == {Manifest[i] : i \in DOMAIN Manifest}
Declared == {entry.file : entry \in Entries}

(* What a test comes to: it passes, is skipped or to be done, fails, or    *)
(* does not end in time.                                                   *)
Fates == {"ok", "skip", "todo", "fail", "timeout"}
CountKeys == {"tests", "pass", "fail", "cancelled", "skipped", "todo"}
CountLines == [kind : {"count"}, key : CountKeys, value : Nat]

(* The manifest declares a file once, with the tests it has; the lane of   *)
(* the matrix is no file.                                                  *)
ASSUME ManifestAssumption ==
    /\ Manifest \in Seq(Entries)
    /\ \A i, j \in DOMAIN Manifest : Manifest[i].file = Manifest[j].file => i = j
    /\ \A entry \in Entries : entry.declared \in Nat \ {0}
    /\ \A files \in Trees : "matrix" \notin files

(* A runner quotes what a test prints: it may read like a counter, never   *)
(* like a result.  No test has the name of the row that stands for a file. *)
ASSUME SuiteAssumption ==
    /\ "file" \notin Names
    /\ \A file \in Declared \ {"matrix"} : \A suite \in SuitesOf[file] :
           /\ suite.tests \in Seq([name : Names, fate : Fates])
           /\ suite.printed \in Seq(CountLines)
           /\ suite.dies \in BOOLEAN
    /\ \A raw \in MatrixRuns : raw /= Null => raw \in Seq({raw[i] : i \in DOMAIN raw})

ASSUME NullAssumption ==
    Null \notin {"SKIP", "TODO", "TEST_PASSED", "CODE", "LANE_OUTPUT_EMPTY",
                "LANE_MALFORMED_OUTPUT", "LANE_COUNT_MISMATCH", "LANE_UNCOLLECTABLE",
                "LANE_EMPTY"}

VARIABLES
    tree,       \* the test files on disk
    lanes,      \* the lanes collected, in order, each with its declared count
    runs,       \* what really happened in each of them
    report,     \* the assembled report, or Null
    written,    \* the artifacts of this run on disk
    pc

certificationVars == <<tree, lanes, runs, report, written, pc>>

CertificationInit ==
    /\ tree \in Trees
    /\ lanes = <<>> /\ runs = <<>>
    /\ report = Null /\ written = {}
    /\ pc = "LANES"

-----------------------------------------------------------------------------
(* The runner: a file with its tests, each a name and a fate *)

(* A file that does not load, or dies, is one more point, a failed one. *)
Points(suite) ==
    IF suite.dies THEN Append(suite.tests, [name |-> "file", fate |-> "exit"]) ELSE suite.tests

TestLine(point) ==
    [kind |-> "test", name |-> point.name, ok |-> point.fate \in {"ok", "skip"},
     directive |-> CASE point.fate = "skip" -> "SKIP"
                     [] point.fate = "todo" -> "TODO"
                     [] OTHER -> Null]

DetailLine(point) ==
    [kind |-> CASE point.fate = "timeout" -> "timedOut"
                [] point.fate = "exit" -> "exitCode"
                [] OTHER -> "detail"]

(* Every point is followed by its details. *)
PointLines(suite) ==
    [i \in 1..2 * Len(Points(suite)) |->
        IF i % 2 = 1 THEN TestLine(Points(suite)[(i + 1) \div 2])
        ELSE DetailLine(Points(suite)[i \div 2])]

Counted(key, n) == [kind |-> "count", key |-> key, value |-> n]

CountOf(suite, fates) ==
    Cardinality({i \in DOMAIN Points(suite) : Points(suite)[i].fate \in fates})

Totals(suite) ==
    <<[kind |-> "plan", value |-> Len(Points(suite))],
      Counted("tests", Len(Points(suite))),
      Counted("pass", CountOf(suite, {"ok"})),
      Counted("fail", CountOf(suite, {"fail", "exit"})),
      Counted("cancelled", CountOf(suite, {"timeout"})),
      Counted("skipped", CountOf(suite, {"skip"})),
      Counted("todo", CountOf(suite, {"todo"}))>>

Output(suite) == suite.printed \o PointLines(suite) \o Totals(suite)

(* spawnSync: a runner that is killed, at any line, counts as exit 1. *)
Exits(suite, seen) ==
    IF seen = Len(Output(suite)) /\ CountOf(suite, {"fail", "timeout", "exit"}) = 0
    THEN {0, 1} ELSE {1}

-----------------------------------------------------------------------------
(* parseTapStream *)

PositionsOf(kind, stream) == {p \in DOMAIN stream : stream[p].kind = kind}

(* A detail belongs to the last test line before it. *)
HasDetail(stream, p, kind) ==
    \E q \in PositionsOf(kind, stream) :
        p < q /\ \A t \in PositionsOf("test", stream) : t <= p \/ t > q

Outcome(stream, p) ==
    [name |-> stream[p].name, ok |-> stream[p].ok, directive |-> stream[p].directive,
     fileLevel |-> HasDetail(stream, p, "exitCode"),
     timedOut |-> HasDetail(stream, p, "timedOut")]

Outcomes(stream) == [p \in PositionsOf("test", stream) |-> Outcome(stream, p)]

(* A later counter of the same key replaces an earlier one. *)
Summary(stream, key) ==
    LET at == {p \in PositionsOf("count", stream) : stream[p].key = key}
    IN  IF at = {} THEN 0 ELSE stream[Max(at)].value

WellFormed(stream) ==
    /\ \E p \in PositionsOf("count", stream) : stream[p].key = "tests"
    /\ Summary(stream, "tests") = Cardinality(DOMAIN Outcomes(stream))
    /\ Summary(stream, "pass") + Summary(stream, "fail") + Summary(stream, "cancelled")
           + Summary(stream, "skipped") + Summary(stream, "todo") = Summary(stream, "tests")
    /\ \E p \in PositionsOf("plan", stream) : stream[p].value = Cardinality(DOMAIN Outcomes(stream))

-----------------------------------------------------------------------------
(* rowForTapOutcome, collectLane *)

Row(file, name, category, result, code) ==
    [testId |-> <<file, name>>, category |-> category, result |-> result, reasonCode |-> code]

RowFor(outcome, lane) ==
    CASE outcome.directive /= Null ->
             Row(lane.file, outcome.name, lane.category, "NOT-TESTED", outcome.directive)
      [] outcome.directive = Null /\ outcome.fileLevel ->
             Row(lane.file, outcome.name, lane.category, "NOT-TESTED", "LANE_MALFORMED_OUTPUT")
      [] outcome.directive = Null /\ ~outcome.fileLevel /\ outcome.timedOut ->
             Row(lane.file, outcome.name, lane.category, "NOT-TESTED", "ROW_CANCELLED")
      [] outcome.directive = Null /\ ~outcome.fileLevel /\ ~outcome.timedOut ->
             IF outcome.ok
             THEN Row(lane.file, outcome.name, lane.category, "PASS", "TEST_PASSED")
             ELSE Row(lane.file, outcome.name, lane.category, "FAIL", "TEST_FAILED")

(* What may be wrong with a lane, the root cause first. *)
CollapsePriority ==
    <<"LANE_OUTPUT_EMPTY", "LANE_MALFORMED_OUTPUT", "LANE_COUNT_MISMATCH",
      "LANE_UNCOLLECTABLE", "LANE_EMPTY">>

Problem(code, stream, declared, exit) ==
    CASE code = "LANE_OUTPUT_EMPTY" -> stream = <<>>
      [] code = "LANE_MALFORMED_OUTPUT" ->
             ~WellFormed(stream) \/ PositionsOf("exitCode", stream) /= {}
      [] code = "LANE_COUNT_MISMATCH" -> Summary(stream, "tests") /= declared
      [] code = "LANE_UNCOLLECTABLE" ->
             exit /= 0 /\ Summary(stream, "fail") + Summary(stream, "cancelled") = 0
      [] code = "LANE_EMPTY" -> DOMAIN Outcomes(stream) = {}

CollapseCode(stream, declared, exit) ==
    LET problems == {i \in DOMAIN CollapsePriority :
                        Problem(CollapsePriority[i], stream, declared, exit)}
    IN  IF problems = {} THEN Null ELSE CollapsePriority[Min(problems)]

Lane(id, rows, collapseCode) == [laneId |-> id, rows |-> rows, collapseCode |-> collapseCode]

(* One row stands for a lane that has none. *)
CollapsedLane(id, category, code) ==
    Lane(id, <<Row(id, "lane", category, "NOT-TESTED", code)>>, code)

(* Mutant: a collapse leaves the rows as they are. *)
AsReported(row) == row

(* A collapsed lane certifies nothing, but its failures stay. *)
Withheld(row) ==
    IF row.result = "PASS"
    THEN [row EXCEPT !.result = "NOT-TESTED", !.reasonCode = "LANE_COLLAPSE_PASS_WITHHELD"]
    ELSE row

(* Mutant: a collapse takes the failures with it. *)
CollectQuietly(lane, stream, exit) ==
    LET code == CollapseCode(stream, lane.declared, exit)
        outcomes == Outcomes(stream)
    IN  IF code /= Null THEN CollapsedLane(lane.file, lane.category, code)
        ELSE Lane(lane.file, [p \in DOMAIN outcomes |-> RowFor(outcomes[p], lane)], Null)

Collect(lane, stream, exit) ==
    LET code == CollapseCode(stream, lane.declared, exit)
        outcomes == Outcomes(stream)
        rows == [p \in DOMAIN outcomes |-> RowFor(outcomes[p], lane)]
    IN  IF code = Null THEN Lane(lane.file, rows, Null)
        ELSE IF DOMAIN rows = {} THEN CollapsedLane(lane.file, lane.category, code)
        ELSE Lane(lane.file, [p \in DOMAIN rows |-> Withheld(rows[p])], code)

-----------------------------------------------------------------------------
(* The contract matrix, in the process of the driver *)

(* coerceRow: rows are foreign data; one without an identity is no row.    *)
(* shape: a verdict as it should be, or what is wrong with the row.        *)
Coerce(raw) ==
    CASE raw.shape = "UNKNOWN_FIELD" -> Null
      [] raw.shape = "PASS" -> Row("matrix", raw.name, raw.category, "PASS", "CODE")
      [] raw.shape = "FAIL" -> Row("matrix", raw.name, raw.category, "FAIL", "CODE")
      [] OTHER -> Row("matrix", raw.name, raw.category, "NOT-TESTED", raw.shape)

MatrixResult(raw, entry) ==
    IF raw = Null
    THEN CollapsedLane(entry.file, entry.category, "LANE_UNCOLLECTABLE")
    ELSE IF Len(raw) /= entry.declared
    THEN CollapsedLane(entry.file, entry.category, "LANE_COUNT_MISMATCH")
    ELSE IF \E i \in DOMAIN raw : Coerce(raw[i]) = Null
    THEN CollapsedLane(entry.file, entry.category, "ROW_MALFORMED")
    ELSE Lane(entry.file, [i \in DOMAIN raw |-> Coerce(raw[i])], Null)

-----------------------------------------------------------------------------
(* resolveDuplicateEntries, assembleReport *)

(* The rows of all lanes, each by its lane and its place there. *)
Attributed == UNION {{<<l, r>> : r \in DOMAIN lanes[l].lane.rows} : l \in DOMAIN lanes}
EntryAt(at) == [row |-> lanes[at[1]].lane.rows[at[2]], laneId |-> lanes[at[1]].lane.laneId]

TestIds == {EntryAt(at).row.testId : at \in Attributed}
OfTest(id) == {at \in Attributed : EntryAt(at).row.testId = id}
FirstRow(id) ==
    LET l == Min({at[1] : at \in OfTest(id)})
    IN  EntryAt(<<l, Min({at[2] : at \in {a \in OfTest(id) : a[1] = l}})>>)

Settled(id) ==
    LET first == FirstRow(id) IN
    IF \A at, other \in OfTest(id) : at = other
    THEN first
    ELSE IF \A at \in OfTest(id) : EntryAt(at).row = first.row
    THEN [first EXCEPT !.row.result = "NOT-TESTED",
                       !.row.reasonCode = "ROW_DUPLICATE_IDENTICAL"]
    ELSE [first EXCEPT !.row.result = "FAIL",
                       !.row.reasonCode = "ROW_CONFLICTING_EVIDENCE"]

Resolved == {Settled(id) : id \in TestIds}

Tally(rows) ==
    [total |-> Cardinality(rows),
     pass |-> Cardinality({r \in rows : r.result = "PASS"}),
     fail |-> Cardinality({r \in rows : r.result = "FAIL"}),
     notTested |-> Cardinality({r \in rows : r.result = "NOT-TESTED"})]

RowsOf(entries) == {e.row : e \in entries}

(* Mutant: a lane is summed up before its duplicates are settled. *)
CountedBefore(laneId, resolved) ==
    Tally({EntryAt(at).row : at \in {a \in Attributed : EntryAt(a).laneId = laneId}})

(* The rows of a lane, once every id is settled. *)
LaneTally(laneId, resolved) == Tally(RowsOf({e \in resolved : e.laneId = laneId}))

CategoriesOf(rows) == {row.category : row \in rows}

Assembled ==
    LET resolved == Resolved
        rows == RowsOf(resolved)
    IN  [rows |-> rows,
         totals |-> Tally(rows),
         lanes |-> [l \in DOMAIN lanes |->
                       [laneId |-> lanes[l].lane.laneId,
                        tally |-> LaneTally(lanes[l].lane.laneId, resolved),
                        collapseCode |-> lanes[l].lane.collapseCode,
                        declared |-> lanes[l].declared]],
         categories |-> [c \in CategoriesOf(rows) |->
                            Tally({row \in rows : row.category = c})]]

(* verifyReport.  The sum of a function is counted, one pair for each unit. *)
SumOver(parts) == Cardinality(UNION {{x} \X (1..parts[x]) : x \in DOMAIN parts})

TallyFields == {"total", "pass", "fail", "notTested"}
Balanced(tally) == tally.total = tally.pass + tally.fail + tally.notTested

Verifies(rep) ==
    /\ \A r, q \in rep.rows : r.testId = q.testId => r = q
    /\ \A r \in rep.rows : r.result = "PASS" => r.reasonCode /= Null
    /\ rep.totals = Tally(rep.rows)
    /\ \A l \in DOMAIN rep.lanes : Balanced(rep.lanes[l].tally)
    /\ \A field \in TallyFields :
           SumOver([l \in DOMAIN rep.lanes |-> rep.lanes[l].tally[field]]) = rep.totals[field]
    /\ \A c \in DOMAIN rep.categories : Balanced(rep.categories[c])
    /\ SumOver([c \in DOMAIN rep.categories |-> rep.categories[c].total])
           = Cardinality(rep.rows)

-----------------------------------------------------------------------------
(* The driver *)

Emit(lane, declared, run) ==
    /\ lanes' = Append(lanes, [lane |-> lane, declared |-> declared])
    /\ runs' = Append(runs, run)
    /\ UNCHANGED <<tree, report, written, pc>>

(* The next lane of the manifest is of a file, or the matrix. *)
NextEntry == Manifest[Len(lanes) + 1]
MoreLanes == pc = "LANES" /\ Len(lanes) < Len(Manifest)

RunFileLane ==
    /\ MoreLanes /\ NextEntry.file \in tree
    /\ \E suite \in SuitesOf[NextEntry.file] :
           \E seen \in 0..Len(Output(suite)) :
               \E exit \in Exits(suite, seen) :
                   LET stream == SubSeq(Output(suite), 1, seen)
                   IN  Emit(Collect(NextEntry, stream, exit), NextEntry.declared,
                            [suite |-> suite, stream |-> stream])

MissingLane ==
    /\ MoreLanes /\ NextEntry.file \notin tree \cup {"matrix"}
    /\ Emit(CollapsedLane(NextEntry.file, NextEntry.category, "LANE_MISSING"),
            NextEntry.declared, Null)

RunMatrixLane ==
    /\ MoreLanes /\ NextEntry.file = "matrix"
    /\ \E raw \in MatrixRuns :
           Emit(MatrixResult(raw, NextEntry), NextEntry.declared, raw)

(* sweepForUndeclaredFiles *)
UndeclaredLane ==
    /\ pc = "LANES" /\ Len(lanes) >= Len(Manifest)
    /\ \E file \in tree \ Declared :
           /\ \A l \in DOMAIN lanes : lanes[l].lane.laneId /= file
           /\ Emit(CollapsedLane(file, "UNDECLARED", "LANE_UNDECLARED"), 0, Null)

(* The report is verified before it is swept for payloads and secrets, of  *)
(* which a test name may hold one; a defect of either kind writes nothing. *)
Assemble ==
    /\ pc = "LANES" /\ Len(lanes) >= Len(Manifest)
    /\ \A file \in tree \ Declared : \E l \in DOMAIN lanes : lanes[l].lane.laneId = file
    /\ report' = Assembled
    /\ \/ Verifies(report') /\ pc' = "WRITE_JSON"
       \/ pc' = "DEFECT"
    /\ UNCHANGED <<tree, lanes, runs, written>>

WriteJson ==
    /\ pc = "WRITE_JSON"
    /\ written' = {"json"} /\ pc' = "WRITE_HTML"
    /\ UNCHANGED <<tree, lanes, runs, report>>

WriteHtml ==
    /\ pc = "WRITE_HTML"
    /\ written' = written \cup {"html"} /\ pc' = "DONE"
    /\ UNCHANGED <<tree, lanes, runs, report>>

Ended == pc \in {"DEFECT", "DONE", "STOPPED"}

(* The process of the driver is killed, or cannot load its fixtures. *)
Stop ==
    /\ ~Ended /\ pc' = "STOPPED"
    /\ UNCHANGED <<tree, lanes, runs, report, written>>

Rest == Ended /\ UNCHANGED certificationVars

CertificationNext ==
    \/ RunFileLane \/ MissingLane \/ RunMatrixLane \/ UndeclaredLane
    \/ Assemble \/ WriteJson \/ WriteHtml \/ Stop \/ Rest

CertificationSpec == CertificationInit /\ [][CertificationNext]_certificationVars

-----------------------------------------------------------------------------
Named(run, name) == {i \in DOMAIN run.suite.tests : run.suite.tests[i].name = name}
CameTo(run, name, fate) == \E i \in Named(run, name) : run.suite.tests[i].fate = fate
FileLane(l) == lanes[l].lane.laneId \in Declared \cap tree

(* A row of the report says PASS only of what was tested: of a file, the   *)
(* one test of that name ran and passed in a process that ran all of the   *)
(* declared tests and did not die; of the matrix, the row arrived as a     *)
(* PASS among as many rows as were declared.  However a runner is cut      *)
(* short, its PASS rows are withheld (collectLane).                        *)
PassMeansTested ==
    report /= Null => \A row \in report.rows : row.result = "PASS" =>
        \E l \in DOMAIN lanes :
            /\ lanes[l].lane.laneId = row.testId[1]
            /\ IF row.testId[1] = "matrix"
               THEN /\ Len(runs[l]) = lanes[l].declared
                    /\ \A i \in DOMAIN runs[l] :
                           runs[l][i].name = row.testId[2] => runs[l][i].shape = "PASS"
               ELSE /\ FileLane(l)
                    /\ Len(runs[l].suite.tests) = lanes[l].declared
                    /\ ~runs[l].suite.dies
                    /\ Cardinality(Named(runs[l], row.testId[2])) = 1
                    /\ CameTo(runs[l], row.testId[2], "ok")

(* A failure is visible, never buried (rowForTapOutcome): the failure of a *)
(* test whose name is its own in the file is a FAIL row as soon as the     *)
(* runner has printed it, whatever becomes of the runner and of the lane.  *)
FailuresVisible ==
    report /= Null => \A l \in DOMAIN lanes : FileLane(l) =>
        \A name \in Names :
            /\ Cardinality(Named(runs[l], name)) = 1
            /\ CameTo(runs[l], name, "fail")
            /\ \E p \in PositionsOf("test", runs[l].stream) : runs[l].stream[p].name = name
            => \E row \in report.rows :
                   row.testId = <<lanes[l].lane.laneId, name>> /\ row.result = "FAIL"

(* What is assembled always passes the verification it is put to, so a     *)
(* defect is never one of the arithmetic: after duplicates and conflicts   *)
(* are settled, rows, totals, lanes and categories agree (assembleReport), *)
(* and every declared or undeclared file has a lane with a row of its own. *)
ReportVerifies ==
    report /= Null =>
        /\ Verifies(report)
        /\ \A file \in Declared \cup tree :
               \E row \in report.rows : row.testId[1] = file
===============================================================================
