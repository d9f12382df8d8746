---------------------------- MODULE MCCertification ----------------------------
(***************************************************************************)
(* The two drivers of the partner tests, one at a time: the contract       *)
(* runner over the platform, and the driver of the certification report.   *)
(***************************************************************************)
EXTENDS ContractRunner, Certification

CONSTANTS k1, p1, p2

(***************************************************************************)
(* The platform before a free environment (three requests, one key, two    *)
(* bodies), under the whole matrix of failure modes, and under the product *)
(* of the fault plans.                                                     *)
(***************************************************************************)
MCNonces == 1..5
MCDrifts == {0, 1}

Alpha == CHOOSE id \in Simulators : id.partnerId = "partner-alpha"
Base == WellBehaved(Alpha)

Breaker(threshold, failures) ==
    [failureThreshold |-> threshold, resetTimeout |-> 1, downstreamFailures |-> failures]

(* The breaker opens at the first failure and its probe fails; it opens at *)
(* the second; the entitlement runs out on the way.                        *)
MCScenarios ==
    {[Base EXCEPT !.circuit = Breaker(1, 2)],
     [Base EXCEPT !.circuit = Breaker(2, 2)],
     WithClaimedEntitlementData(Base, "validUntil", 3)}

Scripts == {<<"OK">>, <<"OK", "AMBIGUOUS">>, <<"AMBIGUOUS", "OK">>, <<"REFUSED">>,
            <<"CLEAN">>, <<"CLEAN", "OK">>}

MCPlans ==
    {[Base EXCEPT !.second = second, !.presentations = n, !.receiptFault = receipt,
                  !.downstream = downstream, !.circuit = breaker,
                  !.emitEventCount = count, !.transportScript = script,
                  !.deliverTwice = twice, !.reconcile = reconcile] :
        second \in {"NONE", "REPLAY", "DUPLICATE", "CONFLICT"}, n \in {1, 2},
        receipt \in {"NONE", "OMIT"},
        downstream \in {"HEALTHY", "UNAVAILABLE", "FAILS_ONCE_THEN_HEALTHY"},
        breaker \in {None, Breaker(1, 1)}, count \in {1, 2}, script \in Scripts,
        twice \in BOOLEAN, reconcile \in {None, "RESOLVE", "ESCALATE"}}

-----------------------------------------------------------------------------
(***************************************************************************)
(* Two test files, the contract matrix between them, a file on disk that   *)
(* nobody declared and a declared one that may be missing.                 *)
(***************************************************************************)
Entry(file, category, declared) == [file |-> file, category |-> category, declared |-> declared]

MCManifest ==
    <<Entry("first", "SHARED", 2), Entry("matrix", "MATRIX", 2), Entry("second", "OPENAPI", 1)>>

MCTrees == {{"first", "second"}, {"first", "stray"}}

Test(names, fates) == [name : names, fate : fates]
Suite(tests, printed, dies) == [tests |-> tests, printed |-> printed, dies |-> dies]

(* The names of tests are interchangeable: the first is called "a". *)
Pairs == {tests \in [1..2 -> Test({"a", "b"}, {"ok", "fail", "timeout", "skip"})] :
             tests[1].name = "a"}
Singles == [1..1 -> Test({"a"}, {"ok", "fail", "todo"})]

(* A test may print a line that reads like a counter of the runner. *)
MCSuites ==
    [file \in {"first", "second"} |->
        IF file = "first"
        THEN {Suite(tests, <<>>, FALSE) : tests \in Pairs \cup Singles}
             \cup {Suite(tests, <<Counted("tests", 2)>>, TRUE) :
                      tests \in {<<>>} \cup Singles}
        ELSE {Suite(tests, <<Counted("tests", 1)>>, FALSE) :
                  tests \in [1..1 -> Test({"a"}, {"ok", "fail"})]}]

Raw(name, shape) == [name |-> name, category |-> "RECEIPT", shape |-> shape]

MCMatrixRuns ==
    {Null, <<>>, <<Raw("x", "PASS"), Raw("y", "FAIL")>>, <<Raw("x", "PASS"), Raw("x", "PASS")>>,
     <<Raw("x", "PASS"), Raw("x", "FAIL")>>, <<Raw("x", "PASS"), Raw("y", "UNKNOWN_FIELD")>>,
     <<Raw("x", "ROW_MISSING_REASON_CODE"), Raw("y", "PASS")>>}

-----------------------------------------------------------------------------
(* One of the two drivers runs, the other stays where it starts. *)

RunnerIdle ==
    /\ mode = None
    /\ scenario = [Base EXCEPT !.circuit = Breaker(1, 2)]
    /\ now = 0 /\ signed = {}
DriverIdle == tree = {"first", "second"} /\ pc = "LANES" /\ lanes = <<>>

MCInit == Init /\ CertificationInit /\ (RunnerIdle \/ DriverIdle)

MCNext ==
    \/ RunnerIdle /\ CertificationNext /\ UNCHANGED vars
    \/ DriverIdle /\ Next /\ UNCHANGED certificationVars

MCSpec == MCInit /\ [][MCNext]_<<vars, certificationVars>>
===============================================================================
