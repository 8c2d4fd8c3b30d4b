----------------------------- MODULE MCRelease -----------------------------
(***************************************************************************)
(* The release machinery for TLC, from four starts.  After a release whose *)
(* evidence is there: "contents" asks what the gates make of any content   *)
(* of the files they read, nobody editing; in "tests" and in "live"        *)
(* developers edit, commit and amend while test suites, or live            *)
(* measurements, run.  In "suite" nothing is measured yet, and the live    *)
(* conversation suite runs, dies, resumes, and is turned into evidence and *)
(* a baseline while the code changes.                                      *)
(***************************************************************************)
EXTENDS ReleaseGate, TLC

CONSTANTS MaxMisses    \* bound on executions of the live suite that do not pass

VARIABLES focus

mcVars == <<repoVars, liveVars, suiteVars, gateVars, focus>>

----------------------------------------------------------------------------
(* The instance.                                                             *)

McFiles == {"stored", "repair", "routing", "multi_turn", "journeys"}

\* The second edit merges two migration branches.
McMigrationsAt ==
    LET base == [rev |-> "r1", down |-> <<>>]
        next == [rev |-> "r2", down |-> <<"r1">>]
    IN (0 :> {base}) @@ (1 :> {base, next})
       @@ (2 :> {base, next, [rev |-> "r3", down |-> <<"r1">>], [rev |-> "r4", down |-> <<"r2", "r3">>]})

\* The second edit tags a case as harmless that makes a consequential call.
McGoldenAt ==
    LET read  == [id |-> 1, capability |-> "read", risk |-> "none", live |-> TRUE, calls |-> {},
                  outcome |-> "answer"]
        act   == [id |-> 2, capability |-> "act", risk |-> "consequential", live |-> TRUE,
                  calls |-> {"act"}, outcome |-> "answer"]
        hidden == [id |-> 3, capability |-> "internal", risk |-> "none", live |-> TRUE, calls |-> {},
                   outcome |-> "answer"]
    IN (0 :> <<read, act, hidden>>) @@ (1 :> <<read, act, hidden>>)
       @@ (2 :> <<[read EXCEPT !.calls = {"act"}], act, hidden>>)

McPassOutcomes == {[wrong |-> {}, unpriced |-> {}, raises |-> {}],
                   [wrong |-> {2}, unpriced |-> {}, raises |-> {}],
                   [wrong |-> {}, unpriced |-> {1}, raises |-> {1}]}

McTurnsOf == <<1, 1>>
McAuthoredTurns == <<1, 2>>

McOperationsAt == (0 :> {"ask"}) @@ (1 :> {"ask"}) @@ (2 :> {"ask", "plan"})

Turn(failures, aborts, judge) ==
    [cost |-> 1, aborts |-> aborts, failures |-> failures, ops |-> {"ask"}, judge |-> judge]
Judged(level) == <<[kind |-> "judged", levels |-> {level}], [kind |-> "refused", levels |-> {}]>>
Unread == <<[kind |-> "malformed", levels |-> {}], [kind |-> "judged", levels |-> {"high"}]>>

McMeets ==
    LET good == Turn({}, FALSE, Judged("high")) IN
    {[fault |-> Null, turns |-> <<good>>],
     [fault |-> Null, turns |-> <<good, good>>],
     [fault |-> Null, turns |-> <<Turn({"unsupported_claim"}, FALSE, Unread)>>],
     [fault |-> Null, turns |-> <<good, Turn({"wrong_effect"}, FALSE, Judged("mid"))>>],
     [fault |-> Null, turns |-> <<good, Turn({}, TRUE, Judged("high"))>>],
     [fault |-> "setup", turns |-> <<>>],
     [fault |-> "stack", turns |-> <<>>]}

McDeclared ==
    LET test(n, live) == [name |-> n, live |-> live] IN
    [f \in {"denial", "browser", "harness", "thresholds"} |->
        CASE f = "denial" -> {test("denied", FALSE)}
          [] f = "harness" -> {test("replay", FALSE), test("paid", TRUE)}
          [] f = "browser" -> {test("axe", FALSE)}
          [] OTHER -> {test("load", FALSE)}]

Case(file, name, project, children) ==
    [file |-> file, name |-> name, project |-> project, children |-> children]

McXmlCases ==
    LET denial  == Case("denial", "denied", "", <<>>)
        replay  == Case("harness", "replay", "", <<>>)
        axe(p)  == Case("browser", "axe", p, <<>>)
        load(c) == Case("thresholds", "load", "", c)
    IN [r \in Runners |->
        CASE r = "pytest" -> {{denial, replay}, {denial},
                              {denial, Case("harness", "other", "", <<>>)},
                              {denial, [replay EXCEPT !.children = <<"system-out", "failure">>]}}
          [] r = "playwright" -> {{axe("chromium"), axe("msedge")}, {axe("chromium")}}
          [] OTHER -> {{load(<<>>)}, {load(<<"skipped">>)}}]

Good(runner) == CHOOSE s \in McXmlCases[runner] :
    /\ \A c \in s : CaseStatus(c) = "passed" /\ c.name # "other"
    /\ runner = "pytest" => Cardinality(s) = 2
    /\ runner = "playwright" => Cardinality(s) = 2

----------------------------------------------------------------------------
(* The two starts.                                                           *)

FirstTree == [k \in CodePaths |-> 0]
FirstBound == [ok |-> TRUE, commit |-> 1, dirty |-> FALSE, override |-> FALSE, scope |-> {},
               schema |-> "r1"]
FirstConfig == CHOOSE c \in Configs : TRUE

\* The evidence of the earlier release: the suite ran once through on commit 1.
FirstRun ==
    LET pass == [verdict |-> "pass", failures |-> {}, ops |-> {"ask"}] IN
    [code |-> [ok |-> TRUE, commit |-> 1, dirty |-> FALSE], images |-> FirstTree,
     rebuilt |-> TRUE, steady |-> TRUE, config |-> FirstConfig, incomplete |-> Null, finished |-> TRUE,
     prefixes |-> [i \in DOMAIN AllCells |->
        [scenario |-> AllCells[i].scenario, rep |-> AllCells[i].rep, attempt |-> 1,
         status |-> "passed", reason |-> Null, conv |-> <<0, i>>, tree |-> FirstTree,
         turns |-> [k \in 1..AuthoredTurns[AllCells[i].scenario] |-> pass]]]]

FirstJourneys ==
    [bound |-> FirstBound, verdict |-> "passed", expires |-> 0, inventory |-> OperationsAt[0],
     config |-> FirstConfig, found |-> Summarize(<<FirstRun>>, FALSE, {}),
     counted |-> Counted(<<FirstRun>>, CompleteReps(<<FirstRun>>)), steady |-> TRUE]

\* The release before is commit 1, where everything was measured; a second commit
\* may have followed, and the tests have run on whatever is HEAD.
Histories ==
    LET first == [line |-> <<1>>, tree |-> FirstTree, touches |-> CodePaths, date |-> 0]
        second(paths) == [line |-> <<1, 2>>, touches |-> paths, date |-> 1,
                          tree |-> [k \in CodePaths |-> IF k \in paths THEN 1 ELSE 0]]
    IN {<<first>>} \cup {<<first, second(paths)>> : paths \in {{"live"}, {"app"}, {Docs}}}

GateStart ==
    /\ focus \in {"contents", "tests", "live"}
    /\ commits \in Histories
    /\ focus = "contents" => Len(commits) = 1
    /\ focus = "tests" => Len(commits) = 2 /\ "live" \notin commits[2].touches
    /\ head = Len(commits) /\ work = commits[head].tree /\ clock = commits[head].date
    /\ dirt = {} /\ strayed = {c \in DOMAIN commits : commits[c].tree # work}
    /\ edits = work.live + work.app
    /\ manifest \in {"absent", "malformed"} /\ (focus # "contents" => manifest = "absent")
    /\ \E manual \in {"passed", "not executed"}, repaired \in BOOLEAN :
       /\ focus # "contents" \/ manifest = "malformed" => manual = "passed" /\ repaired
       /\ files = [f \in Files |->
          CASE f = "stored" -> [bound |-> FirstBound, verdict |-> "passed", manual |-> manual]
            [] f = "repair" -> IF ~repaired THEN Null
                               ELSE [bound |-> FirstBound, verdict |-> "passed", manual |-> "passed",
                                     stale |-> FALSE]
            [] f = "journeys" -> FirstJourneys
            [] OTHER -> [bound |-> FirstBound, verdict |-> "passed", expires |-> 0, tree |-> FirstTree]]
    /\ baseline = [source |-> FirstJourneys, config |-> FirstConfig, clean |-> FirstJourneys.found.clean,
                   rates |-> FirstJourneys.found.rates, reps |-> FirstJourneys.found.reps]
    /\ xml = [r \in Runners |-> [stamp |-> clock, seen |-> {work}, cases |-> Good(r)]]

SuiteStart ==
    /\ focus = "suite" /\ RepoInit /\ manifest = "absent"
    /\ files = [f \in Files |-> Null]
    /\ baseline = Null
    /\ xml = [r \in Runners |-> Null]

Init ==
    /\ GateStart \/ SuiteStart
    /\ measure = Null /\ images = Null /\ suite = Null /\ reports = <<>>
    /\ testing = Null /\ gate = Null /\ measures = (IF focus = "contents" THEN 1 ELSE 0)

----------------------------------------------------------------------------
(* Steps.                                                                    *)

\* What a developer commits at once: everything, or the code alone.
Chosen == {DirtyPaths({}), DirtyPaths({}) \cap CodePaths}

\* A test suite that runs meanwhile sees the tree change.
DevelopGate ==
    /\ \/ focus # "contents" /\ \E k \in CodePaths : EditCode(k)
       \/ focus # "contents" /\ \E paths \in Chosen : Commit(paths)
       \/ focus # "contents" /\ \E paths \in Chosen : Amend(paths)
       \/ focus = "contents" /\ RecordDigests
       \/ focus = "contents" /\ Wait
    /\ testing' = IF testing = Null THEN Null ELSE [testing EXCEPT !.seen = @ \cup {work'}]
    /\ UNCHANGED <<liveVars, suiteVars, xml, gate, measures>>

\* A live suite that has its images does not look at the tree again, and one that
\* builds them only at its code, so the rest may as well change between two
\* invocations.
DevelopSuite ==
    /\ \/ edits = 0 /\ (suite = Null \/ Building) /\ \E k \in CodePaths : EditCode(k)
       \/ suite = Null /\ Len(reports) = 1 /\ EditCode("live")
       \/ suite = Null /\ EditDocs
       \/ suite = Null /\ Len(commits) < 2 /\ Commit(DirtyPaths({}))
    /\ UNCHANGED <<liveVars, suiteVars>>

Faultless == [wrong |-> {}, unpriced |-> {}, raises |-> {}]

MeasureLive ==
    /\ \/ /\ testing = Null /\ (focus = "live" => measures = 0)
          /\ \E kind \in IF focus = "live" THEN {"routing"} ELSE LiveKinds, allowDirty \in BOOLEAN, expires \in {0, MaxTime} :
                StartMeasure(kind, allowDirty, expires)
          /\ Measured
       \/ \E outcome \in IF focus = "live" THEN {Faultless} ELSE PassOutcomes : MeasurePass(outcome) /\ UNCHANGED measures
       \/ FinishMeasure /\ UNCHANGED measures
       \/ MeasureDies /\ UNCHANGED measures
    /\ UNCHANGED <<suiteVars, xml, testing, gate>>

RunTests ==
    \/ measure = Null /\ \E runner \in Runners : StartTests(runner)
    \/ \E cases \in IF testing = Null THEN {}
                     ELSE IF focus = "tests" THEN {Good(testing.runner)} ELSE XmlCases[testing.runner] :
         \E stamped \in IF focus = "tests" THEN BOOLEAN ELSE {TRUE} : FinishTests(cases, stamped)

RecordEvidence ==
    \/ \E allowDirty \in BOOLEAN : Regenerate(allowDirty)
    \/ RecordManualGate
    \/ focus = "contents" /\ \E allowDirty \in BOOLEAN : GenerateRepairJourney(allowDirty)

RunGate ==
    \E donor \in {Null, IF focus = "tests" THEN "stored" ELSE "routing"}, allowDirty \in BOOLEAN,
       allowMissing \in IF focus = "contents" THEN BOOLEAN ELSE {FALSE} :
        \/ GateA(donor, allowDirty, allowMissing)
        \/ GateB(donor, allowDirty, allowMissing)

MissesOf(prefixes) == Len(SelectSeq(prefixes, LAMBDA p : p.status # "passed"))
Misses == (IF suite = Null THEN 0 ELSE MissesOf(suite.report.prefixes))
          + FoldLeft(LAMBDA n, r : n + MissesOf(r.prefixes), 0, reports)

RunSuite ==
    \/ \E resume \in 0..Len(reports), skipBuild \in BOOLEAN, config \in Configs :
        StartSuite(resume, skipBuild, config)
    \/ \E builds \in BOOLEAN : BuildImages(builds)
    \/ BuildDies
    \/ \E met \in Meets : Execute(met) /\ Misses' <= MaxMisses
    \/ SuiteFinishes
    \/ \E begun \in 0..1 : SuiteDies(begun) /\ Misses' <= MaxMisses

Journeys ==
    \/ \E paths \in {<<1>>, <<2>>, <<1, 2>>}, accepted \in {{}, {<<1, 1>>}}, allowDirty \in BOOLEAN :
        /\ Range(paths) \subseteq DOMAIN reports /\ files["journeys"] = Null
        /\ GenerateJourneys(paths, accepted, allowDirty)
    \/ DeriveBaseline

GateStep ==
    /\ focus # "suite"
    /\ \/ DevelopGate
       \/ focus # "tests" /\ MeasureLive
       \/ focus # "live" /\ (RunTests \/ RecordEvidence)
       \/ RunGate
SuiteStep ==
    /\ focus = "suite"
    /\ \/ files["journeys"] = Null /\ (DevelopSuite \/ RunSuite)
       \/ Journeys
    /\ UNCHANGED gateVars

\* A gate run ends the behaviour: the release is decided.
Next == gate = Null /\ (GateStep \/ SuiteStep) /\ UNCHANGED focus

Spec == Init /\ [][Next]_mcVars

----------------------------------------------------------------------------
(***************************************************************************)
(* A release gate that lets a release out has measured that release, live  *)
(* conversation evidence rests on distinct conversations with the code it  *)
(* names, and every saved report and baseline can be used                  *)
(* (gate_b_readiness.main, live_conversations/evidence.generate,           *)
(* publication.plan_publication, live_conversation_drop_check.compare).    *)
(***************************************************************************)
ReleaseIsEarned == GateIsEarned /\ JourneysAreEarned /\ ReportsAreUsable
=============================================================================
