----------------------------- MODULE MCPlanning -----------------------------
(***************************************************************************)
(* Scenario data in use, the governed solver, the projection's algorithms, *)
(* grounding, tool calls and drafts.  They share definitions and no state: *)
(* a behaviour exercises one of them while the others stay idle.           *)
(***************************************************************************)
EXTENDS ScenarioData, GovernedSolver, ProjectionAlgorithms, Grounding, Capabilities, Drafting

VARIABLE part

----------------------------------------------------------------------------
(* Scenario data: four importers, three of them with one version and         *)
(* different or equal payloads, whose records share ids and differ in        *)
(* content.                                                                  *)

PlainPayload == [areas |-> {"a"}, constraints |-> <<"max">>, tasks |-> <<[id |-> 1, area |-> "a"]>>,
         workers |-> <<1>>, windows |-> <<>>,
         quals |-> <<[worker |-> 1, task |-> 1, override |-> None, rate |-> 1]>>,
         outbound |-> <<>>, inbound |-> <<>>,
         indirect |-> <<[task |-> 1, ok |-> TRUE, day |-> 0, from |-> 0, to |-> 2, amount |-> 1],
                        [task |-> 1, ok |-> TRUE, day |-> 0, from |-> 2, to |-> 3, amount |-> 1]>>]

MCPayload == ("old" :> PlainPayload) @@
             ("new" :> [PlainPayload EXCEPT !.indirect = <<[@[1] EXCEPT !.amount = 2], [@[2] EXCEPT !.amount = 2], @[2]>>,
                                    !.constraints = <<"min">>, !.quals = <<>>,
                                    !.tasks = <<[id |-> 1, area |-> "b"]>>])

Assign(n, s, e) == [record |-> n, worker |-> 1, task |-> 1, start |-> s, end |-> e]

MCSchedules == ("b1" :> [version |-> 1, assignments |-> <<Assign(1, 0, 1), Assign(2, 1, 2)>>]) @@
               ("b2" :> [version |-> 1, assignments |-> <<Assign(1, 0, 1), Assign(3, 1, 3)>>])

OfferRace == ("i1" :> [version |-> 1, payload |-> "old"]) @@ ("i2" :> [version |-> 2, payload |-> "new"])
             @@ ("i3" :> [version |-> 2, payload |-> "old"]) @@ ("i4" :> [version |-> 2, payload |-> "new"])

Args(t, s, e) == [task |-> t, family |-> None, start |-> s, end |-> e]
MCMetricRequests ==
    {[metric |-> "required_headcount_minutes", args |-> Args(1, 1, 3)],
     [metric |-> "worker_count", args |-> Args(None, None, None)],
     [metric |-> "qualified_worker_count", args |-> Args(1, None, None)],
     [metric |-> "worker_count", args |-> Args(1, None, None)],
     [metric |-> "required_demand_volume", args |-> Args(1, 1, 3)]}


\* Bound: three rival imports, or one import of each version with readers.
DataFocus ==
    \/ /\ \A r \in Readers : reader[r].group = None
       /\ \A c \in Computes : compute[c].pc = "idle"
       /\ baseline = None
    \/ \A i \in {"i3", "i4"} : imp[i].pc = "start" /\ imp[i].crashes = 0

----------------------------------------------------------------------------
(* The solver: one or two workers on a horizon of eight two-minute hours in  *)
(* two days; a template with a break, one long enough for two slots, two of  *)
(* one prefix; a worker with two rows.                                       *)

Tpl(pre, len, brk) == [prefix |-> pre, length |-> len, breaks |-> brk]
Short == Tpl("a", 2, {})
Broken == Tpl("b", 5, {[offset |-> 2, length |-> 1, paid |-> FALSE]})
Twin == Tpl("b", 4, {[offset |-> 1, length |-> 1, paid |-> TRUE]})

Qual(w, t, o) == [worker |-> w, task |-> t, override |-> o, rate |-> 1]
Win(w, k, s, e) == [worker |-> w, ok |-> TRUE, kind |-> k, start |-> s, end |-> e]
Out(t, s, e, a) == [task |-> t, ok |-> TRUE, start |-> s, end |-> e, amount |-> a]
Ind(t, d, f, u) == [task |-> t, ok |-> TRUE, day |-> d, from |-> f, to |-> u, amount |-> 1]

PayloadOf(ws, qs, wins, outs, inds, tpls, cap) ==
    [horizon |-> 16, weekCap |-> cap, wage |-> 1, areas |-> {"a"}, constraints |-> <<>>,
     tasks |-> <<[id |-> 1, area |-> "a"], [id |-> 2, area |-> "a"]>>,
     workers |-> ws, quals |-> qs, windows |-> wins, templates |-> tpls,
     outbound |-> outs, inbound |-> <<>>, indirect |-> inds]

OneWorker == <<Qual(1, 1, None), Qual(1, 2, 2)>>
MCPayloads ==
    {PayloadOf(<<1>>, OneWorker, <<Win(1, "availability", 1, 6), Win(1, "roster", 8, 18)>>,
               <<Out(1, 3, 5, 1), Out(2, 9, 15, 1)>>, d, t, 5) :
        d \in {<<>>, <<Ind(2, 0, 0, 4)>>}, t \in {{Short}, {Broken, Twin}}}
    \cup
    {PayloadOf(<<1>>, OneWorker,
               <<Win(1, "availability", 0, 3), Win(1, "availability", 4, 6), Win(1, "availability", 5, 8)>>,
               <<Out(1, 1, 4, 2)>>, <<Ind(2, 0, 4, 7)>>, {Short}, c) : c \in {4, 9}}
    \cup
    {PayloadOf(ws, <<Qual(1, 1, None), Qual(2, 1, 2)>>,
               <<Win(1, "roster", 0, 3), Win(2, "availability", 2, 5)>>,
               <<Out(1, 0, 4, 2)>>, <<>>, {Short}, 9) : ws \in {<<1, 2>>, <<1, 2, 1>>}}

Tool(t) == [tool |-> t, task |-> 1, worker |-> 1, n |-> 2, day |-> 0, factor |-> 2, max |-> 2]
MCOverrides == {<<>>, <<Tool("scale_demand")>>, <<Tool("set_min_workers_per_task"), Tool("lock_worker_shift")>>,
                <<Tool("exclude_worker_from_task"), Tool("set_max_hours")>>}

----------------------------------------------------------------------------
(* The projection: a repeated and a missing task id, rows of unknown tasks,  *)
(* an unparsable row, an inverted interval and windows across midnight.      *)

Bases == {[areas |-> {"a"}, constraints |-> <<"max">>,
           tasks |-> t, workers |-> <<1, None, 2, 1>>, windows |-> <<>>,
           quals |-> <<[worker |-> 1, task |-> 1, override |-> None, rate |-> 1],
                       [worker |-> 1, task |-> 3, override |-> None, rate |-> 1],
                       [worker |-> 2, task |-> 1, override |-> 0, rate |-> 1]>>,
           outbound |-> <<>>, inbound |-> <<>>, indirect |-> <<>>] :
           t \in {<<[id |-> 1, area |-> "a"], [id |-> 2, area |-> "b"]>>,
                  <<[id |-> 1, area |-> "a"], [id |-> None, area |-> "a"], [id |-> 1, area |-> "a"]>>}}

OutRows == {[task |-> t, ok |-> x[1], start |-> 1, end |-> x[2], amount |-> 1] :
               t \in {1, 3}, x \in {<<TRUE, 1>>, <<TRUE, 3>>, <<FALSE, 3>>}}
InRows == {[ok |-> TRUE, start |-> s, end |-> 4,
            tasks |-> <<[task |-> 1, amount |-> 2], [task |-> 2, amount |-> 1]>>] : s \in {0, 2}}
IndRows == {[task |-> x[1], ok |-> TRUE, day |-> 0, from |-> x[2], to |-> x[3], amount |-> 2] :
               x \in ({1} \X {1, 3} \X {1, 2}) \cup {<<2, 1, 2>>}}

AcrossMidnight == [task |-> 1, ok |-> TRUE, day |-> 0, from |-> 3, to |-> 1, amount |-> 1]

MCFactPayloads ==
    {[b EXCEPT !.outbound = o, !.inbound = i, !.indirect = d] :
        b \in Bases, o \in {<<>>} \cup {<<r>> : r \in OutRows},
        i \in {<<>>} \cup {<<r>> : r \in InRows},
        d \in {<<>>} \cup {<<r>> : r \in IndRows} \cup {<<r, AcrossMidnight>> : r \in IndRows}}

MCRequests ==
    {[metric |-> m, args |-> [task |-> t, family |-> f, start |-> w[1], end |-> w[2]]] :
        m \in {"required_headcount_minutes", "required_demand_volume", "qualified_worker_count"},
        t \in {1, 2}, f \in {None, Indirect},
        w \in {<<None, None>>, <<0, 2>>, <<1, 6>>, <<0, 12>>, <<2, 2>>}}

MCQueries ==
    {[cursor |-> 0, limit |-> l, sort |-> s, order |-> o, filters |-> f] :
        l \in {1, 2, 3}, s \in {None, "start", "amount"}, o \in {"asc", "desc"},
        f \in {{}, {<<"task", 1>>}, {<<"start_minute_gte", 1>>, <<"end_minute_lte", 5>>}}}

----------------------------------------------------------------------------
(* Grounding: a worker whose field changes with the version and one that     *)
(* goes, assignments of two baselines; answers that cite what was and was    *)
(* not read, with every way a tag can be broken.                             *)

TextV(s) == [kind |-> "text", s |-> s]
NumV(n) == [kind |-> "num", n |-> n]
MCWorkerRows == (1 :> (1 :> TextV("a") @@ 2 :> NumV(2))) @@ (2 :> (1 :> TextV("b")))
MCAssignmentRows == (1 :> (1 :> [kind |-> "list", items |-> {TextV("a"), NumV(2)}])) @@ (2 :> (2 :> [kind |-> "none"]))

Said(s) == [s |-> s, n |-> IF s = "2.0" THEN 2 ELSE Missing]
Word(s) == [t |-> "text", s |-> s]
OpenTag(ev, f, v) == [t |-> "open", ev |-> ev, field |-> f, value |-> v]
CloseTag == [t |-> "close"]
Hole(h) == [t |-> "hole", h |-> h]
BrokenTag(v) == [t |-> "broken", value |-> v]
Tagged(ev, v, body) == <<OpenTag(ev, "field", Said(v))>> \o body \o <<CloseTag>>
W(n) == <<"workers", n>>
A1 == <<"baseline-assignments", 1>>

MCCalculations ==
    {[kind |-> "calc", id |-> "one", version |-> 1, value |-> 5, rows |-> 1, refs |-> <<W(1)>>],
     [kind |-> "calc", id |-> "short", version |-> 1, value |-> 5, rows |-> 1, refs |-> <<>>],
     [kind |-> "calc", id |-> "zero", version |-> 1, value |-> 0, rows |-> 0, refs |-> <<>>]}

MCReplies ==
    {Tagged(W(1), "a", <<Word("a")>>) \o Tagged(W(1), "a", <<Word("a"), Word("x")>>),
     Tagged(W(2), "2.0", <<Word("x")>>) \o Tagged(A1, "2.0", <<Word("x"), Word("x")>>) \o <<Word("x")>>,
     Tagged(A1, "none", <<Word("x"), Word("x"), Word("x")>>) \o <<Hole(1)>>,
     <<OpenTag(W(1), "other", Said("a")), Word("x"), CloseTag, Hole(2)>>,
     Tagged(A1, "a", <<Word("x"), Hole(1)>>) \o <<Hole(1), Hole(2)>>}

MCTexts ==
    LET T == {Word("a"), OpenTag(W(1), "field", Said("a")), OpenTag(W(1), "field", Missing), CloseTag, Hole(1), BrokenTag(Said("a"))}
    IN  UNION {[1..n -> T] : n \in 0..4}

----------------------------------------------------------------------------
(* Tools: a chat turn, a resumed one and the start route, with every policy  *)
(* on, with two off, for a revoked conversation and out of budget.           *)

ChatContext == [role |-> "planner", site |-> 1, conversationSite |-> 1, conversation |-> 1, revoked |-> {},
                policy |-> Policies, explicit |-> FALSE, resume |-> FALSE, budget |-> Missing]
MCContexts ==
    {ChatContext, [ChatContext EXCEPT !.resume = TRUE], [ChatContext EXCEPT !.explicit = TRUE],
     [ChatContext EXCEPT !.policy = EnabledPolicy({"demonstration_enabled", "scheduling_compute_enabled"})],
     [ChatContext EXCEPT !.policy = Policies \ {"scheduling_optimize_enabled"}, !.explicit = TRUE],
     [ChatContext EXCEPT !.revoked = {1}], [ChatContext EXCEPT !.conversationSite = 2],
     [ChatContext EXCEPT !.budget = 0]}

(* Drafts: a task and a worker, of which the second version keeps the task;  *)
(* every kind with its numbers in and out of range.                          *)

MCRecords == (1 :> {<<TaskGroup, 1>>, <<WorkerGroup, 1>>}) @@ (2 :> {<<TaskGroup, 1>>}) @@ (3 :> {<<TaskGroup, 1>>})
MCLocks == (1 :> <<"k1", "k2", "k3">>) @@ (2 :> <<"k4", "k5", "k6">>) @@ (3 :> <<"k7", "k8", "k9", "k10">>)
MCHorizon == (1 :> 16) @@ (2 :> 8) @@ (3 :> 8)
Propose(kind, rec, related, nums) == [kind |-> kind, rec |-> rec, related |-> related, nums |-> nums]
Proposed ==
    {Propose("set_min_workers_per_task", <<TaskGroup, r>>, Missing, [n |-> n]) : r \in {1, 2}, n \in {0, 1}}
    \cup {Propose("scale_demand", <<g, 1>>, Missing, [factor |-> 2]) : g \in {TaskGroup, WorkerGroup}}
    \cup {Propose("lock_worker_shift", <<WorkerGroup, 1>>, Missing, [start |-> s, end |-> e]) : s \in {0, 15}, e \in {15, 16, 17}}
    \cup {Propose("exclude_worker_from_task", <<WorkerGroup, 1>>, r, <<>>) : r \in {Missing, <<TaskGroup, 1>>, <<WorkerGroup, 1>>}}
    \cup {Propose("set_max_hours", <<WorkerGroup, 1>>, Missing, [max_hours |-> h]) : h \in {0, 56, 57}}
    \cup {Propose("set_max_hours", <<WorkerGroup, 1>>, Missing, [max_hours |-> 8, n |-> 1])}
MCProposals == {<<>>} \cup {<<p>> : p \in Proposed} \cup {<<p, q>> : p, q \in Proposed}
               \cup {<<p, p, p>> : p \in Proposed}
MCCandidates == UNION {[1..n -> {<<TaskGroup, 1>>, <<TaskGroup, 2>>, <<WorkerGroup, 1>>}] : n \in 0..5}

----------------------------------------------------------------------------
SolveIdle ==
    /\ payload = None /\ ov = None /\ space = {} /\ stage = "idle"
    /\ r1 = NoSolve /\ outcome = NoSolve /\ verdict = None
AskIdle == asked = [kind |-> "none"] /\ Unanswered

ToolsIdle ==
    /\ grant = ChatContext /\ tools = {} /\ call = [c \in CallIds |-> NoCall]
    /\ captured = <<>> /\ acted = [c \in CallIds |-> 0]

Init ==
    /\ DataInit /\ GroundInit /\ DraftInit
    /\ \/ part \in {"data", "ground", "draft"} /\ SolveIdle /\ AskIdle /\ ToolsIdle
       \/ part = "solve" /\ SolveInit /\ AskIdle /\ ToolsIdle
       \/ part = "tools" /\ SolveIdle /\ AskIdle /\ ToolsInit
       \/ /\ part = "ask" /\ SolveIdle /\ ToolsIdle /\ Unanswered
          /\ asked \in ProjectionQuestions \cup TagQuestions \cup ClarificationQuestions

Next ==
    \/ part = "data" /\ UseData /\ DataFocus' /\ UNCHANGED <<part, solveVars, questionVars, groundVars, toolVars, draftVars>>
    \/ part = "solve" /\ Solve /\ UNCHANGED <<part, dataVars, questionVars, groundVars, toolVars, draftVars>>
    \/ part = "ground" /\ Ground /\ UNCHANGED <<part, dataVars, solveVars, questionVars, toolVars, draftVars>>
    \/ part = "tools" /\ UseTools /\ UNCHANGED <<part, dataVars, solveVars, questionVars, groundVars, draftVars>>
    \/ part = "draft" /\ Draft /\ UNCHANGED <<part, dataVars, solveVars, questionVars, groundVars, toolVars>>
    \/ /\ part = "ask" /\ (AnswerProjection \/ AnswerTags \/ AnswerClarification)
       /\ UNCHANGED <<part, dataVars, solveVars, groundVars, toolVars, draftVars>>

Spec == Init /\ [][Next]_<<part, dataVars, solveVars, questionVars, groundVars, toolVars, draftVars>>
=============================================================================
