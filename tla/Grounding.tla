------------------------------ MODULE Grounding ------------------------------
(***************************************************************************)
(* One agent turn's evidence, from the tool calls that read it to the      *)
(* answer the planner sees: pages of records and calculations captured by  *)
(* the turn's trusted sink, the citation handles minted for them by tool   *)
(* threads, the claim tags and placeholders of the model's answer, the     *)
(* gate that grounds them one by one while the site's data may move on,    *)
(* and the tier-1 wording check with its batches, deadline and failures.   *)
(*                                                                         *)
(* An answer is a sequence of tokens, the ones the tag and placeholder     *)
(* expressions split the text into.  A record has one field; a claimed     *)
(* value is the string and the number it reads as.  Assignment records are *)
(* content-addressed (engine/governed_adapter.py), worker records are not. *)
(***************************************************************************)
EXTENDS Questions, ScenarioProjection

CONSTANTS WorkerRows,      \* WorkerRows[v][r]: what worker r's field holds in version v
          AssignmentRows,  \* AssignmentRows[b][r]: assignment r's, in baseline b of version 1
          Threads,         \* tool threads of the turn
          MaxCalls,        \* bound: tool calls of the turn
          RowLimit,        \* scheduling_inspect_row_limit
          Calculations,    \* results the calculators may return
          Replies,         \* answers the model may give, as token sequences
          Texts,           \* token sequences put to the parser alone
          TokenBudget,     \* the checker's budget for one request
          Threshold        \* claim-check flag threshold, in hundredths

Failures == {"missing_evidence", "version_mismatch", "unknown_field", "value_mismatch", "calculation_failed"}
IsToken(k) == k.t \in {"text", "hole", "open", "close", "broken"}
IsTokens(tokens) == tokens \in Seq(ToSet(tokens)) /\ \A k \in ToSet(tokens) : IsToken(k)

\* An assignment's record id is a digest of its content (governed_adapter.py), so
\* two baselines that share one share the assignment.
ASSUME GroundingAssumption ==
    /\ DOMAIN AssignmentRows = {1, 2} /\ RowLimit \in Nat /\ TokenBudget \in Nat
    /\ \A rows \in {WorkerRows[1], AssignmentRows[1], AssignmentRows[2]} :
          DOMAIN rows \in SUBSET Nat /\ IsFiniteSet(DOMAIN rows)
    /\ \A r \in (DOMAIN AssignmentRows[1]) \cap (DOMAIN AssignmentRows[2]) : AssignmentRows[1][r] = AssignmentRows[2][r]
    /\ \A c \in Calculations : c.kind = "calc" /\ c.refs \in Seq(ToSet(c.refs))
    /\ \A tokens \in Texts \cup Replies : IsTokens(tokens)
    /\ Missing \notin Failures \cup {"timeout", "bad_response"} /\ Missing \notin {0, 100}

VARIABLES world,     \* the site: [version, baseline]
          tool,      \* per thread: the page being handed out
          calls,
          registry,  \* [results : Seq(result id), records : [group -> Seq(record id)]]
          sink,      \* trusted results in the order the sink captured them
          gate,      \* "tools" "grounding" "checking" "done"
          reply,     \* the answer's tokens
          pieces,    \* its facts, placeholders and prose
          segments,  \* what the gate made of them so far
          checker    \* [mode, batches, scores, skipped, error]

groundVars == <<world, tool, calls, registry, sink, gate, reply, pieces, segments, checker>>

Pinned == 1                        \* deps.scenario_version_id, fixed when the turn began
Groups == {"workers", "baseline-assignments"}

\* The records a group holds now: assignments only while their baseline's
\* scenario version is the latest one.
RowsOf(g) ==
    IF g = "workers" THEN WorkerRows[world.version]
    ELSE IF world.version = 1 THEN AssignmentRows[world.baseline] ELSE <<>>

\* A fixture import publishes a new version; a promotion moves the baseline.
ImportVersion ==
    /\ world.version = 1 /\ world' = [world EXCEPT !.version = 2]
    /\ UNCHANGED <<tool, calls, registry, sink, gate, reply, pieces, segments, checker>>

BaselineMoves ==
    /\ world.baseline = 1 /\ world' = [world EXCEPT !.baseline = 2]
    /\ UNCHANGED <<tool, calls, registry, sink, gate, reply, pieces, segments, checker>>

----------------------------------------------------------------------------
(* The evidence registry.  A handle is the group's letter and a number.     *)

NoPage == [group |-> Missing]

\* The number of a record: minted on first sight, under the registry's lock.
HandleForRecord(g, r) ==
    IF Contains(registry.records[g], r) THEN registry
    ELSE [registry EXCEPT !.records[g] = Append(@, r)]

HandleFor(id) ==
    IF Contains(registry.results, id) THEN registry ELSE [registry EXCEPT !.results = Append(@, id)]

Number(s, x) == CHOOSE n \in DOMAIN s : s[n] = x

\* _validated_query: what the request asks for, held to the row limit.
ValidQuery(cursor, limit) == cursor >= 0 /\ limit >= 1
Window(limit) == IF limit < RowLimit THEN limit ELSE RowLimit

\* The read: the page, unless the query is refused or its version is not the pin.
InspectRead(t, g, cursor, limit) ==
    LET rows == RowsOf(g)
        order == InOrder(DOMAIN rows)
        last == IF cursor + Window(limit) < Len(order) THEN cursor + Window(limit) ELSE Len(order)
        page == SubSeq(order, cursor + 1, last)
    IN  /\ gate = "tools" /\ tool[t] = NoPage /\ calls < MaxCalls
        /\ calls' = calls + 1
        /\ tool' = IF ~ValidQuery(cursor, limit) \/ world.version # Pinned THEN tool
                   ELSE [tool EXCEPT ![t] =
                          [group |-> g, todo |-> page, rows |-> rows, items |-> <<>>,
                           truncated |-> last < Len(order) \/ Len(page) < Len(order)]]
        /\ UNCHANGED <<world, registry, sink, gate, reply, pieces, segments, checker>>

\* Each row of the page takes its handle in a lock acquisition of its own.
MintRow(t) ==
    LET g == tool[t].group
        r == Head(tool[t].todo)
    IN  /\ tool[t] # NoPage /\ tool[t].todo # <<>>
        /\ registry' = HandleForRecord(g, r)
        /\ tool' = [tool EXCEPT ![t].todo = Tail(@),
                                ![t].items = Append(@, [ev |-> <<g, Number(registry'.records[g], r)>>,
                                                        record |-> r, value |-> tool[t].rows[r]])]
        /\ UNCHANGED <<world, calls, sink, gate, reply, pieces, segments, checker>>

InspectReturn(t) ==
    /\ tool[t] # NoPage /\ tool[t].todo = <<>>
    /\ sink' = Append(sink, [kind |-> "rows", group |-> tool[t].group, version |-> Pinned,
                             items |-> tool[t].items, truncated |-> tool[t].truncated])
    /\ tool' = [tool EXCEPT ![t] = NoPage]
    /\ UNCHANGED <<world, calls, registry, gate, reply, pieces, segments, checker>>

\* scheduling_compute: its pages are all of the pinned version, or it fails.
Compute(c) ==
    /\ gate = "tools" /\ calls < MaxCalls /\ world.version = Pinned
    /\ calls' = calls + 1
    /\ registry' = HandleFor(c.id)
    /\ sink' = Append(sink, c)
    /\ UNCHANGED <<world, tool, gate, reply, pieces, segments, checker>>

\* trusted_records_by_handle and trusted_results_by_citation, over the sink.
TrustedRecords(ev) ==
    UNION {{[group |-> sink[n].group, version |-> sink[n].version, record |-> x.record, value |-> x.value] :
              x \in {x \in ToSet(sink[n].items) : x.ev = ev}} : n \in {n \in DOMAIN sink : sink[n].kind = "rows"}}

TrustedResults(h) ==
    {sink[n] : n \in {m \in DOMAIN sink : /\ sink[m].kind = "calc"
                                          /\ h \in DOMAIN registry.results
                                          /\ registry.results[h] = sink[m].id}}

----------------------------------------------------------------------------
(* claim_tags.py and placeholders.py.                                       *)

IsText(k) == k.t \in {"text", "hole"}

\* _repair_broken_openers: the syntax goes, the value it was writing stays.
Repaired(tokens) ==
    FlattenSeq([i \in DOMAIN tokens |->
        IF tokens[i].t # "broken" THEN <<tokens[i]>>
        ELSE IF tokens[i].value = Missing THEN <<>> ELSE <<[t |-> "text", s |-> tokens[i].value.s]>>])

WellFormed(tag) == tag.ev # Missing /\ tag.field # Missing /\ tag.value # Missing

Prose(body) == IF body = <<>> THEN <<>> ELSE <<[k |-> "prose", body |-> body]>>

Fact(tag, body) == [k |-> "fact", body |-> body, ev |-> tag.ev, field |-> tag.field, value |-> tag.value]

NoTag == [depth |-> 0, nested |-> FALSE, tag |-> Missing, inner |-> <<>>, parts |-> <<>>]

\* One token of the loop of parse_claim_tags.
TagStep(acc, k) ==
    IF k.t = "open" /\ acc.depth = 0
      THEN [acc EXCEPT !.tag = k, !.inner = <<>>, !.nested = FALSE, !.depth = 1]
    ELSE IF k.t = "open" THEN [acc EXCEPT !.nested = TRUE, !.depth = acc.depth + 1]
    ELSE IF k.t = "close" /\ acc.depth = 0 THEN acc
    ELSE IF k.t = "close"
      THEN [acc EXCEPT !.depth = acc.depth - 1,
                       !.parts = IF acc.depth > 1 THEN acc.parts
                                 ELSE IF ~acc.nested /\ WellFormed(acc.tag)
                                      THEN Append(acc.parts, Fact(acc.tag, acc.inner))
                                      ELSE acc.parts \o Prose(acc.inner)]
    ELSE IF acc.depth > 0 THEN [acc EXCEPT !.inner = Append(acc.inner, k)]
    ELSE [acc EXCEPT !.parts = acc.parts \o Prose(<<k>>)]

ParseClaimTags(tokens) ==
    LET repaired == Repaired(tokens)
        after[n \in 0..Len(repaired)] == IF n = 0 THEN NoTag ELSE TagStep(after[n - 1], repaired[n])
        end == after[Len(repaired)]
    IN  IF end.depth > 0 THEN end.parts \o Prose(end.inner) ELSE end.parts

\* parse_answer_text: the placeholders of prose are claims, those in a fact's
\* wording are not looked for.
ParseAnswerText(part) ==
    IF part.k = "fact" THEN <<part>>
    ELSE [i \in DOMAIN part.body |->
            IF part.body[i].t = "hole" THEN [k |-> "hole", h |-> part.body[i].h, body |-> <<part.body[i]>>]
            ELSE [k |-> "prose", body |-> <<part.body[i]>>]]

ParseAnswer(tokens) ==
    LET parts == ParseClaimTags(tokens)
    IN  FlattenSeq([i \in DOMAIN parts |-> ParseAnswerText(parts[i])])

TagQuestions == {[kind |-> "tags", tokens |-> t] : t \in Texts}
AnswerTags == Answers("tags", ParseAnswer(asked.tokens))

\* The model answers once no tool is running.
ModelReplies(tokens, mode) ==
    /\ gate = "tools" /\ \A t \in Threads : tool[t] = NoPage
    /\ gate' = "grounding" /\ reply' = tokens
    /\ pieces' = ParseAnswer(tokens)
    /\ checker' = [checker EXCEPT !.mode = mode]
    /\ UNCHANGED <<world, tool, calls, registry, sink, segments>>

----------------------------------------------------------------------------
(* The gate.                                                                *)

\* _matches: numbers by value, text exactly, a list by any of its elements.
ScalarEquals(recorded, claimed) ==
    \/ recorded.kind = "none" /\ claimed.s \in {"", "none", "null"}
    \/ recorded.kind = "num" /\ claimed.n = recorded.n
    \/ recorded.kind = "text" /\ claimed.s = recorded.s

ValueMatches(recorded, claimed) ==
    \/ recorded.kind # "list" /\ ScalarEquals(recorded, claimed)
    \/ recorded.kind = "list" /\ \E x \in recorded.items : ScalarEquals(x, claimed)

\* Mutant: the record is looked up in whatever version is the latest.
LocatorFailureRetargets(ref) ==
    IF ref.record \notin DOMAIN RowsOf(ref.group) THEN "calculation_failed" ELSE Missing

\* _locator_failure: the exact record, in the pinned version, or why not.
LocatorFailure(ref) ==
    IF ref.version # Pinned \/ world.version # ref.version THEN "version_mismatch"
    ELSE IF ref.record \notin DOMAIN RowsOf(ref.group) THEN "calculation_failed"
    ELSE Missing

Ref(g, r) == [group |-> g, record |-> r, version |-> world.version]

NoScore == [score |-> Missing, flagged |-> FALSE]

FactSegment(p, failure, refs) ==
    [k |-> "fact", body |-> p.body, value |-> p.value, failure |-> failure, refs |-> refs, mark |-> NoScore]

\* _ground_fact.
GroundFact(p) ==
    LET found == TrustedRecords(p.ev)
        row == CHOOSE x \in found : TRUE
        ref == Ref(row.group, row.record)
        broken == LocatorFailure(ref)
    IN  IF found = {} THEN FactSegment(p, "missing_evidence", <<>>)
        ELSE IF row.version # Pinned THEN FactSegment(p, "version_mismatch", <<>>)
        ELSE IF p.field # "field" THEN FactSegment(p, "unknown_field", <<>>)
        ELSE IF ~ValueMatches(row.value, p.value) THEN FactSegment(p, "value_mismatch", <<>>)
        ELSE IF broken = "version_mismatch" THEN FactSegment(p, broken, <<>>)
        ELSE IF broken # Missing THEN FactSegment(p, "missing_evidence", <<>>)
        ELSE FactSegment(p, Missing, <<ref>>)

ClaimSegment(h, failure, value, refs) ==
    [k |-> "claim", h |-> h, failure |-> failure, value |-> value, refs |-> refs]

\* _ground_claim: a zero needs no locator, anything else needs one per row.
GroundClaim(p) ==
    LET found == TrustedResults(p.h)
        c == CHOOSE x \in found : TRUE
        refs == [i \in DOMAIN c.refs |-> [group |-> c.refs[i][1], record |-> c.refs[i][2], version |-> c.version]]
        bad == {LocatorFailure(refs[i]) : i \in DOMAIN refs} \ {Missing}
    IN  IF found = {} THEN ClaimSegment(p.h, "missing_evidence", Missing, <<>>)
        ELSE IF c.version # Pinned THEN ClaimSegment(p.h, "version_mismatch", Missing, <<>>)
        ELSE IF Len(c.refs) # c.rows THEN ClaimSegment(p.h, "calculation_failed", Missing, <<>>)
        ELSE IF c.refs = <<>> /\ c.value # 0 THEN ClaimSegment(p.h, "calculation_failed", Missing, <<>>)
        ELSE IF bad # {} THEN ClaimSegment(p.h, CHOOSE f \in bad : TRUE, Missing, <<>>)
        ELSE ClaimSegment(p.h, Missing, c.value, refs)

\* ground_answer, one piece: its reads see the site as it is then.
GroundPiece ==
    LET p == pieces[Len(segments) + 1]
    IN  /\ gate = "grounding" /\ Len(segments) < Len(pieces)
        /\ segments' = Append(segments, CASE p.k = "fact" -> GroundFact(p)
                                          [] p.k = "hole" -> GroundClaim(p)
                                          [] OTHER -> p)
        /\ UNCHANGED <<world, tool, calls, registry, sink, gate, reply, pieces, checker>>

----------------------------------------------------------------------------
(* Tier 1: shadow_check_facts and the Jev checker.                          *)

\* restates_value_only: the wording is the checked value and nothing else.
Bare(seg) == Len(seg.body) = 1 /\ seg.body[1].t = "text" /\ seg.body[1].s = seg.value.s

\* The segments worth a question: supported facts that say more than a value.
CheckItems ==
    Rows(segments, LAMBDA i : segments[i].k = "fact" /\ segments[i].failure = Missing /\ ~Bare(segments[i]), LAMBDA i : i)

\* An item's own tokens and the overhead of its question.
ItemCost(i) == Len(segments[i].body) + 1
RequestCost(b) ==
    LET sum[n \in 0..Len(b)] == IF n = 0 THEN 0 ELSE sum[n - 1] + ItemCost(b[n])
    IN  sum[Len(b)]

\* _batches: greedy, in order; an item over the budget alone is skipped.
NoBatch == [batches |-> <<>>, current |-> <<>>, used |-> 0, skipped |-> 0]

BatchStep(acc, i) ==
    IF ItemCost(i) > TokenBudget THEN [acc EXCEPT !.skipped = acc.skipped + 1]
    ELSE IF acc.current # <<>> /\ acc.used + ItemCost(i) > TokenBudget
      THEN [acc EXCEPT !.batches = Append(acc.batches, acc.current), !.current = <<i>>, !.used = ItemCost(i)]
    ELSE [acc EXCEPT !.current = Append(acc.current, i), !.used = acc.used + ItemCost(i)]

Batches(items) ==
    LET after[n \in 0..Len(items)] == IF n = 0 THEN NoBatch ELSE BatchStep(after[n - 1], items[n])
        end == after[Len(items)]
    IN  [sent |-> IF end.current = <<>> THEN end.batches ELSE Append(end.batches, end.current), skipped |-> end.skipped]

\* Grounding ends: the response is sent as it is, or the checker is asked.
GroundingEnds ==
    LET items == CheckItems
        batches == Batches(items).sent
        skipped == Batches(items).skipped
    IN  /\ gate = "grounding" /\ Len(segments) = Len(pieces)
        /\ gate' = IF checker.mode = "off" \/ items = <<>> THEN "done" ELSE "checking"
        /\ checker' = IF gate' = "done" THEN checker
                      ELSE [checker EXCEPT !.batches = batches, !.skipped = skipped,
                                           !.error = IF skipped > 0 /\ batches = <<>> THEN "all_skipped" ELSE Missing]
        /\ UNCHANGED <<world, tool, calls, registry, sink, reply, pieces, segments>>

FirstError(code) == IF checker.error = Missing THEN code ELSE checker.error

\* One request: every item of the batch is scored.
BatchScored(score) ==
    /\ gate = "checking" /\ checker.batches # <<>>
    /\ checker' = [checker EXCEPT !.batches = Tail(@),
                                  !.scores = @ \cup {<<i, score>> : i \in ToSet(Head(checker.batches))}]
    /\ UNCHANGED <<world, tool, calls, registry, sink, gate, reply, pieces, segments>>

\* A timeout, an HTTP error or a malformed answer loses the whole batch.
BatchFails(code) ==
    /\ gate = "checking" /\ checker.batches # <<>>
    /\ checker' = [checker EXCEPT !.batches = Tail(@), !.error = FirstError(code)]
    /\ UNCHANGED <<world, tool, calls, registry, sink, gate, reply, pieces, segments>>

\* The turn's deadline is spent: what is left is not sent.
CheckDeadline ==
    /\ gate = "checking" /\ checker.batches # <<>>
    /\ checker' = [checker EXCEPT !.batches = <<>>, !.error = FirstError("timeout"),
                                  !.skipped = @ + Len(FlattenSeq(checker.batches))]
    /\ UNCHANGED <<world, tool, calls, registry, sink, gate, reply, pieces, segments>>

Scored(i) == \E x \in checker.scores : x[1] = i
ScoreOf(i) == (CHOOSE x \in checker.scores : x[1] = i)[2]
Flagged(i) == checker.mode = "flag" /\ Scored(i) /\ ScoreOf(i) < Threshold

\* The scores are attached; nothing else of the response changes.
CheckEnds ==
    /\ gate = "checking" /\ checker.batches = <<>>
    /\ gate' = "done"
    /\ segments' = [i \in DOMAIN segments |->
                      IF segments[i].k # "fact" THEN segments[i]
                      ELSE [segments[i] EXCEPT !.mark = [score |-> IF Scored(i) THEN ScoreOf(i) ELSE Missing,
                                                         flagged |-> Flagged(i)]]]
    /\ UNCHANGED <<world, tool, calls, registry, sink, reply, pieces, checker>>

----------------------------------------------------------------------------
GroundInit ==
    /\ world = [version |-> 1, baseline |-> 1]
    /\ tool = [t \in Threads |-> NoPage] /\ calls = 0
    /\ registry = [results |-> <<>>, records |-> [g \in Groups |-> <<>>]]
    /\ sink = <<>> /\ gate = "tools" /\ reply = <<>> /\ pieces = <<>> /\ segments = <<>>
    /\ checker = [mode |-> "off", batches |-> <<>>, scores |-> {}, skipped |-> 0, error |-> Missing]

Ground ==
    \/ ImportVersion \/ BaselineMoves
    \/ \E t \in Threads :
         \/ \E g \in Groups, c \in 0..1, l \in 0..(RowLimit + 1) : InspectRead(t, g, c, l)
         \/ MintRow(t) \/ InspectReturn(t)
    \/ \E c \in Calculations : Compute(c)
    \/ \E r \in Replies, m \in {"off", "shadow", "flag"} : ModelReplies(r, m)
    \/ GroundPiece \/ GroundingEnds
    \/ \E s \in {0, 100} : BatchScored(s)
    \/ BatchFails("bad_response") \/ CheckDeadline \/ CheckEnds

\* A turn's evidence, beside a text that is put to the parser.
GroundSpec ==
    /\ GroundInit /\ asked \in {[kind |-> "none"]} \cup TagQuestions /\ Unanswered
    /\ [][\/ Ground /\ UNCHANGED questionVars
          \/ AnswerTags /\ UNCHANGED groundVars]_<<groundVars, questionVars>>

----------------------------------------------------------------------------
(* A handle names one record: two trusted rows with one handle are one row, *)
(* whatever the threads' minting order (evidence_registry.py:57).           *)
HandlesNameOneRecord ==
    \A m, n \in DOMAIN sink :
        (sink[m].kind = "rows" /\ sink[n].kind = "rows") =>
            \A x \in ToSet(sink[m].items), y \in ToSet(sink[n].items) :
                x.ev = y.ev => /\ sink[m].group = sink[n].group
                               /\ x.record = y.record /\ x.value = y.value

(* A supported fact was read in this turn and still says it of the record   *)
(* its evidence names, in the pinned version (gate.py:224); a page that is  *)
(* not marked truncated showed the whole group (scheduling_inspect.py:283). *)
SupportedFactsAreRead ==
    /\ \A i \in DOMAIN segments :
        (segments[i].k = "fact" /\ segments[i].failure = Missing) =>
            /\ Len(segments[i].refs) = 1
            /\ LET ref == segments[i].refs[1]
               IN  /\ ref.version = Pinned
                   /\ \E n \in DOMAIN sink :
                        /\ sink[n].kind = "rows" /\ sink[n].group = ref.group
                        /\ \E x \in ToSet(sink[n].items) :
                             x.record = ref.record /\ ValueMatches(x.value, segments[i].value)
                   /\ \E b \in DOMAIN AssignmentRows :
                        LET rows == IF ref.group = "workers" THEN WorkerRows[Pinned] ELSE AssignmentRows[b]
                        IN  ref.record \in DOMAIN rows /\ ValueMatches(rows[ref.record], segments[i].value)
    /\ \A n \in DOMAIN sink :
        (sink[n].kind = "rows" /\ ~sink[n].truncated /\ sink[n].group = "workers") =>
            {x.record : x \in ToSet(sink[n].items)} = DOMAIN WorkerRows[Pinned]

(* A number shown is a trusted result's, and has a resolved locator for     *)
(* every row folded into it; only zero has none (gate.py:142).              *)
SupportedNumbersAreProven ==
    \A i \in DOMAIN segments :
        (segments[i].k = "claim" /\ segments[i].failure = Missing) =>
            \E n \in DOMAIN sink :
                /\ sink[n].kind = "calc" /\ sink[n].value = segments[i].value
                /\ Len(segments[i].refs) = sink[n].rows
                /\ (sink[n].rows = 0 => segments[i].value = 0)
                /\ \A x \in ToSet(segments[i].refs) : x.version = Pinned

\* How many tags are open behind the first n tokens.
DepthAfter(tokens, n) ==
    LET depth[m \in 0..n] ==
            IF m = 0 THEN 0
            ELSE IF tokens[m].t = "open" THEN depth[m - 1] + 1
            ELSE IF tokens[m].t = "close" /\ depth[m - 1] > 0 THEN depth[m - 1] - 1
            ELSE depth[m - 1]
    IN  depth[n]

\* A complete tag at the top level, from its opener to the closer it meets.
IsFactSpan(tokens, i, j) ==
    /\ i < j /\ tokens[i].t = "open" /\ tokens[j].t = "close" /\ WellFormed(tokens[i])
    /\ \A k \in (i + 1)..(j - 1) : IsText(tokens[k])
    /\ DepthAfter(tokens, i - 1) = 0

(* The parser loses and repeats no wording, whatever the tags look like,    *)
(* and takes for a fact exactly the closed, complete, un-nested top-level   *)
(* tags (claim_tags.py:70).                                                 *)
WordingSurvives ==
    Answered("tags") =>
        LET tokens == Repaired(asked.tokens)
            spans == {s \in (1..Len(tokens)) \X (1..Len(tokens)) : IsFactSpan(tokens, s[1], s[2])}
        IN  /\ FlattenSeq([i \in DOMAIN answer |-> answer[i].body])
               = Rows(tokens, LAMBDA i : IsText(tokens[i]), LAMBDA i : tokens[i])
            /\ Cardinality({i \in DOMAIN answer : answer[i].k = "fact"}) = Cardinality(spans)

(* The checker fails open and whole: a fact is scored only if it was        *)
(* supported, every item of a scored batch is, a request never exceeds its  *)
(* budget, and only a scored fact can be flagged (execute_turn.py:188).     *)
CheckerFailsOpen ==
    /\ \A b \in ToSet(checker.batches) : RequestCost(b) <= TokenBudget
    /\ gate = "done" =>
        \A i \in DOMAIN segments :
            segments[i].k = "fact" =>
                /\ segments[i].mark.score # Missing => segments[i].failure = Missing
                /\ segments[i].mark.flagged => segments[i].mark.score # Missing
                /\ checker.mode = "off" => segments[i].mark = NoScore
    /\ (gate = "done" /\ checker.error = Missing /\ checker.mode # "off" /\ checker.skipped = 0) =>
        \A i \in ToSet(CheckItems) : Scored(i)

(* What the planner sees is what the turn's trusted reads support.          *)
AnswersAreGrounded ==
    /\ HandlesNameOneRecord /\ SupportedFactsAreRead /\ SupportedNumbersAreProven
    /\ WordingSurvives /\ CheckerFailsOpen
=============================================================================
