------------------------ MODULE DraftConversationProofs ------------------------
(***************************************************************************)
(* Proofs about DraftConversation, for every set of turns and commands.    *)
(*                                                                         *)
(* DraftInvariant is inductive.  Its core is what a stale sighting of the  *)
(* draft is worth: a version number seen earlier that still matches an     *)
(* active draft vouches that nothing was written since (Sound), so a turn  *)
(* that passes the guard of finalize_agent_run and a command that passes   *)
(* the version check write on top of what they had been shown.             *)
(***************************************************************************)
EXTENDS DraftConversation, FiniteSetTheorems, SequenceTheorems, TLAPS

\* Drafts are created in order, a draft has versions iff it exists, and its
\* resource version counts its writes.
Shaped ==
    /\ \E n \in 0..MaxDrafts : \A p \in Drafts : draft[p].state = "absent" <=> p > n
    /\ \A p \in Drafts : draft[p].state = "absent" <=> history[p] = << >>
    /\ VersionCountsWrites
    /\ OneWorkingDraft

\* What a sighting s of the draft, however old, still tells when the rows are d
\* and their versions h.
Vouched(s, d, h) ==
    /\ s.id = NoDraft => s = NotSeen
    /\ s # NotSeen =>
          /\ s.id \in Drafts /\ d[s.id].state # "absent" /\ s.rv <= d[s.id].rv
          /\ (d[s.id].state = "active" /\ d[s.id].rv = s.rv) =>
                 s.ordinal = Len(h[s.id])

\* The draft seen is still the working draft, and nothing was written since.
Current(s, d) == s # NotSeen /\ d[s.id].state = "active" /\ d[s.id].rv = s.rv

Sound(s) == Vouched(s, draft, history)

\* Everything a turn or a command remembers of the draft is sound.
SoundSightings ==
    /\ \A t \in Turns : Sound(discard[t]) /\ \A o \in obs[t] : Sound(o)
    /\ \A q \in Edits : Sound(view[q])

\* A turn's bookkeeping: where it stands, and what its tools recorded.
Ordered(t) ==
    /\ phase[t] = "none" <=> runStatus[t] \in {"absent", "agent_queued"}
    /\ phase[t] = "over" <=> runStatus[t] \in EndStatus
    /\ phase[t] = "concluded" => output[t].status \in EndStatus
    /\ \A o, u \in obs[t] : o = u
    /\ phase[t] \in {"none", "claimed"} => obs[t] = {}
    /\ phase[t] \in {"observed", "thinking"} => obs[t] # {}
    /\ phase[t] \in {"none", "claimed", "observed"} => writes[t] = {} /\ discard[t] = NotSeen
    /\ discard[t] # NotSeen => discard[t] \in obs[t]
    /\ \A w \in writes[t] :
          \/ w.outcome = "created"
          \/ /\ w.outcome = "updated" /\ w.base = shown[t].ordinal
             /\ \E o \in obs[t] : o # NotSeen /\ w.id = o.id /\ w.rv = o.rv

TurnOrder == \A t \in Turns : Ordered(t)

\* The model was shown the draft the turn observed, if that is still the draft.
Shows(t) ==
    phase[t] \in {"thinking", "concluded"} =>
        \A o \in obs[t] : Current(o, draft) => shown[t].ordinal = Ordinal(o.id)

ShownIsObserved == \A t \in Turns : Shows(t)

\* A turn writes at most one version, when it ends; drafts begin with a turn's.
Authors ==
    /\ \A p \in Drafts : \A i \in 1..Ordinal(p) :
          history[p][i].by \in Turns => phase[history[p][i].by] = "over"
    /\ \A p \in Drafts : history[p] # << >> => history[p][1].by \in Turns
    /\ \A p, k \in Drafts :
          (history[p] # << >> /\ history[k] # << >> /\ history[p][1].by = history[k][1].by)
              => p = k

\* The stored result of a command that is in the draft.
Stored ==
    \A q \in Edits : \A p \in Drafts : \A i \in 1..Ordinal(p) :
        history[p][i].by = q =>
            /\ view[q] # NotSeen
            /\ idem[Slot(q)] = [body |-> Body(q), rv |-> i]
            /\ reply[q] = [kind |-> "ok", rv |-> i]

DraftInvariant ==
    /\ TypeOK /\ Shaped /\ SoundSightings /\ TurnOrder /\ ShownIsObserved
    /\ Authors /\ Stored /\ NoLostEdit /\ TimelineNamesVersions

-----------------------------------------------------------------------------
(* What one step does to the drafts.                                         *)

\* a writes one more version of p, on top of the last one.
Adds(p, a) ==
    history' = [history EXCEPT ![p] = Append(history[p], [by |-> a, base |-> Ordinal(p)])]

\* p leaves "active".
Ending(p) ==
    /\ p \in Drafts /\ draft[p].state = "active"
    /\ \E s \in {"rejected", "applied"} : \A k \in Drafts :
          draft'[k].state = IF k = p THEN s ELSE draft[k].state
    /\ \A k \in Drafts : draft'[k].rv = IF k = p THEN draft[k].rv + 1 ELSE draft[k].rv
    /\ UNCHANGED history

\* The working draft p gets a version.
Growing(p, a) ==
    /\ p \in Drafts /\ draft[p].state = "active"
    /\ \A k \in Drafts : draft'[k].state = draft[k].state
    /\ \A k \in Drafts : draft'[k].rv = IF k = p THEN draft[k].rv + 1 ELSE draft[k].rv
    /\ Adds(p, a)

\* The draft p begins; old, the working draft if there was one, ends.
Starting(p, a, old) ==
    /\ p \in Drafts /\ draft[p].state = "absent"
    /\ \A k \in 1..(p - 1) : draft[k].state # "absent"
    /\ old # NoDraft => old \in Drafts /\ draft[old].state = "active"
    /\ \A k \in Drafts : draft[k].state = "active" => k = old
    /\ \A k \in Drafts : draft'[k].state =
          IF k = p THEN "active" ELSE IF k = old THEN "rejected" ELSE draft[k].state
    /\ \A k \in Drafts : draft'[k].rv =
          IF k = p THEN 1 ELSE IF k = old THEN draft[k].rv + 1 ELSE draft[k].rv
    /\ Adds(p, a)

\* The timeline is kept, or gets an activity that names no draft.
Silent ==
    \/ UNCHANGED timeline
    \/ \E e \in Activity : e.kind # "draft" /\ timeline' = Append(timeline, e)

\* The turn t ends and announces the version of p that it writes.
Announces(t, p) ==
    /\ phase[t] = "concluded" /\ phase' = [phase EXCEPT ![t] = "over"]
    /\ timeline' = Append(timeline, [kind |-> "draft", turn |-> t, id |-> p,
                                     ordinal |-> Ordinal(p) + 1])
    /\ UNCHANGED editVars

\* What is kept of the turn u does not change.
Kept(u) ==
    /\ runStatus'[u] = runStatus[u] /\ phase'[u] = phase[u] /\ output'[u] = output[u]
    /\ obs'[u] = obs[u] /\ shown'[u] = shown[u]
    /\ writes'[u] = writes[u] /\ discard'[u] = discard[u]

\* get_working: nothing, or the active draft.
LEMMA WorkingFacts ==
    /\ Working # NoDraft => Working \in Drafts /\ draft[Working].state = "active"
    /\ Working = NoDraft => \A p \in Drafts : draft[p].state # "active"
  <1>1. CASE \E p \in Drafts : draft[p].state = "active"
    <2>1. Working \in Drafts /\ draft[Working].state = "active"
      BY <1>1 DEF Working
    <2> QED
      BY <2>1, DraftAssumption DEF Drafts, NoDraft
  <1>2. CASE ~\E p \in Drafts : draft[p].state = "active"
    BY <1>2 DEF Working
  <1> QED
    BY <1>1, <1>2

\* A turn that has not ended finds an unused draft: each draft begins with a turn
\* of its own, and there are no more turns than drafts.
LEMMA FreshFacts ==
    ASSUME TypeOK, Shaped, Authors, NEW t \in Turns, phase[t] # "over"
    PROVE  /\ Fresh \in Drafts /\ draft[Fresh].state = "absent"
           /\ \A k \in 1..(Fresh - 1) : draft[k].state # "absent"
  <1>1. PICK n \in 0..MaxDrafts : \A p \in Drafts : draft[p].state = "absent" <=> p > n
    BY DEF Shaped
  <1>2. ASSUME n = MaxDrafts
        PROVE  FALSE
    <2> DEFINE f == [p \in Drafts |-> history[p][1].by]
    <2>1. ASSUME NEW p \in Drafts
          PROVE  history[p] # << >> /\ history[p][1].by \in Turns \ {t}
      <3>1. ~(p > n)
        BY <1>2, DraftAssumption DEF Drafts
      <3>2. history[p] # << >> /\ history[p] \in Seq(Version)
        BY <1>1, <3>1 DEF Shaped, TypeOK, DraftType
      <3>3. 1 \in 1..Ordinal(p)
        BY <3>2 DEF Ordinal
      <3> QED
        BY <3>2, <3>3 DEF Authors
    <2>2. f \in [Drafts -> Turns \ {t}]
      BY <2>1
    <2>3. IsFiniteSet(Turns \ {t}) /\ Cardinality(Turns \ {t}) = Cardinality(Turns) - 1
      BY DraftAssumption, FS_RemoveElement
    <2>4. IsFiniteSet(Drafts) /\ Cardinality(Drafts) = MaxDrafts
      <3>1. IsFiniteSet(1..MaxDrafts)
            /\ Cardinality(1..MaxDrafts) = IF 1 > MaxDrafts THEN 0 ELSE MaxDrafts - 1 + 1
        BY DraftAssumption, FS_Interval
      <3> QED
        BY <3>1, DraftAssumption DEF Drafts
    <2>5. Cardinality(Turns \ {t}) < Cardinality(Drafts)
      BY <2>3, <2>4, DraftAssumption, FS_CardinalityType
    <2>6. \E x, y \in Drafts : x # y /\ f[x] = f[y]
      <3> HIDE DEF f
      <3> QED
        BY <2>2, <2>3, <2>4, <2>5, FS_PigeonHole
    <2> QED
      BY <2>1, <2>6 DEF Authors
  <1>3. n + 1 \in Drafts /\ ~(n + 1 > n => FALSE)
    BY <1>1, <1>2, DraftAssumption DEF Drafts
  <1>4. /\ draft[n + 1].state = "absent"
        /\ \A k \in 1..((n + 1) - 1) : draft[k].state # "absent"
    BY <1>1, <1>3, DraftAssumption DEF Drafts
  <1> QED
    BY <1>3, <1>4 DEF Fresh

\* The rows after a draft is ended, field by field.
LEMMA EndedRows ==
    ASSUME TypeOK, NEW p \in Drafts, NEW who \in EndedBy, NEW rv \in Nat
    PROVE  /\ Ended(p, who, rv) \in [Drafts -> Row]
           /\ \A k \in Drafts : k # p => Ended(p, who, rv)[k] = draft[k]
           /\ Ended(p, who, rv)[p].state = "rejected" /\ Ended(p, who, rv)[p].rv = rv
  <1>1. draft \in [Drafts -> Row] /\ draft[p] \in Row
    BY DEF TypeOK, DraftType
  <1>2. Ended(p, who, rv) = [draft EXCEPT ![p] =
           [[[draft[p] EXCEPT !.state = "rejected"] EXCEPT !.endedBy = who] EXCEPT !.rv = rv]]
    BY <1>1 DEF Ended
  <1>3. [[[draft[p] EXCEPT !.state = "rejected"] EXCEPT !.endedBy = who] EXCEPT !.rv = rv]
           \in Row
    BY <1>1 DEF Row, State
  <1> QED
    BY <1>1, <1>2, <1>3 DEF Row

\* A turn's tools and its guard leave a discard that is the working draft, or none.
LEMMA RidingFacts ==
    ASSUME TypeOK, SoundSightings, NEW t \in Turns, Riding(t) # NotSeen, Applies(t)
    PROVE  /\ Riding(t).id \in Drafts /\ draft[Riding(t).id].state = "active"
           /\ draft[Riding(t).id].rv = Riding(t).rv /\ Riding(t).rv \in Nat
  <1>1. Riding(t) = discard[t] /\ discard[t] \in Sighting
    BY DEF Riding, TypeOK
  <1> QED
    BY <1>1, WorkingFacts DEF Applies, Matches, Sighting

\* A turn ends with the discard of the working draft and no draft of its own.
LEMMA PlainMove ==
    ASSUME DraftInvariant, NEW t \in Turns, FinishPlain(t)
    PROVE  /\ UNCHANGED draftVars \/ \E p \in Drafts : Ending(p)
           /\ Silent /\ DraftType'
  <1>1. Silent
    <2> DEFINE e == [kind |-> IF output[t].payload = "answer" THEN "answer" ELSE "terminal",
                     turn |-> t, id |-> NoDraft, ordinal |-> 0]
    <2>1. e \in Activity /\ e.kind # "draft"
      BY DEF Activity
    <2>2. timeline' = Append(timeline, e)
      BY DEF FinishPlain, Finish, Append1
    <2> QED
      BY <2>1, <2>2 DEF Silent
  <1>2. CASE Riding(t) # NotSeen
    <2> DEFINE p == Riding(t).id
    <2>1. /\ p \in Drafts /\ draft[p].state = "active" /\ draft[p].rv = Riding(t).rv
          /\ Riding(t).rv \in Nat
      BY <1>2, RidingFacts DEF DraftInvariant, FinishPlain
    <2>2. draft' = Ended(p, "assistant", Riding(t).rv + 1) /\ UNCHANGED history
      BY <1>2 DEF FinishPlain
    <2> HIDE DEF p
    <2>3. /\ draft' \in [Drafts -> Row]
          /\ \A k \in Drafts : k # p => draft'[k] = draft[k]
          /\ draft'[p].state = "rejected" /\ draft'[p].rv = Riding(t).rv + 1
      BY <2>1, <2>2, EndedRows DEF DraftInvariant, EndedBy
    <2>4. Ending(p)
      BY <2>1, <2>2, <2>3 DEF Ending
    <2> QED
      BY <1>1, <2>1, <2>2, <2>3, <2>4 DEF DraftInvariant, TypeOK, DraftType
  <1>3. CASE Riding(t) = NotSeen
    BY <1>1, <1>3 DEF FinishPlain, draftVars, DraftInvariant, TypeOK, DraftType
  <1> QED
    BY <1>2, <1>3

\* An append keeps a history of versions one.
LEMMA AddTypes ==
    ASSUME TypeOK, NEW p \in Drafts, NEW a \in Author, Adds(p, a)
    PROVE  history' \in [Drafts -> Seq(Version)]
  <1>1. history[p] \in Seq(Version) /\ Ordinal(p) \in Nat
    BY DEF TypeOK, DraftType, Ordinal
  <1>2. [by |-> a, base |-> Ordinal(p)] \in Version
    BY <1>1 DEF Version
  <1>3. Append(history[p], [by |-> a, base |-> Ordinal(p)]) \in Seq(Version)
    BY <1>1, <1>2
  <1> QED
    BY <1>3 DEF Adds, TypeOK, DraftType

\* A version appended to the working draft, on top of what its author was shown.
LEMMA GrowthMove ==
    ASSUME TypeOK, NEW p \in Drafts, NEW a \in Author, NEW base, NEW rv,
           draft[p].state = "active", rv = draft[p].rv + 1, base = Ordinal(p),
           AppendVersion(p, a, base, rv)
    PROVE  Growing(p, a) /\ DraftType'
  <1>1. draft \in [Drafts -> Row] /\ draft[p] \in Row
    BY DEF TypeOK, DraftType
  <1>2. draft' = [draft EXCEPT ![p] = [draft[p] EXCEPT !.rv = rv]]
    BY <1>1 DEF AppendVersion
  <1>3. [draft[p] EXCEPT !.rv = rv] \in Row
    BY <1>1 DEF Row
  <1>4. Adds(p, a)
    BY DEF AppendVersion, Adds
  <1>5. /\ \A k \in Drafts : draft'[k].state = draft[k].state
        /\ \A k \in Drafts : draft'[k].rv = IF k = p THEN draft[k].rv + 1 ELSE draft[k].rv
    BY <1>1, <1>2 DEF Row
  <1> QED
    BY <1>1, <1>2, <1>3, <1>4, <1>5, AddTypes DEF Growing, DraftType

\* A turn ends with a draft: the guard of finalize_agent_run has made sure that
\* the version goes on top of the one the model was shown.
LEMMA DraftMove ==
    ASSUME DraftInvariant, NEW t \in Turns, FinishDraft(t)
    PROVE  \E p \in Drafts :
              /\ Announces(t, p) /\ DraftType'
              /\ \/ Growing(p, t)
                 \/ \E old \in {NoDraft} \cup Drafts : Starting(p, t, old)
  <1> USE DEF DraftInvariant
  <1> DEFINE row == IF Riding(t) # NotSeen
                    THEN Ended(Riding(t).id, "assistant", Riding(t).rv + 1)
                    ELSE draft
  <1>1. /\ phase[t] = "concluded" /\ Applies(t) /\ t \in Author /\ ~Contradictory(t)
        /\ UNCHANGED editVars
    BY DEF FinishDraft, Author
  <1>2. PICK w \in Write(t) :
          IF w.outcome = "created"
          THEN /\ Finish(t, "agent_completed", "draft", Fresh, 1)
               /\ CreateDraft(row, t, Pin)
          ELSE /\ Finish(t, "agent_completed", "draft", w.id, Ordinal(w.id) + 1)
               /\ AppendVersion(w.id, t, w.base, w.rv + 1)
    BY DEF FinishDraft
  <1> HIDE DEF row
  <1>3. w \in writes[t] /\ w \in DraftWrite
    BY DEF Write, TypeOK
  <1>4. CASE w.outcome = "created"
    <2> DEFINE old == IF Riding(t) # NotSeen THEN Riding(t).id ELSE NoDraft
               new == [Absent EXCEPT !.state = "active", !.rv = 1, !.scenario = Pin]
    <2>1. /\ Fresh \in Drafts /\ draft[Fresh].state = "absent"
          /\ \A k \in 1..(Fresh - 1) : draft[k].state # "absent"
      BY <1>1, FreshFacts
    <2>2. PICK p \in Drafts : p = Fresh
      BY <2>1
    <2>3. history[p] = << >> /\ Ordinal(p) = 0 /\ Ordinal(p) + 1 = 1
      BY <2>1, <2>2 DEF Shaped, Ordinal
    <2>4. Finish(t, "agent_completed", "draft", p, 1) /\ CreateDraft(row, t, Pin)
      BY <1>2, <1>4, <2>2
    <2>5. Announces(t, p)
      BY <1>1, <2>3, <2>4 DEF Finish, Append1, Announces
    <2>6. Append(history[p], [by |-> t, base |-> Ordinal(p)]) = <<[by |-> t, base |-> 0]>>
      BY <2>3
    <2>7. Adds(p, t)
      BY <2>2, <2>4, <2>6 DEF CreateDraft, Adds
    <2>8. draft' = [row EXCEPT ![p] = new] /\ new \in Row /\ new.state = "active" /\ new.rv = 1
      BY <2>2, <2>4 DEF CreateDraft, Absent, Row, State, EndedBy, Pin
    <2> HIDE DEF new
    <2>9. CASE Riding(t) # NotSeen
      <3>1. /\ old \in Drafts /\ draft[old].state = "active"
            /\ draft[old].rv = Riding(t).rv /\ Riding(t).rv \in Nat
        BY <1>1, <2>9, RidingFacts
      <3>2. row = Ended(old, "assistant", Riding(t).rv + 1)
        BY <2>9 DEF row
      <3>3. \A k \in Drafts : draft[k].state = "active" => k = old
        BY <3>1 DEF Shaped, OneWorkingDraft
      <3> HIDE DEF old
      <3>4. /\ row \in [Drafts -> Row]
            /\ \A k \in Drafts : k # old => row[k] = draft[k]
            /\ row[old].state = "rejected" /\ row[old].rv = Riding(t).rv + 1
        <4>1. "assistant" \in EndedBy
          BY DEF EndedBy
        <4>2. PICK v \in Nat : v = Riding(t).rv + 1
          BY <3>1
        <4>3. /\ Ended(old, "assistant", v) \in [Drafts -> Row]
              /\ \A k \in Drafts : k # old => Ended(old, "assistant", v)[k] = draft[k]
              /\ Ended(old, "assistant", v)[old].state = "rejected"
              /\ Ended(old, "assistant", v)[old].rv = v
          BY <3>1, <4>1, EndedRows
        <4>4. row = Ended(old, "assistant", v)
          BY <3>2, <4>2
        <4> HIDE DEF row
        <4> QED
          BY <4>2, <4>3, <4>4
      <3>5. draft' \in [Drafts -> Row]
        BY <2>8, <3>4
      <3>6. /\ \A k \in Drafts : draft'[k].state =
                 IF k = p THEN "active" ELSE IF k = old THEN "rejected" ELSE draft[k].state
            /\ \A k \in Drafts : draft'[k].rv =
                 IF k = p THEN 1 ELSE IF k = old THEN draft[k].rv + 1 ELSE draft[k].rv
        BY <2>8, <3>1, <3>4
      <3>7. Starting(p, t, old)
        BY <2>1, <2>2, <2>7, <3>1, <3>3, <3>6 DEF Starting
      <3> QED
        BY <1>1, <2>5, <2>7, <3>1, <3>5, <3>7, AddTypes DEF DraftType
    <2>10. CASE Riding(t) = NotSeen
      <3>1. Working = NoDraft
        BY <1>1, <1>2, <1>4, <2>10 DEF Applies
      <3>2. row = draft /\ draft \in [Drafts -> Row]
        BY <2>10 DEF row, TypeOK, DraftType
      <3>3. \A k \in Drafts : draft[k].state # "active" /\ k # NoDraft
        BY <3>1, WorkingFacts, DraftAssumption DEF Drafts, NoDraft
      <3>4. draft' \in [Drafts -> Row]
        BY <2>8, <3>2
      <3>5. /\ \A k \in Drafts : draft'[k].state = IF k = p THEN "active" ELSE draft[k].state
            /\ \A k \in Drafts : draft'[k].rv = IF k = p THEN 1 ELSE draft[k].rv
        BY <2>8, <3>2
      <3>6. Starting(p, t, NoDraft)
        BY <2>1, <2>2, <2>7, <3>3, <3>5 DEF Starting
      <3> QED
        BY <1>1, <2>5, <2>7, <3>4, <3>6, AddTypes DEF DraftType
    <2> QED
      BY <2>9, <2>10
  <1>5. CASE w.outcome # "created"
    <2>1. /\ w.outcome = "updated" /\ w.base = shown[t].ordinal
          /\ \E o \in obs[t] : o # NotSeen /\ w.id = o.id /\ w.rv = o.rv
      BY <1>3, <1>5 DEF TurnOrder, Ordered
    <2>2. PICK o \in obs[t] : o # NotSeen /\ w.id = o.id /\ w.rv = o.rv
      BY <2>1
    <2>3. Riding(t) = NotSeen
      BY <1>1, <1>2, <2>1 DEF Contradictory
    <2>4. Working # NoDraft /\ Working = w.id /\ draft[Working].rv = w.rv
      BY <1>1, <1>2, <2>1, <2>3 DEF Applies, Matches
    <2>5. w.id \in Drafts /\ draft[w.id].state = "active" /\ draft[w.id].rv = w.rv
      BY <2>4, WorkingFacts
    <2>6. Current(o, draft)
      BY <2>2, <2>5 DEF Current
    <2>7. w.base = Ordinal(w.id)
      BY <1>1, <2>1, <2>2, <2>6 DEF ShownIsObserved, Shows
    <2>8. AppendVersion(w.id, t, w.base, w.rv + 1)
          /\ Finish(t, "agent_completed", "draft", w.id, Ordinal(w.id) + 1)
      BY <1>2, <1>5
    <2>9. Growing(w.id, t) /\ DraftType'
      BY <1>1, <2>5, <2>7, <2>8, GrowthMove
    <2>10. Announces(t, w.id)
      BY <1>1, <2>8 DEF Finish, Append1, Announces
    <2> QED
      BY <2>5, <2>9, <2>10
  <1> QED
    BY <1>4, <1>5

\* A command that applies meets the draft it was composed from.
LEMMA EditMove ==
    ASSUME DraftInvariant, NEW q \in Edits, EditWrites(q)
    PROVE  /\ DraftType' /\ view[q].id \in Drafts
           /\ draft[view[q].id].state = "active"
           /\ \/ KindOf[q] = "revision" /\ Growing(view[q].id, q)
              \/ KindOf[q] = "rejection" /\ Ending(view[q].id)
  <1> USE DEF DraftInvariant
  <1> DEFINE p == view[q].id
  <1>1. view[q] # NotSeen /\ RefusalOf(q) = "none" /\ Sound(view[q]) /\ view[q] \in Sighting
    BY DEF EditWrites, SoundSightings, TypeOK
  <1>2. p \in Drafts /\ draft[p].state # "absent" /\ draft[p] \in Row
    BY <1>1 DEF Sound, Vouched, TypeOK, DraftType
  <1>3. draft[p].state \notin {"rejected", "applied"} /\ view[q].rv = draft[p].rv
    BY <1>1 DEF RefusalOf
  <1>4. draft[p].state = "active" /\ draft[p].rv \in Nat
    BY <1>2, <1>3 DEF Row, State
  <1>5. view[q].ordinal = Ordinal(p)
    BY <1>1, <1>3, <1>4 DEF Sound, Vouched, Ordinal
  <1>7. CASE KindOf[q] = "revision"
    <2>1. AppendVersion(p, q, view[q].ordinal, draft[p].rv + 1)
      BY <1>7 DEF EditWrites
    <2> HIDE DEF p
    <2>2. Growing(p, q) /\ DraftType'
      BY <1>2, <1>4, <1>5, <2>1, GrowthMove DEF Author
    <2> QED
      BY <1>2, <1>4, <1>7, <2>2 DEF p
  <1>8. CASE KindOf[q] # "revision"
    <2>1. draft' = Ended(p, "planner", draft[p].rv + 1) /\ UNCHANGED history
      BY <1>8 DEF EditWrites
    <2>2. KindOf[q] = "rejection"
      BY <1>8, CommandAssumption
    <2> HIDE DEF p
    <2>3. /\ draft' \in [Drafts -> Row]
          /\ \A k \in Drafts : k # p => draft'[k] = draft[k]
          /\ draft'[p].state = "rejected" /\ draft'[p].rv = draft[p].rv + 1
      BY <1>2, <1>4, <2>1, EndedRows DEF EndedBy
    <2>4. Ending(p)
      BY <1>2, <1>4, <2>1, <2>3 DEF Ending
    <2> QED
      BY <1>2, <1>4, <2>1, <2>2, <2>3, <2>4 DEF p, TypeOK, DraftType
  <1> QED
    BY <1>7, <1>8

\* A promotion ends an active draft and leaves any other as it is.
LEMMA PromoteMove ==
    ASSUME DraftInvariant, NEW p \in Drafts, NEW v \in 1..Ordinal(p), Promote(p, v)
    PROVE  /\ UNCHANGED draftVars \/ Ending(p)
           /\ UNCHANGED timeline /\ DraftType'
  <1> USE DEF DraftInvariant
  <1>1. draft \in [Drafts -> Row] /\ draft[p] \in Row /\ UNCHANGED <<history, timeline>>
    BY DEF Promote, MarkApplied, TypeOK, DraftType, turnVars
  <1>2. CASE draft[p].state = "active"
    <2> DEFINE new == [[[[draft[p] EXCEPT !.state = "applied"] EXCEPT !.endedBy = "system"]
                          EXCEPT !.applied = v] EXCEPT !.rv = draft[p].rv + 1]
    <2>1. draft' = [draft EXCEPT ![p] = new]
      BY <1>1, <1>2 DEF Promote, MarkApplied
    <2>2. v \in Nat /\ draft[p].rv \in Nat
      BY <1>1 DEF Row, TypeOK, DraftType, Ordinal
    <2>3. new \in Row /\ new.state = "applied" /\ new.rv = draft[p].rv + 1
      <3>1. [draft[p] EXCEPT !.state = "applied"] \in Row
        BY <1>1 DEF Row, State
      <3>2. PICK mid \in Row : /\ mid.state = "applied"
               /\ mid = [[draft[p] EXCEPT !.state = "applied"] EXCEPT !.endedBy = "system"]
        BY <1>1, <3>1 DEF Row, EndedBy
      <3>3. new = [[mid EXCEPT !.applied = v] EXCEPT !.rv = draft[p].rv + 1]
        BY <3>2
      <3>4. \A n \in Nat : /\ [[mid EXCEPT !.applied = v] EXCEPT !.rv = n] \in Row
                            /\ [[mid EXCEPT !.applied = v] EXCEPT !.rv = n].state = mid.state
                            /\ [[mid EXCEPT !.applied = v] EXCEPT !.rv = n].rv = n
        BY <2>2 DEF Row
      <3> HIDE DEF new
      <3>5. draft[p].rv + 1 \in Nat
        BY <2>2
      <3> QED
        BY <3>2, <3>3, <3>4, <3>5
    <2> HIDE DEF new
    <2>4. draft' \in [Drafts -> Row]
      BY <1>1, <2>1, <2>3
    <2>5. /\ \A k \in Drafts : draft'[k].state = IF k = p THEN "applied" ELSE draft[k].state
          /\ \A k \in Drafts : draft'[k].rv = IF k = p THEN draft[k].rv + 1 ELSE draft[k].rv
      BY <1>1, <2>1, <2>3
    <2>6. Ending(p)
      BY <1>1, <1>2, <2>5 DEF Ending
    <2> QED
      BY <1>1, <2>4, <2>6 DEF TypeOK, DraftType
  <1>3. CASE draft[p].state # "active"
    BY <1>1, <1>3 DEF Promote, MarkApplied, draftVars, DraftType, TypeOK
  <1> QED
    BY <1>2, <1>3

\* Every step, by what it does to the drafts and the timeline.
LEMMA Moves ==
    ASSUME DraftInvariant, [Next]_vars
    PROVE  /\ DraftType'
           /\ \/ UNCHANGED draftVars /\ Silent
              \/ \E p \in Drafts : Ending(p) /\ Silent
              \/ \E p \in Drafts, t \in Turns : Announces(t, p)
                    /\ (Growing(p, t) \/ \E old \in {NoDraft} \cup Drafts : Starting(p, t, old))
              \/ \E q \in Edits : /\ EditWrites(q) /\ view[q].id \in Drafts
                                  /\ Growing(view[q].id, q) /\ UNCHANGED timeline
  <1> USE DEF DraftInvariant
  <1>1. CASE UNCHANGED <<draftVars, timeline>>
    BY <1>1 DEF TypeOK, DraftType, draftVars, Silent
  <1>2. ASSUME NEW t \in Turns, AcceptTurn(t) \/ FinishRefused(t)
        PROVE  UNCHANGED draftVars /\ Silent /\ DraftType'
    <2>1. PICK e \in {"planner_message", "terminal"} :
             timeline' = Append(timeline, [kind |-> e, turn |-> t, id |-> NoDraft, ordinal |-> 0])
      BY <1>2 DEF AcceptTurn, FinishRefused, Finish, Append1
    <2>2. [kind |-> e, turn |-> t, id |-> NoDraft, ordinal |-> 0] \in Activity
      BY DEF Activity
    <2>3. Silent
      BY <2>1, <2>2 DEF Silent
    <2> QED
      BY <1>2, <2>3 DEF AcceptTurn, FinishRefused, draftVars, TypeOK, DraftType
  <1>3. ASSUME NEW t \in Turns,
               \/ ClaimTurn(t) \/ TakeSpecialRoute(t) \/ Observe(t) \/ ShowSnapshot(t)
               \/ SkipSnapshot(t) \/ DraftTool(t) \/ DraftToolFails(t) \/ DiscardTool(t)
               \/ DraftBesideDiscard(t) \/ Conclude(t) \/ SuspendRaises(t) \/ FinishRaises(t)
               \/ Crash(t)
        PROVE  UNCHANGED <<draftVars, timeline>>
    BY <1>3 DEF ClaimTurn, TakeSpecialRoute, Observe, ShowSnapshot, SkipSnapshot, DraftTool,
       DraftToolFails, DiscardTool, DraftBesideDiscard, Conclude, SuspendRaises, FinishRaises,
       Crash
  <1>4. ASSUME NEW q \in Edits, EditReplay(q) \/ EditRefused(q) \/ \E p \in Drafts : EditRead(q, p)
        PROVE  UNCHANGED <<draftVars, timeline>>
    BY <1>4 DEF EditReplay, EditRefused, EditRead, Reply, turnVars
  <1>5. CASE Reimport \/ UNCHANGED vars
    BY <1>1, <1>5 DEF Reimport, vars, turnVars
  <1>6. ASSUME NEW t \in Turns, FinishPlain(t)
        PROVE  /\ DraftType' /\ Silent
               /\ UNCHANGED draftVars \/ \E p \in Drafts : Ending(p)
    BY <1>6, PlainMove
  <1>7. ASSUME NEW q \in Edits, EditApplied(q) \/ \E t \in Turns : RevisionStrands(q, t)
        PROVE  /\ DraftType' /\ UNCHANGED timeline /\ view[q].id \in Drafts
               /\ EditWrites(q) /\ (Growing(view[q].id, q) \/ Ending(view[q].id))
    <2>1. EditWrites(q) /\ UNCHANGED timeline
      BY <1>7 DEF EditApplied, RevisionStrands, turnVars
    <2> QED
      BY <2>1, EditMove
  <1>8. ASSUME NEW p \in Drafts, NEW v \in 1..Ordinal(p), Promote(p, v)
        PROVE  (UNCHANGED draftVars \/ Ending(p)) /\ UNCHANGED timeline /\ DraftType'
    BY <1>8, PromoteMove
  <1>9. ASSUME NEW t \in Turns, FinishDraft(t)
        PROVE  \E p \in Drafts :
                  /\ Announces(t, p) /\ DraftType'
                  /\ \/ Growing(p, t)
                     \/ \E old \in {NoDraft} \cup Drafts : Starting(p, t, old)
    BY <1>9, DraftMove
  <1> HIDE DEF DraftInvariant
  <1> QED
    BY <1>1, <1>2, <1>3, <1>4, <1>5, <1>6, <1>7, <1>8, <1>9 DEF Next, TurnStep, Silent

-----------------------------------------------------------------------------
(* What every such move keeps.                                               *)

\* What a step does to the drafts, whoever takes it.
Moved ==
    \/ UNCHANGED draftVars
    \/ \E p \in Drafts : Ending(p)
    \/ \E p \in Drafts, a \in Author :
          Growing(p, a) \/ \E old \in {NoDraft} \cup Drafts : Starting(p, a, old)

\* Every step is such a move.
LEMMA StepMoves ==
    ASSUME DraftInvariant, [Next]_vars
    PROVE  Moved /\ DraftType'
  BY Moves DEF Moved, Author

\* The history after a version is added.
LEMMA AddFacts ==
    ASSUME TypeOK, NEW p \in Drafts, NEW a, Adds(p, a)
    PROVE  /\ \A k \in Drafts : k # p => history'[k] = history[k]
           /\ Ordinal(p) \in Nat /\ Ordinal(p)' = Ordinal(p) + 1
           /\ \A i \in 1..Ordinal(p) : history'[p][i] = history[p][i]
           /\ history'[p][Ordinal(p) + 1] = [by |-> a, base |-> Ordinal(p)]
           /\ history'[p] # << >>
  <1>1. history[p] \in Seq(Version) /\ history \in [Drafts -> Seq(Version)]
    BY DEF TypeOK, DraftType
  <1>2. history'[p] = Append(history[p], [by |-> a, base |-> Ordinal(p)])
    BY <1>1 DEF Adds
  <1>3. \A k \in Drafts : k # p => history'[k] = history[k]
    BY <1>1 DEF Adds
  <1>4. Len(history[p]) \in Nat /\ Len(history'[p]) = Len(history[p]) + 1
    BY <1>1, <1>2
  <1>5. \A i \in 1..Len(history[p]) : history'[p][i] = history[p][i]
    BY <1>1, <1>2
  <1>6. history'[p][Len(history[p]) + 1] = [by |-> a, base |-> Ordinal(p)]
    BY <1>1, <1>2
  <1>7. history'[p] # << >>
    BY <1>4
  <1> QED
    BY <1>3, <1>4, <1>5, <1>6, <1>7 DEF Ordinal

\* A sighting stays as good as it was, and one that is current after a step was
\* current before it, with the same versions.
LEMMA SightingStays ==
    ASSUME TypeOK, Shaped, Moved, NEW s, Vouched(s, draft, history), s.rv \in Nat
    PROVE  /\ Vouched(s, draft', history')
           /\ Current(s, draft') =>
                 Current(s, draft) /\ Len(history'[s.id]) = Len(history[s.id])
  <1>1. CASE UNCHANGED draftVars
    BY <1>1 DEF draftVars
  <1>2. CASE s = NotSeen
    BY <1>2 DEF Vouched, Current
  <1>3. CASE s # NotSeen
    <2>1. s.id \in Drafts /\ draft[s.id].state # "absent" /\ s.rv <= draft[s.id].rv
      BY <1>3 DEF Vouched
    <2>2. draft[s.id].rv \in Nat /\ s.id # NoDraft
      BY <2>1, DraftAssumption DEF TypeOK, DraftType, Row, Drafts, NoDraft
    <2>3. ASSUME NEW p \in Drafts, Ending(p)
          PROVE  /\ draft'[s.id].state # "absent" /\ s.rv <= draft'[s.id].rv
                 /\ (draft'[s.id].state = "active" /\ draft'[s.id].rv = s.rv) =>
                       /\ draft[s.id].state = "active" /\ draft[s.id].rv = s.rv
                       /\ history'[s.id] = history[s.id]
      BY <2>1, <2>2, <2>3 DEF Ending
    <2>4. ASSUME NEW p \in Drafts, NEW a \in Author, Growing(p, a)
          PROVE  /\ draft'[s.id].state # "absent" /\ s.rv <= draft'[s.id].rv
                 /\ (draft'[s.id].state = "active" /\ draft'[s.id].rv = s.rv) =>
                       /\ draft[s.id].state = "active" /\ draft[s.id].rv = s.rv
                       /\ history'[s.id] = history[s.id]
      <3>1. \A k \in Drafts : k # p => history'[k] = history[k]
        BY <2>4, AddFacts DEF Growing
      <3> QED
        BY <2>1, <2>2, <2>4, <3>1 DEF Growing
    <2>5. ASSUME NEW p \in Drafts, NEW a \in Author, NEW old \in {NoDraft} \cup Drafts,
                 Starting(p, a, old)
          PROVE  /\ draft'[s.id].state # "absent" /\ s.rv <= draft'[s.id].rv
                 /\ (draft'[s.id].state = "active" /\ draft'[s.id].rv = s.rv) =>
                       /\ draft[s.id].state = "active" /\ draft[s.id].rv = s.rv
                       /\ history'[s.id] = history[s.id]
      <3>1. \A k \in Drafts : k # p => history'[k] = history[k]
        BY <2>5, AddFacts DEF Starting
      <3>2. s.id # p
        BY <2>1, <2>5 DEF Starting
      <3> QED
        BY <2>1, <2>2, <2>5, <3>1, <3>2 DEF Starting
    <2>6. CASE ~UNCHANGED draftVars
      <3>1. /\ draft'[s.id].state # "absent" /\ s.rv <= draft'[s.id].rv
            /\ (draft'[s.id].state = "active" /\ draft'[s.id].rv = s.rv) =>
                  /\ draft[s.id].state = "active" /\ draft[s.id].rv = s.rv
                  /\ history'[s.id] = history[s.id]
        BY <2>3, <2>4, <2>5, <2>6 DEF Moved
      <3> QED
        BY <1>3, <2>1, <2>2, <3>1 DEF Vouched, Current
    <2> QED
      BY <1>1, <2>6
  <1> QED
    BY <1>2, <1>3

\* Drafts are created in order, and the version counts the writes.
LEMMA ShapedStep ==
    ASSUME TypeOK, Shaped, Moved, DraftType'
    PROVE  Shaped'
  <1>1. CASE UNCHANGED draftVars
    BY <1>1 DEF draftVars, Shaped, VersionCountsWrites, OneWorkingDraft, Ordinal
  <1>2. \A k \in Drafts : Ordinal(k) \in Nat /\ draft[k].rv \in Nat /\ draft[k].state \in State
    BY DEF TypeOK, DraftType, Ordinal, Row
  <1>3. ASSUME NEW p \in Drafts, Ending(p)
        PROVE  Shaped'
    <2>1. \A k \in Drafts : draft'[k].state = "absent" <=> draft[k].state = "absent"
      BY <1>3 DEF Ending
    <2>2. OneWorkingDraft'
      BY <1>3 DEF Ending, Shaped, OneWorkingDraft
    <2>3. VersionCountsWrites'
      <3>1. \A k \in Drafts : Ordinal(k)' = Ordinal(k)
        BY <1>3 DEF Ending, Ordinal
      <3>2. \A k \in Drafts : k # p =>
               draft'[k].state = draft[k].state /\ draft'[k].rv = draft[k].rv
        BY <1>3 DEF Ending
      <3>3. draft[p].state = "active" /\ draft'[p].state # "active" /\ draft'[p].rv = draft[p].rv + 1
        BY <1>3 DEF Ending
      <3> QED
        BY <1>2, <3>1, <3>2, <3>3 DEF Shaped, VersionCountsWrites
    <2> QED
      BY <1>3, <2>1, <2>2, <2>3 DEF Ending, Shaped
  <1>4. ASSUME NEW p \in Drafts, NEW a \in Author, Growing(p, a)
        PROVE  Shaped'
    <2>1. /\ \A k \in Drafts : k # p => history'[k] = history[k]
          /\ Ordinal(p)' = Ordinal(p) + 1 /\ history'[p] # << >>
      BY <1>4, AddFacts DEF Growing
    <2>2. \A k \in Drafts : Ordinal(k)' = IF k = p THEN Ordinal(k) + 1 ELSE Ordinal(k)
      BY <2>1 DEF Ordinal
    <2>3. VersionCountsWrites'
      BY <1>2, <1>4, <2>2 DEF Growing, Shaped, VersionCountsWrites
    <2>4. OneWorkingDraft'
      BY <1>4 DEF Growing, Shaped, OneWorkingDraft
    <2>5. \A k \in Drafts : draft'[k].state = "absent" <=> history'[k] = << >>
      BY <1>4, <2>1 DEF Growing, Shaped
    <2> QED
      BY <1>4, <2>3, <2>4, <2>5 DEF Growing, Shaped
  <1>5. ASSUME NEW p \in Drafts, NEW a \in Author, NEW old \in {NoDraft} \cup Drafts,
               Starting(p, a, old)
        PROVE  Shaped'
    <2>1. /\ \A k \in Drafts : k # p => history'[k] = history[k]
          /\ Ordinal(p)' = Ordinal(p) + 1 /\ history'[p] # << >>
      BY <1>5, AddFacts DEF Starting
    <2>2. history[p] = << >> /\ Ordinal(p) = 0
      BY <1>5 DEF Starting, Shaped, Ordinal
    <2>3. \A k \in Drafts : Ordinal(k)' = IF k = p THEN 1 ELSE Ordinal(k)
      <3>1. Ordinal(p)' = 1
        BY <2>1, <2>2
      <3>2. \A k \in Drafts : k # p => Ordinal(k)' = Ordinal(k)
        BY <2>1 DEF Ordinal
      <3> QED
        BY <3>1, <3>2
    <2>4. /\ \A k \in Drafts : draft'[k].state =
                IF k = p THEN "active" ELSE IF k = old THEN "rejected" ELSE draft[k].state
          /\ \A k \in Drafts : draft'[k].rv =
                IF k = p THEN 1 ELSE IF k = old THEN draft[k].rv + 1 ELSE draft[k].rv
          /\ \A k \in Drafts : draft[k].state = "active" => k = old
          /\ old \in Drafts => draft[old].state = "active"
          /\ draft[p].state = "absent" /\ \A k \in 1..(p - 1) : draft[k].state # "absent"
      BY <1>5, DraftAssumption DEF Starting, NoDraft, Drafts
    <2>5. VersionCountsWrites'
      BY <1>2, <2>3, <2>4 DEF Shaped, VersionCountsWrites
    <2>6. OneWorkingDraft'
      BY <2>4 DEF OneWorkingDraft
    <2>7. \A k \in Drafts : draft'[k].state = "absent" <=> history'[k] = << >>
      BY <2>1, <2>4 DEF Shaped
    <2>8. PICK n \in 0..MaxDrafts : \A k \in Drafts : draft[k].state = "absent" <=> k > n
      BY DEF Shaped
    <2>9. p = n + 1
      <3>1. p > n /\ p \in 1..MaxDrafts
        BY <2>4, <2>8 DEF Drafts
      <3>2. ASSUME p > n + 1
            PROVE  FALSE
        <4>1. p - 1 \in Drafts /\ p - 1 > n /\ p - 1 \in 1..(p - 1)
          BY <3>1, <3>2, DraftAssumption DEF Drafts
        <4> QED
          BY <2>4, <2>8, <4>1
      <3> QED
        BY <3>1, <3>2, DraftAssumption
    <2>10. \A k \in Drafts : draft'[k].state = "absent" <=> k > p
      <3>1. \A k \in Drafts : k > p <=> k > n /\ k # p
        BY <2>9 DEF Drafts
      <3>2. \A k \in Drafts : draft'[k].state = "absent" <=> draft[k].state = "absent" /\ k # p
        BY <2>4
      <3> QED
        BY <2>8, <3>1, <3>2
    <2>11. p \in 0..MaxDrafts
      BY DEF Drafts
    <2> QED
      BY <2>5, <2>6, <2>7, <2>10, <2>11 DEF Shaped
  <1> QED
    BY <1>1, <1>3, <1>4, <1>5 DEF Moved

\* Each version goes on top of the one before it.
LEMMA NoLostEditStep ==
    ASSUME TypeOK, NoLostEdit, Moved
    PROVE  NoLostEdit'
  <1>1. CASE UNCHANGED history
    BY <1>1 DEF NoLostEdit, Ordinal
  <1>2. ASSUME NEW p \in Drafts, NEW a \in Author, Adds(p, a)
        PROVE  NoLostEdit'
    <2>1. /\ \A k \in Drafts : k # p => history'[k] = history[k]
          /\ Ordinal(p) \in Nat /\ Ordinal(p)' = Ordinal(p) + 1
          /\ \A i \in 1..Ordinal(p) : history'[p][i] = history[p][i]
          /\ history'[p][Ordinal(p) + 1] = [by |-> a, base |-> Ordinal(p)]
      BY <1>2, AddFacts
    <2>2. SUFFICES ASSUME NEW k \in Drafts, NEW i \in 1..Ordinal(k)'
                   PROVE  history'[k][i].base = i - 1
      BY DEF NoLostEdit
    <2>3. CASE k # p
      BY <2>1, <2>2, <2>3 DEF NoLostEdit, Ordinal
    <2>4. CASE k = p /\ i # Ordinal(p) + 1
      <3>1. i \in 1..Ordinal(p)
        BY <2>1, <2>2, <2>4
      <3> QED
        BY <2>1, <2>4, <3>1 DEF NoLostEdit
    <2>5. CASE k = p /\ i = Ordinal(p) + 1
      BY <2>1, <2>5
    <2> QED
      BY <2>3, <2>4, <2>5
  <1> QED
    BY <1>1, <1>2 DEF Moved, draftVars, Ending, Growing, Starting

\* Ended turns stay ended.
LEMMA OverIsFinal ==
    ASSUME TypeOK, TurnOrder, [Next]_vars, NEW u \in Turns, phase[u] = "over"
    PROVE  phase'[u] = "over"
  <1>1. runStatus[u] \in EndStatus /\ runStatus[u] \notin {"absent", "agent_queued", "agent_running"}
    BY DEF TurnOrder, Ordered, EndStatus
  <1>2. ASSUME NEW t \in Turns, AcceptTurn(t) \/ ClaimTurn(t) \/ TurnStep(t) \/ Crash(t)
        PROVE  phase'[u] = "over"
    <2>1. CASE t = u
      BY <1>1, <1>2, <2>1 DEF AcceptTurn, ClaimTurn, TurnStep, Crash, TakeSpecialRoute,
         Observe, ShowSnapshot, SkipSnapshot, DraftTool, DraftToolFails, DiscardTool, Conclude,
         DraftBesideDiscard, SuspendRaises, FinishRaises, FinishRefused, FinishPlain,
         FinishDraft, Finish
    <2>2. CASE t # u
      <3>1. UNCHANGED phase \/ \E x \in Phase : phase' = [phase EXCEPT ![t] = x]
        BY <1>2 DEF AcceptTurn, ClaimTurn, TurnStep, Crash, TakeSpecialRoute,
           Observe, ShowSnapshot, SkipSnapshot, DraftTool, DraftToolFails, DiscardTool, Conclude,
           DraftBesideDiscard, SuspendRaises, FinishRaises, FinishRefused, FinishPlain,
           FinishDraft, Finish, Phase
      <3> QED
        BY <2>2, <3>1 DEF TypeOK
    <2> QED
      BY <2>1, <2>2
  <1>3. ASSUME NEW q \in Edits,
               EditReplay(q) \/ EditRefused(q) \/ EditApplied(q) \/ \E p \in Drafts : EditRead(q, p)
        PROVE  UNCHANGED phase
    BY <1>3 DEF EditReplay, EditRefused, EditApplied, EditRead, Reply, turnVars
  <1>4. CASE \/ \E p \in Drafts : \E v \in 1..Ordinal(p) : Promote(p, v)
             \/ Reimport \/ UNCHANGED vars
    BY <1>4 DEF Promote, Reimport, vars, turnVars
  <1>5. ASSUME NEW q \in Edits, NEW t \in Turns, RevisionStrands(q, t)
        PROVE  phase'[u] = "over"
    BY <1>5 DEF RevisionStrands, TypeOK
  <1> QED
    BY <1>2, <1>3, <1>4, <1>5 DEF Next

\* A turn authors one version at most, and every draft begins with a turn's own.
LEMMA AuthorsStep ==
    ASSUME DraftInvariant, [Next]_vars
    PROVE  Authors'
  <1> USE DEF DraftInvariant
  <1>1. \A u \in Turns : phase[u] = "over" => phase'[u] = "over"
    BY OverIsFinal
  <1>2. CASE UNCHANGED history
    BY <1>1, <1>2 DEF Authors, Ordinal
  <1>3. ASSUME NEW p \in Drafts, NEW a \in Author, Adds(p, a),
               a \in Turns => phase[a] # "over" /\ phase'[a] = "over",
               history[p] = << >> => a \in Turns
        PROVE  Authors'
    <2>1. /\ \A k \in Drafts : k # p => history'[k] = history[k]
          /\ Ordinal(p) \in Nat /\ Ordinal(p)' = Ordinal(p) + 1
          /\ \A i \in 1..Ordinal(p) : history'[p][i] = history[p][i]
          /\ history'[p][Ordinal(p) + 1] = [by |-> a, base |-> Ordinal(p)]
          /\ history'[p] # << >>
      BY <1>3, AddFacts
    <2>2. \A k \in Drafts : \A i \in 1..Ordinal(k)' :
             \/ i \in 1..Ordinal(k) /\ history'[k][i] = history[k][i]
             \/ k = p /\ i = Ordinal(p) + 1 /\ history'[k][i].by = a
      <3> SUFFICES ASSUME NEW k \in Drafts, NEW i \in 1..Ordinal(k)'
                   PROVE  \/ i \in 1..Ordinal(k) /\ history'[k][i] = history[k][i]
                          \/ k = p /\ i = Ordinal(p) + 1 /\ history'[k][i].by = a
        OBVIOUS
      <3>1. CASE k # p
        BY <2>1, <3>1 DEF Ordinal
      <3>2. CASE k = p
        <4>1. i \in 1..Ordinal(p) \/ i = Ordinal(p) + 1
          BY <2>1, <3>2
        <4> QED
          BY <2>1, <3>2, <4>1
      <3> QED
        BY <3>1, <3>2
    <2>3. \A k \in Drafts : \A i \in 1..Ordinal(k)' :
             history'[k][i].by \in Turns => phase'[history'[k][i].by] = "over"
      BY <1>1, <1>3, <2>2 DEF Authors
    <2>4. \A k \in Drafts : history'[k] # << >> =>
             \/ history[k] # << >> /\ history'[k][1] = history[k][1]
             \/ k = p /\ history[k] = << >> /\ history'[k][1].by = a
      <3>1. CASE history[p] = << >>
        <4>1. Ordinal(p) = 0
          BY <3>1 DEF Ordinal
        <4>2. Ordinal(p) + 1 = 1
          BY <4>1
        <4> QED
          BY <2>1, <3>1, <4>2
      <3>2. CASE history[p] # << >>
        <4>1. 1 \in 1..Ordinal(p)
          <5>1. history[p] \in Seq(Version)
            BY DEF TypeOK, DraftType
          <5> QED
            BY <3>2, <5>1 DEF Ordinal
        <4> QED
          BY <2>1, <3>2, <4>1
      <3> QED
        BY <3>1, <3>2
    <2>5. \A k \in Drafts : history[k] # << >> =>
             history[k][1].by \in Turns /\ phase[history[k][1].by] = "over"
      <3> SUFFICES ASSUME NEW k \in Drafts, history[k] # << >>
                   PROVE  history[k][1].by \in Turns /\ phase[history[k][1].by] = "over"
        OBVIOUS
      <3>1. history[k] \in Seq(Version)
        BY DEF TypeOK, DraftType
      <3>2. 1 \in 1..Ordinal(k)
        BY <3>1 DEF Ordinal
      <3> QED
        BY <3>2 DEF Authors
    <2>6. \A k \in Drafts : history'[k] # << >> => history'[k][1].by \in Turns
      BY <1>3, <2>4, <2>5
    <2>7. \A k, m \in Drafts :
             (history'[k] # << >> /\ history'[m] # << >>
                /\ history'[k][1].by = history'[m][1].by) => k = m
      BY <1>3, <2>4, <2>5 DEF Authors
    <2> QED
      BY <2>3, <2>6, <2>7 DEF Authors
  <1>4. ASSUME NEW p \in Drafts, NEW t \in Turns, Announces(t, p), Adds(p, t)
        PROVE  Authors'
    <2>1. phase[t] # "over" /\ phase'[t] = "over" /\ t \in Author
      BY <1>4 DEF Announces, TypeOK, Author
    <2> QED
      BY <1>3, <1>4, <2>1
  <1>5. ASSUME NEW q \in Edits, view[q].id \in Drafts, Growing(view[q].id, q)
        PROVE  Authors'
    <2>1. history[view[q].id] # << >> /\ q \notin Turns /\ q \in Author
      BY <1>5, DraftAssumption DEF Growing, Shaped, Author
    <2> QED
      BY <1>3, <1>5, <2>1 DEF Growing
  <1> HIDE DEF DraftInvariant
  <1> QED
    BY <1>2, <1>4, <1>5, Moves DEF draftVars, Ending, Growing, Starting

\* The activities that name version n of draft p.
Naming(tl, p, n) ==
    {i \in 1..Len(tl) : tl[i].kind = "draft" /\ tl[i].id = p /\ tl[i].ordinal = n}

\* An activity appended to a timeline.
LEMMA AppendActivity ==
    ASSUME NEW tl \in Seq(Activity), NEW e \in Activity
    PROVE  /\ Append(tl, e) \in Seq(Activity)
           /\ Len(tl) \in Nat /\ Len(Append(tl, e)) = Len(tl) + 1
           /\ \A i \in 1..Len(tl) : Append(tl, e)[i] = tl[i]
           /\ Append(tl, e)[Len(tl) + 1] = e
           /\ \A i \in 1..Len(Append(tl, e)) : i \in 1..Len(tl) \/ i = Len(tl) + 1
  <1>1. /\ Append(tl, e) \in Seq(Activity)
        /\ Len(tl) \in Nat /\ Len(Append(tl, e)) = Len(tl) + 1
    OBVIOUS
  <1>2. \A i \in 1..Len(tl) : Append(tl, e)[i] = tl[i]
    OBVIOUS
  <1>3. Append(tl, e)[Len(tl) + 1] = e
    OBVIOUS
  <1>4. \A i \in 1..(Len(tl) + 1) : i \in 1..Len(tl) \/ i = Len(tl) + 1
    BY <1>1
  <1> QED
    BY <1>1, <1>2, <1>3, <1>4

\* Which activities name a version after one more activity.
LEMMA NamingAppend ==
    ASSUME NEW tl \in Seq(Activity), NEW e \in Activity, NEW p, NEW n
    PROVE  /\ ~(e.kind = "draft" /\ e.id = p /\ e.ordinal = n) =>
                 Naming(Append(tl, e), p, n) = Naming(tl, p, n)
           /\ (e.kind = "draft" /\ e.id = p /\ e.ordinal = n) =>
                 Naming(Append(tl, e), p, n) = Naming(tl, p, n) \cup {Len(tl) + 1}
  <1> DEFINE m == Append(tl, e)
  <1>1. /\ Len(tl) \in Nat /\ Len(m) = Len(tl) + 1
        /\ \A i \in 1..Len(tl) : m[i] = tl[i]
        /\ m[Len(tl) + 1] = e
        /\ \A i \in 1..Len(m) : i \in 1..Len(tl) \/ i = Len(tl) + 1
    BY AppendActivity
  <1> HIDE DEF m
  <1>2. \A i : i \in 1..Len(m) <=> i \in 1..Len(tl) \/ i = Len(tl) + 1
    BY <1>1
  <1>3. Len(tl) + 1 \notin 1..Len(tl)
    BY <1>1
  <1>4. ~(e.kind = "draft" /\ e.id = p /\ e.ordinal = n) =>
            Naming(m, p, n) = Naming(tl, p, n)
    BY <1>1, <1>2, <1>3 DEF Naming
  <1>5. (e.kind = "draft" /\ e.id = p /\ e.ordinal = n) =>
            Naming(m, p, n) = Naming(tl, p, n) \cup {Len(tl) + 1}
    BY <1>1, <1>2, <1>3 DEF Naming
  <1> QED
    BY <1>4, <1>5 DEF m

\* The timeline and the versions stay in step.
LEMMA TimelineStep ==
    ASSUME DraftInvariant, [Next]_vars
    PROVE  TimelineNamesVersions' /\ timeline' \in Seq(Activity)
  <1> USE DEF DraftInvariant
  <1> DEFINE Named(e, h) == /\ e.id \in Drafts /\ e.ordinal \in 1..Len(h[e.id])
                            /\ h[e.id][e.ordinal].by = e.turn
             First(tl, h) == \A i \in 1..Len(tl) : tl[i].kind = "draft" => Named(tl[i], h)
             Once(tl, h) == \A p \in Drafts : \A n \in 1..Len(h[p]) :
                               h[p][n].by \in Turns => Cardinality(Naming(tl, p, n)) = 1
  <1>1. First(timeline, history) /\ Once(timeline, history)
    BY DEF TimelineNamesVersions, Ordinal, Naming
  <1>2. ASSUME First(timeline', history'), Once(timeline', history')
        PROVE  TimelineNamesVersions'
    BY <1>2 DEF TimelineNamesVersions, Ordinal, Naming
  <1>3. timeline \in Seq(Activity)
    BY DEF TypeOK
  <1>4. ASSUME Silent
        PROVE  /\ timeline' \in Seq(Activity) /\ First(timeline', history)
               /\ \A p, n : Naming(timeline', p, n) = Naming(timeline, p, n)
    <2>1. CASE UNCHANGED timeline
      BY <1>1, <1>3, <2>1
    <2>2. ASSUME NEW e \in Activity, e.kind # "draft", timeline' = Append(timeline, e)
          PROVE  /\ timeline' \in Seq(Activity) /\ First(timeline', history)
                 /\ \A p, n : Naming(timeline', p, n) = Naming(timeline, p, n)
      <3>1. /\ timeline' \in Seq(Activity)
            /\ \A i \in 1..Len(timeline) : timeline'[i] = timeline[i]
            /\ timeline'[Len(timeline) + 1] = e
            /\ \A i \in 1..Len(timeline') : i \in 1..Len(timeline) \/ i = Len(timeline) + 1
        BY <1>3, <2>2, AppendActivity
      <3>2. \A p, n : Naming(timeline', p, n) = Naming(timeline, p, n)
        BY <1>3, <2>2, NamingAppend
      <3>3. First(timeline', history)
        BY <1>1, <2>2, <3>1
      <3> QED
        BY <3>1, <3>2, <3>3
    <2> QED
      BY <1>4, <2>1, <2>2 DEF Silent
  <1>5. CASE Silent /\ UNCHANGED history
    <2>1. \A p, n : Cardinality(Naming(timeline', p, n)) = Cardinality(Naming(timeline, p, n))
      BY <1>4, <1>5, Zenon
    <2>2. Once(timeline', history')
      BY <1>1, <1>5, <2>1
    <2>3. First(timeline', history')
      BY <1>4, <1>5
    <2> QED
      BY <1>2, <1>4, <1>5, <2>2, <2>3
  <1>6. ASSUME NEW p \in Drafts, NEW a \in Author, Adds(p, a)
        PROVE  /\ \A e : Named(e, history) => Named(e, history')
               /\ \A k \in Drafts : \A i \in 1..Len(history'[k]) :
                     \/ i \in 1..Len(history[k]) /\ history'[k][i] = history[k][i]
                     \/ k = p /\ i = Len(history[p]) + 1
               /\ Len(history[p]) \in Nat /\ Len(history'[p]) = Len(history[p]) + 1
               /\ history'[p][Len(history[p]) + 1].by = a
    <2>1. /\ \A k \in Drafts : k # p => history'[k] = history[k]
          /\ Len(history[p]) \in Nat /\ Len(history'[p]) = Len(history[p]) + 1
          /\ \A i \in 1..Len(history[p]) : history'[p][i] = history[p][i]
          /\ history'[p][Len(history[p]) + 1] = [by |-> a, base |-> Len(history[p])]
      BY <1>6, AddFacts DEF Ordinal
    <2>2. \A i \in 1..Len(history'[p]) : i \in 1..Len(history[p]) \/ i = Len(history[p]) + 1
      BY <2>1
    <2>3. \A i \in 1..Len(history[p]) : i \in 1..Len(history'[p])
      BY <2>1
    <2>4. \A k \in Drafts : \A i \in 1..Len(history'[k]) :
             \/ i \in 1..Len(history[k]) /\ history'[k][i] = history[k][i]
             \/ k = p /\ i = Len(history[p]) + 1
      BY <2>1, <2>2
    <2>5. \A e : Named(e, history) => Named(e, history')
      BY <2>1, <2>3
    <2> QED
      BY <2>1, <2>4, <2>5
  <1>7. ASSUME NEW p \in Drafts, NEW q \in Edits, Adds(p, q), UNCHANGED timeline
        PROVE  TimelineNamesVersions' /\ timeline' \in Seq(Activity)
    <2>1. q \in Author /\ q \notin Turns
      BY DraftAssumption DEF Author
    <2>2. First(timeline', history')
      BY <1>1, <1>6, <1>7, <2>1
    <2>3. Once(timeline', history')
      BY <1>1, <1>6, <1>7, <2>1
    <2> QED
      BY <1>2, <1>3, <1>7, <2>2, <2>3
  <1>8. ASSUME NEW p \in Drafts, NEW t \in Turns, Announces(t, p), Adds(p, t)
        PROVE  TimelineNamesVersions' /\ timeline' \in Seq(Activity)
    <2> DEFINE n == Len(history[p]) + 1
               e == [kind |-> "draft", turn |-> t, id |-> p, ordinal |-> n]
    <2>1. t \in Author
      BY DEF Author
    <2>2. /\ \A x : Named(x, history) => Named(x, history')
          /\ \A k \in Drafts : \A i \in 1..Len(history'[k]) :
                \/ i \in 1..Len(history[k]) /\ history'[k][i] = history[k][i]
                \/ k = p /\ i = n
          /\ Len(history[p]) \in Nat /\ Len(history'[p]) = n
          /\ history'[p][n].by = t
      BY <1>6, <1>8, <2>1
    <2>3. n \in 1..n /\ n \in Nat /\ n \notin 1..Len(history[p])
      BY <2>2
    <2>4. e \in Activity /\ e.kind = "draft" /\ e.id = p /\ e.ordinal = n /\ e.turn = t
      BY <2>3 DEF Activity
    <2>5. timeline' = Append(timeline, e)
      BY <1>8 DEF Announces, Ordinal
    <2>6. Named(e, history')
      BY <2>2, <2>3, <2>4
    <2>7. Naming(timeline, p, n) = {}
      BY <1>1, <2>3 DEF Naming
    <2> HIDE DEF e, n
    <2>8. /\ timeline' \in Seq(Activity)
          /\ \A i \in 1..Len(timeline) : timeline'[i] = timeline[i]
          /\ timeline'[Len(timeline) + 1] = e
          /\ \A i \in 1..Len(timeline') : i \in 1..Len(timeline) \/ i = Len(timeline) + 1
      BY <1>3, <2>4, <2>5, AppendActivity
    <2>9. First(timeline', history')
      <3> HIDE DEF Named
      <3> QED
        BY <1>1, <2>2, <2>6, <2>8
    <2>10. Naming(timeline', p, n) = {Len(timeline) + 1}
      <3>1. Naming(timeline', p, n) = Naming(timeline, p, n) \cup {Len(timeline) + 1}
        BY <1>3, <2>4, <2>5, NamingAppend
      <3> QED
        BY <2>7, <3>1
    <2>11. Cardinality(Naming(timeline', p, n)) = 1
      BY <2>10, FS_Singleton, Zenon
    <2>12. \A k, i : ~(k = p /\ i = n) => Naming(timeline', k, i) = Naming(timeline, k, i)
      BY <1>3, <2>4, <2>5, NamingAppend
    <2>13. \A k, i : ~(k = p /\ i = n) =>
              Cardinality(Naming(timeline', k, i)) = Cardinality(Naming(timeline, k, i))
      BY <2>12, Zenon
    <2>14. Once(timeline', history')
      BY <1>1, <2>2, <2>11, <2>13
    <2> QED
      BY <1>2, <2>8, <2>9, <2>14
  <1> HIDE DEF DraftInvariant
  <1> QED
    BY <1>5, <1>7, <1>8, Moves DEF draftVars, Ending, Growing, Starting

-----------------------------------------------------------------------------
(* What a turn and a command remember.                                       *)

\* A sighting taken now is well formed and sound.
LEMMA SeenFacts ==
    ASSUME TypeOK, NEW p, p = NoDraft \/ (p \in Drafts /\ draft[p].state # "absent")
    PROVE  /\ Seen(p) \in Sighting /\ Sound(Seen(p))
           /\ p # NoDraft => Seen(p).ordinal = Ordinal(p) /\ Seen(p) # NotSeen
  <1>1. CASE p = NoDraft
    BY <1>1 DEF Seen, NotSeen, Sighting, Sound, Vouched
  <1>2. CASE p # NoDraft
    <2>1. p \in Drafts /\ draft[p].rv \in Nat /\ Ordinal(p) \in Nat
      BY <1>2 DEF TypeOK, DraftType, Row, Ordinal
    <2>2. Seen(p) = [id |-> p, rv |-> draft[p].rv, ordinal |-> Ordinal(p)]
      BY <1>2 DEF Seen
    <2>3. Seen(p) \in Sighting /\ Seen(p).id = p /\ Seen(p).rv = draft[p].rv
          /\ Seen(p).ordinal = Ordinal(p)
      BY <2>1, <2>2 DEF Sighting
    <2>4. Seen(p) # NotSeen
      BY <1>2, <2>3 DEF NotSeen
    <2> QED
      BY <1>2, <2>1, <2>3, <2>4 DEF Sound, Vouched, Ordinal
  <1> QED
    BY <1>1, <1>2

\* DraftTurnState.observe, first or again.
LEMMA ObservationFacts ==
    ASSUME TypeOK, SoundSightings, TurnOrder, NEW t \in Turns
    PROVE  /\ Observation(t) \in Sighting /\ Sound(Observation(t))
           /\ obs[t] # {} => obs[t] = {Observation(t)}
  <1>1. CASE obs[t] = {}
    <2>1. Observation(t) = Seen(Working)
      BY <1>1 DEF Observation
    <2>2. Working = NoDraft \/ (Working \in Drafts /\ draft[Working].state # "absent")
      BY WorkingFacts
    <2> QED
      BY <1>1, <2>1, <2>2, SeenFacts
  <1>2. CASE obs[t] # {}
    <2>1. Observation(t) \in obs[t]
      BY <1>2 DEF Observation
    <2>2. \A o, u \in obs[t] : o = u
      BY DEF TurnOrder, Ordered
    <2> QED
      BY <2>1, <2>2 DEF TypeOK, SoundSightings
  <1> QED
    BY <1>1, <1>2

\* A turn's steps change what is kept of that turn only.
LEMMA ElsewhereSame ==
    ASSUME TypeOK, NEW t \in Turns, AcceptTurn(t) \/ ClaimTurn(t) \/ TurnStep(t) \/ Crash(t)
    PROVE  /\ \A u \in Turns : u # t => Kept(u)
           /\ UNCHANGED <<editVars, scenario>>
  <1>1. CASE AcceptTurn(t)
    BY <1>1 DEF AcceptTurn, TypeOK, Kept
  <1>2. CASE ClaimTurn(t) \/ TakeSpecialRoute(t) \/ Observe(t) \/ ShowSnapshot(t)
             \/ SkipSnapshot(t) \/ Crash(t)
    BY <1>2 DEF ClaimTurn, TakeSpecialRoute, Observe, ShowSnapshot, SkipSnapshot, Crash, TypeOK, Kept
  <1>3. CASE DraftTool(t) \/ DraftToolFails(t) \/ DiscardTool(t) \/ DraftBesideDiscard(t)
             \/ Conclude(t)
    BY <1>3 DEF DraftTool, DraftToolFails, DiscardTool, DraftBesideDiscard, Conclude, TypeOK, Kept
  <1>4. CASE \/ SuspendRaises(t) \/ FinishRaises(t) \/ FinishRefused(t) \/ FinishPlain(t)
             \/ FinishDraft(t)
    BY <1>4 DEF SuspendRaises, FinishRaises, FinishRefused, FinishPlain, FinishDraft, Finish,
       TypeOK, Kept
  <1> QED
    BY <1>1, <1>2, <1>3, <1>4 DEF TurnStep

\* The types of what is kept of the turns, and of what is kept of the commands.
TurnTypes ==
    /\ runStatus \in [Turns -> RunStatus] /\ phase \in [Turns -> Phase]
    /\ obs \in [Turns -> SUBSET Sighting] /\ shown \in [Turns -> Sighting]
    /\ writes \in [Turns -> SUBSET DraftWrite] /\ discard \in [Turns -> Sighting]
    /\ output \in [Turns -> [status: RunStatus, payload: Payload]]

EditTypes ==
    /\ view \in [Edits -> Sighting]
    /\ sends \in [Edits -> Nat]
    /\ reply \in [Edits -> [kind: {"none", "ok"} \cup Refusals, rv: Nat]]
    /\ idem \in [Slots -> [body: Nat \X SUBSET Edits, rv: Nat]]

\* What the turn t remembers after a step is sound of the draft before it, and the
\* model was shown what the turn observed.
Recalls(t) ==
    /\ Sound(discard'[t]) /\ \A o \in obs'[t] : Sound(o)
    /\ phase'[t] \in {"thinking", "concluded"} =>
          \A o \in obs'[t] : Current(o, draft) => shown'[t].ordinal = Ordinal(o.id)

\* A step that moves the turn on and records nothing of the draft.
LEMMA PhaseOnly ==
    ASSUME DraftInvariant, NEW t \in Turns,
           AcceptTurn(t) \/ ClaimTurn(t) \/ Crash(t) \/ TakeSpecialRoute(t)
             \/ DraftToolFails(t) \/ Conclude(t) \/ SuspendRaises(t) \/ FinishRaises(t)
    PROVE  TurnTypes' /\ Ordered(t)' /\ Recalls(t)
  <1> USE DEF DraftInvariant
  <1>1. Ordered(t) /\ Shows(t) /\ Sound(discard[t]) /\ \A o \in obs[t] : Sound(o)
    BY DEF TurnOrder, ShownIsObserved, SoundSightings
  <1>2. UNCHANGED <<obs, shown, writes, discard>>
    BY DEF AcceptTurn, ClaimTurn, Crash, TakeSpecialRoute, DraftToolFails, Conclude,
       SuspendRaises, FinishRaises
  <1>3. CASE AcceptTurn(t)
    <2>1. /\ runStatus' = [runStatus EXCEPT ![t] = "agent_queued"] /\ UNCHANGED <<phase, output>>
          /\ runStatus[t] = "absent"
      BY <1>3 DEF AcceptTurn
    <2>2. TurnTypes'
      BY <1>2, <2>1 DEF TypeOK, TurnTypes, RunStatus
    <2>3. Ordered(t)'
      BY <1>1, <1>2, <2>1 DEF Ordered, TypeOK, EndStatus
    <2> QED
      BY <1>1, <1>2, <2>1, <2>2, <2>3 DEF Recalls, Shows
  <1>4. CASE ClaimTurn(t)
    <2>1. /\ runStatus' = [runStatus EXCEPT ![t] = "agent_running"]
          /\ phase' = [phase EXCEPT ![t] = "claimed"] /\ UNCHANGED output
          /\ runStatus[t] = "agent_queued"
      BY <1>4 DEF ClaimTurn
    <2>2. TurnTypes'
      BY <1>2, <2>1 DEF TypeOK, TurnTypes, RunStatus, Phase
    <2>3. Ordered(t)'
      BY <1>1, <1>2, <2>1 DEF Ordered, TypeOK, EndStatus
    <2> QED
      BY <1>1, <1>2, <2>1, <2>2, <2>3 DEF Recalls, TypeOK
  <1>5. CASE Crash(t) \/ SuspendRaises(t) \/ FinishRaises(t)
    <2>1. /\ \E x \in {"dead", "stranded"} : phase' = [phase EXCEPT ![t] = x]
          /\ UNCHANGED <<runStatus, output>>
          /\ phase[t] \in {"claimed", "observed", "thinking", "concluded"}
      BY <1>5 DEF Crash, SuspendRaises, FinishRaises
    <2>2. TurnTypes'
      BY <1>2, <2>1 DEF TypeOK, TurnTypes, Phase
    <2>3. Ordered(t)'
      BY <1>1, <1>2, <2>1 DEF Ordered, TypeOK
    <2> QED
      BY <1>1, <1>2, <2>1, <2>2, <2>3 DEF Recalls, TypeOK
  <1>6. CASE TakeSpecialRoute(t) \/ DraftToolFails(t) \/ Conclude(t)
    <2>1. PICK out \in [status: EndStatus, payload: Payload] :
             output' = [output EXCEPT ![t] = out]
      BY <1>6 DEF TakeSpecialRoute, DraftToolFails, Conclude, PlainOutcomes, Outcomes,
         EndStatus, Payload
    <2>2. /\ phase' = [phase EXCEPT ![t] = "concluded"] /\ UNCHANGED runStatus
          /\ phase[t] \in {"claimed", "thinking"}
      BY <1>6 DEF TakeSpecialRoute, DraftToolFails, Conclude
    <2>3. out \in [status: RunStatus, payload: Payload] /\ out.status \in EndStatus
      BY DEF RunStatus
    <2>4. TurnTypes'
      BY <1>2, <2>1, <2>2, <2>3 DEF TypeOK, TurnTypes, Phase
    <2>5. output'[t] = out /\ phase'[t] = "concluded"
      BY <2>1, <2>2 DEF TypeOK
    <2>6. Ordered(t)'
      BY <1>1, <1>2, <2>2, <2>3, <2>5 DEF Ordered
    <2>7. \A o \in obs[t] : Current(o, draft) => shown[t].ordinal = Ordinal(o.id)
      BY <1>1, <2>2 DEF Shows, Ordered
    <2> QED
      BY <1>1, <1>2, <2>4, <2>6, <2>7 DEF Recalls
  <1> QED
    BY <1>3, <1>4, <1>5, <1>6

\* _workflow_context: the observation, then the snapshot.
LEMMA SnapshotStep ==
    ASSUME DraftInvariant, NEW t \in Turns, Observe(t) \/ ShowSnapshot(t) \/ SkipSnapshot(t)
    PROVE  TurnTypes' /\ Ordered(t)' /\ Recalls(t)
  <1> USE DEF DraftInvariant
  <1> DEFINE o == Observation(t)
  <1>1. Ordered(t) /\ Sound(discard[t]) /\ o \in Sighting /\ Sound(o)
        /\ (obs[t] # {} => obs[t] = {o})
    BY ObservationFacts DEF TurnOrder, SoundSightings
  <1> HIDE DEF o
  <1>2. CASE Observe(t)
    <2>1. /\ phase[t] = "claimed" /\ phase' = [phase EXCEPT ![t] = "observed"]
          /\ obs' = [obs EXCEPT ![t] = {o}]
          /\ UNCHANGED <<runStatus, shown, writes, discard, output>>
      BY <1>2 DEF Observe, o
    <2>2. TurnTypes'
      BY <1>1, <2>1 DEF TypeOK, TurnTypes, Phase
    <2>3. phase'[t] = "observed" /\ obs'[t] = {o}
      BY <2>1 DEF TypeOK
    <2>4. Ordered(t)'
      BY <1>1, <2>1, <2>3 DEF Ordered
    <2> QED
      BY <1>1, <2>1, <2>2, <2>3, <2>4 DEF Recalls
  <1>3. ASSUME NEW s \in Sighting, phase[t] = "observed",
               phase' = [phase EXCEPT ![t] = "thinking"], shown' = [shown EXCEPT ![t] = s],
               UNCHANGED <<runStatus, obs, writes, discard, output>>,
               Current(o, draft) => s.ordinal = Ordinal(o.id)
        PROVE  TurnTypes' /\ Ordered(t)' /\ Recalls(t)
    <2>1. obs[t] = {o} /\ writes[t] = {} /\ discard[t] = NotSeen
      BY <1>1, <1>3 DEF Ordered
    <2>2. TurnTypes'
      BY <1>3 DEF TypeOK, TurnTypes, Phase
    <2>3. phase'[t] = "thinking" /\ shown'[t] = s
      BY <1>3 DEF TypeOK
    <2>4. Ordered(t)'
      BY <1>1, <1>3, <2>1, <2>3 DEF Ordered
    <2> QED
      BY <1>1, <1>3, <2>1, <2>2, <2>3, <2>4 DEF Recalls
  <1>4. CASE ShowSnapshot(t)
    <2>1. Working = NoDraft \/ (Working \in Drafts /\ draft[Working].state # "absent")
      BY WorkingFacts
    <2>2. Seen(Working) \in Sighting
          /\ (Working # NoDraft => Seen(Working).ordinal = Ordinal(Working))
      BY <2>1, SeenFacts
    <2>3. ASSUME Current(o, draft)
          PROVE  Seen(Working).ordinal = Ordinal(o.id)
      <3>1. o.id \in Drafts /\ draft[o.id].state = "active"
        BY <1>1, <2>3 DEF Sound, Vouched, Current
      <3>2. Working # NoDraft /\ Working = o.id
        BY <3>1, WorkingFacts DEF Shaped, OneWorkingDraft
      <3> QED
        BY <2>2, <3>2
    <2>4. /\ phase[t] = "observed" /\ phase' = [phase EXCEPT ![t] = "thinking"]
          /\ shown' = [shown EXCEPT ![t] = Seen(Working)]
          /\ UNCHANGED <<runStatus, obs, writes, discard, output>>
      BY <1>4 DEF ShowSnapshot
    <2> QED
      BY <1>3, <2>2, <2>3, <2>4
  <1>5. CASE SkipSnapshot(t)
    <2>1. /\ phase[t] = "observed" /\ phase' = [phase EXCEPT ![t] = "thinking"]
          /\ shown' = [shown EXCEPT ![t] = o]
          /\ UNCHANGED <<runStatus, obs, writes, discard, output>>
      BY <1>5 DEF SkipSnapshot, o
    <2>2. Current(o, draft) => o.ordinal = Ordinal(o.id)
      BY <1>1 DEF Sound, Vouched, Current, Ordinal
    <2> QED
      BY <1>1, <1>3, <2>1, <2>2
  <1> QED
    BY <1>2, <1>4, <1>5

\* The draft tools record what the turn observed.
LEMMA ToolStep ==
    ASSUME DraftInvariant, NEW t \in Turns, DraftTool(t) \/ DiscardTool(t) \/ DraftBesideDiscard(t)
    PROVE  TurnTypes' /\ Ordered(t)' /\ Recalls(t)
  <1> USE DEF DraftInvariant
  <1> DEFINE o == Observation(t)
  <1>1. Ordered(t) /\ Shows(t) /\ Sound(discard[t]) /\ o \in Sighting /\ Sound(o)
        /\ (obs[t] # {} => obs[t] = {o})
    BY ObservationFacts DEF TurnOrder, SoundSightings, ShownIsObserved
  <1> HIDE DEF o
  <1>2. phase[t] = "thinking" /\ writes[t] = {} /\ obs' = [obs EXCEPT ![t] = {o}]
        /\ UNCHANGED <<runStatus, phase, shown, output>>
    BY DEF DraftTool, DiscardTool, DraftBesideDiscard, o
  <1>3. obs[t] = {o} /\ obs'[t] = {o} /\ obs' \in [Turns -> SUBSET Sighting]
    BY <1>1, <1>2 DEF TypeOK, Ordered
  <1>4. \A x \in obs'[t] : Current(x, draft) => shown'[t].ordinal = Ordinal(x.id)
    BY <1>1, <1>2, <1>3 DEF Shows
  <1>5. CASE DraftTool(t)
    <2> DEFINE base == ToolBase(t)
               w == [outcome |-> IF base = NotSeen THEN "created" ELSE "updated",
                     id |-> base.id, rv |-> base.rv, base |-> shown[t].ordinal]
    <2>1. writes' = [writes EXCEPT ![t] = {w}] /\ UNCHANGED discard
      BY <1>5 DEF DraftTool
    <2>2. base = IF discard[t] # NotSeen THEN NotSeen ELSE o
      BY DEF ToolBase, o
    <2>3. base \in Sighting /\ shown[t].ordinal \in Nat
      BY <1>1, <2>2 DEF TypeOK, Sighting, NotSeen
    <2> HIDE DEF base
    <2>4. /\ w \in DraftWrite /\ w.id = base.id /\ w.rv = base.rv /\ w.base = shown[t].ordinal
          /\ base = NotSeen => w.outcome = "created"
          /\ base # NotSeen => w.outcome = "updated"
      BY <2>3 DEF DraftWrite, Sighting
    <2> HIDE DEF w
    <2>5. writes'[t] = {w} /\ writes' \in [Turns -> SUBSET DraftWrite]
      BY <2>1, <2>4 DEF TypeOK
    <2>6. TurnTypes'
      BY <1>2, <1>3, <2>1, <2>5 DEF TypeOK, TurnTypes
    <2>7. Ordered(t)'
      BY <1>1, <1>2, <1>3, <2>1, <2>2, <2>4, <2>5 DEF Ordered
    <2> QED
      BY <1>1, <1>3, <1>4, <2>1, <2>6, <2>7 DEF Recalls
  <1>6. CASE DiscardTool(t)
    <2>1. discard' = [discard EXCEPT ![t] = o] /\ UNCHANGED writes
      BY <1>6 DEF DiscardTool, o
    <2>2. discard'[t] = o /\ discard' \in [Turns -> Sighting]
      BY <1>1, <2>1 DEF TypeOK
    <2>3. TurnTypes'
      BY <1>2, <1>3, <2>1, <2>2 DEF TypeOK, TurnTypes
    <2>4. Ordered(t)'
      BY <1>1, <1>2, <1>3, <2>1, <2>2 DEF Ordered
    <2> QED
      BY <1>1, <1>3, <1>4, <2>2, <2>3, <2>4 DEF Recalls
  <1>7. CASE DraftBesideDiscard(t)
    <2> DEFINE w == [outcome |-> "updated", id |-> o.id, rv |-> o.rv, base |-> shown[t].ordinal]
    <2>1. /\ writes' = [writes EXCEPT ![t] = {w}] /\ discard' = [discard EXCEPT ![t] = o]
          /\ o # NotSeen
      BY <1>7 DEF DraftBesideDiscard, o
    <2>2. discard'[t] = o /\ discard' \in [Turns -> Sighting]
      BY <1>1, <2>1 DEF TypeOK
    <2>3. shown[t].ordinal \in Nat
      BY DEF TypeOK, Sighting
    <2>4. /\ w \in DraftWrite /\ w.id = o.id /\ w.rv = o.rv /\ w.base = shown[t].ordinal
          /\ w.outcome = "updated"
      BY <1>1, <2>3 DEF DraftWrite, Sighting
    <2> HIDE DEF w
    <2>5. writes'[t] = {w} /\ writes' \in [Turns -> SUBSET DraftWrite]
      BY <2>1, <2>4 DEF TypeOK
    <2>6. TurnTypes'
      BY <1>2, <1>3, <2>2, <2>5 DEF TypeOK, TurnTypes
    <2>7. Ordered(t)'
      BY <1>1, <1>2, <1>3, <2>1, <2>2, <2>4, <2>5 DEF Ordered
    <2> QED
      BY <1>1, <1>3, <1>4, <2>2, <2>6, <2>7 DEF Recalls
  <1> QED
    BY <1>5, <1>6, <1>7

\* A turn ends: its status and its phase, nothing else of it.
LEMMA FinishStep ==
    ASSUME DraftInvariant, NEW t \in Turns, FinishRefused(t) \/ FinishPlain(t) \/ FinishDraft(t)
    PROVE  TurnTypes' /\ Ordered(t)' /\ Recalls(t)
  <1> USE DEF DraftInvariant
  <1>1. Ordered(t) /\ Sound(discard[t]) /\ (\A o \in obs[t] : Sound(o)) /\ phase[t] = "concluded"
    BY DEF TurnOrder, SoundSightings, FinishRefused, FinishPlain, FinishDraft
  <1>2. output[t].status \in EndStatus
    BY <1>1 DEF Ordered
  <1>3. PICK s \in EndStatus : runStatus' = [runStatus EXCEPT ![t] = s]
    BY <1>2 DEF FinishRefused, FinishPlain, FinishDraft, Finish, EndStatus
  <1>4. phase' = [phase EXCEPT ![t] = "over"] /\ UNCHANGED <<obs, shown, writes, discard, output>>
    BY DEF FinishRefused, FinishPlain, FinishDraft, Finish
  <1>5. TurnTypes'
    BY <1>3, <1>4 DEF TypeOK, TurnTypes, Phase, RunStatus
  <1>6. phase'[t] = "over" /\ runStatus'[t] \in EndStatus
    BY <1>3, <1>4 DEF TypeOK
  <1>7. Ordered(t)'
    BY <1>1, <1>4, <1>6 DEF Ordered, EndStatus
  <1> QED
    BY <1>1, <1>4, <1>5, <1>6, <1>7 DEF Recalls

\* A command that names a draft has a row of its own in command_idempotency.
LEMMA SlotFacts ==
    ASSUME DraftInvariant, NEW q \in Edits, view[q] # NotSeen
    PROVE  /\ view[q].id \in Drafts /\ view[q].rv \in Nat /\ draft[view[q].id].rv \in Nat
           /\ Slot(q) \in Slots /\ Body(q) \in Nat \X SUBSET Edits
           /\ idem[Slot(q)] \in [body: Nat \X SUBSET Edits, rv: Nat]
  <1> USE DEF DraftInvariant
  <1>1. Sound(view[q]) /\ view[q] \in Sighting
    BY DEF SoundSightings, TypeOK
  <1>2. view[q].id \in Drafts /\ view[q].rv \in Nat
    BY <1>1 DEF Sound, Vouched, Sighting
  <1>3. KindOf[q] \in {"revision", "rejection"} /\ KeyOf[q] \in {KeyOf[x] : x \in Edits}
    BY CommandAssumption
  <1>4. Slot(q) \in Slots
    BY <1>2, <1>3 DEF Slot, Slots
  <1>5. Body(q) \in Nat \X SUBSET Edits
    BY <1>2 DEF Body
  <1> QED
    BY <1>2, <1>4, <1>5 DEF TypeOK, DraftType, Row

\* A command's version is in the draft.
InDraft(q) == \E p \in Drafts : \E i \in 1..Ordinal(p) : history[p][i].by = q

\* A command that has no stored result has no version in the draft.
LEMMA NoResultNoVersion ==
    ASSUME DraftInvariant, NEW q \in Edits, view[q] = NotSeen \/ idem[Slot(q)] = NoRow
    PROVE  ~InDraft(q)
  <1> SUFFICES ASSUME NEW p \in Drafts, NEW i \in 1..Ordinal(p), history[p][i].by = q
               PROVE  FALSE
    BY DEF InDraft
  <1>1. view[q] # NotSeen /\ idem[Slot(q)] = [body |-> Body(q), rv |-> i]
    BY DEF DraftInvariant, Stored
  <1>2. i # 0 /\ idem[Slot(q)].rv = i
    BY <1>1
  <1> QED
    BY <1>1, <1>2 DEF NoRow

\* A command reads the card.
LEMMA ReadStep ==
    ASSUME DraftInvariant, NEW q \in Edits, NEW p \in Drafts, EditRead(q, p)
    PROVE  EditTypes' /\ Stored' /\ \A x \in Edits : Sound(view'[x])
  <1> USE DEF DraftInvariant
  <1>1. Seen(p) \in Sighting /\ Sound(Seen(p))
    BY SeenFacts DEF EditRead
  <1>2. view[q] = NotSeen /\ view' = [view EXCEPT ![q] = Seen(p)]
        /\ UNCHANGED <<draftVars, sends, reply, idem>>
    BY DEF EditRead
  <1>3. EditTypes'
    BY <1>1, <1>2 DEF EditTypes, TypeOK
  <1>4. \A x \in Edits : Sound(view'[x])
    BY <1>1, <1>2 DEF SoundSightings, TypeOK
  <1>5. ~InDraft(q)
    BY <1>2, NoResultNoVersion
  <1>6. \A x \in Edits : InDraft(x) => view'[x] = view[x]
    BY <1>2, <1>5 DEF TypeOK
  <1>7. Stored'
    BY <1>2, <1>6 DEF Stored, InDraft, draftVars, Ordinal, Slot, Body
  <1> QED
    BY <1>3, <1>4, <1>7

\* A command is answered, and nothing is written.
LEMMA AnswerStep ==
    ASSUME DraftInvariant, NEW q \in Edits, EditReplay(q) \/ EditRefused(q)
    PROVE  EditTypes' /\ Stored' /\ \A x \in Edits : Sound(view'[x])
  <1> USE DEF DraftInvariant
  <1>1. view[q] # NotSeen /\ UNCHANGED <<draftVars, view, idem>>
    BY DEF EditReplay, EditRefused, Reply
  <1>2. idem[Slot(q)].rv \in Nat
    BY <1>1, SlotFacts
  <1>3. PICK kind \in {"ok"} \cup Refusals, rv \in Nat :
           /\ Reply(q, kind, rv)
           /\ InDraft(q) => kind = "ok" /\ rv = idem[Slot(q)].rv
    <2>1. CASE EditReplay(q)
      <3>1. InDraft(q) => idem[Slot(q)].body = Body(q)
        <4> SUFFICES ASSUME InDraft(q)
                     PROVE  idem[Slot(q)].body = Body(q)
          OBVIOUS
        <4>1. PICK i : idem[Slot(q)] = [body |-> Body(q), rv |-> i]
          BY DEF InDraft, Stored
        <4> QED
          BY <4>1
      <3> QED
        BY <1>2, <2>1, <3>1 DEF EditReplay, Refusals
    <2>2. CASE EditRefused(q)
      <3>1. ~InDraft(q)
        BY <2>2, NoResultNoVersion DEF EditRefused
      <3>2. RefusalOf(q) \in Refusals
        BY <2>2 DEF EditRefused, RefusalOf, Refusals
      <3> QED
        BY <2>2, <3>1, <3>2 DEF EditRefused
    <2> QED
      BY <2>1, <2>2
  <1>4. /\ reply' = [reply EXCEPT ![q] = [kind |-> kind, rv |-> rv]]
        /\ sends' = [sends EXCEPT ![q] = @ + 1]
    BY <1>3 DEF Reply
  <1>5. EditTypes'
    BY <1>1, <1>4 DEF EditTypes, TypeOK
  <1>6. \A x \in Edits : Sound(view'[x])
    BY <1>1 DEF SoundSightings
  <1>7. \A x \in Edits : InDraft(x) => reply'[x] = reply[x]
    <2> SUFFICES ASSUME InDraft(q)
                 PROVE  [kind |-> kind, rv |-> rv] = reply[q]
      BY <1>4 DEF TypeOK
    <2>1. PICK p \in Drafts : \E i \in 1..Ordinal(p) : history[p][i].by = q
      BY DEF InDraft
    <2>2. PICK i \in 1..Ordinal(p) : history[p][i].by = q
      BY <2>1
    <2>3. idem[Slot(q)] = [body |-> Body(q), rv |-> i] /\ reply[q] = [kind |-> "ok", rv |-> i]
      BY <2>2 DEF Stored
    <2> QED
      BY <1>3, <2>3
  <1>8. Stored'
    BY <1>1, <1>7 DEF Stored, InDraft, draftVars, Ordinal, Slot, Body
  <1> QED
    BY <1>5, <1>6, <1>8

\* A command is applied: its result is stored in the transaction of its version.
LEMMA ApplyStep ==
    ASSUME DraftInvariant, NEW q \in Edits, EditWrites(q)
    PROVE  EditTypes' /\ Stored' /\ \A x \in Edits : Sound(view'[x])
  <1> USE DEF DraftInvariant
  <1>1. /\ view[q] # NotSeen /\ idem[Slot(q)] = NoRow /\ UNCHANGED view
        /\ sends' = [sends EXCEPT ![q] = @ + 1]
    BY DEF EditWrites, Reply
  <1>2. /\ view[q].id \in Drafts /\ draft[view[q].id].rv \in Nat /\ Slot(q) \in Slots
        /\ Body(q) \in Nat \X SUBSET Edits
    BY <1>1, SlotFacts
  <1>3. PICK p \in Drafts : p = view[q].id
    BY <1>2
  <1>4. PICK n \in Nat : n = draft[p].rv + 1
    BY <1>2, <1>3
  <1> DEFINE row == [body |-> Body(q), rv |-> n]
  <1>5. /\ idem' = [idem EXCEPT ![Slot(q)] = row]
         /\ reply' = [reply EXCEPT ![q] = [kind |-> "ok", rv |-> n]]
    BY <1>3, <1>4 DEF EditWrites, Reply
  <1>6. row \in [body: Nat \X SUBSET Edits, rv: Nat]
    BY <1>2
  <1>7. n = Ordinal(p) + 1
    <2>1. draft[p].state = "active"
      BY <1>3, EditMove
    <2>2. draft[p].rv = Ordinal(p) + 0
      BY <2>1 DEF Shaped, VersionCountsWrites
    <2> QED
      BY <1>4, <2>2 DEF TypeOK, DraftType, Ordinal
  <1> HIDE DEF row
  <1>8. EditTypes'
    <2>1. idem' \in [Slots -> [body: Nat \X SUBSET Edits, rv: Nat]]
      BY <1>5, <1>6 DEF TypeOK
    <2> QED
      BY <1>1, <1>5, <2>1 DEF EditTypes, TypeOK
  <1>9. \A x \in Edits : Sound(view'[x])
    BY <1>1 DEF SoundSightings
  <1>10. ~InDraft(q)
    BY <1>1, NoResultNoVersion
  <1>11. ASSUME NEW x \in Edits, InDraft(x)
        PROVE  /\ x # q /\ idem'[Slot(x)] = idem[Slot(x)] /\ reply'[x] = reply[x]
    <2>1. x # q
      BY <1>10, <1>11
    <2>2. view[x] # NotSeen
      BY <1>11 DEF InDraft, Stored
    <2>3. Slot(x) # Slot(q)
      BY <1>1, <1>11, NoResultNoVersion
    <2>4. Slot(x) \in Slots
      BY <2>2, SlotFacts
    <2> QED
      BY <1>5, <2>1, <2>3, <2>4 DEF TypeOK
  <1>12. idem'[Slot(q)] = row /\ reply'[q] = [kind |-> "ok", rv |-> n]
    BY <1>2, <1>5 DEF TypeOK
  <1>13. \A x \in Edits : Slot(x)' = Slot(x) /\ Body(x)' = Body(x)
    BY <1>1 DEF Slot, Body
  <1>14. CASE UNCHANGED history
    <2> SUFFICES ASSUME NEW x \in Edits, NEW k \in Drafts, NEW i \in 1..Ordinal(k)',
                        history'[k][i].by = x
                 PROVE  /\ view'[x] # NotSeen
                        /\ idem'[Slot(x)'] = [body |-> Body(x)', rv |-> i]
                        /\ reply'[x] = [kind |-> "ok", rv |-> i]
      BY <1>8, <1>9 DEF Stored
    <2>1. i \in 1..Ordinal(k) /\ history[k][i].by = x
      BY <1>14 DEF Ordinal
    <2>2. InDraft(x)
      BY <2>1 DEF InDraft
    <2> QED
      BY <1>1, <1>11, <1>13, <2>1, <2>2 DEF Stored
  <1>15. CASE Growing(p, q)
    <2>1. /\ \A k \in Drafts : k # p => history'[k] = history[k]
          /\ Ordinal(p) \in Nat /\ Ordinal(p)' = Ordinal(p) + 1
          /\ \A i \in 1..Ordinal(p) : history'[p][i] = history[p][i]
          /\ history'[p][Ordinal(p) + 1] = [by |-> q, base |-> Ordinal(p)]
      BY <1>15, AddFacts DEF Growing
    <2>2. SUFFICES ASSUME NEW x \in Edits, NEW k \in Drafts, NEW i \in 1..Ordinal(k)',
                          history'[k][i].by = x
                   PROVE  /\ view'[x] # NotSeen
                          /\ idem'[Slot(x)'] = [body |-> Body(x)', rv |-> i]
                          /\ reply'[x] = [kind |-> "ok", rv |-> i]
      BY <1>8, <1>9 DEF Stored
    <2>3. Slot(x)' = Slot(x) /\ Body(x)' = Body(x)
      BY <1>13
    <2>4. CASE i \in 1..Ordinal(k) /\ history'[k][i] = history[k][i]
      <3>1. InDraft(x)
        BY <2>2, <2>4 DEF InDraft
      <3> QED
        BY <1>1, <1>11, <2>2, <2>3, <2>4, <3>1 DEF Stored
    <2>5. CASE k = p /\ i = Ordinal(p) + 1
      <3>1. x = q
        BY <2>1, <2>2, <2>5
      <3>2. i = n
        BY <1>7, <2>5
      <3> QED
        BY <1>1, <1>12, <2>3, <3>1, <3>2 DEF row
    <2>6. \/ i \in 1..Ordinal(k) /\ history'[k][i] = history[k][i]
          \/ k = p /\ i = Ordinal(p) + 1
      <3>1. CASE k # p
        BY <2>1, <2>2, <3>1 DEF Ordinal
      <3>2. CASE k = p
        <4>1. i \in 1..Ordinal(p) \/ i = Ordinal(p) + 1
          BY <2>1, <2>2, <3>2
        <4> QED
          BY <2>1, <3>2, <4>1
      <3> QED
        BY <3>1, <3>2
    <2> QED
      BY <2>4, <2>5, <2>6
  <1> QED
    BY <1>3, <1>8, <1>9, <1>14, <1>15, EditMove DEF Ending

-----------------------------------------------------------------------------
(* The invariant.                                                            *)

\* A turn's version is no command's: results stay as they are stored.
LEMMA StoredElsewhere ==
    ASSUME DraftInvariant, [Next]_vars, UNCHANGED editVars
    PROVE  Stored'
  <1> USE DEF DraftInvariant
  <1>1. UNCHANGED <<view, reply, idem>>
    BY DEF editVars
  <1>2. CASE UNCHANGED history
    BY <1>1, <1>2 DEF Stored, Ordinal, Slot, Body
  <1>3. ASSUME NEW p \in Drafts, NEW t \in Turns, Adds(p, t)
        PROVE  Stored'
    <2>1. /\ \A k \in Drafts : k # p => history'[k] = history[k]
          /\ Ordinal(p) \in Nat /\ Ordinal(p)' = Ordinal(p) + 1
          /\ \A i \in 1..Ordinal(p) : history'[p][i] = history[p][i]
          /\ history'[p][Ordinal(p) + 1] = [by |-> t, base |-> Ordinal(p)]
      BY <1>3, AddFacts
    <2>2. \A k \in Drafts : \A i \in 1..Ordinal(k)' :
             \/ i \in 1..Ordinal(k) /\ history'[k][i] = history[k][i]
             \/ history'[k][i].by \notin Edits
      <3> SUFFICES ASSUME NEW k \in Drafts, NEW i \in 1..Ordinal(k)'
                   PROVE  \/ i \in 1..Ordinal(k) /\ history'[k][i] = history[k][i]
                          \/ history'[k][i].by \notin Edits
        OBVIOUS
      <3>1. CASE k # p
        BY <2>1, <3>1 DEF Ordinal
      <3>2. CASE k = p
        <4>1. i \in 1..Ordinal(p) \/ i = Ordinal(p) + 1
          BY <2>1, <3>2
        <4>2. t \notin Edits
          BY DraftAssumption
        <4> QED
          BY <2>1, <3>2, <4>1, <4>2
      <3> QED
        BY <3>1, <3>2
    <2> QED
      BY <1>1, <2>2 DEF Stored, Slot, Body
  <1>4. ASSUME NEW q \in Edits, EditWrites(q)
        PROVE  FALSE
    <2>1. sends[q] \in Nat /\ sends'[q] = sends[q] + 1 /\ sends' = sends
      BY <1>4 DEF EditWrites, Reply, TypeOK, editVars
    <2> QED
      BY <2>1
  <1> HIDE DEF DraftInvariant
  <1> QED
    BY <1>2, <1>3, <1>4, Moves DEF draftVars, Ending, Growing, Starting

\* Every step of a turn, a command, a promotion or an import keeps the invariant.
LEMMA Inductive ==
    ASSUME DraftInvariant, [Next]_vars
    PROVE  DraftInvariant'
  <1>1. /\ Moved /\ DraftType' /\ Authors'
        /\ TimelineNamesVersions' /\ timeline' \in Seq(Activity)
    BY StepMoves, AuthorsStep, TimelineStep
  <1>2. Shaped' /\ NoLostEdit'
    BY <1>1, ShapedStep, NoLostEditStep DEF DraftInvariant
  <1>3. /\ TurnTypes' /\ EditTypes' /\ Stored' /\ scenario' \in Nat
        /\ \A t \in Turns : Ordered(t)' /\ Recalls(t)
        /\ \A q \in Edits : Sound(view'[q])
    <2>1. ASSUME UNCHANGED turnVars
          PROVE  TurnTypes' /\ \A t \in Turns : Ordered(t)' /\ Recalls(t)
      BY <2>1 DEF turnVars, DraftInvariant, TypeOK, TurnTypes, TurnOrder, Ordered, Recalls,
         SoundSightings, ShownIsObserved, Shows
    <2>2. ASSUME UNCHANGED editVars
          PROVE  EditTypes' /\ Stored' /\ \A q \in Edits : Sound(view'[q])
      BY <2>2, StoredElsewhere DEF editVars, DraftInvariant, TypeOK, EditTypes, SoundSightings
    <2>3. ASSUME NEW t \in Turns, AcceptTurn(t) \/ ClaimTurn(t) \/ TurnStep(t) \/ Crash(t)
          PROVE  /\ TurnTypes' /\ EditTypes' /\ Stored' /\ scenario' \in Nat
                 /\ \A u \in Turns : Ordered(u)' /\ Recalls(u)
                 /\ \A q \in Edits : Sound(view'[q])
      <3>1. TurnTypes' /\ Ordered(t)' /\ Recalls(t)
        BY <2>3, PhaseOnly, SnapshotStep, ToolStep, FinishStep DEF TurnStep
      <3>2. (\A u \in Turns : u # t => Kept(u)) /\ UNCHANGED <<editVars, scenario>>
        BY <2>3, ElsewhereSame DEF DraftInvariant
      <3>3. ASSUME NEW u \in Turns, u # t
            PROVE  Ordered(u)' /\ Recalls(u)
        <4>1. Kept(u)
          BY <3>2, <3>3
        <4>2. Ordered(u) /\ Shows(u) /\ Sound(discard[u]) /\ \A o \in obs[u] : Sound(o)
          BY DEF DraftInvariant, TurnOrder, ShownIsObserved, SoundSightings
        <4>3. Ordered(u)'
          BY <4>1, <4>2 DEF Kept, Ordered
        <4> QED
          BY <4>1, <4>2, <4>3 DEF Kept, Recalls, Shows
      <3>4. scenario' \in Nat
        BY <3>2 DEF DraftInvariant, TypeOK
      <3> QED
        BY <2>2, <3>1, <3>2, <3>3, <3>4
    <2>4. ASSUME NEW q \in Edits,
                 EditReplay(q) \/ EditRefused(q) \/ EditApplied(q)
                   \/ \E p \in Drafts : EditRead(q, p)
          PROVE  /\ EditTypes' /\ Stored' /\ \A x \in Edits : Sound(view'[x])
                 /\ UNCHANGED <<turnVars, scenario>>
      <3>1. EditTypes' /\ Stored' /\ \A x \in Edits : Sound(view'[x])
        BY <2>4, ReadStep, AnswerStep, ApplyStep DEF EditApplied
      <3> QED
        BY <2>4, <3>1 DEF EditReplay, EditRefused, EditApplied, EditWrites, EditRead, Reply
    <2>5. CASE \/ \E p \in Drafts : \E v \in 1..Ordinal(p) : Promote(p, v)
               \/ Reimport \/ UNCHANGED vars
      <3>1. UNCHANGED <<turnVars, editVars>> /\ scenario' \in Nat
        BY <2>5 DEF Promote, Reimport, vars, DraftInvariant, TypeOK
      <3> QED
        BY <2>1, <2>2, <3>1
    <2>6. scenario \in Nat
      BY DEF DraftInvariant, TypeOK
    <2>7. ASSUME NEW q \in Edits, NEW t \in Turns, RevisionStrands(q, t)
          PROVE  /\ TurnTypes' /\ EditTypes' /\ Stored' /\ UNCHANGED scenario
                 /\ \A u \in Turns : Ordered(u)' /\ Recalls(u)
                 /\ \A x \in Edits : Sound(view'[x])
      <3>1. EditTypes' /\ Stored' /\ \A x \in Edits : Sound(view'[x])
        BY <2>7, ApplyStep DEF RevisionStrands
      <3>2. /\ phase' = [phase EXCEPT ![t] = "stranded"] /\ phase[t] = "concluded"
            /\ UNCHANGED <<runStatus, obs, shown, writes, discard, output, scenario>>
        BY <2>7 DEF RevisionStrands, EditWrites, Reply
      <3>3. TurnTypes'
        BY <3>2 DEF DraftInvariant, TypeOK, TurnTypes, Phase
      <3>4. ASSUME NEW u \in Turns
            PROVE  Ordered(u)' /\ Recalls(u)
        <4>1. /\ Ordered(u) /\ Shows(u) /\ Sound(discard[u]) /\ \A o \in obs[u] : Sound(o)
              /\ phase \in [Turns -> Phase]
          BY DEF DraftInvariant, TurnOrder, ShownIsObserved, SoundSightings, TypeOK
        <4>2. phase'[u] = IF u = t THEN "stranded" ELSE phase[u]
          BY <3>2, <4>1
        <4>3. Ordered(u)'
          BY <3>2, <4>1, <4>2 DEF Ordered
        <4> QED
          BY <3>2, <4>1, <4>2, <4>3 DEF Recalls, Shows
      <3> QED
        BY <3>1, <3>2, <3>3, <3>4
    <2> QED
      BY <2>1, <2>3, <2>4, <2>5, <2>6, <2>7 DEF Next
  <1>4. TypeOK'
    BY <1>1, <1>3 DEF TypeOK, TurnTypes, EditTypes
  <1>5. ASSUME NEW s, s \in Sighting, Sound(s)
        PROVE  /\ Vouched(s, draft', history')
               /\ Current(s, draft') => Current(s, draft) /\ Len(history'[s.id]) = Len(history[s.id])
    <2>1. s.rv \in Nat
      BY <1>5 DEF Sighting
    <2> QED
      BY <1>1, <1>5, <2>1, SightingStays DEF DraftInvariant, Sound
  <1>6. SoundSightings'
    BY <1>3, <1>4, <1>5 DEF SoundSightings, Sound, Recalls, TypeOK
  <1>7. ShownIsObserved'
    <2> SUFFICES ASSUME NEW t \in Turns, phase'[t] \in {"thinking", "concluded"},
                        NEW o \in obs'[t], Current(o, draft')
                 PROVE  shown'[t].ordinal = Len(history'[o.id])
      BY DEF ShownIsObserved, Shows, Ordinal
    <2>1. o \in Sighting
      BY <1>4 DEF TypeOK
    <2> QED
      BY <1>3, <1>5, <2>1 DEF Recalls, Ordinal
  <1> QED
    BY <1>1, <1>2, <1>3, <1>4, <1>6, <1>7 DEF DraftInvariant, TurnOrder

\* The conversation before its first message.
LEMMA Initial ==
    ASSUME Init
    PROVE  DraftInvariant
  <1>1. \A p \in Drafts : /\ history[p] = << >> /\ Ordinal(p) = 0
                          /\ draft[p] = Absent /\ Absent.state = "absent" /\ Absent.rv = 0
    BY DEF Init, DraftInit, Ordinal, Absent
  <1>2. Absent \in Row /\ NotSeen \in Sighting /\ NotSeen.id = NoDraft
    BY DEF Absent, Row, State, EndedBy, NotSeen, Sighting
  <1>3. DraftType
    BY <1>2 DEF Init, DraftInit, DraftType
  <1>4. TurnTypes /\ scenario \in Nat /\ timeline \in Seq(Activity)
    BY <1>2 DEF Init, TurnTypes, RunStatus, Phase, NoOutput, Payload, Pin
  <1>5. EditTypes
    BY <1>2 DEF Init, EditTypes, NoRow
  <1>6. TypeOK
    BY <1>3, <1>4, <1>5 DEF TypeOK, TurnTypes, EditTypes
  <1>7. Shaped
    <2>1. 0 \in 0..MaxDrafts /\ \A p \in Drafts : draft[p].state = "absent" <=> p > 0
      BY <1>1, DraftAssumption DEF Drafts
    <2>2. VersionCountsWrites /\ OneWorkingDraft
      BY <1>1 DEF VersionCountsWrites, OneWorkingDraft
    <2> QED
      BY <1>1, <2>1, <2>2 DEF Shaped
  <1>8. Sound(NotSeen)
    BY <1>2 DEF Sound, Vouched
  <1>9. SoundSightings
    BY <1>8 DEF Init, SoundSightings
  <1>10. TurnOrder /\ ShownIsObserved
    BY DEF Init, TurnOrder, Ordered, ShownIsObserved, Shows, EndStatus
  <1>11. \A p \in Drafts : 1..Ordinal(p) = {}
    BY <1>1
  <1>12. Authors /\ Stored /\ NoLostEdit
    BY <1>1, <1>11 DEF Authors, Stored, NoLostEdit
  <1>13. 1..Len(timeline) = {}
    BY DEF Init
  <1>14. TimelineNamesVersions
    BY <1>11, <1>13 DEF TimelineNamesVersions
  <1> QED
    BY <1>6, <1>7, <1>9, <1>10, <1>12, <1>14 DEF DraftInvariant

\* Whatever turns, planners, promotions and imports do and in which order, the
\* invariant holds: for every number of turns and commands, bound and key.
THEOREM DraftInvariantHolds == Spec => []DraftInvariant
  <1>1. Init => DraftInvariant
    BY Initial
  <1>2. DraftInvariant /\ [Next]_vars => DraftInvariant'
    BY Inductive
  <1> QED
    BY <1>1, <1>2, PTL DEF Spec

\* No version overwrites one that its author had not been shown, although the turn
\* and the card compare versions they read long before they write.
THEOREM NoLostEditTheorem == Spec => []NoLostEdit
  <1>1. DraftInvariant => NoLostEdit
    BY DEF DraftInvariant
  <1> QED
    BY <1>1, DraftInvariantHolds, PTL

\* One draft is open, the resource version counts its writes, and the timeline
\* names each version a turn wrote, once.
THEOREM DraftRecordsTheorem == Spec => []DraftRecordsAgree
  <1>1. DraftInvariant => DraftRecordsAgree
    BY DEF DraftInvariant, Shaped, DraftRecordsAgree
  <1> QED
    BY <1>1, DraftInvariantHolds, PTL

\* A planner whose revision is in the draft has been answered with the version it
\* produced, and the replay check answers every repetition the same.
THEOREM AppliedIsAnsweredTheorem == Spec => []AppliedIsAnswered
  <1>1. DraftInvariant => AppliedIsAnswered
    BY ZenonT(30) DEF DraftInvariant, Stored, AppliedIsAnswered
  <1> QED
    BY <1>1, DraftInvariantHolds, PTL

-----------------------------------------------------------------------------
(* The draft ledger.                                                         *)

\* The states and lengths that the ledger sees.
Rows    == [p \in Drafts |-> draft[p].state]
Lengths == [p \in Drafts |-> Ordinal(p)]

\* Every step ends, extends, creates or replaces the open draft, or the planner
\* sees no change.
LEMMA LedgerStep ==
    ASSUME DraftInvariant, [Next]_vars
    PROVE  [Promised!LedgerNext]_<<Rows, Lengths>>
  <1> USE DEF Rows, Lengths
  <1>1. Moved
    BY StepMoves
  <1>2. Promised!Ids = Drafts /\ Promised!Open = {p \in Drafts : draft[p].state = "active"}
    BY DEF Promised!Ids, Promised!Open, Drafts
  <1>3. CASE UNCHANGED draftVars
    BY <1>3 DEF draftVars, Ordinal
  <1>4. ASSUME NEW p \in Drafts, Ending(p)
        PROVE  Promised!LedgerNext
    <2>1. PICK s \in {"rejected", "applied"} : \A k \in Drafts :
             draft'[k].state = IF k = p THEN s ELSE draft[k].state
      BY <1>4 DEF Ending
    <2>2. Rows' = [Rows EXCEPT ![p] = s]
      BY <2>1
    <2>3. Lengths' = Lengths
      BY <1>4 DEF Ending, Ordinal
    <2>4. p \in Promised!Open
      BY <1>2, <1>4 DEF Ending
    <2>5. Promised!End(p, s)
      BY <2>2, <2>3, <2>4 DEF Promised!End
    <2> QED
      BY <1>2, <2>5 DEF Promised!LedgerNext, Promised!Ends
  <1>5. ASSUME NEW p \in Drafts, NEW a \in Author, Growing(p, a)
        PROVE  Promised!LedgerNext
    <2>1. /\ \A k \in Drafts : k # p => history'[k] = history[k]
          /\ Ordinal(p)' = Ordinal(p) + 1
      BY <1>5, AddFacts DEF Growing, DraftInvariant
    <2>2. \A k \in Drafts : Ordinal(k)' = IF k = p THEN Ordinal(k) + 1 ELSE Ordinal(k)
      BY <2>1 DEF Ordinal
    <2>3. Lengths' = [Lengths EXCEPT ![p] = @ + 1]
      BY <2>2
    <2>4. Rows' = Rows
      BY <1>5 DEF Growing
    <2>5. p \in Promised!Open
      BY <1>2, <1>5 DEF Growing
    <2>6. Promised!Extend(p)
      BY <2>3, <2>4, <2>5 DEF Promised!Extend
    <2> QED
      BY <1>2, <2>6 DEF Promised!LedgerNext
  <1>6. ASSUME NEW p \in Drafts, NEW a \in Author, NEW old \in {NoDraft} \cup Drafts,
               Starting(p, a, old)
        PROVE  Promised!LedgerNext
    <2>1. /\ \A k \in Drafts : k # p => history'[k] = history[k]
          /\ Ordinal(p)' = Ordinal(p) + 1
      BY <1>6, AddFacts DEF Starting, DraftInvariant
    <2>2. draft[p].state = "absent" /\ history[p] = << >>
      BY <1>6 DEF Starting, DraftInvariant, Shaped
    <2>3. \A k \in Drafts : Ordinal(k)' = IF k = p THEN 1 ELSE Ordinal(k)
      <3>1. Ordinal(p)' = 1
        BY <2>1, <2>2 DEF Ordinal
      <3> QED
        BY <2>1, <3>1 DEF Ordinal
    <2>4. Lengths' = [Lengths EXCEPT ![p] = 1]
      BY <2>3
    <2>5. CASE old = NoDraft
      <3>1. \A k \in Drafts : draft[k].state # "active" /\ k # old
        BY <1>6, <2>5, DraftAssumption DEF Starting, NoDraft, Drafts
      <3>2. Rows' = [Rows EXCEPT ![p] = "active"]
        BY <1>6, <3>1 DEF Starting
      <3>3. Promised!Open = {}
        BY <1>2, <3>1
      <3>4. Promised!Create(p)
        BY <2>2, <2>4, <3>2, <3>3 DEF Promised!Create
      <3> QED
        BY <1>2, <3>4 DEF Promised!LedgerNext
    <2>6. CASE old # NoDraft
      <3>1. old \in Drafts /\ draft[old].state = "active" /\ old # p
        BY <1>6, <2>2, <2>6 DEF Starting
      <3>2. Rows' = [Rows EXCEPT ![old] = "rejected", ![p] = "active"]
        BY <1>6, <3>1 DEF Starting
      <3>3. old \in Promised!Open
        BY <1>2, <3>1
      <3>4. Promised!Replace(old, p)
        BY <2>2, <2>4, <3>2, <3>3 DEF Promised!Replace
      <3> QED
        BY <1>2, <3>1, <3>4 DEF Promised!LedgerNext
    <2> QED
      BY <2>5, <2>6
  <1> QED
    BY <1>1, <1>3, <1>4, <1>5, <1>6 DEF Moved

\* Turns, commands and promotions together implement the draft lifecycle: one open
\* draft, versions only appended, and a draft that ends once.
THEOREM LedgerTheorem == Spec => ImplementsLedger
  <1>1. Init => Promised!LedgerInit
    BY DEF Init, DraftInit, Promised!LedgerInit, Promised!Ids, Drafts, Absent, Ordinal
  <1>2. DraftInvariant /\ [Next]_vars =>
           [Promised!LedgerNext]_<<[p \in Drafts |-> draft[p].state], [p \in Drafts |-> Ordinal(p)]>>
    BY LedgerStep DEF Rows, Lengths
  <1> QED
    BY <1>1, <1>2, DraftInvariantHolds, PTL DEF Spec, ImplementsLedger, Promised!LedgerSpec
=============================================================================
