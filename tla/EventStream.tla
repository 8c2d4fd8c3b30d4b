------------------------------ MODULE EventStream ------------------------------
(***************************************************************************)
(* One persisted event stream and its readers: the writers append under    *)
(* the aggregate's row lock, GET .../events checks the presented cursor    *)
(* against the head and then replays and follows the stream in batches,    *)
(* one short transaction per poll.  A reader is an API client, which       *)
(* resumes from the last id it received in the Last-Event-ID header or the *)
(* query parameter, or the browser's useConversationStream hook, which     *)
(* seeds its cursor from the timeline window or from session storage,      *)
(* counts failed connections and falls back to polling the timeline.       *)
(*                                                                         *)
(* final = TRUE is a schedule run's stream (is_final closes it), FALSE a   *)
(* conversation's.  The transactions of a poll are READ COMMITTED reads of *)
(* committed events, so events is the committed stream.                    *)
(***************************************************************************)
EXTENDS Naturals, Sequences, FiniteSets, FiniteSetsExt

CONSTANTS
    Writers, Readers,
    ReplayBatch,    \* _REPLAY_BATCH
    Window,         \* the timeline route's limit
    MaxFailures,    \* MAX_CONSECUTIVE_FAILURES
    MaxEvents,      \* bound: events of the stream
    MaxDrops,       \* bound: connections one reader loses
    NoOne

ASSUME StreamAssumption ==
    /\ ReplayBatch \in Nat \ {0} /\ Window \in Nat \ {0} /\ MaxFailures \in Nat \ {0}
    /\ MaxEvents \in Nat /\ MaxDrops \in Nat /\ NoOne \notin Writers

VARIABLES
    final,      \* whether the stream has terminal events
    browsers,   \* the readers that run the hook, which follows conversations only
    events,     \* committed events: sequence -> kind
    lock,       \* the writer holding the aggregate's row
    pending,    \* the sequence a writer has taken, 0 for none
    conn,       \* a reader's connection
    cursor,     \* the generator's cursor of that connection
    batch,      \* what the last poll returned and has not been yielded
    wire,       \* frames yielded and not yet received
    got,        \* the frames the reader received, oldest first (the hook's live)
    seen,       \* the cursor the reader resumes from, 0 for none (cursorRef)
    hook,       \* the rest of the hook's state
    drops

readerVars == <<conn, cursor, batch, wire, got, seen, hook, drops>>
streamVars == <<final, browsers, events, lock, pending>>
vars == <<streamVars, readerVars>>

\* "ended" is a connection that was open and that the server or the network ended.
Conn == {"closed", "polling", "yielding", "ended", "cursor_invalid", "internal_error"}
Refused == {"cursor_invalid", "internal_error"}

\* view: whether the conversation is selected, and its last timeline read
\* succeeded; base: the newest event of the timeline as last read; stored: the
\* session storage's cursor; failures: consecutive failed connections.
Away == [view |-> "away", base |-> 0, stored |-> 0, failures |-> 0]
Hooked(r) == r \in browsers

\* What is appended: a run's stream ends with a terminal event, a conversation's
\* may hold a kind this release cannot read.
Kinds == {"plain", IF final THEN "final" ELSE "unsupported"}

Head0 == Max(DOMAIN events \cup {0})

TypeOK ==
    /\ final \in BOOLEAN /\ browsers \subseteq Readers
    /\ DOMAIN events \subseteq 1..MaxEvents
    /\ \A n \in DOMAIN events : events[n] \in Kinds
    /\ lock \in Writers \cup {NoOne}
    /\ pending \in [Writers -> 0..MaxEvents]
    /\ conn \in [Readers -> Conn]
    /\ cursor \in [Readers -> 0..MaxEvents]
    /\ \A r \in Readers : Len(batch[r]) <= ReplayBatch
    /\ \A r \in Readers : seen[r] <= Head0 /\ hook[r].base <= Head0
    /\ hook \in [Readers -> [view: {"away", "ready", "failed"}, base: 0..MaxEvents,
                             stored: 0..MaxEvents, failures: 0..MaxFailures]]
    /\ drops \in [Readers -> 0..MaxDrops]

Init ==
    /\ final \in BOOLEAN
    /\ browsers \in IF final THEN {{}} ELSE SUBSET Readers
    /\ events = << >>
    /\ lock = NoOne
    /\ pending = [w \in Writers |-> 0]
    /\ conn = [r \in Readers |-> "closed"]
    /\ cursor = [r \in Readers |-> 0]
    /\ batch = [r \in Readers |-> << >>]
    /\ wire = [r \in Readers |-> << >>]
    /\ got = [r \in Readers |-> << >>]
    /\ seen = [r \in Readers |-> 0]
    /\ hook = [r \in Readers |-> Away]
    /\ drops = [r \in Readers |-> 0]

-----------------------------------------------------------------------------
(* Writers.                                                                  *)

\* An ended run emits nothing more: its transitions need a non-terminal run.
Ended == \E n \in DOMAIN events : events[n] = "final"

\* Mutant: the number comes from a sequence object, outside the row lock.
TakeSequenceUnlocked(w) ==
    /\ pending[w] = 0 /\ ~Ended
    /\ \E n \in {Max({Head0} \cup {pending[v] : v \in Writers}) + 1} :
          n <= MaxEvents /\ pending' = [pending EXCEPT ![w] = n]
    /\ UNCHANGED <<final, browsers, events, lock, readerVars>>

\* SELECT ... FOR UPDATE of the aggregate, then max(sequence) + 1.
TakeSequence(w) ==
    /\ lock = NoOne /\ ~Ended /\ Head0 < MaxEvents
    /\ lock' = w
    /\ pending' = [pending EXCEPT ![w] = Head0 + 1]
    /\ UNCHANGED <<final, browsers, events, readerVars>>

\* The insert becomes visible with the commit that releases the row.
CommitEvent(w) ==
    /\ pending[w] # 0
    /\ \E k \in Kinds :
          events' = [n \in DOMAIN events \cup {pending[w]} |->
                        IF n = pending[w] THEN k ELSE events[n]]
    /\ pending' = [pending EXCEPT ![w] = 0]
    /\ lock' = IF lock = w THEN NoOne ELSE lock
    /\ UNCHANGED <<final, browsers, readerVars>>

RollbackEvent(w) ==
    /\ pending[w] # 0
    /\ pending' = [pending EXCEPT ![w] = 0]
    /\ lock' = IF lock = w THEN NoOne ELSE lock
    /\ UNCHANGED <<final, browsers, events, readerVars>>

-----------------------------------------------------------------------------
(* The server side of a connection.                                          *)

\* A cursor as presented: an id of this stream, of another one, or malformed.
Absent    == [form |-> "absent", seq |-> 0]
Empty     == [form |-> "empty", seq |-> 0]
Own(n)    == [form |-> "own", seq |-> n]
Foreign   == [form |-> "foreign", seq |-> 1]
Malformed == [form |-> "malformed", seq |-> 0]

\* Last-Event-ID wins when it says anything.
Presented(header, query) ==
    IF header.form \in {"absent", "empty"} THEN query ELSE header

\* parse_stream_cursor: digits after this stream's own id, and nothing else.
Parsed(raw) == raw.form = "own"

\* Mutant: "nothing outstanding" is taken for a cursor beyond the stream.
BeyondHeadInclusive(n) == n > 0 /\ n >= Head0

\* Only a sequence the stream cannot contain is refused; its head is legal.
BeyondHead(n) == n > Head0

\* The conversation's head is its newest event, which must be readable; the
\* run's head is max(sequence) alone.
HeadUnreadable == ~final /\ Head0 > 0 /\ events[Head0] = "unsupported"

\* conversation_events and schedule_run_events, up to the streaming response.
Open(r, header, query) ==
    LET raw == Presented(header, query) IN
    /\ conn[r] \in {"closed", "ended"}
    /\ IF (raw.form # "absent" /\ ~Parsed(raw))
       THEN /\ conn' = [conn EXCEPT ![r] = "cursor_invalid"]
            /\ UNCHANGED cursor
       ELSE IF HeadUnreadable
       THEN conn' = [conn EXCEPT ![r] = "internal_error"] /\ UNCHANGED cursor
       ELSE IF BeyondHead(raw.seq)
       THEN conn' = [conn EXCEPT ![r] = "cursor_invalid"] /\ UNCHANGED cursor
       ELSE /\ conn' = [conn EXCEPT ![r] = "polling"]
            /\ cursor' = [cursor EXCEPT ![r] = raw.seq]
    /\ UNCHANGED <<streamVars, batch, wire, got, drops>>

\* events_after: the oldest rows past the cursor, ascending, at most a batch.
EventsAfter(n) ==
    LET later == {k \in DOMAIN events : k > n}
        count == Min({ReplayBatch, Cardinality(later)})
    IN [i \in 1..count |->
            CHOOSE k \in later : Cardinality({j \in later : j <= k}) = i]

\* One poll.  Every row of the batch is parsed before any is yielded, so an
\* event this reader predates ends the connection without a frame.
Poll(r) ==
    LET rows == EventsAfter(cursor[r]) IN
    /\ conn[r] = "polling" /\ rows # << >>
    /\ IF \E i \in DOMAIN rows : events[rows[i]] = "unsupported"
       THEN conn' = [conn EXCEPT ![r] = "ended"] /\ UNCHANGED batch
       ELSE /\ conn' = [conn EXCEPT ![r] = "yielding"]
            /\ batch' = [batch EXCEPT ![r] = rows]
    /\ UNCHANGED <<streamVars, cursor, wire, got, seen, hook, drops>>

\* One frame of _event_frames: the cursor moves with it, and a run's terminal
\* event ends the generator, whatever else the batch holds.
Yield(r) ==
    LET n    == Head(batch[r])
        last == final /\ events[n] = "final"
    IN /\ conn[r] = "yielding" /\ batch[r] # << >>
       /\ cursor' = [cursor EXCEPT ![r] = n]
       /\ wire' = [wire EXCEPT ![r] = Append(@, n)]
       /\ batch' = [batch EXCEPT ![r] = IF last THEN << >> ELSE Tail(@)]
       /\ conn' = [conn EXCEPT ![r] = IF last THEN "ended"
                                      ELSE IF Len(batch[r]) = 1 THEN "polling" ELSE @]
       /\ UNCHANGED <<streamVars, got, seen, hook, drops>>

-----------------------------------------------------------------------------
(* Every reader.                                                             *)

\* A frame is dispatched and its id remembered; the hook also stores it and
\* forgets its failures (onFrame).
Receive(r) ==
    LET n == Head(wire[r]) IN
    /\ wire[r] # << >>
    /\ got' = [got EXCEPT ![r] = Append(@, n)]
    /\ seen' = [seen EXCEPT ![r] = n]
    /\ hook' = IF Hooked(r) THEN [hook EXCEPT ![r].stored = n, ![r].failures = 0] ELSE hook
    /\ wire' = [wire EXCEPT ![r] = Tail(@)]
    /\ UNCHANGED <<streamVars, conn, cursor, batch, drops>>

\* The connection breaks, or the hook's idle watchdog closes it: what was
\* yielded and not received is gone.
Drop(r) ==
    /\ drops[r] < MaxDrops /\ conn[r] \in {"polling", "yielding"}
    /\ drops' = [drops EXCEPT ![r] = @ + 1]
    /\ conn' = [conn EXCEPT ![r] = "ended"]
    /\ batch' = [batch EXCEPT ![r] = << >>]
    /\ wire' = [wire EXCEPT ![r] = << >>]
    /\ UNCHANGED <<streamVars, cursor, got, seen, hook>>

-----------------------------------------------------------------------------
(* An API client.                                                            *)

\* An automatic reconnect sends the header; a fresh EventSource cannot, and
\* passes its cursor in the URL, where a proxy may add an empty header.
Connect(r) ==
    /\ ~Hooked(r) /\ wire[r] = << >>
    /\ \/ seen[r] > 0 /\ \E q \in {Absent, Own(seen[r]), Foreign} : Open(r, Own(seen[r]), q)
       \/ seen[r] > 0 /\ \E h \in {Absent, Empty} : Open(r, h, Own(seen[r]))
       \/ seen[r] = 0 /\ \E h \in {Absent, Empty} : Open(r, h, Absent)
    /\ UNCHANGED <<seen, hook>>

\* A stale or edited URL may name another stream or nothing readable.
ConnectWrongly(r) ==
    /\ ~Hooked(r) /\ wire[r] = << >> /\ drops[r] < MaxDrops
    /\ \E q \in {Foreign, Malformed} : Open(r, Absent, q)
    /\ UNCHANGED <<seen, hook>>

\* A refused client tries again with the cursor it has.
StartOver(r) ==
    /\ ~Hooked(r) /\ conn[r] \in Refused /\ drops[r] < MaxDrops
    /\ drops' = [drops EXCEPT ![r] = @ + 1]
    /\ conn' = [conn EXCEPT ![r] = "closed"]
    /\ UNCHANGED <<streamVars, cursor, batch, wire, got, seen, hook>>

-----------------------------------------------------------------------------
(* The hook.                                                                 *)

\* The timeline read: the newest Window events, all of which must be readable.
TimelineReadable ==
    \A n \in DOMAIN events : n + Window > Head0 => events[n] # "unsupported"

\* The conversation is selected and its timeline has been read.
Mount(r) ==
    /\ Hooked(r) /\ hook[r].view = "away" /\ TimelineReadable
    /\ hook' = [hook EXCEPT ![r].view = "ready", ![r].base = Head0]
    /\ UNCHANGED <<streamVars, conn, cursor, batch, wire, got, seen, drops>>

Connectable(r) ==
    /\ Hooked(r) /\ hook[r].view = "ready" /\ conn[r] = "closed"
    /\ hook[r].failures < MaxFailures

\* The cursor to connect with: the last frame's; before the first one, what an
\* earlier visit stored, or else the end of the timeline.
Seed(r) ==
    IF seen[r] > 0 THEN seen[r]
    ELSE IF hook[r].stored > 0 THEN hook[r].stored ELSE hook[r].base

\* new EventSource(url): the cursor travels in the query only; onOpen forgets
\* the failures of a connection that is not refused.
HookConnect(r) ==
    /\ Connectable(r)
    /\ Open(r, Absent, IF Seed(r) > 0 THEN Own(Seed(r)) ELSE Absent)
    /\ seen' = [seen EXCEPT ![r] = Seed(r)]
    /\ hook' = [hook EXCEPT ![r].failures = IF conn'[r] = "polling" THEN 0 ELSE @]

\* A connection that never opens.
HookUnreachable(r) ==
    /\ Connectable(r) /\ drops[r] < MaxDrops
    /\ drops' = [drops EXCEPT ![r] = @ + 1]
    /\ seen' = [seen EXCEPT ![r] = Seed(r)]
    /\ hook' = [hook EXCEPT ![r].failures = @ + 1]
    /\ UNCHANGED <<streamVars, conn, cursor, batch, wire, got>>

\* onError and the watchdog (forceReconnect).  EventSource dispatches what it
\* has received before the error.
HookError(r) ==
    /\ Hooked(r) /\ conn[r] \in Refused \cup {"ended"} /\ wire[r] = << >>
    /\ conn' = [conn EXCEPT ![r] = "closed"]
    /\ hook' = [hook EXCEPT ![r].failures = @ + 1]
    /\ UNCHANGED <<streamVars, cursor, batch, wire, got, seen, drops>>

\* source.close() when the effect is cleaned up.
CloseSource(r) ==
    /\ conn' = [conn EXCEPT ![r] = "closed"]
    /\ batch' = [batch EXCEPT ![r] = << >>]
    /\ wire' = [wire EXCEPT ![r] = << >>]
    /\ UNCHANGED <<streamVars, cursor>>

\* The timeline is read again: after a message was sent, while a turn is in
\* flight, when the tab is looked at, and every 15 s once the stream is given up.
Refetch(r) ==
    /\ Hooked(r) /\ hook[r].view # "away" /\ TimelineReadable
    /\ hook' = [hook EXCEPT ![r].view = "ready", ![r].base = Head0]
    /\ UNCHANGED <<streamVars, conn, cursor, batch, wire, got, seen, drops>>

\* That read fails: the query is no longer a success, which closes the stream
\* without counting a failure; the cursor and the live frames stay.
RefetchFails(r) ==
    /\ Hooked(r) /\ hook[r].view = "ready" /\ drops[r] < MaxDrops
    /\ drops' = [drops EXCEPT ![r] = @ + 1]
    /\ hook' = [hook EXCEPT ![r].view = "failed"]
    /\ CloseSource(r)
    /\ UNCHANGED <<got, seen>>

\* Another conversation is selected: the cursor and the live frames are
\* forgotten, the stored cursor stays.
Leave(r) ==
    /\ Hooked(r) /\ hook[r].view # "away" /\ drops[r] < MaxDrops
    /\ drops' = [drops EXCEPT ![r] = @ + 1]
    /\ hook' = [hook EXCEPT ![r] = [Away EXCEPT !.stored = hook[r].stored]]
    /\ got' = [got EXCEPT ![r] = << >>]
    /\ seen' = [seen EXCEPT ![r] = 0]
    /\ CloseSource(r)

\* updatesAreDelayed: the stream is given up and the timeline polled instead.
Delayed(r) == hook[r].failures >= MaxFailures

Write(w)  == TakeSequence(w) \/ CommitEvent(w) \/ RollbackEvent(w)
Serve(r)  == Poll(r) \/ Yield(r)
Resume(r) == Mount(r) \/ HookConnect(r) \/ HookError(r)

Next ==
    \/ \E w \in Writers : Write(w)
    \/ \E r \in Readers : \/ Serve(r) \/ Receive(r) \/ Drop(r)
                          \/ Connect(r) \/ ConnectWrongly(r) \/ StartOver(r)
                          \/ Resume(r) \/ HookUnreachable(r)
                          \/ Refetch(r) \/ RefetchFails(r) \/ Leave(r)

Spec == Init /\ [][Next]_vars
\* The generator polls every _POLL_INTERVAL_S, a client reconnects by itself, the
\* hook retries and, once it has given up, polls the timeline; a failed read is
\* repeated when the planner looks at the tab.  Nothing forces a writer to append,
\* a planner to stay, or a healthy hook to read the timeline.
FairSpec ==
    /\ Spec
    /\ \A r \in Readers : /\ WF_vars(Serve(r)) /\ WF_vars(Receive(r))
                          /\ WF_vars(Connect(r)) /\ WF_vars(StartOver(r))
                          /\ WF_vars(Resume(r)) /\ WF_vars(Refetch(r) /\ (Delayed(r) \/ hook[r].view = "failed"))
    /\ \A w \in Writers : WF_vars(CommitEvent(w) \/ RollbackEvent(w))

-----------------------------------------------------------------------------
\* The frames a reader received are a stretch of the stream without a gap, a
\* repeat or an inversion, across reconnects, lost frames and concurrent appends:
\* from the first event for an API client, and for the hook from no later than
\* the event after the timeline window it shows them with, whatever cursor an
\* earlier visit stored.
GapFree ==
    TypeOK /\ \A r \in Readers : got[r] # << >> =>
        /\ \A i \in 1..(Len(got[r]) - 1) : got[r][i + 1] = got[r][i] + 1
        /\ seen[r] = got[r][Len(got[r])]
        /\ got[r][1] <= hook[r].base + 1

\* Every event reaches every reader that keeps reconnecting and every open
\* conversation, by the stream or, once it is given up, by the timeline, unless
\* the stream holds an event the reader's release cannot read.
EverythingDelivered ==
    \A r \in Readers : \A n \in 1..MaxEvents :
        (n \in DOMAIN events)
            ~> (\/ seen[r] >= n \/ hook[r].base >= n
                \/ \E k \in DOMAIN events : events[k] = "unsupported")
=============================================================================
