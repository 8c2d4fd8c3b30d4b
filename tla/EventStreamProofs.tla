--------------------------- MODULE EventStreamProofs ---------------------------
(***************************************************************************)
(* Proofs about EventStream, for every set of writers and readers, every   *)
(* batch size and every bound.                                             *)
(*                                                                         *)
(* StreamInvariant is inductive.  Written says that the committed stream   *)
(* has no gap and that a taken number is the next one; Delivery, reader by *)
(* reader, that received, travelling and polled frames join up; Shown that *)
(* the hook never starts beyond the timeline it shows.                     *)
(***************************************************************************)
EXTENDS EventStream, FiniteSetTheorems, SequenceTheorems, TLAPS

\* The writers' part of the types, with what TypeOK does not say of sequences.
Written ==
    /\ \E h \in 0..MaxEvents : DOMAIN events = 1..h
    /\ \A w \in Writers : pending[w] # 0 => lock = w /\ pending[w] = Head0 + 1

\* A run of consecutive numbers after n.
Follows(s, n) == \A i \in 1..Len(s) : s[i] = n + i

\* Frames as sequences of numbers.
FrameTypes ==
    /\ batch \in [Readers -> Seq(Nat)]
    /\ wire \in [Readers -> Seq(Nat)]
    /\ got \in [Readers -> Seq(Nat)]
    /\ seen \in [Readers -> Nat]

\* What a reader will be sent joins what it has received.
Delivery(r) ==
    /\ conn[r] \in {"closed"} \cup Refused => wire[r] = << >>
    /\ conn[r] # "yielding" => batch[r] = << >>
    /\ conn[r] = "yielding" => batch[r] # << >> /\ cursor[r] + Len(batch[r]) <= Head0
    /\ conn[r] \in {"polling", "yielding"} => cursor[r] = seen[r] + Len(wire[r])
    /\ Follows(wire[r], seen[r]) /\ Follows(batch[r], cursor[r])
    /\ seen[r] + Len(wire[r]) <= Head0

\* What it has received is one stretch of the stream, ending at its cursor.
Received(r) ==
    got[r] # << >> =>
        /\ \A i \in 1..(Len(got[r]) - 1) : got[r][i + 1] = got[r][i] + 1
        /\ seen[r] = got[r][Len(got[r])] /\ seen[r] > 0
        /\ got[r][1] <= hook[r].base + 1

\* Before the first frame the cursor is no later than the timeline's end.
Shown(r) ==
    /\ ~Hooked(r) => hook[r] = Away /\ (got[r] = << >> => seen[r] = 0)
    /\ Hooked(r) /\ hook[r].view = "away" =>
          got[r] = << >> /\ seen[r] = 0 /\ conn[r] = "closed"
    /\ Hooked(r) /\ hook[r].view # "away" /\ got[r] = << >> =>
          seen[r] <= hook[r].base /\ hook[r].stored <= hook[r].base
    /\ hook[r].stored <= Head0
    /\ Hooked(r) /\ conn[r] # "closed" => hook[r].failures < MaxFailures

ReaderInvariant(r) == Delivery(r) /\ Received(r) /\ Shown(r)

StreamInvariant ==
    TypeOK /\ Written /\ FrameTypes /\ \A r \in Readers : ReaderInvariant(r)

-----------------------------------------------------------------------------
(* The stream.                                                               *)

\* The largest of 0 and the numbers up to h.
LEMMA MaxInterval ==
    ASSUME NEW h \in Nat
    PROVE  Max((1..h) \cup {0}) = h
  <1>1. h \in (1..h) \cup {0} /\ \A y \in (1..h) \cup {0} : h >= y
    OBVIOUS
  <1>2. \A x \in (1..h) \cup {0} : (\A y \in (1..h) \cup {0} : x >= y) => x = h
    BY <1>1
  <1> QED
    BY <1>1, <1>2 DEF Max

\* The head of a stream without gaps is its length.
LEMMA HeadFacts ==
    ASSUME Written
    PROVE  Head0 \in 0..MaxEvents /\ DOMAIN events = 1..Head0
  <1>1. PICK h \in 0..MaxEvents : DOMAIN events = 1..h
    BY DEF Written
  <1>2. Head0 = h
    BY <1>1, MaxInterval DEF Head0
  <1> QED
    BY <1>1, <1>2

\* Among the numbers past n, those up to k are k - n many.
LEMMA CountUpTo ==
    ASSUME NEW n \in Nat, NEW h \in Nat, NEW k \in (n + 1)..h
    PROVE  Cardinality({j \in (n + 1)..h : j <= k}) = k - n
  <1>1. {j \in (n + 1)..h : j <= k} = (n + 1)..k
    OBVIOUS
  <1>2. k \in Int /\ n + 1 \in Int /\ ~(n + 1 > k)
    OBVIOUS
  <1>3. Cardinality((n + 1)..k) = k - (n + 1) + 1
    BY <1>2, FS_Interval
  <1>4. k - (n + 1) + 1 = k - n
    BY <1>2
  <1> QED
    BY <1>1, <1>3, <1>4, Zenon

\* events_after reads on from the cursor without a gap, at most a batch and
\* never past the head.
LEMMA RowsFollow ==
    ASSUME Written, NEW n \in 0..Head0
    PROVE  /\ EventsAfter(n) \in Seq(Nat)
           /\ Follows(EventsAfter(n), n)
           /\ Len(EventsAfter(n)) <= ReplayBatch
           /\ n + Len(EventsAfter(n)) <= Head0
  <1> DEFINE later == {k \in DOMAIN events : k > n}
             count == Min({ReplayBatch, Cardinality(later)})
  <1>1. Head0 \in Nat /\ DOMAIN events = 1..Head0
    BY HeadFacts, StreamAssumption
  <1>2. later = (n + 1)..Head0
    BY <1>1
  <1>3. Cardinality(later) = Head0 - n
    <2>1. Cardinality((n + 1)..Head0) = IF n + 1 > Head0 THEN 0 ELSE Head0 - (n + 1) + 1
      BY <1>1, FS_Interval
    <2>2. Cardinality((n + 1)..Head0) = Head0 - n
      BY <1>1, <2>1
    <2> QED
      BY <1>2, <2>2, Zenon
  <1>4. count \in Nat /\ count <= ReplayBatch /\ count <= Head0 - n
    <2>1. count = IF ReplayBatch <= Head0 - n THEN ReplayBatch ELSE Head0 - n
      BY <1>1, <1>3, StreamAssumption DEF Min
    <2> QED
      BY <1>1, <2>1, StreamAssumption
  <1>5. EventsAfter(n) = [i \in 1..count |->
            CHOOSE k \in later : Cardinality({j \in later : j <= k}) = i]
    BY DEF EventsAfter
  <1> HIDE DEF later, count
  <1>6. ASSUME NEW i \in 1..count
        PROVE  (CHOOSE k \in later : Cardinality({j \in later : j <= k}) = i) = n + i
    <2>1. n + i \in later
      BY <1>1, <1>2, <1>4
    <2>2. \A k \in later : Cardinality({j \in later : j <= k}) = k - n
      BY <1>1, <1>2, CountUpTo
    <2>3. \A k \in later : Cardinality({j \in later : j <= k}) = i <=> k = n + i
      BY <1>1, <1>2, <1>4, <2>2
    <2> QED
      BY <2>1, <2>3
  <1>7. EventsAfter(n) = [i \in 1..count |-> n + i]
    BY <1>5, <1>6
  <1>8. [i \in 1..count |-> n + i] \in Seq(Nat) /\ Len([i \in 1..count |-> n + i]) = count
    BY <1>1, <1>4
  <1> QED
    BY <1>1, <1>4, <1>7, <1>8 DEF Follows

-----------------------------------------------------------------------------
(* Steps of the writers: the stream grows by its next number.                *)

\* A reader's part of the invariant survives a longer stream.
LEMMA LongerStream ==
    ASSUME StreamInvariant, UNCHANGED <<browsers, readerVars>>,
           Head0' \in Nat, Head0' >= Head0
    PROVE  /\ \A r \in Readers : ReaderInvariant(r)'
           /\ \A r \in Readers : seen'[r] <= Head0' /\ hook'[r].base <= Head0'
           /\ FrameTypes'
  <1>1. Head0 \in Nat
    BY HeadFacts, StreamAssumption DEF StreamInvariant
  <1>2. ASSUME NEW r \in Readers
        PROVE  ReaderInvariant(r)' /\ seen'[r] <= Head0' /\ hook'[r].base <= Head0'
    <2>1. /\ conn[r] \in Conn /\ cursor[r] \in Nat /\ seen[r] \in Nat
          /\ Len(batch[r]) \in Nat /\ Len(wire[r]) \in Nat
          /\ hook[r].base \in Nat /\ hook[r].stored \in Nat
      BY StreamAssumption DEF StreamInvariant, TypeOK, FrameTypes
    <2>2. ReaderInvariant(r) /\ seen[r] <= Head0 /\ hook[r].base <= Head0
      BY DEF StreamInvariant, TypeOK
    <2>3. Delivery(r)'
      BY <1>1, <2>1, <2>2, SMTT(30) DEF ReaderInvariant, Delivery, Follows, readerVars
    <2>4. Received(r)' /\ Shown(r)'
      BY <1>1, <2>1, <2>2 DEF ReaderInvariant, Received, Shown, Hooked, readerVars
    <2> QED
      BY <1>1, <2>1, <2>2, <2>3, <2>4 DEF ReaderInvariant, readerVars
  <1>3. FrameTypes'
    BY DEF StreamInvariant, FrameTypes, readerVars
  <1> QED
    BY <1>2, <1>3

\* Numbers are taken under the row lock and appear in order: a writer's step
\* leaves no gap behind, committed or rolled back.
LEMMA WriteStep ==
    ASSUME StreamInvariant, NEW w \in Writers, Write(w)
    PROVE  StreamInvariant'
  <1>1. /\ TypeOK /\ Written /\ Head0 \in 0..MaxEvents /\ DOMAIN events = 1..Head0
        /\ MaxEvents \in Nat
    BY HeadFacts, StreamAssumption DEF StreamInvariant
  <1>2. UNCHANGED <<final, browsers, readerVars>>
    BY DEF Write, TakeSequence, CommitEvent, RollbackEvent
  <1>3. CASE TakeSequence(w) \/ RollbackEvent(w)
    <2>1. UNCHANGED events
      BY <1>3 DEF TakeSequence, RollbackEvent
    <2>2. Head0' = Head0
      BY <2>1 DEF Head0
    <2>3. /\ lock' \in Writers \cup {NoOne}
          /\ pending' \in [Writers -> 0..MaxEvents]
      <3>1. CASE TakeSequence(w)
        <4>1. Head0 + 1 \in 0..MaxEvents
          BY <1>1, <3>1 DEF TakeSequence
        <4> QED
          BY <1>1, <3>1, <4>1 DEF TypeOK, TakeSequence
      <3>2. CASE RollbackEvent(w)
        BY <1>1, <3>2 DEF TypeOK, RollbackEvent
      <3> QED
        BY <1>3, <3>1, <3>2
    <2>4. Written'
      <3>1. CASE TakeSequence(w)
        <4>1. \A v \in Writers : pending[v] = 0
          BY <1>1, <3>1, StreamAssumption DEF Written, TakeSequence
        <4>2. \A v \in Writers : pending'[v] = IF v = w THEN Head0 + 1 ELSE pending[v]
          BY <1>1, <3>1 DEF TakeSequence, TypeOK
        <4> QED
          BY <1>1, <2>1, <2>2, <3>1, <4>1, <4>2 DEF Written, TakeSequence
      <3>2. CASE RollbackEvent(w)
        <4>1. \A v \in Writers : pending'[v] = IF v = w THEN 0 ELSE pending[v]
          BY <1>1, <3>2 DEF RollbackEvent, TypeOK
        <4> QED
          BY <1>1, <2>1, <2>2, <3>2, <4>1 DEF Written, RollbackEvent
      <3> QED
        BY <1>3, <3>1, <3>2
    <2>5. /\ \A r \in Readers : ReaderInvariant(r)'
          /\ \A r \in Readers : seen'[r] <= Head0' /\ hook'[r].base <= Head0'
          /\ FrameTypes'
      BY <1>1, <1>2, <2>2, LongerStream
    <2>6. TypeOK'
      BY <1>1, <1>2, <2>1, <2>3, <2>5 DEF TypeOK, Kinds, readerVars
    <2> QED
      BY <2>4, <2>5, <2>6 DEF StreamInvariant
  <1>4. CASE CommitEvent(w)
    <2>1. lock = w /\ pending[w] = Head0 + 1 /\ pending[w] \in 0..MaxEvents
      BY <1>1, <1>4 DEF CommitEvent, Written, TypeOK
    <2>2. PICK k \in Kinds : events' = [n \in DOMAIN events \cup {pending[w]} |->
                                          IF n = pending[w] THEN k ELSE events[n]]
      BY <1>4 DEF CommitEvent
    <2>3. DOMAIN events' = 1..(Head0 + 1)
      BY <1>1, <2>1, <2>2
    <2>4. Head0' = Head0 + 1
      <3>1. Head0 + 1 \in Nat
        BY <1>1
      <3> QED
        BY <2>3, <3>1, MaxInterval DEF Head0
    <2>5. \A v \in Writers : pending'[v] = 0
      BY <1>1, <1>4, <2>1 DEF CommitEvent, Written, TypeOK
    <2>6. pending' \in [Writers -> 0..MaxEvents] /\ lock' \in Writers \cup {NoOne}
      BY <1>1, <1>4 DEF CommitEvent, TypeOK
    <2>7. Written'
      BY <1>1, <2>1, <2>3, <2>5 DEF Written
    <2>8. /\ \A r \in Readers : ReaderInvariant(r)'
          /\ \A r \in Readers : seen'[r] <= Head0' /\ hook'[r].base <= Head0'
          /\ FrameTypes'
      BY <1>1, <1>2, <2>4, LongerStream
    <2>9. \A n \in DOMAIN events' : events'[n] \in Kinds'
      BY <1>1, <1>2, <2>2 DEF TypeOK, Kinds
    <2>10. DOMAIN events' \subseteq 1..MaxEvents
      BY <1>1, <2>1, <2>3
    <2>11. TypeOK'
      BY <1>1, <1>2, <2>6, <2>8, <2>9, <2>10 DEF TypeOK, readerVars
    <2> QED
      BY <2>7, <2>8, <2>11 DEF StreamInvariant
  <1> QED
    BY <1>3, <1>4 DEF Write

-----------------------------------------------------------------------------
(* Steps of a reader and of the server side of its connection.               *)

HookType == [view: {"away", "ready", "failed"}, base: 0..MaxEvents,
             stored: 0..MaxEvents, failures: 0..MaxFailures]

\* Nothing of the stream and nothing of the other readers changes.
Touches(r) ==
    /\ UNCHANGED streamVars
    /\ \A k \in Readers \ {r} :
          /\ conn'[k] = conn[k] /\ cursor'[k] = cursor[k] /\ batch'[k] = batch[k]
          /\ wire'[k] = wire[k] /\ got'[k] = got[k] /\ seen'[k] = seen[k]
          /\ hook'[k] = hook[k] /\ drops'[k] = drops[k]

\* The readers' variables keep their types.
ReaderTypes ==
    /\ conn' \in [Readers -> Conn] /\ cursor' \in [Readers -> 0..MaxEvents]
    /\ hook' \in [Readers -> HookType] /\ drops' \in [Readers -> 0..MaxDrops]
    /\ FrameTypes'

\* What is left to show of a step of reader r.
LEMMA ReaderStep ==
    ASSUME StreamInvariant, NEW r \in Readers, Touches(r), ReaderTypes,
           Len(batch'[r]) <= ReplayBatch, seen'[r] <= Head0, hook'[r].base <= Head0,
           ReaderInvariant(r)'
    PROVE  StreamInvariant'
  <1>1. Head0' = Head0 /\ UNCHANGED streamVars
    BY DEF Touches, streamVars, Head0
  <1>2. ASSUME NEW k \in Readers \ {r}
        PROVE  ReaderInvariant(k)'
    <2>1. ReaderInvariant(k)
      BY <1>2 DEF StreamInvariant
    <2> QED
      BY <1>1, <1>2, <2>1
         DEF Touches, ReaderInvariant, Delivery, Received, Shown, Follows, Hooked, streamVars
  <1>3. TypeOK'
    <2>1. \A k \in Readers : Len(batch'[k]) <= ReplayBatch
      BY DEF StreamInvariant, TypeOK, Touches
    <2>2. \A k \in Readers : seen'[k] <= Head0' /\ hook'[k].base <= Head0'
      BY <1>1 DEF StreamInvariant, TypeOK, Touches
    <2>3. /\ final' \in BOOLEAN /\ browsers' \subseteq Readers
          /\ DOMAIN events' \subseteq 1..MaxEvents
          /\ lock' \in Writers \cup {NoOne}
          /\ pending' \in [Writers -> 0..MaxEvents]
      BY <1>1 DEF StreamInvariant, TypeOK, streamVars
    <2>4. \A n \in DOMAIN events' : events'[n] \in Kinds'
      BY <1>1 DEF StreamInvariant, TypeOK, streamVars, Kinds
    <2> QED
      BY <2>1, <2>2, <2>3, <2>4 DEF TypeOK, ReaderTypes, HookType
  <1>4. Written'
    BY <1>1 DEF StreamInvariant, Written, streamVars
  <1> QED
    BY <1>2, <1>3, <1>4 DEF StreamInvariant, ReaderTypes

\* The facts a step of reader r starts from.
LEMMA ReaderFacts ==
    ASSUME StreamInvariant, NEW r \in Readers
    PROVE  /\ Head0 \in Nat /\ Head0 <= MaxEvents /\ MaxEvents \in Nat
           /\ MaxFailures \in Nat /\ MaxDrops \in Nat /\ ReplayBatch \in Nat
           /\ conn \in [Readers -> Conn] /\ cursor \in [Readers -> 0..MaxEvents]
           /\ hook \in [Readers -> HookType] /\ drops \in [Readers -> 0..MaxDrops]
           /\ FrameTypes
           /\ Len(batch[r]) <= ReplayBatch /\ seen[r] <= Head0 /\ hook[r].base <= Head0
           /\ Delivery(r) /\ Received(r) /\ Shown(r)
  <1>1. TypeOK /\ Written /\ FrameTypes /\ ReaderInvariant(r)
    BY DEF StreamInvariant
  <1>2. Head0 \in Nat /\ Head0 <= MaxEvents
    BY <1>1, HeadFacts, StreamAssumption
  <1> QED
    BY <1>1, <1>2, StreamAssumption DEF TypeOK, HookType, ReaderInvariant

\* A sequence is empty when its length is 0.
LEMMA LenZero ==
    ASSUME NEW s \in Seq(Nat)
    PROVE  Len(s) \in Nat /\ (Len(s) = 0 <=> s = << >>)
  BY EmptySeq

\* What appending a number to a sequence of numbers gives.
LEMMA AppendFacts ==
    ASSUME NEW s \in Seq(Nat), NEW n \in Nat
    PROVE  /\ Append(s, n) \in Seq(Nat) /\ Append(s, n) # << >>
           /\ Len(Append(s, n)) = Len(s) + 1
           /\ \A i \in 1..Len(s) : Append(s, n)[i] = s[i]
           /\ Append(s, n)[Len(s) + 1] = n
  OBVIOUS

\* Appending the next number to a run of numbers, and taking its first.
LEMMA RunFacts ==
    ASSUME NEW s \in Seq(Nat), NEW n \in Nat, Follows(s, n)
    PROVE  /\ Append(s, n + Len(s) + 1) \in Seq(Nat)
           /\ Len(Append(s, n + Len(s) + 1)) = Len(s) + 1
           /\ Follows(Append(s, n + Len(s) + 1), n)
           /\ s # << >> =>
                 /\ Head(s) = n + 1 /\ Tail(s) \in Seq(Nat) /\ Len(s) \in Nat \ {0}
                 /\ Len(Tail(s)) = Len(s) - 1 /\ Follows(Tail(s), n + 1)
           /\ Len(s) \in Nat
  <1>1. Len(s) \in Nat /\ n + Len(s) + 1 \in Nat
    OBVIOUS
  <1>2. /\ Append(s, n + Len(s) + 1) \in Seq(Nat)
        /\ Len(Append(s, n + Len(s) + 1)) = Len(s) + 1
    BY <1>1
  <1>3. Follows(Append(s, n + Len(s) + 1), n)
    BY <1>1, <1>2 DEF Follows
  <1>4. ASSUME s # << >>
        PROVE  /\ Head(s) = n + 1 /\ Tail(s) \in Seq(Nat) /\ Len(s) \in Nat \ {0}
               /\ Len(Tail(s)) = Len(s) - 1 /\ Follows(Tail(s), n + 1)
    <2>1. Len(s) \in Nat \ {0}
      BY <1>4, EmptySeq
    <2>2. Head(s) = s[1] /\ s[1] = n + 1
      BY <2>1 DEF Follows
    <2>3. Tail(s) \in Seq(Nat) /\ Len(Tail(s)) = Len(s) - 1
          /\ \A i \in 1..Len(Tail(s)) : Tail(s)[i] = s[i + 1]
      BY <1>4, HeadTailProperties
    <2>4. Follows(Tail(s), n + 1)
      BY <2>1, <2>3 DEF Follows
    <2> QED
      BY <2>1, <2>2, <2>3, <2>4
  <1> QED
    BY <1>1, <1>2, <1>3, <1>4

\* A poll of the generator reads on from its cursor.
LEMMA PollStep ==
    ASSUME StreamInvariant, NEW r \in Readers, Poll(r)
    PROVE  StreamInvariant'
  <1> DEFINE rows == EventsAfter(cursor[r])
  <1>0. Written
    BY DEF StreamInvariant
  <1>1. /\ conn[r] = "polling" /\ rows # << >>
        /\ UNCHANGED <<streamVars, cursor, wire, got, seen, hook, drops>>
        /\ \/ conn' = [conn EXCEPT ![r] = "ended"] /\ UNCHANGED batch
           \/ /\ conn' = [conn EXCEPT ![r] = "yielding"]
              /\ batch' = [batch EXCEPT ![r] = rows]
    BY DEF Poll
  <1>2. /\ rows \in Seq(Nat) /\ Follows(rows, cursor[r]) /\ Len(rows) <= ReplayBatch
        /\ cursor[r] + Len(rows) <= Head0
    <2>1. cursor[r] \in 0..Head0
      BY <1>1, ReaderFacts DEF Delivery, FrameTypes
    <2> QED
      BY <1>0, <2>1, RowsFollow
  <1> HIDE DEF rows
  <1>3. Touches(r) /\ ReaderTypes
    BY <1>1, <1>2, ReaderFacts DEF Touches, ReaderTypes, FrameTypes, Conn
  <1>4. Head0' = Head0
    BY <1>1 DEF Head0, streamVars
  <1>5. Delivery(r)'
    BY <1>1, <1>2, <1>4, ReaderFacts, ZenonT(30) DEF Delivery, FrameTypes, Refused, Follows
  <1>6. Received(r)' /\ Shown(r)'
    BY <1>1, <1>4, ReaderFacts DEF Received, Shown, Hooked, streamVars
  <1>7. Len(batch'[r]) <= ReplayBatch
    BY <1>1, <1>2, ReaderFacts DEF FrameTypes
  <1> QED
    BY <1>1, <1>3, <1>5, <1>6, <1>7, ReaderFacts, ReaderStep DEF ReaderInvariant

\* A frame leaves the batch for the wire and takes the cursor with it.
LEMMA YieldStep ==
    ASSUME StreamInvariant, NEW r \in Readers, Yield(r)
    PROVE  StreamInvariant'
  <1> DEFINE n == Head(batch[r])
             last == final /\ events[n] = "final"
  <1>1. /\ conn[r] = "yielding" /\ batch[r] # << >>
        /\ cursor' = [cursor EXCEPT ![r] = n]
        /\ wire' = [wire EXCEPT ![r] = Append(@, n)]
        /\ batch' = [batch EXCEPT ![r] = IF last THEN << >> ELSE Tail(@)]
        /\ conn' = [conn EXCEPT ![r] = IF last THEN "ended"
                                       ELSE IF Len(batch[r]) = 1 THEN "polling" ELSE @]
        /\ UNCHANGED <<streamVars, got, seen, hook, drops>>
    BY DEF Yield
  <1>2. /\ batch[r] \in Seq(Nat) /\ wire[r] \in Seq(Nat) /\ cursor[r] \in Nat /\ seen[r] \in Nat
        /\ Follows(batch[r], cursor[r]) /\ Follows(wire[r], seen[r])
        /\ cursor[r] = seen[r] + Len(wire[r]) /\ cursor[r] + Len(batch[r]) <= Head0
        /\ Len(wire[r]) \in Nat /\ Len(batch[r]) \in Nat
    <2>1. /\ batch[r] \in Seq(Nat) /\ wire[r] \in Seq(Nat) /\ cursor[r] \in Nat
          /\ seen[r] \in Nat
      BY ReaderFacts DEF FrameTypes
    <2> QED
      BY <1>1, <2>1, LenZero, ReaderFacts DEF Delivery
  <1>3. /\ n = cursor[r] + 1 /\ Tail(batch[r]) \in Seq(Nat) /\ Len(batch[r]) \in Nat \ {0}
        /\ Len(Tail(batch[r])) = Len(batch[r]) - 1 /\ Follows(Tail(batch[r]), n)
    BY <1>1, <1>2, RunFacts
  <1>4. /\ Append(wire[r], n) \in Seq(Nat) /\ Len(Append(wire[r], n)) = Len(wire[r]) + 1
        /\ Follows(Append(wire[r], n), seen[r])
    <2>1. n = seen[r] + Len(wire[r]) + 1
      BY <1>2, <1>3
    <2> QED
      BY <1>2, <2>1, RunFacts
  <1> HIDE DEF n, last
  <1>5. Touches(r)
    BY <1>1, ReaderFacts DEF Touches, FrameTypes
  <1>6. ReaderTypes
    <2>1. n \in 0..MaxEvents
      <3>1. Head0 \in Nat /\ MaxEvents \in Nat /\ Head0 <= MaxEvents
        BY ReaderFacts
      <3> QED
        BY <1>2, <1>3, <3>1
    <2>2. cursor' \in [Readers -> 0..MaxEvents] /\ conn' \in [Readers -> Conn]
      BY <1>1, <2>1, ReaderFacts DEF Conn
    <2>3. wire' \in [Readers -> Seq(Nat)] /\ batch' \in [Readers -> Seq(Nat)]
      BY <1>1, <1>3, <1>4, ReaderFacts, SMTT(30) DEF FrameTypes
    <2> QED
      BY <1>1, <2>2, <2>3, ReaderFacts DEF ReaderTypes, FrameTypes
  <1>7. Head0' = Head0
    BY <1>1 DEF Head0, streamVars
  <1>8. Delivery(r)' /\ Len(batch'[r]) <= ReplayBatch
    <2>1. /\ cursor'[r] = n /\ seen'[r] = seen[r] /\ wire'[r] = Append(wire[r], n)
          /\ batch'[r] = IF last THEN << >> ELSE Tail(batch[r])
          /\ conn'[r] = IF last THEN "ended"
                        ELSE IF Len(batch[r]) = 1 THEN "polling" ELSE "yielding"
      BY <1>1, ReaderFacts DEF FrameTypes
    <2>2. Tail(batch[r]) = << >> <=> Len(Tail(batch[r])) = 0
      BY <1>3, LenZero
    <2>3. Tail(batch[r]) = << >> <=> Len(batch[r]) = 1
      BY <1>3, <2>2
    <2>4. Follows(<< >>, n)
      BY DEF Follows
    <2>5. Len(batch'[r]) <= ReplayBatch
      BY <1>2, <1>3, <2>1, ReaderFacts
    <2>6. Follows(wire'[r], seen'[r]) /\ Follows(batch'[r], cursor'[r])
      BY <1>3, <1>4, <2>1, <2>4
    <2>7. (Follows(wire[r], seen[r]) /\ Follows(batch[r], cursor[r]))'
      BY <2>6 DEF Follows
    <2>8. cursor'[r] = seen'[r] + Len(wire'[r]) /\ seen'[r] + Len(wire'[r]) <= Head0'
      <3>1. Head0 \in Nat
        BY ReaderFacts
      <3>2. Len(wire'[r]) = Len(wire[r]) + 1
        BY <1>4, <2>1
      <3>3. cursor'[r] = cursor[r] + 1 /\ cursor[r] + 1 <= Head0
        BY <1>2, <1>3, <2>1, <3>1
      <3>4. /\ seen[r] \in Nat /\ Len(wire[r]) \in Nat /\ cursor[r] = seen[r] + Len(wire[r])
            /\ seen'[r] = seen[r]
        BY <1>2, <2>1
      <3> QED
        BY <1>7, <3>1, <3>2, <3>3, <3>4
    <2>9. conn'[r] = "yielding" =>
             batch'[r] # << >> /\ cursor'[r] + Len(batch'[r]) <= Head0'
      BY <1>2, <1>3, <1>7, <2>1, <2>3, SMTT(30)
    <2>10. conn'[r] # "yielding" => batch'[r] = << >>
      BY <2>1, <2>3
    <2>11. conn'[r] \notin {"closed"} \cup Refused
      BY <2>1 DEF Refused
    <2> QED
      BY <2>5, <2>7, <2>8, <2>9, <2>10, <2>11 DEF Delivery, Refused
  <1>9. Received(r)' /\ Shown(r)'
    <2>1. conn'[r] # "closed" /\ conn[r] # "closed"
      BY <1>1, ReaderFacts
    <2> QED
      BY <1>1, <1>7, <2>1, ReaderFacts DEF Received, Shown, Hooked, streamVars
  <1> QED
    BY <1>1, <1>5, <1>6, <1>8, <1>9, ReaderFacts, ReaderStep DEF ReaderInvariant

\* A frame is received: the reader's cursor moves to it, and what it has
\* received stays one stretch.
LEMMA ReceiveStep ==
    ASSUME StreamInvariant, NEW r \in Readers, Receive(r)
    PROVE  StreamInvariant'
  <1> DEFINE n == Head(wire[r])
  <1>1. /\ wire[r] # << >>
        /\ got' = [got EXCEPT ![r] = Append(@, n)]
        /\ seen' = [seen EXCEPT ![r] = n]
        /\ hook' = IF Hooked(r) THEN [hook EXCEPT ![r].stored = n, ![r].failures = 0] ELSE hook
        /\ wire' = [wire EXCEPT ![r] = Tail(@)]
        /\ UNCHANGED <<streamVars, conn, cursor, batch, drops>>
    BY DEF Receive
  <1>2. /\ batch[r] \in Seq(Nat) /\ wire[r] \in Seq(Nat) /\ got[r] \in Seq(Nat)
        /\ cursor[r] \in Nat /\ seen[r] \in Nat
        /\ Head0 \in Nat /\ MaxEvents \in Nat /\ Head0 <= MaxEvents
        /\ hook[r] \in HookType /\ hook[r].base \in Nat /\ hook[r].base <= Head0
    BY ReaderFacts DEF FrameTypes, HookType
  <1>3. /\ Follows(wire[r], seen[r]) /\ seen[r] + Len(wire[r]) <= Head0
        /\ conn[r] \in {"polling", "yielding"} => cursor[r] = seen[r] + Len(wire[r])
        /\ conn[r] \notin {"closed"} \cup Refused
    BY <1>1, ReaderFacts DEF Delivery
  <1>4. /\ n = seen[r] + 1 /\ Tail(wire[r]) \in Seq(Nat) /\ Len(wire[r]) \in Nat \ {0}
        /\ Len(Tail(wire[r])) = Len(wire[r]) - 1 /\ Follows(Tail(wire[r]), n)
    BY <1>1, <1>2, <1>3, RunFacts, SMTT(30)
  <1>5. n \in Nat /\ n \in 0..MaxEvents /\ n <= Head0 /\ n > 0
    <2>1. n = seen[r] + 1 /\ Len(wire[r]) \in Nat \ {0} /\ seen[r] + Len(wire[r]) <= Head0
      BY <1>3, <1>4
    <2>2. /\ seen[r] \in Nat /\ Head0 \in Nat /\ MaxEvents \in Nat /\ Head0 <= MaxEvents
      BY <1>2
    <2> HIDE DEF n
    <2> QED
      BY <2>1, <2>2
  <1>6. /\ Append(got[r], n) \in Seq(Nat) /\ Append(got[r], n) # << >>
        /\ Len(Append(got[r], n)) = Len(got[r]) + 1
        /\ \A i \in 1..Len(got[r]) : Append(got[r], n)[i] = got[r][i]
        /\ Append(got[r], n)[Len(got[r]) + 1] = n
    BY <1>2, <1>5, AppendFacts
  <1> HIDE DEF n
  <1>7. hook' \in [Readers -> HookType] /\ \A k \in Readers \ {r} : hook'[k] = hook[k]
    <2>1. CASE ~Hooked(r)
      BY <1>1, <2>1, ReaderFacts
    <2>2. CASE Hooked(r)
      <3>1. hook' = [hook EXCEPT ![r] = [[hook[r] EXCEPT !.stored = n] EXCEPT !.failures = 0]]
        BY <1>1, <2>2, ReaderFacts DEF HookType
      <3>2. 0 \in 0..MaxFailures
        BY ReaderFacts
      <3> QED
        BY <1>2, <1>5, <3>1, <3>2, ReaderFacts DEF HookType
    <2> QED
      BY <2>1, <2>2
  <1>8. /\ hook'[r].base = hook[r].base /\ hook'[r].view = hook[r].view
        /\ hook'[r].stored \in {hook[r].stored, n}
        /\ hook'[r].failures \in {hook[r].failures, 0}
        /\ ~Hooked(r) => hook'[r] = hook[r]
    BY <1>1, <1>2, ReaderFacts DEF HookType
  <1>9. Touches(r)
    BY <1>1, <1>7, ReaderFacts DEF Touches, FrameTypes
  <1>10. ReaderTypes
    BY <1>1, <1>4, <1>5, <1>6, <1>7, ReaderFacts DEF ReaderTypes, FrameTypes
  <1>11. Head0' = Head0
    BY <1>1 DEF Head0, streamVars
  <1>12. /\ wire'[r] = Tail(wire[r]) /\ seen'[r] = n /\ got'[r] = Append(got[r], n)
         /\ cursor'[r] = cursor[r] /\ batch'[r] = batch[r] /\ conn'[r] = conn[r]
    BY <1>1, ReaderFacts DEF FrameTypes
  <1>13. Delivery(r)'
    <2>1. (Follows(wire[r], seen[r]))'
      BY <1>4, <1>12 DEF Follows
    <2>2. (Follows(batch[r], cursor[r]))'
      BY <1>12, ReaderFacts DEF Delivery, Follows
    <2>3. seen'[r] + Len(wire'[r]) = seen[r] + Len(wire[r])
      <3>1. /\ seen'[r] = seen[r] + 1 /\ Len(wire'[r]) = Len(wire[r]) - 1
            /\ seen[r] \in Nat /\ Len(wire[r]) \in Nat
        BY <1>2, <1>4, <1>12
      <3> QED
        BY <3>1
    <2> QED
      BY <1>3, <1>11, <1>12, <2>1, <2>2, <2>3, ReaderFacts DEF Delivery, Refused
  <1>14. Received(r)'
    <2>1. CASE got[r] = << >>
      <3>1. Len(got[r]) = 0 /\ got'[r][1] = n /\ Len(got'[r]) = 1
        BY <1>2, <1>6, <1>12, <2>1
      <3>2. seen[r] <= hook[r].base
        <4>1. CASE ~Hooked(r)
          BY <1>2, <2>1, <4>1, ReaderFacts DEF Shown
        <4>2. CASE Hooked(r)
          BY <1>3, <2>1, <4>2, ReaderFacts DEF Shown
        <4> QED
          BY <4>1, <4>2
      <3>3. got'[r][1] <= hook'[r].base + 1
        BY <1>2, <1>4, <1>8, <3>1, <3>2
      <3> QED
        BY <1>5, <1>12, <3>1, <3>3 DEF Received
    <2>2. CASE got[r] # << >>
      <3>1. Len(got[r]) \in Nat \ {0}
        BY <1>2, <2>2, EmptySeq
      <3>2. /\ \A i \in 1..(Len(got[r]) - 1) : got[r][i + 1] = got[r][i] + 1
            /\ got[r][Len(got[r])] = seen[r] /\ got[r][1] <= hook[r].base + 1
        BY <2>2, ReaderFacts DEF Received
      <3>3. \A i \in 1..(Len(got'[r]) - 1) : got'[r][i + 1] = got'[r][i] + 1
        <4>1. SUFFICES ASSUME NEW i \in 1..Len(got[r])
                       PROVE  got'[r][i + 1] = got'[r][i] + 1
          <5>1. Len(got'[r]) - 1 = Len(got[r])
            BY <1>6, <1>12, <3>1
          <5> QED
            BY <5>1
        <4>2. CASE i = Len(got[r])
          BY <1>4, <1>6, <1>12, <3>2, <4>2
        <4>3. CASE i # Len(got[r])
          <5>1. i \in 1..(Len(got[r]) - 1) /\ i + 1 \in 1..Len(got[r])
            BY <3>1, <4>3
          <5> QED
            BY <1>6, <1>12, <3>2, <5>1
        <4> QED
          BY <4>2, <4>3
      <3>4. got'[r][1] = got[r][1] /\ got'[r][Len(got'[r])] = n
        BY <1>6, <1>12, <3>1
      <3> QED
        BY <1>5, <1>8, <1>12, <3>2, <3>3, <3>4 DEF Received
    <2> QED
      BY <2>1, <2>2
  <1>15. Shown(r)'
    <2>1. Hooked(r)' = Hooked(r)
      BY <1>1 DEF Hooked, streamVars
    <2>2. got'[r] # << >>
      BY <1>6, <1>12
    <2>3. Hooked(r) => hook[r].view # "away"
      BY <1>3, ReaderFacts DEF Shown
    <2>4. hook'[r].stored <= Head0
      BY <1>5, <1>8, ReaderFacts DEF Shown
    <2>5. Hooked(r) => hook'[r].failures < MaxFailures
      BY <1>1, <1>3, <1>8, StreamAssumption, ReaderFacts DEF Shown
    <2>6. ~Hooked(r) => hook'[r] = Away
      BY <1>8, ReaderFacts DEF Shown
    <2> QED
      BY <1>8, <1>11, <2>1, <2>2, <2>3, <2>4, <2>5, <2>6 DEF Shown
  <1> QED
    BY <1>2, <1>5, <1>8, <1>9, <1>10, <1>12, <1>13, <1>14, <1>15, ReaderFacts, ReaderStep
       DEF ReaderInvariant

\* A reader without frames under way, whose connection is as given.
LEMMA QuietDelivery ==
    ASSUME StreamInvariant, NEW r \in Readers, UNCHANGED streamVars,
           wire'[r] = << >>, batch'[r] = << >>, seen'[r] \in Nat, seen'[r] <= Head0,
           conn'[r] # "yielding", conn'[r] = "polling" => cursor'[r] = seen'[r]
    PROVE  Delivery(r)' /\ Len(batch'[r]) <= ReplayBatch
  <1>1. Head0' = Head0
    BY DEF Head0, streamVars
  <1>2. Len(<< >>) = 0 /\ ReplayBatch \in Nat
    BY EmptySeq, ReaderFacts
  <1>3. (Follows(wire[r], seen[r]) /\ Follows(batch[r], cursor[r]))'
    BY <1>2 DEF Follows
  <1>4. seen'[r] + Len(wire'[r]) = seen'[r]
    BY <1>2
  <1> QED
    BY <1>1, <1>2, <1>3, <1>4 DEF Delivery

\* What the route of the stream does with a cursor: refuse it, or follow from it.
LEMMA OpenFacts ==
    ASSUME StreamInvariant, NEW r \in Readers, NEW header, NEW query, Open(r, header, query),
           Presented(header, query).seq \in Nat
    PROVE  /\ UNCHANGED <<streamVars, batch, wire, got, drops>>
           /\ conn[r] \in {"closed", "ended"} /\ batch[r] = << >>
           /\ conn' \in [Readers -> Conn] /\ cursor' \in [Readers -> 0..MaxEvents]
           /\ \A k \in Readers \ {r} : conn'[k] = conn[k] /\ cursor'[k] = cursor[k]
           /\ conn'[r] \in {"polling"} \cup Refused
           /\ conn'[r] = "polling" =>
                 /\ cursor'[r] = Presented(header, query).seq
                 /\ Presented(header, query).seq <= Head0
                 /\ Presented(header, query).form \in {"absent", "own"}
  <1> DEFINE raw == Presented(header, query)
  <1>1. /\ conn[r] \in {"closed", "ended"} /\ UNCHANGED <<streamVars, batch, wire, got, drops>>
        /\ \/ \E c \in Refused : conn' = [conn EXCEPT ![r] = c] /\ UNCHANGED cursor
           \/ /\ ~(raw.form # "absent" /\ ~Parsed(raw)) /\ ~BeyondHead(raw.seq)
              /\ conn' = [conn EXCEPT ![r] = "polling"]
              /\ cursor' = [cursor EXCEPT ![r] = raw.seq]
    BY DEF Open, Refused
  <1> HIDE DEF raw
  <1>2. ~(raw.form # "absent" /\ ~Parsed(raw)) => raw.form \in {"absent", "own"}
    BY DEF Parsed
  <1>3. Head0 \in Nat /\ Head0 <= MaxEvents /\ MaxEvents \in Nat
        /\ conn \in [Readers -> Conn] /\ cursor \in [Readers -> 0..MaxEvents]
        /\ batch[r] = << >>
    BY <1>1, ReaderFacts DEF Delivery
  <1>4. raw.seq \in Nat
    BY DEF raw
  <1>5. ~BeyondHead(raw.seq) => raw.seq <= Head0 /\ raw.seq \in 0..MaxEvents
    BY <1>3, <1>4 DEF BeyondHead
  <1>6. CASE \E c \in Refused : conn' = [conn EXCEPT ![r] = c] /\ UNCHANGED cursor
    BY <1>1, <1>3, <1>6 DEF Refused, Conn
  <1>7. CASE /\ ~(raw.form # "absent" /\ ~Parsed(raw)) /\ ~BeyondHead(raw.seq)
             /\ conn' = [conn EXCEPT ![r] = "polling"]
             /\ cursor' = [cursor EXCEPT ![r] = raw.seq]
    <2>1. cursor' \in [Readers -> 0..MaxEvents] /\ conn' \in [Readers -> Conn]
      BY <1>3, <1>5, <1>7 DEF Conn
    <2>2. /\ conn'[r] = "polling" /\ cursor'[r] = raw.seq
          /\ \A k \in Readers \ {r} : conn'[k] = conn[k] /\ cursor'[k] = cursor[k]
      BY <1>3, <1>7
    <2> QED
      BY <1>1, <1>2, <1>3, <1>5, <1>7, <2>1, <2>2 DEF raw
  <1> QED
    BY <1>1, <1>6, <1>7

\* An API client connects: with the id it last received, or from the beginning.
LEMMA ConnectStep ==
    ASSUME StreamInvariant, NEW r \in Readers, Connect(r) \/ ConnectWrongly(r)
    PROVE  StreamInvariant'
  <1>1. ~Hooked(r) /\ wire[r] = << >> /\ UNCHANGED <<seen, hook>>
    BY DEF Connect, ConnectWrongly
  <1>2. seen[r] \in Nat /\ seen[r] <= Head0 /\ wire \in [Readers -> Seq(Nat)]
    BY ReaderFacts DEF FrameTypes
  <1>3. PICK h, q :
           /\ Open(r, h, q) /\ Presented(h, q).seq \in Nat
           /\ Presented(h, q).form \in {"absent", "own"} => Presented(h, q).seq = seen[r]
    <2>1. CASE ConnectWrongly(r)
      BY <2>1 DEF ConnectWrongly, Absent, Foreign, Malformed, Presented
    <2>2. CASE Connect(r)
      <3>1. CASE seen[r] > 0 /\ \E q \in {Absent, Own(seen[r]), Foreign} : Open(r, Own(seen[r]), q)
        BY <1>2, <3>1 DEF Own, Presented
      <3>2. CASE seen[r] > 0 /\ \E h \in {Absent, Empty} : Open(r, h, Own(seen[r]))
        BY <1>2, <3>2 DEF Own, Absent, Empty, Presented
      <3>3. CASE seen[r] = 0 /\ \E h \in {Absent, Empty} : Open(r, h, Absent)
        BY <1>2, <3>3 DEF Absent, Empty, Presented
      <3> QED
        BY <2>2, <3>1, <3>2, <3>3 DEF Connect
    <2> QED
      BY <2>1, <2>2
  <1>4. /\ UNCHANGED <<streamVars, batch, wire, got, drops>>
        /\ batch[r] = << >>
        /\ conn' \in [Readers -> Conn] /\ cursor' \in [Readers -> 0..MaxEvents]
        /\ \A k \in Readers \ {r} : conn'[k] = conn[k] /\ cursor'[k] = cursor[k]
        /\ conn'[r] \in {"polling"} \cup Refused
        /\ conn'[r] = "polling" => cursor'[r] = seen[r]
    BY <1>3, OpenFacts
  <1>5. Touches(r)
    BY <1>1, <1>4 DEF Touches
  <1>6. ReaderTypes
    BY <1>1, <1>4, ReaderFacts DEF ReaderTypes, FrameTypes
  <1>7. Delivery(r)' /\ Len(batch'[r]) <= ReplayBatch
    BY <1>1, <1>2, <1>4, QuietDelivery DEF Refused
  <1>8. Head0' = Head0 /\ Hooked(r)' = Hooked(r)
    BY <1>4 DEF Head0, Hooked, streamVars
  <1>9. Received(r)' /\ Shown(r)'
    BY <1>1, <1>4, <1>8, ReaderFacts DEF Received, Shown
  <1> QED
    BY <1>1, <1>5, <1>6, <1>7, <1>9, ReaderFacts, ReaderStep DEF ReaderInvariant

\* A connection breaks, or a refused client gives its connection up: what was
\* under way is gone, what was received stays.
LEMMA DropStep ==
    ASSUME StreamInvariant, NEW r \in Readers, Drop(r) \/ StartOver(r)
    PROVE  StreamInvariant'
  <1>1. /\ drops[r] < MaxDrops /\ drops' = [drops EXCEPT ![r] = @ + 1]
        /\ UNCHANGED <<streamVars, cursor, got, seen, hook>>
    BY DEF Drop, StartOver
  <1>2. \/ /\ conn' = [conn EXCEPT ![r] = "ended"] /\ conn[r] # "closed"
           /\ batch' = [batch EXCEPT ![r] = << >>] /\ wire' = [wire EXCEPT ![r] = << >>]
        \/ /\ conn' = [conn EXCEPT ![r] = "closed"] /\ UNCHANGED <<batch, wire>>
           /\ conn[r] \in Refused /\ ~Hooked(r)
    BY DEF Drop, StartOver
  <1>3. /\ wire'[r] = << >> /\ batch'[r] = << >> /\ conn'[r] \in {"ended", "closed"}
        /\ seen'[r] = seen[r] /\ seen[r] \in Nat /\ seen[r] <= Head0
    BY <1>1, <1>2, ReaderFacts DEF FrameTypes, Delivery, Refused
  <1>4. Touches(r)
    BY <1>1, <1>2, ReaderFacts DEF Touches, FrameTypes
  <1>5. ReaderTypes
    <2>1. drops' \in [Readers -> 0..MaxDrops]
      BY <1>1, ReaderFacts
    <2>2. << >> \in Seq(Nat)
      BY EmptySeq
    <2> QED
      BY <1>1, <1>2, <2>1, <2>2, ReaderFacts, ZenonT(30) DEF ReaderTypes, FrameTypes, Conn
  <1>6. Delivery(r)' /\ Len(batch'[r]) <= ReplayBatch
    BY <1>1, <1>3, QuietDelivery
  <1>7. Head0' = Head0 /\ Hooked(r)' = Hooked(r)
    BY <1>1 DEF Head0, Hooked, streamVars
  <1>8. Received(r)'
    BY <1>1, <1>7, ReaderFacts DEF Received
  <1>9. Shown(r)'
    BY <1>1, <1>2, <1>3, <1>7, ReaderFacts DEF Shown
  <1> QED
    BY <1>1, <1>4, <1>5, <1>6, <1>8, <1>9, ReaderFacts, ReaderStep DEF ReaderInvariant

\* The conversation is opened or its timeline read again: the frames the hook
\* holds join a timeline that only grows.
LEMMA TimelineStep ==
    ASSUME StreamInvariant, NEW r \in Readers, Mount(r) \/ Refetch(r)
    PROVE  StreamInvariant'
  <1>1. /\ Hooked(r) /\ hook' = [hook EXCEPT ![r].view = "ready", ![r].base = Head0]
        /\ UNCHANGED <<streamVars, conn, cursor, batch, wire, got, seen, drops>>
    BY DEF Mount, Refetch
  <1>2. /\ hook[r] \in HookType /\ Head0 \in 0..MaxEvents /\ hook[r].base <= Head0
        /\ hook[r].base \in Nat /\ hook[r].stored \in Nat /\ Head0 \in Nat /\ seen[r] \in Nat
        /\ seen[r] <= Head0
    BY ReaderFacts DEF HookType, FrameTypes
  <1>3. hook' = [hook EXCEPT ![r] = [[hook[r] EXCEPT !.view = "ready"] EXCEPT !.base = Head0]]
    BY <1>1, ReaderFacts DEF HookType
  <1>4. hook' \in [Readers -> HookType] /\ \A k \in Readers \ {r} : hook'[k] = hook[k]
    BY <1>2, <1>3, ReaderFacts DEF HookType
  <1>5. /\ hook'[r].base = Head0 /\ hook'[r].view = "ready"
        /\ hook'[r].stored = hook[r].stored /\ hook'[r].failures = hook[r].failures
    BY <1>2, <1>3, ReaderFacts DEF HookType
  <1>6. Touches(r)
    BY <1>1, <1>4 DEF Touches
  <1>7. ReaderTypes
    BY <1>1, <1>4, ReaderFacts DEF ReaderTypes, FrameTypes
  <1>8. Head0' = Head0 /\ Hooked(r)' = Hooked(r)
    BY <1>1 DEF Head0, Hooked, streamVars
  <1>9. Delivery(r)'
    BY <1>1, <1>8, ReaderFacts DEF Delivery, Follows
  <1>10. Received(r)'
    <2>1. ASSUME got[r] # << >>
          PROVE  got[r][1] <= Head0 + 1
      <3>1. got[r][1] <= hook[r].base + 1
        BY <2>1, ReaderFacts DEF Received
      <3>2. got[r][1] \in Nat
        <4>1. got[r] \in Seq(Nat)
          BY ReaderFacts DEF FrameTypes
        <4>2. Len(got[r]) \in Nat /\ Len(got[r]) # 0
          BY <2>1, <4>1, LenZero
        <4> QED
          BY <4>1, <4>2, ElementOfSeq
      <3> QED
        BY <1>2, <3>1, <3>2
    <2> QED
      BY <1>1, <1>5, <2>1, ReaderFacts DEF Received
  <1>11. Shown(r)'
    BY <1>1, <1>2, <1>5, <1>8, ReaderFacts DEF Shown
  <1> QED
    BY <1>1, <1>2, <1>5, <1>6, <1>7, <1>9, <1>10, <1>11, ReaderFacts, ReaderStep
       DEF ReaderInvariant

\* Where the hook connects: at its last frame, or else no later than the end of
\* the timeline, whatever cursor an earlier visit stored.
LEMMA SeedFacts ==
    ASSUME StreamInvariant, NEW r \in Readers, Hooked(r), hook[r].view = "ready"
    PROVE  /\ Seed(r) \in Nat /\ Seed(r) <= Head0
           /\ got[r] # << >> => Seed(r) = seen[r]
           /\ got[r] = << >> => Seed(r) <= hook[r].base
  <1>1. /\ seen[r] \in Nat /\ hook[r].stored \in Nat /\ hook[r].base \in Nat /\ Head0 \in Nat
        /\ seen[r] <= Head0 /\ hook[r].stored <= Head0 /\ hook[r].base <= Head0
    BY ReaderFacts DEF FrameTypes, HookType, Shown
  <1>2. got[r] = << >> => seen[r] <= hook[r].base /\ hook[r].stored <= hook[r].base
    BY ReaderFacts DEF Shown
  <1>3. got[r] # << >> => seen[r] > 0
    BY ReaderFacts DEF Received
  <1> QED
    BY <1>1, <1>2, <1>3 DEF Seed

\* new EventSource(url), whether or not the server can be reached.
LEMMA HookConnectStep ==
    ASSUME StreamInvariant, NEW r \in Readers, HookConnect(r) \/ HookUnreachable(r)
    PROVE  StreamInvariant'
  <1>1. /\ Hooked(r) /\ hook[r].view = "ready" /\ conn[r] = "closed"
        /\ hook[r].failures < MaxFailures /\ seen' = [seen EXCEPT ![r] = Seed(r)]
        /\ \/ conn'[r] # "closed" /\ \/ hook' = [hook EXCEPT ![r].failures = 0]
                                     \/ hook' = [hook EXCEPT ![r].failures = @]
           \/ conn'[r] = "closed" /\ hook' = [hook EXCEPT ![r].failures = @ + 1]
    <2>1. CASE HookUnreachable(r)
      BY <2>1 DEF HookUnreachable, Connectable
    <2>2. CASE HookConnect(r)
      <3>1. Hooked(r) /\ hook[r].view = "ready"
        BY <2>2 DEF HookConnect, Connectable
      <3>2. Seed(r) \in Nat
        BY <3>1, SeedFacts
      <3>3. conn'[r] # "closed"
        <4>1. CASE Seed(r) > 0
          BY <2>2, <3>2, <4>1, OpenFacts DEF HookConnect, Own, Absent, Presented, Refused
        <4>2. CASE ~(Seed(r) > 0)
          BY <2>2, <3>2, <4>2, OpenFacts DEF HookConnect, Own, Absent, Presented, Refused
        <4> QED
          BY <4>1, <4>2
      <3>4. \/ hook' = [hook EXCEPT ![r].failures = 0]
            \/ hook' = [hook EXCEPT ![r].failures = @]
        <4>1. CASE conn'[r] = "polling"
          BY <2>2, <4>1 DEF HookConnect
        <4>2. CASE conn'[r] # "polling"
          BY <2>2, <4>2 DEF HookConnect
        <4> QED
          BY <4>1, <4>2
      <3> QED
        BY <2>2, <3>3, <3>4 DEF HookConnect, Connectable
    <2> QED
      BY <2>1, <2>2
  <1>2. /\ Seed(r) \in Nat /\ Seed(r) <= Head0
        /\ got[r] # << >> => Seed(r) = seen[r]
        /\ got[r] = << >> => Seed(r) <= hook[r].base
    BY <1>1, SeedFacts
  <1>3. /\ UNCHANGED <<streamVars, batch, wire, got>>
        /\ conn' \in [Readers -> Conn] /\ cursor' \in [Readers -> 0..MaxEvents]
        /\ drops' \in [Readers -> 0..MaxDrops]
        /\ \A k \in Readers \ {r} :
              conn'[k] = conn[k] /\ cursor'[k] = cursor[k] /\ drops'[k] = drops[k]
        /\ conn'[r] \in {"closed", "polling"} \cup Refused
        /\ conn'[r] = "polling" => cursor'[r] = Seed(r)
    <2>1. CASE HookUnreachable(r)
      <3>1. /\ drops' = [drops EXCEPT ![r] = @ + 1] /\ drops[r] < MaxDrops
            /\ UNCHANGED <<streamVars, conn, cursor, batch, wire, got>>
        BY <2>1 DEF HookUnreachable
      <3>2. drops' \in [Readers -> 0..MaxDrops]
        BY <3>1, ReaderFacts
      <3> QED
        BY <1>1, <3>1, <3>2, ReaderFacts
    <2>2. CASE HookConnect(r)
      <3>1. PICK q : Open(r, Absent, q) /\ q.seq = Seed(r)
        BY <1>2, <2>2 DEF HookConnect, Own, Absent
      <3>2. Presented(Absent, q) = q
        BY DEF Presented, Absent
      <3> QED
        BY <1>2, <3>1, <3>2, OpenFacts, ReaderFacts
    <2> QED
      BY <2>1, <2>2
  <1>4. wire[r] = << >> /\ batch[r] = << >>
    BY <1>1, ReaderFacts DEF Delivery
  <1>5. PICK f \in 0..MaxFailures :
           /\ hook' = [hook EXCEPT ![r].failures = f]
           /\ conn'[r] # "closed" => f < MaxFailures
    <2>1. /\ hook[r].failures \in 0..MaxFailures /\ MaxFailures \in Nat
          /\ 0 < MaxFailures
      BY ReaderFacts, StreamAssumption DEF HookType
    <2>2. hook[r].failures + 1 \in 0..MaxFailures
      BY <1>1, <2>1
    <2> QED
      BY <1>1, <2>1, <2>2
  <1>6. /\ hook' \in [Readers -> HookType] /\ \A k \in Readers \ {r} : hook'[k] = hook[k]
        /\ hook'[r].view = "ready" /\ hook'[r].base = hook[r].base
        /\ hook'[r].stored = hook[r].stored /\ hook'[r].failures = f
    BY <1>1, <1>5, ReaderFacts DEF HookType
  <1>7. /\ seen'[r] = Seed(r) /\ seen' \in [Readers -> Nat]
        /\ \A k \in Readers \ {r} : seen'[k] = seen[k]
    BY <1>1, <1>2, ReaderFacts DEF FrameTypes
  <1>8. Touches(r)
    BY <1>3, <1>6, <1>7 DEF Touches
  <1>9. ReaderTypes
    BY <1>3, <1>6, <1>7, ReaderFacts DEF ReaderTypes, FrameTypes
  <1>10. Delivery(r)' /\ Len(batch'[r]) <= ReplayBatch
    BY <1>2, <1>3, <1>4, <1>7, QuietDelivery DEF Refused
  <1>11. Head0' = Head0 /\ Hooked(r)' = Hooked(r)
    BY <1>3 DEF Head0, Hooked, streamVars
  <1>12. Received(r)'
    BY <1>2, <1>3, <1>6, <1>7, ReaderFacts DEF Received
  <1>13. Shown(r)'
    BY <1>1, <1>2, <1>3, <1>5, <1>6, <1>7, <1>11, ReaderFacts DEF Shown
  <1> QED
    BY <1>2, <1>6, <1>7, <1>8, <1>9, <1>10, <1>12, <1>13, ReaderFacts, ReaderStep
       DEF ReaderInvariant

\* onError and forceReconnect: the failure is counted and the cursor kept.
LEMMA HookErrorStep ==
    ASSUME StreamInvariant, NEW r \in Readers, HookError(r)
    PROVE  StreamInvariant'
  <1>1. /\ Hooked(r) /\ conn[r] \in Refused \cup {"ended"} /\ wire[r] = << >>
        /\ conn' = [conn EXCEPT ![r] = "closed"]
        /\ hook' = [hook EXCEPT ![r].failures = @ + 1]
        /\ UNCHANGED <<streamVars, cursor, batch, wire, got, seen, drops>>
    BY DEF HookError
  <1>2. hook[r].failures + 1 \in 0..MaxFailures
    <2>1. hook[r].failures < MaxFailures
      BY <1>1, ReaderFacts DEF Shown, Refused
    <2>2. hook[r].failures \in Nat /\ MaxFailures \in Nat
      BY ReaderFacts DEF HookType
    <2> QED
      BY <2>1, <2>2
  <1>3. /\ hook' \in [Readers -> HookType] /\ \A k \in Readers \ {r} : hook'[k] = hook[k]
        /\ hook'[r].view = hook[r].view /\ hook'[r].base = hook[r].base
        /\ hook'[r].stored = hook[r].stored
    BY <1>1, <1>2, ReaderFacts DEF HookType
  <1>4. /\ conn' \in [Readers -> Conn] /\ conn'[r] = "closed"
        /\ \A k \in Readers \ {r} : conn'[k] = conn[k]
    BY <1>1, ReaderFacts DEF Conn
  <1>5. Touches(r)
    BY <1>1, <1>3, <1>4 DEF Touches
  <1>6. ReaderTypes
    BY <1>1, <1>3, <1>4, ReaderFacts DEF ReaderTypes, FrameTypes
  <1>7. Delivery(r)' /\ Len(batch'[r]) <= ReplayBatch
    <2>1. batch[r] = << >> /\ seen[r] \in Nat /\ seen[r] <= Head0
      BY <1>1, ReaderFacts DEF Delivery, FrameTypes, Refused
    <2> QED
      BY <1>1, <1>4, <2>1, QuietDelivery
  <1>8. Head0' = Head0 /\ Hooked(r)' = Hooked(r)
    BY <1>1 DEF Head0, Hooked, streamVars
  <1>9. Received(r)' /\ Shown(r)'
    BY <1>1, <1>3, <1>4, <1>8, ReaderFacts DEF Received, Shown
  <1> QED
    BY <1>1, <1>3, <1>5, <1>6, <1>7, <1>9, ReaderFacts, ReaderStep DEF ReaderInvariant

\* The timeline cannot be read, or another conversation is selected: the source
\* is closed, and only the stored cursor outlives the visit.
LEMMA CloseStep ==
    ASSUME StreamInvariant, NEW r \in Readers, RefetchFails(r) \/ Leave(r)
    PROVE  StreamInvariant'
  <1>1. /\ Hooked(r) /\ drops[r] < MaxDrops /\ drops' = [drops EXCEPT ![r] = @ + 1]
        /\ CloseSource(r) /\ hook[r].view # "away"
    BY DEF RefetchFails, Leave
  <1>2. \/ UNCHANGED <<got, seen>> /\ hook' = [hook EXCEPT ![r].view = "failed"]
        \/ /\ got' = [got EXCEPT ![r] = << >>] /\ seen' = [seen EXCEPT ![r] = 0]
           /\ hook' = [hook EXCEPT ![r] = [Away EXCEPT !.stored = hook[r].stored]]
    BY DEF RefetchFails, Leave
  <1>3. << >> \in Seq(Nat) /\ 0 \in 0..MaxEvents /\ 0 \in 0..MaxFailures
    BY EmptySeq, ReaderFacts
  <1>4. /\ conn' \in [Readers -> Conn] /\ conn'[r] = "closed"
        /\ batch' \in [Readers -> Seq(Nat)] /\ batch'[r] = << >>
        /\ wire' \in [Readers -> Seq(Nat)] /\ wire'[r] = << >>
        /\ UNCHANGED <<streamVars, cursor>>
        /\ \A k \in Readers \ {r} :
              conn'[k] = conn[k] /\ batch'[k] = batch[k] /\ wire'[k] = wire[k]
    BY <1>1, <1>3, ReaderFacts DEF CloseSource, Conn, FrameTypes
  <1>5. /\ drops' \in [Readers -> 0..MaxDrops]
        /\ \A k \in Readers \ {r} : drops'[k] = drops[k]
    BY <1>1, ReaderFacts
  <1>6. /\ got' \in [Readers -> Seq(Nat)] /\ seen' \in [Readers -> Nat]
        /\ hook' \in [Readers -> HookType]
        /\ \A k \in Readers \ {r} : got'[k] = got[k] /\ seen'[k] = seen[k] /\ hook'[k] = hook[k]
        /\ hook'[r].stored = hook[r].stored
        /\ \/ /\ got'[r] = got[r] /\ seen'[r] = seen[r]
              /\ hook'[r].view = "failed" /\ hook'[r].base = hook[r].base
           \/ /\ got'[r] = << >> /\ seen'[r] = 0
              /\ hook'[r].view = "away" /\ hook'[r].base = 0
    <2>1. hook[r] \in HookType /\ hook[r].stored \in 0..MaxEvents
      BY ReaderFacts DEF HookType
    <2>2. CASE UNCHANGED <<got, seen>> /\ hook' = [hook EXCEPT ![r].view = "failed"]
      BY <2>1, <2>2, ReaderFacts DEF HookType, FrameTypes
    <2>3. CASE /\ got' = [got EXCEPT ![r] = << >>] /\ seen' = [seen EXCEPT ![r] = 0]
               /\ hook' = [hook EXCEPT ![r] = [Away EXCEPT !.stored = hook[r].stored]]
      <3>1. [Away EXCEPT !.stored = hook[r].stored] =
               [view |-> "away", base |-> 0, stored |-> hook[r].stored, failures |-> 0]
        BY DEF Away
      <3>2. [view |-> "away", base |-> 0, stored |-> hook[r].stored, failures |-> 0] \in HookType
        BY <1>3, <2>1 DEF HookType
      <3> QED
        BY <1>3, <2>3, <3>1, <3>2, ReaderFacts DEF FrameTypes
    <2> QED
      BY <1>2, <2>2, <2>3
  <1>7. Touches(r)
    BY <1>4, <1>5, <1>6 DEF Touches
  <1>8. ReaderTypes
    BY <1>4, <1>5, <1>6, ReaderFacts DEF ReaderTypes, FrameTypes
  <1>9. /\ seen'[r] \in Nat /\ seen'[r] <= Head0 /\ hook'[r].base <= Head0
    BY <1>6, ReaderFacts
  <1>10. Delivery(r)' /\ Len(batch'[r]) <= ReplayBatch
    BY <1>4, <1>9, QuietDelivery
  <1>11. Head0' = Head0 /\ Hooked(r)' = Hooked(r)
    BY <1>4 DEF Head0, Hooked, streamVars
  <1>12. Received(r)'
    BY <1>6, ReaderFacts DEF Received
  <1>13. Shown(r)'
    BY <1>1, <1>4, <1>6, <1>11, ReaderFacts DEF Shown
  <1> QED
    BY <1>7, <1>8, <1>9, <1>10, <1>12, <1>13, ReaderStep DEF ReaderInvariant

-----------------------------------------------------------------------------
(* The theorem.                                                              *)

\* Nothing is written, nobody is connected.
LEMMA Initial ==
    ASSUME Init
    PROVE  StreamInvariant
  <1>1. << >> \in Seq(Nat) /\ Len(<< >>) = 0 /\ DOMAIN << >> = {}
    BY EmptySeq
  <1>2. 1..0 = {} /\ 0 \in 0..MaxEvents /\ 0 \in 0..MaxFailures /\ 0 \in 0..MaxDrops
        /\ 0 \in Nat /\ ReplayBatch \in Nat
    BY StreamAssumption
  <1>3. Written
    BY <1>1, <1>2 DEF Init, Written
  <1>4. Head0 = 0
    BY <1>1, <1>2, <1>3, HeadFacts DEF Init
  <1>5. FrameTypes
    BY <1>1, <1>2 DEF Init, FrameTypes
  <1>6. TypeOK
    BY <1>1, <1>2, <1>4 DEF Init, TypeOK, Conn, Away
  <1>7. ASSUME NEW r \in Readers
        PROVE  ReaderInvariant(r)
    <2>1. /\ conn[r] = "closed" /\ batch[r] = << >> /\ wire[r] = << >> /\ got[r] = << >>
          /\ seen[r] = 0 /\ hook[r] = Away
      BY DEF Init
    <2>2. Delivery(r)
      BY <1>1, <1>4, <2>1 DEF Delivery, Follows
    <2> QED
      BY <1>4, <2>1, <2>2 DEF ReaderInvariant, Received, Shown, Away
  <1> QED
    BY <1>3, <1>5, <1>6, <1>7 DEF StreamInvariant

\* Every step of a writer, of a connection and of a reader keeps the invariant.
LEMMA Inductive ==
    ASSUME StreamInvariant, [Next]_vars
    PROVE  StreamInvariant'
  <1>1. ASSUME NEW w \in Writers, Write(w)
        PROVE  StreamInvariant'
    BY <1>1, WriteStep
  <1>2. ASSUME NEW r \in Readers,
               \/ Serve(r) \/ Receive(r) \/ Drop(r)
               \/ Connect(r) \/ ConnectWrongly(r) \/ StartOver(r)
               \/ Resume(r) \/ HookUnreachable(r)
               \/ Refetch(r) \/ RefetchFails(r) \/ Leave(r)
        PROVE  StreamInvariant'
    BY <1>2, PollStep, YieldStep, ReceiveStep, DropStep, ConnectStep, TimelineStep,
       HookConnectStep, HookErrorStep, CloseStep DEF Serve, Resume
  <1>3. CASE UNCHANGED vars
    <2>1. UNCHANGED <<browsers, readerVars>> /\ Head0' = Head0 /\ UNCHANGED streamVars
      BY <1>3 DEF vars, streamVars, Head0
    <2>2. Head0 \in Nat
      BY HeadFacts, StreamAssumption DEF StreamInvariant
    <2>3. (\A r \in Readers : ReaderInvariant(r)') /\ FrameTypes'
      BY <2>1, <2>2, LongerStream
    <2>4. TypeOK' /\ Written'
      BY <2>1 DEF StreamInvariant, TypeOK, Written, Kinds, streamVars, readerVars
    <2> QED
      BY <2>3, <2>4 DEF StreamInvariant
  <1> QED
    BY <1>1, <1>2, <1>3 DEF Next

\* Received, travelling and polled frames join up in every reachable state.
THEOREM StreamInvariantHolds == Spec => []StreamInvariant
  BY Initial, Inductive, PTL DEF Spec

\* However often connections break and whoever appends meanwhile, the frames a
\* reader received are one stretch of the stream, which for the browser starts no
\* later than where its timeline ends.
THEOREM GapFreeTheorem == Spec => []GapFree
  <1>1. StreamInvariant => GapFree
    BY DEF StreamInvariant, ReaderInvariant, Received, GapFree
  <1> QED
    BY <1>1, StreamInvariantHolds, PTL
=============================================================================
