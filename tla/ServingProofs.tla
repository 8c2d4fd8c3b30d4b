---------------------------- MODULE ServingProofs ----------------------------
(***************************************************************************)
(* Proofs about three parts of the API process, each for every value of    *)
(* its constants: the provider's caches shared by concurrent sign-ins      *)
(* (CognitoOidc), one turn of the agent runtime (AgentRuntime), and        *)
(* sessions (SignIn).                                                      *)
(*                                                                         *)
(* SignInInvariant is inductive.  Spent follows a callback from the        *)
(* handshake it consumed to the session it earned; Tokens and Requested    *)
(* follow a request from the page that sent it to the answer, through      *)
(* every change of the session in between.                                 *)
(***************************************************************************)
EXTENDS SignIn, AgentRuntime, CognitoOidc, TLAPS

(* The caches.  The lock serializes fetches, so the keys stored last were     *)
(* served last; a key once withdrawn never comes back, so a set of keys that  *)
(* was served after a token was signed lacks the token's key only when it has *)
(* been withdrawn, and a set that lacks a published key is older than it.     *)

Fetching == {"metadata fetch", "jwks fetch", "jwks reply"}
Places   == {"metadata", "token", "jwks", "jwks wait", "decode"} \cup Fetching \cup ExchangeEnded
Coroutine == [pc: Places, after: {"token", "jwks wait"}, key: Nat, force: BOOLEAN,
              reply: SUBSET Keys]

OidcShape ==
    /\ signing \in Keys /\ published \in SUBSET (0..signing) /\ signing \in published
    /\ kid \in [Keys -> Keys]
    /\ metadata \in [fresh: BOOLEAN] /\ jwks \in [keys: SUBSET Keys, fresh: BOOLEAN]
    /\ discovery \in Coroutines \cup {NoHolder}
    /\ co \in [Coroutines -> Coroutine]
    /\ \A c \in Coroutines : co[c].key <= signing

LockHeld == \A c \in Coroutines : co[c].pc \in Fetching <=> discovery = c

\* The keys K serve the coroutine c, unless its key was withdrawn.
Serves(K, c) == co[c].key \in published => co[c].key \in K

Answers(c, d) ==
    co[d].pc = "jwks reply" /\ (d = c \/ (co[c].force /\ co[c].pc = "decode")) =>
        Serves(co[d].reply, c)

Decodes(c) == co[c].force /\ co[c].pc = "decode" => Serves(jwks.keys, c)

\* The keys K hold every published key that is no newer than all of them.
Complete(K) == \A p \in published : (\E k \in K : p <= k) => p \in K

Served ==
    /\ Complete(jwks.keys) /\ \A k \in jwks.keys : k <= signing
    /\ \A c \in Coroutines : co[c].pc = "jwks reply" =>
          Complete(co[c].reply) /\ \A k \in co[c].reply : k <= signing

OidcInvariant ==
    /\ OidcShape /\ LockHeld /\ ReplacementRejectsNobody /\ NoStampede
    /\ NotFoundOnlyInOlderKeys /\ Served
    /\ \A c \in Coroutines : Decodes(c) /\ \A d \in Coroutines : Answers(c, d)

\* The caches are empty at first.
LEMMA OidcInitial == OidcInit => OidcInvariant
  <1> SUFFICES ASSUME OidcInit
               PROVE  OidcInvariant
    OBVIOUS
  <1>1. \A c \in Coroutines : co[c] = [pc |-> "metadata", after |-> "token", key |-> 0,
                                       force |-> FALSE, reply |-> {}]
    BY DEF OidcInit
  <1>2. OidcShape
    <2>1. co \in [Coroutines -> Coroutine]
      BY DEF OidcInit, Coroutine, Places
    <2>2. 0 \in Keys /\ 0..0 = {0} /\ [k \in Keys |-> k] \in [Keys -> Keys]
      BY CognitoAssumption DEF Keys
    <2> QED
      BY <1>1, <2>1, <2>2 DEF OidcShape, OidcInit
  <1>3. LockHeld
    BY <1>1, CognitoAssumption DEF LockHeld, OidcInit, Fetching
  <1>4. \A c \in Coroutines : co[c].pc = "metadata"
    BY <1>1
  <1>5. ReplacementRejectsNobody /\ NoStampede /\ NotFoundOnlyInOlderKeys
    BY <1>4 DEF ReplacementRejectsNobody, NoStampede, NotFoundOnlyInOlderKeys
  <1>7. Served
    BY <1>4 DEF Served, Complete, OidcInit
  <1>6. \A c \in Coroutines : Decodes(c) /\ \A d \in Coroutines : Answers(c, d)
    BY <1>4 DEF Decodes, Answers
  <1> QED
    BY <1>2, <1>3, <1>5, <1>6, <1>7 DEF OidcInvariant

\* The fields of a coroutine.
LEMMA OidcFacts ==
    ASSUME OidcShape
    PROVE  /\ signing \in Nat /\ MaxRotations \in Nat
           /\ \A c \in Coroutines :
                /\ co[c] \in Coroutine /\ co[c].pc \in Places
                /\ co[c].after \in {"token", "jwks wait"} /\ co[c].key \in Nat
                /\ co[c].force \in BOOLEAN /\ co[c].reply \in SUBSET Keys
  <1>1. signing \in Nat /\ MaxRotations \in Nat
    BY CognitoAssumption DEF OidcShape, Keys
  <1>2. \A c \in Coroutines : co[c] \in Coroutine
    BY DEF OidcShape
  <1>3. \A x \in Coroutine : /\ x.pc \in Places
                /\ x.after \in {"token", "jwks wait"} /\ x.key \in Nat
                /\ x.force \in BOOLEAN /\ x.reply \in SUBSET Keys
    BY DEF Coroutine
  <1> QED
    BY <1>1, <1>2, <1>3

\* Published keys are keys of rotations so far.
LEMMA PublishedKeys ==
    ASSUME OidcShape
    PROVE  published \in SUBSET Keys
  <1>0. signing \in 0..MaxRotations
    BY DEF OidcShape, Keys
  <1>1. signing \in Nat /\ MaxRotations \in Nat /\ signing <= MaxRotations
    BY <1>0, CognitoAssumption
  <1>2. published \in SUBSET (0..signing)
    BY DEF OidcShape
  <1>3. 0..signing \subseteq 0..MaxRotations
    BY <1>1
  <1> QED
    BY <1>2, <1>3 DEF Keys

\* The provider and the clock: keys are added and withdrawn, entries lapse.
LEMMA AroundExchange ==
    ASSUME OidcInvariant, Rotate \/ Replace \/ Retire \/ Lapse
    PROVE  OidcInvariant'
  <1> USE DEF OidcInvariant
  <1>0. /\ signing \in Nat /\ MaxRotations \in Nat /\ published \in SUBSET (0..signing)
        /\ published \in SUBSET Nat /\ kid \in [Keys -> Keys]
        /\ \A c \in Coroutines : co[c].key \in Nat /\ co[c].key <= signing
        /\ jwks.keys \in SUBSET Keys /\ \A c \in Coroutines : co[c].reply \in SUBSET Keys
    <2>1. /\ signing \in Nat /\ MaxRotations \in Nat
          /\ \A c \in Coroutines : co[c].key \in Nat /\ co[c].reply \in SUBSET Keys
      BY OidcFacts
    <2>2. /\ published \in SUBSET (0..signing) /\ kid \in [Keys -> Keys]
          /\ jwks.keys \in SUBSET Keys /\ \A c \in Coroutines : co[c].key <= signing
      BY DEF OidcShape
    <2>3. 0..signing \subseteq Nat
      BY <2>1
    <2> HIDE DEF OidcInvariant
    <2> QED
      BY <2>1, <2>2, <2>3
  <1>1. /\ UNCHANGED <<discovery, co>>
        /\ signing' \in Keys /\ signing <= signing' /\ signing' \in published'
        /\ published' \in SUBSET (0..signing')
        /\ published' \subseteq published \cup {signing'}
        /\ \A p \in published' \ published : p = signing + 1 /\ signing' = signing + 1
    <2>1. CASE Rotate
      BY <1>0, <2>1 DEF Rotate, OidcShape, Keys
    <2>2. CASE Replace
      <3>1. /\ UNCHANGED <<discovery, co>> /\ signing' = signing + 1 /\ signing < MaxRotations
            /\ published' = {k \in published : kid[k] # kid[signing]} \cup {signing + 1}
        BY <2>2 DEF Replace
      <3> HIDE DEF OidcInvariant
      <3>2. published' \subseteq published \cup {signing + 1} /\ signing + 1 \in published'
        BY <3>1
      <3>3. signing' \in 0..MaxRotations /\ signing <= signing'
            /\ 0..signing \subseteq 0..(signing + 1) /\ signing + 1 \in 0..(signing + 1)
        BY <1>0, <3>1
      <3> QED
        BY <1>0, <3>1, <3>2, <3>3 DEF Keys
    <2>3. CASE Retire
      BY <1>0, <2>3 DEF Retire, OidcShape, Keys
    <2>4. CASE Lapse
      BY <1>0, <2>4 DEF Lapse, OidcShape, Keys
    <2> QED
      BY <2>1, <2>2, <2>3, <2>4
  <1>2. /\ metadata' \in [fresh: BOOLEAN] /\ jwks' \in [keys: SUBSET Keys, fresh: BOOLEAN]
        /\ jwks'.keys = jwks.keys /\ (jwks'.fresh => jwks.fresh)
    BY DEF Rotate, Replace, Retire, Lapse, OidcShape
  <1>3. kid' \in [Keys -> Keys]
    <2>1. CASE Replace
      <3>1. kid' = [kid EXCEPT ![signing + 1] = kid[signing]] /\ signing \in Keys
        BY <2>1 DEF Replace, OidcShape
      <3> QED
        BY <1>0, <3>1
    <2>2. CASE Rotate \/ Retire \/ Lapse
      BY <1>0, <2>2 DEF Rotate, Retire, Lapse
    <2> QED
      BY <2>1, <2>2
  <1>4. \A c \in Coroutines : co[c].key \in published' => co[c].key \in published
    BY <1>0, <1>1
  <1>5. OidcShape'
    <2>1. signing' \in Nat
      BY <1>1, CognitoAssumption DEF Keys
    <2>2. \A c \in Coroutines : co'[c].key <= signing'
      BY <1>0, <1>1, <2>1
    <2>3. co' \in [Coroutines -> Coroutine] /\ discovery' \in Coroutines \cup {NoHolder}
      BY <1>1 DEF OidcShape
    <2> QED
      BY <1>1, <1>2, <1>3, <2>2, <2>3 DEF OidcShape
  <1>6. /\ LockHeld' /\ ReplacementRejectsNobody' /\ NoStampede'
        /\ NotFoundOnlyInOlderKeys'
    BY <1>1, <1>2, <1>4
       DEF LockHeld, ReplacementRejectsNobody, NoStampede, NotFoundOnlyInOlderKeys
  <1>7. \A c \in Coroutines : Decodes(c)' /\ \A d \in Coroutines : Answers(c, d)'
    BY <1>1, <1>2, <1>4 DEF Decodes, Answers, Serves
  <1>8. Served'
    <2>0. 0..signing' \subseteq Nat /\ signing' \in Nat
      BY <1>0, <1>1, CognitoAssumption DEF Keys
    <2>1. ASSUME NEW K \in SUBSET Keys, Complete(K), \A k \in K : k <= signing
          PROVE  /\ \A p \in published' : (\E k \in K : p <= k) => p \in K
                 /\ \A k \in K : k <= signing'
      <3>1. \A k \in K : k \in Nat
        BY <2>1, CognitoAssumption DEF Keys
      <3>2. \A k \in K : k <= signing'
        BY <1>0, <1>1, <2>0, <2>1, <3>1
      <3>3. ASSUME NEW p \in published', NEW k \in K, p <= k
            PROVE  p \in K
        <4>1. p \in Nat /\ k \in Nat /\ k <= signing /\ p # signing + 1
          BY <1>0, <1>1, <2>0, <2>1, <3>1, <3>3
        <4>2. p \in published
          BY <1>1, <4>1
        <4> QED
          BY <2>1, <3>3, <4>2 DEF Complete
      <3> QED
        BY <3>2, <3>3
    <2>2. Complete(jwks.keys)' /\ \A k \in jwks'.keys : k <= signing'
      BY <1>0, <1>2, <2>1 DEF Served, Complete
    <2>3. ASSUME NEW c \in Coroutines, co'[c].pc = "jwks reply"
          PROVE  Complete(co[c].reply)' /\ \A k \in co'[c].reply : k <= signing'
      BY <1>0, <1>1, <2>1, <2>3 DEF Served, Complete
    <2> QED
      BY <2>2, <2>3 DEF Served
  <1> QED
    BY <1>5, <1>6, <1>7, <1>8

\* The keys up to one are no newer than it.
LEMMA UpTo == \A n \in Nat : \A k \in 0..n : k <= n
  OBVIOUS

\* A coroutine's step, seen from the others: its own record changes, a lock only it
\* holds is let go, and keys are stored only by the coroutine they were sent to.
LEMMA CoroutineFrame ==
    ASSUME OidcInvariant, NEW c \in Coroutines, NEW x \in Coroutine, x.key <= signing,
           co' = [co EXCEPT ![c] = x], UNCHANGED <<signing, kid, published>>,
           metadata' \in [fresh: BOOLEAN],
           \/ x.pc \in Fetching /\ discovery' = c /\ discovery \in {NoHolder, c}
           \/ x.pc \notin Fetching /\ co[c].pc \in Fetching /\ discovery' = NoHolder
           \/ x.pc \notin Fetching /\ co[c].pc \notin Fetching /\ discovery' = discovery,
           \/ UNCHANGED jwks
           \/ /\ co[c].pc = "jwks reply" /\ jwks' = [keys |-> co[c].reply, fresh |-> TRUE]
              /\ x.pc \notin Fetching,
           x.pc = "rejected" => x.key \notin published,
           x.pc = "key not found" /\ x.key \in published => \A k \in x.reply : k < x.key,
           x.pc \in {"jwks fetch", "jwks reply"} /\ ~x.force => ~jwks.fresh,
           x.pc = "jwks reply" => x.reply = published,
           x.pc = "decode" /\ x.force =>
               /\ x.key \in published => x.key \in jwks'.keys
               /\ discovery = c
    PROVE  OidcInvariant'
  <1> USE DEF OidcInvariant
  <1>1. co'[c] = x /\ \A d \in Coroutines \ {c} : co'[d] = co[d]
    BY DEF OidcShape
  <1>2. OidcShape'
    <2>1. co' \in [Coroutines -> Coroutine]
      BY DEF OidcShape
    <2>2. jwks' \in [keys: SUBSET Keys, fresh: BOOLEAN]
      <3>1. CASE UNCHANGED jwks
        BY <3>1 DEF OidcShape
      <3>2. CASE jwks' = [keys |-> co[c].reply, fresh |-> TRUE]
        <4>1. co[c].reply \in SUBSET Keys
          BY OidcFacts
        <4> QED
          BY <3>2, <4>1
      <3> QED
        BY <3>1, <3>2
    <2>3. discovery' \in Coroutines \cup {NoHolder}
      BY DEF OidcShape
    <2>4. \A d \in Coroutines : co'[d].key <= signing
      BY <1>1 DEF OidcShape
    <2> QED
      BY <2>1, <2>2, <2>3, <2>4 DEF OidcShape
  <1>3. LockHeld'
    <2>1. \A d \in Coroutines : d # NoHolder /\ (co[d].pc \in Fetching <=> discovery = d)
      BY CognitoAssumption DEF LockHeld
    <2>2. \A d \in Coroutines \ {c} : discovery' = d <=> discovery = d
      BY <2>1
    <2>3. x.pc \in Fetching <=> discovery' = c
      BY <2>1
    <2> QED
      BY <1>1, <2>1, <2>2, <2>3 DEF LockHeld
  <1>4. ReplacementRejectsNobody'
    <2>0. published' = published /\ (x.pc = "rejected" => x.key \notin published)
      OBVIOUS
    <2> SUFFICES ASSUME NEW d \in Coroutines, co'[d].pc = "rejected"
                 PROVE  co'[d].key \notin published'
      BY DEF ReplacementRejectsNobody
    <2>1. CASE d = c
      BY <1>1, <2>0, <2>1
    <2>2. CASE d # c
      BY <1>1, <2>0, <2>2 DEF ReplacementRejectsNobody
    <2> QED
      BY <2>1, <2>2
  <1>5. \A d \in Coroutines \ {c} : jwks' # jwks \/ co[c].pc \in Fetching => co[d].pc \notin Fetching
    BY DEF LockHeld, Fetching
  <1>6. NoStampede'
    <2> SUFFICES ASSUME NEW d \in Coroutines, co'[d].pc \in {"jwks fetch", "jwks reply"},
                        ~co'[d].force
                 PROVE  ~jwks'.fresh
      BY DEF NoStampede
    <2>1. CASE d = c
      <3>1. x.pc \in Fetching /\ ~jwks.fresh
        BY <1>1, <2>1 DEF Fetching
      <3> QED
        BY <3>1
    <2>2. CASE d # c
      <3>1. UNCHANGED jwks
        BY <1>1, <1>5, <2>2 DEF Fetching
      <3> QED
        BY <1>1, <2>2, <3>1 DEF NoStampede
    <2> QED
      BY <2>1, <2>2
  <1>7. ASSUME NEW d \in Coroutines
        PROVE  Decodes(d)'
    <2> SUFFICES ASSUME co'[d].force, co'[d].pc = "decode", co'[d].key \in published
                 PROVE  co'[d].key \in jwks'.keys
      BY DEF Decodes, Serves
    <2>1. CASE d = c
      BY <1>1, <2>1
    <2>2. CASE d # c
      <3>1. Decodes(d) /\ Answers(d, c) /\ co'[d] = co[d]
        BY <1>1, <2>2
      <3>2. CASE UNCHANGED jwks
        BY <3>1, <3>2 DEF Decodes, Serves
      <3>3. CASE co[c].pc = "jwks reply" /\ jwks' = [keys |-> co[c].reply, fresh |-> TRUE]
        BY <3>1, <3>3 DEF Answers, Serves
      <3> QED
        BY <3>2, <3>3
    <2> QED
      BY <2>1, <2>2
  <1>8. ASSUME NEW d \in Coroutines, NEW e \in Coroutines
        PROVE  Answers(d, e)'
    <2> SUFFICES ASSUME co'[e].pc = "jwks reply",
                        e = d \/ (co'[d].force /\ co'[d].pc = "decode"),
                        co'[d].key \in published
                 PROVE  co'[d].key \in co'[e].reply
      BY DEF Answers, Serves
    <2>1. CASE e = c
      BY <1>1, <2>1
    <2>2. CASE e # c /\ d # c
      BY <1>1, <2>2 DEF Answers, Serves
    <2>3. CASE e # c /\ d = c
      <3>1. x.force /\ x.pc = "decode"
        BY <1>1, <2>3
      <3>2. discovery = c /\ co[e].pc \in Fetching
        BY <1>1, <2>3, <3>1 DEF Fetching
      <3> QED
        BY <2>3, <3>2 DEF LockHeld
    <2> QED
      BY <2>1, <2>2, <2>3
  <1>9. NotFoundOnlyInOlderKeys'
    <2> SUFFICES ASSUME NEW d \in Coroutines, co'[d].pc = "key not found", co'[d].key \in published,
                        NEW k \in co'[d].reply
                 PROVE  k < co'[d].key
      BY DEF NotFoundOnlyInOlderKeys
    <2>1. CASE d = c
      BY <1>1, <2>1
    <2>2. CASE d # c
      BY <1>1, <2>2 DEF NotFoundOnlyInOlderKeys
    <2> QED
      BY <2>1, <2>2
  <1>10. Served'
    <2>1. Complete(jwks'.keys) /\ \A k \in jwks'.keys : k <= signing
      <3>1. CASE UNCHANGED jwks
        BY <3>1 DEF Served
      <3>2. CASE co[c].pc = "jwks reply" /\ jwks' = [keys |-> co[c].reply, fresh |-> TRUE]
        <4>1. jwks'.keys = co[c].reply
          BY <3>2
        <4> QED
          BY <3>2, <4>1 DEF Served
      <3> QED
        BY <3>1, <3>2
    <2>2. ASSUME NEW d \in Coroutines, co'[d].pc = "jwks reply"
          PROVE  Complete(co'[d].reply) /\ \A k \in co'[d].reply : k <= signing
      <3>1. CASE d = c
        <4>1. co'[d].reply = published /\ published \in SUBSET (0..signing) /\ signing \in Nat
          BY <1>1, <2>2, <3>1, OidcFacts DEF OidcShape
        <4>2. \A k \in published : k <= signing
          BY ONLY <4>1, UpTo
        <4>3. Complete(published)
          BY DEF Complete
        <4> QED
          BY <4>1, <4>2, <4>3
      <3>2. CASE d # c
        BY <1>1, <2>2, <3>2 DEF Served
      <3> QED
        BY <3>1, <3>2
    <2> QED
      BY <2>1, <2>2 DEF Served, Complete
  <1> QED
    BY <1>2, <1>3, <1>4, <1>6, <1>7, <1>8, <1>9, <1>10

\* A coroutine that only moves keeps its token and what it waits for.
LEMMA Moved ==
    ASSUME OidcShape, NEW c \in Coroutines, NEW p \in Places, Goto(c, p)
    PROVE  \E x \in Coroutine :
              /\ co' = [co EXCEPT ![c] = x] /\ x.pc = p /\ x.key <= signing
              /\ x.key = co[c].key /\ x.force = co[c].force
  <1>1. co[c] \in Coroutine /\ co[c].key <= signing
    BY DEF OidcShape
  <1>2. co' = [co EXCEPT ![c] = [co[c] EXCEPT !.pc = p]]
    BY DEF OidcShape, Goto
  <1>3. /\ [co[c] EXCEPT !.pc = p] \in Coroutine /\ [co[c] EXCEPT !.pc = p].pc = p
        /\ [co[c] EXCEPT !.pc = p].key = co[c].key
        /\ [co[c] EXCEPT !.pc = p].force = co[c].force
    BY <1>1 DEF Coroutine
  <1> QED
    BY <1>1, <1>2, <1>3

\* Each step of _load_metadata.
LEMMA MetadataKeeps ==
    ASSUME OidcInvariant, NEW c \in Coroutines,
           MetadataCached(c) \/ MetadataLock(c) \/ MetadataFetch(c) \/ FetchFails(c)
    PROVE  OidcInvariant'
  <1>0. /\ OidcShape /\ metadata \in [fresh: BOOLEAN]
        /\ co[c].after \in {"token", "jwks wait"} /\ (co[c].pc \in Fetching => discovery = c)
    BY OidcFacts DEF OidcInvariant, OidcShape, LockHeld
  <1>1. {"token", "jwks wait", "metadata fetch", "unavailable"} \subseteq Places
    BY DEF Places, Fetching, ExchangeEnded
  <1>2. CASE MetadataCached(c)
    <2>1. /\ Goto(c, co[c].after) /\ co[c].pc \notin Fetching
          /\ UNCHANGED <<signing, kid, published, metadata, jwks, discovery>>
      BY <1>2 DEF MetadataCached, Fetching
    <2>2. co[c].after \in Places /\ co[c].after \notin Fetching
      BY <1>0, <1>1 DEF Fetching
    <2>3. PICK x \in Coroutine :
              /\ co' = [co EXCEPT ![c] = x] /\ x.pc = co[c].after /\ x.key <= signing
              /\ x.key = co[c].key /\ x.force = co[c].force
      BY <1>0, <2>1, <2>2, Moved
    <2>4. x.pc \notin {"rejected", "key not found", "jwks reply", "decode"}
      BY <2>3, <1>0
    <2> QED
      BY <1>0, <2>1, <2>2, <2>3, <2>4, CoroutineFrame
  <1>3. CASE MetadataLock(c)
    <2>1. /\ Goto(c, "metadata fetch") /\ discovery = NoHolder /\ discovery' = c
          /\ UNCHANGED <<signing, kid, published, metadata, jwks>>
      BY <1>3 DEF MetadataLock
    <2>2. "metadata fetch" \in Places /\ "metadata fetch" \in Fetching
      BY <1>1 DEF Fetching
    <2>3. PICK x \in Coroutine :
              /\ co' = [co EXCEPT ![c] = x] /\ x.pc = "metadata fetch" /\ x.key <= signing
              /\ x.key = co[c].key /\ x.force = co[c].force
      BY <1>0, <2>1, <2>2, Moved
    <2>4. x.pc \notin {"rejected", "key not found", "jwks reply", "decode"}
      BY <2>3, <1>0
    <2> QED
      BY <1>0, <2>1, <2>2, <2>3, <2>4, CoroutineFrame
  <1>4. CASE MetadataFetch(c)
    <2>1. /\ Goto(c, co[c].after) /\ co[c].pc \in Fetching /\ discovery' = NoHolder
          /\ metadata' \in [fresh: BOOLEAN]
          /\ UNCHANGED <<signing, kid, published, jwks>>
      BY <1>4 DEF MetadataFetch, Fetching
    <2>2. co[c].after \in Places /\ co[c].after \notin Fetching
      BY <1>0, <1>1 DEF Fetching
    <2>3. PICK x \in Coroutine :
              /\ co' = [co EXCEPT ![c] = x] /\ x.pc = co[c].after /\ x.key <= signing
              /\ x.key = co[c].key /\ x.force = co[c].force
      BY <1>0, <2>1, <2>2, Moved
    <2>4. x.pc \notin {"rejected", "key not found", "jwks reply", "decode"}
      BY <2>3, <1>0
    <2> QED
      BY <1>0, <2>1, <2>2, <2>3, <2>4, CoroutineFrame
  <1>5. CASE FetchFails(c)
    <2>1. /\ Goto(c, "unavailable") /\ co[c].pc \in Fetching /\ discovery' = NoHolder
          /\ UNCHANGED <<signing, kid, published, metadata, jwks>>
      BY <1>5 DEF FetchFails, Fetching
    <2>2. "unavailable" \in Places /\ "unavailable" \notin Fetching
      BY <1>1 DEF Fetching
    <2>3. PICK x \in Coroutine :
              /\ co' = [co EXCEPT ![c] = x] /\ x.pc = "unavailable" /\ x.key <= signing
              /\ x.key = co[c].key /\ x.force = co[c].force
      BY <1>0, <2>1, <2>2, Moved
    <2>4. x.pc \notin {"rejected", "key not found", "jwks reply", "decode"}
      BY <2>3, <1>0
    <2> QED
      BY <1>0, <2>1, <2>2, <2>3, <2>4, CoroutineFrame
  <1> QED
    BY <1>2, <1>3, <1>4, <1>5

\* The token, and the moves of _load_jwks that fetch nothing.
LEMMA MovesKeep ==
    ASSUME OidcInvariant, NEW c \in Coroutines,
           TokenRefused(c) \/ JwksCached(c) \/ JwksLock(c)
    PROVE  OidcInvariant'
  <1>0. OidcShape /\ metadata \in [fresh: BOOLEAN] /\ (co[c].pc \in Fetching => discovery = c)
    BY DEF OidcInvariant, OidcShape, LockHeld
  <1>1. {"unavailable", "decode", "jwks fetch"} \subseteq Places
    BY DEF Places, Fetching, ExchangeEnded
  <1>2. CASE TokenRefused(c)
    <2>1. /\ Goto(c, "unavailable") /\ co[c].pc \notin Fetching
          /\ UNCHANGED <<signing, kid, published, metadata, jwks, discovery>>
      BY <1>2 DEF TokenRefused, Fetching
    <2>2. "unavailable" \in Places /\ "unavailable" \notin Fetching
      BY <1>1 DEF Fetching
    <2>3. PICK x \in Coroutine :
              /\ co' = [co EXCEPT ![c] = x] /\ x.pc = "unavailable" /\ x.key <= signing
              /\ x.key = co[c].key /\ x.force = co[c].force
      BY <1>0, <2>1, <2>2, Moved
    <2>4. x.pc \notin {"rejected", "key not found", "jwks reply", "decode"}
      BY <2>3, <1>0
    <2> QED
      BY <1>0, <2>1, <2>2, <2>3, <2>4, CoroutineFrame
  <1>3. ASSUME Goto(c, "decode"), co[c].pc \notin Fetching, ~co[c].force,
               UNCHANGED <<signing, kid, published, metadata, jwks, discovery>>
        PROVE  OidcInvariant'
    <2>2. "decode" \in Places /\ "decode" \notin Fetching
      BY <1>1 DEF Fetching
    <2>3. PICK x \in Coroutine :
              /\ co' = [co EXCEPT ![c] = x] /\ x.pc = "decode" /\ x.key <= signing
              /\ x.key = co[c].key /\ x.force = co[c].force
      BY <1>0, <1>3, <2>2, Moved
    <2> QED
      BY <1>0, <1>3, <2>2, <2>3, CoroutineFrame
  <1>4. CASE JwksCached(c)
    BY <1>3, <1>4 DEF JwksCached, Fetching
  <1>5. CASE JwksLock(c) /\ ~NeedsFetch(c)
    BY <1>3, <1>5 DEF JwksLock, NeedsFetch, Fetching
  <1>6. CASE JwksLock(c) /\ NeedsFetch(c)
    <2>1. /\ Goto(c, "jwks fetch") /\ discovery = NoHolder /\ discovery' = c
          /\ (~co[c].force => ~jwks.fresh)
          /\ UNCHANGED <<signing, kid, published, metadata, jwks>>
      BY <1>6 DEF JwksLock, NeedsFetch
    <2>2. "jwks fetch" \in Places /\ "jwks fetch" \in Fetching
      BY <1>1 DEF Fetching
    <2>3. PICK x \in Coroutine :
              /\ co' = [co EXCEPT ![c] = x] /\ x.pc = "jwks fetch" /\ x.key <= signing
              /\ x.key = co[c].key /\ x.force = co[c].force
      BY <1>0, <2>1, <2>2, Moved
    <2>4. x.pc \notin {"rejected", "key not found", "jwks reply", "decode"}
      BY <2>3, <1>0
    <2> QED
      BY <1>0, <2>1, <2>2, <2>3, <2>4, CoroutineFrame
  <1> QED
    BY <1>2, <1>4, <1>5, <1>6

\* The steps that change a coroutine's token, its keys or its second attempt.
LEMMA TokenKeeps ==
    ASSUME OidcInvariant, NEW c \in Coroutines, FetchToken(c) \/ JwksNeedsMetadata(c)
    PROVE  OidcInvariant'
  <1>0. /\ OidcShape /\ metadata \in [fresh: BOOLEAN] /\ signing \in Nat
        /\ co[c] \in Coroutine /\ co[c].key <= signing
    BY OidcFacts DEF OidcInvariant, OidcShape
  <1>1. {"jwks", "metadata"} \subseteq Places \ Fetching
    BY DEF Places, Fetching, ExchangeEnded
  <1>2. PICK x \in Coroutine : /\ co' = [co EXCEPT ![c] = x] /\ x.pc \in {"jwks", "metadata"}
                               /\ x.key <= signing
    <2>1. CASE FetchToken(c)
      <3>1. co' = [co EXCEPT ![c] = [co[c] EXCEPT !.pc = "jwks", !.key = signing]]
        BY <2>1 DEF FetchToken
      <3>0. "jwks" \in Places
        BY <1>1
      <3>2. /\ [co[c] EXCEPT !.pc = "jwks", !.key = signing] \in Coroutine
            /\ [co[c] EXCEPT !.pc = "jwks", !.key = signing].pc = "jwks"
            /\ [co[c] EXCEPT !.pc = "jwks", !.key = signing].key = signing
        BY <1>0, <3>0 DEF Coroutine
      <3>3. signing <= signing
        BY <1>0
      <3> QED
        BY <3>1, <3>2, <3>3
    <2>2. CASE JwksNeedsMetadata(c)
      <3>1. co' = [co EXCEPT ![c] = [co[c] EXCEPT !.pc = "metadata", !.after = "jwks wait"]]
        BY <2>2 DEF JwksNeedsMetadata
      <3>0. "metadata" \in Places
        BY <1>1
      <3>2. /\ [co[c] EXCEPT !.pc = "metadata", !.after = "jwks wait"] \in Coroutine
            /\ [co[c] EXCEPT !.pc = "metadata", !.after = "jwks wait"].pc = "metadata"
            /\ [co[c] EXCEPT !.pc = "metadata", !.after = "jwks wait"].key <= signing
        BY <1>0, <3>0 DEF Coroutine
      <3> QED
        BY <3>1, <3>2
    <2> QED
      BY <2>1, <2>2
  <1>3. /\ UNCHANGED <<signing, kid, published, metadata, jwks, discovery>>
        /\ co[c].pc \notin Fetching /\ x.pc \notin Fetching
        /\ x.pc \notin {"rejected", "key not found", "jwks fetch", "jwks reply", "decode"}
    BY <1>1, <1>2 DEF FetchToken, JwksNeedsMetadata, Fetching
  <1> QED
    BY <1>0, <1>2, <1>3, CoroutineFrame

\* The provider serves the keys it publishes now: they serve every forced decode.
LEMMA ServedKeeps ==
    ASSUME OidcInvariant, NEW c \in Coroutines, JwksServed(c)
    PROVE  OidcInvariant'
  <1>0. /\ OidcShape /\ metadata \in [fresh: BOOLEAN] /\ published \in SUBSET Keys
        /\ co[c] \in Coroutine /\ co[c].key <= signing
        /\ co[c].pc = "jwks fetch" /\ discovery = c /\ (~co[c].force => ~jwks.fresh)
    <2>1. OidcShape /\ co[c] \in Coroutine /\ signing \in Nat /\ MaxRotations \in Nat
      BY OidcFacts DEF OidcInvariant
    <2>2. co[c].pc = "jwks fetch" /\ discovery = c /\ (~co[c].force => ~jwks.fresh)
      BY DEF OidcInvariant, JwksServed, LockHeld, NoStampede, Fetching
    <2> QED
      BY <2>1, <2>2, PublishedKeys DEF OidcShape
  <1>1. PICK x \in Coroutine :
            /\ co' = [co EXCEPT ![c] = x] /\ x.pc = "jwks reply" /\ x.key = co[c].key
            /\ x.force = co[c].force /\ x.reply = published
    <2>1. co' = [co EXCEPT ![c] = [co[c] EXCEPT !.pc = "jwks reply", !.reply = published]]
      BY DEF JwksServed
    <2>2. "jwks reply" \in Places
      BY DEF Places, Fetching
    <2>3. /\ [co[c] EXCEPT !.pc = "jwks reply", !.reply = published] \in Coroutine
          /\ [co[c] EXCEPT !.pc = "jwks reply", !.reply = published].pc = "jwks reply"
          /\ [co[c] EXCEPT !.pc = "jwks reply", !.reply = published].key = co[c].key
          /\ [co[c] EXCEPT !.pc = "jwks reply", !.reply = published].force = co[c].force
          /\ [co[c] EXCEPT !.pc = "jwks reply", !.reply = published].reply = published
      BY <1>0, <2>2 DEF Coroutine
    <2> QED
      BY <2>1, <2>3
  <1>2. UNCHANGED <<signing, kid, published, metadata, jwks, discovery>>
    BY DEF JwksServed
  <1>3. x.pc \in Fetching
    BY <1>1 DEF Fetching
  <1> QED
    BY <1>0, <1>1, <1>2, <1>3, CoroutineFrame

\* The reply a coroutine stores serves the coroutine itself.
LEMMA StoredKeeps ==
    ASSUME OidcInvariant, NEW c \in Coroutines, JwksStored(c)
    PROVE  OidcInvariant'
  <1>0. /\ OidcShape /\ metadata \in [fresh: BOOLEAN]
        /\ co[c] \in Coroutine /\ co[c].key <= signing
        /\ co[c].pc = "jwks reply" /\ co[c].pc \in Fetching /\ discovery = c
        /\ co[c].key \in published => co[c].key \in co[c].reply
    <2>1. OidcShape /\ co[c] \in Coroutine
      BY OidcFacts DEF OidcInvariant
    <2>2. co[c].pc = "jwks reply" /\ co[c].pc \in Fetching
      BY DEF JwksStored, Fetching
    <2>3. discovery = c /\ Answers(c, c)
      BY <2>2 DEF OidcInvariant, LockHeld
    <2> QED
      BY <2>1, <2>2, <2>3 DEF OidcShape, Answers, Serves
  <1>1. PICK x \in Coroutine :
            co' = [co EXCEPT ![c] = x] /\ x.pc = "decode" /\ x.key = co[c].key
    <2>1. co' = [co EXCEPT ![c] = [co[c] EXCEPT !.pc = "decode", !.reply = {}]]
      BY DEF JwksStored
    <2>2. "decode" \in Places
      BY DEF Places
    <2>3. /\ [co[c] EXCEPT !.pc = "decode", !.reply = {}] \in Coroutine
          /\ [co[c] EXCEPT !.pc = "decode", !.reply = {}].pc = "decode"
          /\ [co[c] EXCEPT !.pc = "decode", !.reply = {}].key = co[c].key
      BY <1>0, <2>2 DEF Coroutine
    <2> QED
      BY <2>1, <2>3
  <1>2. /\ UNCHANGED <<signing, kid, published, metadata>> /\ discovery' = NoHolder
        /\ jwks' = [keys |-> co[c].reply, fresh |-> TRUE] /\ jwks'.keys = co[c].reply
    BY DEF JwksStored
  <1>3. x.pc \notin Fetching
    BY <1>1 DEF Fetching
  <1> QED
    BY <1>0, <1>1, <1>2, <1>3, CoroutineFrame

\* A forced decode fails only on a key that was withdrawn, and a kid is missing only
\* from keys older than the token's.
LEMMA DecodeKeeps ==
    ASSUME OidcInvariant, NEW c \in Coroutines, Decode(c)
    PROVE  OidcInvariant'
  <1>0. /\ OidcShape /\ metadata \in [fresh: BOOLEAN]
        /\ co[c] \in Coroutine /\ co[c].key <= signing
        /\ co[c].pc = "decode" /\ co[c].pc \notin Fetching
        /\ co[c].force /\ co[c].key \in published => co[c].key \in jwks.keys
        /\ jwks.keys \in SUBSET Keys /\ Complete(jwks.keys)
        /\ co[c].key \in Nat
    <2>1. OidcShape /\ co[c] \in Coroutine /\ co[c].key \in Nat
      BY OidcFacts DEF OidcInvariant
    <2>2. co[c].pc = "decode" /\ co[c].pc \notin Fetching
      BY DEF Decode, Fetching
    <2>3. Decodes(c) /\ Complete(jwks.keys)
      BY DEF OidcInvariant, Served
    <2> QED
      BY <2>1, <2>2, <2>3 DEF OidcShape, Decodes, Serves
  <1>1. {"accepted", "rejected", "key not found", "jwks"} \subseteq Places \ Fetching
    BY DEF Places, Fetching, ExchangeEnded
  <1>2. PICK x \in Coroutine :
            /\ co' = [co EXCEPT ![c] = x]
            /\ x.pc \in {"accepted", "rejected", "key not found", "jwks"}
            /\ x.key = co[c].key /\ (x.pc = "rejected" => x.key \notin published)
            /\ x.pc = "key not found" /\ x.key \in published => \A k \in x.reply : k < x.key
    <2>1. CASE co[c].key \in jwks.keys
      <3>1. co' = [co EXCEPT ![c] = [co[c] EXCEPT !.pc = "accepted"]]
        BY <2>1 DEF Decode
      <3>2. /\ [co[c] EXCEPT !.pc = "accepted"] \in Coroutine
            /\ [co[c] EXCEPT !.pc = "accepted"].pc = "accepted"
            /\ [co[c] EXCEPT !.pc = "accepted"].key = co[c].key
        BY <1>0, <1>1 DEF Coroutine
      <3> QED
        BY <3>1, <3>2
    <2>2. CASE co[c].key \notin jwks.keys /\ ~KidKnown(jwks.keys, co[c].key)
      <3> DEFINE x == [co[c] EXCEPT !.pc = "key not found", !.reply = jwks.keys]
      <3>1. co' = [co EXCEPT ![c] = x]
        BY <2>2 DEF Decode
      <3>2. x \in Coroutine /\ x.pc = "key not found" /\ x.key = co[c].key /\ x.reply = jwks.keys
        BY <1>0, <1>1 DEF Coroutine
      <3>3. ASSUME co[c].key \in published, NEW k \in jwks.keys
            PROVE  k < co[c].key
        <4>1. k \in Nat
          BY <1>0, CognitoAssumption DEF Keys
        <4>2. ~(co[c].key <= k)
          BY <1>0, <2>2, <3>3 DEF Complete
        <4> QED
          BY <1>0, <4>1, <4>2
      <3> HIDE DEF x
      <3> QED
        BY <3>1, <3>2, <3>3
    <2>3. CASE co[c].key \notin jwks.keys /\ KidKnown(jwks.keys, co[c].key) /\ co[c].force
      <3>1. co' = [co EXCEPT ![c] = [co[c] EXCEPT !.pc = "rejected"]]
        BY <2>3 DEF Decode
      <3>2. /\ [co[c] EXCEPT !.pc = "rejected"] \in Coroutine
            /\ [co[c] EXCEPT !.pc = "rejected"].pc = "rejected"
            /\ [co[c] EXCEPT !.pc = "rejected"].key = co[c].key
        BY <1>0, <1>1 DEF Coroutine
      <3> QED
        BY <1>0, <2>3, <3>1, <3>2
    <2>4. CASE co[c].key \notin jwks.keys /\ KidKnown(jwks.keys, co[c].key) /\ ~co[c].force
      <3>1. co' = [co EXCEPT ![c] = [co[c] EXCEPT !.pc = "jwks", !.force = TRUE]]
        BY <2>4 DEF Decode
      <3>2. /\ [co[c] EXCEPT !.pc = "jwks", !.force = TRUE] \in Coroutine
            /\ [co[c] EXCEPT !.pc = "jwks", !.force = TRUE].pc = "jwks"
            /\ [co[c] EXCEPT !.pc = "jwks", !.force = TRUE].key = co[c].key
        BY <1>0, <1>1 DEF Coroutine
      <3> QED
        BY <3>1, <3>2
    <2> QED
      BY <2>1, <2>2, <2>3, <2>4
  <1>3. /\ UNCHANGED <<signing, kid, published, metadata, jwks, discovery>>
        /\ x.pc \notin Fetching /\ x.pc \notin {"jwks fetch", "jwks reply", "decode"}
    BY <1>1, <1>2 DEF Decode, Fetching
  <1> QED
    BY <1>0, <1>2, <1>3, CoroutineFrame

\* The caches' invariant holds for any number of sign-ins, rotations and lapses:
\* fetches exclude each other, and a coroutine on its second attempt holds keys
\* served after its token was signed (_load_jwks, exchange_code).
THEOREM OidcInvariantHolds == OidcSpec => []OidcInvariant
  <1>1. ASSUME OidcInvariant, [Exchange]_oidcVars
        PROVE  OidcInvariant'
    <2> USE <1>1
    <2>1. CASE Rotate \/ Replace \/ Retire \/ Lapse
      BY <2>1, AroundExchange
    <2>2. ASSUME NEW c \in Coroutines, ExchangeStep(c)
          PROVE  OidcInvariant'
      BY <2>2, MetadataKeeps, MovesKeep, TokenKeeps, ServedKeeps, StoredKeeps, DecodeKeeps
         DEF ExchangeStep
    <2>3. CASE UNCHANGED oidcVars
      BY <2>3 DEF oidcVars, OidcInvariant, OidcShape, LockHeld, ReplacementRejectsNobody, NoStampede,
                  NotFoundOnlyInOlderKeys, Served, Complete, Decodes, Answers, Serves
    <2> QED
      BY <2>1, <2>2, <2>3 DEF Exchange
  <1> QED
    BY <1>1, OidcInitial, PTL DEF OidcSpec

\* The key cache follows the provider: a signature is refused in the end only when
\* its key was withdrawn, a kid that is published is missed only in keys served before
\* it was, and coroutines that wait on a lapsed cache cause one fetch
\* (CognitoOidc.exchange_code, _load_jwks).
THEOREM CacheTheorem == OidcSpec => []CacheFollowsProvider
  <1>1. OidcInvariant => CacheFollowsProvider
    <2> SUFFICES ASSUME OidcInvariant
                 PROVE  CacheFollowsProvider
      OBVIOUS
    <2>1. /\ OidcShape /\ LockHeld /\ ReplacementRejectsNobody /\ NoStampede
          /\ NotFoundOnlyInOlderKeys
      BY DEF OidcInvariant
    <2>2. published \in SUBSET Keys /\ jwks.keys \in SUBSET Keys
      BY <2>1, PublishedKeys DEF OidcShape
    <2>3. OidcTypeOK
      BY <2>1, <2>2 DEF OidcTypeOK, OidcShape, LockHeld, Fetching
    <2> QED
      BY <2>1, <2>3 DEF CacheFollowsProvider
  <1> QED
    BY <1>1, OidcInvariantHolds, PTL

----------------------------------------------------------------------------
(* The turn.  Every way out of the loop is checked against what the run left  *)
(* behind; the loop itself keeps drafts within the tool calls counted, and    *)
(* runs no tool on a special route.                                           *)

OutputKinds == {"none", "answer", "draft", "refusal", "malformed", "clarification"}
Rules == {"none", "empty_answer", "claim_without_calculation", "fact_without_inspection",
          "claim_tag_malformed", "claim_gap", "quantity_without_claim",
          "draft_output_without_draft", "draft_output_missing"}
Produced == [kind: OutputKinds, marks: SUBSET (Marks \cup {"empty"}), cite: Int]
Work     == [drafts: Nat, discarded: BOOLEAN, rows: BOOLEAN, results: BOOLEAN]

\* Drafts are counted with the tool calls, of which a special route has none.
WorkCounted ==
    /\ output \in Produced /\ rule \in Rules /\ work \in Work
    /\ work.drafts + batch.drafts <= usage.calls
    /\ route # "scheduling" => phase # "tools" /\ usage.calls = 0

\* The calls that run were counted against the limit when they started, each tool
\* that asked for a retry has one left, and a call waits for approval only when the
\* answered responses left neither a draft nor a discard.
BatchInBounds ==
    phase = "tools" =>
        /\ usage.calls + Len(batch.calls) <= ToolCallsLimit
        /\ \A t \in batch.failed : retries.tool[t] < RetriesLimit
        /\ batch.pending > 0 => work.drafts = 0 /\ ~work.discarded

EndsOnce == phase # "ended" => outcome = Running

TurnInvariant ==
    /\ TurnTypeOK /\ WorkCounted /\ BatchInBounds /\ EndsOnce
    /\ CompletedTurnCitesItsDraft /\ SuspensionFollowsNoDraft
    /\ SlipsAreNotFatal /\ OffTopicNeverAnswered /\ BudgetFailureIsReal

\* A turn starts with nothing done.
LEMMA TurnInitial == TurnInit => TurnInvariant
  <1> SUFFICES ASSUME TurnInit
               PROVE  TurnInvariant
    OBVIOUS
  <1>1. TurnTypeOK
    <2>1. NoBatch \in Batch
      BY DEF NoBatch, Batch
    <2> QED
      BY <2>1, RuntimeAssumption DEF TurnInit, TurnTypeOK, Running
  <1>2. WorkCounted
    <2>1. output \in Produced
      BY DEF TurnInit, Blank, Produced, OutputKinds, Old
    <2>2. rule \in Rules /\ work \in Work /\ work.drafts + batch.drafts <= usage.calls
      BY DEF TurnInit, Rules, Work, NoBatch
    <2> QED
      BY <2>1, <2>2 DEF WorkCounted, TurnInit
  <1>3. outcome.status = "running" /\ outcome.reason = "none"
    BY DEF TurnInit, Running
  <1>4. route # "scheduling" => usage.calls = 0
    BY DEF TurnInit
  <1>5. outcome = Running /\ BatchInBounds
    BY DEF TurnInit, BatchInBounds
  <1> QED
    BY <1>1, <1>2, <1>3, <1>4, <1>5
       DEF TurnInvariant, EndsOnce, CompletedTurnCitesItsDraft, SuspensionFollowsNoDraft,
           SlipsAreNotFatal, OffTopicNeverAnswered, BudgetFailureIsReal

\* The counters of a turn.
LEMMA TurnFacts ==
    ASSUME TurnTypeOK, WorkCounted
    PROVE  /\ usage.requests \in 0..RequestLimit /\ usage.calls \in 0..ToolCallsLimit
           /\ usage.over \in BOOLEAN /\ retries.output \in 0..RetriesLimit
           /\ retries.tool \in [Granted -> 0..RetriesLimit] /\ work.drafts \in Nat
           /\ work.discarded \in BOOLEAN /\ work.rows \in BOOLEAN
           /\ work.results \in BOOLEAN
           /\ batch.calls \in Seq(Granted) /\ batch.failed \subseteq Granted
           /\ batch.pending \in Nat /\ batch.drafts \in Nat /\ batch.discarded \in BOOLEAN
           /\ output.kind \in OutputKinds /\ output.cite \in Int
           /\ RequestLimit \in Nat /\ ToolCallsLimit \in Nat /\ RetriesLimit \in Nat
           /\ TransientRetries \in Nat
  <1>1. /\ usage.requests \in 0..RequestLimit /\ usage.calls \in 0..ToolCallsLimit
        /\ usage.over \in BOOLEAN /\ retries.output \in 0..RetriesLimit
        /\ retries.tool \in [Granted -> 0..RetriesLimit]
    BY DEF TurnTypeOK
  <1>4. /\ batch.calls \in Seq(Granted) /\ batch.failed \subseteq Granted
        /\ batch.pending \in Nat /\ batch.drafts \in Nat /\ batch.discarded \in BOOLEAN
    BY DEF TurnTypeOK, Batch
  <1>2. /\ work.drafts \in Nat /\ work.discarded \in BOOLEAN /\ work.rows \in BOOLEAN
        /\ work.results \in BOOLEAN
    BY DEF WorkCounted, Work
  <1>3. output.kind \in OutputKinds /\ output.cite \in Int
    BY DEF WorkCounted, Produced
  <1> QED
    BY <1>1, <1>2, <1>3, <1>4, RuntimeAssumption

\* A step that stays in the loop keeps the invariant when it keeps the counters.
LEMMA LoopFrame ==
    ASSUME TurnInvariant, phase # "ended", TurnTypeOK', WorkCounted', BatchInBounds',
           UNCHANGED outcome, phase' # "ended"
    PROVE  TurnInvariant'
  <1>1. outcome' = Running
    BY DEF TurnInvariant, EndsOnce
  <1>2. outcome'.status = "running" /\ outcome'.reason = "none"
    BY <1>1 DEF Running
  <1>3. (route # "scheduling" => usage.calls = 0)'
    BY DEF WorkCounted
  <1> QED
    BY <1>1, <1>2, <1>3
       DEF TurnInvariant, EndsOnce, CompletedTurnCitesItsDraft, SuspensionFollowsNoDraft,
           SlipsAreNotFatal, OffTopicNeverAnswered, BudgetFailureIsReal

Statuses == {"running", "completed", "suspended", "timed_out", "failed", "provider_error",
             "invalid_output", "runtime_error"}

\* An end is honest when its status and reason agree with what the run left behind.
LEMMA EndFrame ==
    ASSUME TurnInvariant, NEW status \in Statuses, NEW reason, NEW source, NEW form,
           End(status, reason, source, form), UNCHANGED <<batch, output, usage, work>>,
           rule' \in Rules,
           status = "completed" =>
               /\ work.drafts > 0 => form.kind = "draft"
               /\ form.kind = "draft" => form.cite \in 1..work.drafts
               /\ route = "out_of_scope" => form.kind = "fixed_refusal",
           status = "suspended" => work.drafts = 0 /\ ~work.discarded,
           status = "invalid_output" /\ rejectedBy' = "rule" =>
               reason \in {"empty_answer", "quantity_without_claim", "claim_gap",
                           "draft_output_without_draft"},
           reason = "budget_exhausted" /\ source = "agent" =>
               usage.requests >= RequestLimit \/ usage.over
    PROVE  TurnInvariant'
  <1>1. /\ outcome'.status = status /\ outcome'.reason = reason /\ outcome'.source = source
        /\ outcome'.form = form /\ phase' = "ended"
        /\ UNCHANGED <<route, asks, attempt, retries, batch, output, usage, work>>
    BY DEF End
  <1>2. TurnTypeOK'
    BY <1>1 DEF TurnInvariant, TurnTypeOK, Statuses
  <1>3. WorkCounted'
    BY <1>1 DEF TurnInvariant, WorkCounted
  <1>4. EndsOnce' /\ BatchInBounds'
    BY <1>1 DEF EndsOnce, BatchInBounds
  <1>5. CompletedTurnCitesItsDraft' /\ SuspensionFollowsNoDraft' /\ SlipsAreNotFatal'
    BY <1>1 DEF CompletedTurnCitesItsDraft, SuspensionFollowsNoDraft, SlipsAreNotFatal
  <1>6. OffTopicNeverAnswered'
    BY <1>1 DEF OffTopicNeverAnswered, TurnInvariant
  <1>7. BudgetFailureIsReal'
    BY <1>1 DEF BudgetFailureIsReal
  <1> QED
    BY <1>2, <1>3, <1>4, <1>5, <1>6, <1>7 DEF TurnInvariant

\* The record a draft citation is.
LEMMA DraftOutputFields ==
    ASSUME NEW d
    PROVE  DraftOutput(d).kind = "draft" /\ DraftOutput(d).cite = d
  BY DEF DraftOutput, Blank

\* Giving up delivers the draft of this run when there is one.
LEMMA GiveUpKeeps ==
    ASSUME TurnInvariant, GiveUp, rule' \in Rules,
           work.drafts = 0 /\ rejectedBy' = "rule" =>
               rule' \in {"empty_answer", "quantity_without_claim", "claim_gap",
                          "draft_output_without_draft"}
    PROVE  TurnInvariant'
  <1>0. TurnTypeOK /\ WorkCounted /\ work.drafts \in Nat
    BY TurnFacts DEF TurnInvariant
  <1>1. UNCHANGED <<batch, output, usage, work>>
    BY DEF GiveUp
  <1>2. CASE work.drafts > 0
    <2>1. LatestDraft = work.drafts /\ LatestDraft # NoDraft
      BY <1>0, <1>2 DEF LatestDraft, NoDraft
    <2>2. End("completed", "none", "none", DraftOutput(work.drafts))
      BY <2>1 DEF GiveUp
    <2>3. work.drafts \in 1..work.drafts /\ route = "scheduling"
      <3>1. batch.drafts \in Nat /\ usage.calls \in Nat
        BY <1>0, TurnFacts
      <3> QED
        BY <1>0, <1>2, <3>1 DEF WorkCounted
    <2>4. "completed" \in Statuses
      BY DEF Statuses
    <2> QED
      BY <1>1, <2>2, <2>3, <2>4, DraftOutputFields, EndFrame
  <1>3. CASE work.drafts = 0
    <2>1. LatestDraft = NoDraft
      BY <1>3 DEF LatestDraft
    <2>2. PICK r : r = rule'
      OBVIOUS
    <2>3. End("invalid_output", r, "agent", Blank)
      BY <2>1, <2>2 DEF GiveUp
    <2>4. "invalid_output" \in Statuses /\ r # "budget_exhausted"
      BY <2>2 DEF Statuses, Rules
    <2> QED
      BY <1>1, <1>3, <2>2, <2>3, <2>4, EndFrame
  <1> QED
    BY <1>0, <1>2, <1>3

\* The ends the framework, the provider, the deadline and a tool bring.
LEMMA EndsKeep ==
    ASSUME TurnInvariant,
           \/ Deadline \/ OutOfBudget \/ ProviderFails \/ ToolsSuspend
           \/ \E b \in BOOLEAN : ToolFails("budget_exhausted", b)
    PROVE  TurnInvariant'
  <1>0. TurnTypeOK /\ WorkCounted /\ rule \in Rules
    BY DEF TurnInvariant, WorkCounted
  <1>1. {"timed_out", "failed", "provider_error", "suspended", "runtime_error"} \subseteq Statuses
    BY DEF Statuses
  <1>2. CASE Deadline
    <2>1. End("timed_out", "none", "agent", Blank) /\ UNCHANGED <<batch, output, usage, rule, work>>
      BY <1>2 DEF Deadline
    <2> QED
      BY <1>0, <1>1, <2>1, EndFrame
  <1>3. CASE OutOfBudget
    <2>1. /\ End("failed", "budget_exhausted", "agent", Blank)
          /\ UNCHANGED <<batch, output, usage, rule, work>>
          /\ usage.requests >= RequestLimit \/ usage.over
      BY <1>3 DEF OutOfBudget, LimitHit
    <2> QED
      BY <1>0, <1>1, <2>1, EndFrame
  <1>4. CASE ProviderFails
    <2>1. /\ End("provider_error", "provider_error", "agent", Blank)
          /\ UNCHANGED <<batch, output, usage, rule, work>>
      BY <1>4 DEF ProviderFails
    <2> QED
      BY <1>0, <1>1, <2>1, EndFrame
  <1>6. CASE ToolsSuspend
    <2>1. /\ End("suspended", "none", "none", Blank)
          /\ UNCHANGED <<batch, output, usage, rule, work>>
          /\ work.drafts = 0 /\ ~work.discarded
      BY <1>6 DEF ToolsSuspend, TurnInvariant, BatchInBounds
    <2> QED
      BY <1>0, <1>1, <2>1, EndFrame
  <1>7. ASSUME NEW b \in BOOLEAN, ToolFails("budget_exhausted", b)
        PROVE  TurnInvariant'
    <2>1. UNCHANGED <<batch, output, usage, rule, work>>
      BY <1>7 DEF ToolFails
    <2>2. CASE b
      <3>1. End("failed", "budget_exhausted", "capability", Blank)
        BY <1>7, <2>2 DEF ToolFails
      <3> QED
        BY <1>0, <1>1, <2>1, <3>1, EndFrame
    <2>3. CASE ~b
      <3>1. End("runtime_error", "none", "agent", Blank)
        BY <1>7, <2>3 DEF ToolFails
      <3> QED
        BY <1>0, <1>1, <2>1, <3>1, EndFrame
    <2> QED
      BY <2>2, <2>3
  <1> QED
    BY <1>2, <1>3, <1>4, <1>6, <1>7

\* A request that is answered stays within the ceiling.
LEMMA RequestCounted ==
    ASSUME TurnTypeOK, WorkCounted, NEW o \in BOOLEAN,
           usage' = [usage EXCEPT !.requests = Counted, !.over = o]
    PROVE  /\ usage' \in [requests: 0..RequestLimit, calls: 0..ToolCallsLimit, over: BOOLEAN]
           /\ usage'.calls = usage.calls
  <1>1. usage \in [requests: 0..RequestLimit, calls: 0..ToolCallsLimit, over: BOOLEAN]
    BY DEF TurnTypeOK
  <1>2. Counted \in 0..RequestLimit
    BY TurnFacts DEF Counted
  <1> QED
    BY <1>1, <1>2

\* What the model may offer is well formed.
LEMMA OutputsProduced ==
    ASSUME TurnTypeOK, WorkCounted, NEW o \in Outputs
    PROVE  o \in Produced
  <1>0. work.drafts \in Nat
    BY TurnFacts
  <1>1. ASSUME NEW m \in SUBSET (Marks \cup {"empty"})
        PROVE  Answer(m) \in Produced
    <2>1. Blank \in Produced
      BY DEF Blank, Produced, OutputKinds, Old
    <2>2. "answer" \in OutputKinds
      BY DEF OutputKinds
    <2> QED
      BY <2>1, <2>2 DEF Answer, Produced
  <1>2. \A d \in Int : DraftOutput(d) \in Produced
    BY DEF DraftOutput, Blank, Produced, OutputKinds, Old
  <1>3. \A k \in OutputKinds : [Blank EXCEPT !.kind = k] \in Produced
    BY DEF Blank, Produced, Old
  <1>4. {"refusal", "malformed", "clarification"} \subseteq OutputKinds
    BY DEF OutputKinds
  <1>5. (0..work.drafts) \cup {Garbled} \subseteq Int
    BY <1>0 DEF Garbled
  <1>6. \/ \E m \in SUBSET Marks : o = Answer(m)
        \/ o = Answer({"empty"})
        \/ o \in {[Blank EXCEPT !.kind = "refusal"], [Blank EXCEPT !.kind = "malformed"],
                  [Blank EXCEPT !.kind = "clarification"]}
        \/ \E d \in (0..work.drafts) \cup {Garbled} : o = DraftOutput(d)
    <2>1. CASE route = "scheduling"
      BY <2>1, Zenon DEF Outputs
    <2>2. CASE route = "direct"
      BY <2>2, Zenon DEF Outputs
    <2>3. CASE route = "out_of_scope"
      BY <2>3, Zenon DEF Outputs
    <2> QED
      BY <2>1, <2>2, <2>3 DEF TurnTypeOK, Routes
  <1> QED
    BY <1>1, <1>2, <1>3, <1>4, <1>5, <1>6

\* Only a scheduling turn is offered tools to call.
LEMMA CallsOfRoute ==
    ASSUME NEW s \in Calls
    PROVE  s \in Seq(Granted) /\ route = "scheduling"
  <1>1. PICK n \in 1..MaxBatch : s \in [1..n -> Granted]
    BY DEF Calls
  <1>2. n \in Nat /\ 1 \in DOMAIN s
    BY <1>1, RuntimeAssumption
  <1>3. s[1] \in Tools
    BY <1>2 DEF Calls
  <1> QED
    BY <1>1, <1>2, <1>3 DEF Tools

\* A model request: a transient failure, tool calls, an offer.
LEMMA RequestKeeps ==
    ASSUME TurnInvariant,
           \/ ProviderHiccup \/ \E s \in Calls : CallTools(s) \/ CallTooMany(s)
           \/ \E o \in Outputs : Offer(o)
    PROVE  TurnInvariant'
  <1>0. TurnTypeOK /\ WorkCounted /\ BatchInBounds
    BY DEF TurnInvariant
  <1>1. CASE ProviderHiccup
    <2>1. /\ UNCHANGED <<route, asks, phase, batch, output, usage, retries, rule, work, outcome>>
          /\ attempt' = attempt + 1 /\ attempt < TransientRetries /\ phase = "model"
      BY <1>1 DEF ProviderHiccup
    <2>2. attempt' \in 0..TransientRetries
      BY <1>0, <2>1, RuntimeAssumption DEF TurnTypeOK
    <2>3. TurnTypeOK' /\ WorkCounted' /\ BatchInBounds'
      BY <1>0, <2>1, <2>2 DEF TurnTypeOK, WorkCounted, BatchInBounds
    <2> QED
      BY <2>1, <2>3, LoopFrame
  <1>2. ASSUME NEW s \in Calls, CallTools(s)
        PROVE  TurnInvariant'
    <2>1. /\ UNCHANGED <<route, asks, output, retries, rule, work, outcome>>
          /\ batch' = [NoBatch EXCEPT !.calls = s] /\ attempt' = 0
          /\ phase = "model" /\ phase' = "tools" /\ usage.calls + Len(s) <= ToolCallsLimit
      BY <1>2 DEF CallTools, Answered
    <2>2. s \in Seq(Granted) /\ route = "scheduling"
      BY CallsOfRoute
    <2>3. PICK o \in BOOLEAN : usage' = [usage EXCEPT !.requests = Counted, !.over = o]
      BY <1>2 DEF CallTools, Answered
    <2>4. /\ usage' \in [requests: 0..RequestLimit, calls: 0..ToolCallsLimit, over: BOOLEAN]
          /\ usage'.calls = usage.calls
      BY <1>0, <2>3, RequestCounted
    <2>5. batch' \in Batch /\ batch'.drafts = 0 /\ batch'.calls = s /\ batch'.failed = {}
          /\ batch'.pending = 0
      BY <2>1, <2>2 DEF NoBatch, Batch
    <2>6. TurnTypeOK'
      BY <1>0, <2>1, <2>4, <2>5, RuntimeAssumption DEF TurnTypeOK
    <2>7. WorkCounted'
      <3>1. work.drafts <= usage.calls
        BY <1>0, TurnFacts DEF WorkCounted
      <3> QED
        BY <1>0, <2>1, <2>2, <2>4, <2>5, <3>1, TurnFacts DEF WorkCounted
    <2>8. BatchInBounds'
      BY <2>1, <2>4, <2>5 DEF BatchInBounds
    <2> QED
      BY <2>1, <2>6, <2>7, <2>8, LoopFrame
  <1>4. ASSUME NEW s \in Calls, CallTooMany(s)
        PROVE  TurnInvariant'
    <2>1. /\ UNCHANGED <<route, asks, output, retries, rule, rejectedBy, work, attempt>>
          /\ batch' = [NoBatch EXCEPT !.calls = s]
          /\ phase' = "ended" /\ usage.calls + Len(s) > ToolCallsLimit
          /\ outcome' = [status |-> "failed", reason |-> "budget_exhausted",
                         source |-> "agent", form |-> Blank]
      BY <1>4 DEF CallTooMany, End
    <2>2. s \in Seq(Granted) /\ route = "scheduling"
      BY CallsOfRoute
    <2>3. PICK o \in BOOLEAN : usage' = [usage EXCEPT !.requests = Counted, !.over = o]
      BY <1>4 DEF CallTooMany, Answered
    <2>4. /\ usage' \in [requests: 0..RequestLimit, calls: 0..ToolCallsLimit, over: BOOLEAN]
          /\ usage'.calls = usage.calls
      BY <1>0, <2>3, RequestCounted
    <2>5. batch' \in Batch /\ batch'.drafts = 0 /\ batch'.calls = s
      BY <2>1, <2>2 DEF NoBatch, Batch
    <2>6. TurnTypeOK'
      BY <1>0, <2>1, <2>4, <2>5 DEF TurnTypeOK
    <2>7. WorkCounted' /\ BatchInBounds' /\ EndsOnce'
      <3>1. work.drafts <= usage.calls
        BY <1>0, TurnFacts DEF WorkCounted
      <3> QED
        BY <1>0, <2>1, <2>2, <2>4, <2>5, <3>1, TurnFacts DEF WorkCounted, BatchInBounds, EndsOnce
    <2>8. /\ CompletedTurnCitesItsDraft' /\ SuspensionFollowsNoDraft' /\ SlipsAreNotFatal'
          /\ OffTopicNeverAnswered' /\ BudgetFailureIsReal'
      BY <2>1, <2>2, <2>4, <2>5
         DEF CompletedTurnCitesItsDraft, SuspensionFollowsNoDraft, SlipsAreNotFatal,
             OffTopicNeverAnswered, BudgetFailureIsReal
    <2> QED
      BY <2>6, <2>7, <2>8 DEF TurnInvariant
  <1>3. ASSUME NEW o \in Outputs, Offer(o)
        PROVE  TurnInvariant'
    <2>1. /\ UNCHANGED <<route, asks, batch, retries, rule, work, outcome>> /\ output' = o
          /\ attempt' = 0 /\ phase = "model" /\ phase' = "output"
      BY <1>3 DEF Offer, Answered
    <2>2. output' \in Produced
      BY <1>0, <2>1, OutputsProduced
    <2>3. PICK v \in BOOLEAN : usage' = [usage EXCEPT !.requests = Counted, !.over = v]
      BY <1>3 DEF Offer, Answered
    <2>4. /\ usage' \in [requests: 0..RequestLimit, calls: 0..ToolCallsLimit, over: BOOLEAN]
          /\ usage'.calls = usage.calls
      BY <1>0, <2>3, RequestCounted
    <2>5. TurnTypeOK'
      BY <1>0, <2>1, <2>4, RuntimeAssumption DEF TurnTypeOK
    <2>6. WorkCounted' /\ BatchInBounds'
      BY <1>0, <2>1, <2>2, <2>4 DEF WorkCounted, BatchInBounds
    <2> QED
      BY <2>1, <2>5, <2>6, LoopFrame
  <1> QED
    BY <1>1, <1>2, <1>3, <1>4

\* The calls that are left when one of them has ended.
LEMMA WithoutCall ==
    ASSUME NEW s \in Seq(Granted), NEW i \in 1..Len(s)
    PROVE  Without(s, i) \in Seq(Granted) /\ Len(Without(s, i)) = Len(s) - 1
  <1>1. Len(s) \in Nat /\ Len(s) - 1 \in Nat
    OBVIOUS
  <1>2. Without(s, i) \in [1..(Len(s) - 1) -> Granted]
    BY <1>1 DEF Without
  <1> QED
    BY <1>1, <1>2

\* A call that is refused, waits for approval or returns: a draft is counted with its
\* call.
LEMMA ToolKeeps ==
    ASSUME TurnInvariant, NEW i \in 1..Len(batch.calls),
           ToolRefuses(i) \/ ToolSuspends(i) \/ ToolReturns(i)
    PROVE  TurnInvariant'
  <1>0. TurnTypeOK /\ WorkCounted /\ BatchInBounds /\ rule \in Rules /\ batch \in Batch
    BY DEF TurnInvariant, WorkCounted, TurnTypeOK
  <1> DEFINE t == batch.calls[i]
             rest == Without(batch.calls, i)
  <1>r. /\ rest \in Seq(Granted) /\ Len(rest) = Len(batch.calls) - 1 /\ t \in Granted
        /\ Len(batch.calls) \in Nat
    <2>1. batch.calls \in Seq(Granted)
      BY <1>0, TurnFacts
    <2>2. batch.calls[i] \in Granted /\ Len(batch.calls) \in Nat
      BY <2>1
    <2>3. /\ Without(batch.calls, i) \in Seq(Granted)
          /\ Len(Without(batch.calls, i)) = Len(batch.calls) - 1
      BY <2>1, WithoutCall
    <2> QED
      BY <2>2, <2>3
  <1> HIDE DEF rest
  <1>1. CASE ToolRefuses(i)
    <2>1. phase = "tools" /\ rejectedBy' = "tool" /\ rule' = rule
      BY <1>1 DEF ToolRefuses
    <2>2. CASE retries.tool[t] >= RetriesLimit
      <3>1. GiveUp
        BY <1>1, <2>2 DEF ToolRefuses
      <3> QED
        BY <1>0, <2>1, <3>1, GiveUpKeeps
    <2>3. CASE ~(retries.tool[t] >= RetriesLimit)
      <3>1. /\ batch' = [batch EXCEPT !.calls = rest, !.failed = @ \cup {t}]
            /\ UNCHANGED <<route, asks, phase, output, attempt, usage, retries, work, outcome>>
        BY <1>1, <2>3 DEF ToolRefuses, rest
      <3>2. /\ batch' \in Batch /\ batch'.calls = rest /\ batch'.failed = batch.failed \cup {t}
            /\ batch'.pending = batch.pending /\ batch'.drafts = batch.drafts
        BY <1>0, <1>r, <3>1 DEF Batch
      <3>3. retries.tool[t] < RetriesLimit
        BY <1>0, <1>r, <2>3, TurnFacts
      <3>4. TurnTypeOK' /\ WorkCounted'
        BY <1>0, <2>1, <3>1, <3>2 DEF TurnTypeOK, WorkCounted
      <3>5. BatchInBounds'
        <4>1. usage.calls \in Nat /\ ToolCallsLimit \in Nat /\ Len(rest) <= Len(batch.calls)
              /\ Len(rest) \in Nat
          <5>1. Len(rest) \in Nat /\ usage.calls \in Nat /\ ToolCallsLimit \in Nat
            BY <1>0, <1>r, TurnFacts
          <5> QED
            BY <1>r, <5>1
        <4>2. usage.calls + Len(rest) <= ToolCallsLimit
          BY <1>0, <1>r, <2>1, <4>1 DEF BatchInBounds
        <4>3. \A u \in batch.failed \cup {t} : retries.tool[u] < RetriesLimit
          BY <1>0, <2>1, <3>3 DEF BatchInBounds
        <4>4. batch.pending > 0 => work.drafts = 0 /\ ~work.discarded
          BY <1>0, <2>1 DEF BatchInBounds
        <4> QED
          BY <3>1, <3>2, <4>2, <4>3, <4>4 DEF BatchInBounds
      <3> QED
        BY <2>1, <3>1, <3>4, <3>5, LoopFrame
    <2> QED
      BY <2>2, <2>3
  <1>2. CASE ToolSuspends(i)
    <2>1. /\ batch' = [batch EXCEPT !.calls = rest, !.pending = @ + 1] /\ phase = "tools"
          /\ work.drafts = 0 /\ ~work.discarded
          /\ UNCHANGED <<route, asks, phase, output, attempt, usage, retries, rule, work, outcome>>
      BY <1>2 DEF ToolSuspends, BaselineAsks, rest
    <2>2. /\ batch' \in Batch /\ batch'.calls = rest /\ batch'.failed = batch.failed
          /\ batch'.drafts = batch.drafts
      <3>1. batch.pending + 1 \in Nat
        BY <1>0, TurnFacts
      <3> QED
        BY <1>0, <1>r, <2>1, <3>1 DEF Batch
    <2>3. TurnTypeOK' /\ WorkCounted'
      BY <1>0, <2>1, <2>2 DEF TurnTypeOK, WorkCounted
    <2>4. BatchInBounds'
      <3>1. usage.calls \in Nat /\ ToolCallsLimit \in Nat /\ Len(rest) \in Nat
        BY <1>0, <1>r, TurnFacts
      <3>2. usage.calls + Len(rest) <= ToolCallsLimit
        BY <1>0, <1>r, <2>1, <3>1 DEF BatchInBounds
      <3> QED
        BY <1>0, <2>1, <2>2, <3>2 DEF BatchInBounds
    <2> QED
      BY <2>1, <2>3, <2>4, LoopFrame
  <1>3. CASE ToolReturns(i)
    <2>1. /\ UNCHANGED <<route, asks, phase, output, attempt, retries, rule, outcome>>
          /\ phase = "tools" /\ usage' = [usage EXCEPT !.calls = @ + 1]
      BY <1>3 DEF ToolReturns
    <2>2. PICK n \in {0, 1}, d \in BOOLEAN :
             batch' = [batch EXCEPT !.calls = rest, !.drafts = @ + n, !.discarded = d]
      <3>1. batch' = [batch EXCEPT !.calls = rest, !.drafts = @ + (IF t = "draft" THEN 1 ELSE 0),
                                   !.discarded = @ \/ t = "discard"]
        BY <1>3 DEF ToolReturns, rest
      <3>2. (batch.discarded \/ t = "discard") \in BOOLEAN
        OBVIOUS
      <3> QED
        BY <3>1, <3>2
    <2>3. /\ batch' \in Batch /\ batch'.calls = rest /\ batch'.failed = batch.failed
          /\ batch'.pending = batch.pending /\ batch'.drafts <= batch.drafts + 1
          /\ batch'.drafts \in Nat
      <3>1. batch.drafts + n \in Nat /\ batch.drafts + n <= batch.drafts + 1
        BY <1>0, TurnFacts
      <3> QED
        BY <1>0, <1>r, <2>2, <3>1 DEF Batch
    <2>4. work' \in Work /\ work'.drafts = work.drafts /\ work'.discarded = work.discarded
      <3>1. work \in Work
        BY <1>0 DEF WorkCounted
      <3>2. PICK b, e \in BOOLEAN : work' = [work EXCEPT !.rows = b, !.results = e]
        <4>1. (work.rows \/ t = "inspect") \in BOOLEAN /\ (work.results \/ t = "compute") \in BOOLEAN
          OBVIOUS
        <4> QED
          BY <1>3, <4>1 DEF ToolReturns
      <3> QED
        BY <3>1, <3>2 DEF Work
    <2>5. /\ usage' \in [requests: 0..RequestLimit, calls: 0..ToolCallsLimit, over: BOOLEAN]
          /\ usage'.calls = usage.calls + 1 /\ usage'.calls + Len(rest) <= ToolCallsLimit
      <3>1. /\ usage \in [requests: 0..RequestLimit, calls: 0..ToolCallsLimit, over: BOOLEAN]
            /\ usage.calls + Len(batch.calls) <= ToolCallsLimit
        BY <1>0, <2>1 DEF TurnTypeOK, BatchInBounds
      <3>2. usage.calls \in Nat /\ ToolCallsLimit \in Nat /\ Len(rest) \in Nat
        BY <1>0, <1>r, TurnFacts
      <3>3. usage.calls + 1 \in 0..ToolCallsLimit /\ usage.calls + 1 + Len(rest) <= ToolCallsLimit
        BY <1>r, <3>1, <3>2
      <3> QED
        BY <2>1, <3>1, <3>3
    <2>6. route = "scheduling"
      BY <1>0, <2>1 DEF WorkCounted
    <2>7. TurnTypeOK'
      BY <1>0, <2>1, <2>3, <2>4, <2>5 DEF TurnTypeOK
    <2>8. WorkCounted'
      <3>1. work'.drafts + batch'.drafts <= usage'.calls
        <4>1. work.drafts + batch.drafts <= usage.calls /\ work.drafts \in Nat
              /\ batch.drafts \in Nat /\ usage.calls \in Nat
          BY <1>0, TurnFacts DEF WorkCounted
        <4> QED
          BY <2>3, <2>4, <2>5, <4>1
      <3> QED
        BY <1>0, <2>1, <2>4, <2>6, <3>1 DEF WorkCounted
    <2>9. BatchInBounds'
      BY <1>0, <2>1, <2>3, <2>4, <2>5 DEF BatchInBounds
    <2> QED
      BY <2>1, <2>7, <2>8, <2>9, LoopFrame
  <1> QED
    BY <1>1, <1>2, <1>3

\* The response is answered: its drafts join those of the turn, and a tool that asked
\* for a retry has used one.
LEMMA AnswerKeeps ==
    ASSUME TurnInvariant, ToolsAnswer
    PROVE  TurnInvariant'
  <1>0. TurnTypeOK /\ WorkCounted /\ BatchInBounds
    BY DEF TurnInvariant
  <1>1. /\ UNCHANGED <<route, asks, output, attempt, usage, rule, outcome>>
        /\ phase = "tools" /\ phase' = "model" /\ batch' = NoBatch
        /\ work' = [work EXCEPT !.drafts = @ + batch.drafts, !.discarded = @ \/ batch.discarded]
    BY DEF ToolsAnswer
  <1>2. retries' \in [output: 0..RetriesLimit, tool: [Granted -> 0..RetriesLimit]]
    <2>1. retries \in [output: 0..RetriesLimit, tool: [Granted -> 0..RetriesLimit]]
      BY <1>0 DEF TurnTypeOK
    <2>2. PICK f : /\ f = [t \in Granted |-> IF t \in batch.failed THEN retries.tool[t] + 1 ELSE 0]
                   /\ retries' = [retries EXCEPT !.tool = f]
      BY DEF ToolsAnswer
    <2>3. ASSUME NEW t \in Granted
          PROVE  (IF t \in batch.failed THEN retries.tool[t] + 1 ELSE 0) \in 0..RetriesLimit
      <3>1. t \in batch.failed => retries.tool[t] < RetriesLimit
        BY <1>0, <1>1 DEF BatchInBounds
      <3>2. retries.tool[t] \in 0..RetriesLimit /\ RetriesLimit \in Nat
        BY <1>0, TurnFacts
      <3> QED
        BY <3>1, <3>2
    <2>4. f \in [Granted -> 0..RetriesLimit]
      BY <2>2, <2>3
    <2> QED
      BY <2>1, <2>2, <2>4
  <1>3. NoBatch \in Batch /\ NoBatch.drafts = 0
    BY DEF NoBatch, Batch
  <1>4. work' \in Work /\ work'.drafts = work.drafts + batch.drafts
    <2>1. work \in Work /\ batch.drafts \in Nat /\ batch.discarded \in BOOLEAN
          /\ work.discarded \in BOOLEAN /\ work.drafts \in Nat
      BY <1>0, TurnFacts DEF WorkCounted
    <2>2. work.drafts + batch.drafts \in Nat /\ (work.discarded \/ batch.discarded) \in BOOLEAN
      BY <2>1
    <2> QED
      BY <1>1, <2>1, <2>2 DEF Work
  <1>5. work'.drafts \in 0..ToolCallsLimit
    BY <1>0, <1>4, TurnFacts DEF WorkCounted
  <1>6. TurnTypeOK'
    BY <1>0, <1>1, <1>2, <1>3, <1>5 DEF TurnTypeOK
  <1>7. WorkCounted' /\ BatchInBounds'
    BY <1>0, <1>1, <1>3, <1>4, TurnFacts DEF WorkCounted, BatchInBounds
  <1> QED
    BY <1>1, <1>6, <1>7, LoopFrame

\* The validators' rules, and which of them refuse a last offer.
LEMMA BrokenRules ==
    ASSUME NEW o
    PROVE  /\ BrokenRule(o) \in Rules
           /\ LastAttempt /\ work.drafts = 0 /\ BrokenRule(o) # "none" =>
                 BrokenRule(o) \in {"empty_answer", "quantity_without_claim", "claim_gap",
                                    "draft_output_without_draft"}
  <1>1. UncitedClaim(o) \in Rules
    BY DEF UncitedClaim, Rules
  <1>2. LastAttempt => UncitedClaim(o) \in {"none", "empty_answer", "quantity_without_claim",
                                           "claim_gap"}
    BY DEF UncitedClaim
  <1>3. DraftRule(o) \in Rules
    BY DEF DraftRule, Rules
  <1>4. work.drafts = 0 => DraftRule(o) \in {"none", "draft_output_without_draft"}
    BY DEF DraftRule
  <1> QED
    BY <1>1, <1>2, <1>3, <1>4 DEF BrokenRule

\* An offer sent back.
LEMMA RetryKeeps ==
    ASSUME TurnInvariant, NEW by, phase = "output", OutputRetry(by), rule' \in Rules,
           LastAttempt /\ work.drafts = 0 /\ by = "rule" =>
               rule' \in {"empty_answer", "quantity_without_claim", "claim_gap",
                          "draft_output_without_draft"}
    PROVE  TurnInvariant'
  <1>0. TurnTypeOK /\ WorkCounted /\ rejectedBy' = by
    BY DEF TurnInvariant, OutputRetry
  <1>1. CASE LastAttempt
    <2>1. GiveUp
      BY <1>1 DEF OutputRetry
    <2> QED
      BY <1>0, <1>1, <2>1, GiveUpKeeps
  <1>2. CASE ~LastAttempt
    <2>1. /\ retries' = [retries EXCEPT !.output = @ + 1] /\ phase' = "model" /\ output' = Blank
          /\ UNCHANGED <<route, asks, batch, attempt, usage, work, outcome>>
      BY <1>2 DEF OutputRetry
    <2>2. retries.output + 1 \in 0..RetriesLimit
      BY <1>0, <1>2, TurnFacts DEF LastAttempt
    <2>3. retries' \in [output: 0..RetriesLimit, tool: [Granted -> 0..RetriesLimit]]
      BY <1>0, <2>1, <2>2 DEF TurnTypeOK
    <2>4. output' \in Produced
      BY <2>1 DEF Blank, Produced, OutputKinds, Old
    <2>5. TurnTypeOK'
      BY <1>0, <2>1, <2>3 DEF TurnTypeOK
    <2>6. WorkCounted' /\ BatchInBounds'
      BY <1>0, <2>1, <2>4 DEF WorkCounted, BatchInBounds
    <2> QED
      BY <2>1, <2>5, <2>6, LoopFrame
  <1> QED
    BY <1>1, <1>2

\* A malformed, a refused and an accepted offer.
LEMMA OutputKeeps ==
    ASSUME TurnInvariant, OutputMalformed \/ OutputRejected \/ OutputAccepted
    PROVE  TurnInvariant'
  <1>0. /\ TurnTypeOK /\ WorkCounted /\ rule \in Rules /\ output \in Produced
        /\ work.drafts \in Nat
    BY TurnFacts DEF TurnInvariant, WorkCounted
  <1>1. CASE OutputMalformed
    BY <1>0, <1>1, RetryKeeps DEF OutputMalformed
  <1>2. CASE OutputRejected
    <2>1. /\ phase = "output" /\ OutputRetry("rule") /\ rule' = BrokenRule(output)
          /\ BrokenRule(output) # "none"
      BY <1>2 DEF OutputRejected
    <2> QED
      BY <2>1, BrokenRules, RetryKeeps
  <1>3. CASE OutputAccepted
    <2>1. /\ End("completed", "none", "none", Accepted(output))
          /\ UNCHANGED <<batch, output, usage, rule, work>> /\ BrokenRule(output) = "none"
      BY <1>3 DEF OutputAccepted
    <2>2. DraftRule(output) = "none"
      BY <2>1 DEF BrokenRule
    <2>3. (output.kind = "draft" <=> work.drafts > 0) /\ output.kind # "fixed_refusal"
      <3>1. output.kind \in OutputKinds
        BY <1>0, TurnFacts
      <3> QED
        BY <1>0, <2>2, <3>1 DEF DraftRule, OutputKinds
    <2>4. /\ work.drafts > 0 => Accepted(output).kind = "draft"
          /\ Accepted(output).kind = "draft" => Accepted(output).cite \in 1..work.drafts
          /\ route = "out_of_scope" => Accepted(output).kind = "fixed_refusal"
      <3>1. CASE route = "out_of_scope"
        <4>1. Accepted(output).kind = "fixed_refusal" /\ work.drafts = 0
          <5>1. usage.calls = 0 /\ batch.drafts \in Nat /\ work.drafts <= 0
            BY <1>0, <3>1, TurnFacts DEF WorkCounted
          <5> QED
            BY <1>0, <3>1, <5>1 DEF Accepted, Blank
        <4> QED
          BY <4>1
      <3>2. CASE route # "out_of_scope" /\ output.kind = "draft" /\ output.cite \notin 1..work.drafts
        <4>1. Accepted(output) = [output EXCEPT !.cite = LatestDraft] /\ LatestDraft = work.drafts
          BY <2>3, <3>2 DEF Accepted, LatestDraft
        <4>2. Accepted(output).kind = "draft" /\ Accepted(output).cite = work.drafts
          BY <1>0, <3>2, <4>1 DEF Produced
        <4> QED
          BY <1>0, <2>3, <3>2, <4>2
      <3>3. CASE route # "out_of_scope" /\ ~(output.kind = "draft" /\ output.cite \notin 1..work.drafts)
        <4>1. Accepted(output) = output
          BY <3>3 DEF Accepted
        <4> QED
          BY <2>3, <3>3, <4>1
      <3> QED
        BY <3>1, <3>2, <3>3
    <2>5. "completed" \in Statuses
      BY DEF Statuses
    <2> QED
      BY <1>0, <2>1, <2>4, <2>5, EndFrame
  <1> QED
    BY <1>1, <1>2, <1>3

\* The turn's invariant holds for every set of granted tools and every limit: what a
\* turn ends with agrees with the work it left behind (run_turn).
THEOREM TurnInvariantHolds == TurnSpec => []TurnInvariant
  <1>1. ASSUME TurnInvariant, [TakeTurn]_turnVars
        PROVE  TurnInvariant'
    <2> USE <1>1
    <2>1. CASE TakeTurn
      BY <2>1, EndsKeep, RequestKeeps, ToolKeeps, AnswerKeeps, OutputKeeps DEF TakeTurn, TurnStep
    <2>2. CASE UNCHANGED turnVars
      <3>1. TurnTypeOK' /\ WorkCounted' /\ BatchInBounds' /\ EndsOnce'
        BY <2>2 DEF turnVars, TurnInvariant, TurnTypeOK, WorkCounted, BatchInBounds, EndsOnce
      <3>2. /\ CompletedTurnCitesItsDraft' /\ SuspensionFollowsNoDraft'
            /\ SlipsAreNotFatal' /\ OffTopicNeverAnswered' /\ BudgetFailureIsReal'
        BY <2>2 DEF turnVars, TurnInvariant, CompletedTurnCitesItsDraft,
                    SuspensionFollowsNoDraft, SlipsAreNotFatal, OffTopicNeverAnswered,
                    BudgetFailureIsReal
      <3> QED
        BY <3>1, <3>2 DEF TurnInvariant
    <2> QED
      BY <2>1, <2>2
  <1> QED
    BY <1>1, TurnInitial, PTL DEF TurnSpec

\* A completed turn that was told of a draft cites a draft of this very turn, and no
\* response after it learned of a draft or a discard suspends the turn over them
\* (_require_draft_output_after_drafting, _latest_draft_id_this_run, and the check of
\* scheduling_baseline).  What a sibling of the suspended call made is not covered.
THEOREM TurnWorkTheorem == TurnSpec => []TurnDeliversItsWork
  BY TurnInvariantHolds, PTL DEF TurnInvariant, TurnDeliversItsWork

\* A turn ends with the reason it is shown with: no slip is fatal by itself, the
\* out-of-scope route shows its fixed refusal, and an agent's exhausted budget is one
\* that was reached (_reject_uncited_claim, run_turn's exception mapping).
THEOREM TurnEndTheorem == TurnSpec => []TurnEndIsHonest
  BY TurnInvariantHolds, PTL DEF TurnInvariant, TurnEndIsHonest

----------------------------------------------------------------------------
(* Sign-in, sessions and their tokens (SignIn).                               *)

\* How far a callback has come: it has consumed a handshake; it may have ended
\* without a session.
Opened == {"consumed", "identified", "signed in", "oidc_identity_rejected",
           "identity_not_provisioned", "session_store_unavailable"}
CallbackPcs == Opened \cup {"idle", "invalid_login_handshake"}
RequestPcs == {"idle", "sent", "admitted", "served", "authentication_required",
               "csrf_validation_failed"}

CallbackRow == [pc : CallbackPcs, login : Logins \cup {None}, code : Codes \cup {None},
                subject : Subjects \cup {None}, identity : Nat, expires : Nat]
RequestRow == [pc : RequestPcs, token : Callbacks \cup {None}, kind : Kinds,
               csrf : CsrfToken \cup {None}, own : BOOLEAN, late : BOOLEAN, at : Nat]

\* The types of every variable, SignInTypeOK's part included.
Types ==
    /\ now \in 0..Horizon /\ secret \in Secrets /\ member \in BOOLEAN
    /\ user \in [exists : BOOLEAN, disabled : BOOLEAN]
    /\ handed \subseteq CsrfToken
    /\ handshake \in [Logins -> HandshakeRow \cup {None}]
    /\ code \in [Codes -> CodeRow \cup {None}]
    /\ callback \in [Callbacks -> CallbackRow]
    /\ session \in [Callbacks -> SessionRow \cup {None}]
    /\ request \in [Requests -> RequestRow]

\* A callback that got past the handshake spent it, alone, and brought a code.
Spent ==
    /\ \A k \in Callbacks : callback[k].pc \in Opened =>
          /\ callback[k].login \in Logins /\ callback[k].code \in Codes
          /\ handshake[callback[k].login] # None /\ handshake[callback[k].login].consumed
          /\ code[callback[k].code] # None
    /\ \A j, k \in Callbacks :
          (callback[j].pc \in Opened /\ callback[k].pc \in Opened
              /\ callback[j].login = callback[k].login) => j = k

\* An identity is the one that answered the login, and bounds the session.
Identified ==
    \A k \in Callbacks : callback[k].pc \in {"identified", "signed in"} =>
        /\ code[callback[k].code].login = callback[k].login
        /\ code[callback[k].code].subject = callback[k].subject
        /\ callback[k].expires <= callback[k].identity

\* A session is what its callback earned.
Earned ==
    \A k \in Callbacks :
        /\ session[k] # None <=> callback[k].pc = "signed in"
        /\ session[k] # None =>
              callback[k].subject = Planner /\ session[k].expires = callback[k].expires

\* A CSRF token in circulation is the one its session derives.
Tokens ==
    /\ \A t \in handed : session[t.token] # None /\ session[t.token].secret = t.secret
    /\ \A r \in Requests : request[r].csrf = None \/ request[r].csrf \in handed

\* A request under way or answered.
Requested ==
    \A r \in Requests :
        /\ request[r].at <= now
        /\ request[r].pc # "idle" => request[r].token \in Callbacks /\ session[request[r].token] # None
        /\ request[r].pc = "sent" /\ request[r].late => Over(request[r].token)
        /\ request[r].pc \in {"admitted", "served"} =>
              /\ ~request[r].late
              /\ request[r].at < callback[request[r].token].identity
              /\ request[r].kind # "read" =>
                    request[r].csrf # None /\ request[r].csrf.token = request[r].token
        /\ request[r].pc = "csrf_validation_failed" /\ request[r].own /\ request[r].csrf # None =>
              request[r].csrf.token # request[r].token

SignInInvariant == Types /\ Spent /\ Identified /\ Earned /\ Tokens /\ Requested

-----------------------------------------------------------------------------
(* What the constants and the types give.                                    *)

\* Lifetimes are positive numbers.
LEMMA Lifetimes ==
    /\ HandshakeTTL \in Nat /\ CodeTTL \in Nat /\ SessionTTL \in Nat /\ Horizon \in Nat
    /\ \A t \in IdentityTTLs : t \in Nat
  BY SignInAssumption

\* A row that is there has the type of a row.
LEMMA RowTypes ==
    ASSUME Types
    PROVE  /\ now \in Nat
           /\ \A l \in Logins : handshake[l] # None => handshake[l] \in HandshakeRow
           /\ \A c \in Codes : code[c] # None => code[c] \in CodeRow
           /\ \A k \in Callbacks : session[k] # None => session[k] \in SessionRow
  BY Lifetimes DEF Types

\* A signed-out or expired session stays so while its row is only revoked.
LEMMA OverStays ==
    ASSUME Types, NEW k \in Callbacks, Over(k), session[k] # None,
           now' \in Nat, now' >= now, session'[k].expires = session[k].expires,
           session[k].revoked => session'[k].revoked
    PROVE  Over(k)'
  <1>1. now \in Nat /\ session[k].expires \in Nat
    BY RowTypes DEF SessionRow
  <1> QED
    BY <1>1 DEF Over

-----------------------------------------------------------------------------
(* The deployment around the requests.                                       *)

\* Provisioning, an operator's changes, a new secret and time touch no row of a
\* sign-in; what ran out stays so.
LEMMA AroundStep ==
    ASSUME SignInInvariant,
           \/ ProvisionSeedPlanner \/ DisableUser \/ RevokeMembership \/ RotateSecret \/ Tick
    PROVE  SignInInvariant'
  <1>1. /\ UNCHANGED <<handshake, code, callback, session, handed, request>>
        /\ Types /\ Spent /\ Identified /\ Earned /\ Tokens /\ Requested
    BY DEF ProvisionSeedPlanner, DisableUser, RevokeMembership, RotateSecret, Tick, SignInInvariant
  <1>2. /\ now' \in 0..Horizon /\ now' >= now /\ now \in Nat
    BY <1>1, Lifetimes DEF ProvisionSeedPlanner, DisableUser, RevokeMembership, RotateSecret, Tick, Types
  <1>3. secret' \in Secrets /\ member' \in BOOLEAN /\ user' \in [exists : BOOLEAN, disabled : BOOLEAN]
    BY <1>1 DEF ProvisionSeedPlanner, DisableUser, RevokeMembership, RotateSecret, Tick, Types
  <1>4. Types'
    BY <1>1, <1>2, <1>3 DEF Types
  <1>5. Spent' /\ Identified' /\ Earned' /\ Tokens'
    BY <1>1 DEF Spent, Identified, Earned, Tokens
  <1>6. ASSUME NEW r \in Requests
        PROVE  /\ request'[r].at <= now'
               /\ request[r].pc = "sent" /\ request[r].late => Over(request[r].token)'
    <2>1. request[r].at \in Nat /\ request[r].at <= now
      BY <1>1 DEF Types, RequestRow, Requested
    <2>2. ASSUME request[r].pc = "sent", request[r].late
          PROVE  Over(request[r].token)'
      <3>1. request[r].token \in Callbacks /\ session[request[r].token] # None
            /\ Over(request[r].token)
        BY <1>1, <2>2 DEF Requested
      <3> QED
        BY <1>1, <1>2, <3>1, Lifetimes, OverStays
    <2> QED
      BY <1>1, <1>2, <2>1, <2>2, Lifetimes
  <1>7. Requested'
    BY <1>1, <1>6 DEF Requested, Over
  <1> QED
    BY <1>4, <1>5, <1>7 DEF SignInInvariant

-----------------------------------------------------------------------------
(* Login, the provider, the callback.                                        *)

\* A new handshake is one nobody has consumed.
LEMMA LoginStep ==
    ASSUME SignInInvariant, NEW l \in Logins, Login(l)
    PROVE  SignInInvariant'
  <1>1. /\ UNCHANGED <<now, secret, user, member, code, callback, session, handed, request>>
        /\ handshake[l] = None /\ handshake' = [handshake EXCEPT ![l] = NewHandshake]
        /\ Types /\ Spent /\ Identified /\ Earned /\ Tokens /\ Requested
    BY DEF Login, SignInInvariant
  <1>2. NewHandshake \in HandshakeRow
    BY <1>1, RowTypes, Lifetimes DEF NewHandshake, HandshakeRow
  <1>3. Types'
    BY <1>1, <1>2 DEF Types
  <1>4. Spent'
    BY <1>1 DEF Spent, Types
  <1>5. Identified' /\ Earned' /\ Tokens' /\ Requested'
    BY <1>1 DEF Identified, Earned, Tokens, Requested, Over
  <1> QED
    BY <1>3, <1>4, <1>5 DEF SignInInvariant

\* A new code is one no callback has brought yet.
LEMMA AuthorizeStep ==
    ASSUME SignInInvariant, NEW l \in Logins, Authorize(l)
    PROVE  SignInInvariant'
  <1>1. /\ UNCHANGED <<now, secret, user, member, handshake, callback, session, handed, request>>
        /\ Types /\ Spent /\ Identified /\ Earned /\ Tokens /\ Requested
    BY DEF Authorize, SignInInvariant
  <1>2. PICK s \in Subjects, c \in Codes :
           /\ code[c] = None
           /\ code' = [code EXCEPT ![c] =
                 [login |-> l, subject |-> s, expires |-> now + CodeTTL, used |-> FALSE]]
    BY DEF Authorize
  <1>3. [login |-> l, subject |-> s, expires |-> now + CodeTTL, used |-> FALSE] \in CodeRow
    BY <1>1, RowTypes, Lifetimes DEF CodeRow
  <1>4. Types'
    BY <1>1, <1>2, <1>3 DEF Types
  <1>5. \A d \in Codes : code[d] # None => code'[d] = code[d]
    BY <1>1, <1>2 DEF Types
  <1>6. Spent'
    BY <1>1, <1>5 DEF Spent
  <1>7. Identified'
    <2>1. \A k \in Callbacks : callback[k].pc \in {"identified", "signed in"} =>
             code'[callback[k].code] = code[callback[k].code]
      BY <1>1, <1>5 DEF Spent, Opened
    <2> QED
      BY <1>1, <2>1 DEF Identified
  <1>8. Earned' /\ Tokens' /\ Requested'
    BY <1>1 DEF Earned, Tokens, Requested, Over
  <1> QED
    BY <1>4, <1>6, <1>7, <1>8 DEF SignInInvariant

\* A callback that changes no session and is not signed in leaves the sessions
\* and the requests as they are.
LEMMA CallbackFrame ==
    ASSUME SignInInvariant, NEW k \in Callbacks,
           UNCHANGED <<now, session, handed, request>>,
           callback[k].pc # "signed in", callback'[k].pc # "signed in",
           \A j \in Callbacks \ {k} : callback'[j] = callback[j]
    PROVE  Earned' /\ Tokens' /\ Requested'
  <1>1. Types /\ Earned /\ Tokens /\ Requested
    BY DEF SignInInvariant
  <1>2. session[k] = None
    BY <1>1 DEF Earned
  <1>3. Earned'
    BY <1>1, <1>2 DEF Earned
  <1>4. Tokens'
    BY <1>1 DEF Tokens
  <1>5. \A r \in Requests : request[r].pc # "idle" =>
           callback'[request[r].token] = callback[request[r].token]
    BY <1>1, <1>2 DEF Requested
  <1>6. Requested'
    BY <1>1, <1>5 DEF Requested, Over
  <1> QED
    BY <1>3, <1>4, <1>6

\* consume_login_handshake lets one callback through per handshake.
LEMMA ConsumeStep ==
    ASSUME SignInInvariant, NEW k \in Callbacks, ConsumeHandshake(k)
    PROVE  SignInInvariant'
  <1>1. /\ UNCHANGED <<now, secret, user, member, code, session, handed, request>>
        /\ callback[k].pc = "idle"
        /\ Types /\ Spent /\ Identified /\ Earned /\ Tokens /\ Requested
    BY DEF ConsumeHandshake, SignInInvariant
  <1>2. callback[k] \in CallbackRow
    BY <1>1 DEF Types
  <1>3. PICK l \in Logins, c \in Codes :
           /\ handshake[l] # None /\ code[c] # None
           /\ IF HandshakeUsable(l)
              THEN /\ handshake' = [handshake EXCEPT ![l].consumed = TRUE]
                   /\ callback' = [callback EXCEPT ![k] =
                          [@ EXCEPT !.pc = "consumed", !.login = l, !.code = c]]
              ELSE /\ callback' = [callback EXCEPT ![k].pc = "invalid_login_handshake"]
                   /\ UNCHANGED handshake
    BY DEF ConsumeHandshake
  <1>4. CASE HandshakeUsable(l)
    <2>1. /\ handshake' = [handshake EXCEPT ![l].consumed = TRUE]
          /\ callback' = [callback EXCEPT ![k] =
                 [callback[k] EXCEPT !.pc = "consumed", !.login = l, !.code = c]]
          /\ ~handshake[l].consumed
      BY <1>3, <1>4 DEF HandshakeUsable
    <2>2. handshake[l] \in HandshakeRow
      BY <1>1, <1>3, RowTypes
    <2>3. /\ callback'[k].pc = "consumed" /\ callback'[k].login = l /\ callback'[k].code = c
          /\ callback' \in [Callbacks -> CallbackRow]
          /\ \A j \in Callbacks \ {k} : callback'[j] = callback[j]
      BY <1>1, <1>2, <2>1 DEF Types, CallbackRow, CallbackPcs, Opened
    <2>4. /\ handshake' \in [Logins -> HandshakeRow \cup {None}]
          /\ handshake'[l] \in HandshakeRow /\ handshake'[l].consumed
          /\ \A m \in Logins \ {l} : handshake'[m] = handshake[m]
      BY <1>1, <2>1, <2>2 DEF Types, HandshakeRow
    <2>5. Types'
      BY <1>1, <2>3, <2>4 DEF Types
    <2>6. \A j \in Callbacks : callback[j].pc \in Opened => callback[j].login # l
      BY <1>1, <2>1 DEF Spent
    <2>7. Spent'
      <3>1. handshake'[l] # None
        BY <2>4, NoneAssumption
      <3>2. callback[k].pc \notin Opened
        BY <1>1 DEF Opened
      <3>3. \A j \in Callbacks : callback'[j].pc \in Opened =>
               /\ callback'[j].login \in Logins /\ callback'[j].code \in Codes
               /\ handshake'[callback'[j].login] # None
               /\ handshake'[callback'[j].login].consumed
               /\ code'[callback'[j].code] # None
        BY <1>1, <1>3, <2>3, <2>4, <2>6, <3>1 DEF Spent
      <3>4. \A i, j \in Callbacks :
               (callback'[i].pc \in Opened /\ callback'[j].pc \in Opened
                   /\ callback'[i].login = callback'[j].login) => i = j
        BY <1>1, <2>3, <2>6 DEF Spent
      <3> QED
        BY <3>3, <3>4 DEF Spent
    <2>8. Identified'
      BY <1>1, <2>3 DEF Identified
    <2>9. Earned' /\ Tokens' /\ Requested'
      BY <1>1, <2>3, CallbackFrame
    <2> QED
      BY <2>5, <2>7, <2>8, <2>9 DEF SignInInvariant
  <1>5. CASE ~HandshakeUsable(l)
    <2>1. callback' = [callback EXCEPT ![k].pc = "invalid_login_handshake"] /\ UNCHANGED handshake
      BY <1>3, <1>5
    <2>2. /\ callback'[k].pc = "invalid_login_handshake"
          /\ callback' \in [Callbacks -> CallbackRow]
          /\ \A j \in Callbacks \ {k} : callback'[j] = callback[j]
      BY <1>1, <1>2, <2>1 DEF Types, CallbackRow, CallbackPcs
    <2>3. Types'
      BY <1>1, <2>1, <2>2 DEF Types
    <2>4. Spent' /\ Identified'
      BY <1>1, <2>1, <2>2 DEF Spent, Identified, Opened
    <2>5. Earned' /\ Tokens' /\ Requested'
      BY <1>1, <2>2, CallbackFrame
    <2> QED
      BY <2>3, <2>4, <2>5 DEF SignInInvariant
  <1> QED
    BY <1>4, <1>5

\* The provider takes a code once; the identity it answers with is the one that
\* answered the login of the handshake.
LEMMA ExchangeKeeps ==
    ASSUME SignInInvariant, NEW k \in Callbacks, ExchangeCode(k)
    PROVE  SignInInvariant'
  <1> DEFINE c == callback[k].code
             l == callback[k].login
  <1>1. /\ UNCHANGED <<now, secret, user, member, handshake, session, handed, request>>
        /\ callback[k].pc = "consumed"
        /\ code' = [code EXCEPT ![c].used = TRUE]
        /\ Types /\ Spent /\ Identified /\ Earned /\ Tokens /\ Requested
    BY DEF ExchangeCode, SignInInvariant
  <1>2. /\ callback[k] \in CallbackRow /\ c \in Codes /\ l \in Logins /\ code[c] \in CodeRow
        /\ now \in Nat
    BY <1>1, RowTypes DEF Types, Spent, Opened
  <1>3. /\ code' \in [Codes -> CodeRow \cup {None}]
        /\ \A d \in Codes : code[d] # None =>
              /\ code'[d] # None
              /\ code'[d].login = code[d].login /\ code'[d].subject = code[d].subject
    <2>1. code'[c] \in CodeRow /\ code'[c].login = code[c].login
          /\ code'[c].subject = code[c].subject
      BY <1>1, <1>2 DEF Types, CodeRow
    <2>2. \A d \in Codes \ {c} : code'[d] = code[d]
      BY <1>1 DEF Types
    <2>3. code' \in [Codes -> CodeRow \cup {None}]
      BY <1>1, <1>2, <2>1, <2>2 DEF Types
    <2> QED
      BY <2>1, <2>2, <2>3, NoneAssumption
  <1>4. /\ callback' \in [Callbacks -> CallbackRow]
        /\ \A j \in Callbacks \ {k} : callback'[j] = callback[j]
        /\ callback'[k].login = l /\ callback'[k].code = c
        /\ callback'[k].pc \in {"identified", "oidc_identity_rejected"}
        /\ callback'[k].pc = "identified" =>
              /\ code[c].login = l /\ code[c].subject = callback'[k].subject
              /\ callback'[k].expires <= callback'[k].identity
    <2>1. CASE CodeAccepted(c, l) /\ \E ttl \in IdentityTTLs :
                  callback' = [callback EXCEPT ![k] = [@ EXCEPT
                      !.pc = "identified", !.subject = code[c].subject,
                      !.identity = now + ttl, !.expires = SessionExpiry(now + ttl)]]
      <3>1. PICK ttl \in IdentityTTLs :
                callback' = [callback EXCEPT ![k] = [callback[k] EXCEPT
                      !.pc = "identified", !.subject = code[c].subject,
                      !.identity = now + ttl, !.expires = SessionExpiry(now + ttl)]]
        BY <2>1
      <3>2. /\ now + ttl \in Nat /\ SessionExpiry(now + ttl) \in Nat
            /\ SessionExpiry(now + ttl) <= now + ttl
        <4>1. ttl \in Nat /\ SessionTTL \in Nat
          BY Lifetimes
        <4> QED
          BY <1>2, <4>1 DEF SessionExpiry, Min2
      <3>3. code[c].subject \in Subjects /\ code[c].login = l
        BY <1>2, <2>1 DEF CodeRow, CodeAccepted
      <3>4. /\ callback'[k] \in CallbackRow
            /\ callback'[k].login = l /\ callback'[k].code = c
            /\ callback'[k].pc = "identified" /\ callback'[k].subject = code[c].subject
            /\ callback'[k].identity = now + ttl /\ callback'[k].expires = SessionExpiry(now + ttl)
        BY <1>1, <1>2, <3>1, <3>2, <3>3 DEF Types, CallbackRow, CallbackPcs, Opened
      <3>5. \A j \in Callbacks \ {k} : callback'[j] = callback[j]
        BY <1>1, <3>1 DEF Types
      <3>6. callback' \in [Callbacks -> CallbackRow]
        BY <1>1, <3>1, <3>4, <3>5 DEF Types
      <3> QED
        BY <3>2, <3>3, <3>4, <3>5, <3>6
    <2>2. CASE callback' = [callback EXCEPT ![k].pc = "oidc_identity_rejected"]
      BY <1>1, <1>2, <2>2 DEF Types, CallbackRow, CallbackPcs, Opened
    <2> QED
      BY <2>1, <2>2 DEF ExchangeCode
  <1> HIDE DEF c, l
  <1>5. Types'
    BY <1>1, <1>3, <1>4 DEF Types
  <1>6. Spent'
    <2>1. \A j \in Callbacks : callback'[j].pc \in Opened => callback[j].pc \in Opened
      BY <1>1, <1>4 DEF Opened
    <2>2. \A j \in Callbacks : callback'[j].login = callback[j].login
                               /\ callback'[j].code = callback[j].code
      BY <1>4 DEF c, l
    <2> QED
      BY <1>1, <1>3, <2>1, <2>2 DEF Spent
  <1>7. Identified'
    <2>1. ASSUME NEW j \in Callbacks, callback'[j].pc \in {"identified", "signed in"}
          PROVE  /\ code'[callback'[j].code].login = callback'[j].login
                 /\ code'[callback'[j].code].subject = callback'[j].subject
                 /\ callback'[j].expires <= callback'[j].identity
      <3>1. CASE j = k
        <4>1. code[c] # None
          BY <1>2, NoneAssumption
        <4> QED
          BY <1>2, <1>3, <1>4, <2>1, <3>1, <4>1
      <3>2. CASE j # k
        <4>1. callback'[j] = callback[j] /\ callback[j].code \in Codes
              /\ code[callback[j].code] # None
          BY <1>1, <1>4, <2>1, <3>2 DEF Spent, Opened
        <4> QED
          BY <1>1, <1>3, <2>1, <4>1, ZenonT(30) DEF Identified
      <3> QED
        BY <3>1, <3>2
    <2> QED
      BY <2>1 DEF Identified
  <1>8. Earned' /\ Tokens' /\ Requested'
    BY <1>1, <1>4, CallbackFrame
  <1> QED
    BY <1>5, <1>6, <1>7, <1>8 DEF SignInInvariant

\* establish_session_for_subject creates the session of a callback, once, for
\* the provisioned planner only; or the session store fails.
LEMMA EstablishStep ==
    ASSUME SignInInvariant, NEW k \in Callbacks, EstablishSession(k) \/ StoreFails(k)
    PROVE  SignInInvariant'
  <1>1. /\ UNCHANGED <<now, secret, user, member, handshake, code, handed, request>>
        /\ callback[k].pc = "identified"
        /\ Types /\ Spent /\ Identified /\ Earned /\ Tokens /\ Requested
    BY DEF EstablishSession, StoreFails, SignInInvariant
  <1>2. PICK p \in {"signed in", "identity_not_provisioned", "session_store_unavailable"} :
           /\ callback' = [callback EXCEPT ![k].pc = p]
           /\ p = "signed in" =>
                 /\ callback[k].subject = Planner
                 /\ session' = [session EXCEPT ![k] =
                       [expires |-> callback[k].expires, revoked |-> FALSE, secret |-> secret]]
           /\ p # "signed in" => UNCHANGED session
    BY DEF EstablishSession, StoreFails, Provisioned
  <1>3. /\ callback' \in [Callbacks -> CallbackRow] /\ callback'[k].pc = p
        /\ \A j \in Callbacks \ {k} : callback'[j] = callback[j]
        /\ callback'[k].login = callback[k].login /\ callback'[k].code = callback[k].code
        /\ callback'[k].subject = callback[k].subject
        /\ callback'[k].expires = callback[k].expires
        /\ callback'[k].identity = callback[k].identity
    <2>1. callback[k] \in CallbackRow
      BY <1>1 DEF Types
    <2> QED
      BY <1>1, <1>2, <2>1 DEF Types, CallbackRow, CallbackPcs, Opened
  <1>4. Spent'
    <2>1. \A j \in Callbacks : callback'[j].pc \in Opened => callback[j].pc \in Opened
      BY <1>1, <1>3 DEF Opened
    <2>2. \A j \in Callbacks : callback'[j].login = callback[j].login
                               /\ callback'[j].code = callback[j].code
      BY <1>3
    <2> QED
      BY <1>1, <2>1, <2>2 DEF Spent
  <1>5. Identified'
    <2>1. \A j \in Callbacks :
             /\ callback'[j].pc \in {"identified", "signed in"} =>
                   callback[j].pc \in {"identified", "signed in"}
             /\ callback'[j].login = callback[j].login /\ callback'[j].code = callback[j].code
             /\ callback'[j].subject = callback[j].subject
             /\ callback'[j].expires = callback[j].expires
             /\ callback'[j].identity = callback[j].identity
      BY <1>1, <1>3
    <2> QED
      BY <1>1, <2>1 DEF Identified
  <1>6. CASE p # "signed in"
    <2>1. Types'
      BY <1>1, <1>2, <1>3, <1>6 DEF Types
    <2>2. Earned' /\ Tokens' /\ Requested'
      BY <1>1, <1>2, <1>3, <1>6, CallbackFrame
    <2> QED
      BY <1>4, <1>5, <2>1, <2>2 DEF SignInInvariant
  <1>7. CASE p = "signed in"
    <2> DEFINE row == [expires |-> callback[k].expires, revoked |-> FALSE, secret |-> secret]
    <2>1. row \in SessionRow /\ row # None /\ row.expires = callback[k].expires
      <3>1. callback[k] \in CallbackRow /\ secret \in Secrets
        BY <1>1 DEF Types
      <3>2. row \in SessionRow
        BY <3>1 DEF CallbackRow, SessionRow
      <3> QED
        BY <3>2, NoneAssumption
    <2>2. session' = [session EXCEPT ![k] = row] /\ callback[k].subject = Planner
      BY <1>2, <1>7
    <2> HIDE DEF row
    <2>3. /\ session' \in [Callbacks -> SessionRow \cup {None}] /\ session'[k] = row
          /\ \A j \in Callbacks \ {k} : session'[j] = session[j]
      BY <1>1, <2>1, <2>2 DEF Types
    <2>4. session[k] = None
      BY <1>1 DEF Earned
    <2>5. Types'
      BY <1>1, <1>3, <2>3 DEF Types
    <2>6. Earned'
      BY <1>1, <1>3, <1>7, <2>1, <2>2, <2>3, ZenonT(30) DEF Earned
    <2>7. Tokens'
      <3>1. \A t \in handed : t.token \in Callbacks
        BY <1>1 DEF Types, CsrfToken
      <3> QED
        BY <1>1, <2>3, <2>4, <3>1 DEF Tokens
    <2>8. \A r \in Requests : request[r].pc # "idle" =>
             /\ request[r].token # k
             /\ callback'[request[r].token] = callback[request[r].token]
             /\ session'[request[r].token] = session[request[r].token]
      BY <1>1, <1>3, <2>3, <2>4 DEF Requested
    <2>9. Requested'
      BY <1>1, <2>8 DEF Requested, Over
    <2> QED
      BY <1>4, <1>5, <2>5, <2>6, <2>7, <2>9 DEF SignInInvariant
  <1> QED
    BY <1>6, <1>7

-----------------------------------------------------------------------------
(* Requests that carry a session cookie.                                     *)

\* GET /auth/session hands out the token its session derives.
LEMMA ReadStep ==
    ASSUME SignInInvariant, NEW k \in Callbacks, ReadSession(k)
    PROVE  SignInInvariant'
  <1>1. /\ UNCHANGED <<now, secret, user, member, handshake, code, callback, session, request>>
        /\ session[k] # None /\ session[k].secret = secret
        /\ handed' = handed \cup {[token |-> k, secret |-> secret]}
        /\ Types /\ Spent /\ Identified /\ Earned /\ Tokens /\ Requested
    BY DEF ReadSession, DerivedMatches, SignInInvariant
  <1>2. [token |-> k, secret |-> secret] \in CsrfToken
    BY <1>1 DEF Types, CsrfToken
  <1>3. Types'
    BY <1>1, <1>2 DEF Types
  <1>4. Tokens'
    BY <1>1 DEF Tokens
  <1>5. Spent' /\ Identified' /\ Earned' /\ Requested'
    BY <1>1 DEF Spent, Identified, Earned, Requested, Over
  <1> QED
    BY <1>3, <1>4, <1>5 DEF SignInInvariant

\* A step of request r alone.
LEMMA RequestFrame ==
    ASSUME SignInInvariant, NEW r \in Requests, NEW q \in RequestRow,
           request' = [request EXCEPT ![r] = q],
           UNCHANGED <<now, secret, user, member, handshake, code, callback, session, handed>>,
           q.csrf = None \/ q.csrf \in handed,
           q.at <= now,
           q.pc # "idle" => q.token \in Callbacks /\ session[q.token] # None,
           q.pc = "sent" /\ q.late => Over(q.token),
           q.pc \in {"admitted", "served"} =>
              /\ ~q.late
              /\ q.at < callback[q.token].identity
              /\ q.kind # "read" => q.csrf # None /\ q.csrf.token = q.token,
           q.pc = "csrf_validation_failed" /\ q.own /\ q.csrf # None => q.csrf.token # q.token
    PROVE  SignInInvariant'
  <1>1. Types /\ Spent /\ Identified /\ Earned /\ Tokens /\ Requested
    BY DEF SignInInvariant
  <1>2. request'[r] = q /\ \A k \in Requests \ {r} : request'[k] = request[k]
    BY <1>1 DEF Types
  <1>3. Types'
    BY <1>1 DEF Types
  <1>4. Spent' /\ Identified' /\ Earned'
    BY <1>1 DEF Spent, Identified, Earned
  <1>5. Tokens'
    BY <1>1, <1>2 DEF Tokens
  <1>6. Requested'
    BY <1>1, <1>2 DEF Requested, Over
  <1> QED
    BY <1>3, <1>4, <1>5, <1>6 DEF SignInInvariant

\* A request leaves the page with a token some session handed out, or none.
LEMMA SendStep ==
    ASSUME SignInInvariant, NEW r \in Requests, Send(r)
    PROVE  SignInInvariant'
  <1>1. Types
    BY DEF SignInInvariant
  <1>2. PICK k \in Callbacks, kind \in Kinds, csrf \in handed \cup {NoCsrf}, own \in BOOLEAN :
           /\ session[k] # None
           /\ request' = [request EXCEPT ![r] =
                 [pc |-> "sent", token |-> k, kind |-> kind, csrf |-> csrf, own |-> own,
                  late |-> Over(k), at |-> now]]
    BY DEF Send
  <1> DEFINE q == [pc |-> "sent", token |-> k, kind |-> kind, csrf |-> csrf, own |-> own,
                   late |-> Over(k), at |-> now]
  <1>3. Over(k) \in BOOLEAN
    BY DEF Over
  <1>4. q \in RequestRow
    <2>1. now \in Nat /\ csrf \in CsrfToken \cup {None}
      BY <1>1, RowTypes DEF Types, NoCsrf
    <2> QED
      BY <1>3, <2>1 DEF RequestRow, RequestPcs
  <1>5. /\ q.pc = "sent" /\ q.token = k /\ q.csrf = csrf /\ q.at = now /\ q.late = Over(k)
    OBVIOUS
  <1>6. request' = [request EXCEPT ![r] = q]
    BY <1>2
  <1>7. UNCHANGED <<now, secret, user, member, handshake, code, callback, session, handed>>
    BY DEF Send
  <1>8. csrf = None \/ csrf \in handed
    BY DEF NoCsrf
  <1>9. q.at <= now
    BY <1>1, <1>5, RowTypes
  <1> HIDE DEF q
  <1> QED
    BY <1>2, <1>4, <1>5, <1>6, <1>7, <1>8, <1>9, RequestFrame

\* enforce_versioned_session_and_csrf: only a session that has not ended is
\* admitted, and a write only with the session's own token.
LEMMA MiddlewareStep ==
    ASSUME SignInInvariant, NEW r \in Requests, Middleware(r)
    PROVE  SignInInvariant'
  <1> DEFINE p == request[r]
             out == IF ~ResolveSession(p.token) THEN "authentication_required"
                    ELSE IF p.kind # "read" /\ ~CsrfValid(p) THEN "csrf_validation_failed"
                    ELSE "admitted"
             q == [p EXCEPT !.at = now, !.pc = out]
  <1>1. /\ Types /\ Spent /\ Identified /\ Earned /\ Tokens /\ Requested
        /\ p.pc = "sent" /\ request' = [request EXCEPT ![r] = q]
        /\ UNCHANGED <<now, secret, user, member, handshake, code, callback, session, handed>>
    BY DEF Middleware, SignInInvariant
  <1>2. p \in RequestRow /\ now \in Nat /\ p.token \in Callbacks /\ session[p.token] # None
        /\ session[p.token] \in SessionRow
    BY <1>1, RowTypes DEF Types, Requested
  <1>3. out \in RequestPcs \ {"idle", "sent", "served"}
    BY DEF RequestPcs
  <1>4. out = "admitted" =>
           /\ ResolveSession(p.token) /\ (p.kind = "read" \/ CsrfValid(p))
    OBVIOUS
  <1>5. out = "csrf_validation_failed" => ~CsrfValid(p)
    OBVIOUS
  <1> HIDE DEF out
  <1>6. /\ q \in RequestRow /\ q.pc = out /\ q.at = now /\ q.token = p.token
        /\ q.csrf = p.csrf /\ q.own = p.own /\ q.late = p.late /\ q.kind = p.kind
    BY <1>2, <1>3 DEF RequestRow
  <1> HIDE DEF q
  <1>7. p.csrf = None \/ p.csrf \in handed
    BY <1>1 DEF Tokens
  <1>8. ASSUME out = "admitted"
        PROVE  /\ ~q.late
               /\ q.at < callback[q.token].identity
               /\ q.kind # "read" => q.csrf # None /\ q.csrf.token = q.token
    <2>1. ~Over(p.token)
      BY <1>4, <1>8 DEF ResolveSession
    <2>2. ~q.late
      BY <1>1, <1>6, <2>1 DEF Requested
    <2>3. q.at < callback[q.token].identity
      <3>1. /\ session[p.token].expires \in Nat /\ ~(session[p.token].expires <= now)
            /\ session[p.token].expires = callback[p.token].expires
        BY <1>1, <1>2, <2>1 DEF Over, SessionRow, Earned
      <3>2. /\ callback[p.token].expires <= callback[p.token].identity
            /\ callback[p.token].identity \in Nat
        BY <1>1, <1>2 DEF Earned, Identified, Types, CallbackRow
      <3> QED
        BY <1>2, <1>6, <3>1, <3>2
    <2>4. p.kind # "read" => p.csrf # None /\ p.csrf.token = p.token
      <3>1. p.kind # "read" => /\ p.csrf # None
                               /\ p.csrf = [token |-> p.token, secret |-> session[p.token].secret]
        BY <1>4, <1>8 DEF CsrfValid, NoCsrf
      <3> QED
        BY <3>1
    <2> QED
      BY <1>6, <2>2, <2>3, <2>4
  <1>9. ASSUME out = "csrf_validation_failed", p.own, p.csrf # None
        PROVE  p.csrf.token # p.token
    <2>1. p.csrf # [token |-> p.token, secret |-> session[p.token].secret]
      BY <1>5, <1>9 DEF CsrfValid, NoCsrf
    <2>2. p.csrf \in CsrfToken /\ session[p.csrf.token].secret = p.csrf.secret
      BY <1>1, <1>7, <1>9 DEF Types, Tokens
    <2>3. p.csrf = [token |-> p.csrf.token, secret |-> p.csrf.secret]
      BY <2>2 DEF CsrfToken
    <2> QED
      BY <2>1, <2>2, <2>3
  <1>10. q.at <= now
    BY <1>2, <1>6
  <1> QED
    BY <1>1, <1>2, <1>3, <1>6, <1>7, <1>8, <1>9, <1>10, RequestFrame

\* The handler runs; signing out revokes the session and nothing else.
LEMMA ServeStep ==
    ASSUME SignInInvariant, NEW r \in Requests, Serve(r)
    PROVE  SignInInvariant'
  <1>1. /\ UNCHANGED <<now, secret, user, member, handshake, code, callback, handed>>
        /\ request[r].pc = "admitted" /\ request' = [request EXCEPT ![r].pc = "served"]
        /\ session' = IF request[r].kind = "logout"
                      THEN RevokeSession(request[r].token) ELSE session
        /\ Types /\ Spent /\ Identified /\ Earned /\ Tokens /\ Requested
    BY DEF Serve, SignInInvariant
  <1>2. /\ session' \in [Callbacks -> SessionRow \cup {None}]
        /\ \A k \in Callbacks :
              /\ session'[k] = None <=> session[k] = None
              /\ session[k] # None =>
                    /\ session'[k].expires = session[k].expires
                    /\ session'[k].secret = session[k].secret
                    /\ session[k].revoked => session'[k].revoked
    <2>1. CASE UNCHANGED session
      BY <1>1, <2>1 DEF Types
    <2>2. CASE session' = RevokeSession(request[r].token)
      <3> DEFINE t == request[r].token
      <3>1. t \in Callbacks /\ session[t] \in SessionRow
        BY <1>1, RowTypes DEF Requested
      <3>2. session' = [session EXCEPT ![t] = [session[t] EXCEPT !.revoked = TRUE]]
        BY <2>2 DEF RevokeSession
      <3>3. [session[t] EXCEPT !.revoked = TRUE] \in SessionRow
        BY <3>1 DEF SessionRow
      <3> HIDE DEF t
      <3>4. /\ session'[t] = [session[t] EXCEPT !.revoked = TRUE]
            /\ \A k \in Callbacks \ {t} : session'[k] = session[k]
            /\ session' \in [Callbacks -> SessionRow \cup {None}]
        BY <1>1, <3>1, <3>2, <3>3 DEF Types
      <3>5. /\ session'[t] # None /\ session[t] # None
            /\ session'[t].expires = session[t].expires
            /\ session'[t].secret = session[t].secret /\ session'[t].revoked
        BY <3>1, <3>3, <3>4, NoneAssumption DEF SessionRow
      <3> QED
        BY <3>4, <3>5
    <2> QED
      BY <1>1, <2>1, <2>2
  <1>3. /\ request' \in [Requests -> RequestRow] /\ request'[r].pc = "served"
        /\ \A q \in Requests :
              /\ request'[q].token = request[q].token /\ request'[q].csrf = request[q].csrf
              /\ request'[q].kind = request[q].kind /\ request'[q].own = request[q].own
              /\ request'[q].late = request[q].late /\ request'[q].at = request[q].at
        /\ \A q \in Requests \ {r} : request'[q].pc = request[q].pc
    <2>1. request[r] \in RequestRow
      BY <1>1 DEF Types
    <2> QED
      BY <1>1, <2>1 DEF Types, RequestRow, RequestPcs
  <1>4. Types'
    BY <1>1, <1>2, <1>3 DEF Types
  <1>5. Spent' /\ Identified'
    BY <1>1 DEF Spent, Identified
  <1>6. Earned'
    BY <1>1, <1>2 DEF Earned
  <1>7. Tokens'
    <2>1. \A t \in handed : t.token \in Callbacks
      BY <1>1 DEF Types, CsrfToken
    <2> QED
      BY <1>1, <1>2, <1>3, <2>1 DEF Tokens
  <1>8. ASSUME NEW q \in Requests, request'[q].pc = "sent", request'[q].late
        PROVE  Over(request[q].token)'
    <2>1. request[q].pc = "sent" /\ request[q].late
      BY <1>3, <1>8
    <2>2. /\ request[q].token \in Callbacks /\ session[request[q].token] # None
          /\ Over(request[q].token) /\ now' = now
      BY <1>1, <2>1 DEF Requested
    <2>3. now \in Nat
      BY <1>1, RowTypes
    <2>4. session'[request[q].token].expires = session[request[q].token].expires
          /\ (session[request[q].token].revoked => session'[request[q].token].revoked)
      BY <1>2, <2>2
    <2>5. session[request[q].token].expires \in Nat
      BY <1>1, <2>2, RowTypes DEF SessionRow
    <2>6. session'[request[q].token].revoked \/ session'[request[q].token].expires <= now'
      BY <2>2, <2>3, <2>4, <2>5 DEF Over
    <2>7. request'[q].token = request[q].token
      BY <1>3
    <2> QED
      BY <2>6, <2>7 DEF Over
  <1>9. Requested'
    BY <1>1, <1>2, <1>3, <1>8 DEF Requested
  <1> QED
    BY <1>4, <1>5, <1>6, <1>7, <1>9 DEF SignInInvariant

-----------------------------------------------------------------------------
(* The theorems.                                                             *)

\* Nobody has signed in.
LEMMA Initial ==
    ASSUME SignInInit
    PROVE  SignInInvariant
  <1>1. Types
    <2>1. [pc |-> "idle", login |-> None, code |-> None, subject |-> None, identity |-> 0,
           expires |-> 0] \in CallbackRow
      BY DEF CallbackRow, CallbackPcs
    <2>2. [pc |-> "idle", token |-> None, kind |-> "read", csrf |-> NoCsrf, own |-> FALSE,
           late |-> FALSE, at |-> 0] \in RequestRow
      BY DEF RequestRow, RequestPcs, Kinds, NoCsrf
    <2>3. now \in 0..Horizon
      BY Lifetimes DEF SignInInit
    <2> QED
      BY <2>1, <2>2, <2>3 DEF SignInInit, Types
  <1>2. Spent /\ Identified /\ Earned
    BY DEF SignInInit, Spent, Identified, Earned, Opened
  <1>3. Tokens /\ Requested
    BY DEF SignInInit, Tokens, Requested, NoCsrf
  <1> QED
    BY <1>1, <1>2, <1>3 DEF SignInInvariant

\* Every step keeps the invariant.
LEMMA Inductive ==
    ASSUME SignInInvariant, [SignInNext]_signInVars
    PROVE  SignInInvariant'
  <1>1. CASE UNCHANGED signInVars
    <2>1. Types' /\ Spent' /\ Identified'
      BY <1>1 DEF signInVars, SignInInvariant, Types, Spent, Identified
    <2>2. Earned' /\ Tokens' /\ Requested'
      BY <1>1 DEF signInVars, SignInInvariant, Earned, Tokens, Requested, Over
    <2> QED
      BY <2>1, <2>2 DEF SignInInvariant
  <1> QED
    BY <1>1, AroundStep, LoginStep, AuthorizeStep, ConsumeStep, ExchangeKeeps, EstablishStep,
       ReadStep, SendStep, MiddlewareStep, ServeStep DEF SignInNext

\* What ties handshakes, codes, sessions, tokens and requests to one another
\* holds in every reachable state.
THEOREM SignInInvariantHolds == SignInSpec => []SignInInvariant
  BY Initial, Inductive, PTL DEF SignInSpec

\* However callbacks repeat and cross, a session is earned by one sign-in of the
\* planner, serves nobody past the provider's identity, and is written to only
\* from its own page.
THEOREM SessionIsEarnedTheorem == SignInSpec => []SessionIsEarned
  <1>1. ASSUME SignInInvariant
        PROVE  SessionIsEarned
    <2>1. Types /\ Spent /\ Identified /\ Earned /\ Tokens /\ Requested
      BY <1>1 DEF SignInInvariant
    <2>2. SignInTypeOK
      <3>1. \A l \in Logins : handshake[l] # None => handshake[l].expires \in Nat
        BY <2>1, RowTypes DEF HandshakeRow
      <3>2. \A c \in Codes : code[c] # None => code[c].subject \in Subjects
        BY <2>1, RowTypes DEF CodeRow
      <3>3. \A r \in Requests : request[r].kind \in Kinds /\ request[r].at \in 0..now
        <4>1. \A r \in Requests : request[r] \in RequestRow
          BY <2>1 DEF Types
        <4>2. \A r \in Requests : request[r].kind \in Kinds /\ request[r].at \in Nat
          BY <4>1 DEF RequestRow
        <4>3. \A r \in Requests : request[r].at <= now
          BY <2>1 DEF Requested
        <4> QED
          BY <2>1, <4>2, <4>3, RowTypes
      <3> QED
        BY <2>1, <3>1, <3>2, <3>3 DEF SignInTypeOK, Types, Earned
    <2>3. OneSessionPerSignIn
      BY <2>1 DEF OneSessionPerSignIn, Earned, Spent, Opened
    <2>4. SessionForWhoSignedIn
      BY <2>1 DEF SessionForWhoSignedIn, Earned, Identified
    <2>5. ServedWithinIdentity
      BY <2>1 DEF ServedWithinIdentity, Requested
    <2>6. WritesUnderOwnSession
      BY <2>1 DEF WritesUnderOwnSession, Requested, NoCsrf
    <2> QED
      BY <2>2, <2>3, <2>4, <2>5, <2>6 DEF SessionIsEarned
  <1> QED
    BY <1>1, SignInInvariantHolds, PTL

\* A request sent after its session was signed out or ran out is never served,
\* and a page that uses the token it was handed is never refused for it, across
\* changes of the deployment's secret.
THEOREM SessionEndsTheorem == SignInSpec => []SessionEndsForAll
  <1>1. SignInInvariant => SessionEndsForAll
    BY DEF SignInInvariant, Requested, SessionEndsForAll, SignedOutStaysOut, HandedTokenWorks, NoCsrf
  <1> QED
    BY <1>1, SignInInvariantHolds, PTL
=============================================================================
