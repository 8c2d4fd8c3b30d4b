---------------------------- MODULE CognitoOidc ----------------------------
(***************************************************************************)
(* The Cognito adapter's two caches, discovery document and signing keys,  *)
(* shared by the coroutines of concurrent sign-ins, against a provider     *)
(* that rotates its keys.  A coroutine runs until it awaits: the lock, an  *)
(* HTTP reply.  A cache entry is fresh until its hour lapses.              *)
(*                                                                         *)
(* A JWK set names its keys by kid, and authlib's jwt.decode looks the     *)
(* token's kid up in the set it is given: a set without that kid is a      *)
(* plain ValueError, a key that does not verify is a JoseError.            *)
(***************************************************************************)
EXTENDS Naturals, FiniteSets

CONSTANTS Coroutines,     \* exchange_code calls
          MaxRotations,   \* bound: key rotations
          MaxLapses,      \* bound: times a cache entry outlives its hour
          NoHolder

ASSUME CognitoAssumption ==
    MaxRotations \in Nat /\ MaxLapses \in Nat /\ NoHolder \notin Coroutines

VARIABLES
    signing,      \* the key the provider signs with: the rotation's number
    kid,          \* the name a key is published under
    published,    \* the keys of its jwks_uri
    metadata,     \* _metadata: is one cached, is it fresh
    jwks,         \* _jwks: its keys or None, is it fresh
    discovery,    \* _discovery_lock: its holder or NoHolder
    co,           \* the coroutines
    lapses        \* lapses so far

oidcVars == <<signing, kid, published, metadata, jwks, discovery, co, lapses>>

ExchangeEnded == {"accepted", "rejected", "key not found", "unavailable"}
Keys == 0..MaxRotations
KidKnown(K, k) == \E j \in K : kid[j] = kid[k]
Goto(c, p) == co' = [co EXCEPT ![c].pc = p]

----------------------------------------------------------------------------
(* The provider and the clock.                                              *)

\* A new key is published under a new kid, beside the old ones.
Rotate ==
    /\ signing < MaxRotations
    /\ signing' = signing + 1
    /\ published' = published \cup {signing + 1}
    /\ UNCHANGED <<kid, metadata, jwks, discovery, co, lapses>>

\* A new key takes the place of the old one under its kid.
Replace ==
    /\ signing < MaxRotations
    /\ signing' = signing + 1
    /\ kid' = [kid EXCEPT ![signing + 1] = kid[signing]]
    /\ published' = {k \in published : kid[k] # kid[signing]} \cup {signing + 1}
    /\ UNCHANGED <<metadata, jwks, discovery, co, lapses>>

Retire ==
    /\ published # {signing}
    /\ published' = {signing}
    /\ UNCHANGED <<signing, kid, metadata, jwks, discovery, co, lapses>>

Lapse ==
    /\ lapses < MaxLapses
    /\ \/ metadata.fresh /\ metadata' = [metadata EXCEPT !.fresh = FALSE] /\ UNCHANGED jwks
       \/ jwks.fresh /\ jwks' = [jwks EXCEPT !.fresh = FALSE] /\ UNCHANGED metadata
    /\ lapses' = lapses + 1
    /\ UNCHANGED <<signing, kid, published, discovery, co>>

----------------------------------------------------------------------------
(* _load_metadata.  `after` is where the coroutine goes with the document.  *)

MetadataCached(c) ==
    /\ co[c].pc = "metadata" /\ metadata.fresh
    /\ Goto(c, co[c].after)
    /\ UNCHANGED <<signing, kid, published, metadata, jwks, discovery, lapses>>

MetadataLock(c) ==
    /\ co[c].pc = "metadata" /\ ~metadata.fresh
    /\ discovery = NoHolder
    /\ discovery' = c
    /\ Goto(c, "metadata fetch")
    /\ UNCHANGED <<signing, kid, published, metadata, jwks, lapses>>

\* Another coroutine may have filled the cache while this one waited.
MetadataFetch(c) ==
    /\ co[c].pc = "metadata fetch"
    /\ discovery' = NoHolder
    /\ metadata' = [fresh |-> TRUE]
    /\ Goto(c, co[c].after)
    /\ UNCHANGED <<signing, kid, published, jwks, lapses>>

\* An HTTP error, or a document of another issuer: `async with` lets go.
FetchFailsHolding(c) ==
    /\ co[c].pc \in {"metadata fetch", "jwks fetch"}
    /\ ~(co[c].pc = "metadata fetch" /\ metadata.fresh)
    /\ Goto(c, "unavailable")
    /\ UNCHANGED <<signing, kid, published, metadata, jwks, discovery, lapses>>

FetchFails(c) ==
    /\ co[c].pc \in {"metadata fetch", "jwks fetch"}
    /\ ~(co[c].pc = "metadata fetch" /\ metadata.fresh)
    /\ discovery' = NoHolder
    /\ Goto(c, "unavailable")
    /\ UNCHANGED <<signing, kid, published, metadata, jwks, lapses>>

----------------------------------------------------------------------------
(* _load_jwks and the two attempts to decode.                               *)

\* client.fetch_token: the id token is signed with the provider's key of now.
FetchToken(c) ==
    /\ co[c].pc = "token"
    /\ co' = [co EXCEPT ![c] = [@ EXCEPT !.pc = "jwks", !.key = signing]]
    /\ UNCHANGED <<signing, kid, published, metadata, jwks, discovery, lapses>>

TokenRefused(c) ==
    /\ co[c].pc = "token"
    /\ Goto(c, "unavailable")
    /\ UNCHANGED <<signing, kid, published, metadata, jwks, discovery, lapses>>

JwksCached(c) ==
    /\ co[c].pc = "jwks" /\ ~co[c].force /\ jwks.fresh
    /\ Goto(c, "decode")
    /\ UNCHANGED <<signing, kid, published, metadata, jwks, discovery, lapses>>

JwksNeedsMetadata(c) ==
    /\ co[c].pc = "jwks" /\ (co[c].force \/ ~jwks.fresh)
    /\ co' = [co EXCEPT ![c] = [@ EXCEPT !.pc = "metadata", !.after = "jwks wait"]]
    /\ UNCHANGED <<signing, kid, published, metadata, jwks, discovery, lapses>>

NeedsFetchFreshEnough(c) == ~jwks.fresh
NeedsFetch(c) == co[c].force \/ ~jwks.fresh

\* The lock is granted and the condition looked at again.
JwksLock(c) ==
    /\ co[c].pc = "jwks wait" /\ discovery = NoHolder
    /\ IF NeedsFetch(c)
       THEN /\ discovery' = c
            /\ Goto(c, "jwks fetch")
       ELSE /\ Goto(c, "decode")
            /\ UNCHANGED discovery
    /\ UNCHANGED <<signing, kid, published, metadata, jwks, lapses>>

\* The provider answers; the answer travels.
JwksServed(c) ==
    /\ co[c].pc = "jwks fetch"
    /\ co' = [co EXCEPT ![c] = [@ EXCEPT !.pc = "jwks reply", !.reply = published]]
    /\ UNCHANGED <<signing, kid, published, metadata, jwks, discovery, lapses>>

JwksStored(c) ==
    /\ co[c].pc = "jwks reply"
    /\ jwks' = [keys |-> co[c].reply, fresh |-> TRUE]
    /\ discovery' = NoHolder
    /\ co' = [co EXCEPT ![c] = [@ EXCEPT !.pc = "decode", !.reply = {}]]
    /\ UNCHANGED <<signing, kid, published, metadata, lapses>>

\* jwt.decode with the cached keys.  Only a JoseError, a key of that kid which does
\* not verify, is answered with new keys and a second attempt; a kid the cached set
\* lacks ends the exchange.
Decode(c) ==
    /\ co[c].pc = "decode"
    /\ co' = [co EXCEPT ![c] =
          IF co[c].key \in jwks.keys THEN [@ EXCEPT !.pc = "accepted"]
          ELSE IF ~KidKnown(jwks.keys, co[c].key)
               THEN [@ EXCEPT !.pc = "key not found", !.reply = jwks.keys]
          ELSE IF co[c].force THEN [@ EXCEPT !.pc = "rejected"]
          ELSE [@ EXCEPT !.pc = "jwks", !.force = TRUE]]
    /\ UNCHANGED <<signing, kid, published, metadata, jwks, discovery, lapses>>

----------------------------------------------------------------------------
OidcInit ==
    /\ signing = 0 /\ published = {0} /\ kid = [k \in Keys |-> k]
    /\ metadata = [fresh |-> FALSE]
    /\ jwks = [keys |-> {}, fresh |-> FALSE]
    /\ discovery = NoHolder
    /\ co = [c \in Coroutines |->
                [pc |-> "metadata", after |-> "token", key |-> 0, force |-> FALSE, reply |-> {}]]
    /\ lapses = 0

ExchangeStep(c) ==
    \/ MetadataCached(c) \/ MetadataLock(c) \/ MetadataFetch(c) \/ FetchFails(c)
    \/ FetchToken(c) \/ TokenRefused(c) \/ JwksCached(c) \/ JwksNeedsMetadata(c)
    \/ JwksLock(c) \/ JwksServed(c) \/ JwksStored(c) \/ Decode(c)

Exchange == Rotate \/ Replace \/ Retire \/ Lapse \/ \E c \in Coroutines : ExchangeStep(c)

OidcSpec == OidcInit /\ [][Exchange]_oidcVars

----------------------------------------------------------------------------
\* Types, and that a coroutine is inside a fetch exactly when it holds the lock.
OidcTypeOK ==
    /\ signing \in Keys /\ published \in SUBSET Keys /\ signing \in published
    /\ kid \in [Keys -> Keys]
    /\ jwks.keys \in SUBSET Keys /\ discovery \in Coroutines \cup {NoHolder}
    /\ \A c \in Coroutines :
          co[c].pc \in {"metadata fetch", "jwks fetch", "jwks reply"} <=> discovery = c

\* A key that replaced another under its kid rejects nobody: the failed decode
\* fetches the keys once more (exchange_code), so a signature is refused in the end
\* only when its key was withdrawn.
ReplacementRejectsNobody ==
    \A c \in Coroutines : co[c].pc = "rejected" => co[c].key \notin published

\* A key under a new kid costs sign-ins only until the keys are fetched again: a
\* sign-in whose kid is not found, while its key is published, looked in a set of
\* keys served before its key was (reply keeps that set).
NotFoundOnlyInOlderKeys ==
    \A c \in Coroutines : co[c].pc = "key not found" /\ co[c].key \in published =>
        \A k \in co[c].reply : k < co[c].key

\* Sign-ins that find the cache lapsed at the same moment cause one fetch of the
\* keys, not one each: an unforced fetch is in flight only while the cache is
\* stale (the second look under the lock in _load_jwks).
NoStampede ==
    \A c \in Coroutines :
        co[c].pc \in {"jwks fetch", "jwks reply"} /\ ~co[c].force => ~jwks.fresh

\* Every exchange ends, also when the fetch under the lock fails.
ExchangeEnds == \A c \in Coroutines : <>(co[c].pc \in ExchangeEnded)

\* The key cache follows the provider: a replaced key rejects nobody, an added one
\* only those who decode with keys served before it, and a lapsed cache is fetched
\* once for all who wait.
CacheFollowsProvider ==
    OidcTypeOK /\ ReplacementRejectsNobody /\ NotFoundOnlyInOlderKeys /\ NoStampede
=============================================================================
