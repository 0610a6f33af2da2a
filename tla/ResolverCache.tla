---------------------------- MODULE ResolverCache ----------------------------
(* The two single-place resolvers (api/places.py) as HTTP caches see them:   *)
(* which representation a request gets, the validator and the directives of  *)
(* responses.resolver_cache, and 304 answers, while releases of the service  *)
(* roll, places are minted and grants come and go.                           *)
(*                                                                           *)
(* One stored response is enough: the properties are about one copy and the  *)
(* answers made from it.  It is in a shared cache or in that of one user     *)
(* agent, and the cache does what RFC 9111 allows: it stores what is marked  *)
(* public; of what is not marked at all, an agent's cache may store any 200, *)
(* a shared one only the answer to a request without credentials; it answers *)
(* from a fresh copy whose URL and Vary headers match, and after a 304 from  *)
(* the copy it validates.                                                    *)
EXTENDS FiniteSets

CONSTANTS
  Places,      \* places that may be minted in one managed collection
  Releases,    \* deployed configurations: [version, base, cached]
  Creator,     \* the subject that mints them
  Readers,     \* other subjects, who may be granted a role
  Agents       \* browsers and other clients with a cache of their own

ASSUME CallersAssumption == {"none", "bad"} \cap ({Creator} \cup Readers) = {}
ASSUME AgentsAssumption == "shared" \notin Agents

VARIABLES
  serving,     \* the releases that take requests
  minted,      \* the places that exist
  granted,     \* readers with a grant on the collection
  copy,        \* the stored response, whose cache has it, and what requests
               \* it answers, or NoCopy
  answer       \* the last request's: how it was answered, and out of which copy;
               \* with metadata, and to one entitled to it?; if 304, as the
               \* service would with a 200?

vars == <<serving, minted, granted, copy, answer>>

Subjects == Readers \cup {Creator, "admin"}
Creds == Subjects \cup {"none", "bad"}
Formats == {"geojson", "wkt"}

(* ?format= (or ?f=) or nothing, and an Accept header that has text/plain   *)
(* or has not.                                                              *)
Requests ==
  [agent : Agents, route : {"geoid", "external"}, place : Places,
   param : Formats \cup {"none", "bogus"}, accept : Formats, creds : Creds]

NoBody == [place |-> "none", full |-> FALSE]
NoTag == <<>>
NoCopy == [etag |-> NoTag]
Failure(status) ==
  [status |-> status, body |-> NoBody, mark |-> "none", vary |-> {}, etag |-> NoTag]
NoAnswer ==
  [how |-> "none", cache |-> "none", cached |-> FALSE,
   metadata |-> FALSE, entitled |-> FALSE, current |-> TRUE]

Init ==
  /\ \E r \in Releases : serving = {r}
  /\ minted = {} /\ granted = {}
  /\ copy = NoCopy /\ answer = NoAnswer

-----------------------------------------------------------------------------
(* One request at one release.                                             *)

Negotiate(q) == IF q.param # "none" THEN q.param ELSE q.accept

(* The geoid resolver never looks at credentials. *)
Principal(q) == IF q.route = "geoid" THEN "none" ELSE q.creds

CanSeeMetadata(who) == who \in {"admin", Creator} \cup granted

(* A body is its place, its format, the release that built it and whether  *)
(* it carries metadata, which a line of WKT never does.                    *)
Body(r, q) ==
  [place |-> q.place, fmt |-> Negotiate(q),
   full |-> Negotiate(q) = "geojson" /\ CanSeeMetadata(Principal(q)),
   version |-> r.version, base |-> r.base]

(* Mutant: a salt of the version alone. *)
SaltVersionOnly(r) == <<r.version>>
Salt(r) == <<r.version, r.base>>
ETag(r, q) == <<q.place, Negotiate(q), Salt(r)>>

(* Mutant: an authenticated caller's response is cacheable too. *)
PublicByAll(r, q) == r.cached
Public(r, q) == r.cached /\ Principal(q) = "none"

(* Cache-Control: public with max-age, "private, no-store", or none at all  *)
(* from a release with resolver_cache_max_age 0, which sends no Vary either.*)
Mark(r, q) == IF Public(r, q) THEN "public" ELSE IF r.cached THEN "no-store" ELSE "none"

Vary(q) == IF q.route = "geoid" THEN {"accept"} ELSE {"accept", "creds"}

(* The validators of the request: none, any ("*"), or the copy's, among     *)
(* others or marked weak.                                                   *)
IfNoneMatchHit(inm, etag) == inm = "any" \/ (inm = "copy" /\ copy.etag = etag)

Resolve(r, q, inm) ==
  IF q.param = "bogus" THEN Failure(400)
  ELSE IF Principal(q) = "bad" THEN Failure(401)
  ELSE IF q.place \notin minted THEN Failure(404)
  ELSE LET etag == IF Public(r, q) THEN ETag(r, q) ELSE NoTag
           hit == etag # NoTag /\ IfNoneMatchHit(inm, etag)
       IN  [status |-> IF hit THEN 304 ELSE 200,
            body |-> IF hit THEN NoBody ELSE Body(r, q),
            mark |-> Mark(r, q), vary |-> IF Public(r, q) THEN Vary(q) ELSE {}, etag |-> etag]

-----------------------------------------------------------------------------
(* Requests and the stored response.                                       *)

(* The caches that may keep the answer to q: RFC 9111, 3 and 3.5. *)
Keepers(q, res) ==
  IF res.status # 200 THEN {}
  ELSE IF res.mark = "public" \/ (res.mark = "none" /\ q.creds = "none") THEN {"shared", q.agent}
  ELSE IF res.mark = "none" THEN {q.agent}
  ELSE {}

(* What a copy is found by is the URL and the headers its Vary names; that  *)
(* its release has caching on is only noted.                                *)
Stored(r, q, res, cache) ==
  [cache |-> cache, key |-> [f \in {"route", "place", "param"} \cup res.vary |-> q[f]],
   body |-> res.body, cached |-> r.cached, etag |-> res.etag, fresh |-> TRUE]

Matches(q) ==
  /\ copy # NoCopy
  /\ copy.cache \in {"shared", q.agent}
  /\ \A f \in DOMAIN copy.key : q[f] = copy.key[f]

Answer(how, q, body, from, current) ==
  answer' = [how |-> how, cache |-> from.cache, cached |-> from.cached,
             metadata |-> body.full, entitled |-> CanSeeMetadata(q.creds), current |-> current]

AnswerWith(q, body) == Answer("service", q, body, NoAnswer, TRUE)

(* The service is asked, with or without a validator; a 200 may be stored,  *)
(* a 304 selects the copy it validates by its tag and freshens it.          *)
Ask(r, q, inm) ==
  LET res == Resolve(r, q, inm)
      validated == res.status = 304 /\ Matches(q) /\ copy.etag = res.etag
  IN
  /\ r \in serving
  /\ inm = "copy" => Matches(q) /\ copy.etag # NoTag
  /\ IF validated
     THEN /\ Answer("304", q, copy.body, copy, copy.body = Body(r, q))
          /\ copy' = [copy EXCEPT !.fresh = TRUE]
     ELSE /\ AnswerWith(q, res.body)
          /\ copy' \in {copy} \cup {Stored(r, q, res, cache) : cache \in Keepers(q, res)}
  /\ UNCHANGED <<serving, minted, granted>>

AnswerFromCopy(q) ==
  /\ Matches(q) /\ copy.fresh
  /\ Answer("copy", q, copy.body, copy, TRUE)
  /\ UNCHANGED <<serving, minted, granted, copy>>

(* max-age has passed, or the lifetime a cache gives to what has none. *)
Expire ==
  /\ copy # NoCopy /\ copy.fresh
  /\ copy' = [copy EXCEPT !.fresh = FALSE]
  /\ UNCHANGED <<serving, minted, granted, answer>>

(* A release is started next to another one, or stopped. *)
Roll ==
  /\ \E r \in Releases :
       \/ Cardinality(serving) = 1 /\ serving' = serving \cup {r}
       \/ serving # {r} /\ serving' = serving \ {r}
  /\ UNCHANGED <<minted, granted, copy, answer>>

MintPlace(p) ==
  /\ minted' = minted \cup {p}
  /\ UNCHANGED <<serving, granted, copy, answer>>

ChangeGrants(u) ==
  /\ granted' \in {granted \cup {u}, granted \ {u}}
  /\ UNCHANGED <<serving, minted, copy, answer>>

Next ==
  \/ \E r \in serving, q \in Requests, inm \in {"absent", "any", "copy"} : Ask(r, q, inm)
  \/ \E q \in Requests : AnswerFromCopy(q)
  \/ Expire \/ Roll
  \/ \E p \in Places : MintPlace(p)
  \/ \E u \in Readers : ChangeGrants(u)

Spec == Init /\ [][Next]_vars

-----------------------------------------------------------------------------

(* A 304 never stands for another body than the 200 would have been: the    *)
(* copy it freshens is, byte for byte, what the release that sent the 304   *)
(* would send (responses.py:102-108).                                       *)
NotModifiedIsTrue == answer.how = "304" => answer.current

(* Metadata that reaches a caller who may not see it at that moment (who is *)
(* not an administrator, the creator, or the holder of a grant that has not *)
(* been withdrawn) is what a release with caching off has sent to the same  *)
(* agent before, from the agent's own cache: it comes neither from the      *)
(* service nor from a shared cache, nor out of anything that a release with *)
(* caching on has sent, whatever releases serve next to each other          *)
(* (responses.py:87-101).                                                   *)
MetadataStaysPrivate ==
  answer.metadata /\ ~answer.entitled =>
    answer.how = "copy" /\ answer.cache \in Agents /\ ~answer.cached

=============================================================================
