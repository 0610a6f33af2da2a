-------------------------- MODULE ResolverCacheProofs --------------------------
(* Both properties of the resolvers' caching, for any number of places,      *)
(* callers and releases.                                                     *)
EXTENDS ResolverCache, TLAPS

Masked(r, q) ==
  [place |-> q.place, fmt |-> Negotiate(q), full |-> FALSE, version |-> r.version, base |-> r.base]

(* What is stored of a release with caching on is a masked body under the   *)
(* tag of its place, its format and the release that built it; of another   *)
(* one it has no tag, and with metadata it is in an agent's own cache.      *)
Tagged ==
  \E r \in Releases, q \in Requests : copy.etag = ETag(r, q) /\ copy.body = Masked(r, q)
Untagged ==
  /\ copy.etag = NoTag /\ ~copy.cached
  /\ copy.body.full => copy.cache \in Agents
CopySound == copy # NoCopy => Tagged \/ Untagged
GrantsToReaders == serving \subseteq Releases /\ granted \subseteq Readers
IInv == GrantsToReaders /\ CopySound /\ NotModifiedIsTrue /\ MetadataStaysPrivate

(* A copy stays tagged as long as its tag and its body stay. *)
LEMMA StaysTagged ==
  ASSUME NEW s \in Releases, NEW p \in Requests,
         copy'.etag = ETag(s, p), copy'.body = Masked(s, p)
  PROVE  CopySound'
<1> DEFINE Tag == ETag(s, p)
           Kept == Masked(s, p)
<1>1. Tag' = Tag /\ Kept' = Kept
  BY DEF ETag, Salt, Negotiate, Masked
<1>2. copy'.etag = Tag' /\ copy'.body = Kept'
  BY <1>1
<1> HIDE DEF Tag, Kept
<1>3. \E r \in Releases, q \in Requests : copy'.etag = ETag(r, q)' /\ copy'.body = Masked(r, q)'
  BY <1>2 DEF Tag, Kept
<1> QED
  BY <1>3 DEF CopySound, Tagged

(* A tag is none of the release's own, so that no answer carries NoTag and  *)
(* is validated by it.                                                      *)
LEMMA TagsAreTags == ASSUME NEW r, NEW q PROVE ETag(r, q) # NoTag
BY DEF ETag, NoTag

LEMMA InitIInv == Init => IInv
BY DEF Init, IInv, GrantsToReaders, CopySound, Tagged, Untagged, NotModifiedIsTrue,
     MetadataStaysPrivate, NoAnswer

(* Nobody without credentials sees metadata. *)
LEMMA NobodySeesNothing == ASSUME GrantsToReaders PROVE ~CanSeeMetadata("none")
BY CallersAssumption DEF GrantsToReaders, CanSeeMetadata

(* A publicly cacheable answer is the masked one. *)
LEMMA PublicIsMasked ==
  ASSUME GrantsToReaders, NEW r, NEW q, Public(r, q)
  PROVE  Body(r, q) = Masked(r, q)
BY NobodySeesNothing DEF Public, Body, Masked

(* What resolve answers: a 304 only where a publicly cacheable 200 would    *)
(* have been, with the tag of that 200; a body with metadata only to a      *)
(* caller who sees it.                                                      *)
LEMMA ResolveAnswers ==
  ASSUME GrantsToReaders, NEW r, NEW q, NEW inm
  PROVE  LET res == Resolve(r, q, inm) IN
         /\ res.status = 304 => Public(r, q) /\ res.etag = ETag(r, q)
         /\ res.status = 200 =>
              /\ res.body = Body(r, q) /\ res.mark = Mark(r, q)
              /\ res.etag = IF Public(r, q) THEN ETag(r, q) ELSE NoTag
         /\ res.body.full => CanSeeMetadata(q.creds)
<1> DEFINE tag == IF Public(r, q) THEN ETag(r, q) ELSE NoTag
           hit == tag # NoTag /\ IfNoneMatchHit(inm, tag)
           found == [status |-> IF hit THEN 304 ELSE 200,
                     body |-> IF hit THEN NoBody ELSE Body(r, q),
                     mark |-> Mark(r, q), vary |-> IF Public(r, q) THEN Vary(q) ELSE {},
                     etag |-> tag]
<1>1. CASE Resolve(r, q, inm) \in {Failure(400), Failure(401), Failure(404)}
  BY <1>1 DEF Failure, NoBody
<1>2. CASE Resolve(r, q, inm) = found
  <2>1. hit => Public(r, q)
    OBVIOUS
  <2>2. Body(r, q).full => CanSeeMetadata(q.creds)
    BY NobodySeesNothing DEF Body, Principal
  <2>3. found.body.full => CanSeeMetadata(q.creds)
    BY <2>2 DEF NoBody
  <2>4. found.status = 200 => ~hit
    OBVIOUS
  <2> QED
    BY <1>2, <2>1, <2>3, <2>4
<1>3. \/ Resolve(r, q, inm) \in {Failure(400), Failure(401), Failure(404)}
      \/ Resolve(r, q, inm) = found
  BY DEF Resolve
<1> QED
  BY <1>1, <1>2, <1>3

(* What a cache keeps of an answer. *)
LEMMA KeptIsSound ==
  ASSUME GrantsToReaders, NEW r \in Releases, NEW q \in Requests, NEW inm,
         NEW cache \in Keepers(q, Resolve(r, q, inm)),
         copy' = Stored(r, q, Resolve(r, q, inm), cache)
  PROVE  CopySound'
<1> DEFINE res == Resolve(r, q, inm)
<1>1. /\ copy'.etag = res.etag /\ copy'.body = res.body
      /\ copy'.cached = r.cached /\ copy'.cache = cache
  BY DEF Stored
<1>2. res.status = 200 /\ cache \in {"shared", q.agent} /\ q.agent \in Agents
  BY DEF Keepers, Requests
<1>3. CASE Public(r, q)
  <2>1. copy'.etag = ETag(r, q) /\ copy'.body = Masked(r, q)
    BY <1>1, <1>2, <1>3, ResolveAnswers, PublicIsMasked
  <2> QED
    BY <2>1, StaysTagged
<1>4. CASE ~Public(r, q)
  <2>1. res.mark = "none"
    BY <1>2, <1>4, ResolveAnswers DEF Keepers, Mark
  <2>2. ~r.cached
    BY <1>2, <1>4, <2>1, ResolveAnswers DEF Mark
  <2>3. res.body.full => cache \in Agents
    <3>1. res.body.full => q.creds # "none"
      BY ResolveAnswers, NobodySeesNothing
    <3> QED
      BY <1>2, <2>1, <3>1 DEF Keepers
  <2>4. Untagged'
    BY <1>1, <1>2, <1>4, <2>2, <2>3, ResolveAnswers DEF Untagged
  <2> QED
    BY <2>4 DEF CopySound
<1> QED
  BY <1>3, <1>4

(* Every step preserves the invariant. *)
LEMMA StepIInv == IInv /\ [Next]_vars => IInv'
<1> SUFFICES ASSUME IInv, [Next]_vars PROVE IInv'
  OBVIOUS
<1> USE DEF IInv
<1>1. CASE UNCHANGED vars
  BY <1>1 DEF vars, GrantsToReaders, CopySound, Tagged, Untagged, NotModifiedIsTrue,
       MetadataStaysPrivate
<1>2. ASSUME NEW r \in serving, NEW q \in Requests, NEW inm \in {"absent", "any", "copy"},
             Ask(r, q, inm)
      PROVE  IInv'
  <2> DEFINE res == Resolve(r, q, inm)
             validated == res.status = 304 /\ Matches(q) /\ copy.etag = res.etag
  <2>0. r \in Releases
    BY DEF GrantsToReaders
  <2>1. GrantsToReaders'
    BY <1>2 DEF Ask, GrantsToReaders
  <2>2. CASE validated
    <3>1. Public(r, q) /\ copy.etag = ETag(r, q) /\ copy # NoCopy
      BY <2>2, ResolveAnswers DEF Matches
    <3>2. copy' = [copy EXCEPT !.fresh = TRUE]
      BY <1>2, <2>2 DEF Ask
    <3>3. PICK s \in Releases, p \in Requests : copy.etag = ETag(s, p) /\ copy.body = Masked(s, p)
      BY <3>1, TagsAreTags DEF CopySound, Tagged, Untagged
    <3>4. Masked(r, q) = Masked(s, p)
      <4>1. ETag(r, q) = ETag(s, p)
        BY <3>1, <3>3
      <4> QED
        BY <4>1 DEF ETag, Salt, Masked
    <3>5. copy.body = Body(r, q) /\ ~copy.body.full
      <4>1. copy.body = Body(r, q)
        BY <3>1, <3>3, <3>4, PublicIsMasked
      <4>2. copy.body = Masked(s, p)
        BY <3>3
      <4> QED
        BY <4>1, <4>2 DEF Masked
    <3>6. copy'.etag = ETag(s, p) /\ copy'.body = Masked(s, p)
      BY <3>2, <3>3
    <3>7. CopySound'
      BY <3>6, StaysTagged
    <3>8. Answer("304", q, copy.body, copy, copy.body = Body(r, q))
      BY <1>2, <2>2 DEF Ask
    <3>9. NotModifiedIsTrue' /\ MetadataStaysPrivate'
      BY <3>5, <3>8 DEF Answer, NotModifiedIsTrue, MetadataStaysPrivate
    <3> QED
      BY <2>1, <3>7, <3>9
  <2>3. CASE ~validated
    <3>1. /\ AnswerWith(q, res.body)
          /\ copy' = copy \/ \E cache \in Keepers(q, res) : copy' = Stored(r, q, res, cache)
      BY <1>2, <2>3 DEF Ask
    <3>2. NotModifiedIsTrue' /\ MetadataStaysPrivate'
      <4>1. answer'.how = "service" /\ (answer'.metadata => answer'.entitled)
        BY <3>1, ResolveAnswers DEF AnswerWith, Answer
      <4> QED
        BY <4>1 DEF NotModifiedIsTrue, MetadataStaysPrivate
    <3>3. CopySound'
      <4>1. CASE copy' = copy
        BY <4>1 DEF CopySound, Tagged, Untagged
      <4>2. CASE copy' # copy
        BY <2>0, <3>1, <4>2, KeptIsSound
      <4> QED
        BY <4>1, <4>2
    <3> QED
      BY <2>1, <3>2, <3>3
  <2> QED
    BY <2>2, <2>3
<1>3. ASSUME NEW q \in Requests, AnswerFromCopy(q) PROVE IInv'
  <2>1. copy # NoCopy /\ UNCHANGED <<serving, granted, copy>>
    BY <1>3 DEF AnswerFromCopy, Matches
  <2>2. Answer("copy", q, copy.body, copy, TRUE)
    BY <1>3 DEF AnswerFromCopy
  <2>3. copy.body.full => copy.cache \in Agents /\ ~copy.cached
    <3>1. CASE Tagged
      BY <3>1 DEF Tagged, Masked
    <3>2. CASE Untagged
      BY <3>2 DEF Untagged
    <3> QED
      BY <2>1, <3>1, <3>2 DEF CopySound
  <2>4. NotModifiedIsTrue' /\ MetadataStaysPrivate'
    BY <2>2, <2>3 DEF Answer, NotModifiedIsTrue, MetadataStaysPrivate
  <2>5. GrantsToReaders' /\ CopySound'
    BY <2>1 DEF GrantsToReaders, CopySound, Tagged, Untagged
  <2> QED
    BY <2>4, <2>5
<1>4. CASE Expire
  <2>1. /\ copy'.etag = copy.etag /\ copy'.body = copy.body /\ copy # NoCopy
        /\ copy' = [copy EXCEPT !.fresh = FALSE]
    BY <1>4 DEF Expire
  <2>2. CopySound'
    <3>1. CASE Tagged
      <4>1. PICK s \in Releases, p \in Requests :
              copy.etag = ETag(s, p) /\ copy.body = Masked(s, p)
        BY <3>1 DEF Tagged
      <4> QED
        BY <2>1, <4>1, StaysTagged
    <3>2. CASE Untagged
      <4>1. copy'.cache = copy.cache /\ copy'.cached = copy.cached
        BY <2>1
      <4> QED
        BY <2>1, <3>2, <4>1 DEF Untagged, CopySound
    <3> QED
      BY <2>1, <3>1, <3>2 DEF CopySound
  <2> QED
    BY <1>4, <2>2 DEF Expire, GrantsToReaders, NotModifiedIsTrue, MetadataStaysPrivate
<1>5. CASE Roll \/ (\E p \in Places : MintPlace(p)) \/ (\E u \in Readers : ChangeGrants(u))
  <2>1. UNCHANGED <<copy, answer>>
    BY <1>5 DEF Roll, MintPlace, ChangeGrants
  <2>2. GrantsToReaders'
    BY <1>5 DEF Roll, MintPlace, ChangeGrants, GrantsToReaders
  <2> QED
    BY <2>1, <2>2 DEF CopySound, Tagged, Untagged, NotModifiedIsTrue, MetadataStaysPrivate
<1> QED
  BY <1>1, <1>2, <1>3, <1>4, <1>5 DEF Next

(* A 304 never stands for another body than the 200 would have been, for    *)
(* any releases that serve next to each other.                              *)
THEOREM NotModifiedIsTrueAlways == Spec => []NotModifiedIsTrue
<1>1. IInv => NotModifiedIsTrue
  BY DEF IInv
<1> QED
  BY <1>1, InitIInv, StepIInv, PTL DEF Spec

(* Metadata reaches a caller who may not see it only from the cache of the  *)
(* caller's own agent, and only as a release with caching off has sent it,  *)
(* for any releases, agents and changes of grants.                          *)
THEOREM MetadataStaysPrivateAlways == Spec => []MetadataStaysPrivate
<1>1. IInv => MetadataStaysPrivate
  BY DEF IInv
<1> QED
  BY <1>1, InitIInv, StepIInv, PTL DEF Spec

=============================================================================
