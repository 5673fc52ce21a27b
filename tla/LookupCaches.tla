---------------------------- MODULE LookupCaches ----------------------------
(***************************************************************************)
(* Lookups that answer from a cache in the server's memory: routes          *)
(* (app/routing), geocoding and its reverse (app/gis), searches (app/search) *)
(* and figures (app/analytics).  A behaviour has one kind of lookup, with    *)
(* its key, its lifetime and its bound.  A request that misses suspends on   *)
(* its provider while others run, and stores what it is told.  Time is in    *)
(* ticks: an entry has a remaining life, an answer an age.                   *)
(***************************************************************************)
EXTENDS Integers, FiniteSets, Sequences, SequencesExt

CONSTANTS
  Askers, None,
  Lookups,     \* the kinds of lookup, a subset of AllLookups
  Questions,   \* lookup -> what may be asked: a place, a form of the answer, of
               \* routes only alternatives, of addresses only countries
  Canonical,   \* an address's canonical form (NormalizationService)
  Life,        \* default_ttl in ticks
  Room,        \* max_entries
  MaxDelay     \* bound: ticks a provider takes, its client's timeout

AllLookups == {"route", "geocode", "reverse", "search", "figures"}

ASSUME LookupAssumption ==
  /\ Lookups \subseteq AllLookups
  /\ {Life, MaxDelay} \subseteq Nat /\ Room \in Nat \ {0}
  /\ \A l \in AllLookups : \A q \in Questions[l] :
       /\ q.alternatives \in BOOLEAN /\ (q.alternatives => l = "route")
       /\ q.countries # None => l = "geocode"

VARIABLES
  lookup,    \* the kind of lookup of this behaviour
  provider,  \* "up", "down", or "empty": it answers that there is nothing
  cached,   \* the cache, from the least to the most recently used
  asked      \* asker -> its request

cacheVars == <<lookup, provider, cached, asked>>

(* What a request is told: an answer to a question, by whom, how old.        *)
Answer == [to |-> None, at |-> None, kind |-> None, by |-> None, fallback |-> FALSE,
           when |-> None, age |-> 0]
Idle == [phase |-> "idle", q |-> None, at |-> None, delay |-> 0, got |-> Answer]

CacheInit ==
  /\ lookup \in Lookups /\ provider = "up" /\ cached = << >>
  /\ asked = [a \in Askers |-> Idle]

---------------------------------------------------------------------------
(* The cache. *)

(* The countries that the provider is asked to search are not in the key. *)
AddressKey(q)    == <<Canonical[q.place], q.form>>
SearchKey(q, at) == <<q.place, q.form, at>>
RouteKey(q)      == <<q.place, q.form>>    \* a point's and a figure's likewise

(* Mutant: the form of the answer is not in the key. *)
KeyOfPlace(q, at) == <<q.place, at>>
CacheKey(q, at) ==
  IF lookup = "geocode" THEN AddressKey(q)
  ELSE IF lookup = "search" THEN SearchKey(q, at)
  ELSE RouteKey(q)

(* Alternatives are neither looked up nor stored. *)
Cacheable(q) == ~ (lookup = "route" /\ q.alternatives)

Matching(key) == {i \in DOMAIN cached : cached[i].key = key}
(* pop: a key has one entry at most. *)
Without(key)  == IF Matching(key) = {} THEN cached
                 ELSE RemoveAt(cached, CHOOSE i \in Matching(key) : TRUE)

(* Mutant: an entry that is used lives on. *)
UsedRenewed(e) == [e EXCEPT !.left = Life]
(* get: a live entry becomes the last to be evicted; TTLCache keeps no order. *)
Used(e) == e

(* set: the least recently used go; TTLCache has no bound. *)
Evicted(list) ==
  IF lookup = "figures" \/ Len(list) <= Room THEN list
  ELSE SubSeq(list, Len(list) - Room + 1, Len(list))

(* Errors are never stored; that there is no such address is, that a point has *)
(* no address is not.                                                          *)
Stored(got) == got.kind = "found" \/ (got.kind = "nothing" /\ lookup = "geocode")

Alive(e) == e.left >= 0

(* Answer from the cache, or go to the provider. *)
LookUp(a, q, at) ==
  LET found == Matching(CacheKey(q, at))
      live == {i \in found : Cacheable(q) /\ Alive(cached[i])}
      asks(phase, got) ==
        [phase |-> phase, q |-> q, at |-> at, delay |-> 0, got |-> got] IN
  \/ \E i \in live :
       /\ cached' = Append(Without(cached[i].key), Used(cached[i]))
       /\ asked' = [asked EXCEPT ![a] = asks("answered", cached[i].got)]
  \/ /\ live = {}
     /\ cached' = IF Cacheable(q) THEN Without(CacheKey(q, at)) ELSE cached
     /\ asked' = [asked EXCEPT ![a] = asks("calling", Answer)]

---------------------------------------------------------------------------
(* Requests. *)

(* A search by address geocodes it first. *)
Ask(a, q) ==
  /\ asked[a].phase = "idle"
  /\ \/ /\ lookup = "search"
        /\ asked' = [asked EXCEPT ![a] = [Idle EXCEPT !.phase = "locating", !.q = q]]
        /\ UNCHANGED cached
     \/ lookup # "search" /\ LookUp(a, q, None)
  /\ UNCHANGED <<lookup, provider>>

(* An address that is not found leaves the search without a point, and so      *)
(* without its radius.                                                          *)
Locate(a) ==
  /\ asked[a].phase = "locating"
  /\ LookUp(a, asked[a].q, IF provider = "up" THEN "point" ELSE "nowhere")
  /\ UNCHANGED <<lookup, provider>>

(* FallbackRoutingProvider._run goes on after ProviderUnavailableError only. *)
Unavailable == {"down"}

By(who, kind, fallback) ==
  [Answer EXCEPT !.by = who, !.kind = kind, !.fallback = fallback, !.when = provider]

(* A router that says there is no route refuses; a geocoder finds nothing. *)
RouterSays   == By("primary", IF provider = "up" THEN "found" ELSE "error", FALSE)
GeocoderSays ==
  By("primary", CASE provider = "up" -> "found" [] provider = "down" -> "error"
                  [] OTHER -> "nothing", FALSE)
StraightLine == By("haversine", "found", TRUE)
DatabaseSays == [By("database", "found", FALSE) EXCEPT !.when = None]

Told ==
  IF lookup \in {"search", "figures"} THEN DatabaseSays
  ELSE IF lookup # "route" THEN GeocoderSays
  ELSE IF provider \in Unavailable THEN StraightLine
  ELSE RouterSays

Compute(a) ==
  /\ asked[a].phase = "calling"
  /\ asked' = [asked EXCEPT ![a].phase = "told",
                 ![a].got = [Told EXCEPT !.to = asked[a].q, !.at = asked[a].at]]
  /\ UNCHANGED <<lookup, provider, cached>>

(* The answer arrives: stored and given in one step of the event loop. *)
Receive(a) ==
  /\ asked[a].phase = "told"
  /\ LET c == asked[a]
         key == CacheKey(c.q, c.at)
         entry == [key |-> key, left |-> Life, got |-> c.got]
     IN cached' = IF Cacheable(c.q) /\ Stored(c.got)
                   THEN Evicted(Append(Without(key), entry)) ELSE cached
  /\ asked' = [asked EXCEPT ![a].phase = "answered", ![a].delay = 0]
  /\ UNCHANGED <<lookup, provider>>

Leave(a) ==
  /\ asked[a].phase = "answered"
  /\ asked' = [asked EXCEPT ![a] = Idle]
  /\ UNCHANGED <<lookup, provider, cached>>

---------------------------------------------------------------------------
(* Time and the providers. *)

Waiting == {a \in Askers : asked[a].phase \in {"locating", "calling", "told"}}

(* Bound: ages are told apart up to the first that is too old. *)
Older(age) == IF age > Life + MaxDelay THEN age ELSE age + 1

Tick ==
  /\ \A a \in Waiting : asked[a].delay < MaxDelay
  /\ asked' = [a \in Askers |->
       IF a \notin Waiting THEN asked[a]
       ELSE [asked[a] EXCEPT !.delay = @ + 1,
               !.got.age = IF asked[a].phase = "told" THEN Older(@) ELSE @]]
  /\ cached' = [i \in DOMAIN cached |->
       LET e == cached[i] IN
       IF e.left < 0 THEN e
       ELSE [e EXCEPT !.left = @ - 1, !.got.age = Older(@)]]
  /\ UNCHANGED <<lookup, provider>>

ProviderTurns(state) ==
  /\ lookup # "figures" /\ provider # state
  /\ provider' = state
  /\ UNCHANGED <<lookup, cached, asked>>

Answering(a) == Locate(a) \/ Compute(a) \/ Receive(a) \/ Leave(a)

CacheNext ==
  \/ \E a \in Askers : (\E q \in Questions[lookup] : Ask(a, q)) \/ Answering(a)
  \/ Tick
  \/ \E state \in {"up", "down", "empty"} : ProviderTurns(state)

CacheSpec == CacheInit /\ [][CacheNext]_cacheVars

(* Time passes, and a request that can go on does. *)
CacheFairness ==
  WF_cacheVars(Tick) /\ \A a \in Askers : WF_cacheVars(Answering(a))

---------------------------------------------------------------------------
(* Properties. *)

Answered == {a \in Askers : asked[a].phase = "answered"}

(* However many requests overlap, a bounded cache never holds more cached    *)
(* than it may, and never two for one key.                                     *)
CacheIsBounded ==
  /\ lookup # "figures" => Len(cached) <= Room
  /\ \A i, j \in DOMAIN cached : cached[i].key = cached[j].key => i = j

(* Nobody is told anything older than an entry's life and the time its own     *)
(* provider took, even when a slow request's older answer replaces a newer one. *)
AnswersAreFresh == \A a \in Answered : asked[a].got.age <= Life + MaxDelay

(* An answer from the cache is one to the asker's own question, but for the     *)
(* countries of an address (see CountriesAreRespected): the same form (limit,   *)
(* language, profile, page), the same place up to an address's canonical form,  *)
(* and for a search the same resolved point.                                    *)
AnswerFitsQuestion ==
  \A a \in Answered :
    LET got == asked[a].got  q == asked[a].q IN
    /\ got.to.form = q.form /\ got.at = asked[a].at
    /\ got.to.alternatives = q.alternatives
    /\ \/ got.to.place = q.place
       \/ lookup = "geocode" /\ Canonical[got.to.place] = Canonical[q.place]

(* Whoever gives "comma-separated ISO country codes" is told what was found in    *)
(* these countries.  The key of the cache leaves them out, and the code does not.  *)
CountriesAreRespected ==
  \A a \in Answered : asked[a].got.to.countries = asked[a].q.countries

(* "Genuine routing answers are not masked, only unavailability is": a route    *)
(* by the fallback was computed while the router was unavailable and is flagged *)
(* so to everybody who gets it, from the cache as well.                         *)
FallbackIsHonest ==
  \A a \in Answered :
    LET got == asked[a].got IN
    /\ got.fallback <=> got.by = "haversine"
    /\ got.by = "haversine" => got.when = "down"

(* What a cache holds and gives is bounded, fresh, to the point and honest. *)
CacheIsSound == CacheIsBounded /\ AnswersAreFresh /\ AnswerFitsQuestion /\ FallbackIsHonest

(* Once the providers are up for good, failures, fallback routes and "no such   *)
(* address" are eventually no longer given: what was cached meanwhile expires    *)
(* however often it is asked for.                                                *)
Recovered(a) == asked[a].got.kind = "found" /\ ~ asked[a].got.fallback
RecoveryIsSeen ==
  <>[](provider = "up") => <>[](\A a \in Answered : Recovered(a))
=============================================================================
