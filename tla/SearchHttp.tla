---- MODULE SearchHttp ----
(***************************************************************************)
(* The academic HTTP clients and the two callers they have: the search     *)
(* pipeline, which asks every source at once, and the citation provider,   *)
(* which asks one source for the seeds and then for what they cite.  A     *)
(* client has a cache, a request budget shared by all its gets, a rate     *)
(* limiter, and retries with backoff.  Time is a bounded integer clock.    *)
(***************************************************************************)
EXTENDS Integers, Sequences, FiniteSets, FiniteSetsExt, Functions

CONSTANTS Sources,         \* academic sources, one client each
          CitationSource,  \* the source the citation provider shares a client with
          MaxRequests,     \* policy.max_network_requests
          HttpAttempts,    \* policy.max_attempts
          Interval,        \* policy.min_interval_seconds
          Delays,          \* backoffs the policy, its jitter and Retry-After allow
          Cached,          \* what earlier runs may have left in the caches
          MaxExpansions,   \* bound: expansions of the same seeds
          MaxClock         \* bound on the clock

ASSUME HttpAssumption ==
    /\ IsFiniteSet(Sources) /\ CitationSource \in Sources /\ "expand" \notin Sources
    /\ HttpAttempts \in Nat \ {0} /\ MaxRequests \in Nat /\ MaxRequests >= HttpAttempts
    /\ Interval \in Nat /\ Delays \subseteq Nat
    /\ Cached \subseteq [Sources -> [{"search", "seeds", "references"} ->
                                       {"none", "papers", "empty", "garbled"}]]
    /\ MaxExpansions \in Nat /\ MaxClock \in Nat

VARIABLES used,     \* RequestBudget.used of each client
          allowed,  \* AsyncIntervalLimiter._next_allowed of each client
          stored,   \* response cache of each client: what was asked -> body
          call,     \* the get each caller is in: where, attempts, wake-up time
          records,  \* audit record of each request the run has made
          phase,    \* "search", "seeds", "references", "done"
          expansions, clock,
          requestsSent      \* history: the times at which each client sent a request

httpVars == <<used, allowed, stored, call, records, phase, expansions, clock, requestsSent>>

Expand == "expand"
Callers == Sources \cup {Expand}
ClientOf(c) == IF c = Expand THEN CitationSource ELSE c
Asked(c) == IF c = Expand THEN phase ELSE "search"
Bodies == {"papers", "empty", "garbled"}

Waiting == [at |-> "idle", attempts |-> 0, until |-> 0]
Go(c, where) == [call EXCEPT ![c].at = where]

HttpInit ==
    /\ used = [s \in Sources |-> 0] /\ allowed = [s \in Sources |-> 0]
    /\ stored \in Cached
    /\ call = [c \in Callers |-> IF c = Expand THEN Waiting ELSE [Waiting EXCEPT !.at = "begin"]]
    /\ records = {} /\ phase = "search" /\ expansions = 0
    /\ clock = 0 /\ requestsSent = [s \in Sources |-> <<>>]

\* BaseAcademicSource.search and OpenAlexCitationProvider._fetch: the record
\* of one request.  A body that does not parse is audited as one attempt, even
\* when it comes from the cache.
Finish(c, body, error, attempts) ==
    LET status == IF error # "none" \/ body = "garbled" THEN "failed"
                  ELSE IF body = "empty" THEN "empty" ELSE "succeeded"
    IN  /\ records' = records \cup
             {[of |-> Asked(c), source |-> ClientOf(c), expansion |-> expansions,
               status |-> status,
               error |-> IF error = "none" /\ body = "garbled" THEN "invalid_response" ELSE error,
               attempts |-> IF error = "none" /\ body = "garbled" THEN 1 ELSE attempts]}
        /\ call' = [call EXCEPT ![c] = [Waiting EXCEPT !.at = "ended"]]

Lookup(c) ==
    LET body == stored[ClientOf(c)][Asked(c)]
    IN  /\ call[c].at = "begin"
        /\ IF body = "none" THEN call' = Go(c, "loop") /\ UNCHANGED records
           ELSE Finish(c, body, "none", 0)
        /\ UNCHANGED <<used, allowed, stored, phase, expansions, clock, requestsSent>>

\* A question that cannot be put to the source is audited as one attempt too.
CannotBeAsked(s) ==
    /\ call[s].at = "begin"
    /\ Finish(s, "garbled", "none", 0)
    /\ UNCHANGED <<used, allowed, stored, phase, expansions, clock, requestsSent>>

ConsumeBudget(c) ==
    LET s == ClientOf(c)
    IN  /\ call[c].at = "loop"
        /\ IF used[s] >= MaxRequests
           THEN Finish(c, "none", "budget_exhausted", call[c].attempts) /\ UNCHANGED used
           ELSE /\ used' = [used EXCEPT ![s] = @ + 1]
                /\ call' = [call EXCEPT ![c].at = "limiter", ![c].attempts = @ + 1]
                /\ UNCHANGED records
        /\ UNCHANGED <<allowed, stored, phase, expansions, clock, requestsSent>>

\* _next_allowed, from the moment of the request and not from the last one's slot.
NextSlot(s) == allowed[s] + Interval
NextAllowed(s) == Max({clock, allowed[s]}) + Interval

\* limiter.acquire, whose sleep ends at the earliest permitted time, then the
\* request goes out.  At most one caller uses a client at a time: the provider
\* starts when the searches have ended.
SendRequest(c) ==
    LET s == ClientOf(c)
    IN  /\ call[c].at = "limiter" /\ clock >= allowed[s]
        /\ allowed' = [allowed EXCEPT ![s] = NextAllowed(s)]
        /\ requestsSent' = [requestsSent EXCEPT ![s] = Append(@, clock)]
        /\ call' = Go(c, "inflight")
        /\ UNCHANGED <<used, stored, records, phase, expansions, clock>>

\* A 2xx is cached before anyone parses it; the cache write may fail quietly.
Succeed(c) ==
    /\ call[c].at = "inflight"
    /\ \E body \in Bodies, kept \in BOOLEAN :
         /\ stored' = IF kept THEN [stored EXCEPT ![ClientOf(c)][Asked(c)] = body] ELSE stored
         /\ Finish(c, body, "none", call[c].attempts)
    /\ UNCHANGED <<used, allowed, phase, expansions, clock, requestsSent>>

\* Rejected or oversized: the caller sees it at once.
Refuse(c) ==
    /\ call[c].at = "inflight"
    /\ Finish(c, "none", "client_error", call[c].attempts)
    /\ UNCHANGED <<used, allowed, stored, phase, expansions, clock, requestsSent>>

\* 429, 5xx, a timeout or a transport error: again after a delay, or the error.
Falter(c) ==
    /\ call[c].at = "inflight"
    /\ IF call[c].attempts >= HttpAttempts
       THEN Finish(c, "none", "unavailable", call[c].attempts)
       ELSE /\ \E d \in Delays :
                 call' = [call EXCEPT ![c].at = "backoff", ![c].until = clock + d]
            /\ UNCHANGED records
    /\ UNCHANGED <<used, allowed, stored, phase, expansions, clock, requestsSent>>

Retry(c) ==
    /\ call[c].at = "backoff" /\ clock >= call[c].until
    /\ call' = [call EXCEPT ![c].at = "loop", ![c].until = 0]
    /\ UNCHANGED <<used, allowed, stored, records, phase, expansions, clock, requestsSent>>

\* gather() returns once every source has a result; then the first expansion.
SearchesEnd ==
    /\ phase = "search" /\ \A s \in Sources : call[s].at = "ended"
    /\ IF MaxExpansions > 0
       THEN phase' = "seeds" /\ expansions' = 1 /\ call' = Go(Expand, "begin")
       ELSE phase' = "done" /\ UNCHANGED <<expansions, call>>
    /\ UNCHANGED <<used, allowed, stored, records, clock, requestsSent>>

RecordOf(k) == CHOOSE r \in records : r.of = k /\ r.expansion = expansions

\* _expand: a failed seed fetch ends the expansion; seeds that cite nothing
\* need no second fetch.  The same seeds may be expanded again.
ExpansionContinues ==
    /\ call[Expand].at = "ended"
    /\ \/ /\ phase = "seeds" /\ RecordOf("seeds").status # "failed"
          /\ phase' = "references" /\ call' = Go(Expand, "begin") /\ UNCHANGED expansions
       \/ /\ expansions < MaxExpansions
          /\ phase' = "seeds" /\ expansions' = expansions + 1 /\ call' = Go(Expand, "begin")
       \/ /\ expansions = MaxExpansions
          /\ phase' = "done" /\ call' = Go(Expand, "idle") /\ UNCHANGED expansions
    /\ UNCHANGED <<used, allowed, stored, records, clock, requestsSent>>

\* Time passes while someone waits for it.
Tick ==
    /\ clock < MaxClock
    /\ \E c \in Callers :
         \/ call[c].at = "backoff" /\ clock < call[c].until
         \/ call[c].at = "limiter" /\ clock < allowed[ClientOf(c)]
    /\ clock' = clock + 1
    /\ UNCHANGED <<used, allowed, stored, call, records, phase, expansions, requestsSent>>

Serve(c) == Lookup(c) \/ ConsumeBudget(c) \/ SendRequest(c) \/ Succeed(c) \/ Refuse(c)
                \/ Falter(c) \/ Retry(c)
HttpNext ==
    \/ \E c \in Callers : Serve(c)
    \/ \E s \in Sources : CannotBeAsked(s)
    \/ SearchesEnd \/ ExpansionContinues \/ Tick

HttpSpec == HttpInit /\ [][HttpNext]_httpVars

(***************************************************************************)
(* What the callers rely on.                                               *)
(***************************************************************************)
\* A source never receives two requests closer together than its policy says,
\* whoever sends them and however often they are retried (http.py:59).
RateHolds ==
    \A s \in Sources : \A i \in 1 .. Len(requestsSent[s]) - 1 :
        requestsSent[s][i + 1] >= requestsSent[s][i] + Interval

\* Every request is paid from the budget of its client and told in the audit of the
\* get that made it; an answer that did not parse is told as one attempt, whatever it
\* took, and counts for nothing here (http.py:140-230, providers.py:189-203).
ToldOf(s) == {r \in records : r.source = s /\ r.error # "invalid_response"}
AttemptsToldOf(s) == SumFunctionOnSet([r \in ToldOf(s) |-> r.attempts], ToldOf(s))
AttemptsOpen(s) ==
    SumFunctionOnSet([c \in Callers |-> call[c].attempts], {c \in Callers : ClientOf(c) = s})
AttemptsAreTold ==
    \A s \in Sources :
        /\ AttemptsToldOf(s) + AttemptsOpen(s) <= used[s] /\ used[s] <= MaxRequests
        /\ (\A r \in records : r.source = s => r.error # "invalid_response")
              => AttemptsToldOf(s) + AttemptsOpen(s) = used[s]

\* The sources are asked at the rate and as often as the policy allows, through
\* retries, caches and a second user of the same client.
SourcesAreSpared == RateHolds /\ AttemptsAreTold
====
