------------------------------ MODULE Research ------------------------------
(***************************************************************************)
(* The research orchestrator (research/orchestrator.py) and the search     *)
(* service it asks for addresses (research/searx.py).  One process makes   *)
(* one run after the other; each run takes its steps in a fixed order and  *)
(* every step but the first ones may call out, waiting for a turn at a     *)
(* rate limit before it does; on one turn of the orchestrator's limiter    *)
(* several requests may go out.  That limiter starts afresh with each run; *)
(* the service keeps its limiter, and a cache on disk, from run to run.    *)
(*                                                                         *)
(* Time is counted in whole ticks: Delays are what a call may last, Pauses  *)
(* what may pass between two runs.                                         *)
(***************************************************************************)
EXTENDS Integers, Sequences, FiniteSets

CONSTANTS
    Interval,       \* min_interval_seconds, of the profile and of the service
    Burst,          \* burst, where there is one
    TTL,            \* cache_ttl_seconds of the service
    MaxResults,     \* max_results of the service
    Terms,          \* number of search terms a plan may have
    Urls,           \* addresses
    Key,            \* _normalise_url of each
    Answers,        \* what the search engine may answer: sequences of addresses
    Attempts,       \* crawl_retry_attempts of the service's settings, at least 1
    Delays,         \* ticks a request may last, with the backoff after it
    Pauses,         \* ticks between two runs
    PlansOf,        \* the plans of the first run, the second, ...
    HostSet, SettingsSet,   \* configurations of the process and of the service
    MaxRuns         \* bound: runs of the process

Settings == [enabled : BOOLEAN, first : BOOLEAN, burst : BOOLEAN]
Hosts == [scrapy : BOOLEAN, gate : BOOLEAN, limit : {"none", "spaced", "burst"}]
Plans == [crawlOnly : BOOLEAN, network : BOOLEAN, row : BOOLEAN, query : BOOLEAN,
          urls : SUBSET Urls, terms : 1..Terms]

ASSUME ResearchAssumption ==
    /\ Interval \in Nat \ {0} /\ Burst \in Nat \ {0} /\ TTL \in Nat
    /\ MaxResults \in Nat \ {0} /\ MaxRuns \in Nat
    /\ Terms \in Nat \ {0} /\ Attempts \in Nat \ {0}
    /\ Pauses \subseteq Nat /\ Delays \subseteq Nat /\ Answers \subseteq Seq(Urls) /\ Key \in [Urls -> Urls]
    /\ IsFiniteSet(Urls)
    /\ HostSet \subseteq Hosts /\ SettingsSet \subseteq Settings
    /\ PlansOf \in [1..MaxRuns -> SUBSET Plans]

VARIABLES
    now,        \* the clock
    settings,   \* of the service, fixed: enabled, stop_on_first, burst
    host,       \* fixed: scrapy installed, environment gate, kind of rate limit
    runs,       \* runs begun
    plan,       \* of the present run
    pc,         \* its step
    targets,    \* plan.target_urls
    steps,      \* results of the steps so far
    row,        \* enriched_row: "none" or the pass it comes from
    limiter,    \* _last_network_call (-1: None) and _burst_tokens
    slimiter,   \* the service's _last_request and _burst_tokens (-1: None)
    cache,      \* the service's entries: time (-1: none or unreadable), answer
    asking,     \* search: terms answered and the addresses they gave
    crawl,      \* addresses left to fetch, whether any was fetched
    grants,     \* history: times of the turns the orchestrator's limiter gave
    calls,      \* history: requests that went out on each of them
    sgrants,    \* history: requests of the service: time, term, answer kept
    reached     \* history: what the present run called

vars == <<now, settings, host, runs, plan, pc, targets, steps, row, limiter, slimiter,
          cache, asking, crawl, grants, calls, sgrants, reached>>

fixed == <<settings, host, runs, plan>>
search == <<slimiter, cache, sgrants>>
turns == <<limiter, grants, calls>>

Names == {"local_snapshot", "authority_sources", "deterministic_enrichment",
          "searx_search", "network_enrichment", "native_crawl", "backfill"}
NoPlan == [crawlOnly |-> FALSE, network |-> FALSE, row |-> FALSE, query |-> FALSE,
           urls |-> {}, terms |-> 1]
Limiters == [last : Nat \cup {-1}, tokens : Nat \cup {-1}]

ResearchTypeOK ==
    /\ now \in Nat
    /\ settings \in Settings /\ host \in Hosts
    /\ runs \in 0..MaxRuns
    /\ plan \in Plans
    /\ pc \in {"idle", "local", "searching", "enriching", "crawling", "fetching", "ending",
              "raised"}
    /\ targets \in SUBSET Urls
    /\ steps \in Seq([name : Names, status : {"success", "skipped", "error"}])
    /\ row \in {"none", "deterministic", "network"}
    /\ limiter \in Limiters /\ slimiter \in Limiters
    /\ cache \in [1..Terms -> [at : Nat \cup {-1}, answer : Seq(Urls)]]
    /\ asking \in [done : 0..Terms, found : SUBSET Urls]
    /\ crawl \in [left : SUBSET Urls, any : BOOLEAN]
    /\ grants \in Seq(Nat) /\ calls \in Seq(Nat)
    /\ sgrants \in Seq([at : Nat, term : 1..Terms, kept : BOOLEAN])
    /\ reached \in SUBSET {"search", "enrichment", "scrapy", "requests"}

Idle == [left |-> {}, any |-> FALSE]
NotAsking == [done |-> 0, found |-> {}]
Fresh == [last |-> -1, tokens |-> -1]

Init ==
    /\ now = 0
    /\ settings \in SettingsSet /\ host \in HostSet
    /\ runs = 0 /\ plan = NoPlan /\ pc = "idle"
    /\ targets = {} /\ steps = <<>> /\ row = "none"
    /\ limiter = Fresh /\ slimiter = Fresh
    /\ cache = [q \in 1..Terms |-> [at |-> -1, answer |-> <<>>]]
    /\ asking = NotAsking /\ crawl = Idle
    /\ grants = <<>> /\ calls = <<>> /\ sgrants = <<>> /\ reached = {}

-----------------------------------------------------------------------------
At(step) == pc = step
GoTo(step) == pc' = step
Result(name, status) == steps' = Append(steps, [name |-> name, status |-> status])

Wait(last) == IF last >= 0 /\ now - last < Interval THEN Interval - (now - last) ELSE 0

\* Not the code: a call that need not wait spends no token.
ThrottledForFree(l) ==
    [at |-> now + (IF l.tokens > 0 THEN 0 ELSE Wait(l.last)), tokens |-> l.tokens]

\* _maybe_throttle: when the call goes out, and the tokens left.
Throttled(l) ==
    CASE host.limit = "none" -> [at |-> now, tokens |-> l.tokens]
      [] host.limit = "spaced" -> [at |-> now + Wait(l.last), tokens |-> l.tokens]
      [] host.limit = "burst" ->
            LET tokens == IF l.last >= 0 /\ Wait(l.last) = 0 THEN Burst ELSE l.tokens
            IN  IF tokens > 0 THEN [at |-> now, tokens |-> tokens - 1]
                ELSE [at |-> now + Wait(l.last), tokens |-> Burst - 1]

\* The orchestrator takes one turn at its limiter, for n requests that last d
\* together; `after': the limiter then counts from their end.
CallsOut(n, d, after) ==
    LET g == Throttled(limiter)
    IN  /\ now' = g.at + d
        /\ limiter' = [last |-> IF after THEN g.at + d
                                ELSE IF host.limit = "none" THEN limiter.last ELSE g.at,
                       tokens |-> g.tokens]
        /\ grants' = Append(grants, g.at) /\ calls' = Append(calls, n)

\* Not the code: a request that need not wait spends no token.
SearchThrottledForFree(l) ==
    LET tokens == IF l.tokens < 0 THEN Burst ELSE l.tokens
    IN  [at |-> now + (IF settings.burst /\ tokens > 0 THEN 0 ELSE Wait(l.last)),
         tokens |-> tokens]

\* _respect_rate_limit: unlike the orchestrator's, tokens stay spent after a
\* wait and only come back after a pause.
SearchThrottled(l) ==
    LET tokens == IF l.tokens < 0 \/ (l.last >= 0 /\ Wait(l.last) = 0) THEN Burst ELSE l.tokens
    IN  CASE ~settings.burst -> [at |-> now + Wait(l.last), tokens |-> l.tokens]
          [] settings.burst /\ tokens > 0 -> [at |-> now, tokens |-> tokens - 1]
          [] OTHER -> [at |-> now + Wait(l.last), tokens |-> tokens]

-----------------------------------------------------------------------------
(* A run *)

\* crawl() is given an address or a query, and no row.
Possible(p) ==
    p.crawlOnly => ~p.row /\ Cardinality(p.urls) <= 1 /\ (p.query <=> p.urls = {})

\* plan() or crawl() of an entity; _execute resets the limiter.
Begin ==
    /\ pc \in {"idle", "raised"} /\ runs < MaxRuns
    /\ runs' = runs + 1
    /\ \E pause \in Pauses : now' = now + pause
    /\ plan' \in {p \in PlansOf[runs + 1] : Possible(p)} /\ targets' = plan'.urls
    /\ steps' = <<>> /\ row' = "none"
    /\ limiter' = [last |-> -1, tokens |-> IF host.limit = "burst" THEN Burst ELSE -1]
    /\ grants' = <<>> /\ calls' = <<>> /\ reached' = {}
    /\ GoTo(IF plan'.crawlOnly THEN "searching" ELSE "local")
    /\ UNCHANGED <<settings, host, asking, crawl, search>>

\* Snapshots on disk, then enrichment without the network.
LocalSteps ==
    /\ At("local")
    /\ \E snapshot \in {"success", "skipped", "error"}, authority \in {"success", "skipped"},
          enriched \in {"success", "skipped", "error"} :
           /\ plan.row \/ enriched = "skipped"
           /\ steps' = <<[name |-> "local_snapshot", status |-> snapshot],
                         [name |-> "authority_sources", status |-> authority],
                         [name |-> "deterministic_enrichment", status |-> enriched]>>
           /\ row' = IF plan.row /\ enriched # "error" THEN "deterministic" ELSE row
    /\ GoTo("searching")
    /\ UNCHANGED <<now, fixed, targets, asking, crawl, reached, turns, search>>

\* A snapshot that cannot be read, or is not UTF-8, is not one that does not
\* parse: the exception leaves the run, and there is no outcome.
LocalStepsRaise ==
    /\ At("local")
    /\ GoTo("raised")
    /\ UNCHANGED <<now, fixed, targets, steps, row, asking, crawl, reached, turns, search>>

\* Not the code: the search does not look at the plan's permission.
SearchesUnasked == settings.enabled

Searches == settings.enabled /\ plan.network

SkipSearch ==
    /\ At("searching") /\ ~Searches
    /\ Result("searx_search", "skipped")
    /\ GoTo("enriching")
    /\ UNCHANGED <<now, fixed, targets, row, asking, crawl, reached, turns, search>>

\* The results of an answer that no earlier result is equal to.
Added(answer) ==
    asking.found \cup
    {answer[i] : i \in {k \in 1..Len(answer) :
                           /\ \A u \in asking.found : Key[u] # Key[answer[k]]
                           /\ \A j \in 1..(k - 1) : Key[answer[j]] # Key[answer[k]]}}

MoreToAsk == asking.done < plan.terms /\ ~(settings.first /\ asking.found # {})
Term == asking.done + 1

Usable(q) == TTL > 0 /\ cache[q].at >= 0 /\ now - cache[q].at <= TTL

CacheHit ==
    /\ At("searching") /\ Searches /\ MoreToAsk /\ Usable(Term)
    /\ asking' = [done |-> Term, found |-> Added(cache[Term].answer)]
    /\ UNCHANGED <<now, fixed, pc, targets, steps, row, crawl, reached, turns, search>>

\* Not the code: what was answered is not kept.
StoreNothing(answer, kept) == UNCHANGED cache

\* Writing the cache is best effort; a torn entry is a miss.
Store(answer, kept) ==
    cache' = IF kept /\ TTL > 0 THEN [cache EXCEPT ![Term] = [at |-> now', answer |-> answer]]
             ELSE [cache EXCEPT ![Term] = [at |-> -1, answer |-> <<>>]]

\* The request goes out; whether it is answered or not the limiter counts it.
Ask(d) ==
    LET g == SearchThrottled(slimiter)
    IN  /\ At("searching") /\ Searches /\ MoreToAsk /\ ~Usable(Term)
        /\ now' = g.at + d
        /\ slimiter' = [last |-> g.at, tokens |-> g.tokens]
        /\ reached' = reached \cup {"search"}
        /\ UNCHANGED <<fixed, row, crawl, turns>>

Answered(d) ==
    /\ Ask(d)
    /\ \E answer \in Answers, kept \in BOOLEAN :
           /\ Store(answer, kept)
           /\ asking' = [done |-> Term, found |-> Added(answer)]
           /\ sgrants' = Append(sgrants, [at |-> now' - d, term |-> Term, kept |-> kept /\ TTL > 0])
    /\ UNCHANGED <<pc, targets, steps>>

\* SearxServiceError: what earlier terms gave is dropped with it.
SearchFails(d) ==
    /\ Ask(d)
    /\ sgrants' = Append(sgrants, [at |-> now' - d, term |-> Term, kept |-> FALSE])
    /\ asking' = NotAsking
    /\ Result("searx_search", "error")
    /\ GoTo("enriching")
    /\ UNCHANGED <<cache, targets>>

\* The first max_results results join the plan's addresses.
EndSearch ==
    /\ At("searching") /\ Searches /\ ~MoreToAsk
    /\ \E limited \in SUBSET asking.found :
           /\ \/ Cardinality(limited) = MaxResults
              \/ limited = asking.found /\ Cardinality(limited) < MaxResults
           /\ targets' = targets \cup limited
           /\ Result("searx_search", IF limited = {} THEN "skipped" ELSE "success")
    /\ asking' = NotAsking
    /\ GoTo("enriching")
    /\ UNCHANGED <<now, fixed, row, crawl, reached, turns, search>>

SkipEnrichment ==
    /\ At("enriching") /\ ~(plan.network /\ plan.row)
    /\ Result("network_enrichment", "skipped")
    /\ GoTo("crawling")
    /\ UNCHANGED <<now, fixed, targets, row, asking, crawl, reached, turns, search>>

\* Not the code: a pass that changed nothing, or failed, counts as well.
RowFromAnyPass(status) == "network"

\* Only a pass that updated a field replaces what was enriched before.
RowFrom(status) == IF status = "success" THEN "network" ELSE row

\* One turn for the whole pass of enrich_row, which may fail; either way the
\* limiter counts from its end.
Enrich(d) ==
    /\ At("enriching") /\ plan.network /\ plan.row
    /\ CallsOut(1, d, TRUE)
    /\ reached' = reached \cup {"enrichment"}
    /\ \E status \in {"success", "skipped", "error"} :
           /\ Result("network_enrichment", status)
           /\ row' = RowFrom(status)
    /\ GoTo("crawling")
    /\ UNCHANGED <<fixed, targets, asking, crawl, search>>

Crawls == plan.network /\ (targets # {} \/ plan.query)

\* The fallback has only the addresses to go by.
SkipCrawl ==
    /\ At("crawling")
    /\ ~Crawls \/ (~(host.gate /\ host.scrapy) /\ targets = {})
    /\ Result("native_crawl", "skipped")
    /\ GoTo("ending")
    /\ UNCHANGED <<now, fixed, targets, row, asking, crawl, reached, turns, search>>

\* One turn of the limiter, on which Scrapy is given a request for each address;
\* a failure is not fatal.
ScrapyCrawl(d) ==
    /\ At("crawling") /\ Crawls /\ host.gate /\ host.scrapy
    /\ CallsOut(Cardinality(targets), d, TRUE)
    /\ reached' = reached \cup {"scrapy"}
    /\ \E status \in {"success", "skipped"} : Result("native_crawl", status)
    /\ GoTo("ending")
    /\ UNCHANGED <<fixed, targets, row, asking, crawl, search>>

\* Without scrapy, or without the environment's permission, requests it is.
RequestsCrawl ==
    /\ At("crawling") /\ Crawls /\ ~(host.gate /\ host.scrapy) /\ targets # {}
    /\ crawl' = [Idle EXCEPT !.left = targets]
    /\ GoTo("fetching")
    /\ UNCHANGED <<now, fixed, targets, steps, row, asking, reached, turns, search>>

\* _fetch_with_retries: one turn of the limiter, on which the request for an
\* address is repeated, after a backoff, until it is answered or given up.
Fetch(u, d) ==
    /\ At("fetching") /\ u \in crawl.left
    /\ reached' = reached \cup {"requests"}
    /\ \E fetched \in BOOLEAN, attempts \in 1..Attempts :
           /\ fetched \/ attempts = Attempts
           /\ CallsOut(attempts, attempts * d, FALSE)
           /\ crawl' = [left |-> crawl.left \ {u}, any |-> crawl.any \/ fetched]
    /\ UNCHANGED <<fixed, pc, targets, steps, row, asking, search>>

EndFetching ==
    /\ At("fetching") /\ crawl.left = {}
    /\ limiter' = [limiter EXCEPT !.last = now]
    /\ Result("native_crawl", IF crawl.any THEN "success" ELSE "skipped")
    /\ crawl' = Idle
    /\ GoTo("ending")
    /\ UNCHANGED <<now, fixed, targets, row, asking, grants, calls, reached, search>>

\* The fields to backfill are planned; outcome and audit are best effort.
End ==
    /\ At("ending")
    /\ IF plan.crawlOnly THEN UNCHANGED steps
       ELSE \E status \in {"success", "skipped"} :
                /\ plan.row \/ status = "skipped"
                /\ Result("backfill", status)
    /\ GoTo("idle")
    /\ UNCHANGED <<now, fixed, targets, row, asking, crawl, reached, turns, search>>

Next ==
    \/ Begin
    \/ LocalSteps \/ LocalStepsRaise \/ SkipSearch \/ CacheHit \/ EndSearch
    \/ SkipEnrichment \/ SkipCrawl \/ RequestsCrawl \/ EndFetching \/ End
    \/ \E d \in Delays :
           \/ Answered(d) \/ SearchFails(d) \/ Enrich(d) \/ ScrapyCrawl(d)
           \/ \E u \in Urls : Fetch(u, d)

Spec == Init /\ [][Next]_vars

-----------------------------------------------------------------------------
(* Properties *)

\* By their times: among any w + 1 that follow each other, two that do are
\* Interval apart.
Spaced(times, w) ==
    \A i \in 1..(Len(times) - w) :
        \E k \in i..(i + w - 1) : times[k + 1] - times[k] >= Interval

Window == IF host.limit = "burst" THEN Burst ELSE 1

\* It is turns that the orchestrator's limiter spaces, not requests: however
\* enrichment and crawl take turns at it, which counts from the start of some
\* and from the end of others, a run takes no more than a burst of turns without
\* a pause (orchestrator.py:1226-1272).  On a turn go out a pass of enrichment or
\* the attempts at one address; only Scrapy's, the last of a run, carries more.
TurnsAreSpaced ==
    /\ host.limit # "none" => Spaced(grants, Window)
    /\ \A i \in 1..Len(calls) :
           calls[i] > Attempts => i = Len(grants) /\ "scrapy" \in reached

\* The same of what the search engine is asked over all runs, failures and
\* cache hits in between (searx.py:502-526).
SearchesAreSpaced ==
    Spaced([i \in 1..Len(sgrants) |-> sgrants[i].at], IF settings.burst THEN Burst ELSE 1)

\* A term whose answer was kept is not asked again, in any run, before the
\* answer is older than its time to live (searx.py:464-500).
CacheSavesRequests ==
    \A i, k \in 1..Len(sgrants) :
        i < k /\ sgrants[i].term = sgrants[k].term /\ sgrants[i].kept =>
            sgrants[k].at - sgrants[i].at > TTL

\* Whatever the caches and the row would allow, a plan without the network
\* calls nothing and adds nothing that came from it (orchestrator.py:661-800).
OfflineStaysOffline ==
    ~plan.network => reached = {} /\ targets = plan.urls /\ row # "network"

StepNames ==
    (IF plan.crawlOnly THEN <<>>
     ELSE <<"local_snapshot", "authority_sources", "deterministic_enrichment">>)
    \o <<"searx_search", "network_enrichment", "native_crawl">>
    \o (IF plan.crawlOnly THEN <<>> ELSE <<"backfill">>)

Ended(name, status) == \E i \in 1..Len(steps) : steps[i] = [name |-> name, status |-> status]

\* Every run that returns has one result per step in the order of _execute,
\* whichever of them failed, and its row comes from the last pass that made one: a network
\* pass that failed does not take the deterministic row away.
OutcomeIsWhole ==
    pc = "idle" /\ runs > 0 =>
        /\ [i \in 1..Len(steps) |-> steps[i].name] = StepNames
        /\ row = "network" <=> Ended("network_enrichment", "success")
        /\ row = "none" => ~plan.row \/ Ended("deterministic_enrichment", "error")
        /\ Ended("searx_search", "error") => targets = plan.urls

\* "Network-heavy actions (`hotpass.crawl`, remote enrichment) require
\* environment variables" (docs/explanations/ai/agent-system.md:59)
GateHolds == ~host.gate => reached \cap {"scrapy", "requests"} = {}

=============================================================================
