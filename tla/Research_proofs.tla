--------------------------- MODULE Research_proofs ---------------------------
(***************************************************************************)
(* Proofs about Research: types, spacing of calls, the cache, the plan     *)
(* without the network and the outcome of a run, for every interval,       *)
(* burst, time to live, set of answers and number of runs.                 *)
(***************************************************************************)
EXTENDS Research, SequenceTheorems, FiniteSetTheorems, TLAPS

\* The limiter and its history are left alone together.
USE DEF turns

-----------------------------------------------------------------------------
(* Spacing.  A token left is a call that may still follow without a pause: *)
(* calls that followed each other without one are no more than the tokens  *)
(* that were spent.                                                        *)

Pause(times, k) == times[k + 1] - times[k] >= Interval

Batch(times, w, tokens) ==
    \A j \in 1..Len(times) :
        Len(times) - j + 1 > w - tokens => \E k \in j..(Len(times) - 1) : Pause(times, k)

\* One more call leaves the pauses between earlier ones.
LEMMA PausesStay ==
    ASSUME NEW times \in Seq(Nat), NEW g \in Nat
    PROVE  /\ Append(times, g) \in Seq(Nat)
           /\ Len(Append(times, g)) = Len(times) + 1 /\ Len(times) \in Nat
           /\ Append(times, g)[Len(times) + 1] = g
           /\ \A k \in 1..Len(times) : Append(times, g)[k] = times[k]
           /\ \A k \in 1..(Len(times) - 1) : Pause(times, k) => Pause(Append(times, g), k)
<1>1. /\ Append(times, g) \in Seq(Nat)
      /\ Len(Append(times, g)) = Len(times) + 1 /\ Len(times) \in Nat
      /\ Append(times, g)[Len(times) + 1] = g
      /\ \A k \in 1..Len(times) : Append(times, g)[k] = times[k]
  OBVIOUS
<1>2. ASSUME NEW k \in 1..(Len(times) - 1), Pause(times, k) PROVE Pause(Append(times, g), k)
  <2>1. k \in 1..Len(times) /\ k + 1 \in 1..Len(times)
    BY <1>1
  <2> QED
    BY <1>1, <1>2, <2>1 DEF Pause
<1> QED
  BY <1>1, <1>2

\* A call after a pause begins a batch.
LEMMA BatchBegins ==
    ASSUME NEW times \in Seq(Nat), NEW g \in Nat, NEW w \in Nat \ {0}, NEW tokens \in 0..(w - 1),
           Len(times) > 0 => g - times[Len(times)] >= Interval
    PROVE  Batch(Append(times, g), w, tokens)
<1> DEFINE n == Len(times)
           more == Append(times, g)
<1>1. Len(more) = n + 1 /\ n \in Nat /\ more[n + 1] = g /\ \A k \in 1..n : more[k] = times[k]
  BY PausesStay
<1> HIDE DEF more
<1>2. ASSUME NEW j \in 1..Len(more), Len(more) - j + 1 > w - tokens
      PROVE  \E k \in j..(Len(more) - 1) : Pause(more, k)
  <2>1. n >= 1 /\ n \in j..(Len(more) - 1) /\ n \in 1..n
    BY <1>1, <1>2
  <2>2. more[n + 1] = g /\ more[n] = times[n]
    BY <1>1, <2>1
  <2>3. Pause(more, n)
    BY <2>1, <2>2 DEF Pause
  <2> QED
    BY <2>1, <2>3
<1> QED
  BY <1>2 DEF Batch, more

\* A call that spends a token goes on with it.
LEMMA BatchGoesOn ==
    ASSUME NEW times \in Seq(Nat), NEW g \in Nat, NEW w \in Nat \ {0}, NEW tokens \in 1..w,
           Batch(times, w, tokens)
    PROVE  Batch(Append(times, g), w, tokens - 1)
<1> DEFINE n == Len(times)
           more == Append(times, g)
<1>1. /\ Len(more) = n + 1 /\ n \in Nat
      /\ \A k \in 1..(n - 1) : Pause(times, k) => Pause(more, k)
  BY PausesStay
<1> HIDE DEF more
<1>2. ASSUME NEW j \in 1..Len(more), Len(more) - j + 1 > w - (tokens - 1)
      PROVE  \E k \in j..(Len(more) - 1) : Pause(more, k)
  <2>1. j \in 1..n /\ n - j + 1 > w - tokens
    BY <1>1, <1>2
  <2>2. PICK k \in j..(n - 1) : Pause(times, k)
    BY <2>1 DEF Batch
  <2>3. k \in 1..(n - 1) /\ k \in j..(Len(more) - 1)
    BY <1>1, <2>1, <2>2
  <2> QED
    BY <1>1, <2>2, <2>3
<1> QED
  BY <1>2 DEF Batch, more

\* Batches that are no longer than the window are spaced.
LEMMA SpacedStays ==
    ASSUME NEW times \in Seq(Nat), NEW g \in Nat, NEW w \in Nat \ {0}, NEW tokens \in 0..w,
           Spaced(times, w), Batch(Append(times, g), w, tokens)
    PROVE  Spaced(Append(times, g), w)
<1> DEFINE n == Len(times)
           more == Append(times, g)
<1>1. /\ Len(more) = n + 1 /\ n \in Nat
      /\ \A k \in 1..(n - 1) : Pause(times, k) => Pause(more, k)
  BY PausesStay
<1>b. Batch(more, w, tokens)
  OBVIOUS
<1> HIDE DEF more
<1>2. ASSUME NEW i \in 1..(Len(more) - w) PROVE \E k \in i..(i + w - 1) : Pause(more, k)
  <2>1. CASE i \in 1..(n - w)
    <3>1. PICK k \in i..(i + w - 1) : Pause(times, k)
      BY <2>1 DEF Spaced, Pause
    <3>2. k \in 1..(n - 1)
      BY <1>1, <2>1, <3>1
    <3> QED
      BY <1>1, <3>1, <3>2
  <2>2. CASE i = n + 1 - w
    <3>1. i \in 1..Len(more) /\ Len(more) - i + 1 > w - tokens
      BY <1>1, <2>2
    <3>2. PICK k \in i..(Len(more) - 1) : Pause(more, k)
      BY <1>b, <3>1 DEF Batch
    <3>3. k \in i..(i + w - 1)
      BY <1>1, <2>2, <3>2
    <3> QED
      BY <3>2, <3>3
  <2> QED
    BY <1>1, <2>1, <2>2
<1> QED
  BY <1>2 DEF Spaced, Pause, more

\* What a limiter has counted: spaced calls in batches, of which the last one is
\* not later than the time it counts from.
Counted(times, w, tokens, last) ==
    /\ Spaced(times, w) /\ Batch(times, w, tokens)
    /\ Len(times) > 0 => times[Len(times)] <= last

\* A call after a pause, and one that spends a token, are counted.
LEMMA CountedAfterPause ==
    ASSUME NEW times \in Seq(Nat), NEW g \in Nat, NEW w \in Nat \ {0}, NEW tokens \in 0..w,
           NEW left \in 0..(w - 1), NEW last \in Int, NEW next \in Nat,
           Counted(times, w, tokens, last), g <= next,
           last >= 0 => g - last >= Interval
    PROVE  Counted(Append(times, g), w, left, next)
<1>0. Interval \in Nat
  BY ResearchAssumption
<1>1. Len(times) > 0 => times[Len(times)] \in Nat
  OBVIOUS
<1>2. Len(times) > 0 => g - times[Len(times)] >= Interval
  BY <1>0, <1>1 DEF Counted
<1>3. Batch(Append(times, g), w, left)
  BY <1>2, BatchBegins
<1>4. left \in 0..w
  OBVIOUS
<1>5. Spaced(Append(times, g), w)
  BY <1>3, <1>4, SpacedStays DEF Counted
<1>6. Append(times, g)[Len(Append(times, g))] = g
  BY PausesStay
<1> QED
  BY <1>3, <1>5, <1>6 DEF Counted

\* A call that spends a token keeps its batch within the window.
LEMMA CountedByToken ==
    ASSUME NEW times \in Seq(Nat), NEW g \in Nat, NEW w \in Nat \ {0}, NEW tokens \in 1..w,
           NEW last \in Int, NEW next \in Nat,
           Counted(times, w, tokens, last), g <= next
    PROVE  Counted(Append(times, g), w, tokens - 1, next)
<1>1. Batch(Append(times, g), w, tokens - 1)
  BY BatchGoesOn DEF Counted
<1>2. tokens - 1 \in 0..w
  OBVIOUS
<1>3. Spaced(Append(times, g), w)
  BY <1>1, <1>2, SpacedStays DEF Counted
<1>4. Append(times, g)[Len(Append(times, g))] = g
  BY PausesStay
<1> QED
  BY <1>1, <1>3, <1>4 DEF Counted

-----------------------------------------------------------------------------
(* Types *)

Statuses == {"success", "skipped", "error"}
Results == [name : Names, status : Statuses]
Turns == [at : Nat, tokens : Nat \cup {-1}]

\* The pause before a call makes up for the interval since the last one.
LEMMA WaitTyped ==
    ASSUME now \in Nat, NEW last \in Nat \cup {-1}
    PROVE  Wait(last) \in Nat /\ (last >= 0 => now + Wait(last) - last >= Interval)
<1> Interval \in Nat \ {0}
  BY ResearchAssumption
<1> QED
  BY DEF Wait

\* A call goes out at once or later, and tokens are counted down to none.
LEMMA ThrottledTyped ==
    ASSUME now \in Nat, NEW l \in Limiters, host \in Hosts
    PROVE  Throttled(l) \in Turns /\ Throttled(l).at >= now
<1>1. Burst \in Nat \ {0}
  BY ResearchAssumption
<1>2. l.last \in Nat \cup {-1} /\ l.tokens \in Nat \cup {-1}
  BY DEF Limiters
<1>3. Wait(l.last) \in Nat
  BY <1>2, WaitTyped
<1>4. host.limit \in {"none", "spaced", "burst"}
  BY DEF Hosts
<1> HIDE DEF Wait
<1>5. CASE host.limit = "none"
  <2>1. Throttled(l) = [at |-> now, tokens |-> l.tokens]
    BY <1>5 DEF Throttled
  <2> QED
    BY <2>1, <1>2 DEF Turns
<1>6. CASE host.limit = "spaced"
  <2>1. Throttled(l) = [at |-> now + Wait(l.last), tokens |-> l.tokens]
    BY <1>6 DEF Throttled
  <2> QED
    BY <2>1, <1>2, <1>3 DEF Turns
<1>7. CASE host.limit = "burst"
  <2> DEFINE tokens == IF l.last >= 0 /\ Wait(l.last) = 0 THEN Burst ELSE l.tokens
  <2>1. Throttled(l) = IF tokens > 0 THEN [at |-> now, tokens |-> tokens - 1]
                       ELSE [at |-> now + Wait(l.last), tokens |-> Burst - 1]
    BY <1>7 DEF Throttled
  <2>2. tokens \in Nat \cup {-1}
    BY <1>1, <1>2
  <2> HIDE DEF tokens
  <2> QED
    BY <2>1, <2>2, <1>1, <1>3 DEF Turns
<1> QED
  BY <1>4, <1>5, <1>6, <1>7

\* The limiter of the search service gives a turn that is not in the past.
LEMMA SearchThrottledTyped ==
    ASSUME now \in Nat, NEW l \in Limiters, settings \in Settings
    PROVE  SearchThrottled(l) \in Turns /\ SearchThrottled(l).at >= now
<1>1. Burst \in Nat \ {0}
  BY ResearchAssumption
<1>2. l.last \in Nat \cup {-1} /\ l.tokens \in Nat \cup {-1}
  BY DEF Limiters
<1>3. Wait(l.last) \in Nat
  BY <1>2, WaitTyped
<1>4. settings.burst \in BOOLEAN
  BY DEF Settings
<1> HIDE DEF Wait
<1> DEFINE tokens == IF l.tokens < 0 \/ (l.last >= 0 /\ Wait(l.last) = 0)
                     THEN Burst ELSE l.tokens
<1>5. tokens \in Nat
  BY <1>1, <1>2
<1>6. CASE ~settings.burst
  <2>1. SearchThrottled(l) = [at |-> now + Wait(l.last), tokens |-> l.tokens]
    BY <1>6, <1>5 DEF SearchThrottled
  <2> QED
    BY <2>1, <1>2, <1>3 DEF Turns
<1>7. CASE settings.burst /\ tokens > 0
  <2>1. SearchThrottled(l) = [at |-> now, tokens |-> tokens - 1]
    BY <1>7 DEF SearchThrottled
  <2> HIDE DEF tokens
  <2> QED
    BY <2>1, <1>5, <1>7 DEF Turns
<1>8. CASE settings.burst /\ ~(tokens > 0)
  <2>1. SearchThrottled(l) = [at |-> now + Wait(l.last), tokens |-> tokens]
    BY <1>8 DEF SearchThrottled
  <2> HIDE DEF tokens
  <2> QED
    BY <2>1, <1>5, <1>3 DEF Turns
<1> QED
  BY <1>4, <1>6, <1>7, <1>8

\* One step result more keeps the results' type.
LEMMA ResultTyped ==
    ASSUME steps \in Seq(Results), NEW name \in Names, NEW status \in Statuses,
           Result(name, status)
    PROVE  steps' \in Seq(Results)
<1>1. [name |-> name, status |-> status] \in Results
  BY DEF Results
<1> QED
  BY <1>1 DEF Result

\* A turn lets time pass and is recorded.
LEMMA CallsOutTyped ==
    ASSUME ResearchTypeOK, NEW n \in Nat, NEW d \in Nat, NEW after \in BOOLEAN,
           CallsOut(n, d, after)
    PROVE  /\ now' \in Nat /\ now' >= now /\ limiter' \in Limiters
           /\ grants' \in Seq(Nat) /\ calls' \in Seq(Nat)
<1>2. /\ limiter \in Limiters /\ now \in Nat /\ host \in Hosts
      /\ grants \in Seq(Nat) /\ calls \in Seq(Nat)
  BY DEF ResearchTypeOK
<1> DEFINE g == Throttled(limiter)
<1>3. g \in Turns /\ g.at >= now
  BY <1>2, ThrottledTyped
<1>4. /\ now' = g.at + d
      /\ limiter' = [last |-> IF after THEN g.at + d
                              ELSE IF host.limit = "none" THEN limiter.last ELSE g.at,
                     tokens |-> g.tokens]
      /\ grants' = Append(grants, g.at) /\ calls' = Append(calls, n)
  BY DEF CallsOut
<1> HIDE DEF g
<1>5. g.at \in Nat /\ g.tokens \in Nat \cup {-1} /\ limiter.last \in Nat \cup {-1}
  BY <1>2, <1>3 DEF Turns, Limiters
<1>6. now' \in Nat /\ now' >= now
  BY <1>2, <1>3, <1>4, <1>5
<1>7. limiter' \in Limiters
  BY <1>4, <1>5 DEF Limiters
<1>8. grants' \in Seq(Nat) /\ calls' \in Seq(Nat)
  BY <1>2, <1>4, <1>5
<1> QED
  BY <1>6, <1>7, <1>8

\* Enrichment and crawl each take a turn at the limiter, for no more requests than
\* attempts unless it is Scrapy's.
LEMMA TurnTaken ==
    ASSUME ResearchTypeOK, NEW d \in Delays, NEW u,
           Enrich(d) \/ ScrapyCrawl(d) \/ Fetch(u, d)
    PROVE  \E n \in Nat, e \in Nat, after \in BOOLEAN :
               CallsOut(n, e, after) /\ (n > Attempts => ScrapyCrawl(d))
<1>1. d \in Nat /\ Attempts \in Nat /\ Attempts >= 1 /\ IsFiniteSet(Urls)
  BY ResearchAssumption
<1>2. CASE Enrich(d)
  <2>1. CallsOut(1, d, TRUE)
    BY <1>2 DEF Enrich
  <2>2. ~(1 > Attempts)
    BY <1>1
  <2> QED
    BY <1>1, <2>1, <2>2
<1>3. CASE ScrapyCrawl(d)
  <2>1. CallsOut(Cardinality(targets), d, TRUE)
    BY <1>3 DEF ScrapyCrawl
  <2>2. Cardinality(targets) \in Nat
    BY <1>1, FS_Subset, FS_CardinalityType DEF ResearchTypeOK
  <2> QED
    BY <1>1, <1>3, <2>1, <2>2
<1>4. CASE Fetch(u, d)
  <2>1. PICK attempts \in 1..Attempts : CallsOut(attempts, attempts * d, FALSE)
    BY <1>4 DEF Fetch
  <2>2. attempts \in Nat /\ ~(attempts > Attempts) /\ attempts * d \in Nat
    BY <1>1
  <2> QED
    BY <2>1, <2>2
<1> QED
  BY <1>2, <1>3, <1>4

Asked == [at : Nat, term : 1..Terms, kept : BOOLEAN]

\* A request of the service is recorded with the time it went out.
LEMMA AskTyped ==
    ASSUME ResearchTypeOK, NEW d \in Delays, Ask(d), NEW kept \in BOOLEAN,
           sgrants' = Append(sgrants, [at |-> now' - d, term |-> Term, kept |-> kept])
    PROVE  /\ now' \in Nat /\ now' >= now /\ slimiter' \in Limiters /\ sgrants' \in Seq(Asked)
           /\ now' - d = SearchThrottled(slimiter).at /\ now' - d >= now /\ now' - d <= now'
           /\ Term \in 1..Terms
           /\ [at |-> now' - d, term |-> Term, kept |-> kept] \in Asked
<1>1. d \in Nat /\ Terms \in Nat
  BY ResearchAssumption
<1>2. /\ slimiter \in Limiters /\ now \in Nat /\ settings \in Settings
      /\ sgrants \in Seq(Asked) /\ asking \in [done : 0..Terms, found : SUBSET Urls]
      /\ plan \in Plans
  BY DEF ResearchTypeOK, Asked
<1> DEFINE g == SearchThrottled(slimiter)
<1>3. g \in Turns /\ g.at >= now
  BY <1>2, SearchThrottledTyped
<1>4. now' = g.at + d /\ slimiter' = [last |-> g.at, tokens |-> g.tokens] /\ MoreToAsk
  BY DEF Ask
<1> HIDE DEF g
<1>5. g.at \in Nat /\ g.tokens \in Nat \cup {-1}
  BY <1>3 DEF Turns
<1>6. Term \in 1..Terms
  <2>1. asking.done \in 0..Terms /\ plan.terms \in 1..Terms
    BY <1>2 DEF Plans
  <2> QED
    BY <1>1, <1>4, <2>1 DEF MoreToAsk, Term
<1>7. now' \in Nat /\ now' >= now /\ now' - d = g.at /\ now' - d <= now'
  <2>1. now \in Nat /\ d \in Nat /\ g.at >= now /\ g.at \in Nat /\ now' = g.at + d
    BY <1>1, <1>2, <1>3, <1>4, <1>5
  <2> QED
    BY <2>1
<1>8. slimiter' \in Limiters
  BY <1>4, <1>5 DEF Limiters
<1>9. [at |-> now' - d, term |-> Term, kept |-> kept] \in Asked
  BY <1>5, <1>6, <1>7 DEF Asked
<1>10. sgrants' \in Seq(Asked)
  BY <1>2, <1>9
<1> QED
  BY <1>3, <1>6, <1>7, <1>8, <1>9, <1>10 DEF g

\* The parts of the type invariant, by what they are about.
FixedTyped ==
    /\ settings \in Settings /\ host \in Hosts /\ runs \in 0..MaxRuns /\ plan \in Plans
RunTyped ==
    /\ pc \in {"idle", "local", "searching", "enriching", "crawling", "fetching", "ending",
              "raised"}
    /\ targets \in SUBSET Urls /\ row \in {"none", "deterministic", "network"}
    /\ reached \in SUBSET {"search", "enrichment", "scrapy", "requests"}
StepsTyped == steps \in Seq(Results)
CallsTyped ==
    now \in Nat /\ limiter \in Limiters /\ grants \in Seq(Nat) /\ calls \in Seq(Nat)
SearchTyped ==
    /\ slimiter \in Limiters /\ sgrants \in Seq(Asked)
    /\ cache \in [1..Terms -> [at : Nat \cup {-1}, answer : Seq(Urls)]]
WorkTyped ==
    /\ asking \in [done : 0..Terms, found : SUBSET Urls]
    /\ crawl \in [left : SUBSET Urls, any : BOOLEAN]

\* The types, by the groups of variables that change together.
LEMMA TypeParts ==
    ResearchTypeOK <=>
        FixedTyped /\ RunTyped /\ StepsTyped /\ CallsTyped /\ SearchTyped /\ WorkTyped
  BY DEF ResearchTypeOK, FixedTyped, RunTyped, StepsTyped, CallsTyped, SearchTyped, WorkTyped,
         Results, Statuses, Asked

\* The same of the next state.
LEMMA TypePartsNext ==
    ResearchTypeOK' <=>
        FixedTyped' /\ RunTyped' /\ StepsTyped' /\ CallsTyped' /\ SearchTyped' /\ WorkTyped'
  BY DEF ResearchTypeOK, FixedTyped, RunTyped, StepsTyped, CallsTyped, SearchTyped, WorkTyped,
         Results, Statuses, Asked

\* Each turn only goes forward.
LEMMA ClockStep ==
    ASSUME ResearchTypeOK, [Next]_vars PROVE now' \in Nat /\ now' >= now
<1>1. now \in Nat
  BY DEF ResearchTypeOK
<1>2. CASE Begin
  BY <1>1, <1>2, ResearchAssumption DEF Begin
<1>3. CASE LocalSteps \/ LocalStepsRaise \/ SkipSearch \/ CacheHit \/ EndSearch
           \/ SkipEnrichment \/ SkipCrawl \/ RequestsCrawl \/ EndFetching \/ End
  BY <1>1, <1>3 DEF LocalSteps, LocalStepsRaise, SkipSearch, CacheHit, EndSearch, SkipEnrichment, SkipCrawl,
     RequestsCrawl, EndFetching, End
<1>4. ASSUME NEW d \in Delays, Answered(d) PROVE now' \in Nat /\ now' >= now
  <2>1. PICK kept \in BOOLEAN :
          sgrants' = Append(sgrants, [at |-> now' - d, term |-> Term, kept |-> kept])
    BY <1>4, ResearchAssumption DEF Answered
  <2> QED
    BY <1>4, <2>1, AskTyped DEF Answered
<1>5. ASSUME NEW d \in Delays, SearchFails(d) PROVE now' \in Nat /\ now' >= now
  BY <1>5, AskTyped DEF SearchFails
<1>6. ASSUME NEW d \in Delays, NEW u, Enrich(d) \/ ScrapyCrawl(d) \/ Fetch(u, d)
      PROVE  now' \in Nat /\ now' >= now
  BY <1>6, TurnTaken, CallsOutTyped
<1>9. CASE UNCHANGED vars
  BY <1>1, <1>9 DEF vars
<1> QED
  BY <1>2, <1>3, <1>4, <1>5, <1>6, <1>9 DEF Next

\* Beginning a run keeps the types.
LEMMA BeginTyped ==
    ASSUME ResearchTypeOK, Begin PROVE ResearchTypeOK'
<1>1. FixedTyped /\ RunTyped /\ StepsTyped /\ CallsTyped /\ SearchTyped /\ WorkTyped
  BY TypeParts
<1>2. runs + 1 \in 1..MaxRuns
  BY <1>1, ResearchAssumption DEF Begin, FixedTyped
<1>3. plan' \in Plans
  BY <1>2, ResearchAssumption DEF Begin
<1>4. FixedTyped'
  BY <1>1, <1>2, <1>3 DEF FixedTyped, Begin
<1>5. plan'.urls \in SUBSET Urls
  BY <1>3 DEF Plans
<1>6. RunTyped'
  BY <1>5 DEF RunTyped, Begin, GoTo
<1>7. StepsTyped'
  BY DEF StepsTyped, Begin
<1>8. limiter' \in Limiters
  BY ResearchAssumption DEF Begin, Limiters
<1>9. now' \in Nat
  BY ClockStep DEF Next
<1>10. CallsTyped'
  BY <1>8, <1>9 DEF CallsTyped, Begin
<1>11. SearchTyped' /\ WorkTyped'
  BY <1>1 DEF SearchTyped, WorkTyped, Begin, search
<1> QED
  BY <1>4, <1>6, <1>7, <1>10, <1>11, TypePartsNext

\* The steps without the network keep the types.
LEMMA LocalStepsTyped ==
    ASSUME ResearchTypeOK, LocalSteps PROVE ResearchTypeOK'
<1>1. FixedTyped /\ RunTyped /\ StepsTyped /\ CallsTyped /\ SearchTyped /\ WorkTyped
  BY TypeParts
<1>2. PICK snapshot \in Statuses, authority \in Statuses, enriched \in Statuses :
           steps' = <<[name |-> "local_snapshot", status |-> snapshot],
                      [name |-> "authority_sources", status |-> authority],
                      [name |-> "deterministic_enrichment", status |-> enriched]>>
  BY DEF LocalSteps, Statuses
<1>3. /\ [name |-> "local_snapshot", status |-> snapshot] \in Results
      /\ [name |-> "authority_sources", status |-> authority] \in Results
      /\ [name |-> "deterministic_enrichment", status |-> enriched] \in Results
  BY DEF Results, Names
<1>4. StepsTyped'
  BY <1>2, <1>3 DEF StepsTyped
<1>5. RunTyped'
  BY <1>1 DEF RunTyped, LocalSteps, GoTo
<1>6. FixedTyped' /\ CallsTyped' /\ SearchTyped' /\ WorkTyped'
  BY <1>1 DEF FixedTyped, CallsTyped, SearchTyped, WorkTyped, LocalSteps, fixed, search
<1> QED
  BY <1>4, <1>5, <1>6, TypePartsNext

\* A run that raises keeps the types.
LEMMA RaisedTyped ==
    ASSUME ResearchTypeOK, LocalStepsRaise PROVE ResearchTypeOK'
<1>1. FixedTyped /\ RunTyped /\ StepsTyped /\ CallsTyped /\ SearchTyped /\ WorkTyped
  BY TypeParts
<1>2. RunTyped' /\ StepsTyped'
  BY <1>1 DEF RunTyped, StepsTyped, LocalStepsRaise, GoTo
<1>3. FixedTyped' /\ CallsTyped' /\ SearchTyped' /\ WorkTyped'
  BY <1>1 DEF FixedTyped, CallsTyped, SearchTyped, WorkTyped, LocalStepsRaise, fixed, search
<1> QED
  BY <1>2, <1>3, TypePartsNext

\* The steps that call nothing.
LEMMA QuietStepsTyped ==
    ASSUME ResearchTypeOK,
           SkipSearch \/ EndSearch \/ SkipEnrichment \/ SkipCrawl \/ RequestsCrawl
           \/ EndFetching \/ End
    PROVE  ResearchTypeOK'
<1>1. FixedTyped /\ RunTyped /\ StepsTyped /\ CallsTyped /\ SearchTyped /\ WorkTyped
  BY TypeParts
<1>2. FixedTyped' /\ SearchTyped'
  BY <1>1 DEF FixedTyped, SearchTyped, fixed, search, SkipSearch, EndSearch, SkipEnrichment,
     SkipCrawl, RequestsCrawl, EndFetching, End
<1>3. StepsTyped'
  <2>1. CASE SkipSearch \/ SkipEnrichment \/ SkipCrawl
    BY <1>1, <2>1, ResultTyped
       DEF StepsTyped, SkipSearch, SkipEnrichment, SkipCrawl, Names, Statuses
  <2>2. CASE EndSearch
    <3>1. PICK status \in Statuses : Result("searx_search", status)
      BY <2>2 DEF EndSearch, Statuses
    <3> QED
      BY <1>1, <3>1, ResultTyped DEF StepsTyped, Names
  <2>3. CASE EndFetching
    <3>1. PICK status \in Statuses : Result("native_crawl", status)
      BY <2>3 DEF EndFetching, Statuses
    <3> QED
      BY <1>1, <3>1, ResultTyped DEF StepsTyped, Names
  <2>4. CASE End
    <3>1. CASE plan.crawlOnly
      BY <1>1, <2>4, <3>1 DEF StepsTyped, End
    <3>2. CASE ~plan.crawlOnly
      <4>1. PICK status \in Statuses : Result("backfill", status)
        BY <2>4, <3>2 DEF End, Statuses
      <4> QED
        BY <1>1, <4>1, ResultTyped DEF StepsTyped, Names
    <3> QED
      BY <3>1, <3>2
  <2>5. CASE RequestsCrawl
    BY <1>1, <2>5 DEF StepsTyped, RequestsCrawl
  <2> QED
    BY <2>1, <2>2, <2>3, <2>4, <2>5
<1>4. RunTyped'
  <2>1. CASE EndSearch
    <3>1. PICK limited \in SUBSET asking.found : targets' = targets \cup limited
      BY <2>1 DEF EndSearch
    <3>2. targets' \in SUBSET Urls
      BY <1>1, <3>1 DEF RunTyped, WorkTyped
    <3> QED
      BY <1>1, <2>1, <3>2 DEF RunTyped, EndSearch, GoTo, fixed
  <2>2. CASE SkipSearch \/ SkipEnrichment \/ SkipCrawl \/ RequestsCrawl \/ EndFetching \/ End
    BY <1>1, <2>2 DEF RunTyped, SkipSearch, SkipEnrichment, SkipCrawl, RequestsCrawl,
       EndFetching, End, GoTo
  <2> QED
    BY <2>1, <2>2
<1>5. CallsTyped'
  <2>1. CASE EndFetching
    <3>1. limiter' = [limiter EXCEPT !.last = now] /\ UNCHANGED <<now, grants, calls>>
      BY <2>1 DEF EndFetching
    <3> QED
      BY <1>1, <3>1 DEF CallsTyped, Limiters
  <2>2. CASE SkipSearch \/ EndSearch \/ SkipEnrichment \/ SkipCrawl \/ RequestsCrawl \/ End
    BY <1>1, <2>2 DEF CallsTyped, SkipSearch, EndSearch, SkipEnrichment, SkipCrawl,
       RequestsCrawl, End
  <2> QED
    BY <2>1, <2>2
<1>6. WorkTyped'
  <2>1. CASE EndSearch
    BY <1>1, <2>1, ResearchAssumption DEF WorkTyped, EndSearch, NotAsking
  <2>2. CASE RequestsCrawl
    BY <1>1, <2>2 DEF WorkTyped, RequestsCrawl, Idle, RunTyped
  <2>3. CASE EndFetching
    BY <1>1, <2>3 DEF WorkTyped, EndFetching, Idle
  <2>4. CASE SkipSearch \/ SkipEnrichment \/ SkipCrawl \/ End
    BY <1>1, <2>4 DEF WorkTyped, SkipSearch, SkipEnrichment, SkipCrawl, End
  <2> QED
    BY <2>1, <2>2, <2>3, <2>4
<1> QED
  BY <1>2, <1>3, <1>4, <1>5, <1>6, TypePartsNext

\* The calls of the orchestrator.
LEMMA CallsKeepTypes ==
    ASSUME ResearchTypeOK, NEW d \in Delays, NEW u,
           Enrich(d) \/ ScrapyCrawl(d) \/ Fetch(u, d)
    PROVE  ResearchTypeOK'
<1>1. FixedTyped /\ RunTyped /\ StepsTyped /\ CallsTyped /\ SearchTyped /\ WorkTyped
  BY TypeParts
<1>3. CallsTyped'
  BY TurnTaken, CallsOutTyped DEF CallsTyped
<1>4. FixedTyped' /\ SearchTyped'
  BY <1>1 DEF FixedTyped, SearchTyped, fixed, search, Enrich, ScrapyCrawl, Fetch
<1>5. RunTyped'
  BY <1>1 DEF RunTyped, Enrich, ScrapyCrawl, Fetch, GoTo, RowFrom
<1>6. StepsTyped'
  <2>1. CASE Enrich(d)
    <3>1. PICK status \in Statuses : Result("network_enrichment", status)
      BY <2>1 DEF Enrich, Statuses
    <3> QED
      BY <1>1, <3>1, ResultTyped DEF StepsTyped, Names
  <2>2. CASE ScrapyCrawl(d)
    <3>1. PICK status \in Statuses : Result("native_crawl", status)
      BY <2>2 DEF ScrapyCrawl, Statuses
    <3> QED
      BY <1>1, <3>1, ResultTyped DEF StepsTyped, Names
  <2>3. CASE Fetch(u, d)
    BY <1>1, <2>3 DEF StepsTyped, Fetch
  <2> QED
    BY <2>1, <2>2, <2>3
<1>7. WorkTyped'
  <2>1. CASE Fetch(u, d)
    <3>1. PICK fetched \in BOOLEAN :
            crawl' = [left |-> crawl.left \ {u}, any |-> crawl.any \/ fetched]
      BY <2>1 DEF Fetch
    <3>2. crawl.left \in SUBSET Urls /\ crawl.any \in BOOLEAN
      BY <1>1 DEF WorkTyped
    <3>3. crawl' \in [left : SUBSET Urls, any : BOOLEAN]
      BY <3>1, <3>2
    <3> QED
      BY <1>1, <2>1, <3>3 DEF WorkTyped, Fetch
  <2>2. CASE Enrich(d) \/ ScrapyCrawl(d)
    BY <1>1, <2>2 DEF WorkTyped, Enrich, ScrapyCrawl
  <2> QED
    BY <2>1, <2>2
<1> QED
  BY <1>3, <1>4, <1>5, <1>6, <1>7, TypePartsNext

\* The addresses an answer adds are addresses.
LEMMA AddedTyped ==
    ASSUME ResearchTypeOK, NEW answer \in Seq(Urls) PROVE Added(answer) \in SUBSET Urls
<1>1. asking.found \in SUBSET Urls
  BY DEF ResearchTypeOK
<1>2. \A k \in 1..Len(answer) : answer[k] \in Urls
  OBVIOUS
<1> QED
  BY <1>1, <1>2 DEF Added

\* The search, from the cache or from the service.
LEMMA SearchKeepsTypes ==
    ASSUME ResearchTypeOK, NEW d, CacheHit \/ (d \in Delays /\ (Answered(d) \/ SearchFails(d)))
    PROVE  ResearchTypeOK'
<1>1. FixedTyped /\ RunTyped /\ StepsTyped /\ CallsTyped /\ SearchTyped /\ WorkTyped
  BY TypeParts
<1>2. CASE CacheHit
  <2>1. Term \in 1..Terms
    <3>1. asking.done \in 0..Terms /\ plan.terms \in 1..Terms
      BY <1>1 DEF WorkTyped, FixedTyped, Plans
    <3> QED
      BY <1>2, <3>1, ResearchAssumption DEF CacheHit, MoreToAsk, Term
  <2>2. cache[Term].answer \in Seq(Urls)
    BY <1>1, <2>1 DEF SearchTyped
  <2>3. asking' = [done |-> Term, found |-> Added(cache[Term].answer)]
    BY <1>2 DEF CacheHit
  <2>4. Added(cache[Term].answer) \in SUBSET Urls
    BY <2>2, AddedTyped
  <2>5. WorkTyped'
    BY <1>1, <1>2, <2>1, <2>3, <2>4 DEF WorkTyped, CacheHit
  <2>6. FixedTyped' /\ RunTyped' /\ StepsTyped' /\ CallsTyped' /\ SearchTyped'
    BY <1>1, <1>2 DEF FixedTyped, RunTyped, StepsTyped, CallsTyped, SearchTyped, CacheHit, fixed,
       search
  <2> QED
    BY <2>5, <2>6, TypePartsNext
<1>3. CASE d \in Delays /\ Answered(d)
  <2>1. PICK answer \in Answers, kept \in BOOLEAN :
          /\ Store(answer, kept)
          /\ asking' = [done |-> Term, found |-> Added(answer)]
          /\ sgrants' = Append(sgrants, [at |-> now' - d, term |-> Term, kept |-> kept /\ TTL > 0])
    BY <1>3 DEF Answered
  <2>2. (kept /\ TTL > 0) \in BOOLEAN
    BY ResearchAssumption
  <2>3. /\ now' \in Nat /\ slimiter' \in Limiters /\ sgrants' \in Seq(Asked) /\ Term \in 1..Terms
    BY <1>3, <2>1, <2>2, AskTyped DEF Answered
  <2>4. answer \in Seq(Urls)
    BY ResearchAssumption
  <2>5. Added(answer) \in SUBSET Urls
    BY <2>4, AddedTyped
  <2>6. cache' \in [1..Terms -> [at : Nat \cup {-1}, answer : Seq(Urls)]]
    BY <1>1, <2>1, <2>3, <2>4 DEF SearchTyped, Store
  <2>7. SearchTyped'
    BY <2>3, <2>6 DEF SearchTyped
  <2>8. WorkTyped'
    <3>1. UNCHANGED crawl
      BY <1>3 DEF Answered, Ask
    <3> QED
      BY <1>1, <2>1, <2>3, <2>5, <3>1 DEF WorkTyped
  <2>9. CallsTyped' /\ FixedTyped' /\ RunTyped' /\ StepsTyped'
    BY <1>1, <1>3, <2>3 DEF FixedTyped, RunTyped, StepsTyped, CallsTyped, Answered, Ask, fixed
  <2> QED
    BY <2>7, <2>8, <2>9, TypePartsNext
<1>4. CASE d \in Delays /\ SearchFails(d)
  <2>1. now' \in Nat /\ slimiter' \in Limiters /\ sgrants' \in Seq(Asked)
    BY <1>4, AskTyped DEF SearchFails
  <2>2. SearchTyped'
    BY <1>1, <1>4, <2>1 DEF SearchTyped, SearchFails
  <2>3. StepsTyped'
    BY <1>1, <1>4, ResultTyped DEF StepsTyped, SearchFails, Names, Statuses
  <2>4. WorkTyped'
    BY <1>1, <1>4, ResearchAssumption DEF WorkTyped, SearchFails, Ask, NotAsking
  <2>5. CallsTyped' /\ FixedTyped' /\ RunTyped'
    BY <1>1, <1>4, <2>1 DEF FixedTyped, RunTyped, CallsTyped, SearchFails, Ask, fixed, GoTo
  <2> QED
    BY <2>2, <2>3, <2>4, <2>5, TypePartsNext
<1> QED
  BY <1>2, <1>3, <1>4

\* The first state satisfies the types.
LEMMA TypeInit ==
    ASSUME Init PROVE ResearchTypeOK
<1>1. FixedTyped
  BY ResearchAssumption DEF Init, FixedTyped, NoPlan, Plans
<1>2. RunTyped /\ StepsTyped
  BY DEF Init, RunTyped, StepsTyped
<1>3. CallsTyped
  BY DEF Init, CallsTyped, Fresh, Limiters
<1>4. SearchTyped
  BY DEF Init, SearchTyped, Fresh, Limiters
<1>5. WorkTyped
  BY ResearchAssumption DEF Init, WorkTyped, NotAsking, Idle
<1> QED
  BY <1>1, <1>2, <1>3, <1>4, <1>5, TypeParts

\* Every step keeps the types.
LEMMA TypeStep ==
    ASSUME ResearchTypeOK, [Next]_vars PROVE ResearchTypeOK'
<1>1. CASE UNCHANGED vars
  BY <1>1 DEF ResearchTypeOK, vars
<1>2. CASE Begin \/ LocalSteps \/ LocalStepsRaise
  BY <1>2, BeginTyped, LocalStepsTyped, RaisedTyped
<1>3. CASE SkipSearch \/ EndSearch \/ SkipEnrichment \/ SkipCrawl \/ RequestsCrawl
           \/ EndFetching \/ End
  BY <1>3, QuietStepsTyped
<1>4. CASE CacheHit
  BY <1>4, SearchKeepsTypes
<1>5. ASSUME NEW d \in Delays, Answered(d) \/ SearchFails(d) PROVE ResearchTypeOK'
  BY <1>5, SearchKeepsTypes
<1>6. ASSUME NEW d \in Delays, NEW u, Enrich(d) \/ ScrapyCrawl(d) \/ Fetch(u, d)
      PROVE  ResearchTypeOK'
  BY <1>6, CallsKeepTypes
<1> QED
  BY <1>1, <1>2, <1>3, <1>4, <1>5, <1>6 DEF Next

\* The variables keep to what they may hold, over every run.
THEOREM ResearchTypes == Spec => []ResearchTypeOK
<1>1. Init => ResearchTypeOK
  BY TypeInit
<1>2. ResearchTypeOK /\ [Next]_vars => ResearchTypeOK'
  BY TypeStep
<1> QED
  BY <1>1, <1>2, PTL DEF Spec

-----------------------------------------------------------------------------
(* The plan without the network *)

\* Without the network addresses are never fetched, so that nothing is called.
OfflineInv == OfflineStaysOffline /\ (~plan.network => pc # "fetching")

\* Every step keeps a plan without the network offline.
LEMMA OfflineStep ==
    ASSUME OfflineInv, [Next]_vars PROVE OfflineInv'
<1>1. CASE UNCHANGED vars
  BY <1>1 DEF OfflineInv, OfflineStaysOffline, vars
<1>2. CASE Begin
  BY <1>2 DEF Begin, OfflineInv, OfflineStaysOffline, GoTo
<1>3. CASE LocalSteps \/ LocalStepsRaise
  BY <1>3 DEF LocalSteps, LocalStepsRaise, OfflineInv, OfflineStaysOffline, GoTo, fixed
<1>4. CASE SkipSearch \/ SkipEnrichment \/ SkipCrawl \/ EndFetching \/ End \/ CacheHit
  BY <1>4 DEF SkipSearch, SkipEnrichment, SkipCrawl, EndFetching, End, CacheHit, OfflineInv,
     OfflineStaysOffline, GoTo, fixed
<1>5. CASE EndSearch \/ RequestsCrawl
  <2>1. plan.network /\ UNCHANGED plan
    BY <1>5 DEF EndSearch, RequestsCrawl, Searches, Crawls, fixed
  <2> QED
    BY <2>1 DEF OfflineInv, OfflineStaysOffline
<1>6. ASSUME NEW d \in Delays, Answered(d) \/ SearchFails(d) \/ Enrich(d) \/ ScrapyCrawl(d)
      PROVE  OfflineInv'
  <2>1. plan.network /\ UNCHANGED plan
    BY <1>6 DEF Answered, SearchFails, Ask, Enrich, ScrapyCrawl, Searches, Crawls, fixed
  <2> QED
    BY <2>1 DEF OfflineInv, OfflineStaysOffline
<1>7. ASSUME NEW d \in Delays, NEW u \in Urls, Fetch(u, d) PROVE OfflineInv'
  <2>1. plan.network /\ UNCHANGED plan
    BY <1>7 DEF Fetch, At, OfflineInv, fixed
  <2> QED
    BY <2>1 DEF OfflineInv, OfflineStaysOffline
<1> QED
  BY <1>1, <1>2, <1>3, <1>4, <1>5, <1>6, <1>7 DEF Next

\* A plan without the network calls nothing and keeps nothing that came from it
\* (orchestrator.py:661-800).
THEOREM OfflineIsOffline == Spec => []OfflineStaysOffline
<1>1. Init => OfflineInv
  BY DEF Init, NoPlan, OfflineInv, OfflineStaysOffline
<1>2. OfflineInv /\ [Next]_vars => OfflineInv'
  BY OfflineStep
<1>3. OfflineInv => OfflineStaysOffline
  BY DEF OfflineInv
<1> QED
  BY <1>1, <1>2, <1>3, PTL DEF Spec

-----------------------------------------------------------------------------
(* The orchestrator's turns *)

Left == IF host.limit = "burst" THEN limiter.tokens ELSE 0

\* What the limiter remembers is what the turns of the run were.
CallsInv ==
    /\ limiter.last <= now
    /\ host.limit = "burst" /\ pc # "idle" => limiter.tokens \in 0..Burst
    /\ host.limit # "none" => Counted(grants, Window, Left, limiter.last)

\* A turn is waited for and counted.
LEMMA CallIsCounted ==
    ASSUME ResearchTypeOK, CallsInv, pc # "idle", NEW n, NEW d \in Nat, NEW after \in BOOLEAN,
           CallsOut(n, d, after), UNCHANGED host
    PROVE  CallsInv'
<1>1. Burst \in Nat \ {0} /\ d \in Nat /\ Interval \in Nat \ {0}
  BY ResearchAssumption
<1>2. /\ limiter \in Limiters /\ now \in Nat /\ host \in Hosts /\ grants \in Seq(Nat)
  BY DEF ResearchTypeOK
<1> DEFINE g == Throttled(limiter)
<1>3. g \in Turns /\ g.at >= now
  BY <1>2, ThrottledTyped
<1>4. /\ now' = g.at + d
      /\ limiter' = [last |-> IF after THEN g.at + d
                              ELSE IF host.limit = "none" THEN limiter.last ELSE g.at,
                     tokens |-> g.tokens]
      /\ grants' = Append(grants, g.at)
  BY DEF CallsOut
<1>5. limiter.last \in Nat \cup {-1} /\ limiter.tokens \in Nat \cup {-1}
  BY <1>2 DEF Limiters
<1>6. g.at \in Nat
  BY <1>3 DEF Turns
<1>w. /\ Wait(limiter.last) \in Nat
      /\ limiter.last >= 0 => now + Wait(limiter.last) - limiter.last >= Interval
  BY <1>2, <1>5, WaitTyped
<1>7. limiter.last <= now
  BY DEF CallsInv
<1>8. limiter'.last <= now' /\ limiter'.tokens = g.tokens
  <2> HIDE DEF g
  <2> QED
    BY <1>1, <1>2, <1>3, <1>4, <1>5, <1>6, <1>7
<1>9. host.limit # "none" => g.at <= limiter'.last /\ limiter'.last \in Nat
  <2> HIDE DEF g
  <2> QED
    BY <1>1, <1>4, <1>6
<1>t. grants \in Seq(Nat) /\ g.at \in Nat /\ limiter.last \in Int
  BY <1>2, <1>5, <1>6
<1>10. CASE host.limit = "none"
  BY <1>8, <1>10 DEF CallsInv
<1>11. CASE host.limit = "spaced"
  <2>1. g.at = now + Wait(limiter.last)
    BY <1>11 DEF Throttled
  <2>2. Window = 1 /\ Window' = 1 /\ Left = 0 /\ Left' = 0
    BY <1>11 DEF Window, Left
  <2>3. Counted(grants, 1, 0, limiter.last)
    BY <1>11, <2>2 DEF CallsInv
  <2> HIDE DEF g, Wait
  <2>4. limiter.last >= 0 => g.at - limiter.last >= Interval
    BY <1>1, <1>2, <1>5, <1>6, <1>w, <2>1
  <2>5. 1 \in Nat \ {0} /\ 0 \in 0..1 /\ 0 \in 0..(1 - 1)
    OBVIOUS
  <2>6. limiter.last \in Int /\ limiter'.last \in Nat /\ g.at <= limiter'.last
    BY <1>5, <1>9, <1>11
  <2>7. Counted(Append(grants, g.at), 1, 0, limiter'.last)
    BY <1>t, <2>3, <2>4, <2>5, <2>6, CountedAfterPause
  <2> QED
    BY <1>4, <1>8, <1>11, <2>2, <2>7 DEF CallsInv
<1>12. CASE host.limit = "burst"
  <2> DEFINE tokens == IF limiter.last >= 0 /\ Wait(limiter.last) = 0 THEN Burst
                       ELSE limiter.tokens
  <2>1. g = IF tokens > 0 THEN [at |-> now, tokens |-> tokens - 1]
            ELSE [at |-> now + Wait(limiter.last), tokens |-> Burst - 1]
    BY <1>12 DEF Throttled
  <2>2. Window = Burst /\ Window' = Burst /\ Left = limiter.tokens /\ Left' = limiter'.tokens
    BY <1>12 DEF Window, Left
  <2>3. Counted(grants, Burst, limiter.tokens, limiter.last) /\ limiter.tokens \in 0..Burst
    BY <1>12, <2>2 DEF CallsInv
  <2>a. Burst \in Nat \ {0} /\ limiter'.last \in Nat /\ g.at <= limiter'.last
    BY <1>1, <1>9, <1>12
  <2>b. Burst - 1 \in 0..(Burst - 1)
    BY <1>1
  <2>4. CASE limiter.last >= 0 /\ Wait(limiter.last) = 0
    <3>1. g = [at |-> now, tokens |-> Burst - 1]
      BY <1>1, <2>1, <2>4
    <3> HIDE DEF g, Wait
    <3>2. g.at = now /\ g.tokens = Burst - 1
      BY <3>1
    <3>3. g.at - limiter.last >= Interval
      BY <1>1, <1>2, <1>5, <1>w, <2>4, <3>2
    <3>4. Counted(Append(grants, g.at), Burst, Burst - 1, limiter'.last)
      BY <1>t, <2>3, <2>a, <2>b, <3>3, CountedAfterPause
    <3>5. limiter'.tokens \in 0..Burst
      BY <1>1, <1>8, <3>2
    <3> QED
      BY <1>4, <1>8, <2>2, <3>2, <3>4, <3>5 DEF CallsInv
  <2>5. CASE ~(limiter.last >= 0 /\ Wait(limiter.last) = 0) /\ limiter.tokens > 0
    <3>1. g = [at |-> now, tokens |-> limiter.tokens - 1]
      BY <2>1, <2>5
    <3> HIDE DEF g, Wait
    <3>2. g.at = now /\ g.tokens = limiter.tokens - 1
      BY <3>1
    <3>3. limiter.tokens \in 1..Burst
      BY <1>1, <2>3, <2>5
    <3>4. Counted(Append(grants, g.at), Burst, limiter.tokens - 1, limiter'.last)
      BY <1>t, <2>3, <2>a, <3>3, CountedByToken
    <3>5. limiter'.tokens \in 0..Burst
      BY <1>1, <1>8, <3>2, <3>3
    <3> QED
      BY <1>4, <1>8, <2>2, <3>2, <3>4, <3>5 DEF CallsInv
  <2>6. CASE ~(limiter.last >= 0 /\ Wait(limiter.last) = 0) /\ ~(limiter.tokens > 0)
    <3>1. g = [at |-> now + Wait(limiter.last), tokens |-> Burst - 1]
      BY <2>1, <2>6
    <3> HIDE DEF g, Wait
    <3>2. g.at = now + Wait(limiter.last) /\ g.tokens = Burst - 1
      BY <3>1
    <3>3. limiter.last >= 0 => g.at - limiter.last >= Interval
      BY <1>1, <1>2, <1>5, <1>6, <1>w, <3>2
    <3>4. Counted(Append(grants, g.at), Burst, Burst - 1, limiter'.last)
      BY <1>t, <2>3, <2>a, <2>b, <3>3, CountedAfterPause
    <3>5. limiter'.tokens \in 0..Burst
      BY <1>1, <1>8, <3>2
    <3> QED
      BY <1>4, <1>8, <2>2, <3>2, <3>4, <3>5 DEF CallsInv
  <2> QED
    BY <2>4, <2>5, <2>6
<1> QED
  BY <1>2, <1>10, <1>11, <1>12 DEF Hosts

\* No call has gone out: nothing to be spaced.
LEMMA NothingCounted ==
    ASSUME NEW w \in Nat \ {0}, NEW tokens, NEW last
    PROVE  Counted(<<>>, w, tokens, last)
  BY DEF Counted, Spaced, Batch

\* The window of the limiter is a positive number.
LEMMA WindowsTyped == Window \in Nat \ {0}
  BY ResearchAssumption DEF Window

\* Every step keeps the turns of a run spaced.
LEMMA CallsStep ==
    ASSUME ResearchTypeOK, CallsInv, [Next]_vars PROVE CallsInv'
<1>1. now \in Nat /\ now' \in Nat /\ now' >= now /\ limiter.last \in Nat \cup {-1}
  BY ClockStep DEF ResearchTypeOK, Limiters
<1>2. CASE Begin
  <2>1. /\ grants' = <<>> /\ UNCHANGED host
        /\ limiter' = [last |-> -1, tokens |-> IF host.limit = "burst" THEN Burst ELSE -1]
    BY <1>2 DEF Begin
  <2>2. Window' \in Nat \ {0}
    BY <2>1, ResearchAssumption DEF Window
  <2>3. Counted(grants', Window', Left', limiter'.last)
    BY <2>1, <2>2, NothingCounted
  <2> QED
    BY <1>1, <2>1, <2>3, ResearchAssumption DEF CallsInv
<1>3. ASSUME UNCHANGED <<limiter, grants, host>>, pc = "idle" => pc' = "idle" PROVE CallsInv'
  <2>1. limiter'.last <= now'
    BY <1>1, <1>3 DEF CallsInv
  <2>2. Window' = Window /\ Left' = Left
    BY <1>3 DEF Window, Left
  <2> QED
    BY <1>3, <2>1, <2>2 DEF CallsInv
<1>4. CASE LocalSteps \/ LocalStepsRaise \/ SkipSearch \/ CacheHit \/ EndSearch
           \/ SkipEnrichment \/ SkipCrawl \/ RequestsCrawl \/ End
  BY <1>3, <1>4 DEF LocalSteps, LocalStepsRaise, SkipSearch, CacheHit, EndSearch, SkipEnrichment, SkipCrawl,
     RequestsCrawl, End, fixed, At
<1>5. ASSUME NEW d \in Delays, Answered(d) \/ SearchFails(d) PROVE CallsInv'
  BY <1>3, <1>5 DEF Answered, SearchFails, Ask, fixed, At
<1>6. CASE EndFetching
  <2>1. /\ limiter' = [limiter EXCEPT !.last = now] /\ UNCHANGED <<now, grants, host>>
        /\ pc # "idle"
    BY <1>6 DEF EndFetching, fixed, At
  <2>2. limiter'.last = now /\ limiter'.tokens = limiter.tokens
    BY <2>1 DEF ResearchTypeOK, Limiters
  <2>3. Window' = Window /\ Left' = Left
    BY <2>1, <2>2 DEF Window, Left
  <2>4. Counted(grants, Window, Left, limiter.last) => Counted(grants, Window, Left, now)
    <3>1. Len(grants) > 0 => grants[Len(grants)] \in Nat
      BY DEF ResearchTypeOK
    <3>2. limiter.last <= now
      BY DEF CallsInv
    <3> QED
      BY <1>1, <3>1, <3>2 DEF Counted
  <2> QED
    BY <1>1, <2>1, <2>2, <2>3, <2>4 DEF CallsInv
<1>7. ASSUME NEW d \in Delays, NEW u, Enrich(d) \/ ScrapyCrawl(d) \/ Fetch(u, d)
      PROVE  CallsInv'
  <2>1. UNCHANGED host /\ pc # "idle"
    BY <1>7 DEF Enrich, ScrapyCrawl, Fetch, fixed, At
  <2>2. PICK n \in Nat, e \in Nat, after \in BOOLEAN : CallsOut(n, e, after)
    BY <1>7, TurnTaken
  <2> QED
    BY <2>1, <2>2, CallIsCounted
<1>8. CASE UNCHANGED vars
  BY <1>3, <1>8 DEF vars
<1> QED
  BY <1>2, <1>4, <1>5, <1>6, <1>7, <1>8 DEF Next

\* Scrapy takes the last turn of a run, and nobody else's carries more requests
\* than an address is attempted.
RequestsInv ==
    /\ Len(calls) = Len(grants)
    /\ "scrapy" \in reached => pc \in {"ending", "idle"}
    /\ \A i \in 1..Len(calls) :
           calls[i] > Attempts => i = Len(grants) /\ "scrapy" \in reached

\* Every step keeps the long turn the last one.
LEMMA RequestsStep ==
    ASSUME ResearchTypeOK, RequestsInv, [Next]_vars PROVE RequestsInv'
<1>1. CASE Begin
  BY <1>1 DEF Begin, RequestsInv
<1>2. ASSUME UNCHANGED <<calls, grants>>, UNCHANGED reached,
             "scrapy" \in reached /\ pc \in {"ending", "idle"} => pc' \in {"ending", "idle"}
      PROVE  RequestsInv'
  BY <1>2 DEF RequestsInv
<1>3. CASE LocalSteps \/ LocalStepsRaise \/ SkipSearch \/ CacheHit \/ EndSearch
           \/ SkipEnrichment \/ SkipCrawl \/ RequestsCrawl \/ EndFetching
  <2>1. UNCHANGED <<calls, grants, reached>> /\ pc \notin {"ending", "idle"}
    BY <1>3 DEF LocalSteps, LocalStepsRaise, SkipSearch, CacheHit, EndSearch,
       SkipEnrichment, SkipCrawl, RequestsCrawl, EndFetching, At
  <2> QED
    BY <1>2, <2>1
<1>4. CASE End
  BY <1>2, <1>4 DEF End, GoTo
<1>5. ASSUME NEW d \in Delays, Answered(d) \/ SearchFails(d) PROVE RequestsInv'
  <2>1. /\ UNCHANGED <<calls, grants>> /\ pc = "searching"
        /\ reached' = reached \cup {"search"}
    BY <1>5 DEF Answered, SearchFails, Ask, At
  <2> QED
    BY <2>1 DEF RequestsInv
<1>6. ASSUME NEW d \in Delays, NEW u, Enrich(d) \/ ScrapyCrawl(d) \/ Fetch(u, d)
      PROVE  RequestsInv'
  <2>1. PICK n \in Nat, e \in Nat, after \in BOOLEAN :
            CallsOut(n, e, after) /\ (n > Attempts => ScrapyCrawl(d))
    BY <1>6, TurnTaken
  <2>2. calls \in Seq(Nat) /\ grants \in Seq(Nat) /\ Attempts \in Nat
    BY ResearchAssumption DEF ResearchTypeOK
  <2>3. PICK at : grants' = Append(grants, at) /\ calls' = Append(calls, n)
    BY <2>1 DEF CallsOut
  <2>4. /\ Len(calls') = Len(calls) + 1 /\ Len(grants') = Len(grants) + 1
        /\ calls'[Len(calls) + 1] = n
        /\ \A i \in 1..Len(calls) : calls'[i] = calls[i]
    BY <2>2, <2>3
  <2>5. "scrapy" \notin reached
    BY <1>6 DEF Enrich, ScrapyCrawl, Fetch, At, RequestsInv
  <2>6. \A i \in 1..Len(calls) : ~(calls[i] > Attempts)
    BY <2>5 DEF RequestsInv
  <2>7. "scrapy" \in reached' => ScrapyCrawl(d)
    <3>1. CASE Enrich(d)
      <4>1. reached' = reached \cup {"enrichment"}
        BY <3>1 DEF Enrich
      <4> QED
        BY <2>5, <4>1
    <3>2. CASE Fetch(u, d)
      <4>1. reached' = reached \cup {"requests"}
        BY <3>2 DEF Fetch
      <4> QED
        BY <2>5, <4>1
    <3> QED
      BY <1>6, <3>1, <3>2
  <2>8. ScrapyCrawl(d) => "scrapy" \in reached' /\ pc' = "ending"
    BY DEF ScrapyCrawl, GoTo
  <2>9. Len(calls') = Len(grants') /\ Len(calls) \in Nat /\ Len(calls) = Len(grants)
    BY <2>2, <2>4 DEF RequestsInv
  <2>10. ASSUME NEW i \in 1..Len(calls'), calls'[i] > Attempts
         PROVE  i = Len(grants') /\ "scrapy" \in reached'
    <3>1. i \notin 1..Len(calls)
      BY <2>4, <2>6, <2>10
    <3>2. i = Len(calls) + 1
      BY <2>4, <2>9, <3>1
    <3> QED
      BY <2>1, <2>4, <2>8, <2>9, <2>10, <3>2
  <2> QED
    BY <2>7, <2>8, <2>9, <2>10 DEF RequestsInv
<1>7. CASE UNCHANGED vars
  BY <1>2, <1>7 DEF vars
<1> QED
  BY <1>1, <1>3, <1>4, <1>5, <1>6, <1>7 DEF Next

\* However enrichment and crawl take turns at the limiter, a run takes no more
\* than a burst of turns without a pause, and no turn but Scrapy's, the last one,
\* carries more requests than an address is attempted (orchestrator.py:1226-1272).
THEOREM TurnsKeepTheirDistance == Spec => []TurnsAreSpaced
<1>1. Init => CallsInv /\ RequestsInv
  BY NothingCounted, WindowsTyped DEF Init, CallsInv, RequestsInv, Fresh
<1>2. ResearchTypeOK /\ CallsInv /\ RequestsInv /\ [Next]_vars => CallsInv' /\ RequestsInv'
  BY CallsStep, RequestsStep
<1>3. CallsInv /\ RequestsInv => TurnsAreSpaced
  BY DEF CallsInv, RequestsInv, TurnsAreSpaced, Counted
<1> QED
  BY <1>1, <1>2, <1>3, ResearchTypes, PTL DEF Spec

-----------------------------------------------------------------------------
(* The requests of the service *)

Times(asked) == [i \in 1..Len(asked) |-> asked[i].at]
SearchWindow == IF settings.burst THEN Burst ELSE 1
SearchLeft == IF settings.burst THEN slimiter.tokens ELSE 0

\* What the service's limiter remembers is what it let go, over all runs.
SearchInv ==
    /\ slimiter.last <= now
    /\ settings.burst => slimiter.tokens <= Burst /\ (slimiter.tokens < 0 => sgrants = <<>>)
    /\ Counted(Times(sgrants), SearchWindow, SearchLeft, slimiter.last)

\* The times of one request more.
LEMMA TimesAppend ==
    ASSUME NEW asked \in Seq(Asked), NEW one \in Asked
    PROVE  /\ Times(asked) \in Seq(Nat) /\ Append(Times(asked), one.at) \in Seq(Nat)
           /\ Times(Append(asked, one)) = Append(Times(asked), one.at)
<1> DEFINE n == Len(asked)
           more == Append(asked, one)
<1>1. /\ more \in Seq(Asked) /\ Len(more) = n + 1 /\ n \in Nat /\ more[n + 1] = one
      /\ \A k \in 1..n : more[k] = asked[k] /\ asked[k] \in Asked
  OBVIOUS
<1>2. \A k \in 1..n : asked[k].at \in Nat
  BY <1>1 DEF Asked
<1>3. Times(asked) \in Seq(Nat) /\ Len(Times(asked)) = n /\ one.at \in Nat
  <2>1. one.at \in Nat
    BY DEF Asked
  <2> QED
    BY <1>1, <1>2, <2>1 DEF Times
<1> HIDE DEF more
<1>4. /\ Append(Times(asked), one.at) \in Seq(Nat)
      /\ Len(Append(Times(asked), one.at)) = n + 1
      /\ Append(Times(asked), one.at)[n + 1] = one.at
      /\ \A k \in 1..n : Append(Times(asked), one.at)[k] = Times(asked)[k]
  BY <1>3
<1>5. \A k \in 1..n : Times(asked)[k] = asked[k].at
  BY DEF Times
<1>6. \A k \in 1..(n + 1) : more[k].at \in Nat
  <2>1. ASSUME NEW k \in 1..(n + 1) PROVE more[k].at \in Nat
    <3>1. CASE k = n + 1
      BY <1>1, <1>3, <3>1
    <3>2. CASE k \in 1..n
      BY <1>1, <1>2, <3>2
    <3> QED
      BY <1>1, <3>1, <3>2
  <2> QED
    BY <2>1
<1>7. /\ Times(more) \in Seq(Nat) /\ Len(Times(more)) = n + 1
      /\ \A k \in 1..(n + 1) : Times(more)[k] = more[k].at
  BY <1>1, <1>6 DEF Times
<1>8. \A k \in 1..(n + 1) : Times(more)[k] = Append(Times(asked), one.at)[k]
  <2>1. ASSUME NEW k \in 1..(n + 1) PROVE Times(more)[k] = Append(Times(asked), one.at)[k]
    <3>1. CASE k = n + 1
      BY <1>1, <1>4, <1>7, <3>1
    <3>2. CASE k \in 1..n
      BY <1>1, <1>4, <1>5, <1>7, <3>2
    <3>3. n \in Nat
      BY <1>1
    <3> HIDE DEF n
    <3>4. k = n + 1 \/ k \in 1..n
      BY <3>3
    <3> QED
      BY <3>1, <3>2, <3>4
  <2> QED
    BY <2>1
<1>9. Times(more) = Append(Times(asked), one.at)
  BY <1>4, <1>7, <1>8, SeqEqual
<1> QED
  BY <1>3, <1>4, <1>9 DEF more

\* A request waits for its turn and is counted, answered or not.
LEMMA RequestIsCounted ==
    ASSUME ResearchTypeOK, SearchInv, NEW d \in Delays, NEW kept \in BOOLEAN, Ask(d),
           sgrants' = Append(sgrants, [at |-> now' - d, term |-> Term, kept |-> kept])
    PROVE  SearchInv'
<1>1. Burst \in Nat \ {0} /\ Interval \in Nat \ {0}
  BY ResearchAssumption
<1>2. slimiter \in Limiters /\ now \in Nat /\ settings \in Settings /\ sgrants \in Seq(Asked)
  BY DEF ResearchTypeOK, Asked
<1> DEFINE g == SearchThrottled(slimiter)
           times == Times(sgrants)
           one == [at |-> now' - d, term |-> Term, kept |-> kept]
<1>3. g \in Turns /\ g.at >= now
  BY <1>2, SearchThrottledTyped
<1>4. UNCHANGED settings /\ slimiter' = [last |-> g.at, tokens |-> g.tokens]
  BY DEF Ask, fixed
<1>5. now' \in Nat /\ now' - d = g.at /\ g.at <= now' /\ one \in Asked /\ one.at = g.at
  BY AskTyped
<1>6. slimiter.last \in Nat \cup {-1} /\ slimiter.tokens \in Nat \cup {-1}
  BY <1>2 DEF Limiters
<1>7. g.at \in Nat /\ g.tokens \in Nat \cup {-1}
  BY <1>3 DEF Turns
<1>8. times \in Seq(Nat) /\ Times(sgrants') = Append(times, g.at)
  BY <1>2, <1>5, TimesAppend
<1>9. slimiter'.last = g.at /\ slimiter'.tokens = g.tokens /\ slimiter'.last <= now'
  BY <1>4, <1>5
<1>w. /\ Wait(slimiter.last) \in Nat
      /\ slimiter.last >= 0 => now + Wait(slimiter.last) - slimiter.last >= Interval
  BY <1>2, <1>6, WaitTyped
<1>s. settings.burst \in BOOLEAN
  BY <1>2 DEF Settings
<1> HIDE DEF times, one, Wait
<1> DEFINE tokens == IF slimiter.tokens < 0 \/ (slimiter.last >= 0 /\ Wait(slimiter.last) = 0)
                     THEN Burst ELSE slimiter.tokens
<1>t. times \in Seq(Nat) /\ g.at \in Nat /\ slimiter.last \in Int /\ g.at <= g.at
  BY <1>6, <1>7, <1>8
<1>b. Burst \in 1..Burst /\ Burst - 1 \in 0..Burst /\ Burst - 1 \in 0..(Burst - 1)
      /\ 0 \in 0..(Burst - 1)
  BY <1>1
<1>10. CASE ~settings.burst
  <2>1. g = [at |-> now + Wait(slimiter.last), tokens |-> slimiter.tokens]
    BY <1>10 DEF SearchThrottled
  <2>2. SearchWindow = 1 /\ SearchWindow' = 1 /\ SearchLeft = 0 /\ SearchLeft' = 0
    BY <1>4, <1>10 DEF SearchWindow, SearchLeft
  <2>3. Counted(times, 1, 0, slimiter.last)
    BY <2>2 DEF SearchInv, times
  <2> HIDE DEF g
  <2>4. slimiter.last >= 0 => g.at - slimiter.last >= Interval
    BY <1>1, <1>2, <1>6, <1>7, <1>w, <2>1
  <2>5. 1 \in Nat \ {0} /\ 0 \in 0..1 /\ 0 \in 0..(1 - 1)
    OBVIOUS
  <2>6. Counted(Append(times, g.at), 1, 0, g.at)
    BY <1>t, <2>3, <2>4, <2>5, CountedAfterPause
  <2> QED
    BY <1>4, <1>8, <1>9, <1>10, <2>2, <2>6 DEF SearchInv
<1>11. CASE settings.burst
  <2>1. g = IF tokens > 0 THEN [at |-> now, tokens |-> tokens - 1]
            ELSE [at |-> now + Wait(slimiter.last), tokens |-> tokens]
    BY <1>11 DEF SearchThrottled
  <2>2. /\ SearchWindow = Burst /\ SearchWindow' = Burst
        /\ SearchLeft = slimiter.tokens /\ SearchLeft' = slimiter'.tokens
    BY <1>4, <1>11 DEF SearchWindow, SearchLeft
  <2>3. /\ Counted(times, Burst, slimiter.tokens, slimiter.last) /\ slimiter.tokens <= Burst
        /\ slimiter.tokens < 0 => sgrants = <<>>
    BY <1>11, <2>2 DEF SearchInv, times
  <2>4. ASSUME g.tokens \in 0..Burst, Counted(Append(times, g.at), Burst, g.tokens, g.at)
        PROVE  SearchInv'
    <3> HIDE DEF g, tokens
    <3>1. Counted(Times(sgrants'), SearchWindow', SearchLeft', slimiter'.last)
      BY <1>8, <1>9, <2>2, <2>4
    <3>2. slimiter'.tokens <= Burst /\ ~(slimiter'.tokens < 0)
      BY <1>1, <1>9, <2>4
    <3> QED
      BY <1>9, <3>1, <3>2 DEF SearchInv
  <2>5. CASE slimiter.tokens < 0
    <3>1. g = [at |-> now, tokens |-> Burst - 1]
      BY <1>1, <2>1, <2>5
    <3>2. times = <<>>
      BY <2>3, <2>5 DEF times, Times
    <3>3. Counted(times, Burst, Burst, slimiter.last)
      BY <1>1, <3>2, NothingCounted
    <3> HIDE DEF g
    <3>4. g.tokens = Burst - 1 /\ g.tokens \in 0..Burst
      BY <1>b, <3>1
    <3>5. Counted(Append(times, g.at), Burst, Burst - 1, g.at)
      BY <1>1, <1>b, <1>t, <3>3, CountedByToken
    <3> QED
      BY <2>4, <3>4, <3>5
  <2>6. CASE slimiter.tokens >= 0 /\ slimiter.last >= 0 /\ Wait(slimiter.last) = 0
    <3>1. g = [at |-> now, tokens |-> Burst - 1]
      BY <1>1, <2>1, <2>6
    <3> HIDE DEF g
    <3>2. g.at = now /\ g.tokens = Burst - 1
      BY <3>1
    <3>3. g.at - slimiter.last >= Interval
      BY <1>1, <1>2, <1>6, <1>w, <2>6, <3>2
    <3>4. slimiter.tokens \in 0..Burst
      BY <1>1, <1>6, <2>3, <2>6
    <3>5. Counted(Append(times, g.at), Burst, Burst - 1, g.at)
      BY <1>1, <1>b, <1>t, <2>3, <3>3, <3>4, CountedAfterPause
    <3> QED
      BY <1>b, <2>4, <3>2, <3>5
  <2>7. CASE /\ slimiter.tokens > 0 /\ ~(slimiter.last >= 0 /\ Wait(slimiter.last) = 0)
    <3>1. g = [at |-> now, tokens |-> slimiter.tokens - 1]
      BY <1>6, <2>1, <2>7
    <3> HIDE DEF g
    <3>2. g.tokens = slimiter.tokens - 1
      BY <3>1
    <3>3. g.tokens \in 0..Burst /\ slimiter.tokens \in 1..Burst
      BY <1>1, <1>6, <2>3, <2>7, <3>2
    <3>4. Counted(Append(times, g.at), Burst, slimiter.tokens - 1, g.at)
      BY <1>1, <1>t, <2>3, <3>3, CountedByToken
    <3> QED
      BY <2>4, <3>2, <3>3, <3>4
  <2>8. CASE slimiter.tokens = 0 /\ ~(slimiter.last >= 0 /\ Wait(slimiter.last) = 0)
    <3>1. g = [at |-> now + Wait(slimiter.last), tokens |-> 0]
      BY <2>1, <2>8
    <3> HIDE DEF g
    <3>2. g.at = now + Wait(slimiter.last) /\ g.tokens = 0
      BY <3>1
    <3>3. slimiter.last >= 0 => g.at - slimiter.last >= Interval
      BY <1>1, <1>2, <1>6, <1>w, <3>2
    <3>4. g.tokens \in 0..Burst /\ slimiter.tokens \in 0..Burst
      BY <1>1, <2>8, <3>2
    <3>5. Counted(Append(times, g.at), Burst, 0, g.at)
      BY <1>1, <1>b, <1>t, <2>3, <3>3, <3>4, CountedAfterPause
    <3> QED
      BY <2>4, <3>2, <3>4, <3>5
  <2> QED
    BY <1>6, <2>5, <2>6, <2>7, <2>8
<1> QED
  BY <1>s, <1>10, <1>11

\* All other steps leave the service alone.
LEMMA ServiceLeftAlone ==
    ASSUME [Next]_vars, \A d \in Delays : ~Answered(d) /\ ~SearchFails(d)
    PROVE  UNCHANGED <<settings, slimiter, sgrants, cache>>
<1>1. CASE Begin \/ LocalSteps \/ LocalStepsRaise \/ SkipSearch \/ CacheHit \/ EndSearch
           \/ SkipEnrichment \/ SkipCrawl \/ RequestsCrawl \/ EndFetching \/ End
  BY <1>1 DEF Begin, LocalSteps, LocalStepsRaise, SkipSearch, CacheHit, EndSearch, SkipEnrichment, SkipCrawl,
     RequestsCrawl, EndFetching, End, fixed, search
<1>2. ASSUME NEW d \in Delays, NEW u, Enrich(d) \/ ScrapyCrawl(d) \/ Fetch(u, d)
      PROVE  UNCHANGED <<settings, slimiter, sgrants, cache>>
  BY <1>2 DEF Enrich, ScrapyCrawl, Fetch, fixed, search
<1>3. CASE UNCHANGED vars
  BY <1>3 DEF vars
<1> QED
  BY <1>1, <1>2, <1>3 DEF Next

\* Every step keeps the requests of the search service spaced.
LEMMA SearchStep ==
    ASSUME ResearchTypeOK, SearchInv, [Next]_vars PROVE SearchInv'
<1>1. ASSUME NEW d \in Delays, Answered(d) PROVE SearchInv'
  <2>1. PICK kept \in BOOLEAN :
          sgrants' = Append(sgrants, [at |-> now' - d, term |-> Term, kept |-> kept])
    BY <1>1, ResearchAssumption DEF Answered
  <2> QED
    BY <1>1, <2>1, RequestIsCounted DEF Answered
<1>2. ASSUME NEW d \in Delays, SearchFails(d) PROVE SearchInv'
  BY <1>2, RequestIsCounted DEF SearchFails
<1>3. CASE \A d \in Delays : ~Answered(d) /\ ~SearchFails(d)
  <2>1. UNCHANGED <<settings, slimiter, sgrants>>
    BY <1>3, ServiceLeftAlone
  <2>2. now \in Nat /\ now' \in Nat /\ now' >= now /\ slimiter.last \in Nat \cup {-1}
    BY ClockStep DEF ResearchTypeOK, Limiters
  <2>3. SearchWindow' = SearchWindow /\ SearchLeft' = SearchLeft
    BY <2>1 DEF SearchWindow, SearchLeft
  <2> QED
    BY <2>1, <2>2, <2>3 DEF SearchInv
<1> QED
  BY <1>1, <1>2, <1>3

\* The search engine is asked no more than a burst of requests without a
\* pause, over all runs (searx.py:502-526).
THEOREM SearchesKeepTheirDistance == Spec => []SearchesAreSpaced
<1>1. Init => SearchInv
  <2> SUFFICES ASSUME Init PROVE SearchInv
    OBVIOUS
  <2>1. SearchWindow \in Nat \ {0}
    BY ResearchAssumption DEF SearchWindow
  <2>2. sgrants = <<>> /\ slimiter = [last |-> -1, tokens |-> -1] /\ now = 0
    BY DEF Init, Fresh
  <2>3. Times(sgrants) = <<>>
    BY <2>2 DEF Times
  <2> QED
    BY <2>1, <2>2, <2>3, NothingCounted, ResearchAssumption DEF SearchInv
<1>2. ResearchTypeOK /\ SearchInv /\ [Next]_vars => SearchInv'
  BY SearchStep
<1>3. SearchInv => SearchesAreSpaced
  BY DEF SearchInv, SearchesAreSpaced, Counted, Times, SearchWindow
<1> QED
  BY <1>1, <1>2, <1>3, ResearchTypes, PTL DEF Spec

-----------------------------------------------------------------------------
(* The cache *)

\* An answer that was kept is in the cache, or another that came later, until
\* it is too old to be used.
Remembered(r) ==
    /\ r.at <= now
    /\ r.kept => TTL > 0 /\ (cache[r.term].at >= r.at \/ now - r.at > TTL)

KeptInv ==
    /\ CacheSavesRequests
    /\ \A i \in 1..Len(sgrants) : Remembered(sgrants[i])

\* A request is only made of a term whose answers are too old.
LEMMA AskedAgain ==
    ASSUME ResearchTypeOK, NEW d, Ask(d), NEW r \in Asked, Remembered(r), r.kept, r.term = Term
    PROVE  now - r.at > TTL
<1>1. TTL \in Nat /\ now \in Nat /\ r.at \in Nat /\ r.term \in 1..Terms
  BY ResearchAssumption DEF ResearchTypeOK, Asked
<1>2. cache[r.term].at \in Nat \cup {-1}
  BY <1>1 DEF ResearchTypeOK
<1>3. ~Usable(r.term)
  BY DEF Ask
<1>4. TTL > 0 /\ (cache[r.term].at >= r.at \/ now - r.at > TTL)
  BY DEF Remembered
<1> QED
  BY <1>1, <1>2, <1>3, <1>4 DEF Usable

\* A request sent is of a term whose answer was not kept, or is too old.
LEMMA RequestIsNew ==
    ASSUME ResearchTypeOK, KeptInv, NEW d \in Delays, NEW kept \in BOOLEAN, Ask(d),
           sgrants' = Append(sgrants, [at |-> now' - d, term |-> Term, kept |-> kept]),
           \/ UNCHANGED cache /\ ~kept
           \/ \E answer \in Seq(Urls), stored \in BOOLEAN :
                  Store(answer, stored) /\ (kept <=> stored /\ TTL > 0)
    PROVE  KeptInv'
<1> DEFINE one == [at |-> now' - d, term |-> Term, kept |-> kept]
<1>1. /\ now' \in Nat /\ now' >= now /\ now' - d >= now /\ now' - d <= now' /\ now \in Nat
      /\ sgrants' \in Seq(Asked) /\ sgrants \in Seq(Asked) /\ Term \in 1..Terms
      /\ one \in Asked /\ TTL \in Nat
  BY AskTyped, ResearchAssumption DEF ResearchTypeOK, Asked
<1>c. /\ now \in Nat /\ now' \in Nat /\ now' >= now /\ TTL \in Nat
      /\ now' - d \in Nat /\ now' - d >= now
  BY <1>1 DEF Asked
<1>n. PICK n \in Nat : n = Len(sgrants)
  <2>1. Len(sgrants) \in Nat
    BY <1>1
  <2> QED
    BY <2>1
<1>2. one.at = now' - d /\ one.term = Term /\ one.kept = kept
  OBVIOUS
<1> HIDE DEF one
<1>3. /\ Len(sgrants') = n + 1 /\ n \in Nat /\ sgrants'[n + 1] = one
      /\ \A k \in 1..n : sgrants'[k] = sgrants[k] /\ sgrants[k] \in Asked
  BY <1>1, <1>n DEF one
<1>4. \A k \in 1..n : Remembered(sgrants[k])
  BY <1>n DEF KeptInv
<1>5. \A k \in 1..n : sgrants[k].kept /\ sgrants[k].term = Term => now - sgrants[k].at > TTL
  BY <1>3, <1>4, AskedAgain
<1>6. cache \in [1..Terms -> [at : Nat \cup {-1}, answer : Seq(Urls)]]
  BY DEF ResearchTypeOK
<1>7. \A q \in 1..Terms : q # Term => cache'[q] = cache[q]
  BY <1>6 DEF Store
<1>8. kept => TTL > 0 /\ cache'[Term].at = now'
  <2> SUFFICES ASSUME kept PROVE TTL > 0 /\ cache'[Term].at = now'
    OBVIOUS
  <2>1. PICK answer \in Seq(Urls), stored \in BOOLEAN :
            Store(answer, stored) /\ stored /\ TTL > 0
    OBVIOUS
  <2>2. cache' = [cache EXCEPT ![Term] = [at |-> now', answer |-> answer]]
    BY <2>1 DEF Store
  <2> QED
    BY <1>1, <1>6, <2>1, <2>2
<1>9. CacheSavesRequests'
  <2> SUFFICES ASSUME NEW i \in 1..(n + 1), NEW k \in 1..(n + 1), i < k,
                      sgrants'[i].term = sgrants'[k].term, sgrants'[i].kept
               PROVE  sgrants'[k].at - sgrants'[i].at > TTL
    BY <1>3 DEF CacheSavesRequests
  <2>1. i \in 1..n
    BY <1>3
  <2>2. CASE k \in 1..n
    <3>1. sgrants'[k] = sgrants[k] /\ sgrants'[i] = sgrants[i]
      BY <1>3, <2>1, <2>2
    <3> QED
      BY <1>n, <2>1, <2>2, <3>1 DEF KeptInv, CacheSavesRequests
  <2>3. CASE k = n + 1
    <3>1. sgrants'[i] = sgrants[i] /\ sgrants'[k] = one /\ sgrants[i].at \in Nat
      BY <1>3, <2>1, <2>3 DEF Asked
    <3>2. now - sgrants[i].at > TTL
      BY <1>2, <1>5, <2>1, <3>1
    <3>3. sgrants'[k].at = now' - d
      BY <1>2, <3>1
    <3>4. (now' - d) - sgrants[i].at > TTL
      <4>1. sgrants[i].at \in Nat
        BY <3>1
      <4> QED
        BY <1>c, <3>2, <4>1
    <3> QED
      BY <3>1, <3>3, <3>4
  <2>4. k \in 1..n \/ k = n + 1
    BY <1>n
  <2> QED
    BY <2>2, <2>3, <2>4
<1>10. ASSUME NEW k \in 1..n PROVE Remembered(sgrants[k])'
  <2>1. sgrants'[k] = sgrants[k] /\ sgrants[k] \in Asked /\ Remembered(sgrants[k])
    BY <1>3, <1>4
  <2>2. sgrants[k].at \in Nat /\ sgrants[k].term \in 1..Terms
    BY <2>1 DEF Asked
  <2>3. sgrants[k].at <= now'
    BY <1>1, <2>1, <2>2 DEF Remembered
  <2>4. CASE sgrants[k].term = Term
    <3>1. sgrants[k].kept => TTL > 0 /\ now - sgrants[k].at > TTL
      BY <1>5, <2>1, <2>4 DEF Remembered
    <3>2. sgrants[k].kept => TTL > 0 /\ now' - sgrants[k].at > TTL
      BY <1>c, <2>2, <3>1
    <3> QED
      BY <2>1, <2>3, <3>2 DEF Remembered
  <2>5. CASE sgrants[k].term # Term
    <3>1. cache'[sgrants[k].term] = cache[sgrants[k].term]
      BY <1>7, <2>2, <2>5
    <3>2. now - sgrants[k].at > TTL => now' - sgrants[k].at > TTL
      BY <1>c, <2>2
    <3> QED
      BY <2>1, <2>3, <3>1, <3>2 DEF Remembered
  <2> QED
    BY <2>4, <2>5
<1>11. Remembered(sgrants[n + 1])'
  <2>1. sgrants'[n + 1] = one /\ one.at <= now'
    BY <1>1, <1>2, <1>3
  <2>2. one.kept => TTL > 0 /\ cache'[one.term].at >= one.at
    BY <1>1, <1>2, <1>8
  <2> QED
    BY <2>1, <2>2 DEF Remembered
<1>12. (\A i \in 1..Len(sgrants) : Remembered(sgrants[i]))'
  <2> SUFFICES ASSUME NEW i \in 1..(n + 1) PROVE Remembered(sgrants[i])'
    BY <1>3
  <2>1. n \in Nat
    BY <1>3
  <2>2. i \in 1..n \/ i = n + 1
    BY <2>1
  <2> QED
    BY <1>10, <1>11, <2>2
<1> QED
  BY <1>9, <1>12 DEF KeptInv

\* Every step keeps the cache in agreement with the requests.
LEMMA KeptStep ==
    ASSUME ResearchTypeOK, KeptInv, [Next]_vars PROVE KeptInv'
<1>1. ASSUME NEW d \in Delays, Answered(d) PROVE KeptInv'
  <2>1. PICK answer \in Answers, stored \in BOOLEAN :
          /\ Store(answer, stored)
          /\ sgrants' = Append(sgrants, [at |-> now' - d, term |-> Term,
                                         kept |-> stored /\ TTL > 0])
    BY <1>1 DEF Answered
  <2>2. (stored /\ TTL > 0) \in BOOLEAN /\ answer \in Seq(Urls) /\ Ask(d)
    BY <1>1, ResearchAssumption DEF Answered
  <2> QED
    BY <2>1, <2>2, RequestIsNew
<1>2. ASSUME NEW d \in Delays, SearchFails(d) PROVE KeptInv'
  BY <1>2, RequestIsNew DEF SearchFails
<1>3. CASE \A d \in Delays : ~Answered(d) /\ ~SearchFails(d)
  <2>1. UNCHANGED <<sgrants, cache>>
    BY <1>3, ServiceLeftAlone
  <2>2. now \in Nat /\ now' \in Nat /\ now' >= now /\ TTL \in Nat
    BY ClockStep, ResearchAssumption DEF ResearchTypeOK
  <2>3. ASSUME NEW i \in 1..Len(sgrants) PROVE Remembered(sgrants[i])'
    <3>s. sgrants \in Seq(Asked)
      BY DEF ResearchTypeOK, Asked
    <3>0. sgrants[i] \in Asked
      BY <3>s
    <3>1. sgrants[i].at \in Nat
      BY <3>0 DEF Asked
    <3>2. Remembered(sgrants[i])
      BY DEF KeptInv
    <3> QED
      BY <2>1, <2>2, <3>1, <3>2 DEF Remembered
  <2> QED
    BY <2>1, <2>3 DEF KeptInv, CacheSavesRequests
<1> QED
  BY <1>1, <1>2, <1>3

\* A term whose answer was kept is not asked again before it is too old
\* (searx.py:464-500).
THEOREM KeptAnswersAreUsed == Spec => []CacheSavesRequests
<1>1. Init => KeptInv
  BY DEF Init, KeptInv, CacheSavesRequests
<1>2. ResearchTypeOK /\ KeptInv /\ [Next]_vars => KeptInv'
  BY KeptStep
<1>3. KeptInv => CacheSavesRequests
  BY DEF KeptInv
<1> QED
  BY <1>1, <1>2, <1>3, ResearchTypes, PTL DEF Spec

-----------------------------------------------------------------------------
(* The outcome *)

Before == IF plan.crawlOnly THEN 0 ELSE 3

\* How many results the run has at each of its steps.
Taken ==
    CASE pc \in {"local", "raised"} -> 0
      [] pc = "searching" -> Before
      [] pc = "enriching" -> Before + 1
      [] pc \in {"crawling", "fetching"} -> Before + 2
      [] pc = "ending" -> Before + 3
      [] pc = "idle" -> IF plan.crawlOnly THEN 3 ELSE 7

\* The results so far are those of the steps behind it, in their order.
InOrder == Len(steps) = Taken /\ \A i \in 1..Len(steps) : steps[i].name = StepNames[i]

\* The row comes from the last pass that made one, and an error of the search
\* leaves the addresses as they were when it began.
RowIsOfItsPass ==
    /\ row = "network" <=> Ended("network_enrichment", "success")
    /\ row = "none" /\ pc \notin {"local", "raised"} => ~plan.row \/ Ended("deterministic_enrichment", "error")
    /\ pc = "local" => row = "none" /\ ~plan.crawlOnly
    /\ Ended("searx_search", "error") => targets = plan.urls

AddressesBeforeSearch ==
    pc \in {"local", "searching"} => targets = plan.urls /\ ~Ended("searx_search", "error")

OutcomeInv ==
    /\ pc # "idle" => runs > 0
    /\ runs > 0 => InOrder
    /\ RowIsOfItsPass
    /\ AddressesBeforeSearch

\* The names of a run's steps, written out.
LEMMA StepNamesOf ==
    StepNames = IF plan.crawlOnly THEN <<"searx_search", "network_enrichment", "native_crawl">>
                ELSE <<"local_snapshot", "authority_sources", "deterministic_enrichment",
                       "searx_search", "network_enrichment", "native_crawl", "backfill">>
<1>1. CASE plan.crawlOnly
  <2>1. StepNames = <<>> \o <<"searx_search", "network_enrichment", "native_crawl">> \o <<>>
    BY <1>1 DEF StepNames
  <2> QED
    BY <1>1, <2>1
<1>2. CASE ~plan.crawlOnly
  <2> DEFINE local == <<"local_snapshot", "authority_sources", "deterministic_enrichment">>
             remote == <<"searx_search", "network_enrichment", "native_crawl">>
             both == <<"local_snapshot", "authority_sources", "deterministic_enrichment",
                       "searx_search", "network_enrichment", "native_crawl">>
             all == <<"local_snapshot", "authority_sources", "deterministic_enrichment",
                      "searx_search", "network_enrichment", "native_crawl", "backfill">>
  <2>1. StepNames = (local \o remote) \o <<"backfill">>
    BY <1>2 DEF StepNames
  <2>2. /\ local \in Seq(Names) /\ remote \in Seq(Names) /\ both \in Seq(Names)
        /\ all \in Seq(Names) /\ <<"backfill">> \in Seq(Names)
    BY DEF Names
  <2>3. local \o remote = both
    <3>1. /\ local \o remote \in Seq(Names) /\ Len(local \o remote) = 6
          /\ \A i \in 1..6 : (local \o remote)[i] = IF i <= 3 THEN local[i] ELSE remote[i - 3]
      BY <2>2, ConcatProperties
    <3>2. \A i \in 1..6 : (local \o remote)[i] = both[i]
      BY <3>1
    <3> QED
      BY <2>2, <3>1, <3>2, SeqEqual
  <2>4. both \o <<"backfill">> = all
    <3>1. /\ both \o <<"backfill">> \in Seq(Names) /\ Len(both \o <<"backfill">>) = 7
          /\ \A i \in 1..7 : (both \o <<"backfill">>)[i] = IF i <= 6 THEN both[i] ELSE "backfill"
      BY <2>2, ConcatProperties
    <3>2. \A i \in 1..7 : (both \o <<"backfill">>)[i] = all[i]
      BY <3>1
    <3> QED
      BY <2>2, <3>1, <3>2, SeqEqual
  <2> QED
    BY <1>2, <2>1, <2>3, <2>4
<1> QED
  BY <1>1, <1>2

\* One more result leaves those before it.
LEMMA ResultAdds ==
    ASSUME steps \in Seq(Results), NEW name \in Names, NEW status \in Statuses,
           Result(name, status)
    PROVE  /\ Len(steps) \in Nat /\ Len(steps') = Len(steps) + 1
           /\ \A i \in 1..Len(steps) : steps'[i] = steps[i]
           /\ steps'[Len(steps) + 1] = [name |-> name, status |-> status]
<1>1. [name |-> name, status |-> status] \in Results
  BY DEF Results
<1> QED
  BY <1>1 DEF Result

\* One result more ends one step more.
LEMMA EndedAdds ==
    ASSUME steps \in Seq(Results), NEW name \in Names, NEW status \in Statuses,
           Result(name, status), NEW n \in Names, NEW s \in Statuses
    PROVE  Ended(n, s)' <=> Ended(n, s) \/ (n = name /\ s = status)
<1>1. /\ Len(steps) \in Nat /\ Len(steps') = Len(steps) + 1
      /\ \A i \in 1..Len(steps) : steps'[i] = steps[i]
      /\ steps'[Len(steps) + 1] = [name |-> name, status |-> status]
  BY ResultAdds
<1>2. ASSUME NEW i \in 1..Len(steps'), steps'[i] = [name |-> n, status |-> s]
      PROVE  Ended(n, s) \/ (n = name /\ s = status)
  <2>1. i \in 1..Len(steps) \/ i = Len(steps) + 1
    BY <1>1
  <2>2. CASE i \in 1..Len(steps)
    BY <1>1, <1>2, <2>2 DEF Ended
  <2>3. CASE i = Len(steps) + 1
    <3>1. [name |-> n, status |-> s] = [name |-> name, status |-> status]
      BY <1>1, <1>2, <2>3
    <3> QED
      BY <3>1
  <2> QED
    BY <2>1, <2>2, <2>3
<1>3. ASSUME NEW i \in 1..Len(steps), steps[i] = [name |-> n, status |-> s]
      PROVE  \E k \in 1..Len(steps') : steps'[k] = [name |-> n, status |-> s]
  <2>1. i \in 1..Len(steps') /\ steps'[i] = [name |-> n, status |-> s]
    BY <1>1, <1>3
  <2> QED
    BY <2>1
<1>4. n = name /\ s = status => \E k \in 1..Len(steps') : steps'[k] = [name |-> n, status |-> s]
  <2>1. Len(steps) + 1 \in 1..Len(steps')
    BY <1>1
  <2> QED
    BY <1>1, <2>1
<1> QED
  BY <1>2, <1>3, <1>4 DEF Ended

\* A step that ends with a result of its name is in its place.
LEMMA OrderGoesOn ==
    ASSUME steps \in Seq(Results), InOrder, NEW name \in Names, NEW status \in Statuses,
           Result(name, status), UNCHANGED plan,
           Taken' = Taken + 1, StepNames[Taken + 1] = name
    PROVE  InOrder'
<1>1. /\ Len(steps) \in Nat /\ Len(steps') = Len(steps) + 1
      /\ \A i \in 1..Len(steps) : steps'[i] = steps[i]
      /\ steps'[Len(steps) + 1] = [name |-> name, status |-> status]
  BY ResultAdds
<1>2. StepNames' = StepNames
  BY DEF StepNames
<1>3. Len(steps) = Taken /\ \A i \in 1..Len(steps) : steps[i].name = StepNames[i]
  BY DEF InOrder
<1> HIDE DEF Taken, StepNames
<1>4. ASSUME NEW i \in 1..Len(steps') PROVE steps'[i].name = StepNames'[i]
  <2>1. CASE i \in 1..Len(steps)
    BY <1>1, <1>2, <1>3, <2>1
  <2>2. CASE i = Len(steps) + 1
    BY <1>1, <1>2, <1>3, <2>2
  <2> QED
    BY <1>1, <2>1, <2>2
<1> QED
  BY <1>1, <1>3, <1>4 DEF InOrder

\* Where each step stands among the names.
LEMMA Places ==
    /\ StepNames[Before + 1] = "searx_search"
    /\ StepNames[Before + 2] = "network_enrichment"
    /\ StepNames[Before + 3] = "native_crawl"
    /\ ~plan.crawlOnly => StepNames[7] = "backfill"
    /\ Before \in Nat /\ (plan.crawlOnly => Before = 0) /\ (~plan.crawlOnly => Before = 3)
<1>1. CASE plan.crawlOnly
  <2>1. StepNames = <<"searx_search", "network_enrichment", "native_crawl">> /\ Before = 0
    BY <1>1, StepNamesOf DEF Before
  <2> QED
    BY <1>1, <2>1
<1>2. CASE ~plan.crawlOnly
  <2>1. /\ StepNames = <<"local_snapshot", "authority_sources", "deterministic_enrichment",
                         "searx_search", "network_enrichment", "native_crawl", "backfill">>
        /\ Before = 3
    BY <1>2, StepNamesOf DEF Before
  <2> QED
    BY <1>2, <2>1
<1> QED
  BY <1>1, <1>2

\* Every step keeps the results in the order of the steps.
LEMMA OrderStep ==
    ASSUME ResearchTypeOK, runs > 0 => InOrder, pc # "idle" => runs > 0,
           pc = "local" => ~plan.crawlOnly, [Next]_vars
    PROVE  runs' > 0 => InOrder'
<1>s. steps \in Seq(Results) /\ runs \in Nat /\ plan \in Plans
  BY TypeParts, ResearchAssumption DEF StepsTyped, FixedTyped
<1>1. CASE Begin
  <2>1. Taken' = 0
    <3>1. pc' = IF plan'.crawlOnly THEN "searching" ELSE "local"
      BY <1>1 DEF Begin, GoTo
    <3> QED
      BY <3>1 DEF Taken, Before
  <2>2. steps' = <<>>
    BY <1>1 DEF Begin
  <2> QED
    BY <2>1, <2>2 DEF InOrder
<1>2. CASE LocalSteps
  <2>1. PICK snapshot \in Statuses, authority \in Statuses, enriched \in Statuses :
          steps' = <<[name |-> "local_snapshot", status |-> snapshot],
                     [name |-> "authority_sources", status |-> authority],
                     [name |-> "deterministic_enrichment", status |-> enriched]>>
    BY <1>2 DEF LocalSteps, Statuses
  <2>2. pc' = "searching" /\ UNCHANGED plan /\ ~plan.crawlOnly
    BY <1>2 DEF LocalSteps, GoTo, fixed, At
  <2>3. Taken' = 3
    BY <2>2 DEF Taken, Before
  <2>4. StepNames' = <<"local_snapshot", "authority_sources", "deterministic_enrichment",
                       "searx_search", "network_enrichment", "native_crawl", "backfill">>
    BY <2>2, StepNamesOf DEF StepNames
  <2>5. Len(steps') = 3 /\ \A i \in 1..3 : steps'[i].name = StepNames'[i]
    BY <2>1, <2>4
  <2> QED
    BY <2>3, <2>5 DEF InOrder
<1>r. CASE LocalStepsRaise
  BY <1>r DEF LocalStepsRaise, InOrder, Taken, StepNames, At, GoTo, fixed
<1>3. ASSUME NEW name \in Names, NEW status \in Statuses, Result(name, status),
             UNCHANGED <<plan, runs>>, pc # "idle",
             Taken' = Taken + 1, StepNames[Taken + 1] = name
      PROVE  InOrder'
  <2>1. InOrder
    BY <1>3
  <2> QED
    BY <1>s, <1>3, <2>1, OrderGoesOn
<1>4. ASSUME NEW status \in Statuses, Result("searx_search", status), UNCHANGED <<plan, runs>>,
             pc = "searching", pc' = "enriching"
      PROVE  InOrder'
  <2>1. Taken = Before /\ Taken' = Before + 1
    BY <1>4 DEF Taken, Before
  <2> QED
    BY <1>3, <1>4, <2>1, Places DEF Names
<1>5. ASSUME NEW status \in Statuses, Result("network_enrichment", status),
             UNCHANGED <<plan, runs>>, pc = "enriching", pc' = "crawling"
      PROVE  InOrder'
  <2>1. Taken = Before + 1 /\ Taken' = Before + 2
    BY <1>5 DEF Taken, Before
  <2>2. Taken + 1 = Before + 2 /\ Taken' = Taken + 1
    BY <2>1, Places
  <2> QED
    BY <1>3, <1>5, <2>2, Places DEF Names
<1>6. ASSUME NEW status \in Statuses, Result("native_crawl", status), UNCHANGED <<plan, runs>>,
             pc \in {"crawling", "fetching"}, pc' = "ending"
      PROVE  InOrder'
  <2>1. Taken = Before + 2 /\ Taken' = Before + 3
    BY <1>6 DEF Taken, Before
  <2>2. Taken + 1 = Before + 3 /\ Taken' = Taken + 1
    BY <2>1, Places
  <2> QED
    BY <1>3, <1>6, <2>2, Places DEF Names
<1>7. CASE End
  <2>1. pc = "ending" /\ pc' = "idle" /\ UNCHANGED <<plan, runs>>
    BY <1>7 DEF End, At, GoTo, fixed
  <2>2. CASE plan.crawlOnly
    <3>1. UNCHANGED steps
      BY <1>7, <2>2 DEF End
    <3>2. Taken' = Taken /\ StepNames' = StepNames
      BY <2>1, <2>2 DEF Taken, Before, StepNames
    <3> QED
      BY <2>1, <3>1, <3>2 DEF InOrder
  <2>3. CASE ~plan.crawlOnly
    <3>1. PICK status \in Statuses : Result("backfill", status)
      BY <1>7, <2>3 DEF End, Statuses
    <3>2. Taken = 6 /\ Taken' = 7
      BY <2>1, <2>3 DEF Taken, Before
    <3> QED
      BY <1>3, <2>1, <2>3, <3>1, <3>2, Places DEF Names
  <2> QED
    BY <2>2, <2>3
<1>8. ASSUME UNCHANGED <<plan, runs, steps>>,
             \/ UNCHANGED pc
             \/ pc = "crawling" /\ pc' = "fetching"
      PROVE  runs' > 0 => InOrder'
  <2>1. Taken' = Taken /\ StepNames' = StepNames
    BY <1>8 DEF Taken, Before, StepNames
  <2> QED
    BY <1>8, <2>1 DEF InOrder
<1>9. CASE SkipSearch
  BY <1>4, <1>9 DEF SkipSearch, At, GoTo, fixed, Statuses
<1>10. CASE EndSearch
  <2>1. PICK status \in Statuses : Result("searx_search", status)
    BY <1>10 DEF EndSearch, Statuses
  <2> QED
    BY <1>4, <1>10, <2>1 DEF EndSearch, At, GoTo, fixed
<1>11. CASE SkipEnrichment
  BY <1>5, <1>11 DEF SkipEnrichment, At, GoTo, fixed, Statuses
<1>12. CASE SkipCrawl
  BY <1>6, <1>12 DEF SkipCrawl, At, GoTo, fixed, Statuses
<1>13. CASE EndFetching
  <2>1. PICK status \in Statuses : Result("native_crawl", status)
    BY <1>13 DEF EndFetching, Statuses
  <2> QED
    BY <1>6, <1>13, <2>1 DEF EndFetching, At, GoTo, fixed
<1>14. CASE RequestsCrawl \/ CacheHit \/ UNCHANGED vars
  BY <1>8, <1>14 DEF RequestsCrawl, CacheHit, vars, At, GoTo, fixed
<1>15. ASSUME NEW d \in Delays, Answered(d) PROVE runs' > 0 => InOrder'
  BY <1>8, <1>15 DEF Answered, Ask, fixed
<1>16. ASSUME NEW d \in Delays, NEW u, Fetch(u, d) PROVE runs' > 0 => InOrder'
  BY <1>8, <1>16 DEF Fetch, fixed
<1>17. ASSUME NEW d \in Delays, SearchFails(d) PROVE InOrder'
  BY <1>4, <1>17 DEF SearchFails, Ask, At, GoTo, fixed, Statuses
<1>18. ASSUME NEW d \in Delays, Enrich(d) PROVE InOrder'
  <2>1. PICK status \in Statuses : Result("network_enrichment", status)
    BY <1>18 DEF Enrich, Statuses
  <2> QED
    BY <1>5, <1>18, <2>1 DEF Enrich, At, GoTo, fixed
<1>19. ASSUME NEW d \in Delays, ScrapyCrawl(d) PROVE InOrder'
  <2>1. PICK status \in Statuses : Result("native_crawl", status)
    BY <1>19 DEF ScrapyCrawl, Statuses
  <2> QED
    BY <1>6, <1>19, <2>1 DEF ScrapyCrawl, At, GoTo, fixed
<1> QED
  BY <1>1, <1>2, <1>r, <1>7, <1>9, <1>10, <1>11, <1>12, <1>13, <1>14, <1>15, <1>16, <1>17,
     <1>18, <1>19 DEF Next

\* The row and the addresses are of the passes whose results say so.
RowInv == RowIsOfItsPass /\ AddressesBeforeSearch

\* A result of another step than those the row and the addresses come from.
LEMMA OtherResult ==
    ASSUME ResearchTypeOK, RowInv, NEW name \in Names, NEW status \in Statuses,
           Result(name, status), UNCHANGED <<plan, targets, row>>, pc # "local",
           pc' \notin {"local", "searching"},
           name = "network_enrichment" => status # "success",
           name = "searx_search" /\ status = "error" => targets = plan.urls,
           pc # "raised"
    PROVE  RowInv'
<1>s. steps \in Seq(Results)
  BY TypeParts DEF StepsTyped
<1>1. \A n \in Names, s \in Statuses : Ended(n, s)' <=> Ended(n, s) \/ (n = name /\ s = status)
  BY <1>s, EndedAdds
<1>2. /\ Ended("network_enrichment", "success")' <=> Ended("network_enrichment", "success")
      /\ Ended("deterministic_enrichment", "error") => Ended("deterministic_enrichment", "error")'
      /\ Ended("searx_search", "error")' =>
             Ended("searx_search", "error") \/ (name = "searx_search" /\ status = "error")
  BY <1>1 DEF Names, Statuses
<1> QED
  BY <1>2 DEF RowInv, RowIsOfItsPass, AddressesBeforeSearch

\* Every step keeps the row that of the last pass that made one.
LEMMA RowStep ==
    ASSUME ResearchTypeOK, RowInv, [Next]_vars PROVE RowInv'
<1>s. steps \in Seq(Results)
  BY TypeParts DEF StepsTyped
<1>1. CASE Begin
  <2>1. /\ steps' = <<>> /\ row' = "none" /\ targets' = plan'.urls /\ Possible(plan')
        /\ pc' = IF plan'.crawlOnly THEN "searching" ELSE "local"
    BY <1>1 DEF Begin, GoTo
  <2>2. plan'.crawlOnly => ~plan'.row
    BY <2>1 DEF Possible
  <2>3. \A n, s : ~Ended(n, s)'
    BY <2>1 DEF Ended
  <2> QED
    BY <2>1, <2>2, <2>3 DEF RowInv, RowIsOfItsPass, AddressesBeforeSearch
<1>2. CASE LocalSteps
  <2>1. PICK snapshot, authority, enriched \in Statuses :
          /\ plan.row \/ enriched = "skipped"
          /\ steps' = <<[name |-> "local_snapshot", status |-> snapshot],
                        [name |-> "authority_sources", status |-> authority],
                        [name |-> "deterministic_enrichment", status |-> enriched]>>
          /\ row' = IF plan.row /\ enriched # "error" THEN "deterministic" ELSE row
    BY <1>2 DEF LocalSteps, Statuses
  <2>2. UNCHANGED <<plan, targets>> /\ pc = "local" /\ pc' = "searching"
    BY <1>2 DEF LocalSteps, At, GoTo, fixed
  <2>3. row = "none" /\ targets = plan.urls
    BY <2>2 DEF RowInv, RowIsOfItsPass, AddressesBeforeSearch
  <2>4. \A i \in 1..Len(steps') :
            steps'[i].name \in {"local_snapshot", "authority_sources", "deterministic_enrichment"}
    BY <2>1
  <2>5. ~Ended("network_enrichment", "success")' /\ ~Ended("searx_search", "error")'
    BY <2>4 DEF Ended
  <2>6. enriched = "error" => Ended("deterministic_enrichment", "error")'
    <3>1. 3 \in 1..Len(steps')
          /\ steps'[3] = [name |-> "deterministic_enrichment", status |-> enriched]
      BY <2>1
    <3> QED
      BY <3>1 DEF Ended
  <2> QED
    BY <2>1, <2>2, <2>3, <2>5, <2>6 DEF RowInv, RowIsOfItsPass, AddressesBeforeSearch
<1>r. CASE LocalStepsRaise
  <2>1. UNCHANGED <<plan, targets, row, steps>> /\ pc = "local" /\ pc' = "raised"
    BY <1>r DEF LocalStepsRaise, At, GoTo, fixed
  <2>2. \A n, s : Ended(n, s)' <=> Ended(n, s)
    BY <2>1 DEF Ended
  <2> QED
    BY <2>1, <2>2 DEF RowInv, RowIsOfItsPass, AddressesBeforeSearch
<1>3. ASSUME UNCHANGED <<plan, targets, row, steps>>,
             UNCHANGED pc \/ (pc' = "fetching" /\ pc = "crawling")
      PROVE  RowInv'
  <2>1. \A n, s : Ended(n, s)' <=> Ended(n, s)
    BY <1>3 DEF Ended
  <2> QED
    BY <1>3, <2>1 DEF RowInv, RowIsOfItsPass, AddressesBeforeSearch
<1>4. CASE RequestsCrawl \/ CacheHit \/ UNCHANGED vars
  <2>1. /\ UNCHANGED <<plan, targets, row, steps>>
        /\ UNCHANGED pc \/ (pc' = "fetching" /\ pc = "crawling")
    BY <1>4 DEF RequestsCrawl, CacheHit, vars, At, GoTo, fixed
  <2> QED
    BY <1>3, <2>1
<1>5. ASSUME NEW d \in Delays, NEW u, Answered(d) \/ Fetch(u, d) PROVE RowInv'
  <2>1. UNCHANGED <<plan, targets, row, steps, pc>>
    BY <1>5 DEF Answered, Ask, Fetch, fixed
  <2> QED
    BY <1>3, <2>1
<1>6. CASE SkipSearch \/ SkipEnrichment \/ SkipCrawl
  BY <1>6, OtherResult DEF SkipSearch, SkipEnrichment, SkipCrawl, At, GoTo, fixed, Names, Statuses
<1>7. CASE EndFetching
  <2>1. PICK status \in Statuses : Result("native_crawl", status)
    BY <1>7 DEF EndFetching, Statuses
  <2> QED
    BY <1>7, <2>1, OtherResult DEF EndFetching, At, GoTo, fixed, Names
<1>8. ASSUME NEW d \in Delays, ScrapyCrawl(d) PROVE RowInv'
  <2>1. PICK status \in Statuses : Result("native_crawl", status)
    BY <1>8 DEF ScrapyCrawl, Statuses
  <2> QED
    BY <1>8, <2>1, OtherResult DEF ScrapyCrawl, At, GoTo, fixed, Names
<1>9. ASSUME NEW d \in Delays, SearchFails(d) PROVE RowInv'
  <2>1. pc = "searching" /\ pc' = "enriching" /\ UNCHANGED <<plan, targets, row>>
    BY <1>9 DEF SearchFails, Ask, At, GoTo, fixed
  <2>2. targets = plan.urls /\ Result("searx_search", "error")
    BY <1>9, <2>1 DEF RowInv, AddressesBeforeSearch, SearchFails
  <2> QED
    BY <2>1, <2>2, OtherResult DEF Names, Statuses
<1>10. CASE EndSearch
  <2>1. PICK status \in {"skipped", "success"} : Result("searx_search", status)
    BY <1>10 DEF EndSearch
  <2>2. pc = "searching" /\ pc' = "enriching" /\ UNCHANGED <<plan, row>>
    BY <1>10 DEF EndSearch, At, GoTo, fixed
  <2>3. ~Ended("searx_search", "error")
    BY <2>2 DEF RowInv, AddressesBeforeSearch
  <2>4. \A n \in Names, s \in Statuses :
            Ended(n, s)' <=> Ended(n, s) \/ (n = "searx_search" /\ s = status)
    BY <1>s, <2>1, EndedAdds DEF Names, Statuses
  <2>5. /\ Ended("network_enrichment", "success")' <=> Ended("network_enrichment", "success")
        /\ Ended("deterministic_enrichment", "error") => Ended("deterministic_enrichment", "error")'
        /\ ~Ended("searx_search", "error")'
    BY <2>1, <2>3, <2>4 DEF Names, Statuses
  <2> QED
    BY <2>2, <2>5 DEF RowInv, RowIsOfItsPass, AddressesBeforeSearch
<1>11. ASSUME NEW d \in Delays, Enrich(d) PROVE RowInv'
  <2>1. PICK status \in Statuses :
            Result("network_enrichment", status) /\ row' = RowFrom(status)
    BY <1>11 DEF Enrich, Statuses
  <2>2. pc = "enriching" /\ pc' = "crawling" /\ UNCHANGED <<plan, targets>>
    BY <1>11 DEF Enrich, At, GoTo, fixed
  <2>3. CASE status # "success"
    <3>1. UNCHANGED row
      BY <2>1, <2>3 DEF RowFrom
    <3> QED
      BY <2>1, <2>2, <2>3, <3>1, OtherResult DEF Names
  <2>4. CASE status = "success"
    <3>1. row' = "network"
      BY <2>1, <2>4 DEF RowFrom
    <3>2. \A n \in Names, s \in Statuses :
              Ended(n, s)' <=> Ended(n, s) \/ (n = "network_enrichment" /\ s = status)
      BY <1>s, <2>1, EndedAdds DEF Names
    <3>3. Ended("network_enrichment", "success")'
          /\ (Ended("searx_search", "error")' => Ended("searx_search", "error"))
      BY <2>4, <3>2 DEF Names, Statuses
    <3> QED
      BY <2>2, <3>1, <3>3 DEF RowInv, RowIsOfItsPass, AddressesBeforeSearch
  <2> QED
    BY <2>3, <2>4
<1>12. CASE End
  <2>1. pc = "ending" /\ pc' = "idle" /\ UNCHANGED <<plan, targets, row>>
    BY <1>12 DEF End, At, GoTo, fixed
  <2>2. CASE plan.crawlOnly
    <3>1. UNCHANGED steps
      BY <1>12, <2>2 DEF End
    <3>2. \A n, s : Ended(n, s)' <=> Ended(n, s)
      BY <3>1 DEF Ended
    <3> QED
      BY <2>1, <3>2 DEF RowInv, RowIsOfItsPass, AddressesBeforeSearch
  <2>3. CASE ~plan.crawlOnly
    <3>1. PICK status \in Statuses : Result("backfill", status)
      BY <1>12, <2>3 DEF End, Statuses
    <3> QED
      BY <2>1, <3>1, OtherResult DEF Names
  <2> QED
    BY <2>2, <2>3
<1> QED
  BY <1>1, <1>2, <1>r, <1>4, <1>5, <1>6, <1>7, <1>8, <1>9, <1>10, <1>11, <1>12 DEF Next

\* A run has begun whenever there is one to go on with.
LEMMA RunsBegun ==
    ASSUME ResearchTypeOK, pc # "idle" => runs > 0, [Next]_vars
    PROVE  pc' # "idle" => runs' > 0
<1>1. runs \in Nat
  BY ResearchAssumption DEF ResearchTypeOK
<1>2. CASE Begin
  BY <1>1, <1>2 DEF Begin
<1>3. CASE LocalSteps \/ LocalStepsRaise \/ SkipSearch \/ CacheHit \/ EndSearch
           \/ SkipEnrichment \/ SkipCrawl \/ RequestsCrawl \/ EndFetching \/ End
  BY <1>3 DEF LocalSteps, LocalStepsRaise, SkipSearch, CacheHit, EndSearch, SkipEnrichment, SkipCrawl,
     RequestsCrawl, EndFetching, End, At, GoTo, fixed
<1>4. ASSUME NEW d \in Delays, NEW u,
             Answered(d) \/ SearchFails(d) \/ Enrich(d) \/ ScrapyCrawl(d) \/ Fetch(u, d)
      PROVE  pc' # "idle" => runs' > 0
  BY <1>4 DEF Answered, SearchFails, Ask, Enrich, ScrapyCrawl, Fetch, At, GoTo, fixed
<1>5. CASE UNCHANGED vars
  BY <1>5 DEF vars
<1> QED
  BY <1>2, <1>3, <1>4, <1>5 DEF Next

\* Every run ends with one result per step, in their order, whichever of them
\* failed, and its row comes from the last pass that made one
\* (orchestrator.py:560-940).
THEOREM OutcomesAreWhole == Spec => []OutcomeIsWhole
<1>1. Init => OutcomeInv
  BY DEF Init, NoPlan, OutcomeInv, RowIsOfItsPass, AddressesBeforeSearch, Ended
<1>2. ResearchTypeOK /\ OutcomeInv /\ [Next]_vars => OutcomeInv'
  <2> SUFFICES ASSUME ResearchTypeOK, OutcomeInv, [Next]_vars PROVE OutcomeInv'
    OBVIOUS
  <2>1. pc' # "idle" => runs' > 0
    BY RunsBegun DEF OutcomeInv
  <2>2. runs' > 0 => InOrder'
    BY OrderStep DEF OutcomeInv, RowIsOfItsPass
  <2>3. RowInv'
    BY RowStep DEF OutcomeInv, RowInv
  <2> QED
    BY <2>1, <2>2, <2>3 DEF OutcomeInv, RowInv
<1>3. ResearchTypeOK /\ OutcomeInv => OutcomeIsWhole
  <2> SUFFICES ASSUME ResearchTypeOK, OutcomeInv, pc = "idle", runs > 0
               PROVE  /\ [i \in 1..Len(steps) |-> steps[i].name] = StepNames
                      /\ row = "network" <=> Ended("network_enrichment", "success")
                      /\ row = "none" =>
                             ~plan.row \/ Ended("deterministic_enrichment", "error")
                      /\ Ended("searx_search", "error") => targets = plan.urls
    BY DEF OutcomeIsWhole
  <2>1. Len(steps) = Taken /\ \A i \in 1..Len(steps) : steps[i].name = StepNames[i]
    BY DEF OutcomeInv, InOrder
  <2>2. [i \in 1..Len(steps) |-> steps[i].name] = StepNames
    <3>1. CASE plan.crawlOnly
      <4>1. /\ Len(steps) = 3
            /\ StepNames = <<"searx_search", "network_enrichment", "native_crawl">>
        BY <2>1, <3>1, StepNamesOf DEF Taken
      <4> QED
        BY <2>1, <4>1
    <3>2. CASE ~plan.crawlOnly
      <4>1. /\ Len(steps) = 7
            /\ StepNames = <<"local_snapshot", "authority_sources", "deterministic_enrichment",
                             "searx_search", "network_enrichment", "native_crawl", "backfill">>
        BY <2>1, <3>2, StepNamesOf DEF Taken
      <4> QED
        BY <2>1, <4>1
    <3> QED
      BY <3>1, <3>2
  <2> QED
    BY <2>2 DEF OutcomeInv, RowIsOfItsPass
<1> QED
  BY <1>1, <1>2, <1>3, ResearchTypes, PTL DEF Spec

=============================================================================
