----------------------------- MODULE MCResearch -----------------------------
(* Values for TLC: an address written in two ways and another one. *)
EXTENDS Research

KeyOf == [u \in Urls |-> IF u = "a/" THEN "a" ELSE u]
SomeAnswers == {<<>>, <<"a", "a/", "b">>}

PlanOf(c, n, r, q, u, t) ==
    [crawlOnly |-> c, network |-> n, row |-> r, query |-> q, urls |-> u, terms |-> t]

\* First a run that fills the cache; then, from nothing to everything, with
\* and without the network.
RunPlans == <<{PlanOf(TRUE, TRUE, FALSE, TRUE, {}, 2)},
    {PlanOf(FALSE, TRUE, TRUE, TRUE, {"a", "a/"}, 1), PlanOf(FALSE, FALSE, TRUE, TRUE, {"a"}, 2),
     PlanOf(FALSE, TRUE, FALSE, FALSE, {}, 2), PlanOf(TRUE, TRUE, FALSE, FALSE, {"b"}, 1)}>>
SomeHosts ==
    {[scrapy |-> TRUE, gate |-> TRUE, limit |-> "burst"],
     [scrapy |-> TRUE, gate |-> FALSE, limit |-> "burst"],
     [scrapy |-> TRUE, gate |-> FALSE, limit |-> "spaced"],
     [scrapy |-> FALSE, gate |-> TRUE, limit |-> "none"]}
SomeSettings == {[enabled |-> FALSE, first |-> FALSE, burst |-> FALSE],
                 [enabled |-> TRUE, first |-> FALSE, burst |-> TRUE],
                 [enabled |-> TRUE, first |-> TRUE, burst |-> FALSE]}

=============================================================================
