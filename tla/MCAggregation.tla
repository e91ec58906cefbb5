--------------------------- MODULE MCAggregation ----------------------------
(* Records for TLC: two organisations, one of them in two spellings, and    *)
(* none (the slug is made from the name); sources of three priorities; rows *)
(* that differ in one column or in all.                                     *)
EXTENDS Aggregation

Rec(slug, name, priority, date, website, area, notes, emails, phones, names, roles) ==
    [slug |-> slug, organization |-> name, priority |-> priority, date |-> date,
     website |-> website, area |-> area, notes |-> notes, emails |-> emails, phones |-> phones, names |-> names, roles |-> roles]

Words ==
    {"Acme", "ACME", "Bolt", "w1", "w2", "w3", "w4", "a1", "a2", "a3", "n1", "n2",
     "e1", "e2", "e3", "p1", "p2", "Ann", "Bob", "Cid", "Dee", "Eve", "ceo", "cfo", "cto"}

Records ==
    {Rec("acme", <<"ACME">>, 3, 0, <<"w1">>, <<>>, <<"n1">>, <<>>, <<"p1">>, <<"Ann">>, <<>>),
     Rec("acme", <<"Acme">>, 1, 0, <<"w2">>, <<"a1">>, <<"n2">>, <<"e1", "e2">>, <<"p2">>, <<"Bob", "Ann">>, <<"ceo">>),
     Rec("acme", <<"Acme">>, 1, 2, <<"w1">>, <<"a2">>, <<"n2">>, <<"e2">>, <<"p1">>, <<>>, <<"cfo">>),
     Rec("acme", <<"Acme">>, 1, 3, <<>>, <<"a3">>, <<>>, <<"e3">>, <<>>, <<"Cid">>, <<"cto">>),
     Rec("bolt", <<"Bolt">>, 2, 1, <<"w3">>, <<>>, <<>>, <<"e1">>, <<>>, <<>>, <<>>),
     Rec("bolt", <<"Bolt">>, 2, 1, <<"w4">>, <<"a1">>, <<"n1">>, <<"e1">>, <<>>, <<"Dee">>, <<>>),
     Rec(None, <<>>, 1, 0, <<>>, <<"a1">>, <<>>, <<>>, <<>>, <<"Eve">>, <<"cto">>)}

=============================================================================
