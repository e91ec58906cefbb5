---------------------------- MODULE Aggregation -----------------------------
(***************************************************************************)
(* Aggregation of the source records into one row per organisation         *)
(* (pipeline/aggregation.py): records are grouped by slug, the rows of a   *)
(* group are ranked, and a column takes the value of the best row that has *)
(* one, or all of them joined; only the name of the organisation is taken  *)
(* in the order of the records.  A column of a record is the sequence of   *)
(* its clean values, of length one at most but for lists; of their text    *)
(* nothing is said, and a joined text is the set of what it joins.         *)
(***************************************************************************)
EXTENDS Integers, Sequences, FiniteSets

CONSTANTS
    Texts,      \* clean values
    Pool,       \* the records a source may hold
    MaxRecords  \* bound: records of all sources

\* Columns of which one value is kept, joined columns, lists of contacts.  The
\* organisation's name is none of them: it has no provenance.
Scalars == {"website", "area"}
Joined == {"notes"}
Addresses == {"emails", "phones"}
Contacts == {"names", "roles"}
Columns == Scalars \cup Joined \cup Addresses \cup Contacts
None == "none"

ASSUME AggregationAssumption ==
    /\ MaxRecords \in Nat /\ None \notin Texts
    /\ \A r \in Pool :
           /\ r.priority \in Int /\ r.date \in Int
           /\ \A c \in Columns : r[c] \in Seq(Texts)
           /\ \A c \in Scalars \cup Joined : Len(r[c]) <= 1
           /\ r.organization \in Seq(Texts) /\ Len(r.organization) <= 1

VARIABLES
    combined,   \* the records, in order
    pc,         \* "grouping", "aggregating", "done"
    groups,     \* of each slug the positions of its records
    refined,    \* aggregated rows so far, one per group
    conflicts   \* what the rows disagreed on, group after group

vars == <<combined, pc, groups, refined, conflicts>>

\* A conflict always has an alternative; a group is never empty.
AggregationTypeOK ==
    /\ combined \in Seq(Pool)
    /\ pc \in {"grouping", "aggregating", "done"}
    /\ \A slug \in DOMAIN groups : groups[slug] \in (SUBSET DOMAIN combined) \ {{}}
    /\ Len(conflicts) = Len(refined)
    /\ \A g \in DOMAIN conflicts : \A k \in conflicts[g] :
           k.value \in SUBSET Texts /\ k.alternatives \in (SUBSET Texts) \ {{}}

Init ==
    /\ combined \in UNION {[1..n -> Pool] : n \in 1..MaxRecords}
    /\ pc = "grouping"
    /\ groups = <<>> /\ refined = <<>> /\ conflicts = <<>>

-----------------------------------------------------------------------------
(* Rank.  The rows of a group are a function from their positions.         *)

\* _row_quality_score, of the columns that count (province and address do as
\* the website does).
Quality(row) == Cardinality({c \in {"emails", "phones", "website"} : row[c] # <<>>})

\* Not the code: what was seen last comes first.
BetterIfLater(rows, i, j) ==
    \/ rows[i].date > rows[j].date
    \/ rows[i].date = rows[j].date /\ i < j

\* _sort_key: source priority, quality, last interaction, earlier position.
Better(rows, i, j) ==
    LET a == rows[i]  b == rows[j]  IN
    \/ a.priority > b.priority
    \/ a.priority = b.priority /\ Quality(a) > Quality(b)
    \/ a.priority = b.priority /\ Quality(a) = Quality(b) /\ a.date > b.date
    \/ a.priority = b.priority /\ Quality(a) = Quality(b) /\ a.date = b.date /\ i < j

\* What the rows say in a column: each value with its row and its place there.
Offers(rows, column) ==
    UNION {{[row |-> i, at |-> n, value |-> rows[i][column][n]] : n \in DOMAIN rows[i][column]} :
               i \in DOMAIN rows}

\* Best row first, and its values in their order.
Before(rows, a, b) ==
    \/ Better(rows, a.row, b.row)
    \/ a.row = b.row /\ a.at < b.at

Best(rows, selections) ==
    CHOOSE s \in selections : \A o \in selections \ {s} : Before(rows, s, o)

\* Not the code: a value counts as often as it is offered.
DistinctNot(rows, offers) == offers

\* Of each value the first offer.
Distinct(rows, offers) ==
    {s \in offers : \A o \in offers : o.value = s.value => ~Before(rows, o, s)}

\* _iter_values: the offers of a column, of each value one.
Selections(rows, column) == Distinct(rows, Offers(rows, column))

First(rows, selections) == IF selections = {} THEN None ELSE Best(rows, selections).value
Rest(rows, selections) == IF selections = {} THEN {} ELSE selections \ {Best(rows, selections)}
ValuesOf(selections) == {s.value : s \in selections}

-----------------------------------------------------------------------------
(* A group *)

\* Not the code: values of the same row do not disagree.
ContributorsFromOtherRows(rows, selections, value) ==
    {s \in selections : s.value \notin value /\ s.row # Best(rows, selections).row}

\* _record_provenance: all selections but the one that is the value, or but the
\* first of all when the value is a text joined from several.
Contributors(rows, selections, value) ==
    LET holding == {s \in selections : {s.value} = value}
    IN  IF selections = {} THEN {}
        ELSE selections \ {Best(rows, IF holding = {} THEN selections ELSE holding)}

ConflictOf(rows, field, selections, value) ==
    LET others == Contributors(rows, selections, value)
    IN  IF others = {} THEN {}
        ELSE {[field |-> field, value |-> value, alternatives |-> ValuesOf(others)]}

\* The row of the primary e-mail, else of the primary phone, says whose name
\* and role it is; without one there, the best row's.
OfContact(rows, column) ==
    LET emails == Selections(rows, "emails")
        contact == IF emails # {} THEN emails ELSE Selections(rows, "phones")
        said == rows[Best(rows, contact).row][column]
    IN  IF contact # {} /\ said # <<>> THEN said[1] ELSE First(rows, Selections(rows, column))

Primary(rows, column) ==
    IF column \in Contacts THEN OfContact(rows, column) ELSE First(rows, Selections(rows, column))

Secondary(rows, column) == Rest(rows, Selections(rows, column))

\* coalesce: the first name in the order of the records, whatever their rank.
OrganizationName(rows) ==
    LET naming == {i \in DOMAIN rows : rows[i].organization # <<>>}
        first == CHOOSE i \in naming : \A k \in naming : i <= k
    IN  IF naming = {} THEN None ELSE rows[first].organization[1]

\* _aggregate_group: the row of an organisation; last interaction is the
\* latest of any row.
AggregatedRow(slug, rows) ==
    [slug |-> slug,
     organization |-> OrganizationName(rows),
     kept |-> [c \in Columns \ Joined |-> Primary(rows, c)],
     joined |-> [c \in Joined |-> ValuesOf(Selections(rows, c))],
     secondary |-> [c \in Addresses |-> ValuesOf(Secondary(rows, c))],
     last |-> CHOOSE d \in {rows[i].date : i \in DOMAIN rows} : \A i \in DOMAIN rows : d >= rows[i].date]

SecondaryField == [emails |-> "secondary emails", phones |-> "secondary phones"]

\* The conflicts of a group, of all fields.  Of joined columns and of secondary
\* contacts the joined text is recorded as the value chosen.
ConflictsOf(rows) ==
    (UNION {ConflictOf(rows, c, Selections(rows, c), {Primary(rows, c)}) : c \in Columns \ Joined})
    \cup (UNION {ConflictOf(rows, c, Selections(rows, c), ValuesOf(Selections(rows, c))) : c \in Joined})
    \cup (UNION {ConflictOf(rows, SecondaryField[c], Secondary(rows, c), ValuesOf(Secondary(rows, c))) :
                     c \in Addresses})

-----------------------------------------------------------------------------
(* All groups *)

Positions(slug) == {i \in DOMAIN combined : combined[i].slug = slug}

\* group_by; records without a slug are one group.
Group ==
    /\ pc = "grouping"
    /\ groups' = [slug \in {combined[i].slug : i \in DOMAIN combined} |-> Positions(slug)]
    /\ pc' = "aggregating"
    /\ UNCHANGED <<combined, refined, conflicts>>

RowsOf(slug) == [i \in groups[slug] |-> combined[i]]
Done == {refined[g].slug : g \in DOMAIN refined}

\* The groups come in the order of their first records.
AggregateGroup ==
    /\ pc = "aggregating"
    /\ \E i \in DOMAIN combined :
           LET slug == combined[i].slug IN
           /\ slug \notin Done
           /\ \A k \in 1..(i - 1) : combined[k].slug \in Done
           /\ refined' = Append(refined, AggregatedRow(slug, RowsOf(slug)))
           /\ conflicts' = Append(conflicts, ConflictsOf(RowsOf(slug)))
    /\ UNCHANGED <<combined, pc, groups>>

Finish ==
    /\ pc = "aggregating" /\ DOMAIN groups \subseteq Done
    /\ pc' = "done"
    /\ UNCHANGED <<combined, groups, refined, conflicts>>

Next == Group \/ AggregateGroup \/ Finish

Spec == Init /\ [][Next]_vars

-----------------------------------------------------------------------------
(* Properties *)

Aggregated == 1..Len(refined)
RowsBehind(g) == RowsOf(refined[g].slug)

\* Row i of a group says v first in column c, and no row that ranks above it
\* says anything there: priority, quality, date, position, by themselves.
Decides(rows, i, c, v) ==
    /\ rows[i][c] # <<>> /\ rows[i][c][1] = v
    /\ \A k \in DOMAIN rows : k # i /\ rows[k][c] # <<>> =>
           LET a == rows[i]  b == rows[k]  IN
           /\ a.priority >= b.priority
           /\ a.priority = b.priority => Quality(a) >= Quality(b)
           /\ a.priority = b.priority /\ Quality(a) = Quality(b) => a.date >= b.date
           /\ a.priority = b.priority /\ Quality(a) = Quality(b) /\ a.date = b.date => i < k

\* A kept website, area, e-mail or phone is the one its best row says, and is
\* only missing when no row of the organisation says any; name and role of the
\* contact and the name of the organisation are chosen otherwise
\* (aggregation.py:206-258).
BestRowDecides ==
    \A g \in Aggregated : \A c \in Scalars \cup Addresses :
        LET rows == RowsBehind(g) IN
        IF \E i \in DOMAIN rows : rows[i][c] # <<>>
        THEN \E i \in DOMAIN rows : Decides(rows, i, c, refined[g].kept[c])
        ELSE refined[g].kept[c] = None

\* The aggregated row has value v of column c, or a conflict names it.
Accounted(row, ks, c, v) ==
    \/ c \in Joined /\ v \in row.joined[c]
    \/ c \in Addresses /\ v \in row.secondary[c]
    \/ c \notin Joined /\ v = row.kept[c]
    \/ \E k \in ks : k.field = c /\ v \in k.alternatives

\* What aggregation drops in silence is spellings of the organisation's name,
\* and of those only what comes after the one it keeps.  Every value of every
\* other column, said by whichever row, is in the row of its organisation, or a
\* conflict of that row names it (aggregation.py:186, 280-436).
OnlySpellingsAreLost ==
    \A g \in Aggregated :
        LET rows == RowsBehind(g) IN
        \A i \in DOMAIN rows :
            /\ \A c \in Columns : \A n \in DOMAIN rows[i][c] :
                   Accounted(refined[g], conflicts[g], c, rows[i][c][n])
            /\ rows[i].organization # <<>> =>
                   \E k \in DOMAIN rows :
                       k <= i /\ rows[k].organization = <<refined[g].organization>>

\* A conflict names the value that the row has: where one is kept its
\* alternatives are others, where all are joined they are among the joined.
Agrees(row, k) ==
    \/ /\ k.field \in Columns \ Joined
       /\ k.value = {row.kept[k.field]} /\ k.value \cap k.alternatives = {}
    \/ /\ k.field \in Joined
       /\ k.value = row.joined[k.field] /\ k.alternatives \subseteq k.value
    \/ \E c \in Addresses :
           /\ k.field = SecondaryField[c]
           /\ k.value = row.secondary[c] /\ k.alternatives \subseteq k.value

\* However many rows repeat a value, the conflict of a column of which one value
\* is kept sets only other values against it, and no contact is its own secondary
\* contact; the conflict of a joined text sets aside what the text itself has
\* (aggregation.py:254-312, 359-406).
ConflictsAgreeWithRow ==
    \A g \in Aggregated :
        /\ \A k \in conflicts[g] : Agrees(refined[g], k)
        /\ \A c \in Addresses : refined[g].kept[c] \notin refined[g].secondary[c]

=============================================================================
