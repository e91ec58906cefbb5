-------------------------- MODULE McpServer_proofs --------------------------
(***************************************************************************)
(* Proofs about McpServer and its RolePolicy, for every policy, whatever   *)
(* roles inherit from each other, and every sequence of requests.          *)
(*                                                                         *)
(* Walk is defined by recursion into itself: that there is such a function *)
(* comes first.  The visits are the least set closed under what one does   *)
(* (Visits); each visit either goes to an earlier parent or leaves fewer   *)
(* roles unvisited, so that each ends in one way (WalkInduction).  What is *)
(* visited is then shown to be what every closed set contains, and to be   *)
(* closed.                                                                 *)
(***************************************************************************)
EXTENDS McpServer, FiniteSetTheorems, SequenceTheorems,
        WellFoundedInduction, TLAPS

-----------------------------------------------------------------------------
(* Induction over visits *)

\* A set of numbers that is not empty has a least one.
LEMMA LeastOf ==
    ASSUME NEW S, S \subseteq Nat, S # {} PROVE \E m \in S : \A k \in S : ~(k < m)
<1>1. \E m \in S : \A k \in S : ~(<<k, m>> \in OpToRel(<, Nat))
  BY WFMin, NatLessThanWellFounded
<1>2. \A k, m \in S : k < m => <<k, m>> \in OpToRel(<, Nat)
  BY DEF OpToRel
<1> QED
  BY <1>1, <1>2

Parents(defs, r) == 1..Len(defs[r].inherits)
Parent(defs, r, i) == defs[r].inherits[i]
From(defs, roles, p) == IF p \in roles THEN Len(defs[p].inherits) ELSE 0
Places == Names \X Nat \X SUBSET Names
Inherits(defs) == \A n \in Names : defs[n].inherits \in Seq(Names)

\* The parents of a role are names, at their positions.
LEMMA ParentTyped ==
    ASSUME NEW defs, NEW roles, Inherits(defs), NEW r \in Names
    PROVE  /\ Len(defs[r].inherits) \in Nat /\ From(defs, roles, r) \in Nat
           /\ \A i \in Parents(defs, r) : Parent(defs, r, i) \in Names /\ i \in Nat /\ i - 1 \in Nat
<1>1. defs[r].inherits \in Seq(Names)
  BY DEF Inherits
<1> QED
  BY <1>1 DEF Parents, Parent, From

\* Roles that were not visited yet.
Unseen(seen) == Cardinality(Names \ seen)

\* A role more seen is a role less to see.
LEMMA UnseenShrinks ==
    ASSUME NEW seen \in SUBSET Names, NEW v \in SUBSET Names, seen \subseteq v,
           NEW p \in Names, p \notin v
    PROVE  /\ Unseen(seen) \in Nat /\ Unseen(v \cup {p}) \in Nat
           /\ Unseen(v \cup {p}) < Unseen(seen)
<1>1. /\ IsFiniteSet(Names \ seen) /\ IsFiniteSet(Names \ (v \cup {p}))
      /\ Names \ (v \cup {p}) \subseteq Names \ seen /\ Names \ (v \cup {p}) # Names \ seen
  BY NamesAreFinite, FS_Subset
<1>2. Unseen(seen) \in Nat /\ Unseen(v \cup {p}) \in Nat
  BY <1>1, FS_CardinalityType DEF Unseen
<1>3. Unseen(v \cup {p}) <= Unseen(seen) /\ Unseen(v \cup {p}) # Unseen(seen)
  BY <1>1, FS_Subset DEF Unseen
<1> QED
  BY <1>2, <1>3

\* A visit comes back to itself neither through an earlier parent nor through
\* a parent that was not visited.
LEMMA WalkInduction ==
    ASSUME NEW defs, NEW roles, Inherits(defs), NEW S,
           \A r \in Names, i \in Nat, seen \in SUBSET Names :
               (i \in Parents(defs, r) =>
                   /\ <<r, i - 1, seen>> \in S
                   /\ \A v \in SUBSET Names :
                          seen \subseteq v /\ Parent(defs, r, i) \notin v =>
                              <<Parent(defs, r, i), From(defs, roles, Parent(defs, r, i)),
                                v \cup {Parent(defs, r, i)}>> \in S)
               => <<r, i, seen>> \in S
    PROVE  \A r \in Names, i \in Nat, seen \in SUBSET Names : <<r, i, seen>> \in S
<1> DEFINE Bad(r, i, seen) == r \in Names /\ i \in Nat /\ seen \in SUBSET Names
                              /\ <<r, i, seen>> \notin S
           sizes == {m \in Nat : \E r, i, seen : Bad(r, i, seen) /\ Unseen(seen) = m}
<1>t. \A seen \in SUBSET Names : Unseen(seen) \in Nat
  <2>1. \A seen \in SUBSET Names : IsFiniteSet(Names \ seen)
    BY NamesAreFinite, FS_Subset
  <2> QED
    BY <2>1, FS_CardinalityType DEF Unseen
<1>1. SUFFICES ASSUME \E r, i, seen : Bad(r, i, seen) PROVE FALSE
  OBVIOUS
<1>2. sizes # {} /\ sizes \subseteq Nat
  BY <1>1, <1>t
<1>3. PICK m \in sizes : \A k \in sizes : ~(k < m)
  BY <1>2, LeastOf
<1> DEFINE nexts == {i \in Nat : \E r, seen : Bad(r, i, seen) /\ Unseen(seen) = m}
<1>4. nexts # {} /\ nexts \subseteq Nat
  BY <1>3
<1>5. PICK i \in nexts : \A k \in nexts : ~(k < i)
  BY <1>4, LeastOf
<1>6. PICK r, seen : Bad(r, i, seen) /\ Unseen(seen) = m
  BY <1>5
<1>7. ASSUME i \in Parents(defs, r)
      PROVE  /\ <<r, i - 1, seen>> \in S
             /\ \A v \in SUBSET Names :
                    seen \subseteq v /\ Parent(defs, r, i) \notin v =>
                        <<Parent(defs, r, i), From(defs, roles, Parent(defs, r, i)),
                          v \cup {Parent(defs, r, i)}>> \in S
  <2>0. i \in Nat /\ i - 1 \in Nat /\ Parent(defs, r, i) \in Names
        /\ From(defs, roles, Parent(defs, r, i)) \in Nat
    BY <1>6, <1>7, ParentTyped
  <2>1. ASSUME <<r, i - 1, seen>> \notin S PROVE FALSE
    <3>1. Bad(r, i - 1, seen)
      BY <1>6, <2>0, <2>1
    <3>2. i - 1 \in nexts
      BY <1>6, <2>0, <3>1
    <3> HIDE DEF nexts
    <3>3. i - 1 < i
      BY <2>0
    <3> QED
      BY <1>5, <3>2, <3>3
  <2>2. ASSUME NEW v \in SUBSET Names, seen \subseteq v, Parent(defs, r, i) \notin v,
               <<Parent(defs, r, i), From(defs, roles, Parent(defs, r, i)),
                 v \cup {Parent(defs, r, i)}>> \notin S
        PROVE  FALSE
    <3> DEFINE p == Parent(defs, r, i)
               q == From(defs, roles, p)
               w == v \cup {p}
    <3>1. Bad(p, q, w)
      BY <2>0, <2>2
    <3>2. Unseen(w) \in Nat /\ Unseen(w) < Unseen(seen)
      BY <1>6, <2>0, <2>2, UnseenShrinks
    <3>3. Unseen(w) \in sizes
      BY <3>1, <3>2
    <3> QED
      BY <1>3, <1>6, <3>2, <3>3
  <2> QED
    BY <2>1, <2>2
<1>8. <<r, i, seen>> \in S
  BY <1>6, <1>7
<1> QED
  BY <1>6, <1>8

-----------------------------------------------------------------------------
(* Visits: from a place, with the roles visited afterwards *)

AllVisits == Names \X Nat \X (SUBSET Names) \X (SUBSET Names)

ClosedVisits(Q, defs, roles) ==
    \A r \in Names, i \in Nat, seen \in SUBSET Names :
        /\ i \notin Parents(defs, r) => <<r, i, seen, seen>> \in Q
        /\ i \in Parents(defs, r) =>
               \A v \in SUBSET Names : <<r, i - 1, seen, v>> \in Q =>
                   /\ Parent(defs, r, i) \in v => <<r, i, seen, v>> \in Q
                   /\ Parent(defs, r, i) \notin v =>
                          \A w \in SUBSET Names :
                              <<Parent(defs, r, i), From(defs, roles, Parent(defs, r, i)),
                                v \cup {Parent(defs, r, i)}, w>> \in Q => <<r, i, seen, w>> \in Q

Visits(defs, roles) ==
    {q \in AllVisits : \A Q \in SUBSET AllVisits : ClosedVisits(Q, defs, roles) => q \in Q}

\* The visits are in every closed set.
LEMMA VisitsLeast ==
    ASSUME NEW defs, NEW roles, NEW Q, Q \subseteq AllVisits, ClosedVisits(Q, defs, roles)
    PROVE  Visits(defs, roles) \subseteq Q
  BY DEF Visits

\* The visits are closed themselves.
LEMMA VisitsClosed ==
    ASSUME NEW defs, NEW roles, Inherits(defs)
    PROVE  ClosedVisits(Visits(defs, roles), defs, roles)
<1> DEFINE V == Visits(defs, roles)
<1> SUFFICES ASSUME NEW r \in Names, NEW i \in Nat, NEW seen \in SUBSET Names
             PROVE  /\ i \notin Parents(defs, r) => <<r, i, seen, seen>> \in V
                    /\ i \in Parents(defs, r) =>
                       \A v \in SUBSET Names : <<r, i - 1, seen, v>> \in V =>
                         /\ Parent(defs, r, i) \in v => <<r, i, seen, v>> \in V
                         /\ Parent(defs, r, i) \notin v =>
                            \A w \in SUBSET Names :
                              <<Parent(defs, r, i), From(defs, roles, Parent(defs, r, i)),
                                v \cup {Parent(defs, r, i)}, w>> \in V => <<r, i, seen, w>> \in V
  BY DEF ClosedVisits
<1>a. ASSUME NEW x \in SUBSET Names,
             \A Q \in SUBSET AllVisits : ClosedVisits(Q, defs, roles) => <<r, i, seen, x>> \in Q
      PROVE  <<r, i, seen, x>> \in V
  <2>1. <<r, i, seen, x>> \in AllVisits
    BY DEF AllVisits
  <2> QED
    BY <1>a, <2>1 DEF Visits
<1>b. ASSUME NEW q \in V, NEW Q \in SUBSET AllVisits, ClosedVisits(Q, defs, roles) PROVE q \in Q
  BY <1>b DEF Visits
<1> HIDE DEF V
<1>1. ASSUME i \notin Parents(defs, r) PROVE <<r, i, seen, seen>> \in V
  <2>1. ASSUME NEW Q \in SUBSET AllVisits, ClosedVisits(Q, defs, roles)
        PROVE  <<r, i, seen, seen>> \in Q
    BY <1>1, <2>1 DEF ClosedVisits
  <2> QED
    BY <1>a, <2>1
<1>2. ASSUME i \in Parents(defs, r), NEW v \in SUBSET Names, <<r, i - 1, seen, v>> \in V,
             Parent(defs, r, i) \in v
      PROVE  <<r, i, seen, v>> \in V
  <2>1. ASSUME NEW Q \in SUBSET AllVisits, ClosedVisits(Q, defs, roles)
        PROVE  <<r, i, seen, v>> \in Q
    <3>1. <<r, i - 1, seen, v>> \in Q
      BY <1>2, <1>b, <2>1
    <3> QED
      BY <1>2, <2>1, <3>1 DEF ClosedVisits
  <2> QED
    BY <1>a, <2>1
<1>3. ASSUME i \in Parents(defs, r), NEW v \in SUBSET Names, <<r, i - 1, seen, v>> \in V,
             Parent(defs, r, i) \notin v, NEW w \in SUBSET Names,
             <<Parent(defs, r, i), From(defs, roles, Parent(defs, r, i)),
               v \cup {Parent(defs, r, i)}, w>> \in V
      PROVE  <<r, i, seen, w>> \in V
  <2>1. ASSUME NEW Q \in SUBSET AllVisits, ClosedVisits(Q, defs, roles)
        PROVE  <<r, i, seen, w>> \in Q
    <3>1. /\ <<r, i - 1, seen, v>> \in Q
          /\ <<Parent(defs, r, i), From(defs, roles, Parent(defs, r, i)),
               v \cup {Parent(defs, r, i)}, w>> \in Q
      BY <1>3, <1>b, <2>1
    <3> QED
      BY <1>3, <2>1, <3>1 DEF ClosedVisits
  <2> QED
    BY <1>a, <2>1
<1> QED
  BY <1>1, <1>2, <1>3

\* How a visit came about.
Derived(defs, roles, r, i, seen, x) ==
    \/ i \notin Parents(defs, r) /\ x = seen
    \/ /\ i \in Parents(defs, r)
       /\ \E v \in SUBSET Names :
              /\ <<r, i - 1, seen, v>> \in Visits(defs, roles)
              /\ \/ Parent(defs, r, i) \in v /\ x = v
                 \/ /\ Parent(defs, r, i) \notin v
                    /\ <<Parent(defs, r, i), From(defs, roles, Parent(defs, r, i)),
                         v \cup {Parent(defs, r, i)}, x>> \in Visits(defs, roles)

\* Every visit is there for one of the reasons that make one.
LEMMA VisitsDerived ==
    ASSUME NEW defs, NEW roles, Inherits(defs), NEW r, NEW i, NEW seen, NEW x,
           <<r, i, seen, x>> \in Visits(defs, roles)
    PROVE  Derived(defs, roles, r, i, seen, x)
<1> DEFINE V == Visits(defs, roles)
           Q == {q \in V : Derived(defs, roles, q[1], q[2], q[3], q[4])}
<1>1. Q \subseteq AllVisits
  BY DEF Visits
<1>2. \A a, b, c, d : <<a, b, c, d>> \in Q <=> <<a, b, c, d>> \in V /\ Derived(defs, roles, a, b, c, d)
  OBVIOUS
<1>3. ClosedVisits(V, defs, roles)
  BY VisitsClosed
<1>4. \A q \in V : q \in AllVisits
  BY DEF Visits
<1> HIDE DEF Q
<1>5. ClosedVisits(Q, defs, roles)
  <2> SUFFICES ASSUME NEW s \in Names, NEW j \in Nat, NEW before \in SUBSET Names
               PROVE  /\ j \notin Parents(defs, s) => <<s, j, before, before>> \in Q
                      /\ j \in Parents(defs, s) =>
                         \A v \in SUBSET Names : <<s, j - 1, before, v>> \in Q =>
                           /\ Parent(defs, s, j) \in v => <<s, j, before, v>> \in Q
                           /\ Parent(defs, s, j) \notin v =>
                              \A w \in SUBSET Names :
                                <<Parent(defs, s, j), From(defs, roles, Parent(defs, s, j)),
                                  v \cup {Parent(defs, s, j)}, w>> \in Q => <<s, j, before, w>> \in Q
    BY DEF ClosedVisits
  <2>1. ASSUME j \notin Parents(defs, s) PROVE <<s, j, before, before>> \in Q
    <3>1. <<s, j, before, before>> \in V
      BY <1>3, <2>1 DEF ClosedVisits
    <3>2. Derived(defs, roles, s, j, before, before)
      BY <2>1 DEF Derived
    <3> QED
      BY <1>2, <3>1, <3>2
  <2>2. ASSUME j \in Parents(defs, s), NEW v \in SUBSET Names, <<s, j - 1, before, v>> \in Q,
               Parent(defs, s, j) \in v
        PROVE  <<s, j, before, v>> \in Q
    <3>1. <<s, j - 1, before, v>> \in V
      BY <1>2, <2>2
    <3>2. <<s, j, before, v>> \in V
      BY <1>3, <2>2, <3>1 DEF ClosedVisits
    <3>3. Derived(defs, roles, s, j, before, v)
      BY <2>2, <3>1 DEF Derived
    <3> QED
      BY <1>2, <3>2, <3>3
  <2>3. ASSUME j \in Parents(defs, s), NEW v \in SUBSET Names, <<s, j - 1, before, v>> \in Q,
               Parent(defs, s, j) \notin v, NEW w \in SUBSET Names,
               <<Parent(defs, s, j), From(defs, roles, Parent(defs, s, j)),
                 v \cup {Parent(defs, s, j)}, w>> \in Q
        PROVE  <<s, j, before, w>> \in Q
    <3>1. /\ <<s, j - 1, before, v>> \in V
          /\ <<Parent(defs, s, j), From(defs, roles, Parent(defs, s, j)),
               v \cup {Parent(defs, s, j)}, w>> \in V
      BY <1>2, <2>3
    <3>2. <<s, j, before, w>> \in V
      BY <1>3, <2>3, <3>1 DEF ClosedVisits
    <3>3. Derived(defs, roles, s, j, before, w)
      BY <2>3, <3>1 DEF Derived
    <3> QED
      BY <1>2, <3>2, <3>3
  <2> QED
    BY <2>1, <2>2, <2>3
<1>6. <<r, i, seen, x>> \in Q
  BY <1>1, <1>5, VisitsLeast
<1> QED
  BY <1>2, <1>6

\* What was visited stays visited.
LEMMA VisitsGrow ==
    ASSUME NEW defs, NEW roles, Inherits(defs), NEW r, NEW i, NEW seen, NEW x,
           <<r, i, seen, x>> \in Visits(defs, roles)
    PROVE  /\ r \in Names /\ i \in Nat /\ seen \in SUBSET Names /\ x \in SUBSET Names
           /\ seen \subseteq x
<1> DEFINE Q == {q \in AllVisits : q[3] \subseteq q[4]}
<1>1. \A a, b, c, d : <<a, b, c, d>> \in Q <=>
          a \in Names /\ b \in Nat /\ c \in SUBSET Names /\ d \in SUBSET Names /\ c \subseteq d
  BY DEF AllVisits
<1>2. Q \subseteq AllVisits
  OBVIOUS
<1> HIDE DEF Q
<1>3. ClosedVisits(Q, defs, roles)
  BY <1>1 DEF ClosedVisits
<1> QED
  BY <1>1, <1>2, <1>3, VisitsLeast

-----------------------------------------------------------------------------
(* The walk *)

Ends(defs, roles, r, i, seen, x) ==
    /\ x \in SUBSET Names /\ <<r, i, seen, x>> \in Visits(defs, roles)
    /\ \A y : <<r, i, seen, y>> \in Visits(defs, roles) => y = x

\* Each visit ends, and in one way.
LEMMA VisitsEnd ==
    ASSUME NEW defs, NEW roles, Inherits(defs),
           NEW r \in Names, NEW i \in Nat, NEW seen \in SUBSET Names
    PROVE  \E x : Ends(defs, roles, r, i, seen, x)
<1> DEFINE V == Visits(defs, roles)
           S == {d \in Places : \E x : Ends(defs, roles, d[1], d[2], d[3], x)}
<1>1. \A a \in Names, b \in Nat, c \in SUBSET Names :
          <<a, b, c>> \in S <=> \E x : Ends(defs, roles, a, b, c, x)
  BY DEF Places
<1> HIDE DEF S
<1>2. ClosedVisits(V, defs, roles)
  BY VisitsClosed
<1>3. ASSUME NEW s \in Names, NEW j \in Nat, NEW before \in SUBSET Names,
             j \in Parents(defs, s) =>
                 /\ <<s, j - 1, before>> \in S
                 /\ \A v \in SUBSET Names :
                        before \subseteq v /\ Parent(defs, s, j) \notin v =>
                            <<Parent(defs, s, j), From(defs, roles, Parent(defs, s, j)),
                              v \cup {Parent(defs, s, j)}>> \in S
      PROVE  \E x : Ends(defs, roles, s, j, before, x)
  <2>1. CASE j \notin Parents(defs, s)
    <3>1. <<s, j, before, before>> \in V
      BY <1>2, <2>1 DEF ClosedVisits
    <3>2. ASSUME NEW y, <<s, j, before, y>> \in V PROVE y = before
      <4>1. Derived(defs, roles, s, j, before, y)
        BY <3>2, VisitsDerived
      <4> QED
        BY <2>1, <4>1 DEF Derived
    <3>3. Ends(defs, roles, s, j, before, before)
      BY <3>1, <3>2 DEF Ends
    <3> QED
      BY <3>3
  <2>2. CASE j \in Parents(defs, s)
    <3> DEFINE p == Parent(defs, s, j)
               f == From(defs, roles, p)
    <3>0. p \in Names /\ f \in Nat /\ j - 1 \in Nat
      BY <2>2, ParentTyped
    <3>1. PICK v : Ends(defs, roles, s, j - 1, before, v)
      BY <1>1, <1>3, <2>2, <3>0
    <3>2. v \in SUBSET Names /\ <<s, j - 1, before, v>> \in V /\ before \subseteq v
      BY <3>1, VisitsGrow DEF Ends
    <3>3. CASE p \in v
      <4>1. <<s, j, before, v>> \in V
        BY <1>2, <2>2, <3>2, <3>3 DEF ClosedVisits
      <4>2. ASSUME NEW y, <<s, j, before, y>> \in V PROVE y = v
        <5>1. Derived(defs, roles, s, j, before, y)
          BY <4>2, VisitsDerived
        <5>2. PICK u \in SUBSET Names :
                  /\ <<s, j - 1, before, u>> \in V
                  /\ (p \in u /\ y = u) \/ p \notin u
          BY <2>2, <5>1 DEF Derived
        <5>3. u = v
          BY <3>1, <5>2 DEF Ends
        <5> QED
          BY <3>3, <5>2, <5>3
      <4>3. Ends(defs, roles, s, j, before, v)
        BY <3>2, <4>1, <4>2 DEF Ends
      <4> QED
        BY <4>3
    <3>4. CASE p \notin v
      <4>1. <<p, f, v \cup {p}>> \in S
        BY <1>3, <2>2, <3>2, <3>4
      <4>2. PICK w : Ends(defs, roles, p, f, v \cup {p}, w)
        <5>1. v \cup {p} \in SUBSET Names
          BY <3>0, <3>2
        <5> QED
          BY <1>1, <3>0, <4>1, <5>1
      <4>3. w \in SUBSET Names /\ <<p, f, v \cup {p}, w>> \in V
        BY <4>2 DEF Ends
      <4>4. <<s, j, before, w>> \in V
        BY <1>2, <2>2, <3>2, <3>4, <4>3 DEF ClosedVisits
      <4>5. ASSUME NEW y, <<s, j, before, y>> \in V PROVE y = w
        <5>1. Derived(defs, roles, s, j, before, y)
          BY <4>5, VisitsDerived
        <5>2. PICK u \in SUBSET Names :
                  /\ <<s, j - 1, before, u>> \in V
                  /\ p \in u \/ (p \notin u /\ <<p, f, u \cup {p}, y>> \in V)
          BY <2>2, <5>1 DEF Derived
        <5>3. u = v
          BY <3>1, <5>2 DEF Ends
        <5>4. <<p, f, v \cup {p}, y>> \in V
          BY <3>4, <5>2, <5>3
        <5> QED
          BY <4>2, <5>4 DEF Ends
      <4>6. Ends(defs, roles, s, j, before, w)
        BY <4>3, <4>4, <4>5 DEF Ends
      <4> QED
        BY <4>6
    <3> QED
      BY <3>3, <3>4
  <2> QED
    BY <2>1, <2>2
<1>4. <<r, i, seen>> \in S
  <2>1. \A s \in Names, j \in Nat, before \in SUBSET Names :
            (j \in Parents(defs, s) =>
                 /\ <<s, j - 1, before>> \in S
                 /\ \A v \in SUBSET Names :
                        before \subseteq v /\ Parent(defs, s, j) \notin v =>
                            <<Parent(defs, s, j), From(defs, roles, Parent(defs, s, j)),
                              v \cup {Parent(defs, s, j)}>> \in S)
            => <<s, j, before>> \in S
    BY <1>1, <1>3
  <2> QED
    BY <2>1, WalkInduction
<1> QED
  BY <1>1, <1>4

\* One visit in terms of others, as the definition of walk has it.
OneVisit(f, defs, roles, r, i, seen) ==
    IF i \notin Parents(defs, r) THEN seen
    ELSE IF Parent(defs, r, i) \in f[<<r, i - 1, seen>>] THEN f[<<r, i - 1, seen>>]
    ELSE f[<<Parent(defs, r, i), From(defs, roles, Parent(defs, r, i)),
             f[<<r, i - 1, seen>>] \cup {Parent(defs, r, i)}>>]

IsWalk(f, defs, roles) == f = [at \in Places |-> OneVisit(f, defs, roles, at[1], at[2], at[3])]

\* There is such a function: the end of each visit.
LEMMA WalkExists ==
    ASSUME NEW defs, NEW roles, Inherits(defs) PROVE \E f : IsWalk(f, defs, roles)
<1> DEFINE V == Visits(defs, roles)
           f == [at \in Places |-> CHOOSE x : Ends(defs, roles, at[1], at[2], at[3], x)]
<1>1. \A r \in Names, i \in Nat, seen \in SUBSET Names :
          Ends(defs, roles, r, i, seen, f[<<r, i, seen>>])
  <2> SUFFICES ASSUME NEW r \in Names, NEW i \in Nat, NEW seen \in SUBSET Names
               PROVE  Ends(defs, roles, r, i, seen, f[<<r, i, seen>>])
    OBVIOUS
  <2>1. f[<<r, i, seen>>] = CHOOSE x : Ends(defs, roles, r, i, seen, x)
    BY DEF Places
  <2>2. \E x : Ends(defs, roles, r, i, seen, x)
    BY VisitsEnd
  <2>3. Ends(defs, roles, r, i, seen, CHOOSE x : Ends(defs, roles, r, i, seen, x))
    BY <2>2
  <2> QED
    BY <2>1, <2>3
<1>2. f \in [Places -> SUBSET Names]
  <2>1. \A at \in Places : f[at] \in SUBSET Names
    <3> SUFFICES ASSUME NEW at \in Places PROVE f[at] \in SUBSET Names
      OBVIOUS
    <3>1. PICK r \in Names, i \in Nat, seen \in SUBSET Names : at = <<r, i, seen>>
      BY DEF Places
    <3> HIDE DEF f
    <3> QED
      BY <1>1, <3>1 DEF Ends
  <2> QED
    BY <2>1
<1>3. f = [at \in Places |-> f[at]]
  OBVIOUS
<1> HIDE DEF f
<1>4. ClosedVisits(V, defs, roles)
  BY VisitsClosed
<1>5. ASSUME NEW at \in Places PROVE f[at] = OneVisit(f, defs, roles, at[1], at[2], at[3])
  <2>1. PICK r \in Names, i \in Nat, seen \in SUBSET Names : at = <<r, i, seen>>
    BY DEF Places
  <2>2. at[1] = r /\ at[2] = i /\ at[3] = seen
    BY <2>1
  <2> DEFINE x == OneVisit(f, defs, roles, r, i, seen)
  <2>3. <<r, i, seen, x>> \in V
    <3>1. CASE i \notin Parents(defs, r)
      <4>1. x = seen
        BY <3>1 DEF OneVisit
      <4> QED
        BY <1>4, <3>1, <4>1 DEF ClosedVisits
    <3>2. CASE i \in Parents(defs, r)
      <4> DEFINE p == Parent(defs, r, i)
                 q == From(defs, roles, p)
                 v == f[<<r, i - 1, seen>>]
      <4>0. p \in Names /\ q \in Nat /\ i - 1 \in Nat
        BY <3>2, ParentTyped
      <4>1. v \in SUBSET Names /\ <<r, i - 1, seen, v>> \in V
        BY <1>1, <4>0 DEF Ends
      <4>2. CASE p \in v
        <5>1. x = v
          BY <3>2, <4>2 DEF OneVisit
        <5> HIDE DEF x, v
        <5> QED
          BY <1>4, <3>2, <4>1, <4>2, <5>1 DEF ClosedVisits
      <4>3. CASE p \notin v
        <5>1. x = f[<<p, q, v \cup {p}>>]
          BY <3>2, <4>3 DEF OneVisit
        <5>2. v \cup {p} \in SUBSET Names
          BY <4>0, <4>1
        <5>3. x \in SUBSET Names /\ <<p, q, v \cup {p}, x>> \in V
          BY <1>1, <4>0, <5>1, <5>2 DEF Ends
        <5> HIDE DEF x, v
        <5> QED
          BY <1>4, <3>2, <4>1, <4>3, <5>3 DEF ClosedVisits
      <4> QED
        BY <4>2, <4>3
    <3> QED
      BY <3>1, <3>2
  <2> HIDE DEF x
  <2>4. f[<<r, i, seen>>] = x
    BY <1>1, <2>3 DEF Ends
  <2> QED
    BY <2>1, <2>2, <2>4 DEF x
<1>6. [at \in Places |-> f[at]] = [at \in Places |-> OneVisit(f, defs, roles, at[1], at[2], at[3])]
  BY <1>5
<1>7. IsWalk(f, defs, roles)
  BY <1>3, <1>6 DEF IsWalk
<1> QED
  BY <1>7

\* The recursive walk satisfies its equation.
LEMMA WalkDefined ==
    ASSUME NEW defs, NEW roles, Inherits(defs) PROVE IsWalk(Walk(defs, roles), defs, roles)
<1> DEFINE Is(f) == f = [at \in Places |-> OneVisit(f, defs, roles, at[1], at[2], at[3])]
<1>1. PICK g : Is(g)
  BY WalkExists DEF IsWalk
<1>2. Walk(defs, roles) = CHOOSE f : Is(f)
  BY DEF Walk, OneVisit, Places, Parents, Parent, From
<1> HIDE DEF Is
<1>3. Is(CHOOSE f : Is(f))
  BY <1>1
<1> QED
  BY <1>2, <1>3 DEF Is, IsWalk

\* The walk makes the visits.
LEMMA WalkVisits ==
    ASSUME NEW defs, NEW roles, Inherits(defs),
           NEW r \in Names, NEW i \in Nat, NEW seen \in SUBSET Names
    PROVE  <<r, i, seen, Walk(defs, roles)[<<r, i, seen>>]>> \in Visits(defs, roles)
<1> DEFINE V == Visits(defs, roles)
           f == Walk(defs, roles)
           S == {d \in Places : <<d[1], d[2], d[3], f[d]>> \in V}
<1>1. \A a \in Names, b \in Nat, c \in SUBSET Names :
          <<a, b, c>> \in S <=> <<a, b, c, f[<<a, b, c>>]>> \in V
  BY DEF Places
<1> HIDE DEF S
<1>2. ClosedVisits(V, defs, roles)
  BY VisitsClosed
<1>3. \A a \in Names, b \in Nat, c \in SUBSET Names :
          f[<<a, b, c>>] = OneVisit(f, defs, roles, a, b, c)
  <2>1. f = [at \in Places |-> OneVisit(f, defs, roles, at[1], at[2], at[3])]
    BY WalkDefined DEF IsWalk
  <2> HIDE DEF f
  <2>2. \A at \in Places : f[at] = OneVisit(f, defs, roles, at[1], at[2], at[3])
    BY <2>1
  <2>3. \A a \in Names, b \in Nat, c \in SUBSET Names : <<a, b, c>> \in Places
    BY DEF Places
  <2> QED
    BY <2>2, <2>3
<1> HIDE DEF f
<1>4. ASSUME NEW s \in Names, NEW j \in Nat, NEW before \in SUBSET Names,
             j \in Parents(defs, s) =>
                 /\ <<s, j - 1, before>> \in S
                 /\ \A v \in SUBSET Names :
                        before \subseteq v /\ Parent(defs, s, j) \notin v =>
                            <<Parent(defs, s, j), From(defs, roles, Parent(defs, s, j)),
                              v \cup {Parent(defs, s, j)}>> \in S
      PROVE  <<s, j, before>> \in S
  <2>1. CASE j \notin Parents(defs, s)
    <3>1. f[<<s, j, before>>] = before
      BY <1>3, <2>1 DEF OneVisit
    <3>2. <<s, j, before, before>> \in V
      BY <1>2, <2>1 DEF ClosedVisits
    <3> QED
      BY <1>1, <3>1, <3>2
  <2>2. CASE j \in Parents(defs, s)
    <3> DEFINE p == Parent(defs, s, j)
               q == From(defs, roles, p)
               v == f[<<s, j - 1, before>>]
    <3>0. p \in Names /\ q \in Nat /\ j - 1 \in Nat
      BY <2>2, ParentTyped
    <3>1. <<s, j - 1, before, v>> \in V
      BY <1>1, <1>4, <2>2, <3>0
    <3>2. v \in SUBSET Names /\ before \subseteq v
      BY <3>1, VisitsGrow
    <3>3. CASE p \in v
      <4>1. f[<<s, j, before>>] = v
        BY <1>3, <2>2, <3>3 DEF OneVisit
      <4>2. <<s, j, before, v>> \in V
        BY <1>2, <2>2, <3>1, <3>2, <3>3 DEF ClosedVisits
      <4> QED
        BY <1>1, <4>1, <4>2
    <3>4. CASE p \notin v
      <4>1. f[<<s, j, before>>] = f[<<p, q, v \cup {p}>>]
        BY <1>3, <2>2, <3>4 DEF OneVisit
      <4>2. v \cup {p} \in SUBSET Names /\ <<p, q, v \cup {p}>> \in S
        BY <1>4, <2>2, <3>0, <3>2, <3>4
      <4> DEFINE w == f[<<p, q, v \cup {p}>>]
      <4>3. <<p, q, v \cup {p}, w>> \in V
        BY <1>1, <3>0, <4>2
      <4> HIDE DEF w, v
      <4>4. w \in SUBSET Names
        BY <4>3, VisitsGrow
      <4>5. <<s, j, before, w>> \in V
        BY <1>2, <2>2, <3>1, <3>2, <3>4, <4>3, <4>4 DEF ClosedVisits
      <4> QED
        BY <1>1, <4>1, <4>5 DEF w
    <3> QED
      BY <3>3, <3>4
  <2> QED
    BY <2>1, <2>2
<1>5. <<r, i, seen>> \in S
  BY <1>4, WalkInduction
<1> QED
  BY <1>1, <1>5 DEF f

-----------------------------------------------------------------------------
(* What is visited *)

\* A set of roles that has the parents of the declared ones among them.
ClosedRoles(C, defs, roles) ==
    \A n \in C \cap roles : \A k \in Parents(defs, n) : Parent(defs, n, k) \in C

\* Nothing is visited outside a closed set that has what it began with.
LEMMA VisitsStayInside ==
    ASSUME NEW defs, NEW roles, Inherits(defs), NEW C \in SUBSET Names,
           ClosedRoles(C, defs, roles), NEW r, NEW i, NEW seen, NEW x,
           <<r, i, seen, x>> \in Visits(defs, roles),
           seen \subseteq C, r \in C, r \in roles \/ i = 0
    PROVE  x \subseteq C
<1> DEFINE Starts(a, b, c) == c \subseteq C /\ a \in C /\ (a \in roles \/ b = 0)
           Q == {q \in AllVisits : Starts(q[1], q[2], q[3]) => q[4] \subseteq C}
<1>1. \A a, b, c, d : <<a, b, c, d>> \in Q <=>
          /\ a \in Names /\ b \in Nat /\ c \in SUBSET Names /\ d \in SUBSET Names
          /\ Starts(a, b, c) => d \subseteq C
  BY DEF AllVisits
<1>2. Q \subseteq AllVisits
  OBVIOUS
<1> HIDE DEF Q
<1>3. ClosedVisits(Q, defs, roles)
  <2> SUFFICES ASSUME NEW s \in Names, NEW j \in Nat, NEW before \in SUBSET Names
               PROVE  /\ j \notin Parents(defs, s) => <<s, j, before, before>> \in Q
                      /\ j \in Parents(defs, s) =>
                         \A v \in SUBSET Names : <<s, j - 1, before, v>> \in Q =>
                           /\ Parent(defs, s, j) \in v => <<s, j, before, v>> \in Q
                           /\ Parent(defs, s, j) \notin v =>
                              \A w \in SUBSET Names :
                                <<Parent(defs, s, j), From(defs, roles, Parent(defs, s, j)),
                                  v \cup {Parent(defs, s, j)}, w>> \in Q => <<s, j, before, w>> \in Q
    BY DEF ClosedVisits
  <2>1. ASSUME j \notin Parents(defs, s) PROVE <<s, j, before, before>> \in Q
    BY <1>1
  <2>2. ASSUME j \in Parents(defs, s), NEW v \in SUBSET Names, <<s, j - 1, before, v>> \in Q,
               Starts(s, j, before)
        PROVE  v \subseteq C /\ Parent(defs, s, j) \in C
    <3>1. j # 0 /\ s \in C \cap roles
      BY <2>2 DEF Parents
    <3> QED
      BY <1>1, <2>2, <3>1 DEF ClosedRoles
  <2>3. ASSUME j \in Parents(defs, s), NEW v \in SUBSET Names, <<s, j - 1, before, v>> \in Q
        PROVE  <<s, j, before, v>> \in Q
    BY <1>1, <2>2, <2>3
  <2>4. ASSUME j \in Parents(defs, s), NEW v \in SUBSET Names, <<s, j - 1, before, v>> \in Q,
               NEW w \in SUBSET Names,
               <<Parent(defs, s, j), From(defs, roles, Parent(defs, s, j)),
                 v \cup {Parent(defs, s, j)}, w>> \in Q
        PROVE  <<s, j, before, w>> \in Q
    <3> DEFINE p == Parent(defs, s, j)
    <3>1. ASSUME Starts(s, j, before) PROVE w \subseteq C
      <4>1. v \subseteq C /\ p \in C
        BY <2>2, <2>4, <3>1
      <4>2. p \in roles \/ From(defs, roles, p) = 0
        BY DEF From
      <4>3. Starts(p, From(defs, roles, p), v \cup {p})
        BY <4>1, <4>2
      <4> QED
        BY <1>1, <2>4, <4>3
    <3> QED
      BY <1>1, <3>1
  <2> QED
    BY <2>1, <2>3, <2>4
<1> QED
  BY <1>1, <1>2, <1>3, VisitsLeast

\* The parents of what a visit adds are visited, and those it was to go through.
LEMMA VisitsAreWhole ==
    ASSUME NEW defs, NEW roles, Inherits(defs), NEW r, NEW i, NEW seen, NEW x,
           <<r, i, seen, x>> \in Visits(defs, roles), i <= Len(defs[r].inherits)
    PROVE  /\ seen \subseteq x /\ x \in SUBSET Names
           /\ \A k \in 1..i : Parent(defs, r, k) \in x
           /\ \A n \in (x \ seen) \cap roles : \A k \in Parents(defs, n) : Parent(defs, n, k) \in x
<1> DEFINE Whole(a, b, c, d) ==
               /\ \A k \in 1..b : Parent(defs, a, k) \in d
               /\ \A n \in (d \ c) \cap roles : \A k \in Parents(defs, n) : Parent(defs, n, k) \in d
           Q == {q \in AllVisits : q[3] \subseteq q[4] /\
                     (q[2] <= Len(defs[q[1]].inherits) => Whole(q[1], q[2], q[3], q[4]))}
<1>1. \A a, b, c, d : <<a, b, c, d>> \in Q <=>
          /\ a \in Names /\ b \in Nat /\ c \in SUBSET Names /\ d \in SUBSET Names
          /\ c \subseteq d
          /\ b <= Len(defs[a].inherits) => Whole(a, b, c, d)
  BY DEF AllVisits
<1>2. Q \subseteq AllVisits
  OBVIOUS
<1> HIDE DEF Q
<1>3. ClosedVisits(Q, defs, roles)
  <2> SUFFICES ASSUME NEW s \in Names, NEW j \in Nat, NEW before \in SUBSET Names
               PROVE  /\ j \notin Parents(defs, s) => <<s, j, before, before>> \in Q
                      /\ j \in Parents(defs, s) =>
                         \A v \in SUBSET Names : <<s, j - 1, before, v>> \in Q =>
                           /\ Parent(defs, s, j) \in v => <<s, j, before, v>> \in Q
                           /\ Parent(defs, s, j) \notin v =>
                              \A w \in SUBSET Names :
                                <<Parent(defs, s, j), From(defs, roles, Parent(defs, s, j)),
                                  v \cup {Parent(defs, s, j)}, w>> \in Q => <<s, j, before, w>> \in Q
    BY DEF ClosedVisits
  <2>0. Len(defs[s].inherits) \in Nat
    BY ParentTyped
  <2>1. ASSUME j \notin Parents(defs, s) PROVE <<s, j, before, before>> \in Q
    <3>1. j <= Len(defs[s].inherits) => j = 0
      BY <2>0, <2>1 DEF Parents
    <3>2. j <= Len(defs[s].inherits) => Whole(s, j, before, before)
      BY <3>1
    <3> QED
      BY <1>1, <3>2
  <2>2. ASSUME j \in Parents(defs, s), NEW v \in SUBSET Names, <<s, j - 1, before, v>> \in Q
        PROVE  before \subseteq v /\ Whole(s, j - 1, before, v) /\ 1..j = (1..(j - 1)) \cup {j}
    <3>1. j - 1 <= Len(defs[s].inherits) /\ 1..j = (1..(j - 1)) \cup {j}
      BY <2>0, <2>2 DEF Parents
    <3> QED
      BY <1>1, <2>2, <3>1
  <2>3. ASSUME j \in Parents(defs, s), NEW v \in SUBSET Names, <<s, j - 1, before, v>> \in Q,
               Parent(defs, s, j) \in v
        PROVE  <<s, j, before, v>> \in Q
    <3>1. before \subseteq v /\ Whole(s, j - 1, before, v) /\ 1..j = (1..(j - 1)) \cup {j}
      BY <2>2, <2>3
    <3>2. Whole(s, j, before, v)
      BY <2>3, <3>1
    <3> QED
      BY <1>1, <3>1, <3>2
  <2>4. ASSUME j \in Parents(defs, s), NEW v \in SUBSET Names, <<s, j - 1, before, v>> \in Q,
               Parent(defs, s, j) \notin v, NEW w \in SUBSET Names,
               <<Parent(defs, s, j), From(defs, roles, Parent(defs, s, j)),
                 v \cup {Parent(defs, s, j)}, w>> \in Q
        PROVE  <<s, j, before, w>> \in Q
    <3> DEFINE p == Parent(defs, s, j)
               f == From(defs, roles, p)
    <3>0. p \in Names
      BY <2>4, ParentTyped
    <3>1. before \subseteq v /\ Whole(s, j - 1, before, v) /\ 1..j = (1..(j - 1)) \cup {j}
      BY <2>2, <2>4
    <3>2. f <= Len(defs[p].inherits)
      BY <3>0, ParentTyped DEF From
    <3>3. v \cup {p} \subseteq w /\ Whole(p, f, v \cup {p}, w)
      BY <1>1, <2>4, <3>2
    <3>4. \A k \in 1..j : Parent(defs, s, k) \in w
      BY <3>1, <3>3
    <3>5. ASSUME NEW n \in (w \ before) \cap roles, NEW k \in Parents(defs, n)
          PROVE  Parent(defs, n, k) \in w
      <4>1. CASE n \in v
        BY <3>1, <3>3, <3>5, <4>1
      <4>2. CASE n = p
        <5>1. f = Len(defs[p].inherits) /\ k \in 1..f
          BY <3>5, <4>2 DEF From, Parents
        <5> QED
          BY <3>3, <4>2, <5>1
      <4>3. CASE n \notin v \cup {p}
        BY <3>3, <3>5, <4>3
      <4> QED
        BY <4>1, <4>2, <4>3
    <3>6. before \subseteq w /\ Whole(s, j, before, w)
      BY <3>1, <3>3, <3>4, <3>5
    <3> QED
      BY <1>1, <3>6
  <2> QED
    BY <2>1, <2>3, <2>4
<1>4. <<r, i, seen, x>> \in Q
  BY <1>2, <1>3, VisitsLeast
<1> QED
  BY <1>1, <1>4

\* The roles collected from a declared role are its ancestors.
LEMMA CollectedAreAncestors ==
    ASSUME NEW p, p.roles \subseteq Names, Inherits(p.defs), NEW role \in p.roles
    PROVE  Collected(p.defs, p.roles, role) \cap p.roles = Ancestors(p, role)
<1> DEFINE defs == p.defs
           roles == p.roles
           W == Collected(defs, roles, role)
           n == Len(defs[role].inherits)
           Holds(S) == /\ role \in S
                       /\ \A r \in S : \A i \in 1..Len(defs[r].inherits) :
                              defs[r].inherits[i] \in roles => defs[r].inherits[i] \in S
<1>1. role \in Names /\ n \in Nat /\ {role} \in SUBSET Names
  BY ParentTyped
<1>2. <<role, n, {role}, W>> \in Visits(defs, roles)
  BY <1>1, WalkVisits DEF Collected
<1> HIDE DEF W
<1>3. n <= Len(defs[role].inherits)
  BY <1>1
<1>4. /\ {role} \subseteq W /\ W \in SUBSET Names
      /\ \A k \in 1..n : Parent(defs, role, k) \in W
      /\ \A m \in (W \ {role}) \cap roles : \A k \in Parents(defs, m) : Parent(defs, m, k) \in W
  BY <1>2, <1>3, VisitsAreWhole
<1>5. ClosedRoles(W, defs, roles)
  BY <1>4 DEF ClosedRoles, Parents
<1>6. Ancestors(p, role) = {r \in roles : \A S \in SUBSET roles : Holds(S) => r \in S}
  BY DEF Ancestors
<1>7. ASSUME NEW r \in W \cap roles, NEW S \in SUBSET roles, Holds(S) PROVE r \in S
  <2> DEFINE C == S \cup (Names \ roles)
  <2>1. C \in SUBSET Names /\ role \in C
    BY <1>7
  <2>2. ClosedRoles(C, defs, roles)
    <3> SUFFICES ASSUME NEW m \in C \cap roles, NEW k \in Parents(defs, m)
                 PROVE  Parent(defs, m, k) \in C
      BY DEF ClosedRoles
    <3>1. m \in S /\ Parent(defs, m, k) \in Names
      BY ParentTyped
    <3> QED
      BY <1>7, <3>1 DEF Parents, Parent
  <2>3. W \subseteq C
    BY <1>2, <2>1, <2>2, VisitsStayInside
  <2> QED
    BY <2>3
<1>8. Holds(W \cap roles)
  <2>1. ASSUME NEW r \in W \cap roles, NEW i \in 1..Len(defs[r].inherits),
               defs[r].inherits[i] \in roles
        PROVE  defs[r].inherits[i] \in W \cap roles
    BY <1>5, <2>1 DEF ClosedRoles, Parents, Parent
  <2> QED
    BY <1>4, <2>1
<1> HIDE DEF Holds
<1>9. W \cap roles = Ancestors(p, role)
  BY <1>6, <1>7, <1>8
<1> QED
  BY <1>9 DEF W

\* One role and one tool: what the walk allows is what the ancestors allow.
LEMMA AllowedIsReference ==
    ASSUME NEW p, p.roles \subseteq Names, Inherits(p.defs), NEW role, NEW tool
    PROVE  IsAllowed(p, role, tool) <=> MayCall(p, role, tool)
<1>1. CASE role \in p.roles
  <2>1. Collected(p.defs, p.roles, role) \cap p.roles = Ancestors(p, role)
    BY <1>1, CollectedAreAncestors
  <2> QED
    BY <2>1 DEF IsAllowed, MayCall
<1>2. CASE role \notin p.roles
  BY <1>2 DEF IsAllowed, MayCall
<1> QED
  BY <1>1, <1>2

-----------------------------------------------------------------------------
(* Types *)

PolicyTyped ==
    /\ policy \in [roles : SUBSET Names, default : Names, defs : [Names -> Definitions],
                   overrides : [Tools -> (SUBSET Names) \cup {NoOverride}]]
    /\ policy.default \in policy.roles

ConfigTyped ==
    /\ registry \in SUBSET Tools
    /\ hostRole \in Names \cup {None}
    /\ plugged \in 0..MaxPlugins

\* A handler runs for a tool of the registry.
RequestTyped ==
    /\ pc \in {"loading", "reading", "answering", "running", "stopped"}
    /\ request \in RequestType
    /\ pc = "running" => request.tool \in registry

AnswersTyped == lines \in 0..MaxRequests /\ answers \in Seq([to : 0..lines, with : Replies])

McpInv == PolicyTyped /\ ConfigTyped /\ RequestTyped /\ AnswersTyped

\* The proof's types imply the stated ones.
LEMMA McpInvTypes == McpInv => McpTypeOK
  BY DEF McpInv, PolicyTyped, ConfigTyped, RequestTyped, AnswersTyped, McpTypeOK

\* What a call can come to is a reply, unless it cannot be written.
LEMMA OutcomesAreReplies ==
    ASSUME NEW kind \in Kinds, NEW with \in Outcomes(kind) \ {"unwritable"}
    PROVE  with \in Replies
  BY DEF Kinds, Outcomes, CommandOutcomes, ProvenanceOutcomes, ResearchOutcomes,
     SupervisionOutcomes, InfrastructureOutcomes, GateOutcomes, Replies

\* A sequence over a set is one over a larger set.
LEMMA SeqOfMore ==
    ASSUME NEW S, NEW T, S \subseteq T, NEW s \in Seq(S) PROVE s \in Seq(T)
<1>1. Len(s) \in Nat /\ s \in [1..Len(s) -> S]
  OBVIOUS
<1>2. s \in [1..Len(s) -> T]
  BY <1>1
<1> QED
  BY <1>1, <1>2, IsASeq

\* Replying keeps the types.
LEMMA ReplyTyped ==
    ASSUME McpInv, NEW with \in Replies, Reply(with) PROVE McpInv'
<1>1. PolicyTyped' /\ ConfigTyped' /\ RequestTyped'
  BY DEF McpInv, PolicyTyped, ConfigTyped, RequestTyped, Reply, config
<1>2. [to |-> lines, with |-> with] \in [to : 0..lines, with : Replies]
  BY McpAssumption DEF McpInv, AnswersTyped
<1>3. AnswersTyped'
  BY <1>2 DEF McpInv, AnswersTyped, Reply
<1> QED
  BY <1>1, <1>3 DEF McpInv

\* What the policy of a payload is.
LEMMA PayloadTyped ==
    ASSUME NEW p \in Payloads PROVE
        /\ FromPayload(p) \in
               [roles : SUBSET Names, default : Names, defs : [Names -> Definitions],
                overrides : [Tools -> (SUBSET Names) \cup {NoOverride}]]
        /\ FromPayload(p).default \in FromPayload(p).roles
<1>1. p.roles \in SUBSET Names /\ p.default \in Names /\ p.defs \in [Names -> Definitions]
  BY DEF Payloads
<1>2. [allow |-> {}, deny |-> {}, all |-> FALSE, inherits |-> <<>>] \in Definitions
  BY DEF Definitions
<1>3. FromPayload(p).defs \in [Names -> Definitions]
  BY <1>1, <1>2 DEF FromPayload
<1>4. FromPayload(p).overrides \in [Tools -> (SUBSET Names) \cup {NoOverride}]
  BY DEF FromPayload
<1> QED
  BY <1>1, <1>3, <1>4 DEF FromPayload

\* The first state satisfies the types.
LEMMA McpInit ==
    ASSUME Init PROVE McpInv
<1>1. PolicyTyped
  BY PayloadTyped, McpAssumption DEF Init, PolicyTyped
<1>2. ConfigTyped
  BY McpAssumption DEF Init, ConfigTyped
<1>3. RequestTyped
  BY DEF Init, RequestTyped, NoRequest, RequestType
<1>4. AnswersTyped
  BY McpAssumption DEF Init, AnswersTyped
<1> QED
  BY <1>1, <1>2, <1>3, <1>4 DEF McpInv

\* Every step keeps the types.
LEMMA McpStep ==
    ASSUME McpInv, [Next]_vars PROVE McpInv'
<1>0. PolicyTyped /\ ConfigTyped /\ RequestTyped /\ AnswersTyped
  BY DEF McpInv
<1>1. ASSUME NEW a \in PluginTools, RegisterTool(a[1], a[2]) PROVE McpInv'
  <2>1. a[1] \in Tools /\ a[2] \in SUBSET Names
    BY McpAssumption
  <2>2. plugged + 1 \in 0..MaxPlugins
    BY <1>0, <1>1, McpAssumption DEF RegisterTool, ConfigTyped
  <2> DEFINE roles == Override(a[1], a[2] \cap policy.roles)
  <2>3. policy' = [policy EXCEPT !.overrides[a[1]] = roles]
    BY <1>1 DEF RegisterTool
  <2>4. roles \in (SUBSET Names) \cup {NoOverride}
    BY <2>1 DEF Override
  <2> HIDE DEF roles
  <2>5. PolicyTyped'
    BY <1>0, <2>1, <2>3, <2>4 DEF PolicyTyped
  <2>6. ConfigTyped'
    BY <1>0, <1>1, <2>1, <2>2 DEF RegisterTool, ConfigTyped
  <2>7. RequestTyped' /\ AnswersTyped'
    BY <1>0, <1>1 DEF RegisterTool, RequestTyped, AnswersTyped
  <2> QED
    BY <2>5, <2>6, <2>7 DEF McpInv
<1>2. ASSUME NEW a \in PluginRoles, RegisterRole(a[1], a[2]) PROVE McpInv'
  <2>1. a[1] \in Names /\ a[2] \in Definitions
    BY McpAssumption
  <2>2. plugged + 1 \in 0..MaxPlugins
    BY <1>0, <1>2, McpAssumption DEF RegisterRole, ConfigTyped
  <2>3. policy' = [policy EXCEPT !.roles = @ \cup {a[1]}, !.defs[a[1]] = a[2]]
    BY <1>2 DEF RegisterRole
  <2>5. PolicyTyped'
    BY <1>0, <2>1, <2>3 DEF PolicyTyped
  <2>6. ConfigTyped'
    BY <1>0, <1>2, <2>2 DEF RegisterRole, ConfigTyped
  <2>7. RequestTyped' /\ AnswersTyped'
    BY <1>0, <1>2 DEF RegisterRole, RequestTyped, AnswersTyped
  <2> QED
    BY <2>5, <2>6, <2>7 DEF McpInv
<1>3. CASE EndLoading \/ Stop \/ ReadValue \/ CannotWrite \/ Execute
  BY <1>0, <1>3 DEF McpInv, EndLoading, Stop, ReadValue, CannotWrite, Execute, config,
     PolicyTyped, ConfigTyped, RequestTyped, AnswersTyped
<1>4. ASSUME NEW r \in Requests, ReadLine(r) PROVE McpInv'
  <2>1. lines \in Nat /\ lines' = lines + 1 /\ lines' \in 0..MaxRequests
    BY <1>0, <1>4, McpAssumption DEF ReadLine, AnswersTyped
  <2>2. [to : 0..lines, with : Replies] \subseteq [to : 0..lines', with : Replies]
    BY <2>1
  <2>3. AnswersTyped'
    <3>1. UNCHANGED answers
      BY <1>4 DEF ReadLine
    <3>2. answers \in Seq([to : 0..lines', with : Replies])
      <4>1. answers \in Seq([to : 0..lines, with : Replies])
        BY <1>0 DEF AnswersTyped
      <4> QED
        BY <2>2, <4>1, SeqOfMore
    <3> QED
      BY <2>1, <3>1, <3>2 DEF AnswersTyped
  <2>4. PolicyTyped' /\ ConfigTyped' /\ RequestTyped'
    BY <1>0, <1>4, McpAssumption DEF ReadLine, config, PolicyTyped, ConfigTyped, RequestTyped
  <2> QED
    BY <2>3, <2>4 DEF McpInv
<1>5. CASE ListTools \/ Refuse \/ AnswerError
  <2>1. PICK with \in Replies : Reply(with)
    BY <1>5 DEF ListTools, Refuse, AnswerError, Replies
  <2> QED
    BY <2>1, ReplyTyped
<1>6. CASE Finish
  <2>1. PICK with \in Outcomes(KindOf[request.tool]) \ {"unwritable"} : Reply(with)
    BY <1>6 DEF Finish
  <2>2. KindOf[request.tool] \in Kinds
    BY <1>0, <1>6, McpAssumption DEF Finish, RequestTyped, ConfigTyped
  <2>3. with \in Replies
    BY <2>2, OutcomesAreReplies
  <2> QED
    BY <2>1, <2>3, ReplyTyped
<1>7. CASE UNCHANGED vars
  BY <1>0, <1>7 DEF McpInv, vars, config, PolicyTyped, ConfigTyped, RequestTyped, AnswersTyped
<1> QED
  BY <1>1, <1>2, <1>3, <1>4, <1>5, <1>6, <1>7 DEF Next, Handle

\* The types hold of every run of the server.
LEMMA McpInvariant == Spec => []McpInv
<1>1. Init => McpInv
  BY McpInit
<1>2. McpInv /\ [Next]_vars => McpInv'
  BY McpStep
<1> QED
  BY <1>1, <1>2, PTL DEF Spec

\* Policy, registry, requests and answers keep their types, whatever plugins
\* register and clients send.
THEOREM McpTypes == Spec => []McpTypeOK
  BY McpInvariant, McpInvTypes, PTL

\* Whatever roles inherit from each other, in circles or from roles nobody
\* declared, the walk with its shared set of visited roles grants what the
\* ancestors do and lets any denial among them prevail (access.py:31-82).
THEOREM PolicyMatchesReference == Spec => []PolicyIsItsReference
<1>1. McpInv => PolicyIsItsReference
  <2> SUFFICES ASSUME PolicyTyped PROVE PolicyIsItsReference
    BY DEF McpInv
  <2>1. policy.roles \subseteq Names /\ policy.defs \in [Names -> Definitions]
    BY DEF PolicyTyped
  <2>2. Inherits(policy.defs)
    BY <2>1 DEF Inherits, Definitions
  <2> QED
    BY <2>1, <2>2, AllowedIsReference DEF PolicyIsItsReference
<1> QED
  BY <1>1, McpInvariant, PTL

-----------------------------------------------------------------------------
(* Answers *)

\* Between two lines every line has its answer; the line in hand has none.
AnswersInv ==
    /\ \A i \in 1..Len(answers) : answers[i].to = i
    /\ pc = "loading" => lines = 0
    /\ pc \in {"loading", "reading"} => Len(answers) = lines
    /\ pc \in {"answering", "running"} => Len(answers) + 1 = lines
    /\ lines - Len(answers) \in {0, 1}

\* Every step keeps one answer for each line, in order.
LEMMA AnswersStep ==
    ASSUME McpInv, AnswersInv, [Next]_vars PROVE AnswersInv'
<1>0. lines \in Nat /\ answers \in Seq([to : 0..lines, with : Replies]) /\ Len(answers) \in Nat
  BY McpAssumption DEF McpInv, AnswersTyped
<1>1. ASSUME NEW with, Reply(with), pc \in {"answering", "running"} PROVE AnswersInv'
  <2> DEFINE one == [to |-> lines, with |-> with]
  <2>1. answers' = Append(answers, one) /\ lines' = lines /\ pc' = "reading"
    BY <1>1 DEF Reply
  <2>2. Len(answers) + 1 = lines
    BY <1>1 DEF AnswersInv
  <2>3. /\ Len(answers') = Len(answers) + 1
        /\ \A i \in 1..Len(answers) : answers'[i] = answers[i]
        /\ answers'[Len(answers) + 1] = one
    BY <1>0, <2>1
  <2>4. one.to = lines
    OBVIOUS
  <2> HIDE DEF one
  <2>5. ASSUME NEW i \in 1..Len(answers') PROVE answers'[i].to = i
    <3>1. CASE i \in 1..Len(answers)
      BY <2>3, <3>1 DEF AnswersInv
    <3>2. CASE i = Len(answers) + 1
      BY <2>2, <2>3, <2>4, <3>2
    <3> QED
      BY <1>0, <2>3, <3>1, <3>2
  <2> QED
    BY <1>0, <2>1, <2>2, <2>3, <2>5 DEF AnswersInv
<1>2. ASSUME NEW r, ReadLine(r) PROVE AnswersInv'
  <2>1. UNCHANGED answers /\ lines' = lines + 1 /\ pc = "reading" /\ pc' = "answering"
    BY <1>2 DEF ReadLine
  <2> QED
    BY <1>0, <2>1 DEF AnswersInv
<1>3. ASSUME UNCHANGED <<answers, lines>>,
             \/ UNCHANGED pc
             \/ pc = "loading" /\ pc' \in {"reading", "stopped"}
             \/ pc' = "stopped"
             \/ pc = "answering" /\ pc' = "running"
      PROVE  AnswersInv'
  BY <1>0, <1>3 DEF AnswersInv
<1>4. ASSUME NEW a, NEW b, RegisterTool(a, b) \/ RegisterRole(a, b) PROVE AnswersInv'
  BY <1>3, <1>4 DEF RegisterTool, RegisterRole
<1>5. CASE EndLoading \/ Stop \/ ReadValue \/ CannotWrite \/ Execute \/ UNCHANGED vars
  BY <1>3, <1>5 DEF EndLoading, Stop, ReadValue, CannotWrite, Execute, vars
<1>6. CASE ListTools \/ Refuse \/ AnswerError \/ Finish
  <2>1. PICK with : Reply(with)
    BY <1>6 DEF ListTools, Refuse, AnswerError, Finish
  <2>2. pc \in {"answering", "running"}
    BY <1>6 DEF ListTools, Refuse, AnswerError, Finish
  <2> QED
    BY <1>1, <2>1, <2>2
<1> QED
  BY <1>2, <1>4, <1>5, <1>6 DEF Next, Handle

\* Each line is answered once and in order, and only the line that ended the
\* server goes without (server.py:190-330).
THEOREM EveryLineHasItsAnswer == Spec => []OneAnswerEach
<1>1. Init => AnswersInv
  <2> SUFFICES ASSUME Init PROVE AnswersInv
    OBVIOUS
  <2>1. pc = "loading" /\ lines = 0
    BY DEF Init
  <2>2. Len(answers) = 0
    <3>1. answers = <<>>
      BY DEF Init
    <3> QED
      BY <3>1
  <2>3. \A i \in 1..Len(answers) : answers[i].to = i
    <3>1. \A i \in 1..Len(answers) : FALSE
      BY <2>2
    <3> QED
      BY <3>1
  <2>4. pc = "loading" /\ lines = Len(answers) /\ lines - Len(answers) = 0
    BY <2>1, <2>2
  <2> QED
    BY <2>1, <2>3, <2>4 DEF AnswersInv
<1>2. McpInv /\ AnswersInv /\ [Next]_vars => AnswersInv'
  BY AnswersStep
<1>3. AnswersInv => OneAnswerEach
  BY DEF AnswersInv, OneAnswerEach
<1> QED
  BY <1>1, <1>2, <1>3, McpInvariant, PTL DEF Spec

=============================================================================
