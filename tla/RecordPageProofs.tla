-------------------------- MODULE RecordPageProofs --------------------------
(***************************************************************************)
(* The pages of the record table: the types of the tables, criteria and    *)
(* queries, and that a settled later page shows records, for every set of  *)
(* records, page size and search panel.  Both rest on the ranks of a       *)
(* finite set being the numbers below its cardinality, once each.          *)
(***************************************************************************)
EXTENDS RecordLookupProofs, FiniteSetTheorems, SequenceTheorems

----------------------------------------------------------------------------
(* Ranks and sublists.                                                     *)

Before(s, r, order) == IF order = "asc" THEN s < r ELSE r < s
Below(r, R, order) == {s \in R : Before(s, r, order)}

\* A rank is a number below the cardinality.
LEMMA RankBound ==
  ASSUME NEW R \in SUBSET Nat, IsFiniteSet(R), NEW order, NEW r \in R
  PROVE  /\ IsFiniteSet(Below(r, R, order))
         /\ Rank(r, R, order) = Cardinality(Below(r, R, order))
         /\ Rank(r, R, order) \in 0 .. Cardinality(R) - 1
<1> DEFINE B == Below(r, R, order)
<1>1. B \subseteq R /\ r \notin B
  BY DEF Below, Before
<1>2. IsFiniteSet(B) /\ Cardinality(B) <= Cardinality(R) /\ Cardinality(B) # Cardinality(R)
  BY <1>1, FS_Subset
<1>3. Cardinality(B) \in Nat /\ Cardinality(R) \in Nat
  BY <1>2, FS_CardinalityType
<1>4. Rank(r, R, order) = Cardinality(B)
  BY DEF Rank, Below, Before
<1> HIDE DEF B
<1>5. Cardinality(B) \in 0 .. Cardinality(R) - 1
  BY <1>2, <1>3
<1> QED
  BY <1>2, <1>4, <1>5 DEF B

\* A record before another has a lower rank.
LEMMA RankGrows ==
  ASSUME NEW R \in SUBSET Nat, IsFiniteSet(R), NEW order, NEW r \in R, NEW s \in R,
         Before(s, r, order)
  PROVE  Rank(s, R, order) < Rank(r, R, order)
<1> DEFINE B == Below(r, R, order)
           C == Below(s, R, order)
<1>1. C \in SUBSET B /\ C # B
  <2>1. \A x \in R : x \in Int
    OBVIOUS
  <2>2. \A x \in R : Before(x, s, order) => Before(x, r, order)
    BY <2>1 DEF Before
  <2>3. ~Before(s, s, order)
    BY <2>1 DEF Before
  <2>4. C \subseteq B /\ s \in B /\ s \notin C
    BY <2>2, <2>3 DEF Below
  <2> QED
    BY <2>4
<1>2. IsFiniteSet(B) /\ IsFiniteSet(C)
  BY RankBound
<1> HIDE DEF B, C
<1>3. Cardinality(C) <= Cardinality(B) /\ Cardinality(C) # Cardinality(B)
  BY <1>1, <1>2, FS_Subset
<1>4. Cardinality(C) \in Nat /\ Cardinality(B) \in Nat
  BY <1>2, FS_CardinalityType
<1>5. Rank(r, R, order) = Cardinality(B) /\ Rank(s, R, order) = Cardinality(C)
  BY RankBound DEF B, C
<1> QED
  BY <1>3, <1>4, <1>5

\* Every number below the cardinality is the rank of a record.
LEMMA RankExists ==
  ASSUME NEW R \in SUBSET Nat, IsFiniteSet(R), NEW order, NEW k \in Nat, k < Cardinality(R)
  PROVE  \E r \in R : Rank(r, R, order) = k
<1> DEFINE n == Cardinality(R)
           ranks == 0 .. n - 1
           f == [r \in R |-> Rank(r, R, order)]
<1>1. n \in Nat
  BY FS_CardinalityType
<1>2. IsFiniteSet(ranks) /\ Cardinality(ranks) = n
  <2>1. 0 \in Int /\ n - 1 \in Int
    BY <1>1
  <2>2. IsFiniteSet(ranks) /\ Cardinality(ranks) = IF 0 > n - 1 THEN 0 ELSE (n - 1) - 0 + 1
    BY <2>1, FS_Interval
  <2> HIDE DEF n, ranks
  <2> QED
    BY <1>1, <2>2
<1>3. f \in [R -> ranks]
  BY RankBound
<1>4. \A r, s \in R : f[r] = f[s] => r = s
  <2> SUFFICES ASSUME NEW r \in R, NEW s \in R, r # s PROVE f[r] # f[s]
    OBVIOUS
  <2>1. Before(r, s, order) \/ Before(s, r, order)
    BY DEF Before
  <2>2. f[r] \in Int /\ f[s] \in Int
    BY <1>3
  <2>3. f[r] = Rank(r, R, order) /\ f[s] = Rank(s, R, order)
    OBVIOUS
  <2> HIDE DEF f
  <2>4. f[r] < f[s] \/ f[s] < f[r]
    BY <2>1, <2>3, RankGrows
  <2> QED
    BY <2>2, <2>4
<1> HIDE DEF f
<1>5. f \in Injection(R, ranks)
  BY <1>3, <1>4 DEF Injection, IsInjective
<1>6. f \in Surjection(R, ranks)
  <2> HIDE DEF ranks, n
  <2> QED
    BY <1>2, <1>5, FS_Injection DEF n
<1>7. k \in ranks
  BY <1>1
<1>8. PICK r \in R : f[r] = k
  BY <1>6, <1>7 DEF Surjection
<1> QED
  BY <1>8 DEF f

\* A sublist is a list of items of the list.
LEMMA SublistItems ==
  ASSUME NEW X, NEW s \in Seq(X), NEW keep \in SUBSET DOMAIN s
  PROVE  /\ Sublist(s, keep) \in Seq(X)
         /\ \A n \in DOMAIN Sublist(s, keep) :
              \E i \in keep : Sublist(s, keep)[n] = s[i]
<1> DEFINE k == Cardinality(keep)
           at(n) == CHOOSE i \in keep : Rank(i, keep, "asc") = n - 1
<1>1. Len(s) \in Nat /\ DOMAIN s = 1 .. Len(s) /\ \A i \in DOMAIN s : s[i] \in X
  BY LenProperties
<1>2. IsFiniteSet(keep) /\ keep \in SUBSET Nat
  <2>1. IsFiniteSet(1 .. Len(s))
    BY <1>1, FS_Interval
  <2> QED
    BY <1>1, <2>1, FS_Subset
<1>3. k \in Nat
  BY <1>2, FS_CardinalityType
<1>4. ASSUME NEW n \in 1..k PROVE at(n) \in keep
  <2>1. n - 1 \in Nat /\ n - 1 < Cardinality(keep)
    BY <1>3
  <2>2. \E i \in keep : Rank(i, keep, "asc") = n - 1
    BY <1>2, <2>1, RankExists
  <2> QED
    BY <2>2
<1>5. Sublist(s, keep) = [n \in 1..k |-> s[at(n)]]
  BY DEF Sublist
<1> HIDE DEF at, k
<1>6. Sublist(s, keep) \in [1..k -> X]
  BY <1>1, <1>4, <1>5
<1>7. Sublist(s, keep) \in Seq(X)
  BY <1>3, <1>6, SeqDef
<1>8. \A n \in DOMAIN Sublist(s, keep) : Sublist(s, keep)[n] = s[at(n)] /\ at(n) \in keep
  BY <1>4, <1>5
<1> QED
  BY <1>7, <1>8
----------------------------------------------------------------------------
(* The restrictions.                                                       *)

\* The restrictions that stay are restrictions that were there.
LEMMA WithoutPropertyItems ==
  ASSUME NEW s \in Seq(Restriction), NEW p
  PROVE  /\ WithoutProperty(s, p) \in Seq(Restriction)
         /\ \A n \in DOMAIN WithoutProperty(s, p) :
              \E i \in DOMAIN s : WithoutProperty(s, p)[n] = s[i]
<1> DEFINE keep == {i \in DOMAIN s : s[i].prop # p}
<1>1. keep \in SUBSET DOMAIN s
  OBVIOUS
<1>2. WithoutProperty(s, p) = Sublist(s, keep)
  BY DEF WithoutProperty
<1> HIDE DEF keep
<1>3. /\ Sublist(s, keep) \in Seq(Restriction)
      /\ \A n \in DOMAIN Sublist(s, keep) : \E i \in keep : Sublist(s, keep)[n] = s[i]
  BY <1>1, SublistItems
<1> QED
  BY <1>1, <1>2, <1>3

LEMMA KeptType ==
  ASSUME NEW s \in Seq(Restriction)
  PROVE  Kept(s) \in Seq(Restriction)
<1>1. \A f : {i \in DOMAIN s : ~f[i]} \in SUBSET DOMAIN s
  OBVIOUS
<1>2. \A f : Sublist(s, {i \in DOMAIN s : ~f[i]}) \in Seq(Restriction)
  BY <1>1, SublistItems
<1> QED
  BY <1>2, Zenon DEF Kept

LEMMA SearchRestrictionsType ==
  ASSUME NEW vals \in [SearchProps -> Args \cup {NoArg}]
  PROVE  SearchRestrictions(vals) \in Seq(Restriction)
<1> DEFINE keep == {i \in DOMAIN SearchPanel : vals[SearchPanel[i]] # NoArg}
           filled == Sublist(SearchPanel, keep)
<1>1. keep \in SUBSET DOMAIN SearchPanel
  OBVIOUS
<1>2. \A i \in DOMAIN SearchPanel : SearchPanel[i] \in SearchProps
  BY DEF SearchProps
<1> HIDE DEF keep
<1>3. filled \in Seq(SearchProps)
  BY <1>1, SublistItems, SearchPanelAssumption
<1>4. \A n \in DOMAIN filled : \E i \in keep : filled[n] = SearchPanel[i]
  BY <1>1, SublistItems, SearchPanelAssumption
<1>5. \A n \in DOMAIN filled : filled[n] \in SearchProps /\ vals[filled[n]] \in Args
  BY <1>1, <1>2, <1>4 DEF keep
<1>6. Len(filled) \in Nat /\ DOMAIN filled = 1 .. Len(filled)
  BY <1>3, LenProperties
<1>7. SearchRestrictions(vals) =
        [i \in DOMAIN filled |->
           [prop |-> filled[i], arg |-> vals[filled[i]], search |-> TRUE]]
  BY DEF SearchRestrictions, keep
<1> HIDE DEF filled
<1>8. SearchRestrictions(vals) \in [1 .. Len(filled) -> Restriction]
  BY <1>5, <1>6, <1>7 DEF Restriction, Props
<1> QED
  BY <1>6, <1>8, SeqDef

LEMMA AddRestrictionType ==
  ASSUME NEW s \in Seq(Restriction), NEW p \in FilterProps, NEW a \in Args
  PROVE  AddRestriction(s, p, a) \in Seq(Restriction)
<1> DEFINE on == {i \in DOMAIN s : s[i].prop = p}
           last == CHOOSE i \in on : \A j \in on : j <= i
<1>1. CASE on = {}
  <2>1. [prop |-> p, arg |-> a, search |-> FALSE] \in Restriction
    BY DEF Restriction, Props
  <2>2. AddRestriction(s, p, a) = Append(s, [prop |-> p, arg |-> a, search |-> FALSE])
    BY <1>1 DEF AddRestriction
  <2> QED
    BY <2>1, <2>2, AppendProperties
<1>2. CASE on # {}
  <2>1. AddRestriction(s, p, a) = [s EXCEPT ![last].arg = a]
    BY <1>2 DEF AddRestriction
  <2> HIDE DEF last
  <2>2. s \in [1 .. Len(s) -> Restriction] /\ Len(s) \in Nat
    BY LenProperties
  <2>3. \A r \in Restriction : [r EXCEPT !.arg = a] \in Restriction
    BY DEF Restriction
  <2>4. [s EXCEPT ![last].arg = a] \in [1 .. Len(s) -> Restriction]
    BY <2>2, <2>3
  <2> QED
    BY <2>1, <2>2, <2>4, SeqDef
<1> QED
  BY <1>1, <1>2
----------------------------------------------------------------------------
(* Types.                                                                  *)

\* The number of pages and the offset of a page.
LEMMA PageNumbers ==
  /\ \A n \in Nat : PageCountOf(n) \in Nat
  /\ \A i \in Nat : PageSize * i \in Nat
<1>1. PageSize \in Nat /\ PageSize > 0
  BY PageSizeAssumption
<1>2. \A n \in Nat : (n + PageSize - 1) \div PageSize \in Nat
  BY <1>1
<1> QED
  BY <1>1, <1>2 DEF PageCountOf

\* The result of a query is a finite set of records.
LEMMA MatchingIsFinite ==
  ASSUME NEW c, NEW S \in SUBSET Records
  PROVE  /\ Matching(c, S) \in SUBSET Records
         /\ IsFiniteSet(Matching(c, S))
         /\ Cardinality(Matching(c, S)) \in Nat
<1>1. Matching(c, S) \in SUBSET Records
  BY DEF Matching
<1>2. IsFiniteSet(Matching(c, S))
  BY <1>1, RecordsAssumption, FS_Subset
<1> QED
  BY <1>1, <1>2, FS_CardinalityType

\* The variables that a handler of the table changes.
Typed ==
  /\ jcr \in Criteria
  /\ \A t \in DOMAIN tables : tables[t] \in Table
  /\ posts \subseteq Post
  /\ sent \in Nat

\* Sending queries.
LEMMA SendTypes ==
  ASSUME Typed, NEW t \in TableIds, NEW tb \in Table, NEW c \in Criteria, NEW kinds,
         kinds \in {<<"render">>, <<"update">>, <<"sort">>, <<"update", "update">>},
         Send(t, tb, c, kinds)
  PROVE  Typed'
<1> DEFINE n == Len(kinds)
           new == {Query(t, sent + i, kinds[i], c) : i \in 1..n}
<1>1. n \in {1, 2} /\ \A i \in 1..n : kinds[i] \in {"render", "update", "sort"}
  OBVIOUS
<1>2. /\ jcr' = c
      /\ posts' = posts \cup new
      /\ sent' = sent + n
      /\ DOMAIN tables' = DOMAIN tables \cup {t}
      /\ \A x \in DOMAIN tables' :
           tables'[x] = IF x = t THEN [tb EXCEPT !.asked = sent + n] ELSE tables[x]
  BY DEF Send
<1>3. sent \in Nat /\ sent + n \in Nat /\ \A i \in 1..n : sent + i \in Nat
  BY <1>1 DEF Typed
<1> HIDE DEF n
<1>4. [tb EXCEPT !.asked = sent + n] \in Table
  BY <1>3 DEF Table
<1>5. new \subseteq Post
  <2> SUFFICES ASSUME NEW i \in 1..n PROVE Query(t, sent + i, kinds[i], c) \in Post
    OBVIOUS
  <2> QED
    BY <1>1, <1>3 DEF Query, Post
<1> HIDE DEF new
<1>6. \A x \in DOMAIN tables' : tables'[x] \in Table
  BY <1>2, <1>4 DEF Typed
<1> QED
  BY <1>2, <1>3, <1>5, <1>6 DEF Typed

\* Going to page i.
LEMMA GoToPageTypes ==
  ASSUME Typed, NEW t \in TableIds, t \in DOMAIN tables, NEW c \in Criteria,
         NEW i \in Nat, NEW kinds, kinds \in {<<"update">>, <<"update", "update">>},
         NEW rash \in BOOLEAN, GoToPage(t, c, i, kinds, rash)
  PROVE  Typed'
<1> DEFINE tb == [tables[t] EXCEPT !.page = i, !.rash = rash]
           to == [c EXCEPT !.offset = PageSize * i]
<1>1. tables[t] \in Table
  BY DEF Typed
<1>2. tb \in Table
  BY <1>1 DEF Table
<1>3. to \in Criteria
  BY PageNumbers DEF Criteria
<1>4. Send(t, tb, to, kinds)
  BY DEF GoToPage
<1> HIDE DEF tb, to
<1> QED
  BY <1>2, <1>3, <1>4, SendTypes

\* What the user does with the table on the screen.
LEMMA UserTypes ==
  ASSUME Typed, NEW t \in TableIds,
         \/ ClickPage(t) \/ PrevPage(t) \/ NextPage(t)
         \/ SortColumn(t) \/ FilterColumn(t) \/ ClearFilter(t) \/ Search(t)
  PROVE  Typed'
<1>1. t \in DOMAIN tables
  BY DEF ClickPage, PrevPage, NextPage, SortColumn, FilterColumn, ClearFilter, Search,
         UsesTable
<1>2. jcr \in Criteria /\ tables[t] \in Table
  BY <1>1 DEF Typed
<1>3. /\ tables[t].page \in Nat /\ tables[t].footer \in Nat /\ tables[t].rash \in BOOLEAN
      /\ jcr.restr \in Seq(Restriction)
  BY <1>2 DEF Table, Criteria
<1>4. \A r \in Seq(Restriction) : [jcr EXCEPT !.restr = r] \in Criteria
  BY <1>2 DEF Criteria
<1>5. CASE ClickPage(t)
  <2>1. PICK i \in PageLinks(tables[t].footer) \cup {0} :
          GoToPage(t, jcr, i, <<"update">>,
                   i > 0 /\ ~(Settled(t) /\ tables[t].footer = tables[t].pages))
    BY <1>5 DEF ClickPage
  <2>2. i \in Nat
    BY <1>3 DEF PageLinks
  <2> DEFINE rash == i > 0 /\ ~(Settled(t) /\ tables[t].footer = tables[t].pages)
  <2>3. rash \in BOOLEAN /\ GoToPage(t, jcr, i, <<"update">>, rash)
    BY <2>1
  <2> HIDE DEF rash
  <2> QED
    BY <1>1, <1>2, <2>2, <2>3, GoToPageTypes
<1>6. CASE PrevPage(t)
  <2>1. tables[t].page - 1 \in Nat
    BY <1>3, <1>6 DEF PrevPage
  <2>2. GoToPage(t, jcr, tables[t].page - 1, <<"update">>, tables[t].rash)
    BY <1>6 DEF PrevPage
  <2> QED
    BY <1>1, <1>2, <1>3, <2>1, <2>2, GoToPageTypes
<1>7. CASE NextPage(t)
  <2> DEFINE rash == ~Settled(t)
  <2>1. tables[t].page + 1 \in Nat /\ rash \in BOOLEAN
    BY <1>3
  <2>2. GoToPage(t, jcr, tables[t].page + 1, <<"update">>, rash)
    BY <1>7 DEF NextPage
  <2> HIDE DEF rash
  <2> QED
    BY <1>1, <1>2, <2>1, <2>2, GoToPageTypes
<1>8. CASE SortColumn(t)
  <2>1. PICK d \in Orders : Send(t, [tables[t] EXCEPT !.sortOrder = d],
                                 [jcr EXCEPT !.order = d], <<"sort">>)
    BY <1>8 DEF SortColumn, Orders
  <2>2. [tables[t] EXCEPT !.sortOrder = d] \in Table /\ [jcr EXCEPT !.order = d] \in Criteria
    BY <1>2 DEF Table, Criteria
  <2> QED
    BY <2>1, <2>2, SendTypes
<1>9. ASSUME NEW r \in Seq(Restriction),
             GoToPage(t, [jcr EXCEPT !.restr = r], 0, <<"update", "update">>, FALSE)
      PROVE  Typed'
  <2> DEFINE c == [jcr EXCEPT !.restr = r]
             rash == FALSE
  <2>1. c \in Criteria
    BY <1>4
  <2>2. GoToPage(t, c, 0, <<"update", "update">>, rash) /\ rash \in BOOLEAN
    BY <1>9
  <2> HIDE DEF c, rash
  <2> QED
    BY <1>1, <2>1, <2>2, GoToPageTypes
<1>10. CASE FilterColumn(t)
  <2>1. PICK p \in FilterProps, a \in Args :
          GoToPage(t, [jcr EXCEPT !.restr = AddRestriction(jcr.restr, p, a)], 0,
                   <<"update", "update">>, FALSE)
    BY <1>10 DEF FilterColumn
  <2>2. AddRestriction(jcr.restr, p, a) \in Seq(Restriction)
    BY <1>3, AddRestrictionType
  <2> QED
    BY <1>9, <2>1, <2>2
<1>11. CASE Search(t)
  <2>1. PICK vals \in [SearchProps -> Args \cup {NoArg}] :
          GoToPage(t, [jcr EXCEPT !.restr = Kept(jcr.restr) \o SearchRestrictions(vals)], 0,
                   <<"update", "update">>, FALSE)
    BY <1>11 DEF Search
  <2>2. Kept(jcr.restr) \o SearchRestrictions(vals) \in Seq(Restriction)
    BY <1>3, KeptType, SearchRestrictionsType, ConcatProperties
  <2> QED
    BY <1>9, <2>1, <2>2
<1>12. CASE ClearFilter(t)
  <2>1. PICK p \in FilterProps :
          Send(t, tables[t], [jcr EXCEPT !.restr = WithoutProperty(jcr.restr, p)],
               <<"update">>)
    BY <1>12 DEF ClearFilter
  <2>2. WithoutProperty(jcr.restr, p) \in Seq(Restriction)
    BY <1>3, WithoutPropertyItems
  <2>3. [jcr EXCEPT !.restr = WithoutProperty(jcr.restr, p)] \in Criteria
    BY <1>4, <2>2
  <2> QED
    BY <1>2, <2>1, <2>3, SendTypes
<1> QED
  BY <1>5, <1>6, <1>7, <1>8, <1>10, <1>11, <1>12

\* Opening a list.
LEMMA RenderTypes ==
  ASSUME Typed, NEW t \in TableIds, RenderTable(t)
  PROVE  Typed'
<1>1. [jcr EXCEPT !.offset = 0] \in Criteria
  BY DEF Typed, Criteria
<1>2. EmptyCriteria \in Criteria
  <2>1. <<>> \in Seq(Restriction)
    BY EmptySeq
  <2> QED
    BY <2>1 DEF EmptyCriteria, Criteria, Orders
<1>3. NewTable \in Table
  BY <1>2 DEF NewTable, Table, Orders
<1>4. Send(t, NewTable, [jcr EXCEPT !.offset = 0], <<"render">>)
  BY DEF RenderTable
<1> QED
  BY <1>1, <1>3, <1>4, SendTypes

\* The server answers a query.
LEMMA ServeTypes ==
  ASSUME Typed, store \subseteq Records, Serve
  PROVE  Typed'
<1>0. PICK p \in posts : \E P \in PagesOf(p.ask, store) :
        posts' = (posts \ {p}) \cup
          {[p EXCEPT !.done = TRUE, !.rows = P,
              !.count = Cardinality(Matching(p.ask, store))]}
  BY DEF Serve
<1>1. PICK P \in PagesOf(p.ask, store) :
        posts' = (posts \ {p}) \cup
          {[p EXCEPT !.done = TRUE, !.rows = P,
              !.count = Cardinality(Matching(p.ask, store))]}
  BY <1>0
<1>2. P \subseteq Records /\ Cardinality(Matching(p.ask, store)) \in Nat /\ p \in Post
  BY PagesAreRecords, MatchingIsFinite DEF Typed
<1>3. [p EXCEPT !.done = TRUE, !.rows = P,
          !.count = Cardinality(Matching(p.ask, store))] \in Post
  BY <1>2 DEF Post
<1>4. UNCHANGED <<jcr, tables, sent>>
  BY DEF Serve
<1> QED
  BY <1>1, <1>3, <1>4 DEF Typed

\* The callback runs.
LEMMA DeliverTypes == ASSUME Typed, Deliver PROVE Typed'
<1>1. PICK p \in posts :
        LET left == IF p.kind = "render" THEN {onScreen} ELSE {}
        IN  /\ posts' = posts \ {p}
            /\ tables' = [t \in DOMAIN tables \ left |->
                            IF t = p.tab THEN Answered(tables[t], p) ELSE tables[t]]
  BY DEF Deliver
<1>2. p \in Post /\ UNCHANGED <<jcr, sent>>
  BY DEF Typed, Deliver
<1>3. ASSUME NEW tb \in Table PROVE Answered(tb, p) \in Table
  <2> DEFINE n == PageCountOf(p.count)
             mark == IF tb.page < n THEN tb.page ELSE NoPage
             drawn == [tb EXCEPT !.rows = p.rows, !.pages = n, !.shown = p.no,
                                 !.ask = p.ask, !.kind = p.kind]
  <2>1. n \in Nat
    BY <1>2, PageNumbers DEF Post
  <2> HIDE DEF n
  <2>2. drawn \in Table
    BY <1>2, <2>1 DEF Post, Table
  <2>3. mark \in Nat \cup {NoPage}
    BY DEF Table
  <2> HIDE DEF drawn, mark
  <2>4. [drawn EXCEPT !.footer = n] \in Table
    BY <2>1, <2>2 DEF Table
  <2>5. [drawn EXCEPT !.footer = n, !.hl = mark] \in Table
    BY <2>1, <2>2, <2>3 DEF Table
  <2>6. p.kind \in {"render", "update", "sort"}
    BY <1>2 DEF Post
  <2>7. Answered(tb, p) =
          CASE p.kind = "render" -> [drawn EXCEPT !.footer = n]
            [] p.kind = "update" -> [drawn EXCEPT !.footer = n, !.hl = mark]
            [] p.kind = "sort"   -> drawn
    BY DEF Answered, drawn, mark, n
  <2> QED
    BY <2>2, <2>4, <2>5, <2>6, <2>7
<1>4. \A t \in DOMAIN tables' : tables'[t] \in Table
  BY <1>1, <1>3 DEF Typed
<1> QED
  BY <1>1, <1>2, <1>4 DEF Typed

LEMMA InitTypes == Init => TypeOK
<1> SUFFICES ASSUME Init PROVE TypeOK
  OBVIOUS
<1>1. EmptyCriteria \in Criteria
  <2>1. <<>> \in Seq(Restriction)
    BY EmptySeq
  <2> QED
    BY <2>1 DEF EmptyCriteria, Criteria, Orders
<1>2. /\ store \subseteq Records /\ gone = {} /\ jcr = EmptyCriteria
      /\ DOMAIN tables = {} /\ onScreen = NoTable /\ posts = {}
      /\ sent = 0 /\ clicks = 0 /\ changes = 0 /\ tangled = FALSE
      /\ value \in store \cup {None} /\ name = None
      /\ nameAsks = {[no |-> 0, rec |-> r] : r \in {value} \ {None}}
      /\ nameLost = FALSE /\ lateName = FALSE
  BY DEF Init, TableInit
<1>3. nameAsks \subseteq NameAsk
  BY <1>2 DEF NameAsk
<1> QED
  BY <1>1, <1>2, <1>3 DEF TypeOK, TableTypeOK

LEMMA StepKeepsTypes == ASSUME IInv, IInv', TypeOK, [Next]_vars PROVE TypeOK'
<1>1. Typed /\ store \subseteq Records
  BY DEF TypeOK, TableTypeOK, Typed
<1>2. Typed'
  <2>1. CASE OpenAvailableItems
    BY <1>1, <2>1, RenderTypes DEF OpenAvailableItems
  <2>2. CASE LeavePage /\ sent' \in Nat
    BY <1>1, <2>2 DEF LeavePage, Typed, Restrict
  <2>3. CASE CloseDialog \/ Select
    BY <1>1, <2>2, <2>3 DEF CloseDialog, Select, Typed
  <2>4. CASE UNCHANGED <<jcr, tables, posts, sent>>
    BY <1>1, <2>4 DEF Typed
  <2>5. CASE ClearLookup \/ NameAnswered \/ NameLost \/ ChangeStore \/ UNCHANGED vars
    BY <2>4, <2>5 DEF ClearLookup, NameAnswered, NameLost, ChangeStore, vars, tableVars
  <2>6. CASE TableSteps
    BY <1>1, <2>5, <2>6, UserTypes, ServeTypes, DeliverTypes DEF TableSteps
  <2> QED
    BY <2>1, <2>3, <2>5, <2>6 DEF Next
<1>3. store' \subseteq Records /\ gone' \subseteq Records \ store'
  <2>1. CASE UNCHANGED <<store, gone>>
    BY <2>1 DEF TypeOK, TableTypeOK
  <2>2. CASE ChangeStore
    BY <2>2 DEF ChangeStore, TypeOK, TableTypeOK
  <2> QED
    BY <2>1, <2>2 DEF Next, OpenAvailableItems, RenderTable, CloseDialog, Select, LeavePage,
         ClearLookup, NameAnswered, NameLost, TableSteps, ClickPage, PrevPage, NextPage,
         SortColumn, FilterColumn, ClearFilter, Search, UsesTable, Serve, Deliver,
         serverVars, tableVars, vars
<1>4. clicks' \in Nat /\ changes' \in Nat
  <2>1. clicks' \in {clicks, clicks + 1} /\ changes' \in {changes, changes + 1}
    BY DEF Next, OpenAvailableItems, RenderTable, CloseDialog, Select, LeavePage, Click,
         ClearLookup, NameAnswered, NameLost, TableSteps, ClickPage, PrevPage, NextPage,
         SortColumn, FilterColumn, ClearFilter, Search, UsesTable, Serve, Deliver,
         ChangeStore, serverVars, tableVars, vars
  <2> QED
    BY <2>1 DEF TypeOK, TableTypeOK
<1>5. tangled' \in BOOLEAN /\ nameLost' \in BOOLEAN /\ lateName' \in BOOLEAN
  <2>1. tangled' \in BOOLEAN
    BY Zenon DEF Next, OpenAvailableItems, RenderTable, CloseDialog, Select, LeavePage,
         ClearLookup, NameAnswered, NameLost, TableSteps, ClickPage, PrevPage, NextPage,
         SortColumn, FilterColumn, ClearFilter, Search, UsesTable, Serve, Deliver,
         ChangeStore, tableVars, vars, TypeOK, TableTypeOK
  <2>2. nameLost' \in BOOLEAN /\ lateName' \in BOOLEAN
    BY DEF Next, OpenAvailableItems, CloseDialog, Select, ClearLookup, NameAnswered,
         NameLost, fieldVars, vars, TypeOK
  <2> QED
    BY <2>1, <2>2
<1>6. value' \in Records \cup {None} /\ name' \in Records \cup {None}
  <2>1. value' \in Records \cup {None}
    BY DEF IInv, TInv, RowsInv, FieldInv
  <2>2. name' \in {name, None} \/ \E q \in nameAsks : name' = q.rec
    BY DEF Next, OpenAvailableItems, CloseDialog, Select, ClearLookup, NameAnswered,
         NameLost, fieldVars, vars
  <2> QED
    BY <2>1, <2>2 DEF TypeOK, IInv, FieldInv
<1>7. nameAsks' \subseteq NameAsk
  <2>1. CASE Select
    <3>1. PICK r \in tables[onScreen].rows :
            nameAsks' = nameAsks \cup {[no |-> sent + 1, rec |-> r]}
      BY <2>1 DEF Select
    <3>2. r \in Records
      BY <2>1, RowsAreKnown DEF Select, LeavePage, IInv, TInv, RowsInv
    <3>3. sent + 1 \in Nat
      BY <1>1 DEF Typed
    <3>4. [no |-> sent + 1, rec |-> r] \in NameAsk
      BY <3>2, <3>3 DEF NameAsk
    <3> QED
      BY <3>1, <3>4 DEF TypeOK
  <2>2. CASE ~Select
    <3>1. nameAsks' \subseteq nameAsks
      BY <2>2 DEF Next, OpenAvailableItems, CloseDialog, ClearLookup, NameAnswered,
           NameLost, fieldVars, vars
    <3> QED
      BY <3>1 DEF TypeOK
  <2> QED
    BY <2>1, <2>2
<1>8. /\ DOMAIN tables' \subseteq TableIds
      /\ onScreen' \in DOMAIN tables' \cup {NoTable}
  BY DEF IInv, TInv, ScreenInv
<1> QED
  BY <1>2, <1>3, <1>4, <1>5, <1>6, <1>7, <1>8 DEF Typed, TypeOK, TableTypeOK

\* Whatever the user, the server and the network do, the criteria, the tables
\* and the queries keep their form: no page below zero, no restriction on an
\* unknown property, no answer that is not of records (km.table.js).
THEOREM TypeCorrect == Spec => []TypeOK
<1>1. Init => TypeOK
  BY InitTypes
<1>2. IInv /\ IInv' /\ TypeOK /\ [Next]_vars => TypeOK'
  BY StepKeepsTypes
<1> QED
  BY <1>1, <1>2, LookupInvariant, PTL DEF Spec

----------------------------------------------------------------------------
(* Pages.                                                                  *)

Shown == Cardinality(Matching(jcr, store))
Sound(tb) == tb.page > 0 /\ ~tb.rash

\* While nothing was deleted and no list was opened twice at once: a later page
\* that was chosen by the last answer begins before the end of the result, the
\* last answer counted no more pages than there are, and it brings or brought
\* records to such a page and counts it.
PageInv ==
  gone = {} /\ ~tangled =>
    \A t \in DOMAIN tables :
      /\ Sound(tables[t]) => jcr.offset < Shown
      /\ tables[t].shown = tables[t].asked =>
           /\ \E n \in 0 .. Shown : tables[t].pages = PageCountOf(n)
           /\ Sound(tables[t]) =>
                tables[t].rows # {} /\ tables[t].page < tables[t].pages
      /\ \A p \in posts :
           p.tab = t /\ p.no = tables[t].asked /\ p.done =>
             /\ p.count \in 0 .. Shown
             /\ Sound(tables[t]) => p.rows # {} /\ jcr.offset < p.count

\* A page of a count begins before its end.
LEMMA PageBegins ==
  ASSUME NEW n \in Nat, NEW i \in Nat, i < PageCountOf(n)
  PROVE  PageSize * i < n
<1>1. PageSize \in Nat /\ PageSize > 0
  BY PageSizeAssumption
<1> DEFINE m == n + PageSize - 1
           q == m \div PageSize
<1>2. m \in Nat /\ q \in Nat
  BY <1>1
<1>3. PageSize * q <= m
  BY <1>1, <1>2
<1>4. i + 1 <= q
  BY <1>2 DEF PageCountOf
<1> HIDE DEF q
<1>5. PageSize * (i + 1) <= PageSize * q
  BY <1>1, <1>2, <1>4
<1>6. PageSize * (i + 1) = PageSize * i + PageSize
  BY <1>1
<1>7. PageSize * i \in Nat /\ PageSize * q \in Nat /\ PageSize * (i + 1) \in Nat
  BY <1>1, <1>2
<1> QED
  BY <1>1, <1>3, <1>5, <1>6, <1>7

\* A page that begins before the end is one of the pages of the count.
LEMMA PageIsCounted ==
  ASSUME NEW n \in Nat, NEW i \in Nat, PageSize * i < n
  PROVE  i < PageCountOf(n)
<1>1. PageSize \in Nat /\ PageSize > 0
  BY PageSizeAssumption
<1> DEFINE m == n + PageSize - 1
           q == m \div PageSize
           r == m % PageSize
<1>2. m \in Nat /\ q \in Nat /\ r \in 0 .. PageSize - 1
  BY <1>1
<1>3. m = PageSize * q + r
  BY <1>1, <1>2
<1>4. m >= PageSize * i + PageSize
  BY <1>1
<1>5. PageSize * i + PageSize = PageSize * (i + 1)
  BY <1>1
<1> HIDE DEF q, r, m
<1>6. PageSize * q \in Nat /\ PageSize * (i + 1) \in Nat
  BY <1>1, <1>2
<1>7. ASSUME q <= i PROVE FALSE
  <2>1. q + 1 <= i + 1 /\ PageSize * (q + 1) = PageSize * q + PageSize
    BY <1>1, <1>2, <1>7
  <2>2. PageSize * (q + 1) <= PageSize * (i + 1)
    BY <1>1, <1>2, <2>1
  <2> QED
    BY <1>1, <1>2, <1>3, <1>4, <1>5, <1>6, <2>1, <2>2
<1> QED
  BY <1>2, <1>7 DEF PageCountOf, q, m

\* A page that begins before the end of the result has a record.
LEMMA PageHasRecords ==
  ASSUME NEW c \in Criteria, NEW S \in SUBSET Records,
         c.offset < Cardinality(Matching(c, S)), NEW P \in PagesOf(c, S)
  PROVE  P # {}
<1> DEFINE R == Matching(c, S)
           n == Cardinality(R)
<1>1. R \in SUBSET Nat /\ IsFiniteSet(R) /\ n \in Nat
  BY MatchingIsFinite, RecordsAssumption
<1>2. c.offset \in Nat /\ c.offset < n
  BY DEF Criteria
<1>3. PageSize \in Nat /\ PageSize > 0
  BY PageSizeAssumption
<1>4. CASE c.order = "none"
  <2>1. Cardinality(P) = PageLength(c, n)
    BY <1>4 DEF PagesOf
  <2> HIDE DEF n
  <2>2. PageLength(c, n) # 0
    BY <1>1, <1>2, <1>3 DEF PageLength
  <2> QED
    BY <2>1, <2>2, FS_EmptySet
<1>5. CASE c.order # "none"
  <2>1. P = {r \in R : Rank(r, R, c.order) \in c.offset .. c.offset + PageSize - 1}
    BY <1>5 DEF PagesOf
  <2>2. PICK r \in R : Rank(r, R, c.order) = c.offset
    BY <1>1, <1>2, RankExists
  <2>3. c.offset \in c.offset .. c.offset + PageSize - 1
    BY <1>2, <1>3
  <2> HIDE DEF R
  <2> QED
    BY <2>1, <2>2, <2>3
<1> QED
  BY <1>4, <1>5

\* The result does not shrink when records are added or restrictions fall away.
LEMMA MatchingGrows ==
  ASSUME NEW c, NEW d, NEW S \in SUBSET Records, NEW T \in SUBSET Records, S \subseteq T,
         \A n \in DOMAIN d.restr : \E i \in DOMAIN c.restr : d.restr[n] = c.restr[i]
  PROVE  Cardinality(Matching(c, S)) <= Cardinality(Matching(d, T))
<1>1. Matching(c, S) \subseteq Matching(d, T)
  BY DEF Matching
<1> QED
  BY <1>1, MatchingIsFinite, FS_Subset

\* Sending queries from the table on the screen.
LEMMA SendKeepsPages ==
  ASSUME IInv, NEW t \in DOMAIN tables, NEW tb, NEW c, NEW kinds,
         kinds \in {<<"update">>, <<"sort">>, <<"update", "update">>},
         Send(t, tb, c, kinds), TableForm(tb), tb.shown = tables[t].shown,
         UNCHANGED <<store, gone, tangled>>,
         gone = {} /\ ~tangled /\ Sound(tb) =>
           c.offset < Cardinality(Matching(c, store))
  PROVE  PageInv'
<1> SUFFICES ASSUME gone = {}, ~tangled PROVE PageInv'
  BY DEF PageInv
<1> DEFINE n == Len(kinds)
           new == {Query(t, sent + i, kinds[i], c) : i \in 1..n}
<1>1. n \in {1, 2}
  OBVIOUS
<1>2. /\ jcr' = c
      /\ posts' = posts \cup new
      /\ DOMAIN tables' = DOMAIN tables
      /\ tables'[t] = [tb EXCEPT !.asked = sent + n]
  BY DEF Send
<1>3. \A p \in new : ~p.done
  BY DEF Query
<1> HIDE DEF new
<1>4. DOMAIN tables' = {t}
  BY <1>2 DEF IInv, TInv, AgreeInv
<1>5. /\ tables'[t].asked = sent + n
      /\ tables'[t].shown = tables[t].shown
      /\ tables'[t].page = tb.page /\ tables'[t].rash = tb.rash
  BY <1>2 DEF TableForm
<1> HIDE DEF n
<1>6. /\ tables'[t].shown # tables'[t].asked
      /\ \A p \in posts : p.no # tables'[t].asked
  BY <1>1, <1>5 DEF IInv, TInv, NumbersInv
<1>7. \A p \in posts' : p.no = tables'[t].asked => ~p.done
  BY <1>2, <1>3, <1>6
<1>8. Sound(tables'[t]) => jcr'.offset < Shown'
  BY <1>2, <1>5 DEF Sound, Shown
<1> QED
  BY <1>4, <1>6, <1>7, <1>8 DEF PageInv

\* Going to page i: its number must be of the last answer, or it is rash.
LEMMA GoToPageKeepsPages ==
  ASSUME IInv, NEW t \in DOMAIN tables, NEW c, CriteriaForm(c), NEW i, NEW kinds, NEW rash,
         kinds \in {<<"update">>, <<"update", "update">>},
         GoToPage(t, c, i, kinds, rash), UNCHANGED <<store, gone, tangled>>,
         gone = {} /\ ~tangled /\ i > 0 /\ ~rash =>
           PageSize * i < Cardinality(Matching(c, store))
  PROVE  PageInv'
<1> DEFINE tb == [tables[t] EXCEPT !.page = i, !.rash = rash]
           to == [c EXCEPT !.offset = PageSize * i]
<1>1. TableForm(tables[t])
  BY DEF IInv, TInv, RowsInv
<1>2. /\ TableForm(tb) /\ tb.shown = tables[t].shown
      /\ tb.page = i /\ tb.rash = rash
  BY <1>1 DEF TableForm
<1>3. CriteriaForm(to) /\ to.offset = PageSize * i /\ to.restr = c.restr
  BY DEF CriteriaForm
<1>4. Send(t, tb, to, kinds)
  BY DEF GoToPage
<1> HIDE DEF tb, to
<1>5. Matching(to, store) = Matching(c, store)
  BY <1>3 DEF Matching
<1>6. gone = {} /\ ~tangled /\ Sound(tb) =>
        to.offset < Cardinality(Matching(to, store))
  BY <1>2, <1>3, <1>5 DEF Sound
<1> QED
  BY <1>2, <1>4, <1>6, SendKeepsPages

\* What the user does with the table on the screen.
LEMMA UserKeepsPages ==
  ASSUME IInv, TypeOK, PageInv, NEW t \in TableIds,
         \/ ClickPage(t) \/ PrevPage(t) \/ NextPage(t)
         \/ SortColumn(t) \/ FilterColumn(t) \/ ClearFilter(t) \/ Search(t)
  PROVE  PageInv'
<1>1. t \in DOMAIN tables /\ UNCHANGED <<store, gone, tangled>>
  BY DEF ClickPage, PrevPage, NextPage, SortColumn, FilterColumn, ClearFilter, Search,
         UsesTable, serverVars
<1>2. /\ jcr \in Criteria /\ CriteriaForm(jcr) /\ TableForm(tables[t])
      /\ store \in SUBSET Records
  BY <1>1 DEF TypeOK, TableTypeOK, IInv, TInv, RowsInv
<1>3. /\ tables[t].page \in Nat /\ tables[t].footer \in Nat
      /\ jcr.restr \in Seq(Restriction) /\ jcr.offset \in Nat
  BY <1>1, <1>2 DEF TypeOK, TableTypeOK, Table, Criteria
<1>4. Shown \in Nat
  BY <1>2, MatchingIsFinite DEF Shown
<1>5. \A i \in Nat : gone = {} /\ ~tangled /\ Settled(t) /\ i < tables[t].pages =>
        PageSize * i < Shown
  <2> SUFFICES ASSUME NEW i \in Nat, gone = {}, ~tangled, Settled(t), i < tables[t].pages
               PROVE  PageSize * i < Shown
    OBVIOUS
  <2>1. PICK n \in 0 .. Shown : tables[t].pages = PageCountOf(n)
    BY <1>1 DEF PageInv, Settled
  <2>2. n \in Nat /\ n <= Shown
    BY <1>4
  <2>3. PageSize * i < n /\ PageSize * i \in Nat
    BY <2>1, <2>2, PageBegins, PageNumbers
  <2> QED
    BY <1>4, <2>2, <2>3
<1>6. gone = {} /\ ~tangled /\ Sound(tables[t]) => PageSize * tables[t].page < Shown
  BY <1>1 DEF PageInv, IInv, TInv, AgreeInv
<1>7. CASE ClickPage(t)
  <2> DEFINE rash(i) == i > 0 /\ ~(Settled(t) /\ tables[t].footer = tables[t].pages)
  <2>1. PICK i \in PageLinks(tables[t].footer) \cup {0} :
          GoToPage(t, jcr, i, <<"update">>, rash(i))
    BY <1>7 DEF ClickPage
  <2>2. i \in Nat /\ (i > 0 => i < tables[t].footer)
    BY <1>3 DEF PageLinks
  <2>3. gone = {} /\ ~tangled /\ i > 0 /\ ~rash(i) => PageSize * i < Shown
    BY <1>5, <2>2
  <2> HIDE DEF rash
  <2> QED
    BY <1>1, <1>2, <2>1, <2>3, GoToPageKeepsPages DEF Shown
<1>8. CASE PrevPage(t)
  <2> DEFINE i == tables[t].page - 1
             rash == tables[t].rash
  <2>1. GoToPage(t, jcr, i, <<"update">>, rash) /\ tables[t].page > 0
    BY <1>8 DEF PrevPage
  <2>2. gone = {} /\ ~tangled /\ ~rash => PageSize * tables[t].page < Shown
    BY <1>6, <2>1 DEF Sound
  <2>3. i \in Nat /\ PageSize * tables[t].page = PageSize * i + PageSize
        /\ PageSize \in Nat /\ PageSize * i \in Nat
    <3>1. i \in Nat /\ tables[t].page = i + 1
      BY <1>3, <2>1
    <3>2. PageSize * (i + 1) = PageSize * i + PageSize
      BY <3>1, PageSizeAssumption
    <3> QED
      BY <3>1, <3>2, PageNumbers, PageSizeAssumption
  <2> HIDE DEF i
  <2>4. gone = {} /\ ~tangled /\ i > 0 /\ ~rash => PageSize * i < Shown
    BY <1>4, <2>2, <2>3
  <2> HIDE DEF rash
  <2> QED
    BY <1>1, <1>2, <2>1, <2>4, GoToPageKeepsPages DEF Shown
<1>9. CASE NextPage(t)
  <2> DEFINE i == tables[t].page + 1
             rash == ~Settled(t)
  <2>1. GoToPage(t, jcr, i, <<"update">>, rash) /\ tables[t].page < tables[t].pages - 1
    BY <1>9 DEF NextPage
  <2>2. tables[t].pages \in Nat
    BY <1>1 DEF TypeOK, TableTypeOK, Table
  <2>3. i \in Nat /\ i < tables[t].pages
    BY <1>3, <2>1, <2>2
  <2> HIDE DEF i
  <2>4. gone = {} /\ ~tangled /\ i > 0 /\ ~rash => PageSize * i < Shown
    BY <1>5, <2>3
  <2> HIDE DEF rash
  <2> QED
    BY <1>1, <1>2, <2>1, <2>4, GoToPageKeepsPages DEF Shown
<1>10. CASE SortColumn(t)
  <2>1. PICK d : Send(t, [tables[t] EXCEPT !.sortOrder = d],
                      [jcr EXCEPT !.order = d], <<"sort">>)
    BY <1>10 DEF SortColumn
  <2> DEFINE c == [jcr EXCEPT !.order = d]
             tb == [tables[t] EXCEPT !.sortOrder = d]
  <2>2. c.offset = jcr.offset /\ c.restr = jcr.restr
    BY <1>2 DEF CriteriaForm
  <2>3. /\ TableForm(tb) /\ tb.shown = tables[t].shown
        /\ tb.page = tables[t].page /\ tb.rash = tables[t].rash
    BY <1>2 DEF TableForm
  <2> HIDE DEF c, tb
  <2>4. Send(t, tb, c, <<"sort">>)
    BY <2>1 DEF c, tb
  <2>5. gone = {} /\ ~tangled /\ Sound(tb) => c.offset < Cardinality(Matching(c, store))
    BY <1>1, <2>2, <2>3 DEF PageInv, Sound, Shown, Matching
  <2> QED
    BY <1>1, <2>3, <2>4, <2>5, SendKeepsPages
<1>11. CASE \E r, rash :
              GoToPage(t, [jcr EXCEPT !.restr = r], 0, <<"update", "update">>, rash)
  <2>1. PICK r, rash :
          GoToPage(t, [jcr EXCEPT !.restr = r], 0, <<"update", "update">>, rash)
    BY <1>11
  <2> DEFINE c == [jcr EXCEPT !.restr = r]
  <2>2. CriteriaForm(c)
    BY <1>2 DEF CriteriaForm
  <2> HIDE DEF c
  <2>3. GoToPage(t, c, 0, <<"update", "update">>, rash)
    BY <2>1 DEF c
  <2> QED
    BY <1>1, <2>2, <2>3, GoToPageKeepsPages
<1>12. CASE FilterColumn(t)
  BY <1>11, <1>12 DEF FilterColumn
<1>13. CASE Search(t)
  BY <1>11, <1>13 DEF Search
<1>14. CASE ClearFilter(t)
  <2>1. PICK p \in FilterProps :
          Send(t, tables[t], [jcr EXCEPT !.restr = WithoutProperty(jcr.restr, p)],
               <<"update">>)
    BY <1>14 DEF ClearFilter
  <2> DEFINE c == [jcr EXCEPT !.restr = WithoutProperty(jcr.restr, p)]
  <2>2. c.offset = jcr.offset /\ c.restr = WithoutProperty(jcr.restr, p)
    BY <1>2 DEF CriteriaForm
  <2> HIDE DEF c
  <2>3. \A n \in DOMAIN c.restr : \E i \in DOMAIN jcr.restr : c.restr[n] = jcr.restr[i]
    BY <1>3, <2>2, WithoutPropertyItems
  <2>4. Shown <= Cardinality(Matching(c, store))
    BY <1>2, <2>3, MatchingGrows DEF Shown
  <2>5. Cardinality(Matching(c, store)) \in Nat
    BY <1>2, MatchingIsFinite
  <2>6. gone = {} /\ ~tangled /\ Sound(tables[t]) =>
          c.offset < Cardinality(Matching(c, store))
    BY <1>1, <1>3, <1>4, <2>2, <2>4, <2>5 DEF PageInv
  <2>7. Send(t, tables[t], c, <<"update">>)
    BY <2>1 DEF c
  <2> QED
    BY <1>1, <1>2, <2>6, <2>7, SendKeepsPages
<1> QED
  BY <1>7, <1>8, <1>9, <1>10, <1>12, <1>13, <1>14

\* Opening a list.
LEMMA RenderKeepsPages ==
  ASSUME IInv, onScreen = NoTable, NEW t \in TableIds, RenderTable(t)
  PROVE  PageInv'
<1> SUFFICES ASSUME ~tangled' PROVE PageInv'
  BY DEF PageInv
<1> DEFINE q == Query(t, sent + 1, "render", [jcr EXCEPT !.offset = 0])
<1>1. /\ DOMAIN tables' = DOMAIN tables \cup {t}
      /\ tables'[t] = [NewTable EXCEPT !.asked = sent + 1]
  BY DEF RenderTable, Send
<1>2. posts' = posts \cup {q}
  <2>1. {Query(t, sent + i, <<"render">>[i], [jcr EXCEPT !.offset = 0])
          : i \in 1..Len(<<"render">>)} = {q}
    OBVIOUS
  <2> QED
    BY <2>1 DEF RenderTable, Send
<1>3. ~q.done
  BY DEF Query
<1> HIDE DEF q
<1>4. \A p \in posts : p.tab # t
  BY DEF RenderTable, FreeTables
<1>5. DOMAIN tables = {}
  <2>1. \A p \in posts : p.kind # "render"
    BY DEF RenderTable, Rendering
  <2>2. NoTable \notin DOMAIN tables
    BY NoTableAssumption DEF IInv, TInv, ScreenInv
  <2> QED
    BY <2>1, <2>2 DEF IInv, TInv, ScreenInv
<1>6. /\ tables'[t].page = 0 /\ tables'[t].shown = 0 /\ tables'[t].asked = sent + 1
  BY <1>1 DEF NewTable
<1>7. tables'[t].shown # tables'[t].asked /\ ~Sound(tables'[t])
  BY <1>6 DEF IInv, TInv, NumbersInv, Sound
<1> QED
  BY <1>1, <1>2, <1>3, <1>4, <1>5, <1>7 DEF PageInv

\* The server answers a query.
LEMMA ServeKeepsPages ==
  ASSUME IInv, TypeOK, PageInv, Serve
  PROVE  PageInv'
<1> SUFFICES ASSUME gone = {}, ~tangled PROVE PageInv'
  BY DEF PageInv, Serve, serverVars
<1>0. PICK p \in posts : \E P \in PagesOf(p.ask, store) :
        posts' = (posts \ {p}) \cup
          {[p EXCEPT !.done = TRUE, !.rows = P,
              !.count = Cardinality(Matching(p.ask, store))]}
  BY DEF Serve
<1>1. PICK P \in PagesOf(p.ask, store) :
        posts' = (posts \ {p}) \cup
          {[p EXCEPT !.done = TRUE, !.rows = P,
              !.count = Cardinality(Matching(p.ask, store))]}
  BY <1>0
<1> DEFINE q == [p EXCEPT !.done = TRUE, !.rows = P,
                   !.count = Cardinality(Matching(p.ask, store))]
<1>2. /\ q.rows = P /\ q.count = Cardinality(Matching(p.ask, store))
      /\ q.no = p.no /\ q.tab = p.tab
  BY DEF IInv, TInv, RowsInv, PostForm
<1> HIDE DEF q
<1>3. posts' = (posts \ {p}) \cup {q}
  BY <1>1 DEF q
<1>4. UNCHANGED <<store, gone, jcr, tables, tangled>>
  BY DEF Serve, serverVars
<1>5. jcr \in Criteria /\ store \in SUBSET Records /\ Shown \in Nat
  BY MatchingIsFinite DEF TypeOK, TableTypeOK, Shown
<1>6. ASSUME NEW t \in DOMAIN tables, q.tab = t, q.no = tables[t].asked
      PROVE  /\ q.count \in 0 .. Shown
             /\ Sound(tables[t]) => q.rows # {} /\ jcr.offset < q.count
  <2>1. p.ask = jcr
    BY <1>2, <1>6 DEF IInv, TInv, AgreeInv
  <2>2. q.count = Shown
    BY <1>2, <2>1 DEF Shown
  <2>3. Sound(tables[t]) => jcr.offset < Cardinality(Matching(jcr, store))
    BY DEF PageInv, Shown
  <2>4. Sound(tables[t]) => P # {}
    BY <1>5, <2>1, <2>3, PageHasRecords
  <2>5. Shown \in 0 .. Shown
    BY <1>5
  <2> QED
    BY <1>2, <2>2, <2>3, <2>4, <2>5 DEF Shown
<1>7. Shown' = Shown
  BY <1>4 DEF Shown, Matching
<1> QED
  BY <1>3, <1>4, <1>6, <1>7 DEF PageInv

\* The callback runs.
LEMMA DeliverKeepsPages ==
  ASSUME IInv, TypeOK, PageInv, Deliver
  PROVE  PageInv'
<1> SUFFICES ASSUME gone = {}, ~tangled PROVE PageInv'
  BY DEF PageInv, Deliver, serverVars
<1>1. PICK p \in posts :
        LET left == IF p.kind = "render" THEN {onScreen} ELSE {}
        IN  /\ p.done
            /\ posts' = posts \ {p}
            /\ tables' = [t \in DOMAIN tables \ left |->
                            IF t = p.tab THEN Answered(tables[t], p) ELSE tables[t]]
  BY DEF Deliver
<1>2. UNCHANGED <<store, gone, jcr, tangled>> /\ posts' \subseteq posts /\ p.done
  BY <1>1 DEF Deliver, serverVars
<1>3. Shown' = Shown
  BY <1>2 DEF Shown, Matching
<1>4. DOMAIN tables' \subseteq DOMAIN tables
  BY <1>1
<1>5. ASSUME NEW tb, TableForm(tb)
      PROVE  LET a == Answered(tb, p)
             IN  /\ a.page = tb.page /\ a.rash = tb.rash /\ a.asked = tb.asked
                 /\ a.rows = p.rows /\ a.shown = p.no /\ a.pages = PageCountOf(p.count)
  <2> DEFINE n == PageCountOf(p.count)
             mark == IF tb.page < n THEN tb.page ELSE NoPage
             drawn == [tb EXCEPT !.rows = p.rows, !.pages = n, !.shown = p.no,
                                 !.ask = p.ask, !.kind = p.kind]
             a == Answered(tb, p)
  <2>1. /\ TableForm(drawn)
        /\ drawn.page = tb.page /\ drawn.rash = tb.rash /\ drawn.asked = tb.asked
        /\ drawn.rows = p.rows /\ drawn.shown = p.no /\ drawn.pages = n
    BY <1>5 DEF TableForm
  <2>2. a = CASE p.kind = "render" -> [drawn EXCEPT !.footer = n]
              [] p.kind = "update" -> [drawn EXCEPT !.footer = n, !.hl = mark]
              [] p.kind = "sort"   -> drawn
    BY DEF Answered
  <2>3. p.kind \in Kinds
    BY DEF IInv, TInv, RowsInv
  <2> HIDE DEF n, mark, drawn, a
  <2>4. a \in {[drawn EXCEPT !.footer = n], [drawn EXCEPT !.footer = n, !.hl = mark],
               drawn}
    BY <2>2, <2>3 DEF Kinds
  <2>5. /\ a.page = tb.page /\ a.rash = tb.rash /\ a.asked = tb.asked
        /\ a.rows = p.rows /\ a.shown = p.no /\ a.pages = n
    BY <2>1, <2>4 DEF TableForm
  <2> QED
    BY <2>5 DEF a, n
<1>6. SUFFICES ASSUME NEW t \in DOMAIN tables'
      PROVE /\ Sound(tables'[t]) => jcr.offset < Shown
            /\ tables'[t].shown = tables'[t].asked =>
                 /\ \E n \in 0 .. Shown : tables'[t].pages = PageCountOf(n)
                 /\ Sound(tables'[t]) => /\ tables'[t].rows # {}
                                        /\ tables'[t].page < tables'[t].pages
            /\ \A q \in posts :
                 q.tab = t /\ q.no = tables'[t].asked /\ q.done =>
                   /\ q.count \in 0 .. Shown
                   /\ Sound(tables'[t]) => q.rows # {} /\ jcr.offset < q.count
  BY <1>2, <1>3 DEF PageInv
<1>7. t \in DOMAIN tables
  BY <1>4
<1>8. CASE t = p.tab
  <2>1. tables'[t] = Answered(tables[t], p) /\ TableForm(tables[t])
    BY <1>1, <1>7, <1>8 DEF IInv, TInv, RowsInv
  <2>2. /\ tables'[t].page = tables[t].page /\ tables'[t].rash = tables[t].rash
        /\ tables'[t].asked = tables[t].asked
        /\ tables'[t].rows = p.rows /\ tables'[t].shown = p.no
        /\ tables'[t].pages = PageCountOf(p.count)
    BY <1>5, <2>1
  <2>3. Sound(tables'[t]) <=> Sound(tables[t])
    BY <2>2 DEF Sound
  <2>4. ASSUME Sound(tables'[t]), tables'[t].shown = tables'[t].asked
        PROVE  tables'[t].page < tables'[t].pages
    <3>1. jcr.offset = PageSize * tables[t].page
      BY <1>2, <1>7 DEF IInv, TInv, AgreeInv
    <3>2. jcr.offset < p.count
      BY <1>2, <1>7, <1>8, <2>2, <2>3, <2>4 DEF PageInv
    <3>3. tables[t].page \in Nat /\ p.count \in Nat
      BY <1>7 DEF TypeOK, TableTypeOK, Table, Post
    <3> QED
      BY <2>2, <3>1, <3>2, <3>3, PageIsCounted
  <2> QED
    BY <1>2, <1>7, <1>8, <2>2, <2>3, <2>4 DEF PageInv
<1>9. CASE t # p.tab
  <2>1. tables'[t] = tables[t]
    BY <1>1, <1>9
  <2> QED
    BY <1>7, <2>1 DEF PageInv
<1> QED
  BY <1>8, <1>9

\* Somebody else inserts or deletes a record.
LEMMA ChangeStoreKeepsPages ==
  ASSUME TypeOK, PageInv, ChangeStore, store' \subseteq Records
  PROVE  PageInv'
<1> SUFFICES ASSUME gone' = {}, ~tangled PROVE PageInv'
  BY DEF PageInv, ChangeStore
<1>1. store \subseteq store' /\ gone = {}
  BY DEF ChangeStore
<1>2. UNCHANGED <<jcr, tables, posts, tangled>>
  BY DEF ChangeStore
<1>3. store \in SUBSET Records /\ store' \in SUBSET Records /\ jcr.offset \in Nat
  BY DEF TypeOK, TableTypeOK, Criteria
<1>4. Cardinality(Matching(jcr, store)) <= Cardinality(Matching(jcr, store'))
  BY <1>1, <1>3, MatchingGrows
<1>5. Shown <= Shown' /\ Shown \in Nat /\ Shown' \in Nat
  BY <1>2, <1>3, <1>4, MatchingIsFinite DEF Shown
<1>6. 0 .. Shown \subseteq 0 .. Shown' /\ (jcr.offset < Shown => jcr.offset < Shown')
  BY <1>3, <1>5
<1> QED
  BY <1>1, <1>2, <1>6 DEF PageInv

\* Every step.
LEMMA StepKeepsPages == ASSUME IInv, TypeOK, TypeOK', PageInv, [Next]_vars PROVE PageInv'
<1>1. CASE OpenAvailableItems
  BY <1>1, RenderKeepsPages DEF OpenAvailableItems
<1>2. CASE CloseDialog \/ Select
  <2>1. /\ DOMAIN tables' \subseteq DOMAIN tables
        /\ \A t \in DOMAIN tables' : tables'[t] = tables[t]
        /\ UNCHANGED <<store, gone, jcr, posts, tangled>>
    BY <1>2 DEF CloseDialog, Select, LeavePage, Restrict, serverVars
  <2>2. Shown' = Shown
    BY <2>1 DEF Shown, Matching
  <2> QED
    BY <2>1, <2>2 DEF PageInv
<1>3. CASE UNCHANGED <<store, gone, jcr, tables, posts, tangled>>
  BY <1>3 DEF PageInv, Shown, Matching
<1>4. CASE ClearLookup \/ NameAnswered \/ NameLost \/ UNCHANGED vars
  BY <1>3, <1>4 DEF ClearLookup, NameAnswered, NameLost, vars, tableVars, serverVars
<1>5. CASE TableSteps
  <2>1. store' \subseteq Records
    BY DEF TypeOK, TableTypeOK
  <2> QED
    BY <1>5, <2>1, UserKeepsPages, ServeKeepsPages, DeliverKeepsPages, ChangeStoreKeepsPages
       DEF TableSteps
<1> QED
  BY <1>1, <1>2, <1>4, <1>5 DEF Next

LEMMA PagesInvariant == Spec => []PageInv
<1>1. Init => PageInv
  BY DEF Init, TableInit, PageInv
<1>2. IInv /\ TypeOK /\ TypeOK' /\ PageInv /\ [Next]_vars => PageInv'
  BY StepKeepsPages
<1> QED
  BY <1>1, <1>2, LookupInvariant, TypeCorrect, PTL DEF Spec

\* However clicks, queries and answers interleave, a settled later page shows
\* records and is one of the pages counted, unless some were deleted, the list was opened twice at once, or the
\* page was chosen by a count that was not that of the last answer: going back
\* to the first page in the filters and the search is enough (km.table.js).
THEOREM SettledPagesExist == Spec => []SettledPageExists
<1>1. PageInv => SettledPageExists
  BY DEF PageInv, SettledPageExists, Settled, Sound
<1> QED
  BY <1>1, PagesInvariant, PTL
=============================================================================
