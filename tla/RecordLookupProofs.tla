------------------------- MODULE RecordLookupProofs -------------------------
(***************************************************************************)
(* What holds of RecordLookup for every set of records, every page size,   *)
(* every search panel and any number of tables over the same criteria.     *)
(***************************************************************************)
EXTENDS RecordLookup, TLAPS

Kinds == {"render", "update", "sort"}

\* The fields of criteria, tables and queries.
CriteriaForm(c) == DOMAIN c = {"restr", "order", "offset"}
TableForm(tb) ==
  DOMAIN tb = {"page", "pages", "footer", "hl", "sortOrder", "rows", "asked",
               "shown", "ask", "kind", "rash"}
PostForm(p) == DOMAIN p = {"no", "tab", "kind", "ask", "done", "rows", "count"}

\* Only records that are or were in the database are shown or on their way.
Known == store \cup gone

RowsInv ==
  /\ Known \subseteq Records
  /\ \A t \in DOMAIN tables : TableForm(tables[t]) /\ tables[t].rows \subseteq Known
  /\ \A p \in posts : PostForm(p) /\ p.kind \in Kinds /\ p.rows \subseteq Known

\* The numbers of the queries.
NumbersInv ==
  /\ sent \in Nat
  /\ \A p \in posts : p.no \in Nat /\ p.no <= sent
  /\ \A t \in DOMAIN tables :
       /\ tables[t].asked \in Nat /\ tables[t].asked <= sent
       /\ tables[t].shown \in Nat /\ tables[t].shown <= sent

\* A table is on the screen or being rendered, by one query of its own.
ScreenInv ==
  /\ DOMAIN tables \subseteq TableIds
  /\ onScreen \in DOMAIN tables \cup {NoTable}
  /\ \A p \in posts : p.kind = "render" => p.tab \in DOMAIN tables \ {onScreen}
  /\ \A p, q \in posts :
       p.kind = "render" /\ q.kind = "render" /\ p.tab = q.tab => p = q
  /\ \A t \in DOMAIN tables :
       t = onScreen \/ \E p \in posts : p.kind = "render" /\ p.tab = t

\* The footer has the pages of the result and marks the one the table is on,
\* if it is there.
FooterIsRight(tb) ==
  /\ tb.footer = tb.pages
  /\ tb.hl = IF tb.page < tb.pages THEN tb.page ELSE NoPage

\* While no list was opened twice at once there is one table, the last query
\* it sent carries the present criteria, and so do the rows that answer it.
AgreeInv ==
  ~tangled =>
    /\ \A t, u \in DOMAIN tables : t = u
    /\ \A t \in DOMAIN tables :
         /\ jcr.offset = PageSize * tables[t].page
         /\ \A p \in posts : p.tab = t /\ p.no = tables[t].asked => p.ask = jcr
         /\ tables[t].shown = tables[t].asked => tables[t].ask = jcr
         /\ tables[t].shown = tables[t].asked /\ tables[t].kind = "update" =>
              FooterIsRight(tables[t])

TInv == CriteriaForm(jcr) /\ RowsInv /\ NumbersInv /\ ScreenInv /\ AgreeInv

\* The name is that of the selection, or still asked for.
FieldInv ==
  /\ value \in Known \cup {None}
  /\ \A q \in nameAsks : q.rec \in Records
  /\ lateName \/ name \in {None, value}
  /\ value # None /\ ~nameLost /\ ~lateName =>
       name = value \/ value \in gone \/ \E q \in nameAsks : q.rec = value

IInv == TInv /\ FieldInv

----------------------------------------------------------------------------
(* Tables.                                                                 *)

\* The rows of a page are records of the database.
LEMMA PagesAreRecords ==
  ASSUME NEW c, NEW S, NEW P \in PagesOf(c, S)
  PROVE  P \subseteq S
<1> DEFINE R == Matching(c, S)
<1>1. R \subseteq S
  BY DEF Matching
<1>2. P \subseteq R
  BY DEF PagesOf
<1> QED
  BY <1>1, <1>2

\* Criteria with another offset.
LEMMA OffsetForm ==
  ASSUME NEW c, CriteriaForm(c), NEW v
  PROVE  CriteriaForm([c EXCEPT !.offset = v]) /\ [c EXCEPT !.offset = v].offset = v
BY DEF CriteriaForm

\* A table after a callback.
LEMMA AnsweredForm ==
  ASSUME NEW tb, TableForm(tb), NEW p, p.kind \in Kinds,
         NEW a, a = Answered(tb, p)
  PROVE  /\ TableForm(a)
         /\ a.rows = p.rows /\ a.shown = p.no /\ a.ask = p.ask /\ a.kind = p.kind
         /\ a.asked = tb.asked /\ a.page = tb.page
         /\ p.kind = "update" => FooterIsRight(a)
<1> DEFINE n == PageCountOf(p.count)
           mark == IF tb.page < n THEN tb.page ELSE NoPage
           drawn == [tb EXCEPT !.rows = p.rows, !.pages = n, !.shown = p.no,
                               !.ask = p.ask, !.kind = p.kind]
<1>1. /\ TableForm(drawn)
      /\ drawn.rows = p.rows /\ drawn.shown = p.no /\ drawn.ask = p.ask
      /\ drawn.kind = p.kind /\ drawn.asked = tb.asked /\ drawn.page = tb.page
      /\ drawn.pages = n
  BY DEF TableForm
<1>2. a = CASE p.kind = "render" -> [drawn EXCEPT !.footer = n]
            [] p.kind = "update" -> [drawn EXCEPT !.footer = n, !.hl = mark]
            [] p.kind = "sort"   -> drawn
  BY DEF Answered
<1>6. mark = IF tb.page < n THEN tb.page ELSE NoPage
  OBVIOUS
<1> HIDE DEF n, drawn, mark
<1>3. CASE p.kind = "render"
  <2>1. a = [drawn EXCEPT !.footer = n]
    BY <1>2, <1>3
  <2> QED
    BY <1>1, <1>3, <2>1 DEF TableForm
<1>4. CASE p.kind = "update"
  <2>1. a = [drawn EXCEPT !.footer = n, !.hl = mark]
    BY <1>2, <1>4
  <2>2. a.footer = n /\ a.hl = mark /\ a.page = tb.page /\ a.pages = n
    BY <1>1, <2>1 DEF TableForm
  <2>3. FooterIsRight(a)
    BY <1>6, <2>2 DEF FooterIsRight
  <2> QED
    BY <1>1, <1>4, <2>1, <2>3 DEF TableForm
<1>5. CASE p.kind = "sort"
  BY <1>1, <1>2, <1>5
<1> QED
  BY <1>3, <1>4, <1>5 DEF Kinds

LEMMA InitTables == Init => TInv
<1> SUFFICES ASSUME Init PROVE TInv
  OBVIOUS
<1>1. CriteriaForm(jcr)
  BY DEF Init, TableInit, EmptyCriteria, CriteriaForm
<1>2. DOMAIN tables = {} /\ posts = {} /\ onScreen = NoTable /\ sent = 0
      /\ store \subseteq Records /\ gone = {}
  BY DEF Init, TableInit
<1> QED
  BY <1>1, <1>2 DEF TInv, RowsInv, NumbersInv, ScreenInv, AgreeInv, Known

\* Sending queries from the table on the screen.
LEMMA SendKeepsTables ==
  ASSUME TInv, NEW t \in DOMAIN tables, NEW tb, NEW c, NEW kinds,
         kinds \in {<<"update">>, <<"sort">>, <<"update", "update">>},
         Send(t, tb, c, kinds), TableForm(tb), CriteriaForm(c),
         tb.rows = tables[t].rows, tb.shown = tables[t].shown,
         ~tangled => c.offset = PageSize * tb.page,
         UNCHANGED <<store, gone, onScreen, tangled>>
  PROVE  TInv'
<1> USE DEF TInv
<1> DEFINE n == Len(kinds)
           new == {Query(t, sent + i, kinds[i], c) : i \in 1..n}
<1>1. n \in {1, 2} /\ \A i \in 1..n : kinds[i] \in {"update", "sort"}
  OBVIOUS
<1>2. /\ jcr' = c
      /\ posts' = posts \cup new
      /\ sent' = sent + n
      /\ DOMAIN tables' = DOMAIN tables
      /\ \A x \in DOMAIN tables : x # t => tables'[x] = tables[x]
      /\ tables'[t] = [tb EXCEPT !.asked = sent + n]
  BY DEF Send
<1>3. /\ TableForm(tables'[t])
      /\ tables'[t].asked = sent + n
      /\ tables'[t].shown = tables[t].shown
      /\ tables'[t].rows = tables[t].rows
      /\ tables'[t].page = tb.page
  BY <1>2 DEF TableForm
<1>4. \A p \in new : /\ PostForm(p) /\ p.kind \in {"update", "sort"} /\ p.rows = {}
                     /\ p.no \in {sent + i : i \in 1..n} /\ p.tab = t /\ p.ask = c
  BY <1>1 DEF Query, PostForm
<1> HIDE DEF n, new
<1>5. CriteriaForm(jcr)'
  BY <1>2 DEF CriteriaForm
<1>6. RowsInv'
  <2>1. Known' = Known
    BY DEF Known
  <2>2. \A x \in DOMAIN tables' : TableForm(tables'[x]) /\ tables'[x].rows \subseteq Known
    BY <1>2, <1>3 DEF RowsInv
  <2>3. \A p \in posts' : PostForm(p) /\ p.kind \in Kinds /\ p.rows \subseteq Known
    BY <1>2, <1>4 DEF RowsInv, Kinds
  <2> QED
    BY <2>1, <2>2, <2>3 DEF RowsInv, TableForm, PostForm
<1>7. NumbersInv'
  <2>1. sent \in Nat /\ sent' = sent + n
    BY <1>2 DEF NumbersInv
  <2>2. \A p \in posts' : p.no \in Nat /\ p.no <= sent'
    BY <1>1, <1>2, <1>4, <2>1 DEF NumbersInv
  <2>3. \A x \in DOMAIN tables' :
          /\ tables'[x].asked \in Nat /\ tables'[x].asked <= sent'
          /\ tables'[x].shown \in Nat /\ tables'[x].shown <= sent'
    <3> SUFFICES ASSUME NEW x \in DOMAIN tables'
                 PROVE  /\ tables'[x].asked \in Nat /\ tables'[x].asked <= sent'
                        /\ tables'[x].shown \in Nat /\ tables'[x].shown <= sent'
      OBVIOUS
    <3>1. /\ tables[x].asked \in Nat /\ tables[x].asked <= sent
          /\ tables[x].shown \in Nat /\ tables[x].shown <= sent
      BY <1>2 DEF NumbersInv
    <3>2. CASE x = t
      BY <1>1, <1>3, <2>1, <3>1, <3>2
    <3>3. CASE x # t
      BY <1>1, <1>2, <2>1, <3>1, <3>3
    <3> QED
      BY <3>2, <3>3
  <2> QED
    BY <1>1, <2>1, <2>2, <2>3 DEF NumbersInv
<1>8. ScreenInv'
  <2>1. \A p \in posts' : p.kind = "render" => p \in posts
    BY <1>2, <1>4
  <2> QED
    BY <1>2, <2>1 DEF ScreenInv
<1>9. AgreeInv'
  <2> SUFFICES ASSUME ~tangled PROVE AgreeInv'
    BY DEF AgreeInv
  <2>1. DOMAIN tables = {t}
    BY DEF AgreeInv
  <2>2. \A p \in posts' : p.no = sent + n => p.ask = c
    <3>1. \A p \in posts : p.no # sent + n
      BY <1>1 DEF NumbersInv
    <3> QED
      BY <1>2, <1>4, <3>1
  <2>3. tables'[t].shown # tables'[t].asked
    BY <1>1, <1>3 DEF NumbersInv
  <2>4. jcr'.offset = PageSize * tables'[t].page
    BY <1>2, <1>3
  <2>5. \A p \in posts' : p.no = tables'[t].asked => p.ask = jcr'
    BY <1>2, <1>3, <2>2
  <2>6. DOMAIN tables' = {t}
    BY <1>2, <2>1
  <2> QED
    BY <2>3, <2>4, <2>5, <2>6 DEF AgreeInv
<1> QED
  BY <1>5, <1>6, <1>7, <1>8, <1>9

\* Opening a list.
LEMMA RenderKeepsTables ==
  ASSUME TInv, onScreen = NoTable, NEW t \in TableIds, RenderTable(t)
  PROVE  TInv'
<1> USE DEF TInv
<1> DEFINE c == [jcr EXCEPT !.offset = 0]
           q == Query(t, sent + 1, "render", c)
<1>1. Send(t, NewTable, c, <<"render">>)
  BY DEF RenderTable
<1>2. /\ jcr' = c
      /\ sent' = sent + 1
      /\ DOMAIN tables' = DOMAIN tables \cup {t}
      /\ \A x \in DOMAIN tables' : x # t => tables'[x] = tables[x]
      /\ tables'[t] = [NewTable EXCEPT !.asked = sent + 1]
  BY <1>1 DEF Send
<1>3. posts' = posts \cup {q}
  <2>1. {Query(t, sent + i, <<"render">>[i], c) : i \in 1..Len(<<"render">>)} = {q}
    OBVIOUS
  <2> QED
    BY <1>1, <2>1 DEF Send
<1>4. /\ TableForm(tables'[t])
      /\ tables'[t].asked = sent + 1 /\ tables'[t].shown = 0
      /\ tables'[t].rows = {} /\ tables'[t].page = 0
  BY <1>2 DEF TableForm, NewTable
<1>5. /\ PostForm(q) /\ q.kind = "render" /\ q.rows = {} /\ q.no = sent + 1
      /\ q.tab = t /\ q.ask = c
  BY DEF Query, PostForm
<1>6. CriteriaForm(c) /\ c.offset = 0
  BY DEF CriteriaForm
<1>7. /\ t \notin DOMAIN tables
      /\ \A p \in posts : p.tab # t
      /\ t # NoTable
      /\ UNCHANGED <<store, gone, onScreen>>
      /\ tangled' = (tangled \/ Rendering # {})
  BY NoTableAssumption DEF RenderTable, FreeTables, serverVars
<1>8. CriteriaForm(jcr)'
  BY <1>2, <1>6 DEF CriteriaForm
<1>9. RowsInv'
  <2>1. Known' = Known
    BY <1>7 DEF Known
  <2>2. \A x \in DOMAIN tables' : TableForm(tables'[x]) /\ tables'[x].rows \subseteq Known
    BY <1>2, <1>4 DEF RowsInv
  <2>3. \A p \in posts' : PostForm(p) /\ p.kind \in Kinds /\ p.rows \subseteq Known
    BY <1>3, <1>5 DEF RowsInv, Kinds
  <2> QED
    BY <2>1, <2>2, <2>3 DEF RowsInv, TableForm, PostForm
<1>10. NumbersInv'
  <2>1. \A p \in posts' : p.no \in Nat /\ p.no <= sent'
    BY <1>2, <1>3, <1>5 DEF NumbersInv
  <2>2. \A x \in DOMAIN tables' :
          /\ tables'[x].asked \in Nat /\ tables'[x].asked <= sent'
          /\ tables'[x].shown \in Nat /\ tables'[x].shown <= sent'
    <3> SUFFICES ASSUME NEW x \in DOMAIN tables'
                 PROVE  /\ tables'[x].asked \in Nat /\ tables'[x].asked <= sent'
                        /\ tables'[x].shown \in Nat /\ tables'[x].shown <= sent'
      OBVIOUS
    <3>1. CASE x = t
      <4>1. sent \in Nat
        BY DEF NumbersInv
      <4>2. sent + 1 \in Nat /\ sent' = sent + 1
        BY <1>2, <4>1
      <4>3. tables'[x].asked = sent' /\ tables'[x].shown = 0
        BY <1>2, <1>4, <3>1
      <4> QED
        BY <4>2, <4>3
    <3>2. CASE x # t
      <4>1. x \in DOMAIN tables /\ tables'[x] = tables[x]
        BY <1>2, <3>2
      <4> QED
        BY <1>2, <4>1 DEF NumbersInv
    <3> QED
      BY <3>1, <3>2
  <2> QED
    BY <1>2, <2>1, <2>2 DEF NumbersInv
<1>11. ScreenInv'
  BY <1>2, <1>3, <1>5, <1>7 DEF ScreenInv
<1>12. AgreeInv'
  <2> SUFFICES ASSUME ~tangled' PROVE AgreeInv'
    BY DEF AgreeInv
  <2>1. DOMAIN tables = {}
    <3>1. Rendering = {}
      BY <1>7
    <3>2. \A p \in posts : p.kind # "render"
      BY <3>1 DEF Rendering
    <3>3. \A x \in DOMAIN tables : x = NoTable
      BY <3>2 DEF ScreenInv
    <3>4. NoTable \notin DOMAIN tables
      BY NoTableAssumption DEF ScreenInv
    <3> QED
      BY <3>3, <3>4
  <2>2. DOMAIN tables' = {t}
    BY <1>2, <2>1
  <2>3. jcr'.offset = PageSize * tables'[t].page
    BY <1>2, <1>4, <1>6, PageSizeAssumption
  <2>4. \A p \in posts' : p.tab = t => p.ask = jcr'
    BY <1>2, <1>3, <1>5, <1>7
  <2>5. tables'[t].shown # tables'[t].asked
    BY <1>4 DEF NumbersInv
  <2> QED
    BY <2>2, <2>3, <2>4, <2>5 DEF AgreeInv
<1> QED
  BY <1>8, <1>9, <1>10, <1>11, <1>12
----------------------------------------------------------------------------
\* Going to page i of the table on the screen.
LEMMA GoToPageKeepsTables ==
  ASSUME TInv, NEW t \in DOMAIN tables, NEW c, NEW i, NEW kinds, NEW rash,
         kinds \in {<<"update">>, <<"update", "update">>},
         GoToPage(t, c, i, kinds, rash), CriteriaForm(c),
         UNCHANGED <<store, gone, onScreen, tangled>>
  PROVE  TInv'
<1> DEFINE tb == [tables[t] EXCEPT !.page = i, !.rash = rash]
           to == [c EXCEPT !.offset = PageSize * i]
<1>1. TableForm(tables[t])
  BY DEF TInv, RowsInv
<1>2. /\ TableForm(tb)
      /\ tb.rows = tables[t].rows /\ tb.shown = tables[t].shown /\ tb.page = i
  BY <1>1 DEF TableForm
<1>3. CriteriaForm(to) /\ to.offset = PageSize * i
  BY OffsetForm
<1>4. Send(t, tb, to, kinds)
  BY DEF GoToPage
<1> HIDE DEF tb, to
<1> QED
  BY <1>2, <1>3, <1>4, SendKeepsTables

\* What the user does with the table on the screen.
LEMMA UserKeepsTables ==
  ASSUME TInv, NEW t \in TableIds,
         \/ ClickPage(t) \/ PrevPage(t) \/ NextPage(t)
         \/ SortColumn(t) \/ FilterColumn(t) \/ ClearFilter(t) \/ Search(t)
  PROVE  TInv'
<1>1. t \in DOMAIN tables /\ UNCHANGED <<store, gone, onScreen, tangled>>
  BY DEF ClickPage, PrevPage, NextPage, SortColumn, FilterColumn, ClearFilter, Search,
         UsesTable, serverVars
<1>2. CriteriaForm(jcr) /\ TableForm(tables[t])
  BY <1>1 DEF TInv, RowsInv
<1>3. CASE \E i, rash : GoToPage(t, jcr, i, <<"update">>, rash)
  <2>1. PICK i, rash : GoToPage(t, jcr, i, <<"update">>, rash)
    BY <1>3
  <2> QED
    BY <1>1, <1>2, <2>1, GoToPageKeepsTables
<1>4. CASE \E r, rash :
            GoToPage(t, [jcr EXCEPT !.restr = r], 0, <<"update", "update">>, rash)
  <2>1. PICK r, rash :
          GoToPage(t, [jcr EXCEPT !.restr = r], 0, <<"update", "update">>, rash)
    BY <1>4
  <2> DEFINE c == [jcr EXCEPT !.restr = r]
  <2>2. CriteriaForm(c)
    BY <1>2 DEF CriteriaForm
  <2> HIDE DEF c
  <2>3. GoToPage(t, c, 0, <<"update", "update">>, rash)
    BY <2>1 DEF c
  <2> QED
    BY <1>1, <2>2, <2>3, GoToPageKeepsTables
<1>5. CASE \E r : Send(t, tables[t], [jcr EXCEPT !.restr = r], <<"update">>)
  <2>1. PICK r : Send(t, tables[t], [jcr EXCEPT !.restr = r], <<"update">>)
    BY <1>5
  <2> DEFINE c == [jcr EXCEPT !.restr = r]
  <2>2. CriteriaForm(c) /\ c.offset = jcr.offset
    BY <1>2 DEF CriteriaForm
  <2>3. ~tangled => jcr.offset = PageSize * tables[t].page
    BY <1>1 DEF TInv, AgreeInv
  <2> HIDE DEF c
  <2>4. Send(t, tables[t], c, <<"update">>)
    BY <2>1 DEF c
  <2> QED
    BY <1>1, <1>2, <2>2, <2>3, <2>4, SendKeepsTables
<1>6. CASE \E d : Send(t, [tables[t] EXCEPT !.sortOrder = d],
                       [jcr EXCEPT !.order = d], <<"sort">>)
  <2>1. PICK d : Send(t, [tables[t] EXCEPT !.sortOrder = d],
                      [jcr EXCEPT !.order = d], <<"sort">>)
    BY <1>6
  <2> DEFINE c == [jcr EXCEPT !.order = d]
             tb == [tables[t] EXCEPT !.sortOrder = d]
  <2>2. CriteriaForm(c) /\ c.offset = jcr.offset
    BY <1>2 DEF CriteriaForm
  <2>3. /\ TableForm(tb)
        /\ tb.rows = tables[t].rows /\ tb.shown = tables[t].shown
        /\ tb.page = tables[t].page
    BY <1>2 DEF TableForm
  <2>4. ~tangled => jcr.offset = PageSize * tables[t].page
    BY <1>1 DEF TInv, AgreeInv
  <2> HIDE DEF c, tb
  <2>5. Send(t, tb, c, <<"sort">>)
    BY <2>1 DEF c, tb
  <2> QED
    BY <1>1, <2>2, <2>3, <2>4, <2>5, SendKeepsTables
<1>7. CASE ClickPage(t) \/ PrevPage(t) \/ NextPage(t)
  BY <1>3, <1>7 DEF ClickPage, PrevPage, NextPage
<1>8. CASE FilterColumn(t)
  BY <1>4, <1>8 DEF FilterColumn
<1>9. CASE Search(t)
  BY <1>4, <1>9 DEF Search
<1>10. CASE ClearFilter(t)
  BY <1>5, <1>10 DEF ClearFilter
<1>11. CASE SortColumn(t)
  BY <1>6, <1>11 DEF SortColumn
<1> QED
  BY <1>7, <1>8, <1>9, <1>10, <1>11

\* The server answers a query.
LEMMA ServeKeepsTables == TInv /\ Serve => TInv'
<1> SUFFICES ASSUME TInv, Serve PROVE TInv'
  OBVIOUS
<1> USE DEF TInv
<1>1. PICK p \in posts : \E P \in PagesOf(p.ask, store) :
        posts' = (posts \ {p}) \cup
          {[p EXCEPT !.done = TRUE, !.rows = P,
              !.count = Cardinality(Matching(p.ask, store))]}
  BY DEF Serve
<1>2. PICK P \in PagesOf(p.ask, store) :
        posts' = (posts \ {p}) \cup
          {[p EXCEPT !.done = TRUE, !.rows = P,
              !.count = Cardinality(Matching(p.ask, store))]}
  BY <1>1
<1> DEFINE q == [p EXCEPT !.done = TRUE, !.rows = P,
                   !.count = Cardinality(Matching(p.ask, store))]
<1>3. PostForm(p)
  BY DEF RowsInv
<1>4. /\ PostForm(q) /\ q.rows = P
      /\ q.no = p.no /\ q.tab = p.tab /\ q.kind = p.kind /\ q.ask = p.ask
  BY <1>3 DEF PostForm
<1>5. posts' = (posts \ {p}) \cup {q}
  BY <1>2
<1> HIDE DEF q
<1>6. UNCHANGED <<store, gone, jcr, tables, onScreen, sent, tangled>>
  BY DEF Serve, serverVars
<1>7. P \subseteq Known
  BY PagesAreRecords DEF Known
<1>8. CriteriaForm(jcr)'
  BY <1>6
<1>9. RowsInv'
  <2>1. \A x \in posts' : PostForm(x) /\ x.kind \in Kinds /\ x.rows \subseteq Known
    BY <1>4, <1>5, <1>7 DEF RowsInv
  <2> QED
    BY <1>6, <2>1 DEF RowsInv, Known
<1>10. NumbersInv'
  BY <1>4, <1>5, <1>6 DEF NumbersInv
<1>11. ScreenInv'
  <2>1. \A x \in posts' : x.kind = "render" => x.tab \in DOMAIN tables \ {onScreen}
    BY <1>4, <1>5 DEF ScreenInv
  <2>2. \A x, y \in posts' :
          x.kind = "render" /\ y.kind = "render" /\ x.tab = y.tab => x = y
    BY <1>4, <1>5 DEF ScreenInv
  <2>3. \A t \in DOMAIN tables :
          t = onScreen \/ \E x \in posts' : x.kind = "render" /\ x.tab = t
    <3> SUFFICES ASSUME NEW t \in DOMAIN tables, t # onScreen
                 PROVE  \E x \in posts' : x.kind = "render" /\ x.tab = t
      OBVIOUS
    <3>1. PICK x \in posts : x.kind = "render" /\ x.tab = t
      BY DEF ScreenInv
    <3> QED
      BY <1>4, <1>5, <3>1
  <2> QED
    BY <1>6, <2>1, <2>2, <2>3 DEF ScreenInv
<1>12. AgreeInv'
  BY <1>4, <1>5, <1>6 DEF AgreeInv
<1> QED
  BY <1>8, <1>9, <1>10, <1>11, <1>12

\* Somebody else inserts or deletes a record.
LEMMA ChangeStoreKeepsTables == TInv /\ ChangeStore => TInv'
<1> SUFFICES ASSUME TInv, ChangeStore PROVE TInv'
  OBVIOUS
<1>1. Known \subseteq Known' /\ Known' \subseteq Records
  BY DEF ChangeStore, Known, TInv, RowsInv
<1>2. UNCHANGED <<jcr, tables, onScreen, posts, sent, tangled>>
  BY DEF ChangeStore
<1>3. RowsInv'
  BY <1>1, <1>2 DEF TInv, RowsInv
<1> QED
  BY <1>2, <1>3 DEF TInv, NumbersInv, ScreenInv, AgreeInv, CriteriaForm

\* The callback runs.
LEMMA DeliverKeepsTables == TInv /\ Deliver => TInv'
<1> SUFFICES ASSUME TInv, Deliver PROVE TInv'
  OBVIOUS
<1> USE DEF TInv
<1>1. PICK p \in posts :
        LET left == IF p.kind = "render" THEN {onScreen} ELSE {}
        IN  /\ p.done
            /\ posts' = posts \ {p}
            /\ tables' = [t \in DOMAIN tables \ left |->
                            IF t = p.tab THEN Answered(tables[t], p) ELSE tables[t]]
            /\ onScreen' = IF p.kind = "render" THEN p.tab ELSE onScreen
  BY DEF Deliver
<1>2. UNCHANGED <<store, gone, jcr, sent, tangled>>
  BY DEF Deliver, serverVars
<1>3. p.kind \in Kinds /\ p.rows \subseteq Known /\ p.no \in Nat /\ p.no <= sent
  BY DEF RowsInv, NumbersInv
<1>4. /\ DOMAIN tables' \subseteq DOMAIN tables
      /\ \A t \in DOMAIN tables' :
           tables'[t] = IF t = p.tab THEN Answered(tables[t], p) ELSE tables[t]
  BY <1>1
<1>5. \A t \in DOMAIN tables' : t # p.tab => tables'[t] = tables[t]
  BY <1>4
<1>6. ASSUME NEW t \in DOMAIN tables', t = p.tab
      PROVE  /\ TableForm(tables'[t])
             /\ tables'[t].rows = p.rows /\ tables'[t].shown = p.no
             /\ tables'[t].ask = p.ask /\ tables'[t].kind = p.kind
             /\ tables'[t].asked = tables[t].asked
             /\ tables'[t].page = tables[t].page
             /\ p.kind = "update" => FooterIsRight(tables'[t])
  <2>1. tables'[t] = Answered(tables[t], p) /\ TableForm(tables[t])
    BY <1>4, <1>6 DEF RowsInv
  <2> QED
    BY <2>1, <1>3, AnsweredForm
<1>7. posts' = posts \ {p}
  BY <1>1
<1>8. RowsInv'
  <2>1. \A t \in DOMAIN tables' : TableForm(tables'[t]) /\ tables'[t].rows \subseteq Known
    BY <1>3, <1>4, <1>5, <1>6 DEF RowsInv
  <2> QED
    BY <1>2, <1>7, <2>1 DEF RowsInv, Known
<1>9. NumbersInv'
  <2>1. \A t \in DOMAIN tables' :
          /\ tables'[t].asked \in Nat /\ tables'[t].asked <= sent
          /\ tables'[t].shown \in Nat /\ tables'[t].shown <= sent
    BY <1>3, <1>4, <1>5, <1>6 DEF NumbersInv
  <2> QED
    BY <1>2, <1>7, <2>1 DEF NumbersInv
<1>10. ScreenInv'
  <2>1. CASE p.kind = "render"
    <3>1. p.tab \in DOMAIN tables \ {onScreen} /\ onScreen' = p.tab
      BY <1>1, <2>1 DEF ScreenInv
    <3>2. DOMAIN tables' = DOMAIN tables \ {onScreen}
      BY <1>1, <2>1
    <3>3. \A q \in posts' : q.kind = "render" => q.tab # p.tab /\ q \in posts
      BY <1>7, <2>1 DEF ScreenInv
    <3>4. \A t \in DOMAIN tables' :
            t = onScreen' \/ \E q \in posts' : q.kind = "render" /\ q.tab = t
      BY <1>7, <3>1, <3>2 DEF ScreenInv
    <3> QED
      BY <3>1, <3>2, <3>3, <3>4 DEF ScreenInv
  <2>2. CASE p.kind # "render"
    <3>1. onScreen' = onScreen /\ DOMAIN tables' = DOMAIN tables
      BY <1>1, <2>2
    <3> QED
      BY <1>7, <2>2, <3>1 DEF ScreenInv
  <2> QED
    BY <2>1, <2>2
<1>11. AgreeInv'
  <2> SUFFICES ASSUME ~tangled, NEW t \in DOMAIN tables'
               PROVE  /\ \A u \in DOMAIN tables' : t = u
                      /\ jcr.offset = PageSize * tables'[t].page
                      /\ \A q \in posts' : q.tab = t /\ q.no = tables'[t].asked => q.ask = jcr
                      /\ tables'[t].shown = tables'[t].asked => tables'[t].ask = jcr
                      /\ tables'[t].shown = tables'[t].asked /\ tables'[t].kind = "update" =>
                           FooterIsRight(tables'[t])
    BY <1>2 DEF AgreeInv
  <2>1. t \in DOMAIN tables /\ \A u \in DOMAIN tables' : t = u
    BY <1>4 DEF AgreeInv
  <2>2. CASE t = p.tab
    BY <1>6, <1>7, <2>1, <2>2 DEF AgreeInv
  <2>3. CASE t # p.tab
    BY <1>5, <1>7, <2>1, <2>3 DEF AgreeInv
  <2> QED
    BY <2>2, <2>3
<1> QED
  BY <1>2, <1>8, <1>9, <1>10, <1>11 DEF CriteriaForm

\* The table leaves the page.
LEMMA LeaveKeepsTables ==
  ASSUME TInv, onScreen # NoTable, onScreen' = NoTable,
         tables' = Restrict(tables, DOMAIN tables \ {onScreen}),
         UNCHANGED <<store, gone, jcr, posts, tangled>>,
         sent' \in Nat, sent <= sent'
  PROVE  TInv'
<1> USE DEF TInv
<1>1. /\ DOMAIN tables' = DOMAIN tables \ {onScreen}
      /\ \A t \in DOMAIN tables' : tables'[t] = tables[t]
  BY DEF Restrict
<1>2. RowsInv'
  BY <1>1 DEF RowsInv, Known
<1>3. NumbersInv'
  BY <1>1 DEF NumbersInv
<1>4. ScreenInv'
  <2>1. NoTable \notin DOMAIN tables
    BY NoTableAssumption DEF ScreenInv
  <2>2. \A p \in posts : p.kind = "render" => p.tab \in DOMAIN tables' \ {NoTable}
    BY <1>1, <2>1 DEF ScreenInv
  <2>3. \A t \in DOMAIN tables' : \E p \in posts : p.kind = "render" /\ p.tab = t
    BY <1>1 DEF ScreenInv
  <2> QED
    BY <1>1, <2>2, <2>3 DEF ScreenInv
<1>5. AgreeInv'
  <2> SUFFICES ASSUME ~tangled, NEW t \in DOMAIN tables'
               PROVE  /\ \A u \in DOMAIN tables' : t = u
                      /\ jcr.offset = PageSize * tables'[t].page
                      /\ \A q \in posts : q.tab = t /\ q.no = tables'[t].asked => q.ask = jcr
                      /\ tables'[t].shown = tables'[t].asked => tables'[t].ask = jcr
                      /\ tables'[t].shown = tables'[t].asked /\ tables'[t].kind = "update" =>
                           FooterIsRight(tables'[t])
    BY DEF AgreeInv
  <2>1. t \in DOMAIN tables /\ tables'[t] = tables[t]
    BY <1>1
  <2>2. \A u \in DOMAIN tables' : t = u
    BY <1>1, <2>1 DEF AgreeInv
  <2> QED
    BY <2>1, <2>2 DEF AgreeInv
<1> QED
  BY <1>2, <1>3, <1>4, <1>5 DEF CriteriaForm

\* Every step.
LEMMA StepKeepsTables == TInv /\ [Next]_vars => TInv'
<1> SUFFICES ASSUME TInv, [Next]_vars PROVE TInv'
  OBVIOUS
<1>1. CASE OpenAvailableItems
  BY <1>1, RenderKeepsTables DEF OpenAvailableItems
<1>2. CASE CloseDialog \/ Select
  <2>1. sent' \in Nat /\ sent <= sent'
    BY <1>2 DEF CloseDialog, Select, TInv, NumbersInv
  <2> QED
    BY <1>2, <2>1, LeaveKeepsTables DEF CloseDialog, Select, LeavePage, serverVars
<1>3. CASE UNCHANGED <<store, gone, jcr, tables, onScreen, posts, sent, tangled>>
  BY <1>3 DEF TInv, RowsInv, Known, NumbersInv, ScreenInv, AgreeInv, CriteriaForm,
              TableForm, PostForm
<1>4. CASE ClearLookup \/ NameAnswered \/ NameLost \/ UNCHANGED vars
  BY <1>3, <1>4 DEF ClearLookup, NameAnswered, NameLost, vars, tableVars, serverVars
<1>5. CASE TableSteps
  BY <1>5, UserKeepsTables, ServeKeepsTables, DeliverKeepsTables, ChangeStoreKeepsTables
     DEF TableSteps
<1> QED
  BY <1>1, <1>2, <1>4, <1>5 DEF Next

----------------------------------------------------------------------------
(* The field.                                                              *)

\* A lookup that comes with a record asks for its name.
LEMMA InitAsks ==
  Init => /\ \A q \in nameAsks : q.rec = value /\ value # None
          /\ value # None => \E q \in nameAsks : q.rec = value
<1> SUFFICES ASSUME Init
             PROVE  /\ \A q \in nameAsks : q.rec = value /\ value # None
                    /\ value # None => \E q \in nameAsks : q.rec = value
  OBVIOUS
<1>1. \A q \in nameAsks : q.rec = value /\ value # None
  BY DEF Init
<1>2. ASSUME value # None PROVE \E q \in nameAsks : q.rec = value
  <2>1. [no |-> 0, rec |-> value] \in nameAsks
    BY <1>2 DEF Init
  <2> QED
    BY <2>1
<1> QED
  BY <1>1, <1>2

LEMMA InitField == Init => FieldInv
<1> SUFFICES ASSUME Init PROVE FieldInv
  OBVIOUS
<1>1. store \subseteq Records /\ gone = {} /\ value \in store \cup {None} /\ name = None
  BY DEF Init, TableInit
<1> QED
  BY <1>1, InitAsks DEF FieldInv, Known

\* A record that is on the screen is known.
LEMMA RowsAreKnown ==
  ASSUME TInv, onScreen # NoTable
  PROVE  tables[onScreen].rows \subseteq Known
BY DEF TInv, RowsInv, ScreenInv

LEMMA StepKeepsField == IInv /\ [Next]_vars => FieldInv'
<1> SUFFICES ASSUME TInv, FieldInv, [Next]_vars PROVE FieldInv'
  BY DEF IInv
<1>0. Known \subseteq Records
  BY DEF TInv, RowsInv
<1>1. CASE UNCHANGED <<store, gone, fieldVars>>
  BY <1>1 DEF FieldInv, Known, fieldVars
<1>2. CASE OpenAvailableItems \/ CloseDialog \/ UNCHANGED vars
  BY <1>1, <1>2 DEF OpenAvailableItems, RenderTable, CloseDialog, LeavePage, serverVars,
                    vars, tableVars
<1>3. CASE Select
  <2>1. PICK r \in tables[onScreen].rows :
          /\ value' = r
          /\ name' = None
          /\ nameAsks' = nameAsks \cup {[no |-> sent + 1, rec |-> r]}
    BY <1>3 DEF Select
  <2>2. UNCHANGED <<store, gone, nameLost, lateName>> /\ onScreen # NoTable
    BY <1>3 DEF Select, LeavePage, serverVars
  <2>3. r \in Known
    BY <2>2, RowsAreKnown
  <2> DEFINE q == [no |-> sent + 1, rec |-> r]
  <2>4. q.rec = r /\ nameAsks' = nameAsks \cup {q}
    BY <2>1
  <2> HIDE DEF q
  <2> QED
    BY <1>0, <2>1, <2>2, <2>3, <2>4 DEF FieldInv, Known
<1>4. CASE ClearLookup
  BY <1>4 DEF ClearLookup, serverVars, FieldInv, Known
<1>5. CASE NameAnswered
  <2>1. PICK q \in nameAsks :
          /\ nameAsks' = nameAsks \ {q}
          /\ name' = IF q.rec \in store THEN q.rec ELSE name
          /\ lateName' = (lateName \/ q.rec # value)
    BY <1>5 DEF NameAnswered
  <2>2. UNCHANGED <<store, gone, value, nameLost>>
    BY <1>5 DEF NameAnswered, tableVars
  <2>3. ASSUME ~lateName' PROVE q.rec = value /\ ~lateName
    BY <2>1, <2>3
  <2>4. lateName' \/ name' \in {None, value}
    BY <2>1, <2>3 DEF FieldInv
  <2>5. value # None /\ ~nameLost /\ ~lateName' => name' = value \/ value \in gone
    BY <2>1, <2>3 DEF FieldInv, Known
  <2> QED
    BY <2>1, <2>2, <2>4, <2>5 DEF FieldInv, Known
<1>6. CASE NameLost
  BY <1>6 DEF NameLost, tableVars, FieldInv, Known
<1>7. CASE TableSteps /\ UNCHANGED fieldVars
  <2>1. Known \subseteq Known' /\ gone \subseteq gone'
    BY <1>7 DEF TableSteps, ClickPage, PrevPage, NextPage, SortColumn, FilterColumn,
                ClearFilter, Search, UsesTable, serverVars, Serve, Deliver, ChangeStore, Known
  <2> QED
    BY <1>7, <2>1 DEF FieldInv, fieldVars
<1> QED
  BY <1>2, <1>3, <1>4, <1>5, <1>6, <1>7 DEF Next

\* The invariant of the lookup.
THEOREM LookupInvariant == Spec => []IInv
<1>1. Init => IInv
  BY InitTables, InitField DEF IInv
<1>2. IInv /\ [Next]_vars => IInv'
  BY StepKeepsTables, StepKeepsField DEF IInv
<1> QED
  BY <1>1, <1>2, PTL DEF Spec

----------------------------------------------------------------------------
\* Whatever the order of the answers, a settled view, its footer and the
\* criteria agree unless the list was opened twice at once; a page that does
\* not exist any more is marked nowhere (km.table.js, km.ref.js).
THEOREM ScreenIsRight == Spec => []ScreenAgreesWithCriteria
<1>1. IInv => ScreenAgreesWithCriteria
  BY DEF IInv, TInv, AgreeInv, FooterIsRight, ScreenAgreesWithCriteria, Settled
<1> QED
  BY <1>1, LookupInvariant, PTL

\* When all is quiet the field shows the name of the record it submits, unless
\* a request failed, an answer came late, or the record is gone (km.ref.js).
THEOREM NameIsRight == Spec => []QuietNameIsTheSelections
<1>1. IInv => QuietNameIsTheSelections
  BY DEF IInv, FieldInv, QuietNameIsTheSelections, Known
<1> QED
  BY <1>1, LookupInvariant, PTL

----------------------------------------------------------------------------
(* The refinement.                                                         *)

Offered == IF onScreen = NoTable THEN {} ELSE tables[onScreen].rows
Asked == {q.rec : q \in nameAsks}

LEMMA InitRefines == Init => Field!RefInit
<1> SUFFICES ASSUME Init PROVE Field!RefInit
  OBVIOUS
<1>1. Asked = {value} \ {None}
  BY InitAsks DEF Asked
<1>2. value \in Records \cup {None} /\ name = None /\ Offered = {}
  BY DEF Init, TableInit, Offered
<1> QED
  BY <1>1, <1>2 DEF Field!RefInit, Asked, Offered

LEMMA StepRefines ==
  ASSUME IInv, IInv', [Next]_vars
  PROVE  [Field!RefNext]_(Field!refVars)
<1>1. Offered \subseteq Records /\ Offered' \subseteq Records
  BY DEF IInv, TInv, RowsInv, ScreenInv, Offered
<1>2. CASE UNCHANGED <<value, name, nameAsks>>
  <2>1. UNCHANGED <<value, name, Asked>>
    BY <1>2 DEF Asked
  <2>2. Field!Offer
    BY <1>1, <2>1 DEF Field!Offer, Offered, Asked
  <2> QED
    BY <2>2 DEF Field!RefNext
<1>3. CASE Select
  <2>1. PICK r \in tables[onScreen].rows :
          /\ value' = r
          /\ name' = None
          /\ nameAsks' = nameAsks \cup {[no |-> sent + 1, rec |-> r]}
    BY <1>3 DEF Select
  <2>2. onScreen # NoTable /\ onScreen' = NoTable
    BY <1>3 DEF Select, LeavePage
  <2>3. r \in Offered /\ Offered' = {}
    BY <2>2 DEF Offered
  <2>4. Asked' = Asked \cup {r}
    <3> DEFINE q == [no |-> sent + 1, rec |-> r]
    <3>1. q.rec = r /\ nameAsks' = nameAsks \cup {q}
      BY <2>1
    <3> HIDE DEF q
    <3> QED
      BY <3>1 DEF Asked
  <2>5. Field!Pick(r)
    BY <2>1, <2>3, <2>4 DEF Field!Pick, Offered, Asked
  <2> QED
    BY <1>1, <2>3, <2>5 DEF Field!RefNext
<1>4. CASE ClearLookup
  <2>1. Offered = {} /\ Offered' = {} /\ Asked' = Asked /\ value' = None /\ name' = None
    BY <1>4 DEF ClearLookup, Offered, Asked
  <2> QED
    BY <2>1 DEF Field!RefNext, Field!Clear, Offered, Asked
<1>5. CASE NameAnswered
  <2>1. PICK q \in nameAsks :
          /\ nameAsks' = nameAsks \ {q}
          /\ name' = IF q.rec \in store THEN q.rec ELSE name
    BY <1>5 DEF NameAnswered
  <2>2. Offered' = Offered /\ value' = value
    BY <1>5 DEF NameAnswered, tableVars, Offered
  <2>3. Asked' \subseteq Asked /\ Asked' \in {Asked, Asked \ {q.rec}} /\ q.rec \in Asked
    BY <2>1 DEF Asked
  <2>4. CASE q.rec \in store
    <3>1. Field!Label(q.rec)
      BY <2>1, <2>2, <2>3, <2>4 DEF Field!Label, Offered, Asked
    <3>2. q.rec \in Records
      BY DEF IInv, FieldInv
    <3> QED
      BY <3>1, <3>2 DEF Field!RefNext
  <2>5. CASE q.rec \notin store
    <3>1. Field!NoLabel
      BY <2>1, <2>2, <2>3, <2>5 DEF Field!NoLabel, Offered, Asked
    <3> QED
      BY <3>1 DEF Field!RefNext
  <2> QED
    BY <2>4, <2>5
<1>6. CASE NameLost
  <2>1. Asked' \subseteq Asked /\ Offered' = Offered /\ UNCHANGED <<value, name>>
    BY <1>6 DEF NameLost, tableVars, Offered, Asked
  <2>2. Field!NoLabel
    BY <2>1 DEF Field!NoLabel, Offered, Asked
  <2> QED
    BY <2>2 DEF Field!RefNext
<1>7. CASE \/ OpenAvailableItems \/ CloseDialog
           \/ (TableSteps /\ UNCHANGED fieldVars)
           \/ UNCHANGED vars
  BY <1>2, <1>7 DEF OpenAvailableItems, CloseDialog, fieldVars, vars
<1> QED
  BY <1>3, <1>4, <1>5, <1>6, <1>7 DEF Next

\* Whatever the order of the answers, the lookup keeps what the field promises
\* the form: what it submits was picked from an offered list, and no name is
\* shown that was not asked for (km.ref.js: select, clear, setDisplayValue).
THEOREM LookupRefinesField == Spec => ImplementsReferenceField
<1>1. Init => Field!RefInit
  BY InitRefines
<1>2. IInv /\ IInv' /\ [Next]_vars => [Field!RefNext]_(Field!refVars)
  BY StepRefines
<1> QED
  BY <1>1, <1>2, LookupInvariant, PTL DEF Spec, ImplementsReferenceField, Field!RefSpec
=============================================================================
