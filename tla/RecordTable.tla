---------------------------- MODULE RecordTable ----------------------------
(***************************************************************************)
(* The record table of the browser (km.table.js) over its data source      *)
(* (km.datasource.js, type "database") with the search panel of            *)
(* km.tablesearch.js.                                                      *)
(*                                                                         *)
(* The criteria (the JCR) are one object that every table created over it, *)
(* the search panel and the data source share.  A query sends a copy of    *)
(* the criteria as they are (JSON.stringify) and goes on; its answer       *)
(* arrives in a callback, at any later time and in any order, or never: the *)
(* tables pass no failure handler, so a lost answer is one not delivered.   *)
(* Ghost fields of a table (asked, shown, ask, kind, rash) remember which  *)
(* query the rows on the screen answer; no action reads them, except to    *)
(* set them.                                                               *)
(*                                                                         *)
(* The server lists the rows of a page by one query and counts the result  *)
(* by a second one; Serve takes both from one state of the database.  A    *)
(* column whose filter throws before it changes anything (the default      *)
(* operator of numbers and booleans) is not in FilterProps.                *)
(***************************************************************************)
EXTENDS Integers, FiniteSets, Sequences, Functions

CONSTANTS Records,      \* the ids of the records, ordered as the sorted column
          PageSize,     \* rows on a page (settings.pageSize)
          SearchPanel,  \* the properties of the search panel, in its order
          FilterProps,  \* columns with a filter in their header
          Args,         \* what can be typed into a search or filter input
          NoArg,        \* an empty input
          Meets,        \* [property, argument] -> the records that meet it
          TableIds,     \* the tables that can exist over the criteria at once
          NoTable,      \* no table on the screen
          MaxClicks,    \* bound: what the user does
          MaxChanges    \* bound: records that others insert or delete

SearchProps == {SearchPanel[i] : i \in DOMAIN SearchPanel}
Props == SearchProps \cup FilterProps

ASSUME RecordsAssumption == Records \subseteq Nat /\ IsFiniteSet(Records)
ASSUME SearchPanelAssumption == SearchPanel \in Seq(SearchProps)
ASSUME PageSizeAssumption == PageSize \in Nat \ {0}
ASSUME MeetsAssumption == Meets \in [Props \X Args -> SUBSET Records]
ASSUME NoArgAssumption == NoArg \notin Args
ASSUME TableIdsAssumption == TableIds \subseteq Nat
ASSUME NoTableAssumption == NoTable \notin TableIds
ASSUME BoundsAssumption == MaxClicks \in Nat /\ MaxChanges \in Nat

VARIABLES store,     \* the records in the database
          gone,      \* the records that were deleted: an id is never used again
          jcr,       \* the criteria shared by the tables and the search panel
          tables,    \* the tables that are rendered or being rendered
          onScreen,  \* the table the user sees
          posts,     \* queries whose answer has not been handled
          sent,      \* the number of queries sent
          clicks,    \* the number of things the user did
          changes,   \* the number of records others inserted or deleted
          tangled    \* ghost: a table was created while another was rendering

serverVars == <<store, gone, changes>>
tableVars == <<store, gone, jcr, tables, onScreen, posts, sent, clicks,
               changes, tangled>>

NoPage == -1
Restriction == [prop : Props, arg : Args, search : BOOLEAN]
Orders == {"none", "asc", "desc"}
Criteria == [restr : Seq(Restriction), order : Orders, offset : Nat]
Table == [page : Nat, pages : Nat, footer : Nat, hl : Nat \cup {NoPage},
          sortOrder : Orders, rows : SUBSET Records,
          asked : Nat, shown : Nat, ask : Criteria,
          kind : {"none", "render", "update", "sort"}, rash : BOOLEAN]
Post == [no : Nat, tab : TableIds, kind : {"render", "update", "sort"},
         ask : Criteria, done : BOOLEAN, rows : SUBSET Records, count : Nat]

TableTypeOK ==
  /\ store \subseteq Records /\ gone \subseteq Records \ store
  /\ jcr \in Criteria
  /\ DOMAIN tables \subseteq TableIds
  /\ \A t \in DOMAIN tables : tables[t] \in Table
  /\ onScreen \in DOMAIN tables \cup {NoTable}
  /\ posts \subseteq Post
  /\ sent \in Nat /\ clicks \in Nat /\ changes \in Nat
  /\ tangled \in BOOLEAN

----------------------------------------------------------------------------
(* What the database answers.                                              *)

Matching(c, S) ==
  {r \in S : \A i \in DOMAIN c.restr :
               r \in Meets[<<c.restr[i].prop, c.restr[i].arg>>]}

Rank(r, R, order) ==
  Cardinality({s \in R : IF order = "asc" THEN s < r ELSE r < s})

PageLength(c, n) ==
  IF n <= c.offset THEN 0
  ELSE IF n - c.offset < PageSize THEN n - c.offset ELSE PageSize

\* Without an ordering the database may put any of the records on the page.
PagesOf(c, S) ==
  LET R == Matching(c, S)
  IN  IF c.order = "none"
      THEN {P \in SUBSET R : Cardinality(P) = PageLength(c, Cardinality(R))}
      ELSE {{r \in R : Rank(r, R, c.order) \in c.offset .. c.offset + PageSize - 1}}

PageCountOf(n) == (n + PageSize - 1) \div PageSize

----------------------------------------------------------------------------
(* Sending queries.                                                        *)

EmptyCriteria == [restr |-> <<>>, order |-> "none", offset |-> 0]

\* km.table.create: a new table starts on the first page.
NewTable == [page |-> 0, pages |-> 0, footer |-> 0, hl |-> NoPage,
             sortOrder |-> "none", rows |-> {}, asked |-> 0, shown |-> 0,
             ask |-> EmptyCriteria, kind |-> "none", rash |-> FALSE]

Query(t, n, kind, c) ==
  [no |-> n, tab |-> t, kind |-> kind, ask |-> c,
   done |-> FALSE, rows |-> {}, count |-> 0]

\* A handler leaves table t as tb and the criteria as c and sends the
\* queries named in kinds.
Send(t, tb, c, kinds) ==
  /\ jcr' = c
  /\ posts' = posts \cup {Query(t, sent + i, kinds[i], c) : i \in 1..Len(kinds)}
  /\ sent' = sent + Len(kinds)
  /\ tables' = [x \in DOMAIN tables \cup {t} |->
                  IF x = t THEN [tb EXCEPT !.asked = sent + Len(kinds)]
                  ELSE tables[x]]

Settled(t) == tables[t].shown = tables[t].asked

\* Mutant: the offset stays.
MutatedGoToPage(t, c, i, kinds, rash) ==
  Send(t, [tables[t] EXCEPT !.page = i, !.rash = rash], c, kinds)

\* goToPage: the page and the offset, then update().  The ghost rash says that
\* the page was chosen by a count that was not that of the last answer.
GoToPage(t, c, i, kinds, rash) ==
  Send(t, [tables[t] EXCEPT !.page = i, !.rash = rash],
       [c EXCEPT !.offset = PageSize * i], kinds)

Click == clicks < MaxClicks /\ clicks' = clicks + 1

Rendering == {p \in posts : p.kind = "render"}

\* Every new table is another table: its id is used by no query in flight.
FreeTables == TableIds \ (DOMAIN tables \cup {p.tab : p \in posts})

\* km.table.create over the shared criteria, then render.
RenderTable(t) ==
  /\ t \in FreeTables /\ \A u \in FreeTables : t <= u
  /\ Send(t, NewTable, [jcr EXCEPT !.offset = 0], <<"render">>)
  /\ tangled' = (tangled \/ Rendering # {})
  /\ UNCHANGED <<serverVars, onScreen>>

----------------------------------------------------------------------------
(* What the user does with the table on the screen.                        *)

\* The links of the footer: the first fifteen pages and the last one.
PageLinks(n) == {i \in 0 .. n - 1 : i < 15 \/ i = n - 1}

UsesTable(t) ==
  /\ t = onScreen
  /\ t \in DOMAIN tables
  /\ Click
  /\ UNCHANGED <<serverVars, onScreen, tangled>>

\* A page link, or the link to the first page, which is always there.  The
\* links are those of the last refresh: a sort does not redraw them.
ClickPage(t) ==
  /\ UsesTable(t)
  /\ \E i \in PageLinks(tables[t].footer) \cup {0} :
       GoToPage(t, jcr, i, <<"update">>,
                i > 0 /\ ~(Settled(t) /\ tables[t].footer = tables[t].pages))

\* Mutant: the first page has a previous one.
MutatedPrevPage(t) ==
  /\ UsesTable(t)
  /\ GoToPage(t, jcr, tables[t].page - 1, <<"update">>, tables[t].rash)

PrevPage(t) ==
  /\ UsesTable(t)
  /\ tables[t].page > 0
  /\ GoToPage(t, jcr, tables[t].page - 1, <<"update">>, tables[t].rash)

NextPage(t) ==
  /\ UsesTable(t)
  /\ tables[t].page < tables[t].pages - 1
  /\ GoToPage(t, jcr, tables[t].page + 1, <<"update">>, ~Settled(t))

\* The sort button: the page is kept.
SortColumn(t) ==
  /\ UsesTable(t)
  /\ LET direction == IF tables[t].sortOrder = "asc" THEN "desc" ELSE "asc"
     IN  Send(t, [tables[t] EXCEPT !.sortOrder = direction],
              [jcr EXCEPT !.order = direction], <<"sort">>)

\* The items of s at the places in keep, in their order.
Sublist(s, keep) ==
  [n \in 1..Cardinality(keep) |->
     s[CHOOSE i \in keep : Rank(i, keep, "asc") = n - 1]]

\* removeRestrictions
WithoutProperty(s, p) == Sublist(s, {i \in DOMAIN s : s[i].prop # p})

\* addRestriction: the last restriction on the property is overwritten,
\* whoever added it; without one a new restriction is appended.
AddRestriction(s, p, a) ==
  LET on == {i \in DOMAIN s : s[i].prop = p}
      last == CHOOSE i \in on : \A j \in on : j <= i
  IN  IF on = {} THEN Append(s, [prop |-> p, arg |-> a, search |-> FALSE])
      ELSE [s EXCEPT ![last].arg = a]

\* Mutant: the page is kept.
MutatedFilterColumn(t) ==
  /\ UsesTable(t)
  /\ \E p \in FilterProps, a \in Args :
       Send(t, tables[t], [jcr EXCEPT !.restr = AddRestriction(@, p, a)],
            <<"update">>)

\* keyup in the filter of a column header: goToPage(0), then update() again.
FilterColumn(t) ==
  /\ UsesTable(t)
  /\ \E p \in FilterProps, a \in Args :
       GoToPage(t, [jcr EXCEPT !.restr = AddRestriction(@, p, a)], 0,
                <<"update", "update">>, FALSE)

\* keyup that leaves the filter empty: the page is kept.
ClearFilter(t) ==
  /\ UsesTable(t)
  /\ \E p \in FilterProps :
       Send(t, tables[t],
            [jcr EXCEPT !.restr = WithoutProperty(@, p)],
            <<"update">>)

\* search() removes the flagged restrictions by index while it walks the
\* list: the one behind a removed restriction is stepped over.
Kept(s) ==
  LET removed[i \in 0 .. Len(s)] == i > 0 /\ s[i].search /\ ~removed[i - 1]
  IN  Sublist(s, {i \in DOMAIN s : ~removed[i]})

\* The restrictions that the filled inputs of the panel stand for.
SearchRestrictions(vals) ==
  LET filled == Sublist(SearchPanel, {i \in DOMAIN SearchPanel :
                                        vals[SearchPanel[i]] # NoArg})
  IN  [i \in DOMAIN filled |->
         [prop |-> filled[i], arg |-> vals[filled[i]], search |-> TRUE]]

\* The search button: goToPage(0), then update() again.
Search(t) ==
  /\ UsesTable(t)
  /\ \E vals \in [SearchProps -> Args \cup {NoArg}] :
       GoToPage(t, [jcr EXCEPT !.restr = Kept(@) \o SearchRestrictions(vals)],
                0, <<"update", "update">>, FALSE)

----------------------------------------------------------------------------
(* Answers.                                                                *)

\* The server reads the database for a query.
Serve ==
  /\ \E p \in posts : /\ ~p.done
                      /\ \E P \in PagesOf(p.ask, store) :
                           posts' = (posts \ {p}) \cup
                             {[p EXCEPT !.done = TRUE, !.rows = P,
                                 !.count = Cardinality(Matching(p.ask, store))]}
  /\ UNCHANGED <<serverVars, jcr, tables, onScreen, sent, clicks, tangled>>

\* The callback: renderRows sets the page count; update() redraws the footer
\* and highlights the current page, if the footer has a link to it; sort() does
\* neither.
Answered(tb, p) ==
  LET n == PageCountOf(p.count)
      drawn == [tb EXCEPT !.rows = p.rows, !.pages = n, !.shown = p.no,
                          !.ask = p.ask, !.kind = p.kind]
  IN  CASE p.kind = "render" -> [drawn EXCEPT !.footer = n]
        [] p.kind = "update" -> [drawn EXCEPT !.footer = n,
                                   !.hl = IF tb.page < n THEN tb.page ELSE NoPage]
        [] p.kind = "sort"   -> drawn

\* A rendered table takes the place of the one on the screen.  An answer to a
\* table that left the page changes nothing that can be seen.
Deliver ==
  /\ \E p \in posts :
       LET left == IF p.kind = "render" THEN {onScreen} ELSE {}
       IN  /\ p.done
           /\ posts' = posts \ {p}
           /\ tables' = [t \in DOMAIN tables \ left |->
                           IF t = p.tab THEN Answered(tables[t], p) ELSE tables[t]]
           /\ onScreen' = IF p.kind = "render" THEN p.tab ELSE onScreen
  /\ UNCHANGED <<serverVars, jcr, sent, clicks, tangled>>

\* Somebody else inserts or deletes a record.
ChangeStore ==
  /\ changes < MaxChanges
  /\ changes' = changes + 1
  /\ \/ \E r \in store : store' = store \ {r} /\ gone' = gone \cup {r}
     \/ \E r \in Records \ (store \cup gone) :
          store' = store \cup {r} /\ UNCHANGED gone
  /\ UNCHANGED <<jcr, tables, onScreen, posts, sent, clicks, tangled>>

----------------------------------------------------------------------------
(* A page with one table.                                                  *)

TableInit ==
  /\ store \in SUBSET Records /\ gone = {}
  /\ jcr = EmptyCriteria
  /\ tables = <<>>
  /\ onScreen = NoTable
  /\ posts = {}
  /\ sent = 0 /\ clicks = 0 /\ changes = 0
  /\ tangled = FALSE

ShowTable(t) == tables = <<>> /\ RenderTable(t) /\ UNCHANGED clicks

TableSteps ==
  \/ \E t \in TableIds :
       \/ ClickPage(t) \/ PrevPage(t) \/ NextPage(t)
       \/ SortColumn(t) \/ FilterColumn(t) \/ ClearFilter(t) \/ Search(t)
  \/ Serve \/ Deliver \/ ChangeStore

TableNext == (\E t \in TableIds : ShowTable(t)) \/ TableSteps

TableSpec == TableInit /\ [][TableNext]_tableVars

----------------------------------------------------------------------------
\* In a view that shows the answer to the last query of its table, and unless
\* the list was opened again while it was being opened, the rows answer the
\* criteria the next query would send, the offset is that of the table's page
\* and, after a refresh, the footer has the pages of the result and marks the
\* current one, and none when that one does not exist any more
\* (update, goToPage, rerenderFooter, updatePaginationDisplay).
ScreenAgreesWithCriteria ==
  \A t \in DOMAIN tables : t = onScreen /\ Settled(t) /\ ~tangled =>
    /\ tables[t].ask = jcr
    /\ jcr.offset = PageSize * tables[t].page
    /\ tables[t].kind = "update" =>
         /\ tables[t].footer = tables[t].pages
         /\ tables[t].hl = IF tables[t].page < tables[t].pages
                            THEN tables[t].page ELSE NoPage

\* "we could end up on and non-existing page if the amount of results
\* decreases": a settled view on a later page shows records and has the page
\* among those it counts, unless records were deleted, the list was opened twice
\* at once, or the page was chosen by a count that was not that of the last
\* answer, or lies before such a page. (The filters and the search go back to
\* page 0 to keep this; "clear filter" does not need to.)
SettledPageExists ==
  \A t \in DOMAIN tables :
    t = onScreen /\ Settled(t) /\ tables[t].page > 0 /\ ~tables[t].rash
      /\ gone = {} /\ ~tangled
    => tables[t].rows # {} /\ tables[t].page < tables[t].pages

\* "start with removing all restrictions with flag "table_search_restriction"":
\* a search never combines two values of the same property, the one typed now
\* and the one of an earlier search (km.tablesearch.js, search).
SearchesForOneValue ==
  \A i, j \in DOMAIN jcr.restr :
    jcr.restr[i].search /\ jcr.restr[j].search /\ jcr.restr[i].prop = jcr.restr[j].prop
      => jcr.restr[i].arg = jcr.restr[j].arg
=============================================================================
