---------------------------- MODULE RecordLookup ----------------------------
(***************************************************************************)
(* The lookup field of a form (km.ref.js): a hidden input with the id of   *)
(* the selected record, a visible input with its name, and a dialog with a *)
(* table of the records that can be picked (RecordTable).  The lookup, the *)
(* tables it opens and their search panels share one criteria object.      *)
(***************************************************************************)
EXTENDS RecordTable

CONSTANT None    \* no record

VARIABLES value,     \* selectedRecordId and the hidden input
          name,      \* the record whose name the visible input shows
          nameAsks,  \* queries for a name that have not been answered
          nameLost,  \* ghost: a query for a name failed
          lateName   \* ghost: an answer came for a record no longer selected

fieldVars == <<value, name, nameAsks, nameLost, lateName>>
vars == <<tableVars, fieldVars>>

ASSUME NoneAssumption == None \notin Records

NameAsk == [no : Nat, rec : Records]

TypeOK ==
  /\ TableTypeOK
  /\ value \in Records \cup {None}
  /\ name \in Records \cup {None}
  /\ nameAsks \subseteq NameAsk
  /\ nameLost \in BOOLEAN /\ lateName \in BOOLEAN

----------------------------------------------------------------------------
\* A lookup that is rendered with a record but without its name asks for it.
Init ==
  /\ TableInit
  /\ value \in store \cup {None}
  /\ name = None
  /\ nameAsks = {[no |-> 0, rec |-> r] : r \in {value} \ {None}}
  /\ nameLost = FALSE /\ lateName = FALSE

\* A click on the visible input; an open dialog covers it.
OpenAvailableItems ==
  /\ onScreen = NoTable
  /\ Click
  /\ \E t \in TableIds : RenderTable(t)
  /\ UNCHANGED fieldVars

\* dialog.close or dialog.hide: the table leaves the page.
LeavePage ==
  /\ onScreen # NoTable
  /\ tables' = Restrict(tables, DOMAIN tables \ {onScreen})
  /\ onScreen' = NoTable
  /\ Click
  /\ UNCHANGED <<serverVars, jcr, posts, tangled>>

CloseDialog == LeavePage /\ UNCHANGED <<sent, fieldVars>>

\* Mutant: the name is not asked for.
MutatedSelect ==
  /\ LeavePage
  /\ \E r \in tables[onScreen].rows : value' = r /\ name' = None
  /\ UNCHANGED <<nameAsks, sent, nameLost, lateName>>

\* Mutant: the old name stays until the new one comes.
MutatedSelectKeepsName ==
  /\ LeavePage
  /\ \E r \in tables[onScreen].rows :
       /\ value' = r
       /\ nameAsks' = nameAsks \cup {[no |-> sent + 1, rec |-> r]}
       /\ sent' = sent + 1
  /\ UNCHANGED <<name, nameLost, lateName>>

\* select(): hide the dialog, forget the old name, render again, which asks
\* for the name of a selected record that has none.
Select ==
  /\ LeavePage
  /\ \E r \in tables[onScreen].rows :
       /\ value' = r
       /\ name' = None
       /\ nameAsks' = nameAsks \cup {[no |-> sent + 1, rec |-> r]}
       /\ sent' = sent + 1
  /\ UNCHANGED <<nameLost, lateName>>

\* Mutant: the name stays.
MutatedClearLookup ==
  /\ onScreen = NoTable
  /\ Click
  /\ value' = None
  /\ UNCHANGED <<serverVars, jcr, tables, onScreen, posts, sent,
                 tangled, name, nameAsks, nameLost, lateName>>

ClearLookup ==
  /\ onScreen = NoTable
  /\ Click
  /\ value' = None
  /\ name' = None
  /\ UNCHANGED <<serverVars, jcr, tables, onScreen, posts, sent,
                 tangled, nameAsks, nameLost, lateName>>

\* The answer to a query for a name is shown whatever is selected by now; a
\* record that is gone makes the callback throw.
NameAnswered ==
  /\ \E q \in nameAsks :
       /\ nameAsks' = nameAsks \ {q}
       /\ name' = IF q.rec \in store THEN q.rec ELSE name
       /\ lateName' = (lateName \/ q.rec # value)
  /\ UNCHANGED <<tableVars, value, nameLost>>

NameLost ==
  /\ \E q \in nameAsks : nameAsks' = nameAsks \ {q}
  /\ nameLost' = TRUE
  /\ UNCHANGED <<tableVars, value, name, lateName>>

Next ==
  \/ OpenAvailableItems \/ CloseDialog \/ Select \/ ClearLookup
  \/ NameAnswered \/ NameLost
  \/ TableSteps /\ UNCHANGED fieldVars

\* A query for a name is answered, unless it is lost, and its callback runs.
Fairness == WF_vars(NameAnswered)

Spec == Init /\ [][Next]_vars /\ Fairness

----------------------------------------------------------------------------
\* When every query for a name was answered, none failed and none came for a
\* record that was no longer selected, the field shows the name of the record
\* it submits, or that record is gone (select, clear, setDisplayValue).
QuietNameIsTheSelections ==
  nameAsks = {} /\ ~nameLost /\ ~lateName /\ name # value =>
    name = None /\ value \in gone

\* A selected record gets its name shown, unless it is deselected, it is gone,
\* a request failed or a late answer for another record was shown over it: the
\* new name is asked for at every selection (select, render).
SelectionGetsItsName ==
  \A r \in Records :
    value = r ~> (name = r \/ value # r \/ r \in gone \/ nameLost \/ lateName)

\* The lookup keeps what ReferenceField promises the form.
Field == INSTANCE ReferenceField WITH
  label <- name,
  offered <- IF onScreen = NoTable THEN {} ELSE tables[onScreen].rows,
  asked <- {q.rec : q \in nameAsks}

ImplementsReferenceField == Field!RefSpec

=============================================================================
