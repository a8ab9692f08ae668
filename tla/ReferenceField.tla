--------------------------- MODULE ReferenceField ---------------------------
(***************************************************************************)
(* What a lookup field promises the form it stands in, whatever the order  *)
(* in which the answers of the server arrive: the record it submits is one *)
(* the user picked from a list that was offered (or the one the form came  *)
(* with), picking a record takes the old name off the screen, and a name   *)
(* is shown only if it was asked for.                                      *)
(***************************************************************************)
CONSTANTS Records, None

VARIABLES value,    \* the record the field submits
          label,    \* the record whose name it shows
          offered,  \* the records the user can pick now
          asked     \* the records whose name has been asked for

refVars == <<value, label, offered, asked>>

RefInit ==
  /\ value \in Records \cup {None}
  /\ label = None
  /\ offered = {}
  /\ asked = {value} \ {None}

Offer == offered' \in SUBSET Records /\ UNCHANGED <<value, label, asked>>

Pick(r) ==
  /\ r \in offered
  /\ value' = r
  /\ label' = None
  /\ offered' = {}
  /\ asked' = asked \cup {r}

Clear ==
  /\ offered = {}
  /\ value' = None
  /\ label' = None
  /\ UNCHANGED <<offered, asked>>

\* The name may have been asked for more than once.
Label(r) ==
  /\ r \in asked
  /\ label' = r
  /\ asked' \in {asked, asked \ {r}}
  /\ UNCHANGED <<value, offered>>

NoLabel ==
  /\ asked' \in SUBSET asked
  /\ UNCHANGED <<value, label, offered>>

RefNext == Offer \/ Clear \/ NoLabel \/ \E r \in Records : Pick(r) \/ Label(r)

RefSpec == RefInit /\ [][RefNext]_refVars
=============================================================================
