-------------------------- MODULE EnvironmentProofs --------------------------
(***************************************************************************)
(* Proofs about Environment for any number of classes, rules, tasks,       *)
(* records, transactions, failures and restarts.                           *)
(***************************************************************************)
EXTENDS Environment, TLAPS

-----------------------------------------------------------------------------
(* Rules and registries.                                                   *)

LEMMA RuleFacts ==
  ASSUME NEW r \in Rule
  PROVE  /\ r.class \in Classes /\ r.method \in Methods
         /\ RefOf(r) \in Types /\ DepsOf(r) \subseteq Types
BY RefAssumption, DepsAssumption DEF Rule, RefOf, DepsOf

LEMMA MakeRegistry ==
  ASSUME NEW R \in SUBSET Rule, NEW D \in SUBSET Types, NEW f \in [D -> SUBSET Rule]
  PROVE  [reg |-> R, deps |-> f] \in Registry
BY DEF Registry

LEMMA RegistryParts ==
  ASSUME NEW m \in Registry
  PROVE  /\ m = [reg |-> m.reg, deps |-> m.deps]
         /\ m.reg \subseteq Rule
         /\ DOMAIN m.deps \in SUBSET Types
         /\ \A t \in DOMAIN m.deps : m.deps[t] \subseteq Rule
BY DEF Registry

LEMMA LoadedType ==
  ASSUME NEW rules \in SUBSET Rule PROVE Loaded(rules) \in Registry
<1>1. UNION {DepsOf(r) : r \in rules} \in SUBSET Types
  BY RuleFacts
<1>2. [t \in UNION {DepsOf(r) : r \in rules} |-> {r \in rules : t \in DepsOf(r)}]
        \in [UNION {DepsOf(r) : r \in rules} -> SUBSET Rule]
  OBVIOUS
<1> QED BY <1>1, <1>2, MakeRegistry DEF Loaded

LEMMA LoadedDescribes ==
  ASSUME NEW d PROVE DescribesRules(Loaded(d.rules), d)
BY DEF Loaded, DescribesRules

LEMMA UnregisteredType ==
  ASSUME NEW m \in Registry, NEW gone, NEW rules \in SUBSET Rule
  PROVE  Unregistered(m, gone, rules) \in Registry
<1>1. Refreshed(m.reg \ gone, {RefOf(r) : r \in gone}, rules) \in SUBSET Rule
  BY RegistryParts DEF Refreshed
<1>2. [t \in DOMAIN m.deps |-> m.deps[t] \ gone] \in [DOMAIN m.deps -> SUBSET Rule]
  BY RegistryParts
<1> QED BY <1>1, <1>2, RegistryParts, MakeRegistry DEF Unregistered

LEMMA WithDependentsType ==
  ASSUME NEW m \in Registry, NEW rules \in SUBSET Rule
  PROVE  /\ WithDependents(m, rules) \in Registry
         /\ WithDependents(m, rules).reg = m.reg
         /\ DOMAIN WithDependents(m, rules).deps =
              DOMAIN m.deps \cup UNION {DepsOf(r) : r \in rules}
         /\ \A t \in DOMAIN WithDependents(m, rules).deps :
              WithDependents(m, rules).deps[t] =
                (IF t \in DOMAIN m.deps THEN m.deps[t] ELSE {}) \cup
                {r \in rules : t \in DepsOf(r)}
<1> DEFINE D == DOMAIN m.deps \cup UNION {DepsOf(r) : r \in rules}
           f == [t \in D |-> (IF t \in DOMAIN m.deps THEN m.deps[t] ELSE {}) \cup
                             {r \in rules : t \in DepsOf(r)}]
<1>1. WithDependents(m, rules) = [reg |-> m.reg, deps |-> f]
  BY DEF WithDependents
<1>2. D \in SUBSET Types
  BY RuleFacts, RegistryParts
<1>3. f \in [D -> SUBSET Rule]
  BY RegistryParts
<1>4. [reg |-> m.reg, deps |-> f] \in Registry
  BY <1>2, <1>3, RegistryParts, MakeRegistry
<1> QED BY <1>1, <1>4

-----------------------------------------------------------------------------
(* What the calls on classes leave.                                        *)

Results == [db : Database, mem : Registry, ok : BOOLEAN, broken : SUBSET Rule]

\* Every record of X is shared by the rules of d that are not in B.
Shared(X, d, B) == AreShared(X, d.rules \ B, d.shared)

LEMMA WithoutRulesFacts ==
  ASSUME NEW d \in Database, NEW gone \in SUBSET d.rules
  PROVE  /\ WithoutRules(d, gone) \in Database
         /\ WithoutRules(d, gone).rules = d.rules \ gone
         /\ WithoutRules(d, gone).shared = {s \in d.shared : s.rule \notin gone}
         /\ WithoutRules(d, gone).code = d.code
         /\ WithoutRules(d, gone).tasks = d.tasks
         /\ WithoutRules(d, gone).recs = d.recs
BY DEF WithoutRules, Database

LEMMA DeleteRulesBreakNone ==
  ASSUME NEW m, NEW d, NEW gone, NEW y \in DeleteRulesResults(m, d, gone)
  PROVE  y.broken = {}
BY DEF DeleteRulesResults

LEMMA DeleteRulesFacts ==
  ASSUME NEW m \in Registry, NEW d \in Database, NEW gone \in SUBSET d.rules,
         NEW y \in DeleteRulesResults(m, d, gone)
  PROVE  /\ y \in Results
         /\ y.db = WithoutRules(d, gone)
         /\ y.ok => /\ y.mem = Unregistered(m, gone, d.rules \ gone)
                    /\ \A r \in gone : DepsOf(r) \subseteq DOMAIN m.deps
<1> DEFINE d1 == WithoutRules(d, gone)
           unknown == {r \in gone : ~(DepsOf(r) \subseteq DOMAIN m.deps)}
           half(done, r, types) ==
             LET u == Unregistered(m, done, d1.rules)
             IN  [reg |-> u.reg \ {r},
                  deps |-> [t \in DOMAIN u.deps |-> IF t \in types THEN u.deps[t] \ {r}
                                                   ELSE u.deps[t]]]
<1>1. d1 \in Database /\ d1.rules = d.rules \ gone /\ d1.rules \in SUBSET Rule
  BY WithoutRulesFacts DEF Database
<1>2. CASE unknown = {}
  <2>1. y = [db |-> d1, mem |-> Unregistered(m, gone, d1.rules), ok |-> TRUE,
             broken |-> {}]
    BY <1>2 DEF DeleteRulesResults
  <2>2. Unregistered(m, gone, d1.rules) \in Registry
    BY <1>1, UnregisteredType
  <2> QED BY <1>1, <1>2, <2>1, <2>2 DEF Results
<1>3. CASE unknown # {}
  <2>0. PICK r \in unknown :
          y \in {[db |-> d1, mem |-> half(done, r, types), ok |-> FALSE, broken |-> {}] :
                   done \in SUBSET (gone \ unknown),
                   types \in SUBSET (DepsOf(r) \cap DOMAIN m.deps)}
    BY <1>3 DEF DeleteRulesResults
  <2>1. PICK done \in SUBSET (gone \ unknown),
             types \in SUBSET (DepsOf(r) \cap DOMAIN m.deps) :
               y = [db |-> d1, mem |-> half(done, r, types), ok |-> FALSE, broken |-> {}]
    BY <2>0
  <2> DEFINE u == Unregistered(m, done, d1.rules)
  <2>2. u \in Registry
    BY <1>1, UnregisteredType
  <2>3. [t \in DOMAIN u.deps |-> IF t \in types THEN u.deps[t] \ {r} ELSE u.deps[t]]
          \in [DOMAIN u.deps -> SUBSET Rule]
    BY <2>2, RegistryParts
  <2> DEFINE deps == [t \in DOMAIN u.deps |-> IF t \in types THEN u.deps[t] \ {r}
                                             ELSE u.deps[t]]
  <2>4. half(done, r, types) \in Registry
    <3>1. half(done, r, types) = [reg |-> u.reg \ {r}, deps |-> deps]
      OBVIOUS
    <3>2. u.reg \ {r} \in SUBSET Rule /\ DOMAIN u.deps \in SUBSET Types
      BY <2>2, RegistryParts
    <3>3. deps \in [DOMAIN u.deps -> SUBSET Rule]
      BY <2>3
    <3> HIDE DEF u, deps
    <3>4. [reg |-> u.reg \ {r}, deps |-> deps] \in Registry
      BY <3>2, <3>3, MakeRegistry
    <3> QED BY <3>1, <3>4
  <2> QED BY <1>1, <2>1, <2>4 DEF Results
<1> QED BY <1>2, <1>3

LEMMA WithCode ==
  ASSUME NEW d \in Database, NEW c \in Classes, NEW v \in (SUBSET Methods) \cup {Absent}
  PROVE  LET e == [d EXCEPT !.code[c] = v]
         IN  /\ e \in Database
             /\ e.code = [d.code EXCEPT ![c] = v]
             /\ e.rules = d.rules /\ e.shared = d.shared
             /\ e.tasks = d.tasks /\ e.recs = d.recs
BY DEF Database

LEMMA ResultWithCode ==
  ASSUME NEW y \in Results, NEW c \in Classes, NEW v \in (SUBSET Methods) \cup {Absent}
  PROVE  LET e == [y EXCEPT !.db.code[c] = v]
         IN  /\ e \in Results
             /\ e.mem = y.mem /\ e.ok = y.ok /\ e.broken = y.broken
             /\ e.db = [y.db EXCEPT !.code[c] = v]
BY WithCode DEF Results

LEMMA WithRulesFacts ==
  ASSUME NEW x \in Results, NEW new \in SUBSET Rule
  PROVE  LET y == WithRules(x, new)
         IN  /\ y \in Results
             /\ y.ok = x.ok /\ y.broken = x.broken
             /\ y.db.rules = x.db.rules \cup new
             /\ y.db.shared = x.db.shared \cup
                                {s \in [rule : new, rec : x.db.recs] :
                                   RecType[s.rec] = RefOf(s.rule)}
             /\ y.db.code = x.db.code /\ y.db.tasks = x.db.tasks
             /\ y.db.recs = x.db.recs
             /\ y.mem.deps = x.mem.deps
             /\ y.mem.reg = Refreshed(x.mem.reg, {RefOf(r) : r \in new},
                                      x.db.rules \cup new)
<1> DEFINE rules == x.db.rules \cup new
           shared == x.db.shared \cup {s \in [rule : new, rec : x.db.recs] :
                                         RecType[s.rec] = RefOf(s.rule)}
           reg == Refreshed(x.mem.reg, {RefOf(r) : r \in new}, rules)
           d == [x.db EXCEPT !.rules = rules, !.shared = shared]
           m == [x.mem EXCEPT !.reg = reg]
<1>1. WithRules(x, new) = [x EXCEPT !.db = d, !.mem = m]
  BY DEF WithRules, Results, Database
<1>2. rules \in SUBSET Rule /\ shared \in SUBSET Sharing /\ reg \in SUBSET Rule
  BY DEF Results, Database, Registry, Refreshed, Sharing
<1>3. d \in Database /\ d.rules = rules /\ d.shared = shared
      /\ d.code = x.db.code /\ d.tasks = x.db.tasks /\ d.recs = x.db.recs
  <2> HIDE DEF rules, shared
  <2> QED BY <1>2 DEF Results, Database
<1>4. m \in Registry /\ m.reg = reg /\ m.deps = x.mem.deps
  <2> HIDE DEF reg
  <2> QED BY <1>2 DEF Results, Registry
<1> HIDE DEF d, m
<1> QED BY <1>1, <1>3, <1>4 DEF Results

LEMMA WithBrokenRulesFacts ==
  ASSUME NEW x \in Results, NEW new \in SUBSET Rule, NEW y \in WithBrokenRules(x, new)
  PROVE  /\ y \in Results /\ ~y.ok
         /\ y.db.code = x.db.code
         /\ y.db.tasks = x.db.tasks /\ y.db.recs = x.db.recs
         /\ y.db.rules = x.db.rules \cup y.broken
         /\ x.db.shared \subseteq y.db.shared
<1>1. PICK r \in new :
        y \in {[x EXCEPT !.db.rules = @ \cup {r}, !.db.shared = @ \cup [rule : {r}, rec : X],
                       !.ok = FALSE, !.broken = {r}] :
                 X \in (SUBSET RecordsOf(x.db, RefOf(r))) \ {RecordsOf(x.db, RefOf(r))}}
  BY DEF WithBrokenRules
<1>2. PICK X \in SUBSET RecordsOf(x.db, RefOf(r)) :
        y = [x EXCEPT !.db.rules = @ \cup {r}, !.db.shared = @ \cup [rule : {r}, rec : X],
                      !.ok = FALSE, !.broken = {r}]
  BY <1>1
<1>3. X \subseteq Records /\ x.db \in Database
  BY DEF RecordsOf, Results, Database
<1> DEFINE d == [x.db EXCEPT !.rules = @ \cup {r}, !.shared = @ \cup [rule : {r}, rec : X]]
<1>4. /\ d \in Database /\ d.code = x.db.code /\ d.tasks = x.db.tasks /\ d.recs = x.db.recs
      /\ d.rules = x.db.rules \cup {r} /\ x.db.shared \subseteq d.shared
  BY <1>3 DEF Database, Sharing
<1>5. y = [x EXCEPT !.db = d, !.ok = FALSE, !.broken = {r}]
  BY <1>2, <1>3 DEF Results, Database
<1> HIDE DEF d
<1>6. y \in Results /\ ~y.ok /\ y.db = d /\ y.broken = {r}
  BY <1>4, <1>5 DEF Results
<1> QED BY <1>4, <1>6

\* A call started with registry m on database d and left y.
Rest(d, y) == y \in Results /\ y.db.tasks = d.tasks /\ y.db.recs = d.recs
KeptShared(d, y) ==
  \A X \in SUBSET d.recs, B \in SUBSET Rule :
    Shared(X, d, B) => Shared(X, y.db, B \cup y.broken)
Kept(m, d, y) ==
  /\ y.ok => /\ DescribesRules(m, d) => DescribesRules(y.mem, y.db)
             /\ CodeHasItsRules(d) => CodeHasItsRules(y.db)
  /\ KeptShared(d, y)

LEMMA RefusedFacts ==
  ASSUME NEW m \in Registry, NEW d \in Database
  PROVE  LET y == Refused(m, d)
         IN  /\ y \in Results /\ ~y.ok /\ y.broken = {}
             /\ y.db = d /\ y.mem = m
BY DEF Refused, Results

\* Deleting rules, adding rules with all their sharings, and adding one whose
\* sharings are not complete.
LEMMA FewerRulesShared ==
  ASSUME NEW X, NEW d, NEW B, Shared(X, d, B),
         NEW e, NEW gone, e.rules = d.rules \ gone,
         e.shared = {s \in d.shared : s.rule \notin gone}
  PROVE  Shared(X, e, B)
BY DEF Shared, AreShared

LEMMA MoreRulesShared ==
  ASSUME NEW X, NEW d, NEW B, Shared(X, d, B),
         NEW e, NEW new, e.rules = d.rules \cup new, X \subseteq d.recs,
         e.shared = d.shared \cup {s \in [rule : new, rec : d.recs] :
                                     RecType[s.rec] = RefOf(s.rule)}
  PROVE  Shared(X, e, B)
<1>1. ASSUME NEW v \in X, NEW r \in e.rules \ B, RecType[v] = RefOf(r)
      PROVE  [rule |-> r, rec |-> v] \in e.shared
  <2>1. CASE r \in new
    BY <1>1, <2>1
  <2>2. CASE r \in d.rules
    BY <1>1, <2>2 DEF Shared, AreShared
  <2> QED BY <1>1, <2>1, <2>2
<1> QED BY <1>1 DEF Shared, AreShared

LEMMA BrokenRulesShared ==
  ASSUME NEW X, NEW d, NEW B, Shared(X, d, B),
         NEW e, NEW new, e.rules = d.rules \cup new, d.shared \subseteq e.shared
  PROVE  Shared(X, e, B \cup new)
BY DEF Shared, AreShared

LEMMA RulesOfType ==
  ASSUME NEW d \in Database, NEW c \in Classes
  PROVE  RulesOf(d, c) \subseteq d.rules /\ d.rules \subseteq Rule
BY DEF RulesOf, Database

LEMMA DeletedDescribes ==
  ASSUME NEW m \in Registry, NEW d \in Database, NEW gone \in SUBSET d.rules,
         NEW e \in Database, e.rules = d.rules \ gone, DescribesRules(m, d)
  PROVE  DescribesRules(Unregistered(m, gone, d.rules \ gone), e)
BY DEF DescribesRules, Unregistered, Refreshed

LEMMA DeleteClassFacts ==
  ASSUME NEW m \in Registry, NEW d \in Database, NEW c \in Classes,
         NEW y \in DeleteClassResults(m, d, c)
  PROVE  Rest(d, y) /\ Kept(m, d, y) /\ y.broken = {}
<1> DEFINE gone == RulesOf(d, c)
           ruleless == DeleteRulesResults(m, d, gone)
<1>1. gone \in SUBSET d.rules
  BY RulesOfType
<1>2. ASSUME NEW x \in ruleless
      PROVE  /\ x \in Results /\ x.broken = {}
             /\ x.ok => x.mem = Unregistered(m, gone, d.rules \ gone)
             /\ x.db \in Database /\ x.db.rules = d.rules \ gone /\ x.db.code = d.code
             /\ x.db.shared = {s \in d.shared : s.rule \notin gone}
             /\ x.db.tasks = d.tasks /\ x.db.recs = d.recs
  <2> HIDE DEF gone
  <2>1. x \in Results /\ x.db = WithoutRules(d, gone)
    BY <1>1, DeleteRulesFacts
  <2>2. x.ok => x.mem = Unregistered(m, gone, d.rules \ gone)
    BY <1>1, DeleteRulesFacts
  <2>3. x.broken = {}
    BY DeleteRulesBreakNone
  <2> QED BY <1>1, <2>1, <2>2, <2>3, WithoutRulesFacts
<1>3. ASSUME NEW x \in ruleless, y.db.rules = x.db.rules, y.db.shared = x.db.shared,
             y.broken = {}
      PROVE  KeptShared(d, y)
  <2>1. y.db.rules = d.rules \ gone /\ y.db.shared = {s \in d.shared : s.rule \notin gone}
    BY <1>2, <1>3
  <2> HIDE DEF gone
  <2>2. ASSUME NEW X \in SUBSET d.recs, NEW B \in SUBSET Rule, Shared(X, d, B)
        PROVE  Shared(X, y.db, B \cup y.broken)
    <3>1. Shared(X, y.db, B)
      BY <2>1, <2>2, FewerRulesShared
    <3>2. B \cup y.broken = B
      BY <1>3
    <3> QED BY <3>1, <3>2
  <2> QED BY <2>2 DEF KeptShared
<1>4. ASSUME NEW x \in ruleless, x.ok, y = [x EXCEPT !.db.code[c] = Absent]
      PROVE  Rest(d, y) /\ Kept(m, d, y) /\ y.broken = {}
  <2>1. /\ y \in Results /\ y.mem = x.mem /\ y.ok = x.ok /\ y.broken = x.broken
        /\ y.db = [x.db EXCEPT !.code[c] = Absent]
    <3> HIDE DEF ruleless
    <3>1. x \in Results /\ Absent \in (SUBSET Methods) \cup {Absent}
      BY <1>2
    <3>2. LET e == [x EXCEPT !.db.code[c] = Absent]
          IN  e \in Results /\ e.mem = x.mem /\ e.ok = x.ok /\ e.broken = x.broken
              /\ e.db = [x.db EXCEPT !.code[c] = Absent]
      BY <3>1, ResultWithCode
    <3> QED BY <1>4, <3>2
  <2>2. /\ y.db \in Database /\ y.db.code = [x.db.code EXCEPT ![c] = Absent]
        /\ y.db.rules = x.db.rules /\ y.db.shared = x.db.shared
        /\ y.db.tasks = x.db.tasks /\ y.db.recs = x.db.recs
    <3> HIDE DEF ruleless
    <3>1. x.db \in Database /\ Absent \in (SUBSET Methods) \cup {Absent}
      BY <1>2
    <3>2. LET e == [x.db EXCEPT !.code[c] = Absent]
          IN  /\ e \in Database /\ e.code = [x.db.code EXCEPT ![c] = Absent]
              /\ e.rules = x.db.rules /\ e.shared = x.db.shared
              /\ e.tasks = x.db.tasks /\ e.recs = x.db.recs
      BY <3>1, WithCode
    <3> QED BY <2>1, <3>2
  <2>3. /\ y.db.code = [d.code EXCEPT ![c] = Absent] /\ y.db.rules = d.rules \ gone
        /\ y.mem = Unregistered(m, gone, d.rules \ gone)
    <3> HIDE DEF ruleless, gone
    <3> QED BY <1>2, <1>4, <2>1, <2>2
  <2>4. ASSUME DescribesRules(m, d) PROVE DescribesRules(y.mem, y.db)
    <3> HIDE DEF gone
    <3> QED BY <1>1, <2>2, <2>3, <2>4, DeletedDescribes
  <2>5. ASSUME CodeHasItsRules(d) PROVE CodeHasItsRules(y.db)
    <3>1. RulesOf(y.db, c) = {} /\ y.db.code[c] = Absent
      BY <2>3 DEF RulesOf, Database
    <3>2. \A b \in Classes \ {c} : RulesOf(y.db, b) = RulesOf(d, b) /\ y.db.code[b] = d.code[b]
      BY <2>3 DEF RulesOf, Database
    <3> QED BY <2>5, <3>1, <3>2 DEF CodeHasItsRules
  <2>6. y.broken = {} /\ KeptShared(d, y)
    <3> HIDE DEF ruleless
    <3> QED BY <1>2, <1>3, <2>1, <2>2
  <2>7. y.db.tasks = d.tasks /\ y.db.recs = d.recs
    <3> HIDE DEF ruleless
    <3> QED BY <1>2, <2>2
  <2> QED BY <2>1, <2>4, <2>5, <2>6, <2>7 DEF Rest, Kept
<1>5. ASSUME NEW x \in ruleless, y = [x EXCEPT !.ok = FALSE]
      PROVE  Rest(d, y) /\ Kept(m, d, y) /\ y.broken = {}
  <2> HIDE DEF ruleless
  <2>1. y \in Results /\ y.db = x.db /\ ~y.ok /\ y.broken = {}
    BY <1>2, <1>5 DEF Results
  <2>2. KeptShared(d, y)
    BY <1>3, <2>1
  <2>3. y.db.tasks = d.tasks /\ y.db.recs = d.recs
    BY <1>2, <2>1
  <2> QED BY <2>1, <2>2, <2>3 DEF Rest, Kept
<1>6. CASE y = Refused(m, d)
  <2>1. y \in Results /\ ~y.ok /\ y.broken = {} /\ y.db = d
    BY <1>6, RefusedFacts
  <2>2. KeptShared(d, y)
    <3>1. \A B : B \cup y.broken = B
      BY <2>1
    <3> QED BY <2>1, <3>1 DEF KeptShared
  <2> QED BY <2>1, <2>2 DEF Rest, Kept
<1>7. \/ y \in {[x EXCEPT !.db.code[c] = Absent] : x \in {w \in ruleless : w.ok}}
      \/ y \in {[x EXCEPT !.ok = FALSE] : x \in ruleless}
      \/ y = Refused(m, d)
  BY DEF DeleteClassResults
<1> HIDE DEF ruleless
<1> QED BY <1>4, <1>5, <1>6, <1>7

LEMMA DeclareRulesFacts ==
  ASSUME NEW m \in Registry, NEW d \in Database, NEW c \in Classes,
         NEW new \in SUBSET Rule, \A r \in new : r.class = c,
         NEW y \in DeclareRulesResults(m, d, c, new)
  PROVE  /\ Rest(d, y) /\ y.db.code = d.code
         /\ y.ok => /\ y.db.rules = (d.rules \ RulesOf(d, c)) \cup new
                    /\ DescribesRules(m, d) => DescribesRules(y.mem, y.db)
         /\ KeptShared(d, y)
<1> DEFINE gone == RulesOf(d, c)
<1>1. PICK x \in DeleteRulesResults(m, d, gone) :
        y \in IF ~x.ok THEN {x}
              ELSE {[WithRules(x, new) EXCEPT !.mem = WithDependents(@, new)]} \cup
                   UNION {WithBrokenRules(WithRules(x, done), new \ done) :
                            done \in SUBSET new}
  BY DEF DeclareRulesResults
<1>2. gone \in SUBSET d.rules
  BY RulesOfType
<1>3. /\ x \in Results /\ x.db = WithoutRules(d, gone) /\ x.broken = {}
      /\ x.ok => x.mem = Unregistered(m, gone, d.rules \ gone)
  <2> HIDE DEF gone
  <2>1. x \in Results /\ x.db = WithoutRules(d, gone)
    BY <1>2, DeleteRulesFacts
  <2>2. x.ok => x.mem = Unregistered(m, gone, d.rules \ gone)
    BY <1>2, DeleteRulesFacts
  <2>3. x.broken = {}
    BY DeleteRulesBreakNone
  <2> QED BY <2>1, <2>2, <2>3
<1>4. /\ x.db \in Database /\ x.db.rules = d.rules \ gone /\ x.db.code = d.code
      /\ x.db.shared = {s \in d.shared : s.rule \notin gone}
      /\ x.db.tasks = d.tasks /\ x.db.recs = d.recs
  <2> HIDE DEF gone
  <2> QED BY <1>2, <1>3, WithoutRulesFacts
<1>a. ASSUME NEW X, NEW B, Shared(X, d, B) PROVE Shared(X, x.db, B)
  <2> HIDE DEF gone
  <2> QED BY <1>4, <1>a, FewerRulesShared
<1>5. CASE ~x.ok
  <2>1. y = x
    BY <1>1, <1>5
  <2>2. \A B : B \cup y.broken = B
    BY <1>3, <2>1
  <2>3. KeptShared(d, y)
    BY <1>a, <2>1, <2>2 DEF KeptShared
  <2> QED BY <1>3, <1>4, <1>5, <2>1, <2>3 DEF Rest
<1>6. ASSUME NEW done \in SUBSET new, y \in WithBrokenRules(WithRules(x, done), new \ done)
      PROVE  Rest(d, y) /\ y.db.code = d.code /\ ~y.ok /\ KeptShared(d, y)
  <2> DEFINE z == WithRules(x, done)
  <2>a. x \in Results /\ done \in SUBSET Rule
    BY <1>3
  <2>b. /\ z \in Results
        /\ z.db.rules = x.db.rules \cup done
        /\ z.db.shared = x.db.shared \cup {s \in [rule : done, rec : x.db.recs] :
                                            RecType[s.rec] = RefOf(s.rule)}
        /\ z.db.code = x.db.code /\ z.db.tasks = x.db.tasks /\ z.db.recs = x.db.recs
    BY <2>a, WithRulesFacts
  <2>1. /\ z \in Results
        /\ z.db.rules = x.db.rules \cup done
        /\ z.db.shared = x.db.shared \cup {s \in [rule : done, rec : x.db.recs] :
                                            RecType[s.rec] = RefOf(s.rule)}
        /\ z.db.code = d.code /\ z.db.tasks = d.tasks /\ z.db.recs = d.recs
    <3> HIDE DEF z, gone
    <3> QED BY <1>4, <2>b
  <2> HIDE DEF z
  <2>2. y \in WithBrokenRules(z, new \ done)
    BY <1>6 DEF z
  <2>3. /\ y \in Results /\ ~y.ok
        /\ y.db.code = z.db.code /\ y.db.tasks = z.db.tasks /\ y.db.recs = z.db.recs
        /\ y.db.rules = z.db.rules \cup y.broken
        /\ z.db.shared \subseteq y.db.shared
    BY <2>1, <2>2, WithBrokenRulesFacts
  <2>4. ASSUME NEW X \in SUBSET d.recs, NEW B \in SUBSET Rule, Shared(X, d, B)
        PROVE  Shared(X, y.db, B \cup y.broken)
    <3>1. Shared(X, x.db, B)
      BY <1>a, <2>4
    <3>2. Shared(X, z.db, B)
      BY <1>4, <2>1, <3>1, MoreRulesShared
    <3> QED BY <2>3, <3>2, BrokenRulesShared
  <2> QED BY <2>1, <2>3, <2>4 DEF Rest, KeptShared
<1>7. CASE x.ok /\ y = [WithRules(x, new) EXCEPT !.mem = WithDependents(@, new)]
  <2> DEFINE z == WithRules(x, new)
  <2>1. /\ z \in Results /\ z.broken = {}
        /\ z.db.rules = x.db.rules \cup new
        /\ z.db.shared = x.db.shared \cup {s \in [rule : new, rec : x.db.recs] :
                                            RecType[s.rec] = RefOf(s.rule)}
        /\ z.db.code = d.code /\ z.db.tasks = d.tasks /\ z.db.recs = d.recs
        /\ z.mem.deps = x.mem.deps
        /\ z.mem.reg = Refreshed(x.mem.reg, {RefOf(r) : r \in new}, x.db.rules \cup new)
    BY <1>3, <1>4, WithRulesFacts
  <2> HIDE DEF z
  <2>2. z.mem \in Registry
    BY <2>1 DEF Results
  <2>3. /\ WithDependents(z.mem, new) \in Registry
        /\ WithDependents(z.mem, new).reg = z.mem.reg
        /\ DOMAIN WithDependents(z.mem, new).deps =
             DOMAIN z.mem.deps \cup UNION {DepsOf(r) : r \in new}
        /\ \A t \in DOMAIN WithDependents(z.mem, new).deps :
             WithDependents(z.mem, new).deps[t] =
               (IF t \in DOMAIN z.mem.deps THEN z.mem.deps[t] ELSE {}) \cup
               {r \in new : t \in DepsOf(r)}
    BY <2>2, WithDependentsType
  <2>4. y \in Results /\ y.mem = WithDependents(z.mem, new) /\ y.db = z.db /\ y.broken = {}
    BY <1>7, <2>1, <2>3 DEF Results, z
  <2>5. y.db.rules = (d.rules \ gone) \cup new
    BY <1>4, <2>1, <2>4
  <2>6. ASSUME DescribesRules(m, d) PROVE DescribesRules(y.mem, y.db)
    <3>1. DescribesRules(x.mem, x.db)
      <4> HIDE DEF gone
      <4> QED BY <1>2, <1>3, <1>4, <1>7, <2>6, DeletedDescribes
    <3>2. y.mem.reg = y.db.rules
      <4>1. x.mem.reg = x.db.rules
        BY <3>1 DEF DescribesRules
      <4>2. y.mem.reg = Refreshed(x.db.rules, {RefOf(r) : r \in new}, x.db.rules \cup new)
        BY <2>1, <2>3, <2>4, <4>1
      <4>3. Refreshed(x.db.rules, {RefOf(r) : r \in new}, x.db.rules \cup new) =
              x.db.rules \cup new
        BY DEF Refreshed
      <4> QED BY <2>1, <2>4, <4>2, <4>3
    <3>3. \A r \in y.db.rules : DepsOf(r) \subseteq DOMAIN y.mem.deps
      <4>1. \A r \in x.db.rules : DepsOf(r) \subseteq DOMAIN y.mem.deps
        BY <2>1, <2>3, <2>4, <3>1 DEF DescribesRules
      <4>2. \A r \in new : DepsOf(r) \subseteq DOMAIN y.mem.deps
        BY <2>3, <2>4
      <4> QED BY <2>1, <2>4, <4>1, <4>2
    <3>4. ASSUME NEW t \in DOMAIN y.mem.deps
          PROVE  y.mem.deps[t] = {r \in y.db.rules : t \in DepsOf(r)}
      <4>1. y.mem.deps[t] = (IF t \in DOMAIN x.mem.deps THEN x.mem.deps[t] ELSE {}) \cup
                            {r \in new : t \in DepsOf(r)}
        BY <2>1, <2>3, <2>4
      <4>2. (IF t \in DOMAIN x.mem.deps THEN x.mem.deps[t] ELSE {}) =
              {r \in x.db.rules : t \in DepsOf(r)}
        BY <3>1 DEF DescribesRules
      <4> QED BY <2>1, <2>4, <4>1, <4>2
    <3> QED BY <3>2, <3>3, <3>4 DEF DescribesRules
  <2>7. KeptShared(d, y)
    <3>1. ASSUME NEW X \in SUBSET d.recs, NEW B \in SUBSET Rule, Shared(X, d, B)
          PROVE  Shared(X, y.db, B \cup y.broken)
      <4>1. Shared(X, x.db, B)
        BY <1>a, <3>1
      <4>2. Shared(X, y.db, B)
        BY <1>4, <2>1, <2>4, <4>1, MoreRulesShared
      <4>3. B \cup y.broken = B
        BY <2>4
      <4> QED BY <4>2, <4>3
    <3> QED BY <3>1 DEF KeptShared
  <2> QED BY <2>1, <2>4, <2>5, <2>6, <2>7 DEF Rest
<1> QED BY <1>1, <1>5, <1>6, <1>7

LEMMA SaveClassFacts ==
  ASSUME NEW m \in Registry, NEW d \in Database, NEW c \in Classes,
         NEW methods \in SUBSET Methods, NEW no \in 0..MaxTx,
         NEW y \in SaveClassResults(m, d, c, methods, no)
  PROVE  Rest(d, y) /\ Kept(m, d, y)
<1> DEFINE new == {[class |-> c, method |-> a, no |-> no] : a \in methods}
           isNewFile == d.code[c] = Absent
           d0 == IF isNewFile THEN [d EXCEPT !.code[c] = methods] ELSE d
           declared == DeclareRulesResults(m, d0, c, new)
           failed == {[x EXCEPT !.ok = FALSE] : x \in declared} \cup {Refused(m, d0)}
           reverted == UNION {{[z EXCEPT !.ok = FALSE, !.broken = x.broken \cap z.db.rules] :
                                 z \in DeleteClassResults(x.mem, x.db, c)} : x \in failed}
<1>1. new \in SUBSET Rule /\ \A r \in new : r.class = c
  BY DEF Rule
<1>2. /\ d0 \in Database /\ d0.rules = d.rules /\ d0.shared = d.shared
      /\ d0.tasks = d.tasks /\ d0.recs = d.recs
      /\ d0.code = IF isNewFile THEN [d.code EXCEPT ![c] = methods] ELSE d.code
  BY WithCode
<1>3. RulesOf(d0, c) = RulesOf(d, c)
  <2> HIDE DEF d0
  <2> QED BY <1>2 DEF RulesOf
<1>4. ASSUME NEW x \in declared
      PROVE  /\ Rest(d, x) /\ x.db.code = d0.code
             /\ x.ok => /\ x.db.rules = (d.rules \ RulesOf(d, c)) \cup new
                        /\ DescribesRules(m, d) => DescribesRules(x.mem, x.db)
             /\ KeptShared(d, x)
  <2> HIDE DEF new, d0
  <2>1. /\ Rest(d0, x) /\ x.db.code = d0.code
        /\ x.ok => /\ x.db.rules = (d0.rules \ RulesOf(d0, c)) \cup new
                   /\ DescribesRules(m, d0) => DescribesRules(x.mem, x.db)
        /\ KeptShared(d0, x)
    BY <1>1, <1>2, DeclareRulesFacts
  <2>2. DescribesRules(m, d) => DescribesRules(m, d0)
    BY <1>2 DEF DescribesRules
  <2>3. KeptShared(d, x)
    BY <1>2, <2>1 DEF KeptShared, Shared
  <2> QED BY <1>2, <1>3, <2>1, <2>2, <2>3 DEF Rest
<1>5. ASSUME NEW x \in declared, x.ok, y = [x EXCEPT !.db.code[c] = methods]
      PROVE  Rest(d, y) /\ Kept(m, d, y)
  <2>1. x \in Results /\ x.db \in Database
    BY <1>4 DEF Rest, Results
  <2>2. /\ y \in Results /\ y.mem = x.mem /\ y.ok = x.ok /\ y.broken = x.broken
        /\ y.db = [x.db EXCEPT !.code[c] = methods]
    <3> HIDE DEF declared
    <3>1. methods \in (SUBSET Methods) \cup {Absent}
      OBVIOUS
    <3>2. LET e == [x EXCEPT !.db.code[c] = methods]
          IN  e \in Results /\ e.mem = x.mem /\ e.ok = x.ok /\ e.broken = x.broken
              /\ e.db = [x.db EXCEPT !.code[c] = methods]
      BY <2>1, <3>1, ResultWithCode
    <3> QED BY <1>5, <3>2
  <2>3. /\ y.db.code = [x.db.code EXCEPT ![c] = methods]
        /\ y.db.rules = x.db.rules /\ y.db.shared = x.db.shared
        /\ y.db.tasks = x.db.tasks /\ y.db.recs = x.db.recs
    BY <2>1, <2>2, WithCode
  <2>4. DescribesRules(m, d) => DescribesRules(y.mem, y.db)
    BY <1>4, <1>5, <2>2, <2>3 DEF DescribesRules
  <2>5. KeptShared(d, y)
    <3>1. KeptShared(d, x)
      BY <1>4
    <3> HIDE DEF declared
    <3> QED BY <2>2, <2>3, <3>1 DEF KeptShared, Shared
  <2>6. ASSUME CodeHasItsRules(d) PROVE CodeHasItsRules(y.db)
    <3>1. y.db.rules = (d.rules \ RulesOf(d, c)) \cup new
      BY <1>4, <1>5, <2>3
    <3>2. y.db.code[c] = methods /\ \A b \in Classes \ {c} : y.db.code[b] = d.code[b]
      <4>1. d.code \in [Classes -> (SUBSET Methods) \cup {Absent}]
        BY DEF Database
      <4> QED BY <1>2, <1>4, <2>3, <4>1
    <3>3. RulesOf(y.db, c) = new
      BY <1>1, <3>1 DEF RulesOf
    <3>4. {r.method : r \in new} = methods
      <4>1. \A r \in new : r.method \in methods
        OBVIOUS
      <4>2. ASSUME NEW a \in methods PROVE \E r \in new : r.method = a
        <5>1. [class |-> c, method |-> a, no |-> no] \in new
          OBVIOUS
        <5> QED BY <5>1
      <4> HIDE DEF new
      <4> QED BY <4>1, <4>2
    <3>5. \A b \in Classes \ {c} : RulesOf(y.db, b) = RulesOf(d, b)
      <4> HIDE DEF new
      <4> QED BY <1>1, <3>1 DEF RulesOf
    <3>6. methods # Absent
      BY AbsentAssumption
    <3> HIDE DEF new
    <3> QED BY <2>6, <3>2, <3>3, <3>4, <3>5, <3>6 DEF CodeHasItsRules
  <2> QED BY <1>4, <2>2, <2>3, <2>4, <2>5, <2>6 DEF Rest, Kept
<1>6. ASSUME NEW x \in failed
      PROVE  /\ Rest(d, x) /\ ~x.ok /\ x.mem \in Registry /\ x.db \in Database
             /\ KeptShared(d, x)
  <2>1. CASE x = Refused(m, d0)
    <3>1. x \in Results /\ ~x.ok /\ x.broken = {} /\ x.db = d0 /\ x.mem = m
      <4> HIDE DEF d0
      <4> QED BY <1>2, <2>1, RefusedFacts
    <3> HIDE DEF d0, failed
    <3>2. KeptShared(d, x)
      <4>1. \A B : B \cup x.broken = B
        BY <3>1
      <4> QED BY <1>2, <3>1, <4>1 DEF KeptShared, Shared
    <3> QED BY <1>2, <3>1, <3>2 DEF Rest
  <2>2. CASE x \in {[z EXCEPT !.ok = FALSE] : z \in declared}
    <3>1. PICK z \in declared : x = [z EXCEPT !.ok = FALSE]
      BY <2>2
    <3>2. Rest(d, z) /\ KeptShared(d, z)
      BY <1>4
    <3> HIDE DEF declared, failed
    <3>3. /\ x \in Results /\ ~x.ok /\ x.mem \in Registry /\ x.db \in Database
          /\ x.db = z.db /\ x.broken = z.broken
      BY <3>1, <3>2 DEF Rest, Results
    <3> QED BY <3>2, <3>3 DEF Rest, KeptShared
  <2> QED BY <2>1, <2>2
<1>7. ASSUME NEW x \in failed, NEW z \in DeleteClassResults(x.mem, x.db, c),
             y = [z EXCEPT !.ok = FALSE, !.broken = x.broken \cap z.db.rules]
      PROVE  Rest(d, y) /\ ~y.ok /\ KeptShared(d, y)
  <2>1. /\ Rest(d, x) /\ x.mem \in Registry /\ x.db \in Database
        /\ KeptShared(d, x)
    BY <1>6
  <2>2. Rest(x.db, z) /\ KeptShared(x.db, z) /\ z.broken = {}
    <3> HIDE DEF failed
    <3> QED BY <1>7, <2>1, DeleteClassFacts DEF Kept
  <2> HIDE DEF failed
  <2>3. x.db.tasks = d.tasks /\ x.db.recs = d.recs /\ x.broken \in SUBSET Rule
    BY <2>1 DEF Rest, Results
  <2>4. /\ y \in Results /\ ~y.ok /\ y.db = z.db /\ y.broken = x.broken \cap z.db.rules
    BY <1>7, <2>2, <2>3 DEF Rest, Results
  <2>5. ASSUME NEW X \in SUBSET d.recs, NEW B \in SUBSET Rule, Shared(X, d, B)
        PROVE  Shared(X, y.db, B \cup y.broken)
    <3>1. Shared(X, x.db, B \cup x.broken)
      BY <2>1, <2>5 DEF KeptShared
    <3>2. Shared(X, z.db, (B \cup x.broken) \cup z.broken)
      BY <2>2, <2>3, <3>1 DEF KeptShared
    <3>3. z.db.rules \ ((B \cup x.broken) \cup z.broken) = y.db.rules \ (B \cup y.broken)
      BY <2>2, <2>4
    <3> QED BY <2>4, <3>2, <3>3 DEF Shared
  <2> QED BY <2>2, <2>3, <2>4, <2>5 DEF Rest, KeptShared
<1>8. \/ y \in {[x EXCEPT !.db.code[c] = methods] : x \in {w \in declared : w.ok}}
      \/ y = Refused(m, d)
      \/ y \in (IF isNewFile THEN reverted ELSE failed)
  BY DEF SaveClassResults
<1>9. CASE y = Refused(m, d)
  <2>1. y \in Results /\ ~y.ok /\ y.broken = {} /\ y.db = d
    BY <1>9, RefusedFacts
  <2>2. \A B : B \cup y.broken = B
    BY <2>1
  <2>3. KeptShared(d, y)
    BY <2>1, <2>2 DEF KeptShared
  <2> QED BY <2>1, <2>3 DEF Rest, Kept
<1>10. CASE y \in reverted
  <2> HIDE DEF failed
  <2>1. PICK x \in failed :
          y \in {[z EXCEPT !.ok = FALSE, !.broken = x.broken \cap z.db.rules] :
                   z \in DeleteClassResults(x.mem, x.db, c)}
    BY <1>10
  <2>2. PICK z \in DeleteClassResults(x.mem, x.db, c) :
          y = [z EXCEPT !.ok = FALSE, !.broken = x.broken \cap z.db.rules]
    BY <2>1
  <2> QED BY <1>7, <2>2 DEF Kept
<1> HIDE DEF new, isNewFile, d0, declared, failed, reverted
<1>11. CASE y \in {[x EXCEPT !.db.code[c] = methods] : x \in {w \in declared : w.ok}}
  BY <1>5, <1>11
<1>12. CASE y \in failed
  BY <1>6, <1>12 DEF Kept
<1> QED BY <1>8, <1>9, <1>10, <1>11, <1>12

-----------------------------------------------------------------------------
(* The steps.                                                              *)

LEMMA TxFacts ==
  ASSUME TypeOK, tx # NoTx
  PROVE  /\ tx \in Tx /\ tx.db \in Database /\ tx.db.tasks \in TaskVersions
         /\ tx.db.recs \subseteq Records
BY DEF TypeOK, Tx, Database

LEMMA NoTxKind ==
  ASSUME NEW kinds, kinds \subseteq {"call", "deploy", "deactivate"}, tx.kind \in kinds
  PROVE  tx # NoTx
BY DEF NoTx

\* A class was saved or deleted.
ClassStep ==
  \E c \in Classes, x \in Results :
    /\ tx # NoTx /\ tx.phase = "work"
    /\ LeaveRules(c, x)
    /\ Rest(tx.db, x) /\ Kept(mem, tx.db, x)

\* A task was scheduled or unscheduled, or that failed.
TaskStep ==
  \E k \in Tasks, tasks \in TaskVersions, j \in TaskVersions,
     ok \in BOOLEAN, listed \in BOOLEAN :
    /\ tx # NoTx /\ tx.phase = "work"
    /\ LeaveTask(k, tasks, j, ok, listed)
    /\ listed \/ tx.kind # "deploy" \/ DOMAIN tasks \subseteq DOMAIN tx.db.tasks
    /\ DOMAIN j \subseteq DOMAIN jobs \cup {k}
    /\ DOMAIN tasks \subseteq DOMAIN tx.db.tasks \cup {k}
    /\ DOMAIN jobs \subseteq DOMAIN tx.db.tasks => DOMAIN j \subseteq DOMAIN tasks
    /\ ok /\ HaveJobs(tx.db.tasks, jobs) => HaveJobs(tasks, j)

LEMMA SaveClassStep ==
  ASSUME TypeOK, NEW c \in Classes, SaveClass(c) PROVE ClassStep
<1>1. tx # NoTx /\ tx.phase = "work"
  BY NoTxKind DEF SaveClass, Handles
<1>2. PICK methods \in SUBSET Methods :
        \E x \in SaveClassResults(mem, tx.db, c, methods, txs) : LeaveRules(c, x)
  BY DEF SaveClass
<1>3. PICK x \in SaveClassResults(mem, tx.db, c, methods, txs) : LeaveRules(c, x)
  BY <1>2
<1>4. mem \in Registry /\ tx.db \in Database /\ txs \in 0..MaxTx
  BY <1>1, TxFacts DEF TypeOK
<1>5. Rest(tx.db, x) /\ Kept(mem, tx.db, x)
  BY <1>4, SaveClassFacts
<1> QED BY <1>1, <1>3, <1>5 DEF ClassStep, Rest

LEMMA DeleteClassStep ==
  ASSUME TypeOK, NEW c \in Classes, DeleteClass(c) PROVE ClassStep
<1>1. tx # NoTx /\ tx.phase = "work"
  BY NoTxKind DEF DeleteClass, Handles
<1>2. PICK x \in DeleteClassResults(mem, tx.db, c) : LeaveRules(c, x)
  BY DEF DeleteClass
<1>3. mem \in Registry /\ tx.db \in Database
  BY <1>1, TxFacts DEF TypeOK
<1>4. Rest(tx.db, x) /\ Kept(mem, tx.db, x)
  BY <1>3, DeleteClassFacts
<1> QED BY <1>1, <1>2, <1>4 DEF ClassStep, Rest

\* Maps of tasks.
LEMMA WithFacts ==
  ASSUME NEW f \in TaskVersions, NEW k \in Tasks, NEW v \in 0..MaxTx
  PROVE  /\ With(f, k, v) \in TaskVersions
         /\ DOMAIN With(f, k, v) = DOMAIN f \cup {k}
         /\ \A i \in DOMAIN f \cup {k} : With(f, k, v)[i] = IF i = k THEN v ELSE f[i]
BY DEF With, TaskVersions

LEMMA RestrictFacts ==
  ASSUME NEW f \in TaskVersions, NEW K
  PROVE  /\ Restrict(f, DOMAIN f \ K) \in TaskVersions
         /\ DOMAIN Restrict(f, DOMAIN f \ K) = DOMAIN f \ K
         /\ \A i \in DOMAIN f \ K : Restrict(f, DOMAIN f \ K)[i] = f[i]
<1>1. DOMAIN f \subseteq Tasks /\ \A i \in DOMAIN f : f[i] \in 0..MaxTx
  BY DEF TaskVersions
<1>2. Restrict(f, DOMAIN f \ K) \in [DOMAIN f \ K -> 0..MaxTx]
  BY <1>1 DEF Restrict
<1> QED BY <1>1, <1>2 DEF Restrict, TaskVersions

LEMMA WithoutFacts ==
  ASSUME NEW f \in TaskVersions, NEW k
  PROVE  /\ Without(f, k) \in TaskVersions
         /\ DOMAIN Without(f, k) = DOMAIN f \ {k}
         /\ \A i \in DOMAIN f \ {k} : Without(f, k)[i] = f[i]
BY RestrictFacts DEF Without

LEMMA TaskStepOf ==
  ASSUME NEW k \in Tasks, NEW tasks \in TaskVersions, NEW j \in TaskVersions,
         NEW ok \in BOOLEAN, NEW listed \in BOOLEAN,
         tx # NoTx, tx.phase = "work",
         LeaveTask(k, tasks, j, ok, listed),
         listed \/ tx.kind # "deploy" \/ DOMAIN tasks \subseteq DOMAIN tx.db.tasks,
         DOMAIN j \subseteq DOMAIN jobs \cup {k},
         DOMAIN tasks \subseteq DOMAIN tx.db.tasks \cup {k},
         DOMAIN jobs \subseteq DOMAIN tx.db.tasks => DOMAIN j \subseteq DOMAIN tasks,
         ok /\ HaveJobs(tx.db.tasks, jobs) => HaveJobs(tasks, j)
  PROVE  TaskStep
BY DEF TaskStep

LEMMA HaveJobsWith ==
  ASSUME NEW f \in TaskVersions, NEW j \in TaskVersions, NEW k \in Tasks, NEW v \in 0..MaxTx,
         HaveJobs(f, j)
  PROVE  HaveJobs(With(f, k, v), With(j, k, v))
<1> DEFINE f1 == With(f, k, v)
           j1 == With(j, k, v)
<1>1. /\ DOMAIN f1 = DOMAIN f \cup {k}
      /\ \A i \in DOMAIN f \cup {k} : f1[i] = IF i = k THEN v ELSE f[i]
  BY WithFacts
<1>2. /\ DOMAIN j1 = DOMAIN j \cup {k}
      /\ \A i \in DOMAIN j \cup {k} : j1[i] = IF i = k THEN v ELSE j[i]
  BY DEF With
<1> HIDE DEF f1, j1
<1>3. HaveJobs(f1, j1)
  BY <1>1, <1>2 DEF HaveJobs
<1> QED BY <1>3 DEF f1, j1

LEMMA HaveJobsWithout ==
  ASSUME NEW f \in TaskVersions, NEW j \in TaskVersions, NEW k, HaveJobs(f, j)
  PROVE  HaveJobs(Without(f, k), Without(j, k))
<1> DEFINE f1 == Without(f, k)
           j1 == Without(j, k)
<1>1. /\ DOMAIN f1 = DOMAIN f \ {k} /\ DOMAIN j1 = DOMAIN j \ {k}
      /\ \A i \in DOMAIN f \ {k} : f1[i] = f[i]
      /\ \A i \in DOMAIN j \ {k} : j1[i] = j[i]
  BY WithoutFacts
<1> HIDE DEF f1, j1
<1>2. HaveJobs(f1, j1)
  BY <1>1 DEF HaveJobs
<1> QED BY <1>2 DEF f1, j1

LEMMA ScheduleTaskStep ==
  ASSUME TypeOK, NEW k \in Tasks, ScheduleTask(k) PROVE TaskStep
<1>1. tx # NoTx /\ tx.phase = "work"
  BY NoTxKind DEF ScheduleTask, Handles
<1>2. tx.db.tasks \in TaskVersions /\ jobs \in TaskVersions /\ txs \in 0..MaxTx
  BY <1>1, TxFacts DEF TypeOK
<1> DEFINE tasks == tx.db.tasks
<1>3. CASE LeaveTask(k, With(tasks, k, txs), With(jobs, k, txs), TRUE, TRUE)
  <2>1. HaveJobs(tasks, jobs) => HaveJobs(With(tasks, k, txs), With(jobs, k, txs))
    BY <1>2, HaveJobsWith
  <2> DEFINE f == With(tasks, k, txs)
             j == With(jobs, k, txs)
  <2>2. /\ f \in TaskVersions /\ j \in TaskVersions
        /\ DOMAIN f = DOMAIN tasks \cup {k} /\ DOMAIN j = DOMAIN jobs \cup {k}
    BY <1>2, WithFacts
  <2> HIDE DEF f, j
  <2>3. LeaveTask(k, f, j, TRUE, TRUE) /\ (HaveJobs(tasks, jobs) => HaveJobs(f, j))
    BY <1>3, <2>1 DEF f, j
  <2> QED BY <1>1, <2>2, <2>3, TaskStepOf
<1>4. ASSUME NEW listed \in BOOLEAN,
             LeaveTask(k, tasks, IF tx.kind = "call" THEN Without(jobs, k) ELSE jobs,
                       FALSE, listed)
      PROVE  TaskStep
  <2> DEFINE j == IF tx.kind = "call" THEN Without(jobs, k) ELSE jobs
  <2>1. j \in TaskVersions /\ DOMAIN j \subseteq DOMAIN jobs
    BY <1>2, WithoutFacts
  <2> HIDE DEF j
  <2>2. LeaveTask(k, tasks, j, FALSE, listed)
    BY <1>4 DEF j
  <2> QED BY <1>1, <1>2, <2>1, <2>2, TaskStepOf
<1>5. CASE LeaveTask(k, Without(tasks, k), Without(jobs, k), FALSE, TRUE)
  <2> DEFINE f == Without(tasks, k)
             j == Without(jobs, k)
  <2>1. /\ f \in TaskVersions /\ j \in TaskVersions
        /\ DOMAIN f = DOMAIN tasks \ {k} /\ DOMAIN j = DOMAIN jobs \ {k}
    BY <1>2, WithoutFacts
  <2> HIDE DEF f, j
  <2>2. LeaveTask(k, f, j, FALSE, TRUE)
    BY <1>5 DEF f, j
  <2> QED BY <1>1, <2>1, <2>2, TaskStepOf
<1> QED BY <1>3, <1>4, <1>5 DEF ScheduleTask

LEMMA UnscheduleTaskStep ==
  ASSUME TypeOK, NEW k \in Tasks, UnscheduleTask(k) PROVE TaskStep
<1>1. tx # NoTx /\ tx.phase = "work"
  BY NoTxKind DEF UnscheduleTask, Handles
<1> DEFINE f == Without(tx.db.tasks, k)
           j == Without(jobs, k)
<1>2. tx.db.tasks \in TaskVersions /\ jobs \in TaskVersions
  BY <1>1, TxFacts DEF TypeOK
<1>3. LeaveTask(k, f, j, TRUE, FALSE)
  BY DEF UnscheduleTask
<1>4. HaveJobs(tx.db.tasks, jobs) => HaveJobs(f, j)
  BY <1>2, HaveJobsWithout
<1>5. /\ f \in TaskVersions /\ j \in TaskVersions
      /\ DOMAIN f = DOMAIN tx.db.tasks \ {k} /\ DOMAIN j = DOMAIN jobs \ {k}
  BY <1>2, WithoutFacts
<1> HIDE DEF f, j
<1> QED BY <1>1, <1>3, <1>4, <1>5, TaskStepOf

CommitStep == tx # NoTx /\ tx.phase = "work" /\ TxCommitted

LEMMA StepCases ==
  ASSUME TypeOK, [Next]_vars
  PROVE  \/ LoadEnv \/ ClearCache \/ Restart
         \/ \E kind \in {"call", "deploy", "deactivate"} : Begin(kind)
         \/ ClassStep \/ TaskStep \/ CommitStep
         \/ RollBack \/ ResetEnv \/ CleanUpFailedDeployment
         \/ \E r \in Records : BeginRecordSave(r)
         \/ CommitRecordSave
         \/ UNCHANGED vars
<1>1. Commit \/ AbandonDeployment => CommitStep
  BY DEF Commit, AbandonDeployment, CommitStep
<1>2. CASE tx # NoTx /\ \/ \E c \in Classes : SaveClass(c) \/ DeleteClass(c)
                        \/ \E k \in Tasks : ScheduleTask(k) \/ UnscheduleTask(k)
  BY <1>2, SaveClassStep, DeleteClassStep, ScheduleTaskStep, UnscheduleTaskStep
<1> QED BY <1>1, <1>2 DEF Next

-----------------------------------------------------------------------------
(* Types.                                                                  *)

LEMMA SharingsOfType ==
  ASSUME TypeOK, NEW r \in Records PROVE SharingsOf(r) \subseteq Sharing
<1>1. mem.reg \subseteq Rule /\ \A t \in DOMAIN mem.deps : mem.deps[t] \subseteq Rule
  BY RegistryParts DEF TypeOK
<1>2. db.recs \subseteq Records
  BY DEF TypeOK, Database
<1> QED BY <1>1, <1>2 DEF SharingsOf, Sharing

LEMMA WithSaveFacts ==
  ASSUME save \in RecordSave, NEW d \in Database
  PROVE  /\ WithSave(d) \in Database
         /\ WithSave(d).recs = d.recs \cup {save.rec}
         /\ WithSave(d).shared = d.shared \cup save.rows
         /\ WithSave(d).rules = d.rules /\ WithSave(d).tasks = d.tasks
         /\ WithSave(d).code = d.code
BY DEF WithSave, RecordSave, Database

LEMMA NoTasks == <<>> \in TaskVersions
<1>1. <<>> \in [{} -> 0..MaxTx]
  OBVIOUS
<1> QED BY <1>1 DEF TaskVersions

LEMMA TypeInit == Init => TypeOK
<1> SUFFICES ASSUME Init PROVE TypeOK
  OBVIOUS
<1>2. db \in Database
  BY NoTasks DEF Init, Database
<1>3. mem \in Registry
  BY LoadedType DEF Init
<1>4. txs \in 0..MaxTx /\ saves \in 0..MaxSaves /\ clears \in 0..MaxClears
  BY MaxTxAssumption, BoundsAssumption DEF Init
<1> QED BY NoTasks, <1>2, <1>3, <1>4 DEF Init, TypeOK

LEMMA TypeStep == TypeOK /\ [Next]_vars => TypeOK'
<1> SUFFICES ASSUME TypeOK, [Next]_vars PROVE TypeOK'
  OBVIOUS
<1> USE DEF counters, ghosts
<1>1. CASE LoadEnv
  <2>1. db.rules \in SUBSET Rule /\ db.tasks \in TaskVersions /\ jobs \in TaskVersions
    BY DEF TypeOK, Database
  <2>2. mem' \in Registry
    BY <1>1, <2>1, LoadedType DEF LoadEnv
  <2>3. jobs' \in TaskVersions
    BY <1>1, <2>1 DEF LoadEnv, TaskVersions
  <2> QED BY <1>1, <2>2, <2>3 DEF LoadEnv, TypeOK
<1>2. CASE ClearCache
  <2>1. mem' \in Registry
    BY <1>2, LoadedType DEF ClearCache, Uncache
  <2>2. clears' \in 0..MaxClears
    BY <1>2, BoundsAssumption DEF ClearCache, TypeOK
  <2> QED BY <1>2, <2>1, <2>2 DEF ClearCache, Uncache, TypeOK
<1>3. CASE Restart
  <2>1. mem' \in Registry
    BY <1>3, LoadedType DEF Restart, Uncache
  <2>2. jobs' \in TaskVersions
    BY <1>3, NoTasks DEF Restart
  <2>3. clears' \in 0..MaxClears
    BY <1>3, BoundsAssumption DEF Restart, TypeOK
  <2> QED BY <1>3, <2>1, <2>2, <2>3 DEF Restart, Uncache, TypeOK
<1>4. CASE \E kind \in {"call", "deploy", "deactivate"} : Begin(kind)
  <2>0. PICK kind \in {"call", "deploy", "deactivate"} : Begin(kind)
    BY <1>4
  <2>1. tx' \in Tx
    BY <2>0 DEF Begin, Tx, TypeOK
  <2>2. txs' \in 0..MaxTx
    BY <2>0, MaxTxAssumption DEF Begin, TypeOK
  <2> QED BY <2>0, <2>1, <2>2 DEF Begin, TypeOK
<1>5. CASE ClassStep
  <2>1. PICK c \in Classes, x \in Results : tx # NoTx /\ LeaveRules(c, x)
    BY <1>5 DEF ClassStep
  <2>2. tx' \in Tx /\ mem' \in Registry
    BY <2>1, TxFacts DEF LeaveRules, Tx, Results
  <2> QED BY <2>1, <2>2 DEF LeaveRules, TypeOK
<1>6. CASE TaskStep
  <2>1. PICK k \in Tasks, tasks \in TaskVersions, j \in TaskVersions,
             ok \in BOOLEAN, listed \in BOOLEAN :
               tx # NoTx /\ LeaveTask(k, tasks, j, ok, listed)
    BY <1>6 DEF TaskStep
  <2>2. tx \in Tx
    BY <2>1, TxFacts
  <2>3. tx' \in Tx /\ jobs' \in TaskVersions
    BY <2>1, <2>2 DEF LeaveTask, Tx, Database
  <2> QED BY <2>1, <2>3 DEF LeaveTask, TypeOK
<1>7. CASE CommitStep
  <2>1. tx \in Tx /\ tx.db \in Database /\ tx.failed \in BOOLEAN /\ db.recs \subseteq Records
    BY <1>7, TxFacts DEF CommitStep, Tx, TypeOK, Database
  <2>2. (tainted \/ tx.failed) \in BOOLEAN /\ (halfDone \/ tx.failed) \in BOOLEAN
    OBVIOUS
  <2>3. broken' \subseteq Rule
    BY <1>7, <2>1 DEF CommitStep, TxCommitted, TypeOK, Database
  <2> QED BY <1>7, <2>1, <2>2, <2>3 DEF CommitStep, TxCommitted, TypeOK
<1>8. CASE RollBack
  BY <1>8 DEF RollBack, TypeOK
<1>9. CASE ResetEnv
  <2>1. mem' \in Registry
    BY <1>9, LoadedType DEF ResetEnv, Uncache
  <2>2. tx' \in Tx
    BY <1>9, TxFacts DEF ResetEnv, Tx
  <2> QED BY <1>9, <2>1, <2>2 DEF ResetEnv, Uncache, TypeOK
<1>10. CASE CleanUpFailedDeployment
  <2>1. jobs' \in TaskVersions
    <3>1. jobs \in TaskVersions
      BY DEF TypeOK
    <3>2. Restrict(jobs, DOMAIN jobs \ tx.cleanup) \in TaskVersions
      BY <3>1, RestrictFacts
    <3> QED BY <1>10, <3>2 DEF CleanUpFailedDeployment
  <2> QED BY <1>10, <2>1 DEF CleanUpFailedDeployment, TypeOK
<1>11. CASE \E r \in Records : BeginRecordSave(r)
  <2>1. save' \in RecordSave
    BY <1>11, SharingsOfType DEF BeginRecordSave, RecordSave
  <2> QED BY <1>11, <2>1, BoundsAssumption DEF BeginRecordSave, TypeOK
<1>12. CASE CommitRecordSave
  <2>1. save \in RecordSave
    BY <1>12 DEF CommitRecordSave, TypeOK
  <2>2. db' \in Database
    BY <1>12, <2>1, WithSaveFacts DEF CommitRecordSave, TypeOK
  <2>3. tx' \in Tx \cup {NoTx}
    BY <1>12, <2>1, TxFacts, WithSaveFacts DEF CommitRecordSave, Tx
  <2> QED BY <1>12, <2>2, <2>3 DEF CommitRecordSave, TypeOK
<1>13. CASE UNCHANGED vars
  BY <1>13 DEF vars, TypeOK
<1> QED BY <1>1, <1>2, <1>3, <1>4, <1>5, <1>6, <1>7, <1>8, <1>9, <1>10, <1>11, <1>12,
           <1>13, StepCases

\* Types of the database, the registry, the jobs and both transactions.
THEOREM TypeCorrect == Spec => []TypeOK
BY TypeInit, TypeStep, PTL DEF Spec

-----------------------------------------------------------------------------
(* What the steps do with the transaction.                                 *)

Working == tx # NoTx /\ tx.phase = "work"
Cleaning == tx # NoTx /\ tx.phase = "cleanup"

LEMMA Phases == TypeOK => (tx = NoTx \/ Working \/ Cleaning) /\ ~(Working /\ Cleaning)
BY TxFacts DEF Working, Cleaning, Tx

LEMMA KindOfTx == ASSUME NEW t \in Tx PROVE t # NoTx
BY DEF Tx, NoTx

LEMMA BeginEffect ==
  ASSUME TypeOK, NEW kind \in {"call", "deploy", "deactivate"}, Begin(kind)
  PROVE  /\ tx = NoTx /\ cached
         /\ tx' # NoTx /\ tx'.phase = "work" /\ tx'.db = db /\ tx'.kind = kind
         /\ ~tx'.failed /\ tx'.cleanup = {} /\ tx'.broken = {}
         /\ UNCHANGED <<db, cached, mem, jobs, save, ghosts>>
BY DEF Begin, NoTx

ClassMove(x) ==
  /\ Working /\ tx' # NoTx /\ tx'.phase = "work"
  /\ tx'.kind = tx.kind /\ tx'.cleanup = tx.cleanup /\ tx'.db = x.db
  /\ tx'.failed = (tx.failed \/ ~x.ok) /\ mem' = x.mem
  /\ tx'.broken = tx.broken \cup x.broken
  /\ excused' = excused \cup ({save.rec} \cap Records)
  /\ Rest(tx.db, x) /\ Kept(mem, tx.db, x)
  /\ UNCHANGED <<db, cached, jobs, save, tainted, orphaned, halfDone, reloaded,
                 broken>>

LEMMA ClassEffect ==
  ASSUME TypeOK, ClassStep PROVE \E x \in Results : ClassMove(x)
<1>1. PICK c \in Classes, x \in Results :
        /\ Working
        /\ LeaveRules(c, x)
        /\ Rest(tx.db, x) /\ Kept(mem, tx.db, x)
  BY DEF ClassStep, Working
<1>2. tx \in Tx
  BY <1>1, TxFacts DEF Working
<1>3. tx' = [tx EXCEPT !.db = x.db, !.items = @ \cup {c}, !.failed = @ \/ ~x.ok,
                       !.broken = @ \cup x.broken]
  BY <1>1 DEF LeaveRules
<1>4. /\ tx' # NoTx /\ tx'.phase = "work" /\ tx'.kind = tx.kind
      /\ tx'.cleanup = tx.cleanup /\ tx'.db = x.db
      /\ tx'.failed = (tx.failed \/ ~x.ok) /\ tx'.broken = tx.broken \cup x.broken
  BY <1>1, <1>2, <1>3 DEF Tx, NoTx, Working
<1>5. ClassMove(x)
  BY <1>1, <1>4 DEF LeaveRules, counters, ClassMove
<1> QED BY <1>5

TaskMove(k, tasks, ok) ==
  /\ Working /\ tx' # NoTx /\ tx'.phase = "work" /\ tx'.kind = tx.kind
  /\ tx.cleanup \subseteq tx'.cleanup /\ tx'.broken = tx.broken
  /\ k \in tx'.cleanup \/ tx.kind # "deploy" \/ DOMAIN tasks \subseteq DOMAIN tx.db.tasks
  /\ tx'.db = [tx.db EXCEPT !.tasks = tasks]
  /\ tx'.failed = (tx.failed \/ ~ok)
  /\ DOMAIN tasks \subseteq DOMAIN tx.db.tasks \cup {k}
  /\ DOMAIN jobs \subseteq DOMAIN tx.db.tasks => DOMAIN jobs' \subseteq DOMAIN tasks
  /\ ok /\ HaveJobs(tx.db.tasks, jobs) => HaveJobs(tasks, jobs')
  /\ UNCHANGED <<db, cached, mem, save, ghosts>>

LEMMA TaskEffect ==
  ASSUME TypeOK, TaskStep
  PROVE  \E k \in Tasks, tasks \in TaskVersions, ok \in BOOLEAN : TaskMove(k, tasks, ok)
<1>1. PICK k \in Tasks, tasks \in TaskVersions, j \in TaskVersions,
           ok \in BOOLEAN, listed \in BOOLEAN :
        /\ Working
        /\ LeaveTask(k, tasks, j, ok, listed)
        /\ listed \/ tx.kind # "deploy" \/ DOMAIN tasks \subseteq DOMAIN tx.db.tasks
        /\ DOMAIN tasks \subseteq DOMAIN tx.db.tasks \cup {k}
        /\ DOMAIN jobs \subseteq DOMAIN tx.db.tasks => DOMAIN j \subseteq DOMAIN tasks
        /\ ok /\ HaveJobs(tx.db.tasks, jobs) => HaveJobs(tasks, j)
  BY DEF TaskStep, Working
<1>2. tx \in Tx
  BY <1>1, TxFacts DEF Working
<1>3. tx' = [tx EXCEPT !.db.tasks = tasks, !.items = @ \cup {k},
                       !.cleanup = IF tx.kind = "deploy" /\ listed THEN @ \cup {k} ELSE @,
                       !.failed = @ \/ ~ok]
  BY <1>1 DEF LeaveTask
<1>4. /\ tx' # NoTx /\ tx'.phase = "work" /\ tx'.kind = tx.kind
      /\ tx'.cleanup = IF tx.kind = "deploy" /\ listed THEN tx.cleanup \cup {k}
                       ELSE tx.cleanup
      /\ tx'.db = [tx.db EXCEPT !.tasks = tasks]
      /\ tx'.failed = (tx.failed \/ ~ok) /\ tx'.broken = tx.broken
  BY <1>1, <1>2, <1>3 DEF Tx, NoTx, Working
<1>5. jobs' = j
  BY <1>1 DEF LeaveTask
<1>6. TaskMove(k, tasks, ok)
  BY <1>1, <1>4, <1>5 DEF LeaveTask, counters, TaskMove
<1> QED BY <1>6

LEMMA ResetEffect ==
  ASSUME TypeOK, ResetEnv
  PROVE  /\ Working /\ tx.kind = "deploy" /\ tx.failed
         /\ tx' # NoTx /\ tx'.phase = "cleanup" /\ tx'.kind = tx.kind
         /\ tx'.db = tx.db /\ tx'.cleanup = tx.cleanup /\ tx'.failed = tx.failed
         /\ tx'.broken = tx.broken
         /\ cached' = FALSE
         /\ UNCHANGED <<db, jobs, save, ghosts>>
<1>1. tx \in Tx
  BY TxFacts DEF ResetEnv
<1> QED BY <1>1 DEF ResetEnv, Working, Uncache, Tx, NoTx

LEMMA SaveEffect ==
  ASSUME TypeOK, CommitRecordSave
  PROVE  /\ save \in RecordSave /\ save' = NoSave /\ save # NoSave
         /\ db' = WithSave(db)
         /\ tx = NoTx => tx' = NoTx
         /\ tx # NoTx => /\ tx' # NoTx /\ tx'.phase = tx.phase /\ tx'.kind = tx.kind
                        /\ tx'.cleanup = tx.cleanup /\ tx'.failed = tx.failed
                        /\ tx'.db = WithSave(tx.db) /\ tx'.broken = tx.broken
         /\ UNCHANGED <<cached, mem, jobs, ghosts>>
<1>1. save \in RecordSave
  BY DEF CommitRecordSave, TypeOK
<1>2. tx # NoTx => tx \in Tx
  BY TxFacts
<1>3. tx # NoTx => tx' = [tx EXCEPT !.db = WithSave(tx.db)]
  BY <1>2 DEF CommitRecordSave
<1>4. tx # NoTx => /\ tx' # NoTx /\ tx'.phase = tx.phase /\ tx'.kind = tx.kind
                  /\ tx'.cleanup = tx.cleanup /\ tx'.failed = tx.failed
                  /\ tx'.db = WithSave(tx.db) /\ tx'.broken = tx.broken
  BY <1>2, <1>3 DEF Tx, NoTx
<1> QED BY <1>1, <1>4 DEF CommitRecordSave

-----------------------------------------------------------------------------
(* The transaction and the cache.                                          *)

\* The environment is cached while a transaction works on it; once a failed
\* deployment has taken it out, only a request can bring it back; records are
\* saved by the other transaction.
TxInv ==
  /\ Working => cached
  /\ Cleaning /\ cached => reloaded
  /\ tx # NoTx => tx.db.recs = db.recs

LEMMA TxInvStep == TypeOK /\ TxInv /\ [Next]_vars => TxInv'
<1> SUFFICES ASSUME TypeOK, TxInv, [Next]_vars PROVE TxInv'
  OBVIOUS
<1> USE DEF Working, Cleaning, ghosts
<1>1. CASE LoadEnv
  BY <1>1, Phases DEF LoadEnv, TxInv
<1>2. CASE ClearCache
  BY <1>2 DEF ClearCache, Uncache, TxInv
<1>3. CASE Restart
  BY <1>3 DEF Restart, TxInv
<1>4. CASE \E kind \in {"call", "deploy", "deactivate"} : Begin(kind)
  BY <1>4, BeginEffect DEF TxInv
<1>5. CASE ClassStep
  BY <1>5, ClassEffect DEF ClassMove, TxInv, Rest
<1>6. CASE TaskStep
  <2>1. PICK k \in Tasks, tasks \in TaskVersions, ok \in BOOLEAN : TaskMove(k, tasks, ok)
    BY <1>6, TaskEffect
  <2>2. tx.db \in Database
    BY <2>1, TxFacts DEF TaskMove
  <2>3. tx'.db.recs = tx.db.recs
    BY <2>1, <2>2 DEF TaskMove, Database
  <2> QED BY <2>1, <2>3 DEF TaskMove, TxInv
<1>7. CASE CommitStep
  BY <1>7 DEF CommitStep, TxCommitted, TxInv
<1>8. CASE RollBack
  BY <1>8 DEF RollBack, TxInv
<1>9. CASE ResetEnv
  BY <1>9, ResetEffect DEF TxInv
<1>10. CASE CleanUpFailedDeployment
  BY <1>10 DEF CleanUpFailedDeployment, TxInv
<1>11. CASE \E r \in Records : BeginRecordSave(r)
  BY <1>11 DEF BeginRecordSave, TxInv
<1>12. CASE CommitRecordSave
  <2>1. tx # NoTx => WithSave(tx.db).recs = WithSave(db).recs
    BY <1>12, TxFacts, SaveEffect, WithSaveFacts DEF TypeOK, TxInv
  <2> QED BY <1>12, <2>1, SaveEffect DEF TxInv
<1>13. CASE UNCHANGED vars
  BY <1>13 DEF vars, TxInv
<1> QED BY <1>1, <1>2, <1>3, <1>4, <1>5, <1>6, <1>7, <1>8, <1>9, <1>10, <1>11, <1>12,
           <1>13, StepCases

-----------------------------------------------------------------------------
(* Jobs have tasks.                                                        *)

\* While a transaction works there are jobs of the tasks it sees only; what a
\* deployment adds to the committed tasks is on its list to clean up.
JobsInv ==
  ~orphaned =>
    /\ tx = NoTx => DOMAIN jobs \subseteq DOMAIN db.tasks
    /\ Working => DOMAIN jobs \subseteq DOMAIN tx.db.tasks
    /\ Working /\ tx.kind = "deploy" =>
         DOMAIN tx.db.tasks \subseteq DOMAIN db.tasks \cup tx.cleanup
    /\ Cleaning => DOMAIN jobs \subseteq DOMAIN db.tasks \cup tx.cleanup

LEMMA JobsInvStep == TypeOK /\ TxInv /\ JobsInv /\ [Next]_vars => JobsInv'
<1> SUFFICES ASSUME TypeOK, TxInv, JobsInv, [Next]_vars PROVE JobsInv'
  OBVIOUS
<1> USE DEF Working, Cleaning, ghosts
<1>1. CASE LoadEnv
  BY <1>1 DEF LoadEnv, TxInv, JobsInv
<1>2. CASE ClearCache
  BY <1>2 DEF ClearCache, JobsInv
<1>3. CASE Restart
  BY <1>3 DEF Restart, JobsInv
<1>4. CASE \E kind \in {"call", "deploy", "deactivate"} : Begin(kind)
  BY <1>4, BeginEffect DEF JobsInv
<1>5. CASE ClassStep
  BY <1>5, ClassEffect DEF ClassMove, JobsInv, Rest
<1>6. CASE TaskStep
  <2>1. PICK k \in Tasks, tasks \in TaskVersions, ok \in BOOLEAN : TaskMove(k, tasks, ok)
    BY <1>6, TaskEffect
  <2>2. tx.db \in Database
    BY <2>1, TxFacts DEF TaskMove
  <2>3. tx'.db.tasks = tasks
    BY <2>1, <2>2 DEF TaskMove, Database
  <2> QED BY <2>1, <2>3 DEF TaskMove, JobsInv
<1>7. CASE CommitStep
  BY <1>7 DEF CommitStep, TxCommitted, JobsInv
<1>8. CASE RollBack
  BY <1>8 DEF RollBack, JobsInv
<1>9. CASE ResetEnv
  BY <1>9, ResetEffect DEF JobsInv
<1>10. CASE CleanUpFailedDeployment
  <2>1. jobs \in TaskVersions
    BY DEF TypeOK
  <2>2. DOMAIN jobs' = DOMAIN jobs \ tx.cleanup
    BY <1>10, <2>1, RestrictFacts DEF CleanUpFailedDeployment
  <2> QED BY <1>10, <2>2 DEF CleanUpFailedDeployment, JobsInv
<1>11. CASE \E r \in Records : BeginRecordSave(r)
  BY <1>11 DEF BeginRecordSave, JobsInv
<1>12. CASE CommitRecordSave
  <2>1. db'.tasks = db.tasks /\ (tx # NoTx => WithSave(tx.db).tasks = tx.db.tasks)
    BY <1>12, TxFacts, SaveEffect, WithSaveFacts DEF TypeOK
  <2> QED BY <1>12, <2>1, SaveEffect DEF JobsInv
<1>13. CASE UNCHANGED vars
  BY <1>13 DEF vars, JobsInv
<1> QED BY <1>1, <1>2, <1>3, <1>4, <1>5, <1>6, <1>7, <1>8, <1>9, <1>10, <1>11, <1>12,
           <1>13, StepCases

-----------------------------------------------------------------------------
(* The registry describes the rules.                                       *)

\* While a transaction works, the registry describes what it sees.
RegistryInv ==
  ~tainted =>
    /\ cached /\ ~Working => DescribesRules(mem, db)
    /\ Working /\ ~tx.failed => DescribesRules(mem, tx.db)

LEMMA SameRules ==
  ASSUME NEW m, NEW d, NEW e, d.rules = e.rules
  PROVE  DescribesRules(m, d) <=> DescribesRules(m, e)
BY DEF DescribesRules

LEMMA RegistryInvStep == TypeOK /\ TxInv /\ RegistryInv /\ [Next]_vars => RegistryInv'
<1> SUFFICES ASSUME TypeOK, TxInv, RegistryInv, [Next]_vars PROVE RegistryInv'
  OBVIOUS
<1> USE DEF Working, Cleaning, ghosts
<1>1. CASE LoadEnv
  BY <1>1, LoadedDescribes DEF LoadEnv, TxInv, RegistryInv
<1>2. CASE ClearCache
  BY <1>2 DEF ClearCache, Uncache, RegistryInv
<1>3. CASE Restart
  BY <1>3 DEF Restart, Uncache, RegistryInv
<1>4. CASE \E kind \in {"call", "deploy", "deactivate"} : Begin(kind)
  BY <1>4, BeginEffect DEF RegistryInv
<1>5. CASE ClassStep
  BY <1>5, ClassEffect DEF ClassMove, Rest, Kept, RegistryInv
<1>6. CASE TaskStep
  <2>1. PICK k \in Tasks, tasks \in TaskVersions, ok \in BOOLEAN : TaskMove(k, tasks, ok)
    BY <1>6, TaskEffect
  <2>2. tx.db \in Database
    BY <2>1, TxFacts DEF TaskMove
  <2>3. tx'.db.rules = tx.db.rules
    BY <2>1, <2>2 DEF TaskMove, Database
  <2>4. DescribesRules(mem, tx.db) => DescribesRules(mem, tx'.db)
    BY <2>3, SameRules
  <2> QED BY <2>1, <2>4 DEF TaskMove, RegistryInv
<1>7. CASE CommitStep
  BY <1>7 DEF CommitStep, TxCommitted, RegistryInv
<1>8. CASE RollBack
  BY <1>8 DEF RollBack, RegistryInv
<1>9. CASE ResetEnv
  BY <1>9, ResetEffect DEF RegistryInv
<1>10. CASE CleanUpFailedDeployment
  BY <1>10 DEF CleanUpFailedDeployment, TxInv, RegistryInv
<1>11. CASE \E r \in Records : BeginRecordSave(r)
  BY <1>11 DEF BeginRecordSave, RegistryInv
<1>12. CASE CommitRecordSave
  <2>1. db'.rules = db.rules /\ (tx # NoTx => tx'.db.rules = tx.db.rules)
    BY <1>12, TxFacts, SaveEffect, WithSaveFacts DEF TypeOK
  <2>2. DescribesRules(mem, db) => DescribesRules(mem, db')
    BY <2>1, SameRules
  <2>3. tx # NoTx /\ DescribesRules(mem, tx.db) => DescribesRules(mem, tx'.db)
    BY <2>1, SameRules
  <2> QED BY <1>12, <2>2, <2>3, SaveEffect DEF RegistryInv
<1>13. CASE UNCHANGED vars
  BY <1>13 DEF vars, RegistryInv
<1> QED BY <1>1, <1>2, <1>3, <1>4, <1>5, <1>6, <1>7, <1>8, <1>9, <1>10, <1>11, <1>12,
           <1>13, StepCases

-----------------------------------------------------------------------------
(* Tasks have jobs.                                                        *)

TasksInv ==
  ~tainted /\ ~reloaded =>
    /\ cached /\ ~Working => HaveJobs(db.tasks, jobs)
    /\ Working /\ ~tx.failed => HaveJobs(tx.db.tasks, jobs)

LEMMA TasksInvStep == TypeOK /\ TxInv /\ TasksInv /\ [Next]_vars => TasksInv'
<1> SUFFICES ASSUME TypeOK, TxInv, TasksInv, [Next]_vars PROVE TasksInv'
  OBVIOUS
<1> USE DEF Working, Cleaning, ghosts
<1>1. CASE LoadEnv
  <2>1. HaveJobs(db.tasks, jobs')
    BY <1>1 DEF LoadEnv, HaveJobs
  <2> QED BY <1>1, <2>1 DEF LoadEnv, TxInv, TasksInv
<1>2. CASE ClearCache
  BY <1>2 DEF ClearCache, Uncache, TasksInv
<1>3. CASE Restart
  BY <1>3 DEF Restart, Uncache, TasksInv
<1>4. CASE \E kind \in {"call", "deploy", "deactivate"} : Begin(kind)
  BY <1>4, BeginEffect DEF TasksInv
<1>5. CASE ClassStep
  BY <1>5, ClassEffect DEF ClassMove, Rest, Kept, TasksInv
<1>6. CASE TaskStep
  <2>1. PICK k \in Tasks, tasks \in TaskVersions, ok \in BOOLEAN : TaskMove(k, tasks, ok)
    BY <1>6, TaskEffect
  <2>2. tx.db \in Database
    BY <2>1, TxFacts DEF TaskMove
  <2>3. tx'.db.tasks = tasks
    BY <2>1, <2>2 DEF TaskMove, Database
  <2> QED BY <2>1, <2>3 DEF TaskMove, TasksInv
<1>7. CASE CommitStep
  BY <1>7 DEF CommitStep, TxCommitted, TasksInv
<1>8. CASE RollBack
  BY <1>8 DEF RollBack, TasksInv
<1>9. CASE ResetEnv
  BY <1>9, ResetEffect DEF TasksInv
<1>10. CASE CleanUpFailedDeployment
  BY <1>10 DEF CleanUpFailedDeployment, TxInv, TasksInv
<1>11. CASE \E r \in Records : BeginRecordSave(r)
  BY <1>11 DEF BeginRecordSave, TasksInv
<1>12. CASE CommitRecordSave
  <2>1. db'.tasks = db.tasks /\ (tx # NoTx => tx'.db.tasks = tx.db.tasks)
    BY <1>12, TxFacts, SaveEffect, WithSaveFacts DEF TypeOK
  <2> QED BY <1>12, <2>1, SaveEffect DEF TasksInv
<1>13. CASE UNCHANGED vars
  BY <1>13 DEF vars, TasksInv
<1> QED BY <1>1, <1>2, <1>3, <1>4, <1>5, <1>6, <1>7, <1>8, <1>9, <1>10, <1>11, <1>12,
           <1>13, StepCases

-----------------------------------------------------------------------------
(* Classes have their rules.                                               *)

CodeInv ==
  ~halfDone => /\ CodeHasItsRules(db)
               /\ Working /\ ~tx.failed => CodeHasItsRules(tx.db)

LEMMA SameCode ==
  ASSUME NEW d, NEW e, d.rules = e.rules, d.code = e.code
  PROVE  CodeHasItsRules(d) <=> CodeHasItsRules(e)
BY DEF CodeHasItsRules, RulesOf

LEMMA CodeInvStep == TypeOK /\ CodeInv /\ [Next]_vars => CodeInv'
<1> SUFFICES ASSUME TypeOK, CodeInv, [Next]_vars PROVE CodeInv'
  OBVIOUS
<1> USE DEF Working, Cleaning, ghosts
<1>1. CASE LoadEnv
  BY <1>1 DEF LoadEnv, TxInv, CodeInv
<1>2. CASE ClearCache
  BY <1>2 DEF ClearCache, Uncache, CodeInv
<1>3. CASE Restart
  BY <1>3 DEF Restart, Uncache, CodeInv
<1>4. CASE \E kind \in {"call", "deploy", "deactivate"} : Begin(kind)
  BY <1>4, BeginEffect DEF CodeInv
<1>5. CASE ClassStep
  BY <1>5, ClassEffect DEF ClassMove, Rest, Kept, CodeInv
<1>6. CASE TaskStep
  <2>1. PICK k \in Tasks, tasks \in TaskVersions, ok \in BOOLEAN : TaskMove(k, tasks, ok)
    BY <1>6, TaskEffect
  <2>2. tx.db \in Database
    BY <2>1, TxFacts DEF TaskMove
  <2>3. tx'.db.rules = tx.db.rules /\ tx'.db.code = tx.db.code
    BY <2>1, <2>2 DEF TaskMove, Database
  <2>4. CodeHasItsRules(tx.db) => CodeHasItsRules(tx'.db)
    BY <2>3, SameCode
  <2> QED BY <2>1, <2>4 DEF TaskMove, CodeInv
<1>7. CASE CommitStep
  BY <1>7 DEF CommitStep, TxCommitted, CodeInv
<1>8. CASE RollBack
  BY <1>8 DEF RollBack, CodeInv
<1>9. CASE ResetEnv
  BY <1>9, ResetEffect DEF CodeInv
<1>10. CASE CleanUpFailedDeployment
  BY <1>10 DEF CleanUpFailedDeployment, TxInv, CodeInv
<1>11. CASE \E r \in Records : BeginRecordSave(r)
  BY <1>11 DEF BeginRecordSave, CodeInv
<1>12. CASE CommitRecordSave
  <2>1. /\ db'.rules = db.rules /\ db'.code = db.code
        /\ tx # NoTx => tx'.db.rules = tx.db.rules /\ tx'.db.code = tx.db.code
    BY <1>12, TxFacts, SaveEffect, WithSaveFacts DEF TypeOK
  <2>2. CodeHasItsRules(db) => CodeHasItsRules(db')
    BY <2>1, SameCode
  <2>3. tx # NoTx /\ CodeHasItsRules(tx.db) => CodeHasItsRules(tx'.db)
    BY <2>1, SameCode
  <2> QED BY <1>12, <2>2, <2>3, SaveEffect DEF CodeInv
<1>13. CASE UNCHANGED vars
  BY <1>13 DEF vars, CodeInv
<1> QED BY <1>1, <1>2, <1>3, <1>4, <1>5, <1>6, <1>7, <1>8, <1>9, <1>10, <1>11, <1>12,
           <1>13, StepCases

-----------------------------------------------------------------------------
(* Records are shared.                                                     *)

\* A record being saved that is not excused will be shared by all rules, and
\* the rules do not change meanwhile.
SaveIsShared ==
  \A r \in db.rules :
    RecType[save.rec] = RefOf(r) =>
      \/ [rule |-> r, rec |-> save.rec] \in save.rows
      \/ save.rec \in db.recs

\* The view of a transaction also misses the sharings of the rules that it
\* saved and whose calculation threw, whether it has failed otherwise or not.
SharedInv ==
  /\ Shared(db.recs \ excused, db, broken)
  /\ Working => Shared(tx.db.recs \ excused, tx.db, broken \cup tx.broken)
  /\ save # NoSave /\ save.rec \notin excused =>
       /\ SaveIsShared
       /\ Working => tx.db.rules = db.rules /\ tx.db.shared = db.shared

LEMMA SameShared ==
  ASSUME NEW X, NEW B, NEW d, NEW e, d.rules = e.rules, d.shared = e.shared,
         Shared(X, d, B)
  PROVE  Shared(X, e, B)
BY DEF Shared, AreShared

LEMMA FewerShared ==
  ASSUME NEW X, NEW B, NEW Y, Y \subseteq X, NEW d, Shared(X, d, B)
  PROVE  Shared(Y, d, B)
BY DEF Shared, AreShared

\* A save that is not excused started between transactions, with a registry
\* that describes the rules.
LEMMA BegunSaveIsShared ==
  ASSUME TypeOK, RegistryInv, SharedInv, NEW r \in Records, BeginRecordSave(r),
         save' # NoSave, save'.rec \notin excused'
  PROVE  SaveIsShared' /\ tx = NoTx
<1>1. save' = [rec |-> r, rows |-> SharingsOf(r)] /\ db' = db
  BY DEF BeginRecordSave
<1>2. ~tainted /\ tx = NoTx /\ cached
  BY <1>1 DEF BeginRecordSave
<1>3. mem.reg = db.rules
  BY <1>2 DEF RegistryInv, Working, DescribesRules
<1>4. ASSUME NEW x \in db.rules, RecType[r] = RefOf(x), r \notin db.recs
      PROVE  [rule |-> x, rec |-> r] \in SharingsOf(r)
  BY <1>3, <1>4 DEF SharingsOf
<1> QED BY <1>1, <1>2, <1>4 DEF SaveIsShared

\* What the save adds to a database that has the rules and sharings it saw.
LEMMA SavedIsShared ==
  ASSUME save \in RecordSave, NEW B, NEW d \in Database, d.rules = db.rules,
         d.shared = db.shared, d.recs = db.recs, SaveIsShared,
         Shared(d.recs \ excused, d, B), save.rec \notin excused
  PROVE  Shared(WithSave(d).recs \ excused, WithSave(d), B)
BY WithSaveFacts DEF Shared, AreShared, SaveIsShared

LEMMA ExcusedSave ==
  ASSUME save \in RecordSave, NEW B, NEW d \in Database,
         Shared(d.recs \ excused, d, B), save.rec \in excused
  PROVE  Shared(WithSave(d).recs \ excused, WithSave(d), B)
BY WithSaveFacts DEF Shared, AreShared

LEMMA SharedInvStep ==
  TypeOK /\ TxInv /\ RegistryInv /\ SharedInv /\ [Next]_vars => SharedInv'
<1> SUFFICES ASSUME TypeOK, TxInv, RegistryInv, SharedInv, [Next]_vars PROVE SharedInv'
  OBVIOUS
<1> USE DEF Working, ghosts
<1>1. CASE LoadEnv
  BY <1>1 DEF LoadEnv, SharedInv, SaveIsShared
<1>2. CASE ClearCache
  BY <1>2 DEF ClearCache, SharedInv, SaveIsShared
<1>3. CASE Restart
  BY <1>3 DEF Restart, SharedInv
<1>4. CASE \E kind \in {"call", "deploy", "deactivate"} : Begin(kind)
  <2>1. \A B : B \cup {} = B
    OBVIOUS
  <2> QED BY <1>4, <2>1, BeginEffect DEF SharedInv, SaveIsShared
<1>5. CASE ClassStep
  <2>1. PICK x \in Results : ClassMove(x)
    BY <1>5, ClassEffect
  <2>2. Shared(db'.recs \ excused', db', broken')
    BY <2>1, FewerShared DEF ClassMove, SharedInv
  <2>3. Shared(tx'.db.recs \ excused', tx'.db, broken' \cup tx'.broken)
    <3>1. Shared(tx.db.recs \ excused, tx.db, broken \cup tx.broken)
      BY <2>1 DEF ClassMove, SharedInv
    <3>2. broken \cup tx.broken \in SUBSET Rule
      BY <2>1, TxFacts DEF ClassMove, Working, TypeOK, Tx
    <3>3. Shared(tx.db.recs \ excused, x.db, (broken \cup tx.broken) \cup x.broken)
      BY <2>1, <3>1, <3>2 DEF ClassMove, Kept, KeptShared
    <3>4. (broken \cup tx.broken) \cup x.broken = broken' \cup tx'.broken
      BY <2>1 DEF ClassMove
    <3>5. tx'.db = x.db /\ tx'.db.recs \ excused' \subseteq tx.db.recs \ excused
      BY <2>1 DEF ClassMove, Rest
    <3>6. Shared(tx.db.recs \ excused, tx'.db, broken' \cup tx'.broken)
      BY <3>3, <3>4, <3>5
    <3> QED BY <3>5, <3>6, FewerShared
  <2>4. save' # NoSave => save'.rec \in excused'
    BY <2>1 DEF ClassMove, TypeOK, RecordSave
  <2> QED BY <2>1, <2>2, <2>3, <2>4 DEF SharedInv
<1>6. CASE TaskStep
  <2>1. PICK k \in Tasks, tasks \in TaskVersions, ok \in BOOLEAN : TaskMove(k, tasks, ok)
    BY <1>6, TaskEffect
  <2>2. tx.db \in Database
    BY <2>1, TxFacts DEF TaskMove
  <2>3. /\ tx'.db.rules = tx.db.rules /\ tx'.db.shared = tx.db.shared
        /\ tx'.db.recs = tx.db.recs
    BY <2>1, <2>2 DEF TaskMove, Database
  <2>4. Shared(tx'.db.recs \ excused', tx'.db, broken' \cup tx'.broken)
    <3>1. Shared(tx.db.recs \ excused, tx.db, broken \cup tx.broken)
      BY <2>1 DEF TaskMove, SharedInv
    <3>2. Shared(tx.db.recs \ excused, tx'.db, broken \cup tx.broken)
      BY <2>3, <3>1, SameShared
    <3> QED BY <2>1, <2>3, <3>2 DEF TaskMove
  <2> QED BY <2>1, <2>3, <2>4 DEF TaskMove, SharedInv, SaveIsShared
<1>7. CASE CommitStep
  <2>1. tx.db.recs = db.recs
    BY <1>7 DEF CommitStep, TxInv
  <2>2. Shared(db'.recs \ excused', db', broken')
    <3>1. Shared(tx.db.recs \ excused, tx.db, broken \cup tx.broken)
      BY <1>7 DEF CommitStep, SharedInv
    <3>2. /\ db' = tx.db /\ excused' = excused
          /\ broken' = (broken \cup tx.broken) \cap tx.db.rules
      BY <1>7 DEF CommitStep, TxCommitted
    <3>3. db'.rules \ broken' = tx.db.rules \ (broken \cup tx.broken)
      BY <3>2
    <3> QED BY <3>1, <3>2, <3>3 DEF Shared
  <2>3. save' # NoSave /\ save'.rec \notin excused' => SaveIsShared'
    BY <1>7, <2>1 DEF CommitStep, TxCommitted, SharedInv, SaveIsShared
  <2> QED BY <1>7, <2>2, <2>3 DEF CommitStep, TxCommitted, SharedInv
<1>8. CASE RollBack
  BY <1>8 DEF RollBack, SharedInv, SaveIsShared
<1>9. CASE ResetEnv
  BY <1>9, ResetEffect DEF SharedInv, SaveIsShared
<1>10. CASE CleanUpFailedDeployment
  BY <1>10 DEF CleanUpFailedDeployment, SharedInv, SaveIsShared
<1>11. CASE \E r \in Records : BeginRecordSave(r)
  <2>1. PICK r \in Records : BeginRecordSave(r)
    BY <1>11
  <2>2. db' = db /\ tx' = tx /\ excused \subseteq excused' /\ broken' = broken
    BY <2>1 DEF BeginRecordSave
  <2>3. Shared(db'.recs \ excused', db', broken')
    BY <2>2, FewerShared DEF SharedInv
  <2>4. tx # NoTx /\ tx.phase = "work" =>
          Shared(tx'.db.recs \ excused', tx'.db, broken' \cup tx'.broken)
    BY <2>2, FewerShared DEF SharedInv
  <2>5. save' # NoSave /\ save'.rec \notin excused' => SaveIsShared' /\ tx = NoTx
    BY <2>1, BegunSaveIsShared
  <2> QED BY <2>2, <2>3, <2>4, <2>5 DEF SharedInv
<1>12. CASE CommitRecordSave
  <2>1. /\ save \in RecordSave /\ save' = NoSave /\ db' = WithSave(db)
        /\ excused' = excused /\ broken' = broken /\ save # NoSave
    BY <1>12, SaveEffect
  <2>2. db \in Database /\ (tx # NoTx => tx.db \in Database)
    BY TxFacts DEF TypeOK
  <2>3. Shared(db'.recs \ excused', db', broken')
    <3>1. CASE save.rec \in excused
      BY <2>1, <2>2, <3>1, ExcusedSave DEF SharedInv
    <3>2. CASE save.rec \notin excused
      BY <2>1, <2>2, <3>2, SavedIsShared DEF SharedInv
    <3> QED BY <3>1, <3>2
  <2>4. ASSUME tx # NoTx, tx.phase = "work"
        PROVE  Shared(WithSave(tx.db).recs \ excused, WithSave(tx.db), broken \cup tx.broken)
    <3>1. /\ Shared(tx.db.recs \ excused, tx.db, broken \cup tx.broken)
          /\ tx.db.recs = db.recs
      BY <2>4 DEF SharedInv, TxInv
    <3>2. CASE save.rec \in excused
      BY <2>1, <2>2, <2>4, <3>1, <3>2, ExcusedSave
    <3>3. CASE save.rec \notin excused
      <4>1. tx.db.rules = db.rules /\ tx.db.shared = db.shared /\ SaveIsShared
        BY <2>1, <2>4, <3>3 DEF SharedInv
      <4> QED BY <2>1, <2>2, <2>4, <3>1, <3>3, <4>1, SavedIsShared
    <3> QED BY <3>2, <3>3
  <2>5. tx # NoTx => /\ tx'.phase = tx.phase /\ tx'.broken = tx.broken
                    /\ tx'.db = WithSave(tx.db)
    BY <1>12, SaveEffect
  <2>6. tx = NoTx => tx' = NoTx
    BY <1>12, SaveEffect
  <2> QED BY <2>1, <2>3, <2>4, <2>5, <2>6 DEF SharedInv
<1>13. CASE UNCHANGED vars
  BY <1>13 DEF vars, SharedInv, SaveIsShared
<1> QED BY <1>1, <1>2, <1>3, <1>4, <1>5, <1>6, <1>7, <1>8, <1>9, <1>10, <1>11, <1>12,
           <1>13, StepCases

-----------------------------------------------------------------------------
(* The theorems.                                                           *)

IInv == /\ TypeOK /\ TxInv /\ JobsInv /\ RegistryInv /\ TasksInv
        /\ CodeInv /\ SharedInv

LEMMA IInvInit == Init => IInv
<1> SUFFICES ASSUME Init PROVE IInv
  OBVIOUS
<1>1. TypeOK /\ ~Working /\ ~Cleaning /\ tx = NoTx
  BY TypeInit DEF Init, Working, Cleaning
<1>2. CodeHasItsRules(db)
  BY DEF Init, CodeHasItsRules, RulesOf
<1>3. Shared(db.recs \ excused, db, broken)
  BY DEF Init, Shared, AreShared
<1>4. JobsInv
  BY <1>1 DEF Init, JobsInv
<1> QED BY <1>1, <1>2, <1>3, <1>4
        DEF Init, IInv, TxInv, RegistryInv, TasksInv, CodeInv, SharedInv

LEMMA IInvStep == IInv /\ [Next]_vars => IInv'
BY TypeStep, TxInvStep, JobsInvStep, RegistryInvStep, TasksInvStep, CodeInvStep,
   SharedInvStep DEF IInv

\* Everything below holds for any number of classes, rules, types, tasks and
\* records, any transactions, failures, reloads and restarts.
LEMMA Inductive == Spec => []IInv
BY IInvInit, IInvStep, PTL DEF Spec

\* Between transactions the registry of a cached environment describes the
\* committed rules, unless a call failed or was rolled back since it was loaded.
THEOREM RegistryIsRight == Spec => []RegistryDescribesRules
<1>1. IInv => RegistryDescribesRules
  BY DEF IInv, RegistryInv, Working, RegistryDescribesRules
<1> QED BY <1>1, Inductive, PTL

\* Between transactions every task of a cached environment has its job, with
\* the exceptions of the property.
THEOREM TasksHaveJobs == Spec => []TasksAreScheduled
<1>1. IInv => TasksAreScheduled
  BY DEF IInv, TasksInv, Working, TasksAreScheduled
<1> QED BY <1>1, Inductive, PTL

\* Between transactions no job runs a task that does not exist, unless a
\* transaction was rolled back since the server started.
THEOREM NoOrphanedJobs == Spec => []JobsHaveTasks
<1>1. IInv => JobsHaveTasks
  BY DEF IInv, JobsInv, JobsHaveTasks
<1> QED BY <1>1, Inductive, PTL

\* Committed code and committed rules agree, unless a failed save of a class
\* was committed.
THEOREM CodeAndRulesAgree == Spec => []ClassesHaveTheirRules
<1>1. IInv => ClassesHaveTheirRules
  BY DEF IInv, CodeInv, ClassesHaveTheirRules
<1> QED BY <1>1, Inductive, PTL

\* Every record is shared by every rule of its type, unless the record was
\* saved while the rules were changing or the registry was wrong, or the rule's
\* own first calculation threw in a save that was committed.
THEOREM RecordsGetTheirSharings == Spec => []RecordsAreShared
<1>1. IInv => RecordsAreShared
  BY DEF IInv, SharedInv, Shared, RecordsAreShared
<1> QED BY <1>1, Inductive, PTL

=============================================================================
