---------------------------- MODULE SharingRules ----------------------------
(***************************************************************************)
(* The sharing rules that classes declare: saving a class (ClassService)   *)
(* deletes the rules of its old version and saves those of the new one     *)
(* (SharingRuleService), and every step changes the database and the       *)
(* registry in the memory of the environment (EnvData).                    *)
(*                                                                         *)
(* A database is a record with the fields code, rules, tasks, recs and     *)
(* shared; a registry is a record of reg (sharingRulesByType, flattened:   *)
(* the type of a rule is that of its method) and deps                      *)
(* (dependentSharingRulesByType).  A call can end in several ways: the     *)
(* operators named Results give the set of [db, mem, ok, broken] it can    *)
(* leave; broken holds the rule whose calculation threw, if any.           *)
(***************************************************************************)
EXTENDS Integers, FiniteSets

CONSTANTS Classes,   \* classes that may declare rules
          Absent,    \* the code of a class that does not exist
          Methods,   \* the rules a class may declare
          Types,
          Ref,       \* the type whose records a rule shares
          Deps,      \* the types whose records make a rule run again
          Records,
          RecType,   \* the type of a record
          MaxTx      \* bound: transactions; each saves one version of a rule

ASSUME RefAssumption == Ref \in [Methods -> Types]
ASSUME DepsAssumption == Deps \in [Methods -> SUBSET Types]
ASSUME RecTypeAssumption == RecType \in [Records -> Types]
ASSUME MaxTxAssumption == MaxTx \in Nat
ASSUME AbsentAssumption == Absent \notin SUBSET Methods

Rule == [class : Classes, method : Methods, no : 0..MaxTx]
Sharing == [rule : Rule, rec : Records]
Registry == [reg : SUBSET Rule,
             deps : UNION {[D -> SUBSET Rule] : D \in SUBSET Types}]

RefOf(r) == Ref[r.method]
DepsOf(r) == Deps[r.method]
RulesOf(d, c) == {r \in d.rules : r.class = c}
RecordsOf(d, t) == {x \in d.recs : RecType[x] = t}

----------------------------------------------------------------------------
(* The registry.                                                           *)

\* initSharingRules: registerSharingRule for every rule of the database.
Loaded(rules) ==
  [reg |-> rules,
   deps |-> [t \in UNION {DepsOf(r) : r \in rules} |->
               {r \in rules : t \in DepsOf(r)}]]

\* refreshSharingRulesForType for each of the types, from what the
\* transaction sees of the database.
Refreshed(reg, types, rules) ==
  {r \in reg : RefOf(r) \notin types} \cup {r \in rules : RefOf(r) \in types}

\* unregisterSharingRule and a refresh for each of the rules gone.
Unregistered(mem, gone, rules) ==
  [reg |-> Refreshed(mem.reg \ gone, {RefOf(r) : r \in gone}, rules),
   deps |-> [t \in DOMAIN mem.deps |-> mem.deps[t] \ gone]]

\* The end of handleSharingRuleDeclarations.
WithDependents(mem, rules) ==
  [reg |-> mem.reg,
   deps |-> [t \in DOMAIN mem.deps \cup UNION {DepsOf(r) : r \in rules} |->
               (IF t \in DOMAIN mem.deps THEN mem.deps[t] ELSE {}) \cup
               {r \in rules : t \in DepsOf(r)}]]

----------------------------------------------------------------------------
(* Deleting and saving rules.                                              *)

\* The sharings of a rule are deleted with it (cascade).
WithoutRules(d, gone) ==
  [d EXCEPT !.rules = @ \ gone, !.shared = {s \in @ : s.rule \notin gone}]

\* delete: the rows go first; then the rules are unregistered one by one,
\* which throws at a rule with a type nobody was ever registered for.
DeleteRulesResults(mem, d, gone) ==
  LET d1 == WithoutRules(d, gone)
      unknown == {r \in gone : ~(DepsOf(r) \subseteq DOMAIN mem.deps)}
      Halfway(done, r, types) ==
        LET m == Unregistered(mem, done, d1.rules)
        IN  [reg |-> m.reg \ {r},
             deps |-> [t \in DOMAIN m.deps |-> IF t \in types THEN m.deps[t] \ {r}
                                              ELSE m.deps[t]]]
  IN  IF unknown = {}
      THEN {[db |-> d1, mem |-> Unregistered(mem, gone, d1.rules), ok |-> TRUE,
             broken |-> {}]}
      ELSE UNION {{[db |-> d1, mem |-> Halfway(done, r, types), ok |-> FALSE,
                    broken |-> {}] :
                     done \in SUBSET (gone \ unknown),
                     types \in SUBSET (DepsOf(r) \cap DOMAIN mem.deps)} :
                  r \in unknown}

\* Mutant: a saved rule is not calculated.
MutatedWithRules(x, new) ==
  LET rules == x.db.rules \cup new
  IN  [x EXCEPT !.db.rules = rules,
                !.mem.reg = Refreshed(@, {RefOf(r) : r \in new}, rules)]

\* save: the row, the sharings of every record the transaction sees, then the
\* refresh of the registry.
WithRules(x, new) ==
  LET rules == x.db.rules \cup new
  IN  [x EXCEPT
         !.db.rules = rules,
         !.db.shared = @ \cup {s \in [rule : new, rec : x.db.recs] :
                                 RecType[s.rec] = RefOf(s.rule)},
         !.mem.reg = Refreshed(@, {RefOf(r) : r \in new}, rules)]

\* recalculateSharing throws at some record: the row and the sharings written
\* so far stay in the transaction, the registry is not refreshed.
WithBrokenRules(x, new) ==
  UNION {{[x EXCEPT !.db.rules = @ \cup {r},
                    !.db.shared = @ \cup [rule : {r}, rec : X],
                    !.ok = FALSE, !.broken = {r}] :
            X \in (SUBSET RecordsOf(x.db, RefOf(r))) \ {RecordsOf(x.db, RefOf(r))}} :
         r \in new}

----------------------------------------------------------------------------
(* Saving and deleting classes.                                            *)

\* Mutant: the rules of the old version are not deleted.
MutatedDeclareRulesResults(mem, d, c, new) ==
  LET x == [db |-> d, mem |-> mem, ok |-> TRUE, broken |-> {}]
  IN  {[WithRules(x, new) EXCEPT !.mem = WithDependents(@, new)]}

\* handleSharingRuleDeclarations: all rules of the old version, then all rules
\* of the new one in any order, then the dependent types.
DeclareRulesResults(mem, d, c, new) ==
  UNION {IF ~x.ok THEN {x}
         ELSE {[WithRules(x, new) EXCEPT !.mem = WithDependents(@, new)]} \cup
              UNION {WithBrokenRules(WithRules(x, done), new \ done) :
                       done \in SUBSET new} :
         x \in DeleteRulesResults(mem, d, RulesOf(d, c))}

\* A call that throws before it comes to the rules.
Refused(mem, d) == [db |-> d, mem |-> mem, ok |-> FALSE, broken |-> {}]

\* Class deletion, and what reverts the save of a new class.  It may throw
\* before the rules, at a rule that is unregistered, and after the rules, with
\* the class still there.
DeleteClassResults(mem, d, c) ==
  LET ruleless == DeleteRulesResults(mem, d, RulesOf(d, c))
  IN  {[x EXCEPT !.db.code[c] = Absent] : x \in {y \in ruleless : y.ok}} \cup
      {[x EXCEPT !.ok = FALSE] : x \in ruleless} \cup
      {Refused(mem, d)}

\* fullSave: the compiler and the handlers before and behind the rules may
\* fail too.  A new class is saved first and deleted when a handler fails, the
\* old code of a class stays.
SaveClassResults(mem, d, c, methods, no) ==
  LET new == {[class |-> c, method |-> m, no |-> no] : m \in methods}
      isNewFile == d.code[c] = Absent
      d0 == IF isNewFile THEN [d EXCEPT !.code[c] = methods] ELSE d
      declared == DeclareRulesResults(mem, d0, c, new)
      failed == {[x EXCEPT !.ok = FALSE] : x \in declared} \cup {Refused(mem, d0)}
      reverted == UNION {{[y EXCEPT !.ok = FALSE, !.broken = x.broken \cap y.db.rules] :
                            y \in DeleteClassResults(x.mem, x.db, c)} : x \in failed}
  IN  {[x EXCEPT !.db.code[c] = methods] : x \in {y \in declared : y.ok}} \cup
      {Refused(mem, d)} \cup
      (IF isNewFile THEN reverted ELSE failed)

=============================================================================
