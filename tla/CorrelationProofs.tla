------------------------- MODULE CorrelationProofs -------------------------
(***************************************************************************)
(* Proofs about Correlation, for every set of hosts, slots and editors and *)
(* every setting: types, and what the shared table guarantees although the *)
(* run and the editors write it in separate transactions.                  *)
(***************************************************************************)
EXTENDS Correlation, FiniteSetTheorems, TLAPS

USE DEF ActiveStatus

-----------------------------------------------------------------------------
(* Rows.                                                                   *)

\* What the engine, the editors and time make of a row is a row.
LEMMA RowTypes ==
  /\ NoRow \in Row
  /\ \A r \in Row : /\ Resolved(r) \in Row /\ Acknowledged(r) \in Row
                    /\ Updated(r) \in Row  /\ Aged(r) \in Row
  /\ \A k \in Key : NewRow(k) \in Row
<1>1. StaleAfter \in Nat /\ StaleAfter > 0
  BY StoreAssumption
<1>2. NoRow \in Row
  BY <1>1 DEF NoRow, Row, NoKey
<1>3. ASSUME NEW r \in Row
      PROVE  Resolved(r) \in Row /\ Acknowledged(r) \in Row /\ Updated(r) \in Row
  <2>a. \A q \in Row : [q EXCEPT !.quiet = 0] \in Row
    BY <1>1 DEF Row
  <2>b. \A q \in Row : [q EXCEPT !.closed = TRUE] \in Row
    BY DEF Row
  <2>d. [r EXCEPT !.status = "resolved"] \in Row
    BY DEF Row
  <2>c. [r EXCEPT !.status = "acknowledged"] \in Row
    BY DEF Row
  <2>1. Resolved(r) \in Row
    BY <2>a, <2>b, <2>d DEF Resolved
  <2>2. Acknowledged(r) \in Row
    BY <2>a, <2>c DEF Acknowledged
  <2>3. Updated(r) \in Row
    BY <1>1 DEF Row, Updated
  <2>4. QED
    BY <2>1, <2>2, <2>3
<1>4. ASSUME NEW r \in Row
      PROVE  Aged(r) \in Row
  <2>1. r.quiet \in 0..StaleAfter
    BY DEF Row
  <2>2. r.quiet < StaleAfter => r.quiet + 1 \in 0..StaleAfter
    BY <2>1, <1>1
  <2>3. QED
    BY <2>2 DEF Row, Aged
<1>5. ASSUME NEW k \in Key
      PROVE  NewRow(k) \in Row
  BY <1>1 DEF NewRow, Row
<1>6. QED
  BY <1>2, <1>3, <1>4, <1>5

\* Which fields each of them changes, and which it keeps.
LEMMA RowFields ==
  ASSUME NEW r \in Row
  PROVE  /\ Resolved(r).status = "resolved" /\ Resolved(r).closed
         /\ Resolved(r).key = r.key
         /\ Acknowledged(r).status = "acknowledged"
         /\ Acknowledged(r).key = r.key /\ Acknowledged(r).closed = r.closed
         /\ Updated(r).status = r.status
         /\ Updated(r).key = r.key /\ Updated(r).closed = r.closed
         /\ Updated(r).quiet = 0
         /\ Aged(r).status = r.status
         /\ Aged(r).key = r.key /\ Aged(r).closed = r.closed
BY DEF Row, Resolved, Acknowledged, Updated, Aged

\* Forgetting old resolved rows leaves a table.
LEMMA RememberedType ==
  ASSUME NEW f \in [Slots -> Row], NEW h
  PROVE  Remembered(f, h) \in [Slots -> Row]
BY RowTypes DEF Remembered

\* The run reads a row in every slot.
LEMMA ViewType ==
  ASSUME TypeOK
  PROVE  \A i \in Slots : View(i) \in Row
BY DEF View, TypeOK, StoreTypeOK

-----------------------------------------------------------------------------
(* What the rules find and how it is counted.                              *)

\* Only hosts are offline.
LEMMA OfflineHosts == \A n : Offline(n) \subseteq Hosts
BY DEF Offline

\* A rule finds nothing but host keys, integrations and log sources.
LEMMA FindsAreMatches ==
  ASSUME TypeOK, NEW r \in Rules \union {"resolve"}
  PROVE  Finds(r) \subseteq Matches
<1>1. Primary \subseteq Hosts /\ Cascaded \subseteq Hosts
  BY OfflineHosts DEF Primary, Cascaded
<1>2. HostDownFinds \subseteq HostKeys
  BY <1>1 DEF HostDownFinds, HostKey, HostKeys, HostRules
<1>3. MultiHostFinds \subseteq HostKeys
  <2>1. \A s : InSubnet(s) \subseteq Hosts
    BY <1>1 DEF InSubnet
  <2>2. Scattered \subseteq Hosts
    BY <1>1 DEF Scattered
  <2>3. \A S \in SUBSET Hosts : HostKey("multi_host_down", S) \in HostKeys
    BY DEF HostKey, HostKeys, HostRules
  <2>4. QED
    BY <2>1, <2>2, <2>3 DEF MultiHostFinds
<1>4. IntegrationFinds \subseteq Integrations
  BY DEF IntegrationFinds, TypeOK
<1>5. PortFinds \subseteq HostKeys
  BY CorrelationAssumption DEF PortFinds, TypeOK, HostKey, HostKeys, HostRules
<1>6. signal \subseteq Sources
  BY DEF TypeOK
<1>7. QED
  BY <1>2, <1>3, <1>4, <1>5, <1>6 DEF Finds, Matches, Rules

\* Every match is counted under one of the keys.
LEMMA HitKeyType ==
  ASSUME NEW m \in Matches
  PROVE  HitKey(m) \in HitKeys
BY CorrelationAssumption
   DEF HitKey, HitKeys, Matches, HostKey, HostKeys, HostRules

\* Every counted key stands for an incident.
LEMMA IncidentType ==
  ASSUME NEW k \in HitKeys
  PROVE  IncidentOf(k) \in Key
BY CorrelationAssumption DEF IncidentOf, HitKeys, HostKeys, Key

\* A table of counts as TypeOK describes it.
Counts(f) == DOMAIN f \subseteq HitKeys /\ \A k \in DOMAIN f : f[k] \in 1..MinCycles

\* Counting a key up leaves a table of counts, with the key in it.
LEMMA CountedUpType ==
  ASSUME NEW f, Counts(f), NEW k \in HitKeys
  PROVE  Counts(CountedUp(f, k)) /\ DOMAIN CountedUp(f, k) = DOMAIN f \union {k}
<1>1. Count(f, k) \in 0..MinCycles
  BY CorrelationAssumption DEF Count, Counts
<1>2. (IF Count(f, k) < MinCycles THEN Count(f, k) + 1 ELSE MinCycles) \in 1..MinCycles
  BY <1>1, CorrelationAssumption
<1>3. QED
  BY <1>2 DEF Counts, CountedUp

\* An empty transaction has written no row.
LEMMA NoWorkType == NoWork \in [Slots -> Row] /\ \A i \in Slots : NoWork[i] = NoRow
BY RowTypes DEF NoWork

\* The table of a process that has just started counts nothing.
LEMMA NoHitsType == Counts(NoHits) /\ DOMAIN NoHits = {}
BY DEF NoHits, Counts

\* A run that is rolled back leaves the types as they were.
LEMMA RollBackType ==
  ASSUME TypeOK, RollBack, UNCHANGED worldVars,
         rows' \in [Slots -> Row], held' \in [Editors -> Slots \union {NoSlot}],
         Counts(hits'), Counts(runs'), restarts' \in 0..MaxRestarts
  PROVE  TypeOK'
BY NoWorkType
   DEF TypeOK, StoreTypeOK, Counts, RollBack, DiscardWork, worldVars

-----------------------------------------------------------------------------
(* Type correctness.                                                       *)

\* The initial states have their types.
LEMMA InitType == Init => TypeOK
<1>1. SUFFICES ASSUME Init PROVE TypeOK
  OBVIOUS
<1>2. StoreTypeOK
  BY <1>1, RowTypes DEF Init, StoreInit, StoreTypeOK
<1>3. 0 \in 0..FailCap /\ 0 \in 0..MaxRestarts
  BY CorrelationAssumption DEF FailCap
<1>4. QED
  BY <1>1, <1>2, <1>3, NoWorkType, NoHitsType DEF Init, TypeOK, Counts

\* A match that is counted, with whatever the transaction writes for it.
LEMMA HandleType ==
  ASSUME TypeOK, NEW m \in todo, Handle(m),
         work' \in [Slots -> Row], dirty' \subseteq Slots,
         \A i \in Slots \ dirty' : work'[i] = NoRow
  PROVE  TypeOK'
<1>1. HitKey(m) \in HitKeys
  BY HitKeyType DEF TypeOK
<1>2. Counts(hits) /\ Counts(runs)
  BY DEF TypeOK, Counts
<1>3. Counts(hits') /\ DOMAIN hits' = DOMAIN hits \union {HitKey(m)}
  BY <1>1, <1>2, CountedUpType DEF Handle, TrackRuleHit
<1>4. Counts(runs')
  BY <1>1, <1>2, CountedUpType DEF Handle, TrackRuleHit
<1>5. seen' \subseteq DOMAIN hits'
  BY <1>3 DEF Handle, TrackRuleHit, TypeOK
<1>6. pc' = pc /\ pc \notin {"idle", "commit"} /\ todo' \subseteq Matches
  BY DEF Handle, TypeOK, Rules
<1>7. QED
  BY <1>3, <1>4, <1>5, <1>6
     DEF TypeOK, StoreTypeOK, Counts, Handle, storeVars, worldVars

\* After a write the copy still holds exactly the rows written.
LEMMA WriteType ==
  ASSUME TypeOK, NEW i \in Slots, NEW r \in Row, Write(i, r)
  PROVE  /\ work' \in [Slots -> Row] /\ dirty' \subseteq Slots
         /\ \A j \in Slots \ dirty' : work'[j] = NoRow
BY DEF TypeOK, Write

\* A request leaves the table well-formed, whatever the run has locked.
LEMMA EditorType ==
  ASSUME StoreTypeOK, NEW L, EditorStep(L)
  PROVE  StoreTypeOK'
<1>1. CASE \E e \in Editors, i \in Slots : ReadForAcknowledge(e, i)
  BY <1>1 DEF ReadForAcknowledge, StoreTypeOK
<1>2. CASE \E e \in Editors : CommitAcknowledge(e, L)
  BY <1>2, RowTypes DEF CommitAcknowledge, StoreTypeOK
<1>3. CASE \E e \in Editors : DropAcknowledge(e)
  BY <1>3, RememberedType DEF DropAcknowledge, StoreTypeOK
<1>4. CASE \E i \in Slots : ResolveByEditor(i, L)
  <2>1. PICK i \in Slots : ResolveByEditor(i, L)
    BY <1>4
  <2>2. [rows EXCEPT ![i] = Resolved(@)] \in [Slots -> Row]
    BY RowTypes DEF StoreTypeOK
  <2>3. QED
    BY <2>1, <2>2, RememberedType DEF ResolveByEditor, StoreTypeOK
<1>5. CASE \E i \in Slots : LabelByEditor(i, L)
  BY <1>5, RowTypes DEF LabelByEditor, StoreTypeOK
<1>6. QED
  BY <1>1, <1>2, <1>3, <1>4, <1>5 DEF EditorStep

\* Every step keeps the types: one case per action.
LEMMA StepType == TypeOK /\ [Next]_vars => TypeOK'
<1> SUFFICES ASSUME TypeOK, [Next]_vars
             PROVE  TypeOK'
  OBVIOUS
<1>1. CASE StartRun
  <2>1. rows' \in [Slots -> Row]
    BY <1>1, RowTypes DEF StartRun, TypeOK, StoreTypeOK
  <2>2. todo' \subseteq Matches /\ pc' \in Rules
    BY <1>1, FindsAreMatches DEF StartRun, Rules
  <2>3. dirty' = {} /\ seen' = {}
    BY <1>1 DEF StartRun, TypeOK
  <2>4. QED
    BY <1>1, <2>1, <2>2, <2>3 DEF StartRun, TypeOK, StoreTypeOK, worldVars
<1>2. CASE NextRule
  <2>1. RuleAfter(pc) \in Rules \union {"resolve"}
        /\ RuleAfter(pc) \notin {"idle", "commit"}
    BY <1>2 DEF NextRule, RuleAfter, Rules
  <2>2. todo' \subseteq Matches
    BY <1>2, <2>1, FindsAreMatches DEF NextRule
  <2>3. QED
    BY <1>2, <2>1, <2>2 DEF NextRule, TypeOK, StoreTypeOK, storeVars, worldVars
<1>3. ASSUME NEW m \in todo, HoldBack(m)
      PROVE  TypeOK'
  <2>1. work' \in [Slots -> Row] /\ dirty' \subseteq Slots
        /\ \A i \in Slots \ dirty' : work'[i] = NoRow
    BY <1>3 DEF HoldBack, TypeOK
  <2>2. QED
    BY <1>3, <2>1, HandleType DEF HoldBack
<1>4. ASSUME NEW m \in todo, Refresh(m)
      PROVE  TypeOK'
  <2>1. PICK i \in Slots : Write(i, Updated(View(i)))
    BY <1>4 DEF Refresh
  <2>2. Updated(View(i)) \in Row
    BY ViewType, RowTypes
  <2>3. QED
    BY <1>4, <2>1, <2>2, WriteType, HandleType DEF Refresh
<1>5. ASSUME NEW m \in todo, Create(m)
      PROVE  TypeOK'
  <2>1. PICK i \in Slots : Write(i, NewRow(IncidentOf(HitKey(m))))
    BY <1>5 DEF Create
  <2>2. m \in Matches
    BY <1>5 DEF TypeOK
  <2>3. NewRow(IncidentOf(HitKey(m))) \in Row
    BY <2>2, HitKeyType, IncidentType, RowTypes
  <2>4. QED
    BY <1>5, <2>1, <2>3, WriteType, HandleType DEF Create
<1>6. ASSUME NEW m \in todo, FailOnDuplicate(m)
      PROVE  TypeOK'
  <2>1. HitKey(m) \in HitKeys /\ Counts(hits) /\ Counts(runs)
    BY <1>6, HitKeyType DEF TypeOK, Counts
  <2>2. Counts(hits') /\ Counts(runs')
    BY <1>6, <2>1, CountedUpType DEF FailOnDuplicate
  <2>3. QED
    BY <1>6, <2>2, RollBackType
       DEF FailOnDuplicate, TypeOK, StoreTypeOK, storeVars
<1>7. CASE AutoResolve
  <2>1. work' \in [Slots -> Row]
    BY <1>7, ViewType, RowTypes DEF AutoResolve, TypeOK
  <2>2. dirty' \subseteq Slots /\ \A i \in Slots \ dirty' : work'[i] = NoRow
    BY <1>7 DEF AutoResolve, TypeOK, Cleared
  <2>3. Counts(hits') /\ Counts(runs') /\ seen' \subseteq DOMAIN hits'
    BY <1>7 DEF AutoResolve, Pruned, TypeOK, Counts
  <2>4. QED
    BY <1>7, <2>1, <2>2, <2>3
       DEF AutoResolve, TypeOK, StoreTypeOK, Counts, storeVars, worldVars
<1>8. CASE CommitFleet \/ Commit
  <2>1. [i \in Slots |-> View(i)] \in [Slots -> Row]
    BY ViewType
  <2>2. rows' \in [Slots -> Row]
    BY <1>8, <2>1, RememberedType DEF CommitFleet, Commit, Committed
  <2>3. CASE CommitFleet
    BY <2>2, <2>3, NoWorkType
       DEF CommitFleet, Committed, DiscardWork, TypeOK, StoreTypeOK, worldVars
  <2>4. CASE Commit
    BY <2>2, <2>4, NoWorkType
       DEF Commit, Committed, DiscardWork, TypeOK, StoreTypeOK, worldVars
  <2>5. QED
    BY <1>8, <2>3, <2>4
<1>9. CASE Fail
  BY <1>9, RollBackType DEF Fail, TypeOK, StoreTypeOK, Counts, storeVars
<1>10. CASE Restart
  <2>1. rows' \in [Slots -> Row]
    BY <1>10, RememberedType DEF Restart, TypeOK, StoreTypeOK
  <2>2. restarts' \in 0..MaxRestarts
    BY <1>10, CorrelationAssumption DEF Restart, TypeOK
  <2>3. QED
    BY <1>10, <2>1, <2>2, NoHitsType, RollBackType DEF Restart
<1>11. CASE Edit
  <2>1. StoreTypeOK'
    BY <1>11, EditorType DEF Edit, TypeOK
  <2>2. QED
    BY <1>11, <2>1 DEF Edit, TypeOK, worldVars, engineVars
<1>12. CASE World
  <2>1. fails' \in [Hosts -> 0..FailCap]
    <3>1. ASSUME NEW h \in Hosts
          PROVE  /\ 0 \in 0..FailCap
                 /\ (IF fails[h] < FailCap THEN fails[h] + 1 ELSE FailCap) \in 0..FailCap
      BY CorrelationAssumption DEF FailCap, TypeOK
    <3>2. QED
      BY <1>12, <3>1 DEF World, Ping, TypeOK
  <2>2. maint' \subseteq Serviced /\ errs' \subseteq Chatty /\ portErr' \subseteq Ported
        /\ intDown' \subseteq Integrations /\ signal' \subseteq Sources
    BY <1>12 DEF World, Ping, Flip, TypeOK
  <2>3. QED
    BY <1>12, <2>1, <2>2 DEF World, TypeOK, StoreTypeOK, storeVars, engineVars
<1>13. CASE UNCHANGED vars
  BY <1>13 DEF vars, storeVars, worldVars, engineVars, TypeOK, StoreTypeOK
<1>14. QED
  BY <1>1, <1>2, <1>3, <1>4, <1>5, <1>6, <1>7, <1>8, <1>9, <1>10, <1>11, <1>12, <1>13
     DEF Next, Engine

\* Every variable keeps its type, and the transaction's copy of the table is
\* exactly what the run has written.
THEOREM TypeCorrect == Spec => []TypeOK
BY InitType, StepType, PTL DEF Spec

-----------------------------------------------------------------------------
(* The shared table.                                                       *)

ViewTable == [i \in Slots |-> View(i)]

\* g makes no row active for a key but rows that f has active for it, and rows
\* that had been resolved before.
Tamer(f, g) ==
  \A i \in Slots :
    IsActive(g[i]) => \/ g[i].closed
                      \/ /\ IsActive(f[i])
                         /\ g[i].key = f[i].key

\* A tamer table has no twins but revivals if the first had none.
LEMMA TamerKeepsTwins ==
  ASSUME NEW f, NEW g, TwinsAreRevivals(f), Tamer(f, g),
         \A i \in Slots : f[i].closed => g[i].closed \/ ~IsActive(g[i])
  PROVE  TwinsAreRevivals(g)
BY DEF TwinsAreRevivals, Tamer

\* The empty table satisfies the invariant.
LEMMA InitTable == Init => TableInv
BY DEF Init, StoreInit, TableInv, DuplicatesAreRevivals, TwinsAreRevivals, View,
       NoRow, IsActive

\* A rolled back run leaves the committed rows, and the view falls back on them.
LEMMA RollBackTable ==
  ASSUME TypeOK, TableInv, RollBack, held' = held, rows' = rows
  PROVE  TableInv'
<1>1. \A i \in Slots : View(i)' = rows[i]
  BY DEF RollBack, DiscardWork, View
<1>2. TwinsAreRevivals(rows) /\ dirty' = {}
  BY DEF TableInv, DuplicatesAreRevivals, RollBack, DiscardWork
<1>3. TwinsAreRevivals([i \in Slots |-> View(i)])'
  BY <1>1, <1>2 DEF TwinsAreRevivals
<1>4. QED
  BY <1>2, <1>3 DEF TableInv, DuplicatesAreRevivals, TwinsAreRevivals

\* The run writes row i, keeping its key and its history.
LEMMA WriteTable ==
  ASSUME TypeOK, TableInv, UNCHANGED storeVars,
         NEW i \in Slots, NEW r \in Row, Write(i, r), r.status # "absent",
         r.status = "resolved" => r.closed,
         rows[i].status = "acknowledged" => r.status # "open",
         TwinsAreRevivals([ViewTable EXCEPT ![i] = r])
  PROVE  TableInv'
<1>1. \A j \in Slots : View(j)' = [ViewTable EXCEPT ![i] = r][j]
  BY DEF View, ViewTable, Write, TypeOK, storeVars
<1>2. TwinsAreRevivals([j \in Slots |-> View(j)])'
  BY <1>1 DEF TwinsAreRevivals
<1>3. \A j \in dirty' : /\ work'[j].status # "absent"
                        /\ work'[j].status = "resolved" => work'[j].closed
                        /\ rows[j].status = "acknowledged" => work'[j].status # "open"
  BY DEF Write, TableInv, TypeOK
<1>4. QED
  BY <1>2, <1>3
     DEF TableInv, DuplicatesAreRevivals, TwinsAreRevivals, storeVars

\* Refreshing the only active row for a key disturbs no other.
LEMMA RefreshTable ==
  ASSUME TypeOK, TableInv, NEW m \in todo, Refresh(m)
  PROVE  TableInv'
<1>1. PICK i \in Slots : ActiveFor(IncidentOf(HitKey(m))) = {i} /\ Write(i, Updated(View(i)))
  BY DEF Refresh
<1>2. View(i) \in Row /\ IsActive(View(i))
  BY <1>1, ViewType DEF ActiveFor
<1>3. /\ Updated(View(i)) \in Row
      /\ Updated(View(i)).status = View(i).status
      /\ Updated(View(i)).key = View(i).key /\ Updated(View(i)).closed = View(i).closed
  BY <1>2, RowTypes, RowFields
<1>4. Tamer(ViewTable, [ViewTable EXCEPT ![i] = Updated(View(i))])
  BY <1>3 DEF Tamer, ViewTable, IsActive
<1>5. TwinsAreRevivals(ViewTable)
  BY DEF TableInv, ViewTable
<1>6. \A j \in Slots : ViewTable[j].closed
                         => [ViewTable EXCEPT ![i] = Updated(View(i))][j].closed
  BY <1>3 DEF ViewTable
<1>7. TwinsAreRevivals([ViewTable EXCEPT ![i] = Updated(View(i))])
  BY <1>4, <1>5, <1>6, TamerKeepsTwins
<1>8. rows[i].status = "acknowledged" => View(i).status # "open"
  BY DEF View, TableInv
<1>9. UNCHANGED storeVars
  BY DEF Refresh, Handle
<1>10. View(i).status \notin {"absent", "resolved"}
  BY <1>2 DEF IsActive
<1>11. QED
  BY <1>1, <1>3, <1>7, <1>8, <1>9, <1>10, WriteTable

\* A row is created only for a key that has no active one in the view.
LEMMA CreateTable ==
  ASSUME TypeOK, TableInv, NEW m \in todo, Create(m)
  PROVE  TableInv'
<1> DEFINE q == IncidentOf(HitKey(m))
<1>1. PICK i \in Slots \ dirty : rows[i].status = "absent" /\ Write(i, NewRow(q))
  BY DEF Create
<1>2. q \in Key
  BY HitKeyType, IncidentType DEF TypeOK
<1>3. NewRow(q) \in Row
  BY <1>2, RowTypes
<1>4. \A j \in Slots : IsActive(View(j)) => View(j).key # q
  BY DEF Create, ActiveFor
<1>5. TwinsAreRevivals(ViewTable)
  BY DEF TableInv, ViewTable
<1>6. TwinsAreRevivals([ViewTable EXCEPT ![i] = NewRow(q)])
  BY <1>4, <1>5 DEF TwinsAreRevivals, ViewTable, NewRow
<1>7. NewRow(q).status = "open"
  BY DEF NewRow
<1>8. UNCHANGED storeVars
  BY DEF Create, Handle
<1>9. QED
  BY <1>1, <1>3, <1>6, <1>7, <1>8, WriteTable

\* Resolving rows makes the view tamer.
LEMMA ResolveTable ==
  ASSUME TypeOK, TableInv, AutoResolve
  PROVE  TableInv'
<1>1. \A i \in Slots : View(i) \in Row
  BY ViewType
<1>2. \A i \in Slots : View(i)' = IF i \in Cleared THEN Resolved(View(i)) ELSE View(i)
  BY DEF View, AutoResolve, storeVars
<1>3. TwinsAreRevivals([i \in Slots |-> View(i)])'
  <2>1. \A i \in Slots : IsActive(View(i))' => View(i)' = View(i)
    BY <1>1, <1>2, RowFields DEF IsActive
  <2>2. QED
    BY <2>1 DEF TableInv, TwinsAreRevivals
<1>4. \A i \in dirty' : /\ work'[i].status # "absent"
                        /\ work'[i].status = "resolved" => work'[i].closed
                        /\ rows[i].status = "acknowledged" => work'[i].status # "open"
  <2>1. \A i \in Cleared : i \in Slots /\ work'[i].status = "resolved" /\ work'[i].closed
    BY <1>1, RowFields DEF AutoResolve, Cleared
  <2>2. \A i \in dirty \ Cleared : work'[i] = work[i]
    BY DEF AutoResolve, TypeOK
  <2>3. QED
    BY <2>1, <2>2 DEF AutoResolve, TableInv
<1>5. QED
  BY <1>3, <1>4
     DEF AutoResolve, TableInv, DuplicatesAreRevivals, TwinsAreRevivals, storeVars

\* Where only the committed rows are left, the view adds nothing to them.
LEMMA CommittedTable ==
  ASSUME dirty' = {}, TwinsAreRevivals(rows)',
         \A i \in Slots : rows'[i].status = "resolved" => rows'[i].closed,
         \A e \in Editors : held'[e] # NoSlot => rows'[held'[e]].status # "absent"
  PROVE  TableInv'
<1>1. \A i \in Slots : View(i)' = rows'[i]
  BY DEF View
<1>2. TwinsAreRevivals([i \in Slots |-> View(i)])'
  BY <1>1 DEF TwinsAreRevivals
<1>3. QED
  BY <1>2 DEF TableInv, DuplicatesAreRevivals

\* Forgetting a row takes it away from a table and changes no other.
LEMMA RememberedRows ==
  ASSUME NEW f, NEW h, NEW i \in Slots
  PROVE  /\ Remembered(f, h)[i] = f[i] \/ Remembered(f, h)[i] = NoRow
         /\ IsActive(f[i]) => Remembered(f, h)[i] = f[i]
         /\ (\E e \in Editors : h[e] = i) => Remembered(f, h)[i] = f[i]
         /\ ~IsActive(NoRow) /\ NoRow.status = "absent"
BY DEF Remembered, NoRow, IsActive

\* Ageing changes neither status nor key.
LEMMA StartTable ==
  ASSUME TypeOK, TableInv, StartRun
  PROVE  TableInv'
<1>1. dirty' = {}
  BY DEF StartRun, TypeOK
<1>2. \A i \in Slots : /\ rows'[i].status = rows[i].status
                       /\ rows'[i].key = rows[i].key
                       /\ rows'[i].closed = rows[i].closed
  BY RowFields DEF StartRun, TypeOK, StoreTypeOK
<1>3. TwinsAreRevivals(rows)'
  BY <1>2 DEF TableInv, DuplicatesAreRevivals, TwinsAreRevivals, IsActive
<1>4. \A e \in Editors : held'[e] # NoSlot => rows'[held'[e]].status # "absent"
  BY <1>2 DEF StartRun, TableInv, TypeOK, StoreTypeOK
<1>5. QED
  BY <1>1, <1>2, <1>3, <1>4, CommittedTable DEF TableInv

\* What is committed is the view, less what is forgotten.
LEMMA CommitTable ==
  ASSUME TypeOK, TableInv, CommitFleet \/ Commit
  PROVE  TableInv'
<1>1. dirty' = {} /\ held' = held /\ rows' = Remembered(ViewTable, held)
  BY DEF CommitFleet, Commit, Committed, DiscardWork, ViewTable
<1>2. \A i \in Slots : /\ View(i).status = "resolved" => View(i).closed
                       /\ ViewTable[i] = View(i)
  BY DEF View, TableInv, ViewTable
<1>3. TwinsAreRevivals(ViewTable)
  BY DEF TableInv, ViewTable
<1>4. TwinsAreRevivals(rows)'
  BY <1>1, <1>3, RememberedRows DEF TwinsAreRevivals
<1>5. \A i \in Slots : rows'[i].status = "resolved" => rows'[i].closed
  BY <1>1, <1>2, RememberedRows
<1>6. ASSUME NEW e \in Editors, held'[e] # NoSlot
      PROVE  rows'[held'[e]].status # "absent"
  <2>1. held[e] \in Slots /\ held'[e] = held[e]
    BY <1>1, <1>6 DEF TypeOK, StoreTypeOK
  <2>2. View(held[e]).status # "absent"
    BY <1>6, <2>1 DEF View, TableInv
  <2>3. rows'[held[e]] = View(held[e])
    BY <1>1, <1>2, <2>1, RememberedRows
  <2>4. QED
    BY <2>1, <2>2, <2>3
<1>7. QED
  BY <1>1, <1>4, <1>5, <1>6, CommittedTable

\* A restart loses the transaction and every request.
LEMMA RestartTable ==
  ASSUME TypeOK, TableInv, Restart
  PROVE  TableInv'
<1>1. dirty' = {} /\ rows' = Remembered(rows, held') /\ \A e \in Editors : held'[e] = NoSlot
  BY DEF Restart, RollBack, DiscardWork
<1>2. TwinsAreRevivals(rows)'
  BY <1>1, RememberedRows DEF TableInv, DuplicatesAreRevivals, TwinsAreRevivals
<1>3. \A i \in Slots : rows'[i].status = "resolved" => rows'[i].closed
  BY <1>1, RememberedRows DEF TableInv
<1>4. QED
  BY <1>1, <1>2, <1>3, CommittedTable

\* Requests change rows that the run has not written, and make active what was
\* active for the same key or had been resolved; the rest they may forget.
LEMMA EditTable ==
  ASSUME TypeOK, TableInv, UNCHANGED engineVars,
         \A i \in Slots :
           \/ rows'[i] = rows[i]
           \/ rows'[i] = NoRow
           \/ /\ i \notin dirty
              /\ rows'[i].status = "resolved" => rows'[i].closed
              /\ rows[i].closed => rows'[i].closed
              /\ IsActive(rows'[i]) =>
                   \/ rows'[i].closed
                   \/ IsActive(rows[i]) /\ rows'[i].key = rows[i].key,
         \A e \in Editors : held'[e] # NoSlot => rows'[held'[e]].status # "absent"
  PROVE  TableInv'
<1> DEFINE V2 == [i \in Slots |-> View(i)']
<1>1. ~IsActive(NoRow) /\ NoRow.status = "absent"
  BY DEF NoRow, IsActive
<1>2. Tamer(rows, rows') /\ \A i \in Slots : rows[i].closed => rows'[i].closed \/ ~IsActive(rows'[i])
  BY <1>1 DEF Tamer
<1>3. TwinsAreRevivals(rows)'
  BY <1>2, TamerKeepsTwins DEF TableInv, DuplicatesAreRevivals, TwinsAreRevivals
<1>4. \A i \in Slots : View(i)' = IF i \in dirty THEN work[i] ELSE rows'[i]
  BY DEF View, engineVars
<1>5. Tamer(ViewTable, V2)
  BY <1>1, <1>4 DEF Tamer, ViewTable, View
<1>6. \A i \in Slots : ViewTable[i].closed => V2[i].closed \/ ~IsActive(V2[i])
  BY <1>1, <1>4 DEF ViewTable, View
<1>7. TwinsAreRevivals(ViewTable)
  BY DEF TableInv, ViewTable
<1>8. TwinsAreRevivals(V2)
  BY <1>5, <1>6, <1>7, TamerKeepsTwins
<1>9. TwinsAreRevivals([i \in Slots |-> View(i)])'
  BY <1>8 DEF TwinsAreRevivals
<1>10. \A i \in Slots : rows'[i].status = "resolved" => rows'[i].closed
  BY <1>1 DEF TableInv
<1>11. \A i \in dirty' :
         /\ work'[i].status # "absent"
         /\ work'[i].status = "resolved" => work'[i].closed
         /\ rows'[i].status = "acknowledged" => work'[i].status # "open"
  <2>1. \A i \in dirty' : i \in dirty /\ i \in Slots /\ work'[i] = work[i]
    BY DEF engineVars, TypeOK
  <2>2. \A i \in dirty : rows'[i] = rows[i] \/ rows'[i].status = "absent"
    BY <1>1 DEF TypeOK
  <2>3. QED
    BY <2>1, <2>2 DEF TableInv
<1>12. QED
  BY <1>3, <1>9, <1>10, <1>11 DEF TableInv, DuplicatesAreRevivals

\* A request revives only rows that had been closed, and none that the run has
\* written.
LEMMA EditorTable ==
  ASSUME TypeOK, TableInv, Edit
  PROVE  TableInv'
<1>1. UNCHANGED engineVars /\ EditorStep(dirty)
  BY DEF Edit
<1>2. \A e \in Editors : held[e] # NoSlot => held[e] \in Slots /\ rows[held[e]].status # "absent"
  BY DEF TableInv, TypeOK, StoreTypeOK
<1>3. \A i \in Slots : rows[i] \in Row /\ (rows[i].status = "resolved" => rows[i].closed)
  BY DEF TableInv, TypeOK, StoreTypeOK
<1>4. ASSUME NEW e \in Editors, NEW i \in Slots, ReadForAcknowledge(e, i)
      PROVE  TableInv'
  <2>1. rows' = rows /\ held' = [held EXCEPT ![e] = i] /\ rows[i].status # "absent"
    BY <1>4 DEF ReadForAcknowledge, IsActive
  <2>2. \A d \in Editors : held'[d] # NoSlot => rows'[held'[d]].status # "absent"
    BY <1>2, <2>1 DEF TypeOK, StoreTypeOK
  <2>3. QED
    BY <1>1, <2>1, <2>2, EditTable
<1>5. ASSUME NEW e \in Editors, CommitAcknowledge(e, dirty)
      PROVE  TableInv'
  <2> DEFINE i == held[e]
  <2>1. /\ i \in Slots \ dirty /\ rows[i].status # "absent"
        /\ rows' = [rows EXCEPT ![i] = Acknowledged(rows[i])]
        /\ held' = [held EXCEPT ![e] = NoSlot]
    BY <1>2, <1>5 DEF CommitAcknowledge
  <2>2. /\ Acknowledged(rows[i]).status = "acknowledged"
        /\ Acknowledged(rows[i]).key = rows[i].key
        /\ Acknowledged(rows[i]).closed = rows[i].closed
    BY <1>3, <2>1, RowFields
  <2>3. rows'[i] = Acknowledged(rows[i]) /\ \A j \in Slots \ {i} : rows'[j] = rows[j]
    BY <2>1 DEF TypeOK, StoreTypeOK
  <2>4. IsActive(rows[i]) \/ rows[i].closed
    BY <1>3, <2>1 DEF IsActive, Row
  <2>5. \A d \in Editors : held'[d] # NoSlot => rows'[held'[d]].status # "absent"
    BY <1>2, <2>1, <2>2, <2>3 DEF TypeOK, StoreTypeOK
  <2>6. rows'[i].status # "resolved"
    BY <2>2, <2>3
  <2>7. QED
    BY <1>1, <2>1, <2>2, <2>3, <2>4, <2>5, <2>6, EditTable
<1>6. ASSUME NEW e \in Editors, DropAcknowledge(e)
      PROVE  TableInv'
  <2>1. held' = [held EXCEPT ![e] = NoSlot] /\ rows' = Remembered(rows, held')
    BY <1>6 DEF DropAcknowledge
  <2>2. \A d \in Editors : held'[d] # NoSlot => held'[d] = held[d]
    BY <2>1 DEF TypeOK, StoreTypeOK
  <2>3. ASSUME NEW d \in Editors, held'[d] # NoSlot
        PROVE  rows'[held'[d]] = rows[held[d]]
    <3>1. held'[d] \in Slots /\ held[d] = held'[d]
      BY <1>2, <2>2, <2>3
    <3>2. Remembered(rows, held')[held'[d]] = rows[held'[d]]
      BY <3>1, RememberedRows
    <3>3. QED
      BY <2>1, <3>1, <3>2
  <2>4. \A j \in Slots : rows'[j] = rows[j] \/ rows'[j] = NoRow
    BY <2>1, RememberedRows
  <2>5. QED
    BY <1>1, <1>2, <2>2, <2>3, <2>4, EditTable
<1>7. ASSUME NEW i \in Slots, ResolveByEditor(i, dirty)
      PROVE  TableInv'
  <2> DEFINE f == [rows EXCEPT ![i] = Resolved(rows[i])]
  <2>1. i \notin dirty /\ rows' = Remembered(f, held) /\ held' = held
    BY <1>7 DEF ResolveByEditor
  <2>2. Resolved(rows[i]).status = "resolved" /\ Resolved(rows[i]).closed
    BY <1>3, RowFields
  <2>3. f[i] = Resolved(rows[i]) /\ \A j \in Slots \ {i} : f[j] = rows[j]
    BY DEF TypeOK, StoreTypeOK
  <2>4. \A j \in Slots : rows'[j] = f[j] \/ rows'[j] = NoRow
    BY <2>1, RememberedRows
  <2>5. ~IsActive(f[i])
    BY <2>2, <2>3 DEF IsActive
  <2>6. ASSUME NEW d \in Editors, held'[d] # NoSlot
        PROVE  rows'[held'[d]].status # "absent"
    <3> HIDE DEF f
    <3>1. held[d] \in Slots /\ held'[d] = held[d] /\ rows[held[d]].status # "absent"
      BY <1>2, <2>1, <2>6
    <3>2. Remembered(f, held)[held[d]] = f[held[d]]
      BY <3>1, RememberedRows
    <3>3. f[held[d]].status # "absent"
      BY <2>2, <2>3, <3>1
    <3>4. QED
      BY <2>1, <3>1, <3>2, <3>3
  <2>8. QED
    BY <1>1, <2>1, <2>2, <2>3, <2>4, <2>5, <2>6, EditTable
<1>8. ASSUME NEW i \in Slots, LabelByEditor(i, dirty)
      PROVE  TableInv'
  <2>1. /\ i \notin dirty /\ IsActive(rows[i]) /\ held' = held
        /\ rows' = [rows EXCEPT ![i] = Updated(rows[i])]
    BY <1>8 DEF LabelByEditor
  <2>2. /\ Updated(rows[i]).status = rows[i].status
        /\ Updated(rows[i]).key = rows[i].key
        /\ Updated(rows[i]).closed = rows[i].closed
    BY <1>3, RowFields
  <2>3. rows'[i] = Updated(rows[i]) /\ \A j \in Slots \ {i} : rows'[j] = rows[j]
    BY <2>1 DEF TypeOK, StoreTypeOK
  <2>4. \A d \in Editors : held'[d] # NoSlot => rows'[held'[d]].status # "absent"
    BY <1>2, <2>1, <2>2, <2>3
  <2>5. QED
    BY <1>1, <1>3, <2>1, <2>2, <2>3, <2>4, EditTable
<1>9. QED
  BY <1>1, <1>4, <1>5, <1>6, <1>7, <1>8 DEF EditorStep

\* Every step keeps the invariant of the table.
LEMMA StepTable == TypeOK /\ TableInv /\ [Next]_vars => TableInv'
<1> SUFFICES ASSUME TypeOK, TableInv, [Next]_vars
             PROVE  TableInv'
  OBVIOUS
<1>1. ASSUME UNCHANGED <<storeVars, work, dirty>>
      PROVE  TableInv'
  BY <1>1 DEF TableInv, DuplicatesAreRevivals, TwinsAreRevivals, View, storeVars
<1>2. CASE NextRule
  BY <1>1, <1>2 DEF NextRule
<1>3. ASSUME NEW m \in todo, HoldBack(m)
      PROVE  TableInv'
  BY <1>1, <1>3 DEF HoldBack, Handle
<1>4. ASSUME NEW m \in todo, FailOnDuplicate(m)
      PROVE  TableInv'
  BY <1>4, RollBackTable DEF FailOnDuplicate, storeVars
<1>5. CASE Fail
  BY <1>5, RollBackTable DEF Fail, storeVars
<1>6. CASE World
  BY <1>1, <1>6 DEF World, engineVars
<1>7. CASE UNCHANGED vars
  BY <1>1, <1>7 DEF vars, engineVars
<1>8. QED
  BY <1>2, <1>3, <1>4, <1>5, <1>6, <1>7, StartTable, RefreshTable, CreateTable,
     ResolveTable, CommitTable, RestartTable, EditorTable
     DEF Next, Engine

\* The invariant that the two properties of the table below rest on.
THEOREM TableCorrect == Spec => []TableInv
<1>1. TypeOK /\ TableInv /\ [Next]_vars => TableInv'
  BY StepTable
<1>2. QED
  BY <1>1, InitTable, TypeCorrect, PTL DEF Spec

\* Two active incidents for the same rule and hosts exist only when a late
\* acknowledgement made one of them active again, whatever the run and the
\* editors do in between and however often the process restarts.
THEOREM DuplicatesOnlyByRevival == Spec => []DuplicatesAreRevivals
<1>1. TableInv => DuplicatesAreRevivals
  BY DEF TableInv
<1>2. QED
  BY <1>1, TableCorrect, PTL

\* No step reopens an acknowledged row.
LEMMA AcknowledgementStep ==
  ASSUME TypeOK, TableInv, [Next]_vars
  PROVE  \A i \in Slots : rows[i].status = "acknowledged" => rows'[i].status # "open"
<1> SUFFICES ASSUME NEW i \in Slots, rows[i].status = "acknowledged"
             PROVE  rows'[i].status # "open"
  OBVIOUS
<1>1. rows[i] \in Row /\ NoRow.status = "absent"
  BY DEF TypeOK, StoreTypeOK, NoRow
<1>2. CASE rows' = rows
  BY <1>2
<1>3. CASE StartRun
  BY <1>1, <1>3, RowFields DEF StartRun
<1>4. CASE CommitFleet \/ Commit
  <2>1. View(i).status # "open"
    BY DEF View, TableInv
  <2>2. rows' = Remembered(ViewTable, held) /\ ViewTable[i] = View(i)
    BY <1>4 DEF CommitFleet, Commit, Committed, ViewTable
  <2>3. QED
    BY <1>1, <2>1, <2>2, RememberedRows
<1>5. CASE Restart
  BY <1>1, <1>5, RememberedRows DEF Restart
<1>6. CASE Edit
  <2>1. ASSUME NEW j \in Slots, NEW r \in Row, rows' = [rows EXCEPT ![j] = r],
               j = i => r.status # "open"
        PROVE  rows'[i].status # "open"
    BY <1>1, <2>1 DEF TypeOK, StoreTypeOK
  <2>2. ASSUME NEW e \in Editors, CommitAcknowledge(e, dirty)
        PROVE  rows'[i].status # "open"
    <3>1. held[e] \in Slots /\ rows[held[e]] \in Row
      BY <2>2 DEF CommitAcknowledge, TypeOK, StoreTypeOK
    <3>2. Acknowledged(rows[held[e]]) \in Row
          /\ Acknowledged(rows[held[e]]).status = "acknowledged"
      BY <3>1, RowTypes, RowFields
    <3>3. QED
      BY <2>1, <2>2, <3>1, <3>2 DEF CommitAcknowledge
  <2>3. ASSUME NEW j \in Slots, ResolveByEditor(j, dirty)
        PROVE  rows'[i].status # "open"
    <3> DEFINE f == [rows EXCEPT ![j] = Resolved(rows[j])]
    <3>1. Resolved(rows[j]).status = "resolved"
      BY RowFields DEF TypeOK, StoreTypeOK
    <3>2. f[i].status # "open"
      BY <1>1, <3>1 DEF TypeOK, StoreTypeOK
    <3>3. rows' = Remembered(f, held)
      BY <2>3 DEF ResolveByEditor
    <3> HIDE DEF f
    <3>4. QED
      BY <1>1, <3>2, <3>3, RememberedRows
  <2>4. ASSUME NEW j \in Slots, LabelByEditor(j, dirty)
        PROVE  rows'[i].status # "open"
    <3>1. Updated(rows[j]) \in Row /\ Updated(rows[j]).status = rows[j].status
      BY RowTypes, RowFields DEF TypeOK, StoreTypeOK
    <3>2. QED
      BY <1>1, <2>1, <2>4, <3>1 DEF LabelByEditor
  <2>5. ASSUME NEW e \in Editors, DropAcknowledge(e)
        PROVE  rows'[i].status # "open"
    BY <1>1, <2>5, RememberedRows DEF DropAcknowledge
  <2>6. ASSUME NEW e \in Editors, NEW j \in Slots, ReadForAcknowledge(e, j)
        PROVE  rows' = rows
    BY <2>6 DEF ReadForAcknowledge
  <2>7. QED
    BY <1>2, <1>6, <2>2, <2>3, <2>4, <2>5, <2>6 DEF Edit, EditorStep
<1>7. ASSUME NEW m \in todo, HoldBack(m) \/ Refresh(m) \/ Create(m) \/ FailOnDuplicate(m)
      PROVE  rows' = rows
  BY <1>7 DEF HoldBack, Refresh, Create, FailOnDuplicate, Handle, storeVars
<1>8. NextRule \/ AutoResolve \/ Fail \/ World \/ UNCHANGED vars => rows' = rows
  BY DEF NextRule, AutoResolve, Fail, World, vars, storeVars
<1>9. QED
  BY <1>2, <1>3, <1>4, <1>5, <1>6, <1>7, <1>8 DEF Next, Engine

\* A run that read an incident before it was acknowledged, and commits after,
\* does not reopen it.
THEOREM AcknowledgementsLast == Spec => AcknowledgementKept
<1>1. TypeOK /\ TableInv /\ [Next]_vars
        => [\A i \in Slots : rows[i].status = "acknowledged"
                               => rows'[i].status # "open"]_vars
  BY AcknowledgementStep
<1>2. QED
  BY <1>1, TypeCorrect, TableCorrect, PTL DEF Spec, AcknowledgementKept

-----------------------------------------------------------------------------
(* The rules and _auto_resolve agree.                                      *)

\* A host the rules call offline, and that has failed as often as _auto_resolve
\* asks, is offline for _auto_resolve too.
LEMMA OfflineForBoth ==
  ASSUME NEW q, DownForBoth(q), q.rule # "port_error",
         NEW h \in q.hosts \intersect Offline(MinFailures)
  PROVE  h \in Offline(AutoFailures)
BY DEF DownForBoth, Offline

\* Hosts enough for a network issue are enough for _auto_resolve.
LEMMA EnoughOffline ==
  ASSUME NEW S \in SUBSET Offline(AutoFailures), Cardinality(S) >= NetworkIssueMin
  PROVE  Cardinality(Offline(AutoFailures)) >= NetworkIssueMin
<1>1. IsFiniteSet(Offline(AutoFailures))
  BY StoreAssumption, OfflineHosts, FS_Subset
<1>3. /\ Cardinality(S) =< Cardinality(Offline(AutoFailures))
      /\ Cardinality(S) \in Nat /\ Cardinality(Offline(AutoFailures)) \in Nat
  BY <1>1, FS_Subset, FS_CardinalityType
<1>4. QED
  BY <1>3 DEF NetworkIssueMin

\* A rule that would raise an incident now keeps it in _auto_resolve.
LEMMA FoundIsKept ==
  ASSUME TypeOK, NEW r \in Row, DownForBoth(r.key),
         Found(r.key), r.key.rule # "upstream_failure", r.quiet = 0
  PROVE  Keeps(r)
<1> DEFINE On == Offline(MinFailures)
           Off == Offline(AutoFailures)
<1>1. Primary \subseteq On
  BY DEF Primary
<1>2. PICK p \in Rules : \E m \in Finds(p) : IncidentOf(HitKey(m)) = r.key
  BY DEF Found
<1>3. PICK m \in Finds(p) : IncidentOf(HitKey(m)) = r.key
  BY <1>2
<1>4. ASSUME m \in HostKeys
      PROVE  r.key = m
  BY <1>3, <1>4, DistinctAssumption DEF HitKey, IncidentOf
<1>5. CASE p = "host_down_syslog"
  <2>1. m \in HostDownFinds
    BY <1>3, <1>5 DEF Finds
  <2>2. CASE \E h \in Primary \intersect errs : m = HostKey("host_down_syslog", {h})
    <3>1. PICK h \in Primary \intersect errs : m = HostKey("host_down_syslog", {h})
      BY <2>2
    <3>2. h \in Hosts /\ h \in On
      BY <1>1, OfflineHosts
    <3>3. m \in HostKeys
      BY <3>1, <3>2 DEF HostKey, HostKeys, HostRules
    <3>4. r.key.rule = "host_down_syslog" /\ r.key.hosts = {h}
      BY <1>4, <3>1, <3>3 DEF HostKey
    <3>5. h \in Off
      BY <3>2, <3>4, OfflineForBoth
    <3>6. QED
      BY <3>1, <3>4, <3>5 DEF Keeps
  <2>3. CASE \E S \in {Cascaded} \ {{}} : m = HostKey("upstream_failure", S)
    <3>1. m \in HostKeys /\ m.rule = "upstream_failure"
      BY <2>3, OfflineHosts DEF HostKey, HostKeys, HostRules, Cascaded
    <3>2. QED
      BY <1>4, <3>1
  <2>4. QED
    BY <2>1, <2>2, <2>3 DEF HostDownFinds
<1>6. CASE p = "multi_host_down"
  <2>1. m \in MultiHostFinds
    BY <1>3, <1>6 DEF Finds
  <2>2. PICK S : /\ m = HostKey("multi_host_down", S)
                 /\ S \subseteq Primary /\ Cardinality(S) >= NetworkIssueMin
    BY <2>1 DEF MultiHostFinds, InSubnet, Scattered, Crowded
  <2>3. m \in HostKeys
    BY <1>1, <2>2, OfflineHosts DEF HostKey, HostKeys, HostRules
  <2>4. r.key.rule = "multi_host_down" /\ r.key.hosts = S
    BY <1>4, <2>2, <2>3 DEF HostKey
  <2>a. S \subseteq Off
    BY <1>1, <2>2, <2>4, OfflineForBoth
  <2>5. Cardinality(Off) >= NetworkIssueMin
    BY <2>2, <2>a, EnoughOffline
  <2>6. QED
    BY <2>4, <2>5 DEF Keeps
<1>7. CASE p = "integration_host"
  <2>1. m \in Integrations /\ RunsOn[m] \in On
    BY <1>3, <1>7 DEF Finds, IntegrationFinds, TypeOK
  <2>2. HitKey(m) = HostKey("integration_host", {RunsOn[m]}) /\ RunsOn[m] \in Hosts
    BY <2>1, OfflineHosts DEF HitKey
  <2>3. HitKey(m) \in HostKeys
    BY <2>2 DEF HostKey, HostKeys, HostRules
  <2>4. r.key = HostKey("integration_host", {RunsOn[m]})
    BY <1>3, <2>2, <2>3, DistinctAssumption DEF IncidentOf
  <2>5. r.key.rule = "integration_host" /\ r.key.hosts = {RunsOn[m]}
    BY <2>4 DEF HostKey
  <2>6. RunsOn[m] \in Off
    BY <2>1, <2>5, OfflineForBoth
  <2>7. QED
    BY <2>5, <2>6 DEF Keeps
<1>8. CASE p = "port_error"
  <2>1. m \in PortFinds
    BY <1>3, <1>8 DEF Finds
  <2>2. PICK h \in portErr : m = HostKey("port_error", {h})
    BY <2>1 DEF PortFinds
  <2>3. m \in HostKeys
    BY <2>2, CorrelationAssumption DEF HostKey, HostKeys, HostRules, TypeOK
  <2>4. QED
    BY <1>4, <2>2, <2>3 DEF HostKey, Keeps
<1>9. CASE p = "log_rules"
  <2>1. m \in Sources
    BY <1>3, <1>9 DEF Finds, TypeOK
  <2>2. HitKey(m) = SignalOf[m] /\ SignalOf[m] \in Signals
    BY <2>1, DistinctAssumption, CorrelationAssumption DEF HitKey
  <2>3. r.key.rule \in TimedRules
    BY <1>3, <2>2, CorrelationAssumption DEF IncidentOf
  <2>4. r.quiet < StaleAfter
    BY StoreAssumption
  <2>5. QED
    BY <2>3, <2>4 DEF Keeps
<1>10. QED
  BY <1>5, <1>6, <1>7, <1>8, <1>9 DEF Rules

\* For any two thresholds: no run closes an incident it has updated and whose rule
\* still holds for hosts that have failed as often as both ask, upstream failures
\* apart (correlation.py run_correlation, _auto_resolve).
THEOREM RaisesSurvive == Spec => RaisedSurvivesRun
<1>1. ASSUME TypeOK, [Next]_vars, NEW i \in Slots,
             pc = "resolve" /\ pc' = "commit",
             View(i).key.rule # "upstream_failure" /\ IsActive(View(i)),
             View(i).quiet = 0 /\ Found(View(i).key) /\ DownForBoth(View(i).key)
      PROVE  IsActive(View(i))'
  <2>1. AutoResolve
    BY <1>1
       DEF Next, Engine, StartRun, NextRule, RuleAfter, Rules, HoldBack, Refresh,
           Create, Handle, FailOnDuplicate, RollBack, CommitFleet, Commit, Fail,
           Restart, Edit, World, vars, engineVars
  <2>2. i \notin Cleared
    BY <1>1, ViewType, FoundIsKept DEF Cleared
  <2>3. work'[i] = work[i] /\ rows' = rows /\ (i \in dirty' <=> i \in dirty)
    BY <2>1, <2>2 DEF AutoResolve, storeVars
  <2>4. View(i)' = View(i)
    BY <2>3 DEF View
  <2>5. QED
    BY <1>1, <2>4 DEF IsActive
<1>2. TypeOK /\ [Next]_vars
        => [\A i \in Slots :
              /\ pc = "resolve" /\ pc' = "commit"
              /\ View(i).key.rule # "upstream_failure" /\ IsActive(View(i))
              /\ View(i).quiet = 0 /\ Found(View(i).key) /\ DownForBoth(View(i).key)
              => IsActive(View(i))']_vars
  BY <1>1
<1>3. QED
  BY <1>2, TypeCorrect, PTL DEF Spec, RaisedSurvivesRun

-----------------------------------------------------------------------------
(* Matches are counted, runs are what they stand for.                       *)

\* The rule that counts under a key, and its turn in the run.
RuleOf(k) ==
  IF k \in Signals THEN "log_rules"
  ELSE IF k.rule = "upstream_failure" THEN "host_down_syslog" ELSE k.rule

Turn == [host_down_syslog |-> 1, multi_host_down |-> 2, integration_host |-> 3,
         port_error |-> 4, log_rules |-> 5, resolve |-> 6]

\* The matches still to be handled that are counted under key k.
Left(k) == {m \in todo : HitKey(m) = k}

\* Of a key this run has seen, what it may still be counted up by.
Owed(k) == IF k \in seen THEN Cardinality(Left(k)) ELSE 0

\* The counter of a key, with what this run may still add to it, is at most the
\* number of runs that saw it times the matches that share it.
Backed(k) ==
  \/ Count(runs, k) = MinCycles
  \/ Count(hits, k) + Owed(k) =< Count(runs, k) * Cardinality(Sharers(k))

\* Every counter is backed. What is still to be handled belongs to the rule in
\* turn, and what has been seen to it or to the rules before it.
EarnInv ==
  /\ \A k \in HitKeys : Backed(k)
  /\ seen \subseteq DOMAIN runs
  /\ pc \in Rules => \A m \in todo : RuleOf(HitKey(m)) = pc /\ m \in Sharers(HitKey(m))
  /\ pc \notin Rules => todo = {}
  /\ pc \in Rules \union {"resolve"} =>
       \A k \in seen : RuleOf(k) \in Rules /\ Turn[RuleOf(k)] =< Turn[pc]

\* A host key is counted as it is.
LEMMA HostKeyIsKey ==
  ASSUME NEW m \in HostKeys
  PROVE  HitKey(m) = m /\ m \notin Signals
BY DistinctAssumption DEF HitKey

\* Finitely many matches share a key.
LEMMA SharersFinite ==
  ASSUME NEW k
  PROVE  IsFiniteSet(Sharers(k)) /\ Cardinality(Sharers(k)) \in Nat
<1>1. IsFiniteSet({s \in Sources : SignalOf[s] = k})
  BY CorrelationAssumption, FS_Subset
<1>2. IsFiniteSet({g \in Integrations : {RunsOn[g]} = k.hosts})
  BY CorrelationAssumption, FS_Subset
<1>3. IsFiniteSet({k})
  BY FS_Singleton
<1>4. IsFiniteSet(Sharers(k))
  BY <1>1, <1>2, <1>3 DEF Sharers
<1>5. QED
  BY <1>4, FS_CardinalityType

\* What a rule finds is counted under keys of that rule, and shares them.
LEMMA FindsOfRule ==
  ASSUME TypeOK, NEW r \in Rules \union {"resolve"}, NEW m \in Finds(r)
  PROVE  RuleOf(HitKey(m)) = r /\ m \in Sharers(HitKey(m))
<1>2. CASE r = "integration_host"
  <2>1. m \in Integrations
    BY <1>2 DEF Finds, IntegrationFinds, TypeOK
  <2>2. /\ HitKey(m) = HostKey("integration_host", {RunsOn[m]})
        /\ HitKey(m) \in HostKeys /\ HitKey(m).rule = "integration_host"
        /\ HitKey(m).hosts = {RunsOn[m]}
    BY <2>1, CorrelationAssumption DEF HitKey, HostKey, HostKeys, HostRules
  <2>3. HitKey(m) \notin Signals
    BY <2>2, DistinctAssumption
  <2>4. QED
    BY <1>2, <2>1, <2>2, <2>3 DEF RuleOf, Sharers
<1>3. CASE r = "log_rules"
  <2>1. m \in Sources
    BY <1>3 DEF Finds, TypeOK
  <2>2. HitKey(m) = SignalOf[m] /\ SignalOf[m] \in Signals
    BY <2>1, DistinctAssumption, CorrelationAssumption DEF HitKey
  <2>3. QED
    BY <1>3, <2>1, <2>2 DEF RuleOf, Sharers
<1>4. CASE r \notin {"integration_host", "log_rules"}
  <2>1. /\ m \in HostKeys
        /\ r = IF m.rule = "upstream_failure" THEN "host_down_syslog" ELSE m.rule
    <3>1. CASE r = "host_down_syslog"
      <4>1. m \in HostDownFinds
        BY <3>1 DEF Finds
      <4>2. PICK S : m = HostKey("host_down_syslog", S) \/ m = HostKey("upstream_failure", S)
        BY <4>1 DEF HostDownFinds
      <4>3. m.rule \in {"host_down_syslog", "upstream_failure"}
        BY <4>2 DEF HostKey
      <4>4. m \in HostKeys
        <5>1. Primary \subseteq Hosts /\ Cascaded \subseteq Hosts
          BY OfflineHosts DEF Primary, Cascaded
        <5>2. QED
          BY <4>1, <5>1 DEF HostDownFinds, HostKey, HostKeys, HostRules
      <4>5. QED
        BY <3>1, <4>3, <4>4 DEF HostRules
    <3>2. CASE r = "multi_host_down"
      <4>1. m \in MultiHostFinds
        BY <3>2 DEF Finds
      <4>2. PICK S \in SUBSET Hosts : m = HostKey("multi_host_down", S)
        BY <4>1, OfflineHosts DEF MultiHostFinds, InSubnet, Scattered, Primary
      <4>3. QED
        BY <3>2, <4>2 DEF HostKey, HostKeys, HostRules
    <3>3. CASE r = "port_error"
      <4>1. PICK h \in portErr : m = HostKey("port_error", {h})
        BY <3>3 DEF Finds, PortFinds
      <4>2. QED
        BY <3>3, <4>1, CorrelationAssumption DEF HostKey, HostKeys, HostRules, TypeOK
    <3>4. CASE r = "resolve"
      BY <3>4 DEF Finds
    <3>5. QED
      BY <1>4, <3>1, <3>2, <3>3, <3>4 DEF Rules
  <2>2. HitKey(m) = m /\ m \notin Signals
    BY <2>1, HostKeyIsKey
  <2>3. m.rule # "integration_host"
    BY <1>4, <2>1
  <2>4. QED
    BY <2>1, <2>2, <2>3 DEF RuleOf, Sharers
<1>5. QED
  BY <1>2, <1>3, <1>4

\* The matches left to a rule are among those that share the key.
LEMMA LeftShare ==
  ASSUME EarnInv, pc \in Rules, NEW k
  PROVE  /\ IsFiniteSet(Left(k)) /\ Cardinality(Left(k)) \in Nat
         /\ Cardinality(Left(k)) =< Cardinality(Sharers(k))
<1>1. Left(k) \subseteq Sharers(k)
  BY DEF EarnInv, Left
<1>2. QED
  BY <1>1, SharersFinite, FS_Subset, FS_CardinalityType

\* A rule that starts finds nothing it has counted already in this run.
LEMMA RuleStarts ==
  ASSUME TypeOK, EarnInv, StartRun \/ NextRule
  PROVE  EarnInv'
<1>1. hits' = hits /\ runs' = runs /\ seen' = seen /\ seen \subseteq HitKeys
  BY DEF StartRun, NextRule, TypeOK
<1>2. pc' \in Rules \union {"resolve"} /\ todo' = Finds(pc')
  BY DEF StartRun, NextRule, Rules, RuleAfter
<1>3. ASSUME NEW k \in seen
      PROVE  RuleOf(k) \in Rules /\ Turn[RuleOf(k)] < Turn[pc']
  <2>1. NextRule /\ pc \in Rules /\ pc' = RuleAfter(pc)
    BY <1>3 DEF StartRun, NextRule, TypeOK
  <2>2. RuleOf(k) \in Rules /\ Turn[RuleOf(k)] =< Turn[pc]
    BY <1>3, <2>1 DEF EarnInv
  <2>3. QED
    BY <2>1, <2>2 DEF Rules, RuleAfter, Turn
<1>4. \A m \in todo' : RuleOf(HitKey(m)) = pc' /\ m \in Sharers(HitKey(m))
  BY <1>2, FindsOfRule
<1>5. \A m \in todo' : HitKey(m) \notin seen
  <2>1. Turn[pc'] \in Nat
    BY <1>2 DEF Rules, Turn
  <2>2. QED
    BY <1>3, <1>4, <2>1
<1>6. \A k \in seen : RuleOf(k) \in Rules /\ Turn[RuleOf(k)] =< Turn[pc']
  <2>1. \A p \in Rules \union {"resolve"} : Turn[p] \in Nat
    BY DEF Rules, Turn
  <2>2. QED
    BY <1>2, <1>3, <2>1
<1>7. ASSUME NEW k \in HitKeys PROVE Backed(k)'
  <2>1. Backed(k)
    BY DEF EarnInv
  <2>2. CASE k \in seen
    <3>1. Left(k)' = {}
      BY <1>5, <2>2 DEF Left
    <3>2. todo = {}
      BY <2>2 DEF StartRun, NextRule, TypeOK
    <3>3. Left(k) = {}
      BY <3>2 DEF Left
    <3>4. Owed(k)' = Owed(k)
      BY <1>1, <3>1, <3>3 DEF Owed
    <3>5. QED
      BY <1>1, <2>1, <3>4 DEF Backed
  <2>3. CASE k \notin seen
    <3>1. Owed(k)' = Owed(k)
      BY <1>1, <2>3 DEF Owed
    <3>2. QED
      BY <1>1, <2>1, <3>1 DEF Backed
  <2>4. QED
    BY <2>2, <2>3
<1>8. pc' \notin Rules => todo' = {}
  BY <1>2 DEF Finds, Rules
<1>9. QED
  BY <1>1, <1>2, <1>4, <1>6, <1>7, <1>8 DEF EarnInv

\* What a counter shows after a key was counted up.
LEMMA CountAfter ==
  ASSUME NEW f, NEW k, NEW j
  PROVE  Count(CountedUp(f, k), j) =
           IF j = k THEN IF Count(f, k) < MinCycles THEN Count(f, k) + 1 ELSE MinCycles
           ELSE Count(f, j)
BY DEF Count, CountedUp

\* The counters are numbers up to MinCycles.
LEMMA CountTypes ==
  ASSUME TypeOK, NEW k
  PROVE  Count(hits, k) \in 0..MinCycles /\ Count(runs, k) \in 0..MinCycles
BY CorrelationAssumption DEF TypeOK, Count

\* Counting key k once for match m, whatever is left of the run afterwards.
LEMMA CountKeepsBacked ==
  ASSUME TypeOK, EarnInv, pc \in Rules, NEW m \in todo,
         hits' = CountedUp(hits, HitKey(m)),
         runs' = IF HitKey(m) \in seen THEN runs ELSE CountedUp(runs, HitKey(m)),
         NEW j \in HitKeys, NEW rest \in Nat,
         rest =< IF j = HitKey(m) THEN Cardinality(Left(j)) - 1 ELSE Owed(j)
  PROVE  \/ Count(runs', j) = MinCycles
         \/ Count(hits', j) + rest =< Count(runs', j) * Cardinality(Sharers(j))
<1> DEFINE k == HitKey(m)
           N == Cardinality(Sharers(j))
           H == Count(hits, j)
           R == Count(runs, j)
<1>1. Backed(j)
  BY DEF EarnInv
<1>2. N \in Nat /\ H \in 0..MinCycles /\ R \in 0..MinCycles /\ MinCycles \in Nat
  BY SharersFinite, CountTypes, CorrelationAssumption
<1>3. CASE j # k
  <2>1. Count(hits', j) = H /\ Count(runs', j) = R
    BY <1>3, CountAfter
  <2>2. Owed(j) \in Nat /\ R * N \in Nat
    <3>1. Owed(j) \in Nat
      BY LeftShare DEF Owed
    <3>2. QED
      BY <3>1, <1>2
  <2>3. rest =< Owed(j)
    BY <1>3
  <2>4. R = MinCycles \/ H + Owed(j) =< R * N
    BY <1>1 DEF Backed
  <2> HIDE DEF k, N, H, R
  <2>5. R = MinCycles \/ H + rest =< R * N
    BY <1>2, <2>2, <2>3, <2>4
  <2>6. QED
    BY <2>1, <2>5 DEF N
<1>4. CASE j = k
  <2>1. Count(hits', j) = IF H < MinCycles THEN H + 1 ELSE MinCycles
    BY <1>4, CountAfter
  <2>2. Cardinality(Left(j)) \in Nat /\ Cardinality(Left(j)) =< N
    BY LeftShare
  <2>3. rest =< Cardinality(Left(j)) - 1
    BY <1>4
  <2>4. CASE k \in seen
    <3>1. Count(runs', j) = R
      BY <2>4
    <3>2. Owed(j) = Cardinality(Left(j))
      BY <1>4, <2>4 DEF Owed
    <3>3. R = MinCycles \/ H + Cardinality(Left(j)) =< R * N
      BY <1>1, <3>2 DEF Backed
    <3>4. R * N \in Nat
      BY <1>2
    <3> DEFINE L == Cardinality(Left(j))
               P == R * N
               G == Count(hits', j)
    <3>5. /\ R = MinCycles \/ H + L =< P
          /\ P \in Nat /\ L \in Nat /\ rest =< L - 1
          /\ G = IF H < MinCycles THEN H + 1 ELSE MinCycles
      BY <2>1, <2>2, <2>3, <3>3, <3>4
    <3>6. R = MinCycles \/ G + rest =< P
      <4> HIDE DEF L, P, G, H, R, N, k
      <4>1. QED
        BY <3>5, <1>2
    <3>7. QED
      BY <3>1, <3>6
  <2>5. CASE k \notin seen
    <3>1. Count(runs', j) = IF R < MinCycles THEN R + 1 ELSE MinCycles
      BY <1>4, <2>5, CountAfter
    <3>2. Owed(j) = 0
      BY <1>4, <2>5 DEF Owed
    <3>3. R = MinCycles \/ H =< R * N
      BY <1>1, <1>2, <3>2 DEF Backed
    <3>4. R * N \in Nat /\ (R + 1) * N = R * N + N
      <4> HIDE DEF k, N, H, R
      <4>1. QED
        BY <1>2
    <3> DEFINE L == Cardinality(Left(j))
               P == R * N
               G == Count(hits', j)
    <3>5. /\ R = MinCycles \/ H =< P
          /\ P \in Nat /\ L \in Nat /\ L =< N /\ rest =< L - 1
          /\ G = IF H < MinCycles THEN H + 1 ELSE MinCycles
      BY <2>1, <2>2, <2>3, <3>3, <3>4
    <3>6. R = MinCycles \/ G + rest =< P + N
      <4> HIDE DEF L, P, G, H, R, N, k
      <4>1. QED
        BY <3>5, <1>2
    <3>7. CASE R < MinCycles
      <4>1. Count(runs', j) = R + 1 /\ Count(runs', j) * N = P + N
        BY <3>1, <3>4, <3>7
      <4>2. R # MinCycles
        BY <1>2, <3>7
      <4>3. QED
        BY <3>6, <4>1, <4>2
    <3>8. CASE ~(R < MinCycles)
      BY <3>1, <3>8
    <3>9. QED
      BY <3>7, <3>8
  <2>6. QED
    BY <2>4, <2>5
<1>5. QED
  BY <1>3, <1>4

\* Of the matches left for a key, one is handled.
LEMMA LeftAfter ==
  ASSUME EarnInv, pc \in Rules, NEW m \in todo, todo' = todo \ {m}, NEW j
  PROVE  Cardinality(Left(j)') =
           IF j = HitKey(m) THEN Cardinality(Left(j)) - 1 ELSE Cardinality(Left(j))
<1>1. CASE j = HitKey(m)
  <2>1. Left(j)' = Left(j) \ {m} /\ m \in Left(j)
    BY <1>1 DEF Left
  <2>2. QED
    BY <1>1, <2>1, LeftShare, FS_RemoveElement
<1>2. CASE j # HitKey(m)
  <2>1. Left(j)' = Left(j)
    BY <1>2 DEF Left
  <2>2. QED
    BY <1>2, <2>1
<1>3. QED
  BY <1>1, <1>2

\* A match that is handled leaves every counter backed.
LEMMA MatchCounts ==
  ASSUME TypeOK, EarnInv, NEW m \in todo, Handle(m)
  PROVE  EarnInv' /\ pc \in Rules
<1> DEFINE k == HitKey(m)
<1>1. /\ pc \in Rules /\ pc' = pc /\ todo' = todo \ {m} /\ seen' = seen \union {k}
      /\ hits' = CountedUp(hits, k)
      /\ runs' = IF k \in seen THEN runs ELSE CountedUp(runs, k)
  BY DEF Handle, TrackRuleHit
<1>2. ASSUME NEW j \in HitKeys PROVE Backed(j)'
  <2>1. Cardinality(Left(j)') =
          IF j = k THEN Cardinality(Left(j)) - 1 ELSE Cardinality(Left(j))
    BY <1>1, LeftAfter
  <2>2. Owed(j)' = IF j = k THEN Cardinality(Left(j)) - 1 ELSE Owed(j)
    BY <1>1, <2>1 DEF Owed
  <2>3. Owed(j)' \in Nat
    <3>1. CASE j = k
      <4>1. m \in Left(j)
        BY <3>1 DEF Left
      <4>2. Cardinality(Left(j)) # 0
        BY <4>1, <1>1, LeftShare, FS_EmptySet
      <4>3. QED
        BY <2>2, <3>1, <4>2, <1>1, LeftShare
    <3>2. CASE j # k
      BY <2>2, <3>2, <1>1, LeftShare DEF Owed
    <3>3. QED
      BY <3>1, <3>2
  <2>4. PICK rest \in Nat : rest = Owed(j)'
    BY <2>3
  <2>5. rest =< IF j = k THEN Cardinality(Left(j)) - 1 ELSE Owed(j)
    BY <2>2, <2>4
  <2>6. \/ Count(runs', j) = MinCycles
        \/ Count(hits', j) + rest =< Count(runs', j) * Cardinality(Sharers(j))
    BY <1>1, <2>5, CountKeepsBacked
  <2>7. QED
    BY <2>4, <2>6 DEF Backed
<1>3. seen' \subseteq DOMAIN runs'
  BY <1>1 DEF EarnInv, CountedUp
<1>4. \A n \in todo' : RuleOf(HitKey(n)) = pc' /\ n \in Sharers(HitKey(n))
  BY <1>1 DEF EarnInv
<1>5. \A q \in seen' : RuleOf(q) \in Rules /\ Turn[RuleOf(q)] =< Turn[pc']
  <2>1. Turn[pc] \in Nat /\ RuleOf(k) = pc
    BY <1>1 DEF Rules, Turn, EarnInv
  <2>2. QED
    BY <1>1, <2>1 DEF EarnInv
<1>6. QED
  BY <1>1, <1>2, <1>3, <1>4, <1>5 DEF EarnInv

\* Counters of a run that has ended or was rolled back are still backed.
LEMMA EndKeepsBacked ==
  ASSUME TypeOK, EarnInv, NEW j \in HitKeys
  PROVE  \/ Count(runs, j) = MinCycles
         \/ Count(hits, j) =< Count(runs, j) * Cardinality(Sharers(j))
<1> DEFINE P == Count(runs, j) * Cardinality(Sharers(j))
<1>1. Count(runs, j) = MinCycles \/ Count(hits, j) + Owed(j) =< P
  BY DEF EarnInv, Backed
<1>2. Owed(j) \in Nat
  <2>1. CASE pc \in Rules
    BY <2>1, LeftShare DEF Owed
  <2>2. CASE pc \notin Rules
    <3>1. Left(j) = {}
      BY <2>2 DEF EarnInv, Left
    <3>2. QED
      BY <3>1, FS_EmptySet DEF Owed
  <2>3. QED
    BY <2>1, <2>2
<1>3. Count(hits, j) \in Nat /\ P \in Nat
  BY CountTypes, SharersFinite, CorrelationAssumption
<1>4. Count(hits, j) + Owed(j) =< P => Count(hits, j) =< P
  <2> HIDE DEF P
  <2>1. QED
    BY <1>2, <1>3
<1>5. QED
  BY <1>1, <1>4

\* Counters that are backed stay so when a run ends, drops some, or forgets all.
LEMMA RunEnds ==
  ASSUME TypeOK, EarnInv, todo' = {}, seen' = {}, pc' \notin Rules,
         \A j \in HitKeys :
           \/ Count(hits', j) = 0 /\ Count(runs', j) = 0
           \/ Count(hits', j) = Count(hits, j) /\ Count(runs', j) = Count(runs, j)
  PROVE  EarnInv'
<1>1. ASSUME NEW j \in HitKeys PROVE Backed(j)'
  <2>1. Owed(j)' = 0
    BY DEF Owed
  <2>2. Count(hits', j) \in Nat
    BY CountTypes
  <2>3. CASE Count(hits', j) = 0 /\ Count(runs', j) = 0
    <3>1. 0 * Cardinality(Sharers(j)) = 0
      BY SharersFinite
    <3>2. QED
      BY <2>1, <2>3, <3>1 DEF Backed
  <2>4. CASE Count(hits', j) = Count(hits, j) /\ Count(runs', j) = Count(runs, j)
    BY <2>1, <2>2, <2>4, EndKeepsBacked DEF Backed
  <2>5. QED
    BY <2>3, <2>4
<1>2. QED
  BY <1>1 DEF EarnInv

\* Every step leaves the counters backed.
LEMMA EarnStep ==
  ASSUME TypeOK, EarnInv, [Next]_vars
  PROVE  EarnInv'
<1>1. CASE StartRun \/ NextRule
  BY <1>1, RuleStarts
<1>2. ASSUME NEW m \in todo, HoldBack(m) \/ Refresh(m) \/ Create(m) PROVE EarnInv'
  BY <1>2, MatchCounts DEF HoldBack, Refresh, Create
<1>3. ASSUME NEW m \in todo, FailOnDuplicate(m) PROVE EarnInv'
  <2>1. /\ pc \in Rules /\ todo' = {} /\ seen' = {} /\ pc' = "idle"
        /\ hits' = CountedUp(hits, HitKey(m))
        /\ runs' = IF HitKey(m) \in seen THEN runs ELSE CountedUp(runs, HitKey(m))
    BY <1>3 DEF FailOnDuplicate, RollBack
  <2>2. ASSUME NEW j \in HitKeys PROVE Backed(j)'
    <3>1. 0 =< IF j = HitKey(m) THEN Cardinality(Left(j)) - 1 ELSE Owed(j)
      <4>1. CASE j = HitKey(m)
        <5>1. Cardinality(Left(j)) # 0
          BY <4>1, <2>1, LeftShare, FS_EmptySet DEF Left
        <5>2. QED
          BY <4>1, <5>1, <2>1, LeftShare
      <4>2. CASE j # HitKey(m)
        BY <4>2, <2>1, LeftShare DEF Owed
      <4>3. QED
        BY <4>1, <4>2
    <3>2. \/ Count(runs', j) = MinCycles
          \/ Count(hits', j) + 0 =< Count(runs', j) * Cardinality(Sharers(j))
      BY <2>1, <3>1, CountKeepsBacked
    <3>3. Owed(j)' = 0
      BY <2>1 DEF Owed
    <3>4. QED
      BY <3>2, <3>3 DEF Backed
  <2>3. QED
    BY <2>1, <2>2 DEF EarnInv, Rules
<1>4. CASE Fail \/ Restart
  <2>1. todo' = {} /\ seen' = {} /\ pc' = "idle"
        /\ ((hits' = hits /\ runs' = runs) \/ (hits' = NoHits /\ runs' = NoHits))
    BY <1>4 DEF Fail, Restart, RollBack
  <2>2. ASSUME NEW j PROVE Count(NoHits, j) = 0
    <3>1. j \notin DOMAIN NoHits
      BY NoHitsType
    <3>2. QED
      BY <3>1 DEF Count
  <2>3. ASSUME NEW j \in HitKeys
        PROVE  \/ Count(hits', j) = 0 /\ Count(runs', j) = 0
               \/ Count(hits', j) = Count(hits, j) /\ Count(runs', j) = Count(runs, j)
    BY <2>1, <2>2
  <2>4. QED
    BY <2>1, <2>3, RunEnds DEF Rules
<1>5. CASE AutoResolve
  <2>1. /\ todo' = todo /\ seen' = {} /\ pc' = "commit" /\ pc = "resolve"
        /\ hits' = Pruned /\ runs' = [k \in DOMAIN runs \intersect seen |-> runs[k]]
    BY <1>5 DEF AutoResolve
  <2>2. todo = {}
    BY <2>1 DEF EarnInv, Rules
  <2>3. ASSUME NEW j \in HitKeys
        PROVE  \/ Count(hits', j) = 0 /\ Count(runs', j) = 0
               \/ Count(hits', j) = Count(hits, j) /\ Count(runs', j) = Count(runs, j)
    BY <2>1 DEF Count, Pruned
  <2>4. QED
    BY <2>1, <2>2, <2>3, RunEnds DEF Rules
<1>6. CASE Commit
  <2>1. hits' = hits /\ runs' = runs /\ todo' = todo /\ seen' = seen
        /\ pc' = "idle" /\ pc = "commit"
    BY <1>6 DEF Commit
  <2>2. todo = {} /\ seen = {}
    BY <2>1 DEF EarnInv, Rules, TypeOK
  <2>3. QED
    BY <2>1, <2>2, RunEnds DEF Rules
<1>7. CASE CommitFleet \/ Edit \/ World \/ UNCHANGED vars
  <2>1. UNCHANGED <<hits, runs, todo, seen, pc>>
    BY <1>7 DEF CommitFleet, Edit, World, engineVars, vars
  <2>2. ASSUME NEW j PROVE Backed(j)' <=> Backed(j)
    <3>1. Left(j)' = Left(j)
      BY <2>1 DEF Left
    <3>2. Owed(j)' = Owed(j)
      BY <2>1, <3>1 DEF Owed
    <3>3. QED
      BY <2>1, <3>2 DEF Backed
  <2>3. QED
    BY <2>1, <2>2 DEF EarnInv
<1>8. QED
  BY <1>1, <1>2, <1>3, <1>4, <1>5, <1>6, <1>7 DEF Next, Engine

\* A new row comes of a match that is confirmed.
LEMMA CreationIsConfirmed ==
  ASSUME TypeOK, EarnInv, [Next]_vars, NEW i \in Slots, Creates(i)
  PROVE  \E k \in seen' : /\ IncidentOf(k) = work'[i].key
                          /\ runs'[k] * Cardinality(Sharers(k)) >= MinCycles
<1>1. i \notin dirty /\ i \in dirty' /\ ~IsActive(rows[i]) /\ View(i) = rows[i]
  BY DEF Creates, View
<1>2. ASSUME NEW m \in todo, Refresh(m) PROVE FALSE
  <2>1. PICK j \in Slots : ActiveFor(IncidentOf(HitKey(m))) = {j} /\ Write(j, Updated(View(j)))
    BY <1>2 DEF Refresh
  <2>2. j = i
    BY <1>1, <2>1 DEF Write
  <2>3. QED
    BY <1>1, <2>1, <2>2 DEF ActiveFor
<1>3. ~AutoResolve
  BY <1>1 DEF AutoResolve, Cleared
<1>4. PICK m \in todo : Create(m)
  <2>1. dirty' # dirty /\ dirty' # {}
    BY <1>1
  <2>2. ~(StartRun \/ NextRule \/ Edit \/ World \/ UNCHANGED vars \/ \E m \in todo : HoldBack(m))
    BY <2>1 DEF StartRun, NextRule, HoldBack, Edit, World, vars, engineVars
  <2>3. ~(Fail \/ Restart \/ CommitFleet \/ Commit \/ \E m \in todo : FailOnDuplicate(m))
    BY <2>1 DEF Fail, Restart, CommitFleet, Commit, Committed, FailOnDuplicate, RollBack, DiscardWork
  <2>4. Engine
    BY <2>2, <2>3 DEF Next
  <2>5. PICK m \in todo : HoldBack(m) \/ Refresh(m) \/ Create(m) \/ FailOnDuplicate(m)
    BY <1>3, <2>2, <2>3, <2>4 DEF Engine
  <2>6. ~HoldBack(m) /\ ~FailOnDuplicate(m) /\ ~Refresh(m)
    BY <1>2, <2>2, <2>3
  <2>7. QED
    BY <2>5, <2>6
<1> DEFINE k == HitKey(m)
<1>5. /\ Count(hits, k) + 1 >= MinCycles /\ k \in seen' /\ pc \in Rules
      /\ hits' = CountedUp(hits, k)
  BY <1>4 DEF Create, Confirmed, Handle, TrackRuleHit
<1>a. EarnInv' /\ k \in HitKeys
  BY <1>4, MatchCounts, HitKeyType DEF Create, TypeOK
<1>6. work'[i].key = IncidentOf(k)
  <2>1. PICK j \in Slots : Write(j, NewRow(IncidentOf(k)))
    BY <1>4 DEF Create
  <2>2. j = i
    BY <1>1, <2>1 DEF Write
  <2>3. work'[i] = NewRow(IncidentOf(k))
    BY <2>1, <2>2 DEF Write, TypeOK
  <2>4. QED
    BY <2>3 DEF NewRow
<1>7. runs'[k] * Cardinality(Sharers(k)) >= MinCycles
  <2> DEFINE N == Cardinality(Sharers(k))
  <2>1. Count(hits, k) \in 0..MinCycles /\ MinCycles \in Nat
    BY CountTypes, CorrelationAssumption
  <2>2. Count(hits', k) = MinCycles
    BY <1>5, <2>1, CountAfter
  <2>3. Count(runs', k) = runs'[k]
    BY <1>5, <1>a DEF EarnInv, Count
  <2>4. N \in Nat /\ N >= 1
    <3>1. m \in Sharers(k)
      BY <1>5 DEF EarnInv
    <3>2. Cardinality(Sharers(k)) # 0
      BY <3>1, SharersFinite, FS_EmptySet
    <3>3. QED
      BY <3>2, SharersFinite
  <2>5. PICK o \in Nat : o = Owed(k)'
    <3>1. pc' \in Rules /\ todo' = todo \ {m}
      BY <1>4 DEF Create, Handle
    <3>2. Cardinality(Left(k)') = Cardinality(Left(k)) - 1
      BY <3>1, <1>5, LeftAfter
    <3>3. m \in Left(k)
      BY DEF Left
    <3>4. Cardinality(Left(k)) # 0
      BY <3>3, <1>5, LeftShare, FS_EmptySet
    <3>5. Cardinality(Left(k)') \in Nat
      BY <3>2, <3>4, <1>5, LeftShare
    <3>6. QED
      BY <3>5, <1>5 DEF Owed
  <2>6. runs'[k] = MinCycles \/ MinCycles + o =< runs'[k] * N
    BY <1>a, <2>2, <2>3, <2>5 DEF EarnInv, Backed
  <2>7. runs'[k] \in Nat
    <3>1. Count(runs, k) \in 0..MinCycles /\ (runs' = runs \/ runs' = CountedUp(runs, k))
      BY <1>4, CountTypes DEF Create, Handle, TrackRuleHit
    <3>2. Count(runs', k) \in Nat
      BY <2>1, <3>1, CountAfter
    <3>3. QED
      BY <2>3, <3>2
  <2>8. CASE runs'[k] = MinCycles
    <3>1. MinCycles * N >= MinCycles
      <4> HIDE DEF N
      <4>1. QED
        BY <2>1, <2>4
    <3>2. QED
      BY <2>8, <3>1
  <2>9. CASE MinCycles + o =< runs'[k] * N
    <3>1. runs'[k] * N \in Nat
      BY <2>4, <2>7
    <3> DEFINE P == runs'[k] * N
    <3>2. P \in Nat /\ MinCycles + o =< P
      BY <2>9, <3>1
    <3>3. P >= MinCycles
      <4> HIDE DEF P
      <4>1. QED
        BY <2>1, <2>5, <3>2
    <3>4. QED
      BY <3>3
  <2>10. QED
    BY <2>6, <2>8, <2>9
<1>8. QED
  BY <1>5, <1>6, <1>7

\* For any hosts, rules and settings, and however many matches share a counter:
\* an incident is raised only when its rule has matched in so many runs, with no
\* completed run between them that it did not match in, that their number times
\* the sharers makes min_cycles; failures, restarts and editors included
\* (correlation.py _track_rule_hit).
THEOREM RaisesAreEarned == Spec => RaisedAfterMinCycles
<1>1. Init => EarnInv
  <2>1. SUFFICES ASSUME Init PROVE EarnInv
    OBVIOUS
  <2>2. hits = NoHits /\ runs = NoHits /\ seen = {} /\ todo = {} /\ pc = "idle"
    BY <2>1 DEF Init
  <2>3. ASSUME NEW j \in HitKeys PROVE Backed(j)
    <3>1. Count(hits, j) = 0 /\ Count(runs, j) = 0 /\ Owed(j) = 0
      BY <2>2, NoHitsType DEF Count, Owed
    <3>2. 0 * Cardinality(Sharers(j)) = 0
      BY SharersFinite
    <3>3. QED
      BY <3>1, <3>2 DEF Backed
  <2>4. QED
    BY <2>2, <2>3 DEF EarnInv, Rules
<1>2. TypeOK /\ EarnInv /\ [Next]_vars => EarnInv'
  BY EarnStep
<1>3. TypeOK /\ EarnInv /\ [Next]_vars
        => [CreatesEarned]_vars
  BY CreationIsConfirmed DEF CreatesEarned
<1>4. QED
  BY <1>1, <1>2, <1>3, TypeCorrect, PTL DEF Spec, RaisedAfterMinCycles
=============================================================================
