---------------------------- MODULE Correlation ----------------------------
(***************************************************************************)
(* The correlation engine (backend/services/correlation.py): every 60 s    *)
(* one run evaluates the rules in order, raises or refreshes incidents,    *)
(* resolves those whose condition is gone, and commits.  The fleet rule    *)
(* calls a detector that commits the run's session in the middle, so an    *)
(* exception rolls back only what was written after that.  Editors work on *)
(* the same rows meanwhile, and the process may restart.                   *)
(***************************************************************************)
EXTENDS IncidentStore

CONSTANTS
  NoHost,        \* a host without an upstream device
  Parent,        \* topology: the device a host hangs on, or NoHost
  Subnet,        \* the /24 of a host
  Chatty,        \* hosts whose error-level syslog reaches the server
  Ported,        \* hosts with service checks besides ICMP
  Serviced,      \* hosts an operator puts into maintenance
  Integrations,  \* enabled integration configs
  RunsOn,        \* the host an integration's config names
  Sources,       \* what the log-based rules find: templates, senders, hosts
  Signals,       \* the names under which they are counted
  SignalOf,      \* Source -> Signal: the key given to _track_rule_hit
  SignalKey,     \* Signal -> the incident it raises
  MinFailures,   \* setting correlation_min_failures
  MinCycles,     \* setting correlation_min_cycles
  AutoFailures,  \* the default min_failures that _auto_resolve uses
  MaxRestarts    \* bound: restarts of the process

FailCap == IF MinFailures > AutoFailures THEN MinFailures ELSE AutoFailures

ASSUME CorrelationAssumption ==
  /\ NoHost \notin Hosts
  /\ Parent \in [Hosts -> Hosts \union {NoHost}]
  /\ DOMAIN Subnet = Hosts
  /\ Chatty \subseteq Hosts /\ Ported \subseteq Hosts /\ Serviced \subseteq Hosts
  /\ RunsOn \in [Integrations -> Hosts]
  /\ IsFiniteSet(Integrations) /\ IsFiniteSet(Sources)
  /\ SignalOf \in [Sources -> Signals]
  /\ SignalKey \in [Signals -> [rule : TimedRules, hosts : SUBSET Hosts]]
  /\ MinFailures \in Nat \ {0}
  /\ MinCycles \in Nat \ {0}
  /\ AutoFailures \in Nat \ {0}
  /\ MaxRestarts \in Nat

VARIABLES
  (* the world, as the checks and the log store report it *)
  fails,     \* per host: how many of its latest pings in a row failed
  maint,     \* hosts in maintenance
  errs,      \* hosts with syslog severity <= 3 in the last 5 minutes
  portErr,   \* hosts with port_error set
  intDown,   \* integrations whose latest snapshot is not ok
  signal,    \* sources that currently satisfy their log-based rule
  (* the engine *)
  pc,        \* which rule the run is in, "idle" between runs
  todo,      \* matches of that rule not yet handled
  hits,      \* _rule_hit_counts (counts above MinCycles are not told apart)
  seen,      \* _current_cycle_hits
  work,      \* rows as the run's transaction has written them
  dirty,     \* which rows it has written
  restarts,
  (* history: in how many runs a key matched since a run completed without *)
  runs

worldVars  == <<fails, maint, errs, portErr, intDown, signal>>
engineVars == <<pc, todo, hits, seen, work, dirty, restarts, runs>>
vars == <<storeVars, worldVars, engineVars>>

-----------------------------------------------------------------------------
(* What the rules see.                                                     *)

\* _get_offline_hosts(db, n)
Offline(n) == {h \in Hosts \ maint : fails[h] >= n}

\* get_ancestors, for every host: the chain of parents, cut at a repetition.
Ancestors ==
  LET up[n \in 0..Cardinality(Hosts)] ==
        [h \in Hosts |->
           IF n = 0 \/ Parent[h] = NoHost THEN {}
           ELSE {Parent[h]} \union up[n - 1][Parent[h]]]
  IN  up[Cardinality(Hosts)]

\* filter_upstream_failures
Cascaded == {h \in Offline(MinFailures) :
               Ancestors[h] \intersect Offline(MinFailures) # {}}
Primary  == Offline(MinFailures) \ Cascaded

HostKey(rule, S) == [rule |-> rule, hosts |-> S]

NetworkIssueMin == 3

InSubnet(s) == {h \in Primary : Subnet[h] = s}
Crowded     == {s \in {Subnet[h] : h \in Hosts} :
                  Cardinality(InSubnet(s)) >= NetworkIssueMin}
Scattered   == {h \in Primary : Subnet[h] \notin Crowded}

\* The rules in the order run_correlation calls them; the log-based rules 4, 5
\* and 7 to 10 differ only in what they search for and are one phase.
Rules == {"host_down_syslog", "multi_host_down", "integration_host",
          "port_error", "log_rules"}

RuleAfter(r) ==
  CASE r = "host_down_syslog" -> "multi_host_down"
    [] r = "multi_host_down"  -> "integration_host"
    [] r = "integration_host" -> "port_error"
    [] r = "port_error"       -> "log_rules"
    [] r = "log_rules"        -> "resolve"

HostDownFinds ==
  {HostKey("host_down_syslog", {h}) : h \in Primary \intersect errs}
  \union {HostKey("upstream_failure", S) : S \in {Cascaded} \ {{}}}

MultiHostFinds ==
  {HostKey("multi_host_down", S) :
     S \in {InSubnet(s) : s \in Crowded}
           \union {T \in {Scattered} : Cardinality(T) >= NetworkIssueMin}}

IntegrationFinds == {g \in intDown : RunsOn[g] \in Offline(MinFailures)}

PortFinds == {HostKey("port_error", {h}) : h \in portErr \ maint}

\* The matches the rule finds now: keys, integrations or log sources.
Finds(r) ==
  CASE r = "host_down_syslog" -> HostDownFinds
    [] r = "multi_host_down"  -> MultiHostFinds
    [] r = "integration_host" -> IntegrationFinds
    [] r = "port_error"       -> PortFinds
    [] r = "log_rules"        -> signal
    [] r = "resolve"          -> {}

HostKeys == [rule : HostRules, hosts : SUBSET Hosts]

Matches == HostKeys \union Integrations \union Sources

\* The key under which a match is counted, and the incident it stands for.
HitKey(m) ==
  IF m \in Integrations THEN HostKey("integration_host", {RunsOn[m]})
  ELSE IF m \in Sources THEN SignalOf[m]
  ELSE m

HitKeys == HostKeys \union Signals

IncidentOf(k) == IF k \in Signals THEN SignalKey[k] ELSE k

\* Ids of different tables, and keys of different shapes, are different.
ASSUME DistinctAssumption ==
  /\ Integrations \intersect Sources = {}
  /\ (Integrations \union Sources \union Signals) \intersect HostKeys = {}

-----------------------------------------------------------------------------
(* The run's transaction.                                                  *)

\* A row as the run reads it: its own writes, else what is committed.
View(i) == IF i \in dirty THEN work[i] ELSE rows[i]

\* Mutant of ActiveFor: the lookup misses acknowledged incidents.
ActiveForOpenOnly(q) ==
  {i \in Slots : View(i).key = q /\ View(i).status = "open"}

ActiveFor(q) == {i \in Slots : View(i).key = q /\ IsActive(View(i))}

Write(i, r) ==
  /\ work' = [work EXCEPT ![i] = r]
  /\ dirty' = dirty \union {i}

NoWork == [i \in Slots |-> NoRow]

DiscardWork ==
  /\ work' = NoWork
  /\ dirty' = {}

NoHits == [k \in {} |-> 0]

Count(f, k) == IF k \in DOMAIN f THEN f[k] ELSE 0

CountedUp(f, k) ==
  [x \in DOMAIN f \union {k} |->
     IF x = k THEN IF Count(f, k) < MinCycles THEN Count(f, k) + 1 ELSE MinCycles
     ELSE f[x]]

-----------------------------------------------------------------------------
Init ==
  /\ StoreInit
  /\ fails = [h \in Hosts |-> 0]
  /\ maint = {} /\ errs = {} /\ portErr = {} /\ intDown = {} /\ signal = {}
  /\ pc = "idle" /\ todo = {}
  /\ hits = NoHits /\ seen = {} /\ runs = NoHits
  /\ work = NoWork /\ dirty = {}
  /\ restarts = 0

(***************************************************************************)
(* One run.                                                                *)
(***************************************************************************)

\* Mutant of Aged: the age of a row is never looked at.
AgedNever(r) == r

\* A period has passed without an update of a row that silence will close.
Aged(r) ==
  IF r.key.rule \in TimedRules /\ IsActive(r) /\ r.quiet < StaleAfter
  THEN [r EXCEPT !.quiet = @ + 1] ELSE r

StartRun ==
  /\ pc = "idle"
  /\ pc' = "host_down_syslog"
  /\ todo' = Finds("host_down_syslog")
  /\ rows' = [i \in Slots |-> Aged(rows[i])]
  /\ UNCHANGED <<held, worldVars, hits, seen, work, dirty, restarts, runs>>

NextRule ==
  /\ pc \in Rules
  /\ todo = {}
  /\ pc' = RuleAfter(pc)
  /\ todo' = Finds(RuleAfter(pc))
  /\ UNCHANGED <<storeVars, worldVars, hits, seen, work, dirty, restarts, runs>>

\* Mutant of TrackRuleHit: the key is counted but not marked as seen.
TrackRuleHitUnseen(k) ==
  /\ hits' = CountedUp(hits, k)
  /\ UNCHANGED seen
  /\ runs' = IF k \in seen THEN runs ELSE CountedUp(runs, k)

\* _track_rule_hit, and the history of the runs that saw the key.
TrackRuleHit(k) ==
  /\ hits' = CountedUp(hits, k)
  /\ seen' = seen \union {k}
  /\ runs' = IF k \in seen THEN runs ELSE CountedUp(runs, k)

Confirmed(k) == Count(hits, k) + 1 >= MinCycles

Handle(m) ==
  /\ pc \in Rules
  /\ m \in todo
  /\ todo' = todo \ {m}
  /\ TrackRuleHit(HitKey(m))
  /\ UNCHANGED <<storeVars, worldVars, pc, restarts>>

HoldBack(m) ==
  /\ ~Confirmed(HitKey(m))
  /\ Handle(m)
  /\ UNCHANGED <<work, dirty>>

\* _find_or_create_incident when an active incident is there ...
Refresh(m) ==
  /\ Confirmed(HitKey(m))
  /\ Handle(m)
  /\ \E i \in Slots :
       /\ ActiveFor(IncidentOf(HitKey(m))) = {i}
       /\ Write(i, Updated(View(i)))

\* ... when there is none ...
Create(m) ==
  /\ Confirmed(HitKey(m))
  /\ Handle(m)
  /\ ActiveFor(IncidentOf(HitKey(m))) = {}
  /\ \E i \in Slots \ dirty :
       /\ rows[i].status = "absent"
       /\ Write(i, NewRow(IncidentOf(HitKey(m))))

RollBack ==
  /\ pc' = "idle"
  /\ todo' = {}
  /\ seen' = {}
  /\ DiscardWork

\* ... and when there are several: scalar_one_or_none raises, after the hit
\* was counted.
FailOnDuplicate(m) ==
  /\ pc \in Rules
  /\ m \in todo
  /\ Confirmed(HitKey(m))
  /\ \E i, j \in ActiveFor(IncidentOf(HitKey(m))) : i # j
  /\ hits' = CountedUp(hits, HitKey(m))
  /\ runs' = IF HitKey(m) \in seen THEN runs ELSE CountedUp(runs, HitKey(m))
  /\ RollBack
  /\ UNCHANGED <<storeVars, worldVars, restarts>>

\* Mutant of Keeps: a network issue needs more hosts to stay open than to be
\* raised.
KeepsMoreHosts(r) ==
  \/ r.key.rule \in TimedRules /\ r.quiet < StaleAfter
  \/ r.key.rule \in {"host_down_syslog", "integration_host"}
       /\ r.key.hosts \subseteq Offline(AutoFailures)
  \/ r.key.rule = "multi_host_down"
       /\ Cardinality(Offline(AutoFailures)) > NetworkIssueMin
  \/ r.key.rule = "port_error" /\ r.key.hosts \subseteq portErr

\* What keeps an active incident open in _auto_resolve; nothing keeps
\* upstream_failure.
Keeps(r) ==
  \/ r.key.rule \in TimedRules /\ r.quiet < StaleAfter
  \/ r.key.rule = "host_down_syslog"
       /\ r.key.hosts \subseteq Offline(AutoFailures) \intersect errs
  \/ r.key.rule = "multi_host_down"
       /\ Cardinality(Offline(AutoFailures)) >= NetworkIssueMin
  \/ r.key.rule = "integration_host" /\ r.key.hosts \subseteq Offline(AutoFailures)
  \/ r.key.rule = "port_error" /\ r.key.hosts \subseteq portErr

Cleared == {i \in Slots : IsActive(View(i)) /\ ~Keeps(View(i))}

\* Mutant of Pruned: stale counts are kept.
PrunedNothing == hits

\* _prune_stale_hits
Pruned == [k \in DOMAIN hits \intersect seen |-> hits[k]]

\* _auto_resolve and _prune_stale_hits
AutoResolve ==
  /\ pc = "resolve"
  /\ pc' = "commit"
  /\ work' = [i \in Slots |-> IF i \in Cleared THEN Resolved(View(i)) ELSE work[i]]
  /\ dirty' = dirty \union Cleared
  /\ hits' = Pruned
  /\ seen' = {}
  /\ runs' = [k \in DOMAIN runs \intersect seen |-> runs[k]]
  /\ UNCHANGED <<storeVars, worldVars, todo, restarts>>

\* The transaction ends, and what it wrote is in the table.
Committed ==
  /\ rows' = Remembered([i \in Slots |-> View(i)], held)
  /\ DiscardWork

\* detect_fleet_patterns, called by the fleet rule with the run's own session,
\* commits it whenever its query of the log store returns something.
CommitFleet ==
  /\ pc = "log_rules"
  /\ Committed
  /\ UNCHANGED <<held, worldVars, pc, todo, hits, seen, restarts, runs>>

Commit ==
  /\ pc = "commit"
  /\ pc' = "idle"
  /\ Committed
  /\ UNCHANGED <<held, worldVars, todo, hits, seen, restarts, runs>>

\* Any query, or the commit, raises: rollback, and the hits stay counted.
Fail ==
  /\ pc # "idle"
  /\ RollBack
  /\ UNCHANGED <<storeVars, worldVars, hits, restarts, runs>>

\* The process dies and comes back: its memory and its transactions are gone.
Restart ==
  /\ restarts < MaxRestarts
  /\ restarts' = restarts + 1
  /\ hits' = NoHits /\ runs' = NoHits
  /\ RollBack
  /\ held' = [e \in Editors |-> NoSlot]
  /\ rows' = Remembered(rows, held')
  /\ UNCHANGED worldVars

(***************************************************************************)
(* What happens around it.                                                 *)
(***************************************************************************)

Edit ==
  /\ EditorStep(dirty)
  /\ UNCHANGED <<worldVars, engineVars>>

Ping(h) ==
  /\ \E n \in {0, IF fails[h] < FailCap THEN fails[h] + 1 ELSE FailCap} :
       fails' = [fails EXCEPT ![h] = n]
  /\ UNCHANGED <<maint, errs, portErr, intDown, signal>>

Flip(S, x) == IF x \in S THEN S \ {x} ELSE S \union {x}

World ==
  /\ \/ \E h \in Hosts : Ping(h)
     \/ \E h \in Serviced : maint' = Flip(maint, h)
          /\ UNCHANGED <<fails, errs, portErr, intDown, signal>>
     \/ \E h \in Chatty : errs' = Flip(errs, h)
          /\ UNCHANGED <<fails, maint, portErr, intDown, signal>>
     \/ \E h \in Ported : portErr' = Flip(portErr, h)
          /\ UNCHANGED <<fails, maint, errs, intDown, signal>>
     \/ \E g \in Integrations : intDown' = Flip(intDown, g)
          /\ UNCHANGED <<fails, maint, errs, portErr, signal>>
     \/ \E s \in Sources : signal' = Flip(signal, s)
          /\ UNCHANGED <<fails, maint, errs, portErr, intDown>>
  /\ UNCHANGED <<storeVars, engineVars>>

Engine ==
  \/ StartRun
  \/ NextRule
  \/ \E m \in todo : HoldBack(m) \/ Refresh(m) \/ Create(m) \/ FailOnDuplicate(m)
  \/ CommitFleet
  \/ AutoResolve
  \/ Commit

Next == Engine \/ Fail \/ Restart \/ Edit \/ World

Spec == Init /\ [][Next]_vars

\* The job is on a 60 s interval, and a run whose queries answer goes on.
FairSpec == Spec /\ WF_vars(Engine)

-----------------------------------------------------------------------------
(* Properties.                                                             *)

\* Every variable has its type; the transaction's copy holds exactly the rows
\* the run has written, nothing is written or counted between runs, and a key
\* seen in this run is counted.
TypeOK ==
  /\ StoreTypeOK
  /\ fails \in [Hosts -> 0..FailCap]
  /\ maint \subseteq Serviced /\ errs \subseteq Chatty /\ portErr \subseteq Ported
  /\ intDown \subseteq Integrations /\ signal \subseteq Sources
  /\ pc \in Rules \union {"idle", "resolve", "commit"}
  /\ todo \subseteq Matches
  /\ DOMAIN hits \subseteq HitKeys /\ \A k \in DOMAIN hits : hits[k] \in 1..MinCycles
  /\ DOMAIN runs \subseteq HitKeys /\ \A k \in DOMAIN runs : runs[k] \in 1..MinCycles
  /\ seen \subseteq DOMAIN hits
  /\ work \in [Slots -> Row]
  /\ dirty \subseteq Slots /\ \A i \in Slots \ dirty : work[i] = NoRow
  /\ pc = "idle" => dirty = {}
  /\ pc \in {"idle", "commit"} => seen = {}
  /\ restarts \in 0..MaxRestarts

\* "Supports deduplication" as far as the code carries it: two active rows for
\* the same rule and hosts exist only when one of them had been resolved and a
\* late acknowledgement made it active again.
TwinsAreRevivals(f) ==
  \A i, j \in Slots :
    i # j /\ IsActive(f[i]) /\ IsActive(f[j]) /\ f[i].key = f[j].key
      => f[i].closed \/ f[j].closed

\* So it is of the committed table, whatever editors, runs, failures and restarts overlap.
DuplicatesAreRevivals == TwinsAreRevivals(rows)

\* Why that and AcknowledgementKept hold: the run's view of the table satisfies
\* the same, so committing it does; a request never holds a forgotten row, so
\* what it makes active again had been resolved; and a row the run has written
\* cannot be acknowledged behind its back.
TableInv ==
  /\ DuplicatesAreRevivals
  /\ TwinsAreRevivals([i \in Slots |-> View(i)])
  /\ \A i \in Slots : rows[i].status = "resolved" => rows[i].closed
  /\ \A e \in Editors : held[e] # NoSlot => rows[held[e]].status # "absent"
  /\ \A i \in dirty :
       /\ work[i].status # "absent"
       /\ work[i].status = "resolved" => work[i].closed
       /\ rows[i].status = "acknowledged" => work[i].status # "open"

\* What _find_or_create_incident says: an active incident for the rule and the
\* hosts is found, never created a second time.
OneActivePerKey ==
  \A i, j \in Slots :
    IsActive(rows[i]) /\ IsActive(rows[j]) /\ rows[i].key = rows[j].key => i = j

\* An acknowledgement is undone by resolving the incident and by nothing else:
\* no run that refreshes the incident meanwhile reopens it.
AcknowledgementKept ==
  [][\A i \in Slots : rows[i].status = "acknowledged"
                        => rows'[i].status # "open"]_vars

\* The run makes row i a new incident.
Creates(i) == i \notin dirty /\ i \in dirty' /\ ~IsActive(rows[i])

\* The matches that are counted under key k.
Sharers(k) ==
  IF k \in Signals THEN {s \in Sources : SignalOf[s] = k}
  ELSE IF k.rule = "integration_host" THEN {g \in Integrations : {RunsOn[g]} = k.hosts}
  ELSE {k}

\* Every incident this step creates has earned it: a counter that several matches
\* share (integrations on one host, log sources of one name) runs faster, by at
\* most their number in each run.
CreatesEarned ==
  \A i \in Slots : Creates(i) =>
    \E k \in seen' : /\ IncidentOf(k) = work'[i].key
                    /\ runs'[k] * Cardinality(Sharers(k)) >= MinCycles

\* _track_rule_hit: an incident is raised only when its rule matched in at least
\* min_cycles runs, with no completed run between them in which it did not, or in
\* as many fewer as matches of one run share its counter.
RaisedAfterMinCycles == [][CreatesEarned]_vars

\* The rule that raises incident q would raise it now.
Found(q) == \E r \in Rules : \E m \in Finds(r) : IncidentOf(HitKey(m)) = q

\* The hosts of the incident are down for _auto_resolve too, which asks for three
\* failed pings whatever correlation_min_failures says. A port error is about
\* hosts that answer.
DownForBoth(q) ==
  q.rule = "port_error" \/ \A h \in q.hosts : fails[h] >= AutoFailures

\* Whatever the two thresholds are, the rules and _auto_resolve agree once the
\* hosts have failed as often as both ask: a run never closes an incident whose
\* rule it has just evaluated to true and would still evaluate to true. The code
\* has three exceptions: a host between the setting and the three failures, whose
\* incident is raised and closed by the same run, every run; an upstream failure,
\* which nothing keeps; and a row no run has updated lately.
RaisedSurvivesRun ==
  [][\A i \in Slots :
       /\ pc = "resolve" /\ pc' = "commit"
       /\ View(i).key.rule # "upstream_failure" /\ IsActive(View(i))
       /\ View(i).quiet = 0 /\ Found(View(i).key) /\ DownForBoth(View(i).key)
       => IsActive(View(i))']_vars

\* Every run gets through from some time on. (A commit that has nothing to write
\* and a failed one are the same step.)
EventuallyNoFailure == <>[][Fail => Commit]_vars

ActiveKeys == {rows[i].key : i \in {j \in Slots : IsActive(rows[j])}}

\* The incidents about one host or one log source that this instance can raise.
SingleKeys ==
  {HostKey("host_down_syslog", {h}) : h \in Chatty}
  \union {HostKey("port_error", {h}) : h \in Ported}
  \union {HostKey("integration_host", {RunsOn[g]}) : g \in Integrations}
  \union {SignalKey[SignalOf[s]] : s \in Sources}

\* A condition that lasts is raised, and stays raised, once runs stop failing:
\* counts survive failed runs, and _auto_resolve does not undo the raise.
OutageRaised ==
  EventuallyNoFailure =>
    \A q \in SingleKeys : <>[]Found(q) => <>[](q \in ActiveKeys)

Recovered(h) == fails[h] = 0 /\ h \notin portErr

\* Once a host answers for good, and a log source is quiet for good, their
\* incidents are resolved for good; with every host back, all of them are.
RecoveryResolves ==
  EventuallyNoFailure =>
    /\ <>[](signal = {}) => <>[](\A q \in ActiveKeys : q.rule \notin TimedRules)
    /\ \A h \in Hosts :
         <>[]Recovered(h) => <>[](\A q \in ActiveKeys : q.rule \in HostRules =>
                                                         q.hosts # {h})
    /\ <>[](\A h \in Hosts : Recovered(h))
         => <>[](\A q \in ActiveKeys : q.rule \notin HostRules)
=============================================================================
