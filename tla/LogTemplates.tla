---------------------------- MODULE LogTemplates ----------------------------
(***************************************************************************)
(* What the log intelligence (backend/services/log_intelligence.py) learns *)
(* of log messages: the template of each message is counted in memory and  *)
(* flushed to `log_templates` every 30 s, the analytics learn which        *)
(* templates precede an outage, and retention deletes templates nobody has *)
(* seen for long.  Which hash is stored is known from a cache that only    *)
(* the start of the process loads.  A message is its template.             *)
(***************************************************************************)
EXTENDS Naturals, FiniteSets

CONSTANTS Templates,      \* hashes of templates
          TplMessages,    \* bound: messages of one template
          TplFaults,      \* bound: flushes that fail, cache loads that fail
          TplRestarts     \* bound: restarts of the process

VARIABLES tplCache,       \* _template_cache: hashes believed to be stored
          tplCounts,      \* _template_counts
          tplNew,         \* _new_templates
          tplFlush,       \* the flush that is running: what it took, what it has inserted
          tplRows,        \* log_templates: stored hash -> count
          tplOld,         \* stored templates not seen within the retention
          tplPatterns,    \* templates of precursor_patterns
          tplBlacklist,   \* setting predictor_template_blacklist: the templates it matches
          tplBefore,      \* templates logged within 5 minutes before an outage
          tplSeen,        \* history: messages of each template
          tplFaulted, tplRestarted

tplVars == <<tplCache, tplCounts, tplNew, tplFlush, tplRows, tplOld, tplPatterns, tplBlacklist, tplBefore,
             tplSeen, tplFaulted, tplRestarted>>

NoCounts == [t \in Templates |-> 0]
NoFlush == [on |-> FALSE, counts |-> NoCounts, new |-> {}, todo |-> {}, added |-> {}]
Stored == DOMAIN tplRows

TplInit ==
    /\ tplCache = {} /\ tplCounts = NoCounts /\ tplNew = {} /\ tplFlush = NoFlush
    /\ tplRows = [t \in {} |-> 0] /\ tplOld = {} /\ tplPatterns = {} /\ tplBefore = {}
    /\ tplBlacklist = {} /\ tplSeen = NoCounts /\ tplFaulted = 0 /\ tplRestarted = 0

-----------------------------------------------------------------------------
\* process_message: one more of the template, and a new one if it is neither
\* cached nor waiting.  A flush that runs has taken both dictionaries away.
ProcessMessage(t) ==
    /\ tplSeen[t] < TplMessages
    /\ tplSeen' = [tplSeen EXCEPT ![t] = @ + 1]
    /\ tplCounts' = [tplCounts EXCEPT ![t] = @ + 1]
    /\ tplNew' = IF t \in tplCache THEN tplNew ELSE tplNew \union {t}
    /\ UNCHANGED <<tplCache, tplFlush, tplRows, tplOld, tplPatterns, tplBlacklist, tplBefore, tplFaulted, tplRestarted>>

\* flush_templates swaps the buffers before it awaits anything.
StartFlush ==
    /\ ~tplFlush.on
    /\ tplCounts # NoCounts
    /\ tplFlush' = [on |-> TRUE, counts |-> tplCounts, new |-> tplNew, todo |-> tplNew, added |-> {}]
    /\ tplCounts' = NoCounts
    /\ tplNew' = {}
    /\ UNCHANGED <<tplCache, tplRows, tplOld, tplPatterns, tplBlacklist, tplBefore, tplSeen, tplFaulted, tplRestarted>>

\* One new template: inserted with its count unless there is a row, and cached
\* before anything is committed.
FlushTemplate(t) ==
    /\ t \in tplFlush.todo
    /\ tplFlush' = [tplFlush EXCEPT !.todo = @ \ {t},
                                    !.added = IF t \in Stored THEN @ ELSE @ \union {t}]
    /\ tplCache' = tplCache \union {t}
    /\ UNCHANGED <<tplCounts, tplNew, tplRows, tplOld, tplPatterns, tplBlacklist, tplBefore, tplSeen, tplFaulted, tplRestarted>>

\* Mutant of Recounted: the new ones get it a second time.
RecountedAll == {t \in Templates : tplFlush.counts[t] > 0}

\* The templates whose row gets the count added: the new ones have theirs.
Recounted == {t \in Templates \ tplFlush.new : tplFlush.counts[t] > 0}

\* The UPDATE of a template without a row changes nothing.
CommitFlush ==
    /\ tplFlush.on /\ tplFlush.todo = {}
    /\ tplRows' = [t \in Stored \union tplFlush.added |->
                     (IF t \in Stored THEN tplRows[t] ELSE tplFlush.counts[t])
                     + (IF t \in Recounted THEN tplFlush.counts[t] ELSE 0)]
    /\ tplOld' = tplOld \ Recounted
    /\ tplFlush' = NoFlush
    /\ UNCHANGED <<tplCache, tplCounts, tplNew, tplPatterns, tplBlacklist, tplBefore, tplSeen, tplFaulted, tplRestarted>>

\* run_intelligence rolls back: the buffers are gone, the cache is as it was.
FlushFails ==
    /\ tplFlush.on /\ tplFaulted < TplFaults
    /\ tplFaulted' = tplFaulted + 1
    /\ tplFlush' = NoFlush
    /\ UNCHANGED <<tplCache, tplCounts, tplNew, tplRows, tplOld, tplPatterns, tplBlacklist, tplBefore, tplSeen, tplRestarted>>

-----------------------------------------------------------------------------
\* The retention period passes without a message of the template.
GrowOld(t) ==
    /\ t \in Stored \ tplOld
    /\ tplCounts[t] = 0 /\ tplFlush.counts[t] = 0
    /\ tplOld' = tplOld \union {t}
    /\ UNCHANGED <<tplCache, tplCounts, tplNew, tplFlush, tplRows, tplPatterns, tplBlacklist, tplBefore, tplSeen,
                   tplFaulted, tplRestarted>>

\* What retention deletes.
ExpiredTemplates == tplOld \ tplPatterns

\* cleanup_log_templates: the cache is not told.
CleanupTemplates ==
    /\ ExpiredTemplates # {}
    /\ tplRows' = [t \in Stored \ ExpiredTemplates |-> tplRows[t]]
    /\ tplOld' = tplOld \ ExpiredTemplates
    /\ UNCHANGED <<tplCache, tplCounts, tplNew, tplFlush, tplPatterns, tplBlacklist, tplBefore, tplSeen,
                   tplFaulted, tplRestarted>>

\* A host goes down, an integration fails, an incident is confirmed: messages
\* of the template came shortly before.
Outage(t) ==
    /\ tplSeen[t] > 0
    /\ tplBefore' = tplBefore \union {t}
    /\ UNCHANGED <<tplCache, tplCounts, tplNew, tplFlush, tplRows, tplOld, tplPatterns, tplBlacklist, tplSeen,
                   tplFaulted, tplRestarted>>

\* The week the analytics look back over is past.
OutagesPass ==
    /\ tplBefore # {}
    /\ tplBefore' = {}
    /\ UNCHANGED <<tplCache, tplCounts, tplNew, tplFlush, tplRows, tplOld, tplPatterns, tplBlacklist, tplSeen,
                   tplFaulted, tplRestarted>>

\* set_template_blacklist
EditBlacklist ==
    /\ tplBlacklist' \in SUBSET Templates \ {tplBlacklist}
    /\ UNCHANGED <<tplCache, tplCounts, tplNew, tplFlush, tplRows, tplOld, tplPatterns, tplBefore,
                   tplSeen, tplFaulted, tplRestarted>>

\* is_template_blacklisted, of a text that is empty when there is no row.
Blacklisted(t) == t \in tplBlacklist \intersect Stored

\* The cached templates before an outage; which of them reach a confidence of
\* 0.3 depends on the other outages.
Candidates == {t \in tplBefore \intersect tplCache : ~Blacklisted(t)}

\* The foreign key: every template of a pattern has a row.
Learnable(found) == found \subseteq Stored

\* learn_precursors, with cleanup_precursor_patterns before it: one transaction,
\* which the foreign key fails as a whole, and with it the rest of run_analytics.
LearnPrecursors ==
    \E found \in SUBSET Candidates :
        /\ found # {}
        /\ Learnable(found)
        /\ tplPatterns' = (tplPatterns \ tplBlacklist) \union found
        /\ UNCHANGED <<tplCache, tplCounts, tplNew, tplFlush, tplRows, tplOld, tplBlacklist, tplBefore, tplSeen,
                       tplFaulted, tplRestarted>>

\* The process restarts; load_template_cache fills the cache, and a failure of
\* it is logged and leaves it empty.
RestartIntelligence ==
    /\ tplRestarted < TplRestarts
    /\ tplRestarted' = tplRestarted + 1
    /\ tplCounts' = NoCounts /\ tplNew' = {} /\ tplFlush' = NoFlush
    /\ \/ tplCache' = Stored /\ UNCHANGED tplFaulted
       \/ tplCache' = {} /\ tplFaulted < TplFaults /\ tplFaulted' = tplFaulted + 1
    /\ UNCHANGED <<tplRows, tplOld, tplPatterns, tplBlacklist, tplBefore, tplSeen>>

TplNext ==
    \/ \E t \in Templates : ProcessMessage(t) \/ FlushTemplate(t) \/ GrowOld(t) \/ Outage(t)
    \/ StartFlush \/ CommitFlush \/ FlushFails
    \/ CleanupTemplates \/ OutagesPass \/ EditBlacklist \/ LearnPrecursors \/ RestartIntelligence

TplSpec == TplInit /\ [][TplNext]_tplVars

-----------------------------------------------------------------------------
(* Properties                                                                *)

TplTypeOK ==
    /\ tplCache \subseteq Templates /\ tplNew \subseteq Templates
    /\ tplCounts \in [Templates -> 0..TplMessages]
    /\ tplFlush.todo \subseteq tplFlush.new /\ tplFlush.added \subseteq tplFlush.new
    /\ Stored \subseteq Templates /\ tplOld \subseteq Stored

\* How often the messages of a template are counted: in its row, in the flush that runs,
\* and in memory.
Tallied(t) ==
    (IF t \in Stored THEN tplRows[t] ELSE 0) + tplFlush.counts[t] + tplCounts[t]

\* A template may be cached without a row, after retention, or have a row without being
\* cached, after a load that failed or while its first flush still runs: however flushes,
\* failures, retention and restarts follow each other, no message is counted twice.
NoMessageCountedTwice == \A t \in Templates : Tallied(t) <= tplSeen[t]

=============================================================================
