----------------------------- MODULE SnmpNames -----------------------------
(***************************************************************************)
(* The names of SNMP objects: the MIBs that are imported, seeded and       *)
(* deleted (backend/services/snmp.py, backend/routers/snmp.py), and the    *)
(* polls of hosts, which store their values under the names of a copy of   *)
(* the table that the process keeps for 300 s.  The unit of work flushes   *)
(* before it queries, so that a request holds the row of its MIB from its  *)
(* first query on, at READ COMMITTED.                                      *)
(***************************************************************************)
EXTENDS Integers, FiniteSets, FiniteSetsExt

CONSTANTS
  SnmPath,      \* SnmPath[o]: object o and the prefixes of its number, longest first
  SnmMibNames,  \* the names a MIB module may have
  SnmFiles,     \* what files define: functions of objects to names
  SnmDefaults,  \* DEFAULT_OIDS
  SnmDefaultMib,
  SnmPollers,   \* the job and the requests that poll at a time
  SnmRequests,  \* requests about MIBs at a time
  SnmFresh,     \* the ticks a copy is used for
  SnmTime,      \* bound: ticks of the clock
  SnmEdits      \* bound: requests ever begun

SnmOids == DOMAIN SnmPath
NoWord == "none"

ASSUME SnmAssumption ==
  /\ {SnmFresh, SnmTime, SnmEdits} \subseteq Nat
  /\ SnmDefaultMib \in SnmMibNames
  /\ \A f \in SnmFiles \union {SnmDefaults} : DOMAIN f \subseteq SnmOids

VARIABLES
  snmMibs,      \* the names in table snmp_mibs
  snmOids,      \* table snmp_oids: the name and the MIB of each object
  snmCache,     \* _oid_cache
  snmCacheTs,   \* _oid_cache_ts
  snmNow,
  snmPoll,      \* where each poll is
  snmReq,       \* where each request is
  snmEdits,     \* requests begun
  (* history *)
  snmWas        \* when each table of names was last in force, as far as it is replaced

snmVars == <<snmMibs, snmOids, snmCache, snmCacheTs, snmNow, snmPoll, snmReq, snmEdits, snmWas>>

NoOid == [name |-> NoWord, mib |-> NoWord]
Idle == [at |-> "off"]
LongAgo == -(SnmFresh + 1)
Empty == [o \in SnmOids |-> NoWord]
SnmNames == UNION {{f[o] : o \in DOMAIN f} : f \in SnmFiles \union {SnmDefaults}}
Tables == [SnmOids -> SnmNames \union {NoWord}]

Names == [o \in SnmOids |-> snmOids[o].name]

SnmInit ==
  /\ snmMibs = {} /\ snmOids = [o \in SnmOids |-> NoOid]
  /\ snmCache = Empty /\ snmCacheTs = LongAgo /\ snmNow = 0
  /\ snmPoll = [p \in SnmPollers |-> Idle]
  /\ snmReq = [w \in SnmRequests |-> Idle] /\ snmEdits = 0
  /\ snmWas = [t \in Tables |-> LongAgo]

\* A query of the whole table is answered before a copy of it would be too old.
SnmTick ==
  /\ snmNow < SnmTime
  /\ \A p \in SnmPollers : snmPoll[p].at \in {"refresh", "read"} => snmNow - snmPoll[p].now < SnmFresh
  /\ snmNow' = snmNow + 1
  /\ UNCHANGED <<snmMibs, snmOids, snmCache, snmCacheTs, snmPoll, snmReq, snmEdits, snmWas>>

\* The process starts again.
SnmRestart ==
  /\ snmCacheTs # LongAgo
  /\ snmCache' = Empty /\ snmCacheTs' = LongAgo
  /\ snmPoll' = [p \in SnmPollers |-> Idle]
  /\ snmReq' = [w \in SnmRequests |-> Idle]
  /\ UNCHANGED <<snmMibs, snmOids, snmNow, snmEdits, snmWas>>

-----------------------------------------------------------------------------
(* Requests about MIBs.                                                    *)

OidsOf(m) == {o \in SnmOids : snmOids[o].mib = m}

SetOids(new) ==
  /\ snmOids' = new
  /\ snmWas' = [snmWas EXCEPT ![Names] = snmNow]

ImportHolds(m) == \E w \in SnmRequests : snmReq[w].at = "import" /\ snmReq[w].mib = m
DeleteHolds(m) == \E w \in SnmRequests :
                    snmReq[w].at = "delete" /\ snmReq[w].mib = m /\ snmReq[w].sees # {}

Begin(w, req) ==
  /\ snmReq[w] = Idle /\ snmEdits < SnmEdits
  /\ snmReq' = [snmReq EXCEPT ![w] = req]
  /\ snmEdits' = snmEdits + 1
  /\ UNCHANGED <<snmMibs, snmOids, snmCache, snmCacheTs, snmNow, snmPoll, snmWas>>

\* api_upload_mib and api_import_from_library look for the MIB; what the library page
\* offers instead of a file is taken only of a MIB that is not there.
BeginImport(w) ==
  \E m \in SnmMibNames, f \in SnmFiles :
    Begin(w, [at |-> "found", mib |-> m, file |-> f, there |-> m \in snmMibs])

\* import_mib: it writes the MIB, deletes its objects and looks for those of the file.
WriteImport(w) ==
  /\ snmReq[w].at = "found"
  /\ LET c    == snmReq[w]
         gone == IF c.there THEN OidsOf(c.mib) ELSE {}
     IN  /\ ~ImportHolds(c.mib) /\ ~DeleteHolds(c.mib)
         /\ c.there <=> c.mib \in snmMibs
         /\ snmReq' = [snmReq EXCEPT ![w] =
              [at |-> "import", mib |-> c.mib, file |-> c.file, gone |-> gone,
               new |-> {o \in DOMAIN c.file : o \in gone \/ snmOids[o] = NoOid}]]
  /\ UNCHANGED <<snmMibs, snmOids, snmCache, snmCacheTs, snmNow, snmPoll, snmEdits, snmWas>>

\* An object that another request has added meanwhile makes it fail.
CommitImport(w) ==
  /\ snmReq[w].at = "import"
  /\ LET c == snmReq[w] IN
     /\ \A o \in c.new : o \in c.gone \/ snmOids[o] = NoOid
     /\ snmMibs' = snmMibs \union {c.mib}
     /\ SetOids([o \in SnmOids |-> IF o \in c.new THEN [name |-> c.file[o], mib |-> c.mib]
                                   ELSE IF o \in c.gone THEN NoOid ELSE snmOids[o]])
     /\ snmReq' = [v \in SnmRequests |->
          IF v = w THEN Idle
          ELSE IF snmReq[v].at = "delete" /\ snmReq[v].mib = c.mib
               THEN [snmReq[v] EXCEPT !.sees = @ \ c.gone] ELSE snmReq[v]]
  /\ UNCHANGED <<snmCache, snmCacheTs, snmNow, snmPoll, snmEdits>>

\* api_delete_mib: it finds the MIB and deletes the objects there are now.
BeginDelete(w) ==
  \E m \in snmMibs : Begin(w, [at |-> "delete", mib |-> m, sees |-> OidsOf(m)])

CommitDelete(w) ==
  /\ snmReq[w].at = "delete" /\ ~ImportHolds(snmReq[w].mib)
  /\ snmMibs' = snmMibs \ {snmReq[w].mib}
  /\ SetOids([o \in SnmOids |-> IF o \in snmReq[w].sees THEN NoOid ELSE snmOids[o]])
  /\ snmReq' = [snmReq EXCEPT ![w] = Idle]
  /\ UNCHANGED <<snmCache, snmCacheTs, snmNow, snmPoll, snmEdits>>

\* seed_default_oids, at every start and on request: what is missing.
BeginSeed(w) ==
  Begin(w, [at |-> "seed", mibs |-> {SnmDefaultMib} \ snmMibs,
            new |-> {o \in DOMAIN SnmDefaults : snmOids[o] = NoOid}])

\* Without a new object there is no commit, so that a missing MIB stays missing.
CommitSeed(w) ==
  /\ snmReq[w].at = "seed"
  /\ LET c == snmReq[w] IN
     /\ c.new # {}
     /\ c.mibs \intersect snmMibs = {} /\ \A o \in c.new : snmOids[o] = NoOid
     /\ snmMibs' = snmMibs \union c.mibs
     /\ SetOids([o \in SnmOids |-> IF o \in c.new THEN [name |-> SnmDefaults[o], mib |-> SnmDefaultMib]
                                   ELSE snmOids[o]])
  /\ snmReq' = [snmReq EXCEPT ![w] = Idle]
  /\ UNCHANGED <<snmCache, snmCacheTs, snmNow, snmPoll, snmEdits>>

\* It is refused, has nothing to do, meets another, or is cut off: nothing is written.
RequestEnds(w) ==
  /\ snmReq[w] # Idle
  /\ snmReq' = [snmReq EXCEPT ![w] = Idle]
  /\ UNCHANGED <<snmMibs, snmOids, snmCache, snmCacheTs, snmNow, snmPoll, snmEdits, snmWas>>

-----------------------------------------------------------------------------
(* Polls.                                                                  *)

\* The longest prefix that has a name, and how much of the number is left.
NameIn(table, o) ==
  LET named == {i \in DOMAIN SnmPath[o] : table[SnmPath[o][i]] # NoWord} IN
  IF named = {} THEN [name |-> NoWord, left |-> 0]
  ELSE [name |-> table[SnmPath[o][Min(named)]], left |-> Min(named) - 1]

\* poll_host: a host answers; its objects are named one after another, each as this.
HostAnswers(p) ==
  /\ snmPoll[p] = Idle
  /\ \E o \in SnmOids : snmPoll' = [snmPoll EXCEPT ![p] = [at |-> "answer", oid |-> o]]
  /\ UNCHANGED <<snmMibs, snmOids, snmCache, snmCacheTs, snmNow, snmReq, snmEdits, snmWas>>

Named(p, table) == [at |-> "named", oid |-> snmPoll[p].oid, name |-> NameIn(table, snmPoll[p].oid)]

\* get_oid_name with a copy that is fresh enough ...
UseCopy(p) ==
  /\ snmPoll[p].at = "answer" /\ snmNow - snmCacheTs <= SnmFresh
  /\ snmPoll' = [snmPoll EXCEPT ![p] = Named(p, snmCache)]
  /\ UNCHANGED <<snmMibs, snmOids, snmCache, snmCacheTs, snmNow, snmReq, snmEdits, snmWas>>

\* ... or with one that is not: it notes the time, reads the table,
StartRefresh(p) ==
  /\ snmPoll[p].at = "answer" /\ snmNow - snmCacheTs > SnmFresh
  /\ snmPoll' = [snmPoll EXCEPT ![p] = [at |-> "refresh", oid |-> @.oid, now |-> snmNow]]
  /\ UNCHANGED <<snmMibs, snmOids, snmCache, snmCacheTs, snmNow, snmReq, snmEdits, snmWas>>

ReadTable(p) ==
  /\ snmPoll[p].at = "refresh"
  /\ snmPoll' = [snmPoll EXCEPT ![p] = [at |-> "read", oid |-> @.oid, now |-> @.now, table |-> Names]]
  /\ UNCHANGED <<snmMibs, snmOids, snmCache, snmCacheTs, snmNow, snmReq, snmEdits, snmWas>>

\* Mutant of CopyTime: the time at which the answer is there.
CopyTimeLate(p) == snmNow

\* What becomes _oid_cache_ts.
CopyTime(p) == snmPoll[p].now

\* and keeps what it has read, whatever another poll has kept meanwhile.
FinishRefresh(p) ==
  /\ snmPoll[p].at = "read"
  /\ snmCache' = snmPoll[p].table /\ snmCacheTs' = CopyTime(p)
  /\ snmPoll' = [snmPoll EXCEPT ![p] = Named(p, snmPoll[p].table)]
  /\ UNCHANGED <<snmMibs, snmOids, snmNow, snmReq, snmEdits, snmWas>>

\* The result is stored, or the query or the commit fails.
PollEnds(p) ==
  /\ snmPoll[p].at \in {"refresh", "named"}
  /\ snmPoll' = [snmPoll EXCEPT ![p] = Idle]
  /\ UNCHANGED <<snmMibs, snmOids, snmCache, snmCacheTs, snmNow, snmReq, snmEdits, snmWas>>

SnmNext ==
  \/ SnmTick \/ SnmRestart
  \/ \E w \in SnmRequests : BeginImport(w) \/ WriteImport(w) \/ CommitImport(w) \/ BeginDelete(w)
                            \/ CommitDelete(w) \/ BeginSeed(w) \/ CommitSeed(w) \/ RequestEnds(w)
  \/ \E p \in SnmPollers : HostAnswers(p) \/ UseCopy(p) \/ StartRefresh(p) \/ ReadTable(p)
                           \/ FinishRefresh(p) \/ PollEnds(p)

SnmSpec == SnmInit /\ [][SnmNext]_snmVars

-----------------------------------------------------------------------------
(* Properties.                                                             *)

SnmTypeOK ==
  /\ snmMibs \subseteq SnmMibNames /\ Names \in Tables /\ snmCache \in Tables
  /\ snmCacheTs \in {LongAgo} \union 0..snmNow

LastInForce(t) == IF t = Names THEN snmNow ELSE snmWas[t]

\* snmp.py:518 "refresh every 5 minutes": however polls that refresh the copy overtake each
\* other and the table changes meanwhile, a poll stores a value under a name that the table
\* gave its object at some moment of the last 300 s.
NamesAreFresh ==
  [][\A p \in SnmPollers : snmPoll[p].at # "named" /\ snmPoll'[p].at = "named" =>
       \E t \in Tables : /\ LastInForce(t) >= snmNow - SnmFresh
                         /\ NameIn(t, snmPoll'[p].oid) = snmPoll'[p].name]_snmVars
=============================================================================
