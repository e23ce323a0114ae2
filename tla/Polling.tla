-------------------------------- MODULE Polling --------------------------------
(***************************************************************************)
(* scheduler.run_integration_checks: one run polls every enabled           *)
(* integration that is due, type by type, each type in one database        *)
(* session that is committed after its last member.  Of the members of a   *)
(* cluster group only the first to answer in a run writes its data, the    *)
(* others leave a standby marker; a Proxmox member joins the group it      *)
(* reports on its first success.                                           *)
(***************************************************************************)
EXTENDS Naturals, Sequences, FiniteSets

CONSTANTS PolOrder,      \* the ids, grouped by type, by id within a type
          PolType,       \* type of each
          PolCluster,    \* cluster_name each reports, NoGroup for none
          NoGroup,
          PolGroups,     \* the groups an editor may name
          PolInterval,   \* effective_interval of each, in runs
          PolUntil,      \* bound: runs
          PolFaults,     \* bound: database errors within a run
          PolEdits       \* bound: edits and deletions

PolConfigs == {PolOrder[i] : i \in DOMAIN PolOrder}

ASSUME PolAssumption ==
    /\ PolOrder \in Seq(PolConfigs)
    /\ \A i, j \in DOMAIN PolOrder : PolOrder[i] = PolOrder[j] => i = j
    /\ PolInterval \in [PolConfigs -> Nat \ {0}]
    /\ PolUntil \in Nat /\ NoGroup \notin PolGroups
    /\ \A i, j, k \in DOMAIN PolOrder :
          (i < j /\ j < k /\ PolType[PolOrder[i]] = PolType[PolOrder[k]]) => PolType[PolOrder[j]] = PolType[PolOrder[i]]

VARIABLES polNow,       \* runs begun
          polPresent,   \* the rows of integration_configs
          polGroup,     \* IntegrationConfig.cluster_group
          polLast,      \* run of each newest snapshot (ok, standby or failed)
          polData,      \* run of each newest snapshot with data
          polStandby,   \* run of each newest snapshot with the standby marker
          polAt,        \* position of the run in PolOrder, 0 between runs
          polList,      \* the ids the run has read
          polPoll,      \* the row the poll under way has read
          polOwners,    \* cluster_owners
          polSession,   \* uncommitted: who left a snapshot, with data, as standby; who joined
          polFaults,
          polEdits,
          polGone,      \* history: deleted
          polMoved      \* history: ever put in a group other than its cluster

polSaved == <<polGroup, polLast, polData, polStandby>>
polRun == <<polAt, polList, polPoll, polOwners, polSession, polFaults>>
polEver == <<polGone, polMoved, polEdits>>
polVars == <<polNow, polPresent, polSaved, polRun, polEver>>

Unasked == [busy |-> FALSE, group |-> NoGroup]
EmptySession == [snap |-> {}, data |-> {}, standby |-> {}, joined |-> {}]

PolInit ==
    /\ polNow = 0 /\ polPresent = {}
    /\ polGroup = [c \in PolConfigs |-> NoGroup]
    /\ polLast = [c \in PolConfigs |-> 0] /\ polData = polLast /\ polStandby = polLast
    /\ polAt = 0 /\ polList = {} /\ polPoll = Unasked /\ polOwners = {}
    /\ polSession = EmptySession
    /\ polFaults = 0
    /\ polEdits = 0 /\ polGone = {} /\ polMoved = {}

-----------------------------------------------------------------------------
(* The run                                                                   *)

Config == PolOrder[polAt]

\* No snapshot yet, or its time is an interval ago.
IsDue(c) == polLast[c] = 0 \/ polNow - polLast[c] >= PolInterval[c]

StartPolling ==
    /\ polAt = 0 /\ polNow < PolUntil /\ polPresent # {}
    /\ polNow' = polNow + 1
    /\ polAt' = 1
    /\ polList' = polPresent
    /\ polOwners' = {}
    /\ UNCHANGED <<polPresent, polSaved, polPoll, polSession, polFaults, polEver>>

\* Mutant of GroupAfterPoll: the group stored before the poll counts.
GroupBeforePoll(c) == polPoll.group

\* The group counts from the very poll that reports it.
GroupAfterPoll(c) == IF polPoll.group = NoGroup THEN PolCluster[c] ELSE polPoll.group

Joins(c) == polPoll.group = NoGroup /\ PolCluster[c] # NoGroup
GroupKey(c) == <<PolType[c], GroupAfterPoll(c)>>
Standby(c) == GroupAfterPoll(c) # NoGroup /\ GroupKey(c) \in polOwners

\* A success: the group is filled in, and the first of a group writes everything.
Polled(c) ==
    [snap |-> polSession.snap \cup {c},
     data |-> polSession.data \cup (IF Standby(c) THEN {} ELSE {c}),
     standby |-> polSession.standby \cup (IF Standby(c) THEN {c} ELSE {}),
     joined |-> polSession.joined \cup (IF Joins(c) THEN {c} ELSE {})]

OwnersAfter(c) == polOwners \cup (IF GroupAfterPoll(c) = NoGroup THEN {} ELSE {GroupKey(c)})

\* A config that cannot be decrypted, a collect that fails or raises.
PollFailed(c) == [polSession EXCEPT !.snap = @ \cup {c}]

\* A type's session is committed when its last member has been passed.
LastOfType == polAt = Len(PolOrder) \/ PolType[PolOrder[polAt + 1]] # PolType[Config]

AsOfNow(old, set) == [c \in PolConfigs |-> IF c \in set THEN polNow ELSE old[c]]

CommitSession(session) ==
    /\ polGroup' = [c \in PolConfigs |-> IF c \in session.joined THEN PolCluster[c] ELSE polGroup[c]]
    /\ polLast' = AsOfNow(polLast, session.snap)
    /\ polData' = AsOfNow(polData, session.data)
    /\ polStandby' = AsOfNow(polStandby, session.standby)

\* One more member has been dealt with.
Passed(session, owners) ==
    /\ polSession' = IF LastOfType THEN EmptySession ELSE session
    /\ IF LastOfType THEN CommitSession(session) ELSE UNCHANGED polSaved
    /\ polOwners' = owners
    /\ polAt' = IF polAt = Len(PolOrder) THEN 0 ELSE polAt + 1
    /\ polPoll' = Unasked
    /\ UNCHANGED <<polNow, polPresent, polList, polFaults, polEver>>

\* The exception leaves the job: what the type had written is lost, with the types not
\* reached yet.
RunLost ==
    /\ polAt' = 0 /\ polPoll' = Unasked /\ polSession' = EmptySession
    /\ UNCHANGED <<polNow, polPresent, polSaved, polList, polOwners, polEver>>

\* The row is read again: where it is gone, cannot be decrypted or is not due, there is no
\* poll.
BeginPoll ==
    /\ polAt # 0 /\ ~polPoll.busy
    /\ IF Config \notin polList \cap polPresent
       THEN Passed(polSession, polOwners)
       ELSE \/ Passed(PollFailed(Config), polOwners)
            \/ ~IsDue(Config) /\ Passed(polSession, polOwners)
            \/ /\ IsDue(Config)
               /\ polPoll' = [busy |-> TRUE, group |-> polGroup[Config]]
               /\ UNCHANGED <<polNow, polPresent, polSaved, polAt, polList, polOwners,
                              polSession, polFaults, polEver>>

\* collect() has answered.  A row deleted in the meantime cannot be given its group: the
\* UPDATE finds no row, and that spoils the session.
EndPoll ==
    /\ polPoll.busy
    /\ \/ (Joins(Config) => Config \in polPresent) /\ Passed(Polled(Config), OwnersAfter(Config))
       \/ Joins(Config) /\ Config \notin polPresent /\ RunLost /\ UNCHANGED polFaults
       \/ Passed(PollFailed(Config), polOwners)

\* A database error (in on_snapshot, or PostgreSQL gone) spoils the session: the failed
\* snapshot cannot be saved either.
AbortPolling ==
    /\ polAt # 0 /\ polFaults < PolFaults
    /\ polFaults' = polFaults + 1
    /\ RunLost

-----------------------------------------------------------------------------
(* The requests of editors, which commit while the run waits for an answer.  *)

\* Loopback, link-local and metadata addresses are refused.
HostKinds == {"none", "name", "address", "loopback", "link_local", "metadata"}
HostAllowed(host) == host \in {"none", "name", "address"}

NoteGroup(c, group) ==
    polMoved' = IF group \in {NoGroup, PolCluster[c]} THEN polMoved ELSE polMoved \cup {c}

\* create_config
AddRow(c, group) ==
    /\ polPresent' = polPresent \cup {c}
    /\ polGroup' = [polGroup EXCEPT ![c] = group]

\* Ids are given in order.
CreateIntegration(c, group, host) ==
    /\ HostAllowed(host)
    /\ c \notin polPresent \cup polGone
    /\ \A i, j \in DOMAIN PolOrder :
          i < j /\ PolOrder[j] = c /\ PolType[PolOrder[i]] = PolType[c]
            => PolOrder[i] \in polPresent \cup polGone
    /\ AddRow(c, group)
    /\ NoteGroup(c, group)
    /\ UNCHANGED <<polNow, polLast, polData, polStandby, polRun, polGone, polEdits>>

CountEdit == polEdits < PolEdits /\ polEdits' = polEdits + 1

\* A row that has joined its group is locked until the session of the run ends.
Unlocked(c) == c \in polPresent \ polSession.joined

\* Where the body names no group the row keeps it; no group and "" clear it.
EditIntegration(c, group, host) ==
    /\ HostAllowed(host)
    /\ Unlocked(c)
    /\ CountEdit
    /\ polGroup' = [polGroup EXCEPT ![c] = group]
    /\ NoteGroup(c, group)
    /\ UNCHANGED <<polNow, polPresent, polLast, polData, polStandby, polRun, polGone>>

\* delete_config: the row goes with its snapshots; what a run has not committed yet comes
\* after.
DropRow(c) ==
    /\ polPresent' = polPresent \ {c}
    /\ polLast' = [polLast EXCEPT ![c] = 0]
    /\ polData' = [polData EXCEPT ![c] = 0]
    /\ polStandby' = [polStandby EXCEPT ![c] = 0]

DeleteIntegration(c) ==
    /\ Unlocked(c)
    /\ CountEdit
    /\ DropRow(c)
    /\ polGone' = polGone \cup {c}
    /\ UNCHANGED <<polNow, polGroup, polRun, polMoved>>

PolNext ==
    \/ StartPolling \/ BeginPoll \/ EndPoll \/ AbortPolling
    \/ \E c \in PolConfigs :
          \/ \E group \in PolGroups \cup {NoGroup}, host \in HostKinds :
                CreateIntegration(c, group, host) \/ EditIntegration(c, group, host)
          \/ DeleteIntegration(c)

PolSpec == PolInit /\ [][PolNext]_polVars

-----------------------------------------------------------------------------
(* Properties                                                                *)

PolTypeOK ==
    /\ polAt \in 0..Len(PolOrder) /\ polNow \in 0..PolUntil
    /\ \A c \in PolConfigs : polData[c] <= polLast[c] /\ polLast[c] <= polNow

SameType(c, d) == c # d /\ PolType[c] = PolType[d]

\* Two members of one cluster, whom no editor ever put in another group.
SameCluster(c, d) ==
    /\ SameType(c, d) /\ PolCluster[c] = PolCluster[d] /\ PolCluster[c] # NoGroup
    /\ {c, d} \cap polMoved = {}

\* "only the FIRST one to successfully poll this cycle writes its data": in no run two
\* members of one cluster do, from the run in which the cluster is discovered on, and no
\* run leaves a member on standby beside nobody's data, with members failing, being
\* rolled back, coming back, and being created, regrouped and deleted between a poll and
\* its answer.
OneWriterPerCluster ==
    \A c \in PolConfigs :
        /\ \A d \in PolConfigs : SameCluster(c, d) => polData[c] = 0 \/ polData[c] # polData[d]
        /\ polStandby[c] # 0 =>
              \E d \in PolConfigs : SameType(c, d) /\ (polData[d] >= polStandby[c] \/ d \in polGone)
=============================================================================
