------------------------------- MODULE HostTable -------------------------------
(***************************************************************************)
(* The rows of ping_hosts that stand for one machine, and everything that  *)
(* writes them: operators, agents that enroll, the importers of Proxmox,   *)
(* UniFi and phpIPAM, subnet scans, and scheduler.resolve_host_dns, which  *)
(* fills in addresses and merges duplicates.  Nothing in the schema keeps  *)
(* the rows of a machine apart or together.  A job reads the table, works  *)
(* on what it has read and writes the columns it changed; other writers    *)
(* come between.  The machine has a name and the address "lan"; public DNS *)
(* may answer "wan" for the name.                                          *)
(***************************************************************************)
EXTENDS Naturals, FiniteSets

CONSTANTS HstIds,       \* bound: rows ever inserted
          HstTouches,   \* bound: edits and deletions by operators
          HstImporters  \* the importers, one of which is configured

ASSUME HstAssumption == {HstIds, HstTouches} \subseteq Nat /\ HstImporters \subseteq {"proxmox", "unifi", "phpipam"}

Jobs == {"dns", "import"}
Unset == "unset"        \* ip_address is NULL

VARIABLES hstRows,      \* the rows: id, key (hostname is the name or the address), addr
                        \* (ip_address), source, enabled, vmid (source_detail is the guest's
                        \* key), mac
          hstNext,      \* the next id
          hstParents,   \* ids that other rows name as parent_id
          hstSeen,      \* what each job has read
          hstRunning,   \* the jobs between read and write
          hstScan,      \* the kinds of hostname a scan has read, or "no" scan
          hstImporter,  \* the importer configured
          hstTouched

hstJobs == <<hstSeen, hstRunning, hstScan>>
hstVars == <<hstRows, hstNext, hstParents, hstJobs, hstImporter, hstTouched>>

HstInit ==
    /\ hstRows = {} /\ hstNext = 1 /\ hstParents = {}
    /\ hstSeen = [j \in Jobs |-> {}]
    /\ hstRunning = {}
    /\ hstScan = {"no"}
    /\ hstImporter \in HstImporters
    /\ hstTouched = 0

Ids(rows) == {r.id : r \in rows}
NewHost(key, addr, source) ==
    [id |-> hstNext, key |-> key, addr |-> addr, source |-> source, enabled |-> TRUE,
     vmid |-> FALSE, mac |-> FALSE]

Insert(row) ==
    /\ hstNext <= HstIds
    /\ hstRows' = hstRows \cup {row}
    /\ hstNext' = hstNext + 1

\* utils/ping.py pings ip_address where there is one, the hostname otherwise; what a
\* name resolves to is not counted.
HstTarget(r) == IF r.addr # Unset THEN r.addr ELSE IF r.key = "addr" THEN "lan" ELSE Unset

\* run_ping_checks takes the enabled hosts.
Targets(rows) == {HstTarget(r) : r \in {x \in rows : x.enabled}} \ {Unset}

\* A session writes the columns in which new differs from the row it had read.
HstWritten(row, old, new) == [f \in DOMAIN row |-> IF new[f] # old[f] THEN new[f] ELSE row[f]]

-----------------------------------------------------------------------------
(* Operators and agents                                                      *)

Touch == hstTouched < HstTouches /\ hstTouched' = hstTouched + 1

\* POST /hosts, /ping/add, /ping/api/create: no look at what is there.  The first may
\* create a disabled host, which HstTouches bounds.
CreateHost(key, enabled) ==
    /\ Insert([NewHost(key, Unset, "manual") EXCEPT !.enabled = enabled])
    /\ IF enabled THEN UNCHANGED hstTouched ELSE Touch
    /\ UNCHANGED <<hstParents, hstJobs, hstImporter>>

\* The hostname changes, the address stored for the old one stays.
EditHost(r) ==
    /\ \E key \in {"name", "addr"} : hstRows' = (hstRows \ {r}) \cup {[r EXCEPT !.key = key]}
    /\ Touch
    /\ UNCHANGED <<hstNext, hstParents, hstJobs, hstImporter>>

\* POST /ping/{id}/toggle, PATCH /hosts/{id} and /hosts/bulk.
ToggleHost(r) ==
    /\ hstRows' = (hstRows \ {r}) \cup {[r EXCEPT !.enabled = ~@]}
    /\ Touch
    /\ UNCHANGED <<hstNext, hstParents, hstJobs, hstImporter>>

SetParent(r) ==
    /\ hstParents' = hstParents \cup {r.id}
    /\ Touch
    /\ UNCHANGED <<hstRows, hstNext, hstJobs, hstImporter>>

ClearParent(i) ==
    /\ hstParents' = hstParents \ {i}
    /\ Touch
    /\ UNCHANGED <<hstRows, hstNext, hstJobs, hstImporter>>

\* parent_id has no ON DELETE: a parent cannot be deleted.
Deletable(rows) == Ids(rows) \cap hstParents = {}

DeleteHost(r) ==
    /\ Deletable({r})
    /\ hstRows' = hstRows \ {r}
    /\ Touch
    /\ UNCHANGED <<hstNext, hstParents, hstJobs, hstImporter>>

\* A new agent's hostname, FQDN or address may be there already.
EnrollHost ==
    /\ hstRows = {}
    /\ Insert(NewHost("name", "lan", "agent"))
    /\ UNCHANGED <<hstParents, hstJobs, hstImporter, hstTouched>>

\* The agent's own row; the query fails when there are several.
DeleteAgentHost ==
    LET own == {r \in hstRows : r.source = "agent" /\ r.key = "name"} IN
    /\ Cardinality(own) = 1 /\ Deletable(own)
    /\ hstRows' = hstRows \ own
    /\ Touch
    /\ UNCHANGED <<hstNext, hstParents, hstJobs, hstImporter>>

-----------------------------------------------------------------------------
(* Jobs                                                                      *)

StartJob(j) ==
    /\ j \notin hstRunning
    /\ hstRunning' = hstRunning \cup {j}
    /\ hstSeen' = [hstSeen EXCEPT ![j] = hstRows]
    /\ UNCHANGED <<hstRows, hstNext, hstParents, hstScan, hstImporter, hstTouched>>

EndJob(j) ==
    /\ hstRunning' = hstRunning \ {j}
    /\ hstSeen' = [hstSeen EXCEPT ![j] = {}]
    /\ UNCHANGED <<hstParents, hstScan, hstImporter, hstTouched>>

\* An UPDATE of a row that is gone (StaleDataError) or a DELETE the database refuses
\* ends the transaction without a trace.
HstFailed == UNCHANGED <<hstRows, hstNext>>

\* new maps the rows read to what the job made of them.
Update(read, new, gone) ==
    LET changed == {r \in read \ gone : new[r] # r} IN
    IF Ids(changed) \subseteq Ids(hstRows) /\ Deletable(gone)
    THEN /\ hstRows' = {IF row.id \in Ids(changed)
                        THEN LET old == CHOOSE r \in changed : r.id = row.id IN HstWritten(row, old, new[old])
                        ELSE row : row \in {x \in hstRows : x.id \notin Ids(gone)}}
         /\ UNCHANGED hstNext
    ELSE HstFailed

-----------------------------------------------------------------------------
(* The importers                                                             *)

\* import_proxmox_hosts: a row with the guest's key, or else one with its name.
Tied(read) == {r \in read : r.source = "proxmox" /\ r.vmid}
ProxmoxMatch(read) == IF Tied(read) # {} THEN Tied(read) ELSE {r \in read : r.key = "name"}

\* The guest's address overwrites whatever is stored in a Proxmox row; hostname is
\* reset with a changed display name.
GuestAddress(r, ip) == IF r.source = "proxmox" /\ ip # Unset THEN ip ELSE r.addr
ProxmoxRow(r, ip, renamed) ==
    LET own == [r EXCEPT !.source = IF @ = "manual" THEN "proxmox" ELSE @, !.vmid = TRUE] IN
    [own EXCEPT !.addr = GuestAddress(own, ip),
                !.key = IF renamed /\ own.source = "proxmox" THEN "name" ELSE @]

\* import_unifi_devices: a row whose hostname is the address, or one with the MAC.
UnifiMatch(read) ==
    LET byAddress == {r \in read : r.key = "addr"} IN
    IF byAddress # {} THEN byAddress ELSE {r \in read : r.mac}

UnifiRow(r, fqdn) ==
    [r EXCEPT !.source = IF @ = "manual" THEN "unifi" ELSE @,
              !.vmid = IF r.source = "manual" THEN FALSE ELSE @,
              !.mac = TRUE, !.addr = "lan", !.key = IF fqdn THEN "name" ELSE @]

PhpipamRow(r) == [r EXCEPT !.source = IF @ = "manual" THEN "phpipam" ELSE @]

\* One row is matched and changed, or a new one is inserted.
Import(match, row(_), new) ==
    IF match = {} THEN Insert(new) \/ (hstNext > HstIds /\ HstFailed)
    ELSE \E m \in match : Update({m}, [r \in {m} |-> row(r)], {})

FinishProxmox ==
    /\ "import" \in hstRunning /\ hstImporter = "proxmox"
    /\ \E renamed \in BOOLEAN :
          LET Row(r) == ProxmoxRow(r, "lan", renamed)
          IN  Import(ProxmoxMatch(hstSeen["import"]), Row, [NewHost("name", "lan", "proxmox") EXCEPT !.vmid = TRUE])
    /\ EndJob("import")

FinishUnifi ==
    /\ "import" \in hstRunning /\ hstImporter = "unifi"
    /\ \E fqdn \in BOOLEAN :
          LET Row(r) == UnifiRow(r, fqdn)
          IN  Import(UnifiMatch(hstSeen["import"]), Row,
                     [NewHost(IF fqdn THEN "name" ELSE "addr", "lan", "unifi") EXCEPT !.mac = TRUE])
    /\ EndJob("import")

FinishPhpipam ==
    /\ "import" \in hstRunning /\ hstImporter = "phpipam"
    /\ Import({r \in hstSeen["import"] : r.key = "addr"}, PhpipamRow, NewHost("addr", Unset, "phpipam"))
    /\ EndJob("import")

-----------------------------------------------------------------------------
(* Subnet scans                                                              *)

StartScan ==
    /\ hstScan = {"no"}
    /\ hstScan' = {r.key : r \in hstRows}
    /\ UNCHANGED <<hstRows, hstNext, hstParents, hstSeen, hstRunning, hstImporter, hstTouched>>

\* _match_host, in a scheduled scan: hostnames are compared, ip_address is not.
Matched(dns) == "addr" \in hstScan \/ (dns /\ "name" \in hstScan)

\* api_add_hosts, for the addresses an operator picked, compares less.
Picked == "addr" \in hstScan

AddFound == Insert(NewHost("addr", Unset, "scanner"))

FinishScan ==
    /\ hstScan # {"no"}
    /\ \/ \E dns \in BOOLEAN : ~Matched(dns) /\ AddFound
       \/ ~Picked /\ AddFound
       \/ (\E dns \in BOOLEAN : Matched(dns) \/ hstNext > HstIds) /\ HstFailed
    /\ hstScan' = {"no"}
    /\ UNCHANGED <<hstParents, hstSeen, hstRunning, hstImporter, hstTouched>>

-----------------------------------------------------------------------------
(* resolve_host_dns                                                          *)

Authoritative == {"proxmox", "unifi"}

\* ip_to_host: of several rows with one address some one is kept.  Disabled rows are
\* read too.
Indexed(read) == {r \in read : r.addr # Unset /\ r.source # "scanner"}

CheckIp(r) == IF r.addr # Unset THEN r.addr ELSE "lan"
\* Mutant of Merged: a row may be its own duplicate.
MergedItself(read, kept) ==
    {r \in read : r.key = "addr" /\ r.source \in {"scanner", "manual"} /\ \E k \in kept : k.addr = CheckIp(r)}

Merged(read, kept) ==
    {r \in read : /\ r.key = "addr" /\ r.source \in {"scanner", "manual"}
                  /\ \E k \in kept : k.addr = CheckIp(r) /\ k.id # r.id}

\* found is what the lookup of the name answered.
Resolved(r, found) ==
    IF r.addr # Unset THEN r
    ELSE IF r.key = "addr" THEN [r EXCEPT !.addr = "lan"]
    ELSE IF r.source \in Authoritative THEN r ELSE [r EXCEPT !.addr = found]

FinishDns ==
    LET read == hstSeen["dns"] IN
    /\ "dns" \in hstRunning
    /\ \E kept \in SUBSET Indexed(read), found \in {Unset, "lan", "wan"} :
         /\ {k.addr : k \in kept} = {k.addr : k \in Indexed(read)}
         /\ \A a, b \in kept : a.addr = b.addr => a = b
         /\ Update(read, [r \in read |-> Resolved(r, found)], Merged(read, kept))
    /\ EndJob("dns")

HstNext ==
    \/ \E key \in {"name", "addr"}, enabled \in BOOLEAN : CreateHost(key, enabled)
    \/ \E r \in hstRows : EditHost(r) \/ ToggleHost(r) \/ SetParent(r) \/ DeleteHost(r)
    \/ \E i \in hstParents : ClearParent(i)
    \/ EnrollHost \/ DeleteAgentHost
    \/ StartScan
    \/ \E j \in Jobs : StartJob(j)
    \/ FinishProxmox \/ FinishUnifi \/ FinishPhpipam \/ FinishScan \/ FinishDns

HstSpec == HstInit /\ [][HstNext]_hstVars

-----------------------------------------------------------------------------
(* Properties                                                                *)

\* Ids are unique.
HstTypeOK ==
    /\ Cardinality(Ids(hstRows)) = Cardinality(hstRows)
    /\ Ids(hstRows) \subseteq 1..HstIds
    /\ \A r \in hstRows : r.addr \in {Unset, "lan", "wan"}

\* A row that the job saw at w's address is one that does not watch it: it is disabled, or
\* has been changed or deleted since the job read it.
NotCovered(w) ==
    \E k \in Indexed(hstSeen["dns"]) : /\ k.id # w.id /\ k.addr = HstTarget(w)
                                       /\ ~k.enabled \/ k \notin hstRows

\* The merge removes duplicates, never the last watcher: an address that an enabled row,
\* which nobody has touched since the job read it, had checked before the job's commit is
\* still checked after it, whatever other writers did to other rows.  What stands apart is
\* the row the code calls covered by one that does not watch the address.
CoverKept ==
    FinishDns =>
      \A w \in hstRows \cap hstSeen["dns"] :
         w.enabled /\ HstTarget(w) \in Targets(hstRows) \ Targets(hstRows') => NotCovered(w)

MergeKeepsCover == [][CoverKept]_hstVars

=============================================================================
