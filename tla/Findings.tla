------------------------------ MODULE Findings ------------------------------
(***************************************************************************)
(* Vulnerability findings, apps/api/internal/vulnscan/engine.go and        *)
(* repository.go.  Scans of host snapshots run beside each other and       *)
(* beside the synchronisation that replaces the two caches; each call of   *)
(* the repository holds its lock, nothing holds it between two calls.      *)
(***************************************************************************)
EXTENDS CpeMatch, Collections

CONSTANTS
  Scan,       \* scans under way at the same time
  Endpoint,
  Inventory,  \* what a snapshot may hold
  Feed,       \* per CVE, the sequence of criteria and the severity NVD has
  FiMaxTime   \* bound: the clock

Severities == {"LOW", "MEDIUM", "HIGH", "CRITICAL"}

(* The applications of a host are a list, and NVD rates every CVE. *)
ASSUME FindingsAssumption ==
  /\ TextFrom \in Nat \ {0}
  /\ \A host \in Inventory : host.apps \in Seq({host.apps[i] : i \in DOMAIN host.apps})
  /\ \A c \in DOMAIN Feed : Feed[c].severity \in Severities

VARIABLES
  fiNow,       \* the clock
  knownCVEs,   \* DOMAIN r.cveCache
  kevCatalog,  \* DOMAIN r.kevCache
  findings,    \* r.findings: per endpoint and CVE the finding
  byID,        \* r.byID: per identifier its endpoint and CVE
  scan         \* per scan, where it stands

fiVars == <<fiNow, knownCVEs, kevCatalog, findings, byID, scan>>
caches == <<knownCVEs, kevCatalog>>

NoScan == [pc |-> "none"]
NoCVE == ""

FiInit ==
  /\ fiNow = 1
  /\ knownCVEs = {} /\ kevCatalog = {}
  /\ findings = << >> /\ byID = << >>
  /\ scan = [s \in Scan |-> NoScan]

(* SyncFeedsNow: SaveKEVCatalog replaces the catalogue ... *)
SaveKEVCatalog(items) ==
  /\ kevCatalog' = items
  /\ UNCHANGED <<fiNow, knownCVEs, findings, byID, scan>>

(* ... and SaveCachedCVEs adds to the cache. *)
CacheCVE(c) ==
  /\ knownCVEs' = knownCVEs \cup {c}
  /\ UNCHANGED <<fiNow, kevCatalog, findings, byID, scan>>

FiTick ==
  /\ fiNow < FiMaxTime
  /\ fiNow' = fiNow + 1
  /\ UNCHANGED <<caches, findings, byID, scan>>

-----------------------------------------------------------------------------
(* ScanSnapshot extracts the CPEs and takes a copy of the list of CVEs.    *)
ScanBegins(s, e, host) ==
  /\ scan[s] = NoScan
  /\ scan' = [scan EXCEPT ![s] =
       [pc |-> "matching", endpoint |-> e, host |-> host, cpes |-> ExtractHostCPEs(host),
        cached |-> knownCVEs, seen |-> {}, began |-> fiNow,
        cve |-> NoCVE, isKEV |-> FALSE]]
  /\ UNCHANGED <<fiNow, caches, findings, byID>>

Fits(cpe, c) == \E i \in DOMAIN Feed[c].criteria : MatchesCPE(cpe, Feed[c].criteria[i])

(* The CVEs the loops have still to record, for one CPE of the host. *)
Unseen(s, i) == {c \in scan[s].cached \ scan[s].seen : Fits(scan[s].cpes[i], c)}

(* The next match, CPE by CPE, in the order of the copy's map; and its     *)
(* entry in the KEV catalogue, under a lock of its own.                    *)
GetKEVItem(s) ==
  /\ scan[s].pc = "matching"
  /\ LET some == {i \in DOMAIN scan[s].cpes : Unseen(s, i) # {}} IN
     /\ some # {}
     /\ \E c \in Unseen(s, Min(some)) :
          scan' = [scan EXCEPT ![s].pc = "recording", ![s].seen = @ \cup {c},
                               ![s].cve = c, ![s].isKEV = c \in kevCatalog]
  /\ UNCHANGED <<fiNow, caches, findings, byID>>

(* A KEV entry is critical whatever its score. *)
SeverityOf(c, isKEV) == IF isKEV THEN "CRITICAL" ELSE Feed[c].severity

(* Fault: the update of a finding leaves its severity. *)
UpdatedWithoutSeverity(f, isKEV, c) == [f EXCEPT !.lastSeen = fiNow, !.isKEV = isKEV]

(* An existing finding keeps its identifier and when it was first seen.    *)
Updated(f, isKEV, c) ==
  [f EXCEPT !.lastSeen = fiNow, !.status = "OPEN", !.isKEV = isKEV,
            !.severity = SeverityOf(c, isKEV)]

Fresh(isKEV, c) ==
  [id |-> Cardinality(DOMAIN byID) + 1, firstSeen |-> fiNow, lastSeen |-> fiNow,
   status |-> "OPEN", isKEV |-> isKEV, severity |-> SeverityOf(c, isKEV)]

(* Fault: every scan inserts what it found. *)
InsertFinding(key, isKEV) ==
  LET f == Fresh(isKEV, key[2]) IN
  /\ findings' = Put(findings, key, f)
  /\ byID' = Put(byID, f.id, key)

(* UpsertFinding: looks up and writes under one lock. *)
UpsertFinding(key, isKEV) ==
  LET f == IF key \in DOMAIN findings THEN Updated(findings[key], isKEV, key[2])
           ELSE Fresh(isKEV, key[2])
  IN /\ findings' = Put(findings, key, f)
     /\ byID' = Put(byID, f.id, key)

ScanRecords(s) ==
  /\ scan[s].pc = "recording"
  /\ UpsertFinding(<<scan[s].endpoint, scan[s].cve>>, scan[s].isKEV)
  /\ scan' = [scan EXCEPT ![s].pc = "matching"]
  /\ UNCHANGED <<fiNow, caches>>

(* Nothing is left to match: the findings are returned. *)
Exhausted(s) ==
  scan[s].pc = "matching" /\ \A i \in DOMAIN scan[s].cpes : Unseen(s, i) = {}

ScanReturns(s) ==
  /\ Exhausted(s)
  /\ scan' = [scan EXCEPT ![s] = NoScan]
  /\ UNCHANGED <<fiNow, caches, findings, byID>>

ScanSnapshot(s) ==
  \/ \E e \in Endpoint, host \in Inventory : ScanBegins(s, e, host)
  \/ GetKEVItem(s) \/ ScanRecords(s) \/ ScanReturns(s)

FiNext ==
  \/ FiTick
  \/ \E items \in SUBSET DOMAIN Feed : SaveKEVCatalog(items)
  \/ \E c \in DOMAIN Feed : CacheCVE(c)
  \/ \E s \in Scan : ScanSnapshot(s)

FiSpec == FiInit /\ [][FiNext]_fiVars

-----------------------------------------------------------------------------
(* QueryFindings, its order: KEV first, then by score (here by severity),  *)
(* then the latest; ties, which are in no order, by their identifiers.     *)
Rank == [LOW |-> 1, MEDIUM |-> 2, HIGH |-> 3, CRITICAL |-> 4]

Score(key) == Rank[Feed[key[2]].severity]

Before(k, l) ==
  LET f == findings[k]  g == findings[l] IN
  IF f.isKEV # g.isKEV THEN f.isKEV
  ELSE IF Score(k) # Score(l) THEN Score(k) > Score(l)
  ELSE IF f.lastSeen # g.lastSeen THEN f.lastSeen > g.lastSeen
  ELSE f.id < g.id

QueryFindings(isKEV, offset, limit) ==
  LET kept == {k \in DOMAIN findings : isKEV = "any" \/ findings[k].isKEV = (isKEV = "yes")}
      keys == InOrder(kept, Before)
      page == SubSeq(keys, offset + 1, Min({offset + limit, Len(keys)}))
  IN [i \in DOMAIN page |-> findings[page[i]]]

(* GetFindingByID. *)
GetFindingByID(id) == findings[byID[id]]

-----------------------------------------------------------------------------
(* A finding keeps its identity: whatever scans find it again, at the same *)
(* time or later, its identifier and first sighting stay, its last         *)
(* sighting never goes back, and the identifier leads to it (deduplication *)
(* in UpsertFinding).                                                      *)
FindingsKeepTheirIdentity ==
  [][/\ \A k \in DOMAIN findings :
          /\ k \in DOMAIN findings'
          /\ findings'[k].id = findings[k].id
          /\ findings'[k].firstSeen = findings[k].firstSeen
          /\ findings'[k].lastSeen >= findings[k].lastSeen
     /\ \A id \in DOMAIN byID' : GetFindingByID(id)'.id = id]_fiVars

(* "Flag those as highest priority regardless of raw CVSS score"           *)
(* (engine.go): whenever the catalogue changed between a lookup and its    *)
(* record, a KEV finding is critical, an other has the severity of NVD,    *)
(* and no first page shows an other above or instead of a KEV finding.     *)
KEVComesFirst ==
  /\ \A k \in DOMAIN findings :
       findings[k].severity = SeverityOf(k[2], findings[k].isKEV)
  /\ \A limit \in 1..2 :
       LET page == QueryFindings("any", 0, limit)
           kevs == Len(QueryFindings("yes", 0, Cardinality(DOMAIN findings)))
       IN \A i \in DOMAIN page : page[i].isKEV <=> i <= kevs

(* What a version is worth, on its own: its parts as the digits of one     *)
(* number, missing ones 0 (versions here have at most three parts).        *)
VersionNumber(v) ==
  PartAt(v, 1) * TextFrom * TextFrom * 4 + PartAt(v, 2) * TextFrom * 2 + PartAt(v, 3)

Bounds == {"startIncluding", "startExcluding", "endIncluding", "endExcluding"}

(* The host runs the product of a criterion, in a version inside it.       *)
Affected(cpe, criterion) ==
  /\ cpe.product = criterion.product
  /\ LET n == VersionNumber(cpe.version)
         bound == [b \in Bounds \cap DOMAIN criterion |-> VersionNumber(criterion[b])]
     IN /\ "startIncluding" \in DOMAIN bound => n >= bound.startIncluding
        /\ "startExcluding" \in DOMAIN bound => n > bound.startExcluding
        /\ "endIncluding" \in DOMAIN bound => n <= bound.endIncluding
        /\ "endExcluding" \in DOMAIN bound => n < bound.endExcluding
        /\ DOMAIN bound = {} => n = VersionNumber(criterion.version)

(* Data of which that is the whole story: versions are known, of one to    *)
(* three parts, and names are alike only if they are of one product.       *)
IsVersion(v) ==
  /\ DOMAIN v \in {1..1, 1..2, 1..3}
  /\ \A i \in DOMAIN v : v[i] \in 0..(2 * TextFrom - 1)

IsPlain(cpe, criterion) ==
  /\ IsVersion(cpe.version)
  /\ \A b \in Bounds \cap DOMAIN criterion : IsVersion(criterion[b])
  /\ Bounds \cap DOMAIN criterion = {} => IsVersion(criterion.version)
  /\ cpe.product = criterion.product <=>
       /\ AnyValue \in {criterion.part, cpe.part} \/ criterion.part = cpe.part
       /\ Alike(criterion.vendor, cpe.vendor) /\ Alike(criterion.product, cpe.product)

PlainData ==
  \A host \in Inventory, c \in DOMAIN Feed :
    LET cpes == ExtractHostCPEs(host)  criteria == Feed[c].criteria IN
    \A i \in DOMAIN cpes, j \in DOMAIN criteria : IsPlain(cpes[i], criteria[j])

(* A scan is complete: when it returns, the findings it recorded are       *)
(* exactly those of the CVEs cached when it began whose product the host   *)
(* runs in an affected version, and each is open and was seen during the   *)
(* scan, whatever other scans and synchronisations did meanwhile.          *)
ScansAreComplete ==
  \A s \in Scan : Exhausted(s) =>
    /\ scan[s].seen =
         {c \in scan[s].cached : \E i \in DOMAIN scan[s].cpes, j \in DOMAIN Feed[c].criteria :
                                    Affected(scan[s].cpes[i], Feed[c].criteria[j])}
    /\ \A c \in scan[s].seen :
         LET key == <<scan[s].endpoint, c>> IN
         /\ key \in DOMAIN findings
         /\ findings[key].status = "OPEN" /\ findings[key].lastSeen >= scan[s].began
=============================================================================
