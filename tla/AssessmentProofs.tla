-------------------------- MODULE AssessmentProofs --------------------------
(***************************************************************************)
(* Proofs about what a host is assessed for.  Vulnerabilities: VulnFeed,   *)
(* for every set of CVEs, every lag of the feed and every length of a      *)
(* synchronisation that the overlap window covers; NvdLimiter, for every   *)
(* interval, burst and budget; Findings, for every inventory and feed and  *)
(* any number of scans beside each other and beside the synchronisations.  *)
(* Compliance: for every set of rules, whatever their checks mean.         *)
(***************************************************************************)
EXTENDS VulnFeed, NvdLimiter, Findings, Compliance, CollectionsProofs

-----------------------------------------------------------------------------
(* VulnFeed *)

(* What the feed shows: an entry's date lies before its appearance, by at  *)
(* most Lag.                                                               *)
FeedOK ==
  /\ vfNow \in Nat \ {0}
  /\ nvd \in [CVE -> [revision : Nat, date : Nat, shown : Nat]]
  /\ \A c \in CVE : /\ nvd[c].shown <= vfNow
                    /\ nvd[c].shown <= nvd[c].date + Lag
                    /\ nvd[c].date <= nvd[c].shown

(* What the worker keeps: only entries that exist are cached, and the last *)
(* synchronisation took no longer than its deadline.                       *)
CacheOK ==
  /\ cveCache \in [CVE -> Nat]
  /\ \A c \in CVE : nvd[c].revision = 0 => cveCache[c] = 0
  /\ lastSyncAt \in Nat /\ synced \in Nat
  /\ synced <= vfNow /\ lastSyncAt <= synced + SyncTimeout
  /\ truncated \in BOOLEAN

KevCall  == [pc : {"kev"}, began : Nat, attempt : Nat]
NvdCall  == [pc : {"nvd"}, began : Nat, attempt : Nat, end : Nat]
SaveCall(b, p) == [pc |-> "save", began |-> b, page |-> p]

(* The call of SyncFeedsNow: it runs within its deadline. *)
CallOK ==
  /\ \/ sync = NoSync
     \/ sync \in KevCall
     \/ sync \in NvdCall /\ sync.end >= sync.began
     \/ \E b \in Nat, S \in SUBSET CVE : \E p \in [S -> Nat] : sync = SaveCall(b, p)
  /\ sync # NoSync => sync.began <= vfNow /\ vfNow <= sync.began + SyncTimeout

(* What the page in hand does not hold of the revisions shown before the   *)
(* synchronisation began is cached already.                                *)
PageSuffices ==
  In("save") =>
    /\ \A c \in DOMAIN sync.page : nvd[c].revision > 0
    /\ ~truncated => \A c \in CVE : nvd[c].shown < sync.began =>
         nvd[c].revision = IF c \in DOMAIN sync.page THEN sync.page[c] ELSE cveCache[c]

FeedInv == FeedOK /\ CacheOK /\ CallOK /\ PageSuffices /\ NothingMissed

LEMMA MinOfTwo == \A a, b \in Nat : Min({a, b}) = IF a <= b THEN a ELSE b
<1> SUFFICES ASSUME NEW a \in Nat, NEW b \in Nat PROVE Min({a, b}) = IF a <= b THEN a ELSE b
  OBVIOUS
<1> DEFINE m == IF a <= b THEN a ELSE b
<1>1. m \in {a, b} /\ \A y \in {a, b} : m <= y
  OBVIOUS
<1>2. \A x \in {a, b} : (\A y \in {a, b} : x <= y) => x = m
  OBVIOUS
<1>3. Min({a, b}) \in {a, b} /\ \A y \in {a, b} : Min({a, b}) <= y
  BY <1>1 DEF Min
<1> QED
  BY <1>2, <1>3

LEMMA MaxOfTwo == \A a, b \in Int : Max({a, b}) \in {a, b} /\ Max({a, b}) >= a /\ Max({a, b}) >= b
<1> SUFFICES ASSUME NEW a \in Int, NEW b \in Int
             PROVE  Max({a, b}) \in {a, b} /\ Max({a, b}) >= a /\ Max({a, b}) >= b
  OBVIOUS
<1> DEFINE m == IF a >= b THEN a ELSE b
<1>1. m \in {a, b} /\ \A y \in {a, b} : m >= y
  OBVIOUS
<1>2. Max({a, b}) \in {a, b} /\ \A y \in {a, b} : Max({a, b}) >= y
  BY <1>1 DEF Max
<1> QED
  BY <1>2

(* An answer that fits its page is the whole window. *)
LEMMA WholeWindow ==
  ASSUME NEW page \in kSubset(Min({PageSize, Cardinality(Window)}), Window),
         Cardinality(Window) <= PageSize
  PROVE  page = Window
<1>1. IsFiniteSet(Window) /\ Cardinality(Window) \in Nat
  BY VulnFeedAssumption, FS_Subset, FS_CardinalityType DEF Window
<1>2. Min({PageSize, Cardinality(Window)}) = Cardinality(Window)
  BY <1>1, MinOfTwo, VulnFeedAssumption
<1>3. page \in SUBSET Window /\ Cardinality(page) = Cardinality(Window)
  BY <1>2 DEF kSubset
<1> QED
  BY <1>1, <1>3, FS_Subset

(* The heart of the argument: what the window leaves out was shown before  *)
(* the previous synchronisation began, as the overlap covers the lag of    *)
(* the feed and the length of that synchronisation.                        *)
LEMMA OutsideWindow ==
  ASSUME FeedInv, ~truncated, In("nvd"), NEW c \in CVE,
         nvd[c].shown < sync.began, c \notin Window
  PROVE  nvd[c].revision = cveCache[c]
<1>1. sync \in NvdCall /\ sync.end >= sync.began
  BY DEF FeedInv, CallOK, In, NoSync, KevCall, NvdCall, SaveCall
<1>2. nvd[c] \in [revision : Nat, date : Nat, shown : Nat] /\ nvd[c].date <= nvd[c].shown
      /\ nvd[c].shown <= nvd[c].date + Lag
  BY DEF FeedInv, FeedOK
<1>3. nvd[c].date <= sync.end
  BY <1>1, <1>2 DEF NvdCall
<1>4. CASE nvd[c].revision = 0
  BY <1>4 DEF FeedInv, CacheOK
<1>5. CASE nvd[c].revision > 0
  <2>1. lastSyncAt # 0 /\ ~(nvd[c].date >= lastSyncAt - Overlap)
    BY <1>3, <1>5 DEF Window, AfterStart
  <2>2. nvd[c].shown < synced
    BY <1>2, <2>1, VulnFeedAssumption DEF FeedInv, CacheOK
  <2>3. QED
    BY <2>2 DEF FeedInv, NothingMissed
<1> QED
  BY <1>2, <1>4, <1>5

(* A step that leaves the feeds, the caches and the history alone. *)
Idles == UNCHANGED <<vfNow, nvd, cveCache, lastSyncAt, synced>>

(* A call that ends or is tried again keeps the invariant. *)
LEMMA RetryStep ==
  ASSUME FeedInv, Idles, truncated' = truncated,
         \/ sync' = NoSync
         \/ sync \in KevCall \cup NvdCall /\ sync' = [sync EXCEPT !.attempt = @ + 1]
  PROVE  FeedInv'
<1>1. FeedOK' /\ CacheOK' /\ NothingMissed'
  BY DEF FeedInv, FeedOK, CacheOK, NothingMissed, Idles
<1>2. CASE sync' = NoSync
  <2>1. CallOK' /\ PageSuffices'
    BY <1>2 DEF CallOK, PageSuffices, In, NoSync
  <2> QED
    BY <1>1, <2>1 DEF FeedInv
<1>3. CASE sync \in KevCall /\ sync' = [sync EXCEPT !.attempt = @ + 1]
  <2>1. sync' \in KevCall /\ sync'.began = sync.began /\ sync'.pc = "kev" /\ sync # NoSync
    BY <1>3 DEF KevCall, NoSync
  <2>2. CallOK' /\ PageSuffices'
    BY <2>1 DEF FeedInv, CallOK, PageSuffices, In, Idles
  <2> QED
    BY <1>1, <2>2 DEF FeedInv
<1>4. CASE sync \in NvdCall /\ sync' = [sync EXCEPT !.attempt = @ + 1]
  <2>1. /\ sync' \in NvdCall /\ sync'.began = sync.began /\ sync'.end = sync.end
        /\ sync'.pc = "nvd" /\ sync # NoSync /\ sync \notin KevCall /\ sync.pc = "nvd"
    BY <1>4 DEF KevCall, NvdCall, NoSync
  <2>2. sync.end >= sync.began
    BY <2>1 DEF FeedInv, CallOK, SaveCall
  <2>3. CallOK' /\ PageSuffices'
    BY <2>1, <2>2 DEF FeedInv, CallOK, PageSuffices, In, Idles
  <2> QED
    BY <1>1, <2>3 DEF FeedInv
<1> QED
  BY <1>2, <1>3, <1>4

(* What the call is at each of its steps. *)
LEMMA CallAt ==
  ASSUME FeedInv
  PROVE  /\ In("kev") => sync \in KevCall
         /\ In("nvd") => sync \in NvdCall
         /\ In("save") => \E b \in Nat, S \in SUBSET CVE : \E p \in [S -> Nat] : sync = SaveCall(b, p)
         /\ sync # NoSync => /\ sync.began \in Nat
                             /\ sync.began <= vfNow /\ vfNow <= sync.began + SyncTimeout
         /\ In("kev") \/ In("nvd") \/ In("save") => sync # NoSync
<1>1. CASE sync = NoSync
  BY <1>1 DEF In, NoSync
<1>2. CASE sync \in KevCall
  BY <1>2 DEF FeedInv, CallOK, In, KevCall, NoSync
<1>3. CASE sync \in NvdCall
  BY <1>3 DEF FeedInv, CallOK, In, NvdCall, NoSync
<1>4. ASSUME NEW b \in Nat, NEW S \in SUBSET CVE, NEW p \in [S -> Nat], sync = SaveCall(b, p)
      PROVE  sync.pc = "save" /\ sync.began = b /\ sync # NoSync
  BY <1>4 DEF SaveCall, NoSync
<1>5. CASE \E b \in Nat, S \in SUBSET CVE : \E p \in [S -> Nat] : sync = SaveCall(b, p)
  BY <1>4, <1>5 DEF FeedInv, CallOK, In
<1> QED
  BY <1>1, <1>2, <1>3, <1>5 DEF FeedInv, CallOK

LEMMA FetchCatalogStep == ASSUME FeedInv, FetchCatalog PROVE FeedInv'
<1>1. sync \in KevCall /\ sync # NoSync /\ sync.began \in Nat /\ sync.began <= vfNow
      /\ vfNow <= sync.began + SyncTimeout
  BY CallAt DEF FetchCatalog
<1>2. Idles /\ truncated' = truncated
  BY DEF FetchCatalog, feedVars, Idles
<1>3. CASE sync' = [pc |-> "nvd", began |-> sync.began, attempt |-> 1, end |-> vfNow]
  <2>1. sync' \in NvdCall /\ sync'.began = sync.began /\ sync'.end = vfNow /\ sync'.pc = "nvd"
    BY <1>1, <1>3 DEF NvdCall, FeedInv, FeedOK
  <2>2. CallOK' /\ PageSuffices'
    BY <1>1, <1>2, <2>1 DEF CallOK, PageSuffices, In, Idles
  <2>3. FeedOK' /\ CacheOK' /\ NothingMissed'
    BY <1>2 DEF FeedInv, FeedOK, CacheOK, NothingMissed, Idles
  <2> QED
    BY <2>2, <2>3 DEF FeedInv
<1>4. CASE Fails
  BY <1>1, <1>2, <1>4, RetryStep DEF Fails, Reply
<1> QED
  BY <1>3, <1>4 DEF FetchCatalog, Reply

LEMMA FetchPageStep == ASSUME FeedInv, FetchCVEPage PROVE FeedInv'
<1>1. /\ sync \in NvdCall /\ sync # NoSync /\ sync.began \in Nat /\ sync.began <= vfNow
      /\ vfNow <= sync.began + SyncTimeout /\ In("nvd")
  BY CallAt DEF FetchCVEPage
<1>2. Idles
  BY DEF FetchCVEPage, feedVars, Idles
<1>3. ASSUME NEW page \in kSubset(Min({PageSize, Cardinality(Window)}), Window),
             sync' = [pc |-> "save", began |-> sync.began, page |-> [c \in page |-> nvd[c].revision]],
             truncated' = (truncated \/ Cardinality(Window) > PageSize)
      PROVE  FeedInv'
  <2>1. page \subseteq Window /\ Window \subseteq CVE
    BY DEF kSubset, Window
  <2>2. \A c \in CVE : nvd[c].revision \in Nat
    BY DEF FeedInv, FeedOK
  <2>3. [c \in page |-> nvd[c].revision] \in [page -> Nat]
    BY <2>1, <2>2
  <2>4. sync' = SaveCall(sync.began, [c \in page |-> nvd[c].revision])
    BY <1>3 DEF SaveCall
  <2>5. /\ sync'.began = sync.began /\ sync'.pc = "save"
        /\ sync'.page = [c \in page |-> nvd[c].revision]
    BY <1>3
  <2>6. CallOK'
    <3>1. \E b \in Nat, S \in SUBSET CVE : \E p \in [S -> Nat] : sync' = SaveCall(b, p)
      BY <1>1, <2>1, <2>3, <2>4
    <3>2. QED
      BY <1>1, <1>2, <2>5, <3>1 DEF CallOK, Idles, SaveCall
  <2>7. IsFiniteSet(Window) /\ Cardinality(Window) \in Nat
    BY VulnFeedAssumption, FS_Subset, FS_CardinalityType DEF Window
  <2>8. PageSuffices'
    <3>1. \A c \in page : nvd'[c].revision > 0
      BY <1>2, <2>1 DEF Window, Idles
    <3>2. ASSUME ~truncated', NEW c \in CVE, nvd[c].shown < sync.began
          PROVE  nvd[c].revision = IF c \in page THEN sync'.page[c] ELSE cveCache[c]
      <4>1. ~truncated /\ page = Window
        <5>1. ~truncated /\ ~(Cardinality(Window) > PageSize)
          BY <1>3, <3>2
        <5>2. PageSize \in Nat
          BY VulnFeedAssumption
        <5>3. Cardinality(Window) <= PageSize
          BY <2>7, <5>1, <5>2
        <5>4. QED
          BY <5>1, <5>3, WholeWindow
      <4>2. CASE c \in page
        BY <2>5, <4>2
      <4>3. CASE c \notin page
        BY <1>1, <3>2, <4>1, <4>3, OutsideWindow
      <4> QED
        BY <4>2, <4>3
    <3>3. DOMAIN sync'.page = page
      BY <2>5
    <3>4. QED
      BY <1>2, <2>5, <3>1, <3>2, <3>3 DEF PageSuffices, Idles
  <2>9. FeedOK' /\ CacheOK' /\ NothingMissed'
    BY <1>2, <1>3 DEF FeedInv, FeedOK, CacheOK, NothingMissed, Idles
  <2> QED
    BY <2>6, <2>8, <2>9 DEF FeedInv
<1>4. CASE Fails /\ truncated' = truncated
  BY <1>1, <1>2, <1>4, RetryStep DEF Fails, Reply
<1> QED
  BY <1>3, <1>4 DEF FetchCVEPage, Reply

LEMMA SaveStep == ASSUME FeedInv, SaveCachedCVEs PROVE FeedInv'
<1>1. PICK b \in Nat, S \in SUBSET CVE : \E p \in [S -> Nat] : sync = SaveCall(b, p)
  BY CallAt DEF SaveCachedCVEs
<1>2. PICK p \in [S -> Nat] : sync = SaveCall(b, p)
  BY <1>1
<1>3. sync.began = b /\ sync.page = p /\ DOMAIN sync.page = S /\ sync # NoSync /\ In("save")
  BY <1>2 DEF SaveCall, NoSync, SaveCachedCVEs
<1>4. b <= vfNow /\ vfNow <= b + SyncTimeout
  BY <1>3, CallAt
<1>5. /\ \A c \in CVE : cveCache'[c] = IF c \in S THEN p[c] ELSE cveCache[c]
      /\ DOMAIN cveCache' = CVE
      /\ lastSyncAt' = vfNow /\ synced' = b /\ sync' = NoSync
      /\ UNCHANGED <<vfNow, nvd, truncated>>
  BY <1>3 DEF SaveCachedCVEs, Reply, feedVars
<1>6. FeedOK'
  BY <1>5 DEF FeedInv, FeedOK
<1>7. CacheOK'
  <2>1. cveCache' = [c \in CVE |-> IF c \in S THEN p[c] ELSE cveCache[c]]
    BY <1>3 DEF SaveCachedCVEs
  <2>2. cveCache' \in [CVE -> Nat]
    BY <2>1 DEF FeedInv, CacheOK
  <2>3. \A c \in S : nvd[c].revision > 0
    BY <1>3 DEF FeedInv, PageSuffices
  <2>4. \A c \in CVE : nvd'[c].revision = 0 => cveCache'[c] = 0
    BY <1>5, <2>3 DEF FeedInv, CacheOK
  <2> QED
    BY <1>4, <1>5, <2>2, <2>4 DEF FeedInv, FeedOK, CacheOK
<1>8. CallOK' /\ PageSuffices'
  BY <1>5 DEF CallOK, PageSuffices, In, NoSync
<1>9. NothingMissed'
  BY <1>3, <1>5 DEF FeedInv, PageSuffices, NothingMissed
<1> QED
  BY <1>6, <1>7, <1>8, <1>9 DEF FeedInv

(* An entry shown now was not shown before any synchronisation so far. *)
LEMMA ModifyStep == ASSUME FeedInv, NEW c \in CVE, Modify(c) PROVE FeedInv'
<1>1. PICK date \in Max({1, vfNow - Lag}) .. vfNow :
        /\ date >= nvd[c].date
        /\ nvd' = [nvd EXCEPT ![c] = [revision |-> @.revision + 1, date |-> date, shown |-> vfNow]]
  BY DEF Modify
<1>2. Lag \in Nat /\ SyncTimeout \in Nat /\ vfNow \in Nat \ {0}
  BY VulnFeedAssumption DEF FeedInv, FeedOK
<1>3. /\ Max({1, vfNow - Lag}) \in Int /\ Max({1, vfNow - Lag}) >= 1
      /\ Max({1, vfNow - Lag}) >= vfNow - Lag
  <2>1. 1 \in Int /\ vfNow - Lag \in Int
    BY <1>2
  <2>2. QED
    BY <2>1, MaxOfTwo
<1>4. date \in Nat /\ date <= vfNow /\ vfNow <= date + Lag
  BY <1>2, <1>3
<1>5. UNCHANGED <<vfNow, cveCache, lastSyncAt, sync, synced, truncated>>
  BY DEF Modify, syncVars
<1>6. /\ nvd \in [CVE -> [revision : Nat, date : Nat, shown : Nat]]
      /\ nvd'[c] = [revision |-> nvd[c].revision + 1, date |-> date, shown |-> vfNow]
      /\ \A d \in CVE \ {c} : nvd'[d] = nvd[d]
      /\ DOMAIN nvd' = CVE
  BY <1>1 DEF FeedInv, FeedOK
<1>7. nvd'[c].revision \in Nat \ {0} /\ nvd'[c].date = date /\ nvd'[c].shown = vfNow
  BY <1>6
<1>8. FeedOK'
  <2>1. nvd' \in [CVE -> [revision : Nat, date : Nat, shown : Nat]]
    BY <1>1, <1>2, <1>4, <1>6
  <2>2. \A d \in CVE : /\ nvd'[d].shown <= vfNow /\ nvd'[d].shown <= nvd'[d].date + Lag
                       /\ nvd'[d].date <= nvd'[d].shown
    BY <1>2, <1>4, <1>6, <1>7 DEF FeedInv, FeedOK
  <2> QED
    BY <1>2, <1>5, <2>1, <2>2 DEF FeedOK
<1>9. CacheOK'
  BY <1>5, <1>6, <1>7 DEF FeedInv, CacheOK
<1>10. CallOK'
  BY <1>5 DEF FeedInv, CallOK
<1>11. PageSuffices'
  <2> SUFFICES ASSUME In("save")
               PROVE /\ \A d \in DOMAIN sync.page : nvd'[d].revision > 0
                     /\ ~truncated => \A d \in CVE : nvd'[d].shown < sync.began =>
                          nvd'[d].revision = IF d \in DOMAIN sync.page THEN sync.page[d] ELSE cveCache[d]
    BY <1>5 DEF PageSuffices, In
  <2>1. DOMAIN sync.page \subseteq CVE /\ sync.began \in Nat /\ sync.began <= vfNow
    BY CallAt DEF SaveCall
  <2>2. ~(nvd'[c].shown < sync.began)
    BY <1>2, <1>7, <2>1
  <2>3. \A d \in DOMAIN sync.page : nvd'[d].revision > 0
    BY <1>6, <1>7, <2>1 DEF FeedInv, PageSuffices
  <2>4. ASSUME ~truncated, NEW d \in CVE, nvd'[d].shown < sync.began
        PROVE  nvd'[d].revision = IF d \in DOMAIN sync.page THEN sync.page[d] ELSE cveCache[d]
    <3>1. d # c
      BY <2>2, <2>4
    <3>2. nvd'[d] = nvd[d]
      BY <1>6, <3>1
    <3>3. QED
      BY <2>4, <3>2 DEF FeedInv, PageSuffices
  <2> QED
    BY <2>3, <2>4
<1>12. NothingMissed'
  <2>1. synced <= vfNow
    BY DEF FeedInv, CacheOK
  <2>2. ~(nvd'[c].shown < synced)
    BY <1>2, <1>7, <2>1 DEF FeedInv, CacheOK
  <2> QED
    BY <1>5, <1>6, <2>2 DEF FeedInv, NothingMissed
<1> QED
  BY <1>8, <1>9, <1>10, <1>11, <1>12 DEF FeedInv

LEMMA TickStep == ASSUME FeedInv, VfTick PROVE FeedInv'
<1>1. vfNow' = vfNow + 1 /\ vfNow \in Nat \ {0} /\ SyncTimeout \in Nat
  BY VulnFeedAssumption DEF VfTick, FeedInv, FeedOK
<1>2. UNCHANGED <<nvd, cveCache, lastSyncAt, sync, synced, truncated>>
  BY DEF VfTick, syncVars
<1>3. FeedOK'
  BY <1>1, <1>2 DEF FeedInv, FeedOK
<1>4. CacheOK' /\ PageSuffices' /\ NothingMissed'
  BY <1>1, <1>2 DEF FeedInv, CacheOK, PageSuffices, NothingMissed, In
<1>5. CallOK'
  <2>1. sync # NoSync => /\ sync.began \in Nat /\ sync.began <= vfNow
                         /\ vfNow < sync.began + SyncTimeout
    BY CallAt DEF VfTick
  <2>2. sync # NoSync => sync.began <= vfNow' /\ vfNow' <= sync.began + SyncTimeout
    BY <1>1, <2>1
  <2> QED
    BY <1>2, <2>2 DEF FeedInv, CallOK
<1> QED
  BY <1>3, <1>4, <1>5 DEF FeedInv

LEMMA BeginStep == ASSUME FeedInv, SyncBegins PROVE FeedInv'
<1>1. sync' = [pc |-> "kev", began |-> vfNow, attempt |-> 1] /\ Idles /\ truncated' = truncated
  BY DEF SyncBegins, feedVars, Idles
<1>2. sync' \in KevCall /\ sync'.began = vfNow /\ sync'.pc = "kev" /\ SyncTimeout \in Nat
  BY <1>1, VulnFeedAssumption DEF KevCall, FeedInv, FeedOK
<1>3. CallOK' /\ PageSuffices'
  BY <1>1, <1>2 DEF CallOK, PageSuffices, In, Idles, FeedInv, FeedOK
<1>4. FeedOK' /\ CacheOK' /\ NothingMissed'
  BY <1>1 DEF FeedInv, FeedOK, CacheOK, NothingMissed, Idles
<1> QED
  BY <1>3, <1>4 DEF FeedInv

(* The loop, the mutex and Stop do not touch what the invariant is about. *)
LEMMA OtherStep ==
  ASSUME FeedInv, UNCHANGED <<vfNow, nvd, cveCache, lastSyncAt, sync, synced, truncated>>
  PROVE  FeedInv'
BY DEF FeedInv, FeedOK, CacheOK, CallOK, PageSuffices, NothingMissed, In

LEMMA NextFeed == FeedInv /\ [VfNext]_vfVars => FeedInv'
<1> SUFFICES ASSUME FeedInv, [VfNext]_vfVars PROVE FeedInv'
  OBVIOUS
<1>1. CASE \E c \in CVE : Modify(c)
  BY <1>1, ModifyStep
<1>2. CASE \E c \in KevCVE : Relist(c)
  BY <1>2, OtherStep DEF Relist, syncVars
<1>3. CASE VfTick
  BY <1>3, TickStep
<1>4. CASE SyncFeedsNow
  BY <1>4, FetchCatalogStep, FetchPageStep, SaveStep DEF SyncFeedsNow
<1>5. CASE SyncBegins
  BY <1>5, BeginStep
<1>6. CASE LoopStops \/ Start \/ StopCalled \/ StopLocks \/ StopReturns
  BY <1>6, OtherStep DEF LoopStops, Start, StopCalled, StopLocks, StopReturns, feedVars, syncVars
<1>7. CASE UNCHANGED vfVars
  BY <1>7, OtherStep DEF vfVars, feedVars, syncVars
<1> QED
  BY <1>1, <1>2, <1>3, <1>4, <1>5, <1>6, <1>7 DEF VfNext

(* Nothing is missed between two synchronisations whose answers fit their  *)
(* page: every revision NVD showed before the last successful one began is *)
(* cached, whatever failed in between (worker.go's overlap window).        *)
THEOREM OverlapSuffices == VfSpec => []NothingMissed
<1>1. VfInit => FeedInv
  <2> SUFFICES ASSUME VfInit PROVE FeedInv
    OBVIOUS
  <2>1. Lag \in Nat /\ SyncTimeout \in Nat
    BY VulnFeedAssumption
  <2> DEFINE unknown == [revision |-> 0, date |-> 0, shown |-> 0]
  <2>2. vfNow = 1 /\ nvd = [c \in CVE |-> unknown]
    BY DEF VfInit
  <2>3. unknown \in [revision : Nat, date : Nat, shown : Nat]
        /\ unknown.date = 0 /\ unknown.shown = 0
    OBVIOUS
  <2>4. FeedOK
    <3> HIDE DEF unknown
    <3> QED
      BY <2>1, <2>2, <2>3 DEF FeedOK
  <2>5. CacheOK
    <3>1. cveCache \in [CVE -> Nat] /\ \A c \in CVE : cveCache[c] = 0
      BY DEF VfInit
    <3>2. lastSyncAt = 0 /\ synced = 0 /\ vfNow = 1
      BY DEF VfInit
    <3>3. truncated \in BOOLEAN
      BY DEF VfInit
    <3> QED
      BY <2>1, <3>1, <3>2, <3>3 DEF CacheOK
  <2>6. CallOK /\ PageSuffices
    BY DEF VfInit, CallOK, PageSuffices, In, NoSync
  <2>7. NothingMissed
    BY DEF VfInit, NothingMissed
  <2> QED
    BY <2>4, <2>5, <2>6, <2>7 DEF FeedInv
<1>2. FeedInv => NothingMissed
  BY DEF FeedInv
<1>3. QED
  BY <1>1, <1>2, NextFeed, PTL DEF VfSpec

-----------------------------------------------------------------------------
(* Findings *)

CVEs == DOMAIN Feed

Finding ==
  [id : Nat \ {0}, firstSeen : Nat, lastSeen : Nat, status : {"OPEN"},
   isKEV : BOOLEAN, severity : Severities]

(* What is recorded: the severity is the one of the last record. *)
RecordsOK ==
  /\ fiNow \in Nat
  /\ knownCVEs \in SUBSET CVEs
  /\ DOMAIN findings \in SUBSET (Endpoint \X CVEs)
  /\ \A k \in DOMAIN findings :
       /\ findings[k] \in Finding
       /\ findings[k].severity = SeverityOf(k[2], findings[k].isKEV)
       /\ findings[k].lastSeen <= fiNow

(* Findings and identifiers lead to each other, and the identifiers are    *)
(* given without a gap, so the next one is new.                            *)
IdsOK ==
  /\ Cardinality(DOMAIN byID) \in Nat /\ DOMAIN byID = 1..Cardinality(DOMAIN byID)
  /\ \A k \in DOMAIN findings : findings[k].id \in DOMAIN byID /\ byID[findings[k].id] = k
  /\ \A i \in DOMAIN byID : byID[i] \in DOMAIN findings /\ findings[byID[i]].id = i

ScanRecord ==
  [pc : {"matching", "recording"}, endpoint : Endpoint, host : Inventory,
   cpes : {ExtractHostCPEs(host) : host \in Inventory}, cached : SUBSET CVEs,
   seen : SUBSET CVEs, began : Nat, cve : CVEs \cup {NoCVE}, isKEV : BOOLEAN]

FitsSome(cpes, c) == \E i \in DOMAIN cpes : Fits(cpes[i], c)

Recorded(k, began) ==
  k \in DOMAIN findings /\ findings[k].status = "OPEN" /\ findings[k].lastSeen >= began

(* What a scan has seen fits a CPE of its host, and is recorded unless it  *)
(* is being recorded.                                                      *)
ScanOK(t) ==
  /\ t \in ScanRecord
  /\ t.cpes = ExtractHostCPEs(t.host)
  /\ t.seen \subseteq t.cached /\ t.began <= fiNow
  /\ t.pc = "recording" => t.cve \in t.seen
  /\ \A c \in t.seen :
       /\ FitsSome(t.cpes, c)
       /\ \/ t.pc = "recording" /\ c = t.cve
          \/ Recorded(<<t.endpoint, c>>, t.began)

ScansOK ==
  /\ DOMAIN scan = Scan
  /\ \A s \in Scan : scan[s] = NoScan \/ ScanOK(scan[s])

FiInv == RecordsOK /\ IdsOK /\ ScansOK

(* The CPEs of a host are a list. *)
LEMMA CPEsAreAList ==
  ASSUME NEW host \in Inventory
  PROVE  DOMAIN ExtractHostCPEs(host) \in SUBSET Nat
<1> DEFINE App(i) == BuildCPEFromApp(host.apps[i])
           X == {BuildCPEFromOS(host.os)} \cup {App(i) : i \in DOMAIN host.apps}
           apps == [i \in DOMAIN host.apps |-> App(i)]
<1>1. PICK n \in Nat : DOMAIN host.apps = 1..n
  <2>1. host.apps \in Seq({host.apps[i] : i \in DOMAIN host.apps})
    BY FindingsAssumption
  <2> QED
    BY <2>1
<1>2. apps \in Seq(X)
  <2> HIDE DEF App
  <2> QED
    BY <1>1
<1>3. <<BuildCPEFromOS(host.os)>> \in Seq(X)
  OBVIOUS
<1>4. ExtractHostCPEs(host) = <<BuildCPEFromOS(host.os)>> \o apps
  BY DEF ExtractHostCPEs
<1> HIDE DEF X, apps, App
<1>5. ExtractHostCPEs(host) \in Seq(X)
  BY <1>2, <1>3, <1>4
<1> QED
  BY <1>5

(* The severity of a record. *)
LEMMA SeverityType ==
  \A c \in CVEs, b \in BOOLEAN : SeverityOf(c, b) \in Severities
BY FindingsAssumption DEF SeverityOf, CVEs, Severities

(* An update of a finding, and a new one. *)
LEMMA UpdatedFinding ==
  ASSUME RecordsOK, NEW k \in DOMAIN findings, NEW b \in BOOLEAN
  PROVE  /\ Updated(findings[k], b, k[2]) \in Finding
         /\ Updated(findings[k], b, k[2]).id = findings[k].id
         /\ Updated(findings[k], b, k[2]).firstSeen = findings[k].firstSeen
         /\ Updated(findings[k], b, k[2]).lastSeen = fiNow
         /\ Updated(findings[k], b, k[2]).status = "OPEN"
         /\ Updated(findings[k], b, k[2]).isKEV = b
         /\ Updated(findings[k], b, k[2]).severity = SeverityOf(k[2], b)
<1> DEFINE v == SeverityOf(k[2], b)
<1>1. /\ findings[k] \in Finding /\ fiNow \in Nat
      /\ k[2] \in CVEs
  BY DEF RecordsOK
<1>2. v \in Severities
  BY <1>1, SeverityType
<1>3. Updated(findings[k], b, k[2]) =
        [findings[k] EXCEPT !.lastSeen = fiNow, !.status = "OPEN", !.isKEV = b, !.severity = v]
  BY DEF Updated
<1> HIDE DEF v
<1>4. Updated(findings[k], b, k[2]) =
        [id |-> findings[k].id, firstSeen |-> findings[k].firstSeen, lastSeen |-> fiNow,
         status |-> "OPEN", isKEV |-> b, severity |-> v]
  BY <1>1, <1>3 DEF Finding
<1> QED
  BY <1>1, <1>2, <1>4 DEF Finding, v

LEMMA FreshFinding ==
  ASSUME RecordsOK, IdsOK, NEW c \in CVEs, NEW b \in BOOLEAN
  PROVE  /\ Fresh(b, c) \in Finding
         /\ Fresh(b, c).id = Cardinality(DOMAIN byID) + 1
         /\ Fresh(b, c).lastSeen = fiNow /\ Fresh(b, c).status = "OPEN"
         /\ Fresh(b, c).isKEV = b /\ Fresh(b, c).severity = SeverityOf(c, b)
<1>1. SeverityOf(c, b) \in Severities
  BY SeverityType
<1>2. Cardinality(DOMAIN byID) + 1 \in Nat \ {0} /\ fiNow \in Nat
  BY DEF IdsOK, RecordsOK
<1> QED
  BY <1>1, <1>2 DEF Fresh, Finding

(* Put changes the one key. *)
LEMMA PutAt ==
  ASSUME NEW m, NEW key, NEW value
  PROVE  /\ DOMAIN Put(m, key, value) = DOMAIN m \cup {key}
         /\ Put(m, key, value)[key] = value
         /\ \A k \in DOMAIN m : k # key => Put(m, key, value)[k] = m[k]
BY DEF Put

(* UpsertFinding keeps what is recorded of a finding's identity. *)
Kept ==
  \A k \in DOMAIN findings :
    /\ k \in DOMAIN findings'
    /\ findings'[k].id = findings[k].id
    /\ findings'[k].firstSeen = findings[k].firstSeen
    /\ findings'[k].lastSeen >= findings[k].lastSeen
    /\ findings'[k].status = "OPEN"

LEMMA UpdateStep ==
  ASSUME FiInv, NEW key \in DOMAIN findings, NEW b \in BOOLEAN,
         UpsertFinding(key, b), UNCHANGED <<fiNow, knownCVEs>>
  PROVE  RecordsOK' /\ IdsOK' /\ Kept /\ Recorded(key, fiNow)'
<1> DEFINE f == Updated(findings[key], b, key[2])
<1>1. RecordsOK /\ IdsOK
  BY DEF FiInv
<1>2. /\ f \in Finding /\ f.id = findings[key].id /\ f.firstSeen = findings[key].firstSeen
      /\ f.lastSeen = fiNow /\ f.status = "OPEN" /\ f.isKEV = b
      /\ f.severity = SeverityOf(key[2], b)
  BY <1>1, UpdatedFinding
<1>3. findings' = Put(findings, key, f) /\ byID' = Put(byID, f.id, key)
  BY DEF UpsertFinding
<1> HIDE DEF f
<1>4. /\ DOMAIN findings' = DOMAIN findings /\ findings'[key] = f
      /\ \A k \in DOMAIN findings : k # key => findings'[k] = findings[k]
  <2>1. DOMAIN findings' = DOMAIN findings \cup {key}
    BY <1>3, PutAt
  <2>2. findings'[key] = f
    BY <1>3, <2>1 DEF Put
  <2>3. \A k \in DOMAIN findings : k # key => findings'[k] = findings[k]
    BY <1>3, <2>1 DEF Put
  <2> QED
    BY <2>1, <2>2, <2>3
<1>5. f.id \in DOMAIN byID /\ byID[f.id] = key
  BY <1>1, <1>2 DEF IdsOK
<1>6. DOMAIN byID' = DOMAIN byID /\ \A i \in DOMAIN byID : byID'[i] = byID[i]
  BY <1>3, <1>5, PutAt
<1>7. RecordsOK'
  <2>1. fiNow' \in Nat /\ knownCVEs' \in SUBSET CVEs
        /\ DOMAIN findings' \in SUBSET (Endpoint \X CVEs) /\ fiNow \in Nat
    BY <1>1, <1>4 DEF RecordsOK
  <2>2. ASSUME NEW k \in DOMAIN findings'
        PROVE  /\ findings'[k] \in Finding
               /\ findings'[k].severity = SeverityOf(k[2], findings'[k].isKEV)
               /\ findings'[k].lastSeen <= fiNow'
    <3>1. CASE k = key
      BY <1>2, <1>4, <2>1, <3>1
    <3>2. CASE k # key
      BY <1>1, <1>4, <2>2, <3>2 DEF RecordsOK
    <3> QED
      BY <3>1, <3>2
  <2>3. \A c, v : SeverityOf(c, v)' = SeverityOf(c, v)
    BY DEF SeverityOf
  <2> QED
    BY <2>1, <2>2 DEF RecordsOK, SeverityOf
<1>8. IdsOK'
  <2>1. \A k \in DOMAIN findings : findings'[k].id = findings[k].id
    BY <1>2, <1>4
  <2> QED
    BY <1>1, <1>4, <1>6, <2>1 DEF IdsOK
<1>9. Kept /\ Recorded(key, fiNow)'
  <2>1. findings[key] \in Finding /\ findings[key].lastSeen <= fiNow
        /\ \A k \in DOMAIN findings : findings[k] \in Finding
        /\ fiNow \in Nat
    BY <1>1 DEF RecordsOK
  <2>2. \A k \in DOMAIN findings : findings[k].lastSeen \in Nat /\ findings[k].status = "OPEN"
    BY <2>1 DEF Finding
  <2>3. \A k \in DOMAIN findings : findings'[k].lastSeen >= findings[k].lastSeen
    BY <1>2, <1>4, <2>1, <2>2
  <2> QED
    BY <1>2, <1>4, <2>1, <2>2, <2>3 DEF Kept, Recorded
<1> QED
  BY <1>7, <1>8, <1>9

LEMMA InsertStep ==
  ASSUME FiInv, NEW key \in Endpoint \X CVEs, key \notin DOMAIN findings, NEW b \in BOOLEAN,
         UpsertFinding(key, b), UNCHANGED <<fiNow, knownCVEs>>
  PROVE  RecordsOK' /\ IdsOK' /\ Kept /\ Recorded(key, fiNow)'
<1> DEFINE f == Fresh(b, key[2])
           n == Cardinality(DOMAIN byID)
<1>1. RecordsOK /\ IdsOK
  BY DEF FiInv
<1>2. /\ f \in Finding /\ f.id = n + 1 /\ f.lastSeen = fiNow /\ f.status = "OPEN"
      /\ f.isKEV = b /\ f.severity = SeverityOf(key[2], b)
  <2>1. key[2] \in CVEs
    OBVIOUS
  <2> QED
    BY <1>1, <2>1, FreshFinding
<1>3. findings' = Put(findings, key, f) /\ byID' = Put(byID, f.id, key)
  BY DEF UpsertFinding
<1>4. n \in Nat /\ DOMAIN byID = 1..n
  BY <1>1 DEF IdsOK
<1> HIDE DEF f, n
<1>5. /\ DOMAIN findings' = DOMAIN findings \cup {key} /\ findings'[key] = f
      /\ \A k \in DOMAIN findings : findings'[k] = findings[k]
  <2>1. DOMAIN findings' = DOMAIN findings \cup {key}
    BY <1>3, PutAt
  <2>2. findings'[key] = f
    BY <1>3, <2>1 DEF Put
  <2>3. \A k \in DOMAIN findings : k # key => findings'[k] = findings[k]
    BY <1>3, <2>1 DEF Put
  <2> QED
    BY <2>1, <2>2, <2>3
<1>6. n + 1 \notin DOMAIN byID /\ (1..n) \cup {n + 1} = 1..(n + 1)
  BY <1>4
<1>7. DOMAIN byID' = 1..(n + 1) /\ byID'[n + 1] = key
      /\ \A i \in DOMAIN byID : byID'[i] = byID[i]
  <2>1. byID' = Put(byID, n + 1, key)
    BY <1>2, <1>3
  <2>2. DOMAIN byID' = DOMAIN byID \cup {n + 1}
    BY <2>1, PutAt
  <2>3. byID'[n + 1] = key
    BY <2>1, <2>2 DEF Put
  <2>4. \A i \in DOMAIN byID : i # n + 1 => byID'[i] = byID[i]
    BY <2>1, <2>2 DEF Put
  <2> QED
    BY <1>4, <1>6, <2>2, <2>3, <2>4
<1>8. RecordsOK'
  <2>1. fiNow' \in Nat /\ knownCVEs' \in SUBSET CVEs
        /\ DOMAIN findings' \in SUBSET (Endpoint \X CVEs) /\ fiNow \in Nat
    BY <1>1, <1>5 DEF RecordsOK
  <2>2. ASSUME NEW k \in DOMAIN findings'
        PROVE  /\ findings'[k] \in Finding
               /\ findings'[k].severity = SeverityOf(k[2], findings'[k].isKEV)
               /\ findings'[k].lastSeen <= fiNow'
    <3>1. CASE k = key
      BY <1>2, <1>5, <2>1, <3>1
    <3>2. CASE k # key
      <4>1. k \in DOMAIN findings /\ findings'[k] = findings[k]
        BY <1>5, <2>2, <3>2
      <4> QED
        BY <1>1, <4>1 DEF RecordsOK
    <3> QED
      BY <3>1, <3>2
  <2> QED
    BY <2>1, <2>2 DEF RecordsOK, SeverityOf
<1>9. IdsOK'
  <2>1. Cardinality(1..(n + 1)) = n + 1
    BY <1>4, FS_Interval
  <2>2. Cardinality(DOMAIN byID') = n + 1
    BY <1>7, <2>1
  <2>3. \A k \in DOMAIN findings' :
          findings'[k].id \in DOMAIN byID' /\ byID'[findings'[k].id] = k
    <3> TAKE k \in DOMAIN findings'
    <3>1. CASE k = key
      BY <1>2, <1>4, <1>5, <1>7, <3>1
    <3>2. CASE k \in DOMAIN findings
      <4>1. findings'[k].id \in 1..n /\ byID[findings'[k].id] = k
        BY <1>1, <1>4, <1>5, <3>2 DEF IdsOK
      <4> QED
        BY <1>4, <1>7, <4>1
    <3> QED
      BY <1>5, <3>1, <3>2
  <2>4. \A i \in DOMAIN byID' :
          byID'[i] \in DOMAIN findings' /\ findings'[byID'[i]].id = i
    <3> TAKE i \in DOMAIN byID'
    <3>1. CASE i = n + 1
      BY <1>2, <1>5, <1>7, <3>1
    <3>2. CASE i # n + 1
      <4>1. i \in DOMAIN byID
        BY <1>4, <1>7, <3>2
      <4> QED
        BY <1>1, <1>5, <1>7, <4>1 DEF IdsOK
    <3> QED
      BY <3>1, <3>2
  <2>5. n + 1 \in Nat
    BY <1>4
  <2> QED
    BY <1>7, <2>2, <2>3, <2>4, <2>5 DEF IdsOK
<1>10. Kept /\ Recorded(key, fiNow)'
  <2>1. fiNow \in Nat /\ \A k \in DOMAIN findings : findings[k] \in Finding
    BY <1>1 DEF RecordsOK
  <2>2. \A k \in DOMAIN findings : findings[k].lastSeen \in Nat /\ findings[k].status = "OPEN"
    BY <2>1 DEF Finding
  <2>3. \A k \in DOMAIN findings : findings'[k].lastSeen >= findings[k].lastSeen
    BY <1>5, <2>2
  <2> QED
    BY <1>2, <1>5, <2>1, <2>2, <2>3 DEF Kept, Recorded
<1> QED
  BY <1>8, <1>9, <1>10

(* A scan that does not move stays in order while findings are kept. *)
LEMMA ScanStays ==
  ASSUME NEW t, ScanOK(t), Kept, fiNow' >= fiNow, fiNow \in Nat, fiNow' \in Nat,
         RecordsOK, RecordsOK'
  PROVE  ScanOK(t)'
<1>1. t \in ScanRecord
  BY DEF ScanOK
<1>2. t.began \in Nat /\ t.began <= fiNow'
  BY <1>1 DEF ScanOK, ScanRecord
<1>3. \A k : Recorded(k, t.began) => Recorded(k, t.began)'
  <2> SUFFICES ASSUME NEW k, Recorded(k, t.began) PROVE Recorded(k, t.began)'
    OBVIOUS
  <2>1. k \in DOMAIN findings /\ findings[k].lastSeen >= t.began
    BY DEF Recorded
  <2>2. k \in DOMAIN findings' /\ findings'[k].lastSeen >= findings[k].lastSeen
        /\ findings'[k].status = "OPEN" /\ findings[k].lastSeen \in Nat /\ findings'[k].lastSeen \in Nat
    BY <2>1 DEF Kept, RecordsOK, Finding
  <2>3. findings'[k].lastSeen >= t.began
    BY <1>2, <2>1, <2>2
  <2> QED
    BY <2>2, <2>3 DEF Recorded
<1> QED
  BY <1>1, <1>2, <1>3 DEF ScanOK

LEMMA MinOfNaturals ==
  ASSUME NEW T, T \in SUBSET Nat, T # {}
  PROVE  Min(T) \in T /\ \A k \in T : Min(T) <= k
BY Least DEF Min

(* When findings and identifiers stay, so does what is said of them. *)
LEMMA RecordsStay ==
  ASSUME RecordsOK, IdsOK, UNCHANGED <<findings, byID>>, fiNow' \in Nat, fiNow' >= fiNow,
         knownCVEs' \in SUBSET CVEs
  PROVE  RecordsOK' /\ IdsOK' /\ Kept
<1>1. fiNow \in Nat
      /\ \A k \in DOMAIN findings : findings[k].lastSeen \in Nat /\ findings[k].status = "OPEN"
  BY DEF RecordsOK, Finding
<1>2. \A k \in DOMAIN findings : findings[k].lastSeen <= fiNow'
  BY <1>1 DEF RecordsOK
<1>3. RecordsOK'
  BY <1>2 DEF RecordsOK, SeverityOf
<1>4. IdsOK'
  BY DEF IdsOK
<1>5. Kept
  BY <1>1 DEF Kept
<1> QED
  BY <1>3, <1>4, <1>5

(* The clock and the caches move. *)
LEMMA CacheStep ==
  ASSUME FiInv, UNCHANGED <<findings, byID, scan>>, fiNow' \in Nat, fiNow' >= fiNow,
         knownCVEs' \in SUBSET CVEs
  PROVE  FiInv' /\ Kept
<1>1. RecordsOK /\ IdsOK /\ ScansOK /\ fiNow \in Nat
  BY DEF FiInv, RecordsOK
<1>2. RecordsOK' /\ IdsOK' /\ Kept
  BY <1>1, RecordsStay
<1>3. \A s \in Scan : ScanOK(scan[s]) => ScanOK(scan[s])'
  <2> SUFFICES ASSUME NEW s \in Scan, ScanOK(scan[s]) PROVE ScanOK(scan[s])'
    OBVIOUS
  <2> DEFINE t == scan[s]
  <2>1. \A u : ScanOK(u) => ScanOK(u)'
    BY <1>1, <1>2, ScanStays
  <2>2. scan'[s] = scan[s]
    OBVIOUS
  <2> QED
    BY <2>1, <2>2 DEF ScanOK, Recorded
<1>4. ScansOK'
  BY <1>1, <1>3 DEF ScansOK
<1> QED
  BY <1>2, <1>4 DEF FiInv

(* One scan moves and records nothing. *)
LEMMA OneScan ==
  ASSUME FiInv, NEW s \in Scan, NEW t, scan' = [scan EXCEPT ![s] = t],
         UNCHANGED <<fiNow, caches, findings, byID>>, t = NoScan \/ ScanOK(t)
  PROVE  FiInv' /\ Kept
<1>1. RecordsOK /\ IdsOK /\ ScansOK /\ fiNow \in Nat
  BY DEF FiInv, RecordsOK
<1>2. RecordsOK' /\ IdsOK' /\ Kept
  <2>1. fiNow' = fiNow /\ knownCVEs' \in SUBSET CVEs
    BY <1>1 DEF RecordsOK, caches
  <2> QED
    BY <1>1, <2>1, RecordsStay
<1>3. \A r \in Scan : scan'[r] = NoScan \/ ScanOK(scan'[r])
  BY <1>1 DEF ScansOK
<1>4. \A u : ScanOK(u) => ScanOK(u)'
  BY DEF ScanOK, Recorded
<1>5. ScansOK'
  <2>1. DOMAIN scan' = Scan
    BY <1>1 DEF ScansOK
  <2>2. \A r \in Scan : (scan[r] = NoScan \/ ScanOK(scan[r]))'
    BY <1>3, <1>4 DEF ScanOK, Recorded
  <2> QED
    BY <2>1, <2>2 DEF ScansOK
<1> QED
  BY <1>2, <1>5 DEF FiInv

LEMMA BeginScan ==
  ASSUME FiInv, NEW s \in Scan, NEW e \in Endpoint, NEW host \in Inventory, ScanBegins(s, e, host)
  PROVE  FiInv' /\ Kept
<1> DEFINE t == [pc |-> "matching", endpoint |-> e, host |-> host, cpes |-> ExtractHostCPEs(host),
                 cached |-> knownCVEs, seen |-> {}, began |-> fiNow,
                 cve |-> NoCVE, isKEV |-> FALSE]
<1>1. knownCVEs \in SUBSET CVEs /\ fiNow \in Nat
  BY DEF FiInv, RecordsOK
<1>2. t \in ScanRecord
  BY <1>1 DEF ScanRecord
<1>3. ScanOK(t)
  BY <1>1, <1>2 DEF ScanOK
<1>4. scan' = [scan EXCEPT ![s] = t] /\ UNCHANGED <<fiNow, caches, findings, byID>>
  BY DEF ScanBegins
<1> HIDE DEF t
<1> QED
  BY <1>3, <1>4, OneScan

LEMMA LookupStep ==
  ASSUME FiInv, NEW s \in Scan, GetKEVItem(s)
  PROVE  FiInv' /\ Kept
<1> DEFINE r == scan[s]
           some == {i \in DOMAIN scan[s].cpes : Unseen(s, i) # {}}
<1>1. scan[s].pc = "matching" /\ some # {}
  BY DEF GetKEVItem
<1>2. PICK c \in Unseen(s, Min(some)) :
        scan' = [scan EXCEPT ![s].pc = "recording", ![s].seen = @ \cup {c},
                             ![s].cve = c, ![s].isKEV = c \in kevCatalog]
  BY DEF GetKEVItem
<1>3. ScanOK(r) /\ DOMAIN scan = Scan
  BY <1>1 DEF FiInv, ScansOK, NoScan
<1>4. some \in SUBSET Nat
  <2>1. r.cpes = ExtractHostCPEs(r.host) /\ r.host \in Inventory
    BY <1>3 DEF ScanOK, ScanRecord
  <2> QED
    BY <2>1, CPEsAreAList
<1>5. Min(some) \in DOMAIN r.cpes
  <2> HIDE DEF some
  <2>1. Min(some) \in some
    BY <1>1, <1>4, MinOfNaturals
  <2> QED
    BY <2>1 DEF some
<1>6. c \in r.cached /\ FitsSome(r.cpes, c)
  BY <1>2, <1>5 DEF Unseen, FitsSome
<1> DEFINE t == [r EXCEPT !.pc = "recording", !.seen = @ \cup {c},
                          !.cve = c, !.isKEV = c \in kevCatalog]
<1>7. scan' = [scan EXCEPT ![s] = t]
  BY <1>2, <1>3
<1>8. r \in ScanRecord /\ r.pc # "recording"
  BY <1>1, <1>3 DEF ScanOK
<1>9. /\ t.pc = "recording" /\ t.endpoint = r.endpoint /\ t.host = r.host /\ t.cpes = r.cpes
      /\ t.cached = r.cached /\ t.seen = r.seen \cup {c} /\ t.began = r.began /\ t.cve = c
      /\ t.isKEV = (c \in kevCatalog)
  BY <1>8 DEF ScanRecord
<1>10. PICK b : b \in BOOLEAN /\ b = (c \in kevCatalog)
  <2>1. CASE c \in kevCatalog
    <3>1. (c \in kevCatalog) = TRUE
      BY <2>1
    <3>2. TRUE \in BOOLEAN
      OBVIOUS
    <3> QED
      BY <3>1, <3>2, Zenon
  <2>2. CASE c \notin kevCatalog
    <3>1. (c \in kevCatalog) = FALSE
      BY <2>2
    <3>2. FALSE \in BOOLEAN
      OBVIOUS
    <3> QED
      BY <3>1, <3>2, Zenon
  <2> QED
    BY <2>1, <2>2, Zenon
<1>11. t = [pc |-> "recording", endpoint |-> r.endpoint, host |-> r.host, cpes |-> r.cpes,
            cached |-> r.cached, seen |-> r.seen \cup {c}, began |-> r.began, cve |-> c,
            isKEV |-> b]
  <2>1. t = [r EXCEPT !.pc = "recording", !.seen = @ \cup {c}, !.cve = c, !.isKEV = b]
    BY <1>10, Zenon
  <2> HIDE DEF t
  <2> QED
    BY <1>8, <2>1 DEF ScanRecord
<1> HIDE DEF t, some
<1>12. t \in ScanRecord
  <2>1. c \in CVEs /\ r.seen \cup {c} \in SUBSET CVEs
    BY <1>6, <1>8 DEF ScanRecord
  <2>2. b \in BOOLEAN
    BY <1>10, Zenon
  <2> QED
    BY <1>8, <1>11, <2>1, <2>2 DEF ScanRecord
<1>13. ScanOK(t)
  BY <1>3, <1>6, <1>8, <1>9, <1>12 DEF ScanOK
<1>14. UNCHANGED <<fiNow, caches, findings, byID>>
  BY DEF GetKEVItem
<1> HIDE DEF r
<1> QED
  BY <1>7, <1>13, <1>14, OneScan

LEMMA RecordStep ==
  ASSUME FiInv, NEW s \in Scan, ScanRecords(s)
  PROVE  FiInv' /\ Kept
<1>1. PICK r : r = scan[s]
  OBVIOUS
<1> DEFINE key == <<r.endpoint, r.cve>>
           t == [pc |-> "matching", endpoint |-> r.endpoint, host |-> r.host, cpes |-> r.cpes,
                 cached |-> r.cached, seen |-> r.seen, began |-> r.began, cve |-> r.cve,
                 isKEV |-> r.isKEV]
<1>2. r.pc = "recording" /\ UpsertFinding(key, r.isKEV)
      /\ scan' = [scan EXCEPT ![s].pc = "matching"] /\ UNCHANGED <<fiNow, knownCVEs>>
  BY <1>1 DEF ScanRecords, caches
<1>3. ScanOK(r) /\ ScansOK /\ fiNow \in Nat /\ RecordsOK
  BY <1>1, <1>2 DEF FiInv, ScansOK, NoScan, RecordsOK
<1>4. r \in ScanRecord /\ r.cve \in r.seen /\ r.began <= fiNow /\ r.began \in Nat
  BY <1>2, <1>3 DEF ScanOK, ScanRecord
<1>5. key \in Endpoint \X CVEs /\ r.isKEV \in BOOLEAN
  <2>1. r.seen \in SUBSET CVEs /\ r.endpoint \in Endpoint /\ r.isKEV \in BOOLEAN
    BY <1>4 DEF ScanRecord
  <2> QED
    BY <1>4, <2>1
<1>6. RecordsOK' /\ IdsOK' /\ Kept /\ Recorded(key, fiNow)'
  <2> HIDE DEF key
  <2>1. CASE key \in DOMAIN findings
    BY <1>2, <1>5, <2>1, UpdateStep
  <2>2. CASE key \notin DOMAIN findings
    BY <1>2, <1>5, <2>2, InsertStep
  <2> QED
    BY <2>1, <2>2
<1>7. \A u : ScanOK(u) => ScanOK(u)'
  BY <1>2, <1>3, <1>6, ScanStays
<1>8. scan' = [scan EXCEPT ![s] = t]
  <2>1. [r EXCEPT !.pc = "matching"] = t
    BY <1>4 DEF ScanRecord
  <2> HIDE DEF t
  <2> QED
    BY <1>1, <1>2, <2>1
<1>9. t \in ScanRecord
  BY <1>4 DEF ScanRecord
<1>10. ScanOK(t)'
  <2>1. ScanOK(r)'
    BY <1>3, <1>7
  <2>2. Recorded(<<r.endpoint, r.cve>>, r.began)'
    <3>1. key \in DOMAIN findings' /\ findings'[key].status = "OPEN"
          /\ findings'[key].lastSeen >= fiNow'
      BY <1>6 DEF Recorded
    <3>2. findings'[key].lastSeen \in Nat /\ fiNow' = fiNow
      BY <1>2, <1>6, <3>1 DEF RecordsOK, Finding
    <3> QED
      BY <1>3, <1>4, <3>1, <3>2 DEF Recorded
  <2>3. \A c \in r.seen : FitsSome(r.cpes, c) /\ Recorded(<<r.endpoint, c>>, r.began)'
    BY <2>1, <2>2 DEF ScanOK
  <2>4. r.cpes = ExtractHostCPEs(r.host) /\ r.seen \subseteq r.cached /\ r.began <= fiNow'
    BY <1>2, <1>3, <1>4 DEF ScanOK
  <2> QED
    BY <1>9, <2>3, <2>4 DEF ScanOK
<1> HIDE DEF t
<1>11. ScansOK'
  <2>1. DOMAIN scan' = Scan
    BY <1>3, <1>8 DEF ScansOK
  <2>2. ASSUME NEW q \in Scan PROVE (scan[q] = NoScan \/ ScanOK(scan[q]))'
    <3>1. PICK u : u = scan[q]
      OBVIOUS
    <3>2. CASE q = s
      <4>1. scan'[q] = t
        BY <1>3, <1>8, <3>2 DEF ScansOK
      <4> QED
        BY <1>10, <4>1 DEF ScanOK, Recorded
    <3>3. CASE q # s
      <4>1. scan'[q] = u /\ (u = NoScan \/ ScanOK(u))
        BY <1>3, <1>8, <3>1, <3>3 DEF ScansOK
      <4>2. u = NoScan \/ ScanOK(u)'
        BY <1>7, <4>1
      <4> QED
        BY <4>1, <4>2 DEF ScanOK, Recorded
    <3> QED
      BY <3>2, <3>3
  <2> QED
    BY <2>1, <2>2 DEF ScansOK
<1> QED
  BY <1>6, <1>11 DEF FiInv

LEMMA NextFindings == FiInv /\ [FiNext]_fiVars => FiInv' /\ (Kept \/ UNCHANGED fiVars)
<1> SUFFICES ASSUME FiInv, [FiNext]_fiVars PROVE FiInv' /\ Kept
  OBVIOUS
<1>1. fiNow \in Nat /\ knownCVEs \in SUBSET CVEs
  BY DEF FiInv, RecordsOK
<1>2. CASE FiTick
  <2>1. fiNow' = fiNow + 1 /\ UNCHANGED <<findings, byID, scan>> /\ knownCVEs' = knownCVEs
    BY <1>2 DEF FiTick, caches
  <2> QED
    BY <1>1, <2>1, CacheStep
<1>3. CASE \E items \in SUBSET DOMAIN Feed : SaveKEVCatalog(items)
  <2>1. fiNow' = fiNow /\ UNCHANGED <<findings, byID, scan>> /\ knownCVEs' = knownCVEs
    BY <1>3 DEF SaveKEVCatalog
  <2> QED
    BY <1>1, <2>1, CacheStep
<1>4. CASE \E c \in DOMAIN Feed : CacheCVE(c)
  <2>1. fiNow' = fiNow /\ UNCHANGED <<findings, byID, scan>> /\ knownCVEs' \in SUBSET CVEs
    BY <1>1, <1>4 DEF CacheCVE, CVEs
  <2> QED
    BY <1>1, <2>1, CacheStep
<1>5. ASSUME NEW s \in Scan, ScanSnapshot(s) PROVE FiInv' /\ Kept
  <2>1. CASE \E e \in Endpoint, host \in Inventory : ScanBegins(s, e, host)
    BY <2>1, BeginScan
  <2>2. CASE GetKEVItem(s)
    BY <2>2, LookupStep
  <2>3. CASE ScanRecords(s)
    BY <2>3, RecordStep
  <2>4. CASE ScanReturns(s)
    BY <2>4, OneScan DEF ScanReturns
  <2> QED
    BY <1>5, <2>1, <2>2, <2>3, <2>4 DEF ScanSnapshot
<1>6. CASE UNCHANGED fiVars
  <2>1. fiNow' = fiNow /\ UNCHANGED <<findings, byID, scan>> /\ knownCVEs' = knownCVEs
    BY <1>6 DEF fiVars
  <2> QED
    BY <1>1, <2>1, CacheStep
<1> QED
  BY <1>2, <1>3, <1>4, <1>5, <1>6 DEF FiNext

LEMMA FiInvariant == FiSpec => []FiInv
<1>1. FiInit => FiInv
  <2> SUFFICES ASSUME FiInit PROVE FiInv
    OBVIOUS
  <2>1. DOMAIN findings = {} /\ DOMAIN byID = {}
    BY DEF FiInit
  <2>2. Cardinality({}) = 0 /\ 1..0 = {}
    BY FS_EmptySet
  <2>3. RecordsOK
    BY <2>1 DEF FiInit, RecordsOK
  <2>4. IdsOK
    BY <2>1, <2>2 DEF IdsOK
  <2>5. ScansOK
    BY DEF FiInit, ScansOK
  <2> QED
    BY <2>3, <2>4, <2>5 DEF FiInv
<1> QED
  BY <1>1, NextFindings, PTL DEF FiSpec

(* Whatever scans find a finding again, its identifier and first sighting  *)
(* stay, its last sighting never goes back, and every identifier leads to  *)
(* its finding (UpsertFinding), for any number of scans at once.           *)
THEOREM IdentityIsKept == FiSpec => FindingsKeepTheirIdentity
<1> DEFINE Step ==
      /\ \A k \in DOMAIN findings :
           /\ k \in DOMAIN findings'
           /\ findings'[k].id = findings[k].id
           /\ findings'[k].firstSeen = findings[k].firstSeen
           /\ findings'[k].lastSeen >= findings[k].lastSeen
      /\ \A id \in DOMAIN byID' : GetFindingByID(id)'.id = id
<1>1. FiInv /\ [FiNext]_fiVars => [Step]_fiVars
  <2> SUFFICES ASSUME FiInv, [FiNext]_fiVars, ~(UNCHANGED fiVars) PROVE Step
    OBVIOUS
  <2>1. FiInv' /\ Kept
    BY NextFindings
  <2>2. \A id \in DOMAIN byID' : findings'[byID'[id]].id = id
    BY <2>1 DEF FiInv, IdsOK
  <2> QED
    BY <2>1, <2>2 DEF Kept, GetFindingByID
<1>2. FiSpec => []FiInv
  BY FiInvariant
<1> QED
  BY <1>1, <1>2, PTL DEF FiSpec, FindingsKeepTheirIdentity, Step

-----------------------------------------------------------------------------
(* The order of QueryFindings *)

LEMMA ScoreType == ASSUME RecordsOK, NEW k \in DOMAIN findings PROVE Score(k) \in Nat
<1>1. k[2] \in CVEs
  BY DEF RecordsOK
<1>2. Feed[k[2]].severity \in Severities
  BY <1>1, FindingsAssumption DEF CVEs
<1>3. \A v \in Severities : Rank[v] \in Nat
  BY DEF Severities, Rank
<1> QED
  BY <1>2, <1>3 DEF Score

LEMMA FindingsAreFinite == ASSUME FiInv PROVE IsFiniteSet(DOMAIN findings)
<1> DEFINE f == [k \in DOMAIN findings |-> findings[k].id]
           n == Cardinality(DOMAIN byID)
<1>1. IdsOK /\ n \in Nat
  BY DEF FiInv, IdsOK
<1>2. f \in Injection(DOMAIN findings, 1..n)
  <2>1. \A k \in DOMAIN findings : f[k] \in 1..n
    BY <1>1 DEF IdsOK
  <2>2. \A k, l \in DOMAIN findings : f[k] = f[l] => k = l
    BY <1>1 DEF IdsOK
  <2> QED
    BY <2>1, <2>2 DEF Injection, IsInjective
<1>3. IsFiniteSet(1..n)
  BY <1>1, FS_Interval
<1> HIDE DEF f
<1> QED
  BY <1>2, <1>3, FS_Injection

Precede(K) == [k \in K |-> {l \in K : Before(l, k)}]

LEMMA BeforeIsAnOrder ==
  ASSUME FiInv, NEW K \in SUBSET DOMAIN findings
  PROVE  OrdersAll(K, Precede(K))
<1>1. IsFiniteSet(K)
  BY FindingsAreFinite, FS_Subset
<1>2. /\ \A k \in K : /\ findings[k].isKEV \in BOOLEAN /\ Score(k) \in Nat
                      /\ findings[k].lastSeen \in Nat /\ findings[k].id \in Nat
      /\ \A k, l \in K : findings[k].id = findings[l].id => k = l
  BY ScoreType DEF FiInv, RecordsOK, IdsOK, Finding
<1>3. \A k \in K : ~Before(k, k)
  BY <1>2 DEF Before
<1>4. \A k, l \in K : k = l \/ Before(k, l) \/ Before(l, k)
  BY <1>2 DEF Before
<1>5. \A k, l, m \in K : Before(k, l) /\ Before(l, m) => Before(k, m)
  <2> TAKE k \in K, l \in K, m \in K
  <2> HAVE Before(k, l) /\ Before(l, m)
  <2> DEFINE a(x) == findings[x].isKEV
  <2>1. a(k) \in BOOLEAN /\ a(l) \in BOOLEAN /\ a(m) \in BOOLEAN
    BY <1>2
  <2>2. a(k) # a(l) \/ a(l) # a(m) => a(k) # a(m) /\ a(k)
    BY <2>1, <1>2 DEF Before
  <2> QED
    BY <1>2, <2>1, <2>2 DEF Before
<1> QED
  BY <1>1, <1>3, <1>4, <1>5 DEF OrdersAll, Precede

LEMMA ListedInOrder ==
  ASSUME FiInv, NEW K \in SUBSET DOMAIN findings
  PROVE  Enumerates(InOrder(K, Before), K, Precede(K))
<1> DEFINE at == InOrder(K, Before)
<1>1. OrdersAll(K, Precede(K))
  BY BeforeIsAnOrder
<1>2. \A n \in 1..Cardinality(K) : \E k \in K : Cardinality(Precede(K)[k]) = n - 1
  BY <1>1, EveryPlaceIsTaken
<1>3. \A n \in 1..Cardinality(K) :
        \E k \in K : Cardinality({l \in K : Before(l, k)}) = n - 1
  BY <1>2 DEF Precede
<1>4. \A n \in 1..Cardinality(K) :
        at[n] \in K /\ Cardinality({l \in K : Before(l, at[n])}) = n - 1
  BY <1>3 DEF InOrder
<1>5. at \in [1..Cardinality(K) -> K]
  BY <1>4 DEF InOrder
<1>6. \A n \in 1..Cardinality(K) : Cardinality(Precede(K)[at[n]]) = n - 1
  BY <1>4 DEF Precede
<1> HIDE DEF at
<1>7. Enumerates(at, K, Precede(K))
  BY <1>1, <1>5, <1>6, PlacedInOrder
<1> QED
  BY <1>7 DEF at

(* The place of a KEV finding is within the number of KEV findings, that   *)
(* of an other one beyond it.                                              *)
LEMMA KEVsComeFirst ==
  ASSUME FiInv, NEW i \in 1..Cardinality(DOMAIN findings)
  PROVE  LET k == InOrder(DOMAIN findings, Before)[i]
         IN findings[k].isKEV <=> i <= Cardinality({l \in DOMAIN findings : findings[l].isKEV})
<1> DEFINE K == DOMAIN findings
           at == InOrder(K, Before)
           k == at[i]
           kevs == {l \in K : findings[l].isKEV}
           before == {l \in K : Before(l, k)}
<1>1. Enumerates(at, K, Precede(K))
  BY ListedInOrder
<1>2. k \in K /\ Cardinality(before) = i - 1 /\ i \in Nat /\ i > 0
  <2> HIDE DEF at
  <2>1. k \in K /\ Cardinality(Precede(K)[k]) = i - 1
    BY <1>1 DEF Enumerates
  <2>2. Precede(K)[k] = before
    BY <2>1 DEF Precede
  <2>3. Cardinality(K) \in Nat
    BY <1>1 DEF Enumerates
  <2>4. i \in Nat /\ i > 0
    BY <2>3
  <2>5. Cardinality(before) = i - 1
    <3> HIDE DEF before, k, K
    <3> QED
      BY <2>1, <2>2
  <2> QED
    BY <2>1, <2>4, <2>5
<1>3. IsFiniteSet(kevs) /\ IsFiniteSet(before) /\ Cardinality(kevs) \in Nat
  <2>1. IsFiniteSet(K)
    BY FindingsAreFinite
  <2>2. kevs \in SUBSET K /\ before \in SUBSET K
    OBVIOUS
  <2> HIDE DEF K, kevs, before
  <2> QED
    BY <2>1, <2>2, FS_Subset, FS_CardinalityType
<1>4. \A l \in K : findings[l].isKEV \in BOOLEAN
  BY DEF FiInv, RecordsOK, Finding
<1>5. findings[k].isKEV => i <= Cardinality(kevs)
  <2> HAVE findings[k].isKEV
  <2>1. before \cup {k} \subseteq kevs
    <3>1. \A l \in K : Before(l, k) => findings[l].isKEV
      <4> HIDE DEF k
      <4> QED
        BY <1>2, <1>4 DEF Before
    <3> HIDE DEF k
    <3> QED
      BY <1>2, <3>1
  <2>2. k \notin before
    <3>1. OrdersAll(K, Precede(K))
      BY BeforeIsAnOrder
    <3>2. k \notin Precede(K)[k]
      <4> HIDE DEF k
      <4> QED
        BY <1>2, <3>1 DEF OrdersAll
    <3> HIDE DEF k
    <3> QED
      BY <1>2, <3>2 DEF Precede
  <2> HIDE DEF before, kevs, k
  <2>3. Cardinality(before \cup {k}) = i
    <3>1. Cardinality(before \cup {k}) = Cardinality(before) + 1
      BY <1>3, <2>2, FS_AddElement
    <3> QED
      BY <1>2, <3>1
  <2>4. Cardinality(before \cup {k}) <= Cardinality(kevs)
    BY <1>3, <2>1, FS_Subset
  <2> QED
    BY <2>3, <2>4
<1>6. ~findings[k].isKEV => ~(i <= Cardinality(kevs))
  <2> HAVE ~findings[k].isKEV
  <2>1. kevs \subseteq before
    <3> HIDE DEF k
    <3> QED
      BY <1>2, <1>4 DEF Before
  <2> HIDE DEF before, kevs, k
  <2>2. Cardinality(kevs) <= i - 1
    BY <1>2, <1>3, <2>1, FS_Subset
  <2> QED
    BY <1>2, <1>3, <2>2
<1> QED
  BY <1>5, <1>6, <1>2, <1>4

(* A page of a sorted list of findings: the first of it, or all. *)
LEMMA PageOf ==
  ASSUME FiInv, NEW v \in {"any", "yes"}, NEW limit \in Nat
  PROVE  LET kept == {k \in DOMAIN findings : v = "any" \/ findings[k].isKEV}
             at == InOrder(kept, Before)
             n == IF limit <= Cardinality(kept) THEN limit ELSE Cardinality(kept)
         IN /\ Cardinality(kept) \in Nat
            /\ DOMAIN QueryFindings(v, 0, limit) = 1..n
            /\ Len(QueryFindings(v, 0, limit)) = n
            /\ \A i \in 1..n : QueryFindings(v, 0, limit)[i] = findings[at[i]]
<1> DEFINE kept == {k \in DOMAIN findings : v = "any" \/ findings[k].isKEV}
           at == InOrder(kept, Before)
           N == Cardinality(kept)
           n == IF limit <= N THEN limit ELSE N
           page == SubSeq(at, 1, n)
<1>1. kept = {k \in DOMAIN findings : v = "any" \/ findings[k].isKEV = (v = "yes")}
  <2>1. \A k \in DOMAIN findings : findings[k].isKEV \in BOOLEAN
    BY DEF FiInv, RecordsOK, Finding
  <2>2. v # "any" => v = "yes"
    OBVIOUS
  <2>3. \A k \in DOMAIN findings : findings[k].isKEV = TRUE <=> findings[k].isKEV
    BY <2>1
  <2>4. CASE v = "any"
    BY <2>4
  <2>5. CASE v # "any"
    <3>1. (v = "yes") = TRUE
      BY <2>2, <2>5
    <3>2. kept = {k \in DOMAIN findings : v = "any" \/ findings[k].isKEV = TRUE}
      BY <2>3
    <3> QED
      BY <3>1, <3>2, Zenon
  <2> QED
    BY <2>4, <2>5
<1>2. kept \in SUBSET DOMAIN findings
  OBVIOUS
<1> HIDE DEF kept
<1>3. Enumerates(at, kept, Precede(kept))
  BY <1>2, ListedInOrder
<1>4. N \in Nat /\ at \in [1..N -> kept]
  BY <1>3 DEF Enumerates
<1> HIDE DEF at, N
<1>5. at \in Seq(kept) /\ Len(at) = N
  BY <1>4
<1>6. n \in Nat /\ n <= N
  BY <1>4
<1>7. Min({0 + limit, Len(at)}) = n
  <2>1. Min({limit, N}) = n
    BY <1>4, MinOfTwo
  <2> QED
    BY <1>5, <2>1
<1> HIDE DEF n
<1>8. DOMAIN page = 1..n /\ \A i \in 1..n : page[i] = at[i]
  BY <1>4, <1>5, <1>6
<1>9. QueryFindings(v, 0, limit) = [i \in DOMAIN page |-> findings[page[i]]]
  <2>1. 0 + 1 = 1
    OBVIOUS
  <2> QED
    BY <1>1, <1>7, <2>1, Zenon DEF QueryFindings, at
<1> HIDE DEF page
<1>10. /\ DOMAIN QueryFindings(v, 0, limit) = 1..n
       /\ \A i \in 1..n : QueryFindings(v, 0, limit)[i] = findings[at[i]]
  BY <1>8, <1>9
<1>11. Len(QueryFindings(v, 0, limit)) = n
  BY <1>6, <1>10
<1> QED
  BY <1>4, <1>10, <1>11 DEF n, N, at, kept

(* Whenever the KEV catalogue changed between a lookup and its record, a   *)
(* KEV finding is critical and an other has the severity of NVD, and no    *)
(* first page shows an other above or instead of a KEV finding.            *)
THEOREM KEVsLead == FiSpec => []KEVComesFirst
<1>1. FiInv => KEVComesFirst
  <2> SUFFICES ASSUME FiInv PROVE KEVComesFirst
    OBVIOUS
  <2> DEFINE K == DOMAIN findings
             kevs == {l \in K : findings[l].isKEV}
             at == InOrder(K, Before)
  <2>1. Cardinality(K) \in Nat /\ Cardinality(kevs) \in Nat
        /\ Cardinality(kevs) <= Cardinality(K)
    <3>1. IsFiniteSet(K)
      BY FindingsAreFinite
    <3>2. kevs \in SUBSET K
      OBVIOUS
    <3> HIDE DEF K, kevs
    <3> QED
      BY <3>1, <3>2, FS_Subset, FS_CardinalityType
  <2>2. Len(QueryFindings("yes", 0, Cardinality(K))) = Cardinality(kevs)
    <3>1. kevs = {k \in K : "yes" = "any" \/ findings[k].isKEV}
      OBVIOUS
    <3> HIDE DEF kevs
    <3> QED
      BY <2>1, <3>1, PageOf
  <2>3. ASSUME NEW limit \in 1..2, NEW i \in DOMAIN QueryFindings("any", 0, limit)
        PROVE  QueryFindings("any", 0, limit)[i].isKEV <=> i <= Cardinality(kevs)
    <3>1. {k \in DOMAIN findings : "any" = "any" \/ findings[k].isKEV} = K
      OBVIOUS
    <3>2. /\ i \in 1..(IF limit <= Cardinality(K) THEN limit ELSE Cardinality(K))
          /\ QueryFindings("any", 0, limit)[i] = findings[at[i]]
      <4>1. limit \in Nat
        OBVIOUS
      <4>2. /\ DOMAIN QueryFindings("any", 0, limit) =
                  1..(IF limit <= Cardinality(K) THEN limit ELSE Cardinality(K))
            /\ \A j \in 1..(IF limit <= Cardinality(K) THEN limit ELSE Cardinality(K)) :
                 QueryFindings("any", 0, limit)[j] = findings[at[j]]
        BY <3>1, <4>1, PageOf, Zenon
      <4> QED
        BY <4>2, <2>3, Zenon
    <3>3. i \in 1..Cardinality(K)
      BY <2>1, <3>2
    <3>4. findings[at[i]].isKEV <=> i <= Cardinality(kevs)
      BY <3>3, KEVsComeFirst
    <3> QED
      BY <3>2, <3>4
  <2>4. \A k \in K : findings[k].severity = SeverityOf(k[2], findings[k].isKEV)
    BY DEF FiInv, RecordsOK
  <2> QED
    BY <2>2, <2>3, <2>4 DEF KEVComesFirst
<1> QED
  BY <1>1, FiInvariant, PTL

-----------------------------------------------------------------------------
(* Versions *)

(* A number of two digits of which the first decides. *)
LEMMA FirstDigitDecides ==
  ASSUME NEW M \in Nat, NEW a \in Nat, NEW x \in Nat, a < x, NEW r \in 0..(M - 1), NEW q \in Nat
  PROVE  a * M + r < x * M + q
<1>1. PICK d \in Nat : x = a + 1 + d
  <2>1. x - a - 1 \in Nat /\ x = a + 1 + (x - a - 1)
    OBVIOUS
  <2> QED
    BY <2>1
<1>2. x * M = a * M + M + d * M
  BY <1>1
<1>3. a * M \in Nat /\ d * M \in Nat
  OBVIOUS
<1> QED
  BY <1>2, <1>3

LEMMA TwoDigits ==
  ASSUME NEW B \in Nat, NEW b \in 0..(B - 1), NEW c \in 0..(B - 1)
  PROVE  b * B + c \in 0..(B * B - 1)
<1>1. PICK e \in Nat : B = b + e + 1
  <2>1. B - b - 1 \in Nat /\ B = b + (B - b - 1) + 1
    OBVIOUS
  <2> QED
    BY <2>1
<1>2. B * B = b * B + e * B + B
  <2>1. \A u, v, w \in Nat : u = v + w + 1 => u * u = v * u + w * u + u
    OBVIOUS
  <2> QED
    BY <1>1, <2>1
<1>3. b * B \in Nat /\ e * B \in Nat
  OBVIOUS
<1> QED
  BY <1>2, <1>3

(* Three digits in a base, and the first in which two numbers differ. *)
Number(B, a, b, c) == a * (B * B) + (b * B + c)

LEMMA DigitsDecide ==
  ASSUME NEW B \in Nat, NEW a \in 0..(B - 1), NEW b \in 0..(B - 1), NEW c \in 0..(B - 1),
         NEW x \in 0..(B - 1), NEW y \in 0..(B - 1), NEW z \in 0..(B - 1)
  PROVE  /\ a < x => Number(B, a, b, c) < Number(B, x, y, z)
         /\ a = x /\ b < y => Number(B, a, b, c) < Number(B, x, y, z)
         /\ a = x /\ b = y /\ c < z => Number(B, a, b, c) < Number(B, x, y, z)
         /\ Number(B, a, b, c) \in Nat
<1>1. b * B + c \in 0..(B * B - 1) /\ y * B + z \in 0..(B * B - 1) /\ B * B \in Nat
  BY TwoDigits
<1>2. a < x => Number(B, a, b, c) < Number(B, x, y, z)
  <2> HAVE a < x
  <2> QED
    BY <1>1, FirstDigitDecides DEF Number
<1>3. a = x /\ b < y => Number(B, a, b, c) < Number(B, x, y, z)
  <2> HAVE a = x /\ b < y
  <2>1. b * B + c < y * B + z
    BY FirstDigitDecides
  <2>2. a * (B * B) \in Nat
    BY <1>1
  <2> QED
    BY <1>1, <2>1, <2>2 DEF Number
<1>4. a = x /\ b = y /\ c < z => Number(B, a, b, c) < Number(B, x, y, z)
  <2> HAVE a = x /\ b = y /\ c < z
  <2>1. a * (B * B) \in Nat /\ b * B \in Nat
    BY <1>1
  <2> QED
    BY <2>1 DEF Number
<1>5. Number(B, a, b, c) \in Nat
  <2>1. a * (B * B) \in Nat
    BY <1>1
  <2> QED
    BY <1>1, <2>1 DEF Number
<1> QED
  BY <1>2, <1>3, <1>4, <1>5

LEMMA VersionParts ==
  ASSUME NEW v, IsVersion(v)
  PROVE  /\ PartAt(v, 1) \in 0..(2 * TextFrom - 1)
         /\ PartAt(v, 2) \in 0..(2 * TextFrom - 1)
         /\ PartAt(v, 3) \in 0..(2 * TextFrom - 1)
         /\ DOMAIN v \subseteq 1..3 /\ v # NoVersion
         /\ VersionNumber(v) = Number(2 * TextFrom, PartAt(v, 1), PartAt(v, 2), PartAt(v, 3))
<1>1. TextFrom \in Nat /\ TextFrom > 0
  BY FindingsAssumption
<1>2. DOMAIN v \in {1..1, 1..2, 1..3} /\ \A i \in DOMAIN v : v[i] \in 0..(2 * TextFrom - 1)
  BY DEF IsVersion
<1>3. \A i : PartAt(v, i) \in 0..(2 * TextFrom - 1)
  BY <1>1, <1>2 DEF PartAt
<1>4. DOMAIN v \subseteq 1..3 /\ 1 \in DOMAIN v
  BY <1>2
<1>5. v # NoVersion
  <2>1. DOMAIN NoVersion = {}
    BY DEF NoVersion
  <2> QED
    BY <1>4, <2>1
<1>6. \A a, b, c, t \in Nat :
        a * t * t * 4 + b * t * 2 + c = a * ((2 * t) * (2 * t)) + (b * (2 * t) + c)
  <2> TAKE a \in Nat, b \in Nat, c \in Nat, t \in Nat
  <2>1. a * t * t * 4 = a * ((2 * t) * (2 * t))
    OBVIOUS
  <2>2. b * t * 2 = b * (2 * t)
    OBVIOUS
  <2> QED
    BY <2>1, <2>2
<1>7. PartAt(v, 1) \in Nat /\ PartAt(v, 2) \in Nat /\ PartAt(v, 3) \in Nat
  BY <1>1, <1>3
<1>8. VersionNumber(v) = Number(2 * TextFrom, PartAt(v, 1), PartAt(v, 2), PartAt(v, 3))
  BY <1>1, <1>6, <1>7 DEF VersionNumber, Number
<1> QED
  BY <1>3, <1>4, <1>5, <1>8

(* Part by part, as CompareVersions goes, two versions stand as their      *)
(* numbers do.                                                             *)
LEMMA ComparesAsNumbers ==
  ASSUME NEW v, NEW w, IsVersion(v), IsVersion(w)
  PROVE  /\ CompareVersions(v, w) = Order(VersionNumber(v), VersionNumber(w))
         /\ VersionNumber(v) \in Nat /\ VersionNumber(w) \in Nat
<1> DEFINE B == 2 * TextFrom
           differ == {i \in DOMAIN v \cup DOMAIN w : PartAt(v, i) # PartAt(w, i)}
<1>1. B \in Nat
  BY FindingsAssumption
<1>2. PICK a \in 0..(B - 1), b \in 0..(B - 1), c \in 0..(B - 1) :
        /\ a = PartAt(v, 1) /\ b = PartAt(v, 2) /\ c = PartAt(v, 3)
        /\ VersionNumber(v) = Number(B, a, b, c)
  BY VersionParts
<1>3. PICK x \in 0..(B - 1), y \in 0..(B - 1), z \in 0..(B - 1) :
        /\ x = PartAt(w, 1) /\ y = PartAt(w, 2) /\ z = PartAt(w, 3)
        /\ VersionNumber(w) = Number(B, x, y, z)
  BY VersionParts
<1>4. /\ \A i : i \in differ <=> i \in 1..3 /\ PartAt(v, i) # PartAt(w, i)
      /\ differ \in SUBSET Nat
  <2>1. DOMAIN v \cup DOMAIN w \subseteq 1..3
    BY VersionParts
  <2>2. \A i : i \notin DOMAIN v \cup DOMAIN w => PartAt(v, i) = PartAt(w, i)
    BY DEF PartAt
  <2> QED
    BY <2>1, <2>2
<1>5. CompareVersions(v, w) =
        IF differ = {} THEN 0 ELSE Order(PartAt(v, Min(differ)), PartAt(w, Min(differ)))
  BY DEF CompareVersions
<1>6. differ # {} => Min(differ) \in differ /\ \A i \in differ : Min(differ) <= i
  <2> HIDE DEF differ
  <2> QED
    BY <1>4, MinOfNaturals
<1> HIDE DEF differ, B
<1>7. /\ 1 \in differ <=> a # x
      /\ 2 \in differ <=> b # y
      /\ 3 \in differ <=> c # z
      /\ \A i \in differ : i = 1 \/ i = 2 \/ i = 3
  BY <1>2, <1>3, <1>4
<1>8. /\ a < x => Number(B, a, b, c) < Number(B, x, y, z)
      /\ a = x /\ b < y => Number(B, a, b, c) < Number(B, x, y, z)
      /\ a = x /\ b = y /\ c < z => Number(B, a, b, c) < Number(B, x, y, z)
      /\ Number(B, a, b, c) \in Nat
  BY <1>1, DigitsDecide
<1>9. /\ x < a => Number(B, x, y, z) < Number(B, a, b, c)
      /\ x = a /\ y < b => Number(B, x, y, z) < Number(B, a, b, c)
      /\ x = a /\ y = b /\ z < c => Number(B, x, y, z) < Number(B, a, b, c)
      /\ Number(B, x, y, z) \in Nat
  BY <1>1, DigitsDecide
<1>10. a \in Int /\ b \in Int /\ c \in Int /\ x \in Int /\ y \in Int /\ z \in Int
  BY <1>1
<1>11. CASE a # x
  <2>1. Min(differ) = 1
    BY <1>6, <1>7, <1>11
  <2> QED
    BY <1>2, <1>3, <1>5, <1>7, <1>8, <1>9, <1>10, <1>11, <2>1 DEF Order
<1>12. CASE a = x /\ b # y
  <2>1. Min(differ) = 2
    BY <1>6, <1>7, <1>12
  <2> QED
    BY <1>2, <1>3, <1>5, <1>7, <1>8, <1>9, <1>10, <1>12, <2>1 DEF Order
<1>13. CASE a = x /\ b = y /\ c # z
  <2>1. Min(differ) = 3
    BY <1>6, <1>7, <1>13
  <2> QED
    BY <1>2, <1>3, <1>5, <1>7, <1>8, <1>9, <1>10, <1>13, <2>1 DEF Order
<1>14. CASE a = x /\ b = y /\ c = z
  <2>1. differ = {}
    BY <1>7, <1>14
  <2> QED
    BY <1>2, <1>3, <1>5, <1>8, <1>14, <2>1 DEF Order
<1>15. VersionNumber(v) \in Nat /\ VersionNumber(w) \in Nat
  BY <1>2, <1>3, <1>8, <1>9
<1> QED
  BY <1>11, <1>12, <1>13, <1>14, <1>15

(* On plain data a criterion matches exactly the CPEs it affects. *)
LEMMA MatchesTheAffected ==
  ASSUME NEW cpe, NEW criterion, IsPlain(cpe, criterion)
  PROVE  MatchesCPE(cpe, criterion) <=> Affected(cpe, criterion)
<1> DEFINE v == cpe.version
           n == VersionNumber(v)
           N(b) == VersionNumber(criterion[b])
           has == Bounds \cap DOMAIN criterion
<1>1. IsVersion(v) /\ v # NoVersion /\ \A b \in has : IsVersion(criterion[b])
  BY VersionParts DEF IsPlain
<1>2. \A b \in has : /\ CompareVersions(v, criterion[b]) = Order(n, N(b))
                     /\ n \in Nat /\ N(b) \in Nat
  BY <1>1, ComparesAsNumbers
<1>3. has = {} => /\ criterion.version # NoVersion
                  /\ CompareVersions(v, criterion.version) = Order(n, VersionNumber(criterion.version))
                  /\ n \in Nat /\ VersionNumber(criterion.version) \in Nat
  <2> HAVE has = {}
  <2>1. IsVersion(criterion.version)
    BY DEF IsPlain
  <2> QED
    BY <1>1, <2>1, VersionParts, ComparesAsNumbers
<1>4. \A i, j \in Nat : /\ Order(i, j) >= 0 <=> i >= j
                        /\ Order(i, j) > 0 <=> i > j
                        /\ Order(i, j) <= 0 <=> i <= j
                        /\ Order(i, j) < 0 <=> i < j
                        /\ Order(i, j) = 0 <=> i = j
  BY DEF Order
<1>5. checkVersionBounds(v, criterion) <=>
        /\ "startIncluding" \in has => n >= N("startIncluding")
        /\ "startExcluding" \in has => n > N("startExcluding")
        /\ "endIncluding" \in has => n <= N("endIncluding")
        /\ "endExcluding" \in has => n < N("endExcluding")
        /\ has = {} => n = N("version")
  <2> DEFINE Against(b) == CompareVersions(v, criterion[b])
  <2>1. checkVersionBounds(v, criterion) <=>
          \/ /\ has # {}
             /\ "startIncluding" \in has => Against("startIncluding") >= 0
             /\ "startExcluding" \in has => Against("startExcluding") > 0
             /\ "endIncluding" \in has => Against("endIncluding") <= 0
             /\ "endExcluding" \in has => Against("endExcluding") < 0
          \/ has = {} /\ Against("version") = 0
    BY <1>1, <1>3 DEF checkVersionBounds, Bounds
  <2>2. \A b \in has : /\ Against(b) >= 0 <=> n >= N(b)
                       /\ Against(b) > 0 <=> n > N(b)
                       /\ Against(b) <= 0 <=> n <= N(b)
                       /\ Against(b) < 0 <=> n < N(b)
    BY <1>2, <1>4
  <2>3. has = {} => (Against("version") = 0 <=> n = N("version"))
    BY <1>3, <1>4
  <2> HIDE DEF has, Against, n, N
  <2>4. CASE has = {}
    BY <2>1, <2>3, <2>4
  <2>5. CASE has # {}
    BY <2>1, <2>2, <2>5
  <2> QED
    BY <2>4, <2>5
<1>6. Affected(cpe, criterion) <=>
        /\ cpe.product = criterion.product
        /\ "startIncluding" \in has => n >= N("startIncluding")
        /\ "startExcluding" \in has => n > N("startExcluding")
        /\ "endIncluding" \in has => n <= N("endIncluding")
        /\ "endExcluding" \in has => n < N("endExcluding")
        /\ has = {} => n = N("version")
  BY DEF Affected
<1>7. cpe.product = criterion.product <=>
        /\ AnyValue \in {criterion.part, cpe.part} \/ criterion.part = cpe.part
        /\ Alike(criterion.vendor, cpe.vendor) /\ Alike(criterion.product, cpe.product)
  BY DEF IsPlain
<1>8. MatchesCPE(cpe, criterion) <=> cpe.product = criterion.product /\ checkVersionBounds(v, criterion)
  BY <1>7 DEF MatchesCPE
<1> HIDE DEF v, n, N, has
<1> QED
  BY <1>5, <1>6, <1>8

(* A scan is complete when it returns: on plain data, what it recorded is  *)
(* exactly the CVEs cached when it began whose product the host runs in an *)
(* affected version, each open and seen during the scan, for any number of *)
(* scans beside each other and whatever a synchronisation replaces.        *)
THEOREM ScansFindAll ==
  ASSUME PlainData PROVE FiSpec => []ScansAreComplete
<1>1. FiInv => ScansAreComplete
  <2> SUFFICES ASSUME FiInv, NEW s \in Scan, Exhausted(s)
               PROVE  /\ scan[s].seen =
                           {c \in scan[s].cached :
                              \E i \in DOMAIN scan[s].cpes, j \in DOMAIN Feed[c].criteria :
                                Affected(scan[s].cpes[i], Feed[c].criteria[j])}
                      /\ \A c \in scan[s].seen : Recorded(<<scan[s].endpoint, c>>, scan[s].began)
    BY DEF ScansAreComplete, Recorded
  <2> DEFINE r == scan[s]
  <2>1. r.pc = "matching" /\ \A i \in DOMAIN r.cpes : Unseen(s, i) = {}
    BY DEF Exhausted
  <2>2. ScanOK(r)
    BY <2>1 DEF FiInv, ScansOK, NoScan
  <2>3. /\ r.cpes = ExtractHostCPEs(r.host) /\ r.host \in Inventory /\ r.cached \in SUBSET CVEs
        /\ r.seen \subseteq r.cached /\ r.pc # "recording"
        /\ \A c \in r.seen : FitsSome(r.cpes, c)
    BY <2>1, <2>2 DEF ScanOK, ScanRecord
  <2>4. \A c \in r.seen : Recorded(<<r.endpoint, c>>, r.began)
    BY <2>2, <2>3 DEF ScanOK
  <2>5. \A c \in r.cached : FitsSome(r.cpes, c) => c \in r.seen
    BY <2>1 DEF Unseen, FitsSome
  <2>6. \A c \in r.cached :
          FitsSome(r.cpes, c) <=>
            \E i \in DOMAIN r.cpes, j \in DOMAIN Feed[c].criteria :
              Affected(r.cpes[i], Feed[c].criteria[j])
    <3> TAKE c \in r.cached
    <3>1. \A i \in DOMAIN r.cpes, j \in DOMAIN Feed[c].criteria :
            IsPlain(r.cpes[i], Feed[c].criteria[j])
      BY <2>3 DEF PlainData, CVEs
    <3>2. \A i \in DOMAIN r.cpes, j \in DOMAIN Feed[c].criteria :
            MatchesCPE(r.cpes[i], Feed[c].criteria[j]) <=> Affected(r.cpes[i], Feed[c].criteria[j])
      BY <3>1, MatchesTheAffected
    <3> QED
      BY <3>2 DEF FitsSome, Fits
  <2> QED
    BY <2>3, <2>4, <2>5, <2>6
<1> QED
  BY <1>1, FiInvariant, PTL

-----------------------------------------------------------------------------
(* NvdLimiter.  Requests follow each other at an interval, but for one     *)
(* that may come early: the first to find less than a token after several  *)
(* that found more, which leaves none.  So the i-th last request lies at   *)
(* least i - 2 intervals and what the limiter has kept before the last one.*)
Behind(i) == (i - 2) * Interval
Credit(tokens) == IF tokens + 1 < Interval THEN tokens + 1 ELSE Interval
Left(tokens) == IF tokens < Interval THEN 0 ELSE tokens - Interval

RequestsOK ==
  /\ nvdTokens \in Nat
  /\ lastRequest \in Nat \cup {Never} /\ (lastRequest = Never => DOMAIN recent = {})
  /\ IsList(recent)
  /\ \A i \in DOMAIN recent : recent[i] \in Nat /\ recent[i] <= Budget * Interval
  /\ \A i, j \in DOMAIN recent : i < j => recent[i] <= recent[j]
  /\ \A i \in DOMAIN recent : recent[i] - recent[1] >= Behind(i) + 1
  /\ DOMAIN recent # {} => lastRequest = IF recent[1] < Full THEN recent[1] ELSE Full

(* While nobody has asked for a token since the last request. *)
Rested ==
  (\A s \in Syncer : syncer[s].pc # "asleep") =>
    \A i \in DOMAIN recent : recent[i] - recent[1] >= Behind(i) + Credit(nvdTokens)

(* While one waits for its token. *)
WaitsFor(timer) ==
  /\ timer \in Nat
  /\ \A i \in DOMAIN recent :
       recent[i] + timer >= Behind(i) + Interval + Credit(Left(nvdTokens))

SleepersWait == \A s \in Syncer : syncer[s].pc = "asleep" => WaitsFor(syncer[s].timer)

Position(p) ==
  \/ p = Away
  \/ DOMAIN p = {"pc", "attempt"} /\ p.pc \in {"limited", "sent"}
  \/ DOMAIN p = {"pc", "attempt", "timer"} /\ p.pc \in {"asleep", "backoff"}

OneAtATime ==
  /\ DOMAIN syncer = Syncer /\ \A s \in Syncer : Position(syncer[s])
  /\ \A s, t \in Syncer : syncer[s] # Away /\ syncer[t] # Away => s = t

NlInv == OneAtATime /\ (~creditedTwice => RequestsOK /\ Rested /\ SleepersWait)

LEMMA LesserOf ==
  ASSUME NEW m \in Int, NEW n \in Int
  PROVE  Min({m, n}) = (IF m < n THEN m ELSE n) /\ Max({m, n}) = IF m < n THEN n ELSE m
<1>1. PICK l \in {m, n} : \A y \in {m, n} : l <= y
  OBVIOUS
<1>2. Min({m, n}) \in {m, n} /\ \A y \in {m, n} : Min({m, n}) <= y
  BY <1>1 DEF Min
<1>3. PICK g \in {m, n} : \A y \in {m, n} : g >= y
  OBVIOUS
<1>4. Max({m, n}) \in {m, n} /\ \A y \in {m, n} : Max({m, n}) >= y
  BY <1>3 DEF Max
<1> QED
  BY <1>2, <1>4

LEMMA IntervalFits ==
  /\ Interval \in Nat \ {0} /\ Full \in Nat /\ Full >= Interval /\ Budget \in Nat
  /\ Budget * Interval \in Nat
  /\ \A i \in Int : Behind(i) \in Int /\ Behind(i + 1) = Behind(i) + Interval
  /\ Behind(1) = 0 - Interval
<1>1. Interval \in Nat \ {0} /\ maxBurst \in Nat \ {0} /\ Budget \in Nat
  BY NvdAssumption
<1>2. PICK m \in Nat : maxBurst = m + 1
  <2>1. maxBurst - 1 \in Nat /\ maxBurst = (maxBurst - 1) + 1
    BY <1>1
  <2> QED
    BY <2>1
<1>3. m * Interval \in Nat /\ (m + 1) * Interval = m * Interval + Interval
  BY <1>1
<1>4. Full \in Nat /\ Full >= Interval
  BY <1>1, <1>2, <1>3 DEF Full
<1>5. Budget * Interval \in Nat
  BY <1>1
<1>6. ASSUME NEW i \in Int PROVE Behind(i) \in Int /\ Behind(i + 1) = Behind(i) + Interval
  <2>1. (i - 2) * Interval \in Int /\ ((i + 1) - 2) * Interval = (i - 2) * Interval + Interval
    BY <1>1
  <2> QED
    BY <2>1 DEF Behind
<1>7. Behind(1) = 0 - Interval
  BY <1>1 DEF Behind
<1> QED
  BY <1>1, <1>4, <1>5, <1>6, <1>7

(* What a caller finds: tokens t, the last request e ago as far as the     *)
(* limiter knows and in truth a ago, another r ago, which is enough by d;  *)
(* and what it gets: T tokens and a wait w.                                *)
Finds(t, e, a, r, d) ==
  /\ {t, e, a, r} \subseteq Nat /\ d \in Int
  /\ e = IF a < Full THEN a ELSE Full
  /\ r - a >= d + Credit(t)

Gets(t, e, T, w) ==
  /\ T \in Nat /\ w \in Nat
  /\ T = IF t + e < Full THEN t + e ELSE Full
  /\ w = IF T < Interval THEN Interval - T ELSE IF e < Interval THEN Interval - e ELSE 0

LEMMA WaitIsLongEnough ==
  ASSUME NEW t, NEW e, NEW a, NEW r, NEW d, NEW T, NEW w,
         Finds(t, e, a, r, d), Gets(t, e, T, w)
  PROVE  r + w >= d + Interval + Credit(Left(T))
<1>1. Interval \in Nat \ {0} /\ Full \in Nat /\ Full >= Interval
  BY IntervalFits
<1>2. CASE T < Interval
  BY <1>1, <1>2 DEF Finds, Gets, Credit, Left
<1>3. CASE ~(T < Interval) /\ t + 1 < Interval
  BY <1>1, <1>3 DEF Finds, Gets, Credit, Left
<1>4. CASE ~(T < Interval) /\ ~(t + 1 < Interval)
  BY <1>1, <1>4 DEF Finds, Gets, Credit, Left
<1> QED
  BY <1>2, <1>3, <1>4

LEMMA Positions ==
  /\ Position(Away)
  /\ \A pc \in {"limited", "sent"} : \A a : Position([pc |-> pc, attempt |-> a])
  /\ \A pc \in {"asleep", "backoff"} : \A a, t :
       Position([pc |-> pc, attempt |-> a, timer |-> t])
BY DEF Position

(* One caller moves on while the others are away. *)
AloneAt(s) == \A t \in Syncer : t # s => syncer[t] = Away

LEMMA OneMoves ==
  ASSUME OneAtATime, NEW s \in Syncer, NEW position, Position(position), AloneAt(s),
         syncer' = [syncer EXCEPT ![s] = position]
  PROVE  OneAtATime' /\ syncer'[s] = position /\ AloneAt(s)'
<1>1. /\ DOMAIN syncer' = Syncer /\ syncer'[s] = position
      /\ \A t \in Syncer : t # s => syncer'[t] = Away
  BY DEF OneAtATime, AloneAt
<1>2. \A t \in Syncer : Position(syncer'[t])
  BY <1>1, Positions
<1> QED
  BY <1>1, <1>2 DEF OneAtATime, AloneAt

LEMMA NotAwayIsAlone ==
  ASSUME OneAtATime, NEW s \in Syncer, syncer[s].pc # "away"
  PROVE  AloneAt(s) /\ syncer[s] # Away
BY DEF OneAtATime, AloneAt, Away

(* Steps that are none of the limiter's. *)
LEMMA LimiterRests ==
  ASSUME NlInv, NEW s \in Syncer, NEW position, Position(position), AloneAt(s),
         syncer[s].pc # "asleep", position.pc # "asleep", Stays(s, position)
  PROVE  NlInv'
<1>1. /\ OneAtATime' /\ syncer'[s] = position /\ AloneAt(s)'
      /\ UNCHANGED <<nvdTokens, lastRequest, recent, creditedTwice>>
  BY OneMoves DEF Stays, NlInv
<1>2. \A t \in Syncer : syncer[t].pc # "asleep" /\ syncer'[t].pc # "asleep"
  BY <1>1 DEF AloneAt, Away
<1>3. ASSUME ~creditedTwice PROVE RequestsOK' /\ Rested' /\ SleepersWait'
  <2>1. RequestsOK /\ Rested
    BY <1>3 DEF NlInv
  <2> QED
    BY <1>1, <1>2, <2>1 DEF RequestsOK, Rested, SleepersWait, Behind
<1> QED
  BY <1>1, <1>3 DEF NlInv

LEMMA FetchStep ==
  ASSUME NlInv, NEW s \in Syncer,
         FetchBegins(s) \/ FetchEnds(s) \/ FetchFails(s) \/ FetchRepeats(s)
  PROVE  NlInv'
<1>0. OneAtATime
  BY DEF NlInv
<1>1. CASE FetchBegins(s)
  <2>1. AloneAt(s) /\ syncer[s].pc # "asleep"
    BY <1>1 DEF FetchBegins, MayEnter, AloneAt, Away
  <2>2. Position([pc |-> "limited", attempt |-> 1])
    BY Positions
  <2> QED
    BY <1>1, <2>1, <2>2, LimiterRests DEF FetchBegins
<1>2. CASE FetchEnds(s)
  <2>1. AloneAt(s) /\ syncer[s].pc # "asleep" /\ Position(Away) /\ Away.pc # "asleep"
    BY <1>0, <1>2, NotAwayIsAlone DEF FetchEnds, Position, Away
  <2> QED
    BY <1>2, <2>1, LimiterRests DEF FetchEnds
<1>3. CASE FetchFails(s)
  <2>1. AloneAt(s) /\ syncer[s].pc # "asleep"
    BY <1>0, <1>3, NotAwayIsAlone DEF FetchFails
  <2>2. PICK a, t : Stays(s, [pc |-> "backoff", attempt |-> a, timer |-> t])
    BY <1>3 DEF FetchFails
  <2>3. PICK p : p = [pc |-> "backoff", attempt |-> a, timer |-> t]
    OBVIOUS
  <2>4. Position(p) /\ p.pc # "asleep"
    BY <2>3, Positions
  <2> QED
    BY <2>1, <2>2, <2>3, <2>4, LimiterRests
<1>4. CASE FetchRepeats(s)
  <2>1. AloneAt(s) /\ syncer[s].pc # "asleep"
    BY <1>0, <1>4, NotAwayIsAlone DEF FetchRepeats
  <2>2. PICK p : /\ Stays(s, p)
                 /\ p = IF syncer[s].attempt < NvdAttempts
                        THEN [pc |-> "limited", attempt |-> syncer[s].attempt + 1] ELSE Away
    BY <1>4 DEF FetchRepeats
  <2>3. p = Away \/ \E a : p = [pc |-> "limited", attempt |-> a]
    BY <2>2
  <2>4. Position(p) /\ p.pc # "asleep"
    BY <2>3 DEF Position, Away
  <2> QED
    BY <2>1, <2>2, <2>4, LimiterRests
<1> QED
  BY <1>1, <1>2, <1>3, <1>4

LEMMA CancelledStep ==
  ASSUME NlInv, NEW s \in Syncer, FetchCancelled(s) PROVE NlInv'
<1>0. OneAtATime
  BY DEF NlInv
<1>1. AloneAt(s)
  BY <1>0, NotAwayIsAlone DEF FetchCancelled
<1>2. /\ OneAtATime' /\ syncer'[s] = Away /\ AloneAt(s)'
      /\ UNCHANGED <<nvdTokens, lastRequest, recent>>
  <2>1. Position(Away)
    BY DEF Position
  <2> QED
    BY <1>0, <1>1, <2>1, OneMoves DEF FetchCancelled
<1>3. ASSUME ~creditedTwice' PROVE RequestsOK' /\ Rested' /\ SleepersWait'
  <2>1. ~creditedTwice /\ syncer[s].pc # "asleep"
    BY <1>3, Zenon DEF FetchCancelled
  <2>2. RequestsOK /\ Rested
    BY <2>1 DEF NlInv
  <2>3. \A t \in Syncer : syncer[t].pc # "asleep" /\ syncer'[t].pc # "asleep"
    BY <1>1, <1>2, <2>1 DEF AloneAt, Away
  <2> QED
    BY <1>2, <2>2, <2>3 DEF RequestsOK, Rested, SleepersWait, Behind
<1> QED
  BY <1>2, <1>3 DEF NlInv

(* Wait makes its refill.                                                  *)
LEMMA WaitBeginsStep ==
  ASSUME NlInv, NEW s \in Syncer, WaitBegins(s) PROVE NlInv'
<1>0. OneAtATime /\ syncer[s].pc = "limited"
  BY DEF NlInv, WaitBegins
<1>1. AloneAt(s)
  BY <1>0, NotAwayIsAlone
<1>2. PICK w, T : w = waitDuration(Replenished) /\ T = Replenished
  OBVIOUS
<1>3. /\ nvdTokens' = T /\ UNCHANGED <<lastRequest, recent, creditedTwice>>
      /\ syncer' = [syncer EXCEPT ![s] =
                      [pc |-> "asleep", attempt |-> syncer[s].attempt, timer |-> w]]
  BY <1>2 DEF WaitBegins
<1>4. PICK p : p = [pc |-> "asleep", attempt |-> syncer[s].attempt, timer |-> w]
  OBVIOUS
<1>5. OneAtATime' /\ syncer'[s] = p /\ AloneAt(s)'
  <2>1. Position(p)
    BY <1>4, Positions
  <2>2. syncer' = [syncer EXCEPT ![s] = p]
    BY <1>3, <1>4
  <2> QED
    BY <1>0, <1>1, <2>1, <2>2, OneMoves
<1>6. ASSUME ~creditedTwice PROVE RequestsOK' /\ Rested' /\ SleepersWait'
  <2>1. RequestsOK /\ Rested
    BY <1>6 DEF NlInv
  <2>2. \A t \in Syncer : syncer[t].pc # "asleep"
    BY <1>0, <1>1 DEF AloneAt, Away
  <2>3. Interval \in Nat \ {0} /\ Full \in Nat /\ Full >= Interval
    BY IntervalFits
  <2>4. /\ T \in Nat
        /\ lastRequest # Never => T = IF nvdTokens + lastRequest < Full
                                      THEN nvdTokens + lastRequest ELSE Full
    <3>1. CASE lastRequest = Never
      BY <1>2, <2>1, <3>1 DEF Replenished, RequestsOK
    <3>2. CASE lastRequest # Never
      <4>1. lastRequest \in Nat /\ nvdTokens + lastRequest \in Nat
        BY <2>1, <3>2 DEF RequestsOK
      <4>2. T = Min({nvdTokens + lastRequest, Full})
        BY <1>2, <3>2 DEF Replenished
      <4>3. T = IF nvdTokens + lastRequest < Full THEN nvdTokens + lastRequest ELSE Full
        BY <2>3, <4>1, <4>2, LesserOf
      <4> QED
        BY <2>3, <3>2, <4>1, <4>3
    <3> QED
      BY <3>1, <3>2
  <2>5. /\ w \in Nat
        /\ lastRequest # Never => w = IF T < Interval THEN Interval - T
              ELSE IF lastRequest < Interval THEN Interval - lastRequest ELSE 0
    BY <1>2, <2>1, <2>3, <2>4 DEF waitDuration, RequestsOK
  <2>6. RequestsOK'
    BY <1>3, <2>1, <2>4 DEF RequestsOK, Behind
  <2>7. WaitsFor(w)'
    <3>1. ASSUME NEW i \in DOMAIN recent
          PROVE  recent[i] + w >= Behind(i) + Interval + Credit(Left(T))
      <4>1. /\ lastRequest \in Nat /\ lastRequest # Never /\ 1 \in DOMAIN recent /\ i \in Int
            /\ lastRequest = IF recent[1] < Full THEN recent[1] ELSE Full
            /\ recent[1] \in Nat /\ recent[i] \in Nat /\ nvdTokens \in Nat
        <5>1. IsList(recent)
          BY <2>1 DEF RequestsOK
        <5>2. DOMAIN recent = 1..Len(recent) /\ Len(recent) \in Nat
          BY <5>1, ListDomain
        <5>3. 1 \in DOMAIN recent /\ i \in Int
          BY <5>2
        <5> QED
          BY <2>1, <5>3 DEF RequestsOK
      <4>2. recent[i] - recent[1] >= Behind(i) + Credit(nvdTokens) /\ Behind(i) \in Int
        BY <2>1, <2>2, <4>1, IntervalFits DEF Rested
      <4>3. Finds(nvdTokens, lastRequest, recent[1], recent[i], Behind(i))
        BY <4>1, <4>2 DEF Finds
      <4>4. Gets(nvdTokens, lastRequest, T, w)
        BY <2>4, <2>5, <4>1 DEF Gets
      <4> QED
        BY <4>3, <4>4, WaitIsLongEnough
    <3> QED
      BY <1>3, <2>5, <3>1 DEF WaitsFor, Behind, Credit, Left
  <2>8. SleepersWait'
    BY <1>4, <1>5, <2>7 DEF SleepersWait, AloneAt, Away
  <2>9. Rested'
    BY <1>4, <1>5 DEF Rested
  <2> QED
    BY <2>6, <2>8, <2>9
<1> QED
  BY <1>3, <1>5, <1>6 DEF NlInv

LEMMA CreditIsBounded ==
  ASSUME NEW t \in Nat
  PROVE  Credit(t) \in Nat /\ Credit(t) >= 1 /\ Credit(t) <= Interval /\ Left(t) \in Nat
BY IntervalFits DEF Credit, Left

(* The request is sent: the others lie further back by what was waited.    *)
LEMMA WaitReturnsStep ==
  ASSUME NlInv, NEW s \in Syncer, WaitReturns(s) PROVE NlInv'
<1>0. OneAtATime /\ syncer[s].pc = "asleep" /\ syncer[s].timer = 0
  BY DEF NlInv, WaitReturns
<1>1. AloneAt(s)
  BY <1>0, NotAwayIsAlone
<1>2. PICK p : p = [pc |-> "sent", attempt |-> syncer[s].attempt]
  OBVIOUS
<1>3. /\ lastRequest' = 0 /\ UNCHANGED creditedTwice
      /\ nvdTokens' = Max({nvdTokens - Interval, 0})
      /\ syncer' = [syncer EXCEPT ![s] = p]
  BY <1>2 DEF WaitReturns
<1>4. OneAtATime' /\ syncer'[s] = p /\ AloneAt(s)'
  <2>1. Position(p)
    BY <1>2, Positions
  <2> QED
    BY <1>0, <1>1, <1>3, <2>1, OneMoves
<1>5. \A t \in Syncer : syncer'[t].pc # "asleep"
  BY <1>2, <1>4 DEF AloneAt, Away
<1>6. ASSUME ~creditedTwice PROVE RequestsOK' /\ Rested' /\ SleepersWait'
  <2>1. RequestsOK /\ WaitsFor(0)
    BY <1>0, <1>6 DEF NlInv, SleepersWait
  <2>2. Interval \in Nat \ {0} /\ Full \in Nat /\ Full >= Interval /\ Budget * Interval \in Nat
    BY IntervalFits
  <2>3. nvdTokens' = Left(nvdTokens) /\ nvdTokens \in Nat
    <3>1. nvdTokens \in Nat /\ nvdTokens - Interval \in Int
      BY <2>1, <2>2 DEF RequestsOK
    <3>2. PICK m \in Int : m = nvdTokens - Interval
      BY <3>1
    <3>3. nvdTokens' = IF m < 0 THEN 0 ELSE m
      BY <1>3, <3>2, LesserOf
    <3> QED
      BY <2>2, <3>1, <3>2, <3>3 DEF Left
  <2>4. PICK c \in Nat : c = Credit(Left(nvdTokens)) /\ c >= 1 /\ c <= Interval
    BY <2>3, CreditIsBounded
  <2>5. nvdTokens' \in Nat /\ Credit(nvdTokens)' = c
    BY <2>3, <2>4, CreditIsBounded DEF Credit
  <2>6. IsList(recent) /\ Len(recent) \in Nat /\ DOMAIN recent = 1..Len(recent)
    BY <2>1, ListDomain DEF RequestsOK
  <2>7. PICK r : r = recent'
    OBVIOUS
  <2>8. /\ IsList(r) /\ r[1] = 0 /\ DOMAIN r = 1..(Len(recent) + 1)
        /\ \A i \in DOMAIN recent : r[1 + i] = recent[i]
    <3>1. PICK z : z = <<0>>
      OBVIOUS
    <3>2. IsList(z) /\ Len(z) = 1 /\ DOMAIN z = {1} /\ z[1] = 0
      BY <3>1, ShortLists
    <3>3. PICK q : q = recent
      OBVIOUS
    <3>4. /\ IsList(z \o q) /\ Len(z \o q) = Len(z) + Len(q)
          /\ DOMAIN (z \o q) = 1..(Len(z) + Len(q))
          /\ \A i \in DOMAIN z : (z \o q)[i] = z[i]
          /\ \A i \in DOMAIN q : (z \o q)[Len(z) + i] = q[i]
          /\ \A i \in DOMAIN (z \o q) : i \in DOMAIN z \/ i - Len(z) \in DOMAIN q
      <4>1. IsList(z) /\ IsList(q)
        BY <2>6, <3>2, <3>3
      <4> QED
        BY <4>1, Concatenated
    <3>5. 1 + Len(recent) = Len(recent) + 1
      BY <2>6
    <3>6. r = z \o q
      BY <2>7, <3>1, <3>3 DEF WaitReturns
    <3> QED
      BY <3>2, <3>3, <3>4, <3>5, <3>6
  <2>9. \A i \in DOMAIN r : i = 1 \/ \E j \in DOMAIN recent : i = j + 1 /\ r[i] = recent[j]
    <3> TAKE i \in DOMAIN r
    <3>1. i \in 1..(Len(recent) + 1)
      BY <2>8
    <3>2. i # 1 => i - 1 \in DOMAIN recent /\ i = 1 + (i - 1) /\ i = (i - 1) + 1
      BY <2>6, <3>1
    <3> QED
      BY <2>8, <3>2
  <2>10. \A j \in DOMAIN recent : j \in Int /\ recent[j] \in Nat /\ recent[j] <= Budget * Interval
    BY <2>1, <2>6 DEF RequestsOK
  <2>11. \A i \in DOMAIN r : r[i] \in Nat /\ r[i] <= Budget * Interval
    BY <2>2, <2>8, <2>9, <2>10
  <2>12. \A i \in DOMAIN r : r[i] - r[1] >= Behind(i) + c
    <3> TAKE i \in DOMAIN r
    <3>1. CASE i = 1
      BY <2>2, <2>4, <2>8, <3>1, IntervalFits
    <3>2. CASE i # 1
      <4>1. PICK j \in DOMAIN recent : i = j + 1 /\ r[i] = recent[j]
        BY <2>9, <3>2
      <4>2. recent[j] + 0 >= Behind(j) + Interval + c /\ recent[j] \in Nat /\ j \in Int
        BY <2>1, <2>4, <2>10 DEF WaitsFor
      <4>3. Behind(i) = Behind(j) + Interval /\ Behind(j) \in Int
        BY <4>1, <4>2, IntervalFits
      <4> QED
        BY <2>2, <2>4, <2>8, <4>1, <4>2, <4>3
    <3> QED
      BY <3>1, <3>2
  <2>13. \A i, j \in DOMAIN r : i < j => r[i] <= r[j]
    <3> TAKE i \in DOMAIN r, j \in DOMAIN r
    <3> HAVE i < j
    <3>1. CASE i = 1
      BY <2>8, <2>11, <3>1
    <3>2. CASE i # 1
      <4>1. PICK k \in DOMAIN recent : i = k + 1 /\ r[i] = recent[k]
        BY <2>9, <3>2
      <4>2. k \in Nat /\ k >= 1
        BY <2>6
      <4>3. j # 1
        BY <4>1, <4>2
      <4>4. PICK l \in DOMAIN recent : j = l + 1 /\ r[j] = recent[l]
        BY <2>9, <4>3
      <4>5. k < l
        BY <2>10, <4>1, <4>2, <4>4
      <4> QED
        BY <2>1, <4>1, <4>4, <4>5 DEF RequestsOK
    <3> QED
      BY <3>1, <3>2
  <2>14. \A i \in DOMAIN r : i \in Int /\ Behind(i) \in Int
    BY <2>6, <2>8, IntervalFits
  <2>15. \A i \in DOMAIN r : r[i] - r[1] >= Behind(i) + 1
    BY <2>4, <2>8, <2>11, <2>12, <2>14
  <2>16. RequestsOK'
    <3>1. 0 # Never /\ (IF 0 < Full THEN 0 ELSE Full) = 0
      BY <2>2 DEF Never
    <3> QED
      BY <1>3, <2>5, <2>7, <2>8, <2>11, <2>13, <2>15, <3>1 DEF RequestsOK, Behind
  <2>17. Rested'
    BY <2>5, <2>7, <2>12 DEF Rested, Behind
  <2> QED
    BY <1>5, <2>16, <2>17 DEF SleepersWait
<1> QED
  BY <1>3, <1>4, <1>6 DEF NlInv

(* A tick older, and the oldest forgotten.                                 *)
LEMMA RecentRequests ==
  ASSUME RequestsOK, NEW r,
         r = [i \in {i \in DOMAIN recent : recent[i] < Budget * Interval} |-> recent[i] + 1]
  PROVE  /\ IsList(r) /\ \A i \in DOMAIN r : i \in DOMAIN recent /\ r[i] = recent[i] + 1
         /\ \A i \in DOMAIN r : 1 \in DOMAIN r /\ r[i] \in Nat /\ r[i] <= Budget * Interval
<1> DEFINE K == {i \in DOMAIN recent : recent[i] < Budget * Interval}
<1>1. /\ IsList(recent) /\ Budget * Interval \in Nat
      /\ \A i \in DOMAIN recent : recent[i] \in Nat
      /\ \A i, j \in DOMAIN recent : i < j => recent[i] <= recent[j]
  BY IntervalFits DEF RequestsOK
<1>2. PICK n \in Nat : DOMAIN recent = 1..n
  BY <1>1, ListDomain
<1>3. \E m \in 0..n : K = 1..m
  <2>1. CASE K = {}
    <3>1. 1..0 = {} /\ 0 \in 0..n
      BY <1>2
    <3> QED
      BY <2>1, <3>1
  <2>2. CASE K # {}
    <3>1. K \in SUBSET (1..n)
      BY <1>2
    <3>2. PICK m \in K : \A k \in K : k <= m
      <4> HIDE DEF K
      <4> QED
        BY <1>2, <2>2, <3>1, Greatest
    <3>3. m \in 1..n /\ recent[m] < Budget * Interval
      BY <3>1
    <3>4. ASSUME NEW i \in 1..m PROVE i \in K
      <4>1. i \in 1..n /\ (i = m \/ i < m)
        BY <3>3
      <4>2. recent[i] <= recent[m] /\ recent[i] \in Nat /\ recent[m] \in Nat
        BY <1>1, <1>2, <3>3, <4>1
      <4>3. recent[i] < Budget * Interval
        BY <1>1, <3>3, <4>2
      <4> QED
        BY <1>2, <4>1, <4>3
    <3>5. \A k \in K : k \in 1..m
      BY <3>1, <3>2
    <3>6. K = 1..m /\ m \in 0..n
      BY <3>3, <3>4, <3>5
    <3> QED
      BY <3>6
  <2> QED
    BY <2>1, <2>2
<1>4. PICK m \in 0..n : DOMAIN r = 1..m
  BY <1>3
<1>5. IsList(r)
  <2>1. m \in Nat /\ r = [i \in 1..m |-> r[i]]
    BY <1>4
  <2> QED
    BY <2>1 DEF IsList
<1>6. \A i \in DOMAIN r : i \in DOMAIN recent /\ r[i] = recent[i] + 1 /\ recent[i] < Budget * Interval
  OBVIOUS
<1>7. ASSUME NEW i \in DOMAIN r PROVE 1 \in DOMAIN r
  BY <1>2, <1>4
<1>8. ASSUME NEW i \in DOMAIN r PROVE r[i] \in Nat /\ r[i] <= Budget * Interval
  <2>1. PICK a \in Nat, b \in Nat : a = recent[i] /\ b = Budget * Interval /\ a < b /\ r[i] = a + 1
    BY <1>1, <1>6
  <2>2. a + 1 \in Nat /\ a + 1 <= b
    BY <2>1
  <2> QED
    BY <2>1, <2>2
<1> QED
  BY <1>5, <1>6, <1>7, <1>8

LEMMA NlTickStep ==
  ASSUME NlInv, NlTick PROVE NlInv'
<1>0. OneAtATime
  BY DEF NlInv
<1>1. /\ DOMAIN syncer' = Syncer
      /\ \A s \in Syncer : syncer'[s] =
           IF "timer" \in DOMAIN syncer[s] /\ syncer[s].timer > 0
           THEN [syncer[s] EXCEPT !.timer = @ - 1] ELSE syncer[s]
      /\ UNCHANGED <<nvdTokens, creditedTwice>>
  BY DEF NlTick
<1>2. ASSUME NEW s \in Syncer
      PROVE  /\ syncer'[s].pc = syncer[s].pc /\ Position(syncer'[s])
             /\ syncer'[s] # Away => syncer[s] # Away
             /\ syncer[s].pc = "asleep" /\ syncer[s].timer \in Nat =>
                  syncer'[s].timer = IF syncer[s].timer > 0 THEN syncer[s].timer - 1 ELSE 0
  <2>1. PICK p, q : p = syncer[s] /\ q = syncer'[s]
    OBVIOUS
  <2>2. Position(p)
    BY <1>0, <2>1 DEF OneAtATime
  <2>3. q = IF "timer" \in DOMAIN p /\ p.timer > 0 THEN [p EXCEPT !.timer = @ - 1] ELSE p
    BY <1>1, <2>1
  <2>4. q.pc = p.pc /\ DOMAIN q = DOMAIN p
    BY <2>2, <2>3 DEF Position, Away
  <2>5. Position(q)
    BY <2>2, <2>3, <2>4 DEF Position, Away
  <2>6. q # Away => p # Away
    BY <2>3 DEF Away
  <2>7. p.pc = "asleep" => "timer" \in DOMAIN p
    BY <2>2 DEF Position, Away
  <2>8. p.pc = "asleep" /\ p.timer \in Nat => q.timer = IF p.timer > 0 THEN p.timer - 1 ELSE 0
    BY <2>3, <2>7
  <2> QED
    BY <2>1, <2>4, <2>5, <2>6, <2>8
<1>3. OneAtATime'
  BY <1>0, <1>1, <1>2 DEF OneAtATime
<1>4. ASSUME ~creditedTwice PROVE RequestsOK' /\ Rested' /\ SleepersWait'
  <2>1. RequestsOK /\ Rested /\ SleepersWait
    BY <1>4 DEF NlInv
  <2>2. Interval \in Nat \ {0} /\ Full \in Nat /\ Full >= Interval /\ Budget * Interval \in Nat
    BY IntervalFits
  <2>3. PICK r : r = recent'
    OBVIOUS
  <2>4. /\ IsList(r) /\ \A i \in DOMAIN r : i \in DOMAIN recent /\ r[i] = recent[i] + 1
        /\ \A i \in DOMAIN r : 1 \in DOMAIN r /\ r[i] \in Nat /\ r[i] <= Budget * Interval
    <3>1. r = [i \in {i \in DOMAIN recent : recent[i] < Budget * Interval} |-> recent[i] + 1]
      BY <2>3 DEF NlTick
    <3> QED
      BY <2>1, <3>1, RecentRequests
  <2>5. \A i \in DOMAIN r : /\ recent[i] \in Nat /\ recent[1] \in Nat /\ 1 \in DOMAIN recent
                            /\ r[i] - r[1] = recent[i] - recent[1]
                            /\ i \in DOMAIN recent
    <3> TAKE i \in DOMAIN r
    <3>1. /\ recent[i] \in Nat /\ recent[1] \in Nat /\ 1 \in DOMAIN recent /\ i \in DOMAIN recent
          /\ r[i] = recent[i] + 1 /\ r[1] = recent[1] + 1
      BY <2>1, <2>4 DEF RequestsOK
    <3> QED
      BY <3>1
  <2>6. /\ nvdTokens' \in Nat
        /\ \A i \in DOMAIN r : r[i] - r[1] >= Behind(i) + 1
    BY <1>1, <2>1, <2>5 DEF RequestsOK
  <2>7. \A i, j \in DOMAIN r : i < j => r[i] <= r[j]
    <3> TAKE i \in DOMAIN r, j \in DOMAIN r
    <3> HAVE i < j
    <3>1. recent[i] <= recent[j] /\ recent[i] \in Nat /\ recent[j] \in Nat
      BY <2>1, <2>4 DEF RequestsOK
    <3> QED
      BY <2>4, <3>1
  <2>8. /\ lastRequest' \in Nat \cup {Never} /\ (lastRequest' = Never => DOMAIN r = {})
        /\ DOMAIN r # {} => lastRequest' = IF r[1] < Full THEN r[1] ELSE Full
    <3>1. CASE lastRequest = Never
      <4>1. lastRequest' = Never /\ DOMAIN recent = {}
        BY <2>1, <3>1 DEF NlTick, RequestsOK
      <4> QED
        BY <2>4, <4>1
    <3>2. CASE lastRequest # Never
      <4>1. lastRequest \in Nat
        BY <2>1, <3>2 DEF RequestsOK
      <4>2. PICK l \in Nat : l = lastRequest + 1
        BY <4>1
      <4>3. lastRequest' = Min({l, Full})
        BY <3>2, <4>2 DEF NlTick
      <4>4. lastRequest' = IF l < Full THEN l ELSE Full
        BY <2>2, <4>2, <4>3, LesserOf
      <4>5. lastRequest' \in Nat /\ lastRequest' # Never
        BY <2>2, <4>2, <4>4 DEF Never
      <4>6. ASSUME DOMAIN r # {} PROVE lastRequest' = IF r[1] < Full THEN r[1] ELSE Full
        <5>1. PICK i : i \in DOMAIN r
          BY <4>6
        <5>2. 1 \in DOMAIN r /\ r[1] = recent[1] + 1 /\ recent[1] \in Nat /\ DOMAIN recent # {}
          BY <2>4, <2>5, <5>1
        <5>3. lastRequest = IF recent[1] < Full THEN recent[1] ELSE Full
          BY <2>1, <5>2 DEF RequestsOK
        <5> QED
          BY <2>2, <4>2, <4>4, <5>2, <5>3
      <4> QED
        BY <4>5, <4>6
    <3> QED
      BY <3>1, <3>2
  <2>9. RequestsOK'
    BY <2>3, <2>4, <2>6, <2>7, <2>8 DEF RequestsOK, Behind
  <2>10. Rested'
    <3> SUFFICES ASSUME \A s \in Syncer : syncer'[s].pc # "asleep"
                 PROVE  \A i \in DOMAIN r : r[i] - r[1] >= Behind(i) + Credit(nvdTokens)
      BY <1>1, <2>3 DEF Rested, Behind, Credit
    <3>1. \A i \in DOMAIN recent : recent[i] - recent[1] >= Behind(i) + Credit(nvdTokens)
      BY <1>2, <2>1 DEF Rested
    <3> QED
      BY <2>5, <3>1
  <2>11. SleepersWait'
    <3>1. ASSUME NEW s \in Syncer, syncer'[s].pc = "asleep"
          PROVE  WaitsFor(syncer[s].timer)'
      <4>1. WaitsFor(syncer[s].timer) /\ syncer[s].pc = "asleep"
        BY <1>2, <2>1, <3>1 DEF SleepersWait
      <4>2. PICK t \in Nat, u \in Nat : t = syncer[s].timer /\ u = IF t > 0 THEN t - 1 ELSE 0
        BY <4>1 DEF WaitsFor
      <4>3. syncer'[s].timer = u /\ u \in Nat /\ u + 1 >= t
        BY <1>2, <4>1, <4>2
      <4>4. ASSUME NEW i \in DOMAIN r
            PROVE  r[i] + u >= Behind(i) + Interval + Credit(Left(nvdTokens))
        <5>1. recent[i] + t >= Behind(i) + Interval + Credit(Left(nvdTokens))
          BY <2>4, <4>1, <4>2 DEF WaitsFor
        <5>2. /\ Behind(i) \in Int /\ Credit(Left(nvdTokens)) \in Nat
              /\ recent[i] \in Nat /\ r[i] = recent[i] + 1
          <6>1. i \in Int
            BY <2>4, ListDomain
          <6>2. nvdTokens \in Nat
            BY <2>1 DEF RequestsOK
          <6> QED
            BY <2>4, <2>5, <6>1, <6>2, IntervalFits, CreditIsBounded
        <5>3. PICK b \in Int : b = Behind(i) + Interval + Credit(Left(nvdTokens))
          BY <2>2, <5>2
        <5>4. recent[i] + 1 + u >= b
          BY <4>2, <4>3, <5>1, <5>2, <5>3
        <5> QED
          BY <5>2, <5>3, <5>4
      <4> QED
        BY <1>1, <2>3, <4>3, <4>4 DEF WaitsFor, Behind, Credit, Left
    <3> QED
      BY <3>1 DEF SleepersWait
  <2> QED
    BY <2>9, <2>10, <2>11
<1> QED
  BY <1>1, <1>3, <1>4 DEF NlInv

LEMMA NlInvNext == NlInv /\ [NlNext]_nlVars => NlInv'
<1> SUFFICES ASSUME NlInv, [NlNext]_nlVars PROVE NlInv'
  OBVIOUS
<1>1. CASE NlTick
  BY <1>1, NlTickStep
<1>2. ASSUME NEW s \in Syncer,
             \/ FetchBegins(s) \/ WaitBegins(s) \/ WaitReturns(s)
             \/ FetchEnds(s) \/ FetchFails(s) \/ FetchRepeats(s) \/ FetchCancelled(s)
      PROVE  NlInv'
  BY <1>2, FetchStep, WaitBeginsStep, WaitReturnsStep, CancelledStep
<1>3. CASE UNCHANGED nlVars
  <2>1. OneAtATime'
    BY <1>3 DEF NlInv, nlVars, OneAtATime
  <2>2. ASSUME ~creditedTwice PROVE RequestsOK' /\ Rested' /\ SleepersWait'
    <3>1. RequestsOK /\ Rested /\ SleepersWait
      BY <2>2 DEF NlInv
    <3> QED
      BY <1>3, <3>1
      DEF nlVars, RequestsOK, Rested, SleepersWait, WaitsFor, Behind, Credit, Left
  <2> QED
    BY <1>3, <2>1, <2>2 DEF NlInv, nlVars
<1> QED
  BY <1>1, <1>2, <1>3 DEF NlNext

LEMMA NlInvInit == NlInit => NlInv
<1> SUFFICES ASSUME NlInit PROVE NlInv
  OBVIOUS
<1>1. \A s \in Syncer : syncer[s] = Away /\ Away.pc # "asleep"
  BY DEF NlInit, Away
<1>2. OneAtATime
  BY <1>1, Positions DEF NlInit, OneAtATime
<1>3. IsList(recent) /\ DOMAIN recent = {}
  BY ShortLists DEF NlInit
<1>4. RequestsOK
  BY <1>3, IntervalFits DEF NlInit, RequestsOK
<1>5. Rested /\ SleepersWait
  BY <1>1, <1>3 DEF Rested, SleepersWait
<1> QED
  BY <1>2, <1>4, <1>5 DEF NlInv

(* However long bursts, back-offs and late timers make the gaps between    *)
(* them, no more than one request beyond NVD's budget falls into any of    *)
(* its periods, for every interval, burst and budget, unless a wait was    *)
(* cancelled and its refill made twice (Wait, ratelimit.go).               *)
THEOREM BudgetHolds == NlSpec => []BudgetIsKept
<1>1. NlInv => BudgetIsKept
  <2> SUFFICES ASSUME RequestsOK PROVE Len(recent) <= Budget + 1
    BY DEF NlInv, BudgetIsKept
  <2>1. Len(recent) \in Nat /\ DOMAIN recent = 1..Len(recent)
    BY ListDomain DEF RequestsOK
  <2>2. PICK n \in Nat : n = Len(recent)
    BY <2>1
  <2>3. CASE n = 0
    BY <2>2, <2>3, IntervalFits
  <2>4. CASE n # 0
    <3>1. n \in DOMAIN recent /\ 1 \in DOMAIN recent
      BY <2>1, <2>2, <2>4
    <3>2. /\ recent[n] - recent[1] >= Behind(n) + 1 /\ recent[n] <= Budget * Interval
          /\ recent[n] \in Nat /\ recent[1] \in Nat
      BY <3>1 DEF RequestsOK
    <3>3. /\ Behind(n) \in Int /\ Budget * Interval \in Nat /\ Budget \in Nat
          /\ Interval \in Nat \ {0}
      BY IntervalFits
    <3>4. Behind(n) < Budget * Interval
      BY <3>2, <3>3
    <3>5. ASSUME n > Budget + 1 PROVE FALSE
      <4>1. PICK k \in Nat : n - 2 = Budget + k
        <5>1. n - 2 - Budget \in Nat /\ n - 2 = Budget + (n - 2 - Budget)
          BY <3>3, <3>5
        <5> QED
          BY <5>1
      <4>2. (Budget + k) * Interval = Budget * Interval + k * Interval /\ k * Interval \in Nat
        BY <3>3
      <4>3. Behind(n) = Budget * Interval + k * Interval
        BY <4>1, <4>2 DEF Behind
      <4> QED
        BY <3>3, <3>4, <4>2, <4>3
    <3> QED
      BY <2>2, <3>3, <3>5
  <2> QED
    BY <2>3, <2>4
<1>2. QED
  BY <1>1, NlInvInit, NlInvNext, PTL DEF NlSpec

-----------------------------------------------------------------------------
(* Compliance *)

(* What an evaluation counted: at least one rule, and those that passed.   *)
Counted(passed, total) ==
  /\ passed \in Nat /\ total \in Nat
  /\ passed <= total /\ 0 < total /\ total < 2000

ExactStatus(passed, total) ==
  IF 10 * passed >= 9 * total THEN "COMPLIANT"
  ELSE IF 10 * passed >= 7 * total THEN "DEGRADED" ELSE "NON_COMPLIANT"

(* The score of a host belongs to its results. *)
ScoreOK(score, results) ==
  /\ score.framework = results.framework
  /\ score.passed = Cardinality(results.passed)
  /\ score.total = Cardinality(results.rules)
  /\ score.score \in Nat /\ score.score <= 10000
  /\ score.status = StatusOf(score.score)
  /\ score.status = ExactStatus(score.passed, score.total)

CoInv ==
  /\ customRules \subseteq CustomRule
  /\ DOMAIN hostScores = DOMAIN evaluations
  /\ \A h \in DOMAIN hostScores : ScoreOK(hostScores[h], evaluations[h])
  /\ \A e \in Evaluation :
       evaluating[e] # NoEvaluation => ScoreOK(evaluating[e].score, evaluating[e].results)

LEMMA Rounded ==
  ASSUME NEW n \in Nat, NEW t \in Nat, 0 < t
  PROVE  /\ n \div t \in Nat
         /\ (n \div t) * t <= n /\ n < (n \div t) * t + t
OBVIOUS

LEMMA Multiples ==
  ASSUME NEW a \in Nat, NEW b \in Nat, NEW t \in Nat, a <= b
  PROVE  a * t <= b * t /\ a * t \in Nat /\ b * t \in Nat
<1>1. PICK k \in Nat : b = a + k
  <2>1. b - a \in Nat /\ b = a + (b - a)
    OBVIOUS
  <2> QED
    BY <2>1
<1>2. b * t = a * t + k * t /\ a * t \in Nat /\ k * t \in Nat
  BY <1>1
<1> QED
  BY <1>2

(* Rounding to two decimals never moves a score across a threshold.        *)
LEMMA ScoreIsExact ==
  ASSUME NEW passed, NEW total, Counted(passed, total)
  PROVE  /\ ScoreOf(passed, total) \in Nat /\ ScoreOf(passed, total) <= 10000
         /\ StatusOf(ScoreOf(passed, total)) = ExactStatus(passed, total)
<1>1. /\ passed \in Nat /\ total \in Nat
      /\ passed <= total /\ 0 < total /\ total < 2000
  BY DEF Counted
<1>2. PICK half \in Nat : half = total \div 2 /\ 2 * half <= total /\ total < 2 * half + 2
  <2>1. total \div 2 \in Nat /\ 2 * (total \div 2) <= total /\ total < 2 * (total \div 2) + 2
    BY <1>1
  <2> QED
    BY <2>1
<1>3. PICK n \in Nat : n = passed * 10000 + half
  BY <1>1, <1>2
<1>4. PICK q \in Nat : q = n \div total /\ q * total <= n /\ n < q * total + total
  BY <1>1, <1>3, Rounded
<1>5. ScoreOf(passed, total) = q
  BY <1>2, <1>3, <1>4 DEF ScoreOf
<1>6. q <= 10000
  <2> SUFFICES ASSUME 10001 <= q PROVE FALSE
    BY <1>4
  <2>1. 10001 * total <= q * total
    BY <1>1, <1>4, Multiples
  <2> QED
    BY <1>1, <1>2, <1>3, <1>4, <2>1
<1>7. ASSUME NEW m \in {7, 9} PROVE q >= 1000 * m <=> 10 * passed >= m * total
  <2>1. ASSUME 10 * passed >= m * total, q + 1 <= 1000 * m PROVE FALSE
    <3>1. (q + 1) * total <= (1000 * m) * total /\ (q + 1) * total = q * total + total
      BY <1>1, <1>4, <2>1, Multiples
    <3>2. (1000 * m) * total <= 10000 * passed
      <4>1. CASE m = 7
        BY <1>1, <2>1, <4>1
      <4>2. CASE m = 9
        BY <1>1, <2>1, <4>2
      <4> QED
        BY <4>1, <4>2
    <3>3. PICK x \in Nat : x = q * total
      BY <1>1, <1>4
    <3>4. PICK y \in Nat : y = (1000 * m) * total
      BY <1>1
    <3> QED
      BY <1>1, <1>2, <1>3, <1>4, <3>1, <3>2, <3>3, <3>4
  <2>2. ASSUME 10 * passed < m * total, 1000 * m <= q PROVE FALSE
    <3>1. (1000 * m) * total <= q * total
      BY <1>1, <1>4, <2>2, Multiples
    <3>2. 10000 * passed + 1000 <= (1000 * m) * total
      <4>1. CASE m = 7
        BY <1>1, <2>2, <4>1
      <4>2. CASE m = 9
        BY <1>1, <2>2, <4>2
      <4> QED
        BY <4>1, <4>2
    <3>3. PICK x \in Nat : x = q * total
      BY <1>1, <1>4
    <3>4. PICK y \in Nat : y = (1000 * m) * total
      BY <1>1
    <3> QED
      BY <1>1, <1>2, <1>3, <1>4, <3>1, <3>2, <3>3, <3>4
  <2>3. PICK y \in Nat : y = m * total
    BY <1>1
  <2>4. q >= 1000 * m \/ q + 1 <= 1000 * m
    BY <1>4
  <2>5. 10 * passed >= y \/ 10 * passed < y
    BY <1>1
  <2> QED
    BY <1>4, <2>1, <2>2, <2>3, <2>4, <2>5
<1>8. (q >= 9000 <=> 10 * passed >= 9 * total) /\ (q >= 7000 <=> 10 * passed >= 7 * total)
  BY <1>7
<1>9. q \in Nat
  BY <1>4
<1>10. StatusOf(q) = ExactStatus(passed, total)
  BY <1>8 DEF StatusOf, ExactStatus, Compliant, Degraded
<1> QED
  BY <1>5, <1>6, <1>9, <1>10

(* What EvaluateHost computes belongs together.                            *)
LEMMA EvaluateHostStep ==
  ASSUME FewRules, CoInv, NEW e \in Evaluation, NEW h, NEW s, NEW f, EvaluateHost(e, h, s, f)
  PROVE  CoInv'
<1> DEFINE rules == {r.code : r \in ListRulesByFramework(f)}
           passed == rules \cap PassesOn[s]
           score == ScoreOf(Cardinality(passed), Cardinality(rules))
<1>1. PICK p : p = [host |-> h,
         results |-> [snapshot |-> s, framework |-> f, rules |-> rules, passed |-> passed],
         score |-> [framework |-> f, total |-> Cardinality(rules),
                    passed |-> Cardinality(passed), score |-> score,
                    status |-> StatusOf(score)]]
  OBVIOUS
<1>2. /\ rules # {} /\ evaluating' = [evaluating EXCEPT ![e] = p]
      /\ UNCHANGED <<customRules, evaluations, hostScores>>
  BY <1>1 DEF EvaluateHost
<1>3. PICK R, P : R = rules /\ P = passed
  OBVIOUS
<1>4. IsFiniteSet(R) /\ Cardinality(R) <= Cardinality(BuiltinRules \cup CustomRule)
  <2>1. PICK A, L : A = BuiltinRules \cup CustomRule /\ L = ListRulesByFramework(f)
    OBVIOUS
  <2>2. L \subseteq A
    BY <2>1 DEF CoInv, ListRulesByFramework
  <2>3. IsFiniteSet(A)
    BY <2>1 DEF FewRules
  <2>4. IsFiniteSet(L) /\ Cardinality(L) <= Cardinality(A) /\ Cardinality(L) \in Nat /\ Cardinality(A) \in Nat
    BY <2>2, <2>3, FS_Subset, FS_CardinalityType
  <2>5. PICK code : code = [r \in L |-> r.code]
    OBVIOUS
  <2>6. code \in Surjection(L, R)
    BY <1>3, <2>1, <2>5 DEF Surjection
  <2>7. IsFiniteSet(R) /\ Cardinality(R) <= Cardinality(L)
    BY <2>4, <2>6, FS_Surjection
  <2>8. Cardinality(R) \in Nat
    BY <2>7, FS_CardinalityType
  <2> QED
    BY <2>1, <2>4, <2>7, <2>8
<1>5. Counted(Cardinality(P), Cardinality(R))
  <2>1. P \subseteq R /\ R # {}
    BY <1>2, <1>3
  <2>2. /\ IsFiniteSet(P) /\ Cardinality(P) <= Cardinality(R)
        /\ Cardinality(P) \in Nat /\ Cardinality(R) \in Nat
    BY <1>4, <2>1, FS_Subset, FS_CardinalityType
  <2>3. Cardinality(R) # 0
    BY <1>4, <2>1, FS_EmptySet
  <2>4. PICK n \in Nat : n = Cardinality(BuiltinRules \cup CustomRule) /\ n < 2000
    BY FS_CardinalityType DEF FewRules
  <2> QED
    BY <1>4, <2>2, <2>3, <2>4 DEF Counted
<1>6. PICK c : c = ScoreOf(Cardinality(P), Cardinality(R))
  OBVIOUS
<1>7. c \in Nat /\ c <= 10000 /\ StatusOf(c) = ExactStatus(Cardinality(P), Cardinality(R))
  BY <1>5, <1>6, ScoreIsExact
<1>8. /\ p.results.framework = f /\ p.results.rules = R /\ p.results.passed = P
      /\ p.score.framework = f /\ p.score.total = Cardinality(R) /\ p.score.passed = Cardinality(P)
      /\ p.score.score = c /\ p.score.status = StatusOf(c)
  BY <1>1, <1>3, <1>6
<1>9. ScoreOK(p.score, p.results)
  BY <1>7, <1>8 DEF ScoreOK
<1> QED
  BY <1>2, <1>9 DEF CoInv

LEMMA EvaluationIsSavedStep ==
  ASSUME CoInv, NEW e \in Evaluation, EvaluationIsSaved(e)
  PROVE  CoInv'
<1>1. PICK p : p = evaluating[e]
  OBVIOUS
<1>2. /\ evaluations' = Put(evaluations, p.host, p.results)
      /\ hostScores' = Put(hostScores, p.host, p.score)
      /\ evaluating' = [evaluating EXCEPT ![e] = NoEvaluation]
      /\ UNCHANGED customRules
      /\ ScoreOK(p.score, p.results)
  BY <1>1 DEF EvaluationIsSaved, SaveEvaluations, CoInv
<1>3. DOMAIN hostScores' = DOMAIN evaluations'
  BY <1>2 DEF Put, CoInv
<1>4. ASSUME NEW h \in DOMAIN hostScores' PROVE ScoreOK(hostScores'[h], evaluations'[h])
  <2>1. CASE h = p.host
    BY <1>2, <2>1 DEF Put
  <2>2. CASE h # p.host
    <3>1. /\ h \in DOMAIN hostScores /\ hostScores'[h] = hostScores[h]
          /\ evaluations'[h] = evaluations[h]
      BY <1>2, <1>4, <2>2 DEF Put, CoInv
    <3> QED
      BY <3>1 DEF CoInv
  <2> QED
    BY <2>1, <2>2
<1> QED
  BY <1>2, <1>3, <1>4 DEF CoInv

LEMMA CoInvInit == CoInit => CoInv
<1> SUFFICES ASSUME CoInit PROVE CoInv
  OBVIOUS
<1>1. DOMAIN << >> = {}
  BY ShortLists
<1> QED
  BY <1>1 DEF CoInit, CoInv

LEMMA CoInvNext == ASSUME FewRules PROVE CoInv /\ [CoNext]_coVars => CoInv'
<1> SUFFICES ASSUME CoInv, [CoNext]_coVars PROVE CoInv'
  OBVIOUS
<1>1. ASSUME NEW rule \in CustomRule, SaveRule(rule) PROVE CoInv'
  BY <1>1 DEF SaveRule, CoInv
<1>2. ASSUME NEW e \in Evaluation, NEW h \in CoHost, NEW s \in DOMAIN CoPayload,
             NEW f \in Framework, EvaluateHost(e, h, s, f)
      PROVE  CoInv'
  BY <1>2, EvaluateHostStep
<1>3. ASSUME NEW e \in Evaluation, EvaluationIsSaved(e) PROVE CoInv'
  BY <1>3, EvaluationIsSavedStep
<1>4. CASE UNCHANGED coVars
  BY <1>4 DEF coVars, CoInv
<1> QED
  BY <1>1, <1>2, <1>3, <1>4 DEF CoNext

(* The score of a host counts its own results, its status is that of the   *)
(* exact ratio, and the summary of its tenant counts every host once, for  *)
(* any number of evaluations beside each other and any set of fewer than   *)
(* 2000 rules, whatever their checks mean (EvaluateHost, engine.go, and    *)
(* GetTenantSummary, repository.go).                                       *)
THEOREM ScoresAgree == ASSUME FewRules PROVE CoSpec => []ScoresMatchResults
<1>1. CoInv => ScoresMatchResults
  <2> SUFFICES ASSUME CoInv PROVE ScoresMatchResults
    OBVIOUS
  <2>1. ASSUME NEW h \in DOMAIN hostScores
        PROVE  /\ h \in DOMAIN evaluations
               /\ hostScores[h].framework = evaluations[h].framework
               /\ hostScores[h].passed = Cardinality(evaluations[h].passed)
               /\ hostScores[h].total = Cardinality(evaluations[h].rules)
               /\ hostScores[h].score \in Nat /\ hostScores[h].score <= 10000
               /\ hostScores[h].status = StatusOf(hostScores[h].score)
               /\ hostScores[h].status = ExactStatus(hostScores[h].passed, hostScores[h].total)
    <3>1. h \in DOMAIN evaluations /\ ScoreOK(hostScores[h], evaluations[h])
      BY <2>1 DEF CoInv
    <3> QED
      BY <3>1 DEF ScoreOK
  <2>2. ASSUME NEW h \in DOMAIN hostScores
        PROVE  LET passed == Cardinality(evaluations[h].passed)
                   total == Cardinality(evaluations[h].rules)
               IN /\ hostScores[h].passed = passed /\ hostScores[h].total = total
                  /\ hostScores[h].status =
                       (IF 10 * passed >= 9 * total THEN "COMPLIANT"
                        ELSE IF 10 * passed >= 7 * total THEN "DEGRADED" ELSE "NON_COMPLIANT")
    BY <2>1, <2>2 DEF ExactStatus
  <2>3. ASSUME NEW f \in Framework
        PROVE  LET own == {h \in DOMAIN evaluations : evaluations[h].framework = f}
                   Count(status) == Cardinality({h \in own : hostScores[h].status = status})
               IN TenantSummary(f) =
                    [total |-> Cardinality(own), compliant |-> Count("COMPLIANT"),
                     degraded |-> Count("DEGRADED"), nonCompliant |-> Count("NON_COMPLIANT")]
    <3> DEFINE own == {x \in DOMAIN evaluations : evaluations[x].framework = f}
               Of(status) == {x \in own : hostScores[x].status = status}
               Band(low, high) ==
                 {x \in HostsIn(f) : low <= hostScores[x].score /\ hostScores[x].score < high}
    <3>1. HostsIn(f) = own
      BY <2>1 DEF HostsIn, CoInv
    <3>2. ASSUME NEW h \in DOMAIN hostScores
          PROVE  /\ hostScores[h].status = "COMPLIANT"
                      <=> 9000 <= hostScores[h].score /\ hostScores[h].score < 10001
                 /\ hostScores[h].status = "DEGRADED"
                      <=> 7000 <= hostScores[h].score /\ hostScores[h].score < 9000
                 /\ hostScores[h].status = "NON_COMPLIANT"
                      <=> 0 <= hostScores[h].score /\ hostScores[h].score < 7000
      <4>1. PICK c \in Nat : /\ c <= 10000 /\ c = hostScores[h].score
                             /\ hostScores[h].status = StatusOf(c)
        BY <2>1
      <4>2. CASE 9000 <= c
        BY <4>1, <4>2 DEF StatusOf, Compliant, Degraded
      <4>3. CASE 7000 <= c /\ c < 9000
        BY <4>1, <4>3 DEF StatusOf, Compliant, Degraded
      <4>4. CASE c < 7000
        BY <4>1, <4>4 DEF StatusOf, Compliant, Degraded
      <4> QED
        BY <4>1, <4>2, <4>3, <4>4
    <3>3. /\ Band(9000, 10001) = Of("COMPLIANT") /\ Band(7000, 9000) = Of("DEGRADED")
          /\ Band(0, 7000) = Of("NON_COMPLIANT")
      BY <3>1, <3>2 DEF CoInv
    <3>4. TenantSummary(f) =
            [total |-> Cardinality(HostsIn(f)), compliant |-> Cardinality(Band(9000, 10001)),
             degraded |-> Cardinality(Band(7000, 9000)),
             nonCompliant |-> Cardinality(Band(0, 7000))]
      BY DEF TenantSummary, Compliant, Degraded
    <3>5. TenantSummary(f) =
            [total |-> Cardinality(own), compliant |-> Cardinality(Of("COMPLIANT")),
             degraded |-> Cardinality(Of("DEGRADED")),
             nonCompliant |-> Cardinality(Of("NON_COMPLIANT"))]
      <4> HIDE DEF own, Of, Band
      <4> QED
        BY <3>1, <3>3, <3>4
    <3> QED
      BY <3>5, Zenon
  <2> QED
    BY <2>2, <2>3 DEF ScoresMatchResults
<1>2. QED
  BY <1>1, CoInvInit, CoInvNext, PTL DEF CoSpec
=============================================================================
