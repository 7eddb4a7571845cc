------------------------------ MODULE VulnFeed ------------------------------
(***************************************************************************)
(* The worker that copies the CISA KEV catalogue and the NVD feed into the *)
(* local cache, apps/api/internal/vulnscan/worker.go with its two clients. *)
(* Its loop runs SyncFeedsNow, which holds w.mu from end to end, while     *)
(* another goroutine starts and stops it and both feeds change.            *)
(*                                                                         *)
(* NVD shows a modification up to Lag after the date it gives it, and is   *)
(* asked for a window of dates: that is why each window reaches back       *)
(* Overlap before the end of the previous synchronisation.  EnableAutoSync *)
(* is on; without it the loop never calls SyncFeedsNow.                    *)
(***************************************************************************)
EXTENDS Integers, FiniteSets, FiniteSetsExt

CONSTANTS
  CVE,
  KevCVE,       \* those CISA may list
  PageSize,     \* ResultsPerPage, 200
  Overlap,      \* 24 h
  Lag,          \* between the date of a modification and its appearance
  SyncTimeout,  \* deadline of a synchronisation, 3 or 5 min
  MaxRetries,   \* attempts per request, 3
  MaxRevision,  \* bound: revisions of one CVE
  VfMaxTime     \* bound: the clock

ASSUME VulnFeedAssumption ==
  /\ IsFiniteSet(CVE)
  /\ {PageSize, Overlap, Lag, SyncTimeout, MaxRetries} \subseteq Nat
  /\ Overlap >= Lag + SyncTimeout
  /\ KevCVE \subseteq CVE

VARIABLES
  vfNow,      \* the clock
  nvd,        \* NVD: per CVE its revision, its date and when it appeared
  kevFeed,    \* CISA: the catalogue
  cveCache,   \* r.cveCache: the revision cached, 0 for none
  kevCache,   \* r.kevCache
  lastSyncAt, \* w.lastSyncAt, 0 before the first synchronisation
  sync,       \* the call of SyncFeedsNow
  loop,       \* the goroutine: "none", "boot", "select" or "sync"
  stopChan,   \* w.stopChan: "open" or "closed"
  running,    \* w.running
  stopper,    \* the caller of Stop: "idle", "locking" or "waiting"
  synced,     \* history: when the last synchronisation to succeed began
  truncated   \* history: an answer had more entries than its page

feedVars == <<vfNow, nvd, kevFeed>>
syncVars == <<cveCache, kevCache, lastSyncAt, sync, synced, truncated>>
loopVars == <<loop, stopChan, running, stopper>>
vfVars == <<feedVars, syncVars, loopVars>>

NoSync == [pc |-> "none"]

VfInit ==
  /\ vfNow = 1
  /\ nvd = [c \in CVE |-> [revision |-> 0, date |-> 0, shown |-> 0]]
  /\ kevFeed = {} /\ cveCache = [c \in CVE |-> 0] /\ kevCache = {}
  /\ lastSyncAt = 0 /\ sync = NoSync
  /\ loop = "none" /\ stopChan = "open" /\ running = FALSE /\ stopper = "idle"
  /\ synced = 0 /\ truncated = FALSE

In(pc) == sync.pc = pc

(* Fault: Stop waits for the loop with the mutex held. *)
LockedByStop == sync # NoSync \/ stopper = "waiting"

(* w.mu is held: by a synchronisation, the others take and leave it at once. *)
Locked == sync # NoSync

-----------------------------------------------------------------------------
(* NVD publishes or modifies an entry, dated up to Lag ago. *)
Modify(c) ==
  /\ nvd[c].revision < MaxRevision
  /\ \E date \in Max({1, vfNow - Lag}) .. vfNow :
       /\ date >= nvd[c].date
       /\ nvd' = [nvd EXCEPT ![c] = [revision |-> @.revision + 1, date |-> date,
                                     shown |-> vfNow]]
  /\ UNCHANGED <<vfNow, kevFeed, syncVars, loopVars>>

(* CISA lists a CVE or withdraws it. *)
Relist(c) ==
  /\ kevFeed' = IF c \in kevFeed THEN kevFeed \ {c} ELSE kevFeed \cup {c}
  /\ UNCHANGED <<vfNow, nvd, syncVars, loopVars>>

(* A synchronisation is over by its deadline: its context ends it. *)
VfTick ==
  /\ vfNow < VfMaxTime
  /\ sync # NoSync => vfNow < sync.began + SyncTimeout
  /\ vfNow' = vfNow + 1
  /\ UNCHANGED <<nvd, kevFeed, syncVars, loopVars>>

-----------------------------------------------------------------------------
SyncEnds == loop' = "select" /\ UNCHANGED <<stopChan, running, stopper>>

Reply(call) ==
  /\ sync' = call
  /\ IF call = NoSync THEN SyncEnds ELSE UNCHANGED loopVars

(* An error: after a backoff the next attempt, unless this was the last    *)
(* one or the error is none that is tried again.                           *)
Fails == Reply(NoSync) \/ (sync.attempt < MaxRetries
                             /\ Reply([sync EXCEPT !.attempt = @ + 1]))

(* KEVClient.FetchCatalog: transport errors and statuses other than 200    *)
(* are tried again; a body that cannot be decoded, or the context, ends.   *)
(* Then SaveKEVCatalog, which replaces the catalogue, and the options of   *)
(* the request to NVD: their end date is read here.                        *)
FetchCatalog ==
  /\ In("kev")
  /\ \/ /\ kevCache' = kevFeed
        /\ Reply([pc |-> "nvd", began |-> sync.began, attempt |-> 1, end |-> vfNow])
     \/ Fails /\ UNCHANGED kevCache
  /\ UNCHANGED <<feedVars, cveCache, lastSyncAt, synced, truncated>>

(* Fault: the window begins where the previous synchronisation ended. *)
StartsAtLastSync(c) == nvd[c].date >= lastSyncAt

(* LastModStartDate: the overlap window, or everything the first time.     *)
AfterStart(c) == lastSyncAt = 0 \/ nvd[c].date >= lastSyncAt - Overlap

(* The entries that answer the request.                                    *)
Window ==
  {c \in CVE : /\ nvd[c].revision > 0
               /\ AfterStart(c)
               /\ lastSyncAt # 0 => nvd[c].date <= sync.end}

(* NVDClient.FetchCVEPage, start index 0: transport errors, 429 and 5xx    *)
(* are tried again; another status, the body or the context ends.          *)
FetchCVEPage ==
  /\ In("nvd")
  /\ \/ /\ \E page \in kSubset(Min({PageSize, Cardinality(Window)}), Window) :
             Reply([pc |-> "save", began |-> sync.began,
                    page |-> [c \in page |-> nvd[c].revision]])
        /\ truncated' = (truncated \/ Cardinality(Window) > PageSize)
     \/ Fails /\ UNCHANGED truncated
  /\ UNCHANGED <<feedVars, cveCache, kevCache, lastSyncAt, synced>>

(* SaveCachedCVEs, and the time of the synchronisation. *)
SaveCachedCVEs ==
  /\ In("save")
  /\ cveCache' = [c \in CVE |-> IF c \in DOMAIN sync.page THEN sync.page[c] ELSE cveCache[c]]
  /\ lastSyncAt' = vfNow /\ synced' = sync.began
  /\ Reply(NoSync)
  /\ UNCHANGED <<feedVars, kevCache, truncated>>

SyncFeedsNow == FetchCatalog \/ FetchCVEPage \/ SaveCachedCVEs

(* The loop calls SyncFeedsNow, on boot or on its ticker, which takes w.mu. *)
SyncBegins ==
  /\ loop \in {"boot", "select"} /\ ~Locked
  /\ sync' = [pc |-> "kev", began |-> vfNow, attempt |-> 1]
  /\ loop' = "sync"
  /\ UNCHANGED <<feedVars, cveCache, kevCache, lastSyncAt, synced, truncated,
                 stopChan, running, stopper>>

(* The loop's select takes the closed channel. *)
LoopStops ==
  /\ loop = "select" /\ stopChan = "closed"
  /\ loop' = "none"
  /\ UNCHANGED <<feedVars, syncVars, stopChan, running, stopper>>

-----------------------------------------------------------------------------
(* Start: an error when it is running. *)
Start ==
  /\ stopper = "idle" /\ ~Locked /\ ~running
  /\ running' = TRUE /\ stopChan' = "open" /\ loop' = "boot"
  /\ UNCHANGED <<feedVars, syncVars, stopper>>

(* Stop, by the goroutine that called Start: it waits for w.mu ... *)
StopCalled ==
  /\ stopper = "idle" /\ running
  /\ stopper' = "locking"
  /\ UNCHANGED <<feedVars, syncVars, loop, stopChan, running>>

(* ... closes the channel, and gives w.mu back before it waits ... *)
StopLocks ==
  /\ stopper = "locking" /\ ~Locked
  /\ running' = FALSE /\ stopChan' = "closed" /\ stopper' = "waiting"
  /\ UNCHANGED <<feedVars, syncVars, loop>>

(* ... for the loop to end. *)
StopReturns ==
  /\ stopper = "waiting" /\ loop = "none"
  /\ stopper' = "idle"
  /\ UNCHANGED <<feedVars, syncVars, loop, stopChan, running>>

VfNext ==
  \/ (\E c \in CVE : Modify(c)) \/ (\E c \in KevCVE : Relist(c))
  \/ VfTick
  \/ SyncFeedsNow \/ SyncBegins \/ LoopStops
  \/ Start \/ StopCalled \/ StopLocks \/ StopReturns

(* A goroutine that can run runs, each request is answered or times out,   *)
(* the mutex is given to every waiter in turn, and select chooses at       *)
(* random, so not for ever the ticker when the channel is closed as well.  *)
VfFairness ==
  /\ WF_vfVars(SyncFeedsNow) /\ WF_vfVars(SyncBegins)
  /\ SF_vfVars(LoopStops) /\ SF_vfVars(StopLocks) /\ WF_vfVars(StopReturns)

VfSpec == VfInit /\ [][VfNext]_vfVars /\ VfFairness

-----------------------------------------------------------------------------
(* Nothing is missed between two synchronisations: as long as no answer    *)
(* filled more than its page, every revision NVD showed before the last    *)
(* successful synchronisation began is cached, whatever failed before it   *)
(* and however late NVD showed it (the 24-hour overlap of worker.go).      *)
NothingMissed ==
  ~truncated => \A c \in CVE : nvd[c].shown < synced => cveCache[c] = nvd[c].revision

(* Stop returns, though it needs the mutex a synchronisation holds through *)
(* all its attempts and the loop may begin another one meanwhile.          *)
StopIsAnswered == [](stopper # "idle" => <>(stopper = "idle"))
=============================================================================
