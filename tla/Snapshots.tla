------------------------------ MODULE Snapshots ------------------------------
(***************************************************************************)
(* The host snapshots of the control plane's repository,                   *)
(* apps/api/internal/repository/repository.go, and a client that walks     *)
(* over them page by page (ListSnapshotsKeyset).  Every method holds the   *)
(* repository's mutex throughout; a walk is many calls.                    *)
(*                                                                         *)
(* A snapshot is its ID; its host and day of capture never change (born).  *)
(* Payloads are left out: a payload is in memory until its snapshot is     *)
(* archived.  The filters by tenant and host narrow the list a walk sees   *)
(* and nothing else, and are left out too.                                 *)
(***************************************************************************)
EXTENDS Collections, SequencesExt

CONSTANTS
  SnapId,    \* snapshot IDs; numbers, since pages are ordered by ID too
  Host,      \* identifiers of hosts
  LastDay,   \* bound: the last day of a behaviour
  Backdated, \* bound: how many days before today a capture may be dated
  PageLimit  \* the page limits clients ask for, after the clamp to 1..100

ASSUME SnapshotsAssumption ==
  /\ SnapId \subseteq Nat \ {0} /\ IsFiniteSet(SnapId)
  /\ LastDay \in Nat
  /\ Backdated \in Nat
  /\ PageLimit \subseteq Nat \ {0}

VARIABLES
  now,      \* the current day
  born,     \* host and day of every snapshot saved so far
  present,  \* the keys of r.snapshots
  archived, \* IsArchived, and the payload cleared
  weekly,   \* IsDownsampleRetained
  walk      \* the client's walk over the pages

storeVars == <<born, present, archived, weekly>>

NoCursor == 0

(* A client that is not walking. *)
NoWalk == [open |-> FALSE, whole |-> TRUE, cursor |-> NoCursor, start |-> {}, seen |-> <<>>]

SnapInit ==
  /\ now = 0
  /\ born = <<>>
  /\ present = {}
  /\ archived = {}
  /\ weekly = {}
  /\ walk = NoWalk

Saved == DOMAIN born

(* SaveSnapshot under a fresh ID. *)
SaveSnapshot(i, h, day) ==
  /\ i \notin Saved
  /\ day \in Nat /\ now - Backdated <= day /\ day <= now
  /\ born' = [k \in Saved \cup {i} |-> IF k = i THEN [host |-> h, day |-> day] ELSE born[k]]
  /\ present' = present \cup {i}
  /\ UNCHANGED <<now, archived, weekly, walk>>

NextDay ==
  /\ now < LastDay
  /\ now' = now + 1
  /\ UNCHANGED <<storeVars, walk>>

-----------------------------------------------------------------------------
(* Fault: snapshots of the same day are not ordered by ID. *)
ComesAfterByDay(i, c) == born[i].day < born[c].day

(* The order of the pages: newest first, ties by the larger ID. *)
ComesAfter(i, c) ==
  born[i].day < born[c].day \/ (born[i].day = born[c].day /\ i < c)

Newer(i, k) == born[i].day > born[k].day \/ (born[i].day = born[k].day /\ i > k)
Sorted == InOrder(present, Newer)

(* Where the page after the cursor starts: at the first snapshot that      *)
(* comes after it, and at the top if there is none.                        *)
PageStart(all, c) ==
  LET after == {n \in DOMAIN all : c # NoCursor /\ ComesAfter(all[n], c)}
  IN  IF after = {} THEN 1 ELSE CHOOSE n \in after : \A m \in after : n <= m

(* ListSnapshotsKeyset: one page is appended to what the client has seen;  *)
(* the walk is over when the page comes without a cursor.                  *)
TakePage(w, limit) ==
  LET all  == Sorted
      from == PageStart(all, w.cursor)
      page == SubSeq(all, from, IF from + limit - 1 < Len(all) THEN from + limit - 1 ELSE Len(all))
      more == from + limit - 1 < Len(all)
  IN  [w EXCEPT !.open = more,
                !.cursor = IF more THEN Last(page) ELSE NoCursor,
                !.seen = @ \o page]

(* The client asks for the first page. *)
WalkStarts(limit) ==
  /\ ~walk.open
  /\ walk' = TakePage([NoWalk EXCEPT !.start = present], limit)
  /\ UNCHANGED <<now, storeVars>>

(* The client asks for the page after its cursor. *)
WalkContinues(limit) ==
  /\ walk.open
  /\ walk' = TakePage(walk, limit)
  /\ UNCHANGED <<now, storeVars>>

SnapNext ==
  \/ \E i \in SnapId, h \in Host, day \in 0..LastDay : SaveSnapshot(i, h, day)
  \/ NextDay
  \/ \E limit \in PageLimit : WalkStarts(limit) \/ WalkContinues(limit)

-----------------------------------------------------------------------------
(* Every variable of the store stays within its declared range. *)
SnapTypeOK ==
  /\ now \in 0..LastDay
  /\ Saved \subseteq SnapId
  /\ \A i \in Saved : born[i] \in [host : Host, day : 0..LastDay]
  /\ present \subseteq Saved
  /\ archived \subseteq present
  /\ weekly \subseteq present
  /\ walk.start \subseteq Saved
  /\ walk.seen \in Seq(Saved)
  /\ walk.open => walk.cursor \in Saved

Sightings(i) == Cardinality({n \in DOMAIN walk.seen : walk.seen[n] = i})

(* A walk over the pages sees every snapshot that was there when it began  *)
(* exactly once and no snapshot twice, whatever was saved, backdated or    *)
(* archived in the meantime, unless a snapshot was pruned under it.        *)
WalkIsComplete ==
  walk.whole =>
    /\ \A i \in Saved : Sightings(i) <= 1
    /\ ~walk.open => \A i \in walk.start : Sightings(i) = 1
=============================================================================
