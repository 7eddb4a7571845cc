-------------------------------- MODULE Vault --------------------------------
(***************************************************************************)
(* The credential vault, apps/api/internal/vault/, and the handlers that   *)
(* store, rotate and test credentials.  The secrets are in one of two      *)
(* backends: a HashiCorp KV v2 store that several API servers share and    *)
(* that is reached by requests whose answer may be lost, or the records of *)
(* an EnvelopeProvider in the memory of one server.                        *)
(*                                                                         *)
(* A secret is represented by the number of its version; the plaintext and *)
(* its encryption are left out.                                            *)
(***************************************************************************)
EXTENDS Integers, Sequences, Functions, FiniteSets

CONSTANTS
  Ref,         \* opaque identifiers, as GenerateOpaqueID makes them
  Operation,   \* operations under way at the same time
  Server,      \* API servers
  MaxVersion   \* bound: versions a secret gets

VARIABLES
  backend,   \* "hashicorp" or "envelope", chosen at the start
  version,   \* per reference, the version the backend holds, 0 for none
  listed,    \* r.credentials: references the dashboard shows
  operation, \* per operation, where it stands
  deleted,   \* history: references that were deleted
  rotations, \* history: per reference never deleted, the version that each
             \* acknowledged rotation replaced
  unaudited  \* history: references resolved without an audit entry

vaVars == <<backend, version, listed, operation, deleted, rotations, unaudited>>

Ready == [pc |-> "ready"]

VaInit ==
  /\ backend \in {"hashicorp", "envelope"}
  /\ version = [c \in Ref |-> 0]
  /\ listed = {}
  /\ operation = [o \in Operation |-> Ready]
  /\ deleted = {} /\ rotations = [c \in Ref |-> <<>>]
  /\ unaudited = {}

Stands(o, pc) == operation[o].pc = pc
Becomes(o, where) == operation' = [operation EXCEPT ![o] = where]

(* The servers that can reach the backend. *)
Reaching == IF backend = "envelope" THEN {CHOOSE s \in Server : TRUE} ELSE Server

(* vm.mu is held for writing: a rotation is between its two requests. *)
Locked(s) == \E o \in Operation : Stands(o, "rotating") /\ operation[o].server = s

(* What a caller learns of a write that reached the backend: with HashiCorp *)
(* its answer may be lost, and the caller is told of a failure.            *)
Answers == IF backend = "hashicorp" THEN {"ok", "lost"} ELSE {"ok"}

(* AddVaultCredential, when the vault has acknowledged. *)
AddVaultCredential(c, answer) ==
  listed' = IF answer = "ok" THEN listed \cup {c} ELSE listed

(* StoreSecret: the first version, or a failure before it is stored.       *)
StoreSecret(c, answer) ==
  \/ answer \in Answers /\ version' = [version EXCEPT ![c] = 1]
  \/ answer = "failed" /\ UNCHANGED version

(* CreateVaultCredential: StoreCredential under a new reference, and then  *)
(* the summary.                                                            *)
CreateVaultCredential(c) ==
  /\ version[c] = 0 /\ c \notin deleted \cup listed
  /\ \E s \in Reaching : ~Locked(s)
  /\ \E answer \in Answers \cup {"failed"} :
       StoreSecret(c, answer) /\ AddVaultCredential(c, answer)
  /\ UNCHANGED <<backend, operation, deleted, rotations, unaudited>>

-----------------------------------------------------------------------------
(* RotateSecret, HashiCorp, first request: the version for the             *)
(* check-and-set.  Any answer but 200 leaves it at 0.                      *)
RotateReads(o, s, c) ==
  /\ backend = "hashicorp" /\ Stands(o, "ready") /\ ~Locked(s)
  /\ \E base \in {version[c], 0} :
       Becomes(o, [pc |-> "rotating", server |-> s, ref |-> c, base |-> base])
  /\ UNCHANGED <<backend, version, listed, deleted, rotations, unaudited>>

(* Fault: the write carries no check-and-set. *)
WriteUnchecked(c, base) == TRUE

(* The backend accepts a check-and-set write. *)
CASAccepts(c, base) == version[c] = base

Acknowledged(c, base, answer) ==
  rotations' = IF answer = "ok" /\ c \notin deleted
                 THEN [rotations EXCEPT ![c] = Append(@, base)] ELSE rotations

(* Second request: a new version if the check holds, otherwise an error.   *)
RotateWrites(o) ==
  /\ Stands(o, "rotating")
  /\ LET c == operation[o].ref  base == operation[o].base IN
     IF CASAccepts(c, base)
       THEN /\ version[c] < MaxVersion
            /\ version' = [version EXCEPT ![c] = @ + 1]
            /\ \E answer \in Answers : Acknowledged(c, base, answer)
       ELSE UNCHANGED <<version, rotations>>
  /\ Becomes(o, Ready)
  /\ UNCHANGED <<backend, listed, deleted, unaudited>>

(* No answer to either request: nothing is written. *)
RotateFails(o) ==
  /\ Stands(o, "rotating")
  /\ Becomes(o, Ready)
  /\ UNCHANGED <<backend, version, listed, deleted, rotations, unaudited>>

(* RotateSecret, EnvelopeProvider: replaces the record under its lock. *)
RotateEnvelope(c) ==
  /\ backend = "envelope" /\ version[c] \in 1..(MaxVersion - 1)
  /\ version' = [version EXCEPT ![c] = @ + 1]
  /\ Acknowledged(c, version[c], "ok")
  /\ UNCHANGED <<backend, listed, operation, deleted, unaudited>>

(* DeleteSecret: with HashiCorp the history of versions goes as well.      *)
DeleteSecret(c) == version' = [version EXCEPT ![c] = 0]

DeleteCredential(c) ==
  /\ \E s \in Reaching : ~Locked(s)
  /\ version[c] > 0
  /\ DeleteSecret(c)
  /\ deleted' = deleted \cup {c}
  /\ rotations' = [rotations EXCEPT ![c] = <<>>]
  /\ UNCHANGED <<backend, listed, operation, unaudited>>

-----------------------------------------------------------------------------
(* Fault: an audit entry that could not be written stops nothing. *)
AuditGoesOn(o, s, c, written) ==
  Becomes(o, [pc |-> "audited", server |-> s, ref |-> c, written |-> written])

(* A resolution whose audit entry was written goes on, another ends. *)
AuditDecides(o, s, c, written) ==
  Becomes(o, IF written THEN [pc |-> "audited", server |-> s, ref |-> c, written |-> TRUE]
                        ELSE Ready)

(* ResolveCredentialForGateway, before it takes the lock: the audit entry, *)
(* which may fail to be written.                                           *)
ResolveAudits(o, s, c) ==
  /\ Stands(o, "ready") /\ s \in Reaching
  /\ \E written \in BOOLEAN : AuditDecides(o, s, c, written)
  /\ UNCHANGED <<backend, version, listed, deleted, rotations, unaudited>>

(* ResolveSecret: the secret if there is one, or an error. *)
ResolveSecret(c, answer) == answer = "secret" => version[c] > 0

(* ... and, under the lock, the secret. *)
ResolveFetches(o) ==
  /\ Stands(o, "audited") /\ ~Locked(operation[o].server)
  /\ \E answer \in {"secret", "error"} :
       /\ ResolveSecret(operation[o].ref, answer)
       /\ unaudited' = IF answer = "error" \/ operation[o].written THEN unaudited
                       ELSE unaudited \cup {operation[o].ref}
  /\ Becomes(o, Ready)
  /\ UNCHANGED <<backend, version, listed, deleted, rotations>>

Rotate(o) ==
  \/ \E s \in Server, c \in Ref : RotateReads(o, s, c)
  \/ RotateWrites(o) \/ RotateFails(o)

Resolve(o) ==
  \/ \E s \in Server, c \in Ref : ResolveAudits(o, s, c)
  \/ ResolveFetches(o)

VaNext ==
  \/ \E o \in Operation : Rotate(o) \/ Resolve(o)
  \/ \E c \in Ref : CreateVaultCredential(c) \/ RotateEnvelope(c) \/ DeleteCredential(c)

VaSpec == VaInit /\ [][VaNext]_vaVars

-----------------------------------------------------------------------------
(* No rotation is lost: of the rotations of one credential that were       *)
(* acknowledged, on whatever servers they ran, no two replaced the same    *)
(* version (RotateSecret's check-and-set), unless it was deleted meanwhile *)
(* and its versions count from the start.                                  *)
NoRotationIsLost == \A c \in Ref : IsInjective(rotations[c])

(* "No secret without an audit trail" (service.go): whatever else runs     *)
(* between the two steps of a resolution, no secret is handed out unless   *)
(* its audit entry was written before.                                     *)
NoSecretWithoutAudit == unaudited = {}
=============================================================================
