------------------------------- MODULE Sessions -------------------------------
(***************************************************************************)
(* Sign-in and refresh-token rotation, apps/api/internal/auth/ and         *)
(* apps/api/internal/handlers/auth_handlers.go: password and MFA sign-in,  *)
(* OIDC sign-in, the SCIM life cycle of an account, and the exchange of    *)
(* refresh tokens.  Every call of the repository is a step of its own; the *)
(* requests that are under way at once are the members of AuthRequest.     *)
(*                                                                         *)
(* A refresh token stands for its session, which is its position in the    *)
(* sequence of sessions; a family for the first session in it.             *)
(***************************************************************************)
EXTENDS Integers, Sequences, FiniteSets

CONSTANTS
  User,          \* accounts
  MFAUser,       \* those created with a TOTP secret
  AuthRequest,   \* requests served at the same time
  RefreshTTL,    \* life of a refresh token, in ticks (7 days)
  ChallengeTTL,  \* life of an MFA challenge, in ticks (5 minutes)
  Overlap,       \* whether one family's tokens may be refreshed concurrently
  MaxSessions,   \* bound: sessions created
  SesMaxTime     \* bound: the clock

ASSUME SessionAssumption ==
  /\ MFAUser \subseteq User
  /\ RefreshTTL \in Nat /\ ChallengeTTL \in Nat
  /\ Overlap \in BOOLEAN

VARIABLES
  account,    \* r.users: per user, IsActive and TOTPEnabled
  sessions,   \* r.sessions, in the order they were saved
  challenges, \* r.challenges
  request,    \* per request, where it stands
  sesNow,     \* the clock
  offSince,   \* history: when an account was last deprovisioned
  replayed    \* history: families whose replay was answered

sesVars == <<account, sessions, challenges, request, sesNow, offSince, replayed>>

Idle == [pc |-> "idle"]
NewFamily == 0

SesInit ==
  /\ account = [u \in User |-> [active |-> TRUE, totp |-> u \in MFAUser]]
  /\ sessions = <<>>
  /\ challenges = {}
  /\ request = [r \in AuthRequest |-> Idle]
  /\ sesNow = 0
  /\ offSince = [u \in User |-> 0]
  /\ replayed = {}

Is(r, pc) == request[r].pc = pc
Proceeds(r, where) == request' = [request EXCEPT ![r] = where]

(* What IssueTokenPair is given: the user and the family to stay in. *)
Issue(u, f) == [pc |-> "issue", user |-> u, family |-> f]

(* Login with the right password: a challenge for a user with TOTP. *)
Login(r, u) ==
  /\ Is(r, "idle") /\ account[u].active
  /\ IF account[u].totp
       THEN /\ challenges' = challenges \cup {[user |-> u, expires |-> sesNow + ChallengeTTL]}
            /\ UNCHANGED request
       ELSE /\ Proceeds(r, Issue(u, NewFamily))
            /\ UNCHANGED challenges
  /\ UNCHANGED <<account, sessions, sesNow, offSince, replayed>>

(* VerifyMFA with the right code, as far as the check of the code ... *)
VerifyMFA(r, c) ==
  /\ Is(r, "idle")
  /\ c \in challenges /\ sesNow <= c.expires
  /\ Proceeds(r, [pc |-> "mfa", challenge |-> c])
  /\ UNCHANGED <<account, sessions, challenges, sesNow, offSince, replayed>>

(* ... and on: the challenge is deleted, the user looked up. *)
ChallengeMet(r) ==
  /\ Is(r, "mfa")
  /\ challenges' = challenges \ {request[r].challenge}
  /\ Proceeds(r, Issue(request[r].challenge.user, NewFamily))
  /\ UNCHANGED <<account, sessions, sesNow, offSince, replayed>>

(* SaveUser, with the record of a new user who has no TOTP. *)
SaveUser(u, active) ==
  /\ account' = [account EXCEPT ![u] = [active |-> active, totp |-> FALSE]]
  /\ offSince' = [offSince EXCEPT ![u] = IF active THEN 0 ELSE IF account[u].active THEN sesNow ELSE @]

(* OIDCCallback: the account is saved active, whatever it was. *)
OIDCCallback(r, u) ==
  /\ Is(r, "idle")
  /\ SaveUser(u, TRUE)
  /\ Proceeds(r, Issue(u, NewFamily))
  /\ UNCHANGED <<sessions, challenges, sesNow, replayed>>

(* SCIMCreateUser with the identifier of a known user, active or not. *)
ProvisionUser(u, active) ==
  /\ SaveUser(u, active)
  /\ UNCHANGED <<sessions, challenges, request, sesNow, replayed>>

(* SCIMDeprovisionUser: sessions and challenges stay as they are. *)
DeprovisionUser(u) ==
  /\ account[u].active
  /\ account' = [account EXCEPT ![u].active = FALSE]
  /\ offSince' = [offSince EXCEPT ![u] = sesNow]
  /\ UNCHANGED <<sessions, challenges, request, sesNow, replayed>>

-----------------------------------------------------------------------------
Family(s) == sessions[s].family
Expired(s) == sesNow > sessions[s].created + RefreshTTL

(* A family with a refresh under way. *)
Refreshing(f) ==
  \E r \in AuthRequest : request[r].pc \notin {"idle", "mfa"} /\ request[r].family = f

(* RefreshToken looks the session up: what it gets is the session itself. *)
RefreshToken(r, s) ==
  /\ Is(r, "idle") /\ s \in DOMAIN sessions
  /\ Overlap \/ ~Refreshing(Family(s))
  /\ Proceeds(r, [pc |-> "found", session |-> s, family |-> Family(s)])
  /\ UNCHANGED <<account, sessions, challenges, sesNow, offSince, replayed>>

Revoked(S) == [s \in DOMAIN sessions |->
  IF s \in S THEN [sessions[s] EXCEPT !.revoked = TRUE] ELSE sessions[s]]

(* RevokeSessionFamily. *)
RevokeSessionFamily(f) == sessions' = Revoked({s \in DOMAIN sessions : Family(s) = f})

(* A token that was exchanged before is presented again. *)
ReplayAnswered(r) ==
  /\ Is(r, "found") /\ sessions[request[r].session].revoked
  /\ RevokeSessionFamily(request[r].family)
  /\ replayed' = replayed \cup {request[r].family}
  /\ Proceeds(r, Idle)
  /\ UNCHANGED <<account, challenges, sesNow, offSince>>

ExpiryAnswered(r) ==
  /\ Is(r, "found")
  /\ LET s == request[r].session IN ~sessions[s].revoked /\ Expired(s)
  /\ Proceeds(r, Idle)
  /\ UNCHANGED <<account, sessions, challenges, sesNow, offSince, replayed>>

(* A token that is neither: the request will revoke the session ... *)
TokenAccepted(r) ==
  /\ Is(r, "found")
  /\ LET s == request[r].session IN ~sessions[s].revoked /\ ~Expired(s)
  /\ Proceeds(r, [request[r] EXCEPT !.pc = "rotate"])
  /\ UNCHANGED <<account, sessions, challenges, sesNow, offSince, replayed>>

(* Fault: the old session stays valid. *)
RevokeNothing(r) ==
  /\ Is(r, "rotate")
  /\ Proceeds(r, [request[r] EXCEPT !.pc = "owner"])
  /\ UNCHANGED <<account, sessions, challenges, sesNow, offSince, replayed>>

(* ... RevokeSession ... *)
RevokeSession(r) ==
  /\ Is(r, "rotate")
  /\ sessions' = Revoked({request[r].session})
  /\ Proceeds(r, [request[r] EXCEPT !.pc = "owner"])
  /\ UNCHANGED <<account, challenges, sesNow, offSince, replayed>>

(* Fault: the account is looked up and not looked at. *)
OwnerExists(u) == u \in User

OwnerIsActive(u) == account[u].active

(* ... and look its owner up, ending there if the account is inactive. *)
OwnerLookedUp(r) ==
  /\ Is(r, "owner")
  /\ LET u == sessions[request[r].session].user IN
     Proceeds(r, IF OwnerIsActive(u) THEN Issue(u, request[r].family) ELSE Idle)
  /\ UNCHANGED <<account, sessions, challenges, sesNow, offSince, replayed>>

(* IssueTokenPair: SaveSession, in the family given or in one of its own. *)
IssueTokenPair(r) ==
  /\ Is(r, "issue") /\ Len(sessions) < MaxSessions
  /\ LET f == IF request[r].family = NewFamily THEN Len(sessions) + 1 ELSE request[r].family IN
     sessions' = Append(sessions,
       [user |-> request[r].user, family |-> f, revoked |-> FALSE, created |-> sesNow])
  /\ Proceeds(r, Idle)
  /\ UNCHANGED <<account, challenges, sesNow, offSince, replayed>>

(* A tick is minutes: a request ends in the tick it began in. *)
SesTick ==
  /\ sesNow < SesMaxTime
  /\ \A r \in AuthRequest : Is(r, "idle")
  /\ sesNow' = sesNow + 1
  /\ UNCHANGED <<account, sessions, challenges, request, offSince, replayed>>

SignIn(r) ==
  \/ \E u \in User : Login(r, u) \/ OIDCCallback(r, u)
  \/ \E c \in challenges : VerifyMFA(r, c)
  \/ ChallengeMet(r)

Refresh(r) ==
  \/ \E s \in DOMAIN sessions : RefreshToken(r, s)
  \/ ReplayAnswered(r) \/ ExpiryAnswered(r) \/ TokenAccepted(r)
  \/ RevokeSession(r) \/ OwnerLookedUp(r)

SesNext ==
  \/ \E r \in AuthRequest : SignIn(r) \/ Refresh(r) \/ IssueTokenPair(r)
  \/ \E u \in User : DeprovisionUser(u) \/ \E a \in BOOLEAN : ProvisionUser(u, a)
  \/ SesTick

SesSpec == SesInit /\ [][SesNext]_sesVars

-----------------------------------------------------------------------------
Live(f) == {s \in DOMAIN sessions : Family(s) = f /\ ~sessions[s].revoked}
Pending(f) == {r \in AuthRequest : request[r].pc \in {"owner", "issue"} /\ request[r].family = f}

(* Rotation keeps a sign-in to one usable refresh token: whatever requests *)
(* of other families, replays and account changes come in between, the     *)
(* live sessions of a family and those about to be saved are never two     *)
(* (RefreshToken revokes the old session before it issues the new one).    *)
(* And "if an already-rotated/revoked token is used, all tokens in the     *)
(* family are revoked" (session.go): none of it comes to life again.       *)
(* Both hold as long as no two refreshes of one family overlap.            *)
OneLiveTokenPerFamily ==
  Overlap \/ \A s \in DOMAIN sessions :
    LET f == Family(s) IN
    Cardinality(Live(f)) + Cardinality(Pending(f)) <= IF f \in replayed THEN 0 ELSE 1

(* An account that was deprovisioned and not provisioned again gets its    *)
(* last session from an MFA challenge that was open at that moment, if at  *)
(* all: no refresh and no password gives it one.                           *)
DeprovisionedGetNoSessions ==
  \A s \in DOMAIN sessions : ~account[sessions[s].user].active =>
    sessions[s].created <= offSince[sessions[s].user] + ChallengeTTL
=============================================================================
