---------------------------- MODULE AccessProofs ----------------------------
(***************************************************************************)
(* Proofs about who is let in and what is handed out: Sessions, for every  *)
(* set of accounts, any number of requests at once and every life of       *)
(* tokens and challenges; Vault, for every number of credentials, of API   *)
(* servers and of operations under way at once, over either backend; the   *)
(* session limiter of a gateway, for any finite number of clients and any  *)
(* capacity; and the rate limiter of the API, a token bucket per client,   *)
(* for any clients, any rate and burst, and any limit of silence in which  *)
(* a bucket fills.                                                         *)
(***************************************************************************)
EXTENDS RateLimiter, SubnetRateLimiter, Sessions, Vault, FiniteSetTheorems, TLAPS

-----------------------------------------------------------------------------
(* Sessions *)

SessionRecord == [user : User, family : Nat \ {0}, revoked : BOOLEAN, created : Nat]
Challenge     == [user : User, expires : Nat]
IssueState    == [pc : {"issue"}, user : User, family : Nat]
MFAState      == [pc : {"mfa"}, challenge : Challenge]
RefreshState  == [pc : {"found", "rotate", "owner"}, session : Nat, family : Nat]

SesTypeOK ==
  /\ account \in [User -> [active : BOOLEAN, totp : BOOLEAN]]
  /\ sessions \in Seq(SessionRecord)
  /\ challenges \subseteq Challenge
  /\ request \in [AuthRequest -> {Idle} \cup IssueState \cup MFAState \cup RefreshState]
  /\ sesNow \in Nat
  /\ offSince \in [User -> Nat]

(* A family is the position of its first session, so a family that is      *)
(* known to anybody has a session, and the next position is a new family.  *)
FamiliesKnown ==
  /\ \A s \in DOMAIN sessions : Family(s) <= Len(sessions)
  /\ replayed \subseteq 1..Len(sessions)
  /\ \A r \in AuthRequest :
       /\ Is(r, "issue") => request[r].family <= Len(sessions)
       /\ request[r] \in RefreshState =>
            /\ request[r].session \in DOMAIN sessions
            /\ request[r].family = Family(request[r].session)

(* Request r refreshes, or issues to, family f. *)
BusyWith(r, f) == request[r].pc \notin {"idle", "mfa"} /\ request[r].family = f

(* A family has one refresh at a time; the session it will revoke is live  *)
(* until it does, and from then on no other is.                            *)
RotationOK ==
  /\ \A f \in Nat \ {0}, r, q \in AuthRequest : BusyWith(r, f) /\ BusyWith(q, f) => r = q
  /\ \A r \in AuthRequest : Is(r, "rotate") => ~sessions[request[r].session].revoked
  /\ \A s, t \in DOMAIN sessions :
       Family(s) = Family(t) /\ ~sessions[s].revoked /\ ~sessions[t].revoked => s = t
  /\ \A s \in DOMAIN sessions : ~sessions[s].revoked =>
       Family(s) \notin replayed /\ Pending(Family(s)) = {}
  /\ \A f \in replayed : Pending(f) = {}

SessionsInv == SesTypeOK /\ FamiliesKnown /\ (~Overlap => RotationOK)

(* Until when account u can still be given a session. *)
LastChance(u) == offSince[u] + ChallengeTTL

(* A challenge that will not outlive its user's last chance, and a request *)
(* that may still give its user a session.                                 *)
Opened(c) == /\ c.expires <= sesNow + ChallengeTTL
             /\ ~account[c.user].active => c.expires <= LastChance(c.user)
Entitled(r) ==
  /\ Is(r, "mfa") => sesNow <= request[r].challenge.expires /\ Opened(request[r].challenge)
  /\ Is(r, "issue") /\ ~account[request[r].user].active => sesNow <= LastChance(request[r].user)

(* What an inactive account has left: challenges, requests and sessions    *)
(* from before LastChance.  A request ends in the tick it began in.        *)
DepartureOK ==
  /\ \A u \in User : offSince[u] <= sesNow
  /\ \A c \in challenges : Opened(c)
  /\ \A r \in AuthRequest : Entitled(r)
  /\ \A s \in DOMAIN sessions : sessions[s].created <= sesNow
  /\ DeprovisionedGetNoSessions

-----------------------------------------------------------------------------
(* Where a request stands decides what it knows. *)
LEMMA RequestKinds ==
  ASSUME SesTypeOK, NEW r \in AuthRequest
  PROVE  /\ request[r] \in {Idle} \cup IssueState \cup MFAState \cup RefreshState
         /\ Is(r, "idle") <=> request[r] = Idle
         /\ Is(r, "issue") <=> request[r] \in IssueState
         /\ Is(r, "mfa") <=> request[r] \in MFAState
         /\ Is(r, "found") \/ Is(r, "rotate") \/ Is(r, "owner") <=> request[r] \in RefreshState
BY DEF SesTypeOK, Is, Idle, IssueState, MFAState, RefreshState

LEMMA SessionsType ==
  ASSUME SesTypeOK
  PROVE  /\ Len(sessions) \in Nat
         /\ DOMAIN sessions = 1..Len(sessions)
         /\ \A s \in DOMAIN sessions : sessions[s] \in SessionRecord
BY DEF SesTypeOK

(* Revoking sessions changes nothing else of them. *)
LEMMA RevokedSessions ==
  ASSUME SesTypeOK, NEW S
  PROVE  /\ Revoked(S) \in Seq(SessionRecord)
         /\ Len(Revoked(S)) = Len(sessions) /\ DOMAIN Revoked(S) = DOMAIN sessions
         /\ \A s \in DOMAIN sessions :
              /\ Revoked(S)[s].user = sessions[s].user
              /\ Revoked(S)[s].family = sessions[s].family
              /\ Revoked(S)[s].created = sessions[s].created
              /\ s \in S => Revoked(S)[s].revoked
              /\ s \notin S => Revoked(S)[s].revoked = sessions[s].revoked
<1>1. /\ Len(sessions) \in Nat /\ DOMAIN sessions = 1..Len(sessions)
      /\ \A s \in DOMAIN sessions : sessions[s] \in SessionRecord
  BY SessionsType
<1>2. \A s \in DOMAIN sessions : Revoked(S)[s] =
        IF s \in S THEN [sessions[s] EXCEPT !.revoked = TRUE] ELSE sessions[s]
  BY DEF Revoked
<1>3. \A s \in DOMAIN sessions : Revoked(S)[s] \in SessionRecord
  BY <1>1, <1>2 DEF SessionRecord
<1>4. Revoked(S) \in [1..Len(sessions) -> SessionRecord]
  BY <1>1, <1>3 DEF Revoked
<1>5. Revoked(S) \in Seq(SessionRecord) /\ Len(Revoked(S)) = Len(sessions)
  BY <1>1, <1>4
<1> QED
  BY <1>1, <1>2, <1>4, <1>5 DEF SessionRecord

(* Saving a session leaves the others where they are. *)
LEMMA AppendedSession ==
  ASSUME SesTypeOK, NEW rec \in SessionRecord
  PROVE  /\ Append(sessions, rec) \in Seq(SessionRecord)
         /\ Len(Append(sessions, rec)) = Len(sessions) + 1
         /\ DOMAIN Append(sessions, rec) = DOMAIN sessions \cup {Len(sessions) + 1}
         /\ \A s \in DOMAIN sessions : Append(sessions, rec)[s] = sessions[s]
         /\ Append(sessions, rec)[Len(sessions) + 1] = rec
         /\ Len(sessions) + 1 \notin DOMAIN sessions
BY DEF SesTypeOK

(* Moving one request on keeps the types. *)
LEMMA ProceedsType ==
  ASSUME SesTypeOK, NEW r \in AuthRequest,
         NEW where \in {Idle} \cup IssueState \cup MFAState \cup RefreshState, Proceeds(r, where)
  PROVE  /\ request' \in [AuthRequest -> {Idle} \cup IssueState \cup MFAState \cup RefreshState]
         /\ request'[r] = where
         /\ \A q \in AuthRequest \ {r} : request'[q] = request[q]
BY DEF SesTypeOK, Proceeds

States == {Idle} \cup IssueState \cup MFAState \cup RefreshState

(* What request r may become: it knows a family that exists. *)
KnowsFamily(where) ==
  /\ where \in IssueState => where.family <= Len(sessions)
  /\ where \in RefreshState =>
       where.session \in DOMAIN sessions /\ where.family = Family(where.session)

LEMMA ProceedsFamilies ==
  ASSUME SesTypeOK, FamiliesKnown, NEW r \in AuthRequest, NEW where \in States,
         Proceeds(r, where), KnowsFamily(where), UNCHANGED <<sessions, replayed>>
  PROVE  /\ FamiliesKnown'
         /\ request' \in [AuthRequest -> States]
<1>1. /\ request' \in [AuthRequest -> States] /\ request'[r] = where
      /\ \A q \in AuthRequest \ {r} : request'[q] = request[q]
  BY ProceedsType DEF States
<1>2. ASSUME NEW q \in AuthRequest
      PROVE  /\ Is(q, "issue")' => request'[q].family <= Len(sessions)
             /\ request'[q] \in RefreshState =>
                  /\ request'[q].session \in DOMAIN sessions
                  /\ request'[q].family = Family(request'[q].session)
  <2>1. CASE q = r
    <3>1. where.pc = "issue" => where \in IssueState
      BY DEF States, Idle, IssueState, MFAState, RefreshState
    <3>2. QED
      BY <1>1, <2>1, <3>1 DEF KnowsFamily, Is
  <2>2. CASE q # r
    BY <1>1, <2>2 DEF FamiliesKnown, Is
  <2> QED
    BY <2>1, <2>2
<1>3. FamiliesKnown'
  BY <1>2 DEF FamiliesKnown, Family
<1> QED
  BY <1>1, <1>3

(* Revoking sessions leaves the families as they are. *)
LEMMA RevokedFamilies ==
  ASSUME SesTypeOK, FamiliesKnown, NEW S, sessions' = Revoked(S),
         replayed' \subseteq 1..Len(sessions),
         request' \in [AuthRequest -> States],
         \A q \in AuthRequest :
           /\ Is(q, "issue")' => request'[q].family <= Len(sessions)
           /\ request'[q] \in RefreshState =>
                /\ request'[q].session \in DOMAIN sessions
                /\ request'[q].family = Family(request'[q].session)
  PROVE  FamiliesKnown'
BY RevokedSessions DEF FamiliesKnown, Family

LEMMA SignInType ==
  ASSUME SesTypeOK, FamiliesKnown, NEW r \in AuthRequest, SignIn(r)
  PROVE  SesTypeOK' /\ FamiliesKnown'
<1>1. ASSUME NEW u \in User, Login(r, u) PROVE SesTypeOK' /\ FamiliesKnown'
  <2>1. CASE account[u].totp
    <3>1. [user |-> u, expires |-> sesNow + ChallengeTTL] \in Challenge
      BY SessionAssumption DEF SesTypeOK, Challenge
    <3>2. SesTypeOK'
      BY <1>1, <2>1, <3>1 DEF Login, SesTypeOK
    <3>3. FamiliesKnown'
      BY <1>1, <2>1 DEF Login, FamiliesKnown, Is, Family
    <3> QED
      BY <3>2, <3>3
  <2>2. CASE ~account[u].totp
    <3>1. Issue(u, NewFamily) \in IssueState /\ KnowsFamily(Issue(u, NewFamily))
      BY SessionsType DEF Issue, NewFamily, IssueState, KnowsFamily, RefreshState
    <3>2. /\ Proceeds(r, Issue(u, NewFamily))
          /\ UNCHANGED <<account, sessions, challenges, sesNow, offSince, replayed>>
      BY <1>1, <2>2 DEF Login
    <3>3. FamiliesKnown' /\ request' \in [AuthRequest -> States]
      BY <3>1, <3>2, ProceedsFamilies DEF States
    <3> QED
      BY <3>2, <3>3 DEF SesTypeOK, States
  <2> QED
    BY <2>1, <2>2
<1>2. ASSUME NEW u \in User, OIDCCallback(r, u) PROVE SesTypeOK' /\ FamiliesKnown'
  <2>1. Issue(u, NewFamily) \in IssueState /\ KnowsFamily(Issue(u, NewFamily))
    BY SessionsType DEF Issue, NewFamily, IssueState, KnowsFamily, RefreshState
  <2>2. Proceeds(r, Issue(u, NewFamily)) /\ UNCHANGED <<sessions, challenges, sesNow, replayed>>
    BY <1>2 DEF OIDCCallback
  <2>3. FamiliesKnown' /\ request' \in [AuthRequest -> States]
    BY <2>1, <2>2, ProceedsFamilies DEF States
  <2>4. account' \in [User -> [active : BOOLEAN, totp : BOOLEAN]] /\ offSince' \in [User -> Nat]
    BY <1>2 DEF OIDCCallback, SaveUser, SesTypeOK
  <2> QED
    BY <2>2, <2>3, <2>4 DEF SesTypeOK, States
<1>3. ASSUME NEW c \in challenges, VerifyMFA(r, c) PROVE SesTypeOK' /\ FamiliesKnown'
  <2> DEFINE where == [pc |-> "mfa", challenge |-> c]
  <2>1. where \in MFAState /\ KnowsFamily(where)
    BY DEF SesTypeOK, MFAState, KnowsFamily, RefreshState, IssueState
  <2>2. /\ Proceeds(r, where)
        /\ UNCHANGED <<account, sessions, challenges, sesNow, offSince, replayed>>
    BY <1>3 DEF VerifyMFA
  <2>3. FamiliesKnown' /\ request' \in [AuthRequest -> States]
    BY <2>1, <2>2, ProceedsFamilies DEF States
  <2> QED
    BY <2>2, <2>3 DEF SesTypeOK, States
<1>4. ASSUME ChallengeMet(r) PROVE SesTypeOK' /\ FamiliesKnown'
  <2> DEFINE u == request[r].challenge.user
  <2>1. u \in User
    BY <1>4, RequestKinds DEF ChallengeMet, MFAState, Challenge
  <2>2. Issue(u, NewFamily) \in IssueState /\ KnowsFamily(Issue(u, NewFamily))
    BY <2>1, SessionsType DEF Issue, NewFamily, IssueState, KnowsFamily, RefreshState
  <2>3. /\ Proceeds(r, Issue(u, NewFamily)) /\ challenges' \subseteq challenges
        /\ UNCHANGED <<account, sessions, sesNow, offSince, replayed>>
    BY <1>4 DEF ChallengeMet
  <2>4. FamiliesKnown' /\ request' \in [AuthRequest -> States]
    BY <2>2, <2>3, ProceedsFamilies DEF States
  <2> QED
    BY <2>3, <2>4 DEF SesTypeOK, States
<1> QED
  BY <1>1, <1>2, <1>3, <1>4 DEF SignIn

(* A request under way is busy with a family that exists. *)
LEMMA RefreshKnows ==
  ASSUME SesTypeOK, FamiliesKnown, NEW r \in AuthRequest,
         Is(r, "found") \/ Is(r, "rotate") \/ Is(r, "owner")
  PROVE  /\ request[r] \in RefreshState
         /\ request[r].session \in DOMAIN sessions
         /\ request[r].family = Family(request[r].session)
         /\ request[r].family \in 1..Len(sessions)
         /\ sessions[request[r].session] \in SessionRecord
<1>1. request[r] \in RefreshState
  BY RequestKinds
<1>2. request[r].session \in DOMAIN sessions /\ request[r].family = Family(request[r].session)
  BY <1>1 DEF FamiliesKnown
<1> QED
  BY <1>1, <1>2, SessionsType DEF FamiliesKnown, Family, SessionRecord

LEMMA RefreshType ==
  ASSUME SesTypeOK, FamiliesKnown, NEW r \in AuthRequest, Refresh(r)
  PROVE  SesTypeOK' /\ FamiliesKnown'
<1>0. Idle \in States /\ KnowsFamily(Idle)
  BY DEF States, KnowsFamily, Idle, IssueState, RefreshState
<1>1. ASSUME NEW s \in DOMAIN sessions, RefreshToken(r, s) PROVE SesTypeOK' /\ FamiliesKnown'
  <2> DEFINE where == [pc |-> "found", session |-> s, family |-> Family(s)]
  <2>1. s \in Nat /\ Family(s) \in Nat
    BY SessionsType DEF Family, SessionRecord
  <2>2. where \in RefreshState /\ KnowsFamily(where)
    BY <2>1 DEF RefreshState, KnowsFamily, IssueState
  <2>3. /\ Proceeds(r, where)
        /\ UNCHANGED <<account, sessions, challenges, sesNow, offSince, replayed>>
    BY <1>1 DEF RefreshToken
  <2>4. FamiliesKnown' /\ request' \in [AuthRequest -> States]
    BY <2>2, <2>3, ProceedsFamilies DEF States
  <2> QED
    BY <2>3, <2>4 DEF SesTypeOK, States
<1>2. CASE ReplayAnswered(r)
  <2>1. /\ request[r].family \in 1..Len(sessions)
    BY <1>2, RefreshKnows DEF ReplayAnswered
  <2>2. /\ Proceeds(r, Idle)
        /\ UNCHANGED <<account, challenges, sesNow, offSince>>
        /\ sessions' = Revoked({s \in DOMAIN sessions : Family(s) = request[r].family})
        /\ replayed' \subseteq 1..Len(sessions)
    BY <1>2, <2>1 DEF ReplayAnswered, RevokeSessionFamily, FamiliesKnown
  <2>3. /\ request' \in [AuthRequest -> States] /\ request'[r] = Idle
        /\ \A q \in AuthRequest \ {r} : request'[q] = request[q]
    BY <2>2, ProceedsType DEF States
  <2>4. ASSUME NEW q \in AuthRequest
        PROVE  /\ Is(q, "issue")' => request'[q].family <= Len(sessions)
               /\ request'[q] \in RefreshState =>
                    /\ request'[q].session \in DOMAIN sessions
                    /\ request'[q].family = Family(request'[q].session)
    <3>1. Idle \notin RefreshState /\ Idle.pc # "issue"
      BY DEF Idle, RefreshState
    <3> QED
      BY <2>3, <3>1 DEF FamiliesKnown, Is
  <2>5. FamiliesKnown'
    BY <2>2, <2>3, <2>4, RevokedFamilies
  <2> QED
    BY <2>2, <2>3, <2>5, RevokedSessions DEF SesTypeOK, States
<1>3. CASE ExpiryAnswered(r)
  <2>1. /\ Proceeds(r, Idle)
        /\ UNCHANGED <<account, sessions, challenges, sesNow, offSince, replayed>>
    BY <1>3 DEF ExpiryAnswered
  <2>2. FamiliesKnown' /\ request' \in [AuthRequest -> States]
    BY <1>0, <2>1, ProceedsFamilies
  <2> QED
    BY <2>1, <2>2 DEF SesTypeOK, States
<1>4. CASE TokenAccepted(r)
  <2> DEFINE where == [request[r] EXCEPT !.pc = "rotate"]
  <2>1. where \in RefreshState /\ KnowsFamily(where)
    BY <1>4, RefreshKnows DEF TokenAccepted, RefreshState, KnowsFamily, IssueState
  <2>2. /\ Proceeds(r, where)
        /\ UNCHANGED <<account, sessions, challenges, sesNow, offSince, replayed>>
    BY <1>4 DEF TokenAccepted
  <2>3. FamiliesKnown' /\ request' \in [AuthRequest -> States]
    BY <2>1, <2>2, ProceedsFamilies DEF States
  <2> QED
    BY <2>2, <2>3 DEF SesTypeOK, States
<1>5. CASE RevokeSession(r)
  <2> DEFINE where == [request[r] EXCEPT !.pc = "owner"]
  <2>1. where \in RefreshState /\ KnowsFamily(where) /\ where.pc = "owner"
    BY <1>5, RefreshKnows DEF RevokeSession, RefreshState, KnowsFamily, IssueState
  <2>2. /\ Proceeds(r, where) /\ sessions' = Revoked({request[r].session})
        /\ UNCHANGED <<account, challenges, sesNow, offSince, replayed>>
    BY <1>5 DEF RevokeSession
  <2>3. /\ request' \in [AuthRequest -> States] /\ request'[r] = where
        /\ \A q \in AuthRequest \ {r} : request'[q] = request[q]
    BY <2>1, <2>2, ProceedsType DEF States
  <2> HIDE DEF where
  <2>4. ASSUME NEW q \in AuthRequest
        PROVE  /\ Is(q, "issue")' => request'[q].family <= Len(sessions)
               /\ request'[q] \in RefreshState =>
                    /\ request'[q].session \in DOMAIN sessions
                    /\ request'[q].family = Family(request'[q].session)
    BY <2>1, <2>3 DEF FamiliesKnown, Is, KnowsFamily
  <2>5. replayed' \subseteq 1..Len(sessions)
    BY <2>2 DEF FamiliesKnown
  <2>6. FamiliesKnown'
    BY <2>2, <2>3, <2>4, <2>5, RevokedFamilies
  <2> QED
    BY <2>2, <2>3, <2>6, RevokedSessions DEF SesTypeOK, States
<1>6. CASE OwnerLookedUp(r)
  <2> DEFINE u == sessions[request[r].session].user
  <2> DEFINE where == IF OwnerIsActive(u) THEN Issue(u, request[r].family) ELSE Idle
  <2>1. u \in User /\ request[r].family \in 1..Len(sessions)
    BY <1>6, RefreshKnows DEF OwnerLookedUp, SessionRecord
  <2>2. Issue(u, request[r].family) \in IssueState /\ KnowsFamily(Issue(u, request[r].family))
    BY <2>1, SessionsType DEF Issue, IssueState, KnowsFamily, RefreshState
  <2>3. where \in States /\ KnowsFamily(where)
    BY <1>0, <2>2 DEF States
  <2>4. /\ Proceeds(r, where)
        /\ UNCHANGED <<account, sessions, challenges, sesNow, offSince, replayed>>
    BY <1>6 DEF OwnerLookedUp
  <2>5. FamiliesKnown' /\ request' \in [AuthRequest -> States]
    BY <2>3, <2>4, ProceedsFamilies
  <2> QED
    BY <2>4, <2>5 DEF SesTypeOK, States
<1> QED
  BY <1>1, <1>2, <1>3, <1>4, <1>5, <1>6 DEF Refresh

(* The session IssueTokenPair saves. *)
NewSession(r) ==
  [user |-> request[r].user,
   family |-> IF request[r].family = NewFamily THEN Len(sessions) + 1 ELSE request[r].family,
   revoked |-> FALSE, created |-> sesNow]

LEMMA IssueIs ==
  ASSUME SesTypeOK, FamiliesKnown, NEW r \in AuthRequest, IssueTokenPair(r)
  PROVE  /\ sessions' = Append(sessions, NewSession(r)) /\ NewSession(r) \in SessionRecord
         /\ request[r] \in IssueState /\ request[r].family \in 0..Len(sessions)
         /\ request' \in [AuthRequest -> States] /\ request'[r] = Idle
         /\ \A q \in AuthRequest \ {r} : request'[q] = request[q]
         /\ UNCHANGED <<account, challenges, sesNow, offSince, replayed>>
<1>1. request[r] \in IssueState
  BY RequestKinds DEF IssueTokenPair
<1>2. request[r].family \in 0..Len(sessions) /\ request[r].user \in User
  BY <1>1, SessionsType DEF FamiliesKnown, IssueTokenPair, IssueState
<1>3. sessions' = Append(sessions, NewSession(r)) /\ Proceeds(r, Idle)
      /\ UNCHANGED <<account, challenges, sesNow, offSince, replayed>>
  BY DEF IssueTokenPair, NewSession
<1>4. NewSession(r) \in SessionRecord
  BY <1>2, SessionsType DEF NewSession, NewFamily, SessionRecord, SesTypeOK
<1> QED
  BY <1>1, <1>2, <1>3, <1>4, ProceedsType DEF States

LEMMA IssueType ==
  ASSUME SesTypeOK, FamiliesKnown, NEW r \in AuthRequest, IssueTokenPair(r)
  PROVE  SesTypeOK' /\ FamiliesKnown'
<1> DEFINE new == NewSession(r)
<1>1. /\ sessions' = Append(sessions, new) /\ new \in SessionRecord
      /\ new.family \in 1..(Len(sessions) + 1)
  BY IssueIs, SessionsType DEF NewSession, NewFamily
<1>2. /\ Len(sessions') = Len(sessions) + 1
      /\ DOMAIN sessions' = DOMAIN sessions \cup {Len(sessions) + 1}
      /\ \A s \in DOMAIN sessions : sessions'[s] = sessions[s]
      /\ sessions'[Len(sessions) + 1] = new
      /\ sessions' \in Seq(SessionRecord)
  BY <1>1, AppendedSession
<1>3. \A s \in DOMAIN sessions' : sessions'[s].family <= Len(sessions')
  <2>1. \A s \in DOMAIN sessions : sessions[s].family \in Nat /\ sessions[s].family <= Len(sessions)
    BY SessionsType DEF FamiliesKnown, Family, SessionRecord
  <2> HIDE DEF new
  <2> QED
    BY <1>1, <1>2, <2>1, SessionsType
<1>4. replayed' \subseteq 1..Len(sessions')
  <2>1. replayed' = replayed /\ replayed \subseteq 1..Len(sessions) /\ Len(sessions) \in Nat
    BY IssueIs, SessionsType DEF FamiliesKnown
  <2> QED
    BY <1>2, <2>1
<1>5. ASSUME NEW q \in AuthRequest
      PROVE  /\ Is(q, "issue")' => request'[q].family <= Len(sessions')
             /\ request'[q] \in RefreshState =>
                  /\ request'[q].session \in DOMAIN sessions'
                  /\ request'[q].family = sessions'[request'[q].session].family
  <2>1. CASE q = r
    BY <2>1, IssueIs DEF Is, Idle, RefreshState
  <2>2. CASE q # r
    <3>1. request'[q] = request[q] /\ (Is(q, "issue")' <=> Is(q, "issue"))
      BY <2>2, IssueIs DEF Is
    <3>2. Is(q, "issue") => request[q].family \in Nat
      BY RequestKinds DEF IssueState
    <3> QED
      BY <1>2, <3>1, <3>2, SessionsType DEF FamiliesKnown, Family
  <2> QED
    BY <2>1, <2>2
<1>6. FamiliesKnown'
  BY <1>3, <1>4, <1>5 DEF FamiliesKnown, Family
<1> QED
  BY <1>2, <1>6, IssueIs DEF SesTypeOK, States

LEMMA NextSesType ==
  SesTypeOK /\ FamiliesKnown /\ [SesNext]_sesVars => SesTypeOK' /\ FamiliesKnown'
<1> SUFFICES ASSUME SesTypeOK, FamiliesKnown, [SesNext]_sesVars
             PROVE  SesTypeOK' /\ FamiliesKnown'
  OBVIOUS
<1>1. CASE \E r \in AuthRequest : SignIn(r) \/ Refresh(r) \/ IssueTokenPair(r)
  BY <1>1, SignInType, RefreshType, IssueType
<1>2. ASSUME NEW u \in User, DeprovisionUser(u) \/ \E a \in BOOLEAN : ProvisionUser(u, a)
      PROVE  SesTypeOK' /\ FamiliesKnown'
  <2>1. UNCHANGED <<sessions, challenges, request, sesNow, replayed>>
    BY <1>2 DEF DeprovisionUser, ProvisionUser
  <2>2. account' \in [User -> [active : BOOLEAN, totp : BOOLEAN]] /\ offSince' \in [User -> Nat]
    <3>1. CASE DeprovisionUser(u)
      BY <3>1 DEF DeprovisionUser, SesTypeOK
    <3>2. ASSUME NEW a \in BOOLEAN, ProvisionUser(u, a)
          PROVE  /\ account' \in [User -> [active : BOOLEAN, totp : BOOLEAN]]
                 /\ offSince' \in [User -> Nat]
      BY <3>2 DEF ProvisionUser, SaveUser, SesTypeOK
    <3> QED
      BY <1>2, <3>1, <3>2
  <2> QED
    BY <2>1, <2>2 DEF SesTypeOK, FamiliesKnown, Is, Family
<1>3. CASE SesTick
  BY <1>3 DEF SesTick, SesTypeOK, FamiliesKnown, Is, Family
<1>4. CASE UNCHANGED sesVars
  BY <1>4 DEF sesVars, SesTypeOK, FamiliesKnown, Is, Family
<1> QED
  BY <1>1, <1>2, <1>3, <1>4 DEF SesNext

LEMMA InitSesType == SesInit => SesTypeOK /\ FamiliesKnown
<1> SUFFICES ASSUME SesInit PROVE SesTypeOK /\ FamiliesKnown
  OBVIOUS
<1>1. sessions = <<>> /\ DOMAIN sessions = {} /\ replayed = {} /\ sesNow = 0 /\ challenges = {}
  BY DEF SesInit
<1>2. \A r \in AuthRequest : request[r] = Idle
  BY DEF SesInit
<1>3. Idle \notin RefreshState /\ Idle.pc # "issue"
  BY DEF Idle, RefreshState
<1>4. SesTypeOK
  BY <1>1 DEF SesInit, SesTypeOK
<1> QED
  BY <1>1, <1>2, <1>3, <1>4 DEF FamiliesKnown, Is

-----------------------------------------------------------------------------
(* Rotation.  Requests that neither revoke nor save a session keep it, if  *)
(* they take up no family that is busy, become "owner" or "issue" for none *)
(* but their own, and are about to revoke a live session only.             *)
Considerate(r, where) ==
  /\ where.pc \notin {"idle", "mfa"} /\ where.family # 0 =>
       BusyWith(r, where.family) \/ ~Refreshing(where.family)
  /\ where.pc \in {"owner", "issue"} /\ where.family # 0 => r \in Pending(where.family)
  /\ where.pc = "rotate" => where.session \in DOMAIN sessions /\ ~sessions[where.session].revoked

LEMMA ConsiderateStep ==
  ASSUME SesTypeOK, FamiliesKnown, RotationOK, NEW r \in AuthRequest, NEW where \in States,
         Proceeds(r, where), Considerate(r, where), UNCHANGED <<sessions, replayed>>
  PROVE  RotationOK'
<1>1. /\ request'[r] = where /\ \A q \in AuthRequest \ {r} : request'[q] = request[q]
  BY ProceedsType DEF States
<1>2. \A f \in Nat \ {0}, q \in AuthRequest :
        BusyWith(q, f)' => \/ BusyWith(q, f)
                           \/ q = r /\ \A p \in AuthRequest : ~BusyWith(p, f)
  BY <1>1 DEF Considerate, BusyWith, Refreshing
<1>3. \A f \in Nat \ {0} : Pending(f)' \subseteq Pending(f)
  BY <1>1 DEF Considerate, Pending
<1>4. ASSUME NEW f \in Nat \ {0}, NEW p \in AuthRequest, NEW q \in AuthRequest,
             BusyWith(p, f)', BusyWith(q, f)'
      PROVE  p = q
  BY <1>2, <1>4 DEF RotationOK
<1>5. ASSUME NEW q \in AuthRequest, Is(q, "rotate")'
      PROVE  ~sessions[request'[q].session].revoked
  BY <1>1, <1>5 DEF Considerate, RotationOK, Is
<1>6. ASSUME NEW s \in DOMAIN sessions, ~sessions[s].revoked, NEW f, f = sessions[s].family
      PROVE  f \notin replayed /\ Pending(f)' = {}
  <2>1. f \in Nat \ {0}
    BY <1>6, SessionsType DEF SessionRecord
  <2>2. Pending(f)' \subseteq Pending(f)
    BY <1>3, <2>1
  <2> QED
    BY <1>6, <2>2 DEF RotationOK, Family
<1>7. ASSUME NEW f \in replayed PROVE Pending(f)' = {}
  <2>1. f \in Nat \ {0}
    BY SessionsType DEF FamiliesKnown
  <2> QED
    BY <1>3, <2>1 DEF RotationOK
<1> QED
  BY <1>4, <1>5, <1>6, <1>7 DEF RotationOK, Family, Is, Pending

(* The end of a request disturbs nothing. *)
LEMMA IdleIsConsiderate == \A r \in AuthRequest : Idle \in States /\ Considerate(r, Idle)
BY DEF States, Considerate, Idle

(* A replay ends every session of its family; nobody else is busy with it. *)
LEMMA ReplayStep ==
  ASSUME SesTypeOK, FamiliesKnown, RotationOK, NEW r \in AuthRequest, ReplayAnswered(r)
  PROVE  RotationOK'
<1> DEFINE f == request[r].family
<1> DEFINE S == {s \in DOMAIN sessions : Family(s) = f}
<1>1. f \in Nat \ {0} /\ f \in 1..Len(sessions) /\ Is(r, "found") /\ BusyWith(r, f)
  BY RefreshKnows, SessionsType DEF ReplayAnswered, BusyWith, Is
<1>2. /\ request'[r] = Idle /\ \A q \in AuthRequest \ {r} : request'[q] = request[q]
      /\ sessions' = Revoked(S) /\ replayed' = replayed \cup {f}
  BY IdleIsConsiderate, ProceedsType DEF ReplayAnswered, RevokeSessionFamily, States
<1>3. /\ DOMAIN sessions' = DOMAIN sessions
      /\ \A s \in DOMAIN sessions : /\ sessions'[s].family = Family(s)
                                    /\ ~sessions'[s].revoked <=> ~sessions[s].revoked /\ Family(s) # f
  BY <1>2, RevokedSessions, SessionsType DEF Family, SessionRecord
<1> HIDE DEF S, f
<1>4. \A g \in Nat \ {0}, q \in AuthRequest : BusyWith(q, g)' => BusyWith(q, g) /\ q # r
  BY <1>2 DEF BusyWith, Idle
<1>5. \A g \in Nat \ {0}, q \in AuthRequest : q \in Pending(g)' => q \in Pending(g) /\ q # r
  BY <1>2 DEF Pending, Idle
<1>6. \A g \in Nat \ {0}, q \in AuthRequest : q \in Pending(g) => BusyWith(q, g)
  BY DEF Pending, BusyWith
<1>7. \A g \in Nat \ {0}, p, q \in AuthRequest : BusyWith(p, g)' /\ BusyWith(q, g)' => p = q
  BY <1>4 DEF RotationOK
<1>8. ASSUME NEW q \in AuthRequest, Is(q, "rotate")'
      PROVE  ~sessions'[request'[q].session].revoked
  <2>1. q # r /\ request'[q] = request[q] /\ Is(q, "rotate")
    BY <1>2, <1>8 DEF Is, Idle
  <2>2. /\ request[q].session \in DOMAIN sessions /\ ~sessions[request[q].session].revoked
        /\ Family(request[q].session) = request[q].family
    BY <2>1, RefreshKnows DEF RotationOK
  <2>3. BusyWith(q, request[q].family) /\ request[q].family \in Nat \ {0}
    BY <2>1, RefreshKnows, SessionsType DEF BusyWith, Is
  <2>4. request[q].family # f
    BY <1>1, <2>1, <2>3 DEF RotationOK
  <2> QED
    BY <1>3, <2>1, <2>2, <2>4
<1>9. ASSUME NEW s \in DOMAIN sessions, ~sessions'[s].revoked, NEW g, g = Family(s)
      PROVE  g \notin replayed' /\ Pending(g)' = {}
  <2>1. ~sessions[s].revoked /\ g # f /\ g \in Nat \ {0}
    BY <1>3, <1>9, SessionsType DEF Family, SessionRecord
  <2>2. g \notin replayed /\ Pending(g) = {}
    BY <1>9, <2>1 DEF RotationOK
  <2>3. Pending(g)' \subseteq AuthRequest
    BY DEF Pending
  <2> QED
    BY <1>2, <1>5, <2>1, <2>2, <2>3
<1>10. ASSUME NEW g \in replayed' PROVE Pending(g)' = {}
  <2>1. g \in Nat \ {0} /\ Pending(g)' \subseteq AuthRequest
    BY <1>1, <1>2, SessionsType DEF FamiliesKnown, Pending
  <2>2. CASE g = f
    BY <1>1, <1>5, <1>6, <2>1, <2>2 DEF RotationOK
  <2>3. CASE g \in replayed
    BY <1>5, <2>1, <2>3 DEF RotationOK
  <2> QED
    BY <1>2, <2>2, <2>3
<1>11. \A s, t \in DOMAIN sessions :
         Family(s) = Family(t) /\ ~sessions'[s].revoked /\ ~sessions'[t].revoked => s = t
  BY <1>3 DEF RotationOK
<1> QED
  BY <1>3, <1>7, <1>8, <1>9, <1>10, <1>11 DEF RotationOK, Family, Pending

(* The session a request revokes was the live one of its family. *)
LEMMA RevokeStep ==
  ASSUME SesTypeOK, FamiliesKnown, RotationOK, NEW r \in AuthRequest, RevokeSession(r)
  PROVE  RotationOK'
<1> DEFINE f == request[r].family
<1> DEFINE s0 == request[r].session
<1> DEFINE where == [request[r] EXCEPT !.pc = "owner"]
<1>1. /\ f \in Nat \ {0} /\ Is(r, "rotate") /\ BusyWith(r, f)
      /\ s0 \in DOMAIN sessions /\ Family(s0) = f /\ ~sessions[s0].revoked
  BY RefreshKnows, SessionsType DEF RevokeSession, BusyWith, Is, RotationOK
<1>2. where \in RefreshState /\ where.pc = "owner" /\ where.family = f
  BY RefreshKnows DEF RevokeSession, RefreshState
<1>3. /\ request'[r] = where /\ \A q \in AuthRequest \ {r} : request'[q] = request[q]
      /\ sessions' = Revoked({s0}) /\ replayed' = replayed
  BY <1>2, ProceedsType DEF RevokeSession, States
<1>4. /\ DOMAIN sessions' = DOMAIN sessions
      /\ \A s \in DOMAIN sessions : /\ sessions'[s].family = Family(s)
                                    /\ ~sessions'[s].revoked <=> ~sessions[s].revoked /\ s # s0
  BY <1>3, RevokedSessions, SessionsType DEF Family, SessionRecord
<1> HIDE DEF f, s0, where
<1>5. \A g \in Nat \ {0}, q \in AuthRequest : BusyWith(q, g)' => BusyWith(q, g)
  BY <1>1, <1>2, <1>3 DEF BusyWith
<1>6. \A g \in Nat \ {0}, q \in AuthRequest : q \in Pending(g)' => q \in Pending(g) \/ g = f
  BY <1>2, <1>3 DEF Pending
<1>7. \A g \in Nat \ {0}, p, q \in AuthRequest : BusyWith(p, g)' /\ BusyWith(q, g)' => p = q
  BY <1>5 DEF RotationOK
<1>8. ASSUME NEW q \in AuthRequest, Is(q, "rotate")'
      PROVE  ~sessions'[request'[q].session].revoked
  <2>1. q # r /\ request'[q] = request[q] /\ Is(q, "rotate")
    BY <1>2, <1>3, <1>8 DEF Is
  <2>2. /\ request[q].session \in DOMAIN sessions /\ ~sessions[request[q].session].revoked
        /\ Family(request[q].session) = request[q].family
    BY <2>1, RefreshKnows DEF RotationOK
  <2>3. BusyWith(q, request[q].family) /\ request[q].family \in Nat \ {0}
    BY <2>1, RefreshKnows, SessionsType DEF BusyWith, Is
  <2>4. request[q].session # s0
    BY <1>1, <2>1, <2>2, <2>3 DEF RotationOK
  <2> QED
    BY <1>4, <2>1, <2>2, <2>4
<1>9. ASSUME NEW s \in DOMAIN sessions, ~sessions'[s].revoked, NEW g, g = Family(s)
      PROVE  g \notin replayed' /\ Pending(g)' = {}
  <2>1. ~sessions[s].revoked /\ s # s0 /\ g \in Nat \ {0}
    BY <1>4, <1>9, SessionsType DEF Family, SessionRecord
  <2>2. g # f
    BY <1>1, <1>9, <2>1 DEF RotationOK
  <2>3. g \notin replayed /\ Pending(g) = {}
    BY <1>9, <2>1 DEF RotationOK
  <2>4. Pending(g)' \subseteq AuthRequest
    BY DEF Pending
  <2> QED
    BY <1>3, <1>6, <2>1, <2>2, <2>3, <2>4
<1>10. ASSUME NEW g \in replayed' PROVE Pending(g)' = {}
  <2>1. g \in Nat \ {0} /\ Pending(g)' \subseteq AuthRequest
    BY <1>3, SessionsType DEF FamiliesKnown, Pending
  <2>2. g # f /\ Pending(g) = {}
    BY <1>1, <1>3 DEF RotationOK
  <2> QED
    BY <1>6, <2>1, <2>2
<1>11. \A s, t \in DOMAIN sessions :
         Family(s) = Family(t) /\ ~sessions'[s].revoked /\ ~sessions'[t].revoked => s = t
  BY <1>4 DEF RotationOK
<1> QED
  BY <1>4, <1>7, <1>8, <1>9, <1>10, <1>11 DEF RotationOK, Family, Pending

(* A session is saved for a family that has no live one left, or is new. *)
LEMMA IssueStep ==
  ASSUME SesTypeOK, FamiliesKnown, RotationOK, NEW r \in AuthRequest, IssueTokenPair(r)
  PROVE  RotationOK'
<1> DEFINE new == NewSession(r)
<1>0. PICK f, n, g : /\ f = request[r].family /\ n = Len(sessions) + 1
                     /\ g = IF f = 0 THEN n ELSE f
  OBVIOUS
<1>1. /\ f \in 0..Len(sessions) /\ Is(r, "issue") /\ n \in Nat \ {0}
      /\ g \in Nat \ {0} /\ g <= n
  BY <1>0, IssueIs, SessionsType DEF IssueTokenPair
<1>2. /\ request'[r] = Idle /\ \A q \in AuthRequest \ {r} : request'[q] = request[q]
      /\ replayed' = replayed
      /\ sessions' = Append(sessions, new) /\ new \in SessionRecord
  BY IssueIs
<1>3. new.family = g
  BY <1>0 DEF NewSession, NewFamily
<1>4. /\ DOMAIN sessions' = DOMAIN sessions \cup {n} /\ n \notin DOMAIN sessions
      /\ \A s \in DOMAIN sessions : sessions'[s] = sessions[s]
      /\ sessions'[n].family = g
  BY <1>0, <1>2, <1>3, AppendedSession
<1>5. \A s \in DOMAIN sessions : Family(s) \in Nat \ {0} /\ Family(s) <= Len(sessions)
  BY SessionsType DEF FamiliesKnown, Family, SessionRecord
<1>6. \A h \in Nat \ {0}, q \in AuthRequest : BusyWith(q, h)' => BusyWith(q, h) /\ q # r
  BY <1>2 DEF BusyWith, Idle
<1>7. \A h \in Nat \ {0}, q \in AuthRequest : q \in Pending(h)' => q \in Pending(h) /\ q # r
  BY <1>2 DEF Pending, Idle
<1>8. /\ \A s \in DOMAIN sessions : Family(s) = g => sessions[s].revoked
      /\ g \notin replayed /\ Pending(g)' = {}
  <2>0. Pending(g)' \subseteq AuthRequest
    BY DEF Pending
  <2>1. CASE f = 0
    <3>1. \A s \in DOMAIN sessions : Family(s) # g
      BY <1>0, <1>1, <1>5, <2>1, SessionsType
    <3>2. g \notin replayed
      BY <1>0, <1>1, <2>1, SessionsType DEF FamiliesKnown
    <3>3. ASSUME NEW q \in AuthRequest, q \in Pending(g) PROVE FALSE
      <4>1. CASE Is(q, "issue")
        <5>1. request[q].family \in Nat /\ request[q].family <= Len(sessions)
          BY <4>1, RequestKinds DEF FamiliesKnown, IssueState
        <5> QED
          BY <1>0, <1>1, <2>1, <3>3, <5>1, SessionsType DEF Pending
      <4>2. CASE Is(q, "owner")
        BY <1>0, <1>1, <2>1, <3>3, <4>2, RefreshKnows, SessionsType DEF Pending
      <4> QED
        BY <3>3, <4>1, <4>2 DEF Pending, Is
    <3> QED
      BY <1>1, <1>7, <2>0, <3>1, <3>2, <3>3
  <2>2. CASE f # 0
    <3>1. r \in Pending(g) /\ BusyWith(r, g)
      BY <1>0, <1>1, <2>2 DEF Pending, BusyWith, Is
    <3>2. \A q \in AuthRequest : q \in Pending(g) => BusyWith(q, g)
      BY DEF Pending, BusyWith
    <3>3. \A q \in AuthRequest : q \in Pending(g) => q = r
      BY <1>1, <3>1, <3>2 DEF RotationOK
    <3>4. Pending(g)' = {}
      BY <1>1, <1>7, <2>0, <3>3
    <3> QED
      BY <3>1, <3>4 DEF RotationOK
  <2> QED
    BY <2>1, <2>2
<1> HIDE DEF new
<1>9. \A h \in Nat \ {0}, p, q \in AuthRequest : BusyWith(p, h)' /\ BusyWith(q, h)' => p = q
  BY <1>6 DEF RotationOK
<1>10. ASSUME NEW q \in AuthRequest, Is(q, "rotate")'
       PROVE  ~sessions'[request'[q].session].revoked
  <2>1. q # r /\ request'[q] = request[q] /\ Is(q, "rotate")
    BY <1>2, <1>10 DEF Is, Idle
  <2>2. request[q].session \in DOMAIN sessions /\ ~sessions[request[q].session].revoked
    BY <2>1, RefreshKnows DEF RotationOK
  <2> QED
    BY <1>4, <2>1, <2>2
<1>11. ASSUME NEW s \in DOMAIN sessions', ~sessions'[s].revoked, NEW h, h = sessions'[s].family
       PROVE  h \notin replayed' /\ Pending(h)' = {}
  <2>1. CASE s = n
    BY <1>2, <1>4, <1>8, <1>11, <2>1
  <2>2. CASE s \in DOMAIN sessions
    <3>1. h = Family(s) /\ h \in Nat \ {0} /\ ~sessions[s].revoked
      BY <1>4, <1>5, <1>11, <2>2 DEF Family
    <3>2. h \notin replayed /\ Pending(h) = {}
      BY <2>2, <3>1 DEF RotationOK
    <3>3. Pending(h)' \subseteq AuthRequest
      BY DEF Pending
    <3> QED
      BY <1>2, <1>7, <3>1, <3>2, <3>3
  <2> QED
    BY <1>4, <2>1, <2>2
<1>12. ASSUME NEW h \in replayed' PROVE Pending(h)' = {}
  <2>1. h \in Nat \ {0} /\ Pending(h) = {} /\ Pending(h)' \subseteq AuthRequest
    BY <1>2, SessionsType DEF FamiliesKnown, Pending, RotationOK
  <2> QED
    BY <1>7, <2>1
<1>13. ASSUME NEW s \in DOMAIN sessions', NEW t \in DOMAIN sessions',
              sessions'[s].family = sessions'[t].family,
              ~sessions'[s].revoked, ~sessions'[t].revoked
       PROVE  s = t
  <2>1. CASE s \in DOMAIN sessions /\ t \in DOMAIN sessions
    BY <1>4, <1>13, <2>1 DEF RotationOK, Family
  <2>2. CASE s = n /\ t \in DOMAIN sessions
    BY <1>4, <1>8, <1>13, <2>2 DEF Family
  <2>3. CASE t = n /\ s \in DOMAIN sessions
    BY <1>4, <1>8, <1>13, <2>3 DEF Family
  <2> QED
    BY <1>4, <2>1, <2>2, <2>3
<1> QED
  BY <1>9, <1>10, <1>11, <1>12, <1>13 DEF RotationOK, Family, Pending, Is

(* What no request and no session changes keeps the rotation. *)
LEMMA SameRotation ==
  ASSUME RotationOK, UNCHANGED <<sessions, request, replayed>> PROVE RotationOK'
BY DEF RotationOK, BusyWith, Is, Family, Pending

(* No operation breaks the rotation, if families are refreshed one by one. *)
LEMMA NextRotation ==
  ASSUME ~Overlap, SesTypeOK, FamiliesKnown, RotationOK, [SesNext]_sesVars
  PROVE  RotationOK'
<1>1. ASSUME NEW u \in User, NEW r \in AuthRequest
      PROVE  Issue(u, NewFamily) \in States /\ Considerate(r, Issue(u, NewFamily))
  BY DEF Issue, NewFamily, States, IssueState, Considerate
<1>2. ASSUME NEW r \in AuthRequest, NEW u \in User, Login(r, u) PROVE RotationOK'
  BY <1>1, <1>2, SameRotation, ConsiderateStep DEF Login
<1>3. ASSUME NEW r \in AuthRequest, NEW u \in User, OIDCCallback(r, u) PROVE RotationOK'
  BY <1>1, <1>3, ConsiderateStep DEF OIDCCallback
<1>4. ASSUME NEW r \in AuthRequest, NEW c \in challenges, VerifyMFA(r, c) PROVE RotationOK'
  <2>1. [pc |-> "mfa", challenge |-> c] \in States
        /\ Considerate(r, [pc |-> "mfa", challenge |-> c])
    BY DEF SesTypeOK, States, MFAState, Considerate
  <2> QED
    BY <1>4, <2>1, ConsiderateStep DEF VerifyMFA
<1>5. ASSUME NEW r \in AuthRequest, ChallengeMet(r) PROVE RotationOK'
  <2>1. request[r].challenge.user \in User
    BY <1>5, RequestKinds DEF ChallengeMet, MFAState, Challenge
  <2> QED
    BY <1>1, <1>5, <2>1, ConsiderateStep DEF ChallengeMet
<1>6. ASSUME NEW r \in AuthRequest, NEW s \in DOMAIN sessions, RefreshToken(r, s) PROVE RotationOK'
  <2> DEFINE where == [pc |-> "found", session |-> s, family |-> Family(s)]
  <2>1. where \in States
    BY SessionsType DEF Family, SessionRecord, States, RefreshState
  <2>2. Considerate(r, where)
    BY <1>6 DEF RefreshToken, Considerate
  <2> QED
    BY <1>6, <2>1, <2>2, ConsiderateStep DEF RefreshToken
<1>7. ASSUME NEW r \in AuthRequest, ExpiryAnswered(r) PROVE RotationOK'
  BY <1>7, IdleIsConsiderate, ConsiderateStep DEF ExpiryAnswered
<1>8. ASSUME NEW r \in AuthRequest, TokenAccepted(r) PROVE RotationOK'
  <2> DEFINE where == [request[r] EXCEPT !.pc = "rotate"]
  <2>1. /\ where \in RefreshState /\ where.pc = "rotate" /\ where.family = request[r].family
        /\ where.session = request[r].session /\ request[r].session \in DOMAIN sessions
    BY <1>8, RefreshKnows DEF TokenAccepted, RefreshState
  <2>2. BusyWith(r, request[r].family) /\ ~sessions[request[r].session].revoked
    BY <1>8 DEF TokenAccepted, BusyWith, Is
  <2> HIDE DEF where
  <2>3. where \in States /\ Considerate(r, where)
    BY <2>1, <2>2 DEF Considerate, States
  <2> QED
    BY <1>8, <2>3, ConsiderateStep DEF TokenAccepted, where
<1>9. ASSUME NEW r \in AuthRequest, OwnerLookedUp(r) PROVE RotationOK'
  <2> DEFINE u == sessions[request[r].session].user
  <2> DEFINE where == Issue(u, request[r].family)
  <2>1. u \in User /\ request[r].family \in Nat
    BY <1>9, RefreshKnows, SessionsType DEF OwnerLookedUp, SessionRecord
  <2>2. BusyWith(r, request[r].family) /\ r \in Pending(request[r].family)
    BY <1>9 DEF OwnerLookedUp, BusyWith, Pending, Is
  <2>3. where \in States /\ Considerate(r, where)
    BY <2>1, <2>2 DEF Issue, States, IssueState, Considerate
  <2>4. Proceeds(r, where) \/ Proceeds(r, Idle)
    BY <1>9 DEF OwnerLookedUp
  <2> QED
    BY <1>9, <2>3, <2>4, IdleIsConsiderate, ConsiderateStep DEF OwnerLookedUp
<1>10. CASE \E u \in User : DeprovisionUser(u) \/ \E a \in BOOLEAN : ProvisionUser(u, a)
  BY <1>10, SameRotation DEF DeprovisionUser, ProvisionUser
<1>11. CASE SesTick
  BY <1>11, SameRotation DEF SesTick
<1>12. CASE UNCHANGED sesVars
  BY <1>12, SameRotation DEF sesVars
<1> QED
  BY <1>2, <1>3, <1>4, <1>5, <1>6, <1>7, <1>8, <1>9, <1>10, <1>11, <1>12,
     ReplayStep, RevokeStep, IssueStep
  DEF SesNext, SignIn, Refresh

(* At most one element, at most cardinality one. *)
LEMMA OneAtMost ==
  ASSUME NEW S, \A x, y \in S : x = y
  PROVE  Cardinality(S) \in {0, 1} /\ (S = {} <=> Cardinality(S) = 0)
<1>1. CASE S = {}
  BY <1>1, FS_EmptySet
<1>2. CASE S # {}
  <2>1. PICK x \in S : TRUE
    BY <1>2
  <2>2. S = {x}
    BY <2>1
  <2> QED
    BY <2>2, FS_Singleton
<1> QED
  BY <1>1, <1>2

(* A sign-in has one usable refresh token at a time, and a replay ends the *)
(* family for good, as long as the refreshes of one family do not overlap  *)
(* (RefreshToken, RevokeSession, IssueTokenPair, RevokeSessionFamily).     *)
THEOREM OneTokenPerFamily == SesSpec => []OneLiveTokenPerFamily
<1>1. SesInit => SessionsInv
  <2> SUFFICES ASSUME SesInit PROVE SessionsInv
    OBVIOUS
  <2>1. DOMAIN sessions = {} /\ replayed = {} /\ \A r \in AuthRequest : request[r] = Idle
    BY DEF SesInit
  <2>2. RotationOK
    BY <2>1 DEF RotationOK, BusyWith, Is, Idle
  <2> QED
    BY <2>2, InitSesType DEF SessionsInv
<1>2. SessionsInv /\ [SesNext]_sesVars => SessionsInv'
  BY NextSesType, NextRotation DEF SessionsInv
<1>3. SessionsInv => OneLiveTokenPerFamily
  <2> SUFFICES ASSUME SessionsInv, ~Overlap, NEW s \in DOMAIN sessions, NEW f, f = Family(s)
               PROVE  Cardinality(Live(f)) + Cardinality(Pending(f))
                        <= IF f \in replayed THEN 0 ELSE 1
    BY DEF OneLiveTokenPerFamily
  <2>1. f \in Nat \ {0}
    BY SessionsType DEF SessionsInv, Family, SessionRecord
  <2>2. \A x, y \in Live(f) : x = y
    BY DEF SessionsInv, RotationOK, Live
  <2>3. \A x, y \in Pending(f) : x = y
    <3>1. \A x \in Pending(f) : x \in AuthRequest /\ BusyWith(x, f)
      BY DEF Pending, BusyWith
    <3> QED
      BY <2>1, <3>1 DEF SessionsInv, RotationOK
  <2>4. Live(f) = {} \/ (Pending(f) = {} /\ f \notin replayed)
    BY DEF SessionsInv, RotationOK, Live
  <2>5. f \in replayed => Live(f) = {} /\ Pending(f) = {}
    BY <2>4 DEF SessionsInv, RotationOK
  <2>6. /\ Cardinality(Live(f)) \in {0, 1} /\ (Live(f) = {} <=> Cardinality(Live(f)) = 0)
        /\ Cardinality(Pending(f)) \in {0, 1} /\ (Pending(f) = {} <=> Cardinality(Pending(f)) = 0)
    BY <2>2, <2>3, OneAtMost
  <2> QED
    BY <2>4, <2>5, <2>6
<1>4. QED
  BY <1>1, <1>2, <1>3, PTL DEF SesSpec

-----------------------------------------------------------------------------
(* Session s is an earlier one, or saved now for a user who may have it.   *)
MayExist(s) ==
  \/ /\ s \in DOMAIN sessions
     /\ sessions'[s].user = sessions[s].user /\ sessions'[s].created = sessions[s].created
  \/ /\ sessions'[s].created = sesNow
     /\ account'[sessions'[s].user].active
          \/ sesNow <= offSince'[sessions'[s].user] + ChallengeTTL

(* Account u is active, was switched off now, or stays off since it was.   *)
OffAsItWas(u) ==
  /\ offSince'[u] <= sesNow
  /\ \/ account'[u].active
     \/ offSince'[u] = sesNow
     \/ ~account[u].active /\ offSince'[u] = offSince[u]

(* Within a tick: new challenges, requests and sessions are entitled to be *)
(* there, and no account gets its last chance later than now.              *)
LEMMA DepartureStep ==
  ASSUME SesTypeOK, SesTypeOK', DepartureOK, sesNow' = sesNow,
         \A u \in User : OffAsItWas(u),
         \A c \in challenges' : c \in challenges \/ Opened(c)',
         \A r \in AuthRequest : request'[r] = request[r] \/ Entitled(r)',
         \A s \in DOMAIN sessions' : MayExist(s)
  PROVE  DepartureOK'
<1>0. /\ ChallengeTTL \in Nat /\ sesNow \in Nat /\ offSince \in [User -> Nat]
      /\ offSince' \in [User -> Nat]
  BY SessionAssumption DEF SesTypeOK
<1>1. ASSUME NEW c \in Challenge, Opened(c) PROVE Opened(c)'
  <2>1. c.user \in User /\ c.expires \in Nat
    BY DEF Challenge
  <2>2. OffAsItWas(c.user)
    BY <2>1
  <2> QED
    BY <1>0, <1>1, <2>1, <2>2 DEF Opened, OffAsItWas, LastChance
<1>2. ASSUME NEW c \in challenges' PROVE Opened(c)'
  BY <1>1 DEF SesTypeOK, DepartureOK
<1>3. ASSUME NEW r \in AuthRequest PROVE Entitled(r)'
  <2>1. CASE request'[r] = request[r]
    <3>1. Entitled(r)
      BY DEF DepartureOK
    <3>2. CASE Is(r, "mfa")
      <4>1. PICK c \in Challenge : c = request[r].challenge
        BY <3>2, RequestKinds DEF MFAState
      <4>2. Opened(c)' /\ sesNow <= c.expires
        BY <1>1, <3>1, <3>2, <4>1 DEF Entitled
      <4>3. c = request'[r].challenge /\ ~Is(r, "issue")'
        BY <2>1, <3>2, <4>1 DEF Is
      <4> QED
        BY <4>2, <4>3 DEF Entitled, Opened, LastChance
    <3>3. CASE Is(r, "issue")
      <4>1. request[r].user \in User
        BY <3>3, RequestKinds DEF IssueState
      <4>2. OffAsItWas(request[r].user)
        BY <4>1
      <4> QED
        BY <1>0, <2>1, <3>1, <3>3, <4>1, <4>2 DEF Entitled, Is, OffAsItWas, LastChance
    <3> QED
      BY <2>1, <3>2, <3>3 DEF Entitled, Is
  <2> QED
    BY <2>1
<1>4. ASSUME NEW s \in DOMAIN sessions'
      PROVE  /\ sessions'[s].created <= sesNow
             /\ ~account'[sessions'[s].user].active =>
                  sessions'[s].created <= offSince'[sessions'[s].user] + ChallengeTTL
  <2>1. sessions'[s] \in SessionRecord
    BY DEF SesTypeOK
  <2>2. PICK u \in User : u = sessions'[s].user /\ OffAsItWas(u)
    BY <2>1 DEF SessionRecord
  <2>3. sessions'[s].created \in Nat
    BY <2>1 DEF SessionRecord
  <2>4. CASE sessions'[s].created = sesNow
                /\ (account'[u].active \/ sesNow <= offSince'[u] + ChallengeTTL)
    BY <1>0, <2>2, <2>4
  <2>5. CASE /\ s \in DOMAIN sessions /\ u = sessions[s].user
             /\ sessions'[s].created = sessions[s].created
    <3>1. /\ sessions[s].created <= sesNow
          /\ ~account[u].active => sessions[s].created <= offSince[u] + ChallengeTTL
      BY <2>5 DEF DepartureOK, DeprovisionedGetNoSessions
    <3> QED
      BY <1>0, <2>2, <2>3, <2>5, <3>1 DEF OffAsItWas
  <2> QED
    BY <2>2, <2>4, <2>5 DEF MayExist
<1>5. \A u \in User : offSince'[u] <= sesNow'
  BY DEF OffAsItWas
<1> QED
  BY <1>2, <1>3, <1>4, <1>5 DEF DepartureOK, DeprovisionedGetNoSessions

(* A request that moves on alone.                                          *)
LEMMA RequestDeparts ==
  ASSUME SesTypeOK, SesTypeOK', DepartureOK, NEW r \in AuthRequest, NEW where,
         Proceeds(r, where), challenges' \subseteq challenges,
         UNCHANGED <<account, sesNow, offSince>>,
         \A s \in DOMAIN sessions' : MayExist(s), Entitled(r)'
  PROVE  DepartureOK'
<1>1. \A u \in User : OffAsItWas(u)
  BY DEF OffAsItWas, DepartureOK, SesTypeOK
<1>2. \A q \in AuthRequest : request'[q] = request[q] \/ q = r
  BY DEF Proceeds, SesTypeOK
<1> QED
  BY <1>1, <1>2, DepartureStep

LEMMA SignInDeparts ==
  ASSUME SesTypeOK, SesTypeOK', DepartureOK, NEW r \in AuthRequest, SignIn(r)
  PROVE  DepartureOK'
<1>0. /\ \A s \in DOMAIN sessions : sessions' = sessions => MayExist(s)
      /\ ChallengeTTL \in Nat /\ sesNow \in Nat
  BY SessionAssumption DEF MayExist, SesTypeOK
<1>1. ASSUME NEW u \in User, Login(r, u) PROVE DepartureOK'
  <2>1. /\ account[u].active /\ UNCHANGED <<account, sessions, sesNow, offSince>>
        /\ \A v \in User : OffAsItWas(v)
    BY <1>1 DEF Login, OffAsItWas, DepartureOK, SesTypeOK
  <2>2. ASSUME NEW c \in challenges', c \notin challenges PROVE Opened(c)'
    <3>1. c = [user |-> u, expires |-> sesNow + ChallengeTTL]
      BY <1>1, <2>2 DEF Login
    <3> QED
      BY <1>0, <2>1, <3>1 DEF Opened
  <2>3. ASSUME NEW q \in AuthRequest, request'[q] # request[q] PROVE Entitled(q)'
    <3>1. request'[q] = Issue(u, NewFamily)
      BY <1>1, <2>3 DEF Login, Proceeds, SesTypeOK
    <3> QED
      BY <2>1, <3>1 DEF Entitled, Is, Issue
  <2> QED
    BY <1>0, <2>1, <2>2, <2>3, DepartureStep
<1>2. ASSUME NEW u \in User, OIDCCallback(r, u) PROVE DepartureOK'
  <2>1. /\ UNCHANGED <<sessions, challenges, sesNow>> /\ SaveUser(u, TRUE)
        /\ Proceeds(r, Issue(u, NewFamily)) /\ sesNow \in Nat
    BY <1>2 DEF OIDCCallback, SesTypeOK
  <2>2. account'[u].active
    BY <2>1 DEF SaveUser, SesTypeOK
  <2>3. \A v \in User : OffAsItWas(v)
    BY <2>1 DEF OffAsItWas, DepartureOK, SaveUser, SesTypeOK
  <2>4. ASSUME NEW q \in AuthRequest, request'[q] # request[q] PROVE Entitled(q)'
    <3>1. request'[q] = Issue(u, NewFamily)
      BY <2>1, <2>4 DEF Proceeds, SesTypeOK
    <3> QED
      BY <2>2, <3>1 DEF Entitled, Is, Issue
  <2> QED
    BY <1>0, <2>1, <2>3, <2>4, DepartureStep
<1>3. ASSUME NEW c \in challenges, VerifyMFA(r, c) PROVE DepartureOK'
  <2>1. /\ Proceeds(r, [pc |-> "mfa", challenge |-> c]) /\ sesNow <= c.expires
        /\ UNCHANGED <<account, sessions, challenges, sesNow, offSince>>
    BY <1>3 DEF VerifyMFA
  <2>2. Opened(c)
    BY DEF DepartureOK
  <2>3. request'[r] = [pc |-> "mfa", challenge |-> c]
    BY <2>1 DEF Proceeds, SesTypeOK
  <2>4. Entitled(r)'
    BY <2>1, <2>2, <2>3 DEF Entitled, Opened, LastChance, Is
  <2> QED
    BY <1>0, <2>1, <2>4, RequestDeparts
<1>4. CASE ChallengeMet(r)
  <2>1. PICK c \in Challenge : c = request[r].challenge
    BY <1>4, RequestKinds DEF ChallengeMet, MFAState
  <2>2. sesNow <= c.expires /\ Opened(c) /\ c.user \in User /\ c.expires \in Nat
    BY <1>4, <2>1 DEF ChallengeMet, DepartureOK, Entitled, Challenge
  <2>3. /\ Proceeds(r, Issue(c.user, NewFamily)) /\ challenges' \subseteq challenges
        /\ UNCHANGED <<account, sessions, sesNow, offSince>>
    BY <1>4, <2>1 DEF ChallengeMet
  <2>4. request'[r] = Issue(c.user, NewFamily)
    BY <2>3 DEF Proceeds, SesTypeOK
  <2>5. offSince[c.user] \in Nat
    BY <2>2 DEF SesTypeOK
  <2>6. Entitled(r)'
    BY <1>0, <2>2, <2>3, <2>4, <2>5 DEF Entitled, Opened, LastChance, Is, Issue
  <2> QED
    BY <1>0, <2>3, <2>6, RequestDeparts
<1> QED
  BY <1>1, <1>2, <1>3, <1>4 DEF SignIn

LEMMA RefreshDeparts ==
  ASSUME SesTypeOK, SesTypeOK', FamiliesKnown, DepartureOK, NEW r \in AuthRequest, Refresh(r)
  PROVE  DepartureOK'
<1>0. ASSUME NEW where, Proceeds(r, where), UNCHANGED <<account, challenges, sesNow, offSince>>,
             \A s \in DOMAIN sessions' : MayExist(s),
             where.pc \notin {"mfa", "issue"}
      PROVE  DepartureOK'
  <2>1. request'[r] = where
    BY <1>0 DEF Proceeds, SesTypeOK
  <2>2. Entitled(r)'
    BY <1>0, <2>1 DEF Entitled, Is
  <2> QED
    BY <1>0, <2>2, RequestDeparts
<1>1. sessions' = sessions => \A s \in DOMAIN sessions' : MayExist(s)
  BY DEF MayExist
<1>2. ASSUME NEW S, sessions' = Revoked(S) PROVE \A s \in DOMAIN sessions' : MayExist(s)
  BY <1>2, RevokedSessions DEF MayExist
<1>3. ASSUME NEW s \in DOMAIN sessions, RefreshToken(r, s) PROVE DepartureOK'
  BY <1>0, <1>1, <1>3 DEF RefreshToken
<1>4. CASE ReplayAnswered(r)
  BY <1>0, <1>2, <1>4 DEF ReplayAnswered, RevokeSessionFamily, Idle
<1>5. CASE ExpiryAnswered(r)
  BY <1>0, <1>1, <1>5 DEF ExpiryAnswered, Idle
<1>6. CASE TokenAccepted(r)
  <2>1. [request[r] EXCEPT !.pc = "rotate"].pc = "rotate"
    BY <1>6, RefreshKnows DEF TokenAccepted, RefreshState
  <2> QED
    BY <1>0, <1>1, <1>6, <2>1 DEF TokenAccepted
<1>7. CASE RevokeSession(r)
  <2>1. [request[r] EXCEPT !.pc = "owner"].pc = "owner"
    BY <1>7, RefreshKnows DEF RevokeSession, RefreshState
  <2> QED
    BY <1>0, <1>2, <1>7, <2>1 DEF RevokeSession
<1>8. CASE OwnerLookedUp(r)
  <2>1. PICK u, f : u = sessions[request[r].session].user /\ f = request[r].family
    OBVIOUS
  <2>2. CASE account[u].active
    <3>1. /\ Proceeds(r, Issue(u, f))
          /\ UNCHANGED <<account, sessions, challenges, sesNow, offSince>>
      BY <1>8, <2>1, <2>2 DEF OwnerLookedUp, OwnerIsActive
    <3>2. request'[r] = Issue(u, f)
      BY <3>1 DEF Proceeds, SesTypeOK
    <3>3. Entitled(r)'
      BY <2>2, <3>1, <3>2 DEF Entitled, Is, Issue
    <3> QED
      BY <1>1, <3>1, <3>3, RequestDeparts
  <2>3. CASE ~account[u].active
    BY <1>0, <1>1, <1>8, <2>1, <2>3 DEF OwnerLookedUp, OwnerIsActive, Idle
  <2> QED
    BY <2>2, <2>3
<1> QED
  BY <1>3, <1>4, <1>5, <1>6, <1>7, <1>8 DEF Refresh

LEMMA IssueDeparts ==
  ASSUME SesTypeOK, SesTypeOK', FamiliesKnown, DepartureOK, NEW r \in AuthRequest,
         IssueTokenPair(r)
  PROVE  DepartureOK'
<1>1. PICK new \in SessionRecord : /\ sessions' = Append(sessions, new)
                                   /\ new.user = request[r].user /\ new.created = sesNow
  BY IssueIs DEF NewSession
<1>2. /\ Proceeds(r, Idle) /\ UNCHANGED <<account, challenges, sesNow, offSince>>
      /\ request[r] \in IssueState /\ Is(r, "issue")
  BY IssueIs DEF IssueTokenPair
<1>3. new.user \in User
  BY DEF SessionRecord
<1>4. account[new.user].active \/ sesNow <= offSince[new.user] + ChallengeTTL
  BY <1>1, <1>2 DEF DepartureOK, Entitled, LastChance
<1>5. \A s \in DOMAIN sessions' : MayExist(s)
  BY <1>1, <1>2, <1>4, AppendedSession DEF MayExist
<1>6. Entitled(r)'
  BY <1>2 DEF Entitled, Is, Idle, Proceeds, SesTypeOK
<1> QED
  BY <1>2, <1>5, <1>6, RequestDeparts

(* An account that is switched off now has its last chance from now on.    *)
LEMMA AccountDeparts ==
  ASSUME SesTypeOK, SesTypeOK', DepartureOK, NEW u \in User,
         DeprovisionUser(u) \/ \E a \in BOOLEAN : ProvisionUser(u, a)
  PROVE  DepartureOK'
<1>1. UNCHANGED <<sessions, challenges, request, sesNow>> /\ sesNow \in Nat
  BY DEF DeprovisionUser, ProvisionUser, SesTypeOK
<1>2. ASSUME NEW v \in User PROVE OffAsItWas(v)
  <2>1. offSince[v] <= sesNow /\ offSince[v] \in Nat /\ account[v].active \in BOOLEAN
    BY DEF DepartureOK, SesTypeOK
  <2>2. CASE DeprovisionUser(u)
    BY <1>1, <2>1, <2>2 DEF DeprovisionUser, OffAsItWas, SesTypeOK
  <2>3. ASSUME NEW a \in BOOLEAN, ProvisionUser(u, a) PROVE OffAsItWas(v)
    <3>1. CASE v # u
      BY <1>1, <2>1, <2>3, <3>1 DEF ProvisionUser, SaveUser, OffAsItWas, SesTypeOK
    <3>2. CASE v = u
      <4>1. account'[u].active = a
        BY <2>3 DEF ProvisionUser, SaveUser, SesTypeOK
      <4>2. offSince'[u] = IF a THEN 0 ELSE IF account[u].active THEN sesNow ELSE offSince[u]
        BY <2>3 DEF ProvisionUser, SaveUser, SesTypeOK
      <4> QED
        BY <1>1, <2>1, <3>2, <4>1, <4>2 DEF OffAsItWas
    <3> QED
      BY <3>1, <3>2
  <2> QED
    BY <2>2, <2>3
<1> QED
  BY <1>1, <1>2, DepartureStep DEF MayExist

(* Time passes only when no request is under way.                          *)
LEMMA TickDeparts ==
  ASSUME SesTypeOK, DepartureOK, SesTick
  PROVE  DepartureOK'
<1>1. /\ sesNow' = sesNow + 1 /\ sesNow \in Nat /\ ChallengeTTL \in Nat
      /\ UNCHANGED <<account, sessions, challenges, request, offSince>>
  BY SessionAssumption DEF SesTick, SesTypeOK
<1>2. \A u \in User : offSince'[u] <= sesNow'
  BY <1>1 DEF DepartureOK, SesTypeOK
<1>3. ASSUME NEW c \in challenges' PROVE Opened(c)'
  <2>1. Opened(c) /\ c.expires \in Nat
    BY <1>1 DEF DepartureOK, SesTypeOK, Challenge
  <2> QED
    BY <1>1, <2>1 DEF Opened, LastChance
<1>4. \A r \in AuthRequest : Entitled(r)'
  BY <1>1 DEF Entitled, SesTick, Is
<1>5. ASSUME NEW s \in DOMAIN sessions' PROVE sessions'[s].created <= sesNow'
  BY <1>1, SessionsType DEF DepartureOK, SessionRecord
<1>6. DeprovisionedGetNoSessions'
  BY <1>1 DEF DepartureOK, DeprovisionedGetNoSessions
<1> QED
  BY <1>2, <1>3, <1>4, <1>5, <1>6 DEF DepartureOK

(* A deprovisioned account gets its last session from a challenge that was *)
(* open when it was switched off: whatever requests were under way then,   *)
(* and whatever its tokens, no refresh and no password sign-in gives it    *)
(* one (DeprovisionUser, OwnerLookedUp, Login, ChallengeMet).              *)
THEOREM LastSessionIsBounded == SesSpec => []DeprovisionedGetNoSessions
<1> DEFINE Inv == SesTypeOK /\ FamiliesKnown /\ DepartureOK
<1>1. SesInit => Inv
  <2> SUFFICES ASSUME SesInit PROVE Inv
    OBVIOUS
  <2>1. /\ DOMAIN sessions = {} /\ challenges = {} /\ sesNow = 0
        /\ \A r \in AuthRequest : request[r] = Idle
        /\ \A u \in User : offSince[u] = 0
    BY DEF SesInit
  <2>2. DepartureOK
    BY <2>1 DEF DepartureOK, Entitled, Is, Idle, DeprovisionedGetNoSessions
  <2> QED
    BY <2>2, InitSesType
<1>2. Inv /\ [SesNext]_sesVars => Inv'
  <2> SUFFICES ASSUME Inv, [SesNext]_sesVars PROVE Inv'
    OBVIOUS
  <2>1. SesTypeOK' /\ FamiliesKnown'
    BY NextSesType
  <2>2. CASE \E r \in AuthRequest : SignIn(r) \/ Refresh(r) \/ IssueTokenPair(r)
    BY <2>1, <2>2, SignInDeparts, RefreshDeparts, IssueDeparts
  <2>3. CASE \E u \in User : DeprovisionUser(u) \/ \E a \in BOOLEAN : ProvisionUser(u, a)
    BY <2>1, <2>3, AccountDeparts
  <2>4. CASE SesTick
    BY <2>1, <2>4, TickDeparts
  <2>5. CASE UNCHANGED sesVars
    BY <2>1, <2>5 DEF sesVars, DepartureOK, Opened, Entitled, LastChance, Is,
                      DeprovisionedGetNoSessions
  <2> QED
    BY <2>1, <2>2, <2>3, <2>4, <2>5 DEF SesNext
<1>3. Inv => DeprovisionedGetNoSessions
  BY DEF DepartureOK
<1>4. QED
  BY <1>1, <1>2, <1>3, PTL DEF SesSpec

-----------------------------------------------------------------------------
(* Vault *)

RotatingState == [pc : {"rotating"}, server : Server, ref : Ref, base : Nat]
AuditedState  == [pc : {"audited"}, server : Server, ref : Ref, written : {TRUE}]
VaStates      == {Ready} \cup RotatingState \cup AuditedState

(* An operation that waits to fetch a secret has had its audit entry       *)
(* written: that is in the type of AuditedState.                           *)
VaTypeOK ==
  /\ version \in [Ref -> Nat]
  /\ operation \in [Operation -> VaStates]
  /\ rotations \in [Ref -> Seq(Nat)]
  /\ deleted \subseteq Ref

(* What a rotation replaced is older than what the backend holds, and the  *)
(* versions of a credential count up from 0 only once: what was deleted    *)
(* has no rotation to remember.                                            *)
ReplacedIsOlder(c) ==
  /\ c \in deleted => rotations[c] = <<>>
  /\ \A i \in DOMAIN rotations[c] : rotations[c][i] < version[c]

VaInv == VaTypeOK /\ \A c \in Ref : ReplacedIsOlder(c) /\ IsInjective(rotations[c])

-----------------------------------------------------------------------------
LEMMA OperationKinds ==
  ASSUME VaTypeOK, NEW o \in Operation
  PROVE  /\ Stands(o, "rotating") => operation[o] \in RotatingState
         /\ Stands(o, "audited") => operation[o] \in AuditedState
<1>1. operation[o] \in VaStates
  BY DEF VaTypeOK
<1>2. operation[o] = Ready => ~Stands(o, "rotating") /\ ~Stands(o, "audited")
  BY DEF Stands, Ready
<1>3. operation[o] \in RotatingState => ~Stands(o, "audited")
  BY DEF Stands, RotatingState
<1>4. operation[o] \in AuditedState => ~Stands(o, "rotating")
  BY DEF Stands, AuditedState
<1> QED
  BY <1>1, <1>2, <1>3, <1>4 DEF VaStates

LEMMA BecomesType ==
  ASSUME VaTypeOK, NEW o \in Operation, NEW where \in VaStates, Becomes(o, where)
  PROVE  operation' \in [Operation -> VaStates]
BY DEF VaTypeOK, Becomes

(* A longer record of versions that all differ.                            *)
LEMMA AppendNewer ==
  ASSUME NEW seq \in Seq(Nat), NEW base \in Nat, IsInjective(seq),
         \A i \in DOMAIN seq : seq[i] < base
  PROVE  /\ Append(seq, base) \in Seq(Nat)
         /\ IsInjective(Append(seq, base))
         /\ \A i \in DOMAIN Append(seq, base) : Append(seq, base)[i] < base + 1
<1> DEFINE n == Len(seq) + 1
<1>1. /\ Append(seq, base) \in Seq(Nat) /\ DOMAIN Append(seq, base) = DOMAIN seq \cup {n}
      /\ Append(seq, base)[n] = base /\ n \notin DOMAIN seq
      /\ \A i \in DOMAIN seq : Append(seq, base)[i] = seq[i] /\ seq[i] \in Nat
  OBVIOUS
<1>2. ASSUME NEW i \in DOMAIN Append(seq, base) PROVE Append(seq, base)[i] < base + 1
  BY <1>1
<1>3. ASSUME NEW i \in DOMAIN Append(seq, base), NEW j \in DOMAIN Append(seq, base),
             Append(seq, base)[i] = Append(seq, base)[j]
      PROVE  i = j
  BY <1>1, <1>3 DEF IsInjective
<1> QED
  BY <1>1, <1>2, <1>3 DEF IsInjective

(* One more version of credential c, whose rotation may be acknowledged.   *)
NewVersion(c) ==
  /\ version' = [version EXCEPT ![c] = @ + 1]
  /\ deleted' = deleted
  /\ \/ rotations' = rotations
     \/ rotations' = [rotations EXCEPT ![c] = Append(@, version[c])] /\ c \notin deleted

LEMMA NewVersionInv ==
  ASSUME VaInv, NEW c \in Ref, NewVersion(c), operation' \in [Operation -> VaStates]
  PROVE  VaInv'
<1>1. /\ version \in [Ref -> Nat] /\ rotations \in [Ref -> Seq(Nat)] /\ deleted \subseteq Ref
      /\ ReplacedIsOlder(c) /\ IsInjective(rotations[c])
      /\ version[c] \in Nat /\ rotations[c] \in Seq(Nat)
  BY DEF VaInv, VaTypeOK
<1>2. /\ version'[c] = version[c] + 1 /\ version' \in [Ref -> Nat] /\ deleted' = deleted
      /\ \A d \in Ref : d # c => version'[d] = version[d]
  BY <1>1 DEF NewVersion
<1>3. CASE rotations' = rotations
  <2>1. \A i \in DOMAIN rotations[c] : rotations[c][i] \in Nat /\ rotations[c][i] < version'[c]
    BY <1>1, <1>2 DEF ReplacedIsOlder
  <2>2. ASSUME NEW d \in Ref PROVE ReplacedIsOlder(d)' /\ IsInjective(rotations'[d])
    BY <1>2, <1>3, <2>1 DEF VaInv, ReplacedIsOlder
  <2> QED
    BY <1>1, <1>2, <1>3, <2>2 DEF VaInv, VaTypeOK, IsInjective
<1>4. CASE rotations' = [rotations EXCEPT ![c] = Append(@, version[c])] /\ c \notin deleted
  <2>1. /\ Append(rotations[c], version[c]) \in Seq(Nat)
        /\ IsInjective(Append(rotations[c], version[c]))
        /\ \A i \in DOMAIN Append(rotations[c], version[c]) :
             Append(rotations[c], version[c])[i] < version[c] + 1
    BY <1>1, AppendNewer DEF ReplacedIsOlder
  <2>2. /\ rotations'[c] = Append(rotations[c], version[c]) /\ rotations' \in [Ref -> Seq(Nat)]
        /\ \A d \in Ref : d # c => rotations'[d] = rotations[d]
    BY <1>1, <1>4, <2>1
  <2>3. ASSUME NEW d \in Ref PROVE ReplacedIsOlder(d)' /\ IsInjective(rotations'[d])
    <3>1. CASE d = c
      BY <1>2, <1>4, <2>1, <2>2, <3>1 DEF ReplacedIsOlder
    <3>2. CASE d # c
      BY <1>2, <2>2, <3>2 DEF VaInv, ReplacedIsOlder
    <3> QED
      BY <3>1, <3>2
  <2> QED
    BY <1>1, <1>2, <2>2, <2>3 DEF VaInv, VaTypeOK, IsInjective
<1> QED
  BY <1>3, <1>4 DEF NewVersion

LEMMA SameRecords ==
  ASSUME VaInv, UNCHANGED <<version, deleted, rotations>>, operation' \in [Operation -> VaStates]
  PROVE  VaInv'
BY DEF VaInv, VaTypeOK, ReplacedIsOlder, IsInjective

LEMMA VaNextInv == VaInv /\ [VaNext]_vaVars => VaInv'
<1> SUFFICES ASSUME VaInv, [VaNext]_vaVars PROVE VaInv'
  OBVIOUS
<1>0. VaTypeOK /\ Ready \in VaStates
  BY DEF VaInv, VaStates
<1>1. ASSUME NEW o \in Operation, NEW s \in Server, NEW c \in Ref, RotateReads(o, s, c)
      PROVE  VaInv'
  <2>1. PICK base \in {version[c], 0} :
               Becomes(o, [pc |-> "rotating", server |-> s, ref |-> c, base |-> base])
    BY <1>1 DEF RotateReads
  <2>2. [pc |-> "rotating", server |-> s, ref |-> c, base |-> base] \in VaStates
    BY <1>0 DEF VaTypeOK, VaStates, RotatingState
  <2> QED
    BY <1>0, <1>1, <2>1, <2>2, BecomesType, SameRecords DEF RotateReads
<1>2. ASSUME NEW o \in Operation, RotateWrites(o) PROVE VaInv'
  <2>1. PICK c \in Ref, base \in Nat : c = operation[o].ref /\ base = operation[o].base
    BY <1>0, <1>2, OperationKinds DEF RotateWrites, RotatingState
  <2>2. operation' \in [Operation -> VaStates] /\ deleted' = deleted
    BY <1>0, <1>2, BecomesType DEF RotateWrites
  <2>3. CASE CASAccepts(c, base)
    BY <1>2, <2>1, <2>2, <2>3, NewVersionInv
    DEF RotateWrites, Acknowledged, NewVersion, CASAccepts
  <2>4. CASE ~CASAccepts(c, base)
    BY <1>2, <2>1, <2>2, <2>4, SameRecords DEF RotateWrites
  <2> QED
    BY <2>3, <2>4
<1>3. ASSUME NEW o \in Operation, RotateFails(o) PROVE VaInv'
  BY <1>0, <1>3, BecomesType, SameRecords DEF RotateFails
<1>4. ASSUME NEW o \in Operation, NEW s \in Server, NEW c \in Ref, ResolveAudits(o, s, c)
      PROVE  VaInv'
  <2>1. PICK written \in BOOLEAN : AuditDecides(o, s, c, written)
    BY <1>4 DEF ResolveAudits
  <2>2. [pc |-> "audited", server |-> s, ref |-> c, written |-> TRUE] \in VaStates
    BY DEF VaStates, AuditedState
  <2>3. operation' \in [Operation -> VaStates]
    BY <1>0, <2>1, <2>2, BecomesType DEF AuditDecides
  <2> QED
    BY <1>4, <2>3, SameRecords DEF ResolveAudits
<1>5. ASSUME NEW o \in Operation, ResolveFetches(o) PROVE VaInv'
  BY <1>0, <1>5, BecomesType, SameRecords DEF ResolveFetches
<1>6. ASSUME NEW c \in Ref, CreateVaultCredential(c) PROVE VaInv'
  <2>1. /\ version[c] = 0 /\ UNCHANGED <<operation, deleted, rotations>>
        /\ version' = [version EXCEPT ![c] = 1] \/ version' = version
    BY <1>6 DEF CreateVaultCredential, StoreSecret
  <2>2. version' = version \/ NewVersion(c)
    BY <1>0, <2>1 DEF NewVersion, VaTypeOK
  <2> QED
    BY <1>0, <2>1, <2>2, SameRecords, NewVersionInv DEF VaTypeOK
<1>7. ASSUME NEW c \in Ref, RotateEnvelope(c) PROVE VaInv'
  <2>1. NewVersion(c) /\ operation' = operation
    BY <1>7 DEF RotateEnvelope, Acknowledged, NewVersion
  <2> QED
    BY <1>0, <2>1, NewVersionInv DEF VaTypeOK
<1>8. ASSUME NEW c \in Ref, DeleteCredential(c) PROVE VaInv'
  <2>1. /\ version' = [version EXCEPT ![c] = 0] /\ deleted' = deleted \cup {c}
        /\ rotations' = [rotations EXCEPT ![c] = <<>>] /\ operation' = operation
    BY <1>8 DEF DeleteCredential, DeleteSecret
  <2>2. VaTypeOK' /\ rotations'[c] = <<>>
    BY <1>0, <2>1 DEF VaTypeOK
  <2>3. ASSUME NEW d \in Ref PROVE ReplacedIsOlder(d)' /\ IsInjective(rotations'[d])
    <3>1. CASE d = c
      BY <2>1, <2>2, <3>1 DEF ReplacedIsOlder, IsInjective
    <3>2. CASE d # c
      BY <1>0, <2>1, <3>2 DEF VaInv, VaTypeOK, ReplacedIsOlder
    <3> QED
      BY <3>1, <3>2
  <2> QED
    BY <2>2, <2>3 DEF VaInv, IsInjective
<1>9. CASE UNCHANGED vaVars
  BY <1>0, <1>9, SameRecords DEF vaVars, VaTypeOK
<1> QED
  BY <1>1, <1>2, <1>3, <1>4, <1>5, <1>6, <1>7, <1>8, <1>9 DEF VaNext, Rotate, Resolve

LEMMA VaInitInv == VaInit => VaInv
BY DEF VaInit, VaInv, VaTypeOK, VaStates, ReplacedIsOlder, IsInjective

(* Of the acknowledged rotations of a credential no two replaced the same  *)
(* version, on whatever servers they ran and whatever answers were lost    *)
(* (RotateSecret's check-and-set, hashicorp.go).                           *)
THEOREM RotationsAreKept == VaSpec => []NoRotationIsLost
<1>1. VaInv => NoRotationIsLost
  BY DEF VaInv, NoRotationIsLost
<1>2. QED
  BY <1>1, VaInitInv, VaNextInv, PTL DEF VaSpec

(* A secret is handed out only to a resolution whose audit entry was       *)
(* written, whatever runs between the two steps                            *)
(* (ResolveCredentialForGateway, service.go).                              *)
THEOREM SecretsAreAudited == VaSpec => []NoSecretWithoutAudit
<1>1. VaInit => NoSecretWithoutAudit
  BY DEF VaInit, NoSecretWithoutAudit
<1>2. VaInv /\ NoSecretWithoutAudit /\ [VaNext]_vaVars => NoSecretWithoutAudit'
  <2> SUFFICES ASSUME VaInv, NoSecretWithoutAudit, [VaNext]_vaVars PROVE NoSecretWithoutAudit'
    OBVIOUS
  <2>1. ASSUME NEW o \in Operation, ResolveFetches(o) PROVE unaudited' = unaudited
    <3>1. operation[o] \in AuditedState
      BY <2>1, OperationKinds DEF VaInv, ResolveFetches
    <3> QED
      BY <2>1, <3>1 DEF ResolveFetches, AuditedState
  <2>2. unaudited' = unaudited
    BY <2>1 DEF VaNext, Rotate, Resolve, RotateReads, RotateWrites, RotateFails, ResolveAudits,
                CreateVaultCredential, RotateEnvelope, DeleteCredential, vaVars
  <2> QED
    BY <2>2 DEF NoSecretWithoutAudit
<1>3. QED
  BY <1>1, <1>2, VaInitInv, VaNextInv, PTL DEF VaSpec

-----------------------------------------------------------------------------
(* SubnetRateLimiter *)

(* The clients at a label are finitely many. *)
LEMMA AtType == \A l : IsFiniteSet(At(l)) /\ Cardinality(At(l)) \in Nat
<1>1. \A l : At(l) \subseteq Client
  BY DEF At
<1> QED
  BY <1>1, LimiterAssumption, FS_Subset, FS_CardinalityType

(* A client that moves is one fewer where it was and one more where it     *)
(* comes to, and changes the number nowhere else.                          *)
LEMMA Moved ==
  ASSUME TypeOK, NEW c \in Client, NEW from, NEW to, from # to, Goto(c, from, to)
  PROVE  /\ Cardinality(At(from)') = Cardinality(At(from)) - 1
         /\ Cardinality(At(from)) > 0
         /\ Cardinality(At(to)') = Cardinality(At(to)) + 1
         /\ \A l : l # from /\ l # to => At(l)' = At(l)
<1>1. \A d \in Client : pc'[d] = IF d = c THEN to ELSE pc[d]
  BY DEF Goto, TypeOK
<1>2. pc[c] = from
  BY DEF Goto
<1>3. At(from)' = At(from) \ {c} /\ c \in At(from)
  BY <1>1, <1>2 DEF At
<1>4. At(to)' = At(to) \cup {c} /\ c \notin At(to)
  BY <1>1, <1>2 DEF At
<1>5. \A l : l # from /\ l # to => At(l)' = At(l)
  BY <1>1, <1>2 DEF At
<1>6. Cardinality(At(from)') = Cardinality(At(from)) - 1
  BY <1>3, AtType, FS_RemoveElement
<1>7. Cardinality(At(from)) # 0
  BY <1>3, AtType, FS_EmptySet
<1>8. Cardinality(At(to)') = Cardinality(At(to)) + 1
  BY <1>4, AtType, FS_AddElement
<1> QED
  BY <1>5, <1>6, <1>7, <1>8, AtType

(* The four steps of a session, each of which moves one client and changes *)
(* the channel or the counter with it.                                     *)
LEMMA NextAccounted ==
  TypeOK /\ TokensAccounted /\ [Next]_vars => TypeOK' /\ TokensAccounted'
<1> SUFFICES ASSUME TypeOK, TokensAccounted, [Next]_vars PROVE TypeOK' /\ TokensAccounted'
  OBVIOUS
<1> USE AtType
<1>1. ASSUME NEW c \in Client, SendToken(c) PROVE TypeOK' /\ TokensAccounted'
  <2>1. /\ Cardinality(At("entered")') = Cardinality(At("entered")) + 1
        /\ At("probing")' = At("probing") /\ At("released")' = At("released")
    BY <1>1, Moved DEF SendToken
  <2>2. TypeOK'
    BY <1>1, LimiterAssumption DEF SendToken, Goto, TypeOK
  <2>3. TokensAccounted'
    BY <1>1, <2>1 DEF SendToken, TokensAccounted
  <2> QED
    BY <2>2, <2>3
<1>2. ASSUME NEW c \in Client, CountUp(c) PROVE TypeOK' /\ TokensAccounted'
  <2>1. /\ Cardinality(At("entered")') = Cardinality(At("entered")) - 1
        /\ Cardinality(At("probing")') = Cardinality(At("probing")) + 1
        /\ At("released")' = At("released")
    BY <1>2, Moved DEF CountUp
  <2>2. TypeOK'
    BY <1>2 DEF CountUp, Goto, TypeOK, Larger
  <2>3. TokensAccounted'
    BY <1>2, <2>1 DEF CountUp, TokensAccounted
  <2> QED
    BY <2>2, <2>3
<1>3. ASSUME NEW c \in Client, TakeToken(c) PROVE TypeOK' /\ TokensAccounted'
  <2>1. c \in At("probing")
    BY <1>3 DEF TakeToken, Goto, At
  <2>2. Cardinality(At("probing")) # 0
    BY <2>1, FS_EmptySet
  <2>3. sem > 0
    BY <2>2 DEF TokensAccounted
  <2>4. Goto(c, "probing", "released") /\ sem' = sem - 1
    BY <1>3, <2>3 DEF TakeToken
  <2>5. /\ Cardinality(At("probing")') = Cardinality(At("probing")) - 1
        /\ Cardinality(At("released")') = Cardinality(At("released")) + 1
        /\ At("entered")' = At("entered")
    BY <2>4, Moved
  <2>6. TypeOK'
    BY <1>3, <2>3, <2>4, LimiterAssumption DEF TakeToken, Goto, TypeOK
  <2>7. TokensAccounted'
    BY <1>3, <2>4, <2>5 DEF TakeToken, TokensAccounted
  <2> QED
    BY <2>6, <2>7
<1>4. ASSUME NEW c \in Client, CountDown(c) PROVE TypeOK' /\ TokensAccounted'
  <2>1. /\ Cardinality(At("released")') = Cardinality(At("released")) - 1
        /\ Cardinality(At("released")) > 0
        /\ At("entered")' = At("entered") /\ At("probing")' = At("probing")
    BY <1>4, Moved DEF CountDown
  <2>2. activeCount' = activeCount - 1
    BY <1>4, <2>1 DEF CountDown, TokensAccounted
  <2>3. TypeOK'
    BY <1>4, <2>1, <2>2 DEF CountDown, Goto, TypeOK, TokensAccounted
  <2>4. TokensAccounted'
    BY <1>4, <2>1, <2>2 DEF CountDown, TokensAccounted
  <2> QED
    BY <2>3, <2>4
<1>5. CASE UNCHANGED vars
  BY <1>5 DEF vars, TypeOK, TokensAccounted, At
<1> QED
  BY <1>1, <1>2, <1>3, <1>4, <1>5 DEF Next

(* The channel's tokens are the sessions that entered and have not given   *)
(* theirs back, and activeCount those that were counted up and not down.   *)
(* The guards of Release are needed by no interleaving.                    *)
THEOREM SessionsAccounted == Spec => [](TypeOK /\ TokensAccounted)
<1>1. Init => TypeOK /\ TokensAccounted
  <2> SUFFICES ASSUME Init PROVE TypeOK /\ TokensAccounted
    OBVIOUS
  <2>1. At("entered") = {} /\ At("probing") = {} /\ At("released") = {}
    BY DEF Init, At
  <2>2. TypeOK
    BY LimiterAssumption DEF Init, TypeOK
  <2>3. TokensAccounted
    BY <2>1, FS_EmptySet DEF Init, TokensAccounted
  <2> QED
    BY <2>2, <2>3
<1> QED
  BY <1>1, NextAccounted, PTL DEF Spec

(* A gateway never runs more probes under the limiter than its capacity.   *)
THEOREM LimitIsKept == Spec => []ProbesAreLimited
<1>1. TypeOK /\ TokensAccounted => ProbesAreLimited
  BY AtType, LimiterAssumption DEF TypeOK, TokensAccounted, ProbesAreLimited
<1> QED
  BY <1>1, SessionsAccounted, PTL

-----------------------------------------------------------------------------
(* RateLimiter *)

(* The products the steps of the limiter form, without multiplications. *)
LEMMA Products ==
  /\ Capacity \in Nat /\ Unit <= Capacity
  /\ \A i \in Nat : i * Fill \in Nat
  /\ \A i \in Nat : (i + 1) * Fill = i * Fill + Fill
  /\ \A i \in Nat : i > IdleLimit => i * Fill >= Capacity
<1>1. Capacity \in Nat /\ Unit <= Capacity
  BY LimiterConfig DEF Capacity
<1>2. \A i \in Nat : i * Fill \in Nat /\ (i + 1) * Fill = i * Fill + Fill
  BY LimiterConfig
<1>3. ASSUME NEW i \in Nat, i > IdleLimit PROVE i * Fill >= Capacity
  <2>1. PICK d \in Nat : i = IdleLimit + d
    <3>1. i - IdleLimit \in Nat /\ i = IdleLimit + (i - IdleLimit)
      BY <1>3, LimiterConfig
    <3> QED
      BY <3>1
  <2>2. i * Fill = IdleLimit * Fill + d * Fill
    BY <2>1, LimiterConfig
  <2> QED
    BY <1>1, <1>2, <2>2, LimiterConfig
<1> QED
  BY <1>1, <1>2, <1>3

-----------------------------------------------------------------------------
(* An entry's refill, and what a tick of silence adds to it. *)
Entry == [tokens : 0..Capacity, idle : 0..MaxIdle]

Aged(e) == [e EXCEPT !.idle = Lesser(@ + 1, MaxIdle)]

LEMMA RefillIsTimely ==
  ASSUME NEW e \in Entry
  PROVE  /\ Refilled(e) \in 0..Capacity
         /\ e.idle = 0 => Refilled(e) = e.tokens
         /\ e.idle > IdleLimit => Refilled(e) = Capacity
         /\ Aged(e) \in Entry
         /\ Refilled(Aged(e)) = Lesser(Refilled(e) + Fill, Capacity)
<1>1. /\ e.tokens \in Nat /\ e.tokens <= Capacity
      /\ e.idle \in Nat /\ e.idle <= MaxIdle
  BY Products, LimiterConfig DEF Entry
<1>2. PICK g \in Nat : g = e.idle * Fill
  BY <1>1, Products
<1>3. Refilled(e) = Lesser(e.tokens + g, Capacity)
  BY <1>2 DEF Refilled
<1>4. e.idle = 0 => g = 0
  BY <1>2, LimiterConfig
<1>5. e.idle > IdleLimit => g >= Capacity
  BY <1>1, <1>2, Products
<1>6. /\ Aged(e) = [tokens |-> e.tokens, idle |-> Lesser(e.idle + 1, MaxIdle)]
      /\ Lesser(e.idle + 1, MaxIdle) \in 0..MaxIdle
  BY <1>1, LimiterConfig DEF Aged, Entry, Lesser
<1>7. Aged(e) \in Entry
  BY <1>6 DEF Entry
<1>8. Refilled(Aged(e)) = Lesser(Refilled(e) + Fill, Capacity)
  <2>1. CASE e.idle = MaxIdle
    <3>1. Lesser(e.idle + 1, MaxIdle) = e.idle
      BY <1>1, <2>1, LimiterConfig DEF Lesser
    <3>2. Refilled(Aged(e)) = Lesser(e.tokens + g, Capacity)
      BY <1>2, <1>6, <3>1 DEF Refilled
    <3> QED
      BY <1>1, <1>3, <1>5, <2>1, <3>2, Products, LimiterConfig DEF Lesser
  <2>2. CASE e.idle # MaxIdle
    <3>1. Lesser(e.idle + 1, MaxIdle) = e.idle + 1
      BY <1>1, <2>2, LimiterConfig DEF Lesser
    <3>2. (e.idle + 1) * Fill = g + Fill
      BY <1>1, <1>2, Products
    <3>3. Refilled(Aged(e)) = Lesser(e.tokens + (g + Fill), Capacity)
      BY <1>6, <3>1, <3>2 DEF Refilled
    <3> QED
      BY <1>1, <1>3, <3>3, Products, LimiterConfig DEF Lesser
  <2> QED
    BY <2>1, <2>2
<1> QED
  BY <1>1, <1>3, <1>4, <1>5, <1>7, <1>8, Products DEF Lesser

(* What the retry times say of the buckets: a client that has waited for   *)
(* what it was told will find a token.                                     *)
WaitsSuffice ==
  \A k \in Key : retryIn[k] # NoRetry => Level(k) + retryIn[k] * Fill >= Unit

(* The abstract bucket's steps. *)
Asked(k) ==
  /\ answer' = [key |-> k, allowed |-> Level(k) >= Unit]
  /\ \A c \in Key : Level(c)' = IF c # k THEN Level(c)
                                ELSE IF Level(c) >= Unit THEN Level(c) - Unit
                                ELSE Level(c)

Ticked ==
  /\ answer' = answer
  /\ \A c \in Key : Level(c)' = Lesser(Level(c) + Fill, Capacity)

LEMMA LevelRange == ASSUME RLTypeOK, NEW k \in Key PROVE Level(k) \in 0..Capacity
  BY RefillIsTimely, Products DEF RLTypeOK, Level, Entry

(* Writing one entry changes one level. *)
LEMMA EntryWritten ==
  ASSUME RLTypeOK, NEW k \in Key, NEW n \in 0..Capacity, SetEntry(k, n)
  PROVE  /\ Known' \subseteq Key
         /\ \A c \in Known' : entries'[c] \in Entry
         /\ \A c \in Key : Level(c)' = IF c = k THEN n ELSE Level(c)
<1>1. Known' = Known \cup {k}
  BY DEF SetEntry, Known
<1>2. PICK z : z = [tokens |-> n, idle |-> 0]
  OBVIOUS
<1>3. z \in Entry /\ z.tokens = n /\ z.idle = 0
  BY <1>2, LimiterConfig DEF Entry
<1>4. /\ entries'[k] = z
      /\ \A c \in Known : c # k => entries'[c] = entries[c]
  BY <1>2 DEF SetEntry, Known
<1>5. Refilled(z) = n
  BY <1>3, RefillIsTimely
<1>6. Level(k)' = n
  BY <1>1, <1>4, <1>5 DEF Level
<1>7. ASSUME NEW c \in Key, c # k PROVE Level(c)' = Level(c)
  BY <1>1, <1>4, <1>7 DEF Level
<1> QED
  BY <1>1, <1>3, <1>4, <1>6, <1>7 DEF RLTypeOK, Entry

-----------------------------------------------------------------------------
LEMMA InitLimiter == RLInit => RLTypeOK /\ WaitsSuffice /\ Bucket!Init
<1> SUFFICES ASSUME RLInit PROVE RLTypeOK /\ WaitsSuffice /\ Bucket!Init
  OBVIOUS
<1>1. Known = {}
  BY DEF RLInit, Known
<1>2. \A k \in Key : Level(k) = Capacity
  BY <1>1 DEF Level
<1>3. RLTypeOK
  BY <1>1 DEF RLInit, RLTypeOK, NoRetry
<1>4. WaitsSuffice
  BY DEF RLInit, WaitsSuffice
<1>5. Bucket!Init
  BY <1>2 DEF RLInit, Bucket!Init, Bucket!Request
<1> QED
  BY <1>3, <1>4, <1>5

LEMMA RetryIsATime == ASSUME NEW m \in Nat PROVE RetryAfter(m) \in Nat
<1>1. PICK p \in Nat : p = Fill * Second /\ p > 0
  BY LimiterConfig
<1>2. PICK q \in Nat : q = m \div p
  BY <1>1
<1>3. RetryAfter(m) = (IF q < 1 THEN 1 ELSE q) * Second
  BY <1>1, <1>2 DEF RetryAfter
<1> QED
  BY <1>3, LimiterConfig

(* What Retry-After tells is enough if a second brings a token, as 60      *)
(* requests a minute do: the wait is then always one second.               *)
LEMMA RetryIsLongEnough ==
  ASSUME Unit <= Fill * Second, NEW n \in Nat, n < Unit
  PROVE  n + RetryAfter(Unit - n) * Fill >= Unit
<1>1. PICK p \in Nat : p = Fill * Second /\ p > 0
  BY LimiterConfig
<1>2. PICK m \in Nat : m = Unit - n /\ m > 0 /\ m <= p
  BY <1>1, LimiterConfig
<1>3. PICK q \in Nat : q = m \div p /\ q <= 1
  <2>1. m \div p \in Nat /\ m \div p <= 1
    BY <1>1, <1>2
  <2> QED
    BY <2>1
<1>4. RetryAfter(m) = (IF q < 1 THEN 1 ELSE q) * Second
  BY <1>1, <1>3 DEF RetryAfter
<1>5. RetryAfter(m) = Second
  BY <1>3, <1>4, LimiterConfig
<1>6. RetryAfter(Unit - n) = Second
  BY <1>2, <1>5
<1>7. RetryAfter(Unit - n) * Fill = p
  BY <1>1, <1>6, LimiterConfig
<1> QED
  BY <1>1, <1>2, <1>6, <1>7, LimiterConfig

-----------------------------------------------------------------------------
(* A request, by a client without an entry or with one, asks the abstract  *)
(* bucket; a clean-up changes no level, and time fills them all.           *)
LEMMA NewAsks ==
  ASSUME RLTypeOK, NEW k \in Key, AllowNew(k) PROVE RLTypeOK' /\ Asked(k)
<1>1. Capacity - Unit \in 0..Capacity
  BY Products, LimiterConfig
<1>2. /\ Known' \subseteq Key
      /\ \A c \in Known' : entries'[c] \in Entry
      /\ \A c \in Key : Level(c)' = IF c = k THEN Capacity - Unit ELSE Level(c)
  BY <1>1, EntryWritten DEF AllowNew
<1>3. Level(k) = Capacity /\ Capacity >= Unit
  BY Products DEF AllowNew, Level
<1>4. answer' = [key |-> k, allowed |-> Level(k) >= Unit]
  BY <1>3 DEF AllowNew
<1>5. retryIn' \in [Key -> Nat \cup {NoRetry}]
  BY DEF AllowNew, RLTypeOK
<1>6. answer' \in [key : Key, allowed : BOOLEAN]
  BY DEF AllowNew
<1> QED
  BY <1>2, <1>3, <1>4, <1>5, <1>6 DEF RLTypeOK, Entry, Asked

LEMMA KnownAsks ==
  ASSUME RLTypeOK, NEW k \in Key, AllowKnown(k) PROVE RLTypeOK' /\ Asked(k)
<1>1. PICK n \in 0..Capacity : n = Refilled(entries[k])
  BY RefillIsTimely DEF RLTypeOK, Entry, AllowKnown
<1>2. Level(k) = n
  BY <1>1 DEF AllowKnown, Level
<1>3. CASE n >= Unit
  <2>1. n - Unit \in 0..Capacity
    BY <1>3, Products, LimiterConfig
  <2>2. /\ SetEntry(k, n - Unit)
        /\ answer' = [key |-> k, allowed |-> TRUE]
        /\ retryIn' = [retryIn EXCEPT ![k] = NoRetry]
    BY <1>1, <1>3 DEF AllowKnown
  <2>3. /\ Known' \subseteq Key
        /\ \A c \in Known' : entries'[c] \in Entry
        /\ \A c \in Key : Level(c)' = IF c = k THEN n - Unit ELSE Level(c)
    BY <2>1, <2>2, EntryWritten
  <2>4. retryIn' \in [Key -> Nat \cup {NoRetry}]
    BY <2>2 DEF RLTypeOK
  <2>5. answer' \in [key : Key, allowed : BOOLEAN]
    BY <2>2
  <2>6. answer' = [key |-> k, allowed |-> Level(k) >= Unit]
    BY <1>2, <1>3, <2>2
  <2> QED
    BY <1>2, <1>3, <2>3, <2>4, <2>5, <2>6 DEF RLTypeOK, Entry, Asked
<1>4. CASE ~(n >= Unit)
  <2>1. /\ SetEntry(k, n)
        /\ answer' = [key |-> k, allowed |-> FALSE]
        /\ retryIn' = [retryIn EXCEPT ![k] = RetryAfter(Unit - n)]
    BY <1>1, <1>4 DEF AllowKnown
  <2>2. /\ Known' \subseteq Key
        /\ \A c \in Known' : entries'[c] \in Entry
        /\ \A c \in Key : Level(c)' = IF c = k THEN n ELSE Level(c)
    BY <2>1, EntryWritten
  <2>3. Unit - n \in Nat
    BY <1>4, Products, LimiterConfig
  <2>4. retryIn' \in [Key -> Nat \cup {NoRetry}]
    BY <2>1, <2>3, RetryIsATime DEF RLTypeOK
  <2>5. answer' \in [key : Key, allowed : BOOLEAN]
    BY <2>1
  <2>6. answer' = [key |-> k, allowed |-> Level(k) >= Unit]
    <3>1. (Level(k) >= Unit) = FALSE
      BY <1>2, <1>4
    <3> QED
      BY <2>1, <3>1
  <2> QED
    BY <1>2, <1>4, <2>2, <2>4, <2>5, <2>6 DEF RLTypeOK, Entry, Asked
<1> QED
  BY <1>3, <1>4

LEMMA CleanupIsUnseen ==
  ASSUME RLTypeOK, Cleanup
  PROVE  RLTypeOK' /\ answer' = answer /\ \A c \in Key : Level(c)' = Level(c)
<1>1. /\ Known' = {c \in Known : ~Silent(c)}
      /\ \A c \in Known' : entries'[c] = entries[c]
  BY DEF Cleanup, Known
<1>2. RLTypeOK'
  BY <1>1 DEF Cleanup, RLTypeOK
<1>3. ASSUME NEW c \in Known, Silent(c) PROVE Refilled(entries[c]) = Capacity
  BY <1>3, RefillIsTimely DEF RLTypeOK, Entry, Silent
<1>4. ASSUME NEW c \in Key PROVE Level(c)' = Level(c)
  <2>1. CASE c \in Known /\ Silent(c)
    <3>1. c \notin Known'
      BY <1>1, <2>1
    <3> QED
      BY <1>3, <2>1, <3>1 DEF Level
  <2>2. CASE ~(c \in Known /\ Silent(c))
    BY <1>1, <2>2 DEF Level
  <2> QED
    BY <2>1, <2>2
<1> QED
  BY <1>2, <1>4 DEF Cleanup

LEMMA TimeFills ==
  ASSUME RLTypeOK, RLTick PROVE RLTypeOK' /\ Ticked
<1>1. Known' = Known /\ \A c \in Known : entries'[c] = Aged(entries[c])
  BY DEF RLTick, Known, Aged
<1>2. \A c \in Known : /\ entries'[c] \in Entry
                       /\ Refilled(entries'[c])
                            = Lesser(Refilled(entries[c]) + Fill, Capacity)
  BY <1>1, RefillIsTimely DEF RLTypeOK, Entry
<1>3. retryIn' \in [Key -> Nat \cup {NoRetry}]
  BY DEF RLTick, RLTypeOK, NoRetry
<1>4. Capacity = Lesser(Capacity + Fill, Capacity)
  BY Products, LimiterConfig DEF Lesser
<1>5. ASSUME NEW c \in Key PROVE Level(c)' = Lesser(Level(c) + Fill, Capacity)
  BY <1>1, <1>2, <1>4 DEF Level
<1> QED
  BY <1>1, <1>2, <1>3, <1>5 DEF RLTick, RLTypeOK, Entry, Ticked

-----------------------------------------------------------------------------
(* Every step of the limiter is a step of the abstract bucket, or none.    *)
LEMMA NextImplements ==
  RLTypeOK /\ [RLNext]_rlVars => RLTypeOK' /\ [Bucket!Next]_(Bucket!vars)
<1> SUFFICES ASSUME RLTypeOK, [RLNext]_rlVars
             PROVE  RLTypeOK' /\ [Bucket!Next]_(Bucket!vars)
  OBVIOUS
<1>1. ASSUME NEW k \in Key, Asked(k) PROVE Bucket!Ask(k)
  BY <1>1 DEF Asked, Bucket!Ask
<1>2. ASSUME NEW k \in Key, AllowNew(k) PROVE RLTypeOK' /\ Bucket!Next
  BY <1>1, <1>2, NewAsks DEF Bucket!Next
<1>3. ASSUME NEW k \in Key, AllowKnown(k) PROVE RLTypeOK' /\ Bucket!Next
  BY <1>1, <1>3, KnownAsks DEF Bucket!Next
<1>4. ASSUME Cleanup PROVE RLTypeOK' /\ UNCHANGED Bucket!vars
  BY <1>4, CleanupIsUnseen DEF Bucket!vars
<1>5. ASSUME RLTick PROVE RLTypeOK' /\ Bucket!Next
  <2>1. RLTypeOK' /\ Ticked
    BY <1>5, TimeFills
  <2>2. Bucket!Tick
    BY <2>1 DEF Ticked, Bucket!Tick, Bucket!AtMost, Lesser
  <2> QED
    BY <2>1, <2>2 DEF Bucket!Next
<1>6. ASSUME UNCHANGED rlVars PROVE RLTypeOK' /\ UNCHANGED Bucket!vars
  <2>1. \A c \in Key : Level(c)' = Level(c)
    BY <1>6 DEF rlVars, Level, Known
  <2> QED
    BY <1>6, <2>1 DEF rlVars, RLTypeOK, Known, Bucket!vars
<1> QED
  BY <1>2, <1>3, <1>4, <1>5, <1>6 DEF RLNext

(* The limiter of middleware/ratelimit.go, with its lazy refills, its      *)
(* entries that come and go and its one answer per request, is to each     *)
(* client a bucket that is always there and fills all the time.            *)
THEOREM LimiterIsATokenBucket == RLSpec => [](RLTypeOK) /\ ImplementsTokenBucket
<1>1. RLInit => RLTypeOK /\ Bucket!Init
  BY InitLimiter
<1> QED
  BY <1>1, NextImplements, PTL DEF RLSpec, ImplementsTokenBucket, Bucket!Spec

-----------------------------------------------------------------------------
LEMMA NextWaits ==
  ASSUME Unit <= Fill * Second, RLTypeOK, WaitsSuffice, [RLNext]_rlVars
  PROVE  WaitsSuffice'
<1>1. ASSUME NEW k \in Key, AllowNew(k) \/ AllowKnown(k), NEW c \in Key, c # k
      PROVE  Level(c)' = Level(c) /\ retryIn'[c] = retryIn[c]
  <2>1. Asked(k)
    BY <1>1, NewAsks, KnownAsks
  <2> QED
    BY <1>1, <2>1 DEF Asked, AllowNew, AllowKnown, RLTypeOK
<1>2. ASSUME NEW k \in Key, AllowNew(k) \/ AllowKnown(k), retryIn'[k] # NoRetry
      PROVE  Level(k)' + retryIn'[k] * Fill >= Unit
  <2>1. AllowKnown(k) /\ Asked(k)
    BY <1>2, NewAsks, KnownAsks DEF AllowNew, RLTypeOK
  <2>2. PICK n \in 0..Capacity : n = Refilled(entries[k])
    BY <2>1, RefillIsTimely DEF RLTypeOK, Entry, AllowKnown
  <2>3. Level(k) = n
    BY <2>1, <2>2 DEF AllowKnown, Level
  <2>4. n < Unit /\ retryIn'[k] = RetryAfter(Unit - n)
    BY <1>2, <2>1, <2>2, LimiterConfig, Products DEF AllowKnown, RLTypeOK
  <2>5. Level(k)' = n
    BY <2>1, <2>3, <2>4, LimiterConfig, Products DEF Asked
  <2>6. n \in Nat
    BY <2>2, Products
  <2> QED
    BY <2>4, <2>5, <2>6, RetryIsLongEnough
<1>3. ASSUME Cleanup PROVE WaitsSuffice'
  BY <1>3, CleanupIsUnseen DEF Cleanup, WaitsSuffice
<1>4. ASSUME RLTick, NEW c \in Key, retryIn'[c] # NoRetry
      PROVE  Level(c)' + retryIn'[c] * Fill >= Unit
  <2>1. PICK n \in Nat : n = Level(c)
    BY LevelRange, Products
  <2>2. Level(c)' = Lesser(n + Fill, Capacity)
    BY <1>4, <2>1, TimeFills DEF Ticked
  <2>3. PICK r \in Nat : r = retryIn[c]
    <3>1. retryIn[c] \in Nat \cup {NoRetry}
      BY DEF RLTypeOK
    <3>2. retryIn'[c] = IF retryIn[c] > 0 THEN retryIn[c] - 1 ELSE retryIn[c]
      BY <1>4 DEF RLTick
    <3>3. retryIn[c] \in Nat
      BY <1>4, <3>1, <3>2 DEF NoRetry
    <3> QED
      BY <3>3
  <2>4. retryIn'[c] = IF r > 0 THEN r - 1 ELSE r
    BY <1>4, <2>3 DEF RLTick
  <2>5. n + r * Fill >= Unit
    BY <2>1, <2>3 DEF WaitsSuffice, NoRetry
  <2>6. CASE r = 0
    <3>1. r * Fill = 0 /\ retryIn'[c] * Fill = 0
      BY <2>4, <2>6, LimiterConfig
    <3> QED
      BY <2>2, <2>5, <3>1, Products, LimiterConfig DEF Lesser
  <2>7. CASE r > 0
    <3>1. PICK q \in Nat : q = r - 1
      BY <2>7
    <3>2. r = q + 1 /\ retryIn'[c] = q
      BY <2>3, <2>4, <2>7, <3>1
    <3>3. PICK g \in Nat : g = q * Fill
      BY Products
    <3>4. r * Fill = g + Fill /\ retryIn'[c] * Fill = g
      BY <3>2, <3>3, Products
    <3> QED
      BY <2>2, <2>5, <3>4, Products, LimiterConfig DEF Lesser
  <2> QED
    BY <2>3, <2>6, <2>7
<1>5. ASSUME UNCHANGED rlVars PROVE WaitsSuffice'
  BY <1>5 DEF rlVars, WaitsSuffice, Level, Known
<1>6. ASSUME NEW k \in Key, AllowNew(k) \/ AllowKnown(k) PROVE WaitsSuffice'
  <2>1. ASSUME NEW c \in Key, retryIn'[c] # NoRetry
        PROVE  Level(c)' + retryIn'[c] * Fill >= Unit
    BY <1>1, <1>2, <1>6, <2>1 DEF WaitsSuffice
  <2> QED
    BY <2>1 DEF WaitsSuffice, NoRetry
<1>7. RLTick => WaitsSuffice'
  BY <1>4 DEF WaitsSuffice, NoRetry
<1> QED
  BY <1>3, <1>5, <1>6, <1>7 DEF RLNext

(* A client that waits for what Retry-After tells it is admitted then, if  *)
(* a second brings a token: with the 60 requests a minute of main.go it    *)
(* does.  With fewer, the value that is cut to whole seconds falls short.  *)
THEOREM RetryAfterIsKept ==
  ASSUME Unit <= Fill * Second PROVE RLSpec => []RetryAfterSuffices
<1>1. RLInit => RLTypeOK /\ WaitsSuffice
  BY InitLimiter
<1>2. RLTypeOK /\ WaitsSuffice /\ [RLNext]_rlVars => RLTypeOK' /\ WaitsSuffice'
  BY NextImplements, NextWaits
<1>3. RLTypeOK /\ WaitsSuffice => RetryAfterSuffices
  <2> SUFFICES ASSUME RLTypeOK, WaitsSuffice, NEW k \in Key, retryIn[k] = 0
               PROVE  Level(k) >= Unit
    BY DEF RetryAfterSuffices
  <2>1. retryIn[k] * Fill = 0
    BY LimiterConfig
  <2>2. Level(k) + retryIn[k] * Fill >= Unit
    BY DEF WaitsSuffice, NoRetry
  <2> QED
    BY <2>1, <2>2, LevelRange, Products, LimiterConfig
<1> QED
  BY <1>1, <1>2, <1>3, PTL DEF RLSpec
=============================================================================
