------------------------------- MODULE Accounts -------------------------------
(***************************************************************************)
(* Users and their login sessions: AuthService (auth/auth.service.ts), the *)
(* account operations of AdminService and UsersService, and what           *)
(* JwtAuthGuard asks of a request's session.                               *)
(*                                                                         *)
(* refresh() is Serializable and so one step.  Everything else runs at     *)
(* READ COMMITTED or without a transaction: what a handler reads before it *)
(* hashes a password or sends another statement is one step, what it       *)
(* writes the next.                                                        *)
(*                                                                         *)
(* A refresh token is its `iat`: it is signed from the user, the session   *)
(* and the second, so two of one second are the same token.  Captchas only *)
(* keep logins from happening and are left out.                            *)
(***************************************************************************)
EXTENDS Integers, FiniteSets

CONSTANTS
  User,
  Account,   \* accounts at the social provider
  Session,   \* session ids; bound: logins that succeed
  Caller,    \* requests that read and then write
  Required,  \* EMAIL_VERIFICATION_REQUIRED
  Transport, \* values AUTH_REFRESH_TOKEN_TRANSPORT has over time
  Grace,     \* REFRESH_REUSE_GRACE_MS, in seconds
  Ttl,       \* JWT_REFRESH_EXPIRES_IN
  MaxTime,   \* bound: the last second
  MaxEnds,   \* bound: times the sessions of a user are all ended
  MaxCodes   \* bound: verification codes per user

ASSUME BoundsAssumption ==
  /\ Required \in BOOLEAN /\ Transport \subseteq {"body", "cookie"}
  /\ {Grace, Ttl, MaxTime, MaxEnds, MaxCodes} \subseteq Nat

\* "none" stands for null.
ASSUME NoneAssumption == "none" \notin User

VARIABLES
  user,      \* User rows with their EmailVerificationToken and PasswordResetToken rows
  identity,  \* SocialIdentity rows: the user of an account, "none" without a row
  session,   \* Session rows
  answer,    \* of the refresh just handled, if the step was one
  call,      \* handlers between their reads and their writes
  now

vars == <<user, identity, session, answer, call, now>>

Status == {"NONE", "PENDING_VERIFICATION", "ACTIVE", "BLOCKED", "DELETED"}
Time == 0..MaxTime
Never == -1

NoAnswer == [result |-> "none"]
Idle == [pc |-> "idle"]

\* History: `origin`, who created the row, and `ended`, how often all sessions were ended.
NewUser(origin, status, verified, code) ==
  [origin |-> origin, status |-> status, verified |-> verified, deleted |-> FALSE,
   code |-> code, codeUsed |-> FALSE, reset |-> FALSE, ended |-> 0]

NoUser == NewUser("none", "NONE", FALSE, 0)

\* `opened`, history: the user's `ended` when the row was written.
NewSession(u) ==
  [user |-> u, revoked |-> FALSE, current |-> now, prev |-> Never, prevAt |-> Never,
   expiresAt |-> now + Ttl, issued |-> {now}, opened |-> user[u].ended]

Unused ==
  [user |-> "none", revoked |-> FALSE, current |-> Never, prev |-> Never, prevAt |-> Never,
   expiresAt |-> Never, issued |-> {}, opened |-> 0]

\* Some users may have registered while verification was required.
Init ==
  /\ user \in [User -> {NoUser, NewUser("password", "PENDING_VERIFICATION", FALSE, 1)}]
  /\ identity = [a \in Account |-> "none"]
  /\ session = [s \in Session |-> Unused]
  /\ answer = NoAnswer
  /\ call = [c \in Caller |-> Idle]
  /\ now = 0

Exists(s) == session[s].user # "none"
Fresh(s) == Exists(s) /\ ~session[s].revoked /\ session[s].expiresAt > now

\* What JwtAuthGuard and refresh ask of a session.
Usable(s) == Fresh(s) /\ user[session[s].user].status = "ACTIVE"

HasIdentity(u) == \E a \in Account : identity[a] = u

At(c, pc) == call[c].pc = pc
Go(c, to) == call' = [call EXCEPT ![c] = to]
SetUser(u, row) == user' = [user EXCEPT ![u] = row]
Quiet == answer' = NoAnswer

\* user.update with `row` and session.updateMany({ userId, revokedAt: null }) in one transaction;
\* a session in `kept` is the initiator's own.
EndSessions(u, row, kept) ==
  /\ row.ended < MaxEnds
  /\ SetUser(u, [row EXCEPT !.ended = row.ended + 1])
  /\ session' = [s \in Session |->
       IF session[s].user # u THEN session[s]
       ELSE IF s \in kept
            THEN [session[s] EXCEPT !.opened = row.ended + 1]
            ELSE [session[s] EXCEPT !.revoked = TRUE]]

-----------------------------------------------------------------------------
\* A findUnique and a unique email: of two registrations one fails, and changes nothing.
Register(u) ==
  /\ user[u].status = "NONE"
  /\ SetUser(u, IF Required THEN NewUser("password", "PENDING_VERIFICATION", FALSE, 1)
                            ELSE NewUser("password", "ACTIVE", FALSE, 0))
  /\ Quiet
  /\ UNCHANGED <<identity, session, call, now>>

\* AdminService.create.
CreateUser(u) ==
  /\ user[u].status = "NONE"
  /\ SetUser(u, NewUser("admin", "ACTIVE", TRUE, 0))
  /\ Quiet
  /\ UNCHANGED <<identity, session, call, now>>

Verifiable(u) ==
  user[u].status \in {"PENDING_VERIFICATION", "ACTIVE"} /\ ~user[u].deleted

\* sendVerificationCode: a new row, and the one in use is voided.
SendCode(u) ==
  /\ user[u].code < MaxCodes
  /\ SetUser(u, [user[u] EXCEPT !.code = user[u].code + 1, !.codeUsed = FALSE])

ResendVerification(u) ==
  /\ Verifiable(u) /\ ~user[u].verified
  /\ Required \/ HasIdentity(u) \/ user[u].code > 0
  /\ SendCode(u)
  /\ Quiet
  /\ UNCHANGED <<identity, session, call, now>>

VerifyEmailRead(c, u) ==
  /\ At(c, "idle")
  /\ user[u].code > 0 /\ ~user[u].codeUsed
  /\ Verifiable(u)
  /\ Go(c, [pc |-> "verifying", user |-> u, code |-> user[u].code])
  /\ Quiet
  /\ UNCHANGED <<user, identity, session, now>>

\* The update of the code asks that it is unused; the one of the user asks nothing.
VerifyEmailWrite(c) ==
  LET u == call[c].user IN
  /\ At(c, "verifying")
  /\ IF user[u].code = call[c].code /\ ~user[u].codeUsed
     THEN SetUser(u, [user[u] EXCEPT !.codeUsed = TRUE, !.status = "ACTIVE", !.verified = TRUE])
     ELSE UNCHANGED user
  /\ Go(c, Idle)
  /\ Quiet
  /\ UNCHANGED <<identity, session, now>>

-----------------------------------------------------------------------------
\* authenticateUser: the password matched the row just read.
LoginRead(c, u) ==
  /\ At(c, "idle")
  /\ ~user[u].deleted
  /\ \/ /\ user[u].status = "ACTIVE"
        /\ Go(c, [pc |-> "opening", user |-> u])
     \/ /\ user[u].status = "PENDING_VERIFICATION"
        /\ ~Required /\ ~HasIdentity(u)
        /\ Go(c, [pc |-> "activating", user |-> u])
  /\ Quiet
  /\ UNCHANGED <<user, identity, session, now>>

LoginActivate(c) ==
  /\ At(c, "activating")
  /\ SetUser(call[c].user, [user[call[c].user] EXCEPT !.status = "ACTIVE"])
  /\ Go(c, [call[c] EXCEPT !.pc = "opening"])
  /\ Quiet
  /\ UNCHANGED <<identity, session, now>>

\* createSessionForUser checks the row it is given, not the one in the database.
LoginOpen(c, s) ==
  /\ At(c, "opening")
  /\ ~Exists(s)
  /\ session' = [session EXCEPT ![s] = NewSession(call[c].user)]
  /\ Go(c, Idle)
  /\ Quiet
  /\ UNCHANGED <<user, identity, now>>

-----------------------------------------------------------------------------
\* withinRotationGrace: the token was replaced last, and not long ago.
InGrace(s, t) == t # Never /\ t = session[s].prev /\ now - session[s].prevAt <= Grace

\* A token the client holds, its signature valid and its `exp` not reached.
Presented(s, t) == Usable(s) /\ t \in session[s].issued /\ t + Ttl > now

Answer(s, t, result) == answer' = [result |-> result, session |-> s, token |-> t]

Rotated(row) ==
  [row EXCEPT !.prev = row.current, !.prevAt = now, !.current = now,
              !.expiresAt = now + Ttl, !.issued = row.issued \union {now}]

RefreshRotatesSlip(s, t) ==
  /\ Presented(s, t)
  /\ t = session[s].current \/ (t = session[s].prev /\ "cookie" \in Transport)
  /\ session' = [session EXCEPT ![s] = Rotated(session[s])]
  /\ Answer(s, t, "pair")
  /\ UNCHANGED <<user, identity, call, now>>

RefreshRotates(s, t) ==
  /\ Presented(s, t)
  /\ t = session[s].current \/ (InGrace(s, t) /\ "cookie" \in Transport)
  /\ session' = [session EXCEPT ![s] = Rotated(session[s])]
  /\ Answer(s, t, "pair")
  /\ UNCHANGED <<user, identity, call, now>>

\* Body transport: another tab has stored the rotated token already.
RefreshTolerates(s, t) ==
  /\ Presented(s, t)
  /\ t # session[s].current /\ InGrace(s, t) /\ "body" \in Transport
  /\ session' = [session EXCEPT ![s].expiresAt = now + Ttl]
  /\ Answer(s, t, "access")
  /\ UNCHANGED <<user, identity, call, now>>

RefreshDetectsReuse(s, t) ==
  /\ Presented(s, t)
  /\ t # session[s].current /\ ~InGrace(s, t)
  /\ session' = [session EXCEPT ![s].revoked = TRUE]
  /\ Answer(s, t, "reuse")
  /\ UNCHANGED <<user, identity, call, now>>

\* logout, and revokeSession of another session of the same user.
Logout(s, by) ==
  /\ Usable(by)
  /\ session[s].user = session[by].user
  /\ session' = [session EXCEPT ![s].revoked = TRUE]
  /\ Quiet
  /\ UNCHANGED <<user, identity, call, now>>

LogoutAll(s) ==
  LET u == session[s].user IN
  /\ Usable(s)
  /\ EndSessions(u, user[u], {})
  /\ Quiet
  /\ UNCHANGED <<identity, call, now>>

DeleteMe(s) ==
  LET u == session[s].user IN
  /\ Usable(s)
  /\ EndSessions(u, [user[u] EXCEPT !.status = "DELETED", !.deleted = TRUE], {})
  /\ Quiet
  /\ UNCHANGED <<identity, call, now>>

-----------------------------------------------------------------------------
ForgotPassword(u) ==
  /\ user[u].status = "ACTIVE"
  /\ SetUser(u, [user[u] EXCEPT !.reset = TRUE])
  /\ Quiet
  /\ UNCHANGED <<identity, session, call, now>>

\* Reads of the token and a conditional update of it: of two resets one changes nothing.
ResetPassword(u) ==
  /\ user[u].reset
  /\ EndSessions(u, [user[u] EXCEPT !.reset = FALSE], {})
  /\ Quiet
  /\ UNCHANGED <<identity, call, now>>

ChangePasswordRead(c, s) ==
  /\ At(c, "idle")
  /\ Usable(s)
  /\ Go(c, [pc |-> "changing", user |-> session[s].user, session |-> s])
  /\ Quiet
  /\ UNCHANGED <<user, identity, session, now>>

ChangePasswordWrite(c) ==
  /\ At(c, "changing")
  /\ EndSessions(call[c].user, user[call[c].user], {call[c].session})
  /\ Go(c, Idle)
  /\ Quiet
  /\ UNCHANGED <<identity, now>>

-----------------------------------------------------------------------------
\* AdminService; the administrator is another user whose role allows it.
BlockSlip(u) ==
  /\ user[u].status # "NONE" /\ user[u].ended < MaxEnds
  /\ SetUser(u, [user[u] EXCEPT !.status = "BLOCKED", !.ended = user[u].ended + 1])
  /\ Quiet
  /\ UNCHANGED <<identity, session, call, now>>

Block(u) ==
  /\ user[u].status # "NONE"
  /\ EndSessions(u, [user[u] EXCEPT !.status = "BLOCKED"], {})
  /\ Quiet
  /\ UNCHANGED <<identity, call, now>>

AdminResetPassword(u) ==
  /\ user[u].status # "NONE"
  /\ EndSessions(u, user[u], {})
  /\ Quiet
  /\ UNCHANGED <<identity, call, now>>

\* No look at the status: any user that is not deleted is "unblocked".
UnblockRead(c, u) ==
  /\ At(c, "idle")
  /\ user[u].status # "NONE" /\ ~user[u].deleted
  /\ Go(c, [pc |-> "unblocking", user |-> u,
            status |-> IF user[u].verified \/ ~Required THEN "ACTIVE"
                                                        ELSE "PENDING_VERIFICATION"])
  /\ Quiet
  /\ UNCHANGED <<user, identity, session, now>>

UnblockWrite(c) ==
  /\ At(c, "unblocking")
  /\ SetUser(call[c].user, [user[call[c].user] EXCEPT !.status = call[c].status])
  /\ Go(c, Idle)
  /\ Quiet
  /\ UNCHANGED <<identity, session, now>>

Tick ==
  /\ now < MaxTime
  /\ now' = now + 1
  /\ Quiet
  /\ UNCHANGED <<user, identity, session, call>>

UserStep(u) ==
  \/ Register(u) \/ CreateUser(u) \/ ResendVerification(u)
  \/ ForgotPassword(u) \/ ResetPassword(u)
  \/ Block(u) \/ AdminResetPassword(u)

SessionStep(s) ==
  \/ \E t \in Time : RefreshRotates(s, t) \/ RefreshTolerates(s, t) \/ RefreshDetectsReuse(s, t)
  \/ \E by \in Session : Logout(s, by)
  \/ LogoutAll(s) \/ DeleteMe(s)

CallerStep(c) ==
  \/ \E u \in User : VerifyEmailRead(c, u) \/ LoginRead(c, u) \/ UnblockRead(c, u)
  \/ \E s \in Session : LoginOpen(c, s) \/ ChangePasswordRead(c, s)
  \/ VerifyEmailWrite(c) \/ LoginActivate(c) \/ ChangePasswordWrite(c) \/ UnblockWrite(c)

AccountsNext ==
  \/ \E u \in User : UserStep(u)
  \/ \E s \in Session : SessionStep(s)
  \/ \E c \in Caller : CallerStep(c)
  \/ Tick

-----------------------------------------------------------------------------
Families ==
  INSTANCE SessionFamilies WITH
    phase <- [s \in Session |->
      IF ~Exists(s) THEN "unused" ELSE IF Fresh(s) THEN "live" ELSE "closed"],
    newest <- [s \in Session |-> session[s].current],
    stale <- [s \in Session |->
      {t \in {session[s].prev} : t # Never /\ now <= session[s].prevAt + Grace}]

\* Every session is a family of tokens: one token leads to the next, the one it replaced is
\* honoured during the grace only, a token presented later ends the session, and nothing that
\* blocks, unblocks, resets or expires brings an ended session back.
SessionsAreFamilies == Families!Spec

\* logoutAll, deleteMe, the password operations and block end every session of the user, those
\* refreshed at the time included: what is still alive was opened afterwards or is the
\* session the password was changed from.
SessionsEnd == \A s \in Session : Fresh(s) => session[s].opened = user[session[s].user].ended

\* docs/SOCIAL_AUTH.md: an old OTP cannot reactivate a blocked user.  A verification that read
\* the user before he was blocked would.
OldCodeKeepsBlocked ==
  [][\A c \in Caller :
       At(c, "verifying") /\ call'[c] # call[c] /\ user[call[c].user].status = "BLOCKED"
         => user'[call[c].user].status = "BLOCKED"]_vars
=============================================================================
