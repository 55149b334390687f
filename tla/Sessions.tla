------------------------------- MODULE Sessions -------------------------------
(***************************************************************************)
(* Refresh-token sessions: LoginUser, RefreshTokenRotation, LogoutUser and *)
(* RevokeSession of internal/usecase/auth_usecase.go over the table        *)
(* user_sessions.  Every HTTP request runs in its own goroutine and every  *)
(* repository call is one auto-commit statement, so a request is a process *)
(* that reads a row, works on its private copy, and later writes the copy  *)
(* back; any other request may run in between.                             *)
(*                                                                         *)
(* A refresh token is a model value (its random jti makes it unique) and   *)
(* stands for its SHA-256 as well.  A principal of Users is a user         *)
(* together with the organization of the claims.  Tokens with a bad        *)
(* signature are rejected before any state is read and are not modelled.   *)
(***************************************************************************)
EXTENDS Naturals

CONSTANTS Users,          \* principals
          Sessions,       \* session ids (newUUID)
          Tokens,         \* refresh tokens (jti nonces)
          Procs,          \* concurrent requests
          RefreshTTL,     \* REFRESH_TOKEN_EXPIRES_IN, in clock ticks
          MaxTime,        \* bound of the clock
          WriteOutcomes,  \* what an INSERT or UPDATE may do, see below
          NoRow, NoToken, NoUser, NoSession, Unminted

(***************************************************************************)
(* A statement is applied and acknowledged ("ok"), fails before it is      *)
(* applied ("lost"), or is applied but reported as an error because the    *)
(* connection broke or the request's context expired ("late").             *)
(***************************************************************************)
ASSUME SessionsAssumption ==
    /\ WriteOutcomes \subseteq {"ok", "lost", "late"}
    /\ RefreshTTL \in Nat
    /\ MaxTime \in Nat
    /\ NoToken \notin Tokens
    /\ NoUser \notin Users
    /\ NoSession \notin Sessions

VARIABLES sessions,     \* the table user_sessions: a row or NoRow per id
          tokens,       \* the claims of each refresh token minted so far
          held,         \* the tokens that reached a client
          now,          \* the wall clock
          req,          \* the request each process is serving
          spent,        \* history: tokens whose hash the table has replaced
          compromised   \* history: sessions with a session.compromised event

vars == <<sessions, tokens, held, now, req, spent, compromised>>

Row == [user: Users, hash: Tokens, version: Nat, revoked: BOOLEAN,
        expires: Nat]
Claims == [sid: Sessions, exp: Nat]

\* The values that stand for "nothing here" are none of the things they stand
\* in for.
ASSUME AbsenceAssumption ==
    /\ NoRow \notin Row
    /\ NoRow \notin [token: Tokens, revoked: BOOLEAN]
    /\ Unminted \notin Claims

Request ==
    [pc: {"idle", "create", "perms", "readRefresh", "readLogout",
          "readRevoke", "lookup", "rotate", "compromise", "revoke"},
     who: Users \cup {NoUser},         \* caller of RevokeSession, or the user
     tok: Tokens \cup {NoToken},       \* the token presented
     sid: Sessions \cup {NoSession},   \* the session the request is about
     copy: Row \cup {NoRow},           \* *domain.UserSession as read
     replay: BOOLEAN]                  \* history: tok was spent on arrival

Idle == [pc |-> "idle", who |-> NoUser, tok |-> NoToken, sid |-> NoSession,
         copy |-> NoRow, replay |-> FALSE]

Init ==
    /\ sessions = [s \in Sessions |-> NoRow]
    /\ tokens = [t \in Tokens |-> Unminted]
    /\ held = {}
    /\ now = 0
    /\ req = [p \in Procs |-> Idle]
    /\ spent = {}
    /\ compromised = {}

-------------------------------------------------------------------------------
(* Helpers *)

\* GenerateRefreshToken: a token whose jti was never drawn before.
Fresh(t) == tokens[t] = Unminted

Mint(t, s) == tokens' = [tokens EXCEPT ![t] = [sid |-> s, exp |-> now + RefreshTTL]]

\* newUUID: an id no token has ever named.
FreshSession(s) == \A t \in Tokens: ~Fresh(t) => tokens[t].sid # s

\* ValidateRefreshToken: the exp claim lies in the future.
Accepted(t) == t \in held /\ now < tokens[t].exp

Become(p, r) == req' = [req EXCEPT ![p] = r]

Finish(p) == Become(p, Idle)

\* The request goes on to wait at pc, holding the given copy of the row.
Advance(p, pc, copy) ==
    Become(p, [pc |-> pc, who |-> req[p].who, tok |-> req[p].tok,
               sid |-> req[p].sid, copy |-> copy, replay |-> req[p].replay])

\* Mutants: a revocation that blanks the hash, and one that forgets the flag.
RevokedCopyBlanksHash(row) == [row EXCEPT !.revoked = TRUE, !.hash = NoToken]
RevokedCopyKeepsFlag(row) == row

\* The copy a revoking handler writes: the row as it was read, flag set.
RevokedCopy(row) ==
    [user |-> row.user, hash |-> row.hash, version |-> row.version,
     revoked |-> TRUE, expires |-> row.expires]

\* Mutant: the rotation forgets to extend the session.
RotatedCopyKeepsExpiry(row, t) == [row EXCEPT !.hash = t, !.version = @ + 1]

\* The copy a rotation writes: new hash, version and expiry; the flag stays
\* what it was when the row was read.
RotatedCopy(row, t) ==
    [user |-> row.user, hash |-> t, version |-> row.version + 1,
     revoked |-> row.revoked, expires |-> now + RefreshTTL]

\* sessionRepo.Update: every column but the owner's, from the copy.
UpdatedRow(row, copy) ==
    [user |-> row.user, hash |-> copy.hash, version |-> copy.version,
     revoked |-> copy.revoked, expires |-> copy.expires]

Update(p, outcome) ==
    LET s == req[p].sid
        c == req[p].copy
    IN  IF outcome = "lost"
        THEN UNCHANGED <<sessions, spent>>
        ELSE /\ sessions' = [sessions EXCEPT ![s] = UpdatedRow(@, c)]
             /\ spent' = IF sessions[s].hash = c.hash
                         THEN spent ELSE spent \cup {sessions[s].hash}

-------------------------------------------------------------------------------
(* LoginUser *)

NewRow(u, t) ==
    [user |-> u, hash |-> t, version |-> 1, revoked |-> FALSE,
     expires |-> now + RefreshTTL]

\* Credentials and the organization mapping were found good; the session id
\* and the refresh token exist, the row does not yet.
LoginMint(p, u, s, t) ==
    /\ req[p].pc = "idle"
    /\ FreshSession(s)
    /\ Fresh(t)
    /\ Mint(t, s)
    /\ Become(p, [pc |-> "create", who |-> u, tok |-> NoToken, sid |-> s,
                  copy |-> NewRow(u, t), replay |-> FALSE])
    /\ UNCHANGED <<sessions, held, now, spent, compromised>>

\* sessionRepo.Create; an error of any kind ends the request.
LoginCreate(p) ==
    /\ req[p].pc = "create"
    /\ \E outcome \in WriteOutcomes:
        /\ sessions' = IF outcome = "lost" THEN sessions
                       ELSE [sessions EXCEPT ![req[p].sid] = req[p].copy]
        /\ IF outcome = "ok"
           THEN Advance(p, "perms", req[p].copy)
           ELSE Finish(p)
    /\ UNCHANGED <<tokens, held, now, spent, compromised>>

\* The permissions were read: the client receives the refresh token.
LoginDeliver(p) ==
    /\ req[p].pc = "perms"
    /\ held' = held \cup {req[p].copy.hash}
    /\ Finish(p)
    /\ UNCHANGED <<sessions, tokens, now, spent, compromised>>

-------------------------------------------------------------------------------
(* RefreshTokenRotation *)

RefreshBegin(p, t) ==
    /\ req[p].pc = "idle"
    /\ Accepted(t)
    /\ Become(p, [pc |-> "readRefresh", who |-> NoUser, tok |-> t,
                  sid |-> tokens[t].sid, copy |-> NoRow, replay |-> t \in spent])
    /\ UNCHANGED <<sessions, tokens, held, now, spent, compromised>>

\* Mutants: the hash, or the revocation flag, is not compared.
RefreshMatchesAnyHash(row, t) == ~row.revoked /\ ~(row.expires < now)
RefreshMatchesRevoked(row, t) == ~(row.expires < now) /\ row.hash = t

\* The row was found usable and the token is the current one.
RefreshMatches(row, t) == ~row.revoked /\ ~(row.expires < now) /\ row.hash = t

\* The row was found usable but the token is an older one.
RefreshReplayed(row, t) == ~row.revoked /\ ~(row.expires < now) /\ row.hash # t

\* sessionRepo.GetByID and the checks on the row it returns.
RefreshRead(p) ==
    LET row == sessions[req[p].sid] IN
    /\ req[p].pc = "readRefresh"
    /\ IF row = NoRow THEN Finish(p)
       ELSE IF RefreshMatches(row, req[p].tok)
       THEN Advance(p, "lookup", row)
       ELSE IF RefreshReplayed(row, req[p].tok)
       THEN Advance(p, "compromise", RevokedCopy(row))
       ELSE Finish(p)
    /\ UNCHANGED <<sessions, tokens, held, now, spent, compromised>>

\* The error of the revoking statement is discarded and session.compromised
\* is logged whatever became of it.
CompromiseWrite(p) ==
    /\ req[p].pc = "compromise"
    /\ \E outcome \in WriteOutcomes: Update(p, outcome)
    /\ compromised' = compromised \cup {req[p].sid}
    /\ Finish(p)
    /\ UNCHANGED <<tokens, held, now>>

\* User, organization mapping and permissions were found; new tokens minted.
RefreshMint(p, t) ==
    /\ req[p].pc = "lookup"
    /\ Fresh(t)
    /\ Mint(t, req[p].sid)
    /\ Advance(p, "rotate", RotatedCopy(req[p].copy, t))
    /\ UNCHANGED <<sessions, held, now, spent, compromised>>

\* sessionRepo.Update with the rotated copy; the new token is returned only
\* when the statement is acknowledged.
RefreshWrite(p) ==
    /\ req[p].pc = "rotate"
    /\ \E outcome \in WriteOutcomes:
        /\ Update(p, outcome)
        /\ held' = IF outcome = "ok" THEN held \cup {req[p].copy.hash} ELSE held
    /\ Finish(p)
    /\ UNCHANGED <<tokens, now, compromised>>

-------------------------------------------------------------------------------
(* LogoutUser and RevokeSession *)

LogoutBegin(p, t) ==
    /\ req[p].pc = "idle"
    /\ Accepted(t)
    /\ Become(p, [pc |-> "readLogout", who |-> NoUser, tok |-> t,
                  sid |-> tokens[t].sid, copy |-> NoRow, replay |-> FALSE])
    /\ UNCHANGED <<sessions, tokens, held, now, spent, compromised>>

\* Any authenticated caller may name any session id in the path.
RevokeBegin(p, u, s) ==
    /\ req[p].pc = "idle"
    /\ Become(p, [pc |-> "readRevoke", who |-> u, tok |-> NoToken,
                  sid |-> s, copy |-> NoRow, replay |-> FALSE])
    /\ UNCHANGED <<sessions, tokens, held, now, spent, compromised>>

ReadToRevoke(p, row) ==
    /\ IF row # NoRow /\ ~row.revoked
       THEN Advance(p, "revoke", RevokedCopy(row))
       ELSE Finish(p)
    /\ UNCHANGED <<sessions, tokens, held, now, spent, compromised>>

LogoutRead(p) ==
    /\ req[p].pc = "readLogout"
    /\ ReadToRevoke(p, sessions[req[p].sid])

\* Mutant: RevokeSession without its ownership check.
OwnsAny(u, row) == row # NoRow

\* The ownership check of RevokeSession: the row's user and organization.
Owns(u, row) == row # NoRow /\ row.user = u

RevokeRead(p) ==
    LET row == sessions[req[p].sid] IN
    /\ req[p].pc = "readRevoke"
    /\ ReadToRevoke(p, IF Owns(req[p].who, row) THEN row ELSE NoRow)

\* The write of LogoutUser, which discards the error, and of RevokeSession,
\* which reports it.
RevokeWrite(p) ==
    /\ req[p].pc = "revoke"
    /\ \E outcome \in WriteOutcomes: Update(p, outcome)
    /\ Finish(p)
    /\ UNCHANGED <<tokens, held, now, compromised>>

-------------------------------------------------------------------------------

\* A read failed or the request's context expired: the handler returns.
Abort(p) ==
    /\ req[p].pc \in {"readRefresh", "readLogout", "readRevoke", "lookup", "perms"}
    /\ Finish(p)
    /\ UNCHANGED <<sessions, tokens, held, now, spent, compromised>>

Tick ==
    /\ now < MaxTime
    /\ now' = now + 1
    /\ UNCHANGED <<sessions, tokens, held, req, spent, compromised>>

Step(p) ==
    \/ \E u \in Users, s \in Sessions, t \in Tokens: LoginMint(p, u, s, t)
    \/ LoginCreate(p)
    \/ LoginDeliver(p)
    \/ \E t \in Tokens: RefreshBegin(p, t)
    \/ RefreshRead(p)
    \/ CompromiseWrite(p)
    \/ \E t \in Tokens: RefreshMint(p, t)
    \/ RefreshWrite(p)
    \/ \E t \in Tokens: LogoutBegin(p, t)
    \/ LogoutRead(p)
    \/ \E u \in Users, s \in Sessions: RevokeBegin(p, u, s)
    \/ RevokeRead(p)
    \/ RevokeWrite(p)
    \/ Abort(p)

Next == Tick \/ \E p \in Procs: Step(p)

Spec == Init /\ [][Next]_vars

-------------------------------------------------------------------------------
(* Properties *)

TypeOK ==
    /\ sessions \in [Sessions -> Row \cup {NoRow}]
    /\ tokens \in [Tokens -> Claims \cup {Unminted}]
    /\ held \subseteq Tokens
    /\ now \in Nat
    /\ req \in [Procs -> Request]
    /\ spent \subseteq Tokens
    /\ compromised \subseteq Sessions

Live(s) == sessions[s] # NoRow /\ ~sessions[s].revoked

(***************************************************************************)
(* A stored hash is the hash of a token minted for that very session and   *)
(* no longer-lived than the row, so no token opens a session of another    *)
(* login, whatever copies are written back and in whatever order.          *)
(***************************************************************************)
HashesBindTheirSession ==
    \A s \in Sessions: sessions[s] # NoRow =>
        LET claims == tokens[sessions[s].hash] IN
        /\ claims # Unminted
        /\ claims.sid = s
        /\ claims.exp <= sessions[s].expires

(***************************************************************************)
(* Once the table has replaced a token's hash, that hash may come back     *)
(* only in a revoked row: the whole-row write of a logout or a revocation  *)
(* that read an old row never brings an old token back to life.            *)
(***************************************************************************)
SpentTokensStayDead ==
    \A s \in Sessions: Live(s) => sessions[s].hash \notin spent

(***************************************************************************)
(* Replay detection, for a token that had already been replaced when the   *)
(* request arrived: such a request never gets to rotate the session.       *)
(***************************************************************************)
ReplayNeverRotates ==
    \A p \in Procs: req[p].replay => req[p].pc \notin {"lookup", "rotate"}

(***************************************************************************)
(* A session is revoked only on behalf of its owner: by the owner's call   *)
(* of RevokeSession, or by a request that presented one of its tokens.     *)
(***************************************************************************)
RevokedForOwnerOnly ==
    [][\A s \in Sessions: Live(s) /\ ~Live(s)' =>
        \E p \in Procs:
            /\ req'[p] = Idle /\ req[p].sid = s
            /\ \/ req[p].who = sessions[s].user
               \/ req[p].tok \in held /\ tokens[req[p].tok].sid = s]_vars

\* The rotations of s whose copy was read while s was still live.
Rotating(s) == {p \in Procs: req[p].sid = s /\ req[p].pc \in {"lookup", "rotate"}}

Settled(s) == sessions[s] # NoRow /\ sessions[s].revoked /\ Rotating(s) = {}

(***************************************************************************)
(* Revocation is final once no rotation is in flight: only a refresh that  *)
(* had passed its checks before can undo it.                               *)
(***************************************************************************)
SettledRevocationIsFinal ==
    [][\A s \in Sessions: Settled(s) => Settled(s)']_vars

(***************************************************************************)
(* The rest is what the documents of the repository promise and the code   *)
(* does not deliver when requests overlap or statements fail.              *)
(***************************************************************************)

\* .agents/security-multitenant-guardian.md: "is_revoked = true permanently
\* invalidates a session" (RefreshTokenRotation writes the flag as read).
RevocationIsPermanent ==
    [][\A s \in Sessions:
        sessions[s] # NoRow /\ sessions[s].revoked => sessions'[s].revoked]_vars

\* docs/architecture.md: the server "detects that the token_hash has already
\* been superseded": a rotation replaces the token it was asked with.
RotatesPresentedToken ==
    [][\A p \in Procs:
        LET s == req[p].sid IN
        req[p].pc = "rotate" /\ held' # held => sessions[s].hash = req[p].tok]_vars

\* docs/architecture.md: on a replay the server "immediately revokes the
\* entire session family and triggers a session.compromised audit log".
CompromisedIsRevoked ==
    \A s \in compromised: sessions[s].revoked

-------------------------------------------------------------------------------
(***************************************************************************)
(* The atomic specification.  A session whose row exists is its family;    *)
(* the tokens that were ever current are those in the table and those the  *)
(* table has replaced.                                                     *)
(***************************************************************************)
FamilyOf(s) == IF sessions[s] = NoRow THEN NoRow
               ELSE [token |-> sessions[s].hash, revoked |-> sessions[s].revoked]

Families == [s \in Sessions |-> FamilyOf(s)]

CurrentTokens ==
    spent \cup {t \in Tokens: \E s \in Sessions: sessions[s] # NoRow /\ sessions[s].hash = t}

Abstract == INSTANCE SessionFamily WITH
    NoFamily <- NoRow,
    family   <- Families,
    current  <- CurrentTokens

\* With one request at a time the service implements the atomic families,
\* failing statements included.
ImplementsFamilies == Abstract!Spec
===============================================================================
