---------------------------- MODULE SessionsProofs ----------------------------
(***************************************************************************)
(* Proofs about Sessions for every set of users, sessions, tokens and      *)
(* concurrent requests, every clock bound and every subset of statement    *)
(* outcomes.                                                               *)
(***************************************************************************)
EXTENDS Sessions, TLAPS

(***************************************************************************)
(* The inductive invariant.  Types alone do not tell why a stale write is  *)
(* harmless to tokens: that needs what each kind of pending copy may hold. *)
(***************************************************************************)
Writing(r) == r.pc \in {"create", "rotate"}
Revoking(r) == r.pc \in {"compromise", "revoke"}

\* A copy is a row whose hash was minted for the session it is a copy of.
Bound(s, row) ==
    /\ tokens[row.hash] # Unminted
    /\ tokens[row.hash].sid = s
    /\ tokens[row.hash].exp <= row.expires

\* What the program counter of a request says about the rest of it.
RequestOK(r) ==
    /\ r.pc # "idle" => r.sid # NoSession
    /\ r.copy # NoRow => r.sid # NoSession /\ Bound(r.sid, r.copy)
    /\ Writing(r) \/ Revoking(r) \/ r.pc \in {"perms", "lookup"} => r.copy # NoRow
    /\ Writing(r) \/ r.pc = "lookup" => ~r.copy.revoked
    /\ Revoking(r) => r.copy.revoked
    /\ r.pc = "create" => sessions[r.sid] = NoRow
    /\ r.pc \in {"lookup", "rotate", "compromise", "revoke"} => sessions[r.sid] # NoRow
    /\ r.replay => r.tok \in spent /\ r.pc \notin {"lookup", "rotate"}

RequestsOK == \A p \in Procs: RequestOK(req[p])

\* A token that is about to be written for the first time is nowhere yet.
PendingIsNew ==
    \A p \in Procs: Writing(req[p]) =>
        /\ req[p].copy.hash \notin spent
        /\ \A s \in Sessions: sessions[s] # NoRow => sessions[s].hash # req[p].copy.hash
        /\ \A q \in Procs: q # p /\ req[q].copy # NoRow
               => req[q].copy.hash # req[p].copy.hash

\* Two logins in flight never share a session id.
CreatesDiffer ==
    \A p, q \in Procs:
        req[p].pc = "create" /\ req[q].pc = "create" /\ req[p].sid = req[q].sid => p = q

KnownMinted == \A t \in spent \cup held: tokens[t] # Unminted

IInv ==
    /\ TypeOK
    /\ HashesBindTheirSession
    /\ SpentTokensStayDead
    /\ RequestsOK
    /\ PendingIsNew
    /\ CreatesDiffer
    /\ KnownMinted

-------------------------------------------------------------------------------

LEMMA InitIInv == Init => IInv
<1> SUFFICES ASSUME Init PROVE IInv
  OBVIOUS
<1> USE SessionsAssumption, AbsenceAssumption DEF Init
<1>1. Idle \in Request
  BY DEF Idle, Request
<1>2. TypeOK
  BY <1>1 DEF TypeOK
<1>3. HashesBindTheirSession /\ SpentTokensStayDead /\ KnownMinted
  BY DEF HashesBindTheirSession, SpentTokensStayDead, KnownMinted, Live
<1>4. RequestsOK /\ PendingIsNew /\ CreatesDiffer
  BY DEF RequestsOK, RequestOK, PendingIsNew, CreatesDiffer, Idle, Writing, Revoking
<1> QED
  BY <1>2, <1>3, <1>4 DEF IInv

(***************************************************************************)
(* Most steps only move one request on.  Such a step keeps the invariant   *)
(* when the new request record fits its program counter, brings no new     *)
(* pending write, and holds no token but one that is in the table already. *)
(***************************************************************************)
LEMMA MoveRequest ==
  ASSUME IInv, NEW p \in Procs, NEW r \in Request, Become(p, r),
         UNCHANGED <<sessions, tokens, now, spent>>,
         held' \subseteq {t \in Tokens: tokens[t] # Unminted},
         compromised' \subseteq Sessions,
         RequestOK(r), ~Writing(r),
         \/ r.copy = NoRow
         \/ r.copy = req[p].copy
         \/ \E s \in Sessions: sessions[s] # NoRow /\ r.copy.hash = sessions[s].hash
  PROVE  IInv'
<1> USE SessionsAssumption, AbsenceAssumption DEF IInv, Become
<1>1. TypeOK'
  BY DEF TypeOK
<1>2. /\ req'[p] = r
      /\ \A q \in Procs: q # p => req'[q] = req[q]
  BY DEF TypeOK
<1>3. HashesBindTheirSession' /\ SpentTokensStayDead' /\ KnownMinted'
  BY DEF HashesBindTheirSession, SpentTokensStayDead, KnownMinted, Live
<1>4. RequestsOK'
  BY <1>2 DEF RequestsOK, RequestOK, Bound, Writing, Revoking
<1>5. PendingIsNew'
  BY <1>2 DEF PendingIsNew, Writing
<1>6. CreatesDiffer'
  BY <1>2 DEF CreatesDiffer, Writing
<1> QED
  BY <1>1, <1>3, <1>4, <1>5, <1>6

LEMMA IdleFits == Idle \in Request /\ RequestOK(Idle) /\ ~Writing(Idle) /\ Idle.copy = NoRow
BY SessionsAssumption DEF Idle, Request, RequestOK, Writing, Revoking

-------------------------------------------------------------------------------
(* The steps that mint a token or write the table *)

LEMMA LoginMintKeeps ==
  ASSUME IInv, NEW p \in Procs, NEW u \in Users, NEW s \in Sessions,
         NEW t \in Tokens, LoginMint(p, u, s, t)
  PROVE  IInv'
<1> USE SessionsAssumption, AbsenceAssumption DEF IInv
<1> DEFINE c == [sid |-> s, exp |-> now + RefreshTTL]
           row == NewRow(u, t)
           r == [pc |-> "create", who |-> u, tok |-> NoToken, sid |-> s,
                 copy |-> row, replay |-> FALSE]
<1>1. /\ tokens' = [tokens EXCEPT ![t] = c] /\ tokens[t] = Unminted
      /\ req' = [req EXCEPT ![p] = r]
      /\ UNCHANGED <<sessions, held, now, spent, compromised>>
  BY DEF LoginMint, Mint, Become, Fresh
<1>2. c \in Claims /\ row \in Row
  BY DEF TypeOK, Claims, Row, NewRow
<1>3. /\ r \in Request /\ row.hash = t /\ ~row.revoked
      /\ row.expires = now + RefreshTTL
  BY <1>2 DEF Request, NewRow
<1> HIDE DEF row
<1>4. TypeOK'
  BY <1>1, <1>2, <1>3 DEF TypeOK
<1>5. /\ tokens'[t] = c /\ \A x \in Tokens: x # t => tokens'[x] = tokens[x]
      /\ req'[p] = r /\ \A q \in Procs: q # p => req'[q] = req[q]
      /\ c # Unminted /\ row # NoRow
  BY <1>1, <1>2 DEF TypeOK
<1>6. /\ \A x \in Tokens: tokens[x] # Unminted => x # t /\ tokens[x].sid # s
  BY <1>1 DEF LoginMint, FreshSession, Fresh
<1>7. sessions[s] = NoRow
  BY <1>6 DEF HashesBindTheirSession, TypeOK, Row
<1>8. \A z \in Sessions: sessions[z] # NoRow => sessions[z] \in Row /\ sessions[z].hash # t
  BY <1>1 DEF HashesBindTheirSession, TypeOK, Row
<1>9. HashesBindTheirSession'
  BY <1>1, <1>5, <1>8 DEF HashesBindTheirSession, Row
<1>10. SpentTokensStayDead' /\ KnownMinted' /\ t \notin spent
  BY <1>1, <1>5 DEF SpentTokensStayDead, KnownMinted, Live, TypeOK
<1>11. \A q \in Procs: req[q].copy # NoRow =>
            req[q].copy \in Row /\ tokens[req[q].copy.hash] # Unminted /\ req[q].copy.hash # t
  BY <1>1 DEF RequestsOK, RequestOK, Bound, TypeOK, Request, Row
<1>12. RequestsOK'
  <2>1. RequestOK(req[p])'
    <3>1. /\ tokens'[row.hash] # Unminted
          /\ tokens'[row.hash].sid = s
          /\ tokens'[row.hash].exp <= row.expires
      BY <1>3, <1>5 DEF TypeOK
    <3>2. /\ req'[p].pc = "create" /\ req'[p].sid = s /\ req'[p].copy = row
          /\ req'[p].replay = FALSE
      BY <1>5
    <3> QED
      BY <3>1, <3>2, <1>1, <1>3, <1>5, <1>7, SMT DEF RequestOK, Bound, Writing, Revoking
  <2>2. ASSUME NEW q \in Procs, q # p PROVE RequestOK(req[q])'
    BY <2>2, <1>1, <1>5, <1>11 DEF RequestsOK, RequestOK, Bound, Writing, Revoking, Row
  <2> QED
    BY <2>1, <2>2 DEF RequestsOK
<1>13. PendingIsNew'
  <2>1. ASSUME NEW q \in Procs, q # p, Writing(req[q])
        PROVE  req[q].copy # NoRow /\ req[q].copy.hash # t
    BY <2>1, <1>11 DEF RequestsOK, RequestOK
  <2>2. r.copy = row /\ \A q \in Procs: Writing(req[q])' /\ q # p => Writing(req[q])
    BY <1>5 DEF Writing
  <2> QED
    BY <2>1, <2>2, <1>1, <1>3, <1>5, <1>8, <1>10, <1>11 DEF PendingIsNew
<1>14. \A q \in Procs: req[q].pc = "create" => req[q].sid # s
  BY <1>6 DEF RequestsOK, RequestOK, Bound, Writing, TypeOK, Request, Row
<1>15. CreatesDiffer'
  BY <1>3, <1>5, <1>14 DEF CreatesDiffer
<1> QED
  BY <1>4, <1>9, <1>10, <1>12, <1>13, <1>15

LEMMA LoginCreateKeeps ==
  ASSUME IInv, NEW p \in Procs, LoginCreate(p)
  PROVE  IInv'
<1> USE SessionsAssumption, AbsenceAssumption DEF IInv
<1> DEFINE s == req[p].sid
           c == req[p].copy
<1>1. /\ req[p].pc = "create" /\ UNCHANGED <<tokens, held, now, spent, compromised>>
      /\ s \in Sessions /\ c \in Row /\ sessions[s] = NoRow /\ Bound(s, c) /\ ~c.revoked
  BY DEF LoginCreate, RequestsOK, RequestOK, Writing, TypeOK, Request
<1> DEFINE perms == [pc |-> "perms", who |-> req[p].who, tok |-> req[p].tok,
                     sid |-> s, copy |-> c, replay |-> req[p].replay]
<1>2. PICK r \in {Idle, perms}: Become(p, r)
  BY DEF LoginCreate, Finish, Advance
<1>3. r \in Request /\ ~Writing(r) /\ r.copy \in {NoRow, c}
  BY <1>2, IdleFits, <1>1 DEF TypeOK, Request, Writing
<1>4. r = Idle \/ (r.pc = "perms" /\ r.sid = s /\ r.copy = c /\ r.replay = req[p].replay
                     /\ r.tok = req[p].tok)
  BY <1>2, <1>1 DEF TypeOK, Request
<1>5. CASE sessions' = sessions
  <2>1. RequestOK(r)
    BY <1>1, <1>4, IdleFits DEF RequestsOK, RequestOK, Writing, Revoking
  <2> QED
    BY <2>1, <1>1, <1>2, <1>3, <1>5, MoveRequest DEF TypeOK, KnownMinted
<1>6. CASE sessions' = [sessions EXCEPT ![s] = c]
  <2>1. /\ sessions'[s] = c /\ \A z \in Sessions: z # s => sessions'[z] = sessions[z]
        /\ req'[p] = r /\ \A q \in Procs: q # p => req'[q] = req[q]
        /\ c # NoRow
    BY <1>1, <1>2, <1>6 DEF TypeOK, Become
  <2>2. TypeOK'
    BY <1>1, <1>2, <1>3, <1>6 DEF TypeOK, Become
  <2>3. c.hash \notin spent
    BY <1>1 DEF PendingIsNew, Writing
  <2>4. HashesBindTheirSession' /\ SpentTokensStayDead' /\ KnownMinted'
    BY <1>1, <2>1, <2>3 DEF HashesBindTheirSession, SpentTokensStayDead, KnownMinted, Live, Bound
  <2>5. RequestOK(req[p])'
    BY <1>1, <1>4, <2>1 DEF RequestsOK, RequestOK, Bound, Writing, Revoking, Idle
  <2>6. ASSUME NEW q \in Procs, q # p PROVE RequestOK(req[q])'
    BY <2>6, <1>1, <2>1
       DEF RequestsOK, RequestOK, Bound, Writing, Revoking, CreatesDiffer, TypeOK, Request
  <2>7. PendingIsNew'
    <3>1. \A q \in Procs: q # p /\ Writing(req[q]) => c.hash # req[q].copy.hash
      BY <1>1, <2>1 DEF PendingIsNew
    <3> QED
      BY <1>1, <1>3, <2>1, <3>1 DEF PendingIsNew
  <2>8. CreatesDiffer'
    BY <1>3, <2>1 DEF CreatesDiffer, Writing
  <2> QED
    BY <2>2, <2>4, <2>5, <2>6, <2>7, <2>8 DEF RequestsOK
<1> QED
  BY <1>5, <1>6 DEF LoginCreate

LEMMA RefreshMintKeeps ==
  ASSUME IInv, NEW p \in Procs, NEW t \in Tokens, RefreshMint(p, t)
  PROVE  IInv'
<1> USE SessionsAssumption, AbsenceAssumption DEF IInv
<1> DEFINE s == req[p].sid
           c == [sid |-> s, exp |-> now + RefreshTTL]
           row == RotatedCopy(req[p].copy, t)
           r == [pc |-> "rotate", who |-> req[p].who, tok |-> req[p].tok,
                 sid |-> s, copy |-> row, replay |-> req[p].replay]
<1>1. /\ tokens' = [tokens EXCEPT ![t] = c] /\ tokens[t] = Unminted
      /\ req' = [req EXCEPT ![p] = r]
      /\ UNCHANGED <<sessions, held, now, spent, compromised>>
      /\ req[p].pc = "lookup"
  BY DEF RefreshMint, Mint, Become, Fresh, Advance
<1>2. /\ s \in Sessions /\ req[p].copy \in Row /\ ~req[p].copy.revoked
      /\ sessions[s] # NoRow /\ ~req[p].replay
  BY <1>1 DEF RequestsOK, RequestOK, TypeOK, Request
<1>3. /\ c \in Claims /\ row \in Row /\ row.hash = t /\ ~row.revoked
      /\ row.expires = now + RefreshTTL
  BY <1>2 DEF TypeOK, Claims, Row, RotatedCopy
<1>4. r \in Request /\ r.replay = FALSE
  BY <1>2, <1>3 DEF Request, TypeOK
<1> HIDE DEF row
<1>5. TypeOK'
  BY <1>1, <1>3, <1>4 DEF TypeOK
<1>6. /\ tokens'[t] = c /\ \A x \in Tokens: x # t => tokens'[x] = tokens[x]
      /\ req'[p] = r /\ \A q \in Procs: q # p => req'[q] = req[q]
      /\ c # Unminted /\ row # NoRow
  BY <1>1, <1>3 DEF TypeOK
<1>7. \A z \in Sessions: sessions[z] # NoRow => sessions[z] \in Row /\ sessions[z].hash # t
  BY <1>1 DEF HashesBindTheirSession, TypeOK, Row
<1>8. HashesBindTheirSession'
  BY <1>1, <1>6, <1>7 DEF HashesBindTheirSession, Row
<1>9. SpentTokensStayDead' /\ KnownMinted' /\ t \notin spent
  BY <1>1, <1>6 DEF SpentTokensStayDead, KnownMinted, Live, TypeOK
<1>10. \A q \in Procs: req[q].copy # NoRow =>
            req[q].copy \in Row /\ tokens[req[q].copy.hash] # Unminted /\ req[q].copy.hash # t
  BY <1>1 DEF RequestsOK, RequestOK, Bound, TypeOK, Request, Row
<1>11. RequestsOK'
  <2>1. RequestOK(req[p])'
    <3>1. /\ tokens'[row.hash] # Unminted
          /\ tokens'[row.hash].sid = s
          /\ tokens'[row.hash].exp <= row.expires
      BY <1>3, <1>6 DEF TypeOK
    <3>2. /\ req'[p].pc = "rotate" /\ req'[p].sid = s /\ req'[p].copy = row
          /\ req'[p].replay = FALSE
      BY <1>4, <1>6
    <3> QED
      BY <3>1, <3>2, <1>1, <1>2, <1>3, <1>6, SMT DEF RequestOK, Bound, Writing, Revoking
  <2>2. ASSUME NEW q \in Procs, q # p PROVE RequestOK(req[q])'
    BY <2>2, <1>1, <1>6, <1>10 DEF RequestsOK, RequestOK, Bound, Writing, Revoking, Row
  <2> QED
    BY <2>1, <2>2 DEF RequestsOK
<1>12. PendingIsNew'
  <2>1. ASSUME NEW q \in Procs, q # p, Writing(req[q])
        PROVE  req[q].copy # NoRow /\ req[q].copy.hash # t
    BY <2>1, <1>10 DEF RequestsOK, RequestOK
  <2>2. r.copy = row /\ \A q \in Procs: Writing(req[q])' /\ q # p => Writing(req[q])
    BY <1>6 DEF Writing
  <2> QED
    BY <2>1, <2>2, <1>1, <1>3, <1>6, <1>7, <1>9, <1>10 DEF PendingIsNew
<1>13. CreatesDiffer'
  BY <1>6 DEF CreatesDiffer
<1> QED
  BY <1>5, <1>8, <1>9, <1>11, <1>12, <1>13

(***************************************************************************)
(* The whole-row UPDATE.  A rotation writes a token that is nowhere else;  *)
(* a revocation may write an old one, but only together with the flag.     *)
(***************************************************************************)
LEMMA UpdateKeeps ==
  ASSUME IInv, NEW p \in Procs, NEW outcome \in WriteOutcomes,
         req[p].pc \in {"rotate", "compromise", "revoke"},
         Update(p, outcome), Finish(p), UNCHANGED <<tokens, now>>,
         held' \subseteq held \cup {req[p].copy.hash},
         compromised' \subseteq Sessions
  PROVE  IInv'
<1> USE SessionsAssumption, AbsenceAssumption DEF IInv
<1> DEFINE s == req[p].sid
           c == req[p].copy
           new == UpdatedRow(sessions[s], c)
<1>1. s \in Sessions /\ c \in Row /\ sessions[s] \in Row /\ Bound(s, c)
  BY DEF RequestsOK, RequestOK, Writing, Revoking, TypeOK, Request
<1>2. CASE outcome = "lost"
  BY <1>1, <1>2, IdleFits, MoveRequest
     DEF Update, Finish, Bound, KnownMinted, TypeOK, Row
<1>3. CASE outcome # "lost"
  <2>1. /\ sessions' = [sessions EXCEPT ![s] = new]
        /\ spent' = IF sessions[s].hash = c.hash THEN spent
                    ELSE spent \cup {sessions[s].hash}
        /\ req' = [req EXCEPT ![p] = Idle]
    BY <1>3 DEF Update, Finish, Become
  <2>2. /\ new \in Row /\ new.hash = c.hash /\ new.revoked = c.revoked
        /\ new.expires = c.expires
    BY <1>1 DEF UpdatedRow, Row
  <2> HIDE DEF new
  <2>3. /\ sessions'[s] = new /\ \A z \in Sessions: z # s => sessions'[z] = sessions[z]
        /\ req'[p] = Idle /\ \A q \in Procs: q # p => req'[q] = req[q]
        /\ new # NoRow /\ sessions[s] # NoRow
    BY <1>1, <2>1, <2>2 DEF TypeOK
  <2>4. TypeOK'
    BY <1>1, <2>1, <2>2, IdleFits DEF TypeOK, Row
  <2>5. HashesBindTheirSession'
    BY <1>1, <2>2, <2>3 DEF HashesBindTheirSession, Bound
  <2>6. /\ KnownMinted' /\ spent \subseteq spent'
        /\ \A x \in spent': x \in spent \/ x = sessions[s].hash
    BY <1>1, <2>1, <2>3 DEF KnownMinted, HashesBindTheirSession, Bound
  <2>7. SpentTokensStayDead'
    <3>1. ASSUME NEW z \in Sessions, z # s, sessions[z] # NoRow
          PROVE  sessions[z].hash # sessions[s].hash
      BY <3>1, <1>1, <2>3 DEF HashesBindTheirSession
    <3>2. ASSUME NEW z \in Sessions, z # s, Live(z)'
          PROVE  sessions'[z].hash \notin spent'
      BY <3>1, <3>2, <2>3, <2>6 DEF Live, SpentTokensStayDead
    <3>3. ASSUME ~c.revoked
          PROVE  c.hash \notin spent'
      <4>1. req[p].pc = "rotate"
        BY <3>3 DEF RequestsOK, RequestOK, Revoking
      <4> QED
        BY <4>1, <1>1, <2>3, <2>6 DEF PendingIsNew, Writing
    <3> QED
      BY <3>2, <3>3, <2>2, <2>3 DEF SpentTokensStayDead, Live
  <2>8. RequestsOK'
    <3>1. RequestOK(req[p])'
      BY <2>3 DEF RequestOK, Idle, Writing, Revoking
    <3>2. ASSUME NEW q \in Procs, q # p PROVE RequestOK(req[q])'
      <4>1. \A z \in Sessions: sessions'[z] = NoRow <=> sessions[z] = NoRow
        BY <2>3
      <4>2. req[q].pc # "idle" => req[q].sid \in Sessions
        BY DEF RequestsOK, RequestOK, TypeOK, Request
      <4> QED
        BY <3>2, <4>1, <4>2, <2>3, <2>6 DEF RequestsOK, RequestOK, Bound, Writing, Revoking
    <3> QED
      BY <3>1, <3>2 DEF RequestsOK
  <2>9. PendingIsNew'
    <3>1. ASSUME NEW q \in Procs, q # p, Writing(req[q])
          PROVE  /\ req[q].copy.hash # c.hash
                 /\ req[q].copy.hash # sessions[s].hash
                 /\ req[q].copy.hash \notin spent
      BY <3>1, <1>1, <2>3 DEF PendingIsNew
    <3>2. ~Writing(Idle)
      BY IdleFits
    <3> QED
      BY <3>1, <3>2, <2>2, <2>3, <2>6 DEF PendingIsNew, Idle
  <2>10. CreatesDiffer'
    BY <2>3 DEF CreatesDiffer, Idle
  <2> QED
    BY <2>4, <2>5, <2>6, <2>7, <2>8, <2>9, <2>10
<1> QED
  BY <1>2, <1>3

-------------------------------------------------------------------------------
(* The steps that only read *)

LEMMA ReadKeeps ==
  ASSUME IInv, NEW p \in Procs, NEW r \in Request, Become(p, r),
         UNCHANGED <<sessions, tokens, held, now, spent, compromised>>,
         RequestOK(r), ~Writing(r),
         \/ r.copy = NoRow
         \/ \E s \in Sessions: sessions[s] # NoRow /\ r.copy.hash = sessions[s].hash
  PROVE  IInv'
<1>1. held' \subseteq {t \in Tokens: tokens[t] # Unminted} /\ compromised' \subseteq Sessions
  BY DEF IInv, KnownMinted, TypeOK
<1> QED
  BY <1>1, MoveRequest

LEMMA FinishKeeps ==
  ASSUME IInv, NEW p \in Procs, Finish(p),
         UNCHANGED <<sessions, tokens, held, now, spent, compromised>>
  PROVE  IInv'
BY IdleFits, ReadKeeps DEF Finish

LEMMA BeginKeeps ==
  ASSUME IInv, NEW p \in Procs,
         \/ \E t \in Tokens: RefreshBegin(p, t) \/ LogoutBegin(p, t)
         \/ \E u \in Users, s \in Sessions: RevokeBegin(p, u, s)
  PROVE  IInv'
<1> USE SessionsAssumption, AbsenceAssumption DEF IInv
<1>1. ASSUME NEW t \in Tokens, Accepted(t)
      PROVE  tokens[t].sid \in Sessions
  BY <1>1 DEF Accepted, KnownMinted, TypeOK, Claims
<1>2. ASSUME NEW t \in Tokens, RefreshBegin(p, t) PROVE IInv'
  <2> DEFINE r == [pc |-> "readRefresh", who |-> NoUser, tok |-> t,
                   sid |-> tokens[t].sid, copy |-> NoRow, replay |-> t \in spent]
  <2>1. tokens[t].sid \in Sessions
    BY <1>1, <1>2 DEF RefreshBegin
  <2>2. r \in Request /\ r.copy = NoRow /\ RequestOK(r) /\ ~Writing(r)
    <3>1. (t \in spent) \in BOOLEAN /\ r.replay = (t \in spent)
      OBVIOUS
    <3>2. r \in Request
      BY <2>1, <3>1, Zenon DEF Request
    <3>3. r.replay => r.tok \in spent
      BY <3>1
    <3>4. r.pc = "readRefresh" /\ r.sid = tokens[t].sid /\ r.copy = NoRow
      OBVIOUS
    <3> HIDE DEF r
    <3> QED
      BY <2>1, <3>2, <3>3, <3>4 DEF RequestOK, Writing, Revoking
  <2>3. Become(p, r) /\ UNCHANGED <<sessions, tokens, held, now, spent, compromised>>
    BY <1>2 DEF RefreshBegin
  <2> HIDE DEF r
  <2> QED
    BY <2>2, <2>3, ReadKeeps
<1>3. ASSUME NEW t \in Tokens, LogoutBegin(p, t) PROVE IInv'
  <2> DEFINE r == [pc |-> "readLogout", who |-> NoUser, tok |-> t,
                   sid |-> tokens[t].sid, copy |-> NoRow, replay |-> FALSE]
  <2>1. tokens[t].sid \in Sessions
    BY <1>1, <1>3 DEF LogoutBegin
  <2>2. r \in Request /\ r.copy = NoRow /\ RequestOK(r) /\ ~Writing(r)
    BY <2>1 DEF Request, RequestOK, Writing, Revoking
  <2>3. Become(p, r) /\ UNCHANGED <<sessions, tokens, held, now, spent, compromised>>
    BY <1>3 DEF LogoutBegin
  <2> HIDE DEF r
  <2> QED
    BY <2>2, <2>3, ReadKeeps
<1>4. ASSUME NEW u \in Users, NEW s \in Sessions, RevokeBegin(p, u, s) PROVE IInv'
  <2> DEFINE r == [pc |-> "readRevoke", who |-> u, tok |-> NoToken,
                   sid |-> s, copy |-> NoRow, replay |-> FALSE]
  <2>1. r \in Request /\ r.copy = NoRow /\ RequestOK(r) /\ ~Writing(r)
    BY DEF Request, RequestOK, Writing, Revoking
  <2>2. Become(p, r) /\ UNCHANGED <<sessions, tokens, held, now, spent, compromised>>
    BY <1>4 DEF RevokeBegin
  <2> HIDE DEF r
  <2> QED
    BY <2>1, <2>2, ReadKeeps
<1> QED
  BY <1>2, <1>3, <1>4

\* A request that has read its row waits with a copy of it.
LEMMA AdvanceKeeps ==
  ASSUME IInv, NEW p \in Procs, NEW pc \in {"lookup", "compromise", "revoke"},
         NEW copy \in Row, req[p].pc # "idle",
         sessions[req[p].sid] # NoRow, ~sessions[req[p].sid].revoked,
         copy.hash = sessions[req[p].sid].hash,
         copy.expires = sessions[req[p].sid].expires,
         copy.revoked = (pc # "lookup"),
         pc = "lookup" => sessions[req[p].sid].hash = req[p].tok,
         Advance(p, pc, copy),
         UNCHANGED <<sessions, tokens, held, now, spent, compromised>>
  PROVE  IInv'
<1> USE SessionsAssumption, AbsenceAssumption DEF IInv
<1> DEFINE s == req[p].sid
           r == [pc |-> pc, who |-> req[p].who, tok |-> req[p].tok,
                 sid |-> s, copy |-> copy, replay |-> req[p].replay]
<1>1. s \in Sessions /\ Bound(s, copy)
  BY DEF RequestsOK, RequestOK, TypeOK, Request, HashesBindTheirSession, Bound
<1>2. r \in Request
  BY <1>1 DEF TypeOK, Request
<1>3. r.replay => r.tok \in spent /\ pc # "lookup"
  BY <1>1 DEF RequestsOK, RequestOK, SpentTokensStayDead, Live
<1>4. RequestOK(r) /\ ~Writing(r)
  BY <1>1, <1>3 DEF RequestOK, Writing, Revoking
<1>5. r.copy.hash = sessions[s].hash /\ Become(p, r)
  BY DEF Advance
<1> HIDE DEF r
<1> QED
  BY <1>1, <1>2, <1>4, <1>5, ReadKeeps

LEMMA RevokedCopyFits ==
  ASSUME NEW row \in Row
  PROVE  /\ RevokedCopy(row) \in Row
         /\ RevokedCopy(row).hash = row.hash
         /\ RevokedCopy(row).expires = row.expires
         /\ RevokedCopy(row).revoked = TRUE
BY DEF Row, RevokedCopy

LEMMA RefreshReadKeeps ==
  ASSUME IInv, NEW p \in Procs, RefreshRead(p)
  PROVE  IInv'
<1> USE SessionsAssumption, AbsenceAssumption
<1> DEFINE row == sessions[req[p].sid]
<1>1. /\ req[p].pc = "readRefresh" /\ req[p].sid \in Sessions
      /\ row \in Row \cup {NoRow}
      /\ UNCHANGED <<sessions, tokens, held, now, spent, compromised>>
  BY DEF RefreshRead, IInv, RequestsOK, RequestOK, TypeOK, Request
<1>2. CASE Finish(p)
  BY <1>1, <1>2, FinishKeeps
<1>3. CASE row # NoRow /\ RefreshMatches(row, req[p].tok) /\ Advance(p, "lookup", row)
  <2>1. row \in Row /\ row.revoked = FALSE /\ row.hash = req[p].tok
    BY <1>1, <1>3 DEF RefreshMatches, Row
  <2> HIDE DEF row
  <2>2. row = sessions[req[p].sid]
    BY DEF row
  <2> QED
    BY <1>1, <1>3, <2>1, <2>2, AdvanceKeeps
<1>4. CASE /\ row # NoRow /\ RefreshReplayed(row, req[p].tok)
           /\ Advance(p, "compromise", RevokedCopy(row))
  BY <1>1, <1>4, RevokedCopyFits, AdvanceKeeps DEF RefreshReplayed
<1> QED
  BY <1>2, <1>3, <1>4 DEF RefreshRead

LEMMA ReadToRevokeKeeps ==
  ASSUME IInv, NEW p \in Procs, LogoutRead(p) \/ RevokeRead(p)
  PROVE  IInv'
<1> USE SessionsAssumption, AbsenceAssumption
<1> DEFINE row == sessions[req[p].sid]
<1>1. /\ req[p].pc # "idle" /\ req[p].sid \in Sessions
      /\ row \in Row \cup {NoRow}
      /\ UNCHANGED <<sessions, tokens, held, now, spent, compromised>>
  BY DEF LogoutRead, RevokeRead, ReadToRevoke, IInv, RequestsOK, RequestOK, TypeOK, Request
<1>2. \/ Finish(p)
      \/ row # NoRow /\ ~row.revoked /\ Advance(p, "revoke", RevokedCopy(row))
  BY DEF LogoutRead, RevokeRead, ReadToRevoke
<1>3. CASE Finish(p)
  BY <1>1, <1>3, FinishKeeps
<1>4. CASE row # NoRow /\ ~row.revoked /\ Advance(p, "revoke", RevokedCopy(row))
  BY <1>1, <1>4, RevokedCopyFits, AdvanceKeeps
<1> QED
  BY <1>2, <1>3, <1>4

LEMMA DeliverKeeps ==
  ASSUME IInv, NEW p \in Procs, LoginDeliver(p)
  PROVE  IInv'
<1>1. /\ held' \subseteq {t \in Tokens: tokens[t] # Unminted}
      /\ compromised' \subseteq Sessions
  BY DEF LoginDeliver, IInv, KnownMinted, TypeOK, RequestsOK, RequestOK, Bound, Request, Row
<1> QED
  BY <1>1, IdleFits, MoveRequest DEF LoginDeliver, Finish

LEMMA TickKeeps ==
  ASSUME IInv, Tick \/ UNCHANGED vars
  PROVE  IInv'
<1>1. UNCHANGED <<sessions, tokens, held, req, spent, compromised>> /\ now' \in Nat
  BY DEF Tick, vars, IInv, TypeOK
<1>2. TypeOK'
  BY <1>1 DEF IInv, TypeOK
<1>3. HashesBindTheirSession' /\ SpentTokensStayDead' /\ KnownMinted'
  BY <1>1 DEF IInv, HashesBindTheirSession, SpentTokensStayDead, KnownMinted, Live
<1>4. RequestsOK' /\ PendingIsNew' /\ CreatesDiffer'
  BY <1>1 DEF IInv, RequestsOK, RequestOK, Bound, PendingIsNew, CreatesDiffer, Writing, Revoking
<1> QED
  BY <1>2, <1>3, <1>4 DEF IInv

-------------------------------------------------------------------------------

LEMMA StepKeeps == IInv /\ [Next]_vars => IInv'
<1> SUFFICES ASSUME IInv, [Next]_vars PROVE IInv'
  OBVIOUS
<1>1. ASSUME NEW p \in Procs, Step(p) PROVE IInv'
  <2>1. CASE \E u \in Users, s \in Sessions, t \in Tokens: LoginMint(p, u, s, t)
    BY <2>1, LoginMintKeeps
  <2>2. CASE LoginCreate(p)
    BY <2>2, LoginCreateKeeps
  <2>3. CASE LoginDeliver(p)
    BY <2>3, DeliverKeeps
  <2>4. CASE \/ \E t \in Tokens: RefreshBegin(p, t) \/ LogoutBegin(p, t)
             \/ \E u \in Users, s \in Sessions: RevokeBegin(p, u, s)
    BY <2>4, BeginKeeps
  <2>5. CASE RefreshRead(p)
    BY <2>5, RefreshReadKeeps
  <2>6. CASE \E t \in Tokens: RefreshMint(p, t)
    BY <2>6, RefreshMintKeeps
  <2>7. CASE RefreshWrite(p)
    BY <2>7, UpdateKeeps DEF RefreshWrite, IInv, TypeOK
  <2>8. CASE CompromiseWrite(p)
    <3>1. compromised' \subseteq Sessions
      BY <2>8 DEF CompromiseWrite, IInv, RequestsOK, RequestOK, TypeOK, Request
    <3> QED
      BY <2>8, <3>1, UpdateKeeps DEF CompromiseWrite
  <2>9. CASE RevokeWrite(p)
    BY <2>9, UpdateKeeps DEF RevokeWrite, IInv, TypeOK
  <2>10. CASE LogoutRead(p) \/ RevokeRead(p)
    BY <2>10, ReadToRevokeKeeps
  <2>11. CASE Abort(p)
    BY <2>11, FinishKeeps DEF Abort
  <2> QED
    BY <1>1, <2>1, <2>2, <2>3, <2>4, <2>5, <2>6, <2>7, <2>8, <2>9, <2>10, <2>11 DEF Step
<1> QED
  BY <1>1, TickKeeps DEF Next

\* The inductive invariant holds in every state of every instance.
THEOREM InductiveInvariant == Spec => []IInv
BY InitIInv, StepKeeps, PTL DEF Spec

\* Type correctness: stale whole-row writes included, every row stays a row.
THEOREM TypeCorrect == Spec => []TypeOK
BY InductiveInvariant, PTL DEF IInv

\* No write, however stale, binds a session to a token of another session.
THEOREM HashesStayBound == Spec => []HashesBindTheirSession
BY InductiveInvariant, PTL DEF IInv

\* A replaced token is never current in a live session again.
THEOREM SpentTokensNeverReturn == Spec => []SpentTokensStayDead
BY InductiveInvariant, PTL DEF IInv

\* Replay detection for every request that arrives after the rotation.
THEOREM ReplayIsDetected == Spec => []ReplayNeverRotates
<1>1. IInv => ReplayNeverRotates
  BY DEF IInv, RequestsOK, RequestOK, ReplayNeverRotates
<1> QED
  BY <1>1, InductiveInvariant, PTL

-------------------------------------------------------------------------------
(* Finality of a revocation that no rotation is racing *)

\* No step but one of process p touches the request of p, and a step of p
\* touches no other.
LEMMA OneMoves ==
  ASSUME IInv, NEW p \in Procs, Step(p)
  PROVE  \A q \in Procs: q # p => req'[q] = req[q]
BY DEF IInv, TypeOK, Step, LoginMint, LoginCreate, LoginDeliver, RefreshBegin,
       RefreshRead, CompromiseWrite, RefreshMint, RefreshWrite, LogoutBegin,
       LogoutRead, RevokeBegin, RevokeRead, ReadToRevoke, RevokeWrite, Abort,
       Become, Finish, Advance

\* What a statement can do to a row: nothing, create it, or overwrite it with
\* the copy of the request that issues it.
LEMMA RowChanges ==
  ASSUME IInv, NEW p \in Procs, Step(p), NEW s \in Sessions
  PROVE  \/ sessions'[s] = sessions[s]
         \/ req[p].pc = "create" /\ req[p].sid = s /\ sessions'[s] = req[p].copy
         \/ /\ req[p].pc \in {"rotate", "compromise", "revoke"} /\ req[p].sid = s
            /\ sessions'[s] = UpdatedRow(sessions[s], req[p].copy)
<1> USE DEF IInv
<1>1. ASSUME NEW outcome \in WriteOutcomes, Update(p, outcome)
      PROVE  \/ sessions'[s] = sessions[s]
             \/ req[p].sid = s /\ sessions'[s] = UpdatedRow(sessions[s], req[p].copy)
  BY <1>1 DEF Update, TypeOK
<1>2. CASE LoginCreate(p)
  BY <1>2 DEF LoginCreate, TypeOK
<1>3. CASE RefreshWrite(p) \/ CompromiseWrite(p) \/ RevokeWrite(p)
  BY <1>1, <1>3 DEF RefreshWrite, CompromiseWrite, RevokeWrite
<1>4. CASE UNCHANGED sessions
  BY <1>4
<1> QED
  BY <1>2, <1>3, <1>4
     DEF Step, LoginMint, LoginDeliver, RefreshBegin, RefreshRead, RefreshMint,
         LogoutBegin, LogoutRead, RevokeBegin, RevokeRead, ReadToRevoke, Abort

\* A request comes to hold a rotation only by finding the session live.
LEMMA RotationsNeedLive ==
  ASSUME IInv, NEW p \in Procs, Step(p), NEW s \in Sessions,
         p \in Rotating(s)'
  PROVE  p \in Rotating(s) \/ Live(s)
<1> USE DEF IInv
<1>1. req'[p].pc \in {"lookup", "rotate"} /\ req'[p].sid = s
  BY DEF Rotating
<1>2. CASE RefreshRead(p)
  <2>1. /\ req'[p].sid = req[p].sid
        /\ sessions[req[p].sid] # NoRow /\ ~sessions[req[p].sid].revoked
    BY <1>1, <1>2 DEF RefreshRead, Advance, Finish, Become, Idle, TypeOK, RefreshMatches
  <2> QED
    BY <1>1, <2>1 DEF Live
<1>3. CASE \E t \in Tokens: RefreshMint(p, t)
  BY <1>1, <1>3 DEF RefreshMint, Advance, Become, TypeOK, Rotating
<1>4. CASE LogoutRead(p) \/ RevokeRead(p)
  BY <1>1, <1>4 DEF LogoutRead, RevokeRead, ReadToRevoke, Advance, Finish, Become, Idle, TypeOK
<1>5. CASE LoginCreate(p)
  BY <1>1, <1>5 DEF LoginCreate, Advance, Finish, Become, Idle, TypeOK
<1> QED
  BY <1>1, <1>2, <1>3, <1>4, <1>5
     DEF Step, LoginMint, LoginDeliver, RefreshBegin, RefreshWrite, CompromiseWrite,
         LogoutBegin, RevokeBegin, RevokeWrite, Abort, Finish, Become, Idle, TypeOK

\* Once no rotation of a revoked session is in flight, it stays revoked.
THEOREM SettledRevocations == Spec => SettledRevocationIsFinal
<1>1. ASSUME IInv, [Next]_vars, NEW s \in Sessions, Settled(s)
      PROVE  Settled(s)'
  <2>1. CASE Tick \/ UNCHANGED vars
    BY <1>1, <2>1 DEF Tick, vars, Settled, Rotating
  <2>2. ASSUME NEW p \in Procs, Step(p) PROVE Settled(s)'
    <3>1. sessions[s] \in Row /\ ~Live(s) /\ Rotating(s) = {}
      BY <1>1 DEF Settled, Live, IInv, TypeOK
    <3>2. Rotating(s)' = {}
      <4>1. \A q \in Procs: q # p => (q \in Rotating(s)' <=> q \in Rotating(s))
        BY <1>1, <2>2, OneMoves DEF Rotating
      <4>2. p \notin Rotating(s)'
        BY <1>1, <2>2, <3>1, RotationsNeedLive
      <4> QED
        BY <3>1, <4>1, <4>2 DEF Rotating
    <3>3. sessions'[s] # NoRow /\ sessions'[s].revoked
      <4>1. CASE sessions'[s] = sessions[s]
        BY <1>1, <4>1 DEF Settled
      <4>2. CASE req[p].pc = "create" /\ req[p].sid = s
        BY <1>1, <4>2 DEF IInv, RequestsOK, RequestOK, Settled
      <4>3. CASE /\ req[p].pc \in {"rotate", "compromise", "revoke"} /\ req[p].sid = s
                 /\ sessions'[s] = UpdatedRow(sessions[s], req[p].copy)
        <5>1. Revoking(req[p])
          BY <3>1, <4>3 DEF Rotating, Revoking
        <5>2. req[p].copy \in Row /\ req[p].copy.revoked
          BY <1>1, <5>1 DEF IInv, RequestsOK, RequestOK, TypeOK, Request
        <5>3. sessions'[s] \in Row /\ sessions'[s].revoked = req[p].copy.revoked
          BY <3>1, <4>3, <5>2 DEF UpdatedRow, Row
        <5> QED
          BY <5>2, <5>3, AbsenceAssumption
      <4> QED
        BY <1>1, <2>2, <4>1, <4>2, <4>3, RowChanges
    <3> QED
      BY <3>2, <3>3 DEF Settled
  <2> QED
    BY <1>1, <2>1, <2>2 DEF Next
<1>2. IInv /\ [Next]_vars => [\A s \in Sessions: Settled(s) => Settled(s)']_vars
  BY <1>1
<1> QED
  BY <1>2, InductiveInvariant, PTL DEF Spec, SettledRevocationIsFinal

-------------------------------------------------------------------------------
(* Who may revoke a session *)

\* A request that presented a token is about that token's session; one that
\* presented none and is about to revoke was made by the row's owner.
EntitledOK(r) ==
    /\ r.tok # NoToken => r.tok \in held /\ tokens[r.tok].sid = r.sid
    /\ r.pc = "compromise" => r.tok # NoToken
    /\ r.pc = "readLogout" => r.tok # NoToken
    /\ r.pc = "readRefresh" => r.tok # NoToken
    /\ r.pc = "revoke" /\ r.tok = NoToken => sessions[r.sid].user = r.who

Entitled == \A p \in Procs: EntitledOK(req[p])

\* Held tokens stay held, with their claims, and rows keep their owner.
LEMMA HeldAndOwnersKept ==
  ASSUME IInv, [Next]_vars
  PROVE  /\ held \subseteq held'
         /\ \A t \in held: tokens'[t] = tokens[t]
         /\ \A s \in Sessions: sessions[s] # NoRow => sessions'[s].user = sessions[s].user
<1> USE AbsenceAssumption DEF IInv
<1>1. CASE Tick \/ UNCHANGED vars
  BY <1>1 DEF Tick, vars
<1>2. ASSUME NEW p \in Procs, Step(p)
      PROVE  held \subseteq held' /\ \A t \in held: tokens'[t] = tokens[t]
  <2>1. CASE \/ \E u \in Users, s \in Sessions, t \in Tokens: LoginMint(p, u, s, t)
             \/ \E t \in Tokens: RefreshMint(p, t)
    BY <2>1 DEF LoginMint, RefreshMint, Mint, Fresh, KnownMinted, TypeOK
  <2>2. CASE held \subseteq held' /\ tokens' = tokens
    BY <2>2
  <2> QED
    BY <1>2, <2>1, <2>2
       DEF Step, LoginCreate, LoginDeliver, RefreshBegin, RefreshRead, CompromiseWrite,
           RefreshWrite, LogoutBegin, LogoutRead, RevokeBegin, RevokeRead, ReadToRevoke,
           RevokeWrite, Abort
<1>3. ASSUME NEW p \in Procs, Step(p), NEW s \in Sessions, sessions[s] # NoRow
      PROVE  sessions'[s].user = sessions[s].user
  <2>1. CASE req[p].pc = "create" /\ req[p].sid = s
    BY <1>3, <2>1 DEF RequestsOK, RequestOK
  <2>2. CASE sessions'[s] = UpdatedRow(sessions[s], req[p].copy)
    BY <1>3, <2>2 DEF UpdatedRow
  <2> QED
    BY <1>3, <2>1, <2>2, RowChanges
<1> QED
  BY <1>1, <1>2, <1>3 DEF Next

LEMMA EntitledKeeps == IInv /\ Entitled /\ [Next]_vars => Entitled'
<1> SUFFICES ASSUME IInv, Entitled, [Next]_vars PROVE Entitled'
  OBVIOUS
<1> USE SessionsAssumption, AbsenceAssumption DEF IInv
\* A request that does not move keeps its entitlement.
<1>1. ASSUME NEW q \in Procs, req'[q] = req[q] PROVE EntitledOK(req[q])'
  <2>1. req[q].pc = "revoke" => sessions[req[q].sid] # NoRow /\ req[q].sid \in Sessions
    BY DEF RequestsOK, RequestOK, TypeOK, Request
  <2> QED
    BY <1>1, <2>1, HeldAndOwnersKept DEF Entitled, EntitledOK
\* A request that moves on keeps its token, its caller and its session.
<1>2. ASSUME NEW p \in Procs, Step(p) PROVE EntitledOK(req[p])'
  <2>1. CASE req'[p] = Idle
    BY <2>1 DEF EntitledOK, Idle
  <2>2. CASE \E u \in Users, s \in Sessions, t \in Tokens: LoginMint(p, u, s, t)
    BY <2>2 DEF LoginMint, Become, TypeOK, EntitledOK
  <2>3. CASE \/ \E t \in Tokens: RefreshBegin(p, t) \/ LogoutBegin(p, t)
             \/ \E u \in Users, s \in Sessions: RevokeBegin(p, u, s)
    BY <2>3 DEF RefreshBegin, LogoutBegin, RevokeBegin, Accepted, Become, TypeOK, EntitledOK
  <2>4. ASSUME NEW pc \in {"perms", "lookup", "rotate", "compromise", "revoke"},
               NEW copy, Advance(p, pc, copy),
               pc = "compromise" => req[p].pc = "readRefresh",
               pc = "revoke" => \/ req[p].pc = "readLogout"
                                \/ /\ req[p].sid \in Sessions
                                   /\ sessions[req[p].sid] # NoRow
                                   /\ sessions[req[p].sid].user = req[p].who
        PROVE  EntitledOK(req[p])'
    <3>1. /\ req'[p].pc = pc /\ req'[p].tok = req[p].tok /\ req'[p].sid = req[p].sid
          /\ req'[p].who = req[p].who
      BY <2>4 DEF Advance, Become, TypeOK
    <3> QED
      BY <2>4, <3>1, HeldAndOwnersKept DEF Entitled, EntitledOK
  <2>5. CASE LoginCreate(p)
    BY <2>1, <2>4, <2>5 DEF LoginCreate, Finish, Become, TypeOK
  <2>6. CASE RefreshRead(p)
    <3>1. \/ Finish(p)
          \/ \E copy: Advance(p, "lookup", copy)
          \/ req[p].pc = "readRefresh" /\ \E copy: Advance(p, "compromise", copy)
      BY <2>6 DEF RefreshRead
    <3> QED
      BY <2>1, <2>4, <3>1 DEF Finish, Become, TypeOK
  <2>7. CASE \E t \in Tokens: RefreshMint(p, t)
    BY <2>4, <2>7 DEF RefreshMint
  <2>8. CASE LogoutRead(p)
    BY <2>1, <2>4, <2>8 DEF LogoutRead, ReadToRevoke, Finish, Become, TypeOK
  <2>9. CASE RevokeRead(p)
    <3>1. req[p].sid \in Sessions
      BY <2>9 DEF RevokeRead, RequestsOK, RequestOK, TypeOK, Request
    <3>2. \/ Finish(p)
          \/ /\ Owns(req[p].who, sessions[req[p].sid])
             /\ \E copy: Advance(p, "revoke", copy)
      BY <2>9 DEF RevokeRead, ReadToRevoke
    <3> QED
      BY <2>1, <2>4, <3>1, <3>2 DEF Finish, Become, TypeOK, Owns
  <2> QED
    BY <1>2, <2>1, <2>2, <2>3, <2>5, <2>6, <2>7, <2>8, <2>9
       DEF Step, LoginDeliver, CompromiseWrite, RefreshWrite, RevokeWrite, Abort,
           Finish, Become, TypeOK
<1> QED
  BY <1>1, <1>2, OneMoves DEF Entitled, Next, Tick, vars

\* Only the owner's call, or a request with one of its tokens, ends a session.
THEOREM OwnersRevoke == Spec => RevokedForOwnerOnly
<1>1. Init => Entitled
  BY DEF Init, Entitled, EntitledOK, Idle
<1>2. ASSUME IInv, Entitled, [Next]_vars, NEW s \in Sessions, Live(s), ~Live(s)'
      PROVE  \E p \in Procs:
                /\ req'[p] = Idle /\ req[p].sid = s
                /\ \/ req[p].who = sessions[s].user
                   \/ req[p].tok \in held /\ tokens[req[p].tok].sid = s
  <2>1. PICK p \in Procs: Step(p)
    BY <1>2 DEF Next, Tick, vars, Live
  <2>2. /\ req[p].pc \in {"rotate", "compromise", "revoke"} /\ req[p].sid = s
        /\ sessions'[s] = UpdatedRow(sessions[s], req[p].copy)
    BY <1>2, <2>1, RowChanges DEF Live, IInv, RequestsOK, RequestOK
  <2>3. sessions[s] \in Row /\ req[p].copy \in Row
    BY <1>2, <2>2 DEF Live, IInv, TypeOK, RequestsOK, RequestOK, Writing, Revoking, Request
  <2>4. Revoking(req[p])
    <3>1. sessions'[s] \in Row /\ sessions'[s].revoked = req[p].copy.revoked
      BY <2>2, <2>3 DEF UpdatedRow, Row
    <3> QED
      BY <1>2, <2>2, <3>1, AbsenceAssumption
         DEF Live, IInv, RequestsOK, RequestOK, Writing, Revoking
  <2>5. req'[p] = Idle
    BY <1>2, <2>1, <2>4
       DEF Step, LoginMint, LoginCreate, LoginDeliver, RefreshBegin, RefreshRead,
           CompromiseWrite, RefreshMint, RefreshWrite, LogoutBegin, LogoutRead, RevokeBegin,
           RevokeRead, RevokeWrite, Abort, Finish, Become, Revoking, IInv, TypeOK
  <2> QED
    BY <1>2, <2>2, <2>4, <2>5 DEF Entitled, EntitledOK, Revoking
<1>3. IInv /\ Entitled /\ [Next]_vars
        => [\A s \in Sessions: Live(s) /\ ~Live(s)' =>
              \E p \in Procs:
                /\ req'[p] = Idle /\ req[p].sid = s
                /\ \/ req[p].who = sessions[s].user
                   \/ req[p].tok \in held /\ tokens[req[p].tok].sid = s]_vars
  BY <1>2
<1> QED
  BY <1>1, <1>3, EntitledKeeps, InductiveInvariant, PTL DEF Spec, RevokedForOwnerOnly

-------------------------------------------------------------------------------
(* Unless a rotation overlaps, requests implement the atomic families *)

\* The requests that have read their row and are yet to write it.
InWindow(r) == r.pc \in {"lookup", "rotate", "compromise", "revoke"}

(***************************************************************************)
(* Between the read of a rotation and its write no other request is        *)
(* between its read and its write of the same session.  Rotations of other *)
(* sessions, and revocations of the same one, may overlap all they like.   *)
(***************************************************************************)
RotationsRunAlone ==
    \A p, q \in Procs:
        p # q /\ req[p].pc \in {"lookup", "rotate"} /\ InWindow(req[q])
            => req[p].sid # req[q].sid

\* What a request in its window knows of its row when no rotation overlaps.
WindowOK(r) ==
    /\ r.pc \in {"lookup", "rotate"} =>
        ~sessions[r.sid].revoked /\ sessions[r.sid].hash = r.tok
    /\ Revoking(r) => r.copy.hash = sessions[r.sid].hash

WindowInv == \A p \in Procs: WindowOK(req[p])

\* A request that is not moving: the only writes it may see are revocations,
\* and these only while it is about to revoke as well.
LEMMA WindowKeepsOthers ==
  ASSUME RotationsRunAlone, IInv, WindowInv, NEW p \in Procs, Step(p),
         NEW q \in Procs, q # p
  PROVE  WindowOK(req[q])'
<1> USE DEF IInv
<1>1. req'[q] = req[q]
  BY OneMoves
<1>2. CASE ~InWindow(req[q])
  BY <1>1, <1>2 DEF WindowOK, InWindow, Revoking
<1>3. CASE InWindow(req[q])
  <2> DEFINE s == req[q].sid
  <2>1. s \in Sessions /\ sessions[s] \in Row /\ sessions[s] # NoRow
    BY <1>3 DEF InWindow, RequestsOK, RequestOK, TypeOK, Request
  <2>2. CASE sessions'[s] = sessions[s]
    BY <1>1, <2>2 DEF WindowInv, WindowOK
  <2>3. CASE req[p].pc = "create" /\ req[p].sid = s
    BY <2>1, <2>3 DEF RequestsOK, RequestOK
  <2>4. CASE /\ req[p].pc \in {"rotate", "compromise", "revoke"} /\ req[p].sid = s
             /\ sessions'[s] = UpdatedRow(sessions[s], req[p].copy)
    <3>1. Revoking(req[p]) /\ Revoking(req[q])
      BY <1>3, <2>4 DEF RotationsRunAlone, InWindow, Revoking
    <3>2. req[p].copy.hash = sessions[s].hash /\ req[q].copy.hash = sessions[s].hash
      BY <2>4, <3>1 DEF WindowInv, WindowOK
    <3>3. sessions'[s].hash = req[p].copy.hash
      BY <2>4 DEF UpdatedRow
    <3> QED
      BY <1>1, <3>1, <3>2, <3>3 DEF WindowOK, Revoking
  <2> QED
    BY <2>1, <2>2, <2>3, <2>4, RowChanges
<1> QED
  BY <1>2, <1>3

LEMMA WindowKeepsOwn ==
  ASSUME IInv, WindowInv, NEW p \in Procs, Step(p)
  PROVE  WindowOK(req[p])'
<1> USE DEF IInv
<1>1. CASE \/ \E u \in Users, s \in Sessions, t \in Tokens: LoginMint(p, u, s, t)
           \/ \E t \in Tokens: RefreshBegin(p, t) \/ LogoutBegin(p, t)
           \/ \E u \in Users, s \in Sessions: RevokeBegin(p, u, s)
  <2>1. ~InWindow(req[p])'
    BY <1>1 DEF LoginMint, RefreshBegin, LogoutBegin, RevokeBegin, Become, TypeOK, InWindow
  <2> QED
    BY <2>1 DEF InWindow, WindowOK, Revoking
<1>2. CASE LoginCreate(p) \/ LoginDeliver(p) \/ RefreshWrite(p)
           \/ CompromiseWrite(p) \/ RevokeWrite(p) \/ Abort(p)
  <2>1. ~InWindow(req[p])'
    BY <1>2 DEF LoginCreate, LoginDeliver, RefreshWrite, CompromiseWrite, RevokeWrite,
                Abort, Finish, Advance, Become, Idle, TypeOK, InWindow
  <2> QED
    BY <2>1 DEF InWindow, WindowOK, Revoking
<1>3. CASE RefreshRead(p) \/ LogoutRead(p) \/ RevokeRead(p)
  <2> DEFINE row == sessions[req[p].sid]
  <2>1. \/ Finish(p)
        \/ ~row.revoked /\ row.hash = req[p].tok /\ Advance(p, "lookup", row)
        \/ \E pc \in {"compromise", "revoke"}: Advance(p, pc, RevokedCopy(row))
    BY <1>3 DEF RefreshRead, LogoutRead, RevokeRead, ReadToRevoke,
                RefreshMatches, RefreshReplayed, Owns
  <2>2. sessions' = sessions
    BY <1>3 DEF RefreshRead, LogoutRead, RevokeRead, ReadToRevoke
  <2>3. RevokedCopy(row).hash = row.hash
    BY DEF RevokedCopy
  <2>4. CASE Finish(p)
    BY <2>4 DEF Finish, Become, Idle, TypeOK, WindowOK, Revoking
  <2>5. CASE ~row.revoked /\ row.hash = req[p].tok /\ Advance(p, "lookup", row)
    BY <2>2, <2>5 DEF Advance, Become, TypeOK, WindowOK, Revoking
  <2>6. ASSUME NEW pc \in {"compromise", "revoke"}, Advance(p, pc, RevokedCopy(row))
        PROVE  WindowOK(req[p])'
    BY <2>2, <2>3, <2>6 DEF Advance, Become, TypeOK, WindowOK, Revoking
  <2> QED
    BY <2>1, <2>4, <2>5, <2>6
<1>4. CASE \E t \in Tokens: RefreshMint(p, t)
  BY <1>4 DEF RefreshMint, Advance, Become, TypeOK, WindowInv, WindowOK, Revoking
<1> QED
  BY <1>1, <1>2, <1>3, <1>4 DEF Step

LEMMA WindowKeeps ==
  ASSUME RotationsRunAlone, IInv, WindowInv, [Next]_vars
  PROVE  WindowInv'
<1>1. CASE Tick \/ UNCHANGED vars
  BY <1>1 DEF Tick, vars, WindowInv, WindowOK, Revoking
<1>2. ASSUME NEW p \in Procs, Step(p) PROVE WindowInv'
  BY <1>2, WindowKeepsOthers, WindowKeepsOwn DEF WindowInv
<1> QED
  BY <1>1, <1>2 DEF Next

\* A step that leaves the table alone is no step of the families.
LEMMA StutterOfFamilies ==
  ASSUME UNCHANGED <<sessions, spent>>
  PROVE  UNCHANGED <<Families, CurrentTokens>>
BY DEF Families, FamilyOf, CurrentTokens

\* The table after a write, as families.
LEMMA WriteOfFamilies ==
  ASSUME IInv, NEW s \in Sessions, NEW row \in Row,
         NEW t \in Tokens, NEW flag \in BOOLEAN, row.hash = t, row.revoked = flag,
         sessions' = [sessions EXCEPT ![s] = row],
         spent' = IF sessions[s] = NoRow \/ sessions[s].hash = t
                  THEN spent ELSE spent \cup {sessions[s].hash}
  PROVE  /\ Families' = [Families EXCEPT ![s] = [token |-> t, revoked |-> flag]]
         /\ CurrentTokens' = CurrentTokens \cup {t}
<1> USE AbsenceAssumption
<1>1. /\ sessions'[s] = row /\ row # NoRow /\ row.hash \in Tokens
      /\ \A z \in Sessions: z # s => sessions'[z] = sessions[z]
      /\ \A z \in Sessions: sessions[z] # NoRow => sessions[z].hash \in Tokens
  BY DEF IInv, TypeOK, Row
<1>2. /\ FamilyOf(s)' = [token |-> t, revoked |-> flag]
      /\ \A z \in Sessions: z # s => FamilyOf(z)' = FamilyOf(z)
  BY <1>1 DEF FamilyOf
<1>3. ASSUME NEW x \in CurrentTokens' PROVE x \in CurrentTokens \cup {t}
  BY <1>1, <1>3 DEF CurrentTokens
<1>4. ASSUME NEW x \in CurrentTokens \cup {t} PROVE x \in CurrentTokens'
  BY <1>1, <1>4 DEF CurrentTokens
<1>5. Families' = [Families EXCEPT ![s] = [token |-> t, revoked |-> flag]]
  BY <1>2 DEF Families
<1> QED
  BY <1>3, <1>4, <1>5

LEMMA StepOfFamilies ==
  ASSUME IInv, WindowInv, [Next]_vars
  PROVE  [Abstract!Next]_<<Families, CurrentTokens>>
<1> USE AbsenceAssumption DEF IInv
<1>1. CASE UNCHANGED <<sessions, spent>>
  BY <1>1, StutterOfFamilies
<1>2. ASSUME NEW p \in Procs, LoginCreate(p), sessions' # sessions
      PROVE  Abstract!Next
  <2> DEFINE s == req[p].sid
             c == req[p].copy
  <2>1. /\ req[p].pc = "create" /\ s \in Sessions /\ c \in Row /\ ~c.revoked
        /\ sessions[s] = NoRow
    BY <1>2 DEF LoginCreate, RequestsOK, RequestOK, Writing, TypeOK, Request
  <2>2. sessions' = [sessions EXCEPT ![s] = c] /\ spent' = spent
    BY <1>2 DEF LoginCreate
  <2>3. c.hash \in Tokens /\ c.hash \notin CurrentTokens /\ Families[s] = NoRow
    BY <2>1 DEF Row, CurrentTokens, PendingIsNew, Writing, Families, FamilyOf
  <2>4. c.revoked = FALSE
    BY <2>1 DEF Row
  <2>5. /\ Families' = [Families EXCEPT ![s] = [token |-> c.hash, revoked |-> FALSE]]
        /\ CurrentTokens' = CurrentTokens \cup {c.hash}
    BY <2>1, <2>2, <2>3, <2>4, WriteOfFamilies
  <2>6. Abstract!Open(s, c.hash)
    BY <2>3, <2>5, Zenon DEF Abstract!Open
  <2> QED
    BY <2>1, <2>3, <2>6 DEF Abstract!Next
<1>3. ASSUME NEW p \in Procs, NEW outcome \in WriteOutcomes, Update(p, outcome),
             req[p].pc \in {"rotate", "compromise", "revoke"},
             ~UNCHANGED <<sessions, spent>>
      PROVE  [Abstract!Next]_<<Families, CurrentTokens>>
  <2> DEFINE s == req[p].sid
             c == req[p].copy
             new == UpdatedRow(sessions[s], c)
  <2>1. /\ s \in Sessions /\ c \in Row /\ sessions[s] \in Row
        /\ sessions[s] # NoRow
    BY <1>3 DEF RequestsOK, RequestOK, Writing, Revoking, TypeOK, Request
  <2>2. new \in Row /\ new.hash = c.hash /\ new.revoked = c.revoked
    BY <2>1 DEF UpdatedRow, Row
  <2>3. /\ sessions' = [sessions EXCEPT ![s] = new]
        /\ spent' = IF sessions[s].hash = c.hash THEN spent
                    ELSE spent \cup {sessions[s].hash}
    BY <1>3 DEF Update
  <2> HIDE DEF new
  <2>4. ASSUME NEW flag \in BOOLEAN, c.revoked = flag
        PROVE  /\ Families' = [Families EXCEPT ![s] = [token |-> c.hash, revoked |-> flag]]
               /\ CurrentTokens' = CurrentTokens \cup {c.hash}
    <3>1. new.hash = c.hash /\ new.revoked = flag /\ c.hash \in Tokens
      BY <2>1, <2>2, <2>4 DEF Row
    <3>2. spent' = IF sessions[s] = NoRow \/ sessions[s].hash = c.hash
                   THEN spent ELSE spent \cup {sessions[s].hash}
      BY <2>1, <2>3
    <3>3. /\ s \in Sessions /\ new \in Row
          /\ sessions' = [sessions EXCEPT ![s] = new]
      BY <2>1, <2>2, <2>3
    <3> HIDE DEF s, c
    <3> QED
      BY <2>4, <3>1, <3>2, <3>3, WriteOfFamilies
  <2>5. /\ Families[s] = [token |-> sessions[s].hash, revoked |-> sessions[s].revoked]
        /\ Families[s] # NoRow /\ c.hash \in Tokens
        /\ sessions[s].revoked \in BOOLEAN
    <3>1. Families[s] = [token |-> sessions[s].hash, revoked |-> sessions[s].revoked]
      BY <2>1 DEF Families, FamilyOf
    <3>2. sessions[s].revoked \in BOOLEAN /\ sessions[s].hash \in Tokens /\ c.hash \in Tokens
      BY <2>1 DEF Row
    <3> QED
      BY <3>1, <3>2
  <2>6. CASE req[p].pc = "rotate"
    <3>1. c.hash \notin CurrentTokens /\ c.revoked = FALSE
      BY <2>1, <2>6 DEF CurrentTokens, PendingIsNew, Writing, RequestsOK, RequestOK, Row
    <3>2. Abstract!Rotate(s, c.hash)
      <4>1. /\ Families' = [Families EXCEPT ![s] = [token |-> c.hash, revoked |-> FALSE]]
            /\ CurrentTokens' = CurrentTokens \cup {c.hash}
        BY <2>4, <3>1
      <4>2. ~Families[s].revoked
        BY <2>5, <2>6 DEF WindowInv, WindowOK
      <4> QED
        BY <2>5, <3>1, <4>1, <4>2, Zenon DEF Abstract!Rotate
    <3> QED
      BY <2>1, <2>5, <3>2 DEF Abstract!Next
  <2>7. CASE Revoking(req[p])
    <3>1. c.hash = sessions[s].hash /\ c.revoked = TRUE /\ c.hash \in CurrentTokens
      BY <2>1, <2>7 DEF WindowInv, WindowOK, RequestsOK, RequestOK, Row, CurrentTokens
    <3>2. /\ Families' = [Families EXCEPT ![s] = [token |-> c.hash, revoked |-> TRUE]]
          /\ CurrentTokens' = CurrentTokens
      BY <2>4, <3>1
    <3>3. CASE sessions[s].revoked = FALSE
      <4>1. ~Families[s].revoked /\ Families[s].token = c.hash
        BY <2>5, <3>1, <3>3
      <4>2. Abstract!Revoke(s)
        BY <2>5, <3>2, <4>1, Zenon DEF Abstract!Revoke
      <4> QED
        BY <2>1, <4>2 DEF Abstract!Next
    <3>4. CASE sessions[s].revoked = TRUE
      <4>1. Families[s] = [token |-> c.hash, revoked |-> TRUE]
        BY <2>5, <3>1, <3>4
      <4>2. Families' = Families
        BY <3>2, <4>1 DEF Families
      <4> QED
        BY <3>2, <4>2
    <3> QED
      BY <2>5, <3>3, <3>4
  <2> QED
    BY <1>3, <2>6, <2>7 DEF Revoking
<1>4. ASSUME NEW p \in Procs, Step(p), ~UNCHANGED <<sessions, spent>>
      PROVE  [Abstract!Next]_<<Families, CurrentTokens>>
  <2>1. LoginCreate(p) \/ RefreshWrite(p) \/ CompromiseWrite(p) \/ RevokeWrite(p)
    BY <1>4 DEF Step, LoginMint, LoginDeliver, RefreshBegin, RefreshRead, RefreshMint,
                LogoutBegin, LogoutRead, RevokeBegin, RevokeRead, ReadToRevoke, Abort
  <2>2. CASE LoginCreate(p)
    BY <1>2, <1>4, <2>2 DEF LoginCreate
  <2>3. CASE RefreshWrite(p) \/ CompromiseWrite(p) \/ RevokeWrite(p)
    BY <1>3, <1>4, <2>3 DEF RefreshWrite, CompromiseWrite, RevokeWrite
  <2> QED
    BY <2>1, <2>2, <2>3
<1> QED
  BY <1>1, <1>4 DEF Next, Tick, vars

\* Unless a rotation overlaps another request between read and write, every
\* session is opened once, rotated only to tokens never used before, and revoked
\* for good, failing statements and all.
THEOREM UndisturbedRotationsImplementFamilies ==
  Spec /\ []RotationsRunAlone => ImplementsFamilies
<1>1. Init => WindowInv
  BY DEF Init, WindowInv, WindowOK, Revoking, Idle
<1>2. RotationsRunAlone /\ IInv /\ WindowInv /\ [Next]_vars => WindowInv'
  BY WindowKeeps
<1>3. Init => Abstract!Init
  BY DEF Init, Abstract!Init, Families, FamilyOf, CurrentTokens
<1>4. IInv /\ WindowInv /\ [Next]_vars
        => [Abstract!Next]_<<Families, CurrentTokens>>
  BY StepOfFamilies
<1> QED
  BY <1>1, <1>2, <1>3, <1>4, InductiveInvariant, PTL
     DEF Spec, ImplementsFamilies, Abstract!Spec

\* In particular with one request at a time.
THEOREM SerialServiceImplementsFamilies ==
  ASSUME \A p, q \in Procs: p = q
  PROVE  Spec => ImplementsFamilies
<1>1. RotationsRunAlone
  BY DEF RotationsRunAlone
<1> QED
  BY <1>1, UndisturbedRotationsImplementFamilies, PTL

-------------------------------------------------------------------------------
(* The documents' promises, where no rotation overlaps *)

LEMMA WindowInvariant == Spec /\ []RotationsRunAlone => []WindowInv
<1>1. Init => WindowInv
  BY DEF Init, WindowInv, WindowOK, Revoking, Idle
<1>2. RotationsRunAlone /\ IInv /\ WindowInv /\ [Next]_vars => WindowInv'
  BY WindowKeeps
<1> QED
  BY <1>1, <1>2, InductiveInvariant, PTL DEF Spec

LEMMA RevokedStaysRevoked ==
  ASSUME IInv, WindowInv, [Next]_vars, NEW s \in Sessions,
         sessions[s] # NoRow, sessions[s].revoked
  PROVE  sessions'[s] # NoRow /\ sessions'[s].revoked
<1>1. CASE Tick \/ UNCHANGED vars
  BY <1>1 DEF Tick, vars
<1>2. ASSUME NEW p \in Procs, Step(p) PROVE sessions'[s] # NoRow /\ sessions'[s].revoked
  <2>1. CASE sessions'[s] = sessions[s]
    BY <2>1
  <2>2. CASE req[p].pc = "create" /\ req[p].sid = s
    BY <2>2 DEF IInv, RequestsOK, RequestOK
  <2>3. CASE /\ req[p].pc \in {"rotate", "compromise", "revoke"} /\ req[p].sid = s
             /\ sessions'[s] = UpdatedRow(sessions[s], req[p].copy)
    <3>1. Revoking(req[p])
      BY <2>3 DEF WindowInv, WindowOK, Revoking
    <3>2. req[p].copy \in Row /\ req[p].copy.revoked /\ sessions[s] \in Row
      BY <3>1 DEF IInv, RequestsOK, RequestOK, TypeOK, Request
    <3>3. sessions'[s] \in Row /\ sessions'[s].revoked = req[p].copy.revoked
      BY <2>3, <3>2 DEF UpdatedRow, Row
    <3> QED
      BY <3>2, <3>3, AbsenceAssumption
  <2> QED
    BY <1>2, <2>1, <2>2, <2>3, RowChanges
<1> QED
  BY <1>1, <1>2 DEF Next

\* Unless a rotation overlaps, a revoked session stays revoked
\* (.agents/security-multitenant-guardian.md): the only writer that can clear the
\* flag is a RefreshTokenRotation that had read the row before.
THEOREM RevocationsLast == Spec /\ []RotationsRunAlone => RevocationIsPermanent
<1>1. IInv /\ WindowInv /\ [Next]_vars
        => [\A s \in Sessions:
              sessions[s] # NoRow /\ sessions[s].revoked => sessions'[s].revoked]_vars
  BY RevokedStaysRevoked
<1> QED
  BY <1>1, InductiveInvariant, WindowInvariant, PTL DEF Spec, RevocationIsPermanent

\* Unless a rotation overlaps, each one replaces the very token it was asked
\* with: no token is exchanged twice (docs/architecture.md).
THEOREM EachTokenRotatesOnce == Spec /\ []RotationsRunAlone => RotatesPresentedToken
<1>1. WindowInv => \A p \in Procs: req[p].pc = "rotate" => sessions[req[p].sid].hash = req[p].tok
  BY DEF WindowInv, WindowOK
<1>2. WindowInv /\ [Next]_vars
        => [\A p \in Procs:
              LET s == req[p].sid IN
              req[p].pc = "rotate" /\ held' # held => sessions[s].hash = req[p].tok]_vars
  BY <1>1
<1> QED
  BY <1>2, WindowInvariant, PTL DEF Spec, RotatesPresentedToken

\* Unless a rotation overlaps or the UPDATE that revokes it is lost, a session
\* reported as compromised is revoked, from then on (docs/architecture.md).
THEOREM CompromisedSessionsAreRevoked ==
  ASSUME "lost" \notin WriteOutcomes
  PROVE  Spec /\ []RotationsRunAlone => []CompromisedIsRevoked
<1> DEFINE Done == \A s \in compromised: sessions[s] # NoRow /\ sessions[s].revoked
<1>1. Init => Done
  BY DEF Init
<1>2. ASSUME IInv, WindowInv, Done, [Next]_vars PROVE Done'
  <2>1. \A s \in compromised: sessions'[s] # NoRow /\ sessions'[s].revoked
    BY <1>2, RevokedStaysRevoked DEF IInv, TypeOK
  <2>2. ASSUME NEW p \in Procs, CompromiseWrite(p)
        PROVE  sessions'[req[p].sid] # NoRow /\ sessions'[req[p].sid].revoked
    <3> DEFINE s == req[p].sid
    <3>1. PICK outcome \in WriteOutcomes: Update(p, outcome)
      BY <2>2 DEF CompromiseWrite
    <3>2. s \in Sessions /\ req[p].copy \in Row /\ req[p].copy.revoked /\ sessions[s] \in Row
      BY <1>2, <2>2 DEF CompromiseWrite, IInv, RequestsOK, RequestOK, Revoking, TypeOK, Request
    <3>3. sessions'[s] = UpdatedRow(sessions[s], req[p].copy)
      BY <1>2, <3>1, <3>2 DEF Update, IInv, TypeOK
    <3>4. sessions'[s] \in Row /\ sessions'[s].revoked = req[p].copy.revoked
      BY <3>2, <3>3 DEF UpdatedRow, Row
    <3> QED
      BY <3>2, <3>4, AbsenceAssumption
  <2>3. \/ compromised' = compromised
        \/ \E p \in Procs: CompromiseWrite(p) /\ compromised' = compromised \cup {req[p].sid}
    BY <1>2 DEF Next, Tick, vars, Step, LoginMint, LoginCreate, LoginDeliver, RefreshBegin,
                RefreshRead, CompromiseWrite, RefreshMint, RefreshWrite, LogoutBegin,
                LogoutRead, RevokeBegin, RevokeRead, ReadToRevoke, RevokeWrite, Abort
  <2> QED
    BY <2>1, <2>2, <2>3
<1>3. Done => CompromisedIsRevoked
  BY DEF CompromisedIsRevoked
<1> HIDE DEF Done
<1> QED
  BY <1>1, <1>2, <1>3, InductiveInvariant, WindowInvariant, PTL DEF Spec
===============================================================================
