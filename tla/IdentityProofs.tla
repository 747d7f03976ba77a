----------------------------- MODULE IdentityProofs -----------------------------
(***************************************************************************)
(* Proofs about Identity for any set of requests and any bounds: sessions  *)
(* against the proofs they rest on, families, and links against codes.     *)
(***************************************************************************)
EXTENDS Identity, FiniteSetTheorems, SequenceTheorems, TLAPS

-----------------------------------------------------------------------------
(* The inductive invariant *)

RowsWithinBounds == Len(sessions) <= MaxSessions /\ Len(tokens) <= MaxTokens

\* Only the deletion, which is the last step of an account, goes past MaxVersion.
VersionsWithinBounds ==
    /\ account.active => account.authVersion <= MaxVersion /\ account.version <= MaxVersion
    /\ account.password <= account.authVersion

\* A family is named after its first session.
FamiliesAreOld == \A s \in DOMAIN sessions : sessions[s].family <= s

\* No session was made since the snapshot of a deletion that can still commit.
DeletionSeesSessions ==
    deletion # None => account.active /\ deletion.sessions = Len(sessions)

\* A link that works is the latest of its purpose, and only a verification comes
\* with a code.
LinksAreLatest ==
    /\ \A t \in DOMAIN tokens : tokens[t].coded => tokens[t].purpose = "VERIFY_EMAIL"
    /\ \A t, u \in DOMAIN tokens :
         Usable(t) /\ tokens[u].purpose = tokens[t].purpose => u <= t

ResetsHaveLinks == \A r \in Requests :
    requests[r].step = "reset" => requests[r].on \in Of("RESET_PASSWORD")

SessionsInv ==
    /\ FamiliesAreOld /\ OneLivePerFamily
    /\ DeletionSeesSessions /\ SessionsAreCurrent
LinksInv ==
    /\ LinksAreLatest /\ LinkDiesWithCode
    /\ ResetsHaveLinks /\ ResetTokenWorksOnce
Inv == TypeOK /\ RowsWithinBounds /\ VersionsWithinBounds /\ SessionsInv /\ LinksInv

-----------------------------------------------------------------------------
(* Rows *)

\* Revoke keeps every session's place, family and proof.
LEMMA RevokeRows ==
    ASSUME sessions \in Seq(Session), NEW set
    PROVE  /\ Revoke(set) \in Seq(Session) /\ Len(Revoke(set)) = Len(sessions)
           /\ \A s \in 1..Len(sessions) :
                /\ Revoke(set)[s].family = sessions[s].family
                /\ Revoke(set)[s].proof = sessions[s].proof
                /\ Revoke(set)[s].status = "live" =>
                      s \notin set /\ sessions[s].status = "live"
<1> DEFINE row(s) == IF s \in set /\ sessions[s].status # "gone"
                     THEN [sessions[s] EXCEPT !.status = "revoked"] ELSE sessions[s]
           rows == [s \in 1..Len(sessions) |-> row(s)]
<1>1. DOMAIN sessions = 1..Len(sessions) /\ Len(sessions) \in Nat
  BY LenProperties
<1>2. ASSUME NEW s \in 1..Len(sessions)
      PROVE  sessions[s] \in Session /\ row(s) \in Session
  <2>1. sessions[s] \in Session
    BY ElementOfSeq
  <2> QED
    BY <2>1 DEF Session
<1>3. Revoke(set) = rows
  BY <1>1 DEF Revoke
<1>4. rows \in Seq(Session) /\ Len(rows) = Len(sessions)
  BY <1>1, <1>2
<1> QED
  BY <1>1, <1>2, <1>3, <1>4 DEF Session

\* Consume keeps every link's place, purpose, code and version.
LEMMA ConsumeRows ==
    ASSUME tokens \in Seq(Token), NEW set
    PROVE  /\ Consume(set) \in Seq(Token) /\ Len(Consume(set)) = Len(tokens)
           /\ \A t \in 1..Len(tokens) :
                /\ Consume(set)[t].purpose = tokens[t].purpose
                /\ Consume(set)[t].coded = tokens[t].coded
                /\ Consume(set)[t].status =
                      IF t \in set THEN "consumed" ELSE tokens[t].status
<1> DEFINE row(t) == IF t \in set THEN [tokens[t] EXCEPT !.status = "consumed"]
                     ELSE tokens[t]
           rows == [t \in 1..Len(tokens) |-> row(t)]
<1>1. DOMAIN tokens = 1..Len(tokens) /\ Len(tokens) \in Nat
  BY LenProperties
<1>2. ASSUME NEW t \in 1..Len(tokens)
      PROVE  tokens[t] \in Token /\ row(t) \in Token
  <2>1. tokens[t] \in Token
    BY ElementOfSeq
  <2> QED
    BY <2>1 DEF Token
<1>3. Consume(set) = rows
  BY <1>1 DEF Consume
<1>4. rows \in Seq(Token) /\ Len(rows) = Len(tokens)
  BY <1>1, <1>2
<1> QED
  BY <1>1, <1>2, <1>3, <1>4 DEF Token

\* A session or a link that ends or expires is the same row with another status.
LEMMA SessionEnds ==
    ASSUME sessions \in Seq(Session), NEW s \in DOMAIN sessions
    PROVE  LET rows == [sessions EXCEPT ![s].status = "gone"]
           IN  /\ rows \in Seq(Session) /\ Len(rows) = Len(sessions)
               /\ \A q \in 1..Len(sessions) :
                    /\ rows[q].family = sessions[q].family
                    /\ rows[q].proof = sessions[q].proof
                    /\ rows[q].status = "live" => q # s /\ sessions[q].status = "live"
<1> DEFINE row == [sessions[s] EXCEPT !.status = "gone"]
           rows == [sessions EXCEPT ![s] = row]
<1>1. sessions[s] \in Session /\ s \in 1..Len(sessions)
  BY LenProperties, ElementOfSeq
<1>2. row \in Session /\ row.status = "gone"
      /\ row.family = sessions[s].family /\ row.proof = sessions[s].proof
  BY <1>1 DEF Session
<1>3. /\ rows \in Seq(Session) /\ Len(rows) = Len(sessions)
      /\ \A q \in 1..Len(sessions) : rows[q] = IF q = s THEN row ELSE sessions[q]
  BY <1>1, <1>2, ExceptSeq
<1>4. rows = [sessions EXCEPT ![s].status = "gone"]
  OBVIOUS
<1> QED
  BY <1>2, <1>3, <1>4

\* The same for a link.
LEMMA LinkExpires ==
    ASSUME tokens \in Seq(Token), NEW t \in DOMAIN tokens
    PROVE  LET rows == [tokens EXCEPT ![t].status = "expired"]
           IN  /\ rows \in Seq(Token) /\ Len(rows) = Len(tokens)
               /\ \A u \in 1..Len(tokens) :
                    /\ rows[u].purpose = tokens[u].purpose
                    /\ rows[u].coded = tokens[u].coded
                    /\ rows[u].status = IF u = t THEN "expired" ELSE tokens[u].status
<1> DEFINE row == [tokens[t] EXCEPT !.status = "expired"]
           rows == [tokens EXCEPT ![t] = row]
<1>1. tokens[t] \in Token /\ t \in 1..Len(tokens)
  BY LenProperties, ElementOfSeq
<1>2. row \in Token /\ row.status = "expired"
      /\ row.purpose = tokens[t].purpose /\ row.coded = tokens[t].coded
  BY <1>1 DEF Token
<1>3. /\ rows \in Seq(Token) /\ Len(rows) = Len(tokens)
      /\ \A u \in 1..Len(tokens) : rows[u] = IF u = t THEN row ELSE tokens[u]
  BY <1>1, <1>2, ExceptSeq
<1>4. rows = [tokens EXCEPT ![t].status = "expired"]
  OBVIOUS
<1> QED
  BY <1>2, <1>3, <1>4

\* Appending a row keeps the others in their places.
LEMMA AppendRow ==
    ASSUME NEW S, NEW rows \in Seq(S), NEW row \in S
    PROVE  /\ Append(rows, row) \in Seq(S) /\ Len(Append(rows, row)) = Len(rows) + 1
           /\ Append(rows, row)[Len(rows) + 1] = row
           /\ \A i \in 1..Len(rows) : Append(rows, row)[i] = rows[i]
BY AppendProperties, LenProperties

-----------------------------------------------------------------------------
(* What a step does to the sessions *)

Fewer(rows) ==
    /\ rows \in Seq(Session) /\ Len(rows) = Len(sessions)
    /\ \A s \in 1..Len(sessions) :
         /\ rows[s].family = sessions[s].family
         /\ rows[s].proof = sessions[s].proof
         /\ rows[s].status = "live" => sessions[s].status = "live"

SameAuthentication ==
    account'.active = account.active /\ account'.authVersion = account.authVersion

\* Sessions that end: Logout, retention, reuse, or none at all.
LEMMA FewerSessions ==
    ASSUME TypeOK, SessionsInv, Fewer(sessions'), SameAuthentication,
           deletion' \in {deletion, None}
    PROVE  SessionsInv'
<1>1. /\ DOMAIN sessions = 1..Len(sessions) /\ Len(sessions) \in Nat
      /\ DOMAIN sessions' = 1..Len(sessions)
  BY LenProperties DEF TypeOK, Fewer
<1>2. FamiliesAreOld' /\ OneLivePerFamily'
  BY <1>1 DEF SessionsInv, FamiliesAreOld, OneLivePerFamily, Fewer
<1>3. DeletionSeesSessions'
  BY DEF SessionsInv, DeletionSeesSessions, SameAuthentication, Fewer
<1>4. SessionsAreCurrent'
  BY <1>1 DEF SessionsInv, SessionsAreCurrent, SameAuthentication, Fewer
<1> QED
  BY <1>2, <1>3, <1>4 DEF SessionsInv

\* Every session ends: a reset, a new address, the account's deletion.
LEMMA NoSessionLeft ==
    ASSUME TypeOK, SessionsInv, Fewer(sessions'), deletion' = None,
           \A s \in 1..Len(sessions) : sessions'[s].status # "live"
    PROVE  SessionsInv'
<1>1. /\ DOMAIN sessions = 1..Len(sessions) /\ Len(sessions) \in Nat
      /\ DOMAIN sessions' = 1..Len(sessions)
  BY LenProperties DEF TypeOK, Fewer
<1>2. FamiliesAreOld' /\ OneLivePerFamily' /\ SessionsAreCurrent'
  BY <1>1 DEF SessionsInv, FamiliesAreOld, OneLivePerFamily, SessionsAreCurrent, Fewer
<1> QED
  BY <1>2 DEF SessionsInv, DeletionSeesSessions

\* A session is opened on a current proof, with no live one left in its family.
LEMMA OneMoreSession ==
    ASSUME TypeOK, SessionsInv, NEW rows, Fewer(rows), NEW row \in Session,
           sessions' = Append(rows, row), deletion' = None,
           row.family <= Len(sessions) + 1,
           account'.active, row.proof = account'.authVersion,
           \A s \in 1..Len(sessions) : rows[s].status = "live" =>
              rows[s].family # row.family /\ rows[s].proof = account'.authVersion
    PROVE  SessionsInv'
<1>1. /\ DOMAIN sessions = 1..Len(sessions) /\ Len(sessions) \in Nat
      /\ rows \in Seq(Session) /\ Len(rows) = Len(sessions)
  BY LenProperties DEF TypeOK, Fewer
<1>2. /\ sessions' \in Seq(Session) /\ Len(sessions') = Len(sessions) + 1
      /\ sessions'[Len(sessions) + 1] = row
      /\ \A s \in 1..Len(sessions) : sessions'[s] = rows[s]
  BY <1>1, AppendRow
<1>3. DOMAIN sessions' = 1..Len(sessions) + 1
  BY <1>2, LenProperties
<1>4. ASSUME NEW s \in 1..Len(sessions) + 1
      PROVE  s = Len(sessions) + 1 \/ s \in 1..Len(sessions)
  BY <1>1
<1>5. FamiliesAreOld'
  BY <1>1, <1>2, <1>3, <1>4 DEF SessionsInv, FamiliesAreOld, Fewer
<1>6. OneLivePerFamily'
  BY <1>1, <1>2, <1>3, <1>4 DEF SessionsInv, OneLivePerFamily, Fewer
<1>7. SessionsAreCurrent'
  BY <1>1, <1>2, <1>3, <1>4 DEF SessionsAreCurrent
<1> QED
  BY <1>5, <1>6, <1>7 DEF SessionsInv, DeletionSeesSessions

\* CreateSession and RotateSession insert a row of the table.
LEMMA OpenedRow ==
    ASSUME TypeOK, RowsWithinBounds, Len(sessions) < MaxSessions,
           NEW family \in 1..Len(sessions) + 1, NEW proof \in 0..MaxVersion + 1
    PROVE  /\ Opened(family, proof) \in Session
           /\ Opened(family, proof).family = family
           /\ Opened(family, proof).proof = proof
<1>1. Len(sessions) \in Nat /\ MaxSessions \in Nat
  BY LimitsAreNatural, LenProperties DEF TypeOK
<1>2. family \in 1..MaxSessions
  BY <1>1
<1> QED
  BY <1>2 DEF Opened, Session

\* A step that leaves the sessions alone makes no new one.
LEMMA SameSessionsFewer == ASSUME TypeOK PROVE Fewer(sessions)
BY DEF TypeOK, Fewer

\* Revoking makes no new session, and what is revoked does not work.
LEMMA RevokedFewer ==
    ASSUME TypeOK, NEW set
    PROVE  /\ Fewer(Revoke(set))
           /\ \A s \in 1..Len(sessions) :
                Revoke(set)[s].status = "live" =>
                   s \notin set /\ sessions[s].status = "live"
BY RevokeRows DEF TypeOK, Fewer

\* Every step of the code keeps SessionsInv.
LEMMA SessionsStep ==
    ASSUME TypeOK, RowsWithinBounds, VersionsWithinBounds, SessionsInv, [Next]_vars
    PROVE  SessionsInv'
<1> USE LimitsAreNatural DEF SameAuthentication
<1>1. /\ sessions \in Seq(Session) /\ DOMAIN sessions = 1..Len(sessions)
      /\ Len(sessions) \in Nat
  BY LenProperties DEF TypeOK
<1>2. ASSUME NEW s \in DOMAIN sessions
      PROVE  sessions[s] \in Session
  BY <1>1, ElementOfSeq
<1>3. account \in Account
  BY DEF TypeOK
\* Most steps end sessions or leave them alone.
<1>4. ASSUME UNCHANGED sessions, SameAuthentication, deletion' \in {deletion, None}
      PROVE  SessionsInv'
  BY <1>4, SameSessionsFewer, FewerSessions
<1>5. ASSUME NEW s \in DOMAIN sessions, RevokeFamily(s)
      PROVE  SessionsInv'
  BY <1>5, RevokedFewer, FewerSessions DEF RevokeFamily, Overtakes
<1>6. ASSUME NEW s \in DOMAIN sessions, ExpireSession(s) \/ PruneSession(s)
      PROVE  SessionsInv'
  <2> DEFINE rows == [sessions EXCEPT ![s].status = "gone"]
  <2>1. sessions' = rows
    BY <1>6 DEF ExpireSession, PruneSession
  <2>2. Fewer(rows)
    BY <1>1, SessionEnds DEF Fewer
  <2> QED
    BY <1>6, <2>1, <2>2, FewerSessions DEF ExpireSession, PruneSession, Overtakes
<1>7. ASSUME NEW s \in DOMAIN sessions, Rotate(s)
      PROVE  SessionsInv'
  <2> DEFINE rows == Revoke({s})
             row == Opened(sessions[s].family, sessions[s].proof)
  <2>1. Fewer(rows)
        /\ \A q \in 1..Len(sessions) : rows[q].status = "live" =>
              q # s /\ sessions[q].status = "live"
    BY RevokedFewer
  <2>2. /\ sessions[s].family \in 1..Len(sessions) + 1
        /\ sessions[s].proof \in 0..MaxVersion + 1
    BY <1>1, <1>2 DEF SessionsInv, FamiliesAreOld, Session
  <2>3. row \in Session /\ row.family = sessions[s].family /\ row.proof = sessions[s].proof
    BY <1>7, <2>2, OpenedRow DEF Rotate, RoomForSession
  <2>4. sessions[s].proof = account.authVersion /\ account.active
        /\ sessions[s].status = "live"
    BY <1>7 DEF Rotate, SessionsInv, SessionsAreCurrent
  <2>5. \A q \in 1..Len(sessions) : rows[q].status = "live" =>
           rows[q].family # row.family /\ rows[q].proof = account'.authVersion
    BY <1>1, <1>7, <2>1, <2>3, <2>4
       DEF Fewer, Rotate, SessionsInv, SessionsAreCurrent, OneLivePerFamily
  <2>6. /\ sessions' = Append(rows, row) /\ deletion' = None
        /\ account'.active /\ row.proof = account'.authVersion
        /\ row.family <= Len(sessions) + 1
    BY <1>1, <1>7, <2>2, <2>3, <2>4 DEF Rotate, Overtakes
  <2> HIDE DEF rows, row
  <2> QED
    BY <2>1, <2>3, <2>5, <2>6, OneMoreSession
<1>8. ASSUME NEW r \in Requests, CreateSession(r)
      PROVE  SessionsInv'
  <2> DEFINE family == Len(sessions) + 1
             row == Opened(family, requests[r].version)
  <2>1. requests[r].version \in 0..MaxVersion + 1
    BY DEF TypeOK, Request
  <2>2. row \in Session /\ row.family = family /\ row.proof = requests[r].version
    BY <1>1, <1>8, <2>1, OpenedRow DEF CreateSession, RoomForSession
  <2>3. Fewer(sessions)
    BY SameSessionsFewer
  <2>4. \A q \in 1..Len(sessions) : sessions[q].status = "live" =>
           sessions[q].family # row.family /\ sessions[q].proof = account'.authVersion
    <3>1. ASSUME NEW q \in 1..Len(sessions)
          PROVE  sessions[q].family # row.family
      <4>1. sessions[q].family \in 1..MaxSessions /\ MaxSessions \in Nat
        BY <1>1, <1>2 DEF Session
      <4>2. sessions[q].family <= q
        BY <1>1 DEF SessionsInv, FamiliesAreOld
      <4> QED
        BY <1>1, <2>2, <4>1, <4>2
    <3> QED
      BY <1>1, <1>8, <3>1 DEF CreateSession, SessionsInv, SessionsAreCurrent
  <2>5. /\ sessions' = Append(sessions, row) /\ deletion' = None
        /\ account'.active /\ row.proof = account'.authVersion
        /\ row.family <= Len(sessions) + 1
    BY <1>1, <1>8, <2>2 DEF CreateSession, Overtakes
  <2> HIDE DEF row
  <2> QED
    BY <2>2, <2>3, <2>4, <2>5, OneMoreSession
<1>9. ASSUME NEW r \in Requests, RenewAuthentication(r)
      PROVE  SessionsInv'
  <2> DEFINE rows == Revoke(DOMAIN sessions)
             family == Len(sessions) + 1
             row == Opened(family, account.authVersion + 1)
  <2>1. account.authVersion + 1 \in 0..MaxVersion + 1
    BY <1>3, <1>9 DEF RenewAuthentication, Account
  <2>2. row \in Session /\ row.family = family /\ row.proof = account.authVersion + 1
    <3>1. family \in 1..Len(sessions) + 1
      BY <1>1
    <3> QED
      BY <1>9, <2>1, <3>1, OpenedRow DEF RenewAuthentication, RoomForSession
  <2>3. Fewer(rows) /\ \A q \in 1..Len(sessions) : rows[q].status # "live"
    BY <1>1, RevokedFewer
  <2>4. account'.active /\ account'.authVersion = account.authVersion + 1
    BY <1>3, <1>9 DEF RenewAuthentication, Account
  <2>5. /\ sessions' = Append(rows, row) /\ deletion' = None
        /\ row.proof = account'.authVersion /\ row.family <= Len(sessions) + 1
    BY <1>1, <1>9, <2>2, <2>4 DEF RenewAuthentication, Overtakes
  <2> HIDE DEF rows, row
  <2> QED
    BY <2>2, <2>3, <2>4, <2>5, OneMoreSession
\* A reset, a new address and a deletion leave none.
<1>10. ASSUME NEW set, sessions' = Revoke(set), 1..Len(sessions) \subseteq set,
              deletion' = None
       PROVE  SessionsInv'
  BY <1>10, RevokedFewer, NoSessionLeft
<1>11. ASSUME NEW r \in Requests, ResetPassword(r)
       PROVE  SessionsInv'
  BY <1>1, <1>10, <1>11 DEF ResetPassword, Overtakes
<1>12. ASSUME NEW t \in DOMAIN tokens, ConfirmEmailChange(t)
       PROVE  SessionsInv'
  BY <1>1, <1>10, <1>12 DEF ConfirmEmailChange, Overtakes
<1>13. CASE CommitDeletion
  BY <1>1, <1>10, <1>13 DEF CommitDeletion, SessionsInv, DeletionSeesSessions
<1>14. CASE BeginDeletion
  BY <1>14, <1>1 DEF BeginDeletion, SessionsInv, DeletionSeesSessions,
     SessionsAreCurrent, OneLivePerFamily, FamiliesAreOld
<1>15. CASE Sessions
  BY <1>15, <1>5, <1>6, <1>7 DEF Sessions, Refresh, RotateUsed, RevokeSession
<1>16. CASE Links
  <2>1. ASSUME EnqueueVerification \/ EnqueueVerificationCode \/ EnqueuePasswordReset
               \/ EnqueueEmailChange
        PROVE  SessionsInv'
    BY <2>1, <1>4 DEF EnqueueVerification, EnqueueVerificationCode,
       EnqueuePasswordReset, EnqueueEmailChange, Enqueue, Overtakes
  <2>2. CASE WrongCode
    BY <2>2, <1>4 DEF WrongCode, Overtakes
  <2>3. ASSUME NEW t \in DOMAIN tokens, ExpireToken(t)
        PROVE  SessionsInv'
    BY <2>3, <1>4 DEF ExpireToken
  <2>4. ASSUME NEW t \in DOMAIN tokens, VerifyEmail(t)
        PROVE  SessionsInv'
    BY <2>4, <1>3, <1>4 DEF VerifyEmail, Overtakes, Account
  <2> QED
    BY <1>12, <1>16, <2>1, <2>2, <2>3, <2>4 DEF Links
<1>17. CASE Calls
  <2>1. ASSUME NEW r \in Requests, Login(r) \/ LoginGoogle(r) \/ Stop(r)
        PROVE  SessionsInv'
    BY <2>1, <1>4 DEF Login, LoginGoogle, Stop
  <2>2. ASSUME NEW r \in Requests, NEW s \in DOMAIN sessions, NEW link \in BOOLEAN,
               Reauthenticate(r, s, link)
        PROVE  SessionsInv'
    BY <2>2, <1>4 DEF Reauthenticate
  <2>3. ASSUME NEW r \in Requests, NEW t \in DOMAIN tokens, ValidatePasswordReset(r, t)
        PROVE  SessionsInv'
    BY <2>3, <1>4 DEF ValidatePasswordReset
  <2>4. ASSUME NEW r \in Requests, ConfirmVerificationCode(r)
        PROVE  SessionsInv'
    BY <2>4, <1>3, <1>4 DEF ConfirmVerificationCode, Overtakes, Account
  <2> QED
    BY <1>8, <1>9, <1>11, <1>17, <2>1, <2>2, <2>3, <2>4 DEF Calls
<1>18. CASE UpdateAccount
  BY <1>18, <1>3, <1>4 DEF UpdateAccount, Overtakes, Account
<1>19. CASE UNCHANGED vars
  BY <1>19, <1>4 DEF vars
<1> QED
  BY <1>13, <1>14, <1>15, <1>16, <1>17, <1>18, <1>19 DEF Next

-----------------------------------------------------------------------------
(* What a step does to the links *)

\* Links keep their purpose, and what was consumed or expired stays so.
Aged(rows) ==
    /\ rows \in Seq(Token) /\ Len(tokens) <= Len(rows)
    /\ \A t \in 1..Len(tokens) :
         /\ rows[t].purpose = tokens[t].purpose
         /\ rows[t].coded = tokens[t].coded
         /\ tokens[t].status = "consumed" => rows[t].status = "consumed"
         /\ rows[t].status = "live" => tokens[t].status = "live"

SameLinks(rows) == Aged(rows) /\ Len(rows) = Len(tokens)

NoVerificationLeft(rows) == \A t \in 1..Len(tokens) :
    rows[t].purpose = "VERIFY_EMAIL" => rows[t].status # "live"

VerificationInv == LinksAreLatest /\ LinkDiesWithCode

\* A step that leaves the links alone ages them.
LEMMA SameTokensAged == ASSUME TypeOK PROVE SameLinks(tokens)
BY LenProperties DEF TypeOK, SameLinks, Aged

\* Consuming ages links, and what is consumed stays so.
LEMMA ConsumedAged ==
    ASSUME TypeOK, NEW set
    PROVE  /\ SameLinks(Consume(set))
           /\ \A t \in 1..Len(tokens) : t \in set => Consume(set)[t].status = "consumed"
<1>1. tokens \in Seq(Token) /\ Len(tokens) \in Nat
  BY LenProperties DEF TypeOK
<1> QED
  BY <1>1, ConsumeRows DEF SameLinks, Aged

\* Expiring a link that works ages it.
LEMMA ExpiredAged ==
    ASSUME TypeOK, NEW t \in DOMAIN tokens, tokens[t].status = "live"
    PROVE  /\ SameLinks([tokens EXCEPT ![t].status = "expired"])
           /\ [tokens EXCEPT ![t].status = "expired"][t].status = "expired"
<1> DEFINE rows == [tokens EXCEPT ![t].status = "expired"]
<1>1. tokens \in Seq(Token) /\ DOMAIN tokens = 1..Len(tokens) /\ Len(tokens) \in Nat
  BY LenProperties DEF TypeOK
<1>2. /\ rows \in Seq(Token) /\ Len(rows) = Len(tokens)
      /\ \A u \in 1..Len(tokens) :
           /\ rows[u].purpose = tokens[u].purpose
           /\ rows[u].coded = tokens[u].coded
           /\ rows[u].status = IF u = t THEN "expired" ELSE tokens[u].status
  BY <1>1, LinkExpires
<1> HIDE DEF rows
<1>3. SameLinks(rows) /\ rows[t].status = "expired"
  BY <1>1, <1>2 DEF SameLinks, Aged
<1> QED
  BY <1>3 DEF rows

\* Links that end, and a code that stays.
LEMMA FewerLinks ==
    ASSUME TypeOK, VerificationInv, SameLinks(tokens'),
           UNCHANGED code \/ NoVerificationLeft(tokens')
    PROVE  VerificationInv'
<1>1. /\ DOMAIN tokens = 1..Len(tokens) /\ DOMAIN tokens' = 1..Len(tokens)
  BY LenProperties DEF TypeOK, SameLinks, Aged
<1>2. LinksAreLatest'
  BY <1>1 DEF VerificationInv, LinksAreLatest, SameLinks, Aged, Of, Usable
<1>3. LinkDiesWithCode'
  BY <1>1 DEF VerificationInv, LinkDiesWithCode, SameLinks, Aged, Of, Usable,
     NoVerificationLeft
<1> QED
  BY <1>2, <1>3 DEF VerificationInv

\* A new link makes the others of its purpose void.
LEMMA NewLink ==
    ASSUME TypeOK, NEW link \in Token, Enqueue(link)
    PROVE  /\ Aged(tokens') /\ Len(tokens') = Len(tokens) + 1
           /\ tokens'[Len(tokens) + 1] = link
           /\ \A t \in 1..Len(tokens) :
                tokens'[t].purpose = link.purpose => tokens'[t].status = "consumed"
<1> DEFINE rows == Consume(Superseded(link.purpose))
<1>1. tokens \in Seq(Token) /\ DOMAIN tokens = 1..Len(tokens) /\ Len(tokens) \in Nat
  BY LenProperties DEF TypeOK
<1>2. /\ SameLinks(rows)
      /\ \A t \in 1..Len(tokens) :
           t \in Superseded(link.purpose) => rows[t].status = "consumed"
  BY ConsumedAged
<1>3. \A t \in 1..Len(tokens) :
         rows[t].purpose = link.purpose => rows[t].status = "consumed"
  BY <1>1, <1>2 DEF SameLinks, Aged, Superseded, Unconsumed, Of
<1>4. tokens' = Append(rows, link)
  BY DEF Enqueue
<1> HIDE DEF rows
<1>5. /\ tokens' \in Seq(Token) /\ Len(tokens') = Len(tokens) + 1
      /\ tokens'[Len(tokens) + 1] = link
      /\ \A t \in 1..Len(tokens) : tokens'[t] = rows[t]
  BY <1>2, <1>4, AppendRow DEF SameLinks, Aged
<1> QED
  BY <1>1, <1>2, <1>3, <1>5 DEF SameLinks, Aged

\* A new link is the only one of its purpose, and comes with its code.
LEMMA OneMoreLink ==
    ASSUME TypeOK, VerificationInv, NEW link \in Token, Enqueue(link),
           IF link.purpose = "VERIFY_EMAIL"
           THEN IF link.coded THEN code'.live /\ code'.attempts < MaxAttempts
                ELSE ~code'.live
           ELSE UNCHANGED code /\ ~link.coded
    PROVE  VerificationInv'
<1>1. DOMAIN tokens = 1..Len(tokens) /\ Len(tokens) \in Nat
  BY LenProperties DEF TypeOK
<1>2. /\ Aged(tokens') /\ Len(tokens') = Len(tokens) + 1
      /\ tokens'[Len(tokens) + 1] = link
      /\ \A t \in 1..Len(tokens) :
           tokens'[t].purpose = link.purpose => tokens'[t].status = "consumed"
  BY NewLink
<1>3. DOMAIN tokens' = 1..Len(tokens) + 1
  BY <1>2, LenProperties DEF Aged
<1>4. ASSUME NEW t \in 1..Len(tokens) + 1
      PROVE  t = Len(tokens) + 1 \/ t \in 1..Len(tokens)
  BY <1>1
<1>5. LinksAreLatest'
  BY <1>1, <1>2, <1>3, <1>4
     DEF VerificationInv, LinksAreLatest, Aged, Of, Usable
<1>6. LinkDiesWithCode'
  BY <1>1, <1>2, <1>3, <1>4 DEF VerificationInv, LinkDiesWithCode, Aged, Of, Usable
<1> QED
  BY <1>5, <1>6 DEF VerificationInv

\* What Enqueue writes is a row of the table.
LEMMA LinkRow ==
    ASSUME NEW purpose \in Purpose, NEW coded \in BOOLEAN, NEW version \in 0..MaxVersion + 1
    PROVE  /\ Link(purpose, coded, version) \in Token
           /\ Link(purpose, coded, version).purpose = purpose
           /\ Link(purpose, coded, version).coded = coded
BY DEF Link, Token

\* Every step leaves a link's row what it was, or nearer its end; and a code and
\* its link end together.
LEMMA LinksStep ==
    ASSUME TypeOK, VerificationInv, [Next]_vars
    PROVE  VerificationInv' /\ Aged(tokens')
<1> USE LimitsAreNatural
<1>1. /\ tokens \in Seq(Token) /\ DOMAIN tokens = 1..Len(tokens)
      /\ Len(tokens) \in Nat
  BY LenProperties DEF TypeOK
<1>2. ASSUME NEW t \in DOMAIN tokens
      PROVE  tokens[t] \in Token
  BY <1>1, ElementOfSeq
<1>3. account \in Account /\ code \in Code
  BY DEF TypeOK
<1>0. 0 \in 0..MaxVersion + 1 /\ MaxAttempts \in Nat
  OBVIOUS
\* Many steps touch no link.
<1>4. ASSUME UNCHANGED <<tokens, code>>
      PROVE  VerificationInv' /\ Aged(tokens')
  BY <1>4, SameTokensAged, FewerLinks DEF SameLinks
<1>5. ASSUME NEW set, tokens' = Consume(set),
             UNCHANGED code \/ Unconsumed("VERIFY_EMAIL") \subseteq set
      PROVE  VerificationInv' /\ Aged(tokens')
  <2>1. /\ SameLinks(tokens')
        /\ \A t \in 1..Len(tokens) : t \in set => tokens'[t].status = "consumed"
    BY <1>5, ConsumedAged
  <2>2. UNCHANGED code \/ NoVerificationLeft(tokens')
    BY <1>1, <1>5, <2>1 DEF NoVerificationLeft, Unconsumed, Of, SameLinks, Aged
  <2> QED
    BY <2>1, <2>2, FewerLinks DEF SameLinks
<1>6. ASSUME NEW link \in Token, Enqueue(link),
             IF link.purpose = "VERIFY_EMAIL"
             THEN IF link.coded THEN code'.live /\ code'.attempts < MaxAttempts
                  ELSE ~code'.live
             ELSE UNCHANGED code /\ ~link.coded
      PROVE  VerificationInv' /\ Aged(tokens')
  BY <1>6, NewLink, OneMoreLink
<1>7. CASE EnqueueVerification
  <2>1. ~code'.live
    BY <1>3, <1>7 DEF EnqueueVerification, Code
  <2>2. Link("VERIFY_EMAIL", FALSE, 0) \in Token
        /\ Link("VERIFY_EMAIL", FALSE, 0).purpose = "VERIFY_EMAIL"
        /\ ~Link("VERIFY_EMAIL", FALSE, 0).coded
    BY <1>0, LinkRow DEF Purpose
  <2> QED
    BY <1>6, <1>7, <2>1, <2>2 DEF EnqueueVerification
<1>8. CASE EnqueueVerificationCode
  <2>1. code'.live /\ code'.attempts < MaxAttempts
    BY <1>3, <1>8 DEF EnqueueVerificationCode, Code
  <2>2. Link("VERIFY_EMAIL", TRUE, 0) \in Token
        /\ Link("VERIFY_EMAIL", TRUE, 0).purpose = "VERIFY_EMAIL"
        /\ Link("VERIFY_EMAIL", TRUE, 0).coded
    BY <1>0, LinkRow DEF Purpose
  <2> QED
    BY <1>6, <1>8, <2>1, <2>2 DEF EnqueueVerificationCode
<1>9. CASE EnqueuePasswordReset
  <2>1. Link("RESET_PASSWORD", FALSE, 0) \in Token
        /\ Link("RESET_PASSWORD", FALSE, 0).purpose = "RESET_PASSWORD"
        /\ ~Link("RESET_PASSWORD", FALSE, 0).coded
    BY <1>0, LinkRow DEF Purpose
  <2> QED
    BY <1>6, <1>9, <2>1 DEF EnqueuePasswordReset
<1>10. CASE EnqueueEmailChange
  <2>1. account.version \in 0..MaxVersion + 1
    BY <1>3 DEF Account
  <2>2. Link("CHANGE_EMAIL", FALSE, account.version) \in Token
        /\ Link("CHANGE_EMAIL", FALSE, account.version).purpose = "CHANGE_EMAIL"
        /\ ~Link("CHANGE_EMAIL", FALSE, account.version).coded
    BY <2>1, LinkRow DEF Purpose
  <2> QED
    BY <1>6, <1>10, <2>2 DEF EnqueueEmailChange
<1>11. CASE WrongCode
  <2>1. ASSUME LastWrongCode(code.attempts)
        PROVE  VerificationInv' /\ Aged(tokens')
    BY <1>5, <1>11, <2>1 DEF WrongCode
  <2>2. ASSUME ~LastWrongCode(code.attempts)
        PROVE  VerificationInv' /\ Aged(tokens')
    <3>1. /\ code'.live = code.live /\ code.live
          /\ code'.attempts < MaxAttempts
      <4>1. /\ code'.live = code.live /\ code.live
            /\ code.attempts < MaxAttempts /\ code'.attempts = code.attempts + 1
        BY <1>3, <1>11 DEF WrongCode, Guessable, Code
      <4>2. code.attempts \in Nat /\ code.attempts # MaxAttempts - 1
        BY <1>3, <2>2 DEF LastWrongCode, Code
      <4> QED
        BY <1>0, <4>1, <4>2
    <3>2. UNCHANGED tokens
      BY <1>11, <2>2 DEF WrongCode
    <3>3. SameLinks(tokens')
      BY <3>2, SameTokensAged
    <3>4. VerificationInv'
      BY <3>1, <3>2 DEF VerificationInv, LinksAreLatest, LinkDiesWithCode, Of, Usable
    <3> QED
      BY <3>3, <3>4 DEF SameLinks
  <2> QED
    BY <2>1, <2>2
\* The only link of a verification that works ends here, its code with it.
<1>12. ASSUME NEW t \in DOMAIN tokens, Usable(t), SameLinks(tokens'),
              tokens'[t].status # "live", UNCHANGED code \/ tokens[t].purpose = "VERIFY_EMAIL"
       PROVE  VerificationInv' /\ Aged(tokens')
  <2>1. UNCHANGED code \/ NoVerificationLeft(tokens')
    BY <1>1, <1>12 DEF NoVerificationLeft, VerificationInv, LinksAreLatest, Of,
       Usable, SameLinks, Aged
  <2> QED
    BY <1>12, <2>1, FewerLinks DEF SameLinks
<1>13. ASSUME NEW t \in DOMAIN tokens, ExpireToken(t)
       PROVE  VerificationInv' /\ Aged(tokens')
  <2>1. Usable(t) /\ tokens' = [tokens EXCEPT ![t].status = "expired"]
    BY <1>13 DEF ExpireToken
  <2>2. SameLinks(tokens') /\ tokens'[t].status # "live"
    BY <2>1, ExpiredAged DEF Usable
  <2>3. UNCHANGED code \/ tokens[t].purpose = "VERIFY_EMAIL"
    BY <1>13 DEF ExpireToken, VerificationInv, LinksAreLatest
  <2> QED
    BY <1>12, <2>1, <2>2, <2>3
<1>14. ASSUME NEW t \in DOMAIN tokens, VerifyEmail(t)
       PROVE  VerificationInv' /\ Aged(tokens')
  <2>1. Usable(t) /\ tokens' = Consume({t}) /\ tokens[t].purpose = "VERIFY_EMAIL"
    BY <1>14 DEF VerifyEmail
  <2>2. SameLinks(tokens') /\ tokens'[t].status # "live"
    BY <1>1, <2>1, ConsumedAged
  <2> QED
    BY <1>12, <2>1, <2>2
<1>15. ASSUME NEW t \in DOMAIN tokens, ConfirmEmailChange(t)
       PROVE  VerificationInv' /\ Aged(tokens')
  BY <1>5, <1>15 DEF ConfirmEmailChange
<1>16. CASE Sessions
  BY <1>4, <1>16 DEF Sessions, Refresh, Rotate, RotateUsed, RevokeSession, RevokeFamily,
     ExpireSession, PruneSession
<1>17. CASE Links
  BY <1>7, <1>8, <1>9, <1>10, <1>11, <1>13, <1>14, <1>15, <1>17 DEF Links
<1>18. CASE Calls
  <2>1. ASSUME NEW r \in Requests,
               Login(r) \/ LoginGoogle(r) \/ CreateSession(r) \/ Stop(r)
        PROVE  VerificationInv' /\ Aged(tokens')
    BY <1>4, <2>1 DEF Login, LoginGoogle, CreateSession, Stop
  <2>2. ASSUME NEW r \in Requests, RenewAuthentication(r)
        PROVE  VerificationInv' /\ Aged(tokens')
    <3>1. UNCHANGED tokens \/ tokens' = Consume(DOMAIN tokens)
      BY <2>2 DEF RenewAuthentication
    <3>2. UNCHANGED code
      BY <2>2 DEF RenewAuthentication
    <3> QED
      BY <1>4, <1>5, <3>1, <3>2
  <2>3. ASSUME NEW r \in Requests, ResetPassword(r)
        PROVE  VerificationInv' /\ Aged(tokens')
    BY <1>5, <2>3 DEF ResetPassword
  <2>4. ASSUME NEW r \in Requests, ConfirmVerificationCode(r)
        PROVE  VerificationInv' /\ Aged(tokens')
    BY <1>5, <2>4 DEF ConfirmVerificationCode
  <2>5. ASSUME NEW r \in Requests, NEW s \in DOMAIN sessions, NEW link \in BOOLEAN,
               Reauthenticate(r, s, link)
        PROVE  VerificationInv' /\ Aged(tokens')
    BY <1>4, <2>5 DEF Reauthenticate
  <2>6. ASSUME NEW r \in Requests, NEW t \in DOMAIN tokens, ValidatePasswordReset(r, t)
        PROVE  VerificationInv' /\ Aged(tokens')
    BY <1>4, <2>6 DEF ValidatePasswordReset
  <2> QED
    BY <1>18, <2>1, <2>2, <2>3, <2>4, <2>5, <2>6 DEF Calls
<1>19. CASE UpdateAccount \/ BeginDeletion
  BY <1>4, <1>19 DEF UpdateAccount, BeginDeletion
<1>20. CASE CommitDeletion
  BY <1>5, <1>20 DEF CommitDeletion
<1>21. CASE UNCHANGED vars
  BY <1>4, <1>21 DEF vars
<1> QED
  BY <1>16, <1>17, <1>18, <1>19, <1>20, <1>21 DEF Next

-----------------------------------------------------------------------------
(* Password resets *)

UsedResets == {t \in Of("RESET_PASSWORD") : tokens[t].status = "consumed"}

\* Reset links that were used stay used.
LEMMA UsedResetsGrow ==
    ASSUME TypeOK, Aged(tokens')
    PROVE  /\ UsedResets \subseteq UsedResets' /\ IsFiniteSet(UsedResets')
           /\ Cardinality(UsedResets) \in Nat /\ Cardinality(UsedResets') \in Nat
           /\ Cardinality(UsedResets) <= Cardinality(UsedResets')
           /\ UsedResets # UsedResets' => Cardinality(UsedResets) < Cardinality(UsedResets')
<1>1. /\ DOMAIN tokens = 1..Len(tokens) /\ Len(tokens) \in Nat
      /\ DOMAIN tokens' = 1..Len(tokens') /\ Len(tokens') \in Nat
  BY LenProperties DEF TypeOK, Aged
<1>2. UsedResets \subseteq UsedResets'
  BY <1>1 DEF UsedResets, Of, Aged
<1>3. UsedResets' \subseteq 1..Len(tokens')
  BY <1>1 DEF UsedResets, Of
<1>4. IsFiniteSet(UsedResets')
  <2>1. IsFiniteSet(1..Len(tokens'))
    BY <1>1, FS_Interval
  <2> QED
    BY <1>3, <2>1, FS_Subset
<1>5. IsFiniteSet(UsedResets)
  BY <1>2, <1>4, FS_Subset
<1> QED
  BY <1>2, <1>4, <1>5, FS_Subset, FS_CardinalityType

\* A reset in progress has read a link, and a reset changes the password only
\* by using its link up.
LEMMA ResetsStep ==
    ASSUME TypeOK, VerificationInv, ResetsHaveLinks, ResetTokenWorksOnce, [Next]_vars
    PROVE  ResetsHaveLinks' /\ ResetTokenWorksOnce'
<1>1. Aged(tokens')
  BY LinksStep
<1>2. /\ DOMAIN tokens = 1..Len(tokens) /\ Len(tokens) \in Nat
      /\ DOMAIN tokens' = 1..Len(tokens')
  BY <1>1, LenProperties DEF TypeOK, Aged
<1>3. account \in Account /\ requests \in [Requests -> Request]
  BY DEF TypeOK
<1>4. Of("RESET_PASSWORD") \subseteq Of("RESET_PASSWORD")'
  BY <1>1, <1>2 DEF Of, Aged
<1>5. /\ ResetTokenWorksOnce <=> account.password <= Cardinality(UsedResets)
      /\ ResetTokenWorksOnce' <=> account'.password <= Cardinality(UsedResets')
  BY DEF ResetTokenWorksOnce, UsedResets
<1>6. ASSUME account'.password = account.password
      PROVE  ResetTokenWorksOnce'
  BY <1>1, <1>3, <1>5, <1>6, UsedResetsGrow DEF Account
<1>7. ASSUME UNCHANGED requests
      PROVE  ResetsHaveLinks'
  BY <1>4, <1>7 DEF ResetsHaveLinks
<1>8. ASSUME NEW r \in Requests, NEW request, Goes(r, request),
             request.step = "reset" => request.on \in Of("RESET_PASSWORD")
      PROVE  ResetsHaveLinks'
  BY <1>3, <1>4, <1>8 DEF ResetsHaveLinks, Goes
<1>9. CASE Sessions
  BY <1>6, <1>7, <1>9 DEF Sessions, Refresh, Rotate, RotateUsed, RevokeSession,
     RevokeFamily, ExpireSession, PruneSession
<1>10. CASE Links
  <2>1. UNCHANGED requests
    BY <1>10 DEF Links, EnqueueVerification, EnqueueVerificationCode,
       EnqueuePasswordReset, EnqueueEmailChange, WrongCode, ExpireToken, VerifyEmail,
       ConfirmEmailChange
  <2>2. account'.password = account.password
    BY <1>3, <1>10 DEF Links, EnqueueVerification, EnqueueVerificationCode,
       EnqueuePasswordReset, EnqueueEmailChange, WrongCode, ExpireToken, VerifyEmail,
       ConfirmEmailChange, Account
  <2> QED
    BY <1>6, <1>7, <2>1, <2>2
<1>11. CASE Calls
  <2>1. ASSUME NEW r \in Requests, Login(r) \/ LoginGoogle(r)
        PROVE  ResetsHaveLinks' /\ ResetTokenWorksOnce'
    <3>1. [NoRequest EXCEPT !.step = "login", !.version = account.authVersion].step # "reset"
      BY DEF NoRequest
    <3> QED
      BY <1>6, <1>8, <2>1, <3>1 DEF Login, LoginGoogle
  <2>2. ASSUME NEW r \in Requests, CreateSession(r) \/ Stop(r) \/ RenewAuthentication(r)
        PROVE  ResetsHaveLinks' /\ ResetTokenWorksOnce'
    <3>1. NoRequest.step # "reset"
      BY DEF NoRequest
    <3>2. account'.password = account.password
      BY <1>3, <2>2 DEF CreateSession, Stop, RenewAuthentication, Account
    <3> QED
      BY <1>6, <1>8, <2>2, <3>1, <3>2 DEF CreateSession, Stop, RenewAuthentication, Ends
  <2>3. ASSUME NEW r \in Requests, NEW s \in DOMAIN sessions, NEW link \in BOOLEAN,
               Reauthenticate(r, s, link)
        PROVE  ResetsHaveLinks' /\ ResetTokenWorksOnce'
    BY <1>6, <1>8, <2>3 DEF Reauthenticate
  <2>4. ASSUME NEW r \in Requests, NEW t \in DOMAIN tokens, ValidatePasswordReset(r, t)
        PROVE  ResetsHaveLinks' /\ ResetTokenWorksOnce'
    <3> DEFINE request == [NoRequest EXCEPT !.step = "reset", !.on = t]
    <3>1. request.on = t /\ t \in Of("RESET_PASSWORD")
      BY <2>4 DEF ValidatePasswordReset, NoRequest, Of
    <3>2. Goes(r, request) /\ UNCHANGED account
      BY <2>4 DEF ValidatePasswordReset
    <3> HIDE DEF request
    <3> QED
      BY <1>6, <1>8, <3>1, <3>2
  <2>5. ASSUME NEW r \in Requests, ConfirmVerificationCode(r)
        PROVE  ResetsHaveLinks' /\ ResetTokenWorksOnce'
    <3>1. [NoRequest EXCEPT !.step = "login", !.version = account.authVersion].step # "reset"
      BY DEF NoRequest
    <3>2. account'.password = account.password
      BY <1>3, <2>5 DEF ConfirmVerificationCode, Account
    <3> QED
      BY <1>6, <1>7, <1>8, <2>5, <3>1, <3>2 DEF ConfirmVerificationCode
  <2>6. ASSUME NEW r \in Requests, ResetPassword(r)
        PROVE  ResetsHaveLinks' /\ ResetTokenWorksOnce'
    <3> DEFINE t == requests[r].on
    <3>1. t \in Of("RESET_PASSWORD") /\ tokens[t].status = "live"
      BY <2>6 DEF ResetPassword, ResetsHaveLinks, StillUsable, Usable
    <3>2. t \in Unconsumed("RESET_PASSWORD")
      BY <3>1 DEF Unconsumed
    <3>3. tokens' = Consume(Unconsumed("RESET_PASSWORD"))
      BY <2>6 DEF ResetPassword
    <3>4. tokens'[t].status = "consumed"
      BY <1>2, <3>1, <3>2, <3>3, ConsumedAged DEF Of
    <3>5. t \in UsedResets' /\ t \notin UsedResets
      BY <1>4, <3>1, <3>4 DEF UsedResets
    <3>6. account'.password = account.password + 1
      BY <1>3, <2>6 DEF ResetPassword, Account
    <3>7. ResetTokenWorksOnce'
      BY <1>1, <1>3, <1>5, <3>5, <3>6, UsedResetsGrow DEF Account
    <3>8. NoRequest.step # "reset"
      BY DEF NoRequest
    <3> QED
      BY <1>8, <2>6, <3>7, <3>8 DEF ResetPassword, Ends
  <2> QED
    BY <1>11, <2>1, <2>2, <2>3, <2>4, <2>5, <2>6 DEF Calls
<1>12. CASE UpdateAccount \/ BeginDeletion \/ CommitDeletion
  <2>1. account'.password = account.password
    BY <1>3, <1>12 DEF UpdateAccount, BeginDeletion, CommitDeletion, Account
  <2> QED
    BY <1>6, <1>7, <1>12, <2>1 DEF UpdateAccount, BeginDeletion, CommitDeletion
<1>13. CASE UNCHANGED vars
  BY <1>6, <1>7, <1>13 DEF vars
<1> QED
  BY <1>9, <1>10, <1>11, <1>12, <1>13 DEF Next

-----------------------------------------------------------------------------
(* Types *)

Typed == TypeOK /\ RowsWithinBounds /\ VersionsWithinBounds

\* The account's row keeps its type, and its versions their bounds.
LEMMA AccountStep ==
    ASSUME Typed, DeletionSeesSessions, [Next]_vars
    PROVE  account' \in Account /\ VersionsWithinBounds'
<1> USE LimitsAreNatural
<1>1. /\ account \in Account /\ MaxVersion \in Nat
      /\ account.authVersion \in 0..MaxVersion + 1 /\ account.version \in 0..MaxVersion + 1
      /\ account.password \in 0..MaxVersion /\ account.password <= account.authVersion
      /\ account.active =>
            account.authVersion <= MaxVersion /\ account.version <= MaxVersion
  BY DEF Typed, TypeOK, Account, VersionsWithinBounds
<1>2. ASSUME UNCHANGED account
      PROVE  account' \in Account /\ VersionsWithinBounds'
  BY <1>1, <1>2 DEF Typed, VersionsWithinBounds
<1>3. CASE Sessions
  BY <1>2, <1>3 DEF Sessions, Refresh, Rotate, RotateUsed, RevokeSession,
     RevokeFamily, ExpireSession, PruneSession
<1>4. CASE Links
  <2>1. ASSUME NEW t \in DOMAIN tokens, VerifyEmail(t)
        PROVE  account' \in Account /\ VersionsWithinBounds'
    BY <1>1, <2>1 DEF VerifyEmail, Account, Typed, VersionsWithinBounds
  <2>2. ASSUME NEW t \in DOMAIN tokens, ConfirmEmailChange(t)
        PROVE  account' \in Account /\ VersionsWithinBounds'
    <3>1. t \in 0..MaxTokens
      BY LenProperties DEF Typed, TypeOK, RowsWithinBounds
    <3>2. /\ account.active /\ account.version < MaxVersion
          /\ account.authVersion < MaxVersion
          /\ account' = [account EXCEPT !.email = t, !.verified = TRUE,
                                        !.authVersion = @ + 1, !.version = @ + 1]
      BY <2>2 DEF ConfirmEmailChange
    <3>3. /\ account.version + 1 \in 0..MaxVersion /\ account.version + 1 \in 0..MaxVersion + 1
          /\ account.authVersion + 1 \in 0..MaxVersion
          /\ account.authVersion + 1 \in 0..MaxVersion + 1
      BY <1>1, <3>2
    <3>4. account' \in Account
      BY <1>1, <3>1, <3>2, <3>3 DEF Account
    <3>5. /\ account'.authVersion = account.authVersion + 1
          /\ account'.version = account.version + 1
          /\ account'.password = account.password
      BY <1>1, <3>2 DEF Account
    <3> QED
      BY <1>1, <3>3, <3>4, <3>5 DEF VersionsWithinBounds
  <2> QED
    BY <1>2, <1>4, <2>1, <2>2 DEF Links, EnqueueVerification, EnqueueVerificationCode,
       EnqueuePasswordReset, EnqueueEmailChange, WrongCode, ExpireToken
<1>5. CASE Calls
  <2>1. ASSUME NEW r \in Requests, RenewAuthentication(r)
        PROVE  account' \in Account /\ VersionsWithinBounds'
    <3>1. requests[r].link \in BOOLEAN
      BY DEF Typed, TypeOK, Request
    <3>2. /\ account.active /\ account.authVersion < MaxVersion
          /\ account' = [account EXCEPT !.authVersion = @ + 1,
                                        !.google = @ \/ requests[r].link,
                                        !.verified = @ \/ requests[r].link]
      BY <2>1 DEF RenewAuthentication
    <3>3. /\ account.authVersion + 1 \in 0..MaxVersion
          /\ account.authVersion + 1 \in 0..MaxVersion + 1
      BY <1>1, <3>2
    <3>4. account' \in Account
      BY <1>1, <3>1, <3>2, <3>3 DEF Account
    <3>5. /\ account'.authVersion = account.authVersion + 1
          /\ account'.version = account.version
          /\ account'.password = account.password
      BY <1>1, <3>2 DEF Account
    <3> QED
      BY <1>1, <3>2, <3>3, <3>4, <3>5 DEF VersionsWithinBounds
  <2>2. ASSUME NEW r \in Requests, ResetPassword(r)
        PROVE  account' \in Account /\ VersionsWithinBounds'
    <3>1. /\ account.active /\ account.authVersion < MaxVersion
          /\ account' = [account EXCEPT !.password = @ + 1, !.authVersion = @ + 1]
      BY <2>2 DEF ResetPassword
    <3>2. /\ account.authVersion + 1 \in 0..MaxVersion
          /\ account.authVersion + 1 \in 0..MaxVersion + 1
          /\ account.password + 1 \in 0..MaxVersion
      BY <1>1, <3>1
    <3>3. account' \in Account
      BY <1>1, <3>1, <3>2 DEF Account
    <3>4. /\ account'.authVersion = account.authVersion + 1
          /\ account'.version = account.version
          /\ account'.password = account.password + 1
      BY <1>1, <3>1 DEF Account
    <3> QED
      BY <1>1, <3>1, <3>2, <3>3, <3>4 DEF VersionsWithinBounds
  <2>3. ASSUME NEW r \in Requests, ConfirmVerificationCode(r)
        PROVE  account' \in Account /\ VersionsWithinBounds'
    BY <1>1, <2>3 DEF ConfirmVerificationCode, Account, Typed, VersionsWithinBounds
  <2> QED
    BY <1>2, <1>5, <2>1, <2>2, <2>3 DEF Calls, Login, LoginGoogle, CreateSession,
       Reauthenticate, ValidatePasswordReset, Stop
<1>6. CASE UpdateAccount
  <2>1. /\ account.active /\ account.version < MaxVersion
        /\ account' = [account EXCEPT !.version = @ + 1]
    BY <1>6 DEF UpdateAccount
  <2>2. /\ account.version + 1 \in 0..MaxVersion
        /\ account.version + 1 \in 0..MaxVersion + 1
    BY <1>1, <2>1
  <2>3. account' \in Account
    BY <1>1, <2>1, <2>2 DEF Account
  <2>4. /\ account'.version = account.version + 1
        /\ account'.authVersion = account.authVersion
        /\ account'.password = account.password
    BY <1>1, <2>1 DEF Account
  <2> QED
    BY <1>1, <2>1, <2>2, <2>3, <2>4 DEF VersionsWithinBounds
<1>7. CASE BeginDeletion
  BY <1>2, <1>7 DEF BeginDeletion
<1>8. CASE CommitDeletion
  <2>1. account.authVersion <= MaxVersion /\ account.version <= MaxVersion
    BY <1>8 DEF CommitDeletion, DeletionSeesSessions, Typed, VersionsWithinBounds
  <2>2. account' = [account EXCEPT !.active = FALSE, !.verified = FALSE, !.google = FALSE,
                       !.local = FALSE, !.authVersion = @ + 1, !.version = @ + 1]
    BY <1>8 DEF CommitDeletion
  <2>3. /\ account.authVersion + 1 \in 0..MaxVersion + 1
        /\ account.version + 1 \in 0..MaxVersion + 1
    BY <1>1, <2>1
  <2>4. account' \in Account
    BY <1>1, <2>2, <2>3 DEF Account
  <2>5. /\ ~account'.active /\ account'.authVersion = account.authVersion + 1
        /\ account'.password = account.password
    BY <1>1, <2>2 DEF Account
  <2> QED
    BY <1>1, <2>3, <2>4, <2>5 DEF VersionsWithinBounds
<1>9. CASE UNCHANGED vars
  BY <1>2, <1>9 DEF vars
<1> QED
  BY <1>3, <1>4, <1>5, <1>6, <1>7, <1>8, <1>9 DEF Next

\* The sessions keep their types and their bound.
LEMMA SessionRowsStep ==
    ASSUME Typed, FamiliesAreOld, [Next]_vars
    PROVE  sessions' \in Seq(Session) /\ Len(sessions') <= MaxSessions
<1> USE LimitsAreNatural
<1>1. /\ sessions \in Seq(Session) /\ Len(sessions) <= MaxSessions
      /\ DOMAIN sessions = 1..Len(sessions) /\ Len(sessions) \in Nat
      /\ TypeOK /\ RowsWithinBounds
  BY LenProperties DEF Typed, TypeOK, RowsWithinBounds
<1>2. ASSUME NEW set, sessions' = Revoke(set)
      PROVE  sessions' \in Seq(Session) /\ Len(sessions') <= MaxSessions
  BY <1>1, <1>2, RevokeRows
<1>3. ASSUME NEW rows \in Seq(Session), Len(rows) = Len(sessions), NEW row \in Session,
             sessions' = Append(rows, row), Len(sessions) < MaxSessions
      PROVE  sessions' \in Seq(Session) /\ Len(sessions') <= MaxSessions
  <2>1. sessions' \in Seq(Session) /\ Len(sessions') = Len(sessions) + 1
    BY <1>3, AppendRow
  <2>2. MaxSessions \in Nat
    OBVIOUS
  <2> QED
    BY <1>1, <1>3, <2>1, <2>2
<1>4. ASSUME NEW s \in DOMAIN sessions, ExpireSession(s) \/ PruneSession(s)
      PROVE  sessions' \in Seq(Session) /\ Len(sessions') <= MaxSessions
  <2>1. sessions' = [sessions EXCEPT ![s].status = "gone"]
    BY <1>4 DEF ExpireSession, PruneSession
  <2> QED
    BY <1>1, <2>1, SessionEnds
<1>5. ASSUME NEW s \in DOMAIN sessions, Rotate(s)
      PROVE  sessions' \in Seq(Session) /\ Len(sessions') <= MaxSessions
  <2>1. sessions[s] \in Session
    BY <1>1, ElementOfSeq
  <2>2. Opened(sessions[s].family, sessions[s].proof) \in Session
    BY <2>1 DEF Opened, Session
  <2>3. Revoke({s}) \in Seq(Session) /\ Len(Revoke({s})) = Len(sessions)
    BY <1>1, RevokeRows
  <2> QED
    BY <1>3, <1>5, <2>2, <2>3 DEF Rotate, RoomForSession
<1>6. CASE Sessions
  BY <1>2, <1>4, <1>5, <1>6 DEF Sessions, Refresh, RotateUsed, RevokeSession, RevokeFamily
<1>7. CASE Links
  BY <1>1, <1>2, <1>7 DEF Links, EnqueueVerification, EnqueueVerificationCode,
     EnqueuePasswordReset, EnqueueEmailChange, WrongCode, ExpireToken, VerifyEmail,
     ConfirmEmailChange
<1>8. CASE Calls
  <2>1. Len(sessions) + 1 \in 1..Len(sessions) + 1
    BY <1>1
  <2>2. ASSUME NEW r \in Requests, CreateSession(r)
        PROVE  sessions' \in Seq(Session) /\ Len(sessions') <= MaxSessions
    <3>1. requests[r].version \in 0..MaxVersion + 1
      BY <1>1 DEF TypeOK, Request
    <3>2. Opened(Len(sessions) + 1, requests[r].version) \in Session
      BY <1>1, <2>1, <2>2, <3>1, OpenedRow DEF CreateSession, RoomForSession
    <3> QED
      BY <1>1, <1>3, <2>2, <3>2 DEF CreateSession, RoomForSession
  <2>3. ASSUME NEW r \in Requests, RenewAuthentication(r)
        PROVE  sessions' \in Seq(Session) /\ Len(sessions') <= MaxSessions
    <3>1. account.authVersion + 1 \in 0..MaxVersion + 1
      BY <1>1, <2>3 DEF TypeOK, Account, RenewAuthentication
    <3>2. Opened(Len(sessions) + 1, account.authVersion + 1) \in Session
      BY <1>1, <2>1, <2>3, <3>1, OpenedRow DEF RenewAuthentication, RoomForSession
    <3>3. /\ Revoke(DOMAIN sessions) \in Seq(Session)
          /\ Len(Revoke(DOMAIN sessions)) = Len(sessions)
      BY <1>1, RevokeRows
    <3> QED
      BY <1>3, <2>3, <3>2, <3>3 DEF RenewAuthentication, RoomForSession
  <2>4. ASSUME NEW r \in Requests, ResetPassword(r)
        PROVE  sessions' \in Seq(Session) /\ Len(sessions') <= MaxSessions
    BY <1>2, <2>4 DEF ResetPassword
  <2>5. ASSUME NEW r \in Requests,
               Login(r) \/ LoginGoogle(r) \/ ConfirmVerificationCode(r) \/ Stop(r)
        PROVE  sessions' \in Seq(Session) /\ Len(sessions') <= MaxSessions
    BY <1>1, <2>5 DEF Login, LoginGoogle, ConfirmVerificationCode, Stop
  <2> QED
    BY <1>1, <1>8, <2>2, <2>3, <2>4, <2>5 DEF Calls, Reauthenticate, ValidatePasswordReset
<1>9. CASE UpdateAccount \/ BeginDeletion \/ CommitDeletion
  BY <1>1, <1>2, <1>9 DEF UpdateAccount, BeginDeletion, CommitDeletion
<1>10. CASE UNCHANGED vars
  BY <1>1, <1>10 DEF vars
<1> QED
  BY <1>6, <1>7, <1>8, <1>9, <1>10 DEF Next

\* The links keep their types and their bound.
LEMMA LinkRowsStep ==
    ASSUME Typed, VerificationInv, [Next]_vars
    PROVE  tokens' \in Seq(Token) /\ Len(tokens') <= MaxTokens
<1> USE LimitsAreNatural
<1>1. tokens' \in Seq(Token)
  BY LinksStep DEF Typed, Aged
<1>2. /\ tokens \in Seq(Token) /\ Len(tokens) <= MaxTokens
      /\ DOMAIN tokens = 1..Len(tokens) /\ Len(tokens) \in Nat
  BY LenProperties DEF Typed, TypeOK, RowsWithinBounds
<1>3. ASSUME NEW set, tokens' = Consume(set)
      PROVE  Len(tokens') <= MaxTokens
  BY <1>2, <1>3, ConsumeRows
<1>4. ASSUME NEW link, Enqueue(link)
      PROVE  Len(tokens') <= MaxTokens
  <2>1. /\ tokens' = Append(Consume(Superseded(link.purpose)), link)
        /\ Len(tokens) < MaxTokens
    BY <1>4 DEF Enqueue
  <2>2. /\ Consume(Superseded(link.purpose)) \in Seq(Token)
        /\ Len(Consume(Superseded(link.purpose))) = Len(tokens)
    BY <1>2, ConsumeRows
  <2>3. Len(tokens') = Len(tokens) + 1
    BY <2>1, <2>2, SeqMonotonic
  <2>4. MaxTokens \in Nat
    OBVIOUS
  <2> QED
    BY <1>2, <2>1, <2>3, <2>4
<1>5. CASE Sessions
  BY <1>2, <1>5 DEF Sessions, Refresh, Rotate, RotateUsed, RevokeSession, RevokeFamily,
     ExpireSession, PruneSession
<1>6. CASE Links
  <2>1. ASSUME NEW t \in DOMAIN tokens, ExpireToken(t)
        PROVE  Len(tokens') <= MaxTokens
    <3>1. tokens' = [tokens EXCEPT ![t].status = "expired"]
      BY <2>1 DEF ExpireToken
    <3> QED
      BY <1>2, <3>1, LinkExpires
  <2>2. CASE WrongCode
    BY <1>1, <1>2, <1>3, <2>2 DEF WrongCode
  <2>3. ASSUME NEW t \in DOMAIN tokens, VerifyEmail(t) \/ ConfirmEmailChange(t)
        PROVE  Len(tokens') <= MaxTokens
    BY <1>3, <2>3 DEF VerifyEmail, ConfirmEmailChange
  <2> QED
    BY <1>1, <1>4, <1>6, <2>1, <2>2, <2>3 DEF Links, EnqueueVerification,
       EnqueueVerificationCode, EnqueuePasswordReset, EnqueueEmailChange
<1>7. CASE Calls
  <2>1. ASSUME NEW r \in Requests,
               RenewAuthentication(r) \/ ResetPassword(r) \/ ConfirmVerificationCode(r)
        PROVE  Len(tokens') <= MaxTokens
    BY <1>2, <1>3, <2>1 DEF RenewAuthentication, ResetPassword, ConfirmVerificationCode
  <2> QED
    BY <1>1, <1>2, <1>7, <2>1 DEF Calls, Login, LoginGoogle, CreateSession, Reauthenticate,
       ValidatePasswordReset, Stop
<1>8. CASE UpdateAccount \/ BeginDeletion \/ CommitDeletion
  BY <1>1, <1>2, <1>3, <1>8 DEF UpdateAccount, BeginDeletion, CommitDeletion
<1>9. CASE UNCHANGED vars
  BY <1>2, <1>9 DEF vars
<1> QED
  BY <1>1, <1>5, <1>6, <1>7, <1>8, <1>9 DEF Next

\* The code keeps its type: wrong guesses stop at MaxAttempts.
LEMMA CodeStep ==
    ASSUME Typed, [Next]_vars
    PROVE  code' \in Code
<1> USE LimitsAreNatural
<1>1. code \in Code /\ MaxAttempts \in Nat
  BY DEF Typed, TypeOK
<1>2. CASE WrongCode
  <2>1. code.attempts + 1 \in 0..MaxAttempts
    BY <1>1, <1>2 DEF WrongCode, Guessable, Code
  <2> QED
    BY <1>1, <1>2, <2>1 DEF WrongCode, Code
<1>3. ASSUME NEW r \in Requests, ConfirmVerificationCode(r)
      PROVE  code' \in Code
  BY <1>1, <1>3 DEF ConfirmVerificationCode, NoCode, Code
<1>4. CASE EnqueueVerification
  BY <1>1, <1>4 DEF EnqueueVerification, Code
<1>5. CASE EnqueueVerificationCode
  <2>1. 0 \in 0..MaxAttempts
    BY <1>1
  <2> QED
    BY <1>1, <1>5, <2>1 DEF EnqueueVerificationCode, Code
<1>6. ASSUME NEW t \in DOMAIN tokens, ExpireToken(t) \/ VerifyEmail(t)
      PROVE  code' \in Code
  BY <1>1, <1>6 DEF ExpireToken, VerifyEmail, Code
<1>7. ASSUME UNCHANGED code
      PROVE  code' \in Code
  BY <1>1, <1>7
<1>8. CASE Sessions
  BY <1>7, <1>8 DEF Sessions, Refresh, Rotate, RotateUsed, RevokeSession, RevokeFamily,
     ExpireSession, PruneSession
<1>9. CASE Links
  BY <1>2, <1>4, <1>5, <1>6, <1>7, <1>9 DEF Links, EnqueuePasswordReset,
     EnqueueEmailChange, ConfirmEmailChange
<1>10. CASE Calls
  BY <1>3, <1>7, <1>10 DEF Calls, Login, LoginGoogle, CreateSession, Reauthenticate,
     RenewAuthentication, ValidatePasswordReset, ResetPassword, Stop
<1>11. CASE UpdateAccount \/ BeginDeletion \/ CommitDeletion \/ UNCHANGED vars
  BY <1>7, <1>11 DEF UpdateAccount, BeginDeletion, CommitDeletion, vars
<1> QED
  BY <1>8, <1>9, <1>10, <1>11 DEF Next

\* Requests keep their types.
LEMMA RequestsStep ==
    ASSUME Typed, [Next]_vars
    PROVE  requests' \in [Requests -> Request]
<1> USE LimitsAreNatural
<1>1. /\ requests \in [Requests -> Request]
      /\ account.authVersion \in 0..MaxVersion + 1
      /\ {MaxSessions, MaxTokens, MaxVersion} \subseteq Nat
  BY DEF Typed, TypeOK, Account
<1>2. NoRequest \in Request
  BY <1>1 DEF NoRequest, Request
<1>3. ASSUME NEW r \in Requests, NEW request \in Request, Goes(r, request)
      PROVE  requests' \in [Requests -> Request]
  BY <1>1, <1>3 DEF Goes
<1>4. ASSUME UNCHANGED requests
      PROVE  requests' \in [Requests -> Request]
  BY <1>1, <1>4
<1>5. [NoRequest EXCEPT !.step = "login", !.version = account.authVersion] \in Request
  BY <1>1, <1>2 DEF Request
<1>6. CASE Sessions
  BY <1>4, <1>6 DEF Sessions, Refresh, Rotate, RotateUsed, RevokeSession, RevokeFamily,
     ExpireSession, PruneSession
<1>7. CASE Links
  BY <1>4, <1>7 DEF Links, EnqueueVerification, EnqueueVerificationCode,
     EnqueuePasswordReset, EnqueueEmailChange, WrongCode, ExpireToken, VerifyEmail,
     ConfirmEmailChange
<1>8. CASE Calls
  <2>1. ASSUME NEW r \in Requests, Login(r) \/ LoginGoogle(r) \/ ConfirmVerificationCode(r)
        PROVE  requests' \in [Requests -> Request]
    BY <1>3, <1>4, <1>5, <2>1 DEF Login, LoginGoogle, ConfirmVerificationCode
  <2>2. ASSUME NEW r \in Requests,
               CreateSession(r) \/ RenewAuthentication(r) \/ ResetPassword(r) \/ Stop(r)
        PROVE  requests' \in [Requests -> Request]
    BY <1>2, <1>3, <2>2 DEF CreateSession, RenewAuthentication, ResetPassword, Stop, Ends
  <2>3. ASSUME NEW r \in Requests, NEW s \in DOMAIN sessions, NEW link \in BOOLEAN,
               Reauthenticate(r, s, link)
        PROVE  requests' \in [Requests -> Request]
    <3>1. s \in 0..MaxSessions + MaxTokens
      <4>1. s \in 1..Len(sessions) /\ Len(sessions) <= MaxSessions /\ Len(sessions) \in Nat
        BY LenProperties DEF Typed, TypeOK, RowsWithinBounds
      <4> QED
        BY <1>1, <4>1
    <3>2. [step |-> "renew", version |-> account.authVersion, on |-> s, link |-> link]
             \in Request
      BY <1>1, <3>1 DEF Request
    <3> QED
      BY <1>3, <2>3, <3>2 DEF Reauthenticate
  <2>4. ASSUME NEW r \in Requests, NEW t \in DOMAIN tokens, ValidatePasswordReset(r, t)
        PROVE  requests' \in [Requests -> Request]
    <3>1. t \in 0..MaxSessions + MaxTokens
      <4>1. t \in 1..Len(tokens) /\ Len(tokens) <= MaxTokens /\ Len(tokens) \in Nat
        BY LenProperties DEF Typed, TypeOK, RowsWithinBounds
      <4> QED
        BY <1>1, <4>1
    <3>2. [NoRequest EXCEPT !.step = "reset", !.on = t] \in Request
      BY <1>2, <3>1 DEF Request
    <3> QED
      BY <1>3, <2>4, <3>2 DEF ValidatePasswordReset
  <2> QED
    BY <1>8, <2>1, <2>2, <2>3, <2>4 DEF Calls
<1>9. CASE UpdateAccount \/ BeginDeletion \/ CommitDeletion \/ UNCHANGED vars
  BY <1>4, <1>9 DEF UpdateAccount, BeginDeletion, CommitDeletion, vars
<1> QED
  BY <1>6, <1>7, <1>8, <1>9 DEF Next

\* The waiting deletion keeps its type.
LEMMA DeletionStep ==
    ASSUME Typed, [Next]_vars
    PROVE  deletion' \in [links: 0..MaxTokens, sessions: 0..MaxSessions] \cup {None}
<1> USE LimitsAreNatural
<1>1. /\ deletion \in [links: 0..MaxTokens, sessions: 0..MaxSessions] \cup {None}
      /\ Len(tokens) \in 0..MaxTokens /\ Len(sessions) \in 0..MaxSessions
  BY LenProperties DEF Typed, TypeOK, RowsWithinBounds
<1>2. deletion' \in {deletion, None, [links |-> Len(tokens), sessions |-> Len(sessions)]}
  <2>1. CASE Sessions
    BY <2>1 DEF Sessions, Refresh, Rotate, RotateUsed, RevokeSession, RevokeFamily,
       ExpireSession, PruneSession, Overtakes
  <2>2. CASE Links
    BY <2>2 DEF Links, EnqueueVerification, EnqueueVerificationCode,
       EnqueuePasswordReset, EnqueueEmailChange, WrongCode, ExpireToken, VerifyEmail,
       ConfirmEmailChange, Enqueue, Overtakes
  <2>3. CASE Calls
    BY <2>3 DEF Calls, Login, LoginGoogle, CreateSession, Reauthenticate,
       RenewAuthentication, ValidatePasswordReset, ResetPassword,
       ConfirmVerificationCode, Stop, Overtakes
  <2>4. CASE UpdateAccount \/ BeginDeletion \/ CommitDeletion \/ UNCHANGED vars
    BY <2>4 DEF UpdateAccount, BeginDeletion, CommitDeletion, vars, Overtakes
  <2> QED
    BY <2>1, <2>2, <2>3, <2>4 DEF Next
<1> QED
  BY <1>1, <1>2

-----------------------------------------------------------------------------
(* Theorems *)

\* The states a registration leaves satisfy Inv.
LEMMA InitInv == Init => Inv
<1> SUFFICES ASSUME Init PROVE Inv
  OBVIOUS
<1> USE LimitsAreNatural
<1>1. /\ sessions = <<>> /\ deletion = None
      /\ requests = [r \in Requests |-> NoRequest]
  BY DEF Init
<1>2. PICK how \in {"none", "google", "link", "code"} :
        /\ account = IF how = "google" THEN CreateGoogleCustomer
                     ELSE CreateCustomer(how = "none")
        /\ tokens = IF how \in {"none", "google"} THEN <<>>
                    ELSE <<Link("VERIFY_EMAIL", how = "code", 0)>>
        /\ code = IF how = "code" THEN [NoCode EXCEPT !.live = TRUE, !.registration = TRUE]
                  ELSE NoCode
  BY DEF Init
<1>0. /\ 0 \in 0..MaxVersion /\ 0 \in 0..MaxVersion + 1
      /\ 0 \in 0..MaxTokens /\ 0 \in 0..MaxAttempts
      /\ {MaxAttempts, MaxTokens, MaxSessions, MaxVersion} \subseteq Nat \ {0}
  OBVIOUS
<1>3. /\ account \in Account /\ account.password = 0
      /\ account.authVersion = 0 /\ account.version = 0
  BY <1>0, <1>2 DEF CreateGoogleCustomer, CreateCustomer, Account
<1>4. /\ code \in Code /\ code.attempts = 0
      /\ IF how = "code" THEN code.live ELSE ~code.live
  BY <1>0, <1>2 DEF NoCode, Code
<1>5. /\ Link("VERIFY_EMAIL", how = "code", 0) \in Token
      /\ Link("VERIFY_EMAIL", how = "code", 0).purpose = "VERIFY_EMAIL"
      /\ Link("VERIFY_EMAIL", how = "code", 0).coded = (how = "code")
  <2>1. (how = "code") \in BOOLEAN /\ "VERIFY_EMAIL" \in Purpose
    BY DEF Purpose
  <2> QED
    BY <1>0, <2>1, LinkRow
<1>6. /\ tokens \in Seq(Token) /\ Len(tokens) <= 1 /\ Len(tokens) \in Nat
      /\ DOMAIN tokens = 1..Len(tokens)
      /\ \A t \in DOMAIN tokens :
           /\ t = 1 /\ tokens[t].purpose = "VERIFY_EMAIL"
           /\ tokens[t].coded = (how = "code")
  <2>1. CASE how \in {"none", "google"}
    BY <1>2, <2>1
  <2>2. CASE how \notin {"none", "google"}
    BY <1>2, <1>5, <2>2
  <2> QED
    BY <2>1, <2>2
<1>7. requests \in [Requests -> Request] /\ \A r \in Requests : requests[r].step = "idle"
  BY <1>1 DEF NoRequest, Request
<1>8. TypeOK
  BY <1>1, <1>3, <1>4, <1>6, <1>7 DEF TypeOK
<1>9. RowsWithinBounds /\ VersionsWithinBounds
  BY <1>1, <1>3, <1>6 DEF RowsWithinBounds, VersionsWithinBounds
<1>10. SessionsInv
  BY <1>1 DEF SessionsInv, FamiliesAreOld, OneLivePerFamily, DeletionSeesSessions,
     SessionsAreCurrent
<1>11. LinksAreLatest /\ LinkDiesWithCode
  <2>1. LinksAreLatest
    BY <1>6 DEF LinksAreLatest, Of
  <2>2. ASSUME NEW t \in DOMAIN tokens
        PROVE  IF tokens[t].coded THEN code.live /\ code.attempts < MaxAttempts
               ELSE ~code.live
    <3>1. CASE how = "code"
      <4>1. code.live /\ code.attempts = 0 /\ 0 < MaxAttempts
        BY <1>0, <1>4, <3>1
      <4> QED
        BY <1>6, <3>1, <4>1
    <3>2. CASE how # "code"
      BY <1>4, <1>6, <3>2
    <3> QED
      BY <3>1, <3>2
  <2> QED
    BY <2>1, <2>2 DEF LinkDiesWithCode, Of
<1>12. ResetsHaveLinks
  BY <1>7 DEF ResetsHaveLinks
<1>13. ResetTokenWorksOnce
  <2>1. {t \in Of("RESET_PASSWORD") : tokens[t].status = "consumed"} = {}
    BY <1>6 DEF Of
  <2> QED
    BY <1>3, <2>1, FS_EmptySet DEF ResetTokenWorksOnce
<1> QED
  BY <1>8, <1>9, <1>10, <1>11, <1>12, <1>13 DEF Inv, LinksInv

\* Every step preserves Inv.
LEMMA StepInv == Inv /\ [Next]_vars => Inv'
<1> SUFFICES ASSUME Inv, [Next]_vars PROVE Inv'
  OBVIOUS
<1>1. /\ TypeOK /\ RowsWithinBounds /\ VersionsWithinBounds /\ Typed
      /\ SessionsInv /\ DeletionSeesSessions /\ FamiliesAreOld
      /\ VerificationInv /\ ResetsHaveLinks /\ ResetTokenWorksOnce
  BY DEF Inv, Typed, SessionsInv, LinksInv, VerificationInv
<1>2. account' \in Account /\ VersionsWithinBounds'
  BY <1>1, AccountStep
<1>3. sessions' \in Seq(Session) /\ Len(sessions') <= MaxSessions
  BY <1>1, SessionRowsStep
<1>4. tokens' \in Seq(Token) /\ Len(tokens') <= MaxTokens
  BY <1>1, LinkRowsStep
<1>5. TypeOK'
  BY <1>1, <1>2, <1>3, <1>4, CodeStep, RequestsStep, DeletionStep DEF TypeOK
<1>6. SessionsInv'
  BY <1>1, SessionsStep
<1>7. VerificationInv' /\ ResetsHaveLinks' /\ ResetTokenWorksOnce'
  BY <1>1, LinksStep, ResetsStep
<1> QED
  BY <1>2, <1>3, <1>4, <1>5, <1>6, <1>7
     DEF Inv, RowsWithinBounds, LinksInv, VerificationInv

\* Everything Inv says holds of every reachable state.
THEOREM InductiveInvariant == Spec => []Inv
<1>1. Init => Inv
  BY InitInv
<1>2. Inv /\ [Next]_vars => Inv'
  BY StepInv
<1> QED
  BY <1>1, <1>2, PTL DEF Spec

\* No session outlives the proof it was opened with (CreateSession,
\* RotateSession, ResetPassword, AnonymizeAccount), however many requests race.
THEOREM SessionsAlwaysCurrent == Spec => []SessionsAreCurrent
<1>1. Inv => SessionsAreCurrent
  BY DEF Inv, SessionsInv
<1> QED
  BY <1>1, InductiveInvariant, PTL

\* The address that is confirmed is the last one asked for, of the profile it was
\* asked from (EnqueueEmailChange, ConfirmEmailChange).
THEOREM LastAddressAlwaysWins == Spec => LastAddressWins
<1>1. ASSUME Inv, [Next]_vars, account'.email # account.email
      PROVE  /\ \A t \in Of("CHANGE_EMAIL") : t <= account'.email
             /\ tokens[account'.email].version = account.version
  <2>1. account \in Account
    BY <1>1 DEF Inv, TypeOK
  <2>2. PICK t \in DOMAIN tokens : ConfirmEmailChange(t)
    <3>1. CASE Links
      BY <1>1, <2>1, <3>1 DEF Links, EnqueueVerification, EnqueueVerificationCode,
         EnqueuePasswordReset, EnqueueEmailChange, WrongCode, ExpireToken, VerifyEmail,
         Account
    <3>2. CASE Calls
      BY <1>1, <2>1, <3>2 DEF Calls, Login, LoginGoogle, CreateSession, Reauthenticate,
         RenewAuthentication, ValidatePasswordReset, ResetPassword,
         ConfirmVerificationCode, Stop, Account
    <3>3. CASE Sessions
      BY <1>1, <3>3 DEF Sessions, Refresh, Rotate, RotateUsed, RevokeSession,
         RevokeFamily, ExpireSession, PruneSession
    <3>4. CASE UpdateAccount \/ BeginDeletion \/ CommitDeletion \/ UNCHANGED vars
      BY <1>1, <2>1, <3>4 DEF UpdateAccount, BeginDeletion, CommitDeletion, vars, Account
    <3> QED
      BY <1>1, <3>1, <3>2, <3>3, <3>4 DEF Next
  <2>3. account'.email = t
    BY <2>1, <2>2 DEF ConfirmEmailChange, Account
  <2>4. \A u \in Of("CHANGE_EMAIL") : u <= t
    BY <1>1, <2>2 DEF ConfirmEmailChange, Inv, LinksInv, LinksAreLatest, Of
  <2>5. tokens[t].version = account.version
    BY <2>2 DEF ConfirmEmailChange
  <2> QED
    BY <2>3, <2>4, <2>5
<1>2. Inv /\ [Next]_vars =>
        [account'.email # account.email =>
            /\ \A t \in Of("CHANGE_EMAIL") : t <= account'.email
            /\ tokens[account'.email].version = account.version]_vars
  BY <1>1
<1> QED
  BY <1>2, InductiveInvariant, PTL DEF Spec, LastAddressWins

\* A family of refresh tokens never has two sessions that work (RotateSession).
THEOREM FamiliesHaveOneLive == Spec => []OneLivePerFamily
<1>1. Inv => OneLivePerFamily
  BY DEF Inv, SessionsInv
<1> QED
  BY <1>1, InductiveInvariant, PTL

\* Rows keep their types, a link dies with its code, and a reset link changes
\* the password once (EnqueueVerificationCode, ConfirmVerificationCode,
\* ResetPassword).
THEOREM IdentityCorrect == Spec => []IdentityInv
<1>1. Inv => IdentityInv
  BY DEF Inv, LinksInv, IdentityInv
<1> QED
  BY <1>1, InductiveInvariant, PTL

=============================================================================
