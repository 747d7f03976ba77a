------------------------------- MODULE Identity -------------------------------
(***************************************************************************)
(* One account: its sessions, the links and codes mailed to its owner, and *)
(* the calls that prove who is asking with one read and act on the proof   *)
(* in a later transaction (log in, password reset, reauthentication, a     *)
(* code that logs in).  Every transaction locks the account's row, so each *)
(* is one step; account deletion takes its snapshot before it gets that    *)
(* lock and has a step of its own for that.                                *)
(*                                                                         *)
(* A refresh token stands for its session and is nobody's in particular:   *)
(* Refresh may come from the owner, from a retry after a lost answer or    *)
(* from a copy.  A password is the number of resets before it; bcrypt, the *)
(* JWT and the trial the first login starts are left out, and the mails    *)
(* are in Deliveries.  An operator named after another with a suffix is    *)
(* that operator with one mistake in it and is not part of Spec.           *)
(***************************************************************************)
EXTENDS Integers, Sequences, FiniteSets

CONSTANTS
    Requests,     \* calls that run at the same time
    MaxAttempts,  \* wrong codes accepted before a code is locked (5)
    MaxSessions,  \* bound: sessions ever made
    MaxTokens,    \* bound: mailed links
    MaxVersion,   \* bound: auth_version, and the profile's version
    MaxEvents,    \* bound: sessions, links and versions together
    None

ASSUME LimitsAreNatural ==
    {MaxAttempts, MaxSessions, MaxTokens, MaxVersion, MaxEvents} \subseteq Nat \ {0}

VARIABLES
    account,   \* the row of usuarios
    sessions,  \* sesiones_auth, in the order they were made
    tokens,    \* tokens_identidad_email, in the order they were made
    code,      \* email_verification_codes
    requests,  \* calls that have read and not yet written
    deletion   \* the deletion that waits for the account's row, or None

vars == <<account, sessions, tokens, code, requests, deletion>>

\* google: a Google subject is linked; local: there is a password.
Account == [active: BOOLEAN, verified: BOOLEAN, google: BOOLEAN, local: BOOLEAN,
            password: 0..MaxVersion, email: 0..MaxTokens,
            authVersion: 0..MaxVersion + 1, version: 0..MaxVersion + 1]
\* A session that expired and one that was pruned are the same to every call.
\* proof: the auth_version the proof of identity was read at (not a column).
Session == [status: {"live", "revoked", "gone"},
            family: 1..MaxSessions, proof: 0..MaxVersion + 1]
Purpose == {"VERIFY_EMAIL", "RESET_PASSWORD", "CHANGE_EMAIL"}
\* coded: the link came with a code; version: account_version.
Token == [purpose: Purpose, status: {"live", "consumed", "expired"},
          coded: BOOLEAN, version: 0..MaxVersion + 1]
Code == [live: BOOLEAN, attempts: 0..MaxAttempts, registration: BOOLEAN]
NoRequest == [step |-> "idle", version |-> 0, on |-> 0, link |-> FALSE]
Request == [step: {"idle", "login", "reset", "renew"}, version: 0..MaxVersion + 1,
            on: 0..MaxSessions + MaxTokens, link: BOOLEAN]

TypeOK ==
    /\ account \in Account
    /\ sessions \in Seq(Session) /\ tokens \in Seq(Token)
    /\ code \in Code
    /\ requests \in [Requests -> Request]
    /\ deletion \in [links: 0..MaxTokens, sessions: 0..MaxSessions] \cup {None}

Link(purpose, coded, version) ==
    [purpose |-> purpose, status |-> "live", coded |-> coded, version |-> version]
NoCode == [live |-> FALSE, attempts |-> 0, registration |-> FALSE]

CreateCustomer(verified) ==
    [active |-> TRUE, verified |-> verified, google |-> FALSE, local |-> TRUE,
     password |-> 0, email |-> 0, authVersion |-> 0, version |-> 0]
CreateGoogleCustomer ==
    [CreateCustomer(TRUE) EXCEPT !.google = TRUE, !.local = FALSE]

\* RegisterCustomer: verified at once, by link, or by code; or a sign-up with Google.
Init ==
    /\ \E how \in {"none", "google", "link", "code"} :
         /\ account = IF how = "google" THEN CreateGoogleCustomer
                      ELSE CreateCustomer(how = "none")
         /\ tokens = IF how \in {"none", "google"} THEN <<>>
                     ELSE <<Link("VERIFY_EMAIL", how = "code", 0)>>
         /\ code = IF how = "code" THEN [NoCode EXCEPT !.live = TRUE, !.registration = TRUE]
                   ELSE NoCode
    /\ sessions = <<>>
    /\ requests = [r \in Requests |-> NoRequest]
    /\ deletion = None

Idle(r) == requests[r].step = "idle"
Goes(r, request) == requests' = [requests EXCEPT ![r] = request]
Ends(r) == Goes(r, NoRequest)

\* A transaction that updates a row the deletion's snapshot has seen makes the
\* waiting deletion fail with a serialization error.
Overtakes == deletion' = None

Of(purpose) == {t \in DOMAIN tokens : tokens[t].purpose = purpose}
Usable(t) == tokens[t].status = "live"
Unconsumed(purpose) == {t \in Of(purpose) : tokens[t].status # "consumed"}
Consume(set) == [t \in DOMAIN tokens |->
    IF t \in set THEN [tokens[t] EXCEPT !.status = "consumed"] ELSE tokens[t]]

Revoke(set) == [s \in DOMAIN sessions |->
    IF s \in set /\ sessions[s].status # "gone"
    THEN [sessions[s] EXCEPT !.status = "revoked"] ELSE sessions[s]]
FamilyOf(s) == {q \in DOMAIN sessions : sessions[q].family = sessions[s].family}
Opened(family, proof) == [status |-> "live", family |-> family, proof |-> proof]
WithinBound ==
    Len(sessions) + Len(tokens) + account.authVersion + account.version < MaxEvents
RoomForSession == Len(sessions) < MaxSessions /\ WithinBound

-----------------------------------------------------------------------------
(* Sessions *)

\* The password is checked against the row that is read here.
Login(r) ==
    /\ Idle(r) /\ account.active /\ account.local /\ account.verified
    /\ Goes(r, [NoRequest EXCEPT !.step = "login", !.version = account.authVersion])
    /\ UNCHANGED <<account, sessions, tokens, code, deletion>>

\* ResolveGoogleUser finds the account by the subject of Google's token alone: the
\* address never links one.
ResolveGoogleUser == account.active /\ account.google
LoginGoogle(r) ==
    /\ Idle(r) /\ ResolveGoogleUser
    /\ Goes(r, [NoRequest EXCEPT !.step = "login", !.version = account.authVersion])
    /\ UNCHANGED <<account, sessions, tokens, code, deletion>>

\* CreateSession, on the version that was read with the proof.  It writes the
\* account's row (first_login_at).
CreateSession(r) ==
    /\ requests[r].step = "login" /\ account.active /\ RoomForSession
    /\ requests[r].version = account.authVersion
    /\ sessions' = Append(sessions, Opened(Len(sessions) + 1, requests[r].version))
    /\ Ends(r) /\ Overtakes
    /\ UNCHANGED <<account, tokens, code>>

RotateWithoutReuseCheck(s) ==
    /\ account.active /\ sessions[s].status \in {"live", "revoked"} /\ RoomForSession
    /\ sessions' = Append(Revoke({s}), Opened(sessions[s].family, sessions[s].proof))
    /\ Overtakes
    /\ UNCHANGED <<account, tokens, code, requests>>

RotateLockingOnly(s) ==
    /\ account.active /\ sessions[s].status = "live" /\ RoomForSession
    /\ sessions' = Append(Revoke({s}), Opened(sessions[s].family, sessions[s].proof))
    /\ UNCHANGED <<account, tokens, code, requests, deletion>>

\* RotateSession of a live refresh token: its session is replaced.
Rotate(s) ==
    /\ account.active /\ sessions[s].status = "live" /\ RoomForSession
    /\ sessions' = Append(Revoke({s}), Opened(sessions[s].family, sessions[s].proof))
    /\ Overtakes
    /\ UNCHANGED <<account, tokens, code, requests>>

RevokeFamily(s) ==
    /\ sessions' = Revoke(FamilyOf(s))
    /\ Overtakes
    /\ UNCHANGED <<account, tokens, code, requests>>

\* RotateSession of a token that was used before: nobody knows who has the
\* other copy, so the whole family goes.
RotateUsed(s) == account.active /\ sessions[s].status = "revoked" /\ RevokeFamily(s)

Refresh(s) == Rotate(s) \/ RotateUsed(s)

\* Logout, by the session or by its refresh token.
RevokeSession(s) == sessions[s].status # "gone" /\ RevokeFamily(s)

\* It expires.
ExpireSession(s) ==
    /\ sessions[s].status = "live"
    /\ sessions' = [sessions EXCEPT ![s].status = "gone"]
    /\ UNCHANGED <<account, tokens, code, requests, deletion>>

\* ApplyRetention: a pruned row is no longer recognised as reuse.  A deletion
\* that has seen the row fails.
PruneSession(s) ==
    /\ sessions[s].status = "revoked"
    /\ sessions' = [sessions EXCEPT ![s].status = "gone"]
    /\ Overtakes
    /\ UNCHANGED <<account, tokens, code, requests>>

-----------------------------------------------------------------------------
(* Reauthentication *)

\* renewAuthentication reads the proof for the actor of session s, whose access
\* token carries the current auth_version.
Reauthenticate(r, s, link) ==
    /\ Idle(r) /\ account.active /\ sessions[s].status = "live"
    /\ account.local \/ (account.google /\ ~link)
    /\ Goes(r, [step |-> "renew", version |-> account.authVersion, on |-> s, link |-> link])
    /\ UNCHANGED <<account, sessions, tokens, code, deletion>>

RenewAuthentication(r) ==
    LET q == requests[r] IN
    /\ q.step = "renew" /\ account.active /\ RoomForSession
    /\ q.version = account.authVersion /\ account.authVersion < MaxVersion
    /\ sessions[q.on].status = "live"
    /\ account' = [account EXCEPT !.authVersion = @ + 1, !.google = @ \/ q.link,
                                  !.verified = @ \/ q.link]
    /\ sessions' = Append(Revoke(DOMAIN sessions),
                          Opened(Len(sessions) + 1, account.authVersion + 1))
    /\ tokens' = IF q.link THEN Consume(DOMAIN tokens) ELSE tokens
    /\ Ends(r) /\ Overtakes
    /\ UNCHANGED code

-----------------------------------------------------------------------------
(* Links and codes *)

SupersededNever(purpose) == {}
\* A new link makes the earlier ones of its purpose void.
Superseded(purpose) == Unconsumed(purpose)

Enqueue(link) ==
    /\ Len(tokens) < MaxTokens /\ WithinBound
    /\ tokens' = Append(Consume(Superseded(link.purpose)), link)
    /\ IF Unconsumed(link.purpose) # {} THEN Overtakes ELSE UNCHANGED deletion

EnqueueVerification ==
    /\ account.active /\ ~account.verified
    /\ Enqueue(Link("VERIFY_EMAIL", FALSE, 0))
    /\ code' = [code EXCEPT !.live = FALSE]
    /\ UNCHANGED <<account, sessions, requests>>

\* A code sent again does not install an automatic login; the first one, if any,
\* is kept.
EnqueueVerificationCode ==
    /\ account.active /\ ~account.verified
    /\ Enqueue(Link("VERIFY_EMAIL", TRUE, 0))
    /\ code' = [code EXCEPT !.live = TRUE, !.attempts = 0]
    /\ UNCHANGED <<account, sessions, requests>>

EnqueuePasswordReset ==
    /\ account.active /\ account.verified /\ account.local
    /\ Enqueue(Link("RESET_PASSWORD", FALSE, 0))
    /\ UNCHANGED <<account, sessions, code, requests>>

\* RequestEmailChange needs a fresh session.
EnqueueEmailChange ==
    /\ account.active /\ \E s \in DOMAIN sessions : sessions[s].status = "live"
    /\ Enqueue(Link("CHANGE_EMAIL", FALSE, account.version))
    /\ UNCHANGED <<account, sessions, code, requests>>

ExpireToken(t) ==
    /\ Usable(t)
    /\ tokens' = [tokens EXCEPT ![t].status = "expired"]
    /\ code' = IF tokens[t].coded THEN [code EXCEPT !.live = FALSE] ELSE code
    /\ UNCHANGED <<account, sessions, requests, deletion>>

VerifyEmail(t) ==
    /\ account.active /\ tokens[t].purpose = "VERIFY_EMAIL" /\ Usable(t)
    /\ account' = [account EXCEPT !.verified = TRUE]
    /\ tokens' = Consume({t})
    /\ code' = [code EXCEPT !.live = FALSE, !.registration = FALSE]
    /\ Overtakes
    /\ UNCHANGED <<sessions, requests>>

Guessable == account.active /\ ~account.verified /\ code.live /\ code.attempts < MaxAttempts

\* The right code; with the registration token it also logs in.
ConfirmVerificationCode(r) ==
    /\ Idle(r) /\ Guessable
    /\ account' = [account EXCEPT !.verified = TRUE]
    /\ code' = [NoCode EXCEPT !.attempts = code.attempts]
    /\ tokens' = Consume(Unconsumed("VERIFY_EMAIL"))
    /\ \/ Goes(r, [NoRequest EXCEPT !.step = "login", !.version = account.authVersion])
          /\ code.registration
       \/ UNCHANGED requests
    /\ Overtakes
    /\ UNCHANGED sessions

LastWrongCodeNever(attempts) == FALSE
LastWrongCode(attempts) == attempts = MaxAttempts - 1
\* A wrong code.  The last one also voids the link in the same mail.
WrongCode ==
    /\ Guessable
    /\ code' = [code EXCEPT !.attempts = @ + 1]
    /\ tokens' = IF LastWrongCode(code.attempts)
                 THEN Consume(Unconsumed("VERIFY_EMAIL")) ELSE tokens
    /\ IF tokens' # tokens THEN Overtakes ELSE UNCHANGED deletion
    /\ UNCHANGED <<account, sessions, requests>>

\* ConfirmPasswordReset checks the link before it hashes the new password.
ValidatePasswordReset(r, t) ==
    /\ Idle(r) /\ account.active
    /\ tokens[t].purpose = "RESET_PASSWORD" /\ Usable(t)
    /\ Goes(r, [NoRequest EXCEPT !.step = "reset", !.on = t])
    /\ UNCHANGED <<account, sessions, tokens, code, deletion>>

StillUsable(t) == Usable(t)

ResetPassword(r) ==
    /\ requests[r].step = "reset" /\ account.active /\ StillUsable(requests[r].on)
    /\ account.authVersion < MaxVersion /\ WithinBound
    /\ account' = [account EXCEPT !.password = @ + 1, !.authVersion = @ + 1]
    /\ tokens' = Consume(Unconsumed("RESET_PASSWORD"))
    /\ sessions' = Revoke(DOMAIN sessions)
    /\ Ends(r) /\ Overtakes
    /\ UNCHANGED code

\* The new address is named after the link that confirmed it.
ConfirmEmailChange(t) ==
    /\ account.active /\ tokens[t].purpose = "CHANGE_EMAIL" /\ Usable(t)
    /\ tokens[t].version = account.version
    /\ account.version < MaxVersion /\ account.authVersion < MaxVersion /\ WithinBound
    /\ account' = [account EXCEPT !.email = t, !.verified = TRUE,
                                  !.authVersion = @ + 1, !.version = @ + 1]
    /\ sessions' = Revoke(DOMAIN sessions)
    /\ tokens' = Consume(Unconsumed("CHANGE_EMAIL"))
    /\ Overtakes
    /\ UNCHANGED <<code, requests>>

-----------------------------------------------------------------------------
(* The account *)

UpdateAccount ==
    /\ account.active /\ account.version < MaxVersion /\ WithinBound
    /\ account' = [account EXCEPT !.version = @ + 1]
    /\ Overtakes
    /\ UNCHANGED <<sessions, tokens, code, requests>>

\* AnonymizeAccount asks for the account's row; its snapshot knows the
\* links and sessions made so far.
BeginDeletion ==
    /\ account.active /\ deletion = None
    /\ deletion' = [links |-> Len(tokens), sessions |-> Len(sessions)]
    /\ UNCHANGED <<account, sessions, tokens, code, requests>>

\* The rows of the snapshot: nothing it updates has changed since.
CommitDeletion ==
    /\ deletion # None
    /\ account' = [account EXCEPT !.active = FALSE, !.verified = FALSE, !.google = FALSE,
                                  !.local = FALSE, !.authVersion = @ + 1, !.version = @ + 1]
    /\ sessions' = Revoke(1..deletion.sessions)
    /\ tokens' = Consume(1..deletion.links)
    /\ deletion' = None
    /\ UNCHANGED <<code, requests>>

\* A wrong password, a failed transaction, a crash.
Stop(r) == ~Idle(r) /\ Ends(r) /\ UNCHANGED <<account, sessions, tokens, code, deletion>>

-----------------------------------------------------------------------------

Sessions == \E s \in DOMAIN sessions :
    Refresh(s) \/ RevokeSession(s) \/ ExpireSession(s) \/ PruneSession(s)
Links ==
    \/ EnqueueVerification \/ EnqueueVerificationCode \/ EnqueuePasswordReset
    \/ EnqueueEmailChange \/ WrongCode
    \/ \E t \in DOMAIN tokens : ExpireToken(t) \/ VerifyEmail(t) \/ ConfirmEmailChange(t)
Calls == \E r \in Requests :
    \/ Login(r) \/ LoginGoogle(r) \/ CreateSession(r) \/ RenewAuthentication(r) \/ ResetPassword(r)
    \/ \E s \in DOMAIN sessions, link \in BOOLEAN : Reauthenticate(r, s, link)
    \/ \E t \in DOMAIN tokens : ValidatePasswordReset(r, t)
    \/ ConfirmVerificationCode(r) \/ Stop(r)

Next == Sessions \/ Links \/ Calls \/ UpdateAccount \/ BeginDeletion \/ CommitDeletion

Spec == Init /\ [][Next]_vars

-----------------------------------------------------------------------------
(* Properties *)

\* However often a refresh token is used, copied or retried, its family has at
\* most one session that works (RotateSession).
OneLivePerFamily == \A s, q \in DOMAIN sessions :
    /\ sessions[s].status = "live" /\ sessions[q].status = "live"
    /\ sessions[s].family = sessions[q].family
    => s = q

\* No session outlives the proof it was opened with: a log in or a code that was
\* checked before a password reset, a change of address, a reauthentication or
\* the account's deletion does not open one afterwards, and neither does a chain
\* of refreshes.
SessionsAreCurrent == \A s \in DOMAIN sessions :
    sessions[s].status = "live" => account.active /\ sessions[s].proof = account.authVersion

\* A mailed reset link changes the password once, whoever races with it.
ResetTokenWorksOnce ==
    account.password <= Cardinality({t \in Of("RESET_PASSWORD") : tokens[t].status = "consumed"})

\* The link in a mail dies with the code in it: when it is guessed wrong too
\* often, used, or replaced.
LinkDiesWithCode == \A t \in Of("VERIFY_EMAIL") :
    Usable(t) => IF tokens[t].coded THEN code.live /\ code.attempts < MaxAttempts
                 ELSE ~code.live

\* The address that is confirmed is the last one asked for, and the profile is
\* still the one it was asked from.
LastAddressWins ==
    [][account'.email # account.email =>
          /\ \A t \in Of("CHANGE_EMAIL") : t <= account'.email
          /\ tokens[account'.email].version = account.version]_vars

\* The rows stay well formed, and a mailed link or code that was used, replaced
\* or guessed at is worth nothing.
IdentityInv == TypeOK /\ LinkDiesWithCode /\ ResetTokenWorksOnce

=============================================================================
