-------------------------- MODULE AccountSecurity --------------------------
(***************************************************************************)
(* One dashboard account: its password and reset links (forgot_password and *)
(* reset_password of crates/api/src/routes/auth.rs, the reset mail of       *)
(* dashboard.rs), its second factor (login, verify_otp_login, setup_otp,    *)
(* verify_otp, disable_otp) and its passkeys.                               *)
(*                                                                         *)
(* Every handler reads, decides and writes in statements of their own, so   *)
(* two requests of one account interleave between them.  Passwords, mails,  *)
(* secrets and one-time codes are identities: a password is named by the    *)
(* link that set it, a one-time code by the secret it was computed from.    *)
(* Passkeys are counted.                                                    *)
(***************************************************************************)
EXTENDS Requests, FiniteSets

CONSTANTS
    MaxPasskeys,   \* 3
    CodesPerBatch, \* backup codes generated when OTP is enabled (8)
    MaxLinks, MaxSecrets, MaxBatches, MaxChallenges, MaxStored   \* bounds on what is generated

ASSUME AccountAssumption ==
    /\ MaxPasskeys \in Nat \ {0} /\ CodesPerBatch \in Nat
    /\ MaxLinks \in Nat /\ MaxSecrets \in Nat /\ MaxBatches \in Nat
    /\ MaxChallenges \in Nat /\ MaxStored \in Nat
    /\ IsFiniteSet(Slots)

VARIABLES
    active,     \* status of the user is 'active'
    user,       \* password, reset_password_token (0: NULL) and reset_password_sent_at
    mail,       \* links generated, mailed, whose mail failed; resets[n]: passwords set by n
    tokens,     \* what the client holds: a session JWT, a login token
    otp,        \* row of user_otp_settings
    shown,      \* the last secret shown, secrets a code was verified for, the last batch of codes
    used,       \* used[c]: logins by backup code c, counted up to 2
    lost,       \* codes or a secret were replaced between a handler's read and write, or
                \* shown and never stored (history)
    challenges, \* registration challenges in Redis
    passkeys,   \* number of rows of webauthn_credentials
    issued,     \* challenges generated so far
    spent,      \* challenges a passkey was stored for (history)
    peak,       \* the most registrations that were open at the same time (history)
    repeats     \* passkeys stored for a challenge that was spent (history)

resetVars == <<user, mail>>
otpVars == <<otp, shown, used, lost>>
historyVars == <<spent, peak, repeats>>
passkeyVars == <<challenges, passkeys, issued, historyVars>>
accountVars == <<active, resetVars, tokens, otpVars, passkeyVars>>

Links == 1..MaxLinks
Codes == (1..MaxBatches) \X (1..CodesPerBatch)
Challenges == 1..MaxChallenges
NoRow == [secret |-> 0, enabled |-> FALSE, codes |-> {}]

AccountInit ==
    /\ active = TRUE
    /\ user = [password |-> 0, link |-> 0, sent |-> "never"]
    /\ mail = [last |-> 0, sent |-> {}, failed |-> {}, resets |-> [n \in Links |-> 0]]
    /\ tokens = [session |-> FALSE, login |-> FALSE]
    /\ otp = NoRow
    /\ shown = [secret |-> 0, proven |-> {}, batch |-> 0]
    /\ used = [c \in Codes |-> 0]
    /\ lost = [codes |-> FALSE, secret |-> FALSE]
    /\ challenges = {} /\ passkeys = 0 /\ issued = 0
    /\ spent = {} /\ peak = 0 /\ repeats = 0

\* A bearer token is present, decodes as Claims (a login token does too), and its user
\* is active.
Authenticated == active /\ (tokens.session \/ tokens.login)

\* The operator suspends the account in the database.
Suspend ==
    /\ active /\ "suspend" \in workload
    /\ active' = FALSE
    /\ UNCHANGED <<requestVars, resetVars, tokens, otpVars, passkeyVars>>

-----------------------------------------------------------------------------
(* The password and its reset links.                                        *)

\* Answered at once when a link was written in the last five minutes.
AskForLink(s) ==
    /\ IF user.sent = "recent" THEN Answer(s) ELSE Step(s, "write link", Nothing)
    /\ UNCHANGED accountVars

\* Without a session, by address; an address without an active user gets the same
\* answer.
ForgotPassword(s) ==
    /\ Receives(s, "forgot") /\ active
    /\ AskForLink(s)

\* The same mail, asked for from the settings page.
SendPasswordResetEmail(s) ==
    /\ Receives(s, "send reset") /\ Authenticated
    /\ AskForLink(s)

\* A new link replaces the one stored; nothing compares sent_at again.
WriteLink(s) ==
    /\ at[s] = "write link" /\ mail.last < MaxLinks
    /\ user' = [user EXCEPT !.link = mail.last + 1, !.sent = "recent"]
    /\ mail' = [mail EXCEPT !.last = @ + 1]
    /\ Step(s, "send mail", mail.last + 1)
    /\ UNCHANGED <<active, tokens, otpVars, passkeyVars>>

\* send_reset_email succeeds, or fails and the request is answered with an error.
SendMail(s) ==
    /\ at[s] = "send mail"
    /\ \/ mail' = [mail EXCEPT !.sent = @ \cup {held[s]}]
       \/ mail' = [mail EXCEPT !.failed = @ \cup {held[s]}]
    /\ Answer(s)
    /\ UNCHANGED <<active, user, tokens, otpVars, passkeyVars>>

FiveMinutesPass ==
    /\ user.sent = "recent"
    /\ user' = [user EXCEPT !.sent = "old"]
    /\ UNCHANGED <<requestVars, active, mail, tokens, otpVars, passkeyVars>>

Reset(n, row) ==
    /\ user.link = n
    /\ user' = row
    /\ mail' = [mail EXCEPT !.resets[n] = @ + 1]

\* Mutant: the link is used up, the time of its mail stays.
ResetPasswordKeepsSent(s) ==
    /\ Receives(s, "reset") /\ active
    /\ \E n \in mail.sent : Reset(n, [user EXCEPT !.password = n, !.link = 0])
    /\ Answer(s)
    /\ UNCHANGED <<active, tokens, otpVars, passkeyVars>>

\* The owner follows a mailed link with a password the policy accepts.  One statement
\* finds the active user by the link, sets the password and uses the link up; any other
\* link finds no row and changes nothing.
ResetPassword(s) ==
    /\ Receives(s, "reset") /\ active
    /\ \E n \in mail.sent : Reset(n, [password |-> n, link |-> 0, sent |-> "never"])
    /\ Answer(s)
    /\ UNCHANGED <<active, tokens, otpVars, passkeyVars>>

-----------------------------------------------------------------------------
(* Logging in.                                                              *)

\* The owner gives the right password (any other one is refused).  The user was read
\* first; whether OTP is enabled is read now, and decides which token is issued.
Login(s) ==
    /\ Receives(s, "login") /\ active
    /\ tokens' = IF otp.enabled THEN [tokens EXCEPT !.login = TRUE]
                                ELSE [tokens EXCEPT !.session = TRUE]
    /\ Answer(s)
    /\ UNCHANGED <<active, resetVars, otpVars, passkeyVars>>

\* The session ends after 24 hours, the login token after five minutes.
TokensExpire ==
    /\ "expire" \in workload
    /\ tokens' \in {[session |-> FALSE, login |-> FALSE], [tokens EXCEPT !.login = FALSE]}
    /\ tokens' # tokens
    /\ UNCHANGED <<requestVars, active, resetVars, otpVars, passkeyVars>>

\* The login token is valid, the user active and OTP enabled.
VerifyOtpLogin(s) ==
    /\ Receives(s, "otp login") /\ active /\ tokens.login
    /\ IF otp.enabled THEN Step(s, "read settings", Nothing) ELSE Answer(s)
    /\ UNCHANGED accountVars

\* A second SELECT reads secret and backup codes.  A one-time code of that secret logs
\* in; a backup code in the list is taken out of the handler's copy of it.
ReadSettings(s) ==
    /\ at[s] = "read settings"
    /\ \/ /\ otp.secret # 0
          /\ tokens' = [tokens EXCEPT !.session = TRUE]
          /\ Answer(s)
       \/ /\ \E c \in otp.codes : Step(s, "write codes", [code |-> c, read |-> otp.codes])
          /\ UNCHANGED tokens
    /\ UNCHANGED <<active, resetVars, otpVars, passkeyVars>>

\* The codes the handler leaves in the list.
StoreCodes(s, codes) ==
    /\ at[s] = "write codes"
    /\ otp' = [otp EXCEPT !.codes = codes]
    /\ used' = [used EXCEPT ![held[s].code] = IF @ = 2 THEN 2 ELSE @ + 1]
    /\ lost' = [lost EXCEPT !.codes = @ \/ otp.codes # held[s].read]
    /\ tokens' = [tokens EXCEPT !.session = TRUE]
    /\ Answer(s)
    /\ UNCHANGED <<active, resetVars, shown, passkeyVars>>

\* Mutant: the list is written back as it was read.
WriteCodesUnchanged(s) == StoreCodes(s, held[s].read)

\* The whole list is written back, without the code that was used, and a session is
\* issued.
WriteCodes(s) == StoreCodes(s, held[s].read \ {held[s].code})

-----------------------------------------------------------------------------
(* Setting up the second factor.                                            *)

\* A row is created with a secret, and never deleted.
HasRow == otp.secret # 0
OtherSecret == 0

\* Refused while OTP is enabled.
SetupOtp(s) ==
    /\ Receives(s, "setup otp") /\ Authenticated
    /\ IF otp.enabled THEN Answer(s) ELSE Step(s, "write secret", Nothing)
    /\ UNCHANGED accountVars

StoreSecret(s, enabled) ==
    /\ at[s] = "write secret" /\ shown.secret < MaxSecrets
    /\ otp' = [otp EXCEPT !.secret = shown.secret + 1, !.enabled = enabled]
    /\ shown' = [shown EXCEPT !.secret = @ + 1]
    /\ Answer(s)
    /\ UNCHANGED <<active, resetVars, tokens, used, lost, passkeyVars>>

\* Mutant: a second set-up replaces only the secret.
WriteSecretOnly(s) == StoreSecret(s, otp.enabled)

\* INSERT or, when the row exists, UPDATE: a new secret, not enabled, the backup codes
\* untouched.  The secret is shown to the owner.
WriteSecret(s) == StoreSecret(s, FALSE)

\* The secret is read, from the row or, when there is none, from the request itself
\* (OtherSecret: one that was set up elsewhere), and the code verified against it; a
\* code of another secret is refused.
VerifyOtp(s) ==
    /\ Receives(s, "verify otp") /\ Authenticated
    /\ IF HasRow
       THEN /\ shown' = [shown EXCEPT !.proven = @ \cup {otp.secret}]
            /\ Step(s, "enable otp", otp.secret)
       ELSE /\ Step(s, "enable otp", OtherSecret)
            /\ UNCHANGED shown
    /\ UNCHANGED <<active, resetVars, tokens, otp, used, lost, passkeyVars>>

\* OTP is enabled with new backup codes, whatever secret the row has by now.  Without a
\* row the UPDATE changes nothing, and the codes are shown all the same.
EnableOtp(s) ==
    /\ at[s] = "enable otp" /\ shown.batch < MaxBatches
    /\ otp' = IF HasRow
              THEN [otp EXCEPT !.enabled = TRUE, !.codes = {shown.batch + 1} \X (1..CodesPerBatch)]
              ELSE otp
    /\ shown' = [shown EXCEPT !.batch = @ + 1]
    /\ lost' = [codes |-> lost.codes \/ ~HasRow, secret |-> lost.secret \/ otp.secret # held[s]]
    /\ Step(s, "audit", "otp_enabled")
    /\ UNCHANGED <<active, resetVars, tokens, used, passkeyVars>>

\* Refused while OTP is not enabled.
DisableOtp(s) ==
    /\ Receives(s, "disable otp") /\ Authenticated
    /\ IF otp.enabled THEN Step(s, "clear enabled", Nothing) ELSE Answer(s)
    /\ UNCHANGED accountVars

ClearEnabled(s) ==
    /\ at[s] = "clear enabled"
    /\ otp' = [otp EXCEPT !.enabled = FALSE]
    /\ Step(s, "audit", "otp_disabled")
    /\ UNCHANGED <<active, resetVars, tokens, shown, used, lost, passkeyVars>>

-----------------------------------------------------------------------------
(* Passkeys.                                                                *)

\* The registrations that were granted and may still end in a first passkey: the count
\* was read, and the challenge is on its way, in Redis or read from there.
Pending == {q \in Slots : at[q] = "store challenge"}
Unspent == (challenges \cup {held[q] : q \in {p \in Slots : at[p] \in {"take challenge", "insert passkey"}}})
             \ spent
Open == Cardinality(Pending) + Cardinality(Unspent)

\* The count that is compared with the maximum before a registration begins.
GrantIf(s, free) ==
    /\ Receives(s, "passkey options") /\ Authenticated
    /\ \/ ~free /\ Answer(s) /\ UNCHANGED peak
       \/ free /\ Step(s, "store challenge", Nothing) /\ peak' = (IF peak > Open THEN peak ELSE Open + 1)
    /\ UNCHANGED <<active, resetVars, tokens, otpVars, challenges, passkeys, issued, spent, repeats>>

\* Mutant: the count is compared with > instead of >=.
PasskeyRegistrationOptionsOneMore(s) == GrantIf(s, passkeys <= MaxPasskeys)

\* Refused when the account has the maximum of passkeys.
PasskeyRegistrationOptions(s) == GrantIf(s, passkeys < MaxPasskeys)

\* The challenge is stored in Redis for 300 seconds and sent to the browser.
StoreChallenge(s) ==
    /\ at[s] = "store challenge" /\ issued < MaxChallenges
    /\ challenges' = challenges \cup {issued + 1}
    /\ issued' = issued + 1
    /\ Answer(s)
    /\ UNCHANGED <<active, resetVars, tokens, otpVars, passkeys, historyVars>>

ChallengeExpires ==
    /\ \E c \in challenges : challenges' = challenges \ {c}
    /\ UNCHANGED <<requestVars, active, resetVars, tokens, otpVars, passkeys, issued, historyVars>>

\* The challenge is read from Redis and the browser's credential verified against it;
\* without the challenge the request is refused.  Each request may bring a credential
\* of its own.
RegisterPasskey(s) ==
    /\ Receives(s, "register passkey") /\ Authenticated
    /\ \E c \in challenges : Step(s, "take challenge", c)
    /\ UNCHANGED accountVars

\* One-time use: the challenge is deleted, and a failure to delete it ignored.
TakeChallenge(s) ==
    /\ at[s] = "take challenge"
    /\ challenges' \in {challenges, challenges \ {held[s]}}
    /\ Step(s, "insert passkey", held[s])
    /\ UNCHANGED <<active, resetVars, tokens, otpVars, passkeys, issued, historyVars>>

\* INSERT; only external_id is unique, so any new credential is stored (one that is there
\* already is an error).  The challenge is deleted once more.
InsertPasskey(s) ==
    /\ at[s] = "insert passkey" /\ Cardinality(spent) + repeats < MaxStored
    /\ passkeys' = passkeys + 1
    /\ challenges' \in {challenges, challenges \ {held[s]}}
    /\ spent' = spent \cup {held[s]}
    /\ repeats' = IF held[s] \in spent THEN repeats + 1 ELSE repeats
    /\ Step(s, "audit", "passkey_created")
    /\ UNCHANGED <<active, resetVars, tokens, otpVars, issued, peak>>

\* The token is decoded; the user's status is not looked at.
DeletePasskey(s) ==
    /\ Receives(s, "delete passkey") /\ (tokens.session \/ tokens.login)
    /\ passkeys > 0 /\ passkeys' = passkeys - 1
    /\ Step(s, "audit", "passkey_deleted")
    /\ UNCHANGED <<active, resetVars, tokens, otpVars, challenges, issued, historyVars>>

-----------------------------------------------------------------------------
AccountStep(s) ==
    \/ ForgotPassword(s) \/ SendPasswordResetEmail(s) \/ WriteLink(s) \/ SendMail(s)
    \/ ResetPassword(s)
    \/ Login(s) \/ VerifyOtpLogin(s) \/ ReadSettings(s) \/ WriteCodes(s)
    \/ SetupOtp(s) \/ WriteSecret(s) \/ VerifyOtp(s) \/ EnableOtp(s)
    \/ DisableOtp(s) \/ ClearEnabled(s)
    \/ PasskeyRegistrationOptions(s) \/ StoreChallenge(s)
    \/ RegisterPasskey(s) \/ TakeChallenge(s) \/ InsertPasskey(s) \/ DeletePasskey(s)

AccountEvent == Suspend \/ FiveMinutesPass \/ TokensExpire \/ ChallengeExpires

-----------------------------------------------------------------------------
(* Properties.                                                              *)

\* A reset link sets at most one password, and never after a newer one was written; and
\* nobody is made to wait five minutes for a link that is used up: while a request is
\* answered with "a reset link was already sent", the newest link is stored and unused.
\* (That it also arrived is not promised: its mail may have failed.)
ResetLinksAreSound ==
    /\ \A n \in Links : mail.resets[n] <= 1
    /\ user.link # 0 => user.link = mail.last /\ mail.resets[user.link] = 0
    /\ user.sent = "recent" => user.link # 0
    /\ user.password # 0 => \A n \in Links : mail.resets[n] = 1 => n <= user.password

\* While OTP is enabled the owner has shown to possess the secret that is stored,
\* unless a set-up replaced the secret between the two statements of verify_otp.
EnabledSecretIsProven ==
    otp.enabled => otp.secret \in shown.proven \/ lost.secret

\* Unless one request overwrote a list of backup codes that another one had changed
\* since it was read, or verify_otp showed codes without a row to store them in, each
\* backup code logs in once, and the codes stored are the ones shown last without the
\* ones used.
BackupCodesAreExact ==
    lost.codes \/ /\ \A c \in Codes : used[c] <= 1
                  /\ otp.codes = {c \in Codes : c[1] = shown.batch /\ used[c] = 0}

\* By how much an account may exceed "Maximum of 3 passkeys allowed", which is checked
\* when a registration begins: by one for each further registration that was open at the
\* same time, and by one for each passkey stored for a challenge that had served already
\* because its one-time use was not enforced.  One registration after the other, with
\* every challenge deleted, keeps to the maximum.
PasskeyLimit == passkeys <= MaxPasskeys - 1 + peak + repeats
=============================================================================
