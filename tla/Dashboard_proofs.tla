-------------------------- MODULE Dashboard_proofs --------------------------
(***************************************************************************)
(* Proofs about Dashboard: the safety of the accounts, rule sets and keys,  *)
(* for any number of requests that run at the same time and any operations  *)
(* that their clients ask for.                                              *)
(*                                                                         *)
(* Each part has an invariant of its own, about its tables and about what   *)
(* the requests at its steps hold.  The parts have no table and no step in  *)
(* common, so that a step of one keeps the invariants of the others: that   *)
(* is what Keeps says.                                                      *)
(***************************************************************************)
EXTENDS Dashboard, FiniteSetTheorems, WellFoundedInduction, TLAPS

SlotInv ==
    /\ at = [s \in Slots |-> at[s]]
    /\ held = [s \in Slots |-> held[s]]

\* No request comes to one of these steps, and those that are at one hold what they held.
Keeps(steps) ==
    \A q \in Slots : at'[q] \in steps => at'[q] = at[q] /\ held'[q] = held[q]

\* Request s goes on to one of these steps, the others do not move.
Goes(s, steps) ==
    /\ at'[s] \in steps
    /\ \A q \in Slots \ {s} : at'[q] = at[q] /\ held'[q] = held[q]

Ends == {"idle", "audit"}
ResetSteps == {"write link", "send mail"}
OtpSteps == {"read settings", "write codes", "write secret", "enable otp", "clear enabled"}
PasskeySteps == {"store challenge", "take challenge", "insert passkey"}
AccountSteps == ResetSteps \cup OtpSteps \cup PasskeySteps
BuyerSteps ==
    {"insert buyer", "find integration", "insert integration", "set integration",
     "write buyer", "mark buyer deleted"} \cup SaveSteps
PublisherSteps ==
    {"insert publisher", "write publisher", "mark publisher deleted", "write key", "write hmac",
     "record request"}

ResetActs(s) ==
    \/ ForgotPassword(s) \/ SendPasswordResetEmail(s) \/ WriteLink(s) \/ SendMail(s)
    \/ ResetPassword(s)
OtpActs(s) ==
    \/ Login(s) \/ VerifyOtpLogin(s) \/ ReadSettings(s) \/ WriteCodes(s)
    \/ SetupOtp(s) \/ WriteSecret(s) \/ VerifyOtp(s) \/ EnableOtp(s)
    \/ DisableOtp(s) \/ ClearEnabled(s)
PasskeyActs(s) ==
    \/ PasskeyRegistrationOptions(s) \/ StoreChallenge(s)
    \/ RegisterPasskey(s) \/ TakeChallenge(s) \/ InsertPasskey(s) \/ DeletePasskey(s)

-----------------------------------------------------------------------------
(* The invariants of the account.                                           *)

ResetTypes ==
    /\ user = [password |-> user.password, link |-> user.link, sent |-> user.sent]
    /\ user.password \in Nat /\ user.link \in Nat
    /\ mail = [last |-> mail.last, sent |-> mail.sent, failed |-> mail.failed, resets |-> mail.resets]
    /\ mail.last \in Nat /\ mail.sent \subseteq Links /\ mail.resets \in [Links -> Nat]
    /\ \A s \in Slots : at[s] = "send mail" => held[s] \in Links

\* A link that was used, or set the password, is not newer than the newest one.
ResetInv ==
    /\ ResetTypes
    /\ user.password <= mail.last
    /\ mail.last <= MaxLinks
    /\ \A n \in Links : mail.resets[n] > 0 => n <= mail.last
    /\ ResetLinksAreSound

OtpTypes ==
    /\ otp = [secret |-> otp.secret, enabled |-> otp.enabled, codes |-> otp.codes]
    /\ otp.enabled \in BOOLEAN /\ otp.codes \subseteq Codes
    /\ shown = [secret |-> shown.secret, proven |-> shown.proven, batch |-> shown.batch]
    /\ shown.batch \in Nat
    /\ used \in [Codes -> Nat]
    /\ lost = [codes |-> lost.codes, secret |-> lost.secret]
    /\ lost.codes \in BOOLEAN /\ lost.secret \in BOOLEAN

\* The secret that a request goes on to enable OTP for is proven, unless there was none.
SecretInv ==
    /\ \A s \in Slots : at[s] = "enable otp" => held[s] \in shown.proven \cup {OtherSecret}
    /\ EnabledSecretIsProven

\* Codes that are stored, or were read or used, are of a batch that was shown.
CodesInv ==
    /\ \A c \in otp.codes : c[1] <= shown.batch
    /\ \A c \in Codes : used[c] > 0 => c[1] <= shown.batch
    /\ \A s \in Slots : at[s] = "write codes" =>
         /\ held[s].read \subseteq Codes
         /\ held[s].code \in held[s].read
         /\ \A c \in held[s].read : c[1] <= shown.batch
    /\ BackupCodesAreExact

OtpInv == OtpTypes /\ SecretInv /\ CodesInv

PasskeyTypes ==
    /\ passkeys \in Nat /\ issued \in Nat /\ peak \in Nat /\ repeats \in Nat
    /\ challenges \subseteq 1..issued /\ spent \subseteq 1..issued
    /\ \A s \in Slots : at[s] \in {"take challenge", "insert passkey"} => held[s] \in 1..issued

\* There is room for every registration that is open.
PasskeyInv ==
    /\ PasskeyTypes
    /\ passkeys + Open <= MaxPasskeys - 1 + peak + repeats

-----------------------------------------------------------------------------
(* Requests.                                                                *)

\* What a step of request s does to the slots.
LEMMA StepGoes ==
  ASSUME SlotInv, NEW s \in Slots, NEW name, NEW data, Step(s, name, data)
  PROVE  /\ SlotInv'
         /\ at'[s] = name /\ held'[s] = data
         /\ Goes(s, {name})
  BY DEF SlotInv, Step, Goes

\* An answer ends the request.
LEMMA AnswerGoes ==
  ASSUME SlotInv, NEW s \in Slots, Answer(s)
  PROVE  SlotInv' /\ Goes(s, {"idle"})
  BY StepGoes DEF Answer

\* A request that goes to other steps keeps those that are at these.
LEMMA GoesKeeps ==
  ASSUME NEW s \in Slots, NEW steps, NEW others, Goes(s, others), steps \cap others = {}
  PROVE  Keeps(steps)
  BY DEF Goes, Keeps

\* Nobody moves.
LEMMA StayKeeps ==
  ASSUME at' = at, held' = held, SlotInv, NEW steps
  PROVE  Keeps(steps) /\ SlotInv'
  BY DEF Keeps, SlotInv

\* The steps of any handler.
LEMMA RequestGoes ==
  ASSUME SlotInv, NEW s \in Slots, RequestStep(s)
  PROVE  SlotInv' /\ Goes(s, Ends)
<1>1. CASE CreateAuditLog(s)
  BY <1>1 DEF CreateAuditLog, SlotInv, Goes, Ends
<1>2. CASE Abandon(s)
  BY <1>2, AnswerGoes DEF Abandon, Goes, Ends
<1> QED BY <1>1, <1>2 DEF RequestStep

-----------------------------------------------------------------------------
(* Where the steps of each part go, and what they leave alone.              *)

\* The password and its links.
LEMMA ResetGoes ==
  ASSUME SlotInv, NEW s \in Slots, ResetActs(s)
  PROVE  /\ SlotInv' /\ Goes(s, ResetSteps \cup Ends)
         /\ UNCHANGED <<otpVars, passkeyVars>>
<1>1. CASE \/ ForgotPassword(s) \/ SendPasswordResetEmail(s)
  <2>1. AskForLink(s)
    BY <1>1 DEF ForgotPassword, SendPasswordResetEmail
  <2>2. Answer(s) \/ Step(s, "write link", Nothing)
    BY <2>1 DEF AskForLink
  <2> QED BY <2>1, <2>2, AnswerGoes, StepGoes DEF AskForLink, accountVars, Goes, ResetSteps, Ends
<1>2. CASE WriteLink(s)
  BY <1>2, StepGoes DEF WriteLink, Goes, ResetSteps
<1>3. CASE SendMail(s)
  BY <1>3, AnswerGoes DEF SendMail, Goes, Ends
<1>4. CASE ResetPassword(s)
  BY <1>4, AnswerGoes DEF ResetPassword, Goes, Ends
<1> QED BY <1>1, <1>2, <1>3, <1>4 DEF ResetActs

\* Logging in and the second factor.
LEMMA OtpGoes ==
  ASSUME SlotInv, NEW s \in Slots, OtpActs(s)
  PROVE  /\ SlotInv' /\ Goes(s, OtpSteps \cup Ends)
         /\ UNCHANGED <<resetVars, passkeyVars>>
<1>1. CASE Login(s)
  BY <1>1, AnswerGoes DEF Login, Goes, Ends
<1>2. CASE VerifyOtpLogin(s)
  BY <1>2, AnswerGoes, StepGoes DEF VerifyOtpLogin, accountVars, Goes, OtpSteps, Ends
<1>3. CASE ReadSettings(s)
  BY <1>3, AnswerGoes, StepGoes DEF ReadSettings, Goes, OtpSteps, Ends
<1>4. CASE WriteCodes(s)
  BY <1>4, AnswerGoes DEF WriteCodes, StoreCodes, Goes, Ends
<1>5. CASE SetupOtp(s)
  BY <1>5, AnswerGoes, StepGoes DEF SetupOtp, accountVars, Goes, OtpSteps, Ends
<1>6. CASE WriteSecret(s)
  BY <1>6, AnswerGoes DEF WriteSecret, StoreSecret, Goes, Ends
<1>7. CASE VerifyOtp(s)
  BY <1>7, StepGoes DEF VerifyOtp, Goes, OtpSteps
<1>8. CASE EnableOtp(s)
  BY <1>8, StepGoes DEF EnableOtp, Goes, Ends
<1>9. CASE DisableOtp(s)
  BY <1>9, AnswerGoes, StepGoes DEF DisableOtp, accountVars, Goes, OtpSteps, Ends
<1>10. CASE ClearEnabled(s)
  BY <1>10, StepGoes DEF ClearEnabled, Goes, Ends
<1> QED BY <1>1, <1>2, <1>3, <1>4, <1>5, <1>6, <1>7, <1>8, <1>9, <1>10 DEF OtpActs

\* Passkeys.
LEMMA PasskeyGoes ==
  ASSUME SlotInv, NEW s \in Slots, PasskeyActs(s)
  PROVE  /\ SlotInv' /\ Goes(s, PasskeySteps \cup Ends)
         /\ UNCHANGED <<resetVars, otpVars>>
<1>1. CASE PasskeyRegistrationOptions(s)
  BY <1>1, AnswerGoes, StepGoes DEF PasskeyRegistrationOptions, GrantIf, Goes, PasskeySteps, Ends
<1>2. CASE StoreChallenge(s)
  BY <1>2, AnswerGoes DEF StoreChallenge, Goes, Ends
<1>3. CASE RegisterPasskey(s)
  BY <1>3, StepGoes DEF RegisterPasskey, accountVars, Goes, PasskeySteps
<1>4. CASE TakeChallenge(s)
  BY <1>4, StepGoes DEF TakeChallenge, Goes, PasskeySteps
<1>5. CASE InsertPasskey(s)
  BY <1>5, StepGoes DEF InsertPasskey, Goes, Ends
<1>6. CASE DeletePasskey(s)
  BY <1>6, StepGoes DEF DeletePasskey, Goes, Ends
<1> QED BY <1>1, <1>2, <1>3, <1>4, <1>5, <1>6 DEF PasskeyActs

\* The steps of the account are of one of these parts.
LEMMA AccountParts ==
  ASSUME NEW s \in Slots, AccountStep(s)
  PROVE  ResetActs(s) \/ OtpActs(s) \/ PasskeyActs(s)
  BY DEF AccountStep, ResetActs, OtpActs, PasskeyActs

\* All steps of the account.
LEMMA AccountGoes ==
  ASSUME SlotInv, NEW s \in Slots, AccountStep(s)
  PROVE  SlotInv' /\ Goes(s, AccountSteps \cup Ends)
  BY AccountParts, ResetGoes, OtpGoes, PasskeyGoes DEF Goes, AccountSteps

\* Publishers and their keys.
LEMMA PublisherGoes ==
  ASSUME SlotInv, NEW s \in Slots, PublisherStep(s)
  PROVE  SlotInv' /\ Goes(s, PublisherSteps \cup Ends)
<1>1. CASE CreatePublisher(s)
  BY <1>1, AnswerGoes, StepGoes DEF CreatePublisher, Goes, PublisherSteps, Ends
<1>2. CASE InsertPublisher(s)
  BY <1>2, StepGoes DEF InsertPublisher, Goes, Ends
<1>3. CASE UpdatePublisher(s) \/ DeletePublisher(s) \/ RegenerateApiKey(s) \/ GenerateHmacSecret(s)
  BY <1>3, StepGoes DEF UpdatePublisher, DeletePublisher, RegenerateApiKey, GenerateHmacSecret,
     ReadPublisher, Goes, PublisherSteps
<1>4. CASE WritePublisher(s) \/ MarkPublisherDeleted(s) \/ WriteKey(s) \/ WriteHmacSecret(s)
  BY <1>4, StepGoes DEF WritePublisher, MarkPublisherDeleted, WriteKey, WriteHmacSecret, Goes, Ends
<1>5. CASE \E i \in Instances : Authenticate(s, i)
  <2>1. Answer(s) \/ \E row : Step(s, "record request", row.id)
    BY <1>5 DEF Authenticate, Admit
  <2> QED BY <2>1, AnswerGoes, StepGoes DEF Goes, PublisherSteps, Ends
<1>6. CASE \E i \in Instances : AuthenticateFails(s, i)
  BY <1>6, AnswerGoes DEF AuthenticateFails, Goes, Ends
<1>7. CASE RecordRequest(s)
  BY <1>7, AnswerGoes DEF RecordRequest, Goes, Ends
<1> QED BY <1>1, <1>2, <1>3, <1>4, <1>5, <1>6, <1>7 DEF PublisherStep

\* Where a save goes after its ZIP codes.
LEMMA AfterZipsIsSave == \A h : AfterZips(h) \in SaveSteps
  BY DEF AfterZips, SaveSteps

\* Buyers, rule sets and judgements.
LEMMA BuyerGoes ==
  ASSUME SlotInv, NEW s \in Slots, BuyerStep(s)
  PROVE  SlotInv' /\ Goes(s, BuyerSteps \cup Ends)
<1>1. CASE CreateBuyer(s)
  BY <1>1, AnswerGoes, StepGoes DEF CreateBuyer, Goes, BuyerSteps, Ends
<1>2. CASE InsertBuyer(s) \/ FindIntegration(s) \/ InsertIntegration(s) \/ SetIntegration(s)
  BY <1>2, StepGoes DEF InsertBuyer, FindIntegration, InsertIntegration, SetIntegration, Goes,
     BuyerSteps, Ends
<1>3. CASE UpdateBuyer(s) \/ WriteBuyer(s) \/ DeleteBuyer(s) \/ MarkBuyerDeleted(s)
  BY <1>3, StepGoes DEF UpdateBuyer, WriteBuyer, DeleteBuyer, MarkBuyerDeleted, Goes, BuyerSteps, Ends
<1>4. CASE CreateBuyerRuleSet(s) \/ UpdateBuyerRuleSet(s)
  <2>1. \E n \in SaveSteps : \E h : Step(s, n, h)
    BY <1>4, AfterZipsIsSave DEF CreateBuyerRuleSet, UpdateBuyerRuleSet, UpdateWith, SaveSteps
  <2> QED BY <2>1, StepGoes DEF Goes, BuyerSteps
<1>5. CASE DeactivateOthers(s)
  <2>1. \E n \in SaveSteps : \E h : Step(s, n, h)
    BY <1>5, AfterZipsIsSave DEF DeactivateOthers, ClearActive, SaveSteps
  <2> QED BY <2>1, StepGoes DEF Goes, BuyerSteps
<1>6. CASE FindZipList(s) \/ CreateZipList(s) \/ InsertZip(s) \/ ExtractionFails(s)
  <2>1. \E n \in SaveSteps : \E h : Step(s, n, h)
    BY <1>6, AfterZipsIsSave DEF FindZipList, CreateZipList, InsertZip, ExtractionFails, SaveSteps
  <2> QED BY <2>1, StepGoes DEF Goes, BuyerSteps
<1>7. CASE WriteRuleSet(s)
  BY <1>7, AnswerGoes, StepGoes DEF WriteRuleSet, Goes, Ends
<1>8. CASE DeleteBuyerRuleSet(s)
  BY <1>8, StepGoes DEF DeleteBuyerRuleSet, Goes, Ends
<1>9. CASE (\E i \in Instances : RoutePing(s, i) \/ RoutePingWithoutRules(s, i)) \/ RoutePost(s) \/ RouteFullpost(s)
  BY <1>9, AnswerGoes DEF RoutePing, RoutePingWithoutRules, RoutePost, RouteFullpost, JudgeWithoutRules, Goes, Ends
<1> QED BY <1>1, <1>2, <1>3, <1>4, <1>5, <1>6, <1>7, <1>8, <1>9 DEF BuyerStep, AdminStep

-----------------------------------------------------------------------------
(* What the steps of the server mean for each part.                         *)

\* No part has a step of another one.
LEMMA StepsDiffer ==
  /\ ResetSteps \cap (OtpSteps \cup Ends) = {} /\ ResetSteps \cap (PasskeySteps \cup Ends) = {}
  /\ OtpSteps \cap (ResetSteps \cup Ends) = {} /\ OtpSteps \cap (PasskeySteps \cup Ends) = {}
  /\ PasskeySteps \cap (ResetSteps \cup Ends) = {} /\ PasskeySteps \cap (OtpSteps \cup Ends) = {}
  /\ AccountSteps \cap (BuyerSteps \cup Ends) = {} /\ AccountSteps \cap (PublisherSteps \cup Ends) = {}
  /\ AccountSteps \cap Ends = {}
  /\ BuyerSteps \cap (AccountSteps \cup Ends) = {} /\ BuyerSteps \cap (PublisherSteps \cup Ends) = {}
  /\ BuyerSteps \cap Ends = {}
  BY DEF AccountSteps, ResetSteps, OtpSteps, PasskeySteps, BuyerSteps, SaveSteps, PublisherSteps,
     Ends

\* What is kept for more steps is kept for fewer.
LEMMA KeepsFewer ==
  ASSUME NEW steps, NEW fewer \in SUBSET steps, Keeps(steps)
  PROVE  Keeps(fewer)
  BY DEF Keeps

\* A step that is none of a request leaves the slots alone.
LEMMA EventsStay ==
  ASSUME \/ AccountEvent \/ TimePasses \/ UNCHANGED dashboardVars
  PROVE  at' = at /\ held' = held
  BY DEF AccountEvent, Suspend, FiveMinutesPass, TokensExpire, ChallengeExpires, TimePasses,
     requestVars, dashboardVars

\* The slots stay functions on Slots.
LEMMA SlotStep == SlotInv /\ [DashboardNext]_dashboardVars => SlotInv'
<1> SUFFICES ASSUME SlotInv, [DashboardNext]_dashboardVars PROVE SlotInv'
  OBVIOUS
<1>1. CASE \E s \in Slots : Handler(s)
  BY <1>1, AccountGoes, BuyerGoes, PublisherGoes, RequestGoes DEF Handler
<1>2. CASE AccountEvent \/ TimePasses \/ UNCHANGED dashboardVars
  BY <1>2, EventsStay, StayKeeps
<1> QED BY <1>1, <1>2 DEF DashboardNext

\* Only steps of the account touch its tables and come to its steps.
LEMMA AccountCases ==
  ASSUME SlotInv, [DashboardNext]_dashboardVars
  PROVE  \/ \E s \in Slots : AccountStep(s)
         \/ AccountEvent /\ UNCHANGED <<at, held>>
         \/ UNCHANGED accountVars /\ Keeps(AccountSteps)
<1>1. ASSUME NEW s \in Slots, Handler(s), ~AccountStep(s)
      PROVE  UNCHANGED accountVars /\ Keeps(AccountSteps)
  BY <1>1, BuyerGoes, PublisherGoes, RequestGoes, StepsDiffer, GoesKeeps DEF Handler
<1>2. CASE AccountEvent
  BY <1>2, EventsStay
<1>3. CASE TimePasses \/ UNCHANGED dashboardVars
  BY <1>3, EventsStay, StayKeeps DEF TimePasses, dashboardVars
<1> QED BY <1>1, <1>2, <1>3 DEF DashboardNext

\* The same for the tables of buyers and rule sets.
LEMMA BuyerCases ==
  ASSUME SlotInv, [DashboardNext]_dashboardVars
  PROVE  \/ \E s \in Slots : BuyerStep(s)
         \/ UNCHANGED <<buyerRowVars, ruleVars, zipVars>> /\ Keeps(BuyerSteps)
<1>1. ASSUME NEW s \in Slots, Handler(s), ~BuyerStep(s)
      PROVE  UNCHANGED <<buyerRowVars, ruleVars, zipVars>> /\ Keeps(BuyerSteps)
  BY <1>1, AccountGoes, PublisherGoes, RequestGoes, StepsDiffer, GoesKeeps
     DEF Handler, buyerVars
<1>2. CASE AccountEvent /\ UNCHANGED buyerVars
  BY <1>2, EventsStay, StayKeeps DEF buyerVars
<1>3. CASE TimePasses \/ UNCHANGED dashboardVars
  BY <1>3, EventsStay, StayKeeps DEF TimePasses, dashboardVars, buyerVars
<1> QED BY <1>1, <1>2, <1>3 DEF DashboardNext

-----------------------------------------------------------------------------
(* The password and its reset links.                                        *)

\* Steps of other parts.
LEMMA ResetFrame ==
  ASSUME ResetInv, UNCHANGED resetVars, Keeps(ResetSteps)
  PROVE  ResetInv'
  BY DEF ResetInv, ResetTypes, ResetLinksAreSound, resetVars, Keeps, ResetSteps

\* The fields, one by one.
LEMMA ResetFields ==
  ASSUME ResetTypes
  PROVE  /\ user.password \in Nat /\ user.link \in Nat
         /\ mail.last \in Nat /\ mail.sent \subseteq Links
         /\ mail.resets \in [Links -> Nat]
         /\ MaxLinks \in Nat
  BY AccountAssumption DEF ResetTypes

\* A request asks for a link.
LEMMA AskForLinkStep ==
  ASSUME SlotInv, ResetInv, NEW s \in Slots, AskForLink(s)
  PROVE  ResetInv'
<1>1. UNCHANGED <<user, mail>>
  BY DEF AskForLink, accountVars, resetVars
<1>2. Goes(s, {"idle", "write link"})
  BY AnswerGoes, StepGoes DEF AskForLink, Goes
<1>3. Keeps({"send mail"})
  BY <1>2, GoesKeeps
<1> QED BY <1>1, <1>3 DEF ResetInv, ResetTypes, ResetLinksAreSound, Keeps

\* A newer link replaces the one that is stored; it was never used.
LEMMA WriteLinkStep ==
  ASSUME SlotInv, ResetInv, NEW s \in Slots, WriteLink(s)
  PROVE  ResetInv'
<1>1. mail.last < MaxLinks
  BY DEF WriteLink
<1>2. user' = [password |-> user.password, link |-> mail.last + 1, sent |-> "recent"]
  BY DEF WriteLink, ResetInv, ResetTypes
<1>3. mail' = [last |-> mail.last + 1, sent |-> mail.sent, failed |-> mail.failed, resets |-> mail.resets]
  BY DEF WriteLink, ResetInv, ResetTypes
<1>4. held'[s] = mail.last + 1 /\ Goes(s, {"send mail"})
  BY StepGoes DEF WriteLink
<1>5. mail.last + 1 \in Links
  BY <1>1, ResetFields DEF ResetInv, Links
<1>6. /\ user'.password = user.password /\ user'.link = mail.last + 1 /\ user'.sent = "recent"
      /\ mail'.last = mail.last + 1 /\ mail'.sent = mail.sent /\ mail'.resets = mail.resets
  BY <1>2, <1>3
<1>7. ResetTypes'
  <2>1. \A q \in Slots : at'[q] = "send mail" => held'[q] \in Links
    BY <1>4, <1>5 DEF ResetInv, ResetTypes, Goes
  <2>2. user'.link \in Nat /\ mail'.last \in Nat
    BY <1>6, ResetFields DEF ResetInv
  <2> QED BY <1>2, <1>3, <1>6, <2>1, <2>2, ResetFields DEF ResetInv, ResetTypes
<1>8. ResetLinksAreSound'
  BY <1>5, <1>6, ResetFields DEF ResetInv, ResetLinksAreSound, Links
<1> QED BY <1>1, <1>6, <1>7, <1>8, ResetFields DEF ResetInv, Links

\* The mail goes out, or fails.
LEMMA SendMailStep ==
  ASSUME SlotInv, ResetInv, NEW s \in Slots, SendMail(s)
  PROVE  ResetInv'
<1>1. user' = user /\ held[s] \in Links
  BY DEF SendMail, ResetInv, ResetTypes
<1>2. PICK sent \in {mail.sent, mail.sent \cup {held[s]}}, failed \in {mail.failed, mail.failed \cup {held[s]}} :
        mail' = [last |-> mail.last, sent |-> sent, failed |-> failed, resets |-> mail.resets]
  BY DEF SendMail, ResetInv, ResetTypes
<1>3. Goes(s, {"idle"})
  BY AnswerGoes DEF SendMail
<1>4. mail'.last = mail.last /\ mail'.resets = mail.resets /\ mail'.sent \subseteq Links
  BY <1>1, <1>2 DEF ResetInv, ResetTypes
<1>5. ResetTypes'
  BY <1>1, <1>2, <1>3, <1>4 DEF ResetInv, ResetTypes, Goes
<1> QED BY <1>1, <1>4, <1>5 DEF ResetInv, ResetLinksAreSound

\* The newest link sets a password, once.
LEMMA ResetPasswordStep ==
  ASSUME SlotInv, ResetInv, NEW s \in Slots, ResetPassword(s)
  PROVE  ResetInv'
<1>1. PICK n \in mail.sent : Reset(n, [password |-> n, link |-> 0, sent |-> "never"])
  BY DEF ResetPassword
<1>2. n \in Links /\ n \in Nat /\ n # 0
  <2>1. n \in Links
    BY ResetFields DEF ResetInv
  <2> QED BY <2>1, ResetFields DEF ResetInv, Links
<1>3. user.link = n /\ user' = [password |-> n, link |-> 0, sent |-> "never"]
  BY <1>1 DEF Reset
<1>4. n = mail.last /\ mail.resets[n] = 0
  BY <1>2, <1>3, ResetFields DEF ResetInv, ResetLinksAreSound
<1>5. mail' = [last |-> mail.last, sent |-> mail.sent, failed |-> mail.failed,
               resets |-> [mail.resets EXCEPT ![n] = mail.resets[n] + 1]]
  BY <1>1 DEF Reset, ResetInv, ResetTypes
<1>6. mail'.last = mail.last /\ mail'.sent = mail.sent /\ mail'.resets = [mail.resets EXCEPT ![n] = 1]
  BY <1>4, <1>5
<1>7. user'.password = n /\ user'.link = 0 /\ user'.sent = "never"
  BY <1>3
<1>8. Goes(s, {"idle"})
  BY AnswerGoes DEF ResetPassword
<1>9. ResetTypes'
  <2>1. \A q \in Slots : at'[q] = "send mail" => held'[q] \in Links
    BY <1>8 DEF ResetInv, ResetTypes, Goes
  <2>2. mail'.resets \in [Links -> Nat]
    BY <1>2, <1>6, ResetFields DEF ResetInv
  <2> QED BY <1>2, <1>3, <1>5, <1>6, <1>7, <2>1, <2>2, ResetFields DEF ResetInv, ResetTypes
<1>10. ResetLinksAreSound'
  BY <1>2, <1>4, <1>6, <1>7, ResetFields DEF ResetInv, ResetLinksAreSound, Links
<1> QED BY <1>2, <1>4, <1>6, <1>7, <1>9, <1>10, ResetFields DEF ResetInv, Links

\* The invariant of the reset links is inductive.
LEMMA ResetStep ==
  ASSUME SlotInv, ResetInv, [DashboardNext]_dashboardVars
  PROVE  ResetInv'
<1>1. CASE \E s \in Slots : AccountStep(s)
  <2> PICK s \in Slots : AccountStep(s)
    BY <1>1
  <2>1. CASE ResetActs(s)
    BY <2>1, AskForLinkStep, WriteLinkStep, SendMailStep, ResetPasswordStep
       DEF ResetActs, ForgotPassword, SendPasswordResetEmail
  <2>2. CASE OtpActs(s) \/ PasskeyActs(s)
    BY <2>2, OtpGoes, PasskeyGoes, StepsDiffer, GoesKeeps, ResetFrame
  <2> QED BY <2>1, <2>2, AccountParts
<1>2. CASE AccountEvent /\ UNCHANGED <<at, held>>
  <2>1. CASE FiveMinutesPass
    <3>1. /\ user' = [password |-> user.password, link |-> user.link, sent |-> "old"]
          /\ mail' = mail
      BY <2>1 DEF FiveMinutesPass, ResetInv, ResetTypes
    <3>2. user'.password = user.password /\ user'.link = user.link /\ user'.sent = "old"
      BY <3>1
    <3>3. ResetTypes'
      BY <1>2, <3>1, <3>2 DEF ResetInv, ResetTypes
    <3>4. ResetLinksAreSound'
      BY <3>1, <3>2 DEF ResetInv, ResetLinksAreSound
    <3> QED BY <3>1, <3>2, <3>3, <3>4 DEF ResetInv
  <2>2. CASE Suspend \/ TokensExpire \/ ChallengeExpires
    BY <1>2, <2>2, StayKeeps, ResetFrame DEF Suspend, TokensExpire, ChallengeExpires
  <2> QED BY <1>2, <2>1, <2>2 DEF AccountEvent
<1>3. CASE UNCHANGED accountVars /\ Keeps(AccountSteps)
  BY <1>3, ResetFrame, KeepsFewer DEF accountVars, AccountSteps
<1> QED BY <1>1, <1>2, <1>3, AccountCases

-----------------------------------------------------------------------------
(* The second factor and its backup codes.                                  *)

\* Steps of other parts, and steps that only move a request.
LEMMA OtpFrame ==
  ASSUME OtpInv, UNCHANGED otpVars, Keeps({"enable otp", "write codes"})
  PROVE  OtpInv'
<1>1. OtpTypes'
  BY DEF OtpInv, OtpTypes, otpVars
<1>2. SecretInv'
  BY DEF OtpInv, SecretInv, EnabledSecretIsProven, otpVars, Keeps
<1>3. CodesInv'
  BY DEF OtpInv, CodesInv, BackupCodesAreExact, otpVars, Keeps
<1> QED BY <1>1, <1>2, <1>3 DEF OtpInv

\* Logins, and the steps that read first.
LEMMA OtpReadStep ==
  ASSUME SlotInv, OtpInv, NEW s \in Slots,
         Login(s) \/ VerifyOtpLogin(s) \/ SetupOtp(s) \/ DisableOtp(s)
  PROVE  OtpInv'
<1>1. UNCHANGED otpVars
  BY DEF Login, VerifyOtpLogin, SetupOtp, DisableOtp, accountVars
<1>2. Goes(s, {"idle", "read settings", "write secret", "clear enabled"})
  BY AnswerGoes, StepGoes DEF Login, VerifyOtpLogin, SetupOtp, DisableOtp, Goes
<1> QED BY <1>1, <1>2, GoesKeeps, OtpFrame

\* The handler holds a copy of the list and a code that is in it.
LEMMA ReadSettingsStep ==
  ASSUME SlotInv, OtpInv, NEW s \in Slots, ReadSettings(s)
  PROVE  OtpInv'
<1>1. UNCHANGED otpVars
  BY DEF ReadSettings
<1>2. CASE Answer(s)
  BY <1>1, <1>2, AnswerGoes, GoesKeeps, OtpFrame
<1>3. ASSUME NEW c \in otp.codes, Step(s, "write codes", [code |-> c, read |-> otp.codes])
      PROVE  OtpInv'
  <2>1. /\ held'[s].code = c /\ held'[s].read = otp.codes
        /\ Goes(s, {"write codes"})
    <3>1. held'[s] = [code |-> c, read |-> otp.codes]
      BY <1>3, StepGoes
    <3>2. Goes(s, {"write codes"})
      BY <1>3, StepGoes
    <3>3. held'[s].code = c /\ held'[s].read = otp.codes
      BY <3>1
    <3> QED BY <3>2, <3>3
  <2>2. OtpTypes'
    BY <1>1 DEF OtpInv, OtpTypes, otpVars
  <2>3. SecretInv'
    BY <1>1, <2>1 DEF OtpInv, SecretInv, EnabledSecretIsProven, otpVars, Goes
  <2>4. CodesInv'
    BY <1>1, <2>1 DEF OtpInv, OtpTypes, CodesInv, BackupCodesAreExact, otpVars, Goes
  <2> QED BY <2>2, <2>3, <2>4 DEF OtpInv
<1> QED BY <1>2, <1>3 DEF ReadSettings

\* The code that was used leaves the list; unless the list changed since it was read it
\* was in it.
LEMMA WriteCodesStep ==
  ASSUME SlotInv, OtpInv, NEW s \in Slots, WriteCodes(s)
  PROVE  OtpInv'
<1> DEFINE c == held[s].code
           read == held[s].read
<1>1. /\ at[s] = "write codes" /\ shown' = shown
      /\ read \subseteq Codes /\ c \in read /\ c \in Codes
      /\ \A b \in read : b[1] <= shown.batch
  BY DEF WriteCodes, StoreCodes, OtpInv, CodesInv
<1>2. otp' = [secret |-> otp.secret, enabled |-> otp.enabled, codes |-> read \ {c}]
  BY DEF WriteCodes, StoreCodes, OtpInv, OtpTypes
<1>3. lost' = [codes |-> (lost.codes \/ otp.codes # read), secret |-> lost.secret]
  BY DEF WriteCodes, StoreCodes, OtpInv, OtpTypes
<1>4. used' = [used EXCEPT ![c] = IF used[c] = 2 THEN 2 ELSE used[c] + 1]
  BY DEF WriteCodes, StoreCodes
<1>5. Goes(s, {"idle"})
  BY AnswerGoes DEF WriteCodes, StoreCodes
<1>6. /\ otp'.secret = otp.secret /\ otp'.enabled = otp.enabled /\ otp'.codes = read \ {c}
      /\ lost'.secret = lost.secret /\ lost'.codes = (lost.codes \/ otp.codes # read)
  BY <1>2, <1>3
<1> HIDE DEF c, read
<1>0. used \in [Codes -> Nat]
  BY DEF OtpInv, OtpTypes
<1>7. used' \in [Codes -> Nat]
  <2>1. used[c] \in Nat /\ c \in Codes
    BY <1>0, <1>1
  <2>2. (IF used[c] = 2 THEN 2 ELSE used[c] + 1) \in Nat
    BY <2>1
  <2> QED BY <1>0, <1>4, <2>1, <2>2
<1>8. OtpTypes'
  BY <1>1, <1>2, <1>3, <1>6, <1>7 DEF OtpInv, OtpTypes
<1>9. SecretInv'
  BY <1>1, <1>5, <1>6 DEF OtpInv, SecretInv, EnabledSecretIsProven, Goes
<1>10. CodesInv'
  <2>1. \A b \in otp'.codes : b[1] <= shown'.batch
    BY <1>1, <1>6
  <2>2. \A b \in Codes : used'[b] > 0 => b[1] <= shown'.batch
    BY <1>1, <1>4 DEF OtpInv, OtpTypes, CodesInv
  <2>3. \A q \in Slots : at'[q] = "write codes" => at[q] = "write codes" /\ held'[q] = held[q]
    BY <1>5 DEF Goes
  <2>4. BackupCodesAreExact'
    <3> SUFFICES ASSUME ~lost'.codes
                 PROVE  /\ \A b \in Codes : used'[b] <= 1
                        /\ otp'.codes = {b \in Codes : b[1] = shown'.batch /\ used'[b] = 0}
      BY DEF BackupCodesAreExact
    <3>1. ~lost.codes /\ otp.codes = read
      BY <1>6
    <3>2. /\ \A b \in Codes : used[b] <= 1
          /\ read = {b \in Codes : b[1] = shown.batch /\ used[b] = 0}
      BY <3>1 DEF OtpInv, CodesInv, BackupCodesAreExact
    <3>3. used[c] = 0
      BY <1>1, <3>2
    <3>4. used' = [used EXCEPT ![c] = 1]
      BY <1>4, <3>3
    <3>5. used'[c] = 1 /\ \A b \in Codes \ {c} : used'[b] = used[b]
      BY <1>0, <1>1, <3>4
    <3>6. \A b \in Codes : used'[b] <= 1
      BY <3>2, <3>5
    <3>7. \A b : b \in read \ {c} <=> b \in Codes /\ b[1] = shown.batch /\ used'[b] = 0
      BY <3>2, <3>5
    <3> QED BY <1>1, <1>6, <3>6, <3>7
  <2> QED BY <1>1, <2>1, <2>2, <2>3, <2>4 DEF OtpInv, CodesInv
<1> QED BY <1>8, <1>9, <1>10 DEF OtpInv

\* A new secret is not enabled.
LEMMA WriteSecretStep ==
  ASSUME SlotInv, OtpInv, NEW s \in Slots, WriteSecret(s)
  PROVE  OtpInv'
<1>1. UNCHANGED <<used, lost>>
  BY DEF WriteSecret, StoreSecret
<1>2. otp' = [secret |-> shown.secret + 1, enabled |-> FALSE, codes |-> otp.codes]
  BY DEF WriteSecret, StoreSecret, OtpInv, OtpTypes
<1>3. shown' = [secret |-> shown.secret + 1, proven |-> shown.proven, batch |-> shown.batch]
  BY DEF WriteSecret, StoreSecret, OtpInv, OtpTypes
<1>4. Goes(s, {"idle"})
  BY AnswerGoes DEF WriteSecret, StoreSecret
<1>5. /\ otp'.enabled = FALSE /\ otp'.codes = otp.codes
      /\ shown'.proven = shown.proven /\ shown'.batch = shown.batch
  BY <1>2, <1>3
<1>6. OtpTypes'
  BY <1>1, <1>2, <1>3, <1>5 DEF OtpInv, OtpTypes
<1>7. SecretInv'
  BY <1>4, <1>5 DEF OtpInv, SecretInv, EnabledSecretIsProven, Goes
<1>8. CodesInv'
  BY <1>1, <1>4, <1>5 DEF OtpInv, CodesInv, BackupCodesAreExact, Goes
<1> QED BY <1>6, <1>7, <1>8 DEF OtpInv

\* A code of the secret that is stored was verified, or one of a secret from elsewhere.
LEMMA VerifyOtpStep ==
  ASSUME SlotInv, OtpInv, NEW s \in Slots, VerifyOtp(s)
  PROVE  OtpInv'
<1>1. UNCHANGED <<otp, used, lost>>
  BY DEF VerifyOtp
<1>2. PICK proven :
        /\ shown' = [secret |-> shown.secret, proven |-> proven, batch |-> shown.batch]
        /\ shown.proven \subseteq proven
        /\ \/ held'[s] \in proven
           \/ held'[s] = OtherSecret
        /\ Goes(s, {"enable otp"})
  <2>1. CASE HasRow
    <3>1. shown' = [secret |-> shown.secret, proven |-> shown.proven \cup {otp.secret}, batch |-> shown.batch]
      BY <2>1 DEF VerifyOtp, OtpInv, OtpTypes
    <3>2. held'[s] = otp.secret /\ Goes(s, {"enable otp"})
      BY <2>1, StepGoes DEF VerifyOtp
    <3> DEFINE p == shown.proven \cup {otp.secret}
    <3>3. shown.proven \subseteq p /\ held'[s] \in p
      BY <3>2
    <3>4. shown' = [secret |-> shown.secret, proven |-> p, batch |-> shown.batch]
      BY <3>1
    <3> HIDE DEF p
    <3> QED BY <3>2, <3>3, <3>4
  <2>2. CASE ~HasRow
    <3>1. shown' = [secret |-> shown.secret, proven |-> shown.proven, batch |-> shown.batch]
      BY <2>2 DEF VerifyOtp, OtpInv, OtpTypes
    <3>2. held'[s] = OtherSecret /\ Goes(s, {"enable otp"})
      BY <2>2, StepGoes DEF VerifyOtp
    <3> QED BY <3>1, <3>2
  <2> QED BY <2>1, <2>2
<1>4. shown'.proven = proven /\ shown'.batch = shown.batch
  BY <1>2
<1>5. OtpTypes'
  BY <1>1, <1>2, <1>4 DEF OtpInv, OtpTypes
<1>6. SecretInv'
  BY <1>1, <1>2, <1>4 DEF OtpInv, SecretInv, EnabledSecretIsProven, Goes
<1>7. CodesInv'
  BY <1>1, <1>2, <1>4 DEF OtpInv, CodesInv, BackupCodesAreExact, Goes
<1> QED BY <1>5, <1>6, <1>7 DEF OtpInv

\* OTP is enabled with a batch of codes nobody has used; or, without a row, the codes are
\* shown and lost.
LEMMA EnableOtpStep ==
  ASSUME SlotInv, OtpInv, NEW s \in Slots, EnableOtp(s)
  PROVE  OtpInv'
<1> DEFINE batch == {shown.batch + 1} \X (1..CodesPerBatch)
<1>1. at[s] = "enable otp" /\ shown.batch < MaxBatches /\ used' = used
  BY DEF EnableOtp
<1>2. \/ HasRow /\ otp' = [secret |-> otp.secret, enabled |-> TRUE, codes |-> batch]
      \/ ~HasRow /\ otp' = otp
  BY DEF EnableOtp, OtpInv, OtpTypes
<1>3. shown' = [secret |-> shown.secret, proven |-> shown.proven, batch |-> shown.batch + 1]
  BY DEF EnableOtp, OtpInv, OtpTypes
<1>4. PICK codes, secret \in BOOLEAN :
        /\ lost' = [codes |-> codes, secret |-> secret]
        /\ codes = (lost.codes \/ ~HasRow)
        /\ secret = (lost.secret \/ otp.secret # held[s])
  BY DEF EnableOtp
<1>5. Goes(s, {"audit"})
  BY StepGoes DEF EnableOtp
<1> HIDE DEF batch
<1>6. /\ \/ HasRow /\ otp'.secret = otp.secret /\ otp'.codes = batch
         \/ ~HasRow /\ otp'.secret = otp.secret /\ otp'.codes = otp.codes /\ otp'.enabled = otp.enabled
      /\ otp'.enabled \in BOOLEAN
      /\ otp' = [secret |-> otp'.secret, enabled |-> otp'.enabled, codes |-> otp'.codes]
  <2>1. CASE HasRow
    <3>1. otp' = [secret |-> otp.secret, enabled |-> TRUE, codes |-> batch]
      BY <1>2, <2>1
    <3>2. otp'.secret = otp.secret /\ otp'.enabled = TRUE /\ otp'.codes = batch
      BY <3>1
    <3> QED BY <2>1, <3>1, <3>2
  <2>2. CASE ~HasRow
    BY <1>2, <2>2 DEF OtpInv, OtpTypes
  <2> QED BY <2>1, <2>2
<1>61. shown'.proven = shown.proven /\ shown'.batch = shown.batch + 1
  BY <1>3
<1>62. lost'.codes = codes /\ lost'.secret = secret
  BY <1>4
<1>7. shown.batch \in Nat /\ MaxBatches \in Nat
  BY AccountAssumption DEF OtpInv, OtpTypes
<1>8. batch = {b \in Codes : b[1] = shown.batch + 1}
  <2>1. shown.batch + 1 \in 1..MaxBatches
    <3>1. shown.batch < MaxBatches
      BY <1>1
    <3> QED BY <1>7, <3>1
  <2>2. \A b : b \in batch => b \in Codes /\ b[1] = shown.batch + 1
    BY <2>1 DEF batch, Codes
  <2>3. \A b : b \in Codes /\ b[1] = shown.batch + 1 => b \in batch
    BY DEF batch, Codes
  <2> QED BY <2>2, <2>3
<1>9. OtpTypes'
  <2>1. shown'.batch \in Nat /\ otp'.codes \subseteq Codes
    BY <1>6, <1>61, <1>7, <1>8 DEF OtpInv, OtpTypes
  <2> QED BY <1>1, <1>3, <1>4, <1>6, <1>61, <1>62, <2>1 DEF OtpInv, OtpTypes
<1>10. SecretInv'
  <2>1. \A q \in Slots : at'[q] = "enable otp" => held'[q] \in shown'.proven \cup {OtherSecret}
    BY <1>5, <1>61 DEF OtpInv, SecretInv, Goes
  <2>2. otp'.enabled => otp'.secret \in shown'.proven \/ lost'.secret
    BY <1>1, <1>4, <1>6, <1>61, <1>62 DEF OtpInv, SecretInv, EnabledSecretIsProven, HasRow, OtherSecret
  <2> QED BY <2>1, <2>2 DEF SecretInv, EnabledSecretIsProven
<1>11. \A b \in Codes : b[1] \in Int
  BY DEF Codes
<1>12. \A b \in Codes : b[1] <= shown.batch => b[1] <= shown.batch + 1 /\ b[1] # shown.batch + 1
  BY <1>7, <1>11
<1>13. \A b \in Codes : b[1] = shown.batch + 1 => used[b] = 0
  <2>1. \A b \in Codes : used[b] \in Nat /\ (used[b] > 0 => b[1] <= shown.batch)
    BY DEF OtpInv, OtpTypes, CodesInv
  <2> QED BY <1>12, <2>1
<1>14. CodesInv'
  <2>1. \A b \in otp'.codes : b[1] <= shown'.batch
    <3>1. \A b \in batch : b[1] <= shown.batch + 1
      BY <1>7, <1>8
    <3>2. \A b \in otp.codes : b[1] <= shown.batch + 1
      BY <1>12 DEF OtpInv, OtpTypes, CodesInv
    <3> QED BY <1>6, <1>61, <3>1, <3>2
  <2>2. \A b \in Codes : used'[b] > 0 => b[1] <= shown'.batch
    BY <1>1, <1>61, <1>12 DEF OtpInv, CodesInv
  <2>3. \A q \in Slots : at'[q] = "write codes" => at[q] = "write codes" /\ held'[q] = held[q]
    BY <1>5 DEF Goes
  <2>4. BackupCodesAreExact'
    <3> SUFFICES ASSUME ~lost'.codes
                 PROVE  /\ \A b \in Codes : used'[b] <= 1
                        /\ otp'.codes = {b \in Codes : b[1] = shown'.batch /\ used'[b] = 0}
      BY DEF BackupCodesAreExact
    <3>1. ~lost.codes /\ HasRow
      BY <1>4, <1>62
    <3>2. \A b \in Codes : used[b] <= 1
      BY <3>1 DEF OtpInv, CodesInv, BackupCodesAreExact
    <3>3. otp'.codes = batch
      BY <1>6, <3>1
    <3> QED BY <1>1, <1>61, <1>8, <1>13, <3>2, <3>3
  <2>5. \A q \in Slots : at[q] = "write codes" => \A b \in held[q].read : b[1] <= shown.batch + 1
    BY <1>12 DEF OtpInv, CodesInv
  <2> QED BY <1>61, <2>1, <2>2, <2>3, <2>4, <2>5 DEF OtpInv, CodesInv
<1> QED BY <1>9, <1>10, <1>14 DEF OtpInv

\* OTP is disabled.
LEMMA ClearEnabledStep ==
  ASSUME SlotInv, OtpInv, NEW s \in Slots, ClearEnabled(s)
  PROVE  OtpInv'
<1>1. UNCHANGED <<shown, used, lost>>
  BY DEF ClearEnabled
<1>2. otp' = [secret |-> otp.secret, enabled |-> FALSE, codes |-> otp.codes]
  BY DEF ClearEnabled, OtpInv, OtpTypes
<1>3. Goes(s, {"audit"})
  BY StepGoes DEF ClearEnabled
<1>4. otp'.enabled = FALSE /\ otp'.codes = otp.codes
  BY <1>2
<1>5. OtpTypes'
  BY <1>1, <1>2, <1>4 DEF OtpInv, OtpTypes
<1>6. SecretInv'
  BY <1>1, <1>3, <1>4 DEF OtpInv, SecretInv, EnabledSecretIsProven, Goes
<1>7. CodesInv'
  BY <1>1, <1>3, <1>4 DEF OtpInv, CodesInv, BackupCodesAreExact, Goes
<1> QED BY <1>5, <1>6, <1>7 DEF OtpInv

\* The invariant of the second factor is inductive.
LEMMA OtpStep ==
  ASSUME SlotInv, OtpInv, [DashboardNext]_dashboardVars
  PROVE  OtpInv'
<1>1. {"enable otp", "write codes"} \in SUBSET OtpSteps
  BY DEF OtpSteps
<1>2. CASE \E s \in Slots : AccountStep(s)
  <2> PICK s \in Slots : AccountStep(s)
    BY <1>2
  <2>1. CASE OtpActs(s)
    BY <2>1, OtpReadStep, ReadSettingsStep, WriteCodesStep, WriteSecretStep, VerifyOtpStep,
       EnableOtpStep, ClearEnabledStep DEF OtpActs
  <2>2. CASE ResetActs(s) \/ PasskeyActs(s)
    BY <1>1, <2>2, ResetGoes, PasskeyGoes, StepsDiffer, GoesKeeps, KeepsFewer, OtpFrame
  <2> QED BY <2>1, <2>2, AccountParts
<1>3. CASE AccountEvent /\ UNCHANGED <<at, held>>
  BY <1>3, StayKeeps, OtpFrame
     DEF AccountEvent, Suspend, FiveMinutesPass, TokensExpire, ChallengeExpires
<1>4. CASE UNCHANGED accountVars /\ Keeps(AccountSteps)
  BY <1>4, OtpFrame, KeepsFewer DEF accountVars, AccountSteps, OtpSteps
<1> QED BY <1>2, <1>3, <1>4, AccountCases

-----------------------------------------------------------------------------
(* Passkeys.                                                                *)

\* The counters, one by one.
LEMMA PasskeyNumbers ==
  ASSUME PasskeyTypes
  PROVE  passkeys \in Nat /\ issued \in Nat /\ peak \in Nat /\ repeats \in Nat
  BY DEF PasskeyTypes

\* The registrations that are open are finitely many.
LEMMA OpenIsFinite ==
  ASSUME PasskeyTypes
  PROVE  /\ IsFiniteSet(Pending) /\ Cardinality(Pending) \in Nat
         /\ IsFiniteSet(Unspent) /\ Cardinality(Unspent) \in Nat
         /\ MaxPasskeys \in Nat \ {0}
<1>1. Pending \subseteq Slots /\ IsFiniteSet(Slots)
  BY AccountAssumption DEF Pending
<1>2. Unspent \subseteq 1..issued
  BY DEF PasskeyTypes, Unspent
<1>3. IsFiniteSet(1..issued)
  <2>1. 1 \in Int /\ issued \in Int
    BY PasskeyNumbers
  <2> QED BY <2>1, FS_Interval
<1>4. IsFiniteSet(Pending) /\ IsFiniteSet(Unspent)
  BY <1>1, <1>2, <1>3, FS_Subset
<1> QED BY <1>4, FS_CardinalityType, AccountAssumption

\* Steps that open no registration and store no passkey.
LEMMA OpenShrinks ==
  ASSUME PasskeyInv, PasskeyTypes', passkeys' <= passkeys, peak' = peak, repeats' = repeats,
         Pending' \subseteq Pending, Unspent' \subseteq Unspent
  PROVE  PasskeyInv'
<1>1. /\ Cardinality(Pending') \in Nat /\ Cardinality(Pending') <= Cardinality(Pending)
      /\ Cardinality(Unspent') \in Nat /\ Cardinality(Unspent') <= Cardinality(Unspent)
      /\ Cardinality(Pending) \in Nat /\ Cardinality(Unspent) \in Nat /\ MaxPasskeys \in Nat
  BY OpenIsFinite, FS_Subset, FS_CardinalityType DEF PasskeyInv
<1>2. passkeys + (Cardinality(Pending) + Cardinality(Unspent)) <= MaxPasskeys - 1 + peak + repeats
  BY DEF PasskeyInv, Open
<1>3. passkeys \in Nat /\ passkeys' \in Nat /\ peak \in Nat /\ repeats \in Nat
  BY DEF PasskeyInv, PasskeyTypes
<1>4. passkeys' + (Cardinality(Pending') + Cardinality(Unspent')) <= MaxPasskeys - 1 + peak' + repeats'
  BY <1>1, <1>2, <1>3
<1> QED BY <1>4 DEF PasskeyInv, Open

\* Steps of other parts.
LEMMA PasskeyFrame ==
  ASSUME PasskeyInv, UNCHANGED passkeyVars, Keeps(PasskeySteps)
  PROVE  PasskeyInv'
<1>1. UNCHANGED <<challenges, passkeys, issued, spent, peak, repeats>>
  BY DEF passkeyVars, historyVars
<1>2. \A q \in Slots : at'[q] \in PasskeySteps => at'[q] = at[q] /\ held'[q] = held[q]
  BY DEF Keeps
<1>3. PasskeyTypes'
  BY <1>1, <1>2 DEF PasskeyInv, PasskeyTypes, PasskeySteps
<1>4. Pending' \subseteq Pending /\ Unspent' \subseteq Unspent
  BY <1>1, <1>2 DEF Pending, Unspent, PasskeySteps
<1>5. passkeys' <= passkeys
  <2>1. passkeys \in Nat
    BY PasskeyNumbers DEF PasskeyInv
  <2> QED BY <1>1, <2>1
<1> QED BY <1>1, <1>3, <1>4, <1>5, OpenShrinks

\* A registration is granted while there is room for one, and is counted.
LEMMA PasskeyOptionsStep ==
  ASSUME SlotInv, PasskeyInv, NEW s \in Slots, PasskeyRegistrationOptions(s)
  PROVE  PasskeyInv'
<1>1. at[s] = "idle" /\ UNCHANGED <<challenges, passkeys, issued, spent, repeats>>
  BY DEF PasskeyRegistrationOptions, GrantIf, Receives
<1>2. CASE Answer(s) /\ UNCHANGED peak
  <2>1. Keeps(PasskeySteps)
    BY <1>2, AnswerGoes, GoesKeeps DEF PasskeySteps
  <2> QED BY <1>1, <1>2, <2>1, PasskeyFrame DEF passkeyVars, historyVars
<1>3. CASE /\ passkeys < MaxPasskeys
           /\ Step(s, "store challenge", Nothing)
           /\ peak' = (IF peak > Open THEN peak ELSE Open + 1)
  <2>1. at'[s] = "store challenge" /\ \A q \in Slots \ {s} : at'[q] = at[q] /\ held'[q] = held[q]
    BY <1>3, StepGoes DEF Goes
  <2>2. Pending' = Pending \cup {s} /\ s \notin Pending
    BY <1>1, <2>1 DEF Pending
  <2>3. Unspent' = Unspent
    BY <1>1, <2>1 DEF Unspent
  <2>4. Cardinality(Pending') = Cardinality(Pending) + 1
    BY <2>2, OpenIsFinite, FS_AddElement DEF PasskeyInv
  <2>5. PICK p \in Nat, u \in Nat : p = Cardinality(Pending) /\ u = Cardinality(Unspent)
    BY OpenIsFinite DEF PasskeyInv
  <2>6. Open = p + u /\ Open' = p + 1 + u
    BY <2>3, <2>4, <2>5 DEF Open
  <2>7. /\ passkeys \in Nat /\ peak \in Nat /\ repeats \in Nat /\ MaxPasskeys \in Nat
    BY OpenIsFinite DEF PasskeyInv, PasskeyTypes
  <2>8. peak' \in Nat /\ peak' >= p + u + 1
    <3>1. peak' = IF peak > p + u THEN peak ELSE p + u + 1
      BY <1>3, <2>6
    <3> QED BY <2>7, <3>1
  <2>9. PasskeyTypes'
    BY <1>1, <2>1, <2>8 DEF PasskeyInv, PasskeyTypes
  <2>10. passkeys' + Open' <= MaxPasskeys - 1 + peak' + repeats'
    <3>0. passkeys < MaxPasskeys
      BY <1>3
    <3>1. passkeys' = passkeys /\ repeats' = repeats /\ Open' = p + 1 + u
      BY <1>1, <2>6
    <3>2. PICK k \in Nat : k = peak' /\ k >= p + u + 1
      BY <2>8
    <3>3. passkeys + (p + 1 + u) <= MaxPasskeys - 1 + k + repeats
      <4>1. k >= p + u + 1
        BY <3>2
      <4> QED BY <2>7, <3>0, <4>1
    <3> QED BY <3>1, <3>2, <3>3
  <2> QED BY <2>9, <2>10 DEF PasskeyInv
<1> QED BY <1>2, <1>3 DEF PasskeyRegistrationOptions, GrantIf

\* The registration stays open, with a challenge of its own.
LEMMA StoreChallengeStep ==
  ASSUME SlotInv, PasskeyInv, NEW s \in Slots, StoreChallenge(s)
  PROVE  PasskeyInv'
<1>1. /\ at[s] = "store challenge" /\ challenges' = challenges \cup {issued + 1} /\ issued' = issued + 1
      /\ UNCHANGED <<passkeys, spent, peak, repeats>>
  BY DEF StoreChallenge, historyVars
<1>2. at'[s] = "idle" /\ \A q \in Slots \ {s} : at'[q] = at[q] /\ held'[q] = held[q]
  BY AnswerGoes DEF StoreChallenge, Goes
<1>3. issued \in Nat /\ (\A n \in 1..issued : n \in 1..(issued + 1)) /\ issued + 1 \notin 1..issued
      /\ issued + 1 \in 1..(issued + 1) /\ issued + 1 \in Nat
  <2>1. issued \in Nat
    BY PasskeyNumbers DEF PasskeyInv
  <2> QED BY <2>1
<1>4. PasskeyTypes'
  BY <1>1, <1>2, <1>3 DEF PasskeyInv, PasskeyTypes
<1>5. Pending' = Pending \ {s} /\ s \in Pending
  BY <1>1, <1>2 DEF Pending
<1>6. Unspent' = Unspent \cup {issued + 1} /\ issued + 1 \notin Unspent
  BY <1>1, <1>2, <1>3 DEF Unspent, PasskeyInv, PasskeyTypes
<1>7. /\ Cardinality(Pending') = Cardinality(Pending) - 1
      /\ Cardinality(Unspent') = Cardinality(Unspent) + 1
  BY <1>5, <1>6, OpenIsFinite, FS_AddElement, FS_RemoveElement DEF PasskeyInv
<1>8. Open' = Open
  BY <1>7, OpenIsFinite DEF PasskeyInv, Open
<1> QED BY <1>1, <1>4, <1>8 DEF PasskeyInv

\* The challenge is read, and deleted.
LEMMA PasskeyGoesOn ==
  ASSUME SlotInv, PasskeyInv, NEW s \in Slots, RegisterPasskey(s) \/ TakeChallenge(s)
  PROVE  PasskeyInv'
<1>1. UNCHANGED <<passkeys, issued, spent, peak, repeats>> /\ challenges' \subseteq challenges
  BY DEF RegisterPasskey, TakeChallenge, accountVars, passkeyVars, historyVars
<1>2. PICK step, c :
        /\ Step(s, step, c) /\ step \in {"take challenge", "insert passkey"}
        /\ c \in challenges \/ (at[s] = "take challenge" /\ c = held[s])
  BY DEF RegisterPasskey, TakeChallenge
<1>3. /\ at'[s] = step /\ held'[s] = c
      /\ \A q \in Slots \ {s} : at'[q] = at[q] /\ held'[q] = held[q]
  BY <1>2, StepGoes DEF Goes
<1>4. PasskeyTypes'
  BY <1>1, <1>2, <1>3 DEF PasskeyInv, PasskeyTypes
<1>5. Pending' \subseteq Pending
  BY <1>2, <1>3 DEF Pending
<1>6. Unspent' \subseteq Unspent
  BY <1>1, <1>2, <1>3 DEF Unspent
<1>7. passkeys' <= passkeys
  <2>1. passkeys \in Nat
    BY PasskeyNumbers DEF PasskeyInv
  <2> QED BY <1>1, <2>1
<1> QED BY <1>1, <1>4, <1>5, <1>6, <1>7, OpenShrinks

\* The passkey of a first use takes the room of its registration; a further one is a repeat.
LEMMA InsertPasskeyStep ==
  ASSUME SlotInv, PasskeyInv, NEW s \in Slots, InsertPasskey(s)
  PROVE  PasskeyInv'
<1>1. /\ at[s] = "insert passkey" /\ passkeys' = passkeys + 1 /\ challenges' \subseteq challenges
      /\ spent' = spent \cup {held[s]} /\ UNCHANGED <<issued, peak>>
  BY DEF InsertPasskey
<1>2. repeats' = IF held[s] \in spent THEN repeats + 1 ELSE repeats
  BY DEF InsertPasskey
<1>3. at'[s] = "audit" /\ \A q \in Slots \ {s} : at'[q] = at[q] /\ held'[q] = held[q]
  BY StepGoes DEF InsertPasskey, Goes
<1>4. /\ passkeys \in Nat /\ passkeys + 1 \in Nat /\ peak \in Nat /\ repeats \in Nat /\ repeats' \in Nat
      /\ MaxPasskeys \in Nat
  <2>1. passkeys \in Nat /\ peak \in Nat /\ repeats \in Nat
    BY PasskeyNumbers DEF PasskeyInv
  <2>2. repeats' \in {repeats, repeats + 1}
    BY <1>2
  <2> QED BY <2>1, <2>2, AccountAssumption
<1>5. PasskeyTypes'
  BY <1>1, <1>3, <1>4 DEF PasskeyInv, PasskeyTypes
<1>6. Pending' \subseteq Pending
  BY <1>3 DEF Pending
<1>7. Unspent' \subseteq Unspent \ {held[s]}
  BY <1>1, <1>3 DEF Unspent
<1>8. held[s] \notin spent => held[s] \in Unspent
  BY <1>1 DEF Unspent
<1>9. PICK p \in Nat, u \in Nat : p = Cardinality(Pending) /\ u = Cardinality(Unspent)
  BY OpenIsFinite DEF PasskeyInv
<1>10. PICK q \in Nat : q = Cardinality(Pending') /\ q <= p
  BY <1>6, <1>9, OpenIsFinite, FS_Subset, FS_CardinalityType DEF PasskeyInv
<1>11. PICK v \in Nat : v = Cardinality(Unspent') /\ v + 1 <= u + (IF held[s] \in spent THEN 1 ELSE 0)
  <2>1. IsFiniteSet(Unspent \ {held[s]}) /\ IsFiniteSet(Unspent)
    BY OpenIsFinite, FS_Subset DEF PasskeyInv
  <2>2. Cardinality(Unspent') \in Nat /\ Cardinality(Unspent') <= Cardinality(Unspent \ {held[s]})
    BY <1>7, <2>1, FS_Subset, FS_CardinalityType
  <2>3. CASE held[s] \in spent
    <3>1. held[s] \notin Unspent
      BY <2>3 DEF Unspent
    <3>2. Unspent \ {held[s]} = Unspent
      BY <3>1
    <3> QED BY <1>9, <2>2, <2>3, <3>2
  <2>4. CASE held[s] \notin spent
    <3>1. Cardinality(Unspent \ {held[s]}) = Cardinality(Unspent) - 1
      BY <1>8, <2>1, <2>4, FS_RemoveElement
    <3> QED BY <1>9, <2>2, <2>4, <3>1
  <2> QED BY <2>3, <2>4
<1>12. passkeys + (p + u) <= MaxPasskeys - 1 + peak + repeats
  BY <1>9 DEF PasskeyInv, Open
<1>13. repeats' = repeats + (IF held[s] \in spent THEN 1 ELSE 0)
  BY <1>2, <1>4
<1>14. passkeys + 1 + (q + v) <= MaxPasskeys - 1 + peak + repeats'
  BY <1>4, <1>10, <1>11, <1>12, <1>13
<1> QED BY <1>1, <1>5, <1>10, <1>11, <1>14 DEF PasskeyInv, Open

\* A passkey less makes room for one.
LEMMA DeletePasskeyStep ==
  ASSUME SlotInv, PasskeyInv, NEW s \in Slots, DeletePasskey(s)
  PROVE  PasskeyInv'
<1>1. /\ at[s] = "idle" /\ passkeys > 0 /\ passkeys' = passkeys - 1
      /\ UNCHANGED <<challenges, issued, spent, peak, repeats>>
  BY DEF DeletePasskey, Receives, historyVars
<1>2. at'[s] = "audit" /\ \A q \in Slots \ {s} : at'[q] = at[q] /\ held'[q] = held[q]
  BY StepGoes DEF DeletePasskey, Goes
<1>3. passkeys' \in Nat /\ passkeys' <= passkeys
  <2>1. passkeys \in Nat
    BY PasskeyNumbers DEF PasskeyInv
  <2>2. passkeys > 0 /\ passkeys' = passkeys - 1
    BY <1>1
  <2> QED BY <2>1, <2>2
<1>4. PasskeyTypes'
  BY <1>1, <1>2, <1>3 DEF PasskeyInv, PasskeyTypes
<1>5. Pending' \subseteq Pending /\ Unspent' \subseteq Unspent
  BY <1>1, <1>2 DEF Pending, Unspent
<1> QED BY <1>1, <1>3, <1>4, <1>5, OpenShrinks

\* The invariant of the passkeys is inductive.
LEMMA PasskeyStep ==
  ASSUME SlotInv, PasskeyInv, [DashboardNext]_dashboardVars
  PROVE  PasskeyInv'
<1>1. CASE \E s \in Slots : AccountStep(s)
  <2> PICK s \in Slots : AccountStep(s)
    BY <1>1
  <2>1. CASE PasskeyActs(s)
    BY <2>1, PasskeyOptionsStep, StoreChallengeStep, PasskeyGoesOn, InsertPasskeyStep, DeletePasskeyStep
       DEF PasskeyActs
  <2>2. CASE ResetActs(s) \/ OtpActs(s)
    BY <2>2, ResetGoes, OtpGoes, StepsDiffer, GoesKeeps, PasskeyFrame
  <2> QED BY <2>1, <2>2, AccountParts
<1>2. CASE AccountEvent /\ UNCHANGED <<at, held>>
  <2>1. CASE ChallengeExpires
    <3>1. UNCHANGED <<passkeys, issued, spent, peak, repeats>> /\ challenges' \subseteq challenges
      BY <2>1 DEF ChallengeExpires, historyVars
    <3>2. PasskeyTypes'
      BY <1>2, <3>1 DEF PasskeyInv, PasskeyTypes
    <3>3. Pending' \subseteq Pending /\ Unspent' \subseteq Unspent
      BY <1>2, <3>1 DEF Pending, Unspent
    <3>4. passkeys' <= passkeys
      <4>1. passkeys \in Nat
        BY PasskeyNumbers DEF PasskeyInv
      <4> QED BY <3>1, <4>1
    <3> QED BY <3>1, <3>2, <3>3, <3>4, OpenShrinks
  <2>2. CASE Suspend \/ FiveMinutesPass \/ TokensExpire
    BY <1>2, <2>2, StayKeeps, PasskeyFrame DEF Suspend, FiveMinutesPass, TokensExpire
  <2> QED BY <1>2, <2>1, <2>2 DEF AccountEvent
<1>3. CASE UNCHANGED accountVars /\ Keeps(AccountSteps)
  BY <1>3, KeepsFewer, PasskeyFrame DEF accountVars, AccountSteps
<1> QED BY <1>1, <1>2, <1>3, AccountCases

\* The limit follows.
LEMMA PasskeyFollows == PasskeyInv => PasskeyLimit
<1> SUFFICES ASSUME PasskeyInv PROVE PasskeyLimit
  OBVIOUS
<1>1. PICK p \in Nat, u \in Nat : p = Cardinality(Pending) /\ u = Cardinality(Unspent)
  BY OpenIsFinite DEF PasskeyInv
<1>2. passkeys + (p + u) <= MaxPasskeys - 1 + peak + repeats
  BY <1>1 DEF PasskeyInv, Open
<1>3. passkeys \in Nat /\ peak \in Nat /\ repeats \in Nat /\ MaxPasskeys \in Nat
  BY AccountAssumption DEF PasskeyInv, PasskeyTypes
<1> QED BY <1>2, <1>3 DEF PasskeyLimit

-----------------------------------------------------------------------------
(* The rule sets and the ZIP codes of a buyer.                              *)

ZipSteps == {"zip list", "create list", "insert zips"}

\* What a request holds while it saves a rule set.
IsSave(h) ==
    /\ h = [op |-> h.op, name |-> h.name, active |-> h.active, config |-> h.config, zips |-> h.zips,
            left |-> h.left, list |-> h.list, todo |-> h.todo, cleared |-> h.cleared]
    /\ h.op \in {"create", "update"} /\ h.name \in RuleSets
    /\ h.active \in BOOLEAN /\ h.cleared \in BOOLEAN
    /\ h.todo \subseteq Types
    /\ h.config \in Configs \/ (h.config = Unsaid /\ h.op = "update")

SavesInv == \A s \in Slots : at[s] \in SaveSteps => IsSave(held[s])

IsRuleSet(row) ==
    /\ row = [config |-> row.config, active |-> row.active, born |-> row.born]
    /\ row.config \in Configs /\ row.active \in BOOLEAN /\ row.born \in Nat

RulesInv ==
    /\ rules = [r \in RuleSets |-> rules[r]]
    /\ \A r \in RuleSets : rules[r] # NoRuleSet => IsRuleSet(rules[r])

Active(r) == rules[r] # NoRuleSet /\ rules[r].active

\* Request s has deactivated the other rule sets and not written its own yet.
Cleared(s) == at[s] \in SaveSteps /\ held[s].cleared

\* A request activates a rule set after it has deactivated the others only, ...
Prepared(s) ==
    /\ at[s] = "deactivate" => held[s].active
    /\ at[s] = "write rule set" /\ held[s].active => held[s].cleared
    /\ at[s] \in ZipSteps /\ held[s].op = "create" /\ held[s].active => held[s].cleared

\* ... and until it does, nobody else does.
Exclusive ==
    /\ \A r, q \in RuleSets : Active(r) /\ Active(q) => r = q
    /\ \A s, q \in Slots : Cleared(s) /\ Cleared(q) => s = q
    /\ \A s \in Slots, r \in RuleSets :
         Cleared(s) /\ Active(r) => held[s].op = "update" /\ r = held[s].name

ActiveInv ==
    /\ overlapped \in BOOLEAN
    /\ \A s \in Slots : Prepared(s)
    /\ ~overlapped => Exclusive

\* The ZIP codes that are in the tables or for which a statement failed.
Known(t) == LoadZipCodes(t) \cup unstored[t]

\* How far the ZIP codes of save h, at step name, were tried.
ZipsOf(name, h) ==
    /\ name = "write rule set" \/ (name = "deactivate" /\ h.op = "update") => h.todo = {}
    /\ name \in ZipSteps => h.todo # {}
    /\ \A t \in Types \ h.todo : h.zips[t] \subseteq Known(t)
    /\ name = "create list" => h.left = h.zips[TypeInTurn(h)]
    /\ name = "insert zips" =>
         /\ h.list \in ListsOf(TypeInTurn(h))
         /\ h.zips[TypeInTurn(h)] \ h.left \subseteq Known(TypeInTurn(h))

IsList(x) == x = [type |-> x.type, zips |-> x.zips]

ListsInv ==
    /\ Len(lists) \in Nat /\ lists = [l \in 1..Len(lists) |-> lists[l]]
    /\ \A l \in 1..Len(lists) : IsList(lists[l])
    /\ unstored = [t \in Types |-> unstored[t]]

ZipInv ==
    /\ ListsInv
    /\ \A s \in Slots : at[s] \in SaveSteps => ZipsOf(at[s], held[s])
    /\ MissingZipsFailed

-----------------------------------------------------------------------------
(* The cache: publishers by key, and the rule set in force.                 *)

CacheKeys == {RuleSetKey} \cup ApiKeys
TtlOf(k) == IF k = RuleSetKey THEN RuleTtl ELSE KeyTtl

\* What is known, at time t, of an entry of each level.
L1Entry(e, ttl, t) ==
    /\ e.read \in Int /\ e.ends \in Int
    /\ e.read <= t /\ t < e.ends
    /\ e.ends <= e.read + (ttl - 1) + L1Ttl

L2Entry(e, ttl, t) ==
    /\ e.read \in Int /\ e.ends \in Int
    /\ e.read <= t /\ t < e.ends
    /\ e.ends = e.read + ttl

CacheShape ==
    /\ DOMAIN l1 = Instances
    /\ \A i \in Instances : DOMAIN l1[i] = CacheKeys
    /\ DOMAIN l2 = CacheKeys

CacheInv ==
    /\ now \in Nat
    /\ CacheShape
    /\ \A i \in Instances, k \in CacheKeys : l1[i][k] # NoEntry => L1Entry(l1[i][k], TtlOf(k), now)
    /\ \A k \in CacheKeys : l2[k] # NoEntry => L2Entry(l2[k], TtlOf(k), now)

\* Configuration c was in force at time t or later.
RuleWasInForce(c, t) == c \in Configs /\ (c = FindByBuyerIds \/ gone[c] >= t)

\* Key k was valid, or invalid, at time t or later.
KeyWas(k, valid, t) ==
    IF valid THEN Valid(k) \/ ended[k].valid >= t ELSE ~Valid(k) \/ ended[k].invalid >= t

Lets(found) == \E row \in found : IsActive(row)

\* Value v of key k was the database's at time t or later.
WasTrue(k, v, t) ==
    IF k = RuleSetKey THEN RuleWasInForce(v, t) ELSE KeyWas(k, Lets(v), t)

TruthInv ==
    /\ \A i \in Instances, k \in CacheKeys : l1[i][k] # NoEntry => WasTrue(k, l1[i][k].value, l1[i][k].read)
    /\ \A k \in CacheKeys : l2[k] # NoEntry => WasTrue(k, l2[k].value, l2[k].read)

\* The ends of the past are times.
HistInv ==
    /\ \A c \in Configs : gone[c] \in Int
    /\ \A k \in ApiKeys : ended[k].valid \in Int /\ ended[k].invalid \in Int

DecisionInv ==
    /\ keys \in Nat /\ keys <= MaxKeys
    /\ verdict # NoVerdict =>
         /\ verdict.time = now /\ verdict.key \in ApiKeys /\ verdict.granted \in BOOLEAN
         /\ KeyWas(verdict.key, verdict.granted, now - MaxAge(KeyTtl))

JudgedInv ==
    judged # NotJudged =>
        IF judged.ruled
        THEN \E c \in Configs :
               /\ RuleWasInForce(c, now - MaxAge(RuleTtl))
               /\ judged.accepted = Accepted(c, judged.lead, "ping")
        ELSE judged.accepted

-----------------------------------------------------------------------------
(* Saves of rule sets.                                                      *)

ZipActs(s) == FindZipList(s) \/ CreateZipList(s) \/ InsertZip(s) \/ ExtractionFails(s)
RuleActs(s) ==
    \/ CreateBuyerRuleSet(s) \/ UpdateBuyerRuleSet(s) \/ DeactivateOthers(s)
    \/ ZipActs(s) \/ WriteRuleSet(s) \/ DeleteBuyerRuleSet(s)

\* The other steps touch neither rule sets nor ZIP codes.
LEMMA RuleCases ==
  ASSUME SlotInv, [DashboardNext]_dashboardVars
  PROVE  \/ \E s \in Slots : RuleActs(s) /\ UNCHANGED cacheState
         \/ UNCHANGED <<ruleVars, zipVars>> /\ Keeps(SaveSteps)
<1>1. SaveSteps \in SUBSET BuyerSteps
  BY DEF BuyerSteps
<1>2. ASSUME NEW s \in Slots, BuyerStep(s), ~(RuleActs(s) /\ UNCHANGED cacheState)
      PROVE  UNCHANGED <<ruleVars, zipVars>> /\ Keeps(SaveSteps)
  <2>1. CASE \/ CreateBuyer(s) \/ InsertBuyer(s) \/ FindIntegration(s) \/ InsertIntegration(s)
             \/ SetIntegration(s) \/ UpdateBuyer(s) \/ WriteBuyer(s) \/ DeleteBuyer(s) \/ MarkBuyerDeleted(s)
    <3>1. UNCHANGED <<ruleVars, zipVars>>
      BY <2>1 DEF CreateBuyer, InsertBuyer, FindIntegration, InsertIntegration, SetIntegration,
         UpdateBuyer, WriteBuyer, DeleteBuyer, MarkBuyerDeleted, buyerVars
    <3>2. Goes(s, {"insert buyer", "find integration", "insert integration", "set integration",
                   "write buyer", "mark buyer deleted", "idle", "audit"})
      BY <2>1, StepGoes, AnswerGoes DEF CreateBuyer, InsertBuyer, FindIntegration, InsertIntegration,
         SetIntegration, UpdateBuyer, WriteBuyer, DeleteBuyer, MarkBuyerDeleted, Goes
    <3> QED BY <3>1, <3>2, GoesKeeps DEF SaveSteps
  <2>2. CASE (\E i \in Instances : RoutePing(s, i) \/ RoutePingWithoutRules(s, i)) \/ RoutePost(s) \/ RouteFullpost(s)
    <3>1. UNCHANGED <<ruleVars, zipVars>> /\ Answer(s)
      BY <2>2 DEF RoutePing, RoutePingWithoutRules, RoutePost, RouteFullpost, JudgeWithoutRules
    <3> QED BY <3>1, AnswerGoes, GoesKeeps DEF SaveSteps
  <2> QED BY <1>2, <2>1, <2>2 DEF BuyerStep, AdminStep, RuleActs, ZipActs
<1> QED BY <1>1, <1>2, BuyerCases, KeepsFewer

\* A save as it starts.
LEMMA NewSave ==
  ASSUME NEW op \in {"create", "update"}, NEW r \in RuleSets, NEW inputs,
         inputs = Inputs \/ (inputs = Switches /\ op = "update"), NEW h \in Saves(op, r, inputs)
  PROVE  /\ IsSave(h)
         /\ h.op = op /\ h.cleared = FALSE
         /\ h.todo = {t \in Types : h.zips[t] # {}}
<1>1. PICK in \in inputs :
        h = [op |-> op, name |-> r, active |-> in.active, config |-> in.config, zips |-> in.zips,
             left |-> {}, list |-> 0, todo |-> {t \in Types : in.zips[t] # {}},
             cleared |-> FALSE]
  BY DEF Saves
<1>2. in.active \in BOOLEAN /\ (in.config \in Configs \/ (in.config = Unsaid /\ op = "update"))
  <2>1. CASE inputs = Inputs
    BY <2>1, BuyerAssumption DEF Configs
  <2>2. CASE inputs = Switches /\ op = "update"
    <3>1. PICK b \in BOOLEAN : in = [active |-> b, config |-> Unsaid, zips |-> [t \in Types |-> {}]]
      BY <2>2 DEF Switches
    <3> QED BY <2>2, <3>1
  <2> QED BY <2>1, <2>2
<1>3. /\ h.op = op /\ h.name = r /\ h.active = in.active /\ h.config = in.config /\ h.zips = in.zips
      /\ h.left = {} /\ h.list = 0 /\ h.todo = {t \in Types : in.zips[t] # {}}
      /\ h.cleared = FALSE
  BY <1>1
<1>4. IsSave(h)
  BY <1>1, <1>2, <1>3 DEF IsSave
<1> QED BY <1>3, <1>4

\* What does not change while ZIP codes are extracted.
SameSave(g, h) ==
    /\ g.op = h.op /\ g.name = h.name /\ g.active = h.active /\ g.config = h.config
    /\ g.zips = h.zips /\ g.cleared = h.cleared

\* What does not change when a save deactivates the others.
SameButCleared(g, h) ==
    /\ g.op = h.op /\ g.name = h.name /\ g.active = h.active /\ g.config = h.config
    /\ g.zips = h.zips /\ g.left = h.left /\ g.list = h.list /\ g.todo = h.todo

\* The updates that the steps of a save make to what it holds.
WithLeft(h, x) == [h EXCEPT !.left = x]
WithList(h, x) == [h EXCEPT !.list = x]
WithTodo(h, x) == [h EXCEPT !.todo = x]
WithCleared(h, x) == [h EXCEPT !.cleared = x]

\* The new value of field left, and the others as they were.
LEMMA WithLeftFields ==
  ASSUME NEW h, IsSave(h), NEW x
  PROVE  LET g == WithLeft(h, x) IN
         /\ IsSave(g)
         /\ g.left = x
         /\ g.op = h.op /\ g.name = h.name /\ g.active = h.active /\ g.config = h.config /\ g.zips = h.zips
         /\ g.list = h.list /\ g.todo = h.todo /\ g.cleared = h.cleared
<1> DEFINE g == WithLeft(h, x)
<1>1. g = [op |-> h.op, name |-> h.name, active |-> h.active, config |-> h.config, zips |-> h.zips,
           left |-> x, list |-> h.list, todo |-> h.todo, cleared |-> h.cleared]
  BY DEF IsSave, WithLeft
<1> HIDE DEF g
<1>2. /\ g.left = x
      /\ g.op = h.op /\ g.name = h.name /\ g.active = h.active /\ g.config = h.config /\ g.zips = h.zips
      /\ g.list = h.list /\ g.todo = h.todo /\ g.cleared = h.cleared
  BY <1>1
<1>3. IsSave(g)
  BY <1>1, <1>2 DEF IsSave
<1> QED BY <1>2, <1>3 DEF g

\* The new value of field list, and the others as they were.
LEMMA WithListFields ==
  ASSUME NEW h, IsSave(h), NEW x
  PROVE  LET g == WithList(h, x) IN
         /\ IsSave(g)
         /\ g.list = x
         /\ g.op = h.op /\ g.name = h.name /\ g.active = h.active /\ g.config = h.config /\ g.zips = h.zips
         /\ g.left = h.left /\ g.todo = h.todo /\ g.cleared = h.cleared
<1> DEFINE g == WithList(h, x)
<1>1. g = [op |-> h.op, name |-> h.name, active |-> h.active, config |-> h.config, zips |-> h.zips,
           left |-> h.left, list |-> x, todo |-> h.todo, cleared |-> h.cleared]
  BY DEF IsSave, WithList
<1> HIDE DEF g
<1>2. /\ g.list = x
      /\ g.op = h.op /\ g.name = h.name /\ g.active = h.active /\ g.config = h.config /\ g.zips = h.zips
      /\ g.left = h.left /\ g.todo = h.todo /\ g.cleared = h.cleared
  BY <1>1
<1>3. IsSave(g)
  BY <1>1, <1>2 DEF IsSave
<1> QED BY <1>2, <1>3 DEF g

\* The new value of field todo, and the others as they were.
LEMMA WithTodoFields ==
  ASSUME NEW h, IsSave(h), NEW x \in SUBSET Types
  PROVE  LET g == WithTodo(h, x) IN
         /\ IsSave(g)
         /\ g.todo = x
         /\ g.op = h.op /\ g.name = h.name /\ g.active = h.active /\ g.config = h.config /\ g.zips = h.zips
         /\ g.left = h.left /\ g.list = h.list /\ g.cleared = h.cleared
<1> DEFINE g == WithTodo(h, x)
<1>1. g = [op |-> h.op, name |-> h.name, active |-> h.active, config |-> h.config, zips |-> h.zips,
           left |-> h.left, list |-> h.list, todo |-> x, cleared |-> h.cleared]
  BY DEF IsSave, WithTodo
<1> HIDE DEF g
<1>2. /\ g.todo = x
      /\ g.op = h.op /\ g.name = h.name /\ g.active = h.active /\ g.config = h.config /\ g.zips = h.zips
      /\ g.left = h.left /\ g.list = h.list /\ g.cleared = h.cleared
  BY <1>1
<1>3. IsSave(g)
  BY <1>1, <1>2 DEF IsSave
<1> QED BY <1>2, <1>3 DEF g

\* The new value of field cleared, and the others as they were.
LEMMA WithClearedFields ==
  ASSUME NEW h, IsSave(h), NEW x \in BOOLEAN
  PROVE  LET g == WithCleared(h, x) IN
         /\ IsSave(g)
         /\ g.cleared = x
         /\ g.op = h.op /\ g.name = h.name /\ g.active = h.active /\ g.config = h.config /\ g.zips = h.zips
         /\ g.left = h.left /\ g.list = h.list /\ g.todo = h.todo
<1> DEFINE g == WithCleared(h, x)
<1>1. g = [op |-> h.op, name |-> h.name, active |-> h.active, config |-> h.config, zips |-> h.zips,
           left |-> h.left, list |-> h.list, todo |-> h.todo, cleared |-> x]
  BY DEF IsSave, WithCleared
<1> HIDE DEF g
<1>2. /\ g.cleared = x
      /\ g.op = h.op /\ g.name = h.name /\ g.active = h.active /\ g.config = h.config /\ g.zips = h.zips
      /\ g.left = h.left /\ g.list = h.list /\ g.todo = h.todo
  BY <1>1
<1>3. IsSave(g)
  BY <1>1, <1>2 DEF IsSave
<1> QED BY <1>2, <1>3 DEF g

\* Where a save goes after its ZIP codes.
LEMMA AfterZipsCases ==
  ASSUME NEW h, IsSave(h)
  PROVE  /\ h.todo # {} => AfterZips(h) = "zip list"
         /\ h.todo = {} /\ h.op = "update" /\ h.active => AfterZips(h) = "deactivate"
         /\ h.todo = {} /\ ~(h.op = "update" /\ h.active) => AfterZips(h) = "write rule set"
  BY DEF AfterZips, IsSave

\* Request s, which extracts ZIP codes, goes on with save h at step name.
ZipMove(s, name, h) ==
    /\ at[s] \in ZipSteps /\ at'[s] = name /\ held'[s] = h /\ Goes(s, {name})
    /\ name \in ZipSteps \/ name = AfterZips(h)
    /\ IsSave(h) /\ SameSave(h, held[s])

\* The oldest list is found.
LEMMA FindZipListMove ==
  ASSUME SlotInv, SavesInv, NEW s \in Slots, FindZipList(s)
  PROVE  LET h == held[s]
             t == TypeInTurn(h) IN
         /\ at[s] = "zip list" /\ UNCHANGED buyerVars
         /\ \E g : /\ g.left = h.zips[t] /\ g.todo = h.todo
                   /\ \/ ListsOf(t) = {} /\ ZipMove(s, "create list", g)
                      \/ /\ ListsOf(t) # {} /\ ZipMove(s, "insert zips", g)
                         /\ g.list = CHOOSE x \in ListsOf(t) : \A k \in ListsOf(t) : x <= k
<1> DEFINE h == held[s]
           t == TypeInTurn(h)
           l == CHOOSE x \in ListsOf(t) : \A k \in ListsOf(t) : x <= k
           f == WithLeft(h, h.zips[t])
           g == WithList(f, l)
<1>1. at[s] = "zip list" /\ UNCHANGED buyerVars
  BY DEF FindZipList
<1>2. IF ListsOf(t) = {} THEN Step(s, "create list", f) ELSE Step(s, "insert zips", g)
  BY DEF FindZipList, WithLeft, WithList
<1>3. IsSave(h)
  BY <1>1 DEF SavesInv, SaveSteps
<1> HIDE DEF h, l
<1>4. IsSave(f) /\ SameSave(f, h) /\ f.left = h.zips[t] /\ f.todo = h.todo
  BY <1>3, WithLeftFields DEF SameSave
<1> HIDE DEF f
<1>5. /\ IsSave(g) /\ SameSave(g, h) /\ g.left = h.zips[t] /\ g.todo = h.todo
      /\ g.list = l
  BY <1>4, WithListFields DEF SameSave
<1> HIDE DEF g
<1>6. CASE ListsOf(t) = {}
  <2>1. at'[s] = "create list" /\ held'[s] = f /\ Goes(s, {"create list"})
    BY <1>2, <1>6, StepGoes
  <2>2. ZipMove(s, "create list", f)
    BY <1>1, <1>4, <2>1 DEF ZipMove, ZipSteps, h
  <2> QED BY <1>1, <1>4, <1>6, <2>2 DEF h
<1>7. CASE ListsOf(t) # {}
  <2>1. at'[s] = "insert zips" /\ held'[s] = g /\ Goes(s, {"insert zips"})
    BY <1>2, <1>7, StepGoes
  <2>2. ZipMove(s, "insert zips", g)
    BY <1>1, <1>5, <2>1 DEF ZipMove, ZipSteps, h
  <2> QED BY <1>1, <1>5, <1>7, <2>2 DEF h, l
<1> QED BY <1>6, <1>7

\* A list is created.
LEMMA CreateZipListMove ==
  ASSUME SlotInv, SavesInv, NEW s \in Slots, CreateZipList(s)
  PROVE  LET h == held[s] IN
         /\ at[s] = "create list" /\ UNCHANGED <<buyerRowVars, ruleVars, saved, unstored, judged>>
         /\ lists' = Append(lists, [type |-> TypeInTurn(h), zips |-> {}])
         /\ \E g : /\ g.left = h.left /\ g.todo = h.todo
                   /\ g.list = Len(lists) + 1
                   /\ ZipMove(s, "insert zips", g)
<1> DEFINE h == held[s]
           l == Len(lists) + 1
           g == WithList(h, l)
<1>1. /\ at[s] = "create list" /\ UNCHANGED <<buyerRowVars, ruleVars, saved, unstored, judged>>
      /\ lists' = Append(lists, [type |-> TypeInTurn(h), zips |-> {}])
  BY DEF CreateZipList
<1>2. IsSave(h)
  BY <1>1 DEF SavesInv, SaveSteps
<1>3. Step(s, "insert zips", g)
  BY DEF CreateZipList, WithList
<1> HIDE DEF h, l
<1>4. /\ IsSave(g) /\ SameSave(g, h) /\ g.left = h.left /\ g.todo = h.todo
      /\ g.list = l
  BY <1>2, WithListFields DEF SameSave
<1> HIDE DEF g
<1>5. at'[s] = "insert zips" /\ held'[s] = g /\ Goes(s, {"insert zips"})
  BY <1>3, StepGoes
<1>6. ZipMove(s, "insert zips", g)
  BY <1>1, <1>4, <1>5 DEF ZipMove, ZipSteps, h
<1> QED BY <1>1, <1>4, <1>6 DEF h, l

\* A ZIP code is inserted, or fails to be.
LEMMA InsertZipMove ==
  ASSUME SlotInv, SavesInv, NEW s \in Slots, InsertZip(s)
  PROVE  LET h == held[s] IN
         /\ at[s] = "insert zips" /\ UNCHANGED <<buyerRowVars, ruleVars, saved, judged>>
         /\ \E z \in h.left, works \in BOOLEAN :
              /\ lists' = IF works THEN [lists EXCEPT ![h.list].zips = @ \cup {z}] ELSE lists
              /\ unstored' = IF works THEN unstored ELSE [unstored EXCEPT ![TypeInTurn(h)] = @ \cup {z}]
              /\ \E g : /\ g.left = h.left \ {z} /\ g.list = h.list
                        /\ g.todo = IF g.left = {} THEN h.todo \ {TypeInTurn(h)} ELSE h.todo
                        /\ ZipMove(s, IF g.left = {} THEN AfterZips(g) ELSE "insert zips", g)
<1> DEFINE h == held[s]
<1>1. at[s] = "insert zips" /\ UNCHANGED <<buyerRowVars, ruleVars, saved, judged>>
  BY DEF InsertZip
<1>2. IsSave(h)
  BY <1>1 DEF SavesInv, SaveSteps
<1>3. PICK z \in h.left, works \in BOOLEAN :
        LET left == h.left \ {z}
            g == [h EXCEPT !.left = left,
                           !.todo = IF left = {} THEN @ \ {TypeInTurn(h)} ELSE @] IN
        /\ lists' = IF works THEN [lists EXCEPT ![h.list].zips = @ \cup {z}] ELSE lists
        /\ unstored' = IF works THEN unstored ELSE [unstored EXCEPT ![TypeInTurn(h)] = @ \cup {z}]
        /\ Step(s, IF left = {} THEN AfterZips(g) ELSE "insert zips", g)
  BY DEF InsertZip
<1> HIDE DEF h
<1> DEFINE left == h.left \ {z}
           todo == IF left = {} THEN h.todo \ {TypeInTurn(h)} ELSE h.todo
           f == WithLeft(h, left)
           g == WithTodo(f, todo)
<1>4. Step(s, IF left = {} THEN AfterZips(g) ELSE "insert zips", g)
  <2>1. g = [h EXCEPT !.left = left, !.todo = IF left = {} THEN @ \ {TypeInTurn(h)} ELSE @]
    BY <1>2 DEF WithLeft, WithTodo, IsSave
  <2> QED BY <1>3, <2>1
<1>5. todo \in SUBSET Types
  BY <1>2 DEF IsSave
<1> HIDE DEF left, todo
<1>6. IsSave(f) /\ SameSave(f, h) /\ f.left = left /\ f.list = h.list
  BY <1>2, WithLeftFields DEF SameSave
<1> HIDE DEF f
<1>7. IsSave(g) /\ SameSave(g, h) /\ g.left = left /\ g.list = h.list /\ g.todo = todo
  BY <1>5, <1>6, WithTodoFields DEF SameSave
<1> HIDE DEF g
<1> DEFINE name == IF left = {} THEN AfterZips(g) ELSE "insert zips"
<1>8. at'[s] = name /\ held'[s] = g /\ Goes(s, {name})
  BY <1>4, StepGoes
<1>9. ZipMove(s, name, g)
  BY <1>1, <1>7, <1>8 DEF ZipMove, ZipSteps, h
<1>10. g.todo = IF g.left = {} THEN h.todo \ {TypeInTurn(h)} ELSE h.todo
  BY <1>7 DEF todo
<1> QED BY <1>1, <1>3, <1>7, <1>9, <1>10 DEF h, left

\* A statement of the extraction fails.
LEMMA ExtractionFailsMove ==
  ASSUME SlotInv, SavesInv, NEW s \in Slots, ExtractionFails(s)
  PROVE  LET h == held[s] IN
         /\ UNCHANGED <<buyerRowVars, ruleVars, lists, saved, judged>>
         /\ at[s] \in ZipSteps
         /\ unstored' = [t \in Types |->
                           IF t \in h.todo THEN unstored[t] \cup h.zips[t] ELSE unstored[t]]
         /\ \E g : g.todo = {} /\ ZipMove(s, AfterZips(g), g)
<1> DEFINE h == held[s]
           none == {}
           g == WithTodo(h, none)
<1>1. /\ at[s] \in ZipSteps /\ UNCHANGED <<buyerRowVars, ruleVars, lists, saved, judged>>
      /\ unstored' = [t \in Types |->
                        IF t \in h.todo THEN unstored[t] \cup h.zips[t] ELSE unstored[t]]
  BY DEF ExtractionFails, ZipSteps
<1>2. IsSave(h)
  BY <1>1 DEF SavesInv, SaveSteps, ZipSteps
<1>3. Step(s, AfterZips(g), g)
  BY DEF ExtractionFails, WithTodo
<1>4. none \in SUBSET Types
  OBVIOUS
<1> HIDE DEF h, none
<1>5. IsSave(g) /\ SameSave(g, h) /\ g.todo = none
  BY <1>2, <1>4, WithTodoFields DEF SameSave
<1> HIDE DEF g
<1>6. at'[s] = AfterZips(g) /\ held'[s] = g /\ Goes(s, {AfterZips(g)})
  BY <1>3, StepGoes
<1>7. ZipMove(s, AfterZips(g), g)
  BY <1>1, <1>5, <1>6 DEF ZipMove, h
<1> QED BY <1>1, <1>5, <1>7 DEF h, none

-----------------------------------------------------------------------------
(* The rule set in force.                                                   *)

\* A set of naturals that is not empty has a least element.
LEMMA LeastNumber ==
  ASSUME NEW S \in SUBSET Nat, S # {}
  PROVE  \E n \in S : \A m \in S : n <= m
<1>1. PICK n \in S : \A m \in S : <<m, n>> \notin OpToRel(<, Nat)
  BY NatLessThanWellFounded, WFMin
<1>2. \A m \in S : ~(m < n)
  BY <1>1 DEF OpToRel
<1> QED BY <1>2

\* Of finitely many numbers one is the largest: take a smallest set without one, and
\* leave out an element.
LEMMA LargestExists ==
  ASSUME NEW S, IsFiniteSet(S), S # {}, NEW f, \A x \in S : f[x] \in Nat
  PROVE  \E x \in S : \A y \in S : f[y] <= f[x]
<1> DEFINE Has(T) == \E x \in T : \A y \in T : f[y] <= f[x]
           Bad == {n \in Nat : \E T \in SUBSET S : T # {} /\ Cardinality(T) = n /\ ~Has(T)}
<1> SUFFICES ASSUME ~Has(S) PROVE FALSE
  OBVIOUS
<1>1. Bad # {} /\ Bad \in SUBSET Nat
  <2> HIDE DEF Has
  <2>1. Cardinality(S) \in Nat
    BY FS_CardinalityType
  <2>2. Cardinality(S) \in Bad
    BY <2>1
  <2> QED BY <2>2
<1>2. PICK n \in Bad : \A m \in Bad : n <= m
  <2> HIDE DEF Bad
  <2> QED BY <1>1, LeastNumber
<1>3. PICK T \in SUBSET S : T # {} /\ Cardinality(T) = n /\ ~Has(T)
  <2> HIDE DEF Has
  <2> QED OBVIOUS
<1>4. PICK x : x \in T
  BY <1>3
<1> DEFINE U == T \ {x}
<1>5. U \in SUBSET S /\ IsFiniteSet(T) /\ n \in Nat
  BY <1>3, FS_Subset
<1>6. Cardinality(U) = n - 1 /\ IsFiniteSet(U)
  BY <1>3, <1>4, <1>5, FS_RemoveElement
<1>7. U = {} \/ Has(U)
  <2> HIDE DEF Has, U
  <2>1. Cardinality(U) \in Nat
    BY <1>6, FS_CardinalityType
  <2>2. Cardinality(U) \notin Bad
    <3> HIDE DEF Bad
    <3> QED BY <1>2, <1>5, <1>6, <2>1
  <2> QED BY <1>5, <2>1, <2>2
<1>8. CASE U = {}
  <2>1. T = {x}
    BY <1>4, <1>8
  <2>2. f[x] <= f[x]
    BY <1>3, <1>4
  <2> QED BY <1>3, <2>1, <2>2
<1>9. CASE Has(U)
  <2>1. PICK y \in U : \A z \in U : f[z] <= f[y]
    BY <1>9
  <2>2. f[x] \in Nat /\ f[y] \in Nat /\ \A z \in U : f[z] \in Nat
    BY <1>3, <1>4, <1>5, <2>1
  <2>3. CASE f[x] <= f[y]
    <3>1. \A z \in T : f[z] <= f[y]
      BY <2>1, <2>3
    <3> QED BY <1>3, <2>1, <3>1
  <2>4. CASE f[y] <= f[x]
    <3>1. \A z \in T : f[z] <= f[x]
      BY <2>1, <2>2, <2>4
    <3> QED BY <1>3, <1>4, <3>1
  <2> QED BY <2>2, <2>3, <2>4
<1> QED BY <1>7, <1>8, <1>9

\* The time of creation of a new rule set is a number.
LEMMA YoungestIsNat ==
  ASSUME RulesInv
  PROVE  Youngest \in Nat
<1> DEFINE Q == {q \in RuleSets : rules[q] # NoRuleSet}
           f == [q \in Q |-> rules[q].born]
           B == {0} \cup {rules[r].born : r \in Q}
<1>1. IsFiniteSet(Q)
  BY BuyerAssumption, FS_Subset
<1>2. \A q \in Q : rules[q].born \in Nat
  BY DEF RulesInv, IsRuleSet
<1>3. \E x \in B : \A y \in B : x >= y
  <2>1. CASE Q = {}
    <3>1. B = {0}
      BY <2>1
    <3> QED BY <3>1
  <2>2. CASE Q # {}
    <3>1. \E x \in Q : \A y \in Q : f[y] <= f[x]
      <4>1. \A q \in Q : f[q] \in Nat
        BY <1>2
      <4> HIDE DEF f, Q
      <4> QED BY <1>1, <2>2, <4>1, LargestExists
    <3>2. PICK x \in Q : \A y \in Q : rules[y].born <= rules[x].born
      BY <3>1
    <3>3. rules[x].born \in B /\ \A y \in B : y <= rules[x].born /\ y \in Nat
      BY <1>2, <3>2
    <3> QED BY <1>2, <3>3
  <2> QED BY <2>1, <2>2
<1>4. B \in SUBSET Nat
  BY <1>2
<1> HIDE DEF B
<1>5. Max(B) \in B
  BY <1>3 DEF Max
<1>6. Youngest = Max(B)
  BY DEF Youngest, B
<1> QED BY <1>4, <1>5, <1>6

\* A save starts.
LEMMA NewSaveMove ==
  ASSUME SlotInv, NEW s \in Slots, CreateBuyerRuleSet(s) \/ UpdateBuyerRuleSet(s)
  PROVE  /\ UNCHANGED <<rules, gone, overlapped, zipVars>>
         /\ \E h : /\ IsSave(h) /\ h.cleared = FALSE
                   /\ h.todo = {t \in Types : h.zips[t] # {}}
                   /\ held'[s] = h /\ Goes(s, {at'[s]})
                   /\ at'[s] = IF h.op = "create" /\ h.active THEN "deactivate" ELSE AfterZips(h)
<1>1. CASE CreateBuyerRuleSet(s)
  <2>0. PICK r \in RuleSets : \E h \in Saves("create", r, Inputs) :
          Step(s, IF h.active THEN "deactivate" ELSE AfterZips(h), h)
    BY <1>1 DEF CreateBuyerRuleSet
  <2>1. PICK h \in Saves("create", r, Inputs) :
          Step(s, IF h.active THEN "deactivate" ELSE AfterZips(h), h)
    BY <2>0
  <2>2. /\ IsSave(h) /\ h.cleared = FALSE
        /\ h.todo = {t \in Types : h.zips[t] # {}}
        /\ h.op = "create"
    BY NewSave
  <2>3. /\ held'[s] = h
        /\ at'[s] = IF h.active THEN "deactivate" ELSE AfterZips(h)
        /\ Goes(s, {at'[s]})
    BY <2>1, StepGoes
  <2>4. at'[s] = IF h.op = "create" /\ h.active THEN "deactivate" ELSE AfterZips(h)
    BY <2>2, <2>3
  <2>5. UNCHANGED <<rules, gone, overlapped, zipVars>>
    BY <1>1 DEF CreateBuyerRuleSet
  <2> QED BY <2>2, <2>3, <2>4, <2>5
<1>2. ASSUME NEW inputs, inputs = Inputs \/ inputs = Switches, UpdateWith(s, inputs)
      PROVE  \E h : /\ IsSave(h) /\ h.cleared = FALSE
                    /\ h.todo = {t \in Types : h.zips[t] # {}}
                    /\ held'[s] = h /\ Goes(s, {at'[s]})
                    /\ at'[s] = IF h.op = "create" /\ h.active THEN "deactivate" ELSE AfterZips(h)
  <2>0. PICK r \in RuleSets : \E h \in Saves("update", r, inputs) : Step(s, AfterZips(h), h)
    BY <1>2 DEF UpdateWith
  <2>1. PICK h \in Saves("update", r, inputs) : Step(s, AfterZips(h), h)
    BY <2>0
  <2>2. /\ IsSave(h) /\ h.cleared = FALSE
        /\ h.todo = {t \in Types : h.zips[t] # {}}
        /\ h.op = "update"
    BY <1>2, NewSave
  <2>3. held'[s] = h /\ at'[s] = AfterZips(h) /\ Goes(s, {at'[s]})
    BY <2>1, StepGoes
  <2>4. at'[s] = IF h.op = "create" /\ h.active THEN "deactivate" ELSE AfterZips(h)
    BY <2>2, <2>3
  <2> QED BY <2>2, <2>3, <2>4
<1>3. CASE UpdateBuyerRuleSet(s)
  <2>1. UpdateWith(s, Inputs) \/ UpdateWith(s, Switches)
    BY <1>3 DEF UpdateBuyerRuleSet
  <2>2. UNCHANGED <<rules, gone, overlapped, zipVars>>
    BY <2>1 DEF UpdateWith
  <2> QED BY <1>2, <2>1, <2>2
<1> QED BY <1>1, <1>3

\* A save deactivates the others.
LEMMA DeactivateMove ==
  ASSUME SlotInv, SavesInv, NEW s \in Slots, DeactivateOthers(s)
  PROVE  /\ at[s] = "deactivate" /\ RecordRules /\ UNCHANGED zipVars
         /\ overlapped' = (overlapped \/ Activating(s))
         /\ \E scope :
              /\ scope = IF held[s].op = "create" THEN RuleSets ELSE RuleSets \ {held[s].name}
              /\ rules' = [r \in RuleSets |->
                             IF rules[r] # NoRuleSet /\ r \in scope
                             THEN [rules[r] EXCEPT !.active = FALSE] ELSE rules[r]]
         /\ \E h : /\ IsSave(h) /\ SameButCleared(h, held[s]) /\ h.cleared = TRUE
                   /\ held'[s] = h /\ Goes(s, {at'[s]})
                   /\ at'[s] = IF h.op = "create" THEN AfterZips(h) ELSE "write rule set"
<1> DEFINE scope == IF held[s].op = "create" THEN RuleSets ELSE RuleSets \ {held[s].name}
           h == WithCleared(held[s], TRUE)
<1>1. ClearActive(s, scope)
  BY DEF DeactivateOthers
<1>2. /\ at[s] = "deactivate" /\ RecordRules /\ UNCHANGED zipVars
      /\ overlapped' = (overlapped \/ Activating(s))
      /\ rules' = [r \in RuleSets |->
                     IF rules[r] # NoRuleSet /\ r \in scope
                     THEN [rules[r] EXCEPT !.active = FALSE] ELSE rules[r]]
  BY <1>1 DEF ClearActive
<1>3. Step(s, IF h.op = "create" THEN AfterZips(h) ELSE "write rule set", h)
  BY <1>1 DEF ClearActive, WithCleared
<1>4. IsSave(held[s]) /\ TRUE \in BOOLEAN
  BY <1>2 DEF SavesInv, SaveSteps
<1>5. IsSave(h) /\ SameButCleared(h, held[s]) /\ h.cleared = TRUE
  BY <1>4, WithClearedFields DEF SameButCleared
<1> HIDE DEF h, scope
<1>6. /\ held'[s] = h
      /\ at'[s] = IF h.op = "create" THEN AfterZips(h) ELSE "write rule set"
      /\ Goes(s, {at'[s]})
  BY <1>3, StepGoes
<1> QED BY <1>2, <1>5, <1>6 DEF scope

\* A save writes its rule set: a new row, or the row as it was updated, or none.
LEMMA WriteMove ==
  ASSUME SlotInv, SavesInv, RulesInv, NEW s \in Slots, WriteRuleSet(s)
  PROVE  LET h == held[s]
             r == h.name IN
         /\ at[s] = "write rule set" /\ RecordRules /\ UNCHANGED <<overlapped, lists, unstored>>
         /\ Goes(s, Ends)
         /\ saved' = saved \/ saved' = [t \in Types |-> saved[t] \cup h.zips[t]]
         /\ \/ rules' = rules
            \/ \E row : /\ rules' = [rules EXCEPT ![r] = row]
                        /\ IsRuleSet(row)
                        /\ row.active => h.active \/ Active(r)
<1> DEFINE h == held[s]
           r == h.name
<1>1. at[s] = "write rule set" /\ IsSave(h)
  BY DEF WriteRuleSet, SavesInv, SaveSteps
<1>2. /\ RecordRules /\ UNCHANGED <<overlapped, lists, unstored>>
      /\ saved' = saved \/ saved' = [t \in Types |-> saved[t] \cup h.zips[t]]
  BY DEF WriteRuleSet
<1>3. Goes(s, Ends)
  BY StepGoes, AnswerGoes DEF WriteRuleSet, Goes, Ends
<1>4. PICK on \in {h.active} \cup (IF h.op = "update" /\ ~h.active /\ rules[r] # NoRuleSet
                                   THEN {rules[r].active} ELSE {}) :
        rules' = IF h.op = "create" /\ ~(rules[r] # NoRuleSet)
                 THEN [rules EXCEPT ![r] = [config |-> h.config, active |-> on, born |-> Youngest + 1]]
                 ELSE IF h.op = "update" /\ rules[r] # NoRuleSet
                 THEN [rules EXCEPT ![r].config = IF h.config = Unsaid THEN @ ELSE h.config, ![r].active = on]
                 ELSE rules
  BY DEF WriteRuleSet
<1>5. r \in RuleSets /\ h.active \in BOOLEAN
  BY <1>1 DEF IsSave
<1> HIDE DEF h
<1>6. on \in BOOLEAN /\ (on => h.active \/ Active(r))
  <2>1. on = h.active \/ (rules[r] # NoRuleSet /\ on = rules[r].active)
    BY <1>4
  <2>2. rules[r] # NoRuleSet => rules[r].active \in BOOLEAN
    BY <1>5 DEF RulesInv, IsRuleSet
  <2> QED BY <1>5, <2>1, <2>2 DEF Active
<1>7. CASE h.op = "create" /\ ~(rules[r] # NoRuleSet)
  <2> DEFINE row == [config |-> h.config, active |-> on, born |-> Youngest + 1]
  <2>1. rules' = [rules EXCEPT ![r] = row]
    BY <1>4, <1>7
  <2>2. h.config \in Configs
    BY <1>1, <1>7 DEF IsSave, h
  <2>3. Youngest + 1 \in Nat
    BY YoungestIsNat
  <2>4. row.active = on /\ row.config = h.config /\ row.born = Youngest + 1
    OBVIOUS
  <2>5. IsRuleSet(row)
    BY <1>6, <2>2, <2>3 DEF IsRuleSet
  <2> HIDE DEF row
  <2> QED BY <1>1, <1>2, <1>3, <1>6, <2>1, <2>4, <2>5 DEF h
<1>8. CASE h.op = "update" /\ rules[r] # NoRuleSet
  <2> DEFINE old == rules[r]
             config == IF h.config = Unsaid THEN old.config ELSE h.config
             row == [config |-> config, active |-> on, born |-> old.born]
  <2>1. IsRuleSet(old)
    BY <1>5, <1>8 DEF RulesInv
  <2>2. config \in Configs
    BY <1>1, <2>1 DEF IsSave, IsRuleSet, h
  <2>3. rules' = [rules EXCEPT ![r] = row]
    <3>1. rules' = [rules EXCEPT ![r].config = IF h.config = Unsaid THEN @ ELSE h.config, ![r].active = on]
      BY <1>4, <1>8
    <3>2. rules' = [rules EXCEPT ![r] = [[old EXCEPT !.config = config] EXCEPT !.active = on]]
      BY <1>5, <3>1 DEF RulesInv
    <3>3. [[old EXCEPT !.config = config] EXCEPT !.active = on] = row
      <4> HIDE DEF old, config
      <4>1. [old EXCEPT !.config = config] = [config |-> config, active |-> old.active, born |-> old.born]
        BY <2>1 DEF IsRuleSet
      <4>2. [[config |-> config, active |-> old.active, born |-> old.born] EXCEPT !.active = on] = row
        OBVIOUS
      <4> QED BY <4>1, <4>2
    <3> QED BY <3>2, <3>3
  <2>4. row.active = on /\ row.config = config /\ row.born = old.born
    OBVIOUS
  <2>5. IsRuleSet(row)
    BY <1>6, <2>1, <2>2 DEF IsRuleSet
  <2> HIDE DEF row
  <2> QED BY <1>1, <1>2, <1>3, <1>6, <2>3, <2>4, <2>5 DEF h
<1>9. CASE ~(h.op = "create" /\ ~(rules[r] # NoRuleSet)) /\ ~(h.op = "update" /\ rules[r] # NoRuleSet)
  <2>1. rules' = rules
    BY <1>4, <1>9
  <2> QED BY <1>1, <1>2, <1>3, <2>1 DEF h
<1> QED BY <1>7, <1>8, <1>9

\* Every request that saves a rule set holds a save.
LEMMA SavesStep ==
  ASSUME SlotInv, SavesInv, RulesInv, [DashboardNext]_dashboardVars
  PROVE  SavesInv'
<1>1. CASE Keeps(SaveSteps)
  BY <1>1 DEF SavesInv, Keeps
<1>2. ASSUME NEW s \in Slots, at'[s] \in SaveSteps => IsSave(held'[s]), NEW steps, Goes(s, steps)
      PROVE  SavesInv'
  <2> SUFFICES ASSUME NEW q \in Slots, at'[q] \in SaveSteps PROVE IsSave(held'[q])
    BY DEF SavesInv
  <2>1. CASE q = s
    BY <1>2, <2>1
  <2>2. CASE q # s
    BY <1>2, <2>2 DEF SavesInv, Goes
  <2> QED BY <2>1, <2>2
<1>3. ASSUME NEW s \in Slots, RuleActs(s)
      PROVE  SavesInv'
  <2>1. CASE CreateBuyerRuleSet(s) \/ UpdateBuyerRuleSet(s)
    BY <1>2, <2>1, NewSaveMove
  <2>2. CASE DeactivateOthers(s)
    BY <1>2, <2>2, DeactivateMove
  <2>3. CASE ZipActs(s)
    <3>1. \E name, g : ZipMove(s, name, g)
      BY <2>3, FindZipListMove, CreateZipListMove, InsertZipMove, ExtractionFailsMove DEF ZipActs
    <3> QED BY <1>2, <3>1 DEF ZipMove
  <2>4. CASE WriteRuleSet(s)
    <3>1. Goes(s, Ends)
      BY <2>4, WriteMove
    <3> QED BY <1>2, <3>1 DEF Goes, Ends, SaveSteps
  <2>5. CASE DeleteBuyerRuleSet(s)
    <3>1. Goes(s, {"audit"})
      BY <2>5, StepGoes DEF DeleteBuyerRuleSet
    <3> QED BY <1>2, <3>1 DEF Goes, SaveSteps
  <2> QED BY <1>3, <2>1, <2>2, <2>3, <2>4, <2>5 DEF RuleActs
<1> QED BY <1>1, <1>3, RuleCases

\* The rows of rule sets.
LEMMA RulesStep ==
  ASSUME SlotInv, SavesInv, RulesInv, [DashboardNext]_dashboardVars
  PROVE  RulesInv'
<1>1. CASE rules' = rules
  BY <1>1 DEF RulesInv
<1>2. ASSUME NEW s \in Slots, RuleActs(s), rules' # rules
      PROVE  RulesInv'
  <2>1. ~(CreateBuyerRuleSet(s) \/ UpdateBuyerRuleSet(s))
    BY <1>2, NewSaveMove
  <2>2. ~ZipActs(s)
    BY <1>2 DEF ZipActs, FindZipList, CreateZipList, InsertZip, ExtractionFails, buyerVars, ruleVars
  <2>3. CASE DeactivateOthers(s)
    <3>1. PICK scope : rules' = [r \in RuleSets |->
                             IF rules[r] # NoRuleSet /\ r \in scope
                             THEN [rules[r] EXCEPT !.active = FALSE] ELSE rules[r]]
      BY <2>3, DeactivateMove
    <3>2. ASSUME NEW r \in RuleSets, rules'[r] # NoRuleSet PROVE IsRuleSet(rules'[r])
      <4>1. CASE rules'[r] = rules[r]
        BY <3>2, <4>1 DEF RulesInv
      <4>2. CASE rules[r] # NoRuleSet /\ rules'[r] = [rules[r] EXCEPT !.active = FALSE]
        <5>1. IsRuleSet(rules[r])
          BY <4>2 DEF RulesInv
        <5>2. rules'[r] = [config |-> rules[r].config, active |-> FALSE, born |-> rules[r].born]
          BY <4>2, <5>1 DEF IsRuleSet
        <5>3. rules'[r].config = rules[r].config /\ rules'[r].active = FALSE /\ rules'[r].born = rules[r].born
          BY <5>2
        <5> QED BY <5>1, <5>2, <5>3 DEF IsRuleSet
      <4> QED BY <3>1, <4>1, <4>2
    <3>3. rules' = [r \in RuleSets |-> rules'[r]]
      BY <3>1
    <3> QED BY <3>2, <3>3 DEF RulesInv
  <2>4. CASE WriteRuleSet(s)
    <3>1. PICK row : rules' = [rules EXCEPT ![held[s].name] = row] /\ IsRuleSet(row)
      BY <1>2, <2>4, WriteMove
    <3>2. \A r \in RuleSets : rules'[r] \in {rules[r], row}
      BY <3>1 DEF RulesInv
    <3>3. rules' = [r \in RuleSets |-> rules'[r]]
      BY <3>1 DEF RulesInv
    <3> QED BY <3>1, <3>2, <3>3 DEF RulesInv
  <2>5. CASE DeleteBuyerRuleSet(s)
    <3>1. PICK x \in RuleSets : rules' = [rules EXCEPT ![x] = NoRuleSet]
      BY <2>5 DEF DeleteBuyerRuleSet
    <3>2. \A r \in RuleSets : rules'[r] \in {rules[r], NoRuleSet}
      BY <3>1 DEF RulesInv
    <3>3. rules' = [r \in RuleSets |-> rules'[r]]
      BY <3>1 DEF RulesInv
    <3> QED BY <3>2, <3>3 DEF RulesInv
  <2> QED BY <1>2, <2>1, <2>2, <2>3, <2>4, <2>5 DEF RuleActs
<1>3. UNCHANGED <<ruleVars, zipVars>> => rules' = rules
  BY DEF ruleVars
<1> QED BY <1>1, <1>2, <1>3, RuleCases

\* No request comes to deactivate the others, and no rule set becomes active: then it
\* stays that way.
LEMMA ActiveFrame ==
  ASSUME ActiveInv, overlapped' = overlapped,
         \A q \in Slots : Prepared(q)',
         \A q \in Slots : Cleared(q)' => Cleared(q) /\ held'[q].op = held[q].op /\ held'[q].name = held[q].name,
         \A r \in RuleSets : Active(r)' => Active(r)
  PROVE  ActiveInv'
<1>1. ~overlapped => Exclusive'
  <2> SUFFICES ASSUME Exclusive PROVE Exclusive'
    BY DEF ActiveInv
  <2>1. \A r, q \in RuleSets : Active(r)' /\ Active(q)' => r = q
    BY DEF Exclusive
  <2>2. \A s, q \in Slots : Cleared(s)' /\ Cleared(q)' => s = q
    BY DEF Exclusive
  <2>3. \A s \in Slots, r \in RuleSets :
           Cleared(s)' /\ Active(r)' => held'[s].op = "update" /\ r = held'[s].name
    BY DEF Exclusive
  <2> QED BY <2>1, <2>2, <2>3 DEF Exclusive
<1> QED BY <1>1 DEF ActiveInv

\* The requests that do not move.
LEMMA ActiveOthers ==
  ASSUME ActiveInv, NEW s \in Slots, NEW steps, Goes(s, steps), NEW q \in Slots, q # s
  PROVE  /\ Prepared(q)'
         /\ Cleared(q)' => Cleared(q) /\ held'[q].op = held[q].op /\ held'[q].name = held[q].name
<1>1. at'[q] = at[q] /\ held'[q] = held[q]
  BY DEF Goes
<1>2. Prepared(q)
  BY DEF ActiveInv
<1> QED BY <1>1, <1>2 DEF Prepared, Cleared

\* Rule sets are as they were.
LEMMA ActiveSame ==
  ASSUME rules' = rules
  PROVE  \A r \in RuleSets : Active(r)' <=> Active(r)
  BY DEF Active

\* A save starts.
LEMMA NewSaveActive ==
  ASSUME SlotInv, ActiveInv, NEW s \in Slots, CreateBuyerRuleSet(s) \/ UpdateBuyerRuleSet(s)
  PROVE  ActiveInv'
<1>1. UNCHANGED <<rules, overlapped>>
  BY NewSaveMove
<1>2. PICK h : /\ IsSave(h) /\ h.cleared = FALSE
               /\ held'[s] = h /\ Goes(s, {at'[s]})
               /\ at'[s] = IF h.op = "create" /\ h.active THEN "deactivate" ELSE AfterZips(h)
  BY NewSaveMove
<1>3. ~Cleared(s)'
  BY <1>2 DEF Cleared
<1>4. Prepared(s)'
  <2>1. h.op \in {"create", "update"} /\ h.active \in BOOLEAN
    BY <1>2 DEF IsSave
  <2>2. CASE h.op = "create" /\ h.active
    BY <1>2, <2>2 DEF Prepared, ZipSteps
  <2>3. CASE ~(h.op = "create" /\ h.active)
    <3>1. at'[s] = AfterZips(h)
      BY <1>2, <2>3
    <3>2. at'[s] = "deactivate" => h.active
      BY <1>2, <3>1, AfterZipsCases
    <3>3. at'[s] = "write rule set" => ~h.active
      BY <1>2, <2>1, <2>3, <3>1, AfterZipsCases
    <3> QED BY <1>2, <2>3, <3>2, <3>3 DEF Prepared
  <2> QED BY <2>2, <2>3
<1> QED BY <1>1, <1>2, <1>3, <1>4, ActiveOthers, ActiveSame, ActiveFrame

\* ZIP codes are extracted.
LEMMA ZipActive ==
  ASSUME SlotInv, ActiveInv, UNCHANGED ruleVars, NEW s \in Slots, NEW name, NEW h, ZipMove(s, name, h)
  PROVE  ActiveInv'
<1> DEFINE g == held[s]
<1>1. /\ at[s] \in ZipSteps /\ at'[s] = name /\ held'[s] = h /\ Goes(s, {name})
      /\ name \in ZipSteps \/ name = AfterZips(h)
      /\ IsSave(h)
      /\ h.op = g.op /\ h.name = g.name /\ h.active = g.active /\ h.cleared = g.cleared
  BY DEF ZipMove, SameSave
<1>2. UNCHANGED <<rules, overlapped>>
  BY DEF ruleVars
<1>3. g.op = "create" /\ g.active => g.cleared
  BY <1>1 DEF ActiveInv, Prepared
<1>4. Cleared(s)' => Cleared(s) /\ held'[s].op = held[s].op /\ held'[s].name = held[s].name
  BY <1>1 DEF Cleared, ZipSteps, SaveSteps
<1>5. Prepared(s)'
  <2> HIDE DEF g
  <2>1. h.op \in {"create", "update"} /\ h.active \in BOOLEAN
    BY <1>1 DEF IsSave
  <2>2. name = "deactivate" => h.active
    BY <1>1, AfterZipsCases DEF ZipSteps
  <2>3. name = "write rule set" /\ h.active => h.op = "create"
    BY <1>1, <2>1, AfterZipsCases DEF ZipSteps
  <2> QED BY <1>1, <1>3, <2>2, <2>3 DEF Prepared
<1> QED BY <1>1, <1>2, <1>4, <1>5, ActiveOthers, ActiveSame, ActiveFrame

\* The others are deactivated: if no other request has done so, this one is alone.
LEMMA DeactivateActive ==
  ASSUME SlotInv, SavesInv, RulesInv, ActiveInv, NEW s \in Slots, DeactivateOthers(s)
  PROVE  ActiveInv'
<1> DEFINE g == held[s]
<1>1. at[s] = "deactivate" /\ overlapped' = (overlapped \/ Activating(s))
  BY DeactivateMove
<1>2. PICK scope : /\ scope = IF g.op = "create" THEN RuleSets ELSE RuleSets \ {g.name}
                   /\ rules' = [r \in RuleSets |->
                                  IF rules[r] # NoRuleSet /\ r \in scope
                                  THEN [rules[r] EXCEPT !.active = FALSE] ELSE rules[r]]
  BY DeactivateMove
<1>3. PICK h : /\ IsSave(h) /\ SameButCleared(h, g) /\ h.cleared = TRUE
               /\ held'[s] = h /\ Goes(s, {at'[s]})
               /\ at'[s] = IF h.op = "create" THEN AfterZips(h) ELSE "write rule set"
  BY DeactivateMove
<1> HIDE DEF g
<1>4. \A r \in RuleSets : Active(r)' => Active(r) /\ r \notin scope
  <2> SUFFICES ASSUME NEW r \in RuleSets, Active(r)' PROVE Active(r) /\ r \notin scope
    OBVIOUS
  <2>1. CASE rules[r] # NoRuleSet /\ r \in scope
    <3>1. rules'[r] = [rules[r] EXCEPT !.active = FALSE] /\ IsRuleSet(rules[r])
      BY <1>2, <2>1 DEF RulesInv
    <3>2. rules'[r].active = FALSE
      BY <3>1 DEF IsRuleSet
    <3> QED BY <3>2 DEF Active
  <2>2. CASE ~(rules[r] # NoRuleSet /\ r \in scope)
    <3>1. rules'[r] = rules[r]
      BY <1>2, <2>2
    <3> QED BY <2>2, <3>1 DEF Active
  <2> QED BY <2>1, <2>2
<1>5. Prepared(s)'
  <2>1. at'[s] # "deactivate"
    <3>1. CASE h.op = "create"
      BY <1>3, <3>1, AfterZipsCases
    <3>2. CASE h.op # "create"
      BY <1>3, <3>2
    <3> QED BY <3>1, <3>2
  <2> QED BY <1>3, <2>1 DEF Prepared
<1>6. overlapped' \in BOOLEAN
  BY <1>1 DEF ActiveInv
<1>7. \A q \in Slots : Prepared(q)'
  BY <1>3, <1>5, ActiveOthers
<1>8. ASSUME ~overlapped' PROVE Exclusive'
  <2>1. ~overlapped /\ ~Activating(s) /\ Exclusive
    BY <1>1, <1>8 DEF ActiveInv
  <2>2. \A q \in Slots \ {s} : ~Cleared(q)'
    BY <1>3, <2>1 DEF Activating, Cleared, Goes
  <2>3. \A r, q \in RuleSets : Active(r)' /\ Active(q)' => r = q
    BY <1>4, <2>1 DEF Exclusive
  <2>4. ASSUME NEW r \in RuleSets, Active(r)'
        PROVE  h.op = "update" /\ r = h.name
    <3>1. r \notin scope
      BY <1>4, <2>4
    <3>2. g.op # "create" /\ r = g.name
      BY <1>2, <3>1
    <3>3. h.op = g.op /\ h.name = g.name /\ h.op \in {"create", "update"}
      BY <1>3 DEF SameButCleared, IsSave
    <3> QED BY <3>2, <3>3
  <2> QED BY <1>3, <2>2, <2>3, <2>4 DEF Exclusive
<1> QED BY <1>6, <1>7, <1>8 DEF ActiveInv

\* The rule set is written: one that becomes active is the only one.
LEMMA WriteActive ==
  ASSUME SlotInv, SavesInv, RulesInv, ActiveInv, NEW s \in Slots, WriteRuleSet(s)
  PROVE  ActiveInv'
<1> DEFINE h == held[s]
           r == h.name
<1>1. at[s] = "write rule set" /\ overlapped' = overlapped /\ Goes(s, Ends)
  BY WriteMove
<1>2. /\ IsSave(h) /\ r \in RuleSets
  BY <1>1 DEF SavesInv, SaveSteps, IsSave
<1>3. ~Cleared(s)' /\ Prepared(s)'
  BY <1>1 DEF Cleared, Prepared, Goes, Ends, SaveSteps, ZipSteps
<1>4. \A q \in Slots : Prepared(q)'
  BY <1>1, <1>3, ActiveOthers
<1>5. \A q \in Slots : Cleared(q)' => q # s /\ Cleared(q) /\ held'[q].op = held[q].op /\ held'[q].name = held[q].name
  BY <1>1, <1>3, ActiveOthers
<1>6. h.active => Cleared(s)
  BY <1>1 DEF ActiveInv, Prepared, Cleared, SaveSteps
<1>7. CASE rules' = rules
  BY <1>1, <1>4, <1>5, <1>7, ActiveSame, ActiveFrame
<1>8. CASE rules' # rules
  <2>1. PICK row : rules' = [rules EXCEPT ![r] = row] /\ (row.active => h.active \/ Active(r))
    BY <1>8, WriteMove
  <2>2. \A q \in RuleSets : Active(q)' => Active(q) \/ (q = r /\ h.active)
    <3> SUFFICES ASSUME NEW q \in RuleSets, Active(q)' PROVE Active(q) \/ (q = r /\ h.active)
      OBVIOUS
    <3>1. CASE q = r
      <4>1. rules'[q] = row
        BY <1>2, <2>1, <3>1 DEF RulesInv
      <4> QED BY <2>1, <3>1, <4>1 DEF Active
    <3>2. CASE q # r
      <4>1. rules'[q] = rules[q]
        BY <2>1, <3>2 DEF RulesInv
      <4> QED BY <4>1 DEF Active
    <3> QED BY <3>1, <3>2
  <2>3. CASE ~h.active
    BY <1>1, <1>4, <1>5, <2>2, <2>3, ActiveFrame
  <2>4. CASE h.active
    <3>1. ASSUME ~overlapped PROVE Exclusive'
      <4>1. Exclusive
        BY <3>1 DEF ActiveInv
      <4>2. \A q \in RuleSets : Active(q)' => q = r
        BY <1>6, <2>2, <2>4, <4>1 DEF Exclusive
      <4>3. \A q \in Slots : ~Cleared(q)'
        BY <1>5, <1>6, <2>4, <4>1 DEF Exclusive
      <4> QED BY <4>2, <4>3 DEF Exclusive
    <3> QED BY <1>1, <1>4, <3>1 DEF ActiveInv
  <2> QED BY <2>3, <2>4
<1> QED BY <1>7, <1>8

\* At most one rule set is active, and a request that may activate one is alone.
LEMMA ActiveStep ==
  ASSUME SlotInv, SavesInv, RulesInv, ActiveInv, [DashboardNext]_dashboardVars
  PROVE  ActiveInv'
<1>1. CASE UNCHANGED <<ruleVars, zipVars>> /\ Keeps(SaveSteps)
  <2>1. UNCHANGED <<rules, overlapped>>
    BY <1>1 DEF ruleVars
  <2>2. \A q \in Slots : at'[q] \in SaveSteps => at'[q] = at[q] /\ held'[q] = held[q]
    BY <1>1 DEF Keeps
  <2>3. \A q \in Slots : Cleared(q)' => Cleared(q) /\ held'[q].op = held[q].op /\ held'[q].name = held[q].name
    BY <2>2 DEF Cleared
  <2>4. \A q \in Slots : Prepared(q)'
    BY <2>2 DEF ActiveInv, Prepared, SaveSteps, ZipSteps
  <2> QED BY <2>1, <2>3, <2>4, ActiveSame, ActiveFrame
<1>2. ASSUME NEW s \in Slots, RuleActs(s)
      PROVE  ActiveInv'
  <2>1. CASE CreateBuyerRuleSet(s) \/ UpdateBuyerRuleSet(s)
    BY <2>1, NewSaveActive
  <2>2. CASE DeactivateOthers(s)
    BY <2>2, DeactivateActive
  <2>3. CASE ZipActs(s)
    <3>1. \E name, g : ZipMove(s, name, g)
      BY <2>3, FindZipListMove, CreateZipListMove, InsertZipMove, ExtractionFailsMove DEF ZipActs
    <3>2. UNCHANGED ruleVars
      BY <2>3 DEF ZipActs, FindZipList, CreateZipList, InsertZip, ExtractionFails, buyerVars
    <3> QED BY <3>1, <3>2, ZipActive
  <2>4. CASE WriteRuleSet(s)
    BY <2>4, WriteActive
  <2>5. CASE DeleteBuyerRuleSet(s)
    <3>1. PICK x \in RuleSets : rules' = [rules EXCEPT ![x] = NoRuleSet]
      BY <2>5 DEF DeleteBuyerRuleSet
    <3>2. overlapped' = overlapped /\ Goes(s, {"audit"}) /\ at'[s] = "audit"
      BY <2>5, StepGoes DEF DeleteBuyerRuleSet
    <3>3. ~Cleared(s)' /\ Prepared(s)'
      BY <3>2 DEF Cleared, Prepared, SaveSteps, ZipSteps
    <3>4. \A r \in RuleSets : Active(r)' => Active(r)
      BY <3>1 DEF Active, RulesInv
    <3> QED BY <3>2, <3>3, <3>4, ActiveOthers, ActiveFrame
  <2> QED BY <1>2, <2>1, <2>2, <2>3, <2>4, <2>5 DEF RuleActs
<1> QED BY <1>1, <1>2, RuleCases

\* A set of one element at most.
LEMMA ActiveFollows ==
  ASSUME ActiveInv
  PROVE  OneActiveRuleSet
<1> DEFINE A == {r \in RuleSets : rules[r] # NoRuleSet /\ rules[r].active}
<1> SUFFICES ASSUME ~overlapped PROVE Cardinality(A) <= 1
  BY DEF OneActiveRuleSet
<1>1. \A r, q \in A : r = q
  BY DEF ActiveInv, Exclusive, Active
<1>2. CASE A = {}
  BY <1>2, FS_EmptySet
<1>3. CASE A # {}
  <2>1. PICK r : r \in A
    BY <1>3
  <2>2. A = {r}
    BY <1>1, <2>1
  <2>3. Cardinality({r}) = 1
    BY FS_Singleton
  <2> HIDE DEF A
  <2> QED BY <2>2, <2>3
<1> QED BY <1>2, <1>3

-----------------------------------------------------------------------------
(* The ZIP codes that are stored.                                           *)

\* Lists stay where they are and lose no code, and a failure is not forgotten.
ListsGrow ==
    /\ \A l \in 1..Len(lists) :
         l \in 1..Len(lists') /\ lists'[l].type = lists[l].type /\ lists[l].zips \subseteq lists'[l].zips
    /\ \A t \in Types : unstored[t] \subseteq unstored'[t]

\* What was loaded of a type is loaded again, so what is known stays known.
LEMMA LoadedGrows ==
  ASSUME ListsInv, ListsInv', ListsGrow, NEW t \in Types
  PROVE  ListsOf(t) \subseteq ListsOf(t)' /\ Known(t) \subseteq Known(t)'
<1>1. DOMAIN lists = 1..Len(lists) /\ DOMAIN lists' = 1..Len(lists')
  BY DEF ListsInv
<1>2. ListsOf(t) \subseteq ListsOf(t)'
  BY <1>1 DEF ListsOf, ListsGrow
<1>3. \A l \in ListsOf(t) : lists[l].zips \subseteq lists'[l].zips
  BY <1>1 DEF ListsOf, ListsGrow
<1>4. LoadZipCodes(t) \subseteq LoadZipCodes(t)'
  BY <1>2, <1>3 DEF LoadZipCodes
<1>5. unstored[t] \subseteq unstored'[t]
  BY DEF ListsGrow
<1> QED BY <1>2, <1>4, <1>5 DEF Known

\* So a save that does not move has tried what it had.
LEMMA ZipsOfGrows ==
  ASSUME ListsInv, ListsInv', ListsGrow, NEW name, NEW h, ZipsOf(name, h)
  PROVE  ZipsOf(name, h)'
<1>0. TypeInTurn(h) \in Types
  BY DEF TypeInTurn, Types
<1>1. \A t \in Types : ListsOf(t) \subseteq ListsOf(t)' /\ Known(t) \subseteq Known(t)'
  BY LoadedGrows
<1>2. \A t \in Types \ h.todo : h.zips[t] \subseteq Known(t)'
  BY <1>1 DEF ZipsOf
<1>3. name = "insert zips" =>
         /\ h.list \in ListsOf(TypeInTurn(h))'
         /\ h.zips[TypeInTurn(h)] \ h.left \subseteq Known(TypeInTurn(h))'
  BY <1>0, <1>1 DEF ZipsOf
<1>4. /\ name = "write rule set" \/ (name = "deactivate" /\ h.op = "update") => h.todo = {}
      /\ name \in ZipSteps => h.todo # {}
      /\ name = "create list" => h.left = h.zips[TypeInTurn(h)]
  BY DEF ZipsOf
<1>5. TypeInTurn(h)' = TypeInTurn(h)
  BY DEF TypeInTurn
<1> QED BY <1>2, <1>3, <1>4, <1>5 DEF ZipsOf

\* Nothing happens to the lists.
LEMMA SameLists ==
  ASSUME ListsInv, UNCHANGED <<lists, unstored>>
  PROVE  ListsInv' /\ ListsGrow
  BY DEF ListsInv, ListsGrow, IsList

\* Request s has tried what it should, and the others do not move.
LEMMA ZipFrame ==
  ASSUME ZipInv, ListsInv', ListsGrow, NEW s \in Slots, NEW steps, Goes(s, steps),
         NEW name, NEW h, at'[s] = name, held'[s] = h,
         name \in SaveSteps => ZipsOf(name, h)', MissingZipsFailed'
  PROVE  ZipInv'
<1>1. \A q \in Slots : (at[q] \in SaveSteps => ZipsOf(at[q], held[q]))'
  <2> SUFFICES ASSUME NEW q \in Slots, at'[q] \in SaveSteps PROVE ZipsOf(at[q], held[q])'
    OBVIOUS
  <2>1. CASE q = s
    <3>1. ZipsOf(name, h)' /\ at'[q] = name /\ held'[q] = h
      BY <2>1
    <3> QED BY <3>1 DEF ZipsOf, TypeInTurn
  <2>2. CASE q # s
    <3>1. at'[q] = at[q] /\ held'[q] = held[q]
      BY <2>2 DEF Goes
    <3>2. PICK n, g : n = at[q] /\ g = held[q]
      OBVIOUS
    <3>3. ZipsOf(n, g)
      BY <3>1, <3>2 DEF ZipInv
    <3>4. ZipsOf(n, g)'
      BY <3>3, ZipsOfGrows DEF ZipInv
    <3>5. at'[q] = n /\ held'[q] = g
      BY <3>1, <3>2
    <3> QED BY <3>4, <3>5 DEF ZipsOf, TypeInTurn
  <2> QED BY <2>1, <2>2
<1> QED BY <1>1 DEF ZipInv

\* What was saved is loaded, or had failed, as long as lists grow.
LEMMA SavedStays ==
  ASSUME ZipInv, ListsInv', ListsGrow, saved' = saved
  PROVE  MissingZipsFailed'
<1>1. \A t \in Types : saved[t] \subseteq Known(t)
  BY DEF ZipInv, MissingZipsFailed, Known
<1>2. \A t \in Types : Known(t) \subseteq Known(t)'
  BY LoadedGrows DEF ZipInv
<1>3. \A t \in Types : saved'[t] \subseteq Known(t)'
  BY <1>1, <1>2
<1> QED BY <1>3 DEF MissingZipsFailed, Known

\* A save starts: of the types that it gives no code of, there is nothing to store.
LEMMA NewSaveZips ==
  ASSUME SlotInv, ZipInv, NEW s \in Slots, CreateBuyerRuleSet(s) \/ UpdateBuyerRuleSet(s)
  PROVE  ZipInv'
<1>1. UNCHANGED <<lists, saved, unstored>>
  BY NewSaveMove DEF zipVars
<1>2. PICK h : /\ IsSave(h) /\ h.todo = {t \in Types : h.zips[t] # {}}
               /\ held'[s] = h /\ Goes(s, {at'[s]})
               /\ at'[s] = IF h.op = "create" /\ h.active THEN "deactivate" ELSE AfterZips(h)
  BY NewSaveMove
<1>3. PICK name : name = IF h.op = "create" /\ h.active THEN "deactivate" ELSE AfterZips(h)
  OBVIOUS
<1>4. ListsInv' /\ ListsGrow
  BY <1>1, SameLists DEF ZipInv
<1>5. /\ name = "write rule set" \/ (name = "deactivate" /\ h.op = "update") => h.todo = {}
      /\ name \in ZipSteps => h.todo # {}
      /\ name # "create list" /\ name # "insert zips"
  <2>1. CASE h.op = "create" /\ h.active
    BY <1>3, <2>1 DEF ZipSteps
  <2>2. CASE ~(h.op = "create" /\ h.active)
    <3>1. name = AfterZips(h)
      BY <1>3, <2>2
    <3> QED BY <1>2, <3>1, AfterZipsCases DEF ZipSteps
  <2> QED BY <2>1, <2>2
<1>6. \A t \in Types \ h.todo : h.zips[t] \subseteq Known(t)'
  BY <1>2
<1>7. ZipsOf(name, h)'
  BY <1>5, <1>6 DEF ZipsOf
<1>8. MissingZipsFailed'
  BY <1>1, <1>4, SavedStays
<1> QED BY <1>2, <1>3, <1>4, <1>7, <1>8, ZipFrame

\* A list is found.
LEMMA FindZipListZips ==
  ASSUME SlotInv, SavesInv, ZipInv, NEW s \in Slots, FindZipList(s)
  PROVE  ZipInv'
<1>1. PICK h : h = held[s]
  OBVIOUS
<1>2. PICK t : t = TypeInTurn(h)
  OBVIOUS
<1>3. at[s] = "zip list" /\ UNCHANGED <<lists, saved, unstored>>
  BY FindZipListMove DEF buyerVars, zipVars
<1>4. PICK g : /\ g.left = h.zips[t] /\ g.todo = h.todo
               /\ \/ ZipMove(s, "create list", g)
                  \/ /\ ListsOf(t) # {} /\ ZipMove(s, "insert zips", g)
                     /\ g.list = CHOOSE x \in ListsOf(t) : \A k \in ListsOf(t) : x <= k
  BY <1>1, <1>2, FindZipListMove
<1>5. ZipsOf("zip list", h) /\ IsSave(h)
  BY <1>1, <1>3 DEF ZipInv, SavesInv, SaveSteps
<1>6. ListsInv' /\ ListsGrow
  BY <1>3, SameLists DEF ZipInv
<1>7. MissingZipsFailed'
  BY <1>3, <1>6, SavedStays
<1>8. ZipsOf("zip list", h)'
  BY <1>5, <1>6, ZipsOfGrows DEF ZipInv
<1>9. h.todo # {} /\ \A x \in Types \ h.todo : h.zips[x] \subseteq Known(x)'
  BY <1>8 DEF ZipsOf, ZipSteps
<1>10. TypeInTurn(g) = t
  BY <1>2, <1>4 DEF TypeInTurn
<1>11. CASE ZipMove(s, "create list", g)
  <2>1. g.zips = h.zips /\ at'[s] = "create list" /\ held'[s] = g /\ Goes(s, {"create list"})
    BY <1>1, <1>11 DEF ZipMove, SameSave
  <2>2. g.left = g.zips[TypeInTurn(g)] /\ g.todo # {}
    BY <1>4, <1>9, <1>10, <2>1
  <2>3. \A x \in Types \ g.todo : g.zips[x] \subseteq Known(x)'
    BY <1>4, <1>9, <2>1
  <2>4. ZipsOf("create list", g)'
    BY <2>2, <2>3 DEF ZipsOf
  <2> QED BY <1>6, <1>7, <2>1, <2>4, ZipFrame
<1>12. CASE /\ ListsOf(t) # {} /\ ZipMove(s, "insert zips", g)
            /\ g.list = CHOOSE x \in ListsOf(t) : \A k \in ListsOf(t) : x <= k
  <2>1. g.zips = h.zips /\ at'[s] = "insert zips" /\ held'[s] = g /\ Goes(s, {"insert zips"})
    BY <1>1, <1>12 DEF ZipMove, SameSave
  <2>2. ListsOf(t) \in SUBSET Nat
    BY DEF ListsOf, ZipInv, ListsInv
  <2>3. g.list \in ListsOf(t)
    BY <1>12, <2>2, LeastNumber
  <2>4. g.list \in ListsOf(t)'
    <3>1. t \in Types
      BY <1>2 DEF TypeInTurn, Types
    <3> QED BY <1>6, <2>3, <3>1, LoadedGrows DEF ZipInv
  <2>5. g.zips[TypeInTurn(g)] \ g.left = {} /\ g.todo # {}
    BY <1>4, <1>9, <1>10, <2>1
  <2>6. \A x \in Types \ g.todo : g.zips[x] \subseteq Known(x)'
    BY <1>4, <1>9, <2>1
  <2>7. ZipsOf("insert zips", g)'
    BY <1>10, <2>4, <2>5, <2>6 DEF ZipsOf
  <2> QED BY <1>6, <1>7, <2>1, <2>7, ZipFrame
<1> QED BY <1>4, <1>11, <1>12

\* A list is created.
LEMMA CreateZipListZips ==
  ASSUME SlotInv, SavesInv, ZipInv, NEW s \in Slots, CreateZipList(s)
  PROVE  ZipInv'
<1>1. PICK h : h = held[s]
  OBVIOUS
<1>2. PICK t : t = TypeInTurn(h)
  OBVIOUS
<1>3. at[s] = "create list" /\ UNCHANGED <<saved, unstored>>
  BY CreateZipListMove
<1>4. PICK g : /\ g.left = h.left /\ g.todo = h.todo
               /\ g.list = Len(lists) + 1
               /\ ZipMove(s, "insert zips", g)
  BY <1>1, CreateZipListMove
<1>5. PICK x : x = [type |-> t, zips |-> {}]
  OBVIOUS
<1>6. lists' = Append(lists, x)
  BY <1>1, <1>2, <1>5, CreateZipListMove
<1>7. /\ Len(lists') = Len(lists) + 1 /\ lists' = [l \in 1..Len(lists') |-> lists'[l]]
      /\ lists'[Len(lists) + 1] = x
      /\ \A l \in 1..Len(lists) : lists'[l] = lists[l]
  <2> DEFINE T == {lists[l] : l \in 1..Len(lists)} \cup {x}
  <2>1. lists \in Seq(T) /\ x \in T
    BY DEF ZipInv, ListsInv
  <2> HIDE DEF T
  <2>2. /\ lists' \in Seq(T) /\ Len(lists') = Len(lists) + 1
        /\ lists'[Len(lists) + 1] = x
        /\ \A l \in 1..Len(lists) : lists'[l] = lists[l]
    BY <1>6, <2>1
  <2>3. \A q : q \in Seq(T) => q = [l \in 1..Len(q) |-> q[l]]
    OBVIOUS
  <2> QED BY <2>2, <2>3
<1>8. IsList(x) /\ x.type = t
  BY <1>5 DEF IsList
<1>9. Len(lists) \in Nat /\ \A l \in 1..Len(lists) : IsList(lists[l])
  BY DEF ZipInv, ListsInv
<1>10. \A l \in 1..Len(lists') : l \in 1..Len(lists) \/ l = Len(lists) + 1
  BY <1>7, <1>9
<1>11. ListsInv' /\ ListsGrow
  <2>1. \A l \in 1..Len(lists') : IsList(lists'[l])
    BY <1>7, <1>8, <1>9, <1>10
  <2>2. Len(lists') \in Nat /\ \A l \in 1..Len(lists) : l \in 1..Len(lists')
    BY <1>7, <1>9
  <2>3. ListsGrow
    BY <1>3, <1>7, <2>2 DEF ListsGrow
  <2>4. unstored' = [y \in Types |-> unstored'[y]]
    BY <1>3 DEF ZipInv, ListsInv
  <2> QED BY <1>7, <2>1, <2>2, <2>3, <2>4 DEF ListsInv
<1>12. MissingZipsFailed'
  BY <1>3, <1>11, SavedStays
<1>13. ZipsOf("create list", h)
  BY <1>1, <1>3 DEF ZipInv, SaveSteps
<1>14. ZipsOf("create list", h)'
  BY <1>11, <1>13, ZipsOfGrows DEF ZipInv
<1>15. /\ h.todo # {} /\ h.left = h.zips[t]
       /\ \A y \in Types \ h.todo : h.zips[y] \subseteq Known(y)'
  BY <1>2, <1>14 DEF ZipsOf, ZipSteps, TypeInTurn
<1>16. g.list \in ListsOf(t)'
  <2>1. DOMAIN lists' = 1..Len(lists')
    BY <1>7
  <2>2. g.list \in 1..Len(lists')
    <3>1. \A n \in Nat : n + 1 \in 1..n + 1
      OBVIOUS
    <3>2. g.list = Len(lists) + 1
      BY <1>4
    <3>3. Len(lists') = Len(lists) + 1
      BY <1>7
    <3> QED BY <1>9, <3>1, <3>2, <3>3
  <2>3. lists'[g.list].type = t
    BY <1>4, <1>7, <1>8
  <2> QED BY <2>1, <2>2, <2>3 DEF ListsOf
<1>17. TypeInTurn(g) = t
  BY <1>2, <1>4 DEF TypeInTurn
<1>18. g.zips = h.zips /\ at'[s] = "insert zips" /\ held'[s] = g /\ Goes(s, {"insert zips"})
  BY <1>1, <1>4 DEF ZipMove, SameSave
<1>19. g.zips[TypeInTurn(g)] \ g.left = {} /\ g.todo # {}
  BY <1>4, <1>15, <1>17, <1>18
<1>20. \A y \in Types \ g.todo : g.zips[y] \subseteq Known(y)'
  BY <1>4, <1>15, <1>18
<1>21. ZipsOf("insert zips", g)'
  BY <1>16, <1>17, <1>19, <1>20 DEF ZipsOf
<1> QED BY <1>11, <1>12, <1>18, <1>21, ZipFrame

\* A ZIP code is inserted, or fails to be.
LEMMA InsertZipZips ==
  ASSUME SlotInv, SavesInv, ZipInv, NEW s \in Slots, InsertZip(s)
  PROVE  ZipInv'
<1>1. PICK h : h = held[s]
  OBVIOUS
<1>2. PICK t : t = TypeInTurn(h)
  OBVIOUS
<1>3. at[s] = "insert zips" /\ UNCHANGED saved
  BY InsertZipMove
<1>4. PICK z \in h.left, works \in BOOLEAN :
         /\ lists' = IF works THEN [lists EXCEPT ![h.list].zips = @ \cup {z}] ELSE lists
         /\ unstored' = IF works THEN unstored ELSE [unstored EXCEPT ![t] = @ \cup {z}]
         /\ \E g : /\ g.left = h.left \ {z} /\ g.list = h.list
                   /\ g.todo = IF g.left = {} THEN h.todo \ {t} ELSE h.todo
                   /\ ZipMove(s, IF g.left = {} THEN AfterZips(g) ELSE "insert zips", g)
  BY <1>1, <1>2, InsertZipMove
<1>5. PICK g : /\ g.left = h.left \ {z} /\ g.list = h.list
               /\ g.todo = IF g.left = {} THEN h.todo \ {t} ELSE h.todo
               /\ ZipMove(s, IF g.left = {} THEN AfterZips(g) ELSE "insert zips", g)
  BY <1>4
<1>6. PICK name : name = IF g.left = {} THEN AfterZips(g) ELSE "insert zips"
  OBVIOUS
<1>7. g.zips = h.zips /\ IsSave(g) /\ at'[s] = name /\ held'[s] = g /\ Goes(s, {name})
  BY <1>1, <1>5, <1>6 DEF ZipMove, SameSave
<1>8. ZipsOf("insert zips", h) /\ h.todo \subseteq Types
  BY <1>1, <1>3 DEF ZipInv, SavesInv, SaveSteps, IsSave
<1>9. h.list \in ListsOf(t) /\ h.todo # {}
  BY <1>2, <1>8 DEF ZipsOf, ZipSteps
<1>10. Len(lists) \in Nat /\ h.list \in 1..Len(lists) /\ lists[h.list].type = t
  BY <1>9 DEF ListsOf, ZipInv, ListsInv
<1>11. PICK x : /\ lists' = IF works THEN [lists EXCEPT ![h.list] = x] ELSE lists
                /\ IsList(x) /\ x.type = t /\ x.zips = lists[h.list].zips \cup {z}
  <2> DEFINE x == [type |-> t, zips |-> lists[h.list].zips \cup {z}]
             y == lists[h.list]
  <2>1. IsList(y)
    BY <1>10 DEF ZipInv, ListsInv
  <2>2. [y EXCEPT !.zips = y.zips \cup {z}] = x
    <3> HIDE DEF y
    <3>1. y.type = t
      BY <1>10 DEF y
    <3>2. [y EXCEPT !.zips = y.zips \cup {z}] = [type |-> y.type, zips |-> y.zips \cup {z}]
      BY <2>1 DEF IsList
    <3> QED BY <3>1, <3>2 DEF y
  <2>3. [lists EXCEPT ![h.list].zips = @ \cup {z}] = [lists EXCEPT ![h.list] = [y EXCEPT !.zips = y.zips \cup {z}]]
    BY <1>10 DEF ZipInv, ListsInv
  <2>4. IsList(x) /\ x.type = t /\ x.zips = lists[h.list].zips \cup {z}
    BY DEF IsList
  <2>5. lists' = IF works THEN [lists EXCEPT ![h.list] = x] ELSE lists
    BY <1>4, <2>2, <2>3
  <2> HIDE DEF x
  <2> QED BY <2>4, <2>5
<1>12. /\ t \in Types /\ unstored' = [y \in Types |-> unstored'[y]]
       /\ \A y \in Types : unstored'[y] = IF y = t /\ ~works THEN unstored[y] \cup {z} ELSE unstored[y]
  <2>1. t \in Types
    BY <1>2 DEF TypeInTurn, Types
  <2>2. unstored = [y \in Types |-> unstored[y]]
    BY DEF ZipInv, ListsInv
  <2> QED BY <1>4, <2>1, <2>2
<1>121. ListsInv' /\ ListsGrow
  <2>1. CASE ~works
    <3>1. lists' = lists
      BY <1>11, <2>1
    <3> QED BY <1>12, <3>1 DEF ZipInv, ListsInv, ListsGrow, IsList
  <2>2. CASE works
    <3>1. lists' = [lists EXCEPT ![h.list] = x]
      BY <1>11, <2>2
    <3>2. DOMAIN lists' = 1..Len(lists) /\ lists' = [l \in 1..Len(lists) |-> lists'[l]]
      BY <3>1 DEF ZipInv, ListsInv
    <3>3. Len(lists') = Len(lists)
      BY <1>10, <3>2
    <3>4. \A l \in 1..Len(lists) : lists'[l] = IF l = h.list THEN x ELSE lists[l]
      BY <3>1 DEF ZipInv, ListsInv
    <3>5. \A l \in 1..Len(lists) : IsList(lists[l])
      BY DEF ZipInv, ListsInv
    <3>6. \A l \in 1..Len(lists) : IsList(lists'[l])
      BY <1>11, <3>4, <3>5
    <3>7. ListsInv'
      BY <1>10, <1>12, <3>2, <3>3, <3>6 DEF ListsInv
    <3>8. ListsGrow
      BY <1>10, <1>11, <1>12, <3>3, <3>4 DEF ListsGrow
    <3> QED BY <3>7, <3>8
  <2> QED BY <2>1, <2>2
<1>13. MissingZipsFailed'
  BY <1>3, <1>121, SavedStays
<1>14. ZipsOf("insert zips", h)'
  BY <1>8, <1>121, ZipsOfGrows DEF ZipInv
<1>15. /\ h.list \in ListsOf(t)'
       /\ \A y \in Types \ h.todo : h.zips[y] \subseteq Known(y)'
       /\ h.zips[t] \ h.left \subseteq Known(t)'
  BY <1>2, <1>14 DEF ZipsOf, TypeInTurn
<1>16. z \in Known(t)'
  <2>1. CASE works
    <3>1. lists'[h.list] = x
      BY <1>10, <1>11, <2>1 DEF ZipInv, ListsInv
    <3>2. z \in lists'[h.list].zips
      BY <1>11, <3>1
    <3>3. z \in LoadZipCodes(t)'
      BY <1>15, <3>2 DEF LoadZipCodes
    <3> QED BY <3>3 DEF Known
  <2>2. CASE ~works
    BY <1>12, <2>2 DEF Known
  <2> QED BY <2>1, <2>2
<1>17. h.zips[t] \ g.left \subseteq Known(t)'
  BY <1>5, <1>15, <1>16
<1>19. CASE g.left = {}
  <2>1. name = AfterZips(g) /\ g.todo = h.todo \ {t}
    BY <1>5, <1>6, <1>19
  <2>2. \A y \in Types \ g.todo : g.zips[y] \subseteq Known(y)'
    <3> SUFFICES ASSUME NEW y \in Types \ g.todo PROVE g.zips[y] \subseteq Known(y)'
      OBVIOUS
    <3>1. CASE y = t
      BY <1>7, <1>17, <1>19, <3>1
    <3>2. CASE y # t
      BY <1>7, <1>15, <2>1, <3>2
    <3> QED BY <3>1, <3>2
  <2>3. /\ name = "write rule set" \/ (name = "deactivate" /\ g.op = "update") => g.todo = {}
        /\ name \in ZipSteps => g.todo # {}
        /\ name # "create list" /\ name # "insert zips"
    BY <1>7, <2>1, AfterZipsCases DEF ZipSteps
  <2>4. ZipsOf(name, g)'
    BY <2>2, <2>3 DEF ZipsOf
  <2> QED BY <1>7, <1>121, <1>13, <2>4, ZipFrame
<1>20. CASE g.left # {}
  <2>1. name = "insert zips" /\ g.todo = h.todo
    BY <1>5, <1>6, <1>20
  <2>2. TypeInTurn(g) = t
    BY <1>2, <2>1 DEF TypeInTurn
  <2>3. \A y \in Types \ g.todo : g.zips[y] \subseteq Known(y)'
    BY <1>7, <1>15, <2>1
  <2>4. g.list \in ListsOf(t)' /\ g.todo # {}
    BY <1>5, <1>9, <1>15, <2>1
  <2>5. g.zips[t] \ g.left \subseteq Known(t)'
    BY <1>7, <1>17
  <2>6. ZipsOf("insert zips", g)'
    BY <2>2, <2>3, <2>4, <2>5 DEF ZipsOf
  <2> QED BY <1>7, <1>121, <1>13, <2>1, <2>6, ZipFrame
<1> QED BY <1>19, <1>20

\* A statement of the extraction fails: what was to be stored is counted as failed.
LEMMA ExtractionFailsZips ==
  ASSUME SlotInv, SavesInv, ZipInv, NEW s \in Slots, ExtractionFails(s)
  PROVE  ZipInv'
<1>1. PICK h : h = held[s]
  OBVIOUS
<1>2. UNCHANGED <<lists, saved>> /\ at[s] \in ZipSteps
  BY ExtractionFailsMove
<1>3. unstored' = [t \in Types |-> IF t \in h.todo THEN unstored[t] \cup h.zips[t] ELSE unstored[t]]
  BY <1>1, ExtractionFailsMove
<1>4. PICK g : g.todo = {} /\ ZipMove(s, AfterZips(g), g)
  BY ExtractionFailsMove
<1>5. PICK name : name = AfterZips(g)
  OBVIOUS
<1>6. g.zips = h.zips /\ IsSave(g) /\ at'[s] = name /\ held'[s] = g /\ Goes(s, {name})
  BY <1>1, <1>4, <1>5 DEF ZipMove, SameSave
<1>7. ListsInv' /\ ListsGrow
  <2>1. unstored' = [t \in Types |-> unstored'[t]]
    BY <1>3
  <2>2. \A t \in Types : unstored[t] \subseteq unstored'[t]
    BY <1>3
  <2> QED BY <1>2, <2>1, <2>2 DEF ZipInv, ListsInv, ListsGrow, IsList
<1>8. MissingZipsFailed'
  BY <1>2, <1>7, SavedStays
<1>9. name \in {"deactivate", "write rule set"}
  BY <1>4, <1>5, <1>6, AfterZipsCases
<1>10. \A t \in Types \ h.todo : h.zips[t] \subseteq Known(t)
  BY <1>1, <1>2 DEF ZipInv, SaveSteps, ZipSteps, ZipsOf
<1>11. \A t \in Types : h.zips[t] \subseteq Known(t)'
  <2> SUFFICES ASSUME NEW t \in Types PROVE h.zips[t] \subseteq Known(t)'
    OBVIOUS
  <2>1. CASE t \in h.todo
    <3>1. h.zips[t] \subseteq unstored'[t]
      BY <1>3, <2>1
    <3> QED BY <3>1 DEF Known
  <2>2. CASE t \notin h.todo
    BY <1>7, <1>10, <2>2, LoadedGrows DEF ZipInv
  <2> QED BY <2>1, <2>2
<1>12. ZipsOf(name, g)'
  BY <1>4, <1>6, <1>9, <1>11 DEF ZipsOf, ZipSteps
<1> QED BY <1>6, <1>7, <1>8, <1>12, ZipFrame

\* The others are deactivated, before or after the ZIP codes.
LEMMA DeactivateZips ==
  ASSUME SlotInv, SavesInv, ZipInv, NEW s \in Slots, DeactivateOthers(s)
  PROVE  ZipInv'
<1>1. PICK g : g = held[s]
  OBVIOUS
<1>2. at[s] = "deactivate" /\ UNCHANGED <<lists, saved, unstored>>
  BY DeactivateMove DEF zipVars
<1>3. PICK h : /\ IsSave(h) /\ SameButCleared(h, g)
               /\ held'[s] = h /\ Goes(s, {at'[s]})
               /\ at'[s] = IF h.op = "create" THEN AfterZips(h) ELSE "write rule set"
  BY <1>1, DeactivateMove
<1>4. PICK name : name = IF h.op = "create" THEN AfterZips(h) ELSE "write rule set"
  OBVIOUS
<1>5. ListsInv' /\ ListsGrow
  BY <1>2, SameLists DEF ZipInv
<1>6. MissingZipsFailed'
  BY <1>2, <1>5, SavedStays
<1>7. ZipsOf("deactivate", g)
  BY <1>1, <1>2 DEF ZipInv, SaveSteps
<1>8. ZipsOf("deactivate", g)'
  BY <1>5, <1>7, ZipsOfGrows DEF ZipInv
<1>9. h.zips = g.zips /\ h.todo = g.todo /\ h.op = g.op /\ h.op \in {"create", "update"}
  BY <1>3 DEF SameButCleared, IsSave
<1>10. \A t \in Types \ h.todo : h.zips[t] \subseteq Known(t)'
  BY <1>8, <1>9 DEF ZipsOf
<1>11. /\ name = "write rule set" \/ (name = "deactivate" /\ h.op = "update") => h.todo = {}
       /\ name \in ZipSteps => h.todo # {}
       /\ name # "create list" /\ name # "insert zips"
  <2>1. CASE h.op = "create"
    <3>1. name = AfterZips(h)
      BY <1>4, <2>1
    <3> QED BY <1>3, <3>1, AfterZipsCases DEF ZipSteps
  <2>2. CASE h.op # "create"
    <3>1. name = "write rule set" /\ h.op = "update"
      BY <1>4, <1>9, <2>2
    <3>2. h.todo = {}
      BY <1>7, <1>9, <3>1 DEF ZipsOf
    <3> QED BY <3>1, <3>2 DEF ZipSteps
  <2> QED BY <2>1, <2>2
<1>12. ZipsOf(name, h)'
  BY <1>10, <1>11 DEF ZipsOf
<1> QED BY <1>3, <1>4, <1>5, <1>6, <1>12, ZipFrame

\* The rule set is written: all of its ZIP codes were tried by now.
LEMMA WriteZips ==
  ASSUME SlotInv, SavesInv, RulesInv, ZipInv, NEW s \in Slots, WriteRuleSet(s)
  PROVE  ZipInv'
<1>1. PICK h : h = held[s]
  OBVIOUS
<1>2. at[s] = "write rule set" /\ UNCHANGED <<lists, unstored>> /\ Goes(s, Ends)
  BY WriteMove
<1>3. saved' = saved \/ saved' = [t \in Types |-> saved[t] \cup h.zips[t]]
  BY <1>1, WriteMove
<1>4. ListsInv' /\ ListsGrow
  BY <1>2, SameLists DEF ZipInv
<1>5. ZipsOf("write rule set", h)
  BY <1>1, <1>2 DEF ZipInv, SaveSteps
<1>6. MissingZipsFailed'
  <2>1. CASE saved' = saved
    BY <1>4, <2>1, SavedStays
  <2>2. CASE saved' = [t \in Types |-> saved[t] \cup h.zips[t]]
    <3>1. \A t \in Types : h.zips[t] \subseteq Known(t)
      BY <1>5 DEF ZipsOf
    <3>2. \A t \in Types : saved[t] \subseteq Known(t)
      BY DEF ZipInv, MissingZipsFailed, Known
    <3>3. \A t \in Types : saved'[t] = saved[t] \cup h.zips[t]
      BY <2>2
    <3>4. \A t \in Types : Known(t) \subseteq Known(t)'
      BY <1>4, LoadedGrows DEF ZipInv
    <3>5. \A t \in Types : saved'[t] \subseteq Known(t)'
      BY <3>1, <3>2, <3>3, <3>4
    <3> QED BY <3>5 DEF MissingZipsFailed, Known
  <2> QED BY <1>3, <2>1, <2>2
<1>7. PICK name, g : name = at'[s] /\ g = held'[s]
  OBVIOUS
<1>8. name \notin SaveSteps
  BY <1>2, <1>7 DEF Goes, Ends, SaveSteps
<1> QED BY <1>2, <1>4, <1>6, <1>7, <1>8, ZipFrame

\* How far saves have tried their ZIP codes, and what can be loaded.
LEMMA ZipStep ==
  ASSUME SlotInv, SavesInv, RulesInv, ZipInv, [DashboardNext]_dashboardVars
  PROVE  ZipInv'
<1>1. CASE UNCHANGED <<ruleVars, zipVars>> /\ Keeps(SaveSteps)
  <2>1. UNCHANGED <<lists, saved, unstored>>
    BY <1>1 DEF zipVars
  <2>2. ListsInv' /\ ListsGrow
    BY <2>1, SameLists DEF ZipInv
  <2>3. MissingZipsFailed'
    BY <2>1, <2>2, SavedStays
  <2>4. \A q \in Slots : (at[q] \in SaveSteps => ZipsOf(at[q], held[q]))'
    <3> SUFFICES ASSUME NEW q \in Slots, at'[q] \in SaveSteps PROVE ZipsOf(at[q], held[q])'
      OBVIOUS
    <3>1. at'[q] = at[q] /\ held'[q] = held[q]
      BY <1>1 DEF Keeps
    <3>2. PICK n, g : n = at[q] /\ g = held[q]
      OBVIOUS
    <3>3. ZipsOf(n, g)
      BY <3>1, <3>2 DEF ZipInv
    <3>4. ZipsOf(n, g)'
      BY <2>2, <3>3, ZipsOfGrows DEF ZipInv
    <3>5. at'[q] = n /\ held'[q] = g
      BY <3>1, <3>2
    <3> QED BY <3>4, <3>5 DEF ZipsOf, TypeInTurn
  <2> QED BY <2>2, <2>3, <2>4 DEF ZipInv
<1>2. ASSUME NEW s \in Slots, RuleActs(s)
      PROVE  ZipInv'
  <2>1. CASE CreateBuyerRuleSet(s) \/ UpdateBuyerRuleSet(s)
    BY <2>1, NewSaveZips
  <2>2. CASE DeactivateOthers(s)
    BY <2>2, DeactivateZips
  <2>3. CASE ZipActs(s)
    BY <2>3, FindZipListZips, CreateZipListZips, InsertZipZips, ExtractionFailsZips DEF ZipActs
  <2>4. CASE WriteRuleSet(s)
    BY <2>4, WriteZips
  <2>5. CASE DeleteBuyerRuleSet(s)
    <3>1. UNCHANGED <<lists, saved, unstored>> /\ Goes(s, {"audit"}) /\ at'[s] = "audit"
      BY <2>5, StepGoes DEF DeleteBuyerRuleSet, zipVars
    <3>2. ListsInv' /\ ListsGrow
      BY <3>1, SameLists DEF ZipInv
    <3>3. MissingZipsFailed'
      BY <3>1, <3>2, SavedStays
    <3>4. PICK name, g : name = at'[s] /\ g = held'[s]
      OBVIOUS
    <3>5. name \notin SaveSteps
      BY <3>1, <3>4 DEF SaveSteps
    <3> QED BY <3>1, <3>2, <3>3, <3>4, <3>5, ZipFrame
  <2> QED BY <1>2, <2>1, <2>2, <2>3, <2>4, <2>5 DEF RuleActs
<1> QED BY <1>1, <1>2, RuleCases

-----------------------------------------------------------------------------
(* The cache.                                                               *)

\* What a lookup of key k on instance i, failed or not, does to the cache.
CacheStep(i, k, src) ==
    /\ CacheShape'
    /\ \A j \in Instances, x \in CacheKeys :
         \/ l1'[j][x] \in {l1[j][x], NoEntry}
         \/ j = i /\ x = k /\ l1'[j][x] = Entry(src, L1Ttl)
         \/ j = i /\ x = k /\ l2[k] # NoEntry /\ l1'[j][x] = Copy(l2[k])
    /\ \A x \in CacheKeys : \/ l2'[x] = l2[x]
                            \/ x = k /\ l2'[x] = Entry(src, TtlOf(k))

\* All lifetimes are positive.
LEMMA Lifetimes == (\A k : TtlOf(k) \in Nat \ {0}) /\ L1Ttl \in Nat \ {0}
  BY BuyerAssumption, PublisherAssumption, CacheAssumption DEF TtlOf

\* A lookup changes the cache as CacheStep says ...
LEMMA LookupStep ==
  ASSUME CacheShape, NEW i, NEW k, NEW b, NEW skip, NEW src,
         Lookup(i, k, TtlOf(k), skip, src, b)
  PROVE  CacheStep(i, k, src)
  BY DEF CacheShape, CacheStep, Lookup, Hit2, Usable

\* ... and so does a lookup during which Redis fails.
LEMMA LookupFailsStep ==
  ASSUME CacheShape, NEW i, NEW k, NEW b, NEW skip, NEW src,
         LookupFails(i, k, skip, src, b)
  PROVE  CacheStep(i, k, src)
  BY DEF CacheShape, CacheStep, LookupFails

\* A lookup stores no entry that lives longer than it may.
LEMMA CacheStepKeeps ==
  ASSUME CacheInv, now' = now, NEW i, NEW k, NEW src, CacheStep(i, k, src)
  PROVE  CacheInv'
<1>1. \A j \in Instances, x \in CacheKeys : l1'[j][x] # NoEntry => L1Entry(l1'[j][x], TtlOf(x), now)
  <2> SUFFICES ASSUME NEW j \in Instances, NEW x \in CacheKeys, l1'[j][x] # NoEntry
               PROVE  L1Entry(l1'[j][x], TtlOf(x), now)
    OBVIOUS
  <2>1. CASE l1'[j][x] = l1[j][x]
    BY <2>1 DEF CacheInv
  <2>2. CASE x = k /\ l1'[j][x] = Entry(src, L1Ttl)
    BY <2>2, Lifetimes DEF CacheInv, L1Entry, Entry
  <2>3. CASE x = k /\ l2[k] # NoEntry /\ l1'[j][x] = Copy(l2[k])
    BY <2>3, Lifetimes DEF CacheInv, L1Entry, L2Entry, Copy
  <2> QED BY <2>1, <2>2, <2>3 DEF CacheStep
<1>2. \A x \in CacheKeys : l2'[x] # NoEntry => L2Entry(l2'[x], TtlOf(x), now)
  <2> SUFFICES ASSUME NEW x \in CacheKeys, l2'[x] # NoEntry
               PROVE  L2Entry(l2'[x], TtlOf(x), now)
    OBVIOUS
  <2>1. CASE l2'[x] = l2[x]
    BY <2>1 DEF CacheInv
  <2>2. CASE x = k /\ l2'[x] = Entry(src, TtlOf(k))
    BY <2>2, Lifetimes DEF CacheInv, L2Entry, Entry
  <2> QED BY <2>1, <2>2 DEF CacheStep
<1> QED BY <1>1, <1>2 DEF CacheInv, CacheStep

\* A unit of time passes: entries that stay are as they were, and within their lifetime.
LEMMA ClockKeeps ==
  ASSUME CacheInv, Clock
  PROVE  /\ CacheInv'
         /\ \A i \in Instances, k \in CacheKeys : l1'[i][k] \in {l1[i][k], NoEntry}
         /\ \A k \in CacheKeys : l2'[k] \in {l2[k], NoEntry}
<1> DEFINE Left(e) == IF e # NoEntry /\ e.ends <= now + 1 THEN NoEntry ELSE e
<1>1. /\ l1' = [i \in Instances |-> [k \in DOMAIN l1[i] |-> Left(l1[i][k])]]
      /\ l2' = [k \in DOMAIN l2 |-> Left(l2[k])]
      /\ now' = now + 1
  BY DEF Clock
<1>2. \A i \in Instances, k \in CacheKeys :
         /\ l1'[i][k] \in {l1[i][k], NoEntry}
         /\ l1'[i][k] # NoEntry => l1'[i][k] = l1[i][k] /\ ~(l1[i][k].ends <= now + 1)
  BY <1>1 DEF CacheInv, CacheShape
<1>3. \A k \in CacheKeys :
         /\ l2'[k] \in {l2[k], NoEntry}
         /\ l2'[k] # NoEntry => l2'[k] = l2[k] /\ ~(l2[k].ends <= now + 1)
  BY <1>1 DEF CacheInv, CacheShape
<1>4. now' \in Nat /\ CacheShape'
  BY <1>1 DEF CacheInv, CacheShape
<1>5. \A i \in Instances, k \in CacheKeys : l1'[i][k] # NoEntry => L1Entry(l1'[i][k], TtlOf(k), now')
  BY <1>1, <1>2 DEF CacheInv, L1Entry
<1>6. \A k \in CacheKeys : l2'[k] # NoEntry => L2Entry(l2'[k], TtlOf(k), now')
  BY <1>1, <1>3 DEF CacheInv, L2Entry
<1>7. CacheInv'
  BY <1>4, <1>5, <1>6 DEF CacheInv
<1> QED BY <1>2, <1>3, <1>7

\* A lookup returns a value that was true at most MaxAge ago.
LEMMA FoundWasTrue ==
  ASSUME CacheInv, TruthInv, NEW i \in Instances, NEW k \in CacheKeys,
         NEW skip, NEW src, NEW b, WasTrue(k, src, now)
  PROVE  \E t \in Int : now - t <= MaxAge(TtlOf(k)) /\ WasTrue(k, Found(i, k, skip, src, b), t)
<1>1. CASE Hit1(i, k, skip, b)
  <2>1. l1[i][k] # NoEntry /\ Found(i, k, skip, src, b) = l1[i][k].value
    BY <1>1 DEF Hit1, Usable, Found
  <2>2. WasTrue(k, l1[i][k].value, l1[i][k].read) /\ L1Entry(l1[i][k], TtlOf(k), now)
    BY <2>1 DEF TruthInv, CacheInv
  <2>3. l1[i][k].read \in Int /\ now - l1[i][k].read <= MaxAge(TtlOf(k))
    BY <2>2, Lifetimes DEF L1Entry, MaxAge, CacheInv
  <2> QED BY <2>1, <2>2, <2>3
<1>2. CASE ~Hit1(i, k, skip, b) /\ Hit2(i, k, skip, b)
  <2>1. l2[k] # NoEntry /\ Found(i, k, skip, src, b) = l2[k].value
    BY <1>2 DEF Hit2, Usable, Found
  <2>2. WasTrue(k, l2[k].value, l2[k].read) /\ L2Entry(l2[k], TtlOf(k), now)
    BY <2>1 DEF TruthInv, CacheInv
  <2>3. l2[k].read \in Int /\ now - l2[k].read <= MaxAge(TtlOf(k))
    BY <2>2, Lifetimes DEF L2Entry, MaxAge, CacheInv
  <2> QED BY <2>1, <2>2, <2>3
<1>3. CASE ~Hit1(i, k, skip, b) /\ ~Hit2(i, k, skip, b)
  <2>1. Found(i, k, skip, src, b) = src
    BY <1>3 DEF Found
  <2>2. now \in Int /\ now - now <= MaxAge(TtlOf(k))
    BY Lifetimes DEF MaxAge, CacheInv
  <2> QED BY <2>1, <2>2
<1> QED BY <1>1, <1>2, <1>3

-----------------------------------------------------------------------------
(* What was so stays so.                                                    *)

\* The configuration in force is one that was saved, or none.
LEMMA InForceIsConfig ==
  ASSUME RulesInv
  PROVE  FindByBuyerIds \in Configs
<1> DEFINE f == [q \in RuleSets |-> rules[q].born]
           r == CHOOSE x \in InForce : \A q \in InForce : rules[q].born <= rules[x].born
<1>1. CASE InForce = {}
  BY <1>1 DEF FindByBuyerIds, Configs
<1>2. CASE InForce # {}
  <2>1. \A q \in InForce : q \in RuleSets /\ IsRuleSet(rules[q])
    BY DEF InForce, RulesInv
  <2>2. \A q \in InForce : f[q] = rules[q].born /\ f[q] \in Nat
    BY <2>1 DEF IsRuleSet
  <2>3. IsFiniteSet(InForce)
    <3>1. InForce \in SUBSET RuleSets
      BY DEF InForce
    <3> QED BY <3>1, BuyerAssumption, FS_Subset
  <2>4. \E x \in InForce : \A y \in InForce : f[y] <= f[x]
    <3> HIDE DEF f
    <3> QED BY <1>2, <2>2, <2>3, LargestExists
  <2>5. \E x \in InForce : \A q \in InForce : rules[q].born <= rules[x].born
    BY <2>2, <2>4
  <2>6. r \in InForce
    BY <2>5
  <2>7. rules[r].config \in Configs
    BY <2>1, <2>6 DEF IsRuleSet
  <2> QED BY <1>2, <2>7 DEF FindByBuyerIds
<1> QED BY <1>1, <1>2

\* A change of rule sets is recorded.
LEMMA RulesRecorded ==
  ASSUME SlotInv, [DashboardNext]_dashboardVars
  PROVE  RecordRules \/ UNCHANGED <<rules, gone>>
<1>1. ASSUME NEW s \in Slots, RuleActs(s)
      PROVE  RecordRules \/ UNCHANGED <<rules, gone>>
  <2>1. CASE CreateBuyerRuleSet(s) \/ UpdateBuyerRuleSet(s)
    BY <2>1, NewSaveMove
  <2>2. CASE DeactivateOthers(s) \/ WriteRuleSet(s) \/ DeleteBuyerRuleSet(s)
    BY <2>2 DEF DeactivateOthers, ClearActive, WriteRuleSet, DeleteBuyerRuleSet
  <2>3. CASE ZipActs(s)
    BY <2>3 DEF ZipActs, FindZipList, CreateZipList, InsertZip, ExtractionFails, buyerVars, ruleVars
  <2> QED BY <1>1, <2>1, <2>2, <2>3 DEF RuleActs
<1>2. UNCHANGED <<ruleVars, zipVars>> => UNCHANGED <<rules, gone>>
  BY DEF ruleVars
<1> QED BY <1>1, <1>2, RuleCases

\* A change of publishers is recorded.
LEMMA KeysRecorded ==
  ASSUME [DashboardNext]_dashboardVars
  PROVE  RecordKeys \/ UNCHANGED <<publishers, ended>>
<1>1. ASSUME NEW s \in Slots, PublisherStep(s)
      PROVE  RecordKeys \/ UNCHANGED <<publishers, ended>>
  <2>1. CASE CreatePublisher(s)
    BY <2>1 DEF CreatePublisher, publisherVars
  <2>2. CASE UpdatePublisher(s) \/ DeletePublisher(s) \/ RegenerateApiKey(s) \/ GenerateHmacSecret(s)
    BY <2>2 DEF UpdatePublisher, DeletePublisher, RegenerateApiKey, GenerateHmacSecret, ReadPublisher, publisherVars
  <2>3. CASE \/ InsertPublisher(s) \/ WritePublisher(s) \/ MarkPublisherDeleted(s) \/ WriteKey(s)
             \/ WriteHmacSecret(s) \/ RecordRequest(s)
    BY <2>3 DEF InsertPublisher, WritePublisher, MarkPublisherDeleted, WriteKey, WriteHmacSecret, RecordRequest
  <2>4. CASE \E i \in Instances : Authenticate(s, i) \/ AuthenticateFails(s, i)
    BY <2>4 DEF Authenticate, AuthenticateFails
  <2> QED BY <1>1, <2>1, <2>2, <2>3, <2>4 DEF PublisherStep
<1>2. ASSUME UNCHANGED publisherVars
      PROVE  UNCHANGED <<publishers, ended>>
  BY <1>2 DEF publisherVars
<1>3. CASE \E s \in Slots : Handler(s)
  BY <1>1, <1>2, <1>3 DEF Handler
<1>4. CASE AccountEvent /\ UNCHANGED <<buyerVars, publisherVars, cacheState>>
  BY <1>2, <1>4
<1>5. CASE TimePasses \/ UNCHANGED dashboardVars
  BY <1>5 DEF TimePasses, dashboardVars, publisherVars
<1> QED BY <1>3, <1>4, <1>5 DEF DashboardNext

\* The recorded times are times.
LEMMA HistStep ==
  ASSUME SlotInv, HistInv, CacheInv, [DashboardNext]_dashboardVars
  PROVE  HistInv'
<1>1. now \in Int
  BY DEF CacheInv
<1>2. \A c \in Configs : gone'[c] \in Int
  BY <1>1, RulesRecorded DEF HistInv, RecordRules
<1>3. \A k \in ApiKeys : ended'[k].valid \in Int /\ ended'[k].invalid \in Int
  BY <1>1, KeysRecorded DEF HistInv, RecordKeys
<1> QED BY <1>2, <1>3 DEF HistInv

\* What was in force, or a key's state, at time t or later is so after any step.
LEMMA PastStays ==
  ASSUME SlotInv, HistInv, CacheInv, [DashboardNext]_dashboardVars, NEW t \in Int, t <= now
  PROVE  /\ \A c : RuleWasInForce(c, t) => RuleWasInForce(c, t)'
         /\ \A k \in ApiKeys, b \in BOOLEAN : KeyWas(k, b, t) => KeyWas(k, b, t)'
<1>1. ASSUME NEW c, RuleWasInForce(c, t) PROVE RuleWasInForce(c, t)'
  <2>1. CASE UNCHANGED <<rules, gone>>
    BY <1>1, <2>1 DEF RuleWasInForce, FindByBuyerIds, InForce
  <2>2. CASE RecordRules
    <3>1. c \in Configs
      BY <1>1 DEF RuleWasInForce
    <3>2. gone'[c] = IF c = FindByBuyerIds /\ c # FindByBuyerIds' THEN now ELSE gone[c]
      BY <2>2, <3>1 DEF RecordRules
    <3>3. CASE c = FindByBuyerIds'
      BY <3>1, <3>3 DEF RuleWasInForce
    <3>4. CASE c # FindByBuyerIds'
      <4>1. gone'[c] >= t
        BY <1>1, <3>2, <3>4 DEF RuleWasInForce, CacheInv
      <4> QED BY <3>1, <4>1 DEF RuleWasInForce
    <3> QED BY <3>3, <3>4
  <2> QED BY <2>1, <2>2, RulesRecorded
<1>2. ASSUME NEW k \in ApiKeys, NEW b \in BOOLEAN, KeyWas(k, b, t) PROVE KeyWas(k, b, t)'
  <2>1. CASE UNCHANGED <<publishers, ended>>
    BY <1>2, <2>1 DEF KeyWas, Valid, FindByApiKey, LivePublisher
  <2>2. CASE RecordKeys
    <3>1. /\ ended'[k].valid = IF Valid(k) /\ ~Valid(k)' THEN now ELSE ended[k].valid
          /\ ended'[k].invalid = IF ~Valid(k) /\ Valid(k)' THEN now ELSE ended[k].invalid
      BY <2>2 DEF RecordKeys
    <3>2. CASE b
      BY <1>2, <3>1, <3>2 DEF KeyWas, CacheInv
    <3>3. CASE ~b
      BY <1>2, <3>1, <3>3 DEF KeyWas, CacheInv
    <3> QED BY <3>2, <3>3
  <2> QED BY <2>1, <2>2, KeysRecorded
<1> QED BY <1>1, <1>2

\* A key of the cache is that of the rule set or an API key.
LEMMA KeyKinds ==
  /\ \A k \in CacheKeys : k = RuleSetKey \/ k \in ApiKeys
  /\ RuleSetKey \in CacheKeys /\ TtlOf(RuleSetKey) = RuleTtl
  /\ \A k \in ApiKeys : k \in CacheKeys /\ k # RuleSetKey /\ TtlOf(k) = KeyTtl
  BY PublisherAssumption DEF CacheKeys, ApiKeys, RuleSetKey, TtlOf

\* The same for what a cached value says.
LEMMA TruthStays ==
  ASSUME SlotInv, HistInv, CacheInv, [DashboardNext]_dashboardVars, NEW t \in Int, t <= now,
         NEW k \in CacheKeys, NEW v, WasTrue(k, v, t)
  PROVE  WasTrue(k, v, t)'
<1>1. CASE k = RuleSetKey
  BY <1>1, PastStays DEF WasTrue
<1>2. CASE k # RuleSetKey
  <2>1. PICK b \in BOOLEAN : b = Lets(v)
    BY DEF Lets
  <2>2. KeyWas(k, b, t) /\ k \in ApiKeys
    BY <1>2, <2>1, KeyKinds DEF WasTrue
  <2>3. KeyWas(k, b, t)'
    BY <2>2, PastStays
  <2>4. Lets(v)' = b
    BY <2>1 DEF Lets, IsActive
  <2> QED BY <1>2, <2>3, <2>4 DEF WasTrue
<1> QED BY <1>1, <1>2

\* What the database says is true now.
LEMMA SourceIsTrue ==
  ASSUME RulesInv
  PROVE  /\ WasTrue(RuleSetKey, FindByBuyerIds, now)
         /\ \A k \in ApiKeys : WasTrue(k, FindByApiKey(k), now)
<1>1. WasTrue(RuleSetKey, FindByBuyerIds, now)
  BY InForceIsConfig DEF WasTrue, RuleWasInForce
<1>2. ASSUME NEW k \in ApiKeys PROVE WasTrue(k, FindByApiKey(k), now)
  <2>1. Lets(FindByApiKey(k)) <=> Valid(k)
    BY DEF Lets, Valid, IsActive
  <2>2. KeyWas(k, Lets(FindByApiKey(k)), now)
    BY <2>1 DEF KeyWas
  <2> QED BY <2>2, KeyKinds DEF WasTrue
<1> QED BY <1>1, <1>2

\* What a step does to the cache: nothing, a lookup, or time passes.
LEMMA CacheCases ==
  ASSUME RulesInv, CacheInv, DecisionInv, [DashboardNext]_dashboardVars
  PROVE  \/ UNCHANGED <<now, l1, l2>>
         \/ Clock
         \/ now' = now /\ \E i, k, src : CacheStep(i, k, src) /\ k \in CacheKeys /\ WasTrue(k, src, now)
<1>s. CacheShape
  BY DEF CacheInv
<1>1. ASSUME NEW s \in Slots, BuyerStep(s), ~UNCHANGED cacheState
      PROVE  now' = now /\ \E i, k, src : CacheStep(i, k, src) /\ k \in CacheKeys /\ WasTrue(k, src, now)
  <2>1. PICK i \in Instances : RoutePing(s, i) \/ RoutePingWithoutRules(s, i)
    BY <1>1 DEF BuyerStep, RoutePost, RouteFullpost, JudgeWithoutRules
  <2>2. now' = now
    BY <2>1 DEF RoutePing, RoutePingWithoutRules
  <2>3. CacheStep(i, RuleSetKey, FindByBuyerIds)
    <3>1. CASE RoutePing(s, i)
      <4>1. \E b : Lookup(i, RuleSetKey, RuleTtl, FALSE, FindByBuyerIds, b)
        BY <3>1 DEF RoutePing
      <4> QED BY <1>s, <4>1, KeyKinds, LookupStep
    <3>2. CASE RoutePingWithoutRules(s, i)
      <4>1. \E b : LookupFails(i, RuleSetKey, FALSE, FindByBuyerIds, b)
        BY <3>2 DEF RoutePingWithoutRules
      <4> QED BY <1>s, <4>1, LookupFailsStep
    <3> QED BY <2>1, <3>1, <3>2
  <2> QED BY <2>2, <2>3, KeyKinds, SourceIsTrue
<1>2. ASSUME NEW s \in Slots, PublisherStep(s), ~UNCHANGED cacheState
      PROVE  now' = now /\ \E i, k, src : CacheStep(i, k, src) /\ k \in CacheKeys /\ WasTrue(k, src, now)
  <2>1. PICK i \in Instances : Authenticate(s, i) \/ AuthenticateFails(s, i)
    BY <1>2 DEF PublisherStep, CreatePublisher, InsertPublisher, UpdatePublisher, DeletePublisher,
       RegenerateApiKey, GenerateHmacSecret, ReadPublisher, WritePublisher, MarkPublisherDeleted,
       WriteKey, WriteHmacSecret, RecordRequest, RecordKeys
  <2>2. now' = now
    BY <2>1 DEF Authenticate, AuthenticateFails
  <2>3. PICK k \in 1..keys : CacheStep(i, k, FindByApiKey(k))
    <3>1. CASE Authenticate(s, i)
      <4>1. PICK k \in 1..keys : \E b : Lookup(i, k, KeyTtl, FALSE, FindByApiKey(k), b)
        BY <3>1 DEF Authenticate
      <4>2. k \in ApiKeys
        BY PublisherAssumption DEF DecisionInv, ApiKeys
      <4> QED BY <1>s, <4>1, <4>2, KeyKinds, LookupStep
    <3>2. CASE AuthenticateFails(s, i)
      <4>1. PICK k \in 1..keys : \E b : LookupFails(i, k, FALSE, FindByApiKey(k), b)
        BY <3>2 DEF AuthenticateFails
      <4> QED BY <1>s, <4>1, LookupFailsStep
    <3> QED BY <2>1, <3>1, <3>2
  <2>4. k \in ApiKeys
    BY PublisherAssumption DEF DecisionInv, ApiKeys
  <2> QED BY <2>2, <2>3, <2>4, KeyKinds, SourceIsTrue
<1>3. UNCHANGED cacheState => UNCHANGED <<now, l1, l2>>
  BY DEF cacheState
<1>4. CASE \E s \in Slots : Handler(s)
  BY <1>1, <1>2, <1>3, <1>4 DEF Handler
<1>5. CASE AccountEvent /\ UNCHANGED <<buyerVars, publisherVars, cacheState>>
  BY <1>3, <1>5
<1>6. CASE TimePasses
  BY <1>6 DEF TimePasses
<1>7. CASE UNCHANGED dashboardVars
  BY <1>3, <1>7 DEF dashboardVars
<1> QED BY <1>4, <1>5, <1>6, <1>7 DEF DashboardNext

\* Entries live no longer than they may.
LEMMA CacheInvStep ==
  ASSUME RulesInv, CacheInv, DecisionInv, [DashboardNext]_dashboardVars
  PROVE  CacheInv'
<1>1. CASE UNCHANGED <<now, l1, l2>>
  BY <1>1 DEF CacheInv, CacheShape
<1> QED BY <1>1, CacheCases, CacheStepKeeps, ClockKeeps

\* Their values were true when they were read, or later.
LEMMA TruthStep ==
  ASSUME SlotInv, RulesInv, HistInv, CacheInv, DecisionInv, TruthInv, [DashboardNext]_dashboardVars
  PROVE  TruthInv'
<1> DEFINE Old(k, e) == e # NoEntry /\ WasTrue(k, e.value, e.read) /\ e.read \in Int /\ e.read <= now
<1>1. \A i \in Instances, k \in CacheKeys : l1[i][k] # NoEntry => Old(k, l1[i][k])
  BY DEF TruthInv, CacheInv, L1Entry
<1>2. \A k \in CacheKeys : l2[k] # NoEntry => Old(k, l2[k])
  BY DEF TruthInv, CacheInv, L2Entry
<1>3. ASSUME NEW k \in CacheKeys, NEW e, Old(k, e) PROVE WasTrue(k, e.value, e.read)'
  BY <1>3, TruthStays
<1>4. ASSUME NEW k \in CacheKeys, NEW e, NEW src, NEW ttl, WasTrue(k, src, now), e = Entry(src, ttl)
      PROVE  WasTrue(k, e.value, e.read)'
  <2>1. PICK t : t = now
    OBVIOUS
  <2>2. e.value = src /\ e.read = t
    BY <1>4, <2>1 DEF Entry
  <2>3. t \in Int /\ t <= now /\ WasTrue(k, src, t)
    BY <1>4, <2>1 DEF CacheInv
  <2>4. WasTrue(k, src, t)'
    BY <2>3, TruthStays
  <2> QED BY <2>2, <2>4
<1>5. ASSUME NEW i \in Instances, NEW k \in CacheKeys, l1'[i][k] # NoEntry
      PROVE  \E e : e = l1'[i][k] /\ WasTrue(k, e.value, e.read)'
  <2>1. PICK e : e = l1'[i][k]
    OBVIOUS
  <2>2. CASE l1'[i][k] = l1[i][k]
    <3>1. Old(k, e)
      BY <1>1, <1>5, <2>1, <2>2
    <3> QED BY <1>3, <2>1, <3>1
  <2>3. CASE \E src : WasTrue(k, src, now) /\ e = Entry(src, L1Ttl)
    BY <1>4, <2>1, <2>3
  <2>4. CASE l2[k] # NoEntry /\ e = Copy(l2[k])
    <3>1. PICK x : x = l2[k]
      OBVIOUS
    <3>2. Old(k, x) /\ e.value = x.value /\ e.read = x.read
      BY <1>2, <2>4, <3>1 DEF Copy
    <3>3. WasTrue(k, x.value, x.read)'
      BY <1>3, <3>2
    <3> QED BY <2>1, <3>2, <3>3
  <2>5. CASE UNCHANGED <<now, l1, l2>>
    BY <2>2, <2>5
  <2>6. CASE Clock
    BY <1>5, <2>2, <2>6, ClockKeeps
  <2>7. ASSUME NEW j, NEW x, NEW src, CacheStep(j, x, src), WasTrue(x, src, now)
        PROVE  \/ l1'[i][k] = l1[i][k]
               \/ WasTrue(k, src, now) /\ e = Entry(src, L1Ttl)
               \/ l2[k] # NoEntry /\ e = Copy(l2[k])
    BY <1>5, <2>1, <2>7 DEF CacheStep
  <2> HIDE DEF Old
  <2> QED BY <2>2, <2>3, <2>4, <2>5, <2>6, <2>7, CacheCases
<1>6. ASSUME NEW k \in CacheKeys, l2'[k] # NoEntry
      PROVE  \E e : e = l2'[k] /\ WasTrue(k, e.value, e.read)'
  <2>1. PICK e : e = l2'[k]
    OBVIOUS
  <2>2. CASE l2'[k] = l2[k]
    <3>1. Old(k, e)
      BY <1>2, <1>6, <2>1, <2>2
    <3> QED BY <1>3, <2>1, <3>1
  <2>3. CASE \E src : WasTrue(k, src, now) /\ e = Entry(src, TtlOf(k))
    BY <1>4, <2>1, <2>3
  <2>4. CASE UNCHANGED <<now, l1, l2>>
    BY <2>2, <2>4
  <2>5. CASE Clock
    BY <1>6, <2>2, <2>5, ClockKeeps
  <2>6. ASSUME NEW j, NEW x, NEW src, CacheStep(j, x, src), WasTrue(x, src, now)
        PROVE  \/ l2'[k] = l2[k]
               \/ WasTrue(k, src, now) /\ e = Entry(src, TtlOf(k))
    BY <2>1, <2>6 DEF CacheStep
  <2> HIDE DEF Old
  <2> QED BY <2>2, <2>3, <2>4, <2>5, <2>6, CacheCases
<1>7. ASSUME NEW i \in Instances, NEW k \in CacheKeys, l1'[i][k] # NoEntry
      PROVE  WasTrue(k, l1[i][k].value, l1[i][k].read)'
  <2>1. PICK e : e = l1'[i][k] /\ WasTrue(k, e.value, e.read)'
    BY <1>5, <1>7
  <2>2. l1'[i][k].value = e.value /\ l1'[i][k].read = e.read
    BY <2>1
  <2> QED BY <2>1, <2>2 DEF WasTrue, RuleWasInForce, KeyWas, Lets
<1>8. ASSUME NEW k \in CacheKeys, l2'[k] # NoEntry
      PROVE  WasTrue(k, l2[k].value, l2[k].read)'
  <2>1. PICK e : e = l2'[k] /\ WasTrue(k, e.value, e.read)'
    BY <1>6, <1>8
  <2>2. l2'[k].value = e.value /\ l2'[k].read = e.read
    BY <2>1
  <2> QED BY <2>1, <2>2 DEF WasTrue, RuleWasInForce, KeyWas, Lets
<1> QED BY <1>7, <1>8 DEF TruthInv

-----------------------------------------------------------------------------
(* Decisions and judgements.                                                *)

\* A state that a key had at time t it had at an earlier one or later.
LEMMA EarlierIsWeaker ==
  ASSUME HistInv, NEW t \in Int, NEW u \in Int, u <= t
  PROVE  /\ \A c : RuleWasInForce(c, t) => RuleWasInForce(c, u)
         /\ \A k \in ApiKeys, b \in BOOLEAN : KeyWas(k, b, t) => KeyWas(k, b, u)
<1>1. ASSUME NEW c, RuleWasInForce(c, t) PROVE RuleWasInForce(c, u)
  BY <1>1 DEF RuleWasInForce, HistInv
<1>2. ASSUME NEW k \in ApiKeys, NEW b \in BOOLEAN, KeyWas(k, b, t) PROVE KeyWas(k, b, u)
  <2>1. ended[k].valid \in Int /\ ended[k].invalid \in Int
    BY DEF HistInv
  <2>2. CASE b
    BY <1>2, <2>1, <2>2 DEF KeyWas
  <2>3. CASE ~b
    BY <1>2, <2>1, <2>3 DEF KeyWas
  <2> QED BY <2>2, <2>3
<1> QED BY <1>1, <1>2

\* The ages of cached values are numbers.
LEMMA AgesAreNumbers == MaxAge(KeyTtl) \in Nat /\ MaxAge(RuleTtl) \in Nat
  BY BuyerAssumption, PublisherAssumption, CacheAssumption DEF MaxAge

\* Which steps decide about a key.
LEMMA VerdictCases ==
  ASSUME [DashboardNext]_dashboardVars
  PROVE  \/ verdict' = NoVerdict /\ keys' = keys
         \/ verdict' = verdict /\ now' = now /\ (keys' = keys \/ (keys < MaxKeys /\ keys' = keys + 1))
         \/ \E s \in Slots, i \in Instances : Authenticate(s, i)
<1>1. ASSUME NEW s \in Slots, PublisherStep(s), ~\E i \in Instances : Authenticate(s, i)
      PROVE  verdict' = verdict /\ now' = now /\ (keys' = keys \/ (keys < MaxKeys /\ keys' = keys + 1))
  <2>1. CASE CreatePublisher(s)
    BY <2>1 DEF CreatePublisher, publisherVars, cacheState
  <2>2. CASE UpdatePublisher(s) \/ DeletePublisher(s) \/ RegenerateApiKey(s) \/ GenerateHmacSecret(s)
    BY <2>2 DEF UpdatePublisher, DeletePublisher, RegenerateApiKey, GenerateHmacSecret, ReadPublisher,
       publisherVars, cacheState
  <2>3. CASE \/ InsertPublisher(s) \/ WritePublisher(s) \/ MarkPublisherDeleted(s) \/ WriteKey(s)
             \/ WriteHmacSecret(s) \/ RecordRequest(s)
    BY <2>3 DEF InsertPublisher, WritePublisher, MarkPublisherDeleted, WriteKey, WriteHmacSecret,
       RecordRequest, RecordKeys, cacheState
  <2>4. CASE \E i \in Instances : AuthenticateFails(s, i)
    BY <2>4 DEF AuthenticateFails
  <2> QED BY <1>1, <2>1, <2>2, <2>3, <2>4 DEF PublisherStep
<1>2. ASSUME NEW s \in Slots, BuyerStep(s)
      PROVE  now' = now
  BY <1>2 DEF BuyerStep, RoutePing, RoutePingWithoutRules, RoutePost, RouteFullpost, JudgeWithoutRules, cacheState
<1>3. CASE \E s \in Slots : Handler(s)
  BY <1>1, <1>2, <1>3 DEF Handler, publisherVars, cacheState
<1>4. CASE AccountEvent /\ UNCHANGED <<buyerVars, publisherVars, cacheState>>
  BY <1>4 DEF publisherVars, cacheState
<1>5. CASE TimePasses
  BY <1>5 DEF TimePasses
<1>6. CASE UNCHANGED dashboardVars
  BY <1>6 DEF dashboardVars, publisherVars, cacheState
<1> QED BY <1>3, <1>4, <1>5, <1>6 DEF DashboardNext

\* A decision follows what the key was within the largest age of a cached publisher.
LEMMA DecisionStep ==
  ASSUME SlotInv, RulesInv, HistInv, CacheInv, TruthInv, DecisionInv, [DashboardNext]_dashboardVars
  PROVE  DecisionInv'
<1>1. CASE verdict' = NoVerdict /\ keys' = keys
  BY <1>1 DEF DecisionInv
<1>2. CASE verdict' = verdict /\ now' = now /\ (keys' = keys \/ (keys < MaxKeys /\ keys' = keys + 1))
  <2>1. keys' \in Nat /\ keys' <= MaxKeys
    <3>1. keys \in Nat /\ keys <= MaxKeys /\ MaxKeys \in Nat
      BY PublisherAssumption DEF DecisionInv
    <3>2. keys' = keys \/ (keys < MaxKeys /\ keys' = keys + 1)
      BY <1>2
    <3> QED BY <3>1, <3>2
  <2>2. ASSUME verdict # NoVerdict
        PROVE  /\ verdict'.time = now' /\ verdict'.key \in ApiKeys /\ verdict'.granted \in BOOLEAN
               /\ KeyWas(verdict.key, verdict.granted, now - MaxAge(KeyTtl))'
    <3>1. PICK k, b, t : k = verdict.key /\ b = verdict.granted /\ t = now - MaxAge(KeyTtl)
      OBVIOUS
    <3>2. verdict.time = now /\ k \in ApiKeys /\ KeyWas(k, b, t) /\ b \in BOOLEAN
      BY <2>2, <3>1 DEF DecisionInv
    <3>3. t \in Int /\ t <= now
      BY <3>1, AgesAreNumbers DEF CacheInv
    <3>4. KeyWas(k, b, t)'
      BY <3>2, <3>3, PastStays
    <3>5. verdict'.key = k /\ verdict'.granted = b /\ now' - MaxAge(KeyTtl) = t /\ verdict'.time = now'
      BY <1>2, <3>1, <3>2
    <3>6. MaxAge(KeyTtl)' = MaxAge(KeyTtl)
      BY DEF MaxAge
    <3> QED BY <3>2, <3>4, <3>5, <3>6 DEF KeyWas
  <2> QED BY <1>2, <2>1, <2>2 DEF DecisionInv
<1>3. ASSUME NEW s \in Slots, NEW i \in Instances, Authenticate(s, i)
      PROVE  DecisionInv'
  <2>1. now' = now /\ keys' = keys /\ publishers' = publishers /\ ended' = ended
    BY <1>3 DEF Authenticate
  <2>2. PICK k \in 1..keys, lose \in BOOLEAN : Admit(s, k, Found(i, k, FALSE, FindByApiKey(k), lose))
    BY <1>3 DEF Authenticate
  <2>3. PICK found : found = Found(i, k, FALSE, FindByApiKey(k), lose)
    OBVIOUS
  <2>4. PICK b \in BOOLEAN : b = Lets(found)
    BY DEF Lets
  <2>5. verdict' = [key |-> k, granted |-> b, time |-> now]
    BY <2>2, <2>3, <2>4 DEF Admit, Lets
  <2>6. k \in ApiKeys
    BY PublisherAssumption DEF DecisionInv, ApiKeys
  <2>7. PICK t \in Int : now - t <= MaxAge(KeyTtl) /\ WasTrue(k, found, t)
    <3>1. k \in CacheKeys /\ TtlOf(k) = KeyTtl /\ WasTrue(k, FindByApiKey(k), now)
      BY <2>6, KeyKinds, SourceIsTrue
    <3> QED BY <2>3, <3>1, FoundWasTrue
  <2>8. KeyWas(k, b, t)
    BY <2>4, <2>6, <2>7, KeyKinds DEF WasTrue
  <2>9. PICK u : u = now - MaxAge(KeyTtl)
    OBVIOUS
  <2>10. u \in Int /\ u <= t
    BY <2>7, <2>9, AgesAreNumbers DEF CacheInv
  <2>11. KeyWas(k, b, u)
    BY <2>6, <2>8, <2>10, EarlierIsWeaker
  <2>12. KeyWas(k, b, u)'
    BY <2>1, <2>11 DEF KeyWas, Valid, FindByApiKey, LivePublisher
  <2>13. verdict'.key = k /\ verdict'.granted = b /\ verdict'.time = now
    BY <2>5
  <2>14. now' - MaxAge(KeyTtl)' = u
    BY <2>1, <2>9 DEF MaxAge
  <2>15. KeyWas(verdict.key, verdict.granted, now - MaxAge(KeyTtl))'
    BY <2>12, <2>13, <2>14 DEF KeyWas
  <2> QED BY <2>1, <2>6, <2>13, <2>15 DEF DecisionInv
<1> QED BY <1>1, <1>2, <1>3, VerdictCases

\* Without a rule set everything is accepted.
LEMMA NoRulesAccept == \A l, type : Accepted(NoConfig, l, type)
  BY DEF Accepted, NoConfig

\* Which steps judge a lead.
LEMMA JudgedCases ==
  ASSUME [DashboardNext]_dashboardVars
  PROVE  \/ judged' = NotJudged
         \/ judged' = judged /\ now' = now
         \/ \E s \in Slots, i \in Instances : RoutePing(s, i)
         \/ ~judged'.ruled /\ judged'.accepted
<1>1. ASSUME NEW s \in Slots, AdminStep(s)
      PROVE  judged' = judged
  BY <1>1 DEF AdminStep, CreateBuyer, InsertBuyer, FindIntegration, InsertIntegration, SetIntegration,
     UpdateBuyer, WriteBuyer, DeleteBuyer, MarkBuyerDeleted, CreateBuyerRuleSet, UpdateBuyerRuleSet,
     UpdateWith, DeactivateOthers, ClearActive, FindZipList, CreateZipList, InsertZip, ExtractionFails,
     WriteRuleSet, DeleteBuyerRuleSet, buyerVars
<1>2. ASSUME NEW s \in Slots, NEW i \in Instances, RoutePingWithoutRules(s, i)
      PROVE  ~judged'.ruled /\ judged'.accepted
  <2>1. PICK l : judged' = [lead |-> l, ruled |-> FALSE, accepted |-> RoutePingDirect(NoConfig, l)]
    BY <1>2 DEF RoutePingWithoutRules
  <2>2. judged'.ruled = FALSE /\ judged'.accepted = RoutePingDirect(NoConfig, l)
    BY <2>1
  <2> QED BY <2>2, NoRulesAccept DEF RoutePingDirect
<1>3. ASSUME NEW s \in Slots, RoutePost(s) \/ RouteFullpost(s)
      PROVE  ~judged'.ruled /\ judged'.accepted
  <2> DEFINE post == [l \in Leads |-> RoutePostDirect(NoConfig, l)]
             fullpost == [l \in Leads |-> RouteFullpostDirect(NoConfig, l)]
  <2>0. (\A l \in Leads : post[l]) /\ (\A l \in Leads : fullpost[l])
    BY NoRulesAccept DEF RoutePostDirect, RouteFullpostDirect, RoutePingDirect
  <2>1. PICK type, accepts : JudgeWithoutRules(s, type, accepts) /\ \A l \in Leads : accepts[l]
    <3>1. JudgeWithoutRules(s, "post", post) \/ JudgeWithoutRules(s, "fullpost", fullpost)
      BY <1>3 DEF RoutePost, RouteFullpost
    <3> HIDE DEF post, fullpost
    <3> QED BY <2>0, <3>1
  <2>2. PICK l \in Leads : judged' = [lead |-> l, ruled |-> FALSE, accepted |-> accepts[l]]
    BY <2>1 DEF JudgeWithoutRules
  <2>3. judged'.ruled = FALSE /\ judged'.accepted = accepts[l]
    BY <2>2
  <2> QED BY <2>1, <2>3
<1>4. ASSUME NEW s \in Slots, PublisherStep(s)
      PROVE  now' = now
  BY <1>4 DEF PublisherStep, CreatePublisher, InsertPublisher, UpdatePublisher, DeletePublisher,
     RegenerateApiKey, GenerateHmacSecret, ReadPublisher, WritePublisher, MarkPublisherDeleted,
     WriteKey, WriteHmacSecret, RecordRequest, RecordKeys, Authenticate, AuthenticateFails, cacheState
<1>5. CASE \E s \in Slots : Handler(s)
  BY <1>1, <1>2, <1>3, <1>4, <1>5 DEF Handler, BuyerStep, buyerVars, cacheState
<1>6. CASE AccountEvent /\ UNCHANGED <<buyerVars, publisherVars, cacheState>>
  BY <1>6 DEF buyerVars, cacheState
<1>7. CASE TimePasses
  BY <1>7 DEF TimePasses
<1>8. CASE UNCHANGED dashboardVars
  BY <1>8 DEF dashboardVars, buyerVars, cacheState
<1> QED BY <1>5, <1>6, <1>7, <1>8 DEF DashboardNext

\* A judgement follows a configuration that was in force within the largest age of a
\* cached one.
LEMMA JudgedStep ==
  ASSUME SlotInv, RulesInv, HistInv, CacheInv, TruthInv, JudgedInv, [DashboardNext]_dashboardVars
  PROVE  JudgedInv'
<1>1. CASE judged' = NotJudged
  BY <1>1 DEF JudgedInv
<1>2. CASE ~judged'.ruled /\ judged'.accepted
  BY <1>2 DEF JudgedInv
<1>3. CASE judged' = judged /\ now' = now
  <2> SUFFICES ASSUME judged # NotJudged, judged.ruled
               PROVE  \E c \in Configs : /\ RuleWasInForce(c, now - MaxAge(RuleTtl))'
                                         /\ judged.accepted = Accepted(c, judged.lead, "ping")
    BY <1>3 DEF JudgedInv, Accepted
  <2>1. PICK t : t = now - MaxAge(RuleTtl)
    OBVIOUS
  <2>2. PICK c \in Configs : RuleWasInForce(c, t) /\ judged.accepted = Accepted(c, judged.lead, "ping")
    BY <2>1 DEF JudgedInv
  <2>3. t \in Int /\ t <= now
    BY <2>1, AgesAreNumbers DEF CacheInv
  <2>4. RuleWasInForce(c, t)'
    BY <2>2, <2>3, PastStays
  <2>5. now' - MaxAge(RuleTtl)' = t
    BY <1>3, <2>1 DEF MaxAge
  <2>6. RuleWasInForce(c, now - MaxAge(RuleTtl))'
    BY <2>4, <2>5 DEF RuleWasInForce
  <2> QED BY <2>2, <2>6
<1>4. ASSUME NEW s \in Slots, NEW i \in Instances, RoutePing(s, i)
      PROVE  JudgedInv'
  <2>1. now' = now /\ rules' = rules /\ gone' = gone
    BY <1>4 DEF RoutePing, ruleVars
  <2>2. PICK l, lose : judged' = [lead |-> l, ruled |-> TRUE,
                 accepted |-> RoutePingDirect(Found(i, RuleSetKey, FALSE, FindByBuyerIds, lose), l)]
    BY <1>4 DEF RoutePing
  <2>3. PICK c : c = Found(i, RuleSetKey, FALSE, FindByBuyerIds, lose)
    OBVIOUS
  <2>4. PICK t \in Int : now - t <= MaxAge(RuleTtl) /\ WasTrue(RuleSetKey, c, t)
    BY <2>3, KeyKinds, SourceIsTrue, FoundWasTrue
  <2>5. RuleWasInForce(c, t)
    BY <2>4 DEF WasTrue
  <2>6. PICK u : u = now - MaxAge(RuleTtl)
    OBVIOUS
  <2>7. u \in Int /\ u <= t
    BY <2>4, <2>6, AgesAreNumbers DEF CacheInv
  <2>8. RuleWasInForce(c, u)
    BY <2>5, <2>7, EarlierIsWeaker
  <2>9. now' - MaxAge(RuleTtl)' = u
    BY <2>1, <2>6 DEF MaxAge
  <2>10. c \in Configs /\ RuleWasInForce(c, now - MaxAge(RuleTtl))'
    BY <2>1, <2>8, <2>9 DEF RuleWasInForce, FindByBuyerIds, InForce
  <2>11. judged'.ruled = TRUE /\ judged'.lead = l /\ judged'.accepted = RoutePingDirect(c, l)
    BY <2>2, <2>3
  <2>12. judged'.accepted = Accepted(c, judged'.lead, "ping")
    BY <2>11 DEF RoutePingDirect
  <2> QED BY <2>10, <2>11, <2>12 DEF JudgedInv
<1> QED BY <1>1, <1>2, <1>3, <1>4, JudgedCases

-----------------------------------------------------------------------------
(* The server starts with no request in execution and an empty cache.       *)

\* The slots.
LEMMA SlotInit ==
  ASSUME DashboardInit
  PROVE  SlotInv /\ \A s \in Slots : at[s] = "idle"
  BY DEF DashboardInit, RequestsInit, SlotInv

\* The password and its links.
LEMMA ResetInit == DashboardInit => ResetInv
<1> SUFFICES ASSUME DashboardInit PROVE ResetInv
  OBVIOUS
<1>1. /\ user = [password |-> 0, link |-> 0, sent |-> "never"]
      /\ mail = [last |-> 0, sent |-> {}, failed |-> {}, resets |-> [n \in Links |-> 0]]
  BY DEF DashboardInit, AccountInit
<1>2. user.password = 0 /\ user.link = 0 /\ user.sent = "never"
  BY <1>1
<1>3. mail.last = 0 /\ mail.sent = {} /\ mail.failed = {} /\ mail.resets = [n \in Links |-> 0]
  BY <1>1
<1>4. mail.resets \in [Links -> Nat] /\ \A n \in Links : mail.resets[n] = 0
  BY <1>3
<1>5. ResetTypes
  BY <1>1, <1>2, <1>3, <1>4, SlotInit DEF ResetTypes
<1>6. ResetLinksAreSound
  BY <1>2, <1>4 DEF ResetLinksAreSound
<1> QED BY <1>2, <1>3, <1>4, <1>5, <1>6, AccountAssumption DEF ResetInv

\* The second factor.
LEMMA OtpInit == DashboardInit => OtpInv
<1> SUFFICES ASSUME DashboardInit PROVE OtpInv
  OBVIOUS
<1>1. /\ otp = [secret |-> 0, enabled |-> FALSE, codes |-> {}]
      /\ shown = [secret |-> 0, proven |-> {}, batch |-> 0]
      /\ used = [c \in Codes |-> 0]
      /\ lost = [codes |-> FALSE, secret |-> FALSE]
  BY DEF DashboardInit, AccountInit, NoRow
<1>2. otp.enabled = FALSE /\ otp.codes = {} /\ shown.batch = 0 /\ lost.codes = FALSE /\ lost.secret = FALSE
  BY <1>1
<1>3. used \in [Codes -> Nat] /\ \A c \in Codes : used[c] = 0
  BY <1>1
<1>4. OtpTypes
  BY <1>1, <1>2, <1>3 DEF OtpTypes
<1>5. SecretInv
  BY <1>2, SlotInit DEF SecretInv, EnabledSecretIsProven
<1>6. \A c \in Codes : c[1] # 0
  BY DEF Codes
<1>7. otp.codes = {c \in Codes : c[1] = shown.batch /\ used[c] = 0}
  BY <1>2, <1>6
<1>8. BackupCodesAreExact
  BY <1>3, <1>7 DEF BackupCodesAreExact
<1>9. \A c \in otp.codes : c[1] <= shown.batch
  BY <1>2
<1>10. \A c \in Codes : used[c] > 0 => c[1] <= shown.batch
  BY <1>3
<1>11. \A s \in Slots : at[s] # "write codes"
  BY SlotInit
<1>12. CodesInv
  BY <1>8, <1>9, <1>10, <1>11, Zenon DEF CodesInv
<1> QED BY <1>4, <1>5, <1>12 DEF OtpInv

\* Passkeys.
LEMMA PasskeyInit == DashboardInit => PasskeyInv
<1> SUFFICES ASSUME DashboardInit PROVE PasskeyInv
  OBVIOUS
<1>1. passkeys = 0 /\ challenges = {} /\ issued = 0 /\ spent = {} /\ peak = 0 /\ repeats = 0
  BY DEF DashboardInit, AccountInit
<1>2. \A s \in Slots : at[s] = "idle"
  BY SlotInit
<1>3. PasskeyTypes
  BY <1>1, <1>2 DEF PasskeyTypes
<1>4. Pending = {} /\ Unspent = {}
  BY <1>1, <1>2 DEF Pending, Unspent
<1>5. Open = 0
  BY <1>4, FS_EmptySet DEF Open
<1>6. 0 + 0 <= MaxPasskeys - 1 + 0 + 0
  BY AccountAssumption
<1> QED BY <1>1, <1>3, <1>5, <1>6 DEF PasskeyInv

\* Rule sets.
LEMMA RulesInit == DashboardInit => SavesInv /\ RulesInv /\ ActiveInv
<1> SUFFICES ASSUME DashboardInit PROVE SavesInv /\ RulesInv /\ ActiveInv
  OBVIOUS
<1>1. /\ rules = [r \in RuleSets |->
                    IF r \in Disused THEN [config |-> Earlier, active |-> FALSE, born |-> 0] ELSE NoRuleSet]
      /\ overlapped = FALSE
  BY DEF DashboardInit, BuyerInit
<1>2. \A s \in Slots : at[s] \notin SaveSteps /\ ~Cleared(s) /\ Prepared(s)
  BY SlotInit DEF SaveSteps, Cleared, Prepared, ZipSteps
<1>3. ASSUME NEW r \in RuleSets, rules[r] # NoRuleSet
      PROVE  IsRuleSet(rules[r]) /\ rules[r].active = FALSE
  <2>1. rules[r] = [config |-> Earlier, active |-> FALSE, born |-> 0]
    BY <1>1, <1>3
  <2>2. rules[r].config = Earlier /\ rules[r].active = FALSE /\ rules[r].born = 0
    BY <2>1
  <2> QED BY <2>1, <2>2 DEF IsRuleSet, Configs
<1>4. RulesInv
  BY <1>1, <1>3 DEF RulesInv
<1>5. \A r \in RuleSets : ~Active(r)
  BY <1>3 DEF Active
<1>6. ActiveInv
  BY <1>1, <1>2, <1>5 DEF ActiveInv, Exclusive
<1> QED BY <1>2, <1>4, <1>6 DEF SavesInv

\* ZIP codes.
LEMMA ZipInit == DashboardInit => ZipInv
<1> SUFFICES ASSUME DashboardInit PROVE ZipInv
  OBVIOUS
<1>1. lists = <<>> /\ saved = [t \in Types |-> {}] /\ unstored = [t \in Types |-> {}]
  BY DEF DashboardInit, BuyerInit
<1>2. Len(lists) = 0 /\ lists = [l \in 1..Len(lists) |-> lists[l]]
  BY <1>1
<1>3. ListsInv
  BY <1>1, <1>2 DEF ListsInv
<1>4. MissingZipsFailed
  BY <1>1 DEF MissingZipsFailed
<1> QED BY <1>3, <1>4, SlotInit DEF ZipInv, SaveSteps

\* The cache and what was found in it.
LEMMA CacheInitInv == DashboardInit => CacheInv /\ TruthInv /\ HistInv /\ DecisionInv /\ JudgedInv
<1> SUFFICES ASSUME DashboardInit PROVE CacheInv /\ TruthInv /\ HistInv /\ DecisionInv /\ JudgedInv
  OBVIOUS
<1>1. /\ now = 0 /\ l1 = [i \in Instances |-> [k \in CacheKeys |-> NoEntry]] /\ l2 = [k \in CacheKeys |-> NoEntry]
  BY DEF DashboardInit, CacheInit, CacheKeys
<1>2. /\ CacheShape
      /\ \A i \in Instances, k \in CacheKeys : l1[i][k] = NoEntry
      /\ \A k \in CacheKeys : l2[k] = NoEntry
  BY <1>1 DEF CacheShape
<1>3. CacheInv /\ TruthInv
  BY <1>1, <1>2 DEF CacheInv, TruthInv
<1>4. HistInv
  <2>1. gone = [c \in Configs |-> Never]
    BY DEF DashboardInit, BuyerInit
  <2>2. ended = [k \in ApiKeys |-> [valid |-> LongAgo, invalid |-> LongAgo]]
    BY DEF DashboardInit, PublisherInit
  <2> QED BY <2>1, <2>2 DEF HistInv, Never, LongAgo
<1>5. DecisionInv
  BY PublisherAssumption DEF DecisionInv, DashboardInit, PublisherInit
<1>6. JudgedInv
  BY DEF JudgedInv, DashboardInit, BuyerInit
<1> QED BY <1>3, <1>4, <1>5, <1>6

-----------------------------------------------------------------------------
(* The theorems.                                                            *)

\* forgot_password, send_password_reset_email and reset_password: however requests
\* interleave, a link sets one password at most and none after a newer link, and the
\* answer "sent in the last five minutes" is given only while the newest link works.
THEOREM ResetLinksStaySound == DashboardSpec => []ResetLinksAreSound
<1>1. DashboardInit => SlotInv /\ ResetInv
  BY SlotInit, ResetInit
<1>2. SlotInv /\ ResetInv /\ [DashboardNext]_dashboardVars => (SlotInv /\ ResetInv)'
  BY SlotStep, ResetStep
<1>3. ResetInv => ResetLinksAreSound
  BY DEF ResetInv
<1> QED BY <1>1, <1>2, <1>3, PTL DEF DashboardSpec

\* verify_otp, setup_otp and disable_otp: OTP is enabled for a secret of which a code was
\* verified, unless a set-up came between the two statements of verify_otp.
THEOREM EnabledSecretsAreProven == DashboardSpec => []EnabledSecretIsProven
<1>1. DashboardInit => SlotInv /\ OtpInv
  BY SlotInit, OtpInit
<1>2. SlotInv /\ OtpInv /\ [DashboardNext]_dashboardVars => (SlotInv /\ OtpInv)'
  BY SlotStep, OtpStep
<1>3. OtpInv => EnabledSecretIsProven
  BY DEF OtpInv, SecretInv
<1> QED BY <1>1, <1>2, <1>3, PTL DEF DashboardSpec

\* verify_otp_login and verify_otp: a backup code logs in once and the codes stored are
\* those shown last and not used, unless a write overwrote what another request changed.
THEOREM BackupCodesStayExact == DashboardSpec => []BackupCodesAreExact
<1>1. DashboardInit => SlotInv /\ OtpInv
  BY SlotInit, OtpInit
<1>2. SlotInv /\ OtpInv /\ [DashboardNext]_dashboardVars => (SlotInv /\ OtpInv)'
  BY SlotStep, OtpStep
<1>3. OtpInv => BackupCodesAreExact
  BY DEF OtpInv, CodesInv
<1> QED BY <1>1, <1>2, <1>3, PTL DEF DashboardSpec

\* passkey_registration_options and register_passkey: the check at the start of a
\* registration lets the account exceed the maximum by no more than the registrations that
\* were open besides it and the passkeys stored for a challenge that had served already.
THEOREM PasskeysAreLimited == DashboardSpec => []PasskeyLimit
<1>1. DashboardInit => SlotInv /\ PasskeyInv
  BY SlotInit, PasskeyInit
<1>2. SlotInv /\ PasskeyInv /\ [DashboardNext]_dashboardVars => (SlotInv /\ PasskeyInv)'
  BY SlotStep, PasskeyStep
<1>3. PasskeyInv => PasskeyLimit
  BY PasskeyFollows
<1> QED BY <1>1, <1>2, <1>3, PTL DEF DashboardSpec

\* The rule sets, their ZIP codes and the requests that save them.
LEMMA RuleSetInvariant == DashboardSpec => [](SlotInv /\ SavesInv /\ RulesInv /\ ActiveInv /\ ZipInv)
<1> DEFINE Inv == SlotInv /\ SavesInv /\ RulesInv /\ ActiveInv /\ ZipInv
<1>1. DashboardInit => Inv
  BY SlotInit, RulesInit, ZipInit
<1>2. Inv /\ [DashboardNext]_dashboardVars => Inv'
  BY SlotStep, SavesStep, RulesStep, ActiveStep, ZipStep
<1> QED BY <1>1, <1>2, PTL DEF DashboardSpec

\* create_buyer_rule_set and update_buyer_rule_set: at most one rule set of a buyer is
\* active, unless two activations ran at the same time.
THEOREM RuleSetsExclude == DashboardSpec => []OneActiveRuleSet
<1>1. ActiveInv => OneActiveRuleSet
  BY ActiveFollows
<1> QED BY <1>1, RuleSetInvariant, PTL

\* find_or_create_zip_list and the INSERTs after it: a ZIP code of a save that was answered
\* with success and is not loaded with the rule set is one whose statement failed; none
\* is lost to the saves that race for the lists.
THEOREM OnlyFailedZipsAreMissing == DashboardSpec => []MissingZipsFailed
<1>1. ZipInv => MissingZipsFailed
  BY DEF ZipInv
<1> QED BY <1>1, RuleSetInvariant, PTL

\* The cache, what it holds and what was decided by it.
LEMMA CacheInvariant ==
  DashboardSpec => [](CacheInv /\ TruthInv /\ HistInv /\ DecisionInv /\ JudgedInv)
<1> DEFINE Rows == SlotInv /\ SavesInv /\ RulesInv /\ ActiveInv /\ ZipInv
           Inv == CacheInv /\ TruthInv /\ HistInv /\ DecisionInv /\ JudgedInv
<1>1. DashboardInit => Inv
  BY CacheInitInv
<1>2. Rows /\ Inv /\ [DashboardNext]_dashboardVars => Inv'
  BY CacheInvStep, TruthStep, HistStep, DecisionStep, JudgedStep
<1>3. DashboardSpec => []Rows
  BY RuleSetInvariant
<1> QED BY <1>1, <1>2, <1>3, PTL DEF DashboardSpec

\* api_key_auth_middleware: a key is let in, or refused, only as it was valid, or invalid,
\* within the largest age of a cached publisher, whatever the dashboard does meanwhile.
THEOREM KeyDecisionsStayRecent == DashboardSpec => []KeyDecisionsAreRecent
<1>1. DecisionInv => KeyDecisionsAreRecent
  <2> SUFFICES ASSUME DecisionInv, verdict # NoVerdict
               PROVE  LET k == verdict.key
                          bound == verdict.time - MaxAge(KeyTtl) IN
                      IF verdict.granted THEN Valid(k) \/ ended[k].valid >= bound
                                         ELSE ~Valid(k) \/ ended[k].invalid >= bound
    BY DEF KeyDecisionsAreRecent
  <2>1. verdict.time = now /\ KeyWas(verdict.key, verdict.granted, now - MaxAge(KeyTtl))
    BY DEF DecisionInv
  <2> QED BY <2>1 DEF KeyWas
<1> QED BY <1>1, CacheInvariant, PTL

\* find_by_buyer_ids behind the cache, and Pulsar: a ping is judged by a configuration
\* that was in force within the largest age of a cached one, and accepted when a failing
\* cache leaves the router without one.
THEOREM RulesStayRecent == DashboardSpec => []RulesAreRecent
<1>1. JudgedInv => RulesAreRecent
  BY DEF JudgedInv, RulesAreRecent, RuleWasInForce
<1> QED BY <1>1, CacheInvariant, PTL

=============================================================================
