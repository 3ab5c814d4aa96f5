--------------------------- MODULE AdminRequests ---------------------------
(***************************************************************************)
(* The ToM server's requests to Synapse as an administrator:               *)
(*   - AdminSettingsService (admin-settings-api/services): profile updates *)
(*     that share one cached access token;                                 *)
(*   - DeactivateAccountService (deactivate-account-api/services): account *)
(*     removal, with a token of its own;                                   *)
(*   - TokenService (utils/services/token-service.ts): the chain of        *)
(*     requests to the SSO portal and to Synapse that yields a token, also *)
(*     used for the user's own token by the QR code endpoint.              *)
(*                                                                         *)
(* Jobs run concurrently and interleave at every HTTP request.  A token is *)
(* represented by the generation it was issued in: revoking the            *)
(* administrator's tokens starts a new generation and Synapse refuses the  *)
(* older ones with 401.                                                    *)
(***************************************************************************)
EXTENDS Integers

CONSTANTS
    Jobs,            \* bound: requests made to the ToM server
    None,
    MaxRevocations,  \* bound: revocations of the administrator's tokens
    MaxFailures      \* bound: HTTP requests that fail or lose their answer

ASSUME AdminAssumption ==
    /\ MaxRevocations \in Nat /\ MaxFailures \in Nat
    /\ None \notin Int
    /\ None \notin {"upload", "profile", "media", "disable"}
    /\ None \notin {"ok", "empty", "unauthorized", "error"}

VARIABLES
    cache,     \* the token cached by AdminSettingsService
    job,       \* the requests being served
    gen,       \* Synapse: the generation of valid tokens
    written,   \* Synapse: the profile fields each job has set
    disabled,  \* Synapse: the jobs that disabled their user's account
    failures

adminVars == <<cache, job, gen, written, disabled, failures>>
synapse == <<gen, written, disabled>>

maxRetries == 1

Fields == {"displayname", "avatar_url"}
Token == Nat \cup {None}

LoginPcs == {"provider_token", "auth_cookie", "oidc_provider", "redirect",
             "login_token", "access_token", "issued"}

\* request is the call being made to Synapse, answer its last answer:
\* "empty" stands for an upload answered without a content_uri.
Job == [kind : {"settings", "deactivate", "qrcode", None},
        pc : {"idle", "image", "send", "answer", "done", "failed"} \cup LoginPcs,
        fields : SUBSET Fields,
        request : {"upload", "profile", "media", "disable", None},
        attempt : 0..maxRetries, token : Token,
        answer : {"ok", "empty", "unauthorized", "error", None}]

NoJob == [kind |-> None, pc |-> "idle", fields |-> {}, request |-> None,
          attempt |-> 0, token |-> None, answer |-> None]

\* Every variable has its type; a request is sent at most 1 + maxRetries times.
AdminTypeOK ==
    /\ cache \in Token
    /\ job \in [Jobs -> Job]
    /\ gen \in 0..MaxRevocations
    /\ written \in [Jobs -> SUBSET Fields]
    /\ disabled \subseteq Jobs
    /\ failures \in 0..MaxFailures

AdminInit ==
    /\ cache = None
    /\ job = [j \in Jobs |-> NoJob]
    /\ gen = 0
    /\ written = [j \in Jobs |-> {}]
    /\ disabled = {}
    /\ failures = 0

-----------------------------------------------------------------------------
At(j, pc) == job[j].pc = pc

MoveTo(j, pc) == job' = [job EXCEPT ![j].pc = pc]

Failure == failures < MaxFailures /\ failures' = failures + 1

NoFailure == UNCHANGED failures

\* makeRequestWithAdminToken up to its first await: with a cached token the
\* request is sent, without one a login starts.
MakeRequest(j, request) ==
    job' = [job EXCEPT ![j].request = request, ![j].attempt = 0,
                       ![j].token = cache, ![j].answer = None,
                       ![j].pc = IF cache = None THEN "provider_token" ELSE "send"]

-----------------------------------------------------------------------------
(***************************************************************************)
(* The requests of the three endpoints.                                    *)
(***************************************************************************)

\* AdminSettingsController.handle and updateUserInformation.
UpdateUserInformation(j, fields) ==
    /\ At(j, "idle")
    /\ job' = [job EXCEPT ![j] =
                IF fields = {}
                THEN [NoJob EXCEPT !.kind = "settings", !.pc = "failed"]
                ELSE IF "avatar_url" \in fields
                THEN [NoJob EXCEPT !.kind = "settings", !.fields = fields, !.pc = "image"]
                ELSE [NoJob EXCEPT !.kind = "settings", !.fields = fields, !.token = cache,
                                   !.request = "profile",
                                   !.pc = IF cache = None THEN "provider_token" ELSE "send"]]
    /\ UNCHANGED <<cache, synapse, failures>>

\* DeactivateUserController.handle and removeAccount; the middleware has
\* found the account, neither erased nor deactivated.
RemoveAccount(j) ==
    /\ At(j, "idle")
    /\ job' = [job EXCEPT ![j] = [NoJob EXCEPT !.kind = "deactivate", !.pc = "provider_token"]]
    /\ UNCHANGED <<cache, synapse, failures>>

\* QRCodeApiController.get, with and without the user's cookies.
GetQRCode(j, cookies) ==
    /\ At(j, "idle")
    /\ job' = [job EXCEPT ![j] =
                [NoJob EXCEPT !.kind = "qrcode",
                              !.pc = IF cookies THEN "oidc_provider" ELSE "failed"]]
    /\ UNCHANGED <<cache, synapse, failures>>

\* _fetchAndUploadAvatar: the image is fetched before it is uploaded.
FetchAvatar(j) ==
    /\ At(j, "image")
    /\ \/ MakeRequest(j, "upload") /\ NoFailure
       \/ MoveTo(j, "failed") /\ Failure
    /\ UNCHANGED <<cache, synapse>>

-----------------------------------------------------------------------------
(***************************************************************************)
(* TokenService: one HTTP request after the other; any of them may fail,   *)
(* which yields null and ends the job.                                     *)
(***************************************************************************)
LoginCall(j, from, to) ==
    /\ At(j, from)
    /\ MoveTo(j, to)
    /\ UNCHANGED <<cache, synapse, failures>>

GetAuthProviderLoginToken(j) == LoginCall(j, "provider_token", "auth_cookie")

GetAuthCookie(j) == LoginCall(j, "auth_cookie", "oidc_provider")

GetOidcProvider(j) == LoginCall(j, "oidc_provider", "redirect")

GetOidcRedirectLocation(j) == LoginCall(j, "redirect", "login_token")

GetLoginToken(j) == LoginCall(j, "login_token", "access_token")

\* Synapse issues a token, valid in the present generation.
RequestAccessToken(j) ==
    /\ At(j, "access_token")
    /\ job' = [job EXCEPT ![j].token = gen, ![j].pc = "issued"]
    /\ UNCHANGED <<cache, synapse, failures>>

LoginFails(j) ==
    /\ job[j].pc \in LoginPcs
    /\ Failure
    /\ job' = [job EXCEPT ![j].pc = "failed", ![j].answer = None]
    /\ UNCHANGED <<cache, synapse>>

\* The token reaches the server: _getCachedToken stores it, removeAccount
\* goes on with deleteUserMedia, the QR code is drawn.
TokenArrives(j) ==
    /\ At(j, "issued")
    /\ cache' = IF job[j].kind = "settings" THEN job[j].token ELSE cache
    /\ job' = [job EXCEPT ![j].pc = IF job[j].kind = "qrcode" THEN "done" ELSE "send",
                          ![j].request = IF job[j].kind = "deactivate" THEN "media" ELSE @]
    /\ UNCHANGED <<synapse, failures>>

-----------------------------------------------------------------------------
(***************************************************************************)
(* Synapse answers an administrator's request.                             *)
(***************************************************************************)

\* What the request changes in Synapse: the name comes with the profile
\* request, the avatar too when its upload gave a content_uri.
Perform(j) ==
    /\ written' = [written EXCEPT ![j] =
                    IF job[j].request = "profile" THEN @ \cup job[j].fields ELSE @]
    /\ disabled' = IF job[j].request = "disable" THEN disabled \cup {j} ELSE disabled
    /\ UNCHANGED gen

Answer(j, answer) == job' = [job EXCEPT ![j].pc = "answer", ![j].answer = answer]

Accepted(j) ==
    /\ At(j, "send") /\ job[j].token = gen
    /\ \/ Answer(j, "ok") /\ NoFailure
       \/ job[j].request = "upload" /\ Answer(j, "empty") /\ Failure
    /\ Perform(j)
    /\ UNCHANGED cache

Unauthorized(j) ==
    /\ At(j, "send") /\ job[j].token # gen
    /\ Answer(j, "unauthorized")
    /\ UNCHANGED <<cache, synapse, failures>>

ServerError(j) ==
    /\ At(j, "send") /\ job[j].token = gen
    /\ Failure
    /\ Answer(j, "error")
    /\ UNCHANGED <<cache, synapse>>

\* The request, or the answer to it, is lost: fetch throws.  Only
\* deleteUserMedia goes on.
Lost(j) ==
    /\ At(j, "send")
    /\ Failure
    /\ \/ job[j].token = gen /\ Perform(j)
       \/ UNCHANGED synapse
    /\ IF job[j].request = "media"
       THEN job' = [job EXCEPT ![j].request = "disable"]
       ELSE MoveTo(j, "failed")
    /\ UNCHANGED cache

Revoke ==
    /\ gen < MaxRevocations
    /\ gen' = gen + 1
    /\ UNCHANGED <<cache, job, written, disabled, failures>>

-----------------------------------------------------------------------------
(***************************************************************************)
(* The server handles an answer.                                           *)
(***************************************************************************)

\* Mutant: the retry does not invalidate the cached token.
RefusedKeepingToken(j) ==
    /\ At(j, "answer") /\ job[j].kind = "settings" /\ job[j].answer = "unauthorized"
    /\ IF job[j].attempt >= maxRetries
       THEN MoveTo(j, "failed")
       ELSE job' = [job EXCEPT ![j].pc = IF cache = None THEN "provider_token" ELSE "send",
                               ![j].token = cache,
                               ![j].attempt = @ + 1, ![j].answer = None]
    /\ UNCHANGED <<cache, synapse, failures>>

\* A 401: the cached token is dropped, whichever it is by now, and a login
\* starts, or the request fails after its last attempt.
Refused(j) ==
    /\ At(j, "answer") /\ job[j].kind = "settings" /\ job[j].answer = "unauthorized"
    /\ IF job[j].attempt >= maxRetries
       THEN MoveTo(j, "failed") /\ UNCHANGED cache
       ELSE /\ cache' = None
            /\ job' = [job EXCEPT ![j].pc = "provider_token", ![j].token = None,
                                  ![j].attempt = @ + 1, ![j].answer = None]
    /\ UNCHANGED <<synapse, failures>>

\* The avatar is uploaded; the profile is updated with what there is.
UploadAnswered(j) ==
    LET fields == IF job[j].answer = "empty" THEN job[j].fields \ {"avatar_url"}
                  ELSE job[j].fields
    IN  /\ At(j, "answer") /\ job[j].request = "upload" /\ job[j].answer # "unauthorized"
        /\ CASE job[j].answer = "error" -> MoveTo(j, "failed")
             [] fields = {} -> job' = [job EXCEPT ![j].pc = "done", ![j].fields = {}]
             [] OTHER ->
                  job' = [job EXCEPT ![j].fields = fields, ![j].request = "profile",
                                     ![j].attempt = 0, ![j].token = cache, ![j].answer = None,
                                     ![j].pc = IF cache = None THEN "provider_token" ELSE "send"]
        /\ UNCHANGED <<cache, synapse, failures>>

\* Mutant: any answer but 401 is a success.
ProfileAnsweredAnyhow(j) ==
    /\ At(j, "answer") /\ job[j].request = "profile" /\ job[j].answer # "unauthorized"
    /\ MoveTo(j, "done")
    /\ UNCHANGED <<cache, synapse, failures>>

ProfileAnswered(j) ==
    /\ At(j, "answer") /\ job[j].request = "profile" /\ job[j].answer # "unauthorized"
    /\ IF job[j].answer = "ok" THEN MoveTo(j, "done") ELSE MoveTo(j, "failed")
    /\ UNCHANGED <<cache, synapse, failures>>

\* deleteUserMedia logs a bad answer and returns.
MediaAnswered(j) ==
    /\ At(j, "answer") /\ job[j].request = "media"
    /\ job' = [job EXCEPT ![j].request = "disable", ![j].pc = "send", ![j].answer = None]
    /\ UNCHANGED <<cache, synapse, failures>>

\* disableUserAccount does not look at the answer.
DisableAnswered(j) ==
    /\ At(j, "answer") /\ job[j].request = "disable"
    /\ MoveTo(j, "done")
    /\ UNCHANGED <<cache, synapse, failures>>

-----------------------------------------------------------------------------
BeginJob(j) ==
    \/ \E fields \in SUBSET Fields : UpdateUserInformation(j, fields)
    \/ RemoveAccount(j)
    \/ \E cookies \in BOOLEAN : GetQRCode(j, cookies)

JobStep(j) ==
    \/ FetchAvatar(j)
    \/ GetAuthProviderLoginToken(j) \/ GetAuthCookie(j) \/ GetOidcProvider(j)
    \/ GetOidcRedirectLocation(j) \/ GetLoginToken(j) \/ RequestAccessToken(j)
    \/ LoginFails(j) \/ TokenArrives(j)
    \/ Accepted(j) \/ Unauthorized(j) \/ ServerError(j) \/ Lost(j)
    \/ Refused(j) \/ UploadAnswered(j) \/ ProfileAnswered(j)
    \/ MediaAnswered(j) \/ DisableAnswered(j)

\* All the requests of the instance are answered and no revocation is left.
Terminating ==
    /\ gen = MaxRevocations /\ \A j \in Jobs : job[j].pc \in {"done", "failed"}
    /\ UNCHANGED adminVars

AdminNext == Revoke \/ Terminating \/ \E j \in Jobs : BeginJob(j) \/ JobStep(j)

AdminSpec == AdminInit /\ [][AdminNext]_adminVars

-----------------------------------------------------------------------------
(***************************************************************************)
(* Properties.                                                             *)
(***************************************************************************)

\* One retry is enough for one revocation: a profile update is refused for
\* good only if the tokens were revoked at least twice, however the jobs
\* overwrite and drop each other's cached token.
SurvivesRevocation ==
    \A j \in Jobs :
        job[j].kind = "settings" /\ At(j, "failed") /\ job[j].answer = "unauthorized" => gen >= 2

\* A profile update answered with success has been performed by Synapse,
\* every field of it that was sent.
UpdateReported ==
    \A j \in Jobs :
        job[j].kind = "settings" /\ At(j, "done") => job[j].fields \subseteq written[j]
=============================================================================
