------------------------------- MODULE Classify -------------------------------
(***************************************************************************)
(* How the service reads what Instagram raises.  Three methods of          *)
(* InstagramClientService test the same classes with isinstance, in an     *)
(* order of their own, one for each kind of caller: a manual login, a      *)
(* verification, an operation on the stored session.                       *)
(*                                                                         *)
(* An exception is the set of the imported aiograpi classes it is an       *)
(* instance of; the classes themselves are the library's.                  *)
(***************************************************************************)
EXTENDS Naturals, Sequences

\* The rows of a table are tried in order: the first one that names a class
\* of the exception decides.
Row(classes, says) == [classes |-> classes, says |-> says]

Matches(table, exc) == {i \in DOMAIN table : table[i].classes \cap exc # {}}

Verdict(table, otherwise, exc) ==
    LET hits == Matches(table, exc)
    IN IF hits = {} THEN otherwise
       ELSE table[CHOOSE i \in hits : \A j \in hits : i <= j].says

-----------------------------------------------------------------------------
(* The classes, in the groups every table keeps together.                  *)

Challenges == {"ChallengeRequired", "ChallengeRedirection",
               "SelectContactPointRecoveryForm"}

Forms == {"RecaptchaChallengeForm", "SubmitPhoneNumberForm",
          "ChallengeUnknownStep"}

Checkpoints == {"CheckpointRequired", "ChallengeSelfieCaptcha",
                "CaptchaChallengeRequired"}

Credentials == {"BadPassword", "BadCredentials"}

Throttles == {"FeedbackRequired", "PleaseWaitFewMinutes",
              "ClientThrottledError", "SentryBlock"}

LoggedOut == {"ClientLoginRequired", "LoginRequired"}

Transport == {"ClientConnectionError", "ClientRequestTimeout"}

\* Told apart by the tables, or caught by their last rows.
Classes ==
    Challenges \cup Forms \cup Checkpoints \cup Credentials \cup Throttles
      \cup LoggedOut \cup Transport
      \cup {"TwoFactorRequired", "LegacyForceSetNewPasswordForm",
            "ConsentRequired", "GeoBlockRequired", "ClientForbiddenError",
            "RateLimitError", "ClientUnauthorizedError", "ClientError",
            "UnknownError"}

-----------------------------------------------------------------------------
(* A manual login: _diagnostic_for_exception, the status of the diagnostic. *)

LoginTable == <<
    Row({"TwoFactorRequired"}, "two_factor_required"),
    Row(Challenges, "challenge_required"),
    Row(Checkpoints \cup Forms \cup {"LegacyForceSetNewPasswordForm"},
        "checkpoint_required"),
    Row(Credentials, "invalid_credentials"),
    Row(Throttles \cup LoggedOut \cup {"ClientForbiddenError",
            "RateLimitError", "ClientUnauthorizedError"}, "blocked"),
    Row({"ConsentRequired"}, "blocked"),
    Row({"GeoBlockRequired"}, "blocked"),
    Row(Transport, "transport_error")>>

LoginVerdict(exc) == Verdict(LoginTable, "unknown_error", exc)

\* Mutant: the second factor is forgotten.
PendingNarrow == {"challenge_required"}

\* The statuses for which login_diagnostic_future keeps a context.
Pending == {"challenge_required", "two_factor_required"}

\* auth_status_http_code.
LoginCode(status) ==
    CASE status = "success" -> 200
      [] status \in {"challenge_required", "two_factor_required",
                     "checkpoint_required", "unknown_error", "blocked"} -> 409
      [] status = "invalid_credentials" -> 401
      [] OTHER -> 502

-----------------------------------------------------------------------------
(* A verification: _result_for_exception.  login_future answers every      *)
(* exception with verification_failed and the reason, or the verification  *)
(* type, found here; the status of the result is dropped.                  *)

VerificationTable == <<
    Row({"TwoFactorRequired"}, "two_factor"),
    Row(Challenges, "challenge"),
    Row(Forms, "challenge_requires_manual_account_action"),
    Row(Checkpoints, "checkpoint_or_login_confirmation"),
    Row({"LegacyForceSetNewPasswordForm"}, "password_reset_required"),
    Row(Credentials, "credentials_or_login_context_rejected"),
    Row(Throttles, "feedback_required_or_rate_limited"),
    Row({"ConsentRequired"}, "consent_required"),
    Row({"GeoBlockRequired"}, "geoblock_required")>>

VerificationReason(exc) ==
    Verdict(VerificationTable, "sanitized_unclassified_instagram_response", exc)

-----------------------------------------------------------------------------
(* An operation on the stored session: _raise_safe_provider_error names the *)
(* service's own error, _safe_instagram_exception its HTTP code.           *)

OperationTable == <<
    Row({"TwoFactorRequired", "ChallengeRequired"}, "challenge"),
    Row(Checkpoints, "safetyStop"),
    Row(Throttles, "safetyStop"),
    Row({"ConsentRequired", "GeoBlockRequired"}, "safetyStop"),
    Row(Credentials, "unauthenticated"),
    Row(LoggedOut, "unauthenticated")>>

\* ClientError and UnknownError end as every other class does.
OperationVerdict(exc) == Verdict(OperationTable, "failed", exc)

OperationCode(error) ==
    CASE error \in {"challenge", "safetyStop"} -> 409
      [] error = "unauthenticated" -> 401
      [] error = "failed" -> 502
=============================================================================
