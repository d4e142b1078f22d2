---------------------------- MODULE DomainModel ----------------------------
(***************************************************************************)
(* The closed sets and fixed tables every other module reads: the Go       *)
(* package internal/model (enums.go, and the record shapes of types.go     *)
(* that carry behaviour).                                                  *)
(*                                                                         *)
(* Go's zero values keep their meaning: "" is an unset string, 0 an unset  *)
(* integer, and Nil stands for a nil pointer or a nil interface.           *)
(***************************************************************************)
EXTENDS Integers, Sequences

CONSTANT Nil

PaymentStatuses ==
  {"RequiresAction", "Processing", "Succeeded", "Failed", "Canceled", "Expired"}

TerminalStatuses == {"Succeeded", "Failed", "Canceled", "Expired"}

NextActions ==
  {"None", "RedirectToUrl", "AwaitDevicePush", "SubmitOtp", "DisplayQr",
   "ShowTransferDetails", "DialUssd", "Poll", "Capture"}

(* The payload of each NextAction variant, beside its "type".              *)
Payload(required, optional) == [required |-> required, optional |-> optional]

NextActionFields ==
  [t \in NextActions |->
     CASE t = "RedirectToUrl"   -> Payload({"url"}, {"method"})
       [] t = "AwaitDevicePush" -> Payload({"display_ref"}, {"expires_at"})
       [] t = "SubmitOtp"       -> Payload({"length"}, {"hint", "expires_at"})
       [] t = "DisplayQr"       -> Payload({"payload"}, {"image_url", "expires_at"})
       [] t = "ShowTransferDetails" ->
            Payload({"account_number", "institution", "reference", "amount"},
                    {"account_name", "expires_at"})
       [] t = "DialUssd"        -> Payload({"code"}, {"expires_at"})
       [] t = "Poll"            -> Payload({"interval_ms"}, {"not_before"})
       [] OTHER                 -> Payload({}, {})]

SupportedSpecVersion == "2.0"
DefaultPollIntervalMs == "5000"

FailureCodes ==
  {"InsufficientFunds", "InvalidRecipient", "RecipientLimitExceeded",
   "SenderLimitExceeded", "DuplicateRequest", "AuthFailed",
   "AuthorizationDeclined", "ProviderUnavailable", "ProviderTimeout",
   "InvalidRequest", "UnsupportedOperation", "Expired", "CanceledByUser",
   "Unknown"}

RetryClasses == {"SafeToRetry", "DoNotRetry", "ResolveFirst"}

FailureRetryMap ==
  [c \in FailureCodes |->
     CASE c = "ProviderUnavailable"            -> "SafeToRetry"
       [] c \in {"ProviderTimeout", "Unknown"} -> "ResolveFirst"
       [] OTHER                                -> "DoNotRetry"]

CredentialShapes ==
  {"none", "api_key", "key_pair", "triple_key", "oauth2_client_credentials",
   "hmac", "mutual_tls"}

Operations == {"collect", "sync", "payout", "cancel", "refund", "webhook"}
Transforms ==
  {"amount_major", "msisdn_et", "base64", "hex", "sha256_hex", "upper",
   "lower", "iso8601"}
HTTPMethods == {"GET", "POST", "PUT", "PATCH", "DELETE"}
Triggers == {"webhook", "poll", "return", "input"}
WebhookSchemes == {"hmac_sha256_hex", "hmac_sha256_base64", "none"}
MetadataTiers == {"community", "certified", "official"}
VerificationStatuses == {"provisional", "verified"}

-----------------------------------------------------------------------------
(* A Go map is a function whose domain is its set of keys.                 *)
EmptyMap == [k \in {} |-> ""]
Put(map, key, value) ==
  [k \in DOMAIN map \cup {key} |-> IF k = key THEN value ELSE map[k]]
ValuesOf(map) == {map[k] : k \in DOMAIN map}

(***************************************************************************)
(* ErrorMatch.Kind: which of the three match kinds an errors[] entry is,   *)
(* transport before http_status before path.                               *)
(***************************************************************************)
Kind(match) ==
  IF match.transport # "" THEN "transport"
  ELSE IF match.http_status # 0 THEN "http_status"
  ELSE IF match.path # "" THEN "path" ELSE ""

(***************************************************************************)
(* A template is one string (or scalar) leaf of a manifest: a literal, or  *)
(* a ${...} interpolation of a path in a namespace, perhaps transformed.   *)
(***************************************************************************)
Literal(value) == [ns |-> "literal", path |-> value, transform |-> ""]
Ref(ns, path) == [ns |-> ns, path |-> path, transform |-> ""]

(***************************************************************************)
(* Emit.NextActionType: the raw "type" of an emit's next_action, "" when   *)
(* there is none.  An interpolated type is its raw text, no NextAction.    *)
(***************************************************************************)
NextActionType(emit) ==
  IF emit = Nil \/ emit.next_action = Nil THEN ""
  ELSE IF "type" \notin DOMAIN emit.next_action THEN ""
  ELSE LET type == emit.next_action["type"] IN
       IF type.ns = "literal" THEN type.path ELSE "${}"

=============================================================================
