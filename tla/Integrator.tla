----------------------------- MODULE Integrator -----------------------------
(***************************************************************************)
(* The reference integrator (internal/integrator): one decision over a     *)
(* PaymentResult that knows no provider.  Handle is "" when the result is  *)
(* handled and the reason of the refusal otherwise.                        *)
(***************************************************************************)
EXTENDS DomainModel

CONSTANTS
  Numbers,      \* the values that are numbers
  Objects       \* the values that are objects; all others are strings

IsText(value) == value \notin Numbers \cup Objects \cup {""}

(* The fields handleNextAction reads of each variant, by the type it wants.*)
TextFields(type) ==
  CASE type = "RedirectToUrl"       -> {"url"}
    [] type = "AwaitDevicePush"     -> {"display_ref"}
    [] type = "DisplayQr"           -> {"payload"}
    [] type = "ShowTransferDetails" -> {"account_number", "institution", "reference"}
    [] type = "DialUssd"            -> {"code"}
    [] OTHER                        -> {}

NumberFields(type) ==
  CASE type = "SubmitOtp" -> {"length"}
    [] type = "Poll"      -> {"interval_ms"}
    [] OTHER              -> {}

ObjectFields(type) == IF type = "ShowTransferDetails" THEN {"amount"} ELSE {}

(* Mutant of ReadFields: the optional fields are insisted on.              *)
AllFields(type) == NextActionFields[type].required \cup NextActionFields[type].optional

ReadFields(type) == TextFields(type) \cup NumberFields(type) \cup ObjectFields(type)

HandleNextAction(na) ==
  IF na = Nil THEN "no-next-action"
  ELSE IF "type" \notin DOMAIN na \/ na["type"] \notin NextActions
  THEN "unknown-next-action"
  ELSE IF ~ ReadFields(na["type"]) \subseteq DOMAIN na THEN "missing-field"
  ELSE IF /\ \A f \in TextFields(na["type"]) : IsText(na[f])
          /\ \A f \in NumberFields(na["type"]) : na[f] \in Numbers
          /\ \A f \in ObjectFields(na["type"]) : na[f] \in Objects
  THEN "" ELSE "mistyped-field"

Handle(pr) ==
  IF pr.status \in {"Succeeded", "Canceled", "Expired"} THEN ""
  ELSE IF pr.status = "Failed"
  THEN IF pr.failure = Nil THEN "no-failure"
       ELSE IF pr.failure.retry_class \notin RetryClasses THEN "unknown-retry-class"
       ELSE ""
  ELSE IF pr.status \in {"RequiresAction", "Processing"}
  THEN HandleNextAction(pr.next_action)
  ELSE IF pr.status = "" THEN "unset-status" ELSE "unknown-status"

=============================================================================
