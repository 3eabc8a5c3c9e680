---------------------------- MODULE ActionPolicy ----------------------------
(***************************************************************************)
(* The safety gate between a command and its execution, as pure operators: *)
(*                                                                         *)
(*   ActionSchemaValidator.validate   CommandResult -> typed action        *)
(*   RiskScorer.score                 typed action  -> risk tier           *)
(*   ActionPolicyEngine.evaluate      action, trust, confidence -> verdict *)
(*                                                                         *)
(* A CommandResult keeps its action name, its target and whether it has    *)
(* content; a blank target is the same as a null one for the validator.    *)
(* Confidence is a percentage, so 0.75f is 75.                             *)
(***************************************************************************)
EXTENDS Integers

CONSTANTS Targets,      \* the contacts a command may name
          NoTarget      \* a null or blank target

ASSUME TargetAssumption == NoTarget \notin Targets

Threshold == 75         \* AUTO_APPROVE_CONFIDENCE_THRESHOLD

StatusNames   == {"status", "check_status"}
LookupNames   == {"find_contact", "contact_lookup", "get_contact_phone",
                  "contact_phone", "phone_number"}
EmailNames    == {"check_email", "read_email", "list_email"}
BehaviorNames == {"never_reply_to", "always_reply_to"}
ActionNames   == StatusNames \cup LookupNames \cup EmailNames \cup BehaviorNames
                   \cup {"sync_contacts", "set_contact_instructions",
                         "send_email", "send_sms", "unknown"}

CommandResults == [action : ActionNames,
                   target : Targets \cup {NoTarget},
                   content : BOOLEAN]

\* The sealed class ActionSchema, reduced to what score() and evaluate() read.
SchemaTypes == {"StatusQuery", "FindContact", "CheckEmail", "SyncContacts",
                "SetContactInstructions", "AutoReply", "SendEmail", "Unknown"}
Schemas     == [type : SchemaTypes, behavior : {"never", "always", "none"}]

Schema(t)   == [type |-> t, behavior |-> "none"]
Unknown     == Schema("Unknown")
AutoReply   == Schema("AutoReply")

\* ActionSchemaValidator.validate: an unrecognised name, or a missing required
\* field, becomes Unknown.  send_sms is Unknown on purpose.
Validate(r) ==
  LET named == r.target # NoTarget IN
  CASE r.action \in StatusNames           -> Schema("StatusQuery")
    [] r.action \in LookupNames /\ named  -> Schema("FindContact")
    [] r.action \in EmailNames            -> Schema("CheckEmail")
    [] r.action = "sync_contacts"         -> Schema("SyncContacts")
    [] r.action = "never_reply_to" /\ named ->
         [type |-> "SetContactInstructions", behavior |-> "never"]
    [] r.action = "always_reply_to" /\ named ->
         [type |-> "SetContactInstructions", behavior |-> "always"]
    [] r.action = "set_contact_instructions" /\ named ->
         Schema("SetContactInstructions")
    [] r.action = "send_email" /\ named /\ r.content -> Schema("SendEmail")
    [] OTHER -> Unknown

\* RiskScorer.score
Score(a) ==
  CASE a.type \in {"StatusQuery", "FindContact", "CheckEmail"} -> "LOW"
    [] a.type \in {"AutoReply", "SyncContacts"}                -> "MEDIUM"
    [] a.type = "SetContactInstructions" ->
         IF a.behavior \in {"never", "always"} THEN "HIGH" ELSE "MEDIUM"
    [] OTHER -> "HIGH"

\* Mutant: the confidence is compared the wrong way round.
EvaluateInverted(a, trust, confidence) ==
  CASE a.type = "Unknown" -> "BLOCK"
    [] a.type # "Unknown" /\ trust = "ADMIN" -> "ALLOW"
    [] a.type # "Unknown" /\ trust = "PUBLIC" ->
         IF \/ Score(a) = "LOW"
            \/ Score(a) = "MEDIUM" /\ confidence < Threshold
         THEN "ALLOW" ELSE "BLOCK"

\* ActionPolicyEngine.evaluate: first match wins.  REQUIRE_APPROVAL exists in
\* the Decision enum but no branch returns it.
Evaluate(a, trust, confidence) ==
  CASE a.type = "Unknown" -> "BLOCK"
    [] a.type # "Unknown" /\ trust = "ADMIN" -> "ALLOW"
    [] a.type # "Unknown" /\ trust = "PUBLIC" ->
         IF \/ Score(a) = "LOW"
            \/ Score(a) = "MEDIUM" /\ confidence >= Threshold
         THEN "ALLOW" ELSE "BLOCK"

EvaluateAdmin(r) == Evaluate(Validate(r), "ADMIN", 100)

\* evaluatePublicReply: a draft that contains the fallback phrase "will get back
\* to you soon" is given confidence 0.5, any other draft 0.9.
EvaluatePublicReply(fallback) ==
  Evaluate(AutoReply, "PUBLIC", IF fallback THEN 50 ELSE 90)

-----------------------------------------------------------------------------
(* The chain validate -> score -> evaluate.  Its callers in MessageEngine    *)
(* fix the trust and the confidence; the gate takes any.  A command is only  *)
(* ever evaluated for the ADMIN: that the table would also let a PUBLIC      *)
(* set_contact_instructions pass, from the threshold on, is never used.      *)

Verdict(r, trust, confidence) == Evaluate(Validate(r), trust, confidence)

\* At and around the threshold, what evaluatePublicReply passes, the extremes.
Confidences == {0, 50, Threshold - 1, Threshold, 90, 100}

VerdictIsMonotone ==
  \A r \in CommandResults, trust \in {"ADMIN", "PUBLIC"}, c \in Confidences :
    Verdict(r, trust, c) = "ALLOW" =>
      \A c2 \in Confidences : c2 >= c =>
        \A t \in {trust, "ADMIN"} : Verdict(r, t, c2) = "ALLOW"
=============================================================================
