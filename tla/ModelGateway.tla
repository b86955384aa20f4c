---------------------------- MODULE ModelGateway ----------------------------
(***************************************************************************)
(* The model gateway (app/llm/litellm_gateway.py): concurrent structured   *)
(* calls on one gateway object, whose counters every call shares, and what *)
(* a reply or a provider's failure becomes: a parsed answer or one         *)
(* exception of app/llm/gateway.py, which app/errors.py turns into the     *)
(* code and the status an HTTP client sees.                                *)
(*                                                                         *)
(* A failure is abstracted to what the classification reads: its HTTP      *)
(* status, the markers that occur in the provider code and body type       *)
(* ("code"), in the exception's class name ("name") and in its message     *)
(* ("text").                                                               *)
(***************************************************************************)
EXTENDS Integers, FiniteSets

CONSTANTS
    Calls,          \* calls in flight on the gateway
    Failures,       \* per call, the provider failures it can meet
    Replies         \* per call, the provider replies it can meet

VARIABLES
    phase,          \* per call: "idle", "waiting" for the provider, "ended"
    outcome,        \* per call: the class raised or "Answer", and the cause of it
    counted,        \* _call_count
    recorded,       \* replies _record_response_metrics has seen (model_calls)
    priced          \* replies that reported their usage (usage_available_calls)

gvars == <<phase, outcome, counted, recorded, priced>>

-----------------------------------------------------------------------------
(* Classifying a failure *)

Failure == [status : {0, 401, 402, 403, 404, 408, 429, 500, 504}, \* 0: none
            code : SUBSET {"auth", "quota", "permission", "payment", "ratelimit",
                           "tooluse", "structured", "notfound"},
            name : SUBSET {"auth", "permission", "ratelimit", "structured",
                           "notfound", "timeout", "connection"},
            text : SUBSET {"model missing", "memory", "refused"}]

(* A plausible slip: a spent quota, which providers send as a 429, read as a
   rate limit because the status is looked at first. *)
Category_StatusFirst(f) ==
    IF f.status = 429 \/ "ratelimit" \in f.code \cup f.name
    THEN "rate_limited"
    ELSE IF "quota" \in f.code THEN "quota_exceeded" ELSE "unknown"

(* _provider_error_category: the first rule that fires names the category. *)
Category(f) ==
    LET signal == f.code \cup f.name
        rules == << << "authentication_failed", f.status = 401 \/ "auth" \in signal >>,
                    << "quota_exceeded", "quota" \in signal >>,
                    << "permission_denied", f.status = 403 \/ "permission" \in signal >>,
                    << "payment_required", f.status = 402 \/ "payment" \in signal >>,
                    << "rate_limited", f.status = 429 \/ "ratelimit" \in signal >>,
                    << "tool_use_failed", "tooluse" \in signal >>,
                    << "structured_output_failed", "structured" \in signal >>,
                    << "model_unavailable", f.status = 404 \/ "notfound" \in signal >>,
                    << "timeout", f.status \in {408, 504} \/ "timeout" \in signal >>,
                    << "connection_failed", "connection" \in signal >>,
                    << "provider_unavailable", f.status >= 500 >> >>
        fires == {i \in 1..11 : rules[i][2]}
    IN  IF fires = {} THEN "unknown"
        ELSE rules[CHOOSE i \in fires : \A j \in fires : i <= j][1]

(* The exception generate_structured raises for a failure of the call, and of a
   category. *)
RaisedOn(f, category) ==
    LET rules == << << "LLMRateLimitError", category = "rate_limited" \/ "ratelimit" \in f.name >>,
                    << "LLMAuthenticationError", category = "authentication_failed" >>,
                    << "LLMPermissionDeniedError", category = "permission_denied" >>,
                    << "LLMQuotaExceededError", category = "quota_exceeded" >>,
                    << "LLMPaymentRequiredError", category = "payment_required" >>,
                    << "LLMToolUseError", category = "tool_use_failed" >>,
                    << "InvalidStructuredModelOutputError",
                       category = "structured_output_failed" >>,
                    << "LLMTimeoutError", category = "timeout" \/ "timeout" \in f.name >>,
                    << "LLMModelUnavailableError",
                       category = "model_unavailable" \/ "model missing" \in f.text >>,
                    << "LLMOutOfMemoryError", "memory" \in f.text >>,
                    << "LLMConnectionError", category = "connection_failed"
                         \/ "connection" \in f.name \/ "refused" \in f.text >>,
                    << "LLMProviderUnavailableError", category = "provider_unavailable" >> >>
        fires == {i \in 1..12 : rules[i][2]}
    IN  IF fires = {} THEN "LLMGatewayError"
        ELSE rules[CHOOSE i \in fires : \A j \in fires : i <= j][1]

Raised(f) == RaisedOn(f, Category(f))

(* normalize_error on the gateway's exceptions: subclasses share the arm of
   the class they extend. *)
Normalized(class) ==
    CASE class = "LLMRateLimitError" -> [code |-> "LLM_RATE_LIMITED", status |-> 429]
      [] class \in {"InvalidStructuredModelOutputError", "ModelOutputTruncatedError"} ->
            [code |-> "INVALID_MODEL_OUTPUT", status |-> 502]
      [] OTHER -> [code |-> "LLM_UNAVAILABLE", status |-> 503]

-----------------------------------------------------------------------------
(* Reading a reply *)

Reply == [choices : BOOLEAN, truncated : BOOLEAN, usage : BOOLEAN,
          mode : {"response_format", "tool_call"},
          parsed : {"absent", "valid", "invalid"},
          payload : {"absent", "blank", "wrong name", "valid", "invalid"}]

(* _assert_not_truncated, _first_message and what follows them: the parsed
   object first, then the tool call's arguments or the message's content. *)
Read(r) ==
    CASE ~r.choices -> "InvalidStructuredModelOutputError"
      [] r.choices /\ r.truncated -> "ModelOutputTruncatedError"
      [] r.choices /\ ~r.truncated /\ r.parsed # "absent" ->
            IF r.parsed = "valid" THEN "Answer" ELSE "InvalidStructuredModelOutputError"
      [] OTHER -> IF r.payload = "valid" THEN "Answer"
                  ELSE "InvalidStructuredModelOutputError"

-----------------------------------------------------------------------------
(* The calls *)

Ends(class, after, of) == [class |-> class, after |-> after, of |-> of]

GatewayInit ==
    /\ phase = [c \in Calls |-> "idle"]
    /\ outcome = [c \in Calls |-> Ends("None", "nothing", {})]
    /\ counted = 0 /\ recorded = 0 /\ priced = 0

(* generate_structured up to its await: an alias nobody configured is
   refused before anything is counted. *)
UnknownAlias(c) ==
    /\ phase[c] = "idle"
    /\ phase' = [phase EXCEPT ![c] = "ended"]
    /\ outcome' = [outcome EXCEPT ![c] = Ends("UnknownModelAliasError", "nothing", {})]
    /\ UNCHANGED <<counted, recorded, priced>>

Request(c) ==
    /\ phase[c] = "idle"
    /\ phase' = [phase EXCEPT ![c] = "waiting"]
    /\ counted' = counted + 1
    /\ UNCHANGED <<outcome, recorded, priced>>

(* A slip that counts a reply only once it has been read. *)
Answered_CountsWhatItCouldRead(c, r) ==
    /\ phase[c] = "waiting"
    /\ phase' = [phase EXCEPT ![c] = "ended"]
    /\ outcome' = [outcome EXCEPT ![c] = Ends(Read(r), "reply", {})]
    /\ recorded' = IF Read(r) = "Answer" THEN recorded + 1 ELSE recorded
    /\ priced' = IF r.usage /\ Read(r) = "Answer" THEN priced + 1 ELSE priced
    /\ UNCHANGED counted

(* The await returns: the reply is recorded before it is read, so one that
   cannot be used is accounted like any other. *)
Answered(c, r) ==
    /\ phase[c] = "waiting"
    /\ phase' = [phase EXCEPT ![c] = "ended"]
    /\ outcome' = [outcome EXCEPT ![c] = Ends(Read(r), "reply", {})]
    /\ recorded' = recorded + 1
    /\ priced' = IF r.usage THEN priced + 1 ELSE priced
    /\ UNCHANGED counted

Failed(c, f) ==
    /\ phase[c] = "waiting"
    /\ phase' = [phase EXCEPT ![c] = "ended"]
    /\ outcome' = [outcome EXCEPT ![c] = Ends(Raised(f), "failure", f)]
    /\ UNCHANGED <<counted, recorded, priced>>

GatewayNext ==
    \E c \in Calls :
        \/ UnknownAlias(c)
        \/ Request(c)
        \/ \E r \in Replies[c] : Answered(c, r)
        \/ \E f \in Failures[c] : Failed(c, f)

GatewaySpec == GatewayInit /\ [][GatewayNext]_gvars

-----------------------------------------------------------------------------
(* Properties *)

Class(c) == outcome[c].class

(* The counters of the gateway stay truthful while calls interleave and fail:
   every call that reached the provider is counted, and every reply that came
   back, the unusable ones included, is recorded against the model that was
   paid for it (litellm_gateway.py:92 and 132, before any check can raise). *)
EveryReplyIsAccounted ==
    LET sent == {c \in Calls : phase[c] # "idle" /\ Class(c) # "UnknownModelAliasError"}
        came == {c \in sent : outcome[c].after = "reply"}
    IN  /\ counted = Cardinality(sent)
        /\ recorded = Cardinality(came)
        /\ priced <= recorded

(* What a failure may be called: the exception its category stands for, unless its
   class name or its message overrides. *)
IsNamed(f, class) ==
    LET named == [authentication_failed |-> "LLMAuthenticationError",
                  quota_exceeded |-> "LLMQuotaExceededError",
                  permission_denied |-> "LLMPermissionDeniedError",
                  payment_required |-> "LLMPaymentRequiredError",
                  rate_limited |-> "LLMRateLimitError",
                  tool_use_failed |-> "LLMToolUseError",
                  structured_output_failed |-> "InvalidStructuredModelOutputError",
                  model_unavailable |-> "LLMModelUnavailableError",
                  timeout |-> "LLMTimeoutError",
                  connection_failed |-> "LLMConnectionError",
                  provider_unavailable |-> "LLMProviderUnavailableError",
                  unknown |-> "LLMGatewayError"]
        byName == {"LLMRateLimitError" : x \in f.name \cap {"ratelimit"}}
                    \cup {"LLMTimeoutError" : x \in f.name \cap {"timeout"}}
        byText == {"LLMModelUnavailableError" : x \in f.text \cap {"model missing"}}
                    \cup {"LLMOutOfMemoryError" : x \in f.text \cap {"memory"}}
                    \cup {"LLMConnectionError" : x \in f.text \cap {"refused"}}
        account == f.code \cap {"auth", "quota", "permission", "payment"}
    IN  /\ class \in {named[Category(f)]} \cup byName \cup byText
        /\ Normalized(class).status = 429 /\ account # {} => "ratelimit" \in f.name

(* What a failure is called agrees with what it is: the exception raised is
   the one its category stands for, unless the class name says "rate limit"
   or "timeout", or the message names a missing model, memory or a refused
   connection, which the code lets override (litellm_gateway.py:174-267). A
   credential, permission, quota or billing failure is never told to the
   client as a rate limit to wait out, except by that class name. *)
FailureIsNamed ==
    \A c \in {d \in Calls : outcome[d].after = "failure"} : IsNamed(outcome[c].of, Class(c))
=============================================================================
