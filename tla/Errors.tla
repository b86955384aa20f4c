------------------------------- MODULE Errors ------------------------------
(***************************************************************************)
(* What a client is told of a failure (normalize_error in errors.py): the  *)
(* first branch whose classes the exception is an instance of decides the  *)
(* code, the status and whether to retry.                                  *)
(***************************************************************************)
EXTENDS Naturals, Sequences, FiniteSets

(* The base class of each exception that has one with a branch or a family *)
(* of its own; every other class stands for itself.                        *)
Base ==
    [LLMRateLimit |-> "LLMGateway", InvalidStructuredModelOutput |-> "LLMGateway",
     ModelOutputTruncated |-> "InvalidStructuredModelOutput", LLMTimeout |-> "LLMGateway",
     SQLRepairFailed |-> "SQLSchemaValidation", SQLSchemaValidation |-> "SQLValidation",
     GroundingFailure |-> "Application"]

Self(class) == IF class \in DOMAIN Base THEN Base[class] ELSE class

(* The classes an instance of class is an instance of; no chain is longer. *)
Instances(class) == {class, Self(class), Self(Self(class))}

Branch(classes, code, status, retryable) ==
    [classes |-> classes, code |-> code, status |-> status, retryable |-> retryable]

(* The isinstance tests in the order of the source.  An ApplicationError   *)
(* is passed through and has no branch here; a SQLValidationError is told  *)
(* as unsafe_sql or sql_validation_failed by the wording of its message.   *)
Branches ==
    <<Branch({"AuthenticationFailed"}, "authentication_failed", 401, FALSE),
      Branch({"AuthenticationProviderUnavailable"}, "authentication_unavailable", 503, TRUE),
      Branch({"AuthorizationDenied"}, "authorization_denied", 403, FALSE),
      Branch({"AuthorizationProviderUnavailable", "InvalidAuthorizationDecision"},
             "authorization_unavailable", 503, TRUE),
      Branch({"CheckpointConfiguration", "CheckpointProviderUnavailable"},
             "checkpoint_unavailable", 503, TRUE),
      Branch({"GovernanceProviderUnavailable", "GovernanceMetadataNotFound",
              "InvalidGovernanceMetadata"}, "governance_provider_unavailable", 503, TRUE),
      Branch({"SQLRepairFailed"}, "sql_repair_failed", 422, FALSE),
      Branch({"SQLSchemaValidation"}, "sql_schema_validation_failed", 422, FALSE),
      Branch({"SQLValidation"}, "sql_validation_failed", 400, FALSE),
      Branch({"DatabaseQueryTimeout", "Timeout"}, "query_timeout", 504, TRUE),
      Branch({"DatabaseReadOnlyConfiguration"}, "database_configuration_error", 503, FALSE),
      Branch({"DatabasePermission"}, "database_permission_denied", 403, FALSE),
      Branch({"DatabaseResultTooLarge"}, "result_too_large", 422, FALSE),
      Branch({"DatabaseQueryExecution"}, "query_execution_failed", 422, FALSE),
      Branch({"DatabaseUnavailable"}, "database_unavailable", 503, TRUE),
      Branch({"LLMRateLimit"}, "llm_rate_limited", 429, TRUE),
      Branch({"InvalidStructuredModelOutput"}, "invalid_structured_model_output", 502, TRUE),
      Branch({"LLMGateway"}, "llm_unavailable", 503, TRUE),
      Branch({"SemanticProviderUnavailable"}, "semantic_provider_unavailable", 503, TRUE),
      Branch({"MetricProviderUnavailable"}, "metric_provider_unavailable", 503, TRUE),
      Branch({"MetricQueryValidation"}, "invalid_metric_query", 400, FALSE),
      Branch({"QueryRouter"}, "router_failure", 422, FALSE),
      Branch({"MetricPlanning"}, "metric_planning_failure", 422, FALSE)>>

Internal == Branch({}, "internal_unexpected_error", 500, FALSE)

Classes == UNION {Branches[i].classes : i \in DOMAIN Branches} \cup DOMAIN Base

NormalizeError_LastMatch(class) ==
    LET hits == {i \in DOMAIN Branches : Branches[i].classes \cap Instances(class) # {}}
    IN  IF hits = {} THEN Internal
        ELSE Branches[CHOOSE i \in hits : \A j \in hits : j <= i]

(* The first branch that fits, or the fallback.                            *)
NormalizeError(class) ==
    LET hits == {i \in DOMAIN Branches : Branches[i].classes \cap Instances(class) # {}}
    IN  IF hits = {} THEN Internal
        ELSE Branches[CHOOSE i \in hits : \A j \in hits : i <= j]

----------------------------------------------------------------------------
(* No branch hides a later, more specific one: an exception whose own      *)
(* class has a branch is told by that branch (normalize_error).            *)
ToldByItsOwnBranch ==
    \A i \in DOMAIN Branches : \A class \in Branches[i].classes :
        NormalizeError(class) = Branches[i]
=============================================================================
