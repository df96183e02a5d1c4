---------------------------- MODULE Configuration ----------------------------
(***************************************************************************)
(* From the operator's file to the decision on an agent's request: the     *)
(* configuration is resolved and validated once (src/src/config.rs), then  *)
(* each request is built, evaluated and has its purpose checked            *)
(* (src/src/main.rs, policy.rs, http.rs).                                  *)
(*                                                                         *)
(* Abstracted: a limit is a number of three around its bounds; a host is a *)
(* name with what Host::parse makes of it; a word or host may be written   *)
(* "plain", in other "case" or "padded" with blanks.                       *)
(***************************************************************************)
EXTENDS Operation, Sequences

CONSTANTS
    ConfigFiles,    \* what operators write
    Requests,       \* what agents ask for
    Maximum,        \* MAX_* of a limit
    MaxMessage      \* MAX_MESSAGE_LENGTH

VARIABLES
    file,           \* the operator's configuration file
    config,         \* GatewayConfig
    params,        \* the agent's ExecuteParams
    evaluation      \* PolicyEvaluation

configVars == <<file, config, params, evaluation>>

Limits ==
    {"http.timeout", "http.request", "http.response",
     "cargo.timeout", "cargo.stdout", "cargo.stderr",
     "sandbox.fuel", "sandbox.memory", "sandbox.timeout"}
Unreviewable == {"add", "read_file", "git_status", "http_get"}
ReviewOnly == {"write_file", "run_cargo_test", "http_post"}
Capabilities == Unreviewable \cup ReviewOnly
Verdicts == {"allow", "review", "block"}

(* GatewayConfigFile: every table and key of it may be left out; another   *)
(* key is not well-formed.                                                 *)
IsConfigFile(f) ==
    /\ f.wellFormed \in BOOLEAN /\ f.givesHosts \in BOOLEAN
    /\ DOMAIN f.limits \subseteq Limits /\ \A l \in DOMAIN f.limits : f.limits[l] \in Nat
    /\ DOMAIN f.policy \subseteq Capabilities
    /\ \A i \in DOMAIN f.hosts :
        f.hosts[i].is \in {"domain", "ip", "malformed", "empty"}

(* ExecuteParams: every argument may be left out.                          *)
Arguments == {"left", "right", "path", "content", "method", "url", "body"}
IsExecuteParams(r) ==
    r.given \subseteq Arguments /\ r.blank \subseteq r.given /\ r.purpose \in Nat

ASSUME ConfigFileAssumption == \A f \in ConfigFiles : IsConfigFile(f)
ASSUME RequestAssumption == \A r \in Requests : IsExecuteParams(r)
ASSUME MaximumAssumption == \A l \in Limits : Maximum[l] \in Nat \ {0}

NotYet == [is |-> "not yet"]

ConfigInit ==
    /\ file = NotYet /\ config = NotYet
    /\ params = NotYet /\ evaluation = NotYet

ConfigCalled ==
    /\ file \in ConfigFiles /\ params \in Requests
    /\ config = NotYet /\ evaluation = NotYet

-----------------------------------------------------------------------------
(* The values of CapabilityPolicyConfig::default and                       *)
(* HttpPolicyConfig::default; a default limit is within its bounds.        *)
DefaultPolicy ==
    [c \in Capabilities |-> IF c \in ReviewOnly THEN "review" ELSE "allow"]
DefaultHosts == <<[name |-> "api.example.com", is |-> "domain", written |-> "plain"]>>
DefaultLimits == [l \in Limits |-> 1]

(* What the file gives, and the default for what it leaves out.            *)
Over(given, default) ==
    [x \in DOMAIN default |-> IF x \in DOMAIN given THEN given[x] ELSE default[x]]

(* parse_policy_decision: blanks around the word and its case do not       *)
(* matter.                                                                 *)
ParsePolicyDecision(value) == value.word
PolicyParses(given) == \A c \in DOMAIN given : given[c].word \in Verdicts

(* parse_gateway_config_toml: the file's values over the defaults.  Hosts  *)
(* are kept as they are written.                                           *)
ParsedConfig ==
    [policy |-> Over([c \in DOMAIN file.policy |-> ParsePolicyDecision(file.policy[c])],
                     DefaultPolicy),
     limits |-> Over(file.limits, DefaultLimits),
     hosts |-> IF file.givesHosts THEN file.hosts ELSE DefaultHosts]

(* HttpPolicyConfig::validate on the hosts: domains, not localhost, each   *)
(* once.  It looks at the trimmed entry.                                   *)
ValidHosts(hosts) ==
    \A i \in DOMAIN hosts :
        /\ hosts[i].is = "domain" /\ hosts[i].name # "localhost"
        /\ \A j \in 1..(i - 1) : hosts[j].name # hosts[i].name

(* The bounds of the three http limits there, of the six others in         *)
(* GatewayConfig::validate.                                                *)
ValidLimits(limits) == \A l \in Limits : limits[l] \in 1..Maximum[l]

(* Mutant: only the decisions that cannot work are refused.                *)
ValidPolicyWithoutMandatoryReview(policy) ==
    \A c \in Unreviewable : policy[c] # "review"

(* CapabilityPolicyConfig::validate.                                       *)
ValidPolicy(policy) ==
    /\ \A c \in Unreviewable : policy[c] # "review"
    /\ \A c \in ReviewOnly : policy[c] # "allow"

(* resolve_gateway_config: unreadable, not TOML, or with an unknown field; *)
(* no file at all is one that gives nothing.                               *)
ResolveConfig ==
    /\ pc = "start"
    /\ IF /\ file.wellFormed /\ PolicyParses(file.policy)
          /\ ValidHosts(ParsedConfig.hosts)
          /\ ValidLimits(ParsedConfig.limits) /\ ValidPolicy(ParsedConfig.policy)
       THEN Goto("build") /\ config' = ParsedConfig
       ELSE Return(Err("configuration")) /\ UNCHANGED config
    /\ UNCHANGED <<file, params, evaluation>>

-----------------------------------------------------------------------------
(* build_execution_request: the arguments each operation needs, a path or  *)
(* URL that is not blank, no body for a GET.                               *)
Needed ==
    [add |-> {"left", "right"}, read_file |-> {"path"},
     write_file |-> {"path", "content"}, http_get |-> {"method", "url"},
     http_post |-> {"method", "url"}, git_status |-> {}, run_cargo_test |-> {}]

BuildsRequest ==
    /\ params.operation \in Capabilities
    /\ Needed[params.operation] \subseteq params.given
    /\ Needed[params.operation] \cap {"path", "url"} \cap params.blank = {}
    /\ params.operation = "http_get" => "body" \notin params.given

(* The case of a host does not count, a blank does.                        *)
EqIgnoreCase(host, entry) == entry.name = host.name /\ entry.written # "padded"

(* validate_http_destination.                                              *)
ValidDestination(url) ==
    /\ url.parses /\ url.scheme = "https" /\ ~ url.credentials
    /\ url.host.is = "domain" /\ url.host.name # "localhost"
    /\ url.port \in {"none", "443"}
    /\ \E i \in DOMAIN config.hosts : EqIgnoreCase(url.host, config.hosts[i])

Evaluation(decision, reason) == [decision |-> decision, reason |-> reason]

(* evaluate_operation_with_config: the reason goes with the capability.    *)
Reason(capability) ==
    CASE capability = "write_file" -> "Write"
      [] capability = "run_cargo_test" -> "CodeExecution"
      [] capability = "http_post" -> "ExternalWrite"
      [] OTHER -> "Safe"

(* block_out_of_scope.                                                     *)
OutOfScope == Evaluation("block", "OutOfScope")

(* evaluate_request_with_config; whether a path is in the workspace is     *)
(* WorkspaceFiles' subject.                                                *)
InScope ==
    CASE params.operation \in {"http_get", "http_post"} -> ValidDestination(params.url)
      [] OTHER -> ~ params.outside

EvaluateRequest ==
    /\ pc = "build"
    /\ IF BuildsRequest
       THEN /\ Goto("evaluated")
            /\ evaluation' =
                IF InScope
                THEN Evaluation(config.policy[params.operation], Reason(params.operation))
                ELSE OutOfScope
       ELSE Return(Err("request")) /\ UNCHANGED evaluation
    /\ UNCHANGED <<file, config, params>>

(* validate_message on the purpose: after the review was stored.           *)
ValidMessage(purpose) == purpose \in 1..MaxMessage

CheckPurpose ==
    /\ pc = "evaluated"
    /\ Return(IF ValidMessage(params.purpose) THEN Ok(evaluation) ELSE Err("message"))
    /\ UNCHANGED configVars

ConfigNext == ResolveConfig \/ EvaluateRequest \/ CheckPurpose

ConfigFairness ==
    WF_<<callState, configVars>>(kind = "request" /\ ConfigNext)

-----------------------------------------------------------------------------
(* review_reason_for_request, as the administrator's commands ask it: none *)
(* for a request that cannot be reviewed.                                  *)
ReviewReasons(operation) ==
    CASE operation = "write_file" -> {"Write"}
      [] operation = "run_cargo_test" -> {"CodeExecution"}
      [] operation = "http_post" -> {"ExternalWrite"}
      [] OTHER -> {}

(* Whatever the operator wrote, if the gateway starts with it: a held      *)
(* review is one the administrator's commands can decide, under the reason *)
(* it was held for (REJECT and ACK_CLAIMED fail on any other, forever);    *)
(* nothing with an effect runs unreviewed; what may run goes to a host the *)
(* operator named, over https; each limit it runs under is one the         *)
(* operator could mean.                                                    *)
DecisionIsBacked ==
    kind = "request" /\ evaluation # NotYet =>
        /\ evaluation.decision = "review" =>
            evaluation.reason \in ReviewReasons(params.operation)
        /\ evaluation.decision = "allow" => params.operation \notin ReviewOnly
        /\ evaluation.decision # "block" /\ params.operation \in {"http_get", "http_post"} =>
            /\ params.url.scheme = "https" /\ params.url.host.is = "domain"
            /\ IF file.givesHosts
               THEN \E i \in DOMAIN file.hosts : file.hosts[i].name = params.url.host.name
               ELSE params.url.host.name = "api.example.com"
        /\ \A l \in Limits : config.limits[l] > 0 /\ config.limits[l] <= Maximum[l]
=============================================================================
