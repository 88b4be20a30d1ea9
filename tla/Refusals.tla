------------------------------- MODULE Refusals -------------------------------
(***************************************************************************)
(* How an upstream refusal is read and passed on: the ordered matrix of    *)
(* upstream/classify.go that turns a status and a body into one class, and *)
(* the table of server/errors.go that turns the class into the answer the  *)
(* client gets.  A body is the set of markers it carries; a delay is the   *)
(* Retry-After in seconds, 0 when there is none.                           *)
(***************************************************************************)
EXTENDS Naturals, Sequences

Statuses == {400, 401, 402, 403, 404, 409, 410, 426, 428, 429, 500, 503}
Markers ==
  {"banned", "account_suspended", "outside_hours", "run_fanout", "capacity_deferred",
   "turn_spend_limit", "provider_bill", "no_endpoints", "session_limit", "consent_required",
   "first_tab_changed", "cli_required", "free_mode_unavailable", "hierarchy", "cost_mode",
   "country_blocked", "ip_capped", "queued", "room_required", "model_mismatch", "limited",
   "invalid_agent_model", "superseded", "update_required", "expired", "model_locked",
   "legacy_luna", "run_gone", "quota", "peak_hours", "rate_limited"}

\* A rule applies to some statuses and to bodies that carry one of its groups
\* of markers.  An empty group is any body.
Rule(statuses, groups, class) == [statuses |-> statuses, groups |-> groups, class |-> class]
Carries(markers) == {{x} : x \in markers}
AnyBody == {{}}
Applies(rule, reply) ==
  reply.status \in rule.statuses /\ \E g \in rule.groups : g \subseteq reply.marks

\* The matrix, in the order of its cases: the account and the queue ...
AccountRules == <<
  Rule({403}, Carries({"banned", "account_suspended"}), "banned"),
  Rule(Statuses, Carries({"outside_hours"}), "outside_hours"),
  Rule(Statuses, Carries({"run_fanout"}), "run_fanout"),
  Rule(Statuses, Carries({"capacity_deferred"}), "capacity_deferred"),
  Rule(Statuses, Carries({"turn_spend_limit"}), "turn_spend_limit") >>
\* ... what the status decides, but for the markers that come before it ...
StatusRules == <<
  Rule({401, 402}, Carries({"provider_bill"}), "provider_usage"),
  Rule({401}, AnyBody, "auth_rejected"),
  Rule({503}, AnyBody, "waiting_room"),
  Rule({402}, AnyBody, "credits"),
  Rule({404}, Carries({"no_endpoints"}), "no_endpoints"),
  Rule({409}, Carries({"session_limit"}), "session_limit"),
  Rule({409}, Carries({"consent_required"}), "consent_required"),
  Rule({409}, Carries({"first_tab_changed"}), "first_tab_changed") >>
\* ... the gates of the free tier ...
GateRules == <<
  Rule({403}, Carries({"cli_required"}), "cli_required"),
  Rule({403}, Carries({"free_mode_unavailable"}), "free_mode_unavailable"),
  Rule({403}, Carries({"hierarchy"}), "hierarchy"),
  Rule({403}, Carries({"cost_mode"}), "cost_mode"),
  Rule({403}, Carries({"country_blocked"}), "country_blocked"),
  Rule(Statuses, Carries({"ip_capped"}), "ip_capped") >>
\* ... what concerns the session and the run ...
QueuedRules == <<
  Rule(Statuses, Carries({"queued"}), "waiting_room"),
  Rule(Statuses, Carries({"room_required"}), "room_required"),
  Rule(Statuses, {{"model_mismatch", "limited"}}, "model_limited") >>
SessionRules == <<
  Rule(Statuses, Carries({"invalid_agent_model"}), "invalid_agent_model"),
  Rule(Statuses, Carries({"superseded"}), "superseded"),
  Rule(Statuses, Carries({"update_required", "expired", "model_mismatch", "model_locked", "legacy_luna"}),
       "session_invalid"),
  Rule({400}, Carries({"run_gone"}), "run_invalid") >>
\* ... and the limits that are left.
LimitRules == <<
  Rule({429}, Carries({"quota"}), "load_shedding"),
  Rule({429}, Carries({"peak_hours"}), "peak_hours"),
  Rule({429}, AnyBody, "rate_limited"),
  Rule(Statuses, Carries({"rate_limited"}), "rate_limited") >>
Matrix == AccountRules \o StatusRules \o GateRules \o QueuedRules \o SessionRules \o LimitRules

classifyError(reply) ==
  LET matching == {i \in DOMAIN Matrix : Applies(Matrix[i], reply)} IN
  IF matching = {} THEN "other"
  ELSE Matrix[CHOOSE i \in matching : \A j \in matching : i <= j].class

-----------------------------------------------------------------------------
RateLimits == {"run_fanout", "invalid_agent_model", "load_shedding", "peak_hours", "rate_limited"}
\* The chat path waits these out on the same session.
Queues == {"capacity_deferred", "waiting_room"}
\* Repeating the request as it is cannot help, or is not the proxy's to do.
Terminal == {"turn_spend_limit", "session_limit", "no_endpoints", "country_blocked", "cli_required",
             "hierarchy", "cost_mode", "free_mode_unavailable", "provider_usage", "consent_required",
             "first_tab_changed", "credits"}

\* queueRetryAfter and its default: the window of a queue that named none.
QueueWindow == 10
OrQueueWindow(delay) == IF delay > 0 THEN delay ELSE QueueWindow

ClientStatus(class, reply) ==
  CASE class \in RateLimits \cup {"turn_spend_limit", "ip_capped", "capacity_deferred"} -> 429
    [] class \in {"banned", "country_blocked", "cli_required", "hierarchy", "cost_mode",
                  "free_mode_unavailable"} -> 403
    [] class \in {"session_limit", "model_limited", "consent_required", "first_tab_changed"} -> 409
    [] class \in {"waiting_room", "room_required", "superseded", "outside_hours"} -> 503
    [] class \in {"provider_usage", "credits"} -> 402
    [] class = "session_invalid" -> IF reply.marks \cap {"legacy_luna", "model_locked"} = {"model_locked"}
                                    THEN 409 ELSE 502
    [] class = "other" /\ reply.status \in {402, 409, 429} -> reply.status
    [] OTHER -> 502
\* In whole seconds, rounded up.
ClientDelay(class, reply) ==
  CASE class \in Queues -> OrQueueWindow(reply.delay)
    [] class \in RateLimits \cup {"banned", "model_limited", "room_required", "outside_hours", "other"}
         -> reply.delay
    [] class = "ip_capped" -> IF reply.delay > 0 THEN reply.delay ELSE 60
    [] class = "superseded" -> 1
    [] class = "session_invalid" -> IF ClientStatus(class, reply) = 409 THEN 0 ELSE 1
    [] OTHER -> 0
writeError(class, reply) ==
  [class |-> class, status |-> ClientStatus(class, reply), delay |-> ClientDelay(class, reply)]
=============================================================================
