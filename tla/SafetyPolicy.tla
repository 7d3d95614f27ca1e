---------------------------- MODULE SafetyPolicy ----------------------------
(***************************************************************************)
(* agents/safety: how far an action reaches in the graph of services and   *)
(* whether it takes a human to approve it.                                 *)
(***************************************************************************)
EXTENDS Integers, FiniteSets, Graphs

Services ==
    {"api-gateway", "user-svc", "auth-svc", "order-svc", "payment-svc",
     "product-svc", "search-svc", "notification-worker", "inventory-worker",
     "analytics-worker", "redis", "postgres-orders", "postgres-payments",
     "nats", "elasticsearch"}

\* An edge goes from a service to one it relies on.
Topology ==
    [node |-> Services,
     edge |->
        ({"api-gateway"} \X {"user-svc", "order-svc", "product-svc", "auth-svc"})
        \union ({"user-svc"} \X {"redis"})
        \union ({"auth-svc"} \X {"redis", "user-svc"})
        \union ({"order-svc"} \X {"postgres-orders", "nats", "payment-svc",
                                  "inventory-worker"})
        \union ({"payment-svc"} \X {"postgres-payments", "nats"})
        \union ({"product-svc", "search-svc"} \X {"elasticsearch"})
        \union ({"notification-worker", "analytics-worker"} \X {"nats"})
        \union ({"inventory-worker"} \X {"nats", "postgres-orders"})]

\* Whoever reaches target over at most as many edges as there are services.
Upstream(target) ==
    LET within[n \in Nat] ==
            IF n = 0 THEN {} ELSE AllPredecessors(Topology, within[n - 1] \union {target})
    IN  within[Cardinality(Services)]

Affected(target) == Cardinality(Upstream(target))

\* The impact score is Affected / |Services|, compared with 0.5 and 0.2.
RiskLevel(target) ==
    CASE target \notin Services -> "unknown"
      [] target \in {"postgres-orders", "nats", "redis"} -> "critical"
      [] OTHER -> CASE 2 * Affected(target) > Cardinality(Services) -> "high"
                    [] 5 * Affected(target) > Cardinality(Services) -> "medium"
                    [] OTHER -> "low"

\* What _evaluate_action tells the policy engine of the risk.
HighRisk(action) ==
    {action.risk, RiskLevel(action.target)} \intersect {"medium", "high"} # {}

Banned(action) ==
    \/ /\ action.type = "sql_execute"
       /\ action.target \in {"postgres-orders", "postgres-payments", "postgres-agents"}
    \/ action.type = "container_restart" /\ action.target = "postgres-agents"

TooManyReplicas(action) ==
    action.type = "container_scale" /\ action.replicas > action.max_replicas

NeedsHuman(action) ==
    \/ action.approval_required
    \/ HighRisk(action)
    \/ Banned(action)
    \/ TooManyReplicas(action)

FingerprintOf(action) == <<action.type, action.target>>
=============================================================================
