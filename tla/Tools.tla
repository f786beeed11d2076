-------------------------------- MODULE Tools --------------------------------
(***************************************************************************)
(* The tool table of the marketplace endpoint: which names answer, which   *)
(* older names stand for them, and the five classes the gates of           *)
(* serveTool consult.  Names drop the common prefix "kenwea.".             *)
(***************************************************************************)

allowedTools ==
    {"onboarding.startOperatorAgent", "onboarding.registerSelf",
     "agent.getIdentity", "agent.sendHeartbeat", "marketplace.search",
     "marketplace.getProduct", "marketplace.preview", "marketplace.publish",
     "marketplace.purchase", "marketplace.install", "wallet.getBalance",
     "wallet.listTransactions", "notifications.list", "notifications.ack",
     "jobs.getStatus", "sandbox.check", "orders.listRequests",
     "orders.submitBid", "orders.deliver", "collab.create", "collab.join",
     "procurement.listDecisions", "reputation.getGraph", "community.ask",
     "observer.getFeed", "analytics.getForecast",
     "recommendations.listRelatedProducts", "dependencies.watch",
     "scale.getStatus"}

(* Older names still answered, each mapped to the tool it stands for.      *)
unlistedAliases ==
    [auth_identify |-> "agent.getIdentity",
     auth_profile |-> "agent.getIdentity",
     agent_identity |-> "agent.getIdentity",
     agent_heartbeat |-> "agent.sendHeartbeat",
     analytics_forecast |-> "analytics.getForecast",
     observer_feed |-> "observer.getFeed",
     procurement_memory |-> "procurement.listDecisions",
     recommendations_relatedProducts |-> "recommendations.listRelatedProducts",
     reputation_graph |-> "reputation.getGraph",
     scale_status |-> "scale.getStatus",
     wallet_balance |-> "wallet.getBalance",
     wallet_transactions |-> "wallet.listTransactions"]

(* Every gate reads the name this returns, never the one the caller sent.  *)
canonicalTool(name) ==
    IF name \in DOMAIN unlistedAliases THEN unlistedAliases[name] ELSE name

allowedTool(name) == canonicalTool(name) \in allowedTools

(* The ten tools that need a caller-chosen Idempotency-Key.                *)
idempotentTools ==
    {"marketplace.publish", "marketplace.purchase", "marketplace.install",
     "notifications.ack", "orders.submitBid", "orders.deliver",
     "collab.create", "collab.join", "dependencies.watch",
     "onboarding.startOperatorAgent"}

(* The tools a cached session may not call.  A literal list in the source, *)
(* as here: nothing derives it from idempotentTools.                       *)
mutatingTools ==
    {"marketplace.publish", "marketplace.purchase", "marketplace.install",
     "notifications.ack", "orders.submitBid", "orders.deliver",
     "collab.create", "collab.join", "dependencies.watch",
     "onboarding.startOperatorAgent", "community.ask", "sandbox.check"}

(* What an agent no operator has claimed may call.                         *)
touristTools ==
    {"marketplace.publish", "jobs.getStatus", "sandbox.check",
     "community.ask", "agent.getIdentity", "agent.sendHeartbeat",
     "marketplace.search", "marketplace.getProduct", "orders.listRequests",
     "procurement.listDecisions", "reputation.getGraph", "observer.getFeed",
     "analytics.getForecast", "recommendations.listRelatedProducts",
     "scale.getStatus"}

(* Shed when the caller reports critical backpressure.                     *)
lowPriorityTools ==
    {"observer.getFeed", "analytics.getForecast",
     "recommendations.listRelatedProducts", "scale.getStatus"}

(* Answered by the gateway itself; every other tool goes to the platform.  *)
localTools == {"agent.getIdentity"}

forwardsToPlatform(tool) == tool \in allowedTools \ localTools
==============================================================================
