------------------------------ MODULE MCGateway ------------------------------
(***************************************************************************)
(* Small instances of Gateway: two handlers, and for each run the requests *)
(* that bring its question to a head.                                      *)
(***************************************************************************)
EXTENDS Gateway, TLC

CONSTANTS h1, h2, c1, c2, s1, s2, agent, operator, i1, p1, p2, r1, r2

(* A well-formed POST without credentials, from which the others are made. *)
Plain ==
    [http |-> "POST", stateless |-> FALSE, name |-> "marketplace.search",
     credential |-> None, session |-> None, key |-> None, hash |-> p1,
     critical |-> FALSE, role |-> "none", agentId |-> None, valid |-> TRUE,
     dynamic |-> FALSE]

With(name, credential, session) ==
    [Plain EXCEPT !.name = name, !.credential = credential,
                  !.session = session]

Keyed(r) == [r EXCEPT !.key = i1]
Stateless(r) == [r EXCEPT !.stateless = TRUE]
Http(r, method) == [r EXCEPT !.http = method]

(* One agent publishes, bids and reads its wallet, with its key and on the *)
(* session it has left, before and after it is claimed, its permissions    *)
(* are changed and its key is revoked.  In the stateless revision it sends *)
(* the id of that session along all the same.                              *)
RightsRequests ==
    {Keyed([With("marketplace.publish", c1, None) EXCEPT !.dynamic = TRUE]),
     Keyed(With("marketplace.publish", None, s1)),
     Keyed(With("orders.submitBid", None, s1)),
     With("wallet.getBalance", c1, None),
     With("wallet_balance", None, s1),
     Stateless(Keyed(With("orders.submitBid", c1, s1))),
     Stateless(With("marketplace.search", None, s1)),
     Stateless(Http(With("unknown", None, s1), "DELETE")),
     Stateless(Http(With("unknown", None, s1), "GET")),
     Http(With("unknown", None, s1), "GET"),
     Http(Plain, "DELETE"), Http(Plain, "GET")}

(* One request for each way through a handler.  The operator sends its own *)
(* credential and names the session the agent has been given.              *)
LiveRequests ==
    {With("agent_identity", c2, s1),
     Keyed(With("notifications.ack", c1, None)),
     [With("scale_status", None, s1) EXCEPT !.critical = TRUE],
     Keyed(Stateless(With("onboarding.registerSelf", None, None))),
     Http(With("unknown", None, s1), "DELETE"),
     Stateless([With("marketplace.publish", c1, None)
        EXCEPT !.valid = FALSE, !.key = i1])}

(* A collaboration member joins under the role the collaboration records.  *)
JoinRequests ==
    {Keyed([With("collab.join", c1, None) EXCEPT !.role = "member"])}

OneOwner == [c \in {c1} |-> agent]
TwoOwners == (c1 :> agent @@ c2 :> operator)
RightsPolicies ==
    {{}, {"canPublish"}, {"canPublish", "allowDynamicPricing", "canBid"}}
NoPolicies == {{}}

Symmetry == Permutations({h1, h2})
==============================================================================
