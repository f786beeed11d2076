---------------------------- MODULE MCGatewayRedis ----------------------------
(***************************************************************************)
(* A small instance of GatewayRedis: two handlers of MCGateway over one    *)
(* session key and one idempotency key in Redis.                           *)
(***************************************************************************)
EXTENDS MCGateway, GatewayRedis

(* A session is minted with a keyed call; calls on the session, of which   *)
(* the platform makes now this and now that, use the same key with other   *)
(* params; and a DELETE comes between.                                     *)
RedisRequests ==
    {[Keyed(With("agent_identity", c1, None)) EXCEPT !.hash = p2],
     Keyed(With("marketplace.search", None, s1)),
     Http(With("unknown", None, s1), "DELETE")}
==============================================================================
