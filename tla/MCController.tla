---------------------------- MODULE MCController ----------------------------
(* Controller with two pools that share a backend, an IPv4 and an IPv6 VIP, *)
(* and configurations that differ in pools, drains, weights and services.   *)
EXTENDS Controller

MCBackends == {"b1", "b2", "b3"}
MCPools    == {"p", "q"}
MCVips     == {"v4", "w4", "v6"}
MCIPv4     == {"v4", "w4"}

Weights(w1, w2) == [x \in MCPools |-> [b1 |-> w1, b2 |-> w2, b3 |-> 1]]

Conf(bp, bq, w, dp, dq, v, w4, v6) ==
    [backends |-> [p |-> bp, q |-> bq], weight |-> w,
     drain |-> [p |-> dp, q |-> dq], vips |-> [v4 |-> v, w4 |-> w4, v6 |-> v6]]

MCConfigs == {
    Conf({"b1", "b2"}, {"b2", "b3"}, Weights(1, 1), {}, {}, {"p"}, {"q"}, {"p"}),
    Conf({"b1"}, {}, Weights(1, 1), {}, {}, {"p"}, {}, {"p"}),
    Conf({"b1"}, {"b1", "b2"}, Weights(1, 1), {}, {"b1"}, {"p", "q"}, {"q"}, {}),
    Conf({"b1", "b2"}, {"b2"}, Weights(1, 0), {}, {}, {"p"}, {"q"}, {}) }
=============================================================================
