--------------------------- MODULE MCRouteResolver ---------------------------
(* A small instance of RouteResolver for TLC.                              *)
EXTENDS RouteResolver

CONSTANTS none

Short == <<"a", "b">>           \* pkg/Type
Full  == <<"a", "msg", "b">>    \* pkg/msg/Type

MCProviders == {1, 2}

MCClaimIds ==
  {<<"c">>, <<"d">>, <<"wildcard", "ros2msg">>, <<"handler", "ros2msg", Full>>}

MCLex == [x \in MCClaimIds |->
            CASE x = <<"c">> -> 0 [] x = <<"d">> -> 1 [] Len(x) = 3 -> 2 [] OTHER -> 3]

Claim(id, type, routes, object, priority) ==
  [provider |-> 0, id |-> id, encoding |-> "ros2msg", type |-> type, routes |-> routes,
   object |-> object, digests |-> {}, priority |-> priority]

Module(p, provenance, cs) ==
  [kind |-> "module", provenance |-> provenance, provider |-> p, well_formed |-> TRUE, claims |-> cs]

Handler(type, status, routes) ==
  [encoding |-> "ros2msg", type |-> type, match |-> "exact", status |-> status,
   routes |-> routes, object |-> "none", digests |-> {}]

Plugin(p, encodings, handlers) ==
  [kind |-> "plugin", provenance |-> 0, provider |-> p, encodings |-> encodings, exact |-> handlers]

\* A module for both routes, one with a claim that only some schema digests admit,
\* a module with a bad second claim, a plugin, and a plugin that spells its type in
\* two ways.
MCArtifacts ==
  {Module(1, 1, {Claim(<<"c">>, Short, {"scalar", "object"}, "known", 0),
                 [Claim(<<"d">>, <<"", "a">>, {"scalar"}, "none", 5) EXCEPT !.encoding = "protobuf"]}),
   Module(2, 0, {[Claim(<<"c">>, Full, {"scalar"}, "none", 1) EXCEPT !.digests = {"s1"}]}),
   Module(1, 1, {Claim(<<"d">>, Full, {"scalar"}, "none", 0),
                 Claim(<<"c">>, Wildcard, {"scalar", "object"}, "known", 0)}),
   Plugin(2, <<"ros2msg">>, {Handler(Short, "claimed", {"scalar"})}),
   Plugin(2, <<"ros2msg">>, {Handler(Short, "claimed", {"scalar"}),
                             Handler(Full, "claimed", {"scalar"})})}

MCRequests ==
  {[encoding |-> "ros2msg", type |-> Full, schema |-> "s1", route |-> "scalar"],
   [encoding |-> "ros2msg", type |-> Short, schema |-> "s1", route |-> "object"]}

MCConfigs == {<<"x", "x">>, <<"y", "x">>}
=============================================================================
