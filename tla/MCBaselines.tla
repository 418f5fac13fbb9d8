----------------------------- MODULE MCBaselines -----------------------------
(* Three engines in lists that reorder, grow, shrink and replace one; two  *)
(* sessions that meet the engines in different orders; prompts of which    *)
(* one goes on where another ends; a configuration of each router, one     *)
(* without what its router needs, and one that no router has.  A command   *)
(* line gives or omits each option that a check is about, in every         *)
(* combination of discovery, policy, key and file; the files supply what   *)
(* command lines cannot.                                                   *)
EXTENDS Baselines

CONSTANTS x, y, s, t

MCEndpointLists == {<<1, 2>>, <<2, 1>>, <<3, 1>>, <<2, 3, 1>>, <<1, 3, 2>>}
MCRingOrder == (s :> <<3, 1, 2>>) @@ (t :> <<2, 3, 1>>)
MCPrompts == {<<"a">>, <<"a", "b">>}
MCLabel == <<"p", "d", "p">>

Config(logic) ==
    [routing_logic |-> logic, session_key |-> "None",
     prefill_model_labels |-> "None", decode_model_labels |-> "None"]
MCConfigurations ==
    {Config(c) : c \in {"roundrobin", "session", "loadaware", "prefixaware", "random"}}
    \union {[Config("session") EXCEPT !.session_key = "user"],
            [Config("disaggregated_prefill") EXCEPT !.prefill_model_labels = "p",
                                                    !.decode_model_labels = "d"]}

\* Nothing, or an option with one of its values.
Maybe(option, values) == {<<>>} \union {option :> v : v \in values}
Union(A, B) == {f @@ g : f \in A, g \in B}

Static == ("static_backends" :> "urls") @@ ("static_models" :> "names")
Discovery ==
    {<<>>, "service_discovery" :> "k8s", "service_discovery" :> "dns"}
    \union {("service_discovery" :> "static") @@ f : f \in
                {<<>>, Static, "static_backends" :> "urls",
                 Static @@ ("static_backend_health_checks" :> TRUE),
                 Static @@ ("static_backend_health_checks" :> TRUE)
                        @@ ("static_model_types" :> "chat")}}
Labels == {<<>>, ("prefill_model_labels" :> "p") @@ ("decode_model_labels" :> "d")}
Intervals ==
    {<<>>, "log_stats_interval" :> 0, "engine_stats_interval" :> 0,
     ("log_stats" :> TRUE) @@ ("log_stats_interval" :> 0),
     "sentry_traces_sample_rate" :> 101}
Policies ==
    {"roundrobin", "session", "loadaware", "prefixaware",
     "disaggregated_prefill", "random"}
MCCommandLines ==
    Union(Union(Discovery, Maybe("routing_logic", Policies)),
          Union(Union(Maybe("session_key", {"user"}), Labels),
                Union(Intervals,
                      Maybe("dynamic_config_yaml", {"", "a", "b", "c"})
                          \union Maybe("dynamic_config_json", {"d", "e"})
                          \union {("dynamic_config_yaml" :> "a")
                                      @@ ("dynamic_config_json" :> "d")})))
MCFile ==
    [a |-> "routing_logic" :> "random",
     b |-> ("routing_logic" :> "session") @@ ("session_key" :> "user"),
     c |-> ("service_discovery" :> "k8s") @@ ("k8s_port" :> "None"),
     d |-> Static @@ ("service_discovery" :> "static") @@ ("routing_logic" :> "loadaware"),
     e |-> ("static_backend_health_checks" :> TRUE) @@ ("routing_logic" :> "session")]
MCModelType == {"chat"}
=============================================================================
