------------------------------ MODULE CommandLine ------------------------------
(***************************************************************************)
(* The command line of the router (parsers/parser.py): options given,      *)
(* options of a configuration file, defaults, and the checks.  A command   *)
(* line, a file and the parsed arguments are functions from options to     *)
(* values; options that no check and no router reads are left out.         *)
(* argparse is a library: what is given overrides a default, and only what *)
(* is given is checked against the choices, never a default.               *)
(***************************************************************************)
EXTENDS Integers

CONSTANTS
    CommandLines,   \* the options that may be given
    File,           \* the contents of the configuration files, by path
    ModelType       \* the model types that utils.ModelType knows

None == "None"

\* What is given, over the rest.
Over(given, rest) ==
    [option \in DOMAIN given \union DOMAIN rest |->
        IF option \in DOMAIN given THEN given[option] ELSE rest[option]]

DiscoveryDefaults ==
    [service_discovery |-> None, static_backends |-> None, static_models |-> None,
     static_model_types |-> None, static_backend_health_checks |-> FALSE,
     k8s_port |-> "8000"]

RoutingDefaults == [routing_logic |-> None, session_key |-> None]

LabelDefaults == [prefill_model_labels |-> None, decode_model_labels |-> None]

StatisticsDefaults ==
    [engine_stats_interval |-> 30, request_stats_window |-> 60,
     log_stats |-> FALSE, log_stats_interval |-> 10]

\* Sample rates in percent.
SentryDefaults ==
    [sentry_traces_sample_rate |-> 10, sentry_profile_session_sample_rate |-> 100]

FileDefaults == [dynamic_config_yaml |-> None, dynamic_config_json |-> None]

Defaults ==
    Over(Over(Over(DiscoveryDefaults, RoutingDefaults), LabelDefaults),
         Over(Over(StatisticsDefaults, SentryDefaults), FileDefaults))

DiscoveryChoices == {"static", "k8s"}

\* A plausible wrong RoutingChoices, for the mutation run: the list as it was
\* before the patch.
UpstreamChoices ==
    {"roundrobin", "session", "kvaware", "prefixaware", "disaggregated_prefill"}

\* Literals, "so a new enum member is not reachable until it is listed here too".
RoutingChoices ==
    {"roundrobin", "session", "kvaware", "prefixaware", "disaggregated_prefill",
     "loadaware"}

GivenAmong(argv, option, choices) == option \in DOMAIN argv => argv[option] \in choices

\* argparse takes the options: each value among its choices, and one file at most.
Usable(argv) ==
    /\ GivenAmong(argv, "service_discovery", DiscoveryChoices)
    /\ GivenAmong(argv, "routing_logic", RoutingChoices)
    /\ ~({"dynamic_config_yaml", "dynamic_config_json"} \subseteq DOMAIN argv)

\* parser.parse_args(), after parser.set_defaults(**file).
Parse(argv, file) == Over(argv, Over(file, Defaults))

\* A path is tested for its truth: an empty one names no file.
NamesFile(path) == path \notin {None, ""}

\* load_initial_config_from_config_file_if_required: the options are parsed
\* anew over the contents of the YAML or else the JSON file.
Args(argv) ==
    LET first == Parse(argv, <<>>)
    IN  IF NamesFile(first.dynamic_config_yaml)
            THEN Parse(argv, File[first.dynamic_config_yaml])
        ELSE IF NamesFile(first.dynamic_config_json)
            THEN Parse(argv, File[first.dynamic_config_json])
        ELSE first

RequiredArgsProvided(args) ==
    /\ args.routing_logic \notin {None, ""}
    /\ args.service_discovery \notin {None, ""}

\* validate_static_model_types, of a list of one type.
ModelTypesValid(args) == args.static_model_types \in ModelType

Percentage == 0..100

\* A plausible wrong ValidArgs, for the mutation run: no key for a session.
ValidWithoutSessionKey(args) ==
    /\ RequiredArgsProvided(args)
    /\ args.service_discovery = "static" =>
           args.static_backends # None /\ args.static_models # None

\* validate_args: it exits or raises unless all of this holds.
ValidArgs(args) ==
    /\ RequiredArgsProvided(args)
    /\ args.service_discovery = "static" =>
           /\ args.static_backends # None
           /\ args.static_models # None
           /\ args.static_backend_health_checks => ModelTypesValid(args)
    /\ args.service_discovery = "k8s" => args.k8s_port # None
    /\ args.routing_logic = "session" => args.session_key # None
    /\ args.log_stats => args.log_stats_interval > 0
    /\ args.engine_stats_interval > 0
    /\ args.request_stats_window > 0
    /\ args.sentry_traces_sample_rate \in Percentage
    /\ args.sentry_profile_session_sample_rate \in Percentage

\* parse_args returns.
Accepted(argv) == Usable(argv) /\ ValidArgs(Args(argv))
=============================================================================
