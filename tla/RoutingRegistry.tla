--------------------------- MODULE RoutingRegistry ---------------------------
(***************************************************************************)
(* The registry of the one router of the process (routing_logic.py):       *)
(* initialize, reconfigure, get and cleanup over SingletonABCMeta, and the *)
(* controller task that a kvaware or loadaware router starts on a thread   *)
(* of its own.  Reconfiguring runs on the thread of the configuration      *)
(* watcher, so a request may ask for the router between two of its steps.  *)
(* The task may fail at any time; the library's sockets are outside, and   *)
(* so is the metaclass: calling a class returns its instance, and makes    *)
(* and keeps one if there is none.                                         *)
(***************************************************************************)
EXTENDS Naturals, Sequences, FiniteSetsExt

CONSTANT Configurations     \* what the watcher may find in its file

NoConfiguration ==
    [routing_logic |-> "none", session_key |-> "None",
     prefill_model_labels |-> "None", decode_model_labels |-> "None"]

\* The tuple that get and cleanup walk.
ClassOrder == <<"session", "roundrobin", "kvaware", "loadaware",
                "prefixaware", "disaggregated_prefill">>
RoutingLogic == {"roundrobin", "session", "kvaware", "prefixaware",
                 "disaggregated_prefill", "loadaware"}
WithController == {"kvaware", "loadaware"}

\* Classes whose constructor needs no argument.
Default == {"roundrobin", "prefixaware"}

VARIABLES
    instances,  \* SingletonABCMeta._instances, as the set of its classes
    task,       \* lmcache_cluster_monitor_task of each class with a controller
    pc,         \* "down", "idle" or, of the watcher's thread, "cleanup"
    cleaning,   \* position in ClassOrder of the cleanup
    found,      \* a class without arguments that a request has found and not called
    current,    \* history: the last configuration that was installed
    revived     \* history: registered classes that such a late call constructed

vars == <<instances, task, pc, cleaning, found, current, revived>>

Init ==
    /\ instances = {} /\ task = [c \in WithController |-> "none"]
    /\ pc = "down" /\ cleaning = 1
    /\ found = "none"
    /\ current = NoConfiguration /\ revived = {}

\* The process ends, and everything with it.
Stop ==
    /\ pc # "down" /\ pc' = "down"
    /\ instances' = {} /\ task' = [c \in WithController |-> "none"]
    /\ cleaning' = 1 /\ found' = "none"
    /\ current' = NoConfiguration /\ revived' = {}

\* reconfigure_routing_logic, which begins with the cleanup; what it is to
\* install is first read after that.
Reconfigure ==
    /\ pc = "idle" /\ pc' = "cleanup"
    /\ UNCHANGED <<instances, task, cleaning, found, current, revived>>

\* close: a task that still runs is cancelled; the exception of one that failed
\* is raised by result().
CloseRaises(c) == c \in WithController /\ task[c] = "failed"

\* Plausible wrong versions of Deregistered, for the mutation runs: a router with
\* a controller stays registered; the task is not cancelled.
DeregisteredUnlessClosed(c) ==
    /\ instances' = instances \ ({c} \ WithController)
    /\ task' = IF c \in WithController THEN [task EXCEPT ![c] = "none"] ELSE task
DeregisteredUnclosed(c) == instances' = instances \ {c} /\ UNCHANGED task

\* close has returned: the task is None, and the instance is deleted.
Deregistered(c) ==
    /\ instances' = instances \ {c}
    /\ task' = IF c \in WithController THEN [task EXCEPT ![c] = "none"] ELSE task

\* The turns of cleanup_routing_logic up to the next registered class; others
\* are passed over.
Clean ==
    /\ pc = "cleanup" /\ cleaning <= Len(ClassOrder)
    /\ LET ahead == {n \in cleaning..Len(ClassOrder) : ClassOrder[n] \in instances}
           c == ClassOrder[Min(ahead)]
       IN  \/ /\ ahead = {}
              /\ cleaning' = Len(ClassOrder) + 1
              /\ UNCHANGED <<instances, task, pc>>
           \/ /\ ahead # {} /\ ~CloseRaises(c)
              /\ Deregistered(c)
              /\ cleaning' = Min(ahead) + 1 /\ UNCHANGED pc
           \/ /\ ahead # {} /\ CloseRaises(c)
              /\ pc' = "idle" /\ cleaning' = 1
              /\ UNCHANGED <<instances, task>>
    /\ revived' = revived \intersect instances'
    /\ UNCHANGED <<found, current>>

\* initialize_routing_logic is called, by the main thread or by reconfigure.
Initializing == pc = "down" \/ cleaning > Len(ClassOrder)

\* One of its branches takes the name, and the session router has a key.
Constructible(config) ==
    /\ config.routing_logic \in RoutingLogic
    /\ config.routing_logic = "session" => config.session_key # "None"

\* The metaclass registers the instance, and a router with a controller starts
\* its task.
Initialize(config) ==
    /\ Initializing /\ Constructible(config)
    /\ LET c == config.routing_logic
       IN  /\ instances' = instances \union {c}
           /\ task' = IF c \in WithController THEN [task EXCEPT ![c] = "running"] ELSE task
    /\ pc' = "idle" /\ cleaning' = 1 /\ current' = config
    /\ UNCHANGED <<found, revived>>

\* ValueError, or the constructor of a controller finds its port in use.  An
\* exception at the start ends the process.
InitializeRaises(config) ==
    /\ Initializing
    /\ ~Constructible(config) \/ config.routing_logic \in WithController
    /\ pc' = IF pc = "down" THEN "down" ELSE "idle"
    /\ cleaning' = 1 /\ current' = NoConfiguration
    /\ UNCHANGED <<instances, task, found, revived>>

\* An exception ends start_all().
TaskFails(c) ==
    /\ task[c] = "running"
    /\ task' = [task EXCEPT ![c] = "failed"]
    /\ UNCHANGED <<instances, pc, cleaning, found, current, revived>>

\* get_routing_logic: the first registered class of the tuple, or ValueError.
GetRoutingLogic ==
    IF instances = {} THEN "none"
    ELSE ClassOrder[CHOOSE n \in DOMAIN ClassOrder :
                        /\ ClassOrder[n] \in instances
                        /\ \A p \in 1..(n-1) : ClassOrder[p] \notin instances]

\* A request on its own thread tests "cls in SingletonABCMeta._instances" ...
Find ==
    /\ pc = "cleanup" /\ found = "none" /\ GetRoutingLogic \in Default
    /\ found' = GetRoutingLogic
    /\ UNCHANGED <<instances, task, pc, cleaning, current, revived>>

\* ... and calls cls(): deregistered meanwhile, it is constructed anew.  A class
\* that needs arguments raises then, and nothing changes.
Call ==
    /\ found # "none"
    /\ found' = "none"
    /\ instances' = instances \union {found}
    /\ revived' = revived \union ({found} \ instances)
    /\ UNCHANGED <<task, pc, cleaning, current>>

\* A step of the watcher's thread, once the file has changed.
Watcher ==
    \/ Reconfigure \/ Clean
    \/ \E config \in Configurations :
           pc = "cleanup" /\ (Initialize(config) \/ InitializeRaises(config))

\* The process starts.
Launch(config) == pc = "down" /\ (Initialize(config) \/ InitializeRaises(config))

Next ==
    \/ \E config \in Configurations : Launch(config)
    \/ Stop \/ Watcher \/ Find \/ Call
    \/ \E c \in WithController : TaskFails(c)

Spec == Init /\ [][Next]_vars
-----------------------------------------------------------------------------
\* Requests are served by the router that was configured last; or by none while
\* it is being replaced, or when that failed; or by one that a request itself
\* brought back, having overlapped a replacement.  Never by one that a
\* replacement left behind, though an exception may cut a cleanup short.
ServedByTheConfigured ==
    GetRoutingLogic \in {current.routing_logic} \union revived
                            \union (IF pc = "idle" THEN {} ELSE {"none"})

\* No controller is left behind with nobody to stop it: a task that was not told
\* to end belongs to a registered router.  (close asks; the coroutine ends on its
\* own thread some time later, and may overlap the next router's.)
NoOrphanController ==
    \A c \in WithController : task[c] = "running" => c \in instances
=============================================================================
