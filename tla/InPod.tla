-------------------------------- MODULE InPod --------------------------------
(***************************************************************************)
(* in_pod.sh, the measured replay inside the cluster, and the Job that     *)
(* wraps it.  Its standard output is the only channel out of the pod: log  *)
(* is what it has printed, a sequence of lines.  A line is a record; what  *)
(* a progress line says is left out.  A CSV is the sequence of base64      *)
(* lines it is printed as, and its checksum and size are that sequence:    *)
(* two CSVs have one checksum only if they are equal.                      *)
(***************************************************************************)
EXTENDS Naturals, Sequences

CONSTANTS
    LastSeed,   \* the cell replays the seeds 1 to LastSeed
    Wraps       \* base64 lines of a compressed CSV

ASSUME InPodAssumption ==
    LastSeed \in Nat \ {0} /\ Wraps \in Nat \ {0}

Seeds == 1..LastSeed

VARIABLES
    pod,        \* phase of the Job's only pod
    log,        \* its standard output
    clock,      \* its clock, in seconds: date +%s
    seed,       \* how many seeds were replayed
    printed     \* how many lines of the results were printed

podVars == <<pod, log, clock, seed, printed>>

\* A line: what it is, the seed it is about, and what else it says.
Text(kind, of, value) == [kind |-> kind, of |-> of, value |-> value]

Marks == {"NODE", "CELL_START", "CELL_END"}

Progress == Text("progress", 0, <<>>)
Mark(m, value) == Text(m, 0, <<value>>)
Base64(s, n) == Text("base64", s, <<n>>)
Csv(s) == [n \in 1..Wraps |-> Base64(s, n)]
Begin(s) == Text("BEGIN", s, Csv(s))
End(s) == Text("END", s, <<>>)
AllDone == Text("ALL_DONE", 0, <<>>)

Frame(s) == <<Begin(s)>> \o Csv(s) \o <<End(s)>>

\* What follows CELL_END: a frame for each seed, and ALL_DONE.
Results ==
    LET frames[s \in {0} \union Seeds] ==
            IF s = 0 THEN <<>> ELSE frames[s-1] \o Frame(s)
    IN  Append(frames[LastSeed], AllDone)

PodInit ==
    pod = "absent" /\ log = <<>> /\ clock = 0 /\ seed = 0 /\ printed = 0

PodCreated ==
    /\ pod = "absent" /\ pod' = "Pending"
    /\ UNCHANGED <<log, clock, seed, printed>>

\* The dataset is verified before the window opens.
StartCell ==
    /\ pod = "Pending" /\ pod' = "replaying"
    /\ log' = <<Mark("NODE", 0), Mark("CELL_START", clock)>>
    /\ UNCHANGED <<clock, seed, printed>>

\* One seed; a second may pass.
Replay ==
    /\ pod = "replaying" /\ seed + 1 \in Seeds
    /\ seed' = seed + 1
    /\ clock' \in {clock, clock + 1}
    /\ log' = Append(log, Progress)
    /\ UNCHANGED <<pod, printed>>

EndCell ==
    /\ pod = "replaying" /\ seed + 1 \notin Seeds
    /\ pod' = "emitting"
    /\ log' = Append(log, Mark("CELL_END", clock))
    /\ UNCHANGED <<clock, seed, printed>>

Emit ==
    /\ pod = "emitting" /\ printed < Len(Results)
    /\ printed' = printed + 1
    /\ log' = Append(log, Results[printed'])
    /\ UNCHANGED <<pod, clock, seed>>

Exit ==
    /\ pod = "emitting" /\ printed = Len(Results)
    /\ pod' = "Complete"
    /\ UNCHANGED <<log, clock, seed, printed>>

PodLives == pod \in {"Pending", "replaying", "emitting"}

\* Any command fails (set -e), or the pod is killed: backoffLimit is 0.
PodFails ==
    /\ PodLives /\ pod' = "Failed"
    /\ UNCHANGED <<log, clock, seed, printed>>

Pod ==
    PodCreated \/ StartCell \/ Replay \/ EndCell \/ Emit \/ Exit \/ PodFails
=============================================================================
