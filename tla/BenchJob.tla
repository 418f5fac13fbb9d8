------------------------------- MODULE BenchJob -------------------------------
(***************************************************************************)
(* bench_job.sh, the laptop's side of a measured replay: it follows the    *)
(* Job, waits for it, fetches its log and collects it.  The link to the    *)
(* cluster goes down and comes back (the VPN), a fetched log can be cut    *)
(* short or damaged, and the script or the collector can be interrupted    *)
(* and run again on the Job that is kept for that.                         *)
(***************************************************************************)
EXTENDS CollectJob

CONSTANTS
    MaxPolls,   \* how often the pod's phase is asked for: 300 in the code
    MaxFetches  \* bound on the times a log is fetched

ASSUME BenchJobAssumption == MaxPolls \in Nat /\ MaxFetches \in Nat \ {0}

VARIABLES
    script,     \* where bench_job.sh is
    link,       \* can the cluster be reached?
    polls,      \* how often the pod was asked for
    fetches     \* how often the log was fetched

scriptVars == <<script, polls, fetches>>
vars == <<podVars, collectVars, scriptVars, link>>

Init ==
    /\ PodInit /\ CollectInit
    /\ script = "polling" /\ link = TRUE /\ polls = 0
    /\ fetches = 0

\* The phase of the pod is known and is not Pending: follow its log.
PollSees ==
    /\ script = "polling"
    /\ link /\ pod \notin {"absent", "Pending"}
    /\ script' = "following"
    /\ UNCHANGED <<polls, fetches>>

PollSeesNothing ==
    /\ script = "polling"
    /\ ~link \/ pod \in {"absent", "Pending"}
    /\ polls' = polls + 1
    /\ script' = IF polls' = MaxPolls THEN "waiting" ELSE script
    /\ UNCHANGED fetches

\* kubectl logs -f ends with the pod, or with the connection; either will do.
FollowEnds ==
    /\ script = "following"
    /\ ~link \/ ~PodLives
    /\ script' = "waiting"
    /\ UNCHANGED <<polls, fetches>>

\* kubectl wait --for=condition=complete succeeds.
WaitEnds ==
    /\ script = "waiting" /\ link /\ pod = "Complete"
    /\ script' = "fetching"
    /\ UNCHANGED <<polls, fetches>>

\* A plausible wrong WaitSeesFailed, for the mutation run: the phase of the pod
\* is taken for a condition of the Job.
WaitSeesPhase ==
    /\ script = "waiting" /\ link /\ pod = "Error"
    /\ script' = "failed"
    /\ UNCHANGED <<polls, fetches>>

WaitSeesFailed ==
    /\ script = "waiting" /\ link /\ pod = "Failed"
    /\ script' = "failed"
    /\ UNCHANGED <<polls, fetches>>

\* What a fetch may leave of the log: all or a part of it, after a rotation at
\* the front or a lost connection at the end; all lines but one; one that reads
\* as any other text, or as other base64; one twice; two exchanged.
CollectDamaged ==
    LET end == Len(log)
    IN  \/ \E n \in 1..end : Collect(SubSeq(log, n, end))
        \/ \E n \in 0..(end-1) : Collect(SubSeq(log, 1, n))
        \/ \E n \in 1..end :
               \/ Collect(RemoveAt(log, n))
               \/ Collect([log EXCEPT ![n] = Progress])
               \/ Collect(InsertAt(log, n, log[n]))
               \/ log[n].kind = "base64" /\ Collect([log EXCEPT ![n].value = <<>>])
               \/ n < end /\ Collect([log EXCEPT ![n] = log[n+1], ![n+1] = log[n]])

\* kubectl logs, and the collector is called; set -e ends the script when the
\* connection is refused.
Fetch ==
    /\ script = "fetching" /\ link
    /\ script' = "collecting"
    /\ CollectDamaged
    /\ fetches' = fetches + 1
    /\ UNCHANGED polls

FetchFails ==
    /\ script = "fetching" /\ ~link
    /\ script' = "failed"
    /\ UNCHANGED <<polls, fetches>>

\* The collector's exit status is that of the script.
CollectorExits ==
    /\ script = "collecting" /\ collector \in {"failed", "done"}
    /\ script' = collector
    /\ UNCHANGED <<polls, fetches>>

\* After a script that gave up the last commands are run again by hand.  A cell
\* that was collected is left alone: its files would be emptied one by one.
RunAgain ==
    /\ script = "failed" /\ pod = "Complete"
    /\ fetches < MaxFetches
    /\ script' = "fetching"
    /\ UNCHANGED <<polls, fetches>>

\* A step of bench_job.sh alone.
Alone(step) == step /\ UNCHANGED <<podVars, collectVars, link>>

Wait == Alone(WaitEnds \/ WaitSeesFailed)

Script ==
    \/ Alone(PollSees \/ PollSeesNothing \/ FollowEnds \/ FetchFails \/ CollectorExits)
    \/ Wait
    \/ Fetch /\ UNCHANGED <<podVars, link>>
    \/ Collector /\ UNCHANGED <<podVars, scriptVars, link>>

LinkChanges == link' = ~link /\ UNCHANGED <<podVars, collectVars, scriptVars>>

Next ==
    \/ Script
    \/ Alone(RunAgain)
    \/ Pod /\ UNCHANGED <<collectVars, scriptVars, link>>
    \/ WriteFails /\ UNCHANGED <<podVars, scriptVars, link>>
    \/ LinkChanges

Spec == Init /\ [][Next]_vars

\* The programs run on.  The link comes back, and goes again, for ever: each
\* kubectl wait is capped, so the loop asks again until it asks at a time when
\* the link is up.  Nothing is assumed of the pod, nor of who runs it again.
FairSpec ==
    /\ Spec
    /\ WF_vars(Script)
    /\ SF_vars(Wait)
    /\ WF_vars(LinkChanges)
-----------------------------------------------------------------------------
\* "A partially-collected cell that looks complete is worse than no cell": when
\* there is a window.env, which run_cell.sh reads, the Job completed, each seed's
\* CSV is the one the pod measured, and the window is the one its clock saw.
CollectedIsMeasured ==
    window # <<>> =>
        /\ pod = "Complete"
        /\ files = [s \in Seeds |-> Csv(s)]
        /\ \A m \in DOMAIN window : Mark(m, window[m]) \in Range(log)
        /\ window["CELL_START"] < window["CELL_END"]

\* "Nothing is written unless every check passes": what is written was whole in
\* the log that was fetched, every seed of it, to the last line.
IsIn(frame, all) ==
    \E n \in 0..(Len(all) - Len(frame)) :
        SubSeq(all, n + 1, n + Len(frame)) = frame

OnlyWholeIsWritten ==
    [][files' # files =>
          /\ \A s \in Seeds : IsIn(Frame(s), lines)
          /\ AllDone \in Range(lines)]_vars

\* The log of a completed Job is rejected only if it is damaged, or if the
\* whole replay took less than a second.
IntactIsAccepted ==
    [][collector = "parsing" /\ collector' = "failed" =>
          lines # log \/ clock = 0]_vars

\* A Job that ended is settled by the script, however the link comes and goes
\* and whether or not its log could be followed.
EveryJobIsSettled == ~PodLives /\ pod # "absent" ~> script \in {"failed", "done"}
=============================================================================
