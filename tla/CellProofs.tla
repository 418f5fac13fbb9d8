----------------------------- MODULE CellProofs -----------------------------
(***************************************************************************)
(* Theorems about one cell of the experiment.                              *)
(*                                                                         *)
(* run_cell.sh, for any number of replicas and any betas: what a cell      *)
(* measures is what it is named for, and the router that it warms up is    *)
(* the one that it measures.                                               *)
(*                                                                         *)
(* bench_job.sh, for any number of seeds, CSVs of any length, any number   *)
(* of polls and fetches, and any time at which the link goes down, a       *)
(* program is interrupted or a log is damaged as CollectDamaged lists:     *)
(* what is written is whole and is what the pod measured, and a log that   *)
(* is intact is accepted.                                                  *)
(***************************************************************************)
EXTENDS RunCell, BenchJob, SequenceTheorems, WellFoundedInduction, TLAPS

(***************************************************************************)
(* The deployment of the router (RunCell.tla).                             *)
(***************************************************************************)

Arms == {"kvaware", "roundrobin", "loadaware"}

Deployment == [image : {"stock", "loadaware"}, logic : Arms, beta : Betas \union {NoBeta},
               overlay : BOOLEAN, revision : {0, 1}]

(* The script, from its last command to its first.                         *)
Warm        == {"warm-up", "measure"}
Forwarded   == Warm \union {"registrations"}
Configured  == Forwarded \union {"settle", "drain", "restart", "restarting"}
Unpatched   == Configured \union {"environment"}
Upgraded    == Unpatched \union {"overlay", "revert", "re-registration"}

TypeInv ==
    /\ pc \in Upgraded \union {"ended", "upgrade"}
    /\ <<arm, beta>> \in Cells
    /\ blind \in BOOLEAN /\ configmap \in BOOLEAN
    /\ deploy \in Deployment /\ router \in Deployment

\* What the commands so far have made of the deployment.  An overlay outlives the
\* question for it only if that had no answer, or without its ConfigMap.
DeployInv ==
    /\ pc \in Upgraded => deploy.image = Image(arm) /\ deploy.logic = arm
    /\ pc \in Configured => deploy.beta = beta
    /\ pc = "re-registration" => ~configmap
    /\ pc \in Unpatched => (deploy.overlay => blind \/ ~configmap)

\* Which router runs.  The restart of the cold start asks for a process that is
\* another one than the one that runs, so that a deployment that mounts what is
\* not there does not come to the end of its rollout.
RouterInv ==
    /\ pc \in Forwarded \union {"drain", "restart"} => router = deploy
    /\ pc \in Forwarded \union {"restarting"} =>
           (router = deploy => (deploy.overlay => configmap))

CellInv == TypeInv /\ DeployInv /\ RouterInv

LEMMA CellInitial == CellInit => CellInv
<1>1. Stock \in Deployment
  BY DEF Stock, Deployment, Arms
<1>2. <<"kvaware", NoBeta>> \in Cells
  BY DEF Cells
<1>. QED
  BY <1>1, <1>2 DEF CellInit, CellInv, TypeInv, DeployInv, RouterInv, Upgraded, Unpatched,
                    Configured, Forwarded, Warm
-----------------------------------------------------------------------------
(* The commands that change the deployment.                                *)

\* Of each cell the arm is a policy and beta is one of Betas, or not set.
LEMMA CellOf ==
    ASSUME NEW a, NEW b, <<a, b>> \in Cells
    PROVE  a \in Arms /\ b \in Betas \union {NoBeta} /\ Image(a) \in {"stock", "loadaware"}
  BY DEF Cells, Arms, Image

LEMMA UpgradeStep ==
    ASSUME CellInv, Upgrade
    PROVE  CellInv'
<1>1. deploy' \in Deployment /\ deploy'.image = Image(arm) /\ deploy'.logic = arm
  BY CellOf DEF CellInv, TypeInv, Upgrade, Deployment
<1>. QED
  BY <1>1 DEF CellInv, TypeInv, DeployInv, RouterInv, Upgrade, cell, Upgraded, Unpatched,
              Configured, Forwarded, Warm

LEMMA RevertStep ==
    ASSUME CellInv, Revert
    PROVE  CellInv'
<1>1. /\ deploy' \in Deployment
      /\ deploy'.image = deploy.image /\ deploy'.logic = deploy.logic
  BY DEF CellInv, TypeInv, Revert, Deployment
<1>. QED
  BY <1>1 DEF CellInv, TypeInv, DeployInv, RouterInv, Revert, cell, Upgraded, Unpatched,
              Configured, Forwarded, Warm

LEMMA SetEnvironmentStep ==
    ASSUME CellInv, SetEnvironment
    PROVE  CellInv'
<1>1. /\ deploy' \in Deployment /\ deploy'.beta = beta
      /\ deploy'.image = deploy.image /\ deploy'.logic = deploy.logic
      /\ deploy'.overlay = deploy.overlay
  BY CellOf DEF CellInv, TypeInv, SetEnvironment, Deployment
<1>. QED
  BY <1>1 DEF CellInv, TypeInv, DeployInv, RouterInv, SetEnvironment, cell, Upgraded,
              Unpatched, Configured, Forwarded, Warm

LEMMA RestartRouterStep ==
    ASSUME CellInv, RestartRouter
    PROVE  CellInv'
<1>1. /\ deploy' \in Deployment /\ deploy'.revision # deploy.revision
      /\ deploy'.image = deploy.image /\ deploy'.logic = deploy.logic
      /\ deploy'.beta = deploy.beta /\ deploy'.overlay = deploy.overlay
  BY DEF CellInv, TypeInv, RestartRouter, Deployment
<1>2. router = deploy
  BY DEF CellInv, RouterInv, RestartRouter
<1>. QED
  BY <1>1, <1>2 DEF CellInv, TypeInv, DeployInv, RouterInv, RestartRouter, cell, Upgraded,
                    Unpatched, Configured, Forwarded, Warm

LEMMA ApplyOverlayStep ==
    ASSUME CellInv, ApplyOverlay
    PROVE  CellInv'
<1>1. deploy' \in Deployment
  <2>1. deploy \in Deployment /\ 1 - deploy.revision \in {0, 1}
    BY DEF CellInv, TypeInv, Deployment
  <2>2. deploy' = [deploy EXCEPT !.overlay = TRUE, !.revision = 1 - deploy.revision]
    BY DEF ApplyOverlay
  <2>. QED
    BY <2>1, <2>2 DEF Deployment
<1>. QED
  BY <1>1 DEF CellInv, TypeInv, DeployInv, RouterInv, ApplyOverlay, cell, Upgraded,
              Unpatched, Configured, Forwarded, Warm
-----------------------------------------------------------------------------
(* The others.                                                             *)

LEMMA NextCellStep ==
    ASSUME CellInv, NextCell
    PROVE  CellInv'
<1>1. PICK c \in Cells : arm' = c[1] /\ beta' = c[2]
  BY DEF NextCell
<1>2. c = <<c[1], c[2]>>
  BY DEF Cells
<1>. QED
  BY <1>1, <1>2 DEF CellInv, TypeInv, DeployInv, RouterInv, NextCell, cluster, engines,
              Upgraded, Unpatched, Configured, Forwarded, Warm

\* The commands that ask and wait: each goes on only with what it waited for.
LEMMA WaitStep ==
    ASSUME CellInv,
           \/ OverlayMounted \/ NoOverlay \/ Reverted \/ Settled \/ Drain \/ ScaleUp
           \/ ColdStarted \/ WarmUp \/ Measured \/ Fails
    PROVE  CellInv'
<1>. USE DEF CellInv, TypeInv, DeployInv, RouterInv, cell, cluster, engines, Upgraded,
             Unpatched, Configured, Forwarded, Warm
<1>1. CASE OverlayMounted \/ NoOverlay
  BY <1>1 DEF OverlayMounted, NoOverlay
<1>2. CASE Reverted \/ Settled \/ Drain
  BY <1>2 DEF Reverted, Settled, Drain
<1>3. CASE ScaleUp \/ ColdStarted \/ WarmUp \/ Measured
  BY <1>3 DEF ScaleUp, ColdStarted, WarmUp, Measured
<1>4. CASE Fails
  BY <1>4 DEF Fails
<1>. QED
  BY <1>1, <1>2, <1>3, <1>4

LEMMA ClusterStep ==
    ASSUME CellInv, RouterStarts \/ EnginesScale \/ Register \/ UNCHANGED cellVars
    PROVE  CellInv'
<1>. USE DEF CellInv, TypeInv, DeployInv, RouterInv, Upgraded, Unpatched, Configured,
             Forwarded, Warm
<1>1. CASE RouterStarts
  BY <1>1 DEF RouterStarts, cell, engines
<1>2. CASE EnginesScale \/ Register \/ UNCHANGED cellVars
  BY <1>2 DEF EnginesScale, Register, cellVars, cell, cluster, engines
<1>. QED
  BY <1>1, <1>2

LEMMA CellInductive ==
    ASSUME CellInv, [CellNext]_cellVars
    PROVE  CellInv'
  BY UpgradeStep, RevertStep, SetEnvironmentStep, RestartRouterStep, ApplyOverlayStep,
     NextCellStep, WaitStep, ClusterStep DEF CellNext, Commands

LEMMA CellInvariance == FairCells => []CellInv
  BY CellInitial, CellInductive, PTL DEF FairCells
-----------------------------------------------------------------------------
(* What is measured.                                                       *)

\* Whatever earlier cells, finished or broken off anywhere, and whoever mounted an
\* overlay by hand have left behind, run_cell.sh measures its own policy, image and
\* beta, and an overlay only if the question for it had no answer.
THEOREM Labelled == FairCells => []MeasuredAsLabelled
<1>1. CellInv => MeasuredAsLabelled
  BY DEF CellInv, DeployInv, RouterInv, MeasuredAsLabelled, Unpatched, Upgraded, Configured,
         Forwarded, Warm
<1>. QED
  BY <1>1, CellInvariance, PTL

\* No rollout is left to end once the forward to the router is opened, so the
\* router that is warmed up answers the measured requests.
THEOREM SameRouter == FairCells => WarmedUpIsMeasured
<1>1. ASSUME CellInv, [CellNext]_cellVars, pc \in {"warm-up", "measure"}
      PROVE  router' = router
  <2>1. router = deploy
    BY <1>1 DEF CellInv, RouterInv, Forwarded, Warm
  <2>2. pc # "ended" /\ pc # "restart"
    BY <1>1
  <2>. QED
    BY <1>1, <2>1, <2>2
       DEF CellNext, Commands, cellVars, cell, cluster, engines, NextCell, Upgrade,
           OverlayMounted, NoOverlay, Revert, Reverted, SetEnvironment, Settled, Drain, RestartRouter,
           ScaleUp, ColdStarted, WarmUp, Measured, Fails, ApplyOverlay, RouterStarts,
           EnginesScale, Register
<1>2. CellInv /\ [CellNext]_cellVars =>
          [(pc \in {"warm-up", "measure"}) => (router' = router)]_cellVars
  BY <1>1
<1>. QED
  BY <1>2, CellInvariance, PTL DEF FairCells, WarmedUpIsMeasured
-----------------------------------------------------------------------------
(***************************************************************************)
(* The collection of the measured cell (BenchJob.tla).                     *)
(***************************************************************************)

\* The lines that the pod prints.
Printable ==
    {Progress, AllDone}
        \union {Mark(m, v) : m \in Marks, v \in Nat}
        \union {Begin(s) : s \in Seeds} \union {End(s) : s \in Seeds}
        \union {Base64(s, n) : s \in Seeds, n \in 1..Wraps}

\* The lines that a fetch can leave of the log.
Garbled(s) == Text("base64", s, <<>>)
Readable == Range(log) \union {Progress} \union {Garbled(s) : s \in Seeds}

\* The lines of the results up to and with the frame of s.
Upto(s) == s * (Wraps + 2)

\* Where the results begin in the log of a Job: after NODE, CELL_START, a
\* progress line for each seed, and CELL_END.
Header == LastSeed + 3

\* What the pod has printed follows from how far it is.
LogInv ==
    /\ seed \in 0..LastSeed /\ clock \in Nat /\ printed \in Nat
    /\ log \in Seq(Printable)
    /\ pod \in {"absent", "Pending"} => seed = 0 /\ printed = 0 /\ clock = 0
    /\ pod = "replaying" => Len(log) = seed + 2 /\ printed = 0
    /\ pod \in {"replaying", "emitting", "Complete"} =>
           /\ Len(log) >= seed + 2
           /\ log[1] = Mark("NODE", 0) /\ log[2] = Mark("CELL_START", 0)
           /\ \A n \in 3..(seed + 2) : log[n] = Progress
    /\ pod \in {"emitting", "Complete"} =>
           /\ seed = LastSeed /\ printed <= Len(Results)
           /\ Len(log) = Header + printed
           /\ log[Header] = Mark("CELL_END", clock)
           /\ \A n \in 1..printed : log[Header + n] = Results[n]
    /\ pod = "Complete" => printed = Len(Results)

\* Where the script and the collector are together.
StageInv ==
    /\ collector \in {"idle", "parsing", "writing", "failed", "done"}
    /\ script \in {"polling", "following", "waiting", "fetching", "collecting",
                  "failed", "done"}
    /\ script \in {"fetching", "collecting", "done"} \/ collector # "idle" => pod = "Complete"
    /\ script \in {"polling", "following", "waiting"} => collector = "idle"
    /\ script \in {"fetching", "failed"} => collector \in {"idle", "failed"}
    /\ script = "collecting" => collector # "idle"
    /\ script = "done" => collector = "done"

\* The line at p opened the blob, and what follows it is what was read of it.
Opened(p) ==
    /\ lines[p] = Begin(name)
    /\ body = SubSeq(lines, p + 1, at - 1)

\* What the collector has read is in the lines before the one it is at.
ParseInv ==
    /\ lines \in Seq(Readable)
    /\ at \in 1..(Len(lines) + 1)
    /\ name \in {0} \union Seeds
    /\ name # 0 => want = Csv(name) /\ \E p \in 1..(at - 1) : Opened(p)
    /\ DOMAIN blobs \subseteq Seeds
    /\ \A s \in DOMAIN blobs : blobs[s] = Csv(s) /\ IsIn(Frame(s), lines)
    /\ \A m \in DOMAIN marks : Mark(m, marks[m]) \in Range(log)
    /\ all_done => AllDone \in Range(lines)

\* Only a whole log is written, and of it only what is left is not written yet.
WriteInv ==
    /\ files = [s \in DOMAIN files |-> files[s]] /\ DOMAIN files \subseteq Seeds
    /\ collector = "writing" =>
           /\ Whole /\ left \subseteq Seeds
           /\ \A s \in Seeds \ left : s \in DOMAIN files /\ files[s] = Csv(s)
    /\ collector = "done" =>
           Whole /\ window = marks /\ files = [s \in Seeds |-> Csv(s)]
    /\ window # <<>> => collector = "done"

CollectInv ==
    /\ StageInv
    /\ collector # "idle" => ParseInv
    /\ WriteInv

\* How far the parse of an intact log is: in its head, between the frames of s
\* and of s + 1, inside that of s + 1, or behind the last line.
InHead ==
    /\ at \in 1..Header /\ name = 0 /\ blobs = <<>> /\ ~all_done
    /\ DOMAIN marks = {m \in Marks : \/ m = "NODE" /\ at > 1
                                     \/ m = "CELL_START" /\ at > 2}
    /\ at > 2 => marks["CELL_START"] = 0
Found(s) ==
    /\ DOMAIN blobs = 1..s /\ DOMAIN marks = Marks
    /\ marks["CELL_START"] = 0 /\ marks["CELL_END"] = clock
Between(s) == Found(s) /\ at = Header + Upto(s) + 1 /\ name = 0
Inside(s, k) ==
    /\ Found(s) /\ at = Header + Upto(s) + 2 + k
    /\ name = s + 1 /\ want = Csv(s + 1) /\ body = [n \in 1..k |-> Base64(s + 1, n)]
Behind == Found(LastSeed) /\ at = Header + Upto(LastSeed) + 2 /\ name = 0 /\ all_done

IntactInv ==
    collector = "parsing" /\ lines = log =>
        \/ InHead
        \/ \E s \in 0..LastSeed : Between(s)
        \/ \E s \in 0..(LastSeed - 1), k \in 0..Wraps : Inside(s, k)
        \/ Behind

JobInv == LogInv /\ CollectInv /\ IntactInv
-----------------------------------------------------------------------------
(* The results.                                                            *)

LEMMA Induction ==
    ASSUME NEW S, 0 \in S, \A n \in Nat : n \in S => n + 1 \in S
    PROVE  Nat \subseteq S
<1>. DEFINE R == OpToRel(<, Nat)
            T == Nat \ S
<1>1. SUFFICES ASSUME T # {} PROVE FALSE
  OBVIOUS
<1>2. IsWellFoundedOn(R, Nat)
  BY NatLessThanWellFounded
<1>3. PICK x \in T : \A y \in T : ~ (<<y, x>> \in R)
  <2>1. T \subseteq Nat
    OBVIOUS
  <2>. HIDE DEF R, T
  <2>. QED
    BY <1>1, <1>2, <2>1, WFMin
<1>4. x # 0 /\ x - 1 \in Nat /\ x - 1 \notin S
  OBVIOUS
<1>5. <<x - 1, x>> \in R
  BY <1>4 DEF OpToRel
<1>. QED
  BY <1>3, <1>4, <1>5

LEMMA UptoProperties ==
    /\ Upto(0) = 0
    /\ \A s \in Nat : Upto(s) \in Nat /\ Upto(s + 1) = Upto(s) + Wraps + 2
    /\ \A s \in 1..LastSeed : Upto(s - 1) + Wraps + 2 <= Upto(LastSeed)
<1>. DEFINE F == Wraps + 2
<1>1. F \in Nat /\ LastSeed \in Nat
  BY InPodAssumption
<1>. HIDE DEF F
<1>2. /\ 0 * F = 0
      /\ \A s \in Nat : s * F \in Nat /\ (s + 1) * F = s * F + F
  BY <1>1
<1>3. ASSUME NEW s \in 1..LastSeed
      PROVE  (s - 1) * F + F <= LastSeed * F
  <2>. DEFINE d == LastSeed - s
  <2>1. d \in Nat /\ s \in Nat /\ LastSeed = s + d
    BY <1>1
  <2>. HIDE DEF d
  <2>2. (s + d) * F = s * F + d * F /\ d * F >= 0 /\ (s - 1) * F = s * F - F
    BY <1>1, <2>1
  <2>3. s * F \in Nat /\ d * F \in Nat
    BY <1>1, <2>1
  <2>. QED
    BY <1>1, <2>1, <2>2, <2>3
<1>4. Wraps + 2 = F /\ \A s : Upto(s) = s * F
  BY DEF Upto, F
<1>5. \A s \in Nat : s + 1 \in Nat /\ s * F + F = s * F + Wraps + 2
  BY <1>1, <1>2, <1>4, InPodAssumption
<1>6. \A s \in 1..LastSeed : (s - 1) * F + Wraps + 2 = (s - 1) * F + F
  <2>1. \A s \in 1..LastSeed : s - 1 \in Nat
    BY <1>1
  <2>. QED
    BY <1>5, <2>1
<1>7. Upto(0) = 0
  BY <1>2, <1>4
<1>8. ASSUME NEW s \in Nat
      PROVE  Upto(s) \in Nat /\ Upto(s + 1) = Upto(s) + Wraps + 2
  <2>1. Upto(s) = s * F /\ Upto(s + 1) = (s + 1) * F
    BY <1>4
  <2>. QED
    BY <1>2, <1>5, <2>1
<1>9. ASSUME NEW s \in 1..LastSeed
      PROVE  Upto(s - 1) + Wraps + 2 <= Upto(LastSeed)
  <2>1. Upto(s - 1) = (s - 1) * F /\ Upto(LastSeed) = LastSeed * F
    BY <1>4
  <2>. QED
    BY <1>3, <1>6, <2>1
<1>. QED
  BY <1>7, <1>8, <1>9

\* A frame: its BEGIN, the lines of the CSV, its END.
LEMMA FrameShape ==
    ASSUME NEW s \in Seeds
    PROVE  /\ Frame(s) \in Seq(Printable) /\ Len(Frame(s)) = Wraps + 2
           /\ Frame(s)[1] = Begin(s)
           /\ \A n \in 1..Wraps : Frame(s)[n + 1] = Base64(s, n)
           /\ Frame(s)[Wraps + 2] = End(s)
<1>1. Begin(s) \in Printable /\ End(s) \in Printable
      /\ \A n \in 1..Wraps : Base64(s, n) \in Printable
  BY DEF Printable
<1>2. Wraps \in Nat
  BY InPodAssumption
<1>. DEFINE b == <<Begin(s)>>
            c == Csv(s)
            e == <<End(s)>>
<1>3. /\ b \in Seq(Printable) /\ Len(b) = 1 /\ b[1] = Begin(s)
      /\ e \in Seq(Printable) /\ Len(e) = 1 /\ e[1] = End(s)
  BY <1>1
<1>4. /\ c \in Seq(Printable) /\ Len(c) = Wraps
      /\ \A n \in 1..Wraps : c[n] = Base64(s, n)
  BY <1>1, <1>2 DEF Csv
<1>. HIDE DEF b, c, e
<1>5. /\ b \o c \in Seq(Printable) /\ Len(b \o c) = Wraps + 1
      /\ (b \o c)[1] = Begin(s)
      /\ \A n \in 1..Wraps : (b \o c)[n + 1] = Base64(s, n)
  <2>1. /\ b \o c \in Seq(Printable) /\ Len(b \o c) = Len(b) + Len(c)
        /\ \A n \in 1..(Len(b) + Len(c)) :
               (b \o c)[n] = IF n <= Len(b) THEN b[n] ELSE c[n - Len(b)]
    BY <1>3, <1>4, ConcatProperties
  <2>. DEFINE f == b \o c
  <2>. HIDE DEF f
  <2>2. /\ f \in Seq(Printable) /\ Len(f) = 1 + Wraps
        /\ \A n \in 1..(1 + Wraps) : f[n] = IF n <= 1 THEN b[n] ELSE c[n - 1]
    BY <2>1, <1>3, <1>4 DEF f
  <2>3. f[1] = Begin(s)
    BY <1>2, <1>3, <2>2
  <2>4. \A n \in 1..Wraps : n + 1 \in 1..(1 + Wraps) /\ ~(n + 1 <= 1) /\ (n + 1) - 1 = n
    BY <1>2
  <2>5. \A n \in 1..Wraps : f[n + 1] = Base64(s, n)
    BY <1>4, <2>2, <2>4
  <2>. QED
    BY <1>2, <2>2, <2>3, <2>5 DEF f
<1>6. /\ (b \o c) \o e \in Seq(Printable) /\ Len((b \o c) \o e) = Wraps + 2
      /\ ((b \o c) \o e)[1] = Begin(s)
      /\ \A n \in 1..Wraps : ((b \o c) \o e)[n + 1] = Base64(s, n)
      /\ ((b \o c) \o e)[Wraps + 2] = End(s)
  <2>. DEFINE f == b \o c
  <2>. HIDE DEF f
  <2>1. /\ f \in Seq(Printable) /\ Len(f) = Wraps + 1
        /\ f[1] = Begin(s)
        /\ \A n \in 1..Wraps : f[n + 1] = Base64(s, n)
    BY <1>5 DEF f
  <2>2. /\ f \o e \in Seq(Printable) /\ Len(f \o e) = Wraps + 2
        /\ \A n \in 1..(Wraps + 2) : (f \o e)[n] =
                IF n <= Wraps + 1 THEN f[n] ELSE e[n - (Wraps + 1)]
    <3>1. /\ f \o e \in Seq(Printable) /\ Len(f \o e) = Len(f) + Len(e)
          /\ \A n \in 1..(Len(f) + Len(e)) :
                 (f \o e)[n] = IF n <= Len(f) THEN f[n] ELSE e[n - Len(f)]
      BY <1>3, <2>1, ConcatProperties
    <3>2. Len(f) + Len(e) = Wraps + 2
      BY <1>2, <1>3, <2>1
    <3>. QED
      BY <2>1, <3>1, <3>2
  <2>3. \A n \in 1..Wraps : n + 1 \in 1..(Wraps + 2) /\ n + 1 <= Wraps + 1
    BY <1>2
  <2>4. /\ f \o e \in Seq(Printable) /\ Len(f \o e) = Wraps + 2
        /\ (f \o e)[1] = Begin(s)
        /\ \A n \in 1..Wraps : (f \o e)[n + 1] = Base64(s, n)
        /\ (f \o e)[Wraps + 2] = End(s)
    BY <1>2, <1>3, <2>1, <2>2, <2>3
  <2>. QED
    BY <2>4 DEF f
<1>. QED
  BY <1>6 DEF Frame, b, c, e

\* The frames of the first n seeds, as Results accumulates them.
FramesOf(f, n) ==
    f = [s \in {0} \union 1..n |-> IF s = 0 THEN <<>> ELSE f[s-1] \o Frame(s)]

LEMMA FramesExist ==
    \E f : FramesOf(f, LastSeed)
<1>. DEFINE Good == {n \in Nat : \E f : FramesOf(f, n)}
            T(f, s) == IF s = 0 THEN <<>> ELSE f[s-1] \o Frame(s)
<1>1. 0 \in Good
  <2>. DEFINE f == [s \in {0} \union 1..0 |-> <<>>]
  <2>1. f = [s \in {0} \union 1..0 |-> T(f, s)]
    OBVIOUS
  <2>. QED
    BY <2>1 DEF FramesOf
<1>2. ASSUME NEW n \in Nat, n \in Good
      PROVE  n + 1 \in Good
  <2>1. PICK f : FramesOf(f, n)
    BY <1>2
  <2>. DEFINE g == [s \in {0} \union 1..(n+1) |-> IF s <= n THEN f[s] ELSE T(f, n+1)]
  <2>2. ASSUME NEW s \in {0} \union 1..(n+1) PROVE g[s] = T(g, s)
    <3>1. \A r \in {0} \union 1..n : g[r] = f[r]
      OBVIOUS
    <3>2. T(g, s) = T(f, s)
      <4>. HIDE DEF g
      <4>. QED
        BY <3>1
    <3>3. CASE s <= n
      <4>0. s \in {0} \union 1..n
        BY <3>3
      <4>1. f[s] = T(f, s)
        BY <2>1, <4>0 DEF FramesOf
      <4>. HIDE DEF T
      <4>. QED
        BY <3>2, <3>3, <4>1
    <3>4. CASE s = n + 1
      <4>1. g[s] = T(f, n+1)
        <5>. HIDE DEF T
        <5>. QED
          BY <3>4
      <4>. HIDE DEF T, g
      <4>. QED
        BY <3>2, <3>4, <4>1
    <3>. QED
      BY <3>3, <3>4
  <2>3. FramesOf(g, n+1)
    <3>. HIDE DEF T
    <3>1. g = [s \in {0} \union 1..(n+1) |-> T(g, s)]
      <4>1. g = [s \in {0} \union 1..(n+1) |-> g[s]]
        OBVIOUS
      <4>. HIDE DEF g
      <4>. QED
        BY <2>2, <4>1
    <3>. QED
      BY <3>1 DEF FramesOf, T
  <2>. QED
    BY <2>3
<1>. HIDE DEF Good
<1>3. LastSeed \in Good
  BY <1>1, <1>2, Induction, InPodAssumption
<1>. QED
  BY <1>3 DEF Good

\* The lines k of the frame of s in the first n frames.
Placed(r, n) ==
    /\ r \in Seq(Printable) /\ Len(r) = Upto(n)
    /\ \A s \in 1..n, k \in 1..(Wraps + 2) :
           /\ Upto(s - 1) + k \in 1..Upto(n)
           /\ r[Upto(s - 1) + k] = Frame(s)[k]

LEMMA FramesPlaced ==
    ASSUME NEW f, FramesOf(f, LastSeed)
    PROVE  Placed(f[LastSeed], LastSeed)
<1>. DEFINE Good == {n \in Nat : n <= LastSeed => Placed(f[n], n)}
<1>1. 0 \in Good
  <2>1. f[0] = <<>>
    BY DEF FramesOf
  <2>. QED
    <3>1. <<>> \in Seq(Printable) /\ Len(<<>>) = 0 /\ 1..0 = {}
      BY EmptySeq
    <3>2. Placed(<<>>, 0)
      BY <3>1, UptoProperties DEF Placed
    <3>. QED
      BY <2>1, <3>2
<1>2. ASSUME NEW n \in Nat, n \in Good
      PROVE  n + 1 \in Good
  <2>. SUFFICES ASSUME n + 1 <= LastSeed PROVE Placed(f[n+1], n+1)
    OBVIOUS
  <2>1. f[n+1] = f[n] \o Frame(n+1)
    <3>1. n + 1 \in {0} \union 1..LastSeed /\ n + 1 # 0 /\ (n + 1) - 1 = n
      BY InPodAssumption
    <3>2. f[n+1] = f[(n+1)-1] \o Frame(n+1)
      BY <3>1 DEF FramesOf
    <3>. QED
      BY <3>1, <3>2
  <2>2. Placed(f[n], n)
    BY <1>2, InPodAssumption
  <2>3. n + 1 \in Seeds
    BY InPodAssumption DEF Seeds
  <2>. DEFINE p == f[n]
              q == Frame(n+1)
              U == Upto(n)
              W == Wraps + 2
  <2>4. U \in Nat /\ W \in Nat /\ Upto(n+1) = U + W
    <3>1. U \in Nat /\ Upto(n+1) = U + Wraps + 2
      BY UptoProperties
    <3>. QED
      BY <3>1, InPodAssumption
  <2>5. p \in Seq(Printable) /\ Len(p) = U /\ q \in Seq(Printable) /\ Len(q) = W
    BY <2>2, <2>3, FrameShape DEF Placed
  <2>6. /\ p \o q \in Seq(Printable) /\ Len(p \o q) = U + W
        /\ \A i \in 1..(U + W) : (p \o q)[i] = IF i <= U THEN p[i] ELSE q[i - U]
    <3>. HIDE DEF p, q, U, W
    <3>. QED
      BY <2>5, ConcatProperties
  <2>7. ASSUME NEW s \in 1..(n+1), NEW k \in 1..W
        PROVE  /\ Upto(s - 1) + k \in 1..(U + W)
               /\ (p \o q)[Upto(s - 1) + k] = Frame(s)[k]
    <3>1. CASE s <= n
      <4>1. Upto(s - 1) + k \in 1..U /\ p[Upto(s - 1) + k] = Frame(s)[k]
        BY <2>2, <3>1 DEF Placed
      <4>. DEFINE i == Upto(s - 1) + k
      <4>. HIDE DEF p, q, U, W, i
      <4>2. i \in 1..U /\ p[i] = Frame(s)[k]
        BY <4>1 DEF i
      <4>3. i \in 1..(U + W) /\ (p \o q)[i] = Frame(s)[k]
        BY <4>2, <2>4, <2>6
      <4>. QED
        BY <4>3 DEF i
    <3>2. CASE s = n + 1
      <4>1. s - 1 = n
        BY <3>2
      <4>2. Upto(s - 1) = U /\ Frame(s) = q
        BY <3>2, <4>1
      <4>. HIDE DEF p, q, U, W
      <4>3. U + k \in 1..(U + W) /\ ~(U + k <= U) /\ (U + k) - U = k
        BY <2>4
      <4>4. (p \o q)[U + k] = q[k]
        BY <4>3, <2>6
      <4>. QED
        BY <4>2, <4>3, <4>4
    <3>3. s <= n \/ s = n + 1
      OBVIOUS
    <3>. HIDE DEF p, q, U, W
    <3>. QED
      BY <3>1, <3>2, <3>3
  <2>. QED
    BY <2>1, <2>4, <2>6, <2>7 DEF Placed
<1>. HIDE DEF Good
<1>3. LastSeed \in Good
  BY <1>1, <1>2, Induction, InPodAssumption
<1>. QED
  BY <1>3, InPodAssumption DEF Good

\* The frames of all seeds in their order, and then ALL_DONE.
LEMMA ResultsShape ==
    /\ Results \in Seq(Printable) /\ Len(Results) = Upto(LastSeed) + 1
    /\ Results[Upto(LastSeed) + 1] = AllDone
    /\ \A s \in 1..LastSeed, k \in 1..(Wraps + 2) :
           /\ Upto(s - 1) + k \in 1..Upto(LastSeed)
           /\ Results[Upto(s - 1) + k] = Frame(s)[k]
<1>. DEFINE f == CHOOSE g : FramesOf(g, LastSeed)
            r == f[LastSeed]
            N == Upto(LastSeed)
<1>1. FramesOf(f, LastSeed)
  BY FramesExist
<1>2. Results = Append(r, AllDone)
  BY DEF Results, FramesOf, Seeds
<1>. HIDE DEF f
<1>3. Placed(r, LastSeed)
  BY <1>1, FramesPlaced
<1>4. r \in Seq(Printable) /\ Len(r) = N /\ N \in Nat /\ AllDone \in Printable
  BY <1>3, UptoProperties, InPodAssumption DEF Placed, Printable
<1>. HIDE DEF r
<1>5. /\ Append(r, AllDone) \in Seq(Printable) /\ Len(Append(r, AllDone)) = N + 1
      /\ Append(r, AllDone)[N + 1] = AllDone
      /\ \A i \in 1..N : Append(r, AllDone)[i] = r[i]
  <2>. HIDE DEF N
  <2>. QED
    BY <1>4, AppendProperties
<1>. QED
  BY <1>2, <1>3, <1>5 DEF Placed
-----------------------------------------------------------------------------
(* The pod.                                                                *)

LEMMA LogStep ==
    ASSUME LogInv, Pod
    PROVE  LogInv' /\ pod # "Complete"
<1>1. /\ seed \in 0..LastSeed /\ clock \in Nat /\ printed \in Nat
      /\ log \in Seq(Printable) /\ LastSeed \in Nat
  BY InPodAssumption DEF LogInv
<1>2. ASSUME NEW l \in Printable, log' = Append(log, l)
      PROVE  /\ log' \in Seq(Printable) /\ Len(log') = Len(log) + 1 /\ Len(log) \in Nat
             /\ log'[Len(log) + 1] = l
             /\ \A n \in 1..Len(log) : log'[n] = log[n]
  BY <1>1, <1>2, AppendProperties, LenProperties
<1>3. CASE PodCreated
  BY <1>3 DEF PodCreated, LogInv
<1>4. CASE StartCell
  <2>1. seed = 0 /\ clock = 0 /\ printed = 0
    BY <1>4 DEF StartCell, LogInv
  <2>. DEFINE x == Mark("NODE", 0)
              y == Mark("CELL_START", 0)
  <2>2. x \in Printable /\ y \in Printable
    BY DEF Printable, Marks
  <2>3. log' = <<x, y>>
    BY <1>4, <2>1 DEF StartCell
  <2>4. log' \in Seq(Printable) /\ Len(log') = 2 /\ log'[1] = x /\ log'[2] = y
    <3>. HIDE DEF x, y
    <3>. QED
      BY <2>2, <2>3
  <2>. QED
    BY <1>1, <1>4, <2>1, <2>4 DEF StartCell, LogInv
<1>5. CASE Replay
  <2>1. log' = Append(log, Progress) /\ Progress \in Printable
    BY <1>5 DEF Replay, Printable
  <2>2. /\ pod = "replaying" /\ pod' = "replaying"
        /\ seed' = seed + 1 /\ seed' \in 0..LastSeed /\ printed' = 0
        /\ clock' \in Nat
    BY <1>1, <1>5 DEF Replay, LogInv, Seeds
  <2>3. /\ Len(log) = seed + 2
        /\ log[1] = Mark("NODE", 0) /\ log[2] = Mark("CELL_START", 0)
        /\ \A n \in 3..(seed + 2) : log[n] = Progress
    BY <2>2 DEF LogInv
  <2>4. /\ log' \in Seq(Printable) /\ Len(log') = seed' + 2
        /\ log'[seed' + 2] = Progress
        /\ \A n \in 1..(seed + 2) : log'[n] = log[n]
    BY <1>1, <1>2, <2>1, <2>2, <2>3
  <2>5. log'[1] = Mark("NODE", 0) /\ log'[2] = Mark("CELL_START", 0)
    BY <1>1, <2>3, <2>4
  <2>6. \A n \in 3..(seed' + 2) : log'[n] = Progress
    BY <1>1, <2>2, <2>3, <2>4
  <2>. QED
    BY <1>1, <2>2, <2>4, <2>5, <2>6 DEF LogInv
<1>6. CASE EndCell
  <2>. DEFINE e == Mark("CELL_END", clock)
  <2>1. log' = Append(log, e) /\ e \in Printable
    BY <1>1, <1>6 DEF EndCell, Printable, Marks
  <2>2. /\ pod = "replaying" /\ pod' = "emitting"
        /\ seed' = seed /\ seed = LastSeed /\ printed' = 0 /\ clock' = clock
    BY <1>1, <1>6 DEF EndCell, LogInv, Seeds
  <2>3. /\ Len(log) = seed + 2
        /\ log[1] = Mark("NODE", 0) /\ log[2] = Mark("CELL_START", 0)
        /\ \A n \in 3..(seed + 2) : log[n] = Progress
    BY <2>2 DEF LogInv
  <2>. HIDE DEF e
  <2>4. /\ log' \in Seq(Printable) /\ Len(log') = Header
        /\ log'[Header] = e
        /\ \A n \in 1..(seed + 2) : log'[n] = log[n]
    BY <1>1, <1>2, <2>1, <2>2, <2>3 DEF Header
  <2>5. /\ log'[1] = Mark("NODE", 0) /\ log'[2] = Mark("CELL_START", 0)
        /\ \A n \in 3..(seed + 2) : log'[n] = Progress
    BY <1>1, <2>3, <2>4
  <2>6. Header \in Nat /\ Header >= seed + 2 /\ Len(Results) \in Nat
    BY <1>1, <2>2, ResultsShape, LenProperties DEF Header
  <2>7. /\ printed' <= Len(Results)
        /\ Len(log') = Header + printed'
        /\ \A n \in 1..printed' : log'[Header + n] = Results[n]
    BY <2>2, <2>4, <2>6
  <2>8. log'[Header] = Mark("CELL_END", clock')
    BY <2>2, <2>4 DEF e
  <2>. QED
    BY <1>1, <2>2, <2>4, <2>5, <2>6, <2>7, <2>8 DEF LogInv
<1>7. CASE Emit
  <2>1. /\ pod = "emitting" /\ pod' = "emitting" /\ clock' = clock
        /\ seed' = seed /\ seed = LastSeed /\ printed' = printed + 1
        /\ printed < Len(Results) /\ log' = Append(log, Results[printed'])
    BY <1>7 DEF Emit, LogInv
  <2>2. Results \in Seq(Printable) /\ Len(Results) \in Nat
    BY ResultsShape, LenProperties
  <2>3. Results[printed'] \in Printable
    <3>1. printed' \in 1..Len(Results)
      BY <1>1, <2>1, <2>2
    <3>. QED
      BY <2>2, <3>1, ElementOfSeq
  <2>4. /\ Len(log) >= seed + 2 /\ Len(log) = Header + printed
        /\ log[1] = Mark("NODE", 0) /\ log[2] = Mark("CELL_START", 0)
        /\ \A n \in 3..(seed + 2) : log[n] = Progress
        /\ log[Header] = Mark("CELL_END", clock)
        /\ \A n \in 1..printed : log[Header + n] = Results[n]
    BY <2>1 DEF LogInv
  <2>5. Header \in Nat /\ Header = seed + 3
    BY <1>1, <2>1 DEF Header
  <2>6. /\ log' \in Seq(Printable) /\ Len(log') = Header + printed'
        /\ log'[Header + printed'] = Results[printed']
        /\ \A n \in 1..(Header + printed) : log'[n] = log[n]
    <3>1. log \in Seq(Printable) /\ log' = Append(log, Results[printed'])
      BY <1>1, <1>2, <2>1
    <3>2. printed \in Nat /\ Header + printed' = Len(log) + 1
      BY <1>1, <2>1, <2>4, <2>5
    <3>. QED
      BY <2>3, <2>4, <2>5, <3>1, <3>2, AppendProperties
  <2>7. /\ log'[1] = Mark("NODE", 0) /\ log'[2] = Mark("CELL_START", 0)
        /\ \A n \in 3..(seed + 2) : log'[n] = Progress
        /\ log'[Header] = Mark("CELL_END", clock)
    BY <1>1, <2>4, <2>5, <2>6
  <2>8. \A n \in 1..printed' : log'[Header + n] = Results[n]
    <3>1. \A n \in 1..printed : Header + n \in 1..(Header + printed)
      BY <1>1, <2>5
    <3>2. \A n \in 1..printed' : n \in 1..printed \/ n = printed'
      BY <1>1, <2>1
    <3>. QED
      BY <2>4, <2>6, <3>1, <3>2
  <2>9. Len(log') >= seed' + 2 /\ printed' \in Nat /\ printed' <= Len(Results)
    BY <1>1, <2>1, <2>2, <2>5, <2>6
  <2>. QED
    BY <1>1, <2>1, <2>6, <2>7, <2>8, <2>9 DEF LogInv
<1>8. CASE Exit
  BY <1>8 DEF Exit, LogInv
<1>9. CASE PodFails
  BY <1>9 DEF PodFails, PodLives, LogInv
<1>. QED
  BY <1>3, <1>4, <1>5, <1>6, <1>7, <1>8, <1>9
     DEF Pod, PodCreated, StartCell, Replay, EndCell, Emit, Exit

LEMMA LogFrame ==
    ASSUME LogInv, UNCHANGED podVars
    PROVE  LogInv'
  BY DEF LogInv, podVars
-----------------------------------------------------------------------------
(* The lines that are read.                                                *)

\* What a line says follows from its kind, in a log that was damaged too.
LEMMA WhatIsRead ==
    ASSUME LogInv, NEW l \in Readable
    PROVE  /\ l \in Printable \union {Garbled(s) : s \in Seeds}
           /\ l.kind = "BEGIN" => l.of \in Seeds /\ l = Begin(l.of) /\ l.value = Csv(l.of)
           /\ l.kind = "END" => l.of \in Seeds /\ l = End(l.of)
           /\ l.kind = "ALL_DONE" => l = AllDone
           /\ l.kind \in Marks => l \in Range(log) /\ l = Mark(l.kind, l.value[1])
<1>1. l \in Range(log) \/ l = Progress \/ \E s \in Seeds : l = Garbled(s)
  BY DEF Readable
<1>2. CASE l \in Range(log)
  <2>1. l \in Printable
    BY <1>2, RangeOfSeq DEF LogInv
  <2>2. CASE l = Progress
    BY <1>2, <2>1, <2>2 DEF Progress, Text, Marks
  <2>3. CASE l = AllDone
    BY <1>2, <2>1, <2>3 DEF AllDone, Text, Marks
  <2>4. ASSUME NEW m \in Marks, NEW v \in Nat, l = Mark(m, v)
        PROVE  l.kind = m /\ l.value[1] = v
    <3>1. l.kind = m /\ l.value = <<v>>
      BY <2>4 DEF Mark, Text
    <3>. QED
      BY <3>1
  <2>5. ASSUME NEW m \in Marks, NEW v \in Nat, l = Mark(m, v)
        PROVE  l.kind \notin {"BEGIN", "END", "ALL_DONE"} /\ l = Mark(l.kind, l.value[1])
    BY <2>4, <2>5 DEF Marks
  <2>6. ASSUME NEW s \in Seeds, l = Begin(s)
        PROVE  l.kind = "BEGIN" /\ l.of = s /\ l.value = Csv(s)
    BY <2>6 DEF Begin, Text
  <2>7. ASSUME NEW s \in Seeds, l = End(s)
        PROVE  l.kind = "END" /\ l.of = s
    BY <2>7 DEF End, Text
  <2>8. ASSUME NEW s \in Seeds, NEW n \in 1..Wraps, l = Base64(s, n)
        PROVE  l.kind = "base64"
    BY <2>8 DEF Base64, Text
  <2>9. \/ l = Progress \/ l = AllDone
        \/ \E m \in Marks, v \in Nat : l = Mark(m, v)
        \/ \E s \in Seeds : l = Begin(s) \/ l = End(s)
        \/ \E s \in Seeds, n \in 1..Wraps : l = Base64(s, n)
    BY <2>1 DEF Printable
  <2>10. "BEGIN" \notin Marks /\ "END" \notin Marks /\ "base64" \notin Marks
    BY DEF Marks
  <2>. QED
    BY <1>2, <2>1, <2>2, <2>3, <2>5, <2>6, <2>7, <2>8, <2>9, <2>10
<1>3. CASE l = Progress
  BY <1>3 DEF Progress, Text, Marks, Printable
<1>4. CASE \E s \in Seeds : l = Garbled(s)
  BY <1>4 DEF Garbled, Text, Marks
<1>. QED
  BY <1>1, <1>2, <1>3, <1>4

LEMMA LogIsReadable ==
    ASSUME LogInv
    PROVE  log \in Seq(Readable) /\ Len(log) \in Nat
<1>1. log \in Seq(Range(log)) /\ Len(log) \in Nat
  BY SeqOfRange, LenProperties DEF LogInv
<1>. QED
  BY <1>1, SeqMonotonic DEF Readable

\* Other base64 is a line that can be read, though the pod does not print it.
LEMMA GarbledLine ==
    ASSUME LogInv, NEW l \in Range(log), l.kind = "base64"
    PROVE  [l EXCEPT !.value = <<>>] \in Readable
<1>1. l \in Readable
  BY DEF Readable
<1>2. l \in Printable
  BY RangeOfSeq DEF LogInv
<1>3. PICK s \in Seeds, n \in 1..Wraps : l = Base64(s, n)
  <2>1. l # Progress /\ l # AllDone
    BY DEF Progress, AllDone, Text
  <2>2. \A m \in Marks, v \in Nat : l # Mark(m, v)
    BY DEF Marks, Mark, Text
  <2>3. \A s \in Seeds : l # Begin(s) /\ l # End(s)
    BY DEF Begin, End, Text
  <2>. QED
    BY <1>2, <2>1, <2>2, <2>3 DEF Printable
<1>4. [l EXCEPT !.value = <<>>] = Garbled(s)
  BY <1>3 DEF Base64, Garbled, Text
<1>. QED
  BY <1>4 DEF Readable

\* A fetch leaves lines that can be read, and the collector begins anew.
LEMMA FetchReads ==
    ASSUME LogInv, CollectDamaged, UNCHANGED podVars
    PROVE  /\ ParseInv' /\ collector' = "parsing" /\ UNCHANGED <<left, files, window>>
           /\ at' = 1 /\ name' = 0 /\ marks' = <<>> /\ blobs' = <<>> /\ ~all_done'
<1>. DEFINE N == Len(log)
<1>1. /\ log \in Seq(Readable) /\ N \in Nat /\ Progress \in Readable
      /\ \A n \in 1..N : log[n] \in Readable /\ log[n] \in Range(log)
      /\ DOMAIN log = 1..N
  BY LogIsReadable, ElementOfSeq, LenProperties DEF Readable, Range
<1>2. ASSUME NEW i \in 1..(N+1), NEW j \in 0..N
      PROVE  SubSeq(log, i, j) \in Seq(Readable)
  <2>1. \A k \in i..j : k \in 1..N
    BY <1>1
  <2>2. \A k \in i..j : log[k] \in Readable
    BY <1>1, <2>1
  <2>3. i \in Int /\ j \in Int
    BY <1>1
  <2>. QED
    BY <2>2, <2>3, SubSeqProperties
<1>3. ASSUME NEW n \in 1..N, NEW e \in Readable
      PROVE  /\ [log EXCEPT ![n] = e] \in Seq(Readable)
             /\ Len([log EXCEPT ![n] = e]) = N
  BY <1>1, ExceptSeq
<1>4. ASSUME NEW n \in 1..N
      PROVE  /\ RemoveAt(log, n) \in Seq(Readable)
             /\ InsertAt(log, n, log[n]) \in Seq(Readable)
  <2>1. n - 1 \in 0..N /\ n + 1 \in 1..(N+1) /\ N \in 0..N /\ 1 \in 1..(N+1) /\ n \in 1..(N+1)
    BY <1>1
  <2>. DEFINE a == SubSeq(log, 1, n - 1)
              b == SubSeq(log, n + 1, N)
              c == SubSeq(log, n, N)
              d == <<log[n]>>
  <2>2. a \in Seq(Readable) /\ b \in Seq(Readable) /\ c \in Seq(Readable)
    BY <1>2, <2>1
  <2>3. d \in Seq(Readable)
    BY <1>1
  <2>4. /\ RemoveAt(log, n) = a \o b
        /\ InsertAt(log, n, log[n]) = (a \o d) \o c
    BY DEF RemoveAt, InsertAt
  <2>. HIDE DEF a, b, c, d
  <2>5. a \o b \in Seq(Readable) /\ a \o d \in Seq(Readable)
    BY <2>2, <2>3, ConcatProperties
  <2>6. (a \o d) \o c \in Seq(Readable)
    BY <2>2, <2>5, ConcatProperties
  <2>. QED
    BY <2>4, <2>5, <2>6
<1>5. PICK l : Collect(l) /\ l \in Seq(Readable)
  <2>1. ASSUME NEW n \in 1..N, Collect(SubSeq(log, n, N))
        PROVE  \E l : Collect(l) /\ l \in Seq(Readable)
    <3>1. SubSeq(log, n, N) \in Seq(Readable)
      BY <1>1, <1>2
    <3>. QED
      BY <2>1, <3>1
  <2>2. ASSUME NEW n \in 0..(N-1), Collect(SubSeq(log, 1, n))
        PROVE  \E l : Collect(l) /\ l \in Seq(Readable)
    <3>1. SubSeq(log, 1, n) \in Seq(Readable)
      BY <1>1, <1>2
    <3>. QED
      BY <2>2, <3>1
  <2>3. ASSUME NEW n \in 1..N,
               \/ Collect(RemoveAt(log, n))
               \/ Collect(InsertAt(log, n, log[n]))
               \/ Collect([log EXCEPT ![n] = Progress])
        PROVE  \E l : Collect(l) /\ l \in Seq(Readable)
    BY <1>1, <1>3, <1>4, <2>3
  <2>4. ASSUME NEW n \in 1..N, log[n].kind = "base64",
               Collect([log EXCEPT ![n].value = <<>>])
        PROVE  \E l : Collect(l) /\ l \in Seq(Readable)
    <3>. DEFINE e == [log[n] EXCEPT !.value = <<>>]
    <3>1. e \in Readable
      BY <1>1, <2>4, GarbledLine
    <3>2. [log EXCEPT ![n].value = <<>>] = [log EXCEPT ![n] = e]
      OBVIOUS
    <3>3. Collect([log EXCEPT ![n] = e])
      BY <2>4, <3>2
    <3>. HIDE DEF e
    <3>. QED
      BY <1>3, <3>1, <3>3
  <2>5. ASSUME NEW n \in 1..N, n < N,
               Collect([log EXCEPT ![n] = log[n+1], ![n+1] = log[n]])
        PROVE  \E l : Collect(l) /\ l \in Seq(Readable)
    <3>. DEFINE m == n + 1
                g == [log EXCEPT ![n] = log[m]]
    <3>1. m \in 1..N
      BY <1>1, <2>5
    <3>2. g \in Seq(Readable) /\ Len(g) = N
      BY <1>1, <1>3, <3>1
    <3>3. [g EXCEPT ![m] = log[n]] \in Seq(Readable)
      <4>. HIDE DEF g, m
      <4>. QED
        BY <1>1, <3>1, <3>2, ExceptSeq
    <3>4. Collect([g EXCEPT ![m] = log[n]])
      BY <2>5
    <3>. QED
      BY <3>3, <3>4
  <2>. QED
    BY <2>1, <2>2, <2>3, <2>4, <2>5 DEF CollectDamaged
<1>6. /\ lines' = l /\ at' = 1 /\ name' = 0 /\ blobs' = <<>> /\ marks' = <<>> /\ ~all_done'
      /\ collector' = "parsing" /\ UNCHANGED <<left, files, window>>
  BY <1>5 DEF Collect, outVars
<1>7. lines' \in Seq(Readable)' /\ Len(lines') \in Nat
  BY <1>5, <1>6, LenProperties DEF Readable, podVars
<1>8. DOMAIN blobs' = {} /\ DOMAIN marks' = {}
  BY <1>6
<1>. QED
  BY <1>6, <1>7, <1>8 DEF ParseInv
-----------------------------------------------------------------------------
(* The parse.                                                              *)

LEMMA LineIsReadable ==
    ASSUME LogInv, ParseInv, MoreLines
    PROVE  /\ Line \in Readable /\ at \in 1..Len(lines) /\ Len(lines) \in Nat
           /\ Line \in Range(lines)
<1>1. Len(lines) \in Nat /\ DOMAIN lines = 1..Len(lines) /\ at \in 1..Len(lines)
  BY LenProperties DEF ParseInv, MoreLines
<1>. QED
  BY <1>1, ElementOfSeq DEF ParseInv, Line, Range

\* A blob that decodes is the frame that its BEGIN opened and this END closes.
LEMMA FrameIsRead ==
    ASSUME LogInv, ParseInv, MoreLines, name # 0,
           Line = End(name), body = want
    PROVE  IsIn(Frame(name), lines)
<1>1. Line \in Readable /\ at \in 1..Len(lines) /\ Len(lines) \in Nat
  BY LineIsReadable
<1>2. PICK p \in 1..(at - 1) : Opened(p)
  BY DEF ParseInv
<1>3. name \in Seeds /\ lines \in Seq(Readable) /\ body = Csv(name)
  BY DEF ParseInv
<1>4. p \in Nat /\ Wraps \in Nat
  BY <1>1, <1>2, InPodAssumption
<1>. DEFINE S == Readable \union Printable
            f == Frame(name)
            g == SubSeq(lines, p, at)
            b == SubSeq(lines, p + 1, at - 1)
<1>5. /\ f \in Seq(Printable) /\ Len(f) = Wraps + 2
      /\ f[1] = Begin(name) /\ f[Wraps + 2] = End(name)
      /\ \A n \in 1..Wraps : f[n + 1] = Base64(name, n)
  BY <1>3, FrameShape
<1>6. \A i \in 1..Len(lines) : lines[i] \in Readable
  BY <1>3, ElementOfSeq
<1>7. /\ Len(b) = at - p - 1
      /\ \A i \in 1..(at - p - 1) : b[i] = lines[p + i]
  <2>1. \A i \in (p+1)..(at-1) : lines[i] \in Readable
    BY <1>1, <1>2, <1>6
  <2>2. /\ Len(b) = IF p + 1 <= at - 1 THEN (at - 1) - (p + 1) + 1 ELSE 0
        /\ \A i \in 1..((at - 1) - (p + 1) + 1) : b[i] = lines[(p + 1) + i - 1]
    BY <1>1, <1>4, <2>1, SubSeqProperties
  <2>. HIDE DEF b
  <2>. QED
    BY <1>1, <1>2, <1>4, <2>2
<1>8. b = Csv(name) /\ lines[p] = Begin(name)
  BY <1>2, <1>3 DEF Opened
<1>9. Len(Csv(name)) = Wraps /\ \A n \in 1..Wraps : Csv(name)[n] = Base64(name, n)
  BY <1>4 DEF Csv
<1>10. at = p + Wraps + 1
  BY <1>1, <1>4, <1>7, <1>8, <1>9
<1>11. /\ g \in Seq(Readable) /\ Len(g) = Wraps + 2
       /\ \A i \in 1..(Wraps + 2) : g[i] = lines[p + i - 1]
  <2>1. \A i \in p..at : lines[i] \in Readable
    BY <1>1, <1>2, <1>6
  <2>2. /\ g \in Seq(Readable)
        /\ Len(g) = IF p <= at THEN at - p + 1 ELSE 0
        /\ \A i \in 1..(at - p + 1) : g[i] = lines[p + i - 1]
    BY <1>1, <1>4, <2>1, SubSeqProperties
  <2>. HIDE DEF g
  <2>. QED
    BY <1>4, <1>10, <2>2
<1>12. \A i \in 1..(Wraps + 2) : g[i] = f[i]
  <2>1. g[1] = f[1]
    BY <1>4, <1>5, <1>8, <1>11
  <2>2. g[Wraps + 2] = f[Wraps + 2]
    BY <1>4, <1>5, <1>10, <1>11 DEF Line
  <2>3. ASSUME NEW n \in 1..Wraps
        PROVE  g[n + 1] = f[n + 1]
    <3>1. n + 1 \in 1..(Wraps + 2) /\ p + (n + 1) - 1 = p + n /\ n \in 1..(at - p - 1)
      BY <1>4, <1>10
    <3>2. g[n + 1] = lines[p + n] /\ b[n] = lines[p + n]
      BY <1>7, <1>11, <3>1
    <3>. QED
      BY <1>5, <1>8, <1>9, <3>2
  <2>4. \A i \in 1..(Wraps + 2) : i = 1 \/ i = Wraps + 2 \/ (i - 1 \in 1..Wraps /\ (i - 1) + 1 = i)
    BY <1>4
  <2>. HIDE DEF f, g
  <2>. QED
    BY <2>1, <2>2, <2>3, <2>4
<1>13. g = f
  <2>1. f \in Seq(S) /\ g \in Seq(S)
    <3>. HIDE DEF f, g
    <3>. QED
      BY <1>5, <1>11, SeqMonotonic
  <2>. HIDE DEF f, g, S
  <2>. QED
    BY <1>5, <1>11, <1>12, <2>1, SeqEqual
<1>14. p - 1 \in 0..(Len(lines) - Len(f)) /\ (p - 1) + 1 = p /\ (p - 1) + Len(f) = at
  BY <1>1, <1>2, <1>4, <1>5, <1>10
<1>. QED
  BY <1>13, <1>14 DEF IsIn

\* A line that is read keeps what the collector has of the lines.
LEMMA ReadStep ==
    ASSUME LogInv, ParseInv, Read, UNCHANGED podVars
    PROVE  ParseInv'
<1>1. /\ Line \in Readable /\ at \in 1..Len(lines) /\ Len(lines) \in Nat
      /\ Line \in Range(lines)
  BY LineIsReadable DEF Read
<1>2. /\ Line.kind = "BEGIN" =>
             Line.of \in Seeds /\ Line = Begin(Line.of) /\ Line.value = Csv(Line.of)
      /\ Line.kind = "END" => Line.of \in Seeds /\ Line = End(Line.of)
      /\ Line.kind = "ALL_DONE" => Line = AllDone
      /\ Line.kind \in Marks => Line \in Range(log) /\ Line = Mark(Line.kind, Line.value[1])
  BY <1>1, WhatIsRead
<1>3. /\ lines' = lines /\ at' = at + 1 /\ log' = log /\ Readable' = Readable
      /\ at' \in 1..(Len(lines) + 1) /\ at' - 1 = at
  BY <1>1 DEF Read, podVars, Readable
<1>4. /\ lines \in Seq(Readable)
      /\ name \in {0} \union Seeds
      /\ name # 0 => want = Csv(name)
      /\ DOMAIN blobs \subseteq Seeds
      /\ \A s \in DOMAIN blobs : blobs[s] = Csv(s) /\ IsIn(Frame(s), lines)
      /\ \A m \in DOMAIN marks : Mark(m, marks[m]) \in Range(log)
      /\ all_done => AllDone \in Range(lines)
  BY DEF ParseInv
<1>5. 0 \notin Seeds
  BY InPodAssumption DEF Seeds
<1>6. CASE ReadBegin
  <2>1. name' = Line.of /\ want' = Csv(name') /\ name' \in Seeds /\ body' = <<>>
        /\ UNCHANGED <<marks, blobs, all_done>>
    BY <1>2, <1>6 DEF ReadBegin
  <2>2. lines[at] = Begin(name')
    BY <1>2, <1>6, <2>1 DEF ReadBegin, Line
  <2>3. SubSeq(lines, at + 1, at) = <<>>
    BY <1>1, SubSeqEmpty
  <2>4. PICK p : p = at
    OBVIOUS
  <2>5. Opened(p)' /\ p \in 1..(at' - 1)
    BY <1>1, <1>3, <2>1, <2>2, <2>3, <2>4 DEF Opened
  <2>. QED
    BY <1>3, <1>4, <2>1, <2>5 DEF ParseInv
<1>7. CASE ReadMark
  <2>1. marks' = With(marks, Line.kind, Line.value[1]) /\ Line.kind \in Marks
        /\ UNCHANGED <<name, want, body, blobs, all_done>> /\ name = 0
    BY <1>7 DEF ReadMark
  <2>2. \A m \in DOMAIN marks' : Mark(m, marks'[m]) \in Range(log)
    BY <1>2, <1>4, <2>1 DEF With
  <2>. QED
    BY <1>3, <1>4, <2>1, <2>2 DEF ParseInv
<1>8. CASE ReadAllDone
  BY <1>1, <1>2, <1>3, <1>4, <1>8 DEF ParseInv, ReadAllDone
<1>9. CASE ReadOther
  BY <1>3, <1>4, <1>9 DEF ParseInv, ReadOther, parseVars
<1>10. CASE ReadBody
  <2>1. body' = Append(body, Line) /\ name # 0 /\ UNCHANGED <<name, want, marks, blobs, all_done>>
    BY <1>10 DEF ReadBody
  <2>2. PICK p \in 1..(at - 1) : Opened(p)
    BY <2>1 DEF ParseInv
  <2>. DEFINE b == SubSeq(lines, p + 1, at - 1)
  <2>3. p + 1 \in 1..Len(lines) /\ at \in (p + 1)..Len(lines) /\ p + 1 \in Int /\ at - 1 \in Int
        /\ \A i \in (p + 1)..(at - 1) : i \in 1..Len(lines)
    BY <1>1
  <2>4. SubSeq(lines, p + 1, at) = b \o <<lines[at]>>
    BY <1>4, <2>3, SubSeqRecursiveSecond
  <2>5. b \in Seq(Readable)
    <3>1. \A i \in (p + 1)..(at - 1) : lines[i] \in Readable
      BY <1>4, <2>3, ElementOfSeq
    <3>. QED
      BY <2>3, <3>1, SubSeqProperties
  <2>6. Append(b, lines[at]) = b \o <<lines[at]>>
    <3>. HIDE DEF b
    <3>. QED
      BY <1>1, <2>5, AppendIsConcat DEF Line
  <2>7. body = b /\ lines[p] = Begin(name)
    BY <2>2 DEF Opened
  <2>8. body' = SubSeq(lines, p + 1, at)
    BY <2>1, <2>4, <2>6, <2>7 DEF Line
  <2>9. Opened(p)' /\ p \in 1..(at' - 1)
    BY <1>1, <1>3, <2>1, <2>7, <2>8 DEF Opened
  <2>. QED
    BY <1>3, <1>4, <2>1, <2>9 DEF ParseInv
<1>11. CASE ReadEnd
  <2>1. /\ name # 0 /\ name \in Seeds /\ Line = End(name) /\ body = want
        /\ blobs' = With(blobs, name, body) /\ name' = 0
        /\ UNCHANGED <<want, body, marks, all_done>>
    BY <1>2, <1>4, <1>11 DEF ReadEnd, Decoded
  <2>2. IsIn(Frame(name), lines)
    BY <2>1, FrameIsRead DEF Read
  <2>3. /\ DOMAIN blobs' \subseteq Seeds
        /\ \A s \in DOMAIN blobs' : blobs'[s] = Csv(s) /\ IsIn(Frame(s), lines)
    BY <1>4, <2>1, <2>2 DEF With
  <2>4. DOMAIN blobs' \subseteq Seeds /\ \A s \in DOMAIN blobs' : blobs'[s] = Csv(s) /\ IsIn(Frame(s), lines)'
    BY <1>3, <2>3 DEF IsIn
  <2>. QED
    BY <1>3, <1>4, <2>1, <2>4 DEF ParseInv
<1>. QED
  BY <1>6, <1>7, <1>8, <1>9, <1>10, <1>11 DEF Read

LEMMA ParseFrame ==
    ASSUME ParseInv, UNCHANGED <<log, lines, at, parseVars>>
    PROVE  ParseInv'
  BY DEF ParseInv, Opened, Readable, parseVars
-----------------------------------------------------------------------------
(* The script and the collector.                                           *)

\* A step of the script leaves what the collector has.
LEMMA ScriptStep ==
    ASSUME LogInv, CollectInv, UNCHANGED <<podVars, collectVars>>,
           \/ UNCHANGED script
           \/ PollSees \/ PollSeesNothing \/ FollowEnds \/ FetchFails \/ CollectorExits
           \/ WaitEnds \/ WaitSeesFailed \/ RunAgain
    PROVE  CollectInv'
<1>1. StageInv'
  BY DEF CollectInv, StageInv, collectVars, podVars, PollSees, PollSeesNothing, FollowEnds,
         FetchFails, CollectorExits, WaitEnds, WaitSeesFailed, RunAgain
<1>2. (collector # "idle" => ParseInv)'
  BY ParseFrame DEF CollectInv, collectVars, podVars
<1>3. WriteInv'
  BY DEF CollectInv, WriteInv, Whole, collectVars, parseVars, outVars
<1>. QED
  BY <1>1, <1>2, <1>3 DEF CollectInv

LEMMA FetchStep ==
    ASSUME LogInv, CollectInv, Fetch, UNCHANGED <<podVars, link>>
    PROVE  CollectInv'
<1>1. /\ ParseInv' /\ collector' = "parsing" /\ UNCHANGED <<left, files, window>>
      /\ script = "fetching" /\ script' = "collecting"
  BY FetchReads DEF Fetch
<1>2. collector \in {"idle", "failed"} /\ pod = "Complete" /\ pod' = pod
  BY <1>1 DEF CollectInv, StageInv, podVars
<1>3. window = <<>>
  BY <1>2 DEF CollectInv, WriteInv
<1>4. WriteInv'
  BY <1>1, <1>3 DEF CollectInv, WriteInv
<1>. QED
  BY <1>1, <1>2, <1>4 DEF CollectInv, StageInv

LEMMA NextBlobIsLeft ==
    ASSUME left \subseteq Seeds, left # {}
    PROVE  NextBlob \in left
<1>1. left \subseteq Nat /\ left # {}
  BY InPodAssumption DEF Seeds
<1>. DEFINE R == OpToRel(<, Nat)
<1>2. PICK s \in left : \A t \in left : ~(<<t, s>> \in R)
  <2>1. IsWellFoundedOn(R, Nat)
    BY NatLessThanWellFounded
  <2>. HIDE DEF R
  <2>. QED
    BY <1>1, <2>1, WFMin
<1>3. \A t \in left : s <= t
  <2>1. \A t \in left : ~(t < s)
    BY <1>1, <1>2 DEF OpToRel
  <2>. QED
    BY <1>1, <2>1
<1>. QED
  BY <1>3 DEF NextBlob

\* A step of the collector, or its interruption.
LEMMA CollectorStep ==
    ASSUME LogInv, CollectInv, Collector \/ WriteFails, UNCHANGED <<podVars, scriptVars, link>>
    PROVE  CollectInv'
<1>1. collector \in {"parsing", "writing"}
  BY DEF Collector, Read, ReadRaises, Parsed, Write, WriteFails
<1>2. /\ script = "collecting" /\ script' = script /\ pod = "Complete" /\ pod' = pod
      /\ ParseInv /\ window = <<>> /\ log' = log
      /\ files = [s \in DOMAIN files |-> files[s]] /\ DOMAIN files \subseteq Seeds
  <2>1. collector \notin {"idle", "failed", "done"}
    BY <1>1
  <2>2. script = "collecting" /\ pod = "Complete" /\ ParseInv
    <3>1. script \in {"polling", "following", "waiting", "fetching", "collecting", "failed", "done"}
      BY <2>1 DEF CollectInv, StageInv
    <3>. QED
      BY <2>1, <3>1 DEF CollectInv, StageInv
  <2>3. /\ window = <<>>
        /\ files = [s \in DOMAIN files |-> files[s]] /\ DOMAIN files \subseteq Seeds
    BY <2>1 DEF CollectInv, WriteInv
  <2>. QED
    BY <2>2, <2>3 DEF podVars, scriptVars
<1>3. CASE Read
  <2>1. /\ collector' = "parsing" /\ UNCHANGED <<files, window>>
    BY <1>3 DEF Read, outVars
  <2>2. ParseInv'
    BY <1>2, <1>3, ReadStep
  <2>. QED
    BY <1>2, <2>1, <2>2 DEF CollectInv, StageInv, WriteInv
<1>4. CASE ReadRaises
  <2>1. /\ collector' = "failed" /\ UNCHANGED <<files, window>>
        /\ UNCHANGED <<lines, at, parseVars>>
    BY <1>4 DEF ReadRaises, outVars
  <2>2. ParseInv'
    BY <1>2, <2>1, ParseFrame
  <2>. QED
    BY <1>2, <2>1, <2>2 DEF CollectInv, StageInv, WriteInv
<1>5. CASE Parsed
  <2>1. /\ UNCHANGED <<files, window>> /\ UNCHANGED <<lines, at, parseVars>>
        /\ collector' = IF Whole THEN "writing" ELSE "failed"
        /\ left' = IF Whole THEN DOMAIN blobs ELSE {}
    BY <1>5 DEF Parsed, outVars
  <2>2. ParseInv'
    BY <1>2, <2>1, ParseFrame
  <2>3. Whole' <=> Whole
    BY <2>1 DEF Whole, parseVars
  <2>4. Whole => DOMAIN blobs = Seeds
    BY DEF Whole
  <2>5. WriteInv'
    BY <1>2, <2>1, <2>3, <2>4 DEF WriteInv
  <2>. QED
    BY <1>2, <2>1, <2>2, <2>5 DEF CollectInv, StageInv
<1>6. ASSUME collector = "writing", UNCHANGED <<lines, at, parseVars>>
      PROVE  /\ ParseInv' /\ (Whole <=> Whole') /\ Whole /\ left \subseteq Seeds
             /\ \A s \in Seeds \ left : s \in DOMAIN files /\ files[s] = Csv(s)
             /\ marks' = marks
             /\ \A s \in Seeds : blobs[s] = Csv(s)
  <2>1. ParseInv' /\ marks' = marks
    BY <1>2, <1>6, ParseFrame DEF parseVars
  <2>2. Whole <=> Whole'
    BY <1>6 DEF Whole, parseVars
  <2>3. Whole /\ left \subseteq Seeds /\ \A s \in Seeds \ left : s \in DOMAIN files /\ files[s] = Csv(s)
    BY <1>6 DEF CollectInv, WriteInv
  <2>4. \A s \in Seeds : blobs[s] = Csv(s)
    BY <1>2, <2>3 DEF ParseInv, Whole
  <2>. QED
    BY <2>1, <2>2, <2>3, <2>4
<1>7. CASE Write
  <2>1. collector = "writing" /\ UNCHANGED <<lines, at, parseVars>>
    BY <1>7 DEF Write
  <2>2. CASE WriteBlob
    <3>1. /\ left # {} /\ files' = With(files, NextBlob, blobs[NextBlob])
          /\ left' = left \ {NextBlob} /\ UNCHANGED <<collector, window>>
      BY <2>2 DEF WriteBlob
    <3>2. NextBlob \in left /\ NextBlob \in Seeds
      BY <1>6, <2>1, <3>1, NextBlobIsLeft
    <3>3. /\ DOMAIN files' \subseteq Seeds
          /\ files' = [s \in DOMAIN files' |-> files'[s]]
          /\ \A s \in Seeds \ left' : s \in DOMAIN files' /\ files'[s] = Csv(s)
      BY <1>2, <1>6, <2>1, <3>1, <3>2 DEF With
    <3>4. WriteInv'
      BY <1>2, <1>6, <2>1, <3>1, <3>3 DEF WriteInv
    <3>. QED
      BY <1>2, <1>6, <2>1, <3>1, <3>4 DEF CollectInv, StageInv
  <2>3. CASE WriteWindow
    <3>1. left = {} /\ window' = marks /\ collector' = "done" /\ files' = files
      BY <2>3 DEF WriteWindow
    <3>2. files = [s \in Seeds |-> Csv(s)]
      <4>1. DOMAIN files = Seeds /\ \A s \in Seeds : files[s] = Csv(s)
        BY <1>2, <1>6, <2>1, <3>1
      <4>. QED
        BY <1>2, <4>1
    <3>3. WriteInv'
      BY <1>2, <1>6, <2>1, <3>1, <3>2 DEF WriteInv
    <3>. QED
      BY <1>2, <1>6, <2>1, <3>1, <3>3 DEF CollectInv, StageInv
  <2>. QED
    BY <1>7, <2>2, <2>3 DEF Write
<1>8. CASE WriteFails
  <2>1. /\ collector = "writing" /\ collector' = "failed" /\ window' = window
        /\ UNCHANGED <<lines, at, parseVars>>
    BY <1>8 DEF WriteFails
  <2>2. files' = files \/ \E s \in left : files' = With(files, s, <<>>)
    BY <1>8 DEF WriteFails
  <2>3. files' = [s \in DOMAIN files' |-> files'[s]] /\ DOMAIN files' \subseteq Seeds
    BY <1>2, <1>6, <2>1, <2>2 DEF With
  <2>4. WriteInv'
    BY <1>2, <2>1, <2>3 DEF WriteInv
  <2>. QED
    BY <1>2, <1>6, <2>1, <2>4 DEF CollectInv, StageInv
<1>. QED
  BY <1>3, <1>4, <1>5, <1>7, <1>8 DEF Collector

LEMMA PodStep ==
    ASSUME LogInv, CollectInv, Pod, UNCHANGED <<collectVars, scriptVars, link>>
    PROVE  CollectInv'
<1>1. pod # "Complete"
  BY LogStep
<1>2. collector = "idle" /\ collector' = "idle" /\ script \notin {"fetching", "collecting", "done"}
      /\ script' = script
  BY <1>1 DEF CollectInv, StageInv, collectVars, scriptVars
<1>3. WriteInv'
  BY <1>2 DEF CollectInv, WriteInv, collectVars, outVars
<1>. QED
  BY <1>2, <1>3 DEF CollectInv, StageInv
-----------------------------------------------------------------------------
(* A log that is intact.                                                   *)

LEMMA LogOfTheJob ==
    ASSUME LogInv, pod = "Complete"
    PROVE  /\ log[1] = Mark("NODE", 0) /\ log[2] = Mark("CELL_START", 0)
           /\ \A n \in 3..(Header - 1) : log[n] = Progress
           /\ log[Header] = Mark("CELL_END", clock)
           /\ \A s \in 0..(LastSeed - 1) :
                  /\ log[Header + Upto(s) + 1] = Begin(s + 1)
                  /\ \A n \in 1..Wraps : log[Header + Upto(s) + 1 + n] = Base64(s + 1, n)
                  /\ log[Header + Upto(s) + 2 + Wraps] = End(s + 1)
           /\ log[Header + Upto(LastSeed) + 1] = AllDone
           /\ Len(log) = Header + Upto(LastSeed) + 1
<1>. DEFINE N == Upto(LastSeed)
<1>1. /\ LastSeed \in Nat /\ Wraps \in Nat /\ N \in Nat
      /\ Header = LastSeed + 3 /\ seed = LastSeed
  BY UptoProperties, InPodAssumption DEF LogInv, Header
<1>2. printed = N + 1
  BY ResultsShape DEF LogInv
<1>3. /\ log[1] = Mark("NODE", 0) /\ log[2] = Mark("CELL_START", 0)
      /\ \A n \in 3..(seed + 2) : log[n] = Progress
      /\ log[Header] = Mark("CELL_END", clock)
      /\ \A n \in 1..printed : log[Header + n] = Results[n]
      /\ Len(log) = Header + printed
  BY DEF LogInv
<1>4. \A n \in 3..(Header - 1) : log[n] = Progress
  BY <1>1, <1>3
<1>. HIDE DEF N
<1>5. log[Header + N + 1] = AllDone /\ Len(log) = Header + N + 1
  <2>1. log[Header + (N + 1)] = Results[N + 1]
    BY <1>1, <1>2, <1>3
  <2>2. Results[N + 1] = AllDone
    BY ResultsShape DEF N
  <2>3. Header + (N + 1) = Header + N + 1
    BY <1>1
  <2>. QED
    BY <1>2, <1>3, <2>1, <2>2, <2>3
<1>6. ASSUME NEW s \in 0..(LastSeed - 1)
      PROVE  /\ log[Header + Upto(s) + 1] = Begin(s + 1)
             /\ \A n \in 1..Wraps : log[Header + Upto(s) + 1 + n] = Base64(s + 1, n)
             /\ log[Header + Upto(s) + 2 + Wraps] = End(s + 1)
  <2>. DEFINE U == Upto(s)
              f == Frame(s + 1)
  <2>1. s + 1 \in 1..LastSeed /\ s + 1 \in Seeds /\ (s + 1) - 1 = s /\ s \in Nat
    BY <1>1 DEF Seeds
  <2>2. U \in Nat
    BY <2>1, UptoProperties
  <2>3. \A k \in 1..(Wraps + 2) : U + k \in 1..N /\ Results[U + k] = f[k]
    <3>1. \A k \in 1..(Wraps + 2) :
              /\ Upto((s + 1) - 1) + k \in 1..N
              /\ Results[Upto((s + 1) - 1) + k] = f[k]
      BY <2>1, ResultsShape DEF N
    <3>. QED
      BY <2>1, <3>1
  <2>4. f[1] = Begin(s + 1) /\ f[Wraps + 2] = End(s + 1)
        /\ \A n \in 1..Wraps : f[n + 1] = Base64(s + 1, n)
    BY <2>1, FrameShape
  <2>. HIDE DEF U, f
  <2>5. \A k \in 1..(Wraps + 2) : log[Header + (U + k)] = f[k]
    <3>1. \A k \in 1..(Wraps + 2) : U + k \in 1..printed
      BY <1>1, <1>2, <2>3
    <3>. QED
      BY <1>3, <2>3, <3>1
  <2>6. Header + (U + 1) = Header + U + 1 /\ Header + (U + (Wraps + 2)) = Header + U + 2 + Wraps
        /\ \A n \in 1..Wraps : Header + (U + (n + 1)) = Header + U + 1 + n
    BY <1>1, <2>2
  <2>7. 1 \in 1..(Wraps + 2) /\ Wraps + 2 \in 1..(Wraps + 2)
        /\ \A n \in 1..Wraps : n + 1 \in 1..(Wraps + 2)
    BY <1>1
  <2>8. log[Header + U + 1] = Begin(s + 1)
    BY <2>4, <2>5, <2>6, <2>7
  <2>9. log[Header + U + 2 + Wraps] = End(s + 1)
    BY <2>4, <2>5, <2>6, <2>7
  <2>10. \A n \in 1..Wraps : log[Header + U + 1 + n] = Base64(s + 1, n)
    BY <2>4, <2>5, <2>6, <2>7
  <2>. QED
    BY <2>8, <2>9, <2>10 DEF U
<1>. QED
  BY <1>3, <1>4, <1>5, <1>6 DEF N

\* The kinds of lines differ.
LEMMA Kinds ==
    /\ \A v : Mark("NODE", v).kind = "NODE" /\ Mark("NODE", v).value[1] = v
    /\ \A v : Mark("CELL_START", v).kind = "CELL_START" /\ Mark("CELL_START", v).value[1] = v
    /\ \A v : Mark("CELL_END", v).kind = "CELL_END" /\ Mark("CELL_END", v).value[1] = v
    /\ Progress.kind = "progress" /\ AllDone.kind = "ALL_DONE"
    /\ \A s : /\ Begin(s).kind = "BEGIN" /\ Begin(s).of = s /\ Begin(s).value = Csv(s)
              /\ End(s).kind = "END" /\ End(s).of = s
              /\ \A n : Base64(s, n).kind = "base64"
    /\ "NODE" \in Marks /\ "CELL_START" \in Marks /\ "CELL_END" \in Marks
    /\ \A k \in {"progress", "ALL_DONE", "BEGIN", "END", "base64"} : k \notin Marks
  BY DEF Mark, Progress, AllDone, Begin, End, Base64, Text, Marks

\* While there are lines to read, these are the lines that can be next.
LEMMA IntactLine ==
    ASSUME LogInv, IntactInv, pod = "Complete", collector = "parsing", lines = log
    PROVE  \/ InHead /\ at = 1 /\ Line = Mark("NODE", 0) /\ MoreLines
           \/ InHead /\ at = 2 /\ Line = Mark("CELL_START", 0) /\ MoreLines
           \/ InHead /\ at \in 3..(Header - 1) /\ Line = Progress /\ MoreLines
           \/ InHead /\ at = Header /\ Line = Mark("CELL_END", clock) /\ MoreLines
           \/ \E s \in 0..(LastSeed - 1) : Between(s) /\ Line = Begin(s + 1) /\ MoreLines
           \/ Between(LastSeed) /\ Line = AllDone /\ MoreLines
           \/ \E s \in 0..(LastSeed - 1), k \in 0..(Wraps - 1) :
                  Inside(s, k) /\ Line = Base64(s + 1, k + 1) /\ MoreLines
           \/ \E s \in 0..(LastSeed - 1) :
                  Inside(s, Wraps) /\ Line = End(s + 1) /\ MoreLines
           \/ Behind /\ ~MoreLines
<1>. DEFINE N == Upto(LastSeed)
<1>1. /\ LastSeed \in Nat /\ LastSeed # 0 /\ Wraps \in Nat /\ N \in Nat
      /\ Header = LastSeed + 3
  BY UptoProperties, InPodAssumption DEF Header
<1>2. Len(lines) = Header + N + 1
  BY LogOfTheJob
<1>3. ASSUME NEW s \in 0..(LastSeed - 1)
      PROVE  Upto(s) \in Nat /\ Upto(s) + Wraps + 2 <= N
  <2>1. s \in Nat /\ s + 1 \in 1..LastSeed /\ (s + 1) - 1 = s
    BY <1>1
  <2>2. Upto((s + 1) - 1) + Wraps + 2 <= N
    BY <2>1, UptoProperties
  <2>. QED
    BY <2>1, <2>2, UptoProperties
<1>. HIDE DEF N
<1>4. CASE InHead
  <2>1. at \in 1..Header
    BY <1>4 DEF InHead
  <2>2. MoreLines
    BY <1>1, <1>2, <2>1 DEF MoreLines
  <2>3. at = 1 \/ at = 2 \/ at \in 3..(Header - 1) \/ at = Header
    BY <1>1, <2>1
  <2>. QED
    BY <1>4, <2>2, <2>3, LogOfTheJob DEF Line
<1>5. ASSUME NEW s \in 0..(LastSeed - 1), Between(s)
      PROVE  Line = Begin(s + 1) /\ MoreLines
  <2>1. at = Header + Upto(s) + 1
    BY <1>5 DEF Between
  <2>2. MoreLines
    BY <1>1, <1>2, <1>3, <2>1 DEF MoreLines
  <2>. QED
    BY <2>1, <2>2, LogOfTheJob DEF Line
<1>6. CASE Between(LastSeed)
  <2>1. at = Header + N + 1
    BY <1>6 DEF Between, N
  <2>2. MoreLines
    BY <1>1, <1>2, <2>1 DEF MoreLines
  <2>3. log[Header + N + 1] = AllDone
    BY LogOfTheJob DEF N
  <2>. QED
    BY <1>6, <2>1, <2>2, <2>3 DEF Line
<1>7. ASSUME NEW s \in 0..(LastSeed - 1), NEW k \in 0..Wraps, Inside(s, k)
      PROVE  /\ MoreLines
             /\ k = Wraps => Line = End(s + 1)
             /\ k # Wraps => k \in 0..(Wraps - 1) /\ Line = Base64(s + 1, k + 1)
  <2>. DEFINE U == Upto(s)
  <2>1. at = Header + U + 2 + k
    BY <1>7 DEF Inside
  <2>2. U \in Nat /\ U + Wraps + 2 <= N
    BY <1>3
  <2>3. log[Header + U + 2 + Wraps] = End(s + 1)
        /\ \A n \in 1..Wraps : log[Header + U + 1 + n] = Base64(s + 1, n)
    BY LogOfTheJob
  <2>. HIDE DEF U
  <2>4. MoreLines
    BY <1>1, <1>2, <2>1, <2>2 DEF MoreLines
  <2>5. CASE k = Wraps
    BY <2>1, <2>3, <2>4, <2>5 DEF Line
  <2>6. CASE k # Wraps
    <3>1. k \in 0..(Wraps - 1) /\ k + 1 \in 1..Wraps
          /\ Header + U + 2 + k = Header + U + 1 + (k + 1)
      BY <1>1, <2>2, <2>6
    <3>. QED
      BY <2>1, <2>3, <2>4, <2>6, <3>1 DEF Line
  <2>. QED
    BY <2>5, <2>6
<1>8. CASE Behind
  <2>1. at = Header + N + 2
    BY <1>8 DEF Behind, N
  <2>2. ~MoreLines
    BY <1>1, <1>2, <2>1 DEF MoreLines
  <2>. QED
    BY <1>8, <2>2
<1>9. \A s \in 0..LastSeed : s \in 0..(LastSeed - 1) \/ s = LastSeed
  BY <1>1
<1>10. \/ InHead
       \/ \E s \in 0..LastSeed : Between(s)
       \/ \E s \in 0..(LastSeed - 1), k \in 0..Wraps : Inside(s, k)
       \/ Behind
  BY DEF IntactInv
<1>11. CASE \E s \in 0..LastSeed : Between(s)
  BY <1>5, <1>6, <1>9, <1>11
<1>12. CASE \E s \in 0..(LastSeed - 1), k \in 0..Wraps : Inside(s, k)
  BY <1>7, <1>12
<1>. QED
  BY <1>4, <1>8, <1>10, <1>11, <1>12
\* A line of an intact log that is read takes the parse to where it is next.
LEMMA IntactRead ==
    ASSUME LogInv, IntactInv, pod = "Complete", lines = log, Read, UNCHANGED podVars
    PROVE  IntactInv'
<1>1. /\ collector = "parsing" /\ MoreLines /\ at' = at + 1 /\ lines' = lines
      /\ collector' = collector /\ clock' = clock /\ log' = log
  BY DEF Read, podVars
<1>2. /\ LastSeed \in Nat /\ LastSeed # 0 /\ Wraps \in Nat /\ Wraps # 0
      /\ Header = LastSeed + 3 /\ 0 \in 0..LastSeed
  BY InPodAssumption DEF Header
<1>. SUFFICES \/ InHead'
              \/ \E s \in 0..LastSeed : Between(s)'
              \/ \E s \in 0..(LastSeed - 1), k \in 0..Wraps : Inside(s, k)'
              \/ Behind'
  BY DEF IntactInv
<1>3. /\ Marks = {"NODE", "CELL_START", "CELL_END"}
      /\ \A s \in 0..(LastSeed - 1) : s \in Nat /\ s + 1 # 0 /\ s + 1 \in 0..LastSeed
  BY <1>2 DEF Marks
<1>4. CASE InHead /\ at = 1 /\ Line = Mark("NODE", 0)
  <2>1. Line.kind = "NODE" /\ Line.value[1] = 0 /\ name = 0
    BY <1>4, Kinds DEF InHead
  <2>2. ReadMark
    BY <2>1, Kinds DEF Read, ReadBegin, ReadAllDone, ReadOther, ReadBody, ReadEnd
  <2>3. marks' = With(marks, "NODE", 0) /\ UNCHANGED <<name, blobs, all_done>>
    BY <2>1, <2>2 DEF ReadMark
  <2>4. DOMAIN marks = {}
    BY <1>4 DEF InHead
  <2>5. DOMAIN marks' = {"NODE"}
    BY <2>3, <2>4 DEF With
  <2>6. at' = 2 /\ at' \in 1..Header
    BY <1>1, <1>2, <1>4
  <2>7. {m \in Marks : (m = "NODE" /\ at' > 1) \/ (m = "CELL_START" /\ at' > 2)}
            = {"NODE"}
    <3>1. \A m \in Marks : (m = "NODE" /\ at' > 1) \/ (m = "CELL_START" /\ at' > 2)
                             <=> m \in {"NODE"}
      BY <1>3, <2>6
    <3>. QED
      BY <1>3, <3>1
  <2>8. at' > 2 => marks'["CELL_START"] = 0
    BY <2>5, <2>6
  <2>9. name' = 0 /\ blobs' = <<>> /\ ~all_done'
    BY <1>4, <2>3 DEF InHead
  <2>10. InHead'
    BY <2>5, <2>6, <2>7, <2>8, <2>9 DEF InHead
  <2>. QED
    BY <2>10
<1>5. CASE InHead /\ at = 2 /\ Line = Mark("CELL_START", 0)
  <2>1. Line.kind = "CELL_START" /\ Line.value[1] = 0 /\ name = 0
    BY <1>5, Kinds DEF InHead
  <2>2. ReadMark
    BY <2>1, Kinds DEF Read, ReadBegin, ReadAllDone, ReadOther, ReadBody, ReadEnd
  <2>3. marks' = With(marks, "CELL_START", 0) /\ UNCHANGED <<name, blobs, all_done>>
    BY <2>1, <2>2 DEF ReadMark
  <2>4. DOMAIN marks = {"NODE"}
    BY <1>3, <1>5 DEF InHead
  <2>5. DOMAIN marks' = {"NODE", "CELL_START"} /\ marks'["CELL_START"] = 0
    BY <2>3, <2>4 DEF With
  <2>6. at' = 3 /\ at' \in 1..Header
    BY <1>1, <1>2, <1>5
  <2>7. {m \in Marks : (m = "NODE" /\ at' > 1) \/ (m = "CELL_START" /\ at' > 2)}
            = {"NODE", "CELL_START"}
    <3>1. \A m \in Marks : (m = "NODE" /\ at' > 1) \/ (m = "CELL_START" /\ at' > 2)
                             <=> m \in {"NODE", "CELL_START"}
      BY <1>3, <2>6
    <3>. QED
      BY <1>3, <3>1
  <2>8. at' > 2 => marks'["CELL_START"] = 0
    BY <2>5, <2>6
  <2>9. name' = 0 /\ blobs' = <<>> /\ ~all_done'
    BY <1>5, <2>3 DEF InHead
  <2>10. InHead'
    BY <2>5, <2>6, <2>7, <2>8, <2>9 DEF InHead
  <2>. QED
    BY <2>10
<1>6. CASE InHead /\ at \in 3..(Header - 1) /\ Line = Progress
  <2>1. Line.kind = "progress" /\ name = 0
    BY <1>6, Kinds DEF InHead
  <2>2. ReadOther
    BY <2>1, Kinds DEF Read, ReadBegin, ReadMark, ReadAllDone, ReadBody, ReadEnd
  <2>3. UNCHANGED <<name, marks, blobs, all_done>>
    BY <2>2 DEF ReadOther, parseVars
  <2>4. at > 2 /\ at > 1 /\ at' > 2 /\ at' > 1 /\ at' \in 1..Header
    BY <1>1, <1>2, <1>6
  <2>5. InHead'
    BY <1>6, <2>3, <2>4 DEF InHead
  <2>. QED
    BY <2>5
<1>7. CASE InHead /\ at = Header /\ Line = Mark("CELL_END", clock)
  <2>1. Line.kind = "CELL_END" /\ Line.value[1] = clock /\ name = 0
    BY <1>7, Kinds DEF InHead
  <2>2. ReadMark
    BY <2>1, Kinds DEF Read, ReadBegin, ReadAllDone, ReadOther, ReadBody, ReadEnd
  <2>3. marks' = With(marks, "CELL_END", clock) /\ UNCHANGED <<name, blobs, all_done>>
    BY <2>1, <2>2 DEF ReadMark
  <2>4. at > 2 /\ at > 1
    BY <1>2, <1>7
  <2>5. DOMAIN marks = {"NODE", "CELL_START"} /\ marks["CELL_START"] = 0
    BY <1>3, <1>7, <2>4 DEF InHead
  <2>6. /\ DOMAIN marks' = Marks /\ marks'["CELL_START"] = 0
        /\ marks'["CELL_END"] = clock'
    BY <1>1, <1>3, <2>3, <2>5 DEF With
  <2>7. DOMAIN blobs' = 1..0
    BY <1>7, <2>3 DEF InHead
  <2>8. at' = Header + Upto(0) + 1
    BY <1>1, <1>2, <1>7, UptoProperties
  <2>9. Between(0)'
    BY <1>1, <2>1, <2>3, <2>6, <2>7, <2>8 DEF Between, Found
  <2>. QED
    BY <1>2, <2>9
<1>8. ASSUME NEW s \in 0..(LastSeed - 1), Between(s), Line = Begin(s + 1)
      PROVE  Inside(s, 0)'
  <2>1. Line.kind = "BEGIN" /\ Line.of = s + 1 /\ Line.value = Csv(s + 1) /\ name = 0
    BY <1>8, Kinds DEF Between
  <2>2. ReadBegin
    BY <2>1, Kinds DEF Read, ReadMark, ReadAllDone, ReadOther, ReadBody, ReadEnd
  <2>3. name' = s + 1 /\ want' = Csv(s + 1) /\ body' = <<>> /\ UNCHANGED <<marks, blobs>>
    BY <2>1, <2>2 DEF ReadBegin
  <2>4. at' = Header + Upto(s) + 2 + 0
    <3>1. at = Header + Upto(s) + 1 /\ Upto(s) \in Nat
      BY <1>3, <1>8, UptoProperties DEF Between
    <3>. QED
      BY <1>1, <1>2, <3>1
  <2>5. body' = [n \in 1..0 |-> Base64(s + 1, n)]
    BY <2>3
  <2>. QED
    BY <1>1, <1>8, <2>3, <2>4, <2>5 DEF Between, Inside, Found
<1>9. CASE Between(LastSeed) /\ Line = AllDone
  <2>1. Line.kind = "ALL_DONE" /\ name = 0
    BY <1>9, Kinds DEF Between
  <2>2. ReadAllDone
    BY <2>1, Kinds DEF Read, ReadBegin, ReadMark, ReadOther, ReadBody, ReadEnd
  <2>3. at' = Header + Upto(LastSeed) + 2
    <3>1. at = Header + Upto(LastSeed) + 1 /\ Upto(LastSeed) \in Nat
      BY <1>2, <1>9, UptoProperties DEF Between
    <3>. QED
      BY <1>1, <1>2, <3>1
  <2>4. Behind'
    BY <1>1, <1>9, <2>1, <2>2, <2>3 DEF ReadAllDone, Between, Behind, Found
  <2>. QED
    BY <2>4
<1>10. ASSUME NEW s \in 0..(LastSeed - 1), NEW k \in 0..(Wraps - 1),
              Inside(s, k), Line = Base64(s + 1, k + 1)
       PROVE  k + 1 \in 0..Wraps /\ Inside(s, k + 1)'
  <2>1. Line.kind = "base64" /\ name # 0
    BY <1>3, <1>10, Kinds DEF Inside
  <2>2. ReadBody
    BY <2>1, Kinds DEF Read, ReadBegin, ReadMark, ReadAllDone, ReadOther, ReadEnd
  <2>3. body' = Append(body, Line) /\ UNCHANGED <<name, want, marks, blobs>>
    BY <2>2 DEF ReadBody
  <2>4. at' = Header + Upto(s) + 2 + (k + 1)
    <3>1. at = Header + Upto(s) + 2 + k /\ Upto(s) \in Nat /\ k \in Nat
      BY <1>2, <1>3, <1>10, UptoProperties DEF Inside
    <3>. QED
      BY <1>1, <1>2, <3>1
  <2>5. body' = [n \in 1..(k + 1) |-> Base64(s + 1, n)]
    <3>. DEFINE S == {Base64(s + 1, n) : n \in Nat}
                b == [n \in 1..k |-> Base64(s + 1, n)]
                c == [n \in 1..(k + 1) |-> Base64(s + 1, n)]
    <3>1. k \in Nat /\ Line \in S
      BY <1>2, <1>10
    <3>2. /\ b \in Seq(S) /\ Len(b) = k /\ c \in Seq(S) /\ Len(c) = k + 1
          /\ \A n \in 1..k : b[n] = c[n] /\ c[k + 1] = Line
      BY <1>10, <3>1
    <3>3. c[k + 1] = Line
      BY <1>10, <3>1
    <3>. HIDE DEF b, c, S
    <3>4. /\ Append(b, Line) \in Seq(S) /\ Len(Append(b, Line)) = k + 1
          /\ \A n \in 1..k : Append(b, Line)[n] = b[n]
          /\ Append(b, Line)[k + 1] = Line
      BY <3>1, <3>2, AppendProperties
    <3>. DEFINE d == Append(b, Line)
    <3>. HIDE DEF d
    <3>5. \A n \in 1..(k + 1) : d[n] = c[n]
      <4>1. \A n \in 1..(k + 1) : n \in 1..k \/ n = k + 1
        BY <3>1
      <4>. QED
        BY <3>2, <3>3, <3>4, <4>1 DEF d
    <3>6. d = c
      BY <3>2, <3>4, <3>5, SeqEqual DEF d
    <3>7. body = b
      BY <1>10 DEF Inside, b
    <3>. QED
      BY <2>3, <3>6, <3>7 DEF d, c
  <2>6. k + 1 \in 0..Wraps
    BY <1>2
  <2>. QED
    BY <1>1, <1>10, <2>3, <2>4, <2>5, <2>6 DEF Inside, Found
<1>11. ASSUME NEW s \in 0..(LastSeed - 1), Inside(s, Wraps), Line = End(s + 1)
       PROVE  Between(s + 1)'
  <2>1. Line.kind = "END" /\ name = s + 1 /\ name # 0
    BY <1>3, <1>11, Kinds DEF Inside
  <2>2. ReadEnd
    BY <2>1, Kinds DEF Read, ReadBegin, ReadMark, ReadAllDone, ReadOther, ReadBody
  <2>3. blobs' = With(blobs, s + 1, body) /\ name' = 0 /\ UNCHANGED marks
    BY <2>1, <2>2 DEF ReadEnd
  <2>4. DOMAIN blobs = 1..s
    BY <1>11 DEF Inside, Found
  <2>5. DOMAIN blobs' = 1..(s + 1)
    BY <1>3, <2>3, <2>4 DEF With
  <2>6. at' = Header + Upto(s + 1) + 1
    <3>1. at = Header + Upto(s) + 2 + Wraps /\ Upto(s) \in Nat
          /\ Upto(s + 1) = Upto(s) + Wraps + 2
      BY <1>2, <1>3, <1>11, UptoProperties DEF Inside
    <3>. QED
      BY <1>1, <1>2, <3>1
  <2>. QED
    BY <1>1, <1>11, <2>3, <2>5, <2>6 DEF Inside, Between, Found
<1>. QED
  BY <1>1, <1>2, <1>3, <1>4, <1>5, <1>6, <1>7, <1>8, <1>9, <1>10, <1>11, IntactLine

\* No line of an intact log raises, and at its end it is whole.
LEMMA IntactNotRaised ==
    ASSUME LogInv, IntactInv, pod = "Complete", collector = "parsing", lines = log
    PROVE  ~ReadRaises
<1>. SUFFICES ASSUME ReadRaises PROVE FALSE
  OBVIOUS
<1>1. MoreLines /\ name # 0 /\ Line.kind = "END" /\ ~(Line.of = name /\ body = want)
  BY DEF ReadRaises, Decoded
<1>2. \A s \in 0..LastSeed : ~Between(s)
  BY <1>1 DEF Between
<1>3. ~InHead /\ LastSeed \in 0..LastSeed /\ \A s \in 0..(LastSeed - 1) : s \in 0..LastSeed
  BY <1>1, InPodAssumption DEF InHead
<1>4. PICK s \in 0..(LastSeed - 1) : Inside(s, Wraps) /\ Line = End(s + 1)
  BY <1>1, <1>2, <1>3, IntactLine, Kinds
<1>5. Line.of = name /\ body = Csv(s + 1) /\ want = Csv(s + 1)
  BY <1>4, Kinds DEF Inside, Csv
<1>. QED
  BY <1>1, <1>5

LEMMA IntactIsWhole ==
    ASSUME LogInv, IntactInv, pod = "Complete", collector = "parsing", lines = log,
           ~MoreLines, clock # 0
    PROVE  Whole
<1>1. Behind
  BY IntactLine
<1>2. 1..LastSeed = Seeds /\ clock \in Nat
  BY DEF Seeds, LogInv
<1>. QED
  BY <1>1, <1>2 DEF Behind, Found, Whole
-----------------------------------------------------------------------------
(* What is collected.                                                      *)

LEMMA JobInitial ==
    ASSUME Init
    PROVE  JobInv
<1>. USE DEF Init, PodInit, CollectInit
<1>1. <<>> \in Seq(Printable) /\ 0 \in 0..LastSeed
  BY InPodAssumption, EmptySeq
<1>2. LogInv
  BY <1>1 DEF LogInv
<1>3. files = [s \in DOMAIN files |-> files[s]] /\ DOMAIN files \subseteq Seeds
  <2>1. files = <<>> /\ DOMAIN files = {}
    OBVIOUS
  <2>. QED
    BY <2>1
<1>4. CollectInv
  BY <1>3 DEF CollectInv, StageInv, WriteInv
<1>5. IntactInv
  BY DEF IntactInv
<1>. QED
  BY <1>2, <1>4, <1>5 DEF JobInv

LEMMA IntactFrame ==
    ASSUME IntactInv, UNCHANGED <<collectVars, podVars>>
    PROVE  IntactInv'
  BY DEF IntactInv, InHead, Between, Inside, Behind, Found, collectVars, parseVars, podVars

LEMMA JobInductive ==
    ASSUME JobInv, [Next]_vars
    PROVE  JobInv'
<1>. USE DEF JobInv
<1>1. CASE UNCHANGED <<podVars, collectVars, scriptVars>>
  <2>1. UNCHANGED <<podVars, collectVars>> /\ UNCHANGED script
    BY <1>1 DEF scriptVars
  <2>. QED
    BY <2>1, LogFrame, ScriptStep, IntactFrame
<1>2. CASE \/ Alone(PollSees \/ PollSeesNothing \/ FollowEnds \/ FetchFails \/ CollectorExits)
           \/ Wait \/ Alone(RunAgain)
  <2>1. /\ UNCHANGED <<podVars, collectVars>>
        /\ \/ PollSees \/ PollSeesNothing \/ FollowEnds \/ FetchFails \/ CollectorExits
           \/ WaitEnds \/ WaitSeesFailed \/ RunAgain
    BY <1>2 DEF Alone, Wait
  <2>. QED
    BY <2>1, LogFrame, ScriptStep, IntactFrame
<1>3. CASE Fetch /\ UNCHANGED <<podVars, link>>
  <2>1. CollectInv' /\ LogInv'
    BY <1>3, FetchStep, LogFrame
  <2>2. /\ at' = 1 /\ name' = 0 /\ marks' = <<>> /\ blobs' = <<>> /\ ~all_done'
    BY <1>3, FetchReads DEF Fetch
  <2>3. 1 \in 1..Header /\ DOMAIN marks' = {}
    BY <2>2, InPodAssumption DEF Header
  <2>4. InHead'
    BY <2>2, <2>3 DEF InHead
  <2>. QED
    BY <2>1, <2>4 DEF IntactInv
<1>4. CASE (Collector \/ WriteFails) /\ UNCHANGED <<podVars, scriptVars, link>>
  <2>1. CollectInv' /\ LogInv'
    BY <1>4, CollectorStep, LogFrame
  <2>2. IntactInv'
    <3>. SUFFICES ASSUME collector' = "parsing", lines' = log' PROVE IntactInv'
      BY DEF IntactInv
    <3>1. Read
      BY <1>4 DEF Collector, ReadRaises, Parsed, Write, WriteBlob, WriteWindow, WriteFails
    <3>2. lines = log /\ collector = "parsing"
      BY <1>4, <3>1 DEF Read, podVars
    <3>3. pod = "Complete"
      BY <3>2 DEF CollectInv, StageInv
    <3>. QED
      BY <1>4, <3>1, <3>2, <3>3, IntactRead
  <2>. QED
    BY <2>1, <2>2
<1>5. CASE Pod /\ UNCHANGED <<collectVars, scriptVars, link>>
  <2>1. CollectInv' /\ LogInv' /\ pod # "Complete"
    BY <1>5, PodStep, LogStep
  <2>2. collector' = "idle"
    BY <1>5, <2>1 DEF CollectInv, StageInv, collectVars
  <2>. QED
    BY <2>1, <2>2 DEF IntactInv
<1>. QED
  BY <1>1, <1>2, <1>3, <1>4, <1>5 DEF Next, Script, LinkChanges, vars, scriptVars

\* In every reachable state the pod's log, what the collector has read of the
\* lines that were fetched, and what it has written agree.
THEOREM CollectionInvariant ==
    Spec => []JobInv
<1>1. Init => JobInv
  BY JobInitial
<1>2. JobInv /\ [Next]_vars => JobInv'
  BY JobInductive
<1>. QED
  BY <1>1, <1>2, PTL DEF Spec

\* When there is a window.env, the CSVs beside it are all that the pod measured
\* and the window is the one its clock saw, whatever was fetched.
THEOREM OnlyMeasuredIsCollected ==
    Spec => []CollectedIsMeasured
<1>1. JobInv => CollectedIsMeasured
  <2>. SUFFICES ASSUME JobInv, window # <<>> PROVE CollectedIsMeasured
    BY DEF CollectedIsMeasured
  <2>1. /\ collector = "done" /\ Whole /\ window = marks
        /\ files = [s \in Seeds |-> Csv(s)]
    BY DEF JobInv, CollectInv, WriteInv
  <2>2. pod = "Complete" /\ ParseInv
    BY <2>1 DEF JobInv, CollectInv, StageInv
  <2>3. marks["CELL_START"] < marks["CELL_END"]
    BY <2>1 DEF Whole
  <2>. QED
    BY <2>1, <2>2, <2>3 DEF CollectedIsMeasured, ParseInv
<1>. QED
  BY <1>1, CollectionInvariant, PTL

\* A CSV is written only when the frame of every seed and ALL_DONE are in the
\* lines that were fetched.
THEOREM NothingPartialIsWritten ==
    Spec => OnlyWholeIsWritten
<1>1. JobInv /\ [Next]_vars =>
          (files' # files => /\ \A s \in Seeds : IsIn(Frame(s), lines)
                             /\ AllDone \in Range(lines))
  <2>. SUFFICES ASSUME JobInv, [Next]_vars, files' # files
                PROVE  /\ \A s \in Seeds : IsIn(Frame(s), lines)
                       /\ AllDone \in Range(lines)
    OBVIOUS
  <2>1. collector = "writing"
    <3>1. \/ Fetch /\ UNCHANGED podVars
          \/ Collector \/ WriteFails
      BY DEF Next, Script, Alone, Wait, LinkChanges, vars, collectVars, outVars
    <3>2. CASE Fetch /\ UNCHANGED podVars
      BY <3>2, FetchReads DEF Fetch, JobInv
    <3>. QED
      BY <3>1, <3>2 DEF Collector, Read, ReadRaises, Parsed, Write, WriteFails, outVars
  <2>2. Whole /\ ParseInv
    BY <2>1 DEF JobInv, CollectInv, WriteInv
  <2>. QED
    BY <2>2 DEF Whole, ParseInv
<1>. QED
  BY <1>1, CollectionInvariant, PTL DEF Spec, OnlyWholeIsWritten

\* The collector rejects the log of a completed Job only when a fetch damaged
\* it, or when the replay took no second of the pod's clock.
THEOREM IntactLogsAreAccepted ==
    Spec => IntactIsAccepted
<1>1. JobInv /\ [Next]_vars =>
          (collector = "parsing" /\ collector' = "failed" => lines # log \/ clock = 0)
  <2>. SUFFICES ASSUME JobInv, [Next]_vars,
                       collector = "parsing", collector' = "failed", lines = log, clock # 0
                PROVE  FALSE
    OBVIOUS
  <2>1. pod = "Complete"
    BY DEF JobInv, CollectInv, StageInv
  <2>2. ~ReadRaises
    BY <2>1, IntactNotRaised DEF JobInv
  <2>3. Parsed
    <3>1. ~Fetch
      BY DEF JobInv, CollectInv, StageInv, Fetch
    <3>2. Collector \/ WriteFails
      BY <3>1 DEF Next, Script, Alone, Wait, LinkChanges, vars, collectVars
    <3>. QED
      BY <2>2, <3>2 DEF Collector, Read, Write, WriteFails
  <2>4. Whole
    BY <2>1, <2>3, IntactIsWhole DEF Parsed, JobInv
  <2>. QED
    BY <2>3, <2>4 DEF Parsed
<1>. QED
  BY <1>1, CollectionInvariant, PTL DEF Spec, IntactIsAccepted
=============================================================================
