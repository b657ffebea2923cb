-------------------------- MODULE TrajectorySearch -------------------------
(***************************************************************************)
(* TrajectorySearchRunner of agent/swe_agent/trajectory_search.py: a beam  *)
(* search over agent trajectories.  A round resumes M branches from the    *)
(* container images of its parents, judges them, keeps some as the next    *)
(* frontier and commits an image for each one kept.  Four executors work   *)
(* beside the loop: node files (one worker), ground-truth evaluations (one *)
(* worker), manifests (one worker) and terminal evaluations.  The process  *)
(* may raise or be killed, and is started again on its run directory.      *)
(*                                                                         *)
(* Judge scores are abstracted: selection and tie breaking may prefer any  *)
(* branch, which covers the "best", "probability" and "random" strategies. *)
(***************************************************************************)
EXTENDS OrderedSets, SequencesExt

CONSTANTS
  MaxRounds, M, P,   (* SearchConfig max_rounds, m and p                    *)
  SearchConfigs,     (* its calculate_gt_reward, its first-round gate, its  *)
                     (* beam_size; and the kind of environment              *)
  MaxRaises,         (* bound: rounds that raise                            *)
  MaxKills,          (* bound: times the process is killed                  *)
  MaxResumes         (* bound: starts with --resume-run-dir                 *)

ASSUME SearchAssumption ==
  /\ {MaxRounds, M, P} \subseteq Nat \ {0}
  /\ SearchConfigs \subseteq
       [ gt : BOOLEAN, gate : BOOLEAN, beam : Nat \ {0},
         container : {"docker", "singularity"} ]
  /\ {MaxRaises, MaxKills, MaxResumes} \subseteq Nat

VARIABLES
  config,    (* the SearchConfig switches                                  *)
  pc,        (* "start", "loop", "round", "gate", "final", "close", "exit" *)
  outcome,   (* "none", "ok", "raised", "killed"                           *)
  born,      (* node number to parent, primary parent of its round, depth  *)
  batch,     (* branches of the round: node number to outcome              *)
  parents,   (* parent_ids of the round                                    *)
  mem,       (* the runner's fields                                        *)
  queue,     (* jobs of the executors                                      *)
  terminal,  (* running terminal evaluations (_async_terminal_futures)     *)
  sessions,  (* nodes whose session is open                                *)
  nodeImages, (* nodes whose checkpoint (image or sandbox) exists          *)
  inherited, (* those that were there when this process started            *)
  disk,      (* the run directory                                          *)
  left       (* failures and resumes that may still happen                 *)

imageVars == << nodeImages, inherited >>
runnerVars ==
  << config, pc, outcome, born, batch, parents, mem, queue, terminal,
     sessions, imageVars, disk, left >>

Root == 0
None == -1
Ids == DOMAIN born
Nodes == DOMAIN mem.status
EmptyMap == [ n \in {} |-> "none" ]

(* Root's image is the base image, which is never swept.                   *)
Restorable(n) == n = Root \/ n \in nodeImages

NewMem ==
  [ round |-> 0, status |-> EmptyMap, frontier |-> << >>, finished |-> {},
    best |-> None, go |-> TRUE, snap |-> {}, judge |-> {},
    resumed |-> FALSE, loaded |-> {}, retry |-> FALSE ]

NewQueue == [ files |-> << >>, evals |-> << >>, manifests |-> << >> ]
WorkDone == queue.files = << >> /\ queue.evals = << >> /\ terminal = {}

ManifestOf(m) ==
  [ round |-> m.round, ids |-> DOMAIN m.status, frontier |-> m.frontier,
    finished |-> m.finished, best |-> m.best, go |-> m.go ]

NewDisk ==
  [ manifest |-> ManifestOf(NewMem), hasManifest |-> FALSE,
    node |-> EmptyMap, snap |-> {}, judge |-> {}, rounds |-> {},
    messages |-> {}, terminals |-> {} ]

RunnerInit ==
  /\ config \in SearchConfigs
  /\ pc = "start" /\ outcome = "none"
  /\ born = [ n \in {Root} |-> [ parent |-> None, primary |-> None,
                                 round |-> 0, depth |-> 0 ] ]
  /\ batch = EmptyMap /\ parents = << >>
  /\ mem = NewMem /\ queue = NewQueue /\ terminal = {} /\ sessions = {}
  /\ nodeImages = {} /\ inherited = {} /\ disk = NewDisk
  /\ left = [ raise |-> MaxRaises, kill |-> MaxKills,
              resume |-> MaxResumes ]

(***************************************************************************)
(* Executor jobs.  With ground truth the judge and round files of a round  *)
(* are the evaluation's, otherwise the artifact writer's.                  *)
(***************************************************************************)
FilesJob(status, snaps) ==
  [ status |-> status, snap |-> snaps, messages |-> {}, judge |-> {},
    rounds |-> {} ]
EvalJob(nodes, r) == [ judge |-> nodes, round |-> r ]

Overlay(f, g) ==
  [ n \in DOMAIN f \cup DOMAIN g |-> IF n \in DOMAIN g THEN g[n] ELSE f[n] ]

(* The artifact writer's next job.                                         *)
WriteFiles ==
  /\ queue.files # << >>
  /\ LET j == Head(queue.files) IN
       disk' = [ disk EXCEPT !.node = Overlay(@, j.status),
                             !.snap = @ \cup j.snap,
                             !.messages = @ \cup j.messages,
                             !.judge = @ \cup j.judge,
                             !.rounds = @ \cup j.rounds ]
  /\ queue' = [ queue EXCEPT !.files = Tail(@) ]
  /\ UNCHANGED << config, pc, outcome, born, batch, parents, mem, terminal,
                  sessions, imageVars, left >>

(* Bug: a round is evaluated as soon as it is submitted.                   *)
BugNextEval(q) == Len(q)

(* PatchEvalManager has one worker: rounds are evaluated in order.         *)
NextEval(q) == 1

EvaluateRound ==
  /\ queue.evals # << >>
  /\ LET i == NextEval(queue.evals) IN
     LET j == queue.evals[i] IN
       /\ disk' = [ disk EXCEPT !.judge = @ \cup j.judge,
                                !.rounds = @ \cup {j.round} ]
       /\ queue' = [ queue EXCEPT !.evals = RemoveAt(@, i) ]
  /\ UNCHANGED << config, pc, outcome, born, batch, parents, mem, terminal,
                  sessions, imageVars, left >>

WriteManifest ==
  /\ queue.manifests # << >>
  /\ disk' = [ disk EXCEPT !.manifest = Head(queue.manifests),
                           !.hasManifest = TRUE ]
  /\ queue' = [ queue EXCEPT !.manifests = Tail(@) ]
  /\ UNCHANGED << config, pc, outcome, born, batch, parents, mem, terminal,
                  sessions, imageVars, left >>

(* Bug: the session the round left open is not disposed.                   *)
BugFinishTerminal(n) ==
  /\ n \in terminal
  /\ terminal' = terminal \ {n}
  /\ disk' = [ disk EXCEPT !.terminals = @ \cup {n} ]
  /\ UNCHANGED << config, pc, outcome, born, batch, parents, mem, queue,
                  sessions, imageVars, left >>

(* _run_async_terminal_evaluation: the branch is completed and graded, or  *)
(* its error recorded, and its session disposed.  Terminal messages exist  *)
(* only in the first case, so nothing may rely on them.                    *)
FinishTerminal(n) ==
  /\ n \in terminal
  /\ terminal' = terminal \ {n}
  /\ sessions' = sessions \ {n}
  /\ disk' = [ disk EXCEPT !.terminals = @ \cup {n} ]
  /\ UNCHANGED << config, pc, outcome, born, batch, parents, mem, queue,
                  imageVars, left >>

(***************************************************************************)
(* Starting: a fresh root, or the manifest of an earlier process.          *)
(***************************************************************************)
InitializeRoot ==
  /\ pc = "start" /\ ~disk.hasManifest
  /\ LET m == [ NewMem EXCEPT !.status = [ n \in {Root} |-> "frontier" ],
                              !.frontier = << Root >>,
                              !.snap = {Root}, !.judge = {Root} ] IN
       /\ mem' = m
       /\ queue' = [ queue EXCEPT
            !.files = Append(@, [ FilesJob(m.status, {Root})
                                    EXCEPT !.judge = {Root} ]),
            !.manifests = Append(@, ManifestOf(m)) ]
  /\ pc' = "loop"
  /\ UNCHANGED << config, outcome, born, batch, parents, terminal, sessions,
                  imageVars, disk, left >>

CompletedRounds(rounds) ==
  CHOOSE r \in 0 .. Cardinality(rounds) :
    1 .. r \subseteq rounds /\ r + 1 \notin rounds

(* _load_manifest: only nodes whose files exist come back, and a round     *)
(* without its round file is to be run again.                              *)
LoadManifest ==
  /\ pc = "start" /\ disk.hasManifest
  /\ LET m == disk.manifest
         nodes == m.ids \cap DOMAIN disk.node
         completed == CompletedRounds(disk.rounds) IN
       mem' = [ round |-> IF m.round > completed THEN completed ELSE m.round,
                status |-> [ n \in nodes |-> disk.node[n] ],
                frontier |-> m.frontier, finished |-> m.finished,
                best |-> m.best, go |-> m.go,
                snap |-> disk.snap \cap nodes,
                judge |-> disk.judge \cap nodes,
                resumed |-> TRUE, loaded |-> nodes,
                retry |-> m.round > completed ]
  /\ pc' = "loop"
  /\ UNCHANGED << config, outcome, born, batch, parents, queue, terminal,
                  sessions, imageVars, disk, left >>

(***************************************************************************)
(* A round.                                                                *)
(***************************************************************************)
MinOf(a, b) == IF a < b THEN a ELSE b

(* _round_parent_ids; the frontier's first node is looked up in the nodes. *)
RoundParents ==
  LET first == Head(mem.frontier)
      same == Filter(mem.frontier,
                     { n \in Nodes : /\ born[n].depth = born[first].depth
                                     /\ mem.status[n] = "frontier" })
  IN  SubSeq(same, 1, MinOf(Len(same), MinOf(config.beam, M)))

(* What the loop of run() looks up before a round, and finds missing when  *)
(* the files of a frontier node were not written before a kill.            *)
LookupFails ==
  /\ mem.frontier # << >>
  /\ \/ Head(mem.frontier) \notin Nodes
     \/ /\ Head(mem.frontier) \in Nodes
        /\ mem.status[Head(mem.frontier)] # "finished"
        /\ ~(Range(mem.frontier) \subseteq Nodes)

SearchOver ==
  \/ mem.round >= MaxRounds
  \/ config.gate /\ mem.round >= 1 /\ ~mem.go
  \/ mem.frontier = << >>
  \/ /\ mem.frontier # << >> /\ ~LookupFails
     /\ \/ mem.status[Head(mem.frontier)] = "finished"
        \/ RoundParents = << >>

LeaveLoop ==
  /\ pc = "loop" /\ SearchOver
  /\ pc' = "final"
  /\ UNCHANGED << config, outcome, born, batch, parents, mem, queue, terminal,
                  sessions, imageVars, disk, left >>

(* divmod: the first parents get the extra branches.                       *)
Samples(k, ps) == (M \div Len(ps)) + (IF k <= M % Len(ps) THEN 1 ELSE 0)
ParentOf(i, ps) ==
  ps[CHOOSE k \in DOMAIN ps :
       LET before == FoldFunctionOnSet(+, 0, [ l \in DOMAIN ps |->
                                                 Samples(l, ps) ], 1 .. k - 1)
       IN  before < i /\ i <= before + Samples(k, ps)]

(* The snapshot and judge caches are checked for every parent, then every  *)
(* branch resumes a session from its parent's image and runs K steps; a    *)
(* branch that raises there is recorded as invalid and disposed.           *)
SampleBranches ==
  /\ pc = "loop" /\ ~SearchOver /\ ~LookupFails
  /\ LET ps == RoundParents
         first == Max(Ids) + 1
         new == first .. first + M - 1 IN
       /\ Range(ps) \subseteq mem.snap \cap mem.judge
       /\ \A n \in Range(ps) : Restorable(n)
       /\ parents' = ps
       /\ mem' = [ mem EXCEPT !.round = @ + 1, !.retry = FALSE ]
       /\ born' = Overlay(born, [ n \in new |->
            LET p == ParentOf(n - first + 1, ps) IN
              [ parent |-> p, primary |-> ps[1], round |-> mem.round + 1,
                depth |-> born[p].depth + 1 ] ])
       /\ \E o \in [ new -> {"error", "paused", "finished"} ] :
            /\ batch' = o
            /\ sessions' = sessions \cup { n \in new : o[n] # "error" }
  /\ pc' = "round"
  /\ UNCHANGED << config, outcome, queue, terminal, imageVars, disk, left >>

(* A round's local variables, gone when it is over.                        *)
NoRound == batch' = EmptyMap /\ parents' = << >>

ValidBranches == { n \in DOMAIN batch : batch[n] # "error" }
Archive(status) ==
  [ n \in DOMAIN status |-> IF n \in Range(parents) THEN "archived"
                                                    ELSE status[n] ]
ArchivedFiles == [ n \in Range(parents) |-> "archived" ]

(* The elements of a frontier that are no parents of the round.            *)
Others(frontier) == Filter(frontier, Range(frontier) \ Range(parents))

SaveManifest(files, evals, m) ==
  queue' = [ files |-> queue.files \o files, evals |-> queue.evals \o evals,
             manifests |-> Append(queue.manifests, ManifestOf(m)) ]

(* Fewer than two branches returned: the parents are given up.             *)
PeacefulExit ==
  /\ pc = "round" /\ Cardinality(ValidBranches) < 2
  /\ LET rest == Others(mem.frontier)
         m == [ mem EXCEPT !.status = Archive(@), !.frontier = rest,
                  !.go = @ /\ ~(mem.round = 1 /\ config.gt),
                  !.best = IF rest # << >> THEN rest[1] ELSE parents[1] ] IN
       /\ mem' = m
       /\ SaveManifest(<< FilesJob(ArchivedFiles, {}) >>, << >>, m)
  /\ sessions' = sessions \ DOMAIN batch
  /\ pc' = "loop" /\ NoRound
  /\ UNCHANGED << config, outcome, born, terminal, imageVars, disk, left >>

(* _select_beam_branches: none when all regressed; otherwise as many of    *)
(* the others as retention allows, rounded down to whole beams, filled up  *)
(* to one beam with regressed ones.                                        *)
KeepCount(others) ==
  LET keep == MinOf(P, others)
      width == Len(parents) IN
    IF keep >= width THEN keep - (keep % width) ELSE keep

SelectBeam(chosen, regressed) ==
  LET others == ValidBranches \ regressed
      fill == MinOf(Len(parents), P) - KeepCount(Cardinality(others))
      wanted(n) == MinOf(n, Cardinality(regressed)) IN
    IF others = {}
    THEN chosen = {}
    ELSE /\ Cardinality(chosen \cap others) = KeepCount(Cardinality(others))
         /\ Cardinality(chosen \cap regressed) =
              IF fill > 0 THEN wanted(fill) ELSE 0

NewStatus(chosen) ==
  [ n \in ValidBranches |->
      CASE n \notin chosen -> "dropped"
        [] n \in chosen /\ batch[n] = "finished" -> "finished"
        [] n \in chosen /\ batch[n] = "paused" -> "frontier" ]

(* Bug: only the parent of the next round is kept.                         *)
BugKeepTags(m) == IF m.frontier = << >> THEN {} ELSE {Head(m.frontier)}

(* The nodes whose image the sweep after a round keeps.                    *)
KeepTags(m) == Range(m.frontier) \cap m.snap

(* Bug: docker images are looked up in the snapshot cache, too.            *)
BugSweep(keep) == nodeImages \ (mem.snap \ keep)

(* _sweep_checkpoint_images leaves these: docker lists the repository of   *)
(* the task, whoever filled it; for singularity only the sandboxes that    *)
(* the runner has in its snapshot cache are known.                         *)
Sweep(keep) ==
  IF config.container = "docker" THEN nodeImages \cap keep
                                 ELSE nodeImages \ (mem.snap \ keep)

(* Judging: any of the branches may be found worse than its parent, but    *)
(* children of the root are compared with their siblings only.             *)
Regressions == IF parents[1] = Root THEN {{}} ELSE SUBSET ValidBranches

(* The runner's fields once the branches are judged and chosen.            *)
AfterRound(chosen, best) ==
  LET status == Overlay(Archive(mem.status), NewStatus(chosen))
      front == InOrder(chosen) \o Others(mem.frontier)
  IN  [ mem EXCEPT
          !.status = status,
          !.frontier = Filter(front, { n \in DOMAIN status :
             status[n] \in {"frontier", "finished"} }),
          !.finished = @ \cup { n \in chosen : batch[n] = "finished" },
          !.best = best,
          !.snap = @ \cup chosen, !.judge = @ \cup ValidBranches ]

(* What the artifact writer is given: with ground truth no judge and round *)
(* files, but the branches' messages.                                      *)
RoundFiles(chosen) ==
  LET files == FilesJob(Overlay(NewStatus(chosen), ArchivedFiles), chosen)
  IN  IF config.gt
      THEN [ files EXCEPT !.messages = ValidBranches ]
      ELSE [ files EXCEPT !.judge = ValidBranches, !.rounds = {mem.round} ]

(* Judging through the submissions of the round; sub is the branch whose   *)
(* terminal run goes on.  The order of the chosen branches is that of      *)
(* their numbers: outcomes and the choice are arbitrary, so siblings are   *)
(* interchangeable.                                                        *)
FinishRound ==
  /\ pc = "round" /\ Cardinality(ValidBranches) >= 2
  /\ \E regressed \in Regressions, chosen \in SUBSET ValidBranches :
       /\ SelectBeam(chosen, regressed)
       /\ \E sub \in (IF config.gt \/ chosen = {} THEN {{}}
                      ELSE { {n} : n \in chosen }),
             best \in (IF chosen = {} THEN Range(parents) ELSE {mem.best}) :
            /\ mem' = AfterRound(chosen, best)
            /\ nodeImages' = nodeImages \cup chosen
            /\ terminal' = terminal \cup sub
            /\ sessions' = (sessions \ DOMAIN batch) \cup sub
            /\ queue' = [ queue EXCEPT
                 !.files = Append(@, RoundFiles(chosen)),
                 !.evals = IF config.gt
                           THEN Append(@, EvalJob(ValidBranches, mem.round))
                           ELSE @ ]
  /\ pc' = "gate"
  /\ UNCHANGED << config, outcome, born, batch, parents, inherited, disk,
                  left >>

(* The first round may wait for its own evaluation and stop the search;    *)
(* then the images no frontier node needs are removed.                     *)
EndRound(go) ==
  /\ pc = "gate"
  /\ LET gated == config.gate /\ config.gt /\ mem.round = 1
         m == [ mem EXCEPT !.go = go ] IN
       /\ IF gated THEN queue.evals = << >> ELSE go = mem.go
       /\ mem' = m
       /\ nodeImages' = Sweep(KeepTags(m))
       /\ SaveManifest(<< >>, << >>, m)
  /\ pc' = "loop" /\ NoRound
  /\ UNCHANGED << config, outcome, born, terminal, sessions, inherited, disk,
                  left >>

(***************************************************************************)
(* The end of run(): results, then the finally block.                      *)
(***************************************************************************)
Finished == mem.finished \cap Nodes
LastTerminals ==
  LET done == disk.terminals \cap Nodes IN
    { n \in done : \A o \in done : born[o].round <= born[n].round }

(* The nodes _finalize_outputs may settle on.                              *)
FinalChoices ==
  CASE ~config.gt /\ LastTerminals # {} -> LastTerminals
    [] (config.gt \/ LastTerminals = {}) /\ mem.finished # {} -> Finished
    [] (config.gt \/ LastTerminals = {}) /\ mem.finished = {}
         /\ mem.frontier # << >> -> Range(mem.frontier) \cap Nodes
    [] OTHER -> {mem.best} \cap Nodes

(* Terminal messages, or those of the cached snapshot.                     *)
HasMessages(n) == n \in disk.messages \/ n \in mem.snap

Finalize ==
  /\ pc = "final" /\ WorkDone
  /\ \E n \in FinalChoices :
       /\ HasMessages(n)
       /\ LET m == [ mem EXCEPT !.best = n,
                 !.frontier = IF mem.status[n] = "finished" THEN << n >>
                                                           ELSE @ ] IN
            /\ mem' = m
            /\ SaveManifest(<< >>, << >>, m)
  /\ outcome' = "ok"
  /\ pc' = "close"
  /\ UNCHANGED << config, born, batch, parents, terminal, sessions, imageVars,
                  disk, left >>

(* An exception leaves the loop for the finally block; sessions the round  *)
(* opened stay open.                                                       *)
Raise ==
  /\ outcome' = "raised"
  /\ pc' = "close" /\ NoRound
  /\ UNCHANGED << config, born, queue, terminal, sessions, inherited, disk >>

(* What may have been committed of the round so far: the chosen branches   *)
(* are checkpointed one by one before any of them is cached.               *)
CommittedSoFar ==
  { some \in SUBSET ValidBranches :
      \/ some = {}
      \/ /\ Cardinality(ValidBranches) >= 2
         /\ \E regressed \in Regressions, chosen \in SUBSET ValidBranches :
              SelectBeam(chosen, regressed) /\ some \subseteq chosen }

(* Judging, the commit of an image or a terminal evaluation fails.         *)
RoundRaises ==
  /\ pc = "round" /\ left.raise > 0
  /\ left' = [ left EXCEPT !.raise = @ - 1 ]
  /\ \E some \in CommittedSoFar : nodeImages' = nodeImages \cup some
  /\ Raise /\ UNCHANGED mem

(* A resumed process does not find what its manifest names.                *)
LoopRaises ==
  /\ pc = "loop" /\ ~SearchOver
  /\ \/ LookupFails /\ UNCHANGED mem
     \/ /\ ~LookupFails
        /\ \/ ~(Range(RoundParents) \subseteq mem.snap \cap mem.judge)
           \/ \E n \in Range(RoundParents) : ~Restorable(n)
        /\ mem' = [ mem EXCEPT !.round = @ + 1 ]
  /\ Raise /\ UNCHANGED << nodeImages, left >>

FinalRaises ==
  /\ pc = "final"
  /\ WorkDone
  /\ \/ FinalChoices = {}
     \/ \E n \in FinalChoices : ~HasMessages(n)
  /\ Raise /\ UNCHANGED << mem, nodeImages, left >>

(* Executors are shut down and the sweep is told to keep nothing.          *)
Close ==
  /\ pc = "close"
  /\ WorkDone
  /\ nodeImages' = Sweep({})
  /\ IF Nodes # {} THEN SaveManifest(<< >>, << >>, mem)
                   ELSE UNCHANGED queue
  /\ pc' = "shutdown"
  /\ UNCHANGED << config, outcome, born, batch, parents, mem, terminal,
                  sessions, inherited, disk, left >>

Shutdown ==
  /\ pc = "shutdown" /\ queue.manifests = << >>
  /\ pc' = "exit"
  /\ UNCHANGED << config, outcome, born, batch, parents, mem, queue, terminal,
                  sessions, imageVars, disk, left >>

(***************************************************************************)
(* The process is killed; or started again on the run directory.           *)
(***************************************************************************)
Kill ==
  /\ pc \notin {"start", "exit"} /\ left.kill > 0
  /\ left' = [ left EXCEPT !.kill = @ - 1 ]
  /\ pc' = "exit" /\ outcome' = "killed"
  /\ mem' = NewMem /\ queue' = NewQueue /\ terminal' = {}
  /\ NoRound /\ sessions' = {}
  /\ \E some \in IF pc = "round" THEN CommittedSoFar ELSE {{}} :
       nodeImages' = nodeImages \cup some
  /\ UNCHANGED << config, born, inherited, disk >>

(* Nodes that left no trace are forgotten.                                 *)
Resume ==
  /\ pc = "exit" /\ outcome # "ok" /\ left.resume > 0
  /\ left' = [ left EXCEPT !.resume = @ - 1 ]
  /\ pc' = "start" /\ outcome' = "none"
  /\ mem' = NewMem /\ NoRound /\ sessions' = {}
  /\ born' = Restrict(born, Ids \cap ({Root} \cup nodeImages
                \cup DOMAIN disk.node \cup disk.manifest.ids))
  /\ inherited' = nodeImages
  /\ UNCHANGED << config, queue, terminal, nodeImages, disk >>

RunnerNext ==
  \/ WriteFiles \/ EvaluateRound \/ WriteManifest
  \/ \E n \in terminal : FinishTerminal(n)
  \/ InitializeRoot \/ LoadManifest
  \/ LeaveLoop \/ SampleBranches \/ PeacefulExit \/ FinishRound
  \/ \E go \in BOOLEAN : EndRound(go)
  \/ Finalize \/ RoundRaises \/ LoopRaises \/ FinalRaises
  \/ Close \/ Shutdown \/ Kill \/ Resume

RunnerSpec == RunnerInit /\ [][RunnerNext]_runnerVars

(***************************************************************************)
(* Properties.                                                             *)
(***************************************************************************)

(* Between rounds, whatever this process put on the frontier and may still *)
(* expand can be resumed: the sweep of the round before and the caches     *)
(* leave it its image, its snapshot and its judge payload.                 *)
FrontierRestorable ==
  pc = "loop" =>
    \A n \in Range(mem.frontier) \cap (Nodes \ mem.loaded) :
      mem.status[n] = "frontier" =>
        n \in mem.snap \cap mem.judge /\ Restorable(n)

(* A process that succeeds has closed every session, although one session  *)
(* per round outlives its round, and leaves no checkpoint of its own and   *)
(* none of a predecessor that it knows; with docker it leaves none at all, *)
(* and neither does one that raises.  Singularity sandboxes of a round     *)
(* that raised and of a killed predecessor do stay.                        *)
NothingLeaks ==
  /\ pc = "exit" /\ outcome = "ok" =>
       sessions = {} /\ nodeImages \subseteq inherited \ mem.snap
  /\ pc = "exit" /\ outcome # "killed" /\ config.container = "docker" =>
       nodeImages = {}

(* The evaluation of a round reads the reward of its primary parent from   *)
(* that node's judge file: the parent was evaluated first, in this process *)
(* or in an earlier one.                                                   *)
ParentEvaluatedFirst ==
  [][config.gt =>
       \A n \in disk'.judge \ disk.judge :
         born[n].primary \in {None, Root} \cup disk.judge]_runnerVars

(* "retrying the interrupted round": a resumed search whose manifest is a  *)
(* round ahead of the round files can run that round again.                *)
InterruptedRoundRetried ==
  pc = "loop" /\ mem.retry =>
    \A n \in Range(mem.frontier) : n \in Nodes /\ Restorable(n)
=============================================================================
