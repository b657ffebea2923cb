--------------------------- MODULE ParallelSearch ---------------------------
(***************************************************************************)
(* One instance of the lane-based rollout: TrajectorySearchParallelRunner  *)
(* of agent/swe_agent/trajectory_search_parallel.py and the export of its  *)
(* record by lane_to_grpo_bundle.py.                                       *)
(*                                                                         *)
(* Lane A samples P parents from the root checkpoint; Lane B forks a root  *)
(* group of M branches from that checkpoint and a beam group of M branches *)
(* from the parents; submitted patches are evaluated, and Lane C judges    *)
(* each complete group.  The lanes run in thread pools and coroutines and  *)
(* overlap: the root group runs beside Lane A, and judging beside the      *)
(* evaluator.  Two callers depend on the boundaries between them: policy   *)
(* capacity is given back at on_policy_done, and a group is trained from   *)
(* what is exported at the end.                                            *)
(***************************************************************************)
EXTENDS OrderedSets, SequencesExt

CONSTANTS
  Configs   (* values of ParallelSearchConfig a run may be given           *)

Kinds == {"root", "beam"}

ASSUME ParallelAssumption ==
  \A c \in Configs :
    /\ {c.m, c.k, c.p, c.limit, c.workers} \subseteq Nat \ {0}
    /\ {c.depth2, c.terminal, c.gtOnSubmit, c.skipLaneC} \subseteq BOOLEAN
    /\ c.depth2 => c.m % c.p = 0
    /\ c.kinds # {}
    /\ c.kinds \subseteq IF c.depth2 THEN Kinds ELSE {"root"}

VARIABLES
  cfg,      (* this run's configuration                                    *)
  main,     (* where run() stands                                          *)
  images,   (* checkpoints that exist: 0 is the root, i is parent i        *)
  parent,   (* Lane-A parents: how far, how it ended, its step cards       *)
  group,    (* fork groups                                                 *)
  policyCalled,  (* on_policy_done has fired                               *)
  record    (* the InstanceRecord                                          *)

vars == << cfg, main, images, parent, group, policyCalled, record >>

Parents == 1 .. cfg.p
NoBranch == [ parent |-> 0, at |-> "queued", result |-> "none", gt |-> "no" ]
NoGroup == [ at |-> "off", branches |-> <<>>, policyDone |-> FALSE,
             laneC |-> "no", scored |-> FALSE ]

Init ==
  /\ cfg \in Configs
  /\ main = "root"
  /\ images = {}
  /\ parent = [ i \in Parents |->
                  [ at |-> "off", result |-> "none", cards |-> 0 ] ]
  /\ group = [ g \in Kinds |-> NoGroup ]
  /\ policyCalled = FALSE
  /\ record = [ laneAError |-> FALSE, skipped |-> {}, groups |-> {},
                completed |-> FALSE, failed |-> FALSE ]

(* Definitions named "Bug..." are plausible slips in the definition that    *)
(* follows them; nothing uses them.                                        *)

-----------------------------------------------------------------------------
(* Lane A.                                                                 *)

(* _create_root_mid_cp, and the tasks run() starts on it.                  *)
CreateRoot ==
  /\ main = "root"
  /\ images' = {0}
  /\ group' = IF "root" \in cfg.kinds
              THEN [ group EXCEPT !["root"].at = "start" ]
              ELSE group
  /\ IF "beam" \in cfg.kinds
     THEN /\ main' = "parents"
          /\ parent' = [ i \in Parents |-> [ parent[i] EXCEPT !.at = "queued" ] ]
     ELSE /\ main' = "policy"
          /\ UNCHANGED parent
  /\ UNCHANGED << cfg, policyCalled, record >>

RootFails ==
  /\ main = "root"
  /\ main' = "cleanup"
  /\ record' = [ record EXCEPT !.failed = TRUE ]
  /\ UNCHANGED << cfg, images, parent, group, policyCalled >>

ForkParent(i) ==
  /\ parent[i].at = "queued" /\ main # "over"
  /\ parent' = [ parent EXCEPT ![i].at =
                   IF 0 \in images THEN "running" ELSE "ended",
                   ![i].result = IF 0 \in images THEN "none" ELSE "error" ]
  /\ UNCHANGED << cfg, main, images, group, policyCalled, record >>

(* _branch_initial_budget(0): the steps a parent may take.                 *)
FirstSteps == IF cfg.k < cfg.limit THEN cfg.k ELSE cfg.limit

(* The end of _run_lane_a_parent.  Only a paused parent is checkpointed;   *)
(* the step cards are counted after that, and none is an error.            *)
EndParent(i, how, cards) ==
  /\ parent[i].at = "running"
  /\ how \in {"overlength", "error"} => cards = 0
  /\ parent' = [ parent EXCEPT ![i] =
       [ at |-> "ended", cards |-> cards,
         result |-> IF how \in {"paused", "submitted"} /\ cards = 0
                    THEN "error" ELSE how ] ]
  /\ images' = IF how = "paused" THEN images \cup {i} ELSE images
  /\ UNCHANGED << cfg, main, group, policyCalled, record >>

CanContinue(i) == parent[i].result = "paused"

(* run() after gathering the parents: one error skips the beam group, and  *)
(* so does the lack of a parent that can be continued.                     *)
GatherParents ==
  /\ main = "parents"
  /\ \A i \in Parents : parent[i].at = "ended"
  /\ main' = "policy"
  /\ IF \E i \in Parents : parent[i].result = "error"
     THEN /\ record' = [ record EXCEPT !.laneAError = TRUE ]
          /\ UNCHANGED group
     ELSE IF \A i \in Parents : ~ CanContinue(i)
     THEN /\ record' = [ record EXCEPT !.skipped = {"beam"} ]
          /\ UNCHANGED group
     ELSE /\ group' = [ group EXCEPT !["beam"].at = "start" ]
          /\ UNCHANGED record
  /\ UNCHANGED << cfg, images, parent, policyCalled >>

-----------------------------------------------------------------------------
(* Lane B: _run_fork_group up to the policy boundary.                      *)

(* fork_plan: the parent every branch is forked from; parent_mid_cps keeps *)
(* the order of the parents.                                               *)
ForkPlan(g) ==
  LET usable == { i \in Parents : CanContinue(i) }
      count  == Cardinality(usable)
      each   == cfg.m \div count
  IN  IF g = "root" THEN [ b \in 1 .. cfg.m |-> 0 ]
      ELSE [ b \in 1 .. each * count |-> Nth(usable, (b - 1) \div each) ]

(* _branch_initial_budget: the remaining steps of a branch.                *)
StepsLeft(i) == i = 0 \/ parent[i].cards < cfg.limit

(* An exception in _run_fork_group: the wrapper gives the event up for it, *)
(* and the group is neither returned nor called back.                      *)
Lost(r) == [ r EXCEPT !.at = "lost", !.policyDone = TRUE ]

Queue(plan) == [ b \in DOMAIN plan |-> [ NoBranch EXCEPT !.parent = plan[b] ] ]

(* The branches before the first whose parent is out of steps; -1 when     *)
(* there is none.                                                          *)
Runnable(plan) == SelectInSeq(plan, LAMBDA i : ~ StepsLeft(i)) - 1

(* The group is planned and its branches are queued; a plan of the wrong   *)
(* length, or a parent out of steps, raises: the latter after branches     *)
(* before it were queued.                                                  *)
StartGroup(g) ==
  /\ group[g].at = "start"
  /\ LET plan == ForkPlan(g)
     IN  group' = [ group EXCEPT ![g] =
           IF Len(plan) # cfg.m THEN Lost(@)
           ELSE IF Runnable(plan) >= 0
           THEN Lost([ @ EXCEPT !.branches =
                         Queue(SubSeq(plan, 1, Runnable(plan))) ])
           ELSE [ @ EXCEPT !.at = "branches", !.branches = Queue(plan) ] ]
  /\ UNCHANGED << cfg, main, images, parent, policyCalled, record >>

BranchIds == { x \in Kinds \X (1 .. cfg.m) :
                 x[2] \in DOMAIN group[x[1]].branches }
BranchOf(x) == group[x[1]].branches[x[2]]
Running == { x \in BranchIds : BranchOf(x).at = "running" }

SetBranch(x, r) ==
  group' = [ group EXCEPT ![x[1]].branches[x[2]] = r ]

(* A worker of the Lane-B pool takes up a branch and forks its session.    *)
ForkBranch(x) ==
  /\ main # "over"
  /\ BranchOf(x).at = "queued"
  /\ Cardinality(Running) < cfg.workers
  /\ SetBranch(x, IF BranchOf(x).parent \in images
                  THEN [ BranchOf(x) EXCEPT !.at = "running" ]
                  ELSE [ BranchOf(x) EXCEPT !.at = "ended",
                                            !.result = "error" ])
  /\ UNCHANGED << cfg, main, images, parent, policyCalled, record >>

(* The end of _run_lane_b_branch.  A branch that overflows the context     *)
(* before its first turn is an error in the root group only.               *)
BranchResult(x, how) ==
  IF how # "no turns" THEN how
  ELSE IF x[1] = "beam" THEN "overlength" ELSE "error"

EndBranch(x, how) ==
  /\ BranchOf(x).at = "running"
  /\ SetBranch(x, [ BranchOf(x) EXCEPT !.at = "ended",
                                       !.result = BranchResult(x, how) ])
  /\ UNCHANGED << cfg, main, images, parent, policyCalled, record >>

(* The coroutine takes the finished branch, writes it, and sends what is   *)
(* to be evaluated to the evaluator.                                       *)
CollectBranch(x) ==
  /\ group[x[1]].at = "branches"
  /\ BranchOf(x).at = "ended"
  /\ SetBranch(x, [ BranchOf(x) EXCEPT !.at = "collected",
       !.gt = IF /\ cfg.terminal \/ BranchOf(x).result = "submitted"
                 /\ BranchOf(x).result # "error"
              THEN "running" ELSE "no" ])
  /\ UNCHANGED << cfg, main, images, parent, policyCalled, record >>

AllCollected(g) ==
  \A b \in 1 .. cfg.m : group[g].branches[b].at = "collected"
Valid(g) ==
  \A b \in 1 .. cfg.m : group[g].branches[b].result # "error"

BugLaneCPlan(g) ==
  IF cfg.skipLaneC THEN "skipped"
  ELSE IF cfg.gtOnSubmit THEN "after GT"
  ELSE IF Valid(g) THEN "running" ELSE "no"

(* Lane C starts at once, unless GT scores feed it.                        *)
LaneCPlan(g) ==
  IF cfg.skipLaneC \/ ~ Valid(g) THEN "skipped"
  ELSE IF cfg.gtOnSubmit THEN "after GT" ELSE "running"

(* The policy boundary.                                                    *)
EndPolicy(g) ==
  /\ group[g].at = "branches"
  /\ AllCollected(g)
  /\ group' = [ group EXCEPT ![g] =
       [ @ EXCEPT !.at = "judging", !.policyDone = TRUE,
                  !.laneC = LaneCPlan(g) ] ]
  /\ UNCHANGED << cfg, main, images, parent, policyCalled, record >>

-----------------------------------------------------------------------------
(* The evaluator and Lane C.                                               *)

(* _evaluate_gt: an infrastructure error leaves no score.                  *)
EndEvaluation(x, scored) ==
  /\ BranchOf(x).gt = "running"
  /\ SetBranch(x, [ BranchOf(x) EXCEPT !.gt =
                      IF scored THEN "scored" ELSE "failed" ])
  /\ UNCHANGED << cfg, main, images, parent, policyCalled, record >>

AllEvaluated(g) ==
  \A b \in 1 .. cfg.m : group[g].branches[b].gt # "running"

StartJudging(g) ==
  /\ group[g].at = "judging" /\ group[g].laneC = "after GT"
  /\ AllEvaluated(g)
  /\ group' = [ group EXCEPT ![g].laneC = "running" ]
  /\ UNCHANGED << cfg, main, images, parent, policyCalled, record >>

(* _run_lane_c.  The judge's scores are stored before the rewards are      *)
(* derived from them, and stay when that raises (_apply_collapse_rewards). *)
RewardsRaise(g) ==
  cfg.gtOnSubmit /\ \E b \in 1 .. cfg.m :
    /\ group[g].branches[b].result = "submitted"
    /\ group[g].branches[b].gt # "scored"

EndJudging(g, judged) ==
  /\ group[g].laneC = "running"
  /\ group' = [ group EXCEPT ![g] =
       [ @ EXCEPT !.scored = judged,
                  !.laneC = IF judged /\ ~ RewardsRaise(g)
                            THEN "done" ELSE "error" ] ]
  /\ UNCHANGED << cfg, main, images, parent, policyCalled, record >>

BugParentImages(g) ==
  IF g = "beam" THEN { i \in Parents : CanContinue(i) } ELSE {0}

(* The checkpoints a group removes: its beam parents.                      *)
ParentImages(g) ==
  IF g = "beam" THEN { i \in Parents : CanContinue(i) } ELSE {}

(* The end of _run_fork_group, and on_group_done.                          *)
FinishGroup(g) ==
  /\ group[g].at = "judging"
  /\ AllEvaluated(g)
  /\ group[g].laneC \in {"skipped", "done", "error"}
  /\ group' = [ group EXCEPT ![g].at = "done" ]
  /\ images' = images \ ParentImages(g)
  /\ UNCHANGED << cfg, main, parent, policyCalled, record >>

-----------------------------------------------------------------------------
(* run() once the groups are under way.                                    *)
Started == { g \in Kinds : group[g].at # "off" }

BugPolicyReached == \E g \in Started : group[g].policyDone

PolicyReached == \A g \in Started : group[g].policyDone

AwaitPolicy ==
  /\ main = "policy"
  /\ PolicyReached
  /\ policyCalled' = (Started # {})
  /\ main' = "drain"
  /\ UNCHANGED << cfg, images, parent, group, record >>

Whole(g) ==
  /\ Valid(g)
  /\ \A b \in 1 .. cfg.m :
       LET r == group[g].branches[b]
       IN  r.result = "submitted" => r.gt = "scored"
  /\ cfg.skipLaneC \/ group[g].scored

BugExpected == { g \in Started : group[g].at = "done" }

(* Requested groups, less those the topology left out.                     *)
Expected == cfg.kinds \ record.skipped

Drain ==
  /\ main = "drain"
  /\ \A g \in Started : group[g].at \in {"done", "lost"}
  /\ LET done == { g \in Started : group[g].at = "done" }
     IN  record' = [ record EXCEPT
           !.groups = done,
           !.completed = /\ ~ record.laneAError
                         /\ Cardinality(done) = Cardinality(Expected)
                         /\ \A g \in done : Whole(g) ]
  /\ main' = "cleanup"
  /\ UNCHANGED << cfg, images, parent, group, policyCalled >>

(* _cleanup_all, after the pools were told to shut down: queued branches   *)
(* are cancelled, and every checkpoint is removed.                         *)
Cleanup ==
  /\ main = "cleanup"
  /\ images' = {}
  /\ main' = "over"
  /\ UNCHANGED << cfg, parent, group, policyCalled, record >>

-----------------------------------------------------------------------------
LaneA ==
  \E i \in Parents :
    \/ ForkParent(i)
    \/ \E how \in {"paused", "submitted", "overlength", "error"} :
         \E cards \in 0 .. FirstSteps : EndParent(i, how, cards)

LaneB ==
  \/ \E g \in Kinds : StartGroup(g) \/ EndPolicy(g)
  \/ \E x \in BranchIds :
       \/ ForkBranch(x) \/ CollectBranch(x)
       \/ \E how \in {"paused", "submitted", "overlength", "no turns",
                      "error"} : EndBranch(x, how)

Run == CreateRoot \/ RootFails \/ GatherParents \/ AwaitPolicy \/ Drain
         \/ Cleanup

Policy == LaneA \/ LaneB \/ Run

Evaluate ==
  \/ \E x \in BranchIds, scored \in BOOLEAN : EndEvaluation(x, scored)
  \/ \E g \in Kinds :
       \/ StartJudging(g) \/ FinishGroup(g)
       \/ \E judged \in BOOLEAN : EndJudging(g, judged)

Next == Policy \/ Evaluate

Spec == Init /\ [][Next]_vars

(* Sessions run under step limits and timeouts, so policy work goes on.    *)
(* Nothing is assumed of the evaluator and of the hosted judge.            *)
FairSpec == Spec /\ WF_vars(Policy)

-----------------------------------------------------------------------------
(* What the bundle exports of a group (fork_group_to_export_group).        *)
Exported ==
  { g \in record.groups :
      Valid(g) /\ IF cfg.skipLaneC
                  THEN \A b \in 1 .. cfg.m :
                         group[g].branches[b].gt = "scored"
                  ELSE group[g].scored }

(* A branch is never forked from a checkpoint that is gone: the root's     *)
(* serves both groups and Lane A, a parent's its share of the beam group.  *)
ForkPointAlive ==
  /\ \A x \in BranchIds :
       BranchOf(x).at = "queued" /\ main # "over"
         => BranchOf(x).parent \in images
  /\ \A i \in Parents : parent[i].at = "queued" => 0 \in images

(* on_policy_done gives the instance's inference capacity away, and        *)
(* _cleanup_all closes sessions under whoever uses them: by then no Lane-A *)
(* or Lane-B session runs and none will start.                             *)
PolicyDoneIsQuiet ==
  policyCalled \/ main \in {"cleanup", "over"} =>
    /\ \A i \in Parents : parent[i].at \in {"off", "ended"}
    /\ \A x \in BranchIds : BranchOf(x).at \in {"ended", "collected"}
    /\ \A g \in Kinds : group[g].at # "start"

(* A record that says completed holds every requested group the topology   *)
(* did not leave out, and each of them is exported with all its rewards.   *)
(* (Without a judge the export asks for more than completed does: the      *)
(* scores of the branches that were not submitted.)                        *)
CompletedIsWhole ==
  record.completed /\ ~ cfg.skipLaneC => Exported = cfg.kinds \ record.skipped

(* The run ends, and the instance has long given its policy capacity back, *)
(* once every evaluation is answered, whatever sessions, judges and lanes  *)
(* failed on the way.                                                      *)
EveryRunEnds == WF_vars(Evaluate) => <>(main = "over")
=============================================================================
