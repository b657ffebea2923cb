--------------------------- MODULE PolicyVersion ----------------------------
(***************************************************************************)
(* Weight-epoch coordination: agent/swe_agent/policy_version.py with its   *)
(* writer, the driver of slime/train_async.py, and its readers, the        *)
(* rollout processes that talk to the SGLang engines.                      *)
(*                                                                         *)
(* The driver announces a weight update in one small file, broadcasts the  *)
(* weights to paused engines, and then commits the new version in the      *)
(* file.  A rollout is pinned to the version that was committed when it    *)
(* was dispatched and compares the file with its pin before and after      *)
(* every request.  Requests that are in flight while the engines change    *)
(* weights go on under the new ones.  The file outlives the job.           *)
(***************************************************************************)
EXTENDS Integers

CONSTANTS
  Engines,    (* SGLang engines                                           *)
  Rollouts,   (* rollout processes that run at one time                   *)
  NumRollout, (* --num-rollout                                            *)
  MaxLives    (* bound: job incarnations                                  *)

ASSUME PolicyAssumption ==
  /\ Engines # {} /\ Rollouts # {}
  /\ Engines \cap { "none", "idle", "finished", "accepted", "rejected" } = {}
  /\ {NumRollout, MaxLives} \subseteq Nat \ {0}

Versions == -1 .. NumRollout - 1   (* -1 is "checkpoint-base"              *)
NoVersion == -2                    (* no version, or no file yet           *)

VARIABLES
  pc,       (* where the driver stands                                    *)
  life,     (* job incarnation                                            *)
  rid,      (* rollout id of the generate() call in flight or next        *)
  target,   (* version of the last or current broadcast                   *)
  file,     (* the shared JSON file                                       *)
  mine,     (* transition_id the driver got from begin                    *)
  weights,  (* checkpoint each engine serves                              *)
  paused,   (* engines hold their requests                                *)
  rollouts  (* the rollout processes                                      *)

driverVars == << pc, life, rid, target, mine >>
policyVars == << driverVars, file, weights, paused, rollouts >>

(* "used" collects the weights that really produced tokens.                *)
NoRollout == [ st |-> "none", validation |-> FALSE, pin |-> NoVersion,
               rid |-> 0, used |-> {} ]

PolicyInit ==
  /\ pc = "down" /\ life = 1 /\ rid = 0 /\ target = NoVersion
  /\ file = [ committed |-> NoVersion, target |-> NoVersion, updating |-> FALSE,
              transition |-> 0 ]
  /\ mine = 0
  /\ weights = [ e \in Engines |-> NoVersion ]
  /\ paused = FALSE
  /\ rollouts = [ w \in Rollouts |-> NoRollout ]

-----------------------------------------------------------------------------
(* Definitions named "Bug..." are plausible slips in the definition that    *)
(* follows them.  Nothing uses them: PROJECT.json names the property that  *)
(* each of them would break.                                               *)

(* The job comes up with new engines and resumes from some checkpoint the  *)
(* run got to, not necessarily the one the file names.  Its weights are    *)
(* broadcast before anything else.                                         *)
Start ==
  /\ pc = "down"
  /\ \E first \in 0 .. rid : rid' = first /\ target' = first - 1
  /\ pc' = "begin"
  /\ UNCHANGED << life, mine, file, weights, paused, rollouts >>

(* begin_policy_weight_update: the committed version stays readable.       *)
BeginUpdate ==
  /\ pc = "begin"
  /\ mine' = file.transition + 1
  /\ file' = [ file EXCEPT !.target = target, !.updating = TRUE,
                           !.transition = file.transition + 1 ]
  /\ paused' = TRUE
  /\ pc' = "broadcast"
  /\ UNCHANGED << life, rid, target, weights, rollouts >>

(* The weights reach one engine after another while all are paused.        *)
SendWeights ==
  /\ pc = "broadcast"
  /\ \E e \in Engines :
       /\ weights[e] # target
       /\ weights' = [ weights EXCEPT ![e] = target ]
  /\ UNCHANGED << driverVars, file, paused, rollouts >>

BugContinueEarly ==
  /\ pc = "broadcast"
  /\ \E e \in Engines : weights[e] = target
  /\ paused' = FALSE
  /\ pc' = "commit"
  /\ UNCHANGED << life, rid, target, mine, file, weights, rollouts >>

ContinueGeneration ==
  /\ pc = "broadcast"
  /\ \A e \in Engines : weights[e] = target
  /\ paused' = FALSE
  /\ pc' = "commit"
  /\ UNCHANGED << life, rid, target, mine, file, weights, rollouts >>

(* fail_policy_weight_update leaves the file updating; the driver raises.  *)
FailUpdate ==
  /\ pc = "broadcast"
  /\ file' = IF file.transition = mine
             THEN [ file EXCEPT !.target = target, !.updating = TRUE ]
             ELSE file
  /\ pc' = "failed"
  /\ UNCHANGED << life, rid, target, mine, weights, paused, rollouts >>

(* commit_policy_weight_update                                             *)
MayCommit ==
  file.updating /\ file.target = target /\ file.transition = mine

CommitUpdate ==
  /\ pc = "commit"
  /\ MayCommit
  /\ file' = [ file EXCEPT !.committed = target, !.updating = FALSE ]
  /\ pc' = "generate"
  /\ UNCHANGED << life, rid, target, mine, weights, paused, rollouts >>

(* generate(rid) has returned and update rid-1 is done.  Its weights are   *)
(* broadcast before generate(rid+1), unless they are the ones the job      *)
(* started with.                                                           *)
EndGeneration ==
  /\ pc = "generate"
  /\ rid + 1 < NumRollout
  /\ rid' = rid + 1
  /\ target' = rid - 1
  /\ pc' = IF target = rid - 1 THEN "generate" ELSE "begin"
  /\ UNCHANGED << life, mine, file, weights, paused, rollouts >>

-----------------------------------------------------------------------------
(* committed_policy_version raises during an update: nothing is dispatched.*)
Dispatchable == ~ file.updating /\ file.committed # NoVersion

(* generate() dispatches training groups, and validation rollouts when it  *)
(* meets a boundary.  Validation keeps running beside later calls.         *)
Dispatch(w) ==
  /\ pc = "generate"
  /\ Dispatchable
  /\ rollouts[w].st = "none"
  /\ \E validation \in BOOLEAN :
       rollouts' = [ rollouts EXCEPT ![w] =
         [ st |-> "idle", validation |-> validation, pin |-> file.committed,
           rid |-> rid, used |-> {} ] ]
  /\ UNCHANGED << driverVars, file, weights, paused >>

(* assert_policy_staleness with the lag every rollout process uses: one    *)
(* version behind passes, and so does an update in progress.               *)
Lag(observed, pin) == observed - pin
PolicyAllows(pin) == Lag(file.committed, pin) \in 0 .. 1

Reject(w) == rollouts' = [ rollouts EXCEPT ![w].st = "rejected" ]

(* A request samples tokens as soon as it is sent; when it ends after a    *)
(* broadcast its last tokens come from the new weights.                    *)
RequestStart(w) ==
  /\ rollouts[w].st = "idle"
  /\ ~ paused
  /\ IF PolicyAllows(rollouts[w].pin)
     THEN \E e \in Engines :
            rollouts' = [ rollouts EXCEPT
              ![w].st = e, ![w].used = @ \cup {weights[e]} ]
     ELSE Reject(w)
  /\ UNCHANGED << driverVars, file, weights, paused >>

RequestComplete(w) ==
  /\ rollouts[w].st \in Engines
  /\ ~ paused
  /\ IF PolicyAllows(rollouts[w].pin)
     THEN rollouts' = [ rollouts EXCEPT
            ![w].used = @ \cup {weights[rollouts[w].st]}, ![w].st = "idle" ]
     ELSE Reject(w)
  /\ UNCHANGED << driverVars, file, weights, paused >>

(* The rollout process returns its trajectory.                             *)
Finish(w) ==
  /\ rollouts[w].st = "idle"
  /\ rollouts[w].used # {}
  /\ rollouts' = [ rollouts EXCEPT ![w].st = "finished" ]
  /\ UNCHANGED << driverVars, file, weights, paused >>

BugStaleAfterTwo(r) == r.rid < rid - 2 \/ Lag(rid - 1, r.pin) > 2

(* _harvest_ready drops what is stale for the current rollout.  Validation *)
(* results are not looked at again.                                        *)
Stale(r) == r.rid < rid - 1 \/ Lag(rid - 1, r.pin) > 1

Accept(w) ==
  /\ rollouts[w].st = "finished"
  /\ \/ rollouts[w].validation
     \/ pc = "generate" /\ ~ Stale(rollouts[w])
  /\ rollouts' = [ rollouts EXCEPT ![w].st = "accepted" ]
  /\ UNCHANGED << driverVars, file, weights, paused >>

Retire(w) ==
  /\ \/ rollouts[w].st \in {"accepted", "rejected"}
     \/ /\ rollouts[w].st = "finished"
        /\ pc = "generate"
        /\ ~ rollouts[w].validation
        /\ Stale(rollouts[w])
  /\ rollouts' = [ rollouts EXCEPT ![w] = NoRollout ]
  /\ UNCHANGED << driverVars, file, weights, paused >>

(* The job dies with its engines and rollout processes; the file stays.    *)
Crash ==
  /\ pc # "down"
  /\ life < MaxLives
  /\ life' = life + 1
  /\ pc' = "down"
  /\ weights' = [ e \in Engines |-> NoVersion ]
  /\ paused' = FALSE
  /\ rollouts' = [ w \in Rollouts |-> NoRollout ]
  /\ UNCHANGED << rid, target, mine, file >>

Driver ==
  \/ Start \/ BeginUpdate \/ SendWeights \/ ContinueGeneration
  \/ FailUpdate \/ CommitUpdate \/ EndGeneration

Rollout(w) ==
  \/ Dispatch(w) \/ RequestStart(w) \/ RequestComplete(w)
  \/ Finish(w) \/ Accept(w) \/ Retire(w)

PolicyNext == Driver \/ (\E w \in Rollouts : Rollout(w)) \/ Crash

PolicySpec == PolicyInit /\ [][PolicyNext]_policyVars

-----------------------------------------------------------------------------
(* Every variable holds a value of its kind.                               *)
PolicyTypeOK ==
  /\ pc \in {"down", "begin", "broadcast", "commit", "generate", "failed"}
  /\ life \in 1 .. MaxLives
  /\ rid \in 0 .. NumRollout - 1
  /\ target \in Versions \cup {NoVersion}
  /\ file \in [ committed : Versions \cup {NoVersion},
                 target : Versions \cup {NoVersion},
                 updating : BOOLEAN, transition : Nat ]
  /\ mine \in Nat
  /\ weights \in [ Engines -> Versions \cup {NoVersion} ]
  /\ paused \in BOOLEAN
  /\ rollouts \in
       [ Rollouts -> [ st : {"none", "idle", "finished", "accepted",
                             "rejected"} \cup Engines,
                       validation : BOOLEAN, pin : Versions \cup {NoVersion},
                       rid : 0 .. NumRollout - 1, used : SUBSET Versions ] ]

(* While generate() runs, the file names the weights that every engine     *)
(* serves, also after a failed broadcast, a crash and a restart from an    *)
(* older checkpoint than the file named.                                   *)
CommittedIsServed ==
  pc = "generate" =>
    /\ Dispatchable
    /\ \A e \in Engines : weights[e] = file.committed

(* A training group that is accepted was sampled by one version of the     *)
(* weights, the one it was pinned to, although the request checks let a    *)
(* request run across an update.                                           *)
AcceptedGroupIsPure ==
  \A w \in Rollouts :
    rollouts[w].st = "accepted" /\ ~ rollouts[w].validation
      => rollouts[w].used = {rollouts[w].pin}

(* The docstring of policy_version.py: "A trajectory is therefore accepted *)
(* only when every policy request ran entirely under the policy version    *)
(* pinned when the trajectory was dispatched."                             *)
AcceptedUnderPinnedVersion ==
  \A w \in Rollouts :
    rollouts[w].st = "accepted" => rollouts[w].used = {rollouts[w].pin}

=============================================================================
