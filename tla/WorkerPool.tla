---------------------------- MODULE WorkerPool ----------------------------
(***************************************************************************)
(* One _NaiveNodeWorker of                                                 *)
(* slime/train_agent/collect_naive_rollout_async.py: a Ray actor whose     *)
(* methods run in concurrent threads and share one ProcessPoolExecutor.    *)
(*                                                                         *)
(* When a child process dies the whole executor breaks, and every call     *)
(* that waits for it sees BrokenProcessPool at about the same time.  The   *)
(* calls must replace the executor once, not once each; a training task is *)
(* then submitted again, a validation task is not.                         *)
(*                                                                         *)
(* Executors are numbered in the order they are built, so the number of    *)
(* the current one is also how many there have been.                       *)
(***************************************************************************)
EXTENDS Integers, FiniteSets

CONSTANTS
  Calls,        (* threads of the actor, each with one call at a time      *)
  Validations,  (* those of them that serve validation                     *)
  NoCall,       (* nobody holds the lock                                   *)
  MaxBreaks     (* bound: executors that break                             *)

ASSUME PoolAssumption ==
  /\ Validations \subseteq Calls
  /\ NoCall \notin Calls
  /\ MaxBreaks \in Nat

VARIABLES
  executor,  (* self._executor                                             *)
  broken,    (* executors that lost a child process                        *)
  shut,      (* executors that were shut down                              *)
  lock,      (* the holder of _executor_rebuild_lock                       *)
  pc,        (* where each call stands                                     *)
  first,     (* the executor a call was submitted to                       *)
  second     (* the executor it was submitted to again; 0 for none         *)

poolVars == << executor, broken, shut, lock, pc, first, second >>

(* Definitions named "Bug..." are plausible slips in the definition that    *)
(* follows them.  Nothing uses them: PROJECT.json names the property that  *)
(* each of them would break.                                               *)

Ended == {"done", "failed"}
Locked == {"locked", "retired", "replaced"}
Waiting == {"read", "wait", "repair", "resubmit", "rewait"}

PoolInit ==
  /\ executor = 1
  /\ broken = {} /\ shut = {}
  /\ lock = NoCall
  /\ pc = [ c \in Calls |-> "done" ]
  /\ first = [ c \in Calls |-> 0 ]
  /\ second = [ c \in Calls |-> 0 ]

Goto(c, place) == pc' = [ pc EXCEPT ![c] = place ]

-----------------------------------------------------------------------------
(* A new task reaches the actor and reads self._executor, without the lock.*)
Start(c) ==
  /\ pc[c] \in Ended
  /\ first' = [ first EXCEPT ![c] = executor ]
  /\ second' = [ second EXCEPT ![c] = 0 ]
  /\ Goto(c, "read")
  /\ UNCHANGED << executor, broken, shut, lock >>

(* executor.submit raises for a broken executor, else the future is        *)
(* awaited.                                                                *)
Submit(c) ==
  /\ pc[c] = "read"
  /\ Goto(c, IF first[c] \in broken THEN "repair" ELSE "wait")
  /\ UNCHANGED << executor, broken, shut, lock, first, second >>

(* A broken executor fails each of its unfinished futures.                 *)
Observe(c) ==
  /\ pc[c] = "wait"
  /\ Goto(c, IF first[c] \in broken THEN "repair" ELSE "done")
  /\ UNCHANGED << executor, broken, shut, lock, first, second >>

Acquire(c) ==
  /\ pc[c] = "repair"
  /\ lock = NoCall
  /\ lock' = c
  /\ Goto(c, "locked")
  /\ UNCHANGED << executor, broken, shut, first, second >>

BugRetireWhatever(c) ==
  /\ pc[c] = "locked"
  /\ shut' = shut \cup {executor}
  /\ Goto(c, "retired")
  /\ UNCHANGED << executor, broken, lock, first, second >>

(* The executor is replaced only if it is still the one that failed.       *)
Retire(c) ==
  /\ pc[c] = "locked"
  /\ IF executor = first[c]
     THEN /\ shut' = shut \cup {executor}
          /\ Goto(c, "retired")
     ELSE /\ UNCHANGED shut
          /\ Goto(c, "replaced")
  /\ UNCHANGED << executor, broken, lock, first, second >>

Rebuild(c) ==
  /\ pc[c] = "retired"
  /\ executor' = executor + 1
  /\ Goto(c, "replaced")
  /\ UNCHANGED << broken, shut, lock, first, second >>

BugKeepsLock(c) ==
  /\ pc[c] = "replaced"
  /\ second' = [ second EXCEPT ![c] = executor ]
  /\ Goto(c, IF c \in Validations THEN "failed" ELSE "resubmit")
  /\ UNCHANGED << executor, broken, shut, lock, first >>

(* The lock is released.  _submit_with_rebuild has read the executor to    *)
(* retry on; _submit_validation_once raises.                               *)
Release(c) ==
  /\ pc[c] = "replaced"
  /\ lock' = NoCall
  /\ IF c \in Validations
     THEN /\ UNCHANGED second
          /\ Goto(c, "failed")
     ELSE /\ second' = [ second EXCEPT ![c] = executor ]
          /\ Goto(c, "resubmit")
  /\ UNCHANGED << executor, broken, shut, first >>

Resubmit(c) ==
  /\ pc[c] = "resubmit"
  /\ Goto(c, IF second[c] \in broken THEN "failed" ELSE "rewait")
  /\ UNCHANGED << executor, broken, shut, lock, first, second >>

(* The retry is the last one: a second BrokenProcessPool reaches the       *)
(* driver, and the pool stays broken until another call meets it.          *)
ObserveRetry(c) ==
  /\ pc[c] = "rewait"
  /\ Goto(c, IF second[c] \in broken THEN "failed" ELSE "done")
  /\ UNCHANGED << executor, broken, shut, lock, first, second >>

(* A child of the executor dies (out of memory, a recycled child's race).  *)
Break ==
  /\ executor \notin broken
  /\ Cardinality(broken) < MaxBreaks
  /\ broken' = broken \cup {executor}
  /\ UNCHANGED << executor, shut, lock, pc, first, second >>

Step(c) ==
  \/ Submit(c) \/ Observe(c)
  \/ Acquire(c) \/ Retire(c) \/ Rebuild(c) \/ Release(c)
  \/ Resubmit(c) \/ ObserveRetry(c)

PoolNext == Break \/ \E c \in Calls : Start(c) \/ Step(c)

PoolSpec == PoolInit /\ [][PoolNext]_poolVars

(* A thread that can go on does, and a task ends: each of its branches has *)
(* a wall-clock limit.  New calls and breaks need not come.                *)
PoolFairSpec == PoolSpec /\ \A c \in Calls : WF_poolVars(Step(c))

-----------------------------------------------------------------------------
PoolTypeOK ==
  /\ executor \in Nat \ {0}
  /\ broken \in SUBSET (1 .. executor)
  /\ shut \in SUBSET (1 .. executor)
  /\ lock \in Calls \cup {NoCall}
  /\ pc \in [ Calls -> Ended \cup Locked \cup Waiting ]
  /\ first \in [ Calls -> 0 .. executor ]
  /\ second \in [ Calls -> 0 .. executor ]

(* However many calls see the same break, one of them replaces the         *)
(* executor: every executor but the current one is both broken and shut    *)
(* down, so there are no more than one per break and one, and a healthy    *)
(* one, with the tasks of others in it, is never shut down.                *)
OneLivePool ==
  /\ shut \subseteq broken
  /\ 1 .. executor - 1 \subseteq shut

(* The executor under which a failed call met its first break has been     *)
(* replaced.  A validation fails on that break alone; a training task      *)
(* fails only if the executor it was submitted to again, another one,      *)
(* broke as well.  That one may be in place still: the retry itself is not *)
(* repaired, but the next call to meet it.                                 *)
FailureHasCause ==
  \A c \in Calls :
    pc[c] = "failed" =>
      /\ first[c] \in broken \ {executor}
      /\ c \notin Validations =>
           second[c] \in broken \ {first[c]}

(* Every call that is made returns to its caller, with a result or an      *)
(* exception; no thread waits for ever for the lock.                       *)
EveryCallReturns == \A c \in Calls : pc[c] = "read" ~> pc[c] \in Ended
=============================================================================
