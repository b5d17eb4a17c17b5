--------------------------- MODULE HealingProofs ---------------------------
(***************************************************************************)
(* What a healing task may rely on, for any number of tasks, replicas and  *)
(* incidents.  Two facts carry everything: a task that works within its    *)
(* TTL is the one the lock names (Owner), and a task past create_branch is *)
(* the one its incident's branch names, for good (Writers): the branch     *)
(* name is the lock that does not expire.                                  *)
(***************************************************************************)
EXTENDS Healing, TLAPS

Owner == \A t \in Tasks : pc[t] \in Working /\ t \notin outlived => lock = t

Writers ==
    /\ \A t \in Tasks :
          pc[t] \in {"committing", "opening", "recording", "done"} => branch[incident[t]] = t
    /\ \A i \in Incidents : commits[i] \subseteq {branch[i]}
    /\ \A p \in pulls :
          /\ p.by = branch[p.incident]
          /\ p.incident = incident[p.by]
          /\ pc[p.by] \in {"recording", "failed", "lost", "done"}

Recorded ==
    /\ \A t \in Tasks : pc[t] = "recording" => [incident |-> incident[t], by |-> t] \in pulls
    /\ \A i \in Incidents : url[i] # None => [incident |-> i, by |-> url[i]] \in pulls
    /\ \A p \in pulls : url[p.incident] = p.by \/ pc[p.by] \in {"recording", "failed", "lost"}

Inv == TypeOK /\ Owner /\ Writers /\ Recorded

-----------------------------------------------------------------------------
\* Every step keeps the types.
LEMMA TypeStep == TypeOK /\ [Next]_vars => TypeOK'
<1> SUFFICES ASSUME TypeOK, [Next]_vars PROVE TypeOK'
  OBVIOUS
<1> USE HealingAssumption DEF TypeOK, Working, Ended, Move, taskVars, githubVars
<1>1. ASSUME NEW t \in Tasks, NEW r \in Replicas, NEW i \in Incidents, TriggerHealing(t, r, i)
      PROVE TypeOK'
  BY <1>1 DEF TriggerHealing
<1>2. ASSUME NEW t \in Tasks, AcquireLeaderLock(t) \/ Skip(t) PROVE TypeOK'
  BY <1>2 DEF AcquireLeaderLock, Skip
<1>3. ASSUME NEW t \in Tasks, FindCandidates(t) \/ GeneratePatch(t) \/ NothingToDo(t) \/ Fails(t)
      PROVE TypeOK'
  BY <1>3 DEF FindCandidates, GeneratePatch, NothingToDo, Fails
<1>4. ASSUME NEW t \in Tasks, CreateBranch(t) PROVE TypeOK'
  BY <1>4 DEF CreateBranch, AfterCall
<1>5. ASSUME NEW t \in Tasks, CommitFile(t) PROVE TypeOK'
  BY <1>5 DEF CommitFile, AfterCall
<1>6. ASSUME NEW t \in Tasks, CreatePullRequest(t) PROVE TypeOK'
  BY <1>6 DEF CreatePullRequest, AfterCall
<1>7. ASSUME NEW t \in Tasks, UpdateIncidentPr(t) PROVE TypeOK'
  BY <1>7 DEF UpdateIncidentPr
<1>8. CASE Expire
  BY <1>8 DEF Expire
<1>9. ASSUME NEW r \in Replicas, Crash(r) PROVE TypeOK'
  BY <1>9 DEF Crash
<1>10. CASE UNCHANGED vars
  BY <1>10 DEF vars
<1>. QED
  BY <1>1, <1>2, <1>3, <1>4, <1>5, <1>6, <1>7, <1>8, <1>9, <1>10 DEF Next, RunSelfHealing

\* A task that starts to work finds nobody at work within its TTL.
LEMMA OwnerStep == Inv /\ [Next]_vars => Owner'
<1> SUFFICES ASSUME Inv, [Next]_vars PROVE Owner'
  OBVIOUS
<1> USE HealingAssumption DEF Inv, TypeOK, Owner, Working, Move, AfterCall, taskVars, githubVars
<1>1. ASSUME NEW t \in Tasks, RunSelfHealing(t), ~AcquireLeaderLock(t) PROVE Owner'
  BY <1>1 DEF RunSelfHealing, Skip, FindCandidates, GeneratePatch, NothingToDo, CreateBranch,
              CommitFile, CreatePullRequest, UpdateIncidentPr, Fails
<1>2. ASSUME NEW t \in Tasks, AcquireLeaderLock(t) PROVE Owner'
  BY <1>2 DEF AcquireLeaderLock
<1>3. ASSUME NEW t \in Tasks, NEW r \in Replicas, NEW i \in Incidents, TriggerHealing(t, r, i)
      PROVE Owner'
  BY <1>3 DEF TriggerHealing
<1>4. CASE Expire
  BY <1>4 DEF Expire
<1>5. ASSUME NEW r \in Replicas, Crash(r) PROVE Owner'
  BY <1>5 DEF Crash
<1>6. CASE UNCHANGED vars
  BY <1>6 DEF vars
<1>. QED
  BY <1>1, <1>2, <1>3, <1>4, <1>5, <1>6 DEF Next

\* A branch, once created, keeps its owner, who alone goes on with it.
LEMMA WritersStep == Inv /\ [Next]_vars => Writers'
<1> SUFFICES ASSUME Inv, [Next]_vars PROVE Writers'
  OBVIOUS
<1> USE HealingAssumption DEF Inv, TypeOK, Writers, Move, AfterCall, taskVars, githubVars
<1>1. ASSUME NEW t \in Tasks,
             \/ AcquireLeaderLock(t) \/ Skip(t) \/ FindCandidates(t) \/ GeneratePatch(t)
             \/ NothingToDo(t) \/ UpdateIncidentPr(t) \/ Fails(t)
      PROVE Writers'
  BY <1>1 DEF AcquireLeaderLock, Skip, FindCandidates, GeneratePatch, NothingToDo,
              UpdateIncidentPr, Fails
<1>2. ASSUME NEW t \in Tasks, CreateBranch(t) PROVE Writers'
  <2>1. branch' = [branch EXCEPT ![incident[t]] = t] /\ commits' = commits /\ pulls' = pulls
    BY <1>2 DEF CreateBranch
  <2>2. incident[t] \in Incidents /\ branch[incident[t]] = None /\ incident' = incident
    BY <1>2 DEF CreateBranch
  <2>3. \A p \in pulls : p.incident # incident[t] /\ p.by # t
    BY <1>2, <2>2 DEF CreateBranch
  <2>4. commits[incident[t]] = {}
    BY <2>2
  <2>. QED
    BY <1>2, <2>1, <2>2, <2>3, <2>4 DEF CreateBranch
<1>3. ASSUME NEW t \in Tasks, CommitFile(t) PROVE Writers'
  BY <1>3 DEF CommitFile
<1>4. ASSUME NEW t \in Tasks, CreatePullRequest(t) PROVE Writers'
  BY <1>4 DEF CreatePullRequest
<1>5. ASSUME NEW t \in Tasks, NEW r \in Replicas, NEW i \in Incidents, TriggerHealing(t, r, i)
      PROVE Writers'
  BY <1>5 DEF TriggerHealing
<1>6. CASE Expire
  BY <1>6 DEF Expire
<1>7. ASSUME NEW r \in Replicas, Crash(r) PROVE Writers'
  BY <1>7 DEF Crash, Working
<1>8. CASE UNCHANGED vars
  BY <1>8 DEF vars
<1>. QED
  BY <1>1, <1>2, <1>3, <1>4, <1>5, <1>6, <1>7, <1>8 DEF Next, RunSelfHealing

\* The address of a pull request is written by the task that opened it.
LEMMA RecordedStep == Inv /\ [Next]_vars => Recorded'
<1> SUFFICES ASSUME Inv, [Next]_vars PROVE Recorded'
  OBVIOUS
<1> USE HealingAssumption DEF Inv, TypeOK, Recorded, Move, AfterCall, taskVars, githubVars
<1>1. ASSUME NEW t \in Tasks,
             \/ AcquireLeaderLock(t) \/ Skip(t) \/ FindCandidates(t) \/ GeneratePatch(t)
             \/ NothingToDo(t) \/ CreateBranch(t) \/ CommitFile(t) \/ Fails(t)
      PROVE Recorded'
  BY <1>1 DEF AcquireLeaderLock, Skip, FindCandidates, GeneratePatch, NothingToDo,
              CreateBranch, CommitFile, Fails
<1>2. ASSUME NEW t \in Tasks, CreatePullRequest(t) PROVE Recorded'
  BY <1>2 DEF CreatePullRequest
<1>3. ASSUME NEW t \in Tasks, UpdateIncidentPr(t) PROVE Recorded'
  BY <1>3 DEF UpdateIncidentPr, Writers
<1>4. ASSUME NEW t \in Tasks, NEW r \in Replicas, NEW i \in Incidents, TriggerHealing(t, r, i)
      PROVE Recorded'
  BY <1>4 DEF TriggerHealing
<1>5. CASE Expire
  BY <1>5 DEF Expire
<1>6. ASSUME NEW r \in Replicas, Crash(r) PROVE Recorded'
  BY <1>6 DEF Crash, Working
<1>7. CASE UNCHANGED vars
  BY <1>7 DEF vars
<1>. QED
  BY <1>1, <1>2, <1>3, <1>4, <1>5, <1>6, <1>7 DEF Next, RunSelfHealing

\* Inv is the inductive invariant of Healing.
THEOREM Invariance == Spec => []Inv
<1>1. Init => Inv
  BY HealingAssumption DEF Init, Inv, TypeOK, Owner, Writers, Recorded, Working, Ended
<1>2. Inv /\ [Next]_vars => Inv'
  BY TypeStep, OwnerStep, WritersStep, RecordedStep DEF Inv
<1>. QED
  BY <1>1, <1>2, PTL DEF Spec

-----------------------------------------------------------------------------
\* Type correctness: a task that left "idle" has a replica and a blocked
\* attack to heal.
THEOREM TypeCorrect == Spec => []TypeOK
<1>1. Inv => TypeOK
  BY DEF Inv
<1>. QED
  BY <1>1, Invariance, PTL

\* Two tasks work at the same time only when one has outlived its TTL.
THEOREM LeadersExclude == Spec => []LockExcludes
<1>1. Inv => LockExcludes
  BY DEF Inv, Owner, LockExcludes
<1>. QED
  BY <1>1, Invariance, PTL

\* However many tasks run past the lock, each incident has one branch,
\* with one writer.
THEOREM BranchesHaveOneWriter == Spec => []BranchHasOneWriter
<1>1. Inv => BranchHasOneWriter
  BY DEF Inv, Writers, BranchHasOneWriter
<1>. QED
  BY <1>1, Invariance, PTL

\* Two pull requests for one incident are the same one.
THEOREM PullRequestsAreUnique == Spec => []OnePullRequest
<1>1. Inv => OnePullRequest
  BY DEF Inv, TypeOK, Writers, OnePullRequest
<1>. QED
  BY <1>1, Invariance, PTL

\* A pull request nobody can find from its incident was opened by a task that
\* failed or died, or is about to be recorded.
THEOREM PullRequestsAreRecorded == Spec => []PullRequestRecorded
<1>1. Inv => PullRequestRecorded
  BY DEF Inv, Recorded, PullRequestRecorded
<1>. QED
  BY <1>1, Invariance, PTL

\* The address in an incident's row stays: no later trigger, and no task that
\* outlived its lock, makes the row point to another pull request.
AddressesStay == [][\A i \in Incidents : url[i] # None => url'[i] = url[i]]_vars

\* update_incident_pr never overwrites the address of another pull request.
THEOREM AddressesAreFinal == Spec => AddressesStay
<1>1. Inv /\ [Next]_vars => [\A i \in Incidents : url[i] # None => url'[i] = url[i]]_vars
  <2> SUFFICES ASSUME Inv, [Next]_vars, NEW i \in Incidents, url[i] # None PROVE url'[i] = url[i]
    OBVIOUS
  <2>1. ASSUME NEW t \in Tasks, UpdateIncidentPr(t) PROVE url'[i] = url[i]
    <3>1. CASE incident[t] = i
      <4>1. branch[i] = t
        BY <2>1, <3>1 DEF UpdateIncidentPr, Move, Inv, Writers
      <4>2. [incident |-> i, by |-> url[i]] \in pulls
        BY DEF Inv, Recorded
      <4>3. url[i] = branch[i]
        BY <4>2 DEF Inv, Writers
      <4>. QED
        BY <2>1, <3>1, <4>1, <4>3 DEF UpdateIncidentPr, Inv, TypeOK
    <3>2. CASE incident[t] # i
      BY <2>1, <3>2 DEF UpdateIncidentPr, Inv, TypeOK
    <3>. QED
      BY <3>1, <3>2
  <2>2. url' = url \/ \E t \in Tasks : UpdateIncidentPr(t)
    BY DEF Next, RunSelfHealing, TriggerHealing, AcquireLeaderLock, Skip, FindCandidates,
           GeneratePatch, NothingToDo, CreateBranch, CommitFile, CreatePullRequest, Fails,
           Expire, Crash, vars
  <2>. QED
    BY <2>1, <2>2
<1>. QED
  BY <1>1, Invariance, PTL DEF Spec, AddressesStay

=============================================================================
