------------------------------ MODULE Healing ------------------------------
(***************************************************************************)
(* Self-healing: POST /api/incidents/{id}/heal (control_plane/api/         *)
(* healing_api.py) starts run_self_healing (healing/patch_generator.py) as *)
(* a background task.  A task that takes the leader lock in Redis looks    *)
(* for a file, asks Gemini for a patch, and then creates a branch, commits *)
(* and opens a pull request on GitHub, whose address it writes into the    *)
(* incident's row.                                                         *)
(*                                                                         *)
(* The lock has a TTL, is not renewed and not released; nobody looks at it *)
(* again once it is taken.  Two control-plane replicas share it.  Any      *)
(* step may fail, and GitHub may have done what it was asked although its  *)
(* answer got lost.                                                        *)
(***************************************************************************)
EXTENDS Naturals, FiniteSets

CONSTANTS
    Tasks,          \* run_self_healing calls
    Replicas,       \* control-plane replicas
    Enabled,        \* the replicas whose environment sets enable_self_healing
    Incidents,
    Confirmed,      \* the incidents whose row is a blocked attack
    None

ASSUME HealingAssumption ==
    /\ Enabled \subseteq Replicas
    /\ Confirmed \subseteq Incidents
    /\ None \notin Tasks \union Replicas \union Incidents

VARIABLES
    pc,             \* the await each task sits in, or how it ended
    replica,        \* where it runs
    incident,       \* what it is to heal
    lock,           \* cognithhorn:healing-leader, as the task that set it
    branch,         \* the task that created each incident's branch
    commits,        \* who committed to it
    pulls,          \* the pull requests, as incident and task
    url,            \* incidents.pr_url, as the task that wrote it
    outlived        \* history: tasks whose lock expired while they worked

taskVars   == <<pc, replica, incident>>
githubVars == <<branch, commits, pulls>>
vars       == <<taskVars, lock, githubVars, url, outlived>>

Working == {"scanning", "patching", "branching", "committing", "opening", "recording"}
Ended   == {"skipped", "nothing", "failed", "lost", "done"}

Init ==
    /\ pc = [t \in Tasks |-> "idle"]
    /\ replica = [t \in Tasks |-> None]
    /\ incident = [t \in Tasks |-> None]
    /\ lock = None
    /\ branch = [i \in Incidents |-> None]
    /\ commits = [i \in Incidents |-> {}]
    /\ pulls = {}
    /\ url = [i \in Incidents |-> None]
    /\ outlived = {}

Move(t, from, to) == pc[t] = from /\ pc' = [pc EXCEPT ![t] = to]

-----------------------------------------------------------------------------
\* Mutant: any incident will do.
TriggerAny(t, r, i) ==
    /\ Move(t, "idle", "queued")
    /\ replica' = [replica EXCEPT ![t] = r]
    /\ incident' = [incident EXCEPT ![t] = i]
    /\ UNCHANGED <<lock, githubVars, url, outlived>>

\* The handler answers, and the task runs after the response.
TriggerHealing(t, r, i) ==
    /\ i \in Confirmed
    /\ Move(t, "idle", "queued")
    /\ replica' = [replica EXCEPT ![t] = r]
    /\ incident' = [incident EXCEPT ![t] = i]
    /\ UNCHANGED <<lock, githubVars, url, outlived>>

\* Mutant: SET without NX.
AcquireAlways(t) ==
    /\ replica[t] \in Enabled
    /\ Move(t, "queued", "scanning")
    /\ lock' = t
    /\ UNCHANGED <<replica, incident, githubVars, url, outlived>>

\* SET NX EX
AcquireLeaderLock(t) ==
    /\ replica[t] \in Enabled
    /\ lock = None
    /\ Move(t, "queued", "scanning")
    /\ lock' = t
    /\ UNCHANGED <<replica, incident, githubVars, url, outlived>>

Skip(t) ==
    /\ ~(replica[t] \in Enabled /\ lock = None)
    /\ Move(t, "queued", "skipped")
    /\ UNCHANGED <<replica, incident, lock, githubVars, url, outlived>>

FindCandidates(t) ==
    /\ Move(t, "scanning", "patching")
    /\ UNCHANGED <<replica, incident, lock, githubVars, url, outlived>>

GeneratePatch(t) ==
    /\ Move(t, "patching", "branching")
    /\ UNCHANGED <<replica, incident, lock, githubVars, url, outlived>>

\* No candidate file, or no patch: both helpers swallow their errors.
NothingToDo(t) ==
    /\ Move(t, "scanning", "nothing") \/ Move(t, "patching", "nothing")
    /\ UNCHANGED <<replica, incident, lock, githubVars, url, outlived>>

-----------------------------------------------------------------------------
(* _create_pr, in a thread.  The branch is named after the incident, and   *)
(* GitHub refuses to create a ref that exists.  A call whose answer is     *)
(* lost has its effect, and raises.                                        *)

AfterCall(t, from, to) == Move(t, from, to) \/ Move(t, from, "failed")

\* Mutant: a branch that exists is used.
CreateOrUseBranch(t) ==
    /\ AfterCall(t, "branching", "committing")
    /\ branch' = [branch EXCEPT ![incident[t]] = IF @ = None THEN t ELSE @]
    /\ UNCHANGED <<replica, incident, lock, commits, pulls, url, outlived>>

\* Mutant: every attempt has a branch of its own.
CreateAnotherBranch(t) ==
    /\ AfterCall(t, "branching", "committing")
    /\ branch' = [branch EXCEPT ![incident[t]] = t]
    /\ UNCHANGED <<replica, incident, lock, commits, pulls, url, outlived>>

CreateBranch(t) ==
    /\ AfterCall(t, "branching", "committing")
    /\ branch[incident[t]] = None
    /\ branch' = [branch EXCEPT ![incident[t]] = t]
    /\ UNCHANGED <<replica, incident, lock, commits, pulls, url, outlived>>

CommitFile(t) ==
    /\ AfterCall(t, "committing", "opening")
    /\ commits' = [commits EXCEPT ![incident[t]] = @ \union {t}]
    /\ UNCHANGED <<replica, incident, lock, branch, pulls, url, outlived>>

CreatePullRequest(t) ==
    /\ AfterCall(t, "opening", "recording")
    /\ pulls' = pulls \union {[incident |-> incident[t], by |-> t]}
    /\ UNCHANGED <<replica, incident, lock, branch, commits, url, outlived>>

\* Mutant: the address is not written.
RecordNothing(t) ==
    /\ Move(t, "recording", "done")
    /\ UNCHANGED <<replica, incident, lock, githubVars, url, outlived>>

\* update_incident_pr
UpdateIncidentPr(t) ==
    /\ Move(t, "recording", "done")
    /\ url' = [url EXCEPT ![incident[t]] = t]
    /\ UNCHANGED <<replica, incident, lock, githubVars, outlived>>

\* Redis, GitHub or PostgreSQL refuses: the task logs the error and ends.
Fails(t) ==
    /\ \E s \in {"queued", "branching", "committing", "opening", "recording"} :
          Move(t, s, "failed")
    /\ UNCHANGED <<replica, incident, lock, githubVars, url, outlived>>

-----------------------------------------------------------------------------
\* Redis drops the key after LEADER_TTL, however long the task takes.
Expire ==
    /\ lock # None
    /\ lock' = None
    /\ outlived' = outlived \union {t \in {lock} : pc[t] \in Working}
    /\ UNCHANGED <<taskVars, githubVars, url>>

\* A replica dies with its tasks.
Crash(r) ==
    /\ pc' = [t \in Tasks |->
                 IF replica[t] = r /\ pc[t] \in Working \union {"queued"} THEN "lost" ELSE pc[t]]
    /\ UNCHANGED <<replica, incident, lock, githubVars, url, outlived>>

-----------------------------------------------------------------------------
RunSelfHealing(t) ==
    \/ AcquireLeaderLock(t) \/ Skip(t)
    \/ FindCandidates(t) \/ GeneratePatch(t) \/ NothingToDo(t)
    \/ CreateBranch(t) \/ CommitFile(t) \/ CreatePullRequest(t)
    \/ UpdateIncidentPr(t) \/ Fails(t)

Next ==
    \/ \E t \in Tasks :
          \/ \E r \in Replicas, i \in Incidents : TriggerHealing(t, r, i)
          \/ RunSelfHealing(t)
    \/ Expire
    \/ \E r \in Replicas : Crash(r)

Spec == Init /\ [][Next]_vars

-----------------------------------------------------------------------------
TypeOK ==
    /\ pc \in [Tasks -> {"idle", "queued"} \union Working \union Ended]
    /\ replica \in [Tasks -> Replicas \union {None}]
    /\ incident \in [Tasks -> Incidents \union {None}]
    /\ \A t \in Tasks : pc[t] # "idle" => replica[t] # None /\ incident[t] \in Confirmed
    /\ lock \in Tasks \union {None}
    /\ branch \in [Incidents -> Tasks \union {None}]
    /\ commits \in [Incidents -> SUBSET Tasks]
    /\ pulls \subseteq [incident : Incidents, by : Tasks]
    /\ url \in [Incidents -> Tasks \union {None}]
    /\ outlived \subseteq Tasks

\* Two tasks work at the same time only when one of them has outlived its
\* lock: that is all the leader election guarantees (patch_generator.py:3,
\* 28), with a TTL of 60 s and a Gemini call that may take longer.
LockExcludes ==
    \A t, s \in Tasks :
        pc[t] \in Working /\ pc[s] \in Working => t = s \/ t \in outlived \/ s \in outlived

\* One incident gets one pull request, however often it is triggered and
\* however many tasks run past the lock: the branch name decides
\* (patch_generator.py:114-115).
OnePullRequest ==
    \A p, q \in pulls : p.incident = q.incident => p = q

\* Nobody commits to, or opens a pull request from, a branch that another
\* task created.
BranchHasOneWriter ==
    \A i \in Incidents :
        /\ commits[i] \subseteq {branch[i]}
        /\ \A p \in pulls : p.incident = i => p.by = branch[i]

\* The row points to the pull request there is; a pull request without a row
\* pointing to it was opened by a task that failed or died before it could
\* write the address (patch_generator.py:70-75).
PullRequestRecorded ==
    /\ \A i \in Incidents : url[i] # None => [incident |-> i, by |-> url[i]] \in pulls
    /\ \A p \in pulls : url[p.incident] = p.by \/ pc[p.by] \in {"recording", "failed", "lost"}

=============================================================================
