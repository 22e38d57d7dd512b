--------------------------- MODULE BackgroundTasks ---------------------------
(***************************************************************************)
(* Background commands of a thread's sandbox: the tool that launches them  *)
(* (agent/tools/background_execute.py) and the cron-driven monitor that    *)
(* announces those that have ended to the agent                            *)
(* (agent/background_tasks.py).                                            *)
(*                                                                         *)
(* Tool calls, ticks of the monitor and the commands themselves run        *)
(* concurrently and meet in directories of the sandbox (locks, claims,     *)
(* marks) and in the crons of the platform.                                *)
(***************************************************************************)
EXTENDS Naturals, FiniteSets

CONSTANTS
    Tasks,        \* the commands; each is launched by one tool call
    Monitors,     \* ticks of the cron that may be under way at a time
    MaxActive,    \* MAX_ACTIVE_TASKS
    MaxFaults,    \* bound on the faults of ticks, scripts and deadlines
    NewestFirst   \* whether a search lists the newest cron first

ASSUME TasksAssumption == IsFiniteSet(Tasks)
ASSUME MaxActiveAssumption == MaxActive \in Nat
ASSUME MaxFaultsAssumption == MaxFaults \in Nat
ASSUME OrderAssumption == NewestFirst \in BOOLEAN

VARIABLES
    stage,       \* where the tool call of each task is
    victims,     \* the duplicate crons it still has to delete
    task,        \* the command: its runner, and its state file
    launchLock,  \* the directory .launch-lock
    monitorLock, \* the directory monitor.lock
    claim,       \* the directory notify.claim of each task
    done,        \* the tasks with a directory notify.done
    sent,        \* history: how often each task was announced
    crons,       \* the thread's crons, numbered in the order of creation
    created,     \* how many crons have been created
    at,          \* where each monitor is
    todo,        \* the ended tasks it has still to look at
    current,     \* those of them it has claimed: at most one
    owing,       \* the monitors that saw a task not over and announced
    doomed,      \* the crons it has still to delete
    faults,      \* how many faults there have been
    causes       \* history: what has happened besides orderly steps

calls    == <<stage, victims>>
ticks    == <<at, todo, current, owing, doomed>>
sandbox  == <<task, launchLock, monitorLock, claim, done>>
platform == <<crons, created>>
history  == <<sent, faults, causes>>
vars     == <<calls, ticks, sandbox, platform, history>>

CallStages == {"idle", "listed", "clear", "locked", "spawned", "launched",
               "search", "create", "prune", "ok", "warned", "failed"}
TaskStates == {"none", "spawned", "running", "dead", "ended"}
MonitorStages == {"idle", "list", "claim", "send", "mark", "lock", "check",
                  "search", "delete", "unlock"}
DirStates == {"none", "fresh", "old"}
Counts == {"never", "once", "more"}

Causes == {"late",           \* a command started after its launch had failed
           "error",          \* a dispatch raised although it had an effect, or
                             \* a mark failed after the dispatch
           "crash",          \* a monitor stopped between a claim and its mark
           "overlap",        \* a task announced by one tick was claimed by
                             \* another
           "partial",        \* a monitor stopped while it was deleting crons
           "launchOverrun",  \* a launch lock, a monitor's lock, a claim grew
           "monitorOverrun", \* stale in its holder's hands
           "claimOverrun"}

When(condition, cause) == IF condition THEN {cause} ELSE {}

(***************************************************************************)
(* A state file that says "running".  "dead" is a runner that has been     *)
(* gone for five seconds without having written its end.                   *)
(***************************************************************************)
Running == {t \in Tasks : task[t] = "running"}
Active == {t \in Tasks : task[t] \in {"running", "dead"}}

(* The order of a search: c is listed before d.                            *)
Before(c, d) == IF NewestFirst THEN c > d ELSE c < d
IsFirst(c, set) == c \in set /\ \A d \in set \ {c} : Before(c, d)

Init ==
    /\ stage = [t \in Tasks |-> "idle"] /\ victims = [t \in Tasks |-> {}]
    /\ task = [t \in Tasks |-> "none"]
    /\ launchLock = "none" /\ monitorLock = "none"
    /\ claim = [t \in Tasks |-> "none"] /\ done = {}
    /\ sent = [t \in Tasks |-> "never"]
    /\ crons = {} /\ created = 0
    /\ at = [p \in Monitors |-> "idle"] /\ todo = [p \in Monitors |-> {}]
    /\ current = [p \in Monitors |-> {}] /\ owing = {}
    /\ doomed = [p \in Monitors |-> {}]
    /\ faults = 0 /\ causes = {}

-----------------------------------------------------------------------------
(* The list script, which also tidies up: locks and claims grown stale are *)
(* removed, and a command whose runner is gone is recorded as lost.        *)

(***************************************************************************)
(* A slip, here and below: what a plausible mistake in the definition that *)
(* comes next would make of it.  No specification uses it; a mutation of   *)
(* the model puts it in the place of the definition.                       *)
(***************************************************************************)
KeepStale(dir) == dir

Tidied(dir) == IF dir = "old" THEN "none" ELSE dir

ListTasks ==
    /\ task' = [t \in Tasks |-> IF task[t] = "dead" THEN "ended" ELSE task[t]]
    /\ claim' = [t \in Tasks |-> Tidied(claim[t])]
    /\ launchLock' = Tidied(launchLock) /\ monitorLock' = Tidied(monitorLock)
    /\ UNCHANGED done

-----------------------------------------------------------------------------
(* The tool call that launches t.                                          *)

Go(t, next) == stage' = [stage EXCEPT ![t] = next]

(* background_execute; a failing list fails the call.                      *)
Start(t) ==
    /\ stage[t] = "idle"
    /\ \/ /\ ListTasks
          /\ Go(t, IF Cardinality(Running) < MaxActive THEN "listed" ELSE "failed")
       \/ Go(t, "failed") /\ UNCHANGED sandbox
    /\ UNCHANGED <<victims, ticks, platform, history>>

(***************************************************************************)
(* wait_for_monitor; it gives up after 15 seconds.                         *)
(***************************************************************************)
WaitToLaunch(t) ==
    /\ stage[t] = "listed"
    /\ \/ monitorLock = "none" /\ Go(t, "clear")
       \/ monitorLock # "none" /\ Go(t, "failed")
    /\ UNCHANGED <<victims, ticks, sandbox, platform, history>>

LockLaunchAlways(t) ==
    /\ stage[t] = "clear"
    /\ launchLock' = "fresh" /\ Go(t, "locked")
    /\ UNCHANGED <<victims, ticks, task, monitorLock, claim, done, platform, history>>

(***************************************************************************)
(* The launch script: ten attempts at its lock ...                         *)
(***************************************************************************)
LockLaunch(t) ==
    /\ stage[t] = "clear"
    /\ \/ launchLock = "none" /\ launchLock' = "fresh" /\ Go(t, "locked")
       \/ launchLock # "none" /\ Go(t, "failed") /\ UNCHANGED launchLock
    /\ UNCHANGED <<victims, ticks, task, monitorLock, claim, done, platform, history>>

(* ... the count of the active tasks, and the runner ...                   *)
Spawn(t) ==
    /\ stage[t] = "locked"
    /\ \/ /\ Cardinality(Active) < MaxActive
          /\ Go(t, "spawned") /\ task' = [task EXCEPT ![t] = "spawned"]
          /\ UNCHANGED launchLock
       \/ /\ Cardinality(Active) >= MaxActive
          /\ Go(t, "failed") /\ launchLock' = "none" /\ UNCHANGED task
    /\ UNCHANGED <<victims, ticks, monitorLock, claim, done, platform, history>>

(***************************************************************************)
(* ... which has a second to write its state file.  The answer may be lost *)
(* on its way to the tool.                                                 *)
(***************************************************************************)
LaunchReturns(t) ==
    /\ stage[t] = "spawned"
    /\ launchLock' = "none"
    /\ \/ task[t] \notin {"none", "spawned"} /\ Go(t, "launched")
       \/ Go(t, "failed")
    /\ UNCHANGED <<victims, ticks, task, monitorLock, claim, done, platform, history>>

(* The script is killed, and its trap does not run.                        *)
LaunchKilled(t) ==
    /\ stage[t] \in {"locked", "spawned"}
    /\ faults < MaxFaults /\ faults' = faults + 1
    /\ Go(t, "failed")
    /\ UNCHANGED <<victims, ticks, sandbox, platform, sent, causes>>

ScheduleWithoutWaiting(t) ==
    /\ stage[t] = "launched"
    /\ Go(t, "search")
    /\ UNCHANGED <<victims, ticks, sandbox, platform, history>>

(***************************************************************************)
(* The second wait: a monitor that holds its lock may be about to delete   *)
(* the crons.                                                              *)
(***************************************************************************)
WaitToSchedule(t) ==
    /\ stage[t] = "launched"
    /\ \/ monitorLock = "none" /\ Go(t, "search")
       \/ monitorLock # "none" /\ Go(t, "warned")
    /\ UNCHANGED <<victims, ticks, sandbox, platform, history>>

(***************************************************************************)
(* ensure_background_task_cron.  The search returns every cron: there are  *)
(* never more than the limit of ten.                                       *)
(***************************************************************************)
SearchCrons(t) ==
    /\ stage[t] = "search"
    /\ \/ crons = {} /\ Go(t, "create") /\ UNCHANGED victims
       \/ \E kept \in crons :
             /\ IsFirst(kept, crons)
             /\ victims' = [victims EXCEPT ![t] = crons \ {kept}]
             /\ Go(t, "prune")
       \/ Go(t, "warned") /\ UNCHANGED victims
    /\ UNCHANGED <<ticks, sandbox, platform, history>>

(* A creation whose answer is lost leaves its cron behind.                 *)
CreateCron(t) ==
    /\ stage[t] = "create"
    /\ \/ /\ crons' = crons \union {created + 1} /\ created' = created + 1
          /\ stage' \in {[stage EXCEPT ![t] = s] : s \in {"ok", "warned"}}
       \/ Go(t, "warned") /\ UNCHANGED platform
    /\ UNCHANGED <<victims, ticks, sandbox, history>>

(***************************************************************************)
(* The duplicates are deleted in the order listed.  Deleting a cron that   *)
(* is gone raises, as any other failure does, and ends the loop.           *)
(***************************************************************************)
PruneCron(t) ==
    /\ stage[t] = "prune"
    /\ \/ /\ victims[t] = {} /\ Go(t, "ok") /\ UNCHANGED <<victims, crons>>
       \/ \E c \in crons :
             /\ IsFirst(c, victims[t])
             /\ crons' = crons \ {c}
             /\ victims' = [victims EXCEPT ![t] = @ \ {c}]
             /\ UNCHANGED stage
       \/ /\ victims[t] # {}
          /\ Go(t, "warned") /\ victims' = [victims EXCEPT ![t] = {}]
          /\ UNCHANGED crons
    /\ UNCHANGED <<ticks, sandbox, created, history>>

Call(t) ==
    \/ Start(t) \/ WaitToLaunch(t)
    \/ LockLaunch(t) \/ Spawn(t) \/ LaunchReturns(t) \/ LaunchKilled(t)
    \/ WaitToSchedule(t)
    \/ SearchCrons(t) \/ CreateCron(t) \/ PruneCron(t)

-----------------------------------------------------------------------------
(* The command.                                                            *)

(* The runner writes its state file.                                       *)
RunnerStarts(t) ==
    /\ task[t] = "spawned"
    /\ task' = [task EXCEPT ![t] = "running"]
    /\ causes' = causes \union When(stage[t] # "spawned", "late")
    /\ UNCHANGED <<calls, ticks, launchLock, monitorLock, claim, done, platform, sent, faults>>

RunnerExits(t) ==
    /\ task[t] = "running"
    /\ task' = [task EXCEPT ![t] = "exited"]
    /\ UNCHANGED <<calls, ticks, launchLock, monitorLock, claim, done, platform, history>>

(***************************************************************************)
(* It ends by itself, at its timeout or because the stop action asked it   *)
(* to.                                                                     *)
(***************************************************************************)
RunnerEnds(t) ==
    /\ task[t] = "running"
    /\ task' = [task EXCEPT ![t] = "ended"]
    /\ UNCHANGED <<calls, ticks, launchLock, monitorLock, claim, done, platform, history>>

(* It is killed before, or after, it has written its state file.           *)
RunnerDies(t) ==
    /\ \/ task[t] = "spawned" /\ task' = [task EXCEPT ![t] = "none"]
       \/ task[t] = "running" /\ task' = [task EXCEPT ![t] = "dead"]
    /\ UNCHANGED <<calls, ticks, launchLock, monitorLock, claim, done, platform, history>>

(* background_task: status and stop record one lost command.               *)
Inspect(t) ==
    /\ task[t] = "dead"
    /\ task' = [task EXCEPT ![t] = "ended"]
    /\ UNCHANGED <<calls, ticks, launchLock, monitorLock, claim, done, platform, history>>

Command(t) == RunnerStarts(t) \/ RunnerEnds(t) \/ RunnerDies(t) \/ Inspect(t)

-----------------------------------------------------------------------------
(* A tick of the monitor.                                                  *)

Forget(p) ==
    /\ todo' = [todo EXCEPT ![p] = {}] /\ current' = [current EXCEPT ![p] = {}]
    /\ owing' = owing \ {p} /\ doomed' = [doomed EXCEPT ![p] = {}]

Goto(p, next) == at' = [at EXCEPT ![p] = next]

Return(p) == Goto(p, "idle") /\ Forget(p)

(* Each cron starts a run of the scheduler every minute.                   *)
Fire(p) ==
    /\ at[p] = "idle" /\ crons # {}
    /\ Goto(p, "list")
    /\ UNCHANGED <<calls, todo, current, owing, doomed, sandbox, platform, history>>

(***************************************************************************)
(* What the list prints: the commands that are running, and those that     *)
(* have ended without a notify.done.                                       *)
(***************************************************************************)
Unannounced == {t \in Tasks : task[t] \in {"dead", "ended"}} \ done
Quiet == Running = {} /\ Unannounced = {}

List(p) ==
    /\ at[p] = "list"
    /\ ListTasks
    /\ todo' = [todo EXCEPT ![p] = Unannounced]
    /\ owing' = IF Running # {} THEN owing \union {p} ELSE owing
    /\ Goto(p, "claim")
    /\ UNCHANGED <<calls, current, doomed, platform, history>>

ClaimAlways(p) ==
    /\ at[p] = "claim"
    /\ \E t \in todo[p] :
          /\ claim' = [claim EXCEPT ![t] = "fresh"]
          /\ current' = [current EXCEPT ![p] = {t}]
          /\ causes' = causes \union When(t \in done, "overlap")
    /\ todo' = [todo EXCEPT ![p] = @ \ current'[p]]
    /\ Goto(p, "send")
    /\ UNCHANGED <<calls, owing, doomed, task, launchLock, monitorLock, done, platform, sent, faults>>

(***************************************************************************)
(* _claim.  It does not look at notify.done: a task that another tick has  *)
(* announced since the list is claimed again.                              *)
(***************************************************************************)
Claim(p) ==
    /\ at[p] = "claim"
    /\ \E t \in todo[p] :
          /\ todo' = [todo EXCEPT ![p] = @ \ {t}]
          /\ \/ /\ claim[t] = "none"
                /\ claim' = [claim EXCEPT ![t] = "fresh"]
                /\ current' = [current EXCEPT ![p] = {t}]
                /\ Goto(p, "send")
                /\ causes' = causes \union When(t \in done, "overlap")
                /\ UNCHANGED owing
             \/ /\ claim[t] # "none"
                /\ owing' = owing \union {p}
                /\ UNCHANGED <<claim, current, at, causes>>
    /\ UNCHANGED <<calls, doomed, task, launchLock, monitorLock, done, platform, sent, faults>>

OneMore(count) == IF count = "never" THEN "once" ELSE "more"

(* _unclaim; the task is left to a later tick.                             *)
Unclaim(p, t) ==
    /\ claim' = [claim EXCEPT ![t] = "none"]
    /\ current' = [current EXCEPT ![p] = {}]
    /\ owing' = owing \union {p}
    /\ Goto(p, "claim")

(***************************************************************************)
(* dispatch_agent_run; when it raises, the run may have been created       *)
(* nevertheless.                                                           *)
(***************************************************************************)
Send(p) ==
    /\ at[p] = "send"
    /\ \E t \in current[p] :
          \/ /\ sent' = [sent EXCEPT ![t] = OneMore(@)]
             /\ Goto(p, "mark")
             /\ UNCHANGED <<current, owing, claim, faults, causes>>
          \/ /\ faults < MaxFaults /\ faults' = faults + 1
             /\ \/ sent' = [sent EXCEPT ![t] = OneMore(@)] /\ causes' = causes \union {"error"}
                \/ UNCHANGED <<sent, causes>>
             /\ Unclaim(p, t)
    /\ UNCHANGED <<calls, todo, doomed, task, launchLock, monitorLock, done, platform>>

(***************************************************************************)
(* _mark_delivered.  Over a notify.done that exists, mv moves the claim    *)
(* into it; without a claim it fails.                                      *)
(***************************************************************************)
Mark(p) ==
    /\ at[p] = "mark"
    /\ \E t \in current[p] :
          \/ /\ claim[t] # "none"
             /\ claim' = [claim EXCEPT ![t] = "none"] /\ done' = done \union {t}
             /\ current' = [current EXCEPT ![p] = {}]
             /\ Goto(p, "claim")
             /\ UNCHANGED <<owing, faults, causes>>
          \/ /\ claim[t] = "none"
             /\ Unclaim(p, t)
             /\ UNCHANGED <<done, faults, causes>>
          \/ /\ faults < MaxFaults /\ faults' = faults + 1
             /\ causes' = causes \union {"error"}
             /\ Unclaim(p, t) /\ UNCHANGED done
    /\ UNCHANGED <<calls, todo, doomed, task, launchLock, monitorLock, platform, sent>>

(***************************************************************************)
(* With nothing running and nothing pending, the tick goes on to retire    *)
(* the crons, unless another one holds the lock.                           *)
(***************************************************************************)
LookedAtAll(p) ==
    /\ at[p] = "claim" /\ todo[p] = {}
    /\ \/ p \in owing /\ Return(p)
       \/ p \notin owing /\ Goto(p, "lock") /\ UNCHANGED <<todo, current, owing, doomed>>
    /\ UNCHANGED <<calls, sandbox, platform, history>>

Lock(p) ==
    /\ at[p] = "lock"
    /\ \/ /\ monitorLock = "none" /\ monitorLock' = "fresh"
          /\ Goto(p, "check") /\ UNCHANGED <<todo, current, owing, doomed>>
       \/ monitorLock # "none" /\ Return(p) /\ UNCHANGED monitorLock
    /\ UNCHANGED <<calls, task, launchLock, claim, done, platform, history>>

TrustFirstList(p) ==
    /\ at[p] = "check"
    /\ Goto(p, "search")
    /\ UNCHANGED <<calls, todo, current, owing, doomed, sandbox, platform, history>>

CheckForTasks(p) ==
    /\ at[p] = "check"
    /\ ListTasks
    /\ IF \A t \in Tasks : task[t] = "none" THEN Goto(p, "search") ELSE Goto(p, "unlock")
    /\ UNCHANGED <<calls, todo, current, owing, doomed, platform, history>>

(* The list is made again under the lock.                                  *)
Check(p) ==
    /\ at[p] = "check"
    /\ ListTasks
    /\ IF Quiet THEN Goto(p, "search") ELSE Goto(p, "unlock")
    /\ UNCHANGED <<calls, todo, current, owing, doomed, platform, history>>

(* _delete_crons; deleting one that is gone raises.                        *)
SearchDoomed(p) ==
    /\ at[p] = "search"
    /\ doomed' = [doomed EXCEPT ![p] = crons]
    /\ Goto(p, "delete")
    /\ UNCHANGED <<calls, todo, current, owing, sandbox, platform, history>>

DeleteCron(p) ==
    /\ at[p] = "delete"
    /\ \/ /\ doomed[p] = {} /\ Goto(p, "unlock")
          /\ UNCHANGED <<doomed, crons, causes>>
       \/ \E c \in doomed[p] :
             /\ IsFirst(c, doomed[p])
             /\ crons' = crons \ {c}
             /\ \/ /\ c \in crons /\ doomed' = [doomed EXCEPT ![p] = @ \ {c}]
                   /\ UNCHANGED <<at, causes>>
                \/ /\ c \notin crons /\ doomed' = [doomed EXCEPT ![p] = {}]
                   /\ Goto(p, "unlock")
                   /\ causes' = causes \union {"partial"}
    /\ UNCHANGED <<calls, todo, current, owing, sandbox, created, sent, faults>>

(* The finally clause removes the lock, whoever made it.                   *)
Unlock(p) ==
    /\ at[p] = "unlock"
    /\ monitorLock' = "none"
    /\ Return(p)
    /\ UNCHANGED <<calls, task, launchLock, claim, done, platform, history>>

(***************************************************************************)
(* An exception of the sandbox or the platform ends the tick, in the       *)
(* locked part after its finally clause; a crash ends it at once.          *)
(***************************************************************************)
Broken(p) ==
    /\ at[p] # "idle"
    /\ faults < MaxFaults /\ faults' = faults + 1
    /\ causes' = causes \union When(current[p] # {}, "crash")
                        \union When(at[p] = "delete", "partial")
    /\ \/ Return(p)
       \/ /\ at[p] \in {"check", "search", "delete"} /\ Goto(p, "unlock")
          /\ doomed' = [doomed EXCEPT ![p] = {}]
          /\ UNCHANGED <<todo, current, owing>>
    /\ UNCHANGED <<calls, sandbox, platform, sent>>

Tick(p) ==
    \/ List(p) \/ Claim(p) \/ Send(p) \/ Mark(p) \/ LookedAtAll(p)
    \/ Lock(p) \/ Check(p) \/ SearchDoomed(p) \/ DeleteCron(p) \/ Unlock(p)

-----------------------------------------------------------------------------
(* Time.                                                                   *)

Locked == {p \in Monitors : at[p] \in {"check", "search", "delete", "unlock"}}

Overrun(held, cause) ==
    \/ /\ held
       /\ faults < MaxFaults /\ faults' = faults + 1
       /\ causes' = causes \union {cause}
    \/ ~held /\ UNCHANGED <<faults, causes>>

(***************************************************************************)
(* A directory passes the age at which the list script removes it: 300 s   *)
(* for the monitor's lock and a claim, 30 s for the launch lock.           *)
(***************************************************************************)
AgeMonitorLock ==
    /\ monitorLock = "fresh" /\ monitorLock' = "old"
    /\ Overrun(Locked # {}, "monitorOverrun")
    /\ UNCHANGED <<calls, ticks, task, launchLock, claim, done, platform, sent>>

AgeLaunchLock ==
    /\ launchLock = "fresh" /\ launchLock' = "old"
    /\ Overrun(\E t \in Tasks : stage[t] \in {"locked", "spawned"}, "launchOverrun")
    /\ UNCHANGED <<calls, ticks, task, monitorLock, claim, done, platform, sent>>

AgeClaim(t) ==
    /\ claim[t] = "fresh" /\ claim' = [claim EXCEPT ![t] = "old"]
    /\ Overrun(\E p \in Monitors : t \in current[p], "claimOverrun")
    /\ UNCHANGED <<calls, ticks, task, launchLock, monitorLock, done, platform, sent>>

Age == AgeMonitorLock \/ AgeLaunchLock \/ \E t \in Tasks : AgeClaim(t)

-----------------------------------------------------------------------------

Next ==
    \/ \E t \in Tasks : Call(t) \/ Command(t)
    \/ \E p \in Monitors : Fire(p) \/ Tick(p) \/ Broken(p)
    \/ Age

Spec == Init /\ [][Next]_vars

(***************************************************************************)
(* Crons fire, ticks go on, time passes and every command ends, at its     *)
(* timeout if not before.  A tool call need not go on: it may be cut off   *)
(* anywhere.                                                               *)
(***************************************************************************)
FairSpec ==
    /\ Spec
    /\ WF_vars(\E p \in Monitors : Fire(p))
    /\ \A p \in Monitors : WF_vars(Tick(p))
    /\ WF_vars(AgeMonitorLock)
    /\ \A t \in Tasks : WF_vars(AgeClaim(t)) /\ WF_vars(RunnerEnds(t))

-----------------------------------------------------------------------------
(* Properties.                                                             *)

(* Every variable holds a value the code could give it.                    *)
TypeOK ==
    /\ stage \in [Tasks -> CallStages] /\ victims \in [Tasks -> SUBSET Nat]
    /\ task \in [Tasks -> TaskStates]
    /\ launchLock \in DirStates /\ monitorLock \in DirStates
    /\ claim \in [Tasks -> DirStates] /\ done \in SUBSET Tasks
    /\ sent \in [Tasks -> Counts]
    /\ crons \in SUBSET Nat /\ created \in Nat
    /\ at \in [Monitors -> MonitorStages]
    /\ todo \in [Monitors -> SUBSET Tasks] /\ current \in [Monitors -> SUBSET Tasks]
    /\ owing \in SUBSET Monitors /\ doomed \in [Monitors -> SUBSET Nat]
    /\ faults \in 0..MaxFaults /\ causes \in SUBSET Causes

(***************************************************************************)
(* A command that the tool reported as started without a warning keeps a   *)
(* cron until it has been announced, whatever other calls prune and other  *)
(* ticks retire meanwhile, unless the monitors' lock is taken from a tick  *)
(* that holds it or a tick breaks off between two deletions.               *)
(***************************************************************************)
Monitored ==
    causes \intersect {"monitorOverrun", "partial"} = {} =>
        \A t \in Tasks : stage[t] = "ok" /\ t \notin done => crons # {}

(***************************************************************************)
(* No command is announced twice unless ticks overlap, one is broken off   *)
(* or overruns the age of its claim, or a dispatch or a mark fails.        *)
(***************************************************************************)
AnnouncedOnce ==
    causes \subseteq {"late", "partial", "launchOverrun", "monitorOverrun"} =>
        \A t \in Tasks : sent[t] # "more"

(***************************************************************************)
(* However many launches overlap, no more than MAX_ACTIVE_TASKS commands   *)
(* are active, unless one starts after its launch was reported as failed   *)
(* or the launch lock is taken from a script that holds it.                *)
(***************************************************************************)
ActiveBounded ==
    causes \intersect {"late", "launchOverrun"} = {} => Cardinality(Active) <= MaxActive

(***************************************************************************)
(* "Completion is delivered automatically": a command reported as started  *)
(* without a warning is announced in the end, crashes and lost ticks       *)
(* notwithstanding, with the two exceptions of Monitored.                  *)
(***************************************************************************)
Announced ==
    \A t \in Tasks :
        stage[t] = "ok" ~>
            sent[t] # "never" \/ causes \intersect {"monitorOverrun", "partial"} # {}

(***************************************************************************)
(* Once every call has returned and every command that started has been    *)
(* announced, the crons go away.                                           *)
(***************************************************************************)
AllOver ==
    \A t \in Tasks :
        /\ stage[t] \in {"ok", "warned", "failed"}
        /\ task[t] = "none" \/ t \in done

CronsRetired == AllOver ~> crons = {}
=============================================================================
