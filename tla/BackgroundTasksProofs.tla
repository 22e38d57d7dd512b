------------------------ MODULE BackgroundTasksProofs ------------------------
(***************************************************************************)
(* Proofs about BackgroundTasks, for any commands, any number of ticks at  *)
(* a time, any cap and any bound on the faults.                            *)
(***************************************************************************)
EXTENDS BackgroundTasks, FiniteSetTheorems, TLAPS

-----------------------------------------------------------------------------
(* Types.                                                                  *)

(* A tool call keeps the types.                                            *)
LEMMA CallTypes ==
    ASSUME TypeOK, NEW t \in Tasks, Call(t)
    PROVE  TypeOK'
<1> USE DEF TypeOK, CallStages, TaskStates, DirStates, calls, ticks, sandbox, platform,
            history, Go
<1>1. CASE Start(t)  BY <1>1 DEF Start, ListTasks, Tidied
<1>2. CASE WaitToLaunch(t)  BY <1>2 DEF WaitToLaunch
<1>3. CASE LockLaunch(t)  BY <1>3 DEF LockLaunch
<1>4. CASE Spawn(t)  BY <1>4 DEF Spawn
<1>5. CASE LaunchReturns(t)  BY <1>5 DEF LaunchReturns
<1>6. CASE LaunchKilled(t)  BY <1>6, MaxFaultsAssumption DEF LaunchKilled
<1>7. CASE WaitToSchedule(t)  BY <1>7 DEF WaitToSchedule
<1>8. CASE SearchCrons(t)
  <2>0. \A kept \in crons : crons \ {kept} \in SUBSET Nat  OBVIOUS
  <2>1. victims' \in [Tasks -> SUBSET Nat]
    <3>1. victims' = victims \/ \E kept \in crons : victims' = [victims EXCEPT ![t] = crons \ {kept}]
      BY <1>8 DEF SearchCrons
    <3>2. QED  BY <2>0, <3>1
  <2>2. stage' \in [Tasks -> CallStages]  BY <1>8 DEF SearchCrons
  <2>3. UNCHANGED <<ticks, sandbox, platform, history>>  BY <1>8 DEF SearchCrons
  <2>4. QED  BY <2>1, <2>2, <2>3
<1>9. CASE CreateCron(t)
  <2>0. created + 1 \in Nat /\ crons \union {created + 1} \in SUBSET Nat  OBVIOUS
  <2>1. crons' \in SUBSET Nat /\ created' \in Nat
    <3>1. \/ crons' = crons \union {created + 1} /\ created' = created + 1
          \/ UNCHANGED <<crons, created>>
      BY <1>9 DEF CreateCron
    <3>2. QED  BY <2>0, <3>1
  <2>2. stage' \in [Tasks -> CallStages]  BY <1>9 DEF CreateCron
  <2>3. UNCHANGED <<victims, ticks, sandbox, history>>  BY <1>9 DEF CreateCron
  <2>4. QED  BY <2>1, <2>2, <2>3
<1>10. CASE PruneCron(t)
  <2>0. victims[t] \in SUBSET Nat /\ \A c \in crons : victims[t] \ {c} \in SUBSET Nat
    OBVIOUS
  <2>1. victims' \in [Tasks -> SUBSET Nat] /\ crons' \in SUBSET Nat
    <3>1. \/ UNCHANGED <<victims, crons>>
          \/ \E c \in crons : crons' = crons \ {c} /\ victims' = [victims EXCEPT ![t] = @ \ {c}]
          \/ victims' = [victims EXCEPT ![t] = {}] /\ UNCHANGED crons
      BY <1>10 DEF PruneCron
    <3>2. QED  BY <2>0, <3>1
  <2>2. stage' \in [Tasks -> CallStages]  BY <1>10 DEF PruneCron
  <2>3. UNCHANGED <<ticks, sandbox, created, history>>  BY <1>10 DEF PruneCron
  <2>4. QED  BY <2>1, <2>2, <2>3
<1>11. QED  BY <1>1, <1>2, <1>3, <1>4, <1>5, <1>6, <1>7, <1>8, <1>9, <1>10 DEF Call

(* So does a tick of the monitor, and its end by an exception or a crash.  *)
LEMMA TickTypes ==
    ASSUME TypeOK, NEW p \in Monitors, Fire(p) \/ Tick(p) \/ Broken(p)
    PROVE  TypeOK'
<1> USE DEF TypeOK, TaskStates, MonitorStages, DirStates, Counts, Causes, calls, ticks,
            sandbox, platform, history, Goto, Return, Forget
<1>1. CASE Fire(p)  BY <1>1 DEF Fire
<1>2. CASE List(p)  BY <1>2 DEF List, ListTasks, Tidied, Unannounced
<1>3. CASE Claim(p)
  <2>1. /\ claim' \in [Tasks -> DirStates] /\ at' \in [Monitors -> MonitorStages]
        /\ todo' \in [Monitors -> SUBSET Tasks] /\ current' \in [Monitors -> SUBSET Tasks]
        /\ owing' \in SUBSET Monitors
    <3>1. PICK t \in todo[p] :
             /\ todo' = [todo EXCEPT ![p] = @ \ {t}]
             /\ \/ /\ claim' = [claim EXCEPT ![t] = "fresh"]
                   /\ current' = [current EXCEPT ![p] = {t}]
                   /\ at' = [at EXCEPT ![p] = "send"] /\ owing' = owing
                \/ /\ owing' = owing \union {p}
                   /\ UNCHANGED <<claim, current, at>>
      BY <1>3 DEF Claim
    <3>2. t \in Tasks /\ todo[p] \ {t} \in SUBSET Tasks  OBVIOUS
    <3>3. QED  BY <3>1, <3>2
  <2>2. causes' \in SUBSET Causes  BY <1>3 DEF Claim, When
  <2>3. UNCHANGED <<calls, doomed, task, launchLock, monitorLock, done, platform, sent, faults>>
    BY <1>3 DEF Claim
  <2>4. QED  BY <2>1, <2>2, <2>3
<1>4. CASE Send(p)
  <2>1. PICK t \in current[p] : \/ UNCHANGED <<current, owing, claim>> /\ Goto(p, "mark")
                               \/ Unclaim(p, t)
    BY <1>4 DEF Send
  <2>0. t \in Tasks  BY <2>1
  <2>2. /\ claim' \in [Tasks -> DirStates] /\ at' \in [Monitors -> MonitorStages]
        /\ current' \in [Monitors -> SUBSET Tasks] /\ owing' \in SUBSET Monitors
    BY <2>0, <2>1 DEF Unclaim
  <2>3. sent' \in [Tasks -> Counts]  BY <1>4 DEF Send, OneMore
  <2>4. faults' \in 0..MaxFaults  BY <1>4, MaxFaultsAssumption DEF Send
  <2>5. causes' \in SUBSET Causes  BY <1>4 DEF Send
  <2>6. UNCHANGED <<calls, todo, doomed, task, launchLock, monitorLock, done, platform>>
    BY <1>4 DEF Send
  <2>7. QED  BY <2>2, <2>3, <2>4, <2>5, <2>6
<1>5. CASE Mark(p)
  <2>1. PICK t \in current[p] :
           \/ /\ claim' = [claim EXCEPT ![t] = "none"] /\ done' = done \union {t}
              /\ current' = [current EXCEPT ![p] = {}] /\ Goto(p, "claim") /\ UNCHANGED owing
           \/ Unclaim(p, t) /\ UNCHANGED done
    BY <1>5 DEF Mark
  <2>0. t \in Tasks  BY <2>1
  <2>2. /\ claim' \in [Tasks -> DirStates] /\ at' \in [Monitors -> MonitorStages]
        /\ current' \in [Monitors -> SUBSET Tasks] /\ owing' \in SUBSET Monitors
        /\ done' \in SUBSET Tasks
    BY <2>0, <2>1 DEF Unclaim
  <2>3. faults' \in 0..MaxFaults  BY <1>5, MaxFaultsAssumption DEF Mark
  <2>4. causes' \in SUBSET Causes  BY <1>5 DEF Mark
  <2>5. UNCHANGED <<calls, todo, doomed, task, launchLock, monitorLock, platform, sent>>
    BY <1>5 DEF Mark
  <2>6. QED  BY <2>2, <2>3, <2>4, <2>5
<1>6. CASE LookedAtAll(p)
  <2>1. CASE p \in owing  BY <1>6, <2>1 DEF LookedAtAll
  <2>2. CASE p \notin owing  BY <1>6, <2>2 DEF LookedAtAll
  <2>3. QED  BY <2>1, <2>2
<1>7. CASE Lock(p)  BY <1>7 DEF Lock
<1>8. CASE Check(p)  BY <1>8 DEF Check, ListTasks, Tidied
<1>9. CASE SearchDoomed(p)  BY <1>9 DEF SearchDoomed
<1>10. CASE DeleteCron(p)
  <2>1. /\ at' \in [Monitors -> MonitorStages] /\ doomed' \in [Monitors -> SUBSET Nat]
        /\ crons' \in SUBSET Nat
    <3>1. /\ \/ crons' = crons
             \/ \E c \in doomed[p] : crons' = crons \ {c}
          /\ \/ doomed' = doomed
             \/ \E c \in doomed[p] : doomed' = [doomed EXCEPT ![p] = @ \ {c}]
             \/ doomed' = [doomed EXCEPT ![p] = {}]
          /\ at' = at \/ at' = [at EXCEPT ![p] = "unlock"]
      BY <1>10 DEF DeleteCron
    <3>2. crons' \in SUBSET Nat  BY <3>1
    <3>3. doomed' \in [Monitors -> SUBSET Nat]
      <4>1. doomed[p] \in SUBSET Nat /\ \A c \in doomed[p] : doomed[p] \ {c} \in SUBSET Nat
        OBVIOUS
      <4>2. QED  BY <3>1, <4>1
    <3>4. at' \in [Monitors -> MonitorStages]  BY <3>1
    <3>5. QED  BY <3>2, <3>3, <3>4
  <2>2. causes' \in SUBSET Causes
    <3>1. causes' = causes \/ causes' = causes \union {"partial"}  BY <1>10 DEF DeleteCron
    <3>2. QED  BY <3>1
  <2>3. UNCHANGED <<calls, todo, current, owing, sandbox, created, sent, faults>>
    BY <1>10 DEF DeleteCron
  <2>4. QED  BY <2>1, <2>2, <2>3
<1>11. CASE Unlock(p)  BY <1>11 DEF Unlock
<1>12. CASE Broken(p)
  <2>1. /\ at' \in [Monitors -> MonitorStages] /\ doomed' \in [Monitors -> SUBSET Nat]
        /\ todo' \in [Monitors -> SUBSET Tasks] /\ current' \in [Monitors -> SUBSET Tasks]
        /\ owing' \in SUBSET Monitors
    BY <1>12 DEF Broken
  <2>2. faults' \in 0..MaxFaults  BY <1>12, MaxFaultsAssumption DEF Broken
  <2>3. causes' \in SUBSET Causes  BY <1>12 DEF Broken, When
  <2>4. UNCHANGED <<calls, sandbox, platform, sent>>  BY <1>12 DEF Broken
  <2>5. QED  BY <2>1, <2>2, <2>3, <2>4
<1>13. QED
  BY <1>1, <1>2, <1>3, <1>4, <1>5, <1>6, <1>7, <1>8, <1>9, <1>10, <1>11, <1>12 DEF Tick

(* And the commands and the passing of time.                               *)
LEMMA OtherTypes ==
    ASSUME TypeOK, (\E t \in Tasks : Command(t)) \/ Age
    PROVE  TypeOK'
<1> USE DEF TypeOK, TaskStates, DirStates, Causes, calls, ticks, sandbox, platform, history
<1>1. ASSUME NEW t \in Tasks, Command(t) PROVE TypeOK'
  BY <1>1 DEF Command, RunnerStarts, RunnerEnds, RunnerDies, Inspect, When
<1>2. ASSUME NEW held, NEW cause \in Causes, Overrun(held, cause)
      PROVE  faults' \in 0..MaxFaults /\ causes' \in SUBSET Causes
  <2>1. \/ faults < MaxFaults /\ faults' = faults + 1 /\ causes' = causes \union {cause}
        \/ UNCHANGED <<faults, causes>>
    BY <1>2 DEF Overrun
  <2>2. faults' \in 0..MaxFaults  BY <2>1, MaxFaultsAssumption
  <2>3. causes' \in SUBSET Causes  BY <2>1
  <2>4. QED  BY <2>2, <2>3
<1>3. CASE AgeMonitorLock
  <2>1. faults' \in 0..MaxFaults /\ causes' \in SUBSET Causes  BY <1>2, <1>3 DEF AgeMonitorLock
  <2>2. QED  BY <1>3, <2>1 DEF AgeMonitorLock
<1>4. CASE AgeLaunchLock
  <2>1. faults' \in 0..MaxFaults /\ causes' \in SUBSET Causes  BY <1>2, <1>4 DEF AgeLaunchLock
  <2>2. QED  BY <1>4, <2>1 DEF AgeLaunchLock
<1>5. ASSUME NEW t \in Tasks, AgeClaim(t) PROVE TypeOK'
  <2>1. faults' \in 0..MaxFaults /\ causes' \in SUBSET Causes  BY <1>2, <1>5 DEF AgeClaim
  <2>2. QED  BY <1>5, <2>1 DEF AgeClaim
<1>6. QED  BY <1>1, <1>3, <1>4, <1>5 DEF Age

(***************************************************************************)
(* Calls, commands, ticks, faults and the passing of time keep every       *)
(* variable within its type.                                               *)
(***************************************************************************)
THEOREM TaskTypes == Spec => []TypeOK
<1>1. Init => TypeOK
  BY MaxFaultsAssumption
  DEF Init, TypeOK, CallStages, TaskStates, MonitorStages, DirStates, Counts, Causes
<1>2. TypeOK /\ [Next]_vars => TypeOK'
  <2> SUFFICES ASSUME TypeOK, [Next]_vars PROVE TypeOK'  OBVIOUS
  <2>1. CASE Next  BY <2>1, CallTypes, TickTypes, OtherTypes DEF Next
  <2>2. CASE UNCHANGED vars
    BY <2>2 DEF TypeOK, vars, calls, ticks, sandbox, platform, history
  <2>3. QED  BY <2>1, <2>2
<1>3. QED  BY <1>1, <1>2, PTL DEF Spec

-----------------------------------------------------------------------------
(* Announcements.                                                          *)

(***************************************************************************)
(* As long as nothing excuses a second announcement, a claim is held by    *)
(* one tick, for a task not announced yet, and what has been announced is  *)
(* marked, or in the hands of the tick that will mark it.                  *)
(***************************************************************************)
Holding ==
    \A p \in Monitors :
        /\ current[p] # {} => at[p] \in {"send", "mark"}
        /\ \A t, u \in current[p] : t = u
        /\ \A t \in current[p] :
              /\ claim[t] = "fresh" /\ t \notin done
              /\ at[p] = "send" => sent[t] = "never"
              /\ \A q \in Monitors : t \in current[q] => p = q

Accounted ==
    \A t \in Tasks :
        /\ sent[t] # "more"
        /\ sent[t] = "once" => t \in done \/ \E p \in Monitors : at[p] = "mark" /\ t \in current[p]

Excused == {"late", "partial", "launchOverrun", "monitorOverrun"}

OnceInv == causes \subseteq Excused => Holding /\ Accounted

(* Calls, commands and the passing of time leave the claims held alone.    *)
LEMMA ClaimsLeftAlone ==
    ASSUME TypeOK, OnceInv, (\E t \in Tasks : Call(t) \/ Command(t)) \/ Age
    PROVE  OnceInv'
<1> SUFFICES ASSUME causes' \subseteq Excused PROVE Holding' /\ Accounted'
  BY DEF OnceInv
<1> USE DEF calls, ticks, sandbox, platform, history
<1>1. /\ UNCHANGED <<ticks, done, sent>> /\ causes \subseteq causes'
      /\ \A t \in Tasks : claim[t] = "fresh" =>
            claim'[t] = "fresh" \/ \A p \in Monitors : t \notin current[p]
  <2>1. ASSUME NEW t \in Tasks, Call(t)
        PROVE  /\ UNCHANGED <<ticks, done, sent, causes>>
               /\ \A u \in Tasks : claim[u] = "fresh" => claim'[u] = "fresh"
    BY <2>1 DEF Call, Start, ListTasks, Tidied, WaitToLaunch, LockLaunch, Spawn, LaunchReturns,
                LaunchKilled, WaitToSchedule, SearchCrons, CreateCron, PruneCron
  <2>2. ASSUME NEW t \in Tasks, Command(t)
        PROVE  UNCHANGED <<ticks, done, sent, claim>> /\ causes \subseteq causes'
    BY <2>2 DEF Command, RunnerStarts, RunnerEnds, RunnerDies, Inspect
  <2>3. CASE AgeMonitorLock \/ AgeLaunchLock
    BY <2>3 DEF AgeMonitorLock, AgeLaunchLock, Overrun
  <2>4. ASSUME NEW t \in Tasks, AgeClaim(t)
        PROVE  /\ UNCHANGED <<ticks, done, sent>> /\ causes \subseteq causes'
               /\ \A p \in Monitors : t \notin current[p]
               /\ \A u \in Tasks \ {t} : claim'[u] = claim[u]
    BY <2>4 DEF AgeClaim, Overrun, Excused, TypeOK
  <2>5. QED  BY <2>1, <2>2, <2>3, <2>4 DEF Age
<1>2. Holding /\ Accounted  BY <1>1 DEF OnceInv
<1>3. QED  BY <1>1, <1>2 DEF Holding, Accounted, TypeOK

(* The steps of a tick between its list and its lock.                      *)
LEMMA ClaimsHandedOn ==
    ASSUME TypeOK, OnceInv, NEW p \in Monitors, Claim(p) \/ Send(p) \/ Mark(p) \/ Broken(p)
    PROVE  OnceInv'
<1> SUFFICES ASSUME causes' \subseteq Excused PROVE Holding' /\ Accounted'
  BY DEF OnceInv
<1> USE DEF TypeOK, calls, ticks, sandbox, platform, history, Goto
<1>0. causes \subseteq causes'
  BY DEF Claim, Send, Mark, Broken
<1>1. Holding /\ Accounted  BY <1>0 DEF OnceInv
<1>2. CASE Claim(p)
  <2>1. PICK t \in todo[p] : \/ /\ claim[t] = "none" /\ t \notin done
                                /\ claim' = [claim EXCEPT ![t] = "fresh"]
                                /\ current' = [current EXCEPT ![p] = {t}]
                                /\ at' = [at EXCEPT ![p] = "send"]
                             \/ UNCHANGED <<claim, current, at>>
    BY <1>2 DEF Claim, When, Excused
  <2>2. UNCHANGED <<done, sent>> /\ at[p] = "claim"  BY <1>2 DEF Claim
  <2>3. t \in Tasks  BY <2>1
  <2>4. current[p] = {}  BY <1>1, <2>2 DEF Holding
  <2>5. claim[t] = "none" => \A q \in Monitors : t \notin current[q]  BY <1>1 DEF Holding
  <2>6. claim[t] = "none" /\ t \notin done => sent[t] = "never"
    BY <1>1, <2>3, <2>5 DEF Accounted, Counts
  <2>7. CASE UNCHANGED <<claim, current, at>>  BY <1>1, <2>2, <2>7 DEF Holding, Accounted
  <2>8. CASE /\ claim[t] = "none" /\ t \notin done
             /\ claim' = [claim EXCEPT ![t] = "fresh"]
             /\ current' = [current EXCEPT ![p] = {t}]
             /\ at' = [at EXCEPT ![p] = "send"]
    <3>1. current'[p] = {t} /\ at'[p] = "send" /\ claim'[t] = "fresh"
      BY <2>3, <2>8
    <3>2. /\ \A q \in Monitors \ {p} : current'[q] = current[q] /\ at'[q] = at[q]
          /\ \A u \in Tasks \ {t} : claim'[u] = claim[u]
      BY <2>8
    <3>3. Holding'  BY <1>1, <2>2, <2>3, <2>5, <2>6, <2>8, <3>1, <3>2 DEF Holding
    <3>4. Accounted'  BY <1>1, <2>2, <2>4, <3>1, <3>2 DEF Accounted
    <3>5. QED  BY <3>3, <3>4
  <2>9. QED  BY <2>1, <2>7, <2>8
<1>3. CASE Send(p)
  <2>1. PICK t \in current[p] :
           \/ /\ sent' = [sent EXCEPT ![t] = OneMore(@)] /\ at' = [at EXCEPT ![p] = "mark"]
              /\ UNCHANGED <<current, claim>>
           \/ UNCHANGED sent /\ Unclaim(p, t)
    BY <1>3 DEF Send, Excused
  <2>2. UNCHANGED done /\ at[p] = "send"  BY <1>3 DEF Send
  <2>3. t \in Tasks /\ current[p] = {t} /\ sent[t] = "never"
    BY <1>1, <2>1, <2>2 DEF Holding
  <2>4. \A q \in Monitors \ {p} : t \notin current[q]  BY <1>1, <2>1 DEF Holding
  <2>5. Holding'  BY <1>1, <2>1, <2>2, <2>3, <2>4 DEF Holding, Unclaim
  <2>6. Accounted'  BY <1>1, <2>1, <2>2, <2>3, <2>4 DEF Accounted, Unclaim, OneMore
  <2>7. QED  BY <2>5, <2>6
<1>4. CASE Mark(p)
  <2>1. PICK t \in current[p] :
           \/ /\ claim' = [claim EXCEPT ![t] = "none"] /\ done' = done \union {t}
              /\ current' = [current EXCEPT ![p] = {}] /\ at' = [at EXCEPT ![p] = "claim"]
           \/ claim[t] = "none"
    BY <1>4 DEF Mark, Excused
  <2>2. UNCHANGED sent /\ at[p] = "mark"  BY <1>4 DEF Mark
  <2>3. t \in Tasks /\ current[p] = {t} /\ claim[t] = "fresh"
    BY <1>1, <2>1 DEF Holding
  <2>4. \A q \in Monitors \ {p} : t \notin current[q]  BY <1>1, <2>1 DEF Holding
  <2>5. Holding'  BY <1>1, <2>1, <2>2, <2>3, <2>4 DEF Holding
  <2>6. Accounted'  BY <1>1, <2>1, <2>2, <2>3, <2>4 DEF Accounted
  <2>7. QED  BY <2>5, <2>6
<1>5. CASE Broken(p)
  <2>1. current[p] = {}  BY <1>5 DEF Broken, When, Excused
  <2>2. /\ UNCHANGED <<claim, done, sent>>
        /\ \A q \in Monitors : current'[q] = current[q]
        /\ \A q \in Monitors \ {p} : at'[q] = at[q]
    BY <1>5, <2>1 DEF Broken, Return, Forget
  <2>3. QED  BY <1>1, <2>1, <2>2 DEF Holding, Accounted
<1>6. QED  BY <1>2, <1>3, <1>4, <1>5

(* The other steps of a tick are made without a claim.                     *)
LEMMA ClaimsNotHeld ==
    ASSUME TypeOK, OnceInv, NEW p \in Monitors,
           \/ Fire(p) \/ List(p) \/ LookedAtAll(p) \/ Lock(p) \/ Check(p)
           \/ SearchDoomed(p) \/ DeleteCron(p) \/ Unlock(p)
    PROVE  OnceInv'
<1> SUFFICES ASSUME causes' \subseteq Excused PROVE Holding' /\ Accounted'
  BY DEF OnceInv
<1> USE DEF TypeOK, calls, ticks, sandbox, platform, history, Goto, Return, Forget
<1>1. causes \subseteq causes' /\ UNCHANGED <<done, sent>>
  BY DEF Fire, List, ListTasks, LookedAtAll, Lock, Check, SearchDoomed, DeleteCron, Unlock
<1>2. Holding /\ Accounted  BY <1>1 DEF OnceInv
<1>3. /\ at[p] \notin {"send", "mark"} /\ at'[p] \notin {"send", "mark"}
      /\ \A q \in Monitors \ {p} : at'[q] = at[q] /\ current'[q] = current[q]
      /\ current'[p] \in {current[p], {}}
  BY DEF Fire, List, LookedAtAll, Lock, Check, SearchDoomed, DeleteCron, Unlock
<1>4. current[p] = {} /\ current'[p] = {}  BY <1>2, <1>3 DEF Holding
<1>5. \A t \in Tasks : claim[t] = "fresh" => claim'[t] = "fresh"
  BY DEF Fire, List, ListTasks, Tidied, LookedAtAll, Lock, Check, SearchDoomed, DeleteCron, Unlock
<1>6. Holding'  BY <1>1, <1>2, <1>3, <1>4, <1>5 DEF Holding
<1>7. Accounted'  BY <1>1, <1>2, <1>3, <1>4 DEF Accounted
<1>8. QED  BY <1>6, <1>7

(***************************************************************************)
(* A command is announced once, however many ticks run at a time, unless   *)
(* ticks overlap, break off with a claim in hand or outlive its age, or a  *)
(* dispatch or a mark fails.                                               *)
(***************************************************************************)
THEOREM AnnouncementsAreSingle == Spec => []AnnouncedOnce
<1>1. Init => OnceInv
  BY DEF Init, OnceInv, Holding, Accounted
<1>2. TypeOK /\ OnceInv /\ [Next]_vars => OnceInv'
  <2> SUFFICES ASSUME TypeOK, OnceInv, [Next]_vars PROVE OnceInv'  OBVIOUS
  <2>1. CASE Next
    BY <2>1, ClaimsLeftAlone, ClaimsHandedOn, ClaimsNotHeld DEF Next, Tick
  <2>2. CASE UNCHANGED vars
    BY <2>2 DEF OnceInv, Holding, Accounted, vars, calls, ticks, sandbox, platform, history
  <2>3. QED  BY <2>1, <2>2
<1>3. OnceInv => AnnouncedOnce
  BY DEF OnceInv, AnnouncedOnce, Accounted, Excused
<1>4. QED  BY <1>1, <1>2, <1>3, TaskTypes, PTL DEF Spec

-----------------------------------------------------------------------------
(* The number of active commands.                                          *)

(***************************************************************************)
(* As long as no command starts late and no launch lock is taken from its  *)
(* holder, one script at most is past the lock, and the command that it is *)
(* about to start counts already.                                          *)
(***************************************************************************)
Launching == {t \in Tasks : stage[t] \in {"locked", "spawned"}}
Counted == Active \union {t \in Tasks : stage[t] = "spawned" /\ task[t] = "spawned"}

OneLauncher ==
    /\ Launching # {} => launchLock = "fresh"
    /\ \A t, u \in Launching : t = u

OnTimeCauses == {"error", "crash", "overlap", "partial", "monitorOverrun", "claimOverrun"}

CountInv == causes \subseteq OnTimeCauses => OneLauncher /\ Cardinality(Counted) <= MaxActive

(* No set of commands outgrows one it is a part of.                        *)
LEMMA FewerCounted ==
    ASSUME NEW S, NEW T, S \subseteq T, T \subseteq Tasks, Cardinality(T) <= MaxActive
    PROVE  Cardinality(S) <= MaxActive
<1>1. IsFiniteSet(T)  BY TasksAssumption, FS_Subset
<1>2. IsFiniteSet(S) /\ Cardinality(S) <= Cardinality(T)  BY <1>1, FS_Subset
<1>3. Cardinality(S) \in Nat /\ Cardinality(T) \in Nat  BY <1>1, <1>2, FS_CardinalityType
<1>4. QED  BY <1>2, <1>3, MaxActiveAssumption

(* A list changes no command but those found dead.                         *)
LEMMA ListedTasks ==
    ASSUME TypeOK, ListTasks \/ UNCHANGED task
    PROVE  \A t \in Tasks : task'[t] = task[t] \/ (task[t] = "dead" /\ task'[t] = "ended")
<1>1. CASE ListTasks  BY <1>1 DEF ListTasks, TypeOK
<1>2. CASE UNCHANGED task  BY <1>2
<1>3. QED  BY <1>1, <1>2

(* The steps of a launch.                                                  *)
LEMMA LaunchCounts ==
    ASSUME TypeOK, CountInv, NEW t \in Tasks, LockLaunch(t) \/ Spawn(t) \/ LaunchReturns(t)
    PROVE  CountInv'
<1> SUFFICES ASSUME causes \subseteq OnTimeCauses
             PROVE  OneLauncher' /\ Cardinality(Counted') <= MaxActive
  BY DEF CountInv, LockLaunch, Spawn, LaunchReturns, history
<1> USE DEF TypeOK, Go, history
<1>1. OneLauncher /\ Cardinality(Counted) <= MaxActive  BY DEF CountInv
<1>2. Counted \subseteq Tasks  BY DEF Counted, Active
<1>3. CASE LockLaunch(t)
  <2>1. UNCHANGED task /\ stage[t] = "clear"  BY <1>3 DEF LockLaunch
  <2>2. \/ launchLock = "none" /\ launchLock' = "fresh" /\ stage' = [stage EXCEPT ![t] = "locked"]
        \/ UNCHANGED launchLock /\ stage' = [stage EXCEPT ![t] = "failed"]
    BY <1>3 DEF LockLaunch
  <2>3. Counted' = Counted  BY <2>1, <2>2 DEF Counted, Active
  <2>4. OneLauncher'  BY <1>1, <2>1, <2>2 DEF OneLauncher, Launching
  <2>5. QED  BY <1>1, <2>3, <2>4
<1>4. CASE Spawn(t)
  <2>1. t \in Launching /\ stage[t] = "locked"  BY <1>4 DEF Spawn, Launching
  <2>2. Launching = {t}  BY <1>1, <2>1 DEF OneLauncher
  <2>3. CASE Cardinality(Active) < MaxActive /\ stage' = [stage EXCEPT ![t] = "spawned"]
             /\ task' = [task EXCEPT ![t] = "spawned"] /\ UNCHANGED launchLock
    <3>1. OneLauncher'  BY <1>1, <2>2, <2>3 DEF OneLauncher, Launching
    <3>2. Counted' \subseteq Active \union {t}
      BY <2>2, <2>3 DEF Counted, Active, Launching
    <3>3. IsFiniteSet(Active)
      BY TasksAssumption, FS_Subset DEF Active
    <3>4. /\ IsFiniteSet(Active \union {t}) /\ Cardinality(Active) \in Nat
          /\ Cardinality(Active \union {t}) \in {Cardinality(Active), Cardinality(Active) + 1}
      BY <3>3, FS_AddElement, FS_CardinalityType
    <3>5. Cardinality(Active \union {t}) <= MaxActive  BY <2>3, <3>4, MaxActiveAssumption
    <3>6. Active \union {t} \subseteq Tasks  BY DEF Active
    <3>7. QED  BY <3>1, <3>2, <3>5, <3>6, FewerCounted
  <2>4. CASE stage' = [stage EXCEPT ![t] = "failed"] /\ launchLock' = "none" /\ UNCHANGED task
    <3>1. OneLauncher'  BY <2>2, <2>4 DEF OneLauncher, Launching
    <3>2. Counted' \subseteq Counted  BY <2>4 DEF Counted, Active
    <3>3. QED  BY <1>1, <1>2, <3>1, <3>2, FewerCounted
  <2>5. QED  BY <1>4, <2>3, <2>4 DEF Spawn
<1>5. CASE LaunchReturns(t)
  <2>1. t \in Launching /\ UNCHANGED task  BY <1>5 DEF LaunchReturns, Launching
  <2>2. Launching = {t}  BY <1>1, <2>1 DEF OneLauncher
  <2>3. \E s \in {"launched", "failed"} : stage' = [stage EXCEPT ![t] = s]
    BY <1>5 DEF LaunchReturns
  <2>4. Launching' = {}  BY <2>2, <2>3 DEF Launching
  <2>5. Counted' \subseteq Counted  BY <2>1, <2>3 DEF Counted, Active
  <2>6. OneLauncher'  BY <2>4 DEF OneLauncher
  <2>7. QED  BY <1>1, <1>2, <2>5, <2>6, FewerCounted
<1>6. QED  BY <1>3, <1>4, <1>5

(* A step that launches nothing, starts no command late and leaves a fresh *)
(* launch lock alone counts nothing more.                                  *)
LEMMA NothingLaunched ==
    ASSUME TypeOK, CountInv, causes \subseteq causes',
           causes' \subseteq OnTimeCauses /\ launchLock = "fresh" /\ Launching # {} =>
               launchLock' = "fresh",
           Launching' \subseteq Launching,
           causes' \subseteq OnTimeCauses => Counted' \subseteq Counted
    PROVE  CountInv'
<1> SUFFICES ASSUME causes' \subseteq OnTimeCauses
             PROVE  OneLauncher' /\ Cardinality(Counted') <= MaxActive
  BY DEF CountInv
<1>1. OneLauncher /\ Cardinality(Counted) <= MaxActive  BY DEF CountInv
<1>2. Counted \subseteq Tasks  BY DEF Counted, Active
<1>3. Cardinality(Counted') <= MaxActive  BY <1>1, <1>2, FewerCounted
<1>4. OneLauncher'  BY <1>1 DEF OneLauncher
<1>5. QED  BY <1>3, <1>4

(* The other steps of a tool call.                                         *)
LEMMA CallCounts ==
    ASSUME TypeOK, CountInv, NEW t \in Tasks,
           \/ Start(t) \/ WaitToLaunch(t) \/ LaunchKilled(t) \/ WaitToSchedule(t)
           \/ SearchCrons(t) \/ CreateCron(t) \/ PruneCron(t)
    PROVE  CountInv'
<1> USE DEF TypeOK, Go, sandbox, history
<1>1. UNCHANGED causes
  BY DEF Start, WaitToLaunch, LaunchKilled, WaitToSchedule, SearchCrons, CreateCron, PruneCron
<1>2. launchLock = "fresh" => launchLock' = "fresh"
  BY DEF Start, ListTasks, Tidied, WaitToLaunch, LaunchKilled, WaitToSchedule, SearchCrons,
         CreateCron, PruneCron
<1>3. /\ stage'[t] \notin {"locked", "spawned"}
      /\ \A u \in Tasks \ {t} : stage'[u] = stage[u]
  BY DEF Start, WaitToLaunch, LaunchKilled, WaitToSchedule, SearchCrons, CreateCron, PruneCron
<1>4. Launching' \subseteq Launching  BY <1>3 DEF Launching
<1>5. \A u \in Tasks : task'[u] = task[u] \/ (task[u] = "dead" /\ task'[u] = "ended")
  <2>1. ListTasks \/ UNCHANGED task
    BY DEF Start, WaitToLaunch, LaunchKilled, WaitToSchedule, SearchCrons, CreateCron, PruneCron
  <2>2. QED  BY <2>1, ListedTasks
<1>6. Counted' \subseteq Counted  BY <1>3, <1>5 DEF Counted, Active
<1>7. QED  BY <1>1, <1>2, <1>4, <1>6, NothingLaunched

(* Commands, ticks and the passing of time.                                *)
LEMMA OtherCounts ==
    ASSUME TypeOK, CountInv,
           \/ \E t \in Tasks : Command(t)
           \/ \E p \in Monitors : Fire(p) \/ Tick(p) \/ Broken(p)
           \/ Age
    PROVE  CountInv'
<1> USE DEF TypeOK, calls, ticks, sandbox, platform, history
<1>1. ASSUME NEW t \in Tasks, RunnerStarts(t) PROVE CountInv'
  <2>1. /\ UNCHANGED <<stage, launchLock>> /\ task[t] = "spawned"
        /\ task' = [task EXCEPT ![t] = "running"]
        /\ causes \subseteq causes'
        /\ stage[t] # "spawned" => "late" \in causes'
    BY <1>1 DEF RunnerStarts, When
  <2>2. Launching' = Launching  BY <2>1 DEF Launching
  <2>3. ASSUME causes' \subseteq OnTimeCauses PROVE Counted' \subseteq Counted
    <3>1. "late" \notin causes'  BY <2>3 DEF OnTimeCauses
    <3>2. stage[t] = "spawned" /\ t \in Counted  BY <2>1, <3>1 DEF Counted
    <3>3. \A u \in Tasks \ {t} : task'[u] = task[u] /\ stage'[u] = stage[u]  BY <2>1
    <3>4. QED  BY <3>2, <3>3 DEF Counted, Active
  <2>4. /\ causes' \subseteq OnTimeCauses /\ launchLock = "fresh" /\ Launching # {} =>
              launchLock' = "fresh"
        /\ Launching' \subseteq Launching /\ causes \subseteq causes'
    BY <2>1, <2>2
  <2>5. QED  BY <2>3, <2>4, NothingLaunched
<1>2. ASSUME NEW t \in Tasks, RunnerEnds(t) \/ RunnerDies(t) \/ Inspect(t) PROVE CountInv'
  <2>1. UNCHANGED <<stage, launchLock, causes>>  BY <1>2 DEF RunnerEnds, RunnerDies, Inspect
  <2>2. /\ \A u \in Tasks \ {t} : task'[u] = task[u]
        /\ task'[t] \in {"running", "dead"} => task[t] \in {"running", "dead"}
        /\ task'[t] # "spawned"
    BY <1>2 DEF RunnerEnds, RunnerDies, Inspect
  <2>3. Launching' = Launching  BY <2>1 DEF Launching
  <2>4. Counted' \subseteq Counted  BY <2>1, <2>2 DEF Counted, Active
  <2>5. QED  BY <2>1, <2>3, <2>4, NothingLaunched
<1>3. ASSUME NEW p \in Monitors, Fire(p) \/ Tick(p) \/ Broken(p) PROVE CountInv'
  <2>1. UNCHANGED stage /\ causes \subseteq causes'
    BY <1>3 DEF Fire, Tick, List, ListTasks, Claim, Send, Mark, LookedAtAll, Lock, Check,
                SearchDoomed, DeleteCron, Unlock, Broken
  <2>2. launchLock = "fresh" => launchLock' = "fresh"
    BY <1>3 DEF Fire, Tick, List, ListTasks, Tidied, Claim, Send, Mark, LookedAtAll, Lock, Check,
                SearchDoomed, DeleteCron, Unlock, Broken
  <2>3. \A u \in Tasks : task'[u] = task[u] \/ (task[u] = "dead" /\ task'[u] = "ended")
    <3>1. ListTasks \/ UNCHANGED task
      BY <1>3 DEF Fire, Tick, List, Claim, Send, Mark, LookedAtAll, Lock, Check,
                  SearchDoomed, DeleteCron, Unlock, Broken
    <3>2. QED  BY <3>1, ListedTasks
  <2>4. Launching' = Launching  BY <2>1 DEF Launching
  <2>5. Counted' \subseteq Counted  BY <2>1, <2>3 DEF Counted, Active
  <2>6. QED  BY <2>1, <2>2, <2>4, <2>5, NothingLaunched
<1>4. CASE Age
  <2>1. UNCHANGED <<stage, task>> /\ causes \subseteq causes'
    BY <1>4 DEF Age, AgeMonitorLock, AgeLaunchLock, AgeClaim, Overrun
  <2>2. causes' \subseteq OnTimeCauses /\ launchLock = "fresh" /\ Launching # {} =>
            launchLock' = "fresh"
    BY <1>4 DEF Age, AgeMonitorLock, AgeLaunchLock, AgeClaim, Overrun, OnTimeCauses, Launching
  <2>3. Launching' = Launching /\ Counted' = Counted  BY <2>1 DEF Launching, Counted, Active
  <2>4. QED  BY <2>1, <2>2, <2>3, NothingLaunched
<1>5. QED  BY <1>1, <1>2, <1>3, <1>4 DEF Command

(***************************************************************************)
(* Whatever launches overlap, the count under the launch lock keeps the    *)
(* active commands within the cap, but for commands that start after their *)
(* launch was reported as failed and for a lock taken from its holder.     *)
(***************************************************************************)
THEOREM ActiveIsBounded == Spec => []ActiveBounded
<1>1. Init => CountInv
  <2> SUFFICES ASSUME Init PROVE CountInv  OBVIOUS
  <2>1. Counted = {} /\ Launching = {}  BY DEF Init, Counted, Active, Launching
  <2>2. Cardinality(Counted) = 0  BY <2>1, FS_EmptySet
  <2>3. QED  BY <2>1, <2>2, MaxActiveAssumption DEF CountInv, OneLauncher
<1>2. TypeOK /\ CountInv /\ [Next]_vars => CountInv'
  <2> SUFFICES ASSUME TypeOK, CountInv, [Next]_vars PROVE CountInv'  OBVIOUS
  <2>1. CASE Next
    BY <2>1, LaunchCounts, CallCounts, OtherCounts DEF Next, Call
  <2>2. CASE UNCHANGED vars
    <3>1. UNCHANGED <<stage, task, launchLock, causes>>
      BY <2>2 DEF vars, calls, sandbox, history
    <3>2. Launching' = Launching /\ Counted' = Counted  BY <3>1 DEF Launching, Counted, Active
    <3>3. QED  BY <3>1, <3>2, NothingLaunched
  <2>3. QED  BY <2>1, <2>2
<1>3. TypeOK /\ CountInv => ActiveBounded
  <2> SUFFICES ASSUME TypeOK, CountInv, causes \intersect {"late", "launchOverrun"} = {}
               PROVE  Cardinality(Active) <= MaxActive
    BY DEF ActiveBounded
  <2>1. causes \subseteq OnTimeCauses  BY DEF TypeOK, Causes, OnTimeCauses
  <2>2. Active \subseteq Counted /\ Counted \subseteq Tasks  BY DEF Counted, Active
  <2>3. QED  BY <2>1, <2>2, FewerCounted DEF CountInv
<1>4. QED  BY <1>1, <1>2, <1>3, TaskTypes, PTL DEF Spec

-----------------------------------------------------------------------------
(* The crons.                                                              *)

(***************************************************************************)
(* What keeps a command monitored: a tick retires the crons under a lock   *)
(* that only it holds; the calls that are past their second wait by then   *)
(* belong to commands already announced; and a cron that a call is to      *)
(* delete is outlived by a newer one, unless it is being retired as well.  *)
(***************************************************************************)
Past == {t \in Tasks : stage[t] \in {"search", "create", "prune", "ok"}}
Retiring == {p \in Monitors : at[p] \in {"search", "delete"}}

OneHolder ==
    /\ Locked # {} => monitorLock = "fresh"
    /\ \A p, q \in Locked : p = q

Started == \A t \in Tasks :
    t \in Past \/ stage[t] = "launched" => task[t] \in {"running", "dead", "ended"}

RetiredWhenDone == Retiring # {} => Past \subseteq done

Numbered ==
    /\ \A c \in crons : c <= created
    /\ \A t \in Tasks : \A c \in victims[t] : c <= created
    /\ \A p \in Monitors : \A c \in doomed[p] : c <= created
    /\ \A p \in Monitors : doomed[p] # {} => at[p] = "delete"
    /\ \A p \in Monitors : at[p] = "delete" =>
          \A c \in crons \ doomed[p] : \A d \in doomed[p] : c > d

Outlived(t) ==
    \/ victims[t] \intersect crons = {}
    \/ \E c \in crons : \A v \in victims[t] : c > v
    \/ \E p \in Monitors : at[p] = "delete" /\ victims[t] \intersect crons \subseteq doomed[p]

Watched ==
    /\ \A t \in Tasks : stage[t] = "prune" => Outlived(t)
    /\ \A t \in Tasks : stage[t] \in {"prune", "ok"} /\ t \notin done => crons # {}

Undisturbed == causes \intersect {"monitorOverrun", "partial"} = {}

WatchParts == OneHolder /\ RetiredWhenDone /\ Numbered /\ Watched

WatchInv == Started /\ (Undisturbed => WatchParts)

(***************************************************************************)
(* A command whose launch was reported to the tool has a state file, and   *)
(* state files do not go away.                                             *)
(***************************************************************************)
LEMMA StartedStays ==
    ASSUME TypeOK, Started, Next
    PROVE  Started'
<1> USE DEF TypeOK, calls, ticks, sandbox, platform, history, Go
<1>1. ASSUME NEW t \in Tasks, Call(t) PROVE Started'
  <2>1. CASE Spawn(t)  BY <1>1, <2>1 DEF Spawn, Started, Past
  <2>2. CASE LaunchReturns(t)
    <3>1. UNCHANGED task /\ stage[t] = "spawned"  BY <2>2 DEF LaunchReturns
    <3>2. \/ task[t] \notin {"none", "spawned"} /\ stage' = [stage EXCEPT ![t] = "launched"]
          \/ stage' = [stage EXCEPT ![t] = "failed"]
      BY <2>2 DEF LaunchReturns
    <3>3. QED  BY <3>1, <3>2 DEF Started, Past, TaskStates
  <2>3. CASE ~Spawn(t) /\ ~LaunchReturns(t)
    <3>1. ListTasks \/ UNCHANGED task
      BY <1>1, <2>3 DEF Call, Start, WaitToLaunch, LockLaunch, LaunchKilled, WaitToSchedule,
                        SearchCrons, CreateCron, PruneCron
    <3>2. /\ \A u \in Tasks \ {t} : stage'[u] = stage[u]
          /\ t \in Past' \/ stage'[t] = "launched" => t \in Past \/ stage[t] = "launched"
      BY <1>1, <2>3 DEF Call, Start, WaitToLaunch, LockLaunch, LaunchKilled, WaitToSchedule,
                        SearchCrons, CreateCron, PruneCron, Past
    <3>3. QED  BY <3>1, <3>2, ListedTasks DEF Started, Past
  <2>4. QED  BY <2>1, <2>2, <2>3
<1>2. ASSUME NEW t \in Tasks, Command(t) PROVE Started'
  <2>1. /\ UNCHANGED stage
        /\ \A u \in Tasks \ {t} : task'[u] = task[u]
        /\ task[t] \in {"running", "dead", "ended"} => task'[t] \in {"running", "dead", "ended"}
    BY <1>2 DEF Command, RunnerStarts, RunnerEnds, RunnerDies, Inspect
  <2>2. QED  BY <2>1 DEF Started, Past
<1>3. ASSUME NEW p \in Monitors, Fire(p) \/ Tick(p) \/ Broken(p) PROVE Started'
  <2>1. UNCHANGED stage /\ (ListTasks \/ UNCHANGED task)
    BY <1>3 DEF Fire, Tick, List, Claim, Send, Mark, LookedAtAll, Lock, Check,
                SearchDoomed, DeleteCron, Unlock, Broken
  <2>2. QED  BY <2>1, ListedTasks DEF Started, Past
<1>4. CASE Age
  <2>1. UNCHANGED <<stage, task>>
    BY <1>4 DEF Age, AgeMonitorLock, AgeLaunchLock, AgeClaim
  <2>2. QED  BY <2>1 DEF Started, Past
<1>5. QED  BY <1>1, <1>2, <1>3, <1>4 DEF Next

(***************************************************************************)
(* A step that changes no cron, lets no call past its second wait and lets *)
(* no tick into the part under the lock.                                   *)
(***************************************************************************)
LEMMA NothingRetired ==
    ASSUME TypeOK, WatchParts, UNCHANGED <<crons, created, victims>>,
           \A t \in Tasks : stage'[t] = stage[t] \/ t \notin Past',
           Locked' \subseteq Locked, Retiring' \subseteq Retiring,
           Locked' # {} /\ monitorLock = "fresh" => monitorLock' = "fresh",
           \A p \in Monitors : /\ at'[p] = "delete" <=> at[p] = "delete"
                               /\ doomed'[p] = doomed[p],
           done \subseteq done'
    PROVE  WatchParts'
<1> USE DEF WatchParts
<1>1. Past' \subseteq Past  BY DEF Past
<1>2. OneHolder'  BY DEF OneHolder
<1>3. RetiredWhenDone'  BY <1>1 DEF RetiredWhenDone
<1>4. Numbered'  BY DEF Numbered
<1>5. \A t \in Tasks : stage'[t] \in {"prune", "ok"} => stage'[t] = stage[t]  BY DEF Past
<1>6. Watched'  BY <1>5 DEF Watched, Outlived
<1>7. QED  BY <1>2, <1>3, <1>4, <1>6

(* The list script does not remove a fresh lock.                           *)
LEMMA LockSurvivesList ==
    ASSUME ListTasks, monitorLock = "fresh"
    PROVE  monitorLock' = "fresh"
  BY DEF ListTasks, Tidied

(* A tool call up to its second wait, a command, the passing of time.      *)
LEMMA WatchedMeanwhile ==
    ASSUME TypeOK, WatchParts, Undisturbed',
           \/ \E t \in Tasks :
                 \/ Start(t) \/ WaitToLaunch(t) \/ LockLaunch(t) \/ Spawn(t)
                 \/ LaunchReturns(t) \/ LaunchKilled(t) \/ Command(t)
           \/ Age
    PROVE  WatchParts'
<1> USE DEF TypeOK, calls, ticks, sandbox, platform, history
<1>1. UNCHANGED <<crons, created, victims, at, doomed, done>>
  BY DEF Start, ListTasks, WaitToLaunch, LockLaunch, Spawn, LaunchReturns, LaunchKilled, Command,
         RunnerStarts, RunnerEnds, RunnerDies, Inspect, Age, AgeMonitorLock, AgeLaunchLock, AgeClaim
<1>2. \A t \in Tasks : stage'[t] = stage[t] \/ t \notin Past'
  BY DEF Start, WaitToLaunch, LockLaunch, Spawn, LaunchReturns, LaunchKilled, Command, Go, Past,
         RunnerStarts, RunnerEnds, RunnerDies, Inspect, Age, AgeMonitorLock, AgeLaunchLock, AgeClaim
<1>3. Locked # {} /\ monitorLock = "fresh" => monitorLock' = "fresh"
  <2>1. \/ ListTasks
        \/ UNCHANGED monitorLock
        \/ Overrun(Locked # {}, "monitorOverrun")
    BY DEF Start, WaitToLaunch, LockLaunch, Spawn, LaunchReturns, LaunchKilled, Command,
           RunnerStarts, RunnerEnds, RunnerDies, Inspect, Age, AgeMonitorLock, AgeLaunchLock, AgeClaim
  <2>2. QED  BY <2>1, LockSurvivesList DEF Overrun, Undisturbed
<1>4. Locked' = Locked /\ Retiring' = Retiring  BY <1>1 DEF Locked, Retiring
<1>5. QED  BY <1>1, <1>2, <1>3, <1>4, NothingRetired

(* A tick that deletes nothing and does not set out to.                    *)
LEMMA WatchedByTicks ==
    ASSUME TypeOK, WatchParts, Undisturbed', NEW p \in Monitors,
           \/ Fire(p) \/ List(p) \/ Claim(p) \/ Send(p) \/ Mark(p) \/ LookedAtAll(p)
           \/ Unlock(p) \/ Broken(p)
    PROVE  WatchParts'
<1> USE DEF TypeOK, calls, ticks, sandbox, platform, history, Goto, Return, Forget
<1>1. UNCHANGED <<crons, created, victims, stage>> /\ done \subseteq done'
  BY DEF Fire, List, ListTasks, Claim, Send, Mark, LookedAtAll, Unlock, Broken
<1>2. /\ \A q \in Monitors \ {p} : at'[q] = at[q] /\ doomed'[q] = doomed[q]
      /\ at[p] # "delete" /\ doomed'[p] \in {doomed[p], {}}
      /\ at'[p] \notin {"check", "search", "delete"}
      /\ at'[p] = "unlock" => at[p] \in {"check", "search", "delete"}
  <2>1. CASE Broken(p)  BY <2>1 DEF Broken, When, Undisturbed
  <2>2. CASE Send(p) \/ Mark(p)  BY <2>2 DEF Send, Mark, Unclaim
  <2>3. CASE Fire(p) \/ List(p) \/ Claim(p) \/ LookedAtAll(p) \/ Unlock(p)
    BY <2>3 DEF Fire, List, Claim, LookedAtAll, Unlock
  <2>4. QED  BY <2>1, <2>2, <2>3
<1>3. doomed[p] = {}  BY <1>2 DEF WatchParts, Numbered
<1>4. Locked' \subseteq Locked /\ Retiring' \subseteq Retiring
  BY <1>2 DEF Locked, Retiring
<1>5. Locked' # {} /\ monitorLock = "fresh" => monitorLock' = "fresh"
  <2>1. CASE Unlock(p)
    <3>1. p \in Locked /\ p \notin Locked'  BY <2>1 DEF Unlock, Locked
    <3>2. Locked' = {}  BY <1>4, <3>1 DEF WatchParts, OneHolder
    <3>3. QED  BY <3>2
  <2>2. CASE ~Unlock(p)
    <3>1. ListTasks \/ UNCHANGED monitorLock
      BY <2>2 DEF Fire, List, Claim, Send, Mark, LookedAtAll, Broken
    <3>2. QED  BY <3>1, LockSurvivesList
  <2>3. QED  BY <2>1, <2>2
<1>6. \A q \in Monitors : /\ at'[q] = "delete" <=> at[q] = "delete"
                          /\ doomed'[q] = doomed[q]
  BY <1>2, <1>3
<1>7. QED  BY <1>1, <1>4, <1>5, <1>6, NothingRetired

(* A tick takes the lock, looks again, and retires the crons.              *)
LEMMA WatchedUnderLock ==
    ASSUME TypeOK, Started, WatchParts, Undisturbed', NEW p \in Monitors,
           Lock(p) \/ Check(p) \/ SearchDoomed(p) \/ DeleteCron(p)
    PROVE  WatchParts'
<1> USE DEF TypeOK, calls, ticks, sandbox, platform, history, Goto
<1>1. OneHolder /\ RetiredWhenDone /\ Numbered /\ Watched  BY DEF WatchParts
<1>2. CASE Lock(p)
  <2>1. CASE monitorLock = "none" /\ monitorLock' = "fresh" /\ at' = [at EXCEPT ![p] = "check"]
             /\ UNCHANGED doomed
    <3>1. Locked = {} /\ at[p] = "lock"  BY <1>1, <1>2, <2>1 DEF OneHolder, Lock
    <3>2. Locked' = {p} /\ Retiring' = {}  BY <2>1, <3>1 DEF Locked, Retiring
    <3>3. UNCHANGED <<crons, created, victims, stage, done>>  BY <1>2 DEF Lock
    <3>4. OneHolder' /\ RetiredWhenDone'  BY <2>1, <3>2 DEF OneHolder, RetiredWhenDone
    <3>5. \A q \in Monitors : at[q] # "delete" /\ at'[q] # "delete"
      BY <2>1, <3>1 DEF Locked
    <3>6. Numbered'  BY <1>1, <2>1, <3>3, <3>5 DEF Numbered
    <3>7. Watched'  BY <1>1, <3>3, <3>5 DEF Watched, Outlived
    <3>8. QED  BY <3>4, <3>6, <3>7 DEF WatchParts
  <2>2. CASE monitorLock # "none" /\ Return(p) /\ UNCHANGED monitorLock
    <3>1. UNCHANGED <<crons, created, victims, stage, done>>  BY <1>2 DEF Lock
    <3>2. at[p] = "lock" /\ at' = [at EXCEPT ![p] = "idle"] /\ doomed' = [doomed EXCEPT ![p] = {}]
      BY <1>2, <2>2 DEF Lock, Return, Forget
    <3>3. doomed[p] = {}  BY <1>1, <3>2 DEF Numbered
    <3>4. Locked' = Locked /\ Retiring' = Retiring  BY <3>2 DEF Locked, Retiring
    <3>5. \A q \in Monitors : /\ at'[q] = "delete" <=> at[q] = "delete"
                              /\ doomed'[q] = doomed[q]
      BY <3>2, <3>3
    <3>6. QED  BY <2>2, <3>1, <3>4, <3>5, NothingRetired
  <2>3. QED  BY <1>2, <2>1, <2>2 DEF Lock
<1>3. CASE Check(p)
  <2>1. /\ UNCHANGED <<crons, created, victims, stage, done, doomed>> /\ ListTasks
        /\ at[p] = "check"
    BY <1>3 DEF Check, ListTasks
  <2>2. p \in Locked /\ Locked = {p} /\ monitorLock = "fresh"
    BY <1>1, <2>1 DEF Locked, OneHolder
  <2>3. monitorLock' = "fresh"  BY <2>1, <2>2, LockSurvivesList
  <2>4. \/ Quiet /\ at' = [at EXCEPT ![p] = "search"]
        \/ at' = [at EXCEPT ![p] = "unlock"]
    BY <1>3 DEF Check
  <2>5. \A q \in Monitors : at'[q] = "delete" <=> at[q] = "delete"  BY <2>1, <2>4
  <2>6. OneHolder'  BY <2>2, <2>3, <2>4 DEF OneHolder, Locked
  <2>7. Retiring = {}  BY <2>1, <2>2 DEF Locked, Retiring
  <2>8. RetiredWhenDone'
    <3>1. CASE Quiet
      <4>1. \A t \in Past : task[t] \in {"running", "dead", "ended"}  BY DEF Started, Past
      <4>2. Past \subseteq done  BY <3>1, <4>1 DEF Quiet, Running, Unannounced, Past
      <4>3. Past' = Past /\ done' = done  BY <2>1 DEF Past
      <4>4. QED  BY <4>2, <4>3 DEF RetiredWhenDone
    <3>2. CASE ~Quiet
      <4>1. Retiring' = {}  BY <2>4, <2>7, <3>2 DEF Retiring
      <4>2. QED  BY <4>1 DEF RetiredWhenDone
    <3>3. QED  BY <3>1, <3>2
  <2>9. Numbered' /\ Watched'  BY <1>1, <2>1, <2>5 DEF Numbered, Watched, Outlived
  <2>10. QED  BY <2>6, <2>8, <2>9 DEF WatchParts
<1>4. CASE SearchDoomed(p)
  <2>1. /\ UNCHANGED <<crons, created, victims, stage, done, monitorLock>>
        /\ at[p] = "search" /\ at' = [at EXCEPT ![p] = "delete"]
        /\ doomed' = [doomed EXCEPT ![p] = crons]
    BY <1>4 DEF SearchDoomed
  <2>2. Locked' = Locked /\ Retiring' = Retiring /\ p \in Retiring
    BY <2>1 DEF Locked, Retiring
  <2>3. Past' = Past  BY <2>1 DEF Past
  <2>4. OneHolder' /\ RetiredWhenDone'
    BY <1>1, <2>1, <2>2, <2>3 DEF OneHolder, RetiredWhenDone
  <2>5. doomed'[p] = crons /\ at'[p] = "delete"
        /\ \A q \in Monitors \ {p} : at'[q] = at[q] /\ doomed'[q] = doomed[q]
    BY <2>1
  <2>6. Numbered'  BY <1>1, <2>1, <2>5 DEF Numbered
  <2>7. Watched'
    <3>1. \A t \in Tasks : victims'[t] \intersect crons' \subseteq doomed'[p]  BY <2>1, <2>5
    <3>2. \A t \in Tasks : Outlived(t)'  BY <2>5, <3>1 DEF Outlived
    <3>3. QED  BY <1>1, <2>1, <3>2 DEF Watched
  <2>8. QED  BY <2>4, <2>6, <2>7 DEF WatchParts
<1>5. CASE DeleteCron(p)
  <2>1. at[p] = "delete" /\ UNCHANGED <<created, victims, stage, done, monitorLock>>
    BY <1>5 DEF DeleteCron
  <2>2. p \in Locked /\ Locked = {p} /\ p \in Retiring
    BY <1>1, <2>1 DEF Locked, Retiring, OneHolder
  <2>3. Past \subseteq done /\ Past' = Past
    BY <1>1, <2>1, <2>2 DEF RetiredWhenDone, Past
  <2>4. CASE doomed[p] = {} /\ at' = [at EXCEPT ![p] = "unlock"] /\ UNCHANGED <<doomed, crons>>
    <3>1. Locked' = {p} /\ Retiring' \subseteq Retiring
      BY <2>2, <2>4 DEF Locked, Retiring
    <3>2. OneHolder' /\ RetiredWhenDone'
      BY <1>1, <2>1, <2>2, <2>3, <3>1 DEF OneHolder, RetiredWhenDone
    <3>3. Numbered'  BY <1>1, <2>1, <2>4 DEF Numbered
    <3>4. ASSUME NEW t \in Tasks, Outlived(t) PROVE Outlived(t)'
      <4>1. CASE \E q \in Monitors : at[q] = "delete" /\ victims[t] \intersect crons \subseteq doomed[q]
        <5>1. PICK q \in Monitors : at[q] = "delete" /\ victims[t] \intersect crons \subseteq doomed[q]
          BY <4>1
        <5>2. q = p  BY <2>2, <5>1 DEF Locked
        <5>3. victims[t] \intersect crons = {}  BY <2>4, <5>1, <5>2
        <5>4. QED  BY <2>1, <2>4, <5>3 DEF Outlived
      <4>2. QED  BY <2>1, <2>4, <3>4, <4>1 DEF Outlived
    <3>5. Watched'  BY <1>1, <2>1, <2>4, <3>4 DEF Watched
    <3>6. QED  BY <3>2, <3>3, <3>5 DEF WatchParts
  <2>5. ASSUME NEW c \in doomed[p], c \in crons, IsFirst(c, doomed[p]),
               crons' = crons \ {c}, doomed' = [doomed EXCEPT ![p] = @ \ {c}], UNCHANGED at
        PROVE  WatchParts'
    <3>1. Locked' = Locked /\ Retiring' = Retiring  BY <2>5 DEF Locked, Retiring
    <3>2. OneHolder' /\ RetiredWhenDone'
      BY <1>1, <2>1, <2>3, <3>1 DEF OneHolder, RetiredWhenDone
    <3>3. doomed'[p] = doomed[p] \ {c} /\ \A q \in Monitors \ {p} : doomed'[q] = doomed[q]
      BY <2>5
    <3>4. Numbered'  BY <1>1, <2>1, <2>5, <3>3 DEF Numbered
    <3>5. ASSUME NEW t \in Tasks, Outlived(t) PROVE Outlived(t)'
      <4>1. CASE victims[t] \intersect crons = {}  BY <2>1, <2>5, <4>1 DEF Outlived
      <4>2. CASE \E d \in crons : \A v \in victims[t] : d > v
        <5>1. PICK d \in crons : \A v \in victims[t] : d > v  BY <4>2
        <5>2. CASE d # c  BY <2>1, <2>5, <5>1, <5>2 DEF Outlived
        <5>3. CASE d = c
          <6>1. ASSUME NEW v \in victims[t] \intersect crons PROVE v \in doomed[p]
            <7>1. c > v /\ v \in Nat /\ c \in Nat  BY <5>1, <5>3
            <7>2. v \notin doomed[p] => v > c  BY <1>1, <2>1, <2>5, <6>1 DEF Numbered
            <7>3. QED  BY <7>1, <7>2
          <6>2. victims[t] \intersect crons' \subseteq doomed'[p]  BY <2>5, <3>3, <6>1
          <6>3. QED  BY <2>1, <2>5, <6>2 DEF Outlived
        <5>4. QED  BY <5>2, <5>3
      <4>3. CASE \E q \in Monitors : at[q] = "delete" /\ victims[t] \intersect crons \subseteq doomed[q]
        <5>1. PICK q \in Monitors : at[q] = "delete" /\ victims[t] \intersect crons \subseteq doomed[q]
          BY <4>3
        <5>2. q = p  BY <2>2, <5>1 DEF Locked
        <5>3. victims[t] \intersect crons' \subseteq doomed'[p]  BY <2>5, <3>3, <5>1, <5>2
        <5>4. QED  BY <2>1, <2>5, <5>3 DEF Outlived
      <4>4. QED  BY <3>5, <4>1, <4>2, <4>3 DEF Outlived
    <3>6. \A t \in Tasks : stage[t] \in {"prune", "ok"} => t \in done
      BY <2>3 DEF Past
    <3>7. Watched'  BY <1>1, <2>1, <3>5, <3>6 DEF Watched
    <3>8. QED  BY <3>2, <3>4, <3>7 DEF WatchParts
  <2>6. "partial" \notin causes'  BY DEF Undisturbed
  <2>7. QED
    <3>1. \/ doomed[p] = {} /\ at' = [at EXCEPT ![p] = "unlock"] /\ UNCHANGED <<doomed, crons>>
          \/ \E c \in doomed[p] : /\ c \in crons /\ IsFirst(c, doomed[p])
                                 /\ crons' = crons \ {c}
                                 /\ doomed' = [doomed EXCEPT ![p] = @ \ {c}] /\ UNCHANGED at
      BY <1>5, <2>6 DEF DeleteCron
    <3>2. QED  BY <2>4, <2>5, <3>1
<1>6. QED  BY <1>2, <1>3, <1>4, <1>5

(***************************************************************************)
(* A call passes its second wait, and sees to it that there is a cron.     *)
(***************************************************************************)
LEMMA WatchedByCalls ==
    ASSUME NewestFirst, TypeOK, WatchParts, NEW t \in Tasks,
           WaitToSchedule(t) \/ SearchCrons(t) \/ CreateCron(t) \/ PruneCron(t)
    PROVE  WatchParts'
<1> USE DEF TypeOK, calls, ticks, sandbox, platform, history, Go
<1>1. OneHolder /\ RetiredWhenDone /\ Numbered /\ Watched  BY DEF WatchParts
<1>2. /\ UNCHANGED <<at, doomed, done, monitorLock>>
      /\ \A u \in Tasks \ {t} : stage'[u] = stage[u] /\ victims'[u] = victims[u]
  BY DEF WaitToSchedule, SearchCrons, CreateCron, PruneCron
<1>3. Locked' = Locked /\ Retiring' = Retiring  BY <1>2 DEF Locked, Retiring
<1>4. OneHolder'  BY <1>1, <1>2, <1>3 DEF OneHolder
<1>5. CASE WaitToSchedule(t)
  <2>1. /\ UNCHANGED <<crons, created, victims>>
        /\ \/ monitorLock = "none" /\ stage'[t] = "search"
           \/ stage'[t] = "warned"
    BY <1>5 DEF WaitToSchedule
  <2>2. CASE stage'[t] = "search" /\ monitorLock = "none"
    <3>1. Locked = {}  BY <1>1, <2>2 DEF OneHolder
    <3>2. Retiring' = {}  BY <1>3, <3>1 DEF Locked, Retiring
    <3>3. RetiredWhenDone'  BY <3>2 DEF RetiredWhenDone
    <3>4. Numbered' /\ Watched'  BY <1>1, <1>2, <2>1, <2>2 DEF Numbered, Watched, Outlived
    <3>5. QED  BY <1>4, <3>3, <3>4 DEF WatchParts
  <2>3. CASE stage'[t] = "warned"
    <3>1. \A u \in Tasks : stage'[u] = stage[u] \/ u \notin Past'  BY <1>2, <2>3 DEF Past
    <3>2. QED  BY <1>2, <1>3, <2>1, <3>1, NothingRetired
  <2>4. QED  BY <2>1, <2>2, <2>3
<1>6. CASE SearchCrons(t) \/ CreateCron(t) \/ PruneCron(t)
  <2>1. t \in Past  BY <1>6 DEF SearchCrons, CreateCron, PruneCron, Past
  <2>2. Past' \subseteq Past  BY <1>2, <2>1 DEF Past
  <2>3. RetiredWhenDone'  BY <1>1, <1>2, <1>3, <2>2 DEF RetiredWhenDone
  <2>4. CASE SearchCrons(t)
    <3>1. UNCHANGED <<crons, created>>  BY <2>4 DEF SearchCrons
    <3>2. CASE stage'[t] \in {"create", "warned"} /\ UNCHANGED victims
      BY <1>1, <1>2, <1>4, <2>3, <3>1, <3>2 DEF WatchParts, Numbered, Watched, Outlived
    <3>3. ASSUME NEW kept \in crons, IsFirst(kept, crons), victims'[t] = crons \ {kept},
                 stage'[t] = "prune"
          PROVE  WatchParts'
      <4>1. Numbered'  BY <1>1, <1>2, <3>1, <3>3 DEF Numbered
      <4>2. \A v \in victims'[t] : kept > v  BY <3>3 DEF IsFirst, Before
      <4>3. Outlived(t)'  BY <3>1, <4>2 DEF Outlived
      <4>4. Watched'  BY <1>1, <1>2, <3>1, <3>3, <4>3 DEF Watched, Outlived
      <4>5. QED  BY <1>4, <2>3, <4>1, <4>4 DEF WatchParts
    <3>4. QED  BY <2>4, <3>2, <3>3 DEF SearchCrons
  <2>5. CASE CreateCron(t)
    <3>1. UNCHANGED victims /\ stage'[t] \in {"ok", "warned"}  BY <2>5 DEF CreateCron
    <3>2. CASE crons' = crons \union {created + 1} /\ created' = created + 1
      <4>1. Numbered'  BY <1>1, <1>2, <3>1, <3>2 DEF Numbered
      <4>2. ASSUME NEW u \in Tasks, Outlived(u) PROVE Outlived(u)'
        <5>1. victims[u] \intersect crons' = victims[u] \intersect crons
          <6>1. created + 1 \notin victims[u]  BY <1>1 DEF Numbered
          <6>2. QED  BY <3>2, <6>1
        <5>2. QED  BY <1>2, <3>1, <3>2, <4>2, <5>1 DEF Outlived
      <4>3. Watched'  BY <1>1, <1>2, <3>1, <3>2, <4>2 DEF Watched
      <4>4. QED  BY <1>4, <2>3, <4>1, <4>3 DEF WatchParts
    <3>3. CASE stage'[t] = "warned" /\ UNCHANGED <<crons, created>>
      BY <1>1, <1>2, <1>4, <2>3, <3>1, <3>3 DEF WatchParts, Numbered, Watched, Outlived
    <3>4. QED  BY <2>5, <3>2, <3>3 DEF CreateCron
  <2>6. CASE PruneCron(t)
    <3>1. UNCHANGED created /\ stage[t] = "prune"  BY <2>6 DEF PruneCron
    <3>2. CASE victims[t] = {} /\ stage'[t] = "ok" /\ UNCHANGED <<victims, crons>>
      BY <1>1, <1>2, <1>4, <2>3, <3>1, <3>2 DEF WatchParts, Numbered, Watched, Outlived
    <3>3. CASE stage'[t] = "warned" /\ victims'[t] = {} /\ UNCHANGED crons
      BY <1>1, <1>2, <1>4, <2>3, <3>1, <3>3 DEF WatchParts, Numbered, Watched, Outlived
    <3>4. ASSUME NEW c \in crons, c \in victims[t], crons' = crons \ {c},
                 victims'[t] = victims[t] \ {c}, UNCHANGED stage
          PROVE  WatchParts'
      <4>1. Numbered'  BY <1>1, <1>2, <3>1, <3>4 DEF Numbered
      <4>2. Outlived(t)  BY <1>1, <3>1 DEF Watched
      <4>3. \/ \E d \in crons' : \A v \in victims[t] : d > v
            \/ \E p \in Monitors : at[p] = "delete" /\ victims[t] \intersect crons \subseteq doomed[p]
        BY <3>4, <4>2 DEF Outlived
      <4>4. ASSUME NEW u \in Tasks, Outlived(u) PROVE Outlived(u)'
        <5>1. victims'[u] \subseteq victims[u]  BY <1>2, <3>4
        <5>2. CASE victims[u] \intersect crons = {}  BY <3>4, <5>1, <5>2 DEF Outlived
        <5>3. CASE \E d \in crons : \A v \in victims[u] : d > v
          <6>1. PICK d \in crons : \A v \in victims[u] : d > v  BY <5>3
          <6>2. CASE d # c  BY <3>4, <5>1, <6>1, <6>2 DEF Outlived
          <6>3. CASE d = c
            <7>1. CASE \E e \in crons' : \A v \in victims[t] : e > v
              <8>1. PICK e \in crons' : e > c  BY <3>4, <7>1
              <8>2. \A v \in victims[u] : e > v
                <9>1. ASSUME NEW v \in victims[u] PROVE e > v
                  <10>1. c > v /\ v \in Nat /\ c \in Nat /\ e \in Nat  BY <3>4, <6>1, <6>3
                  <10>2. QED  BY <8>1, <10>1
                <9>2. QED  BY <9>1
              <8>3. QED  BY <5>1, <8>2 DEF Outlived
            <7>2. ASSUME NEW p \in Monitors, at[p] = "delete",
                         victims[t] \intersect crons \subseteq doomed[p]
                  PROVE  Outlived(u)'
              <8>1. c \in doomed[p]  BY <3>4, <7>2
              <8>2. ASSUME NEW v \in victims[u] \intersect crons PROVE v \in doomed[p]
                <9>1. c > v /\ v \in Nat /\ c \in Nat  BY <6>1, <6>3
                <9>2. v \notin doomed[p] => v > c  BY <1>1, <7>2, <8>1, <8>2 DEF Numbered
                <9>3. QED  BY <9>1, <9>2
              <8>3. victims'[u] \intersect crons' \subseteq doomed'[p]
                BY <1>2, <3>4, <5>1, <8>2
              <8>4. QED  BY <1>2, <7>2, <8>3 DEF Outlived
            <7>3. QED  BY <4>3, <7>1, <7>2
          <6>4. QED  BY <6>2, <6>3
        <5>4. CASE \E p \in Monitors : at[p] = "delete" /\ victims[u] \intersect crons \subseteq doomed[p]
          <6>1. PICK p \in Monitors : at[p] = "delete" /\ victims[u] \intersect crons \subseteq doomed[p]
            BY <5>4
          <6>2. victims'[u] \intersect crons' \subseteq doomed'[p]  BY <1>2, <3>4, <5>1, <6>1
          <6>3. QED  BY <1>2, <6>1, <6>2 DEF Outlived
        <5>5. QED  BY <4>4, <5>2, <5>3, <5>4 DEF Outlived
      <4>5. ASSUME NEW u \in Tasks, stage[u] \in {"prune", "ok"}, u \notin done PROVE crons' # {}
        <5>1. Retiring = {}  BY <1>1, <4>5 DEF RetiredWhenDone, Past
        <5>2. \A p \in Monitors : at[p] # "delete"  BY <5>1 DEF Retiring
        <5>3. QED  BY <4>3, <5>2
      <4>6. Watched'  BY <1>1, <1>2, <3>4, <4>4, <4>5 DEF Watched
      <4>7. QED  BY <1>4, <2>3, <4>1, <4>6 DEF WatchParts
    <3>5. QED
      <4>1. \/ victims[t] = {} /\ stage'[t] = "ok" /\ UNCHANGED <<victims, crons>>
            \/ stage'[t] = "warned" /\ victims'[t] = {} /\ UNCHANGED crons
            \/ \E c \in crons : /\ c \in victims[t] /\ crons' = crons \ {c}
                               /\ victims'[t] = victims[t] \ {c} /\ UNCHANGED stage
        BY <2>6 DEF PruneCron, IsFirst
      <4>2. QED  BY <3>2, <3>3, <3>4, <4>1
  <2>7. QED  BY <1>6, <2>4, <2>5, <2>6
<1>7. QED  BY <1>5, <1>6

(***************************************************************************)
(* If the platform lists the newest cron first, a command reported as      *)
(* started without a warning keeps a cron until it has been announced, for *)
(* any number of commands and ticks, unless a lock is taken from a tick    *)
(* that holds it or a tick breaks off between two deletions.               *)
(***************************************************************************)
THEOREM StartedIsMonitored ==
    ASSUME NewestFirst
    PROVE  Spec => []Monitored
<1>1. Init => WatchInv
  BY DEF Init, WatchInv, Started, Past, WatchParts, OneHolder, Locked, RetiredWhenDone, Retiring,
         Numbered, Watched
<1>2. TypeOK /\ WatchInv /\ [Next]_vars => WatchInv'
  <2> SUFFICES ASSUME TypeOK, WatchInv, [Next]_vars PROVE WatchInv'  OBVIOUS
  <2>1. CASE Next
    <3>1. Started /\ Started'  BY <2>1, StartedStays DEF WatchInv
    <3>2. ASSUME Undisturbed' PROVE WatchParts'
      <4>1. causes \subseteq causes'
        BY <2>1 DEF Next, Call, Start, WaitToLaunch, LockLaunch, Spawn, LaunchReturns, LaunchKilled,
           WaitToSchedule, SearchCrons, CreateCron, PruneCron, Command, RunnerStarts, RunnerEnds,
           RunnerDies, Inspect, Fire, Tick, List, Claim, Send, Mark, LookedAtAll, Lock, Check,
           SearchDoomed, DeleteCron, Unlock, Broken, Age, AgeMonitorLock, AgeLaunchLock, AgeClaim,
           Overrun, history
      <4>2. WatchParts  BY <3>2, <4>1 DEF WatchInv, Undisturbed
      <4>3. CASE \/ \E t \in Tasks :
                      \/ Start(t) \/ WaitToLaunch(t) \/ LockLaunch(t) \/ Spawn(t)
                      \/ LaunchReturns(t) \/ LaunchKilled(t) \/ Command(t)
                 \/ Age
        BY <3>2, <4>2, <4>3, WatchedMeanwhile
      <4>4. ASSUME NEW t \in Tasks,
                   WaitToSchedule(t) \/ SearchCrons(t) \/ CreateCron(t) \/ PruneCron(t)
            PROVE  WatchParts'
        BY <4>2, <4>4, WatchedByCalls
      <4>5. ASSUME NEW p \in Monitors, Fire(p) \/ Tick(p) \/ Broken(p) PROVE WatchParts'
        BY <3>1, <3>2, <4>2, <4>5, WatchedByTicks, WatchedUnderLock DEF Tick
      <4>6. QED  BY <2>1, <4>3, <4>4, <4>5 DEF Next, Call
    <3>3. QED  BY <3>1, <3>2 DEF WatchInv
  <2>2. CASE UNCHANGED vars
    BY <2>2 DEF vars, calls, ticks, sandbox, platform, history, WatchInv, Started, Past, Undisturbed,
                WatchParts, OneHolder, Locked, RetiredWhenDone, Retiring, Numbered, Watched, Outlived
  <2>3. QED  BY <2>1, <2>2
<1>3. WatchInv => Monitored
  BY DEF WatchInv, Undisturbed, WatchParts, Watched, Monitored
<1>4. QED  BY <1>1, <1>2, <1>3, TaskTypes, PTL DEF Spec
=============================================================================
