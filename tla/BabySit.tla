------------------------------- MODULE BabySit -------------------------------
(***************************************************************************)
(* The durable watch of one pull request's CI (agent/baby_sit.py) and the  *)
(* tool by which agents start it, stop it and record their reruns          *)
(* (agent/tools/manage_baby_sit.py).                                       *)
(*                                                                         *)
(* The watch is an item of the platform's store; every operation reads it, *)
(* works on its copy and writes the copy back.  Evaluations, started by a  *)
(* cron or a webhook, and the recording of a rerun hold a lock that times  *)
(* out; starting and stopping a watch takes no lock.                       *)
(***************************************************************************)
EXTENDS Naturals

CONSTANTS
    Procs,       \* the operations that may be under way at a time
    Threads,     \* the agent threads
    MaxRetries,  \* MAX_RETRIES_PER_HEAD
    MaxErrors,   \* MAX_EVALUATION_ERRORS
    Reported,    \* bound on the verdicts GitHub comes to
    MaxHeads,    \* bound on the heads the pull request has
    MaxCalls,    \* bound on the calls that start or stop the watch
    MaxFaults    \* bound on the faults

ASSUME BoundsAssumption ==
    /\ MaxRetries \in Nat /\ MaxErrors \in Nat \ {0} /\ MaxHeads \in Nat \ {0}
    /\ MaxCalls \in Nat /\ MaxFaults \in Nat
ASSUME ReportedAssumption == Reported \subseteq
    {"pending", "failure", "success", "blocked", "closed"}

VARIABLES
    head,     \* the head of the pull request, in the order of the pushes
    ci,       \* the verdict on its check set, or "closed"
    store,    \* the watch: a set of one record, or none
    crons,    \* the crons of the watch, numbered in the order of creation
    created,  \* how many crons have been created
    lock,     \* the thread that serves as a lock: "free" or "held"
    at,       \* where each operation is
    mine,     \* its copy of the watch
    inside,   \* the operations that took the lock
    fresh,    \* the starts that found no watch
    outdated, \* history: who wrote the watch since an operation read it
    sent,     \* history: how often each failure was dispatched
    reruns,   \* history: the reruns recorded for each head
    calls, faults,
    causes    \* history: what has happened besides orderly steps

project  == <<head, ci>>
platform == <<crons, created>>
procs    == <<at, mine, inside, fresh, outdated>>
history  == <<sent, reruns>>
bounds   == <<calls, faults>>
vars     == <<project, store, platform, lock, procs, history, bounds, causes>>

Heads == 1..MaxHeads
Tries == 0..(MaxRetries - 1)
Counts == {"never", "once", "more"}
Verdicts == {"pending", "failure", "success", "blocked", "closed"}

(***************************************************************************)
(* keys holds the retry counts of the dispatch keys, which all belong to   *)
(* the record's head.  settled says whether the present check set has been *)
(* seen to succeed, and whether ten minutes ago.  cron 0 is no cron.       *)
(***************************************************************************)
Watches ==
    [status : {"active", "inactive"}, thread : Threads, head : Heads,
     retries : 0..MaxRetries, keys : SUBSET Tries,
     settled : {"no", "seen", "ripe"}, errors : 0..MaxErrors, cron : Nat]

Stages == {"idle", "load", "look", "save", "saveKey", "saveEnd", "dispatch",
           "undo", "forget", "stopGet", "stopCron", "stopSave", "stopDelete",
           "retryGet", "retrySave", "stamp", "stampSave", "startGet",
           "startPut", "startCron", "startCreate", "startSave", "rollback",
           "rollbackItem", "release"}

Causes == {"race",     \* a write, a dispatch or the undoing of its key based
                       \* on a copy older than a start or a stop, or a start
                       \* or a stop based on an old copy
           "clash",    \* a write based on an old copy, between lock holders
           "overrun",  \* the lock timed out in its holder's hands
           "error",    \* a dispatch raised although it had an effect
           "dropped",  \* an evaluation broke off with its key recorded and
                       \* its dispatch not made
           "partial",  \* a start or a stop broke off halfway
           "rewound"}  \* a start wrote a head that a push had replaced

When(condition, cause) == IF condition THEN {cause} ELSE {}

Init ==
    /\ head = 1 /\ ci = "pending"
    /\ store = {} /\ crons = {} /\ created = 0 /\ lock = "free"
    /\ at = [p \in Procs |-> "idle"] /\ mine = [p \in Procs |-> {}]
    /\ inside = {} /\ fresh = {} /\ outdated = [p \in Procs |-> {}]
    /\ sent = [failure \in Heads \X Tries |-> "never"]
    /\ reruns = [h \in Heads |-> 0]
    /\ calls = 0 /\ faults = 0 /\ causes = {}

-----------------------------------------------------------------------------
(* The steps operations are made of.                                       *)

Goto(p, next) == at' = [at EXCEPT ![p] = next]

Keep(p, w) == mine' = [mine EXCEPT ![p] = {w}]

(* The operation returns, after releasing the lock if it took it.          *)
Return(p) ==
    /\ Goto(p, IF p \in inside THEN "release" ELSE "idle")
    /\ mine' = [mine EXCEPT ![p] = {}]
    /\ fresh' = fresh \ {p} /\ outdated' = [outdated EXCEPT ![p] = {}]

(* get_watch                                                               *)
Read(p) == outdated' = [outdated EXCEPT ![p] = {}]

(***************************************************************************)
(* _put_watch and delete_item.  Whoever else holds a copy of the watch     *)
(* holds an old one from now on.                                           *)
(***************************************************************************)
Kind(p) == IF p \in inside THEN "locked" ELSE "unlocked"

Write(p, contents) ==
    /\ store' = contents
    /\ outdated' = [q \in Procs |->
                       IF q # p /\ mine[q] # {} THEN outdated[q] \union {Kind(p)} ELSE {}]
    /\ causes' = causes
          \union When(p \in inside /\ "locked" \in outdated[p], "clash")
          \union When("unlocked" \in outdated[p] \/ (p \notin inside /\ outdated[p] # {}), "race")

Fault == faults < MaxFaults /\ faults' = faults + 1

-----------------------------------------------------------------------------
(* An evaluation, started by the cron or by the webhook of a failed check. *)

(***************************************************************************)
(* A slip, here and below: what a plausible mistake in the definition that *)
(* comes next would make of it.  No specification uses it; a mutation of   *)
(* the model puts it in the place of the definition.                       *)
(***************************************************************************)
TakeAnyway(p, next) ==
    /\ at[p] = "idle"
    /\ lock' = "held" /\ inside' = inside \union {p}
    /\ Goto(p, next)

(* _watch_lock: the lock is a thread, whose creation fails if it exists.   *)
Take(p, next) ==
    /\ at[p] = "idle" /\ lock = "free"
    /\ lock' = "held" /\ inside' = inside \union {p}
    /\ Goto(p, next)

(***************************************************************************)
(* With the lock held by somebody else the answer is "busy", and the tick  *)
(* is lost.                                                                *)
(***************************************************************************)
Tick(p) ==
    /\ crons # {}
    /\ Take(p, "load")
    /\ UNCHANGED <<project, store, platform, mine, fresh, outdated, history, bounds, causes>>

(***************************************************************************)
(* handle_ci_webhook: it lists the active watches and takes the lock of    *)
(* each that matches ...                                                   *)
(***************************************************************************)
Webhook(p) ==
    /\ \E w \in store : w.status = "active"
    /\ Take(p, "stamp")
    /\ UNCHANGED <<project, store, platform, mine, fresh, outdated, history, bounds, causes>>

(***************************************************************************)
(* ... reads the watch again, and notes its delivery before it evaluates.  *)
(* Redeliveries count as faults: they are skipped.                         *)
(***************************************************************************)
Stamp(p) ==
    /\ at[p] = "stamp"
    /\ \/ /\ \E w \in store : w.status = "active" /\ Keep(p, w)
          /\ Goto(p, "stampSave") /\ Read(p) /\ UNCHANGED <<fresh, faults>>
       \/ /\ \A w \in store : w.status = "inactive"
          /\ Return(p) /\ UNCHANGED faults
       \/ Fault /\ Return(p)
    /\ UNCHANGED <<project, store, platform, lock, inside, history, calls, causes>>

StampSave(p) ==
    /\ at[p] = "stampSave"
    /\ Write(p, mine[p])
    /\ Goto(p, "load")
    /\ UNCHANGED <<project, platform, lock, mine, inside, fresh, history, bounds>>

LoadActive(p) ==
    /\ at[p] = "load"
    /\ \/ \E w \in store :
             /\ w.status = "active" /\ Goto(p, "look")
             /\ Keep(p, w) /\ Read(p) /\ UNCHANGED fresh
       \/ /\ \A w \in store : w.status = "inactive"
          /\ Return(p)
    /\ UNCHANGED <<project, store, platform, lock, inside, history, bounds, causes>>

(* _evaluate_watch reads the watch ...                                     *)
Load(p) ==
    /\ at[p] = "load"
    /\ \/ \E w \in store :
             /\ Goto(p, IF w.status = "active" THEN "look" ELSE "stopGet")
             /\ Keep(p, w) /\ Read(p) /\ UNCHANGED fresh
       \/ store = {} /\ Return(p)
    /\ UNCHANGED <<project, store, platform, lock, inside, history, bounds, causes>>

(* ... starts over at a new head ...                                       *)
Refreshed(w) ==
    IF head = w.head THEN w
    ELSE [w EXCEPT !.head = head, !.retries = 0, !.keys = {}, !.settled = "no"]

BlindForever(p, w) ==
    /\ Keep(p, [w EXCEPT !.errors = @ + 1])
    /\ Goto(p, "save")

(***************************************************************************)
(* ... gives up after so many failures to see the pull request, or its     *)
(* checks, in a row ...                                                    *)
(***************************************************************************)
Blind(p, w) ==
    \/ /\ w.errors + 1 < MaxErrors
       /\ Keep(p, [w EXCEPT !.errors = @ + 1]) /\ Goto(p, "save")
    \/ /\ w.errors + 1 >= MaxErrors
       /\ Keep(p, [w EXCEPT !.errors = MaxErrors]) /\ Goto(p, "saveEnd")

(***************************************************************************)
(* ... and otherwise acts on the state of the checks.                      *)
(***************************************************************************)
Judge(p, w) ==
    \/ /\ ci = "pending"
       /\ Keep(p, [w EXCEPT !.settled = "no"]) /\ Goto(p, "save")
    \/ /\ ci = "success" /\ w.settled # "ripe"
       /\ Keep(p, [w EXCEPT !.settled = "seen"]) /\ Goto(p, "save")
    \/ /\ \/ ci = "success" /\ w.settled = "ripe"
          \/ ci = "blocked"
          \/ ci = "failure" /\ w.retries >= MaxRetries
       /\ Keep(p, w) /\ Goto(p, "stopGet")
    \/ /\ ci = "failure" /\ w.retries < MaxRetries /\ w.retries \in w.keys
       /\ Keep(p, w) /\ Goto(p, "save")
    \/ /\ ci = "failure" /\ w.retries < MaxRetries /\ w.retries \notin w.keys
       /\ Keep(p, [w EXCEPT !.keys = @ \union {w.retries}]) /\ Goto(p, "saveKey")

Look(p) ==
    /\ at[p] = "look"
    /\ \E w \in mine[p] :
          \/ Blind(p, w)
          \/ ci = "closed" /\ Goto(p, "stopGet") /\ UNCHANGED mine
          \/ ci # "closed" /\ Blind(p, Refreshed(w))
          \/ ci # "closed" /\ Judge(p, [Refreshed(w) EXCEPT !.errors = 0])
    /\ UNCHANGED <<project, store, platform, lock, inside, fresh, outdated, history, bounds, causes>>

Save(p) ==
    /\ at[p] \in {"save", "forget"}
    /\ Write(p, mine[p])
    /\ Goto(p, "release")
    /\ mine' = [mine EXCEPT ![p] = {}]
    /\ UNCHANGED <<project, platform, lock, inside, fresh, history, bounds>>

DispatchUnsaved(p) ==
    /\ at[p] \in {"saveEnd", "saveKey"}
    /\ Goto(p, IF at[p] = "saveEnd" THEN "stopGet" ELSE "dispatch")
    /\ UNCHANGED <<project, store, platform, lock, mine, inside, fresh, outdated, history, bounds, causes>>

(* The watch ends, or the agent is told: once its key is in the store.     *)
SaveAndGoOn(p) ==
    /\ at[p] \in {"saveEnd", "saveKey"}
    /\ Write(p, mine[p])
    /\ Goto(p, IF at[p] = "saveEnd" THEN "stopGet" ELSE "dispatch")
    /\ UNCHANGED <<project, platform, lock, mine, inside, fresh, history, bounds>>

OneMore(count) == IF count = "never" THEN "once" ELSE "more"

(***************************************************************************)
(* dispatch_agent_run; when it raises, the run may have been created       *)
(* nevertheless.                                                           *)
(***************************************************************************)
Dispatch(p) ==
    /\ at[p] = "dispatch"
    /\ \E w \in mine[p], raised \in BOOLEAN :
          /\ \/ sent' = [sent EXCEPT ![<<w.head, w.retries>>] = OneMore(@)]
             \/ raised /\ UNCHANGED sent
          /\ causes' = causes \union When("unlocked" \in outdated[p], "race")
                              \union When(raised /\ sent' # sent, "error")
          /\ IF raised THEN Fault /\ Goto(p, "undo") /\ UNCHANGED <<mine, fresh, outdated>>
                       ELSE Return(p) /\ UNCHANGED faults
    /\ UNCHANGED <<project, store, platform, lock, inside, reruns, calls>>

UndoNothing(p) ==
    /\ at[p] = "undo"
    /\ Return(p)
    /\ UNCHANGED <<project, store, platform, lock, inside, history, bounds, causes>>

(***************************************************************************)
(* The key is taken back from the latest record, or from the copy when     *)
(* there is none.                                                          *)
(***************************************************************************)
Undo(p) ==
    /\ at[p] = "undo"
    /\ \E w \in mine[p] :
          \/ \E latest \in store :
                /\ Keep(p, IF latest.head # w.head THEN latest
                           ELSE [latest EXCEPT !.keys = @ \ {w.retries}])
                /\ Read(p)
          \/ /\ store = {}
             /\ Keep(p, [w EXCEPT !.keys = @ \ {w.retries}])
             /\ UNCHANGED outdated
    /\ causes' = causes \union When("unlocked" \in outdated[p], "race")
    /\ Goto(p, "forget")
    /\ UNCHANGED <<project, store, platform, lock, inside, fresh, history, bounds>>

(* The lock is a thread: the release deletes it, whoever created it.       *)
Release(p) ==
    /\ at[p] = "release"
    /\ lock' = "free" /\ inside' = inside \ {p}
    /\ Goto(p, "idle")
    /\ UNCHANGED <<project, store, platform, mine, fresh, outdated, history, bounds, causes>>

Evaluation(p) ==
    \/ Stamp(p) \/ StampSave(p) \/ Load(p) \/ Look(p) \/ Save(p) \/ SaveAndGoOn(p)
    \/ Dispatch(p) \/ Undo(p) \/ Release(p)

-----------------------------------------------------------------------------
(* stop_watch, the end of an evaluation or a call of its own.              *)

StopGet(p) ==
    /\ at[p] = "stopGet"
    /\ \/ \E w \in store :
             /\ Keep(p, w) /\ Read(p) /\ UNCHANGED fresh
             /\ Goto(p, IF w.cron = 0 THEN "stopDelete" ELSE "stopCron")
       \/ store = {} /\ Return(p)
    /\ UNCHANGED <<project, store, platform, lock, inside, history, bounds, causes>>

DropWatch(p) ==
    /\ at[p] = "stopCron"
    /\ \E w \in mine[p] :
          \/ /\ w.cron \in crons /\ crons' = crons \ {w.cron}
             /\ Goto(p, "stopDelete") /\ UNCHANGED <<mine, faults>>
          \/ /\ w.cron \notin crons /\ UNCHANGED <<crons, faults>>
             /\ Goto(p, "stopDelete") /\ UNCHANGED mine
          \/ /\ Fault /\ crons' \in {crons, crons \ {w.cron}}
             /\ Goto(p, "stopDelete") /\ UNCHANGED mine
    /\ UNCHANGED <<project, store, created, lock, inside, fresh, outdated, history, calls, causes>>

(***************************************************************************)
(* Deleting a cron that is gone raises, as does one in a number of other   *)
(* cases.  The watch is then kept, inactive, so that its cron tries again. *)
(***************************************************************************)
StopCron(p) ==
    /\ at[p] = "stopCron"
    /\ \E w \in mine[p] :
          \/ /\ w.cron \in crons /\ crons' = crons \ {w.cron}
             /\ Goto(p, "stopDelete") /\ UNCHANGED <<mine, faults>>
          \/ /\ w.cron \notin crons /\ UNCHANGED <<crons, faults>>
             /\ Goto(p, "stopSave") /\ Keep(p, [w EXCEPT !.status = "inactive"])
          \/ /\ Fault /\ crons' \in {crons, crons \ {w.cron}}
             /\ Goto(p, "stopSave") /\ Keep(p, [w EXCEPT !.status = "inactive"])
    /\ UNCHANGED <<project, store, created, lock, inside, fresh, outdated, history, calls, causes>>

StopSave(p) ==
    /\ at[p] = "stopSave"
    /\ Write(p, mine[p])
    /\ Goto(p, IF p \in inside THEN "release" ELSE "idle")
    /\ mine' = [mine EXCEPT ![p] = {}]
    /\ UNCHANGED <<project, platform, lock, inside, fresh, history, bounds>>

StopDelete(p) ==
    /\ at[p] = "stopDelete"
    /\ Write(p, {})
    /\ Goto(p, IF p \in inside THEN "release" ELSE "idle")
    /\ mine' = [mine EXCEPT ![p] = {}]
    /\ UNCHANGED <<project, platform, lock, inside, fresh, history, bounds>>

Stopping(p) == StopGet(p) \/ StopCron(p) \/ StopSave(p) \/ StopDelete(p)

-----------------------------------------------------------------------------
(* The tool manage_baby_sit.                                               *)

OneCall == calls < MaxCalls /\ calls' = calls + 1

(* Another thread's watch is not stopped.                                  *)
StopCall(p, t) ==
    /\ at[p] = "idle" /\ OneCall
    /\ \A w \in store : w.thread = t
    /\ Goto(p, "stopGet")
    /\ UNCHANGED <<project, store, platform, lock, mine, inside, fresh, outdated, history, faults, causes>>

(* record_retry                                                            *)
RetryCall(p) ==
    /\ Take(p, "retryGet")
    /\ UNCHANGED <<project, store, platform, mine, fresh, outdated, history, bounds, causes>>

(***************************************************************************)
(* It is refused to another thread and for another head, and at the limit. *)
(***************************************************************************)
RetryGet(p) ==
    /\ at[p] = "retryGet"
    /\ \/ /\ \E w \in store :
                /\ w.status = "active" /\ w.retries < MaxRetries
                /\ Keep(p, [w EXCEPT !.retries = @ + 1])
          /\ Read(p) /\ Goto(p, "retrySave") /\ UNCHANGED fresh
       \/ Return(p)
    /\ UNCHANGED <<project, store, platform, lock, inside, history, bounds, causes>>

RetrySave(p) ==
    /\ at[p] = "retrySave"
    /\ Write(p, mine[p])
    /\ \E w \in mine[p] :
          reruns' = [reruns EXCEPT ![w.head] = IF @ <= MaxRetries THEN @ + 1 ELSE @]
    /\ Goto(p, "release")
    /\ mine' = [mine EXCEPT ![p] = {}]
    /\ UNCHANGED <<project, platform, lock, inside, fresh, sent, bounds>>

(***************************************************************************)
(* A start: the tool looks up the pull request ...                         *)
(***************************************************************************)
NewWatch(t) ==
    [status |-> "active", thread |-> t, head |-> head, retries |-> 0, keys |-> {},
     settled |-> "no", errors |-> 0, cron |-> 0]

StartCall(p, t) ==
    /\ at[p] = "idle" /\ OneCall
    /\ ci # "closed"
    /\ Keep(p, NewWatch(t)) /\ Goto(p, "startGet")
    /\ UNCHANGED <<project, store, platform, lock, inside, fresh, outdated, history, faults, causes>>

TakeCron(new, old) == [new EXCEPT !.cron = old.cron]

(***************************************************************************)
(* ... and start_watch carries over what belongs to the same head, and the *)
(* cron ...                                                                *)
(***************************************************************************)
TakenOver(new, old) ==
    IF new.head # old.head THEN [new EXCEPT !.cron = old.cron]
    ELSE [new EXCEPT !.cron = old.cron, !.retries = old.retries,
                     !.keys = old.keys, !.settled = old.settled]

StartGetAnyone(p) ==
    /\ at[p] = "startGet"
    /\ \E new \in mine[p] :
          \/ /\ store = {} /\ fresh' = fresh \union {p}
             /\ Goto(p, "startPut") /\ Read(p) /\ UNCHANGED <<mine, causes>>
          \/ \E old \in store :
                /\ Keep(p, TakenOver(new, old)) /\ Read(p)
                /\ Goto(p, "startPut") /\ UNCHANGED fresh
                /\ causes' = causes \union When(new.head < old.head, "rewound")
    /\ UNCHANGED <<project, store, platform, lock, inside, history, bounds>>

StartGet(p) ==
    /\ at[p] = "startGet"
    /\ \E new \in mine[p] :
          \/ /\ store = {} /\ fresh' = fresh \union {p}
             /\ Goto(p, "startPut") /\ Read(p) /\ UNCHANGED <<mine, causes>>
          \/ \E old \in store :
                /\ old.status = "inactive" \/ old.thread = new.thread
                /\ Keep(p, TakenOver(new, old)) /\ Read(p)
                /\ Goto(p, "startPut") /\ UNCHANGED fresh
                /\ causes' = causes \union When(new.head < old.head, "rewound")
          \/ \E old \in store :
                /\ old.status = "active" /\ old.thread # new.thread
                /\ Return(p) /\ UNCHANGED causes
    /\ UNCHANGED <<project, store, platform, lock, inside, history, bounds>>

(* ... writes the record ...                                               *)
StartPut(p) ==
    /\ at[p] = "startPut"
    /\ Write(p, mine[p])
    /\ Goto(p, "startCron")
    /\ IF p \in fresh
       THEN /\ sent' = [failure \in Heads \X Tries |-> "never"]
            /\ reruns' = [h \in Heads |-> 0]
       ELSE UNCHANGED history
    /\ UNCHANGED <<project, platform, lock, mine, inside, fresh, bounds>>

(***************************************************************************)
(* ... makes sure there is one cron (_ensure_watch_cron; the deletion of   *)
(* a duplicate may fail) ...                                               *)
(***************************************************************************)
StartCron(p) ==
    /\ at[p] = "startCron"
    /\ \/ crons = {} /\ Goto(p, "startCreate") /\ UNCHANGED <<crons, mine>>
       \/ \E kept \in crons, w \in mine[p] :
             /\ crons' \in {{kept}, crons}
             /\ Keep(p, [w EXCEPT !.cron = kept])
             /\ Goto(p, "startSave")
    /\ UNCHANGED <<project, store, created, lock, inside, fresh, outdated, history, bounds, causes>>

StartCreate(p) ==
    /\ at[p] = "startCreate"
    /\ crons' = crons \union {created + 1} /\ created' = created + 1
    /\ \/ /\ \E w \in mine[p] : Keep(p, [w EXCEPT !.cron = created + 1])
          /\ Goto(p, "startSave") /\ UNCHANGED <<faults, causes>>
       \/ /\ Fault /\ causes' = causes \union {"partial"}
          /\ Goto(p, "rollback") /\ UNCHANGED mine
    /\ UNCHANGED <<project, store, lock, inside, fresh, outdated, history, calls>>

(* ... and writes the record again, with the cron.                         *)
StartSave(p) ==
    /\ at[p] = "startSave"
    /\ Write(p, mine[p])
    /\ Goto(p, "idle")
    /\ mine' = [mine EXCEPT ![p] = {}]
    /\ fresh' = fresh \ {p}
    /\ UNCHANGED <<project, platform, lock, inside, history, bounds>>

(***************************************************************************)
(* A start that fails is undone if it found no watch.                      *)
(***************************************************************************)
Rollback(p) ==
    /\ at[p] = "rollback"
    /\ \/ /\ p \in fresh
          /\ \E w \in mine[p] : crons' \in {crons, crons \ {w.cron}}
          /\ Goto(p, "rollbackItem") /\ UNCHANGED <<mine, fresh, outdated>>
       \/ p \notin fresh /\ Return(p) /\ UNCHANGED crons
    /\ UNCHANGED <<project, store, created, lock, inside, history, bounds, causes>>

RollbackItem(p) ==
    /\ at[p] = "rollbackItem"
    /\ Write(p, {})
    /\ Goto(p, "idle")
    /\ mine' = [mine EXCEPT ![p] = {}]
    /\ fresh' = fresh \ {p}
    /\ UNCHANGED <<project, platform, lock, inside, history, bounds>>

Tool(p) ==
    \/ RetryGet(p) \/ RetrySave(p)
    \/ StartGet(p) \/ StartPut(p) \/ StartCron(p) \/ StartCreate(p) \/ StartSave(p)
    \/ Rollback(p) \/ RollbackItem(p)

-----------------------------------------------------------------------------
(* Faults.                                                                 *)

(***************************************************************************)
(* An exception of the platform ends an operation, after the finally       *)
(* clause of its lock and, in a start, the rollback.  A crash ends it at   *)
(* once, and leaves the lock to its time to live.                          *)
(***************************************************************************)
Broken(p) ==
    /\ at[p] # "idle"
    /\ Fault
    /\ causes' = causes
          \union When(at[p] \in {"dispatch", "undo", "forget"}, "dropped")
          \union When(at[p] \in {"startCron", "startCreate", "startSave", "rollback",
                                 "rollbackItem", "stopSave", "stopDelete"}, "partial")
    /\ \/ /\ Goto(p, "idle") /\ inside' = inside \ {p}
          /\ mine' = [mine EXCEPT ![p] = {}]
          /\ fresh' = fresh \ {p} /\ outdated' = [outdated EXCEPT ![p] = {}]
       \/ /\ at[p] \notin {"release", "startCron", "startCreate", "startSave"}
          /\ Return(p) /\ UNCHANGED inside
       \/ /\ at[p] \in {"startCron", "startCreate", "startSave"}
          /\ Goto(p, "rollback") /\ UNCHANGED <<mine, inside, fresh, outdated>>
    /\ UNCHANGED <<project, store, platform, lock, history, calls>>

(* The lock's time to live, 5 minutes, is over.                            *)
LockExpires ==
    /\ lock = "held" /\ lock' = "free"
    /\ \/ inside = {} /\ UNCHANGED <<faults, causes>>
       \/ inside # {} /\ Fault /\ causes' = causes \union {"overrun"}
    /\ UNCHANGED <<project, store, platform, procs, history, calls>>

-----------------------------------------------------------------------------
(* The pull request.                                                       *)

(***************************************************************************)
(* The check set is another one from now on, and what a record says of the *)
(* old one is as good as nothing: its key never comes again.               *)
(***************************************************************************)
Unsettled(watches) == {[w EXCEPT !.settled = "no"] : w \in watches}

NewChecks ==
    /\ ci # "closed"
    /\ store' = Unsettled(store) /\ mine' = [p \in Procs |-> Unsettled(mine[p])]
    /\ UNCHANGED <<platform, lock, at, inside, fresh, outdated, history, bounds, causes>>

(* Checks start, finish and are run again; the pull request is closed.     *)
Report ==
    /\ ci' \in Reported \ {ci} /\ UNCHANGED head
    /\ NewChecks

Push ==
    /\ head < MaxHeads /\ head' = head + 1 /\ ci' = "pending"
    /\ NewChecks

Ripened(watches) ==
    {[w EXCEPT !.settled = IF @ = "seen" THEN "ripe" ELSE @] : w \in watches}

(* CHECK_SET_SETTLE_MINUTES pass.                                          *)
TenMinutes ==
    /\ \E w \in store : w.settled = "seen"
    /\ store' = Ripened(store) /\ mine' = [p \in Procs |-> Ripened(mine[p])]
    /\ UNCHANGED <<project, platform, lock, at, inside, fresh, outdated, history, bounds, causes>>

-----------------------------------------------------------------------------

Run(p) == Evaluation(p) \/ Stopping(p) \/ Tool(p)

Next ==
    \/ \E p \in Procs :
          \/ Tick(p) \/ Webhook(p) \/ RetryCall(p)
          \/ \E t \in Threads : StopCall(p, t) \/ StartCall(p, t)
          \/ Run(p) \/ Broken(p)
    \/ LockExpires
    \/ Report \/ Push \/ TenMinutes

Spec == Init /\ [][Next]_vars

(***************************************************************************)
(* The cron fires, operations go on and time passes.  A tick in ten        *)
(* minutes does not find the lock held every time: strong fairness.        *)
(***************************************************************************)
FairSpec ==
    /\ Spec
    /\ SF_vars(\E p \in Procs : Tick(p))
    /\ \A p \in Procs : WF_vars(Run(p))
    /\ WF_vars(LockExpires) /\ WF_vars(TenMinutes)

-----------------------------------------------------------------------------
(* Properties.                                                             *)

(* Every variable holds a value the code could give it.                    *)
TypeOK ==
    /\ head \in Heads /\ ci \in Verdicts
    /\ store \in SUBSET Watches /\ mine \in [Procs -> SUBSET Watches]
    /\ crons \in SUBSET Nat /\ created \in Nat
    /\ lock \in {"free", "held"} /\ at \in [Procs -> Stages]
    /\ inside \in SUBSET Procs /\ fresh \in SUBSET Procs
    /\ outdated \in [Procs -> SUBSET {"locked", "unlocked"}]
    /\ sent \in [Heads \X Tries -> Counts] /\ reruns \in [Heads -> 0..(MaxRetries + 1)]
    /\ calls \in 0..MaxCalls /\ faults \in 0..MaxFaults /\ causes \in SUBSET Causes

Without(some) == causes \intersect some = {}

(***************************************************************************)
(* What the lock is for: evaluations, webhooks and recorded reruns never   *)
(* write over each other's changes, unless the lock times out on one.      *)
(***************************************************************************)
LockIsolates == "clash" \in causes => "overrun" \in causes

(***************************************************************************)
(* The agent is told of a failure once, and again only after a rerun,      *)
(* however ticks, webhooks and calls of the tool interleave, unless a      *)
(* dispatch raises although it was made, a change to the watch is written  *)
(* over, or a start turns the watch back to a head that a push replaced.   *)
(***************************************************************************)
DispatchedOnce ==
    Without({"race", "clash", "error", "rewound"}) =>
        \A failure \in Heads \X Tries : sent[failure] # "more"

(***************************************************************************)
(* "Flaky rerun limit reached": no head of the pull request is run again   *)
(* more than MAX_RETRIES_PER_HEAD times while its watch lasts.             *)
(***************************************************************************)
RerunsBounded ==
    Without({"race", "clash", "rewound"}) => \A h \in Heads : reruns[h] <= MaxRetries

(***************************************************************************)
(* An active watch has its cron, and without a watch there is no cron,     *)
(* except while an operation is halfway through a start or a stop.         *)
(***************************************************************************)
Halfway == {"startCron", "startCreate", "startSave", "rollback", "rollbackItem",
            "stopSave", "stopDelete"}

CronFollowsWatch ==
    Without({"race", "clash", "partial"}) /\ (\A p \in Procs : at[p] \notin Halfway) =>
        /\ \A w \in store : w.status = "active" => w.cron \in crons
        /\ store = {} => crons = {}

Watched == \E w \in store : w.status = "active"

(***************************************************************************)
(* "This pull request is already monitored from another agent thread": an  *)
(* active watch is not taken over, unless a change is written over.        *)
(***************************************************************************)
OwnedByOne ==
    [][\A w \in store, v \in store' :
          w.status = "active" /\ v.status = "active" /\ w.thread # v.thread =>
              "race" \in causes']_vars

(***************************************************************************)
(* While the checks of an open pull request fail, the agent is told, or    *)
(* the watch ends.  The exceptions: an evaluation that broke off after it  *)
(* had recorded its key, a broken start or stop, a change written over.    *)
(***************************************************************************)
Failing == ci = "failure"

Told == \E w \in store :
           w.head = head /\ w.retries < MaxRetries /\ sent[head, w.retries] # "never"

Excused == ~Without({"race", "clash", "partial", "dropped"})

Attended == Watched /\ Failing ~> Told \/ ~Watched \/ ~Failing \/ Excused

(***************************************************************************)
(* The watch of a pull request that was closed, or whose checks have all   *)
(* succeeded, ends and its cron goes away; so does the cron of a watch     *)
(* that was stopped, even when its first deletion fails.                   *)
(***************************************************************************)
Over == {"success", "blocked", "closed"}

Retired ==
    /\ \A verdict \in Over :
          Watched /\ ci = verdict ~> crons = {} \/ ci # verdict \/ Excused
    /\ (\E w \in store : w.status = "inactive") ~> crons = {} \/ Watched \/ Excused
=============================================================================
