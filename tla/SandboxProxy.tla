---------------------------- MODULE SandboxProxy ----------------------------
(***************************************************************************)
(* The sandbox of one thread, as the process that serves the thread sees   *)
(* it.  A registry (SANDBOX_BACKENDS) leads from the thread to a handle, a *)
(* SandboxBackendProxy (agent/utils/sandbox_state.py), whose backend is    *)
(* connected, or created, by a startup task that every coroutine in need   *)
(* of the sandbox waits for.  ensure_sandbox_for_thread and                *)
(* recreate_sandbox_for_thread (agent/server.py) bind the thread's         *)
(* metadata to the sandbox they found or made; a failing tool call drops   *)
(* the handle (agent/middleware/tool_error_handler.py).                    *)
(*                                                                         *)
(* Between two awaits of one coroutine the others run, the sandbox may be  *)
(* deleted and the process may die.                                        *)
(***************************************************************************)
EXTENDS Naturals, FiniteSets

CONSTANTS
    Calls,      \* the coroutines that may use the sandbox at a time
    MaxProxies, \* bound on the handles that are referenced at a time
    MaxTasks,   \* bound on the tasks that are referenced at a time
    MaxBoxes,   \* bound on the sandboxes ever created
    MaxRuns,    \* bound on the runs on the thread
    MaxUses,    \* bound on the calls after the preparation of a run
    MaxFaults   \* bound on the faults

ASSUME BoundsAssumption ==
    /\ MaxProxies \in Nat \ {0} /\ MaxTasks \in Nat \ {0}
    /\ MaxBoxes \in Nat \ {0}
    /\ MaxRuns \in Nat /\ MaxUses \in Nat /\ MaxFaults \in Nat

VARIABLES
    registry,    \* SANDBOX_BACKENDS.get(thread_id)
    proxy,       \* the handles
    task,        \* the startup tasks and the recreations
    call,        \* the coroutines that use the sandbox
    run,         \* the run on the thread
    bound,       \* sandbox_id in the thread's metadata
    box,         \* the sandboxes at the provider
    work,        \* history: the sandbox that holds the agent's work
    runs, uses, faults,
    causes       \* history: what has happened besides orderly steps

memory == <<registry, proxy, task, call>>
outside == <<bound, box>>
bounds == <<runs, uses, faults>>
vars   == <<memory, run, outside, work, bounds, causes>>

Nil == 0
Proxies == 1..MaxProxies
Tasks == 1..MaxTasks
Boxes == 1..MaxBoxes
OrNil(S) == S \union {Nil}
Least(S) == CHOOSE x \in S : \A y \in S : x <= y

(* lock is held by a coroutine that reads the thread's metadata.           *)
ProxyRecords ==
    [backend : OrNil(Boxes), startup : OrNil(Tasks), reconnect : BOOLEAN,
     lock : BOOLEAN]

Ended == {"done", "failed", "unreachable", "cancelled"}

(***************************************************************************)
(* A task ensures (the reconnect callback of a run), attaches (to the      *)
(* sandbox the metadata names, for a handle without a callback) or         *)
(* recreates.  inline is the sandbox_id in the config of its run, known    *)
(* the id it read, made the one it is about to publish, result the handle  *)
(* it returns, or, of a recreation, the one it found in the registry.      *)
(***************************************************************************)
TaskRecords ==
    [at : {"free", "cached", "metadata", "connect", "refresh", "create",
           "identity", "bind", "publish", "attach"} \union Ended,
     kind : {"ensure", "attach", "recreate"},
     inline : OrNil(Boxes), known : OrNil(Boxes), made : OrNil(Boxes),
     result : OrNil(Proxies)]

(***************************************************************************)
(* prepare is the run's preparation, file a tool that uses the handle the  *)
(* agent was built with, tool one that asks the registry, mirror the       *)
(* dashboard writing an edited plan from outside any run.  An orphan is    *)
(* what a preparation that failed elsewhere left waiting for the sandbox,  *)
(* with the sandbox_id in the config of its run.                           *)
(***************************************************************************)
Kinds == {"prepare", "file", "tool", "mirror", "recreate", "orphan"}

CallRecords ==
    [at : {"idle", "get", "lookup", "wait", "use"}, kind : Kinds,
     proxy : OrNil(Proxies), task : OrNil(Tasks), box : OrNil(Boxes),
     inline : OrNil(Boxes)]

RunRecords ==
    [phase : {"none", "prepare", "work"}, handle : OrNil(Proxies),
     inline : OrNil(Boxes)]

Causes == {"blind",    \* the metadata could not be read
           "stale",    \* an id came from the config of a run that began
                       \* before the thread was bound to another sandbox
           "split",    \* a recreation ended while another handle, or a call
                       \* under way, was in use
           "torn",     \* the thread was bound, the handle was not
           "raced",    \* a handle was started or replaced while its lock was
                       \* held to look the id up
           "returned", \* a handle was put back over the one that followed it
           "revived"}  \* a handle was put back after it had been dropped

When(condition, cause) == IF condition THEN {cause} ELSE {}

NoProxy == [backend |-> Nil, startup |-> Nil, reconnect |-> FALSE, lock |-> FALSE]
NoTask == [at |-> "free", kind |-> "ensure", inline |-> Nil, known |-> Nil,
           made |-> Nil, result |-> Nil]
NoCall == [at |-> "idle", kind |-> "file", proxy |-> Nil, task |-> Nil, box |-> Nil,
           inline |-> Nil]
NoRun == [phase |-> "none", handle |-> Nil, inline |-> Nil]

Init ==
    /\ registry = Nil
    /\ proxy = [p \in Proxies |-> NoProxy] /\ task = [t \in Tasks |-> NoTask]
    /\ call = [c \in Calls |-> NoCall] /\ run = NoRun
    /\ bound = Nil /\ box = [b \in Boxes |-> "none"]
    /\ work = Nil /\ runs = 0 /\ uses = 0 /\ faults = 0 /\ causes = {}

Fault == faults < MaxFaults /\ faults' = faults + 1
Alive(b) == box[b] = "alive"
Over(t) == task[t].at \in Ended \union {"free"}
Stage(t, next) == task' = [task EXCEPT ![t].at = next]

-----------------------------------------------------------------------------
(* Objects that nothing refers to are used again.                          *)

Reachable(p) ==
    \/ registry = p \/ run.handle = p
    \/ \E c \in Calls : call[c].proxy = p
    \/ \E t \in Tasks : task[t].result = p

Awaited(t) ==
    \/ \E p \in Proxies : proxy[p].startup = t /\ Reachable(p)
    \/ \E c \in Calls : call[c].task = t

FreeProxies == {p \in Proxies : ~Reachable(p)}
FreeTasks == {t \in Tasks : Over(t) /\ ~Awaited(t)}

(* The handle in the registry, or a new one for its place.                 *)
HandleExists == registry # Nil \/ FreeProxies # {}
Handle == IF registry # Nil THEN registry ELSE Least(FreeProxies)
Kept == IF registry # Nil THEN proxy[registry] ELSE NoProxy

-----------------------------------------------------------------------------
(* Tasks.                                                                  *)

(* What a step of a task leaves alone before it binds or publishes.        *)
Private == UNCHANGED <<registry, proxy, call, run, bound, work, runs, uses>>

(* The backend of the handle in the registry, before the first await; a    *)
(* recreation takes the handle, and looks for its backend afterwards.      *)
Cached(t) ==
    /\ task[t].at = "cached"
    /\ task' = [task EXCEPT ![t] =
           IF task[t].kind = "recreate"
           THEN [@ EXCEPT !.at = "metadata", !.result = registry]
           ELSE [@ EXCEPT !.at = "metadata", !.made = Kept.backend]]
    /\ Private /\ UNCHANGED <<box, faults, causes>>

(***************************************************************************)
(* get_sandbox_id_from_metadata: the id in the run's config, else the one  *)
(* in the thread's metadata; none if that cannot be read.                  *)
(***************************************************************************)
ReadId(inline, id, more) ==
    \/ /\ id = IF inline # Nil THEN inline ELSE bound
       /\ causes' = causes \union When(inline \notin {Nil, bound}, "stale") \union more
       /\ UNCHANGED faults
    \/ /\ Fault /\ inline = Nil /\ bound # Nil /\ id = Nil
       /\ causes' = causes \union {"blind"} \union more

HasBackend(p) == p # Nil /\ proxy[p].backend # Nil

AfterMetadata(t, id) ==
    CASE task[t].kind = "recreate" ->
             IF HasBackend(task[t].result) \/ id # Nil THEN "create" ELSE "failed"
      [] task[t].made # Nil -> "refresh"
      [] id # Nil -> "connect"
      [] OTHER -> "create"

Metadata(t) ==
    /\ task[t].at = "metadata"
    /\ \E id \in OrNil(Boxes) :
          /\ ReadId(task[t].inline, id, {})
          /\ task' = [task EXCEPT ![t] =
                 [@ EXCEPT !.known = id, !.inline = Nil, !.result = Nil,
                           !.at = AfterMetadata(t, id)]]
    /\ Private /\ UNCHANGED box

(* A slip, here and below: what a plausible mistake in the definition that *)
(* follows would make of it.  Here any silent sandbox is replaced.         *)
ReplaceUnreached(t, gone) == Stage(t, "create")

(***************************************************************************)
(* A sandbox that cannot be reached is replaced only if create_sandbox     *)
(* found it gone: a run of the agent does not ask for allow_replacement.   *)
(***************************************************************************)
NotReached(t, gone) == Stage(t, IF gone THEN "create" ELSE "unreachable")

Connect(t) ==
    LET id == task[t].known IN
    /\ task[t].at = "connect"
    /\ \/ /\ Alive(id)
          /\ task' = [task EXCEPT ![t].at = "refresh", ![t].made = id]
          /\ UNCHANGED faults
       \/ ~Alive(id) /\ NotReached(t, TRUE) /\ UNCHANGED faults
       \/ Fault /\ NotReached(t, FALSE)
    /\ Private /\ UNCHANGED <<box, causes>>

(***************************************************************************)
(* The sandbox gets a fresh token.  Any failure counts as unreachable;     *)
(* where there is no token to give, nothing is sent.                       *)
(***************************************************************************)
Refresh(t) ==
    /\ task[t].at = "refresh"
    /\ \/ Alive(task[t].made) /\ Stage(t, "identity") /\ UNCHANGED faults
       \/ ~Alive(task[t].made) /\ NotReached(t, FALSE) /\ UNCHANGED faults
       \/ Fault /\ (NotReached(t, FALSE) \/ Stage(t, "identity"))
    /\ Private /\ UNCHANGED <<box, causes>>

(* A replacement that fails is still reported as an unreachable sandbox.   *)
Create(t) ==
    LET replaces == /\ task[t].kind = "ensure"
                    /\ task[t].known # Nil \/ task[t].made # Nil
        unused == {b \in Boxes : box[b] = "none"}
    IN
    /\ task[t].at = "create"
    /\ \/ /\ unused # {}
          /\ box' = [box EXCEPT ![Least(unused)] = "alive"]
          /\ task' = [task EXCEPT ![t].at = "identity", ![t].made = Least(unused)]
          /\ UNCHANGED faults
       \/ /\ Fault /\ UNCHANGED box
          /\ Stage(t, IF replaces THEN "unreachable" ELSE "failed")
    /\ Private /\ UNCHANGED causes

(***************************************************************************)
(* set_sandbox_backend: the handle in the registry gets the backend, and   *)
(* forgets the task that was starting one.                                 *)
(***************************************************************************)
Publish(t) ==
    /\ HandleExists
    /\ registry' = Handle
    /\ proxy' = [proxy EXCEPT ![Handle] =
           [Kept EXCEPT !.backend = task[t].made, !.startup = Nil]]
    /\ task' = [task EXCEPT ![t] =
           [NoTask EXCEPT !.at = "done", !.kind = task[t].kind, !.result = Handle]]
    /\ IF task[t].kind = "recreate"
       THEN /\ work' = Nil
            /\ causes' = causes \union
                   When(run.handle # Handle \/ \E c \in Calls :
                            call[c].at # "idle" /\ call[c].task # t, "split")
       ELSE UNCHANGED <<work, causes>>

(* A slip: the backend is published before the thread is bound to it.      *)
PublishUnbound(t) ==
    /\ task[t].at = "identity" /\ Alive(task[t].made) /\ Publish(t)
    /\ UNCHANGED <<call, run, outside, bounds>>

(* The git identity; a sandbox the thread is bound to is then published.   *)
Identity(t) ==
    LET b == task[t].made IN
    /\ task[t].at = "identity"
    /\ \/ Alive(b) /\ task[t].known = b /\ Publish(t) /\ UNCHANGED faults
       \/ /\ \/ Alive(b) /\ task[t].known # b /\ Stage(t, "bind") /\ UNCHANGED faults
             \/ ~Alive(b) /\ Stage(t, "failed") /\ UNCHANGED faults
             \/ Fault /\ Stage(t, "failed")
          /\ UNCHANGED <<registry, proxy, work, causes>>
    /\ UNCHANGED <<call, run, outside, runs, uses>>

(* The metadata is updated, unless the update or its answer is lost.       *)
Bind(t) ==
    /\ task[t].at = "bind"
    /\ \/ /\ bound' = task[t].made /\ Stage(t, "publish")
          /\ UNCHANGED <<faults, causes>>
       \/ /\ Fault /\ Stage(t, "failed")
          /\ \/ UNCHANGED <<bound, causes>>
             \/ bound' = task[t].made /\ causes' = causes \union {"torn"}
    /\ UNCHANGED <<registry, proxy, call, run, box, work, runs, uses>>

Bound(t) ==
    /\ task[t].at = "publish" /\ Publish(t)
    /\ UNCHANGED <<call, run, outside, bounds>>

(* create_sandbox(sandbox_id), for a handle without a callback.            *)
Attach(t) ==
    /\ task[t].at = "attach"
    /\ \/ Alive(task[t].made) /\ Stage(t, "done") /\ UNCHANGED faults
       \/ ~Alive(task[t].made) /\ Stage(t, "failed") /\ UNCHANGED faults
       \/ Fault /\ Stage(t, "failed")
    /\ Private /\ UNCHANGED <<box, causes>>

TaskStep(t) ==
    \/ Cached(t) \/ Metadata(t) \/ Connect(t) \/ Refresh(t) \/ Create(t)
    \/ Identity(t) \/ Bind(t) \/ Bound(t) \/ Attach(t)

-----------------------------------------------------------------------------
(* Runs.                                                                   *)

InRun(c) == call[c].at # "idle" /\ call[c].kind \notin {"mirror", "orphan"}
Rebinding == \E t \in Tasks : task[t].kind = "recreate" /\ task[t].at = "publish"
Ensuring(inline) == [NoTask EXCEPT !.at = "cached", !.inline = inline]

(* A slip: a run starts its own task whatever the handle is waiting for.   *)
BeginAfresh ==
    /\ run.phase = "none" /\ HandleExists /\ FreeTasks # {}
    /\ runs < MaxRuns /\ runs' = runs + 1
    /\ \E inline \in {Nil, bound} :
          /\ run' = [phase |-> "prepare", handle |-> Handle, inline |-> inline]
          /\ task' = [task EXCEPT ![Least(FreeTasks)] = Ensuring(inline)]
    /\ registry' = Handle
    /\ proxy' = [proxy EXCEPT ![Handle] =
           [Kept EXCEPT !.reconnect = TRUE, !.startup = Least(FreeTasks)]]
    /\ UNCHANGED <<call, outside, work, uses, faults, causes>>

(***************************************************************************)
(* get_agent: the handle of the registry, or a new one, gets this run's    *)
(* callback and is started, unless it has a task that was not cancelled.   *)
(* The platform may have copied the thread's metadata into the config.     *)
(***************************************************************************)
Begin ==
    LET started == Kept.startup # Nil /\ task[Kept.startup].at # "cancelled"
        t == IF started THEN Kept.startup ELSE Least(FreeTasks)
    IN
    /\ run.phase = "none" /\ HandleExists /\ (started \/ FreeTasks # {})
    /\ runs < MaxRuns /\ runs' = runs + 1
    /\ \E inline \in {Nil, bound} :
          /\ run' = [phase |-> "prepare", handle |-> Handle, inline |-> inline]
          /\ task' = IF started THEN task
                     ELSE [task EXCEPT ![t] = Ensuring(inline)]
    /\ registry' = Handle
    /\ proxy' = [proxy EXCEPT ![Handle] =
           [Kept EXCEPT !.reconnect = TRUE, !.startup = t]]
    /\ UNCHANGED <<call, outside, work, uses, faults, causes>>

Finish ==
    /\ run.phase = "work" /\ \A c \in Calls : ~InRun(c)
    /\ run' = NoRun
    /\ UNCHANGED <<memory, outside, work, bounds, causes>>

(***************************************************************************)
(* A new run interrupts the one under way: its coroutines are cancelled,   *)
(* a recreation with the call it runs in.  A startup task is shielded and  *)
(* goes on; a waiter that is cancelled after the task has ended drops it.  *)
(***************************************************************************)
Interrupt ==
    LET hit == {c \in Calls : InRun(c)}
        cut == {t \in Tasks : task[t].kind = "recreate" /\ ~Over(t)}
        unlocked(p) == \E c \in hit : call[c].at = "lookup" /\ call[c].proxy = p
        dropped(p) == \E c \in hit :
            /\ call[c].at = "wait" /\ call[c].proxy = p
            /\ call[c].task = proxy[p].startup /\ task[call[c].task].at \in Ended
    IN
    /\ run.phase # "none"
    /\ run' = NoRun
    /\ call' = [c \in Calls |-> IF c \in hit THEN NoCall ELSE call[c]]
    /\ task' = [t \in Tasks |->
           IF t \in cut THEN [NoTask EXCEPT !.at = "cancelled"] ELSE task[t]]
    /\ proxy' = [p \in Proxies |->
           [proxy[p] EXCEPT !.lock = @ /\ ~unlocked(p),
                            !.startup = IF dropped(p) THEN Nil ELSE @]]
    /\ causes' = causes \union When(Rebinding, "torn")
    /\ UNCHANGED <<registry, outside, work, bounds>>

(***************************************************************************)
(* The task that looks up who triggered the run raises, and with it the    *)
(* asyncio.gather of the preparation: the run is over, but the task that   *)
(* waits for the sandbox goes on.                                          *)
(***************************************************************************)
IdentityFails(c) ==
    /\ InRun(c) /\ call[c].kind = "prepare"
    /\ run' = NoRun
    /\ call' = [call EXCEPT ![c] = [@ EXCEPT !.kind = "orphan", !.inline = run.inline]]
    /\ UNCHANGED <<registry, proxy, task, outside, work, bounds, causes>>

(* The process dies with everything it has in memory.                      *)
Crash ==
    /\ Fault
    /\ registry' = Nil /\ run' = NoRun
    /\ call' = [c \in Calls |-> NoCall] /\ task' = [t \in Tasks |-> NoTask]
    /\ proxy' = [p \in Proxies |-> NoProxy]
    /\ causes' = causes \union When(Rebinding, "torn")
    /\ UNCHANGED <<outside, work, runs, uses>>

(* The provider deletes a sandbox.                                         *)
Delete(b) ==
    /\ Alive(b) /\ b \in {bound, work}
    /\ box' = [box EXCEPT ![b] = "gone"]
    /\ UNCHANGED <<memory, run, bound, work, bounds, causes>>

-----------------------------------------------------------------------------
(* Coroutines that use the sandbox.                                        *)

(***************************************************************************)
(* The preparation, a tool that asks the registry and the dashboard get    *)
(* the registry's handle, new if there is none.                            *)
(***************************************************************************)
Started(c, kind, p) ==
    /\ call[c].at = "idle"
    /\ call' = [call EXCEPT ![c] =
           [NoCall EXCEPT !.at = "get", !.kind = kind, !.proxy = p]]

Counted == uses < MaxUses /\ uses' = uses + 1

Start(c, kind) ==
    /\ Started(c, kind, Handle) /\ HandleExists
    /\ registry' = Handle /\ proxy' = [proxy EXCEPT ![Handle] = Kept]
    /\ \/ /\ kind = "prepare" /\ run.phase = "prepare" /\ \A d \in Calls : ~InRun(d)
          /\ UNCHANGED uses
       \/ kind = "tool" /\ run.phase = "work" /\ Counted
       \/ kind = "mirror" /\ Counted
    /\ UNCHANGED <<task, run, outside, work, runs, faults, causes>>

StartFile(c) ==
    /\ Started(c, "file", run.handle) /\ run.phase = "work" /\ Counted
    /\ UNCHANGED <<registry, proxy, task, run, outside, work, runs, faults, causes>>

Recreate(c) ==
    /\ call[c].at = "idle" /\ run.phase = "work" /\ FreeTasks # {} /\ Counted
    /\ LET t == Least(FreeTasks) IN
       /\ task' = [task EXCEPT ![t] =
              [Ensuring(run.inline) EXCEPT !.kind = "recreate"]]
       /\ call' = [call EXCEPT ![c] =
              [NoCall EXCEPT !.at = "wait", !.kind = "recreate", !.task = t]]
    /\ UNCHANGED <<registry, proxy, run, outside, work, runs, faults, causes>>

Recreated(c) ==
    /\ call[c].at = "wait" /\ call[c].kind = "recreate" /\ task[call[c].task].at \in Ended
    /\ call' = [call EXCEPT ![c] = NoCall]
    /\ UNCHANGED <<registry, proxy, task, run, outside, work, bounds, causes>>

Inline(c) == IF InRun(c) THEN run.inline ELSE call[c].inline

(* The backend is there: a run is prepared, a tool goes on to use it, and  *)
(* nobody waits for an orphan.                                             *)
Return(c, b) ==
    /\ call' = [call EXCEPT ![c] =
           IF call[c].kind \in {"prepare", "orphan"} THEN NoCall
           ELSE [@ EXCEPT !.at = "use", !.box = b, !.task = Nil]]
    /\ run' = IF call[c].kind = "prepare" THEN [run EXCEPT !.phase = "work"] ELSE run

(* A slip: a run goes on as if it had been prepared.                       *)
RaiseLater(c) ==
    /\ call' = [call EXCEPT ![c] = NoCall]
    /\ run' = IF call[c].kind = "prepare" THEN [run EXCEPT !.phase = "failed"] ELSE run

(* A run whose preparation fails is over.                                  *)
Raise(c) ==
    /\ call' = [call EXCEPT ![c] = NoCall]
    /\ run' = IF call[c].kind = "prepare" THEN NoRun ELSE run

Waits(c, t) == call' = [call EXCEPT ![c].at = "wait", ![c].task = t]

(***************************************************************************)
(* _aget_backend: a backend that is not being replaced is taken at once.   *)
(* Otherwise, under the handle's lock, a task is joined or started; a      *)
(* handle without a callback keeps the lock until it has looked the id up. *)
(***************************************************************************)
Get(c) ==
    LET p == call[c].proxy
        ready == proxy[p].backend # Nil /\ proxy[p].startup = Nil
        free == ~ready /\ ~proxy[p].lock
        t == Least(FreeTasks)
    IN
    /\ call[c].at = "get"
    /\ \/ /\ ready /\ Return(c, proxy[p].backend)
          /\ UNCHANGED <<proxy, task>>
       \/ /\ free /\ proxy[p].startup # Nil /\ Waits(c, proxy[p].startup)
          /\ UNCHANGED <<proxy, task, run>>
       \/ /\ free /\ proxy[p].startup = Nil /\ proxy[p].reconnect /\ FreeTasks # {}
          /\ task' = [task EXCEPT ![t] = Ensuring(Inline(c))]
          /\ proxy' = [proxy EXCEPT ![p].startup = t] /\ Waits(c, t)
          /\ UNCHANGED run
       \/ /\ free /\ proxy[p].startup = Nil /\ ~proxy[p].reconnect
          /\ proxy' = [proxy EXCEPT ![p].lock = TRUE]
          /\ call' = [call EXCEPT ![c].at = "lookup"]
          /\ UNCHANGED <<task, run>>
    /\ UNCHANGED <<registry, outside, work, bounds, causes>>

Lookup(c) ==
    LET p == call[c].proxy
        t == Least(FreeTasks)
        changed == proxy[p].backend # Nil \/ proxy[p].startup # Nil
    IN
    /\ call[c].at = "lookup"
    /\ \E id \in OrNil(Boxes) :
          /\ ReadId(Inline(c), id, When(changed, "raced"))
          /\ \/ /\ id = Nil /\ Raise(c)
                /\ proxy' = [proxy EXCEPT ![p].lock = FALSE]
                /\ UNCHANGED task
             \/ /\ id # Nil /\ FreeTasks # {} /\ Waits(c, t)
                /\ task' = [task EXCEPT ![t] =
                       [NoTask EXCEPT !.at = "attach", !.kind = "attach", !.made = id]]
                /\ proxy' = [proxy EXCEPT ![p].lock = FALSE, ![p].startup = t]
                /\ UNCHANGED run
    /\ UNCHANGED <<registry, outside, work, runs, uses>>

(***************************************************************************)
(* The task has ended.  Its backend is installed, and the handle put in    *)
(* the registry, only if the handle still waits for this task.             *)
(***************************************************************************)
Outcome(t) == IF task[t].kind = "attach" THEN task[t].made
              ELSE proxy[task[t].result].backend

Ready(c) ==
    LET p == call[c].proxy
        t == call[c].task
        mine == proxy[p].startup = t
        b == IF mine THEN Outcome(t) ELSE proxy[p].backend
    IN
    /\ call[c].at = "wait" /\ call[c].kind # "recreate"
    /\ task[t].at = "done" /\ ~proxy[p].lock
    /\ IF mine
       THEN /\ proxy' = [proxy EXCEPT ![p].backend = b, ![p].startup = Nil]
            /\ registry' = p
            /\ causes' = causes \union When(registry \notin {Nil, p}, "returned")
                               \union When(registry = Nil, "revived")
       ELSE UNCHANGED <<proxy, registry, causes>>
    /\ IF b = Nil THEN Raise(c) ELSE Return(c, b)
    /\ UNCHANGED <<task, outside, work, bounds>>

(***************************************************************************)
(* A sandbox error of a tool drops whatever handle the registry has and    *)
(* cancels its task (clear_sandbox_backend); the dashboard only logs it.   *)
(***************************************************************************)
Clear ==
    LET t == Kept.startup
        cancelled == t # Nil /\ ~Over(t)
    IN
    /\ registry' = Nil
    /\ task' = IF cancelled THEN [task EXCEPT ![t] = [NoTask EXCEPT !.at = "cancelled"]]
               ELSE task
    /\ causes' = causes \union When(cancelled /\ task[t].at = "publish", "torn")

Clears(c) == call[c].kind \in {"file", "tool"}

NotReady(c) ==
    LET p == call[c].proxy
        t == call[c].task
    IN
    /\ call[c].at = "wait" /\ call[c].kind # "recreate"
    /\ task[t].at \in Ended \ {"done"} /\ ~proxy[p].lock
    /\ proxy' = [proxy EXCEPT ![p].startup = IF @ = t THEN Nil ELSE @]
    /\ Raise(c)
    /\ \/ UNCHANGED <<registry, task, causes>>
       \/ Clears(c) /\ task[t].at = "failed" /\ Clear
    /\ UNCHANGED <<outside, work, bounds>>

(* The operation itself; a tool may go on with another one.                *)
Use(c) ==
    LET b == call[c].box IN
    /\ call[c].at = "use" /\ Alive(b)
    /\ work' = IF call[c].kind = "mirror" THEN work ELSE b
    /\ \/ call' = [call EXCEPT ![c] = NoCall]
       \/ call[c].kind # "file" /\ call' = [call EXCEPT ![c].at = "get", ![c].box = Nil]
    /\ UNCHANGED <<registry, proxy, task, run, outside, bounds, causes>>

(* A tool raises; the handle is dropped only for an error of the sandbox's *)
(* client.                                                                 *)
UseFails(c) ==
    /\ call[c].at = "use"
    /\ IF Alive(call[c].box) THEN Fault ELSE UNCHANGED faults
    /\ call' = [call EXCEPT ![c] = NoCall]
    /\ UNCHANGED <<registry, task, causes>> \/ (Clears(c) /\ Clear)
    /\ UNCHANGED <<proxy, run, outside, work, runs, uses>>

CallStep(c) ==
    \/ Get(c) \/ Lookup(c) \/ Ready(c) \/ NotReady(c) \/ Use(c) \/ UseFails(c)
    \/ Recreated(c)

Next ==
    \/ Begin \/ Finish \/ Interrupt \/ Crash
    \/ \E b \in Boxes : Delete(b)
    \/ \E c \in Calls, kind \in Kinds : Start(c, kind)
    \/ \E c \in Calls : StartFile(c) \/ Recreate(c) \/ IdentityFails(c) \/ CallStep(c)
    \/ \E t \in Tasks : TaskStep(t)

Spec == Init /\ [][Next]_vars

-----------------------------------------------------------------------------
(* The types of the variables.                                             *)
TypeOK ==
    /\ registry \in OrNil(Proxies)
    /\ proxy \in [Proxies -> ProxyRecords] /\ task \in [Tasks -> TaskRecords]
    /\ call \in [Calls -> CallRecords] /\ run \in RunRecords
    /\ bound \in OrNil(Boxes) /\ box \in [Boxes -> {"none", "alive", "gone"}]
    /\ work \in OrNil(Boxes)
    /\ runs \in 0..MaxRuns /\ uses \in 0..MaxUses /\ faults \in 0..MaxFaults
    /\ causes \subseteq Causes

Without(some) == causes \intersect some = {}

(***************************************************************************)
(* "A thread never provisions two sandboxes concurrently": at most one     *)
(* task connects or creates the sandbox of a run, although a startup       *)
(* survives the run that is interrupted and the handle it was started for, *)
(* unless a coroutine acted on a handle that others had moved on from.     *)
(***************************************************************************)
Provisioning == {t \in Tasks : task[t].kind = "ensure" /\ ~Over(t)}

OneStartup == Without({"raced", "returned"}) => Cardinality(Provisioning) <= 1

(***************************************************************************)
(* Once nothing is being started or looked up, the backend in memory is    *)
(* the sandbox the thread is bound to: startups that fail, replacements,   *)
(* recreations, late waiters and dropped handles leave no other one behind *)
(* that later calls would use, unless a named cause other than an          *)
(* unreadable id says why.                                                 *)
(***************************************************************************)
Quiet == /\ \A t \in Tasks : Over(t)
         /\ \A c \in Calls : call[c].at # "lookup"

CachedIsBound ==
    Quiet /\ Without(Causes \ {"blind"}) /\ registry # Nil =>
        proxy[registry].backend \in {Nil, bound}

(***************************************************************************)
(* "The sandbox holds the agent's only copy of its working tree": the      *)
(* agent's tools do not go on in another sandbox while the one they worked *)
(* in exists, unless the agent asked for it or a named cause says why.     *)
(***************************************************************************)
WorkStays ==
    [][work # Nil /\ work' \notin {Nil, work} =>
           ~Alive(work) \/ Rebinding \/ causes # {}]_vars
=============================================================================
