-------------------------- MODULE SandboxProxyProofs --------------------------
(***************************************************************************)
(* Proofs about SandboxProxy, for any coroutines, handles, tasks and       *)
(* sandboxes, and any bounds on runs, uses and faults: the types, that one *)
(* startup runs at a time, that the backend in memory is the sandbox the   *)
(* thread is bound to, and that the agent's work stays where it is.        *)
(***************************************************************************)
EXTENDS SandboxProxy, TLAPS, WellFoundedInduction, NaturalsInduction, FiniteSetTheorems

-----------------------------------------------------------------------------
(* What the objects that are used again are chosen from.                   *)

(* A set of numbers that is not empty has a least one.                     *)
LEMMA LeastIn == ASSUME NEW S, S \subseteq Nat, S # {} PROVE Least(S) \in S
<1>1. IsWellFoundedOn(OpToRel(<, Nat), Nat)  BY NatLessThanWellFounded
<1>2. PICK x \in S : \A y \in S : <<y, x>> \notin OpToRel(<, Nat)  BY <1>1, WFMin
<1>3. \A y \in S : x <= y
  <2>1. ASSUME NEW y \in S PROVE x <= y
    <3>1. x \in Nat /\ y \in Nat  OBVIOUS
    <3>2. ~(y < x)  BY <1>2, <3>1 DEF OpToRel
    <3>3. QED  BY <3>1, <3>2
  <2>2. QED  BY <2>1
<1>4. QED  BY <1>3 DEF Least

(* Handles and tasks that are taken are free, and numbers of their kind.   *)
LEMMA Chosen ==
    /\ FreeTasks # {} => Least(FreeTasks) \in FreeTasks /\ Least(FreeTasks) \in Tasks
    /\ FreeProxies # {} => Least(FreeProxies) \in FreeProxies
    /\ \A S \in SUBSET Boxes : S # {} => Least(S) \in S
<1>1. FreeTasks \subseteq Tasks /\ FreeProxies \subseteq Proxies
  BY DEF FreeTasks, FreeProxies
<1>2. Tasks \subseteq Nat /\ Proxies \subseteq Nat /\ Boxes \subseteq Nat
  BY BoundsAssumption DEF Tasks, Proxies, Boxes
<1>3. QED  BY <1>1, <1>2, LeastIn

(* None of them is Nil.                                                    *)
LEMMA NotNil == Nil \notin Tasks /\ Nil \notin Proxies /\ Nil \notin Boxes
  BY BoundsAssumption DEF Tasks, Proxies, Boxes, Nil

(* The handle that is taken is the registry's, or a free one.              *)
LEMMA HandleTaken ==
    ASSUME TypeOK, HandleExists
    PROVE  /\ Handle \in Proxies /\ Kept \in ProxyRecords
           /\ registry # Nil => Handle = registry /\ Kept = proxy[registry]
           /\ registry = Nil => Handle \in FreeProxies /\ Kept = NoProxy
<1>1. registry # Nil => registry \in Proxies  BY DEF TypeOK, OrNil
<1>2. NoProxy \in ProxyRecords  BY DEF NoProxy, ProxyRecords, OrNil, Nil
<1>3. FreeProxies # {} => Least(FreeProxies) \in FreeProxies /\ Least(FreeProxies) \in Proxies
  BY Chosen DEF FreeProxies
<1>4. \A p \in Proxies : proxy[p] \in ProxyRecords  BY DEF TypeOK
<1>5. QED  BY <1>1, <1>2, <1>3, <1>4 DEF Handle, Kept, HandleExists

-----------------------------------------------------------------------------
(* Steps replace a record by another.                                      *)

TaskBecomes(t, r) ==
    /\ task' \in [Tasks -> TaskRecords] /\ task'[t] = r
    /\ \A u \in Tasks \ {t} : task'[u] = task[u]

CallBecomes(c, r) ==
    /\ call' \in [Calls -> CallRecords] /\ call'[c] = r
    /\ \A d \in Calls \ {c} : call'[d] = call[d]

ProxyBecomes(p, r) ==
    /\ proxy' \in [Proxies -> ProxyRecords] /\ proxy'[p] = r
    /\ \A q \in Proxies \ {p} : proxy'[q] = proxy[q]

(* One task's.                                                             *)
LEMMA TaskReplaced ==
    ASSUME TypeOK, NEW t \in Tasks, NEW r \in TaskRecords, task' = [task EXCEPT ![t] = r]
    PROVE  TaskBecomes(t, r)
  BY DEF TypeOK, TaskBecomes

(* One coroutine's.                                                        *)
LEMMA CallReplaced ==
    ASSUME TypeOK, NEW c \in Calls, NEW r \in CallRecords, call' = [call EXCEPT ![c] = r]
    PROVE  CallBecomes(c, r)
  BY DEF TypeOK, CallBecomes

(* One handle's.                                                           *)
LEMMA ProxyReplaced ==
    ASSUME TypeOK, NEW p \in Proxies, NEW r \in ProxyRecords, proxy' = [proxy EXCEPT ![p] = r]
    PROVE  ProxyBecomes(p, r)
  BY DEF TypeOK, ProxyBecomes

(* The records of what is not there.                                       *)
LEMMA NoRecords ==
    /\ NoTask \in TaskRecords /\ NoCall \in CallRecords /\ NoRun \in RunRecords
    /\ NoProxy \in ProxyRecords
  BY DEF NoTask, NoCall, NoRun, NoProxy, TaskRecords, CallRecords, RunRecords, ProxyRecords,
         OrNil, Ended, Kinds, Nil

Cancelled == [NoTask EXCEPT !.at = "cancelled"]

(* What a cancelled task is.                                               *)
LEMMA CancelledTask ==
    /\ Cancelled \in TaskRecords /\ Cancelled.at = "cancelled" /\ Cancelled.kind = "ensure"
    /\ Cancelled.known = Nil /\ Cancelled.made = Nil /\ Cancelled.inline = Nil
    /\ Cancelled.result = Nil
  BY DEF Cancelled, NoTask, TaskRecords, OrNil, Ended, Nil

(* The bounds on the faults and the uses are kept.                         *)
LEMMA FaultTypes == TypeOK /\ Fault => faults' \in 0..MaxFaults
  BY BoundsAssumption DEF TypeOK, Fault

(* A counted use keeps within its bound.                                   *)
LEMMA UseTypes == TypeOK /\ Counted => uses' \in 0..MaxUses
  BY BoundsAssumption DEF TypeOK, Counted

(* So is the set of causes.                                                *)
LEMMA CauseTypes ==
    ASSUME TypeOK, NEW condition, NEW cause \in Causes
    PROVE  causes \union When(condition, cause) \subseteq Causes
  BY DEF TypeOK, When

-----------------------------------------------------------------------------
(* Steps of the tasks.                                                     *)

Stages == {"free", "cached", "metadata", "connect", "refresh", "create",
           "identity", "bind", "publish", "attach"} \union Ended

(* The handle it holds: only a recreation takes one, the registry's.       *)
Holding(t) ==
    /\ task'[t].result \in {task[t].result, Nil, registry}
    /\ task'[t].result \in {task[t].result, Nil} \/ task[t].kind = "recreate"

(***************************************************************************)
(* The task goes to a stage, with what it knows and what it has made.      *)
(***************************************************************************)
To(t, a, id, b) ==
    /\ task' \in [Tasks -> TaskRecords] /\ \A u \in Tasks \ {t} : task'[u] = task[u]
    /\ task'[t].at = a /\ task'[t].known = id /\ task'[t].made = b
    /\ task'[t].kind = task[t].kind /\ Holding(t)
    /\ task'[t].inline \in {task[t].inline, Nil}

(* It only goes on.                                                        *)
LEMMA Staged ==
    ASSUME TypeOK, NEW t \in Tasks, NEW a \in Stages, Stage(t, a)
    PROVE  To(t, a, task[t].known, task[t].made)
<1> DEFINE r == [task[t] EXCEPT !.at = a]
<1>1. task[t] \in TaskRecords  BY DEF TypeOK
<1>2. /\ r \in TaskRecords /\ r.at = a /\ r.known = task[t].known /\ r.made = task[t].made
      /\ r.kind = task[t].kind /\ r.result = task[t].result /\ r.inline = task[t].inline
  BY <1>1 DEF TaskRecords, Stages
<1>3. task' = [task EXCEPT ![t] = r]  BY DEF Stage
<1> HIDE DEF r
<1>4. QED  BY <1>2, <1>3, TaskReplaced DEF TaskBecomes, To, Holding

(* It has a backend in hand.                                               *)
LEMMA StagedWith ==
    ASSUME TypeOK, NEW t \in Tasks, NEW a \in Stages, NEW b \in OrNil(Boxes),
           task' = [task EXCEPT ![t].at = a, ![t].made = b]
    PROVE  To(t, a, task[t].known, b)
<1> DEFINE r == [task[t] EXCEPT !.at = a, !.made = b]
<1>1. task[t] \in TaskRecords  BY DEF TypeOK
<1>2. /\ r \in TaskRecords /\ r.at = a /\ r.known = task[t].known /\ r.made = b
      /\ r.kind = task[t].kind /\ r.result = task[t].result /\ r.inline = task[t].inline
  BY <1>1 DEF TaskRecords, Stages
<1>3. task' = [task EXCEPT ![t] = r]  OBVIOUS
<1> HIDE DEF r
<1>4. QED  BY <1>2, <1>3, TaskReplaced DEF TaskBecomes, To, Holding

(* It has read an id.                                                      *)
LEMMA StagedKnowing ==
    ASSUME TypeOK, NEW t \in Tasks, NEW a \in Stages, NEW id \in OrNil(Boxes),
           task' = [task EXCEPT ![t] =
               [@ EXCEPT !.known = id, !.inline = Nil, !.result = Nil, !.at = a]]
    PROVE  To(t, a, id, task[t].made)
<1> DEFINE r == [task[t] EXCEPT !.known = id, !.inline = Nil, !.result = Nil, !.at = a]
<1>1. task[t] \in TaskRecords  BY DEF TypeOK
<1>2. /\ r \in TaskRecords /\ r.at = a /\ r.known = id /\ r.made = task[t].made
      /\ r.kind = task[t].kind /\ r.result = Nil /\ r.inline = Nil
  BY <1>1 DEF TaskRecords, Stages, OrNil
<1>3. task' = [task EXCEPT ![t] = r]  OBVIOUS
<1> HIDE DEF r
<1>4. QED  BY <1>2, <1>3, TaskReplaced DEF TaskBecomes, To, Holding

(* It has taken the handle of the registry.                                *)
LEMMA StagedHolding ==
    ASSUME TypeOK, NEW t \in Tasks, NEW a \in Stages, task[t].kind = "recreate",
           task' = [task EXCEPT ![t] = [@ EXCEPT !.at = a, !.result = registry]]
    PROVE  To(t, a, task[t].known, task[t].made)
<1> DEFINE r == [task[t] EXCEPT !.at = a, !.result = registry]
<1>1. task[t] \in TaskRecords /\ registry \in OrNil(Proxies)  BY DEF TypeOK
<1>2. /\ r \in TaskRecords /\ r.at = a /\ r.known = task[t].known /\ r.made = task[t].made
      /\ r.kind = task[t].kind /\ r.result = registry /\ r.inline = task[t].inline
  BY <1>1 DEF TaskRecords, Stages
<1>3. task' = [task EXCEPT ![t] = r]  OBVIOUS
<1> HIDE DEF r
<1>4. QED  BY <1>2, <1>3, TaskReplaced DEF TaskBecomes, To, Holding

(* What a task that has neither bound nor published leaves alone.          *)
Inside == UNCHANGED <<registry, proxy, call, run, work, runs, uses>>

(* The causes only grow, and the faults keep within their bound.           *)
Noting(more) == causes' = causes \union more /\ more \subseteq Causes
InBounds == faults' \in 0..MaxFaults

(* Cached: the backend of the registry's handle, or the handle itself.     *)
LEMMA CachedStep ==
    ASSUME TypeOK, NEW t \in Tasks, Cached(t)
    PROVE  /\ task[t].at = "cached" /\ Inside /\ InBounds /\ Noting({})
           /\ UNCHANGED <<bound, box>>
           /\ \E b \in {task[t].made, Kept.backend} :
                 /\ To(t, "metadata", task[t].known, b)
                 /\ task[t].kind # "recreate" => b = Kept.backend
<1>1. Kept \in ProxyRecords
  BY NoRecords DEF TypeOK, Kept, OrNil
<1>2. Kept.backend \in OrNil(Boxes)  BY <1>1 DEF ProxyRecords
<1>3. "metadata" \in Stages  BY DEF Stages
<1>4. CASE task[t].kind = "recreate"
  <2>1. task' = [task EXCEPT ![t] = [@ EXCEPT !.at = "metadata", !.result = registry]]
    BY <1>4 DEF Cached
  <2>2. To(t, "metadata", task[t].known, task[t].made)  BY <1>3, <1>4, <2>1, StagedHolding
  <2>3. QED  BY <1>4, <2>2 DEF Cached, Inside, Private, InBounds, Noting, TypeOK
<1>5. CASE task[t].kind # "recreate"
  <2>1. task' = [task EXCEPT ![t].at = "metadata", ![t].made = Kept.backend]
    BY <1>5 DEF Cached
  <2>2. To(t, "metadata", task[t].known, Kept.backend)  BY <1>2, <1>3, <2>1, StagedWith
  <2>3. QED  BY <2>2 DEF Cached, Inside, Private, InBounds, Noting, TypeOK
<1>6. QED  BY <1>4, <1>5

(***************************************************************************)
(* What is read: the id of the config, that of the thread, or, when the    *)
(* thread cannot be read, none.                                            *)
(***************************************************************************)
Reads(inline, id, more) ==
    \/ /\ id = IF inline # Nil THEN inline ELSE bound
       /\ Noting(When(inline \notin {Nil, bound}, "stale") \union more)
    \/ inline = Nil /\ bound # Nil /\ id = Nil /\ Noting({"blind"} \union more)

(* And this is what ReadId says.                                           *)
LEMMA ReadIdStep ==
    ASSUME TypeOK, NEW inline, NEW id, NEW more, more \subseteq Causes, ReadId(inline, id, more)
    PROVE  Reads(inline, id, more) /\ InBounds
<1>1. {"stale", "blind"} \subseteq Causes  BY DEF Causes
<1>2. InBounds  BY FaultTypes DEF InBounds, ReadId, TypeOK
<1>3. QED  BY <1>1, <1>2 DEF Reads, ReadId, Noting, When

(* Metadata: the id is read, and decides what to do.                       *)
LEMMA MetadataStep ==
    ASSUME TypeOK, NEW t \in Tasks, Metadata(t)
    PROVE  /\ task[t].at = "metadata" /\ Inside /\ InBounds /\ UNCHANGED <<bound, box>>
           /\ \E id \in OrNil(Boxes) :
                 /\ Reads(task[t].inline, id, {})
                 /\ To(t, AfterMetadata(t, id), id, task[t].made)
<1>1. PICK id \in OrNil(Boxes) :
          /\ ReadId(task[t].inline, id, {})
          /\ task' = [task EXCEPT ![t] =
                 [@ EXCEPT !.known = id, !.inline = Nil, !.result = Nil,
                           !.at = AfterMetadata(t, id)]]
  BY DEF Metadata
<1>2. AfterMetadata(t, id) \in Stages  BY DEF AfterMetadata, Stages, Ended
<1>3. To(t, AfterMetadata(t, id), id, task[t].made)  BY <1>1, <1>2, StagedKnowing
<1>4. Reads(task[t].inline, id, {}) /\ InBounds  BY <1>1, ReadIdStep
<1>5. QED  BY <1>3, <1>4 DEF Metadata, Inside, Private

(* Connect: to the sandbox the thread is bound to, if it is there.         *)
LEMMA ConnectStep ==
    ASSUME TypeOK, NEW t \in Tasks, Connect(t)
    PROVE  /\ task[t].at = "connect"
           /\ Inside /\ InBounds /\ Noting({}) /\ UNCHANGED <<bound, box>>
           /\ \/ To(t, "refresh", task[t].known, task[t].known)
              \/ To(t, "create", task[t].known, task[t].made) /\ ~Alive(task[t].known)
              \/ To(t, "unreachable", task[t].known, task[t].made)
<1>1. {"refresh", "create", "unreachable"} \subseteq Stages  BY DEF Stages, Ended
<1>2. task[t].known \in OrNil(Boxes)  BY DEF TypeOK, TaskRecords
<1>3. ASSUME task' = [task EXCEPT ![t].at = "refresh", ![t].made = task[t].known]
      PROVE  To(t, "refresh", task[t].known, task[t].known)
  BY <1>1, <1>2, <1>3, StagedWith
<1>4. ASSUME NotReached(t, TRUE) PROVE To(t, "create", task[t].known, task[t].made)
  BY <1>1, <1>4, Staged DEF NotReached
<1>5. ASSUME NotReached(t, FALSE) PROVE To(t, "unreachable", task[t].known, task[t].made)
  BY <1>1, <1>5, Staged DEF NotReached
<1>6. InBounds  BY FaultTypes DEF Connect, InBounds, TypeOK
<1>7. QED  BY <1>3, <1>4, <1>5, <1>6 DEF Connect, Inside, Private, Noting

(* Refresh: it answers, or it counts as unreachable.                       *)
LEMMA RefreshStep ==
    ASSUME TypeOK, NEW t \in Tasks, Refresh(t)
    PROVE  /\ task[t].at = "refresh"
           /\ Inside /\ InBounds /\ Noting({}) /\ UNCHANGED <<bound, box>>
           /\ \E a \in {"identity", "unreachable"} : To(t, a, task[t].known, task[t].made)
<1>1. {"identity", "unreachable"} \subseteq Stages  BY DEF Stages, Ended
<1>2. ASSUME NotReached(t, FALSE) PROVE To(t, "unreachable", task[t].known, task[t].made)
  BY <1>1, <1>2, Staged DEF NotReached
<1>3. ASSUME Stage(t, "identity") PROVE To(t, "identity", task[t].known, task[t].made)
  BY <1>1, <1>3, Staged
<1>4. InBounds  BY FaultTypes DEF Refresh, InBounds, TypeOK
<1>5. QED  BY <1>2, <1>3, <1>4 DEF Refresh, Inside, Private, Noting

(* Create: a sandbox that was not there, or an error.                      *)
LEMMA CreateStep ==
    ASSUME TypeOK, NEW t \in Tasks, Create(t)
    PROVE  /\ task[t].at = "create" /\ Inside /\ InBounds /\ Noting({}) /\ UNCHANGED bound
           /\ \/ \E b \in Boxes :
                    /\ box[b] = "none" /\ box' = [box EXCEPT ![b] = "alive"]
                    /\ To(t, "identity", task[t].known, b)
              \/ /\ UNCHANGED box
                 /\ \E a \in {"failed", "unreachable"} : To(t, a, task[t].known, task[t].made)
<1> DEFINE unused == {b \in Boxes : box[b] = "none"}
           b == Least(unused)
<1>1. {"identity", "failed", "unreachable"} \subseteq Stages  BY DEF Stages, Ended
<1>2. unused # {} => b \in Boxes /\ b \in OrNil(Boxes) /\ box[b] = "none"
  <2>1. unused \in SUBSET Boxes  OBVIOUS
  <2>2. unused # {} => b \in unused  BY <2>1, Chosen
  <2>3. QED  BY <2>2 DEF OrNil
<1>3. InBounds /\ Inside /\ Noting({}) /\ UNCHANGED bound /\ task[t].at = "create"
  BY FaultTypes DEF Create, Inside, Private, Noting, InBounds, TypeOK
<1>4. \/ /\ unused # {} /\ box' = [box EXCEPT ![b] = "alive"]
         /\ task' = [task EXCEPT ![t].at = "identity", ![t].made = b]
      \/ UNCHANGED box /\ \E a \in {"failed", "unreachable"} : Stage(t, a)
  BY DEF Create
<1> HIDE DEF unused, b
<1>5. ASSUME task' = [task EXCEPT ![t].at = "identity", ![t].made = b], unused # {}
      PROVE  To(t, "identity", task[t].known, b)
  BY <1>1, <1>2, <1>5, StagedWith
<1>6. ASSUME NEW a \in {"failed", "unreachable"}, Stage(t, a)
      PROVE  To(t, a, task[t].known, task[t].made)
  BY <1>1, <1>6, Staged
<1>7. QED  BY <1>2, <1>3, <1>4, <1>5, <1>6

(* Attach: the task of a handle without a callback.                        *)
LEMMA AttachStep ==
    ASSUME TypeOK, NEW t \in Tasks, Attach(t)
    PROVE  /\ task[t].at = "attach"
           /\ Inside /\ InBounds /\ Noting({}) /\ UNCHANGED <<bound, box>>
           /\ \E a \in {"done", "failed"} : To(t, a, task[t].known, task[t].made)
<1>1. {"done", "failed"} \subseteq Stages  BY DEF Stages, Ended
<1>2. ASSUME NEW a \in {"done", "failed"}, Stage(t, a)
      PROVE  To(t, a, task[t].known, task[t].made)
  BY <1>1, <1>2, Staged
<1>3. InBounds  BY FaultTypes DEF Attach, InBounds, TypeOK
<1>4. \E a \in {"done", "failed"} : Stage(t, a)  BY DEF Attach
<1>5. QED  BY <1>2, <1>3, <1>4 DEF Attach, Inside, Private, Noting

(***************************************************************************)
(* Publish: the registry's handle, or a new one, gets what was made.       *)
(***************************************************************************)
Publishes(t) ==
    /\ HandleExists /\ registry' = Handle
    /\ proxy' \in [Proxies -> ProxyRecords]
    /\ \A q \in Proxies \ {Handle} : proxy'[q] = proxy[q]
    /\ proxy'[Handle].backend = task[t].made /\ proxy'[Handle].startup = Nil
    /\ proxy'[Handle].reconnect = Kept.reconnect /\ proxy'[Handle].lock = Kept.lock
    /\ task' \in [Tasks -> TaskRecords] /\ \A u \in Tasks \ {t} : task'[u] = task[u]
    /\ task'[t].at = "done" /\ task'[t].kind = task[t].kind /\ task'[t].result = Handle
    /\ task'[t].made = Nil /\ task'[t].known = Nil /\ task'[t].inline = Nil
    /\ task[t].kind # "recreate" => work' = work /\ Noting({})
    /\ task[t].kind = "recreate" =>
          /\ work' = Nil
          /\ Noting(When(run.handle # Handle \/ \E c \in Calls :
                            call[c].at # "idle" /\ call[c].task # t, "split"))
    /\ UNCHANGED <<call, run, box, bound, runs, uses>> /\ InBounds

(* So the action Publish does it.                                          *)
LEMMA PublishStep ==
    ASSUME TypeOK, NEW t \in Tasks, Publish(t),
           UNCHANGED <<call, run, box, bound, runs, uses>>, InBounds
    PROVE  Publishes(t)
<1> DEFINE r == [Kept EXCEPT !.backend = task[t].made, !.startup = Nil]
           d == [NoTask EXCEPT !.at = "done", !.kind = task[t].kind, !.result = Handle]
<1>1. Handle \in Proxies /\ Kept \in ProxyRecords  BY HandleTaken DEF Publish
<1>2. task[t] \in TaskRecords  BY DEF TypeOK
<1>3. /\ r \in ProxyRecords /\ r.backend = task[t].made /\ r.startup = Nil
      /\ r.reconnect = Kept.reconnect /\ r.lock = Kept.lock
  BY <1>1, <1>2 DEF ProxyRecords, TaskRecords, OrNil
<1>4. /\ d \in TaskRecords /\ d.at = "done" /\ d.kind = task[t].kind /\ d.result = Handle
      /\ d.made = Nil /\ d.known = Nil /\ d.inline = Nil
  BY <1>1, <1>2 DEF TaskRecords, NoTask, OrNil, Ended, Nil
<1>5. proxy' = [proxy EXCEPT ![Handle] = r] /\ task' = [task EXCEPT ![t] = d]
  BY DEF Publish
<1> HIDE DEF r, d
<1>6. ProxyBecomes(Handle, r) /\ TaskBecomes(t, d)
  BY <1>1, <1>3, <1>4, <1>5, ProxyReplaced, TaskReplaced
<1>7. "split" \in Causes  BY DEF Causes
<1>8. HandleExists /\ registry' = Handle  BY DEF Publish
<1>9. task[t].kind # "recreate" => work' = work /\ Noting({})
  BY DEF Publish, Noting
<1>10. task[t].kind = "recreate" =>
          /\ work' = Nil
          /\ Noting(When(run.handle # Handle \/ \E c \in Calls :
                            call[c].at # "idle" /\ call[c].task # t, "split"))
  BY <1>7 DEF Publish, Noting, When
<1>11. QED
  BY <1>3, <1>4, <1>6, <1>8, <1>9, <1>10 DEF ProxyBecomes, TaskBecomes, Publishes

(* Identity: publish, bind first, or fail.                                 *)
LEMMA IdentityStep ==
    ASSUME TypeOK, NEW t \in Tasks, Identity(t)
    PROVE  /\ task[t].at = "identity"
           /\ \/ task[t].known = task[t].made /\ Publishes(t)
              \/ /\ \E a \in {"bind", "failed"} : To(t, a, task[t].known, task[t].made)
                 /\ Inside /\ InBounds /\ Noting({}) /\ UNCHANGED <<bound, box>>
<1>1. {"bind", "failed"} \subseteq Stages  BY DEF Stages, Ended
<1>2. ASSUME NEW a \in {"bind", "failed"}, Stage(t, a)
      PROVE  To(t, a, task[t].known, task[t].made)
  BY <1>1, <1>2, Staged
<1>3. InBounds  BY FaultTypes DEF Identity, InBounds, TypeOK
<1>4. /\ task[t].at = "identity" /\ UNCHANGED <<call, run, box, bound, runs, uses>>
      /\ \/ task[t].known = task[t].made /\ Publish(t)
         \/ /\ \E a \in {"bind", "failed"} : Stage(t, a)
            /\ UNCHANGED <<registry, proxy, work, causes>>
  BY DEF Identity, outside
<1>5. QED  BY <1>2, <1>3, <1>4, PublishStep DEF Inside, Noting

(* Bind: the thread is bound, or the answer is lost.                       *)
LEMMA BindStep ==
    ASSUME TypeOK, NEW t \in Tasks, Bind(t)
    PROVE  /\ task[t].at = "bind" /\ Inside /\ InBounds /\ UNCHANGED box
           /\ \/ /\ bound' = task[t].made /\ Noting({})
                 /\ To(t, "publish", task[t].known, task[t].made)
              \/ /\ To(t, "failed", task[t].known, task[t].made)
                 /\ \/ UNCHANGED bound /\ Noting({})
                    \/ bound' = task[t].made /\ Noting({"torn"})
<1>1. {"publish", "failed"} \subseteq Stages /\ "torn" \in Causes
  BY DEF Stages, Ended, Causes
<1>2. ASSUME NEW a \in {"publish", "failed"}, Stage(t, a)
      PROVE  To(t, a, task[t].known, task[t].made)
  BY <1>1, <1>2, Staged
<1>3. InBounds  BY FaultTypes DEF Bind, InBounds, TypeOK
<1>4. QED  BY <1>1, <1>2, <1>3 DEF Bind, Inside, Noting

(* Bound: what was bound is published.                                     *)
LEMMA BoundStep ==
    ASSUME TypeOK, NEW t \in Tasks, Bound(t)
    PROVE  task[t].at = "publish" /\ Publishes(t)
  BY PublishStep DEF Bound, outside, bounds, InBounds, TypeOK

-----------------------------------------------------------------------------
(* Steps of the coroutines and of the runs.                                *)

CallTo(c, a, k, p, t, b) ==
    /\ call' \in [Calls -> CallRecords] /\ \A d \in Calls \ {c} : call'[d] = call[d]
    /\ call'[c].at = a /\ call'[c].kind = k /\ call'[c].proxy = p
    /\ call'[c].task = t /\ call'[c].box = b
    /\ call'[c].inline \in {call[c].inline, Nil}

Leaves(c) == CallTo(c, "idle", "file", Nil, Nil, Nil)

ProxyTo(p, b, s, reconnect, lock) ==
    /\ proxy' \in [Proxies -> ProxyRecords] /\ \A q \in Proxies \ {p} : proxy'[q] = proxy[q]
    /\ proxy'[p].backend = b /\ proxy'[p].startup = s
    /\ proxy'[p].reconnect = reconnect /\ proxy'[p].lock = lock

TaskNew(t, a, k, inline, b) ==
    /\ t \in FreeTasks /\ t \in Tasks
    /\ task' \in [Tasks -> TaskRecords] /\ \A u \in Tasks \ {t} : task'[u] = task[u]
    /\ task'[t].at = a /\ task'[t].kind = k /\ task'[t].inline = inline
    /\ task'[t].known = Nil /\ task'[t].made = b /\ task'[t].result = Nil

(* A coroutine returns.                                                    *)
LEMMA CallLeaves ==
    ASSUME TypeOK, NEW c \in Calls, call' = [call EXCEPT ![c] = NoCall]
    PROVE  Leaves(c)
<1>1. /\ NoCall.at = "idle" /\ NoCall.kind = "file" /\ NoCall.proxy = Nil
      /\ NoCall.task = Nil /\ NoCall.box = Nil /\ NoCall.inline = Nil
  BY DEF NoCall
<1>2. CallBecomes(c, NoCall)  BY NoRecords, CallReplaced
<1>3. QED  BY <1>1, <1>2 DEF CallBecomes, Leaves, CallTo

(* It starts with a handle.                                                *)
LEMMA CallStarts ==
    ASSUME TypeOK, NEW c \in Calls, NEW kind \in Kinds, NEW p \in OrNil(Proxies),
           Started(c, kind, p)
    PROVE  call[c].at = "idle" /\ CallTo(c, "get", kind, p, Nil, Nil)
<1> DEFINE r == [NoCall EXCEPT !.at = "get", !.kind = kind, !.proxy = p]
<1>1. /\ r \in CallRecords /\ r.at = "get" /\ r.kind = kind /\ r.proxy = p /\ r.task = Nil
      /\ r.box = Nil /\ r.inline = Nil
  BY DEF CallRecords, NoCall, OrNil
<1>2. call' = [call EXCEPT ![c] = r]  BY DEF Started
<1> HIDE DEF r
<1>3. QED  BY <1>1, <1>2, CallReplaced DEF CallBecomes, CallTo, Started

(* It waits for a task.                                                    *)
LEMMA CallWaits ==
    ASSUME TypeOK, NEW c \in Calls, NEW t \in Tasks, Waits(c, t)
    PROVE  CallTo(c, "wait", call[c].kind, call[c].proxy, t, call[c].box)
<1> DEFINE r == [call[c] EXCEPT !.at = "wait", !.task = t]
<1>1. call[c] \in CallRecords  BY DEF TypeOK
<1>2. /\ r \in CallRecords /\ r.at = "wait" /\ r.kind = call[c].kind
      /\ r.proxy = call[c].proxy /\ r.task = t /\ r.box = call[c].box
      /\ r.inline = call[c].inline
  BY <1>1 DEF CallRecords, OrNil
<1>3. call' = [call EXCEPT ![c] = r]  BY DEF Waits
<1> HIDE DEF r
<1>4. QED  BY <1>2, <1>3, CallReplaced DEF CallBecomes, CallTo

(* It waits for the thread's metadata.                                     *)
LEMMA CallLooksUp ==
    ASSUME TypeOK, NEW c \in Calls, call' = [call EXCEPT ![c].at = "lookup"]
    PROVE  CallTo(c, "lookup", call[c].kind, call[c].proxy, call[c].task, call[c].box)
<1> DEFINE r == [call[c] EXCEPT !.at = "lookup"]
<1>1. call[c] \in CallRecords  BY DEF TypeOK
<1>2. /\ r \in CallRecords /\ r.at = "lookup" /\ r.kind = call[c].kind
      /\ r.proxy = call[c].proxy /\ r.task = call[c].task /\ r.box = call[c].box
      /\ r.inline = call[c].inline
  BY <1>1 DEF CallRecords
<1>3. call' = [call EXCEPT ![c] = r]  OBVIOUS
<1> HIDE DEF r
<1>4. QED  BY <1>2, <1>3, CallReplaced DEF CallBecomes, CallTo

(* It has the backend: a run is prepared, a tool uses it, an orphan ends.  *)
Returns(c, b) ==
    \/ /\ call[c].kind = "prepare" /\ Leaves(c)
       /\ run' \in RunRecords /\ run'.phase = "work"
       /\ run'.handle = run.handle /\ run'.inline = run.inline
    \/ call[c].kind = "orphan" /\ Leaves(c) /\ UNCHANGED run
    \/ /\ call[c].kind \notin {"prepare", "orphan"} /\ UNCHANGED run
       /\ CallTo(c, "use", call[c].kind, call[c].proxy, Nil, b)

(* Return says so.                                                         *)
LEMMA CallReturns ==
    ASSUME TypeOK, NEW c \in Calls, NEW b \in OrNil(Boxes), Return(c, b)
    PROVE  Returns(c, b)
<1>1. CASE call[c].kind = "prepare"
  <2> DEFINE r == [run EXCEPT !.phase = "work"]
  <2>1. run \in RunRecords  BY DEF TypeOK
  <2>2. /\ r \in RunRecords /\ r.phase = "work" /\ r.handle = run.handle
        /\ r.inline = run.inline
    BY <2>1 DEF RunRecords
  <2>3. run' = r /\ call' = [call EXCEPT ![c] = NoCall]  BY <1>1 DEF Return
  <2> HIDE DEF r
  <2>4. QED  BY <1>1, <2>2, <2>3, CallLeaves DEF Returns
<1>2. CASE call[c].kind = "orphan"
  BY <1>2, CallLeaves DEF Return, Returns
<1>3. CASE call[c].kind \notin {"prepare", "orphan"}
  <2> DEFINE r == [call[c] EXCEPT !.at = "use", !.box = b, !.task = Nil]
  <2>1. call[c] \in CallRecords  BY DEF TypeOK
  <2>2. /\ r \in CallRecords /\ r.at = "use" /\ r.kind = call[c].kind
        /\ r.proxy = call[c].proxy /\ r.task = Nil /\ r.box = b
        /\ r.inline = call[c].inline
    BY <2>1 DEF CallRecords, OrNil
  <2>3. UNCHANGED run /\ call' = [call EXCEPT ![c] = r]  BY <1>3 DEF Return
  <2> HIDE DEF r
  <2>4. CallBecomes(c, r)  BY <2>2, <2>3, CallReplaced
  <2>5. QED  BY <1>3, <2>2, <2>3, <2>4 DEF Returns, CallTo, CallBecomes
<1>4. QED  BY <1>1, <1>2, <1>3

(* It raises: a run that was being prepared is over.                       *)
Raises(c) ==
    /\ Leaves(c)
    /\ call[c].kind = "prepare" => run' = NoRun
    /\ call[c].kind # "prepare" => UNCHANGED run

(* Raise says so.                                                          *)
LEMMA CallRaises == ASSUME TypeOK, NEW c \in Calls, Raise(c) PROVE Raises(c)
  BY CallLeaves DEF Raise, Raises

(* A task is begun.                                                        *)
LEMMA TaskBegins ==
    ASSUME TypeOK, NEW t \in Tasks, NEW inline \in OrNil(Boxes), t \in FreeTasks,
           task' = [task EXCEPT ![t] = Ensuring(inline)]
    PROVE  TaskNew(t, "cached", "ensure", inline, Nil)
<1> DEFINE r == Ensuring(inline)
<1>1. /\ r \in TaskRecords /\ r.at = "cached" /\ r.kind = "ensure" /\ r.inline = inline
      /\ r.known = Nil /\ r.made = Nil /\ r.result = Nil
  BY DEF TaskRecords, Ensuring, NoTask, OrNil, Nil
<1> HIDE DEF r
<1>2. QED  BY <1>1, TaskReplaced DEF TaskBecomes, TaskNew, r

(* A recreation is begun.                                                  *)
LEMMA RecreationBegins ==
    ASSUME TypeOK, NEW t \in Tasks, NEW inline \in OrNil(Boxes), t \in FreeTasks,
           task' = [task EXCEPT ![t] = [Ensuring(inline) EXCEPT !.kind = "recreate"]]
    PROVE  TaskNew(t, "cached", "recreate", inline, Nil)
<1> DEFINE r == [Ensuring(inline) EXCEPT !.kind = "recreate"]
<1>1. /\ r \in TaskRecords /\ r.at = "cached" /\ r.kind = "recreate" /\ r.inline = inline
      /\ r.known = Nil /\ r.made = Nil /\ r.result = Nil
  BY DEF TaskRecords, Ensuring, NoTask, OrNil, Nil
<1> HIDE DEF r
<1>2. QED  BY <1>1, TaskReplaced DEF TaskBecomes, TaskNew, r

(* A task that attaches is begun.                                          *)
LEMMA AttachBegins ==
    ASSUME TypeOK, NEW t \in Tasks, NEW id \in Boxes, t \in FreeTasks,
           task' = [task EXCEPT ![t] =
               [NoTask EXCEPT !.at = "attach", !.kind = "attach", !.made = id]]
    PROVE  TaskNew(t, "attach", "attach", Nil, id)
<1> DEFINE r == [NoTask EXCEPT !.at = "attach", !.kind = "attach", !.made = id]
<1>1. /\ r \in TaskRecords /\ r.at = "attach" /\ r.kind = "attach" /\ r.inline = Nil
      /\ r.known = Nil /\ r.made = id /\ r.result = Nil
  BY DEF TaskRecords, NoTask, OrNil, Nil
<1> HIDE DEF r
<1>2. QED  BY <1>1, TaskReplaced DEF TaskBecomes, TaskNew, r

(* The config of the run that a coroutine runs in.                         *)
LEMMA InlineType == ASSUME TypeOK, NEW c \in Calls PROVE Inline(c) \in OrNil(Boxes)
<1>1. call[c] \in CallRecords  BY DEF TypeOK
<1>2. QED  BY <1>1 DEF TypeOK, Inline, RunRecords, CallRecords

(* A handle gets a task to wait for.                                       *)
LEMMA ProxyAwaits ==
    ASSUME TypeOK, NEW p \in Proxies, NEW t \in OrNil(Tasks), NEW lock \in BOOLEAN,
           \/ proxy' = [proxy EXCEPT ![p].lock = lock, ![p].startup = t]
           \/ lock = proxy[p].lock /\ proxy' = [proxy EXCEPT ![p].startup = t]
           \/ t = proxy[p].startup /\ proxy' = [proxy EXCEPT ![p].lock = lock]
    PROVE  ProxyTo(p, proxy[p].backend, t, proxy[p].reconnect, lock)
<1> DEFINE r == [proxy[p] EXCEPT !.lock = lock, !.startup = t]
<1>1. proxy[p] \in ProxyRecords /\ proxy \in [Proxies -> ProxyRecords]  BY DEF TypeOK
<1>2. /\ r \in ProxyRecords /\ r.lock = lock /\ r.startup = t
      /\ r.backend = proxy[p].backend /\ r.reconnect = proxy[p].reconnect
  BY <1>1 DEF ProxyRecords
<1>3. ASSUME lock = proxy[p].lock PROVE r = [proxy[p] EXCEPT !.startup = t]
  BY <1>1, <1>3 DEF ProxyRecords
<1>4. ASSUME t = proxy[p].startup PROVE r = [proxy[p] EXCEPT !.lock = lock]
  BY <1>1, <1>4 DEF ProxyRecords
<1>5. proxy' = [proxy EXCEPT ![p] = r]
  <2>1. CASE proxy' = [proxy EXCEPT ![p].lock = lock, ![p].startup = t]  BY <2>1
  <2>2. CASE lock = proxy[p].lock /\ proxy' = [proxy EXCEPT ![p].startup = t]
    BY <1>3, <2>2
  <2>3. CASE t = proxy[p].startup /\ proxy' = [proxy EXCEPT ![p].lock = lock]
    BY <1>4, <2>3
  <2>4. QED  BY <2>1, <2>2, <2>3
<1> HIDE DEF r
<1>6. QED  BY <1>2, <1>5, ProxyReplaced DEF ProxyBecomes, ProxyTo

(***************************************************************************)
(* Get: the backend is there, or a task is joined, or started, or an id is *)
(* looked up.                                                              *)
(***************************************************************************)
Elsewhere == UNCHANGED <<registry, bound, box, work, runs, uses, faults, causes>>

GetReady(c) ==
    LET p == call[c].proxy IN
    /\ proxy[p].backend # Nil /\ proxy[p].startup = Nil
    /\ Returns(c, proxy[p].backend) /\ UNCHANGED <<proxy, task>>

GetJoins(c) ==
    LET p == call[c].proxy IN
    /\ proxy[p].startup # Nil
    /\ CallTo(c, "wait", call[c].kind, p, proxy[p].startup, call[c].box)
    /\ UNCHANGED <<proxy, task, run>>

GetStarts(c, t) ==
    LET p == call[c].proxy IN
    /\ proxy[p].startup = Nil /\ proxy[p].backend = Nil /\ proxy[p].reconnect
    /\ TaskNew(t, "cached", "ensure", Inline(c), Nil)
    /\ ProxyTo(p, Nil, t, TRUE, proxy[p].lock)
    /\ CallTo(c, "wait", call[c].kind, p, t, call[c].box) /\ UNCHANGED run

GetLocks(c) ==
    LET p == call[c].proxy IN
    /\ proxy[p].startup = Nil /\ proxy[p].backend = Nil /\ ~proxy[p].reconnect
    /\ ProxyTo(p, Nil, Nil, FALSE, TRUE)
    /\ CallTo(c, "lookup", call[c].kind, p, call[c].task, call[c].box)
    /\ UNCHANGED <<task, run>>

(* These are the ways of Get.                                              *)
LEMMA GetStep ==
    ASSUME TypeOK, NEW c \in Calls, call[c].proxy \in Proxies, Get(c)
    PROVE  /\ call[c].at = "get" /\ Elsewhere
           /\ GetReady(c) \/ GetJoins(c) \/ (\E t \in Tasks : GetStarts(c, t)) \/ GetLocks(c)
<1> DEFINE p == call[c].proxy
           t == Least(FreeTasks)
<1>1. p \in Proxies /\ proxy[p] \in ProxyRecords  BY DEF TypeOK
<1>2. /\ proxy[p].backend \in OrNil(Boxes) /\ proxy[p].startup \in OrNil(Tasks)
      /\ proxy[p].reconnect \in BOOLEAN /\ proxy[p].lock \in BOOLEAN
  BY <1>1 DEF ProxyRecords
<1>3. call[c].at = "get" /\ Elsewhere  BY DEF Get, Elsewhere, outside, bounds
<1>4. \/ /\ proxy[p].backend # Nil /\ proxy[p].startup = Nil /\ Return(c, proxy[p].backend)
         /\ UNCHANGED <<proxy, task>>
      \/ /\ proxy[p].startup # Nil /\ Waits(c, proxy[p].startup)
         /\ UNCHANGED <<proxy, task, run>>
      \/ /\ proxy[p].startup = Nil /\ proxy[p].backend = Nil /\ proxy[p].reconnect
         /\ FreeTasks # {} /\ task' = [task EXCEPT ![t] = Ensuring(Inline(c))]
         /\ proxy' = [proxy EXCEPT ![p].startup = t] /\ Waits(c, t)
         /\ UNCHANGED run
      \/ /\ proxy[p].startup = Nil /\ proxy[p].backend = Nil /\ ~proxy[p].reconnect
         /\ proxy' = [proxy EXCEPT ![p].lock = TRUE]
         /\ call' = [call EXCEPT ![c].at = "lookup"]
         /\ UNCHANGED <<task, run>>
  BY DEF Get
<1>5. FreeTasks # {} => t \in FreeTasks /\ t \in Tasks  BY Chosen
<1> HIDE DEF p, t
<1>6. p = call[c].proxy  BY DEF p
<1>7. CASE /\ proxy[p].backend # Nil /\ proxy[p].startup = Nil /\ Return(c, proxy[p].backend)
           /\ UNCHANGED <<proxy, task>>
  BY <1>2, <1>3, <1>6, <1>7, CallReturns DEF GetReady
<1>8. CASE /\ proxy[p].startup # Nil /\ Waits(c, proxy[p].startup)
           /\ UNCHANGED <<proxy, task, run>>
  <2>1. proxy[p].startup \in Tasks  BY <1>2, <1>8 DEF OrNil
  <2>2. QED  BY <1>3, <1>6, <1>8, <2>1, CallWaits DEF GetJoins
<1>9. CASE /\ proxy[p].startup = Nil /\ proxy[p].backend = Nil /\ proxy[p].reconnect
           /\ FreeTasks # {} /\ task' = [task EXCEPT ![t] = Ensuring(Inline(c))]
           /\ proxy' = [proxy EXCEPT ![p].startup = t] /\ Waits(c, t)
           /\ UNCHANGED run
  <2>1. t \in FreeTasks /\ t \in Tasks /\ t \in OrNil(Tasks)  BY <1>5, <1>9 DEF OrNil
  <2>2. TaskNew(t, "cached", "ensure", Inline(c), Nil)  BY <1>9, <2>1, InlineType, TaskBegins
  <2>3. ProxyTo(p, proxy[p].backend, t, proxy[p].reconnect, proxy[p].lock)
    BY <1>1, <1>2, <1>9, <2>1, ProxyAwaits
  <2>4. ProxyTo(p, Nil, t, TRUE, proxy[p].lock)  BY <1>2, <1>9, <2>3
  <2>5. CallTo(c, "wait", call[c].kind, p, t, call[c].box)  BY <1>6, <1>9, <2>1, CallWaits
  <2>6. GetStarts(c, t)  BY <1>6, <1>9, <2>2, <2>4, <2>5 DEF GetStarts
  <2>7. QED  BY <1>3, <2>1, <2>6
<1>10. CASE /\ proxy[p].startup = Nil /\ proxy[p].backend = Nil /\ ~proxy[p].reconnect
            /\ proxy' = [proxy EXCEPT ![p].lock = TRUE]
            /\ call' = [call EXCEPT ![c].at = "lookup"]
            /\ UNCHANGED <<task, run>>
  <2>1. ProxyTo(p, proxy[p].backend, proxy[p].startup, proxy[p].reconnect, TRUE)
    BY <1>1, <1>2, <1>10, ProxyAwaits
  <2>2. ProxyTo(p, Nil, Nil, FALSE, TRUE)  BY <1>2, <1>10, <2>1
  <2>3. CallTo(c, "lookup", call[c].kind, p, call[c].task, call[c].box)
    BY <1>6, <1>10, CallLooksUp
  <2>4. QED  BY <1>3, <1>6, <1>10, <2>2, <2>3 DEF GetLocks
<1>11. QED  BY <1>4, <1>7, <1>8, <1>9, <1>10

(***************************************************************************)
(* Lookup: an id is read, and the handle gets a task that attaches to it.  *)
(***************************************************************************)
Changed(p) == proxy[p].backend # Nil \/ proxy[p].startup # Nil

LookupRaises(c, id) ==
    LET p == call[c].proxy IN
    /\ id = Nil /\ Raises(c) /\ UNCHANGED task
    /\ ProxyTo(p, proxy[p].backend, proxy[p].startup, proxy[p].reconnect, FALSE)

LookupAttaches(c, id, t) ==
    LET p == call[c].proxy IN
    /\ id \in Boxes /\ TaskNew(t, "attach", "attach", Nil, id) /\ UNCHANGED run
    /\ ProxyTo(p, proxy[p].backend, t, proxy[p].reconnect, FALSE)
    /\ CallTo(c, "wait", call[c].kind, p, t, call[c].box)

(* These are the ways of Lookup.                                           *)
LEMMA LookupStep ==
    ASSUME TypeOK, NEW c \in Calls, call[c].proxy \in Proxies, Lookup(c)
    PROVE  /\ call[c].at = "lookup" /\ UNCHANGED <<registry, bound, box, work, runs, uses>>
           /\ InBounds
           /\ \E id \in OrNil(Boxes) :
                 /\ Reads(Inline(c), id, When(Changed(call[c].proxy), "raced"))
                 /\ LookupRaises(c, id) \/ \E t \in Tasks : LookupAttaches(c, id, t)
<1> DEFINE p == call[c].proxy
           t == Least(FreeTasks)
<1>1. p \in Proxies /\ proxy[p] \in ProxyRecords  BY DEF TypeOK
<1>2. proxy[p].startup \in OrNil(Tasks) /\ proxy[p].lock \in BOOLEAN
  BY <1>1 DEF ProxyRecords
<1>3. call[c].at = "lookup" /\ UNCHANGED <<registry, bound, box, work, runs, uses>>
  BY DEF Lookup, outside
<1>4. PICK id \in OrNil(Boxes) :
          /\ ReadId(Inline(c), id, When(Changed(p), "raced"))
          /\ \/ /\ id = Nil /\ Raise(c)
                /\ proxy' = [proxy EXCEPT ![p].lock = FALSE]
                /\ UNCHANGED task
             \/ /\ id # Nil /\ FreeTasks # {} /\ Waits(c, t)
                /\ task' = [task EXCEPT ![t] =
                       [NoTask EXCEPT !.at = "attach", !.kind = "attach", !.made = id]]
                /\ proxy' = [proxy EXCEPT ![p].lock = FALSE, ![p].startup = t]
                /\ UNCHANGED run
  BY DEF Lookup, Changed
<1>5. FreeTasks # {} => t \in FreeTasks /\ t \in Tasks  BY Chosen
<1>6. When(Changed(p), "raced") \subseteq Causes  BY DEF When, Causes
<1>7. Reads(Inline(c), id, When(Changed(p), "raced")) /\ InBounds  BY <1>4, <1>6, ReadIdStep
<1>8. p = call[c].proxy  OBVIOUS
<1> HIDE DEF p, t
<1>9. CASE /\ id = Nil /\ Raise(c)
           /\ proxy' = [proxy EXCEPT ![p].lock = FALSE]
           /\ UNCHANGED task
  <2>1. ProxyTo(p, proxy[p].backend, proxy[p].startup, proxy[p].reconnect, FALSE)
    BY <1>1, <1>2, <1>9, ProxyAwaits
  <2>2. LookupRaises(c, id)  BY <1>8, <1>9, <2>1, CallRaises DEF LookupRaises
  <2>3. QED  BY <1>3, <1>7, <1>8, <2>2
<1>10. CASE /\ id # Nil /\ FreeTasks # {} /\ Waits(c, t)
            /\ task' = [task EXCEPT ![t] =
                   [NoTask EXCEPT !.at = "attach", !.kind = "attach", !.made = id]]
            /\ proxy' = [proxy EXCEPT ![p].lock = FALSE, ![p].startup = t]
            /\ UNCHANGED run
  <2>1. t \in FreeTasks /\ t \in Tasks /\ t \in OrNil(Tasks) /\ id \in Boxes
    BY <1>4, <1>5, <1>10 DEF OrNil
  <2>2. TaskNew(t, "attach", "attach", Nil, id)  BY <1>10, <2>1, AttachBegins
  <2>3. ProxyTo(p, proxy[p].backend, t, proxy[p].reconnect, FALSE)
    BY <1>1, <1>2, <1>10, <2>1, ProxyAwaits
  <2>4. CallTo(c, "wait", call[c].kind, p, t, call[c].box)  BY <1>8, <1>10, <2>1, CallWaits
  <2>5. LookupAttaches(c, id, t)  BY <1>8, <1>10, <2>1, <2>2, <2>3, <2>4 DEF LookupAttaches
  <2>6. QED  BY <1>3, <1>7, <1>8, <2>1, <2>5
<1>11. QED  BY <1>4, <1>9, <1>10

(***************************************************************************)
(* Ready: the task has ended, and its backend is installed if the handle   *)
(* still waits for it.                                                     *)
(***************************************************************************)
Ends(c, b) ==
    /\ b = Nil => Raises(c)
    /\ b # Nil => Returns(c, b)

ReadyMine(c, b) ==
    LET p == call[c].proxy IN
    /\ proxy[p].startup = call[c].task /\ b = Outcome(call[c].task)
    /\ ProxyTo(p, b, Nil, proxy[p].reconnect, proxy[p].lock) /\ registry' = p
    /\ Noting(When(registry \notin {Nil, p}, "returned") \union When(registry = Nil, "revived"))

ReadyLate(c, b) ==
    /\ proxy[call[c].proxy].startup # call[c].task /\ b = proxy[call[c].proxy].backend
    /\ UNCHANGED <<proxy, registry>> /\ Noting({})

(* These are the ways of Ready.                                            *)
LEMMA ReadyStep ==
    ASSUME TypeOK, NEW c \in Calls, call[c].proxy \in Proxies, call[c].task \in Tasks,
           Outcome(call[c].task) \in OrNil(Boxes), Ready(c)
    PROVE  /\ call[c].at = "wait" /\ call[c].kind # "recreate" /\ task[call[c].task].at = "done"
           /\ UNCHANGED <<task, bound, box, work, runs, uses, faults>>
           /\ \E b \in OrNil(Boxes) : Ends(c, b) /\ (ReadyMine(c, b) \/ ReadyLate(c, b))
<1> DEFINE p == call[c].proxy
           t == call[c].task
           b == IF proxy[p].startup = t THEN Outcome(t) ELSE proxy[p].backend
<1>1. p \in Proxies /\ t \in Tasks /\ proxy[p] \in ProxyRecords  BY DEF TypeOK
<1>2. b \in OrNil(Boxes)  BY <1>1 DEF ProxyRecords
<1>3. /\ call[c].at = "wait" /\ call[c].kind # "recreate" /\ task[call[c].task].at = "done"
      /\ UNCHANGED <<task, bound, box, work, runs, uses, faults>>
  BY DEF Ready, outside, bounds
<1>4. /\ IF proxy[p].startup = t
         THEN /\ proxy' = [proxy EXCEPT ![p].backend = b, ![p].startup = Nil]
              /\ registry' = p
              /\ causes' = causes \union When(registry \notin {Nil, p}, "returned")
                                 \union When(registry = Nil, "revived")
         ELSE UNCHANGED <<proxy, registry, causes>>
      /\ IF b = Nil THEN Raise(c) ELSE Return(c, b)
  BY DEF Ready
<1>5. proxy[p].startup = t => b = Outcome(t)  OBVIOUS
<1>6. proxy[p].startup # t => b = proxy[p].backend  OBVIOUS
<1>7. p = call[c].proxy /\ t = call[c].task  OBVIOUS
<1> HIDE DEF p, t, b
<1>8. Ends(c, b)  BY <1>2, <1>4, CallRaises, CallReturns DEF Ends
<1>9. ReadyMine(c, b) \/ ReadyLate(c, b)
  <2>1. CASE proxy[p].startup = t
    <3> DEFINE r == [proxy[p] EXCEPT !.backend = b, !.startup = Nil]
    <3>1. /\ r \in ProxyRecords /\ r.backend = b /\ r.startup = Nil
          /\ r.reconnect = proxy[p].reconnect /\ r.lock = proxy[p].lock
      BY <1>1, <1>2 DEF ProxyRecords, OrNil
    <3>2. proxy' = [proxy EXCEPT ![p] = r]  BY <1>4, <2>1
    <3> HIDE DEF r
    <3>3. ProxyTo(p, b, Nil, proxy[p].reconnect, proxy[p].lock)
      BY <1>1, <3>1, <3>2, ProxyReplaced DEF ProxyBecomes, ProxyTo
    <3>4. {"returned", "revived"} \subseteq Causes  BY DEF Causes
    <3>5. Noting(When(registry \notin {Nil, p}, "returned") \union When(registry = Nil, "revived"))
      BY <1>4, <2>1, <3>4 DEF Noting, When
    <3>6. QED  BY <1>4, <1>5, <1>7, <2>1, <3>3, <3>5 DEF ReadyMine
  <2>2. CASE proxy[p].startup # t
    BY <1>4, <1>6, <1>7, <2>2 DEF ReadyLate, Noting
  <2>3. QED  BY <2>1, <2>2
<1>10. QED  BY <1>2, <1>3, <1>8, <1>9

(***************************************************************************)
(* A failing tool drops the registry's handle, and cancels its task.       *)
(***************************************************************************)
Cancels(t) ==
    /\ registry # Nil /\ proxy[registry].startup = t /\ ~Over(t)
    /\ TaskBecomes(t, Cancelled) /\ Noting(When(task[t].at = "publish", "torn"))

Drops ==
    /\ registry' = Nil
    /\ \/ /\ UNCHANGED task /\ Noting({})
          /\ registry # Nil /\ proxy[registry].startup # Nil => Over(proxy[registry].startup)
       \/ \E t \in Tasks : Cancels(t)

(* Clear does that.                                                        *)
LEMMA ClearStep == ASSUME TypeOK, Clear PROVE Drops
<1> DEFINE t == Kept.startup
<1>1. registry \in OrNil(Proxies)  BY DEF TypeOK
<1>2. registry = Nil => t = Nil  BY DEF Kept, NoProxy
<1>3. registry # Nil => t = proxy[registry].startup /\ t \in OrNil(Tasks)
  BY <1>1 DEF Kept, OrNil, TypeOK, ProxyRecords
<1>4. /\ registry' = Nil
      /\ task' = IF t # Nil /\ ~Over(t) THEN [task EXCEPT ![t] = Cancelled] ELSE task
      /\ causes' = causes \union When((t # Nil /\ ~Over(t)) /\ task[t].at = "publish", "torn")
  BY DEF Clear, Cancelled
<1> HIDE DEF t
<1>5. CASE t # Nil /\ ~Over(t)
  <2>1. registry # Nil /\ t \in Tasks /\ proxy[registry].startup = t
    BY <1>2, <1>3, <1>5 DEF OrNil
  <2>2. TaskBecomes(t, Cancelled)  BY <1>4, <1>5, <2>1, CancelledTask, TaskReplaced
  <2>3. "torn" \in Causes  BY DEF Causes
  <2>4. Noting(When(task[t].at = "publish", "torn"))  BY <1>4, <1>5, <2>3 DEF Noting, When
  <2>5. Cancels(t)  BY <1>5, <2>1, <2>2, <2>4 DEF Cancels
  <2>6. QED  BY <1>4, <2>1, <2>5 DEF Drops
<1>6. CASE ~(t # Nil /\ ~Over(t))
  <2>1. UNCHANGED task /\ Noting({})  BY <1>4, <1>6 DEF Noting, When
  <2>2. registry # Nil /\ proxy[registry].startup # Nil => Over(proxy[registry].startup)
    BY <1>3, <1>6
  <2>3. QED  BY <1>4, <2>1, <2>2 DEF Drops
<1>7. QED  BY <1>5, <1>6

Untouched == UNCHANGED <<registry, task>> /\ Noting({})

(* NotReady: the task has failed, and the handle no longer waits for it.   *)
LEMMA NotReadyStep ==
    ASSUME TypeOK, NEW c \in Calls, call[c].proxy \in Proxies, NotReady(c)
    PROVE  LET p == call[c].proxy
               t == call[c].task
           IN
           /\ call[c].at = "wait" /\ call[c].kind # "recreate"
           /\ task[t].at \in Ended \ {"done"} /\ Raises(c)
           /\ UNCHANGED <<bound, box, work, runs, uses, faults>>
           /\ \E s \in {proxy[p].startup, Nil} :
                 /\ ProxyTo(p, proxy[p].backend, s, proxy[p].reconnect, proxy[p].lock)
                 /\ s # proxy[p].startup => proxy[p].startup = t
           /\ Untouched \/ (Clears(c) /\ Drops)
<1> DEFINE p == call[c].proxy
           t == call[c].task
           s == IF proxy[p].startup = t THEN Nil ELSE proxy[p].startup
<1>1. p \in Proxies /\ proxy[p] \in ProxyRecords  BY DEF TypeOK
<1>2. s \in OrNil(Tasks) /\ proxy[p].lock \in BOOLEAN  BY <1>1 DEF ProxyRecords, OrNil
<1>3. s \in {proxy[p].startup, Nil} /\ (s # proxy[p].startup => proxy[p].startup = t)
  OBVIOUS
<1>4. /\ call[c].at = "wait" /\ call[c].kind # "recreate"
      /\ task[t].at \in Ended \ {"done"} /\ Raise(c)
      /\ UNCHANGED <<bound, box, work, runs, uses, faults>>
      /\ proxy' = [proxy EXCEPT ![p].startup = IF @ = t THEN Nil ELSE @]
      /\ (registry' = registry /\ task' = task /\ causes' = causes) \/ (Clears(c) /\ Clear)
  <2> HIDE DEF s
  <2>1. QED  BY DEF NotReady, outside, bounds
<1>5. proxy' = [proxy EXCEPT ![p].startup = s]  BY <1>4
<1> HIDE DEF s
<1>6. ProxyTo(p, proxy[p].backend, s, proxy[p].reconnect, proxy[p].lock)
  BY <1>1, <1>2, <1>5, ProxyAwaits
<1>7. Raises(c)  BY <1>4, CallRaises
<1>8. Untouched \/ (Clears(c) /\ Drops)  BY <1>4, ClearStep DEF Untouched, Noting
<1>9. QED  BY <1>3, <1>4, <1>6, <1>7, <1>8

(* Use: the operation succeeds, and a tool may go on.                      *)
LEMMA UseStep ==
    ASSUME TypeOK, NEW c \in Calls, Use(c)
    PROVE  /\ call[c].at = "use" /\ Alive(call[c].box)
           /\ work' = (IF call[c].kind = "mirror" THEN work ELSE call[c].box)
           /\ \/ Leaves(c)
              \/ /\ call[c].kind # "file"
                 /\ CallTo(c, "get", call[c].kind, call[c].proxy, call[c].task, Nil)
           /\ UNCHANGED <<registry, proxy, task, run, bound, box, runs, uses, faults, causes>>
<1> DEFINE r == [call[c] EXCEPT !.at = "get", !.box = Nil]
<1>1. call[c] \in CallRecords  BY DEF TypeOK
<1>2. /\ r \in CallRecords /\ r.at = "get" /\ r.kind = call[c].kind
      /\ r.proxy = call[c].proxy /\ r.task = call[c].task /\ r.box = Nil
      /\ r.inline = call[c].inline
  BY <1>1 DEF CallRecords, OrNil
<1>3. /\ call[c].at = "use" /\ Alive(call[c].box)
      /\ work' = (IF call[c].kind = "mirror" THEN work ELSE call[c].box)
      /\ \/ call' = [call EXCEPT ![c] = NoCall]
         \/ call[c].kind # "file" /\ call' = [call EXCEPT ![c] = r]
      /\ UNCHANGED <<registry, proxy, task, run, bound, box, runs, uses, faults, causes>>
  BY DEF Use, outside, bounds
<1> HIDE DEF r
<1>4. ASSUME call' = [call EXCEPT ![c] = r]
      PROVE  CallTo(c, "get", call[c].kind, call[c].proxy, call[c].task, Nil)
  BY <1>2, <1>4, CallReplaced DEF CallBecomes, CallTo
<1>5. QED  BY <1>3, <1>4, CallLeaves

(* UseFails: it does not, and a tool's error may drop the handle.          *)
LEMMA UseFailsStep ==
    ASSUME TypeOK, NEW c \in Calls, UseFails(c)
    PROVE  /\ call[c].at = "use" /\ InBounds /\ Leaves(c)
           /\ Untouched \/ (Clears(c) /\ Drops)
           /\ UNCHANGED <<proxy, run, bound, box, work, runs, uses>>
<1>1. InBounds  BY FaultTypes DEF UseFails, InBounds, TypeOK
<1>2. (registry' = registry /\ task' = task /\ causes' = causes) \/ (Clears(c) /\ Clear)
  BY DEF UseFails
<1>3. Untouched \/ (Clears(c) /\ Drops)  BY <1>2, ClearStep DEF Untouched, Noting
<1>4. Leaves(c)  BY CallLeaves DEF UseFails
<1>5. QED  BY <1>1, <1>3, <1>4 DEF UseFails, outside

(* Recreated: the tool has its answer.                                     *)
LEMMA RecreatedStep ==
    ASSUME TypeOK, NEW c \in Calls, Recreated(c)
    PROVE  /\ call[c].at = "wait" /\ call[c].kind = "recreate"
           /\ task[call[c].task].at \in Ended /\ Leaves(c)
           /\ UNCHANGED <<registry, proxy, task, run, bound, box, work, runs, uses, faults, causes>>
  BY CallLeaves DEF Recreated, outside, bounds

(* Recreate: a tool that asks for another sandbox.                         *)
LEMMA RecreateStep ==
    ASSUME TypeOK, NEW c \in Calls, Recreate(c)
    PROVE  /\ call[c].at = "idle" /\ run.phase = "work" /\ uses' \in 0..MaxUses
           /\ UNCHANGED <<registry, proxy, run, bound, box, work, runs, faults, causes>>
           /\ \E t \in Tasks :
                 /\ TaskNew(t, "cached", "recreate", run.inline, Nil)
                 /\ CallTo(c, "wait", "recreate", Nil, t, Nil)
<1> DEFINE t == Least(FreeTasks)
           r == [NoCall EXCEPT !.at = "wait", !.kind = "recreate", !.task = t]
<1>1. /\ call[c].at = "idle" /\ run.phase = "work" /\ FreeTasks # {} /\ Counted
      /\ task' = [task EXCEPT ![t] = [Ensuring(run.inline) EXCEPT !.kind = "recreate"]]
      /\ call' = [call EXCEPT ![c] = r]
      /\ UNCHANGED <<registry, proxy, run, bound, box, work, runs, faults, causes>>
  BY DEF Recreate, outside
<1>2. t \in FreeTasks /\ t \in Tasks  BY <1>1, Chosen
<1> HIDE DEF t
<1>3. run.inline \in OrNil(Boxes)  BY DEF TypeOK, RunRecords
<1>4. TaskNew(t, "cached", "recreate", run.inline, Nil)
  BY <1>1, <1>2, <1>3, RecreationBegins
<1>5. /\ r \in CallRecords /\ r.at = "wait" /\ r.kind = "recreate" /\ r.proxy = Nil
      /\ r.task = t /\ r.box = Nil /\ r.inline = Nil
  BY <1>2 DEF CallRecords, NoCall, Kinds, OrNil, Nil
<1> HIDE DEF r
<1>6. CallTo(c, "wait", "recreate", Nil, t, Nil)
  BY <1>1, <1>5, CallReplaced DEF CallBecomes, CallTo
<1>7. QED  BY <1>1, <1>2, <1>4, <1>6, UseTypes

(***************************************************************************)
(* The registry's handle is taken: as it is, or new.                       *)
(***************************************************************************)
Takes(b, s, reconnect, lock) ==
    /\ HandleExists /\ Handle \in Proxies /\ registry' = Handle
    /\ ProxyTo(Handle, b, s, reconnect, lock)
    /\ registry # Nil => Handle = registry /\ Kept = proxy[registry]
    /\ registry = Nil => Handle \in FreeProxies /\ Kept = NoProxy

(* Start: the preparation, a tool that asks the registry, the dashboard.   *)
LEMMA StartStep ==
    ASSUME TypeOK, NEW c \in Calls, NEW kind \in Kinds, Start(c, kind)
    PROVE  /\ call[c].at = "idle" /\ CallTo(c, "get", kind, Handle, Nil, Nil)
           /\ Takes(Kept.backend, Kept.startup, Kept.reconnect, Kept.lock)
           /\ kind \in {"prepare", "tool", "mirror"}
           /\ kind = "prepare" => run.phase = "prepare" /\ \A d \in Calls : ~InRun(d)
           /\ kind = "tool" => run.phase = "work"
           /\ uses' \in 0..MaxUses
           /\ UNCHANGED <<task, run, bound, box, work, runs, faults, causes>>
<1>1. /\ Started(c, kind, Handle) /\ HandleExists
      /\ registry' = Handle /\ proxy' = [proxy EXCEPT ![Handle] = Kept]
      /\ UNCHANGED <<task, run, bound, box, work, runs, faults, causes>>
  BY DEF Start, outside
<1>2. /\ kind \in {"prepare", "tool", "mirror"}
      /\ kind = "prepare" => run.phase = "prepare" /\ \A d \in Calls : ~InRun(d)
      /\ kind = "tool" => run.phase = "work"
      /\ uses' = uses \/ Counted
  BY DEF Start
<1>3. /\ Handle \in Proxies /\ Kept \in ProxyRecords
      /\ registry # Nil => Handle = registry /\ Kept = proxy[registry]
      /\ registry = Nil => Handle \in FreeProxies /\ Kept = NoProxy
  BY <1>1, HandleTaken
<1>4. ProxyBecomes(Handle, Kept)  BY <1>1, <1>3, ProxyReplaced
<1>5. Takes(Kept.backend, Kept.startup, Kept.reconnect, Kept.lock)
  BY <1>1, <1>3, <1>4 DEF Takes, ProxyBecomes, ProxyTo
<1>6. Handle \in OrNil(Proxies)  BY <1>3 DEF OrNil
<1>7. call[c].at = "idle" /\ CallTo(c, "get", kind, Handle, Nil, Nil)
  BY <1>1, <1>6, CallStarts
<1>8. uses' \in 0..MaxUses  BY <1>2, UseTypes DEF TypeOK
<1>9. QED  BY <1>1, <1>2, <1>5, <1>7, <1>8

(* StartFile: a tool that uses the handle of its run.                      *)
LEMMA StartFileStep ==
    ASSUME TypeOK, NEW c \in Calls, StartFile(c)
    PROVE  /\ call[c].at = "idle" /\ CallTo(c, "get", "file", run.handle, Nil, Nil)
           /\ run.phase = "work" /\ uses' \in 0..MaxUses
           /\ UNCHANGED <<registry, proxy, task, run, bound, box, work, runs, faults, causes>>
<1>1. run.handle \in OrNil(Proxies) /\ "file" \in Kinds  BY DEF TypeOK, RunRecords, Kinds
<1>2. QED  BY <1>1, CallStarts, UseTypes DEF StartFile, outside

(***************************************************************************)
(* Begin: a run joins the startup of the registry's handle, or starts it.  *)
(***************************************************************************)
Joins(t) == Kept.startup = t /\ task[t].at # "cancelled" /\ UNCHANGED task

StartsUp(t, inline) ==
    /\ Kept.startup # Nil => Kept.startup \in Tasks /\ task[Kept.startup].at = "cancelled"
    /\ TaskNew(t, "cached", "ensure", inline, Nil)

(* Begin does one of the two.                                              *)
LEMMA BeginStep ==
    ASSUME TypeOK, Begin
    PROVE  /\ run.phase = "none" /\ runs' \in 0..MaxRuns
           /\ UNCHANGED <<call, bound, box, work, uses, faults, causes>>
           /\ \E t \in Tasks, inline \in {Nil, bound} :
                 /\ Takes(Kept.backend, t, TRUE, Kept.lock)
                 /\ Joins(t) \/ StartsUp(t, inline)
                 /\ run' \in RunRecords /\ run'.phase = "prepare"
                 /\ run'.handle = Handle /\ run'.inline = inline
<1> DEFINE started == Kept.startup # Nil /\ task[Kept.startup].at # "cancelled"
           t == IF started THEN Kept.startup ELSE Least(FreeTasks)
<1>1. /\ run.phase = "none" /\ HandleExists /\ (started \/ FreeTasks # {})
      /\ runs < MaxRuns /\ runs' = runs + 1 /\ registry' = Handle
      /\ proxy' = [proxy EXCEPT ![Handle] = [Kept EXCEPT !.reconnect = TRUE, !.startup = t]]
      /\ UNCHANGED <<call, bound, box, work, uses, faults, causes>>
  BY DEF Begin, outside
<1>2. PICK inline \in {Nil, bound} :
          /\ run' = [phase |-> "prepare", handle |-> Handle, inline |-> inline]
          /\ task' = IF started THEN task ELSE [task EXCEPT ![t] = Ensuring(inline)]
  BY DEF Begin
<1>3. /\ Handle \in Proxies /\ Kept \in ProxyRecords
      /\ registry # Nil => Handle = registry /\ Kept = proxy[registry]
      /\ registry = Nil => Handle \in FreeProxies /\ Kept = NoProxy
  BY <1>1, HandleTaken
<1>4. Kept.startup \in OrNil(Tasks)  BY <1>3 DEF ProxyRecords
<1>5. t \in Tasks /\ (~started => t \in FreeTasks)  BY <1>1, <1>4, Chosen DEF OrNil
<1>6. started => t = Kept.startup  OBVIOUS
<1> HIDE DEF t
<1>7. Takes(Kept.backend, t, TRUE, Kept.lock)
  <2> DEFINE r == [Kept EXCEPT !.reconnect = TRUE, !.startup = t]
  <2>1. /\ r \in ProxyRecords /\ r.backend = Kept.backend /\ r.startup = t
        /\ r.reconnect = TRUE /\ r.lock = Kept.lock
    BY <1>3, <1>5 DEF ProxyRecords, OrNil
  <2>2. proxy' = [proxy EXCEPT ![Handle] = r]  BY <1>1
  <2> HIDE DEF r
  <2>3. ProxyTo(Handle, Kept.backend, t, TRUE, Kept.lock)
    BY <1>3, <2>1, <2>2, ProxyReplaced DEF ProxyBecomes, ProxyTo
  <2>4. QED  BY <1>1, <1>3, <2>3 DEF Takes
<1>8. inline \in OrNil(Boxes)  BY DEF TypeOK, OrNil
<1>9. Joins(t) \/ StartsUp(t, inline)
  <2>1. CASE started  BY <1>2, <1>6, <2>1 DEF Joins
  <2>2. CASE ~started
    <3>1. TaskNew(t, "cached", "ensure", inline, Nil)
      BY <1>2, <1>5, <1>8, <2>2, TaskBegins
    <3>2. QED  BY <1>4, <2>2, <3>1 DEF StartsUp, OrNil
  <2>3. QED  BY <2>1, <2>2
<1>10. /\ run' \in RunRecords /\ run'.phase = "prepare"
       /\ run'.handle = Handle /\ run'.inline = inline
  BY <1>2, <1>3, <1>8 DEF RunRecords, OrNil
<1>11. runs' \in 0..MaxRuns  BY <1>1, BoundsAssumption DEF TypeOK
<1>12. QED  BY <1>1, <1>5, <1>7, <1>9, <1>10, <1>11

(***************************************************************************)
(* Interrupt: the run's coroutines and recreations are cancelled, and a    *)
(* handle may forget a startup that has ended.                             *)
(***************************************************************************)
Forgets(p) ==
    /\ proxy'[p].backend = proxy[p].backend /\ proxy'[p].reconnect = proxy[p].reconnect
    /\ \/ proxy'[p].startup = proxy[p].startup
       \/ /\ proxy'[p].startup = Nil /\ proxy[p].startup \in Tasks
          /\ task[proxy[p].startup].at \in Ended

Interrupts ==
    /\ run.phase # "none" /\ run' = NoRun
    /\ call' \in [Calls -> CallRecords]
    /\ \A c \in Calls : /\ InRun(c) => call'[c] = NoCall
                        /\ ~InRun(c) => call'[c] = call[c]
    /\ task' \in [Tasks -> TaskRecords]
    /\ \A t \in Tasks :
          /\ task[t].kind = "recreate" /\ ~Over(t) => task'[t] = Cancelled
          /\ ~(task[t].kind = "recreate" /\ ~Over(t)) => task'[t] = task[t]
    /\ proxy' \in [Proxies -> ProxyRecords] /\ \A p \in Proxies : Forgets(p)
    /\ Noting(When(Rebinding, "torn"))
    /\ UNCHANGED <<registry, bound, box, work, runs, uses, faults>>

(* Interrupt does that, to waiters that have a task.                       *)
LEMMA InterruptStep ==
    ASSUME TypeOK, \A c \in Calls : call[c].at = "wait" => call[c].task \in Tasks, Interrupt
    PROVE  Interrupts
<1> DEFINE hit == {c \in Calls : InRun(c)}
           cut == {t \in Tasks : task[t].kind = "recreate" /\ ~Over(t)}
           unlocked(p) == \E c \in hit : call[c].at = "lookup" /\ call[c].proxy = p
           dropped(p) == \E c \in hit :
               /\ call[c].at = "wait" /\ call[c].proxy = p
               /\ call[c].task = proxy[p].startup /\ task[call[c].task].at \in Ended
<1>1. /\ run.phase # "none" /\ run' = NoRun
      /\ UNCHANGED <<registry, bound, box, work, runs, uses, faults>>
      /\ causes' = causes \union When(Rebinding, "torn")
      /\ call' = [c \in Calls |-> IF c \in hit THEN NoCall ELSE call[c]]
      /\ task' = [t \in Tasks |-> IF t \in cut THEN Cancelled ELSE task[t]]
      /\ proxy' = [p \in Proxies |->
             [proxy[p] EXCEPT !.lock = @ /\ ~unlocked(p),
                              !.startup = IF dropped(p) THEN Nil ELSE @]]
  BY DEF Interrupt, outside, bounds, Cancelled
<1>2. /\ call' \in [Calls -> CallRecords]
      /\ \A c \in Calls : /\ InRun(c) => call'[c] = NoCall
                          /\ ~InRun(c) => call'[c] = call[c]
  BY <1>1, NoRecords DEF TypeOK
<1>3. /\ task' \in [Tasks -> TaskRecords]
      /\ \A t \in Tasks :
            /\ task[t].kind = "recreate" /\ ~Over(t) => task'[t] = Cancelled
            /\ ~(task[t].kind = "recreate" /\ ~Over(t)) => task'[t] = task[t]
  BY <1>1, CancelledTask DEF TypeOK
<1>4. ASSUME NEW p \in Proxies
      PROVE  proxy'[p] \in ProxyRecords /\ Forgets(p)
  <2> DEFINE lock == proxy[p].lock /\ ~unlocked(p)
             s == IF dropped(p) THEN Nil ELSE proxy[p].startup
             r == [proxy[p] EXCEPT !.lock = lock, !.startup = s]
  <2>1. proxy[p] \in ProxyRecords  BY DEF TypeOK
  <2>2. lock \in BOOLEAN /\ s \in OrNil(Tasks)  BY <2>1 DEF ProxyRecords, OrNil
  <2>3. proxy'[p] = r  BY <1>1
  <2>4. \/ s = proxy[p].startup
        \/ s = Nil /\ proxy[p].startup \in Tasks /\ task[proxy[p].startup].at \in Ended
    OBVIOUS
  <2> HIDE DEF lock, s
  <2>5. /\ r \in ProxyRecords /\ r.startup = s /\ r.backend = proxy[p].backend
        /\ r.reconnect = proxy[p].reconnect
    BY <2>1, <2>2 DEF ProxyRecords
  <2> HIDE DEF r
  <2>6. QED  BY <2>3, <2>4, <2>5 DEF Forgets
<1>5. proxy' \in [Proxies -> ProxyRecords]
  <2>1. proxy' = [p \in Proxies |-> proxy'[p]]  BY <1>1
  <2>2. QED  BY <1>4, <2>1
<1>6. Noting(When(Rebinding, "torn"))  BY <1>1 DEF Noting, When, Causes
<1>7. QED  BY <1>1, <1>2, <1>3, <1>4, <1>5, <1>6 DEF Interrupts

(* Crash: all that was in memory is gone.                                  *)
LEMMA CrashStep ==
    ASSUME TypeOK, Crash
    PROVE  /\ registry' = Nil /\ run' = NoRun
           /\ call' \in [Calls -> CallRecords] /\ \A c \in Calls : call'[c] = NoCall
           /\ task' \in [Tasks -> TaskRecords] /\ \A t \in Tasks : task'[t] = NoTask
           /\ proxy' \in [Proxies -> ProxyRecords] /\ \A p \in Proxies : proxy'[p] = NoProxy
           /\ Noting(When(Rebinding, "torn")) /\ InBounds
           /\ UNCHANGED <<bound, box, work, runs, uses>>
<1>1. InBounds  BY FaultTypes DEF Crash, InBounds
<1>2. Noting(When(Rebinding, "torn"))  BY DEF Crash, Noting, When, Causes
<1>3. QED  BY <1>1, <1>2, NoRecords DEF Crash, outside

(* Finish and Delete.                                                      *)
LEMMA FinishStep ==
    ASSUME TypeOK, Finish
    PROVE  /\ run.phase = "work" /\ run' = NoRun /\ \A c \in Calls : ~InRun(c)
           /\ UNCHANGED <<registry, proxy, task, call, bound, box, work, runs, uses, faults, causes>>
  BY DEF Finish, memory, outside, bounds

(***************************************************************************)
(* IdentityFails: the run is over, and its preparation an orphan.          *)
(***************************************************************************)
Orphans(c) ==
    /\ call' \in [Calls -> CallRecords] /\ \A d \in Calls \ {c} : call'[d] = call[d]
    /\ call'[c].at = call[c].at /\ call'[c].kind = "orphan"
    /\ call'[c].proxy = call[c].proxy /\ call'[c].task = call[c].task
    /\ call'[c].box = call[c].box /\ call'[c].inline = run.inline

(* It does that.                                                           *)
LEMMA IdentityFailsStep ==
    ASSUME TypeOK, NEW c \in Calls, IdentityFails(c)
    PROVE  /\ InRun(c) /\ call[c].kind = "prepare" /\ Orphans(c) /\ run' = NoRun
           /\ UNCHANGED <<registry, proxy, task, bound, box, work, runs, uses, faults, causes>>
<1> DEFINE r == [call[c] EXCEPT !.kind = "orphan", !.inline = run.inline]
<1>1. call[c] \in CallRecords /\ run \in RunRecords  BY DEF TypeOK
<1>2. /\ r \in CallRecords /\ r.at = call[c].at /\ r.kind = "orphan"
      /\ r.proxy = call[c].proxy /\ r.task = call[c].task /\ r.box = call[c].box
      /\ r.inline = run.inline
  BY <1>1 DEF CallRecords, RunRecords, Kinds
<1>3. call' = [call EXCEPT ![c] = r]  BY DEF IdentityFails
<1> HIDE DEF r
<1>4. Orphans(c)  BY <1>2, <1>3, CallReplaced DEF CallBecomes, Orphans
<1>5. QED  BY <1>4 DEF IdentityFails, outside, bounds

(* Delete: an existing sandbox is gone.                                    *)
LEMMA DeleteStep ==
    ASSUME TypeOK, NEW b \in Boxes, Delete(b)
    PROVE  /\ box[b] = "alive" /\ box' = [box EXCEPT ![b] = "gone"]
           /\ UNCHANGED <<registry, proxy, task, call, run, bound, work, runs, uses, faults, causes>>
  BY DEF Delete, Alive, memory, bounds

-----------------------------------------------------------------------------
(* Types, and how the parts of the state refer to each other.              *)

(* A coroutine that waits has a task, and a handle unless it recreates.    *)
SeatedCall(c) ==
    /\ call[c].at \in {"get", "lookup", "wait"} /\ call[c].kind # "recreate" =>
           call[c].proxy \in Proxies
    /\ call[c].at = "wait" => call[c].task \in Tasks
    /\ call[c].at # "idle" /\ call[c].kind = "recreate" => call[c].at = "wait"
    /\ call[c].at = "use" => call[c].box \in Boxes /\ call[c].proxy \in Proxies
             /\ call[c].kind \notin {"prepare", "orphan"}

Seated == \A c \in Calls : SeatedCall(c)

(***************************************************************************)
(* While a run is prepared, nothing of it but the preparation is under     *)
(* way; once it works, everything else may be; after it, nothing is.       *)
(***************************************************************************)
Phased ==
    /\ run.phase # "none" => run.handle \in Proxies
    /\ \A c \in Calls : InRun(c) =>
          /\ run.phase # "none"
          /\ run.phase = "prepare" =>
                call[c].kind = "prepare" /\ \A d \in Calls : InRun(d) => d = c
          /\ run.phase = "work" => call[c].kind # "prepare"

(* A task has what its stage needs, and leaves it in the handle.           *)
StockedTask(t) ==
    /\ task[t].at = "connect" => task[t].known \in Boxes
    /\ task[t].at \in {"refresh", "identity", "bind", "publish"} => task[t].made \in Boxes
    /\ task[t].at = "attach" <=> task[t].kind = "attach" /\ ~Over(t)
    /\ task[t].kind = "attach" => task[t].made \in Boxes /\ task[t].result = Nil
    /\ task[t].at = "done" /\ task[t].kind # "attach" =>
          task[t].result \in Proxies /\ proxy[task[t].result].backend \in Boxes

Stocked == \A t \in Tasks : StockedTask(t)

WellFormed == TypeOK /\ Seated /\ Phased /\ Stocked

(***************************************************************************)
(* A step of a task that changes nothing in memory but the task.           *)
(***************************************************************************)
Working(t) ==
    /\ ~Over(t) /\ Inside /\ InBounds
    /\ task' \in [Tasks -> TaskRecords] /\ \A u \in Tasks \ {t} : task'[u] = task[u]
    /\ task'[t].kind = task[t].kind /\ Holding(t)
    /\ task'[t].at \notin {"free", "cancelled", "cached", "attach"}
    /\ task'[t].at = "connect" => task'[t].known \in Boxes
    /\ task'[t].at \in {"refresh", "identity", "bind", "publish"} => task'[t].made \in Boxes
    /\ task[t].kind = "attach" => task'[t].at \in Ended /\ task'[t].made = task[t].made
    /\ task'[t].at = "done" => task[t].at = "attach"
    /\ bound' \in OrNil(Boxes) /\ box' \in [Boxes -> {"none", "alive", "gone"}]
    /\ causes \subseteq causes' /\ causes' \subseteq Causes

Publishing(t) ==
    Publishes(t) /\ task[t].at \in {"identity", "publish"} /\ task[t].made \in Boxes

(* A task of a stage is not over, and of the kind that goes there.         *)
LEMMA TaskAt ==
    ASSUME WellFormed, NEW t \in Tasks
    PROVE  /\ task[t].at \in {"cached", "metadata", "connect", "refresh", "create",
                              "identity", "bind", "publish"} =>
                 ~Over(t) /\ task[t].kind # "attach"
           /\ task[t].at = "attach" => ~Over(t) /\ task[t].kind = "attach"
           /\ task[t].at \in Stages /\ (~Over(t) <=> task[t].at \notin Ended \union {"free"})
           /\ task[t].known \in OrNil(Boxes) /\ task[t].made \in OrNil(Boxes)
           /\ task[t].inline \in OrNil(Boxes) /\ task[t].result \in OrNil(Proxies)
           /\ task[t].kind \in {"ensure", "attach", "recreate"}
<1>1. task[t] \in TaskRecords  BY DEF WellFormed, TypeOK
<1>2. task[t].at \in Stages  BY <1>1 DEF TaskRecords, Stages
<1>3. StockedTask(t)  BY DEF WellFormed, Stocked
<1>4. QED  BY <1>1, <1>2, <1>3 DEF StockedTask, Over, TaskRecords, Ended

(* What goes on in the platform keeps the types.                           *)
LEMMA Onward ==
    ASSUME TypeOK
    PROVE  /\ UNCHANGED box => box' \in [Boxes -> {"none", "alive", "gone"}]
           /\ \A b \in Boxes : box' = [box EXCEPT ![b] = "alive"] =>
                  box' \in [Boxes -> {"none", "alive", "gone"}]
           /\ UNCHANGED bound => bound' \in OrNil(Boxes)
           /\ \A more : Noting(more) => causes \subseteq causes' /\ causes' \subseteq Causes
  BY DEF TypeOK, Noting

(* Each step of a task is of one of the two sorts.                         *)
LEMMA TaskWorks ==
    ASSUME WellFormed, NEW t \in Tasks, TaskStep(t)
    PROVE  Working(t) \/ Publishing(t)
<1> USE DEF WellFormed
<1>1. StockedTask(t)  BY DEF Stocked
<1>2. CASE Cached(t)
  <2>1. PICK b : To(t, "metadata", task[t].known, b)  BY <1>2, CachedStep
  <2>2. task[t].kind # "attach" /\ ~Over(t)
    BY <1>2, CachedStep, TaskAt
  <2>3. Working(t)  BY <1>2, <2>1, <2>2, CachedStep, Onward DEF To, Working, Ended
  <2>4. QED  BY <2>3
<1>3. CASE Metadata(t)
  <2>1. PICK id \in OrNil(Boxes) :
            Reads(task[t].inline, id, {}) /\ To(t, AfterMetadata(t, id), id, task[t].made)
    BY <1>3, MetadataStep
  <2>2. /\ AfterMetadata(t, id) \in {"failed", "create", "refresh", "connect"}
        /\ AfterMetadata(t, id) = "refresh" => task[t].made # Nil
        /\ AfterMetadata(t, id) = "connect" => id # Nil
    BY DEF AfterMetadata
  <2>3. ~Over(t) /\ task[t].kind # "attach" /\ task[t].made \in OrNil(Boxes)
    BY <1>3, MetadataStep, TaskAt
  <2>4. causes \subseteq causes' /\ causes' \subseteq Causes
    BY <2>1, Onward DEF Reads
  <2>5. /\ task'[t].at \notin {"free", "cancelled", "cached", "attach", "done"}
        /\ task'[t].at = "connect" => task'[t].known \in Boxes
        /\ task'[t].at \in {"refresh", "identity", "bind", "publish"} => task'[t].made \in Boxes
    BY <2>1, <2>2, <2>3 DEF To, OrNil
  <2>6. Working(t)
    BY <1>3, <2>1, <2>3, <2>4, <2>5, MetadataStep, Onward DEF To, Working
  <2>7. QED  BY <2>6
<1>4. CASE Connect(t)
  <2>1. ~Over(t) /\ task[t].kind # "attach" /\ task[t].known \in Boxes
    BY <1>1, <1>4, ConnectStep, TaskAt DEF StockedTask
  <2>2. /\ task'[t].at \in {"refresh", "create", "unreachable"}
        /\ task'[t].at = "refresh" => task'[t].made \in Boxes
    BY <1>4, <2>1, ConnectStep DEF To
  <2>3. Working(t)
    BY <1>4, <2>1, <2>2, ConnectStep, Onward DEF To, Working
  <2>4. QED  BY <2>3
<1>5. CASE Refresh(t)
  <2>1. ~Over(t) /\ task[t].kind # "attach" /\ task[t].made \in Boxes
    BY <1>1, <1>5, RefreshStep, TaskAt DEF StockedTask
  <2>2. task'[t].at \in {"identity", "unreachable"} /\ task'[t].made \in Boxes
    BY <1>5, <2>1, RefreshStep DEF To
  <2>3. Working(t)
    BY <1>5, <2>1, <2>2, RefreshStep, Onward DEF To, Working
  <2>4. QED  BY <2>3
<1>6. CASE Create(t)
  <2>1. ~Over(t) /\ task[t].kind # "attach"
    BY <1>6, CreateStep, TaskAt
  <2>2. /\ task'[t].at \in {"identity", "failed", "unreachable"}
        /\ task'[t].at = "identity" => task'[t].made \in Boxes
        /\ box' \in [Boxes -> {"none", "alive", "gone"}]
    BY <1>6, CreateStep, Onward DEF To
  <2>3. task' \in [Tasks -> TaskRecords] /\ (\A u \in Tasks \ {t} : task'[u] = task[u])
        /\ task'[t].kind = task[t].kind /\ Holding(t)
    BY <1>6, CreateStep DEF To
  <2>4. Inside /\ InBounds /\ Noting({}) /\ UNCHANGED bound  BY <1>6, CreateStep
  <2>5. Working(t)
    BY <2>1, <2>2, <2>3, <2>4, Onward DEF Working
  <2>6. QED  BY <2>5
<1>7. CASE Identity(t)
  <2>1. /\ ~Over(t) /\ task[t].kind # "attach" /\ task[t].made \in Boxes
        /\ task[t].at = "identity"
    BY <1>1, <1>7, IdentityStep, TaskAt DEF StockedTask
  <2>2. ASSUME NEW a \in {"bind", "failed"}, To(t, a, task[t].known, task[t].made),
               Inside /\ InBounds /\ Noting({}) /\ UNCHANGED <<bound, box>>
        PROVE  Working(t)
    BY <2>1, <2>2, Onward DEF To, Working
  <2>3. QED  BY <1>7, <2>1, <2>2, IdentityStep DEF Publishing
<1>8. CASE Bind(t)
  <2>1. ~Over(t) /\ task[t].kind # "attach" /\ task[t].made \in Boxes
    BY <1>1, <1>8, BindStep, TaskAt DEF StockedTask
  <2>2. /\ task'[t].at \in {"publish", "failed"} /\ task'[t].made = task[t].made
        /\ bound' \in OrNil(Boxes) /\ causes \subseteq causes' /\ causes' \subseteq Causes
    BY <1>8, <2>1, BindStep, Onward DEF To, OrNil
  <2>3. Working(t)
    BY <1>8, <2>1, <2>2, BindStep, Onward DEF To, Working
  <2>4. QED  BY <2>3
<1>9. CASE Bound(t)
  <2>1. task[t].made \in Boxes  BY <1>1, <1>9, BoundStep DEF StockedTask
  <2>2. QED  BY <1>9, <2>1, BoundStep DEF Publishing
<1>10. CASE Attach(t)
  <2>1. ~Over(t) /\ task[t].kind = "attach" /\ task[t].at = "attach"
    BY <1>10, AttachStep, TaskAt
  <2>2. task'[t].at \in {"done", "failed"} /\ task'[t].made = task[t].made
    BY <1>10, AttachStep DEF To
  <2>3. Working(t)
    BY <1>10, <2>1, <2>2, AttachStep, Onward DEF To, Working, Ended
  <2>4. QED  BY <2>3
<1>11. QED
  BY <1>2, <1>3, <1>4, <1>5, <1>6, <1>7, <1>8, <1>9, <1>10 DEF TaskStep

(* The backends of handles in use are not lost.                            *)
KeepsBackends ==
    \A p \in Proxies : Reachable(p) /\ proxy[p].backend \in Boxes => proxy'[p].backend \in Boxes

(* So a task that is untouched, or cancelled, is as well stocked.          *)
LEMMA StockedKept ==
    ASSUME WellFormed, KeepsBackends, NEW t \in Tasks, task'[t] \in {task[t], Cancelled, NoTask}
    PROVE  StockedTask(t)'
<1>1. StockedTask(t)  BY DEF WellFormed, Stocked
<1>2. CASE task'[t] = task[t]
  <2>1. task[t].at = "done" /\ task[t].kind # "attach" =>
            Reachable(task[t].result) /\ proxy'[task[t].result].backend \in Boxes
    BY <1>1 DEF StockedTask, Reachable, KeepsBackends
  <2>2. QED  BY <1>1, <1>2, <2>1 DEF StockedTask, Over
<1>3. CASE task'[t] = Cancelled
  BY <1>3, CancelledTask DEF StockedTask
<1>4. CASE task'[t] = NoTask
  BY <1>4 DEF StockedTask, NoTask
<1>5. QED  BY <1>2, <1>3, <1>4

(* The registry's handle keeps its backend, and a new one was not in use.  *)
LEMMA TakesKeep ==
    ASSUME TypeOK, NEW b, NEW s, NEW reconnect, NEW lock, Takes(b, s, reconnect, lock),
           b = Kept.backend \/ b \in Boxes
    PROVE  KeepsBackends
<1>1. ASSUME NEW p \in Proxies, Reachable(p), proxy[p].backend \in Boxes
      PROVE  proxy'[p].backend \in Boxes
  <2>1. CASE p # Handle  BY <1>1, <2>1 DEF Takes, ProxyTo
  <2>2. CASE p = Handle
    <3>1. registry # Nil  BY <1>1, <2>2 DEF Takes, FreeProxies
    <3>2. Kept.backend \in Boxes  BY <1>1, <2>2, <3>1 DEF Takes
    <3>3. QED  BY <2>2, <3>2 DEF Takes, ProxyTo
  <2>3. QED  BY <2>1, <2>2
<1>2. QED  BY <1>1 DEF KeepsBackends

(* A handle that keeps its backend, or gets one, loses none.               *)
LEMMA ProxyKeeps ==
    ASSUME NEW p \in Proxies, NEW b, NEW s, NEW reconnect, NEW lock,
           ProxyTo(p, b, s, reconnect, lock), b = proxy[p].backend \/ b \in Boxes
    PROVE  KeepsBackends
  BY DEF ProxyTo, KeepsBackends

(* To publish is to take the handle, with what was made.                   *)
LEMMA PublishTakes ==
    ASSUME TypeOK, NEW t \in Tasks, Publishes(t)
    PROVE  Takes(task[t].made, Nil, Kept.reconnect, Kept.lock)
  BY HandleTaken DEF Publishes, Takes, ProxyTo

(* A task that is done has a sandbox for those that wait.                  *)
LEMMA OutcomeBox ==
    ASSUME WellFormed, NEW t \in Tasks, task[t].at = "done"
    PROVE  Outcome(t) \in Boxes
<1>1. StockedTask(t)  BY DEF WellFormed, Stocked
<1>2. QED  BY <1>1 DEF StockedTask, Outcome

(* One coroutine moves.                                                    *)
LEMMA SeatedKept ==
    ASSUME WellFormed, NEW c \in Calls, \A d \in Calls \ {c} : call'[d] = call[d],
           SeatedCall(c)'
    PROVE  Seated'
<1>1. ASSUME NEW d \in Calls \ {c} PROVE SeatedCall(d)'
  <2>1. call'[d] = call[d] /\ SeatedCall(d)  BY <1>1 DEF WellFormed, Seated
  <2>2. QED  BY <2>1 DEF SeatedCall
<1>2. QED  BY <1>1 DEF Seated

(* A run goes on, with some of its coroutines.                             *)
LEMMA PhasedKept ==
    ASSUME WellFormed, UNCHANGED run,
           \A d \in Calls : InRun(d)' => InRun(d) /\ call'[d].kind = call[d].kind
    PROVE  Phased'
  BY DEF WellFormed, Phased

(* A run that works gets another coroutine.                                *)
LEMMA StartPhased ==
    ASSUME WellFormed, UNCHANGED run, NEW c \in Calls,
           \A d \in Calls \ {c} : call'[d] = call[d],
           run.phase = "work" /\ call'[c].kind # "prepare"
    PROVE  Phased'
  BY DEF WellFormed, Phased, InRun

(* A run that is over has nothing under way.                               *)
LEMMA OverPhased ==
    ASSUME run' = NoRun, \A c \in Calls : ~InRun(c)'
    PROVE  Phased'
  BY DEF Phased, NoRun

(* Without steps of tasks, and with handles that keep their backends.      *)
LEMMA TasksStocked ==
    ASSUME WellFormed, KeepsBackends, NEW t \in Tasks,
           \A u \in Tasks \ {t} : task'[u] = task[u],
           StockedTask(t)'
    PROVE  Stocked'
<1>1. ASSUME NEW u \in Tasks \ {t} PROVE StockedTask(u)'
  BY <1>1, StockedKept
<1>2. QED  BY <1>1 DEF Stocked

(* A new task has what its stage needs.                                    *)
LEMMA NewStocked ==
    ASSUME WellFormed, KeepsBackends, NEW t \in Tasks, NEW a, NEW k, NEW inline, NEW b,
           TaskNew(t, a, k, inline, b),
           \/ a = "cached" /\ k \in {"ensure", "recreate"}
           \/ a = "attach" /\ k = "attach" /\ b \in Boxes
    PROVE  Stocked'
<1>1. StockedTask(t)'  BY DEF TaskNew, StockedTask, Over, Ended
<1>2. QED  BY <1>1, TasksStocked DEF TaskNew

(* Tasks that go on as they are have it too.                               *)
LEMMA SameStocked ==
    ASSUME WellFormed, KeepsBackends, UNCHANGED task
    PROVE  Stocked'
  BY StockedKept DEF Stocked

(* Handles that stay as they are keep their backends.                      *)
LEMMA SameBackends == UNCHANGED proxy => KeepsBackends
  BY DEF KeepsBackends

(* So does a task that is cancelled.                                       *)
LEMMA DropsStocked ==
    ASSUME WellFormed, KeepsBackends, Drops
    PROVE  Stocked'
<1>1. \A u \in Tasks : task'[u] \in {task[u], Cancelled}  BY DEF Drops, Cancels, TaskBecomes
<1>2. QED  BY <1>1, StockedKept DEF Stocked

(* The types that dropping the handle concerns.                            *)
LEMMA DropsTypes ==
    ASSUME TypeOK, Untouched \/ Drops
    PROVE  /\ registry' \in OrNil(Proxies) /\ task' \in [Tasks -> TaskRecords]
           /\ causes' \subseteq Causes
<1>1. ASSUME NEW more, Noting(more) PROVE causes' \subseteq Causes
  BY <1>1, Onward
<1>2. CASE Untouched  BY <1>1, <1>2 DEF Untouched, TypeOK
<1>3. CASE Drops
  <2>1. task' \in [Tasks -> TaskRecords]  BY <1>3 DEF Drops, Cancels, TaskBecomes, TypeOK
  <2>2. registry' \in OrNil(Proxies)  BY <1>3 DEF Drops, OrNil
  <2>3. causes' \subseteq Causes  BY <1>1, <1>3 DEF Drops, Cancels
  <2>4. QED  BY <2>1, <2>2, <2>3
<1>4. QED  BY <1>2, <1>3

(* A coroutine that leaves, one that waits or uses: its seat.              *)
LEMMA LeavesSeated ==
    ASSUME WellFormed, NEW c \in Calls, Leaves(c)
    PROVE  /\ Seated' /\ call' \in [Calls -> CallRecords]
           /\ \A d \in Calls : InRun(d)' => InRun(d) /\ call'[d].kind = call[d].kind /\ d # c
<1>1. SeatedCall(c)'  BY DEF Leaves, CallTo, SeatedCall
<1>2. QED  BY <1>1, SeatedKept DEF Leaves, CallTo, InRun

(* A run is over when its preparation fails.                               *)
LEMMA RaisesPhased ==
    ASSUME WellFormed, NEW c \in Calls, Raises(c), call[c].at # "idle"
    PROVE  Seated' /\ Phased' /\ call' \in [Calls -> CallRecords] /\ run' \in RunRecords
<1>1. /\ Seated' /\ call' \in [Calls -> CallRecords]
      /\ \A d \in Calls : InRun(d)' => InRun(d) /\ call'[d].kind = call[d].kind /\ d # c
  BY LeavesSeated DEF Raises
<1>2. CASE call[c].kind = "prepare"
  <2>1. run' = NoRun /\ run' \in RunRecords  BY <1>2, NoRecords DEF Raises
  <2>2. InRun(c)  BY <1>2 DEF InRun
  <2>3. run.phase = "prepare"
    <3>1. run.phase \in {"none", "prepare", "work"}  BY DEF WellFormed, TypeOK, RunRecords
    <3>2. QED  BY <1>2, <2>2, <3>1 DEF WellFormed, Phased
  <2>4. \A d \in Calls : ~InRun(d)'  BY <1>1, <2>2, <2>3 DEF WellFormed, Phased
  <2>5. QED  BY <1>1, <2>1, <2>4, OverPhased
<1>3. CASE call[c].kind # "prepare"
  <2>1. UNCHANGED run  BY <1>3 DEF Raises
  <2>2. Phased'  BY <1>1, <2>1, PhasedKept
  <2>3. QED  BY <1>1, <2>1, <2>2 DEF WellFormed, TypeOK
<1>4. QED  BY <1>2, <1>3

(* A run is prepared, or a tool goes on.                                   *)
LEMMA ReturnsPhased ==
    ASSUME WellFormed, NEW c \in Calls, NEW b \in Boxes, Returns(c, b),
           call[c].at \in {"get", "wait"}, call[c].proxy \in Proxies,
           call[c].kind # "recreate"
    PROVE  Seated' /\ Phased' /\ call' \in [Calls -> CallRecords] /\ run' \in RunRecords
<1>1. CASE call[c].kind = "prepare"
  <2>1. /\ Leaves(c) /\ run' \in RunRecords /\ run'.phase = "work"
        /\ run'.handle = run.handle
    BY <1>1 DEF Returns
  <2>2. /\ Seated' /\ call' \in [Calls -> CallRecords]
        /\ \A d \in Calls : InRun(d)' => InRun(d) /\ call'[d].kind = call[d].kind /\ d # c
    BY <2>1, LeavesSeated
  <2>3. InRun(c)  BY <1>1 DEF InRun
  <2>4. run.phase = "prepare"
    <3>1. run.phase \in {"none", "prepare", "work"}  BY DEF WellFormed, TypeOK, RunRecords
    <3>2. QED  BY <1>1, <2>3, <3>1 DEF WellFormed, Phased
  <2>5. \A d \in Calls : ~InRun(d)'  BY <2>2, <2>3, <2>4 DEF WellFormed, Phased
  <2>6. Phased'  BY <2>1, <2>4, <2>5 DEF WellFormed, Phased
  <2>7. QED  BY <2>1, <2>2, <2>6
<1>2. CASE call[c].kind = "orphan"
  <2>1. Leaves(c) /\ UNCHANGED run  BY <1>2 DEF Returns
  <2>2. /\ Seated' /\ call' \in [Calls -> CallRecords]
        /\ \A d \in Calls : InRun(d)' => InRun(d) /\ call'[d].kind = call[d].kind
    BY <2>1, LeavesSeated
  <2>3. Phased'  BY <2>1, <2>2, PhasedKept
  <2>4. QED  BY <2>1, <2>2, <2>3 DEF WellFormed, TypeOK
<1>3. CASE call[c].kind \notin {"prepare", "orphan"}
  <2>1. UNCHANGED run /\ CallTo(c, "use", call[c].kind, call[c].proxy, Nil, b)
    BY <1>3 DEF Returns
  <2>2. SeatedCall(c)'  BY <1>3, <2>1 DEF CallTo, SeatedCall
  <2>3. Seated'  BY <2>1, <2>2, SeatedKept DEF CallTo
  <2>4. \A d \in Calls : InRun(d)' => InRun(d) /\ call'[d].kind = call[d].kind
    BY <2>1 DEF CallTo, InRun
  <2>5. Phased'  BY <2>1, <2>4, PhasedKept
  <2>6. QED  BY <2>1, <2>3, <2>5 DEF CallTo, WellFormed, TypeOK
<1>4. QED  BY <1>1, <1>2, <1>3

(* A coroutine goes on with its handle.                                    *)
LEMMA WaitsSeated ==
    ASSUME WellFormed, NEW c \in Calls, NEW a \in {"get", "lookup", "wait"}, NEW t, NEW b,
           CallTo(c, a, call[c].kind, call[c].proxy, t, b), UNCHANGED run,
           call[c].at # "idle", call[c].kind # "recreate", call[c].proxy \in Proxies,
           a = "wait" => t \in Tasks
    PROVE  Seated' /\ Phased' /\ call' \in [Calls -> CallRecords] /\ run' \in RunRecords
<1>1. SeatedCall(c)'  BY DEF CallTo, SeatedCall
<1>2. Seated'  BY <1>1, SeatedKept DEF CallTo
<1>3. \A d \in Calls : InRun(d)' => InRun(d) /\ call'[d].kind = call[d].kind
  BY DEF CallTo, InRun
<1>4. Phased'  BY <1>3, PhasedKept
<1>5. QED  BY <1>2, <1>4 DEF CallTo, WellFormed, TypeOK

(* A task's step.                                                          *)
LEMMA TaskTypes ==
    ASSUME WellFormed, NEW t \in Tasks, TaskStep(t)
    PROVE  WellFormed'
<1>1. CASE Working(t)
  <2>1. TypeOK'  BY <1>1 DEF WellFormed, TypeOK, Working, Inside, InBounds
  <2>2. Seated' /\ Phased'
    BY <1>1 DEF WellFormed, Working, Inside, Seated, SeatedCall, Phased, InRun
  <2>3. KeepsBackends  BY <1>1, SameBackends DEF Working, Inside
  <2>4. StockedTask(t)'
    <3>1. StockedTask(t)  BY DEF WellFormed, Stocked
    <3>2. task[t].kind = "attach" => task[t].made \in Boxes /\ task[t].result = Nil
      BY <3>1 DEF StockedTask
    <3>3. task[t].at = "attach" <=> task[t].kind = "attach"
      BY <1>1, <3>1 DEF StockedTask, Working
    <3>4. task'[t].at = "attach" <=> task'[t].kind = "attach" /\ task'[t].at \notin Ended \union {"free"}
      BY <1>1, <3>3 DEF Working
    <3>5. task'[t].result = Nil \/ task[t].kind # "attach"
      BY <1>1, <3>2 DEF Working, Holding
    <3>6. QED  BY <1>1, <3>2, <3>3, <3>4, <3>5 DEF Working, StockedTask, Over
  <2>5. Stocked'  BY <1>1, <2>3, <2>4, TasksStocked DEF Working
  <2>6. QED  BY <2>1, <2>2, <2>5 DEF WellFormed
<1>2. CASE Publishing(t)
  <2>1. Publishes(t) /\ task[t].made \in Boxes /\ ~Over(t) /\ task[t].kind # "attach"
    BY <1>2, TaskAt DEF Publishing
  <2>2. TypeOK  BY DEF WellFormed
  <2>3. Takes(task[t].made, Nil, Kept.reconnect, Kept.lock)  BY <2>1, <2>2, PublishTakes
  <2>4. KeepsBackends  BY <2>1, <2>2, <2>3, TakesKeep
  <2>5. Handle \in Proxies /\ registry' \in OrNil(Proxies)  BY <2>3 DEF Takes, OrNil
  <2>6. causes' \subseteq Causes /\ work' \in OrNil(Boxes)
    BY <2>1, <2>2, Onward DEF Publishes, TypeOK, OrNil
  <2>7. TypeOK'  BY <2>1, <2>2, <2>5, <2>6 DEF TypeOK, Publishes, InBounds
  <2>8. Seated' /\ Phased'
    BY <2>1 DEF WellFormed, Publishes, Seated, SeatedCall, Phased, InRun
  <2>9. StockedTask(t)'
    BY <2>1, <2>5 DEF Publishes, StockedTask, Over, Ended
  <2>10. Stocked'  BY <2>1, <2>4, <2>9, TasksStocked DEF Publishes
  <2>11. QED  BY <2>7, <2>8, <2>10 DEF WellFormed
<1>3. QED  BY <1>1, <1>2, TaskWorks

(* A coroutine starts.                                                     *)
LEMMA StartTypes ==
    ASSUME WellFormed, NEW c \in Calls, NEW kind \in Kinds, Start(c, kind)
    PROVE  WellFormed'
<1> USE DEF WellFormed
<1>1. /\ CallTo(c, "get", kind, Handle, Nil, Nil)
      /\ Takes(Kept.backend, Kept.startup, Kept.reconnect, Kept.lock)
      /\ kind \in {"prepare", "tool", "mirror"}
      /\ kind = "prepare" => run.phase = "prepare" /\ \A d \in Calls : ~InRun(d)
      /\ kind = "tool" => run.phase = "work"
      /\ uses' \in 0..MaxUses
      /\ UNCHANGED <<task, run, bound, box, work, runs, faults, causes>>
  BY StartStep
<1>2. TypeOK'  BY <1>1 DEF TypeOK, Takes, ProxyTo, CallTo, OrNil
<1>3. Seated'
  <2>1. SeatedCall(c)'  BY <1>1 DEF SeatedCall, CallTo, Takes
  <2>2. QED  BY <1>1, <2>1, SeatedKept DEF CallTo
<1>4. Phased'
  <2>1. CASE kind = "prepare"
    BY <1>1, <2>1 DEF Phased, InRun, CallTo
  <2>2. CASE kind = "tool"
    BY <1>1, <2>2, StartPhased DEF CallTo
  <2>3. CASE kind = "mirror"
    <3>1. \A d \in Calls : InRun(d)' => InRun(d) /\ call'[d].kind = call[d].kind
      BY <1>1, <2>3 DEF CallTo, InRun
    <3>2. QED  BY <1>1, <3>1, PhasedKept
  <2>4. QED  BY <1>1, <2>1, <2>2, <2>3
<1>5. Stocked'
  <2>1. KeepsBackends  BY <1>1, TakesKeep
  <2>2. QED  BY <1>1, <2>1, SameStocked
<1>6. QED  BY <1>2, <1>3, <1>4, <1>5

(* A file tool starts.                                                     *)
LEMMA StartFileTypes ==
    ASSUME WellFormed, NEW c \in Calls, StartFile(c)
    PROVE  WellFormed'
<1> USE DEF WellFormed
<1>1. /\ CallTo(c, "get", "file", run.handle, Nil, Nil)
      /\ run.phase = "work" /\ uses' \in 0..MaxUses
      /\ UNCHANGED <<registry, proxy, task, run, bound, box, work, runs, faults, causes>>
  BY StartFileStep
<1>2. TypeOK'  BY <1>1 DEF TypeOK, CallTo
<1>3. SeatedCall(c)'  BY <1>1 DEF SeatedCall, CallTo, Phased
<1>4. Seated'  BY <1>1, <1>3, SeatedKept DEF CallTo
<1>5. Phased'  BY <1>1, StartPhased DEF CallTo
<1>6. Stocked'  BY <1>1, SameBackends, SameStocked
<1>7. QED  BY <1>2, <1>4, <1>5, <1>6

(* A recreation starts.                                                    *)
LEMMA RecreateTypes ==
    ASSUME WellFormed, NEW c \in Calls, Recreate(c)
    PROVE  WellFormed'
<1> USE DEF WellFormed
<1>1. PICK t \in Tasks :
          /\ TaskNew(t, "cached", "recreate", run.inline, Nil)
          /\ CallTo(c, "wait", "recreate", Nil, t, Nil)
  BY RecreateStep
<1>2. /\ run.phase = "work" /\ uses' \in 0..MaxUses
      /\ UNCHANGED <<registry, proxy, run, bound, box, work, runs, faults, causes>>
  BY RecreateStep
<1>3. TypeOK'  BY <1>1, <1>2 DEF TypeOK, CallTo, TaskNew
<1>4. SeatedCall(c)'  BY <1>1 DEF SeatedCall, CallTo
<1>5. Seated'  BY <1>1, <1>4, SeatedKept DEF CallTo
<1>6. Phased'  BY <1>1, <1>2, StartPhased DEF CallTo
<1>7. Stocked'  BY <1>1, <1>2, SameBackends, NewStocked
<1>8. QED  BY <1>3, <1>5, <1>6, <1>7

(* A coroutine's step.                                                     *)
LEMMA GetTypes ==
    ASSUME WellFormed, NEW c \in Calls, Get(c)
    PROVE  WellFormed'
<1> DEFINE p == call[c].proxy
<1>1. TypeOK /\ SeatedCall(c)  BY DEF WellFormed, Seated
<1>2. call[c].at = "get"  BY DEF Get
<1>3. p \in Proxies /\ call[c].kind # "recreate"  BY <1>1, <1>2 DEF SeatedCall
<1>4. /\ Elsewhere
      /\ GetReady(c) \/ GetJoins(c) \/ (\E t \in Tasks : GetStarts(c, t)) \/ GetLocks(c)
  BY <1>1, <1>3, GetStep
<1>5. proxy[p].backend \in OrNil(Boxes) /\ proxy[p].startup \in OrNil(Tasks)
  BY <1>1, <1>3 DEF TypeOK, ProxyRecords
<1>6. CASE GetReady(c)
  <2>1. /\ Returns(c, proxy[p].backend) /\ UNCHANGED <<proxy, task>>
        /\ proxy[p].backend \in Boxes
    BY <1>5, <1>6 DEF GetReady, OrNil
  <2>2. Seated' /\ Phased' /\ call' \in [Calls -> CallRecords] /\ run' \in RunRecords
    BY <1>2, <1>3, <2>1, ReturnsPhased
  <2>3. Stocked'  BY <2>1, SameBackends, SameStocked
  <2>4. TypeOK'  BY <1>1, <1>4, <2>1, <2>2 DEF TypeOK, Elsewhere
  <2>5. QED  BY <2>2, <2>3, <2>4 DEF WellFormed
<1>7. CASE GetJoins(c)
  <2>1. /\ CallTo(c, "wait", call[c].kind, p, proxy[p].startup, call[c].box)
        /\ UNCHANGED <<proxy, task, run>> /\ proxy[p].startup \in Tasks
    BY <1>5, <1>7 DEF GetJoins, OrNil
  <2>2. Seated' /\ Phased' /\ call' \in [Calls -> CallRecords] /\ run' \in RunRecords
    BY <1>2, <1>3, <2>1, WaitsSeated
  <2>3. Stocked'  BY <2>1, SameBackends, SameStocked
  <2>4. TypeOK'  BY <1>1, <1>4, <2>1, <2>2 DEF TypeOK, Elsewhere
  <2>5. QED  BY <2>2, <2>3, <2>4 DEF WellFormed
<1>8. ASSUME NEW t \in Tasks, GetStarts(c, t) PROVE WellFormed'
  <2>1. /\ proxy[p].backend = Nil
        /\ TaskNew(t, "cached", "ensure", Inline(c), Nil)
        /\ ProxyTo(p, Nil, t, TRUE, proxy[p].lock)
        /\ CallTo(c, "wait", call[c].kind, p, t, call[c].box) /\ UNCHANGED run
    BY <1>8 DEF GetStarts
  <2>2. Seated' /\ Phased' /\ call' \in [Calls -> CallRecords] /\ run' \in RunRecords
    BY <1>2, <1>3, <2>1, WaitsSeated
  <2>3. KeepsBackends  BY <1>3, <2>1, ProxyKeeps
  <2>4. Stocked'  BY <2>1, <2>3, NewStocked
  <2>5. TypeOK'  BY <1>1, <1>4, <2>1, <2>2 DEF TypeOK, Elsewhere, TaskNew, ProxyTo
  <2>6. QED  BY <2>2, <2>4, <2>5 DEF WellFormed
<1>9. CASE GetLocks(c)
  <2>1. /\ proxy[p].backend = Nil
        /\ ProxyTo(p, Nil, Nil, FALSE, TRUE)
        /\ CallTo(c, "lookup", call[c].kind, p, call[c].task, call[c].box)
        /\ UNCHANGED <<task, run>>
    BY <1>9 DEF GetLocks
  <2>2. Seated' /\ Phased' /\ call' \in [Calls -> CallRecords] /\ run' \in RunRecords
    BY <1>2, <1>3, <2>1, WaitsSeated
  <2>3. KeepsBackends  BY <1>3, <2>1, ProxyKeeps
  <2>4. Stocked'  BY <2>1, <2>3, SameStocked
  <2>5. TypeOK'  BY <1>1, <1>4, <2>1, <2>2 DEF TypeOK, Elsewhere, ProxyTo
  <2>6. QED  BY <2>2, <2>4, <2>5 DEF WellFormed
<1>10. QED  BY <1>4, <1>6, <1>7, <1>8, <1>9

(* It looks the id up.                                                     *)
LEMMA LookupTypes ==
    ASSUME WellFormed, NEW c \in Calls, Lookup(c)
    PROVE  WellFormed'
<1> DEFINE p == call[c].proxy
<1>1. TypeOK /\ SeatedCall(c)  BY DEF WellFormed, Seated
<1>2. call[c].at = "lookup"  BY DEF Lookup
<1>3. p \in Proxies /\ call[c].kind # "recreate"  BY <1>1, <1>2 DEF SeatedCall
<1>4. UNCHANGED <<registry, bound, box, work, runs, uses>> /\ InBounds
  BY <1>1, <1>3, LookupStep
<1>5. PICK id \in OrNil(Boxes) :
          /\ Reads(Inline(c), id, When(Changed(p), "raced"))
          /\ LookupRaises(c, id) \/ \E t \in Tasks : LookupAttaches(c, id, t)
  BY <1>1, <1>3, LookupStep
<1>6. causes' \subseteq Causes  BY <1>1, <1>5, Onward DEF Reads
<1>7. CASE LookupRaises(c, id)
  <2>1. /\ Raises(c) /\ UNCHANGED task
        /\ ProxyTo(p, proxy[p].backend, proxy[p].startup, proxy[p].reconnect, FALSE)
    BY <1>7 DEF LookupRaises
  <2>2. Seated' /\ Phased' /\ call' \in [Calls -> CallRecords] /\ run' \in RunRecords
    BY <1>2, <2>1, RaisesPhased
  <2>3. KeepsBackends  BY <1>3, <2>1, ProxyKeeps
  <2>4. Stocked'  BY <2>1, <2>3, SameStocked
  <2>5. TypeOK'  BY <1>1, <1>4, <1>6, <2>1, <2>2 DEF TypeOK, InBounds, ProxyTo
  <2>6. QED  BY <2>2, <2>4, <2>5 DEF WellFormed
<1>8. ASSUME NEW t \in Tasks, LookupAttaches(c, id, t) PROVE WellFormed'
  <2>1. /\ id \in Boxes /\ TaskNew(t, "attach", "attach", Nil, id) /\ UNCHANGED run
        /\ ProxyTo(p, proxy[p].backend, t, proxy[p].reconnect, FALSE)
        /\ CallTo(c, "wait", call[c].kind, p, t, call[c].box)
    BY <1>8 DEF LookupAttaches
  <2>2. Seated' /\ Phased' /\ call' \in [Calls -> CallRecords] /\ run' \in RunRecords
    BY <1>2, <1>3, <2>1, WaitsSeated
  <2>3. KeepsBackends  BY <1>3, <2>1, ProxyKeeps
  <2>4. Stocked'  BY <2>1, <2>3, NewStocked
  <2>5. TypeOK'  BY <1>1, <1>4, <1>6, <2>1, <2>2 DEF TypeOK, InBounds, TaskNew, ProxyTo
  <2>6. QED  BY <2>2, <2>4, <2>5 DEF WellFormed
<1>9. QED  BY <1>5, <1>7, <1>8

(* Its task is done.                                                       *)
LEMMA ReadyTypes ==
    ASSUME WellFormed, NEW c \in Calls, Ready(c)
    PROVE  WellFormed'
<1> DEFINE p == call[c].proxy
           t == call[c].task
<1>1. TypeOK /\ SeatedCall(c)  BY DEF WellFormed, Seated
<1>2. call[c].at = "wait" /\ call[c].kind # "recreate" /\ task[t].at = "done"  BY DEF Ready
<1>3. p \in Proxies /\ t \in Tasks  BY <1>1, <1>2 DEF SeatedCall
<1>4. Outcome(t) \in Boxes /\ Outcome(t) \in OrNil(Boxes)
  BY <1>2, <1>3, OutcomeBox DEF OrNil
<1>5. UNCHANGED <<task, bound, box, work, runs, uses, faults>>
  BY <1>1, <1>3, <1>4, ReadyStep
<1>6. PICK b \in OrNil(Boxes) : Ends(c, b) /\ (ReadyMine(c, b) \/ ReadyLate(c, b))
  BY <1>1, <1>3, <1>4, ReadyStep
<1>7. Seated' /\ Phased' /\ call' \in [Calls -> CallRecords] /\ run' \in RunRecords
  <2>1. CASE b = Nil  BY <1>2, <1>6, <2>1, RaisesPhased DEF Ends
  <2>2. CASE b # Nil
    <3>1. b \in Boxes /\ Returns(c, b)  BY <1>6, <2>2 DEF Ends, OrNil
    <3>2. QED  BY <1>2, <1>3, <3>1, ReturnsPhased
  <2>3. QED  BY <2>1, <2>2
<1>8. /\ KeepsBackends /\ causes' \subseteq Causes /\ registry' \in OrNil(Proxies)
      /\ proxy' \in [Proxies -> ProxyRecords]
  <2>1. CASE ReadyMine(c, b)
    <3>1. /\ ProxyTo(p, b, Nil, proxy[p].reconnect, proxy[p].lock) /\ registry' = p
          /\ b \in Boxes /\ causes' \subseteq Causes
      BY <1>1, <1>4, <2>1, Onward DEF ReadyMine
    <3>2. QED  BY <1>3, <3>1, ProxyKeeps DEF ProxyTo, OrNil
  <2>2. CASE ReadyLate(c, b)
    BY <1>1, <2>2, Onward, SameBackends DEF ReadyLate, TypeOK
  <2>3. QED  BY <1>6, <2>1, <2>2
<1>9. Stocked'  BY <1>5, <1>8, SameStocked
<1>10. TypeOK'  BY <1>1, <1>5, <1>7, <1>8 DEF TypeOK
<1>11. QED  BY <1>7, <1>9, <1>10 DEF WellFormed

(* Its task has failed.                                                    *)
LEMMA NotReadyTypes ==
    ASSUME WellFormed, NEW c \in Calls, NotReady(c)
    PROVE  WellFormed'
<1> DEFINE p == call[c].proxy
<1>1. TypeOK /\ SeatedCall(c)  BY DEF WellFormed, Seated
<1>2. call[c].at = "wait" /\ call[c].kind # "recreate"  BY DEF NotReady
<1>3. p \in Proxies  BY <1>1, <1>2 DEF SeatedCall
<1>4. /\ Raises(c) /\ UNCHANGED <<bound, box, work, runs, uses, faults>>
      /\ Untouched \/ (Clears(c) /\ Drops)
  BY <1>1, <1>3, NotReadyStep
<1>5. PICK s \in {proxy[p].startup, Nil} :
          ProxyTo(p, proxy[p].backend, s, proxy[p].reconnect, proxy[p].lock)
  BY <1>1, <1>3, NotReadyStep
<1>6. Seated' /\ Phased' /\ call' \in [Calls -> CallRecords] /\ run' \in RunRecords
  BY <1>2, <1>4, RaisesPhased
<1>7. KeepsBackends  BY <1>3, <1>5, ProxyKeeps
<1>8. Stocked'
  <2>1. CASE Untouched  BY <1>7, <2>1, SameStocked DEF Untouched
  <2>2. CASE Drops  BY <1>7, <2>2, DropsStocked
  <2>3. QED  BY <1>4, <2>1, <2>2
<1>9. /\ registry' \in OrNil(Proxies) /\ task' \in [Tasks -> TaskRecords]
      /\ causes' \subseteq Causes
  BY <1>1, <1>4, DropsTypes
<1>10. TypeOK'  BY <1>1, <1>4, <1>5, <1>6, <1>9 DEF TypeOK, ProxyTo
<1>11. QED  BY <1>6, <1>8, <1>10 DEF WellFormed

(* It uses the sandbox.                                                    *)
LEMMA UseTypesKept ==
    ASSUME WellFormed, NEW c \in Calls, Use(c)
    PROVE  WellFormed'
<1>1. TypeOK /\ SeatedCall(c)  BY DEF WellFormed, Seated
<1>2. /\ call[c].at = "use"
      /\ work' = (IF call[c].kind = "mirror" THEN work ELSE call[c].box)
      /\ \/ Leaves(c)
         \/ CallTo(c, "get", call[c].kind, call[c].proxy, call[c].task, Nil)
      /\ UNCHANGED <<registry, proxy, task, run, bound, box, runs, uses, faults, causes>>
  BY <1>1, UseStep
<1>3. Seated' /\ Phased' /\ call' \in [Calls -> CallRecords] /\ run' \in RunRecords
  <2>1. CASE Leaves(c)
    <3>1. /\ Seated' /\ call' \in [Calls -> CallRecords]
          /\ \A d \in Calls : InRun(d)' => InRun(d) /\ call'[d].kind = call[d].kind
      BY <2>1, LeavesSeated
    <3>2. QED  BY <1>1, <1>2, <3>1, PhasedKept DEF TypeOK
  <2>2. CASE CallTo(c, "get", call[c].kind, call[c].proxy, call[c].task, Nil)
    <3>1. call[c].kind # "recreate" /\ call[c].proxy \in Proxies  BY <1>1, <1>2 DEF SeatedCall
    <3>2. QED  BY <1>2, <2>2, <3>1, WaitsSeated
  <2>3. QED  BY <1>2, <2>1, <2>2
<1>4. Stocked'  BY <1>2, SameBackends, SameStocked
<1>5. work' \in OrNil(Boxes)  BY <1>1, <1>2 DEF TypeOK, CallRecords
<1>6. TypeOK'  BY <1>1, <1>2, <1>3, <1>5 DEF TypeOK
<1>7. QED  BY <1>3, <1>4, <1>6 DEF WellFormed

(* The sandbox fails it.                                                   *)
LEMMA UseFailsTypes ==
    ASSUME WellFormed, NEW c \in Calls, UseFails(c)
    PROVE  WellFormed'
<1>1. TypeOK  BY DEF WellFormed
<1>2. /\ InBounds /\ Leaves(c) /\ (Untouched \/ (Clears(c) /\ Drops))
      /\ UNCHANGED <<proxy, run, bound, box, work, runs, uses>>
  BY <1>1, UseFailsStep
<1>3. /\ Seated' /\ call' \in [Calls -> CallRecords]
      /\ \A d \in Calls : InRun(d)' => InRun(d) /\ call'[d].kind = call[d].kind
  BY <1>2, LeavesSeated
<1>4. Phased'  BY <1>2, <1>3, PhasedKept
<1>5. KeepsBackends  BY <1>2, SameBackends
<1>6. Stocked'
  <2>1. CASE Untouched  BY <1>5, <2>1, SameStocked DEF Untouched
  <2>2. CASE Drops  BY <1>5, <2>2, DropsStocked
  <2>3. QED  BY <1>2, <2>1, <2>2
<1>7. /\ registry' \in OrNil(Proxies) /\ task' \in [Tasks -> TaskRecords]
      /\ causes' \subseteq Causes
  BY <1>1, <1>2, DropsTypes
<1>8. TypeOK'  BY <1>1, <1>2, <1>3, <1>7 DEF TypeOK, InBounds
<1>9. QED  BY <1>3, <1>4, <1>6, <1>8 DEF WellFormed

(* It has its recreation.                                                  *)
LEMMA RecreatedTypes ==
    ASSUME WellFormed, NEW c \in Calls, Recreated(c)
    PROVE  WellFormed'
<1>1. TypeOK  BY DEF WellFormed
<1>2. /\ Leaves(c)
      /\ UNCHANGED <<registry, proxy, task, run, bound, box, work, runs, uses, faults, causes>>
  BY <1>1, RecreatedStep
<1>3. /\ Seated' /\ call' \in [Calls -> CallRecords]
      /\ \A d \in Calls : InRun(d)' => InRun(d) /\ call'[d].kind = call[d].kind
  BY <1>2, LeavesSeated
<1>4. Phased'  BY <1>2, <1>3, PhasedKept
<1>5. Stocked'  BY <1>2, SameBackends, SameStocked
<1>6. TypeOK'  BY <1>1, <1>2, <1>3 DEF TypeOK
<1>7. QED  BY <1>3, <1>4, <1>5, <1>6 DEF WellFormed

(* The runs, the process and the provider.                                 *)
LEMMA BeginTypes == ASSUME WellFormed, Begin PROVE WellFormed'
<1>1. TypeOK  BY DEF WellFormed
<1>2. /\ run.phase = "none" /\ runs' \in 0..MaxRuns
      /\ UNCHANGED <<call, bound, box, work, uses, faults, causes>>
  BY <1>1, BeginStep
<1>3. PICK t \in Tasks, inline \in {Nil, bound} :
          /\ Takes(Kept.backend, t, TRUE, Kept.lock)
          /\ Joins(t) \/ StartsUp(t, inline)
          /\ run' \in RunRecords /\ run'.phase = "prepare"
          /\ run'.handle = Handle /\ run'.inline = inline
  BY <1>1, BeginStep
<1>4. KeepsBackends  BY <1>1, <1>3, TakesKeep
<1>5. Stocked' /\ task' \in [Tasks -> TaskRecords]
  <2>1. CASE Joins(t)  BY <1>1, <1>4, <2>1, SameStocked DEF Joins, TypeOK
  <2>2. CASE StartsUp(t, inline)
    BY <1>4, <2>2, NewStocked DEF StartsUp, TaskNew
  <2>3. QED  BY <1>3, <2>1, <2>2
<1>6. Seated'  BY <1>2 DEF WellFormed, Seated, SeatedCall
<1>7. Phased'
  <2>1. \A c \in Calls : ~InRun(c)'  BY <1>2 DEF WellFormed, Phased, InRun
  <2>2. QED  BY <1>3, <2>1 DEF Phased, Takes
<1>8. TypeOK'  BY <1>1, <1>2, <1>3, <1>5 DEF TypeOK, Takes, ProxyTo, OrNil
<1>9. QED  BY <1>5, <1>6, <1>7, <1>8 DEF WellFormed

(* A run is interrupted.                                                   *)
LEMMA InterruptTypes == ASSUME WellFormed, Interrupt PROVE WellFormed'
<1>1. TypeOK  BY DEF WellFormed
<1>2. Interrupts  BY <1>1, InterruptStep DEF WellFormed, Seated, SeatedCall
<1>3. KeepsBackends  BY <1>2 DEF Interrupts, Forgets, KeepsBackends
<1>4. Stocked'
  <2>1. \A t \in Tasks : task'[t] \in {task[t], Cancelled}  BY <1>2 DEF Interrupts
  <2>2. QED  BY <1>3, <2>1, StockedKept DEF Stocked
<1>5. NoCall.at = "idle"  BY DEF NoCall
<1>6. \A c \in Calls : call'[c] = NoCall \/ (call'[c] = call[c] /\ ~InRun(c))
  BY <1>2 DEF Interrupts
<1>7. Seated'
  <2>1. ASSUME NEW c \in Calls PROVE SeatedCall(c)'
    <3>1. CASE call'[c] = NoCall  BY <1>5, <3>1 DEF SeatedCall
    <3>2. CASE call'[c] = call[c]  BY <3>2 DEF SeatedCall, WellFormed, Seated
    <3>3. QED  BY <1>6, <3>1, <3>2
  <2>2. QED  BY <2>1 DEF Seated
<1>8. Phased'  BY <1>2, <1>5, <1>6, OverPhased DEF Interrupts, InRun
<1>9. causes' \subseteq Causes  BY <1>1, <1>2, Onward DEF Interrupts
<1>10. TypeOK'  BY <1>1, <1>2, <1>9, NoRecords DEF TypeOK, Interrupts
<1>11. QED  BY <1>4, <1>7, <1>8, <1>10 DEF WellFormed

(* The process dies.                                                       *)
LEMMA CrashTypes == ASSUME WellFormed, Crash PROVE WellFormed'
<1>1. TypeOK  BY DEF WellFormed
<1>2. NoCall.at = "idle" /\ NoTask.at = "free" /\ NoTask.kind = "ensure"
  BY DEF NoCall, NoTask
<1>3. /\ registry' = Nil /\ run' = NoRun
      /\ call' \in [Calls -> CallRecords] /\ \A c \in Calls : call'[c] = NoCall
      /\ task' \in [Tasks -> TaskRecords] /\ \A t \in Tasks : task'[t] = NoTask
      /\ proxy' \in [Proxies -> ProxyRecords]
      /\ InBounds /\ UNCHANGED <<bound, box, work, runs, uses>>
      /\ causes' \subseteq Causes
  BY <1>1, CrashStep, Onward
<1>4. Seated'  BY <1>2, <1>3 DEF Seated, SeatedCall
<1>5. Phased'  BY <1>2, <1>3, OverPhased DEF InRun
<1>6. Stocked'  BY <1>2, <1>3 DEF Stocked, StockedTask
<1>7. TypeOK'  BY <1>1, <1>3, NoRecords DEF TypeOK, InBounds, OrNil
<1>8. QED  BY <1>4, <1>5, <1>6, <1>7 DEF WellFormed

(* A run ends, or a sandbox is deleted.                                    *)
LEMMA OutsideTypes ==
    ASSUME WellFormed, Finish \/ \E b \in Boxes : Delete(b)
    PROVE  WellFormed'
<1>1. TypeOK  BY DEF WellFormed
<1>2. CASE Finish
  <2>1. /\ run' = NoRun /\ \A c \in Calls : ~InRun(c)
        /\ UNCHANGED <<registry, proxy, task, call, bound, box, work, runs, uses, faults, causes>>
    BY <1>1, <1>2, FinishStep
  <2>2. TypeOK'  BY <1>1, <2>1, NoRecords DEF TypeOK
  <2>3. Seated'  BY <2>1 DEF WellFormed, Seated, SeatedCall
  <2>4. Phased'  BY <2>1, OverPhased DEF InRun
  <2>5. Stocked'  BY <2>1, SameBackends, SameStocked
  <2>6. QED  BY <2>2, <2>3, <2>4, <2>5 DEF WellFormed
<1>3. ASSUME NEW b \in Boxes, Delete(b) PROVE WellFormed'
  <2>1. /\ box' = [box EXCEPT ![b] = "gone"]
        /\ UNCHANGED <<registry, proxy, task, call, run, bound, work, runs, uses, faults, causes>>
    BY <1>1, <1>3, DeleteStep
  <2>2. TypeOK'  BY <1>1, <2>1 DEF TypeOK
  <2>3. Seated' /\ Phased'
    BY <2>1 DEF WellFormed, Seated, SeatedCall, Phased, InRun
  <2>4. Stocked'  BY <2>1, SameBackends, SameStocked
  <2>5. QED  BY <2>2, <2>3, <2>4 DEF WellFormed
<1>4. QED  BY <1>2, <1>3

(* Initially nothing is there.                                             *)
LEMMA InitTypes == Init => WellFormed
<1> SUFFICES ASSUME Init PROVE WellFormed
  OBVIOUS
<1>1. NoCall.at = "idle" /\ NoTask.at = "free" /\ NoTask.kind = "ensure" /\ NoRun.phase = "none"
  BY DEF NoCall, NoTask, NoRun
<1>2. TypeOK  BY NoRecords, BoundsAssumption DEF Init, TypeOK, OrNil, Nil
<1>3. Seated /\ Phased  BY <1>1 DEF Init, Seated, SeatedCall, Phased, InRun
<1>4. Stocked  BY <1>1 DEF Init, Stocked, StockedTask
<1>5. QED  BY <1>2, <1>3, <1>4 DEF WellFormed

(* The run of a preparation is over, and its waiter goes on.               *)
LEMMA IdentityFailsTypes ==
    ASSUME WellFormed, NEW c \in Calls, IdentityFails(c)
    PROVE  WellFormed'
<1> USE DEF WellFormed
<1>1. /\ InRun(c) /\ call[c].kind = "prepare" /\ Orphans(c) /\ run' = NoRun
      /\ UNCHANGED <<registry, proxy, task, bound, box, work, runs, uses, faults, causes>>
  BY IdentityFailsStep
<1>2. TypeOK'  BY <1>1, NoRecords DEF TypeOK, Orphans
<1>3. SeatedCall(c)  BY DEF Seated
<1>4. SeatedCall(c)'  BY <1>1, <1>3 DEF SeatedCall, Orphans
<1>5. Seated'  BY <1>1, <1>4, SeatedKept DEF Orphans
<1>6. Phased'
  <2>1. run.phase \in {"none", "prepare", "work"}  BY DEF TypeOK, RunRecords
  <2>2. \A d \in Calls : InRun(d) => d = c  BY <1>1, <2>1 DEF Phased
  <2>3. \A d \in Calls : ~InRun(d)'  BY <1>1, <2>2 DEF Orphans, InRun
  <2>4. QED  BY <1>1, <2>3, OverPhased
<1>7. Stocked'  BY <1>1, SameBackends, SameStocked
<1>8. QED  BY <1>2, <1>5, <1>6, <1>7

(* Every step keeps the types and the references.                          *)
LEMMA NextTypes == WellFormed /\ [Next]_vars => WellFormed'
<1> SUFFICES ASSUME WellFormed, [Next]_vars PROVE WellFormed'
  OBVIOUS
<1>1. CASE UNCHANGED vars
  <2>1. UNCHANGED <<registry, proxy, task, call, run, bound, box, work, runs, uses, faults, causes>>
    BY <1>1 DEF vars, memory, outside, bounds
  <2>2. TypeOK'  BY <2>1 DEF WellFormed, TypeOK
  <2>3. Seated' /\ Phased'  BY <2>1 DEF WellFormed, Seated, SeatedCall, Phased, InRun
  <2>4. Stocked'  BY <2>1, SameBackends, SameStocked
  <2>5. QED  BY <2>2, <2>3, <2>4 DEF WellFormed
<1>2. ASSUME NEW c \in Calls, CallStep(c) PROVE WellFormed'
  BY <1>2, GetTypes, LookupTypes, ReadyTypes, NotReadyTypes, UseTypesKept, UseFailsTypes,
     RecreatedTypes DEF CallStep
<1>3. QED
  BY <1>1, <1>2, BeginTypes, InterruptTypes, CrashTypes, OutsideTypes, StartTypes,
     StartFileTypes, RecreateTypes, IdentityFailsTypes, TaskTypes DEF Next

(* So they hold in every behaviour.                                        *)
LEMMA AlwaysWellFormed == Spec => []WellFormed
  BY InitTypes, NextTypes, PTL DEF Spec

(***************************************************************************)
(* Every variable keeps its type.                                          *)
(***************************************************************************)
THEOREM ProxyTypes == Spec => []TypeOK
<1>1. WellFormed => TypeOK  BY DEF WellFormed
<1>2. QED  BY <1>1, AlwaysWellFormed, PTL

-----------------------------------------------------------------------------
(* Who refers to what.                                                     *)

(***************************************************************************)
(* A step reaches no handle that was not in use, save those of S.          *)
(***************************************************************************)
Reaches(S) == \A q \in Proxies : Reachable(q)' => Reachable(q) \/ q \in S

(* Every reference to a handle leads to one in use, or to one of S.        *)
LEMMA ReachKept ==
    ASSUME NEW S,
           registry' \in Proxies => Reachable(registry') \/ registry' \in S,
           run'.handle \in Proxies => Reachable(run'.handle) \/ run'.handle \in S,
           \A c \in Calls : call'[c].proxy \in Proxies =>
               Reachable(call'[c].proxy) \/ call'[c].proxy \in S,
           \A t \in Tasks : task'[t].result \in Proxies =>
               Reachable(task'[t].result) \/ task'[t].result \in S
    PROVE  Reaches(S)
  BY DEF Reaches, Reachable

(* References that are there lead to handles in use.                       *)
LEMMA InUse ==
    /\ Reachable(registry) /\ Reachable(run.handle)
    /\ \A c \in Calls : Reachable(call[c].proxy)
    /\ \A t \in Tasks : Reachable(task[t].result)
  BY DEF Reachable

(* Nothing that is idle refers to a handle.                                *)
LEMMA NoneInUse ==
    NoRun.handle = Nil /\ NoCall.proxy = Nil /\ NoTask.result = Nil /\ Cancelled.result = Nil
  BY CancelledTask DEF NoRun, NoCall, NoTask

(* Steps of tasks.                                                         *)
LEMMA WorkingReach ==
    ASSUME WellFormed, NEW t \in Tasks, Working(t)
    PROVE  Reaches({})
<1>1. task'[t].result \in {task[t].result, Nil, registry}  BY DEF Working, Holding
<1>2. \A u \in Tasks \ {t} : task'[u] = task[u]  BY DEF Working
<1>3. UNCHANGED <<registry, call, run>>  BY DEF Working, Inside
<1>4. QED  BY <1>1, <1>2, <1>3, NotNil, InUse, ReachKept

(* A task that publishes makes its handle the registry's.                  *)
LEMMA PublishingReach ==
    ASSUME WellFormed, NEW t \in Tasks, Publishing(t)
    PROVE  Reaches({Handle})
<1>1. /\ registry' = Handle /\ task'[t].result = Handle /\ UNCHANGED <<call, run>>
      /\ \A u \in Tasks \ {t} : task'[u] = task[u]
  BY DEF Publishing, Publishes
<1>2. QED  BY <1>1, InUse, ReachKept

(* Steps of coroutines: one of them changes.                               *)
LEMMA CallReach ==
    ASSUME NEW S, NEW c \in Calls, \A d \in Calls \ {c} : call'[d] = call[d],
           call'[c].proxy \in {call[c].proxy, Nil} \union S,
           registry' \in {registry, Nil, call[c].proxy} \union S,
           run'.handle \in {run.handle, Nil},
           \A u \in Tasks : task'[u].result \in {task[u].result, Nil}
    PROVE  Reaches(S)
<1>1. Reachable(registry) /\ Reachable(call[c].proxy) /\ Reachable(run.handle)  BY InUse
<1>2. \A d \in Calls : call'[d].proxy \in Proxies =>
          Reachable(call'[d].proxy) \/ call'[d].proxy \in S
  BY NotNil, InUse
<1>3. \A u \in Tasks : task'[u].result \in Proxies =>
          Reachable(task'[u].result) \/ task'[u].result \in S
  BY NotNil, InUse
<1>4. registry' \in Proxies => Reachable(registry') \/ registry' \in S  BY <1>1, NotNil
<1>5. run'.handle \in Proxies => Reachable(run'.handle) \/ run'.handle \in S
  BY <1>1, NotNil
<1>6. QED  BY <1>2, <1>3, <1>4, <1>5, ReachKept

(* A new task holds no handle, nor does one that is cancelled.             *)
LEMMA NewHoldsNone ==
    /\ \A t, k, i, b : TaskNew(t, "cached", k, i, b) \/ TaskNew(t, "attach", k, i, b) =>
           \A u \in Tasks : task'[u].result \in {task[u].result, Nil}
    /\ Untouched \/ Drops => \A u \in Tasks : task'[u].result \in {task[u].result, Nil}
<1>1. ASSUME NEW t, NEW k, NEW i, NEW b,
             TaskNew(t, "cached", k, i, b) \/ TaskNew(t, "attach", k, i, b)
      PROVE  \A u \in Tasks : task'[u].result \in {task[u].result, Nil}
  BY <1>1 DEF TaskNew
<1>2. ASSUME Untouched \/ Drops
      PROVE  \A u \in Tasks : task'[u].result \in {task[u].result, Nil}
  BY <1>2, CancelledTask DEF Untouched, Drops, Cancels, TaskBecomes
<1>3. QED  BY <1>1, <1>2

(* What a coroutine that ends does to the run.                             *)
LEMMA EndsRun ==
    ASSUME NEW c \in Calls
    PROVE  /\ Leaves(c) => call'[c].proxy = Nil /\ \A d \in Calls \ {c} : call'[d] = call[d]
           /\ Raises(c) => /\ call'[c].proxy = Nil /\ \A d \in Calls \ {c} : call'[d] = call[d]
                           /\ run'.handle \in {run.handle, Nil}
           /\ \A b : Returns(c, b) =>
                 /\ call'[c].proxy \in {call[c].proxy, Nil}
                 /\ \A d \in Calls \ {c} : call'[d] = call[d]
                 /\ run'.handle \in {run.handle, Nil}
  BY NoneInUse DEF Leaves, Raises, Returns, CallTo

(* _aget_backend reaches no other handle.                                  *)
LEMMA GetReach ==
    ASSUME WellFormed, NEW c \in Calls, Elsewhere,
           GetReady(c) \/ GetJoins(c) \/ (\E t \in Tasks : GetStarts(c, t)) \/ GetLocks(c)
    PROVE  Reaches({})
<1>1. registry' = registry  BY DEF Elsewhere
<1>2. /\ call'[c].proxy \in {call[c].proxy, Nil} /\ run'.handle \in {run.handle, Nil}
      /\ \A d \in Calls \ {c} : call'[d] = call[d]
  BY EndsRun DEF GetReady, GetJoins, GetStarts, GetLocks, CallTo
<1>3. \A u \in Tasks : task'[u].result \in {task[u].result, Nil}
  BY NewHoldsNone DEF GetReady, GetJoins, GetStarts, GetLocks
<1>4. QED  BY <1>1, <1>2, <1>3, CallReach

(* Neither does the lookup of the id.                                      *)
LEMMA LookupReach ==
    ASSUME WellFormed, NEW c \in Calls, NEW id, UNCHANGED registry,
           LookupRaises(c, id) \/ \E t \in Tasks : LookupAttaches(c, id, t)
    PROVE  Reaches({})
<1>1. /\ call'[c].proxy \in {call[c].proxy, Nil} /\ run'.handle \in {run.handle, Nil}
      /\ \A d \in Calls \ {c} : call'[d] = call[d]
  BY EndsRun DEF LookupRaises, LookupAttaches, CallTo
<1>2. \A u \in Tasks : task'[u].result \in {task[u].result, Nil}
  BY NewHoldsNone DEF LookupRaises, LookupAttaches
<1>3. QED  BY <1>1, <1>2, CallReach

(* Nor a waiter whose task is done.                                        *)
LEMMA ReadyReach ==
    ASSUME WellFormed, NEW c \in Calls, NEW b, UNCHANGED task, Ends(c, b),
           ReadyMine(c, b) \/ ReadyLate(c, b)
    PROVE  Reaches({})
<1>1. /\ call'[c].proxy \in {call[c].proxy, Nil} /\ run'.handle \in {run.handle, Nil}
      /\ \A d \in Calls \ {c} : call'[d] = call[d]
  BY EndsRun DEF Ends
<1>2. registry' \in {registry, call[c].proxy}  BY DEF ReadyMine, ReadyLate
<1>3. QED  BY <1>1, <1>2, CallReach

(* Nor one that leaves, and drops the handle.                              *)
LEMMA DroppingReach ==
    ASSUME WellFormed, NEW c \in Calls, Untouched \/ Drops,
           Raises(c) \/ (Leaves(c) /\ UNCHANGED run)
    PROVE  Reaches({})
<1>1. /\ call'[c].proxy = Nil /\ run'.handle \in {run.handle, Nil}
      /\ \A d \in Calls \ {c} : call'[d] = call[d]
  BY EndsRun
<1>2. registry' \in {registry, Nil}  BY DEF Untouched, Drops
<1>3. QED  BY <1>1, <1>2, NewHoldsNone, CallReach

(* A step that takes the registry's handle.                                *)
LEMMA TakesReach ==
    ASSUME NEW b, NEW s, NEW reconnect, NEW lock, Takes(b, s, reconnect, lock),
           \A u \in Tasks : task'[u].result \in {task[u].result, Nil},
           \/ run'.handle = Handle /\ UNCHANGED call
           \/ /\ UNCHANGED run
              /\ \E c \in Calls : call'[c].proxy = Handle
                                  /\ \A d \in Calls \ {c} : call'[d] = call[d]
    PROVE  Reaches({Handle})
<1>1. registry' = Handle  BY DEF Takes
<1>2. \A d \in Calls : call'[d].proxy = Handle \/ call'[d] = call[d]  OBVIOUS
<1>3. run'.handle \in {Handle, run.handle}  OBVIOUS
<1>4. QED  BY <1>1, <1>2, <1>3, NotNil, InUse, ReachKept

-----------------------------------------------------------------------------
(* A task is referred to by one handle, and a recreation by its call.      *)

Refers(p, t) == Reachable(p) /\ proxy[p].startup = t

ReferredTask(t) ==
    \A p \in Proxies : Refers(p, t) =>
        task[t].kind # "recreate" /\ \A q \in Proxies : Refers(q, t) => q = p

Referred == \A t \in Tasks : ReferredTask(t)

Recreating(t) == task[t].kind = "recreate" /\ ~Over(t)

Recreator(c, t) ==
    call[c].at = "wait" /\ call[c].kind = "recreate" /\ call[c].task = t

Called == \A t \in Tasks : Recreating(t) => \E c \in Calls : Recreator(c, t)

WaitingCall(c) ==
    /\ call[c].at # "wait" => call[c].task = Nil
    /\ call[c].at = "wait" /\ call[c].kind # "recreate" =>
           task[call[c].task].kind # "recreate"

Waiting == \A c \in Calls : WaitingCall(c)

Held == Referred /\ Called /\ Waiting

(* No task becomes a recreation but one that was free.                     *)
KindsKept ==
    \A u \in Tasks : task'[u].kind = "recreate" => task[u].kind = "recreate" \/ u \in FreeTasks

(* No handle in use gets a task to wait for, save h, which gets t.         *)
NewRef(h, t) ==
    \A q \in Proxies, u \in Tasks : Refers(q, u)' => Refers(q, u) \/ (q = h /\ u = t)

(* A free task is neither referred to nor waited for.                      *)
LEMMA FreeTask ==
    ASSUME NEW t \in FreeTasks
    PROVE  /\ Over(t) /\ \A q \in Proxies : ~Refers(q, t)
           /\ \A c \in Calls : call[c].task # t
  BY DEF FreeTasks, Awaited, Refers

(* Handles that keep their tasks, or lose them, make no reference.         *)
LEMMA RefsOf ==
    ASSUME NEW S, Reaches(S), NEW h, NEW t,
           \A q \in Proxies :
               \/ proxy'[q].startup = proxy[q].startup /\ (q \in S => Reachable(q))
               \/ proxy'[q].startup \notin Tasks
               \/ q = h /\ proxy'[q].startup = t
    PROVE  NewRef(h, t)
  BY DEF Reaches, NewRef, Refers

(* What a step must show of the references it makes.                       *)
LEMMA ReferredKept ==
    ASSUME Referred, KindsKept, NEW h, NEW t, NewRef(h, t),
           h \notin Proxies \/ (t \in FreeTasks /\ task'[t].kind # "recreate")
    PROVE  Referred'
<1>1. ASSUME NEW u \in Tasks, NEW p \in Proxies, Refers(p, u)'
      PROVE  task'[u].kind # "recreate" /\ \A q \in Proxies : Refers(q, u)' => q = p
  <2>1. CASE Refers(p, u)
    <3>1. u \notin FreeTasks  BY <2>1, FreeTask
    <3>2. task[u].kind # "recreate" /\ \A q \in Proxies : Refers(q, u) => q = p
      BY <2>1 DEF Referred, ReferredTask
    <3>3. \A q \in Proxies : Refers(q, u)' => Refers(q, u)  BY <3>1 DEF NewRef
    <3>4. QED  BY <3>1, <3>2, <3>3 DEF KindsKept
  <2>2. CASE ~Refers(p, u)
    <3>1. p = h /\ u = t  BY <1>1, <2>2 DEF NewRef
    <3>2. t \in FreeTasks /\ task'[t].kind # "recreate"  BY <3>1
    <3>3. \A q \in Proxies : ~Refers(q, u)  BY <3>1, <3>2, FreeTask
    <3>4. \A q \in Proxies : Refers(q, u)' => q = h  BY <3>3 DEF NewRef
    <3>5. QED  BY <3>1, <3>2, <3>4
  <2>3. QED  BY <2>1, <2>2
<1>2. QED  BY <1>1 DEF Referred, ReferredTask

(* What it must show of the recreations and their calls.                   *)
LEMMA CalledKept ==
    ASSUME Called, \A u \in Tasks : Recreating(u)' => Recreating(u),
           \A c \in Calls, u \in Tasks : Recreator(c, u) /\ Recreating(u)' => Recreator(c, u)'
    PROVE  Called'
  BY DEF Called

(* And of what a coroutine waits for.                                      *)
LEMMA WaitingKept ==
    ASSUME WellFormed, Waiting, KindsKept,
           \A c \in Calls : call'[c] = call[c] \/ WaitingCall(c)'
    PROVE  Waiting'
<1>1. ASSUME NEW c \in Calls, call'[c] = call[c] PROVE WaitingCall(c)'
  <2>1. WaitingCall(c)  BY DEF Waiting
  <2>2. call[c].at = "wait" => call[c].task \in Tasks /\ call[c].task \notin FreeTasks
    BY FreeTask DEF WellFormed, Seated, SeatedCall
  <2>3. QED  BY <1>1, <2>1, <2>2 DEF WaitingCall, KindsKept
<1>2. QED  BY <1>1 DEF Waiting

(* Together, for the step of a coroutine that is not a recreation's.       *)
LEMMA HeldKept ==
    ASSUME WellFormed, Held, KindsKept, NEW c \in Calls,
           \A d \in Calls \ {c} : call'[d] = call[d],
           call[c].at = "wait" => call[c].kind # "recreate",
           WaitingCall(c)',
           \A u \in Tasks : Recreating(u)' => Recreating(u),
           NEW h, NEW t, NewRef(h, t),
           h \notin Proxies \/ (t \in FreeTasks /\ task'[t].kind # "recreate")
    PROVE  Held'
<1>1. Referred'  BY ReferredKept DEF Held
<1>2. \A d \in Calls, u \in Tasks : Recreator(d, u) => Recreator(d, u)'
  <2>1. \A u \in Tasks : ~Recreator(c, u)  BY DEF Recreator
  <2>2. QED  BY <2>1 DEF Recreator
<1>3. Called'  BY <1>2, CalledKept DEF Held
<1>4. Waiting'  BY WaitingKept DEF Held
<1>5. QED  BY <1>1, <1>3, <1>4 DEF Held

(* What steps do to the tasks.                                             *)
LEMMA TasksSame ==
    UNCHANGED task => KindsKept /\ \A u \in Tasks : Recreating(u)' => Recreating(u)
  BY DEF KindsKept, Recreating, Over

(* A new task is what it was begun as.                                     *)
LEMMA TasksNew ==
    ASSUME NEW t \in Tasks, NEW a, NEW k, NEW inline, NEW b, TaskNew(t, a, k, inline, b)
    PROVE  /\ KindsKept /\ t \in FreeTasks /\ task'[t].kind = k
           /\ k # "recreate" => \A u \in Tasks : Recreating(u)' => Recreating(u)
  BY DEF TaskNew, KindsKept, Recreating, Over

(* A dropped handle begins no task.                                        *)
LEMMA TasksDropped ==
    ASSUME Untouched \/ Drops
    PROVE  KindsKept /\ \A u \in Tasks : Recreating(u)' => Recreating(u)
<1>1. \A u \in Tasks : task'[u] \in {task[u], Cancelled}
  BY DEF Untouched, Drops, Cancels, TaskBecomes
<1>2. QED  BY <1>1, CancelledTask DEF KindsKept, Recreating, Over, Ended

(* A coroutine that does not wait afterwards, or leaves.                   *)
LEMMA EndsWaiting ==
    ASSUME NEW c \in Calls
    PROVE  /\ Leaves(c) \/ Raises(c) =>
                WaitingCall(c)' /\ \A d \in Calls \ {c} : call'[d] = call[d]
           /\ \A b : Returns(c, b) =>
                WaitingCall(c)' /\ \A d \in Calls \ {c} : call'[d] = call[d]
<1>1. Leaves(c) => WaitingCall(c)' /\ \A d \in Calls \ {c} : call'[d] = call[d]
  BY DEF Leaves, CallTo, WaitingCall
<1>2. QED  BY <1>1 DEF Raises, Returns, CallTo, WaitingCall

(* Get: who joins or starts a task joins or starts no recreation.          *)
LEMMA HeldGet ==
    ASSUME WellFormed, Held, NEW c \in Calls, Get(c)
    PROVE  Held'
<1> DEFINE p == call[c].proxy
<1>1. TypeOK /\ SeatedCall(c) /\ WaitingCall(c)
  BY DEF WellFormed, Seated, Held, Waiting
<1>2. call[c].at = "get"  BY DEF Get
<1>3. p \in Proxies /\ call[c].kind # "recreate" /\ call[c].task = Nil
  BY <1>1, <1>2 DEF SeatedCall, WaitingCall
<1>4. /\ Elsewhere
      /\ GetReady(c) \/ GetJoins(c) \/ (\E t \in Tasks : GetStarts(c, t)) \/ GetLocks(c)
  BY <1>1, <1>3, GetStep
<1>5. Reaches({})  BY <1>4, GetReach
<1> HIDE DEF p
<1>6. p = call[c].proxy  BY DEF p
<1>7. CASE GetReady(c)
  <2>1. UNCHANGED <<proxy, task>> /\ Returns(c, proxy[p].backend)  BY <1>6, <1>7 DEF GetReady
  <2>2. NewRef(Nil, Nil)  BY <1>5, <2>1, RefsOf
  <2>3. QED  BY <1>2, <2>1, <2>2, NotNil, EndsWaiting, TasksSame, HeldKept
<1>8. CASE GetJoins(c)
  <2>1. /\ UNCHANGED <<proxy, task>> /\ proxy[p].startup # Nil
        /\ CallTo(c, "wait", call[c].kind, p, proxy[p].startup, call[c].box)
    BY <1>6, <1>8 DEF GetJoins
  <2>2. NewRef(Nil, Nil)  BY <1>5, <2>1, RefsOf
  <2>3. proxy[p].startup \in Tasks
    BY <1>1, <1>3, <1>6, <2>1 DEF TypeOK, ProxyRecords, OrNil
  <2>4. task[proxy[p].startup].kind # "recreate"
    BY <1>3, <1>6, <2>3 DEF Held, Referred, ReferredTask, Refers, Reachable
  <2>5. WaitingCall(c)'  BY <2>1, <2>4 DEF CallTo, WaitingCall
  <2>6. QED  BY <1>2, <2>1, <2>2, <2>5, NotNil, TasksSame, HeldKept DEF CallTo
<1>9. ASSUME NEW t \in Tasks, GetStarts(c, t) PROVE Held'
  <2>1. /\ TaskNew(t, "cached", "ensure", Inline(c), Nil)
        /\ ProxyTo(p, Nil, t, TRUE, proxy[p].lock)
        /\ CallTo(c, "wait", call[c].kind, p, t, call[c].box)
    BY <1>6, <1>9 DEF GetStarts
  <2>2. NewRef(p, t)  BY <1>5, <2>1, RefsOf DEF ProxyTo
  <2>3. WaitingCall(c)'  BY <2>1 DEF CallTo, WaitingCall, TaskNew
  <2>4. KindsKept /\ t \in FreeTasks /\ task'[t].kind # "recreate"
        /\ \A u \in Tasks : Recreating(u)' => Recreating(u)
    BY <2>1, TasksNew
  <2>5. QED  BY <1>2, <2>1, <2>2, <2>3, <2>4, HeldKept DEF CallTo
<1>10. CASE GetLocks(c)
  <2>1. /\ UNCHANGED task /\ ProxyTo(p, Nil, Nil, FALSE, TRUE)
        /\ CallTo(c, "lookup", call[c].kind, p, call[c].task, call[c].box)
    BY <1>6, <1>10 DEF GetLocks
  <2>2. NewRef(Nil, Nil)  BY <1>5, <2>1, RefsOf, NotNil DEF ProxyTo
  <2>3. WaitingCall(c)'  BY <1>3, <2>1 DEF CallTo, WaitingCall
  <2>4. QED  BY <1>2, <2>1, <2>2, <2>3, NotNil, TasksSame, HeldKept DEF CallTo
<1>11. QED  BY <1>4, <1>7, <1>8, <1>9, <1>10

(* Lookup: the new task has one handle.                                    *)
LEMMA HeldLookup ==
    ASSUME WellFormed, Held, NEW c \in Calls, Lookup(c)
    PROVE  Held'
<1> DEFINE p == call[c].proxy
<1>1. TypeOK /\ SeatedCall(c) /\ WaitingCall(c)
  BY DEF WellFormed, Seated, Held, Waiting
<1>2. call[c].at = "lookup"  BY DEF Lookup
<1>3. p \in Proxies  BY <1>1, <1>2 DEF SeatedCall
<1>4. PICK id \in OrNil(Boxes) : LookupRaises(c, id) \/ \E t \in Tasks : LookupAttaches(c, id, t)
  BY <1>1, <1>3, LookupStep
<1>5. UNCHANGED registry  BY <1>1, <1>3, LookupStep
<1>6. Reaches({})  BY <1>4, <1>5, LookupReach
<1> HIDE DEF p
<1>7. p = call[c].proxy  BY DEF p
<1>8. CASE LookupRaises(c, id)
  <2>1. /\ UNCHANGED task /\ Raises(c)
        /\ ProxyTo(p, proxy[p].backend, proxy[p].startup, proxy[p].reconnect, FALSE)
    BY <1>7, <1>8 DEF LookupRaises
  <2>2. NewRef(Nil, Nil)  BY <1>6, <2>1, RefsOf DEF ProxyTo
  <2>3. QED  BY <1>2, <2>1, <2>2, NotNil, EndsWaiting, TasksSame, HeldKept
<1>9. ASSUME NEW t \in Tasks, LookupAttaches(c, id, t) PROVE Held'
  <2>1. /\ TaskNew(t, "attach", "attach", Nil, id)
        /\ ProxyTo(p, proxy[p].backend, t, proxy[p].reconnect, FALSE)
        /\ CallTo(c, "wait", call[c].kind, p, t, call[c].box)
    BY <1>7, <1>9 DEF LookupAttaches
  <2>2. NewRef(p, t)  BY <1>6, <2>1, RefsOf DEF ProxyTo
  <2>3. WaitingCall(c)'  BY <2>1 DEF CallTo, WaitingCall, TaskNew
  <2>4. KindsKept /\ t \in FreeTasks /\ task'[t].kind # "recreate"
        /\ \A u \in Tasks : Recreating(u)' => Recreating(u)
    BY <2>1, TasksNew
  <2>5. QED  BY <1>2, <2>1, <2>2, <2>3, <2>4, HeldKept DEF CallTo
<1>10. QED  BY <1>4, <1>8, <1>9

(* Ready: the handle forgets its task.                                     *)
LEMMA HeldReady ==
    ASSUME WellFormed, Held, NEW c \in Calls, Ready(c)
    PROVE  Held'
<1> DEFINE p == call[c].proxy
<1>1. TypeOK /\ SeatedCall(c)  BY DEF WellFormed, Seated
<1>2. call[c].at = "wait" /\ call[c].kind # "recreate" /\ task[call[c].task].at = "done"
  BY DEF Ready
<1>3. p \in Proxies /\ call[c].task \in Tasks  BY <1>1, <1>2 DEF SeatedCall
<1>4. Outcome(call[c].task) \in OrNil(Boxes)  BY <1>2, <1>3, OutcomeBox DEF OrNil
<1>5. UNCHANGED task  BY <1>1, <1>3, <1>4, ReadyStep
<1>6. PICK b \in OrNil(Boxes) : Ends(c, b) /\ (ReadyMine(c, b) \/ ReadyLate(c, b))
  BY <1>1, <1>3, <1>4, ReadyStep
<1>7. Reaches({})  BY <1>5, <1>6, ReadyReach
<1>8. \A q \in Proxies : proxy'[q].startup \in {proxy[q].startup, Nil}
  BY <1>6 DEF ReadyMine, ReadyLate, ProxyTo
<1>9. NewRef(Nil, Nil)  BY <1>7, <1>8, NotNil, RefsOf
<1>10. WaitingCall(c)' /\ \A d \in Calls \ {c} : call'[d] = call[d]
  BY <1>6, EndsWaiting DEF Ends
<1>11. QED  BY <1>2, <1>5, <1>9, <1>10, NotNil, TasksSame, HeldKept

(* A coroutine that drops the handle, or only leaves.                      *)
LEMMA HeldDropping ==
    ASSUME WellFormed, Held, NEW c \in Calls, Untouched \/ Drops,
           Raises(c) \/ (Leaves(c) /\ UNCHANGED run),
           call[c].at = "wait" => call[c].kind # "recreate",
           \A q \in Proxies : proxy'[q].startup \in {proxy[q].startup, Nil}
    PROVE  Held'
<1>1. Reaches({})  BY DroppingReach
<1>2. NewRef(Nil, Nil)  BY <1>1, NotNil, RefsOf
<1>3. WaitingCall(c)' /\ \A d \in Calls \ {c} : call'[d] = call[d]  BY EndsWaiting
<1>4. QED  BY <1>2, <1>3, NotNil, TasksDropped, HeldKept

(* The other steps of coroutines.                                          *)
LEMMA HeldUses ==
    ASSUME WellFormed, Held, NEW c \in Calls, NotReady(c) \/ Use(c) \/ UseFails(c)
    PROVE  Held'
<1>1. TypeOK /\ SeatedCall(c) /\ WaitingCall(c)
  BY DEF WellFormed, Seated, Held, Waiting
<1>2. CASE NotReady(c)
  <2> DEFINE p == call[c].proxy
  <2>1. call[c].at = "wait" /\ call[c].kind # "recreate"  BY <1>2 DEF NotReady
  <2>2. p \in Proxies  BY <1>1, <2>1 DEF SeatedCall
  <2>3. Raises(c) /\ (Untouched \/ Drops)  BY <1>1, <1>2, <2>2, NotReadyStep
  <2>4. PICK s \in {proxy[p].startup, Nil} :
            ProxyTo(p, proxy[p].backend, s, proxy[p].reconnect, proxy[p].lock)
    BY <1>1, <1>2, <2>2, NotReadyStep
  <2>5. \A q \in Proxies : proxy'[q].startup \in {proxy[q].startup, Nil}
    BY <2>4 DEF ProxyTo
  <2>6. QED  BY <2>1, <2>3, <2>5, HeldDropping
<1>3. CASE Use(c)
  <2>1. /\ call[c].at = "use" /\ UNCHANGED <<registry, proxy, task, run>>
        /\ \/ Leaves(c)
           \/ CallTo(c, "get", call[c].kind, call[c].proxy, call[c].task, Nil)
    BY <1>1, <1>3, UseStep
  <2>2. WaitingCall(c)' /\ \A d \in Calls \ {c} : call'[d] = call[d]
    BY <1>1, <2>1, EndsWaiting DEF CallTo, WaitingCall
  <2>3. call'[c].proxy \in {call[c].proxy, Nil}  BY <2>1 DEF Leaves, CallTo
  <2>4. Reaches({})  BY <2>1, <2>2, <2>3, CallReach
  <2>5. NewRef(Nil, Nil)  BY <2>1, <2>4, RefsOf
  <2>6. QED  BY <2>1, <2>2, <2>5, NotNil, TasksSame, HeldKept
<1>4. CASE UseFails(c)
  <2>1. call[c].at = "use" /\ Leaves(c) /\ (Untouched \/ Drops) /\ UNCHANGED <<proxy, run>>
    BY <1>1, <1>4, UseFailsStep
  <2>2. QED  BY <2>1, HeldDropping
<1>5. QED  BY <1>2, <1>3, <1>4

(* The registry's handle gets one task to wait for.                        *)
LEMMA TakesRefs ==
    ASSUME WellFormed, NEW b, NEW s, NEW reconnect, NEW lock, Takes(b, s, reconnect, lock),
           Reaches({Handle})
    PROVE  /\ s \in {Kept.startup, Nil} => NewRef(Nil, Nil)
           /\ NewRef(Handle, s)
           /\ registry = Nil => Kept.startup = Nil
<1>1. /\ \A q \in Proxies \ {Handle} : proxy'[q] = proxy[q]
      /\ Handle \in Proxies /\ proxy'[Handle].startup = s
      /\ registry # Nil => Handle = registry /\ Kept = proxy[registry]
      /\ registry = Nil => Kept = NoProxy
  BY DEF Takes, ProxyTo
<1>2. NoProxy.startup = Nil  BY DEF NoProxy
<1>3. Reachable(registry)  BY InUse
<1>4. s \in {Kept.startup, Nil} => NewRef(Nil, Nil)
  BY <1>1, <1>2, <1>3, NotNil, RefsOf
<1>5. NewRef(Handle, s)  BY <1>1, RefsOf
<1>6. QED  BY <1>1, <1>2, <1>4, <1>5

(* A coroutine starts with the registry's handle.                          *)
LEMMA HeldStart ==
    ASSUME WellFormed, Held, NEW c \in Calls, NEW kind \in Kinds, Start(c, kind)
    PROVE  Held'
<1>1. TypeOK  BY DEF WellFormed
<1>2. /\ call[c].at = "idle" /\ CallTo(c, "get", kind, Handle, Nil, Nil)
      /\ Takes(Kept.backend, Kept.startup, Kept.reconnect, Kept.lock)
      /\ UNCHANGED <<task, run>>
  BY <1>1, StartStep
<1>3. call'[c].proxy = Handle /\ \A d \in Calls \ {c} : call'[d] = call[d]
  BY <1>2 DEF CallTo
<1>4. Reaches({Handle})  BY <1>2, <1>3, TakesReach
<1>5. NewRef(Nil, Nil)  BY <1>2, <1>4, TakesRefs
<1>6. WaitingCall(c)'  BY <1>2 DEF CallTo, WaitingCall
<1>7. QED  BY <1>2, <1>3, <1>5, <1>6, NotNil, TasksSame, HeldKept

(* A file tool starts with the run's handle.                               *)
LEMMA HeldStartFile ==
    ASSUME WellFormed, Held, NEW c \in Calls, StartFile(c)
    PROVE  Held'
<1>1. TypeOK  BY DEF WellFormed
<1>2. /\ call[c].at = "idle" /\ CallTo(c, "get", "file", run.handle, Nil, Nil)
      /\ UNCHANGED <<registry, proxy, task, run>>
  BY <1>1, StartFileStep
<1>3. call'[c].proxy = run.handle /\ \A d \in Calls \ {c} : call'[d] = call[d]
  BY <1>2 DEF CallTo
<1>4. Reaches({})
  <2>1. \A d \in Calls : call'[d].proxy \in Proxies => Reachable(call'[d].proxy)
    BY <1>3, InUse
  <2>2. QED  BY <1>2, <2>1, InUse, ReachKept
<1>5. NewRef(Nil, Nil)  BY <1>2, <1>4, RefsOf
<1>6. WaitingCall(c)'  BY <1>2 DEF CallTo, WaitingCall
<1>7. QED  BY <1>2, <1>3, <1>5, <1>6, NotNil, TasksSame, HeldKept

(* A recreation starts, with its call.                                     *)
LEMMA HeldRecreate ==
    ASSUME WellFormed, Held, NEW c \in Calls, Recreate(c)
    PROVE  Held'
<1>1. TypeOK  BY DEF WellFormed
<1>2. call[c].at = "idle" /\ UNCHANGED <<registry, proxy, run>>  BY <1>1, RecreateStep
<1>3. PICK t \in Tasks :
          /\ TaskNew(t, "cached", "recreate", run.inline, Nil)
          /\ CallTo(c, "wait", "recreate", Nil, t, Nil)
  BY <1>1, RecreateStep
<1>4. /\ call'[c].at = "wait" /\ call'[c].kind = "recreate" /\ call'[c].task = t
      /\ call'[c].proxy = Nil /\ \A d \in Calls \ {c} : call'[d] = call[d]
  BY <1>3 DEF CallTo
<1>5. KindsKept /\ t \in FreeTasks  BY <1>3, TasksNew
<1>6. Reaches({})  BY <1>2, <1>3, <1>4, NewHoldsNone, CallReach
<1>7. NewRef(Nil, Nil)  BY <1>2, <1>6, RefsOf
<1>8. Referred'  BY <1>5, <1>7, NotNil, ReferredKept DEF Held
<1>9. Waiting'
  <2>1. WaitingCall(c)'  BY <1>4 DEF WaitingCall
  <2>2. QED  BY <1>4, <1>5, <2>1, WaitingKept DEF Held
<1>10. Called'
  <2>1. ASSUME NEW u \in Tasks, Recreating(u)' PROVE \E d \in Calls : Recreator(d, u)'
    <3>1. CASE u = t  BY <1>4, <3>1 DEF Recreator
    <3>2. CASE u # t
      <4>1. Recreating(u)  BY <1>3, <2>1, <3>2 DEF TaskNew, Recreating, Over
      <4>2. PICK d \in Calls : Recreator(d, u)  BY <4>1 DEF Held, Called
      <4>3. d # c  BY <1>2, <4>2 DEF Recreator
      <4>4. QED  BY <1>4, <4>2, <4>3 DEF Recreator
    <3>3. QED  BY <3>1, <3>2
  <2>2. QED  BY <2>1 DEF Called
<1>11. QED  BY <1>8, <1>9, <1>10 DEF Held

(* The call ends only after its recreation has.                            *)
LEMMA HeldRecreated ==
    ASSUME WellFormed, Held, NEW c \in Calls, Recreated(c)
    PROVE  Held'
<1>1. TypeOK  BY DEF WellFormed
<1>2. /\ task[call[c].task].at \in Ended /\ Leaves(c)
      /\ UNCHANGED <<registry, proxy, task, run>>
  BY <1>1, RecreatedStep
<1>3. WaitingCall(c)' /\ \A d \in Calls \ {c} : call'[d] = call[d]  BY <1>2, EndsWaiting
<1>4. call'[c].proxy = Nil  BY <1>2 DEF Leaves, CallTo
<1>5. Reaches({})  BY <1>2, <1>3, <1>4, CallReach
<1>6. NewRef(Nil, Nil)  BY <1>2, <1>5, RefsOf
<1>7. KindsKept /\ \A u \in Tasks : Recreating(u)' => Recreating(u)  BY <1>2, TasksSame
<1>8. Referred'  BY <1>6, <1>7, NotNil, ReferredKept DEF Held
<1>9. Waiting'  BY <1>3, <1>7, WaitingKept DEF Held
<1>10. \A d \in Calls, u \in Tasks : Recreator(d, u) /\ Recreating(u)' => Recreator(d, u)'
  <2>1. \A u \in Tasks : Recreating(u)' => ~Recreator(c, u)
    BY <1>2, <1>7 DEF Recreating, Recreator, Over
  <2>2. QED  BY <1>3, <2>1 DEF Recreator
<1>11. Called'  BY <1>7, <1>10, CalledKept DEF Held
<1>12. QED  BY <1>8, <1>9, <1>11 DEF Held

(* Steps that leave the coroutines alone.                                  *)
LEMMA HeldWithCalls ==
    ASSUME WellFormed, Held, UNCHANGED call, KindsKept,
           \A u \in Tasks : Recreating(u)' => Recreating(u),
           NEW h, NEW t, NewRef(h, t),
           h \notin Proxies \/ (t \in FreeTasks /\ task'[t].kind # "recreate")
    PROVE  Held'
<1>1. Referred'  BY ReferredKept DEF Held
<1>2. Called'  BY CalledKept DEF Held, Recreator
<1>3. Waiting'  BY WaitingKept DEF Held
<1>4. QED  BY <1>1, <1>2, <1>3 DEF Held

(* A run begins: it joins a startup, or starts its own.                    *)
LEMMA HeldBegin ==
    ASSUME WellFormed, Held, Begin
    PROVE  Held'
<1>1. TypeOK  BY DEF WellFormed
<1>2. UNCHANGED call  BY <1>1, BeginStep
<1>3. PICK t \in Tasks, inline \in {Nil, bound} :
          /\ Takes(Kept.backend, t, TRUE, Kept.lock)
          /\ Joins(t) \/ StartsUp(t, inline)
          /\ run'.handle = Handle
  BY <1>1, BeginStep
<1>4. CASE Joins(t)
  <2>1. UNCHANGED task /\ Kept.startup = t  BY <1>4 DEF Joins
  <2>2. Reaches({Handle})  BY <1>2, <1>3, <2>1, TakesReach
  <2>3. NewRef(Nil, Nil)  BY <1>3, <2>1, <2>2, TakesRefs
  <2>4. QED  BY <1>2, <2>1, <2>3, NotNil, TasksSame, HeldWithCalls
<1>5. CASE StartsUp(t, inline)
  <2>1. TaskNew(t, "cached", "ensure", inline, Nil)  BY <1>5 DEF StartsUp
  <2>2. Reaches({Handle})  BY <1>2, <1>3, <2>1, NewHoldsNone, TakesReach
  <2>3. NewRef(Handle, t)  BY <1>3, <2>2, TakesRefs
  <2>4. /\ KindsKept /\ t \in FreeTasks /\ task'[t].kind # "recreate"
        /\ \A u \in Tasks : Recreating(u)' => Recreating(u)
    BY <2>1, TasksNew
  <2>5. QED  BY <1>2, <2>3, <2>4, HeldWithCalls
<1>6. QED  BY <1>3, <1>4, <1>5

(* A task goes on: its kind stays.                                         *)
LEMMA HeldTask ==
    ASSUME WellFormed, Held, NEW t \in Tasks, TaskStep(t)
    PROVE  Held'
<1>1. TypeOK  BY DEF WellFormed
<1>2. CASE Working(t)
  <2>1. Reaches({})  BY <1>2, WorkingReach
  <2>2. UNCHANGED <<proxy, call>>  BY <1>2 DEF Working, Inside
  <2>3. NewRef(Nil, Nil)  BY <2>1, <2>2, RefsOf
  <2>4. KindsKept /\ \A u \in Tasks : Recreating(u)' => Recreating(u)
    BY <1>2 DEF Working, KindsKept, Recreating, Over
  <2>5. QED  BY <2>2, <2>3, <2>4, NotNil, HeldWithCalls
<1>3. CASE Publishing(t)
  <2>1. Publishes(t) /\ UNCHANGED call  BY <1>3 DEF Publishing, Publishes
  <2>2. Reaches({Handle})  BY <1>3, PublishingReach
  <2>3. Takes(task[t].made, Nil, Kept.reconnect, Kept.lock)  BY <1>1, <2>1, PublishTakes
  <2>4. NewRef(Nil, Nil)  BY <2>2, <2>3, TakesRefs
  <2>5. KindsKept /\ \A u \in Tasks : Recreating(u)' => Recreating(u)
    BY <2>1 DEF Publishes, KindsKept, Recreating, Over, Ended
  <2>6. QED  BY <2>1, <2>4, <2>5, NotNil, HeldWithCalls
<1>4. QED  BY <1>2, <1>3, TaskWorks

(* What an interrupt and the end of a run leave in use.                    *)
LEMMA InterruptReach == ASSUME WellFormed, Interrupts PROVE Reaches({})
<1>1. \A c \in Calls : call'[c] \in {call[c], NoCall}  BY DEF Interrupts
<1>2. \A t \in Tasks : task'[t] \in {task[t], Cancelled}  BY DEF Interrupts
<1>3. registry' = registry /\ run' = NoRun  BY DEF Interrupts
<1>4. QED  BY <1>1, <1>2, <1>3, NoneInUse, NotNil, InUse, ReachKept

(* A run that ends reaches no handle.                                      *)
LEMMA FinishReach ==
    ASSUME run' = NoRun, UNCHANGED <<registry, task, call>>
    PROVE  Reaches({})
  BY NoneInUse, NotNil, InUse, ReachKept

(* Interrupt: recreations are cut with their calls.                        *)
LEMMA HeldInterrupt == ASSUME WellFormed, Held, Interrupt PROVE Held'
<1>1. TypeOK  BY DEF WellFormed
<1>2. Interrupts  BY <1>1, InterruptStep DEF WellFormed, Seated, SeatedCall
<1>3. Reaches({})  BY <1>2, InterruptReach
<1>4. \A q \in Proxies : proxy'[q].startup \in {proxy[q].startup, Nil}
  BY <1>2 DEF Interrupts, Forgets
<1>5. NewRef(Nil, Nil)  BY <1>3, <1>4, NotNil, RefsOf
<1>6. \A u \in Tasks : task'[u] \in {task[u], Cancelled} /\ ~Recreating(u)'
  BY <1>2, CancelledTask DEF Interrupts, Recreating, Over, Ended
<1>7. KindsKept  BY <1>6, CancelledTask DEF KindsKept
<1>8. Referred'  BY <1>5, <1>7, NotNil, ReferredKept DEF Held
<1>9. Called'  BY <1>6 DEF Called
<1>10. NoCall.at = "idle" /\ NoCall.task = Nil  BY DEF NoCall
<1>11. \A c \in Calls : call'[c] \in {call[c], NoCall}  BY <1>2 DEF Interrupts
<1>12. \A c \in Calls : call'[c] = call[c] \/ WaitingCall(c)'
  BY <1>10, <1>11 DEF WaitingCall
<1>13. Waiting'  BY <1>7, <1>12, WaitingKept DEF Held
<1>14. QED  BY <1>8, <1>9, <1>13 DEF Held

(* Nothing that is in memory only after a crash.                           *)
LEMMA NothingHeld ==
    ASSUME \A c \in Calls : call[c] = NoCall, \A t \in Tasks : task[t] = NoTask,
           \A p \in Proxies : proxy[p] = NoProxy
    PROVE  Held
<1>1. NoCall.at = "idle" /\ NoCall.task = Nil /\ NoTask.kind = "ensure" /\ NoProxy.startup = Nil
  BY DEF NoCall, NoTask, NoProxy
<1>2. Referred  BY <1>1, NotNil DEF Referred, ReferredTask, Refers
<1>3. Called  BY <1>1 DEF Called, Recreating
<1>4. Waiting  BY <1>1 DEF Waiting, WaitingCall
<1>5. QED  BY <1>2, <1>3, <1>4 DEF Held

(* The process dies, a run ends, a sandbox is deleted.                     *)
LEMMA HeldOutside ==
    ASSUME WellFormed, Held, Crash \/ Finish \/ (\E b \in Boxes : Delete(b)) \/ UNCHANGED vars
    PROVE  Held'
<1>1. TypeOK  BY DEF WellFormed
<1>2. CASE Crash
  <2>1. /\ \A c \in Calls : call'[c] = NoCall
        /\ \A t \in Tasks : task'[t] = NoTask
        /\ \A p \in Proxies : proxy'[p] = NoProxy
    BY <1>1, <1>2, CrashStep
  <2>2. NoCall.at = "idle" /\ NoCall.task = Nil /\ NoTask.kind = "ensure" /\ NoProxy.startup = Nil
    BY DEF NoCall, NoTask, NoProxy
  <2>3. Referred'  BY <2>1, <2>2, NotNil DEF Referred, ReferredTask, Refers
  <2>4. Called'  BY <2>1, <2>2 DEF Called, Recreating
  <2>5. Waiting'  BY <2>1, <2>2 DEF Waiting, WaitingCall
  <2>6. QED  BY <2>3, <2>4, <2>5 DEF Held
<1>3. CASE Finish
  <2>1. run' = NoRun /\ UNCHANGED <<registry, proxy, task, call>>  BY <1>1, <1>3, FinishStep
  <2>2. Reaches({})  BY <2>1, FinishReach
  <2>3. NewRef(Nil, Nil)  BY <2>1, <2>2, RefsOf
  <2>4. QED  BY <2>1, <2>3, NotNil, TasksSame, HeldWithCalls
<1>4. CASE (\E b \in Boxes : Delete(b)) \/ UNCHANGED vars
  <2>1. UNCHANGED <<registry, proxy, task, call, run>>
    BY <1>1, <1>4, DeleteStep DEF vars, memory
  <2>2. Reaches({})  BY <2>1, InUse, ReachKept
  <2>3. NewRef(Nil, Nil)  BY <2>1, <2>2, RefsOf
  <2>4. QED  BY <2>1, <2>3, NotNil, TasksSame, HeldWithCalls
<1>5. QED  BY <1>2, <1>3, <1>4

(* A preparation becomes an orphan: it waits for the same task.            *)
LEMMA HeldIdentityFails ==
    ASSUME WellFormed, Held, NEW c \in Calls, IdentityFails(c)
    PROVE  Held'
<1>1. /\ call[c].kind = "prepare" /\ Orphans(c) /\ run' = NoRun
      /\ UNCHANGED <<registry, proxy, task>>
  BY IdentityFailsStep DEF WellFormed
<1>2. call'[c].proxy = call[c].proxy /\ \A d \in Calls \ {c} : call'[d] = call[d]
  BY <1>1 DEF Orphans
<1>3. Reaches({})  BY <1>1, <1>2, NoneInUse, CallReach
<1>4. NewRef(Nil, Nil)  BY <1>1, <1>3, RefsOf
<1>5. WaitingCall(c)  BY DEF Held, Waiting
<1>6. WaitingCall(c)'  BY <1>1, <1>5 DEF Orphans, WaitingCall
<1>7. QED  BY <1>1, <1>2, <1>4, <1>6, NotNil, TasksSame, HeldKept

(* Every step keeps the references.                                        *)
LEMMA HeldNext ==
    ASSUME WellFormed, Held, [Next]_vars
    PROVE  Held'
<1>1. ASSUME NEW c \in Calls, CallStep(c) PROVE Held'
  BY <1>1, HeldGet, HeldLookup, HeldReady, HeldUses, HeldRecreated DEF CallStep
<1>2. QED
  BY <1>1, HeldOutside, HeldBegin, HeldInterrupt, HeldStart, HeldStartFile, HeldRecreate,
     HeldIdentityFails, HeldTask DEF Next

(* So they hold in every behaviour.                                        *)
LEMMA AlwaysHeld == Spec => []Held
<1>1. Init => Held  BY NothingHeld DEF Init
<1>2. WellFormed /\ Held /\ [Next]_vars => Held'  BY HeldNext
<1>3. QED  BY <1>1, <1>2, AlwaysWellFormed, PTL DEF Spec

-----------------------------------------------------------------------------
(***************************************************************************)
(* The startups of runs.  Unless a coroutine acted on a handle that others *)
(* had moved on from, a startup under way is the one the registry's handle *)
(* waits for, and none is under way in a run that works.                   *)
(***************************************************************************)
Orderly == Without({"raced", "returned"})

Live(t) == task[t].kind = "ensure" /\ ~Over(t)

SoleTask(t) ==
    Live(t) => registry # Nil /\ proxy[registry].startup = t /\ run.phase # "work"

(* A handle that would start a sandbox is the registry's, before work.     *)
Unbacked(p) == Reachable(p) /\ proxy[p].reconnect /\ proxy[p].backend = Nil

BackedProxy(p) == Unbacked(p) => registry = p /\ run.phase # "work"

(* A run that is prepared has the registry's handle.                       *)
Prepared ==
    run.phase = "prepare" => registry = run.handle /\ proxy[registry].reconnect

(***************************************************************************)
(* Its preparation waits for the startup of that handle, or will find what *)
(* a startup left there.                                                   *)
(***************************************************************************)
Preparer(c) == call[c].at # "idle" /\ call[c].kind = "prepare"

WaitsWell(t) ==
    /\ task[t].at = "done" =>
           \/ proxy[registry].startup = t
           \/ proxy[registry].startup = Nil /\ proxy[registry].backend # Nil
    /\ ~Over(t) => proxy[registry].startup = t

PreparingCall(c) ==
    Preparer(c) => /\ call[c].proxy = registry
                   /\ call[c].at = "wait" => WaitsWell(call[c].task)

(* No handle waits for a startup of a run that has ended well.             *)
PendingTask(t) ==
    task[t].kind = "ensure" /\ task[t].at = "done" => \A p \in Proxies : ~Refers(p, t)

Arranged ==
    /\ \A t \in Tasks : SoleTask(t) /\ PendingTask(t)
    /\ \A p \in Proxies : BackedProxy(p)
    /\ Prepared
    /\ \A c \in Calls : PreparingCall(c)

(* Causes are not taken back.                                              *)
LEMMA OrderlyBefore ==
    ASSUME NEW more, Noting(more), Orderly'
    PROVE  Orderly /\ more \intersect {"raced", "returned"} = {}
  BY DEF Noting, Orderly, Without

(* The preparation of a run is alone; a tool runs in a run that works.     *)
LEMMA CallPhase ==
    ASSUME WellFormed, NEW c \in Calls, call[c].at # "idle"
    PROVE  /\ call[c].kind = "prepare" =>
                 run.phase = "prepare" /\ \A d \in Calls : Preparer(d) => d = c
           /\ call[c].kind \in {"file", "tool", "recreate"} =>
                 run.phase = "work" /\ \A d \in Calls : ~Preparer(d)
           /\ call[c].kind \in Kinds /\ registry \in OrNil(Proxies)
<1>1. run.phase \in {"none", "prepare", "work"} /\ call[c].kind \in Kinds
      /\ registry \in OrNil(Proxies)
  BY DEF WellFormed, TypeOK, RunRecords, CallRecords
<1>2. \A d \in Calls : Preparer(d) => InRun(d)  BY DEF Preparer, InRun
<1>3. CASE call[c].kind = "prepare"
  <2>1. InRun(c)  BY <1>3 DEF InRun
  <2>2. run.phase = "prepare" /\ \A d \in Calls : InRun(d) => d = c
    BY <1>1, <1>3, <2>1 DEF WellFormed, Phased
  <2>3. QED  BY <1>1, <1>2, <1>3, <2>2
<1>4. CASE call[c].kind \in {"file", "tool", "recreate"}
  <2>1. InRun(c)  BY <1>4 DEF InRun
  <2>2. run.phase = "work"  BY <1>1, <1>4, <2>1 DEF WellFormed, Phased
  <2>3. \A d \in Calls : ~Preparer(d)
    BY <1>2, <2>2 DEF WellFormed, Phased, Preparer
  <2>4. QED  BY <1>1, <1>4, <2>2, <2>3
<1>5. QED  BY <1>1, <1>3, <1>4

(* While a run works, nothing is started.                                  *)
LEMMA AtWork ==
    ASSUME Arranged, run.phase = "work"
    PROVE  (\A t \in Tasks : ~Live(t)) /\ (\A p \in Proxies : ~Unbacked(p))
  BY DEF Arranged, SoleTask, BackedProxy

(* So it stays, while no step starts a task or frees a handle.             *)
LEMMA WorkArranged ==
    ASSUME Arranged, run.phase = "work", run'.phase # "prepare",
           \A t \in Tasks : Live(t)' => Live(t),
           \A p \in Proxies : Unbacked(p)' => Unbacked(p),
           \A c \in Calls : ~Preparer(c)',
           \A t \in Tasks : PendingTask(t)'
    PROVE  Arranged'
<1>1. \A t \in Tasks : SoleTask(t)'  BY AtWork DEF SoleTask
<1>2. \A p \in Proxies : BackedProxy(p)'  BY AtWork DEF BackedProxy
<1>3. Prepared'  BY DEF Prepared
<1>4. \A c \in Calls : PreparingCall(c)'  BY DEF PreparingCall
<1>5. QED  BY <1>1, <1>2, <1>3, <1>4 DEF Arranged

(* A startup that has ended is not waited for by new references.           *)
LEMMA PendingKept ==
    ASSUME Arranged, NEW h, NEW t, NewRef(h, t),
           h \notin Proxies \/ ~(task'[t].kind = "ensure" /\ task'[t].at = "done"),
           \A u \in Tasks : task'[u].kind = "ensure" /\ task'[u].at = "done" =>
               task[u].kind = "ensure" /\ task[u].at = "done"
    PROVE  \A u \in Tasks : PendingTask(u)'
  BY DEF Arranged, PendingTask, NewRef

(***************************************************************************)
(* A step that leaves the registry and the handles' tasks and backends     *)
(* alone, and starts nothing for a run.                                    *)
(***************************************************************************)
SameHandles ==
    /\ registry' = registry /\ Reaches({})
    /\ \A q \in Proxies : /\ proxy'[q].backend = proxy[q].backend
                          /\ proxy'[q].startup = proxy[q].startup
                          /\ proxy'[q].reconnect = proxy[q].reconnect

TasksAside ==
    \A u \in Tasks : \/ task'[u] = task[u]
                     \/ u \in FreeTasks /\ task'[u].kind # "ensure"

(* Such a step keeps the arrangement.                                      *)
LEMMA SameArranged ==
    ASSUME WellFormed, Held, Arranged, SameHandles, TasksAside,
           run' = run \/ run'.phase = "none",
           \A c \in Calls : call'[c] = call[c] \/ ~Preparer(c)' \/ PreparingCall(c)'
    PROVE  Arranged'
<1>1. registry \in OrNil(Proxies)  BY DEF WellFormed, TypeOK
<1>2. \A t \in Tasks : SoleTask(t)'
  BY <1>1 DEF Arranged, SoleTask, Live, Over, SameHandles, TasksAside, OrNil
<1>3. \A p \in Proxies : BackedProxy(p)'
  BY DEF Arranged, BackedProxy, Unbacked, SameHandles, Reaches
<1>4. Prepared'  BY <1>1, NotNil DEF Arranged, Prepared, SameHandles, OrNil, WellFormed, Phased
<1>5. \A t \in Tasks : PendingTask(t)'
  <2>1. NewRef(Nil, Nil)  BY RefsOf DEF SameHandles
  <2>2. QED  BY <2>1, NotNil, PendingKept DEF TasksAside
<1>6. ASSUME NEW c \in Calls, call'[c] = call[c] PROVE PreparingCall(c)'
  <2>1. CASE ~Preparer(c)  BY <1>6, <2>1 DEF PreparingCall, Preparer
  <2>2. CASE Preparer(c)
    <3>1. PreparingCall(c) /\ run.phase = "prepare"
      BY <2>2, CallPhase DEF Arranged, Preparer
    <3>2. registry \in Proxies
      BY <3>1 DEF Arranged, Prepared, WellFormed, Phased
    <3>3. call[c].at = "wait" => call[c].task \in Tasks /\ call[c].task \notin FreeTasks
      BY FreeTask DEF WellFormed, Seated, SeatedCall
    <3>4. call[c].at = "wait" => task'[call[c].task] = task[call[c].task]
      BY <3>3 DEF TasksAside
    <3>5. QED
      BY <1>6, <2>2, <3>1, <3>2, <3>4
      DEF PreparingCall, Preparer, WaitsWell, Over, SameHandles
  <2>3. QED  BY <2>1, <2>2
<1>7. \A c \in Calls : PreparingCall(c)'  BY <1>6 DEF PreparingCall
<1>8. QED  BY <1>2, <1>3, <1>4, <1>5, <1>7 DEF Arranged

(* Nothing is started, nor would be, and nothing is prepared.              *)
LEMMA QuietArranged ==
    ASSUME \A t \in Tasks : ~Live(t)' /\ PendingTask(t)',
           \A p \in Proxies : ~Unbacked(p)', run'.phase # "prepare",
           \A c \in Calls : ~Preparer(c)'
    PROVE  Arranged'
  BY DEF Arranged, SoleTask, BackedProxy, Prepared, PreparingCall

(* Get: a startup begins only for a handle without a backend.              *)
LEMMA ArrangedGet ==
    ASSUME WellFormed, Held, Arranged, NEW c \in Calls, Get(c)
    PROVE  Arranged'
<1> DEFINE p == call[c].proxy
<1>1. TypeOK /\ SeatedCall(c) /\ PreparingCall(c) /\ registry \in OrNil(Proxies)
  BY DEF WellFormed, Seated, Arranged, TypeOK
<1>2. call[c].at = "get"  BY DEF Get
<1>3. p \in Proxies /\ call[c].kind # "recreate"  BY <1>1, <1>2 DEF SeatedCall
<1>4. /\ Elsewhere
      /\ GetReady(c) \/ GetJoins(c) \/ (\E t \in Tasks : GetStarts(c, t)) \/ GetLocks(c)
  BY <1>1, <1>3, GetStep
<1>5. Reaches({}) /\ registry' = registry  BY <1>4, GetReach DEF Elsewhere
<1>6. Reachable(p)  BY InUse
<1>7. call[c].kind = "prepare" => p = registry  BY <1>1, <1>2 DEF PreparingCall, Preparer
<1> HIDE DEF p
<1>8. p = call[c].proxy  BY DEF p
<1>9. CASE GetReady(c)
  <2>1. /\ proxy[p].backend # Nil /\ proxy[p].startup = Nil /\ UNCHANGED <<proxy, task>>
        /\ Returns(c, proxy[p].backend)
    BY <1>8, <1>9 DEF GetReady
  <2>2. SameHandles /\ TasksAside  BY <1>5, <2>1 DEF SameHandles, TasksAside
  <2>3. CASE call[c].kind # "prepare"
    <3>1. /\ run' = run /\ ~Preparer(c)' /\ \A d \in Calls \ {c} : call'[d] = call[d]
      BY <2>1, <2>3 DEF Returns, Leaves, CallTo, Preparer
    <3>2. QED  BY <2>2, <3>1, SameArranged
  <2>4. CASE call[c].kind = "prepare"
    <3>1. run'.phase = "work" /\ Leaves(c)  BY <2>1, <2>4 DEF Returns
    <3>2. \A d \in Calls : ~Preparer(d)'
      BY <1>2, <2>4, <3>1, CallPhase DEF Leaves, CallTo, Preparer
    <3>3. \A t \in Tasks : ~Live(t)
      BY <1>7, <2>1, <2>4, NotNil DEF Arranged, SoleTask
    <3>4. \A q \in Proxies : ~Unbacked(q)
      BY <1>7, <2>1, <2>4 DEF Arranged, BackedProxy, Unbacked
    <3>5. \A t \in Tasks : ~Live(t)'  BY <2>1, <3>3 DEF Live, Over
    <3>6. \A q \in Proxies : ~Unbacked(q)'  BY <1>5, <2>1, <3>4 DEF Unbacked, Reaches
    <3>7. NewRef(Nil, Nil)  BY <1>5, <2>1, RefsOf
    <3>8. \A t \in Tasks : PendingTask(t)'  BY <2>1, <3>7, NotNil, PendingKept
    <3>9. QED  BY <3>1, <3>2, <3>5, <3>6, <3>8, QuietArranged
  <2>5. QED  BY <2>3, <2>4
<1>10. CASE GetJoins(c)
  <2>1. /\ UNCHANGED <<proxy, task, run>> /\ proxy[p].startup # Nil
        /\ CallTo(c, "wait", call[c].kind, p, proxy[p].startup, call[c].box)
    BY <1>8, <1>10 DEF GetJoins
  <2>2. SameHandles /\ TasksAside  BY <1>5, <2>1 DEF SameHandles, TasksAside
  <2>3. PreparingCall(c)'
    BY <1>5, <1>7, <2>1 DEF CallTo, PreparingCall, Preparer, WaitsWell
  <2>4. QED  BY <2>1, <2>2, <2>3, SameArranged DEF CallTo
<1>11. ASSUME NEW t \in Tasks, GetStarts(c, t) PROVE Arranged'
  <2>1. /\ proxy[p].startup = Nil /\ proxy[p].backend = Nil /\ proxy[p].reconnect
        /\ TaskNew(t, "cached", "ensure", Inline(c), Nil)
        /\ ProxyTo(p, Nil, t, TRUE, proxy[p].lock)
        /\ CallTo(c, "wait", call[c].kind, p, t, call[c].box) /\ UNCHANGED run
    BY <1>8, <1>11 DEF GetStarts
  <2>2. registry = p /\ run.phase # "work"
    BY <1>3, <1>6, <2>1 DEF Arranged, BackedProxy, Unbacked
  <2>3. \A u \in Tasks : ~Live(u)  BY <2>1, <2>2, NotNil DEF Arranged, SoleTask
  <2>4. \A u \in Tasks : SoleTask(u)'
    <3>1. \A u \in Tasks \ {t} : ~Live(u)'  BY <2>1, <2>3 DEF TaskNew, Live, Over
    <3>2. registry' # Nil /\ proxy'[registry'].startup = t /\ run'.phase # "work"
      BY <1>3, <1>5, <2>1, <2>2, NotNil DEF ProxyTo
    <3>3. QED  BY <3>1, <3>2 DEF SoleTask
  <2>5. \A q \in Proxies : BackedProxy(q)'
    BY <1>3, <1>5, <2>1, <2>2 DEF Arranged, BackedProxy, Unbacked, Reaches, ProxyTo
  <2>6. Prepared'  BY <1>5, <2>1, <2>2 DEF Arranged, Prepared, ProxyTo
  <2>7. \A u \in Tasks : PendingTask(u)'
    <3>1. NewRef(p, t)  BY <1>5, <2>1, RefsOf DEF ProxyTo
    <3>2. QED  BY <2>1, <3>1, PendingKept DEF TaskNew
  <2>8. ASSUME NEW d \in Calls PROVE PreparingCall(d)'
    <3>1. CASE d = c
      BY <1>5, <2>1, <2>2, <3>1 DEF PreparingCall, CallTo, WaitsWell, ProxyTo, TaskNew
    <3>2. CASE d # c
      <4>1. call'[d] = call[d] /\ PreparingCall(d)  BY <2>1, <3>2 DEF CallTo, Arranged
      <4>2. call[d].at = "wait" => call[d].task \in Tasks /\ call[d].task \notin FreeTasks
        BY FreeTask DEF WellFormed, Seated, SeatedCall
      <4>3. call[d].at = "wait" => task'[call[d].task] = task[call[d].task]
        BY <2>1, <4>2 DEF TaskNew
      <4>4. Preparer(d) /\ call[d].at = "wait" =>
                task[call[d].task].at # "done" /\ Over(call[d].task)
        BY <2>1, <2>2, <4>1, <4>2, NotNil DEF PreparingCall, WaitsWell
      <4>5. QED
        BY <1>5, <4>1, <4>3, <4>4 DEF PreparingCall, Preparer, WaitsWell, Over
    <3>3. QED  BY <3>1, <3>2
  <2>9. QED  BY <2>4, <2>5, <2>6, <2>7, <2>8 DEF Arranged
<1>12. CASE GetLocks(c)
  <2>1. /\ proxy[p].startup = Nil /\ proxy[p].backend = Nil /\ ~proxy[p].reconnect
        /\ UNCHANGED <<task, run>> /\ ProxyTo(p, Nil, Nil, FALSE, TRUE)
        /\ CallTo(c, "lookup", call[c].kind, p, call[c].task, call[c].box)
    BY <1>8, <1>12 DEF GetLocks
  <2>2. proxy[p].reconnect = FALSE  BY <1>1, <1>3, <2>1 DEF TypeOK, ProxyRecords
  <2>3. SameHandles /\ TasksAside
    BY <1>5, <2>1, <2>2 DEF SameHandles, TasksAside, ProxyTo
  <2>4. PreparingCall(c)'  BY <1>5, <1>7, <2>1 DEF CallTo, PreparingCall, Preparer
  <2>5. QED  BY <2>1, <2>3, <2>4, SameArranged DEF CallTo
<1>13. QED  BY <1>4, <1>9, <1>10, <1>11, <1>12

(* Lookup: a handle without a callback starts nothing.                     *)
LEMMA ArrangedLookup ==
    ASSUME WellFormed, Held, Arranged, NEW c \in Calls, Lookup(c), Orderly'
    PROVE  Arranged'
<1> DEFINE p == call[c].proxy
<1>1. TypeOK /\ SeatedCall(c) /\ PreparingCall(c)
  BY DEF WellFormed, Seated, Arranged
<1>2. call[c].at = "lookup"  BY DEF Lookup
<1>3. p \in Proxies  BY <1>1, <1>2 DEF SeatedCall
<1>4. PICK id \in OrNil(Boxes) :
          /\ Reads(Inline(c), id, When(Changed(p), "raced"))
          /\ LookupRaises(c, id) \/ \E t \in Tasks : LookupAttaches(c, id, t)
  BY <1>1, <1>3, LookupStep
<1>5. UNCHANGED registry  BY <1>1, <1>3, LookupStep
<1>6. Reaches({})  BY <1>4, <1>5, LookupReach
<1>7. proxy[p].startup = Nil /\ proxy[p].backend = Nil
  BY <1>4 DEF Reads, Noting, Orderly, Without, When, Changed
<1>8. call[c].kind = "prepare" => p = registry  BY <1>1, <1>2 DEF PreparingCall, Preparer
<1> HIDE DEF p
<1>9. p = call[c].proxy  BY DEF p
<1>10. CASE LookupRaises(c, id)
  <2>1. /\ UNCHANGED task /\ Raises(c)
        /\ ProxyTo(p, proxy[p].backend, proxy[p].startup, proxy[p].reconnect, FALSE)
    BY <1>9, <1>10 DEF LookupRaises
  <2>2. SameHandles /\ TasksAside  BY <1>5, <1>6, <2>1 DEF SameHandles, TasksAside, ProxyTo
  <2>3. run' = run \/ run'.phase = "none"  BY <2>1 DEF Raises, NoRun
  <2>4. ~Preparer(c)' /\ \A d \in Calls \ {c} : call'[d] = call[d]
    BY <2>1 DEF Raises, Leaves, CallTo, Preparer
  <2>5. QED  BY <2>2, <2>3, <2>4, SameArranged
<1>11. ASSUME NEW t \in Tasks, LookupAttaches(c, id, t) PROVE Arranged'
  <2>1. /\ TaskNew(t, "attach", "attach", Nil, id) /\ UNCHANGED run
        /\ ProxyTo(p, proxy[p].backend, t, proxy[p].reconnect, FALSE)
        /\ CallTo(c, "wait", call[c].kind, p, t, call[c].box)
    BY <1>9, <1>11 DEF LookupAttaches
  <2>2. ASSUME NEW u \in Tasks, Live(u)'
        PROVE  registry' # Nil /\ proxy'[registry'].startup = u /\ run'.phase # "work"
    <3>1. Live(u)  BY <2>1, <2>2 DEF TaskNew, Live, Over
    <3>2. /\ registry # Nil /\ proxy[registry].startup = u /\ run.phase # "work"
          /\ registry \in Proxies
      BY <1>1, <3>1 DEF Arranged, SoleTask, TypeOK, OrNil
    <3>3. registry # p  BY <1>7, <2>2, <3>2, NotNil
    <3>4. QED  BY <1>5, <2>1, <3>2, <3>3 DEF ProxyTo
  <2>3. \A q \in Proxies : BackedProxy(q)'
    BY <1>5, <1>6, <2>1 DEF Arranged, BackedProxy, Unbacked, Reaches, ProxyTo
  <2>4. Prepared'
    <3>1. run.phase = "prepare" => registry \in Proxies
      BY DEF Arranged, Prepared, WellFormed, Phased
    <3>2. QED  BY <1>5, <2>1, <3>1 DEF Arranged, Prepared, ProxyTo
  <2>5. \A u \in Tasks : PendingTask(u)'
    <3>1. NewRef(p, t)  BY <1>6, <2>1, RefsOf DEF ProxyTo
    <3>2. QED  BY <2>1, <3>1, PendingKept DEF TaskNew
  <2>6. ASSUME NEW d \in Calls PROVE PreparingCall(d)'
    <3>1. CASE d = c
      BY <1>3, <1>5, <1>8, <2>1, <3>1
      DEF PreparingCall, Preparer, CallTo, WaitsWell, ProxyTo, TaskNew
    <3>2. CASE d # c
      <4>1. call'[d] = call[d] /\ PreparingCall(d)  BY <2>1, <3>2 DEF CallTo, Arranged
      <4>2. call[d].at = "wait" => call[d].task \in Tasks /\ call[d].task \notin FreeTasks
        BY FreeTask DEF WellFormed, Seated, SeatedCall
      <4>3. call[d].at = "wait" => task'[call[d].task] = task[call[d].task]
        BY <2>1, <4>2 DEF TaskNew
      <4>4. CASE ~Preparer(d)  BY <4>1, <4>4 DEF PreparingCall, Preparer
      <4>5. CASE registry = p
        <5>1. Preparer(d) /\ call[d].at = "wait" =>
                  task[call[d].task].at # "done" /\ Over(call[d].task)
          BY <1>7, <4>1, <4>2, <4>5, NotNil DEF PreparingCall, WaitsWell
        <5>2. QED
          BY <1>5, <4>1, <4>3, <5>1 DEF PreparingCall, Preparer, WaitsWell, Over
      <4>6. CASE registry # p /\ Preparer(d)
        <5>1. registry \in Proxies
          BY <4>6, CallPhase DEF Preparer, Arranged, Prepared, WellFormed, Phased
        <5>2. proxy'[registry] = proxy[registry]  BY <2>1, <4>6, <5>1 DEF ProxyTo
        <5>3. QED
          BY <1>5, <4>1, <4>3, <5>2 DEF PreparingCall, Preparer, WaitsWell, Over
      <4>7. QED  BY <4>4, <4>5, <4>6
    <3>3. QED  BY <3>1, <3>2
  <2>7. QED  BY <2>2, <2>3, <2>4, <2>5, <2>6 DEF Arranged, SoleTask
<1>12. QED  BY <1>4, <1>10, <1>11

(***************************************************************************)
(* A step after which handles may have forgotten startups that ended.      *)
(***************************************************************************)
LEMMA ForgetsArranged ==
    ASSUME WellFormed, Arranged, registry' = registry, Reaches({}),
           \A q \in Proxies : Forgets(q),
           \A u \in Tasks : Live(u)' => Live(u),
           \A u \in Tasks : task'[u].kind = "ensure" /\ task'[u].at = "done" =>
               task[u].kind = "ensure" /\ task[u].at = "done",
           run' = run \/ run'.phase = "none"
    PROVE  /\ \A t \in Tasks : SoleTask(t)' /\ PendingTask(t)'
           /\ \A p \in Proxies : BackedProxy(p)'
           /\ Prepared'
<1>1. ASSUME NEW u \in Tasks, Live(u)'
      PROVE  registry' # Nil /\ proxy'[registry'].startup = u /\ run'.phase # "work"
  <2>1. Live(u)  BY <1>1
  <2>2. /\ registry # Nil /\ proxy[registry].startup = u /\ run.phase # "work"
        /\ registry \in Proxies
    BY <2>1 DEF Arranged, SoleTask, WellFormed, TypeOK, OrNil
  <2>3. task[u].at \notin Ended  BY <2>1 DEF Live, Over
  <2>4. QED  BY <2>2, <2>3 DEF Forgets
<1>2. \A q \in Proxies : /\ proxy'[q].backend = proxy[q].backend
                         /\ proxy'[q].reconnect = proxy[q].reconnect
                         /\ proxy'[q].startup \in {proxy[q].startup, Nil}
  BY DEF Forgets
<1>3. \A p \in Proxies : BackedProxy(p)'
  BY <1>2 DEF Arranged, BackedProxy, Unbacked, Reaches
<1>4. Prepared'
  <2>1. run.phase = "prepare" => registry \in Proxies
    BY DEF Arranged, Prepared, WellFormed, Phased
  <2>2. QED  BY <1>2, <2>1 DEF Arranged, Prepared
<1>5. \A t \in Tasks : PendingTask(t)'
  <2>1. NewRef(Nil, Nil)  BY <1>2, NotNil, RefsOf
  <2>2. QED  BY <2>1, NotNil, PendingKept
<1>6. QED  BY <1>1, <1>3, <1>4, <1>5 DEF SoleTask

(* Ready: a handle that is put back is the registry's.                     *)
LEMMA ArrangedReady ==
    ASSUME WellFormed, Held, Arranged, NEW c \in Calls, Ready(c), Orderly'
    PROVE  Arranged'
<1> DEFINE p == call[c].proxy
           t == call[c].task
<1>1. TypeOK /\ SeatedCall(c) /\ PreparingCall(c)
  BY DEF WellFormed, Seated, Arranged
<1>2. call[c].at = "wait" /\ call[c].kind # "recreate" /\ task[t].at = "done"
  BY DEF Ready
<1>3. p \in Proxies /\ t \in Tasks  BY <1>1, <1>2 DEF SeatedCall
<1>4. Outcome(t) \in Boxes /\ Outcome(t) \in OrNil(Boxes)
  BY <1>2, <1>3, OutcomeBox DEF OrNil
<1>5. UNCHANGED task  BY <1>1, <1>3, <1>4, ReadyStep
<1>6. PICK b \in OrNil(Boxes) : Ends(c, b) /\ (ReadyMine(c, b) \/ ReadyLate(c, b))
  BY <1>1, <1>3, <1>4, ReadyStep
<1>7. Reaches({})  BY <1>5, <1>6, ReadyReach
<1>8. Reachable(p)  BY InUse
<1>9. Over(t)  BY <1>2 DEF Over, Ended
<1>10. call[c].kind = "prepare" => p = registry /\ WaitsWell(t) /\ \A d \in Calls : Preparer(d) => d = c
  BY <1>1, <1>2, CallPhase DEF PreparingCall, Preparer
<1>11. \A u \in Tasks : PendingTask(u)'
  <2>1. \A q \in Proxies : proxy'[q].startup \in {proxy[q].startup, Nil}
    BY <1>6 DEF ReadyMine, ReadyLate, ProxyTo
  <2>2. NewRef(Nil, Nil)  BY <1>7, <2>1, NotNil, RefsOf
  <2>3. QED  BY <1>5, <2>2, NotNil, PendingKept
<1> HIDE DEF p, t
<1>12. p = call[c].proxy /\ t = call[c].task  BY DEF p, t
<1>13. CASE ReadyMine(c, b)
  <2>1. /\ proxy[p].startup = t /\ b \in Boxes /\ registry' = p
        /\ ProxyTo(p, b, Nil, proxy[p].reconnect, proxy[p].lock)
    BY <1>4, <1>12, <1>13 DEF ReadyMine
  <2>2. registry \in {Nil, p}
    BY <1>12, <1>13 DEF ReadyMine, Noting, When, Orderly, Without
  <2>3. Returns(c, b)  BY <1>6, <2>1, NotNil DEF Ends
  <2>4. \A u \in Tasks : ~Live(u)'
    BY <1>5, <1>9, <2>1, <2>2 DEF Arranged, SoleTask, Live, Over
  <2>5. \A q \in Proxies : ~Unbacked(q)'
    BY <1>3, <1>7, <2>1, <2>2, NotNil DEF Arranged, BackedProxy, Unbacked, Reaches, ProxyTo
  <2>6. CASE call[c].kind = "prepare"
    <3>1. run'.phase = "work" /\ \A d \in Calls : ~Preparer(d)'
      BY <1>10, <2>3, <2>6 DEF Returns, Leaves, CallTo, Preparer
    <3>2. QED  BY <1>11, <2>4, <2>5, <3>1, QuietArranged
  <2>7. CASE call[c].kind # "prepare"
    <3>1. /\ run' = run /\ ~Preparer(c)' /\ \A d \in Calls \ {c} : call'[d] = call[d]
      BY <2>3, <2>7 DEF Returns, Leaves, CallTo, Preparer
    <3>2. run.phase = "prepare" => registry = p
      BY <2>2, NotNil DEF Arranged, Prepared, WellFormed, Phased
    <3>3. Prepared'
      BY <1>3, <2>1, <3>1, <3>2 DEF Arranged, Prepared, ProxyTo
    <3>4. ASSUME NEW d \in Calls, Preparer(d)' PROVE PreparingCall(d)'
      <4>1. d # c /\ call'[d] = call[d] /\ Preparer(d)  BY <3>1, <3>4 DEF Preparer
      <4>2. registry = p /\ PreparingCall(d)
        BY <3>2, <4>1, CallPhase DEF Preparer, Arranged
      <4>3. call[d].at = "wait" => call[d].task \in Tasks
        BY DEF WellFormed, Seated, SeatedCall
      <4>4. call[d].at = "wait" => Over(call[d].task)
        BY <1>9, <2>1, <4>1, <4>2 DEF PreparingCall, WaitsWell
      <4>5. proxy'[registry'].startup = Nil /\ proxy'[registry'].backend # Nil
        BY <1>3, <2>1, NotNil DEF ProxyTo
      <4>6. QED
        BY <1>5, <2>1, <4>1, <4>2, <4>4, <4>5 DEF PreparingCall, WaitsWell, Over
    <3>5. QED
      BY <1>11, <2>4, <2>5, <3>3, <3>4
      DEF Arranged, SoleTask, BackedProxy, PreparingCall
  <2>8. QED  BY <2>6, <2>7
<1>14. CASE ReadyLate(c, b)
  <2>1. /\ proxy[p].startup # t /\ b = proxy[p].backend /\ UNCHANGED <<proxy, registry>>
    BY <1>12, <1>14 DEF ReadyLate
  <2>2. SameHandles /\ TasksAside  BY <1>5, <1>7, <2>1 DEF SameHandles, TasksAside
  <2>3. CASE call[c].kind = "prepare" /\ b # Nil
    <3>1. Returns(c, b)  BY <1>6, <2>3 DEF Ends
    <3>2. run'.phase = "work" /\ \A d \in Calls : ~Preparer(d)'
      BY <1>10, <2>3, <3>1 DEF Returns, Leaves, CallTo, Preparer
    <3>3. registry = p /\ proxy[p].startup = Nil /\ proxy[p].backend # Nil
      BY <1>2, <1>10, <2>1, <2>3 DEF WaitsWell
    <3>4. \A u \in Tasks : ~Live(u)'
      BY <1>5, <3>3, NotNil DEF Arranged, SoleTask, Live, Over
    <3>5. \A q \in Proxies : ~Unbacked(q)'
      BY <1>7, <2>1, <3>3 DEF Arranged, BackedProxy, Unbacked, Reaches
    <3>6. QED  BY <1>11, <3>2, <3>4, <3>5, QuietArranged
  <2>4. CASE call[c].kind # "prepare" \/ b = Nil
    <3>1. /\ run' = run \/ run'.phase = "none"
          /\ ~Preparer(c)' /\ \A d \in Calls \ {c} : call'[d] = call[d]
      BY <1>6, <2>4 DEF Ends, Raises, Returns, Leaves, CallTo, Preparer, NoRun
    <3>2. QED  BY <2>2, <3>1, SameArranged
  <2>5. QED  BY <2>3, <2>4
<1>15. QED  BY <1>6, <1>13, <1>14

(* A tool that fails, and drops the handle.                                *)
LEMMA ArrangedDrops ==
    ASSUME WellFormed, Arranged, NEW c \in Calls, call[c].at # "idle", Clears(c), Drops,
           Raises(c) \/ (Leaves(c) /\ UNCHANGED run),
           \A q \in Proxies : /\ proxy'[q].startup \in {proxy[q].startup, Nil}
                              /\ proxy'[q].backend = proxy[q].backend
                              /\ proxy'[q].reconnect = proxy[q].reconnect
    PROVE  Arranged'
<1>1. run.phase = "work" /\ (\A d \in Calls : ~Preparer(d)) /\ call[c].kind # "prepare"
  BY CallPhase DEF Clears
<1>2. run' = run /\ \A d \in Calls : ~Preparer(d)'
  BY <1>1 DEF Raises, Leaves, CallTo, Preparer
<1>3. \A u \in Tasks : task'[u] \in {task[u], Cancelled}
  BY DEF Drops, Cancels, TaskBecomes
<1>4. \A u \in Tasks : Live(u)' => Live(u)
  BY <1>3, CancelledTask DEF Live, Over, Ended
<1>5. Reaches({})  BY DroppingReach
<1>6. \A q \in Proxies : Unbacked(q)' => Unbacked(q)  BY <1>5 DEF Unbacked, Reaches
<1>7. NewRef(Nil, Nil)  BY <1>5, NotNil, RefsOf
<1>8. \A u \in Tasks : PendingTask(u)'
  BY <1>3, <1>7, NotNil, CancelledTask, PendingKept
<1>9. QED  BY <1>1, <1>2, <1>4, <1>6, <1>8, WorkArranged

(* NotReady: a failed startup is forgotten by its handle.                  *)
LEMMA ArrangedNotReady ==
    ASSUME WellFormed, Held, Arranged, NEW c \in Calls, NotReady(c)
    PROVE  Arranged'
<1> DEFINE p == call[c].proxy
           t == call[c].task
<1>1. TypeOK /\ SeatedCall(c)  BY DEF WellFormed, Seated
<1>2. call[c].at = "wait" /\ call[c].kind # "recreate" /\ task[t].at \in Ended \ {"done"}
  BY DEF NotReady
<1>3. p \in Proxies /\ t \in Tasks  BY <1>1, <1>2 DEF SeatedCall
<1>4. Raises(c) /\ (Untouched \/ (Clears(c) /\ Drops))  BY <1>1, <1>3, NotReadyStep
<1>5. PICK s \in {proxy[p].startup, Nil} :
          /\ ProxyTo(p, proxy[p].backend, s, proxy[p].reconnect, proxy[p].lock)
          /\ s # proxy[p].startup => proxy[p].startup = t
  BY <1>1, <1>3, NotReadyStep
<1>6. CASE Clears(c) /\ Drops
  BY <1>2, <1>4, <1>5, <1>6, ArrangedDrops DEF ProxyTo
<1>7. CASE Untouched
  <2>1. UNCHANGED <<registry, task>>  BY <1>7 DEF Untouched
  <2>2. Reaches({})  BY <1>4, <1>7, DroppingReach
  <2>3. \A q \in Proxies : Forgets(q)  BY <1>2, <1>3, <1>5 DEF ProxyTo, Forgets
  <2>4. \A u \in Tasks : Live(u)' => Live(u)  BY <2>1 DEF Live, Over
  <2>5. run' = run \/ run'.phase = "none"  BY <1>4 DEF Raises, NoRun
  <2>6. /\ \A u \in Tasks : SoleTask(u)' /\ PendingTask(u)'
        /\ (\A q \in Proxies : BackedProxy(q)') /\ Prepared'
    BY <2>1, <2>2, <2>3, <2>4, <2>5, ForgetsArranged
  <2>7. ~Preparer(c)' /\ \A d \in Calls \ {c} : call'[d] = call[d]
    BY <1>4 DEF Raises, Leaves, CallTo, Preparer
  <2>8. ASSUME NEW d \in Calls, Preparer(d)' PROVE PreparingCall(d)'
    <3>1. d # c /\ call'[d] = call[d] /\ Preparer(d)  BY <2>7, <2>8 DEF Preparer
    <3>2. PreparingCall(d) /\ registry \in Proxies
      BY <3>1, CallPhase DEF Preparer, Arranged, Prepared, WellFormed, Phased
    <3>3. CASE proxy'[registry].startup = proxy[registry].startup
      BY <1>5, <2>1, <3>1, <3>2, <3>3 DEF PreparingCall, WaitsWell, Over, ProxyTo
    <3>4. CASE proxy'[registry].startup # proxy[registry].startup
      <4>1. proxy[registry].startup = t /\ task[t].at # "done" /\ Over(t)
        BY <1>2, <1>5, <3>2, <3>4 DEF ProxyTo, Over
      <4>2. call[d].at = "wait" =>
                call[d].task # Nil /\ task[call[d].task].at # "done" /\ Over(call[d].task)
        BY <1>3, <3>1, <3>2, <4>1, NotNil DEF PreparingCall, WaitsWell, WellFormed, Seated, SeatedCall
      <4>3. QED  BY <2>1, <3>1, <3>2, <4>2 DEF PreparingCall, WaitsWell, Over
    <3>5. QED  BY <3>3, <3>4
  <2>9. QED  BY <2>6, <2>8 DEF Arranged, PreparingCall
<1>8. QED  BY <1>4, <1>6, <1>7

(* The other steps of coroutines.                                          *)
LEMMA ArrangedUses ==
    ASSUME WellFormed, Held, Arranged, NEW c \in Calls, Use(c) \/ UseFails(c) \/ Recreated(c)
    PROVE  Arranged'
<1>1. TypeOK  BY DEF WellFormed
<1>2. CASE Use(c)
  <2>1. /\ call[c].at = "use" /\ UNCHANGED <<registry, proxy, task, run>>
        /\ \/ Leaves(c)
           \/ CallTo(c, "get", call[c].kind, call[c].proxy, call[c].task, Nil)
    BY <1>1, <1>2, UseStep
  <2>2. call[c].kind # "prepare"  BY <2>1 DEF WellFormed, Seated, SeatedCall
  <2>3. ~Preparer(c)' /\ \A d \in Calls \ {c} : call'[d] = call[d]
    BY <2>1, <2>2 DEF Leaves, CallTo, Preparer
  <2>4. call'[c].proxy \in {call[c].proxy, Nil}  BY <2>1 DEF Leaves, CallTo
  <2>5. Reaches({})  BY <2>1, <2>3, <2>4, CallReach
  <2>6. SameHandles /\ TasksAside  BY <2>1, <2>5 DEF SameHandles, TasksAside
  <2>7. QED  BY <2>1, <2>3, <2>6, SameArranged
<1>3. CASE UseFails(c)
  <2>1. /\ call[c].at = "use" /\ Leaves(c) /\ UNCHANGED <<proxy, run>>
        /\ Untouched \/ (Clears(c) /\ Drops)
    BY <1>1, <1>3, UseFailsStep
  <2>2. CASE Clears(c) /\ Drops  BY <2>1, <2>2, ArrangedDrops
  <2>3. CASE Untouched
    <3>1. ~Preparer(c)' /\ \A d \in Calls \ {c} : call'[d] = call[d]
      BY <2>1 DEF Leaves, CallTo, Preparer
    <3>2. Reaches({})  BY <2>1, <2>3, DroppingReach
    <3>3. SameHandles /\ TasksAside
      BY <2>1, <2>3, <3>2 DEF SameHandles, TasksAside, Untouched
    <3>4. QED  BY <2>1, <3>1, <3>3, SameArranged
  <2>4. QED  BY <2>1, <2>2, <2>3
<1>4. CASE Recreated(c)
  <2>1. Leaves(c) /\ UNCHANGED <<registry, proxy, task, run>>  BY <1>1, <1>4, RecreatedStep
  <2>2. ~Preparer(c)' /\ call'[c].proxy = Nil /\ \A d \in Calls \ {c} : call'[d] = call[d]
    BY <2>1 DEF Leaves, CallTo, Preparer
  <2>3. Reaches({})  BY <2>1, <2>2, CallReach
  <2>4. SameHandles /\ TasksAside  BY <2>1, <2>3 DEF SameHandles, TasksAside
  <2>5. QED  BY <2>1, <2>2, <2>4, SameArranged
<1>5. QED  BY <1>2, <1>3, <1>4

(* A coroutine starts with the registry's handle.                          *)
LEMMA ArrangedStart ==
    ASSUME WellFormed, Held, Arranged, NEW c \in Calls, NEW kind \in Kinds, Start(c, kind)
    PROVE  Arranged'
<1>1. TypeOK /\ registry \in OrNil(Proxies)  BY DEF WellFormed, TypeOK
<1>2. /\ call[c].at = "idle" /\ CallTo(c, "get", kind, Handle, Nil, Nil)
      /\ Takes(Kept.backend, Kept.startup, Kept.reconnect, Kept.lock)
      /\ kind = "prepare" => run.phase = "prepare"
      /\ UNCHANGED <<task, run>>
  BY <1>1, StartStep
<1>3. call'[c].proxy = Handle /\ \A d \in Calls \ {c} : call'[d] = call[d]
  BY <1>2 DEF CallTo
<1>4. Reaches({Handle})  BY <1>2, <1>3, TakesReach
<1>5. TasksAside  BY <1>2 DEF TasksAside
<1>6. CASE registry # Nil
  <2>1. Handle = registry /\ Kept = proxy[registry] /\ registry' = registry
    BY <1>2, <1>6 DEF Takes
  <2>2. Reaches({})  BY <1>4, <2>1, InUse DEF Reaches
  <2>3. SameHandles  BY <1>2, <2>1, <2>2 DEF SameHandles, Takes, ProxyTo
  <2>4. PreparingCall(c)'  BY <1>2, <2>1 DEF PreparingCall, CallTo
  <2>5. QED  BY <1>2, <1>3, <1>5, <2>3, <2>4, SameArranged
<1>7. CASE registry = Nil
  <2>1. Kept = NoProxy /\ Handle \in FreeProxies  BY <1>2, <1>7 DEF Takes
  <2>2. run.phase # "prepare"
    BY <1>7, NotNil DEF Arranged, Prepared, WellFormed, Phased
  <2>3. \A d \in Calls : ~Preparer(d)'
    BY <1>2, <1>3, <2>2, CallPhase DEF CallTo, Preparer
  <2>4. \A u \in Tasks : ~Live(u)'
    BY <1>2, <1>7 DEF Arranged, SoleTask, Live, Over
  <2>5. \A q \in Proxies : ~Unbacked(q)'
    <3>1. NoProxy.reconnect = FALSE  BY DEF NoProxy
    <3>2. proxy'[Handle].reconnect = FALSE /\ \A q \in Proxies \ {Handle} : proxy'[q] = proxy[q]
      BY <1>2, <2>1, <3>1 DEF Takes, ProxyTo
    <3>3. QED
      BY <1>4, <1>7, <3>2, NotNil DEF Arranged, BackedProxy, Unbacked, Reaches
  <2>6. NewRef(Nil, Nil)  BY <1>2, <1>4, TakesRefs
  <2>7. \A u \in Tasks : PendingTask(u)'  BY <1>2, <2>6, NotNil, PendingKept
  <2>8. QED  BY <1>2, <2>2, <2>3, <2>4, <2>5, <2>7, QuietArranged
<1>8. QED  BY <1>6, <1>7

(* Tools start in a run that works.                                        *)
LEMMA ArrangedTools ==
    ASSUME WellFormed, Held, Arranged, NEW c \in Calls, StartFile(c) \/ Recreate(c)
    PROVE  Arranged'
<1>1. TypeOK  BY DEF WellFormed
<1>2. CASE StartFile(c)
  <2>1. CallTo(c, "get", "file", run.handle, Nil, Nil) /\ UNCHANGED <<registry, proxy, task, run>>
    BY <1>1, <1>2, StartFileStep
  <2>2. /\ ~Preparer(c)' /\ call'[c].proxy = run.handle
        /\ \A d \in Calls \ {c} : call'[d] = call[d]
    BY <2>1 DEF CallTo, Preparer
  <2>3. Reaches({})  BY <2>1, <2>2, InUse, ReachKept
  <2>4. SameHandles /\ TasksAside  BY <2>1, <2>3 DEF SameHandles, TasksAside
  <2>5. QED  BY <2>1, <2>2, <2>4, SameArranged
<1>3. CASE Recreate(c)
  <2>1. UNCHANGED <<registry, proxy, run>>  BY <1>1, <1>3, RecreateStep
  <2>2. PICK t \in Tasks :
            /\ TaskNew(t, "cached", "recreate", run.inline, Nil)
            /\ CallTo(c, "wait", "recreate", Nil, t, Nil)
    BY <1>1, <1>3, RecreateStep
  <2>3. /\ ~Preparer(c)' /\ call'[c].proxy = Nil
        /\ \A d \in Calls \ {c} : call'[d] = call[d]
    BY <2>2 DEF CallTo, Preparer
  <2>4. Reaches({})  BY <2>1, <2>2, <2>3, NewHoldsNone, CallReach
  <2>5. SameHandles /\ TasksAside
    BY <2>1, <2>2, <2>4 DEF SameHandles, TasksAside, TaskNew
  <2>6. QED  BY <2>1, <2>3, <2>5, SameArranged
<1>4. QED  BY <1>2, <1>3

(* A run begins: it joins the startup there is, or starts one.             *)
LEMMA ArrangedBegin ==
    ASSUME WellFormed, Held, Arranged, Begin
    PROVE  Arranged'
<1>1. TypeOK /\ registry \in OrNil(Proxies)  BY DEF WellFormed, TypeOK
<1>2. run.phase = "none" /\ UNCHANGED call  BY <1>1, BeginStep
<1>3. PICK t \in Tasks, inline \in {Nil, bound} :
          /\ Takes(Kept.backend, t, TRUE, Kept.lock)
          /\ Joins(t) \/ StartsUp(t, inline)
          /\ run'.phase = "prepare" /\ run'.handle = Handle
  BY <1>1, BeginStep
<1>4. \A u \in Tasks : task'[u].result \in {task[u].result, Nil}
  BY <1>3, NewHoldsNone DEF Joins, StartsUp
<1>5. Reaches({Handle})  BY <1>2, <1>3, <1>4, TakesReach
<1>6. /\ registry' = Handle /\ Handle \in Proxies /\ Handle # Nil
      /\ proxy'[Handle].startup = t /\ proxy'[Handle].reconnect = TRUE
      /\ \A q \in Proxies \ {Handle} : proxy'[q] = proxy[q]
      /\ registry # Nil => Handle = registry /\ Kept = proxy[registry]
      /\ registry = Nil => Kept = NoProxy
  BY <1>3, NotNil DEF Takes, ProxyTo
<1>7. registry = Nil => Kept.startup = Nil  BY <1>6 DEF NoProxy
<1>8. \A u \in Tasks : Live(u)' => u = t
  <2>1. ASSUME NEW u \in Tasks, Live(u) PROVE Kept.startup = u
    BY <1>6, <2>1 DEF Arranged, SoleTask
  <2>2. CASE Joins(t)  BY <2>1, <2>2 DEF Joins, Live, Over
  <2>3. CASE StartsUp(t, inline)
    <3>1. \A u \in Tasks : ~Live(u)
      BY <2>1, <2>3, NotNil DEF StartsUp, Live, Over, Ended
    <3>2. QED  BY <2>3, <3>1 DEF StartsUp, TaskNew, Live, Over
  <2>4. QED  BY <1>3, <2>2, <2>3
<1>9. \A u \in Tasks : SoleTask(u)'  BY <1>3, <1>6, <1>8 DEF SoleTask
<1>10. \A q \in Proxies : BackedProxy(q)'
  BY <1>3, <1>5, <1>6, NotNil DEF Arranged, BackedProxy, Unbacked, Reaches
<1>11. Prepared'  BY <1>3, <1>6 DEF Prepared
<1>12. \A d \in Calls : PreparingCall(d)'
  <2>1. \A d \in Calls : ~Preparer(d)  BY <1>2, CallPhase DEF Preparer
  <2>2. QED  BY <1>2, <2>1 DEF PreparingCall, Preparer
<1>13. \A u \in Tasks : PendingTask(u)'
  <2>1. CASE Joins(t)
    <3>1. UNCHANGED task /\ Kept.startup = t  BY <2>1 DEF Joins
    <3>2. NewRef(Nil, Nil)  BY <1>3, <1>5, <3>1, TakesRefs
    <3>3. QED  BY <3>1, <3>2, NotNil, PendingKept
  <2>2. CASE StartsUp(t, inline)
    <3>1. NewRef(Handle, t)  BY <1>3, <1>5, TakesRefs
    <3>2. QED  BY <2>2, <3>1, PendingKept DEF StartsUp, TaskNew
  <2>3. QED  BY <1>3, <2>1, <2>2
<1>14. QED  BY <1>9, <1>10, <1>11, <1>12, <1>13 DEF Arranged

(* A startup that publishes gives the handle its backend.                  *)
LEMMA ArrangedTask ==
    ASSUME WellFormed, Held, Arranged, NEW t \in Tasks, TaskStep(t)
    PROVE  Arranged'
<1>1. TypeOK /\ registry \in OrNil(Proxies)  BY DEF WellFormed, TypeOK
<1>2. CASE Working(t)
  <2>1. /\ UNCHANGED <<registry, proxy, call, run>> /\ ~Over(t)
        /\ task'[t].kind = task[t].kind /\ \A u \in Tasks \ {t} : task'[u] = task[u]
        /\ task'[t].at = "done" => task[t].at = "attach"
    BY <1>2 DEF Working, Inside
  <2>2. Reaches({})  BY <1>2, WorkingReach
  <2>3. \A q \in Proxies : Forgets(q)  BY <2>1 DEF Forgets
  <2>4. \A u \in Tasks : Live(u)' => Live(u)  BY <2>1 DEF Live, Over
  <2>5. task[t].at = "attach" => task[t].kind = "attach"
    BY DEF WellFormed, Stocked, StockedTask
  <2>6. \A u \in Tasks : task'[u].kind = "ensure" /\ task'[u].at = "done" =>
            task[u].kind = "ensure" /\ task[u].at = "done"
    BY <2>1, <2>5
  <2>7. /\ \A u \in Tasks : SoleTask(u)' /\ PendingTask(u)'
        /\ (\A q \in Proxies : BackedProxy(q)') /\ Prepared'
    BY <2>1, <2>2, <2>3, <2>4, <2>6, ForgetsArranged
  <2>8. ASSUME NEW d \in Calls, Preparer(d)' PROVE PreparingCall(d)'
    <3>1. Preparer(d) /\ PreparingCall(d)  BY <2>1, <2>8 DEF Preparer, Arranged
    <3>2. call[d].at = "wait" => call[d].task \in Tasks
      BY DEF WellFormed, Seated, SeatedCall
    <3>3. QED  BY <2>1, <3>1, <3>2 DEF PreparingCall, WaitsWell, Over
  <2>9. QED  BY <2>7, <2>8 DEF Arranged, PreparingCall
<1>3. CASE Publishing(t)
  <2>1. /\ Publishes(t) /\ task[t].made \in Boxes /\ UNCHANGED <<call, run>>
        /\ task[t].at \in {"identity", "publish"}
    BY <1>3 DEF Publishing, Publishes
  <2>2. ~Over(t) /\ task[t].kind \in {"ensure", "recreate"}  BY <2>1, TaskAt
  <2>3. Takes(task[t].made, Nil, Kept.reconnect, Kept.lock)  BY <1>1, <2>1, PublishTakes
  <2>4. Reaches({Handle})  BY <1>3, PublishingReach
  <2>5. /\ registry' = Handle /\ Handle \in Proxies
        /\ proxy'[Handle].backend # Nil /\ proxy'[Handle].startup = Nil
        /\ proxy'[Handle].reconnect = Kept.reconnect
        /\ \A q \in Proxies \ {Handle} : proxy'[q] = proxy[q]
        /\ registry # Nil => Handle = registry /\ Kept = proxy[registry]
    BY <2>1, <2>3, NotNil DEF Takes, ProxyTo
  <2>6. \A q \in Proxies : Unbacked(q)' => Unbacked(q)
    BY <2>4, <2>5 DEF Unbacked, Reaches
  <2>7. NewRef(Nil, Nil)  BY <2>3, <2>4, TakesRefs
  <2>8. /\ task'[t].at = "done" /\ task'[t].kind = task[t].kind
        /\ \A u \in Tasks \ {t} : task'[u] = task[u]
    BY <2>1 DEF Publishes
  <2>9. \A u \in Tasks : Live(u)' => Live(u) /\ u # t  BY <2>8 DEF Live, Over, Ended
  <2>10. CASE task[t].kind = "recreate"
    <3>1. PICK c \in Calls : Recreator(c, t)
      BY <2>2, <2>10 DEF Held, Called, Recreating
    <3>2. run.phase = "work" /\ \A d \in Calls : ~Preparer(d)
      BY <3>1, CallPhase DEF Recreator
    <3>3. \A u \in Tasks : PendingTask(u)'
      BY <2>7, <2>8, <2>10, NotNil, PendingKept
    <3>4. \A d \in Calls : ~Preparer(d)'  BY <2>1, <3>2 DEF Preparer
    <3>5. QED  BY <2>1, <2>6, <2>9, <3>2, <3>3, <3>4, WorkArranged
  <2>11. CASE task[t].kind = "ensure"
    <3>1. registry # Nil /\ proxy[registry].startup = t /\ run.phase # "work"
      BY <2>2, <2>11 DEF Arranged, SoleTask, Live
    <3>2. Handle = registry /\ registry' = registry  BY <2>5, <3>1
    <3>3. \A u \in Tasks : SoleTask(u)'  BY <2>9, <3>1 DEF Arranged, SoleTask
    <3>4. \A q \in Proxies : BackedProxy(q)'
      BY <2>1, <2>6, <3>2 DEF Arranged, BackedProxy
    <3>5. Prepared'  BY <2>1, <2>5, <3>1, <3>2 DEF Arranged, Prepared
    <3>6. \A d \in Calls : PreparingCall(d)'
      <4>1. ASSUME NEW d \in Calls, Preparer(d)' PROVE PreparingCall(d)'
        <5>1. Preparer(d) /\ PreparingCall(d)  BY <2>1, <4>1 DEF Preparer, Arranged
        <5>2. call[d].at = "wait" => call[d].task \in Tasks
          BY DEF WellFormed, Seated, SeatedCall
        <5>3. call[d].at = "wait" => Over(call[d].task) \/ call[d].task = t
          BY <3>1, <5>1 DEF PreparingCall, WaitsWell
        <5>4. QED
          BY <2>1, <2>5, <2>8, <3>2, <5>1, <5>2, <5>3
          DEF PreparingCall, WaitsWell, Over, Ended
      <4>2. QED  BY <4>1 DEF PreparingCall
    <3>7. \A u \in Tasks : PendingTask(u)'
      <4>1. ASSUME NEW q \in Proxies PROVE ~Refers(q, t)'
        <5>1. Refers(q, t)' => Refers(q, t)  BY <2>7, NotNil DEF NewRef
        <5>2. Refers(registry, t) /\ registry \in Proxies
          BY <1>1, <3>1, InUse DEF Refers, OrNil
        <5>3. Refers(q, t) => q = registry  BY <5>2 DEF Held, Referred, ReferredTask
        <5>4. QED  BY <2>5, <3>2, <5>1, <5>3, NotNil DEF Refers
      <4>2. \A u \in Tasks \ {t} : PendingTask(u)'
        BY <2>7, <2>8, NotNil DEF Arranged, PendingTask, NewRef
      <4>3. QED  BY <4>1, <4>2 DEF PendingTask
    <3>8. QED  BY <3>3, <3>4, <3>5, <3>6, <3>7 DEF Arranged
  <2>12. QED  BY <2>2, <2>10, <2>11
<1>4. QED  BY <1>2, <1>3, TaskWorks

(* An orphan is not the preparation of a run.                              *)
LEMMA ArrangedIdentityFails ==
    ASSUME WellFormed, Held, Arranged, NEW c \in Calls, IdentityFails(c)
    PROVE  Arranged'
<1>1. /\ Orphans(c) /\ run' = NoRun /\ UNCHANGED <<registry, proxy, task>>
  BY IdentityFailsStep DEF WellFormed
<1>2. /\ ~Preparer(c)' /\ call'[c].proxy = call[c].proxy
      /\ \A d \in Calls \ {c} : call'[d] = call[d]
  BY <1>1 DEF Orphans, Preparer
<1>3. Reaches({})  BY <1>1, <1>2, NoneInUse, CallReach
<1>4. SameHandles /\ TasksAside  BY <1>1, <1>3 DEF SameHandles, TasksAside
<1>5. run'.phase = "none"  BY <1>1 DEF NoRun
<1>6. QED  BY <1>2, <1>4, <1>5, SameArranged

(* Runs that end, the process and the provider.                            *)
LEMMA ArrangedOutside ==
    ASSUME WellFormed, Held, Arranged,
           Interrupt \/ Crash \/ Finish \/ (\E b \in Boxes : Delete(b)) \/ UNCHANGED vars
    PROVE  Arranged'
<1>1. TypeOK  BY DEF WellFormed
<1>2. NoCall.at = "idle" /\ NoTask.at = "free" /\ NoTask.kind = "ensure" /\ NoRun.phase = "none"
      /\ NoProxy.reconnect = FALSE
  BY DEF NoCall, NoTask, NoRun, NoProxy
<1>3. CASE Interrupt
  <2>1. Interrupts  BY <1>1, <1>3, InterruptStep DEF WellFormed, Seated, SeatedCall
  <2>2. Reaches({})  BY <2>1, InterruptReach
  <2>3. /\ registry' = registry /\ (\A q \in Proxies : Forgets(q)) /\ run'.phase = "none"
        /\ \A u \in Tasks : task'[u] \in {task[u], Cancelled}
    BY <1>2, <2>1 DEF Interrupts
  <2>4. \A u \in Tasks : /\ Live(u)' => Live(u)
                         /\ task'[u].kind = "ensure" /\ task'[u].at = "done" =>
                                task[u].kind = "ensure" /\ task[u].at = "done"
    BY <2>3, CancelledTask DEF Live, Over, Ended
  <2>5. /\ \A u \in Tasks : SoleTask(u)' /\ PendingTask(u)'
        /\ (\A q \in Proxies : BackedProxy(q)') /\ Prepared'
    BY <2>2, <2>3, <2>4, ForgetsArranged
  <2>6. \A d \in Calls : ~Preparer(d)'  BY <1>2, <2>1 DEF Interrupts, InRun, Preparer
  <2>7. QED  BY <2>5, <2>6 DEF Arranged, PreparingCall
<1>4. CASE Crash
  <2>1. /\ registry' = Nil /\ run' = NoRun
        /\ \A c \in Calls : call'[c] = NoCall
        /\ \A u \in Tasks : task'[u] = NoTask
        /\ \A q \in Proxies : proxy'[q] = NoProxy
    BY <1>1, <1>4, CrashStep
  <2>2. \A u \in Tasks : ~Live(u)' /\ PendingTask(u)'
    BY <1>2, <2>1 DEF Live, Over, PendingTask
  <2>3. QED  BY <1>2, <2>1, <2>2, QuietArranged DEF Unbacked, Preparer
<1>5. CASE Finish
  <2>1. run' = NoRun /\ UNCHANGED <<registry, proxy, task, call>>  BY <1>1, <1>5, FinishStep
  <2>2. Reaches({})  BY <2>1, FinishReach
  <2>3. SameHandles /\ TasksAside  BY <2>1, <2>2 DEF SameHandles, TasksAside
  <2>4. QED  BY <1>2, <2>1, <2>3, SameArranged
<1>6. CASE (\E b \in Boxes : Delete(b)) \/ UNCHANGED vars
  <2>1. UNCHANGED <<registry, proxy, task, call, run>>
    BY <1>1, <1>6, DeleteStep DEF vars, memory
  <2>2. Reaches({})  BY <2>1, InUse, ReachKept
  <2>3. SameHandles /\ TasksAside  BY <2>1, <2>2 DEF SameHandles, TasksAside
  <2>4. QED  BY <2>1, <2>3, SameArranged
<1>7. QED  BY <1>3, <1>4, <1>5, <1>6

(* The causes only grow.                                                   *)
LEMMA CausesGrow ==
    ASSUME WellFormed, [Next]_vars
    PROVE  causes \subseteq causes'
<1> DEFINE G == causes \subseteq causes'
<1>1. TypeOK  BY DEF WellFormed
<1>2. \A more : Noting(more) => G  BY DEF Noting
<1>3. CASE UNCHANGED vars  BY <1>3 DEF vars
<1>4. CASE Begin \/ Finish  BY <1>4 DEF Begin, Finish
<1>5. CASE Interrupt \/ Crash  BY <1>5 DEF Interrupt, Crash
<1>6. ASSUME NEW b \in Boxes, Delete(b) PROVE G  BY <1>6 DEF Delete
<1>7. ASSUME NEW c \in Calls, NEW kind \in Kinds, Start(c, kind) PROVE G  BY <1>7 DEF Start
<1>8. ASSUME NEW c \in Calls, StartFile(c) \/ Recreate(c) \/ IdentityFails(c) PROVE G
  BY <1>8 DEF StartFile, Recreate, IdentityFails, bounds
<1>9. ASSUME NEW c \in Calls, CallStep(c) PROVE G
  <2>1. Clear => G  BY DEF Clear
  <2>2. \A i, id, more : ReadId(i, id, more) => G  BY DEF ReadId
  <2>3. QED
    BY <1>9, <2>1, <2>2
    DEF CallStep, Get, Lookup, Ready, NotReady, Use, UseFails, Recreated, bounds
<1>10. ASSUME NEW t \in Tasks, TaskStep(t) PROVE G
  <2>1. Working(t) \/ Publishing(t)  BY <1>10, TaskWorks
  <2>2. Publishes(t) => G  BY <1>2 DEF Publishes
  <2>3. QED  BY <2>1, <2>2 DEF Working, Publishing
<1>11. QED  BY <1>3, <1>4, <1>5, <1>6, <1>7, <1>8, <1>9, <1>10 DEF Next

(* Every orderly step keeps the arrangement.                               *)
LEMMA ArrangedNext ==
    ASSUME WellFormed, Held, Arranged, [Next]_vars, Orderly'
    PROVE  Arranged'
<1>1. ASSUME NEW c \in Calls, CallStep(c) PROVE Arranged'
  BY <1>1, ArrangedGet, ArrangedLookup, ArrangedReady, ArrangedNotReady, ArrangedUses
  DEF CallStep
<1>2. QED
  BY <1>1, ArrangedOutside, ArrangedBegin, ArrangedStart, ArrangedTools, ArrangedIdentityFails,
     ArrangedTask
  DEF Next

(* So it holds until a coroutine acts on an outdated handle.               *)
LEMMA AlwaysArranged == Spec => [](Orderly => Arranged)
<1>1. Init => Arranged
  <2> SUFFICES ASSUME Init PROVE Arranged
    OBVIOUS
  <2>1. NoCall.at = "idle" /\ NoTask.at = "free" /\ NoTask.kind = "ensure" /\ NoRun.phase = "none"
        /\ NoProxy.reconnect = FALSE
    BY DEF NoCall, NoTask, NoRun, NoProxy
  <2>2. QED
    BY <2>1
    DEF Init, Arranged, SoleTask, Live, Over, PendingTask, BackedProxy, Unbacked, Prepared,
        PreparingCall, Preparer
<1>2. WellFormed /\ Held /\ (Orderly => Arranged) /\ [Next]_vars => (Orderly => Arranged)'
  <2> SUFFICES ASSUME WellFormed, Held, Orderly => Arranged, [Next]_vars, Orderly'
               PROVE  Arranged'
    OBVIOUS
  <2>1. causes \subseteq causes'  BY CausesGrow
  <2>2. Orderly  BY <2>1 DEF Orderly, Without
  <2>3. QED  BY <2>2, ArrangedNext
<1>3. QED  BY <1>1, <1>2, AlwaysWellFormed, AlwaysHeld, PTL DEF Spec

(***************************************************************************)
(* A thread does not provision two sandboxes at a time for its runs.       *)
(***************************************************************************)
THEOREM StartupsAreSingle == Spec => []OneStartup
<1>1. (Orderly => Arranged) => OneStartup
  <2> SUFFICES ASSUME Orderly => Arranged, Without({"raced", "returned"})
               PROVE  Cardinality(Provisioning) <= 1
    BY DEF OneStartup
  <2>1. Arranged  BY DEF Orderly
  <2>2. Provisioning \subseteq {proxy[registry].startup}
    BY <2>1 DEF Provisioning, Arranged, SoleTask, Live
  <2>3. CASE Provisioning = {}
    BY <2>3, FS_EmptySet
  <2>4. CASE Provisioning # {}
    <3>1. Provisioning = {proxy[registry].startup}  BY <2>2, <2>4
    <3>2. Cardinality({proxy[registry].startup}) = 1  BY FS_Singleton
    <3>3. QED  BY <3>1, <3>2
  <2>5. QED  BY <2>3, <2>4
<1>2. QED  BY <1>1, AlwaysArranged, PTL

-----------------------------------------------------------------------------
(***************************************************************************)
(* What is in memory.  As long as no cause but an unreadable id is named,  *)
(* what a task knows, binds and leaves in the registry's handle is what    *)
(* the thread is bound to, or a task is about to publish that.             *)
(***************************************************************************)
Calm == causes \subseteq {"blind"}

Publisher(t) == task[t].at = "publish"
Rebinder(t) == task[t].kind = "recreate" /\ Publisher(t)

KnownTask(t) ==
    task[t].at \in {"connect", "refresh", "create", "identity", "bind"} =>
        task[t].known \in {Nil, bound} \/ Rebinding

(* Of two recreations that have bound the thread, one was first.           *)
PublishedTask(t) ==
    Publisher(t) =>
        \/ task[t].made = bound
        \/ task[t].kind = "recreate" /\ \E u \in Tasks \ {t} : Rebinder(u)

InMemory ==
    registry # Nil =>
        proxy[registry].backend \in {Nil, bound} \/ \E t \in Tasks : Publisher(t)

AttachingTask(t) ==
    (/\ registry # Nil /\ proxy[registry].startup = t
     /\ task[t].kind = "attach" /\ task[t].at \in {"attach", "done"}) =>
        task[t].made = bound \/ Rebinding

Agreed ==
    /\ \A t \in Tasks : KnownTask(t) /\ PublishedTask(t) /\ AttachingTask(t)
    /\ InMemory

(* Causes are not taken back.                                              *)
LEMMA CalmBefore ==
    ASSUME NEW more, Noting(more), Calm'
    PROVE  more \subseteq {"blind"}
  BY DEF Noting, Calm

(* A startup of a run excludes recreations, and other startups.            *)
LEMMA Alone ==
    ASSUME WellFormed, Held, Arranged, NEW t \in Tasks, Live(t), NEW u \in Tasks \ {t}
    PROVE  Over(u) \/ task[u].kind = "attach"
<1>1. run.phase # "work" /\ proxy[registry].startup = t  BY DEF Arranged, SoleTask
<1>2. ~Live(u)  BY <1>1 DEF Arranged, SoleTask
<1>3. ~Recreating(u)
  BY <1>1, CallPhase DEF Held, Called, Recreator
<1>4. QED  BY <1>2, <1>3, TaskAt DEF Live, Recreating

(* A recreation excludes the startups of runs.                             *)
LEMMA NoStartups ==
    ASSUME WellFormed, Held, Arranged, NEW t \in Tasks, Recreating(t)
    PROVE  run.phase = "work" /\ \A u \in Tasks : ~Live(u)
<1>1. run.phase = "work"  BY CallPhase DEF Held, Called, Recreator
<1>2. QED  BY <1>1, AtWork

(* A task that publishes is under way.                                     *)
LEMMA PublisherWorks ==
    ASSUME WellFormed, NEW t \in Tasks, Publisher(t)
    PROVE  Live(t) \/ Recreating(t)
  BY TaskAt DEF Publisher, Live, Recreating

(***************************************************************************)
(* Tasks that bind nothing, and of which none that has bound goes away.    *)
(***************************************************************************)
TasksStill ==
    \A u \in Tasks :
        \/ task'[u] = task[u]
        \/ /\ ~Publisher(u)
           /\ task'[u].at \notin {"connect", "refresh", "create", "identity", "bind", "publish"}

(* So what the tasks know stays what it was.                               *)
LEMMA StillAgreed ==
    ASSUME Agreed, bound' = bound, TasksStill
    PROVE  /\ \A t \in Tasks : KnownTask(t)' /\ PublishedTask(t)' /\ (Publisher(t)' <=> Publisher(t))
           /\ Rebinding' <=> Rebinding
<1>1. \A t \in Tasks : (Publisher(t)' <=> Publisher(t)) /\ (Rebinder(t)' <=> Rebinder(t))
  BY DEF TasksStill, Publisher, Rebinder
<1>2. Rebinding' <=> Rebinding  BY <1>1 DEF Rebinding, Rebinder, Publisher
<1>3. \A t \in Tasks : KnownTask(t)'  BY <1>2 DEF Agreed, KnownTask, TasksStill
<1>4. \A t \in Tasks : PublishedTask(t)'
  BY <1>1 DEF Agreed, PublishedTask, TasksStill, Publisher
<1>5. QED  BY <1>1, <1>2, <1>3, <1>4

(* What the registry has is what it had, or nothing.                       *)
SameMemory ==
    registry' # Nil =>
        /\ \/ registry' = registry /\ proxy'[registry'].backend = proxy[registry].backend
           \/ proxy'[registry'].backend = Nil
        /\ \/ registry' = registry /\ proxy'[registry'].startup = proxy[registry].startup
           \/ proxy'[registry'].startup \notin Tasks
           \/ task'[proxy'[registry'].startup].kind # "attach"

(* Together they keep what is in memory in agreement.                      *)
LEMMA SameAgreed ==
    ASSUME Agreed, bound' = bound, TasksStill, SameMemory,
           \A u \in Tasks : task'[u] = task[u] \/ task'[u].kind # "attach"
    PROVE  Agreed'
<1>1. /\ \A t \in Tasks : KnownTask(t)' /\ PublishedTask(t)' /\ (Publisher(t)' <=> Publisher(t))
      /\ Rebinding' <=> Rebinding
  BY StillAgreed
<1>2. InMemory'  BY <1>1 DEF Agreed, InMemory, SameMemory
<1>3. \A t \in Tasks : AttachingTask(t)'
  BY <1>1 DEF Agreed, AttachingTask, SameMemory
<1>4. QED  BY <1>1, <1>2, <1>3 DEF Agreed

(* Get: a task that is started knows nothing yet.                          *)
LEMMA AgreedGet ==
    ASSUME WellFormed, Held, Arranged, Agreed, NEW c \in Calls, Get(c)
    PROVE  Agreed'
<1> DEFINE p == call[c].proxy
<1>1. TypeOK /\ SeatedCall(c) /\ registry \in OrNil(Proxies)
  BY DEF WellFormed, Seated, TypeOK
<1>2. call[c].at = "get"  BY DEF Get
<1>3. p \in Proxies  BY <1>1, <1>2 DEF SeatedCall, GetReady, Get
<1>4. /\ Elsewhere
      /\ GetReady(c) \/ GetJoins(c) \/ (\E t \in Tasks : GetStarts(c, t)) \/ GetLocks(c)
  BY <1>1, <1>3, GetStep
<1>5. registry' = registry /\ bound' = bound  BY <1>4 DEF Elsewhere
<1> HIDE DEF p
<1>6. p = call[c].proxy  BY DEF p
<1>7. CASE GetReady(c) \/ GetJoins(c) \/ GetLocks(c)
  <2>1. /\ UNCHANGED task
        /\ UNCHANGED proxy \/ (/\ proxy[p].startup = Nil /\ proxy[p].backend = Nil
                               /\ ProxyTo(p, Nil, Nil, FALSE, TRUE))
    BY <1>6, <1>7 DEF GetReady, GetJoins, GetLocks
  <2>2. TasksStill  BY <2>1 DEF TasksStill
  <2>3. SameMemory  BY <1>1, <1>5, <2>1 DEF SameMemory, ProxyTo, OrNil
  <2>4. QED  BY <1>5, <2>1, <2>2, <2>3, SameAgreed
<1>8. ASSUME NEW t \in Tasks, GetStarts(c, t) PROVE Agreed'
  <2>1. /\ proxy[p].backend = Nil
        /\ TaskNew(t, "cached", "ensure", Inline(c), Nil)
        /\ ProxyTo(p, Nil, t, TRUE, proxy[p].lock)
    BY <1>6, <1>8 DEF GetStarts
  <2>2. Over(t)  BY <2>1, FreeTask DEF TaskNew
  <2>3. TasksStill  BY <2>1, <2>2 DEF TasksStill, TaskNew, Publisher, Over, Ended
  <2>4. SameMemory  BY <1>1, <1>5, <2>1 DEF SameMemory, ProxyTo, TaskNew, OrNil
  <2>5. QED  BY <1>5, <2>1, <2>3, <2>4, SameAgreed DEF TaskNew
<1>9. QED  BY <1>4, <1>7, <1>8

(* An id that is read without a cause is the one the thread is bound to.   *)
LEMMA ReadBound ==
    ASSUME NEW inline, NEW id, NEW more, Reads(inline, id, more), Calm'
    PROVE  id \in {Nil, bound} /\ more \subseteq {"blind"}
<1>1. causes' \subseteq {"blind"}  BY DEF Calm
<1>2. CASE inline = Nil /\ bound # Nil /\ id = Nil /\ Noting({"blind"} \union more)
  BY <1>1, <1>2 DEF Noting
<1>3. CASE /\ id = IF inline # Nil THEN inline ELSE bound
           /\ Noting(When(inline \notin {Nil, bound}, "stale") \union more)
  <2>1. When(inline \notin {Nil, bound}, "stale") \subseteq {"blind"} /\ more \subseteq {"blind"}
    BY <1>1, <1>3 DEF Noting
  <2>2. inline \in {Nil, bound}
    <3>1. CASE inline \notin {Nil, bound}
      <4>1. "stale" \in {"blind"}  BY <2>1, <3>1 DEF When
      <4>2. QED  BY <4>1
    <3>2. QED  BY <3>1
  <2>3. QED  BY <1>3, <2>1, <2>2
<1>4. QED  BY <1>2, <1>3 DEF Reads

(* Lookup: the task attaches to what the thread is bound to.               *)
LEMMA AgreedLookup ==
    ASSUME WellFormed, Held, Arranged, Agreed, NEW c \in Calls, Lookup(c), Calm'
    PROVE  Agreed'
<1> DEFINE p == call[c].proxy
<1>1. TypeOK /\ SeatedCall(c) /\ registry \in OrNil(Proxies)
  BY DEF WellFormed, Seated, TypeOK
<1>2. call[c].at = "lookup"  BY DEF Lookup
<1>3. p \in Proxies  BY <1>1, <1>2 DEF SeatedCall
<1>4. PICK id \in OrNil(Boxes) :
          /\ Reads(Inline(c), id, When(Changed(p), "raced"))
          /\ LookupRaises(c, id) \/ \E t \in Tasks : LookupAttaches(c, id, t)
  BY <1>1, <1>3, LookupStep
<1>5. UNCHANGED <<registry, bound>>  BY <1>1, <1>3, LookupStep
<1>6. id \in {Nil, bound}  BY <1>4, ReadBound
<1> HIDE DEF p
<1>7. p = call[c].proxy  BY DEF p
<1>8. CASE LookupRaises(c, id)
  <2>1. /\ UNCHANGED task
        /\ ProxyTo(p, proxy[p].backend, proxy[p].startup, proxy[p].reconnect, FALSE)
    BY <1>7, <1>8 DEF LookupRaises
  <2>2. TasksStill  BY <2>1 DEF TasksStill
  <2>3. SameMemory  BY <1>1, <1>5, <2>1 DEF SameMemory, ProxyTo, OrNil
  <2>4. QED  BY <1>5, <2>1, <2>2, <2>3, SameAgreed
<1>9. ASSUME NEW t \in Tasks, LookupAttaches(c, id, t) PROVE Agreed'
  <2>1. /\ id \in Boxes /\ TaskNew(t, "attach", "attach", Nil, id)
        /\ ProxyTo(p, proxy[p].backend, t, proxy[p].reconnect, FALSE)
    BY <1>7, <1>9 DEF LookupAttaches
  <2>2. Over(t) /\ \A q \in Proxies : ~Refers(q, t)  BY <2>1, FreeTask DEF TaskNew
  <2>3. TasksStill  BY <2>1, <2>2 DEF TasksStill, TaskNew, Publisher, Over, Ended
  <2>4. /\ \A u \in Tasks : KnownTask(u)' /\ PublishedTask(u)' /\ (Publisher(u)' <=> Publisher(u))
        /\ Rebinding' <=> Rebinding
    BY <1>5, <2>3, StillAgreed
  <2>5. /\ registry' = registry /\ bound' = bound
        /\ registry # Nil => proxy'[registry].backend = proxy[registry].backend
    BY <1>1, <1>5, <2>1 DEF ProxyTo, OrNil
  <2>6. InMemory'  BY <2>4, <2>5 DEF Agreed, InMemory
  <2>7. ASSUME NEW u \in Tasks PROVE AttachingTask(u)'
    <3>1. CASE u = t
      BY <1>6, <2>1, <2>5, <3>1, NotNil DEF AttachingTask, TaskNew
    <3>2. CASE u # t
      <4>1. task'[u] = task[u]  BY <2>1, <3>2 DEF TaskNew
      <4>2. registry # Nil /\ proxy'[registry].startup = u => proxy[registry].startup = u
        BY <1>1, <2>1, <3>2 DEF ProxyTo, OrNil
      <4>3. QED  BY <2>4, <2>5, <4>1, <4>2 DEF Agreed, AttachingTask
    <3>3. QED  BY <3>1, <3>2
  <2>8. QED  BY <2>4, <2>6, <2>7 DEF Agreed
<1>10. QED  BY <1>4, <1>8, <1>9

(* What a late waiter finds is not the work of a startup or recreation.    *)
LEMMA ReadyAttached ==
    ASSUME WellFormed, Held, Arranged, NEW p \in Proxies, NEW t \in Tasks,
           Reachable(p), proxy[p].startup = t, task[t].at = "done"
    PROVE  task[t].kind = "attach" /\ Outcome(t) = task[t].made
<1>1. Refers(p, t)  BY DEF Refers
<1>2. task[t].kind # "recreate"  BY <1>1 DEF Held, Referred, ReferredTask
<1>3. task[t].kind # "ensure"  BY <1>1 DEF Arranged, PendingTask
<1>4. QED  BY <1>2, <1>3, TaskAt DEF Outcome

(* Ready: what is installed is what the task attached to.                  *)
LEMMA AgreedReady ==
    ASSUME WellFormed, Held, Arranged, Agreed, NEW c \in Calls, Ready(c), Calm'
    PROVE  Agreed'
<1> DEFINE p == call[c].proxy
           t == call[c].task
<1>1. TypeOK /\ SeatedCall(c)  BY DEF WellFormed, Seated
<1>2. call[c].at = "wait" /\ call[c].kind # "recreate" /\ task[t].at = "done"
  BY DEF Ready
<1>3. p \in Proxies /\ t \in Tasks  BY <1>1, <1>2 DEF SeatedCall
<1>4. Outcome(t) \in Boxes /\ Outcome(t) \in OrNil(Boxes)
  BY <1>2, <1>3, OutcomeBox DEF OrNil
<1>5. UNCHANGED <<task, bound>>  BY <1>1, <1>3, <1>4, ReadyStep
<1>6. PICK b \in OrNil(Boxes) : Ends(c, b) /\ (ReadyMine(c, b) \/ ReadyLate(c, b))
  BY <1>1, <1>3, <1>4, ReadyStep
<1>7. Reachable(p)  BY InUse
<1>8. TasksStill  BY <1>5 DEF TasksStill
<1> HIDE DEF p, t
<1>9. p = call[c].proxy /\ t = call[c].task  BY DEF p, t
<1>10. CASE ReadyMine(c, b)
  <2>1. /\ proxy[p].startup = t /\ b = Outcome(t) /\ registry' = p
        /\ ProxyTo(p, b, Nil, proxy[p].reconnect, proxy[p].lock)
    BY <1>9, <1>10 DEF ReadyMine
  <2>2. registry = p
    BY <1>9, <1>10 DEF ReadyMine, Noting, When, Calm
  <2>3. task[t].kind = "attach" /\ b = task[t].made
    BY <1>2, <1>3, <1>7, <1>9, <2>1, ReadyAttached
  <2>4. b = bound \/ Rebinding
    BY <1>2, <1>3, <1>9, <2>1, <2>2, <2>3, NotNil DEF Agreed, AttachingTask
  <2>5. /\ \A u \in Tasks : KnownTask(u)' /\ PublishedTask(u)' /\ (Publisher(u)' <=> Publisher(u))
        /\ Rebinding' <=> Rebinding
    BY <1>5, <1>8, StillAgreed
  <2>6. proxy'[registry'].backend = b /\ proxy'[registry'].startup = Nil
    BY <1>3, <2>1 DEF ProxyTo
  <2>7. InMemory'  BY <1>5, <2>4, <2>5, <2>6 DEF InMemory, Rebinding, Publisher
  <2>8. \A u \in Tasks : AttachingTask(u)'  BY <2>6, NotNil DEF AttachingTask
  <2>9. QED  BY <2>5, <2>7, <2>8 DEF Agreed
<1>11. CASE ReadyLate(c, b)
  <2>1. SameMemory  BY <1>11 DEF ReadyLate, SameMemory
  <2>2. QED  BY <1>5, <1>8, <2>1, SameAgreed
<1>12. QED  BY <1>6, <1>10, <1>11

(* A coroutine that leaves, and may drop the handle.                       *)
LEMMA AgreedDropping ==
    ASSUME WellFormed, Agreed, Untouched \/ Drops, Calm', bound' = bound,
           \A q \in Proxies : /\ proxy'[q].startup \in {proxy[q].startup, Nil}
                              /\ proxy'[q].backend = proxy[q].backend
    PROVE  Agreed'
<1>1. registry \in OrNil(Proxies)  BY DEF WellFormed, TypeOK
<1>2. TasksStill /\ \A u \in Tasks : task'[u] = task[u] \/ task'[u].kind # "attach"
  <2>1. CASE UNCHANGED task  BY <2>1 DEF TasksStill
  <2>2. ASSUME NEW t \in Tasks, Cancels(t)
        PROVE  TasksStill /\ \A u \in Tasks : task'[u] = task[u] \/ task'[u].kind # "attach"
    <3>1. ~Publisher(t)
      BY <2>2, CalmBefore DEF Cancels, When, Publisher
    <3>2. task'[t] = Cancelled /\ \A u \in Tasks \ {t} : task'[u] = task[u]
      BY <2>2 DEF Cancels, TaskBecomes
    <3>3. QED  BY <3>1, <3>2, CancelledTask DEF TasksStill
  <2>3. QED  BY <2>1, <2>2 DEF Untouched, Drops
<1>3. registry' \in {registry, Nil}  BY DEF Untouched, Drops
<1>4. SameMemory  BY <1>1, <1>3, NotNil DEF SameMemory, OrNil
<1>5. QED  BY <1>2, <1>4, SameAgreed

(* A step that leaves the registry, the handles and the tasks alone.       *)
LEMMA AgreedIdle ==
    ASSUME Agreed, UNCHANGED <<registry, proxy, task, bound>>
    PROVE  Agreed'
  BY DEF Agreed, KnownTask, PublishedTask, AttachingTask, InMemory, Publisher, Rebinder, Rebinding

(* The operations of tools, and what a failure drops.                      *)
LEMMA AgreedUses ==
    ASSUME WellFormed, Agreed, NEW c \in Calls, Use(c) \/ UseFails(c) \/ Recreated(c), Calm'
    PROVE  Agreed'
<1>1. TypeOK  BY DEF WellFormed
<1>2. CASE Use(c)
  <2>1. UNCHANGED <<registry, proxy, task, bound>>  BY <1>1, <1>2, UseStep
  <2>2. QED  BY <2>1, AgreedIdle
<1>3. CASE UseFails(c)
  <2>1. UNCHANGED <<proxy, bound>> /\ (Untouched \/ Drops)  BY <1>1, <1>3, UseFailsStep
  <2>2. QED  BY <2>1, AgreedDropping
<1>4. CASE Recreated(c)
  <2>1. UNCHANGED <<registry, proxy, task, bound>>  BY <1>1, <1>4, RecreatedStep
  <2>2. QED  BY <2>1, AgreedIdle
<1>5. QED  BY <1>2, <1>3, <1>4

(* A waiter whose task has failed.                                         *)
LEMMA AgreedNotReady ==
    ASSUME WellFormed, Agreed, NEW c \in Calls, NotReady(c), Calm'
    PROVE  Agreed'
<1> DEFINE p == call[c].proxy
<1>1. TypeOK /\ SeatedCall(c)  BY DEF WellFormed, Seated
<1>2. call[c].at = "wait" /\ call[c].kind # "recreate"  BY DEF NotReady
<1>3. p \in Proxies  BY <1>1, <1>2 DEF SeatedCall
<1>4. UNCHANGED bound /\ (Untouched \/ Drops)  BY <1>1, <1>3, NotReadyStep
<1>5. PICK s \in {proxy[p].startup, Nil} :
          ProxyTo(p, proxy[p].backend, s, proxy[p].reconnect, proxy[p].lock)
  BY <1>1, <1>3, NotReadyStep
<1> HIDE DEF p
<1>6. \A q \in Proxies : /\ proxy'[q].startup \in {proxy[q].startup, Nil}
                         /\ proxy'[q].backend = proxy[q].backend
  BY <1>3, <1>5 DEF ProxyTo
<1>7. QED  BY <1>4, <1>6, AgreedDropping

(* Coroutines that start, and runs that begin.                             *)
LEMMA AgreedStart ==
    ASSUME WellFormed, Agreed, NEW c \in Calls, NEW kind \in Kinds, Start(c, kind)
    PROVE  Agreed'
<1>1. TypeOK  BY DEF WellFormed
<1>2. /\ Takes(Kept.backend, Kept.startup, Kept.reconnect, Kept.lock)
      /\ UNCHANGED <<task, bound>>
  BY <1>1, StartStep
<1>3. NoProxy.backend = Nil /\ NoProxy.startup = Nil  BY DEF NoProxy
<1>4. SameMemory  BY <1>2, <1>3, NotNil DEF SameMemory, Takes, ProxyTo
<1>5. TasksStill  BY <1>2 DEF TasksStill
<1>6. QED  BY <1>2, <1>4, <1>5, SameAgreed

(* Tools start with what is there.                                         *)
LEMMA AgreedTools ==
    ASSUME WellFormed, Agreed, NEW c \in Calls, StartFile(c) \/ Recreate(c)
    PROVE  Agreed'
<1>1. TypeOK  BY DEF WellFormed
<1>2. CASE StartFile(c)
  <2>1. UNCHANGED <<registry, proxy, task, bound>>  BY <1>1, <1>2, StartFileStep
  <2>2. QED  BY <2>1, AgreedIdle
<1>3. CASE Recreate(c)
  <2>1. UNCHANGED <<registry, proxy, bound>>  BY <1>1, <1>3, RecreateStep
  <2>2. PICK t \in Tasks : TaskNew(t, "cached", "recreate", run.inline, Nil)
    BY <1>1, <1>3, RecreateStep
  <2>3. Over(t)  BY <2>2, FreeTask DEF TaskNew
  <2>4. TasksStill /\ \A u \in Tasks : task'[u] = task[u] \/ task'[u].kind # "attach"
    BY <2>2, <2>3 DEF TasksStill, TaskNew, Publisher, Over, Ended
  <2>5. SameMemory  BY <2>1 DEF SameMemory
  <2>6. QED  BY <2>1, <2>4, <2>5, SameAgreed
<1>4. QED  BY <1>2, <1>3

(* A run begins with what is there.                                        *)
LEMMA AgreedBegin ==
    ASSUME WellFormed, Agreed, Begin
    PROVE  Agreed'
<1>1. TypeOK  BY DEF WellFormed
<1>2. UNCHANGED bound  BY <1>1, BeginStep
<1>3. PICK t \in Tasks, inline \in {Nil, bound} :
          Takes(Kept.backend, t, TRUE, Kept.lock) /\ (Joins(t) \/ StartsUp(t, inline))
  BY <1>1, BeginStep
<1>4. NoProxy.backend = Nil /\ NoProxy.startup = Nil  BY DEF NoProxy
<1>5. /\ registry' = Handle
      /\ proxy'[Handle].startup = t /\ proxy'[Handle].backend = Kept.backend
      /\ registry # Nil => Handle = registry /\ Kept = proxy[registry]
      /\ registry = Nil => Kept.backend = Nil /\ Kept.startup = Nil
  BY <1>3, <1>4 DEF Takes, ProxyTo
<1>6. CASE Joins(t)
  <2>1. UNCHANGED task /\ Kept.startup = t  BY <1>6 DEF Joins
  <2>2. SameMemory  BY <1>5, <2>1, NotNil DEF SameMemory
  <2>3. TasksStill  BY <2>1 DEF TasksStill
  <2>4. QED  BY <1>2, <2>1, <2>2, <2>3, SameAgreed
<1>7. CASE StartsUp(t, inline)
  <2>1. TaskNew(t, "cached", "ensure", inline, Nil)  BY <1>7 DEF StartsUp
  <2>2. Over(t)  BY <2>1, FreeTask DEF TaskNew
  <2>3. TasksStill /\ \A u \in Tasks : task'[u] = task[u] \/ task'[u].kind # "attach"
    BY <2>1, <2>2 DEF TasksStill, TaskNew, Publisher, Over, Ended
  <2>4. SameMemory  BY <1>5, <2>1 DEF SameMemory, TaskNew
  <2>5. QED  BY <1>2, <2>3, <2>4, SameAgreed
<1>8. QED  BY <1>3, <1>6, <1>7

(* Runs that end, the process and the provider.                            *)
LEMMA AgreedOutside ==
    ASSUME WellFormed, Agreed, Calm',
           Interrupt \/ Crash \/ Finish \/ (\E b \in Boxes : Delete(b)) \/ UNCHANGED vars
    PROVE  Agreed'
<1>1. TypeOK /\ registry \in OrNil(Proxies)  BY DEF WellFormed, TypeOK
<1>2. CASE Interrupt
  <2>1. Interrupts  BY <1>1, <1>2, InterruptStep DEF WellFormed, Seated, SeatedCall
  <2>2. /\ UNCHANGED <<registry, bound>> /\ (\A q \in Proxies : Forgets(q))
        /\ Noting(When(Rebinding, "torn"))
        /\ \A u \in Tasks : task'[u] = task[u] \/ (Recreating(u) /\ task'[u] = Cancelled)
    BY <2>1 DEF Interrupts, Recreating
  <2>3. ~Rebinding  BY <2>2, CalmBefore DEF When
  <2>4. \A u \in Tasks : Recreating(u) => ~Publisher(u)
    BY <2>3 DEF Rebinding, Recreating, Publisher
  <2>5. TasksStill /\ \A u \in Tasks : task'[u] = task[u] \/ task'[u].kind # "attach"
    BY <2>2, <2>4, CancelledTask DEF TasksStill
  <2>6. SameMemory  BY <1>1, <2>2, NotNil DEF SameMemory, Forgets, OrNil
  <2>7. QED  BY <2>2, <2>5, <2>6, SameAgreed
<1>3. CASE Crash
  <2>1. registry' = Nil /\ \A u \in Tasks : task'[u] = NoTask  BY <1>1, <1>3, CrashStep
  <2>2. NoTask.at = "free"  BY DEF NoTask
  <2>3. QED
    BY <2>1, <2>2 DEF Agreed, KnownTask, PublishedTask, Publisher, AttachingTask, InMemory
<1>4. CASE Finish \/ (\E b \in Boxes : Delete(b)) \/ UNCHANGED vars
  <2>1. UNCHANGED <<registry, proxy, task, bound>>
    BY <1>1, <1>4, FinishStep, DeleteStep DEF vars, memory, outside
  <2>2. QED  BY <2>1, AgreedIdle
<1>5. QED  BY <1>2, <1>3, <1>4

(***************************************************************************)
(* Tasks: one that goes on without binding or publishing.                  *)
(***************************************************************************)
LEMMA AgreedMove ==
    ASSUME Agreed, NEW t \in Tasks, NEW a, NEW id, NEW b, To(t, a, id, b),
           ~Publisher(t), a # "publish", UNCHANGED <<registry, proxy, bound>>,
           a \in {"connect", "refresh", "create", "identity", "bind"} =>
               id \in {Nil, bound} \/ Rebinding,
           \/ task[t].kind # "attach"
           \/ task[t].at = "attach" /\ b = task[t].made
    PROVE  Agreed'
<1>1. /\ task'[t].at = a /\ task'[t].known = id /\ task'[t].made = b
      /\ task'[t].kind = task[t].kind /\ \A u \in Tasks \ {t} : task'[u] = task[u]
  BY DEF To
<1>2. \A u \in Tasks : (Publisher(u)' <=> Publisher(u)) /\ (Rebinder(u)' <=> Rebinder(u))
  BY <1>1 DEF Publisher, Rebinder
<1>3. Rebinding' <=> Rebinding  BY <1>2 DEF Rebinding, Rebinder, Publisher
<1>4. \A u \in Tasks : KnownTask(u)'  BY <1>1, <1>3 DEF Agreed, KnownTask
<1>5. \A u \in Tasks : PublishedTask(u)'
  BY <1>1, <1>2 DEF Agreed, PublishedTask, Publisher
<1>6. \A u \in Tasks : AttachingTask(u)'
  BY <1>1, <1>3 DEF Agreed, AttachingTask
<1>7. InMemory'  BY <1>2 DEF Agreed, InMemory
<1>8. QED  BY <1>4, <1>5, <1>6, <1>7 DEF Agreed

(* One that has bound the thread.                                          *)
LEMMA AgreedBound ==
    ASSUME WellFormed, Held, Arranged, Agreed, NEW t \in Tasks, task[t].at = "bind",
           To(t, "publish", task[t].known, task[t].made),
           bound' = task[t].made, UNCHANGED <<registry, proxy>>
    PROVE  Agreed'
<1>1. /\ task'[t].at = "publish" /\ task'[t].made = bound'
      /\ task'[t].kind = task[t].kind /\ \A u \in Tasks \ {t} : task'[u] = task[u]
  BY DEF To
<1>2. Publisher(t)'  BY <1>1 DEF Publisher
<1>3. InMemory'  BY <1>2 DEF InMemory
<1>4. Live(t) \/ Recreating(t)  BY TaskAt DEF Live, Recreating
<1>5. CASE Recreating(t)
  <2>1. Rebinder(t)' /\ Rebinding'
    BY <1>1, <1>2, <1>5 DEF Recreating, Rebinder, Rebinding, Publisher
  <2>2. \A u \in Tasks : KnownTask(u)' /\ AttachingTask(u)'
    BY <2>1 DEF KnownTask, AttachingTask
  <2>3. ASSUME NEW u \in Tasks \ {t} PROVE PublishedTask(u)'
    <3>1. Publisher(u) => Recreating(u)  BY <1>5, NoStartups, PublisherWorks
    <3>2. QED  BY <1>1, <2>1, <3>1 DEF PublishedTask, Publisher, Recreating
  <2>4. PublishedTask(t)'  BY <1>1 DEF PublishedTask
  <2>5. QED  BY <1>3, <2>2, <2>3, <2>4 DEF Agreed
<1>6. CASE Live(t)
  <2>1. proxy[registry].startup = t /\ task[t].kind = "ensure"
    BY <1>6 DEF Arranged, SoleTask, Live
  <2>2. ASSUME NEW u \in Tasks \ {t}
        PROVE  task[u].at \notin {"connect", "refresh", "create", "identity", "bind", "publish"}
    BY <1>6, Alone, TaskAt
  <2>3. \A u \in Tasks : KnownTask(u)' /\ PublishedTask(u)'
    BY <1>1, <2>2 DEF KnownTask, PublishedTask, Publisher
  <2>4. \A u \in Tasks : AttachingTask(u)'
    BY <1>1, <2>1 DEF AttachingTask
  <2>5. QED  BY <1>3, <2>3, <2>4 DEF Agreed
<1>7. QED  BY <1>4, <1>5, <1>6

(* A recreation that publishes without a split is alone.                   *)
LEMMA Unsplit ==
    ASSUME WellFormed, Held, Arranged, NEW t \in Tasks, Publishes(t), Recreating(t),
           "split" \notin causes'
    PROVE  /\ run.handle = Handle
           /\ \A c \in Calls : call[c].at # "idle" => call[c].task = t
           /\ \A u \in Tasks \ {t} : Over(u) \/ task[u].kind = "attach"
<1>1. Noting(When(run.handle # Handle \/ \E c \in Calls :
                      call[c].at # "idle" /\ call[c].task # t, "split"))
  BY DEF Publishes, Recreating
<1>2. ~(run.handle # Handle \/ \E c \in Calls : call[c].at # "idle" /\ call[c].task # t)
  BY <1>1 DEF Noting, When
<1>3. ASSUME NEW u \in Tasks \ {t} PROVE Over(u) \/ task[u].kind = "attach"
  <2>1. ~Live(u)  BY NoStartups
  <2>2. ~Recreating(u)  BY <1>2 DEF Held, Called, Recreator
  <2>3. QED  BY <2>1, <2>2, TaskAt DEF Live, Recreating
<1>4. QED  BY <1>2, <1>3

(* One that publishes.                                                     *)
LEMMA AgreedPublish ==
    ASSUME WellFormed, Held, Arranged, Agreed, NEW t \in Tasks, Publishing(t), Calm',
           task[t].at = "identity" => task[t].known = task[t].made
    PROVE  Agreed'
<1>1. /\ Publishes(t) /\ task[t].made \in Boxes
      /\ task[t].at \in {"identity", "publish"} /\ bound' = bound /\ registry' = Handle
      /\ proxy'[Handle].backend = task[t].made /\ proxy'[Handle].startup = Nil
      /\ task'[t].at = "done" /\ \A u \in Tasks \ {t} : task'[u] = task[u]
  BY DEF Publishing, Publishes
<1>2. \A u \in Tasks : AttachingTask(u)'  BY <1>1, NotNil DEF AttachingTask
<1>3. CASE task[t].at = "identity"
  <2>1. TasksStill  BY <1>1, <1>3 DEF TasksStill, Publisher
  <2>2. /\ \A u \in Tasks : KnownTask(u)' /\ PublishedTask(u)'
        /\ Rebinding' <=> Rebinding
    BY <1>1, <2>1, StillAgreed
  <2>3. task[t].made \in {Nil, bound} \/ Rebinding  BY <1>3 DEF Agreed, KnownTask
  <2>4. InMemory'  BY <1>1, <2>2, <2>3 DEF InMemory, Rebinding, Publisher
  <2>5. QED  BY <1>2, <2>2, <2>4 DEF Agreed
<1>4. CASE task[t].at = "publish"
  <2>1. Live(t) \/ Recreating(t)  BY <1>4, TaskAt DEF Live, Recreating
  <2>2. "split" \notin causes'  BY DEF Calm
  <2>3. \A u \in Tasks \ {t} : Over(u) \/ task[u].kind = "attach"
    BY <1>1, <2>1, <2>2, Alone, Unsplit
  <2>4. ASSUME NEW u \in Tasks \ {t}
        PROVE  task[u].at \notin {"connect", "refresh", "create", "identity", "bind", "publish"}
    BY <2>3, TaskAt
  <2>5. task[t].made = bound
    BY <1>4, <2>4 DEF Agreed, PublishedTask, Publisher, Rebinder
  <2>6. InMemory'  BY <1>1, <2>5 DEF InMemory
  <2>7. \A u \in Tasks : KnownTask(u)' /\ PublishedTask(u)'
    BY <1>1, <2>4 DEF KnownTask, PublishedTask, Publisher
  <2>8. QED  BY <1>2, <2>6, <2>7 DEF Agreed
<1>5. QED  BY <1>1, <1>3, <1>4

(* Every step of a task is one of these.                                   *)
LEMMA AgreedTask ==
    ASSUME WellFormed, Held, Arranged, Agreed, NEW t \in Tasks, TaskStep(t), Calm'
    PROVE  Agreed'
<1>1. TypeOK  BY DEF WellFormed
<1>2. task[t].at \in {"connect", "refresh", "create", "identity", "bind"} =>
          task[t].known \in {Nil, bound} \/ Rebinding
  BY DEF Agreed, KnownTask
<1>3. CASE Cached(t)
  <2>1. task[t].at = "cached" /\ UNCHANGED <<registry, proxy, bound>>
    BY <1>1, <1>3, CachedStep DEF Inside
  <2>2. PICK b : To(t, "metadata", task[t].known, b)  BY <1>1, <1>3, CachedStep
  <2>3. QED  BY <2>1, <2>2, TaskAt, AgreedMove DEF Publisher
<1>4. CASE Metadata(t)
  <2>1. task[t].at = "metadata" /\ UNCHANGED <<registry, proxy, bound>>
    BY <1>1, <1>4, MetadataStep DEF Inside
  <2>2. PICK id \in OrNil(Boxes) :
            /\ Reads(task[t].inline, id, {})
            /\ To(t, AfterMetadata(t, id), id, task[t].made)
    BY <1>1, <1>4, MetadataStep
  <2>3. id \in {Nil, bound}  BY <2>2, ReadBound
  <2>4. AfterMetadata(t, id) # "publish"  BY DEF AfterMetadata
  <2>5. QED  BY <2>1, <2>2, <2>3, <2>4, TaskAt, AgreedMove DEF Publisher
<1>5. CASE Connect(t) \/ Refresh(t) \/ Create(t)
  <2>1. /\ task[t].at \in {"connect", "refresh", "create"}
        /\ UNCHANGED <<registry, proxy, bound>>
        /\ \E a \in {"refresh", "create", "identity", "failed", "unreachable"} :
              \E b : To(t, a, task[t].known, b)
    BY <1>1, <1>5, ConnectStep, RefreshStep, CreateStep DEF Inside
  <2>2. PICK a \in {"refresh", "create", "identity", "failed", "unreachable"} :
              \E b : To(t, a, task[t].known, b)
    BY <2>1
  <2>3. PICK b : To(t, a, task[t].known, b)
    BY <2>2
  <2>4. QED  BY <1>2, <2>1, <2>3, TaskAt, AgreedMove DEF Publisher
<1>6. CASE Attach(t)
  <2>1. task[t].at = "attach" /\ UNCHANGED <<registry, proxy, bound>>
    BY <1>1, <1>6, AttachStep DEF Inside
  <2>2. PICK a \in {"done", "failed"} : To(t, a, task[t].known, task[t].made)
    BY <1>1, <1>6, AttachStep
  <2>3. QED  BY <2>1, <2>2, AgreedMove DEF Publisher
<1>7. CASE Identity(t)
  <2>1. task[t].at = "identity"  BY <1>1, <1>7, IdentityStep
  <2>2. task[t].made \in Boxes  BY <2>1 DEF WellFormed, Stocked, StockedTask
  <2>3. CASE task[t].known = task[t].made /\ Publishes(t)
    BY <2>1, <2>2, <2>3, AgreedPublish DEF Publishing
  <2>4. CASE /\ \E a \in {"bind", "failed"} : To(t, a, task[t].known, task[t].made)
             /\ Inside /\ UNCHANGED <<bound, box>>
    <3>1. PICK a \in {"bind", "failed"} : To(t, a, task[t].known, task[t].made)
      BY <2>4
    <3>2. UNCHANGED <<registry, proxy, bound>>  BY <2>4 DEF Inside
    <3>3. QED  BY <1>2, <2>1, <3>1, <3>2, TaskAt, AgreedMove DEF Publisher
  <2>5. QED  BY <1>1, <1>7, <2>3, <2>4, IdentityStep
<1>8. CASE Bind(t)
  <2>1. task[t].at = "bind" /\ UNCHANGED <<registry, proxy>>
    BY <1>1, <1>8, BindStep DEF Inside
  <2>2. ~Noting({"torn"})  BY CalmBefore
  <2>3. \/ bound' = task[t].made /\ To(t, "publish", task[t].known, task[t].made)
        \/ UNCHANGED bound /\ To(t, "failed", task[t].known, task[t].made)
    BY <1>1, <1>8, <2>2, BindStep
  <2>4. CASE bound' = task[t].made /\ To(t, "publish", task[t].known, task[t].made)
    BY <2>1, <2>4, AgreedBound
  <2>5. CASE UNCHANGED bound /\ To(t, "failed", task[t].known, task[t].made)
    BY <2>1, <2>5, TaskAt, AgreedMove DEF Publisher
  <2>6. QED  BY <2>3, <2>4, <2>5
<1>9. CASE Bound(t)
  <2>1. task[t].at = "publish" /\ Publishes(t)  BY <1>1, <1>9, BoundStep
  <2>2. task[t].made \in Boxes  BY <2>1 DEF WellFormed, Stocked, StockedTask
  <2>3. QED  BY <2>1, <2>2, AgreedPublish DEF Publishing
<1>10. QED  BY <1>3, <1>4, <1>5, <1>6, <1>7, <1>8, <1>9 DEF TaskStep

(* Every calm step keeps the agreement.                                    *)
LEMMA AgreedNext ==
    ASSUME WellFormed, Held, Arranged, Agreed, [Next]_vars, Calm'
    PROVE  Agreed'
<1>1. ASSUME NEW c \in Calls, CallStep(c) PROVE Agreed'
  BY <1>1, AgreedGet, AgreedLookup, AgreedReady, AgreedNotReady, AgreedUses DEF CallStep
<1>2. ASSUME NEW c \in Calls, IdentityFails(c) PROVE Agreed'
  BY <1>2, IdentityFailsStep, AgreedIdle DEF WellFormed
<1>3. QED
  BY <1>1, <1>2, AgreedOutside, AgreedBegin, AgreedStart, AgreedTools, AgreedTask DEF Next

(* So it holds until a cause other than an unreadable id.                  *)
LEMMA AlwaysAgreed == Spec => [](Calm => Agreed)
<1>1. Init => Agreed
  <2> SUFFICES ASSUME Init PROVE Agreed
    OBVIOUS
  <2>1. NoTask.at = "free"  BY DEF NoTask
  <2>2. QED
    BY <2>1
    DEF Init, Agreed, KnownTask, PublishedTask, Publisher, AttachingTask, InMemory
<1>2. WellFormed /\ Held /\ (Orderly => Arranged) /\ (Calm => Agreed) /\ [Next]_vars
          => (Calm => Agreed)'
  <2> SUFFICES ASSUME WellFormed, Held, Orderly => Arranged, Calm => Agreed, [Next]_vars, Calm'
               PROVE  Agreed'
    OBVIOUS
  <2>1. causes \subseteq causes'  BY CausesGrow
  <2>2. Calm  BY <2>1 DEF Calm
  <2>3. Orderly  BY <2>2 DEF Calm, Orderly, Without
  <2>4. QED  BY <2>2, <2>3, AgreedNext
<1>3. QED  BY <1>1, <1>2, AlwaysWellFormed, AlwaysHeld, AlwaysArranged, PTL DEF Spec

(***************************************************************************)
(* When nothing is being started or looked up, the backend that later      *)
(* calls find in memory is the sandbox the thread is bound to.             *)
(***************************************************************************)
THEOREM CachedIsBoundAlways == Spec => []CachedIsBound
<1>1. WellFormed /\ (Calm => Agreed) => CachedIsBound
  <2> SUFFICES ASSUME WellFormed, Calm => Agreed, Quiet, Without(Causes \ {"blind"}), registry # Nil
               PROVE  proxy[registry].backend \in {Nil, bound}
    BY DEF CachedIsBound
  <2>1. Calm  BY DEF WellFormed, TypeOK, Without, Calm
  <2>2. \A t \in Tasks : ~Publisher(t)  BY TaskAt DEF Quiet, Publisher
  <2>3. QED  BY <2>1, <2>2 DEF Agreed, InMemory
<1>2. QED  BY <1>1, AlwaysWellFormed, AlwaysAgreed, PTL

-----------------------------------------------------------------------------
(* Every sandbox that anything refers to was created.                      *)

Exists(b) == b # Nil => box[b] # "none"

ExistingTask(t) == Exists(task[t].inline) /\ Exists(task[t].known) /\ Exists(task[t].made)

Existing ==
    /\ Exists(bound) /\ Exists(work) /\ Exists(run.inline)
    /\ \A p \in Proxies : Exists(proxy[p].backend)
    /\ \A t \in Tasks : ExistingTask(t)
    /\ \A c \in Calls : Exists(call[c].box) /\ Exists(call[c].inline)

(* A sandbox that was created is not created again.                        *)
Then(b) == b # Nil => box'[b] # "none"
BoxesStay == \A b \in Boxes : box[b] # "none" => box'[b] # "none"

ThenTask(t) == Then(task[t].inline) /\ Then(task[t].known) /\ Then(task[t].made)
ThenCall(r) == Then(r.box) /\ Then(r.inline)
ThenAll ==
    /\ Then(bound) /\ Then(work) /\ Then(run.inline) /\ Then(Nil)
    /\ \A p \in Proxies : Then(proxy[p].backend)
    /\ \A t \in Tasks : ThenTask(t)
    /\ \A c \in Calls : ThenCall(call[c])

(* So what is referred to now is there after a step.                       *)
LEMMA ExistThen ==
    ASSUME TypeOK, Existing, BoxesStay
    PROVE  ThenAll
<1>1. \A b \in OrNil(Boxes) : Exists(b) => Then(b)
  BY DEF Exists, Then, BoxesStay, OrNil
<1>2. bound \in OrNil(Boxes) /\ work \in OrNil(Boxes) /\ run.inline \in OrNil(Boxes)
  BY DEF TypeOK, RunRecords
<1>3. \A p \in Proxies : proxy[p].backend \in OrNil(Boxes)  BY DEF TypeOK, ProxyRecords
<1>4. \A t \in Tasks : /\ task[t].inline \in OrNil(Boxes) /\ task[t].known \in OrNil(Boxes)
                       /\ task[t].made \in OrNil(Boxes)
  BY DEF TypeOK, TaskRecords
<1>5. \A c \in Calls : call[c].box \in OrNil(Boxes) /\ call[c].inline \in OrNil(Boxes)
  BY DEF TypeOK, CallRecords
<1>6. Then(Nil)  BY DEF Then
<1>7. QED
  BY <1>1, <1>2, <1>3, <1>4, <1>5, <1>6 DEF Existing, ExistingTask, ThenAll, ThenTask, ThenCall

(* What refers to something else refers to what was created.               *)
LEMMA ExistingKept ==
    ASSUME ThenAll, Then(bound'), Then(work'), Then(run'.inline),
           \A p \in Proxies : proxy'[p] = proxy[p] \/ Then(proxy'[p].backend),
           \A t \in Tasks : \/ task'[t] = task[t]
                            \/ Then(task'[t].inline) /\ Then(task'[t].known) /\ Then(task'[t].made),
           \A c \in Calls : call'[c] = call[c] \/ ThenCall(call'[c])
    PROVE  Existing'
<1>1. Exists(bound)' /\ Exists(work)' /\ Exists(run.inline)'  BY DEF Exists, Then
<1>2. \A p \in Proxies : Exists(proxy[p].backend)'  BY DEF Exists, Then, ThenAll
<1>3. \A t \in Tasks : ExistingTask(t)'  BY DEF ExistingTask, Exists, Then, ThenAll, ThenTask
<1>4. \A c \in Calls : Exists(call[c].box)' /\ Exists(call[c].inline)'
  BY DEF Exists, Then, ThenAll, ThenCall
<1>5. QED  BY <1>1, <1>2, <1>3, <1>4 DEF Existing

(* Steps that create nothing.                                              *)
LEMMA StillThen == ASSUME WellFormed, Existing, UNCHANGED box PROVE ThenAll
  BY ExistThen DEF WellFormed, BoxesStay

(* A task that goes on.                                                    *)
LEMMA ExistsMove ==
    ASSUME ThenAll, NEW t \in Tasks, NEW a, NEW id, NEW b, To(t, a, id, b),
           Then(id), Then(b), Inside, Then(bound')
    PROVE  Existing'
<1>1. UNCHANGED <<proxy, call, run, work>>  BY DEF Inside
<1>2. /\ Then(task'[t].inline) /\ Then(task'[t].known) /\ Then(task'[t].made)
      /\ \A u \in Tasks \ {t} : task'[u] = task[u]
  BY DEF To, ThenAll, ThenTask
<1>3. Then(work') /\ Then(run'.inline)  BY <1>1 DEF ThenAll
<1>4. QED  BY <1>1, <1>2, <1>3, ExistingKept

(* A task that publishes.                                                  *)
LEMMA ExistsPublish ==
    ASSUME WellFormed, Existing, NEW t \in Tasks, Publishes(t)
    PROVE  Existing'
<1>1. UNCHANGED <<call, run, box, bound>> /\ work' \in {work, Nil}
  BY DEF Publishes
<1>2. ThenAll  BY <1>1, StillThen
<1>3. /\ \A p \in Proxies \ {Handle} : proxy'[p] = proxy[p]
      /\ proxy'[Handle].backend = task[t].made
      /\ task'[t].made = Nil /\ task'[t].known = Nil /\ task'[t].inline = Nil
      /\ \A u \in Tasks \ {t} : task'[u] = task[u]
  BY DEF Publishes
<1>4. Then(bound') /\ Then(work') /\ Then(run'.inline) /\ Then(task[t].made) /\ Then(Nil)
  BY <1>1, <1>2 DEF ThenAll, ThenTask
<1>5. QED  BY <1>1, <1>2, <1>3, <1>4, ExistingKept

(* A task that creates a sandbox.                                          *)
LEMMA ExistsCreate ==
    ASSUME WellFormed, Existing, NEW t \in Tasks, Create(t)
    PROVE  Existing'
<1>1. TypeOK /\ box \in [Boxes -> {"none", "alive", "gone"}]  BY DEF WellFormed, TypeOK
<1>2. Inside /\ UNCHANGED bound  BY <1>1, CreateStep
<1>3. \/ \E b \in Boxes :
            box' = [box EXCEPT ![b] = "alive"] /\ To(t, "identity", task[t].known, b)
      \/ UNCHANGED box /\ \E a \in {"failed", "unreachable"} : To(t, a, task[t].known, task[t].made)
  BY <1>1, CreateStep
<1>4. ASSUME NEW b \in Boxes, box' = [box EXCEPT ![b] = "alive"],
             To(t, "identity", task[t].known, b)
      PROVE  Existing'
  <2>1. BoxesStay /\ Then(b)  BY <1>1, <1>4 DEF BoxesStay, Then
  <2>2. ThenAll  BY <1>1, <2>1, ExistThen
  <2>3. Then(task[t].known) /\ Then(bound')  BY <1>2, <2>2 DEF ThenAll, ThenTask
  <2>4. QED  BY <1>2, <1>4, <2>1, <2>2, <2>3, ExistsMove
<1>5. ASSUME UNCHANGED box, NEW a \in {"failed", "unreachable"},
             To(t, a, task[t].known, task[t].made)
      PROVE  Existing'
  <2>1. ThenAll  BY <1>5, StillThen
  <2>2. Then(task[t].known) /\ Then(task[t].made) /\ Then(bound')
    BY <1>2, <2>1 DEF ThenAll, ThenTask
  <2>3. QED  BY <1>2, <1>5, <2>1, <2>2, ExistsMove
<1>6. QED  BY <1>3, <1>4, <1>5

(* An id that is read is one of those that are there.                      *)
LEMMA ReadThen ==
    ASSUME ThenAll, NEW inline, Then(inline), NEW id, NEW more, Reads(inline, id, more)
    PROVE  Then(id)
<1>1. id \in {inline, bound, Nil}  BY DEF Reads
<1>2. QED  BY <1>1 DEF ThenAll

(* Every step of a task.                                                   *)
LEMMA ExistsTask ==
    ASSUME WellFormed, Existing, NEW t \in Tasks, TaskStep(t)
    PROVE  Existing'
<1>1. TypeOK /\ registry \in OrNil(Proxies)  BY DEF WellFormed, TypeOK
<1>2. ASSUME UNCHANGED box
      PROVE  /\ ThenAll /\ ThenTask(t) /\ Then(bound) /\ Then(Kept.backend)
  <2>1. ThenAll  BY <1>2, StillThen
  <2>2. Kept = NoProxy \/ \E p \in Proxies : Kept = proxy[p]
    BY <1>1 DEF Kept, OrNil
  <2>3. NoProxy.backend = Nil  BY DEF NoProxy
  <2>4. QED  BY <2>1, <2>2, <2>3 DEF ThenAll
<1>3. CASE Cached(t)
  <2>1. Inside /\ UNCHANGED <<bound, box>>  BY <1>1, <1>3, CachedStep
  <2>2. PICK b \in {task[t].made, Kept.backend} : To(t, "metadata", task[t].known, b)
    BY <1>1, <1>3, CachedStep
  <2>3. QED  BY <1>2, <2>1, <2>2, ExistsMove DEF ThenTask
<1>4. CASE Metadata(t)
  <2>1. Inside /\ UNCHANGED <<bound, box>>  BY <1>1, <1>4, MetadataStep
  <2>2. PICK id \in OrNil(Boxes) :
            Reads(task[t].inline, id, {}) /\ To(t, AfterMetadata(t, id), id, task[t].made)
    BY <1>1, <1>4, MetadataStep
  <2>3. Then(id)  BY <1>2, <2>1, <2>2, ReadThen DEF ThenTask
  <2>4. QED  BY <1>2, <2>1, <2>2, <2>3, ExistsMove DEF ThenTask
<1>5. CASE Connect(t)
  <2>1. /\ Inside /\ UNCHANGED <<bound, box>>
        /\ \/ To(t, "refresh", task[t].known, task[t].known)
           \/ To(t, "create", task[t].known, task[t].made)
           \/ To(t, "unreachable", task[t].known, task[t].made)
    BY <1>1, <1>5, ConnectStep
  <2>2. QED  BY <1>2, <2>1, ExistsMove DEF ThenTask
<1>6. CASE Refresh(t) \/ Attach(t)
  <2>1. Inside /\ UNCHANGED <<bound, box>>  BY <1>1, <1>6, RefreshStep, AttachStep
  <2>2. PICK a \in {"identity", "unreachable", "done", "failed"} :
            To(t, a, task[t].known, task[t].made)
    BY <1>1, <1>6, RefreshStep, AttachStep
  <2>3. QED  BY <1>2, <2>1, <2>2, ExistsMove DEF ThenTask
<1>7. CASE Create(t)  BY <1>7, ExistsCreate
<1>8. CASE Identity(t)
  <2>1. CASE Publishes(t)  BY <2>1, ExistsPublish
  <2>2. CASE /\ \E a \in {"bind", "failed"} : To(t, a, task[t].known, task[t].made)
             /\ Inside /\ UNCHANGED <<bound, box>>
    <3>1. PICK a \in {"bind", "failed"} : To(t, a, task[t].known, task[t].made)
      BY <2>2
    <3>2. QED  BY <1>2, <2>2, <3>1, ExistsMove DEF ThenTask
  <2>3. QED  BY <1>1, <1>8, <2>1, <2>2, IdentityStep
<1>9. CASE Bind(t)
  <2>1. Inside /\ UNCHANGED box /\ bound' \in {bound, task[t].made}
    BY <1>1, <1>9, BindStep
  <2>2. PICK a \in {"publish", "failed"} : To(t, a, task[t].known, task[t].made)
    BY <1>1, <1>9, BindStep
  <2>3. Then(bound')  BY <1>2, <2>1 DEF ThenTask
  <2>4. QED  BY <1>2, <2>1, <2>2, <2>3, ExistsMove DEF ThenTask
<1>10. CASE Bound(t)  BY <1>1, <1>10, BoundStep, ExistsPublish
<1>11. QED
  BY <1>3, <1>4, <1>5, <1>6, <1>7, <1>8, <1>9, <1>10 DEF TaskStep

(* What a coroutine that ends leaves behind.                               *)
LEMMA EndsThen ==
    ASSUME ThenAll, NEW c \in Calls
    PROVE  /\ Leaves(c) => \A d \in Calls : call'[d] = call[d] \/ ThenCall(call'[d])
           /\ Raises(c) => /\ \A d \in Calls : call'[d] = call[d] \/ ThenCall(call'[d])
                           /\ Then(run'.inline)
           /\ \A b : Then(b) /\ Returns(c, b) =>
                 /\ \A d \in Calls : call'[d] = call[d] \/ ThenCall(call'[d])
                 /\ Then(run'.inline)
           /\ \A a, k, p, t, b : Then(b) /\ CallTo(c, a, k, p, t, b) =>
                 \A d \in Calls : call'[d] = call[d] \/ ThenCall(call'[d])
<1>1. NoRun.inline = Nil  BY DEF NoRun
<1>2. \A a, k, p, t, b : Then(b) /\ CallTo(c, a, k, p, t, b) =>
          \A d \in Calls : call'[d] = call[d] \/ ThenCall(call'[d])
  BY DEF CallTo, ThenAll, ThenCall
<1>3. Then(Nil) /\ Then(run.inline)  BY DEF ThenAll
<1>4. QED  BY <1>1, <1>2, <1>3 DEF Leaves, Raises, Returns

(* A new task.                                                             *)
LEMMA NewThen ==
    ASSUME ThenAll, NEW t \in Tasks, NEW a, NEW k, NEW inline, NEW b,
           TaskNew(t, a, k, inline, b), Then(inline), Then(b)
    PROVE  \A u \in Tasks :
               \/ task'[u] = task[u]
               \/ Then(task'[u].inline) /\ Then(task'[u].known) /\ Then(task'[u].made)
  BY DEF TaskNew, ThenAll

(* A handle changes its task, or gets a backend.                           *)
LEMMA ProxyThen ==
    ASSUME NEW p \in Proxies, NEW b, NEW s, NEW reconnect, NEW lock,
           ProxyTo(p, b, s, reconnect, lock), Then(b)
    PROVE  \A q \in Proxies : proxy'[q] = proxy[q] \/ Then(proxy'[q].backend)
  BY DEF ProxyTo

(* Get: the backend of the handle is passed on.                            *)
LEMMA ExistsGet ==
    ASSUME WellFormed, Existing, NEW c \in Calls, Get(c)
    PROVE  Existing'
<1> DEFINE p == call[c].proxy
<1>1. TypeOK /\ SeatedCall(c)  BY DEF WellFormed, Seated
<1>2. call[c].at = "get"  BY DEF Get
<1>3. p \in Proxies  BY <1>1, <1>2 DEF SeatedCall
<1>4. /\ Elsewhere
      /\ GetReady(c) \/ GetJoins(c) \/ (\E t \in Tasks : GetStarts(c, t)) \/ GetLocks(c)
  BY <1>1, <1>3, GetStep
<1>5. UNCHANGED <<bound, box, work>>  BY <1>4 DEF Elsewhere
<1>6. ThenAll  BY <1>5, StillThen
<1>7. /\ Then(bound') /\ Then(work') /\ Then(run.inline) /\ Then(call[c].box) /\ Then(Nil)
      /\ Then(proxy[p].backend) /\ Then(Inline(c))
  BY <1>3, <1>5, <1>6 DEF ThenAll, ThenCall, Inline
<1> HIDE DEF p
<1>8. p = call[c].proxy  BY DEF p
<1>9. CASE GetReady(c)
  <2>1. Returns(c, proxy[p].backend) /\ UNCHANGED <<proxy, task>>  BY <1>8, <1>9 DEF GetReady
  <2>2. QED  BY <1>6, <1>7, <2>1, EndsThen, ExistingKept
<1>10. CASE GetJoins(c)
  <2>1. /\ CallTo(c, "wait", call[c].kind, p, proxy[p].startup, call[c].box)
        /\ UNCHANGED <<proxy, task, run>>
    BY <1>8, <1>10 DEF GetJoins
  <2>2. QED  BY <1>6, <1>7, <2>1, EndsThen, ExistingKept
<1>11. ASSUME NEW t \in Tasks, GetStarts(c, t) PROVE Existing'
  <2>1. /\ TaskNew(t, "cached", "ensure", Inline(c), Nil)
        /\ ProxyTo(p, Nil, t, TRUE, proxy[p].lock)
        /\ CallTo(c, "wait", call[c].kind, p, t, call[c].box) /\ UNCHANGED run
    BY <1>8, <1>11 DEF GetStarts
  <2>2. QED  BY <1>3, <1>6, <1>7, <2>1, EndsThen, NewThen, ProxyThen, ExistingKept
<1>12. CASE GetLocks(c)
  <2>1. /\ ProxyTo(p, Nil, Nil, FALSE, TRUE) /\ UNCHANGED <<task, run>>
        /\ CallTo(c, "lookup", call[c].kind, p, call[c].task, call[c].box)
    BY <1>8, <1>12 DEF GetLocks
  <2>2. QED  BY <1>3, <1>6, <1>7, <2>1, EndsThen, ProxyThen, ExistingKept
<1>13. QED  BY <1>4, <1>9, <1>10, <1>11, <1>12

(* Lookup: the id that was read is passed on.                              *)
LEMMA ExistsLookup ==
    ASSUME WellFormed, Existing, NEW c \in Calls, Lookup(c)
    PROVE  Existing'
<1> DEFINE p == call[c].proxy
<1>1. TypeOK /\ SeatedCall(c)  BY DEF WellFormed, Seated
<1>2. call[c].at = "lookup"  BY DEF Lookup
<1>3. p \in Proxies  BY <1>1, <1>2 DEF SeatedCall
<1>4. UNCHANGED <<bound, box, work>>  BY <1>1, <1>3, LookupStep
<1>5. PICK id \in OrNil(Boxes) :
          /\ Reads(Inline(c), id, When(Changed(p), "raced"))
          /\ LookupRaises(c, id) \/ \E t \in Tasks : LookupAttaches(c, id, t)
  BY <1>1, <1>3, LookupStep
<1>6. ThenAll  BY <1>4, StillThen
<1>7. /\ Then(bound') /\ Then(work') /\ Then(run.inline) /\ Then(call[c].box) /\ Then(Nil)
      /\ Then(proxy[p].backend) /\ Then(Inline(c))
  BY <1>3, <1>4, <1>6 DEF ThenAll, ThenCall, Inline
<1>8. Then(id)  BY <1>5, <1>6, <1>7, ReadThen
<1> HIDE DEF p
<1>9. p = call[c].proxy  BY DEF p
<1>10. CASE LookupRaises(c, id)
  <2>1. /\ Raises(c) /\ UNCHANGED task
        /\ ProxyTo(p, proxy[p].backend, proxy[p].startup, proxy[p].reconnect, FALSE)
    BY <1>9, <1>10 DEF LookupRaises
  <2>2. QED  BY <1>3, <1>6, <1>7, <2>1, EndsThen, ProxyThen, ExistingKept
<1>11. ASSUME NEW t \in Tasks, LookupAttaches(c, id, t) PROVE Existing'
  <2>1. /\ TaskNew(t, "attach", "attach", Nil, id) /\ UNCHANGED run
        /\ ProxyTo(p, proxy[p].backend, t, proxy[p].reconnect, FALSE)
        /\ CallTo(c, "wait", call[c].kind, p, t, call[c].box)
    BY <1>9, <1>11 DEF LookupAttaches
  <2>2. QED  BY <1>3, <1>6, <1>7, <1>8, <2>1, EndsThen, NewThen, ProxyThen, ExistingKept
<1>12. QED  BY <1>5, <1>10, <1>11

(* Ready: the outcome of the task is passed on.                            *)
LEMMA ExistsReady ==
    ASSUME WellFormed, Existing, NEW c \in Calls, Ready(c)
    PROVE  Existing'
<1> DEFINE p == call[c].proxy
           t == call[c].task
<1>1. TypeOK /\ SeatedCall(c)  BY DEF WellFormed, Seated
<1>2. call[c].at = "wait" /\ call[c].kind # "recreate" /\ task[t].at = "done"
  BY DEF Ready
<1>3. p \in Proxies /\ t \in Tasks  BY <1>1, <1>2 DEF SeatedCall
<1>4. Outcome(t) \in Boxes /\ Outcome(t) \in OrNil(Boxes)
  BY <1>2, <1>3, OutcomeBox DEF OrNil
<1>5. UNCHANGED <<task, bound, box, work>>  BY <1>1, <1>3, <1>4, ReadyStep
<1>6. PICK b \in OrNil(Boxes) : Ends(c, b) /\ (ReadyMine(c, b) \/ ReadyLate(c, b))
  BY <1>1, <1>3, <1>4, ReadyStep
<1>7. ThenAll  BY <1>5, StillThen
<1>8. Then(bound') /\ Then(work') /\ Then(proxy[p].backend) /\ Then(task[t].made)
  BY <1>3, <1>5, <1>7 DEF ThenAll, ThenTask
<1>9. Then(Outcome(t))
  <2>1. task[t].kind # "attach" => task[t].result \in Proxies
    BY <1>2, <1>3 DEF WellFormed, Stocked, StockedTask
  <2>2. QED  BY <1>7, <1>8, <2>1 DEF Outcome, ThenAll
<1> HIDE DEF p, t
<1>10. p = call[c].proxy /\ t = call[c].task  BY DEF p, t
<1>11. Then(b)  BY <1>6, <1>8, <1>9, <1>10 DEF ReadyMine, ReadyLate
<1>12. /\ \A d \in Calls : call'[d] = call[d] \/ ThenCall(call'[d])
       /\ Then(run'.inline)
  BY <1>6, <1>7, <1>11, EndsThen DEF Ends
<1>13. \A q \in Proxies : proxy'[q] = proxy[q] \/ Then(proxy'[q].backend)
  <2>1. CASE ReadyMine(c, b)
    <3>1. ProxyTo(p, b, Nil, proxy[p].reconnect, proxy[p].lock)
      BY <1>10, <2>1 DEF ReadyMine
    <3>2. QED  BY <1>3, <1>11, <3>1, ProxyThen
  <2>2. CASE ReadyLate(c, b)  BY <2>2 DEF ReadyLate
  <2>3. QED  BY <1>6, <2>1, <2>2
<1>14. QED  BY <1>5, <1>7, <1>8, <1>12, <1>13, ExistingKept

(* The other steps of coroutines pass nothing on.                          *)
LEMMA ExistsEnding ==
    ASSUME WellFormed, Existing, NEW c \in Calls,
           NotReady(c) \/ Use(c) \/ UseFails(c) \/ Recreated(c)
    PROVE  Existing'
<1>1. TypeOK /\ SeatedCall(c)  BY DEF WellFormed, Seated
<1>2. ASSUME UNCHANGED box PROVE ThenAll  BY <1>2, StillThen
<1>3. Untouched \/ Drops => \A u \in Tasks : task'[u] = task[u] \/ task'[u] = Cancelled
  BY DEF Untouched, Drops, Cancels, TaskBecomes
<1>4. Cancelled.inline = Nil /\ Cancelled.known = Nil /\ Cancelled.made = Nil
  BY DEF Cancelled, NoTask
<1>5. CASE NotReady(c)
  <2> DEFINE p == call[c].proxy
  <2>1. call[c].at = "wait" /\ call[c].kind # "recreate"  BY <1>5 DEF NotReady
  <2>2. p \in Proxies  BY <1>1, <2>1 DEF SeatedCall
  <2>3. Raises(c) /\ UNCHANGED <<bound, box, work>> /\ (Untouched \/ Drops)
    BY <1>1, <1>5, <2>2, NotReadyStep
  <2>4. PICK s \in {proxy[p].startup, Nil} :
            ProxyTo(p, proxy[p].backend, s, proxy[p].reconnect, proxy[p].lock)
    BY <1>1, <1>5, <2>2, NotReadyStep
  <2>5. ThenAll  BY <1>2, <2>3
  <2>6. Then(bound') /\ Then(work') /\ Then(proxy[p].backend) /\ Then(Nil)
    BY <2>2, <2>3, <2>5 DEF ThenAll
  <2> HIDE DEF p
  <2>7. QED
    BY <1>3, <1>4, <2>2, <2>3, <2>4, <2>5, <2>6, EndsThen, ProxyThen, ExistingKept
<1>6. CASE Use(c)
  <2>1. /\ work' \in {work, call[c].box}
        /\ Leaves(c) \/ CallTo(c, "get", call[c].kind, call[c].proxy, call[c].task, Nil)
        /\ UNCHANGED <<proxy, task, run, bound, box>>
    BY <1>1, <1>6, UseStep
  <2>2. ThenAll  BY <1>2, <2>1
  <2>3. Then(bound') /\ Then(work') /\ Then(run'.inline) /\ Then(Nil)
    BY <2>1, <2>2 DEF ThenAll, ThenCall
  <2>4. QED  BY <2>1, <2>2, <2>3, EndsThen, ExistingKept
<1>7. CASE UseFails(c)
  <2>1. Leaves(c) /\ (Untouched \/ Drops) /\ UNCHANGED <<proxy, run, bound, box, work>>
    BY <1>1, <1>7, UseFailsStep
  <2>2. ThenAll  BY <1>2, <2>1
  <2>3. Then(bound') /\ Then(work') /\ Then(run'.inline) /\ Then(Nil)
    BY <2>1, <2>2 DEF ThenAll
  <2>4. QED  BY <1>3, <1>4, <2>1, <2>2, <2>3, EndsThen, ExistingKept
<1>8. CASE Recreated(c)
  <2>1. Leaves(c) /\ UNCHANGED <<proxy, task, run, bound, box, work>>
    BY <1>1, <1>8, RecreatedStep
  <2>2. ThenAll  BY <1>2, <2>1
  <2>3. Then(bound') /\ Then(work') /\ Then(run'.inline)
    BY <2>1, <2>2 DEF ThenAll
  <2>4. QED  BY <2>1, <2>2, <2>3, EndsThen, ExistingKept
<1>9. QED  BY <1>5, <1>6, <1>7, <1>8

(* Coroutines that start, and runs that begin.                             *)
LEMMA ExistsStart ==
    ASSUME WellFormed, Existing,
           Begin \/ \E c \in Calls : (\E kind \in Kinds : Start(c, kind)) \/ StartFile(c) \/ Recreate(c)
    PROVE  Existing'
<1>1. TypeOK /\ registry \in OrNil(Proxies)  BY DEF WellFormed, TypeOK
<1>2. ASSUME UNCHANGED <<bound, box, work>>
      PROVE  /\ ThenAll /\ Then(Kept.backend) /\ Then(bound') /\ Then(work') /\ Then(Nil)
             /\ Then(run.inline)
  <2>1. ThenAll  BY <1>2, StillThen
  <2>2. Kept = NoProxy \/ \E p \in Proxies : Kept = proxy[p]
    BY <1>1 DEF Kept, OrNil
  <2>3. NoProxy.backend = Nil  BY DEF NoProxy
  <2>4. QED  BY <1>2, <2>1, <2>2, <2>3 DEF ThenAll
<1>3. CASE Begin
  <2>1. UNCHANGED <<call, bound, box, work>>  BY <1>1, <1>3, BeginStep
  <2>2. PICK t \in Tasks, inline \in {Nil, bound} :
            /\ Takes(Kept.backend, t, TRUE, Kept.lock)
            /\ Joins(t) \/ StartsUp(t, inline)
            /\ run'.inline = inline
    BY <1>1, <1>3, BeginStep
  <2>3. Then(inline)  BY <1>2, <2>1 DEF ThenAll
  <2>4. \A p \in Proxies : proxy'[p] = proxy[p] \/ Then(proxy'[p].backend)
    BY <1>2, <2>1, <2>2, ProxyThen DEF Takes
  <2>5. \A u \in Tasks :
            \/ task'[u] = task[u]
            \/ Then(task'[u].inline) /\ Then(task'[u].known) /\ Then(task'[u].made)
    BY <1>2, <2>1, <2>2, <2>3, NewThen DEF Joins, StartsUp
  <2>6. QED  BY <1>2, <2>1, <2>2, <2>3, <2>4, <2>5, ExistingKept
<1>4. ASSUME NEW c \in Calls, NEW kind \in Kinds, Start(c, kind) PROVE Existing'
  <2>1. /\ CallTo(c, "get", kind, Handle, Nil, Nil)
        /\ Takes(Kept.backend, Kept.startup, Kept.reconnect, Kept.lock)
        /\ UNCHANGED <<task, run, bound, box, work>>
    BY <1>1, <1>4, StartStep
  <2>2. \A p \in Proxies : proxy'[p] = proxy[p] \/ Then(proxy'[p].backend)
    BY <1>2, <2>1, ProxyThen DEF Takes
  <2>3. \A d \in Calls : call'[d] = call[d] \/ ThenCall(call'[d])
    BY <1>2, <2>1, EndsThen
  <2>4. QED  BY <1>2, <2>1, <2>2, <2>3, ExistingKept
<1>5. ASSUME NEW c \in Calls, StartFile(c) PROVE Existing'
  <2>1. /\ CallTo(c, "get", "file", run.handle, Nil, Nil)
        /\ UNCHANGED <<proxy, task, run, bound, box, work>>
    BY <1>1, <1>5, StartFileStep
  <2>2. \A d \in Calls : call'[d] = call[d] \/ ThenCall(call'[d])
    BY <1>2, <2>1, EndsThen
  <2>3. QED  BY <1>2, <2>1, <2>2, ExistingKept
<1>6. ASSUME NEW c \in Calls, Recreate(c) PROVE Existing'
  <2>1. UNCHANGED <<proxy, run, bound, box, work>>  BY <1>1, <1>6, RecreateStep
  <2>2. PICK t \in Tasks :
            /\ TaskNew(t, "cached", "recreate", run.inline, Nil)
            /\ CallTo(c, "wait", "recreate", Nil, t, Nil)
    BY <1>1, <1>6, RecreateStep
  <2>3. \A d \in Calls : call'[d] = call[d] \/ ThenCall(call'[d])
    BY <1>2, <2>1, <2>2, EndsThen
  <2>4. QED  BY <1>2, <2>1, <2>2, <2>3, NewThen, ExistingKept
<1>7. QED  BY <1>3, <1>4, <1>5, <1>6

(* Runs that end, the process and the provider.                            *)
LEMMA ExistsOutside ==
    ASSUME WellFormed, Existing,
           Interrupt \/ Crash \/ Finish \/ (\E b \in Boxes : Delete(b)) \/ UNCHANGED vars
    PROVE  Existing'
<1>1. TypeOK /\ box \in [Boxes -> {"none", "alive", "gone"}]  BY DEF WellFormed, TypeOK
<1>2. /\ NoTask.inline = Nil /\ NoTask.known = Nil /\ NoTask.made = Nil
      /\ Cancelled.inline = Nil /\ Cancelled.known = Nil /\ Cancelled.made = Nil
      /\ NoCall.box = Nil /\ NoCall.inline = Nil /\ NoRun.inline = Nil /\ NoProxy.backend = Nil
  BY DEF NoTask, Cancelled, NoCall, NoRun, NoProxy
<1>3. CASE Interrupt
  <2>1. Interrupts  BY <1>1, <1>3, InterruptStep DEF WellFormed, Seated, SeatedCall
  <2>2. /\ UNCHANGED <<bound, box, work>> /\ run' = NoRun
        /\ \A q \in Proxies : proxy'[q].backend = proxy[q].backend
        /\ \A c \in Calls : call'[c] \in {call[c], NoCall}
        /\ \A u \in Tasks : task'[u] \in {task[u], Cancelled}
    BY <2>1 DEF Interrupts, Forgets
  <2>3. ThenAll  BY <2>2, StillThen
  <2>4. Then(bound') /\ Then(work') /\ Then(Nil) /\ \A q \in Proxies : Then(proxy[q].backend)
    BY <2>2, <2>3 DEF ThenAll
  <2>5. \A c \in Calls : call'[c] = call[c] \/ ThenCall(call'[c])
    BY <1>2, <2>2, <2>4 DEF ThenCall
  <2>6. QED  BY <1>2, <2>2, <2>3, <2>4, <2>5, ExistingKept
<1>4. CASE Crash
  <2>1. /\ UNCHANGED <<bound, box, work>> /\ run' = NoRun
        /\ \A q \in Proxies : proxy'[q] = NoProxy
        /\ \A c \in Calls : call'[c] = NoCall
        /\ \A u \in Tasks : task'[u] = NoTask
    BY <1>1, <1>4, CrashStep
  <2>2. ThenAll  BY <2>1, StillThen
  <2>3. Then(bound') /\ Then(work') /\ Then(Nil)  BY <2>1, <2>2 DEF ThenAll
  <2>4. \A c \in Calls : ThenCall(call'[c])  BY <1>2, <2>1, <2>3 DEF ThenCall
  <2>5. QED  BY <1>2, <2>1, <2>2, <2>3, <2>4, ExistingKept
<1>5. CASE Finish \/ (\E b \in Boxes : Delete(b)) \/ UNCHANGED vars
  <2>1. UNCHANGED <<proxy, task, call, bound, work>> /\ run' \in {run, NoRun}
    BY <1>1, <1>5, FinishStep, DeleteStep DEF vars, memory, outside
  <2>2. BoxesStay
    BY <1>1, <1>5, FinishStep, DeleteStep DEF vars, outside, BoxesStay
  <2>3. ThenAll  BY <1>1, <2>2, ExistThen
  <2>4. Then(bound') /\ Then(work') /\ Then(run'.inline)
    BY <1>2, <2>1, <2>3 DEF ThenAll
  <2>5. QED  BY <2>1, <2>3, <2>4, ExistingKept
<1>6. QED  BY <1>3, <1>4, <1>5

(* An orphan keeps the sandbox_id of its run.                              *)
LEMMA ExistsOrphan ==
    ASSUME WellFormed, Existing, NEW c \in Calls, IdentityFails(c)
    PROVE  Existing'
<1>1. /\ Orphans(c) /\ run' = NoRun /\ UNCHANGED <<proxy, task, bound, box, work>>
  BY IdentityFailsStep DEF WellFormed
<1>2. ThenAll  BY <1>1, StillThen
<1>3. Then(bound') /\ Then(work') /\ Then(run'.inline)
  BY <1>1, <1>2 DEF ThenAll, NoRun
<1>4. \A d \in Calls : call'[d] = call[d] \/ ThenCall(call'[d])
  BY <1>1, <1>2 DEF Orphans, ThenAll, ThenCall
<1>5. QED  BY <1>1, <1>2, <1>3, <1>4, ExistingKept

(* So it holds in every behaviour.                                         *)
LEMMA AlwaysExisting == Spec => []Existing
<1>1. Init => Existing
  <2> SUFFICES ASSUME Init PROVE Existing
    OBVIOUS
  <2>1. /\ NoTask.inline = Nil /\ NoTask.known = Nil /\ NoTask.made = Nil
        /\ NoCall.box = Nil /\ NoCall.inline = Nil /\ NoRun.inline = Nil /\ NoProxy.backend = Nil
    BY DEF NoTask, NoCall, NoRun, NoProxy
  <2>2. QED  BY <2>1 DEF Init, Existing, ExistingTask, Exists
<1>2. WellFormed /\ Existing /\ [Next]_vars => Existing'
  <2> SUFFICES ASSUME WellFormed, Existing, [Next]_vars PROVE Existing'
    OBVIOUS
  <2>1. ASSUME NEW c \in Calls, CallStep(c) PROVE Existing'
    BY <2>1, ExistsGet, ExistsLookup, ExistsReady, ExistsEnding DEF CallStep
  <2>2. QED  BY <2>1, ExistsStart, ExistsOrphan, ExistsOutside, ExistsTask DEF Next
<1>3. QED  BY <1>1, <1>2, AlwaysWellFormed, PTL DEF Spec

-----------------------------------------------------------------------------
(***************************************************************************)
(* Where the agent's work is.  As long as no cause is named, a startup     *)
(* replaces the sandbox the thread is bound to only once that is gone, and *)
(* the handles that a run's calls hold lead nowhere else.                  *)
(***************************************************************************)
Clean == causes = {}

Gone(b) == b = Nil \/ ~Alive(b)

ReplacingTask(t) ==
    Live(t) =>
        /\ task[t].at = "metadata" => task[t].made \in {Nil, bound}
        /\ task[t].at \in {"connect", "refresh", "create", "identity", "bind"} =>
               task[t].known = bound
        /\ task[t].at = "create" => Gone(bound)
        /\ task[t].at \in {"refresh", "identity", "bind"} =>
               task[t].made = bound \/ Gone(bound)

(* Work that is not lost is where the thread is bound, or was asked to be  *)
(* left behind.                                                            *)
WorkBound == ~Gone(work) => work = bound \/ Rebinding

OnBound(p) == proxy[p].backend \in {Nil, bound} \/ Rebinding

UsingRun == run.phase = "work" => OnBound(run.handle)

UsingCall(c) ==
    call[c].at # "idle" /\ call[c].kind \in {"file", "tool"} =>
        /\ OnBound(call[c].proxy)
        /\ call[c].at = "use" => call[c].box = bound \/ Rebinding

Settled ==
    /\ \A t \in Tasks : ReplacingTask(t)
    /\ WorkBound /\ UsingRun
    /\ \A c \in Calls : UsingCall(c)

(* A clean step is a calm one.                                             *)
LEMMA CleanCalm == Clean' => Calm' /\ \A more : Noting(more) => more = {}
  BY DEF Clean, Calm, Noting

(* A sandbox that is gone stays so.                                        *)
GoneStay == \A b \in Boxes : box[b] = "gone" => box'[b] = "gone"

(* The sandboxes of the thread and of the work, once gone, stay so.        *)
LEMMA GoneKept ==
    ASSUME WellFormed, Existing, GoneStay
    PROVE  \A b \in {bound, work} : Gone(b) => b = Nil \/ box'[b] # "alive"
<1>1. box \in [Boxes -> {"none", "alive", "gone"}] /\ bound \in OrNil(Boxes) /\ work \in OrNil(Boxes)
  BY DEF WellFormed, TypeOK
<1>2. Exists(bound) /\ Exists(work)  BY DEF Existing
<1>3. \A b \in Boxes : box[b] \in {"none", "alive", "gone"}  BY <1>1
<1>4. QED  BY <1>1, <1>2, <1>3 DEF Gone, Alive, Exists, GoneStay, OrNil

(***************************************************************************)
(* A step that binds nothing, and leaves handles and calls where they are  *)
(* or leads them to the sandbox the thread is bound to.                    *)
(***************************************************************************)
LEMMA SettledKept ==
    ASSUME WellFormed, Settled, Existing, GoneStay, bound' = bound, Rebinding => Rebinding',
           work' = work \/ work' \in {Nil, bound} \/ Rebinding',
           \A u \in Tasks : task'[u] = task[u] \/ ~Live(u)' \/ task'[u].at = "cached"
                            \/ ReplacingTask(u)',
           \A p \in Proxies : OnBound(p) => OnBound(p)',
           run'.phase = "work" =>
               (run.phase = "work" /\ run'.handle = run.handle) \/ OnBound(run.handle)',
           \A c \in Calls : call'[c] = call[c] \/ UsingCall(c)'
    PROVE  Settled'
<1>1. \A b \in {bound, work} : Gone(b) => b = Nil \/ box'[b] # "alive"  BY GoneKept
<1>2. Gone(bound) => Gone(bound)'  BY <1>1 DEF Gone, Alive
<1>3. ASSUME NEW u \in Tasks PROVE ReplacingTask(u)'
  <2>1. CASE task'[u] = task[u]
    BY <1>2, <2>1 DEF Settled, ReplacingTask, Live, Over
  <2>2. CASE ~Live(u)' \/ task'[u].at = "cached"  BY <2>2 DEF ReplacingTask
  <2>3. QED  BY <2>1, <2>2
<1>4. WorkBound'
  <2>1. CASE work' = work
    <3>1. Gone(work) => Gone(work)'  BY <1>1, <2>1 DEF Gone, Alive
    <3>2. QED  BY <2>1, <3>1 DEF Settled, WorkBound
  <2>2. CASE work' \in {Nil, bound} \/ Rebinding'  BY <2>2 DEF WorkBound, Gone
  <2>3. QED  BY <2>1, <2>2
<1>5. UsingRun'
  <2>1. CASE run'.phase = "work" /\ run.phase = "work" /\ run'.handle = run.handle
    <3>1. run.handle \in Proxies  BY <2>1 DEF WellFormed, Phased
    <3>2. OnBound(run.handle)'  BY <2>1, <3>1 DEF Settled, UsingRun, OnBound
    <3>3. QED  BY <3>2 DEF UsingRun
  <2>2. QED  BY <2>1 DEF UsingRun
<1>6. ASSUME NEW c \in Calls, call'[c] = call[c] PROVE UsingCall(c)'
  <2>1. CASE call[c].at # "idle" /\ call[c].kind \in {"file", "tool"}
    <3>1. call[c].at \in {"get", "lookup", "wait", "use"}
      BY <2>1 DEF WellFormed, TypeOK, CallRecords
    <3>2. call[c].proxy \in Proxies
      BY <2>1, <3>1 DEF WellFormed, Seated, SeatedCall
    <3>3. OnBound(call[c].proxy) /\ (call[c].at = "use" => call[c].box = bound \/ Rebinding)
      BY <2>1 DEF Settled, UsingCall
    <3>4. OnBound(call[c].proxy)'  BY <1>6, <3>2, <3>3 DEF OnBound
    <3>5. QED  BY <1>6, <3>3, <3>4 DEF UsingCall
  <2>2. CASE ~(call[c].at # "idle" /\ call[c].kind \in {"file", "tool"})
    BY <1>6, <2>2 DEF UsingCall
  <2>3. QED  BY <2>1, <2>2
<1>7. QED  BY <1>3, <1>4, <1>5, <1>6 DEF Settled

(* Handles that keep their backends, or lead to the thread's, keep to it.  *)
LEMMA OnBoundKept ==
    ASSUME bound' = bound, Rebinding => Rebinding', NEW p \in Proxies,
           proxy'[p].backend \in {proxy[p].backend, Nil, bound} \/ Rebinding'
    PROVE  OnBound(p) => OnBound(p)'
  BY DEF OnBound

(* A recreation that binds goes on, unless a cause is named.               *)
LEMMA RebindingKept ==
    ASSUME \A u \in Tasks : task'[u] = task[u] \/ ~Rebinder(u)
    PROVE  Rebinding => Rebinding'
<1>1. \A u \in Tasks : Rebinder(u) => Rebinder(u)'  BY DEF Rebinder, Publisher
<1>2. QED  BY <1>1 DEF Rebinding, Rebinder, Publisher

(* While a run works, the registry leads to the thread's sandbox.          *)
LEMMA RegistryOnBound ==
    ASSUME WellFormed, Held, Arranged, Agreed, run.phase = "work", registry # Nil
    PROVE  OnBound(registry)
<1>1. proxy[registry].backend \in {Nil, bound} \/ \E t \in Tasks : Publisher(t)
  BY DEF Agreed, InMemory
<1>2. ASSUME NEW t \in Tasks, Publisher(t) PROVE Rebinding
  BY <1>2, AtWork, PublisherWorks DEF Rebinding, Recreating, Publisher
<1>3. QED  BY <1>1, <1>2 DEF OnBound

(* So it does for a preparation that finds nothing being started.          *)
LEMMA PreparedOnBound ==
    ASSUME WellFormed, Held, Arranged, Agreed, NEW c \in Calls, Preparer(c),
           proxy[registry].startup = Nil
    PROVE  /\ run.phase = "prepare" /\ run.handle = registry /\ call[c].proxy = registry
           /\ registry # Nil /\ proxy[registry].backend \in {Nil, bound}
<1>1. run.phase = "prepare"  BY CallPhase DEF Preparer
<1>2. run.handle = registry /\ call[c].proxy = registry
  BY <1>1 DEF Arranged, Prepared, PreparingCall
<1>3. registry # Nil  BY <1>1, <1>2, NotNil DEF WellFormed, Phased
<1>4. \A t \in Tasks : ~Live(t)  BY NotNil DEF Arranged, SoleTask
<1>5. \A t \in Tasks : ~Recreating(t)  BY <1>1, NoStartups
<1>6. \A t \in Tasks : ~Publisher(t)  BY <1>4, <1>5, PublisherWorks
<1>7. QED  BY <1>1, <1>2, <1>3, <1>6 DEF Agreed, InMemory

(* Get: a handle in use leads to the thread's sandbox, or nowhere.         *)
LEMMA SettledGet ==
    ASSUME WellFormed, Held, Arranged, Agreed, Existing, Settled, NEW c \in Calls, Get(c)
    PROVE  Settled'
<1> DEFINE p == call[c].proxy
<1>1. TypeOK /\ SeatedCall(c)  BY DEF WellFormed, Seated
<1>2. call[c].at = "get"  BY DEF Get
<1>3. p \in Proxies  BY <1>1, <1>2 DEF SeatedCall
<1>4. /\ Elsewhere
      /\ GetReady(c) \/ GetJoins(c) \/ (\E t \in Tasks : GetStarts(c, t)) \/ GetLocks(c)
  BY <1>1, <1>3, GetStep
<1>5. UNCHANGED <<bound, box, work>>  BY <1>4 DEF Elsewhere
<1>6. GoneStay  BY <1>5 DEF GoneStay
<1>7. call[c].kind \in {"file", "tool"} => OnBound(p)  BY <1>2 DEF Settled, UsingCall
<1> HIDE DEF p
<1>8. p = call[c].proxy  BY DEF p
<1>9. ASSUME \A u \in Tasks : task'[u] = task[u] \/ (Over(u) /\ task'[u].at = "cached"),
             UNCHANGED run,
             \A q \in Proxies : proxy'[q].backend \in {proxy[q].backend, Nil},
             \A d \in Calls \ {c} : call'[d] = call[d],
             call'[c].at # "use" /\ call'[c].kind = call[c].kind /\ call'[c].proxy = p
      PROVE  Settled'
  <2>1. Rebinding => Rebinding'
    BY <1>9, RebindingKept DEF Rebinder, Publisher, Over, Ended
  <2>2. \A q \in Proxies : OnBound(q) => OnBound(q)'  BY <1>5, <1>9, <2>1, OnBoundKept
  <2>3. UsingCall(c)'
    BY <1>3, <1>5, <1>7, <1>9, <2>1, <2>2 DEF UsingCall, OnBound
  <2>4. QED  BY <1>5, <1>6, <1>9, <2>1, <2>2, <2>3, SettledKept
<1>10. CASE GetReady(c)
  <2>1. /\ proxy[p].backend # Nil /\ proxy[p].startup = Nil
        /\ Returns(c, proxy[p].backend) /\ UNCHANGED <<proxy, task>>
    BY <1>8, <1>10 DEF GetReady
  <2>2. Rebinding' <=> Rebinding  BY <2>1 DEF Rebinding
  <2>3. \A q \in Proxies : OnBound(q) => OnBound(q)'  BY <1>5, <2>1, <2>2, OnBoundKept
  <2>4. CASE call[c].kind = "prepare"
    <3>1. Leaves(c) /\ run'.phase = "work" /\ run'.handle = run.handle
      BY <2>1, <2>4 DEF Returns
    <3>2. Preparer(c)  BY <1>2, <2>4 DEF Preparer
    <3>3. p = registry  BY <1>8, <3>2 DEF Arranged, PreparingCall
    <3>4. run.handle = registry /\ proxy[registry].backend \in {Nil, bound}
      BY <2>1, <3>2, <3>3, PreparedOnBound
    <3>5. OnBound(run.handle)'  BY <1>5, <2>1, <3>1, <3>4 DEF OnBound
    <3>6. UsingCall(c)' /\ \A d \in Calls \ {c} : call'[d] = call[d]
      BY <3>1 DEF Leaves, CallTo, UsingCall
    <3>7. QED  BY <1>5, <1>6, <2>1, <2>2, <2>3, <3>5, <3>6, SettledKept
  <2>5. CASE call[c].kind = "orphan"
    <3>1. Leaves(c) /\ UNCHANGED run  BY <2>1, <2>5 DEF Returns
    <3>2. UsingCall(c)' /\ \A d \in Calls \ {c} : call'[d] = call[d]
      BY <3>1 DEF Leaves, CallTo, UsingCall
    <3>3. QED  BY <1>5, <1>6, <2>1, <2>2, <2>3, <3>1, <3>2, SettledKept
  <2>6. CASE call[c].kind \notin {"prepare", "orphan"}
    <3>1. CallTo(c, "use", call[c].kind, p, Nil, proxy[p].backend) /\ UNCHANGED run
      BY <1>8, <2>1, <2>6 DEF Returns
    <3>2. UsingCall(c)' /\ \A d \in Calls \ {c} : call'[d] = call[d]
      BY <1>5, <1>7, <2>1, <2>2, <3>1 DEF CallTo, UsingCall, OnBound
    <3>3. QED  BY <1>5, <1>6, <2>1, <2>2, <2>3, <3>1, <3>2, SettledKept
  <2>7. QED  BY <2>4, <2>5, <2>6
<1>11. CASE GetJoins(c)
  <2>1. /\ CallTo(c, "wait", call[c].kind, p, proxy[p].startup, call[c].box)
        /\ UNCHANGED <<proxy, task, run>>
    BY <1>8, <1>11 DEF GetJoins
  <2>2. QED  BY <1>9, <2>1 DEF CallTo
<1>12. ASSUME NEW t \in Tasks, GetStarts(c, t) PROVE Settled'
  <2>1. /\ TaskNew(t, "cached", "ensure", Inline(c), Nil)
        /\ ProxyTo(p, Nil, t, TRUE, proxy[p].lock)
        /\ CallTo(c, "wait", call[c].kind, p, t, call[c].box) /\ UNCHANGED run
    BY <1>8, <1>12 DEF GetStarts
  <2>2. Over(t)  BY <2>1, FreeTask DEF TaskNew
  <2>3. \A u \in Tasks : task'[u] = task[u] \/ (Over(u) /\ task'[u].at = "cached")
    BY <2>1, <2>2 DEF TaskNew
  <2>4. \A q \in Proxies : proxy'[q].backend \in {proxy[q].backend, Nil}
    BY <2>1 DEF ProxyTo
  <2>5. QED  BY <1>9, <2>1, <2>3, <2>4 DEF CallTo
<1>13. CASE GetLocks(c)
  <2>1. /\ ProxyTo(p, Nil, Nil, FALSE, TRUE) /\ UNCHANGED <<task, run>>
        /\ CallTo(c, "lookup", call[c].kind, p, call[c].task, call[c].box)
    BY <1>8, <1>13 DEF GetLocks
  <2>2. \A q \in Proxies : proxy'[q].backend \in {proxy[q].backend, Nil}
    BY <2>1 DEF ProxyTo
  <2>3. QED  BY <1>9, <2>1, <2>2 DEF CallTo
<1>14. QED  BY <1>4, <1>10, <1>11, <1>12, <1>13

(* Lookup: the handle keeps its backend.                                   *)
LEMMA SettledLookup ==
    ASSUME WellFormed, Existing, Settled, NEW c \in Calls, Lookup(c)
    PROVE  Settled'
<1> DEFINE p == call[c].proxy
<1>1. TypeOK /\ SeatedCall(c)  BY DEF WellFormed, Seated
<1>2. call[c].at = "lookup"  BY DEF Lookup
<1>3. p \in Proxies  BY <1>1, <1>2 DEF SeatedCall
<1>4. UNCHANGED <<bound, box, work>>  BY <1>1, <1>3, LookupStep
<1>5. PICK id \in OrNil(Boxes) :
          LookupRaises(c, id) \/ \E t \in Tasks : LookupAttaches(c, id, t)
  BY <1>1, <1>3, LookupStep
<1>6. GoneStay  BY <1>4 DEF GoneStay
<1>7. call[c].kind \in {"file", "tool"} => OnBound(p)  BY <1>2 DEF Settled, UsingCall
<1> HIDE DEF p
<1>8. p = call[c].proxy  BY DEF p
<1>9. CASE LookupRaises(c, id)
  <2>1. /\ Raises(c) /\ UNCHANGED task
        /\ ProxyTo(p, proxy[p].backend, proxy[p].startup, proxy[p].reconnect, FALSE)
    BY <1>8, <1>9 DEF LookupRaises
  <2>2. Rebinding' <=> Rebinding  BY <2>1 DEF Rebinding
  <2>3. \A q \in Proxies : OnBound(q) => OnBound(q)'
    BY <1>4, <2>1, <2>2, OnBoundKept DEF ProxyTo
  <2>4. run' = run \/ run'.phase # "work"  BY <2>1 DEF Raises, NoRun
  <2>5. UsingCall(c)' /\ \A d \in Calls \ {c} : call'[d] = call[d]
    BY <2>1 DEF Raises, Leaves, CallTo, UsingCall
  <2>6. QED  BY <1>4, <1>6, <2>1, <2>2, <2>3, <2>4, <2>5, SettledKept
<1>10. ASSUME NEW t \in Tasks, LookupAttaches(c, id, t) PROVE Settled'
  <2>1. /\ TaskNew(t, "attach", "attach", Nil, id) /\ UNCHANGED run
        /\ ProxyTo(p, proxy[p].backend, t, proxy[p].reconnect, FALSE)
        /\ CallTo(c, "wait", call[c].kind, p, t, call[c].box)
    BY <1>8, <1>10 DEF LookupAttaches
  <2>2. Over(t)  BY <2>1, FreeTask DEF TaskNew
  <2>3. \A u \in Tasks : task'[u] = task[u] \/ (~Rebinder(u) /\ ~Live(u)')
    BY <2>1, <2>2 DEF TaskNew, Over, Ended, Rebinder, Publisher, Live
  <2>4. Rebinding => Rebinding'  BY <2>3, RebindingKept
  <2>5. \A q \in Proxies : OnBound(q) => OnBound(q)'
    BY <1>4, <2>1, <2>4, OnBoundKept DEF ProxyTo
  <2>6. UsingCall(c)' /\ \A d \in Calls \ {c} : call'[d] = call[d]
    BY <1>3, <1>7, <2>1, <2>5 DEF CallTo, UsingCall
  <2>7. QED  BY <1>4, <1>6, <2>1, <2>3, <2>4, <2>5, <2>6, SettledKept
<1>11. QED  BY <1>5, <1>9, <1>10

(***************************************************************************)
(* A waiter that finds its task done has the sandbox the thread is bound   *)
(* to, and leaves that one in the handle.                                  *)
(***************************************************************************)
LEMMA SettledReady ==
    ASSUME WellFormed, Held, Arranged, Agreed, Existing, Settled, NEW c \in Calls, Ready(c), Clean'
    PROVE  Settled'
<1> DEFINE p == call[c].proxy
           t == call[c].task
<1>1. TypeOK /\ SeatedCall(c)  BY DEF WellFormed, Seated
<1>2. call[c].at = "wait" /\ call[c].kind # "recreate" /\ task[t].at = "done"
  BY DEF Ready
<1>3. p \in Proxies /\ t \in Tasks  BY <1>1, <1>2 DEF SeatedCall
<1>4. Outcome(t) \in Boxes /\ Outcome(t) \in OrNil(Boxes)
  BY <1>2, <1>3, OutcomeBox DEF OrNil
<1>5. UNCHANGED <<task, bound, box, work>>  BY <1>1, <1>3, <1>4, ReadyStep
<1>6. PICK b \in OrNil(Boxes) : Ends(c, b) /\ (ReadyMine(c, b) \/ ReadyLate(c, b))
  BY <1>1, <1>3, <1>4, ReadyStep
<1>7. Reachable(p)  BY InUse
<1>8. GoneStay /\ (Rebinding' <=> Rebinding)  BY <1>5 DEF GoneStay, Rebinding
<1>9. call[c].kind \in {"file", "tool"} => OnBound(p)  BY <1>2 DEF Settled, UsingCall
<1> HIDE DEF p, t
<1>10. p = call[c].proxy /\ t = call[c].task  BY DEF p, t
<1>11. /\ b = Nil \/ b = bound \/ Rebinding \/ call[c].kind \notin {"file", "tool"}
       /\ call[c].kind = "prepare" /\ b # Nil =>
              run.handle = p /\ (b = bound \/ Rebinding)
       /\ \A q \in Proxies : proxy'[q].backend \in {proxy[q].backend, bound} \/ Rebinding
       /\ call[c].kind = "prepare" => proxy'[p].backend = b
  <2>1. call[c].kind = "prepare" => Preparer(c)  BY <1>2 DEF Preparer
  <2>2. CASE ReadyMine(c, b)
    <3>1. /\ proxy[p].startup = t /\ b = Outcome(t)
          /\ ProxyTo(p, b, Nil, proxy[p].reconnect, proxy[p].lock)
      BY <1>10, <2>2 DEF ReadyMine
    <3>2. registry = p
      BY <1>10, <2>2, CleanCalm DEF ReadyMine, When
    <3>3. task[t].kind = "attach" /\ b = task[t].made
      BY <1>2, <1>3, <1>7, <1>10, <3>1, ReadyAttached
    <3>4. b = bound \/ Rebinding
      BY <1>2, <1>3, <1>10, <3>1, <3>2, <3>3, NotNil DEF Agreed, AttachingTask
    <3>5. call[c].kind = "prepare" => run.handle = p
      BY <2>1, <3>2, CallPhase DEF Arranged, Prepared, Preparer
    <3>6. QED  BY <1>3, <3>1, <3>4, <3>5 DEF ProxyTo
  <2>3. CASE ReadyLate(c, b)
    <3>1. proxy[p].startup # t /\ b = proxy[p].backend /\ UNCHANGED proxy
      BY <1>10, <2>3 DEF ReadyLate
    <3>2. ASSUME call[c].kind = "prepare" PROVE run.handle = p /\ b \in {Nil, bound}
      <4>1. Preparer(c)  BY <2>1, <3>2
      <4>2. p = registry /\ WaitsWell(t)
        BY <1>2, <1>10, <4>1 DEF Arranged, PreparingCall
      <4>3. proxy[registry].startup = Nil
        BY <1>2, <1>10, <3>1, <4>2 DEF WaitsWell
      <4>4. QED  BY <3>1, <4>1, <4>2, <4>3, PreparedOnBound
    <3>3. QED  BY <1>9, <3>1, <3>2 DEF OnBound
  <2>4. QED  BY <1>6, <2>2, <2>3
<1>12. \A q \in Proxies : OnBound(q) => OnBound(q)'  BY <1>5, <1>8, <1>11, OnBoundKept
<1>13. CASE b = Nil
  <2>1. Raises(c)  BY <1>6, <1>13 DEF Ends
  <2>2. run' = run \/ run'.phase # "work"  BY <2>1 DEF Raises, NoRun
  <2>3. UsingCall(c)' /\ \A d \in Calls \ {c} : call'[d] = call[d]
    BY <2>1 DEF Raises, Leaves, CallTo, UsingCall
  <2>4. QED  BY <1>5, <1>8, <1>12, <2>2, <2>3, SettledKept
<1>14. CASE b # Nil /\ call[c].kind = "prepare"
  <2>1. Leaves(c) /\ run'.phase = "work" /\ run'.handle = run.handle
    BY <1>6, <1>14 DEF Ends, Returns
  <2>2. OnBound(run.handle)'  BY <1>5, <1>8, <1>11, <1>14, <2>1 DEF OnBound
  <2>3. UsingCall(c)' /\ \A d \in Calls \ {c} : call'[d] = call[d]
    BY <2>1 DEF Leaves, CallTo, UsingCall
  <2>4. QED  BY <1>5, <1>8, <1>12, <2>2, <2>3, SettledKept
<1>15. CASE b # Nil /\ call[c].kind = "orphan"
  <2>1. Leaves(c) /\ UNCHANGED run  BY <1>6, <1>15 DEF Ends, Returns
  <2>2. UsingCall(c)' /\ \A d \in Calls \ {c} : call'[d] = call[d]
    BY <2>1 DEF Leaves, CallTo, UsingCall
  <2>3. QED  BY <1>5, <1>8, <1>12, <2>1, <2>2, SettledKept
<1>16. CASE b # Nil /\ call[c].kind \notin {"prepare", "orphan"}
  <2>1. CallTo(c, "use", call[c].kind, p, Nil, b) /\ UNCHANGED run
    BY <1>6, <1>10, <1>16 DEF Ends, Returns
  <2>2. call[c].kind \in {"file", "tool"} =>
            proxy'[p].backend \in {Nil, bound} \/ Rebinding
    BY <1>3, <1>5, <1>8, <1>9, <1>12 DEF OnBound
  <2>3. UsingCall(c)' /\ \A d \in Calls \ {c} : call'[d] = call[d]
    BY <1>5, <1>8, <1>11, <1>16, <2>1, <2>2 DEF CallTo, UsingCall, OnBound
  <2>4. QED  BY <1>5, <1>8, <1>12, <2>1, <2>3, SettledKept
<1>17. QED  BY <1>13, <1>14, <1>15, <1>16

(* A coroutine that leaves, and may drop the handle.                       *)
LEMMA SettledDropping ==
    ASSUME WellFormed, Existing, Settled, NEW c \in Calls, Untouched \/ Drops, Clean', Leaves(c),
           UNCHANGED <<bound, box, work>>, run' = run \/ run'.phase # "work",
           \A q \in Proxies : proxy'[q].backend = proxy[q].backend
    PROVE  Settled'
<1>1. GoneStay  BY DEF GoneStay
<1>2. \A u \in Tasks : task'[u] = task[u] \/ (~Rebinder(u) /\ ~Live(u)')
  <2>1. CASE UNCHANGED task  BY <2>1
  <2>2. ASSUME NEW t \in Tasks, Cancels(t)
        PROVE  \A u \in Tasks : task'[u] = task[u] \/ (~Rebinder(u) /\ ~Live(u)')
    <3>1. ~Publisher(t)
      BY <2>2, CleanCalm DEF Cancels, When, Publisher
    <3>2. task'[t] = Cancelled /\ \A u \in Tasks \ {t} : task'[u] = task[u]
      BY <2>2 DEF Cancels, TaskBecomes
    <3>3. QED  BY <3>1, <3>2, CancelledTask DEF Rebinder, Live, Over, Ended
  <2>3. QED  BY <2>1, <2>2 DEF Untouched, Drops
<1>3. Rebinding => Rebinding'  BY <1>2, RebindingKept
<1>4. \A q \in Proxies : OnBound(q) => OnBound(q)'  BY <1>3, OnBoundKept
<1>5. UsingCall(c)' /\ \A d \in Calls \ {c} : call'[d] = call[d]
  BY DEF Leaves, CallTo, UsingCall
<1>6. QED  BY <1>1, <1>2, <1>3, <1>4, <1>5, SettledKept

(* A task that failed, an operation that failed, a recreation.             *)
LEMMA SettledEnding ==
    ASSUME WellFormed, Existing, Settled, NEW c \in Calls, Clean',
           NotReady(c) \/ UseFails(c) \/ Recreated(c)
    PROVE  Settled'
<1>1. TypeOK /\ SeatedCall(c)  BY DEF WellFormed, Seated
<1>2. CASE NotReady(c)
  <2> DEFINE p == call[c].proxy
  <2>1. call[c].at = "wait" /\ call[c].kind # "recreate"  BY <1>2 DEF NotReady
  <2>2. p \in Proxies  BY <1>1, <2>1 DEF SeatedCall
  <2>3. Raises(c) /\ UNCHANGED <<bound, box, work>> /\ (Untouched \/ Drops)
    BY <1>1, <1>2, <2>2, NotReadyStep
  <2>4. PICK s \in {proxy[p].startup, Nil} :
            ProxyTo(p, proxy[p].backend, s, proxy[p].reconnect, proxy[p].lock)
    BY <1>1, <1>2, <2>2, NotReadyStep
  <2>5. Leaves(c) /\ (run' = run \/ run'.phase # "work")  BY <2>3 DEF Raises, NoRun
  <2> HIDE DEF p
  <2>6. \A q \in Proxies : proxy'[q].backend = proxy[q].backend  BY <2>4 DEF ProxyTo
  <2>7. QED  BY <2>3, <2>5, <2>6, SettledDropping
<1>3. CASE UseFails(c)
  <2>1. Leaves(c) /\ (Untouched \/ Drops) /\ UNCHANGED <<proxy, run, bound, box, work>>
    BY <1>1, <1>3, UseFailsStep
  <2>2. QED  BY <2>1, SettledDropping
<1>4. CASE Recreated(c)
  <2>1. Leaves(c) /\ UNCHANGED <<registry, proxy, task, run, bound, box, work, causes>>
    BY <1>1, <1>4, RecreatedStep
  <2>2. Noting({})  BY <2>1 DEF Noting
  <2>3. Untouched  BY <2>1, <2>2 DEF Untouched
  <2>4. QED  BY <2>1, <2>3, SettledDropping
<1>5. QED  BY <1>2, <1>3, <1>4

(* An operation is on the sandbox the thread is bound to.                  *)
LEMMA UseBound ==
    ASSUME WellFormed, Settled, NEW c \in Calls, Use(c)
    PROVE  work' = work \/ (work' = call[c].box /\ (work' = bound \/ Rebinding))
<1>1. /\ call[c].at = "use"
      /\ work' = (IF call[c].kind = "mirror" THEN work ELSE call[c].box)
  BY UseStep DEF WellFormed
<1>2. call[c].kind \in {"file", "tool", "mirror"}
  <2>1. call[c].kind \in Kinds  BY DEF WellFormed, TypeOK, CallRecords
  <2>2. SeatedCall(c)  BY DEF WellFormed, Seated
  <2>3. QED  BY <1>1, <2>1, <2>2 DEF SeatedCall, Kinds
<1>3. QED  BY <1>1, <1>2 DEF Settled, UsingCall

(* Use: the work goes on where the thread is bound.                        *)
LEMMA SettledUse ==
    ASSUME WellFormed, Existing, Settled, NEW c \in Calls, Use(c)
    PROVE  Settled'
<1>1. /\ call[c].at = "use"
      /\ Leaves(c) \/ CallTo(c, "get", call[c].kind, call[c].proxy, call[c].task, Nil)
      /\ UNCHANGED <<proxy, task, run, bound, box>>
  BY UseStep DEF WellFormed
<1>2. GoneStay /\ (Rebinding' <=> Rebinding) /\ \A q \in Proxies : OnBound(q) => OnBound(q)'
  BY <1>1 DEF GoneStay, Rebinding, OnBound
<1>3. work' = work \/ work' = bound \/ Rebinding'  BY <1>2, UseBound
<1>4. UsingCall(c)' /\ \A d \in Calls \ {c} : call'[d] = call[d]
  <2>1. CASE Leaves(c)  BY <2>1 DEF Leaves, CallTo, UsingCall
  <2>2. CASE CallTo(c, "get", call[c].kind, call[c].proxy, call[c].task, Nil)
    <3>1. call[c].proxy \in Proxies  BY <1>1 DEF WellFormed, Seated, SeatedCall
    <3>2. call[c].kind \in {"file", "tool"} => OnBound(call[c].proxy)
      BY <1>1 DEF Settled, UsingCall
    <3>3. QED  BY <1>1, <1>2, <2>2, <3>1, <3>2 DEF CallTo, UsingCall, OnBound
  <2>3. QED  BY <1>1, <2>1, <2>2
<1>5. QED  BY <1>1, <1>2, <1>3, <1>4, SettledKept

(* Coroutines that start, and runs that begin.                             *)
LEMMA SettledStart ==
    ASSUME WellFormed, Held, Arranged, Agreed, Existing, Settled, NEW c \in Calls,
           NEW kind \in Kinds, Start(c, kind)
    PROVE  Settled'
<1>1. TypeOK  BY DEF WellFormed
<1>2. /\ CallTo(c, "get", kind, Handle, Nil, Nil)
      /\ Takes(Kept.backend, Kept.startup, Kept.reconnect, Kept.lock)
      /\ kind \in {"prepare", "tool", "mirror"}
      /\ kind = "tool" => run.phase = "work"
      /\ UNCHANGED <<task, run, bound, box, work>>
  BY <1>1, StartStep
<1>3. GoneStay /\ (Rebinding' <=> Rebinding)  BY <1>2 DEF GoneStay, Rebinding
<1>4. NoProxy.backend = Nil  BY DEF NoProxy
<1>5. /\ Handle \in Proxies /\ proxy'[Handle].backend = Kept.backend
      /\ \A q \in Proxies \ {Handle} : proxy'[q] = proxy[q]
      /\ registry # Nil => Handle = registry /\ Kept = proxy[registry]
      /\ registry = Nil => Kept.backend = Nil
  BY <1>2, <1>4 DEF Takes, ProxyTo
<1>6. \A q \in Proxies : OnBound(q) => OnBound(q)'
  BY <1>2, <1>3, <1>5, OnBoundKept
<1>7. kind = "tool" => proxy'[Handle].backend \in {Nil, bound} \/ Rebinding
  BY <1>2, <1>5, RegistryOnBound DEF OnBound
<1>8. UsingCall(c)' /\ \A d \in Calls \ {c} : call'[d] = call[d]
  BY <1>2, <1>3, <1>7 DEF CallTo, UsingCall, OnBound
<1>9. QED  BY <1>2, <1>3, <1>6, <1>8, SettledKept

(* Tools start with the handle of a run that works.                        *)
LEMMA SettledTools ==
    ASSUME WellFormed, Existing, Settled, NEW c \in Calls, StartFile(c) \/ Recreate(c)
    PROVE  Settled'
<1>1. TypeOK  BY DEF WellFormed
<1>2. CASE StartFile(c)
  <2>1. /\ CallTo(c, "get", "file", run.handle, Nil, Nil) /\ run.phase = "work"
        /\ UNCHANGED <<proxy, task, run, bound, box, work>>
    BY <1>1, <1>2, StartFileStep
  <2>2. GoneStay /\ (Rebinding' <=> Rebinding) /\ \A q \in Proxies : OnBound(q) => OnBound(q)'
    BY <2>1 DEF GoneStay, Rebinding, OnBound
  <2>3. OnBound(run.handle)  BY <2>1 DEF Settled, UsingRun
  <2>4. UsingCall(c)' /\ \A d \in Calls \ {c} : call'[d] = call[d]
    BY <2>1, <2>2, <2>3 DEF CallTo, UsingCall, OnBound
  <2>5. QED  BY <2>1, <2>2, <2>4, SettledKept
<1>3. CASE Recreate(c)
  <2>1. UNCHANGED <<proxy, run, bound, box, work>>  BY <1>1, <1>3, RecreateStep
  <2>2. PICK t \in Tasks :
            /\ TaskNew(t, "cached", "recreate", run.inline, Nil)
            /\ CallTo(c, "wait", "recreate", Nil, t, Nil)
    BY <1>1, <1>3, RecreateStep
  <2>3. Over(t)  BY <2>2, FreeTask DEF TaskNew
  <2>4. \A u \in Tasks : task'[u] = task[u] \/ (~Rebinder(u) /\ task'[u].at = "cached")
    BY <2>2, <2>3 DEF TaskNew, Over, Ended, Rebinder, Publisher
  <2>5. GoneStay /\ (Rebinding => Rebinding')  BY <2>1, <2>4, RebindingKept DEF GoneStay
  <2>6. \A q \in Proxies : OnBound(q) => OnBound(q)'  BY <2>1, <2>5, OnBoundKept
  <2>7. UsingCall(c)' /\ \A d \in Calls \ {c} : call'[d] = call[d]
    BY <2>2 DEF CallTo, UsingCall
  <2>8. QED  BY <2>1, <2>4, <2>5, <2>6, <2>7, SettledKept
<1>4. QED  BY <1>2, <1>3

(* A run that begins is not at work.                                       *)
LEMMA SettledBegin ==
    ASSUME WellFormed, Existing, Settled, Begin
    PROVE  Settled'
<1>1. TypeOK  BY DEF WellFormed
<1>2. UNCHANGED <<call, bound, box, work>>  BY <1>1, BeginStep
<1>3. PICK t \in Tasks, inline \in {Nil, bound} :
          /\ Takes(Kept.backend, t, TRUE, Kept.lock)
          /\ Joins(t) \/ StartsUp(t, inline)
          /\ run'.phase = "prepare"
  BY <1>1, BeginStep
<1>4. NoProxy.backend = Nil  BY DEF NoProxy
<1>5. \A q \in Proxies : proxy'[q].backend \in {proxy[q].backend, Nil}
  BY <1>3, <1>4 DEF Takes, ProxyTo
<1>6. \A u \in Tasks : task'[u] = task[u] \/ (~Rebinder(u) /\ task'[u].at = "cached")
  <2>1. CASE Joins(t)  BY <2>1 DEF Joins
  <2>2. CASE StartsUp(t, inline)
    <3>1. TaskNew(t, "cached", "ensure", inline, Nil)  BY <2>2 DEF StartsUp
    <3>2. Over(t)  BY <3>1, FreeTask DEF TaskNew
    <3>3. QED  BY <3>1, <3>2 DEF TaskNew, Over, Ended, Rebinder, Publisher
  <2>3. QED  BY <1>3, <2>1, <2>2
<1>7. GoneStay /\ (Rebinding => Rebinding')  BY <1>2, <1>6, RebindingKept DEF GoneStay
<1>8. \A q \in Proxies : OnBound(q) => OnBound(q)'  BY <1>2, <1>5, <1>7, OnBoundKept
<1>9. QED  BY <1>2, <1>3, <1>6, <1>7, <1>8, SettledKept

(* Runs that end, the process and the provider.                            *)
LEMMA SettledOutside ==
    ASSUME WellFormed, Existing, Settled, Clean',
           Interrupt \/ Crash \/ Finish \/ (\E b \in Boxes : Delete(b)) \/ UNCHANGED vars
    PROVE  Settled'
<1>1. TypeOK /\ box \in [Boxes -> {"none", "alive", "gone"}]  BY DEF WellFormed, TypeOK
<1>2. NoCall.at = "idle" /\ NoTask.at = "free" /\ NoRun.phase = "none" /\ NoProxy.backend = Nil
  BY DEF NoCall, NoTask, NoRun, NoProxy
<1>3. ASSUME Noting(When(Rebinding, "torn")) PROVE ~Rebinding
  BY <1>3, CleanCalm DEF When
<1>4. CASE Interrupt
  <2>1. Interrupts  BY <1>1, <1>4, InterruptStep DEF WellFormed, Seated, SeatedCall
  <2>2. /\ UNCHANGED <<bound, box, work>> /\ run' = NoRun
        /\ Noting(When(Rebinding, "torn"))
        /\ \A q \in Proxies : proxy'[q].backend = proxy[q].backend
        /\ \A c \in Calls : call'[c] \in {call[c], NoCall}
        /\ \A u \in Tasks : task'[u] = task[u] \/ (Recreating(u) /\ task'[u] = Cancelled)
    BY <2>1 DEF Interrupts, Forgets, Recreating
  <2>3. ~Rebinding /\ GoneStay  BY <1>3, <2>2 DEF GoneStay
  <2>4. \A q \in Proxies : OnBound(q) => OnBound(q)'  BY <2>2, <2>3, OnBoundKept
  <2>5. \A c \in Calls : call'[c] = call[c] \/ UsingCall(c)'  BY <1>2, <2>2 DEF UsingCall
  <2>6. \A u \in Tasks : task'[u] = task[u] \/ ~Live(u)'
    BY <2>2, CancelledTask DEF Live, Over, Ended
  <2>7. QED  BY <1>2, <2>2, <2>3, <2>4, <2>5, <2>6, SettledKept
<1>5. CASE Crash
  <2>1. /\ UNCHANGED <<bound, box, work>> /\ run' = NoRun
        /\ Noting(When(Rebinding, "torn"))
        /\ \A q \in Proxies : proxy'[q] = NoProxy
        /\ \A c \in Calls : call'[c] = NoCall
        /\ \A u \in Tasks : task'[u] = NoTask
    BY <1>1, <1>5, CrashStep
  <2>2. ~Rebinding /\ GoneStay  BY <1>3, <2>1 DEF GoneStay
  <2>3. \A q \in Proxies : OnBound(q) => OnBound(q)'  BY <1>2, <2>1, <2>2, OnBoundKept
  <2>4. \A c \in Calls : UsingCall(c)'  BY <1>2, <2>1 DEF UsingCall
  <2>5. \A u \in Tasks : ~Live(u)'  BY <1>2, <2>1 DEF Live, Over
  <2>6. QED  BY <1>2, <2>1, <2>2, <2>3, <2>4, <2>5, SettledKept
<1>6. CASE Finish \/ (\E b \in Boxes : Delete(b)) \/ UNCHANGED vars
  <2>1. UNCHANGED <<proxy, task, call, bound, work>> /\ (run' = run \/ run' = NoRun)
    BY <1>1, <1>6, FinishStep, DeleteStep DEF vars, memory, outside
  <2>2. GoneStay
    BY <1>1, <1>6, FinishStep, DeleteStep DEF vars, outside, GoneStay
  <2>3. (Rebinding' <=> Rebinding) /\ \A q \in Proxies : OnBound(q) => OnBound(q)'
    BY <2>1 DEF Rebinding, OnBound
  <2>4. QED  BY <1>2, <2>1, <2>2, <2>3, SettledKept
<1>7. QED  BY <1>4, <1>5, <1>6

(* An orphan is no tool of the agent.                                      *)
LEMMA SettledOrphan ==
    ASSUME WellFormed, Existing, Settled, NEW c \in Calls, IdentityFails(c)
    PROVE  Settled'
<1>1. /\ Orphans(c) /\ run' = NoRun /\ UNCHANGED <<proxy, task, bound, box, work>>
  BY IdentityFailsStep DEF WellFormed
<1>2. GoneStay /\ run'.phase # "work"  BY <1>1 DEF GoneStay, NoRun
<1>3. (Rebinding' <=> Rebinding) /\ \A q \in Proxies : OnBound(q) => OnBound(q)'
  BY <1>1 DEF Rebinding, OnBound
<1>4. UsingCall(c)' /\ \A d \in Calls \ {c} : call'[d] = call[d]
  BY <1>1 DEF Orphans, UsingCall
<1>5. QED  BY <1>1, <1>2, <1>3, <1>4, SettledKept

(***************************************************************************)
(* Tasks: one that goes on without binding or publishing.                  *)
(***************************************************************************)
LEMMA SettledMove ==
    ASSUME WellFormed, Existing, Settled, NEW t \in Tasks, NEW a, NEW id, NEW b,
           To(t, a, id, b), Inside, bound' = bound, GoneStay, ~Publisher(t),
           ReplacingTask(t)' \/ ~Live(t)'
    PROVE  Settled'
<1>1. \A u \in Tasks \ {t} : task'[u] = task[u]  BY DEF To
<1>2. Rebinding => Rebinding'  BY <1>1, RebindingKept DEF Rebinder
<1>3. UNCHANGED <<proxy, run, call, work>>  BY DEF Inside
<1>4. \A q \in Proxies : OnBound(q) => OnBound(q)'  BY <1>2, <1>3, OnBoundKept
<1>5. QED  BY <1>1, <1>2, <1>3, <1>4, SettledKept

(* What it knows and has made says what it may do next.                    *)
LEMMA ReplacingTo ==
    ASSUME NEW t \in Tasks, NEW a, NEW id, NEW b, To(t, a, id, b),
           task[t].kind = "ensure" =>
               /\ a = "metadata" => b \in {Nil, bound'}
               /\ a \in {"connect", "refresh", "create", "identity", "bind"} => id = bound'
               /\ a = "create" => Gone(bound)'
               /\ a \in {"refresh", "identity", "bind"} => b = bound' \/ Gone(bound)'
    PROVE  ReplacingTask(t)'
  BY DEF To, ReplacingTask, Live

(* What a startup that is under way knows.                                 *)
LEMMA ReplacingNow ==
    ASSUME WellFormed, Settled, NEW t \in Tasks, task[t].kind = "ensure"
    PROVE  /\ task[t].at = "metadata" => task[t].made \in {Nil, bound}
           /\ task[t].at \in {"connect", "refresh", "create", "identity", "bind"} =>
                  task[t].known = bound
           /\ task[t].at = "create" => Gone(bound)
           /\ task[t].at \in {"refresh", "identity", "bind"} =>
                  task[t].made = bound \/ Gone(bound)
<1>1. ReplacingTask(t)  BY DEF Settled
<1>2. task[t].at \in {"metadata", "connect", "refresh", "create", "identity", "bind"} => Live(t)
  BY TaskAt DEF Live
<1>3. QED  BY <1>1, <1>2 DEF ReplacingTask

(* Without a cause, the id that is read is the thread's.                   *)
LEMMA ReadClean ==
    ASSUME NEW inline, NEW id, NEW more, Reads(inline, id, more), Clean'
    PROVE  id = bound
<1>1. ~Noting({"blind"} \union more)  BY CleanCalm
<1>2. /\ id = IF inline # Nil THEN inline ELSE bound
      /\ Noting(When(inline \notin {Nil, bound}, "stale") \union more)
  BY <1>1 DEF Reads
<1>3. When(inline \notin {Nil, bound}, "stale") \union more = {}  BY <1>2, CleanCalm
<1>4. inline \in {Nil, bound}  BY <1>3 DEF When
<1>5. QED  BY <1>2, <1>4

(* A startup finds the thread's sandbox in memory, or none.                *)
LEMMA SettledCached ==
    ASSUME WellFormed, Held, Arranged, Agreed, Existing, Settled, NEW t \in Tasks, Cached(t)
    PROVE  Settled'
<1>1. task[t].at = "cached" /\ Inside /\ UNCHANGED <<bound, box>>
  BY CachedStep DEF WellFormed
<1>2. GoneStay /\ ~Publisher(t)  BY <1>1 DEF GoneStay, Publisher
<1>3. ASSUME task[t].kind = "ensure" PROVE Kept.backend \in {Nil, bound}
  <2>1. Live(t)  BY <1>1, <1>3, TaskAt DEF Live
  <2>2. \A u \in Tasks : ~Publisher(u)
    BY <1>2, <2>1, Alone, TaskAt DEF Publisher
  <2>3. registry # Nil  BY <2>1 DEF Arranged, SoleTask
  <2>4. QED  BY <2>2, <2>3 DEF Agreed, InMemory, Kept
<1>4. PICK b \in {task[t].made, Kept.backend} :
          /\ To(t, "metadata", task[t].known, b)
          /\ task[t].kind # "recreate" => b = Kept.backend
  BY CachedStep DEF WellFormed
<1>5. ReplacingTask(t)'  BY <1>1, <1>3, <1>4, ReplacingTo
<1>6. QED  BY <1>1, <1>2, <1>4, <1>5, SettledMove

(* It reads the id the thread is bound to.                                 *)
LEMMA SettledMetadata ==
    ASSUME WellFormed, Existing, Settled, NEW t \in Tasks, Metadata(t), Clean'
    PROVE  Settled'
<1>1. task[t].at = "metadata" /\ Inside /\ UNCHANGED <<bound, box>>
  BY MetadataStep DEF WellFormed
<1>2. PICK id \in OrNil(Boxes) :
          Reads(task[t].inline, id, {}) /\ To(t, AfterMetadata(t, id), id, task[t].made)
  BY MetadataStep DEF WellFormed
<1>3. id = bound  BY <1>2, ReadClean
<1>4. GoneStay /\ ~Publisher(t)  BY <1>1 DEF GoneStay, Publisher
<1>5. ASSUME task[t].kind = "ensure"
      PROVE  /\ AfterMetadata(t, id) \in {"refresh", "connect", "create"}
             /\ AfterMetadata(t, id) = "refresh" => task[t].made = bound
             /\ AfterMetadata(t, id) = "create" => bound = Nil
  <2>1. task[t].made \in {Nil, bound}  BY <1>1, <1>5, ReplacingNow
  <2>2. QED  BY <1>3, <1>5, <2>1 DEF AfterMetadata
<1>6. ReplacingTask(t)'  BY <1>1, <1>2, <1>3, <1>5, ReplacingTo DEF Gone
<1>7. QED  BY <1>1, <1>2, <1>4, <1>6, SettledMove

(* It goes on to create a sandbox only if that one is gone.                *)
LEMMA SettledProbe ==
    ASSUME WellFormed, Existing, Settled, NEW t \in Tasks, Connect(t) \/ Refresh(t) \/ Attach(t)
    PROVE  Settled'
<1>1. Inside /\ UNCHANGED <<bound, box>> /\ task[t].at \in {"connect", "refresh", "attach"}
  BY ConnectStep, RefreshStep, AttachStep DEF WellFormed
<1>2. GoneStay /\ ~Publisher(t) /\ (Gone(bound)' <=> Gone(bound))
  BY <1>1 DEF GoneStay, Publisher, Gone, Alive
<1>3. CASE Connect(t)
  <2>1. /\ task[t].at = "connect"
        /\ \/ To(t, "refresh", task[t].known, task[t].known)
           \/ To(t, "create", task[t].known, task[t].made) /\ ~Alive(task[t].known)
           \/ To(t, "unreachable", task[t].known, task[t].made)
    BY <1>3, ConnectStep DEF WellFormed
  <2>2. task[t].kind = "ensure" => task[t].known = bound  BY <2>1, ReplacingNow
  <2>3. CASE To(t, "refresh", task[t].known, task[t].known)
    <3>1. ReplacingTask(t)'  BY <1>1, <2>2, <2>3, ReplacingTo
    <3>2. QED  BY <1>1, <1>2, <2>3, <3>1, SettledMove
  <2>4. CASE To(t, "create", task[t].known, task[t].made) /\ ~Alive(task[t].known)
    <3>1. ReplacingTask(t)'  BY <1>1, <1>2, <2>2, <2>4, ReplacingTo DEF Gone
    <3>2. QED  BY <1>1, <1>2, <2>4, <3>1, SettledMove
  <2>5. CASE To(t, "unreachable", task[t].known, task[t].made)
    <3>1. ReplacingTask(t)'  BY <2>5, ReplacingTo
    <3>2. QED  BY <1>1, <1>2, <2>5, <3>1, SettledMove
  <2>6. QED  BY <2>1, <2>3, <2>4, <2>5
<1>4. CASE Refresh(t) \/ Attach(t)
  <2>1. task[t].at = "refresh" \/ Attach(t)  BY <1>4, RefreshStep DEF WellFormed
  <2>2. PICK a \in {"identity", "unreachable", "done", "failed"} :
            To(t, a, task[t].known, task[t].made)
    BY <1>4, RefreshStep, AttachStep DEF WellFormed
  <2>3. Attach(t) => task[t].kind = "attach"
    BY AttachStep, TaskAt DEF WellFormed
  <2>4. task[t].kind = "ensure" =>
            task[t].known = bound /\ (task[t].made = bound \/ Gone(bound))
    BY <2>1, <2>3, ReplacingNow
  <2>5. ReplacingTask(t)'  BY <1>1, <1>2, <2>2, <2>4, ReplacingTo
  <2>6. QED  BY <1>1, <1>2, <2>2, <2>5, SettledMove
<1>5. QED  BY <1>3, <1>4

(***************************************************************************)
(* A sandbox is created for a run only once the thread's is gone.          *)
(***************************************************************************)
LEMMA SettledCreate ==
    ASSUME WellFormed, Existing, Settled, NEW t \in Tasks, Create(t)
    PROVE  Settled'
<1>1. box \in [Boxes -> {"none", "alive", "gone"}]  BY DEF WellFormed, TypeOK
<1>2. task[t].at = "create" /\ Inside /\ UNCHANGED bound
  BY CreateStep DEF WellFormed
<1>3. /\ \E a \in {"identity", "failed", "unreachable"} : \E b : To(t, a, task[t].known, b)
      /\ UNCHANGED box \/ \E c \in Boxes : box[c] = "none" /\ box' = [box EXCEPT ![c] = "alive"]
  <2>1. CASE \E b \in Boxes :
               /\ box[b] = "none" /\ box' = [box EXCEPT ![b] = "alive"]
               /\ To(t, "identity", task[t].known, b)
    BY <2>1
  <2>2. CASE /\ UNCHANGED box
             /\ \E a \in {"failed", "unreachable"} : To(t, a, task[t].known, task[t].made)
    BY <2>2
  <2>3. QED  BY <2>1, <2>2, CreateStep DEF WellFormed
<1>4. GoneStay /\ ~Publisher(t)  BY <1>1, <1>2, <1>3 DEF GoneStay, Publisher
<1>5. Gone(bound) => Gone(bound)'  BY <1>2, <1>4, GoneKept DEF Gone, Alive
<1>6. task[t].kind = "ensure" => task[t].known = bound /\ Gone(bound)
  BY <1>2, ReplacingNow
<1>7. PICK a \in {"identity", "failed", "unreachable"} : \E b : To(t, a, task[t].known, b)
  BY <1>3
<1>8. PICK b : To(t, a, task[t].known, b)
  BY <1>7
<1>9. ReplacingTask(t)'  BY <1>2, <1>5, <1>6, <1>8, ReplacingTo
<1>10. QED  BY <1>2, <1>4, <1>8, <1>9, SettledMove

(***************************************************************************)
(* One that binds the thread to what it made: the sandbox before is gone,  *)
(* or was asked to be left behind.                                         *)
(***************************************************************************)
LEMMA SettledBound ==
    ASSUME WellFormed, Held, Arranged, Existing, Settled, NEW t \in Tasks, task[t].at = "bind",
           To(t, "publish", task[t].known, task[t].made), Inside, UNCHANGED box,
           bound' = task[t].made
    PROVE  Settled'
<1>1. /\ task'[t].at = "publish" /\ task'[t].made = bound' /\ task'[t].kind = task[t].kind
      /\ \A u \in Tasks \ {t} : task'[u] = task[u]
  BY DEF To
<1>2. UNCHANGED <<registry, proxy, run, call, work>>  BY DEF Inside
<1>3. Live(t) \/ Recreating(t)  BY TaskAt DEF Live, Recreating
<1>4. CASE Recreating(t)
  <2>1. Rebinding'  BY <1>1, <1>4 DEF Rebinding, Recreating
  <2>2. \A u \in Tasks : ~Live(u)  BY <1>4, NoStartups
  <2>3. \A u \in Tasks : ~Live(u)'  BY <1>1, <1>4, <2>2 DEF Live, Over, Recreating
  <2>4. QED
    BY <2>1, <2>3 DEF Settled, ReplacingTask, WorkBound, UsingRun, UsingCall, OnBound
<1>5. CASE Live(t)
  <2>1. run.phase # "work"  BY <1>5 DEF Arranged, SoleTask
  <2>2. \A u \in Tasks \ {t} : ~Live(u) /\ ~Recreating(u)
    BY <1>5, Alone DEF Live, Recreating
  <2>3. \A u \in Tasks : ~Rebinder(u)
    BY <1>5, <2>2, PublisherWorks DEF Rebinder, Live, Recreating
  <2>4. ~Rebinding  BY <2>3 DEF Rebinding, Rebinder, Publisher
  <2>5. \A u \in Tasks : ReplacingTask(u)'
    BY <1>1, <2>2 DEF ReplacingTask, Live, Over
  <2>6. WorkBound'
    <3>1. task[t].made = bound \/ Gone(bound)  BY <1>5, ReplacingNow DEF Live
    <3>2. ~Gone(work) => work = bound  BY <2>4 DEF Settled, WorkBound
    <3>3. QED  BY <1>2, <3>1, <3>2 DEF WorkBound, Gone, Alive
  <2>7. UsingRun'  BY <1>2, <2>1 DEF UsingRun
  <2>8. \A c \in Calls : UsingCall(c)'
    BY <1>2, <2>1, CallPhase DEF UsingCall
  <2>9. QED  BY <2>5, <2>6, <2>7, <2>8 DEF Settled
<1>6. QED  BY <1>3, <1>4, <1>5

(* What a recreation publishes is what the thread is bound to.             *)
LEMMA RecreatedBound ==
    ASSUME WellFormed, Held, Arranged, Agreed, NEW t \in Tasks, Publishing(t), Recreating(t), Calm',
           task[t].at = "identity" => task[t].known = task[t].made
    PROVE  task[t].made = bound
<1>1. Publishes(t) /\ task[t].made \in Boxes /\ task[t].at \in {"identity", "publish"}
  BY DEF Publishing
<1>2. \A u \in Tasks \ {t} : Over(u) \/ task[u].kind = "attach"
  BY <1>1, Unsplit DEF Calm
<1>3. \A u \in Tasks \ {t} : ~Rebinder(u)  BY <1>2, TaskAt DEF Rebinder, Publisher
<1>4. CASE task[t].at = "publish"
  BY <1>3, <1>4 DEF Agreed, PublishedTask, Publisher
<1>5. CASE task[t].at = "identity"
  <2>1. ~Rebinding  BY <1>3, <1>5 DEF Rebinding, Rebinder, Publisher
  <2>2. task[t].made \in {Nil, bound}  BY <1>5, <2>1 DEF Agreed, KnownTask
  <2>3. QED  BY <1>1, <2>2, NotNil
<1>6. QED  BY <1>1, <1>4, <1>5

(* One that publishes.                                                     *)
LEMMA SettledPublish ==
    ASSUME WellFormed, Held, Arranged, Agreed, Existing, Settled, NEW t \in Tasks, Publishing(t),
           Clean', task[t].at = "identity" => task[t].known = task[t].made
    PROVE  Settled'
<1>1. /\ Publishes(t) /\ task[t].at \in {"identity", "publish"}
      /\ UNCHANGED <<call, run, box, bound>>
      /\ proxy'[Handle].backend = task[t].made
      /\ task'[t].at = "done" /\ \A u \in Tasks \ {t} : task'[u] = task[u]
  BY DEF Publishing, Publishes
<1>2. Live(t) \/ Recreating(t)  BY <1>1, TaskAt DEF Live, Recreating
<1>3. \A u \in Tasks : task'[u] = task[u] \/ ~Live(u)'  BY <1>1 DEF Live, Over, Ended
<1>4. \A u \in Tasks : ReplacingTask(u)'
  BY <1>1, <1>3 DEF Settled, ReplacingTask, Live, Over, Gone, Alive
<1>5. CASE Live(t)
  <2>1. run.phase # "work"  BY <1>5 DEF Arranged, SoleTask
  <2>2. Rebinding => Rebinding'
    BY <1>1, <1>5, RebindingKept DEF Rebinder, Live
  <2>3. work' = work  BY <1>1, <1>5 DEF Publishes, Live
  <2>4. WorkBound'  BY <1>1, <2>2, <2>3 DEF Settled, WorkBound, Gone, Alive
  <2>5. UsingRun'  BY <1>1, <2>1 DEF UsingRun
  <2>6. \A c \in Calls : UsingCall(c)'
    BY <1>1, <2>1, CallPhase DEF UsingCall
  <2>7. QED  BY <1>4, <2>4, <2>5, <2>6 DEF Settled
<1>6. CASE Recreating(t)
  <2>1. Calm'  BY CleanCalm
  <2>2. /\ run.handle = Handle
        /\ \A c \in Calls : call[c].at # "idle" => call[c].task = t
    BY <1>1, <1>6, <2>1, Unsplit DEF Calm
  <2>3. task[t].made = bound  BY <1>6, <2>1, RecreatedBound
  <2>4. work' = Nil  BY <1>1, <1>6 DEF Publishes, Recreating
  <2>5. WorkBound'  BY <2>4 DEF WorkBound, Gone
  <2>6. run'.handle = Handle /\ proxy'[Handle].backend = bound'  BY <1>1, <2>2, <2>3
  <2>7. UsingRun'  BY <2>6 DEF UsingRun, OnBound
  <2>8. ASSUME NEW c \in Calls, call[c].at # "idle", call[c].kind \in {"file", "tool"}
        PROVE  FALSE
    <3>1. call[c].task = t  BY <2>2, <2>8
    <3>2. call[c].at = "wait"  BY <3>1, NotNil DEF Held, Waiting, WaitingCall
    <3>3. QED  BY <1>6, <2>8, <3>1, <3>2 DEF Held, Waiting, WaitingCall, Recreating
  <2>9. \A c \in Calls : UsingCall(c)'  BY <1>1, <2>8 DEF UsingCall
  <2>10. QED  BY <1>4, <2>5, <2>7, <2>9 DEF Settled
<1>7. QED  BY <1>2, <1>5, <1>6

(* Every step of a task is one of these.                                   *)
LEMMA SettledTask ==
    ASSUME WellFormed, Held, Arranged, Agreed, Existing, Settled, NEW t \in Tasks, TaskStep(t), Clean'
    PROVE  Settled'
<1>1. TypeOK  BY DEF WellFormed
<1>2. CASE Identity(t)
  <2>1. task[t].at = "identity"  BY <1>1, <1>2, IdentityStep
  <2>2. task[t].made \in Boxes  BY <2>1 DEF WellFormed, Stocked, StockedTask
  <2>3. CASE task[t].known = task[t].made /\ Publishes(t)
    BY <2>1, <2>2, <2>3, SettledPublish DEF Publishing
  <2>4. CASE /\ \E a \in {"bind", "failed"} : To(t, a, task[t].known, task[t].made)
             /\ Inside /\ UNCHANGED <<bound, box>>
    <3>1. PICK a \in {"bind", "failed"} : To(t, a, task[t].known, task[t].made)
      BY <2>4
    <3>2. GoneStay /\ ~Publisher(t) /\ (Gone(bound)' <=> Gone(bound))
      BY <2>1, <2>4 DEF GoneStay, Publisher, Gone, Alive
    <3>3. task[t].kind = "ensure" =>
              task[t].known = bound /\ (task[t].made = bound \/ Gone(bound))
      BY <2>1, ReplacingNow
    <3>4. ReplacingTask(t)'  BY <2>4, <3>1, <3>2, <3>3, ReplacingTo
    <3>5. QED  BY <2>4, <3>1, <3>2, <3>4, SettledMove
  <2>5. QED  BY <1>1, <1>2, <2>3, <2>4, IdentityStep
<1>3. CASE Bind(t)
  <2>1. task[t].at = "bind" /\ Inside /\ UNCHANGED box  BY <1>1, <1>3, BindStep
  <2>2. ~Noting({"torn"})  BY CleanCalm
  <2>3. \/ bound' = task[t].made /\ To(t, "publish", task[t].known, task[t].made)
        \/ UNCHANGED bound /\ To(t, "failed", task[t].known, task[t].made)
    BY <1>1, <1>3, <2>2, BindStep
  <2>4. CASE bound' = task[t].made /\ To(t, "publish", task[t].known, task[t].made)
    BY <2>1, <2>4, SettledBound
  <2>5. CASE UNCHANGED bound /\ To(t, "failed", task[t].known, task[t].made)
    <3>1. GoneStay /\ ~Publisher(t)  BY <2>1 DEF GoneStay, Publisher
    <3>2. ReplacingTask(t)'  BY <2>5, ReplacingTo
    <3>3. QED  BY <2>1, <2>5, <3>1, <3>2, SettledMove
  <2>6. QED  BY <2>3, <2>4, <2>5
<1>4. CASE Bound(t)
  <2>1. task[t].at = "publish" /\ Publishes(t)  BY <1>1, <1>4, BoundStep
  <2>2. task[t].made \in Boxes  BY <2>1 DEF WellFormed, Stocked, StockedTask
  <2>3. QED  BY <2>1, <2>2, SettledPublish DEF Publishing
<1>5. QED
  BY <1>2, <1>3, <1>4, SettledCached, SettledMetadata, SettledProbe, SettledCreate DEF TaskStep

(* Every clean step keeps it.                                              *)
LEMMA SettledNext ==
    ASSUME WellFormed, Held, Arranged, Agreed, Existing, Settled, [Next]_vars, Clean'
    PROVE  Settled'
<1>1. ASSUME NEW c \in Calls, CallStep(c) PROVE Settled'
  BY <1>1, SettledGet, SettledLookup, SettledReady, SettledEnding, SettledUse DEF CallStep
<1>2. QED
  BY <1>1, SettledOutside, SettledOrphan, SettledBegin, SettledStart, SettledTools, SettledTask
  DEF Next

(* So it holds until a cause is named.                                     *)
LEMMA AlwaysSettled == Spec => [](Clean => Settled)
<1>1. Init => Settled
  <2> SUFFICES ASSUME Init PROVE Settled
    OBVIOUS
  <2>1. NoTask.at = "free" /\ NoCall.at = "idle" /\ NoRun.phase = "none"
    BY DEF NoTask, NoCall, NoRun
  <2>2. QED
    BY <2>1
    DEF Init, Settled, ReplacingTask, Live, Over, WorkBound, Gone, UsingRun, UsingCall
<1>2. WellFormed /\ Held /\ (Orderly => Arranged) /\ (Calm => Agreed) /\ Existing
          /\ (Clean => Settled) /\ [Next]_vars => (Clean => Settled)'
  <2> SUFFICES ASSUME WellFormed, Held, Orderly => Arranged, Calm => Agreed, Existing,
                      Clean => Settled, [Next]_vars, Clean'
               PROVE  Settled'
    OBVIOUS
  <2>1. causes \subseteq causes'  BY CausesGrow
  <2>2. Clean  BY <2>1 DEF Clean
  <2>3. Orderly /\ Calm  BY <2>2 DEF Clean, Calm, Orderly, Without
  <2>4. QED  BY <2>2, <2>3, SettledNext
<1>3. QED
  BY <1>1, <1>2, AlwaysWellFormed, AlwaysHeld, AlwaysArranged, AlwaysAgreed, AlwaysExisting, PTL
  DEF Spec

(* The work is left behind only by an operation in another sandbox.        *)
LEMMA WorkMoves ==
    ASSUME WellFormed, [Next]_vars, work' \notin {Nil, work}
    PROVE  \E c \in Calls : Use(c)
<1>1. TypeOK  BY DEF WellFormed
<1>2. ~(\E t \in Tasks : TaskStep(t))
  <2>1. ASSUME NEW t \in Tasks, Working(t) \/ Publishing(t) PROVE work' \in {Nil, work}
    BY <2>1 DEF Working, Inside, Publishing, Publishes
  <2>2. QED  BY <2>1, TaskWorks
<1>3. ~(UNCHANGED vars \/ Begin \/ Finish \/ Interrupt \/ Crash \/ \E b \in Boxes : Delete(b))
  BY DEF vars, Begin, Finish, Interrupt, Crash, Delete
<1>4. \A c \in Calls :
          ~(StartFile(c) \/ Recreate(c) \/ IdentityFails(c)) /\ \A kind \in Kinds : ~Start(c, kind)
  BY DEF StartFile, Recreate, IdentityFails, Start
<1>5. \A c \in Calls :
          ~(Get(c) \/ Lookup(c) \/ Ready(c) \/ NotReady(c) \/ UseFails(c) \/ Recreated(c))
  BY DEF Get, Lookup, Ready, NotReady, UseFails, Recreated
<1>6. QED  BY <1>2, <1>3, <1>4, <1>5 DEF Next, CallStep

(***************************************************************************)
(* The tools of the agent do not go on in another sandbox while the one    *)
(* they worked in exists, unless they asked for it or a cause is named.    *)
(***************************************************************************)
THEOREM WorkStaysPut == Spec => WorkStays
<1>1. WellFormed /\ (Clean => Settled) /\ [Next]_vars =>
          [work # Nil /\ work' \notin {Nil, work} =>
               ~Alive(work) \/ Rebinding \/ causes # {}]_vars
  <2> SUFFICES ASSUME WellFormed, Clean => Settled, [Next]_vars,
                      work # Nil, work' \notin {Nil, work}, Alive(work), causes = {}
               PROVE  Rebinding
    OBVIOUS
  <2>1. Settled  BY DEF Clean
  <2>2. PICK c \in Calls : Use(c)
    BY WorkMoves
  <2>3. work' = bound \/ Rebinding  BY <2>1, <2>2, UseBound
  <2>4. work = bound \/ Rebinding  BY <2>1 DEF Settled, WorkBound, Gone
  <2>5. QED  BY <2>3, <2>4
<1>2. QED  BY <1>1, AlwaysWellFormed, AlwaysSettled, PTL DEF Spec, WorkStays

=============================================================================
