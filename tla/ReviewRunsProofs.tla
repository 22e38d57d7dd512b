--------------------------- MODULE ReviewRunsProofs ---------------------------
(***************************************************************************)
(* Proofs about ReviewRuns, for any issues, any number of webhooks at a    *)
(* time, any number of heads and any bounds on deliveries and faults.      *)
(***************************************************************************)
EXTENDS ReviewRuns, TLAPS

-----------------------------------------------------------------------------
(* The sequence of check runs.                                             *)

(* A check run that is created comes last, and leaves the others alone.    *)
LEMMA CheckAdded ==
    ASSUME NEW cs \in Seq(Checks), NEW new \in Checks
    PROVE  LET ds == Append(cs, new) IN
           /\ ds \in Seq(Checks) /\ Len(ds) = Len(cs) + 1 /\ ds[Len(cs) + 1] = new
           /\ \A c \in 1..Len(cs) : ds[c] = cs[c]
  OBVIOUS

(* Completing one changes its result and nothing else.                     *)
WithResult(cs, k, r) == [cs EXCEPT ![k].result = r]

LEMMA CheckCompleted ==
    ASSUME NEW cs \in Seq(Checks), NEW k \in 1..Len(cs), NEW r \in Results
    PROVE  LET ds == WithResult(cs, k, r) IN
           /\ ds \in Seq(Checks) /\ Len(ds) = Len(cs)
           /\ ds[k] = [head |-> cs[k].head, result |-> r]
           /\ \A c \in 1..Len(cs) \ {k} : ds[c] = cs[c]
<1> DEFINE new == [cs[k] EXCEPT !.result = r]
<1>1. cs[k] \in Checks  OBVIOUS
<1>2. new = [head |-> cs[k].head, result |-> r] /\ new \in Checks  BY <1>1 DEF Checks
<1> HIDE DEF new
<1>3. [cs EXCEPT ![k] = new] \in Seq(Checks)  BY <1>2
<1>4. QED  BY <1>2, <1>3 DEF new, WithResult

-----------------------------------------------------------------------------
(* Types, and how the parts of the state refer to each other.              *)

(***************************************************************************)
(* Webhooks under way know a head of the pull request, ids are those of    *)
(* check runs that exist, and the run waits for its settlement.            *)
(***************************************************************************)
Acting == {s \in Settlers : settler[s].at \in {"patch", "clear", "keep"}}

Linked ==
    /\ \A h \in Hooks : hook[h].at # "idle" => hook[h].head \in 1..prHead
    /\ \A h \in Hooks : hook[h].at \in {"shortEnd", "store"} =>
          hook[h].check \in 1..Len(checks)
    /\ meta.check \in 0..Len(checks)
    /\ \A s \in Acting : settler[s].check \in 1..Len(checks)
    /\ run.at \in {"settle", "close"} <=> settler["run"].at # "idle"

WellFormed == TypeOK /\ Linked

(* The bound on the faults is kept.                                        *)
LEMMA FaultTypes == TypeOK /\ Fault => faults' \in 0..MaxFaults
  BY BoundsAssumption DEF TypeOK, Fault

(***************************************************************************)
(* A step of a webhook replaces its record by one for the same head.       *)
(***************************************************************************)
Stages == {"idle", "look", "mark", "shortCheck", "shortEnd", "sync", "merge",
           "setHead", "create", "store", "dispatch"}

Replaced(h, r) ==
    /\ hook' \in [Hooks -> HookRecords]
    /\ \A g \in Hooks \ {h} : hook'[g] = hook[g]
    /\ hook'[h] = r

(* One webhook's record is replaced by another.                            *)
LEMMA HookReplaced ==
    ASSUME TypeOK, NEW h \in Hooks, NEW r \in HookRecords, hook' = [hook EXCEPT ![h] = r]
    PROVE  Replaced(h, r)
  BY DEF TypeOK, Replaced

(* A webhook that has returned.                                            *)
LEMMA NoHookType == NoHook \in HookRecords /\ NoHook.at = "idle"
  BY BoundsAssumption DEF NoHook, HookRecords, Kinds

Moves(h, a) ==
    /\ hook' \in [Hooks -> HookRecords]
    /\ \A g \in Hooks \ {h} : hook'[g] = hook[g]
    /\ hook'[h].at = a /\ (a # "idle" => hook'[h].head = hook[h].head)

(* One that returns is idle.                                               *)
LEMMA HookReturns == ASSUME TypeOK, NEW h \in Hooks, Return(h) PROVE Moves(h, "idle")
  BY NoHookType, HookReplaced DEF Return, Replaced, Moves

(* One that goes on keeps its head and its check.                          *)
LEMMA HookGoes ==
    ASSUME TypeOK, NEW h \in Hooks, NEW a \in Stages, Goto(h, a)
    PROVE  Moves(h, a) /\ hook'[h].check = hook[h].check
<1> DEFINE r == [hook[h] EXCEPT !.at = a]
<1>1. hook[h] \in HookRecords  BY DEF TypeOK
<1>2. r \in HookRecords /\ r.at = a /\ r.head = hook[h].head /\ r.check = hook[h].check
  BY <1>1 DEF HookRecords, Stages
<1>3. hook' = [hook EXCEPT ![h] = r]  BY DEF Goto
<1> HIDE DEF r
<1>4. QED  BY <1>2, <1>3, HookReplaced DEF Replaced, Moves

(* One that has created a check knows its id.                              *)
LEMMA HookCreates ==
    ASSUME TypeOK, NEW h \in Hooks, NEW a \in Stages, NEW c \in Nat,
           hook' = [hook EXCEPT ![h].check = c, ![h].at = a]
    PROVE  Moves(h, a) /\ hook'[h].check = c
<1> DEFINE r == [hook[h] EXCEPT !.check = c, !.at = a]
<1>1. hook[h] \in HookRecords  BY DEF TypeOK
<1>2. r \in HookRecords /\ r.at = a /\ r.head = hook[h].head /\ r.check = c
  BY <1>1 DEF HookRecords, Stages
<1>3. hook' = [hook EXCEPT ![h] = r]  OBVIOUS
<1> HIDE DEF r
<1>4. QED  BY <1>2, <1>3, HookReplaced DEF Replaced, Moves

(* Look: nothing to do, an unchanged diff, or a review.                    *)
LEMMA HookLooks ==
    ASSUME TypeOK, NEW h \in Hooks, Look(h)
    PROVE  \E a \in {"idle", "mark", "sync", "setHead"} : Moves(h, a)
<1>1. ASSUME NEW a \in {"sync", "setHead"},
             hook' = [hook EXCEPT ![h].last = meta.reviewed, ![h].at = a]
      PROVE  Moves(h, a)
  <2> DEFINE r == [hook[h] EXCEPT !.last = meta.reviewed, !.at = a]
  <2>1. hook[h] \in HookRecords /\ meta.reviewed \in 0..MaxHeads  BY DEF TypeOK, Metadata
  <2>2. r \in HookRecords /\ r.at = a /\ r.head = hook[h].head
    BY <2>1 DEF HookRecords
  <2>3. hook' = [hook EXCEPT ![h] = r]  BY <1>1
  <2> HIDE DEF r
  <2>4. QED  BY <2>2, <2>3, HookReplaced DEF Replaced, Moves
<1>2. \/ Return(h) \/ Goto(h, "mark")
      \/ \E a \in {"sync", "setHead"} : hook' = [hook EXCEPT ![h].last = meta.reviewed, ![h].at = a]
  BY DEF Look
<1>3. QED  BY <1>1, <1>2, HookReturns, HookGoes DEF Stages

(* Sync takes a copy of the findings.                                      *)
LEMMA HookSyncs ==
    ASSUME TypeOK, NEW h \in Hooks, Sync(h)
    PROVE  Moves(h, "merge")
<1>1. PICK found \in {{}, OnGitHub} :
        hook' = [hook EXCEPT ![h].at = "merge",
                             ![h].listed = {i \in Issues : seen[i] # 0},
                             ![h].matched = known \union found]
  BY DEF Sync
<1> DEFINE l == {i \in Issues : seen[i] # 0}
           m == known \union found
           r == [hook[h] EXCEPT !.at = "merge", !.listed = l, !.matched = m]
<1>2. hook[h] \in HookRecords  BY DEF TypeOK
<1>3. l \in SUBSET Issues /\ m \in SUBSET Issues  BY DEF TypeOK, OnGitHub
<1>4. hook' = [hook EXCEPT ![h] = r]  BY <1>1
<1> HIDE DEF l, m
<1>5. r \in HookRecords /\ r.at = "merge" /\ r.head = hook[h].head
  BY <1>2, <1>3 DEF HookRecords
<1> HIDE DEF r
<1>6. QED  BY <1>4, <1>5, HookReplaced DEF Replaced, Moves

(* Merge drops it.                                                         *)
LEMMA HookMerges ==
    ASSUME TypeOK, NEW h \in Hooks, Merge(h)
    PROVE  \E a \in {"setHead", "dispatch", "idle"} : Moves(h, a)
<1> DEFINE told == [hook[h] EXCEPT !.listed = {}, !.matched = {}]
<1>1. ASSUME NEW a \in {"setHead", "dispatch"}, hook' = [hook EXCEPT ![h] = [told EXCEPT !.at = a]]
      PROVE  Moves(h, a)
  <2> DEFINE r == [told EXCEPT !.at = a]
  <2>1. hook[h] \in HookRecords  BY DEF TypeOK
  <2>2. told \in HookRecords /\ told.head = hook[h].head  BY <2>1 DEF HookRecords
  <2> HIDE DEF told
  <2>3. r \in HookRecords /\ r.at = a /\ r.head = hook[h].head
    BY <2>2 DEF HookRecords
  <2>4. hook' = [hook EXCEPT ![h] = r]  BY <1>1
  <2> HIDE DEF r
  <2>5. QED  BY <2>3, <2>4, HookReplaced DEF Replaced, Moves
<1>2. \/ Return(h)
      \/ \E a \in {"setHead", "dispatch"} : hook' = [hook EXCEPT ![h] = [told EXCEPT !.at = a]]
  BY DEF Merge
<1> HIDE DEF told
<1>3. QED  BY <1>1, <1>2, HookReturns

(* A delivery names the head there is.                                     *)
LEMMA HookDelivered ==
    ASSUME TypeOK, NEW h \in Hooks, NEW kind \in Kinds, Deliver(h, kind)
    PROVE  /\ hook' \in [Hooks -> HookRecords] /\ \A g \in Hooks \ {h} : hook'[g] = hook[g]
           /\ hook'[h].at \in {"look", "setHead", "sync"} /\ hook'[h].head = prHead
<1> DEFINE a == CASE kind \in {"push", "ready"} -> "look"
                  [] kind \in {"opened", "requested"} -> "setHead"
                  [] OTHER -> "sync"
           r == [NoHook EXCEPT !.kind = kind, !.head = prHead, !.at = a]
<1>1. a \in {"look", "setHead", "sync"}  OBVIOUS
<1>2. hook' = [hook EXCEPT ![h] = r]  BY DEF Deliver
<1> HIDE DEF a
<1>3. prHead \in 0..MaxHeads  BY DEF TypeOK, Heads
<1>4. r \in HookRecords /\ r.at = a /\ r.head = prHead
  BY <1>1, <1>3, NoHookType DEF HookRecords
<1> HIDE DEF r
<1>5. QED  BY <1>1, <1>2, <1>4, HookReplaced DEF Replaced

(***************************************************************************)
(* A step of the run changes its record, and what is there of the run's    *)
(* own stays.                                                              *)
(***************************************************************************)
Work == {"none", "working", "backfill", "ask", "post", "record", "advance", "settle", "close"}

(* Step changes where the run is.                                          *)
LEMMA RunSteps ==
    ASSUME TypeOK, NEW a \in Work, Step(a)
    PROVE  run' \in RunRecords /\ run'.at = a /\ run'.new = run.new /\ run'.want = run.want
<1>1. run \in RunRecords  BY DEF TypeOK
<1>2. QED  BY <1>1 DEF Step, RunRecords, Work

(* publish_review takes the head that the metadata name.                   *)
LEMMA RunPublishes ==
    ASSUME TypeOK, Publish
    PROVE  run' \in RunRecords /\ run'.at = "backfill" /\ run'.want = meta.head
<1>1. run \in RunRecords /\ meta.head \in 0..MaxHeads  BY DEF TypeOK, Metadata
<1>2. QED  BY <1>1 DEF Publish, RunRecords

(* Backfill decides what is to be posted.                                  *)
LEMMA RunBackfills ==
    ASSUME TypeOK, Backfill
    PROVE  /\ run' \in RunRecords /\ run'.at \in {"ask", "post"}
           /\ run'.new = Unpublished(known') /\ run'.want = run.want
           /\ run'.at = "ask" <=> run'.new = {}
<1> DEFINE new == Unpublished(known')
           a == IF new = {} THEN "ask" ELSE "post"
<1>1. run \in RunRecords  BY DEF TypeOK
<1>2. new \in SUBSET Issues  BY DEF Unpublished
<1>3. run' = [run EXCEPT !.new = new, !.at = a]  BY DEF Backfill
<1>4. a \in {"ask", "post"} /\ (a = "ask" <=> new = {})  OBVIOUS
<1> HIDE DEF new, a
<1>5. run' \in RunRecords /\ run'.at = a /\ run'.new = new /\ run'.want = run.want
  BY <1>1, <1>2, <1>3, <1>4 DEF RunRecords
<1>6. QED  BY <1>4, <1>5 DEF new

(* No run.                                                                 *)
LEMMA NoRunType == NoRun \in RunRecords /\ NoRun.at = "none"
  BY BoundsAssumption DEF NoRun, RunRecords

(* A run that is dispatched begins with nothing.                           *)
LEMMA RunDispatched ==
    ASSUME NEW h \in Hooks, run' = [NoRun EXCEPT !.at = "working", !.re = Review(hook[h])]
    PROVE  run' \in RunRecords /\ run'.at = "working"
<1>1. Review(hook[h]) \in {"first", "again"}  BY DEF Review
<1>2. QED  BY <1>1, NoRunType DEF RunRecords

(***************************************************************************)
(* A settlement goes on, or returns: its record keeps its type, the other  *)
(* settlement is left alone, and the run goes back to work or ends.        *)
(***************************************************************************)
Settles(s, r) ==
    /\ settler' \in [Settlers -> SettlerRecords]
    /\ \A o \in Settlers \ {s} : settler'[o] = settler[o]
    /\ settler'[s] = r

(* One settlement's record is replaced by another.                         *)
LEMMA SettlerReplaced ==
    ASSUME TypeOK, NEW s \in Settlers, NEW r \in SettlerRecords,
           settler' = [settler EXCEPT ![s] = r]
    PROVE  Settles(s, r)
  BY DEF TypeOK, Settles

(* A settlement that is over.                                              *)
LEMMA NotSettlingType == NotSettling \in SettlerRecords /\ NotSettling.at = "idle"
  BY DEF NotSettling, SettlerRecords, Results

(* One that returns is over, and the run goes on or ends.                  *)
LEMMA SettlerReturned ==
    ASSUME TypeOK, NEW s \in Settlers, SettlerReturns(s)
    PROVE  /\ Settles(s, NotSettling) /\ run' \in RunRecords
           /\ IF s = "webhook" THEN run' = run
              ELSE run'.at = IF run.at = "settle" THEN "working" ELSE "none"
<1>1. Settles(s, NotSettling)  BY NotSettlingType, SettlerReplaced DEF SettlerReturns
<1>2. run \in RunRecords  BY DEF TypeOK
<1>3. NoRun \in RunRecords /\ NoRun.at = "none"  BY BoundsAssumption DEF NoRun, RunRecords
<1>4. LET r == [run EXCEPT !.at = "working", !.new = {}, !.want = 0] IN
      r \in RunRecords /\ r.at = "working"
  <2>1. 0 \in 0..MaxHeads /\ {} \in SUBSET Issues  BY BoundsAssumption
  <2>2. QED  BY <1>2, <2>1 DEF RunRecords
<1>5. QED  BY <1>1, <1>2, <1>3, <1>4 DEF SettlerReturns

(* One that goes on keeps its check and its result.                        *)
LEMMA SettlerGoesOn ==
    ASSUME TypeOK, NEW s \in Settlers,
           NEW a \in {"patch", "clear", "keep"}, SettlerGoes(s, a)
    PROVE  /\ settler' \in [Settlers -> SettlerRecords]
           /\ \A o \in Settlers \ {s} : settler'[o] = settler[o]
           /\ settler'[s].at = a
           /\ settler'[s].check = settler[s].check /\ settler'[s].result = settler[s].result
<1> DEFINE r == [settler[s] EXCEPT !.at = a]
<1>1. settler[s] \in SettlerRecords  BY DEF TypeOK
<1>2. r \in SettlerRecords /\ r.at = a /\ r.check = settler[s].check /\ r.result = settler[s].result
  BY <1>1 DEF SettlerRecords
<1>3. settler' = [settler EXCEPT ![s] = r]  BY DEF SettlerGoes
<1> HIDE DEF r
<1>4. QED  BY <1>2, <1>3, SettlerReplaced DEF Settles

(* One that begins has a result.                                           *)
LEMMA SettlerStarts ==
    ASSUME TypeOK, NEW s \in Settlers, NEW result \in Results,
           settler' = [settler EXCEPT ![s] = [@ EXCEPT !.at = "read", !.result = result]]
    PROVE  /\ settler' \in [Settlers -> SettlerRecords]
           /\ \A o \in Settlers \ {s} : settler'[o] = settler[o]
           /\ settler'[s].at = "read" /\ settler'[s].result = result
<1> DEFINE r == [settler[s] EXCEPT !.at = "read", !.result = result]
<1>1. settler[s] \in SettlerRecords  BY DEF TypeOK
<1>2. r \in SettlerRecords /\ r.at = "read" /\ r.result = result
  BY <1>1 DEF SettlerRecords
<1>3. settler' = [settler EXCEPT ![s] = r]  OBVIOUS
<1> HIDE DEF r
<1>4. QED  BY <1>2, <1>3, SettlerReplaced DEF Settles

(* One that has read the metadata has a check.                             *)
LEMMA SettlerReads ==
    ASSUME TypeOK, NEW s \in Settlers,
           settler' = [settler EXCEPT ![s] = [@ EXCEPT !.at = "patch", !.check = meta.check]]
    PROVE  /\ settler' \in [Settlers -> SettlerRecords]
           /\ \A o \in Settlers \ {s} : settler'[o] = settler[o]
           /\ settler'[s].at = "patch" /\ settler'[s].check = meta.check
           /\ settler'[s].result = settler[s].result
<1> DEFINE r == [settler[s] EXCEPT !.at = "patch", !.check = meta.check]
<1>1. settler[s] \in SettlerRecords /\ meta.check \in Nat  BY DEF TypeOK, Metadata
<1>2. r \in SettlerRecords /\ r.at = "patch" /\ r.check = meta.check /\ r.result = settler[s].result
  BY <1>1 DEF SettlerRecords
<1>3. settler' = [settler EXCEPT ![s] = r]  OBVIOUS
<1> HIDE DEF r
<1>4. QED  BY <1>2, <1>3, SettlerReplaced DEF Settles

(***************************************************************************)
(* The settlement of a run that is interrupted, ends or is to begin.       *)
(***************************************************************************)
LEMMA RunSettles ==
    ASSUME TypeOK
    PROVE  /\ settler' = [settler EXCEPT !["run"] = NotSettling] => Settles("run", NotSettling)
           /\ settler' = [settler EXCEPT !["run"] = [@ EXCEPT !.at = "due"]] =>
                 /\ settler' \in [Settlers -> SettlerRecords]
                 /\ settler'["webhook"] = settler["webhook"] /\ settler'["run"].at = "due"
           /\ settler' = [settler EXCEPT !["run"] = NotSettling, !["webhook"].at = "due"] =>
                 /\ settler' \in [Settlers -> SettlerRecords]
                 /\ settler'["run"].at = "idle" /\ settler'["webhook"].at = "due"
<1>0. {"run", "webhook"} = Settlers  BY DEF Settlers
<1>1. settler' = [settler EXCEPT !["run"] = NotSettling] => Settles("run", NotSettling)
  BY <1>0, NotSettlingType, SettlerReplaced
<1>2. \A s \in Settlers : LET r == [settler[s] EXCEPT !.at = "due"] IN
         r \in SettlerRecords /\ r.at = "due"
  BY DEF TypeOK, SettlerRecords
<1>3. ASSUME settler' = [settler EXCEPT !["run"] = [@ EXCEPT !.at = "due"]]
      PROVE  /\ settler' \in [Settlers -> SettlerRecords]
             /\ settler'["webhook"] = settler["webhook"] /\ settler'["run"].at = "due"
  BY <1>0, <1>2, <1>3, SettlerReplaced DEF Settles
<1>4. ASSUME settler' = [settler EXCEPT !["run"] = NotSettling, !["webhook"].at = "due"]
      PROVE  /\ settler' \in [Settlers -> SettlerRecords]
             /\ settler'["run"].at = "idle" /\ settler'["webhook"].at = "due"
  BY <1>0, <1>2, <1>4, NotSettlingType DEF TypeOK
<1>5. QED  BY <1>1, <1>3, <1>4

(***************************************************************************)
(* A webhook keeps the types and the references.                           *)
(***************************************************************************)
LEMMA HookLinks ==
    ASSUME WellFormed, NEW h \in Hooks, NEW a \in Stages, Moves(h, a), hook[h].at # "idle",
           prHead' = prHead, Len(checks') >= Len(checks), meta'.check = meta.check,
           UNCHANGED <<run, settler>>, checks' \in Seq(Checks),
           a \in {"shortEnd", "store"} => hook'[h].check \in 1..Len(checks')
    PROVE  Linked'
<1> /\ Len(checks) \in Nat /\ Len(checks') \in Nat /\ prHead \in Nat
    /\ hook \in [Hooks -> HookRecords] /\ settler \in [Settlers -> SettlerRecords]
    /\ meta.check \in Nat
    /\ \A g \in Hooks : hook[g].head \in Nat /\ hook[g].check \in Nat
    /\ \A s \in Settlers : settler[s].check \in Nat
  BY DEF WellFormed, TypeOK, Heads, HookRecords, SettlerRecords, Metadata
<1>1. \A g \in Hooks : hook'[g].at # "idle" => hook'[g].head \in 1..prHead'
  BY DEF WellFormed, Linked, Moves
<1>2. \A g \in Hooks : hook'[g].at \in {"shortEnd", "store"} => hook'[g].check \in 1..Len(checks')
  BY DEF WellFormed, Linked, Moves
<1>3. QED  BY <1>1, <1>2 DEF WellFormed, Linked, Acting

(* create_review_check_run, of either kind of webhook.                     *)
LEMMA NewCheckTypes ==
    ASSUME WellFormed, NEW h \in Hooks, NEW next \in {"shortEnd", "store"}, NewCheck(h, next),
           hook[h].at # "idle", meta'.check = meta.check, prHead' = prHead, UNCHANGED <<run, settler>>
    PROVE  /\ hook' \in [Hooks -> HookRecords] /\ checks' \in Seq(Checks)
           /\ faults' \in 0..MaxFaults /\ causes' \in SUBSET Causes
           /\ Linked'
<1> DEFINE new == [head |-> hook[h].head, result |-> "open"]
           ended == IF next = "store" THEN "dispatch" ELSE "idle"
<1>1. TypeOK /\ checks \in Seq(Checks) /\ Len(checks) \in Nat  BY DEF WellFormed, TypeOK
<1>2. hook[h].head \in 1..prHead /\ prHead \in 1..MaxHeads  BY DEF WellFormed, TypeOK, Linked, Heads
<1>3. new \in Checks  BY <1>2, BoundsAssumption DEF Checks, Heads
<1> HIDE DEF new
<1>4. ASSUME checks' = Append(checks, new),
             hook' = [hook EXCEPT ![h].check = Len(checks'), ![h].at = next]
      PROVE  hook' \in [Hooks -> HookRecords] /\ checks' \in Seq(Checks) /\ Linked'
  <2> DEFINE id == Len(checks')
  <2>1. checks' \in Seq(Checks) /\ id = Len(checks) + 1  BY <1>1, <1>3, <1>4, CheckAdded
  <2>2. hook' = [hook EXCEPT ![h].check = id, ![h].at = next]  BY <1>4
  <2>3. Len(checks') >= Len(checks) /\ id \in 1..Len(checks') /\ id \in Nat  BY <1>1, <2>1
  <2> HIDE DEF id
  <2>4. next \in Stages  BY DEF Stages
  <2>5. Moves(h, next) /\ hook'[h].check = id  BY <1>1, <2>4, <2>2, <2>3, HookCreates
  <2>6. Linked'  BY <1>1, <2>1, <2>3, <2>4, <2>5, HookLinks
  <2>7. QED  BY <2>1, <2>5, <2>6 DEF Moves
<1>5. ASSUME Goto(h, ended), checks' = checks \/ checks' = Append(checks, new)
      PROVE  hook' \in [Hooks -> HookRecords] /\ checks' \in Seq(Checks) /\ Linked'
  <2>1. checks' \in Seq(Checks) /\ Len(checks') >= Len(checks)  BY <1>1, <1>3, <1>5, CheckAdded
  <2>2. Moves(h, ended)  BY <1>1, <1>5, HookGoes DEF Stages
  <2>3. Linked'  BY <1>1, <2>1, <2>2, HookLinks DEF Stages
  <2>4. QED  BY <2>1, <2>2, <2>3 DEF Moves
<1>6. /\ \/ checks' = Append(checks, new) /\ hook' = [hook EXCEPT ![h].check = Len(checks'), ![h].at = next]
         \/ Goto(h, ended) /\ (checks' = checks \/ checks' = Append(checks, new))
      /\ Fault \/ UNCHANGED faults
      /\ causes' \in {causes, causes \union {"orphan"}}
  BY DEF NewCheck, new
<1>7. causes' \in SUBSET Causes  BY <1>1, <1>6 DEF TypeOK, Causes
<1>8. faults' \in 0..MaxFaults  BY <1>1, <1>6, FaultTypes DEF TypeOK
<1>9. QED  BY <1>4, <1>5, <1>6, <1>7, <1>8

(* Every step of a webhook.                                                *)
LEMMA HookTypes ==
    ASSUME WellFormed, NEW h \in Hooks,
           Webhook(h) \/ HookBroken(h) \/ \E kind \in Kinds \ {"none"} : Deliver(h, kind)
    PROVE  WellFormed'
<1> TypeOK /\ Linked /\ Len(checks) \in Nat  BY DEF WellFormed, TypeOK
<1> USE DEF github, thread, bounds
<1>1. ASSUME NEW kind \in Kinds \ {"none"}, Deliver(h, kind) PROVE WellFormed'
  <2>1. /\ hook' \in [Hooks -> HookRecords] /\ \A g \in Hooks \ {h} : hook'[g] = hook[g]
        /\ hook'[h].at \in {"look", "setHead", "sync"} /\ hook'[h].head = prHead
    BY <1>1, HookDelivered
  <2>2. events < MaxEvents /\ events' = events + 1  BY <1>1 DEF Deliver
  <2>3. events \in 0..MaxEvents /\ MaxEvents \in Nat  BY BoundsAssumption DEF TypeOK
  <2>4. events' \in 0..MaxEvents  BY <2>2, <2>3
  <2>5. prHead \in 1..prHead  BY DEF TypeOK, Heads
  <2>6. UNCHANGED <<github, thread, run, settler, published, faults, causes>>  BY <1>1 DEF Deliver
  <2>7. Linked'  BY <2>1, <2>5, <2>6 DEF Linked, Acting
  <2>8. QED  BY <2>1, <2>4, <2>6, <2>7 DEF WellFormed, TypeOK
<1>2. ASSUME NEW a \in Stages \ {"shortEnd", "store"}, Moves(h, a), hook[h].at # "idle",
             UNCHANGED <<github, run, settler, events>>, meta' \in Metadata, meta'.check = meta.check,
             seen' = seen, known' \in SUBSET Issues, published' \in SUBSET (0..MaxHeads),
             faults' \in 0..MaxFaults, causes' \in SUBSET Causes
      PROVE  WellFormed'
  <2>1. Linked'  BY <1>2, HookLinks DEF TypeOK
  <2>2. QED  BY <1>2, <2>1 DEF WellFormed, TypeOK, Moves
<1>3. meta \in Metadata /\ known \in SUBSET Issues /\ published \in SUBSET (0..MaxHeads)
      /\ faults \in 0..MaxFaults /\ causes \in SUBSET Causes /\ hook[h] \in HookRecords
  BY DEF TypeOK
<1>4. CASE Look(h)
  <2>1. \E a \in {"idle", "mark", "sync", "setHead"} : Moves(h, a)  BY <1>4, HookLooks
  <2>2. QED  BY <1>2, <1>3, <1>4, <2>1 DEF Look, Stages
<1>5. CASE Mark(h)
  <2>1. Moves(h, "shortCheck")  BY <1>5, HookGoes DEF Mark, Stages
  <2>2. meta' \in Metadata /\ meta'.check = meta.check  BY <1>3, <1>5 DEF Mark, Metadata, HookRecords
  <2>3. published' \in SUBSET (0..MaxHeads)  BY <1>3, <1>5 DEF Mark, HookRecords
  <2>4. QED  BY <1>2, <1>3, <1>5, <2>1, <2>2, <2>3 DEF Mark, Stages
<1>6. CASE ShortCheck(h)
  <2>1. /\ hook' \in [Hooks -> HookRecords] /\ checks' \in Seq(Checks)
        /\ faults' \in 0..MaxFaults /\ causes' \in SUBSET Causes /\ Linked'
    BY <1>6, NewCheckTypes DEF ShortCheck
  <2>2. UNCHANGED <<prHead, posted, reviews, thread, run, settler, published, events>>
    BY <1>6 DEF ShortCheck
  <2>3. QED  BY <2>1, <2>2 DEF WellFormed, TypeOK
<1>7. CASE Create(h)
  <2>1. /\ hook' \in [Hooks -> HookRecords] /\ checks' \in Seq(Checks)
        /\ faults' \in 0..MaxFaults /\ causes' \in SUBSET Causes /\ Linked'
    BY <1>7, NewCheckTypes DEF Create
  <2>2. UNCHANGED <<prHead, posted, reviews, thread, run, settler, published, events>>
    BY <1>7 DEF Create
  <2>3. QED  BY <2>1, <2>2 DEF WellFormed, TypeOK
<1>8. CASE ShortEnd(h)
  <2>1. Moves(h, "idle") /\ hook[h].at = "shortEnd"  BY <1>8, HookReturns DEF ShortEnd
  <2>2. hook[h].check \in 1..Len(checks)  BY <2>1 DEF Linked
  <2>3. checks \in Seq(Checks) /\ "success" \in Results  BY DEF TypeOK, Results
  <2>4. checks' = checks \/ checks' = WithResult(checks, hook[h].check, "success")
    BY <1>8 DEF ShortEnd, WithResult
  <2>5. checks' \in Seq(Checks) /\ Len(checks') = Len(checks)
    BY <2>2, <2>3, <2>4, CheckCompleted
  <2>6. faults' \in 0..MaxFaults /\ causes' \in SUBSET Causes
    BY <1>3, <1>8, FaultTypes DEF ShortEnd, Causes
  <2>7. UNCHANGED <<prHead, posted, reviews, thread, run, settler, published, events>>
    BY <1>8 DEF ShortEnd
  <2>8. Linked'  BY <2>1, <2>5, <2>7, HookLinks DEF Stages
  <2>9. QED  BY <2>1, <2>5, <2>6, <2>7, <2>8 DEF WellFormed, TypeOK, Moves
<1>9. CASE Sync(h)
  <2>1. Moves(h, "merge")  BY <1>9, HookSyncs
  <2>2. QED  BY <1>2, <1>3, <1>9, <2>1 DEF Sync, Stages
<1>10. CASE Merge(h)
  <2>1. \E a \in {"setHead", "dispatch", "idle"} : Moves(h, a)  BY <1>10, HookMerges
  <2>2. known' \in SUBSET Issues  BY <1>3, <1>10 DEF Merge, Replace, HookRecords
  <2>3. QED  BY <1>2, <1>3, <1>10, <2>1, <2>2 DEF Merge, Stages
<1>11. CASE SetHead(h)
  <2>1. \E a \in {"dispatch", "create"} : Moves(h, a)  BY <1>11, HookGoes DEF SetHead, Stages
  <2>2. meta' \in Metadata /\ meta'.check = meta.check  BY <1>3, <1>11 DEF SetHead, Metadata, HookRecords
  <2>3. QED  BY <1>2, <1>3, <1>11, <2>1, <2>2 DEF SetHead, Stages
<1>12. CASE Store(h)
  <2>1. Moves(h, "dispatch") /\ hook[h].at = "store"  BY <1>12, HookGoes DEF Store, Stages
  <2>2. hook[h].check \in 1..Len(checks)  BY <2>1 DEF Linked
  <2>3. meta' \in Metadata /\ meta'.check \in 1..Len(checks)
    BY <1>3, <1>12, <2>2 DEF Store, Metadata
  <2>4. causes' \in SUBSET Causes  BY <1>3, <1>12 DEF Store, When, Causes
  <2>5. UNCHANGED <<github, seen, known, run, settler, published, bounds>>  BY <1>12 DEF Store
  <2>6. Linked'  BY <2>1, <2>3, <2>5 DEF Linked, Acting, Moves
  <2>7. QED  BY <2>1, <2>3, <2>4, <2>5, <2>6 DEF WellFormed, TypeOK, Moves
<1>13. CASE Dispatch(h)
  <2>1. Moves(h, "idle")  BY <1>13, HookReturns DEF Dispatch
  <2>2. Settles("run", NotSettling) /\ NotSettling.at = "idle"
    BY <1>13, RunSettles, NotSettlingType DEF Dispatch
  <2>3. run' \in RunRecords /\ run'.at = "working"
    BY <1>13, RunDispatched DEF Dispatch
  <2>4. causes' \in SUBSET Causes  BY <1>3, <1>13 DEF Dispatch, When, Causes
  <2>5. UNCHANGED <<github, thread, published, bounds>>  BY <1>13 DEF Dispatch
  <2>6. Linked'  BY <2>1, <2>2, <2>3, <2>5 DEF Linked, Acting, Moves, Settles, Settlers
  <2>7. QED  BY <2>1, <2>2, <2>3, <2>4, <2>5, <2>6 DEF WellFormed, TypeOK, Moves, Settles
<1>14. CASE HookBroken(h)
  <2>1. Moves(h, "idle")  BY <1>14, HookReturns DEF HookBroken
  <2>2. causes' \in SUBSET Causes /\ faults' \in 0..MaxFaults
    BY <1>3, <1>14, FaultTypes DEF HookBroken, When, Causes
  <2>3. QED  BY <1>2, <1>3, <1>14, <2>1, <2>2 DEF HookBroken, Stages
<1>15. QED
  BY <1>1, <1>4, <1>5, <1>6, <1>7, <1>8, <1>9, <1>10, <1>11, <1>12, <1>13, <1>14 DEF Webhook

(***************************************************************************)
(* The reviewer keeps the types and the references.                        *)
(***************************************************************************)
LEMMA RunTypes ==
    ASSUME WellFormed, Reviewer \/ RunBroken
    PROVE  WellFormed'
<1> TypeOK /\ Linked  BY DEF WellFormed
<1> USE DEF github, thread, bounds
<1>1. meta \in Metadata /\ known \in SUBSET Issues /\ published \in SUBSET (0..MaxHeads)
      /\ reviews \in SUBSET (0..MaxHeads) /\ posted \in [Issues -> Counts]
      /\ faults \in 0..MaxFaults /\ causes \in SUBSET Causes /\ run \in RunRecords
      /\ settler \in [Settlers -> SettlerRecords]
  BY DEF TypeOK
<1>2. ASSUME UNCHANGED <<prHead, checks, hook, events>>, seen' \in [Issues -> 0..MaxHeads],
             posted' \in [Issues -> Counts], reviews' \in SUBSET (0..MaxHeads),
             meta' \in Metadata, meta'.check = meta.check, known' \in SUBSET Issues,
             published' \in SUBSET (0..MaxHeads), faults' \in 0..MaxFaults,
             causes' \in SUBSET Causes, run' \in RunRecords,
             settler' \in [Settlers -> SettlerRecords],
             \A s \in Settlers : settler'[s] = settler[s] \/ settler'[s].at \in {"idle", "due", "read"},
             run'.at \in {"settle", "close"} <=> settler'["run"].at # "idle"
      PROVE  WellFormed'
  <2>1. \A s \in Settlers : settler'[s].at \in {"patch", "clear", "keep"} =>
           settler'[s].check \in 1..Len(checks)
    BY <1>2 DEF Linked, Acting
  <2>2. Linked'  BY <1>2, <2>1 DEF Linked, Acting
  <2>3. QED  BY <1>2, <2>2 DEF WellFormed, TypeOK
<1>3. ASSUME NEW i \in Issues, Report(i) PROVE WellFormed'
  <2>1. seen' \in [Issues -> 0..MaxHeads]  BY <1>1, <1>3 DEF Report, TypeOK, Metadata
  <2>2. QED  BY <1>1, <1>2, <1>3, <2>1 DEF Report, Linked
<1>4. CASE Publish
  <2>1. run' \in RunRecords /\ run'.at = "backfill"  BY <1>4, RunPublishes
  <2>2. causes' \in SUBSET Causes  BY <1>1, <1>4 DEF Publish, When, Causes
  <2>3. QED  BY <1>1, <1>2, <1>4, <2>1, <2>2 DEF Publish, Linked, TypeOK
<1>5. CASE Backfill
  <2>1. run' \in RunRecords /\ run'.at \in {"ask", "post"}  BY <1>5, RunBackfills
  <2>2. known' \in SUBSET Issues  BY <1>1, <1>5 DEF Backfill, OnGitHub
  <2>3. causes' \in SUBSET Causes  BY <1>1, <1>5 DEF Backfill, Causes
  <2>4. faults' \in 0..MaxFaults  BY <1>1, <1>5, FaultTypes DEF Backfill
  <2>5. QED  BY <1>1, <1>2, <1>5, <2>1, <2>2, <2>3, <2>4 DEF Backfill, Linked, TypeOK
<1>6. CASE Ask
  <2>1. run' \in RunRecords /\ run'.at \in {"advance", "post"}
    BY <1>6, RunSteps DEF Ask, Work
  <2>2. causes' \in SUBSET Causes  BY <1>1, <1>6 DEF Ask, Causes
  <2>3. faults' \in 0..MaxFaults  BY <1>1, <1>6, FaultTypes DEF Ask
  <2>4. QED  BY <1>1, <1>2, <1>6, <2>1, <2>2, <2>3 DEF Ask, Linked, TypeOK
<1>7. CASE Post
  <2>1. run' \in RunRecords /\ run'.at \in {"advance", "record", "working"}
    BY <1>7, RunSteps DEF Post, Work
  <2>2. causes' \in SUBSET Causes  BY <1>1, <1>7 DEF Post, Posted, When, Causes
  <2>3. faults' \in 0..MaxFaults  BY <1>1, <1>7, FaultTypes DEF Post
  <2>4. posted' \in [Issues -> Counts]  BY <1>1, <1>7 DEF Post, Posted, OneMore, Counts
  <2>5. reviews' \in SUBSET (0..MaxHeads)  BY <1>1, <1>7 DEF Post, Posted, RunRecords
  <2>6. QED
    BY <1>1, <1>2, <1>7, <2>1, <2>2, <2>3, <2>4, <2>5 DEF Post, Linked, TypeOK
<1>8. CASE Record
  <2>1. run' \in RunRecords /\ run'.at = "advance"  BY <1>8, RunSteps DEF Record, Work
  <2>2. known' \in SUBSET Issues  BY <1>1, <1>8 DEF Record, RunRecords
  <2>3. faults' \in 0..MaxFaults  BY <1>1, <1>8, FaultTypes DEF Record
  <2>4. QED  BY <1>1, <1>2, <1>8, <2>1, <2>2, <2>3 DEF Record, Linked, TypeOK
<1>9. CASE Advance
  <2>1. run' \in RunRecords /\ run'.at = "settle"  BY <1>9, RunSteps DEF Advance, Work
  <2>2. meta' \in Metadata /\ meta'.check = meta.check  BY <1>1, <1>9 DEF Advance, Metadata, RunRecords
  <2>3. published' \in SUBSET (0..MaxHeads)  BY <1>1, <1>9 DEF Advance, RunRecords
  <2>4. /\ settler' \in [Settlers -> SettlerRecords] /\ settler'["run"].at = "read"
        /\ \A o \in Settlers \ {"run"} : settler'[o] = settler[o]
    BY <1>9, SettlerStarts DEF Advance, Settlers, Results
  <2>5. QED  BY <1>1, <1>2, <1>9, <2>1, <2>2, <2>3, <2>4 DEF Advance, TypeOK
<1>10. CASE Finish
  <2>1. run' \in RunRecords /\ run'.at = "close"  BY <1>10, RunSteps DEF Finish, Work
  <2>2. /\ settler' \in [Settlers -> SettlerRecords] /\ settler'["run"].at = "due"
        /\ settler'["webhook"] = settler["webhook"]
    BY <1>10, RunSettles DEF Finish
  <2>3. QED  BY <1>1, <1>2, <1>10, <2>1, <2>2 DEF Finish, TypeOK, Settlers
<1>11. CASE RunBroken
  <2>1. faults' \in 0..MaxFaults  BY <1>11, FaultTypes DEF RunBroken
  <2>2. causes' \in SUBSET Causes  BY <1>1, <1>11 DEF RunBroken, When, Causes
  <2>3. /\ run' \in RunRecords /\ settler' \in [Settlers -> SettlerRecords]
        /\ \A s \in Settlers : settler'[s] = settler[s] \/ settler'[s].at \in {"idle", "due", "read"}
        /\ run'.at \in {"settle", "close"} <=> settler'["run"].at # "idle"
    <3>1. CASE run' = NoRun /\ settler' = [settler EXCEPT !["run"] = NotSettling, !["webhook"].at = "due"]
      BY <3>1, RunSettles, NoRunType DEF Settlers
    <3>2. CASE run' = NoRun /\ settler' = [settler EXCEPT !["run"] = NotSettling]
      BY <3>2, RunSettles, NoRunType, NotSettlingType DEF Settlers, Settles
    <3>3. CASE run.at \notin {"working", "settle", "close"} /\ Step("working") /\ settler' = settler
      <4>1. run' \in RunRecords /\ run'.at = "working"  BY <3>3, RunSteps DEF Work
      <4>2. QED  BY <1>1, <3>3, <4>1 DEF Linked
    <3>4. QED  BY <1>11, <3>1, <3>2, <3>3 DEF RunBroken
  <2>4. QED  BY <1>1, <1>2, <1>11, <2>1, <2>2, <2>3 DEF RunBroken, TypeOK
<1>12. QED
  BY <1>3, <1>4, <1>5, <1>6, <1>7, <1>8, <1>9, <1>10, <1>11 DEF Reviewer

(***************************************************************************)
(* A settlement keeps the types and the references.                        *)
(***************************************************************************)
LEMMA SettlerTypes ==
    ASSUME WellFormed, NEW s \in Settlers, Settle(s) \/ SettlerBroken(s)
    PROVE  WellFormed'
<1> TypeOK /\ Linked  BY DEF WellFormed
<1> USE DEF github, thread, bounds
<1>1. meta \in Metadata /\ checks \in Seq(Checks) /\ Len(checks) \in Nat
      /\ faults \in 0..MaxFaults /\ causes \in SUBSET Causes /\ run \in RunRecords
      /\ settler \in [Settlers -> SettlerRecords] /\ meta.check \in 0..Len(checks)
      /\ settler[s] \in SettlerRecords /\ "run" \in Settlers /\ "webhook" \in Settlers
  BY DEF TypeOK, Linked, Settlers
<1>2. ASSUME UNCHANGED <<prHead, posted, reviews, seen, known, hook, published, events>>,
             checks' \in Seq(Checks), Len(checks') = Len(checks),
             meta' \in Metadata, meta'.check \in 0..Len(checks), faults' \in 0..MaxFaults,
             causes' \in SUBSET Causes, run' \in RunRecords,
             settler' \in [Settlers -> SettlerRecords],
             \A o \in Settlers \ {s} : settler'[o] = settler[o],
             settler'[s].at \in {"patch", "clear", "keep"} => settler'[s].check \in 1..Len(checks),
             run'.at \in {"settle", "close"} <=> settler'["run"].at # "idle"
      PROVE  WellFormed'
  <2>1. \A o \in Settlers : settler'[o].at \in {"patch", "clear", "keep"} =>
           settler'[o].check \in 1..Len(checks)
    BY <1>2 DEF Linked, Acting
  <2>2. Linked'  BY <1>2, <2>1 DEF Linked, Acting
  <2>3. QED  BY <1>2, <2>2 DEF WellFormed, TypeOK
<1>3. ASSUME SettlerReturns(s), settler[s].at # "idle",
             UNCHANGED <<prHead, checks, posted, reviews, seen, known, hook, published, events>>,
             meta' \in Metadata, meta'.check \in 0..Len(checks), faults' \in 0..MaxFaults,
             causes' \in SUBSET Causes
      PROVE  WellFormed'
  <2>1. /\ Settles(s, NotSettling) /\ run' \in RunRecords
        /\ IF s = "webhook" THEN run' = run
           ELSE run'.at = IF run.at = "settle" THEN "working" ELSE "none"
    BY <1>3, SettlerReturned
  <2>2. run'.at \in {"settle", "close"} <=> settler'["run"].at # "idle"
    <3>1. CASE s = "webhook"  BY <1>1, <2>1, <3>1 DEF Settles, Linked
    <3>2. CASE s = "run"  BY <1>1, <2>1, <3>2, NotSettlingType DEF Settles
    <3>3. QED  BY <3>1, <3>2 DEF Settlers
  <2>3. QED  BY <1>1, <1>2, <1>3, <2>1, <2>2, NotSettlingType DEF Settles
<1>4. ASSUME NEW a \in {"read", "patch", "clear", "keep"}, UNCHANGED run, settler[s].at # "idle",
             settler' \in [Settlers -> SettlerRecords],
             \A o \in Settlers \ {s} : settler'[o] = settler[o], settler'[s].at = a
      PROVE  run' \in RunRecords /\ (run'.at \in {"settle", "close"} <=> settler'["run"].at # "idle")
  <2>1. CASE s = "webhook"  BY <1>1, <1>4, <2>1 DEF Linked
  <2>2. CASE s = "run"  BY <1>1, <1>4, <2>2 DEF Linked
  <2>3. QED  BY <2>1, <2>2 DEF Settlers
<1>5. CASE Fetch(s)
  <2>1. causes' \in SUBSET Causes  BY <1>1, <1>5 DEF Fetch, When, Causes
  <2> DEFINE result == IF meta.pending = "none" THEN "neutral" ELSE meta.pending
  <2>2. result \in Results  BY <1>1 DEF Metadata, Results
  <2>3. CASE SettlerReturns(s)  BY <1>1, <1>3, <1>5, <2>1, <2>3 DEF Fetch
  <2>4. CASE run' = run /\ settler' = [settler EXCEPT ![s] = [@ EXCEPT !.at = "read", !.result = result]]
    <3> HIDE DEF result
    <3>1. /\ settler' \in [Settlers -> SettlerRecords] /\ settler'[s].at = "read"
          /\ \A o \in Settlers \ {s} : settler'[o] = settler[o]
      BY <2>2, <2>4, SettlerStarts
    <3>2. settler[s].at # "idle"  BY <1>5 DEF Fetch
    <3>3. QED  BY <1>1, <1>2, <1>4, <1>5, <2>1, <2>4, <3>1, <3>2 DEF Fetch
  <2>5. QED  BY <1>5, <2>3, <2>4 DEF Fetch
<1>6. CASE ReadCheck(s)
  <2>1. causes' \in SUBSET Causes  BY <1>1, <1>6 DEF ReadCheck, When, Causes
  <2>2. CASE SettlerReturns(s)  BY <1>1, <1>3, <1>6, <2>1, <2>2 DEF ReadCheck
  <2>3. CASE meta.check # 0 /\ run' = run
             /\ settler' = [settler EXCEPT ![s] = [@ EXCEPT !.at = "patch", !.check = meta.check]]
    <3>1. /\ settler' \in [Settlers -> SettlerRecords] /\ settler'[s].at = "patch"
          /\ settler'[s].check = meta.check /\ \A o \in Settlers \ {s} : settler'[o] = settler[o]
      BY <2>3, SettlerReads
    <3>2. settler[s].at # "idle"  BY <1>6 DEF ReadCheck
    <3>3. meta.check \in 1..Len(checks)  BY <1>1, <2>3
    <3>4. QED  BY <1>1, <1>2, <1>4, <1>6, <2>1, <2>3, <3>1, <3>2, <3>3 DEF ReadCheck
  <2>4. QED  BY <1>6, <2>2, <2>3 DEF ReadCheck
<1>7. CASE Patch(s)
  <2>1. settler[s].at = "patch" /\ settler[s].check \in 1..Len(checks)
    BY <1>7 DEF Patch, Linked, Acting
  <2>2. PICK a \in {"clear", "keep"} : SettlerGoes(s, a)  BY <1>7 DEF Patch
  <2>3. /\ settler' \in [Settlers -> SettlerRecords] /\ settler'[s].at = a
        /\ settler'[s].check = settler[s].check
        /\ \A o \in Settlers \ {s} : settler'[o] = settler[o]
    BY <2>2, SettlerGoesOn
  <2>4. settler[s].result \in Results  BY <1>1 DEF SettlerRecords
  <2>5. checks' = checks \/ checks' = WithResult(checks, settler[s].check, settler[s].result)
    BY <1>7 DEF Patch, Completed, WithResult
  <2> DEFINE k == settler[s].check
             result == settler[s].result
  <2>6. /\ k \in 1..Len(checks) /\ result \in Results /\ checks \in Seq(Checks)
        /\ checks' = checks \/ checks' = WithResult(checks, k, result)
    BY <1>1, <2>1, <2>4, <2>5
  <2>7. checks' \in Seq(Checks) /\ Len(checks') = Len(checks)
    <3> HIDE DEF k, result
    <3>1. QED  BY <2>6, CheckCompleted
  <2>8. causes' \in SUBSET Causes  BY <1>1, <1>7 DEF Patch, When, Causes
  <2>9. faults' \in 0..MaxFaults  BY <1>1, <1>7, FaultTypes DEF Patch
  <2>10. UNCHANGED <<prHead, posted, reviews, thread, hook, published, events, run>>
    BY <1>7 DEF Patch, SettlerGoes
  <2>11. run' \in RunRecords /\ (run'.at \in {"settle", "close"} <=> settler'["run"].at # "idle")
    BY <1>4, <2>1, <2>3, <2>10
  <2>12. QED  BY <1>1, <1>2, <2>1, <2>3, <2>7, <2>8, <2>9, <2>10, <2>11
<1>8. CASE Clear(s)
  <2>1. meta' \in Metadata /\ meta'.check = 0  BY <1>1, <1>8 DEF Clear, Metadata
  <2>2. causes' \in SUBSET Causes  BY <1>1, <1>8 DEF Clear, When, Causes
  <2>3. QED  BY <1>1, <1>3, <1>8, <2>1, <2>2 DEF Clear
<1>9. CASE KeepForRetry(s)
  <2>1. meta' \in Metadata /\ meta'.check = meta.check
    BY <1>1, <1>9 DEF KeepForRetry, Metadata, SettlerRecords
  <2>2. QED  BY <1>1, <1>3, <1>9, <2>1 DEF KeepForRetry
<1>10. CASE SettlerBroken(s)
  <2>1. causes' \in SUBSET Causes  BY <1>1, <1>10 DEF SettlerBroken, When, Causes
  <2>2. faults' \in 0..MaxFaults  BY <1>10, FaultTypes DEF SettlerBroken
  <2>3. QED  BY <1>1, <1>3, <1>10, <2>1, <2>2 DEF SettlerBroken
<1>11. QED  BY <1>5, <1>6, <1>7, <1>8, <1>9, <1>10 DEF Settle

(* A push makes another head.                                              *)
LEMMA PushTypes == WellFormed /\ Push => WellFormed'
<1> SUFFICES ASSUME WellFormed, Push PROVE WellFormed'
  OBVIOUS
<1>1. prHead \in 1..MaxHeads /\ prHead < MaxHeads /\ prHead' = prHead + 1 /\ MaxHeads \in Nat
  BY BoundsAssumption DEF WellFormed, TypeOK, Heads, Push
<1>2. prHead' \in 1..MaxHeads /\ 1..prHead \subseteq 1..prHead'  BY <1>1
<1>3. UNCHANGED <<checks, posted, reviews, thread, hook, run, settler, published, bounds, causes>>
  BY DEF Push
<1>4. Linked'  BY <1>2, <1>3 DEF WellFormed, Linked, Acting, thread
<1>5. QED  BY <1>2, <1>3, <1>4 DEF WellFormed, TypeOK, Heads, thread, bounds

(* In the beginning nothing is under way.                                  *)
LEMMA InitTypes == Init => WellFormed
<1> SUFFICES ASSUME Init PROVE WellFormed
  OBVIOUS
<1>1. prHead \in Heads /\ events \in 0..MaxEvents /\ faults \in 0..MaxFaults /\ 0 \in 0..MaxHeads
  BY BoundsAssumption DEF Init, Heads
<1>2. meta \in Metadata /\ seen \in [Issues -> 0..MaxHeads]  BY <1>1 DEF Init, Metadata
<1>3. hook \in [Hooks -> HookRecords] /\ \A h \in Hooks : hook[h].at = "idle"
  BY NoHookType DEF Init
<1>4. settler \in [Settlers -> SettlerRecords] /\ \A s \in Settlers : settler[s].at = "idle"
  BY NotSettlingType DEF Init
<1>5. run \in RunRecords /\ run.at = "none"  BY NoRunType DEF Init
<1>6. TypeOK  BY <1>1, <1>2, <1>3, <1>4, <1>5 DEF Init, TypeOK, Counts
<1>7. Linked  BY <1>3, <1>4, <1>5 DEF Init, Linked, Acting, Settlers
<1>8. QED  BY <1>6, <1>7 DEF WellFormed

(* And nothing changes where nothing happens.                              *)
LEMMA StutterTypes == WellFormed /\ UNCHANGED vars => WellFormed'
  BY DEF WellFormed, TypeOK, Linked, Acting, vars, github, thread, bounds

(* So every step keeps them.                                               *)
LEMMA NextTypes == WellFormed /\ [Next]_vars => WellFormed'
  BY PushTypes, HookTypes, RunTypes, SettlerTypes, StutterTypes DEF Next

(* What the webhooks, the run and the settlements hold is of its type.     *)
THEOREM ReviewTypes == Spec => []TypeOK
<1>1. WellFormed => TypeOK  BY DEF WellFormed
<1>2. QED  BY InitTypes, NextTypes, <1>1, PTL DEF Spec

-----------------------------------------------------------------------------
(* What is posted.                                                         *)

(***************************************************************************)
(* The run takes to the posting only what has no comment, and nothing at   *)
(* all only if there is no review: that is still so when it posts, as      *)
(* nobody posts but the one run there is.                                  *)
(***************************************************************************)
PostsOnce ==
    /\ run.at = "ask" => run.new = {}
    /\ Without({"blind"}) =>
          /\ \A i \in Issues : posted[i] # "more"
          /\ "noise" \notin causes
          /\ run.at = "post" =>
                /\ \A i \in run.new : posted[i] = "never"
                /\ run.new = {} => reviews = {}

(* Only the run posts; others leave it where it is, or take it away.       *)
LEMMA OthersPostNothing ==
    ASSUME PostsOnce, UNCHANGED <<posted, reviews>>,
           run' = run \/ run'.at \notin {"ask", "post"},
           \E new \in SUBSET (Causes \ {"noise", "blind"}) : causes' = causes \union new
    PROVE  PostsOnce'
<1>1. ("blind" \in causes' <=> "blind" \in causes) /\ ("noise" \in causes' <=> "noise" \in causes)
  OBVIOUS
<1>2. Without({"blind"})' <=> Without({"blind"})  BY <1>1 DEF Without
<1>3. QED  BY <1>1, <1>2 DEF PostsOnce

(* A webhook posts nothing.                                                *)
LEMMA HookPosts ==
    ASSUME WellFormed, PostsOnce, NEW h \in Hooks,
           Webhook(h) \/ HookBroken(h) \/ \E kind \in Kinds \ {"none"} : Deliver(h, kind)
    PROVE  PostsOnce'
<1> USE DEF github, thread, bounds
<1>1. UNCHANGED <<posted, reviews>> 
  BY DEF Webhook, HookBroken, Deliver, Look, Mark, ShortCheck, ShortEnd, Sync, Merge, SetHead,
         Create, Store, Dispatch
<1>2. run' = run \/ run'.at = "working"
  <2>1. CASE Dispatch(h)  BY <2>1, RunDispatched DEF Dispatch
  <2>2. CASE ~Dispatch(h)
    BY <2>2 DEF Webhook, HookBroken, Deliver, Look, Mark, ShortCheck, ShortEnd, Sync, Merge,
                SetHead, Create, Store
  <2>3. QED  BY <2>1, <2>2
<1>3. causes \subseteq causes' /\ causes' \ causes \subseteq Causes \ {"noise", "blind"}
  BY DEF Webhook, HookBroken, Deliver, Look, Mark, ShortCheck, ShortEnd, Sync, Merge, SetHead,
         Create, NewCheck, Store, Dispatch, When, Causes
<1>4. causes' = causes \union (causes' \ causes)  BY <1>3
<1>5. QED  BY <1>1, <1>2, <1>3, <1>4, OthersPostNothing

(* Nor does a settlement.                                                  *)
LEMMA SettlerPosts ==
    ASSUME WellFormed, PostsOnce, NEW s \in Settlers, Settle(s) \/ SettlerBroken(s)
    PROVE  PostsOnce'
<1> USE DEF github, thread, bounds
<1>1. UNCHANGED <<posted, reviews>>
  BY DEF Settle, SettlerBroken, Fetch, ReadCheck, Patch, Clear, KeepForRetry
<1>2. run' = run \/ run'.at \in {"working", "none"}
  <2>1. run' = run \/ SettlerReturns(s)
    BY DEF Settle, SettlerBroken, Fetch, ReadCheck, Patch, Clear, KeepForRetry, SettlerGoes
  <2>2. QED  BY <2>1, SettlerReturned DEF WellFormed
<1>3. causes \subseteq causes' /\ causes' \ causes \subseteq Causes \ {"noise", "blind"}
  BY DEF Settle, SettlerBroken, Fetch, ReadCheck, Patch, Clear, KeepForRetry, When, Causes
<1>4. causes' = causes \union (causes' \ causes)  BY <1>3
<1>5. QED  BY <1>1, <1>2, <1>3, <1>4, OthersPostNothing

(* The run posts what had no comment, and nothing comes between.           *)
LEMMA RunPosts ==
    ASSUME WellFormed, PostsOnce, Reviewer \/ RunBroken
    PROVE  PostsOnce'
<1> TypeOK  BY DEF WellFormed
<1> USE DEF github, thread, bounds
<1>1. ASSUME NEW i \in Issues, Report(i) PROVE PostsOnce'
  BY <1>1 DEF Report, PostsOnce, Without
<1>2. CASE Publish
  BY <1>2, RunPublishes DEF Publish, PostsOnce, Without, When
<1>3. CASE Backfill
  <2>1. /\ run'.at \in {"ask", "post"} /\ run'.new = Unpublished(known')
        /\ run'.at = "ask" => run'.new = {}
        /\ run'.at = "post" => run'.new # {}
    BY <1>3, RunBackfills
  <2>2. UNCHANGED <<posted, reviews>>  BY <1>3 DEF Backfill
  <2>3. CASE causes' = causes \union {"blind"}  BY <2>1, <2>3 DEF PostsOnce, Without
  <2>4. CASE known' = known \union OnGitHub /\ UNCHANGED causes
    <3>1. \A i \in run'.new : posted[i] = "never"
      BY <2>1, <2>4 DEF Unpublished, OnGitHub
    <3>2. QED  BY <2>1, <2>2, <2>4, <3>1 DEF PostsOnce, Without
  <2>5. QED  BY <1>3, <2>3, <2>4 DEF Backfill
<1>4. CASE Ask
  <2>1. run.at = "ask" /\ run.new = {}  BY <1>4 DEF Ask, PostsOnce
  <2>2. run'.at \in {"advance", "post"} /\ run'.new = run.new
    BY <1>4, RunSteps DEF Ask, Work
  <2>3. UNCHANGED <<posted, reviews>>  BY <1>4 DEF Ask
  <2>4. CASE causes' = causes \union {"blind"}  BY <2>2, <2>4 DEF PostsOnce, Without
  <2>5. CASE UNCHANGED causes /\ (run'.at = "advance" \/ reviews = {})
    BY <2>1, <2>2, <2>3, <2>5 DEF PostsOnce, Without
  <2>6. run'.at = "advance" \/ reviews = {} \/ causes' = causes \union {"blind"}
    BY <1>4, RunSteps DEF Ask, Work
  <2>7. UNCHANGED causes \/ causes' = causes \union {"blind"}  BY <1>4 DEF Ask
  <2>8. QED  BY <2>4, <2>5, <2>6, <2>7
<1>5. CASE Post
  <2>1. run.at = "post" /\ run'.at \notin {"ask", "post"}
    BY <1>5, RunSteps DEF Post, Work
  <2>2. CASE UNCHANGED <<posted, reviews, causes>>
    BY <2>1, <2>2 DEF PostsOnce, Without
  <2>3. CASE Posted
    <3>1. SUFFICES ASSUME Without({"blind"})'
                   PROVE  (\A i \in Issues : posted'[i] # "more") /\ "noise" \notin causes'
      BY <2>1 DEF PostsOnce
    <3>2. Without({"blind"})  BY <2>3, <3>1 DEF Posted, Without, When
    <3>3. /\ \A i \in Issues : posted[i] # "more"
          /\ "noise" \notin causes
          /\ \A i \in run.new : posted[i] = "never"
          /\ run.new = {} => reviews = {}
      BY <2>1, <3>2 DEF PostsOnce
    <3>4. "noise" \notin causes'  BY <2>3, <3>3 DEF Posted, When
    <3>5. \A i \in Issues : posted'[i] # "more"  BY <2>3, <3>3 DEF Posted, OneMore
    <3>6. QED  BY <3>4, <3>5
  <2>4. QED  BY <1>5, <2>2, <2>3 DEF Post
<1>6. CASE Record
  BY <1>6, RunSteps DEF Record, Work, PostsOnce, Without
<1>7. CASE Advance
  BY <1>7, RunSteps DEF Advance, Work, PostsOnce, Without
<1>8. CASE Finish
  BY <1>8, RunSteps DEF Finish, Work, PostsOnce, Without
<1>9. CASE RunBroken
  <2>1. run'.at \in {"none", "working"}  BY <1>9, RunSteps, NoRunType DEF RunBroken, Work
  <2>2. causes \subseteq causes' /\ causes' \ causes \subseteq Causes \ {"noise", "blind"}
    BY <1>9 DEF RunBroken, When, Causes
  <2>3. causes' = causes \union (causes' \ causes)  BY <2>2
  <2>4. UNCHANGED <<posted, reviews>>  BY <1>9 DEF RunBroken
  <2>5. QED  BY <2>1, <2>2, <2>3, <2>4, OthersPostNothing
<1>10. QED
  BY <1>1, <1>2, <1>3, <1>4, <1>5, <1>6, <1>7, <1>8, <1>9 DEF Reviewer

(* So every step keeps what is said of the posting.                        *)
LEMMA NextPosts == WellFormed /\ PostsOnce /\ [Next]_vars => PostsOnce'
<1>1. PostsOnce /\ Push => PostsOnce'  BY DEF Push, PostsOnce, Without, thread, bounds
<1>2. PostsOnce /\ UNCHANGED vars => PostsOnce'
  BY DEF PostsOnce, Without, vars, github, thread, bounds
<1>3. QED  BY <1>1, <1>2, HookPosts, RunPosts, SettlerPosts DEF Next

(***************************************************************************)
(* No finding is posted twice, and no empty review after another, whatever *)
(* interrupts the runs, unless GitHub did not say what is there            *)
(* (publish_review and its backfill).                                      *)
(***************************************************************************)
LEMMA PostsOnceAlways == Spec => []PostsOnce
<1>1. Init => PostsOnce
  BY NoRunType DEF Init, PostsOnce, Without
<1>2. QED  BY InitTypes, NextTypes, NextPosts, <1>1, PTL DEF Spec

(* No finding is posted twice on the pull request (post_review).           *)
THEOREM PostedOnceAlways == Spec => []PostedOnce
<1>1. PostsOnce => PostedOnce  BY DEF PostsOnce, PostedOnce
<1>2. QED  BY PostsOnceAlways, <1>1, PTL

(* "No issues found" is posted on no pull request that has a review.       *)
THEOREM NoEmptyRepeats == Spec => []NoEmptyRepeat
<1>1. PostsOnce => NoEmptyRepeat  BY DEF PostsOnce, NoEmptyRepeat, Without
<1>2. QED  BY PostsOnceAlways, <1>1, PTL

-----------------------------------------------------------------------------
(* What the steps do to the checks and to who knows them.                  *)

Holding == {"shortEnd", "store"}
Holds(h) == hook[h].at \in Holding

(* Most steps of a webhook concern no check.                               *)
Aside(h) ==
    /\ hook[h].at \notin Holding \union {"dispatch"} /\ hook'[h].at \notin Holding
    /\ \A g \in Hooks \ {h} : hook'[g] = hook[g]
    /\ UNCHANGED <<prHead, checks, run, settler, faults, causes>>
    /\ meta'.check = meta.check /\ meta'.pending = meta.pending
    /\ published \subseteq published'
    /\ hook'[h].at \in {"shortCheck", "shortEnd"} => hook'[h].head \in published'

(* These are the steps that concern none.                                  *)
LEMMA StepsAside ==
    ASSUME WellFormed, NEW h \in Hooks,
           \/ Look(h) \/ Mark(h) \/ Sync(h) \/ Merge(h) \/ SetHead(h)
           \/ \E kind \in Kinds \ {"none"} : Deliver(h, kind)
    PROVE  Aside(h)
<1> TypeOK  BY DEF WellFormed
<1> USE DEF github, thread, bounds, Holding
<1>1. ASSUME NEW kind \in Kinds \ {"none"}, Deliver(h, kind) PROVE Aside(h)
  BY <1>1, HookDelivered DEF Deliver, Aside
<1>2. CASE Look(h)
  <2>1. \E a \in {"idle", "mark", "sync", "setHead"} : Moves(h, a)  BY <1>2, HookLooks
  <2>2. QED  BY <1>2, <2>1 DEF Look, Moves, Aside
<1>3. CASE Mark(h)
  <2>1. Moves(h, "shortCheck")  BY <1>3, HookGoes DEF Mark, Stages
  <2>2. meta'.check = meta.check /\ meta'.pending = meta.pending
    BY <1>3 DEF Mark, TypeOK, Metadata
  <2>3. QED  BY <1>3, <2>1, <2>2 DEF Mark, Moves, Aside
<1>4. CASE Sync(h)
  BY <1>4, HookSyncs DEF Sync, Moves, Aside
<1>5. CASE Merge(h)
  <2>1. \E a \in {"setHead", "dispatch", "idle"} : Moves(h, a)  BY <1>5, HookMerges
  <2>2. QED  BY <1>5, <2>1 DEF Merge, Moves, Aside
<1>6. CASE SetHead(h)
  <2>1. \E a \in {"dispatch", "create"} : Moves(h, a)  BY <1>6, HookGoes DEF SetHead, Stages
  <2>2. meta'.check = meta.check /\ meta'.pending = meta.pending
    BY <1>6 DEF SetHead, TypeOK, Metadata
  <2>3. QED  BY <1>6, <2>1, <2>2 DEF SetHead, Moves, Aside
<1>7. QED  BY <1>1, <1>2, <1>3, <1>4, <1>5, <1>6

(* A check is added, to be held or, after a fault, left to nobody.         *)
Added(h) ==
    /\ checks' \in Seq(Checks) /\ Len(checks') = Len(checks) + 1
    /\ checks'[Len(checks) + 1] = [head |-> hook[h].head, result |-> "open"]
    /\ \A c \in 1..Len(checks) : checks'[c] = checks[c]

Creates(h, next) ==
    /\ \A g \in Hooks \ {h} : hook'[g] = hook[g]
    /\ UNCHANGED <<prHead, meta, published, run, settler>>
    /\ \/ /\ Added(h) /\ UNCHANGED causes
          /\ hook'[h].at = next /\ hook'[h].check = Len(checks) + 1
          /\ hook'[h].head = hook[h].head
       \/ /\ hook'[h].at = IF next = "store" THEN "dispatch" ELSE "idle"
          /\ \/ UNCHANGED <<checks, causes>>
             \/ Added(h) /\ causes' = causes \union {"orphan"}

(* The two webhooks that create a check.                                   *)
LEMMA StepsCreate ==
    ASSUME WellFormed, NEW h \in Hooks
    PROVE  /\ ShortCheck(h) => Creates(h, "shortEnd")
           /\ Create(h) => Creates(h, "store")
<1>1. ASSUME NEW next \in {"shortEnd", "store"}, NewCheck(h, next), hook[h].at # "idle",
             UNCHANGED <<prHead, meta, published, run, settler>>
      PROVE  Creates(h, next)
  <2> DEFINE new == [head |-> hook[h].head, result |-> "open"]
             id == Len(checks')
             ended == IF next = "store" THEN "dispatch" ELSE "idle"
  <2>1. TypeOK /\ checks \in Seq(Checks) /\ Len(checks) \in Nat  BY DEF WellFormed, TypeOK
  <2>2. new \in Checks
    BY <1>1, BoundsAssumption DEF WellFormed, TypeOK, Linked, Checks, Heads
  <2>3. checks' = Append(checks, new) => Added(h)  BY <2>1, <2>2, CheckAdded DEF Added
  <2>4. ASSUME checks' = Append(checks, new), UNCHANGED causes,
               hook' = [hook EXCEPT ![h].check = id, ![h].at = next]
        PROVE  Creates(h, next)
    <3>1. Added(h) /\ id = Len(checks) + 1 /\ id \in Nat  BY <2>1, <2>3, <2>4 DEF Added
    <3>2. next \in Stages /\ next # "idle"  BY DEF Stages
    <3> HIDE DEF id
    <3>3. Moves(h, next) /\ hook'[h].check = id  BY <2>1, <2>4, <3>1, <3>2, HookCreates
    <3>4. QED  BY <1>1, <2>4, <3>1, <3>2, <3>3 DEF Creates, Moves
  <2>5. ASSUME Goto(h, ended),
               \/ UNCHANGED <<checks, causes>>
               \/ checks' = Append(checks, new) /\ causes' = causes \union {"orphan"}
        PROVE  Creates(h, next)
    <3>1. Moves(h, ended)  BY <2>1, <2>5, HookGoes DEF Stages
    <3>2. QED  BY <1>1, <2>3, <2>5, <3>1 DEF Creates, Moves
  <2>6. QED  BY <1>1, <2>4, <2>5 DEF NewCheck
<1>2. QED  BY <1>1 DEF ShortCheck, Create, thread

(* A check is completed, or the request fails and may have completed it.   *)
Completes(k, r) ==
    /\ checks' \in Seq(Checks) /\ Len(checks') = Len(checks)
    /\ \A c \in 1..Len(checks) \ {k} : checks'[c] = checks[c]
    /\ checks'[k] = [head |-> checks[k].head, result |-> r]

(* An update of the sequence is a completion.                              *)
LEMMA StepsComplete ==
    ASSUME WellFormed, NEW k \in 1..Len(checks), NEW r \in Results,
           checks' = [checks EXCEPT ![k].result = r]
    PROVE  Completes(k, r)
<1>1. checks \in Seq(Checks)  BY DEF WellFormed, TypeOK
<1>2. checks' = WithResult(checks, k, r)  BY DEF WithResult
<1>3. QED  BY <1>1, <1>2, CheckCompleted DEF Completes

(* The webhook that completes the check it created.                        *)
LEMMA ShortEnds ==
    ASSUME WellFormed, NEW h \in Hooks, ShortEnd(h)
    PROVE  /\ Holds(h) /\ Moves(h, "idle") /\ hook[h].at = "shortEnd"
           /\ UNCHANGED <<prHead, meta, published, run, settler>>
           /\ \/ Completes(hook[h].check, "success") /\ UNCHANGED causes
              \/ UNCHANGED checks /\ causes' = causes \union {"orphan"}
<1>1. hook[h].check \in 1..Len(checks)  BY DEF WellFormed, Linked, ShortEnd
<1>2. Moves(h, "idle")  BY HookReturns DEF ShortEnd, WellFormed
<1>3. "success" \in Results  BY DEF Results
<1>4. QED  BY <1>1, <1>2, <1>3, StepsComplete DEF ShortEnd, Holds, Holding, thread

(* The settlement that completes the check it read.                        *)
LEMMA Patches ==
    ASSUME WellFormed, NEW s \in Settlers, Patch(s)
    PROVE  /\ settler[s].check \in 1..Len(checks) /\ settler[s].result \in Results
           /\ settler[s].at = "patch" /\ UNCHANGED <<prHead, meta, published, run, hook>>
           /\ settler'[s].check = settler[s].check /\ settler'[s].result = settler[s].result
           /\ \A o \in Settlers \ {s} : settler'[o] = settler[o]
           /\ \/ /\ Completes(settler[s].check, settler[s].result)
                 /\ settler'[s].at = "clear" /\ UNCHANGED causes
              \/ /\ settler'[s].at = "keep"
                 /\ Completes(settler[s].check, settler[s].result) \/ UNCHANGED checks
                 /\ causes' = causes \union When(s = "webhook" \/ run.at = "close", "stuck")
<1> DEFINE k == settler[s].check
           r == settler[s].result
<1>1. k \in 1..Len(checks) /\ r \in Results /\ settler[s].at = "patch"
  BY DEF WellFormed, TypeOK, Linked, Acting, SettlerRecords, Patch
<1>2. checks' = [checks EXCEPT ![k].result = r] => Completes(k, r)
  <2> HIDE DEF k, r
  <2>1. QED  BY <1>1, StepsComplete
<1>3. Completed(s) => Completes(k, r)  BY <1>2 DEF Completed
<1>4. ASSUME NEW a \in {"clear", "keep"}, SettlerGoes(s, a)
      PROVE  /\ settler'[s].at = a /\ UNCHANGED run
             /\ settler'[s].check = k /\ settler'[s].result = r
             /\ \A o \in Settlers \ {s} : settler'[o] = settler[o]
  BY <1>4, SettlerGoesOn DEF WellFormed, SettlerGoes
<1>5. UNCHANGED <<prHead, meta, published, hook>>  BY DEF Patch, thread
<1> HIDE DEF k, r
<1>6. \/ Completes(k, r) /\ SettlerGoes(s, "clear") /\ UNCHANGED causes
      \/ /\ SettlerGoes(s, "keep") /\ (Completes(k, r) \/ UNCHANGED checks)
         /\ causes' = causes \union When(s = "webhook" \/ run.at = "close", "stuck")
  BY <1>3 DEF Patch
<1>7. QED  BY <1>1, <1>4, <1>5, <1>6 DEF k, r

(* What the reviewer does before it publishes concerns no check ...        *)
Publishing == {"backfill", "ask", "post", "record", "advance", "settle"}

Working ==
    /\ run.at \notin {"none", "settle", "close"} /\ run'.at \notin {"none", "settle", "close"}
    /\ UNCHANGED <<prHead, checks, hook, meta, settler, published>> /\ causes \subseteq causes'
    /\ run'.at \in Publishing =>
          \/ run.at \in Publishing /\ run'.want = run.want
          \/ /\ run'.want = meta.head
             /\ "crossed" \notin causes' => \A c \in Tracked : c.head = meta.head

(* The steps before the publication.                                       *)
LEMMA RunWorks ==
    ASSUME WellFormed,
           (\E i \in Issues : Report(i)) \/ Publish \/ Backfill \/ Ask \/ Post \/ Record
    PROVE  Working
<1> TypeOK  BY DEF WellFormed
<1> USE DEF github, thread, bounds, Publishing
<1>1. ASSUME NEW i \in Issues, Report(i) PROVE Working  BY <1>1 DEF Report, Working
<1>2. CASE Publish
  <2>1. run'.at = "backfill" /\ run'.want = meta.head  BY <1>2, RunPublishes
  <2>2. causes \subseteq causes' /\ ("crossed" \notin causes' => \A c \in Tracked : c.head = meta.head)
    BY <1>2 DEF Publish, When
  <2>3. QED  BY <1>2, <2>1, <2>2 DEF Publish, Working
<1>3. CASE Backfill
  <2>1. run'.at \in {"ask", "post"} /\ run'.want = run.want  BY <1>3, RunBackfills
  <2>2. QED  BY <1>3, <2>1 DEF Backfill, Working
<1>4. CASE Ask
  <2>1. run'.at \in {"advance", "post"} /\ run'.want = run.want
    BY <1>4, RunSteps DEF Ask, Work
  <2>2. QED  BY <1>4, <2>1 DEF Ask, Working
<1>5. CASE Post
  <2>1. run'.at \in {"advance", "record", "working"} /\ run'.want = run.want
    BY <1>5, RunSteps DEF Post, Work
  <2>2. causes \subseteq causes'  BY <1>5 DEF Post, Posted
  <2>3. QED  BY <1>5, <2>1, <2>2 DEF Post, Working
<1>6. CASE Record
  <2>1. run'.at = "advance" /\ run'.want = run.want  BY <1>6, RunSteps DEF Record, Work
  <2>2. QED  BY <1>6, <2>1 DEF Record, Working
<1>7. QED  BY <1>1, <1>2, <1>3, <1>4, <1>5, <1>6

(* ... and then it begins to settle, or ends.                              *)
LEMMA RunAdvances ==
    ASSUME WellFormed, Advance
    PROVE  /\ run.at = "advance" /\ run'.at = "settle" /\ run'.want = run.want
           /\ settler'["run"].at = "read" /\ settler'["run"].result = "success"
           /\ settler'["webhook"] = settler["webhook"]
           /\ meta'.check = meta.check /\ meta'.pending = meta.pending
           /\ published' = published \union {run.want}
           /\ UNCHANGED <<prHead, checks, hook, causes>>
<1>1. run'.at = "settle" /\ run'.want = run.want
  BY RunSteps DEF WellFormed, Advance, Work
<1>2. /\ settler'["run"].at = "read" /\ settler'["run"].result = "success"
      /\ settler'["webhook"] = settler["webhook"]
  BY SettlerStarts DEF WellFormed, Advance, Settlers, Results
<1>3. meta'.check = meta.check /\ meta'.pending = meta.pending
  BY DEF WellFormed, TypeOK, Metadata, Advance
<1>4. QED  BY <1>1, <1>2, <1>3 DEF Advance, github

(* The agent has nothing more to say.                                      *)
LEMMA RunFinishes ==
    ASSUME WellFormed, Finish
    PROVE  /\ run.at = "working" /\ run'.at = "close" /\ settler'["run"].at = "due"
           /\ settler'["webhook"] = settler["webhook"]
           /\ UNCHANGED <<prHead, checks, hook, meta, published, causes>>
<1>1. run'.at = "close"  BY RunSteps DEF WellFormed, Finish, Work
<1>2. settler'["run"].at = "due" /\ settler'["webhook"] = settler["webhook"]
  BY RunSettles DEF WellFormed, Finish
<1>3. QED  BY <1>1, <1>2 DEF Finish, github, thread

(* The run ends, or a tool of it does.                                     *)
LEMMA RunBreaks ==
    ASSUME WellFormed, RunBroken
    PROVE  /\ run.at # "none" /\ causes \subseteq causes'
           /\ UNCHANGED <<prHead, checks, hook, meta, published>>
           /\ \/ /\ run'.at = "none" /\ settler'["run"].at = "idle"
                 /\ settler["webhook"].at = "idle" /\ settler'["webhook"].at = "due"
                 /\ settler["run"].at \in {"clear", "keep"} => "torn" \in causes'
              \/ /\ run'.at = "none" /\ settler'["run"].at = "idle"
                 /\ settler'["webhook"] = settler["webhook"] /\ "killed" \in causes'
                 /\ settler["run"].at \in {"clear", "keep"} => "torn" \in causes'
              \/ /\ run.at \notin {"working", "settle", "close"} /\ run'.at = "working"
                 /\ UNCHANGED settler
<1> TypeOK  BY DEF WellFormed
<1>1. UNCHANGED <<prHead, checks, hook, meta, published>> /\ run.at # "none" /\ causes \subseteq causes'
  BY DEF RunBroken, github, thread
<1>2. ASSUME run' = NoRun, settler["webhook"].at = "idle",
             settler' = [settler EXCEPT !["run"] = NotSettling, !["webhook"].at = "due"]
      PROVE  run'.at = "none" /\ settler'["run"].at = "idle" /\ settler'["webhook"].at = "due"
  BY <1>2, RunSettles, NoRunType
<1>3. ASSUME run' = NoRun, settler' = [settler EXCEPT !["run"] = NotSettling]
      PROVE  /\ run'.at = "none" /\ settler'["run"].at = "idle"
             /\ settler'["webhook"] = settler["webhook"]
  BY <1>3, RunSettles, NoRunType, NotSettlingType DEF Settles, Settlers
<1>4. Step("working") => run'.at = "working"  BY RunSteps DEF Work
<1>5. QED  BY <1>1, <1>2, <1>3, <1>4 DEF RunBroken, When

(* A run takes the place of the one under way.                             *)
LEMMA RunDispatches ==
    ASSUME WellFormed, NEW h \in Hooks, Dispatch(h)
    PROVE  /\ hook[h].at = "dispatch" /\ Moves(h, "idle")
           /\ run'.at = "working" /\ settler'["run"].at = "idle"
           /\ settler'["webhook"] = settler["webhook"] /\ causes \subseteq causes'
           /\ settler["run"].at \in {"clear", "keep"} => "torn" \in causes'
           /\ "crossed" \notin causes' => \A c \in Tracked : c.head = meta.head
           /\ UNCHANGED <<prHead, checks, meta, published>>
<1>1. Moves(h, "idle")  BY HookReturns DEF WellFormed, Dispatch
<1>2. settler'["run"].at = "idle" /\ settler'["webhook"] = settler["webhook"]
  BY RunSettles, NotSettlingType DEF WellFormed, Dispatch, Settles, Settlers
<1>3. run'.at = "working"  BY RunDispatched DEF Dispatch
<1>4. QED  BY <1>1, <1>2, <1>3 DEF Dispatch, github, thread, When

(* A settlement that returns, and what it has done before.                 *)
Returns(s) ==
    /\ settler'[s].at = "idle" /\ \A o \in Settlers \ {s} : settler'[o] = settler[o]
    /\ IF s = "webhook" THEN run' = run
       ELSE run'.at = IF run.at = "settle" THEN "working" ELSE "none"

(* SettlerReturns, as a relation between the states.                       *)
LEMMA StepsReturn ==
    ASSUME WellFormed, NEW s \in Settlers, SettlerReturns(s)
    PROVE  Returns(s)
  BY SettlerReturned, NotSettlingType DEF WellFormed, Returns, Settles

(* The settlement that takes the result that is pending.                   *)
LEMMA Fetches ==
    ASSUME WellFormed, NEW s \in Settlers, Fetch(s)
    PROVE  /\ settler[s].at = "due" /\ UNCHANGED <<prHead, checks, hook, meta, published>>
           /\ causes \subseteq causes' /\ (Another(s) => "doubled" \in causes')
           /\ \/ meta.check = 0 /\ Returns(s)
              \/ /\ meta.check # 0 /\ UNCHANGED run /\ settler'[s].at = "read"
                 /\ settler'[s].result = IF meta.pending = "none" THEN "neutral" ELSE meta.pending
                 /\ \A o \in Settlers \ {s} : settler'[o] = settler[o]
<1> DEFINE result == IF meta.pending = "none" THEN "neutral" ELSE meta.pending
<1>1. result \in Results  BY DEF WellFormed, TypeOK, Metadata, Results
<1>2. ASSUME settler' = [settler EXCEPT ![s] = [@ EXCEPT !.at = "read", !.result = result]]
      PROVE  /\ settler'[s].at = "read" /\ settler'[s].result = result
             /\ \A o \in Settlers \ {s} : settler'[o] = settler[o]
  <2> HIDE DEF result
  <2>1. QED  BY <1>1, <1>2, SettlerStarts DEF WellFormed
<1>3. QED  BY <1>2, StepsReturn DEF Fetch, When, github, thread

(* The settlement that reads the tracked id.                               *)
LEMMA Reads ==
    ASSUME WellFormed, NEW s \in Settlers, ReadCheck(s)
    PROVE  /\ settler[s].at = "read" /\ UNCHANGED <<prHead, checks, hook, meta, published>>
           /\ causes \subseteq causes'
           /\ \/ meta.check = 0 /\ Returns(s)
              \/ /\ meta.check # 0 /\ UNCHANGED run /\ settler'[s].at = "patch"
                 /\ settler'[s].check = meta.check /\ settler'[s].result = settler[s].result
                 /\ \A o \in Settlers \ {s} : settler'[o] = settler[o]
                 /\ Another(s) => "doubled" \in causes'
  BY StepsReturn, SettlerReads DEF WellFormed, ReadCheck, When, github, thread

(* The settlement that forgets it.                                         *)
LEMMA Clears ==
    ASSUME WellFormed, NEW s \in Settlers, Clear(s)
    PROVE  /\ settler[s].at = "clear" /\ UNCHANGED <<prHead, checks, hook, published>>
           /\ meta'.check = 0 /\ meta'.pending = "none" /\ Returns(s)
           /\ causes \subseteq causes'
           /\ meta.check \notin {0, settler[s].check} => "overtaken" \in causes'
  BY StepsReturn DEF WellFormed, TypeOK, Metadata, Clear, When, github

(* The settlement that leaves its result to the next.                      *)
LEMMA Keeps ==
    ASSUME WellFormed, NEW s \in Settlers, KeepForRetry(s)
    PROVE  /\ settler[s].at = "keep" /\ UNCHANGED <<prHead, checks, hook, published, causes>>
           /\ meta'.check = meta.check /\ meta'.pending = settler[s].result /\ Returns(s)
  BY StepsReturn DEF WellFormed, TypeOK, Metadata, KeepForRetry, github

(* The settlement that breaks off.                                         *)
LEMMA SettlerBreaks ==
    ASSUME WellFormed, NEW s \in Settlers, SettlerBroken(s)
    PROVE  /\ settler[s].at # "idle" /\ UNCHANGED <<prHead, checks, hook, meta, published>>
           /\ Returns(s) /\ causes \subseteq causes'
           /\ settler[s].at \in {"clear", "keep"} => "torn" \in causes'
           /\ s = "webhook" \/ run.at = "close" => "stuck" \in causes'
  BY StepsReturn DEF SettlerBroken, When, github, thread

-----------------------------------------------------------------------------
(* No check is left open.                                                  *)

(***************************************************************************)
(* A webhook that is to store the check it has created, or to complete it, *)
(* is the only one to know it, and it is open.                             *)
(***************************************************************************)
Fresh ==
    /\ \A h \in Hooks : Holds(h) =>
          /\ checks[hook[h].check] = [head |-> hook[h].head, result |-> "open"]
          /\ hook[h].check # meta.check
    /\ \A h \in Hooks, s \in Acting : Holds(h) => hook[h].check # settler[s].check
    /\ \A h, g \in Hooks : Holds(h) /\ Holds(g) /\ g # h => hook[h].check # hook[g].check

(* The ids are those of checks.                                            *)
LEMMA Ids ==
    ASSUME WellFormed
    PROVE  /\ Len(checks) \in Nat /\ meta.check \in 0..Len(checks)
           /\ \A h \in Hooks : Holds(h) => hook[h].check \in 1..Len(checks)
           /\ \A s \in Acting : settler[s].check \in 1..Len(checks)
           /\ \A c \in 1..Len(checks) : checks[c] \in Checks
  BY DEF WellFormed, TypeOK, Linked, Holds, Holding

(* Where no check is created, stored, completed or read.                   *)
LEMMA FreshAside ==
    ASSUME WellFormed, Fresh, UNCHANGED checks, meta'.check \in {0, meta.check},
           \A h \in Hooks : Holds(h)' => Holds(h) /\ hook'[h] = hook[h],
           \A s \in Settlers : settler'[s].at \in {"patch", "clear", "keep"} =>
               s \in Acting /\ settler'[s].check = settler[s].check
    PROVE  Fresh'
<1>1. \A h \in Hooks : Holds(h) => hook[h].check # 0  BY Ids
<1>2. \A s \in Acting' : s \in Acting /\ settler'[s].check = settler[s].check  BY DEF Acting
<1>3. QED  BY <1>1, <1>2 DEF Fresh

(* No webhook gets the check of another.                                   *)
LEMMA HookFresh ==
    ASSUME WellFormed, Fresh, NEW h \in Hooks,
           Webhook(h) \/ HookBroken(h) \/ \E kind \in Kinds \ {"none"} : Deliver(h, kind)
    PROVE  Fresh'
<1> USE Ids
<1>1. CASE Aside(h)
  BY <1>1, FreshAside DEF Aside, Holds, Acting
<1>2. ASSUME NEW next \in Holding, Creates(h, next) PROVE Fresh'
  <2>1. Acting' = Acting /\ UNCHANGED settler /\ meta' = meta  BY <1>2 DEF Creates, Acting
  <2>2. \A c \in 1..Len(checks) : checks'[c] = checks[c]  BY <1>2 DEF Creates, Added
  <2>3. \A g \in Hooks \ {h} : hook'[g] = hook[g]  BY <1>2 DEF Creates
  <2>4. CASE Added(h) /\ hook'[h].check = Len(checks) + 1 /\ hook'[h].head = hook[h].head
    <3>1. \A g \in Hooks : Holds(g)' =>
             /\ checks'[hook'[g].check] = [head |-> hook'[g].head, result |-> "open"]
             /\ hook'[g].check # meta'.check
      <4>1. ASSUME NEW g \in Hooks \ {h}, Holds(g)'
            PROVE  /\ checks'[hook'[g].check] = [head |-> hook'[g].head, result |-> "open"]
                   /\ hook'[g].check # meta'.check
        <5>1. Holds(g) /\ hook'[g] = hook[g] /\ meta' = meta  BY <2>1, <2>3, <4>1 DEF Holds
        <5>2. hook[g].check \in 1..Len(checks)  BY <5>1
        <5>3. checks'[hook[g].check] = checks[hook[g].check]  BY <2>2, <5>2
        <5>4. QED  BY <5>1, <5>3 DEF Fresh
      <4>2. /\ checks'[hook'[h].check] = [head |-> hook'[h].head, result |-> "open"]
            /\ hook'[h].check # meta'.check
        BY <2>1, <2>4 DEF Added
      <4>3. QED  BY <4>1, <4>2
    <3>2. \A g \in Hooks, s \in Acting' : Holds(g)' => hook'[g].check # settler'[s].check
      BY <2>1, <2>3, <2>4 DEF Fresh, Holds
    <3>3. \A f, g \in Hooks : Holds(f)' /\ Holds(g)' /\ g # f => hook'[f].check # hook'[g].check
      BY <2>3, <2>4 DEF Fresh, Holds
    <3>4. QED  BY <3>1, <3>2, <3>3 DEF Fresh
  <2>5. CASE hook'[h].at \notin Holding
    BY <2>1, <2>2, <2>3, <2>5 DEF Fresh, Holds
  <2>6. QED  BY <1>2, <2>4, <2>5 DEF Creates, Holding
<1>3. CASE ShortEnd(h)
  <2>1. /\ Holds(h) /\ ~Holds(h)' /\ \A g \in Hooks \ {h} : hook'[g] = hook[g]
        /\ Acting' = Acting /\ UNCHANGED settler /\ meta' = meta
        /\ \A c \in 1..Len(checks) \ {hook[h].check} : checks'[c] = checks[c]
    BY <1>3, ShortEnds DEF Completes, Moves, Holds, Holding, Acting
  <2>2. QED  BY <2>1 DEF Fresh, Holds
<1>4. CASE Store(h)
  <2>1. /\ Holds(h) /\ ~Holds(h)' /\ \A g \in Hooks \ {h} : hook'[g] = hook[g]
        /\ meta'.check = hook[h].check /\ Acting' = Acting /\ UNCHANGED <<checks, settler>>
    BY <1>4, HookGoes DEF WellFormed, TypeOK, Metadata, Store, Holds, Holding, Acting, Moves,
                          Stages, github
  <2>2. QED  BY <2>1 DEF Fresh, Holds
<1>5. CASE Dispatch(h)
  BY <1>5, RunDispatches, FreshAside DEF Moves, Holds, Holding, Acting, Settlers
<1>6. CASE HookBroken(h)
  <2>1. Moves(h, "idle") /\ UNCHANGED <<checks, meta, settler>>
    BY <1>6, HookReturns DEF HookBroken, WellFormed, github, thread
  <2>2. QED  BY <2>1, FreshAside DEF Moves, Holds, Holding, Acting
<1>7. QED
  BY <1>1, <1>2, <1>3, <1>4, <1>5, <1>6, StepsAside, StepsCreate DEF Webhook, Holding

(* The run knows only the check that is tracked.                           *)
LEMMA RunFresh ==
    ASSUME WellFormed, Fresh, Reviewer \/ RunBroken
    PROVE  Fresh'
<1>1. UNCHANGED <<checks, hook>> /\ meta'.check = meta.check
  BY RunWorks, RunAdvances, RunFinishes, RunBreaks DEF Reviewer, Working
<1>2. \A s \in Settlers : settler'[s] = settler[s] \/ settler'[s].at \in {"idle", "due", "read"}
  BY RunWorks, RunAdvances, RunFinishes, RunBreaks DEF Reviewer, Working, Settlers
<1>3. QED  BY <1>1, <1>2, FreshAside DEF Acting, Holds

(* A settlement reads only the check that is tracked.                      *)
LEMMA SettlerFresh ==
    ASSUME WellFormed, Fresh, NEW s \in Settlers, Settle(s) \/ SettlerBroken(s)
    PROVE  Fresh'
<1> USE Ids
<1>1. CASE Fetch(s)
  BY <1>1, Fetches, FreshAside DEF Returns, Acting, Holds
<1>2. CASE ReadCheck(s)
  <2>1. UNCHANGED <<checks, hook, meta>>  BY <1>2, Reads
  <2>2. CASE Returns(s)  BY <2>1, <2>2, FreshAside DEF Returns, Acting, Holds
  <2>3. CASE /\ settler'[s].check = meta.check /\ \A o \in Settlers \ {s} : settler'[o] = settler[o]
    <3>1. \A h \in Hooks, o \in Acting' : Holds(h)' => hook'[h].check # settler'[o].check
      BY <2>1, <2>3 DEF Fresh, Acting, Holds
    <3>2. QED  BY <2>1, <3>1 DEF Fresh, Holds
  <2>4. QED  BY <1>2, <2>2, <2>3, Reads
<1>3. CASE Patch(s)
  <2>1. /\ UNCHANGED <<hook, meta>> /\ \A o \in Settlers : settler'[o].check = settler[o].check
        /\ Acting' = Acting /\ s \in Acting
        /\ \A c \in 1..Len(checks) \ {settler[s].check} : checks'[c] = checks[c]
    BY <1>3, Patches DEF Completes, Acting
  <2>2. ASSUME NEW h \in Hooks, Holds(h)'
        PROVE  checks'[hook'[h].check] = [head |-> hook'[h].head, result |-> "open"]
    <3>1. Holds(h) /\ hook' = hook  BY <2>1, <2>2 DEF Holds
    <3>2. hook[h].check \in 1..Len(checks) \ {settler[s].check}  BY <2>1, <3>1 DEF Fresh
    <3>3. QED  BY <2>1, <3>1, <3>2 DEF Fresh
  <2>3. \A h \in Hooks : Holds(h)' <=> Holds(h)  BY <2>1 DEF Holds
  <2>4. \A h \in Hooks, o \in Acting' : Holds(h)' => hook'[h].check # settler'[o].check
    BY <2>1, <2>3 DEF Fresh, Acting
  <2>5. \A h \in Hooks : Holds(h)' => hook'[h].check # meta'.check  BY <2>1, <2>3 DEF Fresh
  <2>6. \A h, g \in Hooks : Holds(h)' /\ Holds(g)' /\ g # h => hook'[h].check # hook'[g].check
    BY <2>1, <2>3 DEF Fresh
  <2>7. QED  BY <2>2, <2>4, <2>5, <2>6 DEF Fresh
<1>4. CASE Clear(s)
  BY <1>4, Clears, FreshAside DEF Returns, Acting, Holds
<1>5. CASE KeepForRetry(s)
  BY <1>5, Keeps, FreshAside DEF Returns, Acting, Holds
<1>6. CASE SettlerBroken(s)
  BY <1>6, SettlerBreaks, FreshAside DEF Returns, Acting, Holds
<1>7. QED  BY <1>1, <1>2, <1>3, <1>4, <1>5, <1>6 DEF Settle

(* So every step keeps them apart.                                         *)
LEMMA NextFresh == WellFormed /\ Fresh /\ [Next]_vars => Fresh'
<1>1. Fresh /\ (Push \/ UNCHANGED vars) => Fresh'
  BY DEF Push, vars, github, thread, bounds, Fresh, Acting, Holds
<1>2. QED  BY <1>1, HookFresh, RunFresh, SettlerFresh DEF Next

(* And they are apart in every state.                                      *)
LEMMA FreshAlways == Spec => [](WellFormed /\ Fresh)
<1>1. Init => Fresh  BY NoHookType DEF Init, Fresh, Holds, Holding
<1>2. QED  BY InitTypes, NextTypes, NextFresh, <1>1, PTL DEF Spec

(***************************************************************************)
(* Unless something went wrong for good, an open check is known to the     *)
(* webhook that created it or tracked by the thread, or the head has moved *)
(* on since; somebody is yet to settle the one that is tracked; and who    *)
(* could not complete it is a tool of the agent's, which will be back.     *)
(***************************************************************************)
Mishaps == {"orphan", "replaced", "overtaken", "stuck", "killed"}

Closed == \A s \in Settlers :
    settler[s].at = "clear" => checks[settler[s].check].result # "open"

EachKnown == \A c \in 1..Len(checks) : checks[c].result = "open" =>
    \/ \E h \in Hooks : Holds(h) /\ hook[h].check = c
    \/ meta.check = c
    \/ checks[c].head < prHead

Attended ==
    \/ \E h \in Hooks : hook[h].at = "dispatch"
    \/ run.at # "none"
    \/ settler["webhook"].at # "idle"

Awaited == meta.check # 0 /\ checks[meta.check].result = "open" => Attended

Retried == \A s \in Settlers : settler[s].at = "keep" => s = "run" /\ run.at = "settle"

Cared == Closed /\ (Without(Mishaps) => EachKnown /\ Awaited /\ Retried)

(* What is excused now was not so before.                                  *)
LEMMA Careful ==
    ASSUME causes \subseteq causes', Without(Mishaps)'
    PROVE  Without(Mishaps) /\ causes' \intersect Mishaps = {}
  BY DEF Without

(* A webhook leaves no check to nobody.                                    *)
LEMMA HookCares ==
    ASSUME WellFormed, Fresh, Cared, NEW h \in Hooks,
           Webhook(h) \/ HookBroken(h) \/ \E kind \in Kinds \ {"none"} : Deliver(h, kind)
    PROVE  Cared'
<1> USE Ids DEF Mishaps
<1>1. CASE Aside(h)
  <2>1. /\ UNCHANGED <<prHead, checks, run, settler, causes>> /\ meta'.check = meta.check
        /\ ~Holds(h) /\ hook[h].at # "dispatch" /\ \A g \in Hooks \ {h} : hook'[g] = hook[g]
    BY <1>1 DEF Aside, Holds
  <2>2. Closed'  BY <2>1 DEF Cared, Closed
  <2>3. SUFFICES ASSUME Without(Mishaps) PROVE EachKnown' /\ Awaited' /\ Retried'
    BY <2>1, <2>2 DEF Cared, Without
  <2>4. EachKnown'  BY <2>1, <2>3 DEF Cared, EachKnown, Holds
  <2>5. Awaited'  BY <2>1, <2>3 DEF Cared, Awaited, Attended
  <2>6. Retried'  BY <2>1, <2>3 DEF Cared, Retried
  <2>7. QED  BY <2>4, <2>5, <2>6
<1>2. ASSUME NEW next \in Holding, Creates(h, next), hook[h].at \in {"shortCheck", "create"}
      PROVE  Cared'
  <2>1. /\ \A g \in Hooks \ {h} : hook'[g] = hook[g]
        /\ UNCHANGED <<prHead, meta, run, settler>> /\ causes \subseteq causes'
        /\ Len(checks) \in Nat /\ Len(checks') \in {Len(checks), Len(checks) + 1}
        /\ \A c \in 1..Len(checks) : checks'[c] = checks[c]
    BY <1>2 DEF Creates, Added
  <2>2. Closed'
    <3>1. \A s \in Settlers : settler[s].at = "clear" => settler[s].check \in 1..Len(checks)
      BY DEF Acting
    <3>2. QED  BY <2>1, <3>1 DEF Cared, Closed
  <2>3. SUFFICES ASSUME Without(Mishaps)' PROVE EachKnown' /\ Awaited' /\ Retried'
    BY <2>2 DEF Cared
  <2>4. EachKnown /\ Awaited /\ Retried /\ "orphan" \notin causes'
    BY <2>1, <2>3, Careful DEF Cared
  <2>5. ~Holds(h) /\ hook[h].at # "dispatch"  BY <1>2 DEF Holds, Holding
  <2>6. EachKnown'
    <3>1. ASSUME NEW c \in 1..Len(checks), checks'[c].result = "open"
          PROVE  \/ \E g \in Hooks : Holds(g)' /\ hook'[g].check = c
                 \/ meta'.check = c
                 \/ checks'[c].head < prHead'
      <4>1. checks[c].result = "open"  BY <2>1, <3>1
      <4>2. CASE \E g \in Hooks : Holds(g) /\ hook[g].check = c
        BY <2>1, <2>5, <4>2 DEF Holds
      <4>3. CASE meta.check = c \/ checks[c].head < prHead  BY <2>1, <4>3
      <4>4. QED  BY <2>4, <4>1, <4>2, <4>3 DEF EachKnown
    <3>2. Len(checks') = Len(checks) + 1 => Holds(h)' /\ hook'[h].check = Len(checks) + 1
      BY <1>2, <2>1, <2>4 DEF Creates, Holds
    <3>3. QED  BY <2>1, <3>1, <3>2 DEF EachKnown
  <2>7. Awaited'
    <3>1. Attended => Attended'  BY <2>1, <2>5 DEF Attended
    <3>2. QED  BY <2>1, <2>4, <3>1 DEF Awaited
  <2>8. QED  BY <2>1, <2>4, <2>6, <2>7 DEF Retried
<1>3. CASE ShortEnd(h)
  <2> DEFINE k == hook[h].check
  <2>1. /\ Holds(h) /\ k \in 1..Len(checks) /\ hook[h].at # "dispatch"
        /\ \A g \in Hooks \ {h} : hook'[g] = hook[g]
        /\ UNCHANGED <<prHead, meta, run, settler>> /\ causes \subseteq causes'
        /\ Len(checks') = Len(checks) /\ \A c \in 1..Len(checks) \ {k} : checks'[c] = checks[c]
        /\ "orphan" \notin causes' => checks'[k].result # "open"
    <3>1. /\ Holds(h) /\ hook[h].at = "shortEnd" /\ Moves(h, "idle")
          /\ UNCHANGED <<prHead, meta, run, settler>>
          /\ \/ Completes(k, "success") /\ UNCHANGED causes
             \/ UNCHANGED checks /\ causes' = causes \union {"orphan"}
      BY <1>3, ShortEnds
    <3>2. k \in 1..Len(checks)  BY <3>1
    <3> HIDE DEF k
    <3>3. Completes(k, "success") =>
            /\ Len(checks') = Len(checks) /\ checks'[k].result # "open"
            /\ \A c \in 1..Len(checks) \ {k} : checks'[c] = checks[c]
      BY DEF Completes
    <3>4. QED  BY <3>1, <3>2, <3>3 DEF Moves
  <2> HIDE DEF k
  <2>2. Closed'
    <3>1. \A s \in Settlers : settler[s].at = "clear" => settler[s].check \in 1..Len(checks) \ {k}
      BY <2>1 DEF Acting, Fresh, k
    <3>2. QED  BY <2>1, <3>1 DEF Cared, Closed
  <2>3. SUFFICES ASSUME Without(Mishaps)' PROVE EachKnown' /\ Awaited' /\ Retried'
    BY <2>2 DEF Cared
  <2>4. EachKnown /\ Awaited /\ Retried /\ checks'[k].result # "open"
    BY <2>1, <2>3, Careful DEF Cared
  <2>5. EachKnown'
    <3>1. ASSUME NEW c \in 1..Len(checks) \ {k}, checks[c].result = "open"
          PROVE  \/ \E g \in Hooks : Holds(g)' /\ hook'[g].check = c
                 \/ meta'.check = c
                 \/ checks[c].head < prHead'
      <4>1. CASE \E g \in Hooks : Holds(g) /\ hook[g].check = c
        BY <2>1, <3>1, <4>1 DEF Holds, k
      <4>2. CASE meta.check = c \/ checks[c].head < prHead  BY <2>1, <4>2
      <4>3. QED  BY <2>4, <3>1, <4>1, <4>2 DEF EachKnown
    <3>2. QED  BY <2>1, <2>4, <3>1 DEF EachKnown
  <2>6. Awaited'
    <3>1. Attended => Attended'  BY <2>1 DEF Attended
    <3>2. meta.check # k  BY <2>1 DEF Fresh, k
    <3>3. QED  BY <2>1, <2>4, <3>1, <3>2 DEF Awaited
  <2>7. QED  BY <2>1, <2>4, <2>5, <2>6 DEF Retried
<1>4. CASE Store(h)
  <2>1. /\ Holds(h) /\ \A g \in Hooks \ {h} : hook'[g] = hook[g]
        /\ hook'[h].at = "dispatch" /\ hook[h].head \in 1..prHead
        /\ UNCHANGED <<prHead, checks, run, settler>> /\ causes \subseteq causes'
        /\ meta'.check = hook[h].check
        /\ "replaced" \notin causes' =>
              \A c \in Tracked : c.result = "open" => ~(c.head >= hook[h].head)
    <3>1. Moves(h, "dispatch")  BY <1>4, HookGoes DEF WellFormed, Store, Stages
    <3>2. meta'.check = hook[h].check  BY <1>4 DEF WellFormed, TypeOK, Metadata, Store
    <3>3. hook[h].head \in 1..prHead  BY <1>4 DEF WellFormed, Linked, Store
    <3>4. QED  BY <1>4, <3>1, <3>2, <3>3 DEF Store, When, Moves, Holds, Holding, github
  <2>2. Closed'  BY <2>1 DEF Cared, Closed
  <2>3. SUFFICES ASSUME Without(Mishaps)' PROVE EachKnown' /\ Awaited' /\ Retried'
    BY <2>2 DEF Cared
  <2>4. EachKnown /\ Retried /\ "replaced" \notin causes'
    BY <2>1, <2>3, Careful DEF Cared
  <2>5. EachKnown'
    <3>1. ASSUME NEW c \in 1..Len(checks), checks[c].result = "open"
          PROVE  \/ \E g \in Hooks : Holds(g)' /\ hook'[g].check = c
                 \/ meta'.check = c
                 \/ checks[c].head < prHead'
      <4>1. CASE \E g \in Hooks : Holds(g) /\ hook[g].check = c
        BY <2>1, <4>1 DEF Holds
      <4>2. CASE checks[c].head < prHead  BY <2>1, <4>2
      <4>3. CASE meta.check = c
        <5>1. checks[c] \in Tracked  BY <4>3 DEF Tracked
        <5>2. checks[c].head \in Nat /\ prHead \in Nat
          BY DEF Checks, Heads, WellFormed, TypeOK
        <5>3. ~(checks[c].head >= hook[h].head)  BY <2>1, <2>4, <3>1, <5>1
        <5>4. QED  BY <2>1, <5>2, <5>3
      <4>4. QED  BY <2>4, <3>1, <4>1, <4>2, <4>3 DEF EachKnown
    <3>2. QED  BY <2>1, <3>1 DEF EachKnown
  <2>6. Awaited'  BY <2>1 DEF Awaited, Attended
  <2>7. QED  BY <2>1, <2>4, <2>5, <2>6 DEF Retried
<1>5. CASE Dispatch(h)
  <2>1. /\ ~Holds(h) /\ \A g \in Hooks \ {h} : hook'[g] = hook[g]
        /\ UNCHANGED <<prHead, checks, meta>> /\ causes \subseteq causes' /\ run'.at = "working"
        /\ settler'["run"].at = "idle" /\ settler'["webhook"] = settler["webhook"]
    BY <1>5, RunDispatches DEF Moves, Holds, Holding
  <2>2. Closed'  BY <2>1 DEF Cared, Closed, Settlers
  <2>3. SUFFICES ASSUME Without(Mishaps)' PROVE EachKnown' /\ Awaited' /\ Retried'
    BY <2>2 DEF Cared
  <2>4. EachKnown /\ Retried  BY <2>1, <2>3, Careful DEF Cared
  <2>5. EachKnown'  BY <2>1, <2>4 DEF EachKnown, Holds
  <2>6. Awaited'  BY <2>1 DEF Awaited, Attended
  <2>7. Retried'  BY <2>1, <2>4 DEF Retried, Settlers
  <2>8. QED  BY <2>5, <2>6, <2>7
<1>6. CASE HookBroken(h)
  <2>1. /\ \A g \in Hooks \ {h} : hook'[g] = hook[g]
        /\ UNCHANGED <<prHead, checks, meta, run, settler>> /\ causes \subseteq causes'
        /\ Holds(h) \/ hook[h].at = "dispatch" => "orphan" \in causes'
    BY <1>6, HookReturns
    DEF HookBroken, Moves, When, Holds, Holding, github, thread, WellFormed
  <2>2. Closed'  BY <2>1 DEF Cared, Closed
  <2>3. SUFFICES ASSUME Without(Mishaps)' PROVE EachKnown' /\ Awaited' /\ Retried'
    BY <2>2 DEF Cared
  <2>4. EachKnown /\ Awaited /\ Retried /\ ~Holds(h) /\ hook[h].at # "dispatch"
    BY <2>1, <2>3, Careful DEF Cared
  <2>5. EachKnown'  BY <2>1, <2>4 DEF EachKnown, Holds
  <2>6. Awaited'  BY <2>1, <2>4 DEF Awaited, Attended
  <2>7. QED  BY <2>1, <2>4, <2>5, <2>6 DEF Retried
<1>7. ShortCheck(h) \/ Create(h) => hook[h].at \in {"shortCheck", "create"}
  BY DEF ShortCheck, Create
<1>8. QED
  BY <1>1, <1>2, <1>3, <1>4, <1>5, <1>6, <1>7, StepsAside, StepsCreate DEF Webhook, Holding

(* The run ends only when it has settled, or somebody will.                *)
LEMMA RunCares ==
    ASSUME WellFormed, Cared, Reviewer \/ RunBroken
    PROVE  Cared'
<1> USE DEF Mishaps
<1>1. run.at \in {"settle", "close"} <=> settler["run"].at # "idle"
  BY DEF WellFormed, Linked
<1>2. /\ UNCHANGED <<prHead, checks, hook>> /\ meta'.check = meta.check /\ causes \subseteq causes'
      /\ \A s \in Settlers : settler'[s] = settler[s] \/ settler'[s].at \notin {"clear", "keep"}
  BY RunWorks, RunAdvances, RunFinishes, RunBreaks DEF Reviewer, Working, Settlers
<1>3. run.at # "none" /\ (settler["webhook"].at # "idle" => settler'["webhook"].at # "idle")
  BY RunWorks, RunAdvances, RunFinishes, RunBreaks DEF Reviewer, Working
<1>4. settler'["run"].at = "keep" => run' = run \/ run'.at = "settle"
  BY <1>1, RunWorks, RunAdvances, RunFinishes, RunBreaks DEF Reviewer, Working
<1>5. "killed" \notin causes' => Attended'
  BY RunWorks, RunAdvances, RunFinishes, RunBreaks DEF Reviewer, Working, Attended
<1>6. Closed'  BY <1>2 DEF Cared, Closed
<1>7. SUFFICES ASSUME Without(Mishaps)' PROVE EachKnown' /\ Awaited' /\ Retried'
  BY <1>6 DEF Cared
<1>8. EachKnown /\ Retried /\ "killed" \notin causes'  BY <1>2, <1>7, Careful DEF Cared
<1>9. EachKnown'  BY <1>2, <1>8 DEF EachKnown, Holds
<1>10. Awaited'  BY <1>5, <1>8 DEF Awaited
<1>11. Retried'
  BY <1>2, <1>4, <1>8 DEF Retried
<1>12. QED  BY <1>9, <1>10, <1>11

(* A settlement forgets only what it has completed.                        *)
LEMMA SettlerCares ==
    ASSUME WellFormed, Cared, NEW s \in Settlers, Settle(s) \/ SettlerBroken(s)
    PROVE  Cared'
<1> USE Ids DEF Mishaps
<1>1. run.at \in {"settle", "close"} <=> settler["run"].at # "idle"
  BY DEF WellFormed, Linked
<1>2. Returns(s) /\ Retried => Retried'  BY DEF Returns, Retried, Settlers
<1>3. ASSUME UNCHANGED <<prHead, checks, hook>>, causes \subseteq causes',
             settler'[s].at \notin {"clear", "keep"},
             \A o \in Settlers \ {s} : settler'[o] = settler[o],
             Returns(s) \/ UNCHANGED run,
             \/ meta'.check = meta.check
             \/ meta'.check = 0 /\ (meta.check # 0 /\ checks[meta.check].result = "open"
                                    => causes' \intersect Mishaps # {}),
             meta'.check = 0 \/ Attended' \/ causes' \intersect Mishaps # {}
      PROVE  Cared'
  <2>1. Closed'  BY <1>3 DEF Cared, Closed
  <2>2. SUFFICES ASSUME Without(Mishaps)' PROVE EachKnown' /\ Awaited' /\ Retried'
    BY <2>1 DEF Cared
  <2>3. EachKnown /\ Retried /\ causes' \intersect Mishaps = {}
    BY <1>3, <2>2, Careful DEF Cared
  <2>4. EachKnown'
    <3>1. ASSUME NEW c \in 1..Len(checks), checks[c].result = "open"
          PROVE  \/ \E h \in Hooks : Holds(h) /\ hook[h].check = c
                 \/ meta'.check = c
                 \/ checks[c].head < prHead
      BY <1>3, <2>3, <3>1 DEF EachKnown
    <3>2. QED  BY <1>3, <3>1 DEF EachKnown, Holds
  <2>5. Awaited'  BY <1>3, <2>3 DEF Awaited
  <2>6. Retried'  BY <1>2, <1>3, <2>3 DEF Retried
  <2>7. QED  BY <2>4, <2>5, <2>6
<1>4. CASE Fetch(s)
  <2>1. /\ UNCHANGED <<prHead, checks, hook, meta>> /\ causes \subseteq causes'
        /\ settler'[s].at \notin {"clear", "keep"} /\ (Returns(s) \/ UNCHANGED run)
        /\ \A o \in Settlers \ {s} : settler'[o] = settler[o]
    BY <1>4, Fetches DEF Returns
  <2>2. meta.check = 0 \/ Attended'
    BY <1>1, <1>4, Fetches DEF Attended, Settlers
  <2>3. QED  BY <1>3, <2>1, <2>2
<1>5. CASE ReadCheck(s)
  <2>1. /\ UNCHANGED <<prHead, checks, hook, meta>> /\ causes \subseteq causes'
        /\ settler'[s].at \notin {"clear", "keep"} /\ (Returns(s) \/ UNCHANGED run)
        /\ \A o \in Settlers \ {s} : settler'[o] = settler[o]
    BY <1>5, Reads DEF Returns
  <2>2. meta.check = 0 \/ Attended'
    BY <1>1, <1>5, Reads DEF Attended, Settlers
  <2>3. QED  BY <1>3, <2>1, <2>2
<1>6. CASE Patch(s)
  <2> DEFINE k == settler[s].check
  <2>1. /\ UNCHANGED <<prHead, meta, run, hook>> /\ causes \subseteq causes'
        /\ k \in 1..Len(checks) /\ settler[s].at = "patch"
        /\ settler'[s].check = k /\ \A o \in Settlers \ {s} : settler'[o] = settler[o]
        /\ Len(checks') = Len(checks) /\ \A c \in 1..Len(checks) \ {k} : checks'[c] = checks[c]
        /\ checks'[k] = checks[k] \/ checks'[k].result # "open"
        /\ checks'[k].head = checks[k].head
        /\ \/ settler'[s].at = "clear" /\ checks'[k].result # "open"
           \/ settler'[s].at = "keep" /\ (s = "webhook" \/ run.at = "close" => "stuck" \in causes')
    <3>1. /\ k \in 1..Len(checks) /\ settler[s].result \in Results
          /\ settler[s].at = "patch" /\ UNCHANGED <<prHead, meta, run, hook>>
          /\ settler'[s].check = k /\ \A o \in Settlers \ {s} : settler'[o] = settler[o]
          /\ \/ Completes(k, settler[s].result) /\ settler'[s].at = "clear" /\ UNCHANGED causes
             \/ /\ settler'[s].at = "keep" /\ (Completes(k, settler[s].result) \/ UNCHANGED checks)
                /\ causes' = causes \union When(s = "webhook" \/ run.at = "close", "stuck")
      BY <1>6, Patches
    <3> HIDE DEF k
    <3>2. Completes(k, settler[s].result) =>
            /\ Len(checks') = Len(checks) /\ checks'[k].result # "open"
            /\ checks'[k].head = checks[k].head
            /\ \A c \in 1..Len(checks) \ {k} : checks'[c] = checks[c]
      BY <3>1 DEF Completes, Results
    <3>3. causes \subseteq causes'  BY <3>1
    <3>4. settler'[s].at = "keep" => (s = "webhook" \/ run.at = "close" => "stuck" \in causes')
      BY <3>1 DEF When
    <3>5. QED  BY <3>1, <3>2, <3>3, <3>4
  <2> HIDE DEF k
  <2>2. \A c \in 1..Len(checks) :
           checks'[c].head = checks[c].head /\ (checks'[c].result = "open" => checks[c].result = "open")
    BY <2>1
  <2>3. Closed'
    <3>1. \A o \in Settlers \ {s} : settler'[o].at = "clear" => settler[o].check \in 1..Len(checks)
      BY <2>1 DEF Acting
    <3>2. QED  BY <2>1, <2>2, <3>1 DEF Cared, Closed
  <2>4. SUFFICES ASSUME Without(Mishaps)' PROVE EachKnown' /\ Awaited' /\ Retried'
    BY <2>3 DEF Cared
  <2>5. EachKnown /\ Awaited /\ Retried /\ "stuck" \notin causes'
    BY <2>1, <2>4, Careful DEF Cared
  <2>6. EachKnown'  BY <2>1, <2>2, <2>5 DEF EachKnown, Holds
  <2>7. Awaited'  BY <1>1, <2>1 DEF Awaited, Attended, Settlers
  <2>8. Retried'  BY <1>1, <2>1, <2>5 DEF Retried, Settlers
  <2>9. QED  BY <2>6, <2>7, <2>8
<1>7. CASE Clear(s)
  <2>1. checks[settler[s].check].result # "open"  BY <1>7, Clears DEF Cared, Closed
  <2>2. QED  BY <1>3, <1>7, <2>1, Clears DEF Returns
<1>8. CASE KeepForRetry(s)
  <2>1. /\ UNCHANGED <<prHead, checks, hook, causes>> /\ Returns(s)
        /\ settler[s].at = "keep" /\ meta'.check = meta.check
    BY <1>8, Keeps
  <2>2. Attended' \/ ~Without(Mishaps)  BY <2>1 DEF Cared, Retried, Returns, Attended
  <2>3. QED  BY <1>3, <2>1, <2>2 DEF Returns, Without
<1>9. CASE SettlerBroken(s)
  <2>1. /\ UNCHANGED <<prHead, checks, hook, meta>> /\ Returns(s) /\ causes \subseteq causes'
        /\ settler[s].at # "idle" /\ (s = "webhook" \/ run.at = "close" => "stuck" \in causes')
    BY <1>9, SettlerBreaks
  <2>2. Attended' \/ "stuck" \in causes'  BY <1>1, <2>1 DEF Returns, Attended, Settlers
  <2>3. QED  BY <1>3, <2>1, <2>2 DEF Returns
<1>10. QED  BY <1>4, <1>5, <1>6, <1>7, <1>8, <1>9 DEF Settle

(* So every step takes care of the checks.                                 *)
LEMMA NextCares == WellFormed /\ Fresh /\ Cared /\ [Next]_vars => Cared'
<1>1. ASSUME WellFormed, Cared, Push PROVE Cared'
  <2>1. /\ UNCHANGED <<checks, meta, hook, run, settler, causes>> /\ prHead' = prHead + 1
        /\ prHead \in Nat /\ \A c \in 1..Len(checks) : checks[c].head \in Nat
    BY <1>1, Ids DEF Push, thread, WellFormed, TypeOK, Heads, Checks
  <2>2. Closed'  BY <1>1, <2>1 DEF Cared, Closed
  <2>3. EachKnown => EachKnown'  BY <2>1 DEF EachKnown, Holds
  <2>4. Awaited => Awaited'  BY <2>1 DEF Awaited, Attended
  <2>5. Retried => Retried'  BY <2>1 DEF Retried
  <2>6. QED  BY <1>1, <2>1, <2>2, <2>3, <2>4, <2>5 DEF Cared, Without
<1>2. Cared /\ UNCHANGED vars => Cared'
  BY DEF vars, github, thread, bounds, Cared, Closed, EachKnown, Awaited, Attended, Retried,
         Holds, Without
<1>3. QED  BY <1>1, <1>2, HookCares, RunCares, SettlerCares DEF Next

(***************************************************************************)
(* "Otherwise the check would hang in-progress forever": when nothing is   *)
(* under way, no check on the head of the pull request is open, unless one *)
(* of the mishaps that are named has happened.                             *)
(***************************************************************************)
THEOREM QuietsSettled == Spec => []QuietIsSettled
<1>1. Init => Cared
  BY NotSettlingType DEF Init, Cared, Closed, EachKnown, Awaited, Retried
<1>2. Spec => []Cared
  BY <1>1, InitTypes, NextTypes, NextCares, FreshAlways, PTL DEF Spec
<1>3. WellFormed /\ Cared => QuietIsSettled
  <2>1. SUFFICES ASSUME WellFormed, Cared, Quiet, Without(Mishaps),
                        NEW c \in 1..Len(checks), checks[c].head = prHead, checks[c].result = "open"
                 PROVE  FALSE
    <3>1. DOMAIN checks = 1..Len(checks)  BY DEF WellFormed, TypeOK
    <3>2. QED  BY <3>1 DEF QuietIsSettled, Mishaps
  <2>2. \A h \in Hooks : ~Holds(h)  BY <2>1 DEF Quiet, Holds, Holding
  <2>3. ~Attended  BY <2>1 DEF Quiet, Attended, Settlers
  <2>4. prHead \in Nat  BY <2>1 DEF WellFormed, TypeOK, Heads
  <2>5. QED  BY <2>1, <2>2, <2>3, <2>4 DEF Cared, EachKnown, Awaited
<1>4. QED  BY <1>2, <1>3, FreshAlways, PTL

-----------------------------------------------------------------------------
(* What a success is worth.                                                *)

(***************************************************************************)
(* A webhook completes the check of a head that it has marked.  And unless *)
(* a webhook moved the thread on under a publication or a settlement, the  *)
(* head that a run publishes for is that of the check which is tracked,    *)
(* and whoever is to report a success reports it of a head that was        *)
(* published.                                                              *)
(***************************************************************************)
Target == {c.head : c \in Tracked}
Covered == Target \subseteq published

Marked == \A h \in Hooks : hook[h].at \in {"shortCheck", "shortEnd"} => hook[h].head \in published

Vouched == \A c \in 1..Len(checks) : checks[c].result = "success" => checks[c].head \in published

Aimed == run.at \in Publishing => Target \subseteq {run.want}

Kept == meta.pending = "success" => Covered

Bound == \A s \in Settlers :
    settler[s].at \notin {"idle", "due"} /\ settler[s].result = "success" =>
        Covered /\ (settler[s].at # "read" => checks[settler[s].check].head \in published)

Reviewed == Marked /\ (Without({"crossed"}) => Vouched /\ Aimed /\ Kept /\ Bound)

(* The heads of checks never change, so only another check is a new aim.   *)
SameHeads ==
    /\ Len(checks') \in Nat /\ Len(checks') >= Len(checks)
    /\ \A c \in 1..Len(checks) : checks'[c].head = checks[c].head

(* While no other check is stored the aim is the same.                     *)
LEMMA TargetKept ==
    ASSUME WellFormed, SameHeads, meta'.check \in {0, meta.check}
    PROVE  Target' \subseteq Target
<1>1. meta.check \in 0..Len(checks) /\ Len(checks) \in Nat  BY Ids
<1>2. meta'.check # 0 => meta'.check = meta.check /\ checks'[meta.check].head = checks[meta.check].head
  BY <1>1 DEF SameHeads
<1>3. Target' = IF meta'.check = 0 THEN {} ELSE {checks'[meta'.check].head}  BY DEF Target, Tracked
<1>4. Target = IF meta.check = 0 THEN {} ELSE {checks[meta.check].head}  BY DEF Target, Tracked
<1>5. QED  BY <1>2, <1>3, <1>4

(* Who has not crossed now had not crossed before.                         *)
LEMMA Uncrossed ==
    ASSUME causes \subseteq causes', Without({"crossed"})'
    PROVE  Without({"crossed"}) /\ "crossed" \notin causes'
  BY DEF Without

(* Checks are left alone, or added and completed by who may do so.         *)
LEMMA ReviewedChecks ==
    ASSUME WellFormed, Vouched, SameHeads, published \subseteq published',
           \A c \in 1..Len(checks') : checks'[c].result = "success" =>
               c \in 1..Len(checks) /\ (checks[c].result = "success" \/ checks[c].head \in published)
    PROVE  Vouched'
  BY DEF Vouched, SameHeads

(* Who settles goes on as before, and what it settles is as before.        *)
LEMMA ReviewedBound ==
    ASSUME WellFormed, Bound, SameHeads, meta'.check \in {0, meta.check},
           published \subseteq published', NEW s \in Settlers,
           settler'[s].at \in {"idle", "due"} \/ settler'[s] = settler[s]
    PROVE  settler'[s].at \notin {"idle", "due"} /\ settler'[s].result = "success" =>
             /\ Covered'
             /\ settler'[s].at # "read" => checks'[settler'[s].check].head \in published'
<1>1. Covered => Covered'  BY TargetKept DEF Covered
<1>2. SUFFICES ASSUME settler'[s] = settler[s], settler[s].at \notin {"idle", "due"},
                      settler[s].result = "success", settler[s].at # "read"
               PROVE  checks'[settler[s].check].head \in published'
  BY <1>1 DEF Bound
<1>3. settler[s].at \in {"patch", "clear", "keep"}
  BY <1>2 DEF WellFormed, TypeOK, SettlerRecords
<1>4. settler[s].check \in 1..Len(checks)  BY <1>3, Ids DEF Acting
<1>5. QED  BY <1>2, <1>4 DEF Bound, SameHeads

(* A webhook completes only what it has marked.                            *)
LEMMA HookReviewed ==
    ASSUME WellFormed, Fresh, Reviewed, NEW h \in Hooks,
           Webhook(h) \/ HookBroken(h) \/ \E kind \in Kinds \ {"none"} : Deliver(h, kind)
    PROVE  Reviewed'
<1> USE Ids
<1>1. ASSUME published \subseteq published', causes \subseteq causes', SameHeads,
             meta'.check = meta.check, meta'.pending = meta.pending, UNCHANGED <<run, settler>>,
             \A g \in Hooks \ {h} : hook'[g] = hook[g],
             hook'[h].at \in {"shortCheck", "shortEnd"} => hook'[h].head \in published',
             \A c \in 1..Len(checks') : checks'[c].result = "success" =>
                c \in 1..Len(checks) /\ (checks[c].result = "success" \/ checks[c].head \in published)
      PROVE  Reviewed'
  <2>1. Marked'  BY <1>1 DEF Reviewed, Marked
  <2>2. SUFFICES ASSUME Without({"crossed"})' PROVE Vouched' /\ Aimed' /\ Kept' /\ Bound'
    BY <2>1 DEF Reviewed
  <2>3. Vouched /\ Aimed /\ Kept /\ Bound  BY <1>1, <2>2, Uncrossed DEF Reviewed
  <2>4. Vouched'  BY <1>1, <2>3, ReviewedChecks
  <2>5. Target' \subseteq Target  BY <1>1, TargetKept
  <2>6. Aimed'  BY <1>1, <2>3, <2>5 DEF Aimed
  <2>7. Kept'  BY <1>1, <2>3, <2>5 DEF Kept, Covered
  <2>8. Bound'  BY <1>1, <2>3, ReviewedBound DEF Bound
  <2>9. QED  BY <2>4, <2>6, <2>7, <2>8
<1>2. CASE Aside(h)
  <2>1. SameHeads  BY <1>2 DEF Aside, SameHeads
  <2>2. QED  BY <1>1, <1>2, <2>1 DEF Aside, Reviewed, Vouched
<1>3. ASSUME NEW next \in Holding, Creates(h, next),
             next = "shortEnd" => hook[h].head \in published
      PROVE  Reviewed'
  <2>1. SameHeads  BY <1>3 DEF Creates, Added, SameHeads
  <2>2. \A c \in 1..Len(checks') : checks'[c].result = "success" =>
           c \in 1..Len(checks) /\ checks[c].result = "success"
    BY <1>3 DEF Creates, Added
  <2>3. /\ \A g \in Hooks \ {h} : hook'[g] = hook[g]
        /\ UNCHANGED <<meta, published, run, settler>> /\ causes \subseteq causes'
    BY <1>3 DEF Creates
  <2>4. hook'[h].at \in {"shortCheck", "shortEnd"} => hook'[h].head \in published
    BY <1>3 DEF Creates, Holding
  <2>5. QED  BY <1>1, <2>1, <2>2, <2>3, <2>4
<1>4. CASE ShortEnd(h)
  <2> DEFINE k == hook[h].check
  <2>1. /\ Holds(h) /\ hook[h].at = "shortEnd" /\ Moves(h, "idle")
        /\ UNCHANGED <<meta, published, run, settler>>
        /\ \/ Completes(k, "success") /\ UNCHANGED causes
           \/ UNCHANGED checks /\ causes' = causes \union {"orphan"}
    BY <1>4, ShortEnds
  <2>2. checks[k] = [head |-> hook[h].head, result |-> "open"]  BY <2>1 DEF Fresh
  <2>3. k \in 1..Len(checks) /\ checks[k].head = hook[h].head  BY <2>1, <2>2
  <2>4. hook[h].head \in published  BY <2>1 DEF Reviewed, Marked
  <2> HIDE DEF k
  <2>5. SameHeads  BY <2>1, <2>3 DEF Completes, SameHeads
  <2>6. \A c \in 1..Len(checks') : checks'[c].result = "success" =>
           c \in 1..Len(checks) /\ (checks[c].result = "success" \/ checks[c].head \in published)
    BY <2>1, <2>3, <2>4 DEF Completes
  <2>7. causes \subseteq causes'  BY <2>1
  <2>8. QED  BY <1>1, <2>1, <2>5, <2>6, <2>7 DEF Moves
<1>5. CASE Store(h)
  <2>1. Moves(h, "dispatch")  BY <1>5, HookGoes DEF WellFormed, Store, Stages
  <2>2. /\ UNCHANGED <<checks, run, settler, published>> /\ causes \subseteq causes'
        /\ "crossed" \notin causes' => ~Preparing
    BY <1>5 DEF Store, github, When
  <2>3. Marked'  BY <2>1, <2>2 DEF Reviewed, Marked, Moves
  <2>4. SUFFICES ASSUME Without({"crossed"})' PROVE Vouched' /\ Aimed' /\ Kept' /\ Bound'
    BY <2>3 DEF Reviewed
  <2>5. Vouched /\ ~Preparing  BY <2>2, <2>4, Uncrossed DEF Reviewed
  <2>6. Vouched'  BY <2>2, <2>5 DEF Vouched
  <2>7. meta'.pending = meta.pending  BY <1>5 DEF WellFormed, TypeOK, Metadata, Store
  <2>8. Kept'  BY <2>5, <2>7 DEF Preparing, Kept
  <2>9. run.at \in {"none", "working"}  BY <2>5 DEF Preparing
  <2>10. Aimed'  BY <2>2, <2>9 DEF Aimed, Publishing
  <2>11. settler["webhook"].at = "idle" /\ settler["run"].at = "idle"
    BY <2>5, <2>9 DEF Preparing, WellFormed, Linked
  <2>12. Bound'  BY <2>2, <2>11 DEF Bound, Settlers
  <2>13. QED  BY <2>6, <2>8, <2>10, <2>12
<1>6. CASE Dispatch(h)
  <2>1. /\ Moves(h, "idle") /\ run'.at = "working" /\ settler'["run"].at = "idle"
        /\ settler'["webhook"] = settler["webhook"] /\ causes \subseteq causes'
        /\ UNCHANGED <<checks, meta, published>>
    BY <1>6, RunDispatches
  <2>2. SameHeads  BY <2>1 DEF SameHeads
  <2>3. Marked'  BY <2>1 DEF Reviewed, Marked, Moves
  <2>4. SUFFICES ASSUME Without({"crossed"})' PROVE Vouched' /\ Aimed' /\ Kept' /\ Bound'
    BY <2>3 DEF Reviewed
  <2>5. Vouched /\ Kept /\ Bound  BY <2>1, <2>4, Uncrossed DEF Reviewed
  <2>6. Vouched'  BY <2>1, <2>5 DEF Vouched
  <2>7. Aimed'  BY <2>1 DEF Aimed, Publishing
  <2>8. Kept'  BY <2>1, <2>5 DEF Kept, Covered, Target, Tracked
  <2>9. Bound'  BY <2>1, <2>2, <2>5, ReviewedBound DEF Bound, Settlers
  <2>10. QED  BY <2>6, <2>7, <2>8, <2>9
<1>7. CASE HookBroken(h)
  <2>1. /\ Moves(h, "idle") /\ UNCHANGED <<checks, meta, published, run, settler>>
        /\ causes \subseteq causes'
    BY <1>7, HookReturns DEF HookBroken, WellFormed, github, thread
  <2>2. SameHeads  BY <2>1 DEF SameHeads
  <2>3. QED  BY <1>1, <2>1, <2>2 DEF Moves
<1>8. ShortCheck(h) => hook[h].head \in published  BY DEF ShortCheck, Reviewed, Marked
<1>9. QED
  BY <1>2, <1>3, <1>4, <1>5, <1>6, <1>7, <1>8, StepsAside, StepsCreate DEF Webhook, Holding

(* The run publishes for the head of the check.                            *)
LEMMA RunReviewed ==
    ASSUME WellFormed, Reviewed, Reviewer \/ RunBroken
    PROVE  Reviewed'
<1> USE Ids
<1>1. /\ UNCHANGED <<checks, hook>> /\ published \subseteq published' /\ causes \subseteq causes'
      /\ meta'.check = meta.check /\ meta'.pending = meta.pending
  BY RunWorks, RunAdvances, RunFinishes, RunBreaks DEF Reviewer, Working
<1>2. SameHeads /\ Target' = Target  BY <1>1 DEF SameHeads, Target, Tracked
<1>3. Marked'  BY <1>1 DEF Reviewed, Marked
<1>4. SUFFICES ASSUME Without({"crossed"})' PROVE Vouched' /\ Aimed' /\ Kept' /\ Bound'
  BY <1>3 DEF Reviewed
<1>5. Vouched /\ Aimed /\ Kept /\ Bound /\ "crossed" \notin causes'
  BY <1>1, <1>4, Uncrossed DEF Reviewed
<1>6. Vouched'  BY <1>1, <1>5 DEF Vouched
<1>7. Kept'  BY <1>1, <1>2, <1>5 DEF Kept, Covered
<1>8. Aimed'
  <2>1. CASE Working
    BY <1>2, <1>5, <2>1 DEF Working, Aimed, Target
  <2>2. CASE Advance
    BY <1>2, <1>5, <2>2, RunAdvances DEF Aimed, Publishing
  <2>3. CASE run'.at \in {"none", "working", "close"}
    BY <2>3 DEF Aimed, Publishing
  <2>4. QED  BY <2>1, <2>2, <2>3, RunWorks, RunFinishes, RunBreaks DEF Reviewer
<1>9. Bound'
  <2>1. CASE Advance
    <3>1. Target \subseteq {run.want} /\ published' = published \union {run.want}
      BY <1>5, <2>1, RunAdvances DEF Aimed, Publishing
    <3>2. Covered'  BY <1>2, <3>1 DEF Covered
    <3>3. settler'["run"].at = "read" /\ settler'["webhook"] = settler["webhook"]
      BY <2>1, RunAdvances
    <3>4. QED  BY <1>1, <1>2, <1>5, <3>2, <3>3, ReviewedBound DEF Bound, Settlers
  <2>2. CASE \A s \in Settlers : settler'[s] = settler[s] \/ settler'[s].at \in {"idle", "due"}
    BY <1>1, <1>2, <1>5, <2>2, ReviewedBound DEF Bound
  <2>3. QED  BY <2>1, <2>2, RunWorks, RunFinishes, RunBreaks DEF Reviewer, Working, Settlers
<1>10. QED  BY <1>6, <1>7, <1>8, <1>9

(* A settlement brings the success to the head it was for.                 *)
LEMMA SettlerReviewed ==
    ASSUME WellFormed, Reviewed, NEW s \in Settlers, Settle(s) \/ SettlerBroken(s)
    PROVE  Reviewed'
<1> USE Ids
<1>1. ASSUME SameHeads, UNCHANGED <<hook, published>>, causes \subseteq causes',
             meta'.check \in {0, meta.check}, Returns(s) \/ UNCHANGED run,
             \A o \in Settlers \ {s} : settler'[o] = settler[o],
             Vouched /\ Bound => Vouched',
             Kept /\ Bound => Kept',
             Kept /\ Bound => (settler'[s].at \notin {"idle", "due"} /\ settler'[s].result = "success" =>
               /\ Covered'
               /\ settler'[s].at # "read" => checks'[settler'[s].check].head \in published')
      PROVE  Reviewed'
  <2>1. Marked'  BY <1>1 DEF Reviewed, Marked
  <2>2. SUFFICES ASSUME Without({"crossed"})' PROVE Vouched' /\ Aimed' /\ Kept' /\ Bound'
    BY <2>1 DEF Reviewed
  <2>3. Vouched /\ Aimed /\ Kept /\ Bound  BY <1>1, <2>2, Uncrossed DEF Reviewed
  <2>4. Target' \subseteq Target  BY <1>1, TargetKept
  <2>5. run' = run \/ run'.at \in {"working", "none"}  BY <1>1 DEF Returns
  <2>6. Aimed'  BY <2>3, <2>4, <2>5 DEF Aimed, Publishing
  <2>7. ASSUME NEW o \in Settlers \ {s}
        PROVE  settler'[o].at \notin {"idle", "due"} /\ settler'[o].result = "success" =>
                 /\ Covered'
                 /\ settler'[o].at # "read" => checks'[settler'[o].check].head \in published'
    BY <1>1, <2>3, ReviewedBound
  <2>8. Bound'  BY <1>1, <2>3, <2>7 DEF Bound
  <2>9. QED  BY <1>1, <2>3, <2>6, <2>8
<1>2. UNCHANGED checks => SameHeads /\ (UNCHANGED published => (Vouched => Vouched'))
  BY DEF SameHeads, Vouched
<1>3. CASE Fetch(s)
  <2>1. /\ UNCHANGED <<checks, hook, meta, published>> /\ causes \subseteq causes'
        /\ (Returns(s) \/ UNCHANGED run) /\ \A o \in Settlers \ {s} : settler'[o] = settler[o]
        /\ \/ settler'[s].at = "idle"
           \/ /\ settler'[s].at = "read"
              /\ settler'[s].result = IF meta.pending = "none" THEN "neutral" ELSE meta.pending
    BY <1>3, Fetches DEF Returns
  <2>2. Target' = Target  BY <2>1 DEF Target, Tracked
  <2>3. Kept => Kept'  BY <2>1, <2>2 DEF Kept, Covered
  <2>4. Kept => (settler'[s].at = "read" /\ settler'[s].result = "success" => Covered')
    BY <2>1, <2>2 DEF Kept, Covered
  <2>5. QED  BY <1>1, <1>2, <2>1, <2>3, <2>4
<1>4. CASE ReadCheck(s)
  <2>1. /\ UNCHANGED <<checks, hook, meta, published>> /\ causes \subseteq causes'
        /\ (Returns(s) \/ UNCHANGED run) /\ \A o \in Settlers \ {s} : settler'[o] = settler[o]
        /\ settler[s].at = "read"
        /\ \/ settler'[s].at = "idle"
           \/ /\ meta.check # 0 /\ settler'[s].check = meta.check
              /\ settler'[s].result = settler[s].result
    BY <1>4, Reads DEF Returns
  <2>2. Target' = Target  BY <2>1 DEF Target, Tracked
  <2>3. Kept => Kept'  BY <2>1, <2>2 DEF Kept, Covered
  <2>4. Bound /\ settler'[s].at # "idle" /\ settler'[s].result = "success" =>
          Covered' /\ checks'[settler'[s].check].head \in published'
    BY <2>1, <2>2 DEF Bound, Covered, Target, Tracked
  <2>5. QED  BY <1>1, <1>2, <2>1, <2>3, <2>4
<1>5. CASE Patch(s)
  <2> DEFINE k == settler[s].check
             r == settler[s].result
  <2>1. /\ k \in 1..Len(checks) /\ settler[s].at = "patch"
        /\ UNCHANGED <<meta, published, run, hook>>
        /\ settler'[s].check = k /\ settler'[s].result = r
        /\ \A o \in Settlers \ {s} : settler'[o] = settler[o]
        /\ Completes(k, r) \/ UNCHANGED checks
    BY <1>5, Patches
  <2>2. causes \subseteq causes'  BY <1>5, Patches
  <2>3. Bound /\ r = "success" => Covered /\ checks[k].head \in published
    BY <2>1 DEF Bound
  <2> HIDE DEF k, r
  <2>4. SameHeads  BY <2>1 DEF Completes, SameHeads
  <2>5. Target' = Target
    <3>1. meta.check \in 0..Len(checks)  OBVIOUS
    <3>2. meta' = meta  BY <2>1
    <3>3. QED  BY <2>4, <3>1, <3>2 DEF SameHeads, Target, Tracked
  <2>6. Vouched /\ Bound => Vouched'  BY <2>1, <2>3 DEF Vouched, Completes
  <2>7. Kept => Kept'  BY <2>1, <2>5 DEF Kept, Covered
  <2>8. Bound /\ settler'[s].result = "success" =>
           Covered' /\ checks'[settler'[s].check].head \in published'
    BY <2>1, <2>3, <2>4, <2>5 DEF Covered, SameHeads
  <2>9. QED  BY <1>1, <2>1, <2>2, <2>4, <2>6, <2>7, <2>8
<1>6. CASE Clear(s)
  <2>1. Kept'  BY <1>6, Clears DEF Kept
  <2>2. QED  BY <1>1, <1>2, <1>6, <2>1, Clears DEF Returns
<1>7. CASE KeepForRetry(s)
  <2>1. /\ UNCHANGED <<checks, hook, published, causes>> /\ Returns(s)
        /\ settler[s].at = "keep" /\ meta'.check = meta.check
        /\ meta'.pending = settler[s].result
    BY <1>7, Keeps
  <2>2. Bound => Kept'  BY <2>1 DEF Bound, Kept, Covered, Target, Tracked
  <2>3. QED  BY <1>1, <1>2, <2>1, <2>2 DEF Returns
<1>8. CASE SettlerBroken(s)
  <2>1. /\ UNCHANGED <<checks, hook, meta, published>> /\ Returns(s) /\ causes \subseteq causes'
    BY <1>8, SettlerBreaks
  <2>2. Kept => Kept'  BY <2>1 DEF Kept, Covered, Target, Tracked
  <2>3. QED  BY <1>1, <1>2, <2>1, <2>2 DEF Returns
<1>9. QED  BY <1>3, <1>4, <1>5, <1>6, <1>7, <1>8 DEF Settle

(* So every step keeps the worth of a success.                             *)
LEMMA NextReviewed == WellFormed /\ Fresh /\ Reviewed /\ [Next]_vars => Reviewed'
<1>1. Reviewed /\ (Push \/ UNCHANGED vars) => Reviewed'
  BY DEF Push, vars, github, thread, bounds, Reviewed, Marked, Vouched, Aimed, Kept, Bound,
         Covered, Target, Tracked, Without
<1>2. QED  BY <1>1, HookReviewed, RunReviewed, SettlerReviewed DEF Next

(***************************************************************************)
(* A check says "success" only on a head that a review was published for,  *)
(* or whose diff was unchanged, unless a webhook moved the thread on while *)
(* a publication or a settlement was under way (settle_review_check_run    *)
(* with the conclusion that publish_review or the metadata name).          *)
(***************************************************************************)
THEOREM SuccessesReviewed == Spec => []SuccessIsReviewed
<1>1. Init => Reviewed
  BY NoHookType, NoRunType, NotSettlingType
  DEF Init, Reviewed, Marked, Vouched, Aimed, Kept, Bound, Publishing
<1>2. Spec => []Reviewed
  BY <1>1, InitTypes, NextTypes, NextReviewed, FreshAlways, PTL DEF Spec
<1>3. WellFormed /\ Reviewed => SuccessIsReviewed
  <2>1. WellFormed => DOMAIN checks = 1..Len(checks)  BY DEF WellFormed, TypeOK
  <2>2. QED  BY <2>1 DEF Reviewed, Vouched, SuccessIsReviewed
<1>4. QED  BY <1>2, <1>3, FreshAlways, PTL

-----------------------------------------------------------------------------
(* A success stays.                                                        *)

(***************************************************************************)
(* Unless settlements overlapped or broke off halfway, one at a time acts  *)
(* on a check; who brings a "neutral" is alone, is in nobody's way, and    *)
(* has no success before it; and a success that is still tracked is one    *)
(* that the thread's metadata say is pending, or that its settlement is    *)
(* about to clear.                                                         *)
(***************************************************************************)
OneActs == \A s, o \in Acting : s = o

NeutralAlone == \A s \in Settlers :
    settler[s].at \in {"read", "patch", "clear", "keep"} /\ settler[s].result = "neutral" =>
        meta.pending # "success" /\ Acting \subseteq {s}

NothingLost == \A s \in Settlers :
    settler[s].at = "patch" /\ settler[s].result = "neutral" =>
        checks[settler[s].check].result # "success"

Remembered ==
    meta.check # 0 /\ checks[meta.check].result = "success" =>
        \/ meta.pending = "success"
        \/ \E s \in Settlers : settler[s].at \in {"clear", "keep"} /\ settler[s].result = "success"

Confusions == {"torn", "doubled"}
Ordered == OneActs /\ NeutralAlone /\ NothingLost /\ Remembered
Stays == Without(Confusions) => Ordered

(* What was not confused now was not so before.                            *)
LEMMA Unconfused ==
    ASSUME causes \subseteq causes', Without(Confusions)'
    PROVE  Without(Confusions) /\ "torn" \notin causes' /\ "doubled" \notin causes'
  BY DEF Without, Confusions

(* The results of checks that exist stay, as far as somebody knows them.   *)
LEMMA OrderedAside ==
    ASSUME WellFormed, Ordered, meta'.check \in {0, meta.check}, meta'.pending = meta.pending,
           meta.check # 0 => checks'[meta.check] = checks[meta.check],
           \A s \in Acting : checks'[settler[s].check] = checks[settler[s].check],
           \A s \in Settlers :
              \/ settler'[s] = settler[s]
              \/ /\ settler[s].at \notin {"clear", "keep"}
                 /\ \/ settler'[s].at \in {"idle", "due"}
                    \/ settler'[s].at = "read" /\ settler'[s].result = "success"
    PROVE  Ordered'
<1>1. Acting' \subseteq Acting  BY DEF Acting
<1>2. OneActs'  BY <1>1 DEF Ordered, OneActs
<1>3. NeutralAlone'  BY <1>1 DEF Ordered, NeutralAlone
<1>4. NothingLost'
  <2>1. SUFFICES ASSUME NEW s \in Settlers, settler'[s].at = "patch", settler'[s].result = "neutral"
                 PROVE  checks'[settler'[s].check].result # "success"
    BY DEF NothingLost
  <2>2. settler'[s] = settler[s] /\ s \in Acting  BY <2>1 DEF Acting
  <2>3. QED  BY <2>1, <2>2 DEF Ordered, NothingLost
<1>5. Remembered'
  <2>1. SUFFICES ASSUME meta'.check # 0, checks'[meta'.check].result = "success"
                 PROVE  \/ meta'.pending = "success"
                        \/ \E s \in Settlers : /\ settler'[s].at \in {"clear", "keep"}
                                               /\ settler'[s].result = "success"
    BY DEF Remembered
  <2>2. meta.check # 0 /\ checks[meta.check].result = "success"  BY <2>1
  <2>3. CASE meta.pending = "success"  BY <2>3
  <2>4. CASE \E s \in Settlers : settler[s].at \in {"clear", "keep"} /\ settler[s].result = "success"
    BY <2>4
  <2>5. QED  BY <2>2, <2>3, <2>4 DEF Ordered, Remembered
<1>6. QED  BY <1>2, <1>3, <1>4, <1>5 DEF Ordered

(* A webhook completes only the check it holds.                            *)
LEMMA HookStays ==
    ASSUME WellFormed, Fresh, Stays, NEW h \in Hooks,
           Webhook(h) \/ HookBroken(h) \/ \E kind \in Kinds \ {"none"} : Deliver(h, kind)
    PROVE  Stays'
<1> USE Ids
<1>1. ASSUME causes \subseteq causes', UNCHANGED settler,
             meta'.check = meta.check, meta'.pending = meta.pending,
             \A c \in 1..Len(checks) : ~(Holds(h) /\ hook[h].check = c) => checks'[c] = checks[c]
      PROVE  Stays'
  <2>1. meta.check # 0 => checks'[meta.check] = checks[meta.check]
    <3>1. Holds(h) => hook[h].check # meta.check  BY DEF Fresh
    <3>2. QED  BY <1>1, <3>1
  <2>2. \A s \in Acting : checks'[settler[s].check] = checks[settler[s].check]
    <3>1. \A s \in Acting : Holds(h) => hook[h].check # settler[s].check  BY DEF Fresh
    <3>2. QED  BY <1>1, <3>1
  <2>3. Ordered => Ordered'  BY <1>1, <2>1, <2>2, OrderedAside
  <2>4. QED  BY <1>1, <2>3, Unconfused DEF Stays
<1>2. CASE Aside(h)
  BY <1>1, <1>2 DEF Aside
<1>3. ASSUME NEW next \in Holding, Creates(h, next) PROVE Stays'
  BY <1>1, <1>3 DEF Creates, Added
<1>4. CASE ShortEnd(h)
  <2>1. /\ UNCHANGED <<meta, settler>> /\ causes \subseteq causes' /\ Holds(h)
        /\ Completes(hook[h].check, "success") \/ UNCHANGED checks
    BY <1>4, ShortEnds
  <2>2. \A c \in 1..Len(checks) : hook[h].check # c => checks'[c] = checks[c]
    BY <2>1 DEF Completes
  <2>3. QED  BY <1>1, <2>1, <2>2
<1>5. CASE Store(h)
  <2>1. /\ UNCHANGED <<checks, settler>> /\ causes \subseteq causes' /\ Holds(h)
        /\ meta'.check = hook[h].check /\ meta'.pending = meta.pending
    BY <1>5 DEF WellFormed, TypeOK, Metadata, Store, github, Holds, Holding
  <2>2. checks[hook[h].check] = [head |-> hook[h].head, result |-> "open"]  BY <2>1 DEF Fresh
  <2>3. Remembered'  BY <2>1, <2>2 DEF Remembered
  <2>4. Ordered => Ordered'
    BY <2>1, <2>3 DEF Ordered, OneActs, NeutralAlone, NothingLost, Acting
  <2>5. QED  BY <2>1, <2>4, Unconfused DEF Stays
<1>6. CASE Dispatch(h)
  <2>1. /\ settler'["run"].at = "idle" /\ settler'["webhook"] = settler["webhook"]
        /\ UNCHANGED <<checks, meta>> /\ causes \subseteq causes'
        /\ settler["run"].at \in {"clear", "keep"} => "torn" \in causes'
    BY <1>6, RunDispatches
  <2>2. settler["run"].at \notin {"clear", "keep"} /\ Ordered => Ordered'
    BY <2>1, OrderedAside DEF Settlers
  <2>3. QED  BY <2>1, <2>2, Unconfused DEF Stays
<1>7. CASE HookBroken(h)
  <2>1. UNCHANGED <<checks, meta, settler>> /\ causes \subseteq causes'
    BY <1>7 DEF HookBroken, github, thread
  <2>2. QED  BY <1>1, <2>1
<1>8. QED
  BY <1>2, <1>3, <1>4, <1>5, <1>6, <1>7, StepsAside, StepsCreate DEF Webhook, Holding

(* The run begins a settlement with a success.                             *)
LEMMA RunStays ==
    ASSUME WellFormed, Stays, Reviewer \/ RunBroken
    PROVE  Stays'
<1>1. /\ UNCHANGED <<checks, hook>> /\ causes \subseteq causes'
      /\ meta'.check = meta.check /\ meta'.pending = meta.pending
  BY RunWorks, RunAdvances, RunFinishes, RunBreaks DEF Reviewer, Working
<1>2. run.at \in {"settle", "close"} <=> settler["run"].at # "idle"
  BY DEF WellFormed, Linked
<1>3. "torn" \notin causes' => \A s \in Settlers :
        \/ settler'[s] = settler[s]
        \/ /\ settler[s].at \notin {"clear", "keep"}
           /\ \/ settler'[s].at \in {"idle", "due"}
              \/ settler'[s].at = "read" /\ settler'[s].result = "success"
  BY <1>2, RunWorks, RunAdvances, RunFinishes, RunBreaks DEF Reviewer, Working, Settlers
<1>4. "torn" \notin causes' /\ Ordered => Ordered'  BY <1>1, <1>3, OrderedAside
<1>5. QED  BY <1>1, <1>4, Unconfused DEF Stays

(* A settlement that is alone knows of the success before it.              *)
LEMMA SettlerStays ==
    ASSUME WellFormed, Stays, NEW s \in Settlers, Settle(s) \/ SettlerBroken(s)
    PROVE  Stays'
<1> USE Ids
<1>1. CASE Fetch(s)
  <2>1. /\ settler[s].at = "due" /\ UNCHANGED <<checks, meta>> /\ causes \subseteq causes'
        /\ Another(s) => "doubled" \in causes'
        /\ \A o \in Settlers \ {s} : settler'[o] = settler[o]
        /\ \/ settler'[s].at = "idle"
           \/ /\ settler'[s].at = "read"
              /\ settler'[s].result = IF meta.pending = "none" THEN "neutral" ELSE meta.pending
    BY <1>1, Fetches DEF Returns
  <2>2. SUFFICES ASSUME Ordered, ~Another(s) PROVE Ordered'
    BY <2>1, Unconfused DEF Stays
  <2>3. Acting = {} /\ Acting' = {}  BY <2>1, <2>2 DEF Another, Acting
  <2>4. OneActs' /\ NeutralAlone' /\ NothingLost'
    BY <2>1, <2>2, <2>3 DEF OneActs, NeutralAlone, NothingLost, Acting, Another
  <2>5. Remembered'  BY <2>1, <2>2, <2>3 DEF Ordered, Remembered, Acting
  <2>6. QED  BY <2>4, <2>5 DEF Ordered
<1>2. CASE ReadCheck(s)
  <2>1. /\ settler[s].at = "read" /\ UNCHANGED <<checks, meta>> /\ causes \subseteq causes'
        /\ \A o \in Settlers \ {s} : settler'[o] = settler[o]
    BY <1>2, Reads DEF Returns
  <2>2. CASE Returns(s)
    <3>1. Ordered => Ordered'  BY <2>1, <2>2, OrderedAside DEF Returns
    <3>2. QED  BY <2>1, <3>1, Unconfused DEF Stays
  <2>3. CASE /\ meta.check # 0 /\ settler'[s].at = "patch" /\ settler'[s].check = meta.check
             /\ settler'[s].result = settler[s].result
             /\ Another(s) => "doubled" \in causes'
    <3>1. SUFFICES ASSUME Ordered, ~Another(s) PROVE Ordered'
      BY <2>1, <2>3, Unconfused DEF Stays
    <3>2. Acting = {} /\ Acting' = {s}  BY <2>1, <2>3, <3>1 DEF Another, Acting
    <3>3. OneActs'  BY <3>2 DEF OneActs
    <3>4. NeutralAlone'
      BY <2>1, <2>3, <3>1, <3>2 DEF Ordered, NeutralAlone, Another
    <3>5. settler[s].result = "neutral" => checks[meta.check].result # "success"
      BY <2>1, <2>3, <3>1, <3>2 DEF Ordered, NeutralAlone, Remembered, Acting
    <3>6. NothingLost'  BY <2>1, <2>3, <3>1, <3>2, <3>5 DEF NothingLost, Another, Acting
    <3>7. Remembered'
      <4>1. \A o \in Settlers : settler[o].at \notin {"clear", "keep"}  BY <3>2 DEF Acting
      <4>2. QED  BY <2>1, <3>1, <4>1 DEF Ordered, Remembered
    <3>8. QED  BY <3>3, <3>4, <3>6, <3>7 DEF Ordered
  <2>4. QED  BY <1>2, <2>2, <2>3, Reads
<1>3. CASE Patch(s)
  <2> DEFINE k == settler[s].check
             r == settler[s].result
  <2>1. /\ settler[s].at = "patch" /\ k \in 1..Len(checks) /\ r \in Results
        /\ meta' = meta /\ causes \subseteq causes'
        /\ settler'[s].at \in {"clear", "keep"} /\ settler'[s].check = k /\ settler'[s].result = r
        /\ \A o \in Settlers \ {s} : settler'[o] = settler[o]
        /\ Completes(k, r) \/ UNCHANGED checks
    BY <1>3, Patches
  <2>2. SUFFICES ASSUME Ordered PROVE Ordered'
    BY <2>1, Unconfused DEF Stays
  <2>3. Acting = {s} /\ Acting' = {s}
    BY <2>1, <2>2 DEF Ordered, OneActs, Acting
  <2>4. OneActs'  BY <2>3 DEF OneActs
  <2>5. NeutralAlone'  BY <2>1, <2>2, <2>3 DEF Ordered, NeutralAlone
  <2>6. \A o \in Settlers : settler'[o].at # "patch"  BY <2>1, <2>3 DEF Acting
  <2>7. NothingLost'  BY <2>6 DEF NothingLost
  <2>8. r = "neutral" => checks[k].result # "success"  BY <2>1, <2>2 DEF Ordered, NothingLost
  <2>9. \A o \in Settlers : settler[o].at \notin {"clear", "keep"}  BY <2>1, <2>3 DEF Acting
  <2>10. Remembered'
    <3>1. CASE r = "success"  BY <2>1, <3>1 DEF Remembered
    <3>2. CASE r = "neutral"
      <4>1. SUFFICES ASSUME meta.check # 0, checks'[meta.check].result = "success"
                     PROVE  meta.pending = "success"
        BY <2>1 DEF Remembered
      <4>2. checks[meta.check].result = "success"
        <5> HIDE DEF k, r
        <5>1. meta.check \in 1..Len(checks)  BY <4>1
        <5>2. QED  BY <2>1, <2>8, <3>2, <4>1, <5>1 DEF Completes
      <4>3. QED  BY <2>2, <2>9, <4>1, <4>2 DEF Ordered, Remembered
    <3>3. QED  BY <2>1, <3>1, <3>2 DEF Results
  <2>11. QED  BY <2>4, <2>5, <2>7, <2>10 DEF Ordered
<1>4. CASE Clear(s)
  <2>1. /\ UNCHANGED checks /\ meta'.check = 0 /\ meta'.pending = "none" /\ causes \subseteq causes'
        /\ settler'[s].at = "idle" /\ \A o \in Settlers \ {s} : settler'[o] = settler[o]
    BY <1>4, Clears DEF Returns
  <2>2. Acting' \subseteq Acting  BY <2>1 DEF Acting
  <2>3. Ordered => Ordered'
    BY <2>1, <2>2 DEF Ordered, OneActs, NeutralAlone, NothingLost, Remembered
  <2>4. QED  BY <2>1, <2>3, Unconfused DEF Stays
<1>5. CASE KeepForRetry(s)
  <2>1. /\ settler[s].at = "keep" /\ UNCHANGED <<checks, causes>>
        /\ meta'.check = meta.check /\ meta'.pending = settler[s].result
        /\ settler'[s].at = "idle" /\ \A o \in Settlers \ {s} : settler'[o] = settler[o]
    BY <1>5, Keeps DEF Returns
  <2>2. SUFFICES ASSUME Ordered PROVE Ordered'
    BY <2>1 DEF Stays, Without
  <2>3. Acting = {s} /\ Acting' = {}  BY <2>1, <2>2 DEF Ordered, OneActs, Acting
  <2>4. OneActs'  BY <2>3 DEF OneActs
  <2>5. \A o \in Settlers \ {s} : settler[o].at \in {"read", "patch", "clear", "keep"} =>
           settler[o].result # "neutral"
    BY <2>2, <2>3 DEF Ordered, NeutralAlone
  <2>6. NeutralAlone'  BY <2>1, <2>5 DEF NeutralAlone
  <2>7. NothingLost'  BY <2>1, <2>2 DEF Ordered, NothingLost
  <2>8. Remembered'
    <3>1. settler[s].result \in Results  BY DEF WellFormed, TypeOK, SettlerRecords
    <3>2. CASE settler[s].result = "neutral"
      <4>1. meta.pending # "success"  BY <2>1, <2>2, <3>2 DEF Ordered, NeutralAlone
      <4>2. \A o \in Settlers : settler[o].at \in {"clear", "keep"} => settler[o].result = "neutral"
        BY <2>3, <3>2 DEF Acting
      <4>3. QED  BY <2>1, <2>2, <4>1, <4>2 DEF Ordered, Remembered
    <3>3. CASE settler[s].result = "success"  BY <2>1, <3>3 DEF Remembered
    <3>4. QED  BY <3>1, <3>2, <3>3 DEF Results
  <2>9. QED  BY <2>4, <2>6, <2>7, <2>8 DEF Ordered
<1>6. CASE SettlerBroken(s)
  <2>1. /\ UNCHANGED <<checks, meta>> /\ causes \subseteq causes'
        /\ settler'[s].at = "idle" /\ \A o \in Settlers \ {s} : settler'[o] = settler[o]
        /\ settler[s].at \in {"clear", "keep"} => "torn" \in causes'
    BY <1>6, SettlerBreaks DEF Returns
  <2>2. settler[s].at \notin {"clear", "keep"} /\ Ordered => Ordered'
    BY <2>1, OrderedAside
  <2>3. QED  BY <2>1, <2>2, Unconfused DEF Stays
<1>7. QED  BY <1>1, <1>2, <1>3, <1>4, <1>5, <1>6 DEF Settle

(* So every step keeps the order.                                          *)
LEMMA NextStays == WellFormed /\ Fresh /\ Stays /\ [Next]_vars => Stays'
<1>1. Stays /\ (Push \/ UNCHANGED vars) => Stays'
  BY DEF Push, vars, github, thread, bounds, Stays, Ordered, OneActs, NeutralAlone, NothingLost,
         Remembered, Acting, Without
<1>2. QED  BY <1>1, HookStays, RunStays, SettlerStays DEF Next

(* A step that leaves every check that says "success" as it is.            *)
LEMMA StepStays ==
    ASSUME WellFormed, Fresh, Stays, [Next]_vars, Without(Confusions)',
           NEW c \in 1..Len(checks), checks[c].result = "success"
    PROVE  checks'[c].result = "success"
<1> USE Ids
<1>1. ASSUME NEW h \in Hooks,
             Webhook(h) \/ HookBroken(h) \/ \E kind \in Kinds \ {"none"} : Deliver(h, kind)
      PROVE  checks'[c].result = "success"
  <2>1. CASE Aside(h)  BY <2>1 DEF Aside
  <2>2. CASE Creates(h, "shortEnd") \/ Creates(h, "store")  BY <2>2 DEF Creates, Added
  <2>3. CASE ShortEnd(h)
    <3>1. Completes(hook[h].check, "success") \/ UNCHANGED checks  BY <2>3, ShortEnds
    <3>2. QED  BY <3>1 DEF Completes
  <2>4. CASE Store(h) \/ Dispatch(h) \/ HookBroken(h)
    BY <2>4 DEF Store, Dispatch, HookBroken, github
  <2>5. QED  BY <1>1, <2>1, <2>2, <2>3, <2>4, StepsAside, StepsCreate DEF Webhook
<1>2. CASE Reviewer \/ RunBroken
  BY <1>2, RunWorks, RunAdvances, RunFinishes, RunBreaks DEF Reviewer, Working
<1>3. ASSUME NEW s \in Settlers, Settle(s) \/ SettlerBroken(s)
      PROVE  checks'[c].result = "success"
  <2>1. CASE Patch(s)
    <3>1. causes \subseteq causes' /\ settler[s].at = "patch" /\ settler[s].result \in Results
      BY <2>1, Patches
    <3>2. settler[s].result = "neutral" => checks[settler[s].check].result # "success"
      BY <3>1, Unconfused DEF Stays, Ordered, NothingLost
    <3>3. Completes(settler[s].check, settler[s].result) \/ UNCHANGED checks  BY <2>1, Patches
    <3>4. QED  BY <3>1, <3>2, <3>3 DEF Completes, Results
  <2>2. CASE Fetch(s) \/ ReadCheck(s) \/ Clear(s) \/ KeepForRetry(s) \/ SettlerBroken(s)
    BY <2>2 DEF Fetch, ReadCheck, Clear, KeepForRetry, SettlerBroken, github
  <2>3. QED  BY <1>3, <2>1, <2>2 DEF Settle
<1>4. CASE Push \/ UNCHANGED vars
  BY <1>4 DEF Push, vars, github
<1>5. QED  BY <1>1, <1>2, <1>3, <1>4 DEF Next

(***************************************************************************)
(* A published review is not misreported afterwards as incomplete, unless  *)
(* a settlement broke off halfway or two overlapped: no step makes another *)
(* result of a success (settle_review_check_run).                          *)
(***************************************************************************)
THEOREM SuccessesStay == Spec => SuccessStays
<1>1. Init => Stays
  BY NotSettlingType
  DEF Init, Stays, Ordered, OneActs, NeutralAlone, NothingLost, Remembered, Acting
<1>2. Spec => []Stays
  BY <1>1, InitTypes, NextTypes, NextStays, FreshAlways, PTL DEF Spec
<1>3. WellFormed /\ Fresh /\ Stays /\ [Next]_vars =>
        [Without({"torn", "doubled"})' =>
            \A c \in DOMAIN checks :
                checks[c].result = "success" => checks'[c].result = "success"]_vars
  <2>1. WellFormed => DOMAIN checks = 1..Len(checks)  BY DEF WellFormed, TypeOK
  <2>2. QED  BY <2>1, StepStays DEF Confusions
<1>4. QED  BY <1>2, <1>3, FreshAlways, PTL DEF Spec, SuccessStays
=============================================================================
