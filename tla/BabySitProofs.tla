----------------------------- MODULE BabySitProofs -----------------------------
(***************************************************************************)
(* Proofs about BabySit, for any operations under way at a time, any agent *)
(* threads, limits and bounds, and whatever GitHub says of the checks.     *)
(***************************************************************************)
EXTENDS BabySit, TLAPS

-----------------------------------------------------------------------------
(* Watches.                                                                *)

(* What an evaluation does not change, and what tells failures apart.      *)
SameWatch(v, w) == v.status = w.status /\ v.thread = w.thread /\ v.cron = w.cron
SameAim(v, w) == v.head = w.head /\ v.retries = w.retries
Alike(v, w) == SameWatch(v, w) /\ SameAim(v, w) /\ v.keys = w.keys

(* The fields of a watch.                                                  *)
LEMMA Fields ==
    ASSUME NEW w \in Watches
    PROVE  /\ w.status \in {"active", "inactive"} /\ w.thread \in Threads /\ w.head \in 1..MaxHeads
           /\ w.retries \in 0..MaxRetries /\ w.keys \subseteq Tries
           /\ w.settled \in {"no", "seen", "ripe"} /\ w.errors \in 0..MaxErrors /\ w.cron \in Nat
  BY DEF Watches, Heads

(* Updates of one field.                                                   *)
LEMMA NewErrors ==
    ASSUME NEW w \in Watches, NEW e \in 0..MaxErrors
    PROVE  LET v == [w EXCEPT !.errors = e] IN
           v \in Watches /\ Alike(v, w) /\ v.errors = e /\ v.settled = w.settled
  BY DEF Watches, Alike, SameWatch, SameAim

(* Of what is known of the checks.                                         *)
LEMMA NewSettled ==
    ASSUME NEW w \in Watches, NEW s \in {"no", "seen", "ripe"}
    PROVE  LET v == [w EXCEPT !.settled = s] IN v \in Watches /\ Alike(v, w)
  BY DEF Watches, Alike, SameWatch, SameAim

(* Of the dispatch keys.                                                   *)
LEMMA NewKeys ==
    ASSUME NEW w \in Watches, NEW ks \in SUBSET Tries
    PROVE  LET v == [w EXCEPT !.keys = ks] IN
           v \in Watches /\ SameWatch(v, w) /\ SameAim(v, w) /\ v.keys = ks
  BY DEF Watches, SameWatch, SameAim

(* Of the count of reruns.                                                 *)
LEMMA NewRetries ==
    ASSUME NEW w \in Watches, NEW n \in 0..MaxRetries
    PROVE  LET v == [w EXCEPT !.retries = n] IN
           v \in Watches /\ SameWatch(v, w) /\ v.head = w.head /\ v.retries = n /\ v.keys = w.keys
  BY DEF Watches, SameWatch

(* Of the status.                                                          *)
LEMMA NewStatus ==
    ASSUME NEW w \in Watches
    PROVE  LET v == [w EXCEPT !.status = "inactive"] IN
           /\ v \in Watches /\ v.status = "inactive" /\ v.thread = w.thread /\ v.cron = w.cron
           /\ SameAim(v, w) /\ v.keys = w.keys
  BY DEF Watches, SameAim

(* Of the cron.                                                            *)
LEMMA NewCron ==
    ASSUME NEW w \in Watches, NEW c \in Nat
    PROVE  LET v == [w EXCEPT !.cron = c] IN
           /\ v \in Watches /\ v.status = w.status /\ v.thread = w.thread /\ v.cron = c
           /\ SameAim(v, w) /\ v.keys = w.keys
  BY DEF Watches, SameAim

(* A new head starts over.                                                 *)
LEMMA RefreshedWatch ==
    ASSUME NEW w \in Watches, head \in Heads
    PROVE  LET v == Refreshed(w) IN
           /\ v \in Watches /\ SameWatch(v, w) /\ v.head = head
           /\ w.head = head => v.retries = w.retries /\ v.keys = w.keys
<1>1. CASE head = w.head
  BY <1>1 DEF Refreshed, SameWatch
<1>2. CASE head # w.head
  <2> DEFINE v == [w EXCEPT !.head = head, !.retries = 0, !.keys = {}, !.settled = "no"]
  <2>1. 0 \in 0..MaxRetries  BY BoundsAssumption
  <2>2. v \in Watches /\ SameWatch(v, w) /\ v.head = head
    BY <2>1 DEF Watches, SameWatch
  <2>3. QED  BY <1>2, <2>2 DEF Refreshed
<1>3. QED  BY <1>1, <1>2

(* A start makes a new watch, or takes over what there is.                 *)
LEMMA StartedWatch ==
    ASSUME NEW t \in Threads, head \in Heads
    PROVE  LET v == NewWatch(t) IN
           v \in Watches /\ v.status = "active" /\ v.head = head /\ v.cron = 0
  BY BoundsAssumption DEF Watches, NewWatch, Heads

(* What it takes over: the cron, and what belongs to the head.             *)
LEMMA TakenOverWatch ==
    ASSUME NEW new \in Watches, NEW old \in Watches
    PROVE  LET v == TakenOver(new, old) IN
           /\ v \in Watches /\ v.status = new.status /\ v.thread = new.thread
           /\ v.head = new.head /\ v.cron = old.cron
           /\ new.head = old.head => v.retries = old.retries /\ v.keys = old.keys
<1>1. CASE new.head # old.head
  BY <1>1 DEF Watches, TakenOver
<1>2. CASE new.head = old.head
  BY <1>2 DEF Watches, TakenOver
<1>3. QED  BY <1>1, <1>2

-----------------------------------------------------------------------------
(* The steps operations are made of.                                       *)

(* One operation goes to a stage with some copy; the others stay.          *)
Placing(p, a, m) ==
    /\ at' \in [Procs -> Stages] /\ mine' \in [Procs -> SUBSET Watches]
    /\ at'[p] = a /\ mine'[p] = m
    /\ \A q \in Procs \ {p} : at'[q] = at[q] /\ mine'[q] = mine[q]

(* It notes what has been written since it read.                           *)
Noting(p, o) ==
    /\ outdated' \in [Procs -> SUBSET {"locked", "unlocked"}]
    /\ outdated'[p] = o
    /\ \A q \in Procs \ {p} : outdated'[q] = outdated[q]

(* Where an operation goes that returns.                                   *)
Home(p) == IF p \in inside THEN "release" ELSE "idle"

(* It goes on with the copy it has.                                        *)
LEMMA GoesOn ==
    ASSUME TypeOK, NEW p \in Procs, NEW a \in Stages, Goto(p, a), UNCHANGED mine
    PROVE  Placing(p, a, mine[p])
  BY DEF TypeOK, Placing, Goto

(* It goes on with another one, or with none.                              *)
LEMMA GoesOnWith ==
    ASSUME TypeOK, NEW p \in Procs, NEW a \in Stages, NEW m \in SUBSET Watches,
           Goto(p, a), mine' = [mine EXCEPT ![p] = m]
    PROVE  Placing(p, a, m)
  BY DEF TypeOK, Placing, Goto

(* It goes on with one record.                                             *)
LEMMA Keeps ==
    ASSUME TypeOK, NEW p \in Procs, NEW a \in Stages, NEW w \in Watches, Goto(p, a), Keep(p, w)
    PROVE  Placing(p, a, {w})
<1>1. mine' = [mine EXCEPT ![p] = {w}] /\ {w} \in SUBSET Watches  BY DEF Keep
<1>2. QED  BY <1>1, GoesOnWith

(* It has read the watch, or it notes nothing.                             *)
LEMMA Reads == ASSUME TypeOK, NEW p \in Procs, Read(p) PROVE Noting(p, {})
  BY DEF TypeOK, Read, Noting

(* It has not read, and notes what it noted.                               *)
LEMMA NotesNothing == ASSUME TypeOK, NEW p \in Procs, UNCHANGED outdated PROVE Noting(p, outdated[p])
  BY DEF TypeOK, Noting

(* It returns, and forgets its copy.                                       *)
LEMMA Returns ==
    ASSUME TypeOK, NEW p \in Procs, Return(p)
    PROVE  Placing(p, Home(p), {}) /\ Noting(p, {}) /\ fresh' = fresh \ {p}
<1>1. Home(p) \in Stages  BY DEF Home, Stages
<1>2. Goto(p, Home(p)) /\ mine' = [mine EXCEPT ![p] = {}] /\ {} \in SUBSET Watches
  BY DEF Return, Home
<1>3. Placing(p, Home(p), {})  BY <1>1, <1>2, GoesOnWith
<1>4. Noting(p, {})  BY Reads DEF Return, Read
<1>5. QED  BY <1>3, <1>4 DEF Return

(* A write leaves the writer up to date, and whoever has a copy outdated.  *)
Wrote(p, contents) ==
    /\ store' = contents /\ outdated' \in [Procs -> SUBSET {"locked", "unlocked"}]
    /\ outdated'[p] = {}
    /\ \A q \in Procs \ {p} :
          outdated'[q] = IF mine[q] # {} THEN outdated[q] \union {Kind(p)} ELSE {}
    /\ causes \subseteq causes' /\ causes' \subseteq causes \union {"race", "clash"}
    /\ "clash" \in causes' <=> "clash" \in causes \/ (p \in inside /\ "locked" \in outdated[p])
    /\ "race" \in causes' <=> \/ "race" \in causes \/ "unlocked" \in outdated[p]
                              \/ p \notin inside /\ outdated[p] # {}

(* That is what Write says.                                                *)
LEMMA Writes ==
    ASSUME TypeOK, NEW p \in Procs, NEW contents, Write(p, contents)
    PROVE  Wrote(p, contents)
<1>1. Kind(p) \in {"locked", "unlocked"}  BY DEF Kind
<1>2. outdated' = [q \in Procs |->
         IF q # p /\ mine[q] # {} THEN outdated[q] \union {Kind(p)} ELSE {}]
  BY DEF Write
<1>3. \A q \in Procs : outdated[q] \subseteq {"locked", "unlocked"}  BY DEF TypeOK
<1> HIDE DEF Kind
<1>4. outdated' \in [Procs -> SUBSET {"locked", "unlocked"}]  BY <1>1, <1>2, <1>3
<1>5. /\ outdated'[p] = {}
      /\ \A q \in Procs \ {p} :
            outdated'[q] = IF mine[q] # {} THEN outdated[q] \union {Kind(p)} ELSE {}
  BY <1>2
<1>6. /\ causes \subseteq causes' /\ causes' \subseteq causes \union {"race", "clash"}
      /\ "clash" \in causes' <=> "clash" \in causes \/ (p \in inside /\ "locked" \in outdated[p])
      /\ "race" \in causes' <=> \/ "race" \in causes \/ "unlocked" \in outdated[p]
                                \/ p \notin inside /\ outdated[p] # {}
  BY DEF Write, When
<1>7. store' = contents  BY DEF Write
<1>8. QED  BY <1>4, <1>5, <1>6, <1>7 DEF Wrote

(* The bounds are kept.                                                    *)
LEMMA FaultTypes == TypeOK /\ Fault => faults' \in 0..MaxFaults
  BY BoundsAssumption DEF TypeOK, Fault

(* So is the one on the calls.                                             *)
LEMMA CallTypes == TypeOK /\ OneCall => calls' \in 0..MaxCalls
  BY BoundsAssumption DEF TypeOK, OneCall

-----------------------------------------------------------------------------
(* What each step does.                                                    *)

Others == <<head, ci, store, crons, created, lock, inside, sent, reruns>>

(* An operation reads the watch and goes on with the record it found.      *)
Found(p, a, w) ==
    w \in store /\ Placing(p, a, {w}) /\ Noting(p, {}) /\ fresh' = fresh

(* It returns.                                                             *)
Left(p) == Placing(p, Home(p), {}) /\ Noting(p, {}) /\ fresh' = fresh \ {p}

(* What the store has is a watch.                                          *)
LEMMA StoreTypes == TypeOK => \A w \in store : w \in Watches
  BY DEF TypeOK

(* What an operation has is one.                                           *)
LEMMA CopyTypes == ASSUME TypeOK, NEW p \in Procs PROVE \A w \in mine[p] : w \in Watches
  BY DEF TypeOK

(* That is what get_watch and Keep say.                                    *)
LEMMA Finds ==
    ASSUME TypeOK, NEW p \in Procs, NEW a \in Stages, NEW w \in store,
           Goto(p, a), Keep(p, w), Read(p), UNCHANGED fresh
    PROVE  Found(p, a, w)
  BY StoreTypes, Keeps, Reads DEF Found

(* And this is what Return says.                                           *)
LEMMA Leaves == ASSUME TypeOK, NEW p \in Procs, Return(p) PROVE Left(p)
  BY Returns DEF Left

(* Taking the lock.                                                        *)
Took(p, a) ==
    /\ at[p] = "idle" /\ lock = "free" /\ lock' = "held" /\ inside' = inside \union {p}
    /\ Placing(p, a, mine[p])
    /\ UNCHANGED <<head, ci, store, crons, created, fresh, outdated, sent, reruns, causes>>

(* The lock is taken by an evaluation, a webhook or a rerun.               *)
LEMMA TakeStep ==
    ASSUME TypeOK, NEW p \in Procs, Tick(p) \/ Webhook(p) \/ RetryCall(p)
    PROVE  TypeOK' /\ \E a \in {"load", "stamp", "retryGet"} : Took(p, a)
<1>1. PICK a \in {"load", "stamp", "retryGet"} :
        /\ Take(p, a)
        /\ UNCHANGED <<project, store, platform, mine, fresh, outdated, history, bounds, causes>>
  BY DEF Tick, Webhook, RetryCall
<1>2. Placing(p, a, mine[p])  BY <1>1, GoesOn DEF Take, Stages
<1>3. Took(p, a)  BY <1>1, <1>2 DEF Take, Took, project, platform, history
<1>4. TypeOK'
  BY <1>1, <1>2 DEF TypeOK, Take, Placing, project, platform, history, bounds
<1>5. QED  BY <1>3, <1>4

(* Reading the watch for the webhook.                                      *)
LEMMA StampStep ==
    ASSUME TypeOK, NEW p \in Procs, Stamp(p)
    PROVE  /\ TypeOK' /\ at[p] = "stamp" /\ UNCHANGED Others /\ UNCHANGED causes
           /\ Left(p) \/ \E w \in store : Found(p, "stampSave", w)
<1>1. Left(p) \/ \E w \in store : Found(p, "stampSave", w)
  BY Leaves, Finds DEF Stamp, Stages
<1>2. at[p] = "stamp" /\ UNCHANGED Others /\ UNCHANGED <<calls, causes>>
  BY DEF Stamp, project, platform, history, Others
<1>3. faults' \in 0..MaxFaults  BY FaultTypes DEF Stamp, TypeOK
<1>4. /\ at' \in [Procs -> Stages] /\ mine' \in [Procs -> SUBSET Watches]
      /\ outdated' \in [Procs -> SUBSET {"locked", "unlocked"}] /\ fresh' \in SUBSET Procs
  BY <1>1 DEF Left, Found, Placing, Noting, TypeOK
<1>5. TypeOK'  BY <1>2, <1>3, <1>4 DEF TypeOK, Others
<1>6. QED  BY <1>1, <1>2, <1>5

(* Reading it for the evaluation.                                          *)
LEMMA LoadStep ==
    ASSUME TypeOK, NEW p \in Procs, Load(p)
    PROVE  /\ TypeOK' /\ at[p] = "load" /\ UNCHANGED Others /\ UNCHANGED causes
           /\ Left(p) \/ \E w \in store, a \in {"look", "stopGet"} : Found(p, a, w)
<1>1. Left(p) \/ \E w \in store, a \in {"look", "stopGet"} : Found(p, a, w)
  BY Leaves, Finds DEF Load, Stages
<1>2. at[p] = "load" /\ UNCHANGED Others /\ UNCHANGED <<calls, faults, causes>>
  BY DEF Load, project, platform, history, bounds, Others
<1>3. /\ at' \in [Procs -> Stages] /\ mine' \in [Procs -> SUBSET Watches]
      /\ outdated' \in [Procs -> SUBSET {"locked", "unlocked"}] /\ fresh' \in SUBSET Procs
  BY <1>1 DEF Left, Found, Placing, Noting, TypeOK
<1>4. TypeOK'  BY <1>2, <1>3 DEF TypeOK, Others
<1>5. QED  BY <1>1, <1>2, <1>4

(* Reading it to stop the watch.                                           *)
LEMMA StopGetStep ==
    ASSUME TypeOK, NEW p \in Procs, StopGet(p)
    PROVE  /\ TypeOK' /\ at[p] = "stopGet" /\ UNCHANGED Others /\ UNCHANGED causes
           /\ \/ Left(p)
              \/ \E w \in store : w.cron = 0 /\ Found(p, "stopDelete", w)
              \/ \E w \in store : w.cron # 0 /\ Found(p, "stopCron", w)
<1>1. \/ Left(p)
      \/ \E w \in store : w.cron = 0 /\ Found(p, "stopDelete", w)
      \/ \E w \in store : w.cron # 0 /\ Found(p, "stopCron", w)
  BY Leaves, Finds DEF StopGet, Stages
<1>2. at[p] = "stopGet" /\ UNCHANGED Others /\ UNCHANGED <<calls, faults, causes>>
  BY DEF StopGet, project, platform, history, bounds, Others
<1>3. /\ at' \in [Procs -> Stages] /\ mine' \in [Procs -> SUBSET Watches]
      /\ outdated' \in [Procs -> SUBSET {"locked", "unlocked"}] /\ fresh' \in SUBSET Procs
  BY <1>1 DEF Left, Found, Placing, Noting, TypeOK
<1>4. TypeOK'  BY <1>2, <1>3 DEF TypeOK, Others
<1>5. QED  BY <1>1, <1>2, <1>4

(* Reading it to record a rerun.                                           *)
LEMMA RetryGetStep ==
    ASSUME TypeOK, NEW p \in Procs, RetryGet(p)
    PROVE  /\ TypeOK' /\ at[p] = "retryGet" /\ UNCHANGED Others /\ UNCHANGED causes
           /\ \/ Left(p)
              \/ \E w \in store, v \in Watches :
                    /\ Placing(p, "retrySave", {v}) /\ Noting(p, {}) /\ fresh' = fresh
                    /\ SameWatch(v, w) /\ v.head = w.head /\ v.retries = w.retries + 1
                    /\ v.keys = w.keys
<1>1. ASSUME NEW w \in store, w.retries < MaxRetries, Keep(p, [w EXCEPT !.retries = @ + 1]),
             Read(p), Goto(p, "retrySave")
      PROVE  \E v \in Watches :
                    /\ Placing(p, "retrySave", {v}) /\ Noting(p, {})
                    /\ SameWatch(v, w) /\ v.head = w.head /\ v.retries = w.retries + 1
                    /\ v.keys = w.keys
  <2> DEFINE n == w.retries + 1
             v == [w EXCEPT !.retries = n]
  <2>1. w \in Watches  BY StoreTypes
  <2>2. n \in 0..MaxRetries  BY <1>1, <2>1, Fields, BoundsAssumption
  <2>3. Keep(p, v)  BY <1>1
  <2> HIDE DEF n
  <2>4. v \in Watches /\ SameWatch(v, w) /\ v.head = w.head /\ v.retries = n /\ v.keys = w.keys
    BY <2>1, <2>2, NewRetries
  <2> HIDE DEF v
  <2>5. Placing(p, "retrySave", {v})  BY <1>1, <2>3, <2>4, Keeps DEF Stages
  <2>6. Noting(p, {})  BY <1>1, Reads
  <2>7. QED  BY <2>4, <2>5, <2>6 DEF n
<1>2. \/ Left(p)
      \/ \E w \in store, v \in Watches :
            /\ Placing(p, "retrySave", {v}) /\ Noting(p, {}) /\ fresh' = fresh
            /\ SameWatch(v, w) /\ v.head = w.head /\ v.retries = w.retries + 1
            /\ v.keys = w.keys
  BY <1>1, Leaves DEF RetryGet
<1>3. at[p] = "retryGet" /\ UNCHANGED Others /\ UNCHANGED <<calls, faults, causes>>
  BY DEF RetryGet, project, platform, history, bounds, Others
<1>4. /\ at' \in [Procs -> Stages] /\ mine' \in [Procs -> SUBSET Watches]
      /\ outdated' \in [Procs -> SUBSET {"locked", "unlocked"}] /\ fresh' \in SUBSET Procs
  BY <1>2 DEF Left, Placing, Noting, TypeOK
<1>5. TypeOK'  BY <1>3, <1>4 DEF TypeOK, Others
<1>6. QED  BY <1>2, <1>3, <1>5

(* An evaluation works on its copy: the same one, or one for a new head.   *)
Aimed(v, w) == (v.head = head /\ head # w.head) \/ (SameAim(v, w) /\ v.keys = w.keys)

(* One with a new key: the agent is about to be told.                      *)
Keyed(v, w) ==
    /\ v.retries < MaxRetries /\ v.retries \in v.keys
    /\ \/ v.head = head /\ head # w.head
       \/ SameAim(v, w) /\ v.retries \notin w.keys /\ v.keys = w.keys \union {v.retries}

Looked(p, v, w) ==
    /\ w \in mine[p] /\ v \in Watches /\ SameWatch(v, w)
    /\ \/ Placing(p, "stopGet", {v}) /\ v.head \in {w.head, head}
       \/ Placing(p, "save", {v}) /\ Aimed(v, w)
       \/ Placing(p, "saveEnd", {v}) /\ Aimed(v, w)
       \/ Placing(p, "saveKey", {v}) /\ Keyed(v, w)

(* What the aim depends on.                                                *)
LEMMA LikeAimed ==
    ASSUME NEW u, NEW v, NEW w, SameWatch(u, w), Aimed(u, w), Alike(v, u)
    PROVE  SameWatch(v, w) /\ Aimed(v, w)
  BY DEF Aimed, Alike, SameWatch, SameAim

(* Failing to see the pull request changes the errors.                     *)
LEMMA BlindLooks ==
    ASSUME TypeOK, NEW p \in Procs, NEW w \in mine[p], NEW u \in Watches,
           SameWatch(u, w), Aimed(u, w), Blind(p, u)
    PROVE  \E v \in Watches : Looked(p, v, w)
<1>1. ASSUME NEW e \in 0..MaxErrors, NEW a \in {"save", "saveEnd"},
             Keep(p, [u EXCEPT !.errors = e]), Goto(p, a)
      PROVE  \E v \in Watches : Looked(p, v, w)
  <2> DEFINE v == [u EXCEPT !.errors = e]
  <2>1. v \in Watches /\ Alike(v, u)  BY NewErrors
  <2>2. Keep(p, v)  BY <1>1
  <2> HIDE DEF v
  <2>3. Placing(p, a, {v})  BY <1>1, <2>1, <2>2, Keeps DEF Stages
  <2>4. SameWatch(v, w) /\ Aimed(v, w)  BY <2>1, LikeAimed
  <2>5. QED  BY <2>1, <2>3, <2>4 DEF Looked
<1>2. u.errors \in 0..MaxErrors  BY Fields
<1>3. CASE /\ u.errors + 1 < MaxErrors
           /\ Keep(p, [u EXCEPT !.errors = @ + 1]) /\ Goto(p, "save")
  <2> DEFINE e == u.errors + 1
  <2>1. e \in 0..MaxErrors  BY <1>2, <1>3, BoundsAssumption
  <2>2. Keep(p, [u EXCEPT !.errors = e]) /\ Goto(p, "save")  BY <1>3
  <2> HIDE DEF e
  <2>3. QED  BY <1>1, <2>1, <2>2
<1>4. CASE Keep(p, [u EXCEPT !.errors = MaxErrors]) /\ Goto(p, "saveEnd")
  <2>1. MaxErrors \in 0..MaxErrors  BY BoundsAssumption
  <2>2. QED  BY <1>1, <1>4, <2>1
<1>5. QED  BY <1>3, <1>4 DEF Blind

(* Seeing its checks changes what is known of them, or the keys.           *)
LEMMA JudgeLooks ==
    ASSUME TypeOK, NEW p \in Procs, NEW w \in mine[p], NEW u \in Watches,
           SameWatch(u, w), Aimed(u, w), Judge(p, u)
    PROVE  \E v \in Watches : Looked(p, v, w)
<1>1. ASSUME NEW s \in {"no", "seen", "ripe"}, Keep(p, [u EXCEPT !.settled = s]), Goto(p, "save")
      PROVE  \E v \in Watches : Looked(p, v, w)
  <2> DEFINE v == [u EXCEPT !.settled = s]
  <2>1. v \in Watches /\ Alike(v, u)  BY NewSettled
  <2>2. Keep(p, v)  BY <1>1
  <2> HIDE DEF v
  <2>3. Placing(p, "save", {v})  BY <1>1, <2>1, <2>2, Keeps DEF Stages
  <2>4. SameWatch(v, w) /\ Aimed(v, w)  BY <2>1, LikeAimed
  <2>5. QED  BY <2>1, <2>3, <2>4 DEF Looked
<1>2. ASSUME NEW a \in {"save", "stopGet"}, Keep(p, u), Goto(p, a)
      PROVE  \E v \in Watches : Looked(p, v, w)
  <2>1. Placing(p, a, {u})  BY <1>2, Keeps DEF Stages
  <2>2. u.head \in {w.head, head}  BY DEF Aimed, SameAim
  <2>3. QED  BY <2>1, <2>2 DEF Looked
<1>3. ASSUME u.retries < MaxRetries, u.retries \notin u.keys,
             Keep(p, [u EXCEPT !.keys = @ \union {u.retries}]), Goto(p, "saveKey")
      PROVE  \E v \in Watches : Looked(p, v, w)
  <2> DEFINE ks == u.keys \union {u.retries}
             v == [u EXCEPT !.keys = ks]
  <2>1. u.retries \in 0..MaxRetries /\ u.keys \subseteq Tries  BY Fields
  <2>2. u.retries \in Tries  BY <1>3, <2>1, BoundsAssumption DEF Tries
  <2>3. ks \in SUBSET Tries  BY <2>1, <2>2
  <2>4. Keep(p, v)  BY <1>3
  <2>5. u.retries \in ks /\ ks = u.keys \union {u.retries}  OBVIOUS
  <2> HIDE DEF ks
  <2>6. v \in Watches /\ SameWatch(v, u) /\ SameAim(v, u) /\ v.keys = ks
    BY <2>3, NewKeys
  <2> HIDE DEF v
  <2>7. Placing(p, "saveKey", {v})  BY <1>3, <2>4, <2>6, Keeps DEF Stages
  <2>8. SameWatch(v, w) /\ Keyed(v, w)
    BY <1>3, <2>5, <2>6 DEF Keyed, Aimed, SameWatch, SameAim
  <2>9. QED  BY <2>6, <2>7, <2>8 DEF Looked
<1>4. \/ Keep(p, [u EXCEPT !.settled = "no"]) /\ Goto(p, "save")
      \/ Keep(p, [u EXCEPT !.settled = "seen"]) /\ Goto(p, "save")
      \/ Keep(p, u) /\ Goto(p, "stopGet")
      \/ Keep(p, u) /\ Goto(p, "save")
      \/ /\ u.retries < MaxRetries /\ u.retries \notin u.keys
         /\ Keep(p, [u EXCEPT !.keys = @ \union {u.retries}]) /\ Goto(p, "saveKey")
  BY DEF Judge
<1>5. CASE Keep(p, [u EXCEPT !.settled = "no"]) /\ Goto(p, "save")  BY <1>1, <1>5
<1>6. CASE Keep(p, [u EXCEPT !.settled = "seen"]) /\ Goto(p, "save")  BY <1>1, <1>6
<1>7. QED  BY <1>2, <1>3, <1>4, <1>5, <1>6

(* The evaluation looks at the pull request.                               *)
LEMMA LookStep ==
    ASSUME TypeOK, NEW p \in Procs, Look(p)
    PROVE  /\ TypeOK' /\ at[p] = "look" /\ UNCHANGED Others
           /\ UNCHANGED <<fresh, outdated, causes>>
           /\ \/ Placing(p, "stopGet", mine[p])
              \/ \E w \in mine[p], v \in Watches : Looked(p, v, w)
<1>1. PICK w \in mine[p] :
          \/ Blind(p, w)
          \/ Goto(p, "stopGet") /\ UNCHANGED mine
          \/ Blind(p, Refreshed(w))
          \/ Judge(p, [Refreshed(w) EXCEPT !.errors = 0])
  BY DEF Look
<1>2. w \in Watches /\ head \in Heads  BY CopyTypes DEF TypeOK
<1>3. ASSUME Blind(p, w) PROVE \E v \in Watches : Looked(p, v, w)
  <2>1. SameWatch(w, w) /\ Aimed(w, w)  BY DEF SameWatch, Aimed, SameAim
  <2>2. QED  BY <1>2, <1>3, <2>1, BlindLooks
<1>4. Refreshed(w) \in Watches /\ SameWatch(Refreshed(w), w) /\ Aimed(Refreshed(w), w)
  BY <1>2, RefreshedWatch DEF Aimed, SameAim
<1>5. ASSUME Blind(p, Refreshed(w)) PROVE \E v \in Watches : Looked(p, v, w)
  BY <1>4, <1>5, BlindLooks
<1>6. ASSUME Judge(p, [Refreshed(w) EXCEPT !.errors = 0])
      PROVE  \E v \in Watches : Looked(p, v, w)
  <2> DEFINE r == Refreshed(w)
             u == [r EXCEPT !.errors = 0]
  <2>1. 0 \in 0..MaxErrors  BY BoundsAssumption
  <2>2. Judge(p, u)  BY <1>6
  <2> HIDE DEF r
  <2>3. r \in Watches /\ SameWatch(r, w) /\ Aimed(r, w)  BY <1>4 DEF r
  <2>4. u \in Watches /\ Alike(u, r)  BY <2>1, <2>3, NewErrors
  <2> HIDE DEF u
  <2>5. SameWatch(u, w) /\ Aimed(u, w)  BY <2>3, <2>4, LikeAimed
  <2>6. QED  BY <2>2, <2>4, <2>5, JudgeLooks
<1>7. \/ Placing(p, "stopGet", mine[p])
      \/ \E v \in Watches : Looked(p, v, w)
  BY <1>1, <1>3, <1>5, <1>6, GoesOn DEF Stages
<1>8. at[p] = "look" /\ UNCHANGED Others /\ UNCHANGED <<fresh, outdated, calls, faults, causes>>
  BY DEF Look, project, platform, history, bounds, Others
<1>9. at' \in [Procs -> Stages] /\ mine' \in [Procs -> SUBSET Watches]
  BY <1>7 DEF Looked, Placing
<1>10. TypeOK'  BY <1>8, <1>9 DEF TypeOK, Others
<1>11. QED  BY <1>7, <1>8, <1>10

(* The operation writes its copy and goes on with it, or without one.      *)
LEMMA SaveStep ==
    ASSUME TypeOK, NEW p \in Procs, Save(p)
    PROVE  /\ TypeOK' /\ at[p] \in {"save", "forget"}
           /\ Wrote(p, mine[p]) /\ Placing(p, "release", {})
           /\ UNCHANGED <<head, ci, crons, created, lock, inside, fresh, sent, reruns>>
<1>1. Wrote(p, mine[p])  BY Writes DEF Save
<1>2. Placing(p, "release", {})
  <2>1. {} \in SUBSET Watches  OBVIOUS
  <2>2. QED  BY <2>1, GoesOnWith DEF Save, Stages
<1>3. /\ at[p] \in {"save", "forget"}
      /\ UNCHANGED <<head, ci, crons, created, lock, inside, fresh, sent, reruns, calls, faults>>
  BY DEF Save, project, platform, history, bounds
<1>4. TypeOK'  BY <1>1, <1>2, <1>3 DEF TypeOK, Wrote, Placing, Causes
<1>5. QED  BY <1>1, <1>2, <1>3, <1>4

(* The webhook has noted its delivery.                                     *)
LEMMA StampSaveStep ==
    ASSUME TypeOK, NEW p \in Procs, StampSave(p)
    PROVE  /\ TypeOK' /\ at[p] = "stampSave"
           /\ Wrote(p, mine[p]) /\ Placing(p, "load", mine[p])
           /\ UNCHANGED <<head, ci, crons, created, lock, inside, fresh, sent, reruns>>
<1>1. Wrote(p, mine[p])  BY Writes DEF StampSave
<1>2. Placing(p, "load", mine[p])  BY GoesOn DEF StampSave, Stages
<1>3. /\ at[p] = "stampSave"
      /\ UNCHANGED <<head, ci, crons, created, lock, inside, fresh, sent, reruns, calls, faults>>
  BY DEF StampSave, project, platform, history, bounds
<1>4. TypeOK'  BY <1>1, <1>2, <1>3 DEF TypeOK, Wrote, Placing, Causes
<1>5. QED  BY <1>1, <1>2, <1>3, <1>4

(* The key is in the store, or the errors are.                             *)
LEMMA SaveAndGoOnStep ==
    ASSUME TypeOK, NEW p \in Procs, SaveAndGoOn(p)
    PROVE  /\ TypeOK' /\ Wrote(p, mine[p])
           /\ \/ at[p] = "saveEnd" /\ Placing(p, "stopGet", mine[p])
              \/ at[p] = "saveKey" /\ Placing(p, "dispatch", mine[p])
           /\ UNCHANGED <<head, ci, crons, created, lock, inside, fresh, sent, reruns>>
<1>1. Wrote(p, mine[p])  BY Writes DEF SaveAndGoOn
<1>2. \/ at[p] = "saveEnd" /\ Placing(p, "stopGet", mine[p])
      \/ at[p] = "saveKey" /\ Placing(p, "dispatch", mine[p])
  BY GoesOn DEF SaveAndGoOn, Stages
<1>3. UNCHANGED <<head, ci, crons, created, lock, inside, fresh, sent, reruns, calls, faults>>
  BY DEF SaveAndGoOn, project, platform, history, bounds
<1>4. TypeOK'  BY <1>1, <1>2, <1>3 DEF TypeOK, Wrote, Placing, Causes
<1>5. QED  BY <1>1, <1>2, <1>3, <1>4

(* The agent is told: the dispatch counts, and may raise.                  *)
Tells(w) == sent' = [sent EXCEPT ![<<w.head, w.retries>>] = OneMore(@)]

(* dispatch_agent_run answers, or raises.                                  *)
LEMMA DispatchStep ==
    ASSUME TypeOK, NEW p \in Procs, Dispatch(p)
    PROVE  /\ TypeOK' /\ at[p] = "dispatch"
           /\ UNCHANGED <<head, ci, store, crons, created, lock, inside, reruns>>
           /\ causes \subseteq causes' /\ causes' \subseteq causes \union {"race", "error"}
           /\ "unlocked" \in outdated[p] => "race" \in causes'
           /\ \E w \in mine[p] :
                \/ Left(p) /\ Tells(w)
                \/ Placing(p, "undo", mine[p]) /\ Noting(p, outdated[p]) /\ fresh' = fresh
                   /\ (sent' = sent \/ (Tells(w) /\ "error" \in causes'))
<1>1. PICK w \in mine[p], raised \in BOOLEAN :
        /\ Tells(w) \/ (raised /\ UNCHANGED sent)
        /\ causes' = causes \union When("unlocked" \in outdated[p], "race")
                            \union When(raised /\ sent' # sent, "error")
        /\ IF raised THEN Fault /\ Goto(p, "undo") /\ UNCHANGED <<mine, fresh, outdated>>
                     ELSE Return(p) /\ UNCHANGED faults
  BY DEF Dispatch, Tells
<1>2. /\ causes \subseteq causes' /\ causes' \subseteq causes \union {"race", "error"}
      /\ "unlocked" \in outdated[p] => "race" \in causes'
      /\ raised /\ sent' # sent => "error" \in causes'
  BY <1>1 DEF When
<1>3. Tells(w) \/ (raised /\ sent' = sent)  BY <1>1
<1>4. raised => Placing(p, "undo", mine[p]) /\ Noting(p, outdated[p]) /\ fresh' = fresh
  BY <1>1, GoesOn, NotesNothing DEF Stages
<1>5. ~raised => Left(p)  BY <1>1, Leaves
<1>6. at[p] = "dispatch" /\ UNCHANGED <<head, ci, store, crons, created, lock, inside, reruns, calls>>
  BY DEF Dispatch, project, platform
<1>7. faults' \in 0..MaxFaults  BY <1>1, FaultTypes DEF TypeOK
<1>8. sent' \in [Heads \X Tries -> Counts]
  <2>1. CASE sent' = sent  BY <2>1 DEF TypeOK
  <2>2. CASE Tells(w)
    <3> DEFINE x == <<w.head, w.retries>>
    <3>1. sent' = [sent EXCEPT ![x] = OneMore(sent[x])]  BY <2>2 DEF Tells
    <3>2. OneMore(sent[x]) \in Counts  BY DEF OneMore, Counts
    <3> HIDE DEF x
    <3>3. QED  BY <3>1, <3>2 DEF TypeOK
  <2>3. QED  BY <1>3, <2>1, <2>2
<1>9. /\ at' \in [Procs -> Stages] /\ mine' \in [Procs -> SUBSET Watches]
      /\ outdated' \in [Procs -> SUBSET {"locked", "unlocked"}] /\ fresh' \in SUBSET Procs
  BY <1>4, <1>5 DEF Left, Placing, Noting, TypeOK
<1>10. TypeOK'  BY <1>2, <1>6, <1>7, <1>8, <1>9 DEF TypeOK, Causes
<1>11. \/ Left(p) /\ Tells(w)
       \/ Placing(p, "undo", mine[p]) /\ Noting(p, outdated[p]) /\ fresh' = fresh
          /\ (sent' = sent \/ (Tells(w) /\ "error" \in causes'))
  <2>1. CASE raised
    <3>1. sent' = sent \/ (Tells(w) /\ "error" \in causes')
      <4>1. raised /\ sent' # sent => "error" \in causes'  BY <1>2
      <4>2. QED  BY <2>1, <4>1, <1>3
    <3>2. QED  BY <2>1, <3>1, <1>4
  <2>2. CASE ~raised
    <3>1. Tells(w)  BY <2>2, <1>3
    <3>2. QED  BY <2>2, <3>1, <1>5
  <2>3. QED  BY <2>1, <2>2
<1>12. QED  BY <1>2, <1>6, <1>10, <1>11

(* The key is taken back, from the record or from the copy.                *)
LEMMA UndoStep ==
    ASSUME TypeOK, NEW p \in Procs, Undo(p)
    PROVE  /\ TypeOK' /\ at[p] = "undo" /\ UNCHANGED Others /\ fresh' = fresh
           /\ causes \subseteq causes' /\ causes' \subseteq causes \union {"race"}
           /\ "unlocked" \in outdated[p] => "race" \in causes'
           /\ \E w \in mine[p], v \in Watches :
                /\ Placing(p, "forget", {v})
                /\ \/ store = {} /\ Noting(p, outdated[p]) /\ SameWatch(v, w) /\ SameAim(v, w)
                   \/ /\ Noting(p, {})
                      /\ \E u \in store :
                            /\ SameWatch(v, u) /\ SameAim(v, u)
                            /\ \/ v.keys = u.keys
                               \/ u.head = w.head /\ v.keys = u.keys \ {w.retries}
<1>1. PICK w \in mine[p] :
          \/ \E u \in store :
                /\ Keep(p, IF u.head # w.head THEN u ELSE [u EXCEPT !.keys = @ \ {w.retries}])
                /\ Read(p)
          \/ /\ store = {}
             /\ Keep(p, [w EXCEPT !.keys = @ \ {w.retries}])
             /\ UNCHANGED outdated
  BY DEF Undo
<1>2. /\ at[p] = "undo" /\ Goto(p, "forget") /\ UNCHANGED Others
      /\ UNCHANGED <<fresh, calls, faults>>
  BY DEF Undo, project, platform, history, bounds, Others
<1>3. /\ causes \subseteq causes' /\ causes' \subseteq causes \union {"race"}
      /\ "unlocked" \in outdated[p] => "race" \in causes'
  BY DEF Undo, When
<1>4. ASSUME NEW u \in Watches, Keep(p, [u EXCEPT !.keys = @ \ {w.retries}])
      PROVE  \E v \in Watches : /\ Placing(p, "forget", {v}) /\ SameWatch(v, u) /\ SameAim(v, u)
                                /\ v.keys = u.keys \ {w.retries}
  <2> DEFINE ks == u.keys \ {w.retries}
             v == [u EXCEPT !.keys = ks]
  <2>1. ks \in SUBSET Tries  BY Fields
  <2>2. Keep(p, v) /\ ks = u.keys \ {w.retries}  BY <1>4
  <2> HIDE DEF ks
  <2>3. v \in Watches /\ SameWatch(v, u) /\ SameAim(v, u) /\ v.keys = ks  BY <2>1, NewKeys
  <2> HIDE DEF v
  <2>4. Placing(p, "forget", {v})  BY <1>2, <2>2, <2>3, Keeps DEF Stages
  <2>5. QED  BY <2>2, <2>3, <2>4
<1>5. ASSUME NEW u \in Watches, Keep(p, u)
      PROVE  Placing(p, "forget", {u}) /\ SameWatch(u, u) /\ SameAim(u, u)
  BY <1>2, <1>5, Keeps DEF Stages, SameWatch, SameAim
<1>6. w \in Watches /\ \A u \in store : u \in Watches  BY CopyTypes, StoreTypes
<1>7. \E v \in Watches :
        /\ Placing(p, "forget", {v})
        /\ \/ store = {} /\ Noting(p, outdated[p]) /\ SameWatch(v, w) /\ SameAim(v, w)
           \/ /\ Noting(p, {})
              /\ \E u \in store :
                    /\ SameWatch(v, u) /\ SameAim(v, u)
                    /\ \/ v.keys = u.keys
                       \/ u.head = w.head /\ v.keys = u.keys \ {w.retries}
  <2>1. CASE store = {} /\ Keep(p, [w EXCEPT !.keys = @ \ {w.retries}]) /\ UNCHANGED outdated
    BY <2>1, <1>4, <1>6, NotesNothing
  <2>2. ASSUME NEW u \in store, u.head # w.head, Keep(p, u), Read(p)
        PROVE  Placing(p, "forget", {u}) /\ SameWatch(u, u) /\ SameAim(u, u) /\ Noting(p, {})
    BY <2>2, <1>5, <1>6, Reads
  <2>3. ASSUME NEW u \in store, u.head = w.head, Keep(p, [u EXCEPT !.keys = @ \ {w.retries}]), Read(p)
        PROVE  /\ Noting(p, {})
               /\ \E v \in Watches : /\ Placing(p, "forget", {v}) /\ SameWatch(v, u) /\ SameAim(v, u)
                                     /\ v.keys = u.keys \ {w.retries}
    BY <2>3, <1>4, <1>6, Reads
  <2>4. \/ store = {} /\ Keep(p, [w EXCEPT !.keys = @ \ {w.retries}]) /\ UNCHANGED outdated
        \/ \E u \in store : u.head # w.head /\ Keep(p, u) /\ Read(p)
        \/ \E u \in store : u.head = w.head /\ Keep(p, [u EXCEPT !.keys = @ \ {w.retries}]) /\ Read(p)
    BY <1>1
  <2>5. CASE \E u \in store : u.head # w.head /\ Keep(p, u) /\ Read(p)
    <3>1. PICK u \in store : u.head # w.head /\ Keep(p, u) /\ Read(p)  BY <2>5
    <3>2. Placing(p, "forget", {u}) /\ SameWatch(u, u) /\ SameAim(u, u) /\ Noting(p, {})
      BY <3>1, <2>2
    <3>3. u \in Watches  BY <1>6
    <3>4. QED  BY <3>2, <3>3
  <2>6. CASE \E u \in store : u.head = w.head /\ Keep(p, [u EXCEPT !.keys = @ \ {w.retries}]) /\ Read(p)
    <3>1. PICK u \in store : u.head = w.head /\ Keep(p, [u EXCEPT !.keys = @ \ {w.retries}]) /\ Read(p)
      BY <2>6
    <3>2. PICK v \in Watches : /\ Placing(p, "forget", {v}) /\ SameWatch(v, u) /\ SameAim(v, u)
                               /\ v.keys = u.keys \ {w.retries}
      BY <3>1, <2>3
    <3>3. Noting(p, {})  BY <3>1, <2>3
    <3>4. QED  BY <3>1, <3>2, <3>3
  <2>7. QED  BY <2>1, <2>4, <2>5, <2>6
<1>8. /\ at' \in [Procs -> Stages] /\ mine' \in [Procs -> SUBSET Watches]
      /\ outdated' \in [Procs -> SUBSET {"locked", "unlocked"}]
  BY <1>7 DEF Placing, Noting
<1>9. TypeOK'  BY <1>2, <1>3, <1>8 DEF TypeOK, Causes, Others
<1>10. QED  BY <1>2, <1>3, <1>7, <1>9

(* The lock is let go.                                                     *)
LEMMA ReleaseStep ==
    ASSUME TypeOK, NEW p \in Procs, Release(p)
    PROVE  /\ TypeOK' /\ at[p] = "release" /\ lock' = "free" /\ inside' = inside \ {p}
           /\ Placing(p, "idle", mine[p])
           /\ UNCHANGED <<head, ci, store, crons, created, fresh, outdated, sent, reruns, causes>>
<1>1. Placing(p, "idle", mine[p])  BY GoesOn DEF Release, Stages
<1>2. /\ at[p] = "release" /\ lock' = "free" /\ inside' = inside \ {p}
      /\ UNCHANGED <<head, ci, store, crons, created, fresh, outdated, sent, reruns, calls, faults, causes>>
  BY DEF Release, project, platform, history, bounds
<1>3. TypeOK'  BY <1>1, <1>2 DEF TypeOK, Placing
<1>4. QED  BY <1>1, <1>2, <1>3

(* A call to stop the watch.                                               *)
LEMMA StopCallStep ==
    ASSUME TypeOK, NEW p \in Procs, NEW t \in Threads, StopCall(p, t)
    PROVE  /\ TypeOK' /\ at[p] = "idle" /\ UNCHANGED Others
           /\ Placing(p, "stopGet", mine[p]) /\ UNCHANGED <<fresh, outdated, causes>>
<1>1. Placing(p, "stopGet", mine[p])  BY GoesOn DEF StopCall, Stages
<1>2. calls' \in 0..MaxCalls  BY CallTypes DEF StopCall
<1>3. at[p] = "idle" /\ UNCHANGED Others /\ UNCHANGED <<fresh, outdated, faults, causes>>
  BY DEF StopCall, project, platform, history, Others
<1>4. TypeOK'  BY <1>1, <1>2, <1>3 DEF TypeOK, Placing, Others
<1>5. QED  BY <1>1, <1>3, <1>4

(* The cron is deleted, or the watch is kept for it, inactive.             *)
LEMMA StopCronStep ==
    ASSUME TypeOK, NEW p \in Procs, StopCron(p)
    PROVE  /\ TypeOK' /\ at[p] = "stopCron"
           /\ UNCHANGED <<head, ci, store, created, lock, inside, sent, reruns, fresh, outdated, causes>>
           /\ crons' \subseteq crons
           /\ \E w \in mine[p] :
                \/ Placing(p, "stopDelete", mine[p]) /\ crons' = crons \ {w.cron}
                \/ \E v \in Watches :
                      /\ Placing(p, "stopSave", {v}) /\ v.status = "inactive"
                      /\ v.thread = w.thread /\ v.cron = w.cron
                      /\ SameAim(v, w) /\ v.keys = w.keys
<1>1. PICK w \in mine[p] :
        \/ /\ Goto(p, "stopDelete") /\ crons' = crons \ {w.cron}
           /\ UNCHANGED <<mine, faults>>
        \/ /\ Goto(p, "stopSave") /\ Keep(p, [w EXCEPT !.status = "inactive"])
           /\ crons' = crons \/ crons' = crons \ {w.cron}
           /\ UNCHANGED faults \/ Fault
  BY DEF StopCron
<1>2. /\ at[p] = "stopCron"
      /\ UNCHANGED <<head, ci, store, created, lock, inside, sent, reruns, fresh, outdated, calls, causes>>
  BY DEF StopCron, project, history
<1>3. faults' \in 0..MaxFaults  BY <1>1, FaultTypes DEF TypeOK
<1>4. CASE Goto(p, "stopSave") /\ Keep(p, [w EXCEPT !.status = "inactive"])
  <2> DEFINE v == [w EXCEPT !.status = "inactive"]
  <2>1. w \in Watches  BY CopyTypes
  <2>2. /\ v \in Watches /\ v.status = "inactive" /\ v.thread = w.thread /\ v.cron = w.cron
        /\ SameAim(v, w) /\ v.keys = w.keys
    BY <2>1, NewStatus
  <2>3. Goto(p, "stopSave") /\ Keep(p, v)  BY <1>4
  <2> HIDE DEF v
  <2>4. Placing(p, "stopSave", {v})  BY <2>2, <2>3, Keeps DEF Stages
  <2>5. at' \in [Procs -> Stages] /\ mine' \in [Procs -> SUBSET Watches]  BY <2>4 DEF Placing
  <2>6. crons' \subseteq crons  BY <1>1
  <2>7. TypeOK'  BY <1>2, <1>3, <2>5, <2>6 DEF TypeOK
  <2>8. QED  BY <1>2, <2>2, <2>4, <2>6, <2>7
<1>5. CASE Goto(p, "stopDelete") /\ crons' = crons \ {w.cron} /\ UNCHANGED mine
  <2>1. Placing(p, "stopDelete", mine[p])  BY <1>5, GoesOn DEF Stages
  <2>2. at' \in [Procs -> Stages] /\ mine' \in [Procs -> SUBSET Watches]  BY <2>1 DEF Placing
  <2>3. TypeOK'  BY <1>2, <1>3, <1>5, <2>2 DEF TypeOK
  <2>4. QED  BY <1>2, <1>5, <2>1, <2>3
<1>6. QED  BY <1>1, <1>4, <1>5

(* The watch is written, inactive, or deleted.                             *)
LEMMA StopSaveStep ==
    ASSUME TypeOK, NEW p \in Procs, StopSave(p)
    PROVE  /\ TypeOK' /\ at[p] = "stopSave" /\ Wrote(p, mine[p]) /\ Placing(p, Home(p), {})
           /\ UNCHANGED <<head, ci, crons, created, lock, inside, fresh, sent, reruns>>
<1>1. Wrote(p, mine[p])  BY Writes DEF StopSave
<1>2. Home(p) \in Stages /\ {} \in SUBSET Watches  BY DEF Home, Stages
<1>3. Placing(p, Home(p), {})  BY <1>2, GoesOnWith DEF StopSave, Home
<1>4. /\ at[p] = "stopSave"
      /\ UNCHANGED <<head, ci, crons, created, lock, inside, fresh, sent, reruns, calls, faults>>
  BY DEF StopSave, project, platform, history, bounds
<1>5. TypeOK'  BY <1>1, <1>3, <1>4 DEF TypeOK, Wrote, Placing, Causes
<1>6. QED  BY <1>1, <1>3, <1>4, <1>5

(* The watch is deleted.                                                   *)
LEMMA StopDeleteStep ==
    ASSUME TypeOK, NEW p \in Procs, StopDelete(p)
    PROVE  /\ TypeOK' /\ at[p] = "stopDelete" /\ Wrote(p, {}) /\ Placing(p, Home(p), {})
           /\ UNCHANGED <<head, ci, crons, created, lock, inside, fresh, sent, reruns>>
<1>1. Wrote(p, {})  BY Writes DEF StopDelete
<1>2. Home(p) \in Stages /\ {} \in SUBSET Watches  BY DEF Home, Stages
<1>3. Placing(p, Home(p), {})  BY <1>2, GoesOnWith DEF StopDelete, Home
<1>4. /\ at[p] = "stopDelete"
      /\ UNCHANGED <<head, ci, crons, created, lock, inside, fresh, sent, reruns, calls, faults>>
  BY DEF StopDelete, project, platform, history, bounds
<1>5. TypeOK'  BY <1>1, <1>3, <1>4 DEF TypeOK, Wrote, Placing, Causes
<1>6. QED  BY <1>1, <1>3, <1>4, <1>5

(* A rerun is recorded.                                                    *)
LEMMA RetrySaveStep ==
    ASSUME TypeOK, NEW p \in Procs, RetrySave(p)
    PROVE  /\ TypeOK' /\ at[p] = "retrySave" /\ Wrote(p, mine[p]) /\ Placing(p, "release", {})
           /\ UNCHANGED <<head, ci, crons, created, lock, inside, fresh, sent>>
           /\ \E w \in mine[p] :
                 /\ \A h \in Heads \ {w.head} : reruns'[h] = reruns[h]
                 /\ reruns'[w.head] <= reruns[w.head] + 1
<1>1. Wrote(p, mine[p])  BY Writes DEF RetrySave
<1>2. {} \in SUBSET Watches  OBVIOUS
<1>3. Placing(p, "release", {})  BY <1>2, GoesOnWith DEF RetrySave, Stages
<1>4. /\ at[p] = "retrySave"
      /\ UNCHANGED <<head, ci, crons, created, lock, inside, fresh, sent, calls, faults>>
  BY DEF RetrySave, project, platform, bounds
<1>5. PICK w \in mine[p] :
        reruns' = [reruns EXCEPT ![w.head] = IF @ <= MaxRetries THEN @ + 1 ELSE @]
  BY DEF RetrySave
<1> DEFINE h0 == w.head
           n == IF reruns[h0] <= MaxRetries THEN reruns[h0] + 1 ELSE reruns[h0]
<1>6. h0 \in Heads  BY CopyTypes, Fields DEF Heads
<1>7. reruns' = [reruns EXCEPT ![h0] = n]  BY <1>5
<1>8. reruns[h0] \in 0..(MaxRetries + 1)  BY <1>6 DEF TypeOK
<1>9. n \in 0..(MaxRetries + 1) /\ n <= reruns[h0] + 1  BY <1>8, BoundsAssumption
<1>10. h0 = w.head  OBVIOUS
<1> HIDE DEF h0, n
<1>11. /\ reruns' \in [Heads -> 0..(MaxRetries + 1)]
       /\ \A h \in Heads \ {h0} : reruns'[h] = reruns[h]
       /\ reruns'[h0] = n
  BY <1>6, <1>7, <1>9 DEF TypeOK
<1>12. TypeOK'  BY <1>1, <1>3, <1>4, <1>11 DEF TypeOK, Wrote, Placing, Causes
<1>13. \A h \in Heads \ {w.head} : reruns'[h] = reruns[h]  BY <1>10, <1>11
<1>14. reruns'[w.head] <= reruns[w.head] + 1  BY <1>9, <1>10, <1>11
<1>15. QED  BY <1>1, <1>3, <1>4, <1>12, <1>13, <1>14

(* A start begins with a watch of its own ...                              *)
LEMMA StartCallStep ==
    ASSUME TypeOK, NEW p \in Procs, NEW t \in Threads, StartCall(p, t)
    PROVE  /\ TypeOK' /\ at[p] = "idle" /\ UNCHANGED Others
           /\ UNCHANGED <<fresh, outdated, causes>>
           /\ \E v \in Watches : Placing(p, "startGet", {v}) /\ v.status = "active" /\ v.head = head
<1> DEFINE v == NewWatch(t)
<1>1. v \in Watches /\ v.status = "active" /\ v.head = head  BY StartedWatch DEF TypeOK
<1>2. Goto(p, "startGet") /\ Keep(p, v)  BY DEF StartCall
<1> HIDE DEF v
<1>3. Placing(p, "startGet", {v})  BY <1>1, <1>2, Keeps DEF Stages
<1>4. calls' \in 0..MaxCalls  BY CallTypes DEF StartCall
<1>5. at[p] = "idle" /\ UNCHANGED Others /\ UNCHANGED <<fresh, outdated, faults, causes>>
  BY DEF StartCall, project, platform, history, Others
<1>6. TypeOK'  BY <1>3, <1>4, <1>5 DEF TypeOK, Placing, Others
<1>7. QED  BY <1>1, <1>3, <1>5, <1>6

(* ... takes over what there is, or finds nothing, or is refused ...       *)
TakesOver(p, new, old) ==
    /\ old.status = "inactive" \/ old.thread = new.thread
    /\ \E v \in Watches :
          /\ Placing(p, "startPut", {v}) /\ v.status = new.status /\ v.thread = new.thread
          /\ v.head = new.head /\ v.cron = old.cron
          /\ new.head = old.head => v.retries = old.retries /\ v.keys = old.keys
    /\ Noting(p, {}) /\ fresh' = fresh
    /\ new.head < old.head => "rewound" \in causes'

(* A start reads the watch.                                                *)
LEMMA StartGetStep ==
    ASSUME TypeOK, NEW p \in Procs, StartGet(p)
    PROVE  /\ TypeOK' /\ at[p] = "startGet" /\ UNCHANGED Others
           /\ causes \subseteq causes' /\ causes' \subseteq causes \union {"rewound"}
           /\ \/ Left(p)
              \/ /\ store = {} /\ Placing(p, "startPut", mine[p]) /\ Noting(p, {})
                 /\ fresh' = fresh \union {p}
              \/ \E new \in mine[p], old \in store : TakesOver(p, new, old)
<1>1. ASSUME NEW new \in mine[p], NEW old \in store, old.status = "inactive" \/ old.thread = new.thread,
             Keep(p, TakenOver(new, old)), Read(p), Goto(p, "startPut"), fresh' = fresh,
             causes' = causes \union When(new.head < old.head, "rewound")
      PROVE  TakesOver(p, new, old) /\ causes \subseteq causes' /\ causes' \subseteq causes \union {"rewound"}
  <2> DEFINE v == TakenOver(new, old)
  <2>1. new \in Watches /\ old \in Watches  BY CopyTypes, StoreTypes
  <2>2. Keep(p, v)  BY <1>1
  <2>3. /\ v \in Watches /\ v.status = new.status /\ v.thread = new.thread
        /\ v.head = new.head /\ v.cron = old.cron
        /\ new.head = old.head => v.retries = old.retries /\ v.keys = old.keys
    BY <2>1, TakenOverWatch
  <2> HIDE DEF v
  <2>4. Placing(p, "startPut", {v})  BY <1>1, <2>2, <2>3, Keeps DEF Stages
  <2>5. Noting(p, {})  BY <1>1, Reads
  <2>6. /\ new.head < old.head => "rewound" \in causes'
        /\ causes \subseteq causes' /\ causes' \subseteq causes \union {"rewound"}
    BY <1>1 DEF When
  <2>7. QED  BY <1>1, <2>3, <2>4, <2>5, <2>6 DEF TakesOver
<1>2. PICK new \in mine[p] :
          \/ /\ store = {} /\ fresh' = fresh \union {p}
             /\ Goto(p, "startPut") /\ Read(p) /\ UNCHANGED <<mine, causes>>
          \/ \E old \in store :
                /\ old.status = "inactive" \/ old.thread = new.thread
                /\ Keep(p, TakenOver(new, old)) /\ Read(p)
                /\ Goto(p, "startPut") /\ UNCHANGED fresh
                /\ causes' = causes \union When(new.head < old.head, "rewound")
          \/ Return(p) /\ UNCHANGED causes
  BY DEF StartGet
<1>3. at[p] = "startGet" /\ UNCHANGED Others /\ UNCHANGED <<calls, faults>>
  BY DEF StartGet, project, platform, history, bounds, Others
<1> DEFINE Digest ==
           /\ causes \subseteq causes' /\ causes' \subseteq causes \union {"rewound"}
           /\ \/ Left(p)
              \/ /\ store = {} /\ Placing(p, "startPut", mine[p]) /\ Noting(p, {})
                 /\ fresh' = fresh \union {p}
              \/ \E old \in store : TakesOver(p, new, old)
<1>4. CASE /\ store = {} /\ fresh' = fresh \union {p}
           /\ Goto(p, "startPut") /\ Read(p) /\ UNCHANGED <<mine, causes>>
  <2>1. Placing(p, "startPut", mine[p]) /\ Noting(p, {})  BY <1>4, GoesOn, Reads DEF Stages
  <2>2. Digest  BY <1>4, <2>1
  <2>3. TypeOK'  BY <1>3, <1>4, <2>1 DEF TypeOK, Placing, Noting, Others
  <2>4. QED  BY <1>3, <2>2, <2>3
<1>5. CASE \E old \in store :
                /\ old.status = "inactive" \/ old.thread = new.thread
                /\ Keep(p, TakenOver(new, old)) /\ Read(p)
                /\ Goto(p, "startPut") /\ UNCHANGED fresh
                /\ causes' = causes \union When(new.head < old.head, "rewound")
  <2>1. PICK old \in store : /\ TakesOver(p, new, old)
                             /\ causes \subseteq causes' /\ causes' \subseteq causes \union {"rewound"}
    BY <1>1, <1>5
  <2>2. Digest  BY <2>1
  <2>3. /\ at' \in [Procs -> Stages] /\ mine' \in [Procs -> SUBSET Watches]
        /\ outdated' \in [Procs -> SUBSET {"locked", "unlocked"}] /\ fresh' = fresh
    BY <2>1 DEF TakesOver, Placing, Noting
  <2>4. causes' \in SUBSET Causes  BY <2>1 DEF TypeOK, Causes
  <2>5. TypeOK'  BY <1>3, <2>3, <2>4 DEF TypeOK, Others
  <2>6. QED  BY <1>3, <2>2, <2>5
<1>6. CASE Return(p) /\ UNCHANGED causes
  <2>1. Left(p)  BY <1>6, Leaves
  <2>2. Digest  BY <1>6, <2>1
  <2>3. TypeOK'  BY <1>3, <1>6, <2>1 DEF TypeOK, Left, Placing, Noting, Others
  <2>4. QED  BY <1>3, <2>2, <2>3
<1>7. QED  BY <1>2, <1>4, <1>5, <1>6

(* ... writes the record; the history of a new watch begins ...            *)
LEMMA StartPutStep ==
    ASSUME TypeOK, NEW p \in Procs, StartPut(p)
    PROVE  /\ TypeOK' /\ at[p] = "startPut" /\ Wrote(p, mine[p]) /\ Placing(p, "startCron", mine[p])
           /\ UNCHANGED <<head, ci, crons, created, lock, inside, fresh>>
           /\ p \notin fresh => UNCHANGED <<sent, reruns>>
           /\ p \in fresh => /\ \A failure \in Heads \X Tries : sent'[failure] = "never"
                             /\ \A h \in Heads : reruns'[h] = 0
<1>1. Wrote(p, mine[p])  BY Writes DEF StartPut
<1>2. Placing(p, "startCron", mine[p])  BY GoesOn DEF StartPut, Stages
<1>3. /\ at[p] = "startPut"
      /\ UNCHANGED <<head, ci, crons, created, lock, inside, fresh, calls, faults>>
  BY DEF StartPut, project, platform, bounds
<1>4. /\ p \notin fresh => UNCHANGED <<sent, reruns>>
      /\ p \in fresh => /\ sent' = [failure \in Heads \X Tries |-> "never"]
                        /\ reruns' = [h \in Heads |-> 0]
  BY DEF StartPut, history
<1>5. sent' \in [Heads \X Tries -> Counts] /\ reruns' \in [Heads -> 0..(MaxRetries + 1)]
  <2>1. CASE p \in fresh
    <3>1. "never" \in Counts  BY DEF Counts
    <3>2. 0 \in 0..(MaxRetries + 1)  BY BoundsAssumption
    <3>3. QED  BY <1>4, <2>1, <3>1, <3>2
  <2>2. CASE p \notin fresh  BY <1>4, <2>2 DEF TypeOK
  <2>3. QED  BY <2>1, <2>2
<1>6. TypeOK'  BY <1>1, <1>2, <1>3, <1>5 DEF TypeOK, Wrote, Placing, Causes
<1>7. QED  BY <1>1, <1>2, <1>3, <1>4, <1>6

(* ... looks for its cron, or creates it ...                               *)
WithCron(v, w, c) ==
    /\ v \in Watches /\ v.status = w.status /\ v.thread = w.thread /\ v.cron = c
    /\ SameAim(v, w) /\ v.keys = w.keys

(* It notes the cron in its copy.                                          *)
LEMMA KeepsCron ==
    ASSUME TypeOK, NEW p \in Procs, NEW w \in mine[p], NEW c \in Nat,
           Keep(p, [w EXCEPT !.cron = c]), Goto(p, "startSave")
    PROVE  \E v \in Watches : Placing(p, "startSave", {v}) /\ WithCron(v, w, c)
<1> DEFINE v == [w EXCEPT !.cron = c]
<1>1. w \in Watches  BY CopyTypes
<1>2. WithCron(v, w, c)  BY <1>1, NewCron DEF WithCron
<1>3. Keep(p, v)  OBVIOUS
<1> HIDE DEF v
<1>4. v \in Watches  BY <1>2 DEF WithCron
<1>5. Placing(p, "startSave", {v})  BY <1>3, <1>4, Keeps DEF Stages
<1>6. QED  BY <1>2, <1>4, <1>5

(* _ensure_watch_cron finds one, or none.                                  *)
LEMMA StartCronStep ==
    ASSUME TypeOK, NEW p \in Procs, StartCron(p)
    PROVE  /\ TypeOK' /\ at[p] = "startCron"
           /\ UNCHANGED <<head, ci, store, created, lock, inside, fresh, outdated, sent, reruns, causes>>
           /\ \/ crons = {} /\ crons' = crons /\ Placing(p, "startCreate", mine[p])
              \/ \E kept \in crons, w \in mine[p], v \in Watches :
                    /\ kept \in crons' /\ crons' \subseteq crons
                    /\ Placing(p, "startSave", {v}) /\ WithCron(v, w, kept)
<1>1. ASSUME NEW kept \in crons, NEW w \in mine[p],
             Keep(p, [w EXCEPT !.cron = kept]), Goto(p, "startSave")
      PROVE  \E v \in Watches : Placing(p, "startSave", {v}) /\ WithCron(v, w, kept)
  <2>1. kept \in Nat  BY DEF TypeOK
  <2>2. QED  BY <1>1, <2>1, KeepsCron
<1>2. \/ crons = {} /\ crons' = crons /\ Placing(p, "startCreate", mine[p])
      \/ \E kept \in crons, w \in mine[p], v \in Watches :
            /\ kept \in crons' /\ crons' \subseteq crons
            /\ Placing(p, "startSave", {v}) /\ WithCron(v, w, kept)
  <2>1. \/ crons = {} /\ Goto(p, "startCreate") /\ UNCHANGED <<crons, mine>>
        \/ \E kept \in crons, w \in mine[p] :
             /\ kept \in crons' /\ crons' \subseteq crons
             /\ Keep(p, [w EXCEPT !.cron = kept]) /\ Goto(p, "startSave")
    BY DEF StartCron
  <2>2. CASE crons = {} /\ Goto(p, "startCreate") /\ UNCHANGED <<crons, mine>>
    BY <2>2, GoesOn DEF Stages
  <2>3. CASE \E kept \in crons, w \in mine[p] :
             /\ kept \in crons' /\ crons' \subseteq crons
             /\ Keep(p, [w EXCEPT !.cron = kept]) /\ Goto(p, "startSave")
    <3>1. PICK kept \in crons, w \in mine[p] :
             /\ kept \in crons' /\ crons' \subseteq crons
             /\ Keep(p, [w EXCEPT !.cron = kept]) /\ Goto(p, "startSave")
      BY <2>3
    <3>2. PICK v \in Watches : Placing(p, "startSave", {v}) /\ WithCron(v, w, kept)
      BY <1>1, <3>1
    <3>3. QED  BY <3>1, <3>2
  <2>4. QED  BY <2>1, <2>2, <2>3
<1>3. /\ at[p] = "startCron"
      /\ UNCHANGED <<head, ci, store, created, lock, inside, fresh, outdated, sent, reruns, calls, faults, causes>>
  BY DEF StartCron, project, history, bounds
<1>4. at' \in [Procs -> Stages] /\ mine' \in [Procs -> SUBSET Watches] /\ crons' \subseteq crons
  BY <1>2 DEF Placing
<1>5. TypeOK'  BY <1>3, <1>4 DEF TypeOK
<1>6. QED  BY <1>2, <1>3, <1>5

(* It creates one.                                                         *)
LEMMA StartCreateStep ==
    ASSUME TypeOK, NEW p \in Procs, StartCreate(p)
    PROVE  /\ TypeOK' /\ at[p] = "startCreate"
           /\ UNCHANGED <<head, ci, store, lock, inside, fresh, outdated, sent, reruns>>
           /\ crons' = crons \union {created + 1} /\ created' = created + 1
           /\ \/ /\ Placing(p, "rollback", mine[p]) /\ causes' = causes \union {"partial"}
              \/ /\ causes' = causes
                 /\ \E w \in mine[p], v \in Watches :
                       Placing(p, "startSave", {v}) /\ WithCron(v, w, created + 1)
<1>1. created + 1 \in Nat  BY DEF TypeOK
<1>2. ASSUME NEW w \in mine[p], Keep(p, [w EXCEPT !.cron = created + 1]), Goto(p, "startSave")
      PROVE  \E v \in Watches : Placing(p, "startSave", {v}) /\ WithCron(v, w, created + 1)
  <2> DEFINE c == created + 1
  <2>1. Keep(p, [w EXCEPT !.cron = c])  BY <1>2
  <2>2. c \in Nat  BY <1>1
  <2> HIDE DEF c
  <2>3. \E v \in Watches : Placing(p, "startSave", {v}) /\ WithCron(v, w, c)
    BY <1>2, <2>1, <2>2, KeepsCron
  <2>4. QED  BY <2>3 DEF c
<1>3. \/ /\ Placing(p, "rollback", mine[p]) /\ causes' = causes \union {"partial"}
      \/ /\ causes' = causes
         /\ \E w \in mine[p], v \in Watches :
               Placing(p, "startSave", {v}) /\ WithCron(v, w, created + 1)
  BY <1>2, GoesOn DEF StartCreate, Stages
<1>4. /\ at[p] = "startCreate" /\ crons' = crons \union {created + 1} /\ created' = created + 1
      /\ UNCHANGED <<head, ci, store, lock, inside, fresh, outdated, sent, reruns, calls>>
  BY DEF StartCreate, project, history
<1>5. at' \in [Procs -> Stages] /\ mine' \in [Procs -> SUBSET Watches]
  BY <1>3 DEF Placing
<1>6. faults' \in 0..MaxFaults  BY FaultTypes DEF StartCreate, TypeOK
<1>7. causes' \in SUBSET Causes  BY <1>3 DEF TypeOK, Causes
<1>8. crons' \in SUBSET Nat /\ created' \in Nat  BY <1>1, <1>4 DEF TypeOK
<1>9. TypeOK'  BY <1>4, <1>5, <1>6, <1>7, <1>8 DEF TypeOK
<1>10. QED  BY <1>3, <1>4, <1>9

(* ... and writes the record again.                                        *)
LEMMA StartSaveStep ==
    ASSUME TypeOK, NEW p \in Procs, StartSave(p)
    PROVE  /\ TypeOK' /\ at[p] = "startSave" /\ Wrote(p, mine[p]) /\ Placing(p, "idle", {})
           /\ fresh' = fresh \ {p}
           /\ UNCHANGED <<head, ci, crons, created, lock, inside, sent, reruns>>
<1>1. Wrote(p, mine[p])  BY Writes DEF StartSave
<1>2. {} \in SUBSET Watches  OBVIOUS
<1>3. Placing(p, "idle", {})  BY <1>2, GoesOnWith DEF StartSave, Stages
<1>4. /\ at[p] = "startSave" /\ fresh' = fresh \ {p}
      /\ UNCHANGED <<head, ci, crons, created, lock, inside, sent, reruns, calls, faults>>
  BY DEF StartSave, project, platform, history, bounds
<1>5. TypeOK'  BY <1>1, <1>3, <1>4 DEF TypeOK, Wrote, Placing, Causes
<1>6. QED  BY <1>1, <1>3, <1>4, <1>5

(* A start that failed is undone.                                          *)
LEMMA RollbackStep ==
    ASSUME TypeOK, NEW p \in Procs, Rollback(p)
    PROVE  /\ TypeOK' /\ at[p] = "rollback" /\ crons' \subseteq crons
           /\ UNCHANGED <<head, ci, store, created, lock, inside, sent, reruns, causes>>
           /\ \/ Left(p)
              \/ Placing(p, "rollbackItem", mine[p]) /\ UNCHANGED <<fresh, outdated>>
<1>1. \/ Left(p)
      \/ Placing(p, "rollbackItem", mine[p]) /\ UNCHANGED <<fresh, outdated>>
  BY Leaves, GoesOn DEF Rollback, Stages
<1>2. /\ at[p] = "rollback" /\ crons' \subseteq crons
      /\ UNCHANGED <<head, ci, store, created, lock, inside, sent, reruns, calls, faults, causes>>
  BY DEF Rollback, project, history, bounds
<1>3. /\ at' \in [Procs -> Stages] /\ mine' \in [Procs -> SUBSET Watches]
      /\ outdated' \in [Procs -> SUBSET {"locked", "unlocked"}] /\ fresh' \in SUBSET Procs
  BY <1>1 DEF Left, Placing, Noting, TypeOK
<1>4. TypeOK'  BY <1>2, <1>3 DEF TypeOK
<1>5. QED  BY <1>1, <1>2, <1>4

(* It deletes the watch.                                                   *)
LEMMA RollbackItemStep ==
    ASSUME TypeOK, NEW p \in Procs, RollbackItem(p)
    PROVE  /\ TypeOK' /\ at[p] = "rollbackItem" /\ Wrote(p, {}) /\ Placing(p, "idle", {})
           /\ fresh' = fresh \ {p}
           /\ UNCHANGED <<head, ci, crons, created, lock, inside, sent, reruns>>
<1>1. Wrote(p, {})  BY Writes DEF RollbackItem
<1>2. {} \in SUBSET Watches  OBVIOUS
<1>3. Placing(p, "idle", {})  BY <1>2, GoesOnWith DEF RollbackItem, Stages
<1>4. /\ at[p] = "rollbackItem" /\ fresh' = fresh \ {p}
      /\ UNCHANGED <<head, ci, crons, created, lock, inside, sent, reruns, calls, faults>>
  BY DEF RollbackItem, project, platform, history, bounds
<1>5. TypeOK'  BY <1>1, <1>3, <1>4 DEF TypeOK, Wrote, Placing, Causes
<1>6. QED  BY <1>1, <1>3, <1>4, <1>5

(* An operation is broken off.                                             *)
LEMMA BrokenStep ==
    ASSUME TypeOK, NEW p \in Procs, Broken(p)
    PROVE  /\ TypeOK' /\ at[p] # "idle"
           /\ UNCHANGED <<head, ci, store, crons, created, lock, sent, reruns>>
           /\ causes \subseteq causes' /\ causes' \subseteq causes \union {"dropped", "partial"}
           /\ at[p] \in {"startCron", "startCreate", "startSave", "rollback",
                         "rollbackItem", "stopSave", "stopDelete"} => "partial" \in causes'
           /\ \/ /\ Placing(p, "idle", {}) /\ Noting(p, {})
                 /\ inside' = inside \ {p} /\ fresh' = fresh \ {p}
              \/ /\ at[p] \notin {"release", "startCron", "startCreate", "startSave"}
                 /\ Left(p) /\ UNCHANGED inside
              \/ /\ at[p] \in {"startCron", "startCreate", "startSave"}
                 /\ Placing(p, "rollback", mine[p]) /\ UNCHANGED <<inside, fresh, outdated>>
<1>1. \/ /\ Goto(p, "idle") /\ inside' = inside \ {p}
         /\ mine' = [mine EXCEPT ![p] = {}]
         /\ fresh' = fresh \ {p} /\ outdated' = [outdated EXCEPT ![p] = {}]
      \/ /\ at[p] \notin {"release", "startCron", "startCreate", "startSave"}
         /\ Return(p) /\ UNCHANGED inside
      \/ /\ at[p] \in {"startCron", "startCreate", "startSave"}
         /\ Goto(p, "rollback") /\ UNCHANGED <<mine, inside, fresh, outdated>>
  BY DEF Broken
<1>2. ASSUME Goto(p, "idle"), mine' = [mine EXCEPT ![p] = {}], outdated' = [outdated EXCEPT ![p] = {}]
      PROVE  Placing(p, "idle", {}) /\ Noting(p, {})
  <2>1. {} \in SUBSET Watches  OBVIOUS
  <2>2. QED  BY <1>2, <2>1, GoesOnWith, Reads DEF Read, Stages
<1>3. \/ /\ Placing(p, "idle", {}) /\ Noting(p, {})
         /\ inside' = inside \ {p} /\ fresh' = fresh \ {p}
      \/ /\ at[p] \notin {"release", "startCron", "startCreate", "startSave"}
         /\ Left(p) /\ UNCHANGED inside
      \/ /\ at[p] \in {"startCron", "startCreate", "startSave"}
         /\ Placing(p, "rollback", mine[p]) /\ UNCHANGED <<inside, fresh, outdated>>
  BY <1>1, <1>2, Leaves, GoesOn DEF Stages
<1>4. /\ at[p] # "idle"
      /\ UNCHANGED <<head, ci, store, crons, created, lock, sent, reruns, calls>>
  BY DEF Broken, project, platform, history
<1>5. /\ causes \subseteq causes' /\ causes' \subseteq causes \union {"dropped", "partial"}
      /\ at[p] \in {"startCron", "startCreate", "startSave", "rollback",
                    "rollbackItem", "stopSave", "stopDelete"} => "partial" \in causes'
  BY DEF Broken, When
<1>6. faults' \in 0..MaxFaults  BY FaultTypes DEF Broken
<1>7. /\ at' \in [Procs -> Stages] /\ mine' \in [Procs -> SUBSET Watches]
      /\ outdated' \in [Procs -> SUBSET {"locked", "unlocked"}] /\ fresh' \in SUBSET Procs
      /\ inside' \in SUBSET Procs
  BY <1>3 DEF Left, Placing, Noting, TypeOK
<1>8. TypeOK'  BY <1>4, <1>5, <1>6, <1>7 DEF TypeOK, Causes
<1>9. QED  BY <1>3, <1>4, <1>5, <1>8

(* The lock times out.                                                     *)
LEMMA ExpiryStep ==
    ASSUME TypeOK, LockExpires
    PROVE  /\ TypeOK' /\ lock = "held" /\ lock' = "free"
           /\ UNCHANGED <<head, ci, store, crons, created, at, mine, inside, fresh, outdated, sent, reruns>>
           /\ causes \subseteq causes' /\ causes' \subseteq causes \union {"overrun"}
           /\ inside # {} => "overrun" \in causes'
<1>1. /\ lock = "held" /\ lock' = "free"
      /\ UNCHANGED <<head, ci, store, crons, created, at, mine, inside, fresh, outdated, sent, reruns, calls>>
  BY DEF LockExpires, project, platform, procs, history
<1>2. /\ causes \subseteq causes' /\ causes' \subseteq causes \union {"overrun"}
      /\ inside # {} => "overrun" \in causes'
  BY DEF LockExpires
<1>3. faults' \in 0..MaxFaults  BY FaultTypes DEF LockExpires, TypeOK
<1>4. TypeOK'  BY <1>1, <1>2, <1>3 DEF TypeOK, Causes
<1>5. QED  BY <1>1, <1>2, <1>4

(***************************************************************************)
(* What is known of the checks changes in every record and every copy, and *)
(* nothing else.                                                           *)
(***************************************************************************)
Resettled(after, before) ==
    /\ after \in SUBSET Watches
    /\ after = {} <=> before = {}
    /\ \A v \in after : \E w \in before : Alike(v, w)
    /\ (\A v, w \in before : v = w) => (\A v, w \in after : v = w)

(* Another check set.                                                      *)
LEMMA UnsettledWatches == ASSUME NEW ws \in SUBSET Watches PROVE Resettled(Unsettled(ws), ws)
<1> DEFINE F(w) == [w EXCEPT !.settled = "no"]
<1>1. \A w \in ws : F(w) \in Watches /\ Alike(F(w), w)
  <2> SUFFICES ASSUME NEW w \in ws PROVE F(w) \in Watches /\ Alike(F(w), w)  OBVIOUS
  <2>1. w \in Watches  OBVIOUS
  <2> DEFINE s == "no"
  <2>2. s \in {"no", "seen", "ripe"}  OBVIOUS
  <2> HIDE DEF s
  <2>3. [w EXCEPT !.settled = s] \in Watches /\ Alike([w EXCEPT !.settled = s], w)
    BY <2>1, <2>2, NewSettled
  <2>4. QED  BY <2>3 DEF s
<1>2. Unsettled(ws) = {F(w) : w \in ws}  BY DEF Unsettled
<1> HIDE DEF F
<1>3. QED  BY <1>1, <1>2 DEF Resettled

(* Ten minutes.                                                            *)
LEMMA RipenedWatches == ASSUME NEW ws \in SUBSET Watches PROVE Resettled(Ripened(ws), ws)
<1> DEFINE F(w) == [w EXCEPT !.settled = IF @ = "seen" THEN "ripe" ELSE @]
<1>1. \A w \in ws : F(w) \in Watches /\ Alike(F(w), w)
  <2> SUFFICES ASSUME NEW w \in ws PROVE F(w) \in Watches /\ Alike(F(w), w)  OBVIOUS
  <2>1. w \in Watches  OBVIOUS
  <2> DEFINE s == IF w.settled = "seen" THEN "ripe" ELSE w.settled
  <2>2. s \in {"no", "seen", "ripe"}  BY <2>1, Fields
  <2>3. F(w) = [w EXCEPT !.settled = s]  OBVIOUS
  <2> HIDE DEF s
  <2>4. [w EXCEPT !.settled = s] \in Watches /\ Alike([w EXCEPT !.settled = s], w)
    BY <2>1, <2>2, NewSettled
  <2>5. QED  BY <2>3, <2>4
<1>2. Ripened(ws) = {F(w) : w \in ws}  BY DEF Ripened
<1> HIDE DEF F
<1>3. QED  BY <1>1, <1>2 DEF Resettled

(* The pull request moves on, or time passes.                              *)
Moved ==
    /\ Resettled(store', store)
    /\ mine' \in [Procs -> SUBSET Watches] /\ \A p \in Procs : Resettled(mine'[p], mine[p])
    /\ head' \in Heads /\ head <= head'
    /\ UNCHANGED <<crons, created, lock, at, inside, fresh, outdated, sent, reruns, causes>>

(* Both leave the operations where they are.                               *)
LEMMA MoveStep ==
    ASSUME TypeOK, Report \/ Push \/ TenMinutes
    PROVE  TypeOK' /\ Moved
<1>1. store \in SUBSET Watches /\ \A p \in Procs : mine[p] \in SUBSET Watches  BY DEF TypeOK
<1>2. /\ Resettled(store', store)
      /\ mine' \in [Procs -> SUBSET Watches] /\ \A p \in Procs : Resettled(mine'[p], mine[p])
  <2>1. CASE NewChecks
    <3>1. store' = Unsettled(store) /\ mine' = [p \in Procs |-> Unsettled(mine[p])]
      BY <2>1 DEF NewChecks
    <3>2. \A p \in Procs : Resettled(Unsettled(mine[p]), mine[p])  BY <1>1, UnsettledWatches
    <3>3. \A p \in Procs : Unsettled(mine[p]) \in SUBSET Watches  BY <3>2 DEF Resettled
    <3>4. QED  BY <1>1, <3>1, <3>2, <3>3, UnsettledWatches
  <2>2. CASE TenMinutes
    <3>1. store' = Ripened(store) /\ mine' = [p \in Procs |-> Ripened(mine[p])]
      BY <2>2 DEF TenMinutes
    <3>2. \A p \in Procs : Resettled(Ripened(mine[p]), mine[p])  BY <1>1, RipenedWatches
    <3>3. \A p \in Procs : Ripened(mine[p]) \in SUBSET Watches  BY <3>2 DEF Resettled
    <3>4. QED  BY <1>1, <3>1, <3>2, <3>3, RipenedWatches
  <2>3. QED  BY <2>1, <2>2 DEF Report, Push
<1>3. UNCHANGED <<crons, created, lock, at, inside, fresh, outdated, sent, reruns, causes, calls, faults>>
  BY DEF Report, Push, TenMinutes, NewChecks, platform, history, bounds
<1>4. head' \in Heads /\ head <= head' /\ ci' \in Verdicts
  <2>1. head \in Heads /\ head \in 1..MaxHeads  BY DEF TypeOK, Heads
  <2>2. CASE Report
    BY <2>1, <2>2, ReportedAssumption DEF Report, Verdicts
  <2>3. CASE Push
    <3>1. head < MaxHeads /\ head' = head + 1 /\ ci' = "pending"  BY <2>3 DEF Push
    <3>2. head' \in 1..MaxHeads /\ head <= head'  BY <2>1, <3>1, BoundsAssumption
    <3>3. QED  BY <3>1, <3>2 DEF Verdicts, Heads
  <2>4. CASE TenMinutes
    <3>1. head' = head /\ ci' = ci  BY <2>4 DEF TenMinutes, project
    <3>2. QED  BY <2>1, <3>1 DEF TypeOK
  <2>5. QED  BY <2>2, <2>3, <2>4
<1>5. store' \in SUBSET Watches  BY <1>2 DEF Resettled
<1>6. TypeOK'  BY <1>2, <1>3, <1>4, <1>5 DEF TypeOK
<1>7. QED  BY <1>2, <1>3, <1>4, <1>6 DEF Moved

-----------------------------------------------------------------------------
(* Type correctness.                                                       *)

(* In the beginning every variable has its type.                           *)
LEMMA InitTypes == Init => TypeOK
<1> SUFFICES ASSUME Init PROVE TypeOK  OBVIOUS
<1>1. 1 \in Heads /\ 0 \in 0..(MaxRetries + 1) /\ 0 \in 0..MaxCalls /\ 0 \in 0..MaxFaults
  BY BoundsAssumption DEF Heads
<1>2. "pending" \in Verdicts /\ "idle" \in Stages /\ "never" \in Counts
  BY DEF Verdicts, Stages, Counts
<1>3. QED  BY <1>1, <1>2 DEF Init, TypeOK

(* Every step keeps the types.                                             *)
LEMMA StepTypes == TypeOK /\ [Next]_vars => TypeOK'
<1> SUFFICES ASSUME TypeOK, [Next]_vars PROVE TypeOK'  OBVIOUS
<1>1. ASSUME NEW p \in Procs, Tick(p) \/ Webhook(p) \/ RetryCall(p) PROVE TypeOK'
  BY <1>1, TakeStep
<1>2. ASSUME NEW p \in Procs, NEW t \in Threads, StopCall(p, t) \/ StartCall(p, t) PROVE TypeOK'
  BY <1>2, StopCallStep, StartCallStep
<1>3. ASSUME NEW p \in Procs, Evaluation(p) PROVE TypeOK'
  BY <1>3, StampStep, StampSaveStep, LoadStep, LookStep, SaveStep, SaveAndGoOnStep,
     DispatchStep, UndoStep, ReleaseStep DEF Evaluation
<1>4. ASSUME NEW p \in Procs, Stopping(p) PROVE TypeOK'
  BY <1>4, StopGetStep, StopCronStep, StopSaveStep, StopDeleteStep DEF Stopping
<1>5. ASSUME NEW p \in Procs, Tool(p) PROVE TypeOK'
  BY <1>5, RetryGetStep, RetrySaveStep, StartGetStep, StartPutStep, StartCronStep,
     StartCreateStep, StartSaveStep, RollbackStep, RollbackItemStep DEF Tool
<1>6. ASSUME NEW p \in Procs, Broken(p) PROVE TypeOK'
  BY <1>6, BrokenStep
<1>7. CASE LockExpires  BY <1>7, ExpiryStep
<1>8. CASE Report \/ Push \/ TenMinutes  BY <1>8, MoveStep
<1>9. CASE UNCHANGED vars
  BY <1>9 DEF TypeOK, vars, project, platform, procs, history, bounds
<1>10. QED  BY <1>1, <1>2, <1>3, <1>4, <1>5, <1>6, <1>7, <1>8, <1>9 DEF Next, Run

(* Every variable holds a value the code could give it.                    *)
THEOREM WatchTypes == Spec => []TypeOK
  BY InitTypes, StepTypes, PTL DEF Spec

-----------------------------------------------------------------------------
(* Where operations are, and what they have there.                         *)

(***************************************************************************)
(* The stages of the operations that take the lock, those of a start, and  *)
(* those at which there is a copy of the watch, or none.                   *)
(***************************************************************************)
Locking == {"load", "look", "save", "saveKey", "saveEnd", "dispatch", "undo", "forget",
            "retryGet", "retrySave", "stamp", "stampSave", "release"}
Starting == {"startGet", "startPut", "startCron", "startCreate", "startSave", "rollback",
             "rollbackItem"}
Copying == Stages \ {"idle", "load", "stamp", "retryGet", "stopGet", "release"}
Empty == {"idle", "stamp", "retryGet", "release"}

One(S) == \A v, w \in S : v = w

(* Of an operation: its stage, its copy, its notes, lock held, watch new.  *)
Seat(a, m, o, i, f) ==
    /\ One(m)
    /\ a \in Copying => m # {}
    /\ a \in Empty => m = {}
    /\ m = {} => o = {}
    /\ a = "idle" => ~i
    /\ a \in Locking => i
    /\ a \in Starting => ~i
    /\ f => a \in Starting

Seated == \A p \in Procs : Seat(at[p], mine[p], outdated[p], p \in inside, p \in fresh)

Headed(S, h) == \A w \in S : w.head <= h

(* One record at most, and no head that is still to come.                  *)
Placed ==
    /\ One(store) /\ Headed(store, head)
    /\ Seated /\ \A p \in Procs : Headed(mine[p], head)

WellFormed == TypeOK /\ Placed

(***************************************************************************)
(* What an operation does to the others: their notes of a write, at most.  *)
(***************************************************************************)
Apart(p) ==
    /\ head' = head
    /\ \A q \in Procs \ {p} :
          /\ at'[q] = at[q] /\ mine'[q] = mine[q]
          /\ q \in inside' <=> q \in inside
          /\ q \in fresh' <=> q \in fresh
          /\ outdated'[q] = outdated[q] \/ mine[q] # {}

(* So only the operation itself has to be looked at.                       *)
LEMMA ApartSeats ==
    ASSUME Placed, NEW p \in Procs, Apart(p), One(store'), Headed(store', head),
           Seat(at'[p], mine'[p], outdated'[p], p \in inside', p \in fresh'),
           Headed(mine'[p], head)
    PROVE  Placed'
<1>1. Seated'
  <2> SUFFICES ASSUME NEW q \in Procs
               PROVE  Seat(at'[q], mine'[q], outdated'[q], q \in inside', q \in fresh')
    BY DEF Seated
  <2>1. CASE q = p  BY <2>1
  <2>2. CASE q # p
    <3>1. Seat(at[q], mine[q], outdated[q], q \in inside, q \in fresh)  BY DEF Placed, Seated
    <3>2. /\ at'[q] = at[q] /\ mine'[q] = mine[q]
          /\ q \in inside' <=> q \in inside
          /\ q \in fresh' <=> q \in fresh
          /\ outdated'[q] = outdated[q] \/ mine[q] # {}
      BY <2>2 DEF Apart
    <3>3. QED  BY <3>1, <3>2 DEF Seat
  <2>3. QED  BY <2>1, <2>2
<1>2. \A q \in Procs : Headed(mine'[q], head')
  BY DEF Placed, Apart
<1>3. QED  BY <1>1, <1>2 DEF Placed, Apart

(* A write leaves them apart.                                              *)
LEMMA WriteApart ==
    ASSUME WellFormed, NEW p \in Procs, NEW a, NEW m, NEW contents,
           Wrote(p, contents), Placing(p, a, m), UNCHANGED <<head, inside>>,
           \A q \in Procs \ {p} : q \in fresh' <=> q \in fresh
    PROVE  Apart(p)
<1> SUFFICES ASSUME NEW q \in Procs \ {p}
             PROVE  outdated'[q] = outdated[q] \/ mine[q] # {}
  BY DEF Apart, Placing
<1>1. mine[q] = {} => outdated[q] = {}  BY DEF WellFormed, Placed, Seated, Seat
<1>2. mine[q] = {} => outdated'[q] = {}  BY DEF Wrote
<1>3. QED  BY <1>1, <1>2

(* A step of its own leaves the store, too.                                *)
LEMMA NoteApart ==
    ASSUME NEW p \in Procs, NEW a, NEW m, NEW o, Placing(p, a, m), Noting(p, o),
           UNCHANGED <<head, inside>>, \A q \in Procs \ {p} : q \in fresh' <=> q \in fresh
    PROVE  Apart(p)
  BY DEF Apart, Placing, Noting

(* Where an operation returns to, it has nothing.                          *)
LEMMA HomeSeat ==
    ASSUME WellFormed, NEW p \in Procs, at[p] \notin Starting \/ fresh' = fresh \ {p}, NEW o, o = {},
           Placing(p, Home(p), {}), UNCHANGED inside, fresh' = fresh \/ fresh' = fresh \ {p}
    PROVE  Seat(at'[p], mine'[p], o, p \in inside', p \in fresh')
<1>1. Seat(at[p], mine[p], outdated[p], p \in inside, p \in fresh)
  BY DEF WellFormed, Placed, Seated
<1>2. p \notin fresh'  BY <1>1 DEF Seat
<1>3. CASE p \in inside
  BY <1>2, <1>3 DEF Home, Placing, Seat, One, Copying, Empty, Locking, Starting
<1>4. CASE p \notin inside
  BY <1>2, <1>4 DEF Home, Placing, Seat, One, Copying, Empty, Locking, Starting
<1>5. QED  BY <1>3, <1>4

(* Taking a record from the store, or returning.                           *)
LEMMA FoundPlaced ==
    ASSUME WellFormed, NEW p \in Procs, NEW a \in {"look", "stopGet", "stampSave", "stopCron", "stopDelete"},
           NEW w \in store, Found(p, a, w), UNCHANGED Others, at[p] \in {"stamp", "load", "stopGet"},
           at[p] = "stopGet" => a \in {"stopCron", "stopDelete"}
    PROVE  Placed'
<1>1. Seat(at[p], mine[p], outdated[p], p \in inside, p \in fresh)
  BY DEF WellFormed, Placed, Seated
<1>2. Apart(p)  BY NoteApart DEF Found, Others
<1>3. Seat(a, {w}, {}, p \in inside, p \in fresh)
  <2>1. p \in inside \/ at[p] = "stopGet"  BY <1>1 DEF Seat, Locking
  <2>2. p \notin fresh  BY <1>1 DEF Seat, Starting
  <2>3. QED  BY <2>1, <2>2 DEF Seat, One, Copying, Empty, Locking, Starting
<1>4. Headed({w}, head) /\ One(store') /\ Headed(store', head)
  BY DEF WellFormed, Placed, Headed, Others
<1>5. QED  BY <1>2, <1>3, <1>4, ApartSeats DEF Found, Placing, Noting, Others, WellFormed

(* Returning.                                                              *)
LEMMA LeftPlaced ==
    ASSUME WellFormed, NEW p \in Procs, Left(p), UNCHANGED <<head, store, inside>>
    PROVE  Placed'
<1>1. Apart(p)  BY NoteApart DEF Left
<1>2. Seat(at'[p], mine'[p], {}, p \in inside', p \in fresh')  BY HomeSeat DEF Left
<1>3. Headed(mine'[p], head) /\ One(store') /\ Headed(store', head)
  BY DEF WellFormed, Placed, Headed, Left, Placing
<1>4. QED  BY <1>1, <1>2, <1>3, ApartSeats DEF Left, Noting, WellFormed

(* Writing the copy, or nothing, and going on with it, or without.         *)
LEMMA WrotePlaced ==
    ASSUME WellFormed, NEW p \in Procs, NEW a, NEW m, NEW contents,
           Wrote(p, contents), Placing(p, a, m), UNCHANGED <<head, inside>>,
           fresh' = fresh \/ fresh' = fresh \ {p},
           contents \subseteq mine[p], m \subseteq mine[p],
           Seat(a, m, {}, p \in inside, p \in fresh')
    PROVE  Placed'
<1>1. Apart(p)  BY WriteApart
<1>2. One(mine[p]) /\ Headed(mine[p], head)  BY DEF WellFormed, Placed, Seated, Seat
<1>3. Headed(mine'[p], head) /\ One(store') /\ Headed(store', head)
  BY <1>2 DEF Headed, One, Placing, Wrote
<1>4. QED  BY <1>1, <1>3, ApartSeats DEF Placing, Wrote, WellFormed

(* Going on with the store and the notes as they are.                      *)
LEMMA WentPlaced ==
    ASSUME WellFormed, NEW p \in Procs, NEW a, NEW m,
           Placing(p, a, m), UNCHANGED <<head, store, inside, fresh, outdated>>,
           Headed(m, head), Seat(a, m, outdated[p], p \in inside, p \in fresh)
    PROVE  Placed'
<1>1. Apart(p)  BY DEF Apart, Placing
<1>2. QED  BY <1>1, ApartSeats DEF Placing, WellFormed, Placed

(* The steps of an evaluation.                                             *)
LEMMA EvaluationPlaced ==
    ASSUME WellFormed, NEW p \in Procs, Evaluation(p)
    PROVE  Placed'
<1>1. TypeOK  BY DEF WellFormed
<1>2. Seat(at[p], mine[p], outdated[p], p \in inside, p \in fresh) /\ Headed(mine[p], head)
  BY DEF WellFormed, Placed, Seated
<1>3. CASE Stamp(p)
  BY <1>1, <1>3, StampStep, FoundPlaced, LeftPlaced DEF Others
<1>4. CASE Load(p)
  <2>1. /\ at[p] = "load" /\ UNCHANGED Others
        /\ Left(p) \/ \E w \in store, a \in {"look", "stopGet"} : Found(p, a, w)
    BY <1>1, <1>4, LoadStep
  <2>2. QED  BY <2>1, FoundPlaced, LeftPlaced DEF Others
<1>5. CASE StampSave(p)
  <2>1. /\ at[p] = "stampSave" /\ Wrote(p, mine[p]) /\ Placing(p, "load", mine[p])
        /\ UNCHANGED <<head, inside, fresh>>
    BY <1>1, <1>5, StampSaveStep
  <2>2. Seat("load", mine[p], {}, p \in inside, p \in fresh)
    BY <1>2, <2>1 DEF Seat, Copying, Empty, Locking, Starting
  <2>3. QED  BY <2>1, <2>2, WrotePlaced
<1>6. CASE Save(p)
  <2>1. /\ at[p] \in {"save", "forget"} /\ Wrote(p, mine[p]) /\ Placing(p, "release", {})
        /\ UNCHANGED <<head, inside, fresh>>
    BY <1>1, <1>6, SaveStep
  <2>2. Seat("release", {}, {}, p \in inside, p \in fresh)
    BY <1>2, <2>1 DEF Seat, One, Copying, Empty, Locking, Starting
  <2>3. QED  BY <2>1, <2>2, WrotePlaced
<1>7. CASE SaveAndGoOn(p)
  <2>1. /\ Wrote(p, mine[p]) /\ UNCHANGED <<head, inside, fresh>>
        /\ \/ at[p] = "saveEnd" /\ Placing(p, "stopGet", mine[p])
           \/ at[p] = "saveKey" /\ Placing(p, "dispatch", mine[p])
    BY <1>1, <1>7, SaveAndGoOnStep
  <2>2. CASE at[p] = "saveEnd" /\ Placing(p, "stopGet", mine[p])
    <3>1. Seat("stopGet", mine[p], {}, p \in inside, p \in fresh)
      BY <1>2, <2>2 DEF Seat, Copying, Empty, Locking, Starting
    <3>2. QED  BY <2>1, <2>2, <3>1, WrotePlaced
  <2>3. CASE at[p] = "saveKey" /\ Placing(p, "dispatch", mine[p])
    <3>1. Seat("dispatch", mine[p], {}, p \in inside, p \in fresh)
      BY <1>2, <2>3 DEF Seat, Stages, Copying, Empty, Locking, Starting
    <3>2. QED  BY <2>1, <2>3, <3>1, WrotePlaced
  <2>4. QED  BY <2>1, <2>2, <2>3
<1>8. CASE Look(p)
  <2>1. at[p] = "look" /\ UNCHANGED <<head, store, inside, fresh, outdated>>
    BY <1>1, <1>8, LookStep DEF Others
  <2>2. CASE Placing(p, "stopGet", mine[p])
    <3>1. Seat("stopGet", mine[p], outdated[p], p \in inside, p \in fresh)
      BY <1>2, <2>1 DEF Seat, Copying, Empty, Locking, Starting
    <3>2. QED  BY <1>2, <2>1, <2>2, <3>1, WentPlaced
  <2>3. ASSUME NEW w \in mine[p], NEW v \in Watches, Looked(p, v, w)
        PROVE  Placed'
    <3>1. PICK a \in {"stopGet", "save", "saveEnd", "saveKey"} : Placing(p, a, {v})
      BY <2>3 DEF Looked
    <3>2. Seat(a, {v}, outdated[p], p \in inside, p \in fresh)
      BY <1>2, <2>1 DEF Seat, One, Stages, Copying, Empty, Locking, Starting
    <3>3. v.head <= head
      <4>1. w.head <= head /\ head \in Nat  BY <1>1, <1>2 DEF Headed, TypeOK, Heads
      <4>2. v.head \in {w.head, head}
        <5>1. Aimed(v, w) => v.head \in {w.head, head}  BY DEF Aimed, SameAim
        <5>2. Keyed(v, w) => v.head \in {w.head, head}  BY DEF Keyed, SameAim
        <5>3. QED  BY <2>3, <5>1, <5>2 DEF Looked
      <4>3. QED  BY <4>1, <4>2
    <3>4. Headed({v}, head)  BY <3>3 DEF Headed
    <3>5. QED  BY <2>1, <3>1, <3>2, <3>4, WentPlaced
  <2>4. QED  BY <1>1, <1>8, <2>2, <2>3, LookStep
<1>9. CASE Dispatch(p)
  <2>1. /\ at[p] = "dispatch" /\ UNCHANGED <<head, store, inside>>
        /\ \/ Left(p)
           \/ Placing(p, "undo", mine[p]) /\ Noting(p, outdated[p]) /\ fresh' = fresh
    BY <1>1, <1>9, DispatchStep
  <2>2. CASE Left(p)  BY <2>1, <2>2, LeftPlaced
  <2>3. CASE Placing(p, "undo", mine[p]) /\ Noting(p, outdated[p]) /\ fresh' = fresh
    <3>1. Seat("undo", mine[p], outdated[p], p \in inside, p \in fresh)
      BY <1>2, <2>1 DEF Seat, Stages, Copying, Empty, Locking, Starting
    <3>2. Apart(p)  BY <2>1, <2>3, NoteApart
    <3>3. QED  BY <1>2, <2>1, <2>3, <3>1, <3>2, ApartSeats DEF Placing, Noting, WellFormed, Placed
  <2>4. QED  BY <2>1, <2>2, <2>3
<1>10. CASE Undo(p)
  <2>1. /\ at[p] = "undo" /\ UNCHANGED <<head, store, inside, fresh>>
        /\ \E w \in mine[p], v \in Watches :
             /\ Placing(p, "forget", {v})
             /\ Noting(p, outdated[p]) \/ Noting(p, {})
             /\ v.head <= head
    <3>1. PICK w \in mine[p], v \in Watches :
                /\ Placing(p, "forget", {v})
                /\ \/ Noting(p, outdated[p]) /\ SameAim(v, w)
                   \/ /\ Noting(p, {})
                      /\ \E u \in store : SameAim(v, u)
      BY <1>1, <1>10, UndoStep
    <3>2. v.head <= head  BY <1>2, <3>1 DEF SameAim, Headed, WellFormed, Placed
    <3>3. QED  BY <1>1, <1>10, <3>1, <3>2, UndoStep DEF Others
  <2>2. PICK v \in Watches : /\ Placing(p, "forget", {v}) /\ v.head <= head
                             /\ Noting(p, outdated[p]) \/ Noting(p, {})
    BY <2>1
  <2>3. Apart(p)  BY <2>1, <2>2, NoteApart
  <2>4. Seat("forget", {v}, outdated'[p], p \in inside, p \in fresh)
    BY <1>2, <2>1 DEF Seat, One, Stages, Copying, Empty, Locking, Starting
  <2>5. Headed({v}, head)  BY <2>2 DEF Headed
  <2>6. QED  BY <2>1, <2>2, <2>3, <2>4, <2>5, ApartSeats DEF Placing, WellFormed, Placed
<1>11. CASE Release(p)
  <2>1. /\ at[p] = "release" /\ inside' = inside \ {p} /\ Placing(p, "idle", mine[p])
        /\ UNCHANGED <<head, store, fresh, outdated>>
    BY <1>1, <1>11, ReleaseStep
  <2>2. Apart(p)  BY <2>1 DEF Apart, Placing
  <2>3. Seat("idle", mine[p], outdated[p], FALSE, p \in fresh)
    BY <1>2, <2>1 DEF Seat, Copying, Empty, Locking, Starting
  <2>4. (p \in inside') <=> FALSE  BY <2>1
  <2>5. Seat("idle", mine[p], outdated[p], p \in inside', p \in fresh)  BY <2>3, <2>4 DEF Seat
  <2>6. QED  BY <1>2, <2>1, <2>2, <2>5, ApartSeats DEF Placing, WellFormed, Placed
<1>12. QED
  BY <1>3, <1>4, <1>5, <1>6, <1>7, <1>8, <1>9, <1>10, <1>11 DEF Evaluation

(* Those of a stop.                                                        *)
LEMMA StoppingPlaced ==
    ASSUME WellFormed, NEW p \in Procs, Stopping(p)
    PROVE  Placed'
<1>1. TypeOK  BY DEF WellFormed
<1>2. Seat(at[p], mine[p], outdated[p], p \in inside, p \in fresh) /\ Headed(mine[p], head)
  BY DEF WellFormed, Placed, Seated
<1>3. CASE StopGet(p)
  <2>1. /\ at[p] = "stopGet" /\ UNCHANGED Others
        /\ Left(p) \/ \E w \in store, a \in {"stopCron", "stopDelete"} : Found(p, a, w)
    BY <1>1, <1>3, StopGetStep
  <2>2. QED  BY <2>1, FoundPlaced, LeftPlaced DEF Others
<1>4. CASE StopCron(p)
  <2>1. /\ at[p] = "stopCron" /\ UNCHANGED <<head, store, inside, fresh, outdated>>
        /\ \/ Placing(p, "stopDelete", mine[p])
           \/ \E w \in mine[p], v \in Watches : Placing(p, "stopSave", {v}) /\ SameAim(v, w)
    BY <1>1, <1>4, StopCronStep
  <2>2. CASE Placing(p, "stopDelete", mine[p])
    <3>1. Seat("stopDelete", mine[p], outdated[p], p \in inside, p \in fresh)
      BY <1>2, <2>1 DEF Seat, Stages, Copying, Empty, Locking, Starting
    <3>2. QED  BY <1>2, <2>1, <2>2, <3>1, WentPlaced
  <2>3. ASSUME NEW w \in mine[p], NEW v \in Watches, Placing(p, "stopSave", {v}), SameAim(v, w)
        PROVE  Placed'
    <3>1. Seat("stopSave", {v}, outdated[p], p \in inside, p \in fresh)
      BY <1>2, <2>1 DEF Seat, One, Stages, Copying, Empty, Locking, Starting
    <3>2. Headed({v}, head)  BY <1>2, <2>3 DEF Headed, SameAim
    <3>3. QED  BY <2>1, <2>3, <3>1, <3>2, WentPlaced
  <2>4. QED  BY <2>1, <2>2, <2>3
<1>5. ASSUME at[p] \in {"stopSave", "stopDelete"}
      PROVE  Seat(Home(p), {}, {}, p \in inside, p \in fresh)
  <2>1. CASE p \in inside
    BY <1>2, <1>5, <2>1 DEF Home, Seat, One, Copying, Empty, Locking, Starting
  <2>2. CASE p \notin inside
    BY <1>2, <1>5, <2>2 DEF Home, Seat, One, Copying, Empty, Locking, Starting
  <2>3. QED  BY <2>1, <2>2
<1>6. CASE StopSave(p)
  <2>1. /\ at[p] = "stopSave" /\ Wrote(p, mine[p]) /\ Placing(p, Home(p), {})
        /\ UNCHANGED <<head, inside, fresh>>
    BY <1>1, <1>6, StopSaveStep
  <2>2. QED  BY <1>5, <2>1, WrotePlaced
<1>7. CASE StopDelete(p)
  <2>1. /\ at[p] = "stopDelete" /\ Wrote(p, {}) /\ Placing(p, Home(p), {})
        /\ UNCHANGED <<head, inside, fresh>>
    BY <1>1, <1>7, StopDeleteStep
  <2>2. QED  BY <1>5, <2>1, WrotePlaced
<1>8. QED  BY <1>3, <1>4, <1>6, <1>7 DEF Stopping

(* Those of the tool.                                                      *)
LEMMA ToolPlaced ==
    ASSUME WellFormed, NEW p \in Procs, Tool(p)
    PROVE  Placed'
<1>1. TypeOK  BY DEF WellFormed
<1>2. Seat(at[p], mine[p], outdated[p], p \in inside, p \in fresh) /\ Headed(mine[p], head)
  BY DEF WellFormed, Placed, Seated
<1>3. One(store) /\ Headed(store, head)  BY DEF WellFormed, Placed
<1>4. CASE RetryGet(p)
  <2>1. at[p] = "retryGet" /\ UNCHANGED <<head, store, inside>>
    BY <1>1, <1>4, RetryGetStep DEF Others
  <2>2. ASSUME NEW w \in store, NEW v \in Watches, v.head = w.head,
               Placing(p, "retrySave", {v}), Noting(p, {}), fresh' = fresh
        PROVE  Placed'
    <3>1. Apart(p)  BY <2>1, <2>2, NoteApart
    <3>2. Seat("retrySave", {v}, {}, p \in inside, p \in fresh)
      BY <1>2, <2>1 DEF Seat, One, Stages, Copying, Empty, Locking, Starting
    <3>3. Headed({v}, head)  BY <1>3, <2>2 DEF Headed
    <3>4. QED  BY <1>3, <2>1, <2>2, <3>1, <3>2, <3>3, ApartSeats DEF Placing, Noting, WellFormed
  <2>3. QED  BY <1>1, <1>4, <2>1, <2>2, LeftPlaced, RetryGetStep
<1>5. CASE RetrySave(p)
  <2>1. /\ at[p] = "retrySave" /\ Wrote(p, mine[p]) /\ Placing(p, "release", {})
        /\ UNCHANGED <<head, inside, fresh>>
    BY <1>1, <1>5, RetrySaveStep
  <2>2. Seat("release", {}, {}, p \in inside, p \in fresh)
    BY <1>2, <2>1 DEF Seat, One, Copying, Empty, Locking, Starting
  <2>3. QED  BY <2>1, <2>2, WrotePlaced
<1>6. CASE StartGet(p)
  <2>1. at[p] = "startGet" /\ UNCHANGED <<head, store, inside>>
    BY <1>1, <1>6, StartGetStep DEF Others
  <2>2. CASE Left(p)  BY <2>1, <2>2, LeftPlaced
  <2>3. CASE /\ Placing(p, "startPut", mine[p]) /\ Noting(p, {}) /\ fresh' = fresh \union {p}
    <3>1. Apart(p)  BY <2>1, <2>3, NoteApart
    <3>2. Seat("startPut", mine[p], {}, p \in inside, TRUE)
      BY <1>2, <2>1 DEF Seat, Stages, Copying, Empty, Locking, Starting
    <3>3. p \in fresh' <=> TRUE  BY <2>3
    <3>4. Seat("startPut", mine[p], {}, p \in inside, p \in fresh')  BY <3>2, <3>3 DEF Seat
    <3>5. QED  BY <1>2, <1>3, <2>1, <2>3, <3>1, <3>4, ApartSeats DEF Placing, Noting, WellFormed
  <2>4. ASSUME NEW new \in mine[p], NEW old \in store, TakesOver(p, new, old)
        PROVE  Placed'
    <3>1. PICK v \in Watches : Placing(p, "startPut", {v}) /\ v.head = new.head
      BY <2>4 DEF TakesOver
    <3>2. Noting(p, {}) /\ fresh' = fresh  BY <2>4 DEF TakesOver
    <3>3. Apart(p)  BY <2>1, <3>1, <3>2, NoteApart
    <3>4. Seat("startPut", {v}, {}, p \in inside, p \in fresh)
      BY <1>2, <2>1 DEF Seat, One, Stages, Copying, Empty, Locking, Starting
    <3>5. Headed({v}, head)  BY <1>2, <3>1 DEF Headed
    <3>6. QED  BY <1>3, <2>1, <3>1, <3>2, <3>3, <3>4, <3>5, ApartSeats DEF Placing, Noting, WellFormed
  <2>5. QED  BY <1>1, <1>6, <2>2, <2>3, <2>4, StartGetStep
<1>7. CASE StartPut(p)
  <2>1. /\ at[p] = "startPut" /\ Wrote(p, mine[p]) /\ Placing(p, "startCron", mine[p])
        /\ UNCHANGED <<head, inside, fresh>>
    BY <1>1, <1>7, StartPutStep
  <2>2. Seat("startCron", mine[p], {}, p \in inside, p \in fresh)
    BY <1>2, <2>1 DEF Seat, Stages, Copying, Empty, Locking, Starting
  <2>3. QED  BY <2>1, <2>2, WrotePlaced
<1>8. ASSUME at[p] \in {"startCron", "startCreate"}, UNCHANGED <<head, store, inside, fresh, outdated>>,
             NEW w \in mine[p], NEW v \in Watches, SameAim(v, w), Placing(p, "startSave", {v})
      PROVE  Placed'
  <2>1. Seat("startSave", {v}, outdated[p], p \in inside, p \in fresh)
    BY <1>2, <1>8 DEF Seat, One, Stages, Copying, Empty, Locking, Starting
  <2>2. Headed({v}, head)  BY <1>2, <1>8 DEF Headed, SameAim
  <2>3. QED  BY <1>8, <2>1, <2>2, WentPlaced
<1>9. CASE StartCron(p)
  <2>1. at[p] = "startCron" /\ UNCHANGED <<head, store, inside, fresh, outdated>>
    BY <1>1, <1>9, StartCronStep
  <2>2. CASE Placing(p, "startCreate", mine[p])
    <3>1. Seat("startCreate", mine[p], outdated[p], p \in inside, p \in fresh)
      BY <1>2, <2>1 DEF Seat, Stages, Copying, Empty, Locking, Starting
    <3>2. QED  BY <1>2, <2>1, <2>2, <3>1, WentPlaced
  <2>3. CASE \E w \in mine[p], v \in Watches : SameAim(v, w) /\ Placing(p, "startSave", {v})
    BY <1>8, <2>1, <2>3
  <2>4. QED  BY <1>1, <1>9, <2>2, <2>3, StartCronStep DEF WithCron
<1>10. CASE StartCreate(p)
  <2>1. at[p] = "startCreate" /\ UNCHANGED <<head, store, inside, fresh, outdated>>
    BY <1>1, <1>10, StartCreateStep
  <2>2. CASE Placing(p, "rollback", mine[p])
    <3>1. Seat("rollback", mine[p], outdated[p], p \in inside, p \in fresh)
      BY <1>2, <2>1 DEF Seat, Stages, Copying, Empty, Locking, Starting
    <3>2. QED  BY <1>2, <2>1, <2>2, <3>1, WentPlaced
  <2>3. CASE \E w \in mine[p], v \in Watches : SameAim(v, w) /\ Placing(p, "startSave", {v})
    BY <1>8, <2>1, <2>3
  <2>4. QED  BY <1>1, <1>10, <2>2, <2>3, StartCreateStep DEF WithCron
<1>11. ASSUME at[p] \in {"startSave", "rollbackItem"}, fresh' = fresh \ {p}
       PROVE  Seat("idle", {}, {}, p \in inside, p \in fresh')
  BY <1>2, <1>11 DEF Seat, One, Copying, Empty, Locking, Starting
<1>12. CASE StartSave(p)
  <2>1. /\ at[p] = "startSave" /\ Wrote(p, mine[p]) /\ Placing(p, "idle", {})
        /\ UNCHANGED <<head, inside>> /\ fresh' = fresh \ {p}
    BY <1>1, <1>12, StartSaveStep
  <2>2. QED  BY <1>11, <2>1, WrotePlaced
<1>13. CASE Rollback(p)
  <2>1. at[p] = "rollback" /\ UNCHANGED <<head, store, inside>>
    BY <1>1, <1>13, RollbackStep
  <2>2. CASE Left(p)  BY <2>1, <2>2, LeftPlaced
  <2>3. CASE Placing(p, "rollbackItem", mine[p]) /\ UNCHANGED <<fresh, outdated>>
    <3>1. Seat("rollbackItem", mine[p], outdated[p], p \in inside, p \in fresh)
      BY <1>2, <2>1 DEF Seat, Stages, Copying, Empty, Locking, Starting
    <3>2. QED  BY <1>2, <2>1, <2>3, <3>1, WentPlaced
  <2>4. QED  BY <1>1, <1>13, <2>2, <2>3, RollbackStep
<1>14. CASE RollbackItem(p)
  <2>1. /\ at[p] = "rollbackItem" /\ Wrote(p, {}) /\ Placing(p, "idle", {})
        /\ UNCHANGED <<head, inside>> /\ fresh' = fresh \ {p}
    BY <1>1, <1>14, RollbackItemStep
  <2>2. QED  BY <1>11, <2>1, WrotePlaced
<1>15. QED
  BY <1>4, <1>5, <1>6, <1>7, <1>9, <1>10, <1>12, <1>13, <1>14 DEF Tool

(* Those that begin an operation, or break one off.                        *)
LEMMA CallPlaced ==
    ASSUME WellFormed, NEW p \in Procs,
           \/ Tick(p) \/ Webhook(p) \/ RetryCall(p)
           \/ \E t \in Threads : StopCall(p, t) \/ StartCall(p, t)
    PROVE  Placed'
<1>1. TypeOK  BY DEF WellFormed
<1>2. Seat(at[p], mine[p], outdated[p], p \in inside, p \in fresh) /\ Headed(mine[p], head)
  BY DEF WellFormed, Placed, Seated
<1>3. CASE Tick(p) \/ Webhook(p) \/ RetryCall(p)
  <2>1. PICK a \in {"load", "stamp", "retryGet"} : Took(p, a)  BY <1>1, <1>3, TakeStep
  <2>2. Apart(p)  BY <2>1 DEF Took, Apart, Placing
  <2>3. Seat(a, mine[p], outdated[p], TRUE, p \in fresh)
    BY <1>2, <2>1 DEF Took, Seat, Copying, Empty, Locking, Starting
  <2>4. p \in inside' <=> TRUE  BY <2>1 DEF Took
  <2>5. Seat(a, mine[p], outdated[p], p \in inside', p \in fresh)  BY <2>3, <2>4 DEF Seat
  <2>6. QED  BY <1>2, <2>1, <2>2, <2>5, ApartSeats DEF Took, Placing, WellFormed, Placed
<1>4. ASSUME NEW t \in Threads, StopCall(p, t) PROVE Placed'
  <2>1. /\ at[p] = "idle" /\ UNCHANGED <<head, store, inside, fresh, outdated>>
        /\ Placing(p, "stopGet", mine[p])
    BY <1>1, <1>4, StopCallStep DEF Others
  <2>2. Seat("stopGet", mine[p], outdated[p], p \in inside, p \in fresh)
    BY <1>2, <2>1 DEF Seat, Copying, Empty, Locking, Starting
  <2>3. QED  BY <1>2, <2>1, <2>2, WentPlaced
<1>5. ASSUME NEW t \in Threads, StartCall(p, t) PROVE Placed'
  <2>1. /\ at[p] = "idle" /\ UNCHANGED <<head, store, inside, fresh, outdated>>
        /\ \E v \in Watches : Placing(p, "startGet", {v}) /\ v.head = head
    BY <1>1, <1>5, StartCallStep DEF Others
  <2>2. PICK v \in Watches : Placing(p, "startGet", {v}) /\ v.head = head  BY <2>1
  <2>3. Seat("startGet", {v}, outdated[p], p \in inside, p \in fresh)
    BY <1>2, <2>1 DEF Seat, One, Stages, Copying, Empty, Locking, Starting
  <2>4. Headed({v}, head)
    <3>1. head \in Nat  BY <1>1 DEF TypeOK, Heads
    <3>2. QED  BY <2>2, <3>1 DEF Headed
  <2>5. QED  BY <2>1, <2>2, <2>3, <2>4, WentPlaced
<1>6. QED  BY <1>3, <1>4, <1>5

(* One that is broken off.                                                 *)
LEMMA BrokenPlaced ==
    ASSUME WellFormed, NEW p \in Procs, Broken(p)
    PROVE  Placed'
<1>1. TypeOK  BY DEF WellFormed
<1>2. Seat(at[p], mine[p], outdated[p], p \in inside, p \in fresh) /\ Headed(mine[p], head)
  BY DEF WellFormed, Placed, Seated
<1>3. UNCHANGED <<head, store>>  BY <1>1, BrokenStep
<1>4. CASE /\ Placing(p, "idle", {}) /\ Noting(p, {})
           /\ inside' = inside \ {p} /\ fresh' = fresh \ {p}
  <2>1. Apart(p)  BY <1>3, <1>4 DEF Apart, Placing, Noting
  <2>2. Seat("idle", {}, {}, p \in inside', p \in fresh')
    BY <1>4 DEF Seat, One, Copying, Empty, Locking, Starting
  <2>3. QED  BY <1>3, <1>4, <2>1, <2>2, ApartSeats DEF Placing, Noting, WellFormed, Placed, Headed
<1>5. CASE Left(p) /\ UNCHANGED inside
  BY <1>3, <1>5, LeftPlaced
<1>6. CASE /\ at[p] \in {"startCron", "startCreate", "startSave"}
           /\ Placing(p, "rollback", mine[p]) /\ UNCHANGED <<inside, fresh, outdated>>
  <2>1. Seat("rollback", mine[p], outdated[p], p \in inside, p \in fresh)
    BY <1>2, <1>6 DEF Seat, Stages, Copying, Empty, Locking, Starting
  <2>2. QED  BY <1>2, <1>3, <1>6, <2>1, WentPlaced
<1>7. QED  BY <1>1, <1>4, <1>5, <1>6, BrokenStep

(* What the pull request does leaves every operation where it is.          *)
LEMMA MovedPlaced ==
    ASSUME WellFormed, Moved, TypeOK'
    PROVE  Placed'
<1>1. One(store') /\ \A p \in Procs : One(mine'[p]) /\ (mine'[p] = {} <=> mine[p] = {})
  BY DEF Moved, Resettled, WellFormed, Placed, Seated, Seat, One
<1>2. ASSUME NEW after, NEW before \in SUBSET Watches, Resettled(after, before), Headed(before, head)
      PROVE  Headed(after, head')
  <2> SUFFICES ASSUME NEW v \in after PROVE v.head <= head'  BY DEF Headed
  <2>1. PICK w \in before : v.head = w.head  BY <1>2 DEF Resettled, Alike, SameAim
  <2>2. w.head <= head  BY <1>2 DEF Headed
  <2>3. w.head \in 1..MaxHeads  BY Fields
  <2>4. head \in 1..MaxHeads /\ head' \in 1..MaxHeads /\ head <= head'
    BY DEF Moved, WellFormed, TypeOK, Heads
  <2>5. QED  BY <2>1, <2>2, <2>3, <2>4, BoundsAssumption
<1>3. Headed(store', head')
  BY <1>2 DEF Moved, WellFormed, TypeOK, Placed
<1>4. \A p \in Procs : Headed(mine'[p], head')
  BY <1>2 DEF Moved, WellFormed, TypeOK, Placed
<1>5. Seated'
  <2> SUFFICES ASSUME NEW p \in Procs
               PROVE  Seat(at'[p], mine'[p], outdated'[p], p \in inside', p \in fresh')
    BY DEF Seated
  <2>1. Seat(at[p], mine[p], outdated[p], p \in inside, p \in fresh)
    BY DEF WellFormed, Placed, Seated
  <2>2. QED  BY <1>1, <2>1 DEF Moved, Seat
<1>6. QED  BY <1>1, <1>3, <1>4, <1>5 DEF Placed

(* In the beginning there is nothing to place.                             *)
LEMMA InitPlaced == Init => Placed
<1> SUFFICES ASSUME Init PROVE Placed  OBVIOUS
<1>1. \A p \in Procs : Seat("idle", {}, {}, FALSE, FALSE)
  BY DEF Seat, One, Copying, Empty, Locking, Starting
<1>2. Seated
  <2> SUFFICES ASSUME NEW p \in Procs
               PROVE  Seat(at[p], mine[p], outdated[p], p \in inside, p \in fresh)
    BY DEF Seated
  <2>1. at[p] = "idle" /\ mine[p] = {} /\ outdated[p] = {}
        /\ ~(p \in inside) /\ ~(p \in fresh)
    BY DEF Init
  <2>2. QED  BY <1>1, <2>1 DEF Seat
<1>3. One(store) /\ Headed(store, head) /\ \A p \in Procs : Headed(mine[p], head)
  BY DEF Init, One, Headed
<1>4. QED  BY <1>2, <1>3 DEF Placed

(* So every step keeps operations and copies together.                     *)
LEMMA StepWellFormed == WellFormed /\ [Next]_vars => WellFormed'
<1> SUFFICES ASSUME WellFormed, [Next]_vars PROVE WellFormed'  OBVIOUS
<1>1. TypeOK /\ TypeOK'  BY StepTypes DEF WellFormed
<1>2. Placed'
  <2>1. ASSUME NEW p \in Procs,
               \/ Tick(p) \/ Webhook(p) \/ RetryCall(p)
               \/ \E t \in Threads : StopCall(p, t) \/ StartCall(p, t)
        PROVE  Placed'
    BY <2>1, CallPlaced
  <2>2. ASSUME NEW p \in Procs, Run(p) PROVE Placed'
    BY <2>2, EvaluationPlaced, StoppingPlaced, ToolPlaced DEF Run
  <2>3. ASSUME NEW p \in Procs, Broken(p) PROVE Placed'
    BY <2>3, BrokenPlaced
  <2>4. CASE LockExpires
    BY <1>1, <2>4, ExpiryStep DEF WellFormed, Placed, Seated
  <2>5. CASE Report \/ Push \/ TenMinutes
    BY <1>1, <2>5, MoveStep, MovedPlaced
  <2>6. CASE UNCHANGED vars
    BY <2>6 DEF WellFormed, Placed, Seated, vars, project, procs
  <2>7. QED  BY <2>1, <2>2, <2>3, <2>4, <2>5, <2>6 DEF Next
<1>3. QED  BY <1>1, <1>2 DEF WellFormed

(* And they are together in every state.                                   *)
LEMMA AlwaysWellFormed == Spec => []WellFormed
<1>1. Init => WellFormed  BY InitTypes, InitPlaced DEF WellFormed
<1>2. QED  BY <1>1, StepWellFormed, PTL DEF Spec

-----------------------------------------------------------------------------
(* The steps that write the watch, and those that do not.                  *)

Quiet(p) ==
    \/ Stamp(p) \/ Load(p) \/ Look(p) \/ Dispatch(p) \/ Undo(p) \/ StopGet(p) \/ StopCron(p)
    \/ RetryGet(p) \/ StartGet(p) \/ StartCron(p) \/ StartCreate(p) \/ Rollback(p)
    \/ (\E t \in Threads : StopCall(p, t) \/ StartCall(p, t)) \/ Broken(p)

Writing(p) ==
    \/ StampSave(p) \/ Save(p) \/ SaveAndGoOn(p) \/ StopSave(p) \/ StopDelete(p)
    \/ RetrySave(p) \/ StartPut(p) \/ StartSave(p) \/ RollbackItem(p)

(* Every step is one of these.                                             *)
LEMMA AllSteps ==
    ASSUME Next
    PROVE  \/ \E p \in Procs :
                Tick(p) \/ Webhook(p) \/ RetryCall(p) \/ Quiet(p) \/ Writing(p) \/ Release(p)
           \/ LockExpires \/ Report \/ Push \/ TenMinutes
<1>1. \A p \in Procs : Run(p) => Quiet(p) \/ Writing(p) \/ Release(p)
  BY DEF Run, Evaluation, Stopping, Tool, Quiet, Writing
<1>2. \A p \in Procs : Broken(p) \/ (\E t \in Threads : StopCall(p, t) \/ StartCall(p, t)) => Quiet(p)
  BY DEF Quiet
<1>3. QED  BY <1>1, <1>2 DEF Next

(* Without a write, the others notice nothing.                             *)
Unnoticed(p) ==
    /\ store' = store /\ lock' = lock /\ inside' \in {inside, inside \ {p}} /\ head' = head
    /\ at' \in [Procs -> Stages] /\ mine' \in [Procs -> SUBSET Watches]
    /\ outdated'[p] \in {outdated[p], {}}
    /\ \A q \in Procs \ {p} : at'[q] = at[q] /\ mine'[q] = mine[q] /\ outdated'[q] = outdated[q]
    /\ causes \subseteq causes'
    /\ causes' \subseteq causes \union {"race", "error", "dropped", "partial", "rewound"}

(* The operation may have read the watch ...                               *)
LEMMA GoneUnnoticed ==
    ASSUME TypeOK, NEW p \in Procs, NEW a, NEW m, NEW o, Placing(p, a, m), Noting(p, o),
           o \in {outdated[p], {}}, UNCHANGED <<store, lock, head>>, inside' \in {inside, inside \ {p}},
           causes \subseteq causes',
           causes' \subseteq causes \union {"race", "error", "dropped", "partial", "rewound"}
    PROVE  Unnoticed(p)
  BY DEF Unnoticed, Placing, Noting

(* ... or not.                                                             *)
LEMMA WentUnnoticed ==
    ASSUME TypeOK, NEW p \in Procs, NEW a, NEW m, Placing(p, a, m),
           UNCHANGED <<store, lock, head, inside, outdated>>, causes \subseteq causes',
           causes' \subseteq causes \union {"race", "error", "dropped", "partial", "rewound"}
    PROVE  Unnoticed(p)
  BY DEF Unnoticed, Placing

(* No other operation notices a step without a write.                      *)
LEMMA QuietStep ==
    ASSUME TypeOK, NEW p \in Procs, Quiet(p)
    PROVE  Unnoticed(p)
<1>1. ASSUME Left(p), UNCHANGED <<store, lock, head, inside>>, causes \subseteq causes',
             causes' \subseteq causes \union {"race", "error", "dropped", "partial", "rewound"}
      PROVE  Unnoticed(p)
  BY <1>1, GoneUnnoticed DEF Left
<1>2. ASSUME UNCHANGED Others, UNCHANGED causes, NEW w, NEW a, Found(p, a, w)
      PROVE  Unnoticed(p)
  BY <1>2, GoneUnnoticed DEF Found, Others
<1>3. CASE Stamp(p)  BY <1>1, <1>2, <1>3, StampStep DEF Others
<1>4. CASE Load(p)  BY <1>1, <1>2, <1>4, LoadStep DEF Others
<1>5. CASE StopGet(p)
  <2>1. /\ UNCHANGED Others /\ UNCHANGED causes
        /\ Left(p) \/ \E w \in store, a \in {"stopDelete", "stopCron"} : Found(p, a, w)
    BY <1>5, StopGetStep
  <2>2. QED  BY <1>1, <1>2, <2>1 DEF Others
<1>6. CASE Look(p)
  <2>1. /\ UNCHANGED <<store, lock, head, inside, outdated, causes>>
        /\ \E a, m : Placing(p, a, m)
    BY <1>6, LookStep DEF Others, Looked
  <2>2. QED  BY <2>1, WentUnnoticed
<1>7. CASE Dispatch(p)
  <2>1. /\ UNCHANGED <<store, lock, head, inside>>
        /\ causes \subseteq causes'
        /\ causes' \subseteq causes \union {"race", "error", "dropped", "partial", "rewound"}
        /\ Left(p) \/ (Placing(p, "undo", mine[p]) /\ Noting(p, outdated[p]))
    BY <1>7, DispatchStep
  <2>2. QED  BY <1>1, <2>1, GoneUnnoticed
<1>8. CASE Undo(p)
  <2>1. /\ UNCHANGED <<store, lock, head, inside>>
        /\ causes \subseteq causes'
        /\ causes' \subseteq causes \union {"race", "error", "dropped", "partial", "rewound"}
        /\ \E v : Placing(p, "forget", {v}) /\ (Noting(p, outdated[p]) \/ Noting(p, {}))
    BY <1>8, UndoStep DEF Others
  <2>2. QED  BY <2>1, GoneUnnoticed
<1>9. CASE StopCron(p)
  <2>1. /\ UNCHANGED <<store, lock, head, inside, outdated, causes>>
        /\ \E a, m : Placing(p, a, m)
    BY <1>9, StopCronStep
  <2>2. QED  BY <2>1, WentUnnoticed
<1>10. CASE RetryGet(p)
  <2>1. /\ UNCHANGED <<store, lock, head, inside, causes>>
        /\ Left(p) \/ \E v : Placing(p, "retrySave", {v}) /\ Noting(p, {})
    BY <1>10, RetryGetStep DEF Others
  <2>2. QED  BY <1>1, <2>1, GoneUnnoticed
<1>11. CASE StartGet(p)
  <2>1. /\ UNCHANGED <<store, lock, head, inside>>
        /\ causes \subseteq causes' /\ causes' \subseteq causes \union {"rewound"}
        /\ \/ Left(p)
           \/ Placing(p, "startPut", mine[p]) /\ Noting(p, {})
           \/ \E new \in mine[p], old \in store : TakesOver(p, new, old)
    BY <1>11, StartGetStep DEF Others
  <2>2. CASE \E new \in mine[p], old \in store : TakesOver(p, new, old)
    <3>1. \E v : Placing(p, "startPut", {v}) /\ Noting(p, {})  BY <2>2 DEF TakesOver
    <3>2. QED  BY <2>1, <3>1, GoneUnnoticed
  <2>3. QED  BY <1>1, <2>1, <2>2, GoneUnnoticed
<1>12. CASE StartCron(p)
  <2>1. /\ UNCHANGED <<store, lock, head, inside, outdated, causes>>
        /\ \E a, m : Placing(p, a, m)
    BY <1>12, StartCronStep
  <2>2. QED  BY <2>1, WentUnnoticed
<1>13. CASE StartCreate(p)
  <2>1. /\ UNCHANGED <<store, lock, head, inside, outdated>>
        /\ causes' \in {causes, causes \union {"partial"}}
        /\ \E a, m : Placing(p, a, m)
    BY <1>13, StartCreateStep
  <2>2. QED  BY <2>1, WentUnnoticed
<1>14. CASE Rollback(p)
  <2>1. /\ UNCHANGED <<store, lock, head, inside, causes>>
        /\ \/ Left(p)
           \/ Placing(p, "rollbackItem", mine[p]) /\ UNCHANGED outdated
    BY <1>14, RollbackStep
  <2>2. QED  BY <1>1, <2>1, WentUnnoticed
<1>15. ASSUME NEW t \in Threads, StopCall(p, t) \/ StartCall(p, t) PROVE Unnoticed(p)
  <2>1. /\ UNCHANGED <<store, lock, head, inside, outdated, causes>>
        /\ \E a, m : Placing(p, a, m)
    BY <1>15, StopCallStep, StartCallStep DEF Others
  <2>2. QED  BY <2>1, WentUnnoticed
<1>16. CASE Broken(p)
  <2>1. /\ UNCHANGED <<store, lock, head>>
        /\ causes \subseteq causes'
        /\ causes' \subseteq causes \union {"race", "error", "dropped", "partial", "rewound"}
        /\ \/ Placing(p, "idle", {}) /\ Noting(p, {}) /\ inside' = inside \ {p}
           \/ Left(p) /\ UNCHANGED inside
           \/ Placing(p, "rollback", mine[p]) /\ UNCHANGED <<inside, outdated>>
    BY <1>16, BrokenStep
  <2>2. CASE Placing(p, "idle", {}) /\ Noting(p, {}) /\ inside' = inside \ {p}
    BY <2>1, <2>2, GoneUnnoticed
  <2>3. QED  BY <1>1, <2>1, <2>2, WentUnnoticed
<1>17. QED
  BY <1>3, <1>4, <1>5, <1>6, <1>7, <1>8, <1>9, <1>10, <1>11, <1>12, <1>13, <1>14, <1>15, <1>16
  DEF Quiet

(* A write writes the copy, or deletes the watch.                          *)
LEMMA WritingStep ==
    ASSUME TypeOK, NEW p \in Procs, Writing(p)
    PROVE  /\ UNCHANGED <<head, ci, crons, created, lock, inside>>
           /\ Wrote(p, mine[p]) \/ Wrote(p, {})
           /\ \E a \in Stages, m \in {mine[p], {}} : Placing(p, a, m)
<1>1. CASE StampSave(p)  BY <1>1, StampSaveStep DEF Stages
<1>2. CASE Save(p)  BY <1>2, SaveStep DEF Stages
<1>3. CASE SaveAndGoOn(p)  BY <1>3, SaveAndGoOnStep DEF Stages
<1>4. CASE StopSave(p)  BY <1>4, StopSaveStep DEF Stages, Home
<1>5. CASE StopDelete(p)  BY <1>5, StopDeleteStep DEF Stages, Home
<1>6. CASE RetrySave(p)  BY <1>6, RetrySaveStep DEF Stages
<1>7. CASE StartPut(p)  BY <1>7, StartPutStep DEF Stages
<1>8. CASE StartSave(p)  BY <1>8, StartSaveStep DEF Stages
<1>9. CASE RollbackItem(p)  BY <1>9, RollbackItemStep DEF Stages
<1>10. QED
  BY <1>1, <1>2, <1>3, <1>4, <1>5, <1>6, <1>7, <1>8, <1>9 DEF Writing

-----------------------------------------------------------------------------
(* The lock isolates.                                                      *)

(***************************************************************************)
(* While no lock timed out in its holder's hands there is one holder at    *)
(* most, the lock is held, and what the holder has read is what the last   *)
(* holder left.                                                            *)
(***************************************************************************)
Locked ==
    /\ LockIsolates
    /\ "overrun" \notin causes =>
          /\ inside # {} => lock = "held"
          /\ \A p, q \in inside : p = q
          /\ \A p \in inside : "locked" \notin outdated[p]

(* Every step keeps the lock's promise.                                    *)
LEMMA StepLocked == WellFormed /\ Locked /\ [Next]_vars => Locked'
<1> SUFFICES ASSUME WellFormed, Locked, [Next]_vars PROVE Locked'  OBVIOUS
<1>1. TypeOK /\ inside \subseteq Procs  BY DEF WellFormed, TypeOK
<1>2. \A p \in Procs : Seat(at[p], mine[p], outdated[p], p \in inside, p \in fresh)
  BY DEF WellFormed, Placed, Seated
<1>3. ASSUME NEW p \in Procs, Tick(p) \/ Webhook(p) \/ RetryCall(p) PROVE Locked'
  <2>1. /\ at[p] = "idle" /\ lock = "free" /\ lock' = "held" /\ inside' = inside \union {p}
        /\ UNCHANGED <<outdated, causes>>
    BY <1>1, <1>3, TakeStep DEF Took
  <2>2. outdated[p] = {}  BY <1>2, <2>1 DEF Seat, Empty
  <2>3. QED  BY <2>1, <2>2 DEF Locked, LockIsolates
<1>4. ASSUME NEW p \in Procs, Quiet(p) PROVE Locked'
  <2>1. Unnoticed(p)  BY <1>1, <1>4, QuietStep
  <2>2. /\ "clash" \in causes' <=> "clash" \in causes
        /\ "overrun" \in causes' <=> "overrun" \in causes
    BY <2>1 DEF Unnoticed
  <2>3. inside' \subseteq inside /\ lock' = lock  BY <2>1 DEF Unnoticed
  <2>4. \A q \in inside' : outdated'[q] \subseteq outdated[q]
    BY <1>1, <2>1, <2>3 DEF Unnoticed
  <2>5. QED  BY <2>2, <2>3, <2>4 DEF Locked, LockIsolates
<1>5. ASSUME NEW p \in Procs, Writing(p) PROVE Locked'
  <2>1. /\ UNCHANGED <<lock, inside>>
        /\ \E contents : Wrote(p, contents)
    BY <1>1, <1>5, WritingStep
  <2>2. /\ outdated'[p] = {}
        /\ \A q \in Procs \ {p} :
             outdated'[q] = IF mine[q] # {} THEN outdated[q] \union {Kind(p)} ELSE {}
        /\ "clash" \in causes' <=> "clash" \in causes \/ (p \in inside /\ "locked" \in outdated[p])
        /\ "overrun" \in causes' <=> "overrun" \in causes
    BY <2>1 DEF Wrote
  <2>3. LockIsolates'  BY <2>2 DEF Locked, LockIsolates
  <2>4. ASSUME "overrun" \notin causes', NEW q \in inside PROVE "locked" \notin outdated'[q]
    <3>1. CASE q = p  BY <2>2, <3>1
    <3>2. CASE q # p
      <4>1. p \notin inside /\ "locked" \notin outdated[q]  BY <2>2, <2>4, <3>2 DEF Locked
      <4>2. Kind(p) = "unlocked"  BY <4>1 DEF Kind
      <4>3. q \in Procs \ {p}  BY <1>1, <2>4, <3>2
      <4>4. outdated'[q] = {} \/ outdated'[q] = outdated[q] \union {"unlocked"}
        BY <2>2, <4>2, <4>3
      <4>5. QED  BY <4>1, <4>4
    <3>3. QED  BY <3>1, <3>2
  <2>5. QED  BY <2>1, <2>2, <2>3, <2>4 DEF Locked
<1>6. ASSUME NEW p \in Procs, Release(p) PROVE Locked'
  <2>1. /\ at[p] = "release" /\ lock' = "free" /\ inside' = inside \ {p}
        /\ UNCHANGED <<outdated, causes>>
    BY <1>1, <1>6, ReleaseStep
  <2>2. p \in inside  BY <1>2, <2>1 DEF Seat, Locking
  <2>3. QED  BY <2>1, <2>2 DEF Locked, LockIsolates
<1>7. CASE LockExpires
  <2>1. /\ UNCHANGED <<inside, outdated>>
        /\ causes \subseteq causes' /\ causes' \subseteq causes \union {"overrun"}
        /\ inside # {} => "overrun" \in causes'
    BY <1>1, <1>7, ExpiryStep
  <2>2. QED  BY <2>1 DEF Locked, LockIsolates
<1>8. CASE Report \/ Push \/ TenMinutes
  <2>1. UNCHANGED <<lock, inside, outdated, causes>>  BY <1>1, <1>8, MoveStep DEF Moved
  <2>2. QED  BY <2>1 DEF Locked, LockIsolates
<1>9. CASE UNCHANGED vars
  BY <1>9 DEF Locked, LockIsolates, vars, procs
<1>10. QED  BY <1>3, <1>4, <1>5, <1>6, <1>7, <1>8, <1>9, AllSteps

(***************************************************************************)
(* Evaluations, webhooks and recorded reruns never write over each other's *)
(* changes, unless the lock times out on one.                              *)
(***************************************************************************)
THEOREM LockIsolatesAlways == Spec => []LockIsolates
<1>1. Init => Locked  BY DEF Init, Locked, LockIsolates
<1>2. Locked => LockIsolates  BY DEF Locked
<1>3. QED  BY <1>1, <1>2, AlwaysWellFormed, StepLocked, PTL DEF Spec

-----------------------------------------------------------------------------
(* Copies of the watch, and the watch.                                     *)

(* The stages whose copy is written sooner or later.                       *)
Working == {"look", "save", "saveKey", "saveEnd", "dispatch", "undo", "forget", "stopCron",
            "stopSave", "retrySave", "stampSave", "startPut", "startCron", "startCreate",
            "startSave"}

(* What an operation has made of its copy.                                 *)
Made(a, v) ==
    /\ a = "stopSave" => v.status = "inactive"
    /\ a \in Starting => v.status = "active"
    /\ a \in {"saveKey", "dispatch", "undo"} => v.retries < MaxRetries /\ v.retries \in v.keys

(***************************************************************************)
(* How a copy that nobody has outdated differs from the watch: by what the *)
(* operation is going to write.                                            *)
(***************************************************************************)
Fits(a, v, w, rewound) ==
    /\ a \in {"look", "stampSave", "stopCron", "dispatch", "undo", "startCron", "startCreate"} =>
          Alike(v, w)
    /\ a \in {"save", "saveEnd"} =>
          SameWatch(v, w) /\ (w.head < v.head \/ (SameAim(v, w) /\ v.keys = w.keys))
    /\ a = "saveKey" =>
          /\ SameWatch(v, w)
          /\ \/ w.head < v.head
             \/ SameAim(v, w) /\ v.retries \notin w.keys /\ v.keys = w.keys \union {v.retries}
    /\ a = "forget" => SameWatch(v, w) /\ SameAim(v, w) /\ v.keys \subseteq w.keys
    /\ a = "retrySave" =>
          SameWatch(v, w) /\ v.head = w.head /\ v.retries = w.retries + 1 /\ v.keys = w.keys
    /\ a = "stopSave" =>
          v.thread = w.thread /\ v.cron = w.cron /\ SameAim(v, w) /\ v.keys = w.keys
    /\ a = "startPut" =>
          /\ v.cron = w.cron /\ (w.status = "inactive" \/ v.thread = w.thread)
          /\ v.head = w.head => v.retries = w.retries /\ v.keys = w.keys
          /\ v.head < w.head => rewound
    /\ a = "startSave" =>
          v.status = w.status /\ v.thread = w.thread /\ SameAim(v, w) /\ v.keys = w.keys

(* Only the start of a new watch goes on when there is none.               *)
Current(a, f, m, s, rewound) ==
    /\ a \in Working /\ s = {} => a = "startPut" /\ f
    /\ \A v \in m, w \in s : Fits(a, v, w, rewound)

Agrees(p) ==
    /\ \A v \in mine[p] : Made(at[p], v)
    /\ outdated[p] = {} =>
          Current(at[p], p \in fresh, mine[p], store, "rewound" \in causes)

Agreed == \A p \in Procs : Agrees(p)

(* No operation marks another one's watch as new.                          *)
LEMMA FreshStep ==
    ASSUME TypeOK, NEW p \in Procs, Quiet(p) \/ Writing(p)
    PROVE  \A q \in Procs \ {p} : q \in fresh' <=> q \in fresh
<1> DEFINE Same == \A q \in Procs \ {p} : q \in fresh' <=> q \in fresh
<1>1. ASSUME Left(p) PROVE Same  BY <1>1 DEF Left
<1>2. ASSUME NEW w, NEW a, Found(p, a, w) PROVE Same  BY <1>2 DEF Found
<1>3. CASE Stamp(p) \/ Load(p) \/ StopGet(p)
  BY <1>1, <1>2, <1>3, StampStep, LoadStep, StopGetStep
<1>4. CASE Look(p) \/ Undo(p) \/ StopCron(p) \/ StartCron(p) \/ StartCreate(p)
  BY <1>4, LookStep, UndoStep, StopCronStep, StartCronStep, StartCreateStep
<1>5. CASE Dispatch(p)
  <2>1. Left(p) \/ fresh' = fresh  BY <1>5, DispatchStep
  <2>2. QED  BY <1>1, <2>1
<1>6. CASE RetryGet(p)
  <2>1. Left(p) \/ fresh' = fresh  BY <1>6, RetryGetStep
  <2>2. QED  BY <1>1, <2>1
<1>7. CASE StartGet(p)
  <2>1. Left(p) \/ fresh' = fresh \union {p} \/ fresh' = fresh
    BY <1>7, StartGetStep DEF TakesOver
  <2>2. QED  BY <1>1, <2>1
<1>8. CASE Rollback(p)
  <2>1. Left(p) \/ fresh' = fresh  BY <1>8, RollbackStep
  <2>2. QED  BY <1>1, <2>1
<1>9. CASE \E t \in Threads : StopCall(p, t) \/ StartCall(p, t)
  BY <1>9, StopCallStep, StartCallStep
<1>10. CASE Broken(p)
  <2>1. Left(p) \/ fresh' = fresh \ {p} \/ fresh' = fresh  BY <1>10, BrokenStep
  <2>2. QED  BY <1>1, <2>1
<1>11. CASE StampSave(p) \/ Save(p) \/ SaveAndGoOn(p) \/ StopSave(p) \/ StopDelete(p)
            \/ RetrySave(p) \/ StartPut(p)
  BY <1>11, StampSaveStep, SaveStep, SaveAndGoOnStep, StopSaveStep, StopDeleteStep,
     RetrySaveStep, StartPutStep
<1>12. CASE StartSave(p) \/ RollbackItem(p)
  BY <1>12, StartSaveStep, RollbackItemStep
<1>13. QED
  BY <1>3, <1>4, <1>5, <1>6, <1>7, <1>8, <1>9, <1>10, <1>11, <1>12 DEF Quiet, Writing

(* What one operation does, the others agree with.                         *)
LEMMA OthersAgree ==
    ASSUME WellFormed, Agreed, NEW p \in Procs, NEW q \in Procs \ {p}, Quiet(p) \/ Writing(p)
    PROVE  Agrees(q)'
<1>1. TypeOK /\ Agrees(q)  BY DEF WellFormed, Agreed
<1>2. q \in fresh' <=> q \in fresh  BY <1>1, FreshStep
<1>3. CASE Quiet(p)
  <2>1. Unnoticed(p)  BY <1>1, <1>3, QuietStep
  <2>2. /\ store' = store /\ at'[q] = at[q] /\ mine'[q] = mine[q] /\ outdated'[q] = outdated[q]
        /\ "rewound" \in causes => "rewound" \in causes'
    BY <2>1 DEF Unnoticed
  <2>3. \A v \in mine'[q] : Made(at'[q], v)  BY <1>1, <2>2 DEF Agrees
  <2>4. ASSUME outdated'[q] = {}
        PROVE  Current(at'[q], q \in fresh', mine'[q], store', "rewound" \in causes')
    <3>1. Current(at[q], q \in fresh, mine[q], store, "rewound" \in causes)
      BY <1>1, <2>2, <2>4 DEF Agrees
    <3>2. \A v, w : Fits(at[q], v, w, "rewound" \in causes) => Fits(at[q], v, w, "rewound" \in causes')
      BY <2>2 DEF Fits
    <3>3. QED  BY <1>2, <2>2, <3>1, <3>2 DEF Current
  <2>5. QED  BY <2>3, <2>4 DEF Agrees
<1>4. CASE Writing(p)
  <2>1. PICK contents : Wrote(p, contents)  BY <1>1, <1>4, WritingStep
  <2>2. at'[q] = at[q] /\ mine'[q] = mine[q]  BY <1>1, <1>4, WritingStep DEF Placing
  <2>3. \A v \in mine'[q] : Made(at'[q], v)  BY <1>1, <2>2 DEF Agrees
  <2>4. ASSUME outdated'[q] = {}
        PROVE  Current(at'[q], q \in fresh', mine'[q], store', "rewound" \in causes')
    <3>1. mine[q] = {}
      <4>1. outdated'[q] = IF mine[q] # {} THEN outdated[q] \union {Kind(p)} ELSE {}
        BY <2>1 DEF Wrote
      <4>2. QED  BY <2>4, <4>1
    <3>2. at[q] \in Copying => mine[q] # {}  BY DEF WellFormed, Placed, Seated, Seat
    <3>3. at[q] \notin Working  BY <3>1, <3>2 DEF Working, Copying, Stages
    <3>4. QED  BY <2>2, <3>1, <3>3 DEF Current
  <2>5. QED  BY <2>3, <2>4 DEF Agrees
<1>5. QED  BY <1>3, <1>4

(* One that is not to write its copy agrees anyway.                        *)
Passive == {"idle", "load", "stamp", "retryGet", "stopGet", "stopDelete", "release"}

(* A copy that is not written agrees with anything.                        *)
LEMMA PassiveAgrees ==
    ASSUME NEW p \in Procs, NEW a \in Passive, NEW m, Placing(p, a, m)
    PROVE  Agrees(p)'
<1>1. \A v, w, r : Made(a, v) /\ Fits(a, v, w, r)
  BY DEF Made, Fits, Passive, Starting
<1>2. a \notin Working  BY DEF Passive, Working
<1>3. at'[p] = a  BY DEF Placing
<1>4. QED  BY <1>1, <1>2, <1>3 DEF Agrees, Current

(* So does one that is gone.                                               *)
LEMMA HomeAgrees ==
    ASSUME NEW p \in Procs, NEW m, Placing(p, Home(p), m)
    PROVE  Agrees(p)'
<1>1. Home(p) \in Passive  BY DEF Home, Passive
<1>2. QED  BY <1>1, PassiveAgrees

(* One that has just what is in the store does.                            *)
LEMMA LikeStoreAgrees ==
    ASSUME NEW p \in Procs, NEW a \in {"look", "stampSave", "stopCron"}, NEW w,
           Placing(p, a, {w}), One(store'), w \in store'
    PROVE  Agrees(p)'
<1>1. \A r : Made(a, w) /\ Fits(a, w, w, r)
  BY DEF Made, Fits, Alike, SameWatch, SameAim, Starting
<1>2. \A u \in store' : u = w  BY DEF One
<1>3. store' # {}  OBVIOUS
<1>4. at'[p] = a /\ mine'[p] = {w}  BY DEF Placing
<1>5. QED  BY <1>1, <1>2, <1>3, <1>4 DEF Agrees, Current

(* And one that was just read.                                             *)
LEMMA FoundAgrees ==
    ASSUME WellFormed, NEW p \in Procs, NEW a \in {"look", "stampSave", "stopCron", "stopGet", "stopDelete"},
           NEW w, Found(p, a, w), store' = store
    PROVE  Agrees(p)'
<1>1. CASE a \in {"look", "stampSave", "stopCron"}
  BY <1>1, LikeStoreAgrees DEF Found, WellFormed, Placed
<1>2. CASE a \in {"stopGet", "stopDelete"}
  BY <1>2, PassiveAgrees DEF Found, Passive
<1>3. QED  BY <1>1, <1>2

(* One that has written its copy does.                                     *)
LEMMA WrittenAgrees ==
    ASSUME WellFormed, Agreed, NEW p \in Procs, Wrote(p, mine[p]),
           \/ at[p] = "startPut" /\ Placing(p, "startCron", mine[p])
           \/ at[p] = "saveKey" /\ Placing(p, "dispatch", mine[p])
    PROVE  Agrees(p)'
<1>1. One(mine[p]) /\ mine[p] # {}
  BY DEF WellFormed, Placed, Seated, Seat, Copying, Stages
<1>2. store' = mine[p] /\ mine'[p] = mine[p] /\ at'[p] \in {"startCron", "dispatch"}
  BY DEF Wrote, Placing
<1>3. \A v \in mine[p] : Made(at'[p], v)
  <2> SUFFICES ASSUME NEW v \in mine[p] PROVE Made(at'[p], v)  OBVIOUS
  <2>1. Made(at[p], v)  BY DEF Agreed, Agrees
  <2>2. QED  BY <2>1 DEF Made, Placing, Starting
<1>4. \A v \in mine[p], w \in store' : v = w  BY <1>1, <1>2 DEF One
<1>5. \A v, r : Fits(at'[p], v, v, r)
  BY <1>2 DEF Fits, Alike, SameWatch, SameAim
<1>6. QED  BY <1>1, <1>2, <1>3, <1>4, <1>5 DEF Agrees, Current

(* A new copy agrees if it fits the record there is.                       *)
LEMMA WithAgrees ==
    ASSUME NEW p \in Procs, NEW a, NEW v, Placing(p, a, {v}), store' = store, Made(a, v),
           outdated'[p] = {} => /\ a \in Working => store # {}
                                /\ \A w \in store : Fits(a, v, w, "rewound" \in causes')
    PROVE  Agrees(p)'
<1>1. at'[p] = a /\ mine'[p] = {v}  BY DEF Placing
<1>2. QED  BY <1>1 DEF Agrees, Current

(* One that has its copy still does.                                       *)
LEMMA StillAgrees ==
    ASSUME Agreed, NEW p \in Procs, Placing(p, "undo", mine[p]) \/ Placing(p, "startCreate", mine[p]),
           (at[p] = "dispatch" /\ at'[p] = "undo") \/ (at[p] = "startCron" /\ at'[p] = "startCreate"),
           store' = store, outdated'[p] = outdated[p]
    PROVE  Agrees(p)'
<1>1. mine'[p] = mine[p]  BY DEF Placing
<1>2. \A v : Made(at[p], v) => Made(at'[p], v)  BY DEF Made, Starting
<1>3. \A v, w, r, s : Fits(at[p], v, w, r) => Fits(at'[p], v, w, s)  BY DEF Fits
<1>4. at[p] \in Working /\ at[p] # "startPut"  BY DEF Working
<1>5. Agrees(p)  BY DEF Agreed
<1>6. \A v \in mine'[p] : Made(at'[p], v)  BY <1>1, <1>2, <1>5 DEF Agrees
<1>7. ASSUME outdated'[p] = {}
      PROVE  Current(at'[p], p \in fresh', mine'[p], store', "rewound" \in causes')
  <2>1. Current(at[p], p \in fresh, mine[p], store, "rewound" \in causes)
    BY <1>5, <1>7 DEF Agrees
  <2>2. store # {}  BY <1>4, <2>1 DEF Current
  <2>3. QED  BY <1>1, <1>3, <2>1, <2>2 DEF Current
<1>8. QED  BY <1>6, <1>7 DEF Agrees

(* A start that failed has its copy, of a watch that was to be active.     *)
LEMMA FailedAgrees ==
    ASSUME Agreed, NEW p \in Procs, NEW a \in {"rollback", "rollbackItem"},
           Placing(p, a, mine[p]), at[p] \in Starting
    PROVE  Agrees(p)'
<1>1. \A v \in mine[p] : Made(a, v)
  BY DEF Agreed, Agrees, Made, Starting
<1>2. \A v, w, r : Fits(a, v, w, r)  BY DEF Fits
<1>3. a \notin Working  BY DEF Working
<1>4. at'[p] = a /\ mine'[p] = mine[p]  BY DEF Placing
<1>5. QED  BY <1>1, <1>2, <1>3, <1>4 DEF Agrees, Current

(* The operation that goes on without a write agrees.                      *)
LEMMA LookAgrees ==
    ASSUME WellFormed, Agreed, NEW p \in Procs, Look(p)
    PROVE  Agrees(p)'
<1>1. TypeOK /\ Agrees(p)  BY DEF WellFormed, Agreed
<1>2. /\ at[p] = "look" /\ UNCHANGED <<store, head, outdated>>
      /\ \/ Placing(p, "stopGet", mine[p])
         \/ \E w \in mine[p], v \in Watches : Looked(p, v, w)
  BY <1>1, LookStep DEF Others
<1>3. CASE Placing(p, "stopGet", mine[p])  BY <1>3, PassiveAgrees DEF Passive
<1>4. ASSUME NEW w \in mine[p], NEW v \in Watches, Looked(p, v, w) PROVE Agrees(p)'
  <2>1. CASE Placing(p, "stopGet", {v})  BY <2>1, PassiveAgrees DEF Passive
  <2>2. ASSUME outdated'[p] = {}
        PROVE  store # {} /\ \A u \in store : Alike(w, u) /\ u.head <= head
    <3>1. Current("look", p \in fresh, mine[p], store, "rewound" \in causes)
      BY <1>1, <1>2, <2>2 DEF Agrees
    <3>2. store # {} /\ \A u \in store : Alike(w, u)
      BY <3>1 DEF Current, Fits, Working
    <3>3. QED  BY <3>2 DEF WellFormed, Placed, Headed
  <2>3. w.head \in Nat /\ head \in Nat /\ \A u \in store : u.head \in Nat
    BY <1>1, CopyTypes, StoreTypes, Fields DEF TypeOK, Heads
  <2>4. CASE (Placing(p, "save", {v}) \/ Placing(p, "saveEnd", {v})) /\ SameWatch(v, w) /\ Aimed(v, w)
    <3>1. PICK a \in {"save", "saveEnd"} : Placing(p, a, {v})  BY <2>4
    <3>2. Made(a, v)  BY DEF Made, Starting
    <3>3. ASSUME NEW u \in store, Alike(w, u), u.head <= head, NEW r
          PROVE  Fits(a, v, u, r)
      <4>1. SameWatch(v, u)  BY <2>4, <3>3 DEF Alike, SameWatch
      <4>2. CASE v.head = head /\ head # w.head
        <5>1. u.head < v.head  BY <2>3, <3>3, <4>2 DEF Alike, SameAim
        <5>2. QED  BY <4>1, <5>1 DEF Fits
      <4>3. CASE SameAim(v, w) /\ v.keys = w.keys
        <5>1. SameAim(v, u) /\ v.keys = u.keys  BY <3>3, <4>3 DEF Alike, SameAim
        <5>2. QED  BY <4>1, <5>1 DEF Fits
      <4>4. QED  BY <2>4, <4>2, <4>3 DEF Aimed
    <3>4. QED  BY <1>2, <2>2, <3>1, <3>2, <3>3, WithAgrees
  <2>5. CASE Placing(p, "saveKey", {v}) /\ SameWatch(v, w) /\ Keyed(v, w)
    <3>1. Made("saveKey", v)  BY <2>5 DEF Made, Keyed, Starting
    <3>2. ASSUME NEW u \in store, Alike(w, u), u.head <= head, NEW r
          PROVE  Fits("saveKey", v, u, r)
      <4>1. SameWatch(v, u)  BY <2>5, <3>2 DEF Alike, SameWatch
      <4>2. CASE v.head = head /\ head # w.head
        <5>1. u.head < v.head  BY <2>3, <3>2, <4>2 DEF Alike, SameAim
        <5>2. QED  BY <4>1, <5>1 DEF Fits
      <4>3. CASE SameAim(v, w) /\ v.retries \notin w.keys /\ v.keys = w.keys \union {v.retries}
        <5>1. SameAim(v, u) /\ v.retries \notin u.keys /\ v.keys = u.keys \union {v.retries}
          BY <3>2, <4>3 DEF Alike, SameAim
        <5>2. QED  BY <4>1, <5>1 DEF Fits
      <4>4. QED  BY <2>5, <4>2, <4>3 DEF Keyed
    <3>3. QED  BY <1>2, <2>2, <2>5, <3>1, <3>2, WithAgrees
  <2>6. QED  BY <1>4, <2>1, <2>4, <2>5 DEF Looked
<1>5. QED  BY <1>2, <1>3, <1>4

(* A key is taken back from the latest record.                             *)
LEMMA UndoAgrees ==
    ASSUME WellFormed, Agreed, NEW p \in Procs, Undo(p)
    PROVE  Agrees(p)'
<1>1. TypeOK /\ Agrees(p) /\ One(store)  BY DEF WellFormed, Agreed, Placed
<1>2. at[p] = "undo" /\ UNCHANGED store  BY <1>1, UndoStep DEF Others
<1>3. PICK w \in mine[p], v \in Watches :
        /\ Placing(p, "forget", {v})
        /\ \/ store = {} /\ Noting(p, outdated[p]) /\ SameWatch(v, w) /\ SameAim(v, w)
           \/ /\ Noting(p, {})
              /\ \E u \in store :
                    /\ SameWatch(v, u) /\ SameAim(v, u)
                    /\ \/ v.keys = u.keys
                       \/ u.head = w.head /\ v.keys = u.keys \ {w.retries}
  BY <1>1, UndoStep
<1>4. Made("forget", v)  BY DEF Made, Starting
<1>5. CASE store = {} /\ Noting(p, outdated[p])
  <2>1. outdated[p] = {} => store # {}  BY <1>1, <1>2 DEF Agrees, Current, Working
  <2>2. outdated'[p] # {}  BY <1>5, <2>1 DEF Noting
  <2>3. QED  BY <1>2, <1>3, <1>4, <2>2, WithAgrees
<1>6. ASSUME NEW u \in store, SameWatch(v, u), SameAim(v, u), v.keys = u.keys \/ v.keys = u.keys \ {w.retries}
      PROVE  Agrees(p)'
  <2>1. v.keys \subseteq u.keys  BY <1>6
  <2>2. \A r : Fits("forget", v, u, r)  BY <1>6, <2>1 DEF Fits
  <2>3. \A x \in store : x = u  BY <1>1 DEF One
  <2>4. QED  BY <1>2, <1>3, <1>4, <2>2, <2>3, WithAgrees
<1>7. QED  BY <1>3, <1>5, <1>6

(* A watch that is kept is inactive.                                       *)
LEMMA StopCronAgrees ==
    ASSUME WellFormed, Agreed, NEW p \in Procs, StopCron(p)
    PROVE  Agrees(p)'
<1>1. TypeOK /\ Agrees(p)  BY DEF WellFormed, Agreed
<1>2. /\ at[p] = "stopCron" /\ UNCHANGED <<store, outdated>>
      /\ \E w \in mine[p] :
            \/ Placing(p, "stopDelete", mine[p])
            \/ \E v \in Watches :
                  /\ Placing(p, "stopSave", {v}) /\ v.status = "inactive"
                  /\ v.thread = w.thread /\ v.cron = w.cron
                  /\ SameAim(v, w) /\ v.keys = w.keys
  BY <1>1, StopCronStep
<1>3. CASE Placing(p, "stopDelete", mine[p])  BY <1>3, PassiveAgrees DEF Passive
<1>4. ASSUME NEW w \in mine[p], NEW v \in Watches, Placing(p, "stopSave", {v}), v.status = "inactive",
             v.thread = w.thread, v.cron = w.cron, SameAim(v, w), v.keys = w.keys
      PROVE  Agrees(p)'
  <2>1. Made("stopSave", v)  BY <1>4 DEF Made, Starting
  <2>2. ASSUME outdated'[p] = {}
        PROVE  store # {} /\ \A u \in store : Fits("stopSave", v, u, "rewound" \in causes')
    <3>1. Current("stopCron", p \in fresh, mine[p], store, "rewound" \in causes)
      BY <1>1, <1>2, <2>2 DEF Agrees
    <3>2. store # {} /\ \A u \in store : Alike(w, u)  BY <3>1 DEF Current, Fits, Working
    <3>3. \A u : Alike(w, u) => Fits("stopSave", v, u, "rewound" \in causes')
      BY <1>4 DEF Fits, Alike, SameWatch, SameAim
    <3>4. QED  BY <3>2, <3>3
  <2>3. QED  BY <1>2, <1>4, <2>1, <2>2, WithAgrees
<1>5. QED  BY <1>2, <1>3, <1>4

(* A rerun counts one more.                                                *)
LEMMA RetryGetAgrees ==
    ASSUME WellFormed, NEW p \in Procs, RetryGet(p)
    PROVE  Agrees(p)'
<1>1. TypeOK /\ One(store)  BY DEF WellFormed, Placed
<1>2. /\ UNCHANGED store
      /\ \/ Left(p)
         \/ \E w \in store, v \in Watches :
                /\ Placing(p, "retrySave", {v})
                /\ SameWatch(v, w) /\ v.head = w.head /\ v.retries = w.retries + 1
                /\ v.keys = w.keys
  BY <1>1, RetryGetStep DEF Others
<1>3. CASE Left(p)  BY <1>3, HomeAgrees DEF Left
<1>4. ASSUME NEW w \in store, NEW v \in Watches, Placing(p, "retrySave", {v}),
             SameWatch(v, w), v.head = w.head, v.retries = w.retries + 1, v.keys = w.keys
      PROVE  Agrees(p)'
  <2>1. Made("retrySave", v)  BY DEF Made, Starting
  <2>2. \A r : Fits("retrySave", v, w, r)  BY <1>4 DEF Fits
  <2>3. \A u \in store : u = w  BY <1>1 DEF One
  <2>4. QED  BY <1>2, <1>4, <2>1, <2>2, <2>3, WithAgrees
<1>5. QED  BY <1>2, <1>3, <1>4

(* A start takes over, or is refused.                                      *)
LEMMA StartGetAgrees ==
    ASSUME WellFormed, Agreed, NEW p \in Procs, StartGet(p)
    PROVE  Agrees(p)'
<1>1. TypeOK /\ Agrees(p) /\ One(store)  BY DEF WellFormed, Agreed, Placed
<1>2. /\ at[p] = "startGet" /\ UNCHANGED store
      /\ \/ Left(p)
         \/ store = {} /\ Placing(p, "startPut", mine[p]) /\ fresh' = fresh \union {p}
         \/ \E new \in mine[p], old \in store : TakesOver(p, new, old)
  BY <1>1, StartGetStep DEF Others
<1>3. \A v \in mine[p] : v.status = "active"  BY <1>1, <1>2 DEF Agrees, Made, Starting
<1>4. CASE Left(p)  BY <1>4, HomeAgrees DEF Left
<1>5. CASE store = {} /\ Placing(p, "startPut", mine[p]) /\ fresh' = fresh \union {p}
  <2>1. \A v \in mine[p] : Made("startPut", v)  BY <1>3 DEF Made
  <2>2. at'[p] = "startPut" /\ mine'[p] = mine[p] /\ store' = {} /\ p \in fresh'
    BY <1>2, <1>5 DEF Placing
  <2>3. QED  BY <2>1, <2>2 DEF Agrees, Current
<1>6. ASSUME NEW new \in mine[p], NEW old \in store, TakesOver(p, new, old)
      PROVE  Agrees(p)'
  <2>1. PICK v \in Watches :
          /\ Placing(p, "startPut", {v}) /\ v.status = new.status /\ v.thread = new.thread
          /\ v.head = new.head /\ v.cron = old.cron
          /\ new.head = old.head => v.retries = old.retries /\ v.keys = old.keys
    BY <1>6 DEF TakesOver
  <2>2. /\ old.status = "inactive" \/ old.thread = new.thread
        /\ new.head < old.head => "rewound" \in causes'
    BY <1>6 DEF TakesOver
  <2>3. Made("startPut", v)  BY <1>3, <2>1 DEF Made
  <2>4. Fits("startPut", v, old, "rewound" \in causes')  BY <2>1, <2>2 DEF Fits
  <2>5. \A u \in store : u = old  BY <1>1 DEF One
  <2>6. QED  BY <1>2, <2>1, <2>3, <2>4, <2>5, WithAgrees
<1>7. QED  BY <1>2, <1>4, <1>5, <1>6

(* A start that knows its cron.                                            *)
LEMMA CronAgrees ==
    ASSUME Agreed, NEW p \in Procs, at[p] \in {"startCron", "startCreate"}, UNCHANGED <<store, outdated>>,
           NEW w \in mine[p], NEW v, NEW c, Placing(p, "startSave", {v}), WithCron(v, w, c)
    PROVE  Agrees(p)'
<1>1. Agrees(p)  BY DEF Agreed
<1>2. Made("startSave", v)  BY <1>1 DEF Agrees, Made, WithCron, Starting
<1>3. ASSUME outdated'[p] = {}
      PROVE  store # {} /\ \A u \in store : Fits("startSave", v, u, "rewound" \in causes')
  <2>1. Current(at[p], p \in fresh, mine[p], store, "rewound" \in causes)
    BY <1>1, <1>3 DEF Agrees
  <2>2. store # {} /\ \A u \in store : Alike(w, u)  BY <2>1 DEF Current, Fits, Working
  <2>3. \A u : Alike(w, u) => Fits("startSave", v, u, "rewound" \in causes')
    BY DEF Fits, Alike, SameWatch, SameAim, WithCron
  <2>4. QED  BY <2>2, <2>3
<1>4. QED  BY <1>2, <1>3, WithAgrees

(* So every operation that does not write agrees after its step.           *)
LEMMA QuietAgrees ==
    ASSUME WellFormed, Agreed, NEW p \in Procs, Quiet(p)
    PROVE  Agrees(p)'
<1>1. TypeOK  BY DEF WellFormed
<1>2. ASSUME Left(p) PROVE Agrees(p)'  BY <1>2, HomeAgrees DEF Left
<1>3. CASE Stamp(p)  BY <1>1, <1>2, <1>3, StampStep, FoundAgrees DEF Others
<1>4. CASE Load(p)  BY <1>1, <1>2, <1>4, LoadStep, FoundAgrees DEF Others
<1>5. CASE StopGet(p)
  <2>1. /\ store' = store
        /\ Left(p) \/ \E w \in store, a \in {"stopCron", "stopDelete"} : Found(p, a, w)
    BY <1>1, <1>5, StopGetStep DEF Others
  <2>2. QED  BY <1>2, <2>1, FoundAgrees
<1>6. CASE Dispatch(p)
  <2>1. /\ at[p] = "dispatch" /\ store' = store
        /\ Left(p) \/ (Placing(p, "undo", mine[p]) /\ Noting(p, outdated[p]))
    BY <1>1, <1>6, DispatchStep
  <2>2. QED  BY <1>2, <2>1, StillAgrees DEF Placing, Noting
<1>7. CASE StartCron(p)
  <2>1. /\ at[p] = "startCron" /\ UNCHANGED <<store, outdated>>
        /\ \/ Placing(p, "startCreate", mine[p])
           \/ \E w \in mine[p] : \E v, c : Placing(p, "startSave", {v}) /\ WithCron(v, w, c)
    BY <1>1, <1>7, StartCronStep
  <2>2. QED  BY <2>1, StillAgrees, CronAgrees DEF Placing
<1>8. CASE StartCreate(p)
  <2>1. /\ at[p] = "startCreate" /\ UNCHANGED <<store, outdated>>
        /\ \/ Placing(p, "rollback", mine[p])
           \/ \E w \in mine[p] : \E v, c : Placing(p, "startSave", {v}) /\ WithCron(v, w, c)
    BY <1>1, <1>8, StartCreateStep
  <2>2. QED  BY <2>1, FailedAgrees, CronAgrees DEF Starting
<1>9. CASE Rollback(p)
  <2>1. at[p] = "rollback" /\ (Left(p) \/ Placing(p, "rollbackItem", mine[p]))
    BY <1>1, <1>9, RollbackStep
  <2>2. QED  BY <1>2, <2>1, FailedAgrees DEF Starting
<1>10. ASSUME NEW t \in Threads, StopCall(p, t) PROVE Agrees(p)'
  BY <1>1, <1>10, StopCallStep, PassiveAgrees DEF Passive
<1>11. ASSUME NEW t \in Threads, StartCall(p, t) PROVE Agrees(p)'
  <2>1. PICK v \in Watches : Placing(p, "startGet", {v}) /\ v.status = "active"
    BY <1>1, <1>11, StartCallStep
  <2>2. Made("startGet", v)  BY <2>1 DEF Made
  <2>3. \A w, r : Fits("startGet", v, w, r)  BY DEF Fits
  <2>4. "startGet" \notin Working  BY DEF Working
  <2>5. store' = store  BY <1>1, <1>11, StartCallStep DEF Others
  <2>6. QED  BY <2>1, <2>2, <2>3, <2>4, <2>5, WithAgrees
<1>12. CASE Broken(p)
  <2>1. \/ Placing(p, "idle", {}) \/ Left(p)
        \/ at[p] \in {"startCron", "startCreate", "startSave"} /\ Placing(p, "rollback", mine[p])
    BY <1>1, <1>12, BrokenStep
  <2>2. CASE Placing(p, "idle", {})  BY <2>2, PassiveAgrees DEF Passive
  <2>3. QED  BY <1>2, <2>1, <2>2, FailedAgrees DEF Starting
<1>13. QED
  BY <1>3, <1>4, <1>5, <1>6, <1>7, <1>8, <1>9, <1>10, <1>11, <1>12, LookAgrees, UndoAgrees,
     StopCronAgrees, RetryGetAgrees, StartGetAgrees DEF Quiet

(* One that has written agrees.                                            *)
LEMMA WritingAgrees ==
    ASSUME WellFormed, Agreed, NEW p \in Procs, Writing(p)
    PROVE  Agrees(p)'
<1>1. TypeOK  BY DEF WellFormed
<1>2. CASE StampSave(p)  BY <1>1, <1>2, StampSaveStep, PassiveAgrees DEF Passive
<1>3. CASE Save(p)  BY <1>1, <1>3, SaveStep, PassiveAgrees DEF Passive
<1>4. CASE SaveAndGoOn(p)
  BY <1>1, <1>4, SaveAndGoOnStep, PassiveAgrees, WrittenAgrees DEF Passive
<1>5. CASE StopSave(p)  BY <1>1, <1>5, StopSaveStep, HomeAgrees
<1>6. CASE StopDelete(p)  BY <1>1, <1>6, StopDeleteStep, HomeAgrees
<1>7. CASE RetrySave(p)  BY <1>1, <1>7, RetrySaveStep, PassiveAgrees DEF Passive
<1>8. CASE StartPut(p)  BY <1>1, <1>8, StartPutStep, WrittenAgrees
<1>9. CASE StartSave(p)  BY <1>1, <1>9, StartSaveStep, PassiveAgrees DEF Passive
<1>10. CASE RollbackItem(p)  BY <1>1, <1>10, RollbackItemStep, PassiveAgrees DEF Passive
<1>11. QED
  BY <1>2, <1>3, <1>4, <1>5, <1>6, <1>7, <1>8, <1>9, <1>10 DEF Writing

(* Records that differ in what is known of the checks fit as well.         *)
LEMMA ResettledAgrees ==
    ASSUME TypeOK, Agreed, Moved, NEW p \in Procs
    PROVE  Agrees(p)'
<1>1. /\ Resettled(store', store) /\ Resettled(mine'[p], mine[p])
      /\ at' = at /\ outdated' = outdated /\ fresh' = fresh /\ causes' = causes
  BY DEF Moved
<1>2. Agrees(p)  BY DEF Agreed
<1>3. \A v, x : Alike(v, x) /\ Made(at[p], x) => Made(at[p], v)
  BY DEF Alike, SameWatch, SameAim, Made
<1>4. \A v \in mine'[p] : Made(at'[p], v)
  BY <1>1, <1>2, <1>3 DEF Agrees, Resettled
<1>5. ASSUME outdated'[p] = {}
      PROVE  Current(at'[p], p \in fresh', mine'[p], store', "rewound" \in causes')
  <2> DEFINE r == "rewound" \in causes
  <2>1. Current(at[p], p \in fresh, mine[p], store, r)  BY <1>1, <1>2, <1>5 DEF Agrees
  <2>2. store' = {} <=> store = {}  BY <1>1 DEF Resettled
  <2> HIDE DEF r
  <2>3. ASSUME NEW v, NEW x, NEW w, NEW y, Alike(v, x), Alike(w, y), Fits(at[p], x, y, r)
        PROVE  Fits(at[p], v, w, r)
    BY <2>3 DEF Alike, SameWatch, SameAim, Fits
  <2>4. ASSUME NEW v \in mine'[p], NEW w \in store' PROVE Fits(at[p], v, w, r)
    <3>1. PICK x \in mine[p] : Alike(v, x)  BY <1>1 DEF Resettled
    <3>2. PICK y \in store : Alike(w, y)  BY <1>1 DEF Resettled
    <3>3. Fits(at[p], x, y, r)  BY <2>1 DEF Current
    <3>4. QED  BY <2>3, <3>1, <3>2, <3>3
  <2>5. Current(at[p], p \in fresh, mine'[p], store', r)  BY <2>1, <2>2, <2>4 DEF Current
  <2>6. QED  BY <1>1, <2>5 DEF r
<1>6. QED  BY <1>4, <1>5 DEF Agrees

(* Every step keeps the copies in agreement.                               *)
LEMMA StepAgreed == WellFormed /\ Agreed /\ [Next]_vars => Agreed'
<1> SUFFICES ASSUME WellFormed, Agreed, [Next]_vars, NEW q \in Procs PROVE Agrees(q)'
  BY DEF Agreed
<1>1. TypeOK /\ Agrees(q)  BY DEF WellFormed, Agreed
<1>2. ASSUME at'[q] = at[q], mine'[q] = mine[q], UNCHANGED <<store, fresh, outdated>>,
             "rewound" \in causes' <=> "rewound" \in causes
      PROVE  Agrees(q)'
  <2>1. \A v \in mine'[q] : Made(at'[q], v)  BY <1>1, <1>2 DEF Agrees
  <2>2. ASSUME outdated'[q] = {}
        PROVE  Current(at'[q], q \in fresh', mine'[q], store', "rewound" \in causes')
    <3>1. Current(at[q], q \in fresh, mine[q], store, "rewound" \in causes)
      BY <1>1, <1>2, <2>2 DEF Agrees
    <3>2. \A v, w : Fits(at[q], v, w, "rewound" \in causes) => Fits(at[q], v, w, "rewound" \in causes')
      BY <1>2 DEF Fits
    <3>3. QED  BY <1>2, <3>1, <3>2 DEF Current
  <2>3. QED  BY <2>1, <2>2 DEF Agrees
<1>3. ASSUME NEW p \in Procs, Tick(p) \/ Webhook(p) \/ RetryCall(p) PROVE Agrees(q)'
  <2>1. PICK a \in {"load", "stamp", "retryGet"} : Took(p, a)  BY <1>1, <1>3, TakeStep
  <2>2. CASE q = p  BY <2>1, <2>2, PassiveAgrees DEF Took, Passive
  <2>3. CASE q # p  BY <1>2, <2>1, <2>3 DEF Took, Placing
  <2>4. QED  BY <2>2, <2>3
<1>4. ASSUME NEW p \in Procs, Quiet(p) PROVE Agrees(q)'
  BY <1>4, QuietAgrees, OthersAgree
<1>5. ASSUME NEW p \in Procs, Writing(p) PROVE Agrees(q)'
  BY <1>5, WritingAgrees, OthersAgree
<1>6. ASSUME NEW p \in Procs, Release(p) PROVE Agrees(q)'
  <2>1. Placing(p, "idle", mine[p]) /\ UNCHANGED <<store, fresh, outdated, causes>>
    BY <1>1, <1>6, ReleaseStep
  <2>2. CASE q = p  BY <2>1, <2>2, PassiveAgrees DEF Passive
  <2>3. CASE q # p  BY <1>2, <2>1, <2>3 DEF Placing
  <2>4. QED  BY <2>2, <2>3
<1>7. CASE LockExpires
  <2>1. /\ UNCHANGED <<store, at, mine, fresh, outdated>>
        /\ causes \subseteq causes' /\ causes' \subseteq causes \union {"overrun"}
    BY <1>1, <1>7, ExpiryStep
  <2>2. "rewound" \in causes' <=> "rewound" \in causes  BY <2>1
  <2>3. QED  BY <1>2, <2>1, <2>2
<1>8. CASE Report \/ Push \/ TenMinutes
  BY <1>1, <1>8, MoveStep, ResettledAgrees
<1>9. CASE UNCHANGED vars
  BY <1>2, <1>9 DEF vars, procs
<1>10. QED  BY <1>3, <1>4, <1>5, <1>6, <1>7, <1>8, <1>9, AllSteps

(* And they agree in every state.                                          *)
LEMMA AlwaysAgreed == Spec => [](WellFormed /\ Agreed)
<1>1. Init => Agreed
  <2>1. ASSUME Init, NEW p \in Procs PROVE Agrees(p)
    <3>1. at[p] = "idle" /\ mine[p] = {}  BY <2>1 DEF Init
    <3>2. "idle" \notin Working  BY DEF Working
    <3>3. QED  BY <3>1, <3>2 DEF Agrees, Current
  <2>2. QED  BY <2>1 DEF Agreed
<1>2. QED  BY <1>1, AlwaysWellFormed, StepAgreed, PTL DEF Spec

-----------------------------------------------------------------------------
(* Writes that overwrite nothing.                                          *)

(* What has happened stays known.                                          *)
LEMMA CausesStay == WellFormed /\ [Next]_vars => causes \subseteq causes'
<1> SUFFICES ASSUME WellFormed, [Next]_vars PROVE causes \subseteq causes'  OBVIOUS
<1>1. TypeOK  BY DEF WellFormed
<1>2. ASSUME NEW p \in Procs, Tick(p) \/ Webhook(p) \/ RetryCall(p) PROVE causes \subseteq causes'
  BY <1>1, <1>2, TakeStep DEF Took
<1>3. ASSUME NEW p \in Procs, Quiet(p) PROVE causes \subseteq causes'
  BY <1>1, <1>3, QuietStep DEF Unnoticed
<1>4. ASSUME NEW p \in Procs, Writing(p) PROVE causes \subseteq causes'
  BY <1>1, <1>4, WritingStep DEF Wrote
<1>5. ASSUME NEW p \in Procs, Release(p) PROVE causes \subseteq causes'
  BY <1>1, <1>5, ReleaseStep
<1>6. CASE LockExpires  BY <1>1, <1>6, ExpiryStep
<1>7. CASE Report \/ Push \/ TenMinutes  BY <1>1, <1>7, MoveStep DEF Moved
<1>8. CASE UNCHANGED vars  BY <1>8 DEF vars
<1>9. QED  BY <1>2, <1>3, <1>4, <1>5, <1>6, <1>7, <1>8, AllSteps

(* Neither a race nor a clash: the writer has the latest copy.             *)
LEMMA CleanWrite ==
    ASSUME WellFormed, Agreed, NEW p \in Procs, Writing(p),
           "race" \notin causes', "clash" \notin causes'
    PROVE  /\ outdated[p] = {}
           /\ Current(at[p], p \in fresh, mine[p], store, "rewound" \in causes)
<1>1. TypeOK  BY DEF WellFormed
<1>2. PICK contents : Wrote(p, contents)  BY <1>1, WritingStep
<1>3. /\ p \in inside => "locked" \notin outdated[p]
      /\ "unlocked" \notin outdated[p]
      /\ p \notin inside => outdated[p] = {}
  BY <1>2 DEF Wrote
<1>4. outdated[p] \subseteq {"locked", "unlocked"}  BY <1>1 DEF TypeOK
<1>5. outdated[p] = {}  BY <1>3, <1>4
<1>6. QED  BY <1>5 DEF Agreed, Agrees

(* Aims that go up: a later head, or the same failure.                     *)
Onward(v, w) == w.head < v.head \/ SameAim(v, w)

(* A write of the latest copy does not go back.                            *)
LEMMA WritesOnward ==
    ASSUME WellFormed, Agreed, NEW p \in Procs, Writing(p), ~RetrySave(p), ~StartPut(p),
           Current(at[p], p \in fresh, mine[p], store, "rewound" \in causes)
    PROVE  /\ store' # {} => store # {}
           /\ \A v \in store', w \in store : Onward(v, w)
<1>1. TypeOK  BY DEF WellFormed
<1>2. CASE StopDelete(p) \/ RollbackItem(p)
  BY <1>1, <1>2, StopDeleteStep, RollbackItemStep DEF Wrote
<1>3. CASE StampSave(p) \/ Save(p) \/ SaveAndGoOn(p) \/ StopSave(p) \/ StartSave(p)
  <2>1. /\ at[p] \in {"stampSave", "save", "forget", "saveEnd", "saveKey", "stopSave", "startSave"}
        /\ Wrote(p, mine[p])
    BY <1>1, <1>3, StampSaveStep, SaveStep, SaveAndGoOnStep, StopSaveStep, StartSaveStep
  <2>2. store # {}  BY <2>1 DEF Current, Working
  <2>3. \A v \in mine[p], w \in store : Onward(v, w)
    <3> SUFFICES ASSUME NEW v \in mine[p], NEW w \in store PROVE Onward(v, w)  OBVIOUS
    <3>1. Fits(at[p], v, w, "rewound" \in causes)  BY DEF Current
    <3>2. QED  BY <2>1, <3>1 DEF Fits, Alike, Onward
  <2>4. QED  BY <2>1, <2>2, <2>3 DEF Wrote
<1>4. QED  BY <1>2, <1>3 DEF Writing

(* What is counted.                                                        *)
LEMMA QuietCounts ==
    ASSUME TypeOK, NEW p \in Procs, Quiet(p)
    PROVE  reruns' = reruns /\ (sent' = sent \/ Dispatch(p))
<1>1. CASE Stamp(p) \/ Load(p) \/ Look(p) \/ Undo(p) \/ StopGet(p) \/ RetryGet(p) \/ StartGet(p)
  BY <1>1, StampStep, LoadStep, LookStep, UndoStep, StopGetStep, RetryGetStep, StartGetStep
  DEF Others
<1>2. CASE StopCron(p) \/ StartCron(p) \/ StartCreate(p) \/ Rollback(p) \/ Broken(p)
  BY <1>2, StopCronStep, StartCronStep, StartCreateStep, RollbackStep, BrokenStep
<1>3. CASE \E t \in Threads : StopCall(p, t) \/ StartCall(p, t)
  BY <1>3, StopCallStep, StartCallStep DEF Others
<1>4. CASE Dispatch(p)  BY <1>4, DispatchStep
<1>5. QED  BY <1>1, <1>2, <1>3, <1>4 DEF Quiet

(* A write that counts a rerun, or starts over.                            *)
LEMMA WritingCounts ==
    ASSUME TypeOK, NEW p \in Procs, Writing(p)
    PROVE  (reruns' = reruns \/ RetrySave(p) \/ StartPut(p)) /\ (sent' = sent \/ StartPut(p))
<1>1. CASE StampSave(p) \/ Save(p) \/ SaveAndGoOn(p) \/ StopSave(p) \/ StopDelete(p)
           \/ StartSave(p) \/ RollbackItem(p)
  BY <1>1, StampSaveStep, SaveStep, SaveAndGoOnStep, StopSaveStep, StopDeleteStep,
     StartSaveStep, RollbackItemStep
<1>2. CASE RetrySave(p)  BY <1>2, RetrySaveStep
<1>3. QED  BY <1>1, <1>2 DEF Writing

-----------------------------------------------------------------------------
(* Reruns.                                                                 *)

(***************************************************************************)
(* The record counts at least the reruns of its head, and a later head has *)
(* none yet.                                                               *)
(***************************************************************************)
CountsReruns(w) ==
    \A h \in Heads :
        /\ w.head = h => reruns[h] <= w.retries
        /\ w.head < h => reruns[h] = 0

Counted ==
    Without({"race", "clash", "rewound"}) =>
        /\ \A h \in Heads : reruns[h] <= MaxRetries
        /\ \A w \in store : CountsReruns(w)

(* A record that goes on counts what the old one counted.                  *)
LEMMA CountsOnward ==
    ASSUME TypeOK, reruns' = reruns, NEW v \in Watches, NEW w \in Watches, CountsReruns(w), Onward(v, w)
    PROVE  CountsReruns(v)'
<1> SUFFICES ASSUME NEW h \in Heads
             PROVE  (v.head = h => reruns[h] <= v.retries) /\ (v.head < h => reruns[h] = 0)
  BY DEF CountsReruns
<1>1. h \in Nat /\ v.head \in Nat /\ w.head \in Nat /\ v.retries \in Nat /\ w.retries \in Nat
  BY Fields DEF Heads
<1>2. (w.head = h => reruns[h] <= w.retries) /\ (w.head < h => reruns[h] = 0)
  BY DEF CountsReruns
<1>3. CASE SameAim(v, w)  BY <1>2, <1>3 DEF SameAim
<1>4. CASE w.head < v.head  BY <1>1, <1>2, <1>4
<1>5. QED  BY <1>3, <1>4 DEF Onward

(* Every step keeps count.                                                 *)
LEMMA StepCounted == WellFormed /\ Agreed /\ Counted /\ [Next]_vars => Counted'
<1> SUFFICES ASSUME WellFormed, Agreed, Counted, [Next]_vars, Without({"race", "clash", "rewound"})'
             PROVE  /\ \A h \in Heads : reruns'[h] <= MaxRetries
                    /\ \A v \in store' : CountsReruns(v)'
  BY DEF Counted
<1>1. TypeOK /\ TypeOK'  BY StepTypes DEF WellFormed
<1>2. "race" \notin causes' /\ "clash" \notin causes' /\ "rewound" \notin causes'
  BY DEF Without
<1>3. "rewound" \notin causes /\ Without({"race", "clash", "rewound"})
  BY <1>2, CausesStay DEF Without
<1>4. /\ \A h \in Heads : reruns[h] <= MaxRetries
      /\ \A w \in store : CountsReruns(w)
  BY <1>3 DEF Counted
<1> DEFINE Good == /\ \A h \in Heads : reruns'[h] <= MaxRetries
                   /\ \A v \in store' : CountsReruns(v)'
<1>5. \A v \in store' : v \in Watches  BY <1>1 DEF TypeOK
<1>6. \A w \in store : w \in Watches  BY <1>1 DEF TypeOK
<1>7. ASSUME reruns' = reruns, \A v \in store' : \E w \in store : Onward(v, w) PROVE Good
  BY <1>1, <1>4, <1>5, <1>6, <1>7, CountsOnward
<1>8. ASSUME UNCHANGED <<store, reruns>> PROVE Good
  BY <1>7, <1>8 DEF Onward, SameAim
<1>9. ASSUME NEW p \in Procs, Tick(p) \/ Webhook(p) \/ RetryCall(p) PROVE Good
  BY <1>1, <1>8, <1>9, TakeStep DEF Took
<1>10. ASSUME NEW p \in Procs, Quiet(p) PROVE Good
  BY <1>1, <1>8, <1>10, QuietStep, QuietCounts DEF Unnoticed
<1>11. ASSUME NEW p \in Procs, Writing(p) PROVE Good
  <2>1. Current(at[p], p \in fresh, mine[p], store, "rewound" \in causes)
    BY <1>2, <1>11, CleanWrite
  <2>2. CASE ~RetrySave(p) /\ ~StartPut(p)
    <3>1. /\ store' # {} => store # {}
          /\ \A v \in store', w \in store : Onward(v, w)
      BY <1>11, <2>1, <2>2, WritesOnward
    <3>2. reruns' = reruns  BY <1>1, <1>11, <2>2, WritingCounts
    <3>3. QED  BY <1>7, <3>1, <3>2
  <2>3. CASE RetrySave(p)
    <3>1. at[p] = "retrySave" /\ Wrote(p, mine[p])  BY <1>1, <2>3, RetrySaveStep
    <3>2. PICK v \in mine[p] : /\ \A h \in Heads \ {v.head} : reruns'[h] = reruns[h]
                               /\ reruns'[v.head] <= reruns[v.head] + 1
      BY <1>1, <2>3, RetrySaveStep
    <3>3. \A u \in store' : u = v
      BY <3>1 DEF Wrote, WellFormed, Placed, Seated, Seat, One
    <3>4. store # {} /\ \A w \in store : v.head = w.head /\ v.retries = w.retries + 1
      BY <2>1, <3>1 DEF Current, Fits, Working
    <3>5. PICK w \in store : v.head = w.head /\ v.retries = w.retries + 1  BY <3>4
    <3>6. w.retries \in 0..MaxRetries /\ v.retries \in 0..MaxRetries /\ v.head \in 1..MaxHeads
      BY <1>6, Fields, CopyTypes, <1>1
    <3>7. v.head \in Heads  BY <3>6 DEF Heads
    <3>8. CountsReruns(w)  BY <1>4
    <3>9. reruns[v.head] <= w.retries  BY <3>5, <3>7, <3>8 DEF CountsReruns
    <3>10. reruns[v.head] \in Nat /\ reruns'[v.head] \in Nat  BY <1>1, <3>7, BoundsAssumption DEF TypeOK
    <3>11. reruns'[v.head] <= v.retries  BY <3>2, <3>5, <3>6, <3>9, <3>10, BoundsAssumption
    <3>12. reruns'[v.head] <= MaxRetries  BY <3>6, <3>10, <3>11, BoundsAssumption
    <3>13. \A h \in Heads : reruns'[h] <= MaxRetries  BY <1>4, <3>2, <3>12
    <3>14. CountsReruns(v)'
      <4> SUFFICES ASSUME NEW h \in Heads
                   PROVE  (v.head = h => reruns'[h] <= v.retries) /\ (v.head < h => reruns'[h] = 0)
        BY DEF CountsReruns
      <4>1. w.head < h => reruns[h] = 0  BY <3>8 DEF CountsReruns
      <4>2. CASE v.head = h  BY <3>6, <3>11, <4>2
      <4>3. CASE v.head # h  BY <3>2, <3>5, <4>1, <4>3
      <4>4. QED  BY <4>2, <4>3
    <3>15. QED  BY <3>3, <3>13, <3>14
  <2>4. CASE StartPut(p)
    <3>1. /\ at[p] = "startPut" /\ Wrote(p, mine[p])
          /\ p \notin fresh => reruns' = reruns
          /\ p \in fresh => \A h \in Heads : reruns'[h] = 0
      BY <1>1, <2>4, StartPutStep
    <3>2. CASE p \in fresh
      <4>1. \A h \in Heads : reruns'[h] = 0 /\ 0 <= MaxRetries  BY <3>1, <3>2, BoundsAssumption
      <4>2. \A v \in store' : 0 <= v.retries  BY <1>5, Fields, BoundsAssumption
      <4>3. QED  BY <4>1, <4>2 DEF CountsReruns
    <3>3. CASE p \notin fresh
      <4>1. store # {}  BY <2>1, <3>1, <3>3 DEF Current, Working
      <4>2. ASSUME NEW v \in mine[p], NEW w \in store PROVE Onward(v, w)
        <5>1. Fits("startPut", v, w, "rewound" \in causes)  BY <2>1, <3>1 DEF Current
        <5>2. (v.head = w.head => v.retries = w.retries) /\ ~(v.head < w.head)
          BY <1>3, <5>1 DEF Fits
        <5>3. v.head \in Nat /\ w.head \in Nat  BY <1>1, <1>6, CopyTypes, Fields
        <5>4. CASE v.head = w.head  BY <5>2, <5>4 DEF Onward, SameAim
        <5>5. CASE v.head # w.head  BY <5>2, <5>3, <5>5 DEF Onward
        <5>6. QED  BY <5>4, <5>5
      <4>3. \A v \in store' : \E w \in store : Onward(v, w)
        BY <3>1, <4>1, <4>2 DEF Wrote
      <4>4. QED  BY <1>7, <3>1, <3>3, <4>3
    <3>4. QED  BY <3>2, <3>3
  <2>5. QED  BY <2>2, <2>3, <2>4
<1>12. ASSUME NEW p \in Procs, Release(p) PROVE Good
  BY <1>1, <1>8, <1>12, ReleaseStep
<1>13. CASE LockExpires  BY <1>1, <1>8, <1>13, ExpiryStep
<1>14. CASE Report \/ Push \/ TenMinutes
  <2>1. Resettled(store', store) /\ reruns' = reruns  BY <1>1, <1>14, MoveStep DEF Moved
  <2>2. \A v \in store' : \E w \in store : Onward(v, w)
    BY <2>1 DEF Resettled, Alike, Onward
  <2>3. QED  BY <1>7, <2>1, <2>2
<1>15. CASE UNCHANGED vars  BY <1>8, <1>15 DEF vars, history
<1>16. QED  BY <1>9, <1>10, <1>11, <1>12, <1>13, <1>14, <1>15, AllSteps

(***************************************************************************)
(* No head of the pull request is run again more than MAX_RETRIES_PER_HEAD *)
(* times while its watch lasts, unless a change was written over or a      *)
(* start brought an old head back.                                         *)
(***************************************************************************)
THEOREM RerunsAreBounded == Spec => []RerunsBounded
<1>1. Init => Counted
  BY BoundsAssumption DEF Init, Counted, CountsReruns
<1>2. Counted => RerunsBounded  BY DEF Counted, RerunsBounded
<1>3. QED  BY <1>1, <1>2, AlwaysAgreed, StepCounted, PTL DEF Spec

-----------------------------------------------------------------------------
(* Owners.                                                                 *)

(***************************************************************************)
(* Those with the lock and no start or stop behind their back have copies  *)
(* of one and the same thread's watch, and so has the store.               *)
(***************************************************************************)
Holders == {p \in inside : "unlocked" \notin outdated[p]}

Ours == store \union UNION {mine[p] : p \in Holders}

SameOwner(v, w) == v.thread = w.thread

Owned == "race" \notin causes => \A v, w \in Ours : SameOwner(v, w)

(* What a holder goes on with, it or the store had.                        *)
Inherits(p) ==
    \A v \in mine'[p] :
        \/ \E w \in store : SameOwner(v, w)
        \/ outdated'[p] = outdated[p] /\ \E w \in mine[p] : SameOwner(v, w)

(* A holder that does not write keeps the owner of its copy.               *)
LEMMA QuietInherits ==
    ASSUME WellFormed, NEW p \in inside, Quiet(p)
    PROVE  Inherits(p)
<1>1. TypeOK /\ p \in Procs  BY DEF WellFormed, TypeOK
<1>2. at[p] # "idle" /\ at[p] \notin Starting
  BY <1>1 DEF WellFormed, Placed, Seated, Seat
<1>3. ASSUME Left(p) PROVE Inherits(p)  BY <1>3 DEF Left, Placing, Inherits
<1>4. ASSUME NEW w \in store, NEW a, Found(p, a, w) PROVE Inherits(p)
  BY <1>4 DEF Found, Placing, Inherits, SameOwner
<1>5. ASSUME NEW a, Placing(p, a, mine[p]), outdated'[p] = outdated[p] PROVE Inherits(p)
  BY <1>5 DEF Placing, Inherits, SameOwner
<1>6. ASSUME NEW a, NEW v, Placing(p, a, {v}), NEW w \in mine[p], SameOwner(v, w),
             outdated'[p] = outdated[p]
      PROVE  Inherits(p)
  BY <1>6 DEF Placing, Inherits
<1>7. CASE Stamp(p)  BY <1>1, <1>3, <1>4, <1>7, StampStep
<1>8. CASE Load(p)  BY <1>1, <1>3, <1>4, <1>8, LoadStep
<1>9. CASE StopGet(p)  BY <1>1, <1>3, <1>4, <1>9, StopGetStep
<1>10. CASE Look(p)
  <2>1. /\ outdated' = outdated
        /\ \/ Placing(p, "stopGet", mine[p])
           \/ \E w \in mine[p], v \in Watches : Looked(p, v, w)
    BY <1>1, <1>10, LookStep
  <2>2. CASE Placing(p, "stopGet", mine[p])  BY <1>5, <2>1, <2>2
  <2>3. ASSUME NEW w \in mine[p], NEW v \in Watches, Looked(p, v, w) PROVE Inherits(p)
    <3>1. PICK a : Placing(p, a, {v})  BY <2>3 DEF Looked
    <3>2. SameOwner(v, w)  BY <2>3 DEF Looked, SameWatch, SameOwner
    <3>3. QED  BY <1>6, <2>1, <3>1, <3>2
  <2>4. QED  BY <2>1, <2>2, <2>3
<1>11. CASE Dispatch(p)
  <2>1. Left(p) \/ (Placing(p, "undo", mine[p]) /\ Noting(p, outdated[p]))
    BY <1>1, <1>11, DispatchStep
  <2>2. QED  BY <1>3, <1>5, <2>1 DEF Noting
<1>12. CASE Undo(p)
  <2>1. PICK w \in mine[p], v \in Watches :
          /\ Placing(p, "forget", {v})
          /\ \/ store = {} /\ Noting(p, outdated[p]) /\ SameWatch(v, w) /\ SameAim(v, w)
             \/ /\ Noting(p, {})
                /\ \E u \in store :
                      /\ SameWatch(v, u) /\ SameAim(v, u)
                      /\ \/ v.keys = u.keys
                         \/ u.head = w.head /\ v.keys = u.keys \ {w.retries}
    BY <1>1, <1>12, UndoStep
  <2>2. CASE Noting(p, outdated[p]) /\ SameWatch(v, w)
    BY <1>6, <2>1, <2>2 DEF Noting, SameWatch, SameOwner
  <2>3. CASE \E u \in store : SameWatch(v, u)
    BY <2>1, <2>3 DEF Placing, Inherits, SameWatch, SameOwner
  <2>4. QED  BY <2>1, <2>2, <2>3
<1>13. CASE StopCron(p)
  <2>1. /\ outdated' = outdated
        /\ \/ Placing(p, "stopDelete", mine[p])
           \/ \E w \in mine[p], v \in Watches : Placing(p, "stopSave", {v}) /\ SameOwner(v, w)
    BY <1>1, <1>13, StopCronStep DEF SameOwner
  <2>2. QED  BY <1>5, <1>6, <2>1
<1>14. CASE RetryGet(p)
  <2>1. Left(p) \/ \E w \in store, v \in Watches : Placing(p, "retrySave", {v}) /\ SameOwner(v, w)
    BY <1>1, <1>14, RetryGetStep DEF SameWatch, SameOwner
  <2>2. CASE \E w \in store, v \in Watches : Placing(p, "retrySave", {v}) /\ SameOwner(v, w)
    BY <2>2 DEF Placing, Inherits
  <2>3. QED  BY <1>3, <2>1, <2>2
<1>15. CASE Broken(p)
  <2>1. Placing(p, "idle", {}) \/ Left(p)
    BY <1>1, <1>2, <1>15, BrokenStep DEF Starting
  <2>2. CASE Placing(p, "idle", {})  BY <2>2 DEF Placing, Inherits
  <2>3. QED  BY <1>3, <2>1, <2>2
<1>16. CASE StartGet(p) \/ StartCron(p) \/ StartCreate(p) \/ Rollback(p)
            \/ \E t \in Threads : StopCall(p, t) \/ StartCall(p, t)
  <2>1. at[p] \in {"startGet", "startCron", "startCreate", "rollback", "idle"}
    BY <1>1, <1>16, StartGetStep, StartCronStep, StartCreateStep, RollbackStep, StopCallStep,
       StartCallStep
  <2>2. QED  BY <1>2, <2>1 DEF Starting
<1>17. QED
  BY <1>7, <1>8, <1>9, <1>10, <1>11, <1>12, <1>13, <1>14, <1>15, <1>16 DEF Quiet

(* So they keep their one owner.                                           *)
LEMMA KeepOwner ==
    ASSUME Owned, "race" \in causes => "race" \in causes',
           \A v \in Ours' : \E w \in Ours : SameOwner(v, w)
    PROVE  Owned'
<1> SUFFICES ASSUME "race" \notin causes', NEW v \in Ours', NEW w \in Ours'
             PROVE  SameOwner(v, w)
  BY DEF Owned, SameOwner
<1>1. PICK x \in Ours : SameOwner(v, x)  OBVIOUS
<1>2. PICK y \in Ours : SameOwner(w, y)  OBVIOUS
<1>3. SameOwner(x, y)  BY DEF Owned
<1>4. QED  BY <1>1, <1>2, <1>3 DEF SameOwner

(* A write without a race is by a holder, or leaves no other holder.       *)
LEMMA HolderWrites ==
    ASSUME WellFormed, NEW p \in Procs, NEW contents, Wrote(p, contents), "race" \notin causes'
    PROVE  /\ "race" \notin causes
           /\ p \in inside => p \in Holders
           /\ p \notin inside => outdated[p] = {}
           /\ p \notin inside =>
                \A q \in Procs \ {p} : mine[q] # {} => "unlocked" \in outdated'[q]
           /\ \A q \in Procs \ {p} : "unlocked" \notin outdated'[q] /\ mine[q] # {} =>
                "unlocked" \notin outdated[q]
<1>1. p \in Procs /\ "unlocked" \notin outdated[p] /\ (p \notin inside => outdated[p] = {})
  BY DEF Wrote
<1>2. "race" \notin causes  BY DEF Wrote
<1>3. p \notin inside => Kind(p) = "unlocked"  BY DEF Kind
<1>4. \A q \in Procs \ {p} : mine[q] # {} => outdated'[q] = outdated[q] \union {Kind(p)}
  BY DEF Wrote
<1>5. \A q \in Procs \ {p} : mine[q] # {} => Kind(p) \in outdated'[q] /\ outdated[q] \subseteq outdated'[q]
  BY <1>4
<1>6. QED  BY <1>1, <1>2, <1>3, <1>5 DEF Holders

(* Every step leaves the watch to one thread.                              *)
LEMMA StepOwned == WellFormed /\ Owned /\ [Next]_vars => Owned'
<1> SUFFICES ASSUME WellFormed, Owned, [Next]_vars PROVE Owned'  OBVIOUS
<1>1. TypeOK /\ inside \subseteq Procs  BY DEF WellFormed, TypeOK
<1>2. "race" \in causes => "race" \in causes'  BY CausesStay
<1>3. ASSUME \A v \in store' : \E w \in Ours : SameOwner(v, w),
             \A q \in Holders' : \A v \in mine'[q] : \E w \in Ours : SameOwner(v, w)
      PROVE  Owned'
  <2>1. \A v \in Ours' : \E w \in Ours : SameOwner(v, w)  BY <1>3 DEF Ours
  <2>2. QED  BY <1>2, <2>1, KeepOwner
<1>4. /\ \A v \in store : \E w \in Ours : SameOwner(v, w)
      /\ \A q \in Holders : \A v \in mine[q] : \E w \in Ours : SameOwner(v, w)
  BY DEF Ours, SameOwner
<1>5. ASSUME NEW p \in Procs, Tick(p) \/ Webhook(p) \/ RetryCall(p) PROVE Owned'
  <2>1. /\ at[p] = "idle" /\ inside' = inside \union {p} /\ UNCHANGED <<store, outdated>>
        /\ mine'[p] = mine[p] /\ \A q \in Procs \ {p} : mine'[q] = mine[q]
    BY <1>1, <1>5, TakeStep DEF Took, Placing
  <2>2. mine[p] = {}  BY <2>1 DEF WellFormed, Placed, Seated, Seat, Empty
  <2>3. \A q \in Holders' : q \in Procs /\ (q = p \/ q \in Holders)  BY <1>1, <2>1 DEF Holders
  <2>4. QED  BY <1>3, <1>4, <2>1, <2>2, <2>3
<1>6. ASSUME NEW p \in Procs, Quiet(p) PROVE Owned'
  <2>1. /\ store' = store /\ inside' \subseteq inside
        /\ \A q \in Procs \ {p} : mine'[q] = mine[q] /\ outdated'[q] = outdated[q]
    BY <1>1, <1>6, QuietStep DEF Unnoticed
  <2>2. ASSUME NEW q \in Holders', NEW v \in mine'[q] PROVE \E w \in Ours : SameOwner(v, w)
    <3>1. q \in inside /\ q \in Procs /\ "unlocked" \notin outdated'[q]
      BY <1>1, <2>1 DEF Holders
    <3>2. CASE q = p
      <4>1. Inherits(p)  BY <1>6, <3>1, <3>2, QuietInherits
      <4>2. CASE \E w \in store : SameOwner(v, w)  BY <4>2 DEF Ours
      <4>3. CASE outdated'[p] = outdated[p] /\ \E w \in mine[p] : SameOwner(v, w)
        <5>1. p \in Holders  BY <3>1, <3>2, <4>3 DEF Holders
        <5>2. QED  BY <4>3, <5>1 DEF Ours
      <4>4. QED  BY <3>2, <4>1, <4>2, <4>3 DEF Inherits
    <3>3. CASE q # p
      <4>1. q \in Holders /\ v \in mine[q]  BY <2>1, <3>1, <3>3 DEF Holders
      <4>2. QED  BY <1>4, <4>1
    <3>4. QED  BY <3>2, <3>3
  <2>3. QED  BY <1>3, <1>4, <2>1, <2>2
<1>7. ASSUME NEW p \in Procs, Writing(p) PROVE Owned'
  <2> SUFFICES ASSUME "race" \notin causes' PROVE Owned'  BY DEF Owned
  <2>1. /\ inside' = inside
        /\ mine'[p] \subseteq mine[p] /\ \A q \in Procs \ {p} : mine'[q] = mine[q]
    BY <1>1, <1>7, WritingStep DEF Placing
  <2>2. PICK contents \in {mine[p], {}} : Wrote(p, contents)  BY <1>1, <1>7, WritingStep
  <2>3. store' \subseteq mine[p]  BY <2>2 DEF Wrote
  <2>4. /\ p \in inside => p \in Holders
        /\ p \notin inside =>
             \A q \in Procs \ {p} : mine[q] # {} => "unlocked" \in outdated'[q]
        /\ \A q \in Procs \ {p} : "unlocked" \notin outdated'[q] /\ mine[q] # {} =>
             "unlocked" \notin outdated[q]
    BY <2>2, HolderWrites
  <2>5. CASE p \in inside
    <3>1. \A v \in mine[p] : v \in Ours  BY <2>4, <2>5 DEF Ours
    <3>2. ASSUME NEW q \in Holders', NEW v \in mine'[q] PROVE v \in Ours
      <4>1. q \in inside /\ q \in Procs /\ "unlocked" \notin outdated'[q]
        BY <1>1, <2>1 DEF Holders
      <4>2. CASE q = p  BY <2>1, <3>1, <4>2
      <4>3. CASE q # p
        <5>1. v \in mine[q] /\ q \in Procs \ {p}  BY <2>1, <4>1, <4>3
        <5>2. "unlocked" \notin outdated[q]  BY <2>4, <4>1, <5>1
        <5>3. QED  BY <4>1, <5>1, <5>2 DEF Ours, Holders
      <4>4. QED  BY <4>2, <4>3
    <3>3. QED  BY <1>3, <2>3, <3>1, <3>2 DEF SameOwner
  <2>6. CASE p \notin inside
    <3>1. \A q \in Holders' : mine'[q] = {}
      <4> SUFFICES ASSUME NEW q \in Holders' PROVE mine'[q] = {}  OBVIOUS
      <4>1. q \in inside /\ q \in Procs \ {p} /\ "unlocked" \notin outdated'[q]
        BY <1>1, <2>1, <2>6 DEF Holders
      <4>2. QED  BY <2>1, <2>4, <2>6, <4>1
    <3>2. Ours' = store'  BY <3>1 DEF Ours
    <3>3. One(mine[p])  BY DEF WellFormed, Placed, Seated, Seat
    <3>4. QED  BY <2>3, <3>2, <3>3 DEF Owned, One, SameOwner
  <2>7. QED  BY <2>5, <2>6
<1>8. ASSUME NEW p \in Procs, Release(p) PROVE Owned'
  <2>1. /\ inside' \subseteq inside /\ UNCHANGED <<store, outdated>>
        /\ \A q \in Procs : mine'[q] = mine[q]
    BY <1>1, <1>8, ReleaseStep DEF Placing
  <2>2. \A q \in Holders' : q \in Holders /\ mine'[q] = mine[q]  BY <1>1, <2>1 DEF Holders
  <2>3. QED  BY <1>3, <1>4, <2>1, <2>2
<1>9. CASE LockExpires
  <2>1. UNCHANGED <<store, mine, inside, outdated>>  BY <1>1, <1>9, ExpiryStep
  <2>2. QED  BY <1>3, <1>4, <2>1 DEF Holders
<1>10. CASE Report \/ Push \/ TenMinutes
  <2>1. Moved  BY <1>1, <1>10, MoveStep
  <2>2. ASSUME NEW after, NEW before, Resettled(after, before)
        PROVE  \A v \in after : \E w \in before : SameOwner(v, w)
    BY <2>2 DEF Resettled, Alike, SameWatch, SameOwner
  <2>3. Holders' = Holders  BY <2>1 DEF Moved, Holders
  <2>4. \A v \in store' : \E w \in Ours : SameOwner(v, w)
    <3>1. Resettled(store', store)  BY <2>1 DEF Moved
    <3>2. QED  BY <2>2, <3>1 DEF Ours
  <2>5. ASSUME NEW q \in Holders', NEW v \in mine'[q] PROVE \E w \in Ours : SameOwner(v, w)
    <3>1. q \in Holders /\ q \in Procs  BY <1>1, <2>3 DEF Holders
    <3>2. Resettled(mine'[q], mine[q])  BY <2>1, <3>1 DEF Moved
    <3>3. PICK w \in mine[q] : SameOwner(v, w)  BY <2>2, <3>2
    <3>4. QED  BY <3>1, <3>3 DEF Ours
  <2>6. QED  BY <1>3, <2>4, <2>5
<1>11. CASE UNCHANGED vars
  BY <1>3, <1>4, <1>11 DEF vars, procs, Holders
<1>12. QED  BY <1>5, <1>6, <1>7, <1>8, <1>9, <1>10, <1>11, AllSteps

(* A write without a race is by the owner, or over an inactive watch.      *)
LEMMA OwnerWrites ==
    ASSUME WellFormed, Agreed, Owned, NEW p \in Procs, Writing(p), "race" \notin causes',
           NEW w \in store, NEW v \in store'
    PROVE  w.status = "inactive" \/ SameOwner(v, w)
<1>1. TypeOK  BY DEF WellFormed
<1>2. PICK contents \in {mine[p], {}} : Wrote(p, contents)  BY <1>1, WritingStep
<1>3. v \in mine[p]  BY <1>2 DEF Wrote
<1>4. /\ "race" \notin causes
      /\ p \in inside => p \in Holders
      /\ p \notin inside => outdated[p] = {}
  BY <1>2, HolderWrites
<1>5. CASE p \in inside
  <2>1. v \in Ours /\ w \in Ours  BY <1>3, <1>4, <1>5 DEF Ours
  <2>2. QED  BY <1>4, <2>1 DEF Owned
<1>6. CASE p \notin inside
  <2>1. Current(at[p], p \in fresh, mine[p], store, "rewound" \in causes)
    BY <1>4, <1>6 DEF Agreed, Agrees
  <2>2. Fits(at[p], v, w, "rewound" \in causes)  BY <1>3, <2>1 DEF Current
  <2>3. store' # {}  OBVIOUS
  <2>4. ~StopDelete(p) /\ ~RollbackItem(p)
    BY <1>1, <2>3, StopDeleteStep, RollbackItemStep DEF Wrote
  <2>5. at[p] \in {"stampSave", "save", "forget", "saveEnd", "saveKey", "stopSave", "retrySave",
                   "startPut", "startSave"}
    BY <1>1, <2>4, StampSaveStep, SaveStep, SaveAndGoOnStep, StopSaveStep, RetrySaveStep,
       StartPutStep, StartSaveStep DEF Writing
  <2>6. QED  BY <2>2, <2>5 DEF Fits, Alike, SameWatch, SameOwner
<1>7. QED  BY <1>5, <1>6

(* So no step gives it to another one.                                     *)
LEMMA StepOwnedByOne ==
    ASSUME WellFormed, Agreed, Owned, [Next]_vars,
           NEW w \in store, NEW v \in store',
           w.status = "active", v.status = "active", w.thread # v.thread
    PROVE  "race" \in causes'
<1> SUFFICES ASSUME "race" \notin causes' PROVE FALSE  OBVIOUS
<1>1. TypeOK /\ One(store)  BY DEF WellFormed, Placed
<1>2. ~SameOwner(v, w)  BY DEF SameOwner
<1>3. store' # store  BY <1>1, <1>2 DEF One, SameOwner
<1>4. ASSUME NEW p \in Procs, Tick(p) \/ Webhook(p) \/ RetryCall(p) PROVE FALSE
  BY <1>1, <1>3, <1>4, TakeStep DEF Took
<1>5. ASSUME NEW p \in Procs, Quiet(p) PROVE FALSE
  BY <1>1, <1>3, <1>5, QuietStep DEF Unnoticed
<1>6. ASSUME NEW p \in Procs, Writing(p) PROVE FALSE
  BY <1>2, <1>6, OwnerWrites
<1>7. ASSUME NEW p \in Procs, Release(p) PROVE FALSE
  BY <1>1, <1>3, <1>7, ReleaseStep
<1>8. CASE LockExpires  BY <1>1, <1>3, <1>8, ExpiryStep
<1>9. CASE Report \/ Push \/ TenMinutes
  <2>1. Resettled(store', store)  BY <1>1, <1>9, MoveStep DEF Moved
  <2>2. PICK x \in store : Alike(v, x)  BY <2>1 DEF Resettled
  <2>3. x = w  BY <1>1 DEF One
  <2>4. QED  BY <1>2, <2>2, <2>3 DEF Alike, SameWatch, SameOwner
<1>10. CASE UNCHANGED vars  BY <1>3, <1>10 DEF vars
<1>11. QED  BY <1>4, <1>5, <1>6, <1>7, <1>8, <1>9, <1>10, AllSteps

(***************************************************************************)
(* "This pull request is already monitored from another agent thread": an  *)
(* active watch is not taken over, unless a change is written over.        *)
(***************************************************************************)
THEOREM WatchKeepsItsOwner == Spec => OwnedByOne
<1>1. Init => Owned  BY DEF Init, Owned, Ours, Holders
<1>2. WellFormed /\ Agreed /\ Owned /\ [Next]_vars =>
        [\A w \in store, v \in store' :
           w.status = "active" /\ v.status = "active" /\ w.thread # v.thread =>
               "race" \in causes']_vars
  BY StepOwnedByOne
<1>3. QED  BY <1>1, <1>2, AlwaysAgreed, StepOwned, PTL DEF Spec, OwnedByOne

-----------------------------------------------------------------------------
(* Dispatches.                                                             *)

(* A record from which nobody will dispatch the failure.                   *)
Knows(w, h, k) == h < w.head \/ (w.head = h /\ k \in w.keys)

Guarded(h, k) == \A w \in store : Knows(w, h, k)

(* An evaluation that recorded the key and may still dispatch.             *)
Ticket(p, h, k) ==
    /\ at[p] \in {"dispatch", "undo"} /\ "unlocked" \notin outdated[p]
    /\ \E v \in mine[p] : v.head = h /\ v.retries = k

(* One that is about to take the key back.                                 *)
Returning(p, h, k) ==
    /\ at[p] = "forget" /\ outdated[p] = {}
    /\ \E v \in mine[p], w \in store : w.head = h /\ k \in w.keys /\ k \notin v.keys

(***************************************************************************)
(* A failure that was dispatched is in the record; one with a ticket out   *)
(* is in the record and has not been dispatched; there is one ticket, and  *)
(* none for a key that is taken back.                                      *)
(***************************************************************************)
Once(h, k) ==
    /\ sent[<<h, k>>] # "more"
    /\ sent[<<h, k>>] # "never" => Guarded(h, k)
    /\ \A p \in Procs : Ticket(p, h, k) =>
          /\ sent[<<h, k>>] = "never" /\ Guarded(h, k)
          /\ \A q \in Procs : Ticket(q, h, k) => q = p
    /\ \A p \in Procs : Returning(p, h, k) =>
          /\ sent[<<h, k>>] = "never"
          /\ \A q \in Procs : ~Ticket(q, h, k)

AtMostOnce ==
    Without({"race", "clash", "error", "rewound"}) => \A h \in Heads, k \in Tries : Once(h, k)

(* A step that hands out no ticket, and guards what it has to.             *)
LEMMA OnceStays ==
    ASSUME NEW h, NEW k, Once(h, k), sent'[<<h, k>>] = sent[<<h, k>>],
           (sent[<<h, k>>] # "never" \/ \E p \in Procs : Ticket(p, h, k)) /\ Guarded(h, k) =>
               Guarded(h, k)',
           \A p \in Procs : Ticket(p, h, k)' => Ticket(p, h, k),
           \A p \in Procs : Returning(p, h, k)' =>
               Returning(p, h, k) \/ (Ticket(p, h, k) /\ ~Ticket(p, h, k)')
    PROVE  Once(h, k)'
<1> DEFINE now == sent[<<h, k>>]
<1>1. now # "more" /\ (now # "never" => Guarded(h, k)')
  BY DEF Once
<1>2. ASSUME NEW p \in Procs, Ticket(p, h, k)'
      PROVE  now = "never" /\ Guarded(h, k)' /\ \A q \in Procs : Ticket(q, h, k)' => q = p
  BY <1>2 DEF Once
<1>3. ASSUME NEW p \in Procs, Returning(p, h, k)'
      PROVE  now = "never" /\ \A q \in Procs : ~Ticket(q, h, k)'
  <2>1. CASE Returning(p, h, k)  BY <2>1 DEF Once
  <2>2. CASE Ticket(p, h, k) /\ ~Ticket(p, h, k)'  BY <2>2 DEF Once
  <2>3. QED  BY <1>3, <2>1, <2>2
<1>4. sent'[<<h, k>>] = now  OBVIOUS
<1> HIDE DEF now
<1>5. QED  BY <1>1, <1>2, <1>3, <1>4 DEF Once

(* An operation that changes its place alone.                              *)
LEMMA OthersOnce ==
    ASSUME WellFormed, NEW p \in Procs, NEW h, NEW k, Once(h, k),
           sent'[<<h, k>>] = sent[<<h, k>>], store' = store,
           \A q \in Procs \ {p} : at'[q] = at[q] /\ mine'[q] = mine[q] /\ outdated'[q] = outdated[q],
           Ticket(p, h, k)' => Ticket(p, h, k),
           Returning(p, h, k)' => Returning(p, h, k) \/ (Ticket(p, h, k) /\ ~Ticket(p, h, k)')
    PROVE  Once(h, k)'
<1>1. Guarded(h, k)' <=> Guarded(h, k)  BY DEF Guarded
<1>2. \A q \in Procs \ {p} : Ticket(q, h, k)' <=> Ticket(q, h, k)  BY DEF Ticket
<1>3. \A q \in Procs \ {p} : Returning(q, h, k)' <=> Returning(q, h, k)  BY DEF Returning
<1>4. QED  BY <1>1, <1>2, <1>3, OnceStays

(* Tickets are for dispatches, and keys are taken back by undoing them.    *)
LEMMA QuietGoes ==
    ASSUME WellFormed, NEW p \in Procs, Quiet(p), ~Dispatch(p), ~Undo(p)
    PROVE  at'[p] \notin {"dispatch", "undo", "forget"}
<1>1. TypeOK  BY DEF WellFormed
<1>2. ASSUME Left(p) PROVE at'[p] \notin {"dispatch", "undo", "forget"}
  BY <1>2 DEF Left, Placing, Home
<1>3. CASE Stamp(p)  BY <1>1, <1>2, <1>3, StampStep DEF Found, Placing
<1>4. CASE Load(p)  BY <1>1, <1>2, <1>4, LoadStep DEF Found, Placing
<1>5. CASE StopGet(p)  BY <1>1, <1>2, <1>5, StopGetStep DEF Found, Placing
<1>6. CASE Look(p)  BY <1>1, <1>6, LookStep DEF Looked, Placing
<1>7. CASE StopCron(p)
  <2>1. \E m : Placing(p, "stopDelete", m) \/ Placing(p, "stopSave", m)
    BY <1>1, <1>7, StopCronStep
  <2>2. QED  BY <2>1 DEF Placing
<1>8. CASE RetryGet(p)
  <2>1. Left(p) \/ \E m : Placing(p, "retrySave", m)  BY <1>1, <1>8, RetryGetStep
  <2>2. QED  BY <1>2, <2>1 DEF Placing
<1>9. CASE StartGet(p)
  <2>1. Left(p) \/ \E m : Placing(p, "startPut", m)  BY <1>1, <1>9, StartGetStep DEF TakesOver
  <2>2. QED  BY <1>2, <2>1 DEF Placing
<1>10. CASE StartCron(p)
  <2>1. \E m : Placing(p, "startCreate", m) \/ Placing(p, "startSave", m)
    BY <1>1, <1>10, StartCronStep
  <2>2. QED  BY <2>1 DEF Placing
<1>11. CASE StartCreate(p)
  <2>1. \E m : Placing(p, "rollback", m) \/ Placing(p, "startSave", m)
    BY <1>1, <1>11, StartCreateStep
  <2>2. QED  BY <2>1 DEF Placing
<1>12. CASE Rollback(p)
  <2>1. Left(p) \/ Placing(p, "rollbackItem", mine[p])  BY <1>1, <1>12, RollbackStep
  <2>2. QED  BY <1>2, <2>1 DEF Placing
<1>13. ASSUME NEW t \in Threads, StopCall(p, t) \/ StartCall(p, t)
       PROVE  at'[p] \notin {"dispatch", "undo", "forget"}
  <2>1. \E m : Placing(p, "stopGet", m) \/ Placing(p, "startGet", m)
    BY <1>1, <1>13, StopCallStep, StartCallStep
  <2>2. QED  BY <2>1 DEF Placing
<1>14. CASE Broken(p)
  <2>1. Left(p) \/ \E m : Placing(p, "idle", m) \/ Placing(p, "rollback", m)
    BY <1>1, <1>14, BrokenStep
  <2>2. QED  BY <1>2, <2>1 DEF Placing
<1>15. QED
  BY <1>3, <1>4, <1>5, <1>6, <1>7, <1>8, <1>9, <1>10, <1>11, <1>12, <1>13, <1>14 DEF Quiet

(* The agent is told: of a failure it was not told of, on the only ticket. *)
LEMMA TellsOnce ==
    ASSUME TypeOK, NEW w \in Watches, w.retries \in Tries, Tells(w),
           sent[<<w.head, w.retries>>] = "never"
    PROVE  \A h \in Heads, k \in Tries :
              IF w.head = h /\ w.retries = k THEN sent'[<<h, k>>] = "once"
                                             ELSE sent'[<<h, k>>] = sent[<<h, k>>]
<1> DEFINE x == <<w.head, w.retries>>
<1>1. x \in Heads \X Tries  BY Fields DEF Heads
<1>2. sent' = [sent EXCEPT ![x] = "once"]  BY DEF Tells, OneMore
<1>3. \A h \in Heads, k \in Tries :
        <<h, k>> \in Heads \X Tries /\ (<<h, k>> = x <=> w.head = h /\ w.retries = k)
  OBVIOUS
<1> HIDE DEF x
<1>4. \A f \in Heads \X Tries : sent'[f] = IF f = x THEN "once" ELSE sent[f]
  BY <1>1, <1>2 DEF TypeOK
<1>5. QED  BY <1>3, <1>4

(* The dispatch uses up its ticket.                                        *)
LEMMA DispatchOnce ==
    ASSUME WellFormed, Agreed, \A h \in Heads, k \in Tries : Once(h, k),
           NEW p \in Procs, Dispatch(p), "race" \notin causes', "error" \notin causes'
    PROVE  \A h \in Heads, k \in Tries : Once(h, k)'
<1>1. TypeOK /\ Agrees(p) /\ One(mine[p])
  BY DEF WellFormed, Agreed, Placed, Seated, Seat
<1>2. at[p] = "dispatch" /\ "unlocked" \notin outdated[p] /\ store' = store
  BY <1>1, DispatchStep
<1>3. PICK w \in mine[p] :
        \/ Left(p) /\ Tells(w)
        \/ Placing(p, "undo", mine[p]) /\ Noting(p, outdated[p]) /\ sent' = sent
  BY <1>1, DispatchStep
<1>4. \A q \in Procs \ {p} : at'[q] = at[q] /\ mine'[q] = mine[q] /\ outdated'[q] = outdated[q]
  BY <1>3 DEF Left, Placing, Noting
<1>5. w \in Watches /\ w.head \in Heads /\ w.retries \in Tries
  <2>1. w \in Watches /\ w.retries < MaxRetries  BY <1>1, <1>2, CopyTypes DEF Agrees, Made
  <2>2. w.retries \in 0..MaxRetries /\ w.head \in 1..MaxHeads  BY <2>1, Fields
  <2>3. QED  BY <2>1, <2>2, BoundsAssumption DEF Tries, Heads
<1>6. Ticket(p, w.head, w.retries)  BY <1>2 DEF Ticket
<1>7. Once(w.head, w.retries)  BY <1>5
<1>8. /\ sent[<<w.head, w.retries>>] = "never" /\ Guarded(w.head, w.retries)
      /\ \A q \in Procs : Ticket(q, w.head, w.retries) => q = p
      /\ \A q \in Procs : ~Returning(q, w.head, w.retries)
  BY <1>6, <1>7 DEF Once
<1>9. CASE Left(p) /\ Tells(w)
  <2>1. at'[p] \in {"release", "idle"}  BY <1>9 DEF Left, Placing, Home
  <2>2. \A h, k : ~Ticket(p, h, k)' /\ ~Returning(p, h, k)'
    BY <2>1 DEF Ticket, Returning
  <2>3. \A h \in Heads, k \in Tries :
          IF w.head = h /\ w.retries = k THEN sent'[<<h, k>>] = "once"
                                         ELSE sent'[<<h, k>>] = sent[<<h, k>>]
    BY <1>1, <1>5, <1>8, <1>9, TellsOnce
  <2> SUFFICES ASSUME NEW h \in Heads, NEW k \in Tries PROVE Once(h, k)'  OBVIOUS
  <2>4. CASE w.head = h /\ w.retries = k
    <3>1. sent'[<<h, k>>] = "once"  BY <2>3, <2>4
    <3>2. Guarded(h, k)'  BY <1>2, <1>8, <2>4 DEF Guarded
    <3>3. \A q \in Procs : ~Ticket(q, h, k)'
      <4>1. \A q \in Procs \ {p} : Ticket(q, h, k)' <=> Ticket(q, h, k)  BY <1>4 DEF Ticket
      <4>2. QED  BY <1>8, <2>2, <2>4, <4>1
    <3>4. \A q \in Procs : ~Returning(q, h, k)'
      <4>1. \A q \in Procs \ {p} : Returning(q, h, k)' <=> Returning(q, h, k)
        BY <1>2, <1>4 DEF Returning
      <4>2. QED  BY <1>8, <2>2, <2>4, <4>1
    <3>5. QED  BY <3>1, <3>2, <3>3, <3>4 DEF Once
  <2>5. CASE ~(w.head = h /\ w.retries = k)
    <3>1. sent'[<<h, k>>] = sent[<<h, k>>]  BY <2>3, <2>5
    <3>2. QED  BY <1>2, <1>4, <2>2, <3>1, OthersOnce
  <2>6. QED  BY <2>4, <2>5
<1>10. CASE Placing(p, "undo", mine[p]) /\ Noting(p, outdated[p]) /\ sent' = sent
  <2>1. at'[p] = "undo" /\ mine'[p] = mine[p] /\ outdated'[p] = outdated[p]
    BY <1>10 DEF Placing, Noting
  <2>2. \A h, k : (Ticket(p, h, k)' => Ticket(p, h, k)) /\ ~Returning(p, h, k)'
    BY <1>2, <2>1 DEF Ticket, Returning
  <2>3. QED  BY <1>2, <1>4, <1>10, <2>2, OthersOnce
<1>11. QED  BY <1>3, <1>9, <1>10

(* The ticket is handed back for the key.                                  *)
LEMMA UndoOnce ==
    ASSUME WellFormed, \A h \in Heads, k \in Tries : Once(h, k),
           NEW p \in Procs, Undo(p), "race" \notin causes'
    PROVE  \A h \in Heads, k \in Tries : Once(h, k)'
<1>1. TypeOK /\ One(store)  BY DEF WellFormed, Placed
<1>2. at[p] = "undo" /\ "unlocked" \notin outdated[p] /\ store' = store /\ sent' = sent
  BY <1>1, UndoStep DEF Others
<1>3. PICK w \in mine[p], v \in Watches :
        /\ Placing(p, "forget", {v})
        /\ \/ store = {} /\ Noting(p, outdated[p]) /\ SameWatch(v, w) /\ SameAim(v, w)
           \/ /\ Noting(p, {})
              /\ \E u \in store :
                    /\ SameWatch(v, u) /\ SameAim(v, u)
                    /\ \/ v.keys = u.keys
                       \/ u.head = w.head /\ v.keys = u.keys \ {w.retries}
  BY <1>1, UndoStep
<1>4. \A q \in Procs \ {p} : at'[q] = at[q] /\ mine'[q] = mine[q] /\ outdated'[q] = outdated[q]
  BY <1>3 DEF Placing, Noting
<1>5. at'[p] = "forget" /\ mine'[p] = {v}  BY <1>3 DEF Placing
<1> SUFFICES ASSUME NEW h \in Heads, NEW k \in Tries PROVE Once(h, k)'  OBVIOUS
<1>6. ~Ticket(p, h, k)'  BY <1>5 DEF Ticket
<1>7. ASSUME Returning(p, h, k)' PROVE Ticket(p, h, k)
  <2>1. PICK u \in store : u.head = h /\ k \in u.keys /\ k \notin v.keys
    BY <1>2, <1>5, <1>7 DEF Returning
  <2>2. \A x \in store : x = u  BY <1>1 DEF One
  <2>3. u.head = w.head /\ v.keys = u.keys \ {w.retries}  BY <1>3, <2>1, <2>2
  <2>4. k = w.retries  BY <2>1, <2>3
  <2>5. QED  BY <1>2, <2>1, <2>3, <2>4 DEF Ticket
<1>8. QED  BY <1>2, <1>4, <1>6, <1>7, OthersOnce

(* Nothing else that leaves the record alone matters.                      *)
LEMMA QuietOnce ==
    ASSUME WellFormed, Agreed, \A h \in Heads, k \in Tries : Once(h, k),
           NEW p \in Procs, Quiet(p), "race" \notin causes', "error" \notin causes'
    PROVE  \A h \in Heads, k \in Tries : Once(h, k)'
<1>1. CASE Dispatch(p)  BY <1>1, DispatchOnce
<1>2. CASE Undo(p)  BY <1>2, UndoOnce
<1>3. CASE ~Dispatch(p) /\ ~Undo(p)
  <2>1. TypeOK  BY DEF WellFormed
  <2>2. at'[p] \notin {"dispatch", "undo", "forget"}  BY <1>3, QuietGoes
  <2>3. /\ store' = store
        /\ \A q \in Procs \ {p} : at'[q] = at[q] /\ mine'[q] = mine[q] /\ outdated'[q] = outdated[q]
    BY <2>1, QuietStep DEF Unnoticed
  <2>4. sent' = sent  BY <1>3, <2>1, QuietCounts
  <2>5. \A h, k : ~Ticket(p, h, k)' /\ ~Returning(p, h, k)'
    BY <2>2 DEF Ticket, Returning
  <2>6. QED  BY <2>3, <2>4, <2>5, OthersOnce
<1>4. QED  BY <1>1, <1>2, <1>3

(* A write leaves no doubt of who may take back a key, or dispatch.        *)
LEMMA WriteTickets ==
    ASSUME WellFormed, NEW p \in Procs, Writing(p), NEW h, NEW k
    PROVE  \A q \in Procs \ {p} :
              /\ Ticket(q, h, k)' => Ticket(q, h, k) /\ p \in inside
              /\ ~Returning(q, h, k)'
<1>1. TypeOK  BY DEF WellFormed
<1>2. PICK contents : Wrote(p, contents)  BY <1>1, WritingStep
<1>3. \A q \in Procs \ {p} : at'[q] = at[q] /\ mine'[q] = mine[q]
  BY <1>1, WritingStep DEF Placing
<1>4. \A q \in Procs \ {p} : mine[q] # {} => outdated'[q] = outdated[q] \union {Kind(p)}
  BY <1>2 DEF Wrote
<1> SUFFICES ASSUME NEW q \in Procs \ {p}
             PROVE  /\ Ticket(q, h, k)' => Ticket(q, h, k) /\ p \in inside
                    /\ ~Returning(q, h, k)'
  OBVIOUS
<1>5. ASSUME Ticket(q, h, k)' PROVE Ticket(q, h, k) /\ p \in inside
  <2>1. mine[q] # {}  BY <1>3, <1>5 DEF Ticket
  <2>2. "unlocked" \notin outdated[q] /\ Kind(p) # "unlocked"
    BY <1>4, <1>5, <2>1 DEF Ticket
  <2>3. Ticket(q, h, k)  BY <1>3, <1>5, <2>2 DEF Ticket
  <2>4. QED  BY <2>2, <2>3 DEF Kind
<1>6. ASSUME Returning(q, h, k)' PROVE FALSE
  <2>1. mine[q] # {}  BY <1>3, <1>6 DEF Returning
  <2>2. QED  BY <1>4, <1>6, <2>1 DEF Returning
<1>7. QED  BY <1>5, <1>6

(* Only the write of a key goes on to a dispatch.                          *)
LEMMA WritingGoes ==
    ASSUME WellFormed, NEW p \in Procs, Writing(p), ~(SaveAndGoOn(p) /\ at[p] = "saveKey")
    PROVE  at'[p] \notin {"dispatch", "undo", "forget"}
<1>1. TypeOK  BY DEF WellFormed
<1>2. CASE StampSave(p) \/ Save(p) \/ RetrySave(p) \/ StartPut(p) \/ StartSave(p) \/ RollbackItem(p)
  BY <1>1, <1>2, StampSaveStep, SaveStep, RetrySaveStep, StartPutStep, StartSaveStep,
     RollbackItemStep DEF Placing
<1>3. CASE StopSave(p) \/ StopDelete(p)
  BY <1>1, <1>3, StopSaveStep, StopDeleteStep DEF Placing, Home
<1>4. CASE SaveAndGoOn(p)
  BY <1>1, <1>4, SaveAndGoOnStep DEF Placing
<1>5. QED  BY <1>2, <1>3, <1>4 DEF Writing

(* An up-to-date copy knows what the record knew, or takes a key back.     *)
LEMMA WritesKnow ==
    ASSUME WellFormed, Agreed, NEW p \in Procs, Writing(p), ~(StartPut(p) /\ p \in fresh),
           outdated[p] = {}, "rewound" \notin causes, NEW h \in Heads, NEW k \in Tries, Guarded(h, k)
    PROVE  Guarded(h, k)' \/ Returning(p, h, k)
<1>1. TypeOK  BY DEF WellFormed
<1>2. Current(at[p], p \in fresh, mine[p], store, "rewound" \in causes)
  BY DEF Agreed, Agrees
<1>3. CASE StopDelete(p) \/ RollbackItem(p)
  BY <1>1, <1>3, StopDeleteStep, RollbackItemStep DEF Wrote, Guarded
<1>4. CASE ~(StopDelete(p) \/ RollbackItem(p))
  <2>1. /\ at[p] \in {"stampSave", "save", "forget", "saveEnd", "saveKey", "stopSave", "retrySave",
                      "startPut", "startSave"}
        /\ store' = mine[p]
        /\ at[p] = "startPut" => StartPut(p)
    BY <1>1, <1>4, StampSaveStep, SaveStep, SaveAndGoOnStep, StopSaveStep, RetrySaveStep,
       StartPutStep, StartSaveStep DEF Writing, Wrote
  <2>2. PICK w \in store : Knows(w, h, k)
    BY <1>2, <2>1 DEF Current, Working, Guarded
  <2> SUFFICES ASSUME NEW v \in mine[p], ~Returning(p, h, k) PROVE Knows(v, h, k)
    BY <2>1 DEF Guarded
  <2>3. Fits(at[p], v, w, "rewound" \in causes)  BY <1>2 DEF Current
  <2>4. v.head \in Nat /\ w.head \in Nat /\ h \in Nat
    BY <1>1, CopyTypes, StoreTypes, Fields DEF Heads
  <2>5. CASE w.head < v.head
    BY <2>2, <2>4, <2>5 DEF Knows
  <2>6. CASE v.head = w.head /\ w.keys \subseteq v.keys
    BY <2>2, <2>6 DEF Knows
  <2>7. CASE at[p] = "forget" /\ v.head = w.head
    <3>1. k \in w.keys /\ w.head = h => k \in v.keys  BY <2>7 DEF Returning
    <3>2. QED  BY <2>2, <2>7, <3>1 DEF Knows
  <2>8. \/ w.head < v.head
        \/ v.head = w.head /\ w.keys \subseteq v.keys
        \/ at[p] = "forget" /\ v.head = w.head
    BY <2>1, <2>3, <2>4 DEF Fits, Alike, SameAim
  <2>9. QED  BY <2>5, <2>6, <2>7, <2>8
<1>5. QED  BY <1>3, <1>4

(* A clean write hands out tickets for new keys only.                      *)
LEMMA WritingOnce ==
    ASSUME WellFormed, Agreed, \A h \in Heads, k \in Tries : Once(h, k),
           NEW p \in Procs, Writing(p), "race" \notin causes', "clash" \notin causes',
           "rewound" \notin causes
    PROVE  \A h \in Heads, k \in Tries : Once(h, k)'
<1>1. TypeOK  BY DEF WellFormed
<1>2. outdated[p] = {} /\ Current(at[p], p \in fresh, mine[p], store, "rewound" \in causes)
  BY CleanWrite
<1> SUFFICES ASSUME NEW h \in Heads, NEW k \in Tries PROVE Once(h, k)'  OBVIOUS
<1>3. Once(h, k)  OBVIOUS
<1>4. \A q \in Procs \ {p} : /\ Ticket(q, h, k)' => Ticket(q, h, k) /\ p \in inside
                             /\ ~Returning(q, h, k)'
  BY WriteTickets
<1>5. CASE StartPut(p) /\ p \in fresh
  <2>1. at[p] = "startPut" /\ sent'[<<h, k>>] = "never" /\ at'[p] = "startCron"
    BY <1>1, <1>5, StartPutStep DEF Placing
  <2>2. p \notin inside  BY <2>1 DEF WellFormed, Placed, Seated, Seat, Starting
  <2>3. ~Ticket(p, h, k)' /\ ~Returning(p, h, k)'  BY <2>1 DEF Ticket, Returning
  <2>4. \A q \in Procs : ~Ticket(q, h, k)' /\ ~Returning(q, h, k)'
    BY <1>4, <2>2, <2>3
  <2>5. QED  BY <2>1, <2>4 DEF Once
<1>6. sent' = sent \/ (StartPut(p) /\ p \in fresh)
  BY <1>1, WritingCounts, StartPutStep
<1>7. CASE SaveAndGoOn(p) /\ at[p] = "saveKey"
  <2>1. store' = mine[p] /\ mine'[p] = mine[p] /\ at'[p] = "dispatch" /\ sent' = sent
    BY <1>1, <1>7, SaveAndGoOnStep DEF Wrote, Placing
  <2>2. ~Returning(p, h, k)'  BY <2>1 DEF Returning
  <2>3. CASE \E v \in mine[p] : v.head = h /\ v.retries = k
    <3>1. PICK v \in mine[p] : v.head = h /\ v.retries = k  BY <2>3
    <3>2. v.retries \in v.keys  BY <1>7 DEF Agreed, Agrees, Made
    <3>3. \A u \in mine[p] : u = v  BY DEF WellFormed, Placed, Seated, Seat, One
    <3>4. Guarded(h, k)'  BY <2>1, <3>1, <3>2, <3>3 DEF Guarded, Knows
    <3>5. ~Guarded(h, k)
      <4>1. PICK w \in store : Fits("saveKey", v, w, "rewound" \in causes)
        BY <1>2, <1>7 DEF Current, Working
      <4>2. w.head < h \/ (w.head = h /\ k \notin w.keys)
        BY <3>1, <4>1 DEF Fits, SameAim
      <4>3. w.head \in Nat /\ h \in Nat  BY <1>1, StoreTypes, Fields DEF Heads
      <4>4. ~Knows(w, h, k)  BY <4>2, <4>3 DEF Knows
      <4>5. QED  BY <4>4 DEF Guarded
    <3>6. sent[<<h, k>>] = "never" /\ \A q \in Procs : ~Ticket(q, h, k)
      BY <1>3, <3>5 DEF Once
    <3>7. sent'[<<h, k>>] = "never"  BY <2>1, <3>6
    <3>8. QED  BY <1>4, <2>2, <3>4, <3>6, <3>7 DEF Once
  <2>4. CASE ~(\E v \in mine[p] : v.head = h /\ v.retries = k)
    <3>1. ~Ticket(p, h, k)'  BY <2>1, <2>4 DEF Ticket
    <3>2. ~Returning(p, h, k)  BY <1>7 DEF Returning
    <3>3. Guarded(h, k) => Guarded(h, k)'
      <4>1. ~StartPut(p)  BY <1>1, <1>7, StartPutStep
      <4>2. QED  BY <1>2, <3>2, <4>1, WritesKnow
    <3>4. QED  BY <1>3, <1>4, <2>1, <2>2, <3>1, <3>3, OnceStays
  <2>5. QED  BY <2>3, <2>4
<1>8. CASE ~(SaveAndGoOn(p) /\ at[p] = "saveKey") /\ ~(StartPut(p) /\ p \in fresh)
  <2>1. at'[p] \notin {"dispatch", "undo", "forget"}  BY <1>8, WritingGoes
  <2>2. ~Ticket(p, h, k)' /\ ~Returning(p, h, k)'  BY <2>1 DEF Ticket, Returning
  <2>3. (sent[<<h, k>>] # "never" \/ \E q \in Procs : Ticket(q, h, k)) /\ Guarded(h, k) =>
           Guarded(h, k)'
    <3>1. Guarded(h, k) => Guarded(h, k)' \/ Returning(p, h, k)  BY <1>2, <1>8, WritesKnow
    <3>2. Returning(p, h, k) => /\ sent[<<h, k>>] = "never"
                                /\ \A q \in Procs : ~Ticket(q, h, k)
      BY <1>3 DEF Once
    <3>3. QED  BY <3>1, <3>2
  <2>4. QED  BY <1>3, <1>4, <1>6, <1>8, <2>2, <2>3, OnceStays
<1>9. QED  BY <1>5, <1>7, <1>8

(* Every step keeps the tickets apart.                                     *)
LEMMA StepAtMostOnce == WellFormed /\ Agreed /\ AtMostOnce /\ [Next]_vars => AtMostOnce'
<1> SUFFICES ASSUME WellFormed, Agreed, AtMostOnce, [Next]_vars,
                    Without({"race", "clash", "error", "rewound"})'
             PROVE  \A h \in Heads, k \in Tries : Once(h, k)'
  BY DEF AtMostOnce
<1>1. TypeOK  BY DEF WellFormed
<1>2. "race" \notin causes' /\ "clash" \notin causes' /\ "error" \notin causes'
  BY DEF Without
<1>3. "rewound" \notin causes /\ Without({"race", "clash", "error", "rewound"})
  BY CausesStay DEF Without
<1>4. \A h \in Heads, k \in Tries : Once(h, k)  BY <1>3 DEF AtMostOnce
<1> DEFINE Good == \A h \in Heads, k \in Tries : Once(h, k)'
<1>5. ASSUME NEW p \in Procs, UNCHANGED <<store, sent, outdated>>,
             at'[p] \notin {"dispatch", "undo", "forget"},
             \A q \in Procs \ {p} : at'[q] = at[q] /\ mine'[q] = mine[q]
      PROVE  Good
  <2>1. \A h, k : ~Ticket(p, h, k)' /\ ~Returning(p, h, k)'
    BY <1>5 DEF Ticket, Returning
  <2>2. QED  BY <1>4, <1>5, <2>1, OthersOnce
<1>6. ASSUME UNCHANGED <<store, sent, outdated, at, mine>> PROVE Good
  <2>1. \A h, k : Guarded(h, k)' <=> Guarded(h, k)  BY <1>6 DEF Guarded
  <2>2. \A q, h, k : (Ticket(q, h, k)' <=> Ticket(q, h, k))
                     /\ (Returning(q, h, k)' <=> Returning(q, h, k))
    BY <1>6 DEF Ticket, Returning
  <2>3. QED  BY <1>4, <1>6, <2>1, <2>2, OnceStays
<1>7. ASSUME NEW p \in Procs, Tick(p) \/ Webhook(p) \/ RetryCall(p) PROVE Good
  <2>1. /\ UNCHANGED <<store, sent, outdated>> /\ at'[p] \notin {"dispatch", "undo", "forget"}
        /\ \A q \in Procs \ {p} : at'[q] = at[q] /\ mine'[q] = mine[q]
    BY <1>1, <1>7, TakeStep DEF Took, Placing
  <2>2. QED  BY <1>5, <2>1
<1>8. ASSUME NEW p \in Procs, Quiet(p) PROVE Good
  BY <1>2, <1>4, <1>8, QuietOnce
<1>9. ASSUME NEW p \in Procs, Writing(p) PROVE Good
  BY <1>2, <1>3, <1>4, <1>9, WritingOnce
<1>10. ASSUME NEW p \in Procs, Release(p) PROVE Good
  <2>1. /\ UNCHANGED <<store, sent, outdated>> /\ at'[p] \notin {"dispatch", "undo", "forget"}
        /\ \A q \in Procs \ {p} : at'[q] = at[q] /\ mine'[q] = mine[q]
    BY <1>1, <1>10, ReleaseStep DEF Placing
  <2>2. QED  BY <1>5, <2>1
<1>11. CASE LockExpires  BY <1>1, <1>6, <1>11, ExpiryStep
<1>12. CASE Report \/ Push \/ TenMinutes
  <2>1. Moved  BY <1>1, <1>12, MoveStep
  <2>2. at' = at /\ outdated' = outdated /\ sent' = sent  BY <2>1 DEF Moved
  <2>3. Resettled(store', store) /\ \A p \in Procs : Resettled(mine'[p], mine[p])
    BY <2>1 DEF Moved
  <2>4. ASSUME NEW h, NEW k, Guarded(h, k) PROVE Guarded(h, k)'
    BY <2>3, <2>4 DEF Resettled, Guarded, Knows, Alike, SameAim
  <2>5. ASSUME NEW h, NEW k, NEW p \in Procs, Ticket(p, h, k)' PROVE Ticket(p, h, k)
    BY <2>2, <2>3, <2>5 DEF Resettled, Ticket, Alike, SameAim
  <2>6. ASSUME NEW h, NEW k, NEW p \in Procs, Returning(p, h, k)' PROVE Returning(p, h, k)
    BY <2>2, <2>3, <2>6 DEF Resettled, Returning, Alike, SameAim
  <2>7. QED  BY <1>4, <2>2, <2>4, <2>5, <2>6, OnceStays
<1>13. CASE UNCHANGED vars  BY <1>6, <1>13 DEF vars, procs, history
<1>14. QED  BY <1>7, <1>8, <1>9, <1>10, <1>11, <1>12, <1>13, AllSteps

(***************************************************************************)
(* The agent is told of a failure once, and again only after a rerun,      *)
(* however ticks, webhooks and calls of the tool interleave, unless a      *)
(* dispatch raises although it was made, a change to the watch is written  *)
(* over, or a start turns the watch back to a head that a push replaced.   *)
(***************************************************************************)
THEOREM FailuresAreDispatchedOnce == Spec => []DispatchedOnce
<1>1. Init => AtMostOnce
  <2> SUFFICES ASSUME Init, NEW h \in Heads, NEW k \in Tries PROVE Once(h, k)
    BY DEF AtMostOnce
  <2>1. sent[<<h, k>>] = "never" /\ \A p \in Procs : at[p] = "idle"  BY DEF Init
  <2>2. QED  BY <2>1 DEF Once, Ticket, Returning
<1>2. AtMostOnce => DispatchedOnce
  <2> SUFFICES ASSUME \A h \in Heads, k \in Tries : Once(h, k), NEW f \in Heads \X Tries
               PROVE  sent[f] # "more"
    BY DEF AtMostOnce, DispatchedOnce
  <2>1. PICK h \in Heads, k \in Tries : f = <<h, k>>  OBVIOUS
  <2>2. QED  BY <2>1 DEF Once
<1>3. QED  BY <1>1, <1>2, AlwaysAgreed, StepAtMostOnce, PTL DEF Spec

-----------------------------------------------------------------------------
(* The cron of the watch.                                                  *)

Starters == {p \in Procs : at[p] \in {"startCron", "startCreate", "startSave"}}

Stoppers == {p \in Procs : at[p] \in {"stopSave", "stopDelete"}}

UpToDate == \A p \in Starters \union Stoppers : outdated[p] = {}

(* What a start knows of the crons.                                        *)
CronKnown(some, a, v) ==
    /\ a = "startCron" => some \subseteq {v.cron}
    /\ a = "startCreate" => some = {}
    /\ a = "startSave" => some = {v.cron}

Followed ==
    /\ Starters = {} => \A w \in store : crons \subseteq {w.cron}
    /\ \A p \in Stoppers : at[p] = "stopDelete" => crons = {}
    /\ \A p \in Starters : \A v \in mine[p] : CronKnown(crons, at[p], v)
    /\ Starters = {} /\ Stoppers = {} =>
          /\ store = {} => crons = {}
          /\ \A w \in store : w.status = "active" => w.cron \in crons

(***************************************************************************)
(* Of operations halfway through a start or a stop, the first one that     *)
(* writes outdates the others, and these can only break off, or write over *)
(* its change.  As long as none is outdated one start at most is halfway,  *)
(* and unless a stop is, too, it knows the crons.                          *)
(***************************************************************************)
Ordered ==
    UpToDate =>
        /\ \A p, q \in Starters : p = q
        /\ Starters = {} \/ Stoppers = {} => Followed

CronKept ==
    Without({"race", "clash", "partial"}) =>
        /\ 0 \notin crons
        /\ \A p \in Procs : at[p] \notin {"rollback", "rollbackItem"}
        /\ Ordered

(* The operations halfway through a start or a stop.                       *)
LEMMA Halves == \A p \in Procs :
    (p \in Starters \/ p \in Stoppers \/ at[p] \in {"rollback", "rollbackItem"}) <=> at[p] \in Halfway
  BY DEF Starters, Stoppers, Halfway

(* An operation that is not halfway, before or after, and leaves the watch *)
(* as it is.                                                               *)
LEMMA OrderedAside ==
    ASSUME Ordered, NEW p \in Procs, at[p] \notin Halfway, at'[p] \notin Halfway,
           UNCHANGED <<store, crons>>,
           \A q \in Procs \ {p} : at'[q] = at[q] /\ mine'[q] = mine[q] /\ outdated'[q] = outdated[q]
    PROVE  Ordered'
<1>1. p \notin Starters /\ p \notin Stoppers /\ p \notin Starters' /\ p \notin Stoppers'
  BY DEF Halfway, Starters, Stoppers
<1>2. Starters' = Starters /\ Stoppers' = Stoppers
  BY <1>1 DEF Starters, Stoppers
<1>3. \A q \in Starters \union Stoppers :
        at'[q] = at[q] /\ mine'[q] = mine[q] /\ outdated'[q] = outdated[q]
  BY <1>1 DEF Starters, Stoppers
<1>4. UpToDate' <=> UpToDate  BY <1>2, <1>3 DEF UpToDate
<1>5. Followed => Followed'  BY <1>2, <1>3 DEF Followed, CronKnown
<1>6. QED  BY <1>2, <1>4, <1>5 DEF Ordered

(* Most steps are of that kind.                                            *)
LEMMA QuietAside ==
    ASSUME WellFormed, NEW p \in Procs, Quiet(p), "partial" \notin causes', at[p] # "rollback",
           ~StartCron(p), ~StartCreate(p), ~StopCron(p), ~StopGet(p)
    PROVE  at[p] \notin Halfway /\ at'[p] \notin Halfway /\ crons' = crons
<1>1. TypeOK  BY DEF WellFormed
<1>2. ASSUME Left(p) PROVE at'[p] \notin Halfway
  BY <1>2 DEF Left, Placing, Home, Halfway
<1>3. CASE Stamp(p)  BY <1>1, <1>2, <1>3, StampStep DEF Found, Placing, Halfway, Others
<1>4. CASE Load(p)  BY <1>1, <1>2, <1>4, LoadStep DEF Found, Placing, Halfway, Others
<1>5. CASE Look(p)  BY <1>1, <1>5, LookStep DEF Looked, Placing, Halfway, Others
<1>6. CASE Dispatch(p)
  <2>1. /\ at[p] = "dispatch" /\ crons' = crons
        /\ Left(p) \/ Placing(p, "undo", mine[p])
    BY <1>1, <1>6, DispatchStep
  <2>2. QED  BY <1>2, <2>1 DEF Placing, Halfway
<1>7. CASE Undo(p)
  <2>1. at[p] = "undo" /\ crons' = crons /\ \E m : Placing(p, "forget", m)
    BY <1>1, <1>7, UndoStep DEF Others
  <2>2. QED  BY <2>1 DEF Placing, Halfway
<1>8. CASE RetryGet(p)
  <2>1. at[p] = "retryGet" /\ crons' = crons /\ (Left(p) \/ \E m : Placing(p, "retrySave", m))
    BY <1>1, <1>8, RetryGetStep DEF Others
  <2>2. QED  BY <1>2, <2>1 DEF Placing, Halfway
<1>9. CASE StartGet(p)
  <2>1. at[p] = "startGet" /\ crons' = crons /\ (Left(p) \/ \E m : Placing(p, "startPut", m))
    BY <1>1, <1>9, StartGetStep DEF TakesOver, Others
  <2>2. QED  BY <1>2, <2>1 DEF Placing, Halfway
<1>10. CASE Rollback(p)  BY <1>1, <1>10, RollbackStep
<1>11. ASSUME NEW t \in Threads, StopCall(p, t) \/ StartCall(p, t)
       PROVE  at[p] \notin Halfway /\ at'[p] \notin Halfway /\ crons' = crons
  <2>1. /\ at[p] = "idle" /\ crons' = crons
        /\ \E m : Placing(p, "stopGet", m) \/ Placing(p, "startGet", m)
    BY <1>1, <1>11, StopCallStep, StartCallStep DEF Others
  <2>2. QED  BY <2>1 DEF Placing, Halfway
<1>12. CASE Broken(p)
  <2>1. at[p] \notin Halfway /\ crons' = crons
    BY <1>1, <1>12, BrokenStep DEF Halfway
  <2>2. Left(p) \/ \E m : Placing(p, "idle", m)
    BY <1>1, <1>12, <2>1, BrokenStep DEF Halfway
  <2>3. QED  BY <1>2, <2>1, <2>2 DEF Placing, Halfway
<1>13. QED
  BY <1>3, <1>4, <1>5, <1>6, <1>7, <1>8, <1>9, <1>10, <1>11, <1>12 DEF Quiet

(* A start looks for the cron.                                             *)
LEMMA StartCronOrdered ==
    ASSUME WellFormed, Ordered, NEW p \in Procs, StartCron(p)
    PROVE  Ordered'
<1>1. TypeOK /\ One(mine[p])  BY DEF WellFormed, Placed, Seated, Seat
<1>2. at[p] = "startCron" /\ UNCHANGED <<store, outdated>>
  BY <1>1, StartCronStep
<1>3. \/ crons = {} /\ crons' = crons /\ Placing(p, "startCreate", mine[p])
      \/ \E kept \in crons, w \in mine[p] : \E v :
            /\ kept \in crons' /\ crons' \subseteq crons
            /\ Placing(p, "startSave", {v}) /\ v.cron = kept
  BY <1>1, StartCronStep DEF WithCron
<1>4. at'[p] \in {"startCreate", "startSave"} /\ \A q \in Procs \ {p} : at'[q] = at[q]
  BY <1>3 DEF Placing
<1>5. Starters' = Starters /\ Stoppers' = Stoppers /\ p \in Starters
  BY <1>2, <1>4 DEF Starters, Stoppers
<1>6. UpToDate' <=> UpToDate  BY <1>2, <1>5 DEF UpToDate
<1>7. ASSUME Followed, Stoppers = {}, \A q \in Starters : q = p PROVE Followed'
  <2>1. \A v \in mine[p] : crons \subseteq {v.cron}
    BY <1>2, <1>5, <1>7 DEF Followed, CronKnown
  <2>2. \A v \in mine'[p] : CronKnown(crons', at'[p], v)
    BY <1>3, <2>1 DEF Placing, CronKnown
  <2>3. QED  BY <1>5, <1>7, <2>2 DEF Followed
<1>8. QED  BY <1>5, <1>6, <1>7 DEF Ordered

(* It creates one.                                                         *)
LEMMA StartCreateOrdered ==
    ASSUME WellFormed, Ordered, NEW p \in Procs, StartCreate(p), "partial" \notin causes'
    PROVE  Ordered'
<1>1. TypeOK  BY DEF WellFormed
<1>2. at[p] = "startCreate" /\ UNCHANGED <<store, outdated>>
  BY <1>1, StartCreateStep
<1>3. /\ crons' = crons \union {created + 1}
      /\ \E v : Placing(p, "startSave", {v}) /\ v.cron = created + 1
  BY <1>1, StartCreateStep DEF WithCron
<1>4. at'[p] = "startSave" /\ \A q \in Procs \ {p} : at'[q] = at[q]
  BY <1>3 DEF Placing
<1>5. Starters' = Starters /\ Stoppers' = Stoppers /\ p \in Starters
  BY <1>2, <1>4 DEF Starters, Stoppers
<1>6. UpToDate' <=> UpToDate  BY <1>2, <1>5 DEF UpToDate
<1>7. ASSUME Followed, Stoppers = {}, \A q \in Starters : q = p PROVE Followed'
  <2>1. mine[p] # {}  BY <1>2 DEF WellFormed, Placed, Seated, Seat, Copying, Stages
  <2>2. crons = {}  BY <1>2, <1>5, <1>7, <2>1 DEF Followed, CronKnown
  <2>3. \A v \in mine'[p] : CronKnown(crons', at'[p], v)
    BY <1>3, <1>4, <2>2 DEF Placing, CronKnown
  <2>4. QED  BY <1>5, <1>7, <2>3 DEF Followed
<1>8. QED  BY <1>5, <1>6, <1>7 DEF Ordered

(* A stop deletes the cron of the watch it read, or keeps the watch.       *)
LEMMA StopCronOrdered ==
    ASSUME WellFormed, Agreed, Ordered, NEW p \in Procs, StopCron(p)
    PROVE  Ordered'
<1>1. TypeOK  BY DEF WellFormed
<1>2. /\ at[p] = "stopCron" /\ UNCHANGED <<store, outdated>> /\ crons' \subseteq crons
      /\ \E w \in mine[p] :
            \/ \E m : Placing(p, "stopDelete", m) /\ crons' = crons \ {w.cron}
            \/ \E m : Placing(p, "stopSave", m)
  BY <1>1, StopCronStep
<1>3. /\ at'[p] \in {"stopSave", "stopDelete"}
      /\ \A q \in Procs \ {p} : at'[q] = at[q] /\ mine'[q] = mine[q]
      /\ at'[p] = "stopDelete" => \E w \in mine[p] : crons' = crons \ {w.cron}
  BY <1>2 DEF Placing
<1>4. Starters' = Starters /\ Stoppers' = Stoppers \union {p} /\ p \notin Starters
  BY <1>2, <1>3 DEF Starters, Stoppers
<1>5. UpToDate' => UpToDate /\ outdated[p] = {}  BY <1>2, <1>4 DEF UpToDate
<1>6. ASSUME Followed, outdated[p] = {}, Starters = {} PROVE Followed'
  <2>1. store # {} /\ \A v \in mine[p], w \in store : v.cron = w.cron
    <3>1. Current("stopCron", p \in fresh, mine[p], store, "rewound" \in causes)
      BY <1>2, <1>6 DEF Agreed, Agrees
    <3>2. QED  BY <3>1 DEF Current, Working, Fits, Alike, SameWatch
  <2>2. \A w \in store : crons \subseteq {w.cron}  BY <1>6 DEF Followed
  <2>3. at'[p] = "stopDelete" => crons' = {}  BY <1>3, <2>1, <2>2
  <2>4. \A q \in Stoppers' : at'[q] = "stopDelete" => crons' = {}
    BY <1>2, <1>3, <1>4, <1>6, <2>3 DEF Followed, Stoppers
  <2>5. \A w \in store' : crons' \subseteq {w.cron}  BY <1>2, <2>2
  <2>6. QED  BY <1>4, <1>6, <2>4, <2>5 DEF Followed
<1>7. QED  BY <1>4, <1>5, <1>6 DEF Ordered

(* It reads the watch, which may have no cron yet.                         *)
LEMMA StopGetOrdered ==
    ASSUME WellFormed, Ordered, NEW p \in Procs, StopGet(p), 0 \notin crons
    PROVE  Ordered'
<1>1. TypeOK  BY DEF WellFormed
<1>2. /\ at[p] = "stopGet" /\ UNCHANGED <<store, crons>>
      /\ \/ Left(p)
         \/ \E w \in store : w.cron = 0 /\ Found(p, "stopDelete", w)
         \/ \E w \in store : Found(p, "stopCron", w)
  BY <1>1, StopGetStep DEF Others
<1>3. \A q \in Procs \ {p} : at'[q] = at[q] /\ mine'[q] = mine[q] /\ outdated'[q] = outdated[q]
  BY <1>2 DEF Left, Found, Placing, Noting
<1>4. CASE Left(p) \/ \E w \in store : Found(p, "stopCron", w)
  <2>1. at[p] \notin Halfway /\ at'[p] \notin Halfway
    BY <1>2, <1>4 DEF Left, Found, Placing, Home, Halfway
  <2>2. QED  BY <1>2, <1>3, <2>1, OrderedAside
<1>5. ASSUME NEW w \in store, w.cron = 0, Found(p, "stopDelete", w) PROVE Ordered'
  <2>1. at'[p] = "stopDelete" /\ outdated'[p] = {}  BY <1>5 DEF Found, Placing, Noting
  <2>2. /\ Starters' = Starters /\ Stoppers' = Stoppers \union {p}
        /\ p \notin Starters /\ p \notin Stoppers
    BY <1>2, <1>3, <2>1 DEF Starters, Stoppers
  <2>3. \A q \in Starters \union Stoppers : q \in Procs \ {p}
    BY <2>2 DEF Starters, Stoppers
  <2>4. UpToDate' => UpToDate  BY <1>3, <2>2, <2>3 DEF UpToDate
  <2>5. ASSUME Followed, Starters = {} PROVE Followed'
    <3>1. crons = {}  BY <1>5, <2>5 DEF Followed
    <3>2. QED  BY <1>2, <2>2, <2>5, <3>1 DEF Followed
  <2>6. QED  BY <2>2, <2>4, <2>5 DEF Ordered
<1>6. QED  BY <1>2, <1>4, <1>5

(* Whoever writes cleanly, and leaves nobody halfway behind, was alone.    *)
LEMMA WritesAlone ==
    ASSUME WellFormed, Agreed, Ordered, NEW p \in Procs, Writing(p), UpToDate',
           "race" \notin causes', "clash" \notin causes'
    PROVE  /\ \A q \in Procs \ {p} : at[q] \notin Halfway \/ at[q] \in {"rollback", "rollbackItem"}
           /\ \A q \in Procs \ {p} : at'[q] = at[q] /\ mine'[q] = mine[q]
           /\ Starters \subseteq {p} /\ Stoppers \subseteq {p}
           /\ Starters' \subseteq {p} /\ Stoppers' \subseteq {p}
           /\ Followed
<1>1. TypeOK  BY DEF WellFormed
<1>2. outdated[p] = {}  BY CleanWrite
<1>3. PICK contents : Wrote(p, contents)  BY <1>1, WritingStep
<1>4. \A q \in Procs \ {p} : at'[q] = at[q] /\ mine'[q] = mine[q]
  BY <1>1, WritingStep DEF Placing
<1>5. ASSUME NEW q \in Procs \ {p}, q \in Starters \/ q \in Stoppers PROVE FALSE
  <2>1. q \in Starters' \/ q \in Stoppers'  BY <1>4, <1>5 DEF Starters, Stoppers
  <2>2. outdated'[q] = {}  BY <2>1 DEF UpToDate
  <2>3. at[q] \in Copying  BY <1>5 DEF Starters, Stoppers, Copying, Stages
  <2>4. mine[q] # {}  BY <2>3 DEF WellFormed, Placed, Seated, Seat
  <2>5. outdated'[q] = outdated[q] \union {Kind(p)}  BY <1>3, <2>4 DEF Wrote
  <2>6. QED  BY <2>2, <2>5
<1>6. Starters \subseteq {p} /\ Stoppers \subseteq {p}
  BY <1>5 DEF Starters, Stoppers
<1>7. Starters' \subseteq {p} /\ Stoppers' \subseteq {p}
  BY <1>4, <1>5 DEF Starters, Stoppers
<1>8. UpToDate  BY <1>2, <1>6 DEF UpToDate
<1>9. Starters = {} \/ Stoppers = {}
  <2>1. ~(p \in Starters /\ p \in Stoppers)  BY DEF Starters, Stoppers
  <2>2. QED  BY <1>6, <2>1
<1>10. \A q \in Procs \ {p} : at[q] \notin Halfway \/ at[q] \in {"rollback", "rollbackItem"}
  BY <1>5, Halves
<1>11. QED  BY <1>4, <1>6, <1>7, <1>8, <1>9, <1>10 DEF Ordered

(* So its write leaves the watch and its cron in order.                    *)
LEMMA WritingOrdered ==
    ASSUME WellFormed, Agreed, Ordered, NEW p \in Procs, Writing(p), UpToDate',
           "race" \notin causes', "clash" \notin causes', ~RollbackItem(p)
    PROVE  /\ \A q, r \in Starters' : q = r
           /\ Followed'
<1>1. TypeOK /\ One(mine[p])  BY DEF WellFormed, Placed, Seated, Seat
<1>2. /\ Starters \subseteq {p} /\ Stoppers \subseteq {p}
      /\ Starters' \subseteq {p} /\ Stoppers' \subseteq {p}
      /\ Followed
  BY WritesAlone
<1>3. crons' = crons  BY <1>1, WritingStep
<1>4. Current(at[p], p \in fresh, mine[p], store, "rewound" \in causes)
  BY CleanWrite
<1>5. \A q, r \in Starters' : q = r  BY <1>2
<1>6. CASE StampSave(p) \/ Save(p) \/ SaveAndGoOn(p) \/ RetrySave(p)
  <2>1. /\ at[p] \in {"stampSave", "save", "forget", "saveEnd", "saveKey", "retrySave"}
        /\ at'[p] \in {"load", "release", "stopGet", "dispatch"}
        /\ store' = mine[p]
    BY <1>1, <1>6, StampSaveStep, SaveStep, SaveAndGoOnStep, RetrySaveStep DEF Wrote, Placing
  <2>2. Starters = {} /\ Stoppers = {} /\ Starters' = {} /\ Stoppers' = {}
    BY <1>2, <2>1 DEF Starters, Stoppers
  <2>3. store # {} /\ \A v \in mine[p], w \in store : SameWatch(v, w)
    BY <1>4, <2>1 DEF Current, Working, Fits, Alike
  <2>4. mine[p] # {} /\ \A v \in mine[p] : /\ crons \subseteq {v.cron}
                                           /\ v.status = "active" => v.cron \in crons
    <3>1. mine[p] # {}  BY <2>1 DEF WellFormed, Placed, Seated, Seat, Copying, Stages
    <3>2. \A w \in store : /\ crons \subseteq {w.cron}
                           /\ w.status = "active" => w.cron \in crons
      BY <1>2, <2>2 DEF Followed
    <3>3. QED  BY <2>3, <3>1, <3>2 DEF SameWatch
  <2>5. Followed'  BY <1>3, <2>1, <2>2, <2>4 DEF Followed
  <2>6. QED  BY <1>5, <2>5
<1>7. CASE StartPut(p)
  <2>1. /\ at[p] = "startPut" /\ at'[p] = "startCron" /\ store' = mine[p] /\ mine'[p] = mine[p]
    BY <1>1, <1>7, StartPutStep DEF Wrote, Placing
  <2>2. Starters = {} /\ Stoppers = {} /\ Starters' = {p} /\ Stoppers' = {}
    BY <1>2, <2>1 DEF Starters, Stoppers
  <2>3. store = {} => crons = {}  BY <1>2, <2>2 DEF Followed
  <2>4. \A v \in mine[p] : crons \subseteq {v.cron}
    <3> SUFFICES ASSUME NEW v \in mine[p], store # {} PROVE crons \subseteq {v.cron}
      BY <2>3
    <3>1. PICK w \in store : TRUE  OBVIOUS
    <3>2. v.cron = w.cron  BY <1>4, <2>1 DEF Current, Fits
    <3>3. crons \subseteq {w.cron}  BY <1>2, <2>2 DEF Followed
    <3>4. QED  BY <3>2, <3>3
  <2>5. Followed'  BY <1>3, <2>1, <2>2, <2>4 DEF Followed, CronKnown
  <2>6. QED  BY <1>5, <2>5
<1>8. CASE StartSave(p)
  <2>1. at[p] = "startSave" /\ at'[p] = "idle" /\ store' = mine[p]
    BY <1>1, <1>8, StartSaveStep DEF Wrote, Placing
  <2>2. p \in Starters /\ Starters' = {} /\ Stoppers' = {}
    BY <1>2, <2>1 DEF Starters, Stoppers
  <2>3. mine[p] # {} /\ \A v \in mine[p] : crons = {v.cron}
    <3>1. mine[p] # {}  BY <2>1 DEF WellFormed, Placed, Seated, Seat, Copying, Stages
    <3>2. QED  BY <1>2, <2>1, <2>2, <3>1 DEF Followed, CronKnown
  <2>4. Followed'  BY <1>3, <2>1, <2>2, <2>3 DEF Followed
  <2>5. QED  BY <1>5, <2>4
<1>9. CASE StopSave(p)
  <2>1. at[p] = "stopSave" /\ at'[p] \in {"release", "idle"} /\ store' = mine[p]
    BY <1>1, <1>9, StopSaveStep DEF Wrote, Placing, Home
  <2>2. Starters = {} /\ Starters' = {} /\ Stoppers' = {}
    BY <1>2, <2>1 DEF Starters, Stoppers
  <2>3. store # {} /\ \A v \in mine[p], w \in store : v.cron = w.cron
    BY <1>4, <2>1 DEF Current, Working, Fits
  <2>4. mine[p] # {} /\ \A v \in mine[p] : crons \subseteq {v.cron} /\ v.status # "active"
    <3>1. mine[p] # {}  BY <2>1 DEF WellFormed, Placed, Seated, Seat, Copying, Stages
    <3>2. \A v \in mine[p] : v.status = "inactive"  BY <2>1 DEF Agreed, Agrees, Made
    <3>3. \A w \in store : crons \subseteq {w.cron}  BY <1>2, <2>2 DEF Followed
    <3>4. QED  BY <2>3, <3>1, <3>2, <3>3
  <2>5. Followed'  BY <1>3, <2>1, <2>2, <2>4 DEF Followed
  <2>6. QED  BY <1>5, <2>5
<1>10. CASE StopDelete(p)
  <2>1. at[p] = "stopDelete" /\ at'[p] \in {"release", "idle"} /\ store' = {}
    BY <1>1, <1>10, StopDeleteStep DEF Wrote, Placing, Home
  <2>2. p \in Stoppers /\ Starters' = {} /\ Stoppers' = {}
    BY <1>2, <2>1 DEF Starters, Stoppers
  <2>3. crons = {}  BY <1>2, <2>1, <2>2 DEF Followed
  <2>4. Followed'  BY <1>3, <2>1, <2>2, <2>3 DEF Followed
  <2>5. QED  BY <1>5, <2>4
<1>11. QED  BY <1>6, <1>7, <1>8, <1>9, <1>10 DEF Writing

(* A start that is broken off halfway is what leads to a rollback.         *)
LEMMA NoRollback ==
    ASSUME WellFormed, [Next]_vars, "partial" \notin causes',
           \A q \in Procs : at[q] \notin {"rollback", "rollbackItem"}
    PROVE  \A q \in Procs : at'[q] \notin {"rollback", "rollbackItem"}
<1>1. TypeOK  BY DEF WellFormed
<1> DEFINE Good == \A q \in Procs : at'[q] \notin {"rollback", "rollbackItem"}
<1>2. ASSUME NEW p \in Procs, at'[p] \notin {"rollback", "rollbackItem"},
             \A q \in Procs \ {p} : at'[q] = at[q]
      PROVE  Good
  BY <1>2
<1>3. ASSUME NEW p \in Procs, Tick(p) \/ Webhook(p) \/ RetryCall(p) PROVE Good
  BY <1>1, <1>2, <1>3, TakeStep DEF Took, Placing
<1>4. ASSUME NEW p \in Procs, Quiet(p) PROVE Good
  <2>1. \A q \in Procs \ {p} : at'[q] = at[q]  BY <1>1, <1>4, QuietStep DEF Unnoticed
  <2>2. at'[p] \notin {"rollback", "rollbackItem"}
    <3>1. CASE StartCron(p)
      <4>1. \E m : Placing(p, "startCreate", m) \/ Placing(p, "startSave", m)
        BY <1>1, <3>1, StartCronStep
      <4>2. QED  BY <4>1 DEF Placing
    <3>2. CASE StartCreate(p)
      <4>1. \E m : Placing(p, "startSave", m)  BY <1>1, <3>2, StartCreateStep
      <4>2. QED  BY <4>1 DEF Placing
    <3>3. CASE StopCron(p)
      <4>1. \E m : Placing(p, "stopDelete", m) \/ Placing(p, "stopSave", m)
        BY <1>1, <3>3, StopCronStep
      <4>2. QED  BY <4>1 DEF Placing
    <3>4. CASE StopGet(p)  BY <1>1, <3>4, StopGetStep DEF Left, Found, Placing, Home
    <3>5. CASE ~StartCron(p) /\ ~StartCreate(p) /\ ~StopCron(p) /\ ~StopGet(p)
      BY <1>4, <3>5, QuietAside DEF Halfway
    <3>6. QED  BY <3>1, <3>2, <3>3, <3>4, <3>5
  <2>3. QED  BY <1>2, <2>1, <2>2
<1>5. ASSUME NEW p \in Procs, Writing(p) PROVE Good
  <2>1. \A q \in Procs \ {p} : at'[q] = at[q]  BY <1>1, <1>5, WritingStep DEF Placing
  <2>2. at'[p] \notin {"rollback", "rollbackItem"}
    <3>1. CASE StampSave(p) \/ Save(p) \/ SaveAndGoOn(p) \/ RetrySave(p) \/ StartPut(p)
               \/ StartSave(p) \/ RollbackItem(p)
      BY <1>1, <3>1, StampSaveStep, SaveStep, SaveAndGoOnStep, RetrySaveStep, StartPutStep,
         StartSaveStep, RollbackItemStep DEF Placing
    <3>2. CASE StopSave(p) \/ StopDelete(p)
      BY <1>1, <3>2, StopSaveStep, StopDeleteStep DEF Placing, Home
    <3>3. QED  BY <1>5, <3>1, <3>2 DEF Writing
  <2>3. QED  BY <1>2, <2>1, <2>2
<1>6. ASSUME NEW p \in Procs, Release(p) PROVE Good
  BY <1>1, <1>2, <1>6, ReleaseStep DEF Placing
<1>7. CASE LockExpires  BY <1>1, <1>7, ExpiryStep
<1>8. CASE Report \/ Push \/ TenMinutes  BY <1>1, <1>8, MoveStep DEF Moved
<1>9. CASE UNCHANGED vars  BY <1>9 DEF vars, procs
<1>10. QED  BY <1>3, <1>4, <1>5, <1>6, <1>7, <1>8, <1>9, AllSteps

(* Crons are numbered from 1.                                              *)
LEMMA NoZeroCron ==
    ASSUME WellFormed, [Next]_vars, 0 \notin crons
    PROVE  0 \notin crons'
<1>1. TypeOK /\ created \in Nat  BY DEF WellFormed, TypeOK
<1>2. ASSUME NEW p \in Procs, Tick(p) \/ Webhook(p) \/ RetryCall(p) PROVE 0 \notin crons'
  BY <1>1, <1>2, TakeStep DEF Took
<1>3. ASSUME NEW p \in Procs, Quiet(p) PROVE 0 \notin crons'
  <2>1. CASE StartCreate(p)
    <3>1. crons' = crons \union {created + 1}  BY <1>1, <2>1, StartCreateStep
    <3>2. created + 1 # 0  BY <1>1
    <3>3. QED  BY <3>1, <3>2
  <2>2. CASE StartCron(p) \/ StopCron(p) \/ Rollback(p)
    <3>1. crons' \subseteq crons
      BY <1>1, <2>2, StartCronStep, StopCronStep, RollbackStep
    <3>2. QED  BY <3>1
  <2>3. CASE Stamp(p) \/ Load(p) \/ Look(p) \/ Undo(p) \/ StopGet(p) \/ RetryGet(p) \/ StartGet(p)
    BY <1>1, <2>3, StampStep, LoadStep, LookStep, UndoStep, StopGetStep, RetryGetStep, StartGetStep
    DEF Others
  <2>4. CASE Dispatch(p) \/ Broken(p)  BY <1>1, <2>4, DispatchStep, BrokenStep
  <2>5. CASE \E t \in Threads : StopCall(p, t) \/ StartCall(p, t)
    BY <1>1, <2>5, StopCallStep, StartCallStep DEF Others
  <2>6. QED  BY <1>3, <2>1, <2>2, <2>3, <2>4, <2>5 DEF Quiet
<1>4. ASSUME NEW p \in Procs, Writing(p) PROVE 0 \notin crons'
  BY <1>1, <1>4, WritingStep
<1>5. ASSUME NEW p \in Procs, Release(p) PROVE 0 \notin crons'
  BY <1>1, <1>5, ReleaseStep
<1>6. CASE LockExpires  BY <1>1, <1>6, ExpiryStep
<1>7. CASE Report \/ Push \/ TenMinutes  BY <1>1, <1>7, MoveStep DEF Moved
<1>8. CASE UNCHANGED vars  BY <1>8 DEF vars, platform
<1>9. QED  BY <1>2, <1>3, <1>4, <1>5, <1>6, <1>7, <1>8, AllSteps

(* Every step keeps the cron with its watch.                               *)
LEMMA StepCronKept == WellFormed /\ Agreed /\ CronKept /\ [Next]_vars => CronKept'
<1> SUFFICES ASSUME WellFormed, Agreed, CronKept, [Next]_vars,
                    Without({"race", "clash", "partial"})'
             PROVE  /\ 0 \notin crons'
                    /\ \A p \in Procs : at'[p] \notin {"rollback", "rollbackItem"}
                    /\ Ordered'
  BY DEF CronKept
<1>1. TypeOK  BY DEF WellFormed
<1>2. "race" \notin causes' /\ "clash" \notin causes' /\ "partial" \notin causes'
  BY DEF Without
<1>3. Without({"race", "clash", "partial"})  BY <1>2, CausesStay DEF Without
<1>4. /\ 0 \notin crons /\ Ordered
      /\ \A p \in Procs : at[p] \notin {"rollback", "rollbackItem"}
  BY <1>3 DEF CronKept
<1>5. 0 \notin crons' /\ \A p \in Procs : at'[p] \notin {"rollback", "rollbackItem"}
  BY <1>2, <1>4, NoRollback, NoZeroCron
<1>6. ASSUME NEW p \in Procs, Tick(p) \/ Webhook(p) \/ RetryCall(p) PROVE Ordered'
  <2>1. PICK a \in {"load", "stamp", "retryGet"} : Took(p, a)  BY <1>1, <1>6, TakeStep
  <2>2. /\ at[p] \notin Halfway /\ at'[p] \notin Halfway /\ UNCHANGED <<store, crons, outdated>>
        /\ \A q \in Procs \ {p} : at'[q] = at[q] /\ mine'[q] = mine[q]
    BY <2>1 DEF Took, Placing, Halfway
  <2>3. QED  BY <1>4, <2>2, OrderedAside
<1>7. ASSUME NEW p \in Procs, Quiet(p) PROVE Ordered'
  <2>1. CASE StartCron(p)  BY <1>4, <2>1, StartCronOrdered
  <2>2. CASE StartCreate(p)  BY <1>2, <1>4, <2>2, StartCreateOrdered
  <2>3. CASE StopCron(p)  BY <1>4, <2>3, StopCronOrdered
  <2>4. CASE StopGet(p)  BY <1>4, <2>4, StopGetOrdered
  <2>5. CASE ~StartCron(p) /\ ~StartCreate(p) /\ ~StopCron(p) /\ ~StopGet(p)
    <3>1. at[p] \notin Halfway /\ at'[p] \notin Halfway /\ crons' = crons
      BY <1>2, <1>4, <1>7, <2>5, QuietAside
    <3>2. /\ store' = store
          /\ \A q \in Procs \ {p} : /\ at'[q] = at[q] /\ mine'[q] = mine[q]
                                    /\ outdated'[q] = outdated[q]
      BY <1>1, <1>7, QuietStep DEF Unnoticed
    <3>3. QED  BY <1>4, <3>1, <3>2, OrderedAside
  <2>6. QED  BY <2>1, <2>2, <2>3, <2>4, <2>5
<1>8. ASSUME NEW p \in Procs, Writing(p) PROVE Ordered'
  <2>1. ~RollbackItem(p)  BY <1>1, <1>4, RollbackItemStep
  <2>2. QED  BY <1>2, <1>4, <1>8, <2>1, WritingOrdered DEF Ordered
<1>9. ASSUME NEW p \in Procs, Release(p) PROVE Ordered'
  <2>1. /\ at[p] \notin Halfway /\ at'[p] \notin Halfway /\ UNCHANGED <<store, crons, outdated>>
        /\ \A q \in Procs \ {p} : at'[q] = at[q] /\ mine'[q] = mine[q]
    BY <1>1, <1>9, ReleaseStep DEF Placing, Halfway
  <2>2. QED  BY <1>4, <2>1, OrderedAside
<1>10. ASSUME UNCHANGED <<store, crons, at, mine, outdated>> PROVE Ordered'
  BY <1>4, <1>10 DEF Ordered, UpToDate, Starters, Stoppers, Followed, CronKnown
<1>11. CASE LockExpires  BY <1>1, <1>5, <1>10, <1>11, ExpiryStep
<1>12. CASE Report \/ Push \/ TenMinutes
  <2>1. /\ UNCHANGED <<crons, at, outdated>> /\ Resettled(store', store)
        /\ \A p \in Procs : Resettled(mine'[p], mine[p])
    BY <1>1, <1>12, MoveStep DEF Moved
  <2>2. Starters' = Starters /\ Stoppers' = Stoppers /\ (UpToDate' <=> UpToDate)
    BY <2>1 DEF Starters, Stoppers, UpToDate
  <2>3. ASSUME Followed PROVE Followed'
    <3>1. \A v \in store' : \E w \in store : v.cron = w.cron /\ v.status = w.status
      BY <2>1 DEF Resettled, Alike, SameWatch
    <3>2. store' = {} <=> store = {}  BY <2>1 DEF Resettled
    <3>3. ASSUME NEW p \in Starters, NEW v \in mine'[p] PROVE CronKnown(crons', at'[p], v)
      <4>1. p \in Procs  BY DEF Starters
      <4>2. PICK w \in mine[p] : v.cron = w.cron
        BY <2>1, <4>1 DEF Resettled, Alike, SameWatch
      <4>3. CronKnown(crons, at[p], w)  BY <2>3 DEF Followed
      <4>4. QED  BY <2>1, <4>2, <4>3 DEF CronKnown
    <3>4. QED  BY <2>1, <2>2, <2>3, <3>1, <3>2, <3>3 DEF Followed
  <2>4. QED  BY <1>4, <1>5, <2>2, <2>3 DEF Ordered
<1>13. CASE UNCHANGED vars  BY <1>5, <1>10, <1>13 DEF vars, procs, platform
<1>14. Ordered'
  BY <1>6, <1>7, <1>8, <1>9, <1>11, <1>12, <1>13, AllSteps
<1>15. QED  BY <1>5, <1>14

(***************************************************************************)
(* An active watch has its cron, and without a watch there is no cron,     *)
(* except while an operation is halfway through a start or a stop, or      *)
(* after one broke off or was written over.                                *)
(***************************************************************************)
THEOREM CronsFollowTheWatch == Spec => []CronFollowsWatch
<1>1. Init => CronKept
  BY DEF Init, CronKept, Ordered, UpToDate, Starters, Stoppers, Followed
<1>2. CronKept => CronFollowsWatch
  <2> SUFFICES ASSUME CronKept, Without({"race", "clash", "partial"}),
                      \A p \in Procs : at[p] \notin Halfway
               PROVE  /\ \A w \in store : w.status = "active" => w.cron \in crons
                      /\ store = {} => crons = {}
    BY DEF CronFollowsWatch
  <2>1. Starters = {} /\ Stoppers = {}  BY DEF Starters, Stoppers, Halfway
  <2>2. Ordered  BY DEF CronKept
  <2>3. Followed  BY <2>1, <2>2 DEF Ordered, UpToDate
  <2>4. QED  BY <2>1, <2>3 DEF Followed
<1>3. QED  BY <1>1, <1>2, AlwaysAgreed, StepCronKept, PTL DEF Spec
=============================================================================
