------------------------------ MODULE ReviewRuns ------------------------------
(***************************************************************************)
(* The review of one pull request: the webhooks that start reviewer runs   *)
(* (agent/webhooks/github.py), the reviewer's tools that record findings   *)
(* and publish them (agent/tools/add_finding.py, publish_review.py), and   *)
(* the check run on GitHub that says how the review stands                 *)
(* (agent/review/publish.py), which the publication, the hook after the    *)
(* agent (agent/middleware/settle_review_check.py) or the run-completion   *)
(* webhook (agent/completion.py) has to complete.                          *)
(*                                                                         *)
(* They meet in the metadata of the reviewer's thread.  A new run          *)
(* interrupts the one under way.                                           *)
(***************************************************************************)
EXTENDS Naturals, Sequences

CONSTANTS
    Issues,     \* what there is to find, told apart by fingerprints
    Hooks,      \* the webhooks that may be under way at a time
    MaxHeads,   \* bound on the heads the pull request has
    MaxEvents,  \* bound on the deliveries of webhooks
    MaxFaults   \* bound on the faults

ASSUME BoundsAssumption ==
    MaxHeads \in Nat \ {0} /\ MaxEvents \in Nat /\ MaxFaults \in Nat

VARIABLES
    prHead,     \* the head of the pull request, in the order of the pushes
    checks,     \* the check runs, in the order of creation
    posted,     \* how many inline comments each issue has on GitHub
    reviews,    \* the heads on which a review was posted
    meta,       \* the thread's metadata
    seen,       \* the findings: first_seen_sha, 0 for none
    known,      \* the findings with a github_review_comment_id
    hook,       \* the webhooks
    run,        \* the reviewer run on the thread
    settler,    \* who is completing a check
    published,  \* history: the heads a publication was made for
    events, faults,
    causes      \* history: what has happened besides orderly steps

github  == <<prHead, checks, posted, reviews>>
thread  == <<meta, seen, known>>
bounds  == <<events, faults>>
vars    == <<github, thread, hook, run, settler, published, bounds, causes>>

Heads == 1..MaxHeads
Results == {"success", "neutral"}
Counts == {"never", "once", "more"}
Settlers == {"run", "webhook"}

Checks == [head : Heads, result : Results \union {"open"}]

Metadata ==
    [head : 0..MaxHeads, reviewed : 0..MaxHeads, check : Nat,
     pending : Results \union {"none"}]

(* Deliveries: opened or reopened, ready for review, push to the branch,   *)
(* review requested by hand, reply to a finding.                           *)
Kinds == {"none", "opened", "ready", "push", "requested", "reply"}

HookRecords ==
    [at : {"idle", "look", "mark", "shortCheck", "shortEnd", "sync", "merge",
           "setHead", "create", "store", "dispatch"},
     kind : Kinds, head : 0..MaxHeads, last : 0..MaxHeads, check : Nat,
     listed : SUBSET Issues, matched : SUBSET Issues]

(* re tells a first review from a re-review.                               *)
RunRecords ==
    [at : {"none", "working", "backfill", "ask", "post", "record",
           "advance", "settle", "close"},
     re : {"first", "again"}, want : 0..MaxHeads, new : SUBSET Issues]

SettlerRecords ==
    [at : {"idle", "due", "read", "patch", "clear", "keep"},
     check : Nat, result : Results]

Causes == {"blind",     \* GitHub did not say what is on the pull request
           "noise",     \* an empty review was posted after another review
           "orphan",    \* a webhook left a check to nobody
           "replaced",  \* a check was forgotten for another, no newer, one
           "overtaken", \* a check was forgotten by the settlement of another
           "stuck",     \* the last attempt to complete a check failed
           "killed",    \* a run ended with no hook and no webhook
           "crossed",   \* a webhook moved the thread on to another head or
                        \* check while a settlement was being prepared
           "torn",      \* a settlement broke off before it cleared its check
           "doubled"}   \* two settlements overlapped

When(condition, cause) == IF condition THEN {cause} ELSE {}

NoHook == [at |-> "idle", kind |-> "none", head |-> 0, last |-> 0, check |-> 0,
           listed |-> {}, matched |-> {}]
NoRun == [at |-> "none", re |-> "first", want |-> 0, new |-> {}]
NotSettling == [at |-> "idle", check |-> 0, result |-> "neutral"]

Init ==
    /\ prHead = 1 /\ checks = <<>>
    /\ posted = [i \in Issues |-> "never"] /\ reviews = {}
    /\ meta = [head |-> 0, reviewed |-> 0, check |-> 0, pending |-> "none"]
    /\ seen = [i \in Issues |-> 0] /\ known = {}
    /\ hook = [h \in Hooks |-> NoHook] /\ run = NoRun
    /\ settler = [s \in Settlers |-> NotSettling]
    /\ published = {} /\ events = 0 /\ faults = 0 /\ causes = {}

Fault == faults < MaxFaults /\ faults' = faults + 1

(* Findings whose comment, found by its marker, is on the pull request.    *)
OnGitHub == {i \in Issues : seen[i] # 0 /\ posted[i] # "never"}

-----------------------------------------------------------------------------
(* Webhooks.                                                               *)

Goto(h, next) == hook' = [hook EXCEPT ![h].at = next]
Return(h) == hook' = [hook EXCEPT ![h] = NoHook]

(***************************************************************************)
(* A delivery names, or makes the webhook look up, the head of the pull    *)
(* request.                                                                *)
(***************************************************************************)
Deliver(h, kind) ==
    /\ hook[h].at = "idle"
    /\ events < MaxEvents /\ events' = events + 1
    /\ hook' = [hook EXCEPT ![h] =
           [NoHook EXCEPT !.kind = kind, !.head = prHead,
                          !.at = CASE kind \in {"push", "ready"} -> "look"
                                   [] kind \in {"opened", "requested"} -> "setHead"
                                   [] OTHER -> "sync"]]
    /\ UNCHANGED <<github, thread, run, settler, published, faults, causes>>

(***************************************************************************)
(* The head may be the one reviewed last, and a push may find no reviewer  *)
(* thread, or leave the diff as it was reviewed: then nothing is left to   *)
(* do, in the last case but to say so.                                     *)
(***************************************************************************)
Look(h) ==
    /\ hook[h].at = "look"
    /\ \/ /\ meta.reviewed = hook[h].head \/ (hook[h].kind = "push" /\ meta.head = 0)
          /\ Return(h)
       \/ /\ meta.reviewed \notin {0, hook[h].head} /\ hook[h].kind = "push"
          /\ Goto(h, "mark")
       \/ /\ meta.reviewed # hook[h].head /\ (hook[h].kind = "push" => meta.head # 0)
          /\ hook' = [hook EXCEPT ![h].last = meta.reviewed,
                                  ![h].at = IF hook[h].kind = "push" THEN "sync" ELSE "setHead"]
    /\ UNCHANGED <<github, thread, run, settler, published, bounds, causes>>

Mark(h) ==
    /\ hook[h].at = "mark"
    /\ meta' = [meta EXCEPT !.reviewed = hook[h].head]
    /\ published' = published \union {hook[h].head}
    /\ Goto(h, "shortCheck")
    /\ UNCHANGED <<github, seen, known, run, settler, bounds, causes>>

(* create_review_check_run; an answer that is lost leaves its check open.  *)
NewCheck(h, next) ==
    \/ /\ checks' = Append(checks, [head |-> hook[h].head, result |-> "open"])
       /\ hook' = [hook EXCEPT ![h].check = Len(checks'), ![h].at = next]
       /\ UNCHANGED <<faults, causes>>
    \/ Fault /\ Goto(h, IF next = "store" THEN "dispatch" ELSE "idle")
       /\ \/ UNCHANGED <<checks, causes>>
          \/ /\ checks' = Append(checks, [head |-> hook[h].head, result |-> "open"])
             /\ causes' = causes \union {"orphan"}

(* The check of an unchanged diff is completed at once.                    *)
ShortCheck(h) ==
    /\ hook[h].at = "shortCheck"
    /\ NewCheck(h, "shortEnd")
    /\ UNCHANGED <<prHead, posted, reviews, thread, run, settler, published, events>>

ShortEnd(h) ==
    /\ hook[h].at = "shortEnd"
    /\ \/ checks' = [checks EXCEPT ![hook[h].check].result = "success"]
          /\ UNCHANGED <<faults, causes>>
       \/ Fault /\ causes' = causes \union {"orphan"} /\ UNCHANGED checks
    /\ Return(h)
    /\ UNCHANGED <<prHead, posted, reviews, thread, run, settler, published, events>>

(***************************************************************************)
(* The findings are listed and matched with the comments on the pull       *)
(* request, if GitHub shows those ...                                      *)
(***************************************************************************)
Sync(h) ==
    /\ hook[h].at = "sync"
    /\ \E found \in {{}, OnGitHub} :
          hook' = [hook EXCEPT ![h].at = "merge",
                               ![h].listed = {i \in Issues : seen[i] # 0},
                               ![h].matched = known \union found]
    /\ UNCHANGED <<github, thread, run, settler, published, bounds, causes>>

(***************************************************************************)
(* ... and the list is written back, if the match has changed it: over the *)
(* findings it holds, whatever has been written to them meanwhile, but not *)
(* over those added since (replace_findings).  That is one step: findings  *)
(* are read again and written under a lock of the event loop, and the      *)
(* process has one loop (agent/utils/event_loop.py).                       *)
(***************************************************************************)
Replace(h) == known' = hook[h].matched \union (known \ hook[h].listed)

(* A reply must be one to a finding that has been matched.                 *)
Merge(h) ==
    /\ hook[h].at = "merge"
    /\ Replace(h) \/ UNCHANGED known
    /\ LET told == [hook[h] EXCEPT !.listed = {}, !.matched = {}]
       IN  \/ hook[h].kind = "push" /\ hook' = [hook EXCEPT ![h] = [told EXCEPT !.at = "setHead"]]
           \/ /\ hook[h].kind = "reply" /\ known' # {}
              /\ hook' = [hook EXCEPT ![h] = [told EXCEPT !.at = "dispatch"]]
           \/ hook[h].kind = "reply" /\ known' = {} /\ Return(h)
    /\ UNCHANGED <<github, meta, seen, run, settler, published, bounds, causes>>

(* set_reviewer_thread_metadata: every other field stays.                  *)
SetHead(h) ==
    /\ hook[h].at = "setHead"
    /\ meta' = [meta EXCEPT !.head = hook[h].head]
    /\ Goto(h, IF hook[h].kind = "requested" THEN "dispatch" ELSE "create")
    /\ UNCHANGED <<github, seen, known, run, settler, published, bounds, causes>>

Create(h) ==
    /\ hook[h].at = "create"
    /\ NewCheck(h, "store")
    /\ UNCHANGED <<prHead, posted, reviews, thread, run, settler, published, events>>

Tracked == IF meta.check = 0 THEN {} ELSE {checks[meta.check]}

Preparing ==
    \/ run.at \notin {"none", "working"}
    \/ settler["webhook"].at # "idle"
    \/ meta.pending # "none"

(***************************************************************************)
(* The check is tracked from now on, instead of the one before.  The       *)
(* result that is pending for that one stays.                              *)
(***************************************************************************)
Store(h) ==
    /\ hook[h].at = "store"
    /\ meta' = [meta EXCEPT !.check = hook[h].check]
    /\ causes' = causes
          \union When(\E c \in Tracked : c.result = "open" /\ c.head >= hook[h].head, "replaced")
          \union When(Preparing, "crossed")
    /\ Goto(h, "dispatch")
    /\ UNCHANGED <<github, seen, known, run, settler, published, bounds>>

(***************************************************************************)
(* The kinds of review: a push always asks for a re-review.                *)
(***************************************************************************)
Review(record) ==
    IF record.kind \in {"push", "reply"} \/ record.last # 0 THEN "again" ELSE "first"

(***************************************************************************)
(* dispatch_agent_run interrupts the run under way, whatever it is doing.  *)
(***************************************************************************)
Dispatch(h) ==
    /\ hook[h].at = "dispatch"
    /\ run' = [NoRun EXCEPT !.at = "working", !.re = Review(hook[h])]
    /\ settler' = [settler EXCEPT !["run"] = NotSettling]
    /\ causes' = causes
          \union When(settler["run"].at \in {"clear", "keep"}, "torn")
          \union When(\E c \in Tracked : c.head # meta.head, "crossed")
    /\ Return(h)
    /\ UNCHANGED <<github, thread, published, bounds>>

(* An exception, or a crash, ends it.                                      *)
HookBroken(h) ==
    /\ hook[h].at # "idle"
    /\ Fault
    /\ causes' = causes \union When(hook[h].at \in {"shortEnd", "store", "dispatch"}, "orphan")
    /\ Return(h)
    /\ UNCHANGED <<github, thread, run, settler, published, events>>

Webhook(h) ==
    \/ Look(h) \/ Mark(h) \/ ShortCheck(h) \/ ShortEnd(h) \/ Sync(h) \/ Merge(h)
    \/ SetHead(h) \/ Create(h) \/ Store(h) \/ Dispatch(h)

-----------------------------------------------------------------------------
(* The run.                                                                *)

Step(next) == run' = [run EXCEPT !.at = next]

(***************************************************************************)
(* add_finding, at the head that the thread's metadata names.  What has    *)
(* been found before is not added again.                                   *)
(***************************************************************************)
Report(i) ==
    /\ run.at = "working"
    /\ seen' = [seen EXCEPT ![i] = IF @ = 0 THEN meta.head ELSE @]
    /\ UNCHANGED <<github, meta, known, hook, run, settler, published, bounds, causes>>

(* publish_review, for the head that the thread's metadata names ...       *)
Publish ==
    /\ run.at = "working"
    /\ run' = [run EXCEPT !.at = "backfill", !.want = meta.head]
    /\ causes' = causes \union When(\E c \in Tracked : c.head # meta.head, "crossed")
    /\ UNCHANGED <<github, thread, hook, settler, published, bounds>>

(* Findings without a comment; on a re-review, first seen at this head.    *)
Unpublished(commented) ==
    {i \in Issues \ commented : seen[i] # 0 /\ (run.re = "again" => seen[i] = run.want)}

(***************************************************************************)
(* A slip, here and below: what a plausible mistake in the definition that *)
(* comes next would make of it.  No specification uses it; a mutation of   *)
(* the model puts it in the place of the definition.                       *)
(***************************************************************************)
NoBackfill ==
    /\ run.at = "backfill"
    /\ run' = [run EXCEPT !.new = Unpublished(known),
                          !.at = IF Unpublished(known) = {} THEN "ask" ELSE "post"]
    /\ UNCHANGED <<github, thread, hook, settler, published, bounds, causes>>

(***************************************************************************)
(* ... matches the findings with the comments on the pull request and      *)
(* takes those that have none.                                             *)
(***************************************************************************)
Backfill ==
    /\ run.at = "backfill"
    /\ \/ known' = known \union OnGitHub /\ UNCHANGED <<faults, causes>>
       \/ Fault /\ causes' = causes \union {"blind"} /\ UNCHANGED known
    /\ run' = [run EXCEPT !.new = Unpublished(known'),
                          !.at = IF Unpublished(known') = {} THEN "ask" ELSE "post"]
    /\ UNCHANGED <<github, meta, seen, hook, settler, published, events>>

AskOfFlags ==
    /\ run.at = "ask"
    /\ Step(IF run.re = "again" THEN "advance" ELSE "post")
    /\ UNCHANGED <<github, thread, hook, settler, published, bounds, causes>>

(***************************************************************************)
(* With nothing new, a review is posted only if there has been none; when  *)
(* GitHub does not say, it is posted.                                      *)
(***************************************************************************)
Ask ==
    /\ run.at = "ask"
    /\ LET trusted == run.re = "again" \/ meta.reviewed # 0
       IN  \/ /\ trusted \/ reviews # {}
              /\ Step("advance") /\ UNCHANGED <<faults, causes>>
           \/ /\ ~trusted /\ reviews = {}
              /\ Step("post") /\ UNCHANGED <<faults, causes>>
           \/ /\ ~trusted /\ Fault /\ causes' = causes \union {"blind"}
              /\ Step("post")
    /\ UNCHANGED <<github, thread, hook, settler, published, events>>

OneMore(count) == IF count = "never" THEN "once" ELSE "more"

Posted ==
    /\ posted' = [i \in Issues |-> IF i \in run.new THEN OneMore(posted[i]) ELSE posted[i]]
    /\ reviews' = reviews \union {run.want}
    /\ causes' = causes \union When(run.new = {} /\ reviews # {}, "noise")

(***************************************************************************)
(* One GitHub review holds all the comments.  When the request fails, the  *)
(* tool tells the agent; the review may be there nevertheless.             *)
(***************************************************************************)
Post ==
    /\ run.at = "post"
    /\ \/ Posted /\ Step(IF run.new = {} THEN "advance" ELSE "record") /\ UNCHANGED faults
       \/ Fault /\ Posted /\ Step("working")
       \/ Step("working") /\ UNCHANGED <<posted, reviews, faults, causes>>
    /\ UNCHANGED <<prHead, checks, thread, hook, settler, published, events>>

(* The ids of the comments; fetching them may fail.                        *)
Record ==
    /\ run.at = "record"
    /\ \/ known' = known \union run.new /\ UNCHANGED faults
       \/ Fault /\ UNCHANGED known
    /\ Step("advance")
    /\ UNCHANGED <<github, meta, seen, hook, settler, published, events, causes>>

(***************************************************************************)
(* last_reviewed_sha moves on, and the check is settled: with a success,   *)
(* whatever the review found.                                              *)
(***************************************************************************)
Advance ==
    /\ run.at = "advance"
    /\ meta' = [meta EXCEPT !.reviewed = run.want]
    /\ published' = published \union {run.want}
    /\ settler' = [settler EXCEPT !["run"] = [@ EXCEPT !.at = "read", !.result = "success"]]
    /\ Step("settle")
    /\ UNCHANGED <<github, seen, known, hook, bounds, causes>>

FinishAsPublished ==
    /\ run.at = "working"
    /\ settler' = [settler EXCEPT !["run"] = [@ EXCEPT !.at = "read", !.result = "success"]]
    /\ Step("close")
    /\ UNCHANGED <<github, thread, hook, published, bounds, causes>>

(* The agent has nothing more to say: settle_review_check_on_exit.         *)
Finish ==
    /\ run.at = "working"
    /\ settler' = [settler EXCEPT !["run"] = [@ EXCEPT !.at = "due"]]
    /\ Step("close")
    /\ UNCHANGED <<github, thread, hook, published, bounds, causes>>

(***************************************************************************)
(* The run ends in an error or a timeout, which the completion webhook     *)
(* hears of, or it is cancelled or lost, which nothing hears of.  A tool   *)
(* that raises leaves the run to the agent.                                *)
(***************************************************************************)
RunBroken ==
    /\ run.at # "none"
    /\ Fault
    /\ \/ /\ run' = NoRun /\ settler["webhook"].at = "idle"
          /\ settler' = [settler EXCEPT !["run"] = NotSettling, !["webhook"].at = "due"]
          /\ causes' = causes \union When(settler["run"].at \in {"clear", "keep"}, "torn")
       \/ /\ run' = NoRun
          /\ settler' = [settler EXCEPT !["run"] = NotSettling]
          /\ causes' = causes \union {"killed"}
                       \union When(settler["run"].at \in {"clear", "keep"}, "torn")
       \/ /\ run.at \notin {"working", "settle", "close"}
          /\ Step("working") /\ UNCHANGED <<settler, causes>>
    /\ UNCHANGED <<github, thread, hook, published, events>>

Reviewer ==
    \/ \E i \in Issues : Report(i)
    \/ Publish \/ Backfill \/ Ask \/ Post \/ Record \/ Advance \/ Finish

-----------------------------------------------------------------------------
(* Completing the check.                                                   *)

SettlerGoes(s, next) == settler' = [settler EXCEPT ![s].at = next] /\ UNCHANGED run

(* The publication goes back to the agent; after the hook the run is over. *)
SettlerReturns(s) ==
    /\ settler' = [settler EXCEPT ![s] = NotSettling]
    /\ run' = IF s = "webhook" THEN run
              ELSE IF run.at = "settle" THEN [run EXCEPT !.at = "working", !.new = {}, !.want = 0]
              ELSE NoRun

Another(s) == \E o \in Settlers \ {s} : settler[o].at \notin {"idle", "due"}

NeutralAlways(s) ==
    /\ settler[s].at = "due"
    /\ IF meta.check = 0 THEN SettlerReturns(s)
       ELSE settler' = [settler EXCEPT ![s].at = "read"] /\ UNCHANGED run
    /\ UNCHANGED <<github, thread, hook, published, bounds, causes>>

FailIncomplete(s) ==
    /\ settler[s].at = "due"
    /\ IF meta.check = 0 THEN SettlerReturns(s)
       ELSE /\ settler' = [settler EXCEPT ![s] = [@ EXCEPT !.at = "read", !.result = "failure"]]
            /\ UNCHANGED run
    /\ UNCHANGED <<github, thread, hook, published, bounds, causes>>

(***************************************************************************)
(* After the agent, and on the completion webhook: a check that is still   *)
(* tracked gets the result that is pending, or "neutral".                  *)
(***************************************************************************)
Fetch(s) ==
    /\ settler[s].at = "due"
    /\ \/ meta.check = 0 /\ SettlerReturns(s)
       \/ /\ meta.check # 0 /\ UNCHANGED run
          /\ settler' = [settler EXCEPT ![s] =
                 [@ EXCEPT !.at = "read",
                           !.result = IF meta.pending = "none" THEN "neutral" ELSE meta.pending]]
    /\ causes' = causes \union When(Another(s), "doubled")
    /\ UNCHANGED <<github, thread, hook, published, bounds>>

(* settle_review_check_run reads the tracked id ...                        *)
ReadCheck(s) ==
    /\ settler[s].at = "read"
    /\ \/ meta.check = 0 /\ SettlerReturns(s) /\ UNCHANGED causes
       \/ /\ meta.check # 0 /\ UNCHANGED run
          /\ settler' = [settler EXCEPT ![s] = [@ EXCEPT !.at = "patch", !.check = meta.check]]
          /\ causes' = causes \union When(Another(s), "doubled")
    /\ UNCHANGED <<github, thread, hook, published, bounds>>

(* ... completes that check, which may fail with or without an effect ...  *)
Completed(s) == checks' = [checks EXCEPT ![settler[s].check].result = settler[s].result]

Patch(s) ==
    /\ settler[s].at = "patch"
    /\ \/ Completed(s) /\ SettlerGoes(s, "clear") /\ UNCHANGED <<faults, causes>>
       \/ /\ Fault /\ (Completed(s) \/ UNCHANGED checks)
          /\ SettlerGoes(s, "keep")
          /\ causes' = causes \union When(s = "webhook" \/ run.at = "close", "stuck")
    /\ UNCHANGED <<prHead, posted, reviews, thread, hook, published, events>>

(***************************************************************************)
(* ... and forgets the id, whichever it is by now ...                      *)
(***************************************************************************)
Clear(s) ==
    /\ settler[s].at = "clear"
    /\ meta' = [meta EXCEPT !.check = 0, !.pending = "none"]
    /\ causes' = causes \union When(meta.check \notin {0, settler[s].check}, "overtaken")
    /\ SettlerReturns(s)
    /\ UNCHANGED <<github, seen, known, hook, published, bounds>>

ForgetOnFailure(s) ==
    /\ settler[s].at = "keep"
    /\ meta' = [meta EXCEPT !.check = 0]
    /\ SettlerReturns(s)
    /\ UNCHANGED <<github, seen, known, hook, published, bounds, causes>>

(* ... or leaves it, and the result, to the next to come.                  *)
KeepForRetry(s) ==
    /\ settler[s].at = "keep"
    /\ meta' = [meta EXCEPT !.pending = settler[s].result]
    /\ SettlerReturns(s)
    /\ UNCHANGED <<github, seen, known, hook, published, bounds, causes>>

(* An exception of the platform ends it.                                   *)
SettlerBroken(s) ==
    /\ settler[s].at # "idle"
    /\ Fault
    /\ causes' = causes
          \union When(settler[s].at \in {"clear", "keep"}, "torn")
          \union When(s = "webhook" \/ run.at = "close", "stuck")
    /\ SettlerReturns(s)
    /\ UNCHANGED <<github, thread, hook, published, events>>

Settle(s) == Fetch(s) \/ ReadCheck(s) \/ Patch(s) \/ Clear(s) \/ KeepForRetry(s)

-----------------------------------------------------------------------------

Push ==
    /\ prHead < MaxHeads /\ prHead' = prHead + 1
    /\ UNCHANGED <<checks, posted, reviews, thread, hook, run, settler, published, bounds, causes>>

Next ==
    \/ Push
    \/ \E h \in Hooks :
          \/ \E kind \in Kinds \ {"none"} : Deliver(h, kind)
          \/ Webhook(h) \/ HookBroken(h)
    \/ Reviewer \/ RunBroken
    \/ \E s \in Settlers : Settle(s) \/ SettlerBroken(s)

Spec == Init /\ [][Next]_vars

-----------------------------------------------------------------------------
(* Properties.                                                             *)

(* Every variable holds a value the code could give it.                    *)
TypeOK ==
    /\ prHead \in Heads /\ checks \in Seq(Checks)
    /\ posted \in [Issues -> Counts] /\ reviews \in SUBSET (0..MaxHeads)
    /\ meta \in Metadata /\ seen \in [Issues -> 0..MaxHeads] /\ known \in SUBSET Issues
    /\ hook \in [Hooks -> HookRecords] /\ run \in RunRecords
    /\ settler \in [Settlers -> SettlerRecords]
    /\ published \in SUBSET (0..MaxHeads)
    /\ events \in 0..MaxEvents /\ faults \in 0..MaxFaults /\ causes \in SUBSET Causes

Without(some) == causes \intersect some = {}

(***************************************************************************)
(* No finding is posted twice on the pull request, wherever runs are       *)
(* interrupted, fail or try again, unless GitHub did not say what is       *)
(* there.                                                                  *)
(***************************************************************************)
PostedOnce == Without({"blind"}) => \A i \in Issues : posted[i] # "more"

(***************************************************************************)
(* "No issues found" is not posted on a pull request that has a review,    *)
(* unless GitHub did not say so.                                           *)
(***************************************************************************)
NoEmptyRepeat == "noise" \in causes => "blind" \in causes

(***************************************************************************)
(* "Otherwise the check would hang in-progress forever": when no webhook,  *)
(* run or settlement is under way, the checks on the head of the pull      *)
(* request are completed, failed attempts and interrupted runs             *)
(* notwithstanding.                                                        *)
(***************************************************************************)
Quiet ==
    /\ \A h \in Hooks : hook[h].at = "idle"
    /\ run.at = "none"
    /\ \A s \in Settlers : settler[s].at = "idle"

QuietIsSettled ==
    Quiet /\ Without({"orphan", "replaced", "overtaken", "stuck", "killed"}) =>
        \A c \in DOMAIN checks : checks[c].head = prHead => checks[c].result # "open"

(***************************************************************************)
(* A check says "success" only on a head that a review was published for,  *)
(* or whose diff was unchanged, unless a webhook moved the thread on while *)
(* a publication or a settlement was under way.                            *)
(***************************************************************************)
SuccessIsReviewed ==
    Without({"crossed"}) =>
        \A c \in DOMAIN checks : checks[c].result = "success" => checks[c].head \in published

(***************************************************************************)
(* A published review is not misreported afterwards as incomplete, unless  *)
(* a settlement broke off halfway or two overlapped.                       *)
(***************************************************************************)
SuccessStays ==
    [][Without({"torn", "doubled"})' =>
          \A c \in DOMAIN checks :
              checks[c].result = "success" => checks'[c].result = "success"]_vars

(***************************************************************************)
(* "Silently swallowing the only review the user will ever see": a head    *)
(* that counts as reviewed has made a review appear on the pull request.   *)
(***************************************************************************)
ReviewedIsVisible == meta.reviewed # 0 => reviews # {}
=============================================================================
