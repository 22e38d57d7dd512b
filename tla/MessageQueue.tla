----------------------------- MODULE MessageQueue -----------------------------
(***************************************************************************)
(* Follow-ups to a thread whose agent is busy: the dashboard's sends       *)
(* (agent/dashboard/thread_api.py, agent/utils/thread_ops.py), the         *)
(* middleware that takes them up before a model call                       *)
(* (agent/middleware/check_message_queue.py) and the Slack stop reaction   *)
(* that discards them (agent/utils/slack_stop.py).                         *)
(*                                                                         *)
(* All of them read and write one list in the platform's store, without a  *)
(* lock and with awaits between the read and the write.                    *)
(***************************************************************************)
EXTENDS Naturals, Sequences

CONSTANTS
    Messages,   \* the follow-ups; each is sent once
    MaxQueued   \* MAX_QUEUED_MESSAGES

ASSUME QueueAssumption == MaxQueued \in Nat \ {0}

VARIABLES
    stage,       \* where each send is
    seen,        \* the list a send has read
    queue,       \* the stored list; <<>> when there is no item
    agent,       \* what runs on the thread, and where in the middleware it is
    taken,       \* the list the middleware has read
    transcript,  \* the follow-ups in the checkpointed conversation
    stop,        \* where the stop reaction is
    accepted,    \* history: the follow-ups reported as queued, in that order
    cleared,     \* history: the follow-ups that a stop reaction has deleted
    causes       \* history: what has happened besides orderly sends and drains

sends == <<stage, seen>>
drain == <<agent, taken, transcript>>
vars  == <<sends, queue, drain, stop, accepted, cleared, causes>>

SendStages == {"unsent", "busy", "read", "queued", "refused"}
AgentStages == {"idle", "start", "got", "deleted", "model", "summary"}
StopStages == {"none", "cancelled", "cleared"}

Causes == {"race",       \* the list was replaced after it had changed since it was read
           "cap",        \* the oldest entry was dropped
           "error",      \* a failing store call had an effect, or hid the list
           "crash",      \* a run was cut off holding what it had deleted
           "dropped",    \* an exception after the delete was swallowed
           "stop",       \* a stop reaction deleted entries
           "interrupt",  \* a run was cut off otherwise
           "unread"}     \* the middleware could not read or delete the list

Elems(s) == {s[i] : i \in DOMAIN s}
When(condition, cause) == IF condition THEN {cause} ELSE {}

Init ==
    /\ stage = [m \in Messages |-> "unsent"]
    /\ seen = [m \in Messages |-> <<>>]
    /\ queue = <<>>
    /\ agent = "idle"
    /\ taken = <<>>
    /\ transcript = <<>>
    /\ stop = "none"
    /\ accepted = <<>>
    /\ cleared = {}
    /\ causes = {}

-----------------------------------------------------------------------------
(* A send.                                                                 *)

(***************************************************************************)
(* Slips, here and below: what a plausible mistake in the definition that  *)
(* comes next would make of it.  No specification uses them; a mutation of *)
(* the model puts one in the place of the definition.                      *)
(***************************************************************************)
CheckBusyOutsideSchema(m) ==
    /\ stage[m] = "unsent"
    /\ stage' = [stage EXCEPT ![m] = IF agent # "idle" THEN "busy" ELSE "conflict"]
    /\ UNCHANGED <<seen, queue, drain, stop, accepted, cleared, causes>>

(***************************************************************************)
(* get_thread_active_status: an idle thread is refused with 409, one whose *)
(* status cannot be read with 502.                                         *)
(***************************************************************************)
CheckBusy(m) ==
    /\ stage[m] = "unsent"
    /\ \/ agent # "idle" /\ stage' = [stage EXCEPT ![m] = "busy"]
       \/ stage' = [stage EXCEPT ![m] = "refused"]
    /\ UNCHANGED <<seen, queue, drain, stop, accepted, cleared, causes>>

(***************************************************************************)
(* The thread's metadata is updated, which may fail the send, and the list *)
(* is read; a read that raises counts as an empty list.                    *)
(***************************************************************************)
ReadQueue(m) ==
    /\ stage[m] = "busy"
    /\ \/ /\ stage' = [stage EXCEPT ![m] = "read"]
          /\ seen' = [seen EXCEPT ![m] = queue]
          /\ UNCHANGED causes
       \/ /\ stage' = [stage EXCEPT ![m] = "read"]
          /\ causes' = causes \union {"error"}
          /\ UNCHANGED seen
       \/ stage' = [stage EXCEPT ![m] = "refused"] /\ UNCHANGED <<seen, causes>>
    /\ UNCHANGED <<queue, drain, stop, accepted, cleared>>

Newest(s) == IF Len(s) > MaxQueued THEN SubSeq(s, Len(s) - MaxQueued + 1, Len(s)) ELSE s

PutQueueInFront(m) ==
    /\ stage[m] = "read"
    /\ queue' = Newest(<<m>> \o seen[m])
    /\ stage' = [stage EXCEPT ![m] = "queued"]
    /\ accepted' = Append(accepted, m)
    /\ causes' = causes \union When(queue # seen[m], "race")
                        \union When(Len(seen[m]) >= MaxQueued, "cap")
    /\ UNCHANGED <<seen, drain, stop, cleared>>

(***************************************************************************)
(* The list read, with the message at its end, replaces whatever is stored *)
(* by now.  A call that raises is reported as a failure, whether or not    *)
(* the store carried it out.                                               *)
(***************************************************************************)
PutQueue(m) ==
    /\ stage[m] = "read"
    /\ LET list == Newest(Append(seen[m], m)) IN
       \/ /\ queue' = list
          /\ stage' = [stage EXCEPT ![m] = "queued"]
          /\ accepted' = Append(accepted, m)
          /\ causes' = causes \union When(queue # seen[m], "race")
                              \union When(Len(seen[m]) >= MaxQueued, "cap")
       \/ /\ stage' = [stage EXCEPT ![m] = "refused"]
          /\ \/ UNCHANGED <<queue, causes>>
             \/ queue' = list /\ causes' = causes \union {"error"}
          /\ UNCHANGED accepted
    /\ UNCHANGED <<seen, drain, stop, cleared>>

-----------------------------------------------------------------------------
(* The agent.                                                              *)

StartRun ==
    /\ agent = "idle"
    /\ agent' = "start"
    /\ UNCHANGED <<sends, queue, taken, transcript, stop, accepted, cleared, causes>>

(***************************************************************************)
(* check_message_queue_before_model runs before every model call; with     *)
(* nothing queued, or a read that raises, the model is called.             *)
(***************************************************************************)
GetQueue ==
    /\ agent \in {"start", "model"}
    /\ \/ /\ queue # <<>>
          /\ agent' = "got" /\ taken' = queue
          /\ UNCHANGED causes
       \/ /\ agent' = "model" /\ UNCHANGED taken
          /\ causes' = causes \union When(queue # <<>>, "unread")
    /\ UNCHANGED <<sends, queue, transcript, stop, accepted, cleared>>

(***************************************************************************)
(* A delete that raises abandons the drain, whether or not the store       *)
(* carried it out.                                                         *)
(***************************************************************************)
DeleteQueue ==
    /\ agent = "got"
    /\ \/ /\ queue' = <<>>
          /\ agent' = "deleted" /\ UNCHANGED taken
          /\ causes' = causes \union When(queue # taken, "race")
       \/ /\ agent' = "model" /\ taken' = <<>>
          /\ \/ UNCHANGED queue /\ causes' = causes \union {"unread"}
             \/ queue' = <<>> /\ causes' = causes \union {"error"}
    /\ UNCHANGED <<sends, transcript, stop, accepted, cleared>>

(***************************************************************************)
(* The update of the middleware is checkpointed with its step.  An         *)
(* exception while the messages are built (images are fetched, the model   *)
(* is resolved) is swallowed, and the run goes on without them.            *)
(***************************************************************************)
Inject ==
    /\ agent = "deleted"
    /\ \/ transcript' = transcript \o taken /\ UNCHANGED causes
       \/ causes' = causes \union {"dropped"} /\ UNCHANGED transcript
    /\ agent' = "model" /\ taken' = <<>>
    /\ UNCHANGED <<sends, queue, stop, accepted, cleared>>

RunEnds ==
    /\ agent \in {"model", "summary"}
    /\ agent' = "idle"
    /\ UNCHANGED <<sends, queue, taken, transcript, stop, accepted, cleared, causes>>

CutOff == When(agent = "deleted", "crash") \union When(agent # "deleted", "interrupt")

(***************************************************************************)
(* A run is interrupted by a follow-up through another surface, cancelled, *)
(* or crashes and is resumed from its last checkpoint.                     *)
(***************************************************************************)
Interrupted ==
    /\ agent # "idle"
    /\ agent' \in {"start", "idle"} /\ taken' = <<>>
    /\ causes' = causes \union CutOff
    /\ UNCHANGED <<sends, queue, transcript, stop, accepted, cleared>>

-----------------------------------------------------------------------------
(* The stop reaction.                                                      *)

(***************************************************************************)
(* cancel_many asks the platform to interrupt the active runs and does not *)
(* wait for them: Interrupted may come at any time, or later steps first.  *)
(***************************************************************************)
StopCancel ==
    /\ stop = "none"
    /\ stop' = "cancelled"
    /\ UNCHANGED <<sends, queue, drain, accepted, cleared, causes>>

StopClearElsewhere ==
    /\ stop = "cancelled"
    /\ \/ /\ cleared' = cleared \union Elems(queue)
          /\ causes' = causes \union When(queue # <<>>, "stop")
          /\ stop' \in {"cleared", "none"}
       \/ stop' = "none" /\ UNCHANGED <<cleared, causes>>
    /\ UNCHANGED <<queue, sends, drain, accepted>>

(***************************************************************************)
(* _clear_deferred_work; an exception of the store ends the reaction,      *)
(* whether or not the store carried the delete out.                        *)
(***************************************************************************)
StopClear ==
    /\ stop = "cancelled"
    /\ \/ /\ queue' = <<>>
          /\ cleared' = cleared \union Elems(queue)
          /\ causes' = causes \union When(queue # <<>>, "stop")
          /\ stop' \in {"cleared", "none"}
       \/ stop' = "none" /\ UNCHANGED <<queue, cleared, causes>>
    /\ UNCHANGED <<sends, drain, accepted>>

(***************************************************************************)
(* The summary run replaces whatever runs and, being assembled without the *)
(* middleware, leaves the list alone.                                      *)
(***************************************************************************)
StopSummary ==
    /\ stop = "cleared"
    /\ stop' = "none"
    /\ \/ /\ agent' = "summary" /\ taken' = <<>>
          /\ causes' = causes \union IF agent = "idle" THEN {} ELSE CutOff
       \/ UNCHANGED <<agent, taken, causes>>
    /\ UNCHANGED <<sends, queue, transcript, accepted, cleared>>

-----------------------------------------------------------------------------

Send(m) == CheckBusy(m) \/ ReadQueue(m) \/ PutQueue(m)

AgentStep == GetQueue \/ DeleteQueue \/ Inject \/ RunEnds

Stop == StopCancel \/ StopClear \/ StopSummary

Next ==
    \/ \E m \in Messages : Send(m)
    \/ StartRun \/ AgentStep \/ Interrupted
    \/ Stop

Spec == Init /\ [][Next]_vars

-----------------------------------------------------------------------------
(* Properties.                                                             *)

(* Every variable holds a value the code could give it.                    *)
TypeOK ==
    /\ stage \in [Messages -> SendStages]
    /\ seen \in [Messages -> Seq(Messages)]
    /\ queue \in Seq(Messages) /\ taken \in Seq(Messages)
    /\ agent \in AgentStages
    /\ transcript \in Seq(Messages)
    /\ stop \in StopStages
    /\ accepted \in Seq(Messages)
    /\ cleared \in SUBSET Messages
    /\ causes \in SUBSET Causes

Harmless == {"interrupt", "unread"}

InHand == IF agent = "deleted" THEN taken ELSE <<>>

(***************************************************************************)
(* As long as no list is replaced that had changed since it was read, and  *)
(* no fault, cap or stop takes anything, the follow-ups reported as queued *)
(* reach the conversation once each and in order; runs that end, are       *)
(* interrupted before the delete or cannot read the store do no harm.      *)
(***************************************************************************)
KeptInOrder ==
    causes \subseteq Harmless => accepted = transcript \o InHand \o queue

(***************************************************************************)
(* However sends, drains and faults interleave, one drain never shows the  *)
(* agent the same follow-up twice, and the list keeps within its cap.      *)
(***************************************************************************)
OncePerBatch ==
    /\ \A i, j \in DOMAIN queue : queue[i] = queue[j] => i = j
    /\ \A i, j \in DOMAIN taken : taken[i] = taken[j] => i = j
    /\ Len(queue) <= MaxQueued

(***************************************************************************)
(* A follow-up that a stop reaction has discarded is neither stored, nor   *)
(* in the hands of a run, nor in the conversation, then or later, unless a *)
(* send or a drain overlapped with a change of the list, or a failing call *)
(* of the store had an effect or hid the list.                             *)
(***************************************************************************)
DiscardedIsGone ==
    causes \intersect {"race", "error"} = {} =>
        cleared \intersect (Elems(queue) \union Elems(InHand) \union Elems(transcript)) = {}

(***************************************************************************)
(* A claim of the documentation that the code does not keep:               *)
(* A follow-up reported as queued is not lost, races apart from faults.    *)
(***************************************************************************)
QueuedIsKept ==
    causes \subseteq Harmless \union {"race"} =>
        \A m \in Elems(accepted) :
            \/ m \in Elems(queue) \union Elems(InHand) \union Elems(transcript)
            \/ \E s \in Messages : stage[s] = "read" /\ m \in Elems(seen[s])
=============================================================================
