-------------------------- MODULE MessageQueueProofs --------------------------
(***************************************************************************)
(* Theorems about MessageQueue, for any set of follow-ups and any cap.     *)
(***************************************************************************)
EXTENDS MessageQueue, SequenceTheorems, TLAPS

-----------------------------------------------------------------------------
(* The lists.                                                              *)

Distinct(s) == \A i, j \in DOMAIN s : s[i] = s[j] => i = j

(***************************************************************************)
(* Adding a message to a list.                                             *)
(***************************************************************************)
LEMMA AppendFacts ==
    ASSUME NEW S, NEW s \in Seq(S), NEW m \in S
    PROVE  /\ Append(s, m) \in Seq(S)
           /\ Len(Append(s, m)) = Len(s) + 1
           /\ Elems(Append(s, m)) = Elems(s) \union {m}
           /\ Distinct(s) /\ m \notin Elems(s) => Distinct(Append(s, m))
<1> DEFINE t == Append(s, m)
<1>1. /\ t \in Seq(S) /\ Len(t) = Len(s) + 1 /\ Len(s) \in Nat
      /\ DOMAIN s = 1..Len(s) /\ DOMAIN t = 1..(Len(s) + 1)
      /\ \A i \in 1..Len(s) : t[i] = s[i]
      /\ t[Len(s) + 1] = m
    BY AppendProperties, LenProperties
<1>2. Elems(t) = Elems(s) \union {m}
    BY <1>1 DEF Elems
<1>3. ASSUME Distinct(s), m \notin Elems(s) PROVE Distinct(t)
    BY <1>1, <1>3 DEF Distinct, Elems
<1>4. QED BY <1>1, <1>2, <1>3

(***************************************************************************)
(* What the cap keeps of a list.                                           *)
(***************************************************************************)
LEMMA NewestFacts ==
    ASSUME NEW S, NEW s \in Seq(S)
    PROVE  /\ Newest(s) \in Seq(S)
           /\ Len(Newest(s)) <= MaxQueued
           /\ Elems(Newest(s)) \subseteq Elems(s)
           /\ Distinct(s) => Distinct(Newest(s))
           /\ Len(s) <= MaxQueued => Newest(s) = s
<1>1. Len(s) \in Nat /\ MaxQueued \in Nat \ {0} /\ DOMAIN s = 1..Len(s)
    BY QueueAssumption, LenProperties
<1>2. CASE Len(s) <= MaxQueued
    BY <1>1, <1>2 DEF Newest
<1>3. CASE Len(s) > MaxQueued
  <2> DEFINE low == Len(s) - MaxQueued
             t == SubSeq(s, low + 1, Len(s))
  <2>1. low \in Nat /\ low + MaxQueued = Len(s)
      BY <1>1, <1>3
  <2>2. /\ t \in Seq(S) /\ Len(t) = MaxQueued /\ DOMAIN t = 1..MaxQueued
        /\ \A i \in 1..MaxQueued : t[i] = s[low + i] /\ low + i \in DOMAIN s
    <3>1. \A i \in (low + 1)..Len(s) : s[i] \in S
        BY <1>1, <2>1, ElementOfSeq
    <3>2. /\ t \in Seq(S) /\ Len(t) = MaxQueued
          /\ \A i \in 1..MaxQueued : t[i] = s[low + 1 + i - 1]
        BY <1>1, <2>1, <3>1, SubSeqProperties
    <3>3. \A i \in 1..MaxQueued : low + 1 + i - 1 = low + i /\ low + i \in DOMAIN s
        BY <1>1, <2>1
    <3>4. DOMAIN t = 1..MaxQueued
        BY <3>2, LenProperties
    <3>5. QED BY <3>2, <3>3, <3>4
  <2>3. Newest(s) = t
      BY <1>1, <1>3 DEF Newest
  <2>4. Elems(t) \subseteq Elems(s)
      BY <2>2 DEF Elems
  <2>5. Distinct(s) => Distinct(t)
    <3> SUFFICES ASSUME Distinct(s), NEW i \in DOMAIN t, NEW j \in DOMAIN t, t[i] = t[j]
                 PROVE  i = j
        BY DEF Distinct
    <3>1. s[low + i] = s[low + j] /\ low + i \in DOMAIN s /\ low + j \in DOMAIN s
        BY <2>2
    <3>2. low + i = low + j
        BY <3>1 DEF Distinct
    <3>3. QED BY <2>1, <2>2, <3>2
  <2>6. Len(t) <= MaxQueued /\ ~(Len(s) <= MaxQueued)
      BY <1>1, <1>3, <2>2
  <2> HIDE DEF t
  <2>7. QED BY <2>2, <2>3, <2>4, <2>5, <2>6
<1>4. QED BY <1>1, <1>2, <1>3

-----------------------------------------------------------------------------
(* Types.                                                                  *)

(***************************************************************************)
(* Every variable of the queue holds a value the code could give it: the   *)
(* lists hold messages, the sends and the run are at a place in the code.  *)
(***************************************************************************)
THEOREM QueueTypes == Spec => []TypeOK
<1>1. Init => TypeOK
  <2>1. <<>> \in Seq(Messages)
      BY EmptySeq
  <2>2. QED BY <2>1 DEF Init, TypeOK, SendStages, AgentStages, StopStages
<1>2. TypeOK /\ [Next]_vars => TypeOK'
  <2> SUFFICES ASSUME TypeOK, [Next]_vars PROVE TypeOK'
      OBVIOUS
  <2> USE DEF TypeOK, SendStages, AgentStages, StopStages
  <2>0. <<>> \in Seq(Messages)
      BY EmptySeq
  <2>1. ASSUME NEW m \in Messages, CheckBusy(m) PROVE TypeOK'
      BY <2>1 DEF CheckBusy, drain
  <2>2. ASSUME NEW m \in Messages, ReadQueue(m) PROVE TypeOK'
      BY <2>2 DEF ReadQueue, drain, Causes
  <2>3. ASSUME NEW m \in Messages, PutQueue(m) PROVE TypeOK'
    <3>1. Newest(Append(seen[m], m)) \in Seq(Messages) /\ Append(accepted, m) \in Seq(Messages)
        BY AppendFacts, NewestFacts
    <3> DEFINE list == Newest(Append(seen[m], m))
    <3> HIDE DEF list
    <3>2. /\ queue' \in {list, queue} /\ stage' \in [Messages -> SendStages]
          /\ accepted' \in {accepted, Append(accepted, m)}
        BY <2>3 DEF PutQueue, list
    <3>3. causes' \subseteq causes \union {"race", "cap", "error"}
        BY <2>3 DEF PutQueue, When
    <3>4. UNCHANGED <<seen, drain, stop, cleared>>
        BY <2>3 DEF PutQueue
    <3>5. QED BY <3>1, <3>2, <3>3, <3>4 DEF list, drain, Causes
  <2>4. CASE StartRun
      BY <2>4 DEF StartRun, sends
  <2>5. CASE GetQueue
      BY <2>5 DEF GetQueue, sends, Causes, When
  <2>6. CASE DeleteQueue
      BY <2>0, <2>6 DEF DeleteQueue, sends, Causes, When
  <2>7. CASE Inject
    <3>1. transcript \o taken \in Seq(Messages)
        BY ConcatProperties
    <3>2. QED BY <2>0, <2>7, <3>1 DEF Inject, sends, Causes
  <2>8. CASE RunEnds
      BY <2>8 DEF RunEnds, sends
  <2>9. CASE Interrupted
      BY <2>0, <2>9 DEF Interrupted, sends, CutOff, When, Causes
  <2>10. CASE StopCancel
      BY <2>10 DEF StopCancel, sends, drain
  <2>11. CASE StopClear
    <3>1. Elems(queue) \subseteq Messages
        BY ElementOfSeq, LenProperties DEF Elems
    <3>2. QED BY <2>0, <2>11, <3>1 DEF StopClear, sends, drain, When, Causes
  <2>12. CASE StopSummary
      BY <2>0, <2>12 DEF StopSummary, sends, CutOff, When, Causes
  <2>13. CASE UNCHANGED vars
      BY <2>13 DEF vars, sends, drain
  <2>14. QED
      BY <2>1, <2>2, <2>3, <2>4, <2>5, <2>6, <2>7, <2>8, <2>9, <2>10, <2>11, <2>12, <2>13
      DEF Next, Send, AgentStep, Stop
<1>3. QED BY <1>1, <1>2, PTL DEF Spec

-----------------------------------------------------------------------------
(* What is kept.                                                           *)

(***************************************************************************)
(* A send whose list was still the stored one, below the cap, puts its     *)
(* message at the end.                                                     *)
(***************************************************************************)
LEMMA OrderlyPut ==
    ASSUME NEW S, NEW s \in Seq(S), NEW m \in S, ~(Len(s) >= MaxQueued)
    PROVE  Newest(Append(s, m)) = s \o <<m>>
<1>1. Append(s, m) \in Seq(S) /\ Len(Append(s, m)) = Len(s) + 1
    BY AppendFacts
<1>2. Len(s) \in Nat /\ MaxQueued \in Nat
    BY QueueAssumption, LenProperties
<1>3. Len(Append(s, m)) <= MaxQueued
    BY <1>1, <1>2
<1>4. Newest(Append(s, m)) = Append(s, m)
    BY <1>1, <1>3, NewestFacts, Zenon
<1>5. QED BY <1>4, AppendIsConcat

(***************************************************************************)
(* Follow-ups reported as queued reach the conversation once each and in   *)
(* order while sends and drains do not overlap and nothing fails: what is  *)
(* reported is what the conversation, the running drain and the stored     *)
(* list hold together, at every step.                                      *)
(***************************************************************************)
THEOREM QueueIsKeptInOrder == Spec => []KeptInOrder
<1>1. Init => KeptInOrder
    BY EmptySeq, ConcatEmptySeq DEF Init, KeptInOrder, InHand
<1>2. TypeOK /\ KeptInOrder /\ [Next]_vars => KeptInOrder'
  <2> SUFFICES ASSUME TypeOK, KeptInOrder, [Next]_vars, causes' \subseteq Harmless
               PROVE  accepted' = transcript' \o InHand' \o queue'
      BY DEF KeptInOrder
  <2> USE DEF Harmless
  <2>a. /\ queue \in Seq(Messages) /\ taken \in Seq(Messages)
        /\ transcript \in Seq(Messages) /\ <<>> \in Seq(Messages)
        /\ InHand \in Seq(Messages)
      BY EmptySeq DEF TypeOK, InHand
  <2>b. causes \subseteq causes' => accepted = transcript \o InHand \o queue
      BY DEF KeptInOrder
  <2>c. ASSUME causes \subseteq causes',
               UNCHANGED <<accepted, transcript, queue>>, InHand' = InHand
        PROVE  accepted' = transcript' \o InHand' \o queue'
      BY <2>b, <2>c
  <2>1. ASSUME NEW m \in Messages, CheckBusy(m) PROVE accepted' = transcript' \o InHand' \o queue'
      BY <2>1, <2>c DEF CheckBusy, drain, InHand
  <2>2. ASSUME NEW m \in Messages, ReadQueue(m) PROVE accepted' = transcript' \o InHand' \o queue'
    <3>1. causes \subseteq causes' /\ UNCHANGED <<accepted, transcript, queue>> /\ InHand' = InHand
        BY <2>2 DEF ReadQueue, drain, InHand
    <3>2. QED BY <3>1, <2>c
  <2>3. ASSUME NEW m \in Messages, PutQueue(m) PROVE accepted' = transcript' \o InHand' \o queue'
    <3> DEFINE list == Newest(Append(seen[m], m))
    <3>0. list = Newest(Append(seen[m], m))
        OBVIOUS
    <3> HIDE DEF list
    <3>1. UNCHANGED <<transcript, agent, taken>> /\ InHand' = InHand
        BY <2>3 DEF PutQueue, drain, InHand
    <3>2. CASE /\ queue' = list /\ accepted' = Append(accepted, m)
               /\ causes' = causes \union When(queue # seen[m], "race")
                                   \union When(Len(seen[m]) >= MaxQueued, "cap")
      <4>1. queue = seen[m] /\ ~(Len(seen[m]) >= MaxQueued) /\ causes \subseteq causes'
          BY <3>2 DEF When
      <4>2. queue' = queue \o <<m>>
          BY <4>1, <3>0, <3>2, <2>a, OrderlyPut
      <4>3. accepted \in Seq(Messages) /\ <<m>> \in Seq(Messages)
          BY DEF TypeOK
      <4>4. accepted' = accepted \o <<m>>
          BY <3>2, <4>3, AppendIsConcat
      <4>5. accepted = (transcript \o InHand) \o queue
          BY <4>1, <2>b
      <4>6. transcript \o InHand \in Seq(Messages)
          BY <2>a, ConcatProperties
      <4>7. ((transcript \o InHand) \o queue) \o <<m>> = (transcript \o InHand) \o (queue \o <<m>>)
        <5> DEFINE front == transcript \o InHand
                   last == <<m>>
        <5>1. front \in Seq(Messages) /\ queue \in Seq(Messages) /\ last \in Seq(Messages)
            BY <2>a, <4>3, <4>6
        <5> HIDE DEF front, last
        <5>2. (front \o queue) \o last = front \o (queue \o last)
            BY ONLY <5>1, ConcatAssociative
        <5>3. QED BY <5>2 DEF front, last
      <4>8. QED BY <3>1, <4>2, <4>4, <4>5, <4>7
    <3>3. CASE /\ UNCHANGED accepted
               /\ \/ UNCHANGED <<queue, causes>>
                  \/ queue' = list /\ causes' = causes \union {"error"}
      <4>1. UNCHANGED <<queue, causes>>
          BY <3>3
      <4>2. QED BY <3>1, <3>3, <4>1, <2>c
    <3>4. QED BY <2>3, <3>2, <3>3 DEF PutQueue, list
  <2>4. CASE StartRun
      BY <2>4, <2>c DEF StartRun, InHand
  <2>5. CASE GetQueue
    <3>1. causes \subseteq causes' /\ UNCHANGED <<accepted, transcript, queue>> /\ InHand' = InHand
        BY <2>5 DEF GetQueue, InHand
    <3>2. QED BY <3>1, <2>c
  <2>6. CASE DeleteQueue
    <3>1. CASE /\ queue' = <<>> /\ agent' = "deleted" /\ UNCHANGED taken
               /\ causes' = causes \union When(queue # taken, "race")
      <4>1. queue = taken /\ causes \subseteq causes'
          BY <3>1 DEF When
      <4>2. InHand = <<>> /\ InHand' = queue /\ UNCHANGED <<accepted, transcript>>
          BY <2>6, <3>1, <4>1 DEF DeleteQueue, InHand
      <4>3. transcript \o <<>> = transcript /\ (transcript \o queue) \o <<>> = transcript \o queue
          BY <2>a, ConcatProperties, ConcatEmptySeq
      <4>4. QED BY <2>b, <3>1, <4>1, <4>2, <4>3
    <3>2. CASE /\ agent' = "model"
               /\ \/ UNCHANGED queue /\ causes' = causes \union {"unread"}
                  \/ queue' = <<>> /\ causes' = causes \union {"error"}
      <4>1. UNCHANGED <<queue, accepted, transcript>> /\ InHand' = InHand /\ causes \subseteq causes'
          BY <2>6, <3>2 DEF DeleteQueue, InHand
      <4>2. QED BY <4>1, <2>c
    <3>3. QED BY <2>6, <3>1, <3>2 DEF DeleteQueue
  <2>7. CASE Inject
    <3>1. /\ InHand = taken /\ InHand' = <<>> /\ UNCHANGED <<accepted, queue, causes>>
          /\ transcript' = transcript \o taken
        BY <2>7 DEF Inject, InHand
    <3>2. (transcript \o taken) \o <<>> = transcript \o taken
        BY <2>a, ConcatProperties, ConcatEmptySeq
    <3>3. QED BY <2>b, <3>1, <3>2
  <2>8. CASE RunEnds
      BY <2>8, <2>c DEF RunEnds, InHand
  <2>9. CASE Interrupted
    <3>1. agent # "deleted" /\ causes \subseteq causes'
        BY <2>9 DEF Interrupted, CutOff, When
    <3>2. InHand = <<>> /\ InHand' = <<>> /\ UNCHANGED <<accepted, transcript, queue>>
        BY <2>9, <3>1 DEF Interrupted, InHand
    <3>3. QED BY <3>1, <3>2, <2>c
  <2>10. CASE StopCancel
      BY <2>10, <2>c DEF StopCancel, drain, InHand
  <2>11. CASE StopClear
    <3>1. queue' = queue /\ causes \subseteq causes'
        BY <2>11 DEF StopClear, When
    <3>2. UNCHANGED <<accepted, transcript>> /\ InHand' = InHand
        BY <2>11 DEF StopClear, drain, InHand
    <3>3. QED BY <3>1, <3>2, <2>c
  <2>12. CASE StopSummary
    <3>1. causes \subseteq causes' /\ InHand' = InHand
        BY <2>12 DEF StopSummary, CutOff, When, InHand
    <3>2. QED BY <2>12, <3>1, <2>c DEF StopSummary
  <2>13. CASE UNCHANGED vars
      BY <2>13, <2>c DEF vars, drain, InHand
  <2>14. QED
      BY <2>1, <2>2, <2>3, <2>4, <2>5, <2>6, <2>7, <2>8, <2>9, <2>10, <2>11, <2>12, <2>13
      DEF Next, Send, AgentStep, Stop
<1>3. QED BY <1>1, <1>2, QueueTypes, PTL DEF Spec

-----------------------------------------------------------------------------
(* Batches.                                                                *)

Pending == {"unsent", "busy", "read"}

(***************************************************************************)
(* No list, stored, read or taken, holds a message twice, and none holds   *)
(* one that has not been put yet: this is what keeps a send that writes    *)
(* back an old list from adding a message to a list that has it already.   *)
(***************************************************************************)
ListsInv ==
    /\ \A m \in Messages : stage[m] \in Pending =>
           /\ m \notin Elems(queue) /\ m \notin Elems(taken)
           /\ \A s \in Messages : m \notin Elems(seen[s])
    /\ Distinct(queue) /\ Distinct(taken)
    /\ \A s \in Messages : Distinct(seen[s])
    /\ Len(queue) <= MaxQueued

(***************************************************************************)
(* No send, drain, fault or stop reaction brings a repeat into a list.     *)
(***************************************************************************)
LEMMA ListsHaveNoRepeats == Spec => []ListsInv
<1>0. /\ Elems(<<>>) = {} /\ Distinct(<<>>) /\ Len(<<>>) = 0 /\ 0 <= MaxQueued
      /\ <<>> \in Seq(Messages)
  <2>1. <<>> \in Seq(Messages) /\ DOMAIN <<>> = {} /\ Len(<<>>) = 0
      BY EmptySeq, LenProperties
  <2>2. QED BY <2>1, QueueAssumption DEF Elems, Distinct
<1>1. Init => ListsInv
    BY <1>0 DEF Init, ListsInv
<1>2. TypeOK /\ ListsInv /\ [Next]_vars => ListsInv'
  <2> SUFFICES ASSUME TypeOK, ListsInv, [Next]_vars PROVE ListsInv'
      OBVIOUS
  <2>a. /\ queue \in Seq(Messages) /\ taken \in Seq(Messages)
        /\ \A s \in Messages : seen[s] \in Seq(Messages)
        /\ stage \in [Messages -> SendStages] /\ seen \in [Messages -> Seq(Messages)]
      BY DEF TypeOK
  <2>b. ASSUME \A m \in Messages : stage'[m] \in Pending => stage[m] \in Pending,
               queue' \in {queue, <<>>}, taken' \in {taken, queue, <<>>},
               UNCHANGED seen
        PROVE  ListsInv'
      BY <1>0, <2>b DEF ListsInv
  <2>1. ASSUME NEW m \in Messages, CheckBusy(m) PROVE ListsInv'
    <3>1. \A n \in Messages : stage'[n] \in Pending => stage[n] \in Pending
        BY <2>1, <2>a DEF CheckBusy, Pending
    <3>2. QED BY <2>1, <2>b, <3>1 DEF CheckBusy, drain
  <2>2. ASSUME NEW m \in Messages, ReadQueue(m) PROVE ListsInv'
    <3>1. \A n \in Messages : stage'[n] \in Pending => stage[n] \in Pending
        BY <2>2, <2>a DEF ReadQueue, Pending
    <3>2. \A s \in Messages : seen'[s] \in {seen[s], queue}
        BY <2>2, <2>a DEF ReadQueue
    <3>3. UNCHANGED <<queue, taken>>
        BY <2>2 DEF ReadQueue, drain
    <3>4. QED BY <3>1, <3>2, <3>3 DEF ListsInv
  <2>3. ASSUME NEW m \in Messages, PutQueue(m) PROVE ListsInv'
    <3> DEFINE long == Append(seen[m], m)
               list == Newest(long)
    <3>1. /\ long \in Seq(Messages) /\ Elems(long) = Elems(seen[m]) \union {m}
          /\ Distinct(long)
      <4>1. stage[m] \in Pending
          BY <2>3 DEF PutQueue, Pending
      <4>2. m \notin Elems(seen[m]) /\ Distinct(seen[m])
          BY <4>1 DEF ListsInv
      <4>3. QED BY <2>a, <4>2, AppendFacts
    <3>2. /\ Len(list) <= MaxQueued /\ Elems(list) \subseteq Elems(seen[m]) \union {m}
          /\ Distinct(list)
      <4> HIDE DEF long
      <4>1. QED BY <3>1, NewestFacts
    <3>3. \A n \in Messages :
              stage'[n] \in Pending => stage[n] \in Pending /\ n # m
        BY <2>3, <2>a DEF PutQueue, Pending
    <3>4. queue' \in {queue, list} /\ UNCHANGED <<seen, taken>>
        BY <2>3 DEF PutQueue, drain
    <3> HIDE DEF list, long
    <3>5. ASSUME NEW n \in Messages, stage'[n] \in Pending PROVE n \notin Elems(queue')
        BY <3>2, <3>3, <3>4, <3>5 DEF ListsInv
    <3>6. QED BY <3>2, <3>3, <3>4, <3>5 DEF ListsInv
  <2>4. CASE StartRun
      BY <2>4, <2>b DEF StartRun, sends
  <2>5. CASE GetQueue
    <3>1. queue' = queue /\ taken' \in {taken, queue} /\ UNCHANGED <<stage, seen>>
        BY <2>5 DEF GetQueue, sends
    <3>2. QED BY <2>b, <3>1
  <2>6. CASE DeleteQueue
    <3>1. queue' \in {queue, <<>>} /\ taken' \in {taken, <<>>} /\ UNCHANGED <<stage, seen>>
        BY <2>6 DEF DeleteQueue, sends
    <3>2. QED BY <2>b, <3>1
  <2>7. CASE Inject
      BY <2>7, <2>b DEF Inject, sends
  <2>8. CASE RunEnds
      BY <2>8, <2>b DEF RunEnds, sends
  <2>9. CASE Interrupted
      BY <2>9, <2>b DEF Interrupted, sends
  <2>10. CASE StopCancel
      BY <2>10, <2>b DEF StopCancel, sends, drain
  <2>11. CASE StopClear
    <3>1. queue' \in {queue, <<>>} /\ UNCHANGED <<stage, seen, taken>>
        BY <2>11 DEF StopClear, sends, drain
    <3>2. QED BY <2>b, <3>1
  <2>12. CASE StopSummary
    <3>1. taken' \in {taken, <<>>} /\ UNCHANGED <<stage, seen, queue>>
        BY <2>12 DEF StopSummary, sends
    <3>2. QED BY <2>b, <3>1
  <2>13. CASE UNCHANGED vars
      BY <2>13, <2>b DEF vars, sends, drain
  <2>14. QED
      BY <2>1, <2>2, <2>3, <2>4, <2>5, <2>6, <2>7, <2>8, <2>9, <2>10, <2>11, <2>12, <2>13
      DEF Next, Send, AgentStep, Stop
<1>3. QED BY <1>1, <1>2, QueueTypes, PTL DEF Spec

(***************************************************************************)
(* One drain never shows the agent a follow-up twice and the list keeps    *)
(* within its cap, whatever interleaves and whatever fails.                *)
(***************************************************************************)
THEOREM BatchesHaveNoRepeats == Spec => []OncePerBatch
<1>1. ListsInv => OncePerBatch
    BY DEF ListsInv, OncePerBatch, Distinct
<1>2. QED BY <1>1, ListsHaveNoRepeats, PTL

-----------------------------------------------------------------------------
(* The stop reaction.                                                      *)

(***************************************************************************)
(* The empty list holds nothing.                                           *)
(***************************************************************************)
LEMMA EmptyHoldsNothing == Elems(<<>>) = {}
    BY EmptySeq, LenProperties DEF Elems

(***************************************************************************)
(* A list with another at its end holds what the two hold.                 *)
(***************************************************************************)
LEMMA JoinedElems ==
    ASSUME NEW S, NEW s \in Seq(S), NEW t \in Seq(S)
    PROVE  Elems(s \o t) = Elems(s) \union Elems(t)
<1> DEFINE u == s \o t
<1>1. /\ Len(s) \in Nat /\ Len(t) \in Nat
      /\ DOMAIN s = 1..Len(s) /\ DOMAIN t = 1..Len(t)
    BY LenProperties
<1>2. /\ u \in Seq(S) /\ Len(u) = Len(s) + Len(t)
      /\ \A i \in 1 .. Len(s) + Len(t) : u[i] = IF i <= Len(s) THEN s[i] ELSE t[i - Len(s)]
    BY ConcatProperties
<1>3. DOMAIN u = 1 .. Len(s) + Len(t)
    BY <1>2, LenProperties
<1> HIDE DEF u
<1>4. \A i \in DOMAIN s : i \in DOMAIN u /\ u[i] = s[i]
    BY <1>1, <1>2, <1>3
<1>5. \A i \in DOMAIN t : Len(s) + i \in DOMAIN u /\ u[Len(s) + i] = t[i]
  <2> SUFFICES ASSUME NEW i \in 1..Len(t)
               PROVE  Len(s) + i \in DOMAIN u /\ u[Len(s) + i] = t[i]
      BY <1>1
  <2>1. Len(s) + i \in 1 .. Len(s) + Len(t) /\ ~(Len(s) + i <= Len(s)) /\ Len(s) + i - Len(s) = i
      BY <1>1
  <2>2. QED BY <1>2, <1>3, <2>1
<1>6. \A i \in DOMAIN u : u[i] \in Elems(s) \union Elems(t)
  <2> SUFFICES ASSUME NEW i \in 1 .. Len(s) + Len(t)
               PROVE  u[i] \in Elems(s) \union Elems(t)
      BY <1>3
  <2>1. CASE i <= Len(s)
    <3>1. i \in DOMAIN s
        BY <1>1, <2>1
    <3>2. u[i] = s[i]
        BY <1>4, <3>1
    <3>3. QED BY <3>1, <3>2 DEF Elems
  <2>2. CASE ~(i <= Len(s))
    <3> DEFINE k == i - Len(s)
    <3>1. k \in DOMAIN t
        BY <1>1, <2>2
    <3>2. u[i] = t[k]
        BY <1>2, <2>2
    <3> HIDE DEF k
    <3>3. QED BY <3>1, <3>2 DEF Elems
  <2>3. QED BY <2>1, <2>2
<1>7. Elems(s) \subseteq Elems(u)
    BY <1>4 DEF Elems
<1>8. Elems(t) \subseteq Elems(u)
    BY <1>5 DEF Elems
<1>9. Elems(u) \subseteq Elems(s) \union Elems(t)
  <2> SUFFICES ASSUME NEW x \in Elems(u) PROVE x \in Elems(s) \union Elems(t)
      OBVIOUS
  <2>1. PICK i \in DOMAIN u : x = u[i]
      BY DEF Elems
  <2>2. QED BY <1>6, <2>1
<1>10. QED BY <1>7, <1>8, <1>9 DEF u

Apart(s, t) == s \intersect t = {}

(***************************************************************************)
(* While no list is replaced that had changed, and no fault touches it, a  *)
(* follow-up is in one place at a time: stored, in hand, in the            *)
(* conversation or discarded, and in none before it is put.                *)
(***************************************************************************)
ApartInv ==
    causes \intersect {"race", "error"} = {} =>
        /\ Apart(Elems(queue), Elems(InHand)) /\ Apart(Elems(queue), Elems(transcript))
        /\ Apart(Elems(InHand), Elems(transcript))
        /\ Apart(cleared, Elems(queue) \union Elems(InHand) \union Elems(transcript))
        /\ \A m \in Messages :
               stage[m] \in Pending => m \notin Elems(transcript) \union cleared

(***************************************************************************)
(* What a stop reaction has discarded comes back to neither the list, a    *)
(* drain nor the conversation, except through overlaps and store faults.   *)
(***************************************************************************)
THEOREM DiscardsAreFinal == Spec => []DiscardedIsGone
<1>1. Init => ApartInv
    BY EmptyHoldsNothing DEF Init, ApartInv, Apart, InHand
<1>2. TypeOK /\ ListsInv /\ ApartInv /\ [Next]_vars => ApartInv'
  <2> SUFFICES ASSUME TypeOK, ListsInv, ApartInv, [Next]_vars,
                      causes' \intersect {"race", "error"} = {}
               PROVE  ApartInv'
      BY DEF ApartInv
  <2>a. /\ stage \in [Messages -> SendStages] /\ Elems(<<>>) = {}
        /\ queue \in Seq(Messages) /\ taken \in Seq(Messages) /\ transcript \in Seq(Messages)
        /\ \A s \in Messages : seen[s] \in Seq(Messages)
      BY EmptyHoldsNothing DEF TypeOK
  <2>b. ASSUME causes \subseteq causes',
               UNCHANGED <<queue, transcript, cleared>>, InHand' \in {InHand, <<>>},
               \A m \in Messages : stage'[m] \in Pending => stage[m] \in Pending
        PROVE  ApartInv'
    <3>1. causes \intersect {"race", "error"} = {}
        BY <2>b
    <3>2. Elems(InHand') \subseteq Elems(InHand)
        BY <2>a, <2>b
    <3>3. QED BY <2>b, <3>1, <3>2 DEF ApartInv, Apart
  <2>1. ASSUME NEW m \in Messages, CheckBusy(m) PROVE ApartInv'
    <3>1. \A n \in Messages : stage'[n] \in Pending => stage[n] \in Pending
        BY <2>1, <2>a DEF CheckBusy, Pending
    <3>2. QED BY <2>1, <2>b, <3>1 DEF CheckBusy, drain, InHand
  <2>2. ASSUME NEW m \in Messages, ReadQueue(m) PROVE ApartInv'
    <3>1. \A n \in Messages : stage'[n] \in Pending => stage[n] \in Pending
        BY <2>2, <2>a DEF ReadQueue, Pending
    <3>2. causes \subseteq causes' /\ UNCHANGED <<queue, transcript, cleared>> /\ InHand' = InHand
        BY <2>2 DEF ReadQueue, drain, InHand
    <3>3. QED BY <2>b, <3>1, <3>2
  <2>3. ASSUME NEW m \in Messages, PutQueue(m) PROVE ApartInv'
    <3> DEFINE list == Newest(Append(seen[m], m))
    <3>1. Elems(list) \subseteq Elems(seen[m]) \union {m}
      <4> DEFINE long == Append(seen[m], m)
      <4>1. long \in Seq(Messages) /\ Elems(long) = Elems(seen[m]) \union {m}
          BY <2>a, AppendFacts
      <4> HIDE DEF long
      <4>2. Elems(Newest(long)) \subseteq Elems(long)
          BY <4>1, NewestFacts
      <4>3. QED BY <4>1, <4>2 DEF long
    <3>2. stage[m] \in Pending /\ UNCHANGED <<transcript, cleared>> /\ InHand' = InHand
        BY <2>3 DEF PutQueue, drain, InHand, Pending
    <3>3. \A n \in Messages : stage'[n] \in Pending => stage[n] \in Pending /\ n # m
        BY <2>3, <2>a DEF PutQueue, Pending
    <3>4. \/ queue' = list /\ queue = seen[m] /\ causes \subseteq causes'
          \/ UNCHANGED <<queue, causes>>
      <4> HIDE DEF list
      <4>1. \/ /\ queue' = list
               /\ causes' = causes \union When(queue # seen[m], "race")
                                   \union When(Len(seen[m]) >= MaxQueued, "cap")
            \/ UNCHANGED <<queue, causes>>
            \/ causes' = causes \union {"error"}
          BY <2>3 DEF PutQueue, list
      <4>2. QED BY <4>1 DEF When
    <3> HIDE DEF list
    <3>5. CASE UNCHANGED <<queue, causes>>
        BY <2>b, <3>2, <3>3, <3>5
    <3>6. CASE queue' = list /\ queue = seen[m] /\ causes \subseteq causes'
      <4>1. causes \intersect {"race", "error"} = {}
          BY <3>6
      <4>2. Elems(queue') \subseteq Elems(queue) \union {m}
          BY <3>1, <3>6
      <4>3. m \notin Elems(transcript) \union cleared
          BY <3>2, <4>1 DEF ApartInv
      <4>4. m \notin Elems(InHand)
          BY <2>a, <3>2 DEF ListsInv, InHand
      <4>5. QED BY <3>2, <3>3, <4>1, <4>2, <4>3, <4>4 DEF ApartInv, Apart
    <3>7. QED BY <3>4, <3>5, <3>6
  <2>4. CASE StartRun
      BY <2>4, <2>b DEF StartRun, sends, InHand
  <2>5. CASE GetQueue
    <3>1. /\ causes \subseteq causes' /\ UNCHANGED <<queue, transcript, cleared, stage>>
          /\ InHand' = InHand
        BY <2>5 DEF GetQueue, sends, InHand
    <3>2. QED BY <2>b, <3>1
  <2>6. CASE DeleteQueue
    <3>1. UNCHANGED <<stage, transcript, cleared>> /\ InHand = <<>> /\ causes \subseteq causes'
        BY <2>6 DEF DeleteQueue, sends, InHand
    <3>2. \/ UNCHANGED queue /\ InHand' = <<>>
          \/ queue' = <<>> /\ InHand' = queue
      <4>1. CASE /\ queue' = <<>> /\ agent' = "deleted" /\ UNCHANGED taken
                 /\ causes' = causes \union When(queue # taken, "race")
        <5>1. queue = taken
            BY <4>1 DEF When
        <5>2. QED BY <4>1, <5>1 DEF InHand
      <4>2. CASE /\ agent' = "model"
                 /\ \/ UNCHANGED queue /\ causes' = causes \union {"unread"}
                    \/ queue' = <<>> /\ causes' = causes \union {"error"}
          BY <4>2 DEF InHand
      <4>3. QED BY <2>6, <4>1, <4>2 DEF DeleteQueue
    <3>3. CASE UNCHANGED queue /\ InHand' = <<>>
        BY <2>b, <3>1, <3>3
    <3>4. CASE queue' = <<>> /\ InHand' = queue
      <4>1. causes \intersect {"race", "error"} = {}
          BY <3>1
      <4>2. Elems(queue') = {} /\ Elems(InHand') = Elems(queue)
          BY <2>a, <3>4
      <4>3. QED BY <3>1, <4>1, <4>2 DEF ApartInv, Apart
    <3>5. QED BY <3>2, <3>3, <3>4
  <2>7. CASE Inject
    <3>1. /\ InHand = taken /\ InHand' = <<>> /\ UNCHANGED <<stage, queue, cleared>>
          /\ causes \subseteq causes'
        BY <2>7 DEF Inject, sends, InHand
    <3>2. /\ Elems(transcript') \subseteq Elems(transcript) \union Elems(InHand)
          /\ Elems(InHand') = {}
      <4>1. CASE transcript' = transcript \o taken
          BY <2>a, <3>1, <4>1, JoinedElems
      <4>2. CASE transcript' = transcript
          BY <2>a, <3>1, <4>2
      <4>3. QED BY <2>7, <4>1, <4>2 DEF Inject
    <3>3. \A m \in Messages : stage[m] \in Pending => m \notin Elems(InHand)
        BY <3>1 DEF ListsInv
    <3>4. QED BY <3>1, <3>2, <3>3 DEF ApartInv, Apart
  <2>8. CASE RunEnds
      BY <2>8, <2>b DEF RunEnds, sends, InHand
  <2>9. CASE Interrupted
    <3>1. causes \subseteq causes' /\ UNCHANGED <<stage, queue, transcript, cleared>> /\ InHand' = <<>>
        BY <2>9 DEF Interrupted, sends, InHand
    <3>2. QED BY <2>b, <3>1
  <2>10. CASE StopCancel
      BY <2>10, <2>b DEF StopCancel, sends, drain, InHand
  <2>11. CASE StopClear
    <3>1. UNCHANGED <<stage, transcript>> /\ InHand' = InHand /\ causes \subseteq causes'
        BY <2>11 DEF StopClear, sends, drain, InHand
    <3>2. CASE queue' = <<>> /\ cleared' = cleared \union Elems(queue)
      <4>1. Elems(queue') = {}
          BY <2>a, <3>2
      <4>2. \A m \in Messages : stage[m] \in Pending => m \notin Elems(queue)
          BY DEF ListsInv
      <4>3. QED BY <3>1, <3>2, <4>1, <4>2 DEF ApartInv, Apart
    <3>3. CASE UNCHANGED <<queue, cleared>>
        BY <2>b, <3>1, <3>3
    <3>4. QED BY <2>11, <3>2, <3>3 DEF StopClear
  <2>12. CASE StopSummary
    <3>1. /\ causes \subseteq causes' /\ UNCHANGED <<stage, queue, transcript, cleared>>
          /\ InHand' \in {InHand, <<>>}
        BY <2>12 DEF StopSummary, sends, InHand
    <3>2. QED BY <2>b, <3>1
  <2>13. CASE UNCHANGED vars
      BY <2>13, <2>b DEF vars, sends, drain, InHand
  <2>14. QED
      BY <2>1, <2>2, <2>3, <2>4, <2>5, <2>6, <2>7, <2>8, <2>9, <2>10, <2>11, <2>12, <2>13
      DEF Next, Send, AgentStep, Stop
<1>3. ApartInv => DiscardedIsGone
    BY DEF ApartInv, Apart, DiscardedIsGone
<1>4. QED BY <1>1, <1>2, <1>3, QueueTypes, ListsHaveNoRepeats, PTL DEF Spec
=============================================================================
