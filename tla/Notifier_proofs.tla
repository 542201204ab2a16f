--------------------------- MODULE Notifier_proofs ---------------------------
(***************************************************************************)
(* Proofs about the outbox and the notification service behind it, for any *)
(* number of events, dispatchers, users and requests.                      *)
(*                                                                         *)
(* A PUBLISHED mark travels: a dispatcher keeps it in the copy it will     *)
(* save, a lost save hands it to the catch branch.  GoodRow and GoodTask   *)
(* say that wherever the mark is, the event is in the topic.               *)
(*                                                                         *)
(* Without faults the lease is a lock (Solo): whoever has a task on an     *)
(* event holds its live lease alone, so the event is sent once; and the    *)
(* consumer (Once) counts each copy of the topic once.                     *)
(***************************************************************************)
EXTENDS Notifier, TLAPS

Tasks == [pc : TaskPC, copy : Row \cup {NoRow}]

\* A stored row r whose event has n copies in the topic.
GoodRow(r, n) ==
    /\ r.status = "PENDING" => r.attempts <= MaxRetries
    /\ r.status = "PUBLISHED" => n > 0

\* A task t on an event with n copies in the topic.
GoodTask(t, n) ==
    /\ t.pc = "claimed" => t.copy = NoRow
    /\ t.pc = "sending" => t.copy \in Row /\ t.copy.status = "PENDING"
    /\ t.pc = "saving" =>
        t.copy \in Row /\ t.copy.status = "PUBLISHED" /\ t.copy.attempts <= MaxRetries /\ n > 0
    /\ t.pc = "resaving" => t.copy \in Row
    /\ GoodRow(t.copy, n)

PublishInv ==
    /\ OutboxTypeOK
    /\ \A e \in Events : GoodRow(evt[e], topic[e])
    /\ \A d \in Dispatchers, e \in Events : GoodTask(task[d][e], topic[e])

-----------------------------------------------------------------------------
\* Setting one task of one dispatcher leaves every other task alone.
LEMMA OneTask ==
    ASSUME OutboxTypeOK, NEW d \in Dispatchers, NEW e \in Events, NEW t \in Tasks,
           task' = [task EXCEPT ![d][e] = t]
    PROVE  /\ task' \in [Dispatchers -> [Events -> Tasks]]
           /\ \A f \in Dispatchers, g \in Events :
                task'[f][g] = IF f = d /\ g = e THEN t ELSE task[f][g]
<1> DEFINE new == [task[d] EXCEPT ![e] = t]
<1>1. task \in [Dispatchers -> [Events -> Tasks]]
  BY DEF OutboxTypeOK, Tasks
<1>2. new \in [Events -> Tasks] /\ \A g \in Events : new[g] = IF g = e THEN t ELSE task[d][g]
  BY <1>1
<1>3. task' = [task EXCEPT ![d] = new]
  OBVIOUS
<1> HIDE DEF new
<1> QED
  BY <1>1, <1>2, <1>3

\* Rows are not the absent row.
LEMMA RowFacts ==
    /\ NoRow.status = "ABSENT" /\ NoRow \notin Row
    /\ NoTask \in Tasks /\ NoTask.pc = "none" /\ NoTask.copy = NoRow
<1>1. NoRow.status = "ABSENT" /\ \A r \in Row : r.status # "ABSENT"
  BY DEF NoRow, Row
<1> QED
  BY <1>1 DEF NoTask, Tasks, TaskPC

\* What the two branches of publishClaimedEvent make of the copy.
LEMMA CopyFacts ==
    ASSUME NEW r \in Row, r.attempts <= MaxRetries
    PROVE  /\ Published(r) \in Row /\ Published(r).status = "PUBLISHED"
           /\ Published(r).attempts = r.attempts
           /\ Retried(r) \in Row
           /\ Retried(r).status \in {r.status, "FAILED"}
           /\ Retried(r).status # "FAILED" => Retried(r).attempts <= MaxRetries
           /\ Retried(r).status = "PENDING" => Retried(r).attempts <= MaxRetries
<1>1. r.attempts \in Nat /\ MaxRetries \in Nat
  BY OutboxAssumption DEF Row
<1>2. Published(r) \in Row /\ Published(r).status = "PUBLISHED" /\ Published(r).attempts = r.attempts
  BY DEF Published, Row
<1>3. r.attempts + 1 \in 0..MaxRetries + 1
  BY <1>1
<1>4. /\ Retried(r) \in Row /\ Retried(r).attempts = r.attempts + 1
      /\ Retried(r).status = IF r.attempts + 1 > MaxRetries THEN "FAILED" ELSE r.status
  <2> DEFINE n == r.attempts + 1
             status == IF n > MaxRetries THEN "FAILED" ELSE r.status
             due == n > MaxRetries
  <2>1. due \in BOOLEAN /\ status \in {"PENDING", "PUBLISHED", "FAILED"} /\ n \in 0..MaxRetries + 1
    BY <1>3 DEF Row
  <2>2. Retried(r) = [r EXCEPT !.attempts = n, !.lease = "null", !.status = status, !.due = due]
    BY Zenon DEF Retried
  <2> HIDE DEF n, status, due
  <2>3. Retried(r) \in Row /\ Retried(r).attempts = n /\ Retried(r).status = status
    BY <2>1, <2>2 DEF Row
  <2> QED
    BY <2>3 DEF n, status
<1> QED
  BY <1>1, <1>2, <1>4

\* The empty outbox.
LEMMA InitPublish == Init => PublishInv
<1> SUFFICES ASSUME Init PROVE PublishInv
  OBVIOUS
<1>1. OutboxTypeOK
  BY RowFacts, OutboxAssumption DEF Init, OutboxInit, OutboxTypeOK, Tasks
<1>2. \A e \in Events : GoodRow(evt[e], topic[e])
  BY RowFacts DEF Init, OutboxInit, GoodRow
<1>3. \A d \in Dispatchers, e \in Events : GoodTask(task[d][e], topic[e])
  BY RowFacts DEF Init, OutboxInit, GoodRow, GoodTask
<1> QED
  BY <1>1, <1>2, <1>3 DEF PublishInv

\* The topic only grows, so what holds of a row or a task keeps holding.
LEMMA GoodStays ==
    ASSUME NEW r, NEW t, NEW n \in Nat, NEW k \in Nat, n <= k
    PROVE  /\ GoodRow(r, n) => GoodRow(r, k)
           /\ GoodTask(t, n) => GoodTask(t, k)
BY DEF GoodRow, GoodTask

-----------------------------------------------------------------------------
\* A step of one task: the rows and the topic fit the invariant, and so does
\* what the task becomes.
LEMMA TaskStepPublish ==
    ASSUME PublishInv, NEW d \in Dispatchers, NEW e \in Events, NEW t \in Tasks,
           task' = [task EXCEPT ![d][e] = t],
           evt' \in [Events -> Row \cup {NoRow}], faults' \in 0..MaxFaults,
           topic' \in [Events -> Nat], \A g \in Events : topic[g] <= topic'[g],
           \A g \in Events : GoodRow(evt'[g], topic'[g]), GoodTask(t, topic'[e])
    PROVE  PublishInv'
<1>1. /\ task' \in [Dispatchers -> [Events -> Tasks]]
      /\ \A f \in Dispatchers, g \in Events :
           task'[f][g] = IF f = d /\ g = e THEN t ELSE task[f][g]
  BY OneTask, ZenonT(60) DEF PublishInv
<1>2. OutboxTypeOK'
  BY <1>1 DEF OutboxTypeOK, Tasks
<1>3. ASSUME NEW f \in Dispatchers, NEW g \in Events PROVE GoodTask(task'[f][g], topic'[g])
  <2>1. topic[g] \in Nat /\ topic'[g] \in Nat /\ topic[g] <= topic'[g] /\ GoodTask(task[f][g], topic[g])
    BY DEF PublishInv, OutboxTypeOK
  <2>2. GoodTask(task[f][g], topic'[g])
    BY <2>1, GoodStays
  <2> QED
    BY <1>1, <2>2
<1> QED
  BY <1>2, <1>3 DEF PublishInv

\* The type facts that every task step starts from.
LEMMA TaskFacts ==
    ASSUME PublishInv, NEW d \in Dispatchers, NEW e \in Events
    PROVE  /\ task[d][e] \in Tasks /\ GoodTask(task[d][e], topic[e])
           /\ evt[e] \in Row \cup {NoRow} /\ GoodRow(evt[e], topic[e])
           /\ topic[e] \in Nat /\ faults \in 0..MaxFaults
           /\ Fault => faults' \in 0..MaxFaults
           /\ NoFault => faults' \in 0..MaxFaults
<1>1. task[d][e] \in Tasks /\ evt[e] \in Row \cup {NoRow} /\ topic[e] \in Nat /\ faults \in 0..MaxFaults
  BY DEF PublishInv, OutboxTypeOK, Tasks
<1> QED
  BY <1>1, OutboxAssumption DEF PublishInv, Fault, NoFault

\* A dispatcher reads a claimed row.
LEMMA LoadPublish ==
    ASSUME PublishInv, NEW d \in Dispatchers, NEW e \in Events, Load(d, e)
    PROVE  PublishInv'
<1> USE TaskFacts
<1>0. /\ evt' = evt /\ topic' = topic /\ faults' \in 0..MaxFaults
      /\ evt' \in [Events -> Row \cup {NoRow}] /\ topic' \in [Events -> Nat]
      /\ \A g \in Events : GoodRow(evt'[g], topic'[g]) /\ topic[g] <= topic'[g]
  BY DEF Load, PublishInv, OutboxTypeOK
<1>1. CASE evt[e].status = "PENDING" /\ evt[e].lease = "live"
  <2> DEFINE t == [pc |-> "sending", copy |-> evt[e]]
  <2>1. task' = [task EXCEPT ![d][e] = t]
    BY <1>1 DEF Load, Work
  <2>2. evt[e] \in Row
    BY <1>1, RowFacts
  <2>3. t \in Tasks /\ t.pc = "sending" /\ t.copy = evt[e]
    BY <2>2 DEF Tasks, TaskPC
  <2> HIDE DEF t
  <2>4. GoodTask(t, topic'[e])
    BY <1>0, <1>1, <2>2, <2>3 DEF GoodTask
  <2> QED
    BY <1>0, <2>1, <2>3, <2>4, TaskStepPublish
<1>2. CASE ~(evt[e].status = "PENDING" /\ evt[e].lease = "live")
  <2>1. task' = [task EXCEPT ![d][e] = NoTask]
    BY <1>2 DEF Load, Drop
  <2>2. GoodTask(NoTask, topic'[e])
    BY RowFacts DEF GoodTask, GoodRow
  <2> QED
    BY <1>0, <2>1, <2>2, RowFacts, TaskStepPublish
<1> QED
  BY <1>1, <1>2

\* One more copy of e in the topic, or none.
LEMMA TopicGrows ==
    ASSUME PublishInv, NEW e \in Events,
           topic' = topic \/ topic' = [topic EXCEPT ![e] = @ + 1]
    PROVE  /\ topic' \in [Events -> Nat]
           /\ \A g \in Events : topic[g] <= topic'[g]
           /\ \A g \in Events : GoodRow(evt[g], topic'[g])
           /\ topic' = [topic EXCEPT ![e] = @ + 1] => topic'[e] = topic[e] + 1
<1>1. topic \in [Events -> Nat]
  BY DEF PublishInv, OutboxTypeOK
<1>2. topic' \in [Events -> Nat] /\ \A g \in Events : topic[g] <= topic'[g]
  BY <1>1
<1>3. \A g \in Events : GoodRow(evt[g], topic'[g])
  BY <1>1, <1>2, GoodStays DEF PublishInv
<1> QED
  BY <1>1, <1>2, <1>3

\* A send, whether the dispatcher hears of it or not.
LEMMA SendPublish ==
    ASSUME PublishInv, NEW d \in Dispatchers, NEW e \in Events, Send(d, e) \/ SendFails(d, e)
    PROVE  PublishInv'
<1> DEFINE copy == task[d][e].copy
           t == [pc |-> "saving", copy |-> Published(copy)]
           s == [pc |-> "resaving", copy |-> Retried(copy)]
<1>1. /\ copy \in Row /\ copy.status = "PENDING" /\ copy.attempts <= MaxRetries
      /\ evt' = evt /\ topic[e] \in Nat /\ faults' \in 0..MaxFaults
      /\ evt' \in [Events -> Row \cup {NoRow}]
  <2>1. GoodTask(task[d][e], topic[e]) /\ task[d][e].pc = "sending" /\ topic[e] \in Nat
    BY TaskFacts DEF Send, SendFails
  <2>2. faults' \in 0..MaxFaults
    BY TaskFacts DEF Send, SendFails
  <2> QED
    BY <2>1, <2>2 DEF Send, SendFails, GoodTask, GoodRow, PublishInv, OutboxTypeOK
<1>2. /\ Published(copy) \in Row /\ Published(copy).status = "PUBLISHED"
      /\ Published(copy).attempts <= MaxRetries
      /\ Retried(copy) \in Row /\ Retried(copy).status \in {"PENDING", "FAILED"}
      /\ Retried(copy).status = "PENDING" => Retried(copy).attempts <= MaxRetries
  BY <1>1, CopyFacts
<1>3. topic' = topic \/ topic' = [topic EXCEPT ![e] = @ + 1]
  BY DEF Send, SendFails
<1>4. /\ topic' \in [Events -> Nat]
      /\ \A g \in Events : topic[g] <= topic'[g] /\ GoodRow(evt'[g], topic'[g])
      /\ topic' = [topic EXCEPT ![e] = @ + 1] => topic'[e] = topic[e] + 1
  BY <1>1, <1>3, TopicGrows
<1>5. /\ t \in Tasks /\ t.pc = "saving" /\ t.copy = Published(copy)
      /\ s \in Tasks /\ s.pc = "resaving" /\ s.copy = Retried(copy)
  BY <1>2 DEF Tasks, TaskPC
<1> HIDE DEF t, s
<1>6. CASE Send(d, e)
  <2>1. task' = [task EXCEPT ![d][e] = t] /\ topic'[e] > 0
    BY <1>1, <1>4, <1>6 DEF Send, Work, t
  <2>2. GoodTask(t, topic'[e])
    BY <1>2, <1>5, <2>1 DEF GoodTask, GoodRow
  <2> QED
    BY <1>1, <1>4, <1>5, <2>1, <2>2, TaskStepPublish
<1>7. CASE SendFails(d, e)
  <2>1. task' = [task EXCEPT ![d][e] = s]
    BY <1>7 DEF SendFails, Work, s
  <2>2. GoodTask(s, topic'[e])
    BY <1>2, <1>5 DEF GoodTask, GoodRow
  <2> QED
    BY <1>1, <1>4, <1>5, <2>1, <2>2, TaskStepPublish
<1> QED
  BY <1>6, <1>7

\* What a save marks as published was sent.
LEMMA SavePublish ==
    ASSUME PublishInv, NEW d \in Dispatchers, NEW e \in Events, Save(d, e) \/ SaveFails(d, e)
    PROVE  PublishInv'
<1> DEFINE copy == task[d][e].copy
           s == [pc |-> "resaving", copy |-> Retried(copy)]
<1>1. /\ GoodTask(task[d][e], topic[e]) /\ topic' = topic /\ faults' \in 0..MaxFaults
      /\ task[d][e].pc \in {"saving", "resaving"}
  BY TaskFacts DEF Save, SaveFails
<1>2. copy \in Row /\ GoodRow(copy, topic[e])
  BY <1>1 DEF GoodTask
<1>3. /\ evt \in [Events -> Row \cup {NoRow}] /\ topic' \in [Events -> Nat]
      /\ \A g \in Events : topic[g] <= topic'[g] /\ GoodRow(evt[g], topic'[g])
  BY <1>1 DEF PublishInv, OutboxTypeOK
<1>4. GoodTask(NoTask, topic'[e]) /\ NoTask \in Tasks
  BY RowFacts DEF GoodTask, GoodRow
<1>5. CASE Save(d, e)
  <2>1. evt' = [evt EXCEPT ![e] = copy] /\ task' = [task EXCEPT ![d][e] = NoTask]
    BY <1>5 DEF Save, Drop
  <2>2. /\ evt' \in [Events -> Row \cup {NoRow}]
        /\ \A g \in Events : GoodRow(evt'[g], topic'[g])
    BY <1>1, <1>2, <1>3, <2>1
  <2> QED
    BY <1>1, <1>3, <1>4, <2>1, <2>2, TaskStepPublish
<1>6. CASE SaveFails(d, e) /\ task[d][e].pc = "saving"
  <2>1. task' = [task EXCEPT ![d][e] = s] /\ evt' = evt
    BY <1>6 DEF SaveFails, Work
  <2>2. copy.status = "PUBLISHED" /\ copy.attempts <= MaxRetries /\ topic[e] > 0
    BY <1>1, <1>6 DEF GoodTask
  <2>3. /\ Retried(copy) \in Row
        /\ Retried(copy).status = "PENDING" => Retried(copy).attempts <= MaxRetries
    BY <1>2, <2>2, CopyFacts
  <2>4. s \in Tasks /\ s.pc = "resaving" /\ s.copy = Retried(copy)
    BY <2>3 DEF Tasks, TaskPC
  <2> HIDE DEF s
  <2>5. GoodTask(s, topic'[e])
    BY <1>1, <2>2, <2>3, <2>4 DEF GoodTask, GoodRow
  <2> QED
    BY <1>1, <1>3, <2>1, <2>4, <2>5, TaskStepPublish
<1>7. CASE SaveFails(d, e) /\ task[d][e].pc = "resaving"
  <2>1. task' = [task EXCEPT ![d][e] = NoTask] /\ evt' = evt
    BY <1>7 DEF SaveFails, Drop
  <2> QED
    BY <1>1, <1>3, <1>4, <2>1, TaskStepPublish
<1> QED
  BY <1>1, <1>5, <1>6, <1>7

\* Rows change in their lease, their due time or from absent to pending.
LEMMA RowsPublish ==
    ASSUME PublishInv, NEW e \in Events, Enqueue(e) \/ LeaseExpires(e) \/ BackoffOver(e)
    PROVE  PublishInv'
<1>1. task' = task /\ topic' = topic
  BY DEF Enqueue, LeaseExpires, BackoffOver
<1>2. evt[e] \in Row \cup {NoRow} /\ GoodRow(evt[e], topic[e])
  BY DEF PublishInv, OutboxTypeOK
<1>3. evt'[e] \in Row /\ GoodRow(evt'[e], topic[e]) /\ evt' = [evt EXCEPT ![e] = evt'[e]]
  <2>1. CASE Enqueue(e)
    <3> DEFINE r == [status |-> "PENDING", attempts |-> 0, lease |-> "null", due |-> TRUE]
    <3>1. evt' = [evt EXCEPT ![e] = r]
      BY <2>1 DEF Enqueue
    <3>2. 0 \in 0..MaxRetries + 1 /\ 0 <= MaxRetries
      BY OutboxAssumption
    <3>3. r \in Row /\ GoodRow(r, topic[e])
      BY <3>2 DEF Row, GoodRow
    <3> HIDE DEF r
    <3> QED
      BY <3>1, <3>3 DEF PublishInv, OutboxTypeOK
  <2>2. CASE LeaseExpires(e)
    BY <2>2, <1>2, RowFacts DEF LeaseExpires, PublishInv, OutboxTypeOK, Row, GoodRow
  <2>3. CASE BackoffOver(e)
    BY <2>3, <1>2, RowFacts DEF BackoffOver, PublishInv, OutboxTypeOK, Row, GoodRow
  <2> QED
    BY <2>1, <2>2, <2>3
<1>4. faults' \in 0..MaxFaults
  BY OutboxAssumption DEF Enqueue, LeaseExpires, BackoffOver, Fault, NoFault, PublishInv, OutboxTypeOK
<1>5. OutboxTypeOK'
  BY <1>1, <1>3, <1>4 DEF PublishInv, OutboxTypeOK
<1>6. \A g \in Events : GoodRow(evt'[g], topic'[g])
  BY <1>1, <1>3 DEF PublishInv, OutboxTypeOK
<1> QED
  BY <1>1, <1>5, <1>6 DEF PublishInv

\* Claiming a batch, and a crash: all tasks of a dispatcher change at once.
LEMMA BatchPublish ==
    ASSUME PublishInv, NEW d \in Dispatchers, ClaimDueEvents(d) \/ Crash(d)
    PROVE  PublishInv'
<1>1. PICK S \in SUBSET Events :
        /\ evt' = Leased(S) /\ \A e \in S : Due(e)
        /\ task' = [task EXCEPT ![d] = [e \in Events |->
                      IF e \in S THEN [NoTask EXCEPT !.pc = "claimed"] ELSE NoTask]]
  <2>1. CASE ClaimDueEvents(d)
    BY <2>1 DEF ClaimDueEvents
  <2>2. CASE Crash(d)
    <3>1. Leased({}) = evt
      BY DEF Leased, PublishInv, OutboxTypeOK
    <3>2. task' = [task EXCEPT ![d] = [e \in Events |->
                      IF e \in {} THEN [NoTask EXCEPT !.pc = "claimed"] ELSE NoTask]]
      BY <2>2 DEF Crash
    <3>3. evt' = Leased({}) /\ {} \in SUBSET Events /\ \A e \in {} : Due(e)
      BY <2>2, <3>1 DEF Crash
    <3> QED
      BY <3>2, <3>3, Zenon
  <2> QED
    BY <2>1, <2>2
<1>2. topic' = topic /\ faults' \in 0..MaxFaults
  BY OutboxAssumption DEF ClaimDueEvents, Crash, Fault, NoFault, PublishInv, OutboxTypeOK
<1> DEFINE claimed == [NoTask EXCEPT !.pc = "claimed"]
           new == [e \in Events |-> IF e \in S THEN claimed ELSE NoTask]
<1>3. claimed \in Tasks /\ claimed.pc = "claimed" /\ claimed.copy = NoRow
  BY DEF NoTask, Tasks, TaskPC
<1>4. task' = [task EXCEPT ![d] = new]
  BY <1>1
<1>5. new \in [Events -> Tasks]
  BY <1>3, RowFacts
<1>6. task' \in [Dispatchers -> [Events -> Tasks]]
  BY <1>4, <1>5 DEF PublishInv, OutboxTypeOK, Tasks
<1>7. ASSUME NEW f \in Dispatchers, NEW e \in Events PROVE GoodTask(task'[f][e], topic'[e])
  <2>1. task'[f][e] \in {task[f][e], claimed, NoTask}
    BY <1>4 DEF PublishInv, OutboxTypeOK
  <2>2. GoodTask(task[f][e], topic'[e])
    BY <1>2 DEF PublishInv
  <2>3. GoodTask(claimed, topic'[e]) /\ GoodTask(NoTask, topic'[e])
    BY <1>3, RowFacts DEF GoodTask, GoodRow
  <2> HIDE DEF claimed
  <2> QED
    BY <2>1, <2>2, <2>3
<1>8. ASSUME NEW e \in Events PROVE evt'[e] \in Row \cup {NoRow} /\ GoodRow(evt'[e], topic'[e])
  <2>1. evt[e] \in Row \cup {NoRow} /\ GoodRow(evt[e], topic[e])
    BY DEF PublishInv, OutboxTypeOK
  <2>2. CASE e \in S
    <3>1. evt[e] \in Row /\ evt'[e] = [evt[e] EXCEPT !.lease = "live"]
      BY <1>1, <2>1, <2>2 DEF Due, Leased
    <3> QED
      BY <1>2, <2>1, <3>1 DEF Row, GoodRow
  <2>3. CASE e \notin S
    BY <1>1, <1>2, <2>1, <2>3 DEF Leased
  <2> QED
    BY <2>2, <2>3
<1>9. evt' \in [Events -> Row \cup {NoRow}]
  BY <1>1, <1>8 DEF Leased
<1>10. OutboxTypeOK'
  BY <1>2, <1>6, <1>9 DEF PublishInv, OutboxTypeOK, Tasks
<1> QED
  BY <1>7, <1>8, <1>10 DEF PublishInv

\* The notification service touches none of this but the count of faults.
LEMMA ConsumerPublish ==
    ASSUME PublishInv, UNCHANGED <<evt, task, topic>>, faults' \in 0..MaxFaults
    PROVE  PublishInv'
BY DEF PublishInv, OutboxTypeOK

\* Either the outbox takes a step, or the rows, the tasks and the topic stay.
LEMMA PublishStep == PublishInv /\ [Next]_vars => PublishInv'
<1> SUFFICES ASSUME PublishInv, [Next]_vars PROVE PublishInv'
  OBVIOUS
<1>1. CASE OutboxNext
  BY <1>1, LoadPublish, SendPublish, SavePublish, RowsPublish, BatchPublish
  DEF OutboxNext, TaskStep
<1>2. CASE ConsumerStep \/ (\E r \in Requests : RequestStep(r)) \/ UNCHANGED vars
  <2>1. UNCHANGED outboxVars
    BY <1>2 DEF ConsumerStep, Subscribe, Deliver, SaveNotifications, MailSettings, MailInsert,
                MailSend, CommitOffset, RequestStep, RequestReads, RequestInserts, RequestSaves, vars
  <2> QED
    BY <2>1, ConsumerPublish, SMTT(60) DEF outboxVars, PublishInv, OutboxTypeOK
<1>3. CASE ConsumerStops \/ \E m \in handling : HandlerFails(m)
  <2>1. UNCHANGED <<evt, task, topic>> /\ faults' \in 0..MaxFaults
    BY <1>3, OutboxAssumption DEF HandlerFails, ConsumerStops, Fault, PublishInv, OutboxTypeOK
  <2> QED
    BY <2>1, ConsumerPublish
<1> QED
  BY <1>1, <1>2, <1>3 DEF Next

\* In every behaviour an event marked PUBLISHED is in the topic, through any
\* number of crashes, lost saves, expired leases and stale overwrites.
THEOREM PublishedWasSent == Spec => []PublishedIsInTopic
<1>1. PublishInv => PublishedIsInTopic
  BY DEF PublishInv, PublishedIsInTopic, GoodRow
<1> QED
  BY <1>1, InitPublish, PublishStep, PTL DEF Spec

-----------------------------------------------------------------------------
(* The lease as a lock, while no fault has happened.                       *)

\* Whoever has a task on e holds its live lease, alone; e is in the topic once
\* from the send on.
Solo(e) ==
    /\ topic[e] <= 1
    /\ topic[e] = 1 /\ evt[e].status # "PUBLISHED" =>
        \E d \in Dispatchers : task[d][e].pc = "saving"
    /\ \A d \in Dispatchers : task[d][e] # NoTask =>
        /\ evt[e].status = "PENDING" /\ evt[e].lease = "live"
        /\ topic[e] = IF task[d][e].pc = "saving" THEN 1 ELSE 0
        /\ task[d][e].pc = "resaving" => task[d][e].copy.status # "PUBLISHED"
    /\ \A d, f \in Dispatchers :
        task[d][e] # NoTask /\ task[f][e] # NoTask => d = f

Leases == faults = 0 => \A e \in Events : Solo(e)

\* What holds of e holds when neither its row's state nor its tasks change.
LEMMA SoloStays ==
    ASSUME NEW e \in Events, Solo(e), topic'[e] = topic[e],
           evt'[e].status = evt[e].status,
           evt'[e].lease = evt[e].lease \/ \A d \in Dispatchers : task[d][e] = NoTask,
           \A d \in Dispatchers : task'[d][e] = task[d][e]
    PROVE  Solo(e)'
BY DEF Solo

\* A task becomes NoTask or another one; the others of the event are none.
LEMMA TasksAfter ==
    ASSUME PublishInv, NEW d \in Dispatchers, NEW e \in Events, NEW t \in Tasks,
           task' = [task EXCEPT ![d][e] = t], task[d][e] # NoTask, Solo(e)
    PROVE  /\ task'[d][e] = t
           /\ \A f \in Dispatchers : f # d => task[f][e] = NoTask /\ task'[f][e] = NoTask
           /\ \A f \in Dispatchers, g \in Events : g # e => task'[f][g] = task[f][g]
           /\ task[d][e].pc = "saving" \/ topic[e] = 0
<1>1. \A f \in Dispatchers, g \in Events :
         task'[f][g] = IF f = d /\ g = e THEN t ELSE task[f][g]
  BY OneTask, ZenonT(60) DEF PublishInv
<1> QED
  BY <1>1 DEF Solo

\* A step of a task that works on alone.
LEMMA TaskStepSolo ==
    ASSUME PublishInv, NEW d \in Dispatchers, NEW e \in Events,
           TaskStep(d, e), NoFault, \A g \in Events : Solo(g), NEW x \in Events
    PROVE  Solo(x)'
<1> DEFINE old == task[d][e]
           copy == task[d][e].copy
<1>1. /\ old.pc # "none" /\ old # NoTask /\ GoodTask(old, topic[e]) /\ old \in Tasks
      /\ GoodRow(evt[e], topic[e]) /\ evt[e] \in Row \cup {NoRow} /\ topic[e] \in Nat
  <2>1. old.pc # "none"
    BY DEF TaskStep, Load, Send, SendFails, Save
  <2> QED
    BY <2>1, TaskFacts, RowFacts
<1>2. /\ evt[e].status = "PENDING" /\ evt[e].lease = "live"
      /\ topic[e] = IF old.pc = "saving" THEN 1 ELSE 0
      /\ old.pc = "resaving" => copy.status # "PUBLISHED"
  BY <1>1 DEF Solo
<1>3. ASSUME NEW t \in Tasks, task' = [task EXCEPT ![d][e] = t],
             \A g \in Events : g # e => topic'[g] = topic[g] /\ evt'[g] = evt[g],
             topic'[e] \in {0, 1},
             topic'[e] = 1 => evt'[e].status = "PUBLISHED" \/ t.pc = "saving",
             t # NoTask =>
                /\ evt'[e].status = "PENDING" /\ evt'[e].lease = "live"
                /\ topic'[e] = IF t.pc = "saving" THEN 1 ELSE 0
                /\ t.pc = "resaving" => t.copy.status # "PUBLISHED"
      PROVE  Solo(x)'
  <2>1. /\ task'[d][e] = t
        /\ \A f \in Dispatchers : f # d => task'[f][e] = NoTask
        /\ \A f \in Dispatchers, g \in Events : g # e => task'[f][g] = task[f][g]
    BY <1>1, <1>3, TasksAfter, ZenonT(60)
  <2>2. CASE x = e
    <3>1. topic'[e] <= 1
      BY <1>3
    <3>2. topic'[e] = 1 /\ evt'[e].status # "PUBLISHED" =>
            \E f \in Dispatchers : task'[f][e].pc = "saving"
      BY <1>3, <2>1
    <3>3. ASSUME NEW f \in Dispatchers, task'[f][e] # NoTask
          PROVE  /\ f = d /\ evt'[e].status = "PENDING" /\ evt'[e].lease = "live"
                 /\ topic'[e] = IF task'[f][e].pc = "saving" THEN 1 ELSE 0
                 /\ task'[f][e].pc = "resaving" => task'[f][e].copy.status # "PUBLISHED"
      BY <1>3, <2>1, <3>3
    <3> QED
      BY <2>2, <3>1, <3>2, <3>3 DEF Solo
  <2>3. CASE x # e
    BY <1>3, <2>1, <2>3, SoloStays
  <2> QED
    BY <2>2, <2>3
<1>4. CASE Load(d, e)
  <2> DEFINE t == [pc |-> "sending", copy |-> evt[e]]
  <2>1. task' = [task EXCEPT ![d][e] = t] /\ evt' = evt /\ topic' = topic /\ topic[e] = 0
    BY <1>2, <1>4 DEF Load, Work
  <2>2. t \in Tasks /\ t.pc = "sending"
    BY <1>1 DEF Tasks, TaskPC
  <2> HIDE DEF t
  <2>3. /\ \A g \in Events : g # e => topic'[g] = topic[g] /\ evt'[g] = evt[g]
        /\ evt'[e].status = "PENDING" /\ evt'[e].lease = "live"
        /\ topic'[e] \in {0, 1} /\ topic'[e] # 1
        /\ topic'[e] = IF t.pc = "saving" THEN 1 ELSE 0
    BY <1>2, <2>1, <2>2
  <2> QED
    BY <1>3, <2>1, <2>2, <2>3
<1>5. CASE Send(d, e)
  <2> DEFINE t == [pc |-> "saving", copy |-> Published(copy)]
  <2>1. copy \in Row /\ copy.attempts <= MaxRetries
    BY <1>1, <1>5 DEF Send, GoodTask, GoodRow
  <2>2. t \in Tasks /\ t.pc = "saving"
    BY <2>1, CopyFacts DEF Tasks, TaskPC
  <2>3. task' = [task EXCEPT ![d][e] = t] /\ evt' = evt
    BY <1>5 DEF Send, Work
  <2>4. topic' = [topic EXCEPT ![e] = topic[e] + 1] /\ topic[e] = 0
    BY <1>2, <1>5 DEF Send
  <2>5. topic'[e] = 1 /\ \A g \in Events : g # e => topic'[g] = topic[g]
    BY <2>4 DEF PublishInv, OutboxTypeOK
  <2> HIDE DEF t
  <2> QED
    BY <1>2, <1>3, <2>2, <2>3, <2>5
<1>6. CASE SendFails(d, e)
  <2> DEFINE t == [pc |-> "resaving", copy |-> Retried(copy)]
  <2>1. copy \in Row /\ copy.attempts <= MaxRetries /\ copy.status = "PENDING"
    BY <1>1, <1>6 DEF SendFails, GoodTask, GoodRow
  <2>2. t \in Tasks /\ t.pc = "resaving" /\ t.copy.status # "PUBLISHED"
    BY <2>1, CopyFacts DEF Tasks, TaskPC
  <2>3. task' = [task EXCEPT ![d][e] = t] /\ evt' = evt
    BY <1>6 DEF SendFails, Work
  <2>4. topic' = topic /\ topic[e] = 0
    <3>1. faults \in Nat /\ faults' = faults
      BY DEF PublishInv, OutboxTypeOK, NoFault
    <3> QED
      BY <1>2, <1>6, <3>1 DEF SendFails, Fault
  <2> HIDE DEF t
  <2>5. /\ \A g \in Events : g # e => topic'[g] = topic[g] /\ evt'[g] = evt[g]
        /\ evt'[e].status = "PENDING" /\ evt'[e].lease = "live"
        /\ topic'[e] \in {0, 1} /\ topic'[e] # 1
        /\ topic'[e] = IF t.pc = "saving" THEN 1 ELSE 0
    BY <1>2, <2>2, <2>3, <2>4
  <2> QED
    BY <1>3, <2>2, <2>3, <2>5
<1>7. CASE Save(d, e)
  <2>1. task' = [task EXCEPT ![d][e] = NoTask] /\ evt' = [evt EXCEPT ![e] = copy] /\ topic' = topic
    BY <1>7 DEF Save, Drop
  <2>2. evt'[e] = copy /\ \A g \in Events : g # e => evt'[g] = evt[g]
    BY <2>1 DEF PublishInv, OutboxTypeOK
  <2>3. old.pc = "saving" => copy.status = "PUBLISHED"
    BY <1>1 DEF GoodTask
  <2>4. topic[e] \in {0, 1} /\ (topic[e] = 1 => copy.status = "PUBLISHED")
    BY <1>2, <2>3
  <2> QED
    BY <1>3, <2>1, <2>2, <2>4, RowFacts
<1> QED
  BY <1>4, <1>5, <1>6, <1>7 DEF TaskStep

\* A batch is claimed from rows nobody has a task on.
LEMMA ClaimSolo ==
    ASSUME PublishInv, NEW d \in Dispatchers, ClaimDueEvents(d),
           \A g \in Events : Solo(g), NEW x \in Events
    PROVE  Solo(x)'
<1> DEFINE claimed == [NoTask EXCEPT !.pc = "claimed"]
<1>1. PICK S \in SUBSET Events :
        /\ evt' = Leased(S) /\ \A e \in S : Due(e)
        /\ task' = [task EXCEPT ![d] = [e \in Events |-> IF e \in S THEN claimed ELSE NoTask]]
  BY DEF ClaimDueEvents
<1>2. claimed.pc = "claimed" /\ topic' = topic /\ \A e \in Events : task[d][e] = NoTask
  BY DEF NoTask, ClaimDueEvents
<1> HIDE DEF claimed
<1>3. /\ task'[d][x] = IF x \in S THEN claimed ELSE NoTask
      /\ \A f \in Dispatchers : f # d => task'[f][x] = task[f][x]
  BY <1>1 DEF PublishInv, OutboxTypeOK
<1>4. evt'[x] = IF x \in S THEN [evt[x] EXCEPT !.lease = "live"] ELSE evt[x]
  BY <1>1 DEF Leased
<1>5. CASE x \notin S
  <2>1. \A f \in Dispatchers : task'[f][x] = task[f][x]
    BY <1>2, <1>3, <1>5
  <2> QED
    BY <1>2, <1>4, <1>5, <2>1, SoloStays
<1>6. CASE x \in S
  <2>1. evt[x] \in Row /\ evt[x].status = "PENDING" /\ evt[x].lease # "live"
    BY <1>1, <1>6 DEF Due, PublishInv, OutboxTypeOK
  <2>2. \A f \in Dispatchers : task[f][x] = NoTask
    BY <2>1 DEF Solo
  <2>3. topic[x] # 1 /\ topic[x] <= 1 /\ topic[x] \in Nat
    BY <2>1, <2>2, RowFacts DEF Solo, PublishInv, OutboxTypeOK
  <2>4. topic'[x] = 0
    BY <1>2, <2>3
  <2>5. evt'[x].status = "PENDING" /\ evt'[x].lease = "live"
    BY <1>4, <1>6, <2>1 DEF Row
  <2>6. \A f \in Dispatchers : IF f = d THEN task'[f][x] = claimed ELSE task'[f][x] = NoTask
    BY <1>3, <1>6, <2>2
  <2>7. topic'[x] <= 1 /\ topic'[x] # 1 /\ topic'[x] = IF claimed.pc = "saving" THEN 1 ELSE 0
    BY <1>2, <2>4
  <2> QED
    BY <1>2, <2>5, <2>6, <2>7 DEF Solo
<1> QED
  BY <1>5, <1>6

\* A new row, a lease that runs out under nobody, a backoff that ends.
LEMMA RowsSolo ==
    ASSUME PublishInv, NEW e \in Events, Enqueue(e) \/ LeaseExpires(e) \/ BackoffOver(e),
           NoFault, \A g \in Events : Solo(g), NEW x \in Events
    PROVE  Solo(x)'
<1>1. task' = task /\ topic' = topic
  BY DEF Enqueue, LeaseExpires, BackoffOver
<1>2. evt[e] \in Row \cup {NoRow} /\ faults \in Nat
  BY DEF PublishInv, OutboxTypeOK
<1>3. CASE x # e
  <2>1. evt'[x] = evt[x]
    BY <1>3 DEF Enqueue, LeaseExpires, BackoffOver, PublishInv, OutboxTypeOK
  <2> QED
    BY <1>1, <2>1, SoloStays
<1>4. CASE x = e /\ Enqueue(e)
  <2>1. evt[e] = NoRow /\ evt'[e].status = "PENDING"
    BY <1>4 DEF Enqueue, PublishInv, OutboxTypeOK
  <2>2. \A d \in Dispatchers : task[d][e] = NoTask
    BY <2>1, RowFacts DEF Solo
  <2> QED
    BY <1>1, <1>4, <2>1, <2>2, RowFacts DEF Solo
<1>5. CASE x = e /\ LeaseExpires(e)
  <2>1. evt'[e].status = evt[e].status
    BY <1>2, <1>5 DEF LeaseExpires, PublishInv, OutboxTypeOK, Row
  <2>2. \A d \in Dispatchers : task[d][e] = NoTask
    BY <1>2, <1>5 DEF LeaseExpires, Fault, NoFault
  <2> QED
    BY <1>1, <1>5, <2>1, <2>2, SoloStays
<1>6. CASE x = e /\ BackoffOver(e)
  <2>1. evt'[e].status = evt[e].status /\ evt'[e].lease = evt[e].lease
    BY <1>2, <1>6 DEF BackoffOver, PublishInv, OutboxTypeOK, Row
  <2> QED
    BY <1>1, <1>6, <2>1, SoloStays
<1> QED
  BY <1>3, <1>4, <1>5, <1>6

\* The steps of the outbox without a fault, and the others, which leave the
\* rows, the tasks and the topic alone.
LEMMA OutboxSteps ==
    ASSUME PublishInv, [Next]_vars, faults' = 0
    PROVE  /\ faults = 0
           /\ \/ UNCHANGED outboxVars
              \/ /\ NoFault /\ UNCHANGED notifierVars
                 /\ \/ \E e \in Events : Enqueue(e) \/ LeaseExpires(e) \/ BackoffOver(e)
                    \/ \E d \in Dispatchers :
                         ClaimDueEvents(d) \/ \E e \in Events : TaskStep(d, e)
<1> USE DEF Fault, NoFault
<1>1. faults \in Nat
  BY DEF PublishInv, OutboxTypeOK
<1>2. ~Fault
  BY <1>1
<1>3. CASE OutboxNext /\ UNCHANGED notifierVars
  <2>1. ~(\E d \in Dispatchers : Crash(d) \/ \E e \in Events : SaveFails(d, e))
    BY <1>2 DEF Crash, SaveFails
  <2>2. \/ \E e \in Events : Enqueue(e) \/ LeaseExpires(e) \/ BackoffOver(e)
        \/ \E d \in Dispatchers : ClaimDueEvents(d) \/ \E e \in Events : TaskStep(d, e)
    BY <1>3, <2>1 DEF OutboxNext
  <2>3. NoFault
    BY <1>2, <2>2 DEF Enqueue, LeaseExpires, BackoffOver, ClaimDueEvents, TaskStep, Load, Send,
                      SendFails, Save
  <2> QED
    BY <1>3, <2>2, <2>3
<1>4. CASE ConsumerStep \/ (\E r \in Requests : RequestStep(r)) \/ UNCHANGED vars
  <2>1. UNCHANGED outboxVars
    BY <1>4 DEF ConsumerStep, Subscribe, Deliver, SaveNotifications, MailSettings, MailInsert,
                MailSend, CommitOffset, RequestStep, RequestReads, RequestInserts, RequestSaves, vars
  <2> QED
    BY <2>1, SMTT(60) DEF outboxVars
<1>5. ~(ConsumerStops \/ \E m \in handling : HandlerFails(m))
  BY <1>2 DEF HandlerFails, ConsumerStops
<1> QED
  BY <1>3, <1>4, <1>5 DEF Next

\* The lease stays a lock.
LEMMA LeasesStep == PublishInv /\ Leases /\ [Next]_vars => Leases'
<1> SUFFICES ASSUME PublishInv, Leases, [Next]_vars, faults' = 0, NEW x \in Events
             PROVE  Solo(x)'
  BY DEF Leases
<1>1. \A g \in Events : Solo(g)
  BY OutboxSteps DEF Leases
<1>2. CASE UNCHANGED outboxVars
  BY <1>1, <1>2, SoloStays DEF outboxVars
<1>3. CASE NoFault /\ \E e \in Events : Enqueue(e) \/ LeaseExpires(e) \/ BackoffOver(e)
  BY <1>1, <1>3, RowsSolo
<1>4. CASE NoFault /\ \E d \in Dispatchers : ClaimDueEvents(d) \/ \E e \in Events : TaskStep(d, e)
  BY <1>1, <1>4, ClaimSolo, TaskStepSolo
<1> QED
  BY <1>2, <1>3, <1>4, OutboxSteps

\* Nobody holds a lease at the start.
LEMMA InitLeases == Init => Leases
BY RowFacts DEF Init, OutboxInit, Leases, Solo

-----------------------------------------------------------------------------
(* The consumer.                                                           *)

USE DEF position

Steps == {"save", "settings", "insert", "send"}
Deliveries == [event : Events, step : Steps, targets : Seq(Users)]

ConsumerType ==
    /\ running \in BOOLEAN /\ kept \in BOOLEAN /\ skipped \subseteq Events
    /\ offset \in [Events -> Nat] /\ notified \in [Events -> Nat]
    /\ handling \in SUBSET Deliveries
    /\ mailed \in [Events -> [Users -> Nat]]

SettingsType ==
    /\ pref \in [Users -> Prefs]
    /\ request \in [Requests -> [pc : {"idle", "insert", "save", "done", "failed"},
                                 email : Prefs]]

\* The users the handler of m has still to consider.
Left(m) ==
    CASE m.targets = <<>> -> {}
      [] m.targets = <<Message[m.event].to>> -> {Message[m.event].to}
      [] OTHER -> {Message[m.event].from, Message[m.event].to}

\* A message being handled is one the consumer has not passed, and its e-mails go
\* to the parties of a transfer between two users.
Handled(m) ==
    /\ running /\ offset[m.event] < topic[m.event]
    /\ m.targets \in {<<>>, <<Message[m.event].to>>, <<Message[m.event].from, Message[m.event].to>>}
    /\ m.targets # <<>> => Message[m.event].from # Message[m.event].to
    /\ m.step \in {"insert", "send"} => m.targets # <<>>

Past(m, e) == m.event = e /\ m.step # "save"

\* Before its notifications are stored, and after its offset is committed, an
\* event has been told of at most as often as the consumer has passed it.
Counted(e) ==
    /\ (\A m \in handling : ~Past(m, e)) =>
        notified[e] <= offset[e] /\ \A u \in Users : mailed[e][u] <= offset[e]
    /\ \A m \in handling : Past(m, e) =>
        /\ notified[e] <= 1
        /\ \A u \in Users : mailed[e][u] <= 1 /\ (u \in Left(m) => mailed[e][u] = 0)

ConsumerInv ==
    /\ ConsumerType
    /\ \A m, n \in handling : m = n
    /\ \A m \in handling : Handled(m)
    /\ \A e \in Events : offset[e] <= topic[e]
    /\ ~running /\ faults = 0 =>
        \A e \in Events : notified[e] = 0 /\ \A u \in Users : mailed[e][u] = 0
    /\ faults = 0 => \A e \in Events : Counted(e)

\* The parties' e-mails, first and rest.
LEMMA TargetFacts ==
    ASSUME NEW a \in Users, NEW b \in Users
    PROVE  /\ <<>> \in Seq(Users) /\ <<b>> \in Seq(Users) /\ <<a, b>> \in Seq(Users)
           /\ Head(<<b>>) = b /\ Tail(<<b>>) = <<>>
           /\ Head(<<a, b>>) = a /\ Tail(<<a, b>>) = <<b>>
           /\ <<b>> # <<>> /\ <<a, b>> # <<>> /\ <<a, b>> # <<b>>
OBVIOUS

\* Going on to the next target removes the first from those left.
LEMMA NextTargetFacts ==
    ASSUME NEW m \in Deliveries, Handled(m), m.targets # <<>>
    PROVE  LET n == NextTarget(m)
           IN /\ n \in Deliveries /\ n.event = m.event /\ n.step = "settings"
              /\ Handled(n) /\ Target(m) \in Users
              /\ Left(n) \subseteq Left(m) /\ Target(m) \in Left(m) /\ Target(m) \notin Left(n)
<1> DEFINE a == Message[m.event].from
           b == Message[m.event].to
           n == NextTarget(m)
<1>1. a \in Users /\ b \in Users /\ a # b /\ m.event \in Events
  BY MessageAssumption DEF Handled, Deliveries
<1>2. m.targets = <<b>> \/ m.targets = <<a, b>>
  BY DEF Handled
<1>3. n.event = m.event /\ n.step = "settings" /\ n.targets = Tail(m.targets)
  BY DEF NextTarget, Deliveries
<1>4. n.targets \in {<<>>, <<b>>} /\ n.targets \in Seq(Users)
  <2>1. /\ <<>> \in Seq(Users) /\ <<b>> \in Seq(Users)
        /\ Tail(<<b>>) = <<>> /\ Tail(<<a, b>>) = <<b>>
    BY <1>1, TargetFacts
  <2>2. n.targets = <<>> \/ n.targets = <<b>>
    BY <1>2, <1>3, <2>1, Zenon
  <2> QED
    BY <2>1, <2>2, Zenon
<1>5. n \in Deliveries
  <2>1. n = [m EXCEPT !.step = "settings", !.targets = n.targets]
    BY <1>3 DEF NextTarget
  <2> HIDE DEF n
  <2> QED
    BY <2>1, <1>4 DEF Deliveries, Steps
<1> HIDE DEF n
<1>6. Handled(n)
  BY <1>1, <1>3, <1>4 DEF Handled
<1>7. CASE m.targets = <<b>>
  <2>1. Target(m) = b /\ n.targets = <<>> /\ Left(m) = {b} /\ Left(n) = {}
    BY <1>1, <1>3, <1>7, TargetFacts DEF Target, Left
  <2> QED
    BY <1>1, <1>3, <1>5, <1>6, <2>1 DEF n
<1>8. CASE m.targets = <<a, b>>
  <2>1. Target(m) = a /\ n.targets = <<b>> /\ Left(m) = {a, b} /\ Left(n) = {b}
    BY <1>1, <1>3, <1>8, TargetFacts DEF Target, Left
  <2> QED
    BY <1>1, <1>3, <1>5, <1>6, <2>1 DEF n
<1> QED
  BY <1>2, <1>7, <1>8

\* No step takes a message out of the topic, and faults are not forgotten.
LEMMA TopicStays ==
    ASSUME PublishInv, [Next]_vars
    PROVE  /\ topic \in [Events -> Nat] /\ topic' \in [Events -> Nat]
           /\ \A e \in Events : topic[e] <= topic'[e]
           /\ faults' = 0 => faults = 0
<1>1. topic \in [Events -> Nat] /\ topic' \in [Events -> Nat]
  BY PublishStep, SMTT(60) DEF PublishInv, OutboxTypeOK
<1>2. topic' = topic \/ \E e \in Events : topic' = [topic EXCEPT ![e] = @ + 1]
  BY ZenonT(60) DEF Next, OutboxNext, Enqueue, LeaseExpires, BackoffOver, ClaimDueEvents, Crash,
         TaskStep, Load, Send, SendFails, Save, SaveFails, ConsumerStep, Subscribe, Deliver, SaveNotifications,
         MailSettings, MailInsert, MailSend, CommitOffset, HandlerFails, ConsumerStops, RequestStep, RequestReads,
         RequestInserts, RequestSaves, vars, outboxVars
<1>3. \A e \in Events : topic[e] <= topic'[e]
  BY <1>1, <1>2
<1> QED
  BY <1>1, <1>3, OutboxSteps

\* The steps of the outbox and of the settings requests leave the consumer alone.
LEMMA QuietConsumer ==
    ASSUME ConsumerInv, topic \in [Events -> Nat], topic' \in [Events -> Nat],
           \A e \in Events : topic[e] <= topic'[e],
           faults' = 0 => faults = 0,
           UNCHANGED <<position, handling, notified, mailed>>
    PROVE  ConsumerInv'
<1>1. ConsumerType'
  BY DEF ConsumerInv, ConsumerType
<1>2. \A m \in handling' : Handled(m)'
  <2> SUFFICES ASSUME NEW m \in handling PROVE Handled(m)'
    OBVIOUS
  <2>1. Handled(m) /\ m.event \in Events /\ offset[m.event] \in Nat
    BY DEF ConsumerInv, ConsumerType, Deliveries
  <2>2. topic[m.event] \in Nat /\ topic'[m.event] \in Nat /\ topic[m.event] <= topic'[m.event]
    BY <2>1
  <2>3. offset'[m.event] < topic'[m.event]
    BY <2>1, <2>2 DEF Handled
  <2> QED
    BY <2>1, <2>3 DEF Handled
<1>3. \A e \in Events : offset'[e] <= topic'[e]
  BY DEF ConsumerInv, ConsumerType
<1>4. faults' = 0 => \A e \in Events : Counted(e)'
  BY DEF ConsumerInv, Counted, Left, Past
<1> QED
  BY <1>1, <1>2, <1>3, <1>4 DEF ConsumerInv

\* While m is handled no other message is.
LEMMA OnlyMessage ==
    ASSUME ConsumerInv, NEW m \in handling
    PROVE  handling = {m} /\ m \in Deliveries /\ m.event \in Events /\ Handled(m)
BY DEF ConsumerInv, ConsumerType, Deliveries

\* The handler goes on with its message, past the save.
LEMMA HandlerGoesOn ==
    ASSUME ConsumerInv, NEW m \in handling, m.step # "save",
           NEW n \in Deliveries, n.event = m.event, n.step # "save", Handled(n),
           handling' = {n}, UNCHANGED <<topic, faults, position, notified>>,
           mailed' \in [Events -> [Users -> Nat]],
           \A e \in Events : e # m.event => mailed'[e] = mailed[e],
           faults = 0 => \A u \in Users : /\ mailed'[m.event][u] <= 1
                                          /\ u \in Left(n) => mailed'[m.event][u] = 0
    PROVE  ConsumerInv'
<1>0. handling = {m} /\ Handled(m) /\ m.event \in Events
  BY OnlyMessage
<1>1. ConsumerType'
  BY DEF ConsumerInv, ConsumerType
<1>2. Handled(n)' /\ running
  BY DEF Handled
<1>3. ASSUME faults = 0, NEW e \in Events PROVE Counted(e)'
  <2>1. Counted(e)
    BY <1>3 DEF ConsumerInv
  <2>2. CASE e = m.event
    <3>1. Past(m, e) /\ Past(n, e)
      BY <2>2 DEF Past
    <3>2. notified'[e] <= 1
      BY <2>1, <3>1 DEF Counted
    <3>3. \A u \in Users : mailed'[e][u] <= 1 /\ (u \in Left(n) => mailed'[e][u] = 0)
      BY <1>3, <2>2
    <3>4. Left(n)' = Left(n)
      BY DEF Left
    <3> QED
      BY <3>1, <3>2, <3>3, <3>4 DEF Counted, Past
  <2>3. CASE e # m.event
    <3>1. ~Past(m, e) /\ ~Past(n, e)
      BY <2>3 DEF Past
    <3>2. notified[e] <= offset[e] /\ \A u \in Users : mailed[e][u] <= offset[e]
      BY <2>1, <1>0, <3>1 DEF Counted
    <3> QED
      BY <2>3, <3>1, <3>2 DEF Counted, Past
  <2> QED
    BY <2>2, <2>3
<1>4. \A e \in Events : offset'[e] <= topic'[e]
  BY DEF ConsumerInv
<1> QED
  BY <1>1, <1>2, <1>3, <1>4 DEF ConsumerInv

\* The e-mails of a message that is being handled past its save.
LEMMA MailSteps ==
    ASSUME ConsumerInv, NEW m \in handling, MailSettings(m) \/ MailInsert(m) \/ MailSend(m)
    PROVE  ConsumerInv'
<1>0. handling = {m} /\ m \in Deliveries /\ m.event \in Events /\ Handled(m)
  BY OnlyMessage
<1>1. /\ m.step # "save" /\ m.targets # <<>>
      /\ UNCHANGED <<topic, faults, position, notified>>
  BY <1>0 DEF MailSettings, MailInsert, MailSend, outboxVars, Handled
<1>2. mailed \in [Events -> [Users -> Nat]]
  BY DEF ConsumerInv, ConsumerType
<1>3. faults = 0 => \A u \in Users : /\ mailed[m.event][u] <= 1
                                     /\ u \in Left(m) => mailed[m.event][u] = 0
  <2> SUFFICES ASSUME faults = 0, NEW u \in Users
               PROVE  mailed[m.event][u] <= 1 /\ (u \in Left(m) => mailed[m.event][u] = 0)
    OBVIOUS
  <2>1. Counted(m.event) /\ Past(m, m.event)
    BY <1>0, <1>1 DEF ConsumerInv, Past
  <2> QED
    BY <2>1 DEF Counted
<1> DEFINE n == NextTarget(m)
<1>4. /\ n \in Deliveries /\ n.event = m.event /\ n.step = "settings"
      /\ Handled(n) /\ Target(m) \in Users
      /\ Left(n) \subseteq Left(m) /\ Target(m) \in Left(m) /\ Target(m) \notin Left(n)
  BY <1>0, <1>1, NextTargetFacts
<1> HIDE DEF n
<1>5. CASE mailed' = mailed /\ handling' = {n}
  BY <1>1, <1>2, <1>3, <1>4, <1>5, HandlerGoesOn
<1>6. CASE MailSettings(m) /\ pref[Target(m)] \in {"none", "on"}
  <2> DEFINE next == IF pref[Target(m)] = "none" THEN "insert" ELSE "send"
             s == [m EXCEPT !.step = next]
  <2>1. handling' = {s} /\ mailed' = mailed
    BY <1>6 DEF MailSettings
  <2>2. s \in Deliveries /\ s.event = m.event /\ s.step # "save" /\ s.targets = m.targets
    BY <1>0 DEF Deliveries, Steps
  <2> HIDE DEF s
  <2>3. Handled(s) /\ Left(s) = Left(m)
    BY <1>0, <1>1, <2>2 DEF Handled, Left
  <2> QED
    BY <1>1, <1>2, <1>3, <2>1, <2>2, <2>3, HandlerGoesOn
<1>7. CASE MailSettings(m) /\ pref[Target(m)] \notin {"none", "on"}
  BY <1>5, <1>7 DEF MailSettings, n
<1>8. CASE MailInsert(m)
  BY <1>5, <1>8 DEF MailInsert, n
<1>9. CASE MailSend(m) /\ mailed' = [mailed EXCEPT ![m.event][Target(m)] = @ + 1]
  <2> DEFINE u == Target(m)
             new == [mailed[m.event] EXCEPT ![u] = mailed[m.event][u] + 1]
  <2>1. handling' = {n} /\ mailed' = [mailed EXCEPT ![m.event] = new]
    BY <1>9 DEF MailSend, n
  <2>2. new \in [Users -> Nat] /\ \A v \in Users : new[v] = IF v = u THEN mailed[m.event][u] + 1
                                                            ELSE mailed[m.event][v]
    BY <1>0, <1>2, <1>4
  <2> HIDE DEF new
  <2>3. /\ mailed' \in [Events -> [Users -> Nat]] /\ mailed'[m.event] = new
        /\ \A e \in Events : e # m.event => mailed'[e] = mailed[e]
    BY <1>0, <1>2, <2>1, <2>2
  <2>4. faults = 0 => \A v \in Users : /\ mailed'[m.event][v] <= 1
                                       /\ v \in Left(n) => mailed'[m.event][v] = 0
    <3> SUFFICES ASSUME faults = 0, NEW v \in Users
                 PROVE  new[v] <= 1 /\ (v \in Left(n) => new[v] = 0)
      BY <2>3
    <3>1. CASE v = u
      BY <1>3, <1>4, <2>2, <3>1
    <3>2. CASE v # u
      BY <1>3, <1>4, <2>2, <3>2
    <3> QED
      BY <3>1, <3>2
  <2> QED
    BY <1>1, <1>4, <2>1, <2>3, <2>4, HandlerGoesOn
<1>10. CASE MailSend(m) /\ mailed' = mailed
  BY <1>5, <1>10 DEF MailSend, n
<1> QED
  BY <1>6, <1>7, <1>8, <1>9, <1>10 DEF MailSend

\* The consumer starts, at the end of the topic or at the committed position;
\* it has started before only if there was a fault.
LEMMA SubscribeStep ==
    ASSUME PublishInv, ConsumerInv, Subscribe
    PROVE  ConsumerInv'
<1>1. topic \in [Events -> Nat] /\ topic' = topic /\ faults' = faults
  BY DEF PublishInv, OutboxTypeOK, Subscribe, outboxVars
<1>2. offset' \in [Events -> Nat] /\ \A e \in Events : offset'[e] <= topic'[e]
  BY <1>1 DEF Subscribe, ConsumerInv, ConsumerType
<1>3. ConsumerType'
  BY <1>1, <1>2 DEF Subscribe, ConsumerInv, ConsumerType
<1>4. handling = {} /\ handling' = {} /\ running'
  BY DEF Subscribe, ConsumerInv, Handled
<1>5. ASSUME faults = 0, NEW e \in Events PROVE Counted(e)'
  <2>1. notified[e] = 0 /\ \A u \in Users : mailed[e][u] = 0
    BY <1>5 DEF Subscribe, ConsumerInv
  <2>2. offset'[e] \in Nat
    BY <1>2
  <2> QED
    BY <1>4, <2>1, <2>2 DEF Subscribe, Counted
<1> QED
  BY <1>1, <1>2, <1>3, <1>4, <1>5 DEF ConsumerInv

\* A message behind the consumer's position is handed to the handler.
LEMMA DeliverStep ==
    ASSUME ConsumerInv, NEW e \in Events, Deliver(e)
    PROVE  ConsumerInv'
<1> DEFINE n == [event |-> e, step |-> "save", targets |-> <<>>]
<1>1. n \in Deliveries /\ n.event = e /\ n.step = "save" /\ n.targets = <<>>
  BY DEF Deliveries, Steps
<1>2. /\ handling = {} /\ handling' = {n} /\ running /\ offset[e] < topic[e]
      /\ UNCHANGED <<topic, faults, position, notified, mailed>>
  BY DEF Deliver, outboxVars
<1> HIDE DEF n
<1>3. ConsumerType'
  BY <1>1, <1>2 DEF ConsumerInv, ConsumerType
<1>4. Handled(n)'
  BY <1>1, <1>2 DEF Handled
<1>5. faults' = 0 => \A x \in Events : Counted(x)'
  BY <1>1, <1>2 DEF ConsumerInv, Counted, Past
<1>6. \A x \in Events : offset'[x] <= topic'[x]
  BY <1>2 DEF ConsumerInv
<1> QED
  BY <1>2, <1>3, <1>4, <1>5, <1>6 DEF ConsumerInv

\* The notifications are stored: the copy was not passed, so it is the first.
LEMMA NotifyStep ==
    ASSUME PublishInv, Leases, ConsumerInv, NEW m \in handling, SaveNotifications(m)
    PROVE  ConsumerInv'
<1> DEFINE e == m.event
           a == Message[e].from
           b == Message[e].to
           t == IF isInternalTransferCompleted(Message[e]) THEN <<a, b>> ELSE <<>>
           n == [m EXCEPT !.step = "settings", !.targets = t]
<1>0. handling = {m} /\ m \in Deliveries /\ e \in Events /\ Handled(m) /\ m.step = "save"
  BY OnlyMessage DEF SaveNotifications
<1>1. a \in Users /\ b \in Users
  BY <1>0, MessageAssumption
<1>2. t \in {<<>>, <<a, b>>} /\ t \in Seq(Users) /\ (t # <<>> => a # b)
  BY <1>1, TargetFacts DEF isInternalTransferCompleted
<1>3. /\ handling' = {n} /\ notified' = [notified EXCEPT ![e] = notified[e] + 1]
      /\ UNCHANGED <<topic, faults, position, mailed>>
  BY DEF SaveNotifications, outboxVars
<1> HIDE DEF t
<1>4. n \in Deliveries /\ n.event = e /\ n.step = "settings" /\ n.targets = t
  BY <1>0, <1>2 DEF Deliveries, Steps
<1> HIDE DEF n
<1>5. notified \in [Events -> Nat] /\ offset \in [Events -> Nat] /\ mailed \in [Events -> [Users -> Nat]]
  BY DEF ConsumerInv, ConsumerType
<1>6. ConsumerType'
  BY <1>0, <1>3, <1>4, <1>5 DEF ConsumerInv, ConsumerType
<1>7. Handled(n)'
  BY <1>0, <1>2, <1>3, <1>4 DEF Handled
<1>8. ASSUME faults = 0, NEW x \in Events PROVE Counted(x)'
  <2>1. Counted(x) /\ ~Past(m, x)
    BY <1>0, <1>8 DEF ConsumerInv, Past
  <2>2. notified[x] <= offset[x] /\ \A u \in Users : mailed[x][u] <= offset[x]
    BY <1>0, <2>1 DEF Counted
  <2>3. CASE x = e
    <3>1. offset[e] < topic[e] /\ topic[e] <= 1
      BY <1>0, <1>8 DEF Handled, Leases, Solo
    <3>2. topic[e] \in Nat /\ offset[e] \in Nat /\ notified[e] \in Nat
      BY <1>0, <1>5 DEF PublishInv, OutboxTypeOK
    <3>3. offset[e] = 0
      BY <3>1, <3>2
    <3>4. notified'[e] = 1
      BY <1>0, <1>3, <1>5, <2>2, <2>3, <3>2, <3>3
    <3>5. \A u \in Users : mailed'[e][u] = 0
      BY <1>0, <1>3, <1>5, <2>2, <2>3, <3>3
    <3>6. Past(n, e)
      BY <1>4 DEF Past
    <3>7. Past(n, e)' /\ notified'[e] <= 1
          /\ \A u \in Users : mailed'[e][u] <= 1 /\ mailed'[e][u] = 0
      BY <3>4, <3>5, <3>6 DEF Past
    <3> QED
      BY <1>3, <2>3, <3>7 DEF Counted
  <2>4. CASE x # e
    <3>1. notified'[x] = notified[x] /\ ~Past(n, x)
      BY <1>3, <1>4, <1>5, <2>4 DEF Past
    <3> QED
      BY <1>3, <2>2, <3>1 DEF Counted, Past
  <2> QED
    BY <2>3, <2>4
<1>9. (\A x \in Events : offset'[x] <= topic'[x]) /\ running'
  BY <1>0, <1>3 DEF ConsumerInv, Handled
<1> QED
  BY <1>3, <1>6, <1>7, <1>8, <1>9 DEF ConsumerInv

\* The offset is committed past the message that has been handled.
LEMMA CommitStep ==
    ASSUME PublishInv, ConsumerInv, NEW m \in handling, CommitOffset(m)
    PROVE  ConsumerInv'
<1> DEFINE e == m.event
<1>0. handling = {m} /\ e \in Events /\ Handled(m) /\ m.step = "settings"
  BY OnlyMessage DEF CommitOffset
<1>1. /\ handling' = {} /\ offset' = [offset EXCEPT ![e] = offset[e] + 1]
      /\ UNCHANGED <<topic, faults, running, skipped, notified, mailed>>
      /\ kept' \in {kept, TRUE}
  BY DEF CommitOffset, outboxVars
<1>2. /\ notified \in [Events -> Nat] /\ offset \in [Events -> Nat] /\ topic \in [Events -> Nat]
      /\ mailed \in [Events -> [Users -> Nat]]
  BY DEF ConsumerInv, ConsumerType, PublishInv, OutboxTypeOK
<1>3. /\ offset' \in [Events -> Nat] /\ offset'[e] = offset[e] + 1
      /\ \A x \in Events : x # e => offset'[x] = offset[x]
  BY <1>0, <1>1, <1>2
<1>4. ConsumerType'
  BY <1>1, <1>3 DEF ConsumerInv, ConsumerType
<1>5. ASSUME NEW x \in Events PROVE offset'[x] <= topic'[x]
  BY <1>0, <1>1, <1>2, <1>3 DEF ConsumerInv, Handled
<1>6. ASSUME faults = 0, NEW x \in Events PROVE Counted(x)'
  <2>1. Counted(x)
    BY <1>6 DEF ConsumerInv
  <2>2. CASE x = e
    <3>1. Past(m, e)
      BY <1>0 DEF Past
    <3>2. notified[e] <= 1 /\ \A u \in Users : mailed[e][u] <= 1
      BY <2>1, <2>2, <3>1 DEF Counted
    <3>3. offset'[e] >= 1 /\ offset'[e] \in Nat
      BY <1>0, <1>2, <1>3
    <3>4. notified[e] <= offset'[e]
      BY <1>0, <1>2, <3>2, <3>3
    <3>5. ASSUME NEW u \in Users PROVE mailed[e][u] <= offset'[e]
      <4>1. mailed[e][u] \in Nat /\ mailed[e][u] <= 1
        BY <1>0, <1>2, <3>2
      <4> QED
        BY <3>3, <4>1
    <3> QED
      BY <1>1, <2>2, <3>4, <3>5 DEF Counted
  <2>3. CASE x # e
    <3>1. ~Past(m, x)
      BY <2>3 DEF Past
    <3>2. notified[x] <= offset[x] /\ \A u \in Users : mailed[x][u] <= offset[x]
      BY <1>0, <2>1, <3>1 DEF Counted
    <3> QED
      BY <1>1, <1>3, <2>3, <3>2 DEF Counted
  <2> QED
    BY <2>2, <2>3
<1>7. running' /\ handling' = {}
  BY <1>0, <1>1 DEF Handled
<1> QED
  BY <1>1, <1>4, <1>5, <1>6, <1>7 DEF ConsumerInv

\* A handler that throws, or a consumer that stops: messages may come again, but
\* that is a fault.
LEMMA FailStep ==
    ASSUME PublishInv, ConsumerInv, ConsumerStops \/ \E m \in handling : HandlerFails(m)
    PROVE  ConsumerInv'
<1>1. faults' # 0
  BY DEF HandlerFails, ConsumerStops, Fault, PublishInv, OutboxTypeOK
<1>2. /\ handling' = {} /\ running' \in BOOLEAN
      /\ UNCHANGED <<topic, kept, offset, skipped, notified, mailed>>
  BY DEF HandlerFails, ConsumerStops, position, ConsumerInv, ConsumerType
<1> QED
  BY <1>1, <1>2 DEF ConsumerInv, ConsumerType

\* Every step keeps what holds of the consumer.
LEMMA ConsumerStepInv == PublishInv /\ Leases /\ ConsumerInv /\ [Next]_vars => ConsumerInv'
<1> SUFFICES ASSUME PublishInv, Leases, ConsumerInv, [Next]_vars PROVE ConsumerInv'
  OBVIOUS
<1>1. CASE UNCHANGED <<position, handling, notified, mailed>>
  BY <1>1, TopicStays, QuietConsumer
<1>2. CASE (OutboxNext /\ UNCHANGED notifierVars) \/ (\E r \in Requests : RequestStep(r)) \/ UNCHANGED vars
  BY <1>1, <1>2 DEF notifierVars, RequestStep, RequestReads, RequestInserts, RequestSaves, vars
<1>3. CASE ConsumerStep
  BY <1>3, SubscribeStep, DeliverStep, NotifyStep, MailSteps, CommitStep DEF ConsumerStep
<1>4. CASE ConsumerStops \/ \E m \in handling : HandlerFails(m)
  BY <1>4, FailStep
<1> QED
  BY <1>2, <1>3, <1>4 DEF Next

\* The consumer has seen nothing at the start.
LEMMA InitConsumer == Init => ConsumerInv
<1> SUFFICES ASSUME Init PROVE ConsumerInv
  OBVIOUS
<1>1. ConsumerType
  BY DEF Init, ConsumerType
<1>2. \A e \in Events : Counted(e)
  BY DEF Init, Counted
<1> QED
  BY <1>1, <1>2 DEF Init, OutboxInit, ConsumerInv

\* As long as there is no crash, lost save, late lease or late answer, nobody is
\* notified or e-mailed twice of an event, with any number of dispatchers: the
\* lease claimDueEvents takes is a lock and the consumer passes each copy once.
THEOREM NotifiedOnce == Spec => []NotifiedOnceWithoutFaults
<1>1. PublishInv /\ Leases /\ ConsumerInv => NotifiedOnceWithoutFaults
  <2> SUFFICES ASSUME PublishInv, Leases, ConsumerInv, faults = 0, NEW e \in Events
               PROVE  notified[e] <= 1 /\ \A u \in Users : mailed[e][u] <= 1
    BY DEF NotifiedOnceWithoutFaults
  <2>1. /\ topic[e] \in Nat /\ offset[e] \in Nat /\ notified[e] \in Nat
        /\ \A u \in Users : mailed[e][u] \in Nat
    BY DEF PublishInv, OutboxTypeOK, ConsumerInv, ConsumerType
  <2>2. topic[e] <= 1 /\ offset[e] <= topic[e] /\ Counted(e)
    BY DEF Leases, Solo, ConsumerInv
  <2>3. CASE \E m \in handling : Past(m, e)
    BY <2>2, <2>3 DEF Counted
  <2>4. CASE \A m \in handling : ~Past(m, e)
    BY <2>1, <2>2, <2>4 DEF Counted
  <2> QED
    BY <2>3, <2>4
<1> QED
  BY <1>1, InitPublish, PublishStep, InitLeases, LeasesStep, InitConsumer, ConsumerStepInv, PTL DEF Spec
-----------------------------------------------------------------------------
(* Settings.                                                               *)

\* The settings rows keep their type.
LEMMA SettingsStep == SettingsType /\ [Next]_vars => SettingsType'
<1> SUFFICES ASSUME SettingsType, [Next]_vars PROVE SettingsType'
  OBVIOUS
<1> USE DEF SettingsType, Prefs
<1>1. ASSUME NEW u, CreateDefault(u) PROVE pref' \in [Users -> Prefs]
  BY <1>1 DEF CreateDefault
<1>2. CASE UNCHANGED prefVars
  BY <1>2 DEF prefVars
<1>3. ASSUME NEW r \in Requests, RequestStep(r) PROVE SettingsType'
  <2>1. Wants[r].user \in Users /\ Wants[r].email \in {"on", "off", "keep"}
    BY WantsAssumption
  <2>2. CASE RequestReads(r)
    BY <2>1, <2>2 DEF RequestReads
  <2>3. CASE RequestInserts(r)
    BY <2>3, <1>1 DEF RequestInserts
  <2>4. CASE RequestSaves(r)
    BY <2>1, <2>4 DEF RequestSaves
  <2> QED
    BY <1>3, <2>2, <2>3, <2>4 DEF RequestStep
<1>4. ASSUME NEW m \in handling, MailInsert(m) PROVE SettingsType'
  BY <1>4, <1>1 DEF MailInsert
<1>5. CASE ConsumerStep
  BY <1>2, <1>4, <1>5 DEF ConsumerStep, Subscribe, Deliver, SaveNotifications, MailSettings,
                          MailSend, CommitOffset
<1>6. CASE OutboxNext /\ UNCHANGED notifierVars
  BY <1>2, <1>6 DEF notifierVars, prefVars
<1>7. CASE UNCHANGED vars \/ ConsumerStops \/ \E m \in handling : HandlerFails(m)
  BY <1>2, <1>7 DEF vars, notifierVars, prefVars, ConsumerStops, HandlerFails
<1> QED
  BY <1>3, <1>5, <1>6, <1>7 DEF Next

\* A settings row changes only by a request of its own user: neither the handler
\* nor a request that creates the default row writes over one that is there.
THEOREM ChoicesStand == Spec => ChoiceStands
<1> DEFINE Own(u) == \E r \in Requests : /\ Wants[r].user = u /\ request[r].pc = "save"
                                         /\ request'[r].pc = "done"
           Kept == \A u \in Users : pref[u] # "none" /\ pref'[u] # pref[u] => Own(u)
<1>1. Init => SettingsType
  BY OpeningsAssumption DEF Init, SettingsType, Prefs
<1>2. SettingsType /\ [Next]_vars => [Kept]_vars
  <2> SUFFICES ASSUME SettingsType, Next, NEW u \in Users, pref[u] # "none", pref'[u] # pref[u]
               PROVE  Own(u)
    OBVIOUS
  <2>1. \A v : ~CreateDefault(v)
    BY SMTT(60) DEF CreateDefault, SettingsType
  <2>2. PICK r \in Requests : RequestSaves(r)
    BY <2>1 DEF Next, OutboxNext, notifierVars, ConsumerStep, Subscribe, Deliver, SaveNotifications,
                MailSettings, MailInsert, MailSend, CommitOffset, HandlerFails, ConsumerStops, RequestStep,
                RequestReads, RequestInserts, prefVars
  <2>3. Wants[r].user = u /\ request[r].pc = "save" /\ request'[r].pc = "done"
    BY <2>2 DEF RequestSaves, SettingsType
  <2> QED
    BY <2>3
<1> QED
  BY <1>1, <1>2, SettingsStep, PTL DEF Spec, ChoiceStands

=============================================================================
