------------------------------- MODULE Outbox -------------------------------
(***************************************************************************)
(* The transaction service's outbox: rows of transaction_outbox_events and *)
(* the dispatchers (one per service replica) that lease due rows, publish  *)
(* them to Kafka and save the outcome.                                     *)
(*                                                                         *)
(* Every await is a step.  The dispatcher saves the entity it read before  *)
(* the send, so a save overwrites what another dispatcher stored meanwhile *)
(***************************************************************************)
EXTENDS Naturals, FiniteSets

CONSTANTS Events,       \* outbox events
          Dispatchers,  \* replicas of the transaction service
          BatchSize,    \* OUTBOX_BATCH_SIZE
          MaxRetries,   \* OUTBOX_MAX_RETRIES
          MaxFaults     \* bound on crashes, lost saves and late answers

ASSUME OutboxAssumption == /\ BatchSize \in Nat \ {0}
                           /\ MaxRetries \in Nat /\ MaxFaults \in Nat

VARIABLES evt,     \* evt[e]: the row of event e
          task,    \* task[d][e]: what dispatcher d does with e
          topic,   \* topic[e]: copies of e in the Kafka topic
          faults   \* faults so far

outboxVars == <<evt, task, topic, faults>>

-----------------------------------------------------------------------------
\* leasedUntil is null, in the future or past; due: nextAttemptAt has passed.
Row == [status : {"PENDING", "PUBLISHED", "FAILED"}, attempts : 0..MaxRetries + 1,
        lease : {"null", "live", "expired"}, due : BOOLEAN]
NoRow == [status |-> "ABSENT"]

TaskPC == {"none", "claimed", "sending", "saving", "resaving"}
NoTask == [pc |-> "none", copy |-> NoRow]

OutboxTypeOK ==
    /\ evt \in [Events -> Row \cup {NoRow}]
    /\ task \in [Dispatchers -> [Events -> [pc : TaskPC, copy : Row \cup {NoRow}]]]
    /\ topic \in [Events -> Nat]
    /\ faults \in 0..MaxFaults

OutboxInit ==
    /\ evt = [e \in Events |-> NoRow]
    /\ task = [d \in Dispatchers |-> [e \in Events |-> NoTask]]
    /\ topic = [e \in Events |-> 0]
    /\ faults = 0

Fault == faults < MaxFaults /\ faults' = faults + 1
NoFault == UNCHANGED faults

Work(d, e, pc, copy) == task' = [task EXCEPT ![d][e] = [pc |-> pc, copy |-> copy]]
Drop(d, e) == task' = [task EXCEPT ![d][e] = NoTask]

-----------------------------------------------------------------------------
Enqueue(e) ==
    /\ evt[e] = NoRow
    /\ evt' = [evt EXCEPT ![e] = [status |-> "PENDING", attempts |-> 0,
                                  lease |-> "null", due |-> TRUE]]
    /\ UNCHANGED <<task, topic>> /\ NoFault

\* Mutant: a lease that ran out still keeps the row from being claimed.
DueUnleased(e) ==
    evt[e] # NoRow /\ evt[e].status = "PENDING" /\ evt[e].due /\ evt[e].lease = "null"

\* Mutant: a row another dispatcher has leased is claimed as well.
DueAlways(e) ==
    evt[e] # NoRow /\ evt[e].status = "PENDING" /\ evt[e].due

Due(e) ==
    evt[e] # NoRow /\ evt[e].status = "PENDING" /\ evt[e].due /\ evt[e].lease # "live"

Leased(S) == [e \in Events |-> IF e \in S THEN [evt[e] EXCEPT !.lease = "live"] ELSE evt[e]]

\* claimDueEvents: a batch of due rows is leased; a tick starts only after the
\* tasks of the last one have ended (the running flag).
ClaimDueEvents(d) ==
    /\ \A e \in Events : task[d][e] = NoTask
    /\ LET due == {e \in Events : Due(e)}
       IN \E S \in SUBSET due :
             /\ S # {}
             /\ Cardinality(S) = BatchSize \/ (S = due /\ Cardinality(S) < BatchSize)
             /\ evt' = Leased(S)
             /\ task' = [task EXCEPT ![d] = [e \in Events |->
                           IF e \in S THEN [NoTask EXCEPT !.pc = "claimed"] ELSE NoTask]]
    /\ UNCHANGED topic /\ NoFault

\* publishClaimedEvent reads the row again and stops if it is no longer open or
\* its lease has run out.
Load(d, e) ==
    /\ task[d][e].pc = "claimed"
    /\ IF evt[e].status = "PENDING" /\ evt[e].lease = "live"
       THEN Work(d, e, "sending", evt[e])
       ELSE Drop(d, e)
    /\ UNCHANGED <<evt, topic>> /\ NoFault

Published(copy) == [copy EXCEPT !.status = "PUBLISHED", !.lease = "null"]

\* The catch branch.  After a lost save the copy already says PUBLISHED.
Retried(copy) ==
    LET n == copy.attempts + 1
    IN [copy EXCEPT !.attempts = n, !.lease = "null",
                    !.status = IF n > MaxRetries THEN "FAILED" ELSE @,
                    !.due = n > MaxRetries]

\* Mutant: the row is marked before the event is sent.
SendAfterSave(d, e) ==
    /\ task[d][e].pc = "sending"
    /\ Work(d, e, "saving", Published(task[d][e].copy))
    /\ UNCHANGED <<evt, topic>> /\ NoFault

Send(d, e) ==
    /\ task[d][e].pc = "sending"
    /\ topic' = [topic EXCEPT ![e] = @ + 1]
    /\ Work(d, e, "saving", Published(task[d][e].copy))
    /\ UNCHANGED evt /\ NoFault

\* producer.send fails, and possibly delivers all the same.
SendFails(d, e) ==
    /\ task[d][e].pc = "sending"
    /\ Work(d, e, "resaving", Retried(task[d][e].copy))
    /\ \/ UNCHANGED topic /\ NoFault
       \/ topic' = [topic EXCEPT ![e] = @ + 1] /\ Fault
    /\ UNCHANGED evt

Save(d, e) ==
    /\ task[d][e].pc \in {"saving", "resaving"}
    /\ evt' = [evt EXCEPT ![e] = task[d][e].copy]
    /\ Drop(d, e)
    /\ UNCHANGED topic /\ NoFault

\* The save after the send is inside the try block: when the database refuses
\* it, the catch branch counts an attempt and saves once more.
SaveFails(d, e) ==
    /\ \/ task[d][e].pc = "saving" /\ Work(d, e, "resaving", Retried(task[d][e].copy))
       \/ task[d][e].pc = "resaving" /\ Drop(d, e)
    /\ Fault
    /\ UNCHANGED <<evt, topic>>

-----------------------------------------------------------------------------
\* Time passes.  A lease that ends under a running task is a fault.
LeaseExpires(e) ==
    /\ evt[e] # NoRow /\ evt[e].lease = "live"
    /\ evt' = [evt EXCEPT ![e].lease = "expired"]
    /\ IF \A d \in Dispatchers : task[d][e] = NoTask THEN NoFault ELSE Fault
    /\ UNCHANGED <<task, topic>>

BackoffOver(e) ==
    /\ evt[e] # NoRow /\ ~evt[e].due
    /\ evt' = [evt EXCEPT ![e].due = TRUE]
    /\ UNCHANGED <<task, topic>> /\ NoFault

Crash(d) ==
    /\ \E e \in Events : task[d][e] # NoTask
    /\ task' = [task EXCEPT ![d] = [e \in Events |-> NoTask]]
    /\ Fault
    /\ UNCHANGED <<evt, topic>>

TaskStep(d, e) == Load(d, e) \/ Send(d, e) \/ SendFails(d, e) \/ Save(d, e)

OutboxNext ==
    \/ \E e \in Events : Enqueue(e) \/ LeaseExpires(e) \/ BackoffOver(e)
    \/ \E d \in Dispatchers :
          \/ ClaimDueEvents(d) \/ Crash(d)
          \/ \E e \in Events : TaskStep(d, e) \/ SaveFails(d, e)

\* The tick runs for ever and its awaits return; time passes.
OutboxFairness ==
    /\ \A d \in Dispatchers :
          /\ WF_outboxVars(ClaimDueEvents(d))
          /\ \A e \in Events : WF_outboxVars(TaskStep(d, e))
    /\ \A e \in Events : /\ WF_outboxVars(BackoffOver(e))
                         /\ WF_outboxVars(LeaseExpires(e))

-----------------------------------------------------------------------------
\* An event marked PUBLISHED is in the topic: the mark follows the send, through
\* every crash, lost save and stale overwrite (publishClaimedEvent).
PublishedIsInTopic ==
    \A e \in Events : evt[e] # NoRow /\ evt[e].status = "PUBLISHED" => topic[e] > 0

\* No event stays PENDING for ever, although a crash may leave it leased and a
\* dispatcher with an old copy may reopen it after it was published: it ends up
\* PUBLISHED, or FAILED after its retries (claimDueEvents, publishClaimedEvent).
EventuallyDispatched ==
    <>[](\A e \in Events : evt[e] # NoRow => evt[e].status # "PENDING")

=============================================================================
