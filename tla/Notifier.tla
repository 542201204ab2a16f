------------------------------ MODULE Notifier ------------------------------
(***************************************************************************)
(* The notification service behind the outbox: a Kafka consumer group that *)
(* starts at the end of the topic as long as it has committed no position  *)
(* (fromBeginning: false), stores the notifications of a message, e-mails  *)
(* the two parties of an internal transfer who asked for it and commits    *)
(* when the handler has returned; and the settings requests that say who   *)
(* asked, which create a user's default row as the handler does.           *)
(***************************************************************************)
EXTENDS Outbox, Sequences

CONSTANTS Users,     \* wallet users
          Message,   \* Message[e]: eventType, internal, from and to of event e
          Openings,  \* the settings tables the service may start with
          Requests,  \* UpdateNotificationSettings requests
          Wants      \* Wants[r]: whose setting r changes, and to what

ASSUME MessageAssumption ==
    \A e \in Events :
        /\ Message[e].eventType \in {"transaction.completed", "transaction.failed",
                                     "transaction.chain.completed"}
        /\ Message[e].internal \in BOOLEAN
        /\ Message[e].from \in Users /\ Message[e].to \in Users

\* A request sets emailEnabled, or only smsEnabled and keeps the other.
ASSUME WantsAssumption ==
    Wants \in [Requests -> [user : Users, email : {"on", "off", "keep"}]]

\* emailEnabled of a settings row, or no row.
Prefs == {"none", "on", "off"}

ASSUME OpeningsAssumption == Openings \subseteq [Users -> Prefs]

VARIABLES running,   \* the consumer runs
          kept,      \* the group has committed a position
          offset,    \* offset[e]: copies of e before the consumer's position
          skipped,   \* events with copies a start at the end left out (history)
          handling,  \* messages being handled: event, step and e-mails to go
          notified,  \* notified[e]: times e's notifications were stored
          pref,      \* pref[u]: emailEnabled of u's settings row, if any
          request,   \* request[r]: how far r has come and the value it holds
          mailed     \* mailed[e][u]: e-mails to u about e

position == <<running, kept, offset, skipped>>
notifierVars == <<position, handling, notified, pref, request, mailed>>
vars == <<outboxVars, notifierVars>>
prefVars == <<pref, request>>

TypeOK ==
    /\ OutboxTypeOK
    /\ running \in BOOLEAN /\ kept \in BOOLEAN /\ skipped \subseteq Events
    /\ offset \in [Events -> Nat] /\ notified \in [Events -> Nat]
    /\ handling \in SUBSET [event : Events,
                            step : {"save", "settings", "insert", "send"},
                            targets : Seq(Users)]
    /\ pref \in [Users -> Prefs]
    /\ request \in [Requests -> [pc : {"idle", "insert", "save", "done", "failed"},
                                 email : Prefs]]
    /\ mailed \in [Events -> [Users -> Nat]]

Init == /\ OutboxInit
        /\ running = FALSE /\ kept = FALSE /\ skipped = {}
        /\ offset = [e \in Events |-> 0]
        /\ handling = {}
        /\ notified = [e \in Events |-> 0]
        /\ pref \in Openings
        /\ request = [r \in Requests |-> [pc |-> "idle", email |-> "none"]]
        /\ mailed = [e \in Events |-> [u \in Users |-> 0]]

\* onModuleInit: without a committed position the consumer starts at the end,
\* the first time and again if it stopped before its first commit.
Subscribe ==
    /\ ~running
    /\ running' = TRUE
    /\ offset' = IF kept THEN offset ELSE topic
    /\ skipped' = skipped \cup {e \in Events : offset'[e] # offset[e]}
    /\ UNCHANGED <<outboxVars, kept, handling, notified, mailed, prefVars>>

\* eachMessage: one message at a time (one partition).
Deliver(e) ==
    /\ running /\ handling = {}
    /\ offset[e] < topic[e]
    /\ handling' = {[event |-> e, step |-> "save", targets |-> <<>>]}
    /\ UNCHANGED <<outboxVars, position, notified, mailed, prefVars>>

\* isInternalTransferCompleted: the events whose parties get e-mails.
isInternalTransferCompleted(message) ==
    /\ message.eventType = "transaction.completed" /\ message.internal
    /\ message.from # message.to

\* handleTransactionEvent: the notification rows are saved together; the sender's
\* e-mail is considered before the receiver's.
SaveNotifications(m) ==
    /\ m \in handling /\ m.step = "save"
    /\ notified' = [notified EXCEPT ![m.event] = @ + 1]
    /\ LET message == Message[m.event]
       IN handling' = {[m EXCEPT !.step = "settings",
                                 !.targets = IF isInternalTransferCompleted(message)
                                             THEN <<message.from, message.to>>
                                             ELSE <<>>]}
    /\ UNCHANGED <<outboxVars, position, mailed, prefVars>>

-----------------------------------------------------------------------------
(* sendBalanceChangeEmailIfEnabled, for the first of the targets.  Whatever *)
(* it throws is swallowed, so the handler goes on to the next.              *)

NextTarget(m) == [m EXCEPT !.step = "settings", !.targets = Tail(@)]

Target(m) == Head(m.targets)

\* getNotificationSettings, the lookup, and the test of emailEnabled.
MailSettings(m) ==
    /\ m \in handling /\ m.step = "settings" /\ m.targets # <<>>
    /\ handling' = {CASE pref[Target(m)] = "none" -> [m EXCEPT !.step = "insert"]
                      [] pref[Target(m)] = "on" -> [m EXCEPT !.step = "send"]
                      [] OTHER -> NextTarget(m)}
    /\ UNCHANGED <<outboxVars, position, notified, mailed, prefVars>>

\* Mutant: the default row is written over one that has appeared meanwhile.
CreateOver(u) == pref' = [pref EXCEPT ![u] = "off"]

\* getNotificationSettings, the insert of the default row: e-mail is off.  The
\* user id is unique, so a row that has appeared since makes it fail.
CreateDefault(u) ==
    pref' = IF pref[u] = "none" THEN [pref EXCEPT ![u] = "off"] ELSE pref

MailInsert(m) ==
    /\ m \in handling /\ m.step = "insert"
    /\ CreateDefault(Target(m))
    /\ handling' = {NextTarget(m)}
    /\ UNCHANGED <<outboxVars, position, notified, mailed, request>>

\* sendMail, with the profile and the SMTP server there or not.
MailSend(m) ==
    /\ m \in handling /\ m.step = "send"
    /\ handling' = {NextTarget(m)}
    /\ mailed' \in {mailed, [mailed EXCEPT ![m.event][Target(m)] = @ + 1]}
    /\ UNCHANGED <<outboxVars, position, notified, prefVars>>

\* Mutant: the offset is committed before the notifications are stored.
CommitEarly(m) ==
    /\ m \in handling
    /\ offset' = [offset EXCEPT ![m.event] = @ + 1]
    /\ handling' = {}
    /\ kept' = TRUE
    /\ UNCHANGED <<outboxVars, running, skipped, notified, mailed, prefVars>>

\* kafkajs (external) goes on to the next message once eachMessage has returned.
\* It commits its position at the end of the batch, which may be this message.
CommitOffset(m) ==
    /\ m \in handling /\ m.step = "settings" /\ m.targets = <<>>
    /\ offset' = [offset EXCEPT ![m.event] = @ + 1]
    /\ handling' = {}
    /\ kept' \in {kept, TRUE}
    /\ UNCHANGED <<outboxVars, running, skipped, notified, mailed, prefVars>>

\* The handler throws: the message is delivered again.
HandlerFails(m) ==
    /\ m \in handling
    /\ handling' = {}
    /\ Fault
    /\ UNCHANGED <<evt, task, topic, position, notified, mailed, prefVars>>

\* The service stops, or kafkajs has given up on a handler that throws again and
\* again and starts the consumer anew.
ConsumerStops ==
    /\ running
    /\ running' = FALSE
    /\ handling' = {}
    /\ Fault
    /\ UNCHANGED <<evt, task, topic, kept, offset, skipped, notified, mailed, prefVars>>

-----------------------------------------------------------------------------
(* updateNotificationSettings.                                             *)

\* The lookup; the request works on the row it read.
RequestReads(r) ==
    /\ request[r].pc = "idle"
    /\ LET found == pref[Wants[r].user]
       IN request' = [request EXCEPT ![r] =
                        IF found = "none" THEN [pc |-> "insert", email |-> "none"]
                        ELSE [pc |-> "save", email |-> found]]
    /\ UNCHANGED <<outboxVars, position, handling, notified, pref, mailed>>

\* The insert of the default row; when it fails, so does the request.
RequestInserts(r) ==
    /\ request[r].pc = "insert"
    /\ CreateDefault(Wants[r].user)
    /\ request' = [request EXCEPT ![r] =
                     IF pref[Wants[r].user] = "none"
                     THEN [pc |-> "save", email |-> "off"]
                     ELSE [pc |-> "failed", email |-> "none"]]
    /\ UNCHANGED <<outboxVars, position, handling, notified, mailed>>

\* The save of the whole row as it was read, but for the fields of the request.
RequestSaves(r) ==
    /\ request[r].pc = "save"
    /\ LET u == Wants[r].user
           value == IF Wants[r].email = "keep" THEN request[r].email
                    ELSE Wants[r].email
       IN /\ pref' = [pref EXCEPT ![u] = value]
    /\ request' = [request EXCEPT ![r] = [pc |-> "done", email |-> "none"]]
    /\ UNCHANGED <<outboxVars, position, handling, notified, mailed>>

RequestStep(r) == RequestReads(r) \/ RequestInserts(r) \/ RequestSaves(r)

ConsumerStep ==
    \/ Subscribe
    \/ \E e \in Events : Deliver(e)
    \/ \E m \in handling : \/ SaveNotifications(m)
                           \/ MailSettings(m) \/ MailInsert(m) \/ MailSend(m)
                           \/ CommitOffset(m)

Next == \/ OutboxNext /\ UNCHANGED notifierVars
        \/ ConsumerStep
        \/ ConsumerStops \/ \E m \in handling : HandlerFails(m)
        \/ \E r \in Requests : RequestStep(r)

Spec == Init /\ [][Next]_vars

FairSpec == Spec /\ OutboxFairness /\ WF_vars(ConsumerStep)

-----------------------------------------------------------------------------
\* Without a crash, a lost save, a late lease or a late answer nobody is notified
\* or e-mailed twice of an event, however many dispatchers there are: claiming
\* takes a lease and publishClaimedEvent rechecks it.
NotifiedOnceWithoutFaults ==
    faults = 0 => \A e \in Events :
                     notified[e] <= 1 /\ \A u \in Users : mailed[e][u] <= 1

\* Everything in the topic is notified in the end, through handlers that throw
\* and consumers that stop, unless the consumer started at the end of the topic
\* with the event before it: sent before the first start, or seen but not handled
\* by a consumer that stopped before the group's first commit (eachMessage
\* commits after handleTransactionEvent, and subscribe says fromBeginning: false).
EventuallyNotified ==
    \A e \in Events : (topic[e] > 0) ~> (notified[e] > 0 \/ e \in skipped)

\* What a user chose stands until a request of the user's own: the handler that
\* creates the default row, and a request that does so for the first time, never
\* write over it (getNotificationSettings and the unique index behind it).
ChoiceStands ==
    [][\A u \in Users :
        pref[u] # "none" /\ pref'[u] # pref[u]
        => \E r \in Requests : /\ Wants[r].user = u /\ request[r].pc = "save"
                               /\ request'[r].pc = "done"]_vars

=============================================================================
