--------------------------- MODULE OutsidePayment ---------------------------
(***************************************************************************)
(* The outside-payment service for one wallet transaction: the row of the  *)
(* external_transfers table that belongs to it, the InitiateTransfer calls *)
(* the transaction service makes for it, and the partner (bank or momo)    *)
(* behind the service.  Only the handlers' control is kept; the payloads   *)
(* the partner adapters build and parse are reduced to the three statuses  *)
(* extractStatus can return.                                               *)
(***************************************************************************)
CONSTANTS Calls,    \* InitiateTransfer calls, one per request handler
          Polls     \* settlement cycles that may call CheckTransfer

VARIABLES call,     \* call[c]: how far InitiateTransfer call c has come
          transfer, \* the external_transfers row of the transaction
          partner,  \* partner[c]: what the partner did with c's submission
          poll      \* poll[p]: how far CheckTransfer call p has come

opVars == <<call, transfer, partner, poll>>

-----------------------------------------------------------------------------
TransferStatus == {"SUBMITTED", "SETTLED", "FAILED"}

NoTransfer == [status |-> "ABSENT"]

\* A row: its status and the call whose partnerRef it carries.
TransferRow == [status : TransferStatus, by : Calls]

\* "sent": request on the wire; "calling": no row was found and the partner is
\* being asked; "insert*": the partner's answer is about to be stored; "reply*":
\* the answer (or the exception of a failed insert) is on its way back.
CallState == {"unsent", "sent", "calling", "insertSUBMITTED", "insertFAILED",
              "replySUBMITTED", "replySETTLED", "replyFAILED", "replyERROR"}

\* "open": the partner accepted the submission and has not decided yet; then its
\* decision as extractStatus reads its answers (PartnerAdapter
\* compares the reading with what the partner did).
PartnerState == {"none", "open", "settled", "failed"}

\* "read": the row was SUBMITTED and the partner is being polled; "is*": the
\* status CheckTransfer answers.
PollState == {"idle", "read", "isSUBMITTED", "isSETTLED", "isFAILED"}

OPTypeOK ==
    /\ call \in [Calls -> CallState]
    /\ transfer \in TransferRow \cup {NoTransfer}
    /\ partner \in [Calls -> PartnerState]
    /\ poll \in [Polls -> PollState]

OPInit ==
    /\ call = [c \in Calls |-> "unsent"]
    /\ transfer = NoTransfer
    /\ partner = [c \in Calls |-> "none"]
    /\ poll = [p \in Polls |-> "idle"]

Reply(s) == CASE s = "SUBMITTED" -> "replySUBMITTED"
              [] s = "SETTLED"   -> "replySETTLED"
              [] s = "FAILED"    -> "replyFAILED"

Answer(s) == CASE s = "SUBMITTED" -> "isSUBMITTED"
               [] s = "SETTLED"   -> "isSETTLED"
               [] s = "FAILED"    -> "isFAILED"

-----------------------------------------------------------------------------
\* initiateTransfer, the idempotency lookup: a row of this transaction is
\* answered with its current status, whatever that is.
InitiateLookup(c) ==
    /\ call[c] = "sent"
    /\ call' = [call EXCEPT ![c] = IF transfer = NoTransfer
                                   THEN "calling"
                                   ELSE Reply(transfer.status)]
    /\ UNCHANGED <<transfer, partner, poll>>

\* initiateViaPartner: the partner accepts and says so.
PartnerAccepts(c) ==
    /\ call[c] = "calling"
    /\ partner' = [partner EXCEPT ![c] = "open"]
    /\ call' = [call EXCEPT ![c] = "insertSUBMITTED"]
    /\ UNCHANGED <<transfer, poll>>

\* initiateViaPartner, FAILED result: the partner rejects, or it accepts but
\* its answer is lost or unreadable and the catch branch reports FAILED.
PartnerFails(c) ==
    /\ call[c] = "calling"
    /\ \E p \in {"none", "open"} : partner' = [partner EXCEPT ![c] = p]
    /\ call' = [call EXCEPT ![c] = "insertFAILED"]
    /\ UNCHANGED <<transfer, poll>>

\* initiateTransfer, the insert: transactionId is unique, so the second of two
\* concurrent calls fails here, after its own partner submission.
InitiateInsert(c) ==
    /\ call[c] \in {"insertSUBMITTED", "insertFAILED"}
    /\ LET s == IF call[c] = "insertSUBMITTED" THEN "SUBMITTED" ELSE "FAILED"
       IN IF transfer = NoTransfer
          THEN /\ transfer' = [status |-> s, by |-> c]
               /\ call' = [call EXCEPT ![c] = Reply(s)]
          ELSE /\ call' = [call EXCEPT ![c] = "replyERROR"]
               /\ UNCHANGED transfer
    /\ UNCHANGED <<partner, poll>>

\* The partner (external) settles or refuses an accepted submission.
PartnerDecides(c) ==
    /\ partner[c] = "open"
    /\ \E p \in {"settled", "failed"} : partner' = [partner EXCEPT ![c] = p]
    /\ UNCHANGED <<call, transfer, poll>>

-----------------------------------------------------------------------------
\* What a poll of the partner can yield for the row's submission: nothing new
\* (still pending, a 5xx answer or an exception), the partner's decision, or
\* FAILED because an error answer below 500 carries no status.
PolledStatus ==
    {"SUBMITTED", "FAILED"}
      \cup (IF partner[transfer.by] = "settled" THEN {"SETTLED"} ELSE {})

\* checkTransfer, the lookup: only a SUBMITTED row is polled.
CheckRead(p) ==
    /\ poll[p] = "idle"
    /\ transfer # NoTransfer
    /\ poll' = [poll EXCEPT ![p] = IF transfer.status = "SUBMITTED"
                                   THEN "read"
                                   ELSE Answer(transfer.status)]
    /\ UNCHANGED <<call, transfer, partner>>

\* checkTransfer, the partner's answer: a final status overwrites the row, which
\* another poll may have finalised since it was read.
CheckSave(p) ==
    /\ poll[p] = "read"
    /\ \E s \in PolledStatus :
          /\ poll' = [poll EXCEPT ![p] = Answer(s)]
          /\ transfer' = IF s \in {"SETTLED", "FAILED"}
                         THEN [transfer EXCEPT !.status = s]
                         ELSE transfer
    /\ UNCHANGED <<call, partner>>

OPNext ==
    \/ \E c \in Calls : \/ InitiateLookup(c)
                        \/ PartnerAccepts(c)
                        \/ PartnerFails(c)
                        \/ InitiateInsert(c)
                        \/ PartnerDecides(c)
    \/ \E p \in Polls : CheckSave(p)

=============================================================================
