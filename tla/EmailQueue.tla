----------------------------- MODULE EmailQueue -----------------------------
(***************************************************************************)
(* One Email Queue record (frappe/email/doctype/email_queue, email/queue): *)
(* the scheduled flush, send_now from the web, the reaper of sends that    *)
(* stalled, crashes between SMTP and the database.  Every status change is *)
(* committed on its own; an UPDATE of the record fails when the record     *)
(* changed after the snapshot of the transaction (REPEATABLE READ).        *)
(***************************************************************************)
EXTENDS Naturals

CONSTANTS Recipient,
          Flusher,      \* workers that run the scheduled flush
          Web,          \* web workers that run send_now
          RetryLimit,   \* email_retry_limit
          MayOverrun,   \* a live sender may take more than 15 minutes
          MayForce,     \* users press "Force Send"
          MaxAttempts,  \* bound: sends started
          MaxManual     \* bound: retry_sending and forced sends

Sender == Flusher \cup Web

ASSUME EmailAssumption ==
  /\ RetryLimit \in Nat /\ MaxAttempts \in Nat /\ MaxManual \in Nat
  /\ MayOverrun \in BOOLEAN /\ MayForce \in BOOLEAN

VARIABLES
  status,     \* the record's status
  retry,      \* the record's retry
  sentTo,     \* recipients whose row is Sent
  aged,       \* the record's `modified` is more than 15 minutes old
  suspended,  \* the suspend_email_queue default
  phase,      \* phase[p]: what sender p is doing
  todo,       \* todo[p]: recipients p still has to send to, by its copy
  accepted,   \* accepted[p]: the recipient SMTP just accepted, if any
  memRetry,   \* memRetry[p]: retry in p's copy
  partly,     \* partly[p]: sent_to_atleast_one_recipient
  reaper,     \* retry_sending_emails: "idle", or "listed" this record
  delivered,  \* history: how often SMTP accepted the mail for a recipient
  causes,     \* history: what can explain a duplicate
  attempts,   \* history: sends started
  manual      \* history: manual retries and forced sends

copies == <<todo, accepted, memRetry, partly>>
record == <<status, retry, aged>>
vars == <<record, sentTo, suspended, phase, copies, reaper, delivered, causes,
          attempts, manual>>

Status == {"Not Sent", "Partially Sent", "Sending", "Sent", "Error"}
Phases == {"idle", "read", "force", "stale", "sending"}

TypeOK ==
  /\ status \in Status
  /\ retry \in 0 .. RetryLimit
  /\ sentTo \subseteq Recipient
  /\ aged \in BOOLEAN /\ suspended \in BOOLEAN
  /\ phase \in [Sender -> Phases]
  /\ todo \in [Sender -> SUBSET Recipient]
  /\ accepted \in [Sender -> SUBSET Recipient]
  /\ memRetry \in [Sender -> 0 .. RetryLimit]
  /\ partly \in [Sender -> BOOLEAN]
  /\ reaper \in {"idle", "listed"}
  /\ delivered \in [Recipient -> Nat]
  /\ causes \subseteq {"interrupted", "forced", "overran"}
  /\ attempts \in Nat /\ manual \in Nat

Init ==
  /\ status = "Not Sent" /\ retry = 0 /\ sentTo = {}
  /\ aged = FALSE /\ suspended = FALSE
  /\ phase = [p \in Sender |-> "idle"]
  /\ todo = [p \in Sender |-> {}]
  /\ accepted = [p \in Sender |-> {}]
  /\ memRetry = [p \in Sender |-> 0]
  /\ partly = [p \in Sender |-> FALSE]
  /\ reaper = "idle"
  /\ delivered = [r \in Recipient |-> 0]
  /\ causes = {} /\ attempts = 0 /\ manual = 0

-----------------------------------------------------------------------------
(* Helpers.                                                                *)

Live(p) == phase[p] = "sending"

SomeoneLive == \E p \in Sender : Live(p)

MIsToBeSent == status # "Sent"

IsToBeSent == status \in {"Not Sent", "Partially Sent"}

CanSendNow == IsToBeSent /\ ~suspended

(* A transaction that read the record before it changed cannot update it.  *)
Invalidated ==
  [q \in Sender |-> IF phase[q] \in {"read", "force"} THEN "stale" ELSE phase[q]]

(* update_status: the record's new status and retry, stamped now.          *)
UpdateStatus(s, n) == status' = s /\ retry' = n /\ aged' = FALSE

MMayRetry(n) == n <= RetryLimit

MayRetry(n) == n < RetryLimit

(* What a send that failed or stalled makes of the record, from a retry    *)
(* count n and whether some recipient was sent to.                         *)
GiveBack(n, some) ==
  IF MayRetry(n)
  THEN UpdateStatus(IF some THEN "Partially Sent" ELSE "Not Sent", n + 1)
  ELSE UpdateStatus("Error", retry)

(* get_doc: p's copy of the record and its recipients.                     *)
Copy(p) ==
  /\ todo' = [todo EXCEPT ![p] = Recipient \ sentTo]
  /\ memRetry' = [memRetry EXCEPT ![p] = retry]
  /\ partly' = [partly EXCEPT ![p] = sentTo # {}]
  /\ UNCHANGED accepted

Forget(p) ==
  /\ todo' = [todo EXCEPT ![p] = {}]
  /\ accepted' = [accepted EXCEPT ![p] = {}]
  /\ memRetry' = [memRetry EXCEPT ![p] = 0]
  /\ partly' = [partly EXCEPT ![p] = FALSE]

(* SMTP accepted a mail and the recipient's row does not say so.           *)
Interrupted(p) ==
  IF accepted[p] = {} THEN causes ELSE causes \cup {"interrupted"}

-----------------------------------------------------------------------------
(* Starting a send.                                                        *)

(* flush: get_doc for update, can_send_now, and SendMailContext.__enter__, *)
(* which commits "Sending" and with it gives up the row lock.              *)
FlushPick(p) ==
  /\ phase[p] = "idle"
  /\ CanSendNow
  /\ attempts < MaxAttempts
  /\ attempts' = attempts + 1
  /\ Copy(p)
  /\ UpdateStatus("Sending", retry)
  /\ phase' = [Invalidated EXCEPT ![p] = "sending"]
  /\ UNCHANGED <<sentTo, suspended, reaper, delivered, causes, manual>>

(* send_now reads the record without locking it, and checks it unless the  *)
(* send is forced.                                                         *)
ReadRecord(p) ==
  /\ phase[p] = "idle"
  /\ CanSendNow
  /\ phase' = [phase EXCEPT ![p] = "read"]
  /\ Copy(p)
  /\ UNCHANGED <<record, sentTo, suspended, reaper, delivered, causes, attempts,
                 manual>>

ReadForced(p) ==
  /\ phase[p] = "idle"
  /\ MayForce /\ manual < MaxManual
  /\ manual' = manual + 1
  /\ phase' = [phase EXCEPT ![p] = "force"]
  /\ Copy(p)
  /\ UNCHANGED <<record, sentTo, suspended, reaper, delivered, causes, attempts>>

(* ... then __enter__ commits "Sending".                                   *)
SendNow(p) ==
  /\ phase[p] \in {"read", "force"}
  /\ attempts < MaxAttempts
  /\ attempts' = attempts + 1
  /\ UpdateStatus("Sending", retry)
  /\ phase' = [Invalidated EXCEPT ![p] = "sending"]
  /\ causes' = IF phase[p] = "force" /\ status = "Sending"
               THEN causes \cup {"forced"} ELSE causes
  /\ UNCHANGED <<sentTo, suspended, copies, reaper, delivered, manual>>

(* ... or fails, because the record changed after it was read.             *)
SendNowConflict(p) ==
  /\ phase[p] = "stale"
  /\ phase' = [phase EXCEPT ![p] = "idle"]
  /\ Forget(p)
  /\ UNCHANGED <<record, sentTo, suspended, reaper, delivered, causes, attempts,
                 manual>>

-----------------------------------------------------------------------------
(* EmailQueue.send, under SendMailContext.                                 *)

(* sendmail: the SMTP server accepts the message for the next recipient.   *)
Deliver(p, r) ==
  /\ Live(p) /\ accepted[p] = {}
  /\ r \in todo[p]
  /\ delivered' = [delivered EXCEPT ![r] = @ + 1]
  /\ todo' = [todo EXCEPT ![p] = @ \ {r}]
  /\ accepted' = [accepted EXCEPT ![p] = {r}]
  /\ UNCHANGED <<record, sentTo, suspended, phase, memRetry, partly, reaper,
                 causes, attempts, manual>>

(* update_recipient_status_to_sent, committed.                             *)
RecordSent(p) ==
  /\ Live(p) /\ accepted[p] # {}
  /\ sentTo' = sentTo \cup accepted[p]
  /\ accepted' = [accepted EXCEPT ![p] = {}]
  /\ partly' = [partly EXCEPT ![p] = TRUE]
  /\ UNCHANGED <<record, suspended, phase, todo, memRetry, reaper, delivered,
                 causes, attempts, manual>>

MAllSent(p) == partly[p]

AllSent(p) == todo[p] = {}

(* __exit__ without an exception.                                          *)
Succeed(p) ==
  /\ Live(p) /\ accepted[p] = {}
  /\ AllSent(p)
  /\ UpdateStatus("Sent", retry)
  /\ phase' = [Invalidated EXCEPT ![p] = "idle"]
  /\ Forget(p)
  /\ UNCHANGED <<sentTo, suspended, reaper, delivered, causes, attempts, manual>>

(* __exit__ with an exception: the server refuses, a timeout, the job is   *)
(* stopped.  It uses the retry count of p's copy.                          *)
Fail(p) ==
  /\ Live(p)
  /\ GiveBack(memRetry[p], partly[p])
  /\ phase' = [Invalidated EXCEPT ![p] = "idle"]
  /\ causes' = Interrupted(p)
  /\ Forget(p)
  /\ UNCHANGED <<sentTo, suspended, reaper, delivered, attempts, manual>>

(* The worker dies; the record stays "Sending".                            *)
Crash(p) ==
  /\ Live(p)
  /\ phase' = [phase EXCEPT ![p] = "idle"]
  /\ causes' = Interrupted(p)
  /\ Forget(p)
  /\ UNCHANGED <<record, sentTo, suspended, reaper, delivered, attempts, manual>>

-----------------------------------------------------------------------------
(* The reaper, retry_sending_emails, and the administrator.                *)

(* Fifteen minutes pass after the last change of the record.               *)
Age ==
  /\ status = "Sending" /\ ~aged
  /\ MayOverrun \/ ~SomeoneLive
  /\ aged' = TRUE
  /\ UNCHANGED <<status, retry, sentTo, suspended, phase, copies, reaper,
                 delivered, causes, attempts, manual>>

MStalled == status = "Sending" /\ aged /\ retry > 0

Stalled == status = "Sending" /\ aged

(* get_all lists the record among those stuck in "Sending" ...             *)
ReaperLists ==
  /\ reaper = "idle"
  /\ Stalled
  /\ reaper' = "listed"
  /\ UNCHANGED <<record, sentTo, suspended, phase, copies, delivered, causes,
                 attempts, manual>>

(* ... and later gives it back, without looking at its status again.       *)
ReaperGivesBack ==
  /\ reaper = "listed"
  /\ reaper' = "idle"
  /\ GiveBack(retry, sentTo # {})
  /\ phase' = Invalidated
  /\ causes' = IF SomeoneLive THEN causes \cup {"overran"} ELSE causes
  /\ UNCHANGED <<sentTo, suspended, copies, delivered, attempts, manual>>

(* retry_sending; the retry count stays.                                   *)
RetrySending ==
  /\ status = "Error"
  /\ manual < MaxManual
  /\ manual' = manual + 1
  /\ UpdateStatus("Not Sent", retry)
  /\ phase' = Invalidated
  /\ UNCHANGED <<sentTo, suspended, copies, reaper, delivered, causes, attempts>>

ToggleSending ==
  /\ suspended' = ~suspended
  /\ UNCHANGED <<record, sentTo, phase, copies, reaper, delivered, causes,
                 attempts, manual>>

-----------------------------------------------------------------------------
Start(p) == (p \in Flusher /\ FlushPick(p)) \/ (p \in Web /\ (ReadRecord(p) \/ ReadForced(p)))

Progress(p) ==
  \/ SendNow(p) \/ SendNowConflict(p)
  \/ \E r \in Recipient : Deliver(p, r)
  \/ RecordSent(p) \/ Succeed(p) \/ Fail(p)

Next ==
  \/ \E p \in Sender : Start(p) \/ Progress(p) \/ Crash(p)
  \/ Age \/ ReaperLists \/ ReaperGivesBack \/ RetrySending \/ ToggleSending

Spec == Init /\ [][Next]_vars

(* The scheduler runs flush and the reaper again and again, a live sender  *)
(* goes on, time passes.  Nobody has to press a button.                    *)
Fairness ==
  /\ \A p \in Flusher : WF_vars(FlushPick(p))
  /\ \A p \in Sender : WF_vars(Progress(p))
  /\ WF_vars(Age) /\ WF_vars(ReaperLists) /\ WF_vars(ReaperGivesBack)

FairSpec == Spec /\ Fairness

-----------------------------------------------------------------------------
(* Properties.                                                             *)

(* A record that says Sent was delivered to every recipient, and so was a  *)
(* recipient whose row says Sent, whatever senders and reapers overlapped. *)
SentMeansDelivered ==
  /\ status = "Sent" => \A r \in Recipient : delivered[r] > 0
  /\ \A r \in sentTo : delivered[r] > 0

(* Nobody gets the mail twice, unless a sender was interrupted between the *)
(* SMTP server's answer and the commit of the recipient's row, a send was  *)
(* forced on a record that was being sent, or the reaper took a record     *)
(* from a sender that was still alive after 15 minutes.                    *)
DuplicatesHaveACause == (\E r \in Recipient : delivered[r] > 1) => causes # {}

(* However sends fail, stall or crash, a record is tried at most           *)
(* RetryLimit + 1 times, and once more for every manual retry, as long as  *)
(* senders do not overlap.                                                 *)
RetryBudget ==
  causes \cap {"forced", "overran"} = {} => attempts <= RetryLimit + 1 + manual

(* A record does not stay "Sending" or "Not Sent": once sending is no      *)
(* longer suspended, it ends as Sent or Error, as long as senders do not   *)
(* overlap.                                                                *)
EmailSettles ==
  <>[](~suspended) /\ [](causes \cap {"forced", "overran"} = {}) =>
     <>[](status \in {"Sent", "Error"})
=============================================================================
