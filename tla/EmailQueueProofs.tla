--------------------------- MODULE EmailQueueProofs ---------------------------
(***************************************************************************)
(* Sent means delivered, duplicates have a cause and retries are bounded,  *)
(* for any number of recipients, senders and retries: the inductive        *)
(* invariant, one lemma per action that preserves it, and what follows.    *)
(***************************************************************************)
EXTENDS EmailQueue, TLAPS

(* No send was forced on a live one, and the reaper took none away.        *)
NoOverlap == causes \cap {"forced", "overran"} = {}

(* Who is not on a sender's list any more was delivered to.                *)
DeliveriesAreKept ==
  /\ SentMeansDelivered
  /\ \A p \in Sender :
       /\ \A r \in accepted[p] : delivered[r] > 0
       /\ phase[p] # "idle" => \A r \in Recipient \ todo[p] : delivered[r] > 0

OnlySendersAccept ==
  \A p \in Sender : Live(p) \/ accepted[p] = {}

(* Without an overlap there is one live sender, the record says so, and    *)
(* the copies that can still be written are the record.                    *)
OneSender ==
  NoOverlap =>
    \A p \in Sender :
      /\ Live(p) => /\ status = "Sending" /\ memRetry[p] = retry
                    /\ \A q \in Sender : Live(q) => q = p
      /\ phase[p] = "read" => IsToBeSent /\ memRetry[p] = retry
      /\ phase[p] = "force" => memRetry[p] = retry

(* Without any cause a recipient has the mail once; his row says so, or    *)
(* the live sender is about to write it.                                   *)
SentOnce ==
  causes = {} =>
    /\ \A p \in Sender :
         /\ Live(p) => /\ todo[p] \cap sentTo = {}
                       /\ todo[p] \cap accepted[p] = {}
         /\ phase[p] = "read" => todo[p] = Recipient \ sentTo
         /\ phase[p] = "force" => status = "Sending" \/ todo[p] = Recipient \ sentTo
    /\ \A r \in Recipient :
         /\ delivered[r] <= 1
         /\ delivered[r] > 0 =>
              r \in sentTo \/ \E p \in Sender : Live(p) /\ r \in accepted[p]

(* Every send is paid for, by a retry, by hand or by being the last one; a *)
(* forced one is paid for when the record is read.                         *)
Pending == IF \E p \in Sender : phase[p] = "force" THEN 1 ELSE 0
Taken == IF IsToBeSent THEN 0 ELSE 1
SendsAreCounted == NoOverlap => attempts + Pending <= retry + manual + Taken

IInv ==
  /\ TypeOK /\ DeliveriesAreKept /\ OnlySendersAccept
  /\ OneSender /\ SentOnce /\ SendsAreCounted

-----------------------------------------------------------------------------
(* A record that was just queued satisfies it.                             *)
LEMMA InitInv == Init => IInv
<1>. SUFFICES ASSUME Init PROVE IInv
  OBVIOUS
<1>1. TypeOK
  <2>1. aged \in BOOLEAN /\ suspended \in BOOLEAN
    BY Zenon DEF Init
  <2>2. partly \in [Sender -> BOOLEAN]
    BY DEF Init
  <2>3. retry \in 0 .. RetryLimit /\ memRetry \in [Sender -> 0 .. RetryLimit]
    <3>1. retry = 0 /\ memRetry = [p \in Sender |-> 0]
      BY DEF Init
    <3>2. 0 \in 0 .. RetryLimit
      BY EmailAssumption DEF EmailAssumption
    <3>. QED
      BY <3>1, <3>2
  <2>4. phase \in [Sender -> Phases] /\ delivered \in [Recipient -> Nat]
    BY DEF Phases, Init
  <2>. QED
    BY <2>1, <2>2, <2>3, <2>4 DEF TypeOK, Status, Init
<1>2. DeliveriesAreKept
  BY DEF DeliveriesAreKept, SentMeansDelivered, Init
<1>3. OnlySendersAccept
  BY DEF OnlySendersAccept, Init
<1>4. OneSender
  BY DEF OneSender, Init, Live
<1>5. SentOnce
  <2>1. \A r \in Recipient : delivered[r] = 0
    BY DEF Init
  <2>2. \A p \in Sender : ~Live(p) /\ phase[p] # "read" /\ phase[p] # "force"
    BY DEF Init, Live
  <2>. QED
    BY <1>1, <2>1, <2>2 DEF SentOnce, TypeOK
<1>6. SendsAreCounted
  <2>1. Pending = 0 /\ Taken = 0
    BY DEF Pending, Taken, IsToBeSent, Init
  <2>2. attempts = 0
    BY DEF Init
  <2>. QED
    BY <1>1, <2>1, <2>2 DEF SendsAreCounted, TypeOK
<1>. QED
  BY <1>1, <1>2, <1>3, <1>4, <1>5, <1>6 DEF IInv

(* The flush takes a record nobody is sending.                             *)
LEMMA FlushPickInv == ASSUME IInv, NEW p \in Sender, FlushPick(p) PROVE IInv'
<1>0. /\ TypeOK /\ DeliveriesAreKept /\ OnlySendersAccept
      /\ OneSender /\ SentOnce /\ SendsAreCounted
  BY DEF IInv
<1>a. attempts' = attempts + 1 /\ manual' = manual /\ retry' = retry
  BY DEF FlushPick, UpdateStatus, record
<1>b. status' = "Sending"
  BY DEF FlushPick, UpdateStatus, record
<1>c. /\ attempts \in Nat /\ manual \in Nat /\ RetryLimit \in Nat
      /\ retry \in 0 .. RetryLimit
  BY <1>0, EmailAssumption DEF EmailAssumption, TypeOK
<1>1. TypeOK'
  <2>1a. status' \in Status
    BY <1>0, <1>b DEF TypeOK, Status
  <2>1b. retry' \in 0 .. RetryLimit
    BY <1>a, <1>c
  <2>1c. memRetry' \in [Sender -> 0 .. RetryLimit]
    <3>1. 0 \in 0 .. RetryLimit
      BY EmailAssumption DEF EmailAssumption
    <3>. QED
      BY <1>0, <3>1 DEF TypeOK, FlushPick, Live, IsToBeSent, Invalidated,
         UpdateStatus, Copy, Forget, copies, record, CanSendNow
  <2>1d. phase' \in [Sender -> Phases]
    BY <1>0 DEF TypeOK, Phases, FlushPick, Live, IsToBeSent, Invalidated,
       UpdateStatus, Copy, Forget, copies, record, CanSendNow
  <2>1e. attempts' \in Nat /\ manual' \in Nat
    BY <1>a, <1>c
  <2>2. /\ sentTo' \subseteq Recipient /\ todo' \in [Sender -> SUBSET Recipient]
        /\ accepted' \in [Sender -> SUBSET Recipient]
        /\ causes' \subseteq {"interrupted", "forced", "overran"}
        /\ reaper' \in {"idle", "listed"} /\ delivered' \in [Recipient -> Nat]
    BY <1>0 DEF TypeOK, FlushPick, Live, IsToBeSent, Invalidated,
       UpdateStatus, Copy, Forget, copies, record, CanSendNow
  <2>3. aged' \in BOOLEAN /\ suspended' \in BOOLEAN
    BY <1>0, Zenon DEF TypeOK, FlushPick, Live, IsToBeSent, Invalidated,
       UpdateStatus, Copy, Forget, copies, record, CanSendNow
  <2>4. partly' \in [Sender -> BOOLEAN]
    BY <1>0 DEF TypeOK, FlushPick, Live, IsToBeSent, Invalidated,
       UpdateStatus, Copy, Forget, copies, record, CanSendNow
  <2>. QED
    BY <2>1a, <2>1b, <2>1c, <2>1d, <2>1e, <2>2, <2>3, <2>4 DEF TypeOK
<1>2. DeliveriesAreKept'
  BY <1>0 DEF DeliveriesAreKept, SentMeansDelivered, TypeOK, FlushPick, Live,
     IsToBeSent, Invalidated, UpdateStatus, Copy, Forget, copies, record, CanSendNow
<1>3. OnlySendersAccept'
  BY <1>0 DEF OnlySendersAccept, TypeOK, FlushPick, Live, IsToBeSent,
     Invalidated, UpdateStatus, Copy, Forget, copies, record, CanSendNow
<1>4. OneSender'
  BY <1>0 DEF OneSender, NoOverlap, TypeOK, FlushPick, Live, IsToBeSent,
     Invalidated, UpdateStatus, Copy, Forget, copies, record, CanSendNow
<1>5. SentOnce'
  BY <1>0 DEF SentOnce, OneSender, NoOverlap, OnlySendersAccept, TypeOK,
     FlushPick, Live, IsToBeSent, Invalidated, UpdateStatus, Copy, Forget, copies, record, CanSendNow
<1>6. SendsAreCounted'
  <2>. SUFFICES ASSUME NoOverlap' PROVE attempts' + Pending' <= retry' + manual' + Taken'
    BY DEF SendsAreCounted
  <2>1. NoOverlap
    BY <1>0 DEF NoOverlap, TypeOK, FlushPick, Live, IsToBeSent, Invalidated,
       UpdateStatus, Copy, Forget, copies, record, CanSendNow
  <2>2. attempts + Pending <= retry + manual + Taken
    BY <1>0, <2>1 DEF SendsAreCounted
  <2>3. \A q \in Sender : phase'[q] # "force"
    BY <1>0 DEF TypeOK, FlushPick, Live, IsToBeSent, Invalidated,
       UpdateStatus, Copy, Forget, copies, record, CanSendNow
  <2>4. Pending' = 0 /\ Pending \in 0 .. 1
    BY <2>3 DEF Pending
  <2>5. Taken = 0
    BY DEF Taken, FlushPick, Live, IsToBeSent, Invalidated, UpdateStatus,
       Copy, Forget, copies, record, CanSendNow
  <2>8. Taken \in 0 .. 1 /\ Taken' = 1
    BY <1>b DEF Taken, IsToBeSent
  <2>. QED
    BY <1>a, <1>c, <2>2, <2>4, <2>8, <2>5
<1>. QED
  BY <1>1, <1>2, <1>3, <1>4, <1>5, <1>6 DEF IInv

(* send_now reads a record that is to be sent ...                          *)
LEMMA ReadRecordInv == ASSUME IInv, NEW p \in Sender, ReadRecord(p) PROVE IInv'
<1>0. /\ TypeOK /\ DeliveriesAreKept /\ OnlySendersAccept
      /\ OneSender /\ SentOnce /\ SendsAreCounted
  BY DEF IInv
<1>1. TypeOK'
  BY <1>0 DEF TypeOK, Status, Phases, ReadRecord, Live, IsToBeSent,
     Invalidated, UpdateStatus, Copy, Forget, copies, record, CanSendNow
<1>2. DeliveriesAreKept'
  BY <1>0 DEF DeliveriesAreKept, SentMeansDelivered, TypeOK, ReadRecord,
     Live, IsToBeSent, Invalidated, UpdateStatus, Copy, Forget, copies, record, CanSendNow
<1>3. OnlySendersAccept'
  BY <1>0 DEF OnlySendersAccept, TypeOK, ReadRecord, Live, IsToBeSent,
     Invalidated, UpdateStatus, Copy, Forget, copies, record, CanSendNow
<1>4. OneSender'
  BY <1>0 DEF OneSender, NoOverlap, TypeOK, ReadRecord, Live, IsToBeSent,
     Invalidated, UpdateStatus, Copy, Forget, copies, record, CanSendNow
<1>5. SentOnce'
  <2>. SUFFICES ASSUME causes = {} PROVE SentOnce'
    BY DEF SentOnce, ReadRecord, Live, IsToBeSent, Invalidated, UpdateStatus,
       Copy, Forget, copies, record, CanSendNow
  <2>1. /\ \A q \in Sender \ {p} : /\ phase'[q] = phase[q] /\ todo'[q] = todo[q]
        /\ phase'[p] = "read" /\ todo'[p] = Recipient \ sentTo
    BY <1>0 DEF TypeOK, ReadRecord, Live, IsToBeSent, Invalidated,
       UpdateStatus, Copy, Forget, copies, record, CanSendNow
  <2>3. /\ status' = status /\ sentTo' = sentTo /\ delivered' = delivered
        /\ accepted' = accepted /\ causes' = causes
    BY DEF ReadRecord, Live, IsToBeSent, Invalidated, UpdateStatus, Copy,
       Forget, copies, record, CanSendNow
  <2>4. phase'[p] # "force"
    BY <2>1
  <2>2. ~Live(p) /\ \A q \in Sender : Live(q)' <=> Live(q)
    BY <1>0 DEF TypeOK, ReadRecord, Live, IsToBeSent, Invalidated,
       UpdateStatus, Copy, Forget, copies, record, CanSendNow
  <2>. QED
    BY <1>0, <2>1, <2>2, <2>3, <2>4 DEF SentOnce
<1>6. SendsAreCounted'
  BY <1>0 DEF SendsAreCounted, OneSender, NoOverlap, Pending, Taken, TypeOK,
     ReadRecord, Live, IsToBeSent, Invalidated, UpdateStatus, Copy, Forget, copies, record, CanSendNow
<1>. QED
  BY <1>1, <1>2, <1>3, <1>4, <1>5, <1>6 DEF IInv

(* ... or any record, when the send is forced.                             *)
LEMMA ReadForcedInv == ASSUME IInv, NEW p \in Sender, ReadForced(p) PROVE IInv'
<1>0. /\ TypeOK /\ DeliveriesAreKept /\ OnlySendersAccept
      /\ OneSender /\ SentOnce /\ SendsAreCounted
  BY DEF IInv
<1>a. attempts' = attempts /\ manual' = manual + 1 /\ retry' = retry
  BY DEF ReadForced, UpdateStatus, record
<1>b. status' = status
  BY DEF ReadForced, UpdateStatus, record
<1>c. /\ attempts \in Nat /\ manual \in Nat /\ RetryLimit \in Nat
      /\ retry \in 0 .. RetryLimit
  BY <1>0, EmailAssumption DEF EmailAssumption, TypeOK
<1>1. TypeOK'
  <2>1a. status' \in Status
    BY <1>0, <1>b DEF TypeOK, Status
  <2>1b. retry' \in 0 .. RetryLimit
    BY <1>a, <1>c
  <2>1c. memRetry' \in [Sender -> 0 .. RetryLimit]
    <3>1. 0 \in 0 .. RetryLimit
      BY EmailAssumption DEF EmailAssumption
    <3>. QED
      BY <1>0, <3>1 DEF TypeOK, ReadForced, Live, IsToBeSent, Invalidated,
         UpdateStatus, Copy, Forget, copies, record
  <2>1d. phase' \in [Sender -> Phases]
    BY <1>0 DEF TypeOK, Phases, ReadForced, Live, IsToBeSent, Invalidated,
       UpdateStatus, Copy, Forget, copies, record
  <2>1e. attempts' \in Nat /\ manual' \in Nat
    BY <1>a, <1>c
  <2>2. /\ sentTo' \subseteq Recipient /\ todo' \in [Sender -> SUBSET Recipient]
        /\ accepted' \in [Sender -> SUBSET Recipient]
        /\ causes' \subseteq {"interrupted", "forced", "overran"}
        /\ reaper' \in {"idle", "listed"} /\ delivered' \in [Recipient -> Nat]
    BY <1>0 DEF TypeOK, ReadForced, Live, IsToBeSent, Invalidated,
       UpdateStatus, Copy, Forget, copies, record
  <2>3. aged' \in BOOLEAN /\ suspended' \in BOOLEAN
    BY <1>0, Zenon DEF TypeOK, ReadForced, Live, IsToBeSent, Invalidated,
       UpdateStatus, Copy, Forget, copies, record
  <2>4. partly' \in [Sender -> BOOLEAN]
    BY <1>0 DEF TypeOK, ReadForced, Live, IsToBeSent, Invalidated,
       UpdateStatus, Copy, Forget, copies, record
  <2>. QED
    BY <2>1a, <2>1b, <2>1c, <2>1d, <2>1e, <2>2, <2>3, <2>4 DEF TypeOK
<1>2. DeliveriesAreKept'
  BY <1>0 DEF DeliveriesAreKept, SentMeansDelivered, TypeOK, ReadForced,
     Live, IsToBeSent, Invalidated, UpdateStatus, Copy, Forget, copies, record
<1>3. OnlySendersAccept'
  BY <1>0 DEF OnlySendersAccept, TypeOK, ReadForced, Live, IsToBeSent,
     Invalidated, UpdateStatus, Copy, Forget, copies, record
<1>4. OneSender'
  BY <1>0 DEF OneSender, NoOverlap, TypeOK, ReadForced, Live, IsToBeSent,
     Invalidated, UpdateStatus, Copy, Forget, copies, record
<1>5. SentOnce'
  BY <1>0 DEF SentOnce, OneSender, NoOverlap, OnlySendersAccept, TypeOK,
     ReadForced, Live, IsToBeSent, Invalidated, UpdateStatus, Copy, Forget, copies, record
<1>6. SendsAreCounted'
  <2>. SUFFICES ASSUME NoOverlap' PROVE attempts' + Pending' <= retry' + manual' + Taken'
    BY DEF SendsAreCounted
  <2>1. Taken' = Taken
    BY <1>b DEF Taken, IsToBeSent
  <2>2. Pending \in 0 .. 1 /\ Pending' \in 0 .. 1
    BY DEF Pending
  <2>3. attempts + Pending <= retry + manual + Taken
    BY <1>0 DEF SendsAreCounted, NoOverlap, ReadForced, Live, IsToBeSent,
       Invalidated, UpdateStatus, Copy, Forget, copies, record
  <2>4. Taken \in 0 .. 1 /\ Taken' \in 0 .. 1
    BY DEF Taken
  <2>5. PICK k \in 0 .. 1 : Pending' = k
    BY <2>2
  <2>6. retry' + Taken' = retry + Taken
    BY <1>a, <2>1
  <2>. QED
    BY <1>a, <1>c, <2>1, <2>2, <2>3, <2>4, <2>5, <2>6
<1>. QED
  BY <1>1, <1>2, <1>3, <1>4, <1>5, <1>6 DEF IInv

(* A record that changed meanwhile was not taken.                          *)
LEMMA SendNowInv == ASSUME IInv, NEW p \in Sender, SendNow(p) PROVE IInv'
<1>0. /\ TypeOK /\ DeliveriesAreKept /\ OnlySendersAccept
      /\ OneSender /\ SentOnce /\ SendsAreCounted
  BY DEF IInv
<1>a. attempts' = attempts + 1 /\ manual' = manual /\ retry' = retry
  BY DEF SendNow, UpdateStatus, record
<1>b. status' = "Sending"
  BY DEF SendNow, UpdateStatus, record
<1>c. /\ attempts \in Nat /\ manual \in Nat /\ RetryLimit \in Nat
      /\ retry \in 0 .. RetryLimit
  BY <1>0, EmailAssumption DEF EmailAssumption, TypeOK
<1>1. TypeOK'
  <2>1a. status' \in Status
    BY <1>0, <1>b DEF TypeOK, Status
  <2>1b. retry' \in 0 .. RetryLimit
    BY <1>a, <1>c
  <2>1c. memRetry' \in [Sender -> 0 .. RetryLimit]
    <3>1. 0 \in 0 .. RetryLimit
      BY EmailAssumption DEF EmailAssumption
    <3>. QED
      BY <1>0, <3>1 DEF TypeOK, SendNow, Live, IsToBeSent, Invalidated,
         UpdateStatus, Copy, Forget, copies, record
  <2>1d. phase' \in [Sender -> Phases]
    BY <1>0 DEF TypeOK, Phases, SendNow, Live, IsToBeSent, Invalidated,
       UpdateStatus, Copy, Forget, copies, record
  <2>1e. attempts' \in Nat /\ manual' \in Nat
    BY <1>a, <1>c
  <2>2. /\ sentTo' \subseteq Recipient /\ todo' \in [Sender -> SUBSET Recipient]
        /\ accepted' \in [Sender -> SUBSET Recipient]
        /\ causes' \subseteq {"interrupted", "forced", "overran"}
        /\ reaper' \in {"idle", "listed"} /\ delivered' \in [Recipient -> Nat]
    BY <1>0 DEF TypeOK, SendNow, Live, IsToBeSent, Invalidated, UpdateStatus,
       Copy, Forget, copies, record
  <2>3. aged' \in BOOLEAN /\ suspended' \in BOOLEAN
    BY <1>0, Zenon DEF TypeOK, SendNow, Live, IsToBeSent, Invalidated,
       UpdateStatus, Copy, Forget, copies, record
  <2>4. partly' \in [Sender -> BOOLEAN]
    BY <1>0 DEF TypeOK, SendNow, Live, IsToBeSent, Invalidated, UpdateStatus,
       Copy, Forget, copies, record
  <2>. QED
    BY <2>1a, <2>1b, <2>1c, <2>1d, <2>1e, <2>2, <2>3, <2>4 DEF TypeOK
<1>2. DeliveriesAreKept'
  BY <1>0 DEF DeliveriesAreKept, SentMeansDelivered, TypeOK, SendNow, Live,
     IsToBeSent, Invalidated, UpdateStatus, Copy, Forget, copies, record
<1>3. OnlySendersAccept'
  BY <1>0 DEF OnlySendersAccept, TypeOK, SendNow, Live, IsToBeSent,
     Invalidated, UpdateStatus, Copy, Forget, copies, record
<1>4. OneSender'
  BY <1>0 DEF OneSender, NoOverlap, TypeOK, SendNow, Live, IsToBeSent,
     Invalidated, UpdateStatus, Copy, Forget, copies, record
<1>5. SentOnce'
  BY <1>0 DEF SentOnce, OneSender, NoOverlap, OnlySendersAccept, TypeOK,
     SendNow, Live, IsToBeSent, Invalidated, UpdateStatus, Copy, Forget, copies, record
<1>6. SendsAreCounted'
  <2>. SUFFICES ASSUME NoOverlap' PROVE attempts' + Pending' <= retry' + manual' + Taken'
    BY DEF SendsAreCounted
  <2>1. NoOverlap
    BY <1>0 DEF NoOverlap, TypeOK, SendNow, Live, IsToBeSent, Invalidated,
       UpdateStatus, Copy, Forget, copies, record
  <2>2. attempts + Pending <= retry + manual + Taken
    BY <1>0, <2>1 DEF SendsAreCounted
  <2>3. \A q \in Sender : phase'[q] # "force"
    BY <1>0 DEF TypeOK, SendNow, Live, IsToBeSent, Invalidated, UpdateStatus,
       Copy, Forget, copies, record
  <2>4. Pending' = 0 /\ Pending \in 0 .. 1
    BY <2>3 DEF Pending
  <2>5. phase[p] = "read" => Taken = 0
    BY <1>0, <2>1 DEF OneSender, Taken, IsToBeSent
  <2>6. phase[p] = "force" => Pending = 1
    BY DEF Pending
  <2>7. phase[p] \in {"read", "force"}
    BY DEF SendNow
  <2>8. Taken \in 0 .. 1 /\ Taken' = 1
    BY <1>b DEF Taken, IsToBeSent
  <2>. QED
    BY <1>a, <1>c, <2>2, <2>4, <2>8, <2>5, <2>6, <2>7
<1>. QED
  BY <1>1, <1>2, <1>3, <1>4, <1>5, <1>6 DEF IInv

(* A sender gives up its stale copy.                                       *)
LEMMA SendNowConflictInv == ASSUME IInv, NEW p \in Sender, SendNowConflict(p) PROVE IInv'
<1>0. /\ TypeOK /\ DeliveriesAreKept /\ OnlySendersAccept
      /\ OneSender /\ SentOnce /\ SendsAreCounted
  BY DEF IInv
<1>a. attempts' = attempts /\ manual' = manual /\ retry' = retry
  BY DEF SendNowConflict, UpdateStatus, record
<1>b. status' = status
  BY DEF SendNowConflict, UpdateStatus, record
<1>c. /\ attempts \in Nat /\ manual \in Nat /\ RetryLimit \in Nat
      /\ retry \in 0 .. RetryLimit
  BY <1>0, EmailAssumption DEF EmailAssumption, TypeOK
<1>1. TypeOK'
  <2>1a. status' \in Status
    BY <1>0, <1>b DEF TypeOK, Status
  <2>1b. retry' \in 0 .. RetryLimit
    BY <1>a, <1>c
  <2>1c. memRetry' \in [Sender -> 0 .. RetryLimit]
    <3>1. 0 \in 0 .. RetryLimit
      BY EmailAssumption DEF EmailAssumption
    <3>. QED
      BY <1>0, <3>1 DEF TypeOK, SendNowConflict, Live, IsToBeSent,
         Invalidated, UpdateStatus, Copy, Forget, copies, record
  <2>1d. phase' \in [Sender -> Phases]
    BY <1>0 DEF TypeOK, Phases, SendNowConflict, Live, IsToBeSent,
       Invalidated, UpdateStatus, Copy, Forget, copies, record
  <2>1e. attempts' \in Nat /\ manual' \in Nat
    BY <1>a, <1>c
  <2>2. /\ sentTo' \subseteq Recipient /\ todo' \in [Sender -> SUBSET Recipient]
        /\ accepted' \in [Sender -> SUBSET Recipient]
        /\ causes' \subseteq {"interrupted", "forced", "overran"}
        /\ reaper' \in {"idle", "listed"} /\ delivered' \in [Recipient -> Nat]
    BY <1>0 DEF TypeOK, SendNowConflict, Live, IsToBeSent, Invalidated,
       UpdateStatus, Copy, Forget, copies, record
  <2>3. aged' \in BOOLEAN /\ suspended' \in BOOLEAN
    BY <1>0, Zenon DEF TypeOK, SendNowConflict, Live, IsToBeSent,
       Invalidated, UpdateStatus, Copy, Forget, copies, record
  <2>4. partly' \in [Sender -> BOOLEAN]
    BY <1>0 DEF TypeOK, SendNowConflict, Live, IsToBeSent, Invalidated,
       UpdateStatus, Copy, Forget, copies, record
  <2>. QED
    BY <2>1a, <2>1b, <2>1c, <2>1d, <2>1e, <2>2, <2>3, <2>4 DEF TypeOK
<1>2. DeliveriesAreKept'
  BY <1>0 DEF DeliveriesAreKept, SentMeansDelivered, TypeOK, SendNowConflict,
     Live, IsToBeSent, Invalidated, UpdateStatus, Copy, Forget, copies, record
<1>3. OnlySendersAccept'
  BY <1>0 DEF OnlySendersAccept, TypeOK, SendNowConflict, Live, IsToBeSent,
     Invalidated, UpdateStatus, Copy, Forget, copies, record
<1>4. OneSender'
  BY <1>0 DEF OneSender, NoOverlap, TypeOK, SendNowConflict, Live,
     IsToBeSent, Invalidated, UpdateStatus, Copy, Forget, copies, record
<1>5. SentOnce'
  BY <1>0 DEF SentOnce, OneSender, NoOverlap, OnlySendersAccept, TypeOK,
     SendNowConflict, Live, IsToBeSent, Invalidated, UpdateStatus, Copy, Forget, copies, record
<1>6. SendsAreCounted'
  BY <1>0 DEF SendsAreCounted, OneSender, NoOverlap, Pending, Taken, TypeOK,
     SendNowConflict, Live, IsToBeSent, Invalidated, UpdateStatus, Copy, Forget, copies, record
<1>. QED
  BY <1>1, <1>2, <1>3, <1>4, <1>5, <1>6 DEF IInv

(* The mail goes to a recipient who does not have it.                      *)
LEMMA DeliverInv == ASSUME IInv, NEW p \in Sender, NEW r \in Recipient, Deliver(p, r) PROVE IInv'
<1>0. /\ TypeOK /\ DeliveriesAreKept /\ OnlySendersAccept
      /\ OneSender /\ SentOnce /\ SendsAreCounted
  BY DEF IInv
<1>a. attempts' = attempts /\ manual' = manual /\ retry' = retry
  BY DEF Deliver, UpdateStatus, record
<1>b. status' = status
  BY DEF Deliver, UpdateStatus, record
<1>c. /\ attempts \in Nat /\ manual \in Nat /\ RetryLimit \in Nat
      /\ retry \in 0 .. RetryLimit
  BY <1>0, EmailAssumption DEF EmailAssumption, TypeOK
<1>1. TypeOK'
  <2>1a. status' \in Status
    BY <1>0, <1>b DEF TypeOK, Status
  <2>1b. retry' \in 0 .. RetryLimit
    BY <1>a, <1>c
  <2>1c. memRetry' \in [Sender -> 0 .. RetryLimit]
    <3>1. 0 \in 0 .. RetryLimit
      BY EmailAssumption DEF EmailAssumption
    <3>. QED
      BY <1>0, <3>1 DEF TypeOK, Deliver, Live, IsToBeSent, Invalidated,
         UpdateStatus, Copy, Forget, copies, record
  <2>1d. phase' \in [Sender -> Phases]
    BY <1>0 DEF TypeOK, Phases, Deliver, Live, IsToBeSent, Invalidated,
       UpdateStatus, Copy, Forget, copies, record
  <2>1e. attempts' \in Nat /\ manual' \in Nat
    BY <1>a, <1>c
  <2>2. /\ sentTo' \subseteq Recipient /\ todo' \in [Sender -> SUBSET Recipient]
        /\ accepted' \in [Sender -> SUBSET Recipient]
        /\ causes' \subseteq {"interrupted", "forced", "overran"}
        /\ reaper' \in {"idle", "listed"} /\ delivered' \in [Recipient -> Nat]
    BY <1>0 DEF TypeOK, Deliver, Live, IsToBeSent, Invalidated, UpdateStatus,
       Copy, Forget, copies, record
  <2>3. aged' \in BOOLEAN /\ suspended' \in BOOLEAN
    BY <1>0, Zenon DEF TypeOK, Deliver, Live, IsToBeSent, Invalidated,
       UpdateStatus, Copy, Forget, copies, record
  <2>4. partly' \in [Sender -> BOOLEAN]
    BY <1>0 DEF TypeOK, Deliver, Live, IsToBeSent, Invalidated, UpdateStatus,
       Copy, Forget, copies, record
  <2>. QED
    BY <2>1a, <2>1b, <2>1c, <2>1d, <2>1e, <2>2, <2>3, <2>4 DEF TypeOK
<1>2. DeliveriesAreKept'
  BY <1>0 DEF DeliveriesAreKept, SentMeansDelivered, TypeOK, Deliver, Live,
     IsToBeSent, Invalidated, UpdateStatus, Copy, Forget, copies, record
<1>3. OnlySendersAccept'
  BY <1>0 DEF OnlySendersAccept, TypeOK, Deliver, Live, IsToBeSent,
     Invalidated, UpdateStatus, Copy, Forget, copies, record
<1>4. OneSender'
  BY <1>0 DEF OneSender, NoOverlap, TypeOK, Deliver, Live, IsToBeSent,
     Invalidated, UpdateStatus, Copy, Forget, copies, record
<1>5. SentOnce'
  <2>. SUFFICES ASSUME causes = {} PROVE SentOnce'
    BY DEF SentOnce, Deliver, Live, IsToBeSent, Invalidated, UpdateStatus,
       Copy, Forget, copies, record
  <2>1. /\ \A q \in Sender : Live(q) => q = p
        /\ status = "Sending" /\ accepted[p] = {} /\ r \notin sentTo
    BY <1>0 DEF SentOnce, OneSender, NoOverlap, Deliver, Live, IsToBeSent,
       Invalidated, UpdateStatus, Copy, Forget, copies, record
  <2>2. delivered[r] = 0
    BY <1>0, <2>1 DEF SentOnce, TypeOK, Deliver, Live, IsToBeSent,
       Invalidated, UpdateStatus, Copy, Forget, copies, record
  <2>3. /\ delivered' = [delivered EXCEPT ![r] = 1]
        /\ accepted'[p] = {r} /\ todo'[p] = todo[p] \ {r}
        /\ \A q \in Sender \ {p} : todo'[q] = todo[q]
    BY <1>0, <2>2 DEF TypeOK, Deliver, Live, IsToBeSent, Invalidated,
       UpdateStatus, Copy, Forget, copies, record
  <2>4. \A q \in Sender :
          /\ Live(q)' => todo'[q] \cap sentTo' = {} /\ todo'[q] \cap accepted'[q] = {}
          /\ phase'[q] = "read" => todo'[q] = Recipient \ sentTo'
    BY <1>0, <2>1, <2>3 DEF SentOnce, OneSender, NoOverlap, Deliver, Live,
       IsToBeSent, Invalidated, UpdateStatus, Copy, Forget, copies, record
  <2>5. \A s \in Recipient :
          /\ delivered'[s] <= 1
          /\ delivered'[s] > 0 =>
               s \in sentTo' \/ \E q \in Sender : Live(q)' /\ s \in accepted'[q]
    BY <1>0, <2>1, <2>3 DEF SentOnce, TypeOK, Deliver, Live, IsToBeSent,
       Invalidated, UpdateStatus, Copy, Forget, copies, record
  <2>. QED
    BY <2>1, <2>4, <2>5 DEF SentOnce, Deliver, record
<1>6. SendsAreCounted'
  BY <1>0 DEF SendsAreCounted, OneSender, NoOverlap, Pending, Taken, TypeOK,
     Deliver, Live, IsToBeSent, Invalidated, UpdateStatus, Copy, Forget, copies, record
<1>. QED
  BY <1>1, <1>2, <1>3, <1>4, <1>5, <1>6 DEF IInv

(* The recipient's row is marked.                                          *)
LEMMA RecordSentInv == ASSUME IInv, NEW p \in Sender, RecordSent(p) PROVE IInv'
<1>0. /\ TypeOK /\ DeliveriesAreKept /\ OnlySendersAccept
      /\ OneSender /\ SentOnce /\ SendsAreCounted
  BY DEF IInv
<1>1. TypeOK'
  BY <1>0 DEF TypeOK, Status, Phases, RecordSent, Live, IsToBeSent,
     Invalidated, UpdateStatus, Copy, Forget, copies, record
<1>2. DeliveriesAreKept'
  BY <1>0 DEF DeliveriesAreKept, SentMeansDelivered, TypeOK, RecordSent,
     Live, IsToBeSent, Invalidated, UpdateStatus, Copy, Forget, copies, record
<1>3. OnlySendersAccept'
  BY <1>0 DEF OnlySendersAccept, TypeOK, RecordSent, Live, IsToBeSent,
     Invalidated, UpdateStatus, Copy, Forget, copies, record
<1>4. OneSender'
  BY <1>0 DEF OneSender, NoOverlap, TypeOK, RecordSent, Live, IsToBeSent,
     Invalidated, UpdateStatus, Copy, Forget, copies, record
<1>5. SentOnce'
  <2>. SUFFICES ASSUME causes = {} PROVE SentOnce'
    BY DEF SentOnce, RecordSent, Live, IsToBeSent, Invalidated, UpdateStatus,
       Copy, Forget, copies, record
  <2>1. /\ \A q \in Sender : Live(q) => q = p
        /\ status = "Sending" /\ ~IsToBeSent
    BY <1>0 DEF OneSender, NoOverlap, IsToBeSent, RecordSent
  <2>2. \A q \in Sender :
          /\ Live(q)' => todo'[q] \cap sentTo' = {} /\ todo'[q] \cap accepted'[q] = {}
          /\ phase'[q] # "read"
    BY <1>0, <2>1 DEF SentOnce, OneSender, NoOverlap, TypeOK, RecordSent,
       Live, IsToBeSent, Invalidated, UpdateStatus, Copy, Forget, copies, record
  <2>3. \A s \in Recipient : delivered'[s] <= 1 /\ (delivered'[s] > 0 => s \in sentTo')
    BY <1>0, <2>1 DEF SentOnce, TypeOK, RecordSent, Live, IsToBeSent,
       Invalidated, UpdateStatus, Copy, Forget, copies, record
  <2>. QED
    BY <2>1, <2>2, <2>3 DEF SentOnce, RecordSent, record
<1>6. SendsAreCounted'
  BY <1>0 DEF SendsAreCounted, OneSender, NoOverlap, Pending, Taken, TypeOK,
     RecordSent, Live, IsToBeSent, Invalidated, UpdateStatus, Copy, Forget, copies, record
<1>. QED
  BY <1>1, <1>2, <1>3, <1>4, <1>5, <1>6 DEF IInv

(* A send ends ...                                                         *)
LEMMA SucceedInv == ASSUME IInv, NEW p \in Sender, Succeed(p) PROVE IInv'
<1>0. /\ TypeOK /\ DeliveriesAreKept /\ OnlySendersAccept
      /\ OneSender /\ SentOnce /\ SendsAreCounted
  BY DEF IInv
<1>a. attempts' = attempts /\ manual' = manual /\ retry' = retry
  BY DEF Succeed, UpdateStatus, record
<1>b. status' = "Sent"
  BY DEF Succeed, UpdateStatus, record
<1>c. /\ attempts \in Nat /\ manual \in Nat /\ RetryLimit \in Nat
      /\ retry \in 0 .. RetryLimit
  BY <1>0, EmailAssumption DEF EmailAssumption, TypeOK
<1>1. TypeOK'
  <2>1a. status' \in Status
    BY <1>0, <1>b DEF TypeOK, Status
  <2>1b. retry' \in 0 .. RetryLimit
    BY <1>a, <1>c
  <2>1c. memRetry' \in [Sender -> 0 .. RetryLimit]
    <3>1. 0 \in 0 .. RetryLimit
      BY EmailAssumption DEF EmailAssumption
    <3>. QED
      BY <1>0, <3>1 DEF TypeOK, Succeed, Live, IsToBeSent, Invalidated,
         UpdateStatus, Copy, Forget, copies, record, AllSent
  <2>1d. phase' \in [Sender -> Phases]
    BY <1>0 DEF TypeOK, Phases, Succeed, Live, IsToBeSent, Invalidated,
       UpdateStatus, Copy, Forget, copies, record, AllSent
  <2>1e. attempts' \in Nat /\ manual' \in Nat
    BY <1>a, <1>c
  <2>2. /\ sentTo' \subseteq Recipient /\ todo' \in [Sender -> SUBSET Recipient]
        /\ accepted' \in [Sender -> SUBSET Recipient]
        /\ causes' \subseteq {"interrupted", "forced", "overran"}
        /\ reaper' \in {"idle", "listed"} /\ delivered' \in [Recipient -> Nat]
    BY <1>0 DEF TypeOK, Succeed, Live, IsToBeSent, Invalidated, UpdateStatus,
       Copy, Forget, copies, record, AllSent
  <2>3. aged' \in BOOLEAN /\ suspended' \in BOOLEAN
    BY <1>0, Zenon DEF TypeOK, Succeed, Live, IsToBeSent, Invalidated,
       UpdateStatus, Copy, Forget, copies, record, AllSent
  <2>4. partly' \in [Sender -> BOOLEAN]
    BY <1>0 DEF TypeOK, Succeed, Live, IsToBeSent, Invalidated, UpdateStatus,
       Copy, Forget, copies, record, AllSent
  <2>. QED
    BY <2>1a, <2>1b, <2>1c, <2>1d, <2>1e, <2>2, <2>3, <2>4 DEF TypeOK
<1>2. DeliveriesAreKept'
  BY <1>0 DEF DeliveriesAreKept, SentMeansDelivered, TypeOK, Succeed, Live,
     IsToBeSent, Invalidated, UpdateStatus, Copy, Forget, copies, record, AllSent
<1>3. OnlySendersAccept'
  BY <1>0 DEF OnlySendersAccept, TypeOK, Succeed, Live, IsToBeSent,
     Invalidated, UpdateStatus, Copy, Forget, copies, record, AllSent
<1>4. OneSender'
  BY <1>0 DEF OneSender, NoOverlap, TypeOK, Succeed, Live, IsToBeSent,
     Invalidated, UpdateStatus, Copy, Forget, copies, record, AllSent
<1>5. SentOnce'
  BY <1>0 DEF SentOnce, OneSender, NoOverlap, OnlySendersAccept, TypeOK,
     Succeed, Live, IsToBeSent, Invalidated, UpdateStatus, Copy, Forget, copies, record, AllSent
<1>6. SendsAreCounted'
  <2>. SUFFICES ASSUME NoOverlap' PROVE attempts' + Pending' <= retry' + manual' + Taken'
    BY DEF SendsAreCounted
  <2>1. NoOverlap
    BY <1>0 DEF NoOverlap, TypeOK, Succeed, Live, IsToBeSent, Invalidated,
       UpdateStatus, Copy, Forget, copies, record, AllSent
  <2>2. attempts + Pending <= retry + manual + Taken
    BY <1>0, <2>1 DEF SendsAreCounted
  <2>3. \A q \in Sender : phase'[q] # "force"
    BY <1>0 DEF TypeOK, Succeed, Live, IsToBeSent, Invalidated, UpdateStatus,
       Copy, Forget, copies, record, AllSent
  <2>4. Pending' = 0 /\ Pending \in 0 .. 1
    BY <2>3 DEF Pending
  <2>8. Taken \in 0 .. 1 /\ Taken' = 1
    BY <1>b DEF Taken, IsToBeSent
  <2>. QED
    BY <1>a, <1>c, <2>2, <2>4, <2>8
<1>. QED
  BY <1>1, <1>2, <1>3, <1>4, <1>5, <1>6 DEF IInv

(* ... with an exception ...                                               *)
LEMMA FailInv == ASSUME IInv, NEW p \in Sender, Fail(p) PROVE IInv'
<1>0. /\ TypeOK /\ DeliveriesAreKept /\ OnlySendersAccept
      /\ OneSender /\ SentOnce /\ SendsAreCounted
  BY DEF IInv
<1>a. attempts' = attempts /\ manual' = manual
  BY DEF Fail
<1>d. retry' = retry \/ (memRetry[p] < RetryLimit /\ retry' = memRetry[p] + 1)
  BY Zenon DEF Fail, GiveBack, MayRetry, UpdateStatus
<1>b. \/ retry' = retry /\ status' = "Error"
      \/ retry' = memRetry[p] + 1 /\ status' \in {"Not Sent", "Partially Sent"}
  BY Zenon DEF Fail, GiveBack, MayRetry, UpdateStatus
<1>c. /\ attempts \in Nat /\ manual \in Nat /\ RetryLimit \in Nat
      /\ retry \in 0 .. RetryLimit /\ memRetry[p] \in 0 .. RetryLimit
  BY <1>0, EmailAssumption DEF EmailAssumption, TypeOK
<1>1. TypeOK'
  <2>1a. status' \in Status
    BY <1>0, <1>b DEF TypeOK, Status
  <2>1b. retry' \in 0 .. RetryLimit
    BY <1>a, <1>c, <1>d
  <2>1c. memRetry' \in [Sender -> 0 .. RetryLimit]
    <3>1. 0 \in 0 .. RetryLimit
      BY EmailAssumption DEF EmailAssumption
    <3>. QED
      BY <1>0, <3>1 DEF TypeOK, Fail, Live, IsToBeSent, Invalidated,
         UpdateStatus, Copy, Forget, copies, record, GiveBack, MayRetry, Interrupted
  <2>1d. phase' \in [Sender -> Phases]
    BY <1>0 DEF TypeOK, Phases, Fail, Live, IsToBeSent, Invalidated,
       UpdateStatus, Copy, Forget, copies, record, GiveBack, MayRetry, Interrupted
  <2>1e. attempts' \in Nat /\ manual' \in Nat
    BY <1>a, <1>c
  <2>2. /\ sentTo' \subseteq Recipient /\ todo' \in [Sender -> SUBSET Recipient]
        /\ accepted' \in [Sender -> SUBSET Recipient]
        /\ causes' \subseteq {"interrupted", "forced", "overran"}
        /\ reaper' \in {"idle", "listed"} /\ delivered' \in [Recipient -> Nat]
    BY <1>0 DEF TypeOK, Fail, Live, IsToBeSent, Invalidated, UpdateStatus,
       Copy, Forget, copies, record, GiveBack, MayRetry, Interrupted
  <2>3. aged' \in BOOLEAN /\ suspended' \in BOOLEAN
    BY <1>0, Zenon DEF TypeOK, Fail, Live, IsToBeSent, Invalidated,
       UpdateStatus, Copy, Forget, copies, record, GiveBack, MayRetry, Interrupted
  <2>4. partly' \in [Sender -> BOOLEAN]
    BY <1>0 DEF TypeOK, Fail, Live, IsToBeSent, Invalidated, UpdateStatus,
       Copy, Forget, copies, record, GiveBack, MayRetry, Interrupted
  <2>. QED
    BY <2>1a, <2>1b, <2>1c, <2>1d, <2>1e, <2>2, <2>3, <2>4 DEF TypeOK
<1>2. DeliveriesAreKept'
  BY <1>0 DEF DeliveriesAreKept, SentMeansDelivered, TypeOK, Fail, Live,
     IsToBeSent, Invalidated, UpdateStatus, Copy, Forget, copies, record, GiveBack, MayRetry, Interrupted
<1>3. OnlySendersAccept'
  BY <1>0 DEF OnlySendersAccept, TypeOK, Fail, Live, IsToBeSent, Invalidated,
     UpdateStatus, Copy, Forget, copies, record, GiveBack, MayRetry, Interrupted
<1>4. OneSender'
  BY <1>0 DEF OneSender, NoOverlap, TypeOK, Fail, Live, IsToBeSent,
     Invalidated, UpdateStatus, Copy, Forget, copies, record, GiveBack, MayRetry, Interrupted
<1>5. SentOnce'
  BY <1>0 DEF SentOnce, OneSender, NoOverlap, OnlySendersAccept, TypeOK,
     Fail, Live, IsToBeSent, Invalidated, UpdateStatus, Copy, Forget, copies, record, GiveBack, MayRetry, Interrupted
<1>6. SendsAreCounted'
  <2>. SUFFICES ASSUME NoOverlap' PROVE attempts' + Pending' <= retry' + manual' + Taken'
    BY DEF SendsAreCounted
  <2>1. NoOverlap
    BY <1>0 DEF NoOverlap, TypeOK, Fail, Live, IsToBeSent, Invalidated,
       UpdateStatus, Copy, Forget, copies, record, GiveBack, MayRetry, Interrupted
  <2>2. attempts + Pending <= retry + manual + Taken
    BY <1>0, <2>1 DEF SendsAreCounted
  <2>3. \A q \in Sender : phase'[q] # "force"
    BY <1>0 DEF TypeOK, Fail, Live, IsToBeSent, Invalidated, UpdateStatus,
       Copy, Forget, copies, record, GiveBack, MayRetry, Interrupted
  <2>4. Pending' = 0 /\ Pending \in 0 .. 1
    BY <2>3 DEF Pending
  <2>5. status = "Sending" /\ memRetry[p] = retry
    BY <1>0, <2>1 DEF OneSender, Fail
  <2>6. (retry' = retry /\ Taken' = 1) \/ retry' = memRetry[p] + 1
    BY <1>b DEF Taken, IsToBeSent
  <2>7. Taken = 1
    BY <2>5 DEF Taken, IsToBeSent
  <2>8. Taken \in 0 .. 1 /\ Taken' \in 0 .. 1
    BY DEF Taken
  <2>. QED
    BY <1>a, <1>c, <2>2, <2>4, <2>8, <2>5, <2>6, <2>7, <1>d
<1>. QED
  BY <1>1, <1>2, <1>3, <1>4, <1>5, <1>6 DEF IInv

(* ... or with its worker.                                                 *)
LEMMA CrashInv == ASSUME IInv, NEW p \in Sender, Crash(p) PROVE IInv'
<1>0. /\ TypeOK /\ DeliveriesAreKept /\ OnlySendersAccept
      /\ OneSender /\ SentOnce /\ SendsAreCounted
  BY DEF IInv
<1>a. attempts' = attempts /\ manual' = manual /\ retry' = retry
  BY DEF Crash, UpdateStatus, record
<1>b. status' = status
  BY DEF Crash, UpdateStatus, record
<1>c. /\ attempts \in Nat /\ manual \in Nat /\ RetryLimit \in Nat
      /\ retry \in 0 .. RetryLimit
  BY <1>0, EmailAssumption DEF EmailAssumption, TypeOK
<1>1. TypeOK'
  <2>1a. status' \in Status
    BY <1>0, <1>b DEF TypeOK, Status
  <2>1b. retry' \in 0 .. RetryLimit
    BY <1>a, <1>c
  <2>1c. memRetry' \in [Sender -> 0 .. RetryLimit]
    <3>1. 0 \in 0 .. RetryLimit
      BY EmailAssumption DEF EmailAssumption
    <3>. QED
      BY <1>0, <3>1 DEF TypeOK, Crash, Live, IsToBeSent, Invalidated,
         UpdateStatus, Copy, Forget, copies, record, Interrupted
  <2>1d. phase' \in [Sender -> Phases]
    BY <1>0 DEF TypeOK, Phases, Crash, Live, IsToBeSent, Invalidated,
       UpdateStatus, Copy, Forget, copies, record, Interrupted
  <2>1e. attempts' \in Nat /\ manual' \in Nat
    BY <1>a, <1>c
  <2>2. /\ sentTo' \subseteq Recipient /\ todo' \in [Sender -> SUBSET Recipient]
        /\ accepted' \in [Sender -> SUBSET Recipient]
        /\ causes' \subseteq {"interrupted", "forced", "overran"}
        /\ reaper' \in {"idle", "listed"} /\ delivered' \in [Recipient -> Nat]
    BY <1>0 DEF TypeOK, Crash, Live, IsToBeSent, Invalidated, UpdateStatus,
       Copy, Forget, copies, record, Interrupted
  <2>3. aged' \in BOOLEAN /\ suspended' \in BOOLEAN
    BY <1>0, Zenon DEF TypeOK, Crash, Live, IsToBeSent, Invalidated,
       UpdateStatus, Copy, Forget, copies, record, Interrupted
  <2>4. partly' \in [Sender -> BOOLEAN]
    BY <1>0 DEF TypeOK, Crash, Live, IsToBeSent, Invalidated, UpdateStatus,
       Copy, Forget, copies, record, Interrupted
  <2>. QED
    BY <2>1a, <2>1b, <2>1c, <2>1d, <2>1e, <2>2, <2>3, <2>4 DEF TypeOK
<1>2. DeliveriesAreKept'
  BY <1>0 DEF DeliveriesAreKept, SentMeansDelivered, TypeOK, Crash, Live,
     IsToBeSent, Invalidated, UpdateStatus, Copy, Forget, copies, record, Interrupted
<1>3. OnlySendersAccept'
  BY <1>0 DEF OnlySendersAccept, TypeOK, Crash, Live, IsToBeSent,
     Invalidated, UpdateStatus, Copy, Forget, copies, record, Interrupted
<1>4. OneSender'
  BY <1>0 DEF OneSender, NoOverlap, TypeOK, Crash, Live, IsToBeSent,
     Invalidated, UpdateStatus, Copy, Forget, copies, record, Interrupted
<1>5. SentOnce'
  BY <1>0 DEF SentOnce, OneSender, NoOverlap, OnlySendersAccept, TypeOK,
     Crash, Live, IsToBeSent, Invalidated, UpdateStatus, Copy, Forget, copies, record, Interrupted
<1>6. SendsAreCounted'
  BY <1>0 DEF SendsAreCounted, OneSender, NoOverlap, Pending, Taken, TypeOK,
     Crash, Live, IsToBeSent, Invalidated, UpdateStatus, Copy, Forget, copies, record, Interrupted
<1>. QED
  BY <1>1, <1>2, <1>3, <1>4, <1>5, <1>6 DEF IInv

(* The clock and the lists of the reaper ...                               *)
LEMMA AgeInv == ASSUME IInv, Age PROVE IInv'
<1>0. /\ TypeOK /\ DeliveriesAreKept /\ OnlySendersAccept
      /\ OneSender /\ SentOnce /\ SendsAreCounted
  BY DEF IInv
<1>1. TypeOK'
  BY <1>0 DEF TypeOK, Status, Phases, Age, Live, IsToBeSent, Invalidated,
     UpdateStatus, Copy, Forget, copies, record, SomeoneLive
<1>2. DeliveriesAreKept'
  BY <1>0 DEF DeliveriesAreKept, SentMeansDelivered, TypeOK, Age, Live,
     IsToBeSent, Invalidated, UpdateStatus, Copy, Forget, copies, record, SomeoneLive
<1>3. OnlySendersAccept'
  BY <1>0 DEF OnlySendersAccept, TypeOK, Age, Live, IsToBeSent, Invalidated,
     UpdateStatus, Copy, Forget, copies, record, SomeoneLive
<1>4. OneSender'
  BY <1>0 DEF OneSender, NoOverlap, TypeOK, Age, Live, IsToBeSent,
     Invalidated, UpdateStatus, Copy, Forget, copies, record, SomeoneLive
<1>5. SentOnce'
  BY <1>0 DEF SentOnce, OneSender, NoOverlap, OnlySendersAccept, TypeOK, Age,
     Live, IsToBeSent, Invalidated, UpdateStatus, Copy, Forget, copies, record, SomeoneLive
<1>6. SendsAreCounted'
  BY <1>0 DEF SendsAreCounted, OneSender, NoOverlap, Pending, Taken, TypeOK,
     Age, Live, IsToBeSent, Invalidated, UpdateStatus, Copy, Forget, copies, record, SomeoneLive
<1>. QED
  BY <1>1, <1>2, <1>3, <1>4, <1>5, <1>6 DEF IInv

(* ... change nothing that is counted.                                     *)
LEMMA ReaperListsInv == ASSUME IInv, ReaperLists PROVE IInv'
<1>0. /\ TypeOK /\ DeliveriesAreKept /\ OnlySendersAccept
      /\ OneSender /\ SentOnce /\ SendsAreCounted
  BY DEF IInv
<1>1. TypeOK'
  BY <1>0 DEF TypeOK, Status, Phases, ReaperLists, Live, IsToBeSent,
     Invalidated, UpdateStatus, Copy, Forget, copies, record
<1>2. DeliveriesAreKept'
  BY <1>0 DEF DeliveriesAreKept, SentMeansDelivered, TypeOK, ReaperLists,
     Live, IsToBeSent, Invalidated, UpdateStatus, Copy, Forget, copies, record
<1>3. OnlySendersAccept'
  BY <1>0 DEF OnlySendersAccept, TypeOK, ReaperLists, Live, IsToBeSent,
     Invalidated, UpdateStatus, Copy, Forget, copies, record
<1>4. OneSender'
  BY <1>0 DEF OneSender, NoOverlap, TypeOK, ReaperLists, Live, IsToBeSent,
     Invalidated, UpdateStatus, Copy, Forget, copies, record
<1>5. SentOnce'
  BY <1>0 DEF SentOnce, OneSender, NoOverlap, OnlySendersAccept, TypeOK,
     ReaperLists, Live, IsToBeSent, Invalidated, UpdateStatus, Copy, Forget, copies, record
<1>6. SendsAreCounted'
  BY <1>0 DEF SendsAreCounted, OneSender, NoOverlap, Pending, Taken, TypeOK,
     ReaperLists, Live, IsToBeSent, Invalidated, UpdateStatus, Copy, Forget, copies, record
<1>. QED
  BY <1>1, <1>2, <1>3, <1>4, <1>5, <1>6 DEF IInv

(* The reaper takes the record from nobody, or overlaps.                   *)
LEMMA ReaperGivesBackInv == ASSUME IInv, ReaperGivesBack PROVE IInv'
<1>0. /\ TypeOK /\ DeliveriesAreKept /\ OnlySendersAccept
      /\ OneSender /\ SentOnce /\ SendsAreCounted
  BY DEF IInv
<1>a. attempts' = attempts /\ manual' = manual
  BY DEF ReaperGivesBack
<1>d. retry' = retry \/ (retry < RetryLimit /\ retry' = retry + 1)
  BY Zenon DEF ReaperGivesBack, GiveBack, MayRetry, UpdateStatus
<1>b. \/ retry' = retry /\ status' = "Error"
      \/ retry' = retry + 1 /\ status' \in {"Not Sent", "Partially Sent"}
  BY Zenon DEF ReaperGivesBack, GiveBack, MayRetry, UpdateStatus
<1>c. /\ attempts \in Nat /\ manual \in Nat /\ RetryLimit \in Nat
      /\ retry \in 0 .. RetryLimit
  BY <1>0, EmailAssumption DEF EmailAssumption, TypeOK
<1>1. TypeOK'
  <2>1a. status' \in Status
    BY <1>0, <1>b DEF TypeOK, Status
  <2>1b. retry' \in 0 .. RetryLimit
    BY <1>a, <1>c, <1>d
  <2>1c. memRetry' \in [Sender -> 0 .. RetryLimit]
    <3>1. 0 \in 0 .. RetryLimit
      BY EmailAssumption DEF EmailAssumption
    <3>. QED
      BY <1>0, <3>1 DEF TypeOK, ReaperGivesBack, Live, IsToBeSent,
         Invalidated, UpdateStatus, Copy, Forget, copies, record, GiveBack, MayRetry, SomeoneLive
  <2>1d. phase' \in [Sender -> Phases]
    BY <1>0 DEF TypeOK, Phases, ReaperGivesBack, Live, IsToBeSent,
       Invalidated, UpdateStatus, Copy, Forget, copies, record, GiveBack, MayRetry, SomeoneLive
  <2>1e. attempts' \in Nat /\ manual' \in Nat
    BY <1>a, <1>c
  <2>2. /\ sentTo' \subseteq Recipient /\ todo' \in [Sender -> SUBSET Recipient]
        /\ accepted' \in [Sender -> SUBSET Recipient]
        /\ causes' \subseteq {"interrupted", "forced", "overran"}
        /\ reaper' \in {"idle", "listed"} /\ delivered' \in [Recipient -> Nat]
    BY <1>0 DEF TypeOK, ReaperGivesBack, Live, IsToBeSent, Invalidated,
       UpdateStatus, Copy, Forget, copies, record, GiveBack, MayRetry, SomeoneLive
  <2>3. aged' \in BOOLEAN /\ suspended' \in BOOLEAN
    BY <1>0, Zenon DEF TypeOK, ReaperGivesBack, Live, IsToBeSent,
       Invalidated, UpdateStatus, Copy, Forget, copies, record, GiveBack, MayRetry, SomeoneLive
  <2>4. partly' \in [Sender -> BOOLEAN]
    BY <1>0 DEF TypeOK, ReaperGivesBack, Live, IsToBeSent, Invalidated,
       UpdateStatus, Copy, Forget, copies, record, GiveBack, MayRetry, SomeoneLive
  <2>. QED
    BY <2>1a, <2>1b, <2>1c, <2>1d, <2>1e, <2>2, <2>3, <2>4 DEF TypeOK
<1>2. DeliveriesAreKept'
  BY <1>0 DEF DeliveriesAreKept, SentMeansDelivered, TypeOK, ReaperGivesBack,
     Live, IsToBeSent, Invalidated, UpdateStatus, Copy, Forget, copies, record, GiveBack, MayRetry, SomeoneLive
<1>3. OnlySendersAccept'
  BY <1>0 DEF OnlySendersAccept, TypeOK, ReaperGivesBack, Live, IsToBeSent,
     Invalidated, UpdateStatus, Copy, Forget, copies, record, GiveBack, MayRetry, SomeoneLive
<1>4. OneSender'
  BY <1>0 DEF OneSender, NoOverlap, TypeOK, ReaperGivesBack, Live,
     IsToBeSent, Invalidated, UpdateStatus, Copy, Forget, copies, record, GiveBack, MayRetry, SomeoneLive
<1>5. SentOnce'
  BY <1>0 DEF SentOnce, OneSender, NoOverlap, OnlySendersAccept, TypeOK,
     ReaperGivesBack, Live, IsToBeSent, Invalidated, UpdateStatus, Copy, Forget, copies, record, GiveBack, MayRetry, SomeoneLive
<1>6. SendsAreCounted'
  <2>. SUFFICES ASSUME NoOverlap' PROVE attempts' + Pending' <= retry' + manual' + Taken'
    BY DEF SendsAreCounted
  <2>1. NoOverlap
    BY <1>0 DEF NoOverlap, TypeOK, ReaperGivesBack, Live, IsToBeSent,
       Invalidated, UpdateStatus, Copy, Forget, copies, record, GiveBack, MayRetry, SomeoneLive
  <2>2. attempts + Pending <= retry + manual + Taken
    BY <1>0, <2>1 DEF SendsAreCounted
  <2>3. \A q \in Sender : phase'[q] # "force"
    BY <1>0 DEF TypeOK, ReaperGivesBack, Live, IsToBeSent, Invalidated,
       UpdateStatus, Copy, Forget, copies, record, GiveBack, MayRetry, SomeoneLive
  <2>4. Pending' = 0 /\ Pending \in 0 .. 1
    BY <2>3 DEF Pending
  <2>5. (retry' = retry /\ Taken' = 1) \/ retry' = retry + 1
    BY <1>b DEF Taken, IsToBeSent
  <2>8. Taken \in 0 .. 1 /\ Taken' \in 0 .. 1
    BY DEF Taken
  <2>. QED
    BY <1>a, <1>c, <2>2, <2>4, <2>8, <2>5, <1>d
<1>. QED
  BY <1>1, <1>2, <1>3, <1>4, <1>5, <1>6 DEF IInv

(* A retry by hand is counted.                                             *)
LEMMA RetrySendingInv == ASSUME IInv, RetrySending PROVE IInv'
<1>0. /\ TypeOK /\ DeliveriesAreKept /\ OnlySendersAccept
      /\ OneSender /\ SentOnce /\ SendsAreCounted
  BY DEF IInv
<1>a. attempts' = attempts /\ manual' = manual + 1 /\ retry' = retry
  BY DEF RetrySending, UpdateStatus, record
<1>b. status = "Error" /\ status' = "Not Sent"
  BY DEF RetrySending, UpdateStatus, record
<1>c. /\ attempts \in Nat /\ manual \in Nat /\ RetryLimit \in Nat
      /\ retry \in 0 .. RetryLimit
  BY <1>0, EmailAssumption DEF EmailAssumption, TypeOK
<1>1. TypeOK'
  <2>1a. status' \in Status
    BY <1>0, <1>b DEF TypeOK, Status
  <2>1b. retry' \in 0 .. RetryLimit
    BY <1>a, <1>c
  <2>1c. memRetry' \in [Sender -> 0 .. RetryLimit]
    <3>1. 0 \in 0 .. RetryLimit
      BY EmailAssumption DEF EmailAssumption
    <3>. QED
      BY <1>0, <3>1 DEF TypeOK, RetrySending, Live, IsToBeSent, Invalidated,
         UpdateStatus, Copy, Forget, copies, record
  <2>1d. phase' \in [Sender -> Phases]
    BY <1>0 DEF TypeOK, Phases, RetrySending, Live, IsToBeSent, Invalidated,
       UpdateStatus, Copy, Forget, copies, record
  <2>1e. attempts' \in Nat /\ manual' \in Nat
    BY <1>a, <1>c
  <2>2. /\ sentTo' \subseteq Recipient /\ todo' \in [Sender -> SUBSET Recipient]
        /\ accepted' \in [Sender -> SUBSET Recipient]
        /\ causes' \subseteq {"interrupted", "forced", "overran"}
        /\ reaper' \in {"idle", "listed"} /\ delivered' \in [Recipient -> Nat]
    BY <1>0 DEF TypeOK, RetrySending, Live, IsToBeSent, Invalidated,
       UpdateStatus, Copy, Forget, copies, record
  <2>3. aged' \in BOOLEAN /\ suspended' \in BOOLEAN
    BY <1>0, Zenon DEF TypeOK, RetrySending, Live, IsToBeSent, Invalidated,
       UpdateStatus, Copy, Forget, copies, record
  <2>4. partly' \in [Sender -> BOOLEAN]
    BY <1>0 DEF TypeOK, RetrySending, Live, IsToBeSent, Invalidated,
       UpdateStatus, Copy, Forget, copies, record
  <2>. QED
    BY <2>1a, <2>1b, <2>1c, <2>1d, <2>1e, <2>2, <2>3, <2>4 DEF TypeOK
<1>2. DeliveriesAreKept'
  BY <1>0 DEF DeliveriesAreKept, SentMeansDelivered, TypeOK, RetrySending,
     Live, IsToBeSent, Invalidated, UpdateStatus, Copy, Forget, copies, record
<1>3. OnlySendersAccept'
  BY <1>0 DEF OnlySendersAccept, TypeOK, RetrySending, Live, IsToBeSent,
     Invalidated, UpdateStatus, Copy, Forget, copies, record
<1>4. OneSender'
  BY <1>0 DEF OneSender, NoOverlap, TypeOK, RetrySending, Live, IsToBeSent,
     Invalidated, UpdateStatus, Copy, Forget, copies, record
<1>5. SentOnce'
  BY <1>0 DEF SentOnce, OneSender, NoOverlap, OnlySendersAccept, TypeOK,
     RetrySending, Live, IsToBeSent, Invalidated, UpdateStatus, Copy, Forget, copies, record
<1>6. SendsAreCounted'
  <2>. SUFFICES ASSUME NoOverlap' PROVE attempts' + Pending' <= retry' + manual' + Taken'
    BY DEF SendsAreCounted
  <2>1. NoOverlap
    BY <1>0 DEF NoOverlap, TypeOK, RetrySending, Live, IsToBeSent,
       Invalidated, UpdateStatus, Copy, Forget, copies, record
  <2>2. attempts + Pending <= retry + manual + Taken
    BY <1>0, <2>1 DEF SendsAreCounted
  <2>3. \A q \in Sender : phase'[q] # "force"
    BY <1>0 DEF TypeOK, RetrySending, Live, IsToBeSent, Invalidated,
       UpdateStatus, Copy, Forget, copies, record
  <2>4. Pending' = 0 /\ Pending \in 0 .. 1
    BY <2>3 DEF Pending
  <2>8. Taken = 1 /\ Taken' = 0
    BY <1>b DEF Taken, IsToBeSent
  <2>. QED
    BY <1>a, <1>c, <2>2, <2>4, <2>8
<1>. QED
  BY <1>1, <1>2, <1>3, <1>4, <1>5, <1>6 DEF IInv

(* The switch stops new sends only.                                        *)
LEMMA ToggleSendingInv == ASSUME IInv, ToggleSending PROVE IInv'
<1>0. /\ TypeOK /\ DeliveriesAreKept /\ OnlySendersAccept
      /\ OneSender /\ SentOnce /\ SendsAreCounted
  BY DEF IInv
<1>1. TypeOK'
  BY <1>0 DEF TypeOK, Status, Phases, ToggleSending, Live, IsToBeSent,
     Invalidated, UpdateStatus, Copy, Forget, copies, record
<1>2. DeliveriesAreKept'
  BY <1>0 DEF DeliveriesAreKept, SentMeansDelivered, TypeOK, ToggleSending,
     Live, IsToBeSent, Invalidated, UpdateStatus, Copy, Forget, copies, record
<1>3. OnlySendersAccept'
  BY <1>0 DEF OnlySendersAccept, TypeOK, ToggleSending, Live, IsToBeSent,
     Invalidated, UpdateStatus, Copy, Forget, copies, record
<1>4. OneSender'
  BY <1>0 DEF OneSender, NoOverlap, TypeOK, ToggleSending, Live, IsToBeSent,
     Invalidated, UpdateStatus, Copy, Forget, copies, record
<1>5. SentOnce'
  BY <1>0 DEF SentOnce, OneSender, NoOverlap, OnlySendersAccept, TypeOK,
     ToggleSending, Live, IsToBeSent, Invalidated, UpdateStatus, Copy, Forget, copies, record
<1>6. SendsAreCounted'
  BY <1>0 DEF SendsAreCounted, OneSender, NoOverlap, Pending, Taken, TypeOK,
     ToggleSending, Live, IsToBeSent, Invalidated, UpdateStatus, Copy, Forget, copies, record
<1>. QED
  BY <1>1, <1>2, <1>3, <1>4, <1>5, <1>6 DEF IInv

-----------------------------------------------------------------------------
(* The inductive invariant holds in every reachable state.                 *)
THEOREM InvariantHolds == Spec => []IInv
<1>1. ASSUME IInv, [Next]_vars PROVE IInv'
  <2>. USE <1>1
  <2>1. CASE UNCHANGED vars
    <3>. USE <2>1 DEF vars, record, copies
    <3>1. TypeOK' /\ OnlySendersAccept'
      BY DEF IInv, TypeOK, OnlySendersAccept, Live
    <3>2. DeliveriesAreKept'
      BY DEF IInv, DeliveriesAreKept, SentMeansDelivered
    <3>3. OneSender' /\ SentOnce'
      BY DEF IInv, OneSender, SentOnce, NoOverlap, Live, IsToBeSent
    <3>4. SendsAreCounted'
      BY DEF IInv, SendsAreCounted, NoOverlap, Pending, Taken, IsToBeSent
    <3>. QED
      BY <3>1, <3>2, <3>3, <3>4 DEF IInv
  <2>2. ASSUME NEW p \in Sender, Start(p) \/ Progress(p) \/ Crash(p) PROVE IInv'
    BY <2>2, FlushPickInv, ReadRecordInv, ReadForcedInv, SendNowInv,
       SendNowConflictInv, DeliverInv, RecordSentInv, SucceedInv, FailInv, CrashInv
       DEF Start, Progress
  <2>. QED
    BY <2>1, <2>2, AgeInv, ReaperListsInv, ReaperGivesBackInv, RetrySendingInv,
       ToggleSendingInv DEF Next
<1>. QED
  BY InitInv, <1>1, PTL DEF Spec

(* Every variable keeps its type; a retry count never passes the limit.    *)
THEOREM TypeCorrect == Spec => []TypeOK
<1>1. IInv => TypeOK
  BY DEF IInv
<1>. QED
  BY <1>1, InvariantHolds, PTL

(* A record or a recipient's row that says Sent tells the truth, whatever  *)
(* senders, crashes, forced sends and reapers overlapped.                  *)
THEOREM Truthful == Spec => []SentMeansDelivered
<1>1. IInv => SentMeansDelivered
  BY DEF IInv, DeliveriesAreKept
<1>. QED
  BY <1>1, InvariantHolds, PTL

(* A second copy of the mail has one of the three named causes.            *)
THEOREM DuplicatesExplained == Spec => []DuplicatesHaveACause
<1>1. IInv => DuplicatesHaveACause
  BY DEF IInv, SentOnce, DuplicatesHaveACause, TypeOK
<1>. QED
  BY <1>1, InvariantHolds, PTL

(* Senders that do not overlap try a record RetryLimit + 1 times at most,  *)
(* and once more for every time somebody asked for it.                     *)
THEOREM BoundedRetries == Spec => []RetryBudget
<1>1. IInv => RetryBudget
  BY EmailAssumption
     DEF EmailAssumption, IInv, SendsAreCounted, RetryBudget, NoOverlap, Pending, Taken, TypeOK
<1>. QED
  BY <1>1, InvariantHolds, PTL
=============================================================================
