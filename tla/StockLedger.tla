----------------------------- MODULE StockLedger -----------------------------
(***************************************************************************)
(* The stock ledger of one item in one warehouse (erpnext/stock/           *)
(* stock_ledger.py) and Repost Item Valuation, the background job that     *)
(* values the entries after a backdated one again.  A voucher has one      *)
(* entry.  An entry stores the balance after it, and a value computed from *)
(* the previous entry; the value is abstracted to the set of vouchers it   *)
(* was computed from.  Stock Reconciliation, which sets a balance, serial  *)
(* and batch numbers, and reserved stock are left out; negative stock is   *)
(* not allowed.  The database is PostgreSQL, which refuses two of the      *)
(* statements: the one that lists the items of a voucher, since it groups  *)
(* by fewer columns than it selects, and the one that lists the vouchers   *)
(* for the general ledger, SELECT DISTINCT ... FOR UPDATE.                 *)
(*                                                                         *)
(* Submitting and cancelling are single steps: every such transaction      *)
(* writes the Bin row of the item and the warehouse, so at REPEATABLE READ *)
(* the second of two that overlap fails.  The job takes its snapshot with  *)
(* its first query, reads its entries FOR UPDATE a few queries later,      *)
(* commits after every Chunk of them, without the Bin, and goes on from    *)
(* what it has in memory, without the locks.                               *)
(***************************************************************************)
EXTENDS Naturals, Integers, FiniteSets, Sequences, FiniteSetsExt

CONSTANTS Voucher,
          Time,       \* Time[v]: posting_datetime
          Qty,        \* Qty[v]: actual_qty
          Chunk,      \* entries between two commits of a repost (2000)
          MaxReposts, \* bound: reposts that users ask for
          MaxFaults   \* bound: crashes and failures of the job, and restarts

ASSUME StockAssumption ==
  /\ IsFiniteSet(Voucher)
  /\ Time \in [Voucher -> Nat] /\ Qty \in [Voucher -> Int \ {0}]
  /\ Chunk \in Nat \ {0} /\ MaxReposts \in Nat /\ MaxFaults \in Nat

VARIABLES
  doc,        \* doc[v]: docstatus of the voucher
  creation,   \* creation[v]: when its entry was created
  active,     \* active[v]: its entry exists with is_cancelled = 0
  bal,        \* bal[v]: qty_after_transaction
  basis,      \* basis[v]: the vouchers its stock_value was computed from
  bin,        \* actual_qty of the Bin
  riv,        \* the Repost Item Valuation records, by creation
  pc, cur,    \* the job: what it is doing, for which record
  todo,       \* the records it listed and has not come to
  queue,      \* the entries it read and has not processed (_sles)
  mem,        \* the last entry it processed (prev_sle_dict)
  touched,    \* what others changed since its transaction's snapshot
  faults,     \* history: crashes, failures and restarts
  causes      \* history: what can explain a wrong ledger

ledger == <<doc, creation, active, bal, basis, bin>>
job == <<pc, cur, todo, queue, mem, touched>>
vars == <<ledger, riv, job, faults, causes>>

Bin == "Bin"

Status == {"Queued", "In Progress", "Completed", "Skipped", "Failed"}

(* of: the voucher it is based on, nothing if it is based on Item and      *)
(* Warehouse; filed: it has a reposting data file; file: the time to go on *)
(* from, 0 if there is no file or the file says nothing; posted:           *)
(* current_index is past the only item.                                    *)
Record == [time : Nat, of : SUBSET Voucher, status : Status,
           filed : BOOLEAN, file : Nat, posted : BOOLEAN]

Phases == {"idle", "begin", "snapshot", "locked", "rows", "filed", "between", "posted", "gl"}

Nothing == [any |-> FALSE, bal |-> 0, basis |-> {}]

TypeOK ==
  /\ doc \in [Voucher -> 0 .. 2] /\ creation \in [Voucher -> Nat]
  /\ active \in [Voucher -> BOOLEAN]
  /\ bal \in [Voucher -> Int] /\ basis \in [Voucher -> SUBSET Voucher]
  /\ bin \in Int /\ riv \in Seq(Record)
  /\ pc \in Phases
  /\ cur \in 0 .. Len(riv) /\ todo \subseteq 1 .. Len(riv)
  /\ (pc = "idle" <=> cur = 0) /\ (cur # 0 => cur \in todo)
  /\ queue \subseteq Voucher /\ touched \subseteq Voucher \cup {Bin}
  /\ mem \in [any : BOOLEAN, bal : Int, basis : SUBSET Voucher]
  /\ faults \in Nat /\ causes \subseteq {"overlap", "resumed"}

Init ==
  /\ doc = [v \in Voucher |-> 0] /\ creation = [v \in Voucher |-> 0]
  /\ active = [v \in Voucher |-> FALSE]
  /\ bal = [v \in Voucher |-> 0] /\ basis = [v \in Voucher |-> {}]
  /\ bin = 0 /\ riv = << >>
  /\ pc = "idle" /\ cur = 0 /\ todo = {} /\ queue = {} /\ mem = Nothing
  /\ touched = {} /\ faults = 0 /\ causes = {}

-----------------------------------------------------------------------------
(* The ledger in the order of posting_datetime and creation.               *)

Active == {v \in Voucher : active[v]}

Precedes(u, v) ==
  \/ Time[u] < Time[v]
  \/ Time[u] = Time[v] /\ creation[u] < creation[v]

UpTo(S, v) == {u \in S : u = v \/ Precedes(u, v)}

SumQty(S) == MapThenSumSet(LAMBDA u : Qty[u], S)

(* get_previous_sle_of_current_voucher: the last entry of S, and what it   *)
(* says.                                                                   *)
LastOf(S) == CHOOSE v \in S : \A u \in S : u = v \/ Precedes(u, v)

Previous(S) ==
  IF S = {} THEN Nothing
  ELSE [any |-> TRUE, bal |-> bal[LastOf(S)], basis |-> basis[LastOf(S)]]

(* process_sle for the entries of S, one after the other, after p.         *)
Balances(S, p) == [v \in S |-> p.bal + SumQty(UpTo(S, v))]

Bases(S, p) == [v \in S |-> p.basis \cup UpTo(S, v)]

Override(f, g) == [v \in Voucher |-> IF v \in DOMAIN g THEN g[v] ELSE f[v]]

(* update_qty_in_future_sle.                                               *)
Shifted(S, t, q) == [v \in {u \in S : Time[u] > t} |-> bal[v] + q]

(* validate_negative_qty_in_future_sle.                                    *)
FutureNotNegative(S, t, q, newBal) ==
  q < 0 => \A u \in S : Time[u] >= t => newBal[u] >= 0

(* get_actual_qty: the last balance, for the Bin.                          *)
ActualQty(S, newBal) == IF S = {} THEN 0 ELSE newBal[LastOf(S)]

(* future_sle_exists.                                                      *)
FutureExists(S, t) == \E u \in S : Time[u] >= t

(* A voucher waits for the rows that the job has locked or written.        *)
RowsAreFree == pc # "filed" /\ (pc = "locked" => queue = {})

NewRepost(t, S) == [time |-> t, of |-> S, status |-> "Queued",
                    filed |-> FALSE, file |-> 0, posted |-> FALSE]

-----------------------------------------------------------------------------
(* Vouchers.  What needs a repost is done only where reposting is voucher- *)
(* wise: with item_based_reposting the items of the voucher are listed at  *)
(* once, which is refused, and the transaction is rolled back.             *)

(* The entry is inserted and valued after the previous one, the balances   *)
(* after it are shifted, the Bin is updated, and if there are entries at   *)
(* or after its time a repost is queued.                                   *)
Submit(v) ==
  LET before == {u \in Active : Time[u] <= Time[v]}
      prev   == Previous(before)
      later  == Shifted(Active, Time[v], Qty[v])
      newBal == [Override(bal, later) EXCEPT ![v] = prev.bal + Qty[v]]
  IN
  /\ doc[v] = 0
  /\ RowsAreFree
  /\ newBal[v] >= 0
  /\ FutureNotNegative(Active, Time[v], Qty[v], newBal)
  /\ doc' = [doc EXCEPT ![v] = 1]
  /\ creation' = [creation EXCEPT ![v] = 1 + Cardinality({u \in Voucher : doc[u] # 0})]
  /\ active' = [active EXCEPT ![v] = TRUE]
  /\ bal' = newBal
  /\ basis' = [basis EXCEPT ![v] = prev.basis \cup {v}]
  /\ bin' = IF \E u \in Active : Time[u] > Time[v]
            THEN ActualQty(Active, newBal) ELSE newBal[v]
  /\ riv' = IF FutureExists(Active, Time[v]) THEN Append(riv, NewRepost(Time[v], {v})) ELSE riv
  /\ touched' = touched \cup {v, Bin} \cup DOMAIN later
  /\ UNCHANGED <<pc, cur, todo, queue, mem, faults, causes>>

(* validate_cancellation: a repost of the same voucher that runs forbids   *)
(* it, one that is queued is skipped.                                      *)
OwnRepost(v, s) ==
  {r \in 1 .. Len(riv) : v \in riv[r].of /\ riv[r].status = s}

Skip(R) ==
  [r \in 1 .. Len(riv) |-> IF r \in R THEN [riv[r] EXCEPT !.status = "Skipped"] ELSE riv[r]]

(* The entry is marked as cancelled, those of the same time are processed  *)
(* again, the balances after it are shifted back, and a repost is queued.  *)
Cancel(v) ==
  LET rest   == Active \ {v}
      same   == {u \in rest : Time[u] = Time[v]}
      prev   == Previous({u \in rest : Time[u] < Time[v]})
      later  == Shifted(rest, Time[v], -Qty[v])
      newBal == Override(Override(bal, Balances(same, prev)), later)
  IN
  /\ doc[v] = 1
  /\ RowsAreFree
  /\ OwnRepost(v, "In Progress") = {}
  /\ \A u \in same : newBal[u] >= 0
  /\ FutureNotNegative(rest, Time[v], -Qty[v], newBal)
  /\ doc' = [doc EXCEPT ![v] = 2]
  /\ active' = [active EXCEPT ![v] = FALSE]
  /\ bal' = newBal
  /\ basis' = Override(basis, Bases(same, prev))
  /\ bin' = ActualQty(rest, newBal)
  /\ riv' = Append(Skip(OwnRepost(v, "Queued")), NewRepost(Time[v], {v}))
  /\ touched' = touched \cup {v, Bin} \cup same \cup DOMAIN later
  /\ UNCHANGED <<creation, pc, cur, todo, queue, mem, faults, causes>>

(* A user submits a Repost Item Valuation for the item and the warehouse.  *)
RepostItem(t) ==
  /\ Cardinality({r \in 1 .. Len(riv) : riv[r].of = {}}) < MaxReposts
  /\ riv' = Append(riv, NewRepost(t, {}))
  /\ UNCHANGED <<ledger, job, faults, causes>>

-----------------------------------------------------------------------------
(* The job, repost_entries.                                                *)

MPending(r) == riv[r].status = "Queued"

Pending(r) == riv[r].status \in {"Queued", "In Progress"}

RivPrecedes(q, r) ==
  \/ riv[q].time < riv[r].time
  \/ riv[q].time = riv[r].time /\ q < r

SetStatus(r, s) == riv' = [riv EXCEPT ![r].status = s]

MFrom(r) == IF riv[r].file = 0 THEN riv[r].time ELSE riv[r].file + 1

(* Where a repost of r starts.                                             *)
From(r) == IF riv[r].file = 0 THEN riv[r].time ELSE riv[r].file

MForget ==
  /\ pc' = "idle" /\ UNCHANGED cur /\ queue' = {} /\ mem' = Nothing /\ touched' = {}

Forget ==
  /\ pc' = "idle" /\ cur' = 0 /\ queue' = {} /\ mem' = Nothing /\ touched' = {}

ListReposts ==
  /\ pc = "idle" /\ todo = {}
  /\ todo' = {r \in 1 .. Len(riv) : Pending(r)}
  /\ todo' # {}
  /\ UNCHANGED <<ledger, riv, pc, cur, queue, mem, touched, faults, causes>>

(* execute_reposting_entry: the next record, if it is still to be done.    *)
PickRepost(r) ==
  /\ pc = "idle"
  /\ r \in todo /\ \A q \in todo : q = r \/ RivPrecedes(r, q)
  /\ \/ /\ Pending(r)
        /\ SetStatus(r, "In Progress")
        /\ pc' = "begin" /\ cur' = r
        /\ UNCHANGED todo
     \/ /\ ~Pending(r)
        /\ todo' = todo \ {r}
        /\ UNCHANGED <<riv, pc, cur>>
  /\ UNCHANGED <<ledger, queue, mem, touched, faults, causes>>

(* get_items_to_be_repost, refused for a voucher; otherwise the first      *)
(* query takes the snapshot.  queue and mem are what the rows say in it.   *)
TakeSnapshot ==
  LET rows == {v \in Active : Time[v] >= From(cur)}
      t0   == Min({Time[v] : v \in rows})
  IN
  /\ pc = "begin" /\ riv[cur].of = {}
  /\ IF riv[cur].posted
     THEN pc' = "gl" /\ UNCHANGED <<queue, mem>>
     ELSE /\ pc' = "snapshot"
          /\ queue' = rows
          /\ mem' = IF rows = {} THEN Nothing
                    ELSE Previous({v \in Active : Time[v] < t0})
  /\ touched' = {}
  /\ UNCHANGED <<ledger, riv, cur, todo, faults, causes>>

(* get_future_entries_to_repost, FOR UPDATE: entries that came after the   *)
(* snapshot are not seen, and one that changed after it cannot be locked.  *)
(* Nor can the entry before them, but what changes it changes them too.    *)
Locked == queue \cap touched = {}

LockRows ==
  /\ pc = "snapshot" /\ Locked
  /\ pc' = "locked"
  /\ UNCHANGED <<ledger, riv, cur, todo, queue, mem, touched, faults, causes>>

NextChunk == {v \in queue : Cardinality({u \in queue : Precedes(u, v)}) < Chunk}

(* What the transaction writes; the last one has fewer entries than a      *)
(* chunk, and writes the Bin.                                              *)
IsLast == Cardinality(queue) < Chunk

HasBin == mem.any \/ queue # {}

Written == IF ~IsLast THEN NextChunk ELSE queue \cup (IF HasBin THEN {Bin} ELSE {})

MConflict == FALSE

(* A row that changed after the snapshot cannot be updated.                *)
Conflict == Written \cap touched # {}

(* The chunk's rows are written from the copies in memory, every column of *)
(* them, is_cancelled too.                                                 *)
WriteRows(S) ==
  /\ bal' = Override(bal, Balances(S, mem))
  /\ basis' = Override(basis, Bases(S, mem))
  /\ active' = [v \in Voucher |-> v \in S \/ active[v]]

MemAfter(S) ==
  LET last == CHOOSE v \in S : \A u \in S : u = v \/ Precedes(u, v)
  IN IF S = {} THEN mem
     ELSE [any |-> TRUE, bal |-> Balances(S, mem)[last], basis |-> Bases(S, mem)[last]]

(* update_data_in_repost, after every Chunk entries and after the last:    *)
(* where to go on from is written to the file; if the record has none yet, *)
(* the file comes with the commit.                                         *)
ChunkEnd == IF queue = NextChunk THEN 0 ELSE Max({Time[v] : v \in NextChunk})

WriteFile ==
  /\ pc \in {"locked", "rows"}
  /\ ~Conflict
  /\ pc' = "filed"
  /\ riv' = IF riv[cur].filed THEN [riv EXCEPT ![cur].file = ChunkEnd] ELSE riv
  /\ UNCHANGED <<ledger, cur, todo, queue, mem, touched, faults, causes>>

FileSays(t) == riv' = [riv EXCEPT ![cur].filed = TRUE, ![cur].file = t]

(* ... and committed with the entries of the chunk.                        *)
CommitChunk ==
  /\ pc = "filed" /\ ~IsLast
  /\ WriteRows(NextChunk)
  /\ mem' = MemAfter(NextChunk)
  /\ queue' = queue \ NextChunk
  /\ FileSays(ChunkEnd)
  /\ pc' = "between"
  /\ UNCHANGED <<doc, creation, bin, cur, todo, touched, faults, causes>>

(* The next transaction has a new snapshot, the entries in memory are old. *)
NextTransaction ==
  /\ pc = "between"
  /\ pc' = "rows"
  /\ touched' = {}
  /\ causes' = IF touched = {} THEN causes ELSE causes \cup {"overlap"}
  /\ UNCHANGED <<ledger, riv, cur, todo, queue, mem, faults>>

(* The last entries, and the Bin.                                          *)
FinishEntries ==
  /\ pc = "filed" /\ IsLast
  /\ WriteRows(queue)
  /\ bin' = IF HasBin THEN MemAfter(queue).bal ELSE bin
  /\ FileSays(0)
  /\ pc' = "posted" /\ queue' = {} /\ mem' = Nothing
  /\ UNCHANGED <<doc, creation, cur, todo, touched, faults, causes>>

(* update_args_in_repost_item_valuation, with the next index.              *)
NextItem ==
  /\ pc = "posted"
  /\ riv' = [riv EXCEPT ![cur].posted = TRUE]
  /\ pc' = "gl"
  /\ UNCHANGED <<ledger, cur, todo, queue, mem, touched, faults, causes>>

(* deduplicate_similar_repost, whatever became of the repost: its update   *)
(* for Item and Warehouse is not PostgreSQL's SQL and raises, so the job   *)
(* ends with the other records it listed; they are listed again.           *)
Rest == IF riv[cur].of = {} THEN {} ELSE todo \ {cur}

(* repost_gl_entries, when the company has no perpetual inventory, then    *)
(* Completed.                                                              *)
Complete ==
  /\ pc = "gl"
  /\ SetStatus(cur, "Completed")
  /\ todo' = Rest
  /\ Forget
  /\ UNCHANGED <<ledger, faults, causes>>

(* A timeout or an error: everything since the last commit is rolled back, *)
(* but not the file.                                                       *)
Resumed == IF pc = "filed" /\ riv[cur].file # 0 THEN causes \cup {"resumed"} ELSE causes

Fail(s) ==
  /\ SetStatus(cur, s)
  /\ todo' = Rest
  /\ Forget
  /\ causes' = Resumed
  /\ UNCHANGED <<ledger>>

(* The statements that PostgreSQL refuses: the items of the voucher, and,  *)
(* with perpetual inventory, get_future_stock_vouchers.                    *)
Refuse ==
  /\ \/ pc = "begin" /\ riv[cur].of # {}
     \/ pc = "gl"
  /\ Fail("Failed")
  /\ UNCHANGED faults

ErrorStatus == {"Failed", "In Progress"}

FailOnConflict(s) ==
  /\ \/ pc = "snapshot" /\ (~Locked \/ (queue = {} /\ touched # {}))
     \/ pc \in {"locked", "rows"} /\ Conflict
  /\ Fail(s)
  /\ UNCHANGED faults

FailAnyhow(s) ==
  /\ pc # "idle"
  /\ faults < MaxFaults
  /\ Fail(s)
  /\ faults' = faults + 1

(* The worker dies.                                                        *)
Crash ==
  /\ pc # "idle"
  /\ faults < MaxFaults
  /\ faults' = faults + 1
  /\ causes' = Resumed
  /\ todo' = {}
  /\ Forget
  /\ UNCHANGED <<ledger, riv>>

(* restart_reposting, by a user.                                           *)
Restart(r) ==
  /\ riv[r].status = "Failed"
  /\ pc = "idle" \/ cur # r
  /\ faults < MaxFaults
  /\ faults' = faults + 1
  /\ riv' = [riv EXCEPT ![r].status = "Queued", ![r].filed = FALSE, ![r].file = 0,
                       ![r].posted = FALSE]
  /\ UNCHANGED <<ledger, job, causes>>

-----------------------------------------------------------------------------
Posting == \E v \in Voucher : Submit(v) \/ Cancel(v)

Working ==
  \/ ListReposts \/ (\E r \in todo : PickRepost(r))
  \/ TakeSnapshot \/ LockRows
  \/ WriteFile \/ CommitChunk \/ NextTransaction \/ FinishEntries \/ NextItem
  \/ Complete \/ Refuse \/ (\E s \in ErrorStatus : FailOnConflict(s))

Next ==
  \/ Posting \/ (\E v \in Voucher : RepostItem(Time[v]))
  \/ Working
  \/ (\E s \in ErrorStatus : FailAnyhow(s)) \/ Crash
  \/ (\E r \in 1 .. Len(riv) : Restart(r))

Spec == Init /\ [][Next]_vars

(* The scheduler starts the job again and again, and a running job goes on.*)
FairSpec == Spec /\ WF_vars(Working)

-----------------------------------------------------------------------------
(* Properties.                                                             *)

TrueBalance(v) == SumQty(UpTo(Active, v))

Exact(v) == bal[v] = TrueBalance(v) /\ basis[v] = UpTo(Active, v)

(* Whatever is backdated, cancelled or reposted in whatever order, the     *)
(* ledger counts exactly the submitted vouchers and never brings the entry *)
(* of a cancelled one back; every entry's balance is the running total and *)
(* never negative, and the Bin has the last balance.  Unless vouchers were *)
(* posted after the snapshot of a transaction of a repost and before the   *)
(* snapshot of its next one.                                               *)
LedgerIsExact ==
  "overlap" \notin causes =>
    /\ \A v \in Voucher : active[v] <=> doc[v] = 1
    /\ \A v \in Active : bal[v] = TrueBalance(v) /\ bal[v] >= 0
    /\ bin = SumQty(Active)

(* r is not over, be it waiting, running or Failed, and has still to value *)
(* the entries at t.                                                       *)
StillTo(r, t) == riv[r].status # "Skipped" /\ ~riv[r].posted /\ From(r) <= t

Passed(r, t) == riv[r].posted \/ From(r) > t

(* q says that entries from its time on are wrong, r was asked for after   *)
(* it and goes over all of them.                                           *)
Newer(r, q) == r > q /\ riv[r].of = {} /\ riv[r].time <= riv[q].time

Covers(q, t) ==
  StillTo(q, t) /\ ~\E r \in 1 .. Len(riv) : Newer(r, q) /\ Passed(r, t)

Covered(t) == \E q \in 1 .. Len(riv) : Covers(q, t)

(* The next commit values v.                                               *)
AboutToCommit(v) == pc = "filed" /\ v \in NextChunk

(* No wrong value passes for right: as long as an entry's value is the one *)
(* computed from the wrong entries, a record that is neither over nor made *)
(* up for by a newer repost says that the entry has still to be valued, or *)
(* the next commit values it.  Unless vouchers were posted after the       *)
(* snapshot of one transaction of a repost and before the next, or the job *)
(* died between writing the file and committing the entries.               *)
StaleIsCovered ==
  causes = {} => \A v \in Active : Exact(v) \/ Covered(Time[v]) \/ AboutToCommit(v)

(* A Failed record says that the entries at t have still to be valued.     *)
ShownWrong(t) == \E q \in 1 .. Len(riv) : riv[q].status = "Failed" /\ Covers(q, t)

(* When none of the two races happens, every wrong value becomes right, or *)
(* a Failed repost that no newer one made up for shows that it is wrong.   *)
ValuesSettle ==
  [](causes = {}) =>
     \A v \in Voucher :
       active[v] /\ ~Exact(v) ~> (active[v] => Exact(v) \/ ShownWrong(Time[v]))
=============================================================================
