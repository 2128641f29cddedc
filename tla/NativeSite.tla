----------------------------- MODULE NativeSite -----------------------------
(***************************************************************************)
(* The private allocation of a fresh site (erpnext/exe_auth/native_*.py):  *)
(* the containers that allocate it, set up its observer and observe it,    *)
(* their supervisor, and what they leave on disk and in the database.      *)
(* Core, which owns the action and its lease, and the parent, which        *)
(* dispatches containers, are outside: Core may move the lease, transfer   *)
(* or revoke the action at any time, a container may stop anywhere, and a  *)
(* commit that was issued may still happen after its process is gone.      *)
(*                                                                         *)
(* All actions here are for one site and database.  Time is counted in     *)
(* units of the cleanup reserve; a read of Core takes no time.             *)
(***************************************************************************)
EXTENDS Integers, FiniteSets

CONSTANTS Container, Action,
          None,
          Lease,       \* original_lease_expires_at
          WorkEnd,     \* the end of work the parent sends in every frame
          Install,     \* what an installation needs (151 s)
          Setup,       \* what the observer's setup needs (60 s)
          Step,        \* what any other write needs (30 s)
          MaxChanges   \* bound: changes of lease and owner in Core

ASSUME NativeAssumption ==
  /\ None \notin Container \cup Nat
  /\ None \notin [by : Container, creator : Nat]
  /\ None \notin [action : Action, creator : Nat, by : Container]
  /\ {Lease, WorkEnd, Install, Setup, Step, MaxChanges} \subseteq Nat

Cleanup == 1
Startup == 1
Time    == 0 .. WorkEnd
Owner   == 0 .. MaxChanges
Kinds   == {"allocate", "setup", "observe"}

VARIABLES
  clock,
  owner,     \* owner[a]: the creator Core names for action a, or None
  expiry,    \* expiry[a]: when a's lease expires, by Core
  kind,      \* kind[c]: what container c was dispatched for, or None
  act,       \* act[c]: the action it was dispatched for
  pc,        \* pc[c]: where it is
  end,       \* end[c]: its deadline, for its own checks and its supervisor
  seen,      \* seen[c]: the creator it observed first
  lock,      \* the container that holds the install lock, or None
  marker,    \* marker[a]: who wrote the first-writer file, and its creator
  site,      \* the site's directory exists
  tx,        \* containers whose COMMIT was issued and is not decided
  binding,   \* the committed binding: its action, creator and writer
  role,      \* role[a]: the setup that created the observer's role, or None
  reported,  \* containers whose result reached the parent
  writers,   \* history: containers that got past the first-writer marker
  issued,    \* history: containers that started the installer
  ownerAt,   \* history: ownerAt[c]: Core's creator when c's COMMIT happened
  changes    \* history: changes in Core

core     == <<owner, expiry, changes>>
identity == <<kind, act>>
local    == <<pc, end, seen>>
stored   == <<marker, site, binding, role>>
history  == <<writers, issued, ownerAt>>
vars == <<clock, core, identity, local, lock, stored, tx, reported, history>>

Phases == {"created", "standby", "admitted", "validated", "locked", "checked",
           "marked", "issuing", "installing", "started", "writing", "bound",
           "committing", "confirmed", "done", "ended"}

Running(c) == pc[c] \notin {"created", "ended"}

TypeOK ==
  /\ clock \in Time
  /\ owner \in [Action -> Owner \cup {None}] /\ expiry \in [Action -> Nat]
  /\ kind \in [Container -> Kinds \cup {None}] /\ act \in [Container -> Action]
  /\ pc \in [Container -> Phases] /\ end \in [Container -> Nat]
  /\ seen \in [Container -> Owner \cup {None}]
  /\ lock \in Container \cup {None} /\ (lock # None => Running(lock))
  /\ marker \in [Action -> [by : Container, creator : Owner] \cup {None}]
  /\ site \in BOOLEAN
  /\ tx \subseteq Container /\ reported \subseteq Container
  /\ binding \in [action : Action, creator : Owner, by : Container] \cup {None}
  /\ role \in [Action -> Container \cup {None}]
  /\ writers \subseteq Container /\ issued \subseteq writers
  /\ ownerAt \in [Container -> Owner \cup {None}]
  /\ changes \in 0 .. MaxChanges

Init ==
  /\ clock = 0 /\ changes = 0
  /\ owner = [a \in Action |-> 0] /\ expiry = [a \in Action |-> Lease]
  /\ kind = [c \in Container |-> None] /\ act \in [Container -> Action]
  /\ pc = [c \in Container |-> "created"] /\ end = [c \in Container |-> 0]
  /\ seen = [c \in Container |-> None]
  /\ lock = None /\ site = FALSE /\ binding = None
  /\ marker = [a \in Action |-> None] /\ role = [a \in Action |-> None]
  /\ tx = {} /\ reported = {} /\ writers = {} /\ issued = {}
  /\ ownerAt = [c \in Container |-> None]

-----------------------------------------------------------------------------
(* Shared by the phases.                                                   *)

Goto(c, to) == pc' = [pc EXCEPT ![c] = to]

Least(m, n) == IF m <= n THEN m ELSE n

(* bounded_owner_read and observe: a read of Core shortens the deadline to *)
(* the lease, and never beyond the original one.                           *)
MShortened(c) == Least(WorkEnd, expiry[act[c]])

Shortened(c) == Least(end[c], Least(Lease, expiry[act[c]]))

(* CurrentOwner.live: time for the step and for the cleanup after it.      *)
Live(deadline, required) == clock + Cleanup + required < deadline

MSameCreator(c) == TRUE

(* Core names the creator that c observed first.                           *)
SameCreator(c) == seen[c] \in {None, owner[act[c]]}

(* CurrentOwner.observe.                                                   *)
Observe(c, required) ==
  LET current == owner[act[c]] IN
    /\ current # None /\ SameCreator(c)
    /\ Live(Shortened(c), required)
    /\ end' = [end EXCEPT ![c] = Shortened(c)]
    /\ seen' = [seen EXCEPT ![c] = current]

(* What c wrote is committed.                                              *)
Committed(c) ==
  \/ kind[c] = "allocate" /\ binding # None /\ binding.by = c
  \/ kind[c] = "setup" /\ role[act[c]] = c

(* read_native_binding: the row is the action's, of the creator c saw, and *)
(* the first-writer file is the one the row names.                         *)
MBindingMatches(c) ==
  binding # None /\ binding.action = act[c] /\ marker[act[c]] # None

BindingMatches(c) ==
  /\ binding # None
  /\ binding.action = act[c] /\ binding.creator = seen[c]
  /\ marker[act[c]] = [by |-> binding.by, creator |-> binding.creator]

(* The lock file's descriptor is closed, at the latest by the kernel.      *)
Unlock(c) == lock' = IF lock = c THEN None ELSE lock

-----------------------------------------------------------------------------
(* The parent and the supervisor.                                          *)

Needs(k) == [allocate |-> Install, setup |-> Setup, observe |-> Step][k]

HasReported(k, a) ==
  \E d \in reported : kind[d] = k /\ act[d] = a

(* The parent sends a frame to a created container: an allocation perhaps  *)
(* more than once, the later phases only after the one before succeeded.   *)
Dispatch(c, k, a) ==
  /\ pc[c] = "created" /\ clock < WorkEnd
  /\ k = "setup" => HasReported("allocate", a)
  /\ k = "observe" => HasReported("setup", a)
  /\ kind' = [kind EXCEPT ![c] = k] /\ act' = [act EXCEPT ![c] = a]
  /\ end' = [end EXCEPT ![c] = clock + Startup]
  /\ Goto(c, "standby")
  /\ UNCHANGED <<clock, core, seen, lock, stored, tx, reported, history>>

(* bind_frame; AdmissionBudget.event: the one admission in time replaces   *)
(* the deadline of the startup by the end of work.  The supervisor, PID 1  *)
(* of its container, runs the allocate worker only; the admission and the  *)
(* deadline of setup and observe are the external parent's, which is taken *)
(* to keep to the same ones.                                               *)
Admit(c) ==
  /\ pc[c] = "standby" /\ clock < end[c]
  /\ Live(WorkEnd, Needs(kind[c]))
  /\ end' = [end EXCEPT ![c] = WorkEnd]
  /\ Goto(c, "admitted")
  /\ UNCHANGED <<clock, core, identity, seen, lock, stored, tx, reported, history>>

(* An exception, a crash or a kill: an open transaction is lost, one whose *)
(* COMMIT was issued is not decided by it.                                 *)
Stop(c) ==
  /\ Running(c)
  /\ Goto(c, "ended")
  /\ Unlock(c)
  /\ UNCHANGED <<clock, core, identity, end, seen, stored, tx, reported, history>>

MOverdue(c) == pc[c] # "standby" /\ clock >= end[c]

Overdue(c) == clock >= end[c]

(* The supervisor, or the parent, kills what outlives its deadline.        *)
TimeOut(c) == Overdue(c) /\ Stop(c)

-----------------------------------------------------------------------------
(* allocate.                                                               *)

(* validate_config, before the lock.                                       *)
ValidateSite(c) ==
  /\ pc[c] = "admitted" /\ kind[c] = "allocate"
  /\ ~site
  /\ Goto(c, "validated")
  /\ UNCHANGED <<clock, core, identity, end, seen, lock, stored, tx, reported, history>>

AcquireLock(c) ==
  /\ pc[c] = "validated" /\ lock = None
  /\ lock' = c
  /\ Goto(c, "locked")
  /\ UNCHANGED <<clock, core, identity, end, seen, stored, tx, reported, history>>

(* validate_config again, and the first look at the owner.                 *)
CheckOwner(c) ==
  /\ pc[c] = "locked" /\ ~site
  /\ Observe(c, Install)
  /\ Goto(c, "checked")
  /\ UNCHANGED <<clock, core, identity, lock, stored, tx, reported, history>>

MIsFirstWriter(c) == TRUE

(* O_CREAT | O_EXCL: nobody wrote the file of this action before.          *)
IsFirstWriter(c) == marker[act[c]] = None

WriteMarker(c) ==
  /\ pc[c] = "checked" /\ clock < WorkEnd
  /\ IsFirstWriter(c)
  /\ marker' = [marker EXCEPT ![act[c]] = [by |-> c, creator |-> seen[c]]]
  /\ writers' = writers \cup {c}
  /\ Goto(c, "marked")
  /\ UNCHANGED <<clock, core, identity, end, seen, lock, site, binding, role,
                 tx, reported, issued, ownerAt>>

(* The second read, after the durable marker and before issuance.          *)
Recheck(c) ==
  /\ pc[c] = "marked"
  /\ Observe(c, Install)
  /\ Goto(c, "issuing")
  /\ UNCHANGED <<clock, core, identity, lock, stored, tx, reported, history>>

(* _new_site: it exits when the site exists, and makes its directories.    *)
BeginInstall(c) ==
  /\ pc[c] = "issuing" /\ ~site
  /\ site' = TRUE
  /\ issued' = issued \cup {c}
  /\ Goto(c, "installing")
  /\ UNCHANGED <<clock, core, identity, end, seen, lock, marker, binding, role,
                 tx, reported, writers, ownerAt>>

EndInstall(c) ==
  /\ pc[c] = "installing"
  /\ Observe(c, Step)
  /\ Goto(c, "writing")
  /\ UNCHANGED <<clock, core, identity, lock, stored, tx, reported, history>>

(* Permissions, the user and the binding, in one open transaction.         *)
WriteBinding(c) ==
  /\ pc[c] = "writing" /\ kind[c] = "allocate"
  /\ Observe(c, Step)
  /\ Goto(c, "bound")
  /\ UNCHANGED <<clock, core, identity, lock, stored, tx, reported, history>>

-----------------------------------------------------------------------------
(* The observer's setup, and the observation.  run and what it calls have  *)
(* a CurrentOwner each.  That of setup's run is not used again; that of    *)
(* observe's run is compared at the end, which the model does all along:   *)
(* an owner who was lost does not come back, so only the refusal is later. *)

BeginPhase(c) ==
  /\ pc[c] = "admitted" /\ kind[c] \in {"setup", "observe"}
  /\ Observe(c, Needs(kind[c]))
  /\ Goto(c, "started")
  /\ UNCHANGED <<clock, core, identity, lock, stored, tx, reported, history>>

(* Nobody else holds the advisory lock of the role's name.                 *)
RoleIsFree(c) ==
  \A d \in Container \ {c} :
    kind[d] = "setup" /\ act[d] = act[c] => d \notin tx /\ pc[d] \notin {"writing", "bound"}

(* setup: the binding, then the role, which must not exist.                *)
ReadForSetup(c) ==
  /\ pc[c] = "started" /\ kind[c] = "setup"
  /\ BindingMatches(c)
  /\ RoleIsFree(c) /\ role[act[c]] = None
  /\ Goto(c, "writing")
  /\ UNCHANGED <<clock, core, identity, end, seen, lock, stored, tx, reported, history>>

Grant(c) ==
  /\ pc[c] = "writing" /\ kind[c] = "setup"
  /\ Observe(c, Setup)
  /\ Goto(c, "bound")
  /\ UNCHANGED <<clock, core, identity, lock, stored, tx, reported, history>>

(* observe: as the role, reads the binding, and looks at the owner again.  *)
ReadAsObserver(c) ==
  /\ pc[c] = "started" /\ kind[c] = "observe"
  /\ role[act[c]] # None
  /\ BindingMatches(c)
  /\ Goto(c, "bound")
  /\ UNCHANGED <<clock, core, identity, end, seen, lock, stored, tx, reported, history>>

Reconfirm(c) ==
  /\ pc[c] = "bound" /\ kind[c] = "observe"
  /\ Observe(c, 0)
  /\ Goto(c, "confirmed")
  /\ UNCHANGED <<clock, core, identity, lock, stored, tx, reported, history>>

-----------------------------------------------------------------------------
(* Commit and report.                                                      *)

IssueCommit(c) ==
  /\ pc[c] = "bound" /\ kind[c] # "observe"
  /\ kind[c] = "allocate" => Live(end[c], Step)
  /\ tx' = tx \cup {c}
  /\ Goto(c, "committing")
  /\ UNCHANGED <<clock, core, identity, end, seen, lock, stored, reported, history>>

(* PostgreSQL commits, whether or not the process is still there ...       *)
CommitHappens(c) ==
  /\ c \in tx
  /\ tx' = tx \ {c}
  /\ ownerAt' = [ownerAt EXCEPT ![c] = owner[act[c]]]
  /\ \/ /\ kind[c] = "allocate"
        /\ binding' = [action |-> act[c], creator |-> seen[c], by |-> c]
        /\ UNCHANGED role
     \/ /\ kind[c] = "setup"
        /\ role' = [role EXCEPT ![act[c]] = c]
        /\ UNCHANGED binding
  /\ UNCHANGED <<clock, core, identity, local, lock, marker, site, reported,
                 writers, issued>>

(* ... or loses the transaction.                                           *)
CommitFails(c) ==
  /\ c \in tx
  /\ tx' = tx \ {c}
  /\ UNCHANGED <<clock, core, identity, local, lock, stored, reported, history>>

(* commit_and_observe: the owner once more, after the commit.              *)
Confirm(c) ==
  /\ pc[c] = "committing" /\ c \notin tx /\ Committed(c)
  /\ Observe(c, Step)
  /\ Goto(c, "confirmed")
  /\ UNCHANGED <<clock, core, identity, lock, stored, tx, reported, history>>

(* ... and after the cleanup; the install lock is released.                *)
Close(c) ==
  /\ pc[c] = "confirmed"
  /\ Observe(c, IF kind[c] = "setup" THEN Step ELSE 0)
  /\ Goto(c, "done")
  /\ Unlock(c)
  /\ UNCHANGED <<clock, core, identity, stored, tx, reported, history>>

(* run, emit_main, supervise: the result reaches the parent in time.       *)
Report(c) ==
  /\ pc[c] = "done"
  /\ clock + (IF kind[c] = "allocate" THEN 0 ELSE Cleanup) < end[c]
  /\ reported' = reported \cup {c}
  /\ Goto(c, "ended")
  /\ UNCHANGED <<clock, core, identity, end, seen, lock, stored, tx, history>>

-----------------------------------------------------------------------------
(* Core, and time.                                                         *)

MoveLease(a, e) ==
  /\ changes < MaxChanges /\ e # expiry[a]
  /\ expiry' = [expiry EXCEPT ![a] = e] /\ changes' = changes + 1
  /\ UNCHANGED <<clock, owner, identity, local, lock, stored, tx, reported, history>>

(* A transfer names a creator that did not own the action before, or, when *)
(* the action is revoked, nobody.                                          *)
ChangeOwner(a, o) ==
  /\ changes < MaxChanges /\ owner[a] # None
  /\ o \in {changes + 1, None}
  /\ owner' = [owner EXCEPT ![a] = o] /\ changes' = changes + 1
  /\ UNCHANGED <<clock, expiry, identity, local, lock, stored, tx, reported, history>>

Tick ==
  /\ clock < WorkEnd
  /\ clock' = clock + 1
  /\ UNCHANGED <<core, identity, local, lock, stored, tx, reported, history>>

-----------------------------------------------------------------------------
Allocate(c) ==
  \/ ValidateSite(c) \/ AcquireLock(c) \/ CheckOwner(c) \/ WriteMarker(c)
  \/ Recheck(c) \/ BeginInstall(c) \/ EndInstall(c) \/ WriteBinding(c)

Phase(c) ==
  \/ BeginPhase(c) \/ ReadForSetup(c) \/ Grant(c) \/ ReadAsObserver(c)
  \/ Reconfirm(c)

Finish(c) ==
  \/ IssueCommit(c) \/ CommitHappens(c) \/ CommitFails(c) \/ Confirm(c)
  \/ Close(c) \/ Report(c)

CoreStep(a) ==
  \/ \E e \in Time : MoveLease(a, e)
  \/ \E o \in Owner \cup {None} : ChangeOwner(a, o)

Next ==
  \/ \E c \in Container :
       \/ \E k \in Kinds, a \in Action : Dispatch(c, k, a)
       \/ Admit(c) \/ Stop(c) \/ TimeOut(c)
       \/ Allocate(c) \/ Phase(c) \/ Finish(c)
  \/ \E a \in Action : CoreStep(a)
  \/ Tick

Spec == Init /\ [][Next]_vars

(* Time passes and deadlines are enforced; nothing is assumed of Core, the *)
(* parent, or what runs in a container.                                    *)
Fairness == WF_vars(Tick) /\ \A c \in Container : WF_vars(TimeOut(c))

FairSpec == Spec /\ Fairness

-----------------------------------------------------------------------------
(* Properties.                                                             *)

(* "Atomic no-replace first writer": however often an action is            *)
(* dispatched, and wherever earlier containers stopped, at most one of     *)
(* them gets past the marker, and the site is installed at most once by    *)
(* all actions together.                                                   *)
AllocatedOnce ==
  /\ \A c, d \in writers : act[c] = act[d] => c = d
  /\ \A c, d \in issued : c = d

(* A container whose result reached the parent committed while Core named  *)
(* the creator it had observed all along: an owner lost while the COMMIT   *)
(* was on its way never leads to a result (commit_and_observe).            *)
ReportedWasOwned ==
  \A c \in reported : kind[c] # "observe" => ownerAt[c] = seen[c]

(* What was reported for an action, in any phase, is backed by the one     *)
(* committed binding: it is the action's, of the creator this phase saw,   *)
(* written by the first writer, and there is a role for it to be observed  *)
(* by.                                                                     *)
ReportedIsBacked ==
  \A c \in reported :
    /\ binding # None
    /\ binding.action = act[c] /\ binding.creator = seen[c]
    /\ marker[act[c]] = [by |-> binding.by, creator |-> binding.creator]
    /\ kind[c] # "allocate" => role[act[c]] # None

(* "Neither renewals nor later reads extend the original admitted end":    *)
(* no result is accepted after the original lease, however Core moved it.  *)
LeaseIsNeverExtended ==
  [][reported' # reported => clock < Lease]_vars

(* A container that was started ends, also when it hangs before admission  *)
(* or waits for the install lock; with it goes the lock.  (For setup and   *)
(* observe this is as good as the external parent's clock.)                *)
ContainersEnd ==
  \A c \in Container : pc[c] = "standby" ~> pc[c] = "ended"

-----------------------------------------------------------------------------
(* The inductive invariant.                                                *)

Observed  == {"checked", "marked", "issuing", "installing", "started",
              "writing", "bound", "committing", "confirmed", "done"}
Accepted  == {"confirmed", "done"}
Decided   == {"committing", "confirmed", "done", "ended"}
Installed == {"installing", "writing", "bound"} \cup Decided

(* Which phases a container of each kind goes through.                     *)
PhaseOfKind ==
  \A c \in Container :
    /\ pc[c] # "created" => kind[c] \in Kinds
    /\ pc[c] \in {"validated", "locked", "checked", "marked", "issuing", "installing"}
         => kind[c] = "allocate"
    /\ pc[c] = "started" => kind[c] \in {"setup", "observe"}
    /\ pc[c] \in {"writing", "committing"} => kind[c] \in {"allocate", "setup"}
    /\ lock = c => pc[c] \in Observed \cup {"locked"} /\ pc[c] # "done"

(* Owners are numbered by the changes that named them, so that an owner    *)
(* who is observed now owned the action all the time since he was first.   *)
OwnersAreFresh ==
  /\ \A a \in Action : owner[a] \in (0 .. changes) \cup {None}
  /\ \A c \in Container :
       /\ seen[c] \in (0 .. changes) \cup {None}
       /\ pc[c] \in Observed => seen[c] # None /\ end[c] <= Lease

(* Who got past the marker is named in it, and only one installs.          *)
MarkerNamesWriter ==
  /\ \A c \in writers :
       /\ kind[c] = "allocate" /\ seen[c] # None
       /\ pc[c] \in {"marked", "issuing"} \cup Installed
       /\ marker[act[c]] = [by |-> c, creator |-> seen[c]]
  /\ \A c \in Container :
       /\ pc[c] \in {"marked", "issuing"} => c \in writers
       /\ kind[c] = "allocate" /\ pc[c] \in Installed \ {"ended"} => c \in issued
  /\ \A c \in issued : pc[c] \in Installed
  /\ issued # {} => site
  /\ \A c, d \in issued : c = d

(* What an undecided commit will write, and what a decided one wrote.      *)
CommitsAreDecidedOnce ==
  /\ \A c \in tx :
       /\ pc[c] \in {"committing", "ended"} /\ seen[c] # None
       /\ \/ kind[c] = "allocate" /\ c \in issued
          \/ kind[c] = "setup" /\ BindingMatches(c)
  /\ binding # None =>
       LET c == binding.by IN
         /\ kind[c] = "allocate" /\ pc[c] \in Decided /\ c \in issued \ tx
         /\ binding.action = act[c] /\ binding.creator = seen[c]
  /\ \A a \in Action : role[a] # None =>
       LET c == role[a] IN
         /\ kind[c] = "setup" /\ pc[c] \in Decided /\ c \notin tx
         /\ act[c] = a /\ seen[c] # None
  /\ \A c \in Container :
       Committed(c) /\ owner[act[c]] = seen[c] => ownerAt[c] = seen[c]

(* What the later phases have read stays true.                             *)
PhasesAreBacked ==
  /\ \A c \in Container :
       /\ kind[c] = "setup" /\ pc[c] \in Installed \ {"ended"} => BindingMatches(c)
       /\ kind[c] = "observe" /\ pc[c] \in {"bound", "confirmed", "done"}
            => BindingMatches(c) /\ role[act[c]] # None
       /\ pc[c] \in Accepted \/ c \in reported =>
            /\ BindingMatches(c)
            /\ kind[c] # "allocate" => role[act[c]] # None
            /\ kind[c] # "observe" => ownerAt[c] = seen[c] /\ c \notin tx
  /\ \A c \in reported : pc[c] = "ended" /\ seen[c] # None

IInv ==
  /\ TypeOK
  /\ PhaseOfKind
  /\ OwnersAreFresh
  /\ MarkerNamesWriter
  /\ CommitsAreDecidedOnce
  /\ PhasesAreBacked
=============================================================================
