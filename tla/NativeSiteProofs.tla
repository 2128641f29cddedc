------------------------- MODULE NativeSiteProofs -------------------------
(***************************************************************************)
(* Theorems about NativeSite: its inductive invariant, and from it every   *)
(* safety property that MCNativeSite checks on a small instance.  A lemma  *)
(* for each action shows that it preserves the six parts of IInv.          *)
(***************************************************************************)
EXTENDS NativeSite, TLAPS

(* The initial states satisfy the invariant.                               *)
LEMMA InitIInv == Init => IInv
  <1> SUFFICES ASSUME Init PROVE IInv
    OBVIOUS
  <1> USE NativeAssumption DEF Init

  <1>1. TypeOK
    <2>1. /\ 0 \in Time /\ 0 \in Owner /\ 0 \in 0 .. MaxChanges
          /\ Lease \in Nat
      BY DEF Time, Owner
    <2>2. QED
      BY <2>1 DEF TypeOK, Phases
  <1>2. PhaseOfKind
    BY DEF PhaseOfKind, Time, Owner, Kinds, Phases, Running, Observed, Accepted, Decided, Installed, Committed
  <1>3. OwnersAreFresh
    BY DEF OwnersAreFresh, Time, Owner, Kinds, Phases, Running, Observed, Accepted, Decided, Installed, Committed
  <1>4. MarkerNamesWriter
    BY DEF MarkerNamesWriter, Time, Owner, Kinds, Phases, Running, Observed, Accepted, Decided, Installed, Committed
  <1>5. CommitsAreDecidedOnce
    BY DEF CommitsAreDecidedOnce, Time, Owner, Kinds, Phases, Running, Observed, Accepted, Decided, Installed, Committed
  <1>6. PhasesAreBacked
    BY DEF PhasesAreBacked, Time, Owner, Kinds, Phases, Running, Observed, Accepted, Decided, Installed, Committed
  <1>7. QED
    BY <1>1, <1>2, <1>3, <1>4, <1>5, <1>6 DEF IInv

(* A look at the owner that is not refused: the creator is the one seen    *)
(* before, if any, and the deadline is within the original lease.          *)
LEMMA ObserveFacts ==
  ASSUME IInv, NEW c \in Container, NEW required, Observe(c, required)
  PROVE  /\ owner[act[c]] \in 0 .. changes
         /\ seen[c] \in {None, owner[act[c]]}
         /\ end' = [end EXCEPT ![c] = Shortened(c)]
         /\ Shortened(c) \in Nat /\ Shortened(c) <= Lease
         /\ seen' = [seen EXCEPT ![c] = owner[act[c]]]
         /\ seen[c] # None => seen' = seen /\ seen[c] = owner[act[c]]
  BY NativeAssumption
  DEF IInv, TypeOK, OwnersAreFresh, Observe, SameCreator, Shortened, Least

-----------------------------------------------------------------------------
(* The parent and the supervisor.                                          *)
LEMMA DispatchStep ==
  ASSUME IInv, NEW c \in Container, NEW k \in Kinds, NEW a \in Action,
         Dispatch(c, k, a)
  PROVE  IInv'
  <1> USE NativeAssumption DEF Dispatch, Goto, Unlock, core, identity, local, stored, history,
        Time, Owner, Kinds, Phases, Running, Observed, Accepted, Decided, Installed
  <1>0. /\ TypeOK /\ PhaseOfKind /\ OwnersAreFresh
        /\ MarkerNamesWriter /\ CommitsAreDecidedOnce /\ PhasesAreBacked
    BY DEF IInv
  <1>1. TypeOK'
    BY <1>0 DEF TypeOK, MarkerNamesWriter, PhaseOfKind, OwnersAreFresh, Startup
  <1>2. PhaseOfKind'
    BY <1>0 DEF TypeOK, PhaseOfKind
  <1>3. OwnersAreFresh'
    BY <1>0 DEF TypeOK, OwnersAreFresh
  <1>4. MarkerNamesWriter'
    BY <1>0 DEF TypeOK, PhaseOfKind, MarkerNamesWriter
  <1>5. CommitsAreDecidedOnce'
    BY <1>0 DEF TypeOK, PhaseOfKind, OwnersAreFresh, MarkerNamesWriter,
       CommitsAreDecidedOnce, PhasesAreBacked, Committed, BindingMatches
  <1>6. PhasesAreBacked'
    BY <1>0 DEF TypeOK, PhaseOfKind, OwnersAreFresh, MarkerNamesWriter,
       CommitsAreDecidedOnce, PhasesAreBacked, Committed, BindingMatches
  <1>7. QED
    BY <1>1, <1>2, <1>3, <1>4, <1>5, <1>6 DEF IInv

(* A container is admitted: its deadlines change, nothing it has written.  *)
LEMMA AdmitStep ==
  ASSUME IInv, NEW c \in Container, Admit(c)
  PROVE  IInv'
  <1> USE NativeAssumption DEF Admit, Goto, Unlock, core, identity, local, stored, history,
        Time, Owner, Kinds, Phases, Running, Observed, Accepted, Decided, Installed
  <1>0. /\ TypeOK /\ PhaseOfKind /\ OwnersAreFresh
        /\ MarkerNamesWriter /\ CommitsAreDecidedOnce /\ PhasesAreBacked
    BY DEF IInv
  <1>1. TypeOK'
    BY <1>0 DEF TypeOK, MarkerNamesWriter, PhaseOfKind, OwnersAreFresh
  <1>2. PhaseOfKind'
    BY <1>0 DEF TypeOK, PhaseOfKind
  <1>3. OwnersAreFresh'
    BY <1>0 DEF TypeOK, OwnersAreFresh
  <1>4. MarkerNamesWriter'
    BY <1>0 DEF TypeOK, PhaseOfKind, MarkerNamesWriter
  <1>5. CommitsAreDecidedOnce'
    BY <1>0 DEF TypeOK, PhaseOfKind, OwnersAreFresh, MarkerNamesWriter,
       CommitsAreDecidedOnce, PhasesAreBacked, Committed, BindingMatches
  <1>6. PhasesAreBacked'
    BY <1>0 DEF TypeOK, PhaseOfKind, OwnersAreFresh, MarkerNamesWriter,
       CommitsAreDecidedOnce, PhasesAreBacked, Committed, BindingMatches
  <1>7. QED
    BY <1>1, <1>2, <1>3, <1>4, <1>5, <1>6 DEF IInv

(* A container stops anywhere: what it committed stays, its lock goes.     *)
LEMMA StopStep ==
  ASSUME IInv, NEW c \in Container, Stop(c)
  PROVE  IInv'
  <1> USE NativeAssumption DEF Stop, Goto, Unlock, core, identity, local, stored, history,
        Time, Owner, Kinds, Phases, Running, Observed, Accepted, Decided, Installed
  <1>0. /\ TypeOK /\ PhaseOfKind /\ OwnersAreFresh
        /\ MarkerNamesWriter /\ CommitsAreDecidedOnce /\ PhasesAreBacked
    BY DEF IInv
  <1>1. TypeOK'
    BY <1>0 DEF TypeOK, MarkerNamesWriter, PhaseOfKind, OwnersAreFresh
  <1>2. PhaseOfKind'
    BY <1>0 DEF TypeOK, PhaseOfKind
  <1>3. OwnersAreFresh'
    BY <1>0 DEF TypeOK, OwnersAreFresh
  <1>4. MarkerNamesWriter'
    BY <1>0 DEF TypeOK, PhaseOfKind, MarkerNamesWriter
  <1>5. CommitsAreDecidedOnce'
    BY <1>0 DEF TypeOK, PhaseOfKind, OwnersAreFresh, MarkerNamesWriter,
       CommitsAreDecidedOnce, PhasesAreBacked, Committed, BindingMatches
  <1>6. PhasesAreBacked'
    BY <1>0 DEF TypeOK, PhaseOfKind, OwnersAreFresh, MarkerNamesWriter,
       CommitsAreDecidedOnce, PhasesAreBacked, Committed, BindingMatches
  <1>7. QED
    BY <1>1, <1>2, <1>3, <1>4, <1>5, <1>6 DEF IInv

-----------------------------------------------------------------------------
(* allocate: only WriteMarker and BeginInstall touch what is stored.       *)
LEMMA ValidateSiteStep ==
  ASSUME IInv, NEW c \in Container, ValidateSite(c)
  PROVE  IInv'
  <1> USE NativeAssumption DEF ValidateSite, Goto, Unlock, core, identity, local, stored, history,
        Time, Owner, Kinds, Phases, Running, Observed, Accepted, Decided, Installed
  <1>0. /\ TypeOK /\ PhaseOfKind /\ OwnersAreFresh
        /\ MarkerNamesWriter /\ CommitsAreDecidedOnce /\ PhasesAreBacked
    BY DEF IInv
  <1>1. TypeOK'
    BY <1>0 DEF TypeOK, MarkerNamesWriter, PhaseOfKind, OwnersAreFresh
  <1>2. PhaseOfKind'
    BY <1>0 DEF TypeOK, PhaseOfKind
  <1>3. OwnersAreFresh'
    BY <1>0 DEF TypeOK, OwnersAreFresh
  <1>4. MarkerNamesWriter'
    BY <1>0 DEF TypeOK, PhaseOfKind, MarkerNamesWriter
  <1>5. CommitsAreDecidedOnce'
    BY <1>0 DEF TypeOK, PhaseOfKind, OwnersAreFresh, MarkerNamesWriter,
       CommitsAreDecidedOnce, PhasesAreBacked, Committed, BindingMatches
  <1>6. PhasesAreBacked'
    BY <1>0 DEF TypeOK, PhaseOfKind, OwnersAreFresh, MarkerNamesWriter,
       CommitsAreDecidedOnce, PhasesAreBacked, Committed, BindingMatches
  <1>7. QED
    BY <1>1, <1>2, <1>3, <1>4, <1>5, <1>6 DEF IInv

(* The install lock is taken by a container that had none.                 *)
LEMMA AcquireLockStep ==
  ASSUME IInv, NEW c \in Container, AcquireLock(c)
  PROVE  IInv'
  <1> USE NativeAssumption DEF AcquireLock, Goto, Unlock, core, identity, local, stored, history,
        Time, Owner, Kinds, Phases, Running, Observed, Accepted, Decided, Installed
  <1>0. /\ TypeOK /\ PhaseOfKind /\ OwnersAreFresh
        /\ MarkerNamesWriter /\ CommitsAreDecidedOnce /\ PhasesAreBacked
    BY DEF IInv
  <1>1. TypeOK'
    BY <1>0 DEF TypeOK, MarkerNamesWriter, PhaseOfKind, OwnersAreFresh
  <1>2. PhaseOfKind'
    BY <1>0 DEF TypeOK, PhaseOfKind
  <1>3. OwnersAreFresh'
    BY <1>0 DEF TypeOK, OwnersAreFresh
  <1>4. MarkerNamesWriter'
    BY <1>0 DEF TypeOK, PhaseOfKind, MarkerNamesWriter
  <1>5. CommitsAreDecidedOnce'
    BY <1>0 DEF TypeOK, PhaseOfKind, OwnersAreFresh, MarkerNamesWriter,
       CommitsAreDecidedOnce, PhasesAreBacked, Committed, BindingMatches
  <1>6. PhasesAreBacked'
    BY <1>0 DEF TypeOK, PhaseOfKind, OwnersAreFresh, MarkerNamesWriter,
       CommitsAreDecidedOnce, PhasesAreBacked, Committed, BindingMatches
  <1>7. QED
    BY <1>1, <1>2, <1>3, <1>4, <1>5, <1>6 DEF IInv

(* The creator is observed before any effect.                              *)
LEMMA CheckOwnerStep ==
  ASSUME IInv, NEW c \in Container, CheckOwner(c)
  PROVE  IInv'
  <1> USE NativeAssumption DEF CheckOwner, Goto, Unlock, core, identity, local, stored, history,
        Time, Owner, Kinds, Phases, Running, Observed, Accepted, Decided, Installed
  <1>0. /\ TypeOK /\ PhaseOfKind /\ OwnersAreFresh
        /\ MarkerNamesWriter /\ CommitsAreDecidedOnce /\ PhasesAreBacked
    BY DEF IInv
  <1>a. PICK r : Observe(c, r)
    OBVIOUS
  <1>b. /\ owner[act[c]] \in 0 .. changes
        /\ seen[c] \in {None, owner[act[c]]}
        /\ end' = [end EXCEPT ![c] = Shortened(c)]
        /\ Shortened(c) \in Nat /\ Shortened(c) <= Lease
        /\ seen' = [seen EXCEPT ![c] = owner[act[c]]]
        /\ seen[c] # None => seen' = seen /\ seen[c] = owner[act[c]]
    BY <1>a, ObserveFacts
  <1>c. /\ seen' \in [Container -> Owner \cup {None}]
        /\ \A d \in Container : seen[d] # None => seen'[d] = seen[d]
    BY <1>0, <1>b DEF TypeOK, OwnersAreFresh
  <1>1. TypeOK'
    BY <1>0, <1>b DEF TypeOK, MarkerNamesWriter, PhaseOfKind, OwnersAreFresh
  <1>2. PhaseOfKind'
    BY <1>0, <1>b DEF TypeOK, PhaseOfKind
  <1>3. OwnersAreFresh'
    BY <1>0, <1>b DEF TypeOK, OwnersAreFresh
  <1>4. MarkerNamesWriter'
    <2>1. \A d \in writers :
            /\ kind'[d] = "allocate" /\ seen'[d] # None
            /\ pc'[d] \in {"marked", "issuing"} \cup Installed
      BY <1>0, <1>c DEF TypeOK, PhaseOfKind, MarkerNamesWriter
    <2>2. \A d \in writers : marker'[act'[d]] = [by |-> d, creator |-> seen'[d]]
      BY <1>0, <1>c DEF TypeOK, MarkerNamesWriter
    <2>3. /\ \A d \in Container :
               /\ pc'[d] \in {"marked", "issuing"} => d \in writers'
               /\ kind'[d] = "allocate" /\ pc'[d] \in Installed \ {"ended"} => d \in issued'
          /\ \A d \in issued' : pc'[d] \in Installed
          /\ issued' # {} => site'
          /\ \A d, e \in issued' : d = e
      BY <1>0 DEF TypeOK, PhaseOfKind, MarkerNamesWriter
    <2>4. QED
      BY <2>1, <2>2, <2>3 DEF MarkerNamesWriter
  <1>5. CommitsAreDecidedOnce'
    BY <1>0, <1>b DEF TypeOK, PhaseOfKind, OwnersAreFresh, MarkerNamesWriter,
       CommitsAreDecidedOnce, PhasesAreBacked, Committed, BindingMatches
  <1>6. PhasesAreBacked'
    BY <1>0, <1>b DEF TypeOK, PhaseOfKind, OwnersAreFresh, MarkerNamesWriter,
       CommitsAreDecidedOnce, PhasesAreBacked, Committed, BindingMatches
  <1>7. QED
    BY <1>1, <1>2, <1>3, <1>4, <1>5, <1>6 DEF IInv

(* The marker is written once, and names the container that wrote it.      *)
LEMMA WriteMarkerStep ==
  ASSUME IInv, NEW c \in Container, WriteMarker(c)
  PROVE  IInv'
  <1> USE NativeAssumption DEF WriteMarker, Goto, Unlock, core, identity, local, stored, history,
        Time, Owner, Kinds, Phases, Running, Observed, Accepted, Decided, Installed
  <1>0. /\ TypeOK /\ PhaseOfKind /\ OwnersAreFresh
        /\ MarkerNamesWriter /\ CommitsAreDecidedOnce /\ PhasesAreBacked
    BY DEF IInv
  <1>1. TypeOK'
    BY <1>0 DEF TypeOK, MarkerNamesWriter, PhaseOfKind, OwnersAreFresh
  <1>2. PhaseOfKind'
    BY <1>0 DEF TypeOK, PhaseOfKind
  <1>3. OwnersAreFresh'
    BY <1>0 DEF TypeOK, OwnersAreFresh
  <1>4a. /\ \A d \in writers : act[d] # act[c]
         /\ \A d \in Container :
              marker'[act[d]] = IF act[d] = act[c] THEN [by |-> c, creator |-> seen[c]]
                                                   ELSE marker[act[d]]
         /\ \A d \in Container : BindingMatches(d) => act[d] # act[c]
    <2>1. \A d \in Container, n \in Nat : [by |-> d, creator |-> n] # None
      OBVIOUS
    <2>2. \A d \in writers : act[d] # act[c]
      <3> SUFFICES ASSUME NEW d \in writers PROVE marker[act[d]] # None
        BY DEF IsFirstWriter
      <3>1. d \in Container
        BY <1>0 DEF TypeOK
      <3>2. seen[d] \in (0 .. changes) \cup {None} /\ seen[d] # None
        BY <1>0, <3>1 DEF OwnersAreFresh, MarkerNamesWriter
      <3>3. seen[d] \in Nat
        BY <3>2
      <3>4. marker[act[d]] = [by |-> d, creator |-> seen[d]]
        BY <1>0 DEF MarkerNamesWriter
      <3>5. QED
        BY <2>1, <3>1, <3>3, <3>4
    <2>3. marker' = [marker EXCEPT ![act[c]] = [by |-> c, creator |-> seen[c]]]
      OBVIOUS
    <2>4. \A d \in Container : BindingMatches(d) => act[d] # act[c]
      BY <1>0, <2>1 DEF TypeOK, CommitsAreDecidedOnce, OwnersAreFresh, IsFirstWriter, BindingMatches
    <2>5. QED
      BY <1>0, <2>2, <2>3, <2>4 DEF TypeOK
  <1>4. MarkerNamesWriter'
    BY <1>0, <1>4a DEF TypeOK, PhaseOfKind, OwnersAreFresh, MarkerNamesWriter
  <1>5. CommitsAreDecidedOnce'
    BY <1>0, <1>4a DEF TypeOK, PhaseOfKind, OwnersAreFresh, MarkerNamesWriter,
       CommitsAreDecidedOnce, PhasesAreBacked, Committed, BindingMatches
  <1>6. PhasesAreBacked'
    BY <1>0, <1>4a DEF TypeOK, PhaseOfKind, OwnersAreFresh, MarkerNamesWriter,
       CommitsAreDecidedOnce, PhasesAreBacked, Committed, BindingMatches
  <1>7. QED
    BY <1>1, <1>2, <1>3, <1>4, <1>5, <1>6 DEF IInv

(* The creator is observed again, after the marker.                        *)
LEMMA RecheckStep ==
  ASSUME IInv, NEW c \in Container, Recheck(c)
  PROVE  IInv'
  <1> USE NativeAssumption DEF Recheck, Goto, Unlock, core, identity, local, stored, history,
        Time, Owner, Kinds, Phases, Running, Observed, Accepted, Decided, Installed
  <1>0. /\ TypeOK /\ PhaseOfKind /\ OwnersAreFresh
        /\ MarkerNamesWriter /\ CommitsAreDecidedOnce /\ PhasesAreBacked
    BY DEF IInv
  <1>a. PICK r : Observe(c, r)
    OBVIOUS
  <1>b. /\ owner[act[c]] \in 0 .. changes
        /\ seen[c] \in {None, owner[act[c]]}
        /\ end' = [end EXCEPT ![c] = Shortened(c)]
        /\ Shortened(c) \in Nat /\ Shortened(c) <= Lease
        /\ seen' = [seen EXCEPT ![c] = owner[act[c]]]
        /\ seen[c] # None => seen' = seen /\ seen[c] = owner[act[c]]
    BY <1>a, ObserveFacts
  <1>c. /\ seen' \in [Container -> Owner \cup {None}]
        /\ \A d \in Container : seen[d] # None => seen'[d] = seen[d]
    BY <1>0, <1>b DEF TypeOK, OwnersAreFresh
  <1>1. TypeOK'
    BY <1>0, <1>b DEF TypeOK, MarkerNamesWriter, PhaseOfKind, OwnersAreFresh
  <1>2. PhaseOfKind'
    BY <1>0, <1>b DEF TypeOK, PhaseOfKind
  <1>3. OwnersAreFresh'
    BY <1>0, <1>b DEF TypeOK, OwnersAreFresh
  <1>4. MarkerNamesWriter'
    <2>1. \A d \in writers :
            /\ kind'[d] = "allocate" /\ seen'[d] # None
            /\ pc'[d] \in {"marked", "issuing"} \cup Installed
      BY <1>0, <1>c DEF TypeOK, PhaseOfKind, MarkerNamesWriter
    <2>2. \A d \in writers : marker'[act'[d]] = [by |-> d, creator |-> seen'[d]]
      BY <1>0, <1>c DEF TypeOK, MarkerNamesWriter
    <2>3. /\ \A d \in Container :
               /\ pc'[d] \in {"marked", "issuing"} => d \in writers'
               /\ kind'[d] = "allocate" /\ pc'[d] \in Installed \ {"ended"} => d \in issued'
          /\ \A d \in issued' : pc'[d] \in Installed
          /\ issued' # {} => site'
          /\ \A d, e \in issued' : d = e
      BY <1>0 DEF TypeOK, PhaseOfKind, MarkerNamesWriter
    <2>4. QED
      BY <2>1, <2>2, <2>3 DEF MarkerNamesWriter
  <1>5. CommitsAreDecidedOnce'
    BY <1>0, <1>b DEF TypeOK, PhaseOfKind, OwnersAreFresh, MarkerNamesWriter,
       CommitsAreDecidedOnce, PhasesAreBacked, Committed, BindingMatches
  <1>6. PhasesAreBacked'
    BY <1>0, <1>b DEF TypeOK, PhaseOfKind, OwnersAreFresh, MarkerNamesWriter,
       CommitsAreDecidedOnce, PhasesAreBacked, Committed, BindingMatches
  <1>7. QED
    BY <1>1, <1>2, <1>3, <1>4, <1>5, <1>6 DEF IInv

(* The site is made by the one writer.                                     *)
LEMMA BeginInstallStep ==
  ASSUME IInv, NEW c \in Container, BeginInstall(c)
  PROVE  IInv'
  <1> USE NativeAssumption DEF BeginInstall, Goto, Unlock, core, identity, local, stored, history,
        Time, Owner, Kinds, Phases, Running, Observed, Accepted, Decided, Installed
  <1>0. /\ TypeOK /\ PhaseOfKind /\ OwnersAreFresh
        /\ MarkerNamesWriter /\ CommitsAreDecidedOnce /\ PhasesAreBacked
    BY DEF IInv
  <1>1. TypeOK'
    BY <1>0 DEF TypeOK, MarkerNamesWriter, PhaseOfKind, OwnersAreFresh
  <1>2. PhaseOfKind'
    BY <1>0 DEF TypeOK, PhaseOfKind
  <1>3. OwnersAreFresh'
    BY <1>0 DEF TypeOK, OwnersAreFresh
  <1>4. MarkerNamesWriter'
    BY <1>0 DEF TypeOK, PhaseOfKind, MarkerNamesWriter
  <1>5. CommitsAreDecidedOnce'
    BY <1>0 DEF TypeOK, PhaseOfKind, OwnersAreFresh, MarkerNamesWriter,
       CommitsAreDecidedOnce, PhasesAreBacked, Committed, BindingMatches
  <1>6. PhasesAreBacked'
    BY <1>0 DEF TypeOK, PhaseOfKind, OwnersAreFresh, MarkerNamesWriter,
       CommitsAreDecidedOnce, PhasesAreBacked, Committed, BindingMatches
  <1>7. QED
    BY <1>1, <1>2, <1>3, <1>4, <1>5, <1>6 DEF IInv

(* The creator is observed after the installation.                         *)
LEMMA EndInstallStep ==
  ASSUME IInv, NEW c \in Container, EndInstall(c)
  PROVE  IInv'
  <1> USE NativeAssumption DEF EndInstall, Goto, Unlock, core, identity, local, stored, history,
        Time, Owner, Kinds, Phases, Running, Observed, Accepted, Decided, Installed
  <1>0. /\ TypeOK /\ PhaseOfKind /\ OwnersAreFresh
        /\ MarkerNamesWriter /\ CommitsAreDecidedOnce /\ PhasesAreBacked
    BY DEF IInv
  <1>a. PICK r : Observe(c, r)
    OBVIOUS
  <1>b. /\ owner[act[c]] \in 0 .. changes
        /\ seen[c] \in {None, owner[act[c]]}
        /\ end' = [end EXCEPT ![c] = Shortened(c)]
        /\ Shortened(c) \in Nat /\ Shortened(c) <= Lease
        /\ seen' = [seen EXCEPT ![c] = owner[act[c]]]
        /\ seen[c] # None => seen' = seen /\ seen[c] = owner[act[c]]
    BY <1>a, ObserveFacts
  <1>c. /\ seen' \in [Container -> Owner \cup {None}]
        /\ \A d \in Container : seen[d] # None => seen'[d] = seen[d]
    BY <1>0, <1>b DEF TypeOK, OwnersAreFresh
  <1>1. TypeOK'
    BY <1>0, <1>b DEF TypeOK, MarkerNamesWriter, PhaseOfKind, OwnersAreFresh
  <1>2. PhaseOfKind'
    BY <1>0, <1>b DEF TypeOK, PhaseOfKind
  <1>3. OwnersAreFresh'
    BY <1>0, <1>b DEF TypeOK, OwnersAreFresh
  <1>4. MarkerNamesWriter'
    <2>1. \A d \in writers :
            /\ kind'[d] = "allocate" /\ seen'[d] # None
            /\ pc'[d] \in {"marked", "issuing"} \cup Installed
      BY <1>0, <1>c DEF TypeOK, PhaseOfKind, MarkerNamesWriter
    <2>2. \A d \in writers : marker'[act'[d]] = [by |-> d, creator |-> seen'[d]]
      BY <1>0, <1>c DEF TypeOK, MarkerNamesWriter
    <2>3. /\ \A d \in Container :
               /\ pc'[d] \in {"marked", "issuing"} => d \in writers'
               /\ kind'[d] = "allocate" /\ pc'[d] \in Installed \ {"ended"} => d \in issued'
          /\ \A d \in issued' : pc'[d] \in Installed
          /\ issued' # {} => site'
          /\ \A d, e \in issued' : d = e
      BY <1>0 DEF TypeOK, PhaseOfKind, MarkerNamesWriter
    <2>4. QED
      BY <2>1, <2>2, <2>3 DEF MarkerNamesWriter
  <1>5. CommitsAreDecidedOnce'
    BY <1>0, <1>b DEF TypeOK, PhaseOfKind, OwnersAreFresh, MarkerNamesWriter,
       CommitsAreDecidedOnce, PhasesAreBacked, Committed, BindingMatches
  <1>6. PhasesAreBacked'
    BY <1>0, <1>b DEF TypeOK, PhaseOfKind, OwnersAreFresh, MarkerNamesWriter,
       CommitsAreDecidedOnce, PhasesAreBacked, Committed, BindingMatches
  <1>7. QED
    BY <1>1, <1>2, <1>3, <1>4, <1>5, <1>6 DEF IInv

(* The binding is written in a transaction that is still open.             *)
LEMMA WriteBindingStep ==
  ASSUME IInv, NEW c \in Container, WriteBinding(c)
  PROVE  IInv'
  <1> USE NativeAssumption DEF WriteBinding, Goto, Unlock, core, identity, local, stored, history,
        Time, Owner, Kinds, Phases, Running, Observed, Accepted, Decided, Installed
  <1>0. /\ TypeOK /\ PhaseOfKind /\ OwnersAreFresh
        /\ MarkerNamesWriter /\ CommitsAreDecidedOnce /\ PhasesAreBacked
    BY DEF IInv
  <1>a. PICK r : Observe(c, r)
    OBVIOUS
  <1>b. /\ owner[act[c]] \in 0 .. changes
        /\ seen[c] \in {None, owner[act[c]]}
        /\ end' = [end EXCEPT ![c] = Shortened(c)]
        /\ Shortened(c) \in Nat /\ Shortened(c) <= Lease
        /\ seen' = [seen EXCEPT ![c] = owner[act[c]]]
        /\ seen[c] # None => seen' = seen /\ seen[c] = owner[act[c]]
    BY <1>a, ObserveFacts
  <1>c. /\ seen' \in [Container -> Owner \cup {None}]
        /\ \A d \in Container : seen[d] # None => seen'[d] = seen[d]
    BY <1>0, <1>b DEF TypeOK, OwnersAreFresh
  <1>1. TypeOK'
    BY <1>0, <1>b DEF TypeOK, MarkerNamesWriter, PhaseOfKind, OwnersAreFresh
  <1>2. PhaseOfKind'
    BY <1>0, <1>b DEF TypeOK, PhaseOfKind
  <1>3. OwnersAreFresh'
    BY <1>0, <1>b DEF TypeOK, OwnersAreFresh
  <1>4. MarkerNamesWriter'
    <2>1. \A d \in writers :
            /\ kind'[d] = "allocate" /\ seen'[d] # None
            /\ pc'[d] \in {"marked", "issuing"} \cup Installed
      BY <1>0, <1>c DEF TypeOK, PhaseOfKind, MarkerNamesWriter
    <2>2. \A d \in writers : marker'[act'[d]] = [by |-> d, creator |-> seen'[d]]
      BY <1>0, <1>c DEF TypeOK, MarkerNamesWriter
    <2>3. /\ \A d \in Container :
               /\ pc'[d] \in {"marked", "issuing"} => d \in writers'
               /\ kind'[d] = "allocate" /\ pc'[d] \in Installed \ {"ended"} => d \in issued'
          /\ \A d \in issued' : pc'[d] \in Installed
          /\ issued' # {} => site'
          /\ \A d, e \in issued' : d = e
      BY <1>0 DEF TypeOK, PhaseOfKind, MarkerNamesWriter
    <2>4. QED
      BY <2>1, <2>2, <2>3 DEF MarkerNamesWriter
  <1>5. CommitsAreDecidedOnce'
    BY <1>0, <1>b DEF TypeOK, PhaseOfKind, OwnersAreFresh, MarkerNamesWriter,
       CommitsAreDecidedOnce, PhasesAreBacked, Committed, BindingMatches
  <1>6. PhasesAreBacked'
    BY <1>0, <1>b DEF TypeOK, PhaseOfKind, OwnersAreFresh, MarkerNamesWriter,
       CommitsAreDecidedOnce, PhasesAreBacked, Committed, BindingMatches
  <1>7. QED
    BY <1>1, <1>2, <1>3, <1>4, <1>5, <1>6 DEF IInv

-----------------------------------------------------------------------------
(* The observer's setup, and the observation.                              *)
LEMMA BeginPhaseStep ==
  ASSUME IInv, NEW c \in Container, BeginPhase(c)
  PROVE  IInv'
  <1> USE NativeAssumption DEF BeginPhase, Goto, Unlock, core, identity, local, stored, history,
        Time, Owner, Kinds, Phases, Running, Observed, Accepted, Decided, Installed
  <1>0. /\ TypeOK /\ PhaseOfKind /\ OwnersAreFresh
        /\ MarkerNamesWriter /\ CommitsAreDecidedOnce /\ PhasesAreBacked
    BY DEF IInv
  <1>a. PICK r : Observe(c, r)
    OBVIOUS
  <1>b. /\ owner[act[c]] \in 0 .. changes
        /\ seen[c] \in {None, owner[act[c]]}
        /\ end' = [end EXCEPT ![c] = Shortened(c)]
        /\ Shortened(c) \in Nat /\ Shortened(c) <= Lease
        /\ seen' = [seen EXCEPT ![c] = owner[act[c]]]
        /\ seen[c] # None => seen' = seen /\ seen[c] = owner[act[c]]
    BY <1>a, ObserveFacts
  <1>c. /\ seen' \in [Container -> Owner \cup {None}]
        /\ \A d \in Container : seen[d] # None => seen'[d] = seen[d]
    BY <1>0, <1>b DEF TypeOK, OwnersAreFresh
  <1>1. TypeOK'
    BY <1>0, <1>b DEF TypeOK, MarkerNamesWriter, PhaseOfKind, OwnersAreFresh
  <1>2. PhaseOfKind'
    BY <1>0, <1>b DEF TypeOK, PhaseOfKind
  <1>3. OwnersAreFresh'
    BY <1>0, <1>b DEF TypeOK, OwnersAreFresh
  <1>4. MarkerNamesWriter'
    <2>1. \A d \in writers :
            /\ kind'[d] = "allocate" /\ seen'[d] # None
            /\ pc'[d] \in {"marked", "issuing"} \cup Installed
      BY <1>0, <1>c DEF TypeOK, PhaseOfKind, MarkerNamesWriter
    <2>2. \A d \in writers : marker'[act'[d]] = [by |-> d, creator |-> seen'[d]]
      BY <1>0, <1>c DEF TypeOK, MarkerNamesWriter
    <2>3. /\ \A d \in Container :
               /\ pc'[d] \in {"marked", "issuing"} => d \in writers'
               /\ kind'[d] = "allocate" /\ pc'[d] \in Installed \ {"ended"} => d \in issued'
          /\ \A d \in issued' : pc'[d] \in Installed
          /\ issued' # {} => site'
          /\ \A d, e \in issued' : d = e
      BY <1>0 DEF TypeOK, PhaseOfKind, MarkerNamesWriter
    <2>4. QED
      BY <2>1, <2>2, <2>3 DEF MarkerNamesWriter
  <1>5. CommitsAreDecidedOnce'
    BY <1>0, <1>b DEF TypeOK, PhaseOfKind, OwnersAreFresh, MarkerNamesWriter,
       CommitsAreDecidedOnce, PhasesAreBacked, Committed, BindingMatches
  <1>6. PhasesAreBacked'
    BY <1>0, <1>b DEF TypeOK, PhaseOfKind, OwnersAreFresh, MarkerNamesWriter,
       CommitsAreDecidedOnce, PhasesAreBacked, Committed, BindingMatches
  <1>7. QED
    BY <1>1, <1>2, <1>3, <1>4, <1>5, <1>6 DEF IInv

(* A setup reads the binding, which does not change any more.              *)
LEMMA ReadForSetupStep ==
  ASSUME IInv, NEW c \in Container, ReadForSetup(c)
  PROVE  IInv'
  <1> USE NativeAssumption DEF ReadForSetup, Goto, Unlock, core, identity, local, stored, history,
        Time, Owner, Kinds, Phases, Running, Observed, Accepted, Decided, Installed
  <1>0. /\ TypeOK /\ PhaseOfKind /\ OwnersAreFresh
        /\ MarkerNamesWriter /\ CommitsAreDecidedOnce /\ PhasesAreBacked
    BY DEF IInv
  <1>1. TypeOK'
    BY <1>0 DEF TypeOK, MarkerNamesWriter, PhaseOfKind, OwnersAreFresh
  <1>2. PhaseOfKind'
    BY <1>0 DEF TypeOK, PhaseOfKind
  <1>3. OwnersAreFresh'
    BY <1>0 DEF TypeOK, OwnersAreFresh
  <1>4. MarkerNamesWriter'
    BY <1>0 DEF TypeOK, PhaseOfKind, MarkerNamesWriter
  <1>5. CommitsAreDecidedOnce'
    BY <1>0 DEF TypeOK, PhaseOfKind, OwnersAreFresh, MarkerNamesWriter,
       CommitsAreDecidedOnce, PhasesAreBacked, Committed, BindingMatches
  <1>6. PhasesAreBacked'
    BY <1>0 DEF TypeOK, PhaseOfKind, OwnersAreFresh, MarkerNamesWriter,
       CommitsAreDecidedOnce, PhasesAreBacked, Committed, BindingMatches
  <1>7. QED
    BY <1>1, <1>2, <1>3, <1>4, <1>5, <1>6 DEF IInv

(* A setup writes the observer's role in its open transaction.             *)
LEMMA GrantStep ==
  ASSUME IInv, NEW c \in Container, Grant(c)
  PROVE  IInv'
  <1> USE NativeAssumption DEF Grant, Goto, Unlock, core, identity, local, stored, history,
        Time, Owner, Kinds, Phases, Running, Observed, Accepted, Decided, Installed
  <1>0. /\ TypeOK /\ PhaseOfKind /\ OwnersAreFresh
        /\ MarkerNamesWriter /\ CommitsAreDecidedOnce /\ PhasesAreBacked
    BY DEF IInv
  <1>a. PICK r : Observe(c, r)
    OBVIOUS
  <1>b. /\ owner[act[c]] \in 0 .. changes
        /\ seen[c] \in {None, owner[act[c]]}
        /\ end' = [end EXCEPT ![c] = Shortened(c)]
        /\ Shortened(c) \in Nat /\ Shortened(c) <= Lease
        /\ seen' = [seen EXCEPT ![c] = owner[act[c]]]
        /\ seen[c] # None => seen' = seen /\ seen[c] = owner[act[c]]
    BY <1>a, ObserveFacts
  <1>c. /\ seen' \in [Container -> Owner \cup {None}]
        /\ \A d \in Container : seen[d] # None => seen'[d] = seen[d]
    BY <1>0, <1>b DEF TypeOK, OwnersAreFresh
  <1>1. TypeOK'
    BY <1>0, <1>b DEF TypeOK, MarkerNamesWriter, PhaseOfKind, OwnersAreFresh
  <1>2. PhaseOfKind'
    BY <1>0, <1>b DEF TypeOK, PhaseOfKind
  <1>3. OwnersAreFresh'
    BY <1>0, <1>b DEF TypeOK, OwnersAreFresh
  <1>4. MarkerNamesWriter'
    <2>1. \A d \in writers :
            /\ kind'[d] = "allocate" /\ seen'[d] # None
            /\ pc'[d] \in {"marked", "issuing"} \cup Installed
      BY <1>0, <1>c DEF TypeOK, PhaseOfKind, MarkerNamesWriter
    <2>2. \A d \in writers : marker'[act'[d]] = [by |-> d, creator |-> seen'[d]]
      BY <1>0, <1>c DEF TypeOK, MarkerNamesWriter
    <2>3. /\ \A d \in Container :
               /\ pc'[d] \in {"marked", "issuing"} => d \in writers'
               /\ kind'[d] = "allocate" /\ pc'[d] \in Installed \ {"ended"} => d \in issued'
          /\ \A d \in issued' : pc'[d] \in Installed
          /\ issued' # {} => site'
          /\ \A d, e \in issued' : d = e
      BY <1>0 DEF TypeOK, PhaseOfKind, MarkerNamesWriter
    <2>4. QED
      BY <2>1, <2>2, <2>3 DEF MarkerNamesWriter
  <1>5. CommitsAreDecidedOnce'
    BY <1>0, <1>b DEF TypeOK, PhaseOfKind, OwnersAreFresh, MarkerNamesWriter,
       CommitsAreDecidedOnce, PhasesAreBacked, Committed, BindingMatches
  <1>6. PhasesAreBacked'
    BY <1>0, <1>b DEF TypeOK, PhaseOfKind, OwnersAreFresh, MarkerNamesWriter,
       CommitsAreDecidedOnce, PhasesAreBacked, Committed, BindingMatches
  <1>7. QED
    BY <1>1, <1>2, <1>3, <1>4, <1>5, <1>6 DEF IInv

(* An observer reads marker, binding and role.                             *)
LEMMA ReadAsObserverStep ==
  ASSUME IInv, NEW c \in Container, ReadAsObserver(c)
  PROVE  IInv'
  <1> USE NativeAssumption DEF ReadAsObserver, Goto, Unlock, core, identity, local, stored, history,
        Time, Owner, Kinds, Phases, Running, Observed, Accepted, Decided, Installed
  <1>0. /\ TypeOK /\ PhaseOfKind /\ OwnersAreFresh
        /\ MarkerNamesWriter /\ CommitsAreDecidedOnce /\ PhasesAreBacked
    BY DEF IInv
  <1>1. TypeOK'
    BY <1>0 DEF TypeOK, MarkerNamesWriter, PhaseOfKind, OwnersAreFresh
  <1>2. PhaseOfKind'
    BY <1>0 DEF TypeOK, PhaseOfKind
  <1>3. OwnersAreFresh'
    BY <1>0 DEF TypeOK, OwnersAreFresh
  <1>4. MarkerNamesWriter'
    BY <1>0 DEF TypeOK, PhaseOfKind, MarkerNamesWriter
  <1>5. CommitsAreDecidedOnce'
    BY <1>0 DEF TypeOK, PhaseOfKind, OwnersAreFresh, MarkerNamesWriter,
       CommitsAreDecidedOnce, PhasesAreBacked, Committed, BindingMatches
  <1>6. PhasesAreBacked'
    BY <1>0 DEF TypeOK, PhaseOfKind, OwnersAreFresh, MarkerNamesWriter,
       CommitsAreDecidedOnce, PhasesAreBacked, Committed, BindingMatches
  <1>7. QED
    BY <1>1, <1>2, <1>3, <1>4, <1>5, <1>6 DEF IInv

(* An observer reads them again, and the creator.                          *)
LEMMA ReconfirmStep ==
  ASSUME IInv, NEW c \in Container, Reconfirm(c)
  PROVE  IInv'
  <1> USE NativeAssumption DEF Reconfirm, Goto, Unlock, core, identity, local, stored, history,
        Time, Owner, Kinds, Phases, Running, Observed, Accepted, Decided, Installed
  <1>0. /\ TypeOK /\ PhaseOfKind /\ OwnersAreFresh
        /\ MarkerNamesWriter /\ CommitsAreDecidedOnce /\ PhasesAreBacked
    BY DEF IInv
  <1>a. PICK r : Observe(c, r)
    OBVIOUS
  <1>b. /\ owner[act[c]] \in 0 .. changes
        /\ seen[c] \in {None, owner[act[c]]}
        /\ end' = [end EXCEPT ![c] = Shortened(c)]
        /\ Shortened(c) \in Nat /\ Shortened(c) <= Lease
        /\ seen' = [seen EXCEPT ![c] = owner[act[c]]]
        /\ seen[c] # None => seen' = seen /\ seen[c] = owner[act[c]]
    BY <1>a, ObserveFacts
  <1>c. /\ seen' \in [Container -> Owner \cup {None}]
        /\ \A d \in Container : seen[d] # None => seen'[d] = seen[d]
    BY <1>0, <1>b DEF TypeOK, OwnersAreFresh
  <1>1. TypeOK'
    BY <1>0, <1>b DEF TypeOK, MarkerNamesWriter, PhaseOfKind, OwnersAreFresh
  <1>2. PhaseOfKind'
    BY <1>0, <1>b DEF TypeOK, PhaseOfKind
  <1>3. OwnersAreFresh'
    BY <1>0, <1>b DEF TypeOK, OwnersAreFresh
  <1>4. MarkerNamesWriter'
    <2>1. \A d \in writers :
            /\ kind'[d] = "allocate" /\ seen'[d] # None
            /\ pc'[d] \in {"marked", "issuing"} \cup Installed
      BY <1>0, <1>c DEF TypeOK, PhaseOfKind, MarkerNamesWriter
    <2>2. \A d \in writers : marker'[act'[d]] = [by |-> d, creator |-> seen'[d]]
      BY <1>0, <1>c DEF TypeOK, MarkerNamesWriter
    <2>3. /\ \A d \in Container :
               /\ pc'[d] \in {"marked", "issuing"} => d \in writers'
               /\ kind'[d] = "allocate" /\ pc'[d] \in Installed \ {"ended"} => d \in issued'
          /\ \A d \in issued' : pc'[d] \in Installed
          /\ issued' # {} => site'
          /\ \A d, e \in issued' : d = e
      BY <1>0 DEF TypeOK, PhaseOfKind, MarkerNamesWriter
    <2>4. QED
      BY <2>1, <2>2, <2>3 DEF MarkerNamesWriter
  <1>5. CommitsAreDecidedOnce'
    BY <1>0, <1>b DEF TypeOK, PhaseOfKind, OwnersAreFresh, MarkerNamesWriter,
       CommitsAreDecidedOnce, PhasesAreBacked, Committed, BindingMatches
  <1>6. PhasesAreBacked'
    BY <1>0, <1>b DEF TypeOK, PhaseOfKind, OwnersAreFresh, MarkerNamesWriter,
       CommitsAreDecidedOnce, PhasesAreBacked, Committed, BindingMatches
  <1>7. QED
    BY <1>1, <1>2, <1>3, <1>4, <1>5, <1>6 DEF IInv

-----------------------------------------------------------------------------
(* Commit and report.                                                      *)
LEMMA IssueCommitStep ==
  ASSUME IInv, NEW c \in Container, IssueCommit(c)
  PROVE  IInv'
  <1> USE NativeAssumption DEF IssueCommit, Goto, Unlock, core, identity, local, stored, history,
        Time, Owner, Kinds, Phases, Running, Observed, Accepted, Decided, Installed
  <1>0. /\ TypeOK /\ PhaseOfKind /\ OwnersAreFresh
        /\ MarkerNamesWriter /\ CommitsAreDecidedOnce /\ PhasesAreBacked
    BY DEF IInv
  <1>1. TypeOK'
    BY <1>0 DEF TypeOK, MarkerNamesWriter, PhaseOfKind, OwnersAreFresh
  <1>2. PhaseOfKind'
    BY <1>0 DEF TypeOK, PhaseOfKind
  <1>3. OwnersAreFresh'
    BY <1>0 DEF TypeOK, OwnersAreFresh
  <1>4. MarkerNamesWriter'
    BY <1>0 DEF TypeOK, PhaseOfKind, MarkerNamesWriter
  <1>5. CommitsAreDecidedOnce'
    BY <1>0 DEF TypeOK, PhaseOfKind, OwnersAreFresh, MarkerNamesWriter,
       CommitsAreDecidedOnce, PhasesAreBacked, Committed, BindingMatches
  <1>6. PhasesAreBacked'
    BY <1>0 DEF TypeOK, PhaseOfKind, OwnersAreFresh, MarkerNamesWriter,
       CommitsAreDecidedOnce, PhasesAreBacked, Committed, BindingMatches
  <1>7. QED
    BY <1>1, <1>2, <1>3, <1>4, <1>5, <1>6 DEF IInv

(* A commit that was issued takes effect, also after its process died.     *)
LEMMA CommitHappensStep ==
  ASSUME IInv, NEW c \in Container, CommitHappens(c)
  PROVE  IInv'
  <1> USE NativeAssumption DEF CommitHappens, Goto, Unlock, core, identity, local, stored, history,
        Time, Owner, Kinds, Phases, Running, Observed, Accepted, Decided, Installed
  <1>0. /\ TypeOK /\ PhaseOfKind /\ OwnersAreFresh
        /\ MarkerNamesWriter /\ CommitsAreDecidedOnce /\ PhasesAreBacked
    BY DEF IInv
  <1>1. TypeOK'
    <2>1. ownerAt' \in [Container -> Owner \cup {None}]
      BY <1>0 DEF TypeOK
    <2>2. role' \in [Action -> Container \cup {None}]
      BY <1>0 DEF TypeOK
    <2>3. binding' \in [action : Action, creator : Owner, by : Container] \cup {None}
      BY <1>0 DEF TypeOK, OwnersAreFresh, CommitsAreDecidedOnce
    <2>4. QED
      BY <1>0, <2>1, <2>2, <2>3 DEF TypeOK
  <1>2. PhaseOfKind'
    BY <1>0 DEF TypeOK, PhaseOfKind
  <1>3. OwnersAreFresh'
    BY <1>0 DEF TypeOK, OwnersAreFresh
  <1>4. MarkerNamesWriter'
    BY <1>0 DEF TypeOK, PhaseOfKind, MarkerNamesWriter
  <1>5. CommitsAreDecidedOnce'
    BY <1>0 DEF TypeOK, PhaseOfKind, OwnersAreFresh, MarkerNamesWriter,
       CommitsAreDecidedOnce, PhasesAreBacked, Committed, BindingMatches
  <1>6. PhasesAreBacked'
    BY <1>0 DEF TypeOK, PhaseOfKind, OwnersAreFresh, MarkerNamesWriter,
       CommitsAreDecidedOnce, PhasesAreBacked, Committed, BindingMatches
  <1>7. QED
    BY <1>1, <1>2, <1>3, <1>4, <1>5, <1>6 DEF IInv

(* A commit that was issued is lost.                                       *)
LEMMA CommitFailsStep ==
  ASSUME IInv, NEW c \in Container, CommitFails(c)
  PROVE  IInv'
  <1> USE NativeAssumption DEF CommitFails, Goto, Unlock, core, identity, local, stored, history,
        Time, Owner, Kinds, Phases, Running, Observed, Accepted, Decided, Installed
  <1>0. /\ TypeOK /\ PhaseOfKind /\ OwnersAreFresh
        /\ MarkerNamesWriter /\ CommitsAreDecidedOnce /\ PhasesAreBacked
    BY DEF IInv
  <1>1. TypeOK'
    BY <1>0 DEF TypeOK, MarkerNamesWriter, PhaseOfKind, OwnersAreFresh
  <1>2. PhaseOfKind'
    BY <1>0 DEF TypeOK, PhaseOfKind
  <1>3. OwnersAreFresh'
    BY <1>0 DEF TypeOK, OwnersAreFresh
  <1>4. MarkerNamesWriter'
    BY <1>0 DEF TypeOK, PhaseOfKind, MarkerNamesWriter
  <1>5. CommitsAreDecidedOnce'
    BY <1>0 DEF TypeOK, PhaseOfKind, OwnersAreFresh, MarkerNamesWriter,
       CommitsAreDecidedOnce, PhasesAreBacked, Committed, BindingMatches
  <1>6. PhasesAreBacked'
    BY <1>0 DEF TypeOK, PhaseOfKind, OwnersAreFresh, MarkerNamesWriter,
       CommitsAreDecidedOnce, PhasesAreBacked, Committed, BindingMatches
  <1>7. QED
    BY <1>1, <1>2, <1>3, <1>4, <1>5, <1>6 DEF IInv

(* The creator is observed after the commit.                               *)
LEMMA ConfirmStep ==
  ASSUME IInv, NEW c \in Container, Confirm(c)
  PROVE  IInv'
  <1> USE NativeAssumption DEF Confirm, Goto, Unlock, core, identity, local, stored, history,
        Time, Owner, Kinds, Phases, Running, Observed, Accepted, Decided, Installed
  <1>0. /\ TypeOK /\ PhaseOfKind /\ OwnersAreFresh
        /\ MarkerNamesWriter /\ CommitsAreDecidedOnce /\ PhasesAreBacked
    BY DEF IInv
  <1>a. PICK r : Observe(c, r)
    OBVIOUS
  <1>b. /\ owner[act[c]] \in 0 .. changes
        /\ seen[c] \in {None, owner[act[c]]}
        /\ end' = [end EXCEPT ![c] = Shortened(c)]
        /\ Shortened(c) \in Nat /\ Shortened(c) <= Lease
        /\ seen' = [seen EXCEPT ![c] = owner[act[c]]]
        /\ seen[c] # None => seen' = seen /\ seen[c] = owner[act[c]]
    BY <1>a, ObserveFacts
  <1>c. /\ seen' \in [Container -> Owner \cup {None}]
        /\ \A d \in Container : seen[d] # None => seen'[d] = seen[d]
    BY <1>0, <1>b DEF TypeOK, OwnersAreFresh
  <1>1. TypeOK'
    BY <1>0, <1>b DEF TypeOK, MarkerNamesWriter, PhaseOfKind, OwnersAreFresh
  <1>2. PhaseOfKind'
    BY <1>0, <1>b DEF TypeOK, PhaseOfKind
  <1>3. OwnersAreFresh'
    BY <1>0, <1>b DEF TypeOK, OwnersAreFresh
  <1>4. MarkerNamesWriter'
    <2>1. \A d \in writers :
            /\ kind'[d] = "allocate" /\ seen'[d] # None
            /\ pc'[d] \in {"marked", "issuing"} \cup Installed
      BY <1>0, <1>c DEF TypeOK, PhaseOfKind, MarkerNamesWriter
    <2>2. \A d \in writers : marker'[act'[d]] = [by |-> d, creator |-> seen'[d]]
      BY <1>0, <1>c DEF TypeOK, MarkerNamesWriter
    <2>3. /\ \A d \in Container :
               /\ pc'[d] \in {"marked", "issuing"} => d \in writers'
               /\ kind'[d] = "allocate" /\ pc'[d] \in Installed \ {"ended"} => d \in issued'
          /\ \A d \in issued' : pc'[d] \in Installed
          /\ issued' # {} => site'
          /\ \A d, e \in issued' : d = e
      BY <1>0 DEF TypeOK, PhaseOfKind, MarkerNamesWriter
    <2>4. QED
      BY <2>1, <2>2, <2>3 DEF MarkerNamesWriter
  <1>5. CommitsAreDecidedOnce'
    BY <1>0, <1>b DEF TypeOK, PhaseOfKind, OwnersAreFresh, MarkerNamesWriter,
       CommitsAreDecidedOnce, PhasesAreBacked, Committed, BindingMatches
  <1>6. PhasesAreBacked'
    BY <1>0, <1>b DEF TypeOK, PhaseOfKind, OwnersAreFresh, MarkerNamesWriter,
       CommitsAreDecidedOnce, PhasesAreBacked, Committed, BindingMatches
  <1>7. QED
    BY <1>1, <1>2, <1>3, <1>4, <1>5, <1>6 DEF IInv

(* The allocation is over and the lock is released.                        *)
LEMMA CloseStep ==
  ASSUME IInv, NEW c \in Container, Close(c)
  PROVE  IInv'
  <1> USE NativeAssumption DEF Close, Goto, Unlock, core, identity, local, stored, history,
        Time, Owner, Kinds, Phases, Running, Observed, Accepted, Decided, Installed
  <1>0. /\ TypeOK /\ PhaseOfKind /\ OwnersAreFresh
        /\ MarkerNamesWriter /\ CommitsAreDecidedOnce /\ PhasesAreBacked
    BY DEF IInv
  <1>a. PICK r : Observe(c, r)
    OBVIOUS
  <1>b. /\ owner[act[c]] \in 0 .. changes
        /\ seen[c] \in {None, owner[act[c]]}
        /\ end' = [end EXCEPT ![c] = Shortened(c)]
        /\ Shortened(c) \in Nat /\ Shortened(c) <= Lease
        /\ seen' = [seen EXCEPT ![c] = owner[act[c]]]
        /\ seen[c] # None => seen' = seen /\ seen[c] = owner[act[c]]
    BY <1>a, ObserveFacts
  <1>c. /\ seen' \in [Container -> Owner \cup {None}]
        /\ \A d \in Container : seen[d] # None => seen'[d] = seen[d]
    BY <1>0, <1>b DEF TypeOK, OwnersAreFresh
  <1>1. TypeOK'
    BY <1>0, <1>b DEF TypeOK, MarkerNamesWriter, PhaseOfKind, OwnersAreFresh
  <1>2. PhaseOfKind'
    BY <1>0, <1>b DEF TypeOK, PhaseOfKind
  <1>3. OwnersAreFresh'
    BY <1>0, <1>b DEF TypeOK, OwnersAreFresh
  <1>4. MarkerNamesWriter'
    <2>1. \A d \in writers :
            /\ kind'[d] = "allocate" /\ seen'[d] # None
            /\ pc'[d] \in {"marked", "issuing"} \cup Installed
      BY <1>0, <1>c DEF TypeOK, PhaseOfKind, MarkerNamesWriter
    <2>2. \A d \in writers : marker'[act'[d]] = [by |-> d, creator |-> seen'[d]]
      BY <1>0, <1>c DEF TypeOK, MarkerNamesWriter
    <2>3. /\ \A d \in Container :
               /\ pc'[d] \in {"marked", "issuing"} => d \in writers'
               /\ kind'[d] = "allocate" /\ pc'[d] \in Installed \ {"ended"} => d \in issued'
          /\ \A d \in issued' : pc'[d] \in Installed
          /\ issued' # {} => site'
          /\ \A d, e \in issued' : d = e
      BY <1>0 DEF TypeOK, PhaseOfKind, MarkerNamesWriter
    <2>4. QED
      BY <2>1, <2>2, <2>3 DEF MarkerNamesWriter
  <1>5. CommitsAreDecidedOnce'
    BY <1>0, <1>b DEF TypeOK, PhaseOfKind, OwnersAreFresh, MarkerNamesWriter,
       CommitsAreDecidedOnce, PhasesAreBacked, Committed, BindingMatches
  <1>6. PhasesAreBacked'
    BY <1>0, <1>b DEF TypeOK, PhaseOfKind, OwnersAreFresh, MarkerNamesWriter,
       CommitsAreDecidedOnce, PhasesAreBacked, Committed, BindingMatches
  <1>7. QED
    BY <1>1, <1>2, <1>3, <1>4, <1>5, <1>6 DEF IInv

(* A result reaches the parent.                                            *)
LEMMA ReportStep ==
  ASSUME IInv, NEW c \in Container, Report(c)
  PROVE  IInv'
  <1> USE NativeAssumption DEF Report, Goto, Unlock, core, identity, local, stored, history,
        Time, Owner, Kinds, Phases, Running, Observed, Accepted, Decided, Installed
  <1>0. /\ TypeOK /\ PhaseOfKind /\ OwnersAreFresh
        /\ MarkerNamesWriter /\ CommitsAreDecidedOnce /\ PhasesAreBacked
    BY DEF IInv
  <1>1. TypeOK'
    BY <1>0 DEF TypeOK, MarkerNamesWriter, PhaseOfKind, OwnersAreFresh
  <1>2. PhaseOfKind'
    BY <1>0 DEF TypeOK, PhaseOfKind
  <1>3. OwnersAreFresh'
    BY <1>0 DEF TypeOK, OwnersAreFresh
  <1>4. MarkerNamesWriter'
    BY <1>0 DEF TypeOK, PhaseOfKind, MarkerNamesWriter
  <1>5. CommitsAreDecidedOnce'
    BY <1>0 DEF TypeOK, PhaseOfKind, OwnersAreFresh, MarkerNamesWriter,
       CommitsAreDecidedOnce, PhasesAreBacked, Committed, BindingMatches
  <1>6. PhasesAreBacked'
    BY <1>0 DEF TypeOK, PhaseOfKind, OwnersAreFresh, MarkerNamesWriter,
       CommitsAreDecidedOnce, PhasesAreBacked, Committed, BindingMatches
  <1>7. QED
    BY <1>1, <1>2, <1>3, <1>4, <1>5, <1>6 DEF IInv

-----------------------------------------------------------------------------
(* Core, and time.                                                         *)
LEMMA MoveLeaseStep ==
  ASSUME IInv, NEW a \in Action, NEW e \in Time, MoveLease(a, e)
  PROVE  IInv'
  <1> USE NativeAssumption DEF MoveLease, Goto, Unlock, core, identity, local, stored, history,
        Time, Owner, Kinds, Phases, Running, Observed, Accepted, Decided, Installed
  <1>0. /\ TypeOK /\ PhaseOfKind /\ OwnersAreFresh
        /\ MarkerNamesWriter /\ CommitsAreDecidedOnce /\ PhasesAreBacked
    BY DEF IInv
  <1>1. TypeOK'
    BY <1>0 DEF TypeOK, MarkerNamesWriter, PhaseOfKind, OwnersAreFresh
  <1>2. PhaseOfKind'
    BY <1>0 DEF TypeOK, PhaseOfKind
  <1>3. OwnersAreFresh'
    BY <1>0 DEF TypeOK, OwnersAreFresh
  <1>4. MarkerNamesWriter'
    BY <1>0 DEF TypeOK, PhaseOfKind, MarkerNamesWriter
  <1>5. CommitsAreDecidedOnce'
    BY <1>0 DEF TypeOK, PhaseOfKind, OwnersAreFresh, MarkerNamesWriter,
       CommitsAreDecidedOnce, PhasesAreBacked, Committed, BindingMatches
  <1>6. PhasesAreBacked'
    BY <1>0 DEF TypeOK, PhaseOfKind, OwnersAreFresh, MarkerNamesWriter,
       CommitsAreDecidedOnce, PhasesAreBacked, Committed, BindingMatches
  <1>7. QED
    BY <1>1, <1>2, <1>3, <1>4, <1>5, <1>6 DEF IInv

(* Core names another owner, who never owned the action before.            *)
LEMMA ChangeOwnerStep ==
  ASSUME IInv, NEW a \in Action, NEW o \in Owner \cup {None}, ChangeOwner(a, o)
  PROVE  IInv'
  <1> USE NativeAssumption DEF ChangeOwner, Goto, Unlock, core, identity, local, stored, history,
        Time, Owner, Kinds, Phases, Running, Observed, Accepted, Decided, Installed
  <1>0. /\ TypeOK /\ PhaseOfKind /\ OwnersAreFresh
        /\ MarkerNamesWriter /\ CommitsAreDecidedOnce /\ PhasesAreBacked
    BY DEF IInv
  <1>1. TypeOK'
    BY <1>0 DEF TypeOK, MarkerNamesWriter, PhaseOfKind, OwnersAreFresh
  <1>2. PhaseOfKind'
    BY <1>0 DEF TypeOK, PhaseOfKind
  <1>3. OwnersAreFresh'
    BY <1>0 DEF TypeOK, OwnersAreFresh
  <1>4. MarkerNamesWriter'
    BY <1>0 DEF TypeOK, PhaseOfKind, MarkerNamesWriter
  <1>5. CommitsAreDecidedOnce'
    BY <1>0 DEF TypeOK, PhaseOfKind, OwnersAreFresh, MarkerNamesWriter,
       CommitsAreDecidedOnce, PhasesAreBacked, Committed, BindingMatches
  <1>6. PhasesAreBacked'
    BY <1>0 DEF TypeOK, PhaseOfKind, OwnersAreFresh, MarkerNamesWriter,
       CommitsAreDecidedOnce, PhasesAreBacked, Committed, BindingMatches
  <1>7. QED
    BY <1>1, <1>2, <1>3, <1>4, <1>5, <1>6 DEF IInv

(* Time passes.                                                            *)
LEMMA TickStep ==
  ASSUME IInv, Tick
  PROVE  IInv'
  <1> USE NativeAssumption DEF Tick, Goto, Unlock, core, identity, local, stored, history,
        Time, Owner, Kinds, Phases, Running, Observed, Accepted, Decided, Installed
  <1>0. /\ TypeOK /\ PhaseOfKind /\ OwnersAreFresh
        /\ MarkerNamesWriter /\ CommitsAreDecidedOnce /\ PhasesAreBacked
    BY DEF IInv
  <1>1. TypeOK'
    BY <1>0 DEF TypeOK, MarkerNamesWriter, PhaseOfKind, OwnersAreFresh
  <1>2. PhaseOfKind'
    BY <1>0 DEF TypeOK, PhaseOfKind
  <1>3. OwnersAreFresh'
    BY <1>0 DEF TypeOK, OwnersAreFresh
  <1>4. MarkerNamesWriter'
    BY <1>0 DEF TypeOK, PhaseOfKind, MarkerNamesWriter
  <1>5. CommitsAreDecidedOnce'
    BY <1>0 DEF TypeOK, PhaseOfKind, OwnersAreFresh, MarkerNamesWriter,
       CommitsAreDecidedOnce, PhasesAreBacked, Committed, BindingMatches
  <1>6. PhasesAreBacked'
    BY <1>0 DEF TypeOK, PhaseOfKind, OwnersAreFresh, MarkerNamesWriter,
       CommitsAreDecidedOnce, PhasesAreBacked, Committed, BindingMatches
  <1>7. QED
    BY <1>1, <1>2, <1>3, <1>4, <1>5, <1>6 DEF IInv

(* Every step preserves the invariant: one lemma per action above.         *)
LEMMA NextIInv ==
  ASSUME IInv, [Next]_vars
  PROVE  IInv'
  <1>1. ASSUME NEW c \in Container, NEW k \in Kinds, NEW a \in Action, Dispatch(c, k, a)
        PROVE  IInv'
    BY <1>1, DispatchStep
  <1>2. ASSUME NEW c \in Container, Admit(c) \/ Stop(c) \/ TimeOut(c)
        PROVE  IInv'
    BY <1>2, AdmitStep, StopStep DEF TimeOut
  <1>3. ASSUME NEW c \in Container, Allocate(c)
        PROVE  IInv'
    BY <1>3, ValidateSiteStep, AcquireLockStep, CheckOwnerStep, WriteMarkerStep, RecheckStep,
       BeginInstallStep, EndInstallStep, WriteBindingStep DEF Allocate
  <1>4. ASSUME NEW c \in Container, Phase(c)
        PROVE  IInv'
    BY <1>4, BeginPhaseStep, ReadForSetupStep, GrantStep, ReadAsObserverStep, ReconfirmStep
    DEF Phase
  <1>5. ASSUME NEW c \in Container, Finish(c)
        PROVE  IInv'
    BY <1>5, IssueCommitStep, CommitHappensStep, CommitFailsStep, ConfirmStep, CloseStep,
       ReportStep DEF Finish
  <1>6. ASSUME NEW a \in Action, CoreStep(a)
        PROVE  IInv'
    BY <1>6, MoveLeaseStep, ChangeOwnerStep DEF CoreStep
  <1>7. CASE UNCHANGED vars
    BY <1>7 DEF vars, core, identity, local, stored, history, IInv, TypeOK, PhaseOfKind,
       OwnersAreFresh, MarkerNamesWriter, CommitsAreDecidedOnce, PhasesAreBacked, Running,
       Committed, BindingMatches
  <1>8. QED
    BY <1>1, <1>2, <1>3, <1>4, <1>5, <1>6, <1>7, TickStep DEF Next

-----------------------------------------------------------------------------
(* The inductive invariant holds for any number of containers and actions, *)
(* any deadlines and any number of changes in Core.                        *)
THEOREM InvariantHolds == Spec => []IInv
  <1>1. Init => IInv
    BY InitIInv
  <1>2. IInv /\ [Next]_vars => IInv'
    BY NextIInv
  <1>3. QED
    BY <1>1, <1>2, PTL DEF Spec

(* Every variable keeps its type; the lock is only held by a container     *)
(* that runs.                                                              *)
THEOREM TypeCorrect == Spec => []TypeOK
  <1>1. IInv => TypeOK
    BY DEF IInv
  <1>2. QED
    BY <1>1, InvariantHolds, PTL

(* However often an action is dispatched and wherever containers stop, one *)
(* of them gets past the first-writer file of native_site.py, and the      *)
(* installer is started once for the site.                                 *)
THEOREM OneAllocation == Spec => []AllocatedOnce
  <1>1. IInv => AllocatedOnce
    <2> SUFFICES ASSUME IInv PROVE AllocatedOnce
      OBVIOUS
    <2>1. \A c \in writers : marker[act[c]] = [by |-> c, creator |-> seen[c]]
      BY DEF IInv, MarkerNamesWriter
    <2>2. \A c, d \in writers : act[c] = act[d] => c = d
      <3> SUFFICES ASSUME NEW c \in writers, NEW d \in writers, act[c] = act[d] PROVE c = d
        OBVIOUS
      <3>1. [by |-> c, creator |-> seen[c]].by = [by |-> d, creator |-> seen[d]].by
        BY <2>1
      <3>2. QED
        BY <3>1
    <2>3. \A c, d \in issued : c = d
      BY DEF IInv, MarkerNamesWriter
    <2>4. QED
      BY <2>2, <2>3 DEF AllocatedOnce
  <1>2. QED
    BY <1>1, InvariantHolds, PTL

(* commit_and_observe: what reached the parent was committed while Core    *)
(* still named the creator that was observed at the start.                 *)
THEOREM CommittedByOwner == Spec => []ReportedWasOwned
  <1>1. IInv => ReportedWasOwned
    BY DEF IInv, TypeOK, PhasesAreBacked, ReportedWasOwned
  <1>2. QED
    BY <1>1, InvariantHolds, PTL

(* Every result, in any phase, is backed by the one committed binding and  *)
(* the first-writer file, and stays so.                                    *)
THEOREM Backed == Spec => []ReportedIsBacked
  <1>1. IInv => ReportedIsBacked
    BY DEF IInv, TypeOK, PhasesAreBacked, ReportedIsBacked, BindingMatches
  <1>2. QED
    BY <1>1, InvariantHolds, PTL

(* No result is accepted after the original lease, whatever Core does to   *)
(* it (bounded_owner_read).                                                *)
THEOREM LeaseHolds == Spec => LeaseIsNeverExtended
  <1>1. ASSUME IInv, [Next]_vars
        PROVE  [reported' # reported => clock < Lease]_vars
    <2> SUFFICES ASSUME Next, reported' # reported PROVE clock < Lease
      BY <1>1 DEF vars
    <2>1. PICK c \in Container : Report(c)
      BY DEF Next, Dispatch, Admit, Stop, TimeOut, Allocate, ValidateSite, AcquireLock,
         CheckOwner, WriteMarker, Recheck, BeginInstall, EndInstall, WriteBinding, Phase,
         BeginPhase, ReadForSetup, Grant, ReadAsObserver, Reconfirm, Finish, IssueCommit,
         CommitHappens, CommitFails, Confirm, Close, CoreStep, MoveLease, ChangeOwner, Tick
    <2>2. end[c] <= Lease /\ end[c] \in Nat /\ clock \in Nat
      BY <1>1, <2>1, NativeAssumption DEF IInv, TypeOK, OwnersAreFresh, Observed, Report, Time
    <2>3. QED
      BY <2>1, <2>2, NativeAssumption DEF Report, Cleanup
  <1>2. QED
    BY <1>1, InvariantHolds, PTL DEF Spec, LeaseIsNeverExtended

=============================================================================
