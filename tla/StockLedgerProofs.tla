-------------------------- MODULE StockLedgerProofs --------------------------
(***************************************************************************)
(* The balances are exact and a stale value will be valued again, for any  *)
(* vouchers, quantities and posting times, any size of a chunk and any     *)
(* number of faults.                                                       *)
(***************************************************************************)
EXTENDS StockLedger, FiniteSetTheorems, WellFoundedInduction, TLAPS

(* creation tells the vouchers that were ever submitted apart, and only    *)
(* they have entries.                                                      *)
Posted == {u \in Voucher : doc[u] # 0}

OrderFits ==
  /\ \A u \in Posted : creation[u] >= 1 /\ creation[u] <= Cardinality(Posted)
  /\ \A u, v \in Posted : creation[u] = creation[v] => u = v
  /\ Active \subseteq Posted /\ queue \subseteq Posted

(* The job has entries in memory.                                          *)
Processing == {"snapshot", "locked", "rows", "filed", "between"}

(* What the records say, and what the job is doing.                        *)
RecordsFit ==
  /\ \A r \in 1 .. Len(riv) :
       /\ \A o \in riv[r].of : riv[r].time = Time[o]
       /\ riv[r].file # 0 => riv[r].file >= riv[r].time
  /\ cur # 0 => riv[cur].status = "In Progress"
  /\ pc = "gl" => riv[cur].posted
  /\ pc \in Processing \cup {"posted"} => ~riv[cur].posted
  /\ queue # {} => pc \in Processing
  /\ \A w \in queue : Time[w] >= riv[cur].time
  /\ touched # {} => Bin \in touched
  /\ pc = "filed" => ~Conflict

(* What the job has in memory agrees with the rows nobody has changed.     *)
MemoryFits ==
  "overlap" \notin causes =>
    /\ \A w \in queue \ touched : active[w] /\ bal[w] = mem.bal + SumQty(UpTo(queue, w))
    /\ pc \in Processing /\ Bin \notin touched /\ HasBin => bin = mem.bal + SumQty(queue)

(* Whatever becomes of the job's record, the entries at t are covered.     *)
CoveredByOther(t) == \E q \in 1 .. Len(riv) : q # cur /\ Covers(q, t) /\ ~Newer(cur, q)

(* The job has still to come to u, or will fail: others have changed the   *)
(* Bin, and what it has still to write is not after u.                     *)
Lags(u) ==
  \/ u \in queue
  \/ touched # {} /\ HasBin /\ \A w \in queue \ touched : Time[w] <= Time[u]

JobCovers ==
  causes = {} =>
    /\ \A w \in queue \ touched :
         mem.basis \cup UpTo(queue, w) = UpTo(Active, w) \/ CoveredByOther(Time[w])
    /\ pc \in Processing =>
         \A u \in Active : Exact(u) \/ CoveredByOther(Time[u]) \/ Lags(u)
    /\ pc = "posted" => \A u \in Active : Exact(u) \/ CoveredByOther(Time[u])
    /\ pc = "filed" /\ riv[cur].file = 0 =>
         \A u \in Active : Exact(u) \/ Covered(Time[u])

IInv ==
  /\ TypeOK /\ OrderFits /\ RecordsFit
  /\ LedgerIsExact /\ MemoryFits
  /\ StaleIsCovered /\ JobCovers

(* A set of sets of vouchers has a minimal element: the sums and the order *)
(* are reasoned about by a least counterexample.                           *)
LEMMA MinimalSet ==
  ASSUME NEW B \in SUBSET (SUBSET Voucher), B # {}
  PROVE  \E S \in B : \A T \in SUBSET S : T \in B => T = S
<1>1. B \subseteq FiniteSubsetsOf(Voucher)
  BY StockAssumption, FS_Subset DEF FiniteSubsetsOf
<1>2. IsWellFoundedOn(StrictSubsetOrdering(Voucher), FiniteSubsetsOf(Voucher))
  BY FS_StrictSubsetOrderingWellFounded
<1>3. PICK S \in B : \A T \in B : ~(<<T, S>> \in StrictSubsetOrdering(Voucher))
  BY <1>1, <1>2, WFMin, Zenon
<1>4. ASSUME NEW T \in SUBSET S, T \in B, T # S  PROVE FALSE
  BY <1>3, <1>4 DEF StrictSubsetOrdering
<1>. QED BY <1>3, <1>4

(* What MapThenSumSet chooses: a function that sums the subsets of T one   *)
(* element at a time.                                                      *)
IsFold(T, f) ==
  f = [s \in SUBSET T |-> IF s = {} THEN 0
                          ELSE LET x == CHOOSE x \in s : TRUE IN Qty[x] + f[s \ {x}]]

(* A sum is the value of the chosen function.                              *)
LEMMA SumIsFold ==
  ASSUME NEW S
  PROVE  SumQty(S) = (CHOOSE f : IsFold(S, f))[S]
BY DEF SumQty, MapThenSumSet, MapThenFoldSet, IsFold

(* Two such functions agree where both are defined ...                     *)
LEMMA FoldsUnique ==
  ASSUME NEW T \in SUBSET Voucher, NEW U \in SUBSET T, NEW f, NEW g,
         IsFold(T, f), IsFold(U, g), NEW s \in SUBSET U
  PROVE  f[s] = g[s]
<1>. DEFINE B == {r \in SUBSET U : f[r] # g[r]}
<1>1. SUFFICES ASSUME B # {} PROVE FALSE
  OBVIOUS
<1>2. PICK r \in B : \A t \in SUBSET r : t \in B => t = r
  BY <1>1, MinimalSet
<1>3. r # {}
  BY <1>2 DEF IsFold
<1>. DEFINE x == CHOOSE x \in r : TRUE
<1>4. x \in r
  BY <1>3
<1>5. f[r \ {x}] = g[r \ {x}]
  BY <1>2, <1>4
<1>6. f[r] = Qty[x] + f[r \ {x}] /\ g[r] = Qty[x] + g[r \ {x}]
  BY <1>2, <1>3 DEF IsFold
<1>. QED BY <1>2, <1>5, <1>6

(* ... and there is one for every set: the sums of the proper subsets, and *)
(* one step more.                                                          *)
LEMMA FoldsExists ==
  ASSUME NEW T \in SUBSET Voucher
  PROVE  \E f : IsFold(T, f)
<1>. DEFINE B == {r \in SUBSET Voucher : \A f : ~IsFold(r, f)}
<1>1. SUFFICES ASSUME B # {} PROVE FALSE
  OBVIOUS
<1>2. PICK r \in B : \A t \in SUBSET r : t \in B => t = r
  BY <1>1, MinimalSet
<1>. DEFINE c(s) == CHOOSE x \in s : TRUE
            val(s) == IF s = {} THEN 0 ELSE Qty[c(s)] + SumQty(s \ {c(s)})
            h == [s \in SUBSET r |-> IF s = r THEN val(s) ELSE SumQty(s)]
<1>3. ASSUME NEW s \in SUBSET r, s # r  PROVE IsFold(s, CHOOSE f : IsFold(s, f))
  <2>1. \E f : IsFold(s, f)
    BY <1>2, <1>3
  <2>. QED BY <2>1
<1>4. ASSUME NEW s \in SUBSET r, s # r  PROVE SumQty(s) = val(s)
  <2>. DEFINE g == CHOOSE f : IsFold(s, f)
  <2>1. IsFold(s, g) /\ SumQty(s) = g[s]
    BY <1>3, <1>4, SumIsFold
  <2>2. CASE s = {}
    BY <2>1, <2>2 DEF IsFold
  <2>3. CASE s # {}
    <3>. DEFINE d == CHOOSE f : IsFold(s \ {c(s)}, f)
    <3>1. c(s) \in s
      BY <2>3
    <3>2. g[s] = Qty[c(s)] + g[s \ {c(s)}]
      BY <2>1, <2>3 DEF IsFold
    <3>3. s \ {c(s)} # r /\ s \ {c(s)} \in SUBSET r
      BY <1>4, <3>1
    <3>4. IsFold(s \ {c(s)}, d) /\ SumQty(s \ {c(s)}) = d[s \ {c(s)}]
      BY <1>3, <3>3, SumIsFold
    <3>5. g[s \ {c(s)}] = d[s \ {c(s)}]
      <4>1. s \in SUBSET Voucher /\ s \ {c(s)} \in SUBSET s
        BY <1>2
      <4>. HIDE DEF d, g, c
      <4>. QED BY <2>1, <3>4, <4>1, FoldsUnique
    <3>. QED BY <2>1, <2>3, <3>2, <3>4, <3>5
  <2>. QED BY <2>2, <2>3
<1>5. ASSUME NEW s \in SUBSET r  PROVE h[s] = IF s = {} THEN 0 ELSE Qty[c(s)] + h[s \ {c(s)}]
  <2>1. h[s] = val(s)
    BY <1>4
  <2>2. ASSUME s # {}  PROVE h[s \ {c(s)}] = SumQty(s \ {c(s)})
    <3>1. c(s) \in s
      BY <2>2
    <3>. QED BY <3>1
  <2>. QED BY <2>1, <2>2
<1>6. IsFold(r, h)
  BY <1>5 DEF IsFold
<1>. QED BY <1>2, <1>6

(* So a sum is what its recursion says.                                    *)
LEMMA SumStep ==
  ASSUME NEW S \in SUBSET Voucher
  PROVE  SumQty(S) = IF S = {} THEN 0
                     ELSE LET x == CHOOSE x \in S : TRUE IN Qty[x] + SumQty(S \ {x})
<1>. DEFINE c == CHOOSE x \in S : TRUE
            g == CHOOSE f : IsFold(S, f)
            d == CHOOSE f : IsFold(S \ {c}, f)
<1>1. IsFold(S, g) /\ SumQty(S) = g[S]
  <2>1. \E f : IsFold(S, f)
    BY FoldsExists
  <2>. QED BY <2>1, SumIsFold
<1>2. IsFold(S \ {c}, d) /\ SumQty(S \ {c}) = d[S \ {c}]
  <2>1. \E f : IsFold(S \ {c}, f)
    BY FoldsExists
  <2>. QED BY <2>1, SumIsFold
<1>3. g[S \ {c}] = d[S \ {c}]
  <2>. HIDE DEF c, d, g
  <2>. QED BY <1>1, <1>2, FoldsUnique
<1>4. g[S] = IF S = {} THEN 0 ELSE Qty[c] + g[S \ {c}]
  BY <1>1 DEF IsFold
<1>. QED BY <1>1, <1>2, <1>3, <1>4

(* Some element can be taken out of a sum.                                 *)
LEMMA SumChoose ==
  ASSUME NEW S \in SUBSET Voucher, S # {}
  PROVE  \E x \in S : SumQty(S) = Qty[x] + SumQty(S \ {x})
<1>. DEFINE c == CHOOSE x \in S : TRUE
<1>1. c \in S
  OBVIOUS
<1>2. SumQty(S) = Qty[c] + SumQty(S \ {c})
  BY SumStep, Zenon
<1>. HIDE DEF c
<1>. QED BY <1>1, <1>2

(* A sum of nothing is 0.                                                  *)
LEMMA SumEmpty == SumQty({}) = 0
BY SumStep

(* Every sum is an integer.                                                *)
LEMMA SumInt ==
  ASSUME NEW S \in SUBSET Voucher
  PROVE  SumQty(S) \in Int
<1>. DEFINE B == {r \in SUBSET Voucher : SumQty(r) \notin Int}
<1>1. SUFFICES ASSUME B # {} PROVE FALSE
  OBVIOUS
<1>2. PICK r \in B : \A t \in SUBSET r : t \in B => t = r
  BY <1>1, MinimalSet
<1>3. r # {}
  BY <1>2, SumEmpty
<1>4. PICK x \in r : SumQty(r) = Qty[x] + SumQty(r \ {x})
  BY <1>2, <1>3, SumChoose
<1>5. SumQty(r \ {x}) \in Int
  BY <1>2, <1>4
<1>6. Qty[x] \in Int
  BY <1>2, <1>4, StockAssumption
<1>7. SumQty(r) \in Int
  BY <1>4, <1>5, <1>6
<1>. QED BY <1>2, <1>7

(* Any element can be put into a sum, in whatever order the others were    *)
(* ...                                                                     *)
LEMMA SumAdd ==
  ASSUME NEW S \in SUBSET Voucher, NEW v \in Voucher, v \notin S
  PROVE  SumQty(S \cup {v}) = SumQty(S) + Qty[v]
<1>. DEFINE P(r) == \A u \in Voucher : u \notin r => SumQty(r \cup {u}) = SumQty(r) + Qty[u]
            B == {r \in SUBSET Voucher : ~P(r)}
<1>1. SUFFICES ASSUME B # {} PROVE FALSE
  OBVIOUS
<1>2. PICK r \in B : \A t \in SUBSET r : t \in B => t = r
  BY <1>1, MinimalSet
<1>3. ASSUME NEW u \in Voucher, u \notin r  PROVE SumQty(r \cup {u}) = SumQty(r) + Qty[u]
  <2>. DEFINE R == r \cup {u}
  <2>1. R \in SUBSET Voucher /\ R # {}
    BY <1>2
  <2>2. PICK x \in R : SumQty(R) = Qty[x] + SumQty(R \ {x})
    BY <2>1, SumChoose
  <2>3. Qty[x] \in Int /\ Qty[u] \in Int /\ SumQty(r) \in Int
    BY <1>2, <2>2, StockAssumption, SumInt
  <2>4. CASE x = u
    <3>1. R \ {x} = r
      BY <1>3, <2>4
    <3>2. SumQty(R) = Qty[u] + SumQty(r)
      BY <2>2, <2>4, <3>1
    <3>. QED BY <2>3, <3>2
  <2>5. CASE x # u
    <3>. DEFINE q == r \ {x}
    <3>1. x \in r /\ x \in Voucher
      BY <1>2, <2>2, <2>5
    <3>2. P(q)
      <4>1. q \in SUBSET r /\ q # r /\ q \in SUBSET Voucher
        BY <1>2, <3>1
      <4>2. q \notin B
        BY <1>2, <4>1
      <4>. HIDE DEF q, P
      <4>. QED BY <4>1, <4>2
    <3>3. R \ {x} = q \cup {u} /\ r = q \cup {x} /\ x \notin q /\ u \notin q
      BY <1>3, <2>5, <3>1
    <3>4. SumQty(R \ {x}) = SumQty(q) + Qty[u] /\ SumQty(r) = SumQty(q) + Qty[x]
      BY <3>1, <3>2, <3>3
    <3>5. SumQty(q) \in Int
      BY <1>2, SumInt
    <3>. QED BY <2>2, <2>3, <3>4, <3>5
  <2>. QED BY <2>4, <2>5
<1>. QED BY <1>2, <1>3

(* ... and two disjoint sums added.                                        *)
LEMMA SumUnion ==
  ASSUME NEW S \in SUBSET Voucher, NEW T \in SUBSET Voucher, S \cap T = {}
  PROVE  SumQty(S \cup T) = SumQty(S) + SumQty(T)
<1>. DEFINE B == {r \in SUBSET T : SumQty(S \cup r) # SumQty(S) + SumQty(r)}
<1>1. SUFFICES ASSUME B # {} PROVE FALSE
  OBVIOUS
<1>2. PICK r \in B : \A t \in SUBSET r : t \in B => t = r
  BY <1>1, MinimalSet
<1>3. r # {}
  <2>1. S \cup {} = S /\ SumQty(S) + 0 = SumQty(S)
    BY SumInt
  <2>. QED BY <1>2, <2>1, SumEmpty
<1>4. PICK x \in r : TRUE
  BY <1>3
<1>. DEFINE q == r \ {x}
<1>5. SumQty(S \cup q) = SumQty(S) + SumQty(q)
  BY <1>2, <1>4
<1>6. r = q \cup {x} /\ x \notin q /\ x \notin S \cup q /\ S \cup r = (S \cup q) \cup {x}
  BY <1>2, <1>4
<1>7. SumQty(r) = SumQty(q) + Qty[x] /\ SumQty(S \cup r) = SumQty(S \cup q) + Qty[x]
  <2>1. q \in SUBSET Voucher /\ S \cup q \in SUBSET Voucher /\ x \in Voucher
    BY <1>2, <1>4
  <2>2. SumQty(q \cup {x}) = SumQty(q) + Qty[x]
    BY <1>6, <2>1, SumAdd
  <2>3. SumQty((S \cup q) \cup {x}) = SumQty(S \cup q) + Qty[x]
    BY <1>6, <2>1, SumAdd
  <2>. QED BY <1>6, <2>2, <2>3
<1>8. SumQty(S) \in Int /\ SumQty(q) \in Int /\ Qty[x] \in Int
  BY <1>2, <1>4, SumInt, StockAssumption
<1>. QED BY <1>2, <1>5, <1>7, <1>8

(* Entries are totally ordered, by time first.                             *)
LEMMA Order ==
  ASSUME TypeOK, OrderFits
  PROVE  /\ \A u, v \in Posted : u = v \/ Precedes(u, v) \/ Precedes(v, u)
         /\ \A u, v, w \in Voucher : Precedes(u, v) /\ Precedes(v, w) => Precedes(u, w)
         /\ \A u, v \in Voucher : Precedes(u, v) => Time[u] <= Time[v] /\ ~Precedes(v, u)
<1>1. \A u \in Voucher : Time[u] \in Nat /\ creation[u] \in Nat
  BY StockAssumption DEF TypeOK
<1>2. \A u, v \in Posted : creation[u] = creation[v] => u = v
  BY DEF OrderFits
<1>. QED BY <1>1, <1>2 DEF Precedes, Posted

(* Entries have a last one ...                                             *)
LEMMA LastExists ==
  ASSUME TypeOK, OrderFits, NEW S \in SUBSET Posted, S # {}
  PROVE  /\ LastOf(S) \in S
         /\ \A u \in S : u = LastOf(S) \/ Precedes(u, LastOf(S))
         /\ UpTo(S, LastOf(S)) = S
<1>. DEFINE Good(r) == \E v \in r : \A u \in r : u = v \/ Precedes(u, v)
            B == {r \in SUBSET S : r # {} /\ ~Good(r)}
<1>0. S \subseteq Voucher
  BY DEF Posted
<1>1. ASSUME B # {}  PROVE FALSE
  <2>1. PICK r \in B : \A t \in SUBSET r : t \in B => t = r
    <3>1. B \in SUBSET (SUBSET Voucher)
      BY <1>0
    <3>. HIDE DEF B
    <3>. QED BY <1>1, <3>1, MinimalSet
  <2>2. PICK x \in r : TRUE
    BY <2>1
  <2>. DEFINE q == r \ {x}
  <2>3. CASE q = {}
    BY <2>1, <2>2, <2>3
  <2>4. CASE q # {}
    <3>1. q \in SUBSET r /\ q # r
      BY <2>2
    <3>2. PICK y \in q : \A u \in q : u = y \/ Precedes(u, y)
      <4>1. q \notin B /\ q \in SUBSET S
        BY <2>1, <3>1
      <4>. HIDE DEF q
      <4>. QED BY <2>4, <4>1
    <3>3. x \in Posted /\ y \in Posted /\ x # y /\ q \subseteq Voucher /\ x \in Voucher
      BY <2>1, <2>2, <1>0
    <3>4. CASE Precedes(x, y)
      <4>1. \A u \in r : u = y \/ Precedes(u, y)
        BY <3>2, <3>4
      <4>. QED BY <2>1, <3>2, <4>1
    <3>5. CASE Precedes(y, x)
      <4>1. \A u \in r : u = x \/ Precedes(u, x)
        BY <3>2, <3>3, <3>5, Order
      <4>. QED BY <2>1, <2>2, <4>1
    <3>. QED BY <3>3, <3>4, <3>5, Order
  <2>. QED BY <2>3, <2>4
<1>2. \E v \in S : \A u \in S : u = v \/ Precedes(u, v)
  BY <1>1
<1>3. LastOf(S) \in S /\ \A u \in S : u = LastOf(S) \/ Precedes(u, LastOf(S))
  BY <1>2 DEF LastOf
<1>. QED BY <1>3 DEF UpTo

(* ... and a first one ...                                                 *)
LEMMA FirstExists ==
  ASSUME TypeOK, OrderFits, NEW S \in SUBSET Posted, S # {}
  PROVE  \E v \in S : \A u \in S : u = v \/ Precedes(v, u)
<1>. DEFINE Good(r) == \E v \in r : \A u \in r : u = v \/ Precedes(v, u)
            B == {r \in SUBSET S : r # {} /\ ~Good(r)}
<1>0. S \subseteq Voucher
  BY DEF Posted
<1>1. ASSUME B # {}  PROVE FALSE
  <2>1. PICK r \in B : \A t \in SUBSET r : t \in B => t = r
    <3>1. B \in SUBSET (SUBSET Voucher)
      BY <1>0
    <3>. HIDE DEF B
    <3>. QED BY <1>1, <3>1, MinimalSet
  <2>2. PICK x \in r : TRUE
    BY <2>1
  <2>. DEFINE q == r \ {x}
  <2>3. CASE q = {}
    BY <2>1, <2>2, <2>3
  <2>4. CASE q # {}
    <3>1. q \in SUBSET r /\ q # r
      BY <2>2
    <3>2. PICK y \in q : \A u \in q : u = y \/ Precedes(y, u)
      <4>1. q \notin B /\ q \in SUBSET S
        BY <2>1, <3>1
      <4>. HIDE DEF q
      <4>. QED BY <2>4, <4>1
    <3>3. x \in Posted /\ y \in Posted /\ x # y /\ q \subseteq Voucher /\ x \in Voucher
      BY <2>1, <2>2, <1>0
    <3>4. CASE Precedes(y, x)
      <4>1. \A u \in r : u = y \/ Precedes(y, u)
        BY <3>2, <3>4
      <4>. QED BY <2>1, <3>2, <4>1
    <3>5. CASE Precedes(x, y)
      <4>1. \A u \in r : u = x \/ Precedes(x, u)
        BY <3>2, <3>3, <3>5, Order
      <4>. QED BY <2>1, <2>2, <4>1
    <3>. QED BY <3>3, <3>4, <3>5, Order
  <2>. QED BY <2>3, <2>4
<1>. QED BY <1>1

(* ... and there is a latest posting time ...                              *)
LEMMA MaxTime ==
  ASSUME TypeOK, OrderFits, NEW S \in SUBSET Posted, S # {}
  PROVE  LET m == Max({Time[v] : v \in S})
         IN  (\E v \in S : m = Time[v]) /\ \A v \in S : Time[v] <= m
<1>. DEFINE T == {Time[v] : v \in S}
<1>1. S \subseteq Voucher /\ T \subseteq Nat
  BY StockAssumption DEF Posted
<1>2. \A v \in S : Time[v] <= Time[LastOf(S)]
  BY <1>1, LastExists, Order, StockAssumption
<1>3. \E x \in T : \A y \in T : x >= y
  BY <1>1, <1>2, LastExists
<1>4. Max(T) \in T /\ \A y \in T : Max(T) >= y
  BY <1>3 DEF Max
<1>. QED BY <1>1, <1>4

(* ... and an earliest.                                                    *)
LEMMA MinTime ==
  ASSUME TypeOK, OrderFits, NEW S \in SUBSET Posted, S # {}
  PROVE  LET m == Min({Time[v] : v \in S})
         IN  (\E v \in S : m = Time[v]) /\ \A v \in S : m <= Time[v]
<1>. DEFINE T == {Time[v] : v \in S}
<1>1. S \subseteq Voucher /\ T \subseteq Nat
  BY StockAssumption DEF Posted
<1>2. PICK f \in S : \A v \in S : Time[f] <= Time[v]
  BY <1>1, FirstExists, Order, StockAssumption
<1>3. \E x \in T : \A y \in T : x =< y
  BY <1>1, <1>2
<1>4. Min(T) \in T /\ \A y \in T : Min(T) =< y
  BY <1>3 DEF Min
<1>. QED BY <1>1, <1>4

(* What is up to an entry, if P comes before the rest of A.                *)
LEMMA UpToSplit ==
  ASSUME TypeOK, OrderFits, NEW A \in SUBSET Voucher, NEW P \in SUBSET A,
         \A p \in P, w \in A \ P : Precedes(p, w)
  PROVE  /\ \A w \in A \ P : UpTo(A, w) = P \cup UpTo(A \ P, w)
         /\ \A p \in P : UpTo(A, p) = UpTo(P, p)
<1>1. ASSUME NEW w \in A \ P  PROVE UpTo(A, w) = P \cup UpTo(A \ P, w)
  BY DEF UpTo
<1>2. ASSUME NEW p \in P  PROVE UpTo(A, p) = UpTo(P, p)
  BY Order DEF UpTo
<1>. QED BY <1>1, <1>2

(* A chunk is not empty, and the first in the queue.                       *)
LEMMA ChunkFits ==
  ASSUME TypeOK, OrderFits, ~IsLast
  PROVE  /\ NextChunk # {} /\ NextChunk \subseteq queue
         /\ \A u \in NextChunk, w \in queue \ NextChunk : Precedes(u, w)
<1>. DEFINE Before(v) == {u \in queue : Precedes(u, v)}
<1>1. queue \subseteq Posted /\ queue \subseteq Voucher /\ IsFiniteSet(queue)
  BY StockAssumption, FS_Subset DEF TypeOK, OrderFits
<1>2. queue # {}
  BY StockAssumption, FS_EmptySet DEF IsLast
<1>3. NextChunk # {}
  <2>1. PICK v \in queue : \A u \in queue : u = v \/ Precedes(v, u)
    BY <1>1, <1>2, FirstExists
  <2>2. Before(v) = {}
    BY <1>1, <2>1, Order
  <2>3. Cardinality(Before(v)) < Chunk
    BY <2>2, StockAssumption, FS_EmptySet
  <2>. QED BY <2>1, <2>3 DEF NextChunk
<1>4. ASSUME NEW u \in NextChunk, NEW w \in queue \ NextChunk, ~Precedes(u, w)  PROVE FALSE
  <2>1. u \in queue /\ u # w /\ Cardinality(Before(u)) < Chunk /\ ~(Cardinality(Before(w)) < Chunk)
    BY <1>4 DEF NextChunk
  <2>2. Precedes(w, u)
    BY <1>1, <1>4, <2>1, Order
  <2>3. Before(w) \subseteq Before(u) /\ Before(u) \subseteq queue
    BY <1>1, <2>1, <2>2, Order
  <2>4. IsFiniteSet(Before(u))
    BY <1>1, <2>3, FS_Subset
  <2>. HIDE DEF Before
  <2>5. Cardinality(Before(w)) <= Cardinality(Before(u)) /\ IsFiniteSet(Before(w))
    BY <2>3, <2>4, FS_Subset
  <2>6. Cardinality(Before(w)) \in Nat /\ Cardinality(Before(u)) \in Nat
    BY <2>4, <2>5, FS_CardinalityType
  <2>. QED BY <2>1, <2>5, <2>6, StockAssumption
<1>. QED BY <1>3, <1>4 DEF NextChunk

(* The file goes on from the end of the chunk, which is not before the     *)
(* record.                                                                 *)
LEMMA ChunkEndFits ==
  ASSUME TypeOK, OrderFits, ~IsLast
  PROVE  /\ ChunkEnd \in Nat
         /\ \A w \in queue \ NextChunk : ChunkEnd <= Time[w]
         /\ ChunkEnd # 0 => \E u \in NextChunk : ChunkEnd = Time[u]
         /\ \A t \in Nat : (\A u \in NextChunk : Time[u] <= t) => ChunkEnd <= t
<1>1. NextChunk # {} /\ NextChunk \in SUBSET Posted /\ NextChunk \subseteq queue /\ queue \subseteq Voucher
  BY ChunkFits DEF OrderFits, TypeOK
<1>. DEFINE m == Max({Time[v] : v \in NextChunk})
<1>2. PICK u \in NextChunk : m = Time[u]
  BY <1>1, MaxTime
<1>3. \A w \in queue \ NextChunk : Precedes(u, w)
  BY ChunkFits
<1>4. \A w \in queue \ NextChunk : Time[u] <= Time[w]
  BY <1>1, <1>3, Order
<1>5. Time \in [Voucher -> Nat]
  BY StockAssumption
<1>6. ChunkEnd = 0 \/ ChunkEnd = Time[u]
  BY <1>2 DEF ChunkEnd
<1>. HIDE DEF m
<1>. QED BY <1>1, <1>2, <1>4, <1>5, <1>6

(* The last entries are fewer than a chunk.                                *)
LEMMA LastChunk ==
  ASSUME TypeOK, OrderFits, IsLast
  PROVE  NextChunk = queue /\ ChunkEnd = 0
<1>1. IsFiniteSet(queue)
  BY StockAssumption, FS_Subset DEF TypeOK
<1>2. ASSUME NEW v \in queue  PROVE Cardinality({u \in queue : Precedes(u, v)}) < Chunk
  <2>. DEFINE Before == {u \in queue : Precedes(u, v)}
  <2>1. Before \subseteq queue
    OBVIOUS
  <2>. HIDE DEF Before
  <2>2. Cardinality(Before) <= Cardinality(queue) /\ IsFiniteSet(Before)
    BY <1>1, <2>1, FS_Subset
  <2>3. Cardinality(Before) \in Nat /\ Cardinality(queue) \in Nat
    BY <1>1, <2>2, FS_CardinalityType
  <2>4. Cardinality(Before) < Chunk
    BY <2>2, <2>3, StockAssumption DEF IsLast
  <2>. QED BY <2>4 DEF Before
<1>3. NextChunk = queue
  BY <1>2 DEF NextChunk
<1>. QED BY <1>3 DEF ChunkEnd

(* Whatever the chunk, where the file goes on from is not before the       *)
(* record.                                                                 *)
LEMMA ChunkEndType ==
  ASSUME TypeOK, OrderFits, RecordsFit
  PROVE  /\ ChunkEnd \in Nat /\ (ChunkEnd # 0 => ChunkEnd >= riv[cur].time)
         /\ NextChunk \subseteq queue
<1>1. CASE IsLast
  BY <1>1, LastChunk
<1>2. CASE ~IsLast
  BY <1>2, ChunkEndFits, ChunkFits DEF RecordsFit
<1>. QED BY <1>1, <1>2

(* The types, the order and the records.                                   *)
Shape == TypeOK /\ OrderFits /\ RecordsFit

Row == [any : BOOLEAN, bal : Int, basis : SUBSET Voucher]

(* The record that a transaction appends.                                  *)
VoucherRepost(v) == NewRepost(Time[v], {v})

(* ... and what its fields say.                                            *)
LEMMA VoucherRecord ==
  ASSUME NEW v \in Voucher
  PROVE  /\ VoucherRepost(v) \in Record /\ VoucherRepost(v).status = "Queued"
         /\ VoucherRepost(v).time = Time[v] /\ VoucherRepost(v).of = {v}
         /\ VoucherRepost(v).file = 0 /\ ~VoucherRepost(v).posted
BY StockAssumption DEF VoucherRepost, NewRepost, Record, Status

(* A record with the file or the status changed is a record.               *)
LEMMA RecordSet ==
  ASSUME NEW q \in Seq(Record), NEW r \in 1 .. Len(q), NEW x \in Record
  PROVE  LET n == [q EXCEPT ![r] = x]
         IN  /\ n \in Seq(Record) /\ Len(n) = Len(q)
             /\ n[r] = x /\ \A s \in 1 .. Len(q) : s # r => n[s] = q[s]
OBVIOUS

(* There are finitely many entries.                                        *)
LEMMA PostedFits ==
  ASSUME TypeOK
  PROVE  /\ Posted \in SUBSET Voucher /\ IsFiniteSet(Posted) /\ Cardinality(Posted) \in Nat
         /\ Active \in SUBSET Voucher
BY StockAssumption, FS_Subset, FS_CardinalityType DEF Posted, Active

(* The previous entry, if there is one, is read as it is.                  *)
LEMMA PreviousFits ==
  ASSUME TypeOK, OrderFits, NEW S \in SUBSET Posted
  PROVE  /\ Previous(S) \in Row
         /\ S = {} => Previous(S) = Nothing
         /\ S # {} => /\ LastOf(S) \in S
                      /\ Previous(S).bal = bal[LastOf(S)] /\ Previous(S).basis = basis[LastOf(S)]
<1>1. CASE S = {}
  BY <1>1 DEF Previous, Nothing, Row
<1>2. CASE S # {}
  <2>1. LastOf(S) \in S /\ LastOf(S) \in Voucher
    BY <1>2, LastExists DEF Posted
  <2>. QED BY <1>2, <2>1 DEF Previous, Row, TypeOK
<1>. QED BY <1>1, <1>2

(* What submitting and cancelling do to the rows.                          *)
LEMMA SubmitRows ==
  ASSUME TypeOK, OrderFits, NEW v \in Voucher, Submit(v)
  PROVE  LET prev == Previous({u \in Active : Time[u] <= Time[v]})
         IN  /\ prev \in Row
             /\ bal' \in [Voucher -> Int] /\ bal'[v] = prev.bal + Qty[v]
             /\ \A u \in Voucher \ {v} :
                  bal'[u] = IF u \in Active /\ Time[u] > Time[v] THEN bal[u] + Qty[v] ELSE bal[u]
             /\ basis' \in [Voucher -> SUBSET Voucher]
             /\ basis' = [basis EXCEPT ![v] = prev.basis \cup {v}]
             /\ bin' \in Int
<1>. DEFINE before == {u \in Active : Time[u] <= Time[v]}
            prev   == Previous(before)
            later  == Shifted(Active, Time[v], Qty[v])
            newBal == [Override(bal, later) EXCEPT ![v] = prev.bal + Qty[v]]
<1>1. prev \in Row
  BY PreviousFits DEF OrderFits
<1>2. Qty[v] \in Int /\ bal \in [Voucher -> Int] /\ prev.bal \in Int /\ prev.basis \in SUBSET Voucher
  BY <1>1, StockAssumption DEF TypeOK, Row
<1>3. bal' = newBal /\ basis' = [basis EXCEPT ![v] = prev.basis \cup {v}]
  BY DEF Submit
<1>. HIDE DEF prev
<1>4. newBal \in [Voucher -> Int] /\ newBal[v] = prev.bal + Qty[v]
  BY <1>2 DEF Override, Shifted
<1>5. \A u \in Voucher \ {v} :
        newBal[u] = IF u \in Active /\ Time[u] > Time[v] THEN bal[u] + Qty[v] ELSE bal[u]
  BY DEF Override, Shifted, Active
<1>6. bin' \in Int
  <2>1. bin' = IF \E u \in Active : Time[u] > Time[v] THEN ActualQty(Active, newBal) ELSE newBal[v]
    BY DEF Submit, prev
  <2>2. Active # {} => LastOf(Active) \in Voucher
    BY LastExists, PostedFits DEF OrderFits
  <2>. HIDE DEF newBal
  <2>. QED BY <1>4, <2>1, <2>2 DEF ActualQty
<1>7. basis' \in [Voucher -> SUBSET Voucher]
  BY <1>2, <1>3 DEF TypeOK
<1>. HIDE DEF newBal
<1>. QED BY <1>1, <1>3, <1>4, <1>5, <1>6, <1>7 DEF prev

(* What cancelling does to the rows: those of the same time are valued     *)
(* again, the later ones shifted.                                          *)
LEMMA CancelRows ==
  ASSUME TypeOK, OrderFits, NEW v \in Voucher, Cancel(v)
  PROVE  LET rest == Active \ {v}
             same == {u \in rest : Time[u] = Time[v]}
             prev == Previous({u \in rest : Time[u] < Time[v]})
         IN  /\ prev \in Row
             /\ bal' \in [Voucher -> Int] /\ basis' \in [Voucher -> SUBSET Voucher]
             /\ \A u \in same : /\ bal'[u] = prev.bal + SumQty(UpTo(same, u))
                                /\ basis'[u] = prev.basis \cup UpTo(same, u)
             /\ \A u \in rest : Time[u] > Time[v] => bal'[u] = bal[u] - Qty[v]
             /\ \A u \in Voucher : ~(u \in rest /\ Time[u] >= Time[v]) => bal'[u] = bal[u]
             /\ \A u \in Voucher \ same : basis'[u] = basis[u]
             /\ bin' = ActualQty(rest, bal') /\ bin' \in Int
<1>. DEFINE rest == Active \ {v}
            same == {u \in rest : Time[u] = Time[v]}
            prev == Previous({u \in rest : Time[u] < Time[v]})
            later == Shifted(rest, Time[v], -Qty[v])
            newBal == Override(Override(bal, Balances(same, prev)), later)
<1>0. rest \subseteq Posted /\ same \subseteq Voucher /\ \A u \in Voucher : Time[u] \in Nat
  BY PostedFits, StockAssumption DEF OrderFits
<1>1. prev \in Row
  BY <1>0, PreviousFits
<1>2. Qty[v] \in Int /\ bal \in [Voucher -> Int] /\ prev.bal \in Int /\ prev.basis \in SUBSET Voucher
  BY <1>1, StockAssumption DEF TypeOK, Row
<1>3. bal' = newBal /\ basis' = Override(basis, Bases(same, prev)) /\ bin' = ActualQty(rest, newBal)
  BY DEF Cancel
<1>. HIDE DEF prev
<1>4. \A u \in Voucher : UpTo(same, u) \in SUBSET Voucher /\ SumQty(UpTo(same, u)) \in Int
  BY <1>0, SumInt DEF UpTo
<1>5. \A u \in Voucher :
        newBal[u] = IF u \in rest /\ Time[u] > Time[v] THEN bal[u] - Qty[v]
                    ELSE IF u \in same THEN prev.bal + SumQty(UpTo(same, u)) ELSE bal[u]
  BY <1>0, <1>2 DEF Override, Shifted, Balances
<1>6. newBal \in [Voucher -> Int]
  <2>1. \A u \in Voucher : newBal[u] \in Int
    BY <1>2, <1>4, <1>5
  <2>. QED BY <2>1 DEF Override
<1>7. \A u \in Voucher : basis'[u] = IF u \in same THEN prev.basis \cup UpTo(same, u) ELSE basis[u]
  BY <1>3 DEF Override, Bases
<1>8. basis' \in [Voucher -> SUBSET Voucher]
  <2>1. \A u \in Voucher : basis'[u] \in SUBSET Voucher
    BY <1>2, <1>4, <1>7 DEF TypeOK
  <2>. QED BY <1>3, <2>1 DEF Override
<1>9. bin' \in Int
  <2>1. rest # {} => LastOf(rest) \in Voucher
    BY <1>0, LastExists DEF Posted
  <2>. HIDE DEF newBal
  <2>. QED BY <1>3, <1>6, <2>1 DEF ActualQty
<1>10. \A u \in rest : u \in Voucher
  BY <1>0 DEF Posted
<1>11. \A u \in same : u \in rest /\ u \in Voucher /\ Time[u] >= Time[v] /\ ~(Time[u] > Time[v])
  BY <1>0
<1>. HIDE DEF newBal, rest, same
<1>12. \A u \in same : bal'[u] = prev.bal + SumQty(UpTo(same, u)) /\ basis'[u] = prev.basis \cup UpTo(same, u)
  BY <1>3, <1>5, <1>7, <1>11
<1>13. \A u \in rest : Time[u] > Time[v] => bal'[u] = bal[u] - Qty[v]
  BY <1>3, <1>5, <1>10
<1>14. \A u \in Voucher : ~(u \in rest /\ Time[u] >= Time[v]) => bal'[u] = bal[u]
  <2>1. ASSUME NEW u \in Voucher, ~(u \in rest /\ Time[u] >= Time[v])  PROVE newBal[u] = bal[u]
    <3>1. u \notin same
      BY <1>11, <2>1
    <3>2. ~(u \in rest /\ Time[u] > Time[v])
      BY <1>0, <2>1
    <3>. QED BY <1>5, <3>1, <3>2
  <2>. QED BY <1>3, <2>1
<1>15. \A u \in Voucher \ same : basis'[u] = basis[u]
  BY <1>7
<1>. QED BY <1>1, <1>3, <1>6, <1>8, <1>9, <1>12, <1>13, <1>14, <1>15 DEF prev, same, rest

(* What a repost writes.                                                   *)
LEMMA WrittenRows ==
  ASSUME TypeOK, NEW S \in SUBSET queue, WriteRows(S)
  PROVE  /\ bal' \in [Voucher -> Int] /\ basis' \in [Voucher -> SUBSET Voucher]
         /\ active' \in [Voucher -> BOOLEAN]
         /\ \A u \in S : /\ bal'[u] = mem.bal + SumQty(UpTo(S, u))
                         /\ basis'[u] = mem.basis \cup UpTo(S, u)
         /\ \A u \in Voucher \ S : bal'[u] = bal[u] /\ basis'[u] = basis[u]
         /\ \A u \in Voucher : active'[u] <=> u \in S \/ active[u]
<1>1. S \subseteq Voucher /\ mem.bal \in Int /\ mem.basis \in SUBSET Voucher
  BY DEF TypeOK
<1>2. \A u \in Voucher : UpTo(S, u) \in SUBSET Voucher /\ SumQty(UpTo(S, u)) \in Int
  BY <1>1, SumInt DEF UpTo
<1>3. \A u \in Voucher :
        /\ bal'[u] = IF u \in S THEN mem.bal + SumQty(UpTo(S, u)) ELSE bal[u]
        /\ basis'[u] = IF u \in S THEN mem.basis \cup UpTo(S, u) ELSE basis[u]
        /\ active'[u] = (u \in S \/ active[u])
  BY DEF WriteRows, Override, Balances, Bases
<1>4. \A u \in Voucher : bal'[u] \in Int /\ basis'[u] \in SUBSET Voucher
  <2>1. \A u \in Voucher : bal[u] \in Int /\ basis[u] \in SUBSET Voucher
    BY DEF TypeOK
  <2>2. \A u \in Voucher : mem.bal + SumQty(UpTo(S, u)) \in Int
    BY <1>1, <1>2
  <2>. QED BY <1>1, <1>2, <1>3, <2>1, <2>2
<1>5. bal' \in [Voucher -> Int] /\ basis' \in [Voucher -> SUBSET Voucher] /\ active' \in [Voucher -> BOOLEAN]
  BY <1>4 DEF WriteRows, Override
<1>. QED BY <1>1, <1>3, <1>5

(* What the job remembers after a chunk.                                   *)
LEMMA MemAfterFits ==
  ASSUME TypeOK, OrderFits, NEW S \in SUBSET queue
  PROVE  /\ MemAfter(S) \in Row
         /\ S = {} => MemAfter(S) = mem
         /\ S # {} => MemAfter(S) = [any |-> TRUE, bal |-> mem.bal + SumQty(S),
                                     basis |-> mem.basis \cup S]
<1>1. S \in SUBSET Posted /\ S \in SUBSET Voucher
  BY DEF OrderFits, TypeOK
<1>2. CASE S = {}
  BY <1>2 DEF MemAfter, TypeOK, Row
<1>3. CASE S # {}
  <2>1. LastOf(S) \in S /\ UpTo(S, LastOf(S)) = S
    BY <1>1, <1>3, LastExists
  <2>2. Balances(S, mem)[LastOf(S)] = mem.bal + SumQty(S) /\ Bases(S, mem)[LastOf(S)] = mem.basis \cup S
    BY <2>1 DEF Balances, Bases
  <2>3. MemAfter(S) = [any |-> TRUE, bal |-> mem.bal + SumQty(S), basis |-> mem.basis \cup S]
    BY <1>3, <2>2 DEF MemAfter, LastOf
  <2>4. mem.bal \in Int /\ mem.basis \in SUBSET Voucher /\ SumQty(S) \in Int
    BY <1>1, SumInt DEF TypeOK
  <2>5. mem.bal + SumQty(S) \in Int
    BY <2>4
  <2>6. mem.basis \cup S \in SUBSET Voucher
    BY <1>1, <2>4
  <2>7. MemAfter(S) \in Row
    <3>. DEFINE b == mem.bal + SumQty(S)
                s == mem.basis \cup S
    <3>1. b \in Int /\ s \in SUBSET Voucher /\ MemAfter(S) = [any |-> TRUE, bal |-> b, basis |-> s]
      BY <2>3, <2>5, <2>6
    <3>. HIDE DEF b, s
    <3>. QED BY <3>1 DEF Row
  <2>. QED BY <1>3, <2>3, <2>7
<1>. QED BY <1>2, <1>3

(* A chunk and a conflict depend on the queue, the memory and the          *)
(* snapshot.                                                               *)
LEMMA SameJob ==
  ASSUME UNCHANGED <<creation, queue, mem, touched>>
  PROVE  /\ IsLast' <=> IsLast
         /\ Conflict' <=> Conflict
         /\ HasBin' <=> HasBin
         /\ NextChunk' = NextChunk
<1>1. NextChunk' = NextChunk /\ (IsLast' <=> IsLast) /\ (HasBin' <=> HasBin)
  BY DEF NextChunk, Precedes, IsLast, HasBin
<1>. QED BY <1>1 DEF Conflict, Written

(* Submitting keeps the types, the order and the records.                  *)
LEMMA SubmitShape ==
  ASSUME Shape, NEW v \in Voucher, Submit(v)
  PROVE  Shape'
<1>. USE DEF Shape
<1>1. TypeOK'
  <2>1. 1 + Cardinality({u \in Voucher : doc[u] # 0}) \in Nat
    BY PostedFits DEF Posted
  <2>2. /\ doc' \in [Voucher -> 0 .. 2] /\ creation' \in [Voucher -> Nat]
        /\ active' \in [Voucher -> BOOLEAN]
    BY <2>1 DEF Submit, TypeOK
  <2>3. riv' \in Seq(Record) /\ Len(riv') >= Len(riv)
    <3>1. VoucherRepost(v) \in Record
      BY VoucherRecord
    <3>. QED BY <3>1 DEF Submit, TypeOK, VoucherRepost
  <2>4. touched' \subseteq Voucher \cup {Bin}
    BY DEF Submit, TypeOK, Shifted, Active
  <2>5. bal' \in [Voucher -> Int] /\ basis' \in [Voucher -> SUBSET Voucher] /\ bin' \in Int
    BY SubmitRows
  <2>6. cur' \in 0 .. Len(riv') /\ todo' \subseteq 1 .. Len(riv')
    BY <2>3 DEF Submit, TypeOK
  <2>. QED BY <2>2, <2>3, <2>4, <2>5, <2>6 DEF Submit, TypeOK
<1>2. OrderFits'
  <2>1. Posted' = Posted \cup {v} /\ v \notin Posted
    BY DEF Submit, Posted, TypeOK
  <2>2. Cardinality(Posted') = Cardinality(Posted) + 1
    BY <2>1, PostedFits, FS_AddElement
  <2>3. creation'[v] = 1 + Cardinality(Posted) /\ \A u \in Posted : creation'[u] = creation[u]
    BY <2>1 DEF Submit, Posted, TypeOK
  <2>4. \A u \in Posted : creation[u] \in Nat /\ creation[u] >= 1 /\ creation[u] <= Cardinality(Posted)
    BY PostedFits DEF OrderFits, TypeOK
  <2>5. \A u \in Posted' : creation'[u] >= 1 /\ creation'[u] <= Cardinality(Posted')
    BY <2>1, <2>2, <2>3, <2>4, PostedFits
  <2>6. \A u, w \in Posted' : creation'[u] = creation'[w] => u = w
    <3>. SUFFICES ASSUME NEW u \in Posted \cup {v}, NEW w \in Posted \cup {v}, creation'[u] = creation'[w]
                  PROVE  u = w
      BY <2>1
    <3>1. u \in Posted /\ w \in Posted => u = w
      BY <2>3 DEF OrderFits
    <3>2. ~(u \in Posted /\ w = v) /\ ~(w \in Posted /\ u = v)
      BY <2>1, <2>3, <2>4, PostedFits
    <3>. QED BY <3>1, <3>2
  <2>7. Active' \subseteq Posted'
    BY <2>1 DEF Submit, Active, OrderFits, TypeOK
  <2>8. queue' \subseteq Posted'
    BY <2>1 DEF Submit, OrderFits
  <2>. QED BY <2>5, <2>6, <2>7, <2>8 DEF OrderFits
<1>3. RecordsFit'
  <2>1. /\ Len(riv') >= Len(riv)
        /\ \A r \in 1 .. Len(riv) : riv'[r] = riv[r]
        /\ \A r \in 1 .. Len(riv') : r > Len(riv) => riv'[r] = VoucherRepost(v)
    BY DEF Submit, TypeOK, VoucherRepost
  <2>2. \A r \in 1 .. Len(riv') : r \in 1 .. Len(riv) \/ riv'[r] = VoucherRepost(v)
    <3>1. Len(riv) \in Nat /\ Len(riv') \in Nat
      BY <1>1 DEF TypeOK
    <3>. QED BY <2>1, <3>1
  <2>3. \A r \in 1 .. Len(riv') :
          /\ \A o \in riv'[r].of : riv'[r].time = Time[o]
          /\ riv'[r].file # 0 => riv'[r].file >= riv'[r].time
    <3>1. \A r \in 1 .. Len(riv) : /\ \A o \in riv[r].of : riv[r].time = Time[o]
                                   /\ riv[r].file # 0 => riv[r].file >= riv[r].time
      BY DEF RecordsFit
    <3>2. (\A o \in VoucherRepost(v).of : VoucherRepost(v).time = Time[o])
           /\ VoucherRepost(v).file = 0
      BY VoucherRecord
    <3>. QED BY <2>1, <2>2, <3>1, <3>2
  <2>4. cur # 0 => riv'[cur] = riv[cur]
    BY <2>1 DEF TypeOK
  <2>5. pc' # "filed" /\ pc' = pc /\ cur' = cur /\ queue' = queue
    BY DEF Submit, RowsAreFree
  <2>6. Bin \in touched'
    BY DEF Submit
  <2>7. pc = "idle" <=> cur = 0
    BY DEF TypeOK
  <2>. QED BY <2>3, <2>4, <2>5, <2>6, <2>7 DEF RecordsFit, Processing
<1>. QED BY <1>1, <1>2, <1>3

(* The records after a cancellation.                                       *)
LEMMA CancelRecords ==
  ASSUME Shape, NEW v \in Voucher, Cancel(v)
  PROVE  /\ riv' \in Seq(Record) /\ Len(riv') = Len(riv) + 1
         /\ riv'[Len(riv) + 1] = VoucherRepost(v)
         /\ \A r \in 1 .. Len(riv) :
              \/ riv'[r] = riv[r]
              \/ /\ riv'[r] = [riv[r] EXCEPT !.status = "Skipped"]
                 /\ riv[r].status = "Queued" /\ v \in riv[r].of /\ r # cur
<1>. DEFINE R == OwnRepost(v, "Queued")
            s == Skip(R)
<1>1. VoucherRepost(v) \in Record
  BY VoucherRecord
<1>2. riv \in Seq(Record) /\ Len(riv) \in Nat
  BY DEF Shape, TypeOK
<1>3. \A r \in 1 .. Len(riv) : riv[r] \in Record /\ [riv[r] EXCEPT !.status = "Skipped"] \in Record
  <2>1. \A r \in 1 .. Len(riv) : riv[r] \in Record
    BY <1>2
  <2>2. \A x \in Record : [x EXCEPT !.status = "Skipped"] \in Record
    BY DEF Record, Status
  <2>. QED BY <2>1, <2>2
<1>4. /\ s \in Seq(Record) /\ Len(s) = Len(riv)
      /\ \A r \in 1 .. Len(riv) : s[r] = IF r \in R THEN [riv[r] EXCEPT !.status = "Skipped"] ELSE riv[r]
  <2>. DEFINE f == [r \in 1 .. Len(riv) |-> IF r \in R THEN [riv[r] EXCEPT !.status = "Skipped"] ELSE riv[r]]
  <2>1. f \in [1 .. Len(riv) -> Record]
    BY <1>3
  <2>2. s = f
    BY DEF Skip
  <2>. HIDE DEF s, R
  <2>3. f \in Seq(Record) /\ Len(f) = Len(riv)
    BY <1>2, <2>1
  <2>. QED BY <2>2, <2>3
<1>5. \A r \in R : riv[r].status = "Queued" /\ v \in riv[r].of /\ r # cur
  <2>1. \A r \in R : riv[r].status = "Queued" /\ v \in riv[r].of /\ r \in 1 .. Len(riv)
    BY DEF OwnRepost
  <2>2. cur # 0 => riv[cur].status = "In Progress"
    BY DEF Shape, RecordsFit
  <2>3. ASSUME NEW r \in R, r = cur  PROVE FALSE
    <3>1. cur # 0 /\ riv[cur].status = "Queued"
      BY <1>2, <2>1, <2>3
    <3>. QED BY <2>2, <3>1
  <2>. QED BY <2>1, <2>3
<1>6. riv' = Append(s, VoucherRepost(v))
  BY DEF Cancel, VoucherRepost
<1>. HIDE DEF s, R
<1>7. riv' \in Seq(Record) /\ Len(riv') = Len(riv) + 1 /\ riv'[Len(riv) + 1] = VoucherRepost(v)
  BY <1>1, <1>2, <1>4, <1>6
<1>8. \A r \in 1 .. Len(riv) : riv'[r] = s[r]
  BY <1>1, <1>2, <1>4, <1>6
<1>. QED BY <1>4, <1>5, <1>7, <1>8

(* Cancelling keeps the types, the order and the records.                  *)
LEMMA CancelShape ==
  ASSUME Shape, NEW v \in Voucher, Cancel(v)
  PROVE  Shape'
<1>0. TypeOK /\ OrderFits /\ RecordsFit /\ Len(riv) \in Nat
  BY DEF Shape, TypeOK
<1>c. /\ doc' = [doc EXCEPT ![v] = 2] /\ active' = [active EXCEPT ![v] = FALSE] /\ doc[v] = 1
      /\ UNCHANGED <<creation, pc, cur, todo, queue, mem, faults, causes>>
  BY DEF Cancel
<1>1. TypeOK'
  <2>1. /\ doc' \in [Voucher -> 0 .. 2] /\ active' \in [Voucher -> BOOLEAN]
    BY <1>0, <1>c DEF TypeOK
  <2>2. touched' \subseteq Voucher \cup {Bin}
    BY <1>0 DEF Cancel, TypeOK, Shifted, Active
  <2>3. bal' \in [Voucher -> Int] /\ basis' \in [Voucher -> SUBSET Voucher] /\ bin' \in Int
    BY <1>0, CancelRows
  <2>4. riv' \in Seq(Record) /\ Len(riv') = Len(riv) + 1
    BY CancelRecords
  <2>5. cur' \in 0 .. Len(riv') /\ todo' \subseteq 1 .. Len(riv')
    BY <1>0, <1>c, <2>4 DEF TypeOK
  <2>. QED BY <1>0, <1>c, <2>1, <2>2, <2>3, <2>4, <2>5 DEF TypeOK
<1>2. OrderFits'
  <2>1. Posted' = Posted /\ Active' \subseteq Active /\ creation' = creation /\ queue' = queue
    BY <1>0, <1>c DEF Posted, Active, TypeOK
  <2>. QED BY <1>0, <2>1 DEF OrderFits
<1>3. RecordsFit'
  <2>1. \A r \in 1 .. Len(riv') : r \in 1 .. Len(riv) \/ riv'[r] = VoucherRepost(v)
    BY <1>0, CancelRecords
  <2>2. \A r \in 1 .. Len(riv) : /\ riv'[r].time = riv[r].time /\ riv'[r].file = riv[r].file
                                 /\ riv'[r].of = riv[r].of
    <3>1. \A r \in 1 .. Len(riv) : riv[r] \in Record
      BY <1>0 DEF TypeOK
    <3>2. \A x \in Record : LET y == [x EXCEPT !.status = "Skipped"]
                           IN  y.time = x.time /\ y.file = x.file /\ y.of = x.of
      BY DEF Record
    <3>. QED BY <3>1, <3>2, CancelRecords
  <2>3. \A r \in 1 .. Len(riv') :
          /\ \A o \in riv'[r].of : riv'[r].time = Time[o]
          /\ riv'[r].file # 0 => riv'[r].file >= riv'[r].time
    <3>1. \A r \in 1 .. Len(riv) : /\ \A o \in riv[r].of : riv[r].time = Time[o]
                                   /\ riv[r].file # 0 => riv[r].file >= riv[r].time
      BY <1>0 DEF RecordsFit
    <3>2. (\A o \in VoucherRepost(v).of : VoucherRepost(v).time = Time[o])
           /\ VoucherRepost(v).file = 0
      BY VoucherRecord
    <3>. QED BY <2>1, <2>2, <3>1, <3>2
  <2>4. cur # 0 => riv'[cur] = riv[cur]
    BY <1>0, CancelRecords DEF TypeOK
  <2>5. pc' # "filed" /\ pc' = pc /\ cur' = cur /\ queue' = queue
    BY DEF Cancel, RowsAreFree
  <2>6. Bin \in touched'
    BY DEF Cancel
  <2>7. pc = "idle" <=> cur = 0
    BY <1>0 DEF TypeOK
  <2>. QED BY <1>0, <2>3, <2>4, <2>5, <2>6, <2>7 DEF RecordsFit, Processing
<1>. QED BY <1>1, <1>2, <1>3 DEF Shape

(* The job's steps change one record at a time.                            *)
LEMMA OneRecord ==
  ASSUME Shape, NEW r \in 1 .. Len(riv), NEW x \in Record, riv' = [riv EXCEPT ![r] = x],
         x.time = riv[r].time, x.of = riv[r].of, x.file # 0 => x.file >= x.time
  PROVE  /\ riv' \in Seq(Record) /\ Len(riv') = Len(riv)
         /\ riv'[r] = x /\ \A s \in 1 .. Len(riv) : s # r => riv'[s] = riv[s]
         /\ \A s \in 1 .. Len(riv') :
              /\ \A o \in riv'[s].of : riv'[s].time = Time[o]
              /\ riv'[s].file # 0 => riv'[s].file >= riv'[s].time
<1>1. /\ riv' \in Seq(Record) /\ Len(riv') = Len(riv)
      /\ riv'[r] = x /\ \A s \in 1 .. Len(riv) : s # r => riv'[s] = riv[s]
  BY RecordSet DEF Shape, TypeOK
<1>2. \A s \in 1 .. Len(riv) : /\ \A o \in riv[s].of : riv[s].time = Time[o]
                               /\ riv[s].file # 0 => riv[s].file >= riv[s].time
  BY DEF Shape, RecordsFit
<1>. QED BY <1>1, <1>2

(* Where the steps that leave the records' files alone get the shape from. *)
LEMMA StatusShape ==
  ASSUME Shape, NEW r \in 1 .. Len(riv), NEW s \in Status, SetStatus(r, s)
  PROVE  /\ riv' \in Seq(Record) /\ Len(riv') = Len(riv)
         /\ riv'[r] = [riv[r] EXCEPT !.status = s]
         /\ riv'[r].status = s /\ riv'[r].posted = riv[r].posted /\ riv'[r].file = riv[r].file
         /\ riv'[r].time = riv[r].time /\ riv'[r].of = riv[r].of
         /\ \A q \in 1 .. Len(riv) : q # r => riv'[q] = riv[q]
         /\ \A q \in 1 .. Len(riv') :
              /\ \A o \in riv'[q].of : riv'[q].time = Time[o]
              /\ riv'[q].file # 0 => riv'[q].file >= riv'[q].time
<1>. DEFINE x == [riv[r] EXCEPT !.status = s]
<1>1. riv[r] \in Record
  BY DEF Shape, TypeOK
<1>2. /\ x \in Record /\ x.time = riv[r].time /\ x.of = riv[r].of /\ x.file = riv[r].file
      /\ x.posted = riv[r].posted /\ x.status = s
  BY <1>1 DEF Record
<1>3. riv' = [riv EXCEPT ![r] = x]
  BY DEF SetStatus
<1>4. x.file # 0 => x.file >= x.time
  BY <1>2 DEF Shape, RecordsFit
<1>. HIDE DEF x
<1>. QED BY <1>2, <1>3, <1>4, OneRecord DEF x

(* Where the steps that write the file get it from.                        *)
LEMMA FileShape ==
  ASSUME Shape, cur # 0, NEW f \in Nat, NEW b \in BOOLEAN, f # 0 => f >= riv[cur].time,
         riv' = [riv EXCEPT ![cur].filed = b, ![cur].file = f]
  PROVE  /\ riv' \in Seq(Record) /\ Len(riv') = Len(riv)
         /\ riv'[cur].status = riv[cur].status /\ riv'[cur].posted = riv[cur].posted
         /\ riv'[cur].file = f /\ riv'[cur].time = riv[cur].time /\ riv'[cur].of = riv[cur].of
         /\ \A q \in 1 .. Len(riv) : q # cur => riv'[q] = riv[q]
         /\ \A q \in 1 .. Len(riv') :
              /\ \A o \in riv'[q].of : riv'[q].time = Time[o]
              /\ riv'[q].file # 0 => riv'[q].file >= riv'[q].time
<1>. DEFINE x == [riv[cur] EXCEPT !.filed = b, !.file = f]
<1>0. cur \in 1 .. Len(riv) /\ riv[cur] \in Record
  BY DEF Shape, TypeOK
<1>2. /\ x \in Record /\ x.time = riv[cur].time /\ x.of = riv[cur].of /\ x.file = f
      /\ x.posted = riv[cur].posted /\ x.status = riv[cur].status
  BY <1>0 DEF Record
<1>3. riv' = [riv EXCEPT ![cur] = x]
  BY <1>0 DEF Shape, TypeOK
<1>. HIDE DEF x
<1>. QED BY <1>0, <1>2, <1>3, OneRecord

(* Each step of the job keeps the types, the order and the records.        *)
LEMMA ListShape ==
  ASSUME Shape, ListReposts
  PROVE  Shape'
<1>. USE DEF Shape
<1>1. TypeOK'
  BY DEF ListReposts, TypeOK, ledger
<1>2. OrderFits'
  BY DEF ListReposts, OrderFits, Posted, Active, ledger
<1>3. RecordsFit'
  BY SameJob DEF ListReposts, RecordsFit, ledger
<1>. QED BY <1>1, <1>2, <1>3

(* A picked record is In Progress.                                         *)
LEMMA PickShape ==
  ASSUME Shape, NEW r \in todo, PickRepost(r)
  PROVE  Shape'
<1>. USE DEF Shape
<1>0. UNCHANGED <<doc, creation, active, bal, basis, bin, queue, mem, touched, faults, causes>>
  BY DEF PickRepost, ledger
<1>1. r \in 1 .. Len(riv) /\ pc = "idle" /\ cur = 0 /\ queue = {}
  BY DEF TypeOK, RecordsFit, PickRepost, Processing
<1>2. OrderFits'
  BY <1>0 DEF OrderFits, Posted, Active
<1>3. CASE /\ Pending(r) /\ SetStatus(r, "In Progress")
           /\ pc' = "begin" /\ cur' = r /\ UNCHANGED todo
  <2>1. "In Progress" \in Status
    BY DEF Status
  <2>2. TypeOK'
    <3>1. riv' \in Seq(Record) /\ Len(riv') = Len(riv)
      BY <1>1, <1>3, <2>1, StatusShape
    <3>2. cur' \in 0 .. Len(riv') /\ todo' \subseteq 1 .. Len(riv') /\ cur' # 0 /\ cur' \in todo'
      <4>1. todo' = todo /\ cur' = r /\ todo \subseteq 1 .. Len(riv) /\ r \in todo
        BY <1>3 DEF TypeOK
      <4>2. r \in 0 .. Len(riv) /\ r # 0
        BY <1>1
      <4>. QED BY <3>1, <4>1, <4>2
    <3>. QED BY <1>0, <1>3, <3>1, <3>2 DEF TypeOK, Phases
  <2>3. RecordsFit'
    BY <1>0, <1>1, <1>3, <2>1, StatusShape DEF RecordsFit, Processing
  <2>. QED BY <1>2, <2>2, <2>3
<1>4. CASE todo' = todo \ {r} /\ UNCHANGED <<riv, pc, cur>>
  <2>1. TypeOK'
    BY <1>0, <1>1, <1>4 DEF TypeOK
  <2>2. RecordsFit'
    BY <1>0, <1>1, <1>4 DEF RecordsFit, Processing
  <2>. QED BY <1>2, <2>1, <2>2
<1>. QED BY <1>3, <1>4 DEF PickRepost

(* The rows of the snapshot are not before the record.                     *)
LEMMA SnapshotShape ==
  ASSUME Shape, TakeSnapshot
  PROVE  Shape'
<1>. USE DEF Shape
<1>. DEFINE rows == {v \in Active : Time[v] >= From(cur)}
            earlier == {v \in Active : Time[v] < Min({Time[w] : w \in rows})}
<1>0. /\ UNCHANGED <<doc, creation, active, bal, basis, bin, riv, cur, todo, faults, causes>>
      /\ pc = "begin" /\ touched' = {}
  BY DEF TakeSnapshot, ledger
<1>1. cur # 0 /\ cur \in 1 .. Len(riv) /\ queue = {}
  BY <1>0 DEF TypeOK, RecordsFit, Processing
<1>2. \A v \in rows : v \in Voucher /\ v \in Posted /\ Time[v] >= riv[cur].time
  <2>1. riv[cur] \in Record /\ (riv[cur].file # 0 => riv[cur].file >= riv[cur].time)
    <3>1. riv[cur] \in Record
      BY <1>1 DEF TypeOK
    <3>. QED BY <1>1, <3>1 DEF RecordsFit
  <2>2. From(cur) >= riv[cur].time /\ From(cur) \in Nat /\ riv[cur].time \in Nat
    BY <2>1 DEF From, Record
  <2>. QED BY <2>2, StockAssumption DEF Active, OrderFits
<1>3. earlier \in SUBSET Posted
  BY DEF OrderFits
<1>4. \/ pc' = "gl" /\ riv[cur].posted /\ queue' = {} /\ mem' = mem
      \/ /\ pc' = "snapshot" /\ ~riv[cur].posted
         /\ queue' = rows /\ mem' = (IF rows = {} THEN Nothing ELSE Previous(earlier))
  BY <1>1 DEF TakeSnapshot
<1>. HIDE DEF earlier, rows
<1>5. mem' \in Row
  BY <1>3, <1>4, PreviousFits DEF TypeOK, Row, Nothing
<1>6. TypeOK'
  BY <1>0, <1>1, <1>2, <1>4, <1>5 DEF TypeOK, Phases, Row
<1>7. OrderFits'
  BY <1>0, <1>2, <1>4 DEF OrderFits, Posted, Active
<1>8. RecordsFit'
  BY <1>0, <1>2, <1>4 DEF RecordsFit, Processing
<1>. QED BY <1>6, <1>7, <1>8

(* Locking them changes nothing.                                           *)
LEMMA LockShape ==
  ASSUME Shape, LockRows
  PROVE  Shape'
<1>. USE DEF Shape
<1>1. TypeOK'
  BY DEF LockRows, TypeOK, ledger, Phases
<1>2. OrderFits'
  BY DEF LockRows, OrderFits, Posted, Active, ledger
<1>3. RecordsFit'
  BY DEF LockRows, RecordsFit, ledger, Processing
<1>. QED BY <1>1, <1>2, <1>3

(* A user's repost is about no voucher.                                    *)
LEMMA RepostItemShape ==
  ASSUME Shape, NEW t \in Nat, RepostItem(t)
  PROVE  /\ Shape'
         /\ Len(riv') = Len(riv) + 1 /\ \A q \in 1 .. Len(riv) : riv'[q] = riv[q]
         /\ riv'[Len(riv) + 1] = NewRepost(t, {})
<1>. USE DEF Shape
<1>0. /\ UNCHANGED <<doc, creation, active, bal, basis, bin, pc, cur, todo, queue, mem,
                    touched, faults, causes>>
      /\ riv' = Append(riv, NewRepost(t, {})) /\ riv \in Seq(Record) /\ Len(riv) \in Nat
  BY DEF RepostItem, ledger, job, TypeOK
<1>1. NewRepost(t, {}) \in Record
  BY DEF NewRepost, Record, Status
<1>2. /\ riv' \in Seq(Record) /\ Len(riv') = Len(riv) + 1
      /\ \A q \in 1 .. Len(riv) : riv'[q] = riv[q]
      /\ riv'[Len(riv) + 1] = NewRepost(t, {})
  BY <1>0, <1>1
<1>3. TypeOK'
  <2>1. cur' \in 0 .. Len(riv') /\ todo' \subseteq 1 .. Len(riv')
    BY <1>0, <1>2 DEF TypeOK
  <2>. QED BY <1>0, <1>2, <2>1 DEF TypeOK
<1>4. OrderFits'
  BY <1>0 DEF OrderFits, Posted, Active
<1>5. RecordsFit'
  <2>1. cur # 0 => riv'[cur] = riv[cur]
    BY <1>2 DEF TypeOK
  <2>2. \A q \in 1 .. Len(riv') : q \in 1 .. Len(riv) \/ riv'[q] = NewRepost(t, {})
    BY <1>0, <1>2
  <2>3. \A q \in 1 .. Len(riv') : /\ \A o \in riv'[q].of : riv'[q].time = Time[o]
                                  /\ riv'[q].file # 0 => riv'[q].file >= riv'[q].time
    <3>1. NewRepost(t, {}).of = {} /\ NewRepost(t, {}).file = 0
      BY DEF NewRepost
    <3>2. \A q \in 1 .. Len(riv) : /\ \A o \in riv[q].of : riv[q].time = Time[o]
                                   /\ riv[q].file # 0 => riv[q].file >= riv[q].time
      BY DEF RecordsFit
    <3>. QED BY <1>2, <2>2, <3>1, <3>2
  <2>4. pc = "filed" => ~Conflict'
    BY <1>0, SameJob DEF RecordsFit
  <2>5. pc # "idle" => cur # 0
    BY DEF TypeOK
  <2>6. UNCHANGED <<pc, cur, queue, touched>>
    BY <1>0
  <2>7. \A w \in queue' : Time[w] >= riv'[cur'].time
    <3>1. queue # {} => pc # "idle"
      BY DEF RecordsFit, Processing
    <3>. QED BY <2>1, <2>5, <2>6, <3>1 DEF RecordsFit
  <2>8. /\ cur' # 0 => riv'[cur'].status = "In Progress"
        /\ pc' = "gl" => riv'[cur'].posted
        /\ pc' \in Processing \cup {"posted"} => ~riv'[cur'].posted
    BY <2>1, <2>5, <2>6 DEF RecordsFit, Processing
  <2>9. queue' # {} => pc' \in Processing
    BY <2>6 DEF RecordsFit
  <2>10. touched' # {} => Bin \in touched'
    BY <2>6 DEF RecordsFit
  <2>11. pc' = "filed" => ~Conflict'
    BY <2>4, <2>6
  <2>. QED BY <2>3, <2>7, <2>8, <2>9, <2>10, <2>11, Zenon DEF RecordsFit
<1>. QED BY <1>2, <1>3, <1>4, <1>5

(* The file is not before the record, and the transaction does not         *)
(* conflict.                                                               *)
LEMMA WriteFileShape ==
  ASSUME Shape, WriteFile
  PROVE  /\ Shape'
         /\ Len(riv') = Len(riv) /\ \A q \in 1 .. Len(riv) : q # cur => riv'[q] = riv[q]
         /\ riv'[cur].status = riv[cur].status /\ ~riv[cur].posted /\ ~riv'[cur].posted
         /\ riv'[cur].time = riv[cur].time /\ riv'[cur].of = riv[cur].of
         /\ riv'[cur].file \in {riv[cur].file, ChunkEnd}
<1>. USE DEF Shape
<1>0. /\ UNCHANGED <<doc, creation, active, bal, basis, bin, cur, todo, queue, mem,
                    touched, faults, causes>>
      /\ pc \in {"locked", "rows"} /\ ~Conflict /\ pc' = "filed"
  BY DEF WriteFile, ledger
<1>1. cur # 0 /\ cur \in 1 .. Len(riv) /\ riv[cur] \in Record /\ ~riv[cur].posted
  <2>1. cur # 0 /\ cur \in 1 .. Len(riv) /\ riv \in Seq(Record)
    BY <1>0 DEF TypeOK
  <2>2. riv[cur] \in Record
    BY <2>1
  <2>3. ~riv[cur].posted
    BY <1>0 DEF RecordsFit, Processing
  <2>. QED BY <2>1, <2>2, <2>3
<1>2. /\ riv' \in Seq(Record) /\ Len(riv') = Len(riv)
      /\ riv'[cur].status = riv[cur].status /\ ~riv'[cur].posted
      /\ riv'[cur].time = riv[cur].time /\ riv'[cur].of = riv[cur].of
      /\ riv'[cur].file \in {riv[cur].file, ChunkEnd}
      /\ \A q \in 1 .. Len(riv) : q # cur => riv'[q] = riv[q]
      /\ \A q \in 1 .. Len(riv') : /\ \A o \in riv'[q].of : riv'[q].time = Time[o]
                                   /\ riv'[q].file # 0 => riv'[q].file >= riv'[q].time
  <2>1. CASE riv' = riv
    BY <1>1, <2>1 DEF TypeOK, RecordsFit
  <2>2. CASE riv' = [riv EXCEPT ![cur].file = ChunkEnd] /\ riv[cur].filed
    <3>1. ChunkEnd \in Nat /\ (ChunkEnd # 0 => ChunkEnd >= riv[cur].time)
      BY ChunkEndType
    <3>2. riv' = [riv EXCEPT ![cur].filed = TRUE, ![cur].file = ChunkEnd]
      BY <1>1, <2>2 DEF TypeOK, Record
    <3>. QED BY <1>1, <3>1, <3>2, FileShape
  <2>. QED BY <2>1, <2>2 DEF WriteFile
<1>3. TypeOK'
  BY <1>0, <1>2 DEF TypeOK, Phases
<1>4. OrderFits'
  BY <1>0 DEF OrderFits, Posted, Active
<1>5. RecordsFit'
  <2>1. ~Conflict'
    BY <1>0, SameJob
  <2>. QED BY <1>0, <1>1, <1>2, <2>1 DEF RecordsFit, Processing
<1>. QED BY <1>1, <1>2, <1>3, <1>4, <1>5

(* A committed chunk leaves the others in the queue.                       *)
LEMMA CommitShape ==
  ASSUME Shape, CommitChunk
  PROVE  /\ Shape'
         /\ Len(riv') = Len(riv) /\ \A q \in 1 .. Len(riv) : q # cur => riv'[q] = riv[q]
         /\ riv'[cur].status = riv[cur].status /\ ~riv[cur].posted /\ ~riv'[cur].posted
         /\ riv'[cur].time = riv[cur].time /\ riv'[cur].of = riv[cur].of
         /\ riv'[cur].file = ChunkEnd
<1>. USE DEF Shape
<1>0. /\ UNCHANGED <<doc, creation, bin, cur, todo, touched, faults, causes>>
      /\ pc = "filed" /\ pc' = "between"
      /\ queue' = queue \ NextChunk /\ mem' = MemAfter(NextChunk) /\ WriteRows(NextChunk)
      /\ riv' = [riv EXCEPT ![cur].filed = TRUE, ![cur].file = ChunkEnd]
  BY DEF CommitChunk, FileSays
<1>1. cur # 0 /\ cur \in 1 .. Len(riv) /\ ~riv[cur].posted
  BY <1>0 DEF TypeOK, RecordsFit, Processing
<1>2. /\ riv' \in Seq(Record) /\ Len(riv') = Len(riv)
      /\ riv'[cur].status = riv[cur].status /\ ~riv'[cur].posted
      /\ riv'[cur].time = riv[cur].time /\ riv'[cur].of = riv[cur].of
      /\ riv'[cur].file = ChunkEnd
      /\ \A q \in 1 .. Len(riv) : q # cur => riv'[q] = riv[q]
      /\ \A q \in 1 .. Len(riv') : /\ \A o \in riv'[q].of : riv'[q].time = Time[o]
                                   /\ riv'[q].file # 0 => riv'[q].file >= riv'[q].time
  BY <1>0, <1>1, ChunkEndType, FileShape
<1>3. NextChunk \subseteq queue /\ queue \subseteq Posted /\ mem' \in Row
  BY <1>0, ChunkEndType, MemAfterFits DEF OrderFits
<1>4. /\ bal' \in [Voucher -> Int] /\ basis' \in [Voucher -> SUBSET Voucher]
      /\ active' \in [Voucher -> BOOLEAN]
      /\ \A u \in Voucher : active'[u] <=> u \in NextChunk \/ active[u]
  BY <1>0, <1>3, WrittenRows
<1>5. TypeOK'
  BY <1>0, <1>2, <1>3, <1>4 DEF TypeOK, Phases, Row
<1>6. OrderFits'
  BY <1>0, <1>3, <1>4 DEF OrderFits, Posted, Active
<1>7. RecordsFit'
  BY <1>0, <1>1, <1>2 DEF RecordsFit, Processing
<1>. QED BY <1>1, <1>2, <1>5, <1>6, <1>7

(* A new snapshot has seen every change.                                   *)
LEMMA TransactionShape ==
  ASSUME Shape, NextTransaction
  PROVE  Shape'
<1>. USE DEF Shape
<1>1. TypeOK'
  BY DEF NextTransaction, TypeOK, ledger, Phases
<1>2. OrderFits'
  BY DEF NextTransaction, OrderFits, Posted, Active, ledger
<1>3. RecordsFit'
  BY DEF NextTransaction, RecordsFit, ledger, Processing
<1>. QED BY <1>1, <1>2, <1>3

(* After the last entries nothing is in memory.                            *)
LEMMA FinishShape ==
  ASSUME Shape, FinishEntries
  PROVE  /\ Shape'
         /\ Len(riv') = Len(riv) /\ \A q \in 1 .. Len(riv) : q # cur => riv'[q] = riv[q]
         /\ riv'[cur].time = riv[cur].time /\ riv'[cur].of = riv[cur].of
<1>. USE DEF Shape
<1>0. /\ UNCHANGED <<doc, creation, cur, todo, touched, faults, causes>>
      /\ pc = "filed" /\ pc' = "posted"
      /\ queue' = {} /\ mem' = Nothing /\ WriteRows(queue)
      /\ bin' = IF HasBin THEN MemAfter(queue).bal ELSE bin
      /\ riv' = [riv EXCEPT ![cur].filed = TRUE, ![cur].file = 0]
  BY DEF FinishEntries, FileSays
<1>1. cur # 0 /\ ~riv[cur].posted
  BY <1>0 DEF TypeOK, RecordsFit, Processing
<1>2. /\ riv' \in Seq(Record) /\ Len(riv') = Len(riv)
      /\ riv'[cur].time = riv[cur].time /\ riv'[cur].of = riv[cur].of
      /\ riv'[cur].status = riv[cur].status /\ ~riv'[cur].posted
      /\ \A q \in 1 .. Len(riv) : q # cur => riv'[q] = riv[q]
      /\ \A q \in 1 .. Len(riv') : /\ \A o \in riv'[q].of : riv'[q].time = Time[o]
                                   /\ riv'[q].file # 0 => riv'[q].file >= riv'[q].time
  BY <1>0, <1>1, FileShape
<1>3. queue \subseteq Posted /\ bin' \in Int
  BY <1>0, MemAfterFits DEF OrderFits, TypeOK, Row
<1>4. /\ bal' \in [Voucher -> Int] /\ basis' \in [Voucher -> SUBSET Voucher]
      /\ active' \in [Voucher -> BOOLEAN]
      /\ \A u \in Voucher : active'[u] <=> u \in queue \/ active[u]
  BY <1>0, WrittenRows
<1>5. TypeOK'
  BY <1>0, <1>2, <1>3, <1>4 DEF TypeOK, Phases, Nothing
<1>6. OrderFits'
  BY <1>0, <1>3, <1>4 DEF OrderFits, Posted, Active
<1>7. RecordsFit'
  BY <1>0, <1>1, <1>2 DEF RecordsFit, Processing
<1>. QED BY <1>2, <1>5, <1>6, <1>7

(* With the next index the record is posted.                               *)
LEMMA NextItemShape ==
  ASSUME Shape, NextItem
  PROVE  /\ Shape'
         /\ Len(riv') = Len(riv) /\ \A q \in 1 .. Len(riv) : q # cur => riv'[q] = riv[q]
         /\ riv'[cur].time = riv[cur].time /\ riv'[cur].of = riv[cur].of
<1>. USE DEF Shape
<1>. DEFINE x == [riv[cur] EXCEPT !.posted = TRUE]
<1>0. /\ UNCHANGED <<doc, creation, active, bal, basis, bin, cur, todo, queue, mem, touched,
                    faults, causes>>
      /\ pc = "posted" /\ pc' = "gl" /\ riv' = [riv EXCEPT ![cur] = x]
  BY DEF NextItem, ledger, TypeOK
<1>1. cur # 0 /\ cur \in 1 .. Len(riv) /\ riv[cur] \in Record /\ queue = {}
  <2>1. cur # 0 /\ cur \in 1 .. Len(riv) /\ riv \in Seq(Record)
    BY <1>0 DEF TypeOK
  <2>2. riv[cur] \in Record
    BY <2>1
  <2>. QED BY <1>0, <2>1, <2>2 DEF RecordsFit, Processing
<1>2. /\ x \in Record /\ x.time = riv[cur].time /\ x.of = riv[cur].of /\ x.file = riv[cur].file
      /\ x.posted /\ x.status = riv[cur].status
  BY <1>1 DEF Record
<1>3. x.file # 0 => x.file >= x.time
  BY <1>1, <1>2 DEF RecordsFit
<1>. HIDE DEF x
<1>4. /\ riv' \in Seq(Record) /\ Len(riv') = Len(riv)
      /\ riv'[cur] = x /\ \A q \in 1 .. Len(riv) : q # cur => riv'[q] = riv[q]
      /\ \A q \in 1 .. Len(riv') : /\ \A o \in riv'[q].of : riv'[q].time = Time[o]
                                   /\ riv'[q].file # 0 => riv'[q].file >= riv'[q].time
  BY <1>0, <1>1, <1>2, <1>3, OneRecord
<1>5. TypeOK'
  BY <1>0, <1>4 DEF TypeOK, Phases
<1>6. OrderFits'
  BY <1>0 DEF OrderFits, Posted, Active
<1>7. RecordsFit'
  BY <1>0, <1>1, <1>2, <1>4 DEF RecordsFit, Processing
<1>. QED BY <1>2, <1>4, <1>5, <1>6, <1>7

(* A step that ends the job and leaves the entries alone keeps them.       *)
LEMMA StopShape ==
  ASSUME Shape, cur # 0, Forget, UNCHANGED ledger, todo' \subseteq todo,
         faults' \in Nat, causes' \subseteq {"overlap", "resumed"},
         riv' \in Seq(Record), Len(riv') = Len(riv),
         \A q \in 1 .. Len(riv') : /\ \A o \in riv'[q].of : riv'[q].time = Time[o]
                                   /\ riv'[q].file # 0 => riv'[q].file >= riv'[q].time
  PROVE  Shape'
<1>. USE DEF Shape
<1>1. TypeOK'
  BY DEF TypeOK, Forget, ledger, Phases, Nothing
<1>2. OrderFits'
  BY DEF OrderFits, Posted, Active, Forget, ledger
<1>3. RecordsFit'
  BY DEF RecordsFit, Processing, Forget
<1>. QED BY <1>1, <1>2, <1>3

(* So does a repost that completes,                                        *)
LEMMA CompleteShape ==
  ASSUME Shape, Complete
  PROVE  Shape'
<1>1. cur # 0 /\ cur \in 1 .. Len(riv) /\ "Completed" \in Status
  BY DEF Complete, Shape, TypeOK, Status
<1>2. SetStatus(cur, "Completed") /\ Forget /\ UNCHANGED <<ledger, faults, causes>>
  BY DEF Complete
<1>3. todo' \subseteq todo /\ faults' \in Nat /\ causes' \subseteq {"overlap", "resumed"}
  BY <1>2 DEF Complete, Rest, Shape, TypeOK
<1>. QED BY <1>1, <1>2, <1>3, StatusShape, StopShape

(* So does one that fails, whatever its status is after it,                *)
LEMMA FailShape ==
  ASSUME Shape, pc # "idle", NEW s \in Status, Fail(s), faults' \in Nat
  PROVE  Shape'
<1>1. cur # 0 /\ cur \in 1 .. Len(riv)
  BY DEF Shape, TypeOK
<1>2. SetStatus(cur, s) /\ Forget /\ UNCHANGED ledger
  BY DEF Fail
<1>3. todo' \subseteq todo /\ causes' \subseteq {"overlap", "resumed"}
  <2>1. todo' = Rest /\ causes' = Resumed
    BY DEF Fail
  <2>. QED BY <2>1 DEF Rest, Shape, TypeOK, Resumed
<1>. QED BY <1>1, <1>2, <1>3, StatusShape, StopShape

(* one whose worker dies,                                                  *)
LEMMA CrashShape ==
  ASSUME Shape, Crash
  PROVE  Shape'
<1>1. cur # 0 /\ Forget /\ UNCHANGED <<ledger, riv>>
  BY DEF Shape, TypeOK, Crash
<1>2. todo' \subseteq todo /\ faults' \in Nat /\ causes' \subseteq {"overlap", "resumed"}
  BY DEF Crash, Shape, TypeOK, Resumed
<1>3. /\ riv' \in Seq(Record) /\ Len(riv') = Len(riv)
      /\ \A q \in 1 .. Len(riv') : /\ \A o \in riv'[q].of : riv'[q].time = Time[o]
                                   /\ riv'[q].file # 0 => riv'[q].file >= riv'[q].time
  BY <1>1 DEF Shape, TypeOK, RecordsFit
<1>. QED BY <1>1, <1>2, <1>3, StopShape

(* and a restart, of a record that is not the job's.                       *)
LEMMA RestartShape ==
  ASSUME Shape, NEW r \in 1 .. Len(riv), Restart(r)
  PROVE  /\ Shape'
         /\ r # cur /\ Len(riv') = Len(riv)
         /\ riv'[r].time = riv[r].time /\ riv'[r].of = riv[r].of
         /\ riv'[r].status = "Queued" /\ riv'[r].file = 0 /\ ~riv'[r].posted
         /\ \A q \in 1 .. Len(riv) : q # r => riv'[q] = riv[q]
<1>. USE DEF Shape
<1>. DEFINE x == [riv[r] EXCEPT !.status = "Queued", !.filed = FALSE, !.file = 0, !.posted = FALSE]
<1>0. UNCHANGED <<doc, creation, active, bal, basis, bin, pc, cur, todo, queue, mem,
                  touched, causes>> /\ faults' \in Nat
  BY DEF Restart, ledger, job, TypeOK
<1>1. riv[r] \in Record /\ r # cur
  <2>1. riv[r] \in Record /\ r # 0
    BY DEF TypeOK
  <2>. QED BY <2>1 DEF Restart, TypeOK
<1>2. /\ x \in Record /\ x.time = riv[r].time /\ x.of = riv[r].of /\ x.file = 0
      /\ x.status = "Queued" /\ ~x.posted
  BY <1>1 DEF Record, Status
<1>3. riv' = [riv EXCEPT ![r] = x]
  BY DEF Restart, TypeOK
<1>. HIDE DEF x
<1>4. /\ riv' \in Seq(Record) /\ Len(riv') = Len(riv)
      /\ riv'[r] = x /\ \A q \in 1 .. Len(riv) : q # r => riv'[q] = riv[q]
      /\ \A q \in 1 .. Len(riv') : /\ \A o \in riv'[q].of : riv'[q].time = Time[o]
                                   /\ riv'[q].file # 0 => riv'[q].file >= riv'[q].time
  BY <1>2, <1>3, OneRecord
<1>5. TypeOK'
  BY <1>0, <1>4 DEF TypeOK
<1>6. OrderFits'
  BY <1>0 DEF OrderFits, Posted, Active
<1>7. RecordsFit'
  <2>1. cur # 0 => riv'[cur] = riv[cur]
    BY <1>1, <1>4 DEF TypeOK
  <2>2. pc # "idle" => cur # 0
    BY DEF TypeOK
  <2>3. pc = "filed" => ~Conflict'
    BY <1>0, SameJob DEF RecordsFit
  <2>. QED BY <1>0, <1>4, <2>1, <2>2, <2>3 DEF RecordsFit, Processing
<1>. QED BY <1>1, <1>2, <1>4, <1>5, <1>6, <1>7

(* Nothing happens.                                                        *)
LEMMA StutterShape ==
  ASSUME Shape, UNCHANGED vars
  PROVE  Shape'
<1>. USE DEF Shape, vars, ledger, job
<1>1. TypeOK'
  BY DEF TypeOK
<1>2. OrderFits'
  BY DEF OrderFits, Posted, Active
<1>3. RecordsFit'
  BY SameJob DEF RecordsFit
<1>. QED BY <1>1, <1>2, <1>3

-----------------------------------------------------------------------------
(* What is up to an entry, before and after a step.                        *)

(* If neither the entries nor their order change, it is the same.          *)
LEMMA SameLedger ==
  ASSUME UNCHANGED <<creation, active>>
  PROVE  /\ Active' = Active
         /\ \A u \in Voucher : UpTo(Active, u)' = UpTo(Active, u) /\ TrueBalance(u)' = TrueBalance(u)
<1>1. Active' = Active
  BY DEF Active
<1>2. \A u \in Voucher : UpTo(Active, u)' = UpTo(Active, u)
  BY <1>1 DEF UpTo, Precedes
<1>. QED BY <1>1, <1>2 DEF TrueBalance, SumQty, MapThenSumSet, MapThenFoldSet

(* A submitted voucher is up to the entries that are later.                *)
LEMMA SubmitUpTo ==
  ASSUME Shape, NEW v \in Voucher, Submit(v)
  PROVE  /\ Active' = Active \cup {v} /\ v \notin Active /\ v \notin queue /\ v \notin Posted
         /\ UpTo(Active, v)' = {u \in Active : Time[u] <= Time[v]} \cup {v}
         /\ \A u \in Active : Time[u] <= Time[v] => UpTo(Active, u)' = UpTo(Active, u)
         /\ \A u \in Active : Time[u] > Time[v] => /\ UpTo(Active, u)' = UpTo(Active, u) \cup {v}
                                                   /\ v \notin UpTo(Active, u)
         /\ \A u \in queue : UpTo(queue, u)' = UpTo(queue, u)
<1>0. /\ creation' = [creation EXCEPT ![v] = 1 + Cardinality(Posted)]
      /\ active' = [active EXCEPT ![v] = TRUE] /\ doc[v] = 0 /\ queue' = queue
  BY DEF Submit, Posted
<1>1. v \notin Posted /\ Active \subseteq Posted /\ queue \subseteq Posted /\ Posted \subseteq Voucher
  BY <1>0 DEF Shape, OrderFits, Posted
<1>2. Active' = Active \cup {v} /\ v \notin Active /\ v \notin queue
  BY <1>0, <1>1 DEF Active, Shape, TypeOK
<1>3. /\ creation'[v] = 1 + Cardinality(Posted) /\ \A u \in Posted : creation'[u] = creation[u]
      /\ \A u \in Posted : creation[u] \in Nat /\ creation[u] <= Cardinality(Posted)
      /\ Cardinality(Posted) \in Nat
  BY <1>0, <1>1, PostedFits DEF Shape, TypeOK, OrderFits
<1>4. \A u \in Voucher : Time[u] \in Nat
  BY StockAssumption
<1>5. \A u, w \in Posted : Precedes(u, w)' <=> Precedes(u, w)
  BY <1>3 DEF Precedes
<1>6. \A u \in Posted : /\ Precedes(u, v)' <=> Time[u] <= Time[v]
                        /\ Precedes(v, u)' <=> Time[u] > Time[v]
  BY <1>1, <1>3, <1>4 DEF Precedes
<1>7. UpTo(Active, v)' = {u \in Active : Time[u] <= Time[v]} \cup {v}
  BY <1>1, <1>2, <1>6 DEF UpTo
<1>8. ASSUME NEW u \in Active, Time[u] <= Time[v]  PROVE UpTo(Active, u)' = UpTo(Active, u)
  <2>1. ~(Time[u] > Time[v]) /\ u \in Posted
    BY <1>1, <1>4, <1>8
  <2>. QED BY <1>1, <1>2, <1>5, <1>6, <2>1 DEF UpTo
<1>9. ASSUME NEW u \in Active, Time[u] > Time[v]
      PROVE  UpTo(Active, u)' = UpTo(Active, u) \cup {v} /\ v \notin UpTo(Active, u)
  BY <1>1, <1>2, <1>5, <1>6, <1>9 DEF UpTo
<1>10. ASSUME NEW u \in queue  PROVE UpTo(queue, u)' = UpTo(queue, u)
  BY <1>0, <1>1, <1>5 DEF UpTo
<1>. QED BY <1>1, <1>2, <1>7, <1>8, <1>9, <1>10

(* A cancelled one is not any more.                                        *)
LEMMA CancelUpTo ==
  ASSUME Shape, NEW v \in Voucher, Cancel(v)
  PROVE  LET rest == Active \ {v}
             same == {u \in rest : Time[u] = Time[v]}
         IN  /\ Active' = rest
             /\ \A u \in rest : Time[u] < Time[v] => UpTo(Active, u)' = UpTo(Active, u)
             /\ \A u \in same : UpTo(Active, u)' =
                                  {w \in rest : Time[w] < Time[v]} \cup UpTo(same, u)
             /\ \A u \in rest : Time[u] > Time[v] =>
                  /\ UpTo(Active, u)' = UpTo(Active, u) \ {v}
                  /\ v \in Active => v \in UpTo(Active, u)
             /\ \A u \in queue : UpTo(queue, u)' = UpTo(queue, u)
<1>. DEFINE rest == Active \ {v}
            same == {u \in rest : Time[u] = Time[v]}
<1>0. active' = [active EXCEPT ![v] = FALSE] /\ UNCHANGED <<creation, queue>>
  BY DEF Cancel
<1>1. Active' = rest
  BY <1>0 DEF Active, Shape, TypeOK
<1>2. \A u \in Voucher : Time[u] \in Nat
  BY StockAssumption
<1>3. Active \subseteq Voucher
  BY DEF Active
<1>4. \A u, w \in Voucher : Precedes(u, w)' <=> Precedes(u, w)
  BY <1>0 DEF Precedes
<1>5. ASSUME NEW u \in rest, Time[u] < Time[v]  PROVE UpTo(Active, u)' = UpTo(Active, u)
  <2>1. ~Precedes(v, u)
    BY <1>2, <1>3, <1>5 DEF Precedes
  <2>. QED BY <1>1, <1>3, <1>4, <2>1 DEF UpTo
<1>6. ASSUME NEW u \in same
      PROVE  UpTo(Active, u)' = {w \in rest : Time[w] < Time[v]} \cup UpTo(same, u)
  <2>1. \A w \in rest : Precedes(w, u) <=> (Time[w] < Time[v] \/ (Time[w] = Time[v] /\ Precedes(w, u)))
    BY <1>2, <1>3, <1>6 DEF Precedes
  <2>. QED BY <1>1, <1>3, <1>4, <1>6, <2>1 DEF UpTo
<1>7. ASSUME NEW u \in rest, Time[u] > Time[v]
      PROVE  UpTo(Active, u)' = UpTo(Active, u) \ {v} /\ (v \in Active => v \in UpTo(Active, u))
  <2>1. Precedes(v, u)
    BY <1>2, <1>3, <1>7 DEF Precedes
  <2>. QED BY <1>1, <1>3, <1>4, <2>1 DEF UpTo
<1>8. ASSUME NEW u \in queue  PROVE UpTo(queue, u)' = UpTo(queue, u)
  BY <1>0, <1>4 DEF UpTo, Shape, TypeOK
<1>. QED BY <1>1, <1>5, <1>6, <1>7, <1>8

(* The entries that are before some time are what their last one is up to. *)
LEMMA ClosedUpTo ==
  ASSUME TypeOK, OrderFits, NEW S \in SUBSET Active, S # {},
         \A s \in S, u \in Active : Precedes(u, s) => u \in S
  PROVE  LastOf(S) \in S /\ UpTo(Active, LastOf(S)) = S
<1>1. LastOf(S) \in S /\ \A u \in S : u = LastOf(S) \/ Precedes(u, LastOf(S))
  BY LastExists DEF OrderFits
<1>. QED BY <1>1 DEF UpTo

(* So the balance before some time is the sum of the entries before it.    *)
LEMMA BalanceBefore ==
  ASSUME TypeOK, OrderFits, NEW S \in SUBSET Active,
         \A s \in S, u \in Active : Precedes(u, s) => u \in S,
         \A u \in Active : bal[u] = TrueBalance(u)
  PROVE  Previous(S).bal = SumQty(S)
<1>1. CASE S = {}
  BY <1>1, SumEmpty DEF Previous, Nothing
<1>2. CASE S # {}
  BY <1>2, ClosedUpTo DEF Previous, TrueBalance
<1>. QED BY <1>1, <1>2

-----------------------------------------------------------------------------
(* The ledger is exact, and the job's memory agrees with it.               *)

(* Submitting keeps the ledger exact.                                      *)
LEMMA SubmitLedger ==
  ASSUME Shape, LedgerIsExact, MemoryFits, NEW v \in Voucher, Submit(v)
  PROVE  LedgerIsExact' /\ MemoryFits'
<1>. DEFINE before == {u \in Active : Time[u] <= Time[v]}
            prev   == Previous(before)
<1>0. /\ causes' = causes /\ pc' = pc /\ queue' = queue /\ mem' = mem
      /\ doc[v] = 0 /\ doc' = [doc EXCEPT ![v] = 1] /\ active' = [active EXCEPT ![v] = TRUE]
      /\ bal'[v] >= 0 /\ FutureNotNegative(Active, Time[v], Qty[v], bal')
      /\ bin' = IF \E u \in Active : Time[u] > Time[v] THEN ActualQty(Active, bal') ELSE bal'[v]
      /\ touched' = touched \cup {v, Bin} \cup {u \in Active : Time[u] > Time[v]}
  BY DEF Submit, Shifted
<1>1. TypeOK /\ OrderFits /\ Qty[v] \in Int /\ (\A u \in Voucher : Time[u] \in Nat /\ Qty[u] \in Int)
  BY StockAssumption DEF Shape
<1>2. /\ Active \subseteq Voucher /\ Active \subseteq Posted
      /\ Active' = Active \cup {v} /\ v \notin Active /\ v \notin queue
      /\ \A u \in Voucher : SumQty(UpTo(Active, u)) \in Int /\ UpTo(Active, u) \in SUBSET Voucher
  <2>1. Active \subseteq Voucher
    BY DEF Active
  <2>2. \A u \in Voucher : UpTo(Active, u) \in SUBSET Voucher
    BY <2>1 DEF UpTo
  <2>. QED BY <1>1, <2>1, <2>2, SubmitUpTo, SumInt DEF OrderFits
<1>3. /\ bal'[v] = prev.bal + Qty[v]
      /\ \A u \in Voucher \ {v} :
           bal'[u] = IF u \in Active /\ Time[u] > Time[v] THEN bal[u] + Qty[v] ELSE bal[u]
  BY <1>1, SubmitRows
<1>4. ASSUME "overlap" \notin causes'  PROVE LedgerIsExact'
  <2>0. /\ \A u \in Voucher : active[u] <=> doc[u] = 1
        /\ \A u \in Active : bal[u] = TrueBalance(u) /\ bal[u] >= 0
        /\ bin = SumQty(Active)
    BY <1>0, <1>4 DEF LedgerIsExact
  <2>1. prev.bal = SumQty(before)
    <3>1. \A s \in before, u \in Active : Precedes(u, s) => u \in before
      BY <1>1, <1>2 DEF Precedes
    <3>. QED BY <1>1, <2>0, <3>1, BalanceBefore
  <2>2. \A u \in Voucher : active'[u] <=> doc'[u] = 1
    BY <1>0, <1>1, <2>0 DEF TypeOK
  <2>3. bal'[v] = TrueBalance(v)'
    <3>1. TrueBalance(v)' = SumQty(before \cup {v})
      BY SubmitUpTo DEF TrueBalance
    <3>2. SumQty(before \cup {v}) = SumQty(before) + Qty[v]
      BY <1>2, SumAdd
    <3>. QED BY <1>3, <2>1, <3>1, <3>2
  <2>4. ASSUME NEW u \in Active, Time[u] <= Time[v]  PROVE bal'[u] = TrueBalance(u)' /\ bal'[u] >= 0
    <3>1. TrueBalance(u)' = TrueBalance(u)
      BY <2>4, SubmitUpTo DEF TrueBalance
    <3>2. bal'[u] = bal[u]
      BY <1>1, <1>2, <1>3, <2>4
    <3>. QED BY <2>0, <3>1, <3>2
  <2>5. ASSUME NEW u \in Active, Time[u] > Time[v]  PROVE bal'[u] = TrueBalance(u)' /\ bal'[u] >= 0
    <3>1. TrueBalance(u)' = SumQty(UpTo(Active, u) \cup {v})
      BY <2>5, SubmitUpTo DEF TrueBalance
    <3>2. SumQty(UpTo(Active, u) \cup {v}) = SumQty(UpTo(Active, u)) + Qty[v]
      BY <1>2, <2>5, SubmitUpTo, SumAdd
    <3>3. bal'[u] = bal[u] + Qty[v] /\ bal[u] = SumQty(UpTo(Active, u)) /\ bal[u] >= 0
      BY <1>2, <1>3, <2>0, <2>5 DEF TrueBalance
    <3>4. bal[u] \in Int /\ Time[u] >= Time[v]
      BY <1>1, <1>2, <2>5 DEF TypeOK
    <3>5. Qty[v] < 0 => bal'[u] >= 0
      BY <1>0, <2>5, <3>4 DEF FutureNotNegative
    <3>. QED BY <1>1, <3>1, <3>2, <3>3, <3>4, <3>5
  <2>6. \A u \in Active' : bal'[u] = TrueBalance(u)' /\ bal'[u] >= 0
    BY <1>0, <1>1, <1>2, <2>3, <2>4, <2>5
  <2>7. bin' = SumQty(Active')
    <3>1. SumQty(Active') = SumQty(Active) + Qty[v]
      BY <1>2, SumAdd
    <3>2. CASE \E u \in Active : Time[u] > Time[v]
      <4>. DEFINE l == LastOf(Active)
      <4>1. l \in Active /\ UpTo(Active, l) = Active /\ \A u \in Active : u = l \/ Precedes(u, l)
        BY <1>1, <1>2, <3>2, LastExists
      <4>2. Time[l] > Time[v]
        BY <1>1, <1>2, <3>2, <4>1 DEF Precedes
      <4>3. bal'[l] = SumQty(Active) + Qty[v]
        BY <1>2, <1>3, <2>0, <4>1, <4>2 DEF TrueBalance
      <4>. QED BY <1>0, <3>1, <3>2, <4>3 DEF ActualQty
    <3>3. CASE ~\E u \in Active : Time[u] > Time[v]
      <4>1. before = Active
        BY <1>1, <1>2, <3>3
      <4>. QED BY <1>0, <1>3, <2>1, <3>1, <3>3, <4>1
    <3>. QED BY <3>2, <3>3
  <2>. QED BY <2>2, <2>6, <2>7 DEF LedgerIsExact
<1>5. MemoryFits'
  <2>1. SUFFICES ASSUME "overlap" \notin causes, NEW w \in queue \ touched'
                 PROVE  active'[w] /\ bal'[w] = mem.bal + SumQty(UpTo(queue, w)')
    BY <1>0 DEF MemoryFits
  <2>2. w \in queue \ touched /\ w # v /\ ~(w \in Active /\ Time[w] > Time[v]) /\ w \in Voucher
    BY <1>0, <1>1, <2>1 DEF TypeOK
  <2>3. active[w] /\ bal[w] = mem.bal + SumQty(UpTo(queue, w))
    BY <2>1, <2>2 DEF MemoryFits
  <2>4. UpTo(queue, w)' = UpTo(queue, w)
    BY SubmitUpTo
  <2>. QED BY <1>0, <1>1, <1>3, <2>2, <2>3, <2>4 DEF TypeOK
<1>6. LedgerIsExact'
  BY <1>4 DEF LedgerIsExact
<1>. QED BY <1>5, <1>6

(* Cancelling keeps the ledger exact.                                      *)
LEMMA CancelLedger ==
  ASSUME Shape, LedgerIsExact, MemoryFits, NEW v \in Voucher, Cancel(v)
  PROVE  LedgerIsExact' /\ MemoryFits'
<1>. DEFINE rest  == Active \ {v}
            same  == {u \in rest : Time[u] = Time[v]}
            early == {u \in rest : Time[u] < Time[v]}
            prev  == Previous(early)
<1>0. /\ causes' = causes /\ pc' = pc /\ queue' = queue /\ mem' = mem
      /\ doc[v] = 1 /\ doc' = [doc EXCEPT ![v] = 2] /\ active' = [active EXCEPT ![v] = FALSE]
      /\ \A u \in same : bal'[u] >= 0
      /\ FutureNotNegative(rest, Time[v], -Qty[v], bal')
      /\ touched' = touched \cup {v, Bin} \cup same \cup {u \in rest : Time[u] > Time[v]}
  BY DEF Cancel, Shifted
<1>1. TypeOK /\ OrderFits /\ Qty[v] \in Int /\ (\A u \in Voucher : Time[u] \in Nat /\ Qty[u] \in Int)
  BY StockAssumption DEF Shape
<1>2. /\ Active \subseteq Voucher /\ Active \subseteq Posted /\ Active' = rest
      /\ \A u \in Voucher : /\ UpTo(Active, u) \in SUBSET Voucher /\ SumQty(UpTo(Active, u)) \in Int
                            /\ UpTo(same, u) \in SUBSET same /\ SumQty(UpTo(same, u)) \in Int
  <2>1. Active \subseteq Voucher
    BY DEF Active
  <2>2. \A u \in Voucher : UpTo(Active, u) \in SUBSET Voucher /\ UpTo(same, u) \in SUBSET same
                           /\ UpTo(same, u) \in SUBSET Voucher
    BY <2>1 DEF UpTo
  <2>. QED BY <1>1, <2>1, <2>2, CancelUpTo, SumInt DEF OrderFits
<1>3. /\ \A u \in same : bal'[u] = prev.bal + SumQty(UpTo(same, u))
      /\ \A u \in rest : Time[u] > Time[v] => bal'[u] = bal[u] - Qty[v]
      /\ \A u \in Voucher : ~(u \in rest /\ Time[u] >= Time[v]) => bal'[u] = bal[u]
      /\ bin' = ActualQty(rest, bal')
  BY <1>1, CancelRows
<1>4. ASSUME "overlap" \notin causes'  PROVE LedgerIsExact'
  <2>0. /\ \A u \in Voucher : active[u] <=> doc[u] = 1
        /\ \A u \in Active : bal[u] = TrueBalance(u) /\ bal[u] >= 0
    BY <1>0, <1>4 DEF LedgerIsExact
  <2>1. prev.bal = SumQty(early)
    <3>1. \A s \in early, u \in Active : Precedes(u, s) => u \in early
      BY <1>1, <1>2 DEF Precedes
    <3>. QED BY <1>1, <2>0, <3>1, BalanceBefore
  <2>2. (\A u \in Voucher : active'[u] <=> doc'[u] = 1) /\ v \in Active
    BY <1>0, <1>1, <2>0 DEF TypeOK, Active
  <2>3. ASSUME NEW u \in rest, Time[u] < Time[v]  PROVE bal'[u] = TrueBalance(u)' /\ bal'[u] >= 0
    <3>1. TrueBalance(u)' = TrueBalance(u)
      BY <2>3, CancelUpTo DEF TrueBalance
    <3>2. bal'[u] = bal[u]
      BY <1>1, <1>2, <1>3, <2>3
    <3>. QED BY <2>0, <3>1, <3>2
  <2>4. ASSUME NEW u \in same  PROVE bal'[u] = TrueBalance(u)' /\ bal'[u] >= 0
    <3>1. TrueBalance(u)' = SumQty(early \cup UpTo(same, u))
      BY CancelUpTo DEF TrueBalance
    <3>2. UpTo(same, u) \in SUBSET same /\ early \in SUBSET Voucher /\ same \in SUBSET Voucher
      BY <1>2
    <3>3. early \cap UpTo(same, u) = {}
      BY <1>1, <3>2
    <3>4. SumQty(early \cup UpTo(same, u)) = SumQty(early) + SumQty(UpTo(same, u))
      BY <3>2, <3>3, SumUnion
    <3>. QED BY <1>0, <1>3, <2>1, <3>1, <3>4
  <2>5. ASSUME NEW u \in rest, Time[u] > Time[v]  PROVE bal'[u] = TrueBalance(u)' /\ bal'[u] >= 0
    <3>. DEFINE A == UpTo(Active, u)
    <3>1. TrueBalance(u)' = SumQty(A \ {v}) /\ v \in A
      BY <2>2, <2>5, CancelUpTo DEF TrueBalance
    <3>2. A \in SUBSET Voucher /\ A \ {v} \in SUBSET Voucher /\ A = (A \ {v}) \cup {v}
      BY <1>2, <3>1
    <3>3. SumQty(A) = SumQty(A \ {v}) + Qty[v] /\ SumQty(A \ {v}) \in Int
      BY <3>2, SumAdd, SumInt
    <3>4. bal'[u] = bal[u] - Qty[v] /\ bal[u] = SumQty(A) /\ bal[u] >= 0 /\ Time[u] >= Time[v]
      BY <1>1, <1>2, <1>3, <2>0, <2>5 DEF TrueBalance
    <3>5. -Qty[v] < 0 => bal'[u] >= 0
      BY <1>0, <2>5, <3>4 DEF FutureNotNegative
    <3>. HIDE DEF A
    <3>. QED BY <1>1, <3>1, <3>3, <3>4, <3>5
  <2>6. \A u \in Active' : bal'[u] = TrueBalance(u)' /\ bal'[u] >= 0
    <3>1. \A u \in rest : Time[u] < Time[v] \/ Time[u] = Time[v] \/ Time[u] > Time[v]
      BY <1>1, <1>2
    <3>. QED BY <1>2, <2>3, <2>4, <2>5, <3>1
  <2>7. bin' = SumQty(Active')
    <3>1. CASE rest = {}
      BY <1>2, <1>3, <3>1, SumEmpty DEF ActualQty
    <3>2. CASE rest # {}
      <4>1. PICK l \in rest : l = LastOf(rest) /\ \A u \in rest : u = l \/ Precedes(u, l)
        BY <1>1, <1>2, <3>2, LastExists
      <4>2. UpTo(Active, l)' = rest
        <5>1. \A u \in Voucher : Precedes(u, l)' <=> Precedes(u, l)
          <6>1. creation' = creation
            BY DEF Cancel
          <6>. QED BY <6>1 DEF Precedes
        <5>2. Active' = rest
          BY <1>2
        <5>3. rest \subseteq Voucher
          BY <1>2
        <5>. HIDE DEF rest
        <5>. QED BY <4>1, <5>1, <5>2, <5>3 DEF UpTo
      <4>3. bal'[l] = SumQty(rest)
        BY <1>2, <2>6, <4>1, <4>2 DEF TrueBalance
      <4>. QED BY <1>2, <1>3, <3>2, <4>1, <4>3 DEF ActualQty
    <3>. QED BY <3>1, <3>2
  <2>. QED BY <2>2, <2>6, <2>7 DEF LedgerIsExact
<1>5. MemoryFits'
  <2>1. SUFFICES ASSUME "overlap" \notin causes, NEW w \in queue \ touched'
                 PROVE  active'[w] /\ bal'[w] = mem.bal + SumQty(UpTo(queue, w)')
    BY <1>0 DEF MemoryFits
  <2>2. w \in queue \ touched /\ w # v /\ w \in Voucher /\ ~(w \in rest /\ Time[w] >= Time[v])
    BY <1>0, <1>1, <1>2, <2>1 DEF TypeOK
  <2>3. active[w] /\ bal[w] = mem.bal + SumQty(UpTo(queue, w))
    BY <2>1, <2>2 DEF MemoryFits
  <2>4. UpTo(queue, w)' = UpTo(queue, w)
    BY CancelUpTo
  <2>. QED BY <1>0, <1>1, <1>3, <2>2, <2>3, <2>4 DEF TypeOK
<1>6. LedgerIsExact'
  BY <1>4 DEF LedgerIsExact
<1>. QED BY <1>5, <1>6

(* What the job writes is what is there.                                   *)
LEMMA WriteKeeps ==
  ASSUME Shape, MemoryFits, "overlap" \notin causes, NEW S \in SUBSET queue,
         S \cap touched = {}, \A u \in S, w \in queue \ S : Precedes(u, w), WriteRows(S)
  PROVE  bal' = bal /\ active' = active
<1>1. TypeOK /\ OrderFits /\ queue \subseteq Voucher
  BY DEF Shape, TypeOK
<1>2. \A u \in S : UpTo(queue, u) = UpTo(S, u)
  BY <1>1, UpToSplit
<1>3. \A u \in S : active[u] /\ bal[u] = mem.bal + SumQty(UpTo(S, u))
  BY <1>2 DEF MemoryFits
<1>4. /\ bal' \in [Voucher -> Int] /\ active' \in [Voucher -> BOOLEAN]
      /\ \A u \in Voucher : bal'[u] = bal[u] /\ (active'[u] <=> active[u])
  BY <1>1, <1>3, WrittenRows
<1>5. bal' = bal
  BY <1>1, <1>4 DEF TypeOK
<1>6. active' = active
  BY <1>1, <1>4 DEF TypeOK
<1>. QED BY <1>5, <1>6

(* A chunk that is going to be committed is untouched, and the first one.  *)
LEMMA ChunkIsClean ==
  ASSUME Shape, pc = "filed", ~IsLast
  PROVE  /\ NextChunk \in SUBSET queue /\ NextChunk # {}
         /\ NextChunk \cap touched = {}
         /\ \A u \in NextChunk, w \in queue \ NextChunk : Precedes(u, w)
<1>1. TypeOK /\ OrderFits /\ ~Conflict
  BY DEF Shape, RecordsFit
<1>. QED BY <1>1, ChunkFits DEF Conflict, Written

(* Committing a chunk keeps the ledger exact ...                           *)
LEMMA CommitLedger ==
  ASSUME Shape, LedgerIsExact, MemoryFits, CommitChunk
  PROVE  LedgerIsExact' /\ MemoryFits'
<1>. DEFINE S == NextChunk
<1>0. /\ UNCHANGED <<doc, creation, bin, cur, todo, touched, faults, causes>>
      /\ pc = "filed" /\ ~IsLast /\ pc' = "between"
      /\ queue' = queue \ S /\ mem' = MemAfter(S) /\ WriteRows(S)
  BY DEF CommitChunk
<1>1. SUFFICES ASSUME "overlap" \notin causes  PROVE LedgerIsExact' /\ MemoryFits'
  BY <1>0 DEF LedgerIsExact, MemoryFits
<1>2. /\ S \in SUBSET queue /\ S # {} /\ S \cap touched = {}
      /\ \A u \in S, w \in queue \ S : Precedes(u, w)
  BY <1>0, ChunkIsClean
<1>3. bal' = bal /\ active' = active
  BY <1>0, <1>1, <1>2, WriteKeeps
<1>4. TypeOK /\ OrderFits /\ queue \subseteq Voucher /\ mem.bal \in Int
  BY DEF Shape, TypeOK
<1>5. LedgerIsExact'
  BY <1>0, <1>3, SameLedger DEF LedgerIsExact, Active
<1>6. mem'.bal = mem.bal + SumQty(S) /\ SumQty(S) \in Int
  BY <1>0, <1>2, <1>4, MemAfterFits, SumInt
<1>7. ASSUME NEW w \in queue' \ touched'
      PROVE  active'[w] /\ bal'[w] = mem'.bal + SumQty(UpTo(queue, w)')
  <2>1. w \in queue \ touched /\ w \in queue \ S
    BY <1>0, <1>7
  <2>2. active[w] /\ bal[w] = mem.bal + SumQty(UpTo(queue, w))
    BY <1>1, <2>1 DEF MemoryFits
  <2>3. UpTo(queue, w)' = UpTo(queue \ S, w)
    BY <1>0 DEF UpTo, Precedes
  <2>4. UpTo(queue, w) = S \cup UpTo(queue \ S, w)
    BY <1>2, <1>4, <2>1, UpToSplit
  <2>5. UpTo(queue \ S, w) \in SUBSET (queue \ S)
    BY DEF UpTo
  <2>6. SumQty(UpTo(queue, w)) = SumQty(S) + SumQty(UpTo(queue \ S, w))
    <3>. DEFINE T == UpTo(queue \ S, w)
    <3>1. S \in SUBSET Voucher /\ T \in SUBSET Voucher /\ S \cap T = {}
      BY <1>2, <1>4, <2>5
    <3>. HIDE DEF T, S
    <3>2. SumQty(S \cup T) = SumQty(S) + SumQty(T)
      BY <3>1, SumUnion
    <3>. QED BY <2>4, <3>2 DEF T
  <2>7. SumQty(UpTo(queue \ S, w)) \in Int
    BY <1>4, <2>5, SumInt
  <2>. QED BY <1>3, <1>4, <1>6, <2>2, <2>3, <2>6, <2>7
<1>8. ASSUME Bin \notin touched'  PROVE bin' = mem'.bal + SumQty(queue')
  <2>1. bin = mem.bal + SumQty(queue)
    BY <1>0, <1>1, <1>2, <1>8 DEF MemoryFits, HasBin, Processing
  <2>2. SumQty(queue) = SumQty(S) + SumQty(queue \ S) /\ SumQty(queue \ S) \in Int
    <3>1. S \in SUBSET Voucher /\ queue \ S \in SUBSET Voucher /\ S \cap (queue \ S) = {}
          /\ queue = S \cup (queue \ S)
      BY <1>2, <1>4
    <3>. HIDE DEF S
    <3>. QED BY <3>1, SumUnion, SumInt
  <2>. QED BY <1>0, <1>4, <1>6, <2>1, <2>2
<1>9. MemoryFits'
  BY <1>7, <1>8 DEF MemoryFits
<1>. QED BY <1>5, <1>9

(* ... and so do the last entries and the Bin.                             *)
LEMMA FinishLedger ==
  ASSUME Shape, LedgerIsExact, MemoryFits, FinishEntries
  PROVE  LedgerIsExact' /\ MemoryFits'
<1>0. /\ UNCHANGED <<doc, creation, cur, todo, touched, faults, causes>>
      /\ pc = "filed" /\ pc' = "posted" /\ ~Conflict /\ IsLast
      /\ queue' = {} /\ mem' = Nothing /\ WriteRows(queue)
      /\ bin' = IF HasBin THEN MemAfter(queue).bal ELSE bin
  BY DEF FinishEntries, Shape, RecordsFit
<1>1. SUFFICES ASSUME "overlap" \notin causes  PROVE LedgerIsExact' /\ MemoryFits'
  BY <1>0 DEF LedgerIsExact, MemoryFits
<1>2. queue \cap touched = {} /\ (HasBin => Bin \notin touched)
  BY <1>0 DEF Conflict, Written
<1>3. bal' = bal /\ active' = active
  BY <1>0, <1>1, <1>2, WriteKeeps
<1>4. bin' = bin
  <2>1. CASE ~HasBin
    BY <1>0, <2>1
  <2>2. CASE HasBin
    <3>1. bin = mem.bal + SumQty(queue)
      BY <1>0, <1>1, <1>2, <2>2 DEF MemoryFits, Processing
    <3>2. TypeOK /\ OrderFits /\ mem.bal \in Int
      BY DEF Shape, TypeOK
    <3>3. MemAfter(queue).bal = mem.bal + SumQty(queue)
      <4>1. CASE queue = {}
        BY <3>2, <4>1, MemAfterFits, SumEmpty
      <4>2. CASE queue # {}
        BY <3>2, <4>2, MemAfterFits
      <4>. QED BY <4>1, <4>2
    <3>. QED BY <1>0, <2>2, <3>1, <3>3
  <2>. QED BY <2>1, <2>2
<1>5. LedgerIsExact'
  BY <1>0, <1>3, <1>4, SameLedger DEF LedgerIsExact, Active
<1>6. MemoryFits'
  BY <1>0 DEF MemoryFits, Processing
<1>. QED BY <1>5, <1>6

(* The job reads what is there.                                            *)
LEMMA SnapshotLedger ==
  ASSUME Shape, LedgerIsExact, MemoryFits, TakeSnapshot
  PROVE  LedgerIsExact' /\ MemoryFits'
<1>. DEFINE rows == {v \in Active : Time[v] >= From(cur)}
            t0 == Min({Time[w] : w \in rows})
            earlier == {v \in Active : Time[v] < t0}
<1>0. /\ UNCHANGED <<doc, creation, active, bal, basis, bin, riv, cur, todo, faults, causes>>
      /\ pc = "begin" /\ touched' = {}
  BY DEF TakeSnapshot, ledger
<1>1. LedgerIsExact'
  BY <1>0, SameLedger DEF LedgerIsExact, Active
<1>2. SUFFICES ASSUME "overlap" \notin causes  PROVE MemoryFits'
  BY <1>0, <1>1 DEF MemoryFits
<1>3. TypeOK /\ OrderFits /\ queue = {} /\ cur \in 1 .. Len(riv)
  BY <1>0 DEF Shape, TypeOK, RecordsFit, Processing
<1>4. CASE pc' = "gl" /\ queue' = queue
  BY <1>3, <1>4 DEF MemoryFits, Processing
<1>5. CASE /\ pc' = "snapshot" /\ queue' = rows
           /\ mem' = (IF rows = {} THEN Nothing ELSE Previous(earlier))
  <2>1. CASE rows = {}
    <3>1. ~HasBin'
      BY <1>5, <2>1 DEF HasBin, Nothing
    <3>. QED BY <1>5, <2>1, <3>1 DEF MemoryFits
  <2>2. CASE rows # {}
    <3>0. /\ \A u \in Active : bal[u] = TrueBalance(u)
          /\ bin = SumQty(Active)
      BY <1>2 DEF LedgerIsExact
    <3>1. Active \subseteq Voucher /\ Active \subseteq Posted /\ \A u \in Voucher : Time[u] \in Nat
      BY <1>3, StockAssumption DEF Active, OrderFits
    <3>2. (\E w \in rows : t0 = Time[w]) /\ \A w \in rows : t0 <= Time[w]
      <4>1. rows \in SUBSET Posted
        BY <3>1
      <4>. HIDE DEF rows
      <4>. QED BY <1>3, <2>2, <4>1, MinTime
    <3>3. From(cur) \in Nat
      <4>1. riv[cur] \in Record
        BY <1>3 DEF TypeOK
      <4>. QED BY <4>1 DEF From, Record
    <3>. HIDE DEF t0
    <3>4. t0 \in Nat /\ Active = earlier \cup rows /\ earlier \cap rows = {} /\ rows = Active \ earlier
      BY <3>1, <3>2, <3>3
    <3>5. \A u \in earlier, w \in rows : Precedes(u, w)
      BY <3>1, <3>2, <3>4 DEF Precedes
    <3>6. \A s \in earlier, u \in Active : Precedes(u, s) => u \in earlier
      BY <3>1, <3>4 DEF Precedes
    <3>7. Previous(earlier).bal = SumQty(earlier) /\ earlier \in SUBSET Active
      BY <1>3, <3>0, <3>6, BalanceBefore
    <3>. HIDE DEF earlier, rows
    <3>8. ASSUME NEW w \in rows
          PROVE  active'[w] /\ bal'[w] = mem'.bal + SumQty(UpTo(queue, w)')
      <4>1. UpTo(queue, w)' = UpTo(rows, w)
        BY <1>0, <1>5 DEF UpTo, Precedes
      <4>2. UpTo(Active, w) = earlier \cup UpTo(rows, w)
        <5>1. Active \in SUBSET Voucher /\ \A p \in earlier, q \in Active \ earlier : Precedes(p, q)
          BY <3>1, <3>4, <3>5
        <5>2. \A q \in Active \ earlier : UpTo(Active, q) = earlier \cup UpTo(Active \ earlier, q)
          BY <1>3, <3>7, <5>1, UpToSplit
        <5>. QED BY <3>4, <5>2
      <4>3. UpTo(rows, w) \in SUBSET rows
        BY DEF UpTo
      <4>4. SumQty(UpTo(Active, w)) = SumQty(earlier) + SumQty(UpTo(rows, w))
        <5>. DEFINE T == UpTo(rows, w)
        <5>1. earlier \in SUBSET Voucher /\ T \in SUBSET Voucher /\ earlier \cap T = {}
          BY <3>1, <3>4, <4>3
        <5>. HIDE DEF T
        <5>2. SumQty(earlier \cup T) = SumQty(earlier) + SumQty(T)
          BY <5>1, SumUnion
        <5>. QED BY <4>2, <5>2 DEF T
      <4>5. w \in Active /\ active[w]
        BY <3>4 DEF Active
      <4>6. bal[w] = SumQty(earlier) + SumQty(UpTo(rows, w))
        BY <3>0, <4>4, <4>5 DEF TrueBalance
      <4>. QED BY <1>0, <1>5, <2>2, <3>7, <4>1, <4>5, <4>6
    <3>9. bin' = mem'.bal + SumQty(queue')
      <4>1. earlier \in SUBSET Voucher /\ rows \in SUBSET Voucher
        BY <3>1, <3>4
      <4>2. SumQty(Active) = SumQty(earlier) + SumQty(rows)
        BY <3>4, <4>1, SumUnion
      <4>. QED BY <1>0, <1>5, <2>2, <3>0, <3>7, <4>2
    <3>. QED BY <1>5, <3>8, <3>9 DEF MemoryFits
  <2>. QED BY <2>1, <2>2
<1>6. \/ pc' = "gl" /\ queue' = queue
      \/ /\ pc' = "snapshot" /\ queue' = rows
         /\ mem' = (IF rows = {} THEN Nothing ELSE Previous(earlier))
  BY DEF TakeSnapshot
<1>. QED BY <1>4, <1>5, <1>6

(* The steps that write no entries.                                        *)
LEMMA QuietLedger ==
  ASSUME LedgerIsExact, MemoryFits, UNCHANGED ledger,
         "overlap" \notin causes' => "overlap" \notin causes,
         \/ pc' \notin Processing /\ queue' = {}
         \/ /\ UNCHANGED <<queue, mem>> /\ (pc' \in Processing => pc \in Processing)
            /\ touched' = touched \/ "overlap" \in causes' \/ touched = {}
  PROVE  LedgerIsExact' /\ MemoryFits'
<1>0. UNCHANGED <<doc, creation, active, bal, basis, bin>>
  BY DEF ledger
<1>1. LedgerIsExact'
  BY <1>0, SameLedger DEF LedgerIsExact, Active
<1>2. \A w \in queue : queue' = queue => UpTo(queue, w)' = UpTo(queue, w)
  BY <1>0 DEF UpTo, Precedes
<1>3. MemoryFits'
  BY <1>0, <1>2 DEF MemoryFits, HasBin
<1>. QED BY <1>1, <1>3

-----------------------------------------------------------------------------
(* Every entry with a stale value will be valued again.                    *)

(* A record is a record.                                                   *)
LEMMA RecordAt ==
  ASSUME TypeOK
  PROVE  \A r \in 1 .. Len(riv) : riv[r] \in Record
BY DEF TypeOK

(* A repost goes on from its own time or later.                            *)
LEMMA FromAfterTime ==
  ASSUME Shape, NEW r \in 1 .. Len(riv)
  PROVE  /\ riv[r].time \in Nat /\ From(r) \in Nat /\ From(r) >= riv[r].time
         /\ \A t \in Nat : From(r) <= t => riv[r].time <= t
<1>1. riv[r] \in Record /\ (riv[r].file # 0 => riv[r].file >= riv[r].time)
  BY RecordAt DEF Shape, RecordsFit
<1>2. riv[r].time \in Nat /\ From(r) \in Nat /\ From(r) >= riv[r].time
  BY <1>1 DEF From, Record
<1>. QED BY <1>2

(* What a repost still comes to, it comes to later too, and what it has    *)
(* passed it has passed earlier ...                                        *)
LEMMA StillMonotone ==
  ASSUME TypeOK, NEW r \in 1 .. Len(riv), NEW t \in Nat, NEW u \in Nat, t <= u
  PROVE  (StillTo(r, t) => StillTo(r, u)) /\ (Passed(r, u) => Passed(r, t))
<1>1. riv[r] \in Record
  BY DEF TypeOK
<1>2. From(r) \in Nat
  BY <1>1 DEF Record, From
<1>. QED BY <1>2 DEF StillTo, Passed

(* ... and so does any of them.                                            *)
LEMMA CoveredMonotone ==
  ASSUME TypeOK, NEW t \in Nat, NEW u \in Nat, t <= u
  PROVE  /\ Covered(t) => Covered(u)
         /\ CoveredByOther(t) => CoveredByOther(u)
<1>1. \A q \in 1 .. Len(riv) : Covers(q, t) => Covers(q, u)
  BY StillMonotone DEF Covers
<1>. QED BY <1>1 DEF Covered, CoveredByOther

(* An entry that the job has passed is covered by another record, whatever *)
(* becomes of the job's.                                                   *)
LEMMA CoveredParts ==
  ASSUME NEW t
  PROVE  /\ CoveredByOther(t) => Covered(t)
         /\ Covered(t) /\ cur \in 1 .. Len(riv) /\ Passed(cur, t) /\ ~StillTo(cur, t) =>
              CoveredByOther(t)
BY DEF Covered, CoveredByOther, Covers

(* A record covers what it did if what it says and what was asked for      *)
(* after it are as they were, or go further back.                          *)
LEMMA CoversKept ==
  ASSUME NEW t, NEW q \in 1 .. Len(riv), Covers(q, t), q \in 1 .. Len(riv'), StillTo(q, t)',
         \A r \in 1 .. Len(riv') : Newer(r, q)' /\ Passed(r, t)' =>
                                    r \in 1 .. Len(riv) /\ Newer(r, q) /\ Passed(r, t)
  PROVE  Covers(q, t)'
BY DEF Covers

(* The other records are as they were, and the job's has not become        *)
(* another.                                                                *)
LEMMA OtherRecords ==
  ASSUME Len(riv') = Len(riv), \A q \in 1 .. Len(riv) : q # cur => riv'[q] = riv[q],
         riv'[cur].time = riv[cur].time, riv'[cur].of = riv[cur].of, NEW t
  PROVE  CoveredByOther(t) => Covered(t)' /\ (cur' = cur => CoveredByOther(t)')
<1>1. ASSUME NEW q \in 1 .. Len(riv), q # cur, Covers(q, t), ~Newer(cur, q)
      PROVE  Covers(q, t)' /\ (cur' = cur => ~Newer(cur, q)')
  <2>1. riv'[q] = riv[q] /\ q \in 1 .. Len(riv')
    BY <1>1
  <2>2. StillTo(q, t)'
    BY <1>1, <2>1 DEF Covers, StillTo, From
  <2>3. \A r \in 1 .. Len(riv) : Newer(r, q)' <=> Newer(r, q)
    BY <2>1 DEF Newer
  <2>4. \A r \in 1 .. Len(riv) : r # cur => (Passed(r, t)' <=> Passed(r, t))
    BY DEF Passed, From
  <2>5. Covers(q, t)'
    BY <1>1, <2>1, <2>2, <2>3, <2>4, CoversKept
  <2>6. cur' = cur => ~Newer(cur, q)'
    BY <1>1, <2>1 DEF Newer
  <2>. QED BY <2>5, <2>6
<1>. QED BY <1>1 DEF Covered, CoveredByOther

(* If the job's record goes on from t or earlier, all is covered that was. *)
LEMMA CurGoesBack ==
  ASSUME Len(riv') = Len(riv), cur \in 1 .. Len(riv),
         \A q \in 1 .. Len(riv) : q # cur => riv'[q] = riv[q],
         riv'[cur].time = riv[cur].time, riv'[cur].of = riv[cur].of,
         riv'[cur].status # "Skipped", ~riv'[cur].posted, NEW t, From(cur)' <= t,
         ~(From(cur)' > t), cur' = cur
  PROVE  Covered(t) => Covered(t)'
<1>1. ASSUME NEW q \in 1 .. Len(riv), Covers(q, t)  PROVE Covers(q, t)'
  <2>1. StillTo(cur, t)' /\ ~Passed(cur, t)'
    BY DEF StillTo, Passed
  <2>2. \A r \in 1 .. Len(riv) : r # cur => /\ StillTo(r, t)' <=> StillTo(r, t)
                                            /\ Passed(r, t)' <=> Passed(r, t)
    BY DEF StillTo, Passed, From
  <2>3. \A r \in 1 .. Len(riv) : Newer(r, q)' <=> Newer(r, q)
    BY DEF Newer
  <2>4. StillTo(q, t)'
    BY <1>1, <2>1, <2>2 DEF Covers
  <2>. QED BY <1>1, <2>1, <2>2, <2>3, <2>4, CoversKept
<1>. QED BY <1>1 DEF Covered

(* Unless it is skipped, the status of a record does not matter.           *)
LEMMA StatusCovers ==
  ASSUME NEW r \in 1 .. Len(riv), riv[r].status # "Skipped", riv'[r].status # "Skipped",
         Len(riv') = Len(riv), \A q \in 1 .. Len(riv) : q # r => riv'[q] = riv[q],
         riv'[r].time = riv[r].time, riv'[r].of = riv[r].of,
         riv'[r].posted <=> riv[r].posted, riv'[r].file = riv[r].file, NEW t
  PROVE  /\ Covered(t) => Covered(t)'
         /\ cur' = cur /\ cur \in 1 .. Len(riv) => (CoveredByOther(t) => CoveredByOther(t)')
<1>1. \A q \in 1 .. Len(riv) : /\ StillTo(q, t)' <=> StillTo(q, t)
                               /\ Passed(q, t)' <=> Passed(q, t)
  BY DEF StillTo, Passed, From
<1>2. \A q, p \in 1 .. Len(riv) : Newer(q, p)' <=> Newer(q, p)
  BY DEF Newer
<1>3. \A q \in 1 .. Len(riv) : Covers(q, t) => Covers(q, t)'
  BY <1>1, <1>2 DEF Covers
<1>4. cur' = cur /\ cur \in 1 .. Len(riv) =>
        \A q \in 1 .. Len(riv) : Newer(cur, q)' => Newer(cur, q)
  BY <1>2 DEF Newer
<1>. QED BY <1>3, <1>4 DEF Covered, CoveredByOther

(* What a transaction appends covers what is at or after its time ...      *)
LEMMA NewRecordCovers ==
  ASSUME Len(riv) \in Nat, cur \in 0 .. Len(riv), cur' = cur, NEW t \in Nat,
         NEW x \in Record, x.status = "Queued", x.file = 0, ~x.posted, x.time <= t,
         Len(riv') = Len(riv) + 1, riv'[Len(riv) + 1] = x
  PROVE  CoveredByOther(t)'
<1>1. PICK n \in 1 .. Len(riv') : n = Len(riv) + 1
  OBVIOUS
<1>2. StillTo(n, t)'
  BY <1>1 DEF StillTo, From
<1>3. \A r \in 1 .. Len(riv') : ~(r > n)
  BY <1>1
<1>4. n # cur /\ ~(cur > n)
  BY <1>1
<1>. QED BY <1>2, <1>3, <1>4 DEF CoveredByOther, Covers, Newer

(* ... and takes nothing from the older records.                           *)
LEMMA AppendCovers ==
  ASSUME Len(riv) \in Nat, cur \in 0 .. Len(riv), cur' = cur, NEW t,
         Len(riv') \in Nat, Len(riv') >= Len(riv),
         \A r \in 1 .. Len(riv) : /\ riv'[r].time = riv[r].time /\ riv'[r].of = riv[r].of
                                  /\ riv'[r].posted = riv[r].posted /\ riv'[r].file = riv[r].file
                                  /\ StillTo(r, t) => StillTo(r, t)',
         NEW x \in Record, x.file = 0, ~x.posted, x.of # {} \/ (t \in Nat /\ Shape),
         \A r \in 1 .. Len(riv') : r \in 1 .. Len(riv) \/ riv'[r] = x
  PROVE  (Covered(t) => Covered(t)') /\ (CoveredByOther(t) => CoveredByOther(t)')
<1>1. ASSUME NEW q \in 1 .. Len(riv), Covers(q, t)
      PROVE  q \in 1 .. Len(riv') /\ Covers(q, t)' /\ (Newer(cur, q)' => Newer(cur, q))
  <2>1. q \in 1 .. Len(riv') /\ StillTo(q, t)'
    BY <1>1 DEF Covers
  <2>2. \A r \in 1 .. Len(riv) : /\ Newer(r, q)' <=> Newer(r, q)
                                 /\ Passed(r, t)' <=> Passed(r, t)
    BY DEF Newer, Passed, From
  <2>3. ASSUME NEW r \in 1 .. Len(riv'), r \notin 1 .. Len(riv), Newer(r, q)', Passed(r, t)'
        PROVE  FALSE
    <3>1. riv'[r] = x
      BY <2>3
    <3>2. x.time \in Nat
      BY DEF Record
    <3>3. x.of = {} /\ x.time <= riv[q].time /\ x.time > t
      BY <1>1, <2>3, <3>1 DEF Newer, Passed, From
    <3>4. riv[q].time \in Nat /\ From(q) \in Nat /\ From(q) >= riv[q].time /\ From(q) <= t
      BY <1>1, <3>3, FromAfterTime DEF Covers, StillTo
    <3>. QED BY <3>2, <3>3, <3>4
  <2>4. Covers(q, t)'
    BY <1>1, <2>1, <2>2, <2>3, CoversKept
  <2>5. Newer(cur, q)' => Newer(cur, q)
    BY <2>2 DEF Newer
  <2>. QED BY <2>1, <2>4, <2>5
<1>. QED BY <1>1 DEF Covered, CoveredByOther

(* A transaction's new record covers what is at or after its time, and no  *)
(* older one is made up for by it; what was covered still is.              *)
LEMMA SubmitCovers ==
  ASSUME Shape, NEW v \in Voucher, Submit(v), NEW t \in Nat
  PROVE  /\ Covered(t) => Covered(t)'
         /\ CoveredByOther(t) => CoveredByOther(t)'
         /\ FutureExists(Active, Time[v]) /\ Time[v] <= t => Covered(t)' /\ CoveredByOther(t)'
<1>0. riv \in Seq(Record) /\ Len(riv) \in Nat /\ cur \in 0 .. Len(riv) /\ cur' = cur
      /\ riv' = IF FutureExists(Active, Time[v]) THEN Append(riv, VoucherRepost(v)) ELSE riv
  BY DEF Shape, TypeOK, Submit, VoucherRepost
<1>1. /\ Len(riv') >= Len(riv) /\ Len(riv') \in Nat
      /\ \A r \in 1 .. Len(riv) : riv'[r] = riv[r]
      /\ \A r \in 1 .. Len(riv') : r \in 1 .. Len(riv) \/ riv'[r] = VoucherRepost(v)
      /\ FutureExists(Active, Time[v]) =>
           Len(riv') = Len(riv) + 1 /\ riv'[Len(riv) + 1] = VoucherRepost(v)
  BY <1>0
<1>2. ASSUME FutureExists(Active, Time[v]), Time[v] <= t
      PROVE  CoveredByOther(t)'
  BY <1>0, <1>1, <1>2, VoucherRecord, NewRecordCovers
<1>3. (Covered(t) => Covered(t)') /\ (CoveredByOther(t) => CoveredByOther(t)')
  <2>1. \A r \in 1 .. Len(riv) : StillTo(r, t) => StillTo(r, t)'
    BY <1>1 DEF StillTo, From
  <2>2. VoucherRepost(v).of # {}
    BY VoucherRecord
  <2>. QED BY <1>0, <1>1, <2>1, <2>2, VoucherRecord, AppendCovers
<1>4. CoveredByOther(t)' => Covered(t)'
  BY DEF CoveredByOther, Covered
<1>. QED BY <1>2, <1>3, <1>4

(* The same of a cancellation: a queued repost of the voucher is skipped,  *)
(* and the new one starts where it did.                                    *)
LEMMA CancelCovers ==
  ASSUME Shape, NEW v \in Voucher, Cancel(v), NEW t \in Nat
  PROVE  /\ Covered(t) => Covered(t)'
         /\ CoveredByOther(t) => CoveredByOther(t)'
         /\ Time[v] <= t => Covered(t)' /\ CoveredByOther(t)'
<1>0. riv \in Seq(Record) /\ Len(riv) \in Nat /\ cur \in 0 .. Len(riv) /\ cur' = cur
  <2>1. cur' = cur
    BY DEF Cancel
  <2>. QED BY <2>1 DEF Shape, TypeOK
<1>1. /\ Len(riv') = Len(riv) + 1 /\ riv'[Len(riv) + 1] = VoucherRepost(v)
      /\ \A r \in 1 .. Len(riv') : r \in 1 .. Len(riv) \/ riv'[r] = VoucherRepost(v)
  BY <1>0, CancelRecords
<1>2. ASSUME Time[v] <= t  PROVE CoveredByOther(t)'
  BY <1>0, <1>1, <1>2, VoucherRecord, NewRecordCovers
<1>3. \A r \in 1 .. Len(riv) : /\ riv'[r].time = riv[r].time /\ riv'[r].of = riv[r].of
                               /\ riv'[r].posted = riv[r].posted /\ riv'[r].file = riv[r].file
  <2>1. \A r \in 1 .. Len(riv) : riv[r] \in Record
    BY <1>0
  <2>2. \A x \in Record : LET y == [x EXCEPT !.status = "Skipped"]
                          IN  /\ y.time = x.time /\ y.of = x.of
                              /\ y.posted = x.posted /\ y.file = x.file
    BY DEF Record
  <2>. QED BY <2>1, <2>2, CancelRecords
<1>4. ASSUME ~(Time[v] <= t), NEW q \in 1 .. Len(riv), StillTo(q, t)  PROVE riv'[q] = riv[q]
  <2>1. ASSUME riv[q].status = "Queued", v \in riv[q].of  PROVE FALSE
    <3>1. riv[q].time = Time[v]
      BY <2>1 DEF Shape, RecordsFit
    <3>2. From(q) \in Nat /\ riv[q].time \in Nat /\ From(q) >= riv[q].time /\ From(q) <= t
      BY <1>4, FromAfterTime DEF StillTo
    <3>3. \A a, b, c \in Nat : a >= b /\ a <= c => b <= c
      OBVIOUS
    <3>. QED BY <1>4, <3>1, <3>2, <3>3
  <2>. QED BY <2>1, CancelRecords
<1>5. ASSUME ~(Time[v] <= t)
      PROVE  (Covered(t) => Covered(t)') /\ (CoveredByOther(t) => CoveredByOther(t)')
  <2>1. ASSUME NEW q \in 1 .. Len(riv), StillTo(q, t)  PROVE StillTo(q, t)'
    <3>1. riv'[q] = riv[q]
      BY <1>4, <1>5, <2>1
    <3>. QED BY <2>1, <3>1 DEF StillTo, From
  <2>2. VoucherRepost(v).of # {}
    BY VoucherRecord
  <2>. QED BY <1>0, <1>1, <1>3, <2>1, <2>2, VoucherRecord, AppendCovers
<1>6. CoveredByOther(t)' => Covered(t)'
  BY DEF CoveredByOther, Covered
<1>. QED BY <1>2, <1>5, <1>6

(* What is known when nothing but reposts can explain a stale value.       *)
Kept == Shape /\ LedgerIsExact /\ MemoryFits /\ StaleIsCovered /\ JobCovers

(* After submitting, stale values are covered.                             *)
LEMMA SubmitStale ==
  ASSUME Kept, LedgerIsExact', NEW v \in Voucher, Submit(v)
  PROVE  StaleIsCovered' /\ JobCovers'
<1>. DEFINE before == {u \in Active : Time[u] <= Time[v]}
            prev   == Previous(before)
            more   == FutureExists(Active, Time[v])
<1>0. /\ causes' = causes /\ pc' = pc /\ queue' = queue /\ mem' = mem /\ cur' = cur /\ pc # "filed"
      /\ touched' = touched \cup {v, Bin} \cup {u \in Active : Time[u] > Time[v]}
  BY DEF Submit, Shifted, RowsAreFree
<1>1. SUFFICES ASSUME causes = {}  PROVE StaleIsCovered' /\ JobCovers'
  BY <1>0 DEF StaleIsCovered, JobCovers
<1>2. Shape /\ TypeOK /\ OrderFits /\ Active \subseteq Voucher /\ queue \subseteq Voucher
      /\ \A u \in Voucher : Time[u] \in Nat
  BY StockAssumption DEF Kept, Shape, TypeOK, Active
<1>3. /\ Active' = Active \cup {v} /\ v \notin Active
      /\ \A u \in Active' : bal'[u] = TrueBalance(u)'
      /\ \A u \in Active : bal[u] = TrueBalance(u)
      /\ basis' = [basis EXCEPT ![v] = prev.basis \cup {v}]
  BY <1>0, <1>1, <1>2, SubmitUpTo, SubmitRows DEF LedgerIsExact, Kept
<1>4. ASSUME NEW u \in Active, Time[u] <= Time[v], Exact(u)  PROVE Exact(u)'
  <2>1. UpTo(Active, u)' = UpTo(Active, u) /\ basis'[u] = basis[u]
    BY <1>2, <1>3, <1>4, SubmitUpTo DEF TypeOK
  <2>. QED BY <1>3, <1>4, <2>1 DEF Exact
<1>5. \/ Exact(v)'
      \/ \E p \in before : ~Exact(p)
  <2>1. UpTo(Active, v)' = before \cup {v} /\ basis'[v] = prev.basis \cup {v}
    BY <1>2, <1>3, SubmitUpTo DEF TypeOK
  <2>2. CASE before = {}
    BY <1>3, <2>1, <2>2 DEF Previous, Nothing, Exact
  <2>3. CASE before # {}
    <3>1. LastOf(before) \in before /\ UpTo(Active, LastOf(before)) = before
      <4>1. \A s \in before, u \in Active : Precedes(u, s) => u \in before
        BY <1>2 DEF Precedes
      <4>. QED BY <1>2, <2>3, <4>1, ClosedUpTo
    <3>2. Exact(LastOf(before)) => prev.basis = before
      BY <2>3, <3>1 DEF Exact, Previous
    <3>3. Exact(LastOf(before)) => Exact(v)'
      BY <1>3, <2>1, <3>2 DEF Exact
    <3>. QED BY <3>1, <3>3
  <2>. QED BY <2>2, <2>3
<1>6. \A u \in Active : ~(Time[u] < Time[v]) => more
  BY <1>2 DEF FutureExists
<1>7. \A w \in queue \ touched : w \in Active
  BY <1>1, <1>2 DEF Kept, MemoryFits, Active
<1>8. \A w \in queue \ touched' : w \in queue \ touched /\ w \in Active /\ Time[w] <= Time[v]
  BY <1>0, <1>2, <1>7
<1>9. ASSUME NEW u \in Active, Lags(u)
      PROVE  /\ HasBin' /\ touched' # {}
             /\ Lags(u)'
  BY <1>0, <1>9 DEF Lags, HasBin
<1>10. StaleIsCovered'
  <2>1. \A u \in Active : Exact(u) \/ Covered(Time[u])
    BY <1>0, <1>1 DEF Kept, StaleIsCovered, AboutToCommit
  <2>2. ASSUME NEW u \in Active'  PROVE Exact(u)' \/ Covered(Time[u])'
    <3>1. CASE u = v
      <4>1. ASSUME NEW p \in before, ~Exact(p)  PROVE Covered(Time[v])'
        <5>1. Covered(Time[p]) /\ Time[p] <= Time[v] /\ p \in Voucher
          BY <1>2, <2>1, <4>1
        <5>2. Covered(Time[v])
          BY <1>2, <5>1, CoveredMonotone
        <5>. QED BY <1>2, <5>2, SubmitCovers
      <4>. QED BY <1>5, <3>1, <4>1
    <3>2. CASE u \in Active /\ Time[u] < Time[v]
      <4>1. Exact(u) => Exact(u)'
        BY <1>2, <1>4, <3>2
      <4>. QED BY <1>2, <2>1, <3>2, <4>1, SubmitCovers
    <3>3. CASE u \in Active /\ ~(Time[u] < Time[v])
      BY <1>2, <1>6, <3>3, SubmitCovers
    <3>. QED BY <1>3, <3>1, <3>2, <3>3
  <2>. QED BY <2>2 DEF StaleIsCovered
<1>11. ASSUME NEW w \in queue' \ touched'
       PROVE  mem'.basis \cup UpTo(queue, w)' = UpTo(Active, w)' \/ CoveredByOther(Time[w])'
  <2>1. mem.basis \cup UpTo(queue, w) = UpTo(Active, w) \/ CoveredByOther(Time[w])
    BY <1>0, <1>1, <1>8, <1>11 DEF Kept, JobCovers
  <2>2. UpTo(queue, w)' = UpTo(queue, w) /\ UpTo(Active, w)' = UpTo(Active, w)
    BY <1>0, <1>2, <1>8, <1>11, SubmitUpTo
  <2>3. CoveredByOther(Time[w]) => CoveredByOther(Time[w])'
    BY <1>0, <1>2, <1>11, SubmitCovers
  <2>. QED BY <1>0, <2>1, <2>2, <2>3
<1>12. ASSUME pc \in Processing, NEW u \in Active'
       PROVE  Exact(u)' \/ CoveredByOther(Time[u])' \/ Lags(u)'
  <2>1. \A q \in Active : Exact(q) \/ CoveredByOther(Time[q]) \/ Lags(q)
    BY <1>1, <1>12 DEF Kept, JobCovers
  <2>2. CASE u = v
    <3>1. CASE more
      BY <1>2, <2>2, <3>1, SubmitCovers
    <3>2. ASSUME ~more, NEW p \in before, ~Exact(p)
          PROVE  CoveredByOther(Time[v])' \/ Lags(v)'
      <4>1. CASE CoveredByOther(Time[p])
        <5>1. CoveredByOther(Time[v])
          BY <1>2, <4>1, CoveredMonotone
        <5>. QED BY <1>2, <5>1, SubmitCovers
      <4>2. CASE Lags(p)
        <5>1. HasBin' /\ touched' # {}
          BY <1>9, <4>2
        <5>2. \A w \in queue' \ touched' : Time[w] <= Time[v]
          BY <1>0, <1>8
        <5>. QED BY <5>1, <5>2 DEF Lags
      <4>. QED BY <2>1, <3>2, <4>1, <4>2
    <3>. QED BY <1>5, <2>2, <3>1, <3>2
  <2>3. CASE u \in Active /\ Time[u] < Time[v]
    <3>1. Exact(u) => Exact(u)'
      BY <1>2, <1>4, <2>3
    <3>. QED BY <1>2, <1>9, <2>1, <2>3, <3>1, SubmitCovers
  <2>4. CASE u \in Active /\ ~(Time[u] < Time[v])
    BY <1>2, <1>6, <2>4, SubmitCovers
  <2>. QED BY <1>3, <2>2, <2>3, <2>4
<1>13. ASSUME pc = "posted", NEW u \in Active'  PROVE Exact(u)' \/ CoveredByOther(Time[u])'
  <2>1. \A q \in Active : Exact(q) \/ CoveredByOther(Time[q])
    BY <1>1, <1>13 DEF Kept, JobCovers
  <2>2. CASE u = v
    <3>1. CASE more
      BY <1>2, <2>2, <3>1, SubmitCovers
    <3>2. ASSUME NEW p \in before, ~Exact(p)  PROVE CoveredByOther(Time[v])'
      <4>1. CoveredByOther(Time[p])
        BY <2>1, <3>2
      <4>2. CoveredByOther(Time[v])
        BY <1>2, <4>1, CoveredMonotone
      <4>. QED BY <1>2, <4>2, SubmitCovers
    <3>. QED BY <1>5, <2>2, <3>1, <3>2
  <2>3. CASE u \in Active /\ Time[u] < Time[v]
    <3>1. Exact(u) => Exact(u)'
      BY <1>2, <1>4, <2>3
    <3>. QED BY <1>2, <2>1, <2>3, <3>1, SubmitCovers
  <2>4. CASE u \in Active /\ ~(Time[u] < Time[v])
    BY <1>2, <1>6, <2>4, SubmitCovers
  <2>. QED BY <1>3, <2>2, <2>3, <2>4
<1>14. JobCovers'
  BY <1>0, <1>11, <1>12, <1>13 DEF JobCovers
<1>. QED BY <1>10, <1>14

(* After cancelling, stale values are covered.                             *)
LEMMA CancelStale ==
  ASSUME Kept, LedgerIsExact', NEW v \in Voucher, Cancel(v)
  PROVE  StaleIsCovered' /\ JobCovers'
<1>. DEFINE rest == Active \ {v}
            same == {u \in rest : Time[u] = Time[v]}
<1>0. /\ causes' = causes /\ pc' = pc /\ queue' = queue /\ mem' = mem /\ cur' = cur /\ pc # "filed"
      /\ touched' = touched \cup {v, Bin} \cup same \cup {u \in rest : Time[u] > Time[v]}
  BY DEF Cancel, Shifted, RowsAreFree
<1>1. SUFFICES ASSUME causes = {}  PROVE StaleIsCovered' /\ JobCovers'
  BY <1>0 DEF StaleIsCovered, JobCovers
<1>2. Shape /\ TypeOK /\ OrderFits /\ Active \subseteq Voucher /\ queue \subseteq Voucher
      /\ \A u \in Voucher : Time[u] \in Nat
  BY StockAssumption DEF Kept, Shape, TypeOK, Active
<1>3. Active' = rest /\ \A u \in Active' : bal'[u] = TrueBalance(u)'
  BY <1>0, <1>1, <1>2, CancelUpTo DEF LedgerIsExact
<1>4. ASSUME NEW u \in rest, Time[u] < Time[v], Exact(u)  PROVE Exact(u)'
  <2>1. UpTo(Active, u)' = UpTo(Active, u)
    BY <1>2, <1>4, CancelUpTo
  <2>2. basis'[u] = basis[u]
    <3>1. u \in Voucher \ same
      BY <1>2, <1>4
    <3>2. \A q \in Voucher \ same : basis'[q] = basis[q]
      BY <1>2, CancelRows
    <3>. QED BY <3>1, <3>2
  <2>. QED BY <1>3, <1>4, <2>1, <2>2 DEF Exact
<1>5. \A w \in queue \ touched' : /\ w \in queue \ touched /\ w \in rest /\ Time[w] < Time[v]
  <2>1. \A w \in queue \ touched : w \in Active
    BY <1>1, <1>2 DEF Kept, MemoryFits, Active
  <2>. QED BY <1>0, <1>2, <2>1
<1>6. ASSUME NEW u \in Active, Lags(u)  PROVE Lags(u)'
  BY <1>0, <1>6 DEF Lags, HasBin
<1>7. StaleIsCovered'
  <2>1. \A u \in Active : Exact(u) \/ Covered(Time[u])
    BY <1>0, <1>1 DEF Kept, StaleIsCovered, AboutToCommit
  <2>2. ASSUME NEW u \in Active'  PROVE Exact(u)' \/ Covered(Time[u])'
    <3>1. CASE Time[u] < Time[v]
      BY <1>2, <1>3, <1>4, <2>1, <3>1, CancelCovers
    <3>2. CASE ~(Time[u] < Time[v])
      BY <1>2, <1>3, <3>2, CancelCovers
    <3>. QED BY <3>1, <3>2
  <2>. QED BY <2>2 DEF StaleIsCovered
<1>8. ASSUME NEW w \in queue' \ touched'
      PROVE  mem'.basis \cup UpTo(queue, w)' = UpTo(Active, w)' \/ CoveredByOther(Time[w])'
  <2>1. mem.basis \cup UpTo(queue, w) = UpTo(Active, w) \/ CoveredByOther(Time[w])
    BY <1>0, <1>1, <1>5, <1>8 DEF Kept, JobCovers
  <2>2. UpTo(queue, w)' = UpTo(queue, w) /\ UpTo(Active, w)' = UpTo(Active, w)
    BY <1>0, <1>2, <1>5, <1>8, CancelUpTo
  <2>3. CoveredByOther(Time[w]) => CoveredByOther(Time[w])'
    BY <1>0, <1>2, <1>8, CancelCovers
  <2>. QED BY <1>0, <2>1, <2>2, <2>3
<1>9. ASSUME pc \in Processing, NEW u \in Active'
      PROVE  Exact(u)' \/ CoveredByOther(Time[u])' \/ Lags(u)'
  <2>1. \A q \in Active : Exact(q) \/ CoveredByOther(Time[q]) \/ Lags(q)
    BY <1>1, <1>9 DEF Kept, JobCovers
  <2>2. CASE Time[u] < Time[v]
    BY <1>2, <1>3, <1>4, <1>6, <2>1, <2>2, CancelCovers
  <2>3. CASE ~(Time[u] < Time[v])
    BY <1>2, <1>3, <2>3, CancelCovers
  <2>. QED BY <2>2, <2>3
<1>10. ASSUME pc = "posted", NEW u \in Active'  PROVE Exact(u)' \/ CoveredByOther(Time[u])'
  <2>1. \A q \in Active : Exact(q) \/ CoveredByOther(Time[q])
    BY <1>1, <1>10 DEF Kept, JobCovers
  <2>2. CASE Time[u] < Time[v]
    BY <1>2, <1>3, <1>4, <2>1, <2>2, CancelCovers
  <2>3. CASE ~(Time[u] < Time[v])
    BY <1>2, <1>3, <2>3, CancelCovers
  <2>. QED BY <2>2, <2>3
<1>11. JobCovers'
  BY <1>0, <1>8, <1>9, <1>10 DEF JobCovers
<1>. QED BY <1>7, <1>11

(* What the job has still to come to is at or after the end of the chunk.  *)
LEMMA LagEnd ==
  ASSUME Shape, ~Conflict, NEW u \in Active, Lags(u), u \notin NextChunk
  PROVE  ChunkEnd \in Nat /\ ChunkEnd <= Time[u] /\ riv[cur].time <= Time[u]
<1>0. TypeOK /\ OrderFits /\ u \in Voucher /\ queue \subseteq Voucher
      /\ \A q \in Voucher : Time[q] \in Nat
  BY StockAssumption DEF Shape, TypeOK, Active
<1>1. ~IsLast
  <2>1. ASSUME IsLast  PROVE FALSE
    <3>1. u \notin queue
      BY <1>0, <2>1, LastChunk
    <3>2. touched # {} /\ HasBin
      BY <3>1 DEF Lags
    <3>3. Bin \in Written /\ Bin \in touched
      BY <2>1, <3>2 DEF Written, Shape, RecordsFit
    <3>. QED BY <3>3 DEF Conflict
  <2>. QED BY <2>1
<1>2. /\ ChunkEnd \in Nat /\ \A w \in queue \ NextChunk : ChunkEnd <= Time[w]
      /\ \A t \in Nat : (\A w \in NextChunk : Time[w] <= t) => ChunkEnd <= t
      /\ NextChunk # {} /\ NextChunk \subseteq queue /\ NextChunk \cap touched = {}
  BY <1>0, <1>1, ChunkEndFits, ChunkFits DEF Conflict, Written
<1>3. \A w \in queue : Time[w] >= riv[cur].time
  BY DEF Shape, RecordsFit
<1>4. CASE u \in queue
  BY <1>0, <1>2, <1>3, <1>4
<1>5. CASE \A w \in queue \ touched : Time[w] <= Time[u]
  <2>1. \A w \in NextChunk : Time[w] <= Time[u]
    BY <1>2, <1>5
  <2>2. PICK w \in NextChunk : TRUE
    BY <1>2
  <2>3. riv[cur].time \in Nat
    <3>1. queue # {} => cur # 0
      BY DEF Shape, TypeOK, RecordsFit, Processing
    <3>2. cur # 0 => riv[cur] \in Record
      BY <1>0 DEF TypeOK
    <3>. QED BY <1>2, <3>1, <3>2 DEF Record
  <2>. QED BY <1>0, <1>2, <1>3, <2>1, <2>2, <2>3
<1>. QED BY <1>4, <1>5 DEF Lags

(* When the file is written, the chunk is stale until it is committed.     *)
LEMMA WriteFileStale ==
  ASSUME Kept, WriteFile
  PROVE  StaleIsCovered' /\ JobCovers'
<1>0. /\ UNCHANGED <<creation, active, bal, basis, cur, queue, mem, touched, causes>>
      /\ pc \in Processing /\ pc # "filed" /\ ~Conflict /\ pc' = "filed"
  BY DEF WriteFile, ledger, Processing
<1>1. SUFFICES ASSUME causes = {}  PROVE StaleIsCovered' /\ JobCovers'
  BY <1>0 DEF StaleIsCovered, JobCovers
<1>2. Shape /\ TypeOK /\ cur \in 1 .. Len(riv) /\ riv[cur].status = "In Progress"
      /\ Active \subseteq Voucher /\ \A u \in Voucher : Time[u] \in Nat
  BY <1>0, StockAssumption DEF Kept, Shape, TypeOK, RecordsFit, Processing, Active
<1>3. /\ Len(riv') = Len(riv) /\ \A q \in 1 .. Len(riv) : q # cur => riv'[q] = riv[q]
      /\ riv'[cur].status = riv[cur].status /\ ~riv[cur].posted /\ ~riv'[cur].posted
      /\ riv'[cur].time = riv[cur].time /\ riv'[cur].of = riv[cur].of
      /\ riv'[cur].file \in {riv[cur].file, ChunkEnd}
  BY <1>2, WriteFileShape
<1>4. /\ Active' = Active /\ NextChunk' = NextChunk /\ (HasBin' <=> HasBin)
      /\ \A u \in Voucher : /\ UpTo(Active, u)' = UpTo(Active, u)
                            /\ UpTo(queue, u)' = UpTo(queue, u)
                            /\ Exact(u)' <=> Exact(u)
  BY <1>0, SameLedger, SameJob DEF UpTo, Precedes, Exact
<1>5. \A u \in Active : Exact(u) \/ Covered(Time[u])
  BY <1>0, <1>1 DEF Kept, StaleIsCovered, AboutToCommit
<1>6. \A u \in Active : Exact(u) \/ CoveredByOther(Time[u]) \/ Lags(u)
  BY <1>0, <1>1 DEF Kept, JobCovers
<1>7. ASSUME NEW t \in Nat, riv[cur].time <= t, ChunkEnd \in Nat, ChunkEnd <= t
      PROVE  Covered(t) => Covered(t)'
  <2>1. CASE riv'[cur].file = ChunkEnd
    <3>1. From(cur)' <= t /\ ~(From(cur)' > t)
      <4>1. riv[cur].time \in Nat
        BY <1>2, FromAfterTime
      <4>. QED BY <1>0, <1>3, <1>7, <2>1, <4>1 DEF From
    <3>. QED BY <1>0, <1>2, <1>3, <3>1, CurGoesBack
  <2>2. CASE riv'[cur].file = riv[cur].file
    <3>1. riv[cur].status # "Skipped" /\ riv'[cur].status # "Skipped"
      BY <1>2, <1>3
    <3>2. riv'[cur].posted <=> riv[cur].posted
      BY <1>3
    <3>. QED BY <1>2, <1>3, <2>2, <3>1, <3>2, StatusCovers
  <2>. QED BY <1>3, <2>1, <2>2
<1>8. ASSUME NEW u \in Active  PROVE Exact(u)' \/ Covered(Time[u])' \/ AboutToCommit(u)'
  <2>1. CASE Exact(u)
    BY <1>2, <1>4, <2>1
  <2>2. CASE CoveredByOther(Time[u])
    BY <1>3, <2>2, OtherRecords
  <2>3. CASE u \in NextChunk
    BY <1>0, <1>4, <2>3 DEF AboutToCommit
  <2>4. CASE ~Exact(u) /\ Lags(u) /\ u \notin NextChunk
    <3>1. ChunkEnd \in Nat /\ ChunkEnd <= Time[u] /\ riv[cur].time <= Time[u]
      BY <1>0, <1>2, <2>4, LagEnd
    <3>. QED BY <1>2, <1>5, <1>7, <2>4, <3>1
  <2>. QED BY <1>6, <2>1, <2>2, <2>3, <2>4
<1>9. StaleIsCovered'
  BY <1>4, <1>8 DEF StaleIsCovered
<1>10. \A t : CoveredByOther(t) => CoveredByOther(t)'
  BY <1>0, <1>3, OtherRecords
<1>11. ASSUME NEW w \in queue' \ touched'
       PROVE  mem'.basis \cup UpTo(queue, w)' = UpTo(Active, w)' \/ CoveredByOther(Time[w])'
  BY <1>0, <1>1, <1>2, <1>4, <1>10, <1>11 DEF Kept, JobCovers, TypeOK
<1>12. ASSUME NEW u \in Active'
       PROVE  Exact(u)' \/ CoveredByOther(Time[u])' \/ Lags(u)'
  <2>1. Lags(u) => Lags(u)'
    BY <1>0, <1>4 DEF Lags
  <2>. QED BY <1>2, <1>4, <1>6, <1>10, <1>12, <2>1
<1>13. ASSUME riv'[cur].file = 0, NEW u \in Active'  PROVE Exact(u)' \/ Covered(Time[u])'
  <2>1. CASE Exact(u) \/ CoveredByOther(Time[u])
    BY <1>2, <1>3, <1>4, <1>13, <2>1, OtherRecords
  <2>2. CASE ~Exact(u) /\ Lags(u)
    <3>1. Covered(Time[u]) /\ Time[u] \in Nat /\ riv[cur].time \in Nat
      BY <1>2, <1>4, <1>5, <1>13, <2>2, FromAfterTime
    <3>2. CASE riv[cur].file = 0
      <4>1. riv[cur].status # "Skipped" /\ riv'[cur].status # "Skipped"
        BY <1>2, <1>3
      <4>2. riv'[cur].posted <=> riv[cur].posted
        BY <1>3
      <4>3. riv'[cur].file = riv[cur].file
        BY <1>13, <3>2
      <4>. QED BY <1>2, <1>3, <3>1, <4>1, <4>2, <4>3, StatusCovers
    <3>3. CASE riv[cur].file # 0
      <4>1. ChunkEnd = 0
        BY <1>3, <1>13, <3>3
      <4>2. riv[cur].time <= Time[u]
        <5>1. CASE u \in NextChunk
          BY <1>2, <3>1, <5>1, ChunkEndType DEF Shape, RecordsFit
        <5>2. CASE u \notin NextChunk
          BY <1>0, <1>2, <1>4, <1>13, <2>2, <5>2, LagEnd
        <5>. QED BY <5>1, <5>2
      <4>. QED BY <1>7, <3>1, <4>1, <4>2
    <3>. QED BY <3>2, <3>3
  <2>. QED BY <1>4, <1>6, <1>13, <2>1, <2>2
<1>14. JobCovers'
  BY <1>0, <1>11, <1>12, <1>13 DEF JobCovers
<1>. QED BY <1>9, <1>14

(* A committed chunk is exact or covered by another record, and the rest   *)
(* by this one.                                                            *)
LEMMA CommitStale ==
  ASSUME Kept, LedgerIsExact', CommitChunk
  PROVE  StaleIsCovered' /\ JobCovers'
<1>. DEFINE S == NextChunk
<1>0. /\ UNCHANGED <<creation, cur, touched, causes>> /\ pc = "filed" /\ pc' = "between" /\ ~IsLast
      /\ WriteRows(S) /\ mem' = MemAfter(S) /\ queue' = queue \ S
  BY DEF CommitChunk
<1>1. SUFFICES ASSUME causes = {}  PROVE StaleIsCovered' /\ JobCovers'
  BY <1>0 DEF StaleIsCovered, JobCovers
<1>2. Shape /\ TypeOK /\ OrderFits /\ MemoryFits /\ pc \in Processing /\ ~Conflict
      /\ Active \subseteq Voucher /\ queue \subseteq Voucher /\ \A u \in Voucher : Time[u] \in Nat
  BY <1>0, StockAssumption DEF Kept, Shape, Active, TypeOK, Processing, RecordsFit
<1>3. cur \in 1 .. Len(riv) /\ riv[cur].status = "In Progress" /\ riv[cur].time \in Nat
  <2>1. cur \in 1 .. Len(riv) /\ riv[cur].status = "In Progress"
    BY <1>0, <1>2 DEF TypeOK, Shape, RecordsFit
  <2>. QED BY <1>2, <2>1, FromAfterTime
<1>4. /\ Len(riv') = Len(riv) /\ \A q \in 1 .. Len(riv) : q # cur => riv'[q] = riv[q]
      /\ riv'[cur].status = riv[cur].status /\ ~riv'[cur].posted
      /\ riv'[cur].time = riv[cur].time /\ riv'[cur].of = riv[cur].of
      /\ riv'[cur].file = ChunkEnd
  BY <1>2, CommitShape
<1>5. /\ S \in SUBSET queue /\ S # {} /\ S \cap touched = {}
      /\ \A u \in S, w \in queue \ S : Precedes(u, w)
  BY <1>0, <1>2, ChunkIsClean
<1>6. bal' = bal /\ active' = active
  BY <1>0, <1>1, <1>2, <1>5, WriteKeeps
<1>7. /\ Active' = Active
      /\ \A u \in Voucher : UpTo(Active, u)' = UpTo(Active, u)
      /\ \A u \in Active : bal'[u] = TrueBalance(u)'
  BY <1>0, <1>1, <1>6, SameLedger DEF LedgerIsExact
<1>8. /\ \A u \in S : basis'[u] = mem.basis \cup UpTo(queue, u)
      /\ \A u \in Voucher \ S : basis'[u] = basis[u]
  <2>1. \A u \in S : UpTo(queue, u) = UpTo(S, u)
    BY <1>2, <1>5, UpToSplit
  <2>. HIDE DEF S
  <2>. QED BY <1>0, <1>2, <1>5, <2>1, WrittenRows
<1>9. \A t : CoveredByOther(t) => Covered(t)' /\ CoveredByOther(t)'
  BY <1>0, <1>4, OtherRecords
<1>10. \A w \in queue \ touched : /\ w \in Active
                                  /\ mem.basis \cup UpTo(queue, w) = UpTo(Active, w) \/ CoveredByOther(Time[w])
  BY <1>1, <1>2 DEF Kept, MemoryFits, JobCovers, Active
<1>11. ASSUME NEW u \in S  PROVE Exact(u)' \/ CoveredByOther(Time[u])'
  BY <1>2, <1>5, <1>7, <1>8, <1>9, <1>10, <1>11 DEF Exact
<1>12. ASSUME NEW u \in Active \ S
       PROVE  Exact(u)' \/ CoveredByOther(Time[u]) \/ Lags(u)
  <2>1. Exact(u) \/ CoveredByOther(Time[u]) \/ Lags(u)
    BY <1>1, <1>2 DEF Kept, JobCovers
  <2>. QED BY <1>2, <1>7, <1>8, <2>1 DEF Exact
<1>13. ASSUME NEW u \in Active'  PROVE Exact(u)' \/ Covered(Time[u])'
  <2>1. CASE u \in S
    <3>1. CoveredByOther(Time[u])' => Covered(Time[u])'
      BY DEF CoveredByOther, Covered
    <3>. QED BY <1>11, <2>1, <3>1
  <2>2. CASE u \notin S /\ Lags(u) /\ ~Exact(u)
    <3>1. ChunkEnd \in Nat /\ ChunkEnd <= Time[u] /\ riv[cur].time <= Time[u]
      BY <1>2, <1>7, <1>13, <2>2, LagEnd
    <3>2. Covered(Time[u]) /\ Time[u] \in Nat
      BY <1>1, <1>2, <1>7, <1>13, <2>2 DEF Kept, StaleIsCovered, AboutToCommit
    <3>3. From(cur)' <= Time[u] /\ ~(From(cur)' > Time[u])
      <4>1. From(cur)' \in {ChunkEnd, riv[cur].time}
        <5>1. cur' = cur
          BY <1>0
        <5>. QED BY <1>4, <5>1 DEF From
      <4>2. \A f \in {ChunkEnd, riv[cur].time} : f <= Time[u] /\ ~(f > Time[u])
        <5>1. Time[u] \in Nat /\ riv[cur].time \in Nat
          BY <1>3, <3>2, Zenon
        <5>2. \A f \in Nat : f <= Time[u] => ~(f > Time[u])
          BY <5>1
        <5>. QED BY <3>1, <5>1, <5>2, Zenon
      <4>. QED BY <4>1, <4>2, Zenon
    <3>. QED BY <1>0, <1>3, <1>4, <3>2, <3>3, CurGoesBack
  <2>3. CASE u \notin S /\ Exact(u)
    BY <1>2, <1>7, <1>8, <1>13, <2>3 DEF Exact
  <2>4. CASE u \notin S /\ ~Lags(u)
    BY <1>7, <1>9, <1>12, <1>13, <2>4
  <2>. QED BY <2>1, <2>2, <2>3, <2>4
<1>14. StaleIsCovered'
  BY <1>13 DEF StaleIsCovered
<1>15. ASSUME NEW w \in queue' \ touched'
       PROVE  mem'.basis \cup UpTo(queue, w)' = UpTo(Active, w)' \/ CoveredByOther(Time[w])'
  <2>1. w \in queue \ touched /\ w \in queue \ S /\ w \in Voucher
    BY <1>0, <1>2, <1>15
  <2>2. UpTo(queue, w)' = UpTo(queue \ S, w)
    BY <1>0 DEF UpTo, Precedes
  <2>3. UpTo(queue, w) = S \cup UpTo(queue \ S, w)
    <3>. HIDE DEF S
    <3>1. \A x \in queue \ S : UpTo(queue, x) = S \cup UpTo(queue \ S, x)
      BY <1>2, <1>5, UpToSplit
    <3>. QED BY <2>1, <3>1
  <2>4. mem'.basis = mem.basis \cup S
    BY <1>0, <1>2, <1>5, MemAfterFits
  <2>. QED BY <1>7, <1>9, <1>10, <2>1, <2>2, <2>3, <2>4
<1>16. ASSUME NEW u \in Active'
       PROVE  Exact(u)' \/ CoveredByOther(Time[u])' \/ Lags(u)'
  <2>1. CASE u \in S
    BY <1>11, <2>1
  <2>2. CASE u \notin S
    <3>1. HasBin'
      BY <1>0, <1>2, <1>5, MemAfterFits DEF HasBin
    <3>2. Lags(u) => Lags(u)'
      BY <1>0, <2>2, <3>1 DEF Lags
    <3>. QED BY <1>7, <1>9, <1>12, <1>16, <2>2, <3>2
  <2>. QED BY <2>1, <2>2
<1>17. JobCovers'
  BY <1>0, <1>15, <1>16 DEF JobCovers
<1>. QED BY <1>14, <1>17

(* When the job has written the last entries, what is stale, others cover. *)
LEMMA FinishStale ==
  ASSUME Kept, LedgerIsExact', FinishEntries
  PROVE  StaleIsCovered' /\ JobCovers'
<1>0. /\ UNCHANGED <<creation, cur, touched, causes>> /\ pc \in Processing /\ pc' = "posted"
      /\ ~Conflict /\ IsLast /\ WriteRows(queue) /\ queue' = {}
  BY DEF FinishEntries, Processing, Kept, Shape, RecordsFit
<1>1. SUFFICES ASSUME causes = {}  PROVE StaleIsCovered' /\ JobCovers'
  BY <1>0 DEF StaleIsCovered, JobCovers
<1>2. Shape /\ TypeOK /\ OrderFits /\ MemoryFits
      /\ Active \subseteq Voucher /\ queue \subseteq Voucher
  BY DEF Kept, Shape, Active, TypeOK
<1>3. queue \cap touched = {} /\ (HasBin => touched = {})
  BY <1>0, <1>2 DEF Conflict, Written, Shape, RecordsFit
<1>4. bal' = bal /\ active' = active
  BY <1>0, <1>1, <1>2, <1>3, WriteKeeps
<1>5. /\ Active' = Active
      /\ \A u \in Voucher : UpTo(Active, u)' = UpTo(Active, u)
      /\ \A u \in Active : bal'[u] = TrueBalance(u)'
  BY <1>0, <1>1, <1>4, SameLedger DEF LedgerIsExact
<1>6. /\ \A u \in queue : basis'[u] = mem.basis \cup UpTo(queue, u)
      /\ \A u \in Voucher \ queue : basis'[u] = basis[u]
  BY <1>0, <1>2, WrittenRows
<1>7. \A t : CoveredByOther(t) => CoveredByOther(t)'
  BY <1>0, <1>2, FinishShape, OtherRecords
<1>8. \A w \in queue : /\ w \in Active
                       /\ mem.basis \cup UpTo(queue, w) = UpTo(Active, w) \/ CoveredByOther(Time[w])
  BY <1>1, <1>2, <1>3 DEF Kept, MemoryFits, JobCovers, Active
<1>9. ASSUME NEW u \in Active'  PROVE Exact(u)' \/ CoveredByOther(Time[u])'
  <2>1. CASE u \in queue
    BY <1>2, <1>5, <1>6, <1>7, <1>8, <2>1 DEF Exact
  <2>2. CASE u \notin queue
    <3>1. Exact(u) \/ CoveredByOther(Time[u]) \/ Lags(u)
      BY <1>0, <1>1, <1>5, <1>9 DEF Kept, JobCovers
    <3>2. ~Lags(u)
      BY <1>3, <2>2 DEF Lags
    <3>. QED BY <1>2, <1>5, <1>6, <1>7, <1>9, <2>2, <3>1, <3>2 DEF Exact
  <2>. QED BY <2>1, <2>2
<1>10. \A t : CoveredByOther(t)' => Covered(t)'
  BY DEF CoveredByOther, Covered
<1>11. StaleIsCovered'
  BY <1>9, <1>10 DEF StaleIsCovered
<1>12. JobCovers'
  BY <1>0, <1>9 DEF JobCovers, Processing
<1>. QED BY <1>11, <1>12

(* With the next index its record is over.                                 *)
LEMMA NextItemStale ==
  ASSUME Kept, NextItem
  PROVE  LedgerIsExact' /\ MemoryFits' /\ StaleIsCovered' /\ JobCovers'
<1>0. UNCHANGED <<ledger, cur, queue, mem, touched, causes>> /\ pc = "posted" /\ pc' = "gl"
  BY DEF NextItem
<1>1. queue' = {} /\ pc' \notin Processing /\ pc' # "posted"
  BY <1>0 DEF Kept, Shape, RecordsFit, Processing
<1>2. \A t : CoveredByOther(t) => Covered(t)'
  BY NextItemShape, OtherRecords DEF Kept
<1>3. causes = {} => \A u \in Active : Exact(u) \/ Covered(Time[u])'
  BY <1>0, <1>2 DEF Kept, JobCovers
<1>4. LedgerIsExact' /\ MemoryFits'
  BY <1>0, <1>1, QuietLedger DEF Kept
<1>5. StaleIsCovered'
  <2>1. Active' = Active /\ \A u \in Active : Exact(u)' <=> Exact(u)
    <3>1. UNCHANGED <<creation, active, bal, basis>>
      BY <1>0 DEF ledger
    <3>. QED BY <3>1, SameLedger DEF Exact, Active
  <2>. QED BY <1>0, <1>3, <2>1 DEF StaleIsCovered
<1>6. JobCovers'
  BY <1>0, <1>1 DEF JobCovers
<1>. QED BY <1>4, <1>5, <1>6

(* When the job takes its snapshot, its record covers all that is in it.   *)
LEMMA SnapshotStale ==
  ASSUME Kept, TakeSnapshot
  PROVE  StaleIsCovered' /\ JobCovers'
<1>. DEFINE rows == {v \in Active : Time[v] >= From(cur)}
            t0 == Min({Time[w] : w \in rows})
            earlier == {v \in Active : Time[v] < t0}
<1>0. /\ UNCHANGED <<doc, creation, active, bal, basis, bin, riv, cur, todo, faults, causes>>
      /\ pc = "begin" /\ touched' = {}
  BY DEF TakeSnapshot, ledger
<1>1. SUFFICES ASSUME causes = {}  PROVE StaleIsCovered' /\ JobCovers'
  BY <1>0 DEF StaleIsCovered, JobCovers
<1>2. TypeOK /\ OrderFits /\ queue = {} /\ cur \in 1 .. Len(riv) /\ riv[cur].status = "In Progress"
  BY <1>0 DEF Kept, Shape, TypeOK, RecordsFit, Processing
<1>3. Active \subseteq Voucher /\ Active \subseteq Posted /\ \A u \in Voucher : Time[u] \in Nat
  BY <1>2, StockAssumption DEF Active, OrderFits
<1>4. \A u \in Active : Exact(u) \/ Covered(Time[u])
  BY <1>0, <1>1 DEF Kept, StaleIsCovered, AboutToCommit
<1>5. /\ Active' = Active
      /\ \A u \in Voucher : UpTo(Active, u)' = UpTo(Active, u) /\ (Exact(u)' <=> Exact(u))
  BY <1>0, SameLedger DEF Exact
<1>6. \A t : /\ Covered(t) <=> Covered(t)'
             /\ CoveredByOther(t) <=> CoveredByOther(t)'
  BY <1>0 DEF Covered, CoveredByOther, Covers, StillTo, Passed, Newer, From
<1>7. StaleIsCovered'
  BY <1>3, <1>4, <1>5, <1>6 DEF StaleIsCovered
<1>8. CASE pc' = "gl" /\ queue' = queue
  BY <1>2, <1>7, <1>8 DEF JobCovers, Processing
<1>9. CASE /\ pc' = "snapshot" /\ queue' = rows
           /\ mem' = (IF rows = {} THEN Nothing ELSE Previous(earlier))
  <2>1. From(cur) \in Nat
    <3>1. riv[cur] \in Record
      BY <1>2, RecordAt
    <3>. QED BY <3>1 DEF From, Record
  <2>2. \A u \in Active \ rows : Exact(u) \/ CoveredByOther(Time[u])
    <3>1. \A u \in Active \ rows : ~StillTo(cur, Time[u]) /\ Passed(cur, Time[u])
      <4>1. \A u \in Active \ rows : Time[u] \in Nat /\ ~(Time[u] >= From(cur))
        BY <1>3
      <4>2. \A a, b \in Nat : ~(a >= b) => ~(b <= a) /\ b > a
        OBVIOUS
      <4>. HIDE DEF rows
      <4>. QED BY <2>1, <4>1, <4>2 DEF StillTo, Passed
    <3>. QED BY <1>2, <1>4, <3>1, CoveredParts
  <2>3. ASSUME NEW w \in rows
        PROVE  mem'.basis \cup UpTo(rows, w) = UpTo(Active, w) \/ CoveredByOther(Time[w])
    <3>1. (\E x \in rows : t0 = Time[x]) /\ \A x \in rows : t0 <= Time[x]
      <4>1. rows \in SUBSET Posted /\ rows # {}
        BY <1>3, <2>3
      <4>. HIDE DEF rows
      <4>. QED BY <1>2, <4>1, MinTime
    <3>. HIDE DEF t0
    <3>2. t0 \in Nat /\ earlier \in SUBSET Active /\ rows = Active \ earlier
      BY <1>3, <2>1, <3>1
    <3>3. \A u \in earlier, x \in Active \ earlier : Precedes(u, x)
      BY <1>3, <3>1, <3>2 DEF Precedes
    <3>4. UpTo(Active, w) = earlier \cup UpTo(rows, w)
      <4>1. Active \in SUBSET Voucher
        BY <1>3
      <4>. HIDE DEF earlier, rows
      <4>2. \A x \in Active \ earlier : UpTo(Active, x) = earlier \cup UpTo(Active \ earlier, x)
        BY <1>2, <3>2, <3>3, <4>1, UpToSplit
      <4>. QED BY <2>3, <3>2, <4>2
    <3>5. mem' = Previous(earlier)
      BY <1>9, <2>3
    <3>6. CASE earlier = {}
      BY <3>4, <3>5, <3>6 DEF Previous, Nothing
    <3>7. CASE earlier # {}
      <4>. DEFINE l == LastOf(earlier)
      <4>1. l \in earlier /\ UpTo(Active, l) = earlier
        <5>1. \A s \in earlier, u \in Active : Precedes(u, s) => u \in earlier
          BY <1>3, <3>2 DEF Precedes
        <5>. HIDE DEF earlier
        <5>. QED BY <1>2, <3>2, <3>7, <5>1, ClosedUpTo
      <4>2. mem'.basis = basis[l]
        BY <3>5, <3>7 DEF Previous
      <4>3. CASE Exact(l)
        BY <3>4, <4>1, <4>2, <4>3 DEF Exact
      <4>4. CASE CoveredByOther(Time[l])
        <5>1. l \in Voucher /\ w \in Voucher /\ Time[l] <= Time[w]
          BY <1>3, <2>3, <3>1, <3>2, <4>1
        <5>. QED BY <1>2, <1>3, <4>4, <5>1, CoveredMonotone
      <4>. QED BY <2>2, <3>2, <4>1, <4>3, <4>4
    <3>. QED BY <3>6, <3>7
  <2>4. ASSUME NEW w \in queue' \ touched'
        PROVE  mem'.basis \cup UpTo(queue, w)' = UpTo(Active, w)' \/ CoveredByOther(Time[w])'
    <3>1. UpTo(queue, w)' = UpTo(rows, w)
      BY <1>0, <1>9 DEF UpTo, Precedes
    <3>2. w \in rows /\ w \in Voucher
      BY <1>3, <1>9, <2>4
    <3>. QED BY <1>5, <1>6, <2>3, <3>1, <3>2
  <2>5. ASSUME NEW u \in Active'
        PROVE  Exact(u)' \/ CoveredByOther(Time[u])' \/ Lags(u)'
    <3>1. u \in rows => Lags(u)'
      BY <1>9 DEF Lags
    <3>. QED BY <1>3, <1>5, <1>6, <2>2, <2>5, <3>1
  <2>. QED BY <1>7, <1>9, <2>4, <2>5 DEF JobCovers
<1>10. \/ pc' = "gl" /\ queue' = queue
       \/ /\ pc' = "snapshot" /\ queue' = rows
          /\ mem' = (IF rows = {} THEN Nothing ELSE Previous(earlier))
  BY DEF TakeSnapshot
<1>. QED BY <1>8, <1>9, <1>10

(* The steps that write no entries: what covered an entry still does.      *)
LEMMA QuietStale ==
  ASSUME StaleIsCovered, JobCovers, UNCHANGED ledger, causes' = {} => causes = {},
         causes' = {} =>
           \A u \in Active : Covered(Time[u]) \/ AboutToCommit(u) =>
                               Covered(Time[u])' \/ AboutToCommit(u)',
         \/ pc' \notin Processing \cup {"posted"} /\ queue' = {}
         \/ /\ UNCHANGED <<queue, mem>> /\ (pc' \in Processing => pc \in Processing)
            /\ pc' = "posted" => pc = "posted"
            /\ pc' = "filed" => pc = "filed" /\ riv'[cur'].file = riv[cur].file
            /\ causes' = {} => touched' = touched
            /\ \A u \in Voucher : /\ Covered(Time[u]) => Covered(Time[u])'
                                  /\ CoveredByOther(Time[u]) => CoveredByOther(Time[u])'
  PROVE  TypeOK => StaleIsCovered' /\ JobCovers'
<1>0. UNCHANGED <<doc, creation, active, bal, basis, bin>>
  BY DEF ledger
<1>1. SUFFICES ASSUME TypeOK, causes' = {}  PROVE StaleIsCovered' /\ JobCovers'
  BY DEF StaleIsCovered, JobCovers
<1>2. /\ Active' = Active /\ Active \subseteq Voucher /\ queue \subseteq Voucher
      /\ \A u \in Voucher : UpTo(Active, u)' = UpTo(Active, u) /\ (Exact(u)' <=> Exact(u))
  BY <1>0, <1>1, SameLedger DEF Exact, Active, TypeOK
<1>3. StaleIsCovered'
  BY <1>1, <1>2 DEF StaleIsCovered
<1>4. CASE pc' \notin Processing \cup {"posted"} /\ queue' = {}
  BY <1>3, <1>4 DEF JobCovers, Processing
<1>5. CASE /\ UNCHANGED <<queue, mem, touched>> /\ (pc' \in Processing => pc \in Processing)
           /\ pc' = "posted" => pc = "posted"
           /\ pc' = "filed" => pc = "filed" /\ riv'[cur'].file = riv[cur].file
           /\ \A u \in Voucher : /\ Covered(Time[u]) => Covered(Time[u])'
                                 /\ CoveredByOther(Time[u]) => CoveredByOther(Time[u])'
  <2>1. \A w : /\ UpTo(queue, w)' = UpTo(queue, w)
               /\ UpTo(Active, w)' = UpTo(Active, w)
    BY <1>0, <1>2, <1>5 DEF UpTo, Precedes
  <2>2. \A u : Lags(u)' <=> Lags(u)
    BY <1>5 DEF Lags, HasBin
  <2>3. \A u \in Active : Exact(u)' <=> Exact(u)
    BY <1>2
  <2>4. ASSUME NEW w \in queue' \ touched'
        PROVE  mem'.basis \cup UpTo(queue, w)' = UpTo(Active, w)' \/ CoveredByOther(Time[w])'
    <3>1. w \in queue \ touched /\ w \in Voucher
      BY <1>2, <1>5, <2>4
    <3>2. mem.basis \cup UpTo(queue, w) = UpTo(Active, w) \/ CoveredByOther(Time[w])
      BY <1>1, <3>1 DEF JobCovers
    <3>3. CoveredByOther(Time[w]) => CoveredByOther(Time[w])'
      BY <1>5, <3>1
    <3>. QED BY <1>5, <2>1, <3>2, <3>3
  <2>5. ASSUME pc' \in Processing, NEW u \in Active'
        PROVE  Exact(u)' \/ CoveredByOther(Time[u])' \/ Lags(u)'
    BY <1>1, <1>2, <1>5, <2>2, <2>3, <2>5 DEF JobCovers
  <2>6. ASSUME pc' = "posted", NEW u \in Active'  PROVE Exact(u)' \/ CoveredByOther(Time[u])'
    BY <1>1, <1>2, <1>5, <2>3, <2>6 DEF JobCovers
  <2>7. ASSUME pc' = "filed", riv'[cur'].file = 0, NEW u \in Active'
        PROVE  Exact(u)' \/ Covered(Time[u])'
    <3>1. u \in Active /\ u \in Voucher /\ pc = "filed" /\ riv[cur].file = 0
      BY <1>2, <1>5, <2>7
    <3>2. Exact(u) \/ Covered(Time[u])
      BY <1>1, <3>1 DEF JobCovers
    <3>3. Covered(Time[u]) => Covered(Time[u])'
      BY <1>5, <3>1
    <3>. QED BY <2>3, <3>1, <3>2, <3>3
  <2>. QED BY <1>3, <2>4, <2>5, <2>6, <2>7 DEF JobCovers
<1>. QED BY <1>1, <1>4, <1>5

(* The same records, the same cover.                                       *)
LEMMA SameCovers ==
  ASSUME UNCHANGED riv
  PROVE  \A t : /\ Covered(t) => Covered(t)'
                /\ cur' = cur => (CoveredByOther(t) => CoveredByOther(t)')
<1>1. \A q, t : Covers(q, t)' <=> Covers(q, t)
  BY DEF Covers, StillTo, Passed, Newer, From
<1>2. \A q, r : Newer(q, r)' <=> Newer(q, r)
  BY DEF Newer
<1>. QED BY <1>1, <1>2 DEF Covered, CoveredByOther

(* The steps that begin with a record, or go on with it.                   *)
LEMMA ListStale ==
  ASSUME Kept, ListReposts
  PROVE  LedgerIsExact' /\ MemoryFits' /\ StaleIsCovered' /\ JobCovers'
<1>0. UNCHANGED <<ledger, riv, pc, cur, queue, mem, touched, causes>> /\ pc = "idle" /\ queue = {}
      /\ TypeOK
  BY DEF ListReposts, Kept, Shape, RecordsFit, Processing
<1>1. pc' \notin Processing \cup {"posted"} /\ queue' = {} /\ pc # "filed"
  BY <1>0 DEF Processing
<1>2. \A t : Covered(t) => Covered(t)'
  BY <1>0, SameCovers
<1>3. \A u : ~AboutToCommit(u)
  BY <1>1 DEF AboutToCommit
<1>. QED BY <1>0, <1>1, <1>2, <1>3, QuietLedger, QuietStale DEF Kept

(* A picked record covers what it covered.                                 *)
LEMMA PickStale ==
  ASSUME Kept, NEW r \in todo, PickRepost(r)
  PROVE  LedgerIsExact' /\ MemoryFits' /\ StaleIsCovered' /\ JobCovers'
<1>0. UNCHANGED <<ledger, queue, mem, touched, causes>> /\ pc = "idle" /\ queue = {}
      /\ r \in 1 .. Len(riv) /\ TypeOK
  BY DEF PickRepost, Kept, Shape, TypeOK, RecordsFit, Processing
<1>1. pc' \notin Processing \cup {"posted"} /\ queue' = {} /\ pc # "filed"
  BY <1>0 DEF Processing, PickRepost
<1>2. \A t : Covered(t) => Covered(t)'
  <2>1. CASE UNCHANGED riv
    BY <2>1, SameCovers
  <2>2. CASE Pending(r) /\ SetStatus(r, "In Progress")
    <3>1. "In Progress" \in Status /\ riv[r].status # "Skipped"
      BY <2>2 DEF Status, Pending
    <3>2. /\ Len(riv') = Len(riv) /\ \A q \in 1 .. Len(riv) : q # r => riv'[q] = riv[q]
          /\ riv'[r].status = "In Progress" /\ riv'[r].posted = riv[r].posted
          /\ riv'[r].file = riv[r].file /\ riv'[r].time = riv[r].time /\ riv'[r].of = riv[r].of
      BY <1>0, <2>2, <3>1, StatusShape DEF Kept
    <3>. QED BY <1>0, <3>1, <3>2, StatusCovers
  <2>. QED BY <2>1, <2>2 DEF PickRepost
<1>3. \A u : ~AboutToCommit(u)
  BY <1>1 DEF AboutToCommit
<1>. QED BY <1>0, <1>1, <1>2, <1>3, QuietLedger, QuietStale DEF Kept

(* Locking the rows changes none.                                          *)
LEMMA LockStale ==
  ASSUME Kept, LockRows
  PROVE  LedgerIsExact' /\ MemoryFits' /\ StaleIsCovered' /\ JobCovers'
<1>0. UNCHANGED <<ledger, riv, cur, queue, mem, touched, causes>> /\ pc = "snapshot" /\ pc' = "locked"
      /\ TypeOK
  BY DEF LockRows, Kept, Shape
<1>1. pc \in Processing
  BY <1>0 DEF Processing
<1>2. \A t : (Covered(t) => Covered(t)') /\ (CoveredByOther(t) => CoveredByOther(t)')
  BY <1>0, SameCovers
<1>3. \A u : ~AboutToCommit(u)
  BY <1>0 DEF AboutToCommit
<1>. QED BY <1>0, <1>1, <1>2, <1>3, QuietLedger, QuietStale DEF Kept

(* If nobody posted, the new snapshot is the old one.                      *)
LEMMA TransactionStale ==
  ASSUME Kept, NextTransaction
  PROVE  LedgerIsExact' /\ MemoryFits' /\ StaleIsCovered' /\ JobCovers'
<1>0. /\ UNCHANGED <<ledger, riv, cur, queue, mem>> /\ pc = "between" /\ pc' = "rows" /\ touched' = {}
      /\ causes' = IF touched = {} THEN causes ELSE causes \cup {"overlap"}
      /\ TypeOK
  BY DEF NextTransaction, Kept, Shape
<1>1. /\ pc \in Processing
      /\ "overlap" \notin causes' => "overlap" \notin causes /\ touched = {}
      /\ causes' = {} => causes = {} /\ touched = {}
  BY <1>0 DEF Processing
<1>2. \A t : (Covered(t) => Covered(t)') /\ (CoveredByOther(t) => CoveredByOther(t)')
  BY <1>0, SameCovers
<1>3. \A u : ~AboutToCommit(u)
  BY <1>0 DEF AboutToCommit
<1>. QED BY <1>0, <1>1, <1>2, <1>3, QuietLedger, QuietStale DEF Kept

(* A user's repost makes up only for records of its time or later, and it  *)
(* has passed nothing.                                                     *)
LEMMA RepostItemStale ==
  ASSUME Kept, NEW t \in Nat, RepostItem(t)
  PROVE  LedgerIsExact' /\ MemoryFits' /\ StaleIsCovered' /\ JobCovers'
<1>0. UNCHANGED <<ledger, creation, pc, cur, queue, mem, touched, causes>> /\ TypeOK
  BY DEF RepostItem, job, ledger, Kept, Shape
<1>1. /\ Len(riv) \in Nat /\ Len(riv') = Len(riv) + 1 /\ cur \in 0 .. Len(riv)
      /\ \A q \in 1 .. Len(riv) : riv'[q] = riv[q]
      /\ riv'[Len(riv) + 1] = NewRepost(t, {})
  BY <1>0, RepostItemShape DEF Kept, TypeOK
<1>2. \A r \in 1 .. Len(riv') : r \in 1 .. Len(riv) \/ riv'[r] = NewRepost(t, {})
  BY <1>1
<1>3. ASSUME NEW u \in Voucher
      PROVE  /\ Covered(Time[u]) => Covered(Time[u])'
             /\ CoveredByOther(Time[u]) => CoveredByOther(Time[u])'
  <2>1. Time[u] \in Nat /\ Shape
    BY StockAssumption DEF Kept
  <2>2. \A r \in 1 .. Len(riv) : StillTo(r, Time[u]) => StillTo(r, Time[u])'
    BY <1>1 DEF StillTo, From
  <2>3. /\ NewRepost(t, {}) \in Record /\ NewRepost(t, {}).file = 0 /\ ~NewRepost(t, {}).posted
    BY DEF NewRepost, Record, Status
  <2>. QED BY <1>0, <1>1, <1>2, <2>1, <2>2, <2>3, AppendCovers
<1>4. \A u : AboutToCommit(u) => AboutToCommit(u)'
  BY <1>0, SameJob DEF AboutToCommit
<1>5. pc' = "filed" => riv'[cur'].file = riv[cur].file
  BY <1>0, <1>1 DEF TypeOK
<1>6. \A u \in Active : u \in Voucher
  BY DEF Active
<1>. QED BY <1>0, <1>3, <1>4, <1>5, <1>6, QuietLedger, QuietStale DEF Kept

(* Whatever becomes of the job, its record covers what it did.             *)
LEMMA StopStale ==
  ASSUME Kept, pc # "idle", Forget, UNCHANGED ledger, causes' = {} => causes = {},
         "overlap" \notin causes' => "overlap" \notin causes,
         pc = "filed" /\ causes' = {} => riv[cur].file = 0, Len(riv') = Len(riv),
         \A q \in 1 .. Len(riv) : q # cur => riv'[q] = riv[q],
         riv'[cur].status # "Skipped", riv'[cur].posted = riv[cur].posted,
         riv'[cur].file = riv[cur].file, riv'[cur].time = riv[cur].time, riv'[cur].of = riv[cur].of
  PROVE  LedgerIsExact' /\ MemoryFits' /\ StaleIsCovered' /\ JobCovers'
<1>0. /\ pc' = "idle" /\ queue' = {} /\ pc' \notin Processing \cup {"posted"}
  BY DEF Forget, Processing
<1>1. /\ cur \in 1 .. Len(riv) /\ riv[cur].status # "Skipped" /\ TypeOK
  BY DEF Kept, Shape, TypeOK, RecordsFit
<1>2. \A t : Covered(t) => Covered(t)'
  BY <1>1, StatusCovers
<1>3. ASSUME causes' = {}, NEW u \in Active, ~Exact(u)  PROVE Covered(Time[u])'
  <2>1. CASE pc = "filed"
    BY <1>2, <1>3, <2>1 DEF Kept, JobCovers
  <2>2. CASE pc # "filed"
    BY <1>2, <1>3, <2>2 DEF Kept, StaleIsCovered, AboutToCommit
  <2>. QED BY <2>1, <2>2
<1>4. LedgerIsExact' /\ MemoryFits'
  BY <1>0, QuietLedger DEF Kept
<1>5. StaleIsCovered'
  <2>1. Active' = Active /\ \A u \in Active : Exact(u)' <=> Exact(u)
    <3>1. UNCHANGED <<creation, active, bal, basis>>
      BY DEF ledger
    <3>. QED BY <3>1, SameLedger DEF Exact, Active
  <2>. QED BY <1>3, <2>1 DEF StaleIsCovered
<1>6. JobCovers'
  BY <1>0 DEF JobCovers, Processing
<1>. QED BY <1>4, <1>5, <1>6

(* A repost that completes is over already;                                *)
LEMMA CompleteStale ==
  ASSUME Kept, Complete
  PROVE  LedgerIsExact' /\ MemoryFits' /\ StaleIsCovered' /\ JobCovers'
<1>0. UNCHANGED <<ledger, causes>> /\ pc = "gl" /\ SetStatus(cur, "Completed") /\ Forget
  BY DEF Complete
<1>1. cur \in 1 .. Len(riv) /\ "Completed" \in Status
  BY <1>0 DEF Kept, Shape, TypeOK, Status
<1>2. /\ Len(riv') = Len(riv) /\ \A q \in 1 .. Len(riv) : q # cur => riv'[q] = riv[q]
      /\ riv'[cur].status = "Completed" /\ riv'[cur].posted = riv[cur].posted
      /\ riv'[cur].file = riv[cur].file /\ riv'[cur].time = riv[cur].time
      /\ riv'[cur].of = riv[cur].of
  BY <1>0, <1>1, StatusShape DEF Kept
<1>. QED BY <1>0, <1>2, StopStale

(* one that fails goes on where the file says,                             *)
LEMMA FailStale ==
  ASSUME Kept, pc # "idle", NEW s \in ErrorStatus, Fail(s)
  PROVE  LedgerIsExact' /\ MemoryFits' /\ StaleIsCovered' /\ JobCovers'
<1>0. Forget /\ UNCHANGED ledger /\ causes' = Resumed /\ SetStatus(cur, s)
  BY DEF Fail
<1>1. cur \in 1 .. Len(riv) /\ s \in Status /\ s # "Skipped"
  BY DEF Kept, Shape, TypeOK, ErrorStatus, Status
<1>2. /\ causes' = {} => causes = {} /\ ~(pc = "filed" /\ riv[cur].file # 0)
      /\ "overlap" \notin causes' => "overlap" \notin causes
  BY <1>0 DEF Resumed
<1>3. /\ Len(riv') = Len(riv) /\ \A q \in 1 .. Len(riv) : q # cur => riv'[q] = riv[q]
      /\ riv'[cur].status = s /\ riv'[cur].posted = riv[cur].posted
      /\ riv'[cur].file = riv[cur].file /\ riv'[cur].time = riv[cur].time
      /\ riv'[cur].of = riv[cur].of
  BY <1>0, <1>1, StatusShape DEF Kept
<1>. QED BY <1>0, <1>1, <1>2, <1>3, StopStale

(* and so does one whose worker died.                                      *)
LEMMA CrashStale ==
  ASSUME Kept, Crash
  PROVE  LedgerIsExact' /\ MemoryFits' /\ StaleIsCovered' /\ JobCovers'
<1>0. pc # "idle" /\ Forget /\ UNCHANGED <<ledger, riv>> /\ causes' = Resumed
  BY DEF Crash
<1>1. riv[cur].status = "In Progress"
  BY <1>0 DEF Kept, Shape, TypeOK, RecordsFit
<1>2. /\ causes' = {} => causes = {} /\ ~(pc = "filed" /\ riv[cur].file # 0)
      /\ "overlap" \notin causes' => "overlap" \notin causes
  BY <1>0 DEF Resumed
<1>. QED BY <1>0, <1>1, <1>2, StopStale

(* A restarted record begins again, so what it made up for is open again.  *)
LEMMA RestartStale ==
  ASSUME Kept, NEW r \in 1 .. Len(riv), Restart(r)
  PROVE  LedgerIsExact' /\ MemoryFits' /\ StaleIsCovered' /\ JobCovers'
<1>0. UNCHANGED <<ledger, creation, pc, cur, queue, mem, touched, causes>> /\ riv[r].status = "Failed"
      /\ TypeOK
  BY DEF Restart, job, ledger, Kept, Shape
<1>1. /\ r # cur /\ Len(riv') = Len(riv)
      /\ riv'[r].time = riv[r].time /\ riv'[r].of = riv[r].of
      /\ riv'[r].status = "Queued" /\ riv'[r].file = 0 /\ ~riv'[r].posted
      /\ \A q \in 1 .. Len(riv) : q # r => riv'[q] = riv[q]
  BY RestartShape DEF Kept
<1>2. ASSUME NEW t \in Nat, NEW q \in 1 .. Len(riv)
      PROVE  (StillTo(q, t) => StillTo(q, t)') /\ (Passed(q, t)' => Passed(q, t))
  <2>1. CASE q # r
    BY <1>1, <2>1 DEF StillTo, Passed, From
  <2>2. CASE q = r
    <3>1. riv[q].time \in Nat /\ From(q) \in Nat /\ From(q) >= riv[q].time
      BY FromAfterTime DEF Kept
    <3>2. From(q)' = riv[q].time
      BY <1>1, <2>2 DEF From
    <3>. QED BY <1>1, <2>2, <3>1, <3>2 DEF StillTo, Passed
  <2>. QED BY <2>1, <2>2
<1>3. \A q, p \in 1 .. Len(riv) : Newer(q, p)' <=> Newer(q, p)
  BY <1>1 DEF Newer
<1>4. ASSUME NEW t \in Nat, NEW q \in 1 .. Len(riv), Covers(q, t)
      PROVE  Covers(q, t)' /\ (Newer(cur, q)' => Newer(cur, q))
  <2>1. Covers(q, t)'
    BY <1>1, <1>2, <1>3, <1>4 DEF Covers
  <2>2. Newer(cur, q)' => Newer(cur, q)
    <3>1. cur' = cur /\ cur \in 0 .. Len(riv) /\ Len(riv) \in Nat
      BY <1>0 DEF TypeOK
    <3>2. cur > q => cur \in 1 .. Len(riv)
      BY <3>1
    <3>. QED BY <1>3, <3>1, <3>2 DEF Newer
  <2>. QED BY <2>1, <2>2
<1>5. \A t \in Nat : (Covered(t) => Covered(t)') /\ (CoveredByOther(t) => CoveredByOther(t)')
  BY <1>0, <1>1, <1>4 DEF Covered, CoveredByOther
<1>6. \A u \in Voucher : Time[u] \in Nat /\ (u \in Active => u \in Voucher)
  BY StockAssumption
<1>7. \A u : AboutToCommit(u) => AboutToCommit(u)'
  BY <1>0, SameJob DEF AboutToCommit
<1>8. pc' = "filed" => riv'[cur'].file = riv[cur].file
  BY <1>0, <1>1 DEF TypeOK
<1>9. \A u \in Active : Time[u] \in Nat
  BY <1>6 DEF Active
<1>. QED BY <1>0, <1>5, <1>6, <1>7, <1>8, <1>9, QuietLedger, QuietStale DEF Kept

(* Nothing happens.                                                        *)
LEMMA StutterStale ==
  ASSUME Kept, UNCHANGED vars
  PROVE  LedgerIsExact' /\ MemoryFits' /\ StaleIsCovered' /\ JobCovers'
<1>0. UNCHANGED <<ledger, creation, riv, pc, cur, queue, mem, touched, causes>> /\ TypeOK
  BY DEF vars, job, ledger, Kept, Shape
<1>1. \A t : (Covered(t) => Covered(t)') /\ (CoveredByOther(t) => CoveredByOther(t)')
  BY <1>0, SameCovers
<1>2. \A u : AboutToCommit(u) => AboutToCommit(u)'
  BY <1>0, SameJob DEF AboutToCommit
<1>. QED BY <1>0, <1>1, <1>2, QuietLedger, QuietStale DEF Kept

(* Writing the file leaves the ledger alone.                               *)
LEMMA WriteFileLedger ==
  ASSUME Kept, WriteFile
  PROVE  LedgerIsExact' /\ MemoryFits'
<1>0. UNCHANGED <<ledger, queue, mem, touched, causes>> /\ pc \in Processing
  BY DEF WriteFile, Processing
<1>. QED BY <1>0, QuietLedger DEF Kept

-----------------------------------------------------------------------------
(* The invariant holds at first ...                                        *)
LEMMA InitKept ==
  ASSUME Init
  PROVE  IInv
<1>1. TypeOK
  BY DEF Init, TypeOK, Phases, Nothing
<1>2. Active = {} /\ Posted = {}
  BY DEF Init, Active, Posted
<1>3. OrderFits
  BY <1>2 DEF Init, OrderFits
<1>4. RecordsFit
  BY DEF Init, RecordsFit, Processing
<1>5. LedgerIsExact
  <2>1. SumQty(Active) = 0
    BY <1>2, SumEmpty
  <2>. QED BY <1>2, <2>1 DEF Init, LedgerIsExact
<1>6. MemoryFits
  BY DEF Init, MemoryFits, Processing
<1>7. StaleIsCovered /\ JobCovers
  BY <1>2 DEF Init, StaleIsCovered, JobCovers, Processing
<1>. QED BY <1>1, <1>3, <1>4, <1>5, <1>6, <1>7 DEF IInv

(* ... and every step keeps it.                                            *)
LEMMA StepKept ==
  ASSUME IInv, [Next]_vars
  PROVE  IInv'
<1>. DEFINE Goal == Shape' /\ LedgerIsExact' /\ MemoryFits' /\ StaleIsCovered' /\ JobCovers'
<1>0. Kept
  BY DEF IInv, Kept, Shape
<1>. SUFFICES Goal
  BY DEF IInv, Shape
<1>1. ASSUME NEW v \in Voucher, Submit(v)  PROVE Goal
  BY <1>0, <1>1, SubmitShape, SubmitLedger, SubmitStale DEF Kept
<1>2. ASSUME NEW v \in Voucher, Cancel(v)  PROVE Goal
  BY <1>0, <1>2, CancelShape, CancelLedger, CancelStale DEF Kept
<1>3. CASE ListReposts
  BY <1>0, <1>3, ListShape, ListStale DEF Kept
<1>4. ASSUME NEW r \in todo, PickRepost(r)  PROVE Goal
  BY <1>0, <1>4, PickShape, PickStale DEF Kept
<1>5. CASE TakeSnapshot
  BY <1>0, <1>5, SnapshotShape, SnapshotLedger, SnapshotStale DEF Kept
<1>6. CASE LockRows
  BY <1>0, <1>6, LockShape, LockStale DEF Kept
<1>7. CASE WriteFile
  BY <1>0, <1>7, WriteFileShape, WriteFileLedger, WriteFileStale DEF Kept
<1>8. CASE CommitChunk
  BY <1>0, <1>8, CommitShape, CommitLedger, CommitStale DEF Kept
<1>9. CASE NextTransaction
  BY <1>0, <1>9, TransactionShape, TransactionStale DEF Kept
<1>10. CASE FinishEntries
  BY <1>0, <1>10, FinishShape, FinishLedger, FinishStale DEF Kept
<1>11. CASE NextItem
  BY <1>0, <1>11, NextItemShape, NextItemStale DEF Kept
<1>12. CASE Complete
  BY <1>0, <1>12, CompleteShape, CompleteStale DEF Kept
<1>13. ASSUME NEW s \in ErrorStatus, Fail(s), pc # "idle", faults' \in Nat  PROVE Goal
  <2>1. s \in Status
    BY DEF ErrorStatus, Status
  <2>. QED BY <1>0, <1>13, <2>1, FailShape, FailStale DEF Kept
<1>14. faults \in Nat
  BY DEF IInv, TypeOK
<1>15. CASE Refuse
  <2>1. Fail("Failed") /\ pc # "idle" /\ faults' \in Nat /\ "Failed" \in ErrorStatus
    BY <1>14, <1>15 DEF Refuse, ErrorStatus
  <2>. HIDE DEF Goal
  <2>. QED BY <1>13, <2>1
<1>16. ASSUME NEW s \in ErrorStatus, FailOnConflict(s) \/ FailAnyhow(s)  PROVE Goal
  <2>1. Fail(s) /\ pc # "idle" /\ faults' \in Nat
    BY <1>14, <1>16 DEF FailOnConflict, FailAnyhow
  <2>. HIDE DEF Goal
  <2>. QED BY <1>13, <2>1
<1>17. CASE Crash
  BY <1>0, <1>17, CrashShape, CrashStale DEF Kept
<1>18. ASSUME NEW r \in 1 .. Len(riv), Restart(r)  PROVE Goal
  BY <1>0, <1>18, RestartShape, RestartStale DEF Kept
<1>19. ASSUME NEW v \in Voucher, RepostItem(Time[v])  PROVE Goal
  <2>1. Time[v] \in Nat
    BY StockAssumption
  <2>. QED BY <1>0, <1>19, <2>1, RepostItemShape, RepostItemStale DEF Kept
<1>20. CASE UNCHANGED vars
  BY <1>0, <1>20, StutterShape, StutterStale DEF Kept
<1>21. CASE Next
  <2>. HIDE DEF Goal
  <2>1. CASE Posting
    BY <1>1, <1>2, <2>1 DEF Posting
  <2>2. CASE Working
    BY <1>3, <1>4, <1>5, <1>6, <1>7, <1>8, <1>9, <1>10, <1>11, <1>12, <1>15, <1>16, <2>2
       DEF Working
  <2>. QED BY <1>16, <1>17, <1>18, <1>19, <1>21, <2>1, <2>2 DEF Next
<1>. QED BY <1>20, <1>21

(* The inductive invariant.                                                *)
THEOREM InvariantHolds == Spec => []IInv
<1>1. Init => IInv
  BY InitKept
<1>2. IInv /\ [Next]_vars => IInv'
  BY StepKept
<1>. QED BY <1>1, <1>2, PTL DEF Spec

(* Whatever is posted, cancelled and reposted, every variable of the       *)
(* ledger and of the job has its type.                                     *)
THEOREM TypeCorrect == Spec => []TypeOK
<1>1. IInv => TypeOK
  BY DEF IInv
<1>. QED BY <1>1, InvariantHolds, PTL

(* However vouchers are backdated and cancelled while reposts run, fail    *)
(* and are restarted, each entry's balance is the running total of the     *)
(* submitted vouchers and never negative, the entry of a cancelled one     *)
(* stays cancelled, and the Bin has the last balance, unless vouchers were *)
(* posted after the snapshot of a transaction of a repost and before the   *)
(* snapshot of its next one.                                               *)
THEOREM ExactLedger == Spec => []LedgerIsExact
<1>1. IInv => LedgerIsExact
  BY DEF IInv
<1>. QED BY <1>1, InvariantHolds, PTL

(* An entry whose value was computed from the wrong entries is covered by  *)
(* a record that is neither over nor made up for by a newer repost, or by  *)
(* the commit that is about to happen, unless one of the two races has     *)
(* happened.                                                               *)
THEOREM StaleCovered == Spec => []StaleIsCovered
<1>1. IInv => StaleIsCovered
  BY DEF IInv
<1>. QED BY <1>1, InvariantHolds, PTL
=============================================================================
