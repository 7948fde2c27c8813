---------------------------- MODULE SunoJobs_proofs ----------------------------
(***************************************************************************)
(* Proofs about SunoJobs, for any jobs, owners, caps and accounts: the     *)
(* counts of the gate and of the accounts are those of the workers, nobody *)
(* waits for a slot that is free, callback, row and refund of a job agree, *)
(* and Suno makes one song for it.  First what the gate does, as lemmas    *)
(* over its operators: the fold of its pump is unrolled with a least       *)
(* counterexample, and a gate that fits its holders and waiters still does *)
(* after each of its moves.  Then the invariant, one lemma for each action.*)
(***************************************************************************)
EXTENDS SunoJobs, FiniteSetTheorems, SequenceTheorems, WellFoundedInduction, TLAPS

-------------------------------------------------------------------------------
(* Induction on numbers, by a least counterexample. *)
LEMMA LeastNumber ==
  ASSUME NEW T, T \subseteq Nat, T # {}
  PROVE  \E n \in T : \A m \in T : n <= m
<1> DEFINE R == OpToRel(<, Nat)
<1>1. PICK n \in T : \A m \in T : ~(<<m, n>> \in R)
  <2>1. IsWellFoundedOn(R, Nat)
    BY NatLessThanWellFounded
  <2> HIDE DEF R
  <2> QED
    BY <2>1, WFMin
<1>2. \A m \in T : m < n => <<m, n>> \in R
  BY DEF OpToRel
<1> HIDE DEF R
<1>3. \A m \in T : ~(m < n)
  BY <1>1, <1>2
<1> QED
  BY <1>3

-------------------------------------------------------------------------------
(* What pump computes: the queue is gone through in the order of arrival.  A  *)
(* fold is a recursive function on the sets of positions, of which only the   *)
(* first n of them matter.                                                    *)
Admission(g, j) == IF CanStart(g, j) THEN StartIn(g, j) ELSE Enqueued(g, j)

Emptied(g) == [g EXCEPT !.waiting = << >>]

PumpsTo(f, g, U) ==
  f = [s \in SUBSET U |-> IF s = {} THEN Emptied(g)
                          ELSE Admission(f[s \ {Max(s)}], g.waiting[Max(s)])]

LEMMA PumpUnfold ==
  ASSUME NEW g
  PROVE  Pump(g) = (CHOOSE f : PumpsTo(f, g, DOMAIN g.waiting))[DOMAIN g.waiting]
BY DEF Pump, FoldLeft, MapThenFoldSet, PumpsTo, Emptied, Admission

Pumped(f, g, s) == IF s = {} THEN Emptied(g) ELSE Admission(f[s \ {Max(s)}], g.waiting[Max(s)])

LEMMA PumpsAt ==
  ASSUME NEW g, NEW U, NEW f, PumpsTo(f, g, U), NEW s \in SUBSET U
  PROVE  f[s] = Pumped(f, g, s)
<1> DEFINE e(h, t) == IF t = {} THEN Emptied(g) ELSE Admission(h[t \ {Max(t)}], g.waiting[Max(t)])
<1>1. f = [t \in SUBSET U |-> e(f, t)]
  BY DEF PumpsTo
<1> HIDE DEF e
<1>2. f[s] = e(f, s)
  BY <1>1
<1> QED
  BY <1>2 DEF e, Pumped

LEMMA LastPosition ==
  ASSUME NEW n \in Nat, NEW s \in SUBSET (1..n), n \in s
  PROVE  Max(s) = n
<1>1. n \in s /\ \A y \in s : n >= y
  OBVIOUS
<1>2. \E x \in s : \A y \in s : x >= y
  BY <1>1
<1>3. Max(s) \in s /\ \A y \in s : Max(s) >= y
  BY <1>2 DEF Max
<1> DEFINE x == Max(s)
<1> HIDE DEF x
<1>4. x \in s /\ \A y \in s : x >= y
  BY <1>3 DEF x
<1>5. x \in Int /\ n \in Int /\ x >= n /\ n >= x
  BY <1>1, <1>4
<1>6. x = n
  BY <1>5
<1> QED
  BY <1>6 DEF x

LEMMA PumpsExist ==
  ASSUME NEW g, NEW n \in Nat
  PROVE  \E f : PumpsTo(f, g, 1..n)
<1> DEFINE T == {k \in Nat : ~ \E f : PumpsTo(f, g, 1..k)}
<1> SUFFICES ASSUME T # {} PROVE FALSE
  OBVIOUS
<1>0. T \subseteq Nat
  OBVIOUS
<1> HIDE DEF T
<1>1. PICK k \in T : \A m \in T : k <= m
  BY <1>0, LeastNumber
<1>2. k \in Nat /\ ~ \E f : PumpsTo(f, g, 1..k)
  BY <1>1 DEF T
<1>3. CASE k = 0
  <2> DEFINE f == [s \in SUBSET (1..0) |-> Emptied(g)]
  <2>1. \A s \in SUBSET (1..0) : s = {}
    OBVIOUS
  <2>2. PumpsTo(f, g, 1..0)
    BY <2>1 DEF PumpsTo
  <2> QED
    BY <1>2, <1>3, <2>2
<1>4. CASE k # 0
  <2>1. k - 1 \in Nat /\ k - 1 \notin T
    BY <1>1, <1>2, <1>4
  <2>2. PICK h : PumpsTo(h, g, 1..(k-1))
    BY <2>1 DEF T
  <2> DEFINE W == 1..(k-1)
             e(s) == Admission(h[s \ {k}], g.waiting[k])
             f == [s \in SUBSET (1..k) |-> IF s \in SUBSET W THEN h[s] ELSE e(s)]
  <2>3. W \subseteq 1..k /\ \A s \in SUBSET (1..k) : s \notin SUBSET W => k \in s /\ s \ {k} \in SUBSET W
    BY <1>2, <2>1
  <2>4. \A s \in SUBSET W : s \ {Max(s)} \in SUBSET W
    OBVIOUS
  <2>5. \A s \in SUBSET (1..k) : f[s] = IF s \in SUBSET W THEN h[s] ELSE e(s)
    OBVIOUS
  <2>6. \A s \in SUBSET W : s \in SUBSET (1..k) /\ f[s] = h[s]
    BY <2>3
  <2>7. f = [s \in SUBSET (1..k) |-> f[s]]
    OBVIOUS
  <2> HIDE DEF f, e, W
  <2>8. ASSUME NEW s \in SUBSET (1..k) PROVE f[s] = Pumped(f, g, s)
    <3>1. CASE s \in SUBSET W
      <4>1. h[s] = Pumped(h, g, s)
        BY <2>2, <3>1, PumpsAt DEF W
      <4>2. f[s] = h[s] /\ f[s \ {Max(s)}] = h[s \ {Max(s)}]
        BY <2>4, <2>6, <3>1
      <4> QED
        BY <4>1, <4>2 DEF Pumped
    <3>2. CASE s \notin SUBSET W
      <4>1. k \in s /\ s \ {k} \in SUBSET W /\ s # {}
        BY <2>3, <3>2
      <4>2. Max(s) = k
        BY <1>2, <4>1, LastPosition
      <4>3. f[s] = e(s) /\ f[s \ {k}] = h[s \ {k}]
        BY <2>5, <2>6, <3>2, <4>1
      <4> QED
        BY <4>1, <4>2, <4>3 DEF Pumped, e
    <3> QED
      BY <3>1, <3>2
  <2>9. PumpsTo(f, g, 1..k)
    BY <2>7, <2>8 DEF PumpsTo, Pumped
  <2> QED
    BY <1>2, <2>9
<1> QED
  BY <1>3, <1>4

(* The gate after the first n of the queue have been looked at. *)
LEMMA PumpRuns ==
  ASSUME NEW g, g.waiting \in Seq(Jobs)
  PROVE  \E r : /\ r[0] = Emptied(g)
                /\ \A n \in 1..Len(g.waiting) : r[n] = Admission(r[n-1], g.waiting[n])
                /\ Pump(g) = r[Len(g.waiting)]
<1> DEFINE N == Len(g.waiting)
<1>1. N \in Nat /\ DOMAIN g.waiting = 1..N
  BY LenProperties
<1> HIDE DEF N
<1>2. PICK f : f = (CHOOSE h : PumpsTo(h, g, 1..N))
  OBVIOUS
<1>3. PumpsTo(f, g, 1..N)
  BY <1>1, <1>2, PumpsExist
<1>4. Pump(g) = f[1..N]
  BY <1>1, <1>2, PumpUnfold
<1> DEFINE r == [n \in 0..N |-> f[1..n]]
<1>5. r[0] = Emptied(g)
  <2>1. 1..0 = {} /\ 1..0 \in SUBSET (1..N) /\ 0 \in 0..N
    BY <1>1
  <2>2. f[1..0] = Emptied(g)
    BY <1>3, <2>1, PumpsAt DEF Pumped
  <2> QED
    BY <2>1, <2>2
<1>6. ASSUME NEW n \in 1..N PROVE r[n] = Admission(r[n-1], g.waiting[n])
  <2>1. /\ n \in Nat /\ 1..n \in SUBSET (1..N) /\ n \in 1..n /\ n \in 0..N /\ n - 1 \in 0..N
        /\ (1..n) \ {n} = 1..(n-1)
    BY <1>1
  <2>2. Max(1..n) = n
    BY <2>1, LastPosition
  <2>3. f[1..n] = Pumped(f, g, 1..n)
    <3>1. \A s \in SUBSET (1..N) : f[s] = Pumped(f, g, s)
      BY <1>3, PumpsAt
    <3> QED
      BY <2>1, <3>1
  <2>4. f[1..n] = Admission(f[1..(n-1)], g.waiting[n])
    BY <2>1, <2>2, <2>3 DEF Pumped
  <2> QED
    BY <2>1, <2>4
<1>7. Pump(g) = r[N]
  <2>1. N \in 0..N
    BY <1>1
  <2> QED
    BY <1>4, <2>1
<1> HIDE DEF r
<1> QED
  BY <1>5, <1>6, <1>7 DEF N
-------------------------------------------------------------------------------
(* A gate fits the jobs that hold a slot and those that wait for one: it counts *)
(* the first, overall and for each owner, keeps each of the others once, in the *)
(* order they came, and none of them could start.                               *)
GateShape == [active : Nat, owned : [Owners -> Nat], waiting : Seq(Jobs)]

OwnedBy(S, o) == {j \in S : Owner[j] = o}

Counts(g, S) ==
  /\ S \subseteq Jobs /\ IsFiniteSet(S)
  /\ g.active = Cardinality(S)
  /\ \A o \in Owners : g.owned[o] = Cardinality(OwnedBy(S, o))

Once(s) == \A i, k \in 1..Len(s) : s[i] = s[k] => i = k

Fits(g, S, W) ==
  /\ g \in GateShape
  /\ Counts(g, S)
  /\ Once(g.waiting) /\ Waiting(g) = W
  /\ WorkConserving(g)

LEMMA OwnedFinite ==
  ASSUME NEW S, IsFiniteSet(S), NEW o
  PROVE  IsFiniteSet(OwnedBy(S, o)) /\ OwnedBy(S, o) \subseteq S
BY FS_Subset DEF OwnedBy

LEMMA Seats ==
  /\ MaxSlots \in Nat \ {0}
  /\ \A j \in Jobs : Owner[j] \in Owners /\ UserCap[Owner[j]] \in Nat \ {0}
BY GateAssumption DEF Owners

LEMMA WithWaiting ==
  ASSUME NEW g \in GateShape, NEW s
  PROVE  [g EXCEPT !.waiting = s] = [active |-> g.active, owned |-> g.owned, waiting |-> s]
BY DEF GateShape

LEMMA WithCounts ==
  ASSUME NEW g \in GateShape, NEW n, NEW w
  PROVE  [g EXCEPT !.active = n, !.owned = w] = [active |-> n, owned |-> w, waiting |-> g.waiting]
<1> DEFINE h == [g EXCEPT !.active = n]
<1>1. h = [active |-> n, owned |-> g.owned, waiting |-> g.waiting]
  BY DEF GateShape
<1> HIDE DEF h
<1>2. [h EXCEPT !.owned = w] = [active |-> n, owned |-> w, waiting |-> g.waiting]
  BY <1>1
<1> QED
  BY <1>2 DEF h

(* What starting, enqueueing and giving back do to the parts of a gate. *)
LEMMA StartParts ==
  ASSUME NEW g \in GateShape, NEW j \in Jobs
  PROVE  /\ StartIn(g, j) \in GateShape
         /\ StartIn(g, j).active = g.active + 1
         /\ \A o \in Owners : StartIn(g, j).owned[o] = IF o = Owner[j] THEN g.owned[o] + 1 ELSE g.owned[o]
         /\ StartIn(g, j).waiting = g.waiting
<1>1. Owner[j] \in Owners
  BY Seats
<1>2. g.active \in Nat /\ g.owned \in [Owners -> Nat] /\ g.waiting \in Seq(Jobs)
  BY DEF GateShape
<1> DEFINE w == [g.owned EXCEPT ![Owner[j]] = @ + 1]
<1>3. w \in [Owners -> Nat] /\ \A o \in Owners : w[o] = IF o = Owner[j] THEN g.owned[o] + 1 ELSE g.owned[o]
  BY <1>1, <1>2
<1>4. StartIn(g, j) = [active |-> g.active + 1, owned |-> w, waiting |-> g.waiting]
  <2>1. StartIn(g, j) = [g EXCEPT !.active = g.active + 1, !.owned = w]
    BY DEF StartIn
  <2> HIDE DEF w
  <2> QED
    BY <2>1, WithCounts
<1> HIDE DEF w
<1> QED
  BY <1>2, <1>3, <1>4 DEF GateShape

LEMMA BackParts ==
  ASSUME NEW g \in GateShape, NEW j \in Jobs
  PROVE  /\ GivenBack(g, j) \in GateShape
         /\ GivenBack(g, j).active = Less(g.active)
         /\ \A o \in Owners : GivenBack(g, j).owned[o] = IF o = Owner[j] THEN Less(g.owned[o]) ELSE g.owned[o]
         /\ GivenBack(g, j).waiting = g.waiting
<1>1. Owner[j] \in Owners
  BY Seats
<1>2. g.active \in Nat /\ g.owned \in [Owners -> Nat] /\ g.waiting \in Seq(Jobs)
  BY DEF GateShape
<1>3. \A n \in Nat : Less(n) \in Nat
  BY DEF Less
<1> DEFINE w == [g.owned EXCEPT ![Owner[j]] = Less(@)]
<1>4. w \in [Owners -> Nat] /\ \A o \in Owners : w[o] = IF o = Owner[j] THEN Less(g.owned[o]) ELSE g.owned[o]
  BY <1>1, <1>2, <1>3
<1>5. GivenBack(g, j) = [active |-> Less(g.active), owned |-> w, waiting |-> g.waiting]
  <2>1. GivenBack(g, j) = [g EXCEPT !.active = Less(g.active), !.owned = w]
    BY DEF GivenBack
  <2> HIDE DEF w
  <2> QED
    BY <2>1, WithCounts
<1> HIDE DEF w
<1> QED
  BY <1>2, <1>3, <1>4, <1>5 DEF GateShape

LEMMA EnqueueParts ==
  ASSUME NEW g \in GateShape, NEW j \in Jobs
  PROVE  /\ Enqueued(g, j) \in GateShape
         /\ Enqueued(g, j).active = g.active
         /\ Enqueued(g, j).owned = g.owned
         /\ Enqueued(g, j).waiting = Append(g.waiting, j)
<1>1. Enqueued(g, j) = [active |-> g.active, owned |-> g.owned, waiting |-> Append(g.waiting, j)]
  BY WithWaiting DEF Enqueued
<1> QED
  BY <1>1, AppendProperties DEF GateShape

LEMMA EmptiedParts ==
  ASSUME NEW g \in GateShape
  PROVE  /\ Emptied(g) \in GateShape
         /\ Emptied(g).active = g.active
         /\ Emptied(g).owned = g.owned
         /\ Emptied(g).waiting = << >>
<1>1. Emptied(g) = [active |-> g.active, owned |-> g.owned, waiting |-> << >>]
  BY DEF Emptied, GateShape
<1> QED
  BY <1>1 DEF GateShape

LEMMA CountsMore ==
  ASSUME NEW g \in GateShape, NEW S, Counts(g, S), NEW j \in Jobs \ S
  PROVE  Counts(StartIn(g, j), S \cup {j})
<1>1. Cardinality(S \cup {j}) = Cardinality(S) + 1 /\ IsFiniteSet(S \cup {j})
  BY FS_AddElement DEF Counts
<1>2. ASSUME NEW o \in Owners
      PROVE  StartIn(g, j).owned[o] = Cardinality(OwnedBy(S \cup {j}, o))
  <2>1. IsFiniteSet(OwnedBy(S, o)) /\ g.owned[o] = Cardinality(OwnedBy(S, o))
    BY OwnedFinite DEF Counts
  <2>2. CASE o = Owner[j]
    <3>1. OwnedBy(S \cup {j}, o) = OwnedBy(S, o) \cup {j} /\ j \notin OwnedBy(S, o)
      BY <2>2 DEF OwnedBy
    <3>2. Cardinality(OwnedBy(S, o) \cup {j}) = Cardinality(OwnedBy(S, o)) + 1
      BY <2>1, <3>1, FS_AddElement
    <3>3. StartIn(g, j).owned[o] = g.owned[o] + 1
      BY <2>2, StartParts
    <3> QED
      BY <2>1, <3>1, <3>2, <3>3
  <2>3. CASE o # Owner[j]
    <3>1. OwnedBy(S \cup {j}, o) = OwnedBy(S, o)
      BY <2>3 DEF OwnedBy
    <3> QED
      BY <2>1, <2>3, <3>1, StartParts
  <2> QED
    BY <2>2, <2>3
<1>3. StartIn(g, j).active = g.active + 1
  BY StartParts
<1> QED
  BY <1>1, <1>2, <1>3 DEF Counts

LEMMA CountsLess ==
  ASSUME NEW g \in GateShape, NEW S, Counts(g, S), NEW j \in S
  PROVE  Counts(GivenBack(g, j), S \ {j})
<1>0. j \in Jobs
  BY DEF Counts
<1>1. /\ Cardinality(S \ {j}) = Cardinality(S) - 1 /\ IsFiniteSet(S \ {j})
      /\ Cardinality(S) \in Nat /\ Cardinality(S \ {j}) \in Nat
  BY FS_RemoveElement, FS_CardinalityType DEF Counts
<1>2. Less(Cardinality(S)) = Cardinality(S \ {j})
  BY <1>1 DEF Less
<1>3. ASSUME NEW o \in Owners
      PROVE  GivenBack(g, j).owned[o] = Cardinality(OwnedBy(S \ {j}, o))
  <2>1. IsFiniteSet(OwnedBy(S, o)) /\ g.owned[o] = Cardinality(OwnedBy(S, o))
    BY OwnedFinite DEF Counts
  <2>2. CASE o = Owner[j]
    <3>1. OwnedBy(S \ {j}, o) = OwnedBy(S, o) \ {j} /\ j \in OwnedBy(S, o)
      BY <2>2 DEF OwnedBy
    <3>2. /\ Cardinality(OwnedBy(S, o) \ {j}) = Cardinality(OwnedBy(S, o)) - 1
          /\ Cardinality(OwnedBy(S, o)) \in Nat /\ Cardinality(OwnedBy(S, o) \ {j}) \in Nat
      BY <2>1, <3>1, FS_RemoveElement, FS_CardinalityType
    <3>3. Less(Cardinality(OwnedBy(S, o))) = Cardinality(OwnedBy(S, o) \ {j})
      BY <3>2 DEF Less
    <3>4. GivenBack(g, j).owned[o] = Less(g.owned[o])
      BY <1>0, <2>2, BackParts
    <3> QED
      BY <2>1, <3>1, <3>3, <3>4
  <2>3. CASE o # Owner[j]
    <3>1. OwnedBy(S \ {j}, o) = OwnedBy(S, o)
      BY <2>3 DEF OwnedBy
    <3> QED
      BY <1>0, <2>1, <2>3, <3>1, BackParts
  <2> QED
    BY <2>2, <2>3
<1>4. GivenBack(g, j).active = Less(g.active)
  BY <1>0, BackParts
<1> QED
  BY <1>1, <1>2, <1>3, <1>4 DEF Counts

LEMMA FitsStart ==
  ASSUME NEW g, NEW S, NEW W, Fits(g, S, W), NEW j \in Jobs \ S, CanStart(g, j)
  PROVE  Fits(StartIn(g, j), S \cup {j}, W)
<1>1. /\ g \in GateShape /\ Counts(g, S) /\ Once(g.waiting) /\ Waiting(g) = W
      /\ WorkConserving(g)
  BY DEF Fits
<1>2. /\ StartIn(g, j) \in GateShape /\ StartIn(g, j).waiting = g.waiting
      /\ StartIn(g, j).active = g.active + 1
      /\ \A o \in Owners : StartIn(g, j).owned[o] = IF o = Owner[j] THEN g.owned[o] + 1 ELSE g.owned[o]
  BY <1>1, StartParts
<1>3. Counts(StartIn(g, j), S \cup {j})
  BY <1>1, CountsMore
<1>4. ToSet(g.waiting) \subseteq Jobs
  BY <1>1 DEF GateShape, ToSet
<1>5. g.active \in Nat /\ g.owned \in [Owners -> Nat]
  BY <1>1 DEF GateShape
<1>6. ASSUME NEW k \in Waiting(StartIn(g, j)) PROVE ~CanStart(StartIn(g, j), k)
  <2>1. k \in Waiting(g) /\ k \in Jobs
    BY <1>2, <1>4 DEF Waiting
  <2>2. ~CanStart(g, k) /\ Owner[k] \in Owners /\ UserCap[Owner[k]] \in Nat
    BY <1>1, <2>1, Seats DEF WorkConserving
  <2>3. g.owned[Owner[k]] \in Nat
    BY <1>5, <2>2
  <2> QED
    BY <1>2, <1>5, <2>2, <2>3, Seats DEF CanStart
<1>7. Waiting(StartIn(g, j)) = W
  BY <1>1, <1>2 DEF Waiting
<1> QED
  BY <1>1, <1>2, <1>3, <1>6, <1>7 DEF Fits, WorkConserving

LEMMA Appended ==
  ASSUME NEW s \in Seq(Jobs), NEW j \in Jobs
  PROVE  /\ ToSet(Append(s, j)) = ToSet(s) \cup {j}
         /\ Once(s) /\ j \notin ToSet(s) => Once(Append(s, j))
<1> DEFINE t == Append(s, j)
           n == Len(s)
<1>1. n \in Nat /\ Len(t) = n + 1 /\ DOMAIN s = 1..n /\ DOMAIN t = 1..(n+1)
  BY AppendProperties, LenProperties
<1>2. t[n+1] = j /\ \A i \in 1..n : t[i] = s[i]
  BY AppendProperties
<1> HIDE DEF t
<1>3. ToSet(t) = {t[i] : i \in 1..(n+1)} /\ ToSet(s) = {s[i] : i \in 1..n}
  BY <1>1 DEF ToSet
<1> HIDE DEF n
<1>4. \A i : i \in 1..(n+1) <=> i \in 1..n \/ i = n + 1
  BY <1>1
<1>5. ToSet(t) = ToSet(s) \cup {j}
  BY <1>2, <1>3, <1>4
<1>6. ASSUME Once(s), j \notin ToSet(s), NEW i \in 1..(n+1), NEW k \in 1..(n+1), t[i] = t[k]
      PROVE  i = k
  <2>1. CASE i \in 1..n /\ k \in 1..n
    BY <1>2, <1>6, <2>1 DEF Once, n
  <2>2. CASE i = n + 1 /\ k = n + 1
    BY <2>2
  <2>3. CASE i \in 1..n /\ k = n + 1
    BY <1>2, <1>3, <1>6, <2>3
  <2>4. CASE i = n + 1 /\ k \in 1..n
    BY <1>2, <1>3, <1>6, <2>4
  <2> QED
    BY <1>4, <2>1, <2>2, <2>3, <2>4
<1> QED
  BY <1>1, <1>5, <1>6 DEF Once, t

LEMMA FitsEnqueue ==
  ASSUME NEW g, NEW S, NEW W, Fits(g, S, W), NEW j \in Jobs \ W, ~CanStart(g, j)
  PROVE  Fits(Enqueued(g, j), S, W \cup {j})
<1>1. /\ g \in GateShape /\ Counts(g, S) /\ Once(g.waiting) /\ Waiting(g) = W
      /\ WorkConserving(g)
  BY DEF Fits
<1>2. /\ Enqueued(g, j) \in GateShape /\ Enqueued(g, j).active = g.active
      /\ Enqueued(g, j).owned = g.owned /\ Enqueued(g, j).waiting = Append(g.waiting, j)
  BY <1>1, EnqueueParts
<1>3. g.waiting \in Seq(Jobs)
  BY <1>1 DEF GateShape
<1>4. Waiting(Enqueued(g, j)) = W \cup {j} /\ Once(Enqueued(g, j).waiting)
  BY <1>1, <1>2, <1>3, Appended DEF Waiting
<1>5. \A k : CanStart(Enqueued(g, j), k) <=> CanStart(g, k)
  BY <1>2 DEF CanStart
<1>6. WorkConserving(Enqueued(g, j))
  BY <1>1, <1>4, <1>5 DEF WorkConserving
<1>7. Counts(Enqueued(g, j), S)
  BY <1>1, <1>2 DEF Counts
<1> QED
  BY <1>2, <1>4, <1>6, <1>7 DEF Fits
-------------------------------------------------------------------------------
FirstOf(s, n) == {s[i] : i \in 1..n}

LEMMA FirstMore ==
  ASSUME NEW s \in Seq(Jobs), Once(s), NEW n \in 1..Len(s)
  PROVE  /\ s[n] \in Jobs /\ s[n] \in ToSet(s) /\ s[n] \notin FirstOf(s, n-1)
         /\ FirstOf(s, n) = FirstOf(s, n-1) \cup {s[n]}
<1>1. Len(s) \in Nat /\ DOMAIN s = 1..Len(s) /\ n \in Nat /\ n \in DOMAIN s
  BY LenProperties
<1>2. s[n] \in Jobs
  BY <1>1, ElementOfSeq
<1>3. \A i : i \in 1..n <=> i \in 1..(n-1) \/ i = n
  BY <1>1
<1>4. FirstOf(s, n) = FirstOf(s, n-1) \cup {s[n]}
  BY <1>3 DEF FirstOf
<1>5. \A i \in 1..(n-1) : i \in 1..Len(s) /\ i # n
  BY <1>1
<1>6. s[n] \notin FirstOf(s, n-1)
  BY <1>5 DEF FirstOf, Once
<1>7. s[n] \in ToSet(s)
  BY <1>1 DEF ToSet
<1> QED
  BY <1>2, <1>4, <1>6, <1>7

(* One waiting job is looked at. *)
LEMMA AdmissionFits ==
  ASSUME NEW g, NEW S, NEW F, NEW w \in Jobs, w \notin S, w \notin F, S \cap F = {},
         Waiting(g) \subseteq F,
         Fits(g, S \cup (F \ Waiting(g)), Waiting(g))
  PROVE  /\ Waiting(Admission(g, w)) \subseteq F \cup {w}
         /\ Fits(Admission(g, w), S \cup ((F \cup {w}) \ Waiting(Admission(g, w))), Waiting(Admission(g, w)))
<1> DEFINE W == Waiting(g)
           H == S \cup (F \ W)
<1>1. w \notin H /\ w \notin W
  OBVIOUS
<1>2. CASE CanStart(g, w)
  <2>1. Fits(StartIn(g, w), H \cup {w}, W)
    BY <1>1, <1>2, FitsStart
  <2>2. Admission(g, w) = StartIn(g, w)
    BY <1>2 DEF Admission
  <2>3. Waiting(Admission(g, w)) = W
    BY <2>1, <2>2 DEF Fits
  <2>4. H \cup {w} = S \cup ((F \cup {w}) \ W)
    BY <1>1
  <2> HIDE DEF W, H
  <2>5. Waiting(Admission(g, w)) \subseteq F \cup {w}
    BY <2>3 DEF W
  <2> QED
    BY <2>1, <2>2, <2>3, <2>4, <2>5
<1>3. CASE ~CanStart(g, w)
  <2>1. Fits(Enqueued(g, w), H, W \cup {w})
    BY <1>1, <1>3, FitsEnqueue
  <2>2. Admission(g, w) = Enqueued(g, w)
    BY <1>3 DEF Admission
  <2>3. Waiting(Admission(g, w)) = W \cup {w}
    BY <2>1, <2>2 DEF Fits
  <2>4. H = S \cup ((F \cup {w}) \ (W \cup {w}))
    BY <1>1
  <2> HIDE DEF W, H
  <2>5. Waiting(Admission(g, w)) \subseteq F \cup {w}
    BY <2>3 DEF W
  <2> QED
    BY <2>1, <2>2, <2>3, <2>4, <2>5
<1> QED
  BY <1>2, <1>3

LEMMA EmptiedFits ==
  ASSUME NEW g \in GateShape, NEW S, Counts(g, S)
  PROVE  Fits(Emptied(g), S, {}) /\ Waiting(Emptied(g)) = {}
<1>1. /\ Emptied(g) \in GateShape /\ Emptied(g).active = g.active
      /\ Emptied(g).owned = g.owned /\ Emptied(g).waiting = << >>
  BY EmptiedParts
<1>2. Waiting(Emptied(g)) = {} /\ Once(Emptied(g).waiting)
  BY <1>1 DEF Waiting, ToSet, Once
<1>3. Counts(Emptied(g), S)
  BY <1>1 DEF Counts
<1> QED
  BY <1>1, <1>2, <1>3 DEF Fits, WorkConserving

(* The whole queue is. *)
LEMMA PumpFits ==
  ASSUME NEW g \in GateShape, NEW S, Counts(g, S), Once(g.waiting), S \cap Waiting(g) = {}
  PROVE  /\ Waiting(Pump(g)) \subseteq Waiting(g)
         /\ Fits(Pump(g), S \cup (Waiting(g) \ Waiting(Pump(g))), Waiting(Pump(g)))
<1> DEFINE s == g.waiting
           N == Len(s)
<1>1. s \in Seq(Jobs) /\ N \in Nat /\ DOMAIN s = 1..N
  BY LenProperties DEF GateShape
<1>2. PICK r : /\ r[0] = Emptied(g)
               /\ \A n \in 1..N : r[n] = Admission(r[n-1], s[n])
               /\ Pump(g) = r[N]
  BY <1>1, PumpRuns
<1> DEFINE Good(n) == /\ Waiting(r[n]) \subseteq FirstOf(s, n)
                      /\ Fits(r[n], S \cup (FirstOf(s, n) \ Waiting(r[n])), Waiting(r[n]))
<1>3. Good(0)
  <2>1. FirstOf(s, 0) = {}
    BY DEF FirstOf
  <2>2. Fits(Emptied(g), S, {}) /\ Waiting(Emptied(g)) = {}
    BY EmptiedFits
  <2>3. S = S \cup ({} \ {})
    OBVIOUS
  <2> QED
    BY <1>2, <2>1, <2>2, <2>3
<1>4. ASSUME NEW n \in 1..N, Good(n-1) PROVE Good(n)
  <2> DEFINE h == r[n-1]
             F == FirstOf(s, n-1)
             w == s[n]
  <2>1. /\ w \in Jobs /\ w \in ToSet(s) /\ w \notin F /\ FirstOf(s, n) = F \cup {w}
    BY <1>1, FirstMore
  <2>2. r[n] = Admission(h, w)
    BY <1>2
  <2>3. ToSet(s) = Waiting(g)
    BY DEF Waiting
  <2>4. F \subseteq ToSet(s)
    <3>1. \A i \in 1..(n-1) : i \in DOMAIN s
      BY <1>1
    <3> QED
      BY <3>1 DEF FirstOf, ToSet
  <2>5. w \notin S /\ S \cap F = {}
    BY <2>1, <2>3, <2>4
  <2>6. Waiting(h) \subseteq F /\ Fits(h, S \cup (F \ Waiting(h)), Waiting(h))
    BY <1>4
  <2> HIDE DEF h, F, w
  <2>7. /\ Waiting(Admission(h, w)) \subseteq F \cup {w}
        /\ Fits(Admission(h, w), S \cup ((F \cup {w}) \ Waiting(Admission(h, w))), Waiting(Admission(h, w)))
    BY <2>1, <2>5, <2>6, AdmissionFits
  <2> QED
    BY <2>1, <2>2, <2>7
<1> HIDE DEF Good, s
<1>5. \A n \in 0..N : Good(n)
  <2> DEFINE T == {n \in 0..N : ~Good(n)}
  <2> SUFFICES ASSUME T # {} PROVE FALSE
    OBVIOUS
  <2>1. T \subseteq Nat
    BY <1>1
  <2>2. PICK n \in T : \A m \in T : n <= m
    BY <2>1, LeastNumber
  <2>3. n \in 0..N /\ ~Good(n)
    BY <2>2
  <2>4. n # 0
    BY <1>3, <2>3
  <2>5. n \in 1..N /\ n - 1 \in 0..N /\ ~(n <= n - 1)
    BY <1>1, <2>3, <2>4
  <2>6. n - 1 \notin T
    BY <2>2, <2>5
  <2>7. Good(n-1)
    BY <2>5, <2>6
  <2> QED
    BY <1>4, <2>3, <2>5, <2>7
<1>6. Good(N)
  BY <1>1, <1>5
<1>7. FirstOf(s, N) = Waiting(g)
  BY <1>1 DEF FirstOf, Waiting, ToSet, s
<1> QED
  BY <1>2, <1>6, <1>7 DEF Good

LEMMA ReleaseFits ==
  ASSUME NEW g, NEW S, NEW W, Fits(g, S, W), S \cap W = {}, NEW j \in S
  PROVE  /\ Waiting(Release(g, j)) \subseteq W
         /\ Fits(Release(g, j), (S \ {j}) \cup (W \ Waiting(Release(g, j))), Waiting(Release(g, j)))
<1>1. /\ g \in GateShape /\ Counts(g, S) /\ Once(g.waiting) /\ Waiting(g) = W /\ j \in Jobs
  BY DEF Fits, Counts
<1> DEFINE b == GivenBack(g, j)
<1>2. b \in GateShape /\ b.waiting = g.waiting /\ Counts(b, S \ {j})
  BY <1>1, BackParts, CountsLess
<1>3. Waiting(b) = W /\ Once(b.waiting)
  BY <1>1, <1>2 DEF Waiting
<1>4. (S \ {j}) \cap Waiting(b) = {}
  BY <1>3
<1>5. Release(g, j) = Pump(b)
  BY DEF Release
<1> HIDE DEF b
<1> QED
  BY <1>2, <1>3, <1>4, <1>5, PumpFits

LEMMA EmptyGateFits == Fits(EmptyGate, {}, {})
<1>1. EmptyGate \in GateShape /\ EmptyGate.waiting = << >> /\ EmptyGate.active = 0
  BY DEF EmptyGate, GateShape
<1>2. \A o \in Owners : EmptyGate.owned[o] = 0 /\ OwnedBy({}, o) = {}
  BY DEF EmptyGate, OwnedBy
<1>3. Counts(EmptyGate, {})
  BY <1>1, <1>2, FS_EmptySet DEF Counts
<1> QED
  BY <1>1, <1>3 DEF Fits, Once, Waiting, ToSet, WorkConserving

(* With nobody at work everybody could start, so nobody waits. *)
LEMMA NobodyWaitsForNobody ==
  ASSUME NEW g, NEW S, NEW W, Fits(g, S, W), g.active = 0
  PROVE  W = {} /\ g.waiting = << >>
<1>1. S = {}
  BY FS_EmptySet DEF Fits, Counts
<1>2. ASSUME NEW j \in W PROVE FALSE
  <2>1. g.waiting \in Seq(Jobs) /\ j \in Waiting(g) /\ ~CanStart(g, j)
    BY DEF Fits, GateShape, WorkConserving
  <2>2. j \in Jobs
    BY <2>1 DEF Waiting, ToSet
  <2>3. Owner[j] \in Owners /\ UserCap[Owner[j]] \in Nat \ {0} /\ MaxSlots \in Nat \ {0}
    BY <2>2, Seats
  <2>4. g.owned[Owner[j]] = 0
    BY <1>1, <2>3, FS_EmptySet DEF Fits, Counts, OwnedBy
  <2> QED
    BY <2>1, <2>3, <2>4 DEF CanStart
<1>3. W = {}
  BY <1>2
<1>4. g.waiting \in Seq(Jobs) /\ ToSet(g.waiting) = {}
  BY <1>3 DEF Fits, GateShape, Waiting
<1>5. DOMAIN g.waiting = {}
  BY <1>4 DEF ToSet
<1>6. Len(g.waiting) = 0
  <2>1. Len(g.waiting) \in Nat /\ 1..Len(g.waiting) = {}
    BY <1>4, <1>5, LenProperties
  <2>2. Len(g.waiting) # 0 => 1 \in 1..Len(g.waiting)
    BY <2>1
  <2> QED
    BY <2>1, <2>2
<1>7. \A s \in Seq(Jobs) : s # << >> => Len(s) \in Nat \ {0}
  BY EmptySeq
<1> QED
  BY <1>3, <1>4, <1>6, <1>7
-------------------------------------------------------------------------------
(* The invariant.  Types: of the variables that a step reads by job.          *)
JobObject ==
  [at : Stages, status : {"pending", "running", "complete", "error"},
   held : BOOLEAN, attempt : {"no", "try", "catch"}, tried : SUBSET Accounts,
   errs : {"none", "capacity", "other", "mixed"},
   account : Accounts \cup {NoAccount}, deferrals : 0..DeferLimit]

SunoTypes ==
  /\ job \in [Jobs -> JobObject]
  /\ load \in [Accounts -> Nat]
  /\ row \in [Jobs -> {"none", "pending", "running", "complete", "error"}]
  /\ ledger \in [Jobs -> [refunds : {0, 1}, told : {"none", "complete", "error"}]]
  /\ entry \in [Jobs -> {"none", "wait", "active", "done"}]
  /\ songs \in [Jobs -> {0, 1}]
  /\ boot \in [at : {"up", "down", "reconcile", "recover"}, todo : SUBSET Jobs, now : SUBSET Jobs]

Working == {"begin", "pick", "start", "submit", "defer"}
Closing == {"final", "settle", "notify"}

(* A worker between its acquire and its deferral holds a slot; it is inside an *)
(* attempt only with one, on an account, and from the submission on; and what  *)
(* it closes has ended.                                                        *)
ObjectFits(o) ==
  /\ o.held => o.at \in Working \cup Closing
  /\ o.at \in Working => o.held
  /\ o.attempt # "no" => o.held /\ o.account \in Accounts /\ o.at \in {"submit"} \cup Closing
  /\ o.at = "submit" => o.attempt = "try"
  /\ o.at = "start" => o.account \in Accounts
  /\ o.at \in Closing => Terminal(o.status)

(* Which jobs have rows and queue entries. *)
Placed(j) ==
  /\ entry[j] # "none" => j \in Queued /\ row[j] # "none"
  /\ Stage(j) \in {"persist", "enqueue"} => j \in Queued
  /\ Stage(j) = "enqueue" => row[j] # "none"
  /\ Stage(j) = "none" => row[j] = "none"
  /\ j \in Crowd => Stage(j) \in {"none", "waiting", "begin"} /\ row[j] = "none"

(* What the boot has still to do is as its SELECT found it, unless the consumer *)
(* has taken it up since.                                                       *)
Booted(j) ==
  /\ boot.at = "down" => Stage(j) \in {"none", "gone"}
  /\ boot.at = "reconcile" /\ j \notin Queued => Stage(j) \in {"none", "gone"}
  /\ boot.at = "reconcile" /\ j \in boot.todo => row[j] = "error" /\ Stage(j) = "gone"
  /\ boot.at = "recover" /\ j \in boot.todo /\ Stage(j) = "gone" => Unfinished(row[j])
  /\ boot.at = "recover" /\ j \in boot.todo => row[j] # "none"
  /\ boot.at = "recover" /\ j \in boot.todo \ Queued => Stage(j) = "gone"

(* The story of a job, stranded or not: who is told is told what the row says, *)
(* and is never worked on again.                                               *)
Told(j) ==
  /\ ledger[j].told = "error" => ledger[j].refunds = 1
  /\ Stage(j) = "notify" /\ job[j].status = "error" => ledger[j].refunds = 1
  /\ j \notin torn =>
       /\ ledger[j].told = "complete" => ledger[j].refunds = 0
       /\ ledger[j].refunds = 1 => row[j] = "error" /\ Stage(j) \in {"notify", "ended", "gone"}
       /\ ledger[j].told # "none" =>
            row[j] = ledger[j].told /\ Stage(j) \in {"ended", "gone"} /\ entry[j] \in {"none", "done"}
       /\ Stage(j) \in {"settle", "notify"} => row[j] = job[j].status
       /\ Stage(j) = "notify" /\ job[j].status = "complete" => ledger[j].refunds = 0
       /\ entry[j] = "wait" => Stage(j) \in {"queued", "gone"}

(* A failed job is refunded, or a worker or the boot will do it. *)
Refunded(j) ==
  j \notin stranded \cup torn /\ row[j] = "error" /\ ledger[j].refunds = 0
    => \/ Stage(j) \notin {"gone", "ended"}
       \/ boot.at = "down"
       \/ boot.at = "reconcile" /\ j \in boot.todo

(* The song of a job that may still go on is not counted any more. *)
Sung(j) ==
  songs[j] = 1 => \/ Stage(j) \in Closing \cup {"ended"}
                  \/ Stage(j) = "gone" /\ Terminal(row[j])

JobGood(j) == ObjectFits(job[j]) /\ Placed(j) /\ Booted(j) /\ Told(j) /\ Refunded(j) /\ Sung(j)

WaitingJobs == {j \in Jobs : Stage(j) = "waiting"}
Busy(a)     == {j \in Jobs : job[j].attempt # "no" /\ job[j].account = a}

GateFits == Fits(gate, Held, WaitingJobs)
LoadFits == \A a \in Accounts : load[a] = Cardinality(Busy(a))

SunoInv == SunoTypes /\ GateFits /\ LoadFits /\ \A j \in Jobs : JobGood(j)
-------------------------------------------------------------------------------
(* A job that a step leaves alone, but perhaps for its admission. *)
Kept(k) ==
  /\ row'[k] = row[k] /\ ledger'[k] = ledger[k] /\ entry'[k] = entry[k] /\ songs'[k] = songs[k]
  /\ (k \in stranded' <=> k \in stranded) /\ (k \in torn' <=> k \in torn)
  /\ boot'.at = boot.at /\ (k \in boot'.todo <=> k \in boot.todo)

Admitted(k) ==
  /\ job[k].at = "waiting"
  /\ job'[k].at = "begin" /\ job'[k].held
  /\ job'[k].attempt = job[k].attempt /\ job'[k].account = job[k].account
  /\ job'[k].status = job[k].status

Beside(k) == job'[k] = job[k] \/ Admitted(k)

LEMMA KeptGood ==
  ASSUME SunoTypes, NEW k \in Jobs, JobGood(k), Kept(k), Beside(k)
  PROVE  JobGood(k)'
<1>1. job[k] \in JobObject /\ row[k] \in {"none", "pending", "running", "complete", "error"}
  BY DEF SunoTypes
<1>2. CASE job'[k] = job[k]
  <2>1. ObjectFits(job[k])' /\ Placed(k)'
    BY <1>2 DEF JobGood, Kept, Placed, Stage, ObjectFits, Terminal
  <2>2. Booted(k)'
    BY <1>2 DEF JobGood, Kept, Booted, Stage
  <2>3. Told(k)'
    BY <1>2 DEF JobGood, Kept, Told, Stage
  <2>4. Refunded(k)' /\ Sung(k)'
    BY <1>2 DEF JobGood, Kept, Refunded, Sung, Stage
  <2> QED
    BY <2>1, <2>2, <2>3, <2>4 DEF JobGood
<1>3. CASE Admitted(k)
  <2>1. ObjectFits(job[k])' /\ Placed(k)'
    BY <1>3 DEF JobGood, Kept, Admitted, Placed, Stage, ObjectFits, Working, Closing
  <2>2. Booted(k)'
    BY <1>3 DEF JobGood, Kept, Admitted, Booted, Stage
  <2>3. Told(k)'
    BY <1>3 DEF JobGood, Kept, Admitted, Told, Stage
  <2>4. Refunded(k)' /\ Sung(k)'
    BY <1>3 DEF JobGood, Kept, Admitted, Refunded, Sung, Stage, Closing
  <2> QED
    BY <2>1, <2>2, <2>3, <2>4 DEF JobGood
<1> QED
  BY <1>2, <1>3 DEF Beside
-------------------------------------------------------------------------------
(* Objects, and what the ways of changing one change. *)
LEMMA ObjectParts ==
  ASSUME NEW at \in Stages, NEW status \in {"pending", "running", "complete", "error"}
  PROVE  /\ Object(at, status) \in JobObject
         /\ Object(at, status).at = at /\ Object(at, status).status = status
         /\ Object(at, status).held = FALSE /\ Object(at, status).attempt = "no"
         /\ Object(at, status).account = NoAccount /\ Object(at, status).deferrals = 0
BY SunoAssumption DEF Object, JobObject

LEMMA SetParts ==
  ASSUME SunoTypes, NEW j \in Jobs, NEW o \in JobObject, Set(j, o)
  PROVE  /\ job' \in [Jobs -> JobObject] /\ job'[j] = o
         /\ \A k \in Jobs \ {j} : job'[k] = job[k]
BY DEF SunoTypes, Set

LEMMA GoToParts ==
  ASSUME SunoTypes, NEW j \in Jobs, NEW at \in Stages, GoTo(j, at)
  PROVE  /\ job' \in [Jobs -> JobObject]
         /\ job'[j].at = at /\ job'[j].status = job[j].status /\ job'[j].held = job[j].held
         /\ job'[j].attempt = job[j].attempt /\ job'[j].account = job[j].account
         /\ \A k \in Jobs \ {j} : job'[k] = job[k]
<1>1. job[j] \in JobObject
  BY DEF SunoTypes
<1> DEFINE o == [job[j] EXCEPT !.at = at]
<1>2. /\ o \in JobObject /\ o.at = at /\ o.status = job[j].status /\ o.held = job[j].held
      /\ o.attempt = job[j].attempt /\ o.account = job[j].account
  BY <1>1 DEF JobObject
<1>3. Set(j, o)
  BY DEF GoTo
<1> HIDE DEF o
<1> QED
  BY <1>2, <1>3, SetParts

LEMMA ConcludeParts ==
  ASSUME SunoTypes, NEW j \in Jobs, NEW status \in {"complete", "error"},
         NEW attempt \in {"no", "try", "catch"}, Conclude(j, status, attempt)
  PROVE  /\ job' \in [Jobs -> JobObject]
         /\ job'[j].at = "final" /\ job'[j].status = status /\ job'[j].held = job[j].held
         /\ job'[j].attempt = attempt
         /\ job'[j].account = IF attempt = "no" THEN NoAccount ELSE job[j].account
         /\ \A k \in Jobs \ {j} : job'[k] = job[k]
<1>1. job[j] \in JobObject
  BY DEF SunoTypes
<1>2. job[j].held \in BOOLEAN /\ job[j].account \in Accounts \cup {NoAccount}
  BY <1>1 DEF JobObject
<1> DEFINE c == IF attempt = "no" THEN NoAccount ELSE job[j].account
           x == Object("final", status)
           o == [x EXCEPT !.held = job[j].held, !.attempt = attempt, !.account = c]
<1>3. c \in Accounts \cup {NoAccount}
  BY <1>2
<1>4. x \in JobObject /\ x.at = "final" /\ x.status = status
  BY ObjectParts DEF Stages
<1>5. Set(j, o)
  BY DEF Conclude
<1> HIDE DEF x, c
<1>6. o \in JobObject /\ o.at = "final" /\ o.status = status /\ o.held = job[j].held /\ o.attempt = attempt
      /\ o.account = c
  BY <1>2, <1>3, <1>4 DEF JobObject
<1> HIDE DEF o
<1> QED
  BY <1>5, <1>6, SetParts DEF c
-------------------------------------------------------------------------------
(* The gate through a step. *)
LEMMA GateStays ==
  ASSUME GateFits, gate' = gate, NEW j \in Jobs, Stage(j) # "waiting",
         job'[j].at # "waiting", job'[j].held = job[j].held,
         \A k \in Jobs \ {j} : job'[k] = job[k]
  PROVE  GateFits'
<1>1. Held' = Held
  BY DEF Held
<1>2. WaitingJobs' = WaitingJobs
  BY DEF WaitingJobs, Stage
<1> QED
  BY <1>1, <1>2 DEF GateFits, Fits

LEMMA Apart ==
  ASSUME \A k \in Jobs : JobGood(k)
  PROVE  Held \cap WaitingJobs = {}
BY DEF JobGood, ObjectFits, Held, WaitingJobs, Stage, Working, Closing

LEMMA LeaveParts ==
  ASSUME SunoTypes, GateFits, \A k \in Jobs : JobGood(k), NEW j \in Jobs, Stage(j) # "waiting",
         NEW o \in JobObject, o.at # "waiting", LeaveSlot(j, o)
  PROVE  /\ GateFits' /\ job' \in [Jobs -> JobObject]
         /\ job'[j].at = o.at /\ job'[j].status = o.status /\ ~job'[j].held
         /\ job'[j].attempt = "no" /\ job'[j].account = o.account
         /\ \A k \in Jobs \ {j} : Beside(k)
<1> DEFINE x == [o EXCEPT !.held = FALSE, !.attempt = "no"]
           W == Waiting(gate)
           V == Waiting(GateWithout(j))
           y(k) == [job[k] EXCEPT !.at = "begin", !.held = TRUE]
<1>1. /\ x \in JobObject /\ x.at = o.at /\ x.status = o.status /\ x.held = FALSE
      /\ x.attempt = "no" /\ x.account = o.account
  BY DEF JobObject
<1>2. \A k \in Jobs : job[k] \in JobObject
  BY DEF SunoTypes
<1>3. \A k \in Jobs : /\ y(k) \in JobObject /\ y(k).at = "begin" /\ y(k).held
                      /\ y(k).attempt = job[k].attempt /\ y(k).account = job[k].account
                      /\ y(k).status = job[k].status
  BY <1>2 DEF JobObject, Stages
<1>4. /\ gate' = GateWithout(j)
      /\ job' = [k \in Jobs |-> IF k = j THEN x ELSE IF k \in W \ V THEN y(k) ELSE job[k]]
  BY DEF LeaveSlot
<1> HIDE DEF x, y
<1>5. W = WaitingJobs
  BY DEF GateFits, Fits
<1>6. V \subseteq W /\ Fits(gate', (Held \ {j}) \cup (W \ V), V)
  <2>1. CASE job[j].held
    <3>1. gate' = Release(gate, j) /\ V = Waiting(Release(gate, j))
      BY <1>4, <2>1 DEF GateWithout
    <3>2. j \in Held
      BY <2>1 DEF Held
    <3>3. Held \cap WaitingJobs = {} /\ Fits(gate, Held, WaitingJobs)
      BY Apart DEF GateFits
    <3> QED
      BY <1>5, <3>1, <3>2, <3>3, ReleaseFits
  <2>2. CASE ~job[j].held
    <3>1. gate' = gate /\ V = W
      BY <1>4, <2>2 DEF GateWithout
    <3>2. (Held \ {j}) \cup (W \ V) = Held
      BY <2>2, <3>1 DEF Held
    <3> QED
      BY <1>5, <3>1, <3>2 DEF GateFits
  <2> QED
    BY <2>1, <2>2
<1>7. j \notin W
  BY <1>5 DEF WaitingJobs
<1>8. /\ job' \in [Jobs -> JobObject] /\ job'[j] = x
      /\ \A k \in Jobs \ {j} : job'[k] = IF k \in W \ V THEN y(k) ELSE job[k]
  BY <1>1, <1>2, <1>3, <1>4
<1>9. \A k \in W : k \in Jobs /\ job[k].at = "waiting" /\ ~job[k].held
  <2>1. \A k \in W : k \in Jobs /\ job[k].at = "waiting"
    BY <1>5 DEF WaitingJobs, Stage
  <2> QED
    BY <2>1 DEF JobGood, ObjectFits, Working, Closing
<1>10. Held' = (Held \ {j}) \cup (W \ V)
  <2>1. \A k \in Jobs : job'[k].held <=> k \in (Held \ {j}) \cup (W \ V)
    <3> SUFFICES ASSUME NEW k \in Jobs PROVE job'[k].held <=> k \in (Held \ {j}) \cup (W \ V)
      OBVIOUS
    <3>1. CASE k = j
      BY <1>1, <1>7, <1>8, <3>1
    <3>2. CASE k # j /\ k \in W \ V
      BY <1>3, <1>8, <3>2
    <3>3. CASE k # j /\ k \notin W \ V
      BY <1>8, <3>3 DEF Held
    <3> QED
      BY <3>1, <3>2, <3>3
  <2>2. Held \subseteq Jobs /\ W \subseteq Jobs
    BY <1>9 DEF Held
  <2> QED
    BY <2>1, <2>2 DEF Held
<1>11. WaitingJobs' = V
  <2>1. \A k \in Jobs : job'[k].at = "waiting" <=> k \in V
    <3> SUFFICES ASSUME NEW k \in Jobs PROVE job'[k].at = "waiting" <=> k \in V
      OBVIOUS
    <3>1. CASE k = j
      BY <1>1, <1>6, <1>7, <1>8, <3>1
    <3>2. CASE k # j /\ k \in W \ V
      BY <1>3, <1>8, <3>2
    <3>3. CASE k # j /\ k \notin W \ V
      <4>1. job'[k] = job[k]
        BY <1>8, <3>3
      <4>2. k \in W <=> job[k].at = "waiting"
        BY <1>5 DEF WaitingJobs, Stage
      <4>3. k \in W <=> k \in V
        BY <1>6, <3>3
      <4> QED
        BY <4>1, <4>2, <4>3
    <3> QED
      BY <3>1, <3>2, <3>3
  <2>2. V \subseteq Jobs
    BY <1>6, <1>9
  <2> QED
    BY <2>1, <2>2 DEF WaitingJobs, Stage
<1>12. GateFits'
  BY <1>6, <1>10, <1>11 DEF GateFits, Fits
<1>13. \A k \in Jobs \ {j} : Beside(k)
  BY <1>3, <1>8, <1>9 DEF Beside, Admitted
<1> QED
  BY <1>1, <1>8, <1>12, <1>13
-------------------------------------------------------------------------------
(* The load through a step. *)
SameAttempt(k) ==
  /\ job'[k].attempt # "no" <=> job[k].attempt # "no"
  /\ job[k].attempt # "no" => job'[k].account = job[k].account

LEMMA BesideAttempt ==
  ASSUME NEW k, Beside(k)
  PROVE  SameAttempt(k)
BY DEF Beside, Admitted, SameAttempt

LEMMA LoadStays ==
  ASSUME LoadFits, load' = load, \A k \in Jobs : SameAttempt(k)
  PROVE  LoadFits'
<1>1. \A a : Busy(a)' = Busy(a)
  BY DEF Busy, SameAttempt
<1> QED
  BY <1>1 DEF LoadFits

LEMMA BusyFinite ==
  ASSUME GateFits, \A k \in Jobs : JobGood(k), NEW a
  PROVE  IsFiniteSet(Busy(a))
<1>1. IsFiniteSet(Held)
  BY DEF GateFits, Fits, Counts
<1>2. Busy(a) \subseteq Held
  BY DEF Busy, Held, JobGood, ObjectFits
<1> QED
  BY <1>1, <1>2, FS_Subset

LEMMA LoadDrops ==
  ASSUME SunoTypes, GateFits, LoadFits, \A k \in Jobs : JobGood(k), NEW j \in Jobs,
         load' = LoadWithout(j), job'[j].attempt = "no",
         \A k \in Jobs \ {j} : SameAttempt(k)
  PROVE  LoadFits' /\ load' \in [Accounts -> Nat]
<1>1. load \in [Accounts -> Nat]
  BY DEF SunoTypes
<1>2. CASE job[j].attempt = "no"
  <2>1. load' = load
    BY <1>2 DEF LoadWithout
  <2>2. SameAttempt(j)
    BY <1>2 DEF SameAttempt
  <2> QED
    BY <1>1, <2>1, <2>2, LoadStays
<1>3. CASE job[j].attempt # "no"
  <2> DEFINE c == job[j].account
  <2>1. c \in Accounts /\ load' = [load EXCEPT ![c] = Less(@)]
    BY <1>3 DEF LoadWithout, JobGood, ObjectFits
  <2> HIDE DEF c
  <2>2. \A n \in Nat : Less(n) \in Nat
    BY DEF Less
  <2>3. load' \in [Accounts -> Nat] /\ \A a \in Accounts : load'[a] = IF a = c THEN Less(load[a]) ELSE load[a]
    BY <1>1, <2>1, <2>2
  <2>4. ASSUME NEW a \in Accounts PROVE load'[a] = Cardinality(Busy(a)')
    <3>1. IsFiniteSet(Busy(a)) /\ load[a] = Cardinality(Busy(a))
      BY BusyFinite DEF LoadFits
    <3>2. CASE a = c
      <4>1. Busy(a)' = Busy(a) \ {j} /\ j \in Busy(a)
        BY <1>3, <3>2 DEF Busy, SameAttempt, c
      <4>2. /\ Cardinality(Busy(a) \ {j}) = Cardinality(Busy(a)) - 1
            /\ Cardinality(Busy(a)) \in Nat /\ Cardinality(Busy(a) \ {j}) \in Nat
        BY <3>1, <4>1, FS_RemoveElement, FS_CardinalityType
      <4>3. Less(Cardinality(Busy(a))) = Cardinality(Busy(a) \ {j})
        BY <4>2 DEF Less
      <4>4. load'[a] = Less(load[a])
        BY <2>3, <3>2
      <4> QED
        BY <3>1, <4>1, <4>3, <4>4
    <3>3. CASE a # c
      <4>1. Busy(a)' = Busy(a)
        BY <3>3 DEF Busy, SameAttempt, c
      <4> QED
        BY <2>3, <3>1, <3>3, <4>1
    <3> QED
      BY <3>2, <3>3
  <2> QED
    BY <2>3, <2>4 DEF LoadFits
<1> QED
  BY <1>2, <1>3

LEMMA LoadRises ==
  ASSUME SunoTypes, GateFits, LoadFits, \A k \in Jobs : JobGood(k), NEW j \in Jobs,
         job[j].attempt = "no", job[j].account \in Accounts,
         load' = [load EXCEPT ![job[j].account] = @ + 1],
         job'[j].attempt # "no", job'[j].account = job[j].account,
         \A k \in Jobs \ {j} : SameAttempt(k)
  PROVE  LoadFits' /\ load' \in [Accounts -> Nat]
<1>1. load \in [Accounts -> Nat]
  BY DEF SunoTypes
<1> DEFINE c == job[j].account
<1>2. c \in Accounts /\ load' = [load EXCEPT ![c] = @ + 1]
  OBVIOUS
<1> HIDE DEF c
<1>3. load' \in [Accounts -> Nat] /\ \A a \in Accounts : load'[a] = IF a = c THEN load[a] + 1 ELSE load[a]
  BY <1>1, <1>2
<1>4. ASSUME NEW a \in Accounts PROVE load'[a] = Cardinality(Busy(a)')
  <2>1. IsFiniteSet(Busy(a)) /\ load[a] = Cardinality(Busy(a))
    BY BusyFinite DEF LoadFits
  <2>2. CASE a = c
    <3>1. Busy(a)' = Busy(a) \cup {j} /\ j \notin Busy(a)
      BY <2>2 DEF Busy, SameAttempt, c
    <3>2. Cardinality(Busy(a) \cup {j}) = Cardinality(Busy(a)) + 1
      BY <2>1, <3>1, FS_AddElement
    <3>3. load'[a] = load[a] + 1
      BY <1>3, <2>2
    <3> QED
      BY <2>1, <3>1, <3>2, <3>3
  <2>3. CASE a # c
    <3>1. Busy(a)' = Busy(a)
      BY <2>3 DEF Busy, SameAttempt, c
    <3> QED
      BY <1>3, <2>1, <2>3, <3>1
  <2> QED
    BY <2>2, <2>3
<1> QED
  BY <1>3, <1>4 DEF LoadFits
-------------------------------------------------------------------------------
(* The invariant after a step of one job, from what the step does to that job. *)
LEMMA Advance ==
  ASSUME SunoInv, NEW j \in Jobs, SunoTypes', GateFits', LoadFits', JobGood(j)',
         \A k \in Jobs \ {j} : Kept(k) /\ Beside(k)
  PROVE  SunoInv'
<1>1. \A k \in Jobs \ {j} : JobGood(k)'
  BY KeptGood DEF SunoInv
<1> QED
  BY <1>1 DEF SunoInv

(* ... when it takes no slot and gives none back, and no attempt begins or ends. *)
LEMMA QuietStep ==
  ASSUME SunoInv, NEW j \in Jobs, SunoTypes', JobGood(j)',
         gate' = gate, load' = load, Stage(j) # "waiting", job'[j].at # "waiting",
         job'[j].held = job[j].held, SameAttempt(j),
         \A k \in Jobs \ {j} : Kept(k) /\ job'[k] = job[k]
  PROVE  SunoInv'
<1>1. GateFits'
  BY GateStays DEF SunoInv
<1>2. \A k \in Jobs : SameAttempt(k)
  BY DEF SameAttempt
<1>3. LoadFits'
  BY <1>2, LoadStays DEF SunoInv
<1>4. \A k \in Jobs \ {j} : Kept(k) /\ Beside(k)
  BY DEF Beside
<1> QED
  BY <1>1, <1>3, <1>4, Advance

LEMMA SaveParts ==
  ASSUME SunoTypes, NEW j \in Jobs, NEW s \in {"pending", "running", "complete", "error"}, Save(j, s)
  PROVE  /\ row' \in [Jobs -> {"none", "pending", "running", "complete", "error"}]
         /\ row'[j] = s /\ \A k \in Jobs \ {j} : row'[k] = row[k]
BY DEF SunoTypes, Save

LEMMA AddedParts ==
  ASSUME SunoTypes, NEW j \in Jobs, entry' = Added(j)
  PROVE  /\ entry' \in [Jobs -> {"none", "wait", "active", "done"}]
         /\ entry'[j] = IF entry[j] = "none" THEN "wait" ELSE entry[j]
         /\ \A k \in Jobs \ {j} : entry'[k] = entry[k]
BY DEF SunoTypes, Added

LEMMA DoneParts ==
  ASSUME SunoTypes, NEW j \in Jobs, entry' = EntryDone(j)
  PROVE  /\ entry' \in [Jobs -> {"none", "wait", "active", "done"}]
         /\ entry'[j] = IF entry[j] = "active" THEN "done" ELSE entry[j]
         /\ \A k \in Jobs \ {j} : entry'[k] = entry[k]
BY DEF SunoTypes, EntryDone

LEMMA RequestKeeps ==
  ASSUME SunoInv, NEW j \in Jobs, Request(j)
  PROVE  SunoInv'
<1>1. SunoTypes /\ GateFits /\ LoadFits /\ (\A k \in Jobs : JobGood(k)) /\ JobGood(j)
      /\ job[j] \in JobObject
  BY DEF SunoInv, SunoTypes
<1> DEFINE at == IF j \in Queued THEN "persist" ELSE "admit"
           o == Object(at, "pending")
<1>2. Set(j, o) /\ job[j].at = "none" /\ boot.at = "up" /\ j \notin Crowd
  BY DEF Request, Stage, Up
<1>3. /\ gate' = gate /\ load' = load /\ row' = row /\ ledger' = ledger
      /\ entry' = entry /\ boot' = boot /\ songs' = songs /\ stranded' = stranded /\ torn' = torn
  BY DEF Request, db, hist
<1>4. at \in {"persist", "admit"} /\ at \in Stages /\ (at = "persist" => j \in Queued)
  BY DEF Stages
<1> HIDE DEF at
<1>5. o \in JobObject /\ o.at = at /\ o.status = "pending" /\ o.held = FALSE /\ o.attempt = "no"
  BY <1>4, ObjectParts
<1> HIDE DEF o
<1>6. job' \in [Jobs -> JobObject] /\ job'[j] = o /\ \A k \in Jobs \ {j} : job'[k] = job[k]
  BY <1>1, <1>2, <1>5, SetParts
<1>7. job[j].held = FALSE /\ job[j].attempt = "no"
  BY <1>1, <1>2 DEF JobGood, ObjectFits, Working, Closing, JobObject
<1>20. JobGood(j)'
  <2>1. ObjectFits(job[j])'
    BY <1>1, <1>2, <1>3, <1>4, <1>5, <1>6 DEF JobGood, ObjectFits, Working, Closing, Terminal
  <2>2. Placed(j)'
    BY <1>1, <1>2, <1>3, <1>4, <1>5, <1>6 DEF JobGood, Placed, ObjectFits, Stage
  <2>3. Booted(j)'
    BY <1>1, <1>2, <1>3, <1>4, <1>5, <1>6 DEF JobGood, Placed, Booted, Stage, Terminal, Unfinished
  <2>4. Told(j)'
    BY <1>1, <1>2, <1>3, <1>4, <1>5, <1>6 DEF JobGood, Told, Stage, Terminal, Closing, ObjectFits
  <2>5. Refunded(j)' /\ Sung(j)'
    BY <1>1, <1>2, <1>3, <1>4, <1>5, <1>6
    DEF JobGood, Refunded, Sung, Stage, Closing, Terminal, Unfinished
  <2> QED
    BY <2>1, <2>2, <2>3, <2>4, <2>5 DEF JobGood
<1>21. SunoTypes'
  BY <1>1, <1>3, <1>6 DEF SunoTypes
<1>22. SameAttempt(j)
  BY <1>2, <1>4, <1>5, <1>6, <1>7 DEF SameAttempt, JobGood, ObjectFits, Working, Closing
<1>23. \A k \in Jobs \ {j} : Kept(k) /\ job'[k] = job[k]
  BY <1>3, <1>6 DEF Kept
<1>24. Stage(j) # "waiting" /\ job'[j].at # "waiting" /\ job'[j].held = job[j].held
  BY <1>2, <1>4, <1>5, <1>6, <1>7 DEF Stage
<1> QED
  BY <1>3, <1>20, <1>21, <1>22, <1>23, <1>24, QuietStep

LEMMA PersistKeeps ==
  ASSUME SunoInv, NEW j \in Jobs, Persist(j)
  PROVE  SunoInv'
<1>1. SunoTypes /\ GateFits /\ LoadFits /\ (\A k \in Jobs : JobGood(k)) /\ JobGood(j)
      /\ job[j] \in JobObject
  BY DEF SunoInv, SunoTypes
<1>2. job[j].at = "persist" /\ Save(j, job[j].status) /\ GoTo(j, "enqueue")
  BY DEF Persist, Stage
<1>3. /\ gate' = gate /\ load' = load /\ ledger' = ledger /\ entry' = entry
      /\ boot' = boot /\ songs' = songs /\ stranded' = stranded /\ torn' = torn
  BY DEF Persist, hist
<1>4. job[j].status \in {"pending", "running", "complete", "error"}
  BY <1>1 DEF JobObject
<1>5. /\ row' \in [Jobs -> {"none", "pending", "running", "complete", "error"}]
      /\ row'[j] = job[j].status /\ \A k \in Jobs \ {j} : row'[k] = row[k]
  BY <1>1, <1>2, <1>4, SaveParts
<1>6. /\ job' \in [Jobs -> JobObject]
      /\ job'[j].at = "enqueue" /\ job'[j].status = job[j].status /\ job'[j].held = job[j].held
      /\ job'[j].attempt = job[j].attempt /\ job'[j].account = job[j].account
      /\ \A k \in Jobs \ {j} : job'[k] = job[k]
  BY <1>1, <1>2, GoToParts DEF Stages
<1>20. JobGood(j)'
  <2>1. ObjectFits(job[j])'
    BY <1>1, <1>2, <1>3, <1>4, <1>5, <1>6 DEF JobGood, ObjectFits, Working, Closing, Terminal
  <2>2. Placed(j)'
    BY <1>1, <1>2, <1>3, <1>4, <1>5, <1>6 DEF JobGood, Placed, ObjectFits, Stage
  <2>3. Booted(j)'
    BY <1>1, <1>2, <1>3, <1>4, <1>5, <1>6 DEF JobGood, Placed, Booted, Stage, Terminal, Unfinished
  <2>4. Told(j)'
    BY <1>1, <1>2, <1>3, <1>4, <1>5, <1>6 DEF JobGood, Told, Stage, Terminal, Closing, ObjectFits
  <2>5. Refunded(j)' /\ Sung(j)'
    BY <1>1, <1>2, <1>3, <1>4, <1>5, <1>6
    DEF JobGood, Refunded, Sung, Stage, Closing, Terminal, Unfinished
  <2> QED
    BY <2>1, <2>2, <2>3, <2>4, <2>5 DEF JobGood
<1>21. SunoTypes'
  BY <1>1, <1>3, <1>5, <1>6 DEF SunoTypes
<1>22. SameAttempt(j)
  BY <1>2, <1>6 DEF SameAttempt, JobGood, ObjectFits, Working, Closing
<1>23. \A k \in Jobs \ {j} : Kept(k) /\ job'[k] = job[k]
  BY <1>3, <1>5, <1>6 DEF Kept
<1>24. Stage(j) # "waiting" /\ job'[j].at # "waiting" /\ job'[j].held = job[j].held
  BY <1>2, <1>6 DEF Stage
<1> QED
  BY <1>3, <1>20, <1>21, <1>22, <1>23, <1>24, QuietStep

LEMMA EnqueueKeeps ==
  ASSUME SunoInv, NEW j \in Jobs, Enqueue(j)
  PROVE  SunoInv'
<1>1. SunoTypes /\ GateFits /\ LoadFits /\ (\A k \in Jobs : JobGood(k)) /\ JobGood(j)
      /\ job[j] \in JobObject
  BY DEF SunoInv, SunoTypes
<1>2. job[j].at = "enqueue" /\ entry' = Added(j) /\ GoTo(j, "queued")
  BY DEF Enqueue, Stage
<1>3. /\ gate' = gate /\ load' = load /\ row' = row /\ ledger' = ledger
      /\ boot' = boot /\ songs' = songs /\ stranded' = stranded /\ torn' = torn
  BY DEF Enqueue, hist
<1>4. /\ entry' \in [Jobs -> {"none", "wait", "active", "done"}]
      /\ \A k \in Jobs \ {j} : entry'[k] = entry[k]
  BY <1>1, <1>2, AddedParts
<1>6. /\ job' \in [Jobs -> JobObject]
      /\ job'[j].at = "queued" /\ job'[j].status = job[j].status /\ job'[j].held = job[j].held
      /\ job'[j].attempt = job[j].attempt /\ job'[j].account = job[j].account
      /\ \A k \in Jobs \ {j} : job'[k] = job[k]
  BY <1>1, <1>2, GoToParts DEF Stages
<1>20. JobGood(j)'
  <2>1. ObjectFits(job[j])'
    BY <1>1, <1>2, <1>3, <1>4, <1>6 DEF JobGood, ObjectFits, Working, Closing, Terminal
  <2>2. Placed(j)'
    BY <1>1, <1>2, <1>3, <1>4, <1>6 DEF JobGood, Placed, ObjectFits, Stage
  <2>3. Booted(j)'
    BY <1>1, <1>2, <1>3, <1>4, <1>6 DEF JobGood, Placed, Booted, Stage, Terminal, Unfinished
  <2>4. Told(j)'
    BY <1>1, <1>2, <1>3, <1>4, <1>6 DEF JobGood, Told, Stage, Terminal, Closing, ObjectFits
  <2>5. Refunded(j)' /\ Sung(j)'
    BY <1>1, <1>2, <1>3, <1>4, <1>6 DEF JobGood, Refunded, Sung, Stage, Closing, Terminal, Unfinished
  <2> QED
    BY <2>1, <2>2, <2>3, <2>4, <2>5 DEF JobGood
<1>21. SunoTypes'
  BY <1>1, <1>3, <1>4, <1>6 DEF SunoTypes
<1>22. SameAttempt(j)
  BY <1>2, <1>6 DEF SameAttempt, JobGood, ObjectFits, Working, Closing
<1>23. \A k \in Jobs \ {j} : Kept(k) /\ job'[k] = job[k]
  BY <1>3, <1>4, <1>6 DEF Kept
<1>24. Stage(j) # "waiting" /\ job'[j].at # "waiting" /\ job'[j].held = job[j].held
  BY <1>2, <1>6 DEF Stage
<1> QED
  BY <1>3, <1>20, <1>21, <1>22, <1>23, <1>24, QuietStep

LEMMA ConsumeKeeps ==
  ASSUME SunoInv, NEW j \in Jobs, Consume(j)
  PROVE  SunoInv'
<1>1. SunoTypes /\ GateFits /\ LoadFits /\ (\A k \in Jobs : JobGood(k)) /\ JobGood(j)
      /\ job[j] \in JobObject
  BY DEF SunoInv, SunoTypes
<1> DEFINE c == IF Stage(j) = "gone" THEN Object("admit", row[j]) ELSE job[j]
<1>2. /\ boot.at # "down" /\ entry[j] = "wait" /\ job[j].at \in {"queued", "gone"}
      /\ \/ Terminal(c.status) /\ entry' = [entry EXCEPT ![j] = "done"] /\ job' = job
         \/ ~Terminal(c.status) /\ entry' = [entry EXCEPT ![j] = "active"]
            /\ Set(j, [c EXCEPT !.at = "admit"])
  BY DEF Consume, NothingToDo, Running, Stage
<1>3. /\ gate' = gate /\ load' = load /\ row' = row /\ ledger' = ledger
      /\ boot' = boot /\ songs' = songs /\ stranded' = stranded /\ torn' = torn
  BY DEF Consume, hist
<1>4. /\ entry' \in [Jobs -> {"none", "wait", "active", "done"}] /\ entry'[j] \in {"active", "done"}
      /\ \A k \in Jobs \ {j} : entry'[k] = entry[k]
  BY <1>1, <1>2 DEF SunoTypes
<1>5. job[j].held = FALSE /\ job[j].attempt = "no"
  BY <1>1, <1>2 DEF JobGood, ObjectFits, Working, Closing, JobObject
<1>6. c \in JobObject /\ c.held = FALSE /\ c.attempt = "no" /\ (job[j].at = "gone" => c.status = row[j])
  <2>1. row[j] \in {"pending", "running", "complete", "error"}
    BY <1>1, <1>2 DEF JobGood, Placed, SunoTypes
  <2>2. "admit" \in Stages
    BY DEF Stages
  <2>3. CASE Stage(j) = "gone"
    <3>1. c = Object("admit", row[j])
      BY <2>3
    <3>2. /\ Object("admit", row[j]) \in JobObject /\ Object("admit", row[j]).held = FALSE
          /\ Object("admit", row[j]).attempt = "no" /\ Object("admit", row[j]).status = row[j]
      <4>1. PICK s \in {"pending", "running", "complete", "error"} : s = row[j]
        BY <2>1
      <4>2. /\ Object("admit", s) \in JobObject /\ Object("admit", s).held = FALSE
            /\ Object("admit", s).attempt = "no" /\ Object("admit", s).status = s
        BY <2>2, <4>1, SunoAssumption DEF Object, JobObject
      <4> QED
        BY <4>1, <4>2
    <3> HIDE DEF c
    <3> QED
      BY <3>1, <3>2
  <2>4. CASE Stage(j) # "gone"
    BY <1>1, <1>5, <2>4 DEF Stage
  <2> QED
    BY <2>3, <2>4
<1> HIDE DEF c
<1>7. CASE Terminal(c.status) /\ entry' = [entry EXCEPT ![j] = "done"] /\ job' = job
  <2>1. entry'[j] = "done"
    BY <1>1, <1>7 DEF SunoTypes
  <2>2. JobGood(j)'
    <3>1. ObjectFits(job[j])'
      BY <1>1, <1>2, <1>3, <1>7, <2>1 DEF JobGood, ObjectFits, Working, Closing, Terminal
    <3>2. Placed(j)'
      BY <1>1, <1>2, <1>3, <1>7, <2>1 DEF JobGood, Placed, ObjectFits, Stage
    <3>3. Booted(j)'
      BY <1>1, <1>2, <1>3, <1>7, <2>1 DEF JobGood, Placed, Booted, Stage, Terminal, Unfinished
    <3>4. Told(j)'
      BY <1>1, <1>2, <1>3, <1>7, <2>1 DEF JobGood, Told, Stage, Terminal, Closing, ObjectFits
    <3>5. Refunded(j)' /\ Sung(j)'
      BY <1>1, <1>2, <1>3, <1>7, <2>1 DEF JobGood, Refunded, Sung, Stage, Closing, Terminal, Unfinished
    <3> QED
      BY <3>1, <3>2, <3>3, <3>4, <3>5 DEF JobGood
  <2>3. SunoTypes'
    BY <1>1, <1>3, <1>4, <1>7 DEF SunoTypes
  <2>4. SameAttempt(j) /\ \A k \in Jobs \ {j} : Kept(k) /\ job'[k] = job[k]
    BY <1>3, <1>4, <1>7 DEF SameAttempt, Kept
  <2> QED
    BY <1>2, <1>3, <1>7, <2>2, <2>3, <2>4, QuietStep DEF Stage
<1>8. CASE ~Terminal(c.status) /\ Set(j, [c EXCEPT !.at = "admit"])
  <2> DEFINE o == [c EXCEPT !.at = "admit"]
  <2>1. o \in JobObject /\ o.at = "admit" /\ o.held = FALSE /\ o.attempt = "no"
    BY <1>6 DEF JobObject, Stages
  <2>2. Set(j, o)
    BY <1>8
  <2> HIDE DEF o
  <2>3. job' \in [Jobs -> JobObject] /\ job'[j] = o /\ \A k \in Jobs \ {j} : job'[k] = job[k]
    BY <1>1, <2>1, <2>2, SetParts
  <2>4. JobGood(j)'
    <3>1. ObjectFits(job[j])'
      BY <1>1, <1>2, <1>3, <1>4, <1>6, <1>8, <2>1, <2>3
      DEF JobGood, ObjectFits, Working, Closing, Terminal
    <3>2. Placed(j)'
      BY <1>1, <1>2, <1>3, <1>4, <1>6, <1>8, <2>1, <2>3 DEF JobGood, Placed, ObjectFits, Stage
    <3>3. Booted(j)'
      BY <1>1, <1>2, <1>3, <1>4, <1>6, <1>8, <2>1, <2>3
      DEF JobGood, Placed, Booted, Stage, Terminal, Unfinished
    <3>4. Told(j)'
      BY <1>1, <1>2, <1>3, <1>4, <1>6, <1>8, <2>1, <2>3
      DEF JobGood, Told, Stage, Terminal, Closing, ObjectFits
    <3>5. Refunded(j)' /\ Sung(j)'
      BY <1>1, <1>2, <1>3, <1>4, <1>6, <1>8, <2>1, <2>3
      DEF JobGood, Refunded, Sung, Stage, Closing, Terminal, Unfinished
    <3> QED
      BY <3>1, <3>2, <3>3, <3>4, <3>5 DEF JobGood
  <2>5. SunoTypes'
    BY <1>1, <1>3, <1>4, <2>3 DEF SunoTypes
  <2>6. SameAttempt(j) /\ \A k \in Jobs \ {j} : Kept(k) /\ job'[k] = job[k]
    BY <1>3, <1>4, <1>5, <2>1, <2>3 DEF SameAttempt, Kept
  <2> QED
    BY <1>2, <1>3, <1>5, <2>1, <2>3, <2>4, <2>5, <2>6, QuietStep DEF Stage
<1> QED
  BY <1>2, <1>7, <1>8

LEMMA ForgetKeeps ==
  ASSUME SunoInv, NEW j \in Jobs, Forget(j)
  PROVE  SunoInv'
<1>1. SunoTypes /\ GateFits /\ LoadFits /\ (\A k \in Jobs : JobGood(k)) /\ JobGood(j)
      /\ job[j] \in JobObject
  BY DEF SunoInv, SunoTypes
<1>2. entry[j] = "done" /\ entry' = [entry EXCEPT ![j] = "none"] /\ job' = job
  BY DEF Forget, mem
<1>3. /\ gate' = gate /\ load' = load /\ row' = row /\ ledger' = ledger
      /\ boot' = boot /\ songs' = songs /\ stranded' = stranded /\ torn' = torn
  BY DEF Forget, hist, mem
<1>4. /\ entry' \in [Jobs -> {"none", "wait", "active", "done"}] /\ entry'[j] = "none"
      /\ \A k \in Jobs \ {j} : entry'[k] = entry[k]
  BY <1>1, <1>2 DEF SunoTypes
<1>20. JobGood(j)'
  <2>1. ObjectFits(job[j])'
    BY <1>1, <1>2, <1>3, <1>4 DEF JobGood, ObjectFits, Working, Closing, Terminal
  <2>2. Placed(j)'
    BY <1>1, <1>2, <1>3, <1>4 DEF JobGood, Placed, ObjectFits, Stage
  <2>3. Booted(j)'
    BY <1>1, <1>2, <1>3, <1>4 DEF JobGood, Placed, Booted, Stage, Terminal, Unfinished
  <2>4. Told(j)'
    BY <1>1, <1>2, <1>3, <1>4 DEF JobGood, Told, Stage, Terminal, Closing, ObjectFits
  <2>5. Refunded(j)' /\ Sung(j)'
    BY <1>1, <1>2, <1>3, <1>4 DEF JobGood, Refunded, Sung, Stage, Closing, Terminal, Unfinished
  <2> QED
    BY <2>1, <2>2, <2>3, <2>4, <2>5 DEF JobGood
<1>21. SunoTypes'
  BY <1>1, <1>2, <1>3, <1>4 DEF SunoTypes
<1>22. \A k \in Jobs \ {j} : Kept(k) /\ Beside(k)
  BY <1>2, <1>3, <1>4 DEF Kept, Beside
<1>23. GateFits' /\ LoadFits'
  BY <1>1, <1>2, <1>3 DEF GateFits, Fits, Held, WaitingJobs, Stage, LoadFits, Busy
<1> QED
  BY <1>20, <1>21, <1>22, <1>23, Advance
-------------------------------------------------------------------------------
(* A slot at once or a place in the queue. *)
LEMMA AcquireParts ==
  ASSUME SunoInv, NEW j \in Jobs, job[j].at \in {"none", "admit"}, Acquire(j)
  PROVE  /\ GateFits' /\ job' \in [Jobs -> JobObject]
         /\ \A k \in Jobs \ {j} : job'[k] = job[k]
         /\ job'[j].attempt = "no" /\ job[j].attempt = "no"
         /\ \/ job'[j].at = "begin" /\ job'[j].held
            \/ job'[j].at = "waiting" /\ ~job'[j].held
<1>1. SunoTypes /\ GateFits /\ LoadFits /\ (\A k \in Jobs : JobGood(k)) /\ JobGood(j)
      /\ job[j] \in JobObject
  BY DEF SunoInv, SunoTypes
<1>2. ~job[j].held /\ job[j].attempt = "no"
  BY <1>1 DEF JobGood, ObjectFits, Working, Closing
<1>3. j \notin Held /\ j \notin WaitingJobs
  BY <1>2 DEF Held, WaitingJobs, Stage
<1>4. Fits(gate, Held, WaitingJobs)
  BY <1>1 DEF GateFits
<1>5. CASE /\ CanStart(gate, j) /\ gate' = StartIn(gate, j)
           /\ Set(j, [job[j] EXCEPT !.at = "begin", !.held = TRUE])
  <2> DEFINE o == [job[j] EXCEPT !.at = "begin", !.held = TRUE]
  <2>1. o \in JobObject /\ o.at = "begin" /\ o.held = TRUE /\ o.attempt = job[j].attempt
    BY <1>1 DEF JobObject, Stages
  <2>2. Set(j, o)
    BY <1>5
  <2> HIDE DEF o
  <2>3. job' \in [Jobs -> JobObject] /\ job'[j] = o /\ \A k \in Jobs \ {j} : job'[k] = job[k]
    BY <1>1, <2>1, <2>2, SetParts
  <2>4. Held' = Held \cup {j}
    BY <2>1, <2>3 DEF Held
  <2>5. WaitingJobs' = WaitingJobs
    BY <2>1, <2>3 DEF WaitingJobs, Stage
  <2>6. Fits(gate', Held \cup {j}, WaitingJobs)
    BY <1>3, <1>4, <1>5, FitsStart
  <2>7. GateFits'
    BY <2>4, <2>5, <2>6 DEF GateFits, Fits
  <2> QED
    BY <1>2, <2>1, <2>3, <2>7
<1>6. CASE ~CanStart(gate, j) /\ gate' = Enqueued(gate, j) /\ GoTo(j, "waiting")
  <2>1. /\ job' \in [Jobs -> JobObject] /\ \A k \in Jobs \ {j} : job'[k] = job[k]
        /\ job'[j].at = "waiting" /\ job'[j].held = job[j].held /\ job'[j].attempt = job[j].attempt
    BY <1>1, <1>6, GoToParts DEF Stages
  <2>2. Held' = Held
    BY <2>1 DEF Held
  <2>3. WaitingJobs' = WaitingJobs \cup {j}
    BY <2>1 DEF WaitingJobs, Stage
  <2>4. Fits(gate', Held, WaitingJobs \cup {j})
    BY <1>3, <1>4, <1>6, FitsEnqueue
  <2>5. GateFits'
    BY <2>2, <2>3, <2>4 DEF GateFits, Fits
  <2> QED
    BY <1>2, <2>1, <2>5
<1> QED
  BY <1>5, <1>6 DEF Acquire

LEMMA AdmitKeeps ==
  ASSUME SunoInv, NEW j \in Jobs, Admit(j)
  PROVE  SunoInv'
<1>1. SunoTypes /\ GateFits /\ LoadFits /\ (\A k \in Jobs : JobGood(k)) /\ JobGood(j)
      /\ job[j] \in JobObject
  BY DEF SunoInv, SunoTypes
<1>2. job[j].at = "admit"
  BY DEF Admit, Stage
<1>3. /\ load' = load /\ row' = row /\ ledger' = ledger /\ entry' = entry
      /\ boot' = boot /\ songs' = songs /\ stranded' = stranded /\ torn' = torn
  BY DEF Admit, db, hist
<1>7. CASE Acquire(j)
  <2>1. /\ GateFits' /\ job' \in [Jobs -> JobObject]
        /\ \A k \in Jobs \ {j} : job'[k] = job[k]
        /\ job'[j].attempt = "no" /\ job[j].attempt = "no"
        /\ \/ job'[j].at = "begin" /\ job'[j].held
           \/ job'[j].at = "waiting" /\ ~job'[j].held
    BY <1>2, <1>7, AcquireParts
  <2>2. JobGood(j)'
    <3>1. ObjectFits(job[j])'
      BY <1>1, <1>2, <1>3, <2>1 DEF JobGood, ObjectFits, Working, Closing, Terminal
    <3>2. Placed(j)'
      BY <1>1, <1>2, <1>3, <2>1 DEF JobGood, Placed, ObjectFits, Stage
    <3>3. Booted(j)'
      BY <1>1, <1>2, <1>3, <2>1 DEF JobGood, Placed, Booted, Stage, Terminal, Unfinished
    <3>4. Told(j)'
      BY <1>1, <1>2, <1>3, <2>1 DEF JobGood, Told, Stage, Terminal, Closing, ObjectFits
    <3>5. Refunded(j)' /\ Sung(j)'
      BY <1>1, <1>2, <1>3, <2>1 DEF JobGood, Refunded, Sung, Stage, Closing, Terminal, Unfinished
    <3> QED
      BY <3>1, <3>2, <3>3, <3>4, <3>5 DEF JobGood
  <2>3. SunoTypes'
    BY <1>1, <1>3, <2>1 DEF SunoTypes
  <2>4. LoadFits'
    <3>1. \A k \in Jobs : SameAttempt(k)
      BY <2>1 DEF SameAttempt
    <3> QED
      BY <1>1, <1>3, <3>1, LoadStays
  <2>5. \A k \in Jobs \ {j} : Kept(k) /\ Beside(k)
    BY <1>3, <2>1 DEF Kept, Beside
  <2> QED
    BY <2>1, <2>2, <2>3, <2>4, <2>5, Advance
<1>8. CASE Conclude(j, "error", "no") /\ gate' = gate
  <2>1. /\ job' \in [Jobs -> JobObject]
        /\ job'[j].at = "final" /\ job'[j].status = "error" /\ job'[j].held = job[j].held
        /\ job'[j].attempt = "no"
        /\ \A k \in Jobs \ {j} : job'[k] = job[k]
    BY <1>1, <1>8, ConcludeParts
  <2>2. JobGood(j)'
    <3>1. ObjectFits(job[j])'
      BY <1>1, <1>2, <1>3, <2>1 DEF JobGood, ObjectFits, Working, Closing, Terminal
    <3>2. Placed(j)'
      BY <1>1, <1>2, <1>3, <2>1 DEF JobGood, Placed, ObjectFits, Stage
    <3>3. Booted(j)'
      BY <1>1, <1>2, <1>3, <2>1 DEF JobGood, Placed, Booted, Stage, Terminal, Unfinished
    <3>4. Told(j)'
      BY <1>1, <1>2, <1>3, <2>1 DEF JobGood, Told, Stage, Terminal, Closing, ObjectFits
    <3>5. Refunded(j)' /\ Sung(j)'
      BY <1>1, <1>2, <1>3, <2>1 DEF JobGood, Refunded, Sung, Stage, Closing, Terminal, Unfinished
    <3> QED
      BY <3>1, <3>2, <3>3, <3>4, <3>5 DEF JobGood
  <2>3. SunoTypes'
    BY <1>1, <1>3, <2>1 DEF SunoTypes
  <2>4. SameAttempt(j)
    BY <1>1, <1>2, <2>1 DEF SameAttempt, JobGood, ObjectFits, Closing
  <2>5. \A k \in Jobs \ {j} : Kept(k) /\ job'[k] = job[k]
    BY <1>3, <2>1 DEF Kept
  <2> QED
    BY <1>2, <1>3, <1>8, <2>1, <2>2, <2>3, <2>4, <2>5, QuietStep DEF Stage
<1> QED
  BY <1>7, <1>8 DEF Admit

LEMMA ArriveKeeps ==
  ASSUME SunoInv, NEW j \in Jobs, Arrive(j)
  PROVE  SunoInv'
<1>1. SunoTypes /\ GateFits /\ LoadFits /\ (\A k \in Jobs : JobGood(k)) /\ JobGood(j)
      /\ job[j] \in JobObject
  BY DEF SunoInv, SunoTypes
<1>2. j \in Crowd /\ boot.at = "up" /\ job[j].at = "none" /\ Acquire(j)
  BY DEF Arrive, Stage, Up
<1>3. /\ load' = load /\ row' = row /\ ledger' = ledger /\ entry' = entry
      /\ boot' = boot /\ songs' = songs /\ stranded' = stranded /\ torn' = torn
  BY DEF Arrive, db, hist
<1>4. /\ GateFits' /\ job' \in [Jobs -> JobObject]
      /\ \A k \in Jobs \ {j} : job'[k] = job[k]
      /\ job'[j].attempt = "no" /\ job[j].attempt = "no"
      /\ \/ job'[j].at = "begin" /\ job'[j].held
         \/ job'[j].at = "waiting" /\ ~job'[j].held
  BY <1>2, AcquireParts
<1>20. JobGood(j)'
  <2>1. ObjectFits(job[j])'
    BY <1>1, <1>2, <1>3, <1>4 DEF JobGood, ObjectFits, Working, Closing, Terminal
  <2>2. Placed(j)'
    BY <1>1, <1>2, <1>3, <1>4 DEF JobGood, Placed, ObjectFits, Stage
  <2>3. Booted(j)'
    BY <1>1, <1>2, <1>3, <1>4 DEF JobGood, Placed, Booted, Stage, Terminal, Unfinished
  <2>4. Told(j)'
    BY <1>1, <1>2, <1>3, <1>4 DEF JobGood, Told, Stage, Terminal, Closing, ObjectFits
  <2>5. Refunded(j)' /\ Sung(j)'
    BY <1>1, <1>2, <1>3, <1>4 DEF JobGood, Refunded, Sung, Stage, Closing, Terminal, Unfinished
  <2> QED
    BY <2>1, <2>2, <2>3, <2>4, <2>5 DEF JobGood
<1>21. SunoTypes'
  BY <1>1, <1>3, <1>4 DEF SunoTypes
<1>22. LoadFits'
  <2>1. \A k \in Jobs : SameAttempt(k)
    BY <1>4 DEF SameAttempt
  <2> QED
    BY <1>1, <1>3, <2>1, LoadStays
<1>23. \A k \in Jobs \ {j} : Kept(k) /\ Beside(k)
  BY <1>3, <1>4 DEF Kept, Beside
<1> QED
  BY <1>4, <1>20, <1>21, <1>22, <1>23, Advance

LEMMA LeaveKeeps ==
  ASSUME SunoInv, NEW j \in Jobs, Leave(j)
  PROVE  SunoInv'
<1>1. SunoTypes /\ GateFits /\ LoadFits /\ (\A k \in Jobs : JobGood(k)) /\ JobGood(j)
      /\ job[j] \in JobObject
  BY DEF SunoInv, SunoTypes
<1> DEFINE o == Object("none", "pending")
<1>2. j \in Crowd /\ job[j].at = "begin" /\ LeaveSlot(j, o)
  BY DEF Leave, Stage
<1>3. /\ load' = load /\ row' = row /\ ledger' = ledger /\ entry' = entry
      /\ boot' = boot /\ songs' = songs /\ stranded' = stranded /\ torn' = torn
  BY DEF Leave, db, hist
<1>4. o \in JobObject /\ o.at = "none" /\ o.status = "pending"
  BY ObjectParts DEF Stages
<1> HIDE DEF o
<1>5. /\ GateFits' /\ job' \in [Jobs -> JobObject]
      /\ job'[j].at = "none" /\ job'[j].status = "pending" /\ ~job'[j].held
      /\ job'[j].attempt = "no"
      /\ \A k \in Jobs \ {j} : Beside(k)
  BY <1>1, <1>2, <1>4, LeaveParts DEF Stage
<1>20. JobGood(j)'
  <2>1. ObjectFits(job[j])'
    BY <1>1, <1>2, <1>3, <1>5 DEF JobGood, ObjectFits, Working, Closing, Terminal
  <2>2. Placed(j)'
    BY <1>1, <1>2, <1>3, <1>5 DEF JobGood, Placed, ObjectFits, Stage
  <2>3. Booted(j)'
    BY <1>1, <1>2, <1>3, <1>5 DEF JobGood, Placed, Booted, Stage, Terminal, Unfinished
  <2>4. Told(j)'
    BY <1>1, <1>2, <1>3, <1>5 DEF JobGood, Told, Stage, Terminal, Closing, ObjectFits
  <2>5. Refunded(j)' /\ Sung(j)'
    BY <1>1, <1>2, <1>3, <1>5 DEF JobGood, Refunded, Sung, Stage, Closing, Terminal, Unfinished
  <2> QED
    BY <2>1, <2>2, <2>3, <2>4, <2>5 DEF JobGood
<1>21. SunoTypes'
  BY <1>1, <1>3, <1>5 DEF SunoTypes
<1>22. LoadFits'
  <2>1. SameAttempt(j)
    BY <1>1, <1>2, <1>5 DEF SameAttempt, JobGood, ObjectFits, Closing
  <2>2. \A k \in Jobs : SameAttempt(k)
    BY <1>5, <2>1, BesideAttempt
  <2> QED
    BY <1>1, <1>3, <2>2, LoadStays
<1>23. \A k \in Jobs \ {j} : Kept(k) /\ Beside(k)
  BY <1>3, <1>5 DEF Kept
<1> QED
  BY <1>5, <1>20, <1>21, <1>22, <1>23, Advance

LEMMA BeginJobKeeps ==
  ASSUME SunoInv, NEW j \in Jobs, BeginJob(j)
  PROVE  SunoInv'
<1>1. SunoTypes /\ GateFits /\ LoadFits /\ (\A k \in Jobs : JobGood(k)) /\ JobGood(j)
      /\ job[j] \in JobObject
  BY DEF SunoInv, SunoTypes
<1>2. job[j].at = "begin" /\ Save(j, job[j].status) /\ GoTo(j, "pick") /\ j \notin Crowd
  BY DEF BeginJob, Stage
<1>3. /\ gate' = gate /\ load' = load /\ ledger' = ledger /\ entry' = entry
      /\ boot' = boot /\ songs' = songs /\ stranded' = stranded /\ torn' = torn
  BY DEF BeginJob, hist
<1>4. job[j].status \in {"pending", "running", "complete", "error"}
  BY <1>1 DEF JobObject
<1>5. /\ row' \in [Jobs -> {"none", "pending", "running", "complete", "error"}]
      /\ row'[j] = job[j].status /\ \A k \in Jobs \ {j} : row'[k] = row[k]
  BY <1>1, <1>2, <1>4, SaveParts
<1>6. /\ job' \in [Jobs -> JobObject]
      /\ job'[j].at = "pick" /\ job'[j].status = job[j].status /\ job'[j].held = job[j].held
      /\ job'[j].attempt = job[j].attempt /\ job'[j].account = job[j].account
      /\ \A k \in Jobs \ {j} : job'[k] = job[k]
  BY <1>1, <1>2, GoToParts DEF Stages
<1>20. JobGood(j)'
  <2>1. ObjectFits(job[j])'
    BY <1>1, <1>2, <1>3, <1>4, <1>5, <1>6 DEF JobGood, ObjectFits, Working, Closing, Terminal
  <2>2. Placed(j)'
    BY <1>1, <1>2, <1>3, <1>4, <1>5, <1>6 DEF JobGood, Placed, ObjectFits, Stage
  <2>3. Booted(j)'
    BY <1>1, <1>2, <1>3, <1>4, <1>5, <1>6 DEF JobGood, Placed, Booted, Stage, Terminal, Unfinished
  <2>4. Told(j)'
    BY <1>1, <1>2, <1>3, <1>4, <1>5, <1>6 DEF JobGood, Told, Stage, Terminal, Closing, ObjectFits
  <2>5. Refunded(j)' /\ Sung(j)'
    BY <1>1, <1>2, <1>3, <1>4, <1>5, <1>6
    DEF JobGood, Refunded, Sung, Stage, Closing, Terminal, Unfinished
  <2> QED
    BY <2>1, <2>2, <2>3, <2>4, <2>5 DEF JobGood
<1>21. SunoTypes'
  BY <1>1, <1>3, <1>5, <1>6 DEF SunoTypes
<1>22. SameAttempt(j)
  BY <1>2, <1>6 DEF SameAttempt, JobGood, ObjectFits, Working, Closing
<1>23. \A k \in Jobs \ {j} : Kept(k) /\ job'[k] = job[k]
  BY <1>3, <1>5, <1>6 DEF Kept
<1>24. Stage(j) # "waiting" /\ job'[j].at # "waiting" /\ job'[j].held = job[j].held
  BY <1>2, <1>6 DEF Stage
<1> QED
  BY <1>3, <1>20, <1>21, <1>22, <1>23, <1>24, QuietStep

LEMMA SaveFinalKeeps ==
  ASSUME SunoInv, NEW j \in Jobs, SaveFinal(j)
  PROVE  SunoInv'
<1>1. SunoTypes /\ GateFits /\ LoadFits /\ (\A k \in Jobs : JobGood(k)) /\ JobGood(j)
      /\ job[j] \in JobObject
  BY DEF SunoInv, SunoTypes
<1>2. job[j].at = "final" /\ Save(j, job[j].status) /\ GoTo(j, "settle")
  BY DEF SaveFinal, Stage
<1>3. /\ gate' = gate /\ load' = load /\ ledger' = ledger /\ entry' = entry
      /\ boot' = boot /\ songs' = songs /\ stranded' = stranded /\ torn' = torn
  BY DEF SaveFinal, hist
<1>4. job[j].status \in {"pending", "running", "complete", "error"}
  BY <1>1 DEF JobObject
<1>5. /\ row' \in [Jobs -> {"none", "pending", "running", "complete", "error"}]
      /\ row'[j] = job[j].status /\ \A k \in Jobs \ {j} : row'[k] = row[k]
  BY <1>1, <1>2, <1>4, SaveParts
<1>6. /\ job' \in [Jobs -> JobObject]
      /\ job'[j].at = "settle" /\ job'[j].status = job[j].status /\ job'[j].held = job[j].held
      /\ job'[j].attempt = job[j].attempt /\ job'[j].account = job[j].account
      /\ \A k \in Jobs \ {j} : job'[k] = job[k]
  BY <1>1, <1>2, GoToParts DEF Stages
<1>20. JobGood(j)'
  <2>1. ObjectFits(job[j])'
    BY <1>1, <1>2, <1>3, <1>4, <1>5, <1>6 DEF JobGood, ObjectFits, Working, Closing, Terminal
  <2>2. Placed(j)'
    BY <1>1, <1>2, <1>3, <1>4, <1>5, <1>6 DEF JobGood, Placed, ObjectFits, Stage
  <2>3. Booted(j)'
    BY <1>1, <1>2, <1>3, <1>4, <1>5, <1>6 DEF JobGood, Placed, Booted, Stage, Terminal, Unfinished
  <2>4. Told(j)'
    BY <1>1, <1>2, <1>3, <1>4, <1>5, <1>6 DEF JobGood, Told, Stage, Terminal, Closing, ObjectFits
  <2>5. Refunded(j)' /\ Sung(j)'
    BY <1>1, <1>2, <1>3, <1>4, <1>5, <1>6
    DEF JobGood, Refunded, Sung, Stage, Closing, Terminal, Unfinished
  <2> QED
    BY <2>1, <2>2, <2>3, <2>4, <2>5 DEF JobGood
<1>21. SunoTypes'
  BY <1>1, <1>3, <1>5, <1>6 DEF SunoTypes
<1>22. SameAttempt(j)
  BY <1>2, <1>6 DEF SameAttempt, JobGood, ObjectFits, Working, Closing
<1>23. \A k \in Jobs \ {j} : Kept(k) /\ job'[k] = job[k]
  BY <1>3, <1>5, <1>6 DEF Kept
<1>24. Stage(j) # "waiting" /\ job'[j].at # "waiting" /\ job'[j].held = job[j].held
  BY <1>2, <1>6 DEF Stage
<1> QED
  BY <1>3, <1>20, <1>21, <1>22, <1>23, <1>24, QuietStep
-------------------------------------------------------------------------------
LEMMA NotedParts ==
  ASSUME NEW errs \in {"none", "capacity", "other", "mixed"}, NEW kind \in {"capacity", "other"}
  PROVE  Noted(errs, kind) \in {"none", "capacity", "other", "mixed"}
BY DEF Noted

(* The last account tried was in vain, inside an attempt or before the next. *)
LEMMA GiveUpParts ==
  ASSUME SunoTypes, NEW j \in Jobs, job[j].held, NEW errs, GiveUp(j, errs)
  PROVE  /\ job' \in [Jobs -> JobObject] /\ \A k \in Jobs \ {j} : job'[k] = job[k]
         /\ job'[j].held /\ job'[j].attempt = "no"
         /\ \/ job'[j].at = "defer" /\ job'[j].held
            \/ job'[j].at = "final" /\ job'[j].status = "error"
<1>1. job[j].deferrals \in 0..DeferLimit
  BY DEF SunoTypes, JobObject
<1>2. CASE Defers(j, errs)
  <2> DEFINE x == Object("defer", "pending")
             n == job[j].deferrals + 1
             o == [x EXCEPT !.held = TRUE, !.deferrals = n]
  <2>1. x \in JobObject /\ x.at = "defer" /\ x.attempt = "no"
    BY ObjectParts DEF Stages
  <2>2. n \in 0..DeferLimit
    BY <1>1, <1>2, SunoAssumption DEF Defers
  <2>3. Set(j, o)
    BY <1>2 DEF GiveUp
  <2> HIDE DEF x, n
  <2>4. o \in JobObject /\ o.at = "defer" /\ o.held /\ o.attempt = "no"
    BY <2>1, <2>2 DEF JobObject
  <2> HIDE DEF o
  <2> QED
    BY <2>3, <2>4, SetParts
<1>3. CASE ~Defers(j, errs)
  <2>1. Conclude(j, "error", "no")
    BY <1>3 DEF GiveUp
  <2> QED
    BY <2>1, ConcludeParts
<1> QED
  BY <1>2, <1>3

LEMMA RetryParts ==
  ASSUME SunoTypes, NEW j \in Jobs, job[j].held, NEW kind \in {"capacity", "other"}, Retry(j, kind)
  PROVE  /\ load' = LoadWithout(j)
         /\ job' \in [Jobs -> JobObject] /\ \A k \in Jobs \ {j} : job'[k] = job[k]
         /\ job'[j].held /\ job'[j].attempt = "no"
         /\ \/ job'[j].at = "pick"
            \/ job'[j].at = "defer" /\ job'[j].held
            \/ job'[j].at = "final" /\ job'[j].status = "error"
<1>1. job[j] \in JobObject
  BY DEF SunoTypes
<1>2. job[j].errs \in {"none", "capacity", "other", "mixed"}
  BY <1>1 DEF JobObject
<1> DEFINE n == Noted(job[j].errs, kind)
<1>3. n \in {"none", "capacity", "other", "mixed"}
  BY <1>2, NotedParts
<1>4. load' = LoadWithout(j)
  BY DEF Retry
<1>5. CASE Set(j, [job[j] EXCEPT !.at = "pick", !.attempt = "no", !.account = NoAccount, !.errs = n])
  <2> DEFINE o == [job[j] EXCEPT !.at = "pick", !.attempt = "no", !.account = NoAccount, !.errs = n]
  <2>1. Set(j, o)
    BY <1>5
  <2> HIDE DEF n
  <2>2. o \in JobObject /\ o.at = "pick" /\ o.attempt = "no" /\ o.held = job[j].held
    BY <1>1, <1>3 DEF JobObject, Stages
  <2> HIDE DEF o
  <2> QED
    BY <1>4, <2>1, <2>2, SetParts
<1>6. CASE GiveUp(j, n)
  <2> HIDE DEF n
  <2> QED
    BY <1>4, <1>6, GiveUpParts
<1> QED
  BY <1>5, <1>6 DEF Retry

LEMMA PickKeeps ==
  ASSUME SunoInv, NEW j \in Jobs, Pick(j)
  PROVE  SunoInv'
<1>1. SunoTypes /\ GateFits /\ LoadFits /\ (\A k \in Jobs : JobGood(k)) /\ JobGood(j)
      /\ job[j] \in JobObject
  BY DEF SunoInv, SunoTypes
<1>2. job[j].at = "pick"
  BY DEF Pick, Stage
<1>3. /\ gate' = gate /\ load' = load /\ row' = row /\ ledger' = ledger
      /\ entry' = entry /\ boot' = boot /\ songs' = songs /\ stranded' = stranded /\ torn' = torn
  BY DEF Pick, db, hist
<1>4. job[j].held /\ job[j].attempt = "no" /\ j \notin Crowd
  BY <1>1, <1>2 DEF JobGood, ObjectFits, Working, Closing, Placed, Stage
<1>5. /\ job' \in [Jobs -> JobObject] /\ \A k \in Jobs \ {j} : job'[k] = job[k]
      /\ job'[j].held /\ job'[j].attempt = "no"
      /\ \/ job'[j].at = "start" /\ job'[j].account \in Accounts
         \/ job'[j].at = "defer"
         \/ job'[j].at = "final" /\ job'[j].status = "error"
  <2>1. CASE \E a \in Accounts \ job[j].tried :
                Set(j, [job[j] EXCEPT !.at = "start", !.status = "running", !.account = a,
                                      !.tried = @ \cup {a}])
    <3>1. PICK a \in Accounts :
                Set(j, [job[j] EXCEPT !.at = "start", !.status = "running", !.account = a,
                                      !.tried = job[j].tried \cup {a}])
      BY <2>1
    <3> DEFINE t == job[j].tried \cup {a}
               o == [job[j] EXCEPT !.at = "start", !.status = "running", !.account = a, !.tried = t]
    <3>2. t \in SUBSET Accounts
      BY <1>1 DEF JobObject
    <3>3. Set(j, o)
      BY <3>1
    <3> HIDE DEF t
    <3>4. /\ o \in JobObject /\ o.at = "start" /\ o.held = job[j].held
          /\ o.attempt = job[j].attempt /\ o.account = a
      BY <1>1, <3>2 DEF JobObject, Stages
    <3> HIDE DEF o
    <3> QED
      BY <1>1, <1>4, <3>3, <3>4, SetParts
  <2>2. CASE \E kind \in {"capacity", "other"} : GiveUp(j, Noted(job[j].errs, kind))
    <3>1. PICK kind : GiveUp(j, Noted(job[j].errs, kind))
      BY <2>2
    <3> QED
      BY <1>1, <1>4, <3>1, GiveUpParts
  <2> QED
    BY <2>1, <2>2 DEF Pick
<1>20. JobGood(j)'
  <2>1. ObjectFits(job[j])'
    BY <1>1, <1>2, <1>3, <1>4, <1>5 DEF JobGood, ObjectFits, Working, Closing, Terminal
  <2>2. Placed(j)'
    BY <1>1, <1>2, <1>3, <1>4, <1>5 DEF JobGood, Placed, ObjectFits, Stage
  <2>3. Booted(j)'
    BY <1>1, <1>2, <1>3, <1>4, <1>5 DEF JobGood, Placed, Booted, Stage, Terminal, Unfinished
  <2>4. Told(j)'
    BY <1>1, <1>2, <1>3, <1>4, <1>5 DEF JobGood, Told, Stage, Terminal, Closing, ObjectFits
  <2>5. Refunded(j)' /\ Sung(j)'
    BY <1>1, <1>2, <1>3, <1>4, <1>5 DEF JobGood, Refunded, Sung, Stage, Closing, Terminal, Unfinished
  <2> QED
    BY <2>1, <2>2, <2>3, <2>4, <2>5 DEF JobGood
<1>21. SunoTypes'
  BY <1>1, <1>3, <1>5 DEF SunoTypes
<1>22. SameAttempt(j) /\ Stage(j) # "waiting" /\ job'[j].at # "waiting" /\ job'[j].held = job[j].held
  <2>1. job[j].held \in BOOLEAN /\ job'[j].held \in BOOLEAN
    BY <1>1, <1>5 DEF JobObject
  <2> QED
    BY <1>2, <1>4, <1>5, <2>1 DEF SameAttempt, Stage
<1>23. \A k \in Jobs \ {j} : Kept(k) /\ job'[k] = job[k]
  BY <1>3, <1>5 DEF Kept
<1> QED
  BY <1>3, <1>20, <1>21, <1>22, <1>23, QuietStep

LEMMA StartAttemptKeeps ==
  ASSUME SunoInv, NEW j \in Jobs, StartAttempt(j)
  PROVE  SunoInv'
<1>1. SunoTypes /\ GateFits /\ LoadFits /\ (\A k \in Jobs : JobGood(k)) /\ JobGood(j)
      /\ job[j] \in JobObject
  BY DEF SunoInv, SunoTypes
<1> DEFINE o == [job[j] EXCEPT !.at = "submit", !.attempt = "try"]
<1>2. /\ job[j].at = "start" /\ Save(j, job[j].status) /\ Set(j, o)
      /\ load' = [load EXCEPT ![job[j].account] = @ + 1]
  BY DEF StartAttempt, Stage
<1>3. /\ gate' = gate /\ ledger' = ledger /\ entry' = entry
      /\ boot' = boot /\ songs' = songs /\ stranded' = stranded /\ torn' = torn
  BY DEF StartAttempt, hist
<1>4. job[j].status \in {"pending", "running", "complete", "error"}
  BY <1>1 DEF JobObject
<1>5. /\ row' \in [Jobs -> {"none", "pending", "running", "complete", "error"}]
      /\ row'[j] = job[j].status /\ \A k \in Jobs \ {j} : row'[k] = row[k]
  BY <1>1, <1>2, <1>4, SaveParts
<1>6. /\ o \in JobObject /\ o.at = "submit" /\ o.attempt = "try" /\ o.held = job[j].held
      /\ o.account = job[j].account /\ o.status = job[j].status
  BY <1>1 DEF JobObject, Stages
<1> HIDE DEF o
<1>7. job' \in [Jobs -> JobObject] /\ job'[j] = o /\ \A k \in Jobs \ {j} : job'[k] = job[k]
  BY <1>1, <1>2, <1>6, SetParts
<1>8. job[j].held /\ job[j].attempt = "no" /\ job[j].account \in Accounts /\ j \notin Crowd
  BY <1>1, <1>2 DEF JobGood, ObjectFits, Working, Closing, Placed, Stage
<1>20. JobGood(j)'
  <2>1. ObjectFits(job[j])'
    BY <1>1, <1>2, <1>3, <1>4, <1>5, <1>6, <1>7, <1>8 DEF JobGood, ObjectFits, Working, Closing, Terminal
  <2>2. Placed(j)'
    BY <1>1, <1>2, <1>3, <1>4, <1>5, <1>6, <1>7, <1>8 DEF JobGood, Placed, ObjectFits, Stage
  <2>3. Booted(j)'
    BY <1>1, <1>2, <1>3, <1>4, <1>5, <1>6, <1>7, <1>8
    DEF JobGood, Placed, Booted, Stage, Terminal, Unfinished
  <2>4. Told(j)'
    BY <1>1, <1>2, <1>3, <1>4, <1>5, <1>6, <1>7, <1>8
    DEF JobGood, Told, Stage, Terminal, Closing, ObjectFits
  <2>5. Refunded(j)' /\ Sung(j)'
    BY <1>1, <1>2, <1>3, <1>4, <1>5, <1>6, <1>7, <1>8
    DEF JobGood, Refunded, Sung, Stage, Closing, Terminal, Unfinished
  <2> QED
    BY <2>1, <2>2, <2>3, <2>4, <2>5 DEF JobGood
<1>21. GateFits'
  BY <1>1, <1>2, <1>3, <1>6, <1>7, GateStays DEF Stage
<1>22. LoadFits' /\ load' \in [Accounts -> Nat]
  <2>1. \A k \in Jobs \ {j} : SameAttempt(k)
    BY <1>7 DEF SameAttempt
  <2>2. job'[j].attempt # "no" /\ job'[j].account = job[j].account
    BY <1>6, <1>7
  <2> QED
    BY <1>1, <1>2, <1>8, <2>1, <2>2, LoadRises
<1>23. SunoTypes'
  BY <1>1, <1>3, <1>5, <1>7, <1>22 DEF SunoTypes
<1>24. \A k \in Jobs \ {j} : Kept(k) /\ Beside(k)
  BY <1>3, <1>5, <1>7 DEF Kept, Beside
<1> QED
  BY <1>20, <1>21, <1>22, <1>23, <1>24, Advance

(* An attempt that ends without leaving the worker's slot. *)
LEMMA AttemptEnds ==
  ASSUME SunoInv, NEW j \in Jobs, gate' = gate, load' = LoadWithout(j),
         Stage(j) # "waiting", job'[j].at # "waiting", job'[j].held = job[j].held, job'[j].attempt = "no",
         \A k \in Jobs \ {j} : job'[k] = job[k]
  PROVE  GateFits' /\ LoadFits' /\ load' \in [Accounts -> Nat]
<1>1. SunoTypes /\ GateFits /\ LoadFits /\ \A k \in Jobs : JobGood(k)
  BY DEF SunoInv
<1>2. GateFits'
  BY <1>1, GateStays
<1>3. \A k \in Jobs \ {j} : SameAttempt(k)
  BY DEF SameAttempt
<1> QED
  BY <1>1, <1>2, <1>3, LoadDrops

LEMMA SubmitKeeps ==
  ASSUME SunoInv, NEW j \in Jobs, Submit(j)
  PROVE  SunoInv'
<1>1. SunoTypes /\ GateFits /\ LoadFits /\ (\A k \in Jobs : JobGood(k)) /\ JobGood(j)
      /\ job[j] \in JobObject
  BY DEF SunoInv, SunoTypes
<1>2. job[j].at = "submit"
  BY DEF Submit, Stage
<1>3. /\ gate' = gate /\ row' = row /\ ledger' = ledger /\ entry' = entry
      /\ boot' = boot /\ stranded' = stranded /\ torn' = torn
  BY DEF Submit, db
<1>4. job[j].held /\ job[j].attempt = "try" /\ j \notin Crowd
  BY <1>1, <1>2 DEF JobGood, ObjectFits, Working, Closing, Placed, Stage
<1>5. songs[j] = 0
  BY <1>1, <1>2 DEF JobGood, Sung, Stage, Closing, SunoTypes
<1>6. job[j].held \in BOOLEAN
  BY <1>1 DEF JobObject
<1>7. CASE /\ songs' = [songs EXCEPT ![j] = @ + 1]
           /\ \E status \in {"complete", "error"} :
                Set(j, [job[j] EXCEPT !.at = "final", !.status = status, !.attempt = "try"])
           /\ load' = load
  <2>1. PICK status \in {"complete", "error"} :
                Set(j, [job[j] EXCEPT !.at = "final", !.status = status, !.attempt = "try"])
    BY <1>7
  <2> DEFINE o == [job[j] EXCEPT !.at = "final", !.status = status, !.attempt = "try"]
  <2>2. /\ o \in JobObject /\ o.at = "final" /\ o.status = status /\ o.attempt = "try"
        /\ o.held = job[j].held /\ o.account = job[j].account
    BY <1>1 DEF JobObject, Stages
  <2>3. Set(j, o)
    BY <2>1
  <2> HIDE DEF o
  <2>4. job' \in [Jobs -> JobObject] /\ job'[j] = o /\ \A k \in Jobs \ {j} : job'[k] = job[k]
    BY <1>1, <2>2, <2>3, SetParts
  <2>5. songs' \in [Jobs -> {0, 1}] /\ \A k \in Jobs \ {j} : songs'[k] = songs[k]
    BY <1>1, <1>5, <1>7 DEF SunoTypes
  <2>6. JobGood(j)'
    <3>1. ObjectFits(job[j])'
      BY <1>1, <1>2, <1>3, <1>4, <2>2, <2>4 DEF JobGood, ObjectFits, Working, Closing, Terminal
    <3>2. Placed(j)'
      BY <1>1, <1>2, <1>3, <1>4, <2>2, <2>4 DEF JobGood, Placed, ObjectFits, Stage
    <3>3. Booted(j)'
      BY <1>1, <1>2, <1>3, <1>4, <2>2, <2>4 DEF JobGood, Placed, Booted, Stage, Terminal, Unfinished
    <3>4. Told(j)'
      BY <1>1, <1>2, <1>3, <1>4, <2>2, <2>4 DEF JobGood, Told, Stage, Terminal, Closing, ObjectFits
    <3>5. Refunded(j)' /\ Sung(j)'
      BY <1>1, <1>2, <1>3, <1>4, <2>2, <2>4
      DEF JobGood, Refunded, Sung, Stage, Closing, Terminal, Unfinished
    <3> QED
      BY <3>1, <3>2, <3>3, <3>4, <3>5 DEF JobGood
  <2>7. SunoTypes'
    BY <1>1, <1>3, <1>7, <2>4, <2>5 DEF SunoTypes
  <2>8. \A k \in Jobs \ {j} : Kept(k) /\ job'[k] = job[k]
    BY <1>3, <2>4, <2>5 DEF Kept
  <2>9. SameAttempt(j) /\ Stage(j) # "waiting" /\ job'[j].at # "waiting" /\ job'[j].held = job[j].held
    BY <1>2, <1>4, <2>2, <2>4 DEF SameAttempt, Stage
  <2> QED
    BY <1>3, <1>7, <2>6, <2>7, <2>8, <2>9, QuietStep
<1>8. CASE \E kind \in {"capacity", "other"} : Retry(j, kind) /\ songs' \in {songs, [songs EXCEPT ![j] = 0]}
  <2>1. /\ load' = LoadWithout(j)
        /\ job' \in [Jobs -> JobObject] /\ \A k \in Jobs \ {j} : job'[k] = job[k]
        /\ job'[j].held /\ job'[j].attempt = "no"
        /\ \/ job'[j].at = "pick"
           \/ job'[j].at = "defer" /\ job'[j].held
           \/ job'[j].at = "final" /\ job'[j].status = "error"
    <3>1. PICK kind \in {"capacity", "other"} : Retry(j, kind)
      BY <1>8
    <3> QED
      BY <1>1, <1>4, <3>1, RetryParts
  <2>2. songs' \in [Jobs -> {0, 1}] /\ songs'[j] = 0 /\ \A k \in Jobs \ {j} : songs'[k] = songs[k]
    BY <1>1, <1>5, <1>8 DEF SunoTypes
  <2>3. JobGood(j)'
    <3>1. ObjectFits(job[j])'
      BY <1>1, <1>2, <1>3, <1>4, <2>1, <2>2 DEF JobGood, ObjectFits, Working, Closing, Terminal
    <3>2. Placed(j)'
      BY <1>1, <1>2, <1>3, <1>4, <2>1, <2>2 DEF JobGood, Placed, ObjectFits, Stage
    <3>3. Booted(j)'
      BY <1>1, <1>2, <1>3, <1>4, <2>1, <2>2 DEF JobGood, Placed, Booted, Stage, Terminal, Unfinished
    <3>4. Told(j)'
      BY <1>1, <1>2, <1>3, <1>4, <2>1, <2>2 DEF JobGood, Told, Stage, Terminal, Closing, ObjectFits
    <3>5. Refunded(j)' /\ Sung(j)'
      BY <1>1, <1>2, <1>3, <1>4, <2>1, <2>2
      DEF JobGood, Refunded, Sung, Stage, Closing, Terminal, Unfinished
    <3> QED
      BY <3>1, <3>2, <3>3, <3>4, <3>5 DEF JobGood
  <2>4. job'[j].held = job[j].held /\ Stage(j) # "waiting" /\ job'[j].at # "waiting"
    <3>1. job'[j].held \in BOOLEAN
      BY <2>1 DEF JobObject
    <3> QED
      BY <1>2, <1>4, <1>6, <2>1, <3>1 DEF Stage
  <2>5. GateFits' /\ LoadFits' /\ load' \in [Accounts -> Nat]
    BY <1>3, <2>1, <2>4, AttemptEnds
  <2>6. SunoTypes'
    BY <1>1, <1>3, <2>1, <2>2, <2>5 DEF SunoTypes
  <2>7. \A k \in Jobs \ {j} : Kept(k) /\ Beside(k)
    BY <1>3, <2>1, <2>2 DEF Kept, Beside
  <2> QED
    BY <2>3, <2>5, <2>6, <2>7, Advance
<1>9. CASE Conclude(j, "error", "catch") /\ load' = load /\ songs' = songs
  <2>1. /\ job' \in [Jobs -> JobObject] /\ \A k \in Jobs \ {j} : job'[k] = job[k]
        /\ job'[j].at = "final" /\ job'[j].status = "error" /\ job'[j].held = job[j].held
        /\ job'[j].attempt = "catch" /\ job'[j].account = job[j].account
    BY <1>1, <1>9, ConcludeParts
  <2>2. JobGood(j)'
    <3>1. ObjectFits(job[j])'
      BY <1>1, <1>2, <1>3, <1>4, <1>9, <2>1 DEF JobGood, ObjectFits, Working, Closing, Terminal
    <3>2. Placed(j)'
      BY <1>1, <1>2, <1>3, <1>4, <1>9, <2>1 DEF JobGood, Placed, ObjectFits, Stage
    <3>3. Booted(j)'
      BY <1>1, <1>2, <1>3, <1>4, <1>9, <2>1 DEF JobGood, Placed, Booted, Stage, Terminal, Unfinished
    <3>4. Told(j)'
      BY <1>1, <1>2, <1>3, <1>4, <1>9, <2>1 DEF JobGood, Told, Stage, Terminal, Closing, ObjectFits
    <3>5. Refunded(j)' /\ Sung(j)'
      BY <1>1, <1>2, <1>3, <1>4, <1>9, <2>1
      DEF JobGood, Refunded, Sung, Stage, Closing, Terminal, Unfinished
    <3> QED
      BY <3>1, <3>2, <3>3, <3>4, <3>5 DEF JobGood
  <2>3. SunoTypes'
    BY <1>1, <1>3, <1>9, <2>1 DEF SunoTypes
  <2>4. SameAttempt(j) /\ Stage(j) # "waiting" /\ job'[j].at # "waiting"
    BY <1>2, <1>4, <2>1 DEF SameAttempt, Stage
  <2>5. \A k \in Jobs \ {j} : Kept(k) /\ job'[k] = job[k]
    BY <1>3, <1>9, <2>1 DEF Kept
  <2> QED
    BY <1>3, <1>9, <2>1, <2>2, <2>3, <2>4, <2>5, QuietStep
<1> QED
  BY <1>7, <1>8, <1>9 DEF Submit
-------------------------------------------------------------------------------
LEMMA DeferKeeps ==
  ASSUME SunoInv, NEW j \in Jobs, Defer(j)
  PROVE  SunoInv'
<1>1. SunoTypes /\ GateFits /\ LoadFits /\ (\A k \in Jobs : JobGood(k)) /\ JobGood(j)
      /\ job[j] \in JobObject
  BY DEF SunoInv, SunoTypes
<1> DEFINE o == [job[j] EXCEPT !.at = "admit"]
<1>2. job[j].at = "defer" /\ Save(j, "pending") /\ LeaveSlot(j, o) /\ entry' = EntryDone(j)
  BY DEF Defer, Stage
<1>3. /\ load' = load /\ ledger' = ledger
      /\ boot' = boot /\ songs' = songs /\ stranded' = stranded /\ torn' = torn
  BY DEF Defer, hist
<1>4. o \in JobObject /\ o.at = "admit" /\ o.status = job[j].status
  BY <1>1 DEF JobObject, Stages
<1> HIDE DEF o
<1>5. /\ GateFits' /\ job' \in [Jobs -> JobObject]
      /\ job'[j].at = "admit" /\ job'[j].status = job[j].status /\ ~job'[j].held
      /\ job'[j].attempt = "no"
      /\ \A k \in Jobs \ {j} : Beside(k)
  BY <1>1, <1>2, <1>4, LeaveParts DEF Stage
<1>6. /\ row' \in [Jobs -> {"none", "pending", "running", "complete", "error"}]
      /\ row'[j] = "pending" /\ \A k \in Jobs \ {j} : row'[k] = row[k]
  BY <1>1, <1>2, SaveParts
<1>7. /\ entry' \in [Jobs -> {"none", "wait", "active", "done"}]
      /\ entry'[j] = IF entry[j] = "active" THEN "done" ELSE entry[j]
      /\ \A k \in Jobs \ {j} : entry'[k] = entry[k]
  BY <1>1, <1>2, DoneParts
<1>8. job[j].attempt = "no" /\ j \notin Crowd
  BY <1>1, <1>2 DEF JobGood, ObjectFits, Placed, Closing, Stage
<1>20. JobGood(j)'
  <2>1. ObjectFits(job[j])'
    BY <1>1, <1>2, <1>3, <1>5, <1>6, <1>7, <1>8 DEF JobGood, ObjectFits, Working, Closing, Terminal
  <2>2. Placed(j)'
    BY <1>1, <1>2, <1>3, <1>5, <1>6, <1>7, <1>8 DEF JobGood, Placed, ObjectFits, Stage
  <2>3. Booted(j)'
    BY <1>1, <1>2, <1>3, <1>5, <1>6, <1>7, <1>8 DEF JobGood, Placed, Booted, Stage, Terminal, Unfinished
  <2>4. Told(j)'
    BY <1>1, <1>2, <1>3, <1>5, <1>6, <1>7, <1>8 DEF JobGood, Told, Stage, Terminal, Closing, ObjectFits
  <2>5. Refunded(j)' /\ Sung(j)'
    BY <1>1, <1>2, <1>3, <1>5, <1>6, <1>7, <1>8
    DEF JobGood, Refunded, Sung, Stage, Closing, Terminal, Unfinished
  <2> QED
    BY <2>1, <2>2, <2>3, <2>4, <2>5 DEF JobGood
<1>21. SunoTypes'
  BY <1>1, <1>3, <1>5, <1>6, <1>7 DEF SunoTypes
<1>22. LoadFits'
  <2>1. \A k \in Jobs : SameAttempt(k)
    BY <1>5, <1>8, BesideAttempt DEF SameAttempt
  <2> QED
    BY <1>1, <1>3, <2>1, LoadStays
<1>23. \A k \in Jobs \ {j} : Kept(k) /\ Beside(k)
  BY <1>3, <1>5, <1>6, <1>7 DEF Kept
<1> QED
  BY <1>5, <1>20, <1>21, <1>22, <1>23, Advance

LEMMA SettledParts ==
  ASSUME SunoTypes, NEW j \in Jobs, NEW status, ledger' = [ledger EXCEPT ![j] = Settled(@, status)]
  PROVE  /\ ledger' \in [Jobs -> [refunds : {0, 1}, told : {"none", "complete", "error"}]]
         /\ ledger'[j].refunds = IF status = "error" THEN 1 ELSE ledger[j].refunds
         /\ ledger'[j].told = ledger[j].told
         /\ \A k \in Jobs \ {j} : ledger'[k] = ledger[k]
<1>1. ledger[j] \in [refunds : {0, 1}, told : {"none", "complete", "error"}]
  BY DEF SunoTypes
<1> DEFINE s == Settled(ledger[j], status)
<1>2. /\ s \in [refunds : {0, 1}, told : {"none", "complete", "error"}]
      /\ s.refunds = IF status = "error" THEN 1 ELSE ledger[j].refunds
      /\ s.told = ledger[j].told
  <2>1. CASE status = "error" /\ ledger[j].refunds = 0
    <3>1. s = [ledger[j] EXCEPT !.refunds = 1]
      BY <2>1 DEF Settled
    <3> HIDE DEF s
    <3> QED
      BY <1>1, <2>1, <3>1
  <2>2. CASE ~(status = "error" /\ ledger[j].refunds = 0)
    <3>1. s = ledger[j]
      BY <2>2 DEF Settled
    <3>2. ledger[j].refunds \in {0, 1}
      BY <1>1
    <3> HIDE DEF s
    <3> QED
      BY <1>1, <2>2, <3>1, <3>2
  <2> QED
    BY <2>1, <2>2
<1>3. ledger' = [ledger EXCEPT ![j] = s]
  OBVIOUS
<1> HIDE DEF s
<1> QED
  BY <1>2, <1>3 DEF SunoTypes

LEMMA SettleKeeps ==
  ASSUME SunoInv, NEW j \in Jobs, Settle(j)
  PROVE  SunoInv'
<1>1. SunoTypes /\ GateFits /\ LoadFits /\ (\A k \in Jobs : JobGood(k)) /\ JobGood(j)
      /\ job[j] \in JobObject
  BY DEF SunoInv, SunoTypes
<1>2. job[j].at = "settle" /\ GoTo(j, "notify") /\ ledger' = [ledger EXCEPT ![j] = Settled(@, job[j].status)]
  BY DEF Settle, Stage
<1>3. /\ gate' = gate /\ load' = load /\ row' = row /\ entry' = entry
      /\ boot' = boot /\ songs' = songs /\ stranded' = stranded /\ torn' = torn
  BY DEF Settle, hist
<1>4. /\ ledger' \in [Jobs -> [refunds : {0, 1}, told : {"none", "complete", "error"}]]
      /\ ledger'[j].refunds = IF job[j].status = "error" THEN 1 ELSE ledger[j].refunds
      /\ ledger'[j].told = ledger[j].told
      /\ \A k \in Jobs \ {j} : ledger'[k] = ledger[k]
  BY <1>1, <1>2, SettledParts
<1>5. ledger[j].refunds \in {0, 1} /\ job[j].status \in {"complete", "error"}
  BY <1>1, <1>2 DEF SunoTypes, JobGood, ObjectFits, Closing, Terminal
<1>6. /\ job' \in [Jobs -> JobObject]
      /\ job'[j].at = "notify" /\ job'[j].status = job[j].status /\ job'[j].held = job[j].held
      /\ job'[j].attempt = job[j].attempt /\ job'[j].account = job[j].account
      /\ \A k \in Jobs \ {j} : job'[k] = job[k]
  BY <1>1, <1>2, GoToParts DEF Stages
<1>20. JobGood(j)'
  <2>1. ObjectFits(job[j])'
    BY <1>1, <1>2, <1>3, <1>4, <1>5, <1>6 DEF JobGood, ObjectFits, Working, Closing, Terminal
  <2>2. Placed(j)'
    BY <1>1, <1>2, <1>3, <1>4, <1>5, <1>6 DEF JobGood, Placed, ObjectFits, Stage
  <2>3. Booted(j)'
    BY <1>1, <1>2, <1>3, <1>4, <1>5, <1>6 DEF JobGood, Placed, Booted, Stage, Terminal, Unfinished
  <2>4. Told(j)'
    BY <1>1, <1>2, <1>3, <1>4, <1>5, <1>6 DEF JobGood, Told, Stage, Terminal, Closing, ObjectFits
  <2>5. Refunded(j)' /\ Sung(j)'
    BY <1>1, <1>2, <1>3, <1>4, <1>5, <1>6
    DEF JobGood, Refunded, Sung, Stage, Closing, Terminal, Unfinished
  <2> QED
    BY <2>1, <2>2, <2>3, <2>4, <2>5 DEF JobGood
<1>21. SunoTypes'
  BY <1>1, <1>3, <1>4, <1>6 DEF SunoTypes
<1>22. SameAttempt(j)
  BY <1>2, <1>6 DEF SameAttempt, JobGood, ObjectFits, Working, Closing
<1>23. \A k \in Jobs \ {j} : Kept(k) /\ job'[k] = job[k]
  BY <1>3, <1>4, <1>6 DEF Kept
<1>24. Stage(j) # "waiting" /\ job'[j].at # "waiting" /\ job'[j].held = job[j].held
  BY <1>2, <1>6 DEF Stage
<1> QED
  BY <1>3, <1>20, <1>21, <1>22, <1>23, <1>24, QuietStep

(* What the end of a worker does, however it ends. *)
LEMMA EndParts ==
  ASSUME SunoInv, NEW j \in Jobs, Stage(j) # "waiting", End(j)
  PROVE  /\ GateFits' /\ job' \in [Jobs -> JobObject]
         /\ job'[j].at = "ended" /\ job'[j].status = job[j].status /\ ~job'[j].held
         /\ job'[j].attempt = "no"
         /\ \A k \in Jobs \ {j} : Beside(k)
         /\ LoadFits' /\ load' \in [Accounts -> Nat]
         /\ entry' \in [Jobs -> {"none", "wait", "active", "done"}]
         /\ entry'[j] = IF entry[j] = "active" THEN "done" ELSE entry[j]
         /\ \A k \in Jobs \ {j} : entry'[k] = entry[k]
<1>1. SunoTypes /\ GateFits /\ LoadFits /\ (\A k \in Jobs : JobGood(k)) /\ JobGood(j)
      /\ job[j] \in JobObject
  BY DEF SunoInv, SunoTypes
<1> DEFINE o == Object("ended", job[j].status)
<1>2. LeaveSlot(j, o) /\ load' = LoadWithout(j) /\ entry' = EntryDone(j)
  BY DEF End
<1>3. o \in JobObject /\ o.at = "ended" /\ o.status = job[j].status
  <2>1. job[j].status \in {"pending", "running", "complete", "error"}
    BY <1>1 DEF JobObject
  <2> QED
    BY <2>1, ObjectParts DEF Stages
<1> HIDE DEF o
<1>4. /\ GateFits' /\ job' \in [Jobs -> JobObject]
      /\ job'[j].at = "ended" /\ job'[j].status = job[j].status /\ ~job'[j].held
      /\ job'[j].attempt = "no"
      /\ \A k \in Jobs \ {j} : Beside(k)
  BY <1>1, <1>2, <1>3, LeaveParts
<1>5. LoadFits' /\ load' \in [Accounts -> Nat]
  BY <1>1, <1>2, <1>4, BesideAttempt, LoadDrops
<1> QED
  BY <1>1, <1>2, <1>4, <1>5, DoneParts

LEMMA NotifyKeeps ==
  ASSUME SunoInv, NEW j \in Jobs, Notify(j)
  PROVE  SunoInv'
<1>1. SunoTypes /\ GateFits /\ LoadFits /\ (\A k \in Jobs : JobGood(k)) /\ JobGood(j)
      /\ job[j] \in JobObject
  BY DEF SunoInv, SunoTypes
<1>2. job[j].at = "notify" /\ ledger' = [ledger EXCEPT ![j].told = job[j].status] /\ End(j)
  BY DEF Notify, Stage
<1>3. /\ row' = row /\ boot' = boot /\ songs' = songs /\ stranded' = stranded /\ torn' = torn
  BY DEF Notify, hist
<1>4. ledger[j].refunds \in {0, 1} /\ job[j].status \in {"complete", "error"}
  BY <1>1, <1>2 DEF SunoTypes, JobGood, ObjectFits, Closing, Terminal
<1>5. /\ ledger' \in [Jobs -> [refunds : {0, 1}, told : {"none", "complete", "error"}]]
      /\ ledger'[j].refunds = ledger[j].refunds /\ ledger'[j].told = job[j].status
      /\ \A k \in Jobs \ {j} : ledger'[k] = ledger[k]
  <2> DEFINE a == [ledger[j] EXCEPT !.told = job[j].status]
  <2>1. ledger' = [ledger EXCEPT ![j] = a]
    BY <1>2
  <2>2. /\ a \in [refunds : {0, 1}, told : {"none", "complete", "error"}]
        /\ a.refunds = ledger[j].refunds /\ a.told = job[j].status
    BY <1>1, <1>4 DEF SunoTypes
  <2> HIDE DEF a
  <2> QED
    BY <1>1, <2>1, <2>2 DEF SunoTypes
<1>6. /\ GateFits' /\ job' \in [Jobs -> JobObject]
      /\ job'[j].at = "ended" /\ job'[j].status = job[j].status /\ ~job'[j].held
      /\ job'[j].attempt = "no"
      /\ \A k \in Jobs \ {j} : Beside(k)
      /\ LoadFits' /\ load' \in [Accounts -> Nat]
      /\ entry' \in [Jobs -> {"none", "wait", "active", "done"}]
      /\ entry'[j] = IF entry[j] = "active" THEN "done" ELSE entry[j]
      /\ \A k \in Jobs \ {j} : entry'[k] = entry[k]
  BY <1>2, EndParts DEF Stage
<1>20. JobGood(j)'
  <2>1. ObjectFits(job[j])'
    BY <1>1, <1>2, <1>3, <1>4, <1>5, <1>6 DEF JobGood, ObjectFits, Working, Closing, Terminal
  <2>2. Placed(j)'
    BY <1>1, <1>2, <1>3, <1>4, <1>5, <1>6 DEF JobGood, Placed, ObjectFits, Stage
  <2>3. Booted(j)'
    BY <1>1, <1>2, <1>3, <1>4, <1>5, <1>6 DEF JobGood, Placed, Booted, Stage, Terminal, Unfinished
  <2>4. Told(j)'
    BY <1>1, <1>2, <1>3, <1>4, <1>5, <1>6 DEF JobGood, Told, Stage, Terminal, Closing, ObjectFits
  <2>5. Refunded(j)' /\ Sung(j)'
    BY <1>1, <1>2, <1>3, <1>4, <1>5, <1>6
    DEF JobGood, Told, Refunded, Sung, Stage, Closing, Terminal, Unfinished
  <2> QED
    BY <2>1, <2>2, <2>3, <2>4, <2>5 DEF JobGood
<1>21. SunoTypes'
  BY <1>1, <1>3, <1>5, <1>6 DEF SunoTypes
<1>22. \A k \in Jobs \ {j} : Kept(k) /\ Beside(k)
  BY <1>3, <1>5, <1>6 DEF Kept
<1> QED
  BY <1>6, <1>20, <1>21, <1>22, Advance

LEMMA ThrowKeeps ==
  ASSUME SunoInv, NEW j \in Jobs, Throw(j)
  PROVE  SunoInv'
<1>1. SunoTypes /\ GateFits /\ LoadFits /\ (\A k \in Jobs : JobGood(k)) /\ JobGood(j)
      /\ job[j] \in JobObject
  BY DEF SunoInv, SunoTypes
<1>2. boot.at = "up" /\ j \notin Crowd
  BY DEF Throw, Up
<1>3. row' = row /\ ledger' = ledger /\ boot' = boot
  BY DEF Throw
<1>4. job[j].held \in BOOLEAN
  BY <1>1 DEF JobObject
<1>5. CASE /\ Stage(j) \in {"persist", "enqueue"} /\ Conclude(j, "error", "no")
           /\ UNCHANGED <<gate, load, entry, hist>>
  <2>1. /\ job' \in [Jobs -> JobObject] /\ \A k \in Jobs \ {j} : job'[k] = job[k]
        /\ job'[j].at = "final" /\ job'[j].status = "error" /\ job'[j].held = job[j].held
        /\ job'[j].attempt = "no"
    BY <1>1, <1>5, ConcludeParts
  <2>2. /\ gate' = gate /\ load' = load /\ entry' = entry
        /\ songs' = songs /\ stranded' = stranded /\ torn' = torn
    BY <1>5 DEF hist
  <2>3. JobGood(j)'
    <3>1. ObjectFits(job[j])'
      BY <1>1, <1>2, <1>3, <1>5, <2>1, <2>2 DEF JobGood, ObjectFits, Working, Closing, Terminal
    <3>2. Placed(j)'
      BY <1>1, <1>2, <1>3, <1>5, <2>1, <2>2 DEF JobGood, Placed, ObjectFits, Stage
    <3>3. Booted(j)'
      BY <1>1, <1>2, <1>3, <1>5, <2>1, <2>2 DEF JobGood, Placed, Booted, Stage, Terminal, Unfinished
    <3>4. Told(j)'
      BY <1>1, <1>2, <1>3, <1>5, <2>1, <2>2 DEF JobGood, Told, Stage, Terminal, Closing, ObjectFits
    <3>5. Refunded(j)' /\ Sung(j)'
      BY <1>1, <1>2, <1>3, <1>5, <2>1, <2>2
      DEF JobGood, Refunded, Sung, Stage, Closing, Terminal, Unfinished
    <3> QED
      BY <3>1, <3>2, <3>3, <3>4, <3>5 DEF JobGood
  <2>4. SunoTypes'
    BY <1>1, <1>3, <2>1, <2>2 DEF SunoTypes
  <2>5. SameAttempt(j) /\ Stage(j) # "waiting" /\ job'[j].at # "waiting"
    BY <1>1, <1>5, <2>1 DEF SameAttempt, Stage, JobGood, ObjectFits, Closing
  <2>6. \A k \in Jobs \ {j} : Kept(k) /\ job'[k] = job[k]
    BY <1>3, <2>1, <2>2 DEF Kept
  <2> QED
    BY <2>1, <2>2, <2>3, <2>4, <2>5, <2>6, QuietStep
<1>6. CASE /\ Stage(j) \in {"final", "settle", "notify"} /\ job[j].attempt = "try"
           /\ torn' = IF ledger[j].refunds > 0 THEN torn \cup {j} ELSE torn
           /\ \/ Retry(j, "other") /\ songs' = [songs EXCEPT ![j] = 0]
              \/ Conclude(j, "error", "catch") /\ UNCHANGED <<load, songs>>
           /\ UNCHANGED <<gate, entry, stranded>>
  <2>1. /\ gate' = gate /\ entry' = entry /\ stranded' = stranded
        /\ \A k \in Jobs \ {j} : k \in torn' <=> k \in torn
        /\ j \notin torn' => j \notin torn /\ ledger[j].refunds = 0
    <3>1. ledger[j].refunds \in {0, 1}
      BY <1>1 DEF SunoTypes
    <3> QED
      BY <1>6, <3>1
  <2>2. job[j].held /\ Stage(j) # "waiting"
    BY <1>1, <1>6 DEF JobGood, ObjectFits
  <2>3. CASE Retry(j, "other") /\ songs' = [songs EXCEPT ![j] = 0]
    <3>1. /\ load' = LoadWithout(j)
          /\ job' \in [Jobs -> JobObject] /\ \A k \in Jobs \ {j} : job'[k] = job[k]
          /\ job'[j].held /\ job'[j].attempt = "no"
          /\ \/ job'[j].at = "pick"
             \/ job'[j].at = "defer" /\ job'[j].held
             \/ job'[j].at = "final" /\ job'[j].status = "error"
      BY <1>1, <2>2, <2>3, RetryParts
    <3>2. songs' \in [Jobs -> {0, 1}] /\ songs'[j] = 0 /\ \A k \in Jobs \ {j} : songs'[k] = songs[k]
      BY <1>1, <2>3 DEF SunoTypes
    <3>3. JobGood(j)'
      <4>1. ObjectFits(job[j])'
        BY <1>1, <1>2, <1>3, <1>6, <2>1, <3>1, <3>2 DEF JobGood, ObjectFits, Working, Closing, Terminal
      <4>2. Placed(j)'
        BY <1>1, <1>2, <1>3, <1>6, <2>1, <3>1, <3>2 DEF JobGood, Placed, ObjectFits, Stage
      <4>3. Booted(j)'
        BY <1>1, <1>2, <1>3, <1>6, <2>1, <3>1, <3>2
        DEF JobGood, Placed, Booted, Stage, Terminal, Unfinished
      <4>4. Told(j)'
        BY <1>1, <1>2, <1>3, <1>6, <2>1, <3>1, <3>2
        DEF JobGood, Told, Stage, Terminal, Closing, ObjectFits
      <4>5. Refunded(j)' /\ Sung(j)'
        BY <1>1, <1>2, <1>3, <1>6, <2>1, <3>1, <3>2
        DEF JobGood, Refunded, Sung, Stage, Closing, Terminal, Unfinished
      <4> QED
        BY <4>1, <4>2, <4>3, <4>4, <4>5 DEF JobGood
    <3>4. job'[j].held = job[j].held /\ job'[j].at # "waiting"
      <4>1. job'[j].held \in BOOLEAN
        BY <3>1 DEF JobObject
      <4> QED
        BY <1>4, <2>2, <3>1, <4>1
    <3>5. GateFits' /\ LoadFits' /\ load' \in [Accounts -> Nat]
      BY <2>1, <2>2, <3>1, <3>4, AttemptEnds
    <3>6. SunoTypes'
      BY <1>1, <1>3, <2>1, <3>1, <3>2, <3>5 DEF SunoTypes
    <3>7. \A k \in Jobs \ {j} : Kept(k) /\ Beside(k)
      BY <1>3, <2>1, <3>1, <3>2 DEF Kept, Beside
    <3> QED
      BY <3>3, <3>5, <3>6, <3>7, Advance
  <2>4. CASE Conclude(j, "error", "catch") /\ load' = load /\ songs' = songs
    <3>1. /\ job' \in [Jobs -> JobObject] /\ \A k \in Jobs \ {j} : job'[k] = job[k]
          /\ job'[j].at = "final" /\ job'[j].status = "error" /\ job'[j].held = job[j].held
          /\ job'[j].attempt = "catch" /\ job'[j].account = job[j].account
      BY <1>1, <2>4, ConcludeParts
    <3>2. JobGood(j)'
      <4>1. ObjectFits(job[j])'
        BY <1>1, <1>2, <1>3, <1>6, <2>1, <2>2, <2>4, <3>1
        DEF JobGood, ObjectFits, Working, Closing, Terminal
      <4>2. Placed(j)'
        BY <1>1, <1>2, <1>3, <1>6, <2>1, <2>2, <2>4, <3>1 DEF JobGood, Placed, ObjectFits, Stage
      <4>3. Booted(j)'
        BY <1>1, <1>2, <1>3, <1>6, <2>1, <2>2, <2>4, <3>1
        DEF JobGood, Placed, Booted, Stage, Terminal, Unfinished
      <4>4. Told(j)'
        BY <1>1, <1>2, <1>3, <1>6, <2>1, <2>2, <2>4, <3>1
        DEF JobGood, Told, Stage, Terminal, Closing, ObjectFits
      <4>5. Refunded(j)' /\ Sung(j)'
        BY <1>1, <1>2, <1>3, <1>6, <2>1, <2>2, <2>4, <3>1
        DEF JobGood, Refunded, Sung, Stage, Closing, Terminal, Unfinished
      <4> QED
        BY <4>1, <4>2, <4>3, <4>4, <4>5 DEF JobGood
    <3>3. SunoTypes'
      BY <1>1, <1>3, <2>1, <2>4, <3>1 DEF SunoTypes
    <3>4. SameAttempt(j) /\ job'[j].at # "waiting"
      BY <1>6, <3>1 DEF SameAttempt
    <3>5. \A k \in Jobs \ {j} : Kept(k) /\ job'[k] = job[k]
      BY <1>3, <2>1, <2>4, <3>1 DEF Kept
    <3> QED
      BY <2>1, <2>2, <2>4, <3>1, <3>2, <3>3, <3>4, <3>5, QuietStep
  <2> QED
    BY <1>6, <2>3, <2>4
<1>7. CASE /\ Stage(j) \in {"admit", "begin", "start", "defer", "final", "settle", "notify"}
           /\ End(j) /\ stranded' = stranded \cup {j}
           /\ UNCHANGED <<songs, torn>>
  <2>1. /\ GateFits' /\ job' \in [Jobs -> JobObject]
        /\ job'[j].at = "ended" /\ job'[j].status = job[j].status /\ ~job'[j].held
        /\ job'[j].attempt = "no"
        /\ \A k \in Jobs \ {j} : Beside(k)
        /\ LoadFits' /\ load' \in [Accounts -> Nat]
        /\ entry' \in [Jobs -> {"none", "wait", "active", "done"}]
        /\ entry'[j] = IF entry[j] = "active" THEN "done" ELSE entry[j]
        /\ \A k \in Jobs \ {j} : entry'[k] = entry[k]
    BY <1>7, EndParts
  <2>2. /\ songs' = songs /\ torn' = torn /\ j \in stranded'
        /\ \A k \in Jobs \ {j} : k \in stranded' <=> k \in stranded
    BY <1>7
  <2>3. JobGood(j)'
    <3>1. ObjectFits(job[j])'
      BY <1>1, <1>2, <1>3, <1>7, <2>1, <2>2 DEF JobGood, ObjectFits, Working, Closing, Terminal
    <3>2. Placed(j)'
      BY <1>1, <1>2, <1>3, <1>7, <2>1, <2>2 DEF JobGood, Placed, ObjectFits, Stage
    <3>3. Booted(j)'
      BY <1>1, <1>2, <1>3, <1>7, <2>1, <2>2 DEF JobGood, Placed, Booted, Stage, Terminal, Unfinished
    <3>4. Told(j)'
      BY <1>1, <1>2, <1>3, <1>7, <2>1, <2>2 DEF JobGood, Told, Stage, Terminal, Closing, ObjectFits
    <3>5. Refunded(j)' /\ Sung(j)'
      BY <1>1, <1>2, <1>3, <1>7, <2>1, <2>2
      DEF JobGood, Refunded, Sung, Stage, Closing, Terminal, Unfinished
    <3> QED
      BY <3>1, <3>2, <3>3, <3>4, <3>5 DEF JobGood
  <2>4. SunoTypes'
    BY <1>1, <1>3, <2>1, <2>2 DEF SunoTypes
  <2>5. \A k \in Jobs \ {j} : Kept(k) /\ Beside(k)
    BY <1>3, <2>1, <2>2 DEF Kept
  <2> QED
    BY <2>1, <2>3, <2>4, <2>5, Advance
<1> QED
  BY <1>5, <1>6, <1>7 DEF Throw
-------------------------------------------------------------------------------
LEMMA CrashKeeps ==
  ASSUME SunoInv, Crash
  PROVE  SunoInv'
<1>1. SunoTypes /\ GateFits /\ LoadFits /\ (\A k \in Jobs : JobGood(k))
  BY DEF SunoInv, SunoTypes
<1>2. /\ gate' = EmptyGate /\ row' = row /\ ledger' = ledger /\ torn' = torn
      /\ load' = [a \in Accounts |-> 0]
      /\ boot' = [at |-> "down", todo |-> {}, now |-> {}]
  BY DEF Crash
<1>3. /\ boot' \in [at : {"up", "down", "reconcile", "recover"}, todo : SUBSET Jobs, now : SUBSET Jobs]
      /\ boot'.at = "down"
  BY <1>2
<1>4. /\ job' \in [Jobs -> JobObject]
      /\ \A k \in Jobs : /\ job'[k].at = IF Charged(k) THEN "gone" ELSE "none"
                         /\ job'[k].status = "pending" /\ ~job'[k].held
                         /\ job'[k].attempt = "no"
  <2>1. job' = [k \in Jobs |-> Object(IF Charged(k) THEN "gone" ELSE "none", "pending")]
    BY DEF Crash
  <2>2. ASSUME NEW at \in {"gone", "none"}
        PROVE  /\ Object(at, "pending") \in JobObject /\ Object(at, "pending").at = at
               /\ Object(at, "pending").status = "pending" /\ ~Object(at, "pending").held
               /\ Object(at, "pending").attempt = "no"
    BY SunoAssumption DEF Object, JobObject, Stages
  <2>3. ASSUME NEW k \in Jobs
        PROVE  /\ job'[k] \in JobObject /\ job'[k].at = IF Charged(k) THEN "gone" ELSE "none"
               /\ job'[k].status = "pending" /\ ~job'[k].held /\ job'[k].attempt = "no"
    <3>1. PICK at \in {"gone", "none"} : at = IF Charged(k) THEN "gone" ELSE "none"
      OBVIOUS
    <3>2. job'[k] = Object(at, "pending")
      BY <2>1, <3>1
    <3> QED
      BY <2>2, <3>1, <3>2
  <2>4. job' = [k \in Jobs |-> job'[k]]
    BY <2>1
  <2> QED
    BY <2>3, <2>4
<1>5. /\ entry' \in [Jobs -> {"none", "wait", "active", "done"}]
      /\ \A k \in Jobs : entry'[k] = IF entry[k] = "active" THEN "wait" ELSE entry[k]
  BY <1>1 DEF Crash, SunoTypes
<1>6. /\ songs' \in [Jobs -> {0, 1}]
      /\ \A k \in Jobs : songs'[k] = IF Terminal(row[k]) THEN songs[k] ELSE 0
  BY <1>1 DEF Crash, SunoTypes
<1>7. \A k \in Jobs : k \in stranded' <=> k \in stranded \/ (Charged(k) /\ row[k] = "none")
  BY DEF Crash
<1>8. SunoTypes'
  BY <1>1, <1>2, <1>3, <1>4, <1>5, <1>6 DEF SunoTypes
<1>9. GateFits'
  <2>1. Held' = {} /\ WaitingJobs' = {}
    BY <1>4 DEF Held, WaitingJobs, Stage
  <2> QED
    BY <1>2, <2>1, EmptyGateFits DEF GateFits
<1>10. LoadFits'
  <2>1. \A a : Busy(a)' = {}
    BY <1>4 DEF Busy
  <2> QED
    BY <1>2, <2>1, FS_EmptySet DEF LoadFits
<1>11. ASSUME NEW k \in Jobs PROVE JobGood(k)'
  <2>1. /\ JobGood(k) /\ (job[k].at = "none" => ~Charged(k)) /\ (k \in Crowd => ~Charged(k))
        /\ (row[k] # "none" \/ entry[k] # "none" => Charged(k))
        /\ ledger[k].told \in {"none", "complete", "error"}
    BY <1>1 DEF JobGood, Placed, Charged, Stage, SunoTypes
  <2>2. JobGood(k)'
    <3>1. ObjectFits(job[k])'
      BY <1>2, <1>3, <1>4, <1>5, <1>6, <1>7, <2>1 DEF JobGood, ObjectFits, Working, Closing, Terminal
    <3>2. Placed(k)'
      BY <1>2, <1>3, <1>4, <1>5, <1>6, <1>7, <2>1 DEF JobGood, Placed, ObjectFits, Stage
    <3>3. Booted(k)'
      BY <1>2, <1>3, <1>4, <1>5, <1>6, <1>7, <2>1
      DEF JobGood, Placed, Booted, Stage, Terminal, Unfinished
    <3>4. Told(k)'
      BY <1>2, <1>3, <1>4, <1>5, <1>6, <1>7, <2>1 DEF JobGood, Told, Stage, Terminal, Closing, ObjectFits
    <3>5. Refunded(k)' /\ Sung(k)'
      BY <1>2, <1>3, <1>4, <1>5, <1>6, <1>7, <2>1
      DEF JobGood, Refunded, Sung, Stage, Closing, Terminal, Unfinished
    <3> QED
      BY <3>1, <3>2, <3>3, <3>4, <3>5 DEF JobGood
  <2> QED
    BY <2>2
<1> QED
  BY <1>8, <1>9, <1>10, <1>11 DEF SunoInv

LEMMA RestartKeeps ==
  ASSUME SunoInv, Restart
  PROVE  SunoInv'
<1>1. SunoTypes /\ GateFits /\ LoadFits /\ (\A k \in Jobs : JobGood(k))
  BY DEF SunoInv, SunoTypes
<1>2. /\ job' = job /\ gate' = gate /\ load' = load
      /\ row' = row /\ ledger' = ledger /\ entry' = entry
      /\ songs' = songs /\ stranded' = stranded /\ torn' = torn
  BY DEF Restart, mem, db, hist
<1>3. /\ boot.at = "down"
      /\ boot' \in [at : {"up", "down", "reconcile", "recover"}, todo : SUBSET Jobs, now : SUBSET Jobs]
      /\ boot'.at = "reconcile"
      /\ \A k \in Jobs : k \in boot'.todo <=> row[k] = "error" /\ ledger[k].refunds = 0
  BY <1>1 DEF Restart, SunoTypes, Unfinished
<1>4. SunoTypes'
  BY <1>1, <1>2, <1>3 DEF SunoTypes
<1>5. GateFits' /\ LoadFits'
  BY <1>1, <1>2 DEF GateFits, Fits, Held, WaitingJobs, Stage, LoadFits, Busy
<1>6. ASSUME NEW k \in Jobs PROVE JobGood(k)'
  <2>1. JobGood(k)
    BY <1>1
  <2>2. JobGood(k)'
    <3>1. ObjectFits(job[k])'
      BY <1>2, <1>3, <2>1 DEF JobGood, ObjectFits, Working, Closing, Terminal
    <3>2. Placed(k)'
      BY <1>2, <1>3, <2>1 DEF JobGood, Placed, ObjectFits, Stage
    <3>3. Booted(k)'
      BY <1>2, <1>3, <2>1 DEF JobGood, Placed, Booted, Refunded, Stage, Terminal, Unfinished
    <3>4. Told(k)'
      BY <1>2, <1>3, <2>1 DEF JobGood, Told, Stage, Terminal, Closing, ObjectFits
    <3>5. Refunded(k)' /\ Sung(k)'
      BY <1>2, <1>3, <2>1
      DEF JobGood, Placed, Booted, Refunded, Sung, Stage, Closing, Terminal, Unfinished
    <3> QED
      BY <3>1, <3>2, <3>3, <3>4, <3>5 DEF JobGood
  <2> QED
    BY <2>2
<1> QED
  BY <1>4, <1>5, <1>6 DEF SunoInv

LEMMA SurveyKeeps ==
  ASSUME SunoInv, Survey
  PROVE  SunoInv'
<1>1. SunoTypes /\ GateFits /\ LoadFits /\ (\A k \in Jobs : JobGood(k))
  BY DEF SunoInv, SunoTypes
<1>2. /\ job' = job /\ gate' = gate /\ load' = load
      /\ row' = row /\ ledger' = ledger /\ entry' = entry
      /\ songs' = songs /\ stranded' = stranded /\ torn' = torn
  BY DEF Survey, mem, db, hist
<1>3. /\ boot.at = "reconcile" /\ boot.todo = {}
      /\ boot' \in [at : {"up", "down", "reconcile", "recover"}, todo : SUBSET Jobs, now : SUBSET Jobs]
      /\ boot'.at = "recover"
      /\ \A k \in Jobs : k \in boot'.todo <=> row[k] \in {"pending", "running"}
  BY <1>1 DEF Survey, SunoTypes, Unfinished
<1>4. SunoTypes'
  BY <1>1, <1>2, <1>3 DEF SunoTypes
<1>5. GateFits' /\ LoadFits'
  BY <1>1, <1>2 DEF GateFits, Fits, Held, WaitingJobs, Stage, LoadFits, Busy
<1>6. ASSUME NEW k \in Jobs PROVE JobGood(k)'
  <2>1. JobGood(k)
    BY <1>1
  <2>2. JobGood(k)'
    <3>1. ObjectFits(job[k])'
      BY <1>2, <1>3, <2>1 DEF JobGood, ObjectFits, Working, Closing, Terminal
    <3>2. Placed(k)'
      BY <1>2, <1>3, <2>1 DEF JobGood, Placed, ObjectFits, Stage
    <3>3. Booted(k)'
      BY <1>2, <1>3, <2>1 DEF JobGood, Placed, Booted, Refunded, Stage, Terminal, Unfinished
    <3>4. Told(k)'
      BY <1>2, <1>3, <2>1 DEF JobGood, Told, Stage, Terminal, Closing, ObjectFits
    <3>5. Refunded(k)' /\ Sung(k)'
      BY <1>2, <1>3, <2>1
      DEF JobGood, Placed, Booted, Refunded, Sung, Stage, Closing, Terminal, Unfinished
    <3> QED
      BY <3>1, <3>2, <3>3, <3>4, <3>5 DEF JobGood
  <2> QED
    BY <2>2
<1> QED
  BY <1>4, <1>5, <1>6 DEF SunoInv

LEMMA ReadyKeeps ==
  ASSUME SunoInv, Ready
  PROVE  SunoInv'
<1>1. SunoTypes /\ GateFits /\ LoadFits /\ (\A k \in Jobs : JobGood(k))
  BY DEF SunoInv, SunoTypes
<1>2. /\ job' = job /\ gate' = gate /\ load' = load
      /\ row' = row /\ ledger' = ledger /\ entry' = entry
      /\ songs' = songs /\ stranded' = stranded /\ torn' = torn
  BY DEF Ready, mem, db, hist
<1>3. /\ boot.at = "recover" /\ boot.todo = {}
      /\ boot' \in [at : {"up", "down", "reconcile", "recover"}, todo : SUBSET Jobs, now : SUBSET Jobs]
      /\ boot'.at = "up" /\ boot'.todo = {}
  BY <1>1 DEF Ready, SunoTypes, Unfinished
<1>4. SunoTypes'
  BY <1>1, <1>2, <1>3 DEF SunoTypes
<1>5. GateFits' /\ LoadFits'
  BY <1>1, <1>2 DEF GateFits, Fits, Held, WaitingJobs, Stage, LoadFits, Busy
<1>6. ASSUME NEW k \in Jobs PROVE JobGood(k)'
  <2>1. JobGood(k)
    BY <1>1
  <2>2. JobGood(k)'
    <3>1. ObjectFits(job[k])'
      BY <1>2, <1>3, <2>1 DEF JobGood, ObjectFits, Working, Closing, Terminal
    <3>2. Placed(k)'
      BY <1>2, <1>3, <2>1 DEF JobGood, Placed, ObjectFits, Stage
    <3>3. Booted(k)'
      BY <1>2, <1>3, <2>1 DEF JobGood, Placed, Booted, Refunded, Stage, Terminal, Unfinished
    <3>4. Told(k)'
      BY <1>2, <1>3, <2>1 DEF JobGood, Told, Stage, Terminal, Closing, ObjectFits
    <3>5. Refunded(k)' /\ Sung(k)'
      BY <1>2, <1>3, <2>1
      DEF JobGood, Placed, Booted, Refunded, Sung, Stage, Closing, Terminal, Unfinished
    <3> QED
      BY <3>1, <3>2, <3>3, <3>4, <3>5 DEF JobGood
  <2> QED
    BY <2>2
<1> QED
  BY <1>4, <1>5, <1>6 DEF SunoInv

LEMMA ReconcileKeeps ==
  ASSUME SunoInv, NEW j \in Jobs, Reconcile(j)
  PROVE  SunoInv'
<1>1. SunoTypes /\ GateFits /\ LoadFits /\ (\A k \in Jobs : JobGood(k)) /\ JobGood(j)
      /\ job[j] \in JobObject
  BY DEF SunoInv, SunoTypes
<1>2. /\ boot.at = "reconcile" /\ j \in boot.todo /\ boot' = [boot EXCEPT !.todo = @ \ {j}]
      /\ ledger' = [ledger EXCEPT ![j] = Settled(@, "error")] /\ stranded' = stranded \ {j}
  BY DEF Reconcile
<1>3. /\ job' = job /\ gate' = gate /\ load' = load /\ row' = row /\ entry' = entry
      /\ songs' = songs /\ torn' = torn
  BY DEF Reconcile, mem
<1>4. /\ ledger' \in [Jobs -> [refunds : {0, 1}, told : {"none", "complete", "error"}]]
      /\ ledger'[j].refunds = 1 /\ ledger'[j].told = ledger[j].told
      /\ \A k \in Jobs \ {j} : ledger'[k] = ledger[k]
  BY <1>1, <1>2, SettledParts
<1>5. /\ boot' \in [at : {"up", "down", "reconcile", "recover"}, todo : SUBSET Jobs, now : SUBSET Jobs]
      /\ boot'.at = boot.at
      /\ \A k \in Jobs : k \in boot'.todo <=> k \in boot.todo /\ k # j
  BY <1>1, <1>2 DEF SunoTypes
<1>6. row[j] = "error" /\ job[j].at = "gone" /\ ledger[j].told \in {"none", "complete", "error"}
  BY <1>1, <1>2 DEF JobGood, Booted, Stage, SunoTypes
<1>20. JobGood(j)'
  <2>1. ObjectFits(job[j])'
    BY <1>1, <1>2, <1>3, <1>4, <1>5, <1>6 DEF JobGood, ObjectFits, Working, Closing, Terminal
  <2>2. Placed(j)'
    BY <1>1, <1>2, <1>3, <1>4, <1>5, <1>6 DEF JobGood, Placed, ObjectFits, Stage
  <2>3. Booted(j)'
    BY <1>1, <1>2, <1>3, <1>4, <1>5, <1>6 DEF JobGood, Placed, Booted, Stage, Terminal, Unfinished
  <2>4. Told(j)'
    BY <1>1, <1>2, <1>3, <1>4, <1>5, <1>6 DEF JobGood, Told, Stage, Terminal, Closing, ObjectFits
  <2>5. Refunded(j)' /\ Sung(j)'
    BY <1>1, <1>2, <1>3, <1>4, <1>5, <1>6
    DEF JobGood, Refunded, Sung, Stage, Closing, Terminal, Unfinished
  <2> QED
    BY <2>1, <2>2, <2>3, <2>4, <2>5 DEF JobGood
<1>21. SunoTypes'
  BY <1>1, <1>3, <1>4, <1>5 DEF SunoTypes
<1>22. GateFits' /\ LoadFits'
  BY <1>1, <1>3 DEF GateFits, Fits, Held, WaitingJobs, Stage, LoadFits, Busy
<1>23. \A k \in Jobs \ {j} : Kept(k) /\ Beside(k)
  BY <1>2, <1>3, <1>4, <1>5 DEF Kept, Beside
<1> QED
  BY <1>20, <1>21, <1>22, <1>23, Advance

LEMMA RequeueJobKeeps ==
  ASSUME SunoInv, NEW j \in Jobs, RequeueJob(j)
  PROVE  SunoInv'
<1>1. SunoTypes /\ GateFits /\ LoadFits /\ (\A k \in Jobs : JobGood(k)) /\ JobGood(j)
      /\ job[j] \in JobObject
  BY DEF SunoInv, SunoTypes
<1> DEFINE o == Object("queued", "pending")
<1>2. /\ boot.at = "recover" /\ j \in boot.todo /\ j \in Queued /\ Save(j, "pending") /\ entry' = Added(j)
      /\ boot' = [boot EXCEPT !.todo = @ \ {j}]
      /\ stranded' = IF entry[j] = "done" THEN stranded \cup {j} ELSE stranded
      /\ \/ job[j].at = "gone" /\ Set(j, o) /\ torn' = torn
         \/ job[j].at # "gone" /\ job' = job /\ torn' = torn \cup {j}
  BY DEF RequeueJob, Stage
<1>3. gate' = gate /\ load' = load /\ ledger' = ledger /\ songs' = songs
  BY DEF RequeueJob
<1>4. /\ row' \in [Jobs -> {"none", "pending", "running", "complete", "error"}]
      /\ row'[j] = "pending" /\ \A k \in Jobs \ {j} : row'[k] = row[k]
  BY <1>1, <1>2, SaveParts
<1>5. /\ boot' \in [at : {"up", "down", "reconcile", "recover"}, todo : SUBSET Jobs, now : SUBSET Jobs]
      /\ boot'.at = boot.at
      /\ \A k \in Jobs : k \in boot'.todo <=> k \in boot.todo /\ k # j
  BY <1>1, <1>2 DEF SunoTypes
<1>6. /\ entry' \in [Jobs -> {"none", "wait", "active", "done"}]
      /\ entry'[j] = IF entry[j] = "none" THEN "wait" ELSE entry[j]
      /\ \A k \in Jobs \ {j} : entry'[k] = entry[k]
  BY <1>1, <1>2, AddedParts
<1>7. /\ j \in stranded \cup torn => j \in stranded' \cup torn'
      /\ \A k \in Jobs \ {j} : (k \in stranded' <=> k \in stranded) /\ (k \in torn' <=> k \in torn)
  BY <1>2
<1>8. /\ j \notin Crowd /\ row[j] # "none" /\ job[j].at # "none"
      /\ ledger[j].told \in {"none", "complete", "error"}
  BY <1>1, <1>2, SunoAssumption DEF JobGood, Booted, Placed, Stage, SunoTypes
<1>9. CASE job[j].at = "gone" /\ Set(j, o) /\ torn' = torn
  <2>1. /\ o \in JobObject /\ o.at = "queued" /\ o.status = "pending" /\ o.held = FALSE
        /\ o.attempt = "no"
    BY SunoAssumption DEF Object, JobObject, Stages
  <2> HIDE DEF o
  <2>2. job' \in [Jobs -> JobObject] /\ job'[j] = o /\ \A k \in Jobs \ {j} : job'[k] = job[k]
    BY <1>1, <1>9, <2>1, SetParts
  <2>3. row[j] \in {"pending", "running"}
    BY <1>1, <1>2, <1>9 DEF JobGood, Booted, Unfinished, Stage
  <2>4. JobGood(j)'
    <3>1. ObjectFits(job[j])'
      BY <1>1, <1>2, <1>3, <1>4, <1>5, <1>6, <1>8, <1>9, <2>1, <2>2, <2>3
      DEF JobGood, ObjectFits, Working, Closing, Terminal
    <3>2. Placed(j)'
      BY <1>1, <1>2, <1>3, <1>4, <1>5, <1>6, <1>8, <1>9, <2>1, <2>2, <2>3
      DEF JobGood, Placed, ObjectFits, Stage
    <3>3. Booted(j)'
      BY <1>1, <1>2, <1>3, <1>4, <1>5, <1>6, <1>8, <1>9, <2>1, <2>2, <2>3
      DEF JobGood, Placed, Booted, Stage, Terminal, Unfinished
    <3>4. Told(j)'
      BY <1>1, <1>2, <1>3, <1>4, <1>5, <1>6, <1>8, <1>9, <2>1, <2>2, <2>3
      DEF JobGood, Told, Stage, Terminal, Closing, ObjectFits
    <3>5. Refunded(j)' /\ Sung(j)'
      BY <1>1, <1>2, <1>3, <1>4, <1>5, <1>6, <1>8, <1>9, <2>1, <2>2, <2>3
      DEF JobGood, Refunded, Sung, Stage, Closing, Terminal, Unfinished
    <3> QED
      BY <3>1, <3>2, <3>3, <3>4, <3>5 DEF JobGood
  <2>5. SunoTypes'
    BY <1>1, <1>3, <1>4, <1>5, <1>6, <2>2 DEF SunoTypes
  <2>6. job[j].held = FALSE /\ job[j].attempt = "no"
    BY <1>1, <1>9 DEF JobGood, ObjectFits, Working, Closing, JobObject
  <2>7. SameAttempt(j) /\ Stage(j) # "waiting" /\ job'[j].at # "waiting" /\ job'[j].held = job[j].held
    BY <1>9, <2>1, <2>2, <2>6 DEF SameAttempt, Stage
  <2>8. \A k \in Jobs \ {j} : Kept(k) /\ job'[k] = job[k]
    BY <1>3, <1>4, <1>5, <1>6, <1>7, <2>2 DEF Kept
  <2> QED
    BY <1>3, <2>4, <2>5, <2>7, <2>8, QuietStep
<1>10. CASE job[j].at # "gone" /\ job' = job /\ torn' = torn \cup {j}
  <2>1. j \in torn'
    BY <1>10
  <2>2. JobGood(j)'
    <3>1. ObjectFits(job[j])'
      BY <1>1, <1>2, <1>3, <1>4, <1>5, <1>6, <1>8, <1>10, <2>1
      DEF JobGood, ObjectFits, Working, Closing, Terminal
    <3>2. Placed(j)'
      BY <1>1, <1>2, <1>3, <1>4, <1>5, <1>6, <1>8, <1>10, <2>1 DEF JobGood, Placed, ObjectFits, Stage
    <3>3. Booted(j)'
      BY <1>1, <1>2, <1>3, <1>4, <1>5, <1>6, <1>8, <1>10, <2>1
      DEF JobGood, Placed, Booted, Stage, Terminal, Unfinished
    <3>4. Told(j)'
      BY <1>1, <1>2, <1>3, <1>4, <1>5, <1>6, <1>8, <1>10, <2>1
      DEF JobGood, Told, Stage, Terminal, Closing, ObjectFits
    <3>5. Refunded(j)' /\ Sung(j)'
      BY <1>1, <1>2, <1>3, <1>4, <1>5, <1>6, <1>8, <1>10, <2>1
      DEF JobGood, Refunded, Sung, Stage, Closing, Terminal, Unfinished
    <3> QED
      BY <3>1, <3>2, <3>3, <3>4, <3>5 DEF JobGood
  <2>3. SunoTypes'
    BY <1>1, <1>3, <1>4, <1>5, <1>6, <1>10 DEF SunoTypes
  <2>4. GateFits' /\ LoadFits'
    BY <1>1, <1>3, <1>10 DEF GateFits, Fits, Held, WaitingJobs, Stage, LoadFits, Busy
  <2>5. \A k \in Jobs \ {j} : Kept(k) /\ Beside(k)
    BY <1>3, <1>4, <1>5, <1>6, <1>7, <1>10 DEF Kept, Beside
  <2> QED
    BY <2>2, <2>3, <2>4, <2>5, Advance
<1> QED
  BY <1>2, <1>9, <1>10

LEMMA FailOutKeeps ==
  ASSUME SunoInv, NEW j \in Jobs, FailOut(j)
  PROVE  SunoInv'
<1>1. SunoTypes /\ GateFits /\ LoadFits /\ (\A k \in Jobs : JobGood(k)) /\ JobGood(j)
      /\ job[j] \in JobObject
  BY DEF SunoInv, SunoTypes
<1> DEFINE o == Object("final", "error")
<1>2. /\ boot.at = "recover" /\ j \in boot.todo /\ j \notin Queued /\ Save(j, "error") /\ Set(j, o)
      /\ boot' = [boot EXCEPT !.todo = @ \ {j}, !.now = {j}]
  BY DEF FailOut
<1>3. /\ gate' = gate /\ load' = load /\ ledger' = ledger /\ entry' = entry
      /\ songs' = songs /\ stranded' = stranded /\ torn' = torn
  BY DEF FailOut, hist
<1>4. /\ row' \in [Jobs -> {"none", "pending", "running", "complete", "error"}]
      /\ row'[j] = "error" /\ \A k \in Jobs \ {j} : row'[k] = row[k]
  BY <1>1, <1>2, SaveParts
<1>5. /\ boot' \in [at : {"up", "down", "reconcile", "recover"}, todo : SUBSET Jobs, now : SUBSET Jobs]
      /\ boot'.at = boot.at
      /\ \A k \in Jobs : k \in boot'.todo <=> k \in boot.todo /\ k # j
  <2> DEFINE t == boot.todo \ {j}
  <2>1. boot' = [at |-> boot.at, todo |-> t, now |-> {j}]
    BY <1>1, <1>2 DEF SunoTypes
  <2>2. t \subseteq Jobs /\ boot.at \in {"up", "down", "reconcile", "recover"}
    BY <1>1 DEF SunoTypes
  <2>3. \A k : k \in t <=> k \in boot.todo /\ k # j
    OBVIOUS
  <2> HIDE DEF t
  <2> QED
    BY <2>1, <2>2, <2>3
<1>6. /\ job[j].at = "gone" /\ row[j] \in {"pending", "running"}
      /\ ledger[j].told \in {"none", "complete", "error"}
  BY <1>1, <1>2 DEF JobGood, Booted, Unfinished, Stage, SunoTypes
<1>7. job[j].held = FALSE /\ job[j].attempt = "no" /\ j \notin Crowd /\ entry[j] = "none"
  BY <1>1, <1>2, <1>6 DEF JobGood, ObjectFits, Working, Closing, JobObject, Placed, Stage
<1>8. /\ o \in JobObject /\ o.at = "final" /\ o.status = "error" /\ o.held = FALSE
      /\ o.attempt = "no"
  BY ObjectParts DEF Stages
<1> HIDE DEF o
<1>9. job' \in [Jobs -> JobObject] /\ job'[j] = o /\ \A k \in Jobs \ {j} : job'[k] = job[k]
  BY <1>1, <1>2, <1>8, SetParts
<1>20. JobGood(j)'
  <2>1. ObjectFits(job[j])'
    BY <1>1, <1>2, <1>3, <1>4, <1>5, <1>6, <1>7, <1>8, <1>9
    DEF JobGood, ObjectFits, Working, Closing, Terminal
  <2>2. Placed(j)'
    BY <1>1, <1>2, <1>3, <1>4, <1>5, <1>6, <1>7, <1>8, <1>9 DEF JobGood, Placed, ObjectFits, Stage
  <2>3. Booted(j)'
    BY <1>1, <1>2, <1>3, <1>4, <1>5, <1>6, <1>7, <1>8, <1>9
    DEF JobGood, Placed, Booted, Stage, Terminal, Unfinished
  <2>4. Told(j)'
    BY <1>1, <1>2, <1>3, <1>4, <1>5, <1>6, <1>7, <1>8, <1>9
    DEF JobGood, Told, Stage, Terminal, Closing, ObjectFits
  <2>5. Refunded(j)' /\ Sung(j)'
    BY <1>1, <1>2, <1>3, <1>4, <1>5, <1>6, <1>7, <1>8, <1>9
    DEF JobGood, Refunded, Sung, Stage, Closing, Terminal, Unfinished
  <2> QED
    BY <2>1, <2>2, <2>3, <2>4, <2>5 DEF JobGood
<1>21. SunoTypes'
  BY <1>1, <1>3, <1>4, <1>5, <1>9 DEF SunoTypes
<1>22. SameAttempt(j) /\ Stage(j) # "waiting" /\ job'[j].at # "waiting" /\ job'[j].held = job[j].held
  BY <1>6, <1>7, <1>8, <1>9 DEF SameAttempt, Stage
<1>23. \A k \in Jobs \ {j} : Kept(k) /\ job'[k] = job[k]
  BY <1>3, <1>4, <1>5, <1>9 DEF Kept
<1> QED
  BY <1>3, <1>20, <1>21, <1>22, <1>23, QuietStep
-------------------------------------------------------------------------------
LEMMA SunoInit ==
  ASSUME Init
  PROVE  SunoInv
<1>1. /\ job = [j \in Jobs |-> Object("none", "pending")]
      /\ gate = EmptyGate /\ load = [a \in Accounts |-> 0]
      /\ row = [j \in Jobs |-> "none"] /\ entry = [j \in Jobs |-> "none"]
      /\ ledger = [j \in Jobs |-> [refunds |-> 0, told |-> "none"]]
      /\ boot = [at |-> "up", todo |-> {}, now |-> {}]
      /\ songs = [j \in Jobs |-> 0]
  BY DEF Init
<1> DEFINE o == Object("none", "pending")
<1>2. o \in JobObject /\ o.at = "none" /\ ~o.held /\ o.attempt = "no" /\ o.status = "pending"
  BY SunoAssumption DEF Object, JobObject, Stages
<1>3. job = [j \in Jobs |-> o]
  BY <1>1
<1> HIDE DEF o
<1>4. job \in [Jobs -> JobObject] /\ \A j \in Jobs : job[j] = o
  BY <1>2, <1>3
<1>5. SunoTypes
  BY <1>1, <1>4 DEF SunoTypes
<1>6. GateFits
  <2>1. Held = {} /\ WaitingJobs = {}
    BY <1>2, <1>4 DEF Held, WaitingJobs, Stage
  <2> QED
    BY <1>1, <2>1, EmptyGateFits DEF GateFits
<1>7. LoadFits
  <2>1. \A a : Busy(a) = {}
    BY <1>2, <1>4 DEF Busy
  <2> QED
    BY <1>1, <2>1, FS_EmptySet DEF LoadFits
<1>8. ASSUME NEW j \in Jobs PROVE JobGood(j)
  <2>1. /\ row[j] = "none" /\ entry[j] = "none" /\ songs[j] = 0
        /\ ledger[j].refunds = 0 /\ ledger[j].told = "none" /\ boot.at = "up"
    BY <1>1
  <2>2. job[j].at = "none" /\ ~job[j].held /\ job[j].attempt = "no"
    BY <1>2, <1>4
  <2>3. ObjectFits(job[j]) /\ Placed(j) /\ Booted(j)
    BY <2>1, <2>2 DEF ObjectFits, Placed, Booted, Stage, Working, Closing
  <2>4. Told(j) /\ Refunded(j) /\ Sung(j)
    BY <2>1, <2>2 DEF Told, Refunded, Sung, Stage
  <2> QED
    BY <2>3, <2>4 DEF JobGood
<1> QED
  BY <1>5, <1>6, <1>7, <1>8 DEF SunoInv

LEMMA SunoNext ==
  ASSUME SunoInv, [Next]_vars
  PROVE  SunoInv'
<1>1. CASE UNCHANGED vars
  <2>1. /\ job' = job /\ gate' = gate /\ load' = load /\ row' = row /\ ledger' = ledger
        /\ entry' = entry /\ boot' = boot /\ songs' = songs /\ stranded' = stranded /\ torn' = torn
    BY <1>1 DEF vars, mem, db, hist
  <2>2. SunoTypes' /\ GateFits' /\ LoadFits'
    BY <2>1 DEF SunoInv, SunoTypes, GateFits, Fits, Held, WaitingJobs, Stage, LoadFits, Busy
  <2>3. \A k \in Jobs : Kept(k) /\ Beside(k)
    BY <2>1 DEF Kept, Beside
  <2>4. \A k \in Jobs : JobGood(k)'
    BY <2>3, KeptGood DEF SunoInv
  <2> QED
    BY <2>2, <2>4 DEF SunoInv
<1>2. ASSUME NEW j \in Jobs,
             Request(j) \/ Arrive(j) \/ Leave(j) \/ Work(j) \/ Forget(j) \/ Throw(j)
      PROVE  SunoInv'
  <2>1. CASE Request(j) \/ Arrive(j) \/ Leave(j)
    BY <2>1, RequestKeeps, ArriveKeeps, LeaveKeeps
  <2>2. CASE Forget(j) \/ Throw(j)
    BY <2>2, ForgetKeeps, ThrowKeeps
  <2>3. CASE Persist(j) \/ Enqueue(j) \/ Consume(j)
    BY <2>3, PersistKeeps, EnqueueKeeps, ConsumeKeeps
  <2>4. CASE Admit(j) \/ BeginJob(j) \/ Pick(j)
    BY <2>4, AdmitKeeps, BeginJobKeeps, PickKeeps
  <2>5. CASE StartAttempt(j) \/ Submit(j) \/ Defer(j)
    BY <2>5, StartAttemptKeeps, SubmitKeeps, DeferKeeps
  <2>6. CASE SaveFinal(j) \/ Settle(j) \/ Notify(j)
    BY <2>6, SaveFinalKeeps, SettleKeeps, NotifyKeeps
  <2> QED
    BY <1>2, <2>1, <2>2, <2>3, <2>4, <2>5, <2>6 DEF Work
<1>3. CASE Recovery
  <2>1. CASE Restart \/ Survey \/ Ready
    BY <2>1, RestartKeeps, SurveyKeeps, ReadyKeeps
  <2>2. ASSUME NEW j \in Jobs, Reconcile(j) \/ RequeueJob(j) \/ FailOut(j)
        PROVE  SunoInv'
    BY <2>2, ReconcileKeeps, RequeueJobKeeps, FailOutKeeps
  <2> QED
    BY <1>3, <2>1, <2>2 DEF Recovery
<1> QED
  BY <1>1, <1>2, <1>3, CrashKeeps DEF Next

LEMMA SunoAlways == Spec => []SunoInv
<1>1. Init => SunoInv
  BY SunoInit
<1>2. SunoInv /\ [Next]_vars => SunoInv'
  BY SunoNext
<1> QED
  BY <1>1, <1>2, PTL DEF Spec

(* However a worker ends, by its last call, an exception in any of its awaits, *)
(* a deferral or the death of the process, the gate and the accounts count     *)
(* exactly the workers that hold a slot or are inside an attempt: withSunoSlot *)
(* and markAccountEnd leak nothing and give nothing back twice.                *)
THEOREM CountsMatchWorkersAlways == Spec => []CountsMatchWorkers
<1>1. SunoInv => CountsMatchWorkers
  <2> SUFFICES ASSUME SunoInv PROVE CountsMatchWorkers
    OBVIOUS
  <2>1. job \in [Jobs -> JobObject]
    BY DEF SunoInv, SunoTypes
  <2>2. /\ gate.active = Cardinality(Held) /\ Waiting(gate) = WaitingJobs
        /\ \A o \in Owners : gate.owned[o] = Cardinality(OwnedBy(Held, o))
    BY DEF SunoInv, GateFits, Fits, Counts
  <2>3. \A a \in Accounts : load[a] = Cardinality(Busy(a))
    BY DEF SunoInv, LoadFits
  <2> QED
    BY <2>1, <2>2, <2>3 DEF CountsMatchWorkers, JobObject, OwnedBy, WaitingJobs, Busy
<1> QED
  BY <1>1, SunoAlways, PTL

(* The pump never leaves a job in the queue that could have a slot, and never *)
(* leaves one waiting when nobody is left to wake it.                         *)
THEOREM NoStrandedWaiterAlways == Spec => []NoStrandedWaiter
<1>1. SunoInv => NoStrandedWaiter
  <2> SUFFICES ASSUME SunoInv PROVE NoStrandedWaiter
    OBVIOUS
  <2>1. Fits(gate, Held, WaitingJobs)
    BY DEF SunoInv, GateFits
  <2>2. WorkConserving(gate) /\ gate.active \in Nat
    BY <2>1 DEF Fits, GateShape
  <2>3. gate.waiting # << >> => gate.active # 0
    BY <2>1, NobodyWaitsForNobody
  <2> QED
    BY <2>2, <2>3 DEF NoStrandedWaiter
<1> QED
  BY <1>1, SunoAlways, PTL

(* The callback, the row and the refund of a job agree, through every retry, *)
(* deferral, exception, crash and boot: refunded once at most, only when it  *)
(* failed, before its failure is announced, and without fail once the boot   *)
(* is over.                                                                  *)
THEOREM SettlementMatchesRowAlways == Spec => []SettlementMatchesRow
<1>1. SunoInv => SettlementMatchesRow
  <2> SUFFICES ASSUME SunoInv, NEW j \in Jobs
               PROVE
                 LET account == ledger[j]
                 IN  /\ account.refunds <= 1
                     /\ account.told = "error" => account.refunds = 1
                     /\ j \notin stranded \cup torn =>
                          /\ account.told = "complete" => account.refunds = 0
                          /\ account.refunds = 1 => row[j] = "error"
                          /\ account.told # "none" => row[j] = account.told
                          /\ Up /\ Stage(j) \in {"gone", "ended"} /\ row[j] = "error" => account.refunds = 1
    BY DEF SettlementMatchesRow
  <2>1. ledger[j].refunds \in {0, 1} /\ Told(j) /\ Refunded(j)
    BY DEF SunoInv, SunoTypes, JobGood
  <2>2. ledger[j].refunds <= 1 /\ (ledger[j].told = "error" => ledger[j].refunds = 1)
    BY <2>1 DEF Told
  <2>3. ASSUME j \notin stranded \cup torn
        PROVE  /\ ledger[j].told = "complete" => ledger[j].refunds = 0
               /\ ledger[j].refunds = 1 => row[j] = "error"
               /\ ledger[j].told # "none" => row[j] = ledger[j].told
    BY <2>1, <2>3 DEF Told
  <2>4. ASSUME j \notin stranded \cup torn, Up, Stage(j) \in {"gone", "ended"}, row[j] = "error"
        PROVE  ledger[j].refunds = 1
    BY <2>1, <2>4 DEF Refunded, Up
  <2> QED
    BY <2>2, <2>3, <2>4
<1> QED
  BY <1>1, SunoAlways, PTL

(* Retries over the accounts, deferrals, queue entries that are handed out     *)
(* again and boots never have Suno make a second song while the first is kept. *)
THEOREM OneSongUnlessLostAlways == Spec => []OneSongUnlessLost
<1>1. SunoInv => OneSongUnlessLost
  BY DEF SunoInv, SunoTypes, OneSongUnlessLost
<1> QED
  BY <1>1, SunoAlways, PTL
===============================================================================
