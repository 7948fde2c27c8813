--------------------------- MODULE CreditLots_proofs ---------------------------
(***************************************************************************)
(* What the operations on the lot ledger preserve, for every ledger: which *)
(* lots they change, and how the units left in the lots add up.            *)
(***************************************************************************)
EXTENDS CreditLots, FiniteSetsExt, TLAPS, FiniteSetTheorems, SequenceTheorems,
        WellFoundedInduction

(* The ledgers the table's CHECK admits. *)
Ledger == {lots \in Seq(Lot) : LotsWithinAmount(lots)}

(* A lot the CHECK admits. *)
SoundLot == {lot \in Lot : lot.remaining <= lot.amount}

LEMMA LedgerIsSeq == Ledger = Seq(SoundLot)
<1>1. ASSUME NEW lots \in Ledger PROVE lots \in Seq(SoundLot)
  <2>1. /\ lots \in Seq(Lot) /\ DOMAIN lots = 1..Len(lots) /\ Len(lots) \in Nat
        /\ \A i \in 1..Len(lots) : lots[i] \in SoundLot
    BY LenProperties, ElementOfSeq DEF Ledger, LotsWithinAmount, SoundLot
  <2>2. lots = [i \in 1..Len(lots) |-> lots[i]]
    BY <2>1, LenProperties
  <2>3. QED
    BY <2>1, <2>2
<1>2. ASSUME NEW lots \in Seq(SoundLot) PROVE lots \in Ledger
  <2>1. lots \in Seq(Lot)
    BY SeqMonotonic DEF SoundLot
  <2>2. \A i \in DOMAIN lots : lots[i] \in SoundLot
    BY LenProperties, ElementOfSeq
  <2>3. QED
    BY <2>1, <2>2 DEF Ledger, LotsWithinAmount, SoundLot
<1>3. QED
  BY <1>1, <1>2

(* A ledger rewritten lot by lot. *)
LEMMA MapLedger ==
  ASSUME NEW lots \in Ledger, NEW new, new = [i \in DOMAIN lots |-> new[i]],
         \A i \in DOMAIN lots : new[i] \in SoundLot
  PROVE  new \in Ledger /\ Len(new) = Len(lots) /\ DOMAIN new = DOMAIN lots
<1>1. DOMAIN lots = 1..Len(lots) /\ Len(lots) \in Nat
  BY LenProperties DEF Ledger
<1>2. new = [i \in 1..Len(lots) |-> new[i]] /\ \A i \in 1..Len(lots) : new[i] \in SoundLot
  BY <1>1
<1>3. new \in Seq(SoundLot)
  BY <1>1, <1>2
<1>4. Len(new) = Len(lots)
  BY <1>1, <1>2, <1>3, LenProperties
<1>5. QED
  BY <1>1, <1>3, <1>4, LedgerIsSeq, LenProperties

LEMMA AppendLedger ==
  ASSUME NEW lots \in Ledger, NEW lot \in SoundLot
  PROVE  /\ Append(lots, lot) \in Ledger
         /\ DOMAIN lots \subseteq DOMAIN Append(lots, lot)
<1>1. lots \in Seq(SoundLot)
  BY LedgerIsSeq
<1>2. Append(lots, lot) \in Seq(SoundLot) /\ Len(Append(lots, lot)) = Len(lots) + 1
  BY <1>1
<1>3. QED
  BY <1>1, <1>2, LedgerIsSeq, LenProperties

LEMMA LedgerLots ==
  ASSUME NEW lots \in Ledger
  PROVE  /\ DOMAIN lots = 1..Len(lots) /\ Len(lots) \in Nat
         /\ \A i \in DOMAIN lots : lots[i] \in SoundLot
BY LedgerIsSeq, LenProperties, ElementOfSeq

LEMMA NewLotSound ==
  ASSUME NEW tag \in Tags, NEW units \in Nat, NEW expires \in Nat \cup {Never},
         NEW period \in Nat \cup {Never}
  PROVE  NewLot(tag, units, expires, period) \in SoundLot
BY DEF NewLot, SoundLot, Lot

(* The units left in some lots are a number. *)
LEMMA RemainingIsNat ==
  ASSUME NEW lots \in Ledger, NEW S \in SUBSET DOMAIN lots
  PROVE  Remaining(lots, S) \in Nat
<1>1. IsFiniteSet(S)
  BY LedgerLots, FS_Interval, FS_Subset
<1>2. \A i \in S : IsFiniteSet({i} \X (1..lots[i].remaining))
  <2> SUFFICES ASSUME NEW i \in S PROVE IsFiniteSet({i} \X (1..lots[i].remaining))
    OBVIOUS
  <2>1. lots[i].remaining \in Int
    BY LedgerLots DEF SoundLot, Lot
  <2>2. ASSUME NEW n \in Int PROVE IsFiniteSet(1..n)
    BY FS_Interval
  <2>a. IsFiniteSet(1..lots[i].remaining)
    BY <2>1, <2>2
  <2>3. IsFiniteSet({i})
    BY FS_Singleton
  <2>4. QED
    BY <2>a, <2>3, FS_Product
<1>3. IsFiniteSet({{i} \X (1..lots[i].remaining) : i \in S})
  <2> DEFINE T == {{i} \X (1..lots[i].remaining) : i \in S}
             f == [i \in S |-> {i} \X (1..lots[i].remaining)]
  <2>1. f \in Surjection(S, T)
    BY DEF Surjection
  <2>2. QED
    BY <2>1, <1>1, FS_Surjection
<1>4. QED
  BY <1>2, <1>3, FS_UNION, FS_CardinalityType DEF Remaining, Units

-------------------------------------------------------------------------------
(* _consume_lots takes from a lot at most what it has. *)
LEMMA UnitsTakenBound ==
  ASSUME NEW lots \in Ledger, NEW now, NEW amount, NEW i \in DOMAIN lots
  PROVE  UnitsTaken(lots, now, i, amount) \in 0..lots[i].remaining
<1> DEFINE n == lots[i].remaining
           ahead == Remaining(lots, {j \in LiveLots(lots, now) : SpentBefore(lots, j, i)})
           taken == {u \in 1..n : ahead + u <= amount}
<1>1. n \in Nat
  BY LedgerLots DEF SoundLot, Lot
<1>2. taken \in SUBSET (1..n)
  OBVIOUS
<1> HIDE DEF n, ahead
<1>3. IsFiniteSet(1..n) /\ Cardinality(1..n) = n
  BY <1>1, FS_Interval
<1>4. Cardinality(taken) \in Nat /\ Cardinality(taken) <= n
  BY <1>2, <1>3, FS_Subset, FS_CardinalityType
<1>5. QED
  BY <1>1, <1>4 DEF UnitsTaken, n, ahead

LEMMA ConsumeLotsLedger ==
  ASSUME NEW lots \in Ledger, NEW now, NEW amount
  PROVE  /\ ConsumeLots(lots, now, amount) \in Ledger
         /\ DOMAIN ConsumeLots(lots, now, amount) = DOMAIN lots
<1> DEFINE new == ConsumeLots(lots, now, amount)
<1>1. ASSUME NEW i \in DOMAIN lots PROVE new[i] \in SoundLot
  <2>1. lots[i] \in SoundLot
    BY LedgerLots
  <2>2. UnitsTaken(lots, now, i, amount) \in 0..lots[i].remaining
    BY UnitsTakenBound
  <2> DEFINE left == lots[i].remaining - UnitsTaken(lots, now, i, amount)
  <2>3. left \in Nat /\ left <= lots[i].amount
    BY <2>1, <2>2 DEF SoundLot, Lot
  <2>4. new[i] = lots[i] \/ new[i] = [lots[i] EXCEPT !.remaining = left]
    BY DEF ConsumeLots
  <2> HIDE DEF left, new
  <2>5. QED
    BY <2>1, <2>3, <2>4 DEF SoundLot, Lot
<1>2. new = [i \in DOMAIN lots |-> new[i]]
  BY DEF ConsumeLots
<1> HIDE DEF new
<1>3. QED
  BY <1>1, <1>2, MapLedger DEF new

(* _restore_split never gives a lot more than it has room for. *)
LEMMA IntoLotBound ==
  ASSUME NEW lot \in SoundLot, NEW units \in Nat
  PROVE  /\ IntoLot(lot, units) \in 0..units
         /\ lot.remaining + IntoLot(lot, units) <= lot.amount
BY DEF IntoLot, SoundLot, Lot

(* _restore_lots tops one lot up at most, and adds a lot at most. *)
LEMMA RestoreLotsForm ==
  ASSUME NEW lots \in Ledger, NEW now, NEW units \in Nat
  PROVE  \E filled \in Ledger :
           /\ DOMAIN filled = DOMAIN lots
           /\ \A k \in DOMAIN lots : filled[k].period = lots[k].period
           /\ \/ RestoreLots(lots, now, units) = filled
              \/ \E rest \in SoundLot : RestoreLots(lots, now, units) = Append(filled, rest)
<1> DEFINE target == RestoreTarget(lots, now)
           i      == CHOOSE i \in target : TRUE
           into   == IF target = {} THEN 0 ELSE IntoLot(lots[i], units)
           lot    == [lots[i] EXCEPT !.remaining = lots[i].remaining + into]
           filled == IF target = {} THEN lots ELSE [lots EXCEPT ![i] = lot]
           rest   == NewLot("grant", units - into, Never, Never)
<1>1. /\ into \in 0..units
      /\ target # {} => /\ i \in DOMAIN lots /\ lots[i] \in SoundLot
                        /\ lots[i].remaining + into <= lots[i].amount
  <2>1. target # {} => i \in target
    OBVIOUS
  <2>2. target \subseteq DOMAIN lots
    BY DEF RestoreTarget, LiveLots
  <2>3. target # {} => i \in DOMAIN lots /\ lots[i] \in SoundLot
    BY <2>1, <2>2, LedgerLots
  <2> HIDE DEF target, i
  <2>4. QED
    BY <2>3, IntoLotBound
<1>2. filled \in Ledger /\ DOMAIN filled = DOMAIN lots
  <2>1. CASE target = {}
    BY <2>1
  <2>2. CASE target # {}
    <3> HIDE DEF target, i, into
    <3>1. lots[i].remaining + into \in Nat /\ lots[i].remaining + into <= lots[i].amount
      BY <1>1, <2>2 DEF SoundLot, Lot
    <3>2. lot \in SoundLot
      BY <1>1, <2>2, <3>1 DEF SoundLot, Lot
    <3> HIDE DEF lot
    <3>3. lots \in Seq(SoundLot) /\ i \in 1..Len(lots)
      BY <1>1, <2>2, LedgerIsSeq, LedgerLots
    <3>4. [lots EXCEPT ![i] = lot] \in Seq(SoundLot)
      BY <3>2, <3>3, ExceptSeq
    <3>5. QED
      BY <2>2, <3>4, LedgerIsSeq
  <2>3. QED
    BY <2>1, <2>2
<1>3. rest \in SoundLot
  <2> HIDE DEF into
  <2>1. units - into \in Nat
    BY <1>1
  <2>2. "grant" \in Tags
    BY DEF Tags
  <2>3. QED
    BY <2>1, <2>2, NewLotSound
<1>4. RestoreLots(lots, now, units) = IF into = units THEN filled ELSE Append(filled, rest)
  BY DEF RestoreLots
<1>5. \A k \in DOMAIN lots : filled[k].period = lots[k].period
  <2> HIDE DEF target, i, into
  <2>1. \A k \in DOMAIN lots : lots[k] \in Lot
    BY LedgerLots DEF SoundLot
  <2>2. QED
    BY <2>1 DEF Lot
<1> HIDE DEF target, i, into, filled, rest
<1>6. QED
  BY <1>2, <1>3, <1>4, <1>5

LEMMA RestoreLotsLedger ==
  ASSUME NEW lots \in Ledger, NEW now, NEW units \in Nat
  PROVE  /\ RestoreLots(lots, now, units) \in Ledger
         /\ DOMAIN lots \subseteq DOMAIN RestoreLots(lots, now, units)
<1> DEFINE new == RestoreLots(lots, now, units)
<1>1. PICK filled \in Ledger :
        /\ DOMAIN filled = DOMAIN lots
        /\ new = filled \/ \E rest \in SoundLot : new = Append(filled, rest)
  BY RestoreLotsForm
<1> HIDE DEF new
<1>2. new \in Ledger /\ DOMAIN filled \subseteq DOMAIN new
  BY <1>1, AppendLedger
<1>3. QED
  BY <1>1, <1>2 DEF new

LEMMA RestampLotsLedger ==
  ASSUME NEW lots \in Ledger, NEW expires \in Nat
  PROVE  /\ RestampLots(lots, expires) \in Ledger
         /\ DOMAIN RestampLots(lots, expires) = DOMAIN lots
<1> DEFINE new == RestampLots(lots, expires)
<1>1. ASSUME NEW i \in DOMAIN lots PROVE new[i] \in SoundLot
  <2>1. lots[i] \in SoundLot
    BY LedgerLots
  <2>2. new[i] = lots[i] \/ new[i] = [lots[i] EXCEPT !.expires = expires]
    BY DEF RestampLots
  <2> HIDE DEF new
  <2>3. QED
    BY <2>1, <2>2 DEF SoundLot, Lot
<1>2. new = [i \in DOMAIN lots |-> new[i]]
  BY DEF RestampLots
<1> HIDE DEF new
<1>3. QED
  BY <1>1, <1>2, MapLedger DEF new

LEMMA ZeroLotsLedger ==
  ASSUME NEW lots \in Ledger, NEW S
  PROVE  /\ ZeroLots(lots, S) \in Ledger
         /\ DOMAIN ZeroLots(lots, S) = DOMAIN lots
<1> DEFINE new == ZeroLots(lots, S)
<1>1. ASSUME NEW i \in DOMAIN lots PROVE new[i] \in SoundLot
  <2>1. lots[i] \in SoundLot
    BY LedgerLots
  <2>2. new[i] = lots[i] \/ new[i] = [lots[i] EXCEPT !.remaining = 0]
    BY DEF ZeroLots
  <2> HIDE DEF new
  <2>3. QED
    BY <2>1, <2>2 DEF SoundLot, Lot
<1>2. new = [i \in DOMAIN lots |-> new[i]]
  BY DEF ZeroLots
<1> HIDE DEF new
<1>3. QED
  BY <1>1, <1>2, MapLedger DEF new

-------------------------------------------------------------------------------
(* No operation on the ledger drops a lot or changes the month it stands for. *)
KeepsPeriods(old, new) ==
  /\ DOMAIN old \subseteq DOMAIN new
  /\ \A i \in DOMAIN old : new[i].period = old[i].period

LEMMA AppendKeepsPeriods ==
  ASSUME NEW lots \in Ledger, NEW lot \in SoundLot
  PROVE  /\ KeepsPeriods(lots, Append(lots, lot))
         /\ Len(lots) + 1 \in DOMAIN Append(lots, lot)
         /\ Append(lots, lot)[Len(lots) + 1] = lot
<1>1. lots \in Seq(SoundLot) /\ DOMAIN lots = 1..Len(lots) /\ Len(lots) \in Nat
  BY LedgerIsSeq, LedgerLots
<1>2. /\ DOMAIN Append(lots, lot) = 1..Len(lots) + 1
      /\ \A i \in 1..Len(lots) : Append(lots, lot)[i] = lots[i]
      /\ Append(lots, lot)[Len(lots) + 1] = lot
  BY <1>1, AppendProperties
<1>3. QED
  BY <1>1, <1>2 DEF KeepsPeriods

LEMMA ConsumeLotsKeepsPeriods ==
  ASSUME NEW lots \in Ledger, NEW now, NEW amount
  PROVE  KeepsPeriods(lots, ConsumeLots(lots, now, amount))
<1>1. ASSUME NEW i \in DOMAIN lots
      PROVE  ConsumeLots(lots, now, amount)[i].period = lots[i].period
  <2>1. lots[i] \in Lot
    BY LedgerLots DEF SoundLot
  <2> DEFINE left == lots[i].remaining - UnitsTaken(lots, now, i, amount)
  <2>2. \/ ConsumeLots(lots, now, amount)[i] = lots[i]
        \/ ConsumeLots(lots, now, amount)[i] = [lots[i] EXCEPT !.remaining = left]
    BY DEF ConsumeLots
  <2> HIDE DEF left
  <2>3. QED
    BY <2>1, <2>2 DEF Lot
<1>2. QED
  BY <1>1, ConsumeLotsLedger DEF KeepsPeriods

LEMMA RestoreLotsKeepsPeriods ==
  ASSUME NEW lots \in Ledger, NEW now, NEW units \in Nat
  PROVE  KeepsPeriods(lots, RestoreLots(lots, now, units))
BY RestoreLotsForm, AppendKeepsPeriods DEF KeepsPeriods

LEMMA RestampLotsKeepsPeriods ==
  ASSUME NEW lots \in Ledger, NEW expires \in Nat
  PROVE  KeepsPeriods(lots, RestampLots(lots, expires))
<1>1. \A i \in DOMAIN lots : lots[i] \in Lot
  BY LedgerLots DEF SoundLot
<1>2. QED
  BY <1>1, RestampLotsLedger DEF KeepsPeriods, RestampLots, Lot

LEMMA ZeroLotsKeepsPeriods ==
  ASSUME NEW lots \in Ledger, NEW S
  PROVE  KeepsPeriods(lots, ZeroLots(lots, S))
<1>1. \A i \in DOMAIN lots : lots[i] \in Lot
  BY LedgerLots DEF SoundLot
<1>2. QED
  BY <1>1, ZeroLotsLedger DEF KeepsPeriods, ZeroLots, Lot

-------------------------------------------------------------------------------
(* Sums over finite sets.                                                    *)
(* A smallest one of some finite sets. *)
LEMMA SmallestSubset ==
  ASSUME NEW U, IsFiniteSet(U), NEW T, T \subseteq SUBSET U, T # {}
  PROVE  \E s \in T : \A t \in T : ~(t \subseteq s /\ t # s)
<1> DEFINE R == StrictSubsetOrdering(U)
<1>1. IsWellFoundedOn(R, FiniteSubsetsOf(U))
  BY FS_StrictSubsetOrderingWellFounded
<1>2. T \subseteq FiniteSubsetsOf(U)
  BY FS_FiniteSubsetsOfFinite
<1> HIDE DEF R
<1>3. PICK s \in T : \A t \in T : ~(<<t, s>> \in R)
  BY <1>1, <1>2, WFMin
<1>4. \A t \in T : t \subseteq s /\ t # s => <<t, s>> \in R
  <2> SUFFICES ASSUME NEW t \in T, t \subseteq s, t # s PROVE <<t, s>> \in R
    OBVIOUS
  <2>1. <<t, s>> \in (SUBSET U) \X (SUBSET U)
    OBVIOUS
  <2>2. <<t, s>>[1] = t /\ <<t, s>>[2] = s
    OBVIOUS
  <2> DEFINE ts == <<t, s>>
  <2>3. ts[1] \subseteq ts[2] /\ ts[1] # ts[2] /\ ts \in (SUBSET U) \X (SUBSET U)
    BY <2>1, <2>2
  <2> HIDE DEF ts
  <2>4. ts \in R
    BY <2>3 DEF R, StrictSubsetOrdering
  <2> QED
    BY <2>4 DEF ts
<1>5. ASSUME NEW t \in T, t \subseteq s, t # s PROVE FALSE
  <2>1. <<t, s>> \in R
    BY <1>4, <1>5
  <2>2. ~(<<t, s>> \in R)
    BY <1>3, <1>5
  <2> QED
    BY <2>1, <2>2
<1> QED
  BY <1>5

First(s) == CHOOSE x \in s : TRUE

LEMMA FirstIn == \A s : s # {} => First(s) \in s /\ s \ {First(s)} \subseteq s /\ s \ {First(s)} # s
  BY DEF First

(* The recursive function behind the sums of the ledger. *)
SumsTo(f, g, U) ==
  f = [s \in SUBSET U |-> IF s = {} THEN 0 ELSE g[First(s)] + f[s \ {First(s)}]]

Rest(f, g, s) == IF s = {} THEN 0 ELSE g[First(s)] + f[s \ {First(s)}]

LEMMA SumsAt ==
  ASSUME NEW g, NEW U, NEW f, SumsTo(f, g, U), NEW s \in SUBSET U
  PROVE  f[s] = Rest(f, g, s)
<1> DEFINE e(h, t) == IF t = {} THEN 0 ELSE g[First(t)] + h[t \ {First(t)}]
<1>1. f = [t \in SUBSET U |-> e(f, t)]
  BY DEF SumsTo
<1> HIDE DEF e
<1>2. f[s] = e(f, s)
  BY <1>1
<1> QED
  BY <1>2 DEF e, Rest

LEMMA SumsUnique ==
  ASSUME NEW g, NEW U, IsFiniteSet(U), NEW f, NEW h, SumsTo(f, g, U), SumsTo(h, g, U)
  PROVE  \A s \in SUBSET U : f[s] = h[s]
<1> DEFINE T == {s \in SUBSET U : f[s] # h[s]}
<1> SUFFICES ASSUME T # {} PROVE FALSE
  OBVIOUS
<1>0. T \subseteq SUBSET U
  OBVIOUS
<1> HIDE DEF T
<1>1. PICK s \in T : \A t \in T : ~(t \subseteq s /\ t # s)
  BY <1>0, SmallestSubset
<1> USE DEF T
<1>2. /\ f[s] = IF s = {} THEN 0 ELSE g[First(s)] + f[s \ {First(s)}]
      /\ h[s] = IF s = {} THEN 0 ELSE g[First(s)] + h[s \ {First(s)}]
  <2>1. s \in SUBSET U
    OBVIOUS
  <2> HIDE DEF T
  <2>2. f[s] = Rest(f, g, s)
    BY <2>1, SumsAt
  <2>3. h[s] = Rest(h, g, s)
    BY <2>1, SumsAt
  <2> QED
    BY <2>2, <2>3 DEF Rest
<1>3. s # {} => f[s \ {First(s)}] = h[s \ {First(s)}]
  BY <1>1, FirstIn
<1> QED
  BY <1>1, <1>2, <1>3

LEMMA SumsRestrict ==
  ASSUME NEW g, NEW U, NEW V \in SUBSET U, NEW f, SumsTo(f, g, U)
  PROVE  SumsTo([s \in SUBSET V |-> f[s]], g, V)
<1> DEFINE h == [s \in SUBSET V |-> f[s]]
<1>1. ASSUME NEW s \in SUBSET V
      PROVE  h[s] = IF s = {} THEN 0 ELSE g[First(s)] + h[s \ {First(s)}]
  <2>1. f[s] = IF s = {} THEN 0 ELSE g[First(s)] + f[s \ {First(s)}]
    BY SumsAt DEF Rest
  <2> QED
    BY <2>1
<1> QED
  BY <1>1 DEF SumsTo

LEMMA SumsExist ==
  ASSUME NEW g, NEW U, IsFiniteSet(U)
  PROVE  \E f : SumsTo(f, g, U)
<1> DEFINE T == {s \in SUBSET U : ~ \E f : SumsTo(f, g, s)}
<1> SUFFICES ASSUME T # {} PROVE FALSE
  OBVIOUS
<1>0. T \subseteq SUBSET U
  OBVIOUS
<1> HIDE DEF T
<1>1. PICK V \in T : \A t \in T : ~(t \subseteq V /\ t # V)
  BY <1>0, SmallestSubset
<1> USE DEF T
<1>2. IsFiniteSet(V)
  BY FS_Subset
<1> DEFINE F(s) == CHOOSE f : SumsTo(f, g, s)
           Less == {s \in SUBSET V : s # V}
           E == [s \in Less |-> F(s)[s]]
<1>3. \A s \in Less : SumsTo(F(s), g, s)
  BY <1>1
<1>4. \A s \in Less : E[s] = IF s = {} THEN 0 ELSE g[First(s)] + E[s \ {First(s)}]
  <2> SUFFICES ASSUME NEW s \in Less
               PROVE  E[s] = IF s = {} THEN 0 ELSE g[First(s)] + E[s \ {First(s)}]
    OBVIOUS
  <2>1. E[s] = IF s = {} THEN 0 ELSE g[First(s)] + F(s)[s \ {First(s)}]
    <3>1. SumsTo(F(s), g, s)
      BY <1>3
    <3> HIDE DEF F
    <3>2. F(s)[s] = IF s = {} THEN 0 ELSE g[First(s)] + F(s)[s \ {First(s)}]
      BY <3>1, SumsAt DEF Rest
    <3> QED
      BY <3>2
  <2>2. CASE s # {}
    <3> DEFINE r == s \ {First(s)}
    <3>1. r \in SUBSET s /\ r \in Less
      BY <2>2, FirstIn
    <3>2. SumsTo(F(s), g, s) /\ SumsTo(F(r), g, r) /\ IsFiniteSet(r)
      BY <1>2, <1>3, <3>1, FS_Subset
    <3> HIDE DEF F, r
    <3>3. SumsTo([t \in SUBSET r |-> F(s)[t]], g, r)
      BY <3>1, <3>2, SumsRestrict
    <3>4. F(r)[r] = [t \in SUBSET r |-> F(s)[t]][r]
      BY <3>2, <3>3, SumsUnique
    <3>5. E[r] = F(s)[r]
      BY <3>1, <3>4
    <3> QED
      BY <2>1, <3>5 DEF r
  <2> QED
    BY <2>1, <2>2
<1> DEFINE f == [s \in SUBSET V |->
                   IF s # V THEN E[s]
                   ELSE IF s = {} THEN 0 ELSE g[First(s)] + E[s \ {First(s)}]]
<1> HIDE DEF E
<1>5. \A s \in Less : f[s] = E[s]
  OBVIOUS
<1>6. ASSUME NEW s \in SUBSET V
      PROVE  f[s] = IF s = {} THEN 0 ELSE g[First(s)] + f[s \ {First(s)}]
  <2>1. s # {} => s \ {First(s)} \in Less
    BY FirstIn
  <2> QED
    BY <1>4, <1>5, <2>1
<1>7. f = [s \in SUBSET V |-> IF s = {} THEN 0 ELSE g[First(s)] + f[s \ {First(s)}]]
  <2>1. f = [s \in SUBSET V |-> f[s]]
    OBVIOUS
  <2> HIDE DEF f
  <2> QED
    BY <1>6, <2>1
<1> HIDE DEF f
<1>8. SumsTo(f, g, V)
  BY <1>7 DEF SumsTo
<1> QED
  BY <1>1, <1>8

(* What MapThenSumSet computes: the sum of g over U. *)
Total(g, U) == MapThenSumSet(LAMBDA x : g[x], U)

LEMMA TotalUnfold ==
  ASSUME NEW g, NEW U
  PROVE  Total(g, U) = (CHOOSE f : SumsTo(f, g, U))[U]
BY DEF Total, MapThenSumSet, MapThenFoldSet, SumsTo, First

LEMMA TotalSums ==
  ASSUME NEW g, NEW U, IsFiniteSet(U), NEW f, SumsTo(f, g, U)
  PROVE  Total(g, U) = f[U]
<1> DEFINE c == CHOOSE h : SumsTo(h, g, U)
<1>1. SumsTo(c, g, U)
  BY SumsExist
<1> HIDE DEF c
<1>2. c[U] = f[U]
  BY <1>1, SumsUnique
<1> QED
  BY <1>2, TotalUnfold DEF c

LEMMA TotalEmpty == \A g : Total(g, {}) = 0
<1> SUFFICES ASSUME NEW g PROVE Total(g, {}) = 0
  OBVIOUS
<1>1. IsFiniteSet({})
  BY FS_EmptySet
<1>2. PICK f : SumsTo(f, g, {})
  BY <1>1, SumsExist
<1>3. f[{}] = Rest(f, g, {})
  BY <1>2, SumsAt
<1> QED
  BY <1>1, <1>2, <1>3, TotalSums DEF Rest

LEMMA TotalStep ==
  ASSUME NEW g, NEW U, IsFiniteSet(U), U # {}
  PROVE  Total(g, U) = g[First(U)] + Total(g, U \ {First(U)})
<1> DEFINE V == U \ {First(U)}
<1>1. V \in SUBSET U /\ IsFiniteSet(V)
  BY FS_Subset
<1>2. PICK f : SumsTo(f, g, U)
  BY SumsExist
<1>3. f[U] = Rest(f, g, U)
  BY <1>2, SumsAt
<1>4. f[U] = g[First(U)] + f[V]
  BY <1>3 DEF Rest
<1> HIDE DEF V
<1>5. SumsTo([s \in SUBSET V |-> f[s]], g, V)
  BY <1>1, <1>2, SumsRestrict
<1>6. Total(g, V) = [s \in SUBSET V |-> f[s]][V]
  BY <1>1, <1>5, TotalSums
<1>7. Total(g, U) = f[U]
  BY <1>2, TotalSums
<1> QED
  BY <1>4, <1>6, <1>7 DEF V

LEMMA TotalType ==
  ASSUME NEW U, IsFiniteSet(U), NEW g, \A x \in U : g[x] \in Nat
  PROVE  Total(g, U) \in Nat
<1> DEFINE T == {s \in SUBSET U : Total(g, s) \notin Nat}
<1> SUFFICES ASSUME T # {} PROVE FALSE
  OBVIOUS
<1>0. T \subseteq SUBSET U
  OBVIOUS
<1> HIDE DEF T
<1>1. PICK s \in T : \A t \in T : ~(t \subseteq s /\ t # s)
  BY <1>0, SmallestSubset
<1>2. s \in SUBSET U /\ Total(g, s) \notin Nat
  BY <1>1 DEF T
<1>3. s # {}
  BY <1>2, TotalEmpty
<1>4. IsFiniteSet(s)
  BY <1>2, FS_Subset
<1>5. Total(g, s) = g[First(s)] + Total(g, s \ {First(s)})
  BY <1>3, <1>4, TotalStep
<1>6. First(s) \in s /\ s \ {First(s)} \in SUBSET U /\ s \ {First(s)} \subseteq s /\ s \ {First(s)} # s
  BY <1>2, <1>3, FirstIn
<1>7. Total(g, s \ {First(s)}) \in Nat
  BY <1>1, <1>6 DEF T
<1> QED
  BY <1>2, <1>5, <1>6, <1>7

LEMMA TotalRemove ==
  ASSUME NEW U, IsFiniteSet(U), NEW g, \A x \in U : g[x] \in Nat
  PROVE  \A y \in U : Total(g, U) = g[y] + Total(g, U \ {y})
<1> DEFINE Splits(s) == \A z \in s : Total(g, s) = g[z] + Total(g, s \ {z})
           T == {s \in SUBSET U : ~Splits(s)}
<1> SUFFICES ASSUME T # {} PROVE FALSE
  OBVIOUS
<1>0. T \subseteq SUBSET U
  OBVIOUS
<1> HIDE DEF T
<1>1. PICK s \in T : \A t \in T : ~(t \subseteq s /\ t # s)
  BY <1>0, SmallestSubset
<1>2. s \in SUBSET U /\ ~Splits(s)
  BY <1>1 DEF T
<1>3. PICK y \in s : Total(g, s) # g[y] + Total(g, s \ {y})
  BY <1>2
<1>4. IsFiniteSet(s) /\ s # {}
  BY <1>2, <1>3, FS_Subset
<1> DEFINE x == First(s)
           r == s \ {x}
           q == s \ {y}
<1>5. Total(g, s) = g[x] + Total(g, r)
  BY <1>4, TotalStep
<1>6. x \in s
  BY <1>4, FirstIn
<1>7. x # y
  BY <1>3, <1>5
<1> HIDE DEF x
<1>8. /\ r \in SUBSET U /\ r \subseteq s /\ r # s /\ y \in r
      /\ q \in SUBSET U /\ q \subseteq s /\ q # s /\ x \in q
  BY <1>2, <1>3, <1>6, <1>7
<1> HIDE DEF r, q
<1>9. Splits(r) /\ Splits(q)
  BY <1>1, <1>8 DEF T
<1>10. Total(g, r) = g[y] + Total(g, r \ {y}) /\ Total(g, q) = g[x] + Total(g, q \ {x})
  BY <1>8, <1>9
<1>11. r \ {y} = q \ {x}
  BY DEF r, q
<1>12. g[x] \in Nat /\ g[y] \in Nat /\ Total(g, r \ {y}) \in Nat
  <2>1. r \ {y} \in SUBSET U /\ IsFiniteSet(r \ {y})
    BY <1>8, FS_Subset
  <2>2. \A z \in r \ {y} : g[z] \in Nat
    BY <2>1
  <2>3. Total(g, r \ {y}) \in Nat
    BY <2>1, <2>2, TotalType
  <2> QED
    BY <1>2, <1>3, <1>6, <2>3
<1>13. Total(g, s) # g[y] + Total(g, q)
  BY <1>3 DEF q
<1>14. Total(g, s) = g[x] + (g[y] + Total(g, r \ {y}))
  BY <1>5, <1>10
<1>15. Total(g, q) = g[x] + Total(g, r \ {y})
  BY <1>10, <1>11
<1> QED
  BY <1>12, <1>13, <1>14, <1>15

LEMMA TotalAdd ==
  ASSUME NEW U, IsFiniteSet(U), NEW x, x \notin U, NEW g, \A y \in U \cup {x} : g[y] \in Nat
  PROVE  Total(g, U \cup {x}) = g[x] + Total(g, U)
<1>1. IsFiniteSet(U \cup {x})
  BY FS_AddElement
<1>2. x \in U \cup {x} /\ (U \cup {x}) \ {x} = U
  OBVIOUS
<1>3. Total(g, U \cup {x}) = g[x] + Total(g, (U \cup {x}) \ {x})
  BY <1>1, <1>2, TotalRemove
<1> QED
  BY <1>2, <1>3

LEMMA TotalSame ==
  ASSUME NEW U, IsFiniteSet(U), NEW g, NEW h, \A x \in U : g[x] = h[x]
  PROVE  Total(g, U) = Total(h, U)
<1>1. PICK f : SumsTo(f, g, U)
  BY SumsExist
<1>2. \A s \in SUBSET U : Rest(f, g, s) = Rest(f, h, s)
  <2>1. \A s \in SUBSET U : s # {} => g[First(s)] = h[First(s)]
    BY FirstIn
  <2> QED
    BY <2>1 DEF Rest
<1>3. f = [s \in SUBSET U |-> Rest(f, h, s)]
  <2>1. f = [s \in SUBSET U |-> Rest(f, g, s)]
    BY <1>1 DEF SumsTo, Rest
  <2> QED
    BY <1>2, <2>1
<1>4. SumsTo(f, h, U)
  BY <1>3 DEF SumsTo, Rest
<1> QED
  BY <1>1, <1>4, TotalSums

-------------------------------------------------------------------------------
(* The units left in lots add up. *)
LotUnits(lots, i) == {i} \X (1..lots[i].remaining)

LEMMA LotUnitsCount ==
  ASSUME NEW lots \in Ledger, NEW i \in DOMAIN lots
  PROVE  /\ IsFiniteSet(LotUnits(lots, i))
         /\ Cardinality(LotUnits(lots, i)) = lots[i].remaining
<1> DEFINE n == lots[i].remaining
<1>1. n \in Nat
  BY LedgerLots DEF SoundLot, Lot
<1>2. IsFiniteSet(1..n) /\ Cardinality(1..n) = n
  <2> HIDE DEF n
  <2> QED
    BY <1>1, FS_Interval
<1>3. IsFiniteSet({i}) /\ Cardinality({i}) = 1
  BY FS_Singleton
<1> HIDE DEF n
<1>4. IsFiniteSet({i} \X (1..n)) /\ Cardinality({i} \X (1..n)) = 1 * n
  BY <1>2, <1>3, FS_Product
<1> QED
  BY <1>1, <1>4 DEF LotUnits, n

LEMMA UnitsFinite ==
  ASSUME NEW lots \in Ledger, NEW S \in SUBSET DOMAIN lots
  PROVE  IsFiniteSet(Units(lots, S))
<1>1. IsFiniteSet(S)
  BY LedgerLots, FS_Interval, FS_Subset
<1>2. \A i \in S : IsFiniteSet(LotUnits(lots, i))
  BY LotUnitsCount
<1> DEFINE T == {LotUnits(lots, i) : i \in S}
<1>3. IsFiniteSet(T)
  <2> DEFINE f == [i \in S |-> LotUnits(lots, i)]
  <2>1. f \in Surjection(S, T)
    BY DEF Surjection
  <2> QED
    BY <2>1, <1>1, FS_Surjection
<1>4. \A U \in T : IsFiniteSet(U)
  BY <1>2
<1>5. Units(lots, S) = UNION T
  BY DEF Units, LotUnits
<1> HIDE DEF T
<1> QED
  BY <1>3, <1>4, <1>5, FS_UNION

LEMMA RemainingNone == \A lots : Remaining(lots, {}) = 0
<1> SUFFICES ASSUME NEW lots PROVE Remaining(lots, {}) = 0
  OBVIOUS
<1>1. Units(lots, {}) = {}
  BY DEF Units
<1> QED
  BY <1>1, FS_EmptySet DEF Remaining

LEMMA RemainingAdd ==
  ASSUME NEW lots \in Ledger, NEW S \in SUBSET DOMAIN lots, NEW i \in DOMAIN lots, i \notin S
  PROVE  Remaining(lots, S \cup {i}) = Remaining(lots, S) + lots[i].remaining
<1> DEFINE V == Units(lots, S)
           W == LotUnits(lots, i)
<1>1. Units(lots, S \cup {i}) = V \cup W
  BY DEF Units, LotUnits
<1>2. V \cap W = {}
  BY DEF Units, LotUnits
<1>3. /\ IsFiniteSet(V) /\ IsFiniteSet(W)
      /\ Cardinality(W) = lots[i].remaining /\ lots[i].remaining \in Nat
  BY UnitsFinite, LotUnitsCount, LedgerLots DEF SoundLot, Lot
<1> HIDE DEF V, W
<1>4. Cardinality(V \cup W) = Cardinality(V) + Cardinality(W) - Cardinality(V \cap W)
  BY <1>3, FS_Union
<1>5. Cardinality(V \cap W) = 0 /\ Cardinality(V) \in Nat
  BY <1>2, <1>3, FS_EmptySet, FS_CardinalityType
<1>6. Cardinality(V \cup W) = Cardinality(V) + lots[i].remaining
  BY <1>3, <1>4, <1>5
<1>7. Remaining(lots, S \cup {i}) = Cardinality(V \cup W)
  BY <1>1 DEF Remaining
<1>8. Remaining(lots, S) = Cardinality(V)
  BY DEF Remaining, V
<1> QED
  BY <1>6, <1>7, <1>8

LEMMA RemainingMonotone ==
  ASSUME NEW lots \in Ledger, NEW T \in SUBSET DOMAIN lots, NEW S \in SUBSET T
  PROVE  Remaining(lots, S) <= Remaining(lots, T)
<1>1. Units(lots, S) \subseteq Units(lots, T)
  BY DEF Units
<1>2. IsFiniteSet(Units(lots, T))
  BY UnitsFinite
<1> QED
  BY <1>1, <1>2, FS_Subset DEF Remaining

(* Only the units of a lot count. *)
LEMMA RemainingSame ==
  ASSUME NEW old, NEW new, NEW S, \A i \in S : old[i].remaining = new[i].remaining
  PROVE  Remaining(old, S) = Remaining(new, S)
<1>1. Units(old, S) = Units(new, S)
  BY DEF Units
<1> QED
  BY <1>1 DEF Remaining

(* Spent lots do not count. *)
LEMMA RemainingUnspent ==
  ASSUME NEW lots \in Ledger, NEW T \in SUBSET DOMAIN lots, NEW S \in SUBSET T,
         \A i \in T \ S : lots[i].remaining = 0
  PROVE  Remaining(lots, S) = Remaining(lots, T)
<1>1. Units(lots, S) = Units(lots, T)
  BY DEF Units
<1> QED
  BY <1>1 DEF Remaining

-------------------------------------------------------------------------------
(* The order of spending is a strict total order on the lots. *)
LEMMA SpendOrder ==
  ASSUME NEW lots \in Ledger, NEW i \in DOMAIN lots, NEW j \in DOMAIN lots, NEW k \in DOMAIN lots
  PROVE  /\ ~SpentBefore(lots, i, i)
         /\ SpentBefore(lots, i, j) /\ SpentBefore(lots, j, k) => SpentBefore(lots, i, k)
         /\ i # j => SpentBefore(lots, i, j) \/ SpentBefore(lots, j, i)
<1>1. /\ i \in Int /\ j \in Int /\ k \in Int
      /\ lots[i].expires \in Nat \cup {Never} /\ lots[j].expires \in Nat \cup {Never}
      /\ lots[k].expires \in Nat \cup {Never} /\ Never \notin Int
  BY LedgerLots, NeverAssumption DEF SoundLot, Lot
<1> DEFINE a == lots[i].expires
           b == lots[j].expires
           c == lots[k].expires
<1>2. /\ SpentBefore(lots, i, i) <=> (a # Never /\ (a = Never \/ a < a)) \/ (a = a /\ i < i)
      /\ SpentBefore(lots, i, j) <=> (a # Never /\ (b = Never \/ a < b)) \/ (a = b /\ i < j)
      /\ SpentBefore(lots, j, i) <=> (b # Never /\ (a = Never \/ b < a)) \/ (a = b /\ j < i)
      /\ SpentBefore(lots, j, k) <=> (b # Never /\ (c = Never \/ b < c)) \/ (b = c /\ j < k)
      /\ SpentBefore(lots, i, k) <=> (a # Never /\ (c = Never \/ a < c)) \/ (a = c /\ i < k)
  BY DEF SpentBefore, ExpiresBefore
<1> HIDE DEF a, b, c
<1>3. a \in Nat \cup {Never} /\ b \in Nat \cup {Never} /\ c \in Nat \cup {Never}
  BY <1>1 DEF a, b, c
<1>4. ~SpentBefore(lots, i, i)
  BY <1>1, <1>2, <1>3
<1>5. ASSUME i # j PROVE SpentBefore(lots, i, j) \/ SpentBefore(lots, j, i)
  BY <1>1, <1>2, <1>3, <1>5
<1>6. ASSUME SpentBefore(lots, i, j), SpentBefore(lots, j, k) PROVE SpentBefore(lots, i, k)
  BY <1>1, <1>2, <1>3, <1>6
<1> QED
  BY <1>4, <1>5, <1>6

(* The lots that are spent before a lot. *)
Ahead(lots, now, i) == {j \in LiveLots(lots, now) : SpentBefore(lots, j, i)}

(* What a debit takes from a lot: what it asks beyond the lots ahead, at most *)
(* what the lot has.                                                          *)
LEMMA CountUpTo ==
  ASSUME NEW n \in Nat, NEW ahead \in Nat, NEW amount \in Nat
  PROVE  Cardinality({u \in 1..n : ahead + u <= amount}) =
           IF amount <= ahead THEN 0 ELSE IF n <= amount - ahead THEN n ELSE amount - ahead
<1> DEFINE m == IF amount <= ahead THEN 0 ELSE IF n <= amount - ahead THEN n ELSE amount - ahead
<1>1. m \in Nat /\ m <= n /\ \A u \in 1..n : ahead + u <= amount <=> u <= m
  OBVIOUS
<1> HIDE DEF m
<1>2. {u \in 1..n : ahead + u <= amount} = 1..m
  BY <1>1
<1>3. Cardinality(1..m) = m
  BY <1>1, FS_Interval
<1> QED
  BY <1>2, <1>3 DEF m

LEMMA UnitsTakenIs ==
  ASSUME NEW lots \in Ledger, NEW now, NEW amount \in Nat, NEW i \in DOMAIN lots
  PROVE  LET n == lots[i].remaining
             ahead == Remaining(lots, Ahead(lots, now, i))
         IN  UnitsTaken(lots, now, i, amount) =
               IF amount <= ahead THEN 0
               ELSE IF n <= amount - ahead THEN n ELSE amount - ahead
<1> DEFINE n == lots[i].remaining
           ahead == Remaining(lots, Ahead(lots, now, i))
<1>1. n \in Nat
  BY LedgerLots DEF SoundLot, Lot
<1>2. ahead \in Nat
  <2>1. Ahead(lots, now, i) \in SUBSET DOMAIN lots
    BY DEF Ahead, LiveLots
  <2> QED
    BY <2>1, RemainingIsNat
<1>3. UnitsTaken(lots, now, i, amount) = Cardinality({u \in 1..n : ahead + u <= amount})
  BY DEF UnitsTaken, Ahead
<1> HIDE DEF n, ahead
<1> QED
  BY <1>1, <1>2, <1>3, CountUpTo DEF n, ahead

LEMMA ConsumedLot ==
  ASSUME NEW lots \in Ledger, NEW now, NEW amount, NEW i \in DOMAIN lots
  PROVE  /\ ConsumeLots(lots, now, amount)[i].remaining =
              IF i \in LiveLots(lots, now)
              THEN lots[i].remaining - UnitsTaken(lots, now, i, amount) ELSE lots[i].remaining
         /\ ConsumeLots(lots, now, amount)[i].expires = lots[i].expires
<1>1. lots[i] \in Lot
  BY LedgerLots DEF SoundLot
<1> DEFINE left == lots[i].remaining - UnitsTaken(lots, now, i, amount)
<1>2. ConsumeLots(lots, now, amount)[i] =
        IF i \in LiveLots(lots, now) THEN [lots[i] EXCEPT !.remaining = left] ELSE lots[i]
  BY DEF ConsumeLots, LiveLots
<1> HIDE DEF left
<1>3. [lots[i] EXCEPT !.remaining = left].remaining = left
  BY <1>1 DEF Lot
<1>4. [lots[i] EXCEPT !.remaining = left].expires = lots[i].expires
  BY <1>1 DEF Lot
<1> QED
  BY <1>2, <1>3, <1>4 DEF left

(* A debit that takes from a lot has emptied the live lots ahead of it. *)
LEMMA EarlierEmptied ==
  ASSUME NEW lots \in Ledger, NEW now, NEW amount \in Nat,
         NEW i \in LiveLots(lots, now), NEW j \in LiveLots(lots, now), SpentBefore(lots, i, j),
         ConsumeLots(lots, now, amount)[j].remaining < lots[j].remaining
  PROVE  ConsumeLots(lots, now, amount)[i].remaining = 0
<1>1. i \in DOMAIN lots /\ j \in DOMAIN lots
  BY DEF LiveLots
<1> DEFINE m == lots[i].remaining
           n == lots[j].remaining
           a == Remaining(lots, Ahead(lots, now, i))
           b == Remaining(lots, Ahead(lots, now, j))
           x == UnitsTaken(lots, now, i, amount)
           y == UnitsTaken(lots, now, j, amount)
<1>2. m \in Nat /\ n \in Nat
  BY <1>1, LedgerLots DEF SoundLot, Lot
<1>3. /\ Ahead(lots, now, i) \cup {i} \subseteq Ahead(lots, now, j)
      /\ Ahead(lots, now, i) \subseteq DOMAIN lots /\ Ahead(lots, now, j) \subseteq DOMAIN lots
      /\ i \notin Ahead(lots, now, i)
  BY <1>1, SpendOrder DEF Ahead, LiveLots
<1>4. a \in Nat /\ b \in Nat
  BY <1>3, RemainingIsNat
<1>5. a + m <= b
  <2>1. Remaining(lots, Ahead(lots, now, i) \cup {i}) = a + m
    BY <1>1, <1>3, RemainingAdd
  <2>2. Remaining(lots, Ahead(lots, now, i) \cup {i}) <= b
    BY <1>3, RemainingMonotone
  <2> QED
    BY <2>1, <2>2
<1>6. /\ x = IF amount <= a THEN 0 ELSE IF m <= amount - a THEN m ELSE amount - a
      /\ y = IF amount <= b THEN 0 ELSE IF n <= amount - b THEN n ELSE amount - b
  BY <1>1, UnitsTakenIs
<1>7. /\ ConsumeLots(lots, now, amount)[i].remaining = m - x
      /\ n - y < n
  BY <1>1, ConsumedLot
<1> HIDE DEF m, n, a, b, x, y
<1>8. m - x = 0
  BY <1>2, <1>4, <1>5, <1>6, <1>7
<1> QED
  BY <1>7, <1>8

(* The last of some lots in the order of spending. *)
Last(lots, S, m) == m \in S /\ \A k \in S \ {m} : SpentBefore(lots, k, m)

LEMMA LastExists ==
  ASSUME NEW lots \in Ledger, NEW S \in SUBSET DOMAIN lots, S # {}
  PROVE  \E m : Last(lots, S, m)
<1> DEFINE T == {s \in SUBSET DOMAIN lots : s # {} /\ ~ \E m : Last(lots, s, m)}
<1> SUFFICES ASSUME T # {} PROVE FALSE
  OBVIOUS
<1>1. IsFiniteSet(DOMAIN lots) /\ T \subseteq SUBSET DOMAIN lots
  BY LedgerLots, FS_Interval
<1> HIDE DEF T
<1>2. PICK s \in T : \A t \in T : ~(t \subseteq s /\ t # s)
  BY <1>1, SmallestSubset
<1>3. s \subseteq DOMAIN lots /\ s # {} /\ ~ \E m : Last(lots, s, m)
  BY <1>2 DEF T
<1>4. PICK x : x \in s
  BY <1>3
<1> DEFINE r == s \ {x}
<1>5. r # {}
  <2> SUFFICES ASSUME r = {} PROVE FALSE
    OBVIOUS
  <2>1. Last(lots, s, x)
    BY <1>4 DEF Last
  <2> QED
    BY <1>3, <2>1
<1>6. r \subseteq s /\ r # s /\ r \subseteq DOMAIN lots
  BY <1>3, <1>4
<1>7. PICK m : Last(lots, r, m)
  <2> HIDE DEF r
  <2> QED
    BY <1>2, <1>5, <1>6 DEF T
<1>8. m \in s /\ m # x /\ \A k \in s \ {x, m} : SpentBefore(lots, k, m)
  BY <1>7 DEF Last
<1>9. /\ m \in DOMAIN lots /\ x \in DOMAIN lots
      /\ SpentBefore(lots, m, x) \/ SpentBefore(lots, x, m)
  BY <1>3, <1>4, <1>8, SpendOrder
<1>10. CASE SpentBefore(lots, x, m)
  <2>1. Last(lots, s, m)
    BY <1>8, <1>10 DEF Last
  <2> QED
    BY <1>3, <2>1
<1>11. CASE SpentBefore(lots, m, x)
  <2>1. ASSUME NEW k \in s \ {x, m} PROVE SpentBefore(lots, k, x)
    BY <1>3, <1>8, <1>9, <1>11, SpendOrder
  <2>2. Last(lots, s, x)
    BY <1>4, <1>11, <2>1 DEF Last
  <2> QED
    BY <1>3, <2>2
<1> QED
  BY <1>9, <1>10, <1>11

(* Live lots with all that are spent before one of them. *)
Closed(lots, now, S) ==
  /\ S \subseteq LiveLots(lots, now)
  /\ \A i \in S : Ahead(lots, now, i) \subseteq S

(* What a debit leaves of them. *)
LeftAfter(units, amount) == IF units <= amount THEN 0 ELSE units - amount

LEMMA ConsumedPart ==
  ASSUME NEW lots \in Ledger, NEW now, NEW amount \in Nat, NEW S, Closed(lots, now, S)
  PROVE  Remaining(ConsumeLots(lots, now, amount), S) = LeftAfter(Remaining(lots, S), amount)
<1> DEFINE new == ConsumeLots(lots, now, amount)
           Fits(s) == Remaining(new, s) = LeftAfter(Remaining(lots, s), amount)
           T == {s \in SUBSET DOMAIN lots : Closed(lots, now, s) /\ ~Fits(s)}
<1>0. S \subseteq DOMAIN lots
  BY DEF Closed, LiveLots
<1> SUFFICES ASSUME T # {} PROVE FALSE
  BY <1>0
<1>1. IsFiniteSet(DOMAIN lots) /\ T \subseteq SUBSET DOMAIN lots
  BY LedgerLots, FS_Interval
<1>n. new \in Ledger /\ DOMAIN new = DOMAIN lots
  BY ConsumeLotsLedger
<1> HIDE DEF T, new
<1>2. PICK s \in T : \A t \in T : ~(t \subseteq s /\ t # s)
  BY <1>1, SmallestSubset
<1>3. s \subseteq DOMAIN lots /\ Closed(lots, now, s) /\ ~Fits(s)
  BY <1>2 DEF T
<1>4. s # {}
  <2> SUFFICES ASSUME s = {} PROVE Fits(s)
    BY <1>3
  <2>1. Remaining(new, s) = 0 /\ Remaining(lots, s) = 0
    BY RemainingNone
  <2> QED
    BY <2>1 DEF LeftAfter
<1>5. PICK m : Last(lots, s, m)
  BY <1>3, <1>4, LastExists
<1> DEFINE r == s \ {m}
<1>6. /\ m \in s /\ m \in DOMAIN lots /\ m \in LiveLots(lots, now)
      /\ r \subseteq s /\ r # s /\ r \subseteq DOMAIN lots
      /\ s = r \cup {m} /\ m \notin r
      /\ \A k \in r : SpentBefore(lots, k, m)
  BY <1>3, <1>5 DEF Last, Closed
<1>7. Ahead(lots, now, m) = r
  <2>1. Ahead(lots, now, m) \subseteq s /\ m \notin Ahead(lots, now, m)
    BY <1>3, <1>6, SpendOrder DEF Closed, Ahead
  <2>2. r \subseteq Ahead(lots, now, m)
    BY <1>3, <1>6 DEF Closed, Ahead
  <2> QED
    BY <2>1, <2>2
<1>8. Closed(lots, now, r)
  <2>1. ASSUME NEW i \in r, NEW k \in Ahead(lots, now, i) PROVE k \in r
    <3>1. k \in s /\ i \in s /\ k \in DOMAIN lots /\ i \in DOMAIN lots
      BY <1>3, <1>6, <2>1 DEF Closed
    <3>2. SpentBefore(lots, i, m) /\ SpentBefore(lots, k, i)
      BY <1>6, <2>1 DEF Ahead
    <3>3. SpentBefore(lots, k, m)
      BY <1>6, <3>1, <3>2, SpendOrder
    <3>4. k # m
      BY <1>6, <3>3, SpendOrder
    <3> QED
      BY <3>1, <3>4
  <2> QED
    BY <1>3, <1>6, <2>1 DEF Closed
<1> HIDE DEF r
<1>9. Fits(r)
  BY <1>2, <1>6, <1>8 DEF T
<1> DEFINE n == lots[m].remaining
           a == Remaining(lots, r)
           x == UnitsTaken(lots, now, m, amount)
<1>10. n \in Nat /\ a \in Nat
  BY <1>6, RemainingIsNat, LedgerLots DEF SoundLot, Lot
<1>11. Remaining(lots, s) = a + n
  BY <1>6, RemainingAdd
<1>12. new[m].remaining = n - x
  BY <1>6, ConsumedLot DEF new
<1>13. Remaining(new, s) = Remaining(new, r) + (n - x)
  <2>1. r \in SUBSET DOMAIN new /\ m \in DOMAIN new
    BY <1>6, <1>n
  <2>2. Remaining(new, r \cup {m}) = Remaining(new, r) + new[m].remaining
    BY <1>n, <1>6, <2>1, RemainingAdd
  <2> QED
    BY <1>6, <1>12, <2>2
<1>14. x = IF amount <= a THEN 0 ELSE IF n <= amount - a THEN n ELSE amount - a
  <2>1. /\ UnitsTaken(lots, now, m, amount) =
             IF amount <= Remaining(lots, Ahead(lots, now, m)) THEN 0
             ELSE IF n <= amount - Remaining(lots, Ahead(lots, now, m)) THEN n
                  ELSE amount - Remaining(lots, Ahead(lots, now, m))
    BY <1>6, UnitsTakenIs
  <2> QED
    BY <1>7, <2>1
<1>15. Remaining(new, r) = LeftAfter(a, amount)
  BY <1>9
<1> HIDE DEF n, a, x
<1>16. LeftAfter(a, amount) + (n - x) = LeftAfter(a + n, amount)
  BY <1>10, <1>14 DEF LeftAfter
<1> QED
  BY <1>3, <1>11, <1>13, <1>15, <1>16

(* A debit takes its amount from the live lots, or all they have. *)
LEMMA ConsumedTotal ==
  ASSUME NEW lots \in Ledger, NEW now, NEW amount \in Nat,
         \A i \in DOMAIN lots \ LiveLots(lots, now) : lots[i].remaining = 0
  PROVE  Remaining(ConsumeLots(lots, now, amount), DOMAIN lots) =
           LeftAfter(Remaining(lots, DOMAIN lots), amount)
<1> DEFINE live == LiveLots(lots, now)
           new  == ConsumeLots(lots, now, amount)
<1>1. Closed(lots, now, live) /\ live \subseteq DOMAIN lots
  BY DEF Closed, Ahead, LiveLots
<1>2. new \in Ledger /\ DOMAIN new = DOMAIN lots
  BY ConsumeLotsLedger
<1>3. \A i \in DOMAIN lots \ live : new[i].remaining = 0
  BY ConsumedLot
<1> HIDE DEF live, new
<1>4. Remaining(lots, live) = Remaining(lots, DOMAIN lots)
  BY <1>1, RemainingUnspent DEF live
<1>5. Remaining(new, live) = Remaining(new, DOMAIN lots)
  <2>1. DOMAIN lots \in SUBSET DOMAIN new /\ live \in SUBSET DOMAIN lots
    BY <1>1, <1>2
  <2> QED
    BY <1>2, <1>3, <2>1, RemainingUnspent
<1>6. Remaining(new, live) = LeftAfter(Remaining(lots, live), amount)
  BY <1>1, ConsumedPart DEF new
<1> QED
  BY <1>4, <1>5, <1>6 DEF new

(* A new lot brings its units. *)
LEMMA AppendedTotal ==
  ASSUME NEW lots \in Ledger, NEW lot \in SoundLot
  PROVE  Remaining(Append(lots, lot), DOMAIN Append(lots, lot)) =
           Remaining(lots, DOMAIN lots) + lot.remaining
<1> DEFINE new == Append(lots, lot)
           n == Len(lots) + 1
<1>1. lots \in Seq(SoundLot) /\ DOMAIN lots = 1..Len(lots) /\ Len(lots) \in Nat
  BY LedgerIsSeq, LedgerLots
<1>2. /\ DOMAIN new = 1..n
      /\ \A i \in 1..Len(lots) : new[i] = lots[i]
      /\ new[n] = lot
  BY <1>1, AppendProperties
<1>3. new \in Ledger
  BY AppendLedger
<1> HIDE DEF new
<1>4. DOMAIN new = DOMAIN lots \cup {n} /\ n \notin DOMAIN lots /\ n \in DOMAIN new
  BY <1>1, <1>2
<1>5. Remaining(new, DOMAIN lots) = Remaining(lots, DOMAIN lots)
  BY <1>1, <1>2, RemainingSame
<1>6. DOMAIN lots \in SUBSET DOMAIN new
  BY <1>4
<1> HIDE DEF n
<1>7. Remaining(new, DOMAIN lots \cup {n}) = Remaining(new, DOMAIN lots) + new[n].remaining
  BY <1>3, <1>4, <1>6, RemainingAdd
<1> QED
  BY <1>2, <1>4, <1>5, <1>7 DEF new

(* Lots that are zeroed lose what they had. *)
LEMMA ZeroedLot ==
  ASSUME NEW lots \in Ledger, NEW S, NEW i \in DOMAIN lots
  PROVE  /\ ZeroLots(lots, S)[i].remaining = IF i \in S THEN 0 ELSE lots[i].remaining
         /\ ZeroLots(lots, S)[i].expires = lots[i].expires
<1>1. lots[i] \in Lot
  BY LedgerLots DEF SoundLot
<1>2. ZeroLots(lots, S)[i] = IF i \in S THEN [lots[i] EXCEPT !.remaining = 0] ELSE lots[i]
  BY DEF ZeroLots
<1> QED
  BY <1>1, <1>2 DEF Lot

LEMMA RemainingSplit ==
  ASSUME NEW lots \in Ledger, NEW S \in SUBSET DOMAIN lots
  PROVE  Remaining(lots, DOMAIN lots) = Remaining(lots, S) + Remaining(lots, DOMAIN lots \ S)
<1> DEFINE V == Units(lots, S)
           W == Units(lots, DOMAIN lots \ S)
<1>1. Units(lots, DOMAIN lots) = V \cup W
  BY DEF Units
<1>2. V \cap W = {}
  BY DEF Units
<1>3. IsFiniteSet(V) /\ IsFiniteSet(W)
  BY UnitsFinite
<1>4. Remaining(lots, S) = Cardinality(V) /\ Remaining(lots, DOMAIN lots \ S) = Cardinality(W)
  BY DEF Remaining
<1>5. Remaining(lots, DOMAIN lots) = Cardinality(V \cup W)
  BY <1>1 DEF Remaining
<1> HIDE DEF V, W
<1>6. Cardinality(V \cup W) = Cardinality(V) + Cardinality(W) - Cardinality(V \cap W)
  BY <1>3, FS_Union
<1>7. Cardinality(V \cap W) = 0 /\ Cardinality(V) \in Nat /\ Cardinality(W) \in Nat
  BY <1>2, <1>3, FS_EmptySet, FS_CardinalityType
<1>8. Cardinality(V \cup W) = Cardinality(V) + Cardinality(W)
  BY <1>6, <1>7
<1> QED
  BY <1>4, <1>5, <1>8

LEMMA ZeroedTotal ==
  ASSUME NEW lots \in Ledger, NEW S \in SUBSET DOMAIN lots
  PROVE  Remaining(lots, DOMAIN lots) =
           Remaining(ZeroLots(lots, S), DOMAIN lots) + Remaining(lots, S)
<1> DEFINE new == ZeroLots(lots, S)
           rest == DOMAIN lots \ S
<1>1. new \in Ledger /\ DOMAIN new = DOMAIN lots
  BY ZeroLotsLedger
<1>2. \A i \in DOMAIN lots : new[i].remaining = IF i \in S THEN 0 ELSE lots[i].remaining
  BY ZeroedLot
<1> HIDE DEF new
<1>3. Remaining(new, rest) = Remaining(lots, rest)
  BY <1>2, RemainingSame
<1>4. Remaining(new, rest) = Remaining(new, DOMAIN lots)
  <2>1. DOMAIN lots \in SUBSET DOMAIN new /\ rest \in SUBSET DOMAIN lots
    BY <1>1
  <2>2. \A i \in DOMAIN lots \ rest : new[i].remaining = 0
    BY <1>2
  <2> HIDE DEF rest
  <2> QED
    BY <1>1, <2>1, <2>2, RemainingUnspent
<1>5. Remaining(lots, DOMAIN lots) = Remaining(lots, S) + Remaining(lots, rest)
  BY RemainingSplit
<1>6. Remaining(lots, S) \in Nat /\ Remaining(lots, rest) \in Nat
  BY RemainingIsNat
<1> HIDE DEF rest
<1> QED
  BY <1>3, <1>4, <1>5, <1>6 DEF new

(* A lot that is filled up gains what goes into it. *)
LEMMA FilledTotal ==
  ASSUME NEW old \in Ledger, NEW new \in Ledger, DOMAIN new = DOMAIN old, NEW i \in DOMAIN old,
         NEW units \in Nat, new[i].remaining = old[i].remaining + units,
         \A k \in DOMAIN old \ {i} : new[k].remaining = old[k].remaining
  PROVE  Remaining(new, DOMAIN old) = Remaining(old, DOMAIN old) + units
<1> DEFINE rest == DOMAIN old \ {i}
<1>1. rest \in SUBSET DOMAIN old /\ i \notin rest /\ rest \cup {i} = DOMAIN old
  OBVIOUS
<1>2. Remaining(new, rest) = Remaining(old, rest)
  BY RemainingSame
<1> HIDE DEF rest
<1>3. /\ Remaining(old, rest \cup {i}) = Remaining(old, rest) + old[i].remaining
      /\ Remaining(new, rest \cup {i}) = Remaining(new, rest) + new[i].remaining
  BY <1>1, RemainingAdd
<1>4. Remaining(old, rest) \in Nat /\ old[i].remaining \in Nat
  BY <1>1, RemainingIsNat, LedgerLots DEF SoundLot, Lot
<1> QED
  BY <1>1, <1>2, <1>3, <1>4

-------------------------------------------------------------------------------
(* A refund fills one lot up at most, and what is left goes to a new one. *)
RestoresAs(lots, units, new, filled, into) ==
  /\ DOMAIN filled = DOMAIN lots
  /\ \A k \in DOMAIN lots : /\ filled[k].period = lots[k].period
                            /\ filled[k].expires = lots[k].expires
  /\ \/ into = 0 /\ filled = lots
     \/ \E i \in DOMAIN lots :
          /\ filled[i].remaining = lots[i].remaining + into
          /\ \A k \in DOMAIN lots \ {i} : filled[k].remaining = lots[k].remaining
  /\ \/ into = units /\ new = filled
     \/ \E rest \in SoundLot :
          /\ rest.remaining = units - into
          /\ rest.expires = Never /\ rest.period = Never
          /\ new = Append(filled, rest)

LEMMA RestoreLotsShape ==
  ASSUME NEW lots \in Ledger, NEW now, NEW units \in Nat
  PROVE  \E filled \in Ledger, into \in 0..units :
           RestoresAs(lots, units, RestoreLots(lots, now, units), filled, into)
<1> DEFINE target == RestoreTarget(lots, now)
           i      == CHOOSE i \in target : TRUE
           into   == IF target = {} THEN 0 ELSE IntoLot(lots[i], units)
           lot    == [lots[i] EXCEPT !.remaining = lots[i].remaining + into]
           filled == IF target = {} THEN lots ELSE [lots EXCEPT ![i] = lot]
           rest   == NewLot("grant", units - into, Never, Never)
<1>1. /\ into \in 0..units
      /\ target # {} => /\ i \in DOMAIN lots /\ lots[i] \in SoundLot
                        /\ lots[i].remaining + into <= lots[i].amount
  <2>1. target # {} => i \in target
    OBVIOUS
  <2>2. target \subseteq DOMAIN lots
    BY DEF RestoreTarget, LiveLots
  <2>3. target # {} => i \in DOMAIN lots /\ lots[i] \in SoundLot
    BY <2>1, <2>2, LedgerLots
  <2> HIDE DEF target, i
  <2>4. QED
    BY <2>3, IntoLotBound
<1>2. /\ filled \in Ledger /\ DOMAIN filled = DOMAIN lots
      /\ \A k \in DOMAIN lots : /\ filled[k].period = lots[k].period
                                /\ filled[k].expires = lots[k].expires
      /\ \/ into = 0 /\ filled = lots
         \/ \E l \in DOMAIN lots :
              /\ filled[l].remaining = lots[l].remaining + into
              /\ \A k \in DOMAIN lots \ {l} : filled[k].remaining = lots[k].remaining
  <2>1. CASE target = {}
    BY <2>1
  <2>2. CASE target # {}
    <3> HIDE DEF target, i, into
    <3>1. lots[i].remaining + into \in Nat /\ lots[i].remaining + into <= lots[i].amount
      BY <1>1, <2>2 DEF SoundLot, Lot
    <3>2. /\ lot \in SoundLot /\ lot.remaining = lots[i].remaining + into
          /\ lot.period = lots[i].period /\ lot.expires = lots[i].expires
      BY <1>1, <2>2, <3>1 DEF SoundLot, Lot
    <3> HIDE DEF lot
    <3>3. lots \in Seq(SoundLot) /\ i \in 1..Len(lots)
      BY <1>1, <2>2, LedgerIsSeq, LedgerLots
    <3>4. [lots EXCEPT ![i] = lot] \in Seq(SoundLot)
      BY <3>2, <3>3, ExceptSeq
    <3>5. filled = [lots EXCEPT ![i] = lot] /\ DOMAIN filled = DOMAIN lots /\ i \in DOMAIN lots
      BY <1>1, <2>2
    <3>6. filled[i] = lot /\ \A k \in DOMAIN lots \ {i} : filled[k] = lots[k]
      BY <3>5
    <3> HIDE DEF filled
    <3>7. QED
      BY <3>2, <3>4, <3>5, <3>6, LedgerIsSeq
  <2>3. QED
    BY <2>1, <2>2
<1>3. rest \in SoundLot /\ rest.remaining = units - into /\ rest.expires = Never /\ rest.period = Never
  <2> HIDE DEF into
  <2>1. units - into \in Nat
    BY <1>1
  <2>2. "grant" \in Tags
    BY DEF Tags
  <2>3. rest \in SoundLot
    BY <2>1, <2>2, NewLotSound
  <2>4. QED
    BY <2>3 DEF NewLot
<1>4. RestoreLots(lots, now, units) = IF into = units THEN filled ELSE Append(filled, rest)
  BY DEF RestoreLots
<1> HIDE DEF target, i, into, filled, rest
<1>5. RestoresAs(lots, units, RestoreLots(lots, now, units), filled, into)
  BY <1>2, <1>3, <1>4 DEF RestoresAs
<1>6. QED
  BY <1>1, <1>2, <1>5

(* A refund comes back whole, to a live lot or to a new one. *)
LEMMA RestoredTotal ==
  ASSUME NEW lots \in Ledger, NEW now, NEW units \in Nat
  PROVE  LET new == RestoreLots(lots, now, units)
         IN  Remaining(new, DOMAIN new) = Remaining(lots, DOMAIN lots) + units
<1> DEFINE new == RestoreLots(lots, now, units)
           total == Remaining(lots, DOMAIN lots)
<1>0. PICK filled \in Ledger, into \in 0..units : RestoresAs(lots, units, new, filled, into)
  BY RestoreLotsShape
<1>1. /\ DOMAIN filled = DOMAIN lots
      /\ \/ into = 0 /\ filled = lots
         \/ \E i \in DOMAIN lots :
              /\ filled[i].remaining = lots[i].remaining + into
              /\ \A k \in DOMAIN lots \ {i} : filled[k].remaining = lots[k].remaining
      /\ \/ into = units /\ new = filled
         \/ \E rest \in SoundLot :
              rest.remaining = units - into /\ new = Append(filled, rest)
  BY <1>0 DEF RestoresAs
<1> HIDE DEF new
<1>2. total \in Nat /\ into \in Nat /\ into <= units
  BY RemainingIsNat
<1>3. Remaining(filled, DOMAIN filled) = total + into
  <2>1. CASE into = 0 /\ filled = lots
    BY <1>2, <2>1
  <2>2. CASE \E i \in DOMAIN lots :
               /\ filled[i].remaining = lots[i].remaining + into
               /\ \A k \in DOMAIN lots \ {i} : filled[k].remaining = lots[k].remaining
    BY <1>1, <1>2, <2>2, FilledTotal
  <2> QED
    BY <1>1, <2>1, <2>2
<1> HIDE DEF total
<1>4. CASE into = units /\ new = filled
  BY <1>3, <1>4 DEF total, new
<1>5. CASE \E rest \in SoundLot : rest.remaining = units - into /\ new = Append(filled, rest)
  <2>1. PICK rest \in SoundLot : rest.remaining = units - into /\ new = Append(filled, rest)
    BY <1>5
  <2>2. Remaining(new, DOMAIN new) = (total + into) + (units - into)
    BY <1>3, <2>1, AppendedTotal
  <2>3. Remaining(new, DOMAIN new) = total + units
    BY <1>2, <2>2
  <2> QED
    BY <2>3 DEF new, total
<1> QED
  BY <1>1, <1>4, <1>5
===============================================================================
