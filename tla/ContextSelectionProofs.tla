------------------------ MODULE ContextSelectionProofs ------------------------
(***************************************************************************)
(* The files shown to the model: within both bounds by the sizes they really    *)
(* have, and none left out that would still fit, for every working copy and      *)
(* every budget.                                                            *)
(***************************************************************************)
EXTENDS ContextSelection, SequenceTheorems, WellFoundedInduction, TLAPS

-----------------------------------------------------------------------------
(* Induction on the natural numbers, as a fact about sets: a set with 0 that has    *)
(* n + 1 whenever it has n has them all.                                        *)
LEMMA LeastElement ==
  ASSUME NEW S, S \subseteq Nat, S # {}
  PROVE  \E n \in S : \A m \in S : n <= m
<1> DEFINE R == OpToRel(<, Nat)
<1>1. IsWellFoundedOn(R, Nat)
  BY NatLessThanWellFounded
<1>2. \A x, y \in Nat : x < y => <<x, y>> \in R
  BY DEF OpToRel
<1> HIDE DEF R
<1>3. PICK x \in S : \A y \in S : ~ (<<y, x>> \in R)
  <2>1. \E x \in S : \A y \in S : ~ (<<y, x>> \in R)
    BY <1>1, WFMin
  <2> QED
    BY <2>1
<1>4. \A y \in S : ~ (y < x)
  BY <1>2, <1>3
<1> QED
  BY <1>3, <1>4

LEMMA SetInduction ==
  ASSUME NEW S, 0 \in S, \A n \in Nat : n \in S => n + 1 \in S
  PROVE  Nat \subseteq S
<1> DEFINE Missing == {n \in Nat : n \notin S}
<1>1. SUFFICES ASSUME Missing # {} PROVE FALSE
  OBVIOUS
<1>2. PICK n \in Missing : \A m \in Missing : n <= m
  BY <1>1, LeastElement
<1>3. n \in Nat /\ n # 0 /\ n \notin S
  BY <1>2
<1>4. n - 1 \in Nat /\ n - 1 \in S
  BY <1>2, <1>3
<1> QED
  BY <1>3, <1>4

-----------------------------------------------------------------------------
(* What SizeOf computes.                                                      *)

NextSize(copy, positions, sums, n) ==
  IF n = 0 THEN 0 ELSE sums[n - 1] + copy[positions[n]].size

Sums(copy, positions, k) ==
  CHOOSE sums : sums = [n \in 0 .. k |-> NextSize(copy, positions, sums, n)]

(* The recursion has a solution, up to any position.                           *)
LEMMA SumsExist ==
  ASSUME NEW copy, NEW positions, NEW k \in Nat
  PROVE  Sums(copy, positions, k) =
           [n \in 0 .. k |-> NextSize(copy, positions, Sums(copy, positions, k), n)]
<1> DEFINE IsSums(f, m) == f = [n \in 0 .. m |-> NextSize(copy, positions, f, n)]
           Solved == {m \in Nat : \E f : IsSums(f, m)}
<1>1. 0 \in Solved
  <2>1. IsSums([n \in 0 .. 0 |-> 0], 0)
    BY DEF NextSize
  <2> QED
    BY <2>1
<1>2. ASSUME NEW m \in Nat, m \in Solved
      PROVE  m + 1 \in Solved
  <2>1. PICK f : IsSums(f, m)
    BY <1>2
  <2> DEFINE g == [n \in 0 .. m + 1 |->
                     IF n = m + 1 THEN f[m] + copy[positions[m + 1]].size ELSE f[n]]
  <2>2. ASSUME NEW n \in 0 .. m + 1
        PROVE  g[n] = NextSize(copy, positions, g, n)
    <3>1. CASE n = 0
      BY <2>1, <3>1 DEF NextSize
    <3>2. CASE n \in 1 .. m
      <4>1. g[n] = f[n] /\ g[n - 1] = f[n - 1]
        BY <3>2
      <4>2. f[n] = f[n - 1] + copy[positions[n]].size
        BY <2>1, <3>2 DEF NextSize
      <4> QED
        BY <3>2, <4>1, <4>2 DEF NextSize
    <3>3. CASE n = m + 1
      <4>1. g[n] = f[m] + copy[positions[n]].size /\ g[n - 1] = f[m] /\ n # 0
        BY <3>3
      <4> QED
        BY <4>1 DEF NextSize
    <3> QED
      BY <3>1, <3>2, <3>3
  <2>3. IsSums(g, m + 1)
    BY <2>2
  <2> HIDE DEF g
  <2>4. \E h : IsSums(h, m + 1)
    BY <2>3
  <2> QED
    BY <2>4
<1>3. k \in Solved
  <2> HIDE DEF Solved
  <2> QED
    BY <1>1, <1>2, SetInduction
<1> QED
  BY <1>3 DEF Sums

LEMMA SizeOfIsLastSum ==
  ASSUME NEW copy, NEW positions
  PROVE  SizeOf(copy, positions) = Sums(copy, positions, Len(positions))[Len(positions)]
BY DEF SizeOf, Sums, NextSize

(* No file, no bytes.                                                         *)
LEMMA SizeOfNothing ==
  ASSUME NEW copy, NEW positions, Len(positions) = 0
  PROVE  SizeOf(copy, positions) = 0
BY SumsExist, SizeOfIsLastSum DEF NextSize

(* One file more, its bytes more.                                              *)
LEMMA SizeOfAppend ==
  ASSUME NEW copy, NEW positions \in Seq(Nat), NEW x \in Nat
  PROVE  SizeOf(copy, Append(positions, x)) = SizeOf(copy, positions) + copy[x].size
<1> DEFINE longer == Append(positions, x)
           k == Len(positions)
           f == Sums(copy, positions, k)
           g == Sums(copy, longer, k + 1)
           Same == {n \in Nat : n <= k => f[n] = g[n]}
<1>1. /\ k \in Nat /\ Len(longer) = k + 1 /\ longer[k + 1] = x
      /\ \A n \in 1 .. k : longer[n] = positions[n]
  BY LenProperties, AppendProperties
<1>2. \A n \in 0 .. k : f[n] = NextSize(copy, positions, f, n)
  BY <1>1, SumsExist
<1>3. \A n \in 0 .. k + 1 : g[n] = NextSize(copy, longer, g, n)
  BY <1>1, SumsExist
<1>4. SizeOf(copy, positions) = f[k] /\ SizeOf(copy, longer) = g[k + 1]
  BY <1>1, SizeOfIsLastSum
<1> HIDE DEF longer, k, f, g
<1>5. 0 \in Same
  BY <1>1, <1>2, <1>3 DEF NextSize
<1>6. ASSUME NEW n \in Nat, n \in Same
      PROVE  n + 1 \in Same
  <2> SUFFICES ASSUME n + 1 <= k PROVE f[n + 1] = g[n + 1]
    OBVIOUS
  <2>1. f[n] = g[n] /\ longer[n + 1] = positions[n + 1]
    BY <1>1, <1>6
  <2>2. f[n + 1] = f[n] + copy[positions[n + 1]].size
    BY <1>1, <1>2 DEF NextSize
  <2>3. g[n + 1] = g[n] + copy[longer[n + 1]].size
    BY <1>1, <1>3 DEF NextSize
  <2> QED
    BY <2>1, <2>2, <2>3
<1>7. f[k] = g[k]
  <2> HIDE DEF Same
  <2>1. k \in Same
    BY <1>1, <1>5, <1>6, SetInduction
  <2> QED
    BY <1>1, <2>1 DEF Same
<1>8. g[k + 1] = g[k] + copy[x].size
  BY <1>1, <1>3 DEF NextSize
<1> QED
  BY <1>4, <1>7, <1>8 DEF longer

-----------------------------------------------------------------------------
(* What was passed over did not fit then, and total only grows.                *)
PassedOver ==
  \A n \in LeftOut : n < at => ~ Fits(entries[n])

SelectionInv ==
  /\ SelectionTypeOK
  /\ at \in 0 .. Len(entries) + 1
  /\ WithinBudget
  /\ TotalIsTheirSize
  /\ PassedOver

LEMMA ForgottenIsEmpty ==
  ASSUME SelectionForgotten
  PROVE  SelectionInv'
<1>1. /\ entries' \in Seq(File) /\ selected' \in Seq(Nat)
      /\ Len(entries') = 0 /\ Len(selected') = 0
  BY EmptySeq DEF SelectionForgotten
<1>2. TotalIsTheirSize'
  BY <1>1, SizeOfNothing DEF TotalIsTheirSize, SelectionForgotten
<1> QED
  BY <1>1, <1>2, BudgetAssumption
     DEF SelectionForgotten, SelectionInv, SelectionTypeOK, WithinBudget, PassedOver, LeftOut

LEMMA StartsWithNothing ==
  ASSUME SelectionInv, NEW copy \in Seq(File), SelectionStarts(copy)
  PROVE  SelectionInv'
<1>1. /\ entries' \in Seq(File) /\ selected' \in Seq(Nat)
      /\ Len(selected') = 0 /\ at' = 1 /\ total' = 0
  BY EmptySeq DEF SelectionStarts
<1>2. Len(entries') \in Nat
  BY <1>1, LenProperties
<1>3. TotalIsTheirSize'
  BY <1>1, SizeOfNothing DEF TotalIsTheirSize
<1> QED
  BY <1>1, <1>2, <1>3, BudgetAssumption
     DEF SelectionInv, SelectionTypeOK, WithinBudget, PassedOver, LeftOut

LEMMA RangeOfAppend ==
  ASSUME NEW s \in Seq(Nat), NEW x \in Nat
  PROVE  Range(Append(s, x)) = Range(s) \union {x}
<1>1. /\ DOMAIN s = 1 .. Len(s) /\ Len(s) \in Nat
      /\ DOMAIN Append(s, x) = 1 .. Len(s) + 1
      /\ \A n \in 1 .. Len(s) : Append(s, x)[n] = s[n]
      /\ Append(s, x)[Len(s) + 1] = x
  BY AppendProperties, LenProperties
<1>2. \A y : y \in Range(Append(s, x)) => y \in Range(s) \union {x}
  BY <1>1 DEF Range
<1>3. \A y : y \in Range(s) \union {x} => y \in Range(Append(s, x))
  BY <1>1 DEF Range
<1> QED
  BY <1>2, <1>3

LEMMA SelectsKeeps ==
  ASSUME SelectionInv, Selects
  PROVE  SelectionInv'
<1>1. /\ entries \in Seq(File) /\ Len(entries) \in Nat
      /\ at \in 1 .. Len(entries) /\ entries[at].size \in Nat
      /\ total \in Nat /\ total + entries[at].size <= MaxTotalBytes
      /\ selected \in Seq(Nat) /\ Len(selected) \in Nat
      /\ ~ (Len(selected) >= MaxFileCount)
  <2>1. /\ entries \in Seq(File) /\ selected \in Seq(Nat) /\ total \in Nat
        /\ at \in 1 .. Len(entries)
    BY DEF SelectionInv, SelectionTypeOK, Selects, Considers
  <2>2. Len(entries) \in Nat /\ Len(selected) \in Nat /\ entries[at] \in File
    BY <2>1, LenProperties, ElementOfSeq
  <2>3. entries[at].size \in Nat
    BY <2>2 DEF File
  <2> QED
    BY <2>1, <2>2, <2>3 DEF Selects, Considers, Fits, CountReached
<1>2. /\ selected' = Append(selected, at) /\ total' = total + entries[at].size
      /\ at' = at + 1 /\ entries' = entries
  BY DEF Selects
<1>3. /\ selected' \in Seq(Nat) /\ Len(selected') = Len(selected) + 1
      /\ Range(selected') = Range(selected) \union {at}
  BY <1>1, <1>2, AppendProperties, RangeOfAppend
<1>4. SelectionTypeOK' /\ at' \in 0 .. Len(entries') + 1
  BY <1>1, <1>2, <1>3 DEF SelectionTypeOK
<1>5. WithinBudget'
  BY <1>1, <1>2, <1>3, BudgetAssumption DEF WithinBudget
<1>6. ASSUME NEW n \in LeftOut', n < at + 1
      PROVE  ~ (total + entries[at].size + entries[n].size <= MaxTotalBytes)
  <2>1. n \in LeftOut /\ n < at
    BY <1>1, <1>2, <1>3, <1>6 DEF LeftOut
  <2>2. ~ (total + entries[n].size <= MaxTotalBytes)
    BY <2>1 DEF SelectionInv, PassedOver, Fits
  <2>3. entries[n] \in File /\ MaxTotalBytes \in Nat
    BY <1>1, <2>1, ElementOfSeq, BudgetAssumption DEF LeftOut
  <2> QED
    BY <1>1, <2>2, <2>3 DEF File
<1>7. PassedOver'
  BY <1>2, <1>6 DEF PassedOver, Fits
<1>8. TotalIsTheirSize'
  <2>1. SizeOf(entries, Append(selected, at)) = SizeOf(entries, selected) + entries[at].size
    BY <1>1, SizeOfAppend
  <2> QED
    BY <1>2, <2>1 DEF SelectionInv, TotalIsTheirSize
<1> QED
  BY <1>4, <1>5, <1>7, <1>8 DEF SelectionInv

LEMMA SkipsKeeps ==
  ASSUME SelectionInv, Skips
  PROVE  SelectionInv'
<1>1. /\ at \in 1 .. Len(entries) /\ at' = at + 1 /\ Len(entries) \in Nat
      /\ UNCHANGED <<entries, selected, total>>
      /\ ~ (IsContext(entries[at]) /\ Fits(entries[at]))
  BY LenProperties DEF Skips, Considers, AfterTooBig, SelectionInv, SelectionTypeOK
<1>2. /\ SelectionTypeOK' /\ at' \in 0 .. Len(entries') + 1
      /\ WithinBudget' /\ TotalIsTheirSize'
  BY <1>1 DEF SelectionInv, SelectionTypeOK, WithinBudget, TotalIsTheirSize
<1>3. PassedOver'
  <2> SUFFICES ASSUME NEW n \in LeftOut, n < at + 1
               PROVE  ~ Fits(entries[n])
    BY <1>1 DEF PassedOver, LeftOut, Fits
  <2>1. n \in Nat /\ at \in Nat /\ IsContext(entries[n])
    BY <1>1 DEF LeftOut
  <2>2. CASE n = at
    BY <1>1, <2>1, <2>2
  <2>3. CASE n < at
    BY <2>3 DEF SelectionInv, PassedOver
  <2> QED
    BY <2>1, <2>2, <2>3
<1> QED
  BY <1>2, <1>3 DEF SelectionInv

THEOREM SelectionInvariant == SelectionSpec => []SelectionInv
<1>1. SelectionInit => SelectionInv
  <2> SUFFICES ASSUME NoSelection PROVE SelectionInv
    BY DEF SelectionInit
  <2>1. /\ entries \in Seq(File) /\ selected \in Seq(Nat)
        /\ Len(entries) = 0 /\ Len(selected) = 0
    BY EmptySeq DEF NoSelection
  <2>2. TotalIsTheirSize
    BY <2>1, SizeOfNothing DEF NoSelection, TotalIsTheirSize
  <2> QED
    BY <2>1, <2>2, BudgetAssumption
       DEF NoSelection, SelectionInv, SelectionTypeOK, WithinBudget, PassedOver, LeftOut
<1>2. SelectionInv /\ [SelectionNext]_selectionVars => SelectionInv'
  <2> SUFFICES ASSUME SelectionInv, [SelectionNext]_selectionVars PROVE SelectionInv'
    OBVIOUS
  <2>1. CASE UNCHANGED selectionVars
    BY <2>1 DEF selectionVars, SelectionInv, SelectionTypeOK, WithinBudget, TotalIsTheirSize, PassedOver,
       Fits, LeftOut
  <2>2. CASE SelectionReturns \/ SelectionForgotten
    BY <2>2, ForgottenIsEmpty DEF SelectionReturns
  <2>3. CASE SelectionStep
    BY <2>3, SelectsKeeps, SkipsKeeps DEF SelectionStep
  <2>4. CASE \E copy \in Seq(File) : SelectionStarts(copy)
    BY <2>4, StartsWithNothing
  <2> QED
    BY <2>1, <2>2, <2>3, <2>4 DEF SelectionNext
<1> QED
  BY <1>1, <1>2, PTL DEF SelectionSpec

(* The files shown are within both bounds, total_bytes is the sum of their sizes,    *)
(* and a selection that ended below the bound on the number of files left out       *)
(* none that would still fit, whatever the working copy and the budget.           *)
THEOREM ContextIsMaximalAlways == SelectionSpec => []ContextIsMaximal
<1>1. SelectionInv => NoneLeftThatFits
  <2> SUFFICES ASSUME SelectionInv, SelectionDone, ~ CountReached, NEW n \in LeftOut
               PROVE  ~ Fits(entries[n])
    BY DEF NoneLeftThatFits
  <2>1. at = Len(entries) + 1 /\ Len(entries) \in Nat
    BY LenProperties DEF SelectionInv, SelectionTypeOK, SelectionDone, Considers
  <2>2. n \in 1 .. Len(entries)
    BY DEF LeftOut
  <2> QED
    BY <2>1, <2>2 DEF SelectionInv, PassedOver
<1>2. SelectionInv => ContextIsMaximal
  BY <1>1 DEF SelectionInv, ContextIsMaximal
<1> QED
  BY <1>2, SelectionInvariant, PTL
=============================================================================
