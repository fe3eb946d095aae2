---------------------------- MODULE PagingProofs ----------------------------
(***************************************************************************)
(* Theorems about the two pagings, LogPaging and ListPaging, for every     *)
(* size of a page and of a budget, every log and list, and however they    *)
(* change between two pages.                                               *)
(*                                                                         *)
(* Both build a page in a loop, which is a recursive function: that it     *)
(* exists, and what it computes, is proved by induction over the numbers,  *)
(* which is proved first, from the finite sets' well-foundedness.          *)
(***************************************************************************)
EXTENDS LogPaging, ListPaging, FiniteSetTheorems, FunctionTheorems, TLAPS

-----------------------------------------------------------------------------
(* Induction.                                                              *)

(* Every set of numbers that is not empty has a least one: the smallest of *)
(* the sets 1 .. n with n in it.                                           *)
LEMMA LeastNat ==
    ASSUME NEW T \in SUBSET Nat, T # {}
    PROVE  \E n \in T : \A m \in T : n <= m
<1> DEFINE U == {1 .. n : n \in T}
           R == StrictSubsetOrdering(Nat)
<1>1. IsWellFoundedOn(R, FiniteSubsetsOf(Nat))
    BY FS_StrictSubsetOrderingWellFounded
<1>2. U \subseteq FiniteSubsetsOf(Nat)
    <2>1. ASSUME NEW n \in T PROVE 1 .. n \in SUBSET Nat /\ IsFiniteSet(1 .. n)
        BY FS_Interval
    <2> QED
        BY <2>1 DEF FiniteSubsetsOf
<1>3. U # {}
    OBVIOUS
<1>4. \E x \in U : \A y \in U : ~(<<y, x>> \in R)
    <2> HIDE DEF U, R
    <2> QED
        BY <1>1, <1>2, <1>3, WFMin
<1>5. PICK n \in T : \A y \in U : ~(<<y, 1 .. n>> \in R)
    BY <1>4
<1>6. ASSUME NEW m \in T, m < n PROVE FALSE
    <2>1. <<1 .. m, 1 .. n>> \in R
        <3>1. 1 .. m \subseteq 1 .. n /\ 1 .. m # 1 .. n
            BY <1>6
        <3>2. 1 .. m \in SUBSET Nat /\ 1 .. n \in SUBSET Nat
            OBVIOUS
        <3> QED
            BY <3>1, <3>2 DEF StrictSubsetOrdering
    <2> QED
        BY <1>5, <2>1
<1> QED
    BY <1>6

LEMMA SetInduction ==
    ASSUME NEW T, 0 \in T, \A n \in Nat : n \in T => n + 1 \in T
    PROVE  Nat \subseteq T
<1> SUFFICES ASSUME Nat \ T # {} PROVE FALSE
    OBVIOUS
<1>1. PICK n \in Nat \ T : \A m \in Nat \ T : n <= m
    <2> DEFINE S == Nat \ T
    <2>1. S \in SUBSET Nat /\ S # {}
        OBVIOUS
    <2> HIDE DEF S
    <2>2. \E n \in S : \A m \in S : n <= m
        BY <2>1, LeastNat
    <2> QED
        BY <2>2 DEF S
<1>2. n # 0 /\ n - 1 \in Nat
    BY <1>1
<1>3. n - 1 \in T
    BY <1>1, <1>2
<1> QED
    BY <1>1, <1>2, <1>3

(* What a loop makes of base in N rounds, each by a step of its own.       *)
Loops(D, base, N, step) ==
    {f \in [0 .. N -> D] :
        f[0] = base /\ \A k \in 1 .. N : f[k] = step[k][f[k - 1]]}

(* A loop whose every step leads from D to D has made some state of D      *)
(* after each of its rounds.                                               *)
LEMMA LoopExists ==
    ASSUME NEW D, NEW base \in D, NEW N \in Nat, NEW step \in [1 .. N -> [D -> D]]
    PROVE  Loops(D, base, N, step) # {}
<1> DEFINE Runs(f, n) == /\ f \in [0 .. n -> D] /\ f[0] = base
                         /\ \A k \in 1 .. n : f[k] = step[k][f[k - 1]]
           T == {n \in Nat : n <= N => \E f : Runs(f, n)}
<1>1. 0 \in T
    <2>1. Runs([k \in 0 .. 0 |-> base], 0)
        OBVIOUS
    <2> QED
        BY <2>1
<1>2. ASSUME NEW n \in T, n + 1 <= N PROVE \E f : Runs(f, n + 1)
    <2>1. PICK f : Runs(f, n)
        BY <1>2
    <2> DEFINE g == [k \in 0 .. n + 1 |-> IF k = n + 1 THEN step[n + 1][f[n]] ELSE f[k]]
    <2>2. n \in Nat /\ n + 1 \in 1 .. N /\ f[n] \in D
        BY <1>2, <2>1
    <2>3. step[n + 1][f[n]] \in D
        BY <2>2
    <2>4. g \in [0 .. n + 1 -> D]
        <3>1. ASSUME NEW k \in 0 .. n + 1, k # n + 1 PROVE f[k] \in D
            BY <2>1, <2>2, <3>1
        <3> QED
            BY <2>3, <3>1
    <2>5. g[0] = base
        BY <2>1, <2>2
    <2>6. ASSUME NEW k \in 1 .. n + 1 PROVE g[k] = step[k][g[k - 1]]
        BY <2>1, <2>2
    <2> QED
        BY <2>4, <2>5, <2>6
<1>3. ASSUME NEW n \in Nat, n \in T PROVE n + 1 \in T
    <2> HIDE DEF Runs
    <2>1. n + 1 \in Nat
        BY <1>3
    <2>2. n + 1 <= N => \E f : Runs(f, n + 1)
        BY <1>2, <1>3
    <2> QED
        BY <2>1, <2>2
<1>4. N \in T
    <2> HIDE DEF T
    <2> QED
        BY <1>1, <1>3, SetInduction
<1> QED
    BY <1>4 DEF Loops

-----------------------------------------------------------------------------
(* LogPaging: what a page is made of.                                      *)
Places == 1 .. Len(log)

Encodings ==
    [out : Seq(Places), size : Nat, truncated : BOOLEAN, matched : BOOLEAN]

LEMMA SizeType ==
    ASSUME log \in Seq(Entries), NEW p \in Places
    PROVE  SizeOf(log[p]) \in Nat /\ log[p].asked \in Nat
<1>1. log[p] \in Entries
    BY DEF Places
<1>2. log[p].asked \in Nat /\ log[p].other \in Nat
    BY <1>1, FieldSizesAssumption DEF Entries
<1> QED
    BY <1>2 DEF SizeOf

(* One round of the loop: the entry is appended, or is and stays cut.      *)
LEMMA EncodeNextEffect ==
    ASSUME log \in Seq(Entries), NEW acc \in Encodings, NEW p \in Places
    PROVE  LET next == encodeNext(acc, p)
               size == acc.size + SizeOf(log[p]) IN
           /\ next \in Encodings
           /\ next.matched <=> acc.matched \/ Matches(log[p])
           /\ \/ /\ acc.truncated \/ (acc.out # <<>> /\ size > Budget)
                 /\ next.truncated /\ next.out = acc.out /\ next.size = acc.size
              \/ /\ ~acc.truncated /\ ~(acc.out # <<>> /\ size > Budget)
                 /\ ~next.truncated /\ next.out = Append(acc.out, p) /\ next.size = size
<1> DEFINE size == acc.size + SizeOf(log[p])
           seen == acc.matched \/ Matches(log[p])
           next == encodeNext(acc, p)
<1>1. size \in Nat
    BY SizeType DEF Encodings
<1>2. seen \in BOOLEAN
    OBVIOUS
<1>3. Append(acc.out, p) \in Seq(Places)
    BY DEF Encodings
<1> HIDE DEF size, seen
<1>4. CASE acc.truncated \/ (acc.out # <<>> /\ size > Budget)
    <2>1. next = [acc EXCEPT !.truncated = TRUE, !.matched = seen]
        BY <1>4 DEF encodeNext, size, seen
    <2> HIDE DEF next
    <2>2. /\ next \in Encodings /\ next.matched = seen
          /\ next.truncated = TRUE /\ next.out = acc.out /\ next.size = acc.size
        BY <1>2, <2>1 DEF Encodings
    <2> QED
        BY <1>4, <2>2 DEF next, seen, size
<1>5. CASE ~(acc.truncated \/ (acc.out # <<>> /\ size > Budget))
    <2>1. next = [out |-> Append(acc.out, p), size |-> size, truncated |-> FALSE,
                  matched |-> seen]
        BY <1>5 DEF encodeNext, size, seen
    <2> HIDE DEF next
    <2>2. /\ next \in Encodings /\ next.matched = seen /\ next.truncated = FALSE
          /\ next.out = Append(acc.out, p) /\ next.size = size
        BY <1>1, <1>2, <1>3, <2>1 DEF Encodings
    <2> QED
        BY <1>5, <2>2 DEF next, seen, size
<1> QED
    BY <1>4, <1>5

(* The loops of LogPaging run.                                             *)
LEMMA EncodingsRun ==
    ASSUME log \in Seq(Entries), NEW places \in Seq(Places)
    PROVE  LET acc == EncodingsOf(places) IN
           /\ acc[0] = Uncut
           /\ \A k \in 1 .. Len(places) : acc[k] = encodeNext(acc[k - 1], places[k])
<1> DEFINE N == Len(places)
           step == [k \in 1 .. N |-> [x \in Encodings |-> encodeNext(x, places[k])]]
           Runs(f) == f = [k \in 0 .. N |->
                            IF k = 0 THEN Uncut ELSE encodeNext(f[k - 1], places[k])]
<1>1. N \in Nat /\ \A k \in 1 .. N : places[k] \in Places
    OBVIOUS
<1>2. Uncut \in Encodings
    BY DEF Uncut, Encodings
<1>3. ASSUME NEW k \in 1 .. N, NEW x \in Encodings
      PROVE  encodeNext(x, places[k]) \in Encodings
    BY <1>1, EncodeNextEffect
<1> HIDE DEF N
<1>4. step \in [1 .. N -> [Encodings -> Encodings]]
    BY <1>3
<1>5. \E f \in [0 .. N -> Encodings] :
        f[0] = Uncut /\ \A k \in 1 .. N : f[k] = step[k][f[k - 1]]
    <2>1. N \in Nat
        BY <1>1
    <2> HIDE DEF step
    <2>2. Loops(Encodings, Uncut, N, step) # {}
        BY <1>2, <1>4, <2>1, LoopExists
    <2> QED
        BY <2>2 DEF Loops
<1>6. PICK f \in [0 .. N -> Encodings] :
        f[0] = Uncut /\ \A k \in 1 .. N : f[k] = step[k][f[k - 1]]
    BY <1>5
<1>7. ASSUME NEW k \in 0 .. N
      PROVE  f[k] = IF k = 0 THEN Uncut ELSE encodeNext(f[k - 1], places[k])
    <2>1. CASE k # 0
        <3>1. k \in 1 .. N /\ f[k - 1] \in Encodings
            BY <1>1, <1>6, <2>1
        <3>2. step[k][f[k - 1]] = encodeNext(f[k - 1], places[k])
            BY <3>1
        <3> HIDE DEF step
        <3> QED
            BY <1>6, <2>1, <3>1, <3>2
    <2> QED
        BY <1>6, <2>1
<1>8. Runs(f)
    <2> HIDE DEF step
    <2> QED
        BY <1>6, <1>7
<1>9. EncodingsOf(places) = CHOOSE g : Runs(g)
    BY DEF EncodingsOf, N
<1>10. Runs(EncodingsOf(places))
    <2> HIDE DEF Runs
    <2> QED
        BY <1>8, <1>9
<1> QED
    BY <1>1, <1>10 DEF N

LEMMA SizesRun ==
    ASSUME log \in Seq(Entries), NEW places \in Seq(Places)
    PROVE  LET sum == SizesOf(places) IN
           /\ sum[0] = 0
           /\ \A k \in 1 .. Len(places) : sum[k] = sum[k - 1] + SizeOf(log[places[k]])
<1> DEFINE N == Len(places)
           step == [k \in 1 .. N |-> [x \in Nat |-> x + SizeOf(log[places[k]])]]
           Runs(f) == f = [k \in 0 .. N |->
                            IF k = 0 THEN 0 ELSE f[k - 1] + SizeOf(log[places[k]])]
<1>1. N \in Nat /\ \A k \in 1 .. N : places[k] \in Places
    OBVIOUS
<1>2. ASSUME NEW k \in 1 .. N, NEW x \in Nat
      PROVE  x + SizeOf(log[places[k]]) \in Nat
    BY <1>1, SizeType
<1> HIDE DEF N
<1>3. step \in [1 .. N -> [Nat -> Nat]]
    BY <1>2
<1>4. \E f \in [0 .. N -> Nat] :
        f[0] = 0 /\ \A k \in 1 .. N : f[k] = step[k][f[k - 1]]
    <2>1. N \in Nat /\ 0 \in Nat
        BY <1>1
    <2> HIDE DEF step
    <2>2. Loops(Nat, 0, N, step) # {}
        BY <1>3, <2>1, LoopExists
    <2> QED
        BY <2>2 DEF Loops
<1>5. PICK f \in [0 .. N -> Nat] :
        f[0] = 0 /\ \A k \in 1 .. N : f[k] = step[k][f[k - 1]]
    BY <1>4
<1>6. ASSUME NEW k \in 0 .. N
      PROVE  f[k] = IF k = 0 THEN 0 ELSE f[k - 1] + SizeOf(log[places[k]])
    <2>1. CASE k # 0
        <3>1. k \in 1 .. N /\ f[k - 1] \in Nat
            BY <1>1, <1>5, <2>1
        <3>2. step[k][f[k - 1]] = f[k - 1] + SizeOf(log[places[k]])
            BY <3>1
        <3> HIDE DEF step
        <3> QED
            BY <1>5, <2>1, <3>1, <3>2
    <2> QED
        BY <1>5, <2>1
<1>7. Runs(f)
    <2> HIDE DEF step
    <2> QED
        BY <1>5, <1>6
<1>8. SizesOf(places) = CHOOSE g : Runs(g)
    BY DEF SizesOf, N
<1>9. Runs(SizesOf(places))
    <2> HIDE DEF Runs
    <2> QED
        BY <1>7, <1>8
<1> QED
    BY <1>1, <1>9 DEF N

MatchesIn(places, k) == \E i \in 1 .. k : Matches(log[places[i]])

(* What the loop has after k entries of a page: the first of them, up to   *)
(* the cut, with their size, and whether a field of any of them matched.   *)
EncodedTo(acc, places, k) ==
    LET kept == Len(acc.out) IN
    /\ acc \in Encodings
    /\ kept <= k /\ (k > 0 => kept > 0)
    /\ \A i \in 1 .. kept : acc.out[i] = places[i]
    /\ ~acc.truncated => kept = k
    /\ acc.truncated => kept < k /\ SizesOf(places)[kept + 1] > Budget
    /\ acc.size = SizesOf(places)[kept]
    /\ acc.size <= Budget \/ kept = 1
    /\ acc.matched <=> MatchesIn(places, k)

LEMMA EncodedNext ==
    ASSUME log \in Seq(Entries), NEW places \in Seq(Places),
           NEW k \in 0 .. Len(places) - 1, NEW acc, EncodedTo(acc, places, k)
    PROVE  EncodedTo(encodeNext(acc, places[k + 1]), places, k + 1)
<1> DEFINE p == places[k + 1]
           next == encodeNext(acc, p)
           kept == Len(acc.out)
           size == acc.size + SizeOf(log[p])
<1>1. p \in Places /\ acc \in Encodings /\ k \in Nat
    BY DEF EncodedTo
<1>2. /\ kept \in Nat /\ kept <= k /\ (k > 0 => kept > 0)
      /\ acc.out \in Seq(Places) /\ acc.size \in Nat /\ size \in Nat
    <2>1. acc.out \in Seq(Places) /\ acc.size \in Nat
        BY <1>1 DEF Encodings
    <2>2. SizeOf(log[p]) \in Nat
        BY <1>1, SizeType
    <2>3. kept <= k /\ (k > 0 => kept > 0)
        BY DEF EncodedTo
    <2> QED
        BY <2>1, <2>2, <2>3
<1>3. /\ next \in Encodings
      /\ next.matched <=> acc.matched \/ Matches(log[p])
    BY <1>1, EncodeNextEffect
<1>4. next.matched <=> MatchesIn(places, k + 1)
    <2>1. acc.matched <=> MatchesIn(places, k)
        BY DEF EncodedTo
    <2>2. \A i : i \in 1 .. k + 1 <=> i \in 1 .. k \/ i = k + 1
        BY <1>1
    <2> HIDE DEF next
    <2> QED
        BY <1>3, <2>1, <2>2 DEF MatchesIn
<1>5. acc.out # <<>> <=> kept > 0
    BY <1>2
<1>6. kept < Len(places) /\ SizesOf(places)[kept] = acc.size
    BY <1>2 DEF EncodedTo
<1>7. SizesOf(places)[kept + 1] = acc.size + SizeOf(log[places[kept + 1]])
    <2>1. kept + 1 \in 1 .. Len(places) /\ kept + 1 - 1 = kept
        BY <1>2, <1>6
    <2>2. \A i \in 1 .. Len(places) :
            SizesOf(places)[i] = SizesOf(places)[i - 1] + SizeOf(log[places[i]])
        BY SizesRun
    <2>3. SizesOf(places)[kept + 1]
            = SizesOf(places)[kept + 1 - 1] + SizeOf(log[places[kept + 1]])
        <3> DEFINE i == kept + 1
        <3>1. i \in 1 .. Len(places)
            BY <2>1
        <3> HIDE DEF i
        <3>2. SizesOf(places)[i] = SizesOf(places)[i - 1] + SizeOf(log[places[i]])
            BY <2>2, <3>1
        <3> QED
            BY <3>2 DEF i
    <2> QED
        BY <1>6, <2>1, <2>3
<1>8. CASE /\ acc.truncated \/ (acc.out # <<>> /\ size > Budget)
           /\ next.truncated /\ next.out = acc.out /\ next.size = acc.size
    <2>1. SizesOf(places)[kept + 1] > Budget /\ kept < k + 1
        <3>1. CASE acc.truncated
            BY <1>2, <3>1 DEF EncodedTo
        <3>2. CASE ~acc.truncated /\ acc.out # <<>> /\ size > Budget
            <4>1. kept = k
                BY <3>2 DEF EncodedTo
            <4> QED
                BY <1>1, <1>7, <3>2, <4>1
        <3> QED
            BY <1>8, <3>1, <3>2
    <2>2. kept > 0
        <3>1. CASE acc.truncated
            BY <1>2, <3>1 DEF EncodedTo
        <3>2. CASE acc.out # <<>>
            BY <1>5, <3>2
        <3> QED
            BY <1>8, <3>1, <3>2
    <2>3. \A i \in 1 .. kept : next.out[i] = places[i]
        BY <1>8 DEF EncodedTo
    <2>4. acc.size <= Budget \/ kept = 1
        BY DEF EncodedTo
    <2> HIDE DEF next, size, p
    <2>5. Len(next.out) = kept /\ next.truncated
        BY <1>8
    <2>6. /\ Len(next.out) <= k + 1 /\ Len(next.out) > 0
          /\ \A i \in 1 .. Len(next.out) : next.out[i] = places[i]
          /\ Len(next.out) < k + 1 /\ SizesOf(places)[Len(next.out) + 1] > Budget
          /\ next.size = SizesOf(places)[Len(next.out)]
          /\ next.size <= Budget \/ Len(next.out) = 1
        BY <1>1, <1>2, <1>6, <1>8, <2>1, <2>2, <2>3, <2>4, <2>5
    <2>7. EncodedTo(next, places, k + 1)
        BY <1>3, <1>4, <2>5, <2>6 DEF EncodedTo
    <2> QED
        BY <2>7 DEF next, p
<1>9. CASE /\ ~acc.truncated /\ ~(acc.out # <<>> /\ size > Budget)
           /\ ~next.truncated /\ next.out = Append(acc.out, p) /\ next.size = size
    <2>1. kept = k
        BY <1>9 DEF EncodedTo
    <2> HIDE DEF next
    <2>2. Len(next.out) = k + 1
        BY <1>2, <1>9, <2>1
    <2>3. ASSUME NEW i \in 1 .. k + 1 PROVE next.out[i] = places[i]
        <3>1. CASE i = k + 1
            BY <1>2, <1>9, <2>1, <3>1
        <3>2. CASE i \in 1 .. k
            <4>1. acc.out[i] = places[i]
                BY <2>1, <3>2 DEF EncodedTo
            <4> QED
                BY <1>2, <1>9, <2>1, <3>2, <4>1
        <3> QED
            BY <1>1, <3>1, <3>2
    <2>4. next.size = SizesOf(places)[k + 1]
        BY <1>7, <1>9, <2>1
    <2>5. next.size <= Budget \/ k + 1 = 1
        BY <1>2, <1>5, <1>9, <2>1, BudgetAssumption
    <2> HIDE DEF size, p
    <2>6. ~next.truncated /\ Len(next.out) = k + 1
        BY <1>9, <2>2
    <2>7. /\ Len(next.out) <= k + 1 /\ Len(next.out) > 0
          /\ \A i \in 1 .. Len(next.out) : next.out[i] = places[i]
          /\ next.size = SizesOf(places)[Len(next.out)]
          /\ next.size <= Budget \/ Len(next.out) = 1
        BY <1>1, <2>2, <2>3, <2>4, <2>5
    <2>8. EncodedTo(next, places, k + 1)
        BY <1>3, <1>4, <2>6, <2>7 DEF EncodedTo
    <2> QED
        BY <2>8 DEF next, p
<1>10. \/ /\ acc.truncated \/ (acc.out # <<>> /\ size > Budget)
          /\ next.truncated /\ next.out = acc.out /\ next.size = acc.size
       \/ /\ ~acc.truncated /\ ~(acc.out # <<>> /\ size > Budget)
          /\ ~next.truncated /\ next.out = Append(acc.out, p) /\ next.size = size
    BY <1>1, EncodeNextEffect
<1> QED
    BY <1>8, <1>9, <1>10

LEMMA Encoded ==
    ASSUME log \in Seq(Entries), NEW places \in Seq(Places)
    PROVE  EncodedTo(encodeLogEntries(places), places, Len(places))
<1> DEFINE N == Len(places)
           T == {k \in Nat : k <= N => EncodedTo(EncodingsOf(places)[k], places, k)}
<1>1. N \in Nat
    OBVIOUS
<1>2. 0 \in T
    <2>1. EncodingsOf(places)[0] = Uncut /\ SizesOf(places)[0] = 0
        BY EncodingsRun, SizesRun
    <2>2. EncodedTo(Uncut, places, 0)
        BY <2>1, BudgetAssumption DEF EncodedTo, Uncut, Encodings, MatchesIn
    <2> QED
        BY <2>1, <2>2
<1>3. ASSUME NEW k \in Nat, k \in T PROVE k + 1 \in T
    <2>1. ASSUME k + 1 <= N PROVE EncodedTo(EncodingsOf(places)[k + 1], places, k + 1)
        <3>1. k \in 0 .. Len(places) - 1 /\ EncodedTo(EncodingsOf(places)[k], places, k)
            BY <1>1, <1>3, <2>1
        <3>2. EncodingsOf(places)[k + 1] = encodeNext(EncodingsOf(places)[k], places[k + 1])
            <4>1. k + 1 \in 1 .. Len(places) /\ k + 1 - 1 = k
                BY <2>1
            <4> QED
                BY <4>1, EncodingsRun
        <3> QED
            BY <3>1, <3>2, EncodedNext
    <2> QED
        BY <2>1
<1>4. N \in T
    <2> HIDE DEF T
    <2> QED
        BY <1>1, <1>2, <1>3, SetInduction
<1> QED
    BY <1>4 DEF encodeLogEntries

(* The entries of a prefix have the size they have in the whole.           *)
LEMMA SizesOfPrefix ==
    ASSUME log \in Seq(Entries), NEW places \in Seq(Places),
           NEW prefix \in Seq(Places), Len(prefix) <= Len(places),
           \A i \in 1 .. Len(prefix) : prefix[i] = places[i]
    PROVE  SizeOfAll(prefix) = SizesOf(places)[Len(prefix)]
<1> DEFINE N == Len(prefix)
           T == {k \in Nat : k <= N => SizesOf(prefix)[k] = SizesOf(places)[k]}
<1>1. N \in Nat
    OBVIOUS
<1>2. 0 \in T
    BY SizesRun
<1>3. ASSUME NEW k \in Nat, k \in T PROVE k + 1 \in T
    <2>1. ASSUME k + 1 <= N PROVE SizesOf(prefix)[k + 1] = SizesOf(places)[k + 1]
        <3>1. /\ k + 1 \in 1 .. Len(prefix) /\ k + 1 \in 1 .. Len(places)
              /\ k + 1 - 1 = k
            BY <2>1
        <3>2. SizesOf(prefix)[k] = SizesOf(places)[k] /\ prefix[k + 1] = places[k + 1]
            BY <1>3, <3>1
        <3>3. SizesOf(prefix)[k + 1] = SizesOf(prefix)[k] + SizeOf(log[prefix[k + 1]])
            BY <3>1, SizesRun
        <3>4. SizesOf(places)[k + 1] = SizesOf(places)[k] + SizeOf(log[places[k + 1]])
            BY <3>1, SizesRun
        <3> QED
            BY <3>2, <3>3, <3>4
    <2> QED
        BY <2>1
<1>4. N \in T
    <2> HIDE DEF T
    <2> QED
        BY <1>1, <1>2, <1>3, SetInduction
<1> QED
    BY <1>4 DEF SizeOfAll

-----------------------------------------------------------------------------
(* LogPaging: what a page shows.                                           *)

LEMMA DevicePageIs ==
    ASSUME LogTypeOK
    PROVE  LET N == Len(DevicePage) IN
           /\ DevicePage \in Seq(Places)
           /\ N \in 0 .. Nlogs /\ skip + N <= Len(log)
           /\ N = Nlogs \/ skip + N = Len(log)
           /\ \A i \in 1 .. N :
                DevicePage[i] = IF direction = "forward" THEN skip + i
                                ELSE Len(log) + 1 - (skip + i)
<1> DEFINE n == IF skip + Nlogs <= Len(log) THEN Nlogs ELSE Len(log) - skip
           place(i) == IF direction = "forward" THEN skip + i
                       ELSE Len(log) + 1 - (skip + i)
<1>1. Nlogs \in Nat /\ Len(log) \in Nat /\ skip \in 0 .. Len(log)
    BY NlogsAssumption DEF LogTypeOK
<1>2. n \in 0 .. Nlogs /\ skip + n <= Len(log) /\ (n = Nlogs \/ skip + n = Len(log))
    BY <1>1
<1>3. DevicePage = [i \in 1 .. n |-> place(i)]
    BY DEF DevicePage
<1> HIDE DEF n
<1>4. ASSUME NEW i \in 1 .. n PROVE place(i) \in Places
    BY <1>1, <1>2 DEF Places
<1> HIDE DEF place
<1>5. n \in Nat
    BY <1>1, <1>2
<1>6. DevicePage \in [1 .. n -> Places]
    BY <1>3, <1>4
<1>7. DevicePage \in Seq(Places) /\ Len(DevicePage) = n
    BY <1>5, <1>6
<1> QED
    BY <1>2, <1>3, <1>7 DEF place

(* The page goes on from what was shown, and the paging goes on from the   *)
(* page, or the page has come to the end of the log.                       *)
LEMMA PageEffect ==
    ASSUME LogTypeOK, LogPage
    PROVE  LET kept == Len(reply'.out)
               N == Len(DevicePage) IN
           /\ reply'.out \in Seq(Places) /\ kept <= N /\ (N > 0 => kept > 0)
           /\ reply'.truncated \in BOOLEAN /\ reply'.unmatched \in BOOLEAN
           /\ \A i \in 1 .. kept : reply'.out[i] = DevicePage[i]
           /\ shown' \in Seq(Places) /\ Len(shown') = Len(shown) + kept
           /\ \A i \in 1 .. Len(shown) : shown'[i] = shown[i]
           /\ \A i \in 1 .. kept : shown'[Len(shown) + i] = DevicePage[i]
           /\ \/ /\ finished' = FALSE /\ skip' = skip + kept
              \/ /\ finished' = TRUE /\ skip' = skip /\ skip + kept = Len(log)
<1> DEFINE N == Len(DevicePage)
           encoded == encodeLogEntries(DevicePage)
           kept == Len(encoded.out)
<1>1. log \in Seq(Entries) /\ DevicePage \in Seq(Places)
    BY DevicePageIs DEF LogTypeOK
<1>2. EncodedTo(encoded, DevicePage, N)
    BY <1>1, Encoded
<1>3. encoded \in Encodings
    BY <1>2 DEF EncodedTo
<1> HIDE DEF encoded
<1>4. /\ encoded.out \in Seq(Places) /\ encoded.truncated \in BOOLEAN
      /\ encoded.matched \in BOOLEAN
    BY <1>3 DEF Encodings
<1>5. N \in Nat /\ kept \in Nat
    BY <1>1, <1>4
<1>6. /\ kept <= N /\ (N > 0 => kept > 0) /\ (~encoded.truncated => kept = N)
      /\ \A i \in 1 .. kept : encoded.out[i] = DevicePage[i]
    BY <1>2 DEF EncodedTo
<1>7. /\ reply'.out = encoded.out /\ reply'.truncated = encoded.truncated
      /\ reply'.unmatched = (wanted /\ DevicePage # <<>> /\ ~encoded.matched)
      /\ shown' = shown \o encoded.out
      /\ IF encoded.truncated \/ N >= Nlogs
         THEN skip' = skip + kept /\ finished' = finished
         ELSE finished' = TRUE /\ skip' = skip
      /\ finished = FALSE
    BY DEF LogPage, nextSkip, encoded, LogTypeOK
<1>8. reply'.unmatched \in BOOLEAN
    BY <1>7
<1>9. shown \in Seq(Places)
    BY DEF LogTypeOK, Places
<1>10. /\ shown' \in Seq(Places) /\ Len(shown') = Len(shown) + kept
       /\ \A i \in 1 .. Len(shown) : shown'[i] = shown[i]
       /\ \A i \in 1 .. kept : shown'[Len(shown) + i] = encoded.out[i]
    BY <1>4, <1>7, <1>9
<1>11. \/ /\ finished' = FALSE /\ skip' = skip + kept
       \/ /\ finished' = TRUE /\ skip' = skip /\ skip + kept = Len(log)
    <2>1. CASE encoded.truncated \/ N >= Nlogs
        BY <1>7, <2>1
    <2>2. CASE ~(encoded.truncated \/ N >= Nlogs)
        <3>1. kept = N /\ N # Nlogs
            BY <1>5, <1>6, <2>2, NlogsAssumption
        <3>2. skip + N = Len(log)
            BY <3>1, DevicePageIs
        <3> QED
            BY <1>7, <2>2, <3>1, <3>2
    <2> QED
        BY <2>1, <2>2
<1>12. \A i \in 1 .. kept : shown'[Len(shown) + i] = DevicePage[i]
    BY <1>6, <1>10
<1> QED
    BY <1>4, <1>6, <1>7, <1>8, <1>10, <1>11, <1>12

(* How far the paging has come, as a place of the log counted from its     *)
(* oldest entry, when it starts from the newest.                           *)
Reached == IF finished THEN 1 ELSE Len(log) + 1 - skip

OldestFirst ==
    /\ Len(shown) = IF finished THEN Len(log) ELSE skip
    /\ \A i \in 1 .. Len(shown) : shown[i] = i

NewestFirst ==
    /\ Len(shown) = 0 => IF finished THEN Len(log) = 0 ELSE skip = 0
    /\ Len(shown) > 0 => /\ shown[Len(shown)] <= Reached
                         /\ shown[1] >= start
    /\ \A p \in Places : Len(shown) > 0 /\ p >= shown[Len(shown)] /\ p <= shown[1] =>
            \E i \in 1 .. Len(shown) : shown[i] = p

NewestFirstUntouched ==
    /\ Len(shown) = IF finished THEN Len(log) ELSE skip
    /\ \A i \in 1 .. Len(shown) : shown[i] = Len(log) + 1 - i

(* What was shown, in either direction: oldest first it is the log up to   *)
(* where the paging has come; newest first it has no hole, and is the log  *)
(* backwards while nothing arrives.                                        *)
LogPagingInv ==
    /\ LogTypeOK
    /\ direction = "forward" => OldestFirst
    /\ direction # "forward" => NewestFirst
    /\ direction # "forward" /\ Len(log) = start => NewestFirstUntouched

LEMMA LogPagingInit == LogInit => LogPagingInv
<1> SUFFICES ASSUME LogInit PROVE LogPagingInv
    OBVIOUS
<1>1. log \in Seq(Entries) /\ Len(log) <= MaxLog
    <2>1. PICK n \in 0 .. MaxLog : log \in [1 .. n -> Entries]
        BY DEF LogInit
    <2>2. n \in Nat /\ n <= MaxLog
        BY <2>1, MaxLogAssumption
    <2> QED
        BY <2>1, <2>2
<1>2. Len(log) \in Nat
    BY <1>1
<1>3. /\ skip = 0 /\ start = Len(log) /\ shown = <<>> /\ finished = FALSE
      /\ reply = NoReply
    BY DEF LogInit
<1>4. /\ reply.out = <<>> /\ reply.truncated \in BOOLEAN
      /\ reply.unmatched \in BOOLEAN
    BY <1>3 DEF NoReply
<1>5. LogTypeOK
    <2>1. direction \in {"forward", "backward"} /\ wanted \in BOOLEAN
        BY DEF LogInit
    <2>2. Len(reply.out) <= Nlogs /\ reply.out \in Seq(1 .. Len(log))
        BY <1>4, NlogsAssumption
    <2>3. shown \in Seq(1 .. Len(log)) /\ finished \in BOOLEAN
        <3>1. shown \in Seq(1 .. Len(log))
            BY <1>3
        <3>2. finished \in BOOLEAN
            BY <1>3
        <3> QED
            BY <3>1, <3>2
    <2>4. start \in 0 .. Len(log) /\ skip \in 0 .. Len(log)
        BY <1>2, <1>3
    <2> QED
        BY <1>1, <1>4, <2>1, <2>2, <2>3, <2>4 DEF LogTypeOK
<1>6. Len(shown) = 0
    BY <1>3
<1>7. OldestFirst /\ NewestFirst /\ NewestFirstUntouched
    BY <1>2, <1>3, <1>6 DEF OldestFirst, NewestFirst, NewestFirstUntouched
<1> QED
    BY <1>5, <1>7 DEF LogPagingInv

LEMMA LogPagingPage == LogPagingInv /\ LogPage => LogPagingInv'
<1> SUFFICES ASSUME LogPagingInv, LogPage PROVE LogPagingInv'
    OBVIOUS
<1> DEFINE L == Len(log)
           N == Len(DevicePage)
           S == Len(shown)
           kept == Len(reply'.out)
<1>1. LogTypeOK /\ finished = FALSE
    BY DEF LogPagingInv, LogPage, LogTypeOK
<1>2. log' = log /\ direction' = direction /\ wanted' = wanted /\ start' = start
    BY DEF LogPage
<1>3. /\ log \in Seq(Entries) /\ L \in Nat /\ L <= MaxLog
      /\ direction \in {"forward", "backward"} /\ wanted \in BOOLEAN
      /\ start \in 0 .. L /\ skip \in 0 .. L
      /\ shown \in Seq(1 .. L) /\ S \in Nat
    BY <1>1 DEF LogTypeOK
<1>4. /\ N \in 0 .. Nlogs /\ skip + N <= L
      /\ \A i \in 1 .. N : DevicePage[i] = IF direction = "forward" THEN skip + i
                                           ELSE L + 1 - (skip + i)
    BY <1>1, DevicePageIs
<1>5. /\ reply'.out \in Seq(Places) /\ kept <= N /\ (N > 0 => kept > 0)
      /\ reply'.truncated \in BOOLEAN /\ reply'.unmatched \in BOOLEAN
      /\ shown' \in Seq(Places) /\ Len(shown') = S + kept
      /\ \A i \in 1 .. S : shown'[i] = shown[i]
      /\ \A i \in 1 .. kept : shown'[S + i] = DevicePage[i]
    BY <1>1, PageEffect
<1>6. \/ /\ finished' = FALSE /\ skip' = skip + kept
      \/ /\ finished' = TRUE /\ skip' = skip /\ skip + kept = L
    BY <1>1, PageEffect
<1>7. kept \in Nat /\ N \in Nat /\ kept <= Nlogs /\ skip + kept <= L
    BY <1>3, <1>4, <1>5, NlogsAssumption
<1>8. LogTypeOK'
    <2>1. skip' \in 0 .. L
        BY <1>3, <1>6, <1>7
    <2>2. finished' \in BOOLEAN
        BY <1>6
    <2>3. reply'.out \in Seq(1 .. L) /\ shown' \in Seq(1 .. L)
        BY <1>5 DEF Places
    <2> QED
        BY <1>2, <1>3, <1>5, <1>7, <2>1, <2>2, <2>3 DEF LogTypeOK
<1> HIDE DEF N, S, kept
<1>9. \A i \in 1 .. kept :
        shown'[S + i] = IF direction = "forward" THEN skip + i ELSE L + 1 - (skip + i)
    BY <1>4, <1>5, <1>7
<1>10. ASSUME NEW i \in 1 .. Len(shown'), i \notin 1 .. S
       PROVE  i - S \in 1 .. kept /\ i = S + (i - S)
    BY <1>3, <1>5, <1>7, <1>10
<1>11. ASSUME direction = "forward" PROVE OldestFirst'
    <2>1. S = skip /\ \A i \in 1 .. S : shown[i] = i
        BY <1>1, <1>11 DEF LogPagingInv, OldestFirst, S
    <2>2. ASSUME NEW i \in 1 .. Len(shown') PROVE shown'[i] = i
        <3>1. CASE i \in 1 .. S
            BY <1>5, <2>1, <3>1
        <3>2. CASE i \notin 1 .. S
            <4>1. shown'[S + (i - S)] = skip + (i - S)
                BY <1>9, <1>10, <1>11, <3>2
            <4> QED
                BY <1>3, <1>10, <2>1, <3>2, <4>1
        <3> QED
            BY <3>1, <3>2
    <2>3. Len(shown') = IF finished' THEN L ELSE skip'
        BY <1>5, <1>6, <2>1
    <2> QED
        BY <1>2, <2>2, <2>3 DEF OldestFirst
<1>12. ASSUME direction # "forward", L = start PROVE NewestFirstUntouched'
    <2>1. S = skip /\ \A i \in 1 .. S : shown[i] = L + 1 - i
        BY <1>1, <1>12 DEF LogPagingInv, NewestFirstUntouched, S
    <2>2. ASSUME NEW i \in 1 .. Len(shown') PROVE shown'[i] = L + 1 - i
        <3>1. CASE i \in 1 .. S
            BY <1>5, <2>1, <3>1
        <3>2. CASE i \notin 1 .. S
            <4>1. shown'[S + (i - S)] = L + 1 - (skip + (i - S))
                BY <1>9, <1>10, <1>12, <3>2
            <4> QED
                BY <1>3, <1>10, <2>1, <3>2, <4>1
        <3> QED
            BY <3>1, <3>2
    <2>3. Len(shown') = IF finished' THEN L ELSE skip'
        BY <1>5, <1>6, <2>1
    <2> QED
        BY <1>2, <2>2, <2>3 DEF NewestFirstUntouched
<1>13. ASSUME direction # "forward" PROVE NewestFirst'
    <2>1. /\ S = 0 => skip = 0
          /\ S > 0 => shown[S] <= L + 1 - skip /\ shown[1] >= start
          /\ \A p \in Places : S > 0 /\ p >= shown[S] /\ p <= shown[1] =>
                \E i \in 1 .. S : shown[i] = p
        BY <1>1, <1>13 DEF LogPagingInv, NewestFirst, Reached, S
    <2>2. \A i \in 1 .. kept : shown'[S + i] = L + 1 - (skip + i)
        BY <1>9, <1>13
    <2>3. Reached' = IF finished' THEN 1 ELSE L + 1 - skip'
        BY <1>2 DEF Reached
    <2>4. \A i \in 1 .. S : shown[i] \in 1 .. L
        BY <1>3 DEF S
    <2>5. CASE kept = 0
        <3>1. Len(shown') = S /\ \A i \in 1 .. S : shown'[i] = shown[i]
            BY <1>3, <1>5, <2>5
        <3>2. skip' = skip /\ (finished' => L = skip)
            BY <1>3, <1>6, <2>5
        <3>3. S > 0 => S \in 1 .. S /\ 1 \in 1 .. S
            BY <1>3
        <3>4. Len(shown') = 0 => IF finished' THEN L = 0 ELSE skip' = 0
            BY <2>1, <3>1, <3>2
        <3>5. Len(shown') > 0 => shown'[Len(shown')] <= Reached' /\ shown'[1] >= start
            BY <1>3, <2>1, <2>3, <3>1, <3>2, <3>3
        <3>6. ASSUME NEW p \in Places, Len(shown') > 0,
                     p >= shown'[Len(shown')], p <= shown'[1]
              PROVE  \E i \in 1 .. Len(shown') : shown'[i] = p
            BY <2>1, <3>1, <3>3, <3>6
        <3> QED
            BY <1>2, <3>4, <3>5, <3>6 DEF NewestFirst, Places
    <2>6. CASE kept > 0
        <3>1. kept \in 1 .. kept /\ 1 \in 1 .. kept
            BY <1>7, <2>6
        <3>2. Len(shown') > 0 /\ shown'[Len(shown')] = L + 1 - (skip + kept)
            BY <1>3, <1>5, <1>7, <2>2, <2>6, <3>1
        <3>3. IF S = 0 THEN shown'[1] = L ELSE shown'[1] = shown[1]
            <4>1. CASE S = 0
                <5>1. shown'[S + 1] = L + 1 - (skip + 1) /\ skip = 0 /\ S + 1 = 1
                    BY <2>1, <2>2, <3>1, <4>1
                <5> QED
                    BY <1>3, <4>1, <5>1
            <4>2. CASE S # 0
                BY <1>3, <1>5, <4>2
            <4> QED
                BY <4>1, <4>2
        <3>4. shown'[1] >= start
            BY <1>3, <2>1, <3>3
        <3>5. L + 1 - (skip + kept) <= Reached'
            BY <1>3, <1>6, <1>7, <2>3
        <3>6. ASSUME NEW p \in Places, p >= L + 1 - (skip + kept), p <= shown'[1]
              PROVE  \E i \in 1 .. Len(shown') : shown'[i] = p
            <4>0. p \in 1 .. L
                BY DEF Places
            <4>1. CASE p <= L - skip
                <5>1. (L + 1 - p) - skip \in 1 .. kept
                    BY <1>3, <1>7, <3>6, <4>0, <4>1
                <5>2. shown'[S + ((L + 1 - p) - skip)] = p
                    BY <1>3, <2>2, <4>0, <5>1
                <5>3. S + ((L + 1 - p) - skip) \in 1 .. Len(shown')
                    BY <1>3, <1>5, <1>7, <5>1
                <5> QED
                    BY <5>2, <5>3
            <4>2. CASE p > L - skip
                <5>1. S > 0
                    BY <1>3, <2>1, <4>0, <4>2
                <5>2. p >= shown[S] /\ p <= shown[1]
                    <6>1. S \in 1 .. S
                        BY <1>3, <5>1
                    <6> QED
                        BY <1>3, <2>1, <2>4, <3>3, <3>6, <4>0, <4>2, <5>1, <6>1
                <5>3. PICK i \in 1 .. S : shown[i] = p
                    BY <2>1, <5>1, <5>2
                <5>4. i \in 1 .. Len(shown') /\ shown'[i] = p
                    BY <1>3, <1>5, <1>7, <5>3
                <5> QED
                    BY <5>4
            <4> QED
                BY <1>3, <4>0, <4>1, <4>2
        <3>7. \A p \in Places : Len(shown') > 0 /\ p >= shown'[Len(shown')] /\ p <= shown'[1]
                => \E i \in 1 .. Len(shown') : shown'[i] = p
            BY <3>2, <3>6
        <3>8. Places' = Places
            BY <1>2 DEF Places
        <3>9. shown'[Len(shown')] <= Reached'
            BY <3>2, <3>5
        <3> QED
            BY <1>2, <3>2, <3>4, <3>7, <3>8, <3>9 DEF NewestFirst
    <2> QED
        BY <1>7, <2>5, <2>6
<1> QED
    BY <1>2, <1>8, <1>11, <1>12, <1>13 DEF LogPagingInv

LEMMA LogPagingArrive == LogPagingInv /\ Arrive => LogPagingInv'
<1> SUFFICES ASSUME LogPagingInv, Arrive PROVE LogPagingInv'
    OBVIOUS
<1> DEFINE L == Len(log)
<1>1. LogTypeOK /\ finished = FALSE /\ L < MaxLog
    BY DEF LogPagingInv, Arrive, LogTypeOK
<1>2. /\ direction' = direction /\ wanted' = wanted /\ start' = start
      /\ skip' = skip /\ reply' = reply /\ shown' = shown /\ finished' = finished
    BY DEF Arrive
<1>3. log \in Seq(Entries) /\ L \in Nat /\ start \in 0 .. L /\ skip \in 0 .. L
    BY <1>1 DEF LogTypeOK
<1>4. log' \in Seq(Entries) /\ Len(log') = L + 1
    BY <1>3 DEF Arrive
<1>5. LogTypeOK'
    <2>1. Len(log') <= MaxLog
        BY <1>1, <1>3, <1>4, MaxLogAssumption
    <2>2. start \in 0 .. L + 1 /\ skip \in 0 .. L + 1
        BY <1>3
    <2>3. reply.out \in Seq(1 .. L + 1) /\ shown \in Seq(1 .. L + 1)
        BY <1>1, <1>3 DEF LogTypeOK
    <2>4. /\ direction \in {"forward", "backward"} /\ wanted \in BOOLEAN
          /\ finished \in BOOLEAN
          /\ reply.truncated \in BOOLEAN /\ reply.unmatched \in BOOLEAN
          /\ Len(reply.out) <= Nlogs
        BY <1>1 DEF LogTypeOK
    <2> QED
        BY <1>2, <1>4, <2>1, <2>2, <2>3, <2>4 DEF LogTypeOK
<1>6. direction = "forward" => OldestFirst'
    BY <1>1, <1>2 DEF LogPagingInv, OldestFirst
<1>7. ASSUME direction # "forward" PROVE NewestFirst'
    <2>1. /\ Len(shown) = 0 => skip = 0
          /\ Len(shown) > 0 => shown[Len(shown)] <= L + 1 - skip /\ shown[1] >= start
          /\ \A p \in Places : Len(shown) > 0 /\ p >= shown[Len(shown)] /\ p <= shown[1] =>
                \E i \in 1 .. Len(shown) : shown[i] = p
        BY <1>1, <1>7 DEF LogPagingInv, NewestFirst, Reached
    <2>2. Reached' = L + 1 + 1 - skip
        BY <1>1, <1>2, <1>4 DEF Reached
    <2>3. shown \in Seq(1 .. L)
        BY <1>1 DEF LogTypeOK
    <2>4. Len(shown) > 0 => shown[1] \in 1 .. L /\ shown[Len(shown)] \in 1 .. L
        BY <2>3
    <2>5. ASSUME NEW p \in Places', Len(shown) > 0, p >= shown[Len(shown)], p <= shown[1]
          PROVE  \E i \in 1 .. Len(shown) : shown[i] = p
        <3>1. p \in 1 .. L + 1
            BY <1>4 DEF Places
        <3>2. p \in Places
            BY <1>3, <2>4, <2>5, <3>1 DEF Places
        <3> QED
            BY <2>1, <2>5, <3>2
    <2>6. Len(shown) > 0 => shown[Len(shown)] <= Reached'
        BY <1>3, <2>1, <2>2, <2>4
    <2> QED
        BY <1>1, <1>2, <2>1, <2>5, <2>6 DEF NewestFirst
<1>8. Len(log') # start'
    BY <1>2, <1>3, <1>4
<1> QED
    BY <1>2, <1>5, <1>6, <1>7, <1>8 DEF LogPagingInv

LEMMA LogPagingNext == LogPagingInv /\ [LogNext]_logVars => LogPagingInv'
<1>1. LogPagingInv /\ UNCHANGED logVars => LogPagingInv'
    BY DEF logVars, LogPagingInv, LogTypeOK, OldestFirst, NewestFirst,
           NewestFirstUntouched, Reached, Places
<1> QED
    BY <1>1, LogPagingPage, LogPagingArrive DEF LogNext

LEMMA LogPagingInvHolds == LogSpec => []LogPagingInv
    BY LogPagingInit, LogPagingNext, PTL DEF LogSpec

(* The paging's variables stay in range: next_skip is never past the log,  *)
(* a page has no more entries than were asked for, and it shows entries of *)
(* the log only (logPage).                                                 *)
THEOREM LogTypesHold == LogSpec => []LogTypeOK
<1>1. LogPagingInv => LogTypeOK
    BY DEF LogPagingInv
<1> QED
    BY <1>1, LogPagingInvHolds, PTL

LEMMA NoHole == LogPagingInv => NothingSkipped
<1> SUFFICES ASSUME LogPagingInv PROVE NothingSkipped
    OBVIOUS
<1> DEFINE L == Len(log)
           S == Len(shown)
<1>1. /\ L \in Nat /\ start \in 0 .. L /\ shown \in Seq(1 .. L) /\ S \in Nat
      /\ direction \in {"forward", "backward"}
      /\ \A i \in 1 .. S : shown[i] \in 1 .. L
    BY DEF LogPagingInv, LogTypeOK
<1>2. Last(shown) = shown[S]
    BY DEF Last
<1>3. \A i \in 1 .. S : shown[i] \in ToSet(shown)
    BY <1>1 DEF ToSet
<1>4. shown # <<>> <=> S > 0
    BY <1>1
<1>5. S > 0 => 1 \in 1 .. S /\ S \in 1 .. S
    BY <1>1
<1>6. CASE direction = "forward"
    <2>1. /\ \A i \in 1 .. S : shown[i] = i
          /\ finished => S = L
        BY <1>6 DEF LogPagingInv, OldestFirst
    <2> HIDE DEF S
    <2>2. \A i \in 1 .. S : i \in ToSet(shown)
        BY <1>3, <2>1
    <2>3. S > 0 => shown[S] = S
        BY <1>5, <2>1
    <2>4. finished => 1 .. start \subseteq 1 .. S
        BY <1>1, <2>1
    <2> QED
        BY <1>2, <1>4, <1>6, <2>2, <2>3, <2>4 DEF NothingSkipped
<1>7. CASE direction # "forward"
    <2>1. /\ S = 0 /\ finished => L = 0
          /\ S > 0 => shown[1] >= start /\ (finished => shown[S] <= 1)
          /\ \A p \in Places : S > 0 /\ p >= shown[S] /\ p <= shown[1] =>
                \E i \in 1 .. S : shown[i] = p
        BY <1>7 DEF LogPagingInv, NewestFirst, Reached
    <2> HIDE DEF S
    <2>2. ASSUME S > 0, NEW p \in shown[S] .. shown[1] PROVE p \in ToSet(shown)
        <3>1. shown[S] \in 1 .. L /\ shown[1] \in 1 .. L
            BY <1>1, <1>5, <2>2
        <3>2. p \in Places /\ p >= shown[S] /\ p <= shown[1]
            BY <1>1, <2>2, <3>1 DEF Places
        <3> QED
            BY <1>3, <2>1, <2>2, <3>2
    <2>3. ASSUME finished, NEW p \in 1 .. start PROVE p \in ToSet(shown)
        <3>1. S > 0
            BY <1>1, <2>1, <2>3
        <3>2. shown[S] \in 1 .. L /\ shown[1] \in 1 .. L
            BY <1>1, <1>5, <3>1
        <3>3. p \in shown[S] .. shown[1]
            BY <1>1, <2>1, <2>3, <3>1, <3>2
        <3> QED
            BY <2>2, <3>1, <3>3
    <2> QED
        BY <1>2, <1>4, <1>7, <2>2, <2>3 DEF NothingSkipped
<1> QED
    BY <1>6, <1>7

(* A client that follows next_skip to the end has been shown every entry   *)
(* the log had when it began, and has seen no hole on the way, for every   *)
(* page size and budget and whatever arrives (nextSkip, encodeLogEntries). *)
THEOREM NothingSkippedHolds == LogSpec => []NothingSkipped
    BY NoHole, LogPagingInvHolds, PTL

LEMMA NoneTwice == LogPagingInv => NothingTwice
<1> SUFFICES ASSUME LogPagingInv, direction = "forward" \/ Len(log) = start
             PROVE  Cardinality(ToSet(shown)) = Len(shown)
    BY DEF NothingTwice
<1> DEFINE L == Len(log)
           S == Len(shown)
<1>1. L \in Nat /\ S \in Nat /\ shown \in Seq(1 .. L)
    BY DEF LogPagingInv, LogTypeOK
<1>2. \/ \A i \in 1 .. S : shown[i] = i
      \/ \A i \in 1 .. S : shown[i] = L + 1 - i
    BY DEF LogPagingInv, OldestFirst, NewestFirstUntouched
<1>3. \A i, j \in 1 .. S : i # j => shown[i] # shown[j]
    BY <1>1, <1>2
<1>4. shown \in [1 .. S -> ToSet(shown)] /\ DOMAIN shown = 1 .. S
    BY <1>1 DEF ToSet
<1>5. \A t \in ToSet(shown) : \E i \in 1 .. S : shown[i] = t
    BY <1>4 DEF ToSet
<1> HIDE DEF S
<1>6. shown \in Bijection(1 .. S, ToSet(shown))
    BY <1>3, <1>4, <1>5, Fun_IsBij
<1>7. ExistsBijection(1 .. S, ToSet(shown))
    BY <1>6 DEF ExistsBijection
<1> QED
    BY <1>1, <1>7, FS_CountingElements DEF S

(* Paging from the oldest entry shows none twice, and so does any paging   *)
(* of a log that nothing is added to (nextSkip, DevicePage).               *)
THEOREM NothingTwiceHolds == LogSpec => []NothingTwice
    BY NoneTwice, LogPagingInvHolds, PTL

LEMMA CutWell ==
    ASSUME LogTypeOK, LogPage
    PROVE  LET kept == Len(reply'.out) IN
           /\ SizeOfAll(reply'.out) <= Budget \/ kept = 1
           /\ reply'.truncated => SizeOfAll(SubSeq(DevicePage, 1, kept + 1)) > Budget
           /\ ~reply'.truncated => kept = Len(DevicePage)
<1> DEFINE N == Len(DevicePage)
           encoded == encodeLogEntries(DevicePage)
           kept == Len(encoded.out)
           longer == SubSeq(DevicePage, 1, kept + 1)
<1>1. log \in Seq(Entries) /\ DevicePage \in Seq(Places)
    BY DevicePageIs DEF LogTypeOK
<1>2. EncodedTo(encoded, DevicePage, N)
    BY <1>1, Encoded
<1>3. reply'.out = encoded.out /\ reply'.truncated = encoded.truncated
    BY DEF LogPage
<1> HIDE DEF encoded
<1>4. /\ encoded \in Encodings /\ kept <= N
      /\ \A i \in 1 .. kept : encoded.out[i] = DevicePage[i]
      /\ encoded.size = SizesOf(DevicePage)[kept]
      /\ encoded.size <= Budget \/ kept = 1
      /\ ~encoded.truncated => kept = N
      /\ encoded.truncated => kept < N /\ SizesOf(DevicePage)[kept + 1] > Budget
    BY <1>2 DEF EncodedTo
<1>5. encoded.out \in Seq(Places) /\ kept \in Nat /\ N \in Nat
    <2>1. encoded.out \in Seq(Places)
        BY <1>4 DEF Encodings
    <2> QED
        BY <1>1, <2>1
<1>6. SizeOfAll(encoded.out) = encoded.size
    <2>1. SizeOfAll(encoded.out) = SizesOf(DevicePage)[kept]
        BY <1>1, <1>4, <1>5, SizesOfPrefix
    <2> QED
        BY <1>4, <2>1
<1>7. ASSUME encoded.truncated PROVE SizeOfAll(longer) > Budget
    <2>1. kept + 1 <= N /\ kept + 1 \in Nat
        BY <1>4, <1>5, <1>7
    <2>2. /\ longer \in Seq(Places) /\ Len(longer) = kept + 1
          /\ \A i \in 1 .. kept + 1 : longer[i] = DevicePage[i]
        <3> HIDE DEF kept
        <3> QED
            BY <1>1, <2>1
    <2> HIDE DEF longer
    <2>3. SizeOfAll(longer) = SizesOf(DevicePage)[kept + 1]
        BY <1>1, <2>1, <2>2, SizesOfPrefix
    <2> QED
        BY <1>4, <1>7, <2>3
<1> QED
    BY <1>3, <1>4, <1>6, <1>7

(* A page is cut only when it must be: every page is within the budget or  *)
(* a single entry, and one entry more would not have fitted, whatever the  *)
(* sizes of the entries (encodeLogEntries).                                *)
THEOREM CutsAreNeeded == LogSpec => CutWhereItMust
<1>1. LogPagingInv /\ [LogNext]_logVars =>
        [LogPage =>
            LET kept == Len(reply'.out) IN
            /\ SizeOfAll(reply'.out) <= Budget \/ kept = 1
            /\ reply'.truncated => SizeOfAll(SubSeq(DevicePage, 1, kept + 1)) > Budget
            /\ ~reply'.truncated => kept = Len(DevicePage)]_logVars
    BY CutWell DEF LogPagingInv
<1> QED
    BY <1>1, LogPagingInvHolds, PTL DEF LogSpec, CutWhereItMust

LEMMA PageMoves ==
    ASSUME LogTypeOK, LogPage
    PROVE  finished' \/ skip' > skip
<1> DEFINE N == Len(DevicePage)
           encoded == encodeLogEntries(DevicePage)
           kept == Len(encoded.out)
<1> SUFFICES ASSUME ~finished' PROVE skip' > skip
    OBVIOUS
<1>1. /\ log \in Seq(Entries) /\ DevicePage \in Seq(Places)
      /\ N \in Nat /\ skip \in Nat /\ Nlogs \in Nat /\ Nlogs > 0
    BY DevicePageIs, NlogsAssumption DEF LogTypeOK
<1>2. EncodedTo(encoded, DevicePage, N)
    BY <1>1, Encoded
<1> HIDE DEF encoded
<1>3. (encoded.truncated \/ N >= Nlogs) /\ skip' = skip + kept
    BY DEF LogPage, nextSkip, encoded
<1>4. kept \in Nat /\ (N > 0 => kept > 0) /\ (N = 0 => ~encoded.truncated)
    BY <1>1, <1>2 DEF EncodedTo, Encodings
<1> QED
    BY <1>1, <1>3, <1>4

(* However far the log has grown and whatever was cut, a page either says  *)
(* that there is nothing more or moves next_skip on, within the log, and   *)
(* nothing else moves it: what is left of a log that stops growing gets    *)
(* shorter with every page (logPage, encodeLogEntries).                    *)
LogPagesMoveOn ==
    [][/\ LogPage => finished' \/ skip' > skip
       /\ skip <= skip' /\ skip' <= Len(log')]_logVars

(* LogPagesMoveOn: no page leaves its client where it was, for any limit,  *)
(* budget and sizes (the first entry of a page is kept whatever its size). *)
THEOREM LogPagesGoOn == LogSpec => LogPagesMoveOn
<1>1. ASSUME LogPagingInv, LogPagingInv', [LogNext]_logVars
      PROVE  [/\ LogPage => finished' \/ skip' > skip
              /\ skip <= skip' /\ skip' <= Len(log')]_logVars
    <2>1. LogTypeOK /\ LogTypeOK'
        BY <1>1 DEF LogPagingInv
    <2>2. skip \in Nat /\ skip' \in 0 .. Len(log')
        BY <2>1 DEF LogTypeOK
    <2>3. CASE LogPage
        <3>1. skip' = skip \/ skip' = skip + Len(reply'.out)
            BY <2>1, <2>3, PageEffect
        <3>2. Len(reply'.out) \in Nat
            BY <2>1 DEF LogTypeOK
        <3>3. finished' \/ skip' > skip
            BY <2>1, <2>3, PageMoves
        <3> QED
            BY <2>2, <3>1, <3>2, <3>3
    <2>4. CASE Arrive
        <3>1. skip' = skip /\ finished' = finished /\ Len(log') = Len(log) + 1
            BY <2>1, <2>4 DEF Arrive, LogTypeOK
        <3>2. ~LogPage
            BY <3>1, <2>1 DEF LogPage, LogTypeOK
        <3> QED
            BY <2>2, <3>1, <3>2
    <2> QED
        BY <1>1, <2>3, <2>4 DEF LogNext
<1> QED
    BY <1>1, LogPagingInvHolds, PTL DEF LogSpec, LogPagesMoveOn

LEMMA UnmatchedWell ==
    ASSUME LogTypeOK, LogPage
    PROVE  reply'.unmatched =
            (wanted /\ DevicePage # <<>>
                    /\ \A i \in DOMAIN DevicePage : log[DevicePage[i]].asked = 0)
<1> DEFINE N == Len(DevicePage)
           encoded == encodeLogEntries(DevicePage)
           none == \A i \in DOMAIN DevicePage : log[DevicePage[i]].asked = 0
<1>1. log \in Seq(Entries) /\ DevicePage \in Seq(Places) /\ wanted \in BOOLEAN
    <2>1. wanted \in BOOLEAN
        BY DEF LogTypeOK
    <2>2. log \in Seq(Entries) /\ DevicePage \in Seq(Places)
        BY DevicePageIs DEF LogTypeOK
    <2> QED
        BY <2>1, <2>2
<1>2. EncodedTo(encoded, DevicePage, N)
    BY <1>1, Encoded
<1>3. reply'.unmatched = (wanted /\ DevicePage # <<>> /\ ~encoded.matched)
    BY DEF LogPage
<1> HIDE DEF encoded
<1>4. encoded.matched <=> MatchesIn(DevicePage, N)
    BY <1>2 DEF EncodedTo
<1>5. ASSUME wanted PROVE MatchesIn(DevicePage, N) <=> ~none
    <2>1. ASSUME NEW i \in 1 .. N
          PROVE  Matches(log[DevicePage[i]]) <=> log[DevicePage[i]].asked # 0
        <3>1. DevicePage[i] \in Places
            BY <1>1
        <3>2. log[DevicePage[i]].asked \in Nat
            BY <1>1, <3>1, SizeType
        <3> QED
            BY <1>5, <3>2 DEF Matches
    <2>2. DOMAIN DevicePage = 1 .. N
        BY <1>1
    <2> QED
        BY <2>1, <2>2 DEF MatchesIn
<1> HIDE DEF none
<1>6. (wanted /\ DevicePage # <<>> /\ ~encoded.matched)
        <=> (wanted /\ DevicePage # <<>> /\ none)
    BY <1>4, <1>5
<1>7. (wanted /\ DevicePage # <<>> /\ ~encoded.matched)
        = (wanted /\ DevicePage # <<>> /\ none)
    BY <1>6
<1> QED
    BY <1>3, <1>7 DEF none

(* The fields reported as unmatched are those that no entry of the         *)
(* device's page has, whether it was shown or cut (encodeLogEntries).      *)
THEOREM UnmatchedIsExact == LogSpec => UnmatchedIsOfThePage
<1>1. LogPagingInv /\ [LogNext]_logVars =>
        [LogPage => reply'.unmatched =
            (wanted /\ DevicePage # <<>>
                    /\ \A i \in DOMAIN DevicePage : log[DevicePage[i]].asked = 0)]_logVars
    BY UnmatchedWell DEF LogPagingInv
<1> QED
    BY <1>1, LogPagingInvHolds, PTL DEF LogSpec, UnmatchedIsOfThePage

-----------------------------------------------------------------------------
(* ListPaging: what the filter keeps.                                      *)

LEMMA KeptRunsRun ==
    ASSUME NEW list \in Seq(Names)
    PROVE  LET kept == KeptRuns(list) IN
           /\ kept[0] = <<>>
           /\ \A n \in 1 .. Len(list) :
                kept[n] = IF list[n] \in Kept THEN Append(kept[n - 1], list[n])
                          ELSE kept[n - 1]
<1> DEFINE N == Len(list)
           after(x, n) == IF list[n] \in Kept THEN Append(x, list[n]) ELSE x
           step == [n \in 1 .. N |-> [x \in Seq(Kept) |-> after(x, n)]]
           Runs(f) == f = [n \in 0 .. N |-> IF n = 0 THEN <<>>
                                            ELSE IF list[n] \in Kept
                                            THEN Append(f[n - 1], list[n])
                                            ELSE f[n - 1]]
<1>1. N \in Nat /\ <<>> \in Seq(Kept)
    OBVIOUS
<1>2. ASSUME NEW n \in 1 .. N, NEW x \in Seq(Kept) PROVE after(x, n) \in Seq(Kept)
    OBVIOUS
<1> HIDE DEF N
<1>3. step \in [1 .. N -> [Seq(Kept) -> Seq(Kept)]]
    <2> HIDE DEF after
    <2> QED
        BY <1>2
<1>4. \E f \in [0 .. N -> Seq(Kept)] :
        f[0] = <<>> /\ \A n \in 1 .. N : f[n] = step[n][f[n - 1]]
    <2> HIDE DEF step
    <2>1. Loops(Seq(Kept), <<>>, N, step) # {}
        BY <1>1, <1>3, LoopExists
    <2> QED
        BY <2>1 DEF Loops
<1>5. PICK f \in [0 .. N -> Seq(Kept)] :
        f[0] = <<>> /\ \A n \in 1 .. N : f[n] = step[n][f[n - 1]]
    BY <1>4
<1>6. ASSUME NEW n \in 0 .. N
      PROVE  f[n] = IF n = 0 THEN <<>> ELSE after(f[n - 1], n)
    <2>1. CASE n # 0
        <3>1. n \in 1 .. N /\ f[n - 1] \in Seq(Kept)
            BY <1>1, <1>5, <2>1
        <3> HIDE DEF after
        <3>2. step[n][f[n - 1]] = after(f[n - 1], n)
            BY <3>1
        <3> HIDE DEF step
        <3> QED
            BY <1>5, <2>1, <3>1, <3>2
    <2> QED
        BY <1>5, <2>1
<1>7. Runs(f)
    <2> HIDE DEF step
    <2> QED
        BY <1>5, <1>6
<1>8. KeptRuns(list) = CHOOSE g : Runs(g)
    BY DEF KeptRuns, N
<1>9. Runs(KeptRuns(list))
    <2> HIDE DEF Runs
    <2> QED
        BY <1>7, <1>8
<1>10. ASSUME NEW n \in 0 .. N
       PROVE  KeptRuns(list)[n] = IF n = 0 THEN <<>>
                                  ELSE IF list[n] \in Kept
                                  THEN Append(KeptRuns(list)[n - 1], list[n])
                                  ELSE KeptRuns(list)[n - 1]
    <2> DEFINE r == KeptRuns(list)
    <2>1. Runs(r)
        BY <1>9
    <2> HIDE DEF r
    <2>2. r[n] = IF n = 0 THEN <<>>
                 ELSE IF list[n] \in Kept THEN Append(r[n - 1], list[n]) ELSE r[n - 1]
        BY <2>1
    <2> QED
        BY <2>2 DEF r
<1>11. 0 \in 0 .. N /\ \A n \in 1 .. N : n \in 0 .. N /\ n # 0
    BY <1>1
<1> QED
    BY <1>10, <1>11 DEF N

(* A sequence that picks the entries with the filter's text out of the     *)
(* first n of a list, all of them and in order.                            *)
Picks(kept, list, n) ==
    /\ kept \in Seq(Kept)
    /\ \E at \in [1 .. Len(kept) -> 1 .. n] :
        /\ \A j \in 1 .. Len(kept) : kept[j] = list[at[j]]
        /\ \A j, l \in 1 .. Len(kept) : j < l => at[j] < at[l]
        /\ \A i \in 1 .. n : list[i] \in Kept => \E j \in 1 .. Len(kept) : at[j] = i

LEMMA PicksNext ==
    ASSUME NEW list \in Seq(Names), NEW n \in 0 .. Len(list) - 1, NEW kept,
           Picks(kept, list, n)
    PROVE  Picks(IF list[n + 1] \in Kept THEN Append(kept, list[n + 1]) ELSE kept,
                 list, n + 1)
<1> DEFINE K == Len(kept)
<1>1. kept \in Seq(Kept) /\ K \in Nat /\ n \in Nat
    BY DEF Picks
<1>2. PICK at \in [1 .. K -> 1 .. n] :
        /\ \A j \in 1 .. K : kept[j] = list[at[j]]
        /\ \A j, l \in 1 .. K : j < l => at[j] < at[l]
        /\ \A i \in 1 .. n : list[i] \in Kept => \E j \in 1 .. K : at[j] = i
    BY DEF Picks
<1>3. \A i \in 1 .. n + 1 : i = n + 1 \/ i \in 1 .. n
    BY <1>1
<1>4. CASE list[n + 1] \notin Kept
    <2>1. at \in [1 .. K -> 1 .. n + 1]
        BY <1>1, <1>2
    <2>2. \A i \in 1 .. n + 1 : list[i] \in Kept => \E j \in 1 .. K : at[j] = i
        BY <1>2, <1>3, <1>4
    <2> QED
        BY <1>1, <1>2, <1>4, <2>1, <2>2 DEF Picks
<1>5. CASE list[n + 1] \in Kept
    <2> DEFINE longer == Append(kept, list[n + 1])
               to == [j \in 1 .. K + 1 |-> IF j = K + 1 THEN n + 1 ELSE at[j]]
    <2>1. longer \in Seq(Kept) /\ Len(longer) = K + 1
        BY <1>1, <1>5
    <2>2. \A j \in 1 .. K + 1 : j = K + 1 \/ j \in 1 .. K
        BY <1>1
    <2>3. /\ \A j \in 1 .. K : to[j] = at[j] /\ to[j] \in 1 .. n
          /\ to[K + 1] = n + 1
        <3> HIDE DEF K
        <3>1. \A j \in 1 .. K : j \in 1 .. K + 1 /\ j # K + 1 /\ at[j] \in 1 .. n
            BY <1>1, <1>2
        <3>2. K + 1 \in 1 .. K + 1
            BY <1>1
        <3> QED
            BY <3>1, <3>2
    <2>4. to \in [1 .. K + 1 -> 1 .. n + 1]
        BY <1>1, <1>2, <2>2
    <2>5. /\ \A j \in 1 .. K : longer[j] = kept[j]
          /\ longer[K + 1] = list[n + 1]
        BY <1>1
    <2> HIDE DEF to, longer, K
    <2>6. \A j \in 1 .. K + 1 : longer[j] = list[to[j]]
        BY <1>2, <2>2, <2>3, <2>5
    <2>7. ASSUME NEW j \in 1 .. K + 1, NEW l \in 1 .. K + 1, j < l
          PROVE  to[j] < to[l]
        <3>1. j \in 1 .. K /\ to[j] \in 1 .. n /\ to[j] = at[j]
            BY <1>1, <2>3, <2>7
        <3>2. CASE l = K + 1
            BY <1>1, <2>3, <3>1, <3>2
        <3>3. CASE l \in 1 .. K
            BY <1>2, <2>3, <2>7, <3>1, <3>3
        <3> QED
            BY <2>2, <3>2, <3>3
    <2>8. ASSUME NEW i \in 1 .. n + 1, list[i] \in Kept
          PROVE  \E j \in 1 .. K + 1 : to[j] = i
        <3>1. CASE i = n + 1
            <4>1. K + 1 \in 1 .. K + 1
                BY <1>1
            <4> QED
                BY <2>3, <3>1, <4>1
        <3>2. CASE i \in 1 .. n
            <4>1. PICK j \in 1 .. K : at[j] = i
                BY <1>2, <2>8, <3>2
            <4>2. j \in 1 .. K + 1 /\ to[j] = i
                BY <1>1, <2>3, <4>1
            <4> QED
                BY <4>2
        <3> QED
            BY <1>3, <3>1, <3>2
    <2>9. Picks(longer, list, n + 1)
        <3>1. /\ to \in [1 .. Len(longer) -> 1 .. n + 1]
              /\ \A j \in 1 .. Len(longer) : longer[j] = list[to[j]]
              /\ \A j, l \in 1 .. Len(longer) : j < l => to[j] < to[l]
              /\ \A i \in 1 .. n + 1 : list[i] \in Kept =>
                    \E j \in 1 .. Len(longer) : to[j] = i
            BY <2>1, <2>4, <2>6, <2>7, <2>8
        <3> QED
            BY <2>1, <3>1, Zenon DEF Picks
    <2> QED
        BY <1>5, <2>9 DEF longer
<1> QED
    BY <1>4, <1>5

LEMMA KeptOfPicks ==
    ASSUME NEW list \in Seq(Names)
    PROVE  Picks(KeptOf(list), list, Len(list))
<1> DEFINE N == Len(list)
           T == {n \in Nat : n <= N => Picks(KeptRuns(list)[n], list, n)}
<1>1. N \in Nat
    OBVIOUS
<1>2. 0 \in T
    <2>1. KeptRuns(list)[0] = <<>>
        BY KeptRunsRun
    <2>2. Picks(<<>>, list, 0)
        <3> DEFINE at == [j \in 1 .. Len(<<>>) |-> j]
        <3>1. 1 .. Len(<<>>) = {} /\ 1 .. 0 = {} /\ <<>> \in Seq(Kept)
            OBVIOUS
        <3>2. at \in [1 .. Len(<<>>) -> 1 .. 0]
            BY <3>1
        <3> HIDE DEF at
        <3> QED
            BY <3>1, <3>2, Zenon DEF Picks
    <2> QED
        BY <2>1, <2>2
<1>3. ASSUME NEW n \in Nat, n \in T PROVE n + 1 \in T
    <2>1. ASSUME n + 1 <= N PROVE Picks(KeptRuns(list)[n + 1], list, n + 1)
        <3>1. n \in 0 .. Len(list) - 1 /\ Picks(KeptRuns(list)[n], list, n)
            BY <1>1, <1>3, <2>1
        <3>2. KeptRuns(list)[n + 1]
                = IF list[n + 1] \in Kept THEN Append(KeptRuns(list)[n], list[n + 1])
                  ELSE KeptRuns(list)[n]
            <4>1. n + 1 \in 1 .. Len(list) /\ n + 1 - 1 = n
                BY <2>1
            <4> QED
                BY <4>1, KeptRunsRun
        <3> QED
            BY <3>1, <3>2, PicksNext
    <2> QED
        BY <2>1
<1>4. N \in T
    <2> HIDE DEF T
    <2> QED
        BY <1>1, <1>2, <1>3, SetInduction
<1> QED
    BY <1>4 DEF KeptOf

LEMMA KeptOfDistinct ==
    ASSUME NEW list \in Seq(Names), Distinct(list)
    PROVE  Distinct(KeptOf(list))
<1> DEFINE kept == KeptOf(list)
<1>1. Picks(kept, list, Len(list))
    BY KeptOfPicks
<1> HIDE DEF kept
<1>2. kept \in Seq(Kept)
    BY <1>1 DEF Picks
<1>3. PICK at \in [1 .. Len(kept) -> 1 .. Len(list)] :
        /\ \A j \in 1 .. Len(kept) : kept[j] = list[at[j]]
        /\ \A j, l \in 1 .. Len(kept) : j < l => at[j] < at[l]
    BY <1>1 DEF Picks
<1>4. ASSUME NEW j \in 1 .. Len(kept), NEW l \in 1 .. Len(kept), j < l
      PROVE  kept[j] # kept[l]
    <2>1. /\ at[j] \in 1 .. Len(list) /\ at[l] \in 1 .. Len(list)
          /\ kept[j] = list[at[j]] /\ kept[l] = list[at[l]]
        BY <1>3
    <2>2. at[j] # at[l]
        BY <1>3, <1>4, <2>1
    <2> QED
        BY <2>1, <2>2 DEF Distinct
<1>5. DOMAIN kept = 1 .. Len(kept) /\ \A j \in 1 .. Len(kept) : j \in Int
    BY <1>2
<1>6. ASSUME NEW j \in DOMAIN kept, NEW l \in DOMAIN kept, j # l
      PROVE  kept[j] # kept[l]
    <2>1. j < l \/ l < j
        BY <1>5, <1>6
    <2> QED
        BY <1>4, <1>5, <2>1
<1> QED
    BY <1>6 DEF Distinct, kept

(* An entry that is added to a list is added to what is kept of it.        *)
LEMMA KeptOfAppend ==
    ASSUME NEW list \in Seq(Names), NEW e \in Names
    PROVE  KeptOf(Append(list, e))
            = IF e \in Kept THEN Append(KeptOf(list), e) ELSE KeptOf(list)
<1> DEFINE longer == Append(list, e)
           N == Len(list)
           T == {n \in Nat : n <= N => KeptRuns(longer)[n] = KeptRuns(list)[n]}
<1>1. /\ N \in Nat /\ longer \in Seq(Names) /\ Len(longer) = N + 1
      /\ longer[N + 1] = e /\ \A n \in 1 .. N : longer[n] = list[n]
    OBVIOUS
<1> HIDE DEF longer
<1>2. 0 \in T
    BY <1>1, KeptRunsRun
<1>3. ASSUME NEW n \in Nat, n \in T PROVE n + 1 \in T
    <2>1. ASSUME n + 1 <= N PROVE KeptRuns(longer)[n + 1] = KeptRuns(list)[n + 1]
        <3>1. /\ n + 1 \in 1 .. Len(list) /\ n + 1 \in 1 .. Len(longer)
              /\ n + 1 - 1 = n
            BY <1>1, <2>1
        <3>2. KeptRuns(longer)[n] = KeptRuns(list)[n] /\ longer[n + 1] = list[n + 1]
            BY <1>1, <1>3, <3>1
        <3>3. KeptRuns(longer)[n + 1]
                = IF longer[n + 1] \in Kept
                  THEN Append(KeptRuns(longer)[n], longer[n + 1])
                  ELSE KeptRuns(longer)[n]
            BY <1>1, <3>1, KeptRunsRun
        <3>4. KeptRuns(list)[n + 1]
                = IF list[n + 1] \in Kept THEN Append(KeptRuns(list)[n], list[n + 1])
                  ELSE KeptRuns(list)[n]
            BY <3>1, KeptRunsRun
        <3> QED
            BY <3>2, <3>3, <3>4
    <2> QED
        BY <2>1
<1>4. N \in T
    <2> HIDE DEF T
    <2> QED
        BY <1>1, <1>2, <1>3, SetInduction
<1>5. KeptRuns(longer)[N] = KeptRuns(list)[N]
    BY <1>4
<1>6. KeptRuns(longer)[N + 1]
        = IF e \in Kept THEN Append(KeptRuns(longer)[N], e) ELSE KeptRuns(longer)[N]
    <2>1. N + 1 \in 1 .. Len(longer) /\ N + 1 - 1 = N
        BY <1>1
    <2> QED
        BY <1>1, <2>1, KeptRunsRun
<1> QED
    BY <1>1, <1>5, <1>6 DEF KeptOf, longer

-----------------------------------------------------------------------------
(* ListPaging: what the pages show.                                        *)

LEMMA Clamped ==
    ASSUME NEW lim \in Int, NEW off \in Int, NEW n \in Nat
    PROVE  LET range == clampList(lim, off, n) IN
           /\ range.lo \in 0 .. n /\ range.hi \in range.lo .. n
           /\ range.hi - range.lo \in 0 .. MaxLimit
           /\ range.hi = range.lo => range.lo = n
           /\ range.lo = IF off < 0 THEN 0 ELSE IF off > n THEN n ELSE off
    BY LimitsAssumption DEF clampList

(* Where the paging began, in the list that the last page saw.             *)
Began == clampList(limit, first, page.total).lo

(* The pages so far of a list that nothing was deleted from: none yet, or  *)
(* the list from where they began up to the next offset.                   *)
ShownSoFar ==
    \/ ~done /\ offset = first /\ collected = <<>> /\ page.total = 0
    \/ /\ page.total <= Len(KeptOf(entries)) /\ offset \in Began .. page.total
       /\ Len(collected) = offset - Began
       /\ \A i \in 1 .. Len(collected) : collected[i] = KeptOf(entries)[Began + i]
       /\ done => offset = page.total
       /\ ~done => offset < page.total /\ first <= page.total

ListPagingInv ==
    /\ TypeOK /\ PageInList
    /\ collected \in Seq(Kept)
    /\ ~shrunk => ShownSoFar

LEMMA ListPagingInit == Init => ListPagingInv
<1> SUFFICES ASSUME Init PROVE ListPagingInv
    OBVIOUS
<1>1. entries \in Seq(Names) /\ Distinct(entries)
    <2>1. PICK n \in 0 .. MaxEntries : entries \in {s \in [1 .. n -> Names] : Distinct(s)}
        BY DEF Init
    <2>2. n \in Nat
        BY <2>1, MaxEntriesAssumption
    <2> QED
        BY <2>1, <2>2
<1>2. /\ limit \in Limits /\ offset \in Offsets /\ first = offset /\ page = NoPage
      /\ collected = <<>> /\ shrunk = FALSE /\ done = FALSE
    BY DEF Init
<1>3. /\ page.total = 0 /\ page.offset = 0 /\ page.count = 0 /\ page.entries = <<>>
    BY <1>2 DEF NoPage
<1>4. PageInList
    BY <1>3, LimitsAssumption DEF PageInList
<1>5. TypeOK
    <2>1. Distinct(page.entries) /\ page.entries \in Seq(Kept) /\ Len(page.entries) = 0
        BY <1>3 DEF Distinct
    <2>2. offset \in Int /\ first \in Offsets
        BY <1>2, InputAssumption
    <2>3. shrunk \in BOOLEAN /\ done \in BOOLEAN
        BY <1>2
    <2>4. page.count = Len(page.entries) /\ page.total \in Nat /\ page.offset \in Nat
        BY <1>3, <2>1
    <2> QED
        BY <1>1, <1>2, <2>1, <2>2, <2>3, <2>4 DEF TypeOK
<1> QED
    BY <1>2, <1>3, <1>4, <1>5 DEF ListPagingInv, ShownSoFar

(* What a page is of the filtered list.                                    *)
LEMMA ListPageEffect ==
    ASSUME TypeOK, ListPage
    PROVE  LET kept == KeptOf(entries)
               range == clampList(limit, offset, Len(kept)) IN
           /\ kept \in Seq(Kept) /\ Distinct(kept)
           /\ range.lo \in 0 .. Len(kept) /\ range.hi \in range.lo .. Len(kept)
           /\ range.hi - range.lo \in 0 .. MaxLimit
           /\ range.hi = range.lo => range.lo = Len(kept)
           /\ range.lo = IF offset < 0 THEN 0
                         ELSE IF offset > Len(kept) THEN Len(kept) ELSE offset
           /\ page'.total = Len(kept) /\ page'.offset = range.lo
           /\ page'.count = range.hi - range.lo
           /\ page'.entries \in Seq(Kept)
           /\ Len(page'.entries) = range.hi - range.lo
           /\ \A i \in 1 .. range.hi - range.lo : page'.entries[i] = kept[range.lo + i]
           /\ offset' = range.hi /\ done' = (range.hi >= Len(kept))
           /\ collected' = collected \o page'.entries
<1> DEFINE kept == KeptOf(entries)
           range == clampList(limit, offset, Len(kept))
<1>1. entries \in Seq(Names) /\ Distinct(entries) /\ limit \in Int /\ offset \in Int
    BY InputAssumption DEF TypeOK
<1>2. kept \in Seq(Kept) /\ Distinct(kept)
    BY <1>1, KeptOfPicks, KeptOfDistinct DEF Picks
<1>3. /\ page' = [total |-> Len(kept), offset |-> range.lo,
                  count |-> range.hi - range.lo,
                  entries |-> SubSeq(kept, range.lo + 1, range.hi)]
      /\ offset' = page'.offset + page'.count /\ done' = (offset' >= page'.total)
      /\ collected' = collected \o page'.entries
    BY DEF ListPage, projectList
<1> HIDE DEF kept
<1>4. Len(kept) \in Nat
    BY <1>2
<1>5. /\ range.lo \in 0 .. Len(kept) /\ range.hi \in range.lo .. Len(kept)
      /\ range.hi - range.lo \in 0 .. MaxLimit
      /\ range.hi = range.lo => range.lo = Len(kept)
      /\ range.lo = IF offset < 0 THEN 0
                    ELSE IF offset > Len(kept) THEN Len(kept) ELSE offset
    BY <1>1, <1>4, Clamped
<1> HIDE DEF range
<1>6. /\ page'.total = Len(kept) /\ page'.offset = range.lo
      /\ page'.count = range.hi - range.lo
      /\ page'.entries = SubSeq(kept, range.lo + 1, range.hi)
    BY <1>3
<1>7. /\ page'.entries \in Seq(Kept)
      /\ Len(page'.entries) = range.hi - range.lo
      /\ \A i \in 1 .. range.hi - range.lo : page'.entries[i] = kept[range.lo + i]
    <2>1. range.lo \in Nat /\ range.hi \in Nat /\ range.lo <= range.hi
        BY <1>4, <1>5
    <2>2. \A i \in range.lo + 1 .. range.hi : i \in 1 .. Len(kept)
        BY <1>4, <1>5
    <2> QED
        BY <1>2, <1>5, <1>6, <2>1, <2>2
<1>8. offset' = range.hi
    BY <1>3, <1>4, <1>5, <1>6
<1>9. done' = (range.hi >= Len(kept))
    BY <1>3, <1>6, <1>8
<1> QED
    BY <1>2, <1>3, <1>5, <1>6, <1>7, <1>8, <1>9 DEF kept, range

LEMMA ListPagingPage == ListPagingInv /\ ListPage => ListPagingInv'
<1> SUFFICES ASSUME ListPagingInv, ListPage PROVE ListPagingInv'
    OBVIOUS
<1> DEFINE kept == KeptOf(entries)
           n == Len(kept)
           range == clampList(limit, offset, n)
           size == range.hi - range.lo
<1>1. /\ TypeOK /\ collected \in Seq(Kept) /\ done = FALSE
      /\ first \in Int /\ offset \in Int /\ limit \in Int /\ page.total \in Nat
    BY InputAssumption DEF ListPagingInv, ListPage, TypeOK
<1>2. /\ entries' = entries /\ limit' = limit /\ first' = first /\ shrunk' = shrunk
    BY DEF ListPage
<1>3. /\ kept \in Seq(Kept) /\ Distinct(kept)
      /\ range.lo \in 0 .. n /\ range.hi \in range.lo .. n
      /\ size \in 0 .. MaxLimit
      /\ range.hi = range.lo => range.lo = n
      /\ range.lo = IF offset < 0 THEN 0 ELSE IF offset > n THEN n ELSE offset
      /\ page'.total = n /\ page'.offset = range.lo /\ page'.count = size
      /\ page'.entries \in Seq(Kept) /\ Len(page'.entries) = size
      /\ \A i \in 1 .. size : page'.entries[i] = kept[range.lo + i]
      /\ offset' = range.hi /\ done' = (range.hi >= n)
      /\ collected' = collected \o page'.entries
    BY <1>1, ListPageEffect
<1> HIDE DEF range, kept
<1>4. n \in Nat /\ size \in Nat /\ range.lo \in Nat /\ range.hi \in Nat
    BY <1>3, LimitsAssumption
<1>5. PageInList'
    BY <1>3, <1>4 DEF PageInList
<1>6. TypeOK'
    <2>1. Distinct(page'.entries)
        <3>1. /\ DOMAIN page'.entries = 1 .. size /\ DOMAIN kept = 1 .. n
              /\ \A i \in 1 .. size : range.lo + i \in 1 .. n
            BY <1>3, <1>4
        <3>2. ASSUME NEW i \in 1 .. size, NEW j \in 1 .. size, i # j
              PROVE  page'.entries[i] # page'.entries[j]
            <4>1. range.lo + i # range.lo + j
                BY <1>4, <3>2
            <4> HIDE DEF size
            <4> QED
                BY <1>3, <3>1, <3>2, <4>1 DEF Distinct
        <3> QED
            BY <3>1, <3>2 DEF Distinct
    <2>2. done' \in BOOLEAN
        BY <1>3
    <2>3. offset' \in Int /\ page'.total \in Nat /\ page'.offset \in Nat
          /\ page'.count = Len(page'.entries) /\ page'.entries \in Seq(Kept)
        BY <1>3, <1>4
    <2> QED
        BY <1>1, <1>2, <2>1, <2>2, <2>3 DEF TypeOK
<1>7. collected' \in Seq(Kept) /\ Len(collected') = Len(collected) + size
    BY <1>1, <1>3
<1>8. /\ \A i \in 1 .. Len(collected) : collected'[i] = collected[i]
      /\ \A i \in 1 .. size : collected'[Len(collected) + i] = kept[range.lo + i]
    BY <1>1, <1>3, <1>4
<1>9. Began' = IF first < 0 THEN 0 ELSE IF first > n THEN n ELSE first
    <2>1. Began' = clampList(limit, first, n).lo
        BY <1>2, <1>3 DEF Began
    <2>2. limit \in Int /\ first \in Int
        BY <1>1
    <2> HIDE DEF n
    <2>3. clampList(limit, first, n).lo
            = IF first < 0 THEN 0 ELSE IF first > n THEN n ELSE first
        BY <1>4, <2>2, Clamped
    <2> QED
        BY <2>1, <2>3
<1>10. Began = IF first < 0 THEN 0 ELSE IF first > page.total THEN page.total ELSE first
    BY <1>1, Clamped DEF Began
<1>11. kept' = kept
    BY <1>2 DEF kept
<1>12. done' <=> offset' >= n
    BY <1>3
<1>13. ASSUME ~shrunk PROVE ShownSoFar'
    <2>1. CASE offset = first /\ collected = <<>>
        <3>1. Began' = range.lo /\ Len(collected) = 0 /\ Len(collected') = size
            BY <1>3, <1>4, <1>7, <1>9, <2>1
        <3>2. ASSUME NEW i \in 1 .. Len(collected')
              PROVE  collected'[i] = kept[Began' + i]
            BY <1>8, <3>1, <3>2
        <3>3. offset' \in Began' .. n /\ Len(collected') = offset' - Began'
            BY <1>3, <1>4, <3>1
        <3>4. (done' => offset' = n) /\ (~done' => offset' < n /\ first <= n)
            <4>1. offset' = range.hi
                BY <1>3
            <4>2. offset' < n => first <= n
                BY <1>1, <1>3, <1>4, <2>1, <4>1
            <4> QED
                BY <1>3, <1>4, <1>12, <4>1, <4>2
        <3> QED
            BY <1>2, <1>3, <1>4, <1>11, <3>2, <3>3, <3>4 DEF ShownSoFar, kept
    <2>2. CASE /\ page.total <= n /\ offset \in Began .. page.total
               /\ Len(collected) = offset - Began
               /\ \A i \in 1 .. Len(collected) : collected[i] = kept[Began + i]
               /\ offset < page.total /\ first <= page.total
        <3>1. Began' = Began /\ Began \in Nat /\ range.lo = offset
            BY <1>1, <1>3, <1>4, <1>9, <1>10, <2>2
        <3>2. ASSUME NEW i \in 1 .. Len(collected')
              PROVE  collected'[i] = kept[Began' + i]
            <4>1. CASE i \in 1 .. Len(collected)
                BY <1>8, <2>2, <3>1, <4>1
            <4>2. CASE i \notin 1 .. Len(collected)
                <5>1. i - Len(collected) \in 1 .. size
                    BY <1>1, <1>4, <1>7, <3>2, <4>2
                <5>2. collected'[Len(collected) + (i - Len(collected))]
                        = kept[range.lo + (i - Len(collected))]
                    BY <1>8, <5>1
                <5>3. /\ Len(collected) + (i - Len(collected)) = i
                      /\ range.lo + (i - Len(collected)) = Began' + i
                    BY <1>1, <1>4, <2>2, <3>1
                <5> QED
                    BY <5>2, <5>3
            <4> QED
                BY <4>1, <4>2
        <3>3. offset' \in Began' .. n /\ Len(collected') = offset' - Began'
            <4>1. offset' = range.hi /\ size = offset' - offset /\ offset' >= offset
                BY <1>3, <1>4, <3>1
            <4>2. offset' <= n /\ offset' \in Nat
                BY <1>3, <1>4
            <4> HIDE DEF size
            <4> QED
                BY <1>1, <1>4, <1>7, <2>2, <3>1, <4>1, <4>2
        <3>4. (done' => offset' = n) /\ (~done' => offset' < n /\ first <= n)
            <4>1. offset' = range.hi /\ first <= n
                BY <1>1, <1>3, <1>4, <2>2
            <4> QED
                BY <1>3, <1>4, <1>12, <4>1
        <3> QED
            BY <1>2, <1>3, <1>4, <1>11, <3>2, <3>3, <3>4 DEF ShownSoFar, kept
    <2> QED
        BY <1>1, <1>13, <2>1, <2>2 DEF ListPagingInv, ShownSoFar, kept
<1> QED
    BY <1>2, <1>5, <1>6, <1>7, <1>13 DEF ListPagingInv

LEMMA ListPagingCreate == ListPagingInv /\ CreateEntry => ListPagingInv'
<1> SUFFICES ASSUME ListPagingInv, CreateEntry PROVE ListPagingInv'
    OBVIOUS
<1>1. PICK e \in Names \ ToSet(entries) : entries' = Append(entries, e)
    BY DEF CreateEntry
<1>2. /\ limit' = limit /\ offset' = offset /\ first' = first /\ page' = page
      /\ collected' = collected /\ shrunk' = shrunk /\ done' = done
    BY DEF CreateEntry
<1>3. entries \in Seq(Names) /\ Distinct(entries)
    BY DEF ListPagingInv, TypeOK
<1>4. entries' \in Seq(Names) /\ Distinct(entries')
    <2>1. /\ entries' \in Seq(Names) /\ Len(entries') = Len(entries) + 1
          /\ DOMAIN entries' = 1 .. Len(entries) + 1
          /\ DOMAIN entries = 1 .. Len(entries)
          /\ \A i \in 1 .. Len(entries) : entries'[i] = entries[i]
          /\ entries'[Len(entries) + 1] = e
        BY <1>1, <1>3
    <2>2. \A i \in 1 .. Len(entries) : entries[i] # e
        BY <1>1, <2>1 DEF ToSet
    <2>3. \A i \in 1 .. Len(entries) + 1 : i \in 1 .. Len(entries) \/ i = Len(entries) + 1
        BY <1>3
    <2>4. ASSUME NEW i \in DOMAIN entries', NEW j \in DOMAIN entries', i # j
          PROVE  entries'[i] # entries'[j]
        BY <1>3, <2>1, <2>2, <2>3, <2>4 DEF Distinct
    <2> QED
        BY <2>1, <2>4 DEF Distinct
<1>5. TypeOK' /\ PageInList'
    BY <1>2, <1>4 DEF ListPagingInv, TypeOK, PageInList
<1>6. /\ KeptOf(entries) \in Seq(Kept)
      /\ Len(KeptOf(entries')) >= Len(KeptOf(entries))
      /\ \A i \in 1 .. Len(KeptOf(entries)) : KeptOf(entries')[i] = KeptOf(entries)[i]
    <2> DEFINE kept == KeptOf(entries)
    <2>1. kept \in Seq(Kept)
        BY <1>3, KeptOfPicks DEF Picks
    <2>2. KeptOf(entries') = IF e \in Kept THEN Append(kept, e) ELSE kept
        BY <1>1, <1>3, KeptOfAppend
    <2> HIDE DEF kept
    <2>3. Len(KeptOf(entries')) >= Len(kept)
          /\ \A i \in 1 .. Len(kept) : KeptOf(entries')[i] = kept[i]
        BY <2>1, <2>2
    <2> QED
        BY <2>1, <2>3 DEF kept
<1>7. ASSUME ~shrunk PROVE ShownSoFar'
    <2> DEFINE kept == KeptOf(entries)
               longer == KeptOf(entries')
    <2>1. Began' = Began
        BY <1>2 DEF Began
    <2>2. Began \in 0 .. page.total /\ page.total \in Nat /\ collected \in Seq(Kept)
        <3>1. first \in Int /\ limit \in Int /\ page.total \in Nat
            BY InputAssumption DEF ListPagingInv, TypeOK
        <3> QED
            BY <3>1, Clamped DEF Began, ListPagingInv
    <2>3. CASE ~done /\ offset = first /\ collected = <<>> /\ page.total = 0
        BY <1>2, <2>3 DEF ShownSoFar
    <2>4. CASE /\ page.total <= Len(kept) /\ offset \in Began .. page.total
               /\ Len(collected) = offset - Began
               /\ \A i \in 1 .. Len(collected) : collected[i] = kept[Began + i]
               /\ done => offset = page.total
               /\ ~done => offset < page.total /\ first <= page.total
        <3> HIDE DEF kept, longer
        <3>1. Len(kept) \in Nat /\ Len(longer) \in Nat /\ Len(longer) >= Len(kept)
            <4>1. longer \in Seq(Kept)
                BY <1>4, KeptOfPicks DEF Picks, longer
            <4> QED
                BY <1>6, <4>1 DEF kept, longer
        <3>2. ASSUME NEW i \in 1 .. Len(collected)
              PROVE  collected[i] = longer[Began + i]
            <4>1. Began + i \in 1 .. Len(kept)
                BY <2>2, <2>4, <3>1, <3>2
            <4>2. longer[Began + i] = kept[Began + i]
                BY <1>6, <4>1 DEF kept, longer
            <4> QED
                BY <2>4, <3>2, <4>2
        <3>3. page.total <= Len(longer)
            BY <2>2, <2>4, <3>1
        <3> QED
            BY <1>2, <2>1, <2>4, <3>2, <3>3 DEF ShownSoFar, longer
    <2> QED
        BY <1>7, <2>3, <2>4 DEF ListPagingInv, ShownSoFar
<1> QED
    BY <1>2, <1>5, <1>7 DEF ListPagingInv

LEMMA ListPagingDelete == ListPagingInv /\ DeleteEntry => ListPagingInv'
<1> SUFFICES ASSUME ListPagingInv, DeleteEntry PROVE ListPagingInv'
    OBVIOUS
<1>1. PICK i \in DOMAIN entries : entries' = RemoveAt(entries, i)
    BY DEF DeleteEntry
<1>2. /\ limit' = limit /\ offset' = offset /\ first' = first /\ page' = page
      /\ collected' = collected /\ shrunk' = TRUE /\ done' = done
    BY DEF DeleteEntry
<1>3. entries \in Seq(Names) /\ Distinct(entries) /\ i \in 1 .. Len(entries)
    BY <1>1 DEF ListPagingInv, TypeOK
<1>4. /\ entries' \in Seq(Names) /\ DOMAIN entries' = 1 .. Len(entries) - 1
      /\ \A j \in 1 .. Len(entries) - 1 :
            entries'[j] = entries[IF j < i THEN j ELSE j + 1]
    <2> DEFINE s == SubSeq(entries, 1, i - 1)
               t == SubSeq(entries, i + 1, Len(entries))
    <2>1. entries' = s \o t
        BY <1>1 DEF RemoveAt
    <2>2. /\ s \in Seq(Names) /\ Len(s) = i - 1
          /\ \A j \in 1 .. i - 1 : s[j] = entries[j]
        BY <1>3
    <2>3. /\ t \in Seq(Names) /\ Len(t) = Len(entries) - i
          /\ \A j \in 1 .. Len(entries) - i : t[j] = entries[i + j]
        BY <1>3
    <2> HIDE DEF s, t
    <2>4. entries' \in Seq(Names) /\ Len(entries') = Len(entries) - 1
        BY <1>3, <2>1, <2>2, <2>3
    <2>5. ASSUME NEW j \in 1 .. Len(entries) - 1
          PROVE  entries'[j] = entries[IF j < i THEN j ELSE j + 1]
        <3>1. CASE j < i
            BY <1>3, <2>1, <2>2, <2>3, <3>1
        <3>2. CASE ~(j < i)
            <4>1. j - (i - 1) \in 1 .. Len(entries) - i /\ i + (j - (i - 1)) = j + 1
                BY <1>3, <3>2
            <4>2. entries'[j] = t[j - (i - 1)]
                <5>1. j \in Int /\ j > Len(s) /\ j <= Len(s) + Len(t)
                    BY <1>3, <2>2, <2>3, <3>2
                <5>2. (s \o t)[j] = t[j - Len(s)]
                    BY <2>2, <2>3, <5>1
                <5> QED
                    BY <2>1, <2>2, <5>2
            <4> QED
                BY <2>3, <3>2, <4>1, <4>2
        <3> QED
            BY <3>1, <3>2
    <2> QED
        BY <2>4, <2>5
<1>5. Distinct(entries')
    <2>1. ASSUME NEW j \in 1 .. Len(entries) - 1, NEW k \in 1 .. Len(entries) - 1, j # k
          PROVE  entries'[j] # entries'[k]
        <3> DEFINE old(x) == IF x < i THEN x ELSE x + 1
        <3>1. old(j) \in 1 .. Len(entries) /\ old(k) \in 1 .. Len(entries) /\ old(j) # old(k)
            BY <1>3, <2>1
        <3>2. entries'[j] = entries[old(j)] /\ entries'[k] = entries[old(k)]
            BY <1>4
        <3>3. DOMAIN entries = 1 .. Len(entries)
            BY <1>3
        <3> HIDE DEF old
        <3> QED
            BY <1>3, <3>1, <3>2, <3>3 DEF Distinct
    <2> QED
        BY <1>4, <2>1 DEF Distinct
<1>6. TypeOK' /\ PageInList'
    BY <1>2, <1>4, <1>5 DEF ListPagingInv, TypeOK, PageInList
<1> QED
    BY <1>2, <1>6 DEF ListPagingInv

LEMMA ListPagingNext == ListPagingInv /\ [Next]_vars => ListPagingInv'
<1>1. ListPagingInv /\ UNCHANGED vars => ListPagingInv'
    BY DEF vars, ListPagingInv, TypeOK, PageInList, ShownSoFar, Began
<1> QED
    BY <1>1, ListPagingPage, ListPagingCreate, ListPagingDelete DEF Next

LEMMA ListPagingInvHolds == Spec => []ListPagingInv
    BY ListPagingInit, ListPagingNext, PTL DEF Spec

(* The pages stay well formed: each holds entries that the filter keeps,   *)
(* none twice, and counts them, whatever the client sends (projectList).   *)
THEOREM ListTypesHold == Spec => []TypeOK
<1>1. ListPagingInv => TypeOK
    BY DEF ListPagingInv
<1> QED
    BY <1>1, ListPagingInvHolds, PTL

(* Whatever limits and offsets clients send and however the list changes   *)
(* between pages, clampList and projectList answer a page of the list.     *)
THEOREM PageInListHolds == Spec => []PageInList
<1>1. ListPagingInv => PageInList
    BY DEF ListPagingInv
<1> QED
    BY <1>1, ListPagingInvHolds, PTL

LEMMA PagesShowTheList == ListPagingInv => PagesAreTheList
<1> DEFINE kept == KeptOf(entries)
           rest == SubSeq(kept, Began + 1, Len(kept))
<1> SUFFICES ASSUME ListPagingInv, ~shrunk
             PROVE  /\ IsPrefix(collected, rest)
                    /\ done => Len(collected) = page.total - Began
    BY DEF PagesAreTheList, Began
<1>1. /\ kept \in Seq(Kept) /\ collected \in Seq(Kept) /\ ShownSoFar
      /\ page.total \in Nat /\ Began \in 0 .. page.total
    <2>1. entries \in Seq(Names) /\ page.total \in Nat /\ first \in Int /\ limit \in Int
        BY InputAssumption DEF ListPagingInv, TypeOK
    <2>2. kept \in Seq(Kept)
        BY <2>1, KeptOfPicks DEF Picks
    <2>3. Began \in 0 .. page.total
        BY <2>1, Clamped DEF Began
    <2> QED
        BY <2>1, <2>2, <2>3 DEF ListPagingInv
<1>2. /\ Len(collected) = 0 \/ Began + Len(collected) <= Len(kept)
      /\ \A i \in 1 .. Len(collected) : collected[i] = kept[Began + i]
      /\ done => Len(collected) = page.total - Began
    <2>1. CASE ~done /\ collected = <<>>
        BY <2>1
    <2>2. CASE /\ page.total <= Len(kept) /\ offset \in Began .. page.total
               /\ Len(collected) = offset - Began
               /\ \A i \in 1 .. Len(collected) : collected[i] = kept[Began + i]
               /\ done => offset = page.total
        <3> HIDE DEF kept
        <3>1. Len(kept) \in Nat
            BY <1>1
        <3> QED
            BY <1>1, <2>2, <3>1
    <2> QED
        BY <1>1, <2>1, <2>2 DEF ShownSoFar
<1> HIDE DEF kept
<1>3. /\ rest \in Seq(Kept) /\ Len(collected) <= Len(rest)
      /\ \A i \in 1 .. Len(collected) : rest[i] = kept[Began + i]
    <2>1. Began \in Nat /\ Len(kept) \in Nat /\ Len(collected) \in Nat
        BY <1>1
    <2>2. \A i \in Began + 1 .. Len(kept) : i \in 1 .. Len(kept)
        BY <2>1
    <2>3. rest \in Seq(Kept)
        BY <1>1, <2>1, <2>2
    <2>4. CASE Len(collected) = 0
        BY <2>3, <2>4
    <2>5. CASE Began + Len(collected) <= Len(kept)
        <3>1. Len(rest) = Len(kept) - Began
            BY <1>1, <2>1, <2>5
        <3>2. \A i \in 1 .. Len(kept) - Began : rest[i] = kept[Began + i]
            BY <1>1, <2>1, <2>5
        <3> QED
            BY <2>1, <2>3, <2>5, <3>1, <3>2
    <2> QED
        BY <1>2, <2>4, <2>5
<1> HIDE DEF rest
<1>4. IsPrefix(collected, rest)
    <2> DEFINE n == Len(collected)
               s == SubSeq(collected, 1, n)
               t == SubSeq(rest, 1, n)
    <2>1. n \in Nat /\ n <= Len(rest)
        BY <1>1, <1>3
    <2>2. s \in Seq(Kept) /\ Len(s) = n /\ \A i \in 1 .. n : s[i] = collected[i]
        <3>1. \A i \in 1 .. n : i \in 1 .. Len(collected)
            OBVIOUS
        <3> QED
            BY <1>1, <2>1, <3>1
    <2>3. t \in Seq(Kept) /\ Len(t) = n /\ \A i \in 1 .. n : t[i] = rest[i]
        <3>1. \A i \in 1 .. n : i \in 1 .. Len(rest)
            BY <1>3, <2>1
        <3> QED
            BY <1>3, <2>1, <3>1
    <2>4. \A i \in 1 .. n : s[i] = t[i]
        BY <1>2, <1>3, <2>2, <2>3
    <2> HIDE DEF s, t
    <2>5. s = t
        BY <2>1, <2>2, <2>3, <2>4
    <2> QED
        BY <2>1, <2>5 DEF IsPrefix, s, t
<1> QED
    BY <1>2, <1>4

(* A client that goes from page to page of a list that only grows is shown *)
(* exactly the entries the filter keeps, from its first offset on, in      *)
(* order, none missed and none twice (clampList, projectList).             *)
THEOREM PagesAreTheListHolds == Spec => []PagesAreTheList
    BY PagesShowTheList, ListPagingInvHolds, PTL
LEMMA ListPageMoves ==
    ASSUME TypeOK, ListPage
    PROVE  done' \/ (offset < offset' /\ offset' \in 1 .. page'.total - 1 /\ page'.count > 0)
<1> DEFINE kept == KeptOf(entries)
           range == clampList(limit, offset, Len(kept))
<1>1. /\ kept \in Seq(Kept)
      /\ range.lo \in 0 .. Len(kept) /\ range.hi \in range.lo .. Len(kept)
      /\ range.hi = range.lo => range.lo = Len(kept)
      /\ range.lo = IF offset < 0 THEN 0
                    ELSE IF offset > Len(kept) THEN Len(kept) ELSE offset
      /\ page'.total = Len(kept) /\ page'.count = range.hi - range.lo
      /\ offset' = range.hi /\ done' = (range.hi >= Len(kept))
    BY ListPageEffect
<1>2. Len(kept) \in Nat /\ offset \in Int
    BY <1>1 DEF TypeOK
<1> HIDE DEF kept, range
<1>3. CASE range.hi >= Len(kept)
    BY <1>1, <1>3
<1>4. CASE ~(range.hi >= Len(kept))
    <2>1. range.lo \in Int /\ range.hi \in Int
        BY <1>1, <1>2
    <2>2. range.lo < range.hi /\ range.hi < Len(kept) /\ offset < range.hi /\ range.hi >= 1
        BY <1>1, <1>2, <1>4, <2>1
    <2>3. offset < offset'
        BY <1>1, <2>2
    <2>4. offset' \in 1 .. page'.total - 1
        BY <1>1, <1>2, <2>1, <2>2
    <2>5. page'.count > 0
        BY <1>1, <2>1, <2>2
    <2> QED
        BY <2>3, <2>4, <2>5
<1> QED
    BY <1>3, <1>4

(* Whatever the limit and the offset, and whatever was created or deleted  *)
(* since the page before, a page either reaches the total or shows         *)
(* something and moves the offset on, to a place before the total          *)
(* (clampList: a limit that is not positive is the default one).           *)
PagesMoveOn ==
    [][ListPage => \/ done'
                   \/ /\ offset < offset' /\ offset' \in 1 .. page'.total - 1
                      /\ page'.count > 0]_vars

(* PagesMoveOn: no page of a list leaves its client where it was, for any  *)
(* filter, limit, offset and list (projectList).                           *)
THEOREM PagesGoOn == Spec => PagesMoveOn
<1>1. ListPagingInv /\ [Next]_vars =>
        [ListPage => \/ done'
                     \/ /\ offset < offset' /\ offset' \in 1 .. page'.total - 1
                        /\ page'.count > 0]_vars
    BY ListPageMoves DEF ListPagingInv
<1> QED
    BY <1>1, ListPagingInvHolds, PTL DEF Spec, PagesMoveOn
=============================================================================
