---------------------------- MODULE DaemonProofs ----------------------------
(***************************************************************************)
(* What the ring and the choice of a hotstring compute, for scripts of any *)
(* number of hotstrings and triggers of any length; and what the event     *)
(* loop promises, for any keys, any scripts, any capacity of the kernel's  *)
(* queue and any number of events and reloads.                             *)
(***************************************************************************)
EXTENDS Daemon, WellFoundedInduction, TLAPS

----------------------------------------------------------------------------
(* Induction.                                                              *)

LEMMA Least ==
  ASSUME NEW T \in SUBSET Nat, T # {}
  PROVE  \E n \in T : \A m \in T : n <= m
<1> DEFINE R == {p \in Nat \X Nat : p[1] < p[2]}
<1>1. IsWellFoundedOn(R, Nat)
  BY NatLessThanWellFounded DEF OpToRel
<1>2. \A m, n \in Nat : <<m, n>> \notin R => n <= m
  OBVIOUS
<1> HIDE DEF R
<1>3. \E n \in T : \A m \in T : <<m, n>> \notin R
  BY <1>1, WFMin
<1>4. QED
  BY <1>2, <1>3

(* A set that is closed under the successor holds all numbers to n.        *)
LEMMA UpTo ==
  ASSUME NEW n \in Nat, NEW P, 0 \in P, \A i \in 1 .. n : i - 1 \in P => i \in P
  PROVE  \A i \in 0 .. n : i \in P
<1> DEFINE T == {i \in 0 .. n : i \notin P}
<1> SUFFICES ASSUME T # {} PROVE FALSE
  OBVIOUS
<1>1. T \in SUBSET Nat
  OBVIOUS
<1>2. PICK i \in T : \A j \in T : i <= j
  <2> HIDE DEF T
  <2> QED BY <1>1, Least
<1>3. i \in 1 .. n /\ i - 1 \in 0 .. n /\ i - 1 \notin T
  BY <1>2
<1>4. QED
  BY <1>2, <1>3

(* The functions the two scans are written as exist.                       *)
Scans(f, n, a, step) == f = [i \in 0 .. n |-> IF i = 0 THEN a ELSE step[<<i, f[i - 1]>>]]

LEMMA ScanExists ==
  ASSUME NEW n \in Nat, NEW S, NEW a \in S, NEW step \in [(1 .. n) \X S -> S]
  PROVE  \E f \in [0 .. n -> S] : Scans(f, n, a, step)
<1> DEFINE P == {k \in 0 .. n : \E f \in [0 .. k -> S] : Scans(f, k, a, step)}
<1>1. 0 \in P
  <2>1. [i \in 0 .. 0 |-> a] \in [0 .. 0 -> S]
    OBVIOUS
  <2>2. Scans([i \in 0 .. 0 |-> a], 0, a, step)
    BY DEF Scans
  <2>3. QED
    BY <2>1, <2>2
<1>2. ASSUME NEW k \in 1 .. n, k - 1 \in P PROVE k \in P
  <2>1. PICK f \in [0 .. k - 1 -> S] : Scans(f, k - 1, a, step)
    BY <1>2
  <2> DEFINE v == step[<<k, f[k - 1]>>]
             g == [i \in 0 .. k |-> IF i = k THEN v ELSE f[i]]
  <2>2. v \in S
    OBVIOUS
  <2>3. g \in [0 .. k -> S]
    BY <2>2
  <2>4. g[0] = a
    BY <2>1 DEF Scans
  <2>5. ASSUME NEW i \in 1 .. k - 1 PROVE g[i] = step[<<i, g[i - 1]>>]
    BY <2>1 DEF Scans
  <2>6. g[k] = step[<<k, g[k - 1]>>]
    <3>1. k - 1 \in 0 .. k /\ k - 1 # k /\ k \in 0 .. k
      OBVIOUS
    <3>2. g[k] = v /\ g[k - 1] = f[k - 1]
      BY <3>1
    <3>3. QED
      BY <3>2
  <2>7. Scans(g, k, a, step)
    <3> HIDE DEF g
    <3>1. ASSUME NEW i \in 0 .. k
          PROVE  g[i] = IF i = 0 THEN a ELSE step[<<i, g[i - 1]>>]
      <4>1. i = 0 \/ i = k \/ i \in 1 .. k - 1
        OBVIOUS
      <4>2. QED
        BY <2>4, <2>5, <2>6, <4>1
    <3>2. g = [i \in 0 .. k |-> g[i]]
      BY <2>3
    <3>3. QED
      BY <3>1, <3>2 DEF Scans
  <2>8. QED
    BY <2>3, <2>7
<1>3. n \in P
  <2> HIDE DEF P
  <2> QED BY <1>1, <1>2, UpTo
<1>4. QED
  BY <1>3

----------------------------------------------------------------------------
(* The ring.                                                               *)

(* The capacity of the ring is positive, and no trigger is longer.         *)
LEMMA CapacityCovers ==
  ASSUME NEW list \in Seq(Hotstrings)
  PROVE  /\ RingCapacity(list) \in Nat \ {0}
         /\ \A i \in DOMAIN list : Len(list[i].trigger) <= RingCapacity(list)
<1> USE MatchingAssumption
<1> DEFINE n == Len(list)
           length == [i \in 1 .. n |-> Len(list[i].trigger)]
           step == [p \in (1 .. n) \X Nat |-> IF length[p[1]] > p[2] THEN length[p[1]] ELSE p[2]]
           IsLongest(f) == f = [i \in 0 .. n |->
                                  IF i = 0 THEN MinTrigger
                                  ELSE IF Len(list[i].trigger) > f[i - 1]
                                         THEN Len(list[i].trigger)
                                         ELSE f[i - 1]]
           longest == CHOOSE f : IsLongest(f)
<1>1. n \in Nat /\ DOMAIN list = 1 .. n /\ \A i \in 1 .. n : list[i] \in Hotstrings
  OBVIOUS
<1>2. \A i \in 1 .. n : Len(list[i].trigger) \in Nat
  BY <1>1 DEF Hotstrings
<1>3. length \in [1 .. n -> Nat] /\ \A i \in 1 .. n : length[i] = Len(list[i].trigger)
  BY <1>2
<1>4. step \in [(1 .. n) \X Nat -> Nat]
  BY <1>3
<1>5. PICK f \in [0 .. n -> Nat] : Scans(f, n, MinTrigger, step)
  <2> HIDE DEF step, n
  <2> QED BY <1>1, <1>4, ScanExists
<1>6. IsLongest(f)
  <2>1. \A i \in 1 .. n : f[i - 1] \in Nat
    <3>1. \A i \in 1 .. n : i - 1 \in 0 .. n
      BY <1>1
    <3> HIDE DEF n
    <3>2. QED
      BY <1>5, <3>1
  <2>2. \A i \in 1 .. n : step[<<i, f[i - 1]>>] =
          IF Len(list[i].trigger) > f[i - 1] THEN Len(list[i].trigger) ELSE f[i - 1]
    BY <1>3, <2>1
  <2> HIDE DEF step
  <2>3. \A i \in 0 .. n : i # 0 => i \in 1 .. n
    BY <1>1
  <2>4. QED
    BY <1>5, <2>2, <2>3 DEF Scans
<1>7. IsLongest(longest)
  <2> HIDE DEF IsLongest
  <2> QED BY <1>6
<1>8. RingCapacity(list) = longest[n] + RingSlack
  BY DEF RingCapacity
<1> HIDE DEF longest
<1>9. longest[0] = MinTrigger
  BY <1>1, <1>7
<1>10. \A i \in 1 .. n : longest[i] =
          IF length[i] > longest[i - 1] THEN length[i] ELSE longest[i - 1]
  BY <1>1, <1>3, <1>7
<1> DEFINE P == {i \in 0 .. n : /\ longest[i] \in Nat \ {0}
                                /\ \A j \in 1 .. i : length[j] <= longest[i]}
<1> HIDE DEF length, n
<1>11. 0 \in P
  BY <1>1, <1>9
<1>12. ASSUME NEW i \in 1 .. n, i - 1 \in P PROVE i \in P
  <2>1. /\ longest[i - 1] \in Nat \ {0}
        /\ \A j \in 1 .. i - 1 : length[j] <= longest[i - 1]
        /\ length[i] \in Nat /\ \A j \in 1 .. i : length[j] \in Nat
    BY <1>1, <1>3, <1>12
  <2>2. longest[i] \in Nat \ {0} /\ longest[i] >= longest[i - 1] /\ longest[i] >= length[i]
    BY <1>10, <2>1
  <2>3. \A j \in 1 .. i : length[j] <= longest[i]
    BY <1>1, <2>1, <2>2
  <2>4. QED
    BY <1>1, <2>2, <2>3
<1>13. n \in P
  <2> HIDE DEF P
  <2>1. \A i \in 0 .. n : i \in P
    BY <1>1, <1>11, <1>12, UpTo
  <2>2. QED
    BY <1>1, <2>1
<1>14. QED
  BY <1>1, <1>3, <1>8, <1>13

(* What a suffix holds.                                                    *)
LEMMA SuffixWhole ==
  ASSUME NEW s \in Seq(Keys), NEW n \in Nat, Len(s) <= n
  PROVE  Suffix(s, n) = s
<1>1. (IF Len(s) > n THEN Len(s) - n + 1 ELSE 1) = 1
  OBVIOUS
<1>2. Suffix(s, n) = SubSeq(s, 1, Len(s))
  BY <1>1 DEF Suffix
<1>3. SubSeq(s, 1, Len(s)) = s
  OBVIOUS
<1>4. QED
  BY <1>2, <1>3

LEMMA SuffixLast ==
  ASSUME NEW s \in Seq(Keys), NEW n \in Nat, Len(s) >= n
  PROVE  /\ Suffix(s, n) \in Seq(Keys) /\ Len(Suffix(s, n)) = n
         /\ \A i \in 1 .. n : Suffix(s, n)[i] = s[Len(s) - n + i]
<1> DEFINE m == Len(s) - n + 1
<1>1. (IF Len(s) > n THEN Len(s) - n + 1 ELSE 1) = m
  OBVIOUS
<1>2. Suffix(s, n) = SubSeq(s, m, Len(s))
  BY <1>1 DEF Suffix
<1>3. /\ m \in Int /\ m >= 1 /\ m <= Len(s) + 1 /\ Len(s) - m + 1 = n
      /\ \A i \in 1 .. n : m + i - 1 = Len(s) - n + i
  OBVIOUS
<1> HIDE DEF m
<1>4. /\ SubSeq(s, m, Len(s)) \in Seq(Keys)
      /\ Len(SubSeq(s, m, Len(s))) = n
  BY <1>3
<1>5. \A i \in 1 .. n : SubSeq(s, m, Len(s))[i] = s[m + i - 1]
  BY <1>3
<1>6. \A i \in 1 .. n : SubSeq(s, m, Len(s))[i] = s[Len(s) - n + i]
  BY <1>3, <1>5
<1>7. QED
  BY <1>2, <1>4, <1>6

LEMMA SuffixTyped ==
  ASSUME NEW s \in Seq(Keys), NEW n \in Nat
  PROVE  Suffix(s, n) \in Seq(Keys) /\ Len(Suffix(s, n)) <= n
<1>1. CASE Len(s) <= n
  BY <1>1, SuffixWhole
<1>2. CASE Len(s) >= n
  BY <1>2, SuffixLast
<1>3. QED
  BY <1>1, <1>2

LEMMA SuffixEmpty ==
  ASSUME NEW n \in Nat
  PROVE  Suffix(<<>>, n) = <<>>
<1>1. <<>> \in Seq(Keys) /\ Len(<<>>) <= n
  OBVIOUS
<1>2. QED
  BY <1>1, SuffixWhole

(* What a push does to the keys remembered: they stay the last ones typed. *)
LEMMA PushSuffix ==
  ASSUME NEW history \in Seq(Keys), NEW k \in Keys, NEW size \in Nat \ {0}
  PROVE  Push(Suffix(history, size), k, size) = Suffix(Append(history, k), size)
<1> DEFINE recent == Suffix(history, size)
           longer == Append(history, k)
           right == Suffix(longer, size)
<1>1. /\ Len(history) \in Nat /\ Len(longer) = Len(history) + 1
      /\ longer \in Seq(Keys)
      /\ \A i \in 1 .. Len(history) : longer[i] = history[i]
      /\ longer[Len(history) + 1] = k
  OBVIOUS
<1> HIDE DEF longer
<1>2. recent \in Seq(Keys) /\ right \in Seq(Keys)
  BY <1>1, SuffixTyped
<1>3. CASE Len(history) >= size
  <2>1. /\ Len(recent) = size
        /\ \A i \in 1 .. size : recent[i] = history[Len(history) - size + i]
    BY <1>3, SuffixLast
  <2>2. /\ Len(right) = size
        /\ \A i \in 1 .. size : right[i] = longer[Len(history) - size + 1 + i]
    <3>1. Len(longer) >= size /\ Len(longer) - size = Len(history) - size + 1
      BY <1>1, <1>3
    <3>2. /\ Len(right) = size
          /\ \A i \in 1 .. size : right[i] = longer[Len(longer) - size + i]
      BY <1>1, <3>1, SuffixLast
    <3>3. \A i \in 1 .. size :
             Len(longer) - size + i = Len(history) - size + 1 + i
      BY <1>1
    <3>4. QED
      BY <3>2, <3>3
  <2> HIDE DEF recent, right
  <2>3. Push(recent, k, size) = Append(Tail(recent), k)
    BY <2>1 DEF Push
  <2>4. /\ Append(Tail(recent), k) \in Seq(Keys)
        /\ Len(Append(Tail(recent), k)) = size
        /\ \A i \in 1 .. size - 1 : Append(Tail(recent), k)[i] = recent[i + 1]
        /\ Append(Tail(recent), k)[size] = k
    <3>1. recent # <<>>
      BY <1>2, <2>1
    <3>2. /\ Tail(recent) \in Seq(Keys) /\ Len(Tail(recent)) = size - 1
          /\ \A i \in 1 .. size - 1 : Tail(recent)[i] = recent[i + 1]
      BY <1>2, <2>1, <3>1
    <3>3. QED
      BY <3>2
  <2>5. ASSUME NEW i \in 1 .. size PROVE Append(Tail(recent), k)[i] = right[i]
    <3>1. CASE i = size
      BY <1>1, <1>3, <2>2, <2>4, <3>1
    <3>2. CASE i # size
      <4>1. i \in 1 .. size - 1 /\ i + 1 \in 1 .. size
        BY <3>2
      <4>2. Append(Tail(recent), k)[i] = history[Len(history) - size + (i + 1)]
        BY <2>1, <2>4, <4>1
      <4>3. /\ Len(history) - size + (i + 1) \in 1 .. Len(history)
            /\ Len(history) - size + (i + 1) = Len(history) - size + 1 + i
        <5>1. \A l \in Nat : l >= size => /\ l - size + (i + 1) \in 1 .. l
                                         /\ l - size + (i + 1) = l - size + 1 + i
          BY <4>1
        <5>2. QED
          BY <1>1, <1>3, <5>1
      <4>4. QED
        BY <1>1, <2>2, <4>2, <4>3
    <3>3. QED
      BY <3>1, <3>2
  <2>6. Append(Tail(recent), k) = right
    BY <1>2, <2>2, <2>4, <2>5
  <2>7. QED
    BY <2>3, <2>6 DEF recent, right, longer
<1>4. CASE Len(history) < size
  <2>1. recent = history
    BY <1>1, <1>4, SuffixWhole
  <2>2. right = longer
    <3>1. Len(longer) <= size
      BY <1>1, <1>4
    <3>2. QED
      BY <1>1, <3>1, SuffixWhole
  <2>3. Push(history, k, size) = longer
    BY <1>1, <1>4 DEF Push, longer
  <2>4. QED
    BY <2>1, <2>2, <2>3 DEF longer
<1>5. QED
  BY <1>1, <1>3, <1>4

(* A trigger that is no longer than the ring ends the ring when it ends    *)
(* everything that was typed.                                              *)
LEMMA EndsAlike ==
  ASSUME NEW history \in Seq(Keys), NEW size \in Nat \ {0},
         NEW trigger \in Seq(Keys), Len(trigger) <= size
  PROVE  EndsWith(Suffix(history, size), trigger) <=> EndsWith(history, trigger)
<1> DEFINE recent == Suffix(history, size)
<1>1. Len(history) \in Nat /\ Len(trigger) \in Nat
  OBVIOUS
<1>2. CASE Len(history) > size
  <2>1. /\ Len(recent) = size
        /\ \A i \in 1 .. size : recent[i] = history[Len(history) - size + i]
    BY <1>2, SuffixLast
  <2> HIDE DEF recent
  <2>2. ASSUME NEW i \in 1 .. Len(trigger)
        PROVE  recent[Len(recent) - Len(trigger) + i] = history[Len(history) - Len(trigger) + i]
    <3>1. size - Len(trigger) + i \in 1 .. size
      BY <1>1
    <3>2. Len(history) - size + (size - Len(trigger) + i) = Len(history) - Len(trigger) + i
      BY <1>1
    <3>3. QED
      BY <2>1, <3>1, <3>2
  <2>3. EndsWith(recent, trigger) <=> EndsWith(history, trigger)
    <3>1. EndsWith(recent, trigger) <=>
            \A i \in 1 .. Len(trigger) : recent[Len(recent) - Len(trigger) + i] = trigger[i]
      BY <2>1 DEF EndsWith
    <3>2. EndsWith(history, trigger) <=>
            \A i \in 1 .. Len(trigger) : history[Len(history) - Len(trigger) + i] = trigger[i]
      BY <1>1, <1>2 DEF EndsWith
    <3>3. QED
      BY <2>2, <3>1, <3>2
  <2>4. QED
    BY <2>3 DEF recent
<1>3. CASE Len(history) <= size
  BY <1>3, SuffixWhole
<1>4. QED
  BY <1>1, <1>2, <1>3

----------------------------------------------------------------------------
(* The choice of a hotstring.                                              *)

(* The scan finds the first of the longest triggers that fire, or none.    *)
IsBest(list, keys, down, i) ==
    /\ i \in DOMAIN list /\ Fires(list[i], keys, down)
    /\ \A j \in DOMAIN list : Fires(list[j], keys, down) =>
           \/ Len(list[i].trigger) > Len(list[j].trigger)
           \/ Len(list[i].trigger) = Len(list[j].trigger) /\ i <= j

LEMMA ScanFindsBest ==
  ASSUME NEW list \in Seq(Hotstrings), NEW keys, NEW down
  PROVE  LET i == FindMatch(list, keys, down)
         IN  IF \E j \in DOMAIN list : Fires(list[j], keys, down)
               THEN IsBest(list, keys, down, i)
               ELSE i = 0
<1> DEFINE n == Len(list)
           length == [i \in 1 .. n |-> Len(list[i].trigger)]
           fires == {i \in 1 .. n : Fires(list[i], keys, down)}
           step == [p \in (1 .. n) \X (0 .. n) |->
                      IF p[1] \in fires /\ (p[2] = 0 \/ length[p[1]] > length[p[2]])
                        THEN p[1] ELSE p[2]]
           IsScan(f) == f = [i \in 0 .. n |->
                               IF i = 0 THEN 0
                               ELSE IF /\ Fires(list[i], keys, down)
                                       /\ \/ f[i - 1] = 0
                                          \/ Len(list[i].trigger) > Len(list[f[i - 1]].trigger)
                                      THEN i
                                      ELSE f[i - 1]]
           best == CHOOSE f : IsScan(f)
<1>1. n \in Nat /\ DOMAIN list = 1 .. n /\ \A i \in 1 .. n : list[i] \in Hotstrings
  OBVIOUS
<1>2. \A i \in 1 .. n : Len(list[i].trigger) \in Nat
  BY <1>1 DEF Hotstrings
<1>3. length \in [1 .. n -> Nat] /\ \A i \in 1 .. n : length[i] = Len(list[i].trigger)
  BY <1>2
<1>4. step \in [(1 .. n) \X (0 .. n) -> 0 .. n]
  BY <1>1
<1>5. PICK f \in [0 .. n -> 0 .. n] : Scans(f, n, 0, step)
  <2>1. 0 \in 0 .. n
    BY <1>1
  <2> HIDE DEF step, n
  <2>2. QED
    BY <1>1, <1>4, <2>1, ScanExists
<1>6. IsScan(f)
  <2>1. \A i \in 1 .. n : f[i - 1] \in 0 .. n
    <3>1. \A i \in 1 .. n : i - 1 \in 0 .. n
      BY <1>1
    <3> HIDE DEF n
    <3>2. QED
      BY <1>5, <3>1
  <2>2. ASSUME NEW i \in 1 .. n
        PROVE  step[<<i, f[i - 1]>>] =
                 IF /\ Fires(list[i], keys, down)
                    /\ \/ f[i - 1] = 0
                       \/ Len(list[i].trigger) > Len(list[f[i - 1]].trigger)
                   THEN i
                   ELSE f[i - 1]
    <3>1. f[i - 1] \in 0 .. n /\ (f[i - 1] # 0 => f[i - 1] \in 1 .. n)
      BY <1>1, <2>1
    <3>2. step[<<i, f[i - 1]>>] =
            IF i \in fires /\ (f[i - 1] = 0 \/ length[i] > length[f[i - 1]])
              THEN i ELSE f[i - 1]
      BY <3>1
    <3>3. QED
      BY <1>3, <3>1, <3>2
  <2> HIDE DEF step
  <2>3. \A i \in 0 .. n : i # 0 => i \in 1 .. n
    BY <1>1
  <2>4. QED
    BY <1>5, <2>2, <2>3 DEF Scans
<1>7. IsScan(best)
  <2> HIDE DEF IsScan
  <2> QED BY <1>6
<1>8. FindMatch(list, keys, down) = best[n]
  BY DEF FindMatch
<1> HIDE DEF best
<1>9. best[0] = 0
  BY <1>1, <1>7
<1>10. \A i \in 1 .. n : best[i] =
          IF /\ Fires(list[i], keys, down)
             /\ \/ best[i - 1] = 0
                \/ Len(list[i].trigger) > Len(list[best[i - 1]].trigger)
            THEN i
            ELSE best[i - 1]
  BY <1>1, <1>7
<1> DEFINE Found(i) ==
             IF \E j \in 1 .. i : j \in fires
               THEN /\ best[i] \in 1 .. i /\ best[i] \in fires
                    /\ \A j \in 1 .. i : j \in fires =>
                          \/ length[best[i]] > length[j]
                          \/ length[best[i]] = length[j] /\ best[i] <= j
               ELSE best[i] = 0
           P == {i \in 0 .. n : Found(i)}
<1>11. \A i \in 1 .. n : i \in fires <=> Fires(list[i], keys, down)
  OBVIOUS
<1> HIDE DEF length, fires, n
<1>12. 0 \in P
  BY <1>1, <1>9
<1>13. ASSUME NEW i \in 1 .. n, i - 1 \in P PROVE i \in P
  <2>0. Found(i - 1)
    <3> HIDE DEF Found
    <3> QED BY <1>13
  <2>1. i \in Nat /\ i >= 1 /\ i <= n /\ i \in 0 .. n
    BY <1>1
  <2>2. \A j \in 1 .. i : j \in 1 .. n /\ length[j] \in Nat /\ (j = i \/ j \in 1 .. i - 1)
    <3>1. \A j \in 1 .. i : j \in 1 .. n /\ (j = i \/ j \in 1 .. i - 1)
      BY <1>1, <2>1
    <3>2. \A j \in 1 .. n : length[j] \in Nat
      BY <1>3
    <3>3. QED
      BY <3>1, <3>2
  <2>3. \A j \in 1 .. i - 1 : j \in 1 .. i /\ j # i /\ j <= i
    BY <2>1
  <2>4. CASE \E j \in 1 .. i - 1 : j \in fires
    <3>1. /\ best[i - 1] \in 1 .. i - 1 /\ best[i - 1] \in fires
          /\ \A j \in 1 .. i - 1 : j \in fires =>
                \/ length[best[i - 1]] > length[j]
                \/ length[best[i - 1]] = length[j] /\ best[i - 1] <= j
      BY <2>0, <2>4
    <3>2. best[i] = IF i \in fires /\ length[i] > length[best[i - 1]] THEN i ELSE best[i - 1]
      <4>1. best[i - 1] \in 1 .. n /\ best[i - 1] # 0
        BY <2>2, <2>3, <3>1
      <4>2. /\ Len(list[i].trigger) = length[i]
            /\ Len(list[best[i - 1]].trigger) = length[best[i - 1]]
        BY <1>3, <4>1
      <4>3. QED
        BY <1>10, <1>11, <4>1, <4>2
    <3>3. length[best[i - 1]] \in Nat /\ length[i] \in Nat
      BY <2>1, <2>2, <2>3, <3>1
    <3>4. CASE i \in fires /\ length[i] > length[best[i - 1]]
      <4>1. best[i] = i
        BY <3>2, <3>4
      <4>2. \A j \in 1 .. i - 1 : j \in fires => length[i] > length[j]
        BY <2>2, <2>3, <3>1, <3>3, <3>4
      <4>3. Found(i)
        BY <2>1, <2>2, <3>4, <4>1, <4>2
      <4>4. QED
        BY <2>1, <4>3
    <3>5. CASE ~(i \in fires /\ length[i] > length[best[i - 1]])
      <4>1. best[i] = best[i - 1]
        BY <3>2, <3>5
      <4>2. i \in fires => \/ length[best[i]] > length[i]
                          \/ (length[best[i]] = length[i] /\ best[i] <= i)
        BY <2>1, <2>3, <3>1, <3>3, <3>5, <4>1
      <4>3. Found(i)
        BY <2>1, <2>2, <2>3, <3>1, <4>1, <4>2
      <4>4. QED
        BY <2>1, <4>3
    <3>6. QED
      BY <3>4, <3>5
  <2>5. CASE ~\E j \in 1 .. i - 1 : j \in fires
    <3>1. best[i - 1] = 0
      BY <2>0, <2>5
    <3>2. best[i] = IF i \in fires THEN i ELSE 0
      BY <1>10, <1>11, <3>1
    <3>3. Found(i)
      BY <2>1, <2>2, <2>5, <3>2
    <3>4. QED
      BY <2>1, <3>3
  <2>6. QED
    BY <2>4, <2>5
<1>14. n \in P
  <2> HIDE DEF P
  <2>1. \A i \in 0 .. n : i \in P
    BY <1>1, <1>12, <1>13, UpTo
  <2>2. QED
    BY <1>1, <2>1
<1>15. CASE \E j \in 1 .. n : j \in fires
  <2>1. /\ best[n] \in 1 .. n /\ best[n] \in fires
        /\ \A j \in 1 .. n : j \in fires =>
              \/ length[best[n]] > length[j]
              \/ length[best[n]] = length[j] /\ best[n] <= j
    BY <1>14, <1>15
  <2>2. IsBest(list, keys, down, best[n])
    BY <1>1, <1>3, <1>11, <2>1 DEF IsBest
  <2>3. QED
    BY <1>1, <1>8, <1>11, <1>15, <2>2
<1>16. CASE ~\E j \in 1 .. n : j \in fires
  BY <1>1, <1>8, <1>11, <1>14, <1>16
<1>17. QED
  BY <1>15, <1>16

LEMMA MatchInScript ==
  ASSUME NEW list \in Seq(Hotstrings), NEW keys, NEW down,
         FindMatch(list, keys, down) # 0
  PROVE  list[FindMatch(list, keys, down)] \in Hotstrings
<1>1. FindMatch(list, keys, down) \in DOMAIN list
  BY ScanFindsBest DEF IsBest
<1>2. QED
  BY <1>1

(* For any script, the ring of its capacity chooses as all that was typed  *)
(* since the ring was last empty would: the bound on the memory is exact.  *)
THEOREM ChoosesAlike ==
  ASSUME NEW list \in Seq(Hotstrings), NEW history \in Seq(Keys), NEW down
  PROVE  FindMatch(list, Suffix(history, RingCapacity(list)), down)
           = BestMatch(list, history, down)
<1> DEFINE size == RingCapacity(list)
           recent == Suffix(history, size)
           i == FindMatch(list, recent, down)
           fires == {j \in DOMAIN list : Fires(list[j], history, down)}
           better(j, k) ==
               \/ Len(list[j].trigger) > Len(list[k].trigger)
               \/ Len(list[j].trigger) = Len(list[k].trigger) /\ j <= k
<1>1. size \in Nat \ {0} /\ \A j \in DOMAIN list : Len(list[j].trigger) <= size
  BY CapacityCovers
<1>2. \A j \in DOMAIN list : list[j].trigger \in Seq(Keys) /\ Len(list[j].trigger) \in Nat
  <2>1. \A j \in DOMAIN list : list[j] \in Hotstrings
    OBVIOUS
  <2>2. QED
    BY <2>1 DEF Hotstrings
<1> HIDE DEF size
<1>3. ASSUME NEW j \in DOMAIN list
      PROVE  Fires(list[j], recent, down) <=> Fires(list[j], history, down)
  BY <1>1, <1>2, EndsAlike DEF Fires
<1>4. BestMatch(list, history, down) =
        IF fires = {} THEN 0 ELSE CHOOSE j \in fires : \A k \in fires : better(j, k)
  BY DEF BestMatch
<1>5. CASE fires = {}
  <2>1. ~\E j \in DOMAIN list : Fires(list[j], recent, down)
    BY <1>3, <1>5
  <2>2. i = 0
    <3> HIDE DEF recent
    <3> QED BY <2>1, ScanFindsBest
  <2>3. QED
    BY <1>4, <1>5, <2>2 DEF size
<1>6. CASE fires # {}
  <2>1. IsBest(list, recent, down, i)
    <3>1. \E j \in DOMAIN list : Fires(list[j], recent, down)
      BY <1>3, <1>6
    <3> HIDE DEF recent
    <3>2. QED
      BY <3>1, ScanFindsBest
  <2> DEFINE b == CHOOSE j \in fires : \A k \in fires : better(j, k)
  <2>2. i \in fires /\ \A k \in fires : better(i, k)
    <3> HIDE DEF i, recent
    <3> QED BY <1>3, <2>1 DEF IsBest
  <2>3. b \in fires /\ \A k \in fires : better(b, k)
    <3> HIDE DEF better, fires, i
    <3> QED BY <2>2
  <2>4. better(i, b) /\ better(b, i)
    <3> HIDE DEF better, fires, i, b
    <3> QED BY <2>2, <2>3
  <2>5. i \in DOMAIN list /\ b \in DOMAIN list /\ DOMAIN list = 1 .. Len(list)
    <3> HIDE DEF i, b
    <3> QED BY <2>2, <2>3
  <2>6. i = b
    <3> HIDE DEF i, b
    <3> QED BY <1>2, <2>4, <2>5
  <2>7. QED
    BY <1>4, <1>6, <2>6 DEF size
<1>7. QED
  BY <1>5, <1>6

----------------------------------------------------------------------------
(* The invariant.                                                          *)

(* The parts of TypeOK, each within the reach of one prover.               *)
PlainTyped ==
    /\ held \subseteq Keys /\ stale \subseteq Keys /\ pressed \subseteq Modifiers
    /\ main \in MainStates /\ ipc \in IpcStates /\ gStop \in BOOLEAN
    /\ events \in 0 .. MaxEvents /\ generation \in 0 .. MaxReloads
    /\ script \in Scripts /\ incoming \in Scripts
    /\ ipc \in {"parse", "swap"} => generation < MaxReloads
KernelTyped == kernel \in Seq(Events) /\ Len(kernel) <= QueueSize /\ event \in Events
MatchedTyped ==
    /\ matched = NoMatch \/ matched[1] \in Jobs
    /\ main = "dispatch" => matched # NoMatch
WorkerTyped ==
    /\ pending \in Seq(Jobs)
    /\ active = <<>> \/ \E job \in Jobs : active = <<job>>
    /\ doomed \in BOOLEAN /\ overrun \in {0, 1} /\ open \in BOOLEAN
    /\ doomed => active # <<>>

(* The ring is the end of what was typed, and its capacity the script's.   *)
RingWell ==
    /\ typed \in Seq(Keys)
    /\ ring \in Seq(Keys) /\ Len(ring) <= capacity
    /\ capacity = RingCapacity(script)
    /\ IF main \in {"dispatch", "clear"}
         THEN typed = <<>>
         ELSE ring = Suffix(typed, capacity)

(* Of every modifier, the last event that was not lost tells whether it is *)
(* held: it waits in the kernel's queue, or is in hand, or was recorded.   *)
Tells(e) == e.value = IF e.code \in held THEN 1 ELSE 0
LastOf(i) == \A j \in DOMAIN kernel : j > i => kernel[j].code # kernel[i].code
QueueTells ==
    \A i \in DOMAIN kernel : kernel[i].code \in Modifiers /\ LastOf(i) => Tells(kernel[i])
Settled == Modifiers \ (stale \cup Codes(kernel))
HandTells == main = "track" /\ event.code \in Settled => Tells(event)
RecordTells ==
    \A m \in pressed \cap Settled : m \in held \/ (main = "track" /\ event.code = m)
ModifiersWell == QueueTells /\ HandTells /\ RecordTells

(* At most one job that is not cancelled is older than the reloads allow,  *)
(* and it comes alone.                                                     *)
Live == IF doomed THEN pending ELSE active \o pending
Limit == IF ipc \in {"parse", "swap"} THEN generation ELSE generation - 1
FewOld(jobs, limit) ==
    \A i, j \in DOMAIN jobs :
        jobs[i].generation < limit /\ jobs[j].generation < limit => i = j
JobsYoung ==
    /\ FewOld(Live, Limit)
    /\ main = "dispatch" /\ matched[1].generation < Limit => Live = <<>>

IInv ==
    /\ PlainTyped /\ KernelTyped /\ MatchedTyped /\ WorkerTyped
    /\ RingWell /\ ModifiersWell /\ JobsYoung

LEMMA TypeParts == IInv => TypeOK
<1> SUFFICES ASSUME IInv PROVE TypeOK
  OBVIOUS
<1>1. Worker!TypeOK
  <2>1. <<>> \in Seq(Jobs) /\ Len(<<>>) <= 1
    OBVIOUS
  <2>2. \A job \in Jobs : <<job>> \in Seq(Jobs) /\ Len(<<job>>) <= 1
    OBVIOUS
  <2>3. active \in Seq(Jobs) /\ Len(active) <= 1
    <3> HIDE DEF Jobs
    <3> QED BY <2>1, <2>2 DEF IInv, WorkerTyped
  <2>4. QED
    BY <2>3 DEF IInv, WorkerTyped, Worker!TypeOK
<1>2. QED
  BY <1>1 DEF IInv, PlainTyped, KernelTyped, MatchedTyped, RingWell, TypeOK

LEMMA ScriptsTyped == \A s \in Scripts : s \in Seq(Hotstrings) /\ RingCapacity(s) \in Nat \ {0}
  BY DaemonAssumption, CapacityCovers

----------------------------------------------------------------------------
LEMMA InitHolds == Init => IInv
<1> SUFFICES ASSUME Init PROVE IInv
  OBVIOUS
<1> USE DaemonAssumption, MatchingAssumption
<1>1. <<>> \in Seq(Keys) /\ <<>> \in Seq(Events) /\ <<>> \in Seq(Jobs) /\ Len(<<>>) = 0
  OBVIOUS
<1>2. PlainTyped
  <2>1. gStop \in BOOLEAN /\ main \in MainStates /\ ipc \in IpcStates
    BY DEF Init, MainStates, IpcStates
  <2>2. 0 \in 0 .. MaxEvents /\ 0 \in 0 .. MaxReloads
    OBVIOUS
  <2>3. QED
    BY <2>1, <2>2 DEF Init, PlainTyped
<1>3. KernelTyped
  <2>1. NoEvent \in Events
    BY DEF NoEvent, Events
  <2>2. QED
    BY <1>1, <2>1 DEF Init, KernelTyped
<1>4. MatchedTyped
  BY DEF Init, MatchedTyped
<1>5. WorkerTyped
  BY <1>1 DEF Init, Worker!Init, WorkerTyped
<1>6. RingWell
  <2>1. RingCapacity(InitialScript) \in Nat \ {0}
    BY ScriptsTyped
  <2>2. Suffix(<<>>, RingCapacity(InitialScript)) = <<>>
    BY <2>1, SuffixEmpty
  <2>3. QED
    BY <1>1, <2>1, <2>2 DEF Init, RingWell
<1>7. ModifiersWell
  <2>1. DOMAIN kernel = {}
    BY DEF Init
  <2>2. QED
    BY <2>1 DEF Init, ModifiersWell, QueueTells, HandTells, RecordTells
<1>8. JobsYoung
  <2>1. Live = <<>>
    BY DEF Init, Worker!Init, Live
  <2>2. DOMAIN <<>> = {}
    OBVIOUS
  <2>3. QED
    BY <2>1, <2>2 DEF Init, JobsYoung, FewOld
<1>9. QED
  BY <1>2, <1>3, <1>4, <1>5, <1>6, <1>7, <1>8 DEF IInv

----------------------------------------------------------------------------
(* The types.                                                              *)

LEMMA EventOf ==
  ASSUME NEW k \in Keys, NEW v \in {0, 1, 2}
  PROVE  LET e == [code |-> k, value |-> v]
         IN  e \in Events /\ e.code = k /\ e.value = v
  BY DEF Events

LEMMA CodesTyped ==
  ASSUME NEW q \in Seq(Events)
  PROVE  Codes(q) \subseteq Keys
<1>1. \A i \in DOMAIN q : q[i] \in Events
  OBVIOUS
<1>2. QED
  BY <1>1 DEF Codes, Events

LEMMA StrikeTyped ==
  ASSUME IInv, NEW k \in Keys, NEW v \in {0, 1, 2}, Strike(k, v)
  PROVE  /\ KernelTyped' /\ stale' \subseteq Keys /\ events' \in 0 .. MaxEvents
         /\ UNCHANGED <<mainVars, sharedVars, ipcVars, generation, typed, serviceVars>>
<1> DEFINE e == [code |-> k, value |-> v]
<1>0. /\ kernel \in Seq(Events) /\ Len(kernel) <= QueueSize /\ event \in Events
      /\ stale \subseteq Keys /\ events \in 0 .. MaxEvents
      /\ QueueSize \in Nat /\ QueueSize >= 1 /\ MaxEvents \in Nat
  BY DaemonAssumption DEF IInv, PlainTyped, KernelTyped
<1>1. e \in Events
  BY EventOf
<1>2. /\ UNCHANGED <<mainVars, sharedVars, ipcVars, generation, typed, serviceVars>>
      /\ events < MaxEvents /\ events' = events + 1
      /\ IF Len(kernel) < QueueSize
           THEN kernel' = Append(kernel, e) /\ UNCHANGED stale
           ELSE /\ kernel' \in {<<e>>, <<>>}
                /\ stale' = (stale \cup Codes(Append(kernel, e))) \ Codes(kernel')
  BY DEF Strike
<1> HIDE DEF e
<1>3. /\ Append(kernel, e) \in Seq(Events) /\ Len(Append(kernel, e)) = Len(kernel) + 1
      /\ <<e>> \in Seq(Events) /\ Len(<<e>>) = 1
      /\ <<>> \in Seq(Events) /\ Len(<<>>) = 0
      /\ Len(kernel) \in Nat
  BY <1>0, <1>1
<1>4. kernel' \in Seq(Events) /\ Len(kernel') <= QueueSize
  <2>1. CASE Len(kernel) < QueueSize
    BY <1>0, <1>2, <1>3, <2>1
  <2>2. CASE ~(Len(kernel) < QueueSize)
    <3>1. kernel' = <<e>> \/ kernel' = <<>>
      BY <1>2, <2>2
    <3>2. Len(<<e>>) <= QueueSize /\ Len(<<>>) <= QueueSize
      BY <1>0, <1>3
    <3>3. <<e>> \in Seq(Events) /\ <<>> \in Seq(Events)
      BY <1>3
    <3>4. QED
      BY <3>1, <3>2, <3>3
  <2>3. QED
    BY <2>1, <2>2
<1>5. event' \in Events
  BY <1>0, <1>2 DEF mainVars
<1>6. stale' \subseteq Keys
  BY <1>0, <1>2, <1>3, CodesTyped
<1>7. events' \in 0 .. MaxEvents
  BY <1>0, <1>2
<1>8. QED
  BY <1>2, <1>4, <1>5, <1>6, <1>7 DEF KernelTyped

LEMMA PlainKept == IInv /\ [Next]_vars => PlainTyped'
<1> SUFFICES ASSUME IInv, [Next]_vars PROVE PlainTyped'
  OBVIOUS
<1> USE DaemonAssumption DEF PlainTyped, MainStates, IpcStates, Leaving, worldVars, mainVars,
        sharedVars, ipcVars, historyVars
<1>0. PlainTyped
  BY DEF IInv
<1>1. CASE KeyboardStep
  <2>1. PICK k \in Keys : PressKey(k) \/ ReleaseKey(k) \/ RepeatKey(k)
    BY <1>1 DEF KeyboardStep
  <2>2. /\ held' \subseteq Keys /\ stale' \subseteq Keys /\ events' \in 0 .. MaxEvents
        /\ UNCHANGED <<mainVars, sharedVars, ipcVars, generation>>
    BY <1>0, <2>1, StrikeTyped DEF PressKey, ReleaseKey, RepeatKey
  <2>3. QED
    BY <1>0, <2>2
<1>2. CASE PollReady
  BY <1>0, <1>2 DEF PollReady
<1>3. CASE ReadEvent
  BY <1>0, <1>3 DEF ReadEvent
<1>4. CASE Track
  <2>1. pressed' \subseteq Modifiers
    <3>1. pressed \subseteq Modifiers
      BY <1>0
    <3>2. \/ pressed' = pressed
          \/ event.code \in Modifiers /\ pressed' = pressed \cup {event.code}
          \/ pressed' = pressed \ {event.code}
      BY <1>4 DEF Track
    <3>3. QED
      BY <3>1, <3>2
  <2>2. main' = "forward" /\ UNCHANGED <<worldVars, gStop, script, ipcVars, generation, stale>>
    BY <1>4 DEF Track
  <2>3. QED
    BY <1>0, <2>1, <2>2
<1>5. CASE Forward
  BY <1>0, <1>5 DEF Forward
<1>6. CASE Match
  BY <1>0, <1>6 DEF Match
<1>7. CASE Dispatch
  BY <1>0, <1>7 DEF Dispatch
<1>8. CASE Clear
  BY <1>0, <1>8 DEF Clear
<1>9. CASE LeaveLoop
  BY <1>0, <1>9 DEF LeaveLoop
<1>10. CASE StopServer
  BY <1>0, <1>10 DEF StopServer
<1>11. CASE Unwind
  BY <1>0, <1>11 DEF Unwind
<1>12. CASE CloseWorker
  BY <1>0, <1>12 DEF CloseWorker
<1>13. CASE JoinWorker
  BY <1>0, <1>13 DEF JoinWorker
<1>14. CASE DeviceFails
  BY <1>0, <1>14 DEF DeviceFails
<1>15. CASE Serve
  BY <1>0, <1>15 DEF Serve
<1>16. CASE Answer
  BY <1>0, <1>16 DEF Answer
<1>17. CASE BeginReload
  BY <1>0, <1>17 DEF BeginReload
<1>18. CASE ParseScript
  BY <1>0, <1>18 DEF ParseScript
<1>19. CASE SwapScript
  BY <1>0, <1>19 DEF SwapScript
<1>20. CASE Stop
  BY <1>0, <1>20 DEF Stop
<1>21. CASE WorkerStep
  BY <1>0, <1>21 DEF WorkerStep
<1>22. CASE UNCHANGED vars
  BY <1>0, <1>22 DEF vars
<1>23. QED
  BY <1>1, <1>2, <1>3, <1>4, <1>5, <1>6, <1>7, <1>8, <1>9, <1>10, <1>11, <1>12, <1>13,
     <1>14, <1>15, <1>16, <1>17, <1>18, <1>19, <1>20, <1>21, <1>22
     DEF Next, MainStep, IpcStep, Command

(* What the steps that are not about events, matches or reloads leave      *)
(* alone, a cancellation at the end of the daemon included.                *)
Loading == ipc \in {"parse", "swap"}
Firing == main \in {"dispatch", "clear"}
Idles ==
    /\ UNCHANGED <<held, kernel, stale, event, matched, script, ring, capacity, pressed,
                   generation, typed>>
    /\ main' = "track" <=> main = "track"
    /\ main' = "dispatch" <=> main = "dispatch"
    /\ Firing' <=> Firing
    /\ Loading' <=> Loading
    /\ \/ UNCHANGED <<pending, active, doomed, overrun, open>>
       \/ Worker!CancelAll
       \/ Worker!Close

LEMMA Steps ==
  ASSUME [Next]_vars
  PROVE  \/ KeyboardStep \/ ReadEvent \/ Track \/ Match \/ Dispatch \/ Clear
         \/ BeginReload \/ ParseScript \/ SwapScript \/ WorkerStep \/ Idles
<1> USE DEF Idles, Loading, Firing, worldVars, mainVars, sharedVars, ipcVars, historyVars,
        serviceVars
<1>1. CASE PollReady
  BY <1>1 DEF PollReady
<1>2. CASE Forward
  BY <1>2 DEF Forward
<1>3. CASE LeaveLoop
  BY <1>3 DEF LeaveLoop
<1>4. CASE StopServer
  BY <1>4 DEF StopServer
<1>5. CASE Unwind
  BY <1>5 DEF Unwind
<1>6. CASE CloseWorker
  BY <1>6 DEF CloseWorker
<1>7. CASE JoinWorker
  BY <1>7 DEF JoinWorker
<1>8. CASE DeviceFails
  BY <1>8 DEF DeviceFails
<1>9. CASE Serve
  BY <1>9 DEF Serve
<1>10. CASE Answer
  BY <1>10 DEF Answer
<1>11. CASE Stop
  BY <1>11 DEF Stop
<1>12. CASE UNCHANGED vars
  BY <1>12 DEF vars
<1>13. QED
  BY <1>1, <1>2, <1>3, <1>4, <1>5, <1>6, <1>7, <1>8, <1>9, <1>10, <1>11, <1>12
     DEF Next, MainStep, IpcStep, Command

LEMMA KernelKept == IInv /\ [Next]_vars => KernelTyped'
<1> SUFFICES ASSUME IInv, [Next]_vars PROVE KernelTyped'
  OBVIOUS
<1>0. KernelTyped
  BY DEF IInv
<1>1. CASE KeyboardStep
  BY <1>1, StrikeTyped DEF KeyboardStep, PressKey, ReleaseKey, RepeatKey
<1>2. CASE ReadEvent
  <2>1. kernel # <<>> /\ event' = Head(kernel) /\ kernel' = Tail(kernel)
    BY <1>2 DEF ReadEvent
  <2>2. Head(kernel) \in Events /\ Tail(kernel) \in Seq(Events) /\ Len(Tail(kernel)) <= Len(kernel)
    BY <1>0, <2>1 DEF KernelTyped
  <2>3. QED
    BY <1>0, <2>1, <2>2, DaemonAssumption DEF KernelTyped
<1>3. ASSUME UNCHANGED <<kernel, event>> PROVE KernelTyped'
  BY <1>0, <1>3 DEF KernelTyped
<1>4. QED
  BY <1>1, <1>2, <1>3, Steps DEF Track, Match, Dispatch, Clear, BeginReload, ParseScript,
     SwapScript, WorkerStep, Idles, worldVars, mainVars

LEMMA MatchedKept == IInv /\ [Next]_vars => MatchedTyped'
<1> SUFFICES ASSUME IInv, [Next]_vars PROVE MatchedTyped'
  OBVIOUS
<1>0. MatchedTyped
  BY DEF IInv
<1>1. CASE KeyboardStep
  <2>1. UNCHANGED mainVars
    BY <1>1 DEF KeyboardStep, PressKey, ReleaseKey, RepeatKey, Strike
  <2>2. QED
    BY <1>0, <2>1 DEF MatchedTyped, mainVars
<1>2. CASE Match
  <2> DEFINE best == FindMatch(script, ring, pressed)
  <2>1. CASE best = 0
    BY <1>0, <1>2, <2>1 DEF Match, MatchedTyped
  <2>2. CASE best # 0
    <3>1. script[best] \in Hotstrings
      BY <2>2, ScriptsTyped, MatchInScript DEF IInv, PlainTyped
    <3>2. generation \in Nat
      BY DaemonAssumption DEF IInv, PlainTyped
    <3>3. [of |-> script[best], generation |-> generation] \in Jobs
      BY <3>1, <3>2 DEF Jobs
    <3>4. matched' = <<[of |-> script[best], generation |-> generation]>>
      BY <1>2, <2>2 DEF Match
    <3> HIDE DEF best
    <3>5. matched' # NoMatch /\ matched'[1] \in Jobs
      BY <3>3, <3>4 DEF NoMatch
    <3>6. QED
      BY <3>5 DEF MatchedTyped
  <2>3. QED
    BY <2>1, <2>2
<1>3. CASE Dispatch
  BY <1>3 DEF Dispatch, MatchedTyped
<1>4. ASSUME matched' = matched, main' = "dispatch" => main = "dispatch" PROVE MatchedTyped'
  BY <1>0, <1>4 DEF MatchedTyped
<1>5. QED
  BY <1>1, <1>2, <1>3, <1>4, Steps DEF ReadEvent, Track, Clear, BeginReload, ParseScript,
     SwapScript, WorkerStep, Idles, mainVars

----------------------------------------------------------------------------
(* The worker, as what it promises.                                        *)
LEMMA NoJobs == <<>> \in Seq(Jobs)
  OBVIOUS

LEMMA CancelKeeps ==
  ASSUME WorkerTyped, Worker!CancelAll
  PROVE  WorkerTyped' /\ Live' = <<>>
<1>1. WorkerTyped'
  <2>1. doomed' = (active # <<>>) /\ pending' = <<>> /\ UNCHANGED <<active, overrun, open>>
    BY DEF Worker!CancelAll
  <2>2. pending' \in Seq(Jobs)
    BY <2>1, NoJobs
  <2>3. doomed' \in BOOLEAN
    BY <2>1
  <2>4. QED
    BY <2>1, <2>2, <2>3 DEF WorkerTyped
<1>2. Live' = <<>>
  <2>1. <<>> \o <<>> = <<>>
    OBVIOUS
  <2>2. QED
    BY <2>1 DEF Worker!CancelAll, Live
<1>3. QED
  BY <1>1, <1>2

LEMMA LiveTyped ==
  ASSUME WorkerTyped
  PROVE  Live \in Seq(Jobs)
<1>1. active \in Seq(Jobs)
  <2>1. \A job \in Jobs : <<job>> \in Seq(Jobs)
    OBVIOUS
  <2> HIDE DEF Jobs
  <2>2. QED
    BY <2>1, NoJobs DEF WorkerTyped
<1>2. QED
  BY <1>1 DEF Live, WorkerTyped

LEMMA AcceptKeeps ==
  ASSUME WorkerTyped, NEW job \in Jobs, Worker!Accept(job)
  PROVE  WorkerTyped' /\ Live' = Append(Live, job)
<1>1. /\ pending' = Append(pending, job) /\ UNCHANGED <<active, doomed, overrun, open>>
      /\ pending \in Seq(Jobs) /\ (active = <<>> \/ \E a \in Jobs : active = <<a>>)
  BY DEF Worker!Accept, WorkerTyped
<1>2. Append(pending, job) \in Seq(Jobs)
  BY <1>1
<1>3. WorkerTyped'
  BY <1>1, <1>2 DEF WorkerTyped
<1>4. CASE doomed
  <2>1. doomed'
    BY <1>1, <1>4
  <2>2. Live = pending /\ Live' = pending'
    BY <1>4, <2>1 DEF Live
  <2>3. QED
    BY <1>1, <1>3, <2>2
<1>5. CASE ~doomed
  <2>1. CASE active = <<>>
    <3>1. <<>> \o pending = pending /\ <<>> \o Append(pending, job) = Append(pending, job)
      BY <1>1, <1>2
    <3>2. QED
      BY <1>1, <1>3, <1>5, <2>1, <3>1 DEF Live
  <2>2. ASSUME NEW a \in Jobs, active = <<a>> PROVE Live' = Append(Live, job)
    <3>1. <<a>> \o Append(pending, job) = Append(<<a>> \o pending, job)
      BY <1>1
    <3>2. QED
      BY <1>1, <1>5, <2>2, <3>1 DEF Live
  <2>3. QED
    BY <1>1, <1>3, <2>1, <2>2
<1>6. QED
  BY <1>3, <1>4, <1>5

(* A step of the worker takes a job from the front or none.                *)
LEMMA WorkKeeps ==
  ASSUME WorkerTyped, Worker!Begin \/ Worker!Unit(FALSE) \/ Worker!End
  PROVE  WorkerTyped' /\ (Live' = Live \/ (Live # <<>> /\ Live' = Tail(Live)))
<1>0. /\ pending \in Seq(Jobs) /\ (active = <<>> \/ \E a \in Jobs : active = <<a>>)
      /\ doomed \in BOOLEAN /\ overrun \in {0, 1} /\ open \in BOOLEAN
      /\ doomed => active # <<>>
  BY DEF WorkerTyped
<1>1. CASE Worker!Begin
  <2>1. /\ active = <<>> /\ pending # <<>> /\ active' = <<Head(pending)>>
        /\ pending' = Tail(pending) /\ UNCHANGED <<doomed, overrun, open>>
    BY <1>1 DEF Worker!Begin
  <2>2. /\ Head(pending) \in Jobs /\ Tail(pending) \in Seq(Jobs)
        /\ <<Head(pending)>> \o Tail(pending) = pending /\ <<>> \o pending = pending
    BY <1>0, <2>1
  <2>3. ~doomed
    BY <1>0, <2>1
  <2>4. Live' = Live
    BY <2>1, <2>2, <2>3 DEF Live
  <2>5. WorkerTyped'
    BY <1>0, <2>1, <2>2, <2>3 DEF WorkerTyped
  <2>6. QED
    BY <2>4, <2>5
<1>2. CASE Worker!Unit(FALSE)
  <2>1. /\ active # <<>> /\ active' = active /\ pending' = pending /\ open' = open
        /\ doomed' = (doomed /\ ~FALSE) /\ overrun' \in {0, 1}
    BY <1>2 DEF Worker!Unit
  <2>2. doomed' = doomed
    BY <1>0, <2>1
  <2>3. WorkerTyped'
    BY <1>0, <2>1, <2>2 DEF WorkerTyped
  <2>4. Live' = Live
    BY <2>1, <2>2 DEF Live
  <2>5. QED
    BY <2>3, <2>4
<1>3. CASE Worker!End
  <2>1. /\ active # <<>> /\ active' = <<>> /\ pending' = pending /\ open' = open
        /\ doomed' = FALSE /\ overrun' = 0
    BY <1>3 DEF Worker!End, Worker!Finish, Worker!Unit
  <2>2. WorkerTyped'
    BY <1>0, <2>1 DEF WorkerTyped
  <2>3. Live' = pending
    <3>1. <<>> \o pending = pending
      BY <1>0
    <3>2. QED
      BY <2>1, <3>1 DEF Live
  <2>4. CASE doomed
    <3>1. Live = pending
      BY <2>4 DEF Live
    <3>2. QED
      BY <2>2, <2>3, <3>1
  <2>5. CASE ~doomed
    <3>1. PICK a \in Jobs : active = <<a>>
      BY <1>0, <2>1
    <3>2. Live = <<a>> \o pending
      BY <2>5, <3>1 DEF Live
    <3>3. <<a>> \o pending # <<>> /\ Tail(<<a>> \o pending) = pending
      BY <1>0
    <3>4. QED
      BY <2>2, <2>3, <3>2, <3>3
  <2>6. QED
    BY <2>4, <2>5
<1>4. QED
  BY <1>1, <1>2, <1>3

LEMMA CloseKeeps ==
  ASSUME WorkerTyped, Worker!Close
  PROVE  WorkerTyped' /\ Live' = Live
<1>1. UNCHANGED <<pending, active, doomed, overrun>> /\ open' = FALSE
  BY DEF Worker!Close
<1>2. WorkerTyped'
  BY <1>1 DEF WorkerTyped
<1>3. Live' = Live
  BY <1>1 DEF Live
<1>4. QED
  BY <1>2, <1>3

LEMMA WorkerStays ==
  ASSUME WorkerTyped, UNCHANGED <<pending, active, doomed, overrun, open>>
  PROVE  WorkerTyped' /\ Live' = Live
<1>1. WorkerTyped'
  BY DEF WorkerTyped
<1>2. Live' = Live
  BY DEF Live
<1>3. QED
  BY <1>1, <1>2

(* What a step does to the jobs that are not cancelled.                    *)
Accepts == /\ main = "dispatch" /\ matched[1] \in Jobs
           /\ Live' = Append(Live, matched[1])
Drops == Live' = <<>>
Shrinks == Live' = Live \/ (Live # <<>> /\ Live' = Tail(Live))

LEMMA WorkerKept ==
  ASSUME IInv, [Next]_vars
  PROVE  /\ WorkerTyped'
         /\ \/ Dispatch /\ (Accepts \/ Drops)
            \/ BeginReload /\ Drops
            \/ Idles /\ (Drops \/ Live' = Live)
            \/ WorkerStep /\ Shrinks
            \/ Live' = Live /\ (KeyboardStep \/ ReadEvent \/ Track \/ Match \/ Clear
                                \/ ParseScript \/ SwapScript)
<1>0. WorkerTyped /\ MatchedTyped
  BY DEF IInv
<1>1. CASE Dispatch
  <2>1. main = "dispatch" /\ matched[1] \in Jobs
    BY <1>0, <1>1 DEF Dispatch, MatchedTyped
  <2>2. Worker!CancelAll \/ Worker!Accept(matched[1])
    BY <1>1 DEF Dispatch
  <2>3. CASE Worker!CancelAll
    BY <1>0, <1>1, <2>3, CancelKeeps DEF Drops
  <2>4. CASE Worker!Accept(matched[1])
    <3>1. ASSUME NEW job \in Jobs, Worker!Accept(job)
          PROVE  WorkerTyped' /\ Live' = Append(Live, job)
      BY <1>0, <3>1, AcceptKeeps
    <3>2. WorkerTyped' /\ Live' = Append(Live, matched[1])
      BY <2>1, <2>4, <3>1
    <3>3. QED
      BY <1>1, <2>1, <3>2 DEF Accepts
  <2>5. QED
    BY <2>2, <2>3, <2>4
<1>2. CASE BeginReload
  BY <1>0, <1>2, CancelKeeps DEF BeginReload, Drops
<1>3. CASE Idles
  BY <1>0, <1>3, CancelKeeps, CloseKeeps, WorkerStays DEF Idles, Drops
<1>4. CASE WorkerStep
  BY <1>0, <1>4, WorkKeeps DEF WorkerStep, Shrinks
<1>5. CASE KeyboardStep \/ ReadEvent \/ Track \/ Match \/ Clear \/ ParseScript \/ SwapScript
  <2>1. UNCHANGED <<pending, active, doomed, overrun, open>>
    BY <1>5 DEF KeyboardStep, PressKey, ReleaseKey, RepeatKey, Strike, ReadEvent, Track, Match,
       Clear, ParseScript, SwapScript, serviceVars
  <2>2. QED
    BY <1>0, <1>5, <2>1, WorkerStays
<1>6. QED
  BY <1>1, <1>2, <1>3, <1>4, <1>5, Steps

----------------------------------------------------------------------------
(* The ring.                                                               *)
LEMMA RingKept == IInv /\ [Next]_vars => RingWell'
<1> SUFFICES ASSUME IInv, [Next]_vars PROVE RingWell'
  OBVIOUS
<1>0. /\ RingWell /\ script \in Scripts /\ incoming \in Scripts /\ event.code \in Keys
      /\ capacity \in Nat \ {0} /\ RingCapacity(incoming) \in Nat \ {0}
  BY ScriptsTyped DEF IInv, PlainTyped, KernelTyped, Events, RingWell
<1>1. <<>> \in Seq(Keys) /\ Len(<<>>) = 0
  OBVIOUS
<1>2. CASE Track
  <2>1. /\ ring \in Seq(Keys) /\ typed \in Seq(Keys) /\ ring = Suffix(typed, capacity)
    BY <1>0, <1>2 DEF RingWell, Track
  <2>2. CASE event.value # 1
    <3>1. UNCHANGED <<ring, typed, script, capacity>> /\ main' = "forward" /\ main = "track"
      BY <1>2, <2>2 DEF Track
    <3>2. QED
      BY <1>0, <2>1, <3>1 DEF RingWell
  <2>3. CASE event.value = 1
    <3>1. /\ ring' = Push(ring, event.code, capacity) /\ typed' = Append(typed, event.code)
          /\ UNCHANGED <<script, capacity>> /\ main' = "forward"
      BY <1>2, <2>3 DEF Track
    <3>2. ASSUME NEW k \in Keys, NEW c \in Nat \ {0}, NEW t \in Seq(Keys)
          PROVE  /\ Append(t, k) \in Seq(Keys)
                 /\ Push(Suffix(t, c), k, c) = Suffix(Append(t, k), c)
                 /\ Suffix(Append(t, k), c) \in Seq(Keys) /\ Len(Suffix(Append(t, k), c)) <= c
      <4>1. Append(t, k) \in Seq(Keys) /\ c \in Nat
        OBVIOUS
      <4>2. QED
        BY <4>1, PushSuffix, SuffixTyped
    <3>3. /\ typed' \in Seq(Keys) /\ ring' = Suffix(typed', capacity)
          /\ ring' \in Seq(Keys) /\ Len(ring') <= capacity
      BY <1>0, <2>1, <3>1, <3>2
    <3>4. QED
      BY <1>0, <3>1, <3>3 DEF RingWell
  <2>4. QED
    BY <2>2, <2>3
<1>3. CASE Match
  <2>1. main = "match" /\ UNCHANGED <<ring, script, capacity>>
    BY <1>3 DEF Match, sharedVars
  <2>2. (main' = "read" /\ typed' = typed) \/ (main' = "dispatch" /\ typed' = <<>>)
    BY <1>3 DEF Match
  <2>3. QED
    BY <1>0, <1>1, <2>1, <2>2 DEF RingWell
<1>4. CASE Clear
  <2>1. /\ main = "clear" /\ main' = "read" /\ ring' = <<>>
        /\ UNCHANGED <<script, capacity, typed>>
    BY <1>4 DEF Clear, historyVars
  <2>2. Suffix(<<>>, capacity) = <<>>
    BY <1>0, SuffixEmpty
  <2>3. QED
    BY <1>0, <1>1, <2>1, <2>2 DEF RingWell
<1>5. CASE SwapScript
  <2>1. /\ ring' = <<>> /\ typed' = <<>> /\ script' = incoming
        /\ capacity' = RingCapacity(incoming) /\ main' = main
    BY <1>5 DEF SwapScript, mainVars
  <2>2. Suffix(<<>>, RingCapacity(incoming)) = <<>>
    BY <1>0, SuffixEmpty
  <2>3. QED
    BY <1>0, <1>1, <2>1, <2>2 DEF RingWell
<1>6. ASSUME UNCHANGED <<ring, typed, script, capacity>>, Firing' <=> Firing
      PROVE  RingWell'
  BY <1>0, <1>6 DEF RingWell, Firing
<1>7. QED
  BY <1>2, <1>3, <1>4, <1>5, <1>6, Steps DEF KeyboardStep, PressKey, ReleaseKey, RepeatKey, Strike,
     ReadEvent, Dispatch, BeginReload, ParseScript, WorkerStep, Idles, Firing, mainVars, sharedVars,
     historyVars

----------------------------------------------------------------------------
(* The modifiers.                                                          *)

(* An event of k that tells of it, and of no other key.                    *)
Truthful(k, value) ==
    /\ k \in Modifiers => value = IF k \in held' THEN 1 ELSE 0
    /\ \A m \in Keys \ {k} : m \in held' <=> m \in held

LEMMA CodesOf ==
  ASSUME NEW q, NEW i \in DOMAIN q
  PROVE  q[i].code \in Codes(q)
  BY DEF Codes

LEMMA QueueStruck ==
  ASSUME IInv, NEW k \in Keys, NEW v \in {0, 1, 2}, Strike(k, v), Truthful(k, v)
  PROVE  QueueTells' /\ Settled' \subseteq Settled \ {k}
<1> DEFINE e == [code |-> k, value |-> v]
<1>0. QueueTells /\ kernel \in Seq(Events)
  BY DEF IInv, ModifiersWell, KernelTyped
<1>1. e \in Events /\ e.code = k /\ e.value = v
  BY EventOf
<1>2. \/ kernel' = Append(kernel, e) /\ stale' = stale
      \/ /\ kernel' = <<e>> \/ kernel' = <<>>
         /\ stale' = (stale \cup Codes(Append(kernel, e))) \ Codes(kernel')
  BY DEF Strike
<1> HIDE DEF e
<1>3. /\ Len(Append(kernel, e)) = Len(kernel) + 1 /\ Len(kernel) \in Nat
      /\ DOMAIN Append(kernel, e) = 1 .. Len(kernel) + 1 /\ DOMAIN kernel = 1 .. Len(kernel)
      /\ Append(kernel, e)[Len(kernel) + 1] = e
      /\ \A i \in DOMAIN kernel : Append(kernel, e)[i] = kernel[i] /\ kernel[i] \in Events
  BY <1>0, <1>1
<1>4. Codes(kernel) \cup {k} \subseteq Codes(Append(kernel, e))
  <2>1. Codes(kernel) \subseteq Codes(Append(kernel, e))
    <3>1. \A i \in DOMAIN kernel : i \in DOMAIN Append(kernel, e)
      BY <1>3
    <3>2. QED
      BY <1>3, <3>1 DEF Codes
  <2>2. Len(kernel) + 1 \in DOMAIN Append(kernel, e)
    BY <1>3
  <2>3. k \in Codes(Append(kernel, e))
    BY <1>1, <1>3, <2>2, CodesOf
  <2>4. QED
    BY <2>1, <2>3
<1>5. Settled' \subseteq Settled \ {k}
  <2>1. stale \cup Codes(kernel) \cup {k} \subseteq stale' \cup Codes(kernel')
    BY <1>2, <1>4
  <2>2. QED
    BY <2>1 DEF Settled, Codes
<1>7. CASE kernel' = Append(kernel, e)
  <2> SUFFICES ASSUME NEW i \in DOMAIN kernel', kernel'[i].code \in Modifiers, LastOf(i)'
               PROVE  kernel'[i].value = IF kernel'[i].code \in held' THEN 1 ELSE 0
    BY <1>5 DEF QueueTells, Tells
  <2>1. CASE i = Len(kernel) + 1
    <3>1. kernel'[i] = e
      BY <1>3, <1>7, <2>1
    <3>2. QED
      BY <1>1, <3>1 DEF Truthful
  <2>2. CASE i # Len(kernel) + 1
    <3>1. i \in DOMAIN kernel /\ kernel'[i] = kernel[i] /\ kernel[i] \in Events
      BY <1>3, <1>7, <2>2
    <3>2. kernel[i].code # k
      <4>1. Len(kernel) + 1 \in DOMAIN kernel' /\ Len(kernel) + 1 > i
        BY <1>3, <1>7, <3>1
      <4>2. kernel'[Len(kernel) + 1].code # kernel'[i].code
        BY <4>1 DEF LastOf
      <4>3. QED
        BY <1>1, <1>3, <1>7, <3>1, <4>2
    <3>3. LastOf(i)
      <4>1. \A j \in DOMAIN kernel : j \in DOMAIN kernel' /\ kernel'[j] = kernel[j]
        BY <1>3, <1>7
      <4>2. QED
        BY <3>1, <4>1 DEF LastOf
    <3>4. Tells(kernel[i]) /\ kernel[i].code \in Keys
      BY <1>0, <3>1, <3>3 DEF QueueTells, Events
    <3>5. QED
      BY <3>1, <3>2, <3>4 DEF Tells, Truthful
  <2>3. QED
    BY <2>1, <2>2
<1>8. CASE kernel' = <<e>>
  <2>1. \A i \in DOMAIN <<e>> : <<e>>[i] = e
    OBVIOUS
  <2>2. QED
    BY <1>1, <1>5, <1>8, <2>1 DEF QueueTells, Tells, Truthful
<1>9. CASE kernel' = <<>>
  <2>1. DOMAIN <<>> = {}
    OBVIOUS
  <2>2. QED
    BY <1>5, <1>9, <2>1 DEF QueueTells
<1>10. QED
  BY <1>2, <1>5, <1>7, <1>8, <1>9

LEMMA StruckModifiers ==
  ASSUME IInv, NEW k \in Keys, NEW v \in {0, 1, 2}, Strike(k, v), Truthful(k, v)
  PROVE  ModifiersWell'
<1>0. /\ HandTells /\ RecordTells /\ UNCHANGED <<main, event, pressed>>
      /\ Settled \subseteq Keys
  BY MatchingAssumption DEF IInv, ModifiersWell, Strike, mainVars, sharedVars, Settled
<1>1. QueueTells' /\ Settled' \subseteq Settled \ {k}
  BY QueueStruck
<1>2. HandTells'
  BY <1>0, <1>1 DEF HandTells, Tells, Truthful
<1>3. RecordTells'
  BY <1>0, <1>1 DEF RecordTells, Truthful
<1>4. QED
  BY <1>1, <1>2, <1>3 DEF ModifiersWell

LEMMA ReadModifiers ==
  ASSUME IInv, ReadEvent
  PROVE  ModifiersWell'
<1>0. QueueTells /\ RecordTells /\ kernel \in Seq(Events)
  BY DEF IInv, ModifiersWell, KernelTyped
<1>1. /\ kernel # <<>> /\ main = "read" /\ main' = "track"
      /\ event' = Head(kernel) /\ kernel' = Tail(kernel) /\ stale' = stale \ {Head(kernel).code}
      /\ held' = held /\ pressed' = pressed
  BY DEF ReadEvent, sharedVars
<1>2. /\ Len(kernel) \in Nat /\ Len(kernel) > 0 /\ Head(kernel) = kernel[1]
      /\ DOMAIN kernel = 1 .. Len(kernel) /\ DOMAIN Tail(kernel) = 1 .. Len(kernel) - 1
      /\ \A i \in DOMAIN Tail(kernel) : i + 1 \in DOMAIN kernel /\ Tail(kernel)[i] = kernel[i + 1]
  BY <1>0, <1>1
<1>3. QueueTells'
  <2> SUFFICES ASSUME NEW i \in DOMAIN kernel', kernel'[i].code \in Modifiers, LastOf(i)'
               PROVE  kernel'[i].value = IF kernel'[i].code \in held' THEN 1 ELSE 0
    BY DEF QueueTells, Tells
  <2>1. i + 1 \in DOMAIN kernel /\ kernel'[i] = kernel[i + 1]
    BY <1>1, <1>2
  <2>2. ASSUME NEW j \in DOMAIN kernel, j > i + 1 PROVE kernel[j].code # kernel[i + 1].code
    <3>1. j - 1 \in DOMAIN kernel' /\ j - 1 > i /\ (j - 1) + 1 = j /\ i \in Int
      BY <1>1, <1>2, <2>2
    <3>2. kernel'[j - 1] = kernel[j]
      BY <1>1, <1>2, <3>1
    <3>3. kernel'[j - 1].code # kernel'[i].code
      BY <3>1 DEF LastOf
    <3>4. QED
      BY <2>1, <3>2, <3>3
  <2>3. LastOf(i + 1)
    BY <2>2 DEF LastOf
  <2>4. Tells(kernel[i + 1])
    BY <1>0, <2>1, <2>3 DEF QueueTells
  <2>5. QED
    BY <1>1, <2>1, <2>4 DEF Tells
<1>4. HandTells'
  <2> SUFFICES ASSUME event'.code \in Settled'
               PROVE  event'.value = IF event'.code \in held' THEN 1 ELSE 0
    BY DEF HandTells, Tells
  <2>1. event' = kernel[1] /\ 1 \in DOMAIN kernel
    BY <1>1, <1>2
  <2>2. kernel[1].code \in Modifiers /\ kernel[1].code \notin Codes(kernel')
    BY <2>1 DEF Settled, Codes
  <2>3. ASSUME NEW j \in DOMAIN kernel, j > 1 PROVE kernel[j].code # kernel[1].code
    <3>1. j - 1 \in DOMAIN kernel' /\ (j - 1) + 1 = j
      BY <1>1, <1>2, <2>3
    <3>2. kernel'[j - 1] = kernel[j]
      BY <1>1, <1>2, <3>1
    <3>3. kernel'[j - 1].code \in Codes(kernel')
      BY <3>1, CodesOf
    <3>4. QED
      BY <2>2, <3>2, <3>3
  <2>4. LastOf(1)
    BY <2>3 DEF LastOf
  <2>5. Tells(kernel[1])
    BY <1>0, <2>1, <2>2, <2>4 DEF QueueTells
  <2>6. QED
    BY <1>1, <2>1, <2>5 DEF Tells
<1>5. Codes(kernel) \subseteq Codes(kernel') \cup {Head(kernel).code}
  <2> SUFFICES ASSUME NEW j \in DOMAIN kernel
               PROVE  kernel[j].code \in Codes(kernel') \/ kernel[j].code = kernel[1].code
    BY <1>2 DEF Codes
  <2>1. CASE j # 1
    <3>1. j - 1 \in DOMAIN kernel' /\ (j - 1) + 1 = j
      BY <1>1, <1>2, <2>1
    <3>2. kernel'[j - 1] = kernel[j]
      BY <1>1, <1>2, <3>1
    <3>3. kernel'[j - 1].code \in Codes(kernel')
      BY <3>1, CodesOf
    <3>4. QED
      BY <3>2, <3>3
  <2>2. QED
    BY <2>1
<1>6. RecordTells'
  <2> SUFFICES ASSUME NEW m \in pressed', m \in Settled' PROVE m \in held' \/ event'.code = m
    BY <1>1 DEF RecordTells
  <2>1. m \in pressed /\ m \in Modifiers /\ m \notin stale' /\ m \notin Codes(kernel')
    BY <1>1 DEF Settled, Codes
  <2>2. CASE m = Head(kernel).code
    BY <1>1, <2>2
  <2>3. CASE m # Head(kernel).code
    <3>1. m \in Settled
      BY <1>1, <1>5, <2>1, <2>3 DEF Settled
    <3>2. QED
      BY <1>0, <1>1, <2>1, <3>1 DEF RecordTells
  <2>4. QED
    BY <2>2, <2>3
<1>7. QED
  BY <1>3, <1>4, <1>6 DEF ModifiersWell

LEMMA ModifiersKept == IInv /\ [Next]_vars => ModifiersWell'
<1> SUFFICES ASSUME IInv, [Next]_vars PROVE ModifiersWell'
  OBVIOUS
<1>0. QueueTells /\ HandTells /\ RecordTells /\ held \subseteq Keys
  BY DEF IInv, ModifiersWell, PlainTyped
<1>1. CASE KeyboardStep
  <2>1. PICK k \in Keys : PressKey(k) \/ ReleaseKey(k) \/ RepeatKey(k)
    BY <1>1 DEF KeyboardStep
  <2>2. CASE PressKey(k)
    <3>1. Strike(k, 1) /\ Truthful(k, 1)
      BY <2>2 DEF PressKey, Truthful
    <3>2. QED
      BY <3>1, StruckModifiers
  <2>3. CASE ReleaseKey(k)
    <3>1. Strike(k, 0) /\ Truthful(k, 0)
      BY <2>3 DEF ReleaseKey, Truthful
    <3>2. QED
      BY <3>1, StruckModifiers
  <2>4. CASE RepeatKey(k)
    <3>1. Strike(k, 2) /\ Truthful(k, 2)
      BY <2>4 DEF RepeatKey, Truthful
    <3>2. QED
      BY <3>1, StruckModifiers
  <2>5. QED
    BY <2>1, <2>2, <2>3, <2>4
<1>2. ASSUME UNCHANGED <<held, kernel, stale>>
      PROVE  QueueTells' /\ Settled' = Settled
  BY <1>0, <1>2 DEF QueueTells, Settled, Codes, Tells, LastOf
<1>3. CASE Track
  <2>1. /\ main = "track" /\ main' = "forward" /\ UNCHANGED <<held, kernel, stale>>
        /\ pressed' = IF event.code \in Modifiers /\ event.value = 1
                        THEN pressed \cup {event.code}
                      ELSE IF event.code \in Modifiers /\ event.value = 0
                        THEN pressed \ {event.code}
                      ELSE pressed
    BY <1>3 DEF Track, worldVars
  <2>2. QueueTells' /\ Settled' = Settled
    BY <1>2, <2>1
  <2>3. HandTells'
    BY <2>1 DEF HandTells
  <2>4. ASSUME NEW m \in pressed', m \in Settled PROVE m \in held
    <3>1. m \in Modifiers
      BY <2>4 DEF Settled
    <3>2. CASE m = event.code
      <4>1. event.value = IF m \in held THEN 1 ELSE 0
        BY <1>0, <2>1, <2>4, <3>2 DEF HandTells, Tells
      <4>2. event.value # 0
        BY <2>1, <3>1, <3>2
      <4>3. QED
        BY <4>1, <4>2
    <3>3. CASE m # event.code
      BY <1>0, <2>1, <2>4, <3>3 DEF RecordTells
    <3>4. QED
      BY <3>2, <3>3
  <2>5. RecordTells'
    BY <2>1, <2>2, <2>4 DEF RecordTells
  <2>6. QED
    BY <2>2, <2>3, <2>5 DEF ModifiersWell
<1>4. ASSUME UNCHANGED <<held, kernel, stale, event>>, main' = "track" <=> main = "track",
             pressed' \subseteq pressed
      PROVE  ModifiersWell'
  <2>1. QueueTells' /\ Settled' = Settled
    BY <1>2, <1>4
  <2>2. HandTells'
    BY <1>0, <1>4, <2>1 DEF HandTells, Tells
  <2>3. RecordTells'
    BY <1>0, <1>4, <2>1 DEF RecordTells
  <2>4. QED
    BY <2>1, <2>2, <2>3 DEF ModifiersWell
<1>5. CASE Match \/ Dispatch \/ Clear
  <2>1. /\ UNCHANGED <<held, kernel, stale, event, pressed>>
        /\ main \in {"match", "dispatch", "clear"} /\ main' \in {"read", "dispatch", "clear"}
    BY <1>5 DEF Match, Dispatch, Clear, worldVars, sharedVars, historyVars
  <2>2. QED
    BY <1>4, <2>1
<1>6. CASE BeginReload \/ ParseScript \/ SwapScript \/ WorkerStep
  <2>1. UNCHANGED <<held, kernel, stale, event, main>> /\ (pressed' = pressed \/ pressed' = {})
    BY <1>6 DEF BeginReload, ParseScript, SwapScript, WorkerStep, worldVars, mainVars, sharedVars,
       historyVars
  <2>2. QED
    BY <1>4, <2>1
<1>7. CASE Idles
  BY <1>4, <1>7 DEF Idles
<1>8. QED
  BY <1>1, <1>3, <1>5, <1>6, <1>7, ReadModifiers, Steps

----------------------------------------------------------------------------
(* The jobs.                                                               *)
LEMMA FewNone == \A limit : FewOld(<<>>, limit)
<1>1. DOMAIN <<>> = {}
  OBVIOUS
<1>2. QED
  BY <1>1 DEF FewOld

LEMMA FewTail ==
  ASSUME NEW q \in Seq(Jobs), q # <<>>, NEW limit, FewOld(q, limit)
  PROVE  FewOld(Tail(q), limit)
<1> SUFFICES ASSUME NEW i \in DOMAIN Tail(q), NEW j \in DOMAIN Tail(q),
                    Tail(q)[i].generation < limit, Tail(q)[j].generation < limit
             PROVE  i = j
  BY DEF FewOld
<1>1. /\ i + 1 \in DOMAIN q /\ j + 1 \in DOMAIN q /\ i \in Int /\ j \in Int
      /\ Tail(q)[i] = q[i + 1] /\ Tail(q)[j] = q[j + 1]
  <2> HIDE DEF Jobs
  <2> QED OBVIOUS
<1>2. i + 1 = j + 1
  BY <1>1 DEF FewOld
<1>3. QED
  BY <1>1, <1>2

LEMMA FewAppend ==
  ASSUME NEW q \in Seq(Jobs), NEW job \in Jobs, NEW limit,
         FewOld(q, limit), job.generation < limit => q = <<>>
  PROVE  FewOld(Append(q, job), limit)
<1> SUFFICES ASSUME NEW i \in DOMAIN Append(q, job), NEW j \in DOMAIN Append(q, job),
                    Append(q, job)[i].generation < limit,
                    Append(q, job)[j].generation < limit
             PROVE  i = j
  BY DEF FewOld
<1>1. /\ DOMAIN Append(q, job) = 1 .. Len(q) + 1 /\ DOMAIN q = 1 .. Len(q) /\ Len(q) \in Nat
      /\ Append(q, job)[Len(q) + 1] = job
      /\ \A k \in DOMAIN q : Append(q, job)[k] = q[k]
      /\ q = <<>> => Len(q) = 0
  <2> HIDE DEF Jobs
  <2> QED OBVIOUS
<1>2. CASE job.generation < limit
  BY <1>1, <1>2
<1>3. CASE ~(job.generation < limit)
  <2>1. i # Len(q) + 1 /\ j # Len(q) + 1
    BY <1>1, <1>3
  <2>2. i \in DOMAIN q /\ j \in DOMAIN q
    BY <1>1, <2>1
  <2>3. QED
    BY <1>1, <2>2 DEF FewOld
<1>4. QED
  BY <1>2, <1>3

LEMMA FewLess ==
  ASSUME NEW q \in Seq(Jobs), NEW l \in Int, NEW m \in Int, m <= l, FewOld(q, l)
  PROVE  FewOld(q, m)
<1>1. \A i \in DOMAIN q : q[i].generation \in Nat
  <2>1. \A i \in DOMAIN q : q[i] \in Jobs
    OBVIOUS
  <2>2. QED
    BY <2>1 DEF Jobs
<1>2. \A i \in DOMAIN q : q[i].generation < m => q[i].generation < l
  BY <1>1
<1>3. QED
  BY <1>2 DEF FewOld

LEMMA YoungKept == IInv /\ [Next]_vars => JobsYoung'
<1> SUFFICES ASSUME IInv, [Next]_vars PROVE JobsYoung'
  OBVIOUS
<1>0. /\ FewOld(Live, Limit)
      /\ main = "dispatch" /\ matched[1].generation < Limit => Live = <<>>
      /\ Live \in Seq(Jobs) /\ generation \in Nat /\ Limit \in Int
  BY LiveTyped, DaemonAssumption DEF IInv, JobsYoung, PlainTyped, Limit
<1>1. ASSUME Drops PROVE JobsYoung'
  <2>1. FewOld(Live', Limit')
    BY <1>1, FewNone DEF Drops
  <2>2. FewOld(Live, Limit)'
    BY <2>1 DEF FewOld
  <2>3. QED
    BY <1>1, <2>2 DEF Drops, JobsYoung
<1>2. ASSUME Live' = Live, Limit' = Limit, main' = "dispatch" => main = "dispatch",
             matched' = matched
      PROVE  JobsYoung'
  BY <1>0, <1>2 DEF JobsYoung, FewOld
<1>3. CASE Dispatch /\ Accepts
  <2>1. /\ main = "dispatch" /\ main' = "clear" /\ Limit' = Limit
        /\ matched[1] \in Jobs /\ Live' = Append(Live, matched[1])
    BY <1>3 DEF Dispatch, Accepts, Limit, ipcVars, historyVars
  <2>2. FewOld(Append(Live, matched[1]), Limit)
    BY <1>0, <2>1, FewAppend
  <2>3. FewOld(Live, Limit)'
    BY <2>1, <2>2 DEF FewOld
  <2>4. QED
    BY <2>1, <2>3 DEF JobsYoung
<1>4. CASE Idles /\ Live' = Live
  BY <1>2, <1>4 DEF Idles, Limit, Loading
<1>5. CASE WorkerStep /\ Shrinks
  <2>1. UNCHANGED <<main, matched>> /\ Limit' = Limit
    BY <1>5 DEF WorkerStep, Limit, mainVars, ipcVars, historyVars
  <2>2. CASE Live' = Live
    BY <1>2, <2>1, <2>2
  <2>3. CASE Live # <<>> /\ Live' = Tail(Live)
    <3>1. FewOld(Tail(Live), Limit)
      BY <1>0, <2>3, FewTail
    <3>2. FewOld(Live, Limit)'
      BY <2>1, <2>3, <3>1 DEF FewOld
    <3>3. QED
      BY <1>0, <2>1, <2>3, <3>2 DEF JobsYoung
  <2>4. QED
    BY <1>5, <2>2, <2>3 DEF Shrinks
<1>6. ASSUME Live' = Live, KeyboardStep \/ ReadEvent \/ Track \/ Clear PROVE JobsYoung'
  <2>1. UNCHANGED <<ipc, generation, matched>> /\ (main' = "dispatch" => main = "dispatch")
    BY <1>6 DEF KeyboardStep, PressKey, ReleaseKey, RepeatKey, Strike, ReadEvent, Track, Clear,
       mainVars, ipcVars, historyVars
  <2>2. QED
    BY <1>2, <1>6, <2>1 DEF Limit
<1>7. ASSUME Live' = Live, Match PROVE JobsYoung'
  <2>1. UNCHANGED <<ipc, generation>>
    BY <1>7 DEF Match, ipcVars
  <2>2. Limit' = Limit
    BY <2>1 DEF Limit
  <2>3. FewOld(Live, Limit)'
    BY <1>0, <1>7, <2>2 DEF FewOld
  <2>4. main' = "dispatch" => matched'[1].generation = generation
    BY <1>7 DEF Match
  <2>5. Limit <= generation
    BY <1>0 DEF Limit
  <2>6. QED
    BY <1>0, <2>2, <2>3, <2>4, <2>5 DEF JobsYoung
<1>8. ASSUME Live' = Live, ParseScript PROVE JobsYoung'
  <2>1. Limit' \in Int /\ Limit' <= Limit /\ UNCHANGED <<main, matched>>
    BY <1>0, <1>8 DEF ParseScript, Limit, mainVars, historyVars
  <2>2. FewOld(Live, Limit')
    BY <1>0, <2>1, FewLess
  <2>3. FewOld(Live, Limit)'
    BY <1>8, <2>2 DEF FewOld
  <2>4. main = "dispatch" => matched[1].generation \in Nat
    BY DEF IInv, MatchedTyped, Jobs
  <2>5. QED
    BY <1>0, <1>8, <2>1, <2>3, <2>4 DEF JobsYoung
<1>9. ASSUME Live' = Live, SwapScript PROVE JobsYoung'
  <2>1. ipc = "swap" /\ ipc' = "idle" /\ generation' = generation + 1 /\ UNCHANGED <<main, matched>>
    BY <1>9 DEF SwapScript, mainVars
  <2>2. Limit' = Limit
    BY <1>0, <2>1 DEF Limit
  <2>3. QED
    BY <1>2, <1>9, <2>1, <2>2
<1>10. QED
  BY <1>1, <1>3, <1>4, <1>5, <1>6, <1>7, <1>8, <1>9, WorkerKept

----------------------------------------------------------------------------
(* The theorems.                                                           *)

(* The invariant of every behaviour of the event loop, the IPC thread and  *)
(* the worker.                                                             *)
THEOREM Inductive == Spec => []IInv
<1>1. IInv /\ [Next]_vars => IInv'
  BY PlainKept, KernelKept, MatchedKept, WorkerKept, RingKept, ModifiersKept, YoungKept DEF IInv
<1>2. QED
  BY <1>1, InitHolds, PTL DEF Spec

(* Every variable of the event loop keeps its type; in particular a match  *)
(* is dispatched only when there is one, and the ring never outgrows the   *)
(* capacity of the script it serves (Daemon::handle_event, RingBuffer).    *)
THEOREM Typed == Spec => []TypeOK
  BY Inductive, TypeParts, PTL

(* The ring holds the most recent keys typed since the last match or       *)
(* reload, whenever handle_event is not between find_match and its clear.  *)
THEOREM RingRemembers == Spec => []RingExact
<1>1. IInv => RingExact
  BY DEF IInv, RingWell, RingExact
<1>2. QED
  BY <1>1, Inductive, PTL

(* find_match chooses on the bounded ring what it would choose on all the  *)
(* keys ever typed, whatever the scripts and however long their triggers.  *)
THEOREM MatchesExactly == Spec => []MatchExact
<1>1. IInv => MatchExact
  <2> SUFFICES ASSUME IInv, main = "match"
               PROVE  FindMatch(script, ring, pressed) = BestMatch(script, typed, pressed)
    BY DEF MatchExact
  <2>1. /\ script \in Seq(Hotstrings) /\ typed \in Seq(Keys) /\ pressed \subseteq Modifiers
        /\ ring = Suffix(typed, RingCapacity(script))
    BY ScriptsTyped DEF IInv, PlainTyped, RingWell
  <2>2. QED
    BY <2>1, ChoosesAlike
<1>2. QED
  BY <1>1, Inductive, PTL

(* When every event that was not lost has been read, the modifiers that    *)
(* pressed_keys_ holds are down, those of lost events apart.               *)
THEOREM ModifiersReal == Spec => []NoPhantomModifier
<1>1. IInv => NoPhantomModifier
  <2> SUFFICES ASSUME IInv, CaughtUp, NEW m \in pressed, m \notin stale PROVE m \in held
    BY DEF NoPhantomModifier
  <2>1. Codes(kernel) = {}
    <3>1. DOMAIN <<>> = {}
      OBVIOUS
    <3>2. QED
      BY <3>1 DEF CaughtUp, Codes
  <2>2. m \in Settled /\ main # "track"
    BY <2>1 DEF IInv, PlainTyped, Settled, CaughtUp
  <2>3. QED
    BY <2>2 DEF IInv, ModifiersWell, RecordTells
<1>2. QED
  BY <1>1, Inductive, PTL

(* At most one macro older than the previous script survives a reload, for *)
(* any number of reloads, any queue and any moment of handle_event.        *)
THEOREM AncientAlone == Spec => []AncientBound
<1>1. IInv => AncientBound
  <2> SUFFICES ASSUME IInv PROVE AncientBound
    OBVIOUS
  <2>1. /\ WorkerTyped /\ FewOld(Live, Limit) /\ generation \in Nat
    BY DaemonAssumption DEF IInv, JobsYoung, PlainTyped
  <2>2. Live \in Seq(Jobs) /\ Limit \in Int /\ generation - 1 \in Int /\ generation - 1 <= Limit
    BY <2>1, LiveTyped DEF Limit
  <2>3. FewOld(Live, generation - 1)
    BY <2>1, <2>2, FewLess
  <2>4. QED
    BY <2>3 DEF AncientBound, FewOld, Live
<1>2. QED
  BY <1>1, Inductive, PTL
=============================================================================
