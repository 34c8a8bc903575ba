------------------------- MODULE MacroContextProofs -------------------------
(***************************************************************************)
(* What counters and variables promise, for any daemons, names and         *)
(* scripts, and any number of starts, loads, macros and increments; and    *)
(* what the texts become that are made of them, with the expressions that  *)
(* are in them.                                                            *)
(***************************************************************************)
EXTENDS MacroContextReference, WellFoundedInduction, TLAPS

----------------------------------------------------------------------------
(* The invariant.                                                          *)
Ints == IntMin .. IntMax

(* The texts a variable can have: none, what a script assigns, a number.   *)
Assigned == UNION {{Scripts[s].globals[v] : v \in DOMAIN Scripts[s].globals} :
                      s \in DOMAIN Scripts}
Texts == {<<>>} \cup Assigned \cup {Written(n) : n \in Ints}

Contexts == [ints : [Names -> Ints], texts : [Names -> Texts]]
Macros == [place : {"idle", "ready", "read", "truncated"}, todo : Seq(Commands),
           context : Nat, value : Ints,
           drawn : [Names -> SUBSET Ints], rolled : [Names -> SUBSET Ints]]
Files == [has : {"nothing", "no number", "number"}, n : Ints]

Typed ==
    /\ alive \subseteq Daemons
    /\ contexts \in [Daemons -> Seq(Contexts)]
    /\ script \in [Daemons -> DOMAIN Scripts]
    /\ macro \in [Daemons -> Macros]
    /\ counter \in [Names -> Files]
    /\ issued \in [Names -> Seq(Ints)]
    /\ misfortunes \subseteq {"cut short", "not written", "two daemons"}

(* A macro runs in a daemon that does, and in one of its contexts; inside  *)
(* an increment it is before the command of that.                          *)
Counting(d) == macro[d].place \in {"read", "truncated"}
Placed(d) ==
    /\ d \notin alive => macro[d] = Idle
    /\ d \in alive => contexts[d] # <<>>
    /\ macro[d].place = "idle" => macro[d] = Idle
    /\ macro[d].place # "idle" => macro[d].context \in DOMAIN contexts[d]
    /\ Counting(d) => macro[d].todo # <<>> /\ Command(d).do = "increment"

(* What a macro rolled and drew stands in its context until it ends.       *)
Kept(d) ==
    \A v \in Names :
        /\ \A n \in macro[d].rolled[v] : Context(d).ints[v] = n
        /\ \A n \in macro[d].drawn[v] : Context(d).texts[v] = Written(n)

(* The int after n, which goes round.                                      *)
After(n) == IF n = IntMax THEN IntMin ELSE n + 1

(* As long as no file was cut short and one daemon runs at a time, a file  *)
(* holds the last number written to it, but while it is being rewritten;   *)
(* and a number that is about to be written is the one after it.           *)
LastIssued(v) == issued[v][Len(issued[v])]
FilesExact ==
    misfortunes = {} =>
        /\ \A d, e \in alive : d = e
        /\ \A v \in Names : issued[v] # <<>> =>
               \/ counter[v] = Holding(LastIssued(v))
               \/ \E d \in alive : macro[d].place = "truncated" /\ Command(d).name = v
        /\ \A d \in alive : Counting(d) /\ issued[Command(d).name] # <<>> =>
               macro[d].value = After(LastIssued(Command(d).name))

IInv ==
    /\ Typed /\ (\A d \in Daemons : Placed(d) /\ Kept(d))
    /\ FilesExact /\ NumbersConsecutive /\ BranchExact /\ OwnNumber

Step(d) ==
    \/ Start(d) \/ Kill(d) \/ Load(d) \/ Begin(d) \/ End(d)
    \/ RandomAssign(d) \/ Decide(d)
    \/ Read(d) \/ Truncate(d) \/ Write(d) \/ WriteFails(d) \/ Speak(d)
----------------------------------------------------------------------------
(* Induction.                                                              *)

LEMMA Least ==
  ASSUME NEW T \in SUBSET Nat, T # {}
  PROVE  \E n \in T : \A m \in T : n <= m
<1> DEFINE R == {p \in Nat \X Nat : p[1] < p[2]}
<1>1. IsWellFoundedOn(R, Nat)
  BY NatLessThanWellFounded DEF OpToRel
<1>2. \A m, n \in Nat : <<m, n>> \notin R => n <= m
  OBVIOUS
<1> HIDE DEF R
<1>3. \E n \in T : \A m \in T : <<m, n>> \notin R
  BY <1>1, WFMin
<1>4. QED
  BY <1>2, <1>3

(* A set that is closed under the successor holds all numbers to n.        *)
LEMMA UpTo ==
  ASSUME NEW n \in Nat, NEW P, 0 \in P, \A i \in 1 .. n : i - 1 \in P => i \in P
  PROVE  \A i \in 0 .. n : i \in P
<1> DEFINE T == {i \in 0 .. n : i \notin P}
<1> SUFFICES ASSUME T # {} PROVE FALSE
  OBVIOUS
<1>1. T \in SUBSET Nat
  OBVIOUS
<1>2. PICK i \in T : \A j \in T : i <= j
  <2> HIDE DEF T
  <2> QED BY <1>1, Least
<1>3. i \in 1 .. n /\ i - 1 \in 0 .. n /\ i - 1 \notin T
  BY <1>2
<1>4. QED
  BY <1>2, <1>3

(* A function whose value at a place is settled by those before it exists. *)
(* H holds, for each place and each function, the value at that place.     *)
Settles(H, D, X, n) ==
    /\ X # {} /\ \A i \in D : i \in 0 .. n
    /\ \A i \in D : \A f \in [D -> X] :
           /\ H[i][f] \in X
           /\ \A g \in [D -> X] : (\A j \in D : j < i => f[j] = g[j]) => H[i][f] = H[i][g]
Settled(H, D, X) == \E f \in [D -> X] : \A i \in D : f[i] = H[i][f]

LEMMA Recursion ==
  ASSUME NEW n \in Nat, NEW D, NEW X, NEW H, Settles(H, D, X, n)
  PROVE  Settled(H, D, X)
<1>0. X # {} /\ \A i \in D : i \in 0 .. n
  BY DEF Settles
<1> DEFINE Good(f, k) == \A i \in D : i < k => f[i] = H[i][f]
           P == {k \in 0 .. n + 1 : \E f \in [D -> X] : Good(f, k)}
<1>1. 0 \in P
  <2>1. PICK x \in X : TRUE
    BY <1>0
  <2> DEFINE f == [i \in D |-> x]
  <2>2. f \in [D -> X]
    OBVIOUS
  <2>3. \A i \in D : ~(i < 0)
    BY <1>0
  <2> HIDE DEF f
  <2>4. QED
    BY <2>2, <2>3
<1>2. ASSUME NEW k \in 1 .. n + 1, k - 1 \in P PROVE k \in P
  <2>1. PICK f \in [D -> X] : Good(f, k - 1)
    BY <1>2
  <2> DEFINE p == k - 1
  <2>2. p \in Nat /\ k \in 0 .. n + 1 /\ \A i \in D : i \in Nat /\ (i < k => i = p \/ i < p)
    BY <1>0
  <2> HIDE DEF p
  <2>3. CASE p \notin D
    <3>1. Good(f, k)
      BY <2>1, <2>2, <2>3 DEF p
    <3>2. QED
      BY <2>2, <3>1
  <2>4. CASE p \in D
    <3> DEFINE g == [f EXCEPT ![p] = H[p][f]]
    <3>1. H[p][f] \in X
      BY <2>4 DEF Settles
    <3>2. g \in [D -> X] /\ g[p] = H[p][f] /\ \A i \in D : i # p => g[i] = f[i]
      BY <2>4, <3>1
    <3> HIDE DEF g
    <3>3. ASSUME NEW i \in D, i < k PROVE g[i] = H[i][g]
      <4>1. \A j \in D : j < i => f[j] = g[j]
        <5> TAKE j \in D
        <5>1. j < i => j # p
          BY <2>2, <3>3
        <5>2. QED
          BY <3>2, <5>1
      <4>2. H[i][f] = H[i][g]
        BY <3>2, <4>1 DEF Settles
      <4>3. i # p => i < p
        BY <2>2, <3>3
      <4>4. i # p => f[i] = H[i][f]
        BY <2>1, <4>3 DEF p
      <4>5. QED
        BY <3>2, <4>2, <4>4
    <3>4. Good(g, k)
      BY <3>3
    <3> HIDE DEF Good
    <3>5. QED
      BY <2>2, <3>2, <3>4
  <2>5. QED
    BY <2>3, <2>4
<1>3. n + 1 \in P
  <2>1. n + 1 \in Nat
    OBVIOUS
  <2> DEFINE N == n + 1
  <2>2. N \in Nat /\ \A k \in 1 .. N : k - 1 \in P => k \in P
    BY <1>2, <2>1
  <2> HIDE DEF P, N
  <2>3. \A k \in 0 .. N : k \in P
    BY <1>1, <2>2, UpTo
  <2>4. QED
    BY <2>2, <2>3 DEF N
<1>4. \A i \in D : i < n + 1
  BY <1>0
<1>5. QED
  BY <1>3, <1>4 DEF Settled

----------------------------------------------------------------------------
(* Texts.                                                                  *)

(* What FlattenSeq computes, element by element.                           *)
Flattens(f, seqs) ==
    f = [i \in 1 .. Len(seqs) |-> IF i = 1 THEN seqs[i] ELSE f[i - 1] \o seqs[i]]

LEMMA FlattenDef ==
  ASSUME NEW S, NEW seqs \in Seq(S), seqs # <<>>, NEW f, Flattens(f, seqs)
  PROVE  \E g : Flattens(g, seqs) /\ FlattenSeq(seqs) = g[Len(seqs)]
<1> DEFINE IsFlat(g) == g = [i \in 1 .. Len(seqs) |->
                               IF i = 1 THEN seqs[i] ELSE g[i - 1] \o seqs[i]]
           flat == CHOOSE g : IsFlat(g)
<1>1. IsFlat(f)
  BY DEF Flattens
<1>2. IsFlat(flat)
  <2> HIDE DEF IsFlat
  <2> QED BY <1>1
<1>3. Len(seqs) # 0
  OBVIOUS
<1>4. FlattenSeq(seqs) = flat[Len(seqs)]
  BY <1>3 DEF FlattenSeq
<1> HIDE DEF flat
<1>5. QED
  BY <1>2, <1>4 DEF Flattens


(* What FlattenSeq returns is settled by any function that flattens.       *)
LEMMA FlattenIs ==
  ASSUME NEW S, NEW seqs \in Seq(S), seqs # <<>>, NEW f, Flattens(f, seqs)
  PROVE  FlattenSeq(seqs) = f[Len(seqs)]
<1> DEFINE n == Len(seqs)
<1>1. n \in Nat /\ n >= 1
  OBVIOUS
<1>2. PICK g : Flattens(g, seqs) /\ FlattenSeq(seqs) = g[n]
  BY FlattenDef
<1> HIDE DEF n
<1>3. \A i \in 1 .. n : f[i] = IF i = 1 THEN seqs[i] ELSE f[i - 1] \o seqs[i]
  BY DEF Flattens, n
<1>4. \A i \in 1 .. n : g[i] = IF i = 1 THEN seqs[i] ELSE g[i - 1] \o seqs[i]
  BY <1>2 DEF Flattens, n
<1> DEFINE P == {i \in 0 .. n : i = 0 \/ f[i] = g[i]}
<1>5. \A i \in 1 .. n : i - 1 \in P => i \in P
  <2> TAKE i \in 1 .. n
  <2>1. i \in 0 .. n /\ (i - 1 = 0 <=> i = 1)
    BY <1>1
  <2>2. CASE i = 1
    BY <1>3, <1>4, <2>1, <2>2
  <2>3. CASE i # 1
    <3>1. f[i] = f[i - 1] \o seqs[i] /\ g[i] = g[i - 1] \o seqs[i]
      BY <1>3, <1>4, <2>3
    <3>2. QED
      BY <2>1, <2>3, <3>1
  <2>4. QED
    BY <2>2, <2>3
<1>6. 0 \in P
  BY <1>1
<1>7. \A i \in 0 .. n : i \in P
  <2> HIDE DEF P
  <2> QED BY <1>1, <1>5, <1>6, UpTo
<1>8. f[n] = g[n]
  BY <1>1, <1>7
<1>9. QED
  BY <1>2, <1>8 DEF n

(* There is one, and what it returns are sequences.                        *)
LEMMA FlattenExists ==
  ASSUME NEW S, NEW seqs \in Seq(Seq(S))
  PROVE  \E f \in [1 .. Len(seqs) -> Seq(S)] : Flattens(f, seqs)
<1> DEFINE n == Len(seqs)
           Good(f, k) == \A i \in 1 .. k : f[i] = IF i = 1 THEN seqs[i] ELSE f[i - 1] \o seqs[i]
           P == {k \in 0 .. n : \E f \in [1 .. k -> Seq(S)] : Good(f, k)}
<1>1. n \in Nat /\ \A i \in 1 .. n : seqs[i] \in Seq(S)
  OBVIOUS
<1> HIDE DEF n
<1>2. 0 \in P
  <2> DEFINE none == [i \in 1 .. 0 |-> <<>>]
  <2>1. none \in [1 .. 0 -> Seq(S)]
    OBVIOUS
  <2> HIDE DEF none
  <2>2. Good(none, 0) /\ 0 \in 0 .. n
    BY <1>1
  <2>3. QED
    BY <2>1, <2>2
<1>3. ASSUME NEW k \in 1 .. n, k - 1 \in P PROVE k \in P
  <2>1. PICK f \in [1 .. k - 1 -> Seq(S)] : Good(f, k - 1)
    BY <1>3
  <2> DEFINE e == [i \in 1 .. k |-> IF i = k THEN (IF k = 1 THEN seqs[k] ELSE f[k - 1] \o seqs[k])
                                     ELSE f[i]]
  <2>2. k \in 0 .. n /\ seqs[k] \in Seq(S) /\ \A i \in 1 .. k : i # k => i \in 1 .. k - 1
    BY <1>1
  <2>3. k # 1 => k - 1 \in 1 .. k - 1 /\ f[k - 1] \in Seq(S)
    BY <1>1
  <2>4. k # 1 => f[k - 1] \o seqs[k] \in Seq(S)
    BY <2>2, <2>3
  <2>5. e \in [1 .. k -> Seq(S)]
    BY <2>2, <2>4
  <2>6. \A i \in 1 .. k : i # k => e[i] = f[i] /\ (i # 1 => i - 1 \in 1 .. k /\ i - 1 # k)
    BY <1>1
  <2>7. e[k] = IF k = 1 THEN seqs[k] ELSE e[k - 1] \o seqs[k]
    <3>1. k # 1 => e[k - 1] = f[k - 1]
      BY <1>1, <2>3
    <3>2. k \in 1 .. k
      BY <1>1
    <3>3. QED
      BY <3>1, <3>2
  <2> HIDE DEF e
  <2>8. Good(e, k)
    <3> SUFFICES ASSUME NEW i \in 1 .. k
                 PROVE  e[i] = IF i = 1 THEN seqs[i] ELSE e[i - 1] \o seqs[i]
      OBVIOUS
    <3>1. CASE i = k
      BY <2>7, <3>1
    <3>2. CASE i # k
      <4>1. i \in 1 .. k - 1 /\ e[i] = f[i]
        BY <2>2, <2>6, <3>2
      <4>2. f[i] = IF i = 1 THEN seqs[i] ELSE f[i - 1] \o seqs[i]
        BY <2>1, <4>1
      <4>3. i # 1 => e[i - 1] = f[i - 1]
        BY <2>6, <3>2
      <4>4. QED
        BY <4>1, <4>2, <4>3
    <3>3. QED
      BY <3>1, <3>2
  <2>9. QED
    BY <2>2, <2>5, <2>8
<1>4. n \in P
  <2> HIDE DEF P
  <2>1. \A i \in 0 .. n : i \in P
    BY <1>1, <1>2, <1>3, UpTo
  <2>2. QED
    BY <1>1, <2>1
<1>5. PICK f \in [1 .. n -> Seq(S)] : Good(f, n)
  BY <1>4
<1>6. f = [i \in 1 .. n |-> f[i]]
  OBVIOUS
<1>7. Flattens(f, seqs)
  BY <1>5, <1>6 DEF Flattens, n
<1>8. QED
  BY <1>5, <1>7 DEF n

(* Where the elements of two sequences have gone.                          *)
Joined(t, a, b) ==
    /\ Len(t) = Len(a) + Len(b) /\ DOMAIN t = 1 .. Len(a) + Len(b)
    /\ \A i \in 1 .. Len(a) : t[i] = a[i]
    /\ \A i \in 1 .. Len(b) : t[Len(a) + i] = b[i]

LEMMA Concat ==
  ASSUME NEW S, NEW a \in Seq(S), NEW b \in Seq(S)
  PROVE  a \o b \in Seq(S) /\ Joined(a \o b, a, b)
<1>1. a \o b \in Seq(S) /\ Len(a \o b) = Len(a) + Len(b) /\ DOMAIN (a \o b) = 1 .. Len(a) + Len(b)
  OBVIOUS
<1>2. \A i \in 1 .. Len(a) : (a \o b)[i] = a[i]
  OBVIOUS
<1>3. \A i \in 1 .. Len(b) : (a \o b)[Len(a) + i] = b[i]
  OBVIOUS
<1>4. QED
  BY <1>1, <1>2, <1>3 DEF Joined

Either(a, b, c) == (a \o b) \o c = a \o (b \o c)
LEMMA Associative ==
  ASSUME NEW S, NEW a \in Seq(S), NEW b \in Seq(S), NEW c \in Seq(S)
  PROVE  Either(a, b, c)
  BY DEF Either

(* FlattenSeq of two lists of sequences, one behind the other.             *)
LEMMA FlattenConcat ==
  ASSUME NEW S, NEW a \in Seq(Seq(S)), NEW b \in Seq(Seq(S)), a # <<>>, b # <<>>
  PROVE  /\ FlattenSeq(a) \in Seq(S) /\ FlattenSeq(b) \in Seq(S)
         /\ FlattenSeq(a \o b) = FlattenSeq(a) \o FlattenSeq(b)
<1> DEFINE m == Len(a)
           n == Len(b)
           t == a \o b
           X == Seq(S)
<1>1. m \in Nat /\ n \in Nat /\ m >= 1 /\ n >= 1
  OBVIOUS
<1>2. t \in Seq(Seq(S)) /\ Joined(t, a, b)
  BY Concat
<1>3. PICK f \in [1 .. m -> Seq(S)] : Flattens(f, a)
  BY FlattenExists
<1>4. PICK g \in [1 .. n -> Seq(S)] : Flattens(g, b)
  BY FlattenExists
<1> DEFINE h == [i \in 1 .. m + n |-> IF i <= m THEN f[i] ELSE f[m] \o g[i - m]]
<1>5. FlattenSeq(a) = f[m] /\ FlattenSeq(b) = g[n]
  BY <1>3, <1>4, FlattenIs
<1>6. \A i \in 1 .. n : b[i] \in Seq(S)
  OBVIOUS
<1> HIDE DEF t
<1>7. Len(t) = m + n /\ (\A i \in 1 .. m : t[i] = a[i]) /\ (\A i \in 1 .. n : t[m + i] = b[i])
  BY <1>2 DEF Joined
<1> HIDE DEF m, n
<1>8. \A i \in 1 .. m : f[i] = IF i = 1 THEN a[i] ELSE f[i - 1] \o a[i]
  BY <1>3 DEF Flattens, m
<1>9. \A i \in 1 .. n : g[i] = IF i = 1 THEN b[i] ELSE g[i - 1] \o b[i]
  BY <1>4 DEF Flattens, n
<1>10. \A i \in 1 .. m + n : h[i] = IF i = 1 THEN t[i] ELSE h[i - 1] \o t[i]
  <2> SUFFICES ASSUME NEW i \in 1 .. m + n
               PROVE  h[i] = IF i = 1 THEN t[i] ELSE h[i - 1] \o t[i]
    OBVIOUS
  <2>1. i # 1 => h[i - 1] = IF i - 1 <= m THEN f[i - 1] ELSE f[m] \o g[i - 1 - m]
    BY <1>1
  <2>2. h[i] = IF i <= m THEN f[i] ELSE f[m] \o g[i - m]
    OBVIOUS
  <2> HIDE DEF h
  <2>3. CASE i <= m
    <3>1. i \in 1 .. m /\ i - 1 <= m
      BY <1>1, <2>3
    <3>2. QED
      BY <1>7, <1>8, <2>1, <2>2, <2>3, <3>1
  <2>4. CASE i = m + 1
    <3>1. i # 1 /\ ~(i <= m) /\ i - 1 = m /\ i - m = 1 /\ 1 \in 1 .. n /\ m <= m
      BY <1>1, <2>4
    <3>2. h[i] = f[m] \o g[1] /\ h[i - 1] = f[m] /\ g[1] = b[1] /\ t[m + 1] = b[1]
      BY <1>7, <1>9, <2>1, <2>2, <3>1
    <3>3. QED
      BY <2>4, <3>1, <3>2
  <2>5. CASE i > m + 1
    <3> DEFINE k == i - m
    <3>1. /\ k \in 1 .. n /\ k # 1 /\ k - 1 \in 1 .. n /\ m + k = i /\ i - 1 - m = k - 1
          /\ i # 1 /\ ~(i <= m) /\ ~(i - 1 <= m) /\ m \in 1 .. m
      BY <1>1, <2>5
    <3>2. h[i] = f[m] \o g[k] /\ h[i - 1] = f[m] \o g[k - 1]
      <4>1. h[i - 1] = f[m] \o g[i - 1 - m]
        BY <2>1, <3>1
      <4>2. QED
        BY <2>2, <3>1, <4>1
    <3> HIDE DEF k
    <3>3. g[k] = g[k - 1] \o b[k] /\ t[i] = b[k]
      BY <1>7, <1>9, <3>1
    <3>4. f[m] \in Seq(S) /\ g[k - 1] \in Seq(S) /\ b[k] \in Seq(S)
      BY <1>3, <1>4, <1>6, <3>1
    <3>5. (f[m] \o g[k - 1]) \o b[k] = f[m] \o (g[k - 1] \o b[k])
      <4>1. Either(f[m], g[k - 1], b[k])
        BY <3>4, Associative
      <4>2. QED
        BY <4>1 DEF Either
    <3>6. QED
      BY <3>1, <3>2, <3>3, <3>5
  <2>6. QED
    BY <1>1, <2>3, <2>4, <2>5
<1>11. Flattens(h, t)
  <2>1. h = [i \in 1 .. m + n |-> h[i]]
    OBVIOUS
  <2> HIDE DEF h
  <2>2. h = [i \in 1 .. m + n |-> IF i = 1 THEN t[i] ELSE h[i - 1] \o t[i]]
    BY <1>10, <2>1
  <2>3. QED
    BY <1>7, <2>2 DEF Flattens
<1>12. h[m + n] = f[m] \o g[n]
  <2> DEFINE k == m + n
  <2>1. k \in 1 .. k /\ ~(k <= m) /\ k - m = n
    BY <1>1
  <2>2. \A i \in 1 .. k : h[i] = IF i <= m THEN f[i] ELSE f[m] \o g[i - m]
    OBVIOUS
  <2> HIDE DEF h, k
  <2>3. h[k] = f[m] \o g[k - m]
    BY <2>1, <2>2
  <2>4. QED
    BY <2>1, <2>3 DEF k
<1>13. t # <<>>
  <2>1. Len(t) # 0 /\ Len(<<>>) = 0
    BY <1>1, <1>7
  <2>2. QED
    BY <2>1
<1>14. FlattenSeq(t) = h[m + n]
  <2> HIDE DEF h
  <2> QED BY <1>2, <1>7, <1>11, <1>13, FlattenIs
<1>15. f[m] \in Seq(S) /\ g[n] \in Seq(S)
  BY <1>1, <1>3, <1>4
<1>16. QED
  BY <1>5, <1>12, <1>14, <1>15 DEF t, m, n

(* The text of the one token of each place is the text itself.             *)
LEMMA FlattenTokens ==
  ASSUME NEW S, NEW text \in Seq(S)
  PROVE  FlattenSeq([i \in DOMAIN text |-> <<text[i]>>]) = text
<1> DEFINE n == Len(text)
           seqs == [i \in DOMAIN text |-> <<text[i]>>]
           f == [i \in 1 .. n |-> SubSeq(text, 1, i)]
<1>1. n \in Nat /\ DOMAIN text = 1 .. n
  OBVIOUS
<1>2. seqs \in Seq(Seq(S)) /\ Len(seqs) = n /\ \A i \in 1 .. n : seqs[i] = <<text[i]>>
  <2>1. \A i \in 1 .. n : text[i] \in S
    BY <1>1
  <2>2. seqs \in [1 .. n -> Seq(S)]
    BY <1>1, <2>1
  <2>3. QED
    BY <1>1, <2>2
<1>3. CASE n = 0
  <2>1. Len(seqs) = 0 /\ seqs = <<>> /\ text = <<>>
    BY <1>2, <1>3
  <2> HIDE DEF seqs
  <2>2. QED
    BY <2>1 DEF FlattenSeq
<1>4. CASE n > 0
  <2>1. \A i \in 1 .. n : f[i] = SubSeq(text, 1, i)
    OBVIOUS
  <2>2. f[1] = <<text[1]>>
    <3>1. \A t \in Seq(S) : Len(t) = 1 => t = <<t[1]>>
      OBVIOUS
    <3>2. /\ SubSeq(text, 1, 1) \in Seq(S) /\ Len(SubSeq(text, 1, 1)) = 1
          /\ SubSeq(text, 1, 1)[1] = text[1]
      BY <1>1, <1>4
    <3>3. SubSeq(text, 1, 1) = <<text[1]>>
      BY <3>1, <3>2
    <3>4. QED
      BY <1>1, <1>4, <3>3
  <2>3. ASSUME NEW i \in 2 .. n PROVE f[i] = f[i - 1] \o <<text[i]>>
    <3>1. i \in 1 .. n /\ i - 1 \in 1 .. n
      BY <1>1
    <3>2. SubSeq(text, 1, i) = SubSeq(text, 1, i - 1) \o <<text[i]>>
      BY <1>1, <3>1
    <3>3. QED
      BY <2>1, <3>1, <3>2
  <2>4. Flattens(f, seqs)
    <3>1. \A i \in 1 .. n : i # 1 => i \in 2 .. n
      BY <1>1
    <3>2. \A i \in 1 .. n : f[i] = IF i = 1 THEN seqs[i] ELSE f[i - 1] \o seqs[i]
      BY <1>1, <1>2, <1>4, <2>2, <2>3, <3>1
    <3>3. f = [i \in 1 .. n |-> f[i]]
      OBVIOUS
    <3> HIDE DEF f, seqs, n
    <3>4. f = [i \in 1 .. n |-> IF i = 1 THEN seqs[i] ELSE f[i - 1] \o seqs[i]]
      BY <3>2, <3>3
    <3>5. QED
      BY <1>2, <3>4 DEF Flattens
  <2>5. seqs # <<>>
    BY <1>2, <1>4
  <2>6. PICK g : Flattens(g, seqs) /\ FlattenSeq(seqs) = g[n]
    <3> HIDE DEF f, seqs, n
    <3> QED BY <1>2, <2>4, <2>5, FlattenDef
  <2> DEFINE P == {i \in 0 .. n : i = 0 \/ g[i] = SubSeq(text, 1, i)}
  <2>7. \A i \in 1 .. n : g[i] = IF i = 1 THEN <<text[1]>> ELSE g[i - 1] \o <<text[i]>>
    <3> HIDE DEF f, seqs, n
    <3> QED BY <1>2, <2>6 DEF Flattens
  <2>8. ASSUME NEW i \in 1 .. n, i - 1 \in P PROVE i \in P
    <3>1. i \in 0 .. n
      BY <1>1
    <3>2. CASE i = 1
      BY <2>1, <2>2, <2>7, <3>1, <3>2
    <3>3. CASE i # 1
      <4>1. i \in 2 .. n /\ i - 1 \in 1 .. n /\ i - 1 # 0
        BY <1>1, <3>3
      <4>2. g[i - 1] = f[i - 1]
        BY <2>1, <2>8, <4>1
      <4>3. g[i] = f[i]
        <5> HIDE DEF f, P
        <5> QED BY <2>3, <2>7, <3>3, <4>1, <4>2
      <4>4. QED
        BY <2>1, <3>1, <4>3
    <3>4. QED
      BY <3>2, <3>3
  <2>9. n \in P
    <3>1. 0 \in P
      BY <1>1
    <3> HIDE DEF P
    <3>2. \A i \in 0 .. n : i \in P
      BY <1>1, <2>8, <3>1, UpTo
    <3>3. QED
      BY <1>1, <3>2
  <2>10. g[n] = SubSeq(text, 1, n) /\ SubSeq(text, 1, n) = text
    BY <1>1, <1>4, <2>9
  <2>11. QED
    BY <2>6, <2>10
<1>5. QED
  BY <1>1, <1>3, <1>4

(* A pass leaves a text without matches alone, and so without parentheses. *)
Plain(text) == \A i \in DOMAIN text : text[i] # Symbol("(")

LEMMA PassUntouched ==
  ASSUME NEW S, NEW text \in Seq(S), \A i \in DOMAIN text : Match(text, i).next = 0
  PROVE  Pass(text) = text
<1>1. DOMAIN text \subseteq Nat
  OBVIOUS
<1>2. \A i \in DOMAIN text : ~Inside(text, i)
  BY <1>1 DEF Inside
<1>3. [i \in DOMAIN text |-> Piece(text, i)] = [i \in DOMAIN text |-> <<text[i]>>]
  <2>1. \A i \in DOMAIN text : Piece(text, i) = <<text[i]>>
    BY <1>2 DEF Piece
  <2>2. QED
    BY <2>1
<1>4. Pass(text) = FlattenSeq([i \in DOMAIN text |-> <<text[i]>>])
  BY <1>3 DEF Pass
<1>5. QED
  BY <1>4, FlattenTokens

LEMMA PassPlain ==
  ASSUME NEW S, NEW text \in Seq(S), Plain(text)
  PROVE  Pass(text) = text
<1>1. \A i \in DOMAIN text : ~Matches(text, i)
  BY DEF Plain, Matches, Is
<1>2. \A i \in DOMAIN text : Match(text, i).next = 0
  BY <1>1 DEF Match
<1>3. QED
  BY <1>2, PassUntouched

LEMMA EvaluatedPlain ==
  ASSUME NEW S, NEW text \in Seq(S), Plain(text)
  PROVE  Evaluated(text) = text
<1> DEFINE Passes(f) == f = [n \in 0 .. MaxPasses |-> IF n = 0 THEN text ELSE Pass(f[n - 1])]
           after == CHOOSE f : Passes(f)
           same == [n \in 0 .. MaxPasses |-> text]
<1>1. MaxPasses \in Nat
  BY IntAssumption
<1>2. Pass(text) = text
  BY PassPlain
<1>3. Passes(same)
  <2>1. \A n \in 0 .. MaxPasses : n # 0 => n - 1 \in 0 .. MaxPasses
    BY <1>1
  <2>2. QED
    BY <1>2, <2>1
<1>4. Passes(after)
  <2> HIDE DEF Passes
  <2> QED BY <1>3
<1>5. Evaluated(text) = after[MaxPasses]
  BY DEF Evaluated
<1> HIDE DEF after
<1>6. after[0] = text /\ \A n \in 1 .. MaxPasses : after[n] = Pass(after[n - 1])
  BY <1>1, <1>4
<1> DEFINE P == {n \in 0 .. MaxPasses : after[n] = text}
<1>7. 0 \in P
  BY <1>1, <1>6
<1>8. \A n \in 1 .. MaxPasses : n - 1 \in P => n \in P
  BY <1>1, <1>2, <1>6
<1>9. MaxPasses \in P
  <2> HIDE DEF P
  <2>1. \A n \in 0 .. MaxPasses : n \in P
    BY <1>1, <1>7, <1>8, UpTo
  <2>2. QED
    BY <1>1, <2>1
<1>10. QED
  BY <1>5, <1>9

LEMMA SingleSeq ==
  ASSUME NEW X, NEW s \in [1 .. 1 -> X]
  PROVE  s \in Seq(X) /\ Len(s) = 1 /\ s # <<>>
<1>1. \A n \in Nat : \A t \in [1 .. n -> X] : t \in Seq(X) /\ Len(t) = n
  OBVIOUS
<1>2. s \in Seq(X) /\ Len(s) = 1
  BY <1>1
<1>3. QED
  BY <1>2

(* A text without parentheses is pasted as it is when a SendInput names    *)
(* the variable that holds it by itself: the passes of interpolate's       *)
(* second phase leave it alone, however many there are.                    *)
THEOREM SaidPlain ==
  ASSUME NEW S, NEW v, NEW value, value[1] \in Seq(S), Plain(value[1])
  PROVE  Interpolate(<<Variable(v)>>, value) = value[1]
<1> DEFINE text == <<Variable(v)>>
           seqs == [i \in DOMAIN text |->
                      IF text[i].is = "variable" THEN value[i] ELSE <<text[i]>>]
           f == [i \in 1 .. 1 |-> value[1]]
<1>1. DOMAIN text = 1 .. 1 /\ text[1].is = "variable"
  BY DEF Variable
<1>2. seqs \in Seq(Seq(S)) /\ Len(seqs) = 1 /\ seqs[1] = value[1] /\ seqs # <<>>
  <2> HIDE DEF text
  <2>1. seqs \in [1 .. 1 -> Seq(S)] /\ seqs[1] = value[1]
    BY <1>1
  <2> HIDE DEF seqs
  <2>2. QED
    BY <2>1, SingleSeq
<1>3. Substituted(text, value) = FlattenSeq(seqs)
  BY DEF Substituted
<1> HIDE DEF seqs
<1>4. Flattens(f, seqs)
  BY <1>2 DEF Flattens
<1>5. PICK g : Flattens(g, seqs) /\ FlattenSeq(seqs) = g[Len(seqs)]
  BY <1>2, <1>4, FlattenDef
<1>6. FlattenSeq(seqs) = value[1]
  BY <1>2, <1>5 DEF Flattens
<1>7. QED
  BY <1>3, <1>6, EvaluatedPlain DEF Interpolate

(* Matches, and texts made of others.                                      *)

(* A match is where it is, whatever text is before it: b stands in t       *)
(* behind k tokens.                                                        *)
Follows(t, b, k, n) ==
    DOMAIN t = 1 .. k + n /\ DOMAIN b = 1 .. n /\ \A i \in 1 .. n : t[k + i] = b[i]
Moved(t, b, k, i) ==
    /\ Match(t, k + i).value = Match(b, i).value
    /\ Match(t, k + i).next = IF Match(b, i).next = 0 THEN 0 ELSE k + Match(b, i).next
    /\ Match(b, i).next \in Nat
LEMMA MatchShift ==
  ASSUME NEW t, NEW b, NEW k \in Nat, NEW n \in Nat, Follows(t, b, k, n), NEW i \in 1 .. n
  PROVE  Moved(t, b, k, i)
<1>0. DOMAIN t = 1 .. k + n /\ DOMAIN b = 1 .. n /\ \A j \in 1 .. n : t[k + j] = b[j]
  BY DEF Follows
<1>1. ASSUME NEW j \in Nat \ {0}, NEW c PROVE Is(t, k + j, c) <=> Is(b, j, c)
  <2>1. k + j \in DOMAIN t <=> j \in DOMAIN b
    BY <1>0
  <2>2. QED
    BY <1>0, <2>1 DEF Is
<1>2. ASSUME NEW j \in Nat \ {0}
      PROVE  Digits(t, k + j) = k + Digits(b, j) /\ Digits(b, j) \in Nat \ {0}
  <2>1. Is(t, k + j, "-") <=> Is(b, j, "-")
    BY <1>1
  <2>2. QED
    BY <2>1 DEF Digits
<1>3. ASSUME NEW j \in Nat \ {0}
      PROVE  /\ NumberAt(t, k + j) <=> NumberAt(b, j)
             /\ NumberAt(b, j) => ValueAt(t, k + j) = ValueAt(b, j)
  <2> DEFINE d == Digits(b, j)
  <2>1. Digits(t, k + j) = k + d /\ d \in Nat \ {0}
    BY <1>2
  <2>2. Is(t, k + j, "-") <=> Is(b, j, "-")
    BY <1>1
  <2>3. k + d \in DOMAIN t <=> d \in DOMAIN b
    BY <1>0, <2>1
  <2>4. d = IF Is(b, j, "-") THEN j + 1 ELSE j
    BY DEF Digits
  <2> HIDE DEF d
  <2>5. d \in DOMAIN b => t[k + d] = b[d]
    BY <1>0
  <2>6. NumberAt(t, k + j) <=> NumberAt(b, j)
    BY <2>1, <2>3, <2>5 DEF NumberAt, d
  <2>7. NumberAt(b, j) => d \in DOMAIN b
    BY DEF NumberAt, d
  <2>8. ValueAt(t, k + j) = IF Is(b, j, "-") THEN -t[k + j + 1].n ELSE t[k + j].n
    BY <2>2 DEF ValueAt
  <2>9. k + j + 1 = k + (j + 1)
    OBVIOUS
  <2>10. NumberAt(b, j) => ValueAt(t, k + j) = ValueAt(b, j)
    <3> SUFFICES ASSUME NumberAt(b, j) PROVE ValueAt(t, k + j) = ValueAt(b, j)
      OBVIOUS
    <3>1. CASE Is(b, j, "-")
      <4>1. t[k + (j + 1)] = b[j + 1]
        BY <2>4, <2>5, <2>7, <3>1
      <4>2. QED
        BY <2>8, <2>9, <3>1, <4>1 DEF ValueAt
    <3>2. CASE ~Is(b, j, "-")
      <4>1. t[k + j] = b[j]
        BY <2>4, <2>5, <2>7, <3>2
      <4>2. QED
        BY <2>8, <3>2, <4>1 DEF ValueAt
    <3>3. QED
      BY <3>1, <3>2
  <2>11. QED
    BY <2>6, <2>10
<1> DEFINE o == OpAt(b, i)
           z == CloseAt(b, i)
<1>4. OpAt(t, k + i) = k + o /\ o \in Nat \ {0}
  <2> DEFINE j == i + 1
             d == Digits(b, j)
             e == Digits(t, k + j)
  <2>1. e = k + d /\ d \in Nat \ {0}
    <3>1. j \in Nat \ {0}
      OBVIOUS
    <3> HIDE DEF j
    <3>2. QED
      BY <1>2, <3>1
  <2>2. k + (i + 1) = k + i + 1
    OBVIOUS
  <2>3. OpAt(t, k + i) = e + 1 /\ o = d + 1
    BY <2>2, Zenon DEF OpAt
  <2> HIDE DEF d, e, o
  <2>4. QED
    BY <2>1, <2>3
<1> HIDE DEF o
<1>5. CloseAt(t, k + i) = k + z /\ z \in Nat \ {0}
  <2> DEFINE j == o + 1
             d == Digits(b, j)
             e == Digits(t, k + j)
  <2>1. e = k + d /\ d \in Nat \ {0}
    <3>1. j \in Nat \ {0}
      BY <1>4
    <3> HIDE DEF j
    <3>2. QED
      BY <1>2, <3>1
  <2>2. k + (o + 1) = k + o + 1
    BY <1>4
  <2>3. CloseAt(t, k + i) = e + 1
    BY <1>4, <2>2, Zenon DEF CloseAt
  <2>4. z = d + 1
    BY Zenon DEF CloseAt, o
  <2> HIDE DEF d, e, z
  <2>5. QED
    BY <2>1, <2>3, <2>4
<1> HIDE DEF o, z
<1>6. /\ i \in Nat \ {0} /\ i + 1 \in Nat \ {0} /\ o + 1 \in Nat \ {0}
      /\ k + i + 1 = k + (i + 1) /\ k + o + 1 = k + (o + 1)
  BY <1>4
<1>7. /\ Is(t, k + i, "(") <=> Is(b, i, "(")
      /\ NumberAt(t, k + i + 1) <=> NumberAt(b, i + 1)
      /\ NumberAt(t, k + o + 1) <=> NumberAt(b, o + 1)
      /\ Is(t, k + z, ")") <=> Is(b, z, ")")
      /\ \A c \in Operators : Is(t, k + o, c) <=> Is(b, o, c)
  BY <1>1, <1>3, <1>4, <1>5, <1>6
<1>8. Matches(t, k + i) <=> Matches(b, i)
  BY <1>4, <1>5, <1>7 DEF Matches, o, z
<1>9. CASE Matches(b, i)
  <2>1. NumberAt(b, i + 1) /\ NumberAt(b, o + 1) /\ o \in DOMAIN b
    BY <1>9 DEF Matches, Is, o
  <2>2. ValueAt(t, k + i + 1) = ValueAt(b, i + 1) /\ ValueAt(t, k + o + 1) = ValueAt(b, o + 1)
    BY <1>3, <1>6, <2>1
  <2>3. t[k + o] = b[o]
    BY <1>0, <2>1
  <2>4. Match(b, i) = [value |-> Apply(b[o].of, ValueAt(b, i + 1), ValueAt(b, o + 1)),
                       next |-> z + 1]
    BY <1>9 DEF Match, o, z
  <2>5. Match(t, k + i) = [value |-> Apply(t[k + o].of, ValueAt(t, k + i + 1), ValueAt(t, k + o + 1)),
                           next |-> k + z + 1]
    BY <1>4, <1>5, <1>8, <1>9 DEF Match
  <2>6. Match(t, k + i).value = Match(b, i).value
    BY <2>2, <2>3, <2>4, <2>5
  <2>7. Match(t, k + i).next = k + z + 1 /\ Match(b, i).next = z + 1
    BY <2>4, <2>5
  <2>8. k + (z + 1) = k + z + 1 /\ z + 1 # 0 /\ z + 1 \in Nat
    BY <1>5
  <2>9. QED
    BY <2>6, <2>7, <2>8 DEF Moved
<1>10. CASE ~Matches(b, i)
  <2>1. /\ Match(t, k + i).value = 0 /\ Match(b, i).value = 0
        /\ Match(t, k + i).next = 0 /\ Match(b, i).next = 0
    BY <1>8, <1>10 DEF Match
  <2>2. QED
    BY <2>1 DEF Moved
<1>11. QED
  BY <1>9, <1>10

(* No match can begin in a text that is closed and end behind it.          *)
Ends == {Symbol(")"), Symbol("newline")}
Closed(a, m) == (\A i \in 1 .. m : a[i] # Symbol("(")) \/ a[m] \in Ends

(* A text t begins with a, of m tokens; and what is found in a.            *)
Begins(t, a, m, n) ==
    DOMAIN t = 1 .. m + n /\ DOMAIN a = 1 .. m /\ \A i \in 1 .. m : t[i] = a[i]
Stays(t, a, m, i) == Match(t, i) = Match(a, i) /\ Match(a, i).next \in 0 .. m + 1

LEMMA MatchHere ==
  ASSUME NEW t, NEW a, NEW m \in Nat \ {0}, NEW n \in Nat, Begins(t, a, m, n), Closed(a, m),
         NEW i \in 1 .. m
  PROVE  Stays(t, a, m, i)
<1>0. DOMAIN t = 1 .. m + n /\ DOMAIN a = 1 .. m /\ \A j \in 1 .. m : t[j] = a[j]
  BY DEF Begins
<1>1. ASSUME NEW j \in 1 .. m, NEW c PROVE Is(t, j, c) <=> Is(a, j, c)
  <2>1. j \in DOMAIN t /\ j \in DOMAIN a
    BY <1>0
  <2>2. QED
    BY <1>0, <2>1 DEF Is
<1>2. CASE \A j \in 1 .. m : a[j] # Symbol("(")
  <2>1. ~Is(a, i, "(") /\ ~Is(t, i, "(")
    BY <1>1, <1>2 DEF Is
  <2>2. ~Matches(a, i) /\ ~Matches(t, i)
    BY <2>1 DEF Matches
  <2>3. QED
    BY <2>2 DEF Match, Stays
<1>3. CASE a[m] \in Ends
  <2>1. /\ a[m].is # "number" /\ ~Is(a, m, "(") /\ ~Is(a, m, "-")
        /\ \A c \in Operators : ~Is(a, m, c)
    BY <1>3 DEF Ends, Symbol, Is, Operators
  <2>2. ASSUME NEW j \in 1 .. m
        PROVE  Digits(t, j) = Digits(a, j) /\ Digits(a, j) \in 1 .. m
    <3>1. Is(t, j, "-") <=> Is(a, j, "-")
      BY <1>1
    <3>2. Is(a, j, "-") => j # m
      BY <2>1
    <3>3. QED
      BY <3>1, <3>2 DEF Digits
  <2>3. ASSUME NEW j \in 1 .. m
        PROVE  /\ NumberAt(t, j) <=> NumberAt(a, j)
               /\ NumberAt(a, j) => Digits(a, j) \in 1 .. m - 1 /\ ValueAt(t, j) = ValueAt(a, j)
    <3>1. Is(t, j, "-") <=> Is(a, j, "-")
      BY <1>1
    <3>2. Digits(t, j) = Digits(a, j) /\ Digits(a, j) \in 1 .. m
      BY <2>2
    <3>3. Digits(a, j) \in DOMAIN t /\ Digits(a, j) \in DOMAIN a /\ t[Digits(a, j)] = a[Digits(a, j)]
      BY <1>0, <3>2
    <3>4. NumberAt(t, j) <=> NumberAt(a, j)
      BY <3>2, <3>3 DEF NumberAt
    <3>5. NumberAt(a, j) => Digits(a, j) # m
      BY <2>1 DEF NumberAt
    <3>6. Is(a, j, "-") => t[j + 1] = a[j + 1]
      BY <3>2, <3>3 DEF Digits
    <3>7. ValueAt(t, j) = ValueAt(a, j)
      BY <1>0, <3>1, <3>6 DEF ValueAt
    <3>8. QED
      BY <3>2, <3>4, <3>5, <3>7
  <2> DEFINE o == OpAt(a, i)
             z == CloseAt(a, i)
  <2>4. CASE ~Is(a, i, "(")
    <3>1. ~Matches(a, i) /\ ~Matches(t, i)
      BY <1>1, <2>4 DEF Matches
    <3>2. QED
      BY <3>1 DEF Match, Stays
  <2>5. CASE Is(a, i, "(") /\ ~NumberAt(a, i + 1)
    <3>1. i + 1 \in 1 .. m
      BY <2>1, <2>5
    <3>2. ~NumberAt(t, i + 1)
      BY <2>3, <2>5, <3>1
    <3>3. ~Matches(a, i) /\ ~Matches(t, i)
      BY <2>5, <3>2 DEF Matches
    <3>4. QED
      BY <3>3 DEF Match, Stays
  <2>6. CASE Is(a, i, "(") /\ NumberAt(a, i + 1)
    <3>1. i + 1 \in 1 .. m
      BY <2>1, <2>6
    <3>2. /\ Digits(t, i + 1) = Digits(a, i + 1) /\ Digits(a, i + 1) \in 1 .. m - 1
          /\ NumberAt(t, i + 1) /\ ValueAt(t, i + 1) = ValueAt(a, i + 1)
      BY <2>2, <2>3, <2>6, <3>1
    <3>3. OpAt(t, i) = o /\ o \in 1 .. m
      BY <3>2 DEF OpAt
    <3> HIDE DEF o
    <3>4. \A c \in Operators : Is(t, o, c) <=> Is(a, o, c)
      BY <1>1, <3>3
    <3>5. CASE \A c \in Operators : ~Is(a, o, c)
      <4>1. ~Matches(a, i) /\ ~Matches(t, i)
        BY <3>3, <3>4, <3>5 DEF Matches, o
      <4>2. QED
        BY <4>1 DEF Match, Stays
    <3>6. CASE (\E c \in Operators : Is(a, o, c)) /\ ~NumberAt(a, o + 1)
      <4>1. o + 1 \in 1 .. m
        BY <2>1, <3>3, <3>6
      <4>2. ~NumberAt(t, o + 1)
        BY <2>3, <3>6, <4>1
      <4>3. ~Matches(a, i) /\ ~Matches(t, i)
        BY <3>3, <3>6, <4>2 DEF Matches, o
      <4>4. QED
        BY <4>3 DEF Match, Stays
    <3>7. CASE (\E c \in Operators : Is(a, o, c)) /\ NumberAt(a, o + 1)
      <4>1. o + 1 \in 1 .. m
        BY <2>1, <3>3, <3>7
      <4>2. /\ Digits(t, o + 1) = Digits(a, o + 1) /\ Digits(a, o + 1) \in 1 .. m - 1
            /\ NumberAt(t, o + 1) /\ ValueAt(t, o + 1) = ValueAt(a, o + 1)
        BY <2>2, <2>3, <3>7, <4>1
      <4>3. CloseAt(t, i) = z /\ z \in 1 .. m
        BY <3>3, <4>2 DEF CloseAt, o
      <4> HIDE DEF z
      <4>4. Is(t, z, ")") <=> Is(a, z, ")")
        BY <1>1, <4>3
      <4>5. Is(t, i, "(") /\ t[o] = a[o]
        BY <1>0, <1>1, <2>6, <3>3
      <4>6. Matches(t, i) <=> Matches(a, i)
        BY <2>6, <3>2, <3>3, <3>4, <3>7, <4>2, <4>3, <4>4, <4>5 DEF Matches, o, z
      <4>7. Match(t, i) = Match(a, i)
        BY <3>2, <3>3, <4>2, <4>3, <4>5, <4>6 DEF Match, o, z
      <4>8. Match(a, i).next \in 0 .. m + 1
        <5>1. Match(a, i).next = IF Matches(a, i) THEN z + 1 ELSE 0
          BY DEF Match, z
        <5>2. QED
          BY <4>3, <5>1
      <4>9. QED
        BY <4>7, <4>8 DEF Stays
    <3>8. QED
      BY <3>5, <3>6, <3>7
  <2>7. QED
    BY <2>4, <2>5, <2>6
<1>4. QED
  BY <1>2, <1>3 DEF Closed

(* What texts are made of after the first phase.                           *)
Tokens == {Symbol(c) : c \in Operators \cup {"(", ")", "newline"}} \cup {Number(n) : n \in Nat}

LEMMA WrittenTokens ==
  ASSUME NEW n \in Int
  PROVE  Written(n) \in Seq(Tokens)
<1>1. Symbol("-") \in Tokens
  BY DEF Tokens, Operators
<1>2. CASE n < 0
  <2>1. Number(-n) \in Tokens
    BY <1>2 DEF Tokens
  <2>2. QED
    BY <1>1, <1>2, <2>1 DEF Written
<1>3. CASE ~(n < 0)
  <2>1. Number(n) \in Tokens
    BY <1>3 DEF Tokens
  <2>2. QED
    BY <1>3, <2>1 DEF Written
<1>4. QED
  BY <1>2, <1>3

(* The quotient of two naturals, without its fraction.                     *)
LEMMA Division ==
  ASSUME NEW m \in Nat, NEW k \in Nat \ {0}
  PROVE  m \div k \in Nat /\ m - k * (m \div k) \in 0 .. k - 1
  OBVIOUS

LEMMA ApplyInt ==
  ASSUME NEW op \in Operators, NEW a \in Int, NEW b \in Int
  PROVE  Apply(op, a, b) \in Ints
<1>1. Quotient(a, b) \in Int
  <2>1. CASE b = 0
    BY <2>1 DEF Quotient
  <2>2. CASE b # 0
    <3>1. Magnitude(a) \in Nat /\ Magnitude(b) \in Nat \ {0}
      BY <2>2 DEF Magnitude
    <3>2. Magnitude(a) \div Magnitude(b) \in Nat
      BY <3>1, Division
    <3>3. QED
      BY <2>2, <3>2 DEF Quotient
  <2>3. QED
    BY <2>1, <2>2
<1>2. \A n \in Int : Clamp(n) \in Ints
  BY IntAssumption DEF Clamp, Ints, IntMin
<1>3. a + b \in Int /\ a - b \in Int /\ a * b \in Int
  OBVIOUS
<1>4. /\ Apply("+", a, b) = Clamp(a + b) /\ Apply("-", a, b) = Clamp(a - b)
      /\ Apply("*", a, b) = Clamp(a * b) /\ Apply("/", a, b) = Clamp(Quotient(a, b))
  BY DEF Apply
<1>5. QED
  BY <1>1, <1>2, <1>3, <1>4 DEF Operators

LEMMA TokensTyped == \A token \in Tokens : token.n \in Int
<1>1. (\A c : Symbol(c).n \in Int) /\ (\A n \in Nat : Number(n).n \in Int)
  BY DEF Symbol, Number
<1>2. QED
  BY <1>1 DEF Tokens

LEMMA MatchTyped ==
  ASSUME NEW text \in Seq(Tokens), NEW i \in DOMAIN text, Match(text, i).next # 0
  PROVE  Match(text, i).value \in Ints
<1>1. Matches(text, i)
  BY DEF Match
<1>2. ASSUME NEW j, NumberAt(text, j) PROVE ValueAt(text, j) \in Int
  <2>1. \A token \in Tokens : token.n \in Int
    BY TokensTyped
  <2>2. text[Digits(text, j)] \in Tokens
    BY <1>2 DEF NumberAt
  <2>3. CASE Is(text, j, "-")
    BY <2>1, <2>2, <2>3 DEF ValueAt, Digits
  <2>4. CASE ~Is(text, j, "-")
    BY <2>1, <2>2, <2>4 DEF ValueAt, Digits
  <2>5. QED
    BY <2>3, <2>4
<1>3. text[OpAt(text, i)].of \in Operators
  BY <1>1 DEF Matches, Is, Symbol
<1>4. ValueAt(text, i + 1) \in Int /\ ValueAt(text, OpAt(text, i) + 1) \in Int
  BY <1>1, <1>2 DEF Matches
<1>5. Apply(text[OpAt(text, i)].of, ValueAt(text, i + 1), ValueAt(text, OpAt(text, i) + 1)) \in Ints
  BY <1>3, <1>4, ApplyInt
<1>6. QED
  BY <1>1, <1>5 DEF Match

Pieces(text) == [i \in DOMAIN text |-> Piece(text, i)]
LEMMA PiecesTyped ==
  ASSUME NEW text \in Seq(Tokens)
  PROVE  /\ Pieces(text) \in Seq(Seq(Tokens)) /\ Len(Pieces(text)) = Len(text)
         /\ \A i \in 1 .. Len(text) : Pieces(text)[i] = Piece(text, i)
         /\ text # <<>> => Pieces(text) # <<>>
<1>1. DOMAIN text = 1 .. Len(text) /\ Len(text) \in Nat
  OBVIOUS
<1>2. \A n \in Ints : n \in Int
  BY IntAssumption DEF Ints, IntMin
<1>3. ASSUME NEW i \in 1 .. Len(text) PROVE Piece(text, i) \in Seq(Tokens)
  <2>1. CASE Match(text, i).next # 0
    <3>1. Match(text, i).value \in Int
      BY <1>1, <1>2, <2>1, MatchTyped
    <3>2. QED
      BY <2>1, <3>1, WrittenTokens DEF Piece
  <2>2. CASE Match(text, i).next = 0
    <3>1. <<text[i]>> \in Seq(Tokens) /\ <<>> \in Seq(Tokens)
      BY <1>1
    <3>2. QED
      BY <2>2, <3>1 DEF Piece
  <2>3. QED
    BY <2>1, <2>2
<1> DEFINE X == Seq(Tokens)
<1>4. Pieces(text) \in [1 .. Len(text) -> X]
  BY <1>1, <1>3 DEF Pieces
<1> HIDE DEF X
<1>5. \A n \in Nat : \A s \in [1 .. n -> X] : s \in Seq(X) /\ Len(s) = n
  OBVIOUS
<1>6. Pieces(text) \in Seq(X) /\ Len(Pieces(text)) = Len(text)
  BY <1>1, <1>4, <1>5
<1>7. text # <<>> => Len(text) # 0
  OBVIOUS
<1>8. Len(Pieces(text)) # 0 => Pieces(text) # <<>>
  OBVIOUS
<1>9. \A i \in 1 .. Len(text) : Pieces(text)[i] = Piece(text, i)
  BY <1>1 DEF Pieces
<1>10. QED
  BY <1>6, <1>7, <1>8, <1>9 DEF X

(* Two functions on the same positions are one if they agree.              *)
LEMMA SameSeq ==
  ASSUME NEW X, NEW s \in Seq(X), NEW t \in Seq(X), Len(s) = Len(t),
         \A i \in 1 .. Len(s) : s[i] = t[i]
  PROVE  s = t
  OBVIOUS

(* What becomes of a token in a text made of two, of which no match in the *)
(* first goes on in the second.                                            *)
Alone(t, a, m) == \A i \in 1 .. m : Stays(t, a, m, i)
LEMMA PieceHere ==
  ASSUME NEW t, NEW a, NEW m \in Nat, NEW n \in Nat, Begins(t, a, m, n), Alone(t, a, m),
         NEW i \in 1 .. m
  PROVE  Piece(t, i) = Piece(a, i)
<1>0. /\ DOMAIN t = 1 .. m + n /\ DOMAIN a = 1 .. m
      /\ \A j \in 1 .. m : t[j] = a[j] /\ Match(t, j) = Match(a, j)
  BY DEF Begins, Alone, Stays
<1>1. \A j : j \in i - 6 .. i - 1 => (j \in 1 .. m + n <=> j \in 1 .. m)
  OBVIOUS
<1>2. \A j \in i - 6 .. i - 1 : j \in DOMAIN t <=> j \in DOMAIN a
  BY <1>0, <1>1
<1>3. \A j \in i - 6 .. i - 1 : j \in DOMAIN a => Match(t, j) = Match(a, j)
  BY <1>0
<1>4. Inside(t, i) <=> Inside(a, i)
  BY <1>2, <1>3 DEF Inside
<1>5. QED
  BY <1>0, <1>4 DEF Piece

Same(t, b, m, i) == Piece(t, m + i) = Piece(b, i)
LEMMA PieceShift ==
  ASSUME NEW t, NEW a, NEW b, NEW m \in Nat, NEW n \in Nat, Alone(t, a, m),
         Follows(t, b, m, n), NEW i \in 1 .. n
  PROVE  Same(t, b, m, i)
<1>0. /\ DOMAIN t = 1 .. m + n /\ DOMAIN b = 1 .. n /\ \A j \in 1 .. n : t[m + j] = b[j]
      /\ \A j \in 1 .. m : Match(t, j).next \in 0 .. m + 1
  BY DEF Follows, Alone, Stays
<1>1. \A j \in 1 .. n : /\ Match(t, m + j).value = Match(b, j).value
                        /\ Match(t, m + j).next =
                             IF Match(b, j).next = 0 THEN 0 ELSE m + Match(b, j).next
                        /\ Match(b, j).next \in Nat
  BY MatchShift DEF Moved
<1> DEFINE h == m + i
<1>2. h \in Nat /\ h > m /\ h <= m + n
  OBVIOUS
<1>3. ASSUME Inside(b, i) PROVE Inside(t, h)
  <2>1. PICK j \in i - 6 .. i - 1 : j \in 1 .. n /\ Match(b, j).next > i
    BY <1>0, <1>3 DEF Inside
  <2> DEFINE k == m + j
  <2>2. k \in h - 6 .. h - 1 /\ k \in DOMAIN t
    BY <1>0, <2>1
  <2>3. Match(t, k).next = m + Match(b, j).next /\ Match(b, j).next \in Nat
    BY <1>1, <2>1
  <2> HIDE DEF k
  <2>4. Match(t, k).next > h
    BY <2>1, <2>3
  <2> HIDE DEF h
  <2>5. QED
    BY <2>2, <2>4 DEF Inside
<1>4. ASSUME Inside(t, h) PROVE Inside(b, i)
  <2>1. PICK j \in h - 6 .. h - 1 : j \in DOMAIN t /\ Match(t, j).next > h
    <3> HIDE DEF h
    <3> QED BY <1>4 DEF Inside
  <2>2. j \in 1 .. m => ~(Match(t, j).next > h)
    <3> SUFFICES ASSUME j \in 1 .. m PROVE ~(Match(t, j).next > h)
      OBVIOUS
    <3>1. Match(t, j).next \in 0 .. m + 1
      BY <1>0
    <3>2. QED
      BY <1>2, <3>1
  <2> DEFINE k == j - m
  <2>3. k \in 1 .. n /\ k \in i - 6 .. i - 1 /\ j = m + k
    BY <1>0, <2>1, <2>2
  <2> HIDE DEF k
  <2>4. Match(t, m + k).next > m + i
    BY <2>1, <2>3
  <2>5. Match(t, m + k).next = IF Match(b, k).next = 0 THEN 0 ELSE m + Match(b, k).next
    BY <1>1, <2>3
  <2>6. Match(b, k).next \in Nat
    BY <1>1, <2>3
  <2>7. Match(b, k).next > i
    BY <2>4, <2>5, <2>6
  <2>8. QED
    BY <1>0, <2>3, <2>7 DEF Inside
<1>5. t[h] = b[i] /\ Match(t, h).value = Match(b, i).value
  BY <1>0, <1>1
<1>6. Match(t, h).next # 0 <=> Match(b, i).next # 0
  <2>1. Match(t, h).next = IF Match(b, i).next = 0 THEN 0 ELSE m + Match(b, i).next
    BY <1>1
  <2>2. Match(b, i).next \in Nat
    BY <1>1
  <2> HIDE DEF h
  <2>3. QED
    BY <2>1, <2>2
<1> HIDE DEF h
<1>7. Piece(t, h) = Piece(b, i)
  BY <1>3, <1>4, <1>5, <1>6 DEF Piece
<1>8. QED
  BY <1>7 DEF h, Same

(* A pass over two texts does to each what it does to it alone, as long as *)
(* no match goes from the one into the other.                              *)
Apart(a, b) == Alone(a \o b, a, Len(a))
PassJoins(a, b) == Pass(a \o b) = Pass(a) \o Pass(b)
LEMMA PassConcat ==
  ASSUME NEW a \in Seq(Tokens), NEW b \in Seq(Tokens), a # <<>>, b # <<>>, Apart(a, b)
  PROVE  /\ Pass(a) \in Seq(Tokens) /\ Pass(b) \in Seq(Tokens)
         /\ PassJoins(a, b)
<1> DEFINE m == Len(a)
           n == Len(b)
           t == a \o b
<1>1. t \in Seq(Tokens) /\ Joined(t, a, b)
  BY Concat
<1>2. DOMAIN a = 1 .. m /\ DOMAIN b = 1 .. n /\ m \in Nat /\ n \in Nat
  OBVIOUS
<1>3. Alone(t, a, m)
  BY DEF Apart
<1> HIDE DEF t
<1>4. /\ Len(t) = m + n /\ DOMAIN t = 1 .. m + n
      /\ \A i \in 1 .. m : t[i] = a[i]
      /\ \A i \in 1 .. n : t[m + i] = b[i]
  BY <1>1 DEF Joined
<1> HIDE DEF m, n
<1>5. Begins(t, a, m, n) /\ Follows(t, b, m, n)
  BY <1>2, <1>4 DEF Begins, Follows
<1>6. \A i \in 1 .. m : Piece(t, i) = Piece(a, i)
  BY <1>2, <1>3, <1>5, PieceHere
<1>7. \A i \in 1 .. n : Same(t, b, m, i)
  BY <1>2, <1>3, <1>5, PieceShift
<1> DEFINE x == Pieces(a)
           y == Pieces(b)
           z == Pieces(t)
           X == Seq(Tokens)
<1>8. /\ x \in Seq(X) /\ Len(x) = m /\ x # <<>> /\ \A i \in 1 .. m : x[i] = Piece(a, i)
      /\ y \in Seq(X) /\ Len(y) = n /\ y # <<>> /\ \A i \in 1 .. n : y[i] = Piece(b, i)
      /\ z \in Seq(X) /\ Len(z) = m + n /\ \A i \in 1 .. m + n : z[i] = Piece(t, i)
  BY <1>1, <1>4, PiecesTyped DEF m, n
<1>9. FlattenSeq(x) \in X /\ FlattenSeq(y) \in X /\ FlattenSeq(x \o y) = FlattenSeq(x) \o FlattenSeq(y)
  <2> HIDE DEF x, y, z
  <2> QED BY <1>8, FlattenConcat
<1>10. z = x \o y
  <2> HIDE DEF x, y, z, X
  <2> DEFINE w == x \o y
  <2>1. w \in Seq(X) /\ Joined(w, x, y)
    BY <1>8, Concat
  <2> HIDE DEF w
  <2>2. /\ Len(w) = m + n
        /\ \A i \in 1 .. m : w[i] = x[i]
        /\ \A i \in 1 .. n : w[m + i] = y[i]
    BY <1>8, <2>1 DEF Joined
  <2>3. ASSUME NEW i \in 1 .. m + n PROVE z[i] = w[i]
    <3>1. CASE i <= m
      BY <1>2, <1>6, <1>8, <2>2, <3>1
    <3>2. CASE ~(i <= m)
      <4> DEFINE k == i - m
      <4>1. k \in 1 .. n /\ m + k = i
        BY <1>2, <3>2
      <4> HIDE DEF k
      <4>2. w[m + k] = y[k] /\ y[k] = Piece(b, k) /\ z[i] = Piece(t, i) /\ Piece(t, m + k) = Piece(b, k)
        BY <1>7, <1>8, <2>2, <4>1 DEF Same
      <4>3. QED
        BY <4>1, <4>2
    <3>3. QED
      BY <3>1, <3>2
  <2>4. z = w
    BY <1>8, <2>1, <2>2, <2>3, SameSeq
  <2>5. QED
    BY <2>4 DEF w
<1>11. Pass(a) = FlattenSeq(x) /\ Pass(b) = FlattenSeq(y) /\ Pass(t) = FlattenSeq(z)
  BY DEF Pass, Pieces
<1> HIDE DEF x, y, z
<1>12. QED
  BY <1>9, <1>10, <1>11 DEF t, PassJoins

(* Five sequences in a row, and where the elements of each have gone.      *)
Five(e, l, f, r, g) == e \o l \o f \o r \o g

Joins(t, e, l, f, r, g) ==
    LET b == Len(e) + Len(l)
        c == b + Len(f)
        d == c + Len(r)
    IN  /\ DOMAIN t = 1 .. d + Len(g)
        /\ \A i \in 1 .. Len(e) : t[i] = e[i]
        /\ \A i \in 1 .. Len(l) : t[Len(e) + i] = l[i]
        /\ \A i \in 1 .. Len(f) : t[b + i] = f[i]
        /\ \A i \in 1 .. Len(r) : t[c + i] = r[i]
        /\ \A i \in 1 .. Len(g) : t[d + i] = g[i]

LEMMA FiveJoined ==
  ASSUME NEW S, NEW e \in Seq(S), NEW l \in Seq(S), NEW f \in Seq(S), NEW r \in Seq(S),
         NEW g \in Seq(S)
  PROVE  Joins(Five(e, l, f, r, g), e, l, f, r, g)
<1> DEFINE el == e \o l
           elf == el \o f
           elfr == elf \o r
           t == elfr \o g
<1>1. el \in Seq(S)
  OBVIOUS
<1>2. /\ Len(el) = Len(e) + Len(l) /\ Len(e) \in Nat /\ Len(l) \in Nat
      /\ \A i \in 1 .. Len(e) : el[i] = e[i]
      /\ \A i \in 1 .. Len(l) : el[Len(e) + i] = l[i]
  OBVIOUS
<1> HIDE DEF el
<1>3. elf \in Seq(S)
  BY <1>1
<1>4. /\ Len(elf) = Len(el) + Len(f) /\ Len(f) \in Nat
      /\ \A i \in 1 .. Len(el) : elf[i] = el[i]
      /\ \A i \in 1 .. Len(f) : elf[Len(el) + i] = f[i]
  BY <1>1
<1> HIDE DEF elf
<1>5. elfr \in Seq(S)
  BY <1>3
<1>6. /\ Len(elfr) = Len(elf) + Len(r) /\ Len(r) \in Nat
      /\ \A i \in 1 .. Len(elf) : elfr[i] = elf[i]
      /\ \A i \in 1 .. Len(r) : elfr[Len(elf) + i] = r[i]
  BY <1>3
<1> HIDE DEF elfr
<1>7. /\ Len(t) = Len(elfr) + Len(g) /\ Len(g) \in Nat /\ DOMAIN t = 1 .. Len(t)
      /\ \A i \in 1 .. Len(elfr) : t[i] = elfr[i]
      /\ \A i \in 1 .. Len(g) : t[Len(elfr) + i] = g[i]
  BY <1>5
<1> HIDE DEF t
<1>8. DOMAIN t = 1 .. Len(e) + Len(l) + Len(f) + Len(r) + Len(g)
  BY <1>2, <1>4, <1>6, <1>7
<1>9. \A i \in 1 .. Len(e) : t[i] = e[i]
  BY <1>2, <1>4, <1>6, <1>7
<1>10. \A i \in 1 .. Len(l) : t[Len(e) + i] = l[i]
  <2>1. \A i \in 1 .. Len(l) : Len(e) + i \in 1 .. Len(el)
    BY <1>2
  <2>2. \A i \in 1 .. Len(el) : t[i] = el[i]
    BY <1>2, <1>4, <1>6, <1>7
  <2>3. QED
    BY <1>2, <2>1, <2>2
<1>11. \A i \in 1 .. Len(f) : t[Len(e) + Len(l) + i] = f[i]
  <2>1. Len(el) = Len(e) + Len(l) /\ Len(el) \in Nat
    BY <1>2
  <2>2. \A i \in 1 .. Len(f) : Len(el) + i \in 1 .. Len(elf)
    BY <1>4, <2>1
  <2>3. \A i \in 1 .. Len(elf) : t[i] = elf[i]
    BY <1>4, <1>6, <1>7, <2>1
  <2>4. QED
    BY <1>4, <2>1, <2>2, <2>3
<1>12. \A i \in 1 .. Len(r) : t[Len(e) + Len(l) + Len(f) + i] = r[i]
  <2>1. Len(elf) = Len(e) + Len(l) + Len(f) /\ Len(elf) \in Nat
    BY <1>2, <1>4
  <2>2. \A i \in 1 .. Len(r) : Len(elf) + i \in 1 .. Len(elfr)
    BY <1>6, <2>1
  <2>3. \A i \in 1 .. Len(r) : t[Len(elf) + i] = r[i]
    BY <1>6, <1>7, <2>2
  <2>4. QED
    BY <2>1, <2>3
<1>13. \A i \in 1 .. Len(g) : t[Len(e) + Len(l) + Len(f) + Len(r) + i] = g[i]
  <2>1. Len(elfr) = Len(e) + Len(l) + Len(f) + Len(r)
    BY <1>2, <1>4, <1>6
  <2>2. QED
    BY <1>7, <2>1
<1>14. QED
  BY <1>8, <1>9, <1>10, <1>11, <1>12, <1>13 DEF Joins, Five, t, elfr, elf, el

(* An operation, from its opening to its closing parenthesis.              *)
Enclosed(x, l, y, r, z) == Five(<<x>>, l, <<y>>, r, <<z>>)
Laid(t, x, l, y, r, z) ==
    /\ DOMAIN t = 1 .. Len(l) + Len(r) + 3
    /\ t[1] = x /\ t[Len(l) + 2] = y /\ t[Len(l) + Len(r) + 3] = z
    /\ \A i \in 1 .. Len(l) : t[i + 1] = l[i]
    /\ \A i \in 1 .. Len(r) : t[Len(l) + i + 2] = r[i]

LEMMA Parts ==
  ASSUME NEW S, NEW l \in Seq(S), NEW r \in Seq(S), NEW x \in S, NEW y \in S, NEW z \in S
  PROVE  Laid(Enclosed(x, l, y, r, z), x, l, y, r, z)
<1> DEFINE e == <<x>>
           f == <<y>>
           g == <<z>>
           t == Five(e, l, f, r, g)
<1>1. e \in Seq(S) /\ f \in Seq(S) /\ g \in Seq(S)
  OBVIOUS
<1>2. Len(e) = 1 /\ e[1] = x /\ Len(f) = 1 /\ f[1] = y /\ Len(g) = 1 /\ g[1] = z
  OBVIOUS
<1>3. Enclosed(x, l, y, r, z) = t
  BY DEF Enclosed
<1> HIDE DEF e, f, g
<1>4. /\ DOMAIN t = 1 .. Len(e) + Len(l) + Len(f) + Len(r) + Len(g)
      /\ \A i \in 1 .. Len(e) : t[i] = e[i]
      /\ \A i \in 1 .. Len(l) : t[Len(e) + i] = l[i]
      /\ \A i \in 1 .. Len(f) : t[Len(e) + Len(l) + i] = f[i]
      /\ \A i \in 1 .. Len(r) : t[Len(e) + Len(l) + Len(f) + i] = r[i]
      /\ \A i \in 1 .. Len(g) : t[Len(e) + Len(l) + Len(f) + Len(r) + i] = g[i]
  <2>1. Joins(t, e, l, f, r, g)
    BY <1>1, FiveJoined
  <2> HIDE DEF t
  <2>2. QED
    BY <2>1 DEF Joins
<1> HIDE DEF t
<1>5. Len(l) \in Nat /\ Len(r) \in Nat /\ 1 \in 1 .. 1
  OBVIOUS
<1>6. /\ t[1] = e[1] /\ t[Len(e) + Len(l) + 1] = f[1]
      /\ t[Len(e) + Len(l) + Len(f) + Len(r) + 1] = g[1]
  BY <1>2, <1>4, <1>5
<1>7. /\ Len(e) + Len(l) + 1 = Len(l) + 2
      /\ Len(e) + Len(l) + Len(f) + Len(r) + 1 = Len(l) + Len(r) + 3
      /\ Len(e) + Len(l) + Len(f) + Len(r) + Len(g) = Len(l) + Len(r) + 3
  BY <1>2, <1>5
<1>8. \A i \in 1 .. Len(l) : t[i + 1] = l[i]
  <2> TAKE i \in 1 .. Len(l)
  <2>1. Len(e) + i = i + 1
    BY <1>2, <1>5
  <2>2. QED
    BY <1>4, <2>1
<1>9. \A i \in 1 .. Len(r) : t[Len(l) + i + 2] = r[i]
  <2> TAKE i \in 1 .. Len(r)
  <2>1. Len(e) + Len(l) + Len(f) + i = Len(l) + i + 2
    BY <1>2, <1>5
  <2>2. QED
    BY <1>4, <2>1
<1>10. QED
  BY <1>2, <1>3, <1>4, <1>6, <1>7, <1>8, <1>9 DEF Laid

LEMMA WrittenDigits ==
  ASSUME NEW n \in Int
  PROVE  \/ /\ Len(Written(n)) = 1 /\ Written(n)[1] = Number(n)
         \/ /\ Len(Written(n)) = 2 /\ Written(n)[1] = Symbol("-")
            /\ Written(n)[2] = Number(-n)
  BY DEF Written

(* An operation on two numbers in parentheses, and their number of tokens. *)
Spelled(op, l, r) == Enclosed(Symbol("("), l, Symbol(op), r, Symbol(")"))
LEMMA FlattenHead ==
  ASSUME NEW S, NEW seqs \in Seq(Seq(S)), seqs # <<>>, \A i \in 2 .. Len(seqs) : seqs[i] = <<>>
  PROVE  FlattenSeq(seqs) = seqs[1]
<1> DEFINE n == Len(seqs)
           f == [i \in 1 .. n |-> seqs[1]]
<1>1. n \in Nat /\ n >= 1 /\ seqs[1] \in Seq(S) /\ seqs[1] \o <<>> = seqs[1]
  <2>1. n \in Nat /\ n >= 1
    OBVIOUS
  <2>2. seqs[1] \in Seq(S)
    BY <2>1
  <2>3. \A s \in Seq(S) : s \o <<>> = s
    OBVIOUS
  <2>4. QED
    BY <2>1, <2>2, <2>3
<1> HIDE DEF n
<1>2. \A i \in 1 .. n : i # 1 => i \in 2 .. n /\ i - 1 \in 1 .. n
  BY <1>1
<1>3. \A i \in 2 .. n : seqs[i] = <<>>
  BY DEF n
<1>4. Flattens(f, seqs)
  <2>1. \A i \in 1 .. n : f[i] = IF i = 1 THEN seqs[i] ELSE f[i - 1] \o seqs[i]
    BY <1>1, <1>2, <1>3
  <2>2. f = [i \in 1 .. n |-> f[i]]
    OBVIOUS
  <2> HIDE DEF f
  <2>3. f = [i \in 1 .. n |-> IF i = 1 THEN seqs[i] ELSE f[i - 1] \o seqs[i]]
    BY <2>1, <2>2
  <2>4. QED
    BY <2>3 DEF Flattens, n
<1>5. PICK g : Flattens(g, seqs) /\ FlattenSeq(seqs) = g[n]
  <2> HIDE DEF f
  <2> QED BY <1>4, FlattenDef DEF n
<1>6. \A i \in 1 .. n : g[i] = IF i = 1 THEN seqs[i] ELSE g[i - 1] \o seqs[i]
  BY <1>5 DEF Flattens, n
<1> DEFINE P == {i \in 0 .. n : i = 0 \/ g[i] = seqs[1]}
<1>7. ASSUME NEW i \in 1 .. n, i - 1 \in P PROVE i \in P
  <2>1. i \in 0 .. n
    BY <1>1
  <2>2. CASE i = 1
    BY <1>6, <2>1, <2>2
  <2>3. CASE i # 1
    <3>1. g[i - 1] = seqs[1] /\ seqs[i] = <<>>
      BY <1>1, <1>2, <1>3, <1>7, <2>3
    <3>2. g[i] = g[i - 1] \o seqs[i]
      BY <1>6, <2>3
    <3>3. g[i] = seqs[1]
      BY <1>1, <3>1, <3>2
    <3>4. QED
      BY <2>1, <3>3
  <2>4. QED
    BY <2>2, <2>3
<1>8. \A i \in 0 .. n : i \in P
  <2>1. 0 \in P
    BY <1>1
  <2> HIDE DEF P
  <2>2. QED
    BY <1>1, <1>7, <2>1, UpTo
<1>9. QED
  BY <1>1, <1>5, <1>8

(* What the regular expression finds at an opening parenthesis: the digits *)
(* of the numbers are at da and db.                                        *)
LEMMA MatchOf ==
  ASSUME NEW text, NEW op \in Operators, NEW da \in {2, 3}, NEW db \in {da + 2, da + 3},
         DOMAIN text = 1 .. db + 1,
         text[1] = Symbol("("), text[da + 1] = Symbol(op), text[db + 1] = Symbol(")"),
         text[da].is = "number", da = 3 => text[2] = Symbol("-"),
         text[db].is = "number", db = da + 3 => text[da + 2] = Symbol("-")
  PROVE  /\ Match(text, 1).next = db + 2
         /\ Match(text, 1).value =
              Apply(op, IF da = 3 THEN -text[da].n ELSE text[da].n,
                        IF db = da + 3 THEN -text[db].n ELSE text[db].n)
<1>1. /\ da \in Nat /\ db \in Nat /\ {1, 2, da, da + 1, da + 2, db, db + 1} \subseteq DOMAIN text
      /\ Symbol("-").is # "number" /\ Symbol(op).of = op
      /\ 1 + 1 = 2
  BY DEF Symbol
<1>2. Digits(text, 2) = da /\ ValueAt(text, 2) = IF da = 3 THEN -text[da].n ELSE text[da].n
  BY <1>1 DEF Digits, ValueAt, Is
<1>3. /\ Digits(text, da + 2) = db
      /\ ValueAt(text, da + 2) = IF db = da + 3 THEN -text[db].n ELSE text[db].n
  BY <1>1 DEF Digits, ValueAt, Is
<1>4. OpAt(text, 1) = da + 1 /\ CloseAt(text, 1) = db + 1
  BY <1>1, <1>2, <1>3 DEF OpAt, CloseAt
<1>5. /\ Is(text, 1, "(") /\ Is(text, da + 1, op) /\ Is(text, db + 1, ")")
      /\ NumberAt(text, 2) /\ NumberAt(text, da + 2)
  BY <1>1, <1>2, <1>3 DEF Is, NumberAt
<1>6. Matches(text, 1)
  BY <1>1, <1>4, <1>5 DEF Matches
<1>7. Match(text, 1) = [value |-> Apply(text[da + 1].of, ValueAt(text, 2), ValueAt(text, da + 2)),
                        next |-> db + 2]
  BY <1>1, <1>4, <1>6 DEF Match
<1>8. QED
  BY <1>1, <1>2, <1>3, <1>7

(* A pass over a text that is one match and nothing else.                  *)
LEMMA PassWhole ==
  ASSUME NEW text, NEW n \in 5 .. 7, DOMAIN text = 1 .. n, NEW result \in Int,
         Match(text, 1) = [value |-> result, next |-> n + 1],
         \A i \in 2 .. n : text[i] # Symbol("(")
  PROVE  Pass(text) = Written(result)
<1> DEFINE pieces == [i \in DOMAIN text |-> Piece(text, i)]
<1>1. n \in Nat /\ 1 \in DOMAIN text /\ n + 1 # 0
  OBVIOUS
<1>2. \A i \in 2 .. n : i \in DOMAIN text /\ Match(text, i).next = 0
  <2> TAKE i \in 2 .. n
  <2>1. i \in DOMAIN text /\ ~Matches(text, i)
    BY <1>1 DEF Matches, Is
  <2>2. QED
    BY <2>1 DEF Match
<1>3. \A i \in 2 .. n : Inside(text, i)
  <2> TAKE i \in 2 .. n
  <2>1. 1 \in (i - 6 .. i - 1) \cap DOMAIN text /\ n + 1 > i
    BY <1>1
  <2>2. QED
    BY <2>1 DEF Inside
<1>4. Piece(text, 1) = Written(result) /\ \A i \in 2 .. n : Piece(text, i) = <<>>
  BY <1>1, <1>2, <1>3 DEF Piece
<1>5. /\ DOMAIN pieces = 1 .. n /\ pieces[1] = Written(result)
      /\ \A i \in 2 .. n : pieces[i] = <<>>
  BY <1>1, <1>2, <1>4
<1>6. Pass(text) = FlattenSeq(pieces) /\ pieces = [i \in 1 .. n |-> pieces[i]]
  BY DEF Pass
<1> HIDE DEF pieces
<1>7. PICK S : Written(result) \in Seq(S)
  BY WrittenTokens
<1>8. \A i \in 1 .. n : pieces[i] \in Seq(S)
  <2>1. \A i \in 1 .. n : i = 1 \/ i \in 2 .. n
    BY <1>1
  <2>2. <<>> \in Seq(S)
    OBVIOUS
  <2>3. QED
    BY <1>5, <1>7, <2>1, <2>2
<1>9. pieces \in Seq(Seq(S)) /\ Len(pieces) = n /\ pieces # <<>>
  <2> DEFINE X == Seq(S)
  <2>1. \A i \in 1 .. n : pieces[i] \in X
    BY <1>8
  <2> HIDE DEF X
  <2>2. pieces \in Seq(X) /\ Len(pieces) = n /\ pieces # <<>>
    <3>1. pieces \in [1 .. n -> X]
      BY <1>6, <2>1
    <3>2. \A m \in Nat : \A t \in [1 .. m -> X] : t \in Seq(X) /\ Len(t) = m
      OBVIOUS
    <3>3. pieces \in Seq(X) /\ Len(pieces) = n
      BY <1>1, <3>1, <3>2
    <3>4. QED
      BY <1>1, <3>3
  <2>3. QED
    BY <2>2 DEF X
<1>10. FlattenSeq(pieces) = pieces[1]
  BY <1>5, <1>9, FlattenHead
<1>11. QED
  BY <1>5, <1>6, <1>10

LEMMA PassOperation ==
  ASSUME NEW op \in Operators, NEW a \in Int, NEW b \in Int
  PROVE  Pass(Spelled(op, Written(a), Written(b))) = Written(Apply(op, a, b))
<1> DEFINE text == Spelled(op, Written(a), Written(b))
           l == Written(a)
           r == Written(b)
           da == Len(l) + 1
           db == Len(l) + Len(r) + 2
<1>1. PICK S : l \in Seq(S)
  BY WrittenTokens
<1>2. PICK T : r \in Seq(T)
  BY WrittenTokens
<1> DEFINE U == S \cup T \cup {Symbol("("), Symbol(op), Symbol(")")}
<1>3. l \in Seq(U) /\ r \in Seq(U) /\ {Symbol("("), Symbol(op), Symbol(")")} \subseteq U
  BY <1>1, <1>2
<1>4. \/ Len(l) = 1 /\ l[1] = Number(a)
      \/ Len(l) = 2 /\ l[1] = Symbol("-") /\ l[2] = Number(-a)
  BY WrittenDigits
<1>5. \/ Len(r) = 1 /\ r[1] = Number(b)
      \/ Len(r) = 2 /\ r[1] = Symbol("-") /\ r[2] = Number(-b)
  BY WrittenDigits
<1>6. text = Enclosed(Symbol("("), l, Symbol(op), r, Symbol(")"))
  BY DEF Spelled
<1> HIDE DEF text, l, r, U
<1>7. /\ DOMAIN text = 1 .. Len(l) + Len(r) + 3
      /\ text[1] = Symbol("(") /\ text[Len(l) + 2] = Symbol(op)
      /\ text[Len(l) + Len(r) + 3] = Symbol(")")
      /\ \A i \in 1 .. Len(l) : text[i + 1] = l[i]
      /\ \A i \in 1 .. Len(r) : text[Len(l) + i + 2] = r[i]
  <2> DEFINE x == Symbol("(")
             y == Symbol(op)
             z == Symbol(")")
  <2>1. x \in U /\ y \in U /\ z \in U /\ text = Enclosed(x, l, y, r, z)
    BY <1>3, <1>6
  <2> HIDE DEF x, y, z
  <2>2. Laid(Enclosed(x, l, y, r, z), x, l, y, r, z)
    BY <1>3, <2>1, Parts
  <2>3. Laid(text, x, l, y, r, z)
    BY <2>1, <2>2
  <2>4. QED
    BY <2>3 DEF Laid, x, y, z
<1>8. /\ Len(l) \in {1, 2} /\ Len(r) \in {1, 2}
      /\ text[2] = l[1] /\ (Len(l) = 2 => text[3] = l[2])
      /\ text[Len(l) + 3] = r[1] /\ (Len(r) = 2 => text[Len(l) + 4] = r[2])
  <2>1. Len(l) \in {1, 2} /\ Len(r) \in {1, 2}
    BY <1>4, <1>5
  <2>2. text[1 + 1] = l[1] /\ text[Len(l) + 1 + 2] = r[1]
    BY <1>7, <2>1
  <2>3. (Len(l) = 2 => text[2 + 1] = l[2]) /\ (Len(r) = 2 => text[Len(l) + 2 + 2] = r[2])
    BY <1>7, <2>1
  <2>4. 1 + 1 = 2 /\ 2 + 1 = 3 /\ Len(l) + 1 + 2 = Len(l) + 3 /\ Len(l) + 2 + 2 = Len(l) + 4
    BY <2>1
  <2>5. QED
    BY <2>1, <2>2, <2>3, <2>4
<1>9. /\ Number(a).is = "number" /\ Number(-a).is = "number" /\ Number(a).n = a
      /\ Number(b).is = "number" /\ Number(-b).is = "number" /\ Number(b).n = b
      /\ Number(-a).n = -a /\ Number(-b).n = -b /\ - (-a) = a /\ - (-b) = b
  BY DEF Number
<1>10. /\ da \in {2, 3} /\ db \in {da + 2, da + 3}
       /\ DOMAIN text = 1 .. db + 1 /\ text[da + 1] = Symbol(op) /\ text[db + 1] = Symbol(")")
       /\ (da = 3 <=> Len(l) = 2) /\ (db = da + 3 <=> Len(r) = 2)
  BY <1>7, <1>8, SMTT(40)
<1>11. /\ text[da].is = "number" /\ (da = 3 => text[2] = Symbol("-"))
       /\ (IF da = 3 THEN -text[da].n ELSE text[da].n) = a
  <2>1. CASE Len(l) = 1
    BY <1>4, <1>8, <1>9, <2>1
  <2>2. CASE Len(l) = 2
    BY <1>4, <1>8, <1>9, <2>2
  <2>3. QED
    BY <1>8, <2>1, <2>2
<1>12. /\ text[db].is = "number" /\ (db = da + 3 => text[da + 2] = Symbol("-"))
       /\ (IF db = da + 3 THEN -text[db].n ELSE text[db].n) = b
  <2>1. CASE Len(r) = 1
    <3>1. db = Len(l) + 3 /\ db # da + 3
      BY <1>8, <2>1
    <3>2. QED
      BY <1>5, <1>8, <1>9, <2>1, <3>1
  <2>2. CASE Len(r) = 2
    <3>1. db = Len(l) + 4 /\ da + 2 = Len(l) + 3
      BY <1>8, <2>2
    <3>2. QED
      BY <1>5, <1>8, <1>9, <2>2, <3>1
  <2>3. QED
    BY <1>8, <2>1, <2>2
<1> HIDE DEF da, db
<1>13. /\ Match(text, 1).next = db + 2
       /\ Match(text, 1).value =
            Apply(op, IF da = 3 THEN -text[da].n ELSE text[da].n,
                      IF db = da + 3 THEN -text[db].n ELSE text[db].n)
  BY <1>7, <1>10, <1>11, <1>12, MatchOf
<1>14. Match(text, 1).next = db + 2 /\ Match(text, 1).value = Apply(op, a, b)
  BY <1>11, <1>12, <1>13
<1>15. Match(text, 1) = [value |-> Apply(op, a, b), next |-> db + 2]
  <2>1. \E v, k : Match(text, 1) = [value |-> v, next |-> k]
    BY DEF Match
  <2>2. QED
    BY <1>14, <2>1
<1>16. \A i \in 2 .. db + 1 : text[i] # Symbol("(")
  <2>1. /\ Symbol(op) # Symbol("(") /\ Symbol(")") # Symbol("(") /\ Symbol("-") # Symbol("(")
        /\ Number(a) # Symbol("(") /\ Number(-a) # Symbol("(")
        /\ Number(b) # Symbol("(") /\ Number(-b) # Symbol("(")
    BY DEF Symbol, Number, Operators
  <2>2. \A i \in 1 .. Len(l) : l[i] # Symbol("(")
    BY <1>4, <2>1
  <2>3. \A i \in 1 .. Len(r) : r[i] # Symbol("(")
    BY <1>5, <2>1
  <2> TAKE i \in 2 .. db + 1
  <2>4. CASE i - 1 \in 1 .. Len(l)
    <3>1. text[(i - 1) + 1] = l[i - 1] /\ (i - 1) + 1 = i
      BY <1>7, <1>8, <1>10, <2>4
    <3>2. QED
      BY <2>2, <2>4, <3>1
  <2>5. CASE i - Len(l) - 2 \in 1 .. Len(r)
    <3>1. text[Len(l) + (i - Len(l) - 2) + 2] = r[i - Len(l) - 2]
      BY <1>7, <2>5
    <3>2. Len(l) + (i - Len(l) - 2) + 2 = i
      BY <1>8, <1>10
    <3>3. QED
      BY <2>3, <2>5, <3>1, <3>2
  <2>6. CASE i = Len(l) + 2 \/ i = db + 1
    BY <1>7, <1>10, <2>1, <2>6
  <2>7. QED
    BY <1>8, <1>10, <2>4, <2>5, <2>6 DEF da, db
<1>17. Apply(op, a, b) \in Int /\ db + 1 \in 5 .. 7 /\ db + 2 = (db + 1) + 1
  <2>1. Apply(op, a, b) \in Ints
    BY ApplyInt
  <2>2. QED
    BY <1>8, <1>10, <2>1, IntAssumption, SMTT(40) DEF da, db, Ints, IntMin
<1>18. Pass(text) = Written(Apply(op, a, b))
  <2> DEFINE n == db + 1
             result == Apply(op, a, b)
  <2>1. n \in 5 .. 7 /\ DOMAIN text = 1 .. n /\ result \in Int
        /\ Match(text, 1) = [value |-> result, next |-> n + 1]
        /\ \A i \in 2 .. n : text[i] # Symbol("(")
    BY <1>10, <1>15, <1>16, <1>17
  <2> HIDE DEF n, result
  <2>2. Pass(text) = Written(result)
    BY <2>1, PassWhole
  <2>3. QED
    BY <2>2 DEF result
<1>19. QED
  BY <1>18 DEF text

(* The text of an expression that is worth n, at whatever pass.            *)
Shape(t, n) ==
    /\ t \in Seq(Tokens) /\ t # <<>> /\ Closed(t, Len(t))
    /\ t = Written(n) \/ t[1] = Symbol("(")

LEMMA SymbolTokens ==
  /\ \A c \in Operators \cup {"(", ")", "newline"} :
         Symbol(c) \in Tokens /\ <<Symbol(c)>> \in Seq(Tokens) /\ <<Symbol(c)>> # <<>>
  /\ \A op \in Operators : Symbol(op) # Symbol("(")
<1>1. \A c \in Operators \cup {"(", ")", "newline"} : Symbol(c) \in Tokens
  BY DEF Tokens
<1>2. \A e \in Tokens : <<e>> \in Seq(Tokens) /\ <<e>> # <<>>
  OBVIOUS
<1>3. \A op \in Operators : Symbol(op) # Symbol("(")
  BY DEF Operators, Symbol
<1>4. QED
  BY <1>1, <1>2, <1>3

LEMMA WrittenNoParen ==
  ASSUME NEW n \in Int
  PROVE  /\ Plain(Written(n)) /\ Written(n) # <<>>
         /\ \A i \in 1 .. Len(Written(n)) : Written(n)[i] # Symbol("(")
<1> DEFINE t == Written(n)
<1>1. Symbol("-") # Symbol("(") /\ Number(-n) # Symbol("(") /\ Number(n) # Symbol("(")
  BY DEF Symbol, Number
<1>2. t \in Seq(Tokens)
  BY WrittenTokens
<1>3. \/ Len(t) = 1 /\ t[1] = Number(n)
      \/ Len(t) = 2 /\ t[1] = Symbol("-") /\ t[2] = Number(-n)
  BY WrittenDigits
<1> HIDE DEF t
<1>4. \A i \in 1 .. Len(t) : t[i] # Symbol("(")
  BY <1>1, <1>3
<1>5. DOMAIN t = 1 .. Len(t) /\ t # <<>>
  BY <1>2, <1>3
<1>6. QED
  BY <1>4, <1>5 DEF Plain, t

LEMMA ShapeWritten ==
  ASSUME NEW n \in Int
  PROVE  Shape(Written(n), n)
  BY WrittenTokens, WrittenNoParen DEF Shape, Closed

LEMMA LaidSpelled ==
  ASSUME NEW op \in Operators, NEW l \in Seq(Tokens), NEW r \in Seq(Tokens)
  PROVE  Laid(Spelled(op, l, r), Symbol("("), l, Symbol(op), r, Symbol(")"))
<1> DEFINE x == Symbol("(")
           y == Symbol(op)
           z == Symbol(")")
<1>1. x \in Tokens /\ y \in Tokens /\ z \in Tokens
  BY SymbolTokens
<1> HIDE DEF x, y, z
<1>2. Laid(Enclosed(x, l, y, r, z), x, l, y, r, z)
  BY <1>1, Parts
<1>3. QED
  BY <1>2 DEF Spelled, x, y, z

LEMMA ShapeSpelled ==
  ASSUME NEW op \in Operators, NEW l \in Seq(Tokens), NEW r \in Seq(Tokens), NEW n
  PROVE  Shape(Spelled(op, l, r), n)
<1> DEFINE t == Spelled(op, l, r)
           m == Len(l) + Len(r) + 3
<1>1. t \in Seq(Tokens)
  <2> DEFINE e == <<Symbol("(")>>
             f == <<Symbol(op)>>
             g == <<Symbol(")")>>
  <2>1. e \in Seq(Tokens) /\ f \in Seq(Tokens) /\ g \in Seq(Tokens)
    BY SymbolTokens
  <2> HIDE DEF e, f, g
  <2>2. e \o l \o f \o r \o g \in Seq(Tokens)
    BY <2>1
  <2>3. t = e \o l \o f \o r \o g
    BY DEF Spelled, Enclosed, Five, e, f, g
  <2>4. QED
    BY <2>2, <2>3
<1>2. DOMAIN t = 1 .. m /\ t[1] = Symbol("(") /\ t[m] = Symbol(")") /\ m \in Nat /\ m >= 3
  BY LaidSpelled DEF Laid
<1> HIDE DEF t, m
<1>3. DOMAIN t = 1 .. Len(t) /\ Len(t) \in Nat
  BY <1>1
<1>4. Len(t) = m
  BY <1>2, <1>3
<1>5. t # <<>>
  <2>1. Len(t) # 0 /\ Len(<<>>) = 0
    BY <1>2, <1>4
  <2>2. QED
    BY <2>1
<1>6. Closed(t, Len(t))
  BY <1>2, <1>4 DEF Closed, Ends
<1>7. QED
  BY <1>1, <1>2, <1>5, <1>6 DEF Shape, t

LEMMA ClosedApart ==
  ASSUME NEW a \in Seq(Tokens), NEW b \in Seq(Tokens), a # <<>>, Closed(a, Len(a))
  PROVE  Apart(a, b)
<1> DEFINE m == Len(a)
           n == Len(b)
           t == a \o b
<1>1. m \in Nat \ {0} /\ n \in Nat /\ DOMAIN a = 1 .. m
  OBVIOUS
<1>2. Joined(t, a, b)
  BY Concat
<1> HIDE DEF t
<1>3. Begins(t, a, m, n)
  BY <1>1, <1>2 DEF Joined, Begins
<1> HIDE DEF m, n
<1>4. Closed(a, m)
  BY DEF m
<1>5. Alone(t, a, m)
  BY <1>1, <1>3, <1>4, MatchHere DEF Alone
<1>6. QED
  BY <1>5 DEF Apart, t, m

LEMMA OpenApart ==
  ASSUME NEW b \in Seq(Tokens), Match(<<Symbol("(")>> \o b, 1).next = 0
  PROVE  /\ Apart(<<Symbol("(")>>, b)
         /\ Pass(<<Symbol("(")>>) = <<Symbol("(")>>
<1> DEFINE a == <<Symbol("(")>>
           t == a \o b
<1>1. a \in Seq(Tokens) /\ Len(a) = 1 /\ DOMAIN a = 1 .. 1 /\ a[1] = Symbol("(")
  BY SymbolTokens
<1>2. Match(t, 1).next = 0
  OBVIOUS
<1> HIDE DEF a, t
<1>3. ~NumberAt(a, 2)
  BY <1>1 DEF NumberAt, Digits, Is
<1>4. 1 + 1 = 2
  OBVIOUS
<1>5. ~Matches(a, 1)
  BY <1>3, <1>4 DEF Matches
<1>6. Match(a, 1) = [value |-> 0, next |-> 0]
  BY <1>5 DEF Match
<1>7. ~Matches(t, 1)
  <2> SUFFICES ASSUME Matches(t, 1) PROVE FALSE
    OBVIOUS
  <2>1. CloseAt(t, 1) \in DOMAIN t /\ CloseAt(t, 1) + 1 = 0
    BY <1>2 DEF Matches, Is, Match
  <2>2. t \in Seq(Tokens)
    BY <1>1, Concat DEF t
  <2>3. DOMAIN t \subseteq Nat
    BY <2>2
  <2>4. QED
    BY <2>1, <2>3
<1>8. Match(t, 1) = [value |-> 0, next |-> 0]
  BY <1>7 DEF Match
<1>9. Apart(a, b)
  BY <1>1, <1>6, <1>8 DEF Apart, Alone, Stays, t
<1>10. Pass(a) = a
  <2>1. \A i \in DOMAIN a : Match(a, i).next = 0
    BY <1>1, <1>6
  <2>2. QED
    BY <1>1, <2>1, PassUntouched
<1>11. QED
  BY <1>9, <1>10 DEF a

(* The outer parentheses are no match before both sides are numbers.       *)
LEMMA OuterLater ==
  ASSUME NEW op \in Operators, NEW l, NEW r, NEW a \in Int, NEW b \in Int,
         Shape(l, a), Shape(r, b), l # Written(a) \/ r # Written(b)
  PROVE  Match(Spelled(op, l, r), 1).next = 0
<1> DEFINE t == Spelled(op, l, r)
<1>1. /\ l \in Seq(Tokens) /\ r \in Seq(Tokens) /\ Len(l) \in Nat /\ Len(r) \in Nat
      /\ Len(l) >= 1 /\ Len(r) >= 1
  BY DEF Shape
<1>2. /\ DOMAIN t = 1 .. Len(l) + Len(r) + 3
      /\ \A i \in 1 .. Len(l) : t[i + 1] = l[i]
      /\ \A i \in 1 .. Len(r) : t[Len(l) + i + 2] = r[i]
  BY <1>1, LaidSpelled DEF Laid
<1> HIDE DEF t
<1>3. Symbol("(").is # "number" /\ Symbol("(") # Symbol("-")
  BY DEF Symbol
<1>4. ASSUME NEW j, t[j] = Symbol("(") PROVE ~NumberAt(t, j)
  BY <1>3, <1>4 DEF NumberAt, Digits, Is
<1>5. t[2] = l[1] /\ t[Len(l) + 3] = r[1]
  <2>1. t[1 + 1] = l[1] /\ t[Len(l) + 1 + 2] = r[1]
    BY <1>1, <1>2
  <2>2. 1 + 1 = 2 /\ Len(l) + 1 + 2 = Len(l) + 3
    BY <1>1
  <2>3. QED
    BY <2>1, <2>2
<1>6. CASE l # Written(a)
  <2>1. ~NumberAt(t, 2) /\ 1 + 1 = 2
    BY <1>4, <1>5, <1>6 DEF Shape
  <2>2. ~Matches(t, 1)
    BY <2>1 DEF Matches
  <2>3. QED
    BY <2>2 DEF Match, t
<1>7. CASE l = Written(a) /\ r # Written(b)
  <2>1. ~NumberAt(t, Len(l) + 3)
    BY <1>4, <1>5, <1>7 DEF Shape
  <2>2. \/ Len(l) = 1 /\ l[1] = Number(a)
        \/ Len(l) = 2 /\ l[1] = Symbol("-") /\ l[2] = Number(-a)
    BY <1>7, WrittenDigits
  <2>3. 2 \in DOMAIN t
    BY <1>1, <1>2
  <2>4. Number(a) # Symbol("-")
    BY DEF Number, Symbol
  <2>5. Digits(t, 2) = Len(l) + 1
    <3>1. Is(t, 2, "-") <=> Len(l) = 2
      <4>1. Is(t, 2, "-") <=> l[1] = Symbol("-")
        BY <1>5, <2>3 DEF Is
      <4>2. Len(l) = 1 => l[1] # Symbol("-")
        BY <2>2, <2>4
      <4>3. Len(l) = 2 => l[1] = Symbol("-")
        BY <2>2
      <4>4. Len(l) = 1 \/ Len(l) = 2
        BY <2>2
      <4>5. QED
        BY <4>1, <4>2, <4>3, <4>4
    <3>2. Digits(t, 2) = IF Is(t, 2, "-") THEN 3 ELSE 2
      <4>1. 2 + 1 = 3
        OBVIOUS
      <4>2. QED
        BY <4>1 DEF Digits
    <3>3. Len(l) = 1 \/ Len(l) = 2
      BY <2>2
    <3>4. CASE Len(l) = 1
      <4>1. Digits(t, 2) = 2
        BY <3>1, <3>2, <3>4
      <4>2. QED
        BY <3>4, <4>1
    <3>5. CASE Len(l) = 2
      <4>1. Digits(t, 2) = 3
        BY <3>1, <3>2, <3>5
      <4>2. QED
        BY <3>5, <4>1
    <3>6. QED
      BY <3>3, <3>4, <3>5
  <2>6. OpAt(t, 1) = Len(l) + 2
    <3>1. OpAt(t, 1) = Digits(t, 2) + 1
      <4>1. 1 + 1 = 2
        OBVIOUS
      <4>2. QED
        BY <4>1, Zenon DEF OpAt
    <3>2. QED
      BY <1>1, <2>5, <3>1
  <2>7. OpAt(t, 1) + 1 = Len(l) + 3
    BY <1>1, <2>6
  <2>8. ~Matches(t, 1)
    BY <2>1, <2>7 DEF Matches
  <2>9. QED
    BY <2>8 DEF Match, t
<1>8. QED
  BY <1>6, <1>7

(* Five sequences, put together from the last.                             *)
FromRight(e, l, f, r, g) == Five(e, l, f, r, g) = e \o (l \o (f \o (r \o g)))
LEMMA FiveRight ==
  ASSUME NEW S, NEW e \in Seq(S), NEW l \in Seq(S), NEW f \in Seq(S), NEW r \in Seq(S),
         NEW g \in Seq(S)
  PROVE  FromRight(e, l, f, r, g)
<1>1. e \o l \in Seq(S) /\ e \o l \o f \in Seq(S) /\ r \o g \in Seq(S) /\ f \o (r \o g) \in Seq(S)
  OBVIOUS
<1>2. Either(e \o l \o f, r, g) /\ Either(e \o l, f, r \o g) /\ Either(e, l, f \o (r \o g))
  BY <1>1, Associative
<1>3. QED
  BY <1>2, Zenon DEF Either, Five, FromRight

(* A pass over an operation of which one side is no number yet: it is over *)
(* the sides.                                                              *)
LEMMA PassSpelled ==
  ASSUME NEW op \in Operators, NEW l, NEW r, NEW a \in Int, NEW b \in Int,
         Shape(l, a), Shape(r, b), l # Written(a) \/ r # Written(b)
  PROVE  Pass(Spelled(op, l, r)) = Spelled(op, Pass(l), Pass(r))
<1> DEFINE e == <<Symbol("(")>>
           f == <<Symbol(op)>>
           g == <<Symbol(")")>>
           rg == r \o g
           frg == f \o rg
           lfrg == l \o frg
           X == Seq(Tokens)
<1>0. Five(e, l, f, r, g) = e \o lfrg
  <2>1. e \in X /\ f \in X /\ g \in X /\ l \in X /\ r \in X
    BY SymbolTokens DEF Shape
  <2> HIDE DEF e, f, g, X
  <2>2. FromRight(e, l, f, r, g)
    BY <2>1, FiveRight DEF X
  <2>3. QED
    BY <2>2, Zenon DEF FromRight
<1>1. /\ l \in X /\ r \in X /\ l # <<>> /\ r # <<>>
      /\ Closed(l, Len(l)) /\ Closed(r, Len(r))
  BY DEF Shape
<1>2. /\ e \in X /\ f \in X /\ g \in X /\ f # <<>> /\ g # <<>> /\ e # <<>>
      /\ Plain(f) /\ Plain(g) /\ Closed(f, Len(f))
  <2>1. e \in X /\ f \in X /\ g \in X /\ f # <<>> /\ g # <<>> /\ e # <<>>
    BY SymbolTokens
  <2>2. Symbol(op) # Symbol("(") /\ Symbol(")") # Symbol("(")
    BY SymbolTokens DEF Symbol
  <2>3. QED
    BY <2>1, <2>2 DEF Plain, Closed
<1>3. Match(Spelled(op, l, r), 1).next = 0
  BY OuterLater
<1>4. Spelled(op, l, r) = Five(e, l, f, r, g)
  BY DEF Spelled, Enclosed
<1>5. Spelled(op, Pass(l), Pass(r)) = Five(e, Pass(l), f, Pass(r), g)
  BY DEF Spelled, Enclosed
<1>6. Match(e \o lfrg, 1).next = 0
  BY <1>0, <1>3, <1>4, Zenon
<1>7. rg \in X /\ frg \in X /\ lfrg \in X /\ rg # <<>> /\ frg # <<>> /\ lfrg # <<>>
  <2> HIDE DEF e, f, g
  <2>1. \A x, y \in X : x # <<>> => x \o y \in X /\ x \o y # <<>>
    OBVIOUS
  <2> HIDE DEF X
  <2>2. rg \in X /\ rg # <<>>
    BY <1>1, <1>2, <2>1
  <2> HIDE DEF rg
  <2>3. frg \in X /\ frg # <<>>
    BY <1>2, <2>1, <2>2
  <2> HIDE DEF frg
  <2>4. lfrg \in X /\ lfrg # <<>>
    BY <1>1, <2>1, <2>3
  <2>5. QED
    BY <2>2, <2>3, <2>4
<1>8. Apart(e, lfrg) /\ Pass(e) = e
  <2> HIDE DEF lfrg
  <2> QED BY <1>6, <1>7, OpenApart
<1> HIDE DEF e, f, g
<1>9. Pass(f) = f /\ Pass(g) = g
  BY <1>2, PassPlain
<1>10. Apart(r, g) /\ Apart(f, rg) /\ Apart(l, frg)
  <2> HIDE DEF rg, frg
  <2> QED BY <1>1, <1>2, <1>7, ClosedApart
<1>11. Pass(l) \in X /\ Pass(r) \in X /\ PassJoins(r, g)
  BY <1>1, <1>2, <1>7, <1>8, <1>10, PassConcat
<1> HIDE DEF rg
<1>12. PassJoins(f, rg)
  BY <1>2, <1>7, <1>10, PassConcat
<1> HIDE DEF frg
<1>13. PassJoins(l, frg) /\ Pass(l) \in X
  BY <1>1, <1>7, <1>10, PassConcat
<1> HIDE DEF lfrg
<1>14. PassJoins(e, lfrg)
  BY <1>2, <1>7, <1>8, PassConcat
<1>15. Pass(e \o lfrg) = e \o (Pass(l) \o (f \o (Pass(r) \o g)))
  BY <1>8, <1>9, <1>11, <1>12, <1>13, <1>14, Zenon DEF PassJoins, rg, frg, lfrg
<1>16. FromRight(e, Pass(l), f, Pass(r), g)
  BY <1>2, <1>11, FiveRight
<1>17. QED
  BY <1>0, <1>4, <1>5, <1>15, <1>16, Zenon DEF FromRight

----------------------------------------------------------------------------
(* Arithmetic.                                                             *)

(* Clamping is to the nearest int.                                         *)
LEMMA ClampNearest ==
  ASSUME NEW n \in Int
  PROVE  Nearest(n) = Clamp(n)
<1> DEFINE IsNearest(v) == \A m \in Ints : Magnitude(v - n) <= Magnitude(m - n)
           c == Clamp(n)
<1>1. IntMax \in Nat /\ IntMin = -IntMax - 1
  BY IntAssumption DEF IntMin
<1>2. c \in Ints /\ IsNearest(c)
  BY <1>1 DEF Clamp, Ints, Magnitude
<1>3. ASSUME NEW v \in Ints, IsNearest(v) PROVE v = c
  <2>1. Magnitude(v - n) <= Magnitude(c - n)
    BY <1>2, <1>3
  <2>2. QED
    BY <1>1, <2>1 DEF Clamp, Ints, Magnitude
<1>4. Nearest(n) = CHOOSE v \in Ints : IsNearest(v)
  BY DEF Nearest, Ints
<1> HIDE DEF IsNearest, c
<1>5. (CHOOSE v \in Ints : IsNearest(v)) = c
  BY <1>2, <1>3
<1>6. QED
  BY <1>4, <1>5 DEF c

(* There is one quotient without its fraction.                             *)
LEMMA OneQuotient ==
  ASSUME NEW m \in Nat, NEW k \in Nat \ {0}, NEW x \in Nat, NEW y \in Nat,
         m - k * x \in 0 .. k - 1, m - k * y \in 0 .. k - 1
  PROVE  x = y
<1>1. ASSUME NEW u \in Nat, NEW w \in Nat, u < w, m - k * u \in 0 .. k - 1, m - k * w \in 0 .. k - 1
      PROVE  FALSE
  <2> DEFINE g == w - u - 1
  <2>1. g \in Nat /\ w = u + 1 + g
    BY <1>1
  <2> HIDE DEF g
  <2>2. k * w = k * u + k + k * g /\ k * g \in Nat /\ k * u \in Nat
    BY <2>1
  <2>3. QED
    BY <1>1, <2>2
<1>2. QED
  BY <1>1

LEMMA QuotientRight ==
  ASSUME NEW a \in Ints, NEW b \in Ints, b # 0
  PROVE  /\ Quotient(a, b) \in Int
         /\ (CHOOSE q \in IntMin .. IntMax + 1 : IsQuotient(q, a, b)) = Quotient(a, b)
<1> DEFINE m == Magnitude(a)
           k == Magnitude(b)
           d == m \div k
           s == Quotient(a, b)
<1>1. IntMax \in Nat /\ IntMin = -IntMax - 1 /\ a \in Int /\ b \in Int
  BY IntAssumption DEF IntMin, Ints
<1>2. m \in Nat /\ k \in Nat \ {0} /\ m <= IntMax + 1
  BY <1>1 DEF Magnitude, Ints
<1>3. s = IF (a < 0) = (b < 0) THEN d ELSE -d
  BY DEF Quotient
<1>4. \A q : IsQuotient(q, a, b) <=>
               /\ m - k * Magnitude(q) \in 0 .. k - 1
               /\ q # 0 => ((q < 0) <=> ((a < 0) # (b < 0)))
  BY DEF IsQuotient
<1> HIDE DEF m, k, s
<1>5. d \in Nat /\ m - k * d \in 0 .. k - 1
  BY <1>2, Division
<1> HIDE DEF d
<1>6. d <= m
  <2>1. \A x \in Nat : x <= k * x
    BY <1>2
  <2>2. QED
    BY <1>2, <1>5, <2>1
<1>7. s \in IntMin .. IntMax + 1 /\ s \in Int /\ Magnitude(s) = d
  BY <1>1, <1>2, <1>3, <1>5, <1>6 DEF Magnitude
<1>8. s # 0 => ((s < 0) <=> ((a < 0) # (b < 0)))
  BY <1>3, <1>5
<1>9. IsQuotient(s, a, b)
  BY <1>4, <1>5, <1>7, <1>8
<1>10. ASSUME NEW q \in IntMin .. IntMax + 1, IsQuotient(q, a, b) PROVE q = s
  <2>1. q \in Int /\ Magnitude(q) \in Nat
    BY <1>1 DEF Magnitude
  <2>2. Magnitude(q) = d
    BY <1>2, <1>4, <1>5, <1>10, <2>1, OneQuotient
  <2>3. q # 0 => ((q < 0) <=> ((a < 0) # (b < 0)))
    BY <1>4, <1>10
  <2>4. q \in {d, -d} /\ s \in {d, -d}
    BY <1>3, <2>1, <2>2 DEF Magnitude
  <2>5. CASE d = 0
    BY <2>4, <2>5
  <2>6. CASE d # 0
    BY <1>5, <1>8, <2>3, <2>4, <2>6
  <2>7. QED
    BY <2>5, <2>6
<1>11. QED
  <2> DEFINE Fits(q) == IsQuotient(q, a, b)
  <2>1. Fits(s) /\ \A q \in IntMin .. IntMax + 1 : Fits(q) => q = s
    BY <1>9, <1>10
  <2> HIDE DEF Fits
  <2>2. (CHOOSE q \in IntMin .. IntMax + 1 : Fits(q)) = s
    BY <1>7, <2>1
  <2>3. QED
    BY <1>7, <2>2 DEF Fits, s

(* What interpolate computes is the exact result, clamped.                 *)
LEMMA ApplyExact ==
  ASSUME NEW op \in Operators, NEW a \in Ints, NEW b \in Ints
  PROVE  Apply(op, a, b) = Result(op, a, b) /\ Apply(op, a, b) \in Ints
<1>1. a \in Int /\ b \in Int /\ a + b \in Int /\ a - b \in Int /\ a * b \in Int
  BY IntAssumption DEF Ints, IntMin
<1>2. /\ Apply("+", a, b) = Clamp(a + b) /\ Apply("-", a, b) = Clamp(a - b)
      /\ Apply("*", a, b) = Clamp(a * b) /\ Apply("/", a, b) = Clamp(Quotient(a, b))
  BY DEF Apply
<1>3. /\ Result("+", a, b) = Nearest(a + b) /\ Result("-", a, b) = Nearest(a - b)
      /\ Result("*", a, b) = Nearest(a * b) /\ (b = 0 => Result("/", a, b) = 0)
  BY DEF Result
<1>4. Apply(op, a, b) \in Ints
  BY <1>1, ApplyInt
<1>5. CASE op # "/"
  BY <1>1, <1>2, <1>3, <1>4, <1>5, ClampNearest DEF Operators
<1>6. CASE op = "/" /\ b = 0
  <2>1. Clamp(0) = 0
    BY IntAssumption DEF Clamp, IntMin
  <2>2. QED
    BY <1>2, <1>3, <1>4, <1>6, <2>1 DEF Quotient
<1>7. CASE op = "/" /\ b # 0
  <2>1. Result(op, a, b) = Nearest(CHOOSE q \in IntMin .. IntMax + 1 : IsQuotient(q, a, b))
    BY <1>7 DEF Result
  <2>2. QED
    BY <1>2, <1>4, <1>7, <2>1, QuotientRight, ClampNearest
<1>8. QED
  BY <1>5, <1>6, <1>7

----------------------------------------------------------------------------
(* What a line of a sheet is.                                              *)
IsLeaf(line) == line.op = "number" /\ line.n \in Ints
IsNamed(line) == line.op = "time" /\ line.of \in TimeNames
IsOperation(sheet, i) ==
    /\ sheet[i].op \in Operators /\ sheet[i].deep \in 1 .. MaxPasses
    /\ sheet[i].l \in 1 .. i - 1 /\ sheet[i].r \in 1 .. i - 1
    /\ sheet[sheet[i].l].deep < sheet[i].deep /\ sheet[sheet[i].r].deep < sheet[i].deep

LEMMA SheetLines ==
  ASSUME NEW sheet \in Sheets
  PROVE  /\ Len(sheet) \in Nat \ {0} /\ DOMAIN sheet = 1 .. Len(sheet)
         /\ \A i \in 1 .. Len(sheet) :
                IsLeaf(sheet[i]) \/ IsNamed(sheet[i]) \/ IsOperation(sheet, i)
<1>1. Len(sheet) \in Nat \ {0} /\ DOMAIN sheet = 1 .. Len(sheet)
  BY SheetsAssumption
<1>2. ASSUME NEW i \in 1 .. Len(sheet)
      PROVE  IsLeaf(sheet[i]) \/ IsNamed(sheet[i]) \/ IsOperation(sheet, i)
  <2> DEFINE line == sheet[i]
  <2>1. \/ line \in {Leaf(n) : n \in IntMin .. IntMax}
        \/ line \in {Named(v) : v \in TimeNames}
        \/ /\ line.op \in Operators /\ line.deep \in 1 .. MaxPasses
           /\ \A j \in {line.l, line.r} : j \in 1 .. i - 1 /\ sheet[j].deep < line.deep
    <3>1. i \in DOMAIN sheet
      BY <1>1
    <3>2. QED
      BY <3>1, SheetsAssumption, Zenon
  <2> HIDE DEF line
  <2>2. CASE line \in {Leaf(n) : n \in IntMin .. IntMax}
    <3>1. PICK n \in Ints : line = Leaf(n)
      BY <2>2 DEF Ints
    <3>2. line.op = "number" /\ line.n = n
      BY <3>1 DEF Leaf
    <3>3. QED
      BY <3>2 DEF IsLeaf, line
  <2>3. CASE line \in {Named(v) : v \in TimeNames}
    BY <2>3 DEF Named, IsNamed, line
  <2>4. CASE /\ line.op \in Operators /\ line.deep \in 1 .. MaxPasses
             /\ \A j \in {line.l, line.r} : j \in 1 .. i - 1 /\ sheet[j].deep < line.deep
    BY <2>4 DEF IsOperation, line
  <2>5. QED
    BY <2>1, <2>2, <2>3, <2>4
<1>3. QED
  BY <1>1, <1>2

(* A line as it is written, and its worth, from those of its sides and     *)
Marks == Tokens \cup {Variable(v) : v \in TimeNames}
Line(line, u, w) ==
    IF line.op = "number" THEN Written(line.n)
    ELSE IF line.op = "time" THEN <<Variable(line.of)>>
    ELSE Spelled(line.op, u, w)
(* where it stands behind p tokens of a text: a time is worth what is got  *)
(* for its place.                                                          *)
Amount(line, value, p, u, w) ==
    IF line.op = "number" THEN line.n
    ELSE IF line.op = "time" THEN value[p + 1]
    ELSE Result(line.op, u, w)

LEMMA OperatorNames == \A op \in Operators : op # "number" /\ op # "time"
  BY DEF Operators

LEMMA SpelledTyped ==
  ASSUME NEW S, Tokens \subseteq S, NEW op \in Operators, NEW l \in Seq(S), NEW r \in Seq(S)
  PROVE  Spelled(op, l, r) \in Seq(S)
<1> DEFINE e == <<Symbol("(")>>
           f == <<Symbol(op)>>
           g == <<Symbol(")")>>
<1>1. Symbol("(") \in S /\ Symbol(op) \in S /\ Symbol(")") \in S
  BY SymbolTokens
<1>2. e \in Seq(S) /\ f \in Seq(S) /\ g \in Seq(S)
  BY <1>1
<1>3. Spelled(op, l, r) = e \o l \o f \o r \o g
  BY DEF Spelled, Enclosed, Five
<1> HIDE DEF e, f, g
<1>4. e \o l \o f \o r \o g \in Seq(S)
  BY <1>2
<1>5. QED
  BY <1>3, <1>4

LEMMA LineTyped ==
  ASSUME NEW sheet \in Sheets, NEW i \in 1 .. Len(sheet),
         NEW u, NEW w, IsOperation(sheet, i) => u \in Seq(Marks) /\ w \in Seq(Marks)
  PROVE  Line(sheet[i], u, w) \in Seq(Marks)
<1> DEFINE line == sheet[i]
<1>1. IsLeaf(line) \/ IsNamed(line) \/ IsOperation(sheet, i)
  BY SheetLines
<1>2. Tokens \subseteq Marks /\ \A v \in TimeNames : <<Variable(v)>> \in Seq(Marks)
  BY DEF Marks
<1>3. \A n \in Ints : n \in Int
  BY IntAssumption DEF Ints, IntMin
<1>4. CASE IsLeaf(line)
  <2>1. Written(line.n) \in Seq(Tokens)
    BY <1>3, <1>4, WrittenTokens DEF IsLeaf
  <2> DEFINE t == Written(line.n)
  <2> HIDE DEF t
  <2>2. t \in Seq(Marks)
    BY <1>2, <2>1 DEF t
  <2>3. QED
    BY <1>4, <2>2 DEF IsLeaf, Line, t
<1>5. CASE IsNamed(line)
  <2>1. Line(line, u, w) = <<Variable(line.of)>>
    BY <1>5 DEF IsNamed, Line
  <2>2. QED
    BY <1>2, <1>5, <2>1 DEF IsNamed
<1>6. CASE IsOperation(sheet, i)
  <2>1. line.op \in Operators
    BY <1>6 DEF IsOperation
  <2>2. Line(line, u, w) = Spelled(line.op, u, w)
    BY <2>1, OperatorNames DEF Line
  <2>3. Spelled(line.op, u, w) \in Seq(Marks)
    BY <1>2, <1>6, <2>1, SpelledTyped
  <2>4. QED
    BY <2>2, <2>3
<1>7. QED
  BY <1>1, <1>4, <1>5, <1>6

LaidOut(sheet, layout) ==
    /\ DOMAIN layout = 1 .. Len(sheet)
    /\ \A i \in 1 .. Len(sheet) :
           layout[i] = Line(sheet[i], layout[sheet[i].l], layout[sheet[i].r])

LEMMA LayoutIs ==
  ASSUME NEW sheet \in Sheets
  PROVE  LaidOut(sheet, Layout(sheet))
<1> DEFINE D == DOMAIN sheet
           X == Seq(Marks)
           H == [i \in D |-> [f \in [D -> X] |-> Line(sheet[i], f[sheet[i].l], f[sheet[i].r])]]
           IsLayout(f) == f = [i \in DOMAIN sheet |->
               LET line == sheet[i] IN
               IF line.op = "number" THEN Written(line.n)
               ELSE IF line.op = "time" THEN <<Variable(line.of)>>
               ELSE <<Symbol("(")>> \o f[line.l] \o <<Symbol(line.op)>>
                        \o f[line.r] \o <<Symbol(")")>>]
           layout == CHOOSE f : IsLayout(f)
<1>1. D = 1 .. Len(sheet) /\ Len(sheet) \in Nat \ {0} /\ \A i \in D : i \in 0 .. Len(sheet)
  BY SheetLines
<1>2. \A f : IsLayout(f) <=>
                 f = [i \in D |-> Line(sheet[i], f[sheet[i].l], f[sheet[i].r])]
  BY DEF Line, Spelled, Enclosed, Five
<1> HIDE DEF IsLayout
<1>3. \A i \in D : \A f \in [D -> X] :
          /\ H[i][f] = Line(sheet[i], f[sheet[i].l], f[sheet[i].r])
          /\ IsOperation(sheet, i) => f[sheet[i].l] \in X /\ f[sheet[i].r] \in X
  BY <1>1 DEF IsOperation
<1>4. X # {}
  <2>1. <<>> \in X
    OBVIOUS
  <2>2. QED
    BY <2>1
<1> HIDE DEF H, X
<1>5. Settles(H, D, X, Len(sheet))
  <2> SUFFICES ASSUME NEW i \in D, NEW f \in [D -> X]
               PROVE  /\ H[i][f] \in X
                      /\ \A g \in [D -> X] :
                             (\A j \in D : j < i => f[j] = g[j]) => H[i][f] = H[i][g]
    BY <1>1, <1>4 DEF Settles
  <2>1. H[i][f] \in X
    <3> DEFINE u == f[sheet[i].l]
               w == f[sheet[i].r]
    <3>1. /\ H[i][f] = Line(sheet[i], u, w)
          /\ IsOperation(sheet, i) => u \in Seq(Marks) /\ w \in Seq(Marks)
      BY <1>3 DEF X
    <3> HIDE DEF u, w
    <3>2. Line(sheet[i], u, w) \in Seq(Marks)
      BY <1>1, <3>1, LineTyped
    <3>3. QED
      BY <3>1, <3>2 DEF X
  <2>2. ASSUME NEW g \in [D -> X], \A j \in D : j < i => f[j] = g[j]
        PROVE  H[i][f] = H[i][g]
    <3>1. /\ H[i][f] = Line(sheet[i], f[sheet[i].l], f[sheet[i].r])
          /\ H[i][g] = Line(sheet[i], g[sheet[i].l], g[sheet[i].r])
      BY <1>3
    <3>2. CASE IsOperation(sheet, i)
      <4>1. sheet[i].l \in D /\ sheet[i].r \in D /\ sheet[i].l < i /\ sheet[i].r < i
        BY <1>1, <3>2 DEF IsOperation
      <4>2. QED
        BY <2>2, <3>1, <4>1
    <3>3. CASE ~IsOperation(sheet, i)
      <4>1. sheet[i].op = "number" \/ sheet[i].op = "time"
        BY <1>1, <3>3, SheetLines DEF IsLeaf, IsNamed
      <4>2. QED
        BY <3>1, <4>1 DEF Line
    <3>4. QED
      BY <3>2, <3>3
  <2>3. QED
    BY <2>1, <2>2
<1>6. PICK f \in [D -> X] : \A i \in D : f[i] = H[i][f]
  <2> HIDE DEF D
  <2>1. Len(sheet) \in Nat
    BY <1>1
  <2>2. Settled(H, D, X)
    BY <1>5, <2>1, Recursion
  <2>3. QED
    BY <2>2 DEF Settled
<1>7. f = [i \in D |-> Line(sheet[i], f[sheet[i].l], f[sheet[i].r])]
  <2>1. \A i \in D : f[i] = Line(sheet[i], f[sheet[i].l], f[sheet[i].r])
    BY <1>3, <1>6
  <2>2. f = [i \in D |-> f[i]]
    OBVIOUS
  <2> HIDE DEF D
  <2>3. QED
    BY <2>1, <2>2
<1>8. IsLayout(layout)
  BY <1>2, <1>7
<1>9. Layout(sheet) = layout
  BY Zenon DEF Layout, IsLayout
<1> HIDE DEF layout
<1>10. layout = [i \in D |-> Line(sheet[i], layout[sheet[i].l], layout[sheet[i].r])]
  BY <1>2, <1>8
<1> DEFINE body == [i \in D |-> Line(sheet[i], layout[sheet[i].l], layout[sheet[i].r])]
<1>11. /\ DOMAIN body = D
       /\ \A i \in D : body[i] = Line(sheet[i], layout[sheet[i].l], layout[sheet[i].r])
  OBVIOUS
<1>12. layout = body
  BY <1>10
<1> HIDE DEF body
<1>13. QED
  BY <1>1, <1>9, <1>11, <1>12 DEF LaidOut

(* What holds of a line if it holds of its sides holds of all.             *)
LEMMA SheetInduction ==
  ASSUME NEW sheet \in Sheets, NEW P,
         \A i \in 1 .. Len(sheet) :
             (IsOperation(sheet, i) => sheet[i].l \in P /\ sheet[i].r \in P) => i \in P
  PROVE  \A i \in 1 .. Len(sheet) : i \in P
<1> DEFINE n == Len(sheet)
           Q == {k \in 0 .. n : \A i \in 1 .. k : i \in P}
<1>1. n \in Nat /\ \A i \in 1 .. n : IsOperation(sheet, i) =>
                       sheet[i].l \in 1 .. i - 1 /\ sheet[i].r \in 1 .. i - 1
  BY SheetLines DEF IsOperation
<1> HIDE DEF n
<1>2. 0 \in Q
  BY <1>1
<1>3. ASSUME NEW k \in 1 .. n, k - 1 \in Q PROVE k \in Q
  <2>1. IsOperation(sheet, k) => sheet[k].l \in P /\ sheet[k].r \in P
    BY <1>1, <1>3
  <2>2. k \in P
    BY <2>1 DEF n
  <2>3. \A i \in 1 .. k : i = k \/ i \in 1 .. k - 1
    BY <1>1
  <2>4. k \in 0 .. n
    BY <1>1
  <2>5. QED
    BY <1>3, <2>2, <2>3, <2>4
<1>4. n \in Q
  <2> HIDE DEF Q
  <2>1. \A k \in 0 .. n : k \in Q
    BY <1>1, <1>2, <1>3, UpTo
  <2>2. QED
    BY <1>1, <2>1
<1>5. QED
  BY <1>4 DEF n

LEMMA LayoutTyped ==
  ASSUME NEW sheet \in Sheets
  PROVE  \A i \in 1 .. Len(sheet) : Layout(sheet)[i] \in Seq(Marks)
<1> DEFINE layout == Layout(sheet)
           P == {i \in 1 .. Len(sheet) : layout[i] \in Seq(Marks)}
<1>1. LaidOut(sheet, layout)
  BY LayoutIs
<1> HIDE DEF layout
<1>2. ASSUME NEW i \in 1 .. Len(sheet), IsOperation(sheet, i) => sheet[i].l \in P /\ sheet[i].r \in P
      PROVE  i \in P
  <2> DEFINE u == layout[sheet[i].l]
             w == layout[sheet[i].r]
  <2>1. IsOperation(sheet, i) => u \in Seq(Marks) /\ w \in Seq(Marks)
    BY <1>2
  <2>2. layout[i] = Line(sheet[i], u, w)
    BY <1>1 DEF LaidOut
  <2> HIDE DEF u, w
  <2>3. Line(sheet[i], u, w) \in Seq(Marks)
    BY <2>1, LineTyped
  <2>4. QED
    BY <2>2, <2>3
<1>3. \A i \in 1 .. Len(sheet) : i \in P
  <2> HIDE DEF P
  <2> QED BY <1>2, SheetInduction
<1>4. QED
  BY <1>3 DEF layout

(* How far behind the beginning of an operation its right side begins.     *)
Gap(sheet, i) == Len(Layout(sheet)[sheet[i].l]) + 2

LEMMA GapTyped ==
  ASSUME NEW sheet \in Sheets, NEW i \in 1 .. Len(sheet), IsOperation(sheet, i)
  PROVE  Gap(sheet, i) \in Nat
<1>1. sheet[i].l \in 1 .. Len(sheet)
  BY SheetLines DEF IsOperation
<1>2. Layout(sheet)[sheet[i].l] \in Seq(Marks)
  BY <1>1, LayoutTyped
<1>3. QED
  BY <1>2 DEF Gap

LEMMA AmountTyped ==
  ASSUME NEW sheet \in Sheets, NEW value \in [Nat -> Ints], NEW i \in 1 .. Len(sheet),
         NEW p \in Nat, NEW u, NEW w, IsOperation(sheet, i) => u \in Ints /\ w \in Ints
  PROVE  Amount(sheet[i], value, p, u, w) \in Ints
<1> DEFINE line == sheet[i]
<1>1. IsLeaf(line) \/ IsNamed(line) \/ IsOperation(sheet, i)
  BY SheetLines
<1>2. CASE IsLeaf(line)
  BY <1>2 DEF IsLeaf, Amount
<1>3. CASE IsNamed(line)
  BY <1>3 DEF IsNamed, Amount
<1>4. CASE IsOperation(sheet, i)
  <2>1. line.op \in Operators
    BY <1>4 DEF IsOperation
  <2>2. Amount(line, value, p, u, w) = Result(line.op, u, w)
    BY <2>1, OperatorNames DEF Amount
  <2>3. Result(line.op, u, w) \in Ints
    BY <1>4, <2>1, ApplyExact
  <2>4. QED
    BY <2>2, <2>3
<1>5. QED
  BY <1>1, <1>2, <1>3, <1>4

(* The worth of a line behind any number of tokens, from that of its sides.*)
Row(sheet, value, worth, i) ==
    [p \in Nat |-> Amount(sheet[i], value, p, worth[sheet[i].l][p + 1],
                          worth[sheet[i].r][p + Gap(sheet, i)])]
IsWorth(sheet, value, worth) ==
    \A i \in 1 .. Len(sheet) : \A p \in Nat :
        /\ worth[i][p] \in Ints
        /\ worth[i][p] = Amount(sheet[i], value, p, worth[sheet[i].l][p + 1],
                                worth[sheet[i].r][p + Gap(sheet, i)])

LEMMA RowTyped ==
  ASSUME NEW sheet \in Sheets, NEW value \in [Nat -> Ints], NEW i \in 1 .. Len(sheet), NEW worth,
         IsOperation(sheet, i) => worth[sheet[i].l] \in [Nat -> Ints]
                                  /\ worth[sheet[i].r] \in [Nat -> Ints]
  PROVE  Row(sheet, value, worth, i) \in [Nat -> Ints]
<1> SUFFICES ASSUME NEW p \in Nat
             PROVE  Amount(sheet[i], value, p, worth[sheet[i].l][p + 1],
                           worth[sheet[i].r][p + Gap(sheet, i)]) \in Ints
  BY DEF Row
<1> DEFINE u == worth[sheet[i].l][p + 1]
           w == worth[sheet[i].r][p + Gap(sheet, i)]
<1>1. IsOperation(sheet, i) => u \in Ints /\ w \in Ints
  BY GapTyped
<1> HIDE DEF u, w
<1>2. Amount(sheet[i], value, p, u, w) \in Ints
  BY <1>1, AmountTyped
<1>3. QED
  BY <1>2 DEF u, w

LEMMA RowSame ==
  ASSUME NEW sheet \in Sheets, NEW value, NEW i \in 1 .. Len(sheet), NEW f, NEW g,
         IsOperation(sheet, i) => f[sheet[i].l] = g[sheet[i].l] /\ f[sheet[i].r] = g[sheet[i].r]
  PROVE  Row(sheet, value, f, i) = Row(sheet, value, g, i)
<1>1. CASE IsOperation(sheet, i)
  BY <1>1 DEF Row
<1>2. CASE ~IsOperation(sheet, i)
  <2>1. sheet[i].op = "number" \/ sheet[i].op = "time"
    BY <1>2, SheetLines DEF IsLeaf, IsNamed
  <2>2. QED
    BY <2>1 DEF Row, Amount
<1>3. QED
  BY <1>1, <1>2

LEMMA WorthIs ==
  ASSUME NEW sheet \in Sheets, NEW value \in [Nat -> Ints]
  PROVE  IsWorth(sheet, value, Worth(sheet, value))
<1> DEFINE D == DOMAIN sheet
           X == [Nat -> Ints]
           H == [i \in D |-> [f \in [D -> X] |-> Row(sheet, value, f, i)]]
           Fits(f) == f = [i \in DOMAIN sheet |->
               LET line == sheet[i] IN
               [p \in Nat |->
                   IF line.op = "number" THEN line.n
                   ELSE IF line.op = "time" THEN value[p + 1]
                   ELSE Result(line.op, f[line.l][p + 1],
                               f[line.r][p + Len(Layout(sheet)[line.l]) + 2])]]
           worth == CHOOSE f : Fits(f)
<1>1. D = 1 .. Len(sheet) /\ Len(sheet) \in Nat \ {0} /\ \A i \in D : i \in 0 .. Len(sheet)
  BY SheetLines
<1>2. \A f : Fits(f) <=> f = [i \in D |-> Row(sheet, value, f, i)]
  <2> SUFFICES ASSUME NEW f, NEW i \in D
               PROVE  Row(sheet, value, f, i)
                        = [p \in Nat |->
                             IF sheet[i].op = "number" THEN sheet[i].n
                             ELSE IF sheet[i].op = "time" THEN value[p + 1]
                             ELSE Result(sheet[i].op, f[sheet[i].l][p + 1],
                                         f[sheet[i].r][p + Len(Layout(sheet)[sheet[i].l]) + 2])]
    OBVIOUS
  <2>1. CASE IsOperation(sheet, i)
    <3>1. sheet[i].l \in 1 .. Len(sheet)
      BY <1>1, <2>1 DEF IsOperation
    <3>2. Layout(sheet)[sheet[i].l] \in Seq(Marks)
      BY <3>1, LayoutTyped
    <3>3. Len(Layout(sheet)[sheet[i].l]) \in Nat
      BY <3>2
    <3>4. \A p \in Nat : p + Gap(sheet, i) = p + Len(Layout(sheet)[sheet[i].l]) + 2
      BY <3>3 DEF Gap
    <3>5. QED
      BY <3>4 DEF Row, Amount
  <2>2. CASE ~IsOperation(sheet, i)
    <3>1. sheet[i].op = "number" \/ sheet[i].op = "time"
      BY <1>1, <2>2, SheetLines DEF IsLeaf, IsNamed
    <3>2. QED
      BY <3>1 DEF Row, Amount
  <2>3. QED
    BY <2>1, <2>2
<1> HIDE DEF Fits
<1>3. \A i \in D : \A f \in [D -> X] :
          /\ H[i][f] = Row(sheet, value, f, i)
          /\ IsOperation(sheet, i) => f[sheet[i].l] \in X /\ f[sheet[i].r] \in X
  BY <1>1 DEF IsOperation
<1>4. X # {}
  <2>1. Ints # {}
    BY IntAssumption DEF Ints, IntMin
  <2>2. PICK n \in Ints : TRUE
    BY <2>1
  <2>3. [p \in Nat |-> n] \in X
    OBVIOUS
  <2>4. QED
    BY <2>3
<1> HIDE DEF H, X
<1>5. Settles(H, D, X, Len(sheet))
  <2> SUFFICES ASSUME NEW i \in D, NEW f \in [D -> X]
               PROVE  /\ H[i][f] \in X
                      /\ \A g \in [D -> X] :
                             (\A j \in D : j < i => f[j] = g[j]) => H[i][f] = H[i][g]
    BY <1>1, <1>4 DEF Settles
  <2>1. H[i][f] \in X
    <3>1. /\ H[i][f] = Row(sheet, value, f, i)
          /\ IsOperation(sheet, i) => f[sheet[i].l] \in [Nat -> Ints] /\ f[sheet[i].r] \in [Nat -> Ints]
      BY <1>3 DEF X
    <3>2. Row(sheet, value, f, i) \in [Nat -> Ints]
      BY <1>1, <3>1, RowTyped
    <3>3. QED
      BY <3>1, <3>2 DEF X
  <2>2. ASSUME NEW g \in [D -> X], \A j \in D : j < i => f[j] = g[j]
        PROVE  H[i][f] = H[i][g]
    <3>1. H[i][f] = Row(sheet, value, f, i) /\ H[i][g] = Row(sheet, value, g, i)
      BY <1>3
    <3>2. IsOperation(sheet, i) =>
              f[sheet[i].l] = g[sheet[i].l] /\ f[sheet[i].r] = g[sheet[i].r]
      BY <1>1, <2>2 DEF IsOperation
    <3>3. Row(sheet, value, f, i) = Row(sheet, value, g, i)
      BY <1>1, <3>2, RowSame
    <3>4. QED
      BY <3>1, <3>3
  <2>3. QED
    BY <2>1, <2>2
<1>6. PICK f \in [D -> X] : \A i \in D : f[i] = H[i][f]
  <2> HIDE DEF D
  <2>1. Len(sheet) \in Nat
    BY <1>1
  <2>2. Settled(H, D, X)
    BY <1>5, <2>1, Recursion
  <2>3. QED
    BY <2>2 DEF Settled
<1>7. f = [i \in D |-> Row(sheet, value, f, i)]
  <2>1. \A i \in D : f[i] = Row(sheet, value, f, i)
    BY <1>3, <1>6
  <2>2. f = [i \in D |-> f[i]]
    OBVIOUS
  <2> HIDE DEF D
  <2>3. QED
    BY <2>1, <2>2
<1>8. Fits(worth)
  BY <1>2, <1>7
<1>9. Worth(sheet, value) = worth
  BY Zenon DEF Worth, Fits
<1> HIDE DEF worth
<1> DEFINE body == [i \in D |-> Row(sheet, value, worth, i)]
<1>10. worth = body
  BY <1>2, <1>8
<1>11. \A i \in D : body[i] = Row(sheet, value, worth, i)
  OBVIOUS
<1> HIDE DEF body
<1>12. \A i \in D : worth[i] = Row(sheet, value, worth, i)
  BY <1>10, <1>11
<1> DEFINE P == {i \in D : worth[i] \in [Nat -> Ints]}
<1>13. ASSUME NEW i \in 1 .. Len(sheet), IsOperation(sheet, i) => sheet[i].l \in P /\ sheet[i].r \in P
       PROVE  i \in P
  <2>1. IsOperation(sheet, i) => worth[sheet[i].l] \in [Nat -> Ints]
                                 /\ worth[sheet[i].r] \in [Nat -> Ints]
    BY <1>13
  <2>2. worth[i] = Row(sheet, value, worth, i)
    BY <1>1, <1>12
  <2>3. Row(sheet, value, worth, i) \in [Nat -> Ints]
    BY <2>1, RowTyped
  <2>4. QED
    BY <1>1, <2>2, <2>3
<1>14. \A i \in 1 .. Len(sheet) : i \in P
  <2> HIDE DEF P
  <2> QED BY <1>13, SheetInduction
<1>15. ASSUME NEW i \in 1 .. Len(sheet), NEW p \in Nat
       PROVE  /\ worth[i][p] \in Ints
              /\ worth[i][p] = Amount(sheet[i], value, p, worth[sheet[i].l][p + 1],
                                      worth[sheet[i].r][p + Gap(sheet, i)])
  <2>1. worth[i] = Row(sheet, value, worth, i)
    BY <1>1, <1>12
  <2>2. worth[i][p] \in Ints
    BY <1>14
  <2>3. Row(sheet, value, worth, i)[p]
          = Amount(sheet[i], value, p, worth[sheet[i].l][p + 1],
                   worth[sheet[i].r][p + Gap(sheet, i)])
    BY DEF Row
  <2>4. QED
    BY <2>1, <2>2, <2>3
<1>16. QED
  BY <1>9, <1>15 DEF IsWorth

(* What the lines of a sheet are after k passes, behind p tokens before    *)
(* the first: numbers, or operations that are not that deep in             *)
(* parentheses, as they were.                                              *)
AtPass(sheet, worth, texts, k) ==
    /\ DOMAIN texts = 1 .. Len(sheet)
    /\ \A i \in 1 .. Len(sheet) : \A p \in Nat :
           \/ texts[i][p] = Written(worth[i][p])
           \/ /\ IsOperation(sheet, i) /\ sheet[i].deep > k
              /\ texts[i][p] = Spelled(sheet[i].op, texts[sheet[i].l][p + 1],
                                       texts[sheet[i].r][p + Gap(sheet, i)])

LEMMA IntsInt == \A n \in Ints : n \in Int
  BY IntAssumption DEF Ints, IntMin

LEMMA Shapes ==
  ASSUME NEW sheet \in Sheets, NEW value, NEW worth, IsWorth(sheet, value, worth),
         NEW texts, NEW k, AtPass(sheet, worth, texts, k)
  PROVE  \A i \in 1 .. Len(sheet) : \A p \in Nat : Shape(texts[i][p], worth[i][p])
<1> DEFINE P == {i \in 1 .. Len(sheet) : \A p \in Nat : Shape(texts[i][p], worth[i][p])}
<1>1. ASSUME NEW i \in 1 .. Len(sheet), IsOperation(sheet, i) => sheet[i].l \in P /\ sheet[i].r \in P,
             NEW p \in Nat
      PROVE  Shape(texts[i][p], worth[i][p])
  <2>1. worth[i][p] \in Int
    BY IntsInt DEF IsWorth
  <2>2. CASE texts[i][p] = Written(worth[i][p])
    BY <2>1, <2>2, ShapeWritten
  <2>3. CASE /\ IsOperation(sheet, i)
             /\ texts[i][p] = Spelled(sheet[i].op, texts[sheet[i].l][p + 1],
                                      texts[sheet[i].r][p + Gap(sheet, i)])
    <3> DEFINE l == texts[sheet[i].l][p + 1]
               r == texts[sheet[i].r][p + Gap(sheet, i)]
    <3>1. sheet[i].op \in Operators
      BY <2>3 DEF IsOperation
    <3>2. p + 1 \in Nat /\ p + Gap(sheet, i) \in Nat
      BY <2>3, GapTyped
    <3>3. l \in Seq(Tokens) /\ r \in Seq(Tokens)
      BY <1>1, <2>3, <3>2 DEF Shape
    <3>4. texts[i][p] = Spelled(sheet[i].op, l, r)
      BY <2>3
    <3> HIDE DEF l, r
    <3>5. Shape(texts[i][p], worth[i][p])
      BY <3>1, <3>3, <3>4, ShapeSpelled
    <3>6. QED
      BY <3>5
  <2>4. QED
    BY <2>2, <2>3 DEF AtPass
<1>2. \A i \in 1 .. Len(sheet) : i \in P
  <2>1. ASSUME NEW i \in 1 .. Len(sheet),
               IsOperation(sheet, i) => sheet[i].l \in P /\ sheet[i].r \in P
        PROVE  i \in P
    BY <1>1, <2>1
  <2> HIDE DEF P
  <2> QED BY <2>1, SheetInduction
<1>3. QED
  BY <1>2

LEMMA OnePass ==
  ASSUME NEW sheet \in Sheets, NEW value, NEW worth, IsWorth(sheet, value, worth),
         NEW texts, NEW k \in Nat, AtPass(sheet, worth, texts, k)
  PROVE  AtPass(sheet, worth, [i \in 1 .. Len(sheet) |-> [p \in Nat |-> Pass(texts[i][p])]], k + 1)
<1> DEFINE next == [i \in 1 .. Len(sheet) |-> [p \in Nat |-> Pass(texts[i][p])]]
<1>1. DOMAIN next = 1 .. Len(sheet)
      /\ \A i \in 1 .. Len(sheet) : \A p \in Nat : next[i][p] = Pass(texts[i][p])
  OBVIOUS
<1> HIDE DEF next
<1>2. \A i \in 1 .. Len(sheet) : \A p \in Nat :
          Shape(texts[i][p], worth[i][p]) /\ worth[i][p] \in Int /\ worth[i][p] \in Ints
  <2>1. \A i \in 1 .. Len(sheet) : \A p \in Nat : Shape(texts[i][p], worth[i][p])
    BY Shapes
  <2>2. \A i \in 1 .. Len(sheet) : \A p \in Nat : worth[i][p] \in Ints
    BY DEF IsWorth
  <2>3. QED
    BY <2>1, <2>2, IntsInt
<1>3. ASSUME NEW i \in 1 .. Len(sheet), NEW p \in Nat
      PROVE  \/ next[i][p] = Written(worth[i][p])
             \/ /\ IsOperation(sheet, i) /\ sheet[i].deep > k + 1
                /\ next[i][p] = Spelled(sheet[i].op, next[sheet[i].l][p + 1],
                                        next[sheet[i].r][p + Gap(sheet, i)])
  <2>1. CASE texts[i][p] = Written(worth[i][p])
    <3> DEFINE t == Written(worth[i][p])
    <3>1. t \in Seq(Tokens) /\ Plain(t)
      BY <1>2, WrittenTokens, WrittenNoParen
    <3> HIDE DEF t
    <3>2. Pass(t) = t
      BY <3>1, PassPlain
    <3>3. QED
      BY <1>1, <2>1, <3>2 DEF t
  <2>2. CASE /\ IsOperation(sheet, i) /\ sheet[i].deep > k
             /\ texts[i][p] = Spelled(sheet[i].op, texts[sheet[i].l][p + 1],
                                      texts[sheet[i].r][p + Gap(sheet, i)])
    <3> DEFINE op == sheet[i].op
               j == sheet[i].l
               h == sheet[i].r
               y == p + 1
               z == p + Gap(sheet, i)
               a == worth[j][y]
               b == worth[h][z]
               l == texts[j][y]
               r == texts[h][z]
    <3>1. op \in Operators /\ j \in 1 .. Len(sheet) /\ h \in 1 .. Len(sheet)
          /\ sheet[i].deep \in Nat /\ sheet[j].deep < sheet[i].deep /\ sheet[h].deep < sheet[i].deep
      BY <2>2, SheetLines DEF IsOperation
    <3>2. texts[i][p] = Spelled(op, l, r)
      BY <2>2
    <3>3. worth[i][p] = Amount(sheet[i], value, p, a, b)
      BY DEF IsWorth
    <3>4. Amount(sheet[i], value, p, a, b) = Result(op, a, b)
      BY <3>1, OperatorNames DEF Amount
    <3>9. y \in Nat /\ z \in Nat
      BY <2>2, GapTyped
    <3> HIDE DEF op, j, h, y, z
    <3>5. Shape(l, a) /\ Shape(r, b) /\ a \in Ints /\ b \in Ints /\ a \in Int /\ b \in Int
      BY <1>2, <3>1, <3>9
    <3>6. CASE l = Written(a) /\ r = Written(b)
      <4> HIDE DEF a, b, l, r
      <4>1. Pass(texts[i][p]) = Written(Apply(op, a, b))
        BY <3>1, <3>2, <3>5, <3>6, PassOperation
      <4>2. Apply(op, a, b) = worth[i][p]
        BY <3>1, <3>3, <3>4, <3>5, ApplyExact
      <4>3. QED
        BY <1>1, <4>1, <4>2
    <3>7. CASE l # Written(a) \/ r # Written(b)
      <4>2. /\ l # Written(a) => IsOperation(sheet, j) /\ sheet[j].deep > k
            /\ r # Written(b) => IsOperation(sheet, h) /\ sheet[h].deep > k
        BY <3>1, <3>9 DEF AtPass
      <4>0. next[j][y] = Pass(l) /\ next[h][z] = Pass(r)
        BY <1>1, <3>1, <3>9
      <4> HIDE DEF a, b, l, r
      <4>1. Pass(texts[i][p]) = Spelled(op, Pass(l), Pass(r))
        BY <3>1, <3>2, <3>5, <3>7, PassSpelled
      <4>3. /\ IsOperation(sheet, j) => sheet[j].deep \in Nat
            /\ IsOperation(sheet, h) => sheet[h].deep \in Nat
        BY IntAssumption DEF IsOperation
      <4>4. sheet[i].deep > k + 1
        <5>1. CASE l # Written(a)
          BY <3>1, <4>2, <4>3, <5>1
        <5>2. CASE r # Written(b)
          BY <3>1, <4>2, <4>3, <5>2
        <5>3. QED
          BY <3>7, <5>1, <5>2
      <4>5. next[i][p] = Spelled(op, next[j][y], next[h][z])
        BY <1>1, <4>0, <4>1
      <4>6. QED
        BY <2>2, <4>4, <4>5 DEF op, j, h, y, z
    <3>8. QED
      BY <3>6, <3>7
  <2>3. QED
    BY <2>1, <2>2 DEF AtPass
<1>4. QED
  BY <1>1, <1>3 DEF AtPass, next

LEMMA LastPass ==
  ASSUME NEW sheet \in Sheets, NEW worth, NEW texts, AtPass(sheet, worth, texts, MaxPasses)
  PROVE  \A i \in 1 .. Len(sheet) : \A p \in Nat : texts[i][p] = Written(worth[i][p])
<1> TAKE i \in 1 .. Len(sheet)
<1>1. IsOperation(sheet, i) => ~(sheet[i].deep > MaxPasses)
  BY IntAssumption DEF IsOperation
<1>2. QED
  BY <1>1 DEF AtPass

(* What goes through each of two texts goes through all of a list.         *)
Joint(G, C) == \A a, b \in C : a \o b \in C /\ G[a \o b] = G[a] \o G[b]
Through(G, C, S, R) ==
    (\A t \in C : t \in Seq(S)) /\ (\A t \in C : G[t] \in Seq(R)) /\ Joint(G, C)
Maps(G, C, seqs, mapped) ==
    /\ Len(mapped) = Len(seqs)
    /\ \A i \in 1 .. Len(seqs) : seqs[i] \in C /\ mapped[i] = G[seqs[i]]
LEMMA FlattenMapped ==
  ASSUME NEW S, NEW R, NEW C, NEW G, Through(G, C, S, R),
         NEW seqs \in Seq(Seq(S)), seqs # <<>>, NEW mapped \in Seq(Seq(R)),
         Maps(G, C, seqs, mapped)
  PROVE  FlattenSeq(seqs) \in C /\ FlattenSeq(mapped) = G[FlattenSeq(seqs)]
<1> DEFINE n == Len(seqs)
<1>0. (\A t \in C : t \in Seq(S) /\ G[t] \in Seq(R)) /\ Joint(G, C)
  BY DEF Through
<1>1. n \in Nat /\ n >= 1 /\ Len(mapped) = n
  BY DEF Maps
<1>2. mapped # <<>>
  <2>1. Len(mapped) # 0 /\ Len(<<>>) = 0
    BY <1>1
  <2>2. QED
    BY <2>1
<1>3. PICK f \in [1 .. n -> Seq(S)] : Flattens(f, seqs)
  BY FlattenExists
<1>4. FlattenSeq(seqs) = f[n]
  BY <1>3, FlattenIs
<1> HIDE DEF n
<1>5. \A i \in 1 .. n : f[i] = IF i = 1 THEN seqs[i] ELSE f[i - 1] \o seqs[i]
  BY <1>3 DEF Flattens, n
<1>6. \A i \in 1 .. n : seqs[i] \in C /\ mapped[i] = G[seqs[i]]
  BY DEF n, Maps
<1>7. \A i \in 1 .. n : i # 1 => i - 1 \in 1 .. n
  BY <1>1
<1> DEFINE P == {i \in 0 .. n : i = 0 \/ f[i] \in C}
<1>8. ASSUME NEW i \in 1 .. n, i - 1 \in P PROVE i \in P
  <2>1. i \in 0 .. n
    BY <1>1
  <2>2. CASE i = 1
    BY <1>5, <1>6, <2>1, <2>2
  <2>3. CASE i # 1
    <3>0. i - 1 # 0
      BY <2>3
    <3>1. f[i - 1] \in C /\ seqs[i] \in C /\ f[i] = f[i - 1] \o seqs[i]
      <4>1. f[i - 1] \in C
        BY <1>8, <3>0
      <4>2. f[i] = f[i - 1] \o seqs[i]
        BY <1>5, <2>3
      <4>3. QED
        BY <1>6, <4>1, <4>2
    <3>2. f[i - 1] \o seqs[i] \in C
      BY <1>0, <3>1, Zenon DEF Joint
    <3>3. QED
      BY <2>1, <3>1, <3>2
  <2>4. QED
    BY <2>2, <2>3
<1>9. \A i \in 1 .. n : f[i] \in C
  <2>1. 0 \in P
    BY <1>1
  <2>2. \A i \in 0 .. n : i \in P
    <3> HIDE DEF P
    <3> QED BY <1>1, <1>8, <2>1, UpTo
  <2>3. QED
    BY <1>1, <2>2
<1> DEFINE g == [i \in 1 .. n |-> G[f[i]]]
<1>10. \A i \in 1 .. n : g[i] = G[f[i]]
  OBVIOUS
<1>11. g = [i \in 1 .. n |-> g[i]]
  OBVIOUS
<1> HIDE DEF g
<1>12. \A i \in 1 .. n : g[i] = IF i = 1 THEN mapped[i] ELSE g[i - 1] \o mapped[i]
  <2> TAKE i \in 1 .. n
  <2>1. CASE i = 1
    <3>1. f[i] = seqs[i] /\ mapped[i] = G[seqs[i]] /\ g[i] = G[f[i]]
      BY <1>5, <1>6, <1>10, <2>1
    <3>2. QED
      BY <2>1, <3>1, Zenon
  <2>2. CASE i # 1
    <3>1. f[i - 1] \in C /\ seqs[i] \in C /\ f[i] = f[i - 1] \o seqs[i] /\ g[i - 1] = G[f[i - 1]]
      BY <1>5, <1>6, <1>7, <1>9, <1>10, <2>2
    <3>2. G[f[i - 1] \o seqs[i]] = G[f[i - 1]] \o G[seqs[i]]
      BY <1>0, <3>1, Zenon DEF Joint
    <3>3. g[i] = G[f[i - 1] \o seqs[i]]
      BY <1>10, <3>1
    <3>4. g[i] = g[i - 1] \o mapped[i]
      BY <1>6, <3>1, <3>2, <3>3
    <3>5. QED
      BY <2>2, <3>4
  <2>3. QED
    BY <2>1, <2>2
<1>13. Flattens(g, mapped)
  <2>1. g = [i \in 1 .. n |-> IF i = 1 THEN mapped[i] ELSE g[i - 1] \o mapped[i]]
    BY <1>11, <1>12
  <2>2. QED
    BY <1>1, <2>1 DEF Flattens
<1>14. FlattenSeq(mapped) = g[n]
  BY <1>1, <1>2, <1>13, FlattenIs DEF n
<1>15. QED
  BY <1>1, <1>4, <1>9, <1>10, <1>14

NewLine == <<Symbol("newline")>>
Rows(texts) == [i \in DOMAIN texts |-> texts[i] \o NewLine]
RowsAre(S, n, texts) ==
    /\ Rows(texts) \in Seq(Seq(S)) /\ Len(Rows(texts)) = n /\ Rows(texts) # <<>>
    /\ \A i \in 1 .. n : Rows(texts)[i] = texts[i] \o NewLine
    /\ Listed(texts) = FlattenSeq(Rows(texts))
    /\ NewLine \in Seq(S) /\ Len(NewLine) = 1
LEMMA RowsTyped ==
  ASSUME NEW S, Tokens \subseteq S, NEW n \in Nat \ {0}, NEW texts, DOMAIN texts = 1 .. n,
         \A i \in 1 .. n : texts[i] \in Seq(S)
  PROVE  RowsAre(S, n, texts)
<1> DEFINE rows == Rows(texts)
           X == Seq(S)
<1>1. NewLine \in X /\ Len(NewLine) = 1
  <2>1. Symbol("newline") \in S
    BY SymbolTokens
  <2>2. QED
    BY <2>1 DEF NewLine
<1>2. \A i \in 1 .. n : texts[i] \o NewLine \in X
  BY <1>1
<1>3. rows = [i \in 1 .. n |-> texts[i] \o NewLine]
  BY DEF Rows
<1>4. Listed(texts) = FlattenSeq(rows)
  BY DEF Listed, Rows, NewLine
<1> HIDE DEF rows, X
<1>5. \A i \in 1 .. n : rows[i] = texts[i] \o NewLine
  BY <1>3
<1>6. rows \in [1 .. n -> X]
  BY <1>2, <1>3
<1>7. \A m \in Nat : \A t \in [1 .. m -> X] : t \in Seq(X) /\ Len(t) = m
  OBVIOUS
<1>8. rows \in Seq(X) /\ Len(rows) = n
  BY <1>6, <1>7
<1>9. rows # <<>>
  <2>1. Len(rows) # 0 /\ Len(<<>>) = 0
    BY <1>8
  <2>2. QED
    BY <2>1
<1>10. QED
  BY <1>1, <1>4, <1>5, <1>8, <1>9 DEF rows, X, RowsAre

LEMMA PassTyped ==
  ASSUME NEW text \in Seq(Tokens)
  PROVE  Pass(text) \in Seq(Tokens)
<1>1. CASE text = <<>>
  <2>1. DOMAIN text = {}
    BY <1>1
  <2>2. Plain(text)
    BY <2>1 DEF Plain
  <2>3. QED
    BY <2>2, PassPlain
<1>2. CASE text # <<>>
  <2> DEFINE pieces == Pieces(text)
  <2>1. Pass(text) = FlattenSeq(pieces)
    BY DEF Pass, Pieces
  <2>2. pieces \in Seq(Seq(Tokens)) /\ pieces # <<>>
    BY <1>2, PiecesTyped
  <2> HIDE DEF pieces
  <2>3. PICK f \in [1 .. Len(pieces) -> Seq(Tokens)] : Flattens(f, pieces)
    BY <2>2, FlattenExists
  <2>4. FlattenSeq(pieces) = f[Len(pieces)]
    BY <2>2, <2>3, FlattenIs
  <2>5. Len(pieces) \in 1 .. Len(pieces)
    BY <2>2
  <2>6. QED
    BY <2>1, <2>3, <2>4, <2>5
<1>3. QED
  BY <1>1, <1>2

(* A pass over a list of lines is a pass over each.                        *)
Lines == {t \in Seq(Tokens) : t # <<>> /\ t[Len(t)] = Symbol("newline")}

LEMMA LinesJoin ==
  ASSUME NEW a \in Seq(Tokens), NEW b \in Lines
  PROVE  a \o b \in Lines
<1> DEFINE t == a \o b
<1>1. b \in Seq(Tokens) /\ Len(b) \in Nat /\ Len(b) >= 1 /\ b[Len(b)] = Symbol("newline")
  BY DEF Lines
<1>2. t \in Seq(Tokens) /\ Joined(t, a, b)
  BY <1>1, Concat
<1> HIDE DEF t
<1>3. Len(a) \in Nat
  OBVIOUS
<1>4. Len(t) = Len(a) + Len(b) /\ t[Len(a) + Len(b)] = b[Len(b)]
  BY <1>1, <1>2 DEF Joined
<1>5. t # <<>>
  <2>1. Len(t) # 0 /\ Len(<<>>) = 0
    BY <1>1, <1>3, <1>4
  <2>2. QED
    BY <2>1
<1>6. t \in Lines
  BY <1>1, <1>2, <1>4, <1>5 DEF Lines
<1>7. QED
  BY <1>6 DEF t

LEMMA PassListed ==
  ASSUME NEW n \in Nat \ {0}, NEW texts, DOMAIN texts = 1 .. n,
         \A i \in 1 .. n : texts[i] \in Seq(Tokens) /\ texts[i] # <<>> /\ Closed(texts[i], Len(texts[i]))
  PROVE  /\ Listed(texts) \in Seq(Tokens)
         /\ Pass(Listed(texts)) = Listed([i \in 1 .. n |-> Pass(texts[i])])
<1> DEFINE next == [i \in 1 .. n |-> Pass(texts[i])]
           rows == Rows(texts)
           after == Rows(next)
           G == [t \in Lines |-> Pass(t)]
<1>1. DOMAIN next = 1 .. n /\ \A i \in 1 .. n : next[i] = Pass(texts[i])
  OBVIOUS
<1> HIDE DEF next
<1>2. \A i \in 1 .. n : next[i] \in Seq(Tokens)
  BY <1>1, PassTyped
<1>3. /\ rows \in Seq(Seq(Tokens)) /\ Len(rows) = n /\ rows # <<>>
      /\ \A i \in 1 .. n : rows[i] = texts[i] \o NewLine
      /\ Listed(texts) = FlattenSeq(rows) /\ NewLine \in Seq(Tokens) /\ Len(NewLine) = 1
  <2>1. RowsAre(Tokens, n, texts)
    BY RowsTyped
  <2>2. QED
    BY <2>1 DEF RowsAre
<1>4. /\ after \in Seq(Seq(Tokens)) /\ Len(after) = n
      /\ \A i \in 1 .. n : after[i] = next[i] \o NewLine
      /\ Listed(next) = FlattenSeq(after)
  <2>1. RowsAre(Tokens, n, next)
    BY <1>1, <1>2, RowsTyped
  <2>2. QED
    BY <2>1 DEF RowsAre
<1> HIDE DEF rows, after
<1>5. NewLine \in Lines /\ NewLine # <<>> /\ Plain(NewLine)
  <2>1. NewLine # <<>> /\ NewLine[1] = Symbol("newline") /\ Symbol("newline") # Symbol("(")
    BY DEF NewLine, Symbol
  <2>2. DOMAIN NewLine = 1 .. 1
    BY DEF NewLine
  <2>3. Plain(NewLine)
    BY <2>1, <2>2 DEF Plain
  <2>4. NewLine \in Lines
    BY <1>3, <2>1 DEF Lines
  <2>5. QED
    BY <2>1, <2>3, <2>4
<1>6. Lines \in SUBSET Seq(Tokens) /\ \A t \in Lines : t # <<>> /\ Closed(t, Len(t))
  BY DEF Lines, Closed, Ends
<1>7. G \in [Lines -> Seq(Tokens)] /\ \A t \in Lines : G[t] = Pass(t)
  BY <1>6, PassTyped
<1> HIDE DEF G
<1>8. Joint(G, Lines)
  <2> SUFFICES ASSUME NEW a \in Lines, NEW b \in Lines
               PROVE  a \o b \in Lines /\ G[a \o b] = G[a] \o G[b]
    BY DEF Joint
  <2>1. a \o b \in Lines
    BY <1>6, LinesJoin
  <2>2. a \in Seq(Tokens) /\ b \in Seq(Tokens) /\ a # <<>> /\ b # <<>>
    BY <1>6
  <2>3. Apart(a, b)
    BY <1>6, <2>2, ClosedApart
  <2>4. PassJoins(a, b)
    BY <2>2, <2>3, PassConcat
  <2>5. G[a \o b] = Pass(a \o b) /\ G[a] = Pass(a) /\ G[b] = Pass(b)
    BY <1>7, <2>1
  <2>6. QED
    BY <2>1, <2>4, <2>5, Zenon DEF PassJoins
<1>9. ASSUME NEW i \in 1 .. n PROVE rows[i] \in Lines /\ after[i] = G[rows[i]]
  <2> DEFINE t == texts[i]
  <2>1. t \in Seq(Tokens) /\ t # <<>> /\ Closed(t, Len(t))
    OBVIOUS
  <2>2. rows[i] = t \o NewLine /\ after[i] = Pass(t) \o NewLine
    BY <1>1, <1>3, <1>4
  <2> HIDE DEF t
  <2>3. t \o NewLine \in Lines
    BY <1>5, <2>1, LinesJoin
  <2>4. Apart(t, NewLine)
    BY <1>3, <2>1, ClosedApart
  <2>5. PassJoins(t, NewLine)
    BY <1>3, <1>5, <2>1, <2>4, PassConcat
  <2>6. Pass(NewLine) = NewLine
    BY <1>3, <1>5, PassPlain
  <2>7. G[t \o NewLine] = Pass(t \o NewLine)
    BY <1>7, <2>3
  <2>8. G[t \o NewLine] = Pass(t) \o NewLine
    BY <2>5, <2>6, <2>7, Zenon DEF PassJoins
  <2>9. QED
    BY <2>2, <2>3, <2>8, Zenon
<1>10. FlattenSeq(rows) \in Lines /\ FlattenSeq(after) = G[FlattenSeq(rows)]
  <2>1. Maps(G, Lines, rows, after)
    BY <1>3, <1>4, <1>9 DEF Maps
  <2>2. Through(G, Lines, Tokens, Tokens)
    BY <1>6, <1>7, <1>8 DEF Through
  <2>3. QED
    BY <1>3, <1>4, <2>1, <2>2, FlattenMapped
<1>11. QED
  BY <1>3, <1>4, <1>6, <1>7, <1>10 DEF next

(* The passes that make up the second phase.                               *)
Passed(after, text) ==
    after[0] = text /\ \A k \in 1 .. MaxPasses : after[k] = Pass(after[k - 1])

LEMMA EvaluatedIs ==
  ASSUME NEW text \in Seq(Tokens)
  PROVE  \E after : Passed(after, text) /\ Evaluated(text) = after[MaxPasses]
<1> DEFINE D == 0 .. MaxPasses
           X == Seq(Tokens)
           H == [k \in D |-> [f \in [D -> X] |-> IF k = 0 THEN text ELSE Pass(f[k - 1])]]
           Fits(f) == f = [n \in 0 .. MaxPasses |-> IF n = 0 THEN text ELSE Pass(f[n - 1])]
           after == CHOOSE f : Fits(f)
<1>1. MaxPasses \in Nat /\ \A k \in D : k \in 0 .. MaxPasses /\ (k # 0 => k - 1 \in D /\ k - 1 < k)
  BY IntAssumption
<1>2. \A k \in D : \A f \in [D -> X] : H[k][f] = IF k = 0 THEN text ELSE Pass(f[k - 1])
  OBVIOUS
<1>3. text \in X /\ \A t \in X : Pass(t) \in X
  BY PassTyped
<1> HIDE DEF H, X
<1>4. Settles(H, D, X, MaxPasses)
  <2>1. ASSUME NEW k \in D, NEW f \in [D -> X] PROVE H[k][f] \in X
    BY <1>1, <1>2, <1>3
  <2>2. ASSUME NEW k \in D, NEW f \in [D -> X], NEW g \in [D -> X],
               \A j \in D : j < k => f[j] = g[j]
        PROVE  H[k][f] = H[k][g]
    <3>1. k # 0 => f[k - 1] = g[k - 1]
      BY <1>1, <2>2
    <3>2. QED
      BY <1>2, <3>1
  <2>3. QED
    BY <1>1, <1>3, <2>1, <2>2 DEF Settles
<1>5. PICK f \in [D -> X] : \A k \in D : f[k] = H[k][f]
  <2>1. Settled(H, D, X)
    BY <1>1, <1>4, Recursion
  <2>2. QED
    BY <2>1 DEF Settled
<1>6. Fits(f)
  <2>1. \A k \in D : f[k] = IF k = 0 THEN text ELSE Pass(f[k - 1])
    BY <1>2, <1>5
  <2>2. f = [k \in D |-> f[k]]
    OBVIOUS
  <2>3. QED
    BY <2>1, <2>2
<1>7. Fits(after)
  <2> HIDE DEF Fits
  <2> QED BY <1>6
<1>8. Evaluated(text) = after[MaxPasses]
  BY DEF Evaluated
<1> HIDE DEF after
<1>9. after[0] = text /\ \A k \in 1 .. MaxPasses : after[k] = Pass(after[k - 1])
  BY <1>1, <1>7
<1>10. QED
  BY <1>8, <1>9 DEF Passed

(* The second phase leaves of a sheet what its lines are worth where they  *)
(* stand, wherever that is.                                                *)
Standing(n, texts, before) == [i \in 1 .. n |-> texts[i][before[i]]]

LEMMA EvaluatedSheet ==
  ASSUME NEW sheet \in Sheets, NEW value, NEW worth, IsWorth(sheet, value, worth),
         NEW texts, AtPass(sheet, worth, texts, 0), NEW before \in [1 .. Len(sheet) -> Nat]
  PROVE  Evaluated(Listed(Standing(Len(sheet), texts, before)))
           = Listed([i \in DOMAIN sheet |-> Written(worth[i][before[i]])])
<1> DEFINE n == Len(sheet)
           At(w) == Standing(n, w, before)
           text == Listed(At(texts))
           Reached(k, t) == \E w : AtPass(sheet, worth, w, k) /\ t = Listed(At(w))
<1>1. n \in Nat \ {0} /\ DOMAIN sheet = 1 .. n /\ MaxPasses \in Nat
  BY SheetLines, IntAssumption
<1>2. ASSUME NEW k \in Nat, NEW w, AtPass(sheet, worth, w, k)
      PROVE  Listed(At(w)) \in Seq(Tokens) /\ Reached(k + 1, Pass(Listed(At(w))))
  <2> DEFINE next == [i \in 1 .. n |-> [p \in Nat |-> Pass(w[i][p])]]
             s == At(w)
             after == [i \in 1 .. n |-> Pass(s[i])]
  <2>1. AtPass(sheet, worth, next, k + 1)
    BY <1>2, OnePass
  <2>2. DOMAIN s = 1 .. n /\ \A i \in 1 .. n : s[i] \in Seq(Tokens) /\ s[i] # <<>> /\ Closed(s[i], Len(s[i]))
    <3>1. \A i \in 1 .. n : \A p \in Nat : Shape(w[i][p], worth[i][p])
      BY <1>2, Shapes
    <3>2. \A i \in 1 .. n : s[i] = w[i][before[i]] /\ before[i] \in Nat
      BY DEF Standing
    <3>3. \A i \in 1 .. n : Shape(s[i], worth[i][before[i]])
      BY <3>1, <3>2
    <3>4. QED
      BY <3>3 DEF Shape, Standing
  <2>3. after = At(next)
    BY DEF Standing
  <2>4. Listed(s) \in Seq(Tokens) /\ Pass(Listed(s)) = Listed(after)
    <3> HIDE DEF n, s
    <3> QED BY <1>1, <2>2, PassListed
  <2> HIDE DEF next, after, n
  <2>5. QED
    BY <2>1, <2>3, <2>4
<1>3. text \in Seq(Tokens)
  BY <1>2
<1>4. PICK after : Passed(after, text) /\ Evaluated(text) = after[MaxPasses]
  <2> HIDE DEF text
  <2> QED BY <1>3, EvaluatedIs
<1> DEFINE P == {k \in 0 .. MaxPasses : Reached(k, after[k])}
<1>5. 0 \in P
  <2>1. after[0] = Listed(At(texts))
    BY <1>4 DEF Passed
  <2>2. QED
    BY <1>1, <2>1
<1>6. ASSUME NEW k \in 1 .. MaxPasses, k - 1 \in P PROVE k \in P
  <2>1. PICK w : AtPass(sheet, worth, w, k - 1) /\ after[k - 1] = Listed(At(w))
    BY <1>6
  <2>2. after[k] = Pass(after[k - 1])
    BY <1>4 DEF Passed
  <2>3. k - 1 \in Nat /\ (k - 1) + 1 = k /\ k \in 0 .. MaxPasses
    BY <1>1
  <2> DEFINE j == k - 1
  <2>4. Reached(j + 1, Pass(Listed(At(w))))
    <3>1. j \in Nat /\ AtPass(sheet, worth, w, j)
      BY <2>1, <2>3
    <3> HIDE DEF j, Reached
    <3>2. QED
      BY <1>2, <3>1
  <2> HIDE DEF Reached, At
  <2>5. QED
    BY <2>1, <2>2, <2>3, <2>4
<1>7. Reached(MaxPasses, after[MaxPasses])
  <2> HIDE DEF P
  <2>1. \A k \in 0 .. MaxPasses : k \in P
    BY <1>1, <1>5, <1>6, UpTo
  <2>2. MaxPasses \in P
    BY <1>1, <2>1
  <2>3. QED
    BY <2>2 DEF P
<1>8. PICK w : AtPass(sheet, worth, w, MaxPasses) /\ after[MaxPasses] = Listed(At(w))
  BY <1>7
<1>9. \A i \in 1 .. n : At(w)[i] = Written(worth[i][before[i]])
  BY <1>8, LastPass DEF Standing
<1> DEFINE answer == [i \in DOMAIN sheet |-> Written(worth[i][before[i]])]
<1>10. DOMAIN At(w) = DOMAIN answer /\ \A i \in DOMAIN At(w) : At(w)[i] = answer[i]
  BY <1>1, <1>9 DEF Standing
<1>11. Listed(At(w)) = Listed(answer)
  <2> DEFINE s == At(w)
  <2>1. [i \in DOMAIN s |-> s[i] \o <<Symbol("newline")>>]
          = [i \in DOMAIN answer |-> answer[i] \o <<Symbol("newline")>>]
    <3> HIDE DEF answer, s
    <3> QED BY <1>10 DEF s
  <2>2. QED
    BY <2>1 DEF Listed
<1>12. QED
  BY <1>4, <1>8, <1>11

(* What the first phase makes of a token at a place, and of a text behind  *)
(* p tokens; what is got for the times has no variables in it.             *)
Swapped(token, got) == IF token.is = "variable" THEN got ELSE <<token>>
Replaced(text, value, p) == [i \in DOMAIN text |-> Swapped(text[i], value[p + i])]
SubstitutedAt(text, value, p) == FlattenSeq(Replaced(text, value, p))
Numeric(value) == \A p \in Nat : value[p] \in Seq(Tokens)

LEMMA MarkKinds ==
  /\ \A token \in Tokens : token.is # "variable"
  /\ \A v \in TimeNames : Variable(v).is = "variable" /\ Variable(v).of = v
<1>1. (\A c : Symbol(c).is # "variable") /\ (\A n : Number(n).is # "variable")
  BY DEF Symbol, Number
<1>2. \A token \in Tokens : token.is # "variable"
  BY <1>1 DEF Tokens
<1>3. QED
  BY <1>2 DEF Variable

LEMMA ReplacedTyped ==
  ASSUME NEW value, Numeric(value), NEW text \in Seq(Marks), NEW p \in Nat
  PROVE  /\ Replaced(text, value, p) \in Seq(Seq(Tokens))
         /\ Len(Replaced(text, value, p)) = Len(text)
         /\ \A i \in 1 .. Len(text) : Replaced(text, value, p)[i] = Swapped(text[i], value[p + i])
         /\ text # <<>> => Replaced(text, value, p) # <<>>
<1> DEFINE X == Seq(Tokens)
           t == Replaced(text, value, p)
           n == Len(text)
<1>1. DOMAIN text = 1 .. n /\ n \in Nat /\ (text # <<>> => n # 0) /\ \A i \in 1 .. n : text[i] \in Marks
  OBVIOUS
<1>2. \A token \in Marks : \A q \in Nat : Swapped(token, value[q]) \in X
  <2> SUFFICES ASSUME NEW token \in Marks, NEW q \in Nat PROVE Swapped(token, value[q]) \in X
    OBVIOUS
  <2>1. CASE token \in Tokens
    BY <2>1, MarkKinds DEF Swapped
  <2>2. CASE token \in {Variable(v) : v \in TimeNames}
    BY <2>2, MarkKinds DEF Swapped, Numeric
  <2>3. QED
    BY <2>1, <2>2 DEF Marks
<1>3. t = [i \in 1 .. n |-> Swapped(text[i], value[p + i])]
  BY <1>1 DEF Replaced
<1> HIDE DEF X, t, n
<1>4. t \in [1 .. n -> X] /\ \A i \in 1 .. n : t[i] = Swapped(text[i], value[p + i])
  BY <1>1, <1>2, <1>3
<1>5. \A m \in Nat : \A s \in [1 .. m -> X] : s \in Seq(X) /\ Len(s) = m
  OBVIOUS
<1>6. t \in Seq(X) /\ Len(t) = n
  BY <1>1, <1>4, <1>5
<1>7. Len(t) # 0 => t # <<>>
  OBVIOUS
<1>8. QED
  BY <1>1, <1>4, <1>6, <1>7 DEF X, t, n

SubstitutedJoins(a, b, value, p) ==
    SubstitutedAt(a \o b, value, p)
      = SubstitutedAt(a, value, p) \o SubstitutedAt(b, value, p + Len(a))
LEMMA SubstitutedConcat ==
  ASSUME NEW value, Numeric(value), NEW a \in Seq(Marks), NEW b \in Seq(Marks),
         a # <<>>, b # <<>>, NEW p \in Nat
  PROVE  /\ SubstitutedAt(a, value, p) \in Seq(Tokens)
         /\ SubstitutedAt(b, value, p + Len(a)) \in Seq(Tokens)
         /\ SubstitutedJoins(a, b, value, p)
<1> DEFINE m == Len(a)
           n == Len(b)
           t == a \o b
           q == p + m
           x == Replaced(a, value, p)
           y == Replaced(b, value, q)
           z == Replaced(t, value, p)
           X == Seq(Tokens)
<1>1. t \in Seq(Marks) /\ Joined(t, a, b) /\ m \in Nat /\ n \in Nat /\ q \in Nat
  BY Concat
<1> HIDE DEF t
<1>2. Len(t) = m + n /\ (\A i \in 1 .. m : t[i] = a[i]) /\ (\A i \in 1 .. n : t[m + i] = b[i])
  BY <1>1 DEF Joined
<1>3. /\ x \in Seq(X) /\ Len(x) = m /\ x # <<>> /\ \A i \in 1 .. m : x[i] = Swapped(a[i], value[p + i])
      /\ y \in Seq(X) /\ Len(y) = n /\ y # <<>> /\ \A i \in 1 .. n : y[i] = Swapped(b[i], value[q + i])
      /\ z \in Seq(X) /\ Len(z) = Len(t) /\ \A i \in 1 .. Len(t) : z[i] = Swapped(t[i], value[p + i])
  <2> HIDE DEF q
  <2> QED BY <1>1, ReplacedTyped
<1>4. /\ SubstitutedAt(a, value, p) = FlattenSeq(x) /\ SubstitutedAt(b, value, q) = FlattenSeq(y)
      /\ SubstitutedAt(t, value, p) = FlattenSeq(z)
  BY DEF SubstitutedAt
<1>0. q = p + m
  OBVIOUS
<1> HIDE DEF x, y, z, m, n, q
<1>5. FlattenSeq(x) \in X /\ FlattenSeq(y) \in X /\ FlattenSeq(x \o y) = FlattenSeq(x) \o FlattenSeq(y)
  BY <1>3, FlattenConcat
<1> HIDE DEF X
<1>6. z = x \o y
  <2> DEFINE w == x \o y
  <2>1. w \in Seq(X) /\ Joined(w, x, y)
    BY <1>3, Concat
  <2> HIDE DEF w
  <2>2. /\ Len(w) = m + n
        /\ \A i \in 1 .. m : w[i] = x[i]
        /\ \A i \in 1 .. n : w[m + i] = y[i]
    BY <1>3, <2>1 DEF Joined
  <2>3. ASSUME NEW i \in 1 .. m + n PROVE z[i] = w[i]
    <3>1. CASE i <= m
      <4>1. i \in 1 .. m
        BY <1>1, <3>1
      <4>2. w[i] = Swapped(a[i], value[p + i]) /\ z[i] = Swapped(t[i], value[p + i]) /\ t[i] = a[i]
        BY <1>2, <1>3, <2>2, <4>1
      <4>3. QED
        BY <4>2
    <3>2. CASE ~(i <= m)
      <4> DEFINE k == i - m
      <4>1. k \in 1 .. n /\ m + k = i /\ p + i = q + k
        BY <1>0, <1>1, <3>2
      <4> HIDE DEF k
      <4>2. w[m + k] = y[k] /\ y[k] = Swapped(b[k], value[q + k]) /\ t[m + k] = b[k]
        BY <1>2, <1>3, <2>2, <4>1
      <4>3. z[i] = Swapped(t[i], value[p + i])
        BY <1>2, <1>3
      <4>4. QED
        BY <4>1, <4>2, <4>3
    <3>3. QED
      BY <3>1, <3>2
  <2>4. z = w
    BY <1>2, <1>3, <2>1, <2>2, <2>3, SameSeq
  <2>5. QED
    BY <2>4 DEF w
<1>7. QED
  BY <1>4, <1>5, <1>6, Zenon DEF SubstitutedJoins, t, X, q, m

LEMMA SubstitutedPlain ==
  ASSUME NEW value, NEW text \in Seq(Tokens), NEW p
  PROVE  SubstitutedAt(text, value, p) = text
<1>1. \A i \in DOMAIN text : Swapped(text[i], value[p + i]) = <<text[i]>>
  BY MarkKinds DEF Swapped
<1>2. Replaced(text, value, p) = [i \in DOMAIN text |-> <<text[i]>>]
  BY <1>1 DEF Replaced
<1>3. QED
  BY <1>2, FlattenTokens DEF SubstitutedAt

LEMMA SubstitutedVariable ==
  ASSUME NEW value, Numeric(value), NEW v \in TimeNames, NEW p \in Nat
  PROVE  SubstitutedAt(<<Variable(v)>>, value, p) = value[p + 1]
<1> DEFINE text == <<Variable(v)>>
           x == Replaced(text, value, p)
           got == value[p + 1]
           f == [i \in 1 .. 1 |-> got]
<1>1. text \in Seq(Marks) /\ Len(text) = 1 /\ text[1] = Variable(v) /\ text # <<>>
  BY DEF Marks
<1>2. SubstitutedAt(text, value, p) = FlattenSeq(x)
  BY DEF SubstitutedAt
<1> HIDE DEF text
<1>3. x \in Seq(Seq(Tokens)) /\ Len(x) = 1 /\ x # <<>>
      /\ \A i \in 1 .. 1 : x[i] = Swapped(text[i], value[p + i])
  BY <1>1, ReplacedTyped
<1> HIDE DEF x
<1>4. x[1] = got
  BY <1>1, <1>3, MarkKinds DEF Swapped
<1> HIDE DEF got
<1>5. Flattens(f, x)
  BY <1>3, <1>4 DEF Flattens
<1>6. f[1] = got
  OBVIOUS
<1> HIDE DEF f
<1>7. FlattenSeq(x) = f[Len(x)]
  BY <1>3, <1>5, FlattenIs
<1>8. QED
  BY <1>2, <1>3, <1>6, <1>7 DEF text, got

LEMMA TokensMarks ==
  /\ Tokens \subseteq Marks
  /\ \A text \in Seq(Tokens) : text \in Seq(Marks)
<1>1. Tokens \subseteq Marks
  BY DEF Marks
<1>2. QED
  BY <1>1

LEMMA SpelledNonempty ==
  ASSUME NEW op \in Operators, NEW l \in Seq(Marks), NEW r \in Seq(Marks)
  PROVE  Spelled(op, l, r) # <<>>
<1> DEFINE t == Spelled(op, l, r)
           x == Symbol("(")
           y == Symbol(op)
           z == Symbol(")")
<1>1. x \in Marks /\ y \in Marks /\ z \in Marks
  BY SymbolTokens, TokensMarks
<1>2. t = Enclosed(x, l, y, r, z)
  BY DEF Spelled
<1> HIDE DEF t, x, y, z
<1>3. Laid(Enclosed(x, l, y, r, z), x, l, y, r, z)
  BY <1>1, Parts
<1>4. DOMAIN t = 1 .. Len(l) + Len(r) + 3
  BY <1>2, <1>3 DEF Laid
<1>5. Len(l) \in Nat /\ Len(r) \in Nat
  OBVIOUS
<1>6. 1 \in DOMAIN t /\ 1 \notin DOMAIN <<>>
  BY <1>4, <1>5
<1>7. QED
  BY <1>6 DEF t

(* The first phase replaces within an operation, and within each line.     *)
LEMMA SubstitutedSpelled ==
  ASSUME NEW value, Numeric(value), NEW op \in Operators, NEW p \in Nat,
         NEW l \in Seq(Marks), NEW r \in Seq(Marks), l # <<>>, r # <<>>
  PROVE  SubstitutedAt(Spelled(op, l, r), value, p)
           = Spelled(op, SubstitutedAt(l, value, p + 1), SubstitutedAt(r, value, p + (Len(l) + 2)))
<1> DEFINE e == <<Symbol("(")>>
           f == <<Symbol(op)>>
           g == <<Symbol(")")>>
           rg == r \o g
           frg == f \o rg
           lfrg == l \o frg
           X == Seq(Marks)
           Y == Seq(Tokens)
           pl == p + 1
           pf == pl + Len(l)
           pr == pf + 1
           pg == pr + Len(r)
           newl == SubstitutedAt(l, value, pl)
           newr == SubstitutedAt(r, value, pr)
<1>0. pl \in Nat /\ pf \in Nat /\ pr \in Nat /\ pg \in Nat /\ pr = p + (Len(l) + 2)
  OBVIOUS
<1>1. e \in Y /\ f \in Y /\ g \in Y /\ f # <<>> /\ g # <<>> /\ e # <<>> /\ Len(e) = 1 /\ Len(f) = 1
  BY SymbolTokens
<1>2. Spelled(op, l, r) = Five(e, l, f, r, g)
  BY DEF Spelled, Enclosed
<1>3. Spelled(op, newl, newr) = Five(e, newl, f, newr, g)
  BY DEF Spelled, Enclosed
<1> HIDE DEF e, f, g
<1>4. e \in X /\ f \in X /\ g \in X
  BY <1>1, TokensMarks
<1>5. rg \in X /\ frg \in X /\ lfrg \in X /\ rg # <<>> /\ frg # <<>> /\ lfrg # <<>>
  <2>1. \A x, y \in X : x # <<>> => x \o y \in X /\ x \o y # <<>>
    OBVIOUS
  <2> HIDE DEF X
  <2>0. l \in X /\ r \in X
    BY DEF X
  <2>2. rg \in X /\ rg # <<>>
    BY <1>4, <2>0, <2>1
  <2> HIDE DEF rg
  <2>3. frg \in X /\ frg # <<>>
    BY <1>1, <1>4, <2>1, <2>2
  <2> HIDE DEF frg
  <2>4. lfrg \in X /\ lfrg # <<>>
    BY <2>0, <2>1, <2>3
  <2>5. QED
    BY <2>2, <2>3, <2>4
<1>6. /\ SubstitutedAt(e, value, p) = e /\ SubstitutedAt(f, value, pf) = f
      /\ SubstitutedAt(g, value, pg) = g
  BY <1>1, SubstitutedPlain
<1> HIDE DEF pl, pf, pr, pg
<1>7. /\ SubstitutedJoins(r, g, value, pr) /\ newr \in Y
  BY <1>0, <1>1, <1>4, SubstitutedConcat
<1> HIDE DEF rg
<1>8. SubstitutedJoins(f, rg, value, pf)
  BY <1>0, <1>1, <1>4, <1>5, SubstitutedConcat
<1> HIDE DEF frg
<1>9. SubstitutedJoins(l, frg, value, pl) /\ newl \in Y
  BY <1>0, <1>5, SubstitutedConcat
<1> HIDE DEF lfrg
<1>10. SubstitutedJoins(e, lfrg, value, p)
  BY <1>1, <1>4, <1>5, SubstitutedConcat
<1>11. SubstitutedAt(e \o lfrg, value, p) = e \o (newl \o (f \o (newr \o g)))
  <2>1. SubstitutedAt(r \o g, value, pr) = newr \o g
    BY <1>6, <1>7, Zenon DEF SubstitutedJoins, pg
  <2>2. SubstitutedAt(f \o rg, value, pf) = f \o SubstitutedAt(rg, value, pr)
    BY <1>1, <1>6, <1>8, Zenon DEF SubstitutedJoins, pr
  <2>3. SubstitutedAt(l \o frg, value, pl) = newl \o SubstitutedAt(frg, value, pf)
    BY <1>9, Zenon DEF SubstitutedJoins, pf
  <2>4. SubstitutedAt(e \o lfrg, value, p) = e \o SubstitutedAt(lfrg, value, pl)
    BY <1>1, <1>6, <1>10, Zenon DEF SubstitutedJoins, pl
  <2> HIDE DEF newl, newr
  <2>5. QED
    BY <2>1, <2>2, <2>3, <2>4, Zenon DEF rg, frg, lfrg
<1>12. FromRight(e, l, f, r, g)
  BY <1>4, FiveRight
<1>13. FromRight(e, newl, f, newr, g)
  BY <1>1, <1>7, <1>9, FiveRight
<1>14. Five(e, l, f, r, g) = e \o lfrg
  BY <1>12, Zenon DEF FromRight, lfrg, frg, rg
<1>15. SubstitutedAt(Spelled(op, l, r), value, p) = Spelled(op, newl, newr)
  <2> HIDE DEF newl, newr
  <2> QED BY <1>2, <1>3, <1>11, <1>13, <1>14, Zenon DEF FromRight
<1>16. QED
  BY <1>0, <1>15 DEF pl

(* The places of the lines of a list.                                      *)
IsBefore(n, texts, before) ==
    \A i \in 1 .. n :
        /\ before[i] \in Nat
        /\ before[i] = IF i = 1 THEN 0 ELSE before[i - 1] + Len(texts[i - 1]) + 1

LEMMA BeforeIs ==
  ASSUME NEW n \in Nat \ {0}, NEW texts, DOMAIN texts = 1 .. n,
         \A i \in 1 .. n : Len(texts[i]) \in Nat
  PROVE  IsBefore(n, texts, Before(texts))
<1> DEFINE D == 1 .. n
           Place(f, i) == IF i = 1 THEN 0 ELSE f[i - 1] + Len(texts[i - 1]) + 1
           H == [i \in D |-> [f \in [D -> Nat] |-> Place(f, i)]]
           Fits(f) == f = [i \in DOMAIN texts |->
                             IF i = 1 THEN 0 ELSE f[i - 1] + Len(texts[i - 1]) + 1]
           before == CHOOSE f : Fits(f)
<1>1. \A i \in D : \A f \in [D -> Nat] : H[i][f] = Place(f, i) /\ Place(f, i) \in Nat
  OBVIOUS
<1>2. \A i \in D : \A f, g \in [D -> Nat] :
          (\A j \in D : j < i => f[j] = g[j]) => Place(f, i) = Place(g, i)
  OBVIOUS
<1>3. \A f : Fits(f) <=> f = [i \in D |-> Place(f, i)]
  OBVIOUS
<1> HIDE DEF H, Place, Fits
<1>4. Settles(H, D, Nat, n)
  BY <1>1, <1>2 DEF Settles
<1>5. PICK f \in [D -> Nat] : \A i \in D : f[i] = H[i][f]
  <2> HIDE DEF D
  <2>1. Settled(H, D, Nat)
    BY <1>4, Recursion
  <2>2. QED
    BY <2>1 DEF Settled
<1>6. f = [i \in D |-> Place(f, i)]
  <2>1. \A i \in D : f[i] = Place(f, i)
    BY <1>1, <1>5
  <2>2. f = [i \in D |-> f[i]]
    OBVIOUS
  <2>3. QED
    BY <2>1, <2>2
<1>7. Fits(before)
  BY <1>3, <1>6
<1>8. Before(texts) = before
  BY Zenon DEF Before, Fits
<1> HIDE DEF before
<1>9. before = [i \in D |-> Place(before, i)]
  BY <1>3, <1>7
<1>10. \A i \in D : before[i] = Place(before, i)
  <2> DEFINE body == [i \in D |-> Place(before, i)]
  <2>1. \A i \in D : body[i] = Place(before, i)
    OBVIOUS
  <2>2. before = body
    BY <1>9
  <2> HIDE DEF body
  <2>3. QED
    BY <2>1, <2>2
<1> DEFINE P == {i \in 0 .. n : i = 0 \/ before[i] \in Nat}
<1>11. \A i \in 0 .. n : i \in P
  <2>1. 0 \in P
    OBVIOUS
  <2>2. ASSUME NEW i \in 1 .. n, i - 1 \in P PROVE i \in P
    <3>1. before[i] = Place(before, i)
      BY <1>10
    <3>2. CASE i = 1
      BY <3>1, <3>2 DEF Place
    <3>3. CASE i # 1
      <4>1. before[i - 1] \in Nat /\ Len(texts[i - 1]) \in Nat
        BY <2>2, <3>3
      <4>2. QED
        BY <3>1, <3>3, <4>1 DEF Place
    <3>4. QED
      BY <3>2, <3>3
  <2> HIDE DEF P
  <2>3. QED
    BY <2>1, <2>2, UpTo
<1>12. \A i \in 1 .. n : before[i] \in Nat
  BY <1>11
<1>13. QED
  BY <1>8, <1>10, <1>12 DEF IsBefore, Place

ListedAt(n, texts, value, before) == [i \in 1 .. n |-> SubstitutedAt(texts[i], value, before[i])]
LEMMA SubstitutedListed ==
  ASSUME NEW value, Numeric(value), NEW n \in Nat \ {0}, NEW texts, DOMAIN texts = 1 .. n,
         \A i \in 1 .. n : texts[i] \in Seq(Marks) /\ texts[i] # <<>>,
         NEW before, IsBefore(n, texts, before)
  PROVE  /\ Listed(texts) \in Seq(Marks)
         /\ SubstitutedAt(Listed(texts), value, 0) = Listed(ListedAt(n, texts, value, before))
<1> DEFINE next == ListedAt(n, texts, value, before)
           rows == Rows(texts)
           after == Rows(next)
           X == Seq(Marks)
<1>1. DOMAIN next = 1 .. n /\ \A i \in 1 .. n : next[i] = SubstitutedAt(texts[i], value, before[i])
  BY DEF ListedAt
<1> HIDE DEF next
<1>2. \A i \in 1 .. n : before[i] \in Nat /\ Len(texts[i]) \in Nat
  <2>1. \A i \in 1 .. n : Len(texts[i]) \in Nat
    OBVIOUS
  <2>2. QED
    BY <2>1 DEF IsBefore
<1>3. \A t \in X : \A p \in Nat : t # <<>> => SubstitutedAt(t, value, p) \in Seq(Tokens)
  BY SubstitutedConcat
<1>4. \A i \in 1 .. n : next[i] \in Seq(Tokens)
  BY <1>1, <1>2, <1>3
<1>5. /\ rows \in Seq(X) /\ Len(rows) = n /\ rows # <<>>
      /\ \A i \in 1 .. n : rows[i] = texts[i] \o NewLine
      /\ Listed(texts) = FlattenSeq(rows) /\ Len(NewLine) = 1
  <2>1. RowsAre(Marks, n, texts)
    BY TokensMarks, RowsTyped
  <2>2. QED
    BY <2>1 DEF RowsAre
<1>6. /\ after \in Seq(Seq(Tokens)) /\ Len(after) = n /\ after # <<>>
      /\ \A i \in 1 .. n : after[i] = next[i] \o NewLine
      /\ Listed(next) = FlattenSeq(after) /\ NewLine \in Seq(Tokens)
  <2>1. RowsAre(Tokens, n, next)
    BY <1>1, <1>4, RowsTyped
  <2>2. QED
    BY <2>1 DEF RowsAre
<1> HIDE DEF rows, after
<1>7. NewLine \in X /\ NewLine # <<>> /\ \A p : SubstitutedAt(NewLine, value, p) = NewLine
  BY <1>6, TokensMarks, SubstitutedPlain DEF NewLine
<1>8. PICK f \in [1 .. n -> X] : Flattens(f, rows)
  BY <1>5, FlattenExists
<1>9. PICK g \in [1 .. n -> Seq(Tokens)] : Flattens(g, after)
  BY <1>6, FlattenExists
<1>10. /\ FlattenSeq(rows) = f[n] /\ FlattenSeq(after) = g[n]
  BY <1>5, <1>6, <1>8, <1>9, FlattenIs
<1>11. \A i \in 1 .. n : /\ f[i] = IF i = 1 THEN rows[i] ELSE f[i - 1] \o rows[i]
                         /\ g[i] = IF i = 1 THEN after[i] ELSE g[i - 1] \o after[i]
  BY <1>5, <1>6, <1>8, <1>9 DEF Flattens
<1>17. \A a, b \in X : /\ a \o b \in X /\ Len(a \o b) = Len(a) + Len(b)
                       /\ a # <<>> => a \o b # <<>>
  OBVIOUS
(* A line with its newline.                                                *)
<1>12. ASSUME NEW i \in 1 .. n
       PROVE  /\ rows[i] \in X /\ rows[i] # <<>> /\ Len(rows[i]) = Len(texts[i]) + 1
              /\ after[i] = SubstitutedAt(rows[i], value, before[i])
  <2> DEFINE t == texts[i]
             p == before[i]
  <2>1. t \in X /\ t # <<>> /\ p \in Nat /\ Len(t) \in Nat
    BY <1>2
  <2>2. rows[i] = t \o NewLine /\ after[i] = SubstitutedAt(t, value, p) \o NewLine
    BY <1>1, <1>5, <1>6
  <2> HIDE DEF t, p
  <2>3. t \o NewLine \in X /\ t \o NewLine # <<>> /\ Len(t \o NewLine) = Len(t) + 1
    <3> HIDE DEF X
    <3>1. /\ t \o NewLine \in X /\ t \o NewLine # <<>>
          /\ Len(t \o NewLine) = Len(t) + Len(NewLine)
      BY <1>7, <1>17, <2>1, Zenon
    <3>2. QED
      BY <1>5, <3>1, Zenon
  <2>4. SubstitutedJoins(t, NewLine, value, p)
    BY <1>7, <2>1, SubstitutedConcat
  <2>5. SubstitutedAt(t \o NewLine, value, p) = SubstitutedAt(t, value, p) \o NewLine
    BY <1>7, <2>4, Zenon DEF SubstitutedJoins
  <2>6. QED
    BY <2>2, <2>3, <2>5 DEF t, p
(* The lines up to one.                                                    *)
<1> DEFINE Told(i) ==
             /\ f[i] # <<>> /\ Len(f[i]) = before[i] + Len(texts[i]) + 1
             /\ g[i] = SubstitutedAt(f[i], value, 0)
           P == {i \in 0 .. n : i = 0 \/ Told(i)}
<1>13. ASSUME NEW i \in 1 .. n, i = 1 \/ Told(i - 1) PROVE Told(i)
  <2>1. CASE i = 1
    <3>1. before[i] = 0
      BY <2>1 DEF IsBefore
    <3>2. f[i] = rows[i] /\ g[i] = after[i]
      BY <1>11, <2>1
    <3>3. QED
      BY <1>2, <1>12, <3>1, <3>2, SMTT(40)
  <2>2. CASE i # 1
    <3> DEFINE h == i - 1
               a == f[h]
               b == rows[i]
    <3>1. h \in 1 .. n /\ Told(h)
      BY <1>13, <2>2
    <3>2. before[i] = before[h] + Len(texts[h]) + 1
      BY <2>2 DEF IsBefore
    <3>3. f[i] = a \o b /\ g[i] = g[h] \o after[i]
      BY <1>11, <2>2
    <3>4. a \in X /\ a # <<>> /\ b \in X /\ b # <<>> /\ Len(b) = Len(texts[i]) + 1
      BY <1>12, <3>1
    <3>5. Len(a) = before[i] /\ g[h] = SubstitutedAt(a, value, 0)
          /\ after[i] = SubstitutedAt(b, value, before[i])
      BY <1>12, <3>1, <3>2
    <3> HIDE DEF a, b, h
    <3>6. SubstitutedJoins(a, b, value, 0)
      BY <3>4, SubstitutedConcat
    <3>7. 0 + Len(a) = before[i]
      BY <1>2, <3>5
    <3>8. SubstitutedAt(a \o b, value, 0) = g[h] \o after[i]
      BY <3>5, <3>6, <3>7, Zenon DEF SubstitutedJoins
    <3>9. a \o b # <<>> /\ Len(a \o b) = Len(a) + Len(b)
      <4> HIDE DEF X
      <4> QED BY <1>17, <3>4, Zenon
    <3>10. f[i] # <<>>
      BY <3>3, <3>9
    <3>11. Len(f[i]) = before[i] + Len(texts[i]) + 1
      <4>1. Len(f[i]) = before[i] + (Len(texts[i]) + 1)
        BY <3>3, <3>4, <3>5, <3>9, Zenon
      <4>2. \A x, y \in Nat : x + (y + 1) = x + y + 1
        OBVIOUS
      <4>3. before[i] + (Len(texts[i]) + 1) = before[i] + Len(texts[i]) + 1
        BY <1>2, <4>2, Zenon
      <4>4. QED
        BY <4>1, <4>3, Zenon
    <3>12. g[i] = SubstitutedAt(f[i], value, 0)
      BY <3>3, <3>8
    <3>13. QED
      BY <3>10, <3>11, <3>12
  <2>3. QED
    BY <2>1, <2>2
<1> HIDE DEF Told
<1>14. \A i \in 0 .. n : i \in P
  <2>1. 0 \in P
    OBVIOUS
  <2>2. ASSUME NEW i \in 1 .. n, i - 1 \in P PROVE i \in P
    BY <1>13, <2>2
  <2> HIDE DEF P
  <2>3. QED
    BY <2>1, <2>2, UpTo
<1>15. Told(n)
  BY <1>14
<1>16. QED
  BY <1>5, <1>6, <1>8, <1>10, <1>15 DEF Told, next

LEMMA ValueRight ==
  ASSUME NEW n \in Ints
  PROVE  ValueOf(Written(n)) = n
<1>1. n \in Int
  BY IntsInt
<1>2. ASSUME NEW m \in Int, Written(n) = Written(m) PROVE m = n
  <2>1. \/ Len(Written(n)) = 1 /\ Written(n)[1] = Number(n)
        \/ Len(Written(n)) = 2 /\ Written(n)[2] = Number(-n)
    BY <1>1, WrittenDigits
  <2>2. \/ Len(Written(m)) = 1 /\ Written(m)[1] = Number(m)
        \/ Len(Written(m)) = 2 /\ Written(m)[2] = Number(-m)
    BY WrittenDigits
  <2>3. Number(n) = Number(m) \/ Number(-n) = Number(-m)
    BY <1>2, <2>1, <2>2
  <2>4. /\ Number(n).n = n /\ Number(m).n = m
        /\ Number(-n).n = -n /\ Number(-m).n = -m
    BY DEF Number
  <2>5. n = m \/ -n = -m
    BY <2>3, <2>4
  <2>6. QED
    BY <1>1, <2>5
<1> DEFINE Spells(m) == Written(n) = Written(m)
<1>3. Spells(n) /\ \A m \in Ints : Spells(m) => m = n
  BY <1>2, IntsInt
<1>4. ValueOf(Written(n)) = CHOOSE m \in Ints : Spells(m)
  BY DEF ValueOf, Ints
<1> HIDE DEF Spells
<1>5. (CHOOSE m \in Ints : Spells(m)) = n
  BY <1>3
<1>6. QED
  BY <1>4, <1>5

(* Each line of a sheet as it is written, and after the first phase.       *)
LEMMA LayoutFull ==
  ASSUME NEW sheet \in Sheets
  PROVE  \A i \in 1 .. Len(sheet) : Layout(sheet)[i] # <<>>
<1> DEFINE layout == Layout(sheet)
<1>1. LaidOut(sheet, layout)
  BY LayoutIs
<1>2. \A i \in 1 .. Len(sheet) : layout[i] \in Seq(Marks)
  BY LayoutTyped
<1> HIDE DEF layout
<1>3. ASSUME NEW i \in 1 .. Len(sheet) PROVE layout[i] # <<>>
  <2> DEFINE line == sheet[i]
             u == layout[line.l]
             w == layout[line.r]
  <2>1. layout[i] = Line(line, u, w)
    BY <1>1 DEF LaidOut
  <2>2. IsLeaf(line) \/ IsNamed(line) \/ IsOperation(sheet, i)
    BY SheetLines
  <2>3. CASE IsLeaf(line)
    <3>1. Written(line.n) # <<>>
      BY <2>3, IntsInt, WrittenNoParen DEF IsLeaf
    <3>2. QED
      BY <2>1, <2>3, <3>1 DEF IsLeaf, Line
  <2>4. CASE IsNamed(line)
    <3>1. layout[i] = <<Variable(line.of)>>
      BY <2>1, <2>4 DEF IsNamed, Line
    <3>2. QED
      BY <3>1
  <2>5. CASE IsOperation(sheet, i)
    <3>1. line.op \in Operators /\ u \in Seq(Marks) /\ w \in Seq(Marks)
      BY <1>2, <2>5, SheetLines DEF IsOperation
    <3>2. Line(line, u, w) = Spelled(line.op, u, w)
      BY <3>1, OperatorNames DEF Line
    <3> HIDE DEF u, w
    <3>3. QED
      BY <2>1, <3>1, <3>2, SpelledNonempty
  <2>6. QED
    BY <2>2, <2>3, <2>4, <2>5
<1>4. QED
  BY <1>3 DEF layout

Firsts(sheet, value) ==
    [i \in 1 .. Len(sheet) |-> [p \in Nat |-> SubstitutedAt(Layout(sheet)[i], value, p)]]
LEMMA FirstPhase ==
  ASSUME NEW sheet \in Sheets, NEW times \in [Nat -> Ints], NEW worth,
         IsWorth(sheet, times, worth), NEW value, \A p \in Nat : value[p] = Written(times[p])
  PROVE  Numeric(value) /\ AtPass(sheet, worth, Firsts(sheet, value), 0)
<1> DEFINE layout == Layout(sheet)
           texts == Firsts(sheet, value)
<1>1. LaidOut(sheet, layout)
  BY LayoutIs
<1>2. \A i \in 1 .. Len(sheet) : layout[i] \in Seq(Marks) /\ layout[i] # <<>>
  BY LayoutTyped, LayoutFull
<1>3. DOMAIN texts = 1 .. Len(sheet)
      /\ \A i \in 1 .. Len(sheet) : \A p \in Nat : texts[i][p] = SubstitutedAt(layout[i], value, p)
  BY DEF Firsts
<1>7. \A i \in 1 .. Len(sheet) : Gap(sheet, i) = Len(layout[sheet[i].l]) + 2
  BY DEF Gap
<1> HIDE DEF texts, layout
<1>4. Numeric(value)
  <2> SUFFICES ASSUME NEW p \in Nat PROVE value[p] \in Seq(Tokens)
    BY DEF Numeric
  <2>1. times[p] \in Int
    BY IntsInt
  <2>2. QED
    BY <2>1, WrittenTokens
<1>5. ASSUME NEW i \in 1 .. Len(sheet), NEW p \in Nat
      PROVE  \/ texts[i][p] = Written(worth[i][p])
             \/ /\ IsOperation(sheet, i) /\ sheet[i].deep > 0
                /\ texts[i][p] = Spelled(sheet[i].op, texts[sheet[i].l][p + 1],
                                         texts[sheet[i].r][p + Gap(sheet, i)])
  <2> DEFINE line == sheet[i]
             u == layout[line.l]
             w == layout[line.r]
             q == p + Gap(sheet, i)
  <2>1. layout[i] = Line(line, u, w)
    BY <1>1 DEF LaidOut
  <2>2. worth[i][p] = Amount(line, times, p, worth[line.l][p + 1], worth[line.r][q])
    BY DEF IsWorth
  <2>3. IsLeaf(line) \/ IsNamed(line) \/ IsOperation(sheet, i)
    BY SheetLines
  <2>8. texts[i][p] = SubstitutedAt(layout[i], value, p)
    BY <1>3
  <2>4. CASE IsLeaf(line)
    <3>1. layout[i] = Written(line.n) /\ worth[i][p] = line.n
      BY <2>1, <2>2, <2>4 DEF IsLeaf, Line, Amount
    <3> DEFINE t == Written(line.n)
    <3>2. t \in Seq(Tokens)
      BY <2>4, IntsInt, WrittenTokens DEF IsLeaf
    <3> HIDE DEF t
    <3>3. SubstitutedAt(t, value, p) = t
      BY <3>2, SubstitutedPlain
    <3>4. QED
      BY <2>8, <3>1, <3>3 DEF t
  <2>5. CASE IsNamed(line)
    <3>1. layout[i] = <<Variable(line.of)>> /\ worth[i][p] = times[p + 1] /\ line.of \in TimeNames
      BY <2>1, <2>2, <2>5 DEF IsNamed, Line, Amount
    <3>2. SubstitutedAt(<<Variable(line.of)>>, value, p) = value[p + 1]
      BY <1>4, <3>1, SubstitutedVariable
    <3>3. value[p + 1] = Written(times[p + 1])
      OBVIOUS
    <3>4. QED
      BY <2>8, <3>1, <3>2, <3>3
  <2>6. CASE IsOperation(sheet, i)
    <3>1. /\ line.op \in Operators /\ line.l \in 1 .. Len(sheet) /\ line.r \in 1 .. Len(sheet)
          /\ line.deep > 0
      BY <2>6, SheetLines, IntAssumption DEF IsOperation
    <3>2. p + 1 \in Nat /\ q \in Nat /\ q = p + (Len(u) + 2)
      BY <1>7, <2>6, GapTyped
    <3> HIDE DEF q
    <3>3. /\ u \in Seq(Marks) /\ w \in Seq(Marks) /\ u # <<>> /\ w # <<>>
          /\ texts[line.l][p + 1] = SubstitutedAt(u, value, p + 1)
          /\ texts[line.r][q] = SubstitutedAt(w, value, q)
      BY <1>2, <1>3, <3>1, <3>2
    <3>4. Line(line, u, w) = Spelled(line.op, u, w)
      BY <3>1, OperatorNames DEF Line
    <3> HIDE DEF u, w
    <3>5. SubstitutedAt(Spelled(line.op, u, w), value, p)
            = Spelled(line.op, SubstitutedAt(u, value, p + 1), SubstitutedAt(w, value, q))
      BY <1>4, <3>1, <3>2, <3>3, SubstitutedSpelled
    <3>6. texts[i][p] = Spelled(line.op, texts[line.l][p + 1], texts[line.r][q])
      BY <2>1, <2>8, <3>3, <3>4, <3>5, Zenon
    <3>7. QED
      BY <2>6, <3>1, <3>6 DEF q
  <2>7. QED
    BY <2>3, <2>4, <2>5, <2>6
<1>6. QED
  BY <1>3, <1>4, <1>5 DEF AtPass, texts

(* What the clock said at each time of a text, as a number.                *)
Said(clock) == [p \in Nat |-> IF p \in DOMAIN clock THEN ValueOf(clock[p]) ELSE 0]

(* What is got at the times of a text is all that matters to it, if no     *)
(* other variables are in it.                                              *)
LEMMA TimesOnly ==
  ASSUME NEW text \in Seq(Marks), NEW value, NEW got,
         \A i \in Times(text) : value[i] = got[i]
  PROVE  Substituted(text, value) = SubstitutedAt(text, got, 0)
<1>1. ASSUME NEW i \in DOMAIN text
      PROVE  (IF text[i].is = "variable" THEN value[i] ELSE <<text[i]>>)
               = Swapped(text[i], got[0 + i])
  <2>1. i \in Nat /\ 0 + i = i /\ text[i] \in Marks
    OBVIOUS
  <2>2. CASE text[i] \in Tokens
    BY <2>2, MarkKinds DEF Swapped
  <2>3. CASE text[i] \in {Variable(v) : v \in TimeNames}
    <3>1. text[i].is = "variable" /\ text[i].of \in TimeNames
      BY <2>3, MarkKinds
    <3>2. i \in Times(text)
      BY <3>1 DEF Times, Variables
    <3>3. value[i] = got[0 + i]
      BY <2>1, <3>2
    <3>4. QED
      BY <3>1, <3>3 DEF Swapped
  <2>4. QED
    BY <2>1, <2>2, <2>3 DEF Marks
<1>2. [i \in DOMAIN text |-> IF text[i].is = "variable" THEN value[i] ELSE <<text[i]>>]
        = Replaced(text, got, 0)
  BY <1>1 DEF Replaced
<1>3. QED
  BY <1>2 DEF Substituted, SubstitutedAt

(* What interpolate makes of the text of a sheet, whatever the variables   *)
(* are and whatever the clock says at each place of a time: every line of  *)
(* it is what it is worth there, written, and nothing else of the text is  *)
(* changed.                                                                *)
THEOREM SheetSaid ==
  ASSUME NEW sheet \in Sheets, NEW clock \in [Times(SheetText(sheet)) -> ClockTexts],
         NEW value, \A i \in Times(SheetText(sheet)) : value[i] = clock[i]
  PROVE  Interpolate(SheetText(sheet), value)
           = Listed([i \in DOMAIN sheet |->
                Written(Worth(sheet, Said(clock))[i][Before(Layout(sheet))[i]])])
<1> DEFINE times == Said(clock)
           worth == Worth(sheet, times)
           layout == Layout(sheet)
           before == Before(layout)
           n == Len(sheet)
           text == SheetText(sheet)
           got == [p \in Nat |-> Written(times[p])]
           texts == Firsts(sheet, got)
<1>1. ASSUME NEW i \in Times(text)
      PROVE  /\ i \in Nat => times[i] \in Ints
             /\ i \in Nat => value[i] = Written(times[i])
  <2>1. PICK k \in Ints : clock[i] = Written(k)
    BY SheetsAssumption DEF Ints
  <2>2. ValueOf(Written(k)) = k
    BY ValueRight
  <2>3. i \in Nat => times[i] = ValueOf(clock[i])
    BY DEF Said
  <2>4. QED
    BY <2>1, <2>2, <2>3
<1>2. times \in [Nat -> Ints]
  <2>1. 0 \in Ints
    BY IntAssumption DEF Ints, IntMin
  <2>2. \A p \in Nat : times[p] \in Ints
    <3> SUFFICES ASSUME NEW p \in Nat PROVE times[p] \in Ints
      OBVIOUS
    <3>1. CASE p \in Times(text)
      BY <1>1, <3>1
    <3>2. CASE p \notin Times(text)
      BY <2>1, <3>2 DEF Said
    <3>3. QED
      BY <3>1, <3>2
  <2>3. QED
    BY <2>2 DEF Said
<1> HIDE DEF times
<1>3. IsWorth(sheet, times, worth)
  BY <1>2, WorthIs
<1>4. n \in Nat \ {0} /\ DOMAIN layout = 1 .. n
      /\ \A i \in 1 .. n : layout[i] \in Seq(Marks) /\ layout[i] # <<>>
  BY SheetLines, LayoutIs, LayoutTyped, LayoutFull DEF LaidOut
<1>5. text = Listed(layout)
  BY DEF SheetText
<1>6. \A p \in Nat : got[p] = Written(times[p])
  OBVIOUS
<1> HIDE DEF worth, got
<1>7. Numeric(got) /\ AtPass(sheet, worth, texts, 0)
  BY <1>2, <1>3, <1>6, FirstPhase
<1>8. \A i \in 1 .. n : \A p \in Nat : texts[i][p] = SubstitutedAt(layout[i], got, p)
  BY DEF Firsts
<1> HIDE DEF texts, layout
<1>9. IsBefore(n, layout, before)
  <2>1. \A i \in 1 .. n : Len(layout[i]) \in Nat
    BY <1>4
  <2> HIDE DEF n
  <2>2. QED
    BY <1>4, <2>1, BeforeIs
<1> HIDE DEF before, text
<1>10. text \in Seq(Marks) /\ SubstitutedAt(text, got, 0) = Listed(ListedAt(n, layout, got, before))
  <2> HIDE DEF n
  <2> QED BY <1>4, <1>5, <1>7, <1>9, SubstitutedListed
<1>11. \A i \in 1 .. n : before[i] \in Nat
  BY <1>9 DEF IsBefore
<1> DEFINE stand == [i \in 1 .. n |-> before[i]]
<1>12. stand \in [1 .. n -> Nat] /\ \A i \in 1 .. n : stand[i] = before[i]
  BY <1>11
<1>13. Standing(n, texts, stand) = ListedAt(n, layout, got, before)
  BY <1>8, <1>11, <1>12 DEF Standing, ListedAt
<1> HIDE DEF stand
<1>14. Evaluated(Listed(Standing(n, texts, stand)))
         = Listed([i \in DOMAIN sheet |-> Written(worth[i][stand[i]])])
  BY <1>3, <1>7, <1>12, EvaluatedSheet
<1>15. [i \in DOMAIN sheet |-> Written(worth[i][stand[i]])]
         = [i \in DOMAIN sheet |-> Written(worth[i][before[i]])]
  BY <1>12, SheetLines
<1>16. \A i \in Times(text) : value[i] = got[i]
  <2>1. \A i \in Times(text) : i \in Nat
    BY <1>10 DEF Times, Variables
  <2>2. QED
    BY <1>1, <1>6, <2>1 DEF text
<1>17. Substituted(text, value) = SubstitutedAt(text, got, 0)
  BY <1>10, <1>16, TimesOnly
<1>18. Interpolate(text, value) = Evaluated(Listed(Standing(n, texts, stand)))
  BY <1>10, <1>13, <1>17 DEF Interpolate
<1>19. QED
  BY <1>14, <1>15, <1>18 DEF worth, times, before, layout, text

(* What is said is what interpolate makes of the text at that time.        *)
SaysInterpolated ==
    last.did = "said" =>
        LET text == last.command.text IN
        /\ last.clock \in [Times(text) -> ClockTexts]
        /\ \E value : /\ \A i \in Times(text) : value[i] = last.clock[i]
                      /\ last.text = Interpolate(text, value)

LEMMA SaysInterpolatedStep ==
  ASSUME SaysInterpolated, [Next]_vars
  PROVE  SaysInterpolated'
<1>1. CASE UNCHANGED vars
  BY <1>1 DEF SaysInterpolated, vars
<1>2. ASSUME NEW d \in Daemons, Speak(d) PROVE SaysInterpolated'
  <2> DEFINE text == Command(d).text
  <2>1. PICK clock \in [Times(text) -> ClockTexts] :
            last' = [did |-> "said", command |-> Command(d), clock |-> clock,
                     text |-> Interpolate(text, TextsAt(d, text, clock)),
                     drawn |-> macro[d].drawn]
    BY <1>2 DEF Speak
  <2>2. \A i \in Times(text) : TextsAt(d, text, clock)[i] = clock[i]
    BY DEF TextsAt, Times
  <2> DEFINE value == TextsAt(d, text, clock)
  <2>3. /\ last'.clock = clock /\ last'.command.text = text
        /\ last'.text = Interpolate(text, value)
    BY <2>1
  <2> HIDE DEF value, text
  <2>4. \A i \in Times(text) : value[i] = last'.clock[i]
    BY <2>2, <2>3 DEF value
  <2>5. QED
    BY <2>3, <2>4 DEF SaysInterpolated
<1>3. ASSUME NEW d \in Daemons,
             \/ Start(d) \/ Kill(d) \/ Load(d) \/ Begin(d) \/ End(d)
             \/ RandomAssign(d) \/ Decide(d)
             \/ Read(d) \/ Truncate(d) \/ Write(d) \/ WriteFails(d)
      PROVE  SaysInterpolated'
  <2>1. CASE Decide(d)
    <3>1. last'.did = "decided"
      <4>1. PICK n, rolled : Branch(d, n, rolled)
        BY <2>1 DEF Decide
      <4>2. QED
        BY <4>1 DEF Branch
    <3>2. QED
      BY <3>1 DEF SaysInterpolated
  <2>2. CASE last' = Nothing
    BY <2>2 DEF SaysInterpolated, Nothing
  <2>3. QED
    BY <1>3, <2>1, <2>2 DEF Start, Kill, Load, Begin, End, RandomAssign, Read, Truncate, Write,
       WriteFails
<1>4. QED
  BY <1>1, <1>2, <1>3 DEF Next
----------------------------------------------------------------------------
(* Types.                                                                  *)

LEMMA SeqFacts ==
  ASSUME NEW S, NEW s \in Seq(S)
  PROVE  /\ Len(s) \in Nat /\ DOMAIN s = 1 .. Len(s) /\ (s # <<>> <=> Len(s) > 0)
         /\ \A i \in 1 .. Len(s) : s[i] \in S
         /\ \A e \in S : /\ Append(s, e) \in Seq(S) /\ Len(Append(s, e)) = Len(s) + 1
                        /\ Append(s, e) # <<>>
                        /\ Append(s, e)[Len(s) + 1] = e
                        /\ \A i \in 1 .. Len(s) : Append(s, e)[i] = s[i]
  OBVIOUS

LEMMA IntFacts ==
  /\ IntMax \in Nat /\ IntMin \in Int /\ IntMin < 0 /\ 0 \in Ints
  /\ \A n \in Ints : n \in Int /\ After(n) \in Ints
  /\ 0 .. FirstMax \subseteq Ints
  BY IntAssumption, ContextAssumption DEF Ints, IntMin, After

LEMMA IdleTyped == Idle \in Macros /\ Idle.place = "idle" /\ Idle.todo = <<>>
                   /\ \A v \in Names : Idle.drawn[v] = {} /\ Idle.rolled[v] = {}
<1>1. Unknown \in [Names -> SUBSET Ints] /\ <<>> \in Seq(Commands)
  BY DEF Unknown
<1>2. QED
  BY <1>1, IntFacts DEF Idle, Macro, Macros, Unknown

LEMMA FreshTyped ==
  ASSUME NEW s \in DOMAIN Scripts
  PROVE  Fresh(s) \in Contexts
<1> DEFINE texts == [v \in Names |-> IF v \in DOMAIN Scripts[s].globals
                                       THEN Scripts[s].globals[v] ELSE <<>>]
           ints == [v \in Names |-> 0]
<1>1. texts \in [Names -> Texts]
  BY DEF Texts, Assigned
<1>2. ints \in [Names -> Ints]
  BY IntFacts
<1>3. Fresh(s) = [ints |-> ints, texts |-> texts]
  BY DEF Fresh, NoContext
<1>4. QED
  BY <1>1, <1>2, <1>3 DEF Contexts

(* The command that is next, and what is left behind it.                   *)
LEMMA CommandTyped ==
  ASSUME Typed, NEW d \in Daemons, macro[d].todo # <<>>
  PROVE  /\ macro[d] \in Macros
         /\ Command(d) \in Commands /\ Tail(macro[d].todo) \in Seq(Commands)
         /\ Command(d).do \in {"increment", "random", "if"} => Command(d).name \in Names
         /\ Done(macro[d]) \in Macros
         /\ Done(macro[d]).place = "ready" /\ Done(macro[d]).context = macro[d].context
         /\ Done(macro[d]).drawn = macro[d].drawn /\ Done(macro[d]).rolled = macro[d].rolled
<1>1. macro[d] \in Macros /\ macro[d].todo \in Seq(Commands)
  BY DEF Typed, Macros
<1>2. Head(macro[d].todo) \in Commands /\ Tail(macro[d].todo) \in Seq(Commands)
  BY <1>1
<1>3. /\ Done(macro[d]).place = "ready" /\ Done(macro[d]).context = macro[d].context
      /\ Done(macro[d]).drawn = macro[d].drawn /\ Done(macro[d]).rolled = macro[d].rolled
  BY <1>1 DEF Done, Macros
<1>4. Done(macro[d]) \in Macros
  BY <1>1, <1>2 DEF Macros, Done
<1>5. QED
  BY <1>1, <1>2, <1>3, <1>4, ScriptsAssumption DEF Command

(* Deciding a condition puts one of the two branches before what is left.  *)
LEMMA DecideIs ==
  ASSUME NEW d \in Daemons, Decide(d)
  PROVE  /\ macro[d].place = "ready" /\ macro[d].todo # <<>>
         /\ Command(d).do \in {"if", "ifrandom"}
         /\ \E branch \in {Command(d).then, Command(d).else} :
                macro' = [macro EXCEPT ![d].todo = branch \o Tail(@)]
         /\ last'.did = "decided"
         /\ UNCHANGED <<alive, contexts, script, counter, changes, begun, issued, misfortunes>>
<1>1. PICK n, rolled : Branch(d, n, rolled)
  BY DEF Decide
<1>2. /\ macro[d].place = "ready" /\ macro[d].todo # <<>>
      /\ Command(d).do \in {"if", "ifrandom"}
  BY DEF Decide, Ready, Command
<1>3. UNCHANGED <<alive, contexts, script, counter, changes, begun, issued, misfortunes>>
  BY DEF Decide
<1>4. last'.did = "decided"
  BY <1>1 DEF Branch
<1>5. \E branch \in {Command(d).then, Command(d).else} :
          macro' = [macro EXCEPT ![d].todo = branch \o Tail(@)]
  BY <1>1 DEF Branch
<1>6. QED
  BY <1>2, <1>3, <1>4, <1>5

(* A context of a daemon with another int or text in it.                   *)
LEMMA ContextTyped ==
  ASSUME Typed, NEW d \in Daemons, macro[d].context \in DOMAIN contexts[d], NEW v \in Names
  PROVE  /\ Context(d) \in Contexts
         /\ \A n \in Ints : /\ [contexts EXCEPT ![d][macro[d].context].ints[v] = n]
                                 \in [Daemons -> Seq(Contexts)]
                            /\ [contexts EXCEPT ![d][macro[d].context].texts[v] = Written(n)]
                                 \in [Daemons -> Seq(Contexts)]
<1>1. contexts \in [Daemons -> Seq(Contexts)] /\ contexts[d] \in Seq(Contexts)
  BY DEF Typed
<1>2. \A c \in DOMAIN contexts[d] : contexts[d][c] \in Contexts
  BY <1>1
<1>3. ASSUME NEW x \in Contexts
      PROVE  [contexts EXCEPT ![d] = [contexts[d] EXCEPT ![macro[d].context] = x]]
               \in [Daemons -> Seq(Contexts)]
  BY <1>1, <1>3
<1>4. ASSUME NEW n \in Ints
      PROVE  /\ [Context(d) EXCEPT !.ints[v] = n] \in Contexts
             /\ [Context(d) EXCEPT !.texts[v] = Written(n)] \in Contexts
  <2>1. Written(n) \in Texts
    BY DEF Texts
  <2>2. QED
    BY <1>2, <2>1 DEF Contexts, Context
<1>5. \A n \in Ints : /\ [contexts EXCEPT ![d][macro[d].context].ints[v] = n]
                             \in [Daemons -> Seq(Contexts)]
                        /\ [contexts EXCEPT ![d][macro[d].context].texts[v] = Written(n)]
                             \in [Daemons -> Seq(Contexts)]
  <2> TAKE n \in Ints
  <2>1. [contexts EXCEPT ![d][macro[d].context].ints[v] = n] =
          [contexts EXCEPT ![d] = [contexts[d] EXCEPT ![macro[d].context] =
             [Context(d) EXCEPT !.ints[v] = n]]]
    BY DEF Context
  <2>2. [contexts EXCEPT ![d][macro[d].context].texts[v] = Written(n)] =
          [contexts EXCEPT ![d] = [contexts[d] EXCEPT ![macro[d].context] =
             [Context(d) EXCEPT !.texts[v] = Written(n)]]]
    BY DEF Context
  <2>3. QED
    BY <1>3, <1>4, <2>1, <2>2
<1>6. Context(d) \in Contexts
  BY <1>2 DEF Context
<1>7. QED
  BY <1>5, <1>6
LEMMA TypedStep ==
  ASSUME Typed, NEW d \in Daemons, Placed(d), Step(d)
  PROVE  Typed'
<1>0. /\ alive \subseteq Daemons
      /\ contexts \in [Daemons -> Seq(Contexts)] /\ script \in [Daemons -> DOMAIN Scripts]
      /\ macro \in [Daemons -> Macros] /\ counter \in [Names -> Files]
      /\ issued \in [Names -> Seq(Ints)]
      /\ misfortunes \subseteq {"cut short", "not written", "two daemons"}
      /\ macro[d] \in Macros /\ contexts[d] \in Seq(Contexts) /\ script[d] \in DOMAIN Scripts
  BY DEF Typed
<1>1. CASE Start(d)
  <2>1. Fresh(script[d]) \in Contexts
    BY <1>0, FreshTyped
  <2>2. << Fresh(script[d]) >> \in Seq(Contexts)
    BY <2>1
  <2>3. contexts' \in [Daemons -> Seq(Contexts)]
    BY <1>0, <1>1, <2>2 DEF Start
  <2>4. UNCHANGED <<script, macro, counter, issued>> /\ alive' \subseteq Daemons
        /\ misfortunes' \subseteq {"cut short", "not written", "two daemons"}
    BY <1>0, <1>1 DEF Start
  <2>5. QED
    BY <1>0, <2>3, <2>4 DEF Typed
<1>2. CASE Kill(d)
  <2>1. contexts' \in [Daemons -> Seq(Contexts)] /\ macro' \in [Daemons -> Macros]
    <3>1. <<>> \in Seq(Contexts)
      OBVIOUS
    <3>2. QED
      BY <1>0, <1>2, <3>1, IdleTyped DEF Kill
  <2>2. UNCHANGED <<script, counter, issued>> /\ alive' \subseteq Daemons
        /\ misfortunes' \subseteq {"cut short", "not written", "two daemons"}
    BY <1>0, <1>2 DEF Kill
  <2>3. QED
    BY <1>0, <2>1, <2>2 DEF Typed
<1>3. CASE Load(d)
  <2>1. PICK s \in DOMAIN Scripts : /\ script' = [script EXCEPT ![d] = s]
                                    /\ contexts' = [contexts EXCEPT ![d] = Append(@, Fresh(s))]
    BY <1>3 DEF Load
  <2>2. Fresh(s) \in Contexts
    BY FreshTyped
  <2>3. Append(contexts[d], Fresh(s)) \in Seq(Contexts)
    BY <1>0, <2>2, SeqFacts
  <2>4. contexts' \in [Daemons -> Seq(Contexts)] /\ script' \in [Daemons -> DOMAIN Scripts]
    BY <1>0, <2>1, <2>3
  <2>5. UNCHANGED <<alive, macro, counter, issued, misfortunes>>
    BY <1>3 DEF Load
  <2>6. QED
    BY <1>0, <2>4, <2>5 DEF Typed
<1>4. CASE Begin(d)
  <2>1. PICK m \in Scripts[script[d]].macros :
          macro' = [macro EXCEPT ![d] = Macro("ready", m, Len(contexts[d]), 0, Unknown, Unknown)]
    BY <1>4 DEF Begin
  <2>2. m \in Seq(Commands) /\ Len(contexts[d]) \in Nat
    <3>1. Scripts[script[d]].macros \subseteq Seq(Commands)
      BY <1>0, ScriptsAssumption
    <3>2. QED
      BY <1>0, <3>1, SeqFacts
  <2>3. Macro("ready", m, Len(contexts[d]), 0, Unknown, Unknown) \in Macros
    <3>1. Unknown \in [Names -> SUBSET Ints]
      BY DEF Unknown
    <3>2. QED
      BY <2>2, <3>1, IntFacts DEF Macro, Macros
  <2>4. macro' \in [Daemons -> Macros]
    BY <1>0, <2>1, <2>3
  <2>5. UNCHANGED <<alive, contexts, script, counter, issued, misfortunes>>
    BY <1>4 DEF Begin
  <2>6. QED
    BY <1>0, <2>4, <2>5 DEF Typed
<1>5. CASE End(d)
  <2>1. macro' \in [Daemons -> Macros]
    BY <1>0, <1>5, IdleTyped DEF End
  <2>2. UNCHANGED <<alive, contexts, script, counter, issued, misfortunes>>
    BY <1>5 DEF End
  <2>3. QED
    BY <1>0, <2>1, <2>2 DEF Typed
<1>6. CASE RandomAssign(d)
  <2>1. PICK n \in Rolls(Command(d)) :
          /\ contexts' = [contexts EXCEPT ![d][macro[d].context].ints[Command(d).name] = n]
          /\ macro' = [macro EXCEPT ![d] = [Done(@) EXCEPT !.rolled[Command(d).name] = {n}]]
    BY <1>6 DEF RandomAssign
  <2>2. macro[d].todo # <<>> /\ Command(d).do = "random" /\ macro[d].place = "ready"
    BY <1>6 DEF RandomAssign, Ready, Command
  <2>3. /\ Command(d) \in Commands /\ Command(d).name \in Names
        /\ Done(macro[d]) \in Macros
    BY <2>2, CommandTyped
  <2>4. Command(d).lo \in Ints /\ Command(d).hi \in Ints
    BY <2>2, <2>3, ScriptsAssumption DEF Ints
  <2>5. n \in Ints
    BY <2>4, IntFacts DEF Ints, Rolls
  <2>6. macro[d].context \in DOMAIN contexts[d]
    BY <2>2 DEF Placed
  <2>7. contexts' \in [Daemons -> Seq(Contexts)]
    BY <2>1, <2>3, <2>5, <2>6, ContextTyped
  <2>8. [Done(macro[d]) EXCEPT !.rolled[Command(d).name] = {n}] \in Macros
    BY <2>3, <2>5 DEF Macros
  <2>9. macro' \in [Daemons -> Macros]
    BY <1>0, <2>1, <2>8
  <2>10. UNCHANGED <<alive, script, counter, issued, misfortunes>>
    BY <1>6 DEF RandomAssign
  <2>11. QED
    BY <1>0, <2>7, <2>9, <2>10 DEF Typed
<1>7. CASE Decide(d)
  <2>1. macro[d].todo # <<>> /\ Command(d).do \in {"if", "ifrandom"}
    BY <1>7, DecideIs
  <2>2. /\ Command(d) \in Commands /\ Tail(macro[d].todo) \in Seq(Commands)
    BY <2>1, CommandTyped
  <2>3. Command(d).then \in Seq(Commands) /\ Command(d).else \in Seq(Commands)
    BY <2>1, <2>2, ScriptsAssumption
  <2>4. PICK branch \in {Command(d).then, Command(d).else} :
          macro' = [macro EXCEPT ![d].todo = branch \o Tail(@)]
    BY <1>7, DecideIs
  <2>5. branch \o Tail(macro[d].todo) \in Seq(Commands)
    BY <2>2, <2>3
  <2>6. macro' \in [Daemons -> Macros]
    BY <1>0, <2>4, <2>5 DEF Macros
  <2>7. UNCHANGED <<alive, contexts, script, counter, issued, misfortunes>>
    BY <1>7, DecideIs
  <2>8. QED
    BY <1>0, <2>6, <2>7 DEF Typed
<1>8. CASE Read(d)
  <2>1. PICK n \in (IF IsNumber(counter[Command(d).name])
                      THEN {IF counter[Command(d).name].n = IntMax THEN IntMin
                            ELSE counter[Command(d).name].n + 1}
                      ELSE 0 .. FirstMax) :
          macro' = [macro EXCEPT ![d].place = "read", ![d].value = n]
    BY <1>8 DEF Read
  <2>2. macro[d].todo # <<>> /\ Command(d).do = "increment"
    BY <1>8 DEF Read, Ready, Command
  <2>3. Command(d).name \in Names
    BY <2>2, CommandTyped
  <2>4. counter[Command(d).name].n \in Ints
    BY <1>0, <2>3 DEF Files
  <2>5. n \in Ints
    BY <2>1, <2>4, IntFacts DEF After
  <2>6. macro' \in [Daemons -> Macros]
    BY <1>0, <2>1, <2>5 DEF Macros
  <2>7. UNCHANGED <<alive, contexts, script, counter, issued, misfortunes>>
    BY <1>8 DEF Read
  <2>8. QED
    BY <1>0, <2>6, <2>7 DEF Typed
<1>9. CASE Truncate(d)
  <2>1. macro[d].todo # <<>> /\ Command(d).do = "increment"
    BY <1>9 DEF Truncate, Placed, Counting
  <2>2. Command(d).name \in Names
    BY <2>1, CommandTyped
  <2>3. Cut \in Files
    BY IntFacts DEF Cut, Files
  <2>4. counter' \in [Names -> Files]
    BY <1>0, <1>9, <2>2, <2>3 DEF Truncate
  <2>5. macro' \in [Daemons -> Macros]
    BY <1>0, <1>9 DEF Truncate, Macros
  <2>6. UNCHANGED <<alive, contexts, script, issued, misfortunes>>
    BY <1>9 DEF Truncate
  <2>7. QED
    BY <1>0, <2>4, <2>5, <2>6 DEF Typed
<1>10. ASSUME Counting(d), Took(d)
       PROVE  contexts' \in [Daemons -> Seq(Contexts)] /\ macro' \in [Daemons -> Macros]
  <2>1. /\ macro[d].todo # <<>> /\ Command(d).do = "increment"
        /\ macro[d].context \in DOMAIN contexts[d]
    BY <1>10 DEF Placed, Counting
  <2>2. Command(d).name \in Names /\ Done(macro[d]) \in Macros
    BY <2>1, CommandTyped
  <2>3. macro[d].value \in Ints
    BY <1>0 DEF Macros
  <2>4. contexts' = [contexts EXCEPT ![d][macro[d].context].texts[Command(d).name] =
                       Written(macro[d].value)]
    BY <1>10 DEF Took
  <2>5. contexts' \in [Daemons -> Seq(Contexts)]
    BY <2>1, <2>2, <2>3, <2>4, ContextTyped
  <2>6. [Done(macro[d]) EXCEPT !.drawn[Command(d).name] = {macro[d].value}] \in Macros
    BY <2>2, <2>3 DEF Macros
  <2>7. macro' \in [Daemons -> Macros]
    BY <1>0, <1>10, <2>6 DEF Took
  <2>8. QED
    BY <2>5, <2>7
<1>11. CASE Write(d)
  <2>1. Counting(d) /\ Took(d) /\ macro[d].value \in Ints
    BY <1>0, <1>11 DEF Write, Counting, Macros
  <2>2. macro[d].todo # <<>> /\ Command(d).do = "increment"
    BY <2>1 DEF Placed
  <2>3. Command(d).name \in Names
    BY <2>2, CommandTyped
  <2>4. Holding(macro[d].value) \in Files
    BY <2>1 DEF Holding, Files
  <2>5. counter' \in [Names -> Files]
    BY <1>0, <1>11, <2>3, <2>4 DEF Write
  <2>6. Append(issued[Command(d).name], macro[d].value) \in Seq(Ints)
    <3>1. issued[Command(d).name] \in Seq(Ints)
      BY <1>0, <2>3
    <3>2. QED
      BY <2>1, <3>1, SeqFacts
  <2>7. issued' \in [Names -> Seq(Ints)]
    BY <1>0, <1>11, <2>3, <2>6 DEF Write
  <2>8. UNCHANGED <<alive, script, misfortunes>>
    BY <1>11 DEF Write
  <2>9. QED
    BY <1>0, <1>10, <2>1, <2>5, <2>7, <2>8 DEF Typed
<1>12. CASE WriteFails(d)
  <2>1. Counting(d) /\ Took(d)
    BY <1>12 DEF WriteFails, Counting
  <2>2. UNCHANGED <<alive, script, counter, issued>>
        /\ misfortunes' \subseteq {"cut short", "not written", "two daemons"}
    BY <1>0, <1>12 DEF WriteFails
  <2>3. QED
    BY <1>0, <1>10, <2>1, <2>2 DEF Typed
<1>13. CASE Speak(d)
  <2>1. macro[d].todo # <<>>
    BY <1>13 DEF Speak, Ready
  <2>2. Done(macro[d]) \in Macros
    BY <2>1, CommandTyped
  <2>3. macro' \in [Daemons -> Macros]
    BY <1>0, <1>13, <2>2 DEF Speak
  <2>4. UNCHANGED <<alive, contexts, script, counter, issued, misfortunes>>
    BY <1>13 DEF Speak
  <2>5. QED
    BY <1>0, <2>3, <2>4 DEF Typed
<1>14. QED
  BY <1>1, <1>2, <1>3, <1>4, <1>5, <1>6, <1>7, <1>8, <1>9, <1>11, <1>12, <1>13
     DEF Step
----------------------------------------------------------------------------
(* Where a macro is, and what stands in its context.                       *)

(* A step of one daemon leaves the others and their contexts alone.        *)
LEMMA OthersAlone ==
  ASSUME Typed, NEW d \in Daemons, Step(d), NEW e \in Daemons \ {d}
  PROVE  /\ macro'[e] = macro[e] /\ contexts'[e] = contexts[e]
         /\ e \in alive' <=> e \in alive
<1>1. macro \in [Daemons -> Macros] /\ contexts \in [Daemons -> Seq(Contexts)]
  BY DEF Typed
<1>2. CASE Start(d) \/ Kill(d) \/ Load(d)
  BY <1>1, <1>2 DEF Start, Kill, Load
<1>3. CASE Begin(d) \/ End(d) \/ Decide(d) \/ Read(d) \/ Truncate(d) \/ Speak(d)
  BY <1>1, <1>3, DecideIs DEF Begin, End, Read, Truncate, Speak
<1>4. CASE RandomAssign(d)
  BY <1>1, <1>4 DEF RandomAssign
<1>5. CASE Write(d) \/ WriteFails(d)
  BY <1>1, <1>5 DEF Write, WriteFails, Took
<1>6. QED
  BY <1>2, <1>3, <1>4, <1>5 DEF Step

LEMMA OthersKept ==
  ASSUME Typed, NEW d \in Daemons, Step(d), NEW e \in Daemons \ {d}, Placed(e), Kept(e)
  PROVE  Placed(e)' /\ Kept(e)'
<1>1. /\ macro'[e] = macro[e] /\ contexts'[e] = contexts[e]
      /\ e \in alive' <=> e \in alive
  BY OthersAlone
<1>2. QED
  BY <1>1 DEF Placed, Kept, Counting, Command, Context

(* Steps that leave the contexts and the history of the macro alone.       *)
LEMMA SameContext ==
  ASSUME NEW d \in Daemons, Placed(d), Kept(d), UNCHANGED <<alive, contexts>>,
         macro[d].place # "idle", macro'[d].place # "idle",
         macro'[d].context = macro[d].context, macro'[d].rolled = macro[d].rolled,
         macro'[d].drawn = macro[d].drawn,
         Counting(d)' => macro'[d].todo # <<>> /\ Head(macro'[d].todo).do = "increment"
  PROVE  Placed(d)' /\ Kept(d)'
<1>1. d \in alive
  BY IdleTyped DEF Placed
<1>2. QED
  BY <1>1 DEF Placed, Kept, Command, Context

LEMMA IdleKept ==
  ASSUME NEW d \in Daemons, macro'[d] = Idle, d \in alive' => contexts'[d] # <<>>
  PROVE  Placed(d)' /\ Kept(d)'
  BY IdleTyped DEF Placed, Kept, Counting

LEMMA OwnKept ==
  ASSUME Typed, NEW d \in Daemons, Step(d), Placed(d), Kept(d)
  PROVE  Placed(d)' /\ Kept(d)'
<1>0. /\ contexts \in [Daemons -> Seq(Contexts)] /\ contexts[d] \in Seq(Contexts)
      /\ macro \in [Daemons -> Macros] /\ macro[d] \in Macros
      /\ script[d] \in DOMAIN Scripts
  BY DEF Typed
<1>1. CASE Start(d)
  BY <1>0, <1>1, IdleKept DEF Start, Placed
<1>2. CASE Kill(d)
  BY <1>0, <1>2, IdleKept DEF Kill
<1>3. CASE End(d)
  <2>1. macro'[d] = Idle /\ UNCHANGED <<alive, contexts>>
    BY <1>0, <1>3 DEF End
  <2>2. QED
    BY <2>1, IdleKept DEF Placed
<1>4. CASE Load(d)
  <2>1. PICK s \in DOMAIN Scripts : contexts' = [contexts EXCEPT ![d] = Append(@, Fresh(s))]
    BY <1>4 DEF Load
  <2>2. Fresh(s) \in Contexts
    BY FreshTyped
  <2>3. contexts'[d] = Append(contexts[d], Fresh(s)) /\ contexts'[d] \in Seq(Contexts)
    BY <1>0, <2>1, <2>2, SeqFacts
  <2>4. /\ contexts'[d] # <<>>
        /\ \A c \in DOMAIN contexts[d] : c \in DOMAIN contexts'[d] /\ contexts'[d][c] = contexts[d][c]
    BY <1>0, <2>2, <2>3, SeqFacts
  <2>5. macro' = macro /\ alive' = alive
    BY <1>4 DEF Load
  <2>6. CASE macro[d].place = "idle"
    BY <2>4, <2>5, <2>6, IdleKept DEF Placed
  <2>7. CASE macro[d].place # "idle"
    BY <2>4, <2>5, <2>7 DEF Placed, Kept, Counting, Command, Context
  <2>8. QED
    BY <2>6, <2>7
<1>5. CASE Begin(d)
  <2>1. PICK m \in Scripts[script[d]].macros :
          macro' = [macro EXCEPT ![d] = Macro("ready", m, Len(contexts[d]), 0, Unknown, Unknown)]
    BY <1>5 DEF Begin
  <2>2. macro'[d] = Macro("ready", m, Len(contexts[d]), 0, Unknown, Unknown)
    BY <1>0, <2>1
  <2>3. /\ macro'[d].place = "ready" /\ macro'[d].context = Len(contexts[d])
        /\ macro'[d].drawn = Unknown /\ macro'[d].rolled = Unknown
    BY <2>2 DEF Macro
  <2>4. d \in alive /\ UNCHANGED <<alive, contexts>> /\ contexts[d] # <<>>
    BY <1>5 DEF Begin, Placed
  <2>5. Len(contexts[d]) \in DOMAIN contexts[d]
    BY <1>0, <2>4, SeqFacts
  <2>6. Placed(d)'
    BY <2>3, <2>4, <2>5 DEF Placed, Counting
  <2>7. Kept(d)'
    BY <2>3 DEF Kept, Unknown
  <2>8. QED
    BY <2>6, <2>7
<1>6. CASE RandomAssign(d)
  <2>1. PICK n : /\ contexts' = [contexts EXCEPT ![d][macro[d].context].ints[Command(d).name] = n]
                 /\ macro' = [macro EXCEPT ![d] = [Done(@) EXCEPT !.rolled[Command(d).name] = {n}]]
    BY <1>6 DEF RandomAssign
  <2>2. /\ macro[d].todo # <<>> /\ Command(d).do = "random" /\ macro[d].place = "ready"
        /\ alive' = alive
    BY <1>6 DEF RandomAssign, Ready, Command
  <2>3. /\ Command(d).name \in Names /\ Done(macro[d]) \in Macros
        /\ Done(macro[d]).place = "ready" /\ Done(macro[d]).context = macro[d].context
        /\ Done(macro[d]).drawn = macro[d].drawn /\ Done(macro[d]).rolled = macro[d].rolled
    BY <2>2, CommandTyped
  <2>4. macro[d].context \in DOMAIN contexts[d] /\ d \in alive
    BY <2>2, IdleTyped DEF Placed
  <2>5. Context(d) \in Contexts
    BY <1>0, <2>4, SeqFacts DEF Context
  <2>6. macro'[d] = [Done(macro[d]) EXCEPT !.rolled[Command(d).name] = {n}]
    BY <1>0, <2>1
  <2>7. /\ macro'[d].place = "ready" /\ macro'[d].context = macro[d].context
        /\ macro'[d].drawn = macro[d].drawn
        /\ \A v \in Names : macro'[d].rolled[v] =
              IF v = Command(d).name THEN {n} ELSE macro[d].rolled[v]
    BY <2>3, <2>6 DEF Macros
  <2>8. /\ DOMAIN contexts'[d] = DOMAIN contexts[d]
        /\ contexts'[d][macro[d].context] = [Context(d) EXCEPT !.ints[Command(d).name] = n]
    BY <1>0, <2>1, <2>4 DEF Context
  <2>9. /\ Context(d)'.texts = Context(d).texts
        /\ \A v \in Names : Context(d)'.ints[v] =
              IF v = Command(d).name THEN n ELSE Context(d).ints[v]
    BY <2>5, <2>7, <2>8 DEF Context, Contexts
  <2>10. Placed(d)'
    BY <2>2, <2>4, <2>7, <2>8 DEF Placed, Counting
  <2>11. Kept(d)'
    BY <2>7, <2>9 DEF Kept
  <2>12. QED
    BY <2>10, <2>11
<1>7. CASE Decide(d)
  <2>1. /\ macro[d].place = "ready" /\ UNCHANGED <<alive, contexts>>
        /\ \E branch : macro' = [macro EXCEPT ![d].todo = branch \o Tail(@)]
    BY <1>7, DecideIs
  <2>2. /\ macro'[d].place = "ready" /\ macro'[d].context = macro[d].context
        /\ macro'[d].rolled = macro[d].rolled /\ macro'[d].drawn = macro[d].drawn
    BY <1>0, <2>1 DEF Macros
  <2>3. QED
    BY <2>1, <2>2, SameContext DEF Counting
<1>8. CASE Read(d)
  <2>1. /\ macro[d].place = "ready" /\ UNCHANGED <<alive, contexts>>
        /\ macro[d].todo # <<>> /\ Head(macro[d].todo).do = "increment"
        /\ \E n : macro' = [macro EXCEPT ![d].place = "read", ![d].value = n]
    BY <1>8 DEF Read, Ready
  <2>2. /\ macro'[d].place = "read" /\ macro'[d].context = macro[d].context
        /\ macro'[d].rolled = macro[d].rolled /\ macro'[d].drawn = macro[d].drawn
        /\ macro'[d].todo = macro[d].todo
    BY <1>0, <2>1 DEF Macros
  <2>3. QED
    BY <2>1, <2>2, SameContext
<1>9. CASE Truncate(d)
  <2>1. /\ macro[d].place = "read" /\ UNCHANGED <<alive, contexts>>
        /\ macro' = [macro EXCEPT ![d].place = "truncated"]
    BY <1>9 DEF Truncate
  <2>2. /\ macro'[d].place = "truncated" /\ macro'[d].context = macro[d].context
        /\ macro'[d].rolled = macro[d].rolled /\ macro'[d].drawn = macro[d].drawn
        /\ macro'[d].todo = macro[d].todo
    BY <1>0, <2>1 DEF Macros
  <2>3. macro[d].todo # <<>> /\ Head(macro[d].todo).do = "increment"
    BY <2>1 DEF Placed, Counting, Command
  <2>4. QED
    BY <2>1, <2>2, <2>3, SameContext
<1>10. CASE Write(d) \/ WriteFails(d)
  <2>1. Counting(d) /\ Took(d) /\ alive' = alive
    BY <1>10 DEF Write, WriteFails, Counting
  <2>2. /\ macro[d].todo # <<>> /\ Command(d).do = "increment"
        /\ macro[d].context \in DOMAIN contexts[d] /\ d \in alive
    BY <2>1, IdleTyped DEF Placed, Counting
  <2>3. /\ Command(d).name \in Names /\ Done(macro[d]) \in Macros
        /\ Done(macro[d]).place = "ready" /\ Done(macro[d]).context = macro[d].context
        /\ Done(macro[d]).drawn = macro[d].drawn /\ Done(macro[d]).rolled = macro[d].rolled
    BY <2>2, CommandTyped
  <2>4. /\ contexts' = [contexts EXCEPT ![d][macro[d].context].texts[Command(d).name] =
                          Written(macro[d].value)]
        /\ macro' = [macro EXCEPT ![d] =
                       [Done(@) EXCEPT !.drawn[Command(d).name] = {macro[d].value}]]
    BY <2>1 DEF Took
  <2>5. Context(d) \in Contexts
    BY <1>0, <2>2, SeqFacts DEF Context
  <2>6. macro'[d] = [Done(macro[d]) EXCEPT !.drawn[Command(d).name] = {macro[d].value}]
    BY <1>0, <2>4
  <2>7. /\ macro'[d].place = "ready" /\ macro'[d].context = macro[d].context
        /\ macro'[d].rolled = macro[d].rolled
        /\ \A v \in Names : macro'[d].drawn[v] =
              IF v = Command(d).name THEN {macro[d].value} ELSE macro[d].drawn[v]
    BY <2>3, <2>6 DEF Macros
  <2>8. /\ DOMAIN contexts'[d] = DOMAIN contexts[d]
        /\ contexts'[d][macro[d].context] =
             [Context(d) EXCEPT !.texts[Command(d).name] = Written(macro[d].value)]
    BY <1>0, <2>2, <2>4 DEF Context
  <2>9. /\ Context(d)'.ints = Context(d).ints
        /\ \A v \in Names : Context(d)'.texts[v] =
              IF v = Command(d).name THEN Written(macro[d].value) ELSE Context(d).texts[v]
    BY <2>5, <2>7, <2>8 DEF Context, Contexts
  <2>10. Placed(d)'
    BY <2>1, <2>2, <2>7, <2>8 DEF Placed, Counting
  <2>11. Kept(d)'
    BY <2>7, <2>9 DEF Kept
  <2>12. QED
    BY <2>10, <2>11
<1>11. CASE Speak(d)
  <2>1. /\ macro[d].place = "ready" /\ UNCHANGED <<alive, contexts>> /\ macro[d].todo # <<>>
        /\ macro' = [macro EXCEPT ![d] = Done(@)]
    BY <1>11 DEF Speak, Ready
  <2>2. /\ macro'[d].place = "ready" /\ macro'[d].context = macro[d].context
        /\ macro'[d].rolled = macro[d].rolled /\ macro'[d].drawn = macro[d].drawn
    BY <1>0, <2>1, CommandTyped
  <2>3. QED
    BY <2>1, <2>2, SameContext DEF Counting
<1>12. QED
  BY <1>1, <1>2, <1>3, <1>4, <1>5, <1>6, <1>7, <1>8, <1>9, <1>10, <1>11 DEF Step
----------------------------------------------------------------------------
(* The files.                                                              *)

(* Steps that leave the files and the numbers alone, of a macro that is    *)
(* not in an increment, neither before nor after.                          *)
LEMMA FilesAlone ==
  ASSUME Typed, FilesExact, NEW d \in Daemons, Step(d), d \in alive, alive' = alive,
         UNCHANGED <<counter, issued, misfortunes>>,
         macro[d].place # "truncated", ~Counting(d)'
  PROVE  FilesExact'
<1> SUFFICES ASSUME misfortunes = {} PROVE FilesExact'
  BY DEF FilesExact
<1>1. \A e \in alive : e = d
  BY DEF FilesExact
<1>2. \A v \in Names : issued[v] # <<>> => counter[v] = Holding(LastIssued(v))
  BY <1>1 DEF FilesExact
<1>3. QED
  BY <1>1, <1>2 DEF FilesExact, LastIssued

LEMMA FilesStep ==
  ASSUME IInv, NEW d \in Daemons, Step(d)
  PROVE  FilesExact' /\ NumbersConsecutive'
<1>0. /\ macro \in [Daemons -> Macros] /\ macro[d] \in Macros
      /\ counter \in [Names -> Files] /\ issued \in [Names -> Seq(Ints)]
      /\ Typed /\ Placed(d) /\ FilesExact /\ NumbersConsecutive
  BY DEF IInv, Typed
<1>1. CASE Start(d)
  <2>1. UNCHANGED <<macro, counter, issued>> /\ alive' = alive \cup {d}
        /\ (misfortunes' = {} => misfortunes = {} /\ alive = {})
        /\ macro[d] = Idle
    BY <1>0, <1>1 DEF Start, Placed
  <2>2. NumbersConsecutive'
    BY <1>0, <2>1 DEF NumbersConsecutive
  <2>3. FilesExact'
    BY <1>0, <2>1, IdleTyped DEF FilesExact, Counting, LastIssued
  <2>4. QED
    BY <2>2, <2>3
<1>2. CASE Kill(d)
  <2>1. /\ UNCHANGED <<counter, issued>> /\ alive' = alive \ {d} /\ d \in alive
        /\ misfortunes' = {} => misfortunes = {} /\ macro[d].place # "truncated"
    BY <1>2 DEF Kill
  <2>2. NumbersConsecutive'
    BY <1>0, <2>1 DEF NumbersConsecutive
  <2>3. FilesExact'
    <3> SUFFICES ASSUME misfortunes' = {} PROVE FilesExact'
      BY DEF FilesExact
    <3>1. alive' = {} /\ alive = {d}
      BY <1>0, <2>1 DEF FilesExact
    <3>2. \A v \in Names : issued[v] # <<>> => counter[v] = Holding(LastIssued(v))
      BY <1>0, <2>1, <3>1 DEF FilesExact
    <3>3. QED
      BY <2>1, <3>1, <3>2 DEF FilesExact, LastIssued
  <2>4. QED
    BY <2>2, <2>3
<1>3. CASE Load(d)
  <2>1. UNCHANGED <<alive, macro, counter, issued, misfortunes>>
    BY <1>3 DEF Load
  <2>2. QED
    BY <1>0, <2>1 DEF FilesExact, NumbersConsecutive, Counting, Command, LastIssued
<1>4. CASE Begin(d) \/ End(d) \/ RandomAssign(d) \/ Decide(d) \/ Speak(d)
  <2>1. UNCHANGED <<alive, counter, issued, misfortunes>>
        /\ macro[d].place \in {"idle", "ready"}
    BY <1>4, DecideIs DEF Begin, End, RandomAssign, Speak, Ready
  <2>2. NumbersConsecutive'
    BY <1>0, <2>1 DEF NumbersConsecutive
  <2>3. ~Counting(d)'
    <3>1. CASE Begin(d)
      BY <1>0, <3>1 DEF Begin, Macro, Counting
    <3>2. CASE End(d)
      BY <1>0, <3>2, IdleTyped DEF End, Counting
    <3>3. CASE RandomAssign(d) \/ Speak(d)
      <4>1. macro[d].todo # <<>>
        BY <3>3 DEF RandomAssign, Speak, Ready
      <4>2. Done(macro[d]) \in Macros /\ Done(macro[d]).place = "ready"
        BY <1>0, <4>1, CommandTyped
      <4>3. CASE Speak(d)
        BY <1>0, <4>2, <4>3 DEF Speak, Counting
      <4>4. CASE RandomAssign(d)
        <5>1. PICK n : macro' = [macro EXCEPT ![d] =
                                   [Done(@) EXCEPT !.rolled[Command(d).name] = {n}]]
          BY <4>4 DEF RandomAssign
        <5>2. macro'[d].place = "ready"
          BY <1>0, <4>2, <5>1 DEF Macros
        <5>3. QED
          BY <5>2 DEF Counting
      <4>5. QED
        BY <3>3, <4>3, <4>4
    <3>4. CASE Decide(d)
      <4>1. macro[d].place = "ready" /\ \E todo : macro' = [macro EXCEPT ![d].todo = todo]
        BY <3>4, DecideIs
      <4>2. macro'[d].place = "ready"
        BY <1>0, <4>1 DEF Macros
      <4>3. QED
        BY <4>2 DEF Counting
    <3>5. QED
      BY <1>4, <3>1, <3>2, <3>3, <3>4
  <2>4. d \in alive
    <3>1. CASE Begin(d)
      BY <3>1 DEF Begin
    <3>2. CASE End(d) \/ RandomAssign(d) \/ Decide(d) \/ Speak(d)
      BY <1>0, <3>2, IdleTyped, DecideIs DEF End, RandomAssign, Speak, Ready, Placed
    <3>3. QED
      BY <1>4, <3>1, <3>2
  <2>5. FilesExact'
    BY <1>0, <2>1, <2>3, <2>4, FilesAlone
  <2>6. QED
    BY <2>2, <2>5
<1>5. CASE Read(d)
  <2>1. PICK n \in (IF IsNumber(counter[Command(d).name])
                      THEN {IF counter[Command(d).name].n = IntMax THEN IntMin
                            ELSE counter[Command(d).name].n + 1}
                      ELSE 0 .. FirstMax) :
          macro' = [macro EXCEPT ![d].place = "read", ![d].value = n]
    BY <1>5 DEF Read
  <2>2. /\ UNCHANGED <<alive, counter, issued, misfortunes>>
        /\ macro[d].place = "ready" /\ macro[d].todo # <<>> /\ Command(d).do = "increment"
    BY <1>5 DEF Read, Ready, Command
  <2>3. NumbersConsecutive'
    BY <1>0, <2>2 DEF NumbersConsecutive
  <2>4. /\ macro'[d].place = "read" /\ macro'[d].value = n /\ macro'[d].todo = macro[d].todo
    BY <1>0, <2>1 DEF Macros
  <2>5. Command(d)' = Command(d) /\ Command(d).name \in Names /\ d \in alive
    BY <1>0, <2>2, <2>4, CommandTyped, IdleTyped DEF Command, Placed
  <2>6. FilesExact'
    <3> SUFFICES ASSUME misfortunes = {} PROVE FilesExact'
      BY <2>2 DEF FilesExact
    <3>1. \A e \in alive : e = d
      BY <1>0, <2>5 DEF FilesExact
    <3>2. \A v \in Names : issued[v] # <<>> => counter[v] = Holding(LastIssued(v))
      BY <1>0, <2>2, <3>1 DEF FilesExact
    <3>3. ASSUME issued[Command(d).name] # <<>>
          PROVE  n = After(LastIssued(Command(d).name))
      <4>1. counter[Command(d).name] = Holding(LastIssued(Command(d).name))
        BY <2>5, <3>2, <3>3
      <4>2. QED
        BY <2>1, <4>1 DEF IsNumber, Holding, After
    <3>4. QED
      BY <2>2, <2>4, <2>5, <3>1, <3>2, <3>3 DEF FilesExact, LastIssued
  <2>7. QED
    BY <2>3, <2>6
<1>6. CASE Truncate(d)
  <2>1. /\ UNCHANGED <<alive, issued, misfortunes>> /\ macro[d].place = "read"
        /\ macro' = [macro EXCEPT ![d].place = "truncated"]
        /\ counter' = [counter EXCEPT ![Command(d).name] = Cut]
    BY <1>6 DEF Truncate
  <2>2. /\ macro'[d].place = "truncated" /\ macro'[d].value = macro[d].value
        /\ macro'[d].todo = macro[d].todo
    BY <1>0, <2>1 DEF Macros
  <2>3. Command(d)' = Command(d) /\ d \in alive /\ Counting(d)
    BY <1>0, <2>1, <2>2, IdleTyped DEF Command, Placed, Counting
  <2>4. NumbersConsecutive'
    BY <1>0, <2>1 DEF NumbersConsecutive
  <2>5. FilesExact'
    <3> SUFFICES ASSUME misfortunes = {} PROVE FilesExact'
      BY <2>1 DEF FilesExact
    <3>1. \A e \in alive : e = d
      BY <1>0, <2>3 DEF FilesExact
    <3>2. \A v \in Names : issued[v] # <<>> => counter[v] = Holding(LastIssued(v))
      BY <1>0, <2>1, <3>1 DEF FilesExact
    <3>3. \A v \in Names : v # Command(d).name => counter'[v] = counter[v]
      BY <1>0, <2>1
    <3>4. issued[Command(d).name] # <<>> => macro[d].value = After(LastIssued(Command(d).name))
      BY <1>0, <2>3 DEF FilesExact
    <3>5. \A v \in Names : issued[v] # <<>> =>
             \/ counter'[v] = Holding(LastIssued(v))
             \/ \E e \in alive : macro'[e].place = "truncated" /\ Command(e)'.name = v
      BY <2>2, <2>3, <3>2, <3>3
    <3>6. QED
      BY <2>1, <2>2, <2>3, <3>1, <3>4, <3>5 DEF FilesExact, LastIssued
  <2>6. QED
    BY <2>4, <2>5
<1>7. CASE Write(d)
  <2> DEFINE v == Command(d).name
             n == macro[d].value
  <2>1. /\ UNCHANGED <<alive, misfortunes>> /\ macro[d].place = "truncated"
        /\ counter' = [counter EXCEPT ![v] = Holding(n)]
        /\ issued' = [issued EXCEPT ![v] = Append(@, n)]
        /\ macro' = [macro EXCEPT ![d] = [Done(@) EXCEPT !.drawn[v] = {n}]]
    BY <1>7 DEF Write, Took
  <2>2. Counting(d) /\ macro[d].todo # <<>> /\ Command(d).do = "increment" /\ d \in alive
    BY <1>0, <2>1, IdleTyped DEF Placed, Counting
  <2>3. /\ v \in Names /\ n \in Ints /\ Done(macro[d]) \in Macros
        /\ Done(macro[d]).place = "ready"
    BY <1>0, <2>2, CommandTyped DEF Macros
  <2>4. macro'[d].place = "ready"
    BY <1>0, <2>1, <2>3 DEF Macros
  <2> HIDE DEF v, n
  <2>5. /\ issued[v] \in Seq(Ints) /\ issued'[v] = Append(issued[v], n)
        /\ \A w \in Names : w # v => issued'[w] = issued[w] /\ counter'[w] = counter[w]
        /\ counter'[v] = Holding(n)
    BY <1>0, <2>1, <2>3
  <2>6. /\ issued'[v] # <<>> /\ Len(issued'[v]) = Len(issued[v]) + 1
        /\ issued'[v][Len(issued[v]) + 1] = n
        /\ \A i \in 1 .. Len(issued[v]) : issued'[v][i] = issued[v][i]
        /\ Len(issued[v]) \in Nat /\ (issued[v] # <<>> <=> Len(issued[v]) > 0)
    BY <2>3, <2>5, SeqFacts
  <2>7. ASSUME misfortunes = {}
        PROVE  /\ \A e \in alive : e = d
               /\ \A w \in Names : w # v /\ issued[w] # <<>> =>
                      counter[w] = Holding(LastIssued(w))
               /\ issued[v] # <<>> => n = After(LastIssued(v))
    BY <1>0, <2>2, <2>7 DEF FilesExact, v, n
  <2>8. FilesExact'
    <3> SUFFICES ASSUME misfortunes = {} PROVE FilesExact'
      BY <2>1 DEF FilesExact
    <3>1. \A w \in Names : issued'[w] # <<>> => counter'[w] = Holding(issued'[w][Len(issued'[w])])
      BY <2>5, <2>6, <2>7 DEF LastIssued
    <3>2. \A e \in alive' : e = d /\ ~Counting(e)'
      BY <2>1, <2>4, <2>7 DEF Counting
    <3>3. QED
      BY <3>1, <3>2 DEF FilesExact, LastIssued
  <2>9. NumbersConsecutive'
    <3> SUFFICES ASSUME misfortunes = {}, NEW w \in Names, NEW i \in 1 .. Len(issued'[w]) - 1
                 PROVE  issued'[w][i + 1] = After(issued'[w][i])
      BY <2>1 DEF NumbersConsecutive, After
    <3>1. \A j \in 1 .. Len(issued[w]) - 1 : issued[w][j + 1] = After(issued[w][j])
      BY <1>0 DEF NumbersConsecutive, After
    <3>2. CASE w # v
      BY <2>5, <3>1, <3>2
    <3>3. CASE w = v /\ i \in 1 .. Len(issued[v]) - 1
      <4>1. i \in 1 .. Len(issued[v]) /\ i + 1 \in 1 .. Len(issued[v])
        BY <2>6, <3>3
      <4>2. QED
        BY <2>6, <3>1, <3>3, <4>1
    <3>4. CASE w = v /\ i = Len(issued[v])
      <4>1. issued[v] # <<>> /\ i \in 1 .. Len(issued[v])
        BY <2>6, <3>4
      <4>2. issued'[v][i] = LastIssued(v) /\ issued'[v][i + 1] = n
        BY <2>6, <3>4, <4>1 DEF LastIssued
      <4>3. QED
        BY <2>7, <3>4, <4>1, <4>2
    <3>5. w = v => i \in 1 .. Len(issued[v])
      BY <2>6
    <3>6. QED
      BY <2>6, <3>2, <3>3, <3>4, <3>5
  <2>10. QED
    BY <2>8, <2>9
<1>8. CASE WriteFails(d)
  BY <1>8 DEF WriteFails, FilesExact, NumbersConsecutive
<1>9. QED
  BY <1>1, <1>2, <1>3, <1>4, <1>5, <1>6, <1>7, <1>8 DEF Step
----------------------------------------------------------------------------
(* What was said and decided.                                              *)

(* A counter's name, said by a macro that drew a number from it.           *)
LEMMA SaysOwn ==
  ASSUME IInv, NEW d \in Daemons, NEW v \in Names, NEW clock, NEW n \in macro[d].drawn[v]
  PROVE  Interpolate(<<Variable(v)>>, TextsAt(d, <<Variable(v)>>, clock)) = Written(n)
<1>1. n \in Ints /\ Context(d).texts[v] = Written(n)
  <2>1. macro[d] \in Macros
    BY DEF IInv, Typed
  <2>2. macro[d].drawn[v] \subseteq Ints
    BY <2>1 DEF Macros
  <2>3. QED
    BY <2>2 DEF IInv, Kept
<1> DEFINE text == <<Variable(v)>>
           value == TextsAt(d, text, clock)
<1>2. value[1] = Written(n)
  <2>1. DOMAIN text = 1 .. 1 /\ text[1].is = "variable" /\ text[1].of = v
    BY DEF Variable
  <2> HIDE DEF text
  <2>2. 1 \in Variables(text) /\ 1 \notin Times(text)
    BY <2>1, ContextAssumption DEF Variables, Times
  <2>3. QED
    BY <1>1, <2>1, <2>2 DEF TextsAt
<1>3. Written(n) \in Seq(Tokens) /\ Plain(Written(n))
  BY <1>1, IntFacts, WrittenTokens, WrittenNoParen
<1> HIDE DEF value
<1>4. value[1] \in Seq(Tokens) /\ Plain(value[1])
  BY <1>2, <1>3
<1>5. Interpolate(<<Variable(v)>>, value) = value[1]
  BY <1>4, SaidPlain
<1>6. QED
  BY <1>2, <1>5 DEF value

LEMMA ToldStep ==
  ASSUME IInv, NEW d \in Daemons, Step(d)
  PROVE  BranchExact' /\ OwnNumber'
<1>1. CASE Decide(d)
  <2> DEFINE c == Command(d)
  <2>1. PICK n, rolled : Branch(d, n, rolled) /\ \A m \in rolled : m = n
    <3>1. CASE Ready(d, "if") /\ Branch(d, Context(d).ints[c.name], macro[d].rolled[c.name])
      <4>1. macro[d].todo # <<>> /\ c.do = "if"
        BY <3>1 DEF Ready, Command
      <4>2. c.name \in Names
        BY <4>1, CommandTyped DEF IInv
      <4>3. \A m \in macro[d].rolled[c.name] : Context(d).ints[c.name] = m
        BY <4>2 DEF IInv, Kept
      <4>4. QED
        BY <3>1, <4>3
    <3>2. CASE \E n \in Rolls(c) : Branch(d, n, {n})
      BY <3>2
    <3>3. QED
      BY <1>1, <3>1, <3>2 DEF Decide
  <2> HIDE DEF c
  <2>2. /\ last'.did = "decided" /\ last'.command = c /\ last'.rolled = rolled
        /\ last'.taken = Holds(c.op, n, c.cmp)
    BY <2>1 DEF Branch, c
  <2>3. \A m \in last'.rolled : last'.taken = Holds(last'.command.op, m, last'.command.cmp)
    BY <2>1, <2>2
  <2>4. QED
    BY <2>2, <2>3 DEF BranchExact, OwnNumber
<1>2. CASE Speak(d)
  <2> DEFINE text == Command(d).text
  <2>1. PICK clock \in [Times(text) -> ClockTexts] :
          last' = [did |-> "said", command |-> Command(d), clock |-> clock,
                   text |-> Interpolate(text, TextsAt(d, text, clock)),
                   drawn |-> macro[d].drawn]
    BY <1>2 DEF Speak
  <2>2. /\ last'.did = "said" /\ last'.command = Command(d) /\ last'.drawn = macro[d].drawn
        /\ last'.text = Interpolate(text, TextsAt(d, text, clock))
    BY <2>1
  <2>3. ASSUME NEW v \in Names, Command(d).text = <<Variable(v)>>, NEW n \in macro[d].drawn[v]
        PROVE  last'.text = Written(n)
    BY <2>2, <2>3, SaysOwn
  <2>4. QED
    BY <2>2, <2>3 DEF BranchExact, OwnNumber
<1>3. ASSUME last' = Nothing PROVE BranchExact' /\ OwnNumber'
  BY <1>3 DEF Nothing, BranchExact, OwnNumber
<1>4. Step(d) => Decide(d) \/ Speak(d) \/ last' = Nothing
  BY DEF Step, Start, Kill, Load, Begin, End, RandomAssign, Read, Truncate, Write, WriteFails
<1>5. QED
  BY <1>1, <1>2, <1>3, <1>4

----------------------------------------------------------------------------
(* The invariant holds.                                                    *)
LEMMA InitHolds == Init => IInv
<1> SUFFICES ASSUME Init PROVE IInv
  OBVIOUS
<1>1. Absent \in Files /\ Holding(IntMax - 1) \in Files
  BY IntFacts, IntAssumption DEF Absent, Holding, Files, Ints, IntMin
<1>2. <<>> \in Seq(Contexts) /\ <<>> \in Seq(Ints) /\ Len(<<>>) = 0 /\ 1 .. 0 - 1 = {}
  OBVIOUS
<1>3. counter \in [Names -> Files]
  BY <1>1 DEF Init
<1>4. Typed
  BY <1>2, <1>3, IdleTyped DEF Init, Typed
<1>5. \A d \in Daemons : Placed(d) /\ Kept(d)
  BY IdleTyped DEF Init, Placed, Kept, Counting
<1>6. FilesExact /\ NumbersConsecutive
  BY <1>2 DEF Init, FilesExact, NumbersConsecutive
<1>7. BranchExact /\ OwnNumber
  BY DEF Init, Nothing, BranchExact, OwnNumber
<1>8. QED
  BY <1>4, <1>5, <1>6, <1>7 DEF IInv

LEMMA StepKeeps == IInv /\ [Next]_vars => IInv'
<1> SUFFICES ASSUME IInv, [Next]_vars PROVE IInv'
  OBVIOUS
<1>1. CASE UNCHANGED vars
  <2>1. UNCHANGED <<alive, contexts, script, macro, counter, issued, misfortunes, last>>
    BY <1>1 DEF vars
  <2>2. Typed'
    BY <2>1 DEF IInv, Typed
  <2>3. \A d \in Daemons : Placed(d)' /\ Kept(d)'
    BY <2>1 DEF IInv, Placed, Kept, Counting, Command, Context
  <2>4. FilesExact' /\ NumbersConsecutive' /\ BranchExact' /\ OwnNumber'
    BY <2>1 DEF IInv, FilesExact, NumbersConsecutive, BranchExact, OwnNumber, Counting, Command,
       LastIssued
  <2>5. QED
    BY <2>2, <2>3, <2>4 DEF IInv
<1>2. CASE Next
  <2>1. PICK d \in Daemons : Step(d)
    BY <1>2 DEF Next, Step
  <2>2. Typed /\ \A e \in Daemons : Placed(e) /\ Kept(e)
    BY DEF IInv
  <2>3. Typed'
    BY <2>1, <2>2, TypedStep
  <2>4. ASSUME NEW e \in Daemons PROVE Placed(e)' /\ Kept(e)'
    BY <2>1, <2>2, OwnKept, OthersKept
  <2>5. QED
    BY <2>1, <2>3, <2>4, FilesStep, ToldStep DEF IInv
<1>3. QED
  BY <1>1, <1>2

----------------------------------------------------------------------------
(* The theorems.                                                           *)

(* What the daemons, their macros and the files of the counters are to one *)
(* another, for any scripts and however often daemons start, load and end. *)
THEOREM Inductive == Spec => []IInv
  BY InitHolds, StepKeeps, PTL DEF Spec

(* Every variable keeps its type: no counter and no variable of a script   *)
(* is ever outside of what an int can be, at the greatest int neither.     *)
THEOREM Types == Spec => []TypeOK
<1>1. IInv => TypeOK
  <2> SUFFICES ASSUME IInv PROVE TypeOK
    OBVIOUS
  <2>1. ASSUME NEW d \in Daemons
        PROVE  /\ macro[d].place \in {"idle", "ready", "read", "truncated"}
               /\ macro[d].place # "idle" => macro[d].context \in DOMAIN contexts[d]
               /\ macro[d].value \in IntMin .. IntMax
               /\ d \notin alive => macro[d] = Idle
    BY DEF IInv, Typed, Placed, Macros, Ints
  <2>2. ASSUME NEW d \in Daemons, NEW c \in DOMAIN contexts[d]
        PROVE  contexts[d][c].ints \in [Names -> IntMin .. IntMax]
    <3>1. contexts[d] \in Seq(Contexts)
      BY DEF IInv, Typed
    <3>2. contexts[d][c] \in Contexts
      BY <3>1
    <3>3. QED
      BY <3>2 DEF Contexts, Ints
  <2>3. \A v \in Names : counter[v].n \in IntMin .. IntMax
    BY DEF IInv, Typed, Files, Ints
  <2>4. QED
    BY <2>1, <2>2, <2>3 DEF IInv, Typed, TypeOK
<1>2. QED
  BY <1>1, Inductive, PTL

(* The numbers of a counter are consecutive over all scripts, macros,      *)
(* cancellations, reloads, kills and restarts, unless a file was cut short *)
(* or not written or two daemons ran at once.                              *)
THEOREM CountersCount == Spec => []NumbersConsecutive
<1>1. IInv => NumbersConsecutive
  BY DEF IInv
<1>2. QED
  BY <1>1, Inductive, PTL

(* What a macro says of a counter is the number it drew, with any number   *)
(* of daemons and whatever happens to the file.                            *)
THEOREM SaysWhatItDrew == Spec => []OwnNumber
<1>1. IInv => OwnNumber
  BY DEF IInv
<1>2. QED
  BY <1>1, Inductive, PTL

(* An If after a Random of the same macro decides by what was rolled,      *)
(* whatever was loaded in between.                                         *)
THEOREM DecidesByItsRoll == Spec => []BranchExact
<1>1. IInv => BranchExact
  BY DEF IInv
<1>2. QED
  BY <1>1, Inductive, PTL

(* An expression that a text has in parentheses, of numbers and times and  *)
(* of any depth that interpolate has passes for, is pasted as what it is   *)
(* worth by exact arithmetic, clamped to an int at each operation; however *)
(* many of them the text has, and whatever the clock said at each place of *)
(* a time in it.                                                           *)
THEOREM ArithmeticRight == Spec => []MathExact
<1>1. Init => SaysInterpolated
  BY DEF Init, Nothing, SaysInterpolated
<1>2. SaysInterpolated /\ [Next]_vars => SaysInterpolated'
  BY SaysInterpolatedStep
<1>3. SaysInterpolated => MathExact
  <2> SUFFICES ASSUME SaysInterpolated, last.did = "said",
                      NEW sheet \in Sheets, SheetTexts[sheet] = last.command.text
               PROVE  last.text = Listed([i \in DOMAIN sheet |->
                        Written(Worth(sheet, Said(last.clock))[i][Before(Layout(sheet))[i]])])
    BY Zenon DEF MathExact, Said
  <2> DEFINE text == last.command.text
  <2>1. text = SheetText(sheet)
    BY DEF SheetTexts
  <2>2. PICK value : /\ \A i \in Times(text) : value[i] = last.clock[i]
                     /\ last.text = Interpolate(text, value)
    BY DEF SaysInterpolated
  <2>3. last.clock \in [Times(text) -> ClockTexts]
    BY DEF SaysInterpolated
  <2> HIDE DEF text
  <2>4. QED
    BY <2>1, <2>2, <2>3, SheetSaid
<1>4. QED
  BY <1>1, <1>2, <1>3, PTL DEF Spec
=============================================================================
