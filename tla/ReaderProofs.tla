---------------------------- MODULE ReaderProofs ----------------------------
(***************************************************************************)
(* What parse_file does with the lines of a file of any length.  First, of *)
(* files whose lines may be anything: the order of what it returns, whose  *)
(* lines are whose, and that no trigger is lost.  Then, of files that are  *)
(* the layout of a program: texts, triggers and bodies are parsed back to  *)
(* what they were written from, each body is found to end where it does,   *)
(* and so what is read of the file is the meaning of the program.          *)
(***************************************************************************)
EXTENDS ScriptReference, WellFoundedInduction, TLAPS

----------------------------------------------------------------------------
(* The invariant.                                                          *)
IsSequence(s) == \E S : s \in Seq(S)

(* A list of hotstrings read from the first lines: in order, and no line   *)
(* under two bodies.                                                       *)
Within(list, lines) ==
    \A n \in DOMAIN list : list[n].line \in lines /\ list[n].body \subseteq lines
Ordered(list) == \A m, n \in DOMAIN list : m < n => list[m].line < list[n].line
Apart(list) ==
    \A m, n \in DOMAIN list :
        list[m].body \cap list[n].body = {} \/ list[m].body = list[n].body
WellRead(list, lines) ==
    IsSequence(list) /\ Within(list, lines) /\ Ordered(list) /\ Apart(list)

Read == 1 .. at - 1
PlaceTyped ==
    /\ source \in Seq(Lines)
    /\ at \in 1 .. Len(source) + 1
    /\ pending \in Seq(Nat)

(* The triggers that wait are below every one that was read, and in order. *)
Waiting ==
    /\ \A n \in DOMAIN pending : pending[n] \in Read
    /\ \A m, n \in DOMAIN pending : m < n => pending[m] < pending[n]
    /\ \A m \in DOMAIN hotstrings, n \in DOMAIN pending : hotstrings[m].line < pending[n]

(* What has become of the trigger on line i.                               *)
Has(list, i) == \E n \in DOMAIN list : i = list[n].line \/ i \in list[n].body
Taken(i) == Has(hotstrings, i)
Waits(i) == \E n \in DOMAIN pending : i = pending[n]
Accounted ==
    \A i \in Read : source[i].kind = "header" => i \in commented \/ Taken(i) \/ Waits(i)
AtTheEnd == outcome = "done" => at = Len(source) + 1 /\ pending = <<>>

IInv ==
    /\ PlaceTyped /\ WellRead(hotstrings, Read) /\ Waiting
    /\ Accounted /\ AtTheEnd

LEMMA InitHolds == Init => IInv
<1> SUFFICES ASSUME Init PROVE IInv
  OBVIOUS
<1>1. /\ <<>> \in Seq(Nat) /\ DOMAIN <<>> = {} /\ Len(source) \in Nat
      /\ source \in Seq(Lines) /\ at = 1
      /\ hotstrings = <<>> /\ pending = <<>> /\ outcome = "reading"
  BY DEF Init
<1>2. PlaceTyped
  BY <1>1 DEF PlaceTyped
<1>3. WellRead(hotstrings, Read)
  <2>1. IsSequence(hotstrings)
    BY <1>1 DEF IsSequence
  <2>2. QED
    BY <1>1, <2>1 DEF WellRead, Within, Ordered, Apart
<1>4. Waiting /\ AtTheEnd
  BY <1>1 DEF Waiting, AtTheEnd
<1>5. Accounted
  BY <1>1 DEF Accounted, Read
<1>6. QED
  BY <1>2, <1>3, <1>4, <1>5 DEF IInv

----------------------------------------------------------------------------
(* Lists of hotstrings.                                                    *)
LEMMA ConcatOf ==
  ASSUME NEW p, NEW q, IsSequence(p), IsSequence(q)
  PROVE  /\ IsSequence(p \o q)
         /\ Len(p) \in Nat /\ DOMAIN p = 1 .. Len(p)
         /\ Len(q) \in Nat /\ DOMAIN q = 1 .. Len(q)
         /\ DOMAIN (p \o q) = 1 .. Len(p) + Len(q)
         /\ \A i \in DOMAIN p : (p \o q)[i] = p[i]
         /\ \A i \in DOMAIN q : (p \o q)[Len(p) + i] = q[i]
<1>1. PICK S : p \in Seq(S)
  BY DEF IsSequence
<1>2. PICK T : q \in Seq(T)
  BY DEF IsSequence
<1> DEFINE U == S \cup T
<1>3. p \in Seq(U) /\ q \in Seq(U)
  BY <1>1, <1>2
<1> HIDE DEF U
<1>4. p \o q \in Seq(U)
  BY <1>3
<1>5. IsSequence(p \o q)
  BY <1>4 DEF IsSequence
<1>6. QED
  BY <1>3, <1>5

(* More hotstrings behind, of later lines and with one body, which no      *)
(* hotstring has yet.                                                      *)
LEMMA Extended ==
  ASSUME NEW p, NEW q, NEW lines, NEW more, NEW body,
         WellRead(p, lines), IsSequence(q), lines \subseteq more, more \subseteq Nat,
         Ordered(q), body \subseteq more, body \cap lines = {},
         \A n \in DOMAIN q : q[n].line \in more /\ q[n].body = body,
         \A m \in DOMAIN p, n \in DOMAIN q : p[m].line < q[n].line
  PROVE  WellRead(p \o q, more)
<1> DEFINE r == p \o q
<1>1. /\ IsSequence(p) /\ Within(p, lines) /\ Ordered(p) /\ Apart(p)
  BY DEF WellRead
<1>2. /\ IsSequence(r)
      /\ Len(p) \in Nat /\ DOMAIN p = 1 .. Len(p)
      /\ Len(q) \in Nat /\ DOMAIN q = 1 .. Len(q)
      /\ DOMAIN r = 1 .. Len(p) + Len(q)
      /\ \A i \in DOMAIN p : r[i] = p[i]
      /\ \A i \in DOMAIN q : r[Len(p) + i] = q[i]
  BY <1>1, ConcatOf
<1> HIDE DEF r
<1>3. \A i \in DOMAIN r : \/ i \in DOMAIN p
                          \/ i - Len(p) \in DOMAIN q /\ i > Len(p) /\ Len(p) + (i - Len(p)) = i
  BY <1>2
<1>4. \A i \in DOMAIN r : \/ i \in DOMAIN p /\ r[i] = p[i]
                          \/ i - Len(p) \in DOMAIN q /\ i > Len(p) /\ r[i] = q[i - Len(p)]
  BY <1>2, <1>3
<1>5. Within(r, more)
  <2> SUFFICES ASSUME NEW i \in DOMAIN r PROVE r[i].line \in more /\ r[i].body \subseteq more
    BY DEF Within
  <2>1. CASE i \in DOMAIN p /\ r[i] = p[i]
    BY <1>1, <2>1 DEF Within
  <2>2. CASE i - Len(p) \in DOMAIN q /\ r[i] = q[i - Len(p)]
    BY <2>2
  <2>3. QED
    BY <1>4, <2>1, <2>2
<1>6. Ordered(r)
  <2> SUFFICES ASSUME NEW i \in DOMAIN r, NEW j \in DOMAIN r, i < j PROVE r[i].line < r[j].line
    BY DEF Ordered
  <2>1. i \in Nat /\ j \in Nat
    BY <1>2
  <2>2. CASE j \in DOMAIN p /\ r[j] = p[j]
    <3>1. i \in DOMAIN p /\ r[i] = p[i]
      BY <1>2, <2>1, <2>2
    <3>2. QED
      BY <1>1, <2>2, <3>1 DEF Ordered
  <2>3. CASE j - Len(p) \in DOMAIN q /\ j > Len(p) /\ r[j] = q[j - Len(p)]
    <3>1. CASE i \in DOMAIN p /\ r[i] = p[i]
      BY <2>3, <3>1
    <3>2. CASE i - Len(p) \in DOMAIN q /\ i > Len(p) /\ r[i] = q[i - Len(p)]
      <4>1. i - Len(p) < j - Len(p)
        BY <1>2, <2>1
      <4>2. QED
        BY <2>3, <3>2, <4>1 DEF Ordered
    <3>3. QED
      BY <1>4, <3>1, <3>2
  <2>4. QED
    BY <1>4, <2>2, <2>3
<1>7. Apart(r)
  <2> SUFFICES ASSUME NEW i \in DOMAIN r, NEW j \in DOMAIN r
               PROVE  r[i].body \cap r[j].body = {} \/ r[i].body = r[j].body
    BY DEF Apart
  <2>1. \A k \in DOMAIN r : \/ k \in DOMAIN p /\ r[k] = p[k] /\ r[k].body \subseteq lines
                            \/ r[k].body = body
    BY <1>1, <1>4 DEF Within
  <2>2. CASE i \in DOMAIN p /\ r[i] = p[i] /\ j \in DOMAIN p /\ r[j] = p[j]
    BY <1>1, <2>2 DEF Apart
  <2>3. CASE r[i].body = body /\ (r[j].body \subseteq lines \/ r[j].body = body)
    BY <2>3
  <2>4. CASE r[j].body = body /\ (r[i].body \subseteq lines \/ r[i].body = body)
    BY <2>4
  <2>5. QED
    BY <2>1, <2>2, <2>3, <2>4
<1>8. QED
  BY <1>2, <1>5, <1>6, <1>7 DEF WellRead, r

(* Those of the triggers that wait, with the body they share.              *)
LEMMA HotstringOf ==
  ASSUME NEW i, NEW does, NEW body
  PROVE  Hotstring(i, does, body).line = i /\ Hotstring(i, does, body).body = body
  BY DEF Hotstring

LEMMA FlushedOf ==
  ASSUME NEW triggers \in Seq(Nat), NEW does, NEW body
  PROVE  /\ IsSequence(Flushed(triggers, does, body))
         /\ DOMAIN Flushed(triggers, does, body) = DOMAIN triggers
         /\ \A n \in DOMAIN triggers :
                /\ Flushed(triggers, does, body)[n].line = triggers[n]
                /\ Flushed(triggers, does, body)[n].body = body
<1> DEFINE f == Flushed(triggers, does, body)
           S == {f[n] : n \in DOMAIN triggers}
<1>1. f = [n \in DOMAIN triggers |-> Hotstring(triggers[n], does, body)]
  BY DEF Flushed
<1>2. Len(triggers) \in Nat /\ DOMAIN triggers = 1 .. Len(triggers)
  OBVIOUS
<1>3. f \in Seq(S)
  <2>1. f \in [1 .. Len(triggers) -> S]
    <3>1. \A n \in DOMAIN triggers : f[n] \in S
      OBVIOUS
    <3> HIDE DEF S
    <3>2. QED
      BY <1>1, <1>2, <3>1
  <2> HIDE DEF f, S
  <2>2. QED
    BY <1>2, <2>1
<1>4. IsSequence(f)
  BY <1>3 DEF IsSequence
<1>5. QED
  BY <1>1, <1>4, HotstringOf

LEMMA FlushedOrdered ==
  ASSUME NEW triggers \in Seq(Nat), NEW does, NEW body,
         \A m, n \in DOMAIN triggers : m < n => triggers[m] < triggers[n]
  PROVE  Ordered(Flushed(triggers, does, body))
  BY FlushedOf DEF Ordered

LEMMA HasJoined ==
  ASSUME NEW p, NEW q, IsSequence(p), IsSequence(q), NEW i, Has(p, i) \/ Has(q, i)
  PROVE  Has(p \o q, i)
<1>1. CASE Has(p, i)
  <2>1. PICK n \in DOMAIN p : i = p[n].line \/ i \in p[n].body
    BY <1>1 DEF Has
  <2>2. n \in DOMAIN (p \o q) /\ (p \o q)[n] = p[n]
    BY ConcatOf
  <2>3. QED
    BY <2>1, <2>2 DEF Has
<1>2. CASE Has(q, i)
  <2>1. PICK n \in DOMAIN q : i = q[n].line \/ i \in q[n].body
    BY <1>2 DEF Has
  <2>2. /\ Len(p) \in Nat /\ Len(q) \in Nat /\ DOMAIN q = 1 .. Len(q)
        /\ DOMAIN (p \o q) = 1 .. Len(p) + Len(q) /\ (p \o q)[Len(p) + n] = q[n]
    BY ConcatOf
  <2>3. Len(p) + n \in DOMAIN (p \o q)
    BY <2>2
  <2>4. QED
    BY <2>1, <2>2, <2>3 DEF Has
<1>3. QED
  BY <1>1, <1>2

LEMMA AppendJoins ==
  ASSUME NEW p, IsSequence(p), NEW x
  PROVE  Append(p, x) = p \o <<x>> /\ IsSequence(<<x>>)
<1>1. PICK S : p \in Seq(S)
  BY DEF IsSequence
<1> DEFINE U == S \cup {x}
<1>2. p \in Seq(U) /\ x \in U
  BY <1>1
<1> HIDE DEF U
<1>3. <<x>> \in Seq(U)
  BY <1>2
<1>4. Append(p, x) = p \o <<x>>
  BY <1>2
<1>5. QED
  BY <1>3, <1>4 DEF IsSequence

(* The hotstrings of some triggers are put behind those read so far.       *)
LEMMA Put ==
  ASSUME IInv, NEW triggers \in Seq(Nat), NEW does, NEW body, NEW more,
         Read \subseteq more, more \subseteq Nat,
         body \subseteq more, body \cap Read = {},
         \A n \in DOMAIN triggers : triggers[n] \in more,
         \A m, n \in DOMAIN triggers : m < n => triggers[m] < triggers[n],
         \A m \in DOMAIN hotstrings, n \in DOMAIN triggers : hotstrings[m].line < triggers[n]
  PROVE  LET list == hotstrings \o Flushed(triggers, does, body)
         IN  /\ WellRead(list, more)
             /\ \A i : Taken(i) => Has(list, i)
             /\ \A n \in DOMAIN triggers : Has(list, triggers[n])
             /\ \A i \in body : DOMAIN triggers # {} => Has(list, i)
<1> DEFINE q == Flushed(triggers, does, body)
<1>1. WellRead(hotstrings, Read) /\ IsSequence(hotstrings)
  BY DEF IInv, WellRead
<1>2. /\ IsSequence(q) /\ DOMAIN q = DOMAIN triggers
      /\ \A n \in DOMAIN triggers : q[n].line = triggers[n] /\ q[n].body = body
  BY FlushedOf
<1>3. Ordered(q)
  BY FlushedOrdered
<1> HIDE DEF q
<1>4. /\ \A n \in DOMAIN q : q[n].line \in more /\ q[n].body = body
      /\ \A m \in DOMAIN hotstrings, n \in DOMAIN q : hotstrings[m].line < q[n].line
  BY <1>2
<1>5. ASSUME NEW h, NEW f, NEW lines, WellRead(h, lines), IsSequence(f), lines \subseteq more,
             Ordered(f), body \cap lines = {},
             \A n \in DOMAIN f : f[n].line \in more /\ f[n].body = body,
             \A m \in DOMAIN h, n \in DOMAIN f : h[m].line < f[n].line
      PROVE  WellRead(h \o f, more)
  BY <1>5, Extended
<1>6. WellRead(hotstrings \o q, more)
  BY <1>1, <1>2, <1>3, <1>4, <1>5
<1>7. ASSUME NEW h, NEW f, NEW i, IsSequence(h), IsSequence(f), Has(h, i) \/ Has(f, i)
      PROVE  Has(h \o f, i)
  BY <1>7, HasJoined
<1>8. \A i : Has(hotstrings, i) \/ Has(q, i) => Has(hotstrings \o q, i)
  BY <1>1, <1>2, <1>7
<1>9. \A i : Taken(i) => Has(hotstrings \o q, i)
  BY <1>8 DEF Taken
<1>10. \A n \in DOMAIN triggers : Has(q, triggers[n])
  BY <1>2 DEF Has
<1>11. \A i \in body : DOMAIN triggers # {} => Has(q, i)
  BY <1>2 DEF Has
<1>12. QED
  BY <1>6, <1>8, <1>9, <1>10, <1>11 DEF q

LEMMA AppendOf ==
  ASSUME NEW s \in Seq(Nat), NEW i \in Nat, NEW t, t = Append(s, i)
  PROVE  /\ t \in Seq(Nat) /\ DOMAIN t # {}
         /\ \A n \in DOMAIN t : \/ n \in DOMAIN s /\ t[n] = s[n]
                                \/ n = Len(s) + 1 /\ t[n] = i
         /\ \A n \in DOMAIN s : n \in DOMAIN t /\ t[n] = s[n]
         /\ Len(s) + 1 \in DOMAIN t /\ t[Len(s) + 1] = i
         /\ \A m, n \in DOMAIN t : m < n => m \in DOMAIN s /\ t[m] = s[m]
<1>1. /\ t \in Seq(Nat) /\ DOMAIN t = 1 .. Len(s) + 1 /\ DOMAIN s = 1 .. Len(s)
      /\ Len(s) \in Nat /\ t[Len(s) + 1] = i /\ \A n \in DOMAIN s : t[n] = s[n]
  OBVIOUS
<1>2. Len(s) + 1 \in DOMAIN t
  BY <1>1
<1>3. \A n \in DOMAIN t : n \in DOMAIN s \/ n = Len(s) + 1
  BY <1>1
<1>4. \A m, n \in DOMAIN t : m < n => m \in DOMAIN s
  BY <1>1
<1>5. DOMAIN t # {}
  BY <1>2
<1>6. \A n \in DOMAIN s : n \in DOMAIN t
  BY <1>1
<1>7. /\ \A n \in DOMAIN t : \/ n \in DOMAIN s /\ t[n] = s[n]
                             \/ n = Len(s) + 1 /\ t[n] = i
      /\ \A n \in DOMAIN s : n \in DOMAIN t /\ t[n] = s[n]
      /\ \A m, n \in DOMAIN t : m < n => m \in DOMAIN s /\ t[m] = s[m]
  BY <1>1, <1>3, <1>4, <1>6
<1>8. QED
  BY <1>1, <1>2, <1>5, <1>7

(* The least of some lines is one of them.                                 *)
LEMMA MinOf ==
  ASSUME NEW T \in SUBSET Nat, T # {}
  PROVE  Min(T) \in T
<1> DEFINE R == {p \in Nat \X Nat : p[1] < p[2]}
<1>1. IsWellFoundedOn(R, Nat)
  BY NatLessThanWellFounded DEF OpToRel
<1>2. \A m, n \in Nat : <<m, n>> \notin R => n <= m
  OBVIOUS
<1> HIDE DEF R
<1>3. PICK n \in T : \A m \in T : <<m, n>> \notin R
  BY <1>1, WFMin
<1>4. \A m \in T : n <= m
  BY <1>2, <1>3
<1>5. QED
  BY <1>4 DEF Min

LEMMA NothingIsNoKind == "nothing" \notin Kinds
<1>1. "nothing" \notin DOMAIN Leading
  BY DEF Leading
<1>2. QED
  BY <1>1 DEF Kinds, Actions, Notes

LEMMA BodyEndAhead ==
  ASSUME source \in Seq(Lines), at \in 1 .. Len(source)
  PROVE  /\ BodyEnd \in at + 1 .. Len(source) + 1
         /\ Resume(BodyEnd) \in BodyEnd .. Len(source) + 1
         /\ Resume(BodyEnd) # BodyEnd =>
                Resume(BodyEnd) = BodyEnd + 1 /\ KindAt(BodyEnd) = "return"
<1> DEFINE ends == {i \in at + 1 .. Len(source) :
                      KindAt(i) \in {"header", "headernote", "return"} /\ Depth[i] = 0}
<1>0. Len(source) \in Nat /\ DOMAIN source = 1 .. Len(source)
  OBVIOUS
<1>1. BodyEnd = IF ends = {} THEN Len(source) + 1 ELSE Min(ends)
  BY DEF BodyEnd
<1>2. ends \subseteq at + 1 .. Len(source)
  OBVIOUS
<1> HIDE DEF ends
<1>3. ends # {} => Min(ends) \in ends
  BY <1>0, <1>2, MinOf
<1>4. BodyEnd \in at + 1 .. Len(source) + 1
  BY <1>0, <1>1, <1>2, <1>3
<1>5. KindAt(BodyEnd) = "return" => BodyEnd \in 1 .. Len(source)
  BY <1>0 DEF KindAt
<1>6. QED
  BY <1>0, <1>4, <1>5 DEF Resume

----------------------------------------------------------------------------
(* The steps.                                                              *)

(* A step over the line in hand, be it in a comment, an assignment or a    *)
(* line that means nothing here: no trigger is passed over uncommented.    *)
LEMMA PassedOver ==
  ASSUME IInv, at \in DOMAIN source, at' = at + 1, outcome = "reading",
         UNCHANGED <<source, outcome, pending, hotstrings>>,
         commented \subseteq commented',
         source[at].kind = "header" => at \in commented'
  PROVE  IInv'
<1>0. /\ source \in Seq(Lines) /\ Len(source) \in Nat /\ DOMAIN source = 1 .. Len(source)
      /\ at \in 1 .. Len(source) /\ pending \in Seq(Nat)
      /\ Read' = Read \cup {at} /\ Read' = 1 .. at
  BY DEF IInv, PlaceTyped, Read
<1>1. PlaceTyped'
  BY <1>0 DEF PlaceTyped
<1>2. WellRead(hotstrings, Read)'
  BY <1>0 DEF IInv, WellRead, Within, Ordered, Apart
<1>3. Waiting'
  BY <1>0 DEF IInv, Waiting
<1>4. Accounted'
  BY <1>0 DEF IInv, Accounted, Taken, Has, Waits
<1>5. AtTheEnd'
  BY DEF AtTheEnd
<1>6. QED
  BY <1>1, <1>2, <1>3, <1>4, <1>5 DEF IInv

(* The triggers above wait no longer, and the one in hand has its text.    *)
LEMMA InlineKept == IInv /\ Inline => IInv'
<1> SUFFICES ASSUME IInv, Inline PROVE IInv'
  OBVIOUS
<1> DEFINE list == hotstrings \o Flushed(pending, Nothing, {})
           x == InlineHotstring
<1>0. /\ source \in Seq(Lines) /\ Len(source) \in Nat /\ DOMAIN source = 1 .. Len(source)
      /\ at \in 1 .. Len(source) + 1 /\ pending \in Seq(Nat) /\ Waiting /\ Accounted
  BY DEF IInv, PlaceTyped
<1>1. /\ outcome = "reading" /\ KindAt(at) = "header"
      /\ hotstrings' = Append(list, x) /\ pending' = <<>> /\ at' = at + 1
      /\ UNCHANGED <<source, outcome, commented>>
  BY DEF Inline, HeaderRead, Reading
<1>2. at \in 1 .. Len(source) /\ Read' = 1 .. at /\ Read' = Read \cup {at}
  BY <1>0, <1>1 DEF KindAt, Read
<1>3. /\ WellRead(list, Read)
      /\ \A i : Taken(i) => Has(list, i)
      /\ \A n \in DOMAIN pending : Has(list, pending[n])
  <2>1. Read \subseteq Nat /\ {} \subseteq Read /\ {} \cap Read = {}
    BY <1>0 DEF Read
  <2>2. QED
    BY <1>0, <2>1, Put DEF Waiting
<1>4. x.line = at /\ x.body = {}
  BY HotstringOf DEF InlineHotstring
<1> HIDE DEF list, x
<1>5. IsSequence(list) /\ Within(list, Read)
  BY <1>3 DEF WellRead
<1>6. Append(list, x) = list \o <<x>> /\ IsSequence(<<x>>)
  BY <1>5, AppendJoins
<1>7. DOMAIN <<x>> = {1} /\ <<x>>[1] = x
  OBVIOUS
<1>8. WellRead(list \o <<x>>, Read')
  <2>1. Ordered(<<x>>)
    BY <1>7 DEF Ordered
  <2>2. \A n \in DOMAIN <<x>> : <<x>>[n].line = at /\ <<x>>[n].body = {}
    BY <1>4, <1>7
  <2>3. \A m \in DOMAIN list : list[m].line < at
    BY <1>0, <1>5 DEF Within, Read
  <2>4. ASSUME NEW q, NEW more, IsSequence(q), Read \subseteq more, more \subseteq Nat,
               Ordered(q), \A n \in DOMAIN q : q[n].line \in more /\ q[n].body = {},
               \A m \in DOMAIN list, n \in DOMAIN q : list[m].line < q[n].line
        PROVE  WellRead(list \o q, more)
    <3>1. {} \subseteq more /\ {} \cap Read = {}
      OBVIOUS
    <3>2. ASSUME NEW h, NEW lines, WellRead(h, lines), lines \subseteq more,
                 {} \cap lines = {},
                 \A m \in DOMAIN h, n \in DOMAIN q : h[m].line < q[n].line
          PROVE  WellRead(h \o q, more)
      BY <2>4, <3>1, <3>2, Extended
    <3>3. QED
      BY <1>3, <2>4, <3>1, <3>2
  <2>5. Read \subseteq 1 .. at /\ 1 .. at \subseteq Nat /\ at \in 1 .. at
    BY <1>0, <1>2
  <2>6. WellRead(list \o <<x>>, 1 .. at)
    BY <1>6, <2>1, <2>2, <2>3, <2>4, <2>5
  <2>7. QED
    BY <1>2, <2>6
<1>9. WellRead(hotstrings, Read)'
  <2>1. WellRead(hotstrings', Read')
    BY <1>1, <1>6, <1>8
  <2>2. QED
    BY <2>1 DEF WellRead, IsSequence, Within, Ordered, Apart
<1>10. \A i : Has(list, i) \/ i = at => Has(hotstrings', i)
  <2> SUFFICES ASSUME NEW i, Has(list, i) \/ i = at PROVE Has(hotstrings', i)
    OBVIOUS
  <2>1. Has(list, i) \/ Has(<<x>>, i)
    BY <1>4, <1>7 DEF Has
  <2>2. ASSUME NEW h, IsSequence(h), Has(h, i) \/ Has(<<x>>, i) PROVE Has(h \o <<x>>, i)
    BY <1>6, <2>2, HasJoined
  <2>3. Has(list \o <<x>>, i)
    BY <1>5, <2>1, <2>2
  <2>4. QED
    BY <1>1, <1>6, <2>3
<1>11. PlaceTyped'
  BY <1>0, <1>1, <1>2 DEF PlaceTyped
<1>12. Waiting'
  <2>1. DOMAIN <<>> = {}
    OBVIOUS
  <2>2. QED
    BY <1>1, <2>1 DEF Waiting
<1>13. Accounted'
  <2> SUFFICES ASSUME NEW i \in Read', source[i].kind = "header"
               PROVE  i \in commented \/ Has(hotstrings', i)
    BY <1>1 DEF Accounted, Taken, Has
  <2>1. CASE i = at
    BY <1>10, <2>1
  <2>2. CASE i \in Read
    BY <1>0, <1>3, <1>10, <2>2 DEF Accounted, Waits
  <2>3. QED
    BY <1>2, <2>1, <2>2
<1>14. AtTheEnd'
  BY <1>1 DEF AtTheEnd
<1>15. QED
  BY <1>9, <1>11, <1>12, <1>13, <1>14 DEF IInv

LEMMA StackKept == IInv /\ Stack => IInv'
<1> SUFFICES ASSUME IInv, Stack PROVE IInv'
  OBVIOUS
<1>0. /\ source \in Seq(Lines) /\ Len(source) \in Nat /\ DOMAIN source = 1 .. Len(source)
      /\ at \in 1 .. Len(source) + 1 /\ pending \in Seq(Nat)
      /\ WellRead(hotstrings, Read) /\ Waiting /\ Accounted
  BY DEF IInv, PlaceTyped
<1>1. /\ outcome = "reading" /\ KindAt(at) = "header"
      /\ pending' = Append(pending, at) /\ at' = at + 1
      /\ UNCHANGED <<source, outcome, hotstrings, commented>>
  BY DEF Stack, HeaderRead, Reading
<1>2. at \in 1 .. Len(source) /\ Read' = 1 .. at /\ Read' = Read \cup {at}
  BY <1>0, <1>1 DEF KindAt, Read
<1>3. /\ pending' \in Seq(Nat)
      /\ \A n \in DOMAIN pending' :
             \/ n \in DOMAIN pending /\ pending'[n] = pending[n]
             \/ n = Len(pending) + 1 /\ pending'[n] = at
      /\ \A n \in DOMAIN pending : n \in DOMAIN pending' /\ pending'[n] = pending[n]
      /\ Len(pending) + 1 \in DOMAIN pending' /\ pending'[Len(pending) + 1] = at
      /\ \A n \in DOMAIN pending : n < Len(pending) + 1
  BY <1>0, <1>1, <1>2
<1>4. PlaceTyped'
  BY <1>0, <1>1, <1>2, <1>3 DEF PlaceTyped
<1>5. WellRead(hotstrings, Read)'
  <2>1. \A n \in DOMAIN hotstrings :
            hotstrings[n].line \in Read' /\ hotstrings[n].body \subseteq Read'
    BY <1>0, <1>2 DEF WellRead, Within
  <2>2. QED
    BY <1>0, <1>1, <2>1 DEF WellRead, IsSequence, Within, Ordered, Apart
<1>6. Waiting'
  <2>1. \A n \in DOMAIN pending' : pending'[n] \in Read'
    BY <1>0, <1>2, <1>3 DEF Waiting
  <2>2. \A i \in Read : i < at
    BY <1>0 DEF Read
  <2>3. ASSUME NEW m \in DOMAIN pending', NEW n \in DOMAIN pending', m < n
        PROVE  pending'[m] < pending'[n]
    <3>1. CASE n \in DOMAIN pending /\ pending'[n] = pending[n]
      <4>1. m \in DOMAIN pending /\ pending'[m] = pending[m]
        BY <1>0, <1>3, <2>3, <3>1, SMTT(30)
      <4>2. QED
        BY <1>0, <2>3, <3>1, <4>1 DEF Waiting
    <3>2. CASE n = Len(pending) + 1 /\ pending'[n] = at
      <4>1. m \in DOMAIN pending /\ pending'[m] = pending[m]
        BY <1>0, <1>3, <2>3, <3>2
      <4>2. QED
        BY <1>0, <2>2, <3>2, <4>1 DEF Waiting
    <3>3. QED
      BY <1>3, <3>1, <3>2
  <2>4. ASSUME NEW m \in DOMAIN hotstrings, NEW n \in DOMAIN pending'
        PROVE  hotstrings[m].line < pending'[n]
    BY <1>0, <1>3, <2>2 DEF Waiting, WellRead, Within
  <2>5. QED
    BY <1>1, <2>1, <2>3, <2>4 DEF Waiting
<1>7. Accounted'
  <2> SUFFICES ASSUME NEW i \in Read', source[i].kind = "header"
               PROVE  i \in commented \/ Taken(i) \/ \E n \in DOMAIN pending' : i = pending'[n]
    BY <1>1 DEF Accounted, Taken, Has, Waits
  <2>1. CASE i = at
    BY <1>3, <2>1
  <2>2. CASE i \in Read
    BY <1>0, <1>3, <2>2 DEF Accounted, Waits
  <2>3. QED
    BY <1>2, <2>1, <2>2
<1>8. AtTheEnd'
  BY <1>1 DEF AtTheEnd
<1>9. QED
  BY <1>4, <1>5, <1>6, <1>7, <1>8 DEF IInv

(* The end of the file.                                                    *)
LEMMA FinishKept == IInv /\ Finish => IInv'
<1> SUFFICES ASSUME IInv, Finish PROVE IInv'
  OBVIOUS
<1> DEFINE list == hotstrings \o Flushed(pending, Nothing, {})
<1>0. /\ source \in Seq(Lines) /\ at \in 1 .. Len(source) + 1
      /\ pending \in Seq(Nat) /\ Waiting /\ Accounted /\ Read \subseteq Nat
  BY DEF IInv, PlaceTyped, Read
<1>1. /\ at = Len(source) + 1 /\ hotstrings' = list /\ pending' = <<>>
      /\ UNCHANGED <<source, at, commented>>
  BY DEF Finish
<1>2. <<>> \in Seq(Nat) /\ DOMAIN <<>> = {}
  OBVIOUS
<1>3. /\ WellRead(list, Read)
      /\ \A i : Taken(i) => Has(list, i)
      /\ \A n \in DOMAIN pending : Has(list, pending[n])
  <2>1. {} \subseteq Read /\ {} \cap Read = {}
    OBVIOUS
  <2>2. QED
    BY <1>0, <2>1, Put DEF Waiting
<1> HIDE DEF list
<1>4. Read' = Read /\ PlaceTyped' /\ Waiting' /\ AtTheEnd'
  BY <1>0, <1>1, <1>2 DEF Read, PlaceTyped, Waiting, AtTheEnd
<1>5. WellRead(hotstrings, Read)'
  <2>1. WellRead(hotstrings', Read')
    BY <1>1, <1>3, <1>4
  <2>2. QED
    BY <2>1 DEF WellRead, IsSequence, Within, Ordered, Apart
<1>6. Accounted'
  <2> SUFFICES ASSUME NEW i \in Read, source[i].kind = "header"
               PROVE  i \in commented \/ Has(hotstrings', i)
    BY <1>1, <1>4 DEF Accounted, Taken, Has
  <2>1. QED
    BY <1>0, <1>1, <1>3 DEF Accounted, Waits
<1>7. QED
  BY <1>4, <1>5, <1>6 DEF IInv

(* The body that the trigger in hand shares with those above it.           *)
LEMMA CollectKept == IInv /\ CollectBody => IInv'
<1> SUFFICES ASSUME IInv, CollectBody PROVE IInv'
  OBVIOUS
<1> DEFINE end == BodyEnd
           body == at + 1 .. end - 1
           triggers == Append(pending, at)
<1>0. /\ source \in Seq(Lines) /\ Len(source) \in Nat /\ DOMAIN source = 1 .. Len(source)
      /\ at \in 1 .. Len(source) + 1 /\ pending \in Seq(Nat)
      /\ WellRead(hotstrings, Read) /\ Waiting /\ Accounted
  BY DEF IInv, PlaceTyped
<1>1. /\ outcome = "reading" /\ KindAt(at) = "header" /\ UNCHANGED <<source, commented>>
  BY DEF CollectBody, HeaderRead, Reading
<1>2. at \in 1 .. Len(source)
  BY <1>0, <1>1 DEF KindAt
<1>3. /\ end \in at + 1 .. Len(source) + 1
      /\ Resume(end) \in end .. Len(source) + 1
      /\ Resume(end) # end => Resume(end) = end + 1 /\ KindAt(end) = "return"
  BY <1>0, <1>2, BodyEndAhead
<1>4. CASE outcome' = "thrown" /\ UNCHANGED <<at, pending, hotstrings>>
  <2>1. UNCHANGED <<source, at, pending, hotstrings, commented>> /\ outcome' = "thrown"
    BY <1>1, <1>4
  <2>2. PlaceTyped' /\ WellRead(hotstrings, Read)' /\ Waiting' /\ Accounted' /\ AtTheEnd'
    BY <1>0, <2>1 DEF PlaceTyped, WellRead, IsSequence, Within, Ordered, Apart, Read, Waiting,
       Accounted, Taken, Has, Waits, AtTheEnd
  <2>3. QED
    BY <2>2 DEF IInv
<1>5. ASSUME NEW does,
             hotstrings' = hotstrings \o Flushed(triggers, does, body),
             pending' = <<>>, at' = Resume(end), outcome' = outcome
      PROVE  IInv'
  <2> DEFINE list == hotstrings \o Flushed(triggers, does, body)
             more == 1 .. end - 1
  <2>1. /\ triggers \in Seq(Nat) /\ DOMAIN triggers # {}
        /\ \A n \in DOMAIN triggers :
               \/ n \in DOMAIN pending /\ triggers[n] = pending[n]
               \/ n = Len(pending) + 1 /\ triggers[n] = at
        /\ \A n \in DOMAIN pending : n \in DOMAIN triggers /\ triggers[n] = pending[n]
        /\ Len(pending) + 1 \in DOMAIN triggers /\ triggers[Len(pending) + 1] = at
        /\ \A m, n \in DOMAIN triggers : m < n => m \in DOMAIN pending /\ triggers[m] = pending[m]
    <3>1. triggers = Append(pending, at) /\ pending \in Seq(Nat) /\ at \in Nat
      BY <1>0, <1>2
    <3> HIDE DEF triggers
    <3>2. QED
      BY <3>1, AppendOf
  <2>2. /\ Read \subseteq more /\ more \subseteq Nat /\ body \subseteq more
        /\ body \cap Read = {} /\ at \in more /\ at \notin Read /\ \A i \in Read : i < at
    BY <1>0, <1>2, <1>3 DEF Read
  <2> HIDE DEF triggers, body, more, end
  <2>3. \A n \in DOMAIN triggers : triggers[n] \in more
    BY <1>0, <2>1, <2>2 DEF Waiting
  <2>4. ASSUME NEW m \in DOMAIN triggers, NEW n \in DOMAIN triggers, m < n
        PROVE  triggers[m] < triggers[n]
    <3>1. m \in DOMAIN pending /\ triggers[m] = pending[m]
      BY <2>1, <2>4
    <3>2. CASE n \in DOMAIN pending /\ triggers[n] = pending[n]
      BY <1>0, <2>4, <3>1, <3>2 DEF Waiting
    <3>3. CASE triggers[n] = at
      BY <1>0, <2>2, <3>1, <3>3 DEF Waiting
    <3>4. QED
      BY <2>1, <3>2, <3>3
  <2>5. \A m \in DOMAIN hotstrings, n \in DOMAIN triggers : hotstrings[m].line < triggers[n]
    BY <1>0, <2>1, <2>2 DEF Waiting, WellRead, Within
  <2>6. /\ WellRead(list, more)
        /\ \A i : Taken(i) => Has(list, i)
        /\ \A n \in DOMAIN triggers : Has(list, triggers[n])
        /\ \A i \in body : DOMAIN triggers # {} => Has(list, i)
    BY <2>1, <2>2, <2>3, <2>4, <2>5, Put
  <2> HIDE DEF list
  <2>7. hotstrings' = list
    BY <1>5 DEF list
  <2>8. /\ Read' = 1 .. Resume(end) - 1 /\ more \subseteq Read'
        /\ \A i \in Read' : i \in Read \/ i = at \/ i \in body \/ (i = end /\ KindAt(i) = "return")
    BY <1>0, <1>2, <1>3, <1>5 DEF Read, more, body
  <2>9. PlaceTyped'
    <3>1. <<>> \in Seq(Nat)
      OBVIOUS
    <3>2. at' \in 1 .. Len(source) + 1
      BY <1>0, <1>2, <1>3, <1>5
    <3>3. QED
      BY <1>0, <1>1, <1>5, <3>1, <3>2 DEF PlaceTyped
  <2>10. WellRead(hotstrings, Read)'
    <3>1. WellRead(list, Read')
      BY <2>6, <2>8 DEF WellRead, Within
    <3>2. WellRead(hotstrings', Read')
      BY <2>7, <3>1
    <3>3. QED
      BY <3>2 DEF WellRead, IsSequence, Within, Ordered, Apart
  <2>11. Waiting'
    <3>1. DOMAIN <<>> = {}
      OBVIOUS
    <3>2. QED
      BY <1>5, <3>1 DEF Waiting
  <2>12. Accounted'
    <3> SUFFICES ASSUME NEW i \in Read', source[i].kind = "header"
                 PROVE  i \in commented \/ Has(list, i)
      BY <1>1, <2>7 DEF Accounted, Taken, Has
    <3>1. CASE i \in Read
      <4>1. i \in commented \/ Taken(i) \/ Waits(i)
        BY <1>0, <3>1 DEF Accounted
      <4>2. Waits(i) => \E n \in DOMAIN triggers : i = triggers[n]
        BY <2>1 DEF Waits
      <4>3. QED
        BY <2>6, <4>1, <4>2
    <3>2. CASE i = at
      BY <2>1, <2>6, <3>2
    <3>3. CASE i \in body
      BY <2>1, <2>6, <3>3
    <3>4. CASE KindAt(i) = "return"
      BY <3>4 DEF KindAt
    <3>5. QED
      BY <2>8, <3>1, <3>2, <3>3, <3>4
  <2>13. AtTheEnd'
    BY <1>1, <1>5 DEF AtTheEnd
  <2>14. QED
    BY <2>9, <2>10, <2>11, <2>12, <2>13 DEF IInv
<1>6. \/ outcome' = "thrown" /\ UNCHANGED <<at, pending, hotstrings>>
      \/ \E does : /\ hotstrings' = hotstrings \o Flushed(triggers, does, body)
                   /\ pending' = <<>> /\ at' = Resume(end) /\ outcome' = outcome
  BY DEF CollectBody
<1>7. QED
  BY <1>4, <1>5, <1>6

LEMMA StepKept == IInv /\ [Next]_vars => IInv'
<1> SUFFICES ASSUME IInv, [Next]_vars PROVE IInv'
  OBVIOUS
<1>0. source \in Seq(Lines) /\ DOMAIN source = 1 .. Len(source)
  BY DEF IInv, PlaceTyped
<1>1. CASE InComment
  <2>1. /\ at \in DOMAIN source /\ at' = at + 1 /\ outcome = "reading"
        /\ UNCHANGED <<source, outcome, pending, hotstrings>>
        /\ commented' = commented \cup {at}
    BY <1>1 DEF InComment
  <2>2. QED
    BY <2>1, PassedOver
<1>2. CASE BeginComment
  <2>1. /\ at \in DOMAIN source /\ at' = at + 1 /\ outcome = "reading"
        /\ UNCHANGED <<source, outcome, pending, hotstrings>>
        /\ commented' = commented \cup {at}
    BY <1>2 DEF BeginComment, Reading, KindAt
  <2>2. QED
    BY <2>1, PassedOver
<1>3. CASE Assign \/ Pass
  <2>1. /\ at' = at + 1 /\ outcome = "reading"
        /\ UNCHANGED <<source, outcome, pending, hotstrings, commented>>
    BY <1>3 DEF Assign, Pass, Reading
  <2>2. KindAt(at) \in Kinds \ {"header"}
    BY <1>3 DEF Assign, Pass, Reading, Kinds
  <2>3. "nothing" \notin Kinds
    BY NothingIsNoKind
  <2>4. at \in DOMAIN source /\ source[at].kind # "header"
    BY <2>2, <2>3 DEF KindAt
  <2>5. QED
    BY <2>1, <2>4, PassedOver
<1>4. ASSUME UNCHANGED <<source, at, pending, hotstrings, commented>>,
             outcome' = outcome \/ outcome' = "thrown"
      PROVE  IInv'
  <2>1. PlaceTyped' /\ WellRead(hotstrings, Read)' /\ Waiting' /\ Accounted' /\ AtTheEnd'
    BY <1>4 DEF IInv, PlaceTyped, WellRead, IsSequence, Within, Ordered, Apart, Read, Waiting,
       Accounted, Taken, Has, Waits, AtTheEnd
  <2>2. QED
    BY <2>1 DEF IInv
<1>5. CASE BadHeader
  BY <1>4, <1>5 DEF BadHeader
<1>6. CASE UNCHANGED vars
  BY <1>4, <1>6 DEF vars
<1>7. QED
  BY <1>1, <1>2, <1>3, <1>5, <1>6, InlineKept, StackKept, CollectKept, FinishKept DEF Next

----------------------------------------------------------------------------
(* What the hotstrings are made of.                                        *)
Keys == Range(Layout) \cup Range(Specials)
Fine(h) ==
    /\ Range(h.keys) \subseteq Keys
    /\ h.mods \subseteq Range(Modifiers)
    /\ h.body \subseteq h.line + 1 .. Len(source)
Shaped ==
    /\ outcome \in {"reading", "done", "thrown"}
    /\ comment \in BOOLEAN
    /\ \A n \in DOMAIN hotstrings : Fine(hotstrings[n])
    /\ globals \subseteq DOMAIN source
    /\ commented \subseteq DOMAIN source

(* Every trigger that parse_trigger_expr accepts is made of keys of the    *)
(* layout or of keys with names, and of a modifier that has a name.        *)
LEMMA KeysOfTables ==
  ASSUME NEW text
  PROVE  Range(ParseKeys(text).keys) \subseteq Keys
<1>1. CASE ParseKeys(text) = [ok |-> TRUE, keys |-> << Specials[text[1]] >>]
           /\ text[1] \in DOMAIN Specials
  <2> DEFINE key == Specials[text[1]]
  <2>1. key \in Range(Specials)
    BY <1>1 DEF Range
  <2> HIDE DEF key
  <2>2. DOMAIN <<key>> = {1} /\ <<key>>[1] = key
    OBVIOUS
  <2>3. Range(<<key>>) = {key}
    BY <2>2 DEF Range
  <2>4. ParseKeys(text).keys = <<key>>
    BY <1>1 DEF key
  <2>5. QED
    BY <2>1, <2>3, <2>4 DEF Keys
<1>2. CASE ParseKeys(text) = [ok |-> TRUE, keys |-> [i \in DOMAIN text |-> Layout[text[i]]]]
           /\ \A i \in DOMAIN text : text[i] \in DOMAIN Layout
  <2>1. ParseKeys(text).keys = [i \in DOMAIN text |-> Layout[text[i]]]
    BY <1>2
  <2>2. QED
    BY <1>2, <2>1 DEF Range, Keys
<1>3. CASE ParseKeys(text) = [ok |-> FALSE, keys |-> <<>>]
  <2>1. DOMAIN <<>> = {}
    OBVIOUS
  <2>2. ParseKeys(text).keys = <<>>
    BY <1>3
  <2>3. QED
    BY <2>1, <2>2 DEF Range
<1>4. QED
  BY <1>1, <1>2, <1>3 DEF ParseKeys

LEMMA TriggersOfTables ==
  ASSUME NEW line
  PROVE  /\ Range(TriggerOf(line).keys) \subseteq Keys
         /\ TriggerOf(line).mods \subseteq Range(Modifiers)
<1>1. ASSUME NEW expr
      PROVE  /\ Range(ParseTrigger(expr).keys) \subseteq Keys
             /\ ParseTrigger(expr).mods \subseteq Range(Modifiers)
  <2> DEFINE keys == ParseKeys(SubSeq(expr, FindLast(expr, "&") + 1, Len(expr)))
             mod == SubSeq(expr, 1, Find(expr, "&", 1) - 1)
             known == Len(mod) = 1 /\ mod[1] \in DOMAIN Modifiers
             mods == IF known THEN {Modifiers[mod[1]]} ELSE {}
  <2>1. ParseTrigger(expr) =
           [ok |-> keys.ok /\ ~KeyIsAmpersand(expr), keys |-> keys.keys, mods |-> mods]
    BY DEF ParseTrigger, Trigger
  <2>2. Range(keys.keys) \subseteq Keys
    BY KeysOfTables
  <2> HIDE DEF keys
  <2>3. mods \subseteq Range(Modifiers)
    <3> HIDE DEF mod
    <3> QED BY DEF Range
  <2> HIDE DEF mods
  <2>4. QED
    BY <2>1, <2>2, <2>3
<1>2. QED
  BY <1>1 DEF TriggerOf

LEMMA HotstringFine ==
  ASSUME NEW i, NEW does, NEW body, body \subseteq i + 1 .. Len(source)
  PROVE  Fine(Hotstring(i, does, body))
<1>1. /\ Hotstring(i, does, body).keys = TriggerOf(source[i]).keys
      /\ Hotstring(i, does, body).mods = TriggerOf(source[i]).mods
      /\ Hotstring(i, does, body).line = i /\ Hotstring(i, does, body).body = body
  BY DEF Hotstring
<1>2. QED
  BY <1>1, TriggersOfTables DEF Fine

(* Hotstrings behind hotstrings.                                           *)
LEMMA PutFine ==
  ASSUME NEW p, NEW q, IsSequence(p), IsSequence(q),
         \A n \in DOMAIN p : Fine(p[n]), \A n \in DOMAIN q : Fine(q[n])
  PROVE  \A n \in DOMAIN (p \o q) : Fine((p \o q)[n])
<1> DEFINE r == p \o q
<1>1. /\ Len(p) \in Nat /\ DOMAIN p = 1 .. Len(p)
      /\ Len(q) \in Nat /\ DOMAIN q = 1 .. Len(q)
      /\ DOMAIN r = 1 .. Len(p) + Len(q)
      /\ \A i \in DOMAIN p : r[i] = p[i]
      /\ \A i \in DOMAIN q : r[Len(p) + i] = q[i]
  BY ConcatOf
<1> HIDE DEF r
<1>2. ASSUME NEW n \in DOMAIN r PROVE Fine(r[n])
  <2>1. CASE n \in DOMAIN p
    BY <1>1, <2>1
  <2>2. CASE n \notin DOMAIN p
    <3>1. n - Len(p) \in DOMAIN q /\ Len(p) + (n - Len(p)) = n
      BY <1>1, <2>2
    <3>2. r[n] = q[n - Len(p)]
      BY <1>1, <3>1
    <3>3. QED
      BY <3>1, <3>2
  <2>3. QED
    BY <2>1, <2>2
<1>3. QED
  BY <1>2 DEF r

(* The triggers that wait are flushed with a body below the last of them.  *)
LEMMA FlushedFine ==
  ASSUME IInv, Shaped, NEW triggers \in Seq(Nat), NEW does, NEW body,
         \A n \in DOMAIN triggers : body \subseteq triggers[n] + 1 .. Len(source)
  PROVE  LET list == hotstrings \o Flushed(triggers, does, body)
         IN  IsSequence(list) /\ \A n \in DOMAIN list : Fine(list[n])
<1> DEFINE q == Flushed(triggers, does, body)
<1>1. IsSequence(q) /\ DOMAIN q = DOMAIN triggers
  BY FlushedOf
<1>2. \A n \in DOMAIN triggers : q[n] = Hotstring(triggers[n], does, body)
  BY DEF Flushed
<1> HIDE DEF q
<1>3. \A n \in DOMAIN q : Fine(q[n])
  <2> SUFFICES ASSUME NEW n \in DOMAIN q PROVE Fine(q[n])
    OBVIOUS
  <2>1. n \in DOMAIN triggers
    BY <1>1
  <2>2. ASSUME NEW i, body \subseteq i + 1 .. Len(source)
        PROVE  Fine(Hotstring(i, does, body))
    BY <2>2, HotstringFine
  <2>3. Fine(Hotstring(triggers[n], does, body))
    BY <2>1, <2>2
  <2>4. QED
    BY <1>2, <2>1, <2>3
<1>4. IsSequence(hotstrings) /\ \A n \in DOMAIN hotstrings : Fine(hotstrings[n])
  BY DEF IInv, WellRead, Shaped
<1>5. ASSUME NEW h, NEW f, IsSequence(h), IsSequence(f),
             \A n \in DOMAIN h : Fine(h[n]), \A n \in DOMAIN f : Fine(f[n])
      PROVE  IsSequence(h \o f) /\ \A n \in DOMAIN (h \o f) : Fine((h \o f)[n])
  BY <1>5, ConcatOf, PutFine
<1>6. IsSequence(hotstrings \o q) /\ \A n \in DOMAIN (hotstrings \o q) : Fine((hotstrings \o q)[n])
  BY <1>1, <1>3, <1>4, <1>5
<1>7. QED
  BY <1>6 DEF q

LEMMA ShapedInit == Init => Shaped
<1>1. DOMAIN <<>> = {}
  OBVIOUS
<1>2. QED
  BY <1>1 DEF Init, Shaped

(* Shaped', from what a step has done to the hotstrings.                   *)
LEMMA ShapedWith ==
  ASSUME IInv, Shaped, source' = source,
         outcome' \in {"reading", "done", "thrown"}, comment' \in BOOLEAN,
         \A n \in DOMAIN hotstrings' : Fine(hotstrings'[n]),
         globals' \subseteq DOMAIN source, commented' \subseteq DOMAIN source
  PROVE  Shaped'
<1>1. \A n \in DOMAIN hotstrings' : Fine(hotstrings[n])'
  BY DEF Fine
<1>2. QED
  BY <1>1 DEF Shaped

LEMMA ShapedStep == IInv /\ Shaped /\ [Next]_vars => Shaped'
<1> SUFFICES ASSUME IInv, Shaped, [Next]_vars PROVE Shaped'
  OBVIOUS
<1>0. /\ source \in Seq(Lines) /\ Len(source) \in Nat /\ DOMAIN source = 1 .. Len(source)
      /\ at \in 1 .. Len(source) + 1 /\ pending \in Seq(Nat)
      /\ \A n \in DOMAIN pending : pending[n] \in 1 .. at - 1
  BY DEF IInv, PlaceTyped, Waiting, Read
<1>1. "nothing" \notin Kinds
  BY NothingIsNoKind
<1>2. /\ \A n \in DOMAIN hotstrings : Fine(hotstrings[n])
      /\ outcome \in {"reading", "done", "thrown"} /\ comment \in BOOLEAN
      /\ globals \subseteq DOMAIN source /\ commented \subseteq DOMAIN source
  BY DEF Shaped
<1>3. CASE InComment
  <2>1. /\ UNCHANGED <<source, outcome, hotstrings, globals>> /\ comment' \in BOOLEAN
        /\ commented' \subseteq DOMAIN source
    BY <1>2, <1>3 DEF InComment
  <2>2. QED
    BY <1>2, <2>1, ShapedWith
<1>4. CASE BeginComment
  <2>1. UNCHANGED <<source, outcome, hotstrings, globals>> /\ comment' \in BOOLEAN
        /\ commented' = commented \cup {at} /\ KindAt(at) # "nothing"
    BY <1>4 DEF BeginComment, Reading
  <2>2. commented' \subseteq DOMAIN source
    BY <1>2, <2>1 DEF KindAt
  <2>3. QED
    BY <1>2, <2>1, <2>2, ShapedWith
<1>5. CASE Assign
  <2>1. UNCHANGED <<source, outcome, comment, hotstrings, commented>>
        /\ globals' = globals \cup {at} /\ KindAt(at) # "nothing"
    BY <1>5 DEF Assign, Reading
  <2>2. globals' \subseteq DOMAIN source
    BY <1>2, <2>1 DEF KindAt
  <2>3. QED
    BY <1>2, <2>1, <2>2, ShapedWith
<1>6. CASE Pass \/ Stack \/ UNCHANGED vars
  <2>1. UNCHANGED <<source, outcome, comment, hotstrings, globals, commented>>
    BY <1>6 DEF Pass, Stack, vars
  <2>2. QED
    BY <1>2, <2>1, ShapedWith
<1>7. CASE BadHeader
  <2>1. UNCHANGED <<source, comment, hotstrings, globals, commented>> /\ outcome' = "thrown"
    BY <1>7 DEF BadHeader
  <2>2. QED
    BY <1>2, <2>1, ShapedWith
<1>8. ASSUME NEW does
      PROVE  LET list == hotstrings \o Flushed(pending, does, {})
             IN  IsSequence(list) /\ \A n \in DOMAIN list : Fine(list[n])
  BY <1>0, FlushedFine
<1>9. CASE Inline
  <2> DEFINE list == hotstrings \o Flushed(pending, Nothing, {})
             x == InlineHotstring
  <2>1. /\ UNCHANGED <<source, outcome, comment, globals, commented>>
        /\ hotstrings' = Append(list, x)
    BY <1>9 DEF Inline
  <2>2. IsSequence(list) /\ \A n \in DOMAIN list : Fine(list[n])
    BY <1>8
  <2>3. Fine(x)
    <3>1. {} \subseteq at + 1 .. Len(source)
      OBVIOUS
    <3>2. ASSUME NEW i, {} \subseteq i + 1 .. Len(source), NEW does
          PROVE  Fine(Hotstring(i, does, {}))
      BY <3>2, HotstringFine
    <3>3. QED
      BY <3>1, <3>2 DEF InlineHotstring
  <2> HIDE DEF list, x
  <2>4. Append(list, x) = list \o <<x>> /\ IsSequence(<<x>>)
    BY <2>2, AppendJoins
  <2>5. DOMAIN <<x>> = {1} /\ <<x>>[1] = x
    OBVIOUS
  <2>6. \A n \in DOMAIN <<x>> : Fine(<<x>>[n])
    BY <2>3, <2>5
  <2>7. ASSUME NEW h, NEW f, IsSequence(h), IsSequence(f),
               \A n \in DOMAIN h : Fine(h[n]), \A n \in DOMAIN f : Fine(f[n])
        PROVE  \A n \in DOMAIN (h \o f) : Fine((h \o f)[n])
    BY <2>7, PutFine
  <2>8. \A n \in DOMAIN (list \o <<x>>) : Fine((list \o <<x>>)[n])
    BY <2>2, <2>4, <2>6, <2>7
  <2>9. \A n \in DOMAIN hotstrings' : Fine(hotstrings'[n])
    BY <2>1, <2>4, <2>8
  <2>10. QED
    BY <1>2, <2>1, <2>9, ShapedWith
<1>10. CASE Finish
  <2>1. /\ UNCHANGED <<source, comment, globals, commented>>
        /\ hotstrings' = hotstrings \o Flushed(pending, Nothing, {})
        /\ outcome' \in {"reading", "done", "thrown"}
    BY <1>10 DEF Finish
  <2>2. \A n \in DOMAIN hotstrings' : Fine(hotstrings'[n])
    BY <1>8, <2>1
  <2>3. QED
    BY <1>2, <2>1, <2>2, ShapedWith
<1>11. CASE CollectBody
  <2> DEFINE body == at + 1 .. BodyEnd - 1
             triggers == Append(pending, at)
  <2>1. KindAt(at) = "header" /\ UNCHANGED <<source, comment, globals, commented>>
    BY <1>11 DEF CollectBody, HeaderRead, Reading
  <2>2. at \in 1 .. Len(source)
    BY <1>0, <2>1 DEF KindAt
  <2>3. BodyEnd \in at + 1 .. Len(source) + 1
    BY <1>0, <2>2, BodyEndAhead
  <2>4. \/ outcome' = "thrown" /\ UNCHANGED hotstrings
        \/ \E does : hotstrings' = hotstrings \o Flushed(triggers, does, body)
                     /\ outcome' = outcome
    BY <1>11 DEF CollectBody
  <2>5. /\ triggers \in Seq(Nat)
        /\ \A n \in DOMAIN triggers : \/ n \in DOMAIN pending /\ triggers[n] = pending[n]
                                      \/ n = Len(pending) + 1 /\ triggers[n] = at
    <3>1. triggers = Append(pending, at) /\ at \in Nat
      BY <1>0, <2>2
    <3> HIDE DEF triggers
    <3>2. QED
      BY <1>0, <3>1, AppendOf
  <2> HIDE DEF triggers
  <2>6. \A n \in DOMAIN triggers : triggers[n] \in 1 .. at
    BY <1>0, <2>2, <2>5
  <2>7. \A n \in DOMAIN triggers : body \subseteq triggers[n] + 1 .. Len(source)
    BY <1>0, <2>2, <2>3, <2>6
  <2> HIDE DEF body
  <2>8. ASSUME NEW does
        PROVE  \A n \in DOMAIN (hotstrings \o Flushed(triggers, does, body)) :
                   Fine((hotstrings \o Flushed(triggers, does, body))[n])
    BY <2>5, <2>7, FlushedFine
  <2>9. \A n \in DOMAIN hotstrings' : Fine(hotstrings'[n])
    BY <1>2, <2>4, <2>8
  <2>10. outcome' \in {"reading", "done", "thrown"}
    BY <1>2, <2>4
  <2>11. QED
    BY <1>2, <2>1, <2>9, <2>10, ShapedWith
<1>12. QED
  BY <1>3, <1>4, <1>5, <1>6, <1>7, <1>9, <1>10, <1>11 DEF Next

----------------------------------------------------------------------------
(* Whatever the lines are.                                                 *)

(* What parse_file knows at every line of a file of any length.            *)
THEOREM Inductive == Spec => []IInv
  BY InitHolds, StepKept, PTL DEF Spec

(* The hotstrings of parse_file are in the order of the file, which        *)
(* find_match falls back on between triggers of the same length.           *)
THEOREM ReadInOrder == Spec => []InOrder
<1>1. IInv => InOrder
  BY DEF IInv, WellRead, Ordered, InOrder
<1>2. QED
  BY <1>1, Inductive, PTL

(* For files of any length, the reader's place, the triggers that wait and *)
(* the hotstrings are well formed at every line: keys and modifiers of the *)
(* tables, bodies below their triggers and in the file, in the order of    *)
(* the file, and no line under two bodies.                                 *)
THEOREM ReaderKeeps == Spec => []ReaderInv
<1>1. Shaped /\ IInv => ReaderInv
  <2> SUFFICES ASSUME Shaped, IInv PROVE ReaderInv
    OBVIOUS
  <2>0. /\ source \in Seq(Lines) /\ Len(source) \in Nat /\ DOMAIN source = 1 .. Len(source)
        /\ at \in 1 .. Len(source) + 1 /\ pending \in Seq(Nat)
    BY DEF IInv, PlaceTyped
  <2>1. InOrder /\ BodiesApart
    BY DEF IInv, WellRead, Ordered, Apart, InOrder, BodiesApart
  <2>2. pending \in Seq(DOMAIN source)
    <3>1. \A n \in DOMAIN pending : pending[n] \in DOMAIN source
      BY <2>0 DEF IInv, Waiting, Read
    <3> DEFINE X == DOMAIN source
    <3> HIDE DEF X
    <3>2. \A n \in DOMAIN pending : pending[n] \in X
      BY <3>1 DEF X
    <3>3. pending \in Seq(X)
      BY <2>0, <3>2
    <3>4. QED
      BY <3>3 DEF X
  <2>3. \A n \in DOMAIN hotstrings : hotstrings[n].line \in DOMAIN source
    BY <2>0 DEF IInv, WellRead, Within, Read
  <2>4. TypeOK
    BY <2>0, <2>2, <2>3 DEF Shaped, Fine, Keys, TypeOK
  <2>5. QED
    BY <2>1, <2>4 DEF ReaderInv
<1>2. QED
  BY <1>1, ShapedInit, ShapedStep, Inductive, PTL DEF Spec

(* No line is under two bodies, wherever parse_file finds their ends.      *)
THEOREM NoLineTwice == Spec => []BodiesApart
<1>1. IInv => BodiesApart
  BY DEF IInv, WellRead, Apart, BodiesApart
<1>2. QED
  BY <1>1, Inductive, PTL

(* A file that parse_file reads to its end loses no trigger outside of     *)
(* comments and bodies, however many stand above one another.              *)
THEOREM NoTriggerLost == Spec => []TriggersAccounted
<1>1. IInv => TriggersAccounted
  <2> SUFFICES ASSUME IInv, outcome = "done", NEW i \in DOMAIN source, source[i].kind = "header"
               PROVE  i \in commented \/ Taken(i)
    BY DEF TriggersAccounted, Taken, Has
  <2>1. i \in Read /\ ~Waits(i)
    <3>1. DOMAIN <<>> = {} /\ DOMAIN source = 1 .. Len(source) /\ Len(source) \in Nat
      BY DEF IInv, PlaceTyped
    <3>2. QED
      BY <3>1 DEF IInv, AtTheEnd, Read, Waits
  <2>2. QED
    BY <2>1 DEF IInv, Accounted
<1>2. QED
  BY <1>1, Inductive, PTL

----------------------------------------------------------------------------
(* Induction.                                                              *)

LEMMA Least ==
  ASSUME NEW T \in SUBSET Nat, T # {}
  PROVE  \E n \in T : \A m \in T : n <= m
<1> DEFINE R == {p \in Nat \X Nat : p[1] < p[2]}
<1>1. IsWellFoundedOn(R, Nat)
  BY NatLessThanWellFounded DEF OpToRel
<1>2. \A m, n \in Nat : <<m, n>> \notin R => n <= m
  OBVIOUS
<1> HIDE DEF R
<1>3. \E n \in T : \A m \in T : <<m, n>> \notin R
  BY <1>1, WFMin
<1>4. QED
  BY <1>2, <1>3

LEMMA AddedUp ==
  ASSUME NEW a \in Nat, NEW b \in Nat, NEW c \in Nat
  PROVE  a + (b + c) = (a + b) + c
  OBVIOUS

(* A set that is closed under the successor holds all numbers to n.        *)
LEMMA UpTo ==
  ASSUME NEW n \in Nat, NEW P, 0 \in P, \A i \in 1 .. n : i - 1 \in P => i \in P
  PROVE  \A i \in 0 .. n : i \in P
<1> DEFINE T == {i \in 0 .. n : i \notin P}
<1> SUFFICES ASSUME T # {} PROVE FALSE
  OBVIOUS
<1>1. T \in SUBSET Nat
  OBVIOUS
<1>2. PICK i \in T : \A j \in T : i <= j
  <2> HIDE DEF T
  <2> QED BY <1>1, Least
<1>3. i \in 1 .. n /\ i - 1 \in 0 .. n /\ i - 1 \notin T
  BY <1>2
<1>4. QED
  BY <1>2, <1>3

----------------------------------------------------------------------------
(* Sequences put together.                                                 *)

(* What FlattenSeq computes, element by element.                           *)
Flattens(f, seqs) ==
    f = [i \in 1 .. Len(seqs) |-> IF i = 1 THEN seqs[i] ELSE f[i - 1] \o seqs[i]]

LEMMA FlattenDef ==
  ASSUME NEW S, NEW seqs \in Seq(S), seqs # <<>>, NEW f, Flattens(f, seqs)
  PROVE  \E g : Flattens(g, seqs) /\ FlattenSeq(seqs) = g[Len(seqs)]
<1> DEFINE IsFlat(g) == g = [i \in 1 .. Len(seqs) |->
                               IF i = 1 THEN seqs[i] ELSE g[i - 1] \o seqs[i]]
           flat == CHOOSE g : IsFlat(g)
<1>1. IsFlat(f)
  BY DEF Flattens
<1>2. IsFlat(flat)
  <2> HIDE DEF IsFlat
  <2> QED BY <1>1
<1>3. Len(seqs) # 0
  OBVIOUS
<1>4. FlattenSeq(seqs) = flat[Len(seqs)]
  BY <1>3 DEF FlattenSeq
<1> HIDE DEF flat
<1>5. QED
  BY <1>2, <1>4 DEF Flattens


(* What FlattenSeq returns is settled by any function that flattens.       *)
LEMMA FlattenIs ==
  ASSUME NEW S, NEW seqs \in Seq(S), seqs # <<>>, NEW f, Flattens(f, seqs)
  PROVE  FlattenSeq(seqs) = f[Len(seqs)]
<1> DEFINE n == Len(seqs)
<1>1. n \in Nat /\ n >= 1
  OBVIOUS
<1>2. PICK g : Flattens(g, seqs) /\ FlattenSeq(seqs) = g[n]
  BY FlattenDef
<1> HIDE DEF n
<1>3. \A i \in 1 .. n : f[i] = IF i = 1 THEN seqs[i] ELSE f[i - 1] \o seqs[i]
  BY DEF Flattens, n
<1>4. \A i \in 1 .. n : g[i] = IF i = 1 THEN seqs[i] ELSE g[i - 1] \o seqs[i]
  BY <1>2 DEF Flattens, n
<1> DEFINE P == {i \in 0 .. n : i = 0 \/ f[i] = g[i]}
<1>5. \A i \in 1 .. n : i - 1 \in P => i \in P
  <2> TAKE i \in 1 .. n
  <2>1. i \in 0 .. n /\ (i - 1 = 0 <=> i = 1)
    BY <1>1
  <2>2. CASE i = 1
    BY <1>3, <1>4, <2>1, <2>2
  <2>3. CASE i # 1
    <3>1. f[i] = f[i - 1] \o seqs[i] /\ g[i] = g[i - 1] \o seqs[i]
      BY <1>3, <1>4, <2>3
    <3>2. QED
      BY <2>1, <2>3, <3>1
  <2>4. QED
    BY <2>2, <2>3
<1>6. 0 \in P
  BY <1>1
<1>7. \A i \in 0 .. n : i \in P
  <2> HIDE DEF P
  <2> QED BY <1>1, <1>5, <1>6, UpTo
<1>8. f[n] = g[n]
  BY <1>1, <1>7
<1>9. QED
  BY <1>2, <1>8 DEF n

(* There is one, and what it returns are sequences.                        *)
LEMMA FlattenExists ==
  ASSUME NEW S, NEW seqs \in Seq(Seq(S))
  PROVE  \E f \in [1 .. Len(seqs) -> Seq(S)] : Flattens(f, seqs)
<1> DEFINE n == Len(seqs)
           Good(f, k) == \A i \in 1 .. k : f[i] = IF i = 1 THEN seqs[i] ELSE f[i - 1] \o seqs[i]
           P == {k \in 0 .. n : \E f \in [1 .. k -> Seq(S)] : Good(f, k)}
<1>1. n \in Nat /\ \A i \in 1 .. n : seqs[i] \in Seq(S)
  OBVIOUS
<1> HIDE DEF n
<1>2. 0 \in P
  <2> DEFINE none == [i \in 1 .. 0 |-> <<>>]
  <2>1. none \in [1 .. 0 -> Seq(S)]
    OBVIOUS
  <2> HIDE DEF none
  <2>2. Good(none, 0) /\ 0 \in 0 .. n
    BY <1>1
  <2>3. QED
    BY <2>1, <2>2
<1>3. ASSUME NEW k \in 1 .. n, k - 1 \in P PROVE k \in P
  <2>1. PICK f \in [1 .. k - 1 -> Seq(S)] : Good(f, k - 1)
    BY <1>3
  <2> DEFINE e == [i \in 1 .. k |-> IF i = k THEN (IF k = 1 THEN seqs[k] ELSE f[k - 1] \o seqs[k])
                                     ELSE f[i]]
  <2>2. k \in 0 .. n /\ seqs[k] \in Seq(S) /\ \A i \in 1 .. k : i # k => i \in 1 .. k - 1
    BY <1>1
  <2>3. k # 1 => k - 1 \in 1 .. k - 1 /\ f[k - 1] \in Seq(S)
    BY <1>1
  <2>4. k # 1 => f[k - 1] \o seqs[k] \in Seq(S)
    BY <2>2, <2>3
  <2>5. e \in [1 .. k -> Seq(S)]
    BY <2>2, <2>4
  <2>6. \A i \in 1 .. k : i # k => e[i] = f[i] /\ (i # 1 => i - 1 \in 1 .. k /\ i - 1 # k)
    BY <1>1
  <2>7. e[k] = IF k = 1 THEN seqs[k] ELSE e[k - 1] \o seqs[k]
    <3>1. k # 1 => e[k - 1] = f[k - 1]
      BY <1>1, <2>3
    <3>2. k \in 1 .. k
      BY <1>1
    <3>3. QED
      BY <3>1, <3>2
  <2> HIDE DEF e
  <2>8. Good(e, k)
    <3> SUFFICES ASSUME NEW i \in 1 .. k
                 PROVE  e[i] = IF i = 1 THEN seqs[i] ELSE e[i - 1] \o seqs[i]
      OBVIOUS
    <3>1. CASE i = k
      BY <2>7, <3>1
    <3>2. CASE i # k
      <4>1. i \in 1 .. k - 1 /\ e[i] = f[i]
        BY <2>2, <2>6, <3>2
      <4>2. f[i] = IF i = 1 THEN seqs[i] ELSE f[i - 1] \o seqs[i]
        BY <2>1, <4>1
      <4>3. i # 1 => e[i - 1] = f[i - 1]
        BY <2>6, <3>2
      <4>4. QED
        BY <4>1, <4>2, <4>3
    <3>3. QED
      BY <3>1, <3>2
  <2>9. QED
    BY <2>2, <2>5, <2>8
<1>4. n \in P
  <2> HIDE DEF P
  <2>1. \A i \in 0 .. n : i \in P
    BY <1>1, <1>2, <1>3, UpTo
  <2>2. QED
    BY <1>1, <2>1
<1>5. PICK f \in [1 .. n -> Seq(S)] : Good(f, n)
  BY <1>4
<1>6. f = [i \in 1 .. n |-> f[i]]
  OBVIOUS
<1>7. Flattens(f, seqs)
  BY <1>5, <1>6 DEF Flattens, n
<1>8. QED
  BY <1>5, <1>7 DEF n

(* Where the elements of two sequences have gone.                          *)
Juxtaposed(t, a, b) ==
    /\ Len(t) = Len(a) + Len(b) /\ DOMAIN t = 1 .. Len(a) + Len(b)
    /\ \A i \in 1 .. Len(a) : t[i] = a[i]
    /\ \A i \in 1 .. Len(b) : t[Len(a) + i] = b[i]

LEMMA Concat ==
  ASSUME NEW S, NEW a \in Seq(S), NEW b \in Seq(S)
  PROVE  a \o b \in Seq(S) /\ Juxtaposed(a \o b, a, b)
<1>1. a \o b \in Seq(S) /\ Len(a \o b) = Len(a) + Len(b) /\ DOMAIN (a \o b) = 1 .. Len(a) + Len(b)
  OBVIOUS
<1>2. \A i \in 1 .. Len(a) : (a \o b)[i] = a[i]
  OBVIOUS
<1>3. \A i \in 1 .. Len(b) : (a \o b)[Len(a) + i] = b[i]
  OBVIOUS
<1>4. QED
  BY <1>1, <1>2, <1>3 DEF Juxtaposed

Either(a, b, c) == (a \o b) \o c = a \o (b \o c)
LEMMA Associative ==
  ASSUME NEW S, NEW a \in Seq(S), NEW b \in Seq(S), NEW c \in Seq(S)
  PROVE  Either(a, b, c)
  BY DEF Either

(* Those of the first of some sequences.                                   *)
Accumulates(g, seqs, S) ==
    /\ g \in [0 .. Len(seqs) -> Seq(S)] /\ g[0] = <<>>
    /\ \A k \in 1 .. Len(seqs) : g[k] = g[k - 1] \o seqs[k]

LEMMA AccumulatesIs ==
  ASSUME NEW S, NEW seqs \in Seq(Seq(S)), NEW g, Accumulates(g, seqs, S)
  PROVE  FlattenSeq(seqs) = g[Len(seqs)]
<1> DEFINE n == Len(seqs)
<1>1. n \in Nat /\ (seqs = <<>> <=> n = 0) /\ \A k \in 1 .. n : seqs[k] \in Seq(S)
  OBVIOUS
<1>2. CASE n = 0
  <2>1. FlattenSeq(seqs) = seqs
    BY <1>2 DEF FlattenSeq
  <2>2. QED
    BY <1>1, <1>2, <2>1 DEF Accumulates
<1>3. CASE n # 0
  <2> DEFINE f == [i \in 1 .. n |-> g[i]]
  <2>1. \A i \in 1 .. n : f[i] = g[i]
    OBVIOUS
  <2>2. f = [i \in 1 .. n |-> f[i]]
    OBVIOUS
  <2> HIDE DEF f
  <2>3. \A i \in 1 .. n : f[i] = IF i = 1 THEN seqs[i] ELSE f[i - 1] \o seqs[i]
    <3> TAKE i \in 1 .. n
    <3>1. CASE i = 1
      <4>1. 1 \in 1 .. n /\ 1 - 1 = 0
        BY <3>1
      <4>2. g[1] = g[0] \o seqs[1] /\ g[0] = <<>>
        BY <4>1 DEF Accumulates
      <4>3. seqs[1] \in Seq(S)
        BY <1>1, <4>1
      <4>4. <<>> \o seqs[1] = seqs[1]
        BY <4>3
      <4>5. f[1] = seqs[1]
        BY <2>1, <4>1, <4>2, <4>4
      <4>6. QED
        BY <3>1, <4>5
    <3>2. CASE i # 1
      <4>1. i - 1 \in 1 .. n
        BY <1>1, <3>2
      <4>2. g[i] = g[i - 1] \o seqs[i]
        BY DEF Accumulates
      <4>3. QED
        BY <2>1, <3>2, <4>1, <4>2
    <3>3. QED
      BY <3>1, <3>2
  <2>4. Flattens(f, seqs)
    BY <2>2, <2>3 DEF Flattens
  <2>5. FlattenSeq(seqs) = f[n]
    BY <1>1, <1>3, <2>4, FlattenIs
  <2>6. QED
    BY <1>1, <1>3, <2>1, <2>5
<1>4. QED
  BY <1>2, <1>3

LEMMA AccumulatesExist ==
  ASSUME NEW S, NEW seqs \in Seq(Seq(S))
  PROVE  \E g : Accumulates(g, seqs, S)
<1> DEFINE n == Len(seqs)
<1>1. n \in Nat /\ \A k \in 1 .. n : seqs[k] \in Seq(S)
  OBVIOUS
<1>2. PICK f \in [1 .. n -> Seq(S)] : Flattens(f, seqs)
  BY FlattenExists
<1>3. \A i \in 1 .. n : f[i] = IF i = 1 THEN seqs[i] ELSE f[i - 1] \o seqs[i]
  BY <1>2 DEF Flattens
<1> HIDE DEF n
<1> DEFINE g == [k \in 0 .. n |-> IF k = 0 THEN <<>> ELSE f[k]]
<1>4. g[0] = <<>> /\ \A k \in 1 .. n : g[k] = f[k]
  BY <1>1
<1>5. g \in [0 .. n -> Seq(S)]
  <2>1. <<>> \in Seq(S) /\ \A k \in 0 .. n : k # 0 => k \in 1 .. n
    BY <1>1
  <2>2. \A k \in 0 .. n : (IF k = 0 THEN <<>> ELSE f[k]) \in Seq(S)
    BY <1>2, <2>1
  <2>3. QED
    BY <2>2
<1> HIDE DEF g
<1>6. ASSUME NEW k \in 1 .. n PROVE g[k] = g[k - 1] \o seqs[k]
  <2>1. CASE k = 1
    <3>1. 1 \in 1 .. n /\ 1 - 1 = 0
      BY <2>1
    <3>2. g[1] = seqs[1] /\ g[1 - 1] = <<>>
      BY <1>3, <1>4, <3>1
    <3>3. seqs[1] \in Seq(S)
      BY <1>1, <3>1
    <3>4. <<>> \o seqs[1] = seqs[1]
      BY <3>3
    <3>5. g[1] = g[1 - 1] \o seqs[1]
      BY <3>2, <3>4
    <3>6. QED
      BY <2>1, <3>5
  <2>2. CASE k # 1
    <3>1. k - 1 \in 1 .. n
      BY <1>1, <2>2
    <3>2. QED
      BY <1>3, <1>4, <2>2, <3>1
  <2>3. QED
    BY <2>1, <2>2
<1>7. QED
  BY <1>4, <1>5, <1>6 DEF Accumulates, n

LEMMA FlattenTyped ==
  ASSUME NEW S, NEW seqs \in Seq(Seq(S))
  PROVE  FlattenSeq(seqs) \in Seq(S)
<1>1. PICK g : Accumulates(g, seqs, S)
  BY AccumulatesExist
<1>2. Len(seqs) \in 0 .. Len(seqs)
  OBVIOUS
<1>3. g[Len(seqs)] \in Seq(S)
  BY <1>1, <1>2 DEF Accumulates
<1>4. FlattenSeq(seqs) = g[Len(seqs)]
  BY <1>1, AccumulatesIs
<1>5. QED
  BY <1>3, <1>4

(* A sequence stands in another one from a place on.                       *)
At(list, i, part) ==
    \A k \in 1 .. Len(part) : i + k - 1 \in DOMAIN list /\ list[i + k - 1] = part[k]

LEMMA AtBoth ==
  ASSUME NEW S, NEW a \in Seq(S), NEW b \in Seq(S), NEW list, NEW i \in Nat, At(list, i, a \o b)
  PROVE  At(list, i, a) /\ At(list, i + Len(a), b) /\ Len(a \o b) = Len(a) + Len(b)
<1> DEFINE t == a \o b
<1>1. Juxtaposed(t, a, b) /\ Len(a) \in Nat /\ Len(b) \in Nat
  BY Concat
<1> HIDE DEF t
<1>2. ASSUME NEW k \in 1 .. Len(a) PROVE i + k - 1 \in DOMAIN list /\ list[i + k - 1] = a[k]
  BY <1>1 DEF Juxtaposed, At, t
<1>3. ASSUME NEW k \in 1 .. Len(b)
      PROVE  i + Len(a) + k - 1 \in DOMAIN list /\ list[i + Len(a) + k - 1] = b[k]
  <2>1. Len(a) + k \in 1 .. Len(t) /\ t[Len(a) + k] = b[k] /\ i + (Len(a) + k) - 1 = i + Len(a) + k - 1
    BY <1>1 DEF Juxtaposed
  <2>2. i + (Len(a) + k) - 1 \in DOMAIN list /\ list[i + (Len(a) + k) - 1] = t[Len(a) + k]
    BY <2>1 DEF At, t
  <2>3. QED
    BY <2>1, <2>2
<1>4. QED
  BY <1>1, <1>2, <1>3 DEF Juxtaposed, At, t

(* Where each of some sequences stands when all of them do.                *)
Places(p, list, i, seqs) ==
    /\ p \in [0 .. Len(seqs) -> Nat] /\ p[0] = i
    /\ p[Len(seqs)] = i + Len(FlattenSeq(seqs))
    /\ \A k \in 1 .. Len(seqs) : p[k] = p[k - 1] + Len(seqs[k]) /\ At(list, p[k - 1], seqs[k])

LEMMA PlacesExist ==
  ASSUME NEW S, NEW seqs \in Seq(Seq(S)), NEW list, NEW i \in Nat,
         At(list, i, FlattenSeq(seqs))
  PROVE  \E p : Places(p, list, i, seqs)
<1> DEFINE n == Len(seqs)
<1>1. n \in Nat /\ \A k \in 1 .. n : seqs[k] \in Seq(S)
  OBVIOUS
<1>2. PICK g : Accumulates(g, seqs, S)
  BY AccumulatesExist
<1>3. g[n] = FlattenSeq(seqs)
  BY <1>2, AccumulatesIs
<1> HIDE DEF n
<1>4. /\ g \in [0 .. n -> Seq(S)] /\ g[0] = <<>>
      /\ \A k \in 1 .. n : g[k] = g[k - 1] \o seqs[k]
  BY <1>2 DEF Accumulates, n
<1>5. ASSUME NEW k \in 1 .. n, At(list, i, g[k])
      PROVE  /\ At(list, i, g[k - 1]) /\ At(list, i + Len(g[k - 1]), seqs[k])
             /\ Len(g[k]) = Len(g[k - 1]) + Len(seqs[k])
  <2>1. k - 1 \in 0 .. n
    BY <1>1
  <2>2. g[k - 1] \in Seq(S) /\ seqs[k] \in Seq(S)
    BY <1>1, <1>4, <2>1
  <2>3. g[k] = g[k - 1] \o seqs[k]
    BY <1>4
  <2>4. At(list, i, g[k - 1] \o seqs[k])
    BY <1>5, <2>3
  <2>5. QED
    BY <2>2, <2>3, <2>4, AtBoth
<1> DEFINE P == {j \in 0 .. n : At(list, i, g[n - j])}
<1>6. 0 \in P
  <2>1. n - 0 = n /\ 0 \in 0 .. n
    BY <1>1
  <2>2. QED
    BY <1>3, <2>1
<1>7. \A j \in 1 .. n : j - 1 \in P => j \in P
  <2> SUFFICES ASSUME NEW j \in 1 .. n, j - 1 \in P PROVE j \in P
    OBVIOUS
  <2>1. n - (j - 1) \in 1 .. n /\ n - (j - 1) - 1 = n - j /\ j \in 0 .. n
    BY <1>1
  <2>2. At(list, i, g[n - (j - 1)])
    OBVIOUS
  <2>3. QED
    BY <1>5, <2>1, <2>2
<1>8. \A j \in 0 .. n : j \in P
  <2> HIDE DEF P
  <2> QED BY <1>1, <1>6, <1>7, UpTo
<1>9. ASSUME NEW k \in 0 .. n PROVE At(list, i, g[k])
  <2>1. n - k \in 0 .. n /\ n - (n - k) = k
    BY <1>1
  <2>2. n - k \in P
    BY <1>8, <2>1
  <2>3. QED
    BY <2>1, <2>2
<1> HIDE DEF P
<1> DEFINE p == [k \in 0 .. n |-> i + Len(g[k])]
<1>10. \A k \in 0 .. n : p[k] = i + Len(g[k]) /\ Len(g[k]) \in Nat
  BY <1>4
<1>11. p \in [0 .. n -> Nat]
  BY <1>10
<1> HIDE DEF p
<1>12. p[0] = i /\ p[n] = i + Len(FlattenSeq(seqs))
  <2>1. 0 \in 0 .. n /\ n \in 0 .. n /\ Len(<<>>) = 0
    BY <1>1
  <2>2. p[0] = i + Len(<<>>) /\ p[n] = i + Len(g[n])
    BY <1>4, <1>10, <2>1
  <2>3. QED
    BY <1>3, <2>1, <2>2
<1>13. ASSUME NEW k \in 1 .. n
       PROVE  p[k] = p[k - 1] + Len(seqs[k]) /\ At(list, p[k - 1], seqs[k])
  <2>1. k \in 0 .. n /\ k - 1 \in 0 .. n
    BY <1>1
  <2>2. /\ At(list, i + Len(g[k - 1]), seqs[k]) /\ Len(g[k]) = Len(g[k - 1]) + Len(seqs[k])
    BY <1>5, <1>9, <2>1
  <2>3. Len(seqs[k]) \in Nat
    BY <1>1
  <2>4. /\ p[k] = i + Len(g[k]) /\ p[k - 1] = i + Len(g[k - 1]) /\ Len(g[k - 1]) \in Nat
    BY <1>10, <2>1
  <2>5. At(list, p[k - 1], seqs[k])
    BY <2>2, <2>4
  <2>6. p[k] = p[k - 1] + Len(seqs[k])
    <3> HIDE DEF At
    <3>1. Len(g[k]) = Len(g[k - 1]) + Len(seqs[k])
      BY <2>2
    <3>2. i + (Len(g[k - 1]) + Len(seqs[k])) = (i + Len(g[k - 1])) + Len(seqs[k])
      BY <2>3, <2>4, AddedUp
    <3>3. QED
      BY <2>4, <3>1, <3>2, Zenon
  <2>7. QED
    BY <2>5, <2>6
<1>14. QED
  BY <1>11, <1>12, <1>13 DEF Places, n

(* What is read from each place on is a part, and what is read behind it.  *)
Telescopes(c, p, seqs) ==
    \A k \in 1 .. Len(seqs) : c[p[k - 1]] = seqs[k] \o c[p[k]]

LEMMA Telescoped ==
  ASSUME NEW S, NEW seqs \in Seq(Seq(S)), NEW c, NEW p, Telescopes(c, p, seqs),
         \A k \in 0 .. Len(seqs) : c[p[k]] \in Seq(S)
  PROVE  c[p[0]] = FlattenSeq(seqs) \o c[p[Len(seqs)]]
<1> DEFINE n == Len(seqs)
<1>1. n \in Nat /\ \A k \in 1 .. n : seqs[k] \in Seq(S)
  OBVIOUS
<1>2. PICK g : Accumulates(g, seqs, S)
  BY AccumulatesExist
<1>3. g[n] = FlattenSeq(seqs)
  BY <1>2, AccumulatesIs
<1> DEFINE d == [k \in 0 .. n |-> c[p[k]]]
<1>4. \A k \in 0 .. n : d[k] = c[p[k]]
  OBVIOUS
<1> HIDE DEF n, d
<1>5. /\ g \in [0 .. n -> Seq(S)] /\ g[0] = <<>>
      /\ \A k \in 1 .. n : g[k] = g[k - 1] \o seqs[k]
  BY <1>2 DEF Accumulates, n
<1>6. \A k \in 0 .. n : d[k] \in Seq(S)
  BY <1>4 DEF n
<1>7. \A k \in 1 .. n : d[k - 1] = seqs[k] \o d[k]
  <2> TAKE k \in 1 .. n
  <2>1. k \in 0 .. n /\ k - 1 \in 0 .. n
    BY <1>1
  <2>2. QED
    BY <1>4, <2>1 DEF Telescopes, n
<1> DEFINE P == {k \in 0 .. n : d[0] = g[k] \o d[k]}
<1>8. 0 \in P
  <2>1. 0 \in 0 .. n /\ d[0] \in Seq(S)
    BY <1>1, <1>6
  <2>2. <<>> \o d[0] = d[0]
    BY <2>1
  <2>3. QED
    BY <1>5, <2>1, <2>2
<1>9. \A k \in 1 .. n : k - 1 \in P => k \in P
  <2> SUFFICES ASSUME NEW k \in 1 .. n, k - 1 \in P PROVE k \in P
    OBVIOUS
  <2>1. k \in 0 .. n /\ k - 1 \in 0 .. n
    BY <1>1
  <2>2. g[k - 1] \in Seq(S) /\ seqs[k] \in Seq(S) /\ d[k] \in Seq(S)
    BY <1>1, <1>5, <1>6, <2>1
  <2>3. (g[k - 1] \o seqs[k]) \o d[k] = g[k - 1] \o (seqs[k] \o d[k])
    <3>1. Either(g[k - 1], seqs[k], d[k])
      BY <2>2, Associative
    <3>2. QED
      BY <3>1 DEF Either
  <2>4. d[0] = g[k - 1] \o d[k - 1]
    OBVIOUS
  <2>5. QED
    BY <1>5, <1>7, <2>1, <2>3, <2>4
<1>10. \A k \in 0 .. n : k \in P
  <2> HIDE DEF P
  <2> QED BY <1>1, <1>8, <1>9, UpTo
<1>11. n \in 0 .. n /\ 0 \in 0 .. n
  BY <1>1
<1>12. d[0] = g[n] \o d[n]
  BY <1>10, <1>11
<1>13. d[0] = c[p[0]] /\ d[n] = c[p[n]]
  BY <1>4, <1>11
<1>14. QED
  BY <1>3, <1>12, <1>13 DEF n

LEMMA EmptyBefore ==
  ASSUME NEW S, NEW a \in Seq(S)
  PROVE  <<>> \o a = a /\ a \o <<>> = a
  OBVIOUS

LEMMA FlattenNone == FlattenSeq(<<>>) = <<>>
  BY DEF FlattenSeq

LEMMA FlattenBoth ==
  ASSUME NEW S, NEW a \in Seq(Seq(S)), NEW b \in Seq(Seq(S))
  PROVE  FlattenSeq(a \o b) = FlattenSeq(a) \o FlattenSeq(b)
<1> DEFINE n == Len(a)
           m == Len(b)
           t == a \o b
<1>1. t \in Seq(Seq(S)) /\ Juxtaposed(t, a, b) /\ n \in Nat /\ m \in Nat
  BY Concat
<1>2. PICK ga : Accumulates(ga, a, S)
  BY AccumulatesExist
<1>3. PICK gb : Accumulates(gb, b, S)
  BY AccumulatesExist
<1>4. FlattenSeq(a) = ga[n] /\ FlattenSeq(b) = gb[m]
  BY <1>2, <1>3, AccumulatesIs
<1>5. \A k \in 1 .. m : b[k] \in Seq(S)
  OBVIOUS
<1> HIDE DEF n, m, t
<1>6. Len(t) = n + m /\ (\A k \in 1 .. n : t[k] = a[k]) /\ \A k \in 1 .. m : t[n + k] = b[k]
  BY <1>1 DEF Juxtaposed, n, m
<1>7. (\A k \in 0 .. n : ga[k] \in Seq(S)) /\ ga[0] = <<>>
  BY <1>2 DEF Accumulates, n
<1>8. \A k \in 1 .. n : ga[k] = ga[k - 1] \o a[k]
  BY <1>2 DEF Accumulates, n
<1>9. (\A k \in 0 .. m : gb[k] \in Seq(S)) /\ gb[0] = <<>>
  BY <1>3 DEF Accumulates, m
<1>10. \A k \in 1 .. m : gb[k] = gb[k - 1] \o b[k]
  BY <1>3 DEF Accumulates, m
<1> DEFINE g == [k \in 0 .. n + m |-> IF k <= n THEN ga[k] ELSE ga[n] \o gb[k - n]]
<1>11. \A k \in 0 .. n : g[k] = ga[k]
  <2>1. \A k \in 0 .. n : k \in 0 .. n + m /\ k <= n
    BY <1>1
  <2>2. QED
    BY <2>1
<1>12. \A k \in 0 .. m : g[n + k] = ga[n] \o gb[k]
  <2> TAKE k \in 0 .. m
  <2>1. n + k \in 0 .. n + m /\ (n + k <= n <=> k = 0) /\ n + k - n = k /\ n \in 0 .. n
    BY <1>1
  <2>2. CASE k = 0
    <3>1. ga[n] \in Seq(S)
      BY <1>7, <2>1
    <3>2. ga[n] \o <<>> = ga[n]
      BY <3>1
    <3>3. n + k = n
      BY <1>1, <2>2
    <3>4. g[n] = ga[n]
      BY <1>11, <2>1
    <3>5. QED
      BY <1>9, <2>2, <3>2, <3>3, <3>4
  <2>3. CASE k # 0
    <3> DEFINE j == n + k
    <3>1. j \in 0 .. n + m /\ ~(j <= n) /\ j - n = k
      BY <2>1, <2>3
    <3> HIDE DEF j
    <3>2. g[j] = ga[n] \o gb[j - n]
      BY <3>1
    <3> HIDE DEF g
    <3>3. g[j] = ga[n] \o gb[k]
      BY <3>1, <3>2
    <3>4. QED
      BY <3>3 DEF j
  <2>4. QED
    BY <2>2, <2>3
<1>13. DOMAIN g = 0 .. n + m
  OBVIOUS
<1> DEFINE G(k) == g[k] \in Seq(S)
<1>14. g = [k \in 0 .. n + m |-> g[k]]
  OBVIOUS
<1> HIDE DEF g
<1>15. n \in 0 .. n /\ m \in 0 .. m /\ 0 \in 0 .. n
  BY <1>1
<1>16. \A k \in 0 .. n + m : G(k)
  <2> TAKE k \in 0 .. n + m
  <2>1. CASE k <= n
    <3>1. k \in 0 .. n
      BY <1>1, <2>1
    <3>2. QED
      BY <1>7, <1>11, <3>1
  <2>2. CASE ~(k <= n)
    <3>1. k - n \in 0 .. m /\ n + (k - n) = k
      BY <1>1, <2>2
    <3>2. g[k] = ga[n] \o gb[k - n]
      BY <1>12, <3>1
    <3>3. ga[n] \in Seq(S) /\ gb[k - n] \in Seq(S)
      BY <1>7, <1>9, <1>15, <3>1
    <3>4. QED
      BY <3>2, <3>3
  <2>3. QED
    BY <2>1, <2>2
<1>17. ASSUME NEW k \in 1 .. n + m PROVE g[k] = g[k - 1] \o t[k]
  <2>1. CASE k <= n
    <3>1. k \in 1 .. n /\ k \in 0 .. n /\ k - 1 \in 0 .. n
      BY <1>1, <2>1
    <3>2. QED
      BY <1>6, <1>8, <1>11, <3>1
  <2>2. CASE ~(k <= n)
    <3> DEFINE j == k - n
    <3>1. j \in 1 .. m /\ j \in 0 .. m /\ j - 1 \in 0 .. m /\ n + j = k /\ n + (j - 1) = k - 1
      BY <1>1, <2>2
    <3> HIDE DEF j
    <3>2. g[k] = ga[n] \o gb[j] /\ g[k - 1] = ga[n] \o gb[j - 1] /\ t[k] = b[j]
      BY <1>6, <1>12, <3>1
    <3>3. ga[n] \in Seq(S) /\ gb[j - 1] \in Seq(S) /\ b[j] \in Seq(S)
      BY <1>5, <1>7, <1>9, <1>15, <3>1 DEF m
    <3>4. (ga[n] \o gb[j - 1]) \o b[j] = ga[n] \o (gb[j - 1] \o b[j])
      <4>1. Either(ga[n], gb[j - 1], b[j])
        BY <3>3, Associative
      <4>2. QED
        BY <4>1 DEF Either
    <3>5. gb[j] = gb[j - 1] \o b[j]
      BY <1>10, <3>1
    <3>6. QED
      BY <3>2, <3>4, <3>5, Zenon
  <2>3. QED
    BY <2>1, <2>2
<1>18. Accumulates(g, t, S)
  <2>1. g \in [0 .. n + m -> Seq(S)]
    BY <1>14, <1>16
  <2>2. g[0] = <<>>
    BY <1>7, <1>11, <1>15
  <2>3. QED
    BY <1>6, <1>17, <2>1, <2>2 DEF Accumulates
<1>19. FlattenSeq(t) = g[n + m]
  BY <1>1, <1>6, <1>18, AccumulatesIs
<1>20. g[n + m] = ga[n] \o gb[m]
  BY <1>12, <1>15
<1>21. QED
  BY <1>4, <1>19, <1>20 DEF t

LEMMA FlattenOne ==
  ASSUME NEW S, NEW s \in Seq(S)
  PROVE  FlattenSeq(<<s>>) = s
<1> DEFINE g == [k \in 0 .. 1 |-> IF k = 0 THEN <<>> ELSE s]
<1>1. g[0] = <<>> /\ g[1] = s /\ g \in [0 .. 1 -> Seq(S)]
  OBVIOUS
<1> HIDE DEF g
<1> DEFINE q == <<s>>
<1>2. Len(q) = 1 /\ q[1] = s /\ q \in Seq(Seq(S))
  OBVIOUS
<1> HIDE DEF q
<1>3. <<>> \o s = s
  OBVIOUS
<1>4. \A k \in 1 .. 1 : k = 1 /\ k - 1 = 0
  OBVIOUS
<1>5. \A k \in 1 .. 1 : g[k] = g[k - 1] \o q[k]
  BY <1>1, <1>2, <1>3, <1>4, Zenon
<1>6. Accumulates(g, q, S)
  BY <1>1, <1>2, <1>5 DEF Accumulates
<1>7. FlattenSeq(q) = g[1]
  BY <1>2, <1>6, AccumulatesIs
<1>8. QED
  BY <1>1, <1>7 DEF q

(* Single elements put together.                                           *)
Single(s) == [i \in DOMAIN s |-> <<s[i]>>]
LEMMA FlattenSingle ==
  ASSUME NEW S, NEW s \in Seq(S)
  PROVE  FlattenSeq(Single(s)) = s
<1> DEFINE n == Len(s)
           q == Single(s)
           g == [k \in 0 .. n |-> SubSeq(s, 1, k)]
<1>1. n \in Nat /\ DOMAIN s = 1 .. n
  OBVIOUS
<1>2. \A k \in 0 .. n : g[k] = SubSeq(s, 1, k) /\ SubSeq(s, 1, k) \in Seq(S)
  OBVIOUS
<1>3. g \in [0 .. n -> Seq(S)]
  BY <1>2
<1>4. Len(q) = n /\ \A k \in 1 .. n : q[k] = <<s[k]>>
  BY <1>1 DEF Single
<1>5. q \in Seq(Seq(S))
  <2>1. q = [k \in 1 .. n |-> <<s[k]>>]
    BY <1>1 DEF Single
  <2>2. \A k \in 1 .. n : <<s[k]>> \in Seq(S)
    OBVIOUS
  <2>3. q \in [1 .. n -> Seq(S)]
    BY <2>1, <2>2
  <2> HIDE DEF q, n
  <2>4. QED
    BY <1>1, <2>3
<1>6. ASSUME NEW k \in 1 .. n PROVE SubSeq(s, 1, k) = SubSeq(s, 1, k - 1) \o <<s[k]>>
  OBVIOUS
<1>7. SubSeq(s, 1, 0) = <<>> /\ SubSeq(s, 1, n) = s
  OBVIOUS
<1> HIDE DEF g, q, n
<1>8. \A k \in 1 .. n : k \in 0 .. n /\ k - 1 \in 0 .. n
  BY <1>1
<1>9. \A k \in 1 .. n : g[k] = g[k - 1] \o q[k]
  BY <1>2, <1>4, <1>6, <1>8, Zenon
<1>10. 0 \in 0 .. n /\ n \in 0 .. n
  BY <1>1
<1>11. g[0] = <<>> /\ g[n] = s
  BY <1>2, <1>7, <1>10, Zenon
<1>12. Accumulates(g, q, S)
  BY <1>3, <1>4, <1>9, <1>11 DEF Accumulates
<1>13. FlattenSeq(q) = g[n]
  BY <1>4, <1>5, <1>12, AccumulatesIs
<1>14. QED
  BY <1>11, <1>13 DEF q

LEMMA SameSequence ==
  ASSUME NEW S, NEW a \in Seq(S), NEW b \in Seq(S), Len(a) = Len(b),
         \A i \in 1 .. Len(a) : a[i] = b[i]
  PROVE  a = b
  OBVIOUS

(* What each element of a sequence becomes, put together.                  *)
Images(f, a) == [i \in DOMAIN a |-> f[a[i]]]
Mapped(f, a) == FlattenSeq(Images(f, a))

HasImages(f, a, T) == Images(f, a) \in Seq(T) /\ Len(Images(f, a)) = Len(a)
LEMMA ImagesTyped ==
  ASSUME NEW S, NEW T, NEW f \in [S -> T], NEW a \in Seq(S)
  PROVE  HasImages(f, a, T)
  BY DEF Images, HasImages

ImagesJoin(f, a, b) == Images(f, a \o b) = Images(f, a) \o Images(f, b)
LEMMA ImagesBoth ==
  ASSUME NEW S, NEW T, NEW f \in [S -> T], NEW a \in Seq(S), NEW b \in Seq(S)
  PROVE  ImagesJoin(f, a, b)
<1> DEFINE t == a \o b
           u == Images(f, a) \o Images(f, b)
<1>1. t \in Seq(S) /\ Juxtaposed(t, a, b)
  BY Concat
<1>2. HasImages(f, a, T) /\ HasImages(f, b, T)
  BY ImagesTyped
<1>3. u \in Seq(T) /\ Juxtaposed(u, Images(f, a), Images(f, b))
  BY <1>2, Concat DEF HasImages
<1>4. HasImages(f, t, T)
  <2> HIDE DEF t
  <2> QED BY <1>1, ImagesTyped
<1>5. Len(a) \in Nat /\ Len(b) \in Nat /\ DOMAIN a = 1 .. Len(a) /\ DOMAIN b = 1 .. Len(b)
  OBVIOUS
<1> HIDE DEF t, u
<1>6. DOMAIN t = 1 .. Len(a) + Len(b) /\ Len(t) = Len(a) + Len(b) /\ Len(u) = Len(a) + Len(b)
  BY <1>1, <1>2, <1>3 DEF Juxtaposed, HasImages
<1>7. ASSUME NEW i \in 1 .. Len(a) + Len(b) PROVE Images(f, t)[i] = u[i]
  <2>1. Images(f, t)[i] = f[t[i]]
    BY <1>6 DEF Images
  <2>2. CASE i <= Len(a)
    <3>1. i \in 1 .. Len(a)
      BY <1>5, <2>2
    <3>2. t[i] = a[i] /\ u[i] = Images(f, a)[i]
      BY <1>1, <1>2, <1>3, <3>1 DEF Juxtaposed, HasImages
    <3>3. Images(f, a)[i] = f[a[i]]
      BY <1>5, <3>1 DEF Images
    <3>4. QED
      BY <2>1, <3>2, <3>3
  <2>3. CASE ~(i <= Len(a))
    <3> DEFINE j == i - Len(a)
    <3>1. j \in 1 .. Len(b) /\ Len(a) + j = i
      BY <1>5, <2>3
    <3> HIDE DEF j
    <3>2. t[i] = b[j] /\ u[i] = Images(f, b)[j]
      BY <1>1, <1>2, <1>3, <3>1 DEF Juxtaposed, HasImages
    <3>3. Images(f, b)[j] = f[b[j]]
      BY <1>5, <3>1 DEF Images
    <3>4. QED
      BY <2>1, <3>2, <3>3
  <2>4. QED
    BY <2>2, <2>3
<1>8. Images(f, t) \in Seq(T) /\ Len(Images(f, t)) = Len(a) + Len(b)
  BY <1>4, <1>6 DEF HasImages
<1>9. Images(f, t) = u
  BY <1>3, <1>6, <1>7, <1>8, SameSequence
<1>10. QED
  BY <1>9 DEF t, u, ImagesJoin

LEMMA MappedTyped ==
  ASSUME NEW S, NEW T, NEW f \in [S -> Seq(T)], NEW a \in Seq(S)
  PROVE  Mapped(f, a) \in Seq(T)
<1>1. HasImages(f, a, Seq(T))
  BY ImagesTyped
<1>2. QED
  BY <1>1, FlattenTyped DEF Mapped, HasImages

LEMMA MappedNone ==
  ASSUME NEW f
  PROVE  Mapped(f, <<>>) = <<>>
<1>1. Images(f, <<>>) = <<>>
  BY DEF Images
<1>2. QED
  BY <1>1, FlattenNone DEF Mapped

MappedJoin(f, a, b) == Mapped(f, a \o b) = Mapped(f, a) \o Mapped(f, b)
LEMMA MappedBoth ==
  ASSUME NEW S, NEW T, NEW f \in [S -> Seq(T)], NEW a \in Seq(S), NEW b \in Seq(S)
  PROVE  MappedJoin(f, a, b)
<1>1. HasImages(f, a, Seq(T)) /\ HasImages(f, b, Seq(T))
  BY ImagesTyped
<1>2. ImagesJoin(f, a, b)
  BY ImagesBoth
<1>3. FlattenSeq(Images(f, a) \o Images(f, b)) = FlattenSeq(Images(f, a)) \o FlattenSeq(Images(f, b))
  BY <1>1, FlattenBoth DEF HasImages
<1>4. QED
  BY <1>2, <1>3, Zenon DEF Mapped, MappedJoin, ImagesJoin

LEMMA MappedOne ==
  ASSUME NEW S, NEW T, NEW f \in [S -> Seq(T)], NEW x \in S
  PROVE  Mapped(f, <<x>>) = f[x]
<1>1. Images(f, <<x>>) = <<f[x]>>
  BY DEF Images
<1>2. f[x] \in Seq(T)
  OBVIOUS
<1>3. QED
  BY <1>1, <1>2, FlattenOne DEF Mapped

LEMMA MappedSingle ==
  ASSUME NEW S, NEW T, NEW f, NEW g \in [S -> T], NEW a \in Seq(S),
         \A i \in DOMAIN a : f[a[i]] = <<g[a[i]]>>
  PROVE  Mapped(f, a) = Images(g, a)
<1>1. HasImages(g, a, T) /\ DOMAIN Images(g, a) = DOMAIN a
  BY ImagesTyped DEF Images
<1>2. Images(f, a) = Single(Images(g, a))
  BY DEF Images, Single
<1>3. QED
  BY <1>1, <1>2, FlattenSingle DEF Mapped, HasImages

FlatMapped(f, seqs) ==
    Mapped(f, FlattenSeq(seqs)) = FlattenSeq([i \in DOMAIN seqs |-> Mapped(f, seqs[i])])
LEMMA MappedFlat ==
  ASSUME NEW S, NEW T, NEW f \in [S -> Seq(T)], NEW seqs \in Seq(Seq(S))
  PROVE  FlatMapped(f, seqs)
<1> DEFINE n == Len(seqs)
           q == [i \in DOMAIN seqs |-> Mapped(f, seqs[i])]
<1>1. n \in Nat /\ DOMAIN seqs = 1 .. n /\ \A k \in 1 .. n : seqs[k] \in Seq(S)
  OBVIOUS
<1>2. PICK g : Accumulates(g, seqs, S)
  BY AccumulatesExist
<1>3. g[n] = FlattenSeq(seqs)
  BY <1>2, AccumulatesIs
<1>4. \A k \in 1 .. n : q[k] = Mapped(f, seqs[k]) /\ Mapped(f, seqs[k]) \in Seq(T)
  BY <1>1, MappedTyped
<1>5. q \in Seq(Seq(T)) /\ Len(q) = n
  <2>1. q \in [1 .. n -> Seq(T)]
    BY <1>1, <1>4
  <2> HIDE DEF q, n
  <2>2. QED
    BY <1>1, <2>1
<1> HIDE DEF n, q
<1>6. g \in [0 .. n -> Seq(S)] /\ g[0] = <<>>
  BY <1>2 DEF Accumulates, n
<1>7. \A k \in 1 .. n : g[k] = g[k - 1] \o seqs[k]
  BY <1>2 DEF Accumulates, n
<1> DEFINE h == [k \in 0 .. n |-> Mapped(f, g[k])]
<1>8. \A k \in 0 .. n : h[k] = Mapped(f, g[k]) /\ Mapped(f, g[k]) \in Seq(T)
  <2> TAKE k \in 0 .. n
  <2>1. g[k] \in Seq(S)
    BY <1>6
  <2>2. QED
    BY <2>1, MappedTyped
<1>9. h \in [0 .. n -> Seq(T)]
  BY <1>8
<1> HIDE DEF h
<1>10. ASSUME NEW k \in 1 .. n PROVE h[k] = h[k - 1] \o q[k]
  <2>1. k \in 0 .. n /\ k - 1 \in 0 .. n
    BY <1>1
  <2>2. g[k - 1] \in Seq(S) /\ seqs[k] \in Seq(S)
    BY <1>1, <1>6, <2>1
  <2>3. MappedJoin(f, g[k - 1], seqs[k])
    BY <2>2, MappedBoth
  <2>4. h[k] = Mapped(f, g[k]) /\ h[k - 1] = Mapped(f, g[k - 1]) /\ q[k] = Mapped(f, seqs[k])
        /\ g[k] = g[k - 1] \o seqs[k]
    BY <1>4, <1>7, <1>8, <2>1
  <2>5. QED
    BY <2>3, <2>4, Zenon DEF MappedJoin
<1>11. 0 \in 0 .. n /\ n \in 0 .. n
  BY <1>1
<1>12. h[0] = <<>> /\ h[n] = Mapped(f, g[n])
  BY <1>6, <1>8, <1>11, MappedNone, Zenon
<1>13. Accumulates(h, q, T)
  BY <1>5, <1>9, <1>10, <1>12 DEF Accumulates
<1>14. FlattenSeq(q) = h[n]
  BY <1>5, <1>13, AccumulatesIs
<1>15. QED
  BY <1>3, <1>12, <1>14 DEF q, FlatMapped

LEMMA ConcatIs ==
  ASSUME NEW S, NEW a \in Seq(S), NEW b \in Seq(S), NEW t \in Seq(S), Juxtaposed(t, a, b)
  PROVE  a \o b = t
<1> DEFINE u == a \o b
<1>1. u \in Seq(S) /\ Juxtaposed(u, a, b) /\ Len(a) \in Nat /\ Len(b) \in Nat
  BY Concat
<1> HIDE DEF u
<1>2. ASSUME NEW i \in 1 .. Len(u) PROVE u[i] = t[i]
  <2>1. CASE i <= Len(a)
    <3>1. i \in 1 .. Len(a)
      BY <1>1, <2>1 DEF Juxtaposed
    <3>2. QED
      BY <1>1, <3>1 DEF Juxtaposed
  <2>2. CASE ~(i <= Len(a))
    <3> DEFINE j == i - Len(a)
    <3>1. j \in 1 .. Len(b) /\ Len(a) + j = i
      BY <1>1, <2>2 DEF Juxtaposed
    <3> HIDE DEF j
    <3>2. u[Len(a) + j] = t[Len(a) + j]
      BY <1>1, <3>1 DEF Juxtaposed
    <3>3. QED
      BY <3>1, <3>2
  <2>3. QED
    BY <2>1, <2>2
<1>3. u = t
  BY <1>1, <1>2, SameSequence DEF Juxtaposed
<1>4. QED
  BY <1>3 DEF u

LEMMA OneAndOne ==
  ASSUME NEW a, NEW b
  PROVE  <<a>> \o <<b>> = <<a, b>>
<1> DEFINE S == {a, b}
           u == <<a>>
           v == <<b>>
           w == <<a, b>>
<1>1. u \in Seq(S) /\ v \in Seq(S) /\ w \in Seq(S)
  OBVIOUS
<1>2. Len(u) = 1 /\ Len(v) = 1 /\ Len(w) = 2 /\ DOMAIN w = 1 .. 2
  OBVIOUS
<1>3. u[1] = a /\ v[1] = b /\ w[1] = a /\ w[2] = b
  OBVIOUS
<1> HIDE DEF S, u, v, w
<1>4. Juxtaposed(w, u, v)
  <2>1. \A i \in 1 .. 1 : i = 1
    OBVIOUS
  <2>2. \A i \in 1 .. 1 : i = 1
    OBVIOUS
  <2>3. QED
    BY <1>2, <1>3, <2>1, <2>2 DEF Juxtaposed
<1>5. u \o v = w
  BY <1>1, <1>4, ConcatIs
<1>6. QED
  BY <1>5 DEF u, v, w

LEMMA TwoAndOne ==
  ASSUME NEW a, NEW b, NEW c
  PROVE  <<a, b>> \o <<c>> = <<a, b, c>>
<1> DEFINE S == {a, b, c}
           u == <<a, b>>
           v == <<c>>
           w == <<a, b, c>>
<1>1. u \in Seq(S) /\ v \in Seq(S) /\ w \in Seq(S)
  OBVIOUS
<1>2. Len(u) = 2 /\ Len(v) = 1 /\ Len(w) = 3 /\ DOMAIN w = 1 .. 3
  OBVIOUS
<1>3. u[1] = a /\ u[2] = b /\ v[1] = c /\ w[1] = a /\ w[2] = b /\ w[3] = c
  OBVIOUS
<1> HIDE DEF S, u, v, w
<1>4. Juxtaposed(w, u, v)
  <2>1. \A i \in 1 .. 2 : i = 1 \/ i = 2
    OBVIOUS
  <2>2. \A i \in 1 .. 1 : i = 1
    OBVIOUS
  <2>3. QED
    BY <1>2, <1>3, <2>1, <2>2 DEF Juxtaposed
<1>5. u \o v = w
  BY <1>1, <1>4, ConcatIs
<1>6. QED
  BY <1>5 DEF u, v, w

LEMMA ThreeAndOne ==
  ASSUME NEW a, NEW b, NEW c, NEW d
  PROVE  <<a, b, c>> \o <<d>> = <<a, b, c, d>>
<1> DEFINE S == {a, b, c, d}
           u == <<a, b, c>>
           v == <<d>>
           w == <<a, b, c, d>>
<1>1. u \in Seq(S) /\ v \in Seq(S) /\ w \in Seq(S)
  OBVIOUS
<1>2. Len(u) = 3 /\ Len(v) = 1 /\ Len(w) = 4 /\ DOMAIN w = 1 .. 4
  OBVIOUS
<1>3. u[1] = a /\ u[2] = b /\ u[3] = c /\ v[1] = d /\ w[1] = a /\ w[2] = b /\ w[3] = c /\ w[4] = d
  OBVIOUS
<1> HIDE DEF S, u, v, w
<1>4. Juxtaposed(w, u, v)
  <2>1. \A i \in 1 .. 3 : i = 1 \/ i = 2 \/ i = 3
    OBVIOUS
  <2>2. \A i \in 1 .. 1 : i = 1
    OBVIOUS
  <2>3. QED
    BY <1>2, <1>3, <2>1, <2>2 DEF Juxtaposed
<1>5. u \o v = w
  BY <1>1, <1>4, ConcatIs
<1>6. QED
  BY <1>5 DEF u, v, w

LEMMA TuplesTyped ==
  ASSUME NEW S
  PROVE  /\ \A a \in S : <<a>> \in Seq(S)
         /\ \A a, b \in S : <<a, b>> \in Seq(S)
         /\ \A a, b, c \in S : <<a, b, c>> \in Seq(S)
         /\ \A a, b, c, d \in S : <<a, b, c, d>> \in Seq(S)
<1>1. \A a \in S : <<a>> \in Seq(S)
  OBVIOUS
<1>2. \A a, b \in S : <<a, b>> \in Seq(S)
  OBVIOUS
<1>3. \A a, b, c \in S : <<a, b, c>> \in Seq(S)
  OBVIOUS
<1>4. \A a, b, c, d \in S : <<a, b, c, d>> \in Seq(S)
  OBVIOUS
<1>5. QED
  BY <1>1, <1>2, <1>3, <1>4

LEMMA Tuples ==
  /\ \A a : Len(<<a>>) = 1 /\ <<a>>[1] = a /\ <<a>> # <<>>
  /\ \A a, b : Len(<<a, b>>) = 2 /\ <<a, b>>[1] = a /\ <<a, b>>[2] = b /\ <<a, b>> # <<>>
<1>1. \A a : Len(<<a>>) = 1 /\ <<a>>[1] = a /\ <<a>> # <<>>
  OBVIOUS
<1>2. \A a, b : Len(<<a, b>>) = 2 /\ <<a, b>>[1] = a /\ <<a, b>>[2] = b /\ <<a, b>> # <<>>
  OBVIOUS
<1>3. QED
  BY <1>1, <1>2

----------------------------------------------------------------------------
(* The tables of keys.                                                     *)
Marks == {"none", "SPACE", "!", "+", "^", "#", "{", "}", "&", ":", ";", "sendinput", "newline",
          "1", "2", "3", "-1", "0"}
NamesOfSpecials ==
    {"F1", "F2", "F3", "F4", "F5", "F6", "F7", "F8", "F9", "F10", "F11", "F12",
     "NumPad0", "NumPad1", "NumPad2", "NumPad3", "NumPad4", "NumPad5", "NumPad6",
     "NumPad7", "NumPad8", "NumPad9", "Numpad0", "Numpad1", "Numpad2", "Numpad3",
     "Numpad4", "Numpad5", "Numpad6", "Numpad7", "Numpad8", "Numpad9",
     "NumPadAdd", "NumPadMult", "NumPadDiv", "NumPadSub",
     "Left", "Right", "Up", "Down", "Home", "End", "PageUp", "PageDown", "Insert",
     "Delete", "Del", "Space", "Enter", "Return", "Tab", "Backspace", "BS", "Escape",
     "Esc"}
NamesOfLetters ==
    {"jcy", "tscy", "ucy", "kcy", "iecy", "ncy", "gcy", "shcy", "shchcy", "zcy",
     "khcy", "hardcy", "fcy", "ycy", "vcy", "acy", "pcy", "rcy", "ocy", "lcy",
     "dcy", "zhcy", "ecy", "yacy", "chcy", "scy", "mcy", "icy", "tcy", "softcy",
     "bcy", "yucy"}

LEMMA DomainOfSpecials == DOMAIN Specials = NamesOfSpecials
  BY DEF Specials, NamesOfSpecials

LEMMA DomainOfLayout == DOMAIN Layout = NamesOfLetters \cup Digits
<1>1. DOMAIN Letters = NamesOfLetters
  BY DEF Letters, NamesOfLetters
<1>2. QED
  BY <1>1 DEF Layout

LEMMA NamesOfKeys ==
  /\ DOMAIN Specials \cap Marks = {} /\ DOMAIN Layout \cap DOMAIN Specials = {}
  /\ "&" \notin DOMAIN Layout /\ "SPACE" \notin DOMAIN Specials
<1>1. NamesOfSpecials \cap Marks = {} /\ "SPACE" \notin NamesOfSpecials
  BY DEF NamesOfSpecials, Marks
<1>2. (NamesOfLetters \cup Digits) \cap NamesOfSpecials = {}
  BY DEF NamesOfSpecials, NamesOfLetters, Digits
<1>3. "&" \notin NamesOfLetters \cup Digits
  BY DEF NamesOfLetters, Digits
<1>4. QED
  BY <1>1, <1>2, <1>3, DomainOfSpecials, DomainOfLayout, Zenon

LEMMA NamesOfModifiers == "&" \notin DOMAIN Modifiers
<1>1. DOMAIN Modifiers = {"Alt", "Ctrl", "LCtrl", "Shift", "Meta", "Super", "Win"}
  BY DEF Modifiers
<1>2. QED
  BY <1>1

LEMMA Numerals ==
  /\ \A n \in 1 .. 3 : Numeral[n] \in {"1", "2", "3"}
  /\ Numeral[1] = "1" /\ Numeral[2] = "2" /\ Numeral[3] = "3"
<1>1. \A n \in 1 .. 3 : Numeral[n] = <<"1", "2", "3">>[n]
  BY DEF Numeral
<1>2. \A n \in 1 .. 3 : n = 1 \/ n = 2 \/ n = 3
  OBVIOUS
<1>3. <<"1", "2", "3">>[1] = "1" /\ <<"1", "2", "3">>[2] = "2" /\ <<"1", "2", "3">>[3] = "3"
  OBVIOUS
<1>4. 1 \in 1 .. 3 /\ 2 \in 1 .. 3 /\ 3 \in 1 .. 3
  OBVIOUS
<1>5. QED
  BY <1>1, <1>2, <1>3, <1>4, Zenon

LEMMA NumbersOf ==
  ASSUME NEW n \in 1 .. 3
  PROVE  Numeral[n] \in DOMAIN Numbers /\ Numbers[Numeral[n]] = n
<1>1. DOMAIN Numbers = {"-1", "0", "1", "2", "3"}
  BY DEF Numbers
<1>2. Numbers["1"] = 1 /\ Numbers["2"] = 2 /\ Numbers["3"] = 3
  BY DEF Numbers
<1>3. n = 1 \/ n = 2 \/ n = 3
  OBVIOUS
<1>4. QED
  BY <1>1, <1>2, <1>3, Numerals

----------------------------------------------------------------------------
(* Places in a text.                                                       *)
LEMMA FindIs ==
  ASSUME NEW text, NEW token, NEW from \in Nat, NEW j \in from .. Len(text),
         Len(text) \in Nat, text[j] = token, \A i \in from .. j - 1 : text[i] # token
  PROVE  Find(text, token, from) = j
<1> DEFINE T == {i \in from .. Len(text) : text[i] = token}
<1>1. j \in T /\ T \in SUBSET Nat
  OBVIOUS
<1>2. \A i \in T : j <= i
  OBVIOUS
<1>3. Find(text, token, from) = Min(T)
  BY <1>1 DEF Find
<1> HIDE DEF T
<1>4. \A i \in T : i \in Nat
  BY <1>1
<1>5. Min(T) \in T /\ \A i \in T : Min(T) <= i
  BY <1>1, <1>2 DEF Min
<1> DEFINE m == Min(T)
<1>6. m = j
  <2> HIDE DEF m
  <2>1. m \in Nat /\ j \in Nat /\ m <= j /\ j <= m
    BY <1>1, <1>2, <1>4, <1>5 DEF m
  <2>2. QED
    BY <2>1
<1>7. QED
  BY <1>3, <1>6

LEMMA FindNone ==
  ASSUME NEW text, NEW token, NEW from \in Nat, Len(text) \in Nat,
         \A i \in from .. Len(text) : text[i] # token
  PROVE  Find(text, token, from) = 0
  BY DEF Find

LEMMA FindIn ==
  ASSUME NEW text, NEW token, NEW from \in Nat, Len(text) \in Nat
  PROVE  Find(text, token, from) = 0 \/ Find(text, token, from) \in from .. Len(text)
<1> DEFINE T == {i \in from .. Len(text) : text[i] = token}
<1>1. T \in SUBSET Nat /\ T \subseteq from .. Len(text)
  OBVIOUS
<1>2. Find(text, token, from) = IF T = {} THEN 0 ELSE Min(T)
  BY DEF Find
<1> HIDE DEF T
<1>3. T # {} => \E i \in T : \A k \in T : i <= k
  BY <1>1, Least
<1>4. T # {} => Min(T) \in T
  BY <1>3 DEF Min
<1>5. QED
  BY <1>1, <1>2, <1>4

LEMMA FindLastIs ==
  ASSUME NEW text, NEW token, Len(text) \in Nat, NEW j \in 1 .. Len(text), text[j] = token,
         \A i \in j + 1 .. Len(text) : text[i] # token
  PROVE  FindLast(text, token) = j
<1> DEFINE T == {i \in 1 .. Len(text) : text[i] = token}
<1>1. j \in T /\ T \in SUBSET Nat
  OBVIOUS
<1>2. \A i \in T : i <= j
  OBVIOUS
<1>3. FindLast(text, token) = Max(T)
  BY <1>1 DEF FindLast, SelectLastInSeq
<1> HIDE DEF T
<1>4. \A i \in T : i \in Nat
  BY <1>1
<1>5. Max(T) \in T /\ \A i \in T : Max(T) >= i
  BY <1>1, <1>2, <1>4 DEF Max
<1> DEFINE m == Max(T)
<1>6. m = j
  <2> HIDE DEF m
  <2>1. m \in Nat /\ j \in Nat /\ m >= j /\ j >= m
    BY <1>1, <1>2, <1>4, <1>5 DEF m
  <2>2. QED
    BY <2>1
<1>7. QED
  BY <1>3, <1>6

LEMMA FindLastNone ==
  ASSUME NEW text, NEW token, Len(text) \in Nat, \A i \in 1 .. Len(text) : text[i] # token
  PROVE  FindLast(text, token) = 0
  BY DEF FindLast, SelectLastInSeq

----------------------------------------------------------------------------
(* The pieces of a text.                                                   *)
LEMMA BehindAhead ==
  ASSUME NEW text, Len(text) \in Nat, NEW i \in 1 .. Len(text)
  PROVE  Behind(text, i) \in i + 1 .. Len(text) + 1
<1>1. Closing(text, i) = 0 \/ Closing(text, i) \in i .. Len(text)
  <2>1. i \in Nat /\ Len(text) \in Nat
    OBVIOUS
  <2>2. QED
    BY <2>1, FindIn DEF Closing
<1> DEFINE c == Closing(text, i)
<1> HIDE DEF c
<1>2. Behind(text, i) = i + 1 \/ Behind(text, i) = Len(text) + 1 \/ (c # 0 /\ Behind(text, i) = c + 1)
  BY DEF Behind, c
<1>3. c = 0 \/ c \in i .. Len(text)
  BY <1>1 DEF c
<1>4. QED
  BY <1>2, <1>3

CutAt(c, text, i) ==
    c[i] = IF i > Len(text) THEN <<>> ELSE << PieceAt(text, i) >> \o c[Behind(text, i)]
Cuts(c, text) ==
    c = [i \in 1 .. Len(text) + 1 |->
            IF i > Len(text) THEN <<>> ELSE << PieceAt(text, i) >> \o c[Behind(text, i)]]

LEMMA CutExists ==
  ASSUME NEW text, Len(text) \in Nat
  PROVE  \E c : Cuts(c, text)
<1> DEFINE n == Len(text)
           P == {k \in 0 .. n : \E c : /\ c = [i \in 1 .. n + 1 |-> c[i]]
                                       /\ \A i \in n + 1 - k .. n + 1 : CutAt(c, text, i)}
<1>1. n \in Nat
  OBVIOUS
<1>2. 0 \in P
  <2> DEFINE c == [i \in 1 .. n + 1 |-> <<>>]
  <2>1. c = [i \in 1 .. n + 1 |-> c[i]] /\ c[n + 1] = <<>>
    BY <1>1
  <2>2. \A i \in n + 1 - 0 .. n + 1 : i = n + 1 /\ i > n
    BY <1>1
  <2> HIDE DEF c
  <2>3. \A i \in n + 1 - 0 .. n + 1 : CutAt(c, text, i)
    BY <2>1, <2>2 DEF CutAt
  <2> HIDE DEF n
  <2>4. QED
    BY <1>1, <2>1, <2>3
<1>3. ASSUME NEW k \in 1 .. n, k - 1 \in P PROVE k \in P
  <2>1. PICK c : c = [i \in 1 .. n + 1 |-> c[i]]
                 /\ \A i \in n + 1 - (k - 1) .. n + 1 : CutAt(c, text, i)
    BY <1>3
  <2> DEFINE p == n + 1 - k
             e == [i \in 1 .. n + 1 |->
                      IF i = p THEN << PieceAt(text, p) >> \o c[Behind(text, p)] ELSE c[i]]
  <2>2. /\ p \in 1 .. n /\ p \in 1 .. n + 1 /\ ~(p > n)
        /\ \A i \in p .. n + 1 : i = p \/ (i \in n + 1 - (k - 1) .. n + 1 /\ i # p)
    BY <1>1
  <2>3. Behind(text, p) \in p + 1 .. n + 1
    BY <2>2, BehindAhead
  <2>4. Behind(text, p) \in 1 .. n + 1 /\ Behind(text, p) # p
    BY <2>2, <2>3
  <2>5. e = [i \in 1 .. n + 1 |-> e[i]] /\ \A i \in 1 .. n + 1 : i # p => e[i] = c[i]
    OBVIOUS
  <2>6. e[p] = << PieceAt(text, p) >> \o c[Behind(text, p)]
    BY <2>2
  <2> HIDE DEF e
  <2>7. CutAt(e, text, p)
    BY <2>2, <2>4, <2>5, <2>6 DEF CutAt
  <2>8. ASSUME NEW i \in n + 1 - (k - 1) .. n + 1, i # p PROVE CutAt(e, text, i)
    <3>1. CutAt(c, text, i) /\ i \in 1 .. n + 1 /\ i >= p + 1
      BY <2>1
    <3>2. ~(i > n) => Behind(text, i) \in 1 .. n + 1 /\ Behind(text, i) # p
      <4>1. ~(i > n) => i \in 1 .. n
        BY <3>1
      <4>2. ~(i > n) => Behind(text, i) \in i + 1 .. n + 1
        BY <4>1, BehindAhead
      <4>3. QED
        BY <2>2, <3>1, <4>1, <4>2
    <3>3. e[i] = c[i]
      BY <2>5, <2>8, <3>1
    <3>4. ~(i > n) => e[Behind(text, i)] = c[Behind(text, i)]
      BY <2>5, <3>2
    <3>5. CASE i > n
      BY <3>1, <3>3, <3>5 DEF CutAt
    <3>6. CASE ~(i > n)
      BY <3>1, <3>3, <3>4, <3>6 DEF CutAt
    <3>7. QED
      BY <3>5, <3>6
  <2>9. \A i \in p .. n + 1 : CutAt(e, text, i)
    BY <2>2, <2>7, <2>8
  <2> HIDE DEF n
  <2>10. k \in 0 .. n
    BY <1>1
  <2>11. QED
    BY <2>5, <2>9, <2>10 DEF p
<1>4. n \in P
  <2> HIDE DEF P
  <2>1. \A k \in 0 .. n : k \in P
    BY <1>1, <1>2, <1>3, UpTo
  <2>2. QED
    BY <1>1, <2>1
<1>5. PICK c : c = [i \in 1 .. n + 1 |-> c[i]] /\ \A i \in n + 1 - n .. n + 1 : CutAt(c, text, i)
  BY <1>4
<1>6. \A i \in 1 .. n + 1 : CutAt(c, text, i)
  BY <1>1, <1>5
<1>7. Cuts(c, text)
  BY <1>5, <1>6 DEF Cuts, CutAt
<1>8. QED
  BY <1>7

LEMMA PiecesAre ==
  ASSUME NEW text, Len(text) \in Nat
  PROVE  \E c : (\A i \in 1 .. Len(text) + 1 : CutAt(c, text, i)) /\ Pieces(text) = c[1]
<1> DEFINE IsCut(c) == c = [i \in 1 .. Len(text) + 1 |->
               IF i > Len(text) THEN <<>> ELSE << PieceAt(text, i) >> \o c[Behind(text, i)]]
           cut == CHOOSE c : IsCut(c)
<1>1. \E c : IsCut(c)
  BY CutExists DEF Cuts
<1>2. IsCut(cut)
  <2> HIDE DEF IsCut
  <2> QED BY <1>1
<1>3. Pieces(text) = cut[1]
  BY DEF Pieces
<1> HIDE DEF cut
<1>4. \A i \in 1 .. Len(text) + 1 : CutAt(cut, text, i)
  BY <1>2 DEF CutAt
<1>5. QED
  BY <1>3, <1>4

Chars == STRING \cup {"newline"}
Tokens == Chars \cup Marks \cup DOMAIN Specials \cup DOMAIN Layout \cup DOMAIN Modifiers
AllPieces == [kind : {"text", "key", "unterminated"}, words : Seq(Tokens)]

LEMMA PieceTyped ==
  ASSUME NEW text \in Seq(Tokens), NEW i \in 1 .. Len(text)
  PROVE  PieceAt(text, i) \in AllPieces
<1> DEFINE inside == SubSeq(text, i + 1, Closing(text, i) - 1)
<1>1. Closing(text, i) = 0 \/ Closing(text, i) \in i .. Len(text)
  <2>1. i \in Nat /\ Len(text) \in Nat
    OBVIOUS
  <2>2. QED
    BY <2>1, FindIn DEF Closing
<1>2. Closing(text, i) # 0 => inside \in Seq(Tokens)
  <2> DEFINE c == Closing(text, i)
  <2>1. c # 0 => c \in i .. Len(text)
    BY <1>1
  <2> HIDE DEF c
  <2>2. c # 0 => SubSeq(text, i + 1, c - 1) \in Seq(Tokens)
    BY <2>1
  <2>3. QED
    BY <2>2 DEF c
<1>3. <<text[i]>> \in Seq(Tokens) /\ <<>> \in Seq(Tokens)
  OBVIOUS
<1> HIDE DEF inside
<1>4. PieceAt(text, i) =
        IF text[i] # "{" THEN Piece("text", << text[i] >>)
        ELSE IF Closing(text, i) = 0 THEN Piece("unterminated", <<>>)
        ELSE IF Len(inside) = 1 /\ inside[1] \in Escapable THEN Piece("text", inside)
        ELSE Piece("key", inside)
  BY DEF PieceAt, inside
<1>5. \A kind \in {"text", "key", "unterminated"} : \A words \in Seq(Tokens) :
          Piece(kind, words) \in AllPieces
  BY DEF Piece, AllPieces
<1>6. QED
  BY <1>2, <1>3, <1>4, <1>5

(* What is cut from any place on.                                          *)
CutsAll(c, text) ==
    /\ \A i \in 1 .. Len(text) + 1 : CutAt(c, text, i) /\ c[i] \in Seq(AllPieces)
    /\ c[Len(text) + 1] = <<>> /\ Pieces(text) = c[1]

LEMMA CutTyped ==
  ASSUME NEW text \in Seq(Tokens)
  PROVE  \E c : CutsAll(c, text)
<1> DEFINE n == Len(text)
<1>1. n \in Nat
  OBVIOUS
<1>2. PICK c : (\A i \in 1 .. n + 1 : CutAt(c, text, i)) /\ Pieces(text) = c[1]
  BY PiecesAre
<1> DEFINE P == {k \in 0 .. n : \A i \in n + 1 - k .. n + 1 : c[i] \in Seq(AllPieces)}
<1>3. c[n + 1] = <<>>
  <2>1. n + 1 \in 1 .. n + 1 /\ n + 1 > n
    BY <1>1
  <2>2. QED
    BY <1>2, <2>1 DEF CutAt
<1>4. 0 \in P
  <2>1. \A i \in n + 1 - 0 .. n + 1 : i = n + 1
    BY <1>1
  <2>2. <<>> \in Seq(AllPieces) /\ 0 \in 0 .. n
    BY <1>1
  <2>3. QED
    BY <1>3, <2>1, <2>2
<1>5. ASSUME NEW k \in 1 .. n, k - 1 \in P PROVE k \in P
  <2> DEFINE p == n + 1 - k
  <2>1. /\ p \in 1 .. n /\ p \in 1 .. n + 1 /\ ~(p > n) /\ k \in 0 .. n
        /\ \A i \in p .. n + 1 : i = p \/ i \in n + 1 - (k - 1) .. n + 1
        /\ \A i \in p + 1 .. n + 1 : i \in n + 1 - (k - 1) .. n + 1
    BY <1>1
  <2>2. c[p] = << PieceAt(text, p) >> \o c[Behind(text, p)]
    BY <1>2, <2>1 DEF CutAt
  <2>3. c[Behind(text, p)] \in Seq(AllPieces)
    BY <1>5, <2>1, BehindAhead
  <2>4. PieceAt(text, p) \in AllPieces
    BY <2>1, PieceTyped
  <2>5. << PieceAt(text, p) >> \o c[Behind(text, p)] \in Seq(AllPieces)
    BY <2>3, <2>4
  <2>6. \A i \in p .. n + 1 : c[i] \in Seq(AllPieces)
    BY <1>5, <2>1, <2>2, <2>5
  <2>7. QED
    BY <2>1, <2>6
<1>6. \A k \in 0 .. n : k \in P
  <2> HIDE DEF P
  <2> QED BY <1>1, <1>4, <1>5, UpTo
<1>7. \A i \in 1 .. n + 1 : c[i] \in Seq(AllPieces)
  <2>1. n \in P /\ n + 1 - n = 1
    BY <1>1, <1>6
  <2>2. QED
    BY <2>1
<1>8. QED
  BY <1>2, <1>3, <1>7 DEF CutsAll

LEMMA PlacesInside ==
  ASSUME NEW S, NEW T, NEW text \in Seq(S), NEW i \in 1 .. Len(text) + 1,
         NEW seqs \in Seq(Seq(T)), NEW p, Places(p, text, i, seqs),
         \A k \in 1 .. Len(seqs) : seqs[k] # <<>>
  PROVE  \A k \in 0 .. Len(seqs) : p[k] \in 1 .. Len(text) + 1
<1> TAKE k \in 0 .. Len(seqs)
<1>1. CASE k = 0
  BY <1>1 DEF Places
<1>2. CASE k # 0
  <2>1. k \in 1 .. Len(seqs) /\ k - 1 \in 0 .. Len(seqs) /\ DOMAIN text = 1 .. Len(text)
    BY <1>2
  <2>2. seqs[k] \in Seq(T) /\ seqs[k] # <<>>
    BY <2>1
  <2>3. Len(seqs[k]) \in 1 .. Len(seqs[k])
    BY <2>2
  <2>4. p[k - 1] \in Nat /\ p[k] = p[k - 1] + Len(seqs[k]) /\ At(text, p[k - 1], seqs[k])
    BY <2>1 DEF Places
  <2> DEFINE l == Len(seqs[k])
             q == p[k - 1]
  <2>5. q + l - 1 \in 1 .. Len(text)
    BY <2>1, <2>3, <2>4 DEF At
  <2>6. p[k] = q + l /\ q \in Nat /\ l \in Nat
    BY <2>3, <2>4
  <2> HIDE DEF l, q
  <2>7. QED
    BY <2>5, <2>6
<1>3. QED
  BY <1>1, <1>2

----------------------------------------------------------------------------
(* Items, and what they are written as.                                    *)
Items ==
    {Typed(c) : c \in Seq(Chars) \ { <<>> }}
      \cup {Pressed(n, c) : n \in DOMAIN Specials, c \in 1 .. 3}
IsTyped(item) ==
    IsText(item) /\ item.characters \in Seq(Chars) /\ item.characters # <<>>
IsPressed(item) ==
    /\ ~IsText(item) /\ item.characters = <<>>
    /\ item.name \in DOMAIN Specials /\ item.count \in 1 .. 3

LEMMA EitherItem ==
  ASSUME NEW item \in Items
  PROVE  IsTyped(item) \/ IsPressed(item)
<1>1. CASE item \in {Typed(c) : c \in Seq(Chars) \ { <<>> }}
  BY <1>1 DEF Typed, IsTyped, IsText
<1>2. CASE item \in {Pressed(n, c) : n \in DOMAIN Specials, c \in 1 .. 3}
  <2>1. PICK n \in DOMAIN Specials, c \in 1 .. 3 : item = Pressed(n, c)
    BY <1>2
  <2>2. n # "none"
    BY NamesOfKeys DEF Marks
  <2>3. QED
    BY <2>1, <2>2 DEF Pressed, IsPressed, IsText
<1>3. QED
  BY <1>1, <1>2 DEF Items

LEMMA Wider ==
  ASSUME NEW S, NEW T, S \subseteq T, NEW s \in Seq(S)
  PROVE  s \in Seq(T)
<1> DEFINE n == Len(s)
<1>1. n \in Nat /\ s = [i \in 1 .. n |-> s[i]] /\ \A i \in 1 .. n : s[i] \in T
  OBVIOUS
<1> HIDE DEF n
<1>2. s \in [1 .. n -> T]
  BY <1>1
<1>3. QED
  BY <1>1, <1>2

LEMMA ItemOf ==
  ASSUME NEW item, IsItem(item)
  PROVE  item \in Items
<1>1. \A c \in Seq(STRING) : c \in Seq(Chars)
  <2>1. STRING \subseteq Chars
    BY DEF Chars
  <2>2. QED
    BY <2>1, Wider
<1>2. QED
  BY <1>1 DEF IsItem, Items

LEMMA SayingTyped ==
  ASSUME NEW items, IsSaying(items)
  PROVE  items \in Seq(Items) /\ items # <<>>
<1> DEFINE n == Len(items)
<1>1. n \in Nat /\ n > 0 /\ items = [i \in 1 .. n |-> items[i]]
  BY DEF IsSaying, IsList
<1>2. DOMAIN items = 1 .. n
  <2> HIDE DEF n
  <2> QED BY <1>1
<1>3. \A i \in 1 .. n : items[i] \in Items
  BY <1>2, ItemOf DEF IsSaying
<1> HIDE DEF n
<1>4. items \in [1 .. n -> Items]
  BY <1>1, <1>3
<1>5. items \in Seq(Items)
  BY <1>1, <1>4
<1>6. QED
  BY <1>1, <1>5 DEF n

Braced == [c \in Chars |-> IF c \in Escapable \ {"}"} THEN <<"{", c, "}">> ELSE <<c>>]
LEMMA BracedTyped == Braced \in [Chars -> Seq(Tokens)]
<1>1. Chars \subseteq Tokens /\ "{" \in Tokens /\ "}" \in Tokens
  BY DEF Tokens, Marks
<1>2. \A c \in Chars : <<"{", c, "}">> \in Seq(Tokens) /\ <<c>> \in Seq(Tokens)
  BY <1>1, TuplesTyped, Zenon
<1>3. QED
  BY <1>2 DEF Braced

KeyWords(item) ==
    <<item.name>> \o (IF item.count = 1 THEN <<>> ELSE <<Numeral[item.count]>>)

LEMMA RenderTyped ==
  ASSUME NEW item, IsTyped(item)
  PROVE  RenderItem(item) = Mapped(Braced, item.characters)
<1>1. [i \in DOMAIN item.characters |->
               IF item.characters[i] \in Escapable \ {"}"}
                 THEN <<"{", item.characters[i], "}">> ELSE <<item.characters[i]>>]
        = Images(Braced, item.characters)
  <2>1. \A c \in Chars : Braced[c] = IF c \in Escapable \ {"}"} THEN <<"{", c, "}">> ELSE <<c>>
    BY DEF Braced
  <2>2. \A i \in DOMAIN item.characters : item.characters[i] \in Chars
    BY DEF IsTyped
  <2>3. QED
    BY <2>1, <2>2 DEF Images
<1>2. QED
  BY <1>1, Zenon DEF RenderItem, IsTyped, Mapped

LEMMA RenderPressed ==
  ASSUME NEW item, IsPressed(item)
  PROVE  /\ item.count = 1 => RenderItem(item) = <<"{", item.name, "}">>
         /\ item.count # 1 => RenderItem(item) = <<"{", item.name, Numeral[item.count], "}">>
         /\ item.count = 1 => KeyWords(item) = <<item.name>>
         /\ item.count # 1 => KeyWords(item) = <<item.name, Numeral[item.count]>>
<1>1. /\ RenderItem(item) = <<"{", item.name>>
             \o (IF item.count = 1 THEN <<>> ELSE <<Numeral[item.count]>>) \o <<"}">>
      /\ KeyWords(item) = <<item.name>> \o (IF item.count = 1 THEN <<>> ELSE <<Numeral[item.count]>>)
  BY DEF RenderItem, IsPressed, KeyWords
<1> DEFINE u == <<"{", item.name>>
           v == <<item.name>>
<1>2. u \in Seq({"{", item.name}) /\ v \in Seq({item.name})
  OBVIOUS
<1>3. CASE item.count = 1
  <2>1. RenderItem(item) = u \o <<>> \o <<"}">> /\ KeyWords(item) = v \o <<>>
    BY <1>1, <1>3
  <2> HIDE DEF u, v
  <2>2. u \o <<>> = u /\ v \o <<>> = v
    BY <1>2, EmptyBefore
  <2>3. RenderItem(item) = u \o <<"}">> /\ KeyWords(item) = v
    BY <2>1, <2>2, Zenon
  <2>4. QED
    BY <1>3, <2>3, TwoAndOne DEF u, v
<1>4. CASE item.count # 1
  <2> DEFINE w == Numeral[item.count]
  <2>1. RenderItem(item) = u \o <<w>> \o <<"}">> /\ KeyWords(item) = v \o <<w>>
    BY <1>1, <1>4
  <2> HIDE DEF w
  <2>2. u \o <<w>> = <<"{", item.name, w>> /\ v \o <<w>> = <<item.name, w>>
    BY TwoAndOne, OneAndOne DEF u, v
  <2>3. RenderItem(item) = <<"{", item.name, w, "}">>
    BY <2>1, <2>2, ThreeAndOne, Zenon
  <2>4. QED
    BY <1>4, <2>1, <2>2, <2>3, Zenon DEF w
<1>5. QED
  BY <1>3, <1>4

LEMMA KeyWordsTyped ==
  ASSUME NEW item, IsPressed(item)
  PROVE  /\ KeyWords(item) \in Seq(Tokens) /\ RenderItem(item) \in Seq(Tokens)
         /\ KeyWords(item) # <<>> /\ KeyWords(item)[1] = item.name
         /\ item.count # 1 => Len(KeyWords(item)) = 2 /\ KeyWords(item)[2] = Numeral[item.count]
         /\ item.count = 1 => Len(KeyWords(item)) = 1
<1>1. item.name \in Tokens /\ Numeral[item.count] \in Tokens /\ "{" \in Tokens /\ "}" \in Tokens
  BY Numerals DEF IsPressed, Tokens, Marks
<1> DEFINE a == item.name
           w == Numeral[item.count]
           c == item.count
<1> HIDE DEF a, w, c
<1>2. /\ <<"{", a, "}">> \in Seq(Tokens) /\ <<a>> \in Seq(Tokens)
      /\ <<"{", a, w, "}">> \in Seq(Tokens) /\ <<a, w>> \in Seq(Tokens)
      /\ Len(<<a>>) = 1 /\ <<a>>[1] = a /\ <<a, w>>[1] = a /\ <<a>> # <<>> /\ <<a, w>> # <<>>
      /\ Len(<<a, w>>) = 2 /\ <<a, w>>[2] = w
  BY <1>1, TuplesTyped, Tuples, Zenon DEF a, w
<1>3. CASE item.count = 1
  BY <1>2, <1>3, RenderPressed, Zenon DEF a, w, c
<1>5. CASE item.count # 1
  BY <1>2, <1>5, RenderPressed, Zenon DEF a, w, c
<1>4. QED
  BY <1>3, <1>5

Rendered == [item \in Items |-> RenderItem(item)]
LEMMA RenderedTyped == Rendered \in [Items -> Seq(Tokens)]
<1>1. ASSUME NEW item \in Items PROVE RenderItem(item) \in Seq(Tokens)
  <2>1. CASE IsTyped(item)
    <3>1. item.characters \in Seq(Chars)
      BY <2>1 DEF IsTyped
    <3>2. Mapped(Braced, item.characters) \in Seq(Tokens)
      BY <3>1, BracedTyped, MappedTyped
    <3>3. QED
      BY <2>1, <3>2, RenderTyped
  <2>2. CASE IsPressed(item)
    BY <2>2, KeyWordsTyped
  <2>3. QED
    BY <2>1, <2>2, EitherItem
<1>2. QED
  BY <1>1 DEF Rendered

LEMMA RenderItemsIs ==
  ASSUME NEW items \in Seq(Items)
  PROVE  RenderItems(items) = Mapped(Rendered, items)
<1>1. [i \in DOMAIN items |-> RenderItem(items[i])] = Images(Rendered, items)
  BY DEF Images, Rendered
<1>2. QED
  BY <1>1, Zenon DEF RenderItems, Mapped

LEMMA RenderItemsTyped ==
  ASSUME NEW items \in Seq(Items)
  PROVE  RenderItems(items) \in Seq(Tokens)
  BY RenderItemsIs, RenderedTyped, MappedTyped

(* A sequence put together is empty when all of its parts are.             *)
LEMMA NotEmpty ==
  ASSUME NEW S, NEW seqs \in Seq(Seq(S)), seqs # <<>>, seqs[1] # <<>>
  PROVE  FlattenSeq(seqs) # <<>>
<1> DEFINE n == Len(seqs)
<1>1. n \in Nat /\ n >= 1 /\ seqs[1] \in Seq(S)
  OBVIOUS
<1>2. At(FlattenSeq(seqs), 1, FlattenSeq(seqs))
  <2>1. FlattenSeq(seqs) \in Seq(S)
    BY FlattenTyped
  <2> DEFINE s == FlattenSeq(seqs)
  <2> HIDE DEF s
  <2>2. s \in Seq(S)
    BY <2>1 DEF s
  <2>3. \A k \in 1 .. Len(s) : 1 + k - 1 = k /\ k \in DOMAIN s
    BY <2>2
  <2>4. QED
    BY <2>3 DEF At, s
<1>3. PICK p : Places(p, FlattenSeq(seqs), 1, seqs)
  BY <1>2, PlacesExist
<1> DEFINE s == FlattenSeq(seqs)
<1>4. 1 \in 1 .. n /\ 1 - 1 = 0 /\ 1 \in 1 .. Len(seqs[1])
  BY <1>1
<1>5. At(s, p[0], seqs[1]) /\ p[0] = 1
  BY <1>3, <1>4 DEF Places
<1> HIDE DEF s
<1>6. 1 + 1 - 1 \in DOMAIN s
  BY <1>4, <1>5 DEF At
<1>7. s # <<>>
  BY <1>6
<1>8. QED
  BY <1>7 DEF s

LEMMA AtPlaces ==
  ASSUME NEW text, NEW i \in Nat
  PROVE  /\ \A a : At(text, i, <<a>>) => i \in DOMAIN text /\ text[i] = a
         /\ \A a, b, c : At(text, i, <<a, b, c>>) =>
                /\ i \in DOMAIN text /\ i + 1 \in DOMAIN text /\ i + 2 \in DOMAIN text
                /\ text[i] = a /\ text[i + 1] = b /\ text[i + 2] = c
         /\ \A a, b, c, d : At(text, i, <<a, b, c, d>>) =>
                /\ i \in DOMAIN text /\ i + 1 \in DOMAIN text /\ i + 2 \in DOMAIN text
                /\ i + 3 \in DOMAIN text
                /\ text[i] = a /\ text[i + 1] = b /\ text[i + 2] = c /\ text[i + 3] = d
<1>0. i + 1 - 1 = i /\ i + 2 - 1 = i + 1 /\ i + 3 - 1 = i + 2 /\ i + 4 - 1 = i + 3
  OBVIOUS
<1>1. ASSUME NEW t, NEW n, n = Len(t), At(text, i, t)
      PROVE  \A k \in 1 .. n : i + k - 1 \in DOMAIN text /\ text[i + k - 1] = t[k]
  BY <1>1 DEF At
<1>2. ASSUME NEW a, At(text, i, <<a>>) PROVE i \in DOMAIN text /\ text[i] = a
  <2> DEFINE t == <<a>>
  <2>1. Len(t) = 1 /\ t[1] = a /\ 1 \in 1 .. 1
    OBVIOUS
  <2> HIDE DEF t
  <2>2. \A k \in 1 .. 1 : i + k - 1 \in DOMAIN text /\ text[i + k - 1] = t[k]
    BY <1>1, <1>2, <2>1 DEF t
  <2>3. QED
    BY <1>0, <2>1, <2>2
<1>3. ASSUME NEW a, NEW b, NEW c, At(text, i, <<a, b, c>>)
      PROVE  /\ i \in DOMAIN text /\ i + 1 \in DOMAIN text /\ i + 2 \in DOMAIN text
             /\ text[i] = a /\ text[i + 1] = b /\ text[i + 2] = c
  <2> DEFINE t == <<a, b, c>>
  <2>1. Len(t) = 3 /\ t[1] = a /\ t[2] = b /\ t[3] = c /\ 1 \in 1 .. 3 /\ 2 \in 1 .. 3 /\ 3 \in 1 .. 3
    OBVIOUS
  <2> HIDE DEF t
  <2>2. \A k \in 1 .. 3 : i + k - 1 \in DOMAIN text /\ text[i + k - 1] = t[k]
    BY <1>1, <1>3, <2>1 DEF t
  <2>3. QED
    BY <1>0, <2>1, <2>2
<1>4. ASSUME NEW a, NEW b, NEW c, NEW d, At(text, i, <<a, b, c, d>>)
      PROVE  /\ i \in DOMAIN text /\ i + 1 \in DOMAIN text /\ i + 2 \in DOMAIN text
             /\ i + 3 \in DOMAIN text
             /\ text[i] = a /\ text[i + 1] = b /\ text[i + 2] = c /\ text[i + 3] = d
  <2> DEFINE t == <<a, b, c, d>>
  <2>1. /\ Len(t) = 4 /\ t[1] = a /\ t[2] = b /\ t[3] = c /\ t[4] = d
        /\ 1 \in 1 .. 4 /\ 2 \in 1 .. 4 /\ 3 \in 1 .. 4 /\ 4 \in 1 .. 4
    OBVIOUS
  <2> HIDE DEF t
  <2>2. \A k \in 1 .. 4 : i + k - 1 \in DOMAIN text /\ text[i + k - 1] = t[k]
    BY <1>1, <1>4, <2>1 DEF t
  <2>3. QED
    BY <1>0, <2>1, <2>2
<1>5. QED
  BY <1>2, <1>3, <1>4

LEMMA CutHere ==
  ASSUME NEW text \in Seq(Tokens), NEW c, CutsAll(c, text), NEW i \in DOMAIN text
  PROVE  c[i] = << PieceAt(text, i) >> \o c[Behind(text, i)]
<1>1. i \in 1 .. Len(text) + 1 /\ ~(i > Len(text))
  OBVIOUS
<1>2. CutAt(c, text, i)
  BY <1>1 DEF CutsAll
<1>3. QED
  BY <1>1, <1>2 DEF CutAt

(* The braces, by what they do.                                            *)
Opens(o) == o = "{"
Closes(e) == e = "}"

LEMMA Braces == (\E o : Opens(o)) /\ (\E e : Closes(e)) /\ \A o, e : Opens(o) /\ Closes(e) => o # e
  BY Zenon DEF Opens, Closes

LEMMA CutCases ==
  ASSUME NEW text, NEW i, NEW e, Closes(e)
  PROVE  /\ Closing(text, i) = Find(text, e, i)
         /\ ~Opens(text[i]) =>
                PieceAt(text, i) = Piece("text", << text[i] >>) /\ Behind(text, i) = i + 1
         /\ Opens(text[i]) /\ Closing(text, i) # 0 => Behind(text, i) = Closing(text, i) + 1
  BY Zenon DEF Closing, Opens, Closes, PieceAt, Behind

Inside(text, i, q, words) == SubSeq(text, i + 1, q - 1) = words
IsPiece(text, i, kind, words) == PieceAt(text, i) = Piece(kind, words)
LEMMA InsideCases ==
  ASSUME NEW text, NEW i, Opens(text[i]), Closing(text, i) # 0,
         NEW inside, Inside(text, i, Closing(text, i), inside)
  PROVE  /\ Len(inside) = 1 /\ inside[1] \in Escapable => IsPiece(text, i, "text", inside)
         /\ ~(Len(inside) = 1 /\ inside[1] \in Escapable) => IsPiece(text, i, "key", inside)
  BY Zenon DEF Opens, PieceAt, IsPiece, Inside

LEMMA SubSeqOne ==
  ASSUME NEW S, NEW s \in Seq(S), NEW j \in 1 .. Len(s)
  PROVE  SubSeq(s, j, j) = << s[j] >>
<1> DEFINE t == SubSeq(s, j, j)
           u == << s[j] >>
<1>1. t \in Seq(S) /\ Len(t) = 1 /\ t[1] = s[j]
  OBVIOUS
<1>2. s[j] \in S
  OBVIOUS
<1>3. u \in Seq(S) /\ Len(u) = 1 /\ u[1] = s[j]
  BY <1>2
<1> HIDE DEF t, u
<1>4. \A k \in 1 .. 1 : k = 1
  OBVIOUS
<1>5. t = u
  BY <1>1, <1>3, <1>4, SameSequence
<1>6. QED
  BY <1>5 DEF t, u

LEMMA SubSeqTwo ==
  ASSUME NEW S, NEW s \in Seq(S), NEW j \in 1 .. Len(s), j + 1 \in 1 .. Len(s)
  PROVE  SubSeq(s, j, j + 1) = << s[j], s[j + 1] >>
<1> DEFINE t == SubSeq(s, j, j + 1)
           u == << s[j], s[j + 1] >>
<1>1. t \in Seq(S) /\ Len(t) = 2 /\ t[1] = s[j] /\ t[2] = s[j + 1]
  OBVIOUS
<1>2. s[j] \in S /\ s[j + 1] \in S
  OBVIOUS
<1>3. u \in Seq(S) /\ Len(u) = 2 /\ u[1] = s[j] /\ u[2] = s[j + 1]
  BY <1>2, TuplesTyped, Tuples, Zenon
<1> HIDE DEF t, u
<1>4. \A k \in 1 .. 2 : k = 1 \/ k = 2
  OBVIOUS
<1>5. t = u
  BY <1>1, <1>3, <1>4, SameSequence
<1>6. QED
  BY <1>5 DEF t, u

(* What is cut at a place is a piece and what is cut behind it.            *)
CutTo(c, i, kind, words, j) == c[i] = << Piece(kind, words) >> \o c[j]

LEMMA CutPlain ==
  ASSUME NEW text \in Seq(Tokens), NEW c, CutsAll(c, text), NEW i \in Nat,
         NEW a, ~Opens(a), At(text, i, <<a>>)
  PROVE  CutTo(c, i, "text", <<a>>, i + 1)
<1>1. i \in DOMAIN text /\ text[i] = a
  BY AtPlaces
<1>2. PieceAt(text, i) = Piece("text", <<a>>) /\ Behind(text, i) = i + 1
  BY <1>1, Braces, CutCases, Zenon
<1>3. c[i] = << PieceAt(text, i) >> \o c[Behind(text, i)]
  BY <1>1, CutHere
<1>4. QED
  BY <1>2, <1>3, Zenon DEF CutTo

LEMMA CutBraced ==
  ASSUME NEW text \in Seq(Tokens), NEW c, CutsAll(c, text), NEW i \in Nat,
         NEW o, NEW a, NEW e, Opens(o), Closes(e), a # e, At(text, i, <<o, a, e>>)
  PROVE  /\ a \in Escapable => CutTo(c, i, "text", <<a>>, i + 3)
         /\ a \notin Escapable => CutTo(c, i, "key", <<a>>, i + 3)
<1>1. /\ i \in DOMAIN text /\ i + 1 \in DOMAIN text /\ i + 2 \in DOMAIN text
      /\ text[i] = o /\ text[i + 1] = a /\ text[i + 2] = e
  BY AtPlaces
<1>2. Len(text) \in Nat /\ DOMAIN text = 1 .. Len(text)
  OBVIOUS
<1>3. i + 2 \in i .. Len(text) /\ \A k \in i .. i + 2 - 1 : k = i \/ k = i + 1
  BY <1>1, <1>2
<1>4. \A k \in i .. i + 2 - 1 : text[k] # e
  BY <1>1, <1>3, Braces
<1>5. Closing(text, i) = i + 2
  <2>1. Find(text, e, i) = i + 2
    BY <1>1, <1>2, <1>3, <1>4, FindIs
  <2>2. QED
    BY <2>1, CutCases, Zenon
<1>6. Inside(text, i, i + 2, <<a>>)
  <2> DEFINE j == i + 1
  <2>1. j \in 1 .. Len(text) /\ i + 2 - 1 = j
    BY <1>1, <1>2
  <2> HIDE DEF j
  <2>2. SubSeq(text, j, j) = <<text[j]>>
    BY <2>1, SubSeqOne
  <2>3. QED
    BY <1>1, <2>1, <2>2 DEF j, Inside
<1>7. Len(<<a>>) = 1 /\ <<a>>[1] = a
  OBVIOUS
<1>8. i + 2 # 0 /\ i + 2 + 1 = i + 3
  OBVIOUS
<1>9. Behind(text, i) = i + 3
  <2>1. Behind(text, i) = Closing(text, i) + 1
    BY <1>1, <1>5, <1>8, CutCases, Zenon
  <2>2. QED
    BY <1>5, <1>8, <2>1
<1>10. /\ a \in Escapable => IsPiece(text, i, "text", <<a>>)
       /\ a \notin Escapable => IsPiece(text, i, "key", <<a>>)
  <2>1. Inside(text, i, Closing(text, i), <<a>>)
    BY <1>5, <1>6, Zenon
  <2>2. Opens(text[i]) /\ Closing(text, i) # 0
    BY <1>1, <1>5, <1>8, Zenon
  <2>3. QED
    BY <1>7, <2>1, <2>2, InsideCases
<1>11. c[i] = << PieceAt(text, i) >> \o c[Behind(text, i)]
  BY <1>1, CutHere
<1>12. QED
  BY <1>9, <1>10, <1>11, Zenon DEF CutTo, IsPiece

LEMMA CutCounted ==
  ASSUME NEW text \in Seq(Tokens), NEW c, CutsAll(c, text), NEW i \in Nat,
         NEW o, NEW a, NEW b, NEW e, Opens(o), Closes(e), a # e, b # e,
         At(text, i, <<o, a, b, e>>)
  PROVE  CutTo(c, i, "key", <<a, b>>, i + 4)
<1>1. /\ i \in DOMAIN text /\ i + 1 \in DOMAIN text /\ i + 2 \in DOMAIN text
      /\ i + 3 \in DOMAIN text
      /\ text[i] = o /\ text[i + 1] = a /\ text[i + 2] = b /\ text[i + 3] = e
  BY AtPlaces
<1>2. Len(text) \in Nat /\ DOMAIN text = 1 .. Len(text)
  OBVIOUS
<1>3. i + 3 \in i .. Len(text) /\ \A k \in i .. i + 3 - 1 : k = i \/ k = i + 1 \/ k = i + 2
  BY <1>1, <1>2
<1>4. \A k \in i .. i + 3 - 1 : text[k] # e
  BY <1>1, <1>3, Braces
<1>5. Closing(text, i) = i + 3
  <2>1. Find(text, e, i) = i + 3
    BY <1>1, <1>2, <1>3, <1>4, FindIs
  <2>2. QED
    BY <2>1, CutCases, Zenon
<1>6. Inside(text, i, i + 3, <<a, b>>)
  <2> DEFINE j == i + 1
  <2>1. j \in 1 .. Len(text) /\ j + 1 \in 1 .. Len(text) /\ i + 3 - 1 = j + 1 /\ j + 1 = i + 2
    BY <1>1, <1>2
  <2> HIDE DEF j
  <2>2. SubSeq(text, j, j + 1) = << text[j], text[j + 1] >>
    BY <2>1, SubSeqTwo
  <2>3. text[j] = a /\ text[j + 1] = b
    BY <1>1, <2>1 DEF j
  <2>4. QED
    BY <2>1, <2>2, <2>3 DEF j, Inside
<1>7. Len(<<a, b>>) = 2
  OBVIOUS
<1>8. i + 3 # 0 /\ i + 3 + 1 = i + 4 /\ 2 # 1
  OBVIOUS
<1>9. Behind(text, i) = i + 4
  <2>1. Behind(text, i) = Closing(text, i) + 1
    BY <1>1, <1>5, <1>8, CutCases, Zenon
  <2>2. QED
    BY <1>5, <1>8, <2>1
<1>10. IsPiece(text, i, "key", <<a, b>>)
  <2>1. Len(<<a, b>>) # 1
    BY <1>7
  <2>2. QED
    <3>1. Inside(text, i, Closing(text, i), <<a, b>>)
      BY <1>5, <1>6, Zenon
    <3>2. Opens(text[i]) /\ Closing(text, i) # 0
      BY <1>1, <1>5, <1>8, Zenon
    <3>3. QED
      BY <2>1, <3>1, <3>2, InsideCases
<1>11. c[i] = << PieceAt(text, i) >> \o c[Behind(text, i)]
  BY <1>1, CutHere
<1>12. QED
  BY <1>9, <1>10, <1>11, Zenon DEF CutTo, IsPiece

(* Of a character, as it is or in braces, one piece is cut.                *)
LEMMA CutCharacter ==
  ASSUME NEW text \in Seq(Tokens), NEW c, CutsAll(c, text), NEW i \in Nat,
         NEW a \in Chars, At(text, i, Braced[a])
  PROVE  CutTo(c, i, "text", <<a>>, i + Len(Braced[a]))
<1>1. PICK o, e : Opens(o) /\ Closes(e)
  BY Braces
<1>2. Braced[a] = IF a \in Escapable /\ a # e THEN <<o, a, e>> ELSE <<a>>
  BY <1>1, Zenon DEF Braced, Opens, Closes
<1>3. Len(<<o, a, e>>) = 3 /\ Len(<<a>>) = 1
  OBVIOUS
<1>4. CASE a \in Escapable /\ a # e
  <2>1. At(text, i, <<o, a, e>>) /\ Len(Braced[a]) = 3
    BY <1>2, <1>3, <1>4, Zenon
  <2>2. CutTo(c, i, "text", <<a>>, i + 3)
    BY <1>1, <1>4, <2>1, CutBraced
  <2>3. QED
    BY <2>1, <2>2, Zenon
<1>5. CASE ~(a \in Escapable /\ a # e)
  <2>1. At(text, i, <<a>>) /\ Len(Braced[a]) = 1
    BY <1>2, <1>3, <1>5, Zenon
  <2>2. ~Opens(a)
    <3>1. \A x : Opens(x) => x \in Escapable /\ ~Closes(x)
      BY Zenon DEF Opens, Closes, Escapable
    <3>2. QED
      BY <1>1, <1>5, <3>1
  <2>3. CutTo(c, i, "text", <<a>>, i + 1)
    BY <2>1, <2>2, CutPlain
  <2>4. QED
    BY <2>1, <2>3, Zenon
<1>6. QED
  BY <1>4, <1>5

LEMMA CutKey ==
  ASSUME NEW text \in Seq(Tokens), NEW c, CutsAll(c, text), NEW i \in Nat,
         NEW item, IsPressed(item), At(text, i, RenderItem(item))
  PROVE  CutTo(c, i, "key", KeyWords(item), i + Len(RenderItem(item)))
<1> DEFINE a == item.name
           b == Numeral[item.count]
<1>1. PICK o, e : Opens(o) /\ Closes(e)
  BY Braces
<1>2. ~Closes(a) /\ a \notin Escapable
  <2>1. \A x : Closes(x) \/ x \in Escapable => x \in Marks
    BY Zenon DEF Closes, Escapable, Marks
  <2>2. a \in DOMAIN Specials
    BY DEF IsPressed
  <2> HIDE DEF a
  <2>3. QED
    BY <2>1, <2>2, NamesOfKeys
<1>3. ~Closes(b)
  <2>1. b \in {"1", "2", "3"}
    BY Numerals DEF IsPressed
  <2>2. \A x : Closes(x) => x \notin {"1", "2", "3"}
    BY Zenon DEF Closes
  <2>3. QED
    BY <2>1, <2>2
<1>4. /\ item.count = 1 => RenderItem(item) = <<o, a, e>> /\ KeyWords(item) = <<a>>
      /\ item.count # 1 => RenderItem(item) = <<o, a, b, e>> /\ KeyWords(item) = <<a, b>>
  BY <1>1, RenderPressed, Zenon DEF Opens, Closes
<1>5. Len(<<o, a, e>>) = 3 /\ Len(<<o, a, b, e>>) = 4
  OBVIOUS
<1> HIDE DEF a, b
<1>6. a # e /\ b # e
  BY <1>1, <1>2, <1>3, Zenon
<1>7. CASE item.count = 1
  <2>1. At(text, i, <<o, a, e>>) /\ Len(RenderItem(item)) = 3 /\ KeyWords(item) = <<a>>
    BY <1>4, <1>5, <1>7, Zenon
  <2>2. CutTo(c, i, "key", <<a>>, i + 3)
    BY <1>1, <1>2, <1>6, <2>1, CutBraced
  <2>3. QED
    BY <2>1, <2>2, Zenon
<1>8. CASE item.count # 1
  <2>1. At(text, i, <<o, a, b, e>>) /\ Len(RenderItem(item)) = 4 /\ KeyWords(item) = <<a, b>>
    BY <1>4, <1>5, <1>8, Zenon
  <2>2. CutTo(c, i, "key", <<a, b>>, i + 4)
    BY <1>1, <1>6, <2>1, CutCounted
  <2>3. QED
    BY <2>1, <2>2, Zenon
<1>9. QED
  BY <1>7, <1>8

CharPiece == [a \in Chars |-> Piece("text", <<a>>)]
PiecesOf ==
    [item \in Items |->
        IF IsText(item) THEN Images(CharPiece, item.characters)
        ELSE << Piece("key", KeyWords(item)) >>]

LEMMA CharPieceTyped == CharPiece \in [Chars -> AllPieces]
<1>1. Chars \subseteq Tokens
  BY DEF Tokens
<1>2. \A a \in Chars : <<a>> \in Seq(Tokens)
  BY <1>1, TuplesTyped
<1>3. QED
  BY <1>2 DEF CharPiece, AllPieces, Piece

LEMMA PiecesOfItem ==
  ASSUME NEW item \in Items
  PROVE  /\ IsTyped(item) => PiecesOf[item] = Images(CharPiece, item.characters)
         /\ IsPressed(item) => PiecesOf[item] = << Piece("key", KeyWords(item)) >>
  BY DEF PiecesOf, IsTyped, IsPressed

LEMMA PiecesOfTyped == PiecesOf \in [Items -> Seq(AllPieces)]
<1>1. ASSUME NEW item \in Items PROVE PiecesOf[item] \in Seq(AllPieces)
  <2>1. CASE IsTyped(item)
    <3>1. item.characters \in Seq(Chars)
      BY <2>1 DEF IsTyped
    <3>2. HasImages(CharPiece, item.characters, AllPieces)
      BY <3>1, CharPieceTyped, ImagesTyped
    <3>3. QED
      BY <2>1, <3>2, PiecesOfItem DEF HasImages
  <2>2. CASE IsPressed(item)
    <3>1. KeyWords(item) \in Seq(Tokens)
      BY <2>2, KeyWordsTyped
    <3>2. Piece("key", KeyWords(item)) \in AllPieces
      BY <3>1 DEF Piece, AllPieces
    <3> DEFINE x == Piece("key", KeyWords(item))
    <3> HIDE DEF x
    <3>3. <<x>> \in Seq(AllPieces)
      BY <3>2, TuplesTyped DEF x
    <3>4. QED
      BY <2>2, <3>3, PiecesOfItem DEF x
  <2>3. QED
    BY <2>1, <2>2, EitherItem
<1>2. DOMAIN PiecesOf = Items /\ PiecesOf = [item \in Items |-> PiecesOf[item]]
  BY DEF PiecesOf
<1>3. QED
  BY <1>1, <1>2

(* Of an item as it is written its pieces are cut.                         *)
LEMMA CutItem ==
  ASSUME NEW text \in Seq(Tokens), NEW c, CutsAll(c, text), NEW i \in 1 .. Len(text) + 1,
         NEW item \in Items, At(text, i, RenderItem(item))
  PROVE  c[i] = PiecesOf[item] \o c[i + Len(RenderItem(item))]
<1>1. CASE IsTyped(item)
  <2> DEFINE chars == item.characters
             seqs == Images(Braced, chars)
             pieces == Images(CharPiece, chars)
             outs == Single(pieces)
             n == Len(chars)
  <2>1. chars \in Seq(Chars) /\ n \in Nat /\ \A k \in 1 .. n : chars[k] \in Chars
    BY <1>1 DEF IsTyped
  <2>2. HasImages(Braced, chars, Seq(Tokens)) /\ HasImages(CharPiece, chars, AllPieces)
    BY <2>1, BracedTyped, CharPieceTyped, ImagesTyped
  <2>3. RenderItem(item) = FlattenSeq(seqs)
    BY <1>1, RenderTyped DEF Mapped
  <2>4. PiecesOf[item] = pieces
    BY <1>1, PiecesOfItem
  <2>5. \A k \in 1 .. n : seqs[k] = Braced[chars[k]] /\ pieces[k] = Piece("text", <<chars[k]>>)
    <3>1. DOMAIN chars = 1 .. n
      BY <2>1
    <3> HIDE DEF chars
    <3>2. \A k \in 1 .. n : Images(Braced, chars)[k] = Braced[chars[k]]
                            /\ Images(CharPiece, chars)[k] = CharPiece[chars[k]]
      BY <3>1 DEF Images
    <3>3. \A a \in Chars : CharPiece[a] = Piece("text", <<a>>)
      BY DEF CharPiece
    <3>4. QED
      BY <2>1, <3>2, <3>3
  <2> HIDE DEF chars, seqs, pieces, n
  <2>6. /\ seqs \in Seq(Seq(Tokens)) /\ Len(seqs) = n
        /\ pieces \in Seq(AllPieces) /\ Len(pieces) = n
    BY <2>2 DEF HasImages, seqs, pieces, n
  <2>7. PICK p : Places(p, text, i, seqs)
    BY <2>3, <2>6, PlacesExist
  <2>8. /\ p[0] = i /\ p[n] = i + Len(RenderItem(item))
        /\ \A k \in 1 .. n : p[k] = p[k - 1] + Len(seqs[k]) /\ At(text, p[k - 1], seqs[k])
                             /\ p[k - 1] \in Nat
    <3>1. \A k \in 1 .. n : k - 1 \in 0 .. n
      BY <2>1
    <3>2. QED
      BY <2>3, <2>6, <2>7, <3>1 DEF Places
  <2>9. \A k \in 1 .. Len(seqs) : seqs[k] # <<>>
    <3>1. \A a \in Chars : Braced[a] # <<>>
      <4>1. \A a, b, d : <<a>> # <<>> /\ <<a, b, d>> # <<>>
        OBVIOUS
      <4>2. \A a \in Chars : Braced[a] = IF a \in Escapable \ {"}"} THEN <<"{", a, "}">> ELSE <<a>>
        BY Zenon DEF Braced
      <4>3. QED
        BY <4>1, <4>2, Zenon
    <3>2. QED
      BY <2>1, <2>5, <2>6, <3>1
  <2>10. \A k \in 0 .. n : p[k] \in 1 .. Len(text) + 1
    BY <2>6, <2>7, <2>9, PlacesInside
  <2>11. \A k \in 0 .. n : c[p[k]] \in Seq(AllPieces)
    BY <2>10 DEF CutsAll
  <2>12. \A k \in 1 .. n : outs[k] = <<pieces[k]>>
    <3>1. DOMAIN pieces = 1 .. n
      BY <2>6
    <3>2. QED
      BY <3>1 DEF Single
  <2>13. outs \in Seq(Seq(AllPieces)) /\ Len(outs) = n
    <3>1. DOMAIN pieces = 1 .. n /\ \A k \in 1 .. n : pieces[k] \in AllPieces
      BY <2>6
    <3>2. \A k \in 1 .. n : <<pieces[k]>> \in Seq(AllPieces)
      BY <3>1, TuplesTyped
    <3>3. outs \in [1 .. n -> Seq(AllPieces)]
      BY <3>1, <3>2 DEF Single
    <3> HIDE DEF outs
    <3>4. QED
      BY <2>1, <3>3
  <2>14. FlattenSeq(outs) = pieces
    BY <2>6, FlattenSingle
  <2> HIDE DEF outs
  <2>15. Telescopes(c, p, outs)
    <3>1. ASSUME NEW k \in 1 .. n PROVE c[p[k - 1]] = outs[k] \o c[p[k]]
      <4>1. CutTo(c, p[k - 1], "text", <<chars[k]>>, p[k - 1] + Len(Braced[chars[k]]))
        <5>1. chars[k] \in Chars /\ At(text, p[k - 1], Braced[chars[k]]) /\ p[k - 1] \in Nat
          BY <2>1, <2>5, <2>8
        <5>2. QED
          BY <5>1, CutCharacter
      <4>2. p[k] = p[k - 1] + Len(Braced[chars[k]])
        BY <2>5, <2>8
      <4>3. outs[k] = << Piece("text", <<chars[k]>>) >>
        BY <2>5, <2>12
      <4>4. QED
        BY <4>1, <4>2, <4>3, Zenon DEF CutTo
    <3>2. QED
      BY <2>13, <3>1 DEF Telescopes
  <2>16. c[p[0]] = FlattenSeq(outs) \o c[p[Len(outs)]]
    <3>1. \A k \in 0 .. Len(outs) : c[p[k]] \in Seq(AllPieces)
      BY <2>11, <2>13, Zenon
    <3>2. outs \in Seq(Seq(AllPieces))
      BY <2>13
    <3>3. QED
      BY <2>15, <3>1, <3>2, Telescoped
  <2>17. QED
    BY <2>4, <2>8, <2>13, <2>14, <2>16
<1>2. CASE IsPressed(item)
  <2>1. i \in Nat
    OBVIOUS
  <2>2. CutTo(c, i, "key", KeyWords(item), i + Len(RenderItem(item)))
    BY <1>2, <2>1, CutKey
  <2>3. PiecesOf[item] = << Piece("key", KeyWords(item)) >>
    BY <1>2, PiecesOfItem
  <2>4. QED
    BY <2>2, <2>3, Zenon DEF CutTo
<1>3. QED
  BY <1>1, <1>2, EitherItem

LEMMA RenderedSome ==
  ASSUME NEW item \in Items
  PROVE  Rendered[item] # <<>> /\ Rendered[item] = RenderItem(item)
<1>1. Rendered[item] = RenderItem(item)
  BY DEF Rendered
<1>2. CASE IsTyped(item)
  <2> DEFINE chars == item.characters
             seqs == Images(Braced, chars)
  <2>1. chars \in Seq(Chars) /\ chars # <<>>
    BY <1>2 DEF IsTyped
  <2>2. HasImages(Braced, chars, Seq(Tokens))
    BY <2>1, BracedTyped, ImagesTyped
  <2> HIDE DEF chars
  <2>3. 1 \in DOMAIN chars /\ chars[1] \in Chars
    BY <2>1
  <2>4. seqs[1] = Braced[chars[1]]
    BY <2>3 DEF Images
  <2>5. Braced[chars[1]] # <<>>
    <3> DEFINE a == chars[1]
    <3> HIDE DEF a
    <3>1. \A x, b, d : <<x>> # <<>> /\ <<x, b, d>> # <<>>
      OBVIOUS
    <3>2. Braced[a] = IF a \in Escapable \ {"}"} THEN <<"{", a, "}">> ELSE <<a>>
      BY <2>3, Zenon DEF Braced, a
    <3>3. QED
      BY <3>1, <3>2, Zenon DEF a
  <2> HIDE DEF seqs
  <2>6. seqs \in Seq(Seq(Tokens)) /\ seqs # <<>>
    <3>1. Len(chars) # 0
      BY <2>1
    <3>2. QED
      BY <2>2, <3>1 DEF HasImages, seqs
  <2>7. FlattenSeq(seqs) # <<>>
    BY <2>4, <2>5, <2>6, NotEmpty
  <2>8. QED
    BY <1>1, <1>2, <2>7, RenderTyped DEF Mapped, seqs, chars
<1>3. CASE IsPressed(item)
  <2>1. \A x, b, d, e : <<x, b, d>> # <<>> /\ <<x, b, d, e>> # <<>>
    OBVIOUS
  <2>2. QED
    BY <1>1, <1>3, <2>1, RenderPressed, Zenon
<1>4. QED
  BY <1>1, <1>2, <1>3, EitherItem

(* Of items as they are written their pieces are cut, one after the other. *)
LEMMA PiecesRendered ==
  ASSUME NEW items \in Seq(Items)
  PROVE  Pieces(RenderItems(items)) = Mapped(PiecesOf, items)
<1> DEFINE text == RenderItems(items)
           seqs == Images(Rendered, items)
           outs == Images(PiecesOf, items)
           n == Len(items)
<1>1. n \in Nat /\ \A k \in 1 .. n : items[k] \in Items
  OBVIOUS
<1>2. HasImages(Rendered, items, Seq(Tokens)) /\ HasImages(PiecesOf, items, Seq(AllPieces))
  BY RenderedTyped, PiecesOfTyped, ImagesTyped
<1>3. text \in Seq(Tokens) /\ text = FlattenSeq(seqs)
  BY RenderItemsTyped, RenderItemsIs DEF Mapped
<1>4. \A k \in 1 .. n : seqs[k] = Rendered[items[k]] /\ outs[k] = PiecesOf[items[k]]
  BY DEF Images
<1> HIDE DEF text, seqs, outs, n
<1>5. /\ seqs \in Seq(Seq(Tokens)) /\ Len(seqs) = n
      /\ outs \in Seq(Seq(AllPieces)) /\ Len(outs) = n
  BY <1>2 DEF HasImages, seqs, outs, n
<1>6. PICK c : CutsAll(c, text)
  BY <1>3, CutTyped
<1>7. At(text, 1, text)
  <2>1. \A k \in 1 .. Len(text) : 1 + k - 1 = k /\ k \in DOMAIN text
    BY <1>3
  <2>2. QED
    BY <2>1 DEF At
<1>8. PICK p : Places(p, text, 1, seqs)
  <2>1. At(text, 1, FlattenSeq(seqs)) /\ 1 \in Nat
    BY <1>3, <1>7
  <2>2. QED
    BY <1>5, <2>1, PlacesExist
<1>9. /\ p[0] = 1 /\ p[n] = 1 + Len(text)
      /\ \A k \in 1 .. n : p[k] = p[k - 1] + Len(seqs[k]) /\ At(text, p[k - 1], seqs[k])
                           /\ k - 1 \in 0 .. n
  <2>1. \A k \in 1 .. n : k - 1 \in 0 .. n
    BY <1>1
  <2>2. QED
    BY <1>3, <1>5, <1>8, <2>1 DEF Places
<1>10. ASSUME NEW k \in 1 .. Len(seqs) PROVE seqs[k] # <<>>
  <2>1. items[k] \in Items /\ seqs[k] = Rendered[items[k]]
    BY <1>1, <1>4, <1>5
  <2>2. QED
    BY <2>1, RenderedSome
<1>11. \A k \in 0 .. n : p[k] \in 1 .. Len(text) + 1
  <2>1. 1 \in 1 .. Len(text) + 1
    BY <1>3
  <2>2. QED
    BY <1>3, <1>5, <1>8, <1>10, <2>1, PlacesInside
<1>12. \A k \in 0 .. n : c[p[k]] \in Seq(AllPieces)
  BY <1>6, <1>11 DEF CutsAll
<1>13. Telescopes(c, p, outs)
  <2>1. ASSUME NEW k \in 1 .. n PROVE c[p[k - 1]] = outs[k] \o c[p[k]]
    <3>1. items[k] \in Items /\ seqs[k] = RenderItem(items[k]) /\ outs[k] = PiecesOf[items[k]]
      BY <1>1, <1>4, RenderedSome
    <3>2. At(text, p[k - 1], RenderItem(items[k])) /\ p[k - 1] \in 1 .. Len(text) + 1
          /\ p[k] = p[k - 1] + Len(RenderItem(items[k]))
      BY <1>9, <1>11, <3>1
    <3>3. c[p[k - 1]] = PiecesOf[items[k]] \o c[p[k - 1] + Len(RenderItem(items[k]))]
      BY <1>3, <1>6, <3>1, <3>2, CutItem
    <3>4. QED
      BY <3>1, <3>2, <3>3, Zenon
  <2>2. QED
    BY <1>5, <2>1 DEF Telescopes
<1>14. c[p[0]] = FlattenSeq(outs) \o c[p[Len(outs)]]
  <2>1. \A k \in 0 .. Len(outs) : c[p[k]] \in Seq(AllPieces)
    BY <1>5, <1>12, Zenon
  <2>2. outs \in Seq(Seq(AllPieces))
    BY <1>5
  <2>3. QED
    BY <1>13, <2>1, <2>2, Telescoped
<1>15. c[p[Len(outs)]] = <<>> /\ Pieces(text) = c[p[0]]
  <2>1. p[Len(outs)] = Len(text) + 1 /\ p[0] = 1
    <3>1. 1 + Len(text) = Len(text) + 1
      BY <1>3
    <3>2. QED
      BY <1>5, <1>9, <3>1, Zenon
  <2>2. QED
    BY <1>6, <2>1 DEF CutsAll
<1>16. FlattenSeq(outs) \in Seq(AllPieces)
  BY <1>5, FlattenTyped
<1>17. FlattenSeq(outs) \o <<>> = FlattenSeq(outs)
  BY <1>16, EmptyBefore
<1>18. QED
  BY <1>14, <1>15, <1>17, Zenon DEF Mapped, outs, text

----------------------------------------------------------------------------
(* The parts of a Send.                                                    *)
Sequenced(parts, pieces) ==
    parts = [i \in 0 .. Len(pieces) |->
                IF i = 0 THEN <<>> ELSE PartsWith(parts[i - 1], pieces[i])]

LEMMA PartsExist ==
  ASSUME NEW pieces, Len(pieces) \in Nat
  PROVE  \E parts : Sequenced(parts, pieces)
<1> DEFINE n == Len(pieces)
           Good(f, k) == \A i \in 1 .. k : f[i] = PartsWith(f[i - 1], pieces[i])
           P == {k \in 0 .. n : \E f : /\ f = [i \in 0 .. k |-> f[i]] /\ f[0] = <<>>
                                       /\ Good(f, k)}
<1>1. n \in Nat
  OBVIOUS
<1> HIDE DEF n
<1>2. 0 \in P
  <2> DEFINE f == [i \in 0 .. 0 |-> <<>>]
  <2>1. f = [i \in 0 .. 0 |-> f[i]] /\ f[0] = <<>>
    OBVIOUS
  <2> HIDE DEF f
  <2>2. Good(f, 0) /\ 0 \in 0 .. n
    BY <1>1
  <2>3. QED
    BY <2>1, <2>2
<1>3. ASSUME NEW k \in 1 .. n, k - 1 \in P PROVE k \in P
  <2>1. PICK f : f = [i \in 0 .. k - 1 |-> f[i]] /\ f[0] = <<>> /\ Good(f, k - 1)
    BY <1>3
  <2> DEFINE e == [i \in 0 .. k |-> IF i = k THEN PartsWith(f[k - 1], pieces[k]) ELSE f[i]]
  <2>2. k \in 0 .. n /\ 0 \in 0 .. k /\ 0 # k /\ k - 1 \in 0 .. k /\ k - 1 # k /\ k \in 0 .. k
    BY <1>1
  <2>3. e = [i \in 0 .. k |-> e[i]]
    OBVIOUS
  <2>4. \A i \in 0 .. k : i # k => e[i] = f[i]
    OBVIOUS
  <2>5. e[k] = PartsWith(f[k - 1], pieces[k])
    BY <2>2
  <2> HIDE DEF e
  <2>6. ASSUME NEW i \in 1 .. k PROVE e[i] = PartsWith(e[i - 1], pieces[i])
    <3>1. CASE i = k
      BY <2>2, <2>4, <2>5, <3>1
    <3>2. CASE i # k
      <4>1. i \in 1 .. k - 1 /\ i \in 0 .. k /\ i - 1 \in 0 .. k /\ i - 1 # k
        BY <1>1, <3>2
      <4>2. QED
        BY <2>1, <2>4, <3>2, <4>1
    <3>3. QED
      BY <3>1, <3>2
  <2>7. e[0] = <<>>
    BY <2>1, <2>2, <2>4
  <2>8. QED
    BY <2>2, <2>3, <2>6, <2>7
<1>4. n \in P
  <2> HIDE DEF P
  <2>1. \A k \in 0 .. n : k \in P
    BY <1>1, <1>2, <1>3, UpTo
  <2>2. QED
    BY <1>1, <2>1
<1>5. PICK f : f = [i \in 0 .. n |-> f[i]] /\ f[0] = <<>> /\ Good(f, n)
  BY <1>4
<1>6. \A i \in 0 .. n : f[i] = IF i = 0 THEN <<>> ELSE PartsWith(f[i - 1], pieces[i])
  <2>1. \A i \in 0 .. n : i # 0 => i \in 1 .. n
    BY <1>1
  <2>2. QED
    BY <1>5, <2>1
<1>7. Sequenced(f, pieces)
  BY <1>5, <1>6 DEF Sequenced, n
<1>8. QED
  BY <1>7

Sendings(pieces) ==
    \A i \in DOMAIN pieces :
        \/ pieces[i].kind = "text"
        \/ pieces[i].kind = "key" /\ Named(pieces[i].words, DOMAIN Specials)

LEMMA SequenceIs ==
  ASSUME NEW text, Len(Pieces(text)) \in Nat, Sendings(Pieces(text))
  PROVE  \E parts : /\ Sequenced(parts, Pieces(text))
                    /\ ParseSequence(text) = [ok |-> TRUE, parts |-> parts[Len(Pieces(text))]]
<1> DEFINE pieces == Pieces(text)
           Fits(f) == f = [i \in 0 .. Len(pieces) |->
                              IF i = 0 THEN <<>> ELSE PartsWith(f[i - 1], pieces[i])]
           parts == CHOOSE f : Fits(f)
<1>1. \E f : Fits(f)
  BY PartsExist DEF Sequenced
<1>2. Fits(parts)
  <2> HIDE DEF Fits
  <2> QED BY <1>1
<1>3. ParseSequence(text) =
        [ok |-> Sendings(pieces), parts |-> IF Sendings(pieces) THEN parts[Len(pieces)] ELSE <<>>]
  BY DEF ParseSequence, Sendings
<1> HIDE DEF parts
<1>4. ParseSequence(text) = [ok |-> TRUE, parts |-> parts[Len(pieces)]]
  <2>1. Sendings(pieces) = TRUE
    BY DEF Sendings
  <2>2. QED
    BY <1>3, <2>1
<1>5. QED
  BY <1>2, <1>4 DEF Sequenced

AllParts == {Stroke(item) : item \in Items}

LEMMA StrokesTyped ==
  ASSUME NEW items \in Seq(Items)
  PROVE  /\ Strokes(items) \in Seq(AllParts) /\ Len(Strokes(items)) = Len(items)
         /\ \A k \in 1 .. Len(items) : Strokes(items)[k] = Stroke(items[k])
<1>1. DOMAIN items = 1 .. Len(items) /\ Len(items) \in Nat
  OBVIOUS
<1>2. \A k \in 1 .. Len(items) : Stroke(items[k]) \in AllParts
  BY DEF AllParts
<1>3. Strokes(items) = [i \in 1 .. Len(items) |-> Stroke(items[i])]
  BY <1>1 DEF Strokes
<1>4. Strokes(items) \in [1 .. Len(items) -> AllParts]
  BY <1>2, <1>3
<1>5. QED
  BY <1>1, <1>3, <1>4

LEMMA KeysNotNone ==
  ASSUME NEW a \in DOMAIN Specials
  PROVE  Specials[a] # "none"
<1>1. a \in NamesOfSpecials
  BY DomainOfSpecials
<1>2. QED
  BY <1>1 DEF NamesOfSpecials, Specials

LEMMA CountOf ==
  ASSUME NEW item, IsPressed(item)
  PROVE  /\ Count(KeyWords(item)) = item.count
         /\ KeyWords(item) # <<>> /\ KeyWords(item)[1] = item.name
<1>1. KeyWords(item) # <<>> /\ KeyWords(item)[1] = item.name
  BY KeyWordsTyped
<1>2. CASE item.count = 1
  <2>1. Len(KeyWords(item)) = 1
    BY <1>2, KeyWordsTyped
  <2>2. QED
    BY <1>1, <1>2, <2>1 DEF Count
<1>3. CASE item.count # 1
  <2>1. Len(KeyWords(item)) = 2 /\ KeyWords(item)[2] = Numeral[item.count]
    BY <1>3, KeyWordsTyped
  <2>2. Numeral[item.count] \in DOMAIN Numbers /\ Numbers[Numeral[item.count]] = item.count
    BY NumbersOf DEF IsPressed
  <2> DEFINE w == KeyWords(item)
             l == Len(w)
  <2> HIDE DEF w, l
  <2>3. l = 2 /\ w[2] \in DOMAIN Numbers /\ Numbers[w[2]] = item.count
    BY <2>1, <2>2 DEF w, l
  <2>4. Count(w) = item.count
    BY <2>3 DEF Count, l
  <2>5. QED
    BY <1>1, <2>4 DEF w
<1>4. QED
  BY <1>2, <1>3

LEMMA PushTyped ==
  ASSUME NEW S, NEW a \in Seq(S), NEW x \in S
  PROVE  /\ Append(a, x) \in Seq(S) /\ Len(Append(a, x)) = Len(a) + 1
         /\ Append(a, x)[Len(a) + 1] = x /\ Append(a, x) # <<>>
         /\ \A k \in 1 .. Len(a) : Append(a, x)[k] = a[k]
  OBVIOUS

LEMMA PushChanged ==
  ASSUME NEW S, NEW a \in Seq(S), NEW x \in S, NEW y \in S
  PROVE  [Append(a, x) EXCEPT ![Len(Append(a, x))] = y] = Append(a, y)
<1> DEFINE u == Append(a, x)
           v == Append(a, y)
           w == [u EXCEPT ![Len(u)] = y]
           n == Len(a)
<1>1. n \in Nat /\ u \in Seq(S) /\ Len(u) = n + 1 /\ v \in Seq(S) /\ Len(v) = n + 1
      /\ v[n + 1] = y /\ (\A k \in 1 .. n : u[k] = a[k] /\ v[k] = a[k])
  BY PushTyped
<1> HIDE DEF u, v, n
<1>2. u = [k \in 1 .. n + 1 |-> u[k]]
  BY <1>1
<1>3. w = [k \in 1 .. n + 1 |-> IF k = n + 1 THEN y ELSE u[k]]
  BY <1>1, <1>2
<1>4. w \in Seq(S) /\ Len(w) = n + 1
  <2>1. \A k \in 1 .. n + 1 : u[k] \in S
    BY <1>1
  <2>2. w \in [1 .. n + 1 -> S]
    BY <1>3, <2>1
  <2> HIDE DEF w
  <2>3. QED
    BY <1>1, <2>2
<1>5. \A k \in 1 .. n + 1 : w[k] = v[k]
  <2>1. \A k \in 1 .. n + 1 : k = n + 1 \/ (k \in 1 .. n /\ k # n + 1)
    BY <1>1
  <2>2. QED
    BY <1>1, <1>3, <2>1
<1> HIDE DEF w
<1>6. w = v
  BY <1>1, <1>4, <1>5, SameSequence
<1>7. QED
  BY <1>6 DEF w, u, v

LEMMA JoinedOn ==
  ASSUME NEW S, NEW a \in Seq(S), NEW c, NEW w, Paste(c) \in S, Paste(c \o w) \in S
  PROVE  Joined(Append(a, Paste(c)), w) = Append(a, Paste(c \o w))
<1> DEFINE u == Append(a, Paste(c))
<1>1. u # <<>> /\ u[Len(u)] = Paste(c)
  BY PushTyped
<1>2. Paste(c).key = "none" /\ Paste(c).text = c
  BY DEF Paste
<1>3. [u EXCEPT ![Len(u)] = Paste(c \o w)] = Append(a, Paste(c \o w))
  BY PushChanged
<1> HIDE DEF u
<1>4. Joined(u, w) = [u EXCEPT ![Len(u)] = Paste(u[Len(u)].text \o w)]
  BY <1>1, <1>2 DEF Joined
<1>5. Joined(u, w) = [u EXCEPT ![Len(u)] = Paste(c \o w)]
  BY <1>1, <1>2, <1>4, Zenon
<1>6. QED
  BY <1>3, <1>5, Zenon DEF u

LEMMA JoinedNew ==
  ASSUME NEW a, NEW w, a = <<>> \/ a[Len(a)].key # "none"
  PROVE  Joined(a, w) = Append(a, Paste(w))
  BY DEF Joined

(* The first characters of a text are one part, and grow by a character.   *)
LEMMA GrowsBy ==
  ASSUME NEW S, NEW s \in Seq(S), NEW k \in 1 .. Len(s)
  PROVE  /\ SubSeq(s, 1, k) = SubSeq(s, 1, k - 1) \o <<s[k]>>
         /\ SubSeq(s, 1, k) = Append(SubSeq(s, 1, k - 1), s[k])
         /\ SubSeq(s, 1, k) \in Seq(S) /\ SubSeq(s, 1, k) # <<>>
<1>1. SubSeq(s, 1, k) = SubSeq(s, 1, k - 1) \o <<s[k]>>
  OBVIOUS
<1>2. SubSeq(s, 1, k) = Append(SubSeq(s, 1, k - 1), s[k])
  OBVIOUS
<1>3. SubSeq(s, 1, k) \in Seq(S) /\ SubSeq(s, 1, k) # <<>>
  OBVIOUS
<1>4. QED
  BY <1>1, <1>2, <1>3

LEMMA PastesTyped ==
  ASSUME NEW c \in Seq(Chars), c # <<>>
  PROVE  Paste(c) \in AllParts /\ Stroke(Typed(c)) = Paste(c)
<1>1. Typed(c) \in Items
  BY DEF Items
<1>2. IsText(Typed(c)) /\ Typed(c).characters = c
  BY DEF Typed, IsText
<1>3. Stroke(Typed(c)) = Paste(c)
  BY <1>2 DEF Stroke
<1>4. QED
  BY <1>1, <1>3 DEF AllParts

(* With the pieces of a text, a part more.                                 *)
LEMMA TypedPart ==
  ASSUME NEW pieces \in Seq(AllPieces), NEW parts, Sequenced(parts, pieces),
         NEW item \in Items, IsTyped(item), NEW i \in 1 .. Len(pieces) + 1,
         At(pieces, i, PiecesOf[item]), NEW a \in Seq(AllParts), parts[i - 1] = a,
         a = <<>> \/ a[Len(a)].key # "none"
  PROVE  parts[i - 1 + Len(PiecesOf[item])] = Append(a, Stroke(item))
<1> DEFINE chars == item.characters
           n == Len(chars)
<1>1. chars \in Seq(Chars) /\ n \in Nat /\ n >= 1 /\ \A j \in 1 .. n : chars[j] \in Chars
  BY DEF IsTyped
<1>2. Stroke(item) = Paste(chars)
  BY DEF IsTyped, Stroke
<1>3. PiecesOf[item] = Images(CharPiece, chars)
  BY PiecesOfItem
<1>4. /\ Len(PiecesOf[item]) = n
      /\ \A j \in 1 .. n : PiecesOf[item][j] = Piece("text", <<chars[j]>>)
  <2>1. HasImages(CharPiece, chars, AllPieces)
    BY <1>1, CharPieceTyped, ImagesTyped
  <2>2. DOMAIN chars = 1 .. n
    BY <1>1
  <2>3. \A s \in Chars : CharPiece[s] = Piece("text", <<s>>)
    BY DEF CharPiece
  <2> HIDE DEF chars
  <2>4. \A j \in 1 .. n : Images(CharPiece, chars)[j] = CharPiece[chars[j]]
    BY <2>2 DEF Images
  <2>5. QED
    BY <1>1, <1>3, <2>1, <2>3, <2>4 DEF HasImages
<1> HIDE DEF chars, n
<1>5. ASSUME NEW j \in 1 .. n
      PROVE  /\ i - 1 + j \in 1 .. Len(pieces) /\ i - 1 + j - 1 = i - 1 + (j - 1)
             /\ parts[i - 1 + j] = Joined(parts[i - 1 + (j - 1)], <<chars[j]>>)
  <2>1. i + j - 1 = i - 1 + j /\ i - 1 + j - 1 = i - 1 + (j - 1) /\ j \in 1 .. Len(PiecesOf[item])
    BY <1>1, <1>4
  <2>2. i + j - 1 \in DOMAIN pieces /\ pieces[i + j - 1] = PiecesOf[item][j]
    BY <2>1 DEF At
  <2> DEFINE q == i - 1 + j
  <2>3. q \in 1 .. Len(pieces) /\ pieces[q] = Piece("text", <<chars[j]>>) /\ q \in 0 .. Len(pieces) /\ q # 0
    BY <1>4, <2>1, <2>2
  <2> HIDE DEF q
  <2>4. parts[q] = PartsWith(parts[q - 1], pieces[q])
    BY <2>3 DEF Sequenced
  <2>5. parts[q] = Joined(parts[q - 1], <<chars[j]>>)
    BY <2>3, <2>4 DEF PartsWith, Piece
  <2>6. QED
    BY <2>1, <2>3, <2>5 DEF q
<1> DEFINE P == {j \in 0 .. n : j # 0 => parts[i - 1 + j] = Append(a, Paste(SubSeq(chars, 1, j)))}
<1>6. 0 \in P
  BY <1>1
<1>7. ASSUME NEW j \in 1 .. n, j - 1 \in P PROVE j \in P
  <2>1. j \in 0 .. n /\ chars[j] \in Chars /\ j \in 1 .. Len(chars)
    BY <1>1 DEF n
  <2>2. /\ SubSeq(chars, 1, j) = SubSeq(chars, 1, j - 1) \o <<chars[j]>>
        /\ SubSeq(chars, 1, j) \in Seq(Chars) /\ SubSeq(chars, 1, j) # <<>>
    BY <1>1, <2>1, GrowsBy
  <2>3. CASE j = 1
    <3>1. i - 1 + (1 - 1) = i - 1 /\ 1 - 1 = 0
      OBVIOUS
    <3>2. parts[i - 1 + (j - 1)] = a
      BY <2>3, <3>1
    <3>3. parts[i - 1 + j] = Append(a, Paste(<<chars[j]>>))
      BY <1>5, <3>2, JoinedNew
    <3>4. SubSeq(chars, 1, j) = <<chars[j]>>
      BY <1>1, <2>1, <2>3, SubSeqOne
    <3>5. parts[i - 1 + j] = Append(a, Paste(SubSeq(chars, 1, j)))
      BY <3>3, <3>4
    <3>6. QED
      BY <2>1, <3>5
  <2>4. CASE j # 1
    <3> DEFINE c == SubSeq(chars, 1, j - 1)
    <3>1. j - 1 \in 1 .. n /\ j - 1 # 0 /\ j - 1 \in 1 .. Len(chars)
      BY <1>1, <2>1, <2>4 DEF n
    <3>2. parts[i - 1 + (j - 1)] = Append(a, Paste(c))
      BY <1>7, <3>1
    <3>3. c \in Seq(Chars) /\ c # <<>>
      BY <1>1, <3>1, GrowsBy
    <3> HIDE DEF c
    <3>4. SubSeq(chars, 1, j) = c \o <<chars[j]>>
      BY <2>2 DEF c
    <3>5. Paste(c) \in AllParts /\ Paste(c \o <<chars[j]>>) \in AllParts
      BY <2>2, <3>3, <3>4, PastesTyped
    <3>6. Joined(Append(a, Paste(c)), <<chars[j]>>) = Append(a, Paste(c \o <<chars[j]>>))
      <4> DEFINE w == <<chars[j]>>
      <4> HIDE DEF w
      <4>1. Paste(c) \in AllParts /\ Paste(c \o w) \in AllParts
        BY <3>5 DEF w
      <4>2. Joined(Append(a, Paste(c)), w) = Append(a, Paste(c \o w))
        BY <4>1, JoinedOn, SMTT(30)
      <4>3. QED
        BY <4>2, Zenon DEF w
    <3>7. parts[i - 1 + j] = Append(a, Paste(SubSeq(chars, 1, j)))
      BY <1>5, <3>2, <3>4, <3>6, Zenon
    <3>8. QED
      BY <2>1, <3>7
  <2>5. QED
    BY <2>3, <2>4
<1>8. n \in P
  <2> HIDE DEF P
  <2>1. \A j \in 0 .. n : j \in P
    BY <1>1, <1>6, <1>7, UpTo
  <2>2. QED
    BY <1>1, <2>1
<1>9. parts[i - 1 + n] = Append(a, Paste(SubSeq(chars, 1, n))) /\ SubSeq(chars, 1, n) = chars
  <2>1. n # 0 /\ parts[i - 1 + n] = Append(a, Paste(SubSeq(chars, 1, n)))
    BY <1>1, <1>8
  <2>2. SubSeq(chars, 1, n) = chars
    BY <1>1 DEF n
  <2>3. QED
    BY <2>1, <2>2
<1>10. QED
  BY <1>2, <1>4, <1>9

LEMMA PressedPart ==
  ASSUME NEW pieces \in Seq(AllPieces), NEW parts, Sequenced(parts, pieces),
         NEW item \in Items, IsPressed(item), NEW i \in 1 .. Len(pieces) + 1,
         At(pieces, i, PiecesOf[item]), NEW a \in Seq(AllParts), parts[i - 1] = a
  PROVE  parts[i - 1 + Len(PiecesOf[item])] = Append(a, Stroke(item))
<1> DEFINE p == Piece("key", KeyWords(item))
<1>1. PiecesOf[item] = << p >>
  BY PiecesOfItem
<1>2. p.kind = "key" /\ p.words = KeyWords(item)
  BY DEF Piece
<1>3. Stroke(item) = Tap(Specials[item.name], item.count)
  BY DEF IsPressed, Stroke
<1>4. item.count \in Nat /\ ~(item.count < 1)
  BY DEF IsPressed
<1>5. PartsWith(a, p) = Append(a, Stroke(item))
  <2> HIDE DEF p
  <2>1. PartsWith(a, p) = Append(a, Tap(Specials[p.words[1]],
                            IF Count(p.words) < 1 THEN 1 ELSE Count(p.words)))
    BY <1>2 DEF PartsWith
  <2>2. Count(p.words) = item.count /\ p.words[1] = item.name
    BY <1>2, CountOf
  <2>3. QED
    BY <1>3, <1>4, <2>1, <2>2
<1> HIDE DEF p
<1>6. i \in DOMAIN pieces /\ pieces[i] = p
  <2>1. At(pieces, i, <<p>>) /\ i \in Nat
    BY <1>1
  <2>2. QED
    BY <2>1, AtPlaces
<1>7. i \in 0 .. Len(pieces) /\ i # 0 /\ i - 1 + 1 = i
  BY <1>6
<1>8. parts[i] = PartsWith(parts[i - 1], pieces[i])
  BY <1>7 DEF Sequenced
<1>9. Len(<<p>>) = 1
  OBVIOUS
<1>10. QED
  BY <1>1, <1>5, <1>6, <1>7, <1>8, <1>9

InParts(f, a, D) == \A i \in DOMAIN a : f[a[i]] \in Seq(D)
HasParts(f, a, D) ==
    /\ Mapped(f, a) \in Seq(D) /\ Images(f, a) \in Seq(Seq(D))
    /\ Len(Images(f, a)) = Len(a) /\ \A i \in 1 .. Len(a) : Images(f, a)[i] = f[a[i]]
LEMMA MappedIn ==
  ASSUME NEW S, NEW D, NEW f, NEW a \in Seq(S), InParts(f, a, D)
  PROVE  HasParts(f, a, D)
<1> DEFINE n == Len(a)
           q == Images(f, a)
<1>1. n \in Nat /\ DOMAIN a = 1 .. n
  OBVIOUS
<1>2. q = [i \in 1 .. n |-> f[a[i]]]
  BY <1>1 DEF Images
<1>3. q \in [1 .. n -> Seq(D)] /\ \A i \in 1 .. n : q[i] = f[a[i]]
  BY <1>1, <1>2 DEF InParts
<1> HIDE DEF q, n
<1>4. q \in Seq(Seq(D)) /\ Len(q) = n
  BY <1>1, <1>3
<1>5. QED
  BY <1>3, <1>4, FlattenTyped DEF Mapped, q, n, HasParts

SendPieces ==
    {p \in AllPieces : \/ p.kind = "text"
                       \/ p.kind = "key" /\ Named(p.words, DOMAIN Specials)}

LEMMA PiecesOfSent ==
  ASSUME NEW item \in Items
  PROVE  PiecesOf[item] \in Seq(SendPieces) /\ PiecesOf[item] # <<>>
<1>1. CASE IsTyped(item)
  <2> DEFINE chars == item.characters
  <2>1. chars \in Seq(Chars) /\ chars # <<>>
    BY <1>1 DEF IsTyped
  <2>2. \A a \in Chars : CharPiece[a] \in SendPieces
    <3> TAKE a \in Chars
    <3>1. CharPiece[a] \in AllPieces
      BY CharPieceTyped
    <3>2. CharPiece[a].kind = "text"
      BY DEF CharPiece, Piece
    <3>3. QED
      BY <3>1, <3>2 DEF SendPieces
  <2>3. CharPiece \in [Chars -> SendPieces]
    BY <2>2, CharPieceTyped
  <2> HIDE DEF chars
  <2>4. HasImages(CharPiece, chars, SendPieces)
    BY <2>1, <2>3, ImagesTyped
  <2>5. Len(chars) # 0
    BY <2>1
  <2>6. PiecesOf[item] = Images(CharPiece, chars)
    BY <1>1, PiecesOfItem DEF chars
  <2> DEFINE q == Images(CharPiece, chars)
  <2>7. q \in Seq(SendPieces) /\ Len(q) # 0
    BY <2>4, <2>5 DEF HasImages
  <2> HIDE DEF q
  <2>8. q # <<>>
    BY <2>7
  <2>9. QED
    BY <2>6, <2>7, <2>8 DEF q
<1>2. CASE IsPressed(item)
  <2> DEFINE p == Piece("key", KeyWords(item))
  <2>1. PiecesOf[item] = <<p>>
    BY <1>2, PiecesOfItem
  <2>2. p.kind = "key" /\ p.words = KeyWords(item) /\ p \in AllPieces
    BY <1>2, KeyWordsTyped DEF Piece, AllPieces
  <2>3. item.name \in DOMAIN Specials
    BY <1>2 DEF IsPressed
  <2> HIDE DEF p
  <2>4. Named(p.words, DOMAIN Specials)
    BY <1>2, <2>2, <2>3, CountOf DEF Named
  <2>5. p \in SendPieces
    BY <2>2, <2>4 DEF SendPieces
  <2>6. <<p>> \in Seq(SendPieces) /\ <<p>> # <<>>
    BY <2>5, TuplesTyped, Tuples
  <2>7. QED
    BY <2>1, <2>6
<1>3. QED
  BY <1>1, <1>2, EitherItem

(* parse_sequence: a SendInput of any length is parsed into the texts and  *)
(* keys it is written from, each key with its count, each escaped          *)
(* character within its text.                                              *)
THEOREM SendParsed ==
  ASSUME NEW items, IsSaying(items), Sendable(items)
  PROVE  ParseSequence(RenderItems(items)) = [ok |-> TRUE, parts |-> Strokes(items)]
<1> DEFINE n == Len(items)
           text == RenderItems(items)
           pieces == Mapped(PiecesOf, items)
           seqs == Images(PiecesOf, items)
           strokes == Strokes(items)
<1>1. items \in Seq(Items) /\ n \in Nat /\ DOMAIN items = 1 .. n /\ \A k \in 1 .. n : items[k] \in Items
  BY SayingTyped
<1>2. Pieces(text) = pieces
  BY <1>1, PiecesRendered
<1>3. InParts(PiecesOf, items, SendPieces)
  BY <1>1, PiecesOfSent DEF InParts
<1>4. /\ pieces \in Seq(SendPieces) /\ seqs \in Seq(Seq(SendPieces)) /\ Len(seqs) = n
      /\ \A k \in 1 .. n : seqs[k] = PiecesOf[items[k]]
  <2>1. HasParts(PiecesOf, items, SendPieces)
    BY <1>1, <1>3, MappedIn
  <2>2. QED
    BY <2>1 DEF HasParts
<1>5. pieces = FlattenSeq(seqs)
  BY DEF Mapped
<1>6. strokes \in Seq(AllParts) /\ Len(strokes) = n /\ \A k \in 1 .. n : strokes[k] = Stroke(items[k])
  BY <1>1, StrokesTyped
<1>7. \A k \in 1 .. n : IsText(items[k]) => k = 1 \/ ~IsText(items[k - 1])
  BY <1>1 DEF Sendable
<1> HIDE DEF n, text, pieces, seqs, strokes
<1>8. pieces \in Seq(AllPieces)
  <2>1. SendPieces \subseteq AllPieces
    BY DEF SendPieces
  <2>2. QED
    BY <1>4, <2>1
<1>9. Len(pieces) \in Nat /\ Sendings(pieces)
  <2>1. Len(pieces) \in Nat /\ \A i \in DOMAIN pieces : pieces[i] \in SendPieces
    BY <1>4
  <2>2. QED
    BY <2>1 DEF Sendings, SendPieces
<1>10. PICK parts : /\ Sequenced(parts, pieces)
                    /\ ParseSequence(text) = [ok |-> TRUE, parts |-> parts[Len(pieces)]]
  BY <1>2, <1>9, SequenceIs
<1>11. At(pieces, 1, pieces)
  <2>1. \A k \in 1 .. Len(pieces) : 1 + k - 1 = k /\ k \in DOMAIN pieces
    BY <1>8
  <2>2. QED
    BY <2>1 DEF At
<1>12. PICK p : Places(p, pieces, 1, seqs)
  <2>1. At(pieces, 1, FlattenSeq(seqs)) /\ 1 \in Nat
    BY <1>5, <1>11
  <2>2. QED
    BY <1>4, <2>1, PlacesExist
<1>13. /\ p[0] = 1 /\ p[n] = 1 + Len(pieces)
       /\ \A k \in 1 .. n : p[k] = p[k - 1] + Len(seqs[k]) /\ At(pieces, p[k - 1], seqs[k])
                            /\ k - 1 \in 0 .. n
  <2>1. \A k \in 1 .. n : k - 1 \in 0 .. n
    BY <1>1 DEF n
  <2>2. QED
    BY <1>4, <1>5, <1>12, <2>1 DEF Places
<1>14. \A k \in 0 .. n : p[k] \in 1 .. Len(pieces) + 1
  <2>1. ASSUME NEW k \in 1 .. Len(seqs) PROVE seqs[k] # <<>>
    <3>1. items[k] \in Items /\ seqs[k] = PiecesOf[items[k]]
      BY <1>1, <1>4
    <3>2. QED
      BY <3>1, PiecesOfSent
  <2>2. 1 \in 1 .. Len(pieces) + 1
    BY <1>9
  <2>3. QED
    BY <1>4, <1>8, <1>12, <2>1, <2>2, PlacesInside
<1> DEFINE P == {k \in 0 .. n : parts[p[k] - 1] = SubSeq(strokes, 1, k)}
<1>15. n \in Nat
  BY <1>1
<1>16. 0 \in P
  <2>1. 1 - 1 = 0 /\ 0 \in 0 .. Len(pieces) /\ 0 \in 0 .. n
    BY <1>9, <1>15
  <2>2. parts[0] = <<>>
    BY <1>10, <2>1 DEF Sequenced
  <2>3. SubSeq(strokes, 1, 0) = <<>>
    BY <1>6
  <2>4. parts[p[0] - 1] = SubSeq(strokes, 1, 0)
    BY <1>13, <2>1, <2>2, <2>3
  <2>5. QED
    BY <2>1, <2>4
<1>17. ASSUME NEW k \in 1 .. n, k - 1 \in P PROVE k \in P
  <2> DEFINE a == SubSeq(strokes, 1, k - 1)
             i == p[k - 1]
             item == items[k]
  <2>1. k \in 0 .. n /\ k - 1 \in 0 .. n /\ k \in 1 .. Len(strokes) /\ k \in 1 .. Len(items)
    BY <1>6, <1>15 DEF n
  <2>2. parts[i - 1] = a
    BY <1>17
  <2>3. a \in Seq(AllParts) /\ Len(a) = k - 1
    BY <1>6, <2>1
  <2>4. Append(a, strokes[k]) = SubSeq(strokes, 1, k)
    BY <1>6, <2>1, GrowsBy
  <2>5. item \in Items /\ strokes[k] = Stroke(item) /\ seqs[k] = PiecesOf[item]
    BY <1>1, <1>4, <1>6
  <2>6. i \in 1 .. Len(pieces) + 1 /\ At(pieces, i, PiecesOf[item])
        /\ p[k] = i + Len(PiecesOf[item])
    BY <1>13, <1>14, <2>1, <2>5
  <2>7. Len(PiecesOf[item]) \in Nat
    BY <2>5, PiecesOfSent
  <2>8. k # 1 => a[Len(a)] = Stroke(items[k - 1]) /\ items[k - 1] \in Items
    <3>1. k # 1 => k - 1 \in 1 .. n
      BY <2>1
    <3>2. k # 1 => a[k - 1] = strokes[k - 1]
      BY <1>6, <3>1
    <3>3. QED
      BY <1>1, <1>6, <2>3, <3>1, <3>2
  <2>9. IsTyped(item) => a = <<>> \/ a[Len(a)].key # "none"
    <3>1. CASE k = 1
      BY <2>3, <3>1
    <3>2. CASE k # 1 /\ IsTyped(item)
      <4>1. ~IsText(items[k - 1])
        BY <1>7, <3>2 DEF IsTyped
      <4>2. IsPressed(items[k - 1])
        BY <2>8, <3>2, <4>1, EitherItem DEF IsTyped
      <4>3. Stroke(items[k - 1]).key = Specials[items[k - 1].name]
        BY <4>1 DEF Stroke, Tap
      <4>4. QED
        BY <2>8, <3>2, <4>2, <4>3, KeysNotNone DEF IsPressed
    <3>3. QED
      BY <3>1, <3>2
  <2> HIDE DEF a, i, item
  <2>10. parts[i - 1 + Len(PiecesOf[item])] = Append(a, Stroke(item))
    <3>1. CASE IsTyped(item)
      BY <1>8, <1>10, <2>2, <2>3, <2>5, <2>6, <2>9, <3>1, TypedPart
    <3>2. CASE IsPressed(item)
      BY <1>8, <1>10, <2>2, <2>3, <2>5, <2>6, <3>2, PressedPart, SMTT(30)
    <3>3. QED
      BY <2>5, <3>1, <3>2, EitherItem
  <2>11. p[k] - 1 = i - 1 + Len(PiecesOf[item])
    BY <2>6, <2>7
  <2>12. parts[p[k] - 1] = SubSeq(strokes, 1, k)
    BY <2>4, <2>5, <2>10, <2>11, Zenon
  <2>13. QED
    BY <2>1, <2>12
<1>18. n \in P
  <2> HIDE DEF P
  <2>1. \A k \in 0 .. n : k \in P
    BY <1>15, <1>16, <1>17, UpTo
  <2>2. QED
    BY <1>15, <2>1
<1>19. parts[Len(pieces)] = strokes
  <2>1. parts[p[n] - 1] = SubSeq(strokes, 1, n)
    BY <1>18
  <2>2. SubSeq(strokes, 1, n) = strokes
    BY <1>6
  <2>3. p[n] - 1 = Len(pieces)
    BY <1>9, <1>13
  <2>4. QED
    BY <2>1, <2>2, <2>3, Zenon
<1>20. QED
  BY <1>10, <1>19 DEF text, strokes

----------------------------------------------------------------------------
(* The text and tail keys of a replacement.                                *)
LEMMA FlattenNothing ==
  ASSUME NEW seqs, Len(seqs) \in Nat, seqs \in Seq({<<>>})
  PROVE  FlattenSeq(seqs) = <<>>
<1> DEFINE n == Len(seqs)
           g == [k \in 0 .. n |-> <<>>]
<1>1. \A k \in 0 .. n : g[k] = <<>>
  OBVIOUS
<1>2. <<>> \in Seq({}) /\ <<>> \o <<>> = <<>>
  OBVIOUS
<1>3. n \in Nat /\ \A k \in 1 .. n : seqs[k] = <<>>
  OBVIOUS
<1>4. g \in [0 .. n -> Seq({})]
  BY <1>2
<1>5. seqs \in Seq(Seq({}))
  <2>1. seqs = [k \in 1 .. n |-> seqs[k]]
    OBVIOUS
  <2>2. seqs \in [1 .. n -> Seq({})]
    BY <1>2, <1>3, <2>1
  <2> HIDE DEF n
  <2>3. QED
    BY <1>3, <2>2
<1> HIDE DEF g, n
<1>6. \A k \in 1 .. n : k \in 0 .. n /\ k - 1 \in 0 .. n
  BY <1>3
<1>7. 0 \in 0 .. n /\ n \in 0 .. n
  BY <1>3
<1>8. \A k \in 1 .. n : g[k] = g[k - 1] \o seqs[k]
  BY <1>1, <1>2, <1>3, <1>6, Zenon
<1>9. Accumulates(g, seqs, {})
  BY <1>1, <1>4, <1>7, <1>8 DEF Accumulates, n
<1>10. QED
  BY <1>1, <1>5, <1>7, <1>9, AccumulatesIs DEF n

Tails == CountedTails \cup SingleTails
ReplacePieces ==
    {p \in AllPieces : p.kind = "text" \/ (p.kind = "key" /\ Named(p.words, Tails))}
WordsOf == [p \in AllPieces |-> IF p.kind = "text" THEN p.words ELSE <<>>]
TailTaps == {TailKey(words) : words \in Seq(Tokens)}
TailOf == [p \in AllPieces |-> IF p.kind = "key" THEN << TailKey(p.words) >> ELSE <<>>]

LEMMA WordsTyped == WordsOf \in [AllPieces -> Seq(Tokens)] /\ TailOf \in [AllPieces -> Seq(TailTaps)]
<1>1. ASSUME NEW p \in AllPieces PROVE p.words \in Seq(Tokens)
  BY DEF AllPieces
<1>2. WordsOf \in [AllPieces -> Seq(Tokens)]
  BY <1>1 DEF WordsOf
<1>3. \A p \in AllPieces : <<TailKey(p.words)>> \in Seq(TailTaps)
  BY <1>1, TuplesTyped, Zenon DEF TailTaps
<1>4. TailOf \in [AllPieces -> Seq(TailTaps)]
  BY <1>3 DEF TailOf
<1>5. QED
  BY <1>2, <1>4

Replacing(item) ==
    IsText(item) \/ item.name \in CountedTails \/ (item.name \in SingleTails /\ item.count = 1)

LEMMA TailStroke ==
  ASSUME NEW item, IsPressed(item), Replacing(item)
  PROVE  /\ TailKey(KeyWords(item)) = Stroke(item)
         /\ Named(KeyWords(item), Tails)
<1>1. /\ Count(KeyWords(item)) = item.count
      /\ KeyWords(item) # <<>> /\ KeyWords(item)[1] = item.name
  BY CountOf
<1>2. item.name # "SPACE" /\ item.name \in DOMAIN Specials
  BY NamesOfKeys DEF IsPressed
<1>3. Stroke(item) = Tap(Specials[item.name], item.count)
  BY DEF Stroke, IsPressed
<1> DEFINE w == KeyWords(item)
<1> HIDE DEF w
<1>4. TailKey(w) = Tap(Specials[item.name], IF item.name \in CountedTails THEN item.count ELSE 1)
  BY <1>1, <1>2 DEF TailKey, w
<1>5. item.name \notin CountedTails => item.name \in SingleTails /\ item.count = 1
  BY DEF Replacing, IsPressed
<1>6. QED
  BY <1>1, <1>3, <1>4, <1>5 DEF Named, Tails, w

(* What the pieces of an item give.                                        *)
TailOfItem(item) == IF IsText(item) THEN <<>> ELSE << Stroke(item) >>
LEMMA PiecesReplace ==
  ASSUME NEW item \in Items, Replacing(item)
  PROVE  /\ PiecesOf[item] \in Seq(ReplacePieces)
         /\ Mapped(WordsOf, PiecesOf[item]) = item.characters
         /\ Mapped(TailOf, PiecesOf[item]) = TailOfItem(item)
         /\ item.characters \in Seq(Chars)
<1>1. CASE IsTyped(item)
  <2> DEFINE chars == item.characters
             q == Images(CharPiece, chars)
             n == Len(chars)
  <2>1. chars \in Seq(Chars) /\ n \in Nat /\ DOMAIN chars = 1 .. n /\ IsText(item)
        /\ \A k \in 1 .. n : chars[k] \in Chars
    BY <1>1 DEF IsTyped
  <2>2. PiecesOf[item] = q
    BY <1>1, PiecesOfItem
  <2>3. \A s \in Chars : CharPiece[s] = Piece("text", <<s>>) /\ CharPiece[s] \in AllPieces
    BY CharPieceTyped DEF CharPiece
  <2>4. \A p \in AllPieces : p.kind = "text" => p \in ReplacePieces /\ WordsOf[p] = p.words /\ TailOf[p] = <<>>
    BY DEF ReplacePieces, WordsOf, TailOf
  <2>5. \A s \in Chars : CharPiece[s] \in ReplacePieces /\ WordsOf[CharPiece[s]] = <<s>>
                          /\ TailOf[CharPiece[s]] = <<>>
    <3>1. \A s \in Chars : CharPiece[s].kind = "text" /\ CharPiece[s].words = <<s>>
      <4> TAKE s \in Chars
      <4>1. Piece("text", <<s>>).kind = "text" /\ Piece("text", <<s>>).words = <<s>>
        BY DEF Piece
      <4>2. QED
        BY <2>3, <4>1, Zenon
    <3>2. QED
      BY <2>3, <2>4, <3>1
  <2> HIDE DEF chars, n
  <2>6. q = [k \in 1 .. n |-> CharPiece[chars[k]]]
    BY <2>1 DEF Images
  <2>7. q \in [1 .. n -> ReplacePieces] /\ \A k \in 1 .. n : q[k] = CharPiece[chars[k]]
    BY <2>1, <2>5, <2>6
  <2> HIDE DEF q
  <2>8. DOMAIN q = 1 .. n /\ q \in Seq(ReplacePieces)
    BY <2>1, <2>7
  <2>9. Images(WordsOf, q) = Single(chars)
    <3>1. \A k \in 1 .. n : WordsOf[q[k]] = <<chars[k]>>
      BY <2>1, <2>5, <2>7
    <3>2. QED
      BY <2>1, <2>8, <3>1 DEF Images, Single
  <2>10. Mapped(WordsOf, q) = chars
    BY <2>1, <2>9, FlattenSingle, Zenon DEF Mapped
  <2>11. Images(TailOf, q) \in Seq({<<>>}) /\ Len(Images(TailOf, q)) \in Nat
    <3>1. \A k \in 1 .. n : TailOf[q[k]] = <<>>
      BY <2>1, <2>5, <2>7
    <3>2. Images(TailOf, q) = [k \in 1 .. n |-> TailOf[q[k]]]
      BY <2>8 DEF Images
    <3> DEFINE r == Images(TailOf, q)
    <3>3. r \in [1 .. n -> {<<>>}]
      BY <3>1, <3>2
    <3> HIDE DEF r
    <3>4. r \in Seq({<<>>}) /\ Len(r) \in Nat
      BY <2>1, <3>3
    <3>5. QED
      BY <3>4 DEF r
  <2>12. Mapped(TailOf, q) = <<>>
    BY <2>11, FlattenNothing, Zenon DEF Mapped
  <2>13. QED
    BY <2>1, <2>2, <2>8, <2>10, <2>12, Zenon DEF TailOfItem, chars
<1>2. CASE IsPressed(item)
  <2> DEFINE p == Piece("key", KeyWords(item))
  <2>1. PiecesOf[item] = <<p>>
    BY <1>2, PiecesOfItem
  <2>2. p.kind = "key" /\ p.words = KeyWords(item) /\ p \in AllPieces
    BY <1>2, KeyWordsTyped DEF Piece, AllPieces
  <2> HIDE DEF p
  <2>3. p \in ReplacePieces
    BY <1>2, <2>2, TailStroke DEF ReplacePieces
  <2>4. <<p>> \in Seq(ReplacePieces)
    BY <2>3, TuplesTyped
  <2>5. WordsOf[p] = <<>> /\ TailOf[p] = << Stroke(item) >>
    BY <1>2, <2>2, TailStroke DEF WordsOf, TailOf
  <2>6. Mapped(WordsOf, <<p>>) = WordsOf[p] /\ Mapped(TailOf, <<p>>) = TailOf[p]
    <3>1. Mapped(WordsOf, <<p>>) = WordsOf[p]
      BY <2>2, WordsTyped, MappedOne, Zenon
    <3>2. Mapped(TailOf, <<p>>) = TailOf[p]
      BY <2>2, WordsTyped, MappedOne, SMTT(30)
    <3>3. QED
      BY <3>1, <3>2
  <2>7. ~IsText(item) /\ item.characters = <<>>
    BY <1>2 DEF IsPressed
  <2>8. item.characters \in Seq(Chars)
    BY <2>7
  <2>9. QED
    BY <2>1, <2>4, <2>5, <2>6, <2>7, <2>8, Zenon DEF TailOfItem
<1>3. QED
  BY <1>1, <1>2, EitherItem

Replacement(text, tail) == [ok |-> TRUE, text |-> text, tail |-> tail]
LEMMA ReplacementIs ==
  ASSUME NEW text, Pieces(text) \in Seq(ReplacePieces)
  PROVE  ParseReplacement(text) =
            Replacement(Mapped(WordsOf, Pieces(text)), Mapped(TailOf, Pieces(text)))
<1> DEFINE pieces == Pieces(text)
           ok == \A i \in DOMAIN pieces :
                  \/ pieces[i].kind = "text"
                  \/ /\ pieces[i].kind = "key"
                     /\ Named(pieces[i].words, CountedTails \cup SingleTails)
           texts == [i \in DOMAIN pieces |->
                     IF pieces[i].kind = "text" THEN pieces[i].words ELSE <<>>]
           keys == [i \in DOMAIN pieces |->
                    IF pieces[i].kind = "key" THEN << TailKey(pieces[i].words) >> ELSE <<>>]
<1>1. ParseReplacement(text) = [ok   |-> ok,
         text |-> IF ok THEN FlattenSeq(texts) ELSE <<>>,
         tail |-> IF ok THEN FlattenSeq(keys) ELSE <<>>]
  BY DEF ParseReplacement
<1> HIDE DEF pieces
<1>2. \A i \in DOMAIN pieces : pieces[i] \in ReplacePieces /\ pieces[i] \in AllPieces
  BY DEF pieces, ReplacePieces
<1>3. ok = TRUE
  BY <1>2 DEF ReplacePieces, Tails
<1>4. texts = Images(WordsOf, pieces)
  BY <1>2 DEF Images, WordsOf
<1>5. keys = Images(TailOf, pieces)
  BY <1>2 DEF Images, TailOf
<1> HIDE DEF ok, texts, keys
<1>6. ParseReplacement(text) = [ok |-> TRUE, text |-> FlattenSeq(texts), tail |-> FlattenSeq(keys)]
  BY <1>1, <1>3
<1>7. QED
  BY <1>4, <1>5, <1>6, Zenon DEF Mapped, pieces, Replacement

(* parse_replacement: a text with keys in braces is accepted, and what is  *)
(* typed and which keys are tapped behind it are those it is written from. *)
THEOREM ReplacementParsed ==
  ASSUME NEW items \in Seq(Items), \A i \in DOMAIN items : Replacing(items[i])
  PROVE  /\ ParseReplacement(RenderItems(items)).ok
         /\ Text(ParseReplacement(RenderItems(items))) = AtOnce(items)
<1> DEFINE n == Len(items)
           text == RenderItems(items)
           seqs == Images(PiecesOf, items)
           pieces == Mapped(PiecesOf, items)
<1>1. n \in Nat /\ DOMAIN items = 1 .. n /\ \A k \in 1 .. n : items[k] \in Items /\ Replacing(items[k])
  OBVIOUS
<1>2. Pieces(text) = pieces /\ pieces = FlattenSeq(seqs)
  BY PiecesRendered DEF Mapped
<1>3. InParts(PiecesOf, items, ReplacePieces) /\ InParts(PiecesOf, items, AllPieces)
  <2>1. ReplacePieces \subseteq AllPieces
    BY DEF ReplacePieces
  <2>2. InParts(PiecesOf, items, ReplacePieces)
    BY <1>1, PiecesReplace DEF InParts
  <2>3. \A s : s \in Seq(ReplacePieces) => s \in Seq(AllPieces)
    BY <2>1
  <2>4. QED
    BY <2>2, <2>3 DEF InParts
<1>4. HasParts(PiecesOf, items, ReplacePieces) /\ HasParts(PiecesOf, items, AllPieces)
  BY <1>3, MappedIn
<1>5. pieces \in Seq(ReplacePieces) /\ seqs \in Seq(Seq(AllPieces)) /\ DOMAIN seqs = 1 .. n
      /\ \A k \in 1 .. n : seqs[k] = PiecesOf[items[k]]
  <2>1. seqs \in Seq(Seq(AllPieces)) /\ Len(seqs) = n
    BY <1>4 DEF HasParts
  <2> HIDE DEF seqs
  <2>2. DOMAIN seqs = 1 .. n
    BY <2>1
  <2>3. QED
    BY <1>4, <2>1, <2>2 DEF HasParts, seqs
<1>6. ParseReplacement(text) = Replacement(Mapped(WordsOf, pieces), Mapped(TailOf, pieces))
  BY <1>2, <1>5, ReplacementIs
<1> HIDE DEF seqs, pieces, text, n
<1>7. /\ Mapped(WordsOf, pieces) = FlattenSeq([i \in DOMAIN seqs |-> Mapped(WordsOf, seqs[i])])
      /\ Mapped(TailOf, pieces) = FlattenSeq([i \in DOMAIN seqs |-> Mapped(TailOf, seqs[i])])
  <2>1. FlatMapped(WordsOf, seqs) /\ FlatMapped(TailOf, seqs)
    BY <1>5, WordsTyped, MappedFlat
  <2>2. QED
    BY <1>2, <2>1, Zenon DEF FlatMapped
<1>8. \A k \in 1 .. n : /\ Mapped(WordsOf, seqs[k]) = items[k].characters
                        /\ Mapped(TailOf, seqs[k]) = TailOfItem(items[k])
  BY <1>1, <1>5, PiecesReplace
<1>9. [i \in DOMAIN seqs |-> Mapped(WordsOf, seqs[i])] = [i \in DOMAIN items |-> items[i].characters]
  BY <1>1, <1>5, <1>8
<1>10. [i \in DOMAIN seqs |-> Mapped(TailOf, seqs[i])] = [i \in DOMAIN items |-> TailOfItem(items[i])]
  BY <1>1, <1>5, <1>8
<1>11. AtOnce(items) = Does(<<>>, FlattenSeq([i \in DOMAIN items |-> items[i].characters]),
                                  FlattenSeq([i \in DOMAIN items |-> TailOfItem(items[i])]))
  BY DEF AtOnce, TailOfItem
<1>12. AtOnce(items) = Does(<<>>, Mapped(WordsOf, pieces), Mapped(TailOf, pieces))
  BY <1>7, <1>9, <1>10, <1>11, Zenon
<1> DEFINE r == ParseReplacement(text)
<1>13. r.ok = TRUE /\ r.text = Mapped(WordsOf, pieces) /\ r.tail = Mapped(TailOf, pieces)
  BY <1>6 DEF Replacement
<1> HIDE DEF r
<1>14. Text(r) = AtOnce(items) /\ r.ok
  BY <1>12, <1>13 DEF Text
<1>15. QED
  BY <1>14 DEF r, text

(* Something is said.                                                      *)
LEMMA SaysSomething ==
  ASSUME NEW items \in Seq(Items), items # <<>>, \A i \in DOMAIN items : Replacing(items[i])
  PROVE  ~(/\ ParseReplacement(RenderItems(items)).text = <<>>
           /\ ParseReplacement(RenderItems(items)).tail = <<>>)
<1> DEFINE n == Len(items)
           texts == [i \in DOMAIN items |-> items[i].characters]
           tails == [i \in DOMAIN items |-> TailOfItem(items[i])]
           r == ParseReplacement(RenderItems(items))
<1>1. n \in Nat /\ DOMAIN items = 1 .. n /\ 1 \in 1 .. n
      /\ \A k \in 1 .. n : items[k] \in Items /\ Replacing(items[k])
  OBVIOUS
<1>2. r.text = FlattenSeq(texts) /\ r.tail = FlattenSeq(tails)
  <2>1. Text(r) = AtOnce(items)
    BY ReplacementParsed
  <2> HIDE DEF r
  <2>2. Does(<<>>, r.text, r.tail) = Does(<<>>, FlattenSeq(texts), FlattenSeq(tails))
    BY <2>1 DEF Text, AtOnce, TailOfItem
  <2>3. QED
    BY <2>2 DEF Does
<1>3. \A k \in 1 .. n : items[k].characters \in Seq(Chars) /\ TailOfItem(items[k]) \in Seq(AllParts)
  <2> TAKE k \in 1 .. n
  <2>1. items[k].characters \in Seq(Chars)
    BY <1>1, PiecesReplace
  <2>2. Stroke(items[k]) \in AllParts
    BY <1>1 DEF AllParts
  <2>3. << Stroke(items[k]) >> \in Seq(AllParts) /\ <<>> \in Seq(AllParts)
    BY <2>2, TuplesTyped
  <2>4. QED
    BY <2>1, <2>3 DEF TailOfItem
<1> HIDE DEF n, r
<1>4. texts \in Seq(Seq(Chars)) /\ texts # <<>> /\ texts[1] = items[1].characters
  <2>1. texts = [k \in 1 .. n |-> items[k].characters]
    BY <1>1
  <2>2. texts \in [1 .. n -> Seq(Chars)] /\ texts[1] = items[1].characters
    BY <1>1, <1>3, <2>1
  <2> HIDE DEF texts
  <2>3. QED
    BY <1>1, <2>2
<1>5. tails \in Seq(Seq(AllParts)) /\ tails # <<>> /\ tails[1] = TailOfItem(items[1])
  <2>1. tails = [k \in 1 .. n |-> TailOfItem(items[k])]
    BY <1>1
  <2>2. tails \in [1 .. n -> Seq(AllParts)] /\ tails[1] = TailOfItem(items[1])
    BY <1>1, <1>3, <2>1
  <2> HIDE DEF tails
  <2>3. QED
    BY <1>1, <2>2
<1> HIDE DEF texts, tails
<1>6. CASE IsTyped(items[1])
  <2>1. texts[1] # <<>>
    BY <1>4, <1>6 DEF IsTyped
  <2>2. FlattenSeq(texts) # <<>>
    BY <1>4, <2>1, NotEmpty
  <2>3. QED
    BY <1>2, <2>2 DEF r
<1>7. CASE IsPressed(items[1])
  <2>1. tails[1] = << Stroke(items[1]) >>
    BY <1>5, <1>7 DEF TailOfItem, IsPressed
  <2>2. FlattenSeq(tails) # <<>>
    BY <1>5, <2>1, NotEmpty, Tuples
  <2>3. QED
    BY <1>2, <2>2 DEF r
<1>8. QED
  BY <1>1, <1>6, <1>7, EitherItem

(* An empty text is an empty replacement.                                  *)
LEMMA NothingSaid == ParseReplacement(<<>>) = Replacement(<<>>, <<>>)
<1>1. <<>> \in Seq(Tokens) /\ Len(<<>>) + 1 = 1
  OBVIOUS
<1>2. PICK c : CutsAll(c, <<>>)
  BY <1>1, CutTyped
<1>3. Pieces(<<>>) = <<>>
  BY <1>1, <1>2 DEF CutsAll
<1>4. Pieces(<<>>) \in Seq(ReplacePieces)
  <2>1. <<>> \in Seq(ReplacePieces)
    OBVIOUS
  <2>2. QED
    BY <1>3, <2>1, Zenon
<1>5. QED
  BY <1>3, <1>4, ReplacementIs, MappedNone

----------------------------------------------------------------------------
(* Lines of text.                                                          *)
Replacings == {item \in Items : Replacing(item)}

LEMMA SayingReplaces ==
  ASSUME NEW items, IsSaying(items), Replaceable(items)
  PROVE  /\ items \in Seq(Replacings) /\ items \in Seq(Items) /\ items # <<>>
         /\ \A i \in DOMAIN items : Replacing(items[i])
<1>1. items \in Seq(Items) /\ items # <<>>
  BY SayingTyped
<1>2. \A i \in DOMAIN items : Replacing(items[i])
  BY DEF Replaceable, Replacing
<1> DEFINE n == Len(items)
<1>3. n \in Nat /\ items = [i \in 1 .. n |-> items[i]] /\ \A i \in 1 .. n : items[i] \in Replacings
  BY <1>1, <1>2 DEF Replacings
<1> HIDE DEF n
<1>4. items \in [1 .. n -> Replacings]
  BY <1>3
<1>5. items \in Seq(Replacings)
  BY <1>3, <1>4
<1>6. QED
  BY <1>1, <1>2, <1>5

Break == Typed(<<"newline">>)
LEMMA BreakIs ==
  /\ Break \in Replacings /\ <<Break>> \in Seq(Replacings)
  /\ Mapped(Rendered, <<Break>>) = <<"newline">>
<1> DEFINE nl == "newline"
<1>1. nl \in Chars /\ nl \notin Escapable
  <2>1. nl \in Chars
    BY DEF Chars
  <2>2. nl \notin Escapable
    BY Zenon DEF Escapable
  <2>3. QED
    BY <2>1, <2>2
<1>2. Braced[nl] = <<nl>>
  BY <1>1, Zenon DEF Braced
<1> HIDE DEF nl
<1>3. <<nl>> \in Seq(Chars) /\ <<nl>> # <<>>
  BY <1>1, TuplesTyped, Tuples
<1>4. Break = Typed(<<nl>>) /\ Break \in Items
  <2> DEFINE c == <<nl>>
  <2>1. c \in Seq(Chars) \ { <<>> }
    BY <1>3
  <2>2. Break = Typed(c)
    BY Zenon DEF Break, nl
  <2> HIDE DEF c
  <2>3. Typed(c) \in Items
    BY <2>1 DEF Items
  <2>4. QED
    BY <2>2, <2>3 DEF c
<1>5. IsText(Break) /\ Break.characters = <<nl>>
  BY <1>4 DEF Typed, IsText
<1>6. IsTyped(Break)
  BY <1>3, <1>5 DEF IsTyped
<1>7. Mapped(Braced, <<nl>>) = Braced[nl]
  BY <1>1, BracedTyped, MappedOne
<1>8. RenderItem(Break) = <<nl>>
  BY <1>2, <1>5, <1>6, <1>7, RenderTyped
<1>9. Break \in Replacings
  BY <1>4, <1>5 DEF Replacings, Replacing
<1>10. Mapped(Rendered, <<Break>>) = Rendered[Break]
  BY <1>4, RenderedTyped, MappedOne
<1>11. QED
  BY <1>4, <1>8, <1>9, <1>10, TuplesTyped, RenderedSome DEF nl

TextLines(body) == [i \in DOMAIN body |-> Line("text", RenderItems(body[i].says))]
AllTexts(body) ==
    /\ IsList(body) /\ Len(body) > 0
    /\ \A i \in DOMAIN body : IsSaying(body[i].says) /\ Replaceable(body[i].says)

LEMMA LinesJoined ==
  ASSUME NEW body, AllTexts(body)
  PROVE  /\ JoinedLines(TextLines(body)) = RenderItems(OneText(body))
         /\ OneText(body) \in Seq(Items) /\ OneText(body) # <<>>
         /\ \A i \in DOMAIN OneText(body) : Replacing(OneText(body)[i])
<1> DEFINE n == Len(body)
           before(i) == IF i = 1 THEN <<>> ELSE <<Break>>
           gap(i) == IF i = 1 THEN <<>> ELSE <<"newline">>
           seqs == [i \in DOMAIN body |-> before(i) \o body[i].says]
           text == FlattenSeq(seqs)
<1>1. n \in Nat /\ n >= 1 /\ DOMAIN body = 1 .. n
  <2>1. n \in Nat /\ n > 0 /\ body = [i \in 1 .. n |-> body[i]]
    BY DEF AllTexts, IsList
  <2> HIDE DEF n
  <2>2. QED
    BY <2>1
<1>2. \A i \in 1 .. n : body[i].says \in Seq(Replacings) /\ body[i].says \in Seq(Items)
                        /\ body[i].says # <<>>
  BY <1>1, SayingReplaces DEF AllTexts
<1>3. ASSUME NEW i \in 1 .. n
      PROVE  /\ before(i) \in Seq(Replacings) /\ before(i) \in Seq(Items)
             /\ before(i) \o body[i].says \in Seq(Replacings)
             /\ Mapped(Rendered, before(i) \o body[i].says)
                  = gap(i) \o RenderItems(body[i].says)
  <2> DEFINE b == before(i)
             s == body[i].says
  <2>1. b \in Seq(Replacings)
    <3>1. <<>> \in Seq(Replacings)
      OBVIOUS
    <3>2. QED
      BY <3>1, BreakIs
  <2>2. b \in Seq(Items)
    <3>1. Replacings \subseteq Items
      BY DEF Replacings
    <3> HIDE DEF b
    <3>2. QED
      BY <2>1, <3>1, Wider
  <2>3. Mapped(Rendered, b) = gap(i)
    BY BreakIs, MappedNone
  <2>4. s \in Seq(Replacings) /\ s \in Seq(Items)
    BY <1>2
  <2> HIDE DEF b, s
  <2>5. b \o s \in Seq(Replacings)
    BY <2>1, <2>4
  <2>6. MappedJoin(Rendered, b, s)
    BY <2>2, <2>4, RenderedTyped, MappedBoth
  <2>7. RenderItems(s) = Mapped(Rendered, s)
    BY <2>4, RenderItemsIs
  <2>8. Mapped(Rendered, b \o s) = gap(i) \o RenderItems(s)
    BY <2>3, <2>6, <2>7, Zenon DEF MappedJoin
  <2>9. QED
    BY <2>1, <2>2, <2>5, <2>8 DEF b, s
<1>4. OneText(body) = text
  BY DEF OneText, Break
<1>5. seqs \in [1 .. n -> Seq(Replacings)] /\ \A i \in 1 .. n : seqs[i] = before(i) \o body[i].says
  BY <1>1, <1>3
<1>6. seqs[1] # <<>>
  <2> DEFINE s == body[1].says
  <2>1. 1 \in 1 .. n
    BY <1>1
  <2>2. seqs[1] = <<>> \o s /\ s \in Seq(Items) /\ s # <<>>
    BY <1>2, <1>5, <2>1
  <2> HIDE DEF s, seqs
  <2>3. <<>> \o s = s
    BY <2>2, EmptyBefore
  <2>4. QED
    BY <2>2, <2>3, Zenon
<1> HIDE DEF n, text, before, gap, seqs
<1>7. seqs \in Seq(Seq(Replacings)) /\ seqs # <<>> /\ DOMAIN seqs = 1 .. n
  BY <1>1, <1>5
<1>8. text \in Seq(Replacings) /\ text # <<>>
  BY <1>6, <1>7, FlattenTyped, NotEmpty DEF text
<1>9. Replacings \subseteq Items
  BY DEF Replacings
<1>10. text \in Seq(Items)
  BY <1>8, <1>9, Wider
<1>11. \A i \in DOMAIN text : Replacing(text[i])
  <2>1. \A i \in DOMAIN text : text[i] \in Replacings
    BY <1>8
  <2>2. QED
    BY <2>1 DEF Replacings
<1>12. seqs \in Seq(Seq(Items))
  <2>1. \A i \in 1 .. n : seqs[i] \in Seq(Items)
    <3> TAKE i \in 1 .. n
    <3>1. seqs[i] \in Seq(Replacings)
      BY <1>5
    <3>2. QED
      BY <1>9, <3>1, Wider
  <2>2. seqs = [i \in 1 .. n |-> seqs[i]]
    BY <1>5
  <2>3. seqs \in [1 .. n -> Seq(Items)]
    BY <2>1, <2>2
  <2>4. QED
    BY <1>1, <2>3
<1>13. FlatMapped(Rendered, seqs)
  BY <1>12, RenderedTyped, MappedFlat
<1>14. RenderItems(text) = Mapped(Rendered, text)
  BY <1>10, RenderItemsIs
<1>15. RenderItems(text) = FlattenSeq([i \in DOMAIN seqs |-> Mapped(Rendered, seqs[i])])
  BY <1>13, <1>14, Zenon DEF FlatMapped, text
<1> DEFINE lines == TextLines(body)
<1>16. DOMAIN lines = 1 .. n /\ \A i \in 1 .. n : lines[i].text = RenderItems(body[i].says)
  BY <1>1 DEF TextLines, Line
<1> HIDE DEF lines
<1>17. JoinedLines(lines) = FlattenSeq([i \in DOMAIN lines |-> gap(i) \o lines[i].text])
  BY DEF JoinedLines, gap
<1>18. [i \in DOMAIN lines |-> gap(i) \o lines[i].text]
         = [i \in DOMAIN seqs |-> Mapped(Rendered, seqs[i])]
  <2>1. \A i \in 1 .. n : gap(i) \o lines[i].text = Mapped(Rendered, seqs[i])
    <3> TAKE i \in 1 .. n
    <3>1. Mapped(Rendered, before(i) \o body[i].says) = gap(i) \o RenderItems(body[i].says)
      BY <1>3
    <3>2. QED
      BY <1>5, <1>16, <3>1, Zenon
  <2>2. QED
    BY <1>7, <1>16, <2>1
<1>19. JoinedLines(lines) = RenderItems(text)
  BY <1>15, <1>17, <1>18, Zenon
<1>20. QED
  BY <1>4, <1>8, <1>10, <1>11, <1>19 DEF lines

----------------------------------------------------------------------------
(* Triggers.                                                               *)
TriggerKeys(t) == [i \in DOMAIN t.keys |-> KeyOf(t.keys[i])]
TriggerMods(t) == {Modifiers[t.mod[i]] : i \in DOMAIN t.mod}

LEMMA KeysParsed ==
  ASSUME NEW keys, keys \in Seq(DOMAIN Layout) \/ keys \in {<<k>> : k \in DOMAIN Specials}
  PROVE  /\ ParseKeys(keys) = [ok |-> TRUE, keys |-> [i \in DOMAIN keys |-> KeyOf(keys[i])]]
         /\ keys \in Seq(Tokens) /\ \A i \in DOMAIN keys : keys[i] # "&"
<1>1. DOMAIN Layout \cap DOMAIN Specials = {} /\ "&" \notin DOMAIN Layout /\ "&" \notin DOMAIN Specials
  BY NamesOfKeys DEF Marks
<1>2. DOMAIN Layout \subseteq Tokens /\ DOMAIN Specials \subseteq Tokens
  BY DEF Tokens
<1>3. CASE keys \in Seq(DOMAIN Layout)
  <2>1. \A i \in DOMAIN keys : keys[i] \in DOMAIN Layout
    BY <1>3
  <2>2. ~(Len(keys) = 1 /\ keys[1] \in DOMAIN Specials)
    <3>1. Len(keys) = 1 => 1 \in DOMAIN keys
      BY <1>3
    <3>2. QED
      BY <1>1, <2>1, <3>1
  <2>3. [i \in DOMAIN keys |-> Layout[keys[i]]] = [i \in DOMAIN keys |-> KeyOf(keys[i])]
    BY <2>1 DEF KeyOf
  <2>4. ParseKeys(keys) = [ok |-> TRUE, keys |-> [i \in DOMAIN keys |-> Layout[keys[i]]]]
    BY <2>1, <2>2, Zenon DEF ParseKeys
  <2>5. keys \in Seq(Tokens)
    BY <1>2, <1>3, Wider
  <2>6. QED
    BY <1>1, <2>1, <2>3, <2>4, <2>5
<1>4. ASSUME NEW k \in DOMAIN Specials, keys = <<k>>
      PROVE  /\ ParseKeys(keys) = [ok |-> TRUE, keys |-> [i \in DOMAIN keys |-> KeyOf(keys[i])]]
             /\ keys \in Seq(Tokens) /\ \A i \in DOMAIN keys : keys[i] # "&"
  <2>1. Len(keys) = 1 /\ keys[1] = k /\ DOMAIN keys = 1 .. 1 /\ \A i \in 1 .. 1 : i = 1
    BY <1>4
  <2>2. ParseKeys(keys) = [ok |-> TRUE, keys |-> << Specials[k] >>]
    BY <2>1, Zenon DEF ParseKeys
  <2>3. KeyOf(k) = Specials[k]
    BY <1>1 DEF KeyOf
  <2>4. << Specials[k] >> = [i \in DOMAIN keys |-> KeyOf(keys[i])]
    <3> DEFINE s == Specials[k]
    <3> HIDE DEF s
    <3>1. <<s>> = [i \in 1 .. 1 |-> s]
      OBVIOUS
    <3>2. [i \in DOMAIN keys |-> KeyOf(keys[i])] = [i \in 1 .. 1 |-> s]
      BY <2>1, <2>3 DEF s
    <3>3. QED
      BY <3>1, <3>2 DEF s
  <2>5. keys \in Seq(Tokens)
    BY <1>2, <1>4, TuplesTyped
  <2>6. QED
    BY <1>1, <2>1, <2>2, <2>4, <2>5
<1>5. QED
  BY <1>3, <1>4

IsOne(a) == Len(a) = 1
LEMMA PushPair ==
  ASSUME NEW S, NEW a \in Seq(S), IsOne(a), NEW y \in S
  PROVE  Append(a, y) \in Seq(S) /\ Len(Append(a,y)) = 2 /\ Append(a,y)[2] = y /\ Append(a,y)[1] = a[1]
<1> DEFINE b == Append(a, y)
           n == Len(a)
<1>1. b \in Seq(S) /\ Len(b) = n + 1 /\ b[n + 1] = y /\ \A k \in 1 .. n : b[k] = a[k]
  BY PushTyped
<1>2. n = 1
  BY DEF IsOne
<1> HIDE DEF b, n
<1>3. n + 1 = 2 /\ 1 \in 1 .. n
  BY <1>2
<1>4. QED
  BY <1>1, <1>3, Zenon DEF b

LEMMA PairIs ==
  ASSUME NEW x, NEW y
  PROVE  Append(<<x>>, y) = <<x, y>>
<1> DEFINE S == {x, y}
           a == <<x>>
           b == Append(a, y)
           h == <<x, y>>
<1>1. a \in Seq(S) /\ Len(a) = 1 /\ a[1] = x /\ a # <<>>
  OBVIOUS
<1>2. h \in Seq(S) /\ Len(h) = 2 /\ h[1] = x /\ h[2] = y
  OBVIOUS
<1>3. y \in S
  OBVIOUS
<1> HIDE DEF S, a, h
<1>4. b \in Seq(S) /\ Len(b) = 2 /\ b[2] = y /\ b[1] = a[1]
  BY <1>1, <1>3, PushPair DEF IsOne
<1> HIDE DEF b
<1>5. \A k \in 1 .. 2 : k = 1 \/ k = 2
  OBVIOUS
<1>6. b = h
  BY <1>1, <1>2, <1>4, <1>5, SameSequence
<1>7. QED
  BY <1>6 DEF a, b, h

(* parse_trigger_expr: the header of a trigger, in the form of a text or a *)
(* hotkey with or without a modifier, gives its keys and its modifier.     *)
THEOREM TriggerParsed ==
  ASSUME NEW t, IsTrigger(t), NEW text
  PROVE  TriggerOf(RenderTrigger(t, text)) = Trigger(TRUE, TriggerKeys(t), TriggerMods(t))
<1> DEFINE keys == t.keys
           expr == (IF t.mod = <<>> THEN <<>> ELSE Append(t.mod, "&")) \o t.keys
           n == Len(keys)
           amp == "&"
<1>1. /\ ParseKeys(keys) = [ok |-> TRUE, keys |-> TriggerKeys(t)]
      /\ keys \in Seq(Tokens) /\ \A i \in DOMAIN keys : keys[i] # amp
  BY KeysParsed DEF IsTrigger, TriggerKeys
<1>2. TriggerOf(RenderTrigger(t, text)) = ParseTrigger(expr)
  BY DEF TriggerOf, RenderTrigger, Header, IsTrigger
<1>3. n \in Nat /\ DOMAIN keys = 1 .. n
  BY <1>1
<1>4. CASE t.mod = <<>>
  <2>1. expr = keys
    <3>1. expr = <<>> \o keys
      BY <1>4
    <3> HIDE DEF expr
    <3>2. <<>> \o keys = keys
      BY <1>1, EmptyBefore
    <3>3. QED
      BY <3>1, <3>2, Zenon
  <2> HIDE DEF expr, keys, n, amp
  <2>2. \A i \in 1 .. Len(keys) : keys[i] # amp
    BY <1>1, <1>3 DEF n
  <2>3. FindLast(keys, amp) = 0
    BY <1>3, <2>2, FindLastNone DEF n
  <2>4. Find(keys, amp, 1) = 0
    BY <1>3, <2>2, FindNone DEF n
  <2>5. SubSeq(keys, 0 + 1, Len(keys)) = keys
    BY <1>1
  <2>6. Len(SubSeq(keys, 1, 0 - 1)) # 1
    BY <1>1
  <2>7. TriggerMods(t) = {}
    BY <1>4 DEF TriggerMods
  <2> DEFINE m == SubSeq(keys, 1, 0 - 1)
  <2>8. ParseTrigger(keys) = Trigger(ParseKeys(keys).ok /\ ~KeyIsAmpersand(keys),
           ParseKeys(keys).keys,
           IF Len(m) = 1 /\ m[1] \in DOMAIN Modifiers THEN {Modifiers[m[1]]} ELSE {})
    BY <2>3, <2>4, <2>5, Zenon DEF ParseTrigger, amp
  <2> HIDE DEF m
  <2>9. (ParseKeys(keys).ok /\ ~KeyIsAmpersand(keys)) = TRUE
        /\ ParseKeys(keys).keys = TriggerKeys(t)
    <3>1. ParseKeys(keys).ok = TRUE /\ ParseKeys(keys).keys = TriggerKeys(t)
      BY <1>1
    <3>2. ~KeyIsAmpersand(keys)
      BY <1>3, <2>2 DEF KeyIsAmpersand, amp, n
    <3>3. QED
      BY <3>1, <3>2
  <2>10. ParseTrigger(keys) = Trigger(TRUE, TriggerKeys(t), {})
    BY <2>6, <2>8, <2>9, Zenon DEF m
  <2>11. QED
    BY <1>2, <2>1, <2>7, <2>10
<1>5. ASSUME NEW m \in DOMAIN Modifiers, t.mod = <<m>>
      PROVE  TriggerOf(RenderTrigger(t, text)) = Trigger(TRUE, TriggerKeys(t), TriggerMods(t))
  <2>0. amp \notin DOMAIN Modifiers
    BY NamesOfModifiers
  <2> HIDE DEF amp
  <2>1. m # amp /\ m \in Tokens /\ amp \in Tokens
    <3>1. m # amp
      BY <2>0
    <3>2. m \in Tokens
      BY DEF Tokens
    <3>3. amp \in Tokens
      BY DEF Tokens, Marks, amp
    <3>4. QED
      BY <3>1, <3>2, <3>3
  <2> DEFINE h == <<m, amp>>
  <2>2. expr = h \o keys
    <3>1. <<m>> # <<>> /\ Append(<<m>>, amp) = h
      <4>1. <<m>> # <<>>
        OBVIOUS
      <4>2. QED
        BY <4>1, PairIs
    <3>2. QED
      BY <1>5, <3>1 DEF amp
  <2>3. h \in Seq(Tokens) /\ Len(h) = 2 /\ h[1] = m /\ h[2] = amp
    BY <2>1
  <2> HIDE DEF h, expr, keys, n
  <2>4. expr \in Seq(Tokens) /\ Juxtaposed(expr, h, keys)
    BY <1>1, <2>2, <2>3, Concat
  <2>5. /\ Len(expr) = 2 + n /\ expr[1] = m /\ expr[2] = amp
        /\ \A i \in 1 .. n : expr[2 + i] = keys[i]
    <3>1. 1 \in 1 .. 2 /\ 2 \in 1 .. 2
      OBVIOUS
    <3>2. QED
      BY <2>3, <2>4, <3>1 DEF Juxtaposed, n
  <2>6. FindLast(expr, amp) = 2
    <3>1. \A i \in 2 + 1 .. Len(expr) : expr[i] # amp
      <4> TAKE i \in 2 + 1 .. Len(expr)
      <4>1. i - 2 \in 1 .. n /\ 2 + (i - 2) = i
        BY <1>3, <2>5
      <4>2. expr[2 + (i - 2)] = keys[i - 2] /\ keys[i - 2] # amp
        BY <1>1, <1>3, <2>5, <4>1
      <4>3. QED
        BY <4>1, <4>2
    <3>2. 2 \in 1 .. Len(expr) /\ Len(expr) \in Nat
      BY <1>3, <2>5
    <3>3. QED
      BY <2>5, <3>1, <3>2, FindLastIs
  <2>7. Find(expr, amp, 1) = 2
    <3>1. \A i \in 1 .. 2 - 1 : i = 1
      OBVIOUS
    <3>2. \A i \in 1 .. 2 - 1 : expr[i] # amp
      BY <2>1, <2>5, <3>1
    <3>3. 2 \in 1 .. Len(expr) /\ Len(expr) \in Nat /\ 1 \in Nat
      BY <1>3, <2>5
    <3>4. QED
      BY <2>5, <3>2, <3>3, FindIs
  <2>8. SubSeq(expr, 2 + 1, Len(expr)) = keys
    <3> DEFINE s == SubSeq(expr, 3, Len(expr))
    <3>1. s \in Seq(Tokens) /\ Len(s) = n
      BY <1>3, <2>4, <2>5
    <3>2. \A i \in 1 .. n : s[i] = expr[2 + i]
      BY <1>3, <2>4, <2>5
    <3> HIDE DEF s
    <3>3. \A i \in 1 .. n : s[i] = keys[i]
      BY <2>5, <3>2
    <3>4. s = keys
      BY <1>1, <3>1, <3>3, SameSequence DEF n
    <3>5. 2 + 1 = 3
      OBVIOUS
    <3>6. QED
      BY <3>4, <3>5, Zenon DEF s
  <2>9. SubSeq(expr, 1, 2 - 1) = <<m>>
    <3>1. 1 \in 1 .. Len(expr) /\ 2 - 1 = 1
      BY <1>3, <2>5
    <3>2. SubSeq(expr, 1, 1) = << expr[1] >>
      BY <2>4, <3>1, SubSeqOne
    <3>3. QED
      BY <2>5, <3>1, <3>2, Zenon
  <2>10. Len(<<m>>) = 1 /\ <<m>>[1] = m
    OBVIOUS
  <2>11. ParseTrigger(expr) = Trigger(ParseKeys(keys).ok /\ ~KeyIsAmpersand(expr),
           ParseKeys(keys).keys,
           IF Len(<<m>>) = 1 /\ <<m>>[1] \in DOMAIN Modifiers THEN {Modifiers[<<m>>[1]]} ELSE {})
    BY <2>6, <2>7, <2>8, <2>9, Zenon DEF ParseTrigger, amp
  <2>12. (ParseKeys(keys).ok /\ ~KeyIsAmpersand(expr)) = TRUE
         /\ ParseKeys(keys).keys = TriggerKeys(t)
    <3>1. ParseKeys(keys).ok = TRUE /\ ParseKeys(keys).keys = TriggerKeys(t)
      BY <1>1
    <3>2. ~KeyIsAmpersand(expr)
      <4>1. CASE n = 0
        <5>1. Len(expr) = 2 /\ expr[1] # amp
          BY <1>3, <2>1, <2>5, <4>1
        <5>2. QED
          BY <5>1 DEF KeyIsAmpersand, amp
      <4>2. CASE n # 0
        <5>1. n \in 1 .. n /\ Len(expr) = 2 + n
          BY <1>3, <2>5, <4>2
        <5>2. expr[2 + n] = keys[n] /\ keys[n] # amp
          BY <1>1, <1>3, <2>5, <5>1
        <5>3. QED
          BY <5>1, <5>2 DEF KeyIsAmpersand, amp
      <4>3. QED
        BY <4>1, <4>2
    <3>3. QED
      BY <3>1, <3>2
  <2>13. ParseTrigger(expr) = Trigger(TRUE, TriggerKeys(t), {Modifiers[m]})
    BY <2>10, <2>11, <2>12, Zenon
  <2>14. TriggerMods(t) = {Modifiers[m]}
    <3>1. DOMAIN <<m>> = {1}
      OBVIOUS
    <3>2. TriggerMods(t) = {Modifiers[<<m>>[i]] : i \in {1}}
      BY <1>5, <3>1 DEF TriggerMods
    <3>3. QED
      BY <2>10, <3>2
  <2>15. QED
    BY <1>2, <2>13, <2>14
<1>6. t.mod = <<>> \/ \E m \in DOMAIN Modifiers : t.mod = <<m>>
  BY DEF IsTrigger
<1>7. QED
  BY <1>4, <1>5, <1>6

----------------------------------------------------------------------------
(* Statements within statements.                                           *)
Lower(n) == UNION {Levels[m] : m \in 1 .. n}

LEMMA LevelsListed ==
  /\ Len(Levels) \in Nat /\ DOMAIN Levels = 1 .. Len(Levels) /\ AllIfs = Lower(Len(Levels))
  /\ \A n \in 1 .. Len(Levels) : \A if \in Levels[n] : IsIf(if, Lower(n - 1))
<1> DEFINE N == Len(Levels)
<1>1. N \in Nat /\ Levels = [i \in 1 .. N |-> Levels[i]]
  BY LevelsAssumption DEF IsList
<1>2. DOMAIN Levels = 1 .. N
  <2> HIDE DEF N
  <2> QED BY <1>1
<1>3. AllIfs = Lower(N)
  BY <1>2 DEF AllIfs, Lower
<1>4. QED
  BY <1>1, <1>2, <1>3, LevelsAssumption DEF Lower

LEMMA LowerGrows ==
  ASSUME NEW n \in 1 .. Len(Levels)
  PROVE  /\ Lower(n) = Lower(n - 1) \cup Levels[n] /\ Lower(n - 1) \subseteq AllIfs
         /\ Lower(0) = {} /\ Levels[n] \subseteq AllIfs
<1> DEFINE N == Len(Levels)
<1>1. N \in Nat /\ AllIfs = Lower(N)
  BY LevelsListed
<1> HIDE DEF N
<1>2. n \in 1 .. N
  BY DEF N
<1>3. 1 .. n = (1 .. n - 1) \cup {n} /\ 1 .. n - 1 \subseteq 1 .. N /\ 1 .. 0 = {}
  BY <1>1, <1>2
<1>4. QED
  BY <1>1, <1>2, <1>3 DEF Lower

(* What holds of an If when it holds of those in it holds of all.          *)
LEMMA LevelByLevel ==
  ASSUME NEW G,
         \A if \in AllIfs, lower \in SUBSET AllIfs :
             IsIf(if, lower) /\ lower \subseteq G => if \in G
  PROVE  AllIfs \subseteq G
<1> DEFINE N == Len(Levels)
           P == {n \in 0 .. N : Lower(n) \subseteq G}
<1>1. N \in Nat /\ AllIfs = Lower(N)
  BY LevelsListed
<1>2. 0 \in P
  <2>1. Lower(0) = {}
    BY DEF Lower
  <2>2. QED
    BY <1>1, <2>1
<1>3. ASSUME NEW n \in 1 .. N, n - 1 \in P PROVE n \in P
  <2>1. Lower(n) = Lower(n - 1) \cup Levels[n] /\ Lower(n - 1) \subseteq AllIfs
        /\ Levels[n] \subseteq AllIfs
    BY LowerGrows
  <2>2. ASSUME NEW if \in Levels[n] PROVE if \in G
    <3>1. IsIf(if, Lower(n - 1)) /\ if \in AllIfs
      BY <2>1, LevelsListed
    <3>2. Lower(n - 1) \subseteq G /\ Lower(n - 1) \in SUBSET AllIfs
      BY <1>3, <2>1
    <3>3. QED
      BY <3>1, <3>2
  <2>3. n \in 0 .. N /\ Lower(n - 1) \subseteq G
    BY <1>1, <1>3
  <2>4. QED
    BY <2>1, <2>2, <2>3
<1>4. N \in P
  <2> HIDE DEF P
  <2>1. \A n \in 0 .. N : n \in P
    BY <1>1, <1>2, <1>3, UpTo
  <2>2. QED
    BY <1>1, <2>1
<1>5. QED
  BY <1>1, <1>4

RenderIf(if, b) ==
    LaidOut(if.then, b) \o
        (IF if.else = <<>> THEN PlainLines(<<"close">>)
         ELSE Between(if.style) \o
            (IF if.style \in {"chained", "below"} THEN b[if.else[1]]
             ELSE LaidOut(if.else, b) \o PlainLines(<<"close">>)))
TreeIf(if, t) == If(Grown(if.then, t), Grown(if.else, t))

SameIn(f, g, ifs) == \A x \in ifs : f[x] = g[x]

LEMMA LaidOutSame ==
  ASSUME NEW body, NEW ifs, IsBody(body, ifs), NEW f, NEW g, SameIn(f, g, ifs)
  PROVE  LaidOut(body, f) = LaidOut(body, g) /\ Grown(body, f) = Grown(body, g)
<1>1. \A i \in DOMAIN body : IsSend(body[i]) \/ f[body[i]] = g[body[i]]
  BY DEF IsBody, SameIn
<1> DEFINE a(i) == << Line("command", <<"sendinput">> \o RenderItems(body[i].says)) >>
           o(i) == Opening(body[i])
           s(i) == Send(Strokes(body[i].says))
<1>2. LaidOut(body, f) = FlattenSeq([i \in DOMAIN body |-> IF IsSend(body[i]) THEN a(i) ELSE o(i) \o f[body[i]]])
      /\ LaidOut(body, g) = FlattenSeq([i \in DOMAIN body |-> IF IsSend(body[i]) THEN a(i) ELSE o(i) \o g[body[i]]])
  BY DEF LaidOut
<1>3. Grown(body, f) = [i \in DOMAIN body |-> IF IsSend(body[i]) THEN s(i) ELSE f[body[i]]]
      /\ Grown(body, g) = [i \in DOMAIN body |-> IF IsSend(body[i]) THEN s(i) ELSE g[body[i]]]
  BY DEF Grown
<1> HIDE DEF a, o, s
<1>4. [i \in DOMAIN body |-> IF IsSend(body[i]) THEN a(i) ELSE o(i) \o f[body[i]]]
        = [i \in DOMAIN body |-> IF IsSend(body[i]) THEN a(i) ELSE o(i) \o g[body[i]]]
  BY <1>1
<1>5. [i \in DOMAIN body |-> IF IsSend(body[i]) THEN s(i) ELSE f[body[i]]]
        = [i \in DOMAIN body |-> IF IsSend(body[i]) THEN s(i) ELSE g[body[i]]]
  BY <1>1
<1>6. QED
  BY <1>2, <1>3, <1>4, <1>5, Zenon

SameIf(if, f, g) == RenderIf(if, f) = RenderIf(if, g) /\ TreeIf(if, f) = TreeIf(if, g)
LEMMA IfSame ==
  ASSUME NEW if, NEW ifs, IsIf(if, ifs), NEW f, NEW g, SameIn(f, g, ifs)
  PROVE  SameIf(if, f, g)
<1>1. /\ LaidOut(if.then, f) = LaidOut(if.then, g) /\ Grown(if.then, f) = Grown(if.then, g)
      /\ LaidOut(if.else, f) = LaidOut(if.else, g) /\ Grown(if.else, f) = Grown(if.else, g)
  BY LaidOutSame DEF IsIf
<1>2. if.else # <<>> /\ if.style \in {"chained", "below"} => f[if.else[1]] = g[if.else[1]]
  BY DEF IsIf, SameIn
<1>3. TreeIf(if, f) = TreeIf(if, g)
  BY <1>1, Zenon DEF TreeIf
<1>4. RenderIf(if, f) = RenderIf(if, g)
  <2>1. CASE if.else = <<>>
    BY <1>1, <2>1, Zenon DEF RenderIf
  <2>2. CASE if.else # <<>> /\ if.style \in {"chained", "below"}
    BY <1>1, <1>2, <2>2, Zenon DEF RenderIf
  <2>3. CASE if.else # <<>> /\ if.style \notin {"chained", "below"}
    BY <1>1, <2>3, Zenon DEF RenderIf
  <2>4. QED
    BY <2>1, <2>2, <2>3
<1>5. QED
  BY <1>3, <1>4 DEF SameIf

LEMMA TreesExist ==
  \E f, g : /\ f = [if \in AllIfs |-> RenderIf(if, f)]
            /\ g = [if \in AllIfs |-> TreeIf(if, g)]
<1> DEFINE N == Len(Levels)
           Lists(f) == f = [if \in AllIfs |-> f[if]]
           Good(f, g, n) == \A if \in Lower(n) : f[if] = RenderIf(if, f) /\ g[if] = TreeIf(if, g)
           P == {n \in 0 .. N : \E f, g : Lists(f) /\ Lists(g) /\ Good(f, g, n)}
<1>1. N \in Nat /\ AllIfs = Lower(N)
  BY LevelsListed
<1>2. 0 \in P
  <2>1. Lower(0) = {}
    BY DEF Lower
  <2> DEFINE e == [if \in AllIfs |-> <<>>]
  <2>2. Lists(e)
    OBVIOUS
  <2> HIDE DEF e
  <2>3. Good(e, e, 0) /\ 0 \in 0 .. N
    BY <1>1, <2>1
  <2>4. QED
    BY <2>2, <2>3
<1>3. ASSUME NEW n \in 1 .. N, n - 1 \in P PROVE n \in P
  <2> DEFINE L == Lower(n - 1)
  <2>1. Lower(n) = L \cup Levels[n] /\ L \subseteq AllIfs /\ Levels[n] \subseteq AllIfs
    BY LowerGrows
  <2>2. PICK f, g : Lists(f) /\ Lists(g) /\ Good(f, g, n - 1)
    BY <1>3
  <2> DEFINE d == [if \in AllIfs |-> IF if \in L THEN f[if] ELSE RenderIf(if, f)]
             e == [if \in AllIfs |-> IF if \in L THEN g[if] ELSE TreeIf(if, g)]
  <2>3. Lists(d) /\ Lists(e)
    OBVIOUS
  <2>4. SameIn(d, f, L) /\ SameIn(e, g, L)
    BY <2>1 DEF SameIn
  <2>5. \A if \in AllIfs : if \notin L => d[if] = RenderIf(if, f) /\ e[if] = TreeIf(if, g)
    OBVIOUS
  <2> HIDE DEF d, e
  <2>6. ASSUME NEW if \in Lower(n) PROVE d[if] = RenderIf(if, d) /\ e[if] = TreeIf(if, e)
    <3>1. PICK ifs \in SUBSET L : IsIf(if, ifs)
      <4>1. CASE if \in L
        <5>1. PICK m \in 1 .. n - 1 : if \in Levels[m]
          BY <4>1 DEF Lower
        <5>2. m \in 1 .. N /\ 1 .. m - 1 \subseteq 1 .. n - 1
          BY <1>1
        <5>3. IsIf(if, Lower(m - 1)) /\ Lower(m - 1) \subseteq L
          BY <5>1, <5>2, LevelsListed DEF Lower
        <5>4. QED
          BY <5>3
      <4>2. CASE if \in Levels[n]
        BY <4>2, LevelsListed
      <4>3. QED
        BY <2>1, <4>1, <4>2
    <3>2. SameIn(d, f, ifs) /\ SameIn(e, g, ifs)
      BY <2>4, <3>1 DEF SameIn
    <3>3. SameIf(if, d, f) /\ SameIf(if, e, g)
      BY <3>1, <3>2, IfSame
    <3>4. CASE if \in L
      <4>1. d[if] = f[if] /\ e[if] = g[if] /\ f[if] = RenderIf(if, f) /\ g[if] = TreeIf(if, g)
        BY <2>2, <2>4, <3>4 DEF SameIn
      <4>2. QED
        BY <3>3, <4>1, Zenon DEF SameIf
    <3>5. CASE if \notin L
      <4>1. d[if] = RenderIf(if, f) /\ e[if] = TreeIf(if, g)
        BY <2>1, <2>5, <3>5
      <4>2. QED
        BY <3>3, <4>1, Zenon DEF SameIf
    <3>6. QED
      BY <3>4, <3>5
  <2>7. n \in 0 .. N
    BY <1>1
  <2>8. Good(d, e, n)
    BY <2>6
  <2>9. QED
    BY <2>3, <2>7, <2>8
<1>4. N \in P
  <2> HIDE DEF P
  <2>1. \A n \in 0 .. N : n \in P
    BY <1>1, <1>2, <1>3, UpTo
  <2>2. QED
    BY <1>1, <2>1
<1>5. PICK f, g : Lists(f) /\ Lists(g) /\ Good(f, g, N)
  BY <1>4
<1>6. f = [if \in AllIfs |-> RenderIf(if, f)]
  <2>1. \A if \in AllIfs : f[if] = RenderIf(if, f)
    BY <1>1, <1>5
  <2> HIDE DEF N, Good
  <2>2. QED
    BY <1>5, <2>1
<1>7. g = [if \in AllIfs |-> TreeIf(if, g)]
  <2>1. \A if \in AllIfs : g[if] = TreeIf(if, g)
    BY <1>1, <1>5
  <2> HIDE DEF N, Good
  <2>2. QED
    BY <1>5, <2>1
<1>8. QED
  BY <1>6, <1>7

(* The branches and the tree of an If, by those of the Ifs in it.          *)
LEMMA BranchesAre ==
  ASSUME NEW if \in AllIfs
  PROVE  RenderBranches[if] = RenderIf(if, RenderBranches)
<1> DEFINE Fits(f) == f = [x \in AllIfs |-> RenderIf(x, f)]
<1>1. \E f : Fits(f)
  BY TreesExist
<1>2. RenderBranches = CHOOSE f : Fits(f)
  BY DEF RenderBranches, RenderIf
<1>3. Fits(RenderBranches)
  <2> HIDE DEF Fits
  <2> QED BY <1>1, <1>2
<1>4. \A x \in AllIfs : RenderBranches[x] = RenderIf(x, RenderBranches)
  <2> DEFINE f == RenderBranches
  <2> HIDE DEF f
  <2>1. f = [x \in AllIfs |-> RenderIf(x, f)]
    BY <1>3 DEF f
  <2>2. \A x \in AllIfs : f[x] = RenderIf(x, f)
    BY <2>1
  <2>3. QED
    BY <2>2 DEF f
<1>5. QED
  BY <1>4

LEMMA TreesAre ==
  ASSUME NEW if \in AllIfs
  PROVE  Trees[if] = TreeIf(if, Trees)
<1> DEFINE Fits(f) == f = [x \in AllIfs |-> TreeIf(x, f)]
<1>1. \E f : Fits(f)
  BY TreesExist
<1>2. Trees = CHOOSE f : Fits(f)
  BY DEF Trees, TreeIf
<1>3. Fits(Trees)
  <2> HIDE DEF Fits
  <2> QED BY <1>1, <1>2
<1>4. \A x \in AllIfs : Trees[x] = TreeIf(x, Trees)
  <2> DEFINE f == Trees
  <2> HIDE DEF f
  <2>1. f = [x \in AllIfs |-> TreeIf(x, f)]
    BY <1>3 DEF f
  <2>2. \A x \in AllIfs : f[x] = TreeIf(x, f)
    BY <2>1
  <2>3. QED
    BY <2>2 DEF f
<1>5. QED
  BY <1>4

----------------------------------------------------------------------------
(* The lines of a body.                                                    *)
BodyKinds ==
    {"command", "if", "ifopen", "open", "close", "else", "elseopen", "elseifopen",
     "closeelse", "closeelseif"}
ElseBehind == {"closeelse", "closeelseif"}
Rest(line) == SubSeq(line.text, 2, Len(line.text))
Texts == Seq(Tokens) \cup {Spelled[k] : k \in DOMAIN Spelled} \cup {Rest(Plain(k)) : k \in ElseBehind}
BodyLines ==
    {Line(k, t) : k \in BodyKinds \ ElseBehind, t \in Texts} \cup {Plain(k) : k \in ElseBehind}
NoteLines == {Plain("note")}

LEMMA LineTyped ==
  ASSUME NEW k \in BodyKinds \ ElseBehind, NEW t \in Texts
  PROVE  Line(k, t) \in BodyLines
  BY DEF BodyLines

LEMMA PlainTyped ==
  ASSUME NEW k \in BodyKinds
  PROVE  Plain(k) \in BodyLines
<1>1. <<>> \in Seq(Tokens)
  OBVIOUS
<1>2. Plain(k) = Line(k, IF k \in DOMAIN Spelled THEN Spelled[k] ELSE <<>>)
  BY DEF Plain
<1>3. (IF k \in DOMAIN Spelled THEN Spelled[k] ELSE <<>>) \in Texts
  BY <1>1 DEF Texts
<1>4. CASE k \in ElseBehind
  BY <1>4 DEF BodyLines
<1>5. CASE k \notin ElseBehind
  <2> DEFINE t == IF k \in DOMAIN Spelled THEN Spelled[k] ELSE <<>>
  <2>1. Plain(k) = Line(k, t) /\ t \in Texts
    BY <1>2, <1>3
  <2> HIDE DEF t
  <2>2. QED
    BY <1>5, <2>1, LineTyped
<1>6. QED
  BY <1>4, <1>5

LEMMA PlainsAre ==
  /\ \A a : PlainLines(<<a>>) = <<Plain(a)>>
  /\ \A a, b : PlainLines(<<a, b>>) = <<Plain(a), Plain(b)>>
  /\ \A a, b, c : PlainLines(<<a, b, c>>) = <<Plain(a), Plain(b), Plain(c)>>
  /\ PlainLines(<<>>) = <<>>
<1>1. ASSUME NEW a PROVE PlainLines(<<a>>) = <<Plain(a)>>
  <2> HIDE DEF Plain
  <2> QED BY DEF PlainLines
<1>2. ASSUME NEW a, NEW b PROVE PlainLines(<<a, b>>) = <<Plain(a), Plain(b)>>
  <2> HIDE DEF Plain
  <2> QED BY DEF PlainLines
<1>3. ASSUME NEW a, NEW b, NEW c PROVE PlainLines(<<a, b, c>>) = <<Plain(a), Plain(b), Plain(c)>>
  <2> HIDE DEF Plain
  <2> QED BY DEF PlainLines
<1>4. PlainLines(<<>>) = <<>>
  BY DEF PlainLines
<1>5. QED
  BY <1>1, <1>2, <1>3, <1>4

CommandLine(says) == Line("command", <<"sendinput">> \o RenderItems(says))
LEMMA CommandTyped ==
  ASSUME NEW says, IsSaying(says)
  PROVE  /\ CommandLine(says) \in BodyLines /\ RenderItems(says) \in Seq(Tokens)
         /\ RenderItems(says) # <<>>
<1>1. says \in Seq(Items) /\ says # <<>>
  BY SayingTyped
<1>2. RenderItems(says) \in Seq(Tokens)
  BY <1>1, RenderItemsTyped
<1>3. "sendinput" \in Tokens
  BY DEF Tokens, Marks
<1>4. <<"sendinput">> \in Seq(Tokens)
  BY <1>3, TuplesTyped
<1> DEFINE r == RenderItems(says)
           c == <<"sendinput">>
<1> HIDE DEF r, c
<1>5. c \o r \in Seq(Tokens)
  BY <1>2, <1>4 DEF r, c
<1>6. CommandLine(says) \in BodyLines
  <2>1. c \o r \in Texts
    BY <1>5 DEF Texts
  <2>2. CommandLine(says) = Line("command", c \o r)
    BY Zenon DEF CommandLine, r, c
  <2>3. "command" \in BodyKinds \ ElseBehind
    BY DEF BodyKinds, ElseBehind
  <2> DEFINE d == c \o r
  <2> HIDE DEF d
  <2>4. Line("command", d) \in BodyLines
    <3>1. d \in Texts
      BY <2>1 DEF d
    <3>2. QED
      BY <2>3, <3>1, LineTyped
  <2>5. QED
    BY <2>2, <2>4 DEF d
<1>7. r # <<>>
  <2>1. HasImages(Rendered, says, Seq(Tokens))
    BY <1>1, RenderedTyped, ImagesTyped
  <2> DEFINE q == Images(Rendered, says)
  <2>2. 1 \in DOMAIN says /\ says[1] \in Items /\ Len(says) # 0
    BY <1>1
  <2>3. q[1] = Rendered[says[1]]
    BY <2>2 DEF Images
  <2> HIDE DEF q
  <2>4. q[1] # <<>>
    BY <2>2, <2>3, RenderedSome
  <2>5. q \in Seq(Seq(Tokens)) /\ Len(q) # 0
    BY <2>1, <2>2 DEF HasImages, q
  <2>6. q # <<>>
    BY <2>5
  <2>7. FlattenSeq(q) # <<>>
    BY <2>4, <2>5, <2>6, NotEmpty
  <2>8. QED
    BY <1>1, <2>7, RenderItemsIs DEF Mapped, q, r
<1>8. QED
  BY <1>2, <1>6, <1>7 DEF r

StatementLines(s) ==
    IF IsSend(s) THEN << CommandLine(s.says) >> ELSE Opening(s) \o RenderBranches[s]
BodySeqs(body) == [i \in DOMAIN body |-> StatementLines(body[i])]

LEMMA LaidOutIs ==
  ASSUME NEW body
  PROVE  LaidOut(body, RenderBranches) = FlattenSeq(BodySeqs(body))
  BY DEF LaidOut, BodySeqs, StatementLines, CommandLine

LEMMA BodyListed ==
  ASSUME NEW body, NEW ifs, IsBody(body, ifs)
  PROVE  /\ Len(body) \in Nat /\ DOMAIN body = 1 .. Len(body)
         /\ DOMAIN BodySeqs(body) = 1 .. Len(body)
         /\ \A i \in 1 .. Len(body) :
               /\ BodySeqs(body)[i] = StatementLines(body[i])
               /\ \/ IsSend(body[i]) /\ IsSaying(body[i].says) /\ Sendable(body[i].says)
                  \/ ~IsSend(body[i]) /\ body[i] \in ifs
<1> DEFINE n == Len(body)
<1>1. n \in Nat /\ body = [i \in 1 .. n |-> body[i]]
  BY DEF IsBody, IsList
<1>2. DOMAIN body = 1 .. n
  <2> HIDE DEF n
  <2> QED BY <1>1
<1>3. \A i \in 1 .. n : \/ IsSend(body[i]) /\ IsSaying(body[i].says) /\ Sendable(body[i].says)
                        \/ ~IsSend(body[i]) /\ body[i] \in ifs
  BY <1>2 DEF IsBody
<1> HIDE DEF n
<1>4. DOMAIN BodySeqs(body) = 1 .. n /\ \A i \in 1 .. n : BodySeqs(body)[i] = StatementLines(body[i])
  BY <1>2 DEF BodySeqs
<1>5. QED
  BY <1>1, <1>2, <1>3, <1>4 DEF n

Branching == {if \in AllIfs : RenderBranches[if] \in Seq(BodyLines)}

LEMMA OpeningIs ==
  ASSUME NEW if
  PROVE  /\ if.style = "own" => Opening(if) = <<Plain("if"), Plain("open")>>
         /\ if.style # "own" => Opening(if) = <<Plain("ifopen")>>
         /\ Opening(if) \in Seq(BodyLines)
<1>1. if.style = "own" => Opening(if) = <<Plain("if"), Plain("open")>>
  BY PlainsAre, Zenon DEF Opening
<1>2. if.style # "own" => Opening(if) = <<Plain("ifopen")>>
  BY PlainsAre, Zenon DEF Opening
<1>3. Plain("if") \in BodyLines /\ Plain("open") \in BodyLines /\ Plain("ifopen") \in BodyLines
  BY PlainTyped DEF BodyKinds
<1>4. <<Plain("if"), Plain("open")>> \in Seq(BodyLines) /\ <<Plain("ifopen")>> \in Seq(BodyLines)
  BY <1>3, TuplesTyped
<1>5. QED
  BY <1>1, <1>2, <1>4, Zenon

LEMMA BetweenIs ==
  /\ Between("own") = <<Plain("close"), Plain("else"), Plain("open")>>
  /\ Between("inline") = <<Plain("closeelse")>>
  /\ Between("chained") = <<Plain("closeelseif")>>
  /\ Between("below") = <<Plain("close"), Plain("elseifopen")>>
  /\ \A style \in {"own", "inline", "chained", "below"} : Between(style) \in Seq(BodyLines)
  /\ PlainLines(<<"close">>) = <<Plain("close")>> /\ PlainLines(<<"close">>) \in Seq(BodyLines)
<1>1. Between("own") = <<Plain("close"), Plain("else"), Plain("open")>>
  <2>1. Between("own") = PlainLines(<<"close", "else", "open">>)
    BY DEF Between
  <2>2. QED
    BY <2>1, PlainsAre
<1>2. Between("inline") = <<Plain("closeelse")>>
  <2>1. Between("inline") = PlainLines(<<"closeelse">>)
    BY DEF Between
  <2>2. QED
    BY <2>1, PlainsAre
<1>3. Between("chained") = <<Plain("closeelseif")>>
  <2>1. Between("chained") = PlainLines(<<"closeelseif">>)
    BY DEF Between
  <2>2. QED
    BY <2>1, PlainsAre
<1>4. Between("below") = <<Plain("close"), Plain("elseifopen")>>
  <2>1. Between("below") = PlainLines(<<"close", "elseifopen">>)
    BY DEF Between
  <2>2. QED
    BY <2>1, PlainsAre
<1>5. /\ Plain("close") \in BodyLines /\ Plain("else") \in BodyLines /\ Plain("open") \in BodyLines
      /\ Plain("closeelse") \in BodyLines /\ Plain("closeelseif") \in BodyLines
      /\ Plain("elseifopen") \in BodyLines
  BY PlainTyped DEF BodyKinds
<1>6. /\ <<Plain("close"), Plain("else"), Plain("open")>> \in Seq(BodyLines)
      /\ <<Plain("closeelse")>> \in Seq(BodyLines) /\ <<Plain("closeelseif")>> \in Seq(BodyLines)
      /\ <<Plain("close"), Plain("elseifopen")>> \in Seq(BodyLines)
      /\ <<Plain("close")>> \in Seq(BodyLines)
  BY <1>5, TuplesTyped
<1>7. PlainLines(<<"close">>) = <<Plain("close")>>
  BY PlainsAre
<1>8. QED
  BY <1>1, <1>2, <1>3, <1>4, <1>6, <1>7, Zenon

LEMMA BodyTyped ==
  ASSUME NEW body, NEW ifs, IsBody(body, ifs), ifs \subseteq Branching
  PROVE  /\ BodySeqs(body) \in Seq(Seq(BodyLines)) /\ Len(BodySeqs(body)) = Len(body)
         /\ LaidOut(body, RenderBranches) \in Seq(BodyLines)
<1> DEFINE n == Len(body)
           q == BodySeqs(body)
<1>1. n \in Nat /\ DOMAIN q = 1 .. n
  BY BodyListed
<1>2. ASSUME NEW i \in 1 .. n PROVE q[i] \in Seq(BodyLines)
  <2>1. q[i] = StatementLines(body[i])
        /\ (\/ IsSend(body[i]) /\ IsSaying(body[i].says)
            \/ ~IsSend(body[i]) /\ body[i] \in Branching)
    BY BodyListed
  <2>2. CASE IsSend(body[i])
    <3>1. StatementLines(body[i]) = << CommandLine(body[i].says) >>
      BY <2>2 DEF StatementLines
    <3>2. CommandLine(body[i].says) \in BodyLines
      BY <2>1, <2>2, CommandTyped
    <3>3. QED
      BY <2>1, <3>1, <3>2, TuplesTyped
  <2>3. CASE ~IsSend(body[i])
    <3> DEFINE o == Opening(body[i])
               b == RenderBranches[body[i]]
    <3>1. StatementLines(body[i]) = o \o b
      BY <2>3 DEF StatementLines
    <3>2. o \in Seq(BodyLines) /\ b \in Seq(BodyLines)
      BY <2>1, <2>3, OpeningIs DEF Branching
    <3> HIDE DEF o, b
    <3>3. o \o b \in Seq(BodyLines)
      BY <3>2
    <3>4. QED
      BY <2>1, <3>1, <3>3
  <2>4. QED
    BY <2>2, <2>3
<1>3. q = [i \in 1 .. n |-> q[i]]
  BY <1>1 DEF BodySeqs
<1> HIDE DEF n, q
<1>4. q \in [1 .. n -> Seq(BodyLines)]
  BY <1>2, <1>3
<1>5. q \in Seq(Seq(BodyLines)) /\ Len(q) = n
  BY <1>1, <1>4
<1>6. QED
  BY <1>5, LaidOutIs, FlattenTyped DEF q, n

LEMMA AllBranching == AllIfs \subseteq Branching
<1>1. ASSUME NEW if \in AllIfs, NEW lower \in SUBSET AllIfs, IsIf(if, lower), lower \subseteq Branching
      PROVE  if \in Branching
  <2> DEFINE t == LaidOut(if.then, RenderBranches)
             e == LaidOut(if.else, RenderBranches)
             c == PlainLines(<<"close">>)
             m == Between(if.style)
             b == RenderBranches[if.else[1]]
  <2>1. t \in Seq(BodyLines) /\ e \in Seq(BodyLines)
    <3>1. IsBody(if.then, lower) /\ IsBody(if.else, lower)
      BY <1>1 DEF IsIf
    <3>2. QED
      BY <1>1, <3>1, BodyTyped
  <2>2. c \in Seq(BodyLines) /\ m \in Seq(BodyLines)
    <3>1. if.style \in {"own", "inline", "chained", "below"}
      BY <1>1 DEF IsIf
    <3>2. QED
      BY <3>1, BetweenIs
  <2>3. if.else # <<>> /\ if.style \in {"chained", "below"} => b \in Seq(BodyLines)
    BY <1>1 DEF IsIf, Branching
  <2>4. RenderBranches[if] = t \o (IF if.else = <<>> THEN c
            ELSE m \o (IF if.style \in {"chained", "below"} THEN b ELSE e \o c))
    BY BranchesAre DEF RenderIf
  <2> HIDE DEF t, e, c, m, b
  <2>5. CASE if.else = <<>>
    <3>1. RenderBranches[if] = t \o c
      BY <2>4, <2>5
    <3>2. t \o c \in Seq(BodyLines)
      BY <2>1, <2>2
    <3>3. QED
      BY <3>1, <3>2 DEF Branching
  <2>6. CASE if.else # <<>> /\ if.style \in {"chained", "below"}
    <3>1. RenderBranches[if] = t \o (m \o b)
      BY <2>4, <2>6
    <3>2. t \o (m \o b) \in Seq(BodyLines)
      BY <2>1, <2>2, <2>3, <2>6
    <3>3. QED
      BY <3>1, <3>2 DEF Branching
  <2>7. CASE if.else # <<>> /\ if.style \notin {"chained", "below"}
    <3>1. RenderBranches[if] = t \o (m \o (e \o c))
      BY <2>4, <2>7
    <3>2. t \o (m \o (e \o c)) \in Seq(BodyLines)
      BY <2>1, <2>2
    <3>3. QED
      BY <3>1, <3>2 DEF Branching
  <2>8. QED
    BY <2>5, <2>6, <2>7
<1>2. QED
  BY <1>1, LevelByLevel

LEMMA BodyRendered ==
  ASSUME NEW body, IsBody(body, AllIfs)
  PROVE  /\ BodySeqs(body) \in Seq(Seq(BodyLines)) /\ Len(BodySeqs(body)) = Len(body)
         /\ RenderBody(body) \in Seq(BodyLines) /\ RenderBody(body) = FlattenSeq(BodySeqs(body))
  BY AllBranching, BodyTyped, LaidOutIs DEF RenderBody

----------------------------------------------------------------------------
(* What the parser reads of a line: comments go, and braces before an Else *)
(* are lines of their own.                                                 *)
Written == BodyLines \cup NoteLines
SplitOf == [line \in Written |-> Split(line)]

LEMMA LineIs ==
  ASSUME NEW k, NEW t
  PROVE  Line(k, t).kind = k /\ Line(k, t).text = t
  BY DEF Line

LEMMA PlainKind ==
  ASSUME NEW k
  PROVE  Plain(k).kind = k
  BY LineIs, Zenon DEF Plain

LEMMA LineOf ==
  ASSUME NEW line \in BodyLines
  PROVE  /\ line.kind \in BodyKinds
         /\ line.kind \in ElseBehind => line = Plain(line.kind)
<1>1. ASSUME NEW k \in BodyKinds \ ElseBehind, NEW t \in Texts, line = Line(k, t)
      PROVE  line.kind \in BodyKinds \ ElseBehind
  BY <1>1, LineIs
<1>2. ASSUME NEW k \in ElseBehind, line = Plain(k)
      PROVE  line.kind \in BodyKinds /\ line = Plain(line.kind)
  BY <1>2, PlainKind DEF BodyKinds, ElseBehind
<1>3. QED
  BY <1>1, <1>2 DEF BodyLines

(* What a line is read as.                                                 *)
LEMMA SplitCases ==
  ASSUME NEW line
  PROVE  /\ line.kind = "note" => Split(line) = <<>>
         /\ line.kind = "closeelse" =>
                Split(line) = << Line("close", <<>>), Line("elseopen", Rest(line)) >>
         /\ line.kind = "closeelseif" =>
                Split(line) = << Line("close", <<>>), Line("elseifopen", Rest(line)) >>
         /\ line.kind \in BodyKinds \ ElseBehind => Split(line) = <<line>>
<1> DEFINE kind == line.kind
<1>1. /\ "closeelse" \in DOMAIN Leading /\ Leading["closeelse"] = "elseopen"
      /\ "closeelseif" \in DOMAIN Leading /\ Leading["closeelseif"] = "elseifopen"
      /\ kind \in BodyKinds \ ElseBehind => kind \notin DOMAIN Leading
  BY DEF Leading, BodyKinds, ElseBehind
<1>2. /\ kind = "note" => kind \in Notes
      /\ kind \in BodyKinds => kind \notin Notes
      /\ "closeelse" \notin Notes /\ "closeelseif" \notin Notes
  BY DEF Notes, BodyKinds
<1>3. Split(line) =
         IF kind \in Notes THEN <<>>
         ELSE IF kind \in DOMAIN Leading THEN << Line("close", <<>>), Line(Leading[kind], Rest(line)) >>
         ELSE <<line>>
  BY Zenon DEF Split, Rest
<1> HIDE DEF kind
<1>4. kind = "note" => Split(line) = <<>>
  BY <1>2, <1>3
<1>5. kind = "closeelse" => Split(line) = << Line("close", <<>>), Line("elseopen", Rest(line)) >>
  BY <1>1, <1>2, <1>3, Zenon
<1>6. kind = "closeelseif" => Split(line) = << Line("close", <<>>), Line("elseifopen", Rest(line)) >>
  BY <1>1, <1>2, <1>3, Zenon
<1>7. kind \in BodyKinds \ ElseBehind => Split(line) = <<line>>
  BY <1>1, <1>2, <1>3
<1>8. QED
  BY <1>4, <1>5, <1>6, <1>7 DEF kind

LEMMA SplitTyped ==
  /\ SplitOf \in [Written -> Seq(BodyLines)]
  /\ \A line \in Written : SplitOf[line] = Split(line)
<1>1. ASSUME NEW line \in Written PROVE Split(line) \in Seq(BodyLines)
  <2>1. CASE line \in NoteLines
    <3>1. line.kind = "note"
      BY <2>1, PlainKind DEF NoteLines
    <3>2. <<>> \in Seq(BodyLines)
      OBVIOUS
    <3>3. QED
      BY <3>1, <3>2, SplitCases
  <2>2. CASE line \in BodyLines
    <3> DEFINE a == Line("close", <<>>)
               b == Line("elseopen", Rest(line))
               c == Line("elseifopen", Rest(line))
    <3>1. line.kind \in BodyKinds /\ (line.kind \in ElseBehind => line = Plain(line.kind))
      BY <2>2, LineOf
    <3>2. a \in BodyLines
      <4>1. "close" \in BodyKinds \ ElseBehind /\ <<>> \in Texts
        BY DEF BodyKinds, ElseBehind, Texts
      <4>2. QED
        BY <4>1, LineTyped
    <3>3. line.kind \in ElseBehind => b \in BodyLines /\ c \in BodyLines
      <4> SUFFICES ASSUME line.kind \in ElseBehind PROVE b \in BodyLines /\ c \in BodyLines
        OBVIOUS
      <4>1. Rest(line) \in Texts
        BY <3>1, Zenon DEF Texts
      <4>2. "elseopen" \in BodyKinds \ ElseBehind /\ "elseifopen" \in BodyKinds \ ElseBehind
        BY DEF BodyKinds, ElseBehind
      <4>3. QED
        BY <4>1, <4>2, LineTyped
    <3>4. /\ line.kind = "closeelse" => Split(line) = <<a, b>>
          /\ line.kind = "closeelseif" => Split(line) = <<a, c>>
          /\ line.kind \in BodyKinds \ ElseBehind => Split(line) = <<line>>
      BY SplitCases
    <3> HIDE DEF a, b, c
    <3>5. CASE line.kind \in ElseBehind
      <4>1. <<a, b>> \in Seq(BodyLines) /\ <<a, c>> \in Seq(BodyLines)
        BY <3>2, <3>3, <3>5, TuplesTyped
      <4>2. QED
        BY <3>4, <3>5, <4>1 DEF ElseBehind
    <3>6. CASE line.kind \notin ElseBehind
      <4>1. <<line>> \in Seq(BodyLines)
        BY <2>2, TuplesTyped
      <4>2. QED
        BY <3>1, <3>4, <3>6, <4>1
    <3>7. QED
      BY <3>5, <3>6
  <2>3. QED
    BY <2>1, <2>2 DEF Written
<1>2. QED
  BY <1>1 DEF SplitOf

LEMMA PreprocessIs ==
  ASSUME NEW block \in Seq(Written)
  PROVE  Preprocess(block) = Mapped(SplitOf, block) /\ Preprocess(block) \in Seq(BodyLines)
<1>1. Images(SplitOf, block) = [i \in DOMAIN block |-> Split(block[i])]
  <2>1. \A i \in DOMAIN block : block[i] \in Written
    OBVIOUS
  <2>2. \A i \in DOMAIN block : SplitOf[block[i]] = Split(block[i])
    BY <2>1, SplitTyped
  <2>3. QED
    BY <2>2 DEF Images
<1>2. Preprocess(block) = Mapped(SplitOf, block)
  BY <1>1, Zenon DEF Preprocess, Mapped
<1>3. QED
  BY <1>2, SplitTyped, MappedTyped

Ready(lines) == Mapped(SplitOf, lines)

LEMMA BodyWritten ==
  /\ BodyLines \subseteq Written
  /\ \A s \in Seq(BodyLines) : s \in Seq(Written) /\ Ready(s) \in Seq(BodyLines)
<1>1. BodyLines \subseteq Written
  BY DEF Written
<1>2. ASSUME NEW s \in Seq(BodyLines) PROVE s \in Seq(Written) /\ Ready(s) \in Seq(BodyLines)
  <2>1. s \in Seq(Written)
    BY <1>1, Wider
  <2>2. QED
    BY <2>1, SplitTyped, MappedTyped DEF Ready
<1>3. QED
  BY <1>1, <1>2

ReadyJoin(a, b) == Ready(a \o b) = Ready(a) \o Ready(b)
LEMMA ReadyBoth ==
  ASSUME NEW a \in Seq(BodyLines), NEW b \in Seq(BodyLines)
  PROVE  ReadyJoin(a, b)
<1>1. a \in Seq(Written) /\ b \in Seq(Written)
  BY BodyWritten
<1>2. MappedJoin(SplitOf, a, b)
  BY <1>1, SplitTyped, MappedBoth
<1>3. QED
  BY <1>2, Zenon DEF MappedJoin, ReadyJoin, Ready

LEMMA ReadyOne ==
  ASSUME NEW line \in BodyLines
  PROVE  Ready(<<line>>) = Split(line)
<1>1. line \in Written
  BY BodyWritten
<1>2. Mapped(SplitOf, <<line>>) = SplitOf[line]
  BY <1>1, SplitTyped, MappedOne
<1>3. QED
  BY <1>1, <1>2, SplitTyped DEF Ready

(* A command, and the braces of an If, are read as they are.               *)
LEMMA ReadyPlain ==
  ASSUME NEW line \in BodyLines, line.kind \notin ElseBehind
  PROVE  Ready(<<line>>) = <<line>>
<1>1. line.kind \in BodyKinds \ ElseBehind
  BY LineOf
<1>2. QED
  BY <1>1, ReadyOne, SplitCases

Kinds1(s, a) == Len(s) = 1 /\ s[1].kind = a
Kinds2(s, a, b) == Len(s) = 2 /\ s[1].kind = a /\ s[2].kind = b
Kinds3(s, a, b, c) == Len(s) = 3 /\ s[1].kind = a /\ s[2].kind = b /\ s[3].kind = c

LEMMA ReadyPlains ==
  /\ \A a \in BodyKinds : a \notin ElseBehind => Kinds1(Ready(<<Plain(a)>>), a)
  /\ \A a, b \in BodyKinds :
        {a, b} \cap ElseBehind = {} =>
            Kinds2(Ready(<<Plain(a), Plain(b)>>), a, b)
  /\ \A a, b, c \in BodyKinds :
        {a, b, c} \cap ElseBehind = {} =>
            Kinds3(Ready(<<Plain(a), Plain(b), Plain(c)>>), a, b, c)
<1>1. ASSUME NEW a \in BodyKinds, a \notin ElseBehind
      PROVE  Plain(a) \in BodyLines /\ Plain(a).kind = a /\ Ready(<<Plain(a)>>) = <<Plain(a)>>
  <2>1. Plain(a) \in BodyLines /\ Plain(a).kind = a
    BY <1>1, PlainTyped, PlainKind
  <2>2. QED
    BY <1>1, <2>1, ReadyPlain
<1> HIDE DEF Plain, Ready
<1>2. ASSUME NEW a \in BodyKinds, a \notin ElseBehind
      PROVE  Kinds1(Ready(<<Plain(a)>>), a)
  BY <1>1, <1>2 DEF Kinds1
<1>3. ASSUME NEW a \in BodyKinds, NEW b \in BodyKinds, {a, b} \cap ElseBehind = {}
      PROVE  /\ Ready(<<Plain(a), Plain(b)>>) = <<Plain(a), Plain(b)>>
             /\ Kinds2(Ready(<<Plain(a), Plain(b)>>), a, b)
  <2> DEFINE x == Plain(a)
             y == Plain(b)
  <2>1. /\ x \in BodyLines /\ x.kind = a /\ Ready(<<x>>) = <<x>>
        /\ y \in BodyLines /\ y.kind = b /\ Ready(<<y>>) = <<y>>
    BY <1>1, <1>3
  <2> HIDE DEF x, y
  <2>2. <<x>> \in Seq(BodyLines) /\ <<y>> \in Seq(BodyLines)
    BY <2>1, TuplesTyped
  <2>3. ReadyJoin(<<x>>, <<y>>)
    BY <2>2, ReadyBoth
  <2>4. Ready(<<x>> \o <<y>>) = <<x>> \o <<y>>
    BY <2>1, <2>3, Zenon DEF ReadyJoin
  <2>5. Ready(<<x, y>>) = <<x, y>>
    BY <2>4, OneAndOne
  <2>6. Kinds2(<<x, y>>, a, b)
    BY <2>1 DEF Kinds2
  <2>7. QED
    BY <2>5, <2>6 DEF x, y
<1>4. ASSUME NEW a \in BodyKinds, NEW b \in BodyKinds, NEW c \in BodyKinds,
             {a, b, c} \cap ElseBehind = {}
      PROVE  Kinds3(Ready(<<Plain(a), Plain(b), Plain(c)>>), a, b, c)
  <2> DEFINE x == Plain(a)
             y == Plain(b)
             z == Plain(c)
  <2>1. /\ x \in BodyLines /\ x.kind = a
        /\ y \in BodyLines /\ y.kind = b
        /\ z \in BodyLines /\ z.kind = c /\ Ready(<<z>>) = <<z>>
    BY <1>1, <1>4
  <2>2. Ready(<<x, y>>) = <<x, y>>
    BY <1>3, <1>4
  <2> HIDE DEF x, y, z
  <2>3. <<x, y>> \in Seq(BodyLines) /\ <<z>> \in Seq(BodyLines)
    BY <2>1, TuplesTyped
  <2>4. ReadyJoin(<<x, y>>, <<z>>)
    BY <2>3, ReadyBoth
  <2>5. Ready(<<x, y>> \o <<z>>) = <<x, y>> \o <<z>>
    BY <2>1, <2>2, <2>4, Zenon DEF ReadyJoin
  <2>6. Ready(<<x, y, z>>) = <<x, y, z>>
    BY <2>5, TwoAndOne
  <2>7. Kinds3(<<x, y, z>>, a, b, c)
    BY <2>1 DEF Kinds3
  <2>8. QED
    BY <2>6, <2>7 DEF x, y, z
<1>5. QED
  BY <1>2, <1>3, <1>4

(* The lines around the statements of an If.                               *)
LEMMA BracesReady ==
  /\ \A if : /\ if.style = "own" => Kinds2(Ready(Opening(if)), "if", "open")
             /\ if.style # "own" => Kinds1(Ready(Opening(if)), "ifopen")
  /\ Kinds1(Ready(PlainLines(<<"close">>)), "close")
  /\ Kinds3(Ready(Between("own")), "close", "else", "open")
  /\ Kinds2(Ready(Between("inline")), "close", "elseopen")
  /\ Kinds2(Ready(Between("chained")), "close", "elseifopen")
  /\ Kinds2(Ready(Between("below")), "close", "elseifopen")
<1>1. /\ Kinds2(Ready(<<Plain("if"), Plain("open")>>), "if", "open")
      /\ Kinds1(Ready(<<Plain("ifopen")>>), "ifopen")
      /\ Kinds1(Ready(<<Plain("close")>>), "close")
      /\ Kinds3(Ready(<<Plain("close"), Plain("else"), Plain("open")>>), "close", "else", "open")
      /\ Kinds2(Ready(<<Plain("close"), Plain("elseifopen")>>), "close", "elseifopen")
  BY ReadyPlains DEF BodyKinds, ElseBehind
<1>2. ASSUME NEW k \in {"closeelse", "closeelseif"}
      PROVE  Ready(<<Plain(k)>>) = Split(Plain(k)) /\ Plain(k).kind = k
  <2>1. k \in BodyKinds
    BY DEF BodyKinds
  <2>2. QED
    BY <2>1, PlainTyped, PlainKind, ReadyOne
<1>3. Kinds2(Ready(<<Plain("closeelse")>>), "close", "elseopen")
  <2> DEFINE x == Plain("closeelse")
             a == Line("close", <<>>)
             b == Line("elseopen", Rest(x))
  <2>1. Ready(<<x>>) = Split(x) /\ x.kind = "closeelse"
    BY <1>2
  <2>2. Split(x) = <<a, b>>
    BY <2>1, SplitCases
  <2>3. a.kind = "close" /\ b.kind = "elseopen"
    BY LineIs
  <2> HIDE DEF x, a, b
  <2>4. Kinds2(<<a, b>>, "close", "elseopen")
    BY <2>3 DEF Kinds2
  <2>5. QED
    BY <2>1, <2>2, <2>4 DEF x
<1>4. Kinds2(Ready(<<Plain("closeelseif")>>), "close", "elseifopen")
  <2> DEFINE x == Plain("closeelseif")
             a == Line("close", <<>>)
             b == Line("elseifopen", Rest(x))
  <2>1. Ready(<<x>>) = Split(x) /\ x.kind = "closeelseif"
    BY <1>2
  <2>2. Split(x) = <<a, b>>
    BY <2>1, SplitCases
  <2>3. a.kind = "close" /\ b.kind = "elseifopen"
    BY LineIs
  <2> HIDE DEF x, a, b
  <2>4. Kinds2(<<a, b>>, "close", "elseifopen")
    BY <2>3 DEF Kinds2
  <2>5. QED
    BY <2>1, <2>2, <2>4 DEF x
<1>5. QED
  BY <1>1, <1>3, <1>4, OpeningIs, BetweenIs, Zenon

----------------------------------------------------------------------------
(* What is read from each line of a block on.                              *)
Ways == {"top", "braces", "chain"}
ReadOf(lines, read, i, way) ==
    IF way = "chain" THEN Chain(lines, read, i) ELSE BlockLines(lines, read, i, way)
Reads(read, lines) ==
    read = [p \in (1 .. Len(lines) + 1) \X Ways |-> ReadOf(lines, read, p[1], p[2])]

(* Reading goes on, or throws.                                             *)
InRange(parsed, first, last) == parsed.next = 0 \/ parsed.next \in first .. last
SameFrom(f, g, i, n) == \A j \in i .. n, way \in Ways : f[<<j, way>>] = g[<<j, way>>]
RangedFrom(f, i, n) ==
    \A j \in i .. n : /\ InRange(f[<<j, "chain">>], j + 1, n)
                      /\ InRange(f[<<j, "top">>], j, n)
                      /\ InRange(f[<<j, "braces">>], j, n)

LEMMA ParsedIs ==
  /\ \A c, n : Parsed(c, n).next = n /\ Parsed(c, n).commands = c
  /\ Thrown.next = 0
  BY DEF Parsed, Thrown

LEMMA SimpleRanged ==
  ASSUME NEW words, NEW i \in Nat
  PROVE  SimpleCommand(words, i).next \in {0, i + 1}
<1> DEFINE one(command) == Parsed(<<command>>, i + 1)
<1>1. \A c : one(c).next = i + 1
  BY ParsedIs
<1>2. Parsed(<<>>, i + 1).next = i + 1 /\ Thrown.next = 0
  BY ParsedIs
<1>3. \/ SimpleCommand(words, i) = Thrown \/ SimpleCommand(words, i) = Parsed(<<>>, i + 1)
      \/ \E c : SimpleCommand(words, i) = one(c)
  <2> HIDE DEF one
  <2>1. \A c : Parsed(<<c>>, i + 1) = one(c)
    BY DEF one
  <2>2. QED
    BY <2>1, Zenon DEF SimpleCommand
<1>4. QED
  <2> HIDE DEF one
  <2> QED BY <1>1, <1>2, <1>3

LEMMA KindInside ==
  ASSUME NEW lines, Len(lines) \in Nat, DOMAIN lines = 1 .. Len(lines), NEW i,
         KindOf(lines, i) # "nothing"
  PROVE  i \in 1 .. Len(lines) /\ KindOf(lines, i) = lines[i].kind
  BY DEF KindOf

(* What is read in a branch, a chain and a block is settled by what is     *)
(* read behind the line.                                                   *)
LEMMA BranchSame ==
  ASSUME NEW lines, Len(lines) \in Nat, DOMAIN lines = 1 .. Len(lines),
         NEW i \in 1 .. Len(lines), NEW f, NEW g, NEW inline \in BOOLEAN,
         SameFrom(f, g, i + 1, Len(lines) + 1), RangedFrom(f, i + 1, Len(lines) + 1)
  PROVE  /\ Branch(lines, f, i, inline) = Branch(lines, g, i, inline)
         /\ InRange(Branch(lines, f, i, inline), i + 1, Len(lines) + 1)
<1> DEFINE N == Len(lines)
<1>1. N \in Nat /\ i \in 1 .. N
  OBVIOUS
<1>2. \A j \in i + 1 .. N + 1 :
         f[<<j, "braces">>] = g[<<j, "braces">>] /\ InRange(f[<<j, "braces">>], j, N + 1)
  BY DEF SameFrom, RangedFrom, Ways
<1>3. KindOf(lines, i + 1) = "open" => i + 1 \in 1 .. N
  BY KindInside
<1> HIDE DEF N
<1>4. i + 1 \in i + 1 .. N + 1 /\ (KindOf(lines, i + 1) = "open" => i + 2 \in i + 1 .. N + 1)
  BY <1>1, <1>3
<1>5. CASE inline
  <2>1. \A h : Branch(lines, h, i, inline) = h[<<i + 1, "braces">>]
    BY <1>5, Zenon DEF Branch
  <2>2. QED
    BY <1>2, <1>4, <2>1 DEF N
<1>6. CASE ~inline /\ KindOf(lines, i + 1) = "open"
  <2>1. \A h : Branch(lines, h, i, inline) = h[<<i + 2, "braces">>]
    BY <1>6, Zenon DEF Branch
  <2>2. f[<<i + 2, "braces">>] = g[<<i + 2, "braces">>] /\ InRange(f[<<i + 2, "braces">>], i + 2, N + 1)
    BY <1>2, <1>4, <1>6
  <2>3. InRange(f[<<i + 2, "braces">>], i + 1, N + 1)
    BY <1>1, <2>2 DEF InRange
  <2>4. QED
    BY <2>1, <2>2, <2>3 DEF N
<1>7. CASE ~inline /\ KindOf(lines, i + 1) # "open"
  <2>1. \A h : Branch(lines, h, i, inline) = Thrown
    BY <1>7, Zenon DEF Branch
  <2>2. QED
    BY <2>1, ParsedIs DEF InRange
<1>8. QED
  BY <1>5, <1>6, <1>7

LEMMA IfChainSame ==
  ASSUME NEW lines, Len(lines) \in Nat, DOMAIN lines = 1 .. Len(lines),
         NEW i \in 1 .. Len(lines), NEW f, NEW g, NEW then,
         SameFrom(f, g, i + 1, Len(lines) + 1), RangedFrom(f, i + 1, Len(lines) + 1),
         InRange(then, i + 1, Len(lines) + 1)
  PROVE  /\ IfChain(then, lines, f) = IfChain(then, lines, g)
         /\ InRange(IfChain(then, lines, f), i + 1, Len(lines) + 1)
<1> DEFINE N == Len(lines)
           else(h) == IF KindOf(lines, then.next) \in Elses
                        THEN h[<<then.next, "chain">>] ELSE Parsed(<<>>, then.next)
<1>1. N \in Nat /\ i \in 1 .. N
  OBVIOUS
<1>2. \A h : IfChain(then, lines, h) =
               IF then.next = 0 \/ else(h).next = 0 THEN Thrown
               ELSE Parsed(<< If(then.commands, else(h).commands) >>, else(h).next)
  BY DEF IfChain
<1>3. CASE then.next = 0
  <2> HIDE DEF else
  <2>1. \A h : IfChain(then, lines, h) = Thrown
    BY <1>2, <1>3, Zenon
  <2>2. QED
    BY <2>1, ParsedIs DEF InRange
<1>4. CASE then.next # 0
  <2> DEFINE t == then.next
  <2>1. t \in i + 1 .. N + 1
    BY <1>4 DEF InRange
  <2>2. /\ f[<<t, "chain">>] = g[<<t, "chain">>]
        /\ InRange(f[<<t, "chain">>], t + 1, N + 1)
    BY <2>1 DEF SameFrom, RangedFrom, Ways
  <2>3. Parsed(<<>>, t).next = t
    BY ParsedIs
  <2> HIDE DEF t, N
  <2>4. InRange(f[<<t, "chain">>], i + 1, N + 1)
    BY <1>1, <2>1, <2>2 DEF InRange
  <2>5. else(f) = else(g) /\ InRange(else(f), i + 1, N + 1)
    BY <2>1, <2>2, <2>3, <2>4 DEF InRange, t
  <2> HIDE DEF else
  <2>6. IfChain(then, lines, f) = IfChain(then, lines, g)
    BY <1>2, <2>5, Zenon
  <2>7. InRange(IfChain(then, lines, f), i + 1, N + 1)
    <3>1. CASE else(f).next = 0
      <4>1. IfChain(then, lines, f) = Thrown
        BY <1>2, <3>1, Zenon
      <4>2. QED
        BY <4>1, ParsedIs DEF InRange
    <3>2. CASE else(f).next # 0
      <4>1. IfChain(then, lines, f)
              = Parsed(<< If(then.commands, else(f).commands) >>, else(f).next)
        BY <1>2, <1>4, <3>2, Zenon
      <4>2. IfChain(then, lines, f).next = else(f).next
        BY <4>1, ParsedIs
      <4>3. QED
        BY <2>5, <4>2 DEF InRange
    <3>3. QED
      BY <3>1, <3>2
  <2>8. QED
    BY <2>6, <2>7 DEF N
<1>5. QED
  BY <1>3, <1>4

(* What a chain is, by the kind of its first line.                         *)
LEMMA ChainIs ==
  ASSUME NEW lines, NEW i
  PROVE  /\ KindOf(lines, i) \in Ifs => \A h :
               Chain(lines, h, i) =
                   IfChain(Branch(lines, h, i, KindOf(lines, i) \in {"ifopen", "elseifopen"}), lines, h)
         /\ KindOf(lines, i) \in Elses \ Ifs => \A h :
               Chain(lines, h, i) = Branch(lines, h, i, KindOf(lines, i) = "elseopen")
         /\ KindOf(lines, i) \notin Elses \cup Ifs => \A h : Chain(lines, h, i) = Thrown
<1> DEFINE kind == KindOf(lines, i)
<1>1. \A h : Chain(lines, h, i) =
         IF kind \in Ifs THEN IfChain(Branch(lines, h, i, kind \in {"ifopen", "elseifopen"}), lines, h)
         ELSE IF kind \in Elses THEN Branch(lines, h, i, kind = "elseopen")
         ELSE Thrown
  BY DEF Chain
<1> HIDE DEF kind
<1>2. /\ kind \in Ifs => \A h :
            Chain(lines, h, i) = IfChain(Branch(lines, h, i, kind \in {"ifopen", "elseifopen"}), lines, h)
      /\ kind \in Elses \ Ifs => \A h :
            Chain(lines, h, i) = Branch(lines, h, i, kind = "elseopen")
      /\ kind \notin Elses \cup Ifs => \A h : Chain(lines, h, i) = Thrown
  BY <1>1, Zenon
<1>3. QED
  BY <1>2, Zenon DEF kind

LEMMA ChainSame ==
  ASSUME NEW lines, Len(lines) \in Nat, DOMAIN lines = 1 .. Len(lines),
         NEW i \in 1 .. Len(lines) + 1, NEW f, NEW g,
         SameFrom(f, g, i + 1, Len(lines) + 1), RangedFrom(f, i + 1, Len(lines) + 1)
  PROVE  /\ Chain(lines, f, i) = Chain(lines, g, i)
         /\ InRange(Chain(lines, f, i), i + 1, Len(lines) + 1)
<1> DEFINE kind == KindOf(lines, i)
           N == Len(lines)
<1>1. kind \in Ifs \cup Elses => i \in 1 .. N
  <2>1. "nothing" \notin Ifs \cup Elses
    BY DEF Ifs, Elses
  <2>2. QED
    BY <2>1, KindInside
<1>2. CASE kind \in Ifs
  <2> DEFINE inline == kind \in {"ifopen", "elseifopen"}
             then == Branch(lines, f, i, inline)
  <2>1. i \in 1 .. N /\ inline \in BOOLEAN
    BY <1>1, <1>2
  <2>2. then = Branch(lines, g, i, inline) /\ InRange(then, i + 1, N + 1)
    <3> HIDE DEF inline
    <3> QED BY <2>1, BranchSame
  <2>3. Chain(lines, f, i) = IfChain(then, lines, f) /\ Chain(lines, g, i) = IfChain(then, lines, g)
    BY <1>2, <2>2, ChainIs
  <2> HIDE DEF then
  <2>4. IfChain(then, lines, f) = IfChain(then, lines, g)
        /\ InRange(IfChain(then, lines, f), i + 1, N + 1)
    BY <2>1, <2>2, IfChainSame
  <2>5. QED
    BY <2>3, <2>4
<1>3. CASE kind \in Elses \ Ifs
  <2> DEFINE inline == kind = "elseopen"
  <2>1. i \in 1 .. N /\ inline \in BOOLEAN
    BY <1>1, <1>3
  <2>2. \A h : Chain(lines, h, i) = Branch(lines, h, i, inline)
    BY <1>3, ChainIs, Zenon
  <2> HIDE DEF inline
  <2>3. QED
    BY <2>1, <2>2, BranchSame
<1>4. CASE kind \notin Elses \cup Ifs
  BY <1>4, ChainIs, ParsedIs DEF InRange
<1>5. QED
  BY <1>2, <1>3, <1>4

(* What a block is, by the kind of its first line.                         *)
Shuts(lines, i, way) == KindOf(lines, i) = "close" /\ way = "braces"
BlockBy(lines, i, way) ==
    \A h : BlockLines(lines, h, i, way) =
        IF KindOf(lines, i) \in Elses \cup {"nothing"} THEN Parsed(<<>>, i)
        ELSE IF Shuts(lines, i, way) THEN Parsed(<<>>, i + 1)
        ELSE Joining(First(lines, h, i), h[<<First(lines, h, i).next, way>>])
LEMMA BlockIs ==
  ASSUME NEW lines, NEW i, NEW way
  PROVE  BlockBy(lines, i, way)
  BY DEF BlockBy, BlockLines, Shuts

LEMMA BlockSame ==
  ASSUME NEW lines, Len(lines) \in Nat, DOMAIN lines = 1 .. Len(lines),
         NEW i \in 1 .. Len(lines) + 1, NEW f, NEW g, NEW way \in {"top", "braces"},
         SameFrom(f, g, i + 1, Len(lines) + 1), RangedFrom(f, i + 1, Len(lines) + 1),
         f[<<i, "chain">>] = g[<<i, "chain">>],
         InRange(f[<<i, "chain">>], i + 1, Len(lines) + 1)
  PROVE  /\ BlockLines(lines, f, i, way) = BlockLines(lines, g, i, way)
         /\ InRange(BlockLines(lines, f, i, way), i, Len(lines) + 1)
<1> DEFINE kind == KindOf(lines, i)
           N == Len(lines)
<1>1. N \in Nat /\ i \in 1 .. N + 1 /\ i \in i .. N + 1
  OBVIOUS
<1>0. BlockBy(lines, i, way)
  BY BlockIs
<1>2. kind # "nothing" =>
          i \in 1 .. N /\ i + 1 \in i .. N + 1 /\ i + 1 \in i + 1 .. N + 1 /\ i \in Nat
  <2>1. kind # "nothing" => i \in 1 .. N
    BY KindInside
  <2>2. ASSUME i \in 1 .. N
        PROVE  i + 1 \in i .. N + 1 /\ i + 1 \in i + 1 .. N + 1 /\ i \in Nat
    <3> HIDE DEF N
    <3> QED BY <1>1, <2>2
  <2>3. QED
    BY <2>1, <2>2
<1>3. CASE kind \in Elses \cup {"nothing"}
  <2>1. \A h : BlockLines(lines, h, i, way) = Parsed(<<>>, i)
    BY <1>0, <1>3, Zenon DEF BlockBy
  <2>2. QED
    BY <1>1, <2>1, ParsedIs DEF InRange
<1>4. CASE Shuts(lines, i, way)
  <2>1. \A h : BlockLines(lines, h, i, way) = Parsed(<<>>, i + 1)
    <3>1. kind \notin Elses \cup {"nothing"}
      BY <1>4 DEF Shuts, Elses
    <3>2. QED
      BY <1>0, <1>4, <3>1, Zenon DEF BlockBy
  <2>2. i + 1 \in i .. N + 1
    BY <1>2, <1>4 DEF Shuts
  <2>3. QED
    BY <2>1, <2>2, ParsedIs DEF InRange
<1>5. CASE ~(kind \in Elses \cup {"nothing"} \/ Shuts(lines, i, way))
  <2> DEFINE a == First(lines, f, i)
             b == f[<<a.next, way>>]
  <2>1. a = First(lines, g, i) /\ InRange(a, i + 1, N + 1)
    <3>1. i \in 1 .. N /\ i + 1 \in i + 1 .. N + 1 /\ i \in Nat
      <4> HIDE DEF N, kind
      <4> QED BY <1>2, <1>5
    <3>2. CASE kind \in Ifs \ Elses
      <4>1. \A h : First(lines, h, i) = h[<<i, "chain">>]
        BY <3>2, Zenon DEF First
      <4>2. QED
        BY <4>1
    <3>3. CASE kind \notin Ifs \ Elses /\ kind \in {"command", "text"}
      <4>1. \A h : First(lines, h, i) = SimpleCommand(lines[i].text, i)
        BY <3>3, Zenon DEF First
      <4>2. SimpleCommand(lines[i].text, i).next \in {0, i + 1}
        BY <3>1, SimpleRanged
      <4>3. QED
        BY <3>1, <4>1, <4>2 DEF InRange
    <3>4. CASE kind \notin Ifs \ Elses /\ kind \notin {"command", "text"}
      <4>1. \A h : First(lines, h, i) = Parsed(<<>>, i + 1)
        BY <3>4, Zenon DEF First
      <4>2. QED
        BY <3>1, <4>1, ParsedIs DEF InRange
    <3>5. QED
      BY <3>2, <3>3, <3>4
  <2>2. /\ BlockLines(lines, f, i, way) = Joining(a, b)
        /\ BlockLines(lines, g, i, way) = Joining(a, g[<<a.next, way>>])
    <3>1. \A h : BlockLines(lines, h, i, way)
                   = Joining(First(lines, h, i), h[<<First(lines, h, i).next, way>>])
      BY <1>0, <1>5, Zenon DEF BlockBy
    <3>2. QED
      BY <2>1, <3>1, Zenon
  <2>3. CASE a.next = 0
    <3>1. \A r : Joining(a, r) = Thrown
      BY <2>3 DEF Joining
    <3>2. QED
      BY <2>2, <3>1, ParsedIs DEF InRange
  <2>4. CASE a.next # 0
    <3> DEFINE n == a.next
    <3>1. n \in i + 1 .. N + 1
      BY <2>1, <2>4 DEF InRange
    <3>2. b = g[<<n, way>>] /\ InRange(b, n, N + 1)
      BY <3>1 DEF SameFrom, RangedFrom, Ways
    <3>3. CASE b.next = 0
      <4>1. Joining(a, b) = Thrown
        BY <3>3 DEF Joining
      <4>2. QED
        BY <2>2, <3>2, <4>1, ParsedIs DEF InRange
    <3>4. CASE b.next # 0
      <4>1. Joining(a, b).next = b.next
        BY <2>4, <3>4, ParsedIs DEF Joining
      <4>2. b.next \in n .. N + 1
        BY <3>2, <3>4 DEF InRange
      <4> HIDE DEF n, N, a, b
      <4>3. b.next \in i .. N + 1
        BY <1>1, <3>1, <4>2
      <4>4. InRange(Joining(a, b), i, N + 1)
        BY <4>1, <4>3 DEF InRange
      <4>5. QED
        BY <2>2, <3>2, <4>4 DEF n, N
    <3>5. QED
      BY <3>3, <3>4
  <2>5. QED
    BY <2>3, <2>4
<1>6. QED
  BY <1>3, <1>4, <1>5

Lists(f, n) == f = [p \in (1 .. n) \X Ways |-> f[p]]
Good(f, lines, k, n) ==
    /\ \A i \in k .. n, way \in Ways : f[<<i, way>>] = ReadOf(lines, f, i, way)
    /\ RangedFrom(f, k, n)

LEMMA ReadSame ==
  ASSUME NEW lines, Len(lines) \in Nat, DOMAIN lines = 1 .. Len(lines),
         NEW i \in 1 .. Len(lines) + 1, NEW f, NEW g,
         SameFrom(f, g, i, Len(lines) + 1), RangedFrom(f, i, Len(lines) + 1)
  PROVE  \A way \in Ways : ReadOf(lines, f, i, way) = ReadOf(lines, g, i, way)
<1> DEFINE M == Len(lines) + 1
<1>1. M \in Nat /\ i \in 1 .. M
  OBVIOUS
<1>2. SameFrom(f, g, i + 1, M) /\ RangedFrom(f, i + 1, M) /\ f[<<i, "chain">>] = g[<<i, "chain">>]
      /\ InRange(f[<<i, "chain">>], i + 1, M)
  <2> HIDE DEF M
  <2>1. i + 1 .. M \subseteq i .. M /\ i \in i .. M /\ "chain" \in Ways
    BY <1>1 DEF Ways
  <2>2. SameFrom(f, g, i, M) /\ RangedFrom(f, i, M)
    BY DEF M
  <2>3. QED
    BY <2>1, <2>2 DEF SameFrom, RangedFrom
<1> HIDE DEF M
<1>3. Chain(lines, f, i) = Chain(lines, g, i)
  BY <1>2, ChainSame DEF M
<1>4. \A way \in {"top", "braces"} : BlockLines(lines, f, i, way) = BlockLines(lines, g, i, way)
  BY <1>2, BlockSame DEF M
<1>5. QED
  BY <1>3, <1>4 DEF Ways, ReadOf

(* One line more, from below.                                              *)
LEMMA ReadMore ==
  ASSUME NEW lines, Len(lines) \in Nat, DOMAIN lines = 1 .. Len(lines),
         NEW k \in 1 .. Len(lines) + 1, NEW f,
         Lists(f, Len(lines) + 1), Good(f, lines, k + 1, Len(lines) + 1)
  PROVE  \E h : Lists(h, Len(lines) + 1) /\ Good(h, lines, k, Len(lines) + 1)
<1> DEFINE M == Len(lines) + 1
           D == (1 .. M) \X Ways
           g == [p \in D |-> IF p = <<k, "chain">> THEN Chain(lines, f, k) ELSE f[p]]
           h == [p \in D |-> IF p = <<k, "top">> THEN BlockLines(lines, g, k, "top")
                             ELSE IF p = <<k, "braces">> THEN BlockLines(lines, g, k, "braces")
                             ELSE g[p]]
<1>1. M \in Nat /\ k \in 1 .. M
  OBVIOUS
<1>2. Lists(h, M)
  BY DEF Lists
<1>3. \A j \in k + 1 .. M, way \in Ways : <<j, way>> \in D /\ j # k
  <2> HIDE DEF M
  <2> QED BY <1>1
<1>4. \A way \in Ways : <<k, way>> \in D
  OBVIOUS
<1>5. SameFrom(f, g, k + 1, M) /\ SameFrom(g, h, k + 1, M) /\ SameFrom(f, h, k + 1, M)
  <2>1. \A p \in D : p # <<k, "chain">> => g[p] = f[p]
    OBVIOUS
  <2>2. \A p \in D : p # <<k, "top">> /\ p # <<k, "braces">> => h[p] = g[p]
    OBVIOUS
  <2> HIDE DEF M, D, g, h
  <2>3. \A j \in k + 1 .. M, way \in Ways :
           <<j, way>> # <<k, "chain">> /\ <<j, way>> # <<k, "top">> /\ <<j, way>> # <<k, "braces">>
    BY <1>3
  <2>4. \A j \in k + 1 .. M, way \in Ways :
           f[<<j, way>>] = g[<<j, way>>] /\ g[<<j, way>>] = h[<<j, way>>]
    BY <1>3, <2>1, <2>2, <2>3
  <2>5. QED
    BY <2>4 DEF SameFrom
<1>6. /\ g[<<k, "chain">>] = Chain(lines, f, k) /\ h[<<k, "chain">>] = g[<<k, "chain">>]
      /\ h[<<k, "top">>] = BlockLines(lines, g, k, "top")
      /\ h[<<k, "braces">>] = BlockLines(lines, g, k, "braces")
  <2>1. <<k, "chain">> \in D /\ <<k, "top">> \in D /\ <<k, "braces">> \in D
    BY <1>4 DEF Ways
  <2>2. <<k, "chain">> # <<k, "top">> /\ <<k, "chain">> # <<k, "braces">> /\ <<k, "top">> # <<k, "braces">>
    OBVIOUS
  <2>3. QED
    BY <2>1, <2>2
<1> HIDE DEF D, g, h
<1>7. RangedFrom(f, k + 1, M)
  BY DEF Good
<1>8. RangedFrom(g, k + 1, M) /\ RangedFrom(h, k + 1, M)
  BY <1>5, <1>7 DEF RangedFrom, SameFrom, Ways
<1>9. Chain(lines, f, k) = Chain(lines, h, k) /\ InRange(Chain(lines, f, k), k + 1, M)
  BY <1>5, <1>7, ChainSame
<1>10. \A way \in {"top", "braces"} :
          /\ BlockLines(lines, g, k, way) = BlockLines(lines, h, k, way)
          /\ InRange(BlockLines(lines, g, k, way), k, M)
  <2>1. InRange(g[<<k, "chain">>], k + 1, M)
    BY <1>6, <1>9
  <2>2. QED
    BY <1>5, <1>6, <1>8, <2>1, BlockSame
<1>11. \A way \in Ways : h[<<k, way>>] = ReadOf(lines, h, k, way)
  <2>1. h[<<k, "chain">>] = Chain(lines, h, k)
    BY <1>6, <1>9
  <2>2. \A way \in {"top", "braces"} : h[<<k, way>>] = BlockLines(lines, h, k, way)
    BY <1>6, <1>10
  <2>3. QED
    BY <2>1, <2>2 DEF Ways, ReadOf
<1>12. RangedFrom(h, k, M)
  <2>1. InRange(h[<<k, "chain">>], k + 1, M) /\ InRange(h[<<k, "top">>], k, M)
        /\ InRange(h[<<k, "braces">>], k, M)
    BY <1>6, <1>9, <1>10
  <2>2. \A j \in k .. M : j = k \/ j \in k + 1 .. M
    <3> HIDE DEF M
    <3> QED BY <1>1
  <2> HIDE DEF M
  <2>3. QED
    BY <1>8, <2>1, <2>2 DEF RangedFrom
<1>13. ASSUME NEW i \in k + 1 .. M, NEW way \in Ways
       PROVE  h[<<i, way>>] = ReadOf(lines, h, i, way)
  <2>1. i \in 1 .. M /\ i .. M \subseteq k + 1 .. M
    <3> HIDE DEF M
    <3> QED BY <1>1, <1>13
  <2>2. SameFrom(f, h, i, M) /\ RangedFrom(f, i, M)
    <3> HIDE DEF M
    <3> QED BY <1>5, <1>7, <2>1 DEF SameFrom, RangedFrom
  <2>3. ReadOf(lines, f, i, way) = ReadOf(lines, h, i, way)
    BY <2>1, <2>2, ReadSame
  <2>4. f[<<i, way>>] = ReadOf(lines, f, i, way) /\ f[<<i, way>>] = h[<<i, way>>]
    BY <1>5 DEF Good, SameFrom
  <2>5. QED
    BY <2>3, <2>4
<1>14. Good(h, lines, k, M)
  <2>1. \A j \in k .. M : j = k \/ j \in k + 1 .. M
    <3> HIDE DEF M
    <3> QED BY <1>1
  <2>2. QED
    BY <1>11, <1>12, <1>13, <2>1 DEF Good
<1>15. QED
  BY <1>2, <1>14

LEMMA ReadExists ==
  ASSUME NEW lines, Len(lines) \in Nat, DOMAIN lines = 1 .. Len(lines)
  PROVE  \E read : Reads(read, lines)
<1> DEFINE M == Len(lines) + 1
           P == {n \in 0 .. M : \E f : Lists(f, M) /\ Good(f, lines, M + 1 - n, M)}
<1>1. M \in Nat
  OBVIOUS
<1>2. 0 \in P
  <2> DEFINE f == [p \in (1 .. M) \X Ways |-> <<>>]
  <2>1. Lists(f, M)
    BY DEF Lists
  <2> HIDE DEF f, M
  <2>2. M + 1 - 0 .. M = {} /\ 0 \in 0 .. M
    BY <1>1
  <2>3. Good(f, lines, M + 1 - 0, M)
    BY <2>2 DEF Good, RangedFrom
  <2>4. QED
    BY <2>1, <2>2, <2>3
<1>3. ASSUME NEW n \in 1 .. M, n - 1 \in P PROVE n \in P
  <2> DEFINE k == M + 1 - n
  <2>1. k \in 1 .. M /\ M + 1 - (n - 1) = k + 1 /\ n \in 0 .. M
    <3> HIDE DEF M
    <3> QED BY <1>1
  <2>2. PICK f : Lists(f, M) /\ Good(f, lines, k + 1, M)
    <3> HIDE DEF M
    <3>1. \E f : Lists(f, M) /\ Good(f, lines, M + 1 - (n - 1), M)
      BY <1>3
    <3>2. QED
      BY <2>1, <3>1
  <2>3. \E h : Lists(h, M) /\ Good(h, lines, k, M)
    <3> HIDE DEF k
    <3> QED BY <2>1, <2>2, ReadMore
  <2>4. QED
    BY <2>1, <2>3
<1>4. M \in P
  <2> HIDE DEF P, M
  <2>1. \A n \in 0 .. M : n \in P
    BY <1>1, <1>2, <1>3, UpTo
  <2>2. QED
    BY <1>1, <2>1
<1>5. PICK f : Lists(f, M) /\ Good(f, lines, 1, M)
  <2> HIDE DEF M
  <2>1. M + 1 - M = 1
    BY <1>1
  <2>2. QED
    BY <1>4, <2>1
<1> DEFINE D == (1 .. M) \X Ways
<1>6. \A p \in D : f[p] = ReadOf(lines, f, p[1], p[2])
  <2>1. \A i \in 1 .. M, way \in Ways : f[<<i, way>>] = ReadOf(lines, f, i, way)
    BY <1>5 DEF Good
  <2> HIDE DEF M
  <2>2. \A p \in D : p = <<p[1], p[2]>> /\ p[1] \in 1 .. M /\ p[2] \in Ways
    OBVIOUS
  <2>3. QED
    BY <2>1, <2>2
<1>7. f = [p \in D |-> ReadOf(lines, f, p[1], p[2])]
  <2>1. f = [p \in D |-> f[p]]
    BY <1>5 DEF Lists
  <2> HIDE DEF D
  <2>2. [p \in D |-> f[p]] = [p \in D |-> ReadOf(lines, f, p[1], p[2])]
    BY <1>6
  <2>3. QED
    BY <2>1, <2>2
<1>8. QED
  BY <1>7 DEF Reads

(* What ParseBlock returns is read from the first line on.                 *)
ReadsAll(read, lines) ==
    \A i \in 1 .. Len(lines) + 1, way \in Ways : read[<<i, way>>] = ReadOf(lines, read, i, way)
LEMMA BlockRead ==
  ASSUME NEW block, NEW lines, lines = Preprocess(block),
         Len(lines) \in Nat, DOMAIN lines = 1 .. Len(lines)
  PROVE  \E read : ReadsAll(read, lines) /\ ParseBlock(block) = read[<<1, "top">>]
<1> DEFINE read == CHOOSE f : Reads(f, lines)
<1>1. Reads(read, lines)
  BY ReadExists
<1>2. ParseBlock(block) = read[<<1, "top">>]
  <2> DEFINE r == CHOOSE f : f = [p \in (1 .. Len(lines) + 1) \X {"top", "braces", "chain"} |->
                      IF p[2] = "chain" THEN Chain(lines, f, p[1])
                      ELSE BlockLines(lines, f, p[1], p[2])]
  <2>1. ParseBlock(block) = r[<<1, "top">>]
    BY Zenon DEF ParseBlock
  <2>2. r = read
    BY Zenon DEF Reads, ReadOf, Ways
  <2>3. QED
    BY <2>1, <2>2
<1>3. ReadsAll(read, lines)
  <2> DEFINE D == (1 .. Len(lines) + 1) \X Ways
  <2>1. read = [p \in D |-> ReadOf(lines, read, p[1], p[2])]
    BY <1>1 DEF Reads
  <2> HIDE DEF read
  <2>2. \A p \in D : read[p] = ReadOf(lines, read, p[1], p[2])
    BY <2>1
  <2>3. \A i \in 1 .. Len(lines) + 1, way \in Ways :
            <<i, way>> \in D /\ <<i, way>>[1] = i /\ <<i, way>>[2] = way
    OBVIOUS
  <2> HIDE DEF D
  <2>4. ASSUME NEW i \in 1 .. Len(lines) + 1, NEW way \in Ways
        PROVE  read[<<i, way>>] = ReadOf(lines, read, i, way)
    <3> DEFINE p == <<i, way>>
    <3>1. p \in D /\ p[1] = i /\ p[2] = way
      BY <2>3
    <3> HIDE DEF p
    <3>2. read[p] = ReadOf(lines, read, i, way)
      BY <2>2, <3>1
    <3>3. QED
      BY <3>2 DEF p
  <2>5. QED
    BY <2>4 DEF ReadsAll
<1>4. QED
  BY <1>2, <1>3

----------------------------------------------------------------------------
(* What is read of the lines of a body.  A part of a block stands at the   *)
(* lines from i on up to j.                                                *)
Stands(lines, i, part, j) ==
    /\ i \in 1 .. Len(lines) + 1 /\ j \in 1 .. Len(lines) + 1
    /\ j = i + Len(part) /\ At(lines, i, part)
Context(lines, read) == lines \in Seq(BodyLines) /\ ReadsAll(read, lines)

LEMMA StandsParts ==
  ASSUME NEW S, NEW lines \in Seq(S), NEW a \in Seq(S), NEW b \in Seq(S),
         NEW i, NEW k, Stands(lines, i, a \o b, k)
  PROVE  \E j : Stands(lines, i, a, j) /\ Stands(lines, j, b, k)
<1>1. i \in Nat /\ At(lines, i, a \o b)
  BY DEF Stands
<1>2. At(lines, i, a) /\ At(lines, i + Len(a), b) /\ Len(a \o b) = Len(a) + Len(b)
  BY <1>1, AtBoth
<1>3. Len(lines) \in Nat /\ Len(a) \in Nat /\ Len(b) \in Nat
  OBVIOUS
<1> DEFINE N == Len(lines)
           m == Len(a)
           n == Len(b)
           q == Len(a \o b)
<1>4. i \in 1 .. N + 1 /\ k \in 1 .. N + 1 /\ k = i + q /\ q = m + n
  BY <1>2 DEF Stands
<1>5. N \in Nat /\ m \in Nat /\ n \in Nat
  BY <1>3
<1> HIDE DEF N, m, n, q
<1>6. i + m \in 1 .. N + 1 /\ k = (i + m) + n
  BY <1>4, <1>5
<1>7. Stands(lines, i, a, i + m) /\ Stands(lines, i + m, b, k)
  BY <1>2, <1>4, <1>6 DEF Stands, N, m, n
<1>8. QED
  BY <1>7

LEMMA StandsBoth ==
  ASSUME NEW lines \in Seq(BodyLines), NEW a \in Seq(BodyLines), NEW b \in Seq(BodyLines),
         NEW i, NEW k, Stands(lines, i, a \o b, k)
  PROVE  \E j : Stands(lines, i, a, j) /\ Stands(lines, j, b, k)
  BY StandsParts

(* The kinds of the lines that stand somewhere.                            *)
LEMMA StandsKinds ==
  ASSUME NEW lines \in Seq(BodyLines), NEW s \in Seq(BodyLines), NEW i, NEW j,
         Stands(lines, i, s, j)
  PROVE  /\ \A a : Kinds1(s, a) => j = i + 1 /\ KindOf(lines, i) = a
         /\ \A a, b : Kinds2(s, a, b) =>
                j = i + 2 /\ KindOf(lines, i) = a /\ KindOf(lines, i + 1) = b
         /\ \A a, b, c : Kinds3(s, a, b, c) =>
                /\ j = i + 3 /\ KindOf(lines, i) = a /\ KindOf(lines, i + 1) = b
                /\ KindOf(lines, i + 2) = c
<1>1. i \in Nat /\ j = i + Len(s)
  BY DEF Stands
<1>2. \A k \in 1 .. Len(s) : i + k - 1 \in DOMAIN lines /\ lines[i + k - 1] = s[k]
  BY DEF Stands, At
<1>3. \A k \in 1 .. Len(s) : KindOf(lines, i + k - 1) = s[k].kind
  BY <1>2 DEF KindOf
<1>4. i + 1 - 1 = i /\ i + 2 - 1 = i + 1 /\ i + 3 - 1 = i + 2
  BY <1>1
<1>5. ASSUME NEW a, Kinds1(s, a) PROVE j = i + 1 /\ KindOf(lines, i) = a
  <2>1. Len(s) = 1 /\ s[1].kind = a
    BY <1>5 DEF Kinds1
  <2>2. 1 \in 1 .. Len(s)
    BY <2>1
  <2>3. KindOf(lines, i) = s[1].kind
    BY <1>3, <1>4, <2>2
  <2>4. QED
    BY <1>1, <2>1, <2>3
<1>6. ASSUME NEW a, NEW b, Kinds2(s, a, b)
      PROVE  j = i + 2 /\ KindOf(lines, i) = a /\ KindOf(lines, i + 1) = b
  <2>1. Len(s) = 2 /\ s[1].kind = a /\ s[2].kind = b
    BY <1>6 DEF Kinds2
  <2>2. 1 \in 1 .. Len(s) /\ 2 \in 1 .. Len(s)
    BY <2>1
  <2>3. KindOf(lines, i) = s[1].kind /\ KindOf(lines, i + 1) = s[2].kind
    BY <1>3, <1>4, <2>2
  <2>4. QED
    BY <1>1, <2>1, <2>3
<1>7. ASSUME NEW a, NEW b, NEW c, Kinds3(s, a, b, c)
      PROVE  /\ j = i + 3 /\ KindOf(lines, i) = a /\ KindOf(lines, i + 1) = b
             /\ KindOf(lines, i + 2) = c
  <2>1. Len(s) = 3 /\ s[1].kind = a /\ s[2].kind = b /\ s[3].kind = c
    BY <1>7 DEF Kinds3
  <2>2. 1 \in 1 .. Len(s) /\ 2 \in 1 .. Len(s) /\ 3 \in 1 .. Len(s)
    BY <2>1
  <2>3. KindOf(lines, i) = s[1].kind /\ KindOf(lines, i + 1) = s[2].kind
        /\ KindOf(lines, i + 2) = s[3].kind
    BY <1>3, <1>4, <2>2
  <2>4. QED
    BY <1>1, <2>1, <2>3
<1>8. QED
  BY <1>5, <1>6, <1>7

(* What is read at a line.                                                 *)
LEMMA ReadHere ==
  ASSUME NEW lines, NEW read, Context(lines, read), NEW i \in 1 .. Len(lines) + 1
  PROVE  /\ read[<<i, "chain">>] = Chain(lines, read, i)
         /\ \A way \in {"top", "braces"} : read[<<i, way>>] = BlockLines(lines, read, i, way)
  BY DEF Context, ReadsAll, ReadOf, Ways

LEMMA ReadClose ==
  ASSUME NEW lines, NEW read, Context(lines, read), NEW i \in 1 .. Len(lines) + 1,
         KindOf(lines, i) = "close"
  PROVE  read[<<i, "braces">>] = Parsed(<<>>, i + 1)
<1>1. read[<<i, "braces">>] = BlockLines(lines, read, i, "braces")
  BY ReadHere
<1>2. BlockBy(lines, i, "braces")
  BY BlockIs
<1>3. Shuts(lines, i, "braces") /\ KindOf(lines, i) \notin Elses \cup {"nothing"}
  BY DEF Shuts, Elses
<1>4. QED
  BY <1>1, <1>2, <1>3, Zenon DEF BlockBy

LEMMA SendRead ==
  ASSUME NEW says, IsSaying(says), Sendable(says), NEW i
  PROVE  SimpleCommand(CommandLine(says).text, i) = Parsed(<<Send(Strokes(says))>>, i + 1)
<1> DEFINE c == <<"sendinput">>
           r == RenderItems(says)
           w == c \o r
<1>1. CommandLine(says).text = w
  BY LineIs DEF CommandLine
<1>2. r \in Seq(Tokens) /\ r # <<>>
  BY CommandTyped
<1>3. "sendinput" \in Tokens
  BY DEF Tokens, Marks
<1>4. c \in Seq(Tokens) /\ c[1] = "sendinput" /\ IsOne(c)
  BY <1>3, TuplesTyped DEF IsOne
<1>5. ParseSequence(r) = [ok |-> TRUE, parts |-> Strokes(says)]
  BY SendParsed
<1> HIDE DEF c, r
<1>6. w \in Seq(Tokens) /\ Juxtaposed(w, c, r)
  BY <1>2, <1>4, Concat
<1> HIDE DEF w
<1>7. w # <<>> /\ w[1] = "sendinput" /\ Len(w) = 1 + Len(r) /\ \A k \in 1 .. Len(r) : w[1 + k] = r[k]
  BY <1>2, <1>4, <1>6 DEF Juxtaposed, IsOne
<1>8. Tail(w) = r
  <2>1. Tail(w) \in Seq(Tokens) /\ Len(Tail(w)) = Len(r)
    BY <1>2, <1>6, <1>7
  <2>2. \A k \in 1 .. Len(Tail(w)) : Tail(w)[k] = r[k]
    BY <1>2, <1>6, <1>7
  <2>3. QED
    BY <1>2, <2>1, <2>2, SameSequence
<1>9. Named(w, {"sendinput"})
  BY <1>7 DEF Named
<1>10. ParseSequence(r).ok /\ ParseSequence(r).parts = Strokes(says)
  BY <1>5
<1>11. SimpleCommand(w, i) =
         IF r = <<>> \/ ~ParseSequence(r).ok THEN Thrown
         ELSE Parsed(<<Send(ParseSequence(r).parts)>>, i + 1)
  BY <1>8, <1>9, Zenon DEF SimpleCommand
<1>12. QED
  BY <1>1, <1>2, <1>10, <1>11, Zenon

(* The Ifs whose branches are read as the tree they are of.                *)
BranchesRead(if, lines, read, i, j) ==
    /\ Context(lines, read) /\ Stands(lines, i, Ready(RenderBranches[if]), j)
    /\ KindOf(lines, j) \notin Elses
    => IfChain(read[<<i, "braces">>], lines, read) = Parsed(<<Trees[if]>>, j)
ReadIfs == {if \in AllIfs : \A lines, read, i, j : BranchesRead(if, lines, read, i, j)}

TreeOf(s) == IF IsSend(s) THEN Send(Strokes(s.says)) ELSE Trees[s]
Starts == {"command", "if", "ifopen"}

LEMMA StartsStay ==
  ASSUME NEW k \in Starts
  PROVE  k \notin Elses /\ k # "nothing" /\ k # "close" /\ (k # "command" => k \in Ifs \ Elses)
  BY DEF Starts, Elses, Ifs

LEMMA StatementTyped ==
  ASSUME NEW s, (IsSend(s) /\ IsSaying(s.says)) \/ (~IsSend(s) /\ s \in AllIfs)
  PROVE  StatementLines(s) \in Seq(BodyLines) /\ Ready(StatementLines(s)) \in Seq(BodyLines)
<1>1. CASE IsSend(s)
  <2>1. CommandLine(s.says) \in BodyLines /\ StatementLines(s) = <<CommandLine(s.says)>>
    BY <1>1, CommandTyped DEF StatementLines
  <2>2. QED
    BY <2>1, TuplesTyped, BodyWritten
<1>2. CASE ~IsSend(s)
  <2> DEFINE o == Opening(s)
             b == RenderBranches[s]
  <2>1. o \in Seq(BodyLines) /\ b \in Seq(BodyLines)
    BY <1>2, AllBranching, OpeningIs DEF Branching
  <2>2. StatementLines(s) = o \o b
    BY <1>2 DEF StatementLines
  <2> HIDE DEF o, b
  <2>3. o \o b \in Seq(BodyLines)
    BY <2>1
  <2>4. QED
    BY <2>2, <2>3, BodyWritten
<1>3. QED
  BY <1>1, <1>2

(* A statement is read whole.                                              *)
LEMMA StatementRead ==
  ASSUME NEW lines, NEW read, Context(lines, read), NEW s,
         \/ IsSend(s) /\ IsSaying(s.says) /\ Sendable(s.says)
         \/ ~IsSend(s) /\ s \in ReadIfs,
         NEW i, NEW j, Stands(lines, i, Ready(StatementLines(s)), j)
  PROVE  /\ KindOf(lines, i) \in Starts /\ i \in 1 .. Len(lines)
         /\ KindOf(lines, j) \notin Elses => First(lines, read, i) = Parsed(<<TreeOf(s)>>, j)
<1>0. lines \in Seq(BodyLines) /\ i \in 1 .. Len(lines) + 1
  BY DEF Context, Stands
<1>1. CASE IsSend(s)
  <2> DEFINE c == CommandLine(s.says)
  <2>1. c \in BodyLines /\ StatementLines(s) = <<c>>
    BY <1>1, CommandTyped DEF StatementLines
  <2>2. c.kind = "command"
    BY LineIs DEF CommandLine
  <2>4. SimpleCommand(c.text, i) = Parsed(<<TreeOf(s)>>, i + 1)
    BY <1>1, SendRead DEF TreeOf
  <2> HIDE DEF c
  <2>3. Ready(<<c>>) = <<c>>
    BY <2>1, <2>2, ReadyPlain DEF ElseBehind
  <2>5. Stands(lines, i, <<c>>, j)
    BY <2>1, <2>3
  <2>6. j = i + 1 /\ i \in DOMAIN lines /\ lines[i] = c
    <3>1. Len(<<c>>) = 1 /\ <<c>>[1] = c /\ 1 \in 1 .. 1 /\ i + 1 - 1 = i
      BY <1>0
    <3>2. QED
      BY <2>5, <3>1 DEF Stands, At
  <2>7. KindOf(lines, i) = "command"
    BY <2>2, <2>6 DEF KindOf
  <2>8. First(lines, read, i) = SimpleCommand(lines[i].text, i)
    <3>1. "command" \notin Ifs \ Elses
      BY DEF Ifs
    <3>2. QED
      BY <2>7, <3>1, Zenon DEF First
  <2>9. QED
    BY <1>0, <2>4, <2>6, <2>7, <2>8 DEF Starts
<1>2. CASE ~IsSend(s)
  <2> DEFINE o == Opening(s)
             b == RenderBranches[s]
  <2>1. o \in Seq(BodyLines) /\ b \in Seq(BodyLines) /\ s \in ReadIfs
    BY <1>2, AllBranching, OpeningIs DEF Branching, ReadIfs
  <2>2. StatementLines(s) = o \o b
    BY <1>2 DEF StatementLines
  <2>3. TreeOf(s) = Trees[s]
    BY <1>2 DEF TreeOf
  <2>4. /\ s.style = "own" => Kinds2(Ready(o), "if", "open")
        /\ s.style # "own" => Kinds1(Ready(o), "ifopen")
    BY BracesReady
  <2> DEFINE ro == Ready(o)
             rb == Ready(b)
  <2>5. ro \in Seq(BodyLines) /\ rb \in Seq(BodyLines)
    BY <2>1, BodyWritten
  <2>6. \A k : BranchesRead(s, lines, read, k, j)
    BY <2>1 DEF ReadIfs
  <2>7. ReadyJoin(o, b)
    BY <2>1, ReadyBoth
  <2>8. Stands(lines, i, ro \o rb, j)
    BY <2>2, <2>7 DEF ReadyJoin
  <2> HIDE DEF o, ro
  <2>9. PICK k : Stands(lines, i, ro, k) /\ Stands(lines, k, rb, j)
    BY <1>0, <2>5, <2>8, StandsBoth
  <2>10. KindOf(lines, j) \notin Elses =>
             IfChain(read[<<k, "braces">>], lines, read) = Parsed(<<Trees[s]>>, j)
    BY <2>6, <2>9 DEF BranchesRead
  <2> DEFINE kind == KindOf(lines, i)
             then == Branch(lines, read, i, kind \in {"ifopen", "elseifopen"})
  <2>11. kind \in {"if", "ifopen"} /\ then = read[<<k, "braces">>]
    <3>1. CASE s.style = "own"
      <4>1. k = i + 2 /\ kind = "if" /\ KindOf(lines, i + 1) = "open"
        BY <1>0, <2>4, <2>5, <2>9, <3>1, StandsKinds DEF ro
      <4>2. kind \notin {"ifopen", "elseifopen"}
        BY <4>1
      <4>3. QED
        BY <4>1, <4>2, Zenon DEF Branch
    <3>2. CASE s.style # "own"
      <4>1. k = i + 1 /\ kind = "ifopen"
        BY <1>0, <2>4, <2>5, <2>9, <3>2, StandsKinds DEF ro
      <4>2. kind \in {"ifopen", "elseifopen"}
        BY <4>1
      <4>3. QED
        BY <4>1, <4>2, Zenon DEF Branch
    <3>3. QED
      BY <3>1, <3>2
  <2>12. kind \in Ifs /\ kind \in Ifs \ Elses
    BY <2>11 DEF Ifs, Elses
  <2>13. Chain(lines, read, i) = IfChain(then, lines, read)
    BY <2>12, ChainIs
  <2>14. First(lines, read, i) = read[<<i, "chain">>]
    BY <2>12, Zenon DEF First
  <2>15. read[<<i, "chain">>] = Chain(lines, read, i)
    BY <1>0, ReadHere
  <2>16. i \in 1 .. Len(lines)
    <3>1. Len(lines) \in Nat /\ DOMAIN lines = 1 .. Len(lines)
      BY <1>0
    <3>2. KindOf(lines, i) # "nothing"
      BY <2>11
    <3>3. QED
      BY <3>1, <3>2, KindInside
  <2>17. kind \in Starts
    BY <2>11 DEF Starts
  <2> HIDE DEF kind, then
  <2>18. KindOf(lines, j) \notin Elses => First(lines, read, i) = Parsed(<<TreeOf(s)>>, j)
    BY <2>3, <2>10, <2>11, <2>13, <2>14, <2>15
  <2>19. QED
    BY <2>16, <2>17, <2>18 DEF kind
<1>3. QED
  BY <1>1, <1>2

ReadSeqs(body) == [k \in DOMAIN BodySeqs(body) |-> Ready(BodySeqs(body)[k])]

LEMMA ReadyBody ==
  ASSUME NEW body, NEW ifs, IsBody(body, ifs), ifs \subseteq AllIfs
  PROVE  /\ ReadSeqs(body) \in Seq(Seq(BodyLines)) /\ Len(ReadSeqs(body)) = Len(body)
         /\ Ready(LaidOut(body, RenderBranches)) = FlattenSeq(ReadSeqs(body))
         /\ \A k \in 1 .. Len(body) : ReadSeqs(body)[k] = Ready(StatementLines(body[k]))
<1> DEFINE n == Len(body)
           q == BodySeqs(body)
           r == ReadSeqs(body)
<1>1. ifs \subseteq Branching
  BY AllBranching
<1>2. q \in Seq(Seq(BodyLines)) /\ Len(q) = n
  BY <1>1, BodyTyped
<1>3. n \in Nat /\ DOMAIN q = 1 .. n /\ \A k \in 1 .. n : q[k] = StatementLines(body[k])
  BY BodyListed
<1>4. FlatMapped(SplitOf, q)
  <2>1. q \in Seq(Seq(Written))
    <3>1. Seq(BodyLines) \subseteq Seq(Written)
      BY BodyWritten
    <3> HIDE DEF q
    <3>2. QED
      BY <1>2, <3>1, Wider
  <2>2. QED
    BY <2>1, SplitTyped, MappedFlat
<1>5. r = [k \in DOMAIN q |-> Mapped(SplitOf, q[k])]
  BY Zenon DEF ReadSeqs, Ready
<1>6. Ready(FlattenSeq(q)) = FlattenSeq(r)
  BY <1>4, <1>5, Zenon DEF FlatMapped, Ready
<1>7. LaidOut(body, RenderBranches) = FlattenSeq(q)
  BY LaidOutIs
<1>8. \A k \in 1 .. n : r[k] = Ready(q[k])
  <2> HIDE DEF q
  <2> QED BY <1>3 DEF ReadSeqs, q
<1>9. r \in Seq(Seq(BodyLines)) /\ Len(r) = n
  <2>1. \A k \in 1 .. n : q[k] \in Seq(BodyLines)
    <3> HIDE DEF q, n
    <3> QED BY <1>2, <1>3
  <2>2. \A k \in 1 .. n : r[k] \in Seq(BodyLines)
    BY <1>8, <2>1, BodyWritten
  <2>3. r = [k \in 1 .. n |-> r[k]]
    BY <1>3 DEF ReadSeqs
  <2> HIDE DEF r, n
  <2>4. QED
    BY <1>3, <2>2, <2>3
<1> HIDE DEF r, q, n
<1>10. \A k \in 1 .. n : r[k] = Ready(StatementLines(body[k]))
  BY <1>3, <1>8
<1>11. QED
  BY <1>6, <1>7, <1>9, <1>10 DEF r, q, n

LEMMA TreeIs ==
  ASSUME NEW body, NEW ifs, IsBody(body, ifs)
  PROVE  /\ DOMAIN Tree(body) = 1 .. Len(body)
         /\ \A k \in 1 .. Len(body) : Tree(body)[k] = TreeOf(body[k])
         /\ \A T : (\A k \in 1 .. Len(body) : TreeOf(body[k]) \in T)
                => Tree(body) \in Seq(T) /\ Len(Tree(body)) = Len(body)
<1> DEFINE n == Len(body)
           t == Tree(body)
<1>1. n \in Nat /\ DOMAIN body = 1 .. n
  BY BodyListed
<1>2. t = [k \in 1 .. n |-> TreeOf(body[k])]
  <2> HIDE DEF n
  <2> QED BY <1>1 DEF Tree, Grown, TreeOf
<1> HIDE DEF t, n
<1>3. DOMAIN t = 1 .. n /\ \A k \in 1 .. n : t[k] = TreeOf(body[k])
  BY <1>2
<1>4. ASSUME NEW T, \A k \in 1 .. n : TreeOf(body[k]) \in T
      PROVE  t \in Seq(T) /\ Len(t) = n
  <2>1. t \in [1 .. n -> T]
    BY <1>2, <1>4
  <2>2. QED
    BY <1>1, <2>1
<1>5. QED
  BY <1>3, <1>4 DEF t, n

Readable(s) ==
    \/ IsSend(s) /\ IsSaying(s.says) /\ Sendable(s.says)
    \/ ~IsSend(s) /\ s \in ReadIfs
ReadOn(read, s, i, j, way) ==
    read[<<i, way>>] =
        Parsed(<<TreeOf(s)>> \o read[<<j, way>>].commands, read[<<j, way>>].next)

(* A statement in front of what is read already.                           *)
LEMMA StatementJoined ==
  ASSUME NEW lines, NEW read, Context(lines, read), NEW s, Readable(s),
         NEW i, NEW j, Stands(lines, i, Ready(StatementLines(s)), j),
         KindOf(lines, j) \notin Elses, NEW way \in {"top", "braces"},
         read[<<j, way>>].next # 0
  PROVE  ReadOn(read, s, i, j, way)
<1> DEFINE a == First(lines, read, i)
<1>1. KindOf(lines, i) \in Starts /\ i \in 1 .. Len(lines) + 1 /\ a = Parsed(<<TreeOf(s)>>, j)
  BY StatementRead DEF Stands, Readable
<1>2. BlockBy(lines, i, way)
  BY BlockIs
<1>3. KindOf(lines, i) \notin Elses \cup {"nothing"} /\ ~Shuts(lines, i, way)
  BY <1>1, StartsStay DEF Shuts
<1>4. BlockLines(lines, read, i, way) = Joining(a, read[<<a.next, way>>])
  BY <1>2, <1>3, Zenon DEF BlockBy
<1>5. read[<<i, way>>] = BlockLines(lines, read, i, way)
  BY <1>1, ReadHere
<1>6. a.next = j /\ a.commands = <<TreeOf(s)>>
  BY <1>1, ParsedIs
<1>7. j # 0
  BY DEF Stands
<1> HIDE DEF a
<1>8. Joining(a, read[<<j, way>>])
        = Parsed(<<TreeOf(s)>> \o read[<<j, way>>].commands, read[<<j, way>>].next)
  BY <1>6, <1>7, Zenon DEF Joining
<1>9. QED
  BY <1>4, <1>5, <1>6, <1>8 DEF ReadOn

(* Where each of some parts stands when all of them do.                    *)
StandsEach(p, lines, i, r, j) ==
    /\ p \in [0 .. Len(r) -> Nat] /\ p[0] = i /\ p[Len(r)] = j
    /\ \A k \in 1 .. Len(r) : Stands(lines, p[k - 1], r[k], p[k])

LEMMA StandsFlat ==
  ASSUME NEW S, NEW lines \in Seq(S), NEW r \in Seq(Seq(S)), NEW i, NEW j,
         Stands(lines, i, FlattenSeq(r), j)
  PROVE  \E p : StandsEach(p, lines, i, r, j)
<1> DEFINE n == Len(r)
           N == Len(lines)
<1>1. Len(r) = n
  OBVIOUS
<1>2. n \in Nat
  OBVIOUS
<1>3. i \in 1 .. N + 1 /\ i \in Nat /\ j \in 1 .. N + 1 /\ N \in Nat
      /\ At(lines, i, FlattenSeq(r)) /\ j = i + Len(FlattenSeq(r))
  BY DEF Stands
<1> HIDE DEF n
<1>4. PICK p : Places(p, lines, i, r)
  BY <1>1, <1>3, PlacesExist
<1>5. /\ p \in [0 .. n -> Nat] /\ p[0] = i /\ p[n] = j
      /\ \A k \in 1 .. n : p[k] = p[k - 1] + Len(r[k]) /\ At(lines, p[k - 1], r[k])
  BY <1>1, <1>3, <1>4 DEF Places
<1>6. \A k \in 1 .. n : Len(r[k]) \in Nat
  <2>1. \A k \in 1 .. n : r[k] \in Seq(S)
    BY <1>1, <1>2
  <2>2. QED
    BY <2>1
<1>7. \A k \in 0 .. n : p[k] >= 1
  <2> DEFINE P == {k \in 0 .. n : p[k] >= 1}
  <2>1. 0 \in P
    BY <1>2, <1>3, <1>5
  <2>2. ASSUME NEW k \in 1 .. n, k - 1 \in P PROVE k \in P
    <3>1. k \in 0 .. n /\ k - 1 \in 0 .. n /\ p[k - 1] >= 1 /\ p[k - 1] \in Nat /\ p[k] \in Nat
      BY <1>2, <1>5, <2>2
    <3>2. p[k] = p[k - 1] + Len(r[k]) /\ Len(r[k]) \in Nat
      BY <1>5, <1>6
    <3> DEFINE x == p[k - 1]
               y == p[k]
               l == Len(r[k])
    <3>3. y = x + l /\ x >= 1 /\ x \in Nat /\ l \in Nat /\ k \in 0 .. n
      BY <3>1, <3>2
    <3> HIDE DEF x, y, l
    <3>4. y >= 1
      BY <3>3
    <3>5. QED
      BY <3>3, <3>4 DEF y
  <2> HIDE DEF P
  <2>3. \A k \in 0 .. n : k \in P
    BY <1>2, <2>1, <2>2, UpTo
  <2>4. QED
    BY <2>3 DEF P
<1>8. \A k \in 0 .. n : p[k] <= N + 1
  <2> DEFINE P == {m \in 0 .. n : p[n - m] <= N + 1}
  <2>1. 0 \in P
    BY <1>2, <1>3, <1>5
  <2>2. ASSUME NEW m \in 1 .. n, m - 1 \in P PROVE m \in P
    <3> DEFINE k == n - m + 1
    <3>1. k \in 1 .. n /\ k \in 0 .. n /\ k - 1 \in 0 .. n /\ k - 1 = n - m /\ k = n - (m - 1) /\ m \in 0 .. n
      BY <1>2
    <3> HIDE DEF k
    <3>2. p[k] <= N + 1 /\ p[k - 1] \in Nat /\ p[k] \in Nat
      BY <1>5, <2>2, <3>1
    <3>3. p[k] = p[k - 1] + Len(r[k]) /\ Len(r[k]) \in Nat
      BY <1>5, <1>6, <3>1
    <3> DEFINE x == p[k - 1]
               y == p[k]
               l == Len(r[k])
    <3>4. y = x + l /\ y <= N + 1 /\ x \in Nat /\ l \in Nat
      BY <3>2, <3>3
    <3> HIDE DEF x, y, l, N
    <3>5. x <= N + 1
      BY <1>3, <3>4
    <3>6. QED
      BY <3>1, <3>5 DEF x
  <2> HIDE DEF P
  <2>3. \A m \in 0 .. n : m \in P
    BY <1>2, <2>1, <2>2, UpTo
  <2>4. ASSUME NEW k \in 0 .. n PROVE p[k] <= N + 1
    <3>1. n - k \in 0 .. n /\ n - (n - k) = k
      BY <1>2
    <3>2. p[n - (n - k)] <= N + 1
      BY <2>3, <3>1 DEF P
    <3>3. QED
      BY <3>1, <3>2
  <2>5. QED
    BY <2>4
<1>9. \A k \in 0 .. n : p[k] \in 1 .. N + 1
  <2> HIDE DEF N
  <2> QED BY <1>3, <1>5, <1>7, <1>8
<1>10. ASSUME NEW k \in 1 .. n PROVE Stands(lines, p[k - 1], r[k], p[k])
  <2>1. k \in 0 .. n /\ k - 1 \in 0 .. n
    BY <1>2
  <2>2. p[k] \in 1 .. N + 1 /\ p[k - 1] \in 1 .. N + 1
    BY <1>9, <2>1
  <2>3. p[k] = p[k - 1] + Len(r[k]) /\ At(lines, p[k - 1], r[k])
    BY <1>5
  <2>4. QED
    BY <2>2, <2>3 DEF Stands
<1>11. QED
  BY <1>5, <1>10 DEF StandsEach, n

(* Where the statements of a body stand.                                   *)
Stations(p, lines, i, body, j) ==
    /\ p \in [0 .. Len(body) -> Nat] /\ p[0] = i /\ p[Len(body)] = j
    /\ \A k \in 1 .. Len(body) :
          Stands(lines, p[k - 1], Ready(StatementLines(body[k])), p[k])

LEMMA StationsExist ==
  ASSUME NEW lines \in Seq(BodyLines), NEW body, NEW ifs, IsBody(body, ifs), ifs \subseteq AllIfs,
         NEW i, NEW j, Stands(lines, i, Ready(LaidOut(body, RenderBranches)), j)
  PROVE  \E p : Stations(p, lines, i, body, j)
<1> DEFINE r == ReadSeqs(body)
           n == Len(body)
<1>1. /\ r \in Seq(Seq(BodyLines)) /\ Len(r) = n
      /\ Ready(LaidOut(body, RenderBranches)) = FlattenSeq(r)
      /\ \A k \in 1 .. n : r[k] = Ready(StatementLines(body[k]))
  BY ReadyBody
<1>2. n \in Nat
  BY BodyListed
<1> HIDE DEF r, n
<1>3. Stands(lines, i, FlattenSeq(r), j)
  BY <1>1
<1>4. PICK p : StandsEach(p, lines, i, r, j)
  BY <1>1, <1>3, StandsFlat
<1>5. /\ p \in [0 .. n -> Nat] /\ p[0] = i /\ p[n] = j
      /\ \A k \in 1 .. n : Stands(lines, p[k - 1], r[k], p[k])
  BY <1>1, <1>4 DEF StandsEach
<1>6. \A k \in 1 .. n : Stands(lines, p[k - 1], Ready(StatementLines(body[k])), p[k])
  BY <1>1, <1>5
<1>7. QED
  BY <1>5, <1>6 DEF Stations, n

EndsAt(read, j, way, x) == x # 0 /\ read[<<j, way>>] = Parsed(<<>>, x)
ReadAs(read, i, way, tree, x) == read[<<i, way>>] = Parsed(tree, x)

(* A body is read as its tree, and what is behind it.                      *)
LEMMA BodyRead ==
  ASSUME NEW lines, NEW read, Context(lines, read), NEW body, NEW ifs, IsBody(body, ifs),
         ifs \subseteq ReadIfs, NEW i, NEW j,
         Stands(lines, i, Ready(LaidOut(body, RenderBranches)), j),
         KindOf(lines, j) \notin Elses, NEW way \in {"top", "braces"},
         NEW x, EndsAt(read, j, way, x)
  PROVE  ReadAs(read, i, way, Tree(body), x)
<1> DEFINE n == Len(body)
           T == {TreeOf(body[k]) : k \in 1 .. n}
           t == Tree(body)
           c == [m \in Nat |-> read[<<m, way>>].commands]
<1>0. x # 0 /\ read[<<j, way>>] = Parsed(<<>>, x)
  BY DEF EndsAt
<1>1. lines \in Seq(BodyLines) /\ ifs \subseteq AllIfs
  BY DEF Context, ReadIfs
<1>2. PICK p : Stations(p, lines, i, body, j)
  BY <1>1, StationsExist
<1>3. n \in Nat /\ \A k \in 1 .. n : \/ IsSend(body[k]) /\ IsSaying(body[k].says) /\ Sendable(body[k].says)
                                     \/ ~IsSend(body[k]) /\ body[k] \in ReadIfs
  BY BodyListed
<1>4. /\ t \in Seq(T) /\ Len(t) = n
      /\ \A k \in 1 .. n : t[k] = TreeOf(body[k])
  <2>1. \A k \in 1 .. Len(body) : TreeOf(body[k]) \in T
    OBVIOUS
  <2> HIDE DEF T
  <2>2. QED
    BY <2>1, TreeIs
<1>5. /\ p \in [0 .. n -> Nat] /\ p[0] = i /\ p[n] = j
      /\ \A k \in 1 .. n : Stands(lines, p[k - 1], Ready(StatementLines(body[k])), p[k])
  BY <1>2 DEF Stations
<1>6. \A k \in 0 .. n : KindOf(lines, p[k]) \notin Elses
  <2>1. ASSUME NEW k \in 0 .. n, k # n PROVE KindOf(lines, p[k]) \notin Elses
    <3>1. k + 1 \in 1 .. n /\ k + 1 - 1 = k
      <4> HIDE DEF n
      <4> QED BY <1>3, <2>1
    <3>2. Stands(lines, p[k], Ready(StatementLines(body[k + 1])), p[k + 1])
      BY <1>5, <3>1
    <3>3. KindOf(lines, p[k]) \in Starts
      BY <1>3, <3>1, <3>2, StatementRead
    <3>4. QED
      BY <3>3, StartsStay
  <2>2. KindOf(lines, p[n]) \notin Elses
    BY <1>5
  <2> HIDE DEF n
  <2>3. QED
    BY <2>1, <2>2
<1>7. ASSUME NEW k \in 1 .. n, read[<<p[k], way>>].next # 0
      PROVE  read[<<p[k - 1], way>>] =
                Parsed(<<t[k]>> \o read[<<p[k], way>>].commands, read[<<p[k], way>>].next)
  <2>1. k \in 0 .. n
    <3> HIDE DEF n
    <3> QED BY <1>3
  <2>2. KindOf(lines, p[k]) \notin Elses
    BY <1>6, <2>1
  <2>3. Stands(lines, p[k - 1], Ready(StatementLines(body[k])), p[k]) /\ t[k] = TreeOf(body[k])
    BY <1>4, <1>5
  <2> DEFINE s == body[k]
             a == p[k - 1]
             b == p[k]
  <2>6. /\ Readable(s)
        /\ Stands(lines, a, Ready(StatementLines(s)), b) /\ KindOf(lines, b) \notin Elses
        /\ read[<<b, way>>].next # 0
    BY <1>3, <1>7, <2>2, <2>3 DEF Readable
  <2> HIDE DEF n, t, s, a, b
  <2>7. ReadOn(read, s, a, b, way)
    BY <2>6, StatementJoined
  <2>4. read[<<p[k - 1], way>>] =
          Parsed(<<TreeOf(body[k])>> \o read[<<p[k], way>>].commands, read[<<p[k], way>>].next)
    BY <2>7 DEF s, a, b, ReadOn
  <2>5. QED
    BY <2>3, <2>4
<1> DEFINE r(k) == read[<<p[k], way>>]
           P == {m \in 0 .. n : /\ r(n - m).next = x /\ r(n - m).commands \in Seq(T)
                                /\ r(n - m) = Parsed(r(n - m).commands, x)}
<1>8. 0 \in P
  <2>1. p[n - 0] = j /\ 0 \in 0 .. n
    <3> HIDE DEF n
    <3> QED BY <1>3, <1>5
  <2>2. <<>> \in Seq(T)
    OBVIOUS
  <2> HIDE DEF n, T
  <2>3. r(n - 0) = Parsed(<<>>, x)
    BY <1>0, <2>1
  <2>4. r(n - 0).next = x /\ r(n - 0).commands = <<>>
    BY <2>3, ParsedIs
  <2> HIDE DEF r
  <2>5. QED
    BY <2>1, <2>2, <2>3, <2>4
<1>9. ASSUME NEW m \in 1 .. n, m - 1 \in P PROVE m \in P
  <2> DEFINE k == n - m + 1
  <2>1. k \in 1 .. n /\ k - 1 = n - m /\ k = n - (m - 1) /\ m \in 0 .. n
    <3> HIDE DEF n
    <3> QED BY <1>3
  <2> HIDE DEF k
  <2>2. r(k).next = x /\ r(k).commands \in Seq(T)
    <3> HIDE DEF r, n, T
    <3> QED BY <1>9, <2>1
  <2>3. r(k - 1) = Parsed(<<t[k]>> \o r(k).commands, x)
    <3> HIDE DEF n, t
    <3> QED BY <1>0, <1>7, <2>1, <2>2
  <2>4. t[k] \in T
    BY <1>4, <2>1
  <2> HIDE DEF T, t, n, r
  <2>5. <<t[k]>> \in Seq(T)
    BY <2>4, TuplesTyped
  <2>6. <<t[k]>> \o r(k).commands \in Seq(T)
    BY <2>2, <2>5, Concat
  <2>7. r(n - m).next = x /\ r(n - m).commands = <<t[k]>> \o r(k).commands
    <3> DEFINE u == r(k - 1)
               v == <<t[k]>> \o r(k).commands
    <3>1. u = Parsed(v, x)
      BY <2>3
    <3> HIDE DEF u, v
    <3>2. u.next = x /\ u.commands = v
      BY <3>1, ParsedIs
    <3>3. QED
      BY <2>1, <3>2 DEF u, v
  <2>8. QED
    BY <2>1, <2>3, <2>6, <2>7
<1>10. ASSUME NEW k \in 0 .. n
       PROVE  r(k).next = x /\ r(k).commands \in Seq(T) /\ r(k) = Parsed(r(k).commands, x)
  <2> HIDE DEF n, r, T
  <2>1. \A m \in 0 .. n : m \in P
    <3> HIDE DEF P
    <3> QED BY <1>3, <1>8, <1>9, UpTo
  <2>2. n - k \in 0 .. n /\ n - (n - k) = k
    BY <1>3
  <2>3. n - k \in P
    BY <2>1, <2>2
  <2>4. QED
    BY <2>2, <2>3
<1> DEFINE q == Single(t)
<1>11. q \in Seq(Seq(T)) /\ Len(q) = n /\ \A k \in 1 .. n : q[k] = <<t[k]>>
  <2> HIDE DEF T, t, n
  <2>1. DOMAIN t = 1 .. n /\ n \in Nat
    BY <1>3, <1>4
  <2>2. q = [k \in 1 .. n |-> <<t[k]>>]
    BY <2>1 DEF Single
  <2>3. \A k \in 1 .. n : t[k] \in T
    BY <1>4
  <2>4. \A k \in 1 .. n : <<t[k]>> \in Seq(T)
    BY <2>3, TuplesTyped
  <2> HIDE DEF q
  <2>5. q \in [1 .. n -> Seq(T)]
    BY <2>2, <2>4
  <2>6. \A k \in 1 .. n : q[k] = <<t[k]>>
    BY <2>2
  <2>7. q \in Seq(Seq(T)) /\ Len(q) = n
    BY <2>1, <2>5
  <2>8. QED
    BY <2>6, <2>7
<1>12. \A k \in 0 .. n : c[p[k]] = r(k).commands
  BY <1>5
<1>13. Telescopes(c, p, q)
  <2> HIDE DEF T, t, n, r, c, q
  <2>1. ASSUME NEW k \in 1 .. n PROVE c[p[k - 1]] = q[k] \o c[p[k]]
    <3>1. k \in 0 .. n /\ k - 1 \in 0 .. n
      BY <1>3
    <3>2. r(k).next # 0
      BY <1>0, <1>10, <3>1
    <3>3. r(k - 1) = Parsed(<<t[k]>> \o r(k).commands, r(k).next)
      BY <1>7, <3>2 DEF r
    <3>4. r(k - 1).commands = <<t[k]>> \o r(k).commands
      BY <3>3, ParsedIs
    <3>5. c[p[k]] = r(k).commands /\ c[p[k - 1]] = r(k - 1).commands
      BY <1>12, <3>1
    <3>6. QED
      BY <1>11, <3>4, <3>5
  <2>2. QED
    BY <1>11, <2>1 DEF Telescopes
<1>14. \A k \in 0 .. Len(q) : c[p[k]] \in Seq(T)
  <2> HIDE DEF T, t, n, r, c, q
  <2> QED BY <1>10, <1>11, <1>12
<1>15. c[p[0]] = FlattenSeq(q) \o c[p[n]]
  <2> HIDE DEF T, t, n, r, c, q
  <2>1. c[p[0]] = FlattenSeq(q) \o c[p[Len(q)]]
    <3>1. q \in Seq(Seq(T))
      BY <1>11
    <3>2. QED
      BY <3>1, <1>13, <1>14, Telescoped
  <2>2. QED
    BY <1>11, <2>1
<1>16. FlattenSeq(q) = t
  <2> HIDE DEF T, t
  <2> QED BY <1>4, FlattenSingle
<1> HIDE DEF T, t, n, c, q
<1>17. 0 \in 0 .. n /\ n \in 0 .. n
  BY <1>3
<1>18. c[p[n]] = <<>>
  <2>1. c[p[n]] = r(n).commands /\ r(n) = Parsed(<<>>, x)
    BY <1>0, <1>5, <1>12, <1>17
  <2>2. QED
    BY <2>1, ParsedIs
<1>19. c[p[0]] = t
  BY <1>4, <1>15, <1>16, <1>18, EmptyBefore
<1>20. r(0) = Parsed(t, x)
  <2> HIDE DEF r
  <2>1. r(0).commands = t /\ r(0) = Parsed(r(0).commands, x)
    BY <1>10, <1>12, <1>17, <1>19
  <2>2. QED
    BY <2>1
<1>21. QED
  BY <1>5, <1>20 DEF t, ReadAs

LEMMA AllIfsAre ==
  ASSUME NEW if \in AllIfs
  PROVE  ~IsSend(if)
<1>1. AllIfs = Lower(Len(Levels))
  BY LevelsListed
<1>2. PICK n \in 1 .. Len(Levels) : if \in Levels[n]
  BY <1>1 DEF Lower
<1>3. IsIf(if, Lower(n - 1))
  BY <1>2, LevelsListed
<1>4. if.style \in {"own", "inline", "chained", "below"}
  BY <1>3 DEF IsIf
<1>5. QED
  BY <1>4 DEF IsSend

LEMMA IfChainEnds ==
  ASSUME NEW lines, NEW read, NEW c, NEW m, m # 0, KindOf(lines, m) \notin Elses
  PROVE  IfChain(Parsed(c, m), lines, read) = Parsed(<< If(c, <<>>) >>, m)
<1> DEFINE then == Parsed(c, m)
           else == Parsed(<<>>, m)
<1>1. then.next = m /\ then.commands = c /\ else.next = m /\ else.commands = <<>>
  BY ParsedIs
<1>2. IfChain(then, lines, read) =
        LET e == IF KindOf(lines, then.next) \in Elses
                   THEN read[<<then.next, "chain">>] ELSE Parsed(<<>>, then.next)
        IN  IF then.next = 0 \/ e.next = 0 THEN Thrown
            ELSE Parsed(<< If(then.commands, e.commands) >>, e.next)
  BY Zenon DEF IfChain
<1> HIDE DEF then
<1>3. QED
  BY <1>1, <1>2, Zenon DEF then

LEMMA IfChainElse ==
  ASSUME NEW lines, NEW read, NEW c, NEW m, m # 0, KindOf(lines, m) \in Elses,
         NEW d, NEW x, x # 0, read[<<m, "chain">>] = Parsed(d, x)
  PROVE  IfChain(Parsed(c, m), lines, read) = Parsed(<< If(c, d) >>, x)
<1> DEFINE then == Parsed(c, m)
           else == Parsed(d, x)
<1>1. then.next = m /\ then.commands = c /\ else.next = x /\ else.commands = d
  BY ParsedIs
<1>2. IfChain(then, lines, read) =
        LET e == IF KindOf(lines, then.next) \in Elses
                   THEN read[<<then.next, "chain">>] ELSE Parsed(<<>>, then.next)
        IN  IF then.next = 0 \/ e.next = 0 THEN Thrown
            ELSE Parsed(<< If(then.commands, e.commands) >>, e.next)
  BY Zenon DEF IfChain
<1> HIDE DEF then, else
<1>3. IfChain(then, lines, read) =
         IF m = 0 \/ else.next = 0 THEN Thrown ELSE Parsed(<< If(c, else.commands) >>, else.next)
  BY <1>1, <1>2, Zenon DEF else
<1>4. QED
  BY <1>1, <1>3, Zenon DEF then

(* What is read at an Else.                                                *)
LEMMA ElseRead ==
  ASSUME NEW lines, NEW read, Context(lines, read), NEW i \in 1 .. Len(lines) + 1
  PROVE  /\ KindOf(lines, i) = "elseopen" => read[<<i, "chain">>] = read[<<i + 1, "braces">>]
         /\ KindOf(lines, i) = "else" /\ KindOf(lines, i + 1) = "open" =>
                read[<<i, "chain">>] = read[<<i + 2, "braces">>]
         /\ KindOf(lines, i) = "elseifopen" =>
                read[<<i, "chain">>] = IfChain(read[<<i + 1, "braces">>], lines, read)
<1> DEFINE kind == KindOf(lines, i)
<1>1. read[<<i, "chain">>] = Chain(lines, read, i)
  BY ReadHere
<1>2. /\ "elseopen" \in Elses \ Ifs /\ "else" \in Elses \ Ifs
      /\ "elseifopen" \in Ifs /\ "else" # "elseopen"
  BY DEF Elses, Ifs
<1>3. ASSUME kind = "elseopen" PROVE read[<<i, "chain">>] = read[<<i + 1, "braces">>]
  <2>1. Chain(lines, read, i) = Branch(lines, read, i, kind = "elseopen")
    BY <1>2, <1>3, ChainIs
  <2>2. Branch(lines, read, i, kind = "elseopen") = read[<<i + 1, "braces">>]
    BY <1>3, Zenon DEF Branch
  <2>3. QED
    BY <1>1, <2>1, <2>2, Zenon
<1>4. ASSUME kind = "else", KindOf(lines, i + 1) = "open"
      PROVE  read[<<i, "chain">>] = read[<<i + 2, "braces">>]
  <2>1. Chain(lines, read, i) = Branch(lines, read, i, kind = "elseopen")
    BY <1>2, <1>4, ChainIs
  <2>2. kind # "elseopen"
    BY <1>4
  <2>3. Branch(lines, read, i, kind = "elseopen") = read[<<i + 2, "braces">>]
    BY <1>4, <2>2, Zenon DEF Branch
  <2>4. QED
    BY <1>1, <2>1, <2>3, Zenon
<1>5. ASSUME kind = "elseifopen"
      PROVE  read[<<i, "chain">>] = IfChain(read[<<i + 1, "braces">>], lines, read)
  <2>1. Chain(lines, read, i) = IfChain(Branch(lines, read, i, kind \in {"ifopen", "elseifopen"}), lines, read)
    BY <1>2, <1>5, ChainIs
  <2>2. kind \in {"ifopen", "elseifopen"}
    BY <1>5
  <2>3. Branch(lines, read, i, kind \in {"ifopen", "elseifopen"}) = read[<<i + 1, "braces">>]
    BY <2>2, Zenon DEF Branch
  <2>4. QED
    BY <1>1, <2>1, <2>3, Zenon
<1>6. QED
  BY <1>3, <1>4, <1>5

LEMMA ElsesAre ==
  /\ "close" \notin Elses /\ "else" \in Elses /\ "elseopen" \in Elses /\ "elseifopen" \in Elses
  BY DEF Elses

(* A body up to a closing brace.                                           *)
LEMMA BracedRead ==
  ASSUME NEW lines, NEW read, Context(lines, read), NEW body, NEW ifs, IsBody(body, ifs),
         ifs \subseteq ReadIfs, NEW i, NEW j,
         Stands(lines, i, Ready(LaidOut(body, RenderBranches)), j),
         KindOf(lines, j) = "close"
  PROVE  read[<<i, "braces">>] = Parsed(Tree(body), j + 1) /\ j + 1 # 0
<1>1. j \in 1 .. Len(lines) + 1 /\ j + 1 # 0
  BY DEF Stands
<1>2. read[<<j, "braces">>] = Parsed(<<>>, j + 1)
  BY <1>1, ReadClose
<1>3. KindOf(lines, j) \notin Elses
  BY ElsesAre
<1> DEFINE x == j + 1
<1> HIDE DEF x
<1>4. x # 0 /\ read[<<j, "braces">>] = Parsed(<<>>, x)
  BY <1>1, <1>2 DEF x
<1>5. read[<<i, "braces">>] = Parsed(Tree(body), x)
  <2>1. EndsAt(read, j, "braces", x) /\ "braces" \in {"top", "braces"}
    BY <1>4 DEF EndsAt
  <2>2. ReadAs(read, i, "braces", Tree(body), x)
    BY <1>3, <2>1, BodyRead
  <2>3. QED
    BY <2>2 DEF ReadAs
<1>6. QED
  BY <1>1, <1>5 DEF x

LEMMA IfRead ==
  ASSUME NEW if \in AllIfs, NEW lower \in SUBSET AllIfs, IsIf(if, lower), lower \subseteq ReadIfs,
         NEW lines, NEW read, Context(lines, read), NEW i, NEW j,
         Stands(lines, i, Ready(RenderBranches[if]), j), KindOf(lines, j) \notin Elses
  PROVE  IfChain(read[<<i, "braces">>], lines, read) = Parsed(<<Trees[if]>>, j)
<1> DEFINE t == LaidOut(if.then, RenderBranches)
           e == LaidOut(if.else, RenderBranches)
           c == PlainLines(<<"close">>)
           m == Between(if.style)
           b == RenderBranches[if.else[1]]
<1>0. lines \in Seq(BodyLines) /\ j # 0
  BY DEF Context, Stands
<1>1. IsBody(if.then, lower) /\ IsBody(if.else, lower)
  BY DEF IsIf
<1>2. t \in Seq(BodyLines) /\ e \in Seq(BodyLines)
  <2>1. lower \subseteq Branching
    BY AllBranching
  <2>2. QED
    BY <1>1, <2>1, BodyTyped
<1>3. c \in Seq(BodyLines) /\ m \in Seq(BodyLines)
  <2>1. if.style \in {"own", "inline", "chained", "below"}
    BY DEF IsIf
  <2>2. QED
    BY <2>1, BetweenIs
<1>4. RenderBranches[if] = t \o (IF if.else = <<>> THEN c
          ELSE m \o (IF if.style \in {"chained", "below"} THEN b ELSE e \o c))
  BY BranchesAre DEF RenderIf
<1>5. Trees[if] = If(Tree(if.then), Tree(if.else))
  BY TreesAre DEF TreeIf, Tree
<1>6. /\ Kinds1(Ready(c), "close")
      /\ if.style = "own" => Kinds3(Ready(m), "close", "else", "open")
      /\ if.style = "inline" => Kinds2(Ready(m), "close", "elseopen")
      /\ if.style \in {"chained", "below"} => Kinds2(Ready(m), "close", "elseifopen")
  BY BracesReady
<1>7. Ready(c) \in Seq(BodyLines) /\ Ready(m) \in Seq(BodyLines) /\ Ready(t) \in Seq(BodyLines)
      /\ Ready(e) \in Seq(BodyLines)
  BY <1>2, <1>3, BodyWritten
<1>8. ASSUME NEW k, Stands(lines, i, Ready(t), k), KindOf(lines, k) = "close"
      PROVE  read[<<i, "braces">>] = Parsed(Tree(if.then), k + 1) /\ k + 1 # 0
  BY <1>1, <1>8, BracedRead
<1>9. ASSUME NEW k, NEW l, Stands(lines, k, Ready(e), l), KindOf(lines, l) = "close"
      PROVE  read[<<k, "braces">>] = Parsed(Tree(if.else), l + 1) /\ l + 1 # 0
  BY <1>1, <1>9, BracedRead
<1> DEFINE rc == Ready(c)
           rm == Ready(m)
           rt == Ready(t)
           re == Ready(e)
<1> HIDE DEF t, e, c, m
<1>10. CASE if.else = <<>>
  <2>1. RenderBranches[if] = t \o c
    BY <1>4, <1>10
  <2>2. Ready(t \o c) = rt \o rc
    BY <1>2, <1>3, ReadyBoth DEF ReadyJoin
  <2> HIDE DEF rc, rt
  <2>3. PICK k : Stands(lines, i, rt, k) /\ Stands(lines, k, rc, j)
    <3>1. rt \in Seq(BodyLines) /\ rc \in Seq(BodyLines)
      BY <1>7 DEF rt, rc
    <3>2. Stands(lines, i, rt \o rc, j)
      BY <2>1, <2>2
    <3>3. QED
      BY <1>0, <3>1, <3>2, StandsBoth
  <2>4. j = k + 1 /\ KindOf(lines, k) = "close"
    <3>1. Kinds1(rc, "close") /\ rc \in Seq(BodyLines)
      BY <1>6, <1>7 DEF rc
    <3>2. QED
      BY <1>0, <2>3, <3>1, StandsKinds
  <2>5. read[<<i, "braces">>] = Parsed(Tree(if.then), k + 1)
    BY <1>8, <2>3, <2>4 DEF rt
  <2>6. read[<<i, "braces">>] = Parsed(Tree(if.then), j)
    BY <2>4, <2>5
  <2>7. Tree(if.else) = <<>>
    BY <1>10 DEF Tree, Grown
  <2>8. IfChain(Parsed(Tree(if.then), j), lines, read) = Parsed(<< If(Tree(if.then), <<>>) >>, j)
    BY <1>0, IfChainEnds
  <2>9. QED
    BY <1>5, <2>6, <2>7, <2>8, Zenon
<1>11. CASE if.else # <<>> /\ if.style \notin {"chained", "below"}
  <2>1. RenderBranches[if] = t \o (m \o (e \o c))
    BY <1>4, <1>11
  <2>2. Ready(t \o (m \o (e \o c))) = rt \o (rm \o (re \o rc))
    <3> DEFINE x == e \o c
               y == m \o x
    <3>1. x \in Seq(BodyLines) /\ ReadyJoin(e, c)
      BY <1>2, <1>3, ReadyBoth
    <3> HIDE DEF x
    <3>2. y \in Seq(BodyLines) /\ ReadyJoin(m, x)
      BY <1>3, <3>1, ReadyBoth
    <3> HIDE DEF y
    <3>3. ReadyJoin(t, y)
      BY <1>2, <3>2, ReadyBoth
    <3>4. QED
      BY <3>1, <3>2, <3>3, Zenon DEF ReadyJoin, x, y
  <2>3. rt \in Seq(BodyLines) /\ rm \in Seq(BodyLines) /\ re \in Seq(BodyLines) /\ rc \in Seq(BodyLines)
    BY <1>7
  <2>4. Stands(lines, i, rt \o (rm \o (re \o rc)), j)
    BY <2>1, <2>2
  <2> HIDE DEF rc, rt, rm, re
  <2> DEFINE x == re \o rc
             y == rm \o x
  <2>5. x \in Seq(BodyLines) /\ y \in Seq(BodyLines)
    BY <2>3
  <2> HIDE DEF y
  <2>6. PICK k : Stands(lines, i, rt, k) /\ Stands(lines, k, y, j)
    BY <1>0, <2>3, <2>4, <2>5, StandsBoth DEF y
  <2> HIDE DEF x
  <2>7. PICK l : Stands(lines, k, rm, l) /\ Stands(lines, l, x, j)
    BY <1>0, <2>3, <2>5, <2>6, StandsBoth DEF y
  <2>8. PICK n : Stands(lines, l, re, n) /\ Stands(lines, n, rc, j)
    BY <1>0, <2>3, <2>7, StandsBoth DEF x
  <2>9. j = n + 1 /\ KindOf(lines, n) = "close"
    <3>1. Kinds1(rc, "close")
      BY <1>6 DEF rc
    <3>2. QED
      BY <1>0, <2>3, <2>8, <3>1, StandsKinds
  <2>10. read[<<l, "braces">>] = Parsed(Tree(if.else), j)
    <3>1. read[<<l, "braces">>] = Parsed(Tree(if.else), n + 1)
      BY <1>9, <2>8, <2>9 DEF re
    <3>2. QED
      BY <2>9, <3>1
  <2>11. /\ KindOf(lines, k) = "close" /\ KindOf(lines, k + 1) \in Elses
         /\ k + 1 \in 1 .. Len(lines) + 1
         /\ read[<<k + 1, "chain">>] = read[<<l, "braces">>]
    <3>0. k \in 1 .. Len(lines) + 1 /\ l \in 1 .. Len(lines) + 1
      BY <2>7 DEF Stands
    <3>1. CASE if.style = "own"
      <4>1. Kinds3(rm, "close", "else", "open")
        BY <1>6, <3>1 DEF rm
      <4>2. l = k + 3 /\ KindOf(lines, k) = "close" /\ KindOf(lines, k + 1) = "else"
            /\ KindOf(lines, k + 2) = "open"
        BY <1>0, <2>3, <2>7, <4>1, StandsKinds
      <4>3. k + 1 \in 1 .. Len(lines) + 1 /\ (k + 1) + 1 = k + 2 /\ (k + 1) + 2 = l
        BY <1>0, <3>0, <4>2
      <4>4. KindOf(lines, (k + 1) + 1) = "open"
        BY <4>2, <4>3
      <4>5. read[<<k + 1, "chain">>] = read[<<(k + 1) + 2, "braces">>]
        <5> DEFINE h == k + 1
        <5>1. h \in 1 .. Len(lines) + 1 /\ KindOf(lines, h) = "else" /\ KindOf(lines, h + 1) = "open"
          BY <4>2, <4>3, <4>4
        <5> HIDE DEF h
        <5>2. read[<<h, "chain">>] = read[<<h + 2, "braces">>]
          BY <5>1, ElseRead, Zenon
        <5>3. QED
          BY <5>2 DEF h
      <4>6. QED
        BY <4>2, <4>3, <4>5, ElsesAre
    <3>2. CASE if.style = "inline"
      <4>1. Kinds2(rm, "close", "elseopen")
        BY <1>6, <3>2 DEF rm
      <4>2. l = k + 2 /\ KindOf(lines, k) = "close" /\ KindOf(lines, k + 1) = "elseopen"
        BY <1>0, <2>3, <2>7, <4>1, StandsKinds
      <4>3. k + 1 \in 1 .. Len(lines) + 1 /\ (k + 1) + 1 = l
        BY <1>0, <3>0, <4>2
      <4>5. read[<<k + 1, "chain">>] = read[<<(k + 1) + 1, "braces">>]
        <5> DEFINE h == k + 1
        <5>1. h \in 1 .. Len(lines) + 1 /\ KindOf(lines, h) = "elseopen"
          BY <4>2, <4>3
        <5> HIDE DEF h
        <5>2. read[<<h, "chain">>] = read[<<h + 1, "braces">>]
          BY <5>1, ElseRead, Zenon
        <5>3. QED
          BY <5>2 DEF h
      <4>6. QED
        BY <4>2, <4>3, <4>5, ElsesAre
    <3>3. QED
      BY <1>11, <3>1, <3>2 DEF IsIf
  <2>12. read[<<i, "braces">>] = Parsed(Tree(if.then), k + 1) /\ k + 1 # 0
    BY <1>8, <2>6, <2>11 DEF rt
  <2>13. read[<<k + 1, "chain">>] = Parsed(Tree(if.else), j)
    BY <2>10, <2>11
  <2>14. IfChain(Parsed(Tree(if.then), k + 1), lines, read)
           = Parsed(<< If(Tree(if.then), Tree(if.else)) >>, j)
    BY <1>0, <2>11, <2>12, <2>13, IfChainElse
  <2>15. QED
    BY <1>5, <2>12, <2>14
<1>12. CASE if.else # <<>> /\ if.style \in {"chained", "below"}
  <2> DEFINE s == if.else[1]
             rb == Ready(b)
  <2>1. RenderBranches[if] = t \o (m \o b)
    BY <1>4, <1>12
  <2>2. s \in lower /\ Len(if.else) = 1
    BY <1>12 DEF IsIf
  <2>3. b \in Seq(BodyLines)
    BY <2>2, AllBranching DEF Branching
  <2> HIDE DEF b
  <2>4. rb \in Seq(BodyLines) /\ rt \in Seq(BodyLines) /\ rm \in Seq(BodyLines)
    BY <1>7, <2>3, BodyWritten
  <2>5. Ready(t \o (m \o b)) = rt \o (rm \o rb)
    <3> DEFINE y == m \o b
    <3>1. y \in Seq(BodyLines) /\ ReadyJoin(m, b)
      BY <1>3, <2>3, ReadyBoth
    <3> HIDE DEF y
    <3>2. ReadyJoin(t, y)
      BY <1>2, <3>1, ReadyBoth
    <3>3. QED
      BY <3>1, <3>2, Zenon DEF ReadyJoin, y
  <2>6. Stands(lines, i, rt \o (rm \o rb), j)
    BY <2>1, <2>5
  <2> HIDE DEF rt, rm, rb
  <2> DEFINE y == rm \o rb
  <2>7. y \in Seq(BodyLines)
    BY <2>4
  <2> HIDE DEF y
  <2>8. PICK k : Stands(lines, i, rt, k) /\ Stands(lines, k, y, j)
    BY <1>0, <2>4, <2>6, <2>7, StandsBoth DEF y
  <2>9. PICK l : Stands(lines, k, rm, l) /\ Stands(lines, l, rb, j)
    BY <1>0, <2>4, <2>8, StandsBoth DEF y
  <2>10. l = k + 2 /\ KindOf(lines, k) = "close" /\ KindOf(lines, k + 1) = "elseifopen"
    <3>1. Kinds2(rm, "close", "elseifopen")
      BY <1>6, <1>12 DEF rm
    <3>2. QED
      BY <1>0, <2>4, <2>9, <3>1, StandsKinds
  <2>11. k + 1 \in 1 .. Len(lines) + 1 /\ (k + 1) + 1 = l
    <3>1. k \in 1 .. Len(lines) + 1 /\ l \in 1 .. Len(lines) + 1
      BY <2>9 DEF Stands
    <3>2. QED
      BY <1>0, <2>10, <3>1
  <2>12. read[<<k + 1, "chain">>] = IfChain(read[<<l, "braces">>], lines, read)
    <3> DEFINE h == k + 1
    <3>1. h \in 1 .. Len(lines) + 1 /\ h + 1 = l /\ KindOf(lines, h) = "elseifopen"
      BY <2>10, <2>11
    <3> HIDE DEF h
    <3>2. read[<<h, "chain">>] = IfChain(read[<<h + 1, "braces">>], lines, read)
      BY <3>1, ElseRead, Zenon
    <3>3. QED
      BY <3>1, <3>2, Zenon DEF h
  <2>13. IfChain(read[<<l, "braces">>], lines, read) = Parsed(<<Trees[s]>>, j)
    <3>1. BranchesRead(s, lines, read, l, j)
      BY <2>2 DEF ReadIfs
    <3>2. Stands(lines, l, Ready(RenderBranches[s]), j)
      BY <2>9 DEF rb, b
    <3>3. QED
      BY <3>1, <3>2 DEF BranchesRead
  <2>14. Tree(if.else) = <<Trees[s]>>
    <3>1. ~IsSend(s)
      BY <2>2, AllIfsAre
    <3>2. TreeOf(s) = Trees[s]
      BY <3>1 DEF TreeOf
    <3>3. DOMAIN Tree(if.else) = 1 .. 1 /\ Tree(if.else)[1] = Trees[s]
      BY <1>1, <2>2, <3>2, TreeIs
    <3>4. Tree(if.else) = [x \in 1 .. 1 |-> Tree(if.else)[x]]
      BY <3>3 DEF Tree, Grown
    <3> DEFINE u == Tree(if.else)
               v == Trees[s]
    <3> HIDE DEF u, v
    <3>5. u = [x \in 1 .. 1 |-> u[x]] /\ u[1] = v
      BY <3>3, <3>4 DEF u, v
    <3>6. u = <<v>>
      BY <3>5
    <3>7. QED
      BY <3>6 DEF u, v
  <2>15. read[<<i, "braces">>] = Parsed(Tree(if.then), k + 1) /\ k + 1 # 0
    BY <1>8, <2>8, <2>10 DEF rt
  <2>16. read[<<k + 1, "chain">>] = Parsed(Tree(if.else), j) /\ KindOf(lines, k + 1) \in Elses
    BY <2>10, <2>12, <2>13, <2>14, ElsesAre
  <2>17. IfChain(Parsed(Tree(if.then), k + 1), lines, read)
           = Parsed(<< If(Tree(if.then), Tree(if.else)) >>, j)
    BY <1>0, <2>15, <2>16, IfChainElse
  <2>18. QED
    BY <1>5, <2>15, <2>17
<1>13. QED
  BY <1>10, <1>11, <1>12

LEMMA AllIfsRead == AllIfs \subseteq ReadIfs
<1>1. ASSUME NEW if \in AllIfs, NEW lower \in SUBSET AllIfs, IsIf(if, lower), lower \subseteq ReadIfs
      PROVE  if \in ReadIfs
  <2>1. ASSUME NEW lines, NEW read, NEW i, NEW j PROVE BranchesRead(if, lines, read, i, j)
    <3>1. SUFFICES ASSUME Context(lines, read), Stands(lines, i, Ready(RenderBranches[if]), j),
                          KindOf(lines, j) \notin Elses
                   PROVE  IfChain(read[<<i, "braces">>], lines, read) = Parsed(<<Trees[if]>>, j)
      BY DEF BranchesRead
    <3>2. QED
      BY <1>1, <3>1, IfRead
  <2>2. QED
    BY <2>1 DEF ReadIfs
<1>2. QED
  BY <1>1, LevelByLevel

LEMMA NotesVanish ==
  ASSUME NEW notes \in Seq(NoteLines)
  PROVE  Ready(notes) = <<>> /\ notes \in Seq(Written)
<1>1. NoteLines \subseteq Written
  BY DEF Written
<1>2. notes \in Seq(Written)
  BY <1>1, Wider
<1>3. \A i \in DOMAIN notes : SplitOf[notes[i]] = <<>>
  <2>1. ASSUME NEW i \in DOMAIN notes PROVE SplitOf[notes[i]] = <<>>
    <3>1. notes[i] \in NoteLines /\ notes[i] \in Written
      BY <1>1
    <3>2. notes[i].kind = "note"
      BY <3>1, PlainKind DEF NoteLines
    <3>3. QED
      BY <3>1, <3>2, SplitTyped, SplitCases
  <2>2. QED
    BY <2>1
<1> DEFINE q == Images(SplitOf, notes)
<1>4. q \in Seq({<<>>}) /\ Len(q) \in Nat
  <2>1. q = [i \in 1 .. Len(notes) |-> SplitOf[notes[i]]]
    BY DEF Images
  <2>2. \A i \in 1 .. Len(notes) : SplitOf[notes[i]] = <<>>
    BY <1>3
  <2>3. q \in [1 .. Len(notes) -> {<<>>}]
    BY <2>1, <2>2
  <2> HIDE DEF q
  <2>4. Len(notes) \in Nat
    OBVIOUS
  <2>5. QED
    BY <2>3, <2>4
<1> HIDE DEF q
<1>5. FlattenSeq(q) = <<>>
  BY <1>4, FlattenNothing
<1>6. QED
  BY <1>2, <1>5, Zenon DEF Ready, Mapped, q

(* parse_action_block: the lines of a body, with any comments behind it,   *)
(* are parsed without a throw into the tree they are written from, however *)
(* deep the Ifs are nested and in each style of braces: every branch goes  *)
(* to its If, every Else to the If it belongs to.                          *)
THEOREM BodyParsed ==
  ASSUME NEW body, IsBody(body, AllIfs), NEW notes \in Seq(NoteLines)
  PROVE  /\ ParseBlock(RenderBody(body) \o notes).next # 0
         /\ ParseBlock(RenderBody(body) \o notes).commands = Tree(body)
<1> DEFINE b == RenderBody(body)
           block == b \o notes
           lines == Ready(b)
           N == Len(lines)
<1>1. b \in Seq(BodyLines) /\ b \in Seq(Written) /\ lines \in Seq(BodyLines)
  BY BodyRendered, BodyWritten
<1>2. notes \in Seq(Written) /\ Ready(notes) = <<>>
  BY NotesVanish
<1> HIDE DEF b
<1>3. block \in Seq(Written) /\ MappedJoin(SplitOf, b, notes)
  BY <1>1, <1>2, SplitTyped, MappedBoth, Concat
<1>4. Preprocess(block) = lines
  <2>1. Preprocess(block) = Mapped(SplitOf, block)
    BY <1>3, PreprocessIs
  <2>2. Mapped(SplitOf, block) = lines \o <<>>
    BY <1>2, <1>3, Zenon DEF MappedJoin, Ready
  <2> HIDE DEF lines
  <2>3. lines \o <<>> = lines
    BY <1>1, EmptyBefore
  <2>4. QED
    BY <2>1, <2>2, <2>3
<1> HIDE DEF lines, block
<1>5. N \in Nat /\ DOMAIN lines = 1 .. N
  BY <1>1
<1>6. PICK read : ReadsAll(read, lines) /\ ParseBlock(block) = read[<<1, "top">>]
  BY <1>4, <1>5, BlockRead
<1>7. Context(lines, read)
  BY <1>1, <1>6 DEF Context
<1>8. Stands(lines, 1, lines, N + 1)
  <2>1. At(lines, 1, lines)
    BY <1>5 DEF At
  <2> HIDE DEF N
  <2>2. 1 \in 1 .. N + 1 /\ N + 1 \in 1 .. N + 1 /\ N + 1 = 1 + N
    BY <1>5
  <2>3. QED
    BY <2>1, <2>2 DEF Stands, N
<1>9. KindOf(lines, N + 1) = "nothing"
  <2>1. N + 1 \notin DOMAIN lines
    <3> HIDE DEF N
    <3> QED BY <1>5
  <2>2. QED
    BY <2>1, Zenon DEF KindOf
<1>10. KindOf(lines, N + 1) \notin Elses
  BY <1>9 DEF Elses
<1>11. EndsAt(read, N + 1, "top", N + 1)
  <2>1. read[<<N + 1, "top">>] = BlockLines(lines, read, N + 1, "top")
    <3>1. N + 1 \in 1 .. Len(lines) + 1 /\ "top" \in {"top", "braces"}
      BY <1>8 DEF Stands
    <3>2. QED
      BY <1>7, <3>1, ReadHere
  <2>2. BlockBy(lines, N + 1, "top")
    BY BlockIs
  <2>3. KindOf(lines, N + 1) \in Elses \cup {"nothing"}
    BY <1>9
  <2>4. BlockLines(lines, read, N + 1, "top") = Parsed(<<>>, N + 1)
    BY <2>2, <2>3, Zenon DEF BlockBy
  <2>5. N + 1 # 0
    BY <1>5
  <2>6. QED
    BY <2>1, <2>4, <2>5 DEF EndsAt
<1>12. ReadAs(read, 1, "top", Tree(body), N + 1)
  <2>1. Stands(lines, 1, Ready(LaidOut(body, RenderBranches)), N + 1)
    BY <1>8, Zenon DEF lines, b, RenderBody
  <2>2. "top" \in {"top", "braces"}
    OBVIOUS
  <2> HIDE DEF N
  <2>3. QED
    BY <1>7, <1>10, <1>11, <2>1, <2>2, AllIfsRead, BodyRead
<1>13. ParseBlock(block) = Parsed(Tree(body), N + 1)
  BY <1>6, <1>12 DEF ReadAs
<1>14. ParseBlock(block).next = N + 1 /\ ParseBlock(block).commands = Tree(body)
  BY <1>13, ParsedIs
<1>15. QED
  BY <1>5, <1>14 DEF block, b

----------------------------------------------------------------------------
(* The braces of a body.  How deep it is at each line, one that is alone   *)
(* counting.                                                               *)
Deeper(d, kind) ==
    IF kind = "open" THEN d + 1 ELSE IF kind = "close" /\ d > 0 THEN d - 1 ELSE d
Counted(d, lines) ==
    /\ lines \in Seq(BodyLines)
    /\ \A i \in 1 .. Len(lines) + 1 : d[i] \in Nat
    /\ \A i \in 1 .. Len(lines) : d[i + 1] = Deeper(d[i], lines[i].kind)

(* A part that ends no deeper than it begins, and one that ends one brace  *)
(* less deep.                                                              *)
Stays(s, d, lines, i, j) == Counted(d, lines) /\ Stands(lines, i, s, j) => d[j] <= d[i]
Falls(s, d, lines, i, j) ==
    Counted(d, lines) /\ Stands(lines, i, s, j) => d[j] = 0 \/ d[j] + 1 <= d[i]
FallIfs == {if \in AllIfs : \A d, lines, i, j : Falls(RenderBranches[if], d, lines, i, j)}

LEMMA DepthHere ==
  ASSUME NEW d, NEW lines, Counted(d, lines), NEW i \in 1 .. Len(lines) + 1, NEW a,
         KindOf(lines, i) = a, a # "nothing"
  PROVE  i + 1 \in 1 .. Len(lines) + 1 /\ d[i] \in Nat /\ d[i + 1] \in Nat /\ d[i + 1] = Deeper(d[i], a)
<1>1. lines \in Seq(BodyLines) /\ Len(lines) \in Nat /\ DOMAIN lines = 1 .. Len(lines)
  BY DEF Counted
<1>2. i \in 1 .. Len(lines) /\ lines[i].kind = a
  BY <1>1, KindInside
<1> DEFINE N == Len(lines)
<1>3. i + 1 \in 1 .. N + 1
  <2>1. N \in Nat /\ i \in 1 .. N
    BY <1>1, <1>2
  <2> HIDE DEF N
  <2>2. QED
    BY <2>1
<1>4. QED
  BY <1>2, <1>3 DEF Counted

LEMMA DeeperIs ==
  ASSUME NEW d \in Nat, NEW a
  PROVE  /\ a \notin {"open", "close"} => Deeper(d, a) = d
         /\ Deeper(d, "open") = d + 1
         /\ Deeper(d, "close") = 0 \/ Deeper(d, "close") + 1 = d
         /\ Deeper(d, "close") <= d
  BY DEF Deeper

LEMMA BodyStays ==
  ASSUME NEW body, NEW ifs, IsBody(body, ifs), ifs \subseteq FallIfs,
         NEW d, NEW lines, NEW i, NEW j
  PROVE  Stays(LaidOut(body, RenderBranches), d, lines, i, j)
<1>1. SUFFICES ASSUME Counted(d, lines), Stands(lines, i, LaidOut(body, RenderBranches), j)
               PROVE  d[j] <= d[i]
  BY DEF Stays
<1> DEFINE r == BodySeqs(body)
           n == Len(body)
<1>2. ifs \subseteq Branching /\ lines \in Seq(BodyLines)
  BY <1>1, AllBranching DEF FallIfs, Counted
<1>3. r \in Seq(Seq(BodyLines)) /\ Len(r) = n /\ LaidOut(body, RenderBranches) = FlattenSeq(r)
  BY <1>2, BodyTyped, LaidOutIs
<1>4. n \in Nat /\ \A k \in 1 .. n :
         /\ r[k] = StatementLines(body[k])
         /\ \/ IsSend(body[k]) /\ IsSaying(body[k].says)
            \/ ~IsSend(body[k]) /\ body[k] \in FallIfs
  BY BodyListed
<1> HIDE DEF r, n
<1>5. PICK p : StandsEach(p, lines, i, r, j)
  BY <1>1, <1>2, <1>3, StandsFlat
<1>6. /\ p \in [0 .. n -> Nat] /\ p[0] = i /\ p[n] = j
      /\ \A k \in 1 .. n : Stands(lines, p[k - 1], r[k], p[k])
  BY <1>3, <1>5 DEF StandsEach
<1>7. ASSUME NEW k \in 1 .. n
      PROVE  d[p[k]] <= d[p[k - 1]] /\ d[p[k]] \in Nat /\ d[p[k - 1]] \in Nat
  <2> DEFINE a == p[k - 1]
             b == p[k]
             s == body[k]
  <2>1. Stands(lines, a, r[k], b) /\ r[k] = StatementLines(s)
        /\ ((IsSend(s) /\ IsSaying(s.says)) \/ (~IsSend(s) /\ s \in FallIfs))
    BY <1>4, <1>6
  <2> HIDE DEF a, b, s
  <2>2. a \in 1 .. Len(lines) + 1 /\ b \in 1 .. Len(lines) + 1 /\ d[a] \in Nat /\ d[b] \in Nat
    BY <1>1, <2>1 DEF Stands, Counted
  <2>3. CASE IsSend(s)
    <3>1. r[k] = <<CommandLine(s.says)>> /\ CommandLine(s.says) \in BodyLines
      BY <2>1, <2>3, CommandTyped DEF StatementLines
    <3>2. CommandLine(s.says).kind = "command"
      BY LineIs DEF CommandLine
    <3> DEFINE c == CommandLine(s.says)
    <3> HIDE DEF c
    <3>3. <<c>> \in Seq(BodyLines) /\ Kinds1(<<c>>, "command")
      BY <3>1, <3>2, TuplesTyped DEF Kinds1, c
    <3>4. Stands(lines, a, <<c>>, b)
      BY <2>1, <3>1 DEF c
    <3>5. b = a + 1 /\ KindOf(lines, a) = "command"
      BY <1>2, <3>3, <3>4, StandsKinds
    <3>6. d[a + 1] = Deeper(d[a], "command")
      BY <1>1, <2>2, <3>5, DepthHere
    <3>7. d[b] = d[a]
      BY <2>2, <3>5, <3>6, DeeperIs
    <3>8. QED
      BY <2>2, <3>7 DEF a, b
  <2>4. CASE ~IsSend(s)
    <3> DEFINE o == Opening(s)
               q == RenderBranches[s]
    <3>1. r[k] = o \o q /\ s \in FallIfs /\ s \in AllIfs
      BY <2>1, <2>4 DEF StatementLines, FallIfs
    <3>2. o \in Seq(BodyLines) /\ q \in Seq(BodyLines)
      BY <3>1, OpeningIs, AllBranching DEF Branching
    <3>3. /\ s.style = "own" => o = <<Plain("if"), Plain("open")>>
          /\ s.style # "own" => o = <<Plain("ifopen")>>
      BY OpeningIs
    <3> HIDE DEF o
    <3>4. PICK m : Stands(lines, a, o, m) /\ Stands(lines, m, q, b)
      <4> HIDE DEF q
      <4> QED BY <1>2, <2>1, <3>1, <3>2, StandsBoth
    <3>5. d[b] = 0 \/ d[b] + 1 <= d[m]
      <4>1. Falls(q, d, lines, m, b)
        BY <3>1 DEF FallIfs
      <4>2. QED
        BY <1>1, <3>4, <4>1 DEF Falls
    <3>6. d[m] \in Nat /\ d[m] <= d[a] + 1
      <4>1. CASE s.style = "own"
        <5> DEFINE x == Plain("if")
                   y == Plain("open")
        <5>1. x.kind = "if" /\ y.kind = "open"
          BY PlainKind
        <5> HIDE DEF x, y
        <5>2. Kinds2(<<x, y>>, "if", "open") /\ o = <<x, y>>
          BY <3>3, <4>1, <5>1 DEF Kinds2, x, y
        <5>0. Kinds2(o, "if", "open")
          BY <5>2
        <5>3. m = a + 2 /\ KindOf(lines, a) = "if" /\ KindOf(lines, a + 1) = "open"
          BY <1>2, <3>2, <3>4, <5>0, StandsKinds
        <5>4. a + 1 \in 1 .. Len(lines) + 1 /\ d[a + 1] = Deeper(d[a], "if")
          BY <1>1, <2>2, <5>3, DepthHere
        <5>5. d[a + 1] = d[a]
          BY <2>2, <5>4, DeeperIs
        <5> DEFINE z == a + 1
        <5>6. z \in 1 .. Len(lines) + 1 /\ KindOf(lines, z) = "open" /\ z + 1 = m /\ d[z] = d[a]
          BY <2>2, <5>3, <5>4, <5>5
        <5> HIDE DEF z
        <5>7. d[z + 1] = Deeper(d[z], "open") /\ d[z + 1] \in Nat
          BY <1>1, <5>6, DepthHere
        <5>8. d[m] = Deeper(d[a], "open") /\ d[m] \in Nat
          BY <5>6, <5>7
        <5>9. QED
          BY <2>2, <5>8, DeeperIs
      <4>2. CASE s.style # "own"
        <5> DEFINE x == Plain("ifopen")
        <5>1. x.kind = "ifopen"
          BY PlainKind
        <5> HIDE DEF x
        <5>2. Kinds1(<<x>>, "ifopen") /\ o = <<x>>
          BY <3>3, <4>2, <5>1 DEF Kinds1, x
        <5>3. m = a + 1 /\ KindOf(lines, a) = "ifopen"
          BY <1>2, <3>2, <3>4, <5>2, StandsKinds
        <5>4. d[a + 1] = Deeper(d[a], "ifopen")
          BY <1>1, <2>2, <5>3, DepthHere
        <5>5. d[m] = d[a]
          BY <2>2, <5>3, <5>4, DeeperIs
        <5>6. QED
          BY <2>2, <5>5
      <4>3. QED
        BY <4>1, <4>2
    <3>7. d[b] <= d[a]
      <4> DEFINE u == d[a]
                 v == d[b]
                 w == d[m]
      <4>1. u \in Nat /\ v \in Nat /\ w \in Nat /\ w <= u + 1 /\ (v = 0 \/ v + 1 <= w)
        BY <2>2, <3>5, <3>6
      <4> HIDE DEF u, v, w
      <4>2. v <= u
        BY <4>1
      <4>3. QED
        BY <4>2 DEF u, v
    <3>8. QED
      BY <2>2, <3>7 DEF a, b
  <2>5. QED
    BY <2>3, <2>4
<1> DEFINE P == {k \in 0 .. n : d[p[k]] \in Nat /\ d[p[k]] <= d[i]}
<1>8. 0 \in P
  <2>1. d[i] \in Nat
    BY <1>1 DEF Stands, Counted
  <2>2. QED
    BY <1>4, <1>6, <2>1
<1>9. ASSUME NEW k \in 1 .. n, k - 1 \in P PROVE k \in P
  <2> DEFINE u == d[i]
             v == d[p[k - 1]]
             w == d[p[k]]
  <2>1. v \in Nat /\ v <= u /\ w <= v /\ w \in Nat /\ k \in 0 .. n /\ u \in Nat
    <3>1. d[i] \in Nat
      BY <1>1 DEF Stands, Counted
    <3>2. QED
      BY <1>4, <1>7, <1>9, <3>1
  <2> HIDE DEF u, v, w
  <2>2. w <= u
    BY <2>1
  <2>3. QED
    BY <2>1, <2>2 DEF u, w
<1>10. n \in P
  <2> HIDE DEF P
  <2>1. \A k \in 0 .. n : k \in P
    BY <1>4, <1>8, <1>9, UpTo
  <2>2. n \in 0 .. n
    BY <1>4
  <2>3. QED
    BY <2>1, <2>2
<1>11. QED
  BY <1>6, <1>10

(* A line that stands alone, and two.                                      *)
Turned(d, i, j, a) == d[i] \in Nat /\ d[j] \in Nat /\ d[j] = Deeper(d[i], a)
TurnedTwice(d, i, j, a, b) ==
    /\ d[i] \in Nat /\ d[j] \in Nat /\ Deeper(d[i], a) \in Nat
    /\ d[j] = Deeper(Deeper(d[i], a), b)
IsKind(a) == a # "nothing"

LEMMA DepthOne ==
  ASSUME NEW d, NEW lines, Counted(d, lines), NEW s \in Seq(BodyLines), NEW a, Kinds1(s, a),
         NEW i, NEW j, Stands(lines, i, s, j), IsKind(a)
  PROVE  Turned(d, i, j, a)
<1>1. lines \in Seq(BodyLines) /\ i \in 1 .. Len(lines) + 1
  BY DEF Counted, Stands
<1>2. j = i + 1 /\ KindOf(lines, i) = a
  BY <1>1, StandsKinds
<1>3. d[i] \in Nat /\ d[i + 1] \in Nat /\ d[i + 1] = Deeper(d[i], a)
  BY <1>1, <1>2, DepthHere DEF IsKind
<1>4. QED
  BY <1>2, <1>3 DEF Turned

LEMMA DepthTwo ==
  ASSUME NEW d, NEW lines, Counted(d, lines), NEW s \in Seq(BodyLines), NEW a, NEW b,
         Kinds2(s, a, b), NEW i, NEW j, Stands(lines, i, s, j), IsKind(a), IsKind(b)
  PROVE  TurnedTwice(d, i, j, a, b)
<1>1. lines \in Seq(BodyLines) /\ i \in 1 .. Len(lines) + 1
  BY DEF Counted, Stands
<1>2. j = i + 2 /\ KindOf(lines, i) = a /\ KindOf(lines, i + 1) = b
  BY <1>1, StandsKinds
<1>3. i + 1 \in 1 .. Len(lines) + 1 /\ d[i] \in Nat /\ d[i + 1] \in Nat /\ d[i + 1] = Deeper(d[i], a)
  BY <1>1, <1>2, DepthHere DEF IsKind
<1> DEFINE k == i + 1
<1>4. k \in 1 .. Len(lines) + 1 /\ KindOf(lines, k) = b /\ j = k + 1 /\ d[k] = Deeper(d[i], a)
  BY <1>1, <1>2, <1>3
<1> HIDE DEF k
<1>5. d[k + 1] \in Nat /\ d[k + 1] = Deeper(d[k], b)
  BY <1>4, DepthHere DEF IsKind
<1>6. d[j] \in Nat /\ d[j] = Deeper(Deeper(d[i], a), b)
  BY <1>4, <1>5
<1>7. QED
  BY <1>3, <1>6 DEF TurnedTwice

(* What stands between the branches of an If leaves the depth, or falls    *)
(* and, for a brace below the Else, rises again.                           *)
LEMMA BetweenDepth ==
  ASSUME NEW d, NEW lines, Counted(d, lines), NEW style, NEW i, NEW j,
         Stands(lines, i, Between(style), j)
  PROVE  /\ style \in {"inline", "chained", "below"} => d[j] <= d[i]
         /\ style = "own" => d[j] = 1 \/ d[j] <= d[i]
         /\ style \in {"own", "inline", "chained", "below"} => d[i] \in Nat /\ d[j] \in Nat
<1>0. lines \in Seq(BodyLines)
  BY DEF Counted
<1>1. ASSUME NEW k \in {"closeelse", "closeelseif"}, Between(style) = <<Plain(k)>>
      PROVE  d[j] <= d[i] /\ d[i] \in Nat /\ d[j] \in Nat
  <2>1. Plain(k) \in BodyLines /\ Plain(k).kind = k
    BY PlainKind, PlainTyped DEF BodyKinds
  <2> DEFINE x == Plain(k)
  <2> HIDE DEF x
  <2>2. <<x>> \in Seq(BodyLines) /\ Kinds1(<<x>>, k) /\ Between(style) = <<x>>
    BY <1>1, <2>1, TuplesTyped DEF x, Kinds1
  <2>3. Stands(lines, i, <<x>>, j) /\ IsKind(k) /\ k \notin {"open", "close"}
    BY <2>2 DEF IsKind
  <2>7. Turned(d, i, j, k)
    BY <2>2, <2>3, DepthOne
  <2>4. d[i] \in Nat /\ d[j] \in Nat /\ d[j] = Deeper(d[i], k)
    BY <2>7 DEF Turned
  <2>5. d[j] = d[i]
    BY <2>3, <2>4, DeeperIs
  <2>6. QED
    BY <2>4, <2>5
<1>2. ASSUME style = "below" PROVE d[j] <= d[i] /\ d[i] \in Nat /\ d[j] \in Nat
  <2> DEFINE x == Plain("close")
             y == Plain("elseifopen")
  <2>1. x \in BodyLines /\ x.kind = "close" /\ y \in BodyLines /\ y.kind = "elseifopen"
    BY PlainKind, PlainTyped DEF BodyKinds
  <2>2. Between(style) = <<x, y>>
    BY <1>2, BetweenIs
  <2> HIDE DEF x, y
  <2>3. <<x, y>> \in Seq(BodyLines) /\ Kinds2(<<x, y>>, "close", "elseifopen")
    BY <2>1, TuplesTyped DEF Kinds2
  <2>4. Stands(lines, i, <<x, y>>, j)
    BY <2>2
  <2>8. IsKind("close") /\ IsKind("elseifopen")
    BY DEF IsKind
  <2>9. TurnedTwice(d, i, j, "close", "elseifopen")
    BY <2>3, <2>4, <2>8, DepthTwo
  <2>5. d[i] \in Nat /\ d[j] \in Nat /\ Deeper(d[i], "close") \in Nat
        /\ d[j] = Deeper(Deeper(d[i], "close"), "elseifopen")
    BY <2>9 DEF TurnedTwice
  <2>6. d[j] = Deeper(d[i], "close") /\ Deeper(d[i], "close") <= d[i]
    BY <2>5, DeeperIs
  <2>7. QED
    BY <2>5, <2>6
<1>3. ASSUME style = "own"
      PROVE  (d[j] = 1 \/ d[j] <= d[i]) /\ d[i] \in Nat /\ d[j] \in Nat
  <2> DEFINE x == Plain("close")
             y == Plain("else")
             z == Plain("open")
  <2>1. /\ x \in BodyLines /\ x.kind = "close" /\ y \in BodyLines /\ y.kind = "else"
        /\ z \in BodyLines /\ z.kind = "open"
    BY PlainKind, PlainTyped DEF BodyKinds
  <2>2. Between(style) = <<x, y, z>>
    BY <1>3, BetweenIs
  <2> HIDE DEF x, y, z
  <2>3. <<x, y>> \in Seq(BodyLines) /\ Kinds2(<<x, y>>, "close", "else")
        /\ <<z>> \in Seq(BodyLines) /\ Kinds1(<<z>>, "open")
    BY <2>1, TuplesTyped DEF Kinds1, Kinds2
  <2>4. Stands(lines, i, <<x, y>> \o <<z>>, j)
    BY <2>2, TwoAndOne
  <2>5. PICK k : Stands(lines, i, <<x, y>>, k) /\ Stands(lines, k, <<z>>, j)
    BY <1>0, <2>3, <2>4, StandsBoth
  <2>11. IsKind("close") /\ IsKind("else") /\ IsKind("open")
    BY DEF IsKind
  <2>12. TurnedTwice(d, i, k, "close", "else")
    BY <2>3, <2>5, <2>11, DepthTwo
  <2>13. Turned(d, k, j, "open")
    BY <2>3, <2>5, <2>11, DepthOne
  <2>6. d[i] \in Nat /\ Deeper(d[i], "close") \in Nat
        /\ d[k] = Deeper(Deeper(d[i], "close"), "else")
    BY <2>12 DEF TurnedTwice
  <2>7. d[j] \in Nat /\ d[j] = Deeper(d[k], "open") /\ d[k] \in Nat
    BY <2>13 DEF Turned
  <2>8. d[k] = Deeper(d[i], "close") /\ d[j] = d[k] + 1
    BY <2>6, <2>7, DeeperIs
  <2>9. d[k] = 0 \/ d[k] + 1 = d[i]
    BY <2>6, <2>8, DeeperIs
  <2>10. QED
    BY <2>6, <2>7, <2>8, <2>9
<1>4. ASSUME style = "inline" PROVE d[j] <= d[i] /\ d[i] \in Nat /\ d[j] \in Nat
  BY <1>1, <1>4, BetweenIs
<1>5. ASSUME style = "chained" PROVE d[j] <= d[i] /\ d[i] \in Nat /\ d[j] \in Nat
  BY <1>1, <1>5, BetweenIs
<1>6. QED
  BY <1>2, <1>3, <1>4, <1>5

LEMMA CloseDepth ==
  ASSUME NEW d, NEW lines, Counted(d, lines), NEW i, NEW j,
         Stands(lines, i, PlainLines(<<"close">>), j)
  PROVE  d[i] \in Nat /\ d[j] \in Nat /\ (d[j] = 0 \/ d[j] + 1 = d[i]) /\ d[j] <= d[i]
<1> DEFINE x == Plain("close")
<1>1. x \in BodyLines /\ x.kind = "close"
  BY PlainKind, PlainTyped DEF BodyKinds
<1>2. PlainLines(<<"close">>) = <<x>>
  BY BetweenIs
<1> HIDE DEF x
<1>3. <<x>> \in Seq(BodyLines) /\ Kinds1(<<x>>, "close")
  BY <1>1, TuplesTyped DEF Kinds1
<1>4. Stands(lines, i, <<x>>, j)
  BY <1>2
<1>7. IsKind("close")
  BY DEF IsKind
<1>8. Turned(d, i, j, "close")
  BY <1>3, <1>4, <1>7, DepthOne
<1>5. d[i] \in Nat /\ d[j] \in Nat /\ d[j] = Deeper(d[i], "close")
  BY <1>8 DEF Turned
<1>6. QED
  BY <1>5, DeeperIs

LEMMA IfFalls ==
  ASSUME NEW if \in AllIfs, NEW lower \in SUBSET AllIfs, IsIf(if, lower), lower \subseteq FallIfs,
         NEW d, NEW lines, NEW i, NEW j
  PROVE  Falls(RenderBranches[if], d, lines, i, j)
<1>1. SUFFICES ASSUME Counted(d, lines), Stands(lines, i, RenderBranches[if], j)
               PROVE  d[j] = 0 \/ d[j] + 1 <= d[i]
  BY DEF Falls
<1> DEFINE t == LaidOut(if.then, RenderBranches)
           e == LaidOut(if.else, RenderBranches)
           c == PlainLines(<<"close">>)
           m == Between(if.style)
           b == RenderBranches[if.else[1]]
<1>0. lines \in Seq(BodyLines)
  BY <1>1 DEF Counted
<1>2. IsBody(if.then, lower) /\ IsBody(if.else, lower)
  BY DEF IsIf
<1>3. t \in Seq(BodyLines) /\ e \in Seq(BodyLines)
  <2>1. lower \subseteq Branching
    BY AllBranching
  <2>2. QED
    BY <1>2, <2>1, BodyTyped
<1>4. c \in Seq(BodyLines) /\ m \in Seq(BodyLines)
  <2>1. if.style \in {"own", "inline", "chained", "below"}
    BY DEF IsIf
  <2>2. QED
    BY <2>1, BetweenIs
<1>5. RenderBranches[if] = t \o (IF if.else = <<>> THEN c
          ELSE m \o (IF if.style \in {"chained", "below"} THEN b ELSE e \o c))
  BY BranchesAre DEF RenderIf
<1>6. \A k, l : Stands(lines, k, t, l) => d[l] <= d[k]
  <2>1. \A k, l : Stays(t, d, lines, k, l)
    BY <1>2, BodyStays
  <2> HIDE DEF t
  <2>2. QED
    BY <1>1, <2>1 DEF Stays
<1>7. \A k, l : Stands(lines, k, e, l) => d[l] <= d[k]
  <2>1. \A k, l : Stays(e, d, lines, k, l)
    BY <1>2, BodyStays
  <2> HIDE DEF e
  <2>2. QED
    BY <1>1, <2>1 DEF Stays
<1>8. \A k, l : Stands(lines, k, c, l) =>
          d[k] \in Nat /\ d[l] \in Nat /\ (d[l] = 0 \/ d[l] + 1 = d[k]) /\ d[l] <= d[k]
  BY <1>1, CloseDepth
<1>9. \A k, l : Stands(lines, k, m, l) =>
          /\ if.style \in {"inline", "chained", "below"} => d[l] <= d[k]
          /\ if.style = "own" => d[l] = 1 \/ d[l] <= d[k]
          /\ d[k] \in Nat /\ d[l] \in Nat
  <2>1. if.style \in {"own", "inline", "chained", "below"}
    BY DEF IsIf
  <2>2. QED
    BY <1>1, <2>1, BetweenDepth
<1>10. d[i] \in Nat /\ d[j] \in Nat
  BY <1>1 DEF Counted, Stands
<1> HIDE DEF t, e, c, m
<1>11. CASE if.else = <<>>
  <2>1. Stands(lines, i, t \o c, j)
    BY <1>1, <1>5, <1>11
  <2>2. PICK k : Stands(lines, i, t, k) /\ Stands(lines, k, c, j)
    BY <1>0, <1>3, <1>4, <2>1, StandsBoth
  <2>3. d[k] <= d[i] /\ d[k] \in Nat /\ (d[j] = 0 \/ d[j] + 1 = d[k])
    BY <1>6, <1>8, <2>2
  <2>4. QED
    BY <1>10, <2>3
<1>12. CASE if.else # <<>> /\ if.style \notin {"chained", "below"}
  <2> DEFINE x == e \o c
             y == m \o x
  <2>1. Stands(lines, i, t \o y, j)
    BY <1>1, <1>5, <1>12
  <2>2. x \in Seq(BodyLines) /\ y \in Seq(BodyLines)
    BY <1>3, <1>4
  <2> HIDE DEF y
  <2>3. PICK k : Stands(lines, i, t, k) /\ Stands(lines, k, y, j)
    BY <1>0, <1>3, <2>1, <2>2, StandsBoth
  <2> HIDE DEF x
  <2>4. PICK l : Stands(lines, k, m, l) /\ Stands(lines, l, x, j)
    BY <1>0, <1>4, <2>2, <2>3, StandsBoth DEF y
  <2>5. PICK n : Stands(lines, l, e, n) /\ Stands(lines, n, c, j)
    BY <1>0, <1>3, <1>4, <2>4, StandsBoth DEF x
  <2>6. /\ d[k] <= d[i] /\ d[n] <= d[l] /\ d[k] \in Nat /\ d[l] \in Nat /\ d[n] \in Nat
        /\ d[j] = 0 \/ d[j] + 1 = d[n]
        /\ d[l] = 1 \/ d[l] <= d[k]
    <3>1. d[k] <= d[i] /\ d[n] <= d[l]
      BY <1>6, <1>7, <2>3, <2>5
    <3>2. d[k] \in Nat /\ d[l] \in Nat /\ (d[l] = 1 \/ d[l] <= d[k])
      BY <1>9, <1>12, <2>4 DEF IsIf
    <3>3. d[n] \in Nat /\ (d[j] = 0 \/ d[j] + 1 = d[n])
      BY <1>8, <2>5
    <3>4. QED
      BY <3>1, <3>2, <3>3
  <2>7. QED
    BY <1>10, <2>6
<1>13. CASE if.else # <<>> /\ if.style \in {"chained", "below"}
  <2> DEFINE y == m \o b
  <2>1. Stands(lines, i, t \o y, j)
    BY <1>1, <1>5, <1>13
  <2>2. if.else[1] \in lower
    BY <1>13 DEF IsIf
  <2>3. b \in Seq(BodyLines)
    BY <2>2, AllBranching DEF Branching
  <2>4. \A k, l : Falls(b, d, lines, k, l)
    BY <2>2 DEF FallIfs
  <2> HIDE DEF b
  <2>5. y \in Seq(BodyLines)
    BY <1>4, <2>3
  <2> HIDE DEF y
  <2>6. PICK k : Stands(lines, i, t, k) /\ Stands(lines, k, y, j)
    BY <1>0, <1>3, <2>1, <2>5, StandsBoth
  <2>7. PICK l : Stands(lines, k, m, l) /\ Stands(lines, l, b, j)
    BY <1>0, <1>4, <2>3, <2>6, StandsBoth DEF y
  <2>8. d[k] <= d[i] /\ d[l] <= d[k] /\ d[k] \in Nat /\ d[l] \in Nat
    BY <1>6, <1>9, <1>13, <2>6, <2>7
  <2>9. d[j] = 0 \/ d[j] + 1 <= d[l]
    BY <1>1, <2>4, <2>7 DEF Falls
  <2>10. QED
    BY <1>10, <2>8, <2>9
<1>14. QED
  BY <1>11, <1>12, <1>13

LEMMA AllIfsFall == AllIfs \subseteq FallIfs
<1>1. ASSUME NEW if \in AllIfs, NEW lower \in SUBSET AllIfs, IsIf(if, lower), lower \subseteq FallIfs
      PROVE  if \in FallIfs
  BY <1>1, IfFalls DEF FallIfs
<1>2. QED
  BY <1>1, LevelByLevel

(* A body ends no deeper than it begins.                                   *)
LEMMA BodyClosed ==
  ASSUME NEW body, IsBody(body, AllIfs), NEW d, NEW lines, Counted(d, lines), NEW i, NEW j,
         Stands(lines, i, RenderBody(body), j)
  PROVE  d[j] <= d[i]
<1>1. Stays(LaidOut(body, RenderBranches), d, lines, i, j)
  BY AllIfsFall, BodyStays
<1>2. QED
  BY <1>1 DEF Stays, RenderBody

----------------------------------------------------------------------------
(* The reader's count of braces.                                           *)
Counts(d, a, n, kinds) ==
    d = [i \in a .. n |-> IF i = a THEN 0 ELSE Deeper(d[i - 1], kinds[i])]

LEMMA CountExists ==
  ASSUME NEW a \in Nat, NEW n \in Nat, a <= n, NEW kinds
  PROVE  \E d : Counts(d, a, n, kinds)
<1> DEFINE Fits(d, k) == \A i \in a .. a + k : d[i] = IF i = a THEN 0 ELSE Deeper(d[i - 1], kinds[i])
           m == n - a
           P == {k \in 0 .. m : \E d : d = [i \in a .. n |-> d[i]] /\ Fits(d, k)}
<1>1. m \in Nat /\ a + m = n
  OBVIOUS
<1>2. 0 \in P
  <2> DEFINE d == [i \in a .. n |-> 0]
  <2>1. d = [i \in a .. n |-> d[i]] /\ d[a] = 0
    OBVIOUS
  <2> HIDE DEF d
  <2>2. Fits(d, 0)
    BY <2>1
  <2> HIDE DEF m
  <2>3. QED
    BY <1>1, <2>1, <2>2
<1>3. ASSUME NEW k \in 1 .. m, k - 1 \in P PROVE k \in P
  <2>1. PICK d : d = [i \in a .. n |-> d[i]] /\ Fits(d, k - 1)
    BY <1>3
  <2> DEFINE p == a + k
             e == [i \in a .. n |-> IF i = p THEN Deeper(d[p - 1], kinds[p]) ELSE d[i]]
  <2>2. p \in a .. n /\ p - 1 \in a .. n /\ p - 1 # p /\ p # a /\ p - 1 = a + (k - 1)
    BY <1>1
  <2>3. e = [i \in a .. n |-> e[i]] /\ (\A i \in a .. n : i # p => e[i] = d[i])
        /\ e[p] = Deeper(d[p - 1], kinds[p])
    BY <2>2
  <2> HIDE DEF e
  <2>4. ASSUME NEW i \in a .. a + k PROVE e[i] = IF i = a THEN 0 ELSE Deeper(e[i - 1], kinds[i])
    <3>1. CASE i = p
      BY <2>2, <2>3, <3>1
    <3>2. CASE i # p
      <4>1. i \in a .. a + (k - 1) /\ i \in a .. n /\ (i # a => i - 1 \in a .. n /\ i - 1 # p)
        BY <1>1, <3>2
      <4>2. d[i] = IF i = a THEN 0 ELSE Deeper(d[i - 1], kinds[i])
        BY <2>1, <4>1
      <4>3. e[i] = d[i] /\ (i # a => e[i - 1] = d[i - 1])
        BY <2>3, <3>2, <4>1
      <4>4. QED
        BY <4>2, <4>3
    <3>3. QED
      BY <3>1, <3>2
  <2>5. Fits(e, k) /\ k \in 0 .. m
    BY <1>1, <2>4
  <2> HIDE DEF m
  <2>6. QED
    BY <2>3, <2>5
<1>4. m \in P
  <2> HIDE DEF P
  <2>1. \A k \in 0 .. m : k \in P
    BY <1>1, <1>2, <1>3, UpTo
  <2>2. QED
    BY <1>1, <2>1
<1>5. PICK d : d = [i \in a .. n |-> d[i]] /\ Fits(d, m)
  BY <1>4
<1>6. \A i \in a .. n : d[i] = IF i = a THEN 0 ELSE Deeper(d[i - 1], kinds[i])
  BY <1>1, <1>5
<1>7. d = [i \in a .. n |-> IF i = a THEN 0 ELSE Deeper(d[i - 1], kinds[i])]
  <2> DEFINE e == [i \in a .. n |-> IF i = a THEN 0 ELSE Deeper(d[i - 1], kinds[i])]
  <2>1. \A i \in a .. n : e[i] = d[i]
    BY <1>6
  <2>2. e = [i \in a .. n |-> e[i]]
    OBVIOUS
  <2> HIDE DEF e
  <2>3. e = d
    BY <1>5, <2>1, <2>2
  <2>4. QED
    BY <2>3 DEF e
<1>8. QED
  BY <1>7 DEF Counts

LEMMA DepthIs ==
  ASSUME source \in Seq(Lines), at \in 1 .. Len(source)
  PROVE  /\ Depth[at] = 0
         /\ \A i \in at + 1 .. Len(source) : Depth[i] = Deeper(Depth[i - 1], KindAt(i))
         /\ \A i \in at .. Len(source) : Depth[i] \in Nat
<1> DEFINE n == Len(source)
           kinds == [i \in at .. n |-> KindAt(i)]
           Q(d) == d = [i \in at .. n |-> IF i = at THEN 0 ELSE Deeper(d[i - 1], KindAt(i))]
<1>1. n \in Nat /\ at \in Nat /\ at <= n
  OBVIOUS
<1>2. \E d : Q(d)
  <2> HIDE DEF n
  <2>1. PICK d : Counts(d, at, n, kinds)
    BY <1>1, CountExists
  <2>2. \A i \in at .. n : kinds[i] = KindAt(i)
    OBVIOUS
  <2> HIDE DEF kinds
  <2>3. Q(d)
    BY <2>1, <2>2 DEF Counts
  <2>4. QED
    BY <2>3
<1>3. Depth = CHOOSE d : Q(d)
  BY Zenon DEF Depth, Deeper
<1>4. Q(Depth)
  BY <1>2, <1>3
<1> HIDE DEF n
<1>5. \A i \in at .. n : Depth[i] = IF i = at THEN 0 ELSE Deeper(Depth[i - 1], KindAt(i))
  BY <1>4
<1>6. Depth[at] = 0 /\ \A i \in at + 1 .. n : Depth[i] = Deeper(Depth[i - 1], KindAt(i))
  BY <1>1, <1>5
<1> DEFINE D == Depth
           P == {k \in 0 .. n - at : D[at + k] \in Nat}
<1> HIDE DEF D
<1>7. 0 \in P
  BY <1>1, <1>6 DEF D
<1>8. ASSUME NEW k \in 1 .. n - at, k - 1 \in P PROVE k \in P
  <2>1. at + k \in at + 1 .. n /\ (at + k) - 1 = at + (k - 1) /\ k \in 0 .. n - at
    BY <1>1
  <2>2. D[at + k] = Deeper(D[at + (k - 1)], KindAt(at + k)) /\ D[at + (k - 1)] \in Nat
    BY <1>6, <1>8, <2>1 DEF D
  <2>3. D[at + k] \in Nat
    BY <2>2 DEF Deeper
  <2>4. QED
    BY <2>1, <2>3
<1>9. \A k \in 0 .. n - at : k \in P
  <2>1. n - at \in Nat
    BY <1>1
  <2> HIDE DEF P
  <2>2. QED
    BY <1>7, <1>8, <2>1, UpTo
<1>10. \A i \in at .. n : D[i] \in Nat
  <2> SUFFICES ASSUME NEW i \in at .. n PROVE D[i] \in Nat
    OBVIOUS
  <2>1. i - at \in 0 .. n - at /\ at + (i - at) = i
    BY <1>1
  <2>2. QED
    BY <1>9, <2>1
<1>11. QED
  BY <1>6, <1>10 DEF n, D

LEMMA SubSeqStands ==
  ASSUME NEW S, NEW s \in Seq(S), NEW T, NEW part \in Seq(T), NEW i, NEW j, Stands(s, i, part, j)
  PROVE  SubSeq(s, i, j - 1) = part
<1> DEFINE U == S \cup T
           n == Len(part)
           N == Len(s)
<1>1. s \in Seq(U) /\ part \in Seq(U)
  <2>1. S \subseteq U /\ T \subseteq U
    OBVIOUS
  <2> HIDE DEF U
  <2>2. QED
    BY <2>1, Wider
<1>2. n \in Nat /\ N \in Nat /\ i \in 1 .. N + 1 /\ j = i + n /\ j \in 1 .. N + 1
  BY DEF Stands
<1>3. \A k \in 1 .. n : i + k - 1 \in DOMAIN s /\ s[i + k - 1] = part[k]
  BY DEF Stands, At
<1> DEFINE t == SubSeq(s, i, j - 1)
<1>4. t \in Seq(U) /\ Len(t) = n /\ \A k \in 1 .. n : t[k] = s[i + k - 1]
  <2> HIDE DEF U
  <2>1. i \in Nat /\ j - 1 \in i - 1 .. N
    BY <1>2
  <2>2. IF i <= j - 1 THEN Len(t) = j - 1 - i + 1 ELSE Len(t) = 0
    BY <1>1, <1>2
  <2>3. Len(t) = n
    BY <1>2, <2>2
  <2>4. t \in Seq(U)
    <3>1. \A k \in i .. j - 1 : s[k] \in U
      BY <1>1, <1>2
    <3>2. t = [k \in 1 .. j - 1 - i + 1 |-> s[i + k - 1]]
      BY <1>2
    <3>3. j - 1 - i + 1 = n /\ \A k \in 1 .. n : s[i + k - 1] \in U
      BY <1>1, <1>2, <1>3
    <3>4. t = [k \in 1 .. n |-> s[i + k - 1]]
      BY <3>2, <3>3
    <3>5. t \in [1 .. n -> U]
      BY <3>3, <3>4
    <3> HIDE DEF t, n
    <3>6. QED
      BY <1>2, <3>5
  <2>5. \A k \in 1 .. n : t[k] = s[i + k - 1]
    BY <1>2, <2>3
  <2>6. QED
    BY <2>3, <2>4, <2>5
<1> HIDE DEF t, U, n
<1>5. \A k \in 1 .. Len(t) : t[k] = part[k]
  BY <1>3, <1>4
<1>6. t = part
  BY <1>1, <1>4, <1>5, SameSequence DEF n
<1>7. QED
  BY <1>6 DEF t

(* The depth does not rise where no brace opens.                           *)
LEMMA DepthFlat ==
  ASSUME source \in Seq(Lines), at \in 1 .. Len(source),
         NEW u \in at .. Len(source), NEW v \in u .. Len(source), Depth[u] = 0,
         \A i \in u + 1 .. v : KindAt(i) # "open"
  PROVE  Depth[v] = 0
<1> DEFINE n == Len(source)
           D == Depth
           m == v - u
           P == {k \in 0 .. m : D[u + k] = 0}
<1>1. n \in Nat /\ at \in Nat /\ u \in Nat /\ u \in at .. n /\ v \in u .. n /\ D[u] = 0
  OBVIOUS
<1>2. \A i \in at + 1 .. n : D[i] = Deeper(D[i - 1], KindAt(i))
  BY DepthIs
<1>3. \A i \in u + 1 .. v : KindAt(i) # "open"
  OBVIOUS
<1> HIDE DEF n, D
<1>4. 0 \in P
  BY <1>1
<1>5. ASSUME NEW k \in 1 .. m, k - 1 \in P PROVE k \in P
  <2>1. u + k \in at + 1 .. n /\ u + k \in u + 1 .. v /\ (u + k) - 1 = u + (k - 1) /\ k \in 0 .. m
    BY <1>1
  <2>2. D[u + k] = Deeper(D[u + (k - 1)], KindAt(u + k)) /\ D[u + (k - 1)] = 0
    BY <1>2, <1>5, <2>1
  <2>3. Deeper(0, KindAt(u + k)) = 0
    BY <1>3, <2>1 DEF Deeper
  <2>4. QED
    BY <2>1, <2>2, <2>3
<1>6. \A k \in 0 .. m : k \in P
  <2>1. m \in Nat
    BY <1>1
  <2> HIDE DEF P, m
  <2>2. QED
    BY <1>4, <1>5, <2>1, UpTo
<1>7. m \in 0 .. m /\ u + m = v
  BY <1>1
<1>8. QED
  BY <1>6, <1>7 DEF D

(* The scanner's count of braces, which sees only those alone on their     *)
(* lines: from a trigger on, it is back at nothing behind the last line of *)
(* the body, in each style of braces, so that the Return there ends it.    *)
THEOREM BodyShut ==
  ASSUME source \in Seq(Lines), at \in 1 .. Len(source), NEW body, IsBody(body, AllIfs),
         NEW z, Stands(source, at + 1, RenderBody(body), z)
  PROVE  /\ z \in at + 1 .. Len(source) + 1 /\ Depth[z - 1] = 0
         /\ \A i \in at + 1 .. z - 1 : KindAt(i) \in BodyKinds
<1> DEFINE L == RenderBody(body)
           n == Len(L)
           N == Len(source)
           D == Depth
           d == [i \in 1 .. n + 1 |-> D[at + i - 1]]
<1>1. L \in Seq(BodyLines)
  BY BodyRendered
<1>2. n \in Nat /\ N \in Nat /\ at \in 1 .. N /\ z = at + 1 + n /\ z \in 1 .. N + 1
  BY <1>1 DEF Stands
<1>3. \A k \in 1 .. n : at + 1 + k - 1 \in DOMAIN source /\ source[at + 1 + k - 1] = L[k]
  BY DEF Stands, At
<1>4. D[at] = 0 /\ (\A i \in at + 1 .. N : D[i] = Deeper(D[i - 1], KindAt(i)))
      /\ \A i \in at .. N : D[i] \in Nat
  BY DepthIs
<1>5. \A k \in 1 .. n : L[k].kind \in BodyKinds
  BY <1>1, LineOf
<1> HIDE DEF L, D
<1>6. \A k \in 1 .. n : KindAt(at + k) = L[k].kind
  <2> SUFFICES ASSUME NEW k \in 1 .. n PROVE KindAt(at + k) = L[k].kind
    OBVIOUS
  <2>1. at + 1 + k - 1 = at + k
    BY <1>2
  <2>2. QED
    BY <1>3, <2>1 DEF KindAt
<1> HIDE DEF n, N
<1>7. Counted(d, L)
  <2>1. \A i \in 1 .. n + 1 : d[i] = D[at + i - 1]
    OBVIOUS
  <2> HIDE DEF d
  <2>2. ASSUME NEW i \in 1 .. n + 1 PROVE d[i] \in Nat
    <3>1. at + i - 1 \in at .. N
      BY <1>2
    <3>2. QED
      BY <1>4, <2>1, <3>1
  <2>3. ASSUME NEW i \in 1 .. n PROVE d[i + 1] = Deeper(d[i], L[i].kind)
    <3>1. /\ at + i \in at + 1 .. N /\ at + (i + 1) - 1 = at + i /\ (at + i) - 1 = at + i - 1
          /\ i \in 1 .. n + 1 /\ i + 1 \in 1 .. n + 1
      BY <1>2
    <3>2. D[at + i] = Deeper(D[at + i - 1], KindAt(at + i))
      BY <1>4, <3>1
    <3>3. d[i + 1] = D[at + i] /\ d[i] = D[at + i - 1]
      BY <2>1, <3>1
    <3>4. QED
      BY <1>6, <3>2, <3>3
  <2>4. QED
    BY <1>1, <2>2, <2>3 DEF Counted, n
<1>8. Stands(L, 1, L, n + 1)
  <2>1. Len(L) \in Nat /\ DOMAIN L = 1 .. Len(L)
    BY <1>1
  <2>2. \A k \in 1 .. Len(L) : 1 + k - 1 \in DOMAIN L /\ L[1 + k - 1] = L[k]
    BY <2>1
  <2>3. QED
    BY <2>1, <2>2 DEF Stands, At, n
<1>9. d[n + 1] <= d[1]
  BY <1>7, <1>8, BodyClosed DEF L
<1>10. d[n + 1] = D[z - 1] /\ d[1] = D[at] /\ D[z - 1] \in Nat
  <2>1. \A i \in 1 .. n + 1 : d[i] = D[at + i - 1]
    OBVIOUS
  <2>2. /\ n + 1 \in 1 .. n + 1 /\ 1 \in 1 .. n + 1 /\ at + (n + 1) - 1 = z - 1
        /\ at + 1 - 1 = at /\ z - 1 \in at .. N
    BY <1>2
  <2>3. QED
    BY <1>4, <2>1, <2>2
<1>11. D[z - 1] = 0
  BY <1>4, <1>9, <1>10
<1>12. ASSUME NEW i \in at + 1 .. z - 1 PROVE KindAt(i) \in BodyKinds
  <2>1. i - at \in 1 .. n /\ at + (i - at) = i
    BY <1>2
  <2>2. QED
    BY <1>5, <1>6, <2>1
<1>13. z \in at + 1 .. N + 1
  BY <1>2
<1>14. QED
  BY <1>11, <1>12, <1>13 DEF N, D

(* Where a body ends.                                                      *)
LEMMA LeastIs ==
  ASSUME NEW T \in SUBSET Nat, NEW e \in T, \A i \in T : e <= i
  PROVE  Min(T) = e
<1>1. \A x \in T : (\A y \in T : x <= y) => x = e
  OBVIOUS
<1>2. QED
  BY <1>1 DEF Min

LEMMA EndIs ==
  ASSUME source \in Seq(Lines), at \in 1 .. Len(source), NEW e \in at + 1 .. Len(source) + 1,
         \A i \in at + 1 .. e - 1 : KindAt(i) \notin {"header", "headernote", "return"},
         e <= Len(source) => KindAt(e) \in {"header", "headernote", "return"} /\ Depth[e] = 0
  PROVE  BodyEnd = e
<1> DEFINE N == Len(source)
           D == Depth
           T == {i \in at + 1 .. N : KindAt(i) \in {"header", "headernote", "return"} /\ D[i] = 0}
<1>1. N \in Nat /\ at \in Nat /\ e \in at + 1 .. N + 1
  OBVIOUS
<1>2. BodyEnd = IF T = {} THEN N + 1 ELSE Min(T)
  BY DEF BodyEnd
<1> HIDE DEF N, D
<1>3. \A i \in T : e <= i
  BY <1>1
<1>4. CASE e = N + 1
  <2>1. T = {}
    BY <1>1, <1>3, <1>4
  <2>2. QED
    BY <1>2, <1>4, <2>1
<1>5. CASE e # N + 1
  <2>1. e \in T
    BY <1>1, <1>5 DEF N, D
  <2>2. T \in SUBSET Nat
    BY <1>1
  <2> HIDE DEF T
  <2>3. Min(T) = e
    BY <1>3, <2>1, <2>2, LeastIs
  <2>4. QED
    BY <1>2, <2>1, <2>3
<1>6. QED
  BY <1>4, <1>5

(* What the next line that is no comment is.                               *)
LEMMA PeekIs ==
  ASSUME source \in Seq(Lines), at \in 1 .. Len(source), at + 1 \in DOMAIN source,
         KindAt(at + 1) \notin Notes
  PROVE  Peek = KindAt(at + 1)
<1> DEFINE T == {i \in at + 1 .. Len(source) : source[i].kind \notin Notes}
<1>1. at + 1 \in T /\ T \in SUBSET Nat /\ \A i \in T : at + 1 <= i
  BY DEF KindAt
<1>2. Peek = IF T = {} THEN "nothing" ELSE KindAt(Min(T))
  BY DEF Peek
<1> HIDE DEF T
<1> DEFINE e == at + 1
<1>3. e \in T /\ T \in SUBSET Nat /\ \A i \in T : e <= i
  BY <1>1
<1> HIDE DEF e
<1>4. Min(T) = e
  BY <1>3, LeastIs
<1>5. QED
  BY <1>1, <1>2, <1>4 DEF e

(* Where statements end, with the comments behind them.                    *)
LEMMA NoteIs ==
  ASSUME NEW notes \in Seq(NoteLines), NEW k \in 1 .. Len(notes)
  PROVE  notes[k].kind = "note"
<1>1. notes[k] = Plain("note")
  BY DEF NoteLines
<1>2. QED
  BY <1>1, PlainKind

LEMMA StatementsEnd ==
  ASSUME source \in Seq(Lines), at \in 1 .. Len(source), NEW body, IsBody(body, AllIfs),
         NEW notes \in Seq(NoteLines), NEW e, Stands(source, at + 1, RenderBody(body) \o notes, e),
         e <= Len(source) => KindAt(e) \in {"header", "return"}
  PROVE  BodyEnd = e /\ SubSeq(source, at + 1, e - 1) = RenderBody(body) \o notes
<1> DEFINE L == RenderBody(body)
           N == Len(source)
           U == Lines \cup Written
           D == Depth
<1>1. L \in Seq(Written) /\ notes \in Seq(Written)
  BY BodyRendered, BodyWritten, NotesVanish
<1>2. source \in Seq(U) /\ L \in Seq(U) /\ notes \in Seq(U) /\ L \o notes \in Seq(Written)
  <2>1. Lines \subseteq U /\ Written \subseteq U
    OBVIOUS
  <2> HIDE DEF U, L
  <2>2. L \in Seq(U) /\ notes \in Seq(U) /\ source \in Seq(U)
    BY <1>1, <2>1, Wider
  <2>3. L \o notes \in Seq(Written)
    BY <1>1
  <2>4. QED
    BY <2>2, <2>3
<1>3. PICK z : Stands(source, at + 1, L, z) /\ Stands(source, z, notes, e)
  <2> HIDE DEF U, L
  <2>1. Stands(source, at + 1, L \o notes, e)
    BY DEF L
  <2>2. QED
    BY <1>2, <2>1, StandsParts
<1>4. /\ z \in at + 1 .. N + 1 /\ D[z - 1] = 0
      /\ \A i \in at + 1 .. z - 1 : KindAt(i) \in BodyKinds
  BY <1>3, BodyShut
<1>5. /\ N \in Nat /\ at \in 1 .. N /\ e \in z .. N + 1
      /\ \A i \in z .. e - 1 : KindAt(i) = "note"
  <2>1. /\ Len(notes) \in Nat /\ e = z + Len(notes) /\ e \in 1 .. N + 1 /\ z \in 1 .. N + 1
        /\ N \in Nat /\ at \in 1 .. N
    BY <1>3 DEF Stands
  <2>2. \A k \in 1 .. Len(notes) : z + k - 1 \in DOMAIN source /\ source[z + k - 1] = notes[k]
    BY <1>3 DEF Stands, At
  <2>3. \A k \in 1 .. Len(notes) : notes[k].kind = "note"
    BY NoteIs
  <2>4. \A k \in 1 .. Len(notes) : KindAt(z + k - 1) = "note"
    BY <2>2, <2>3 DEF KindAt
  <2> DEFINE m == Len(notes)
  <2>5. m \in Nat /\ e = z + m /\ \A k \in 1 .. m : KindAt(z + k - 1) = "note"
    BY <2>1, <2>4
  <2> HIDE DEF m, N
  <2>6. ASSUME NEW i \in z .. e - 1 PROVE KindAt(i) = "note"
    <3>1. i - z + 1 \in 1 .. m /\ z + (i - z + 1) - 1 = i
      BY <2>1, <2>5
    <3>2. QED
      BY <2>5, <3>1
  <2>7. QED
    BY <2>1, <2>5, <2>6
<1> HIDE DEF D, U
<1>6. ASSUME e <= N PROVE D[e] = 0
  <2>1. KindAt(e) \in {"header", "return"}
    BY <1>6
  <2> DEFINE u == z - 1
  <2>2. u \in at .. N /\ e \in u .. N /\ D[u] = 0
    BY <1>4, <1>5, <1>6
  <2>3. \A i \in u + 1 .. e : KindAt(i) # "open"
    <3> SUFFICES ASSUME NEW i \in u + 1 .. e PROVE KindAt(i) # "open"
      OBVIOUS
    <3>1. CASE i = e
      BY <2>1, <3>1
    <3>2. CASE i # e
      <4>1. i \in z .. e - 1
        BY <1>4, <1>5, <3>2
      <4>2. QED
        BY <1>5, <4>1
    <3>3. QED
      BY <3>1, <3>2
  <2> HIDE DEF u
  <2>4. QED
    BY <2>2, <2>3, DepthFlat DEF D
<1>7. \A i \in at + 1 .. e - 1 : KindAt(i) \notin {"header", "headernote", "return"}
  <2> SUFFICES ASSUME NEW i \in at + 1 .. e - 1 PROVE KindAt(i) \notin {"header", "headernote", "return"}
    OBVIOUS
  <2>1. i \in at + 1 .. z - 1 \/ i \in z .. e - 1
    BY <1>4, <1>5
  <2>2. KindAt(i) \in BodyKinds \/ KindAt(i) = "note"
    BY <1>4, <1>5, <2>1
  <2>3. QED
    BY <2>2 DEF BodyKinds
<1>8. e \in at + 1 .. N + 1
  BY <1>4, <1>5
<1>9. BodyEnd = e
  BY <1>6, <1>7, <1>8, EndIs DEF D
<1>10. SubSeq(source, at + 1, e - 1) = L \o notes
  <2> DEFINE i == at + 1
  <2>1. Stands(source, i, L \o notes, e)
    BY DEF L
  <2> HIDE DEF i, L
  <2>2. SubSeq(source, i, e - 1) = L \o notes
    BY <1>2, <2>1, SubSeqStands
  <2>3. QED
    BY <2>2 DEF i
<1>11. QED
  BY <1>9, <1>10

(* Where lines of text end.                                                *)
LEMMA TextsAre ==
  ASSUME NEW body, AllTexts(body)
  PROVE  /\ \E S : TextLines(body) \in Seq(S)
         /\ Len(TextLines(body)) = Len(body) /\ Len(body) \in Nat
         /\ \A k \in 1 .. Len(body) : TextLines(body)[k].kind = "text"
<1>1. Len(body) \in Nat /\ DOMAIN body = 1 .. Len(body)
  BY DEF AllTexts, IsList
<1> DEFINE t == TextLines(body)
           n == Len(body)
<1>2. t = [i \in 1 .. n |-> Line("text", RenderItems(body[i].says))]
  BY <1>1 DEF TextLines
<1> HIDE DEF t, n
<1>3. t \in Seq({t[i] : i \in 1 .. n}) /\ Len(t) = n
  BY <1>1, <1>2 DEF n
<1>4. \A k \in 1 .. n : t[k].kind = "text"
  BY <1>2, LineIs
<1>5. QED
  BY <1>1, <1>3, <1>4 DEF t, n

LEMMA TextsEnd ==
  ASSUME source \in Seq(Lines), at \in 1 .. Len(source), NEW body, AllTexts(body),
         NEW e, Stands(source, at + 1, TextLines(body), e),
         e <= Len(source) => KindAt(e) = "header"
  PROVE  /\ BodyEnd = e /\ SubSeq(source, at + 1, e - 1) = TextLines(body)
         /\ e \in at + 1 .. Len(source) + 1
<1> DEFINE t == TextLines(body)
           N == Len(source)
           n == Len(body)
           D == Depth
<1>1. PICK S : t \in Seq(S)
  BY TextsAre
<1>2. Len(t) = n /\ n \in Nat /\ \A k \in 1 .. n : t[k].kind = "text"
  BY TextsAre
<1> HIDE DEF t
<1>3. Stands(source, at + 1, t, e)
  BY DEF t
<1>4. e = at + 1 + n /\ e \in 1 .. N + 1 /\ N \in Nat /\ at \in 1 .. N
  BY <1>2, <1>3 DEF Stands
<1>5. \A k \in 1 .. n : at + 1 + k - 1 \in DOMAIN source /\ source[at + 1 + k - 1] = t[k]
  BY <1>2, <1>3 DEF Stands, At
<1>6. \A k \in 1 .. n : KindAt(at + 1 + k - 1) = "text"
  BY <1>2, <1>5 DEF KindAt
<1>7. \A i \in at + 1 .. e - 1 : KindAt(i) = "text"
  <2> HIDE DEF n, N
  <2> SUFFICES ASSUME NEW i \in at + 1 .. e - 1 PROVE KindAt(i) = "text"
    OBVIOUS
  <2>1. i - at \in 1 .. n /\ at + 1 + (i - at) - 1 = i
    BY <1>2, <1>4
  <2>2. QED
    BY <1>6, <2>1
<1> HIDE DEF n, N, D
<1>8. e \in at + 1 .. N + 1 /\ at \in at .. N
  BY <1>2, <1>4
<1>9. ASSUME e <= N PROVE KindAt(e) = "header" /\ D[e] = 0
  <2>1. KindAt(e) = "header"
    BY <1>9 DEF N
  <2>2. e \in at .. N /\ at \in at .. N
    BY <1>8, <1>9
  <2>3. \A i \in at + 1 .. e : KindAt(i) # "open"
    <3> SUFFICES ASSUME NEW i \in at + 1 .. e PROVE KindAt(i) # "open"
      OBVIOUS
    <3>1. i = e \/ i \in at + 1 .. e - 1
      BY <1>4, <1>8
    <3>2. QED
      BY <1>7, <2>1, <3>1
  <2>4. Depth[at] = 0
    BY DepthIs
  <2> DEFINE u == at
  <2>5. u \in at .. Len(source) /\ e \in u .. Len(source) /\ Depth[u] = 0
        /\ \A i \in u + 1 .. e : KindAt(i) # "open"
    BY <2>2, <2>3, <2>4 DEF N
  <2> HIDE DEF u
  <2>6. Depth[e] = 0
    BY <2>5, DepthFlat
  <2>7. QED
    BY <2>1, <2>6 DEF D
<1>10. BodyEnd = e
  <2>1. \A i \in at + 1 .. e - 1 : KindAt(i) \notin {"header", "headernote", "return"}
    BY <1>7
  <2>2. QED
    BY <1>8, <1>9, <2>1, EndIs DEF N, D
<1>11. SubSeq(source, at + 1, e - 1) = t
  <2> DEFINE i == at + 1
  <2>1. Stands(source, i, t, e)
    BY <1>3
  <2> HIDE DEF i
  <2>2. SubSeq(source, i, e - 1) = t
    BY <1>1, <2>1, SubSeqStands
  <2>3. QED
    BY <2>2 DEF i
<1>12. QED
  BY <1>8, <1>10, <1>11 DEF t, N

----------------------------------------------------------------------------
(* Where the macros of a program are in its file.                          *)
TextOf(m) == IF m.way = "inline" THEN RenderItems(m.body[1].says) ELSE <<>>
TriggerLines(m) == [i \in DOMAIN m.triggers |-> RenderTrigger(m.triggers[i], TextOf(m))]
DoesLines(m) ==
    CASE m.way = "statements" -> RenderBody(m.body)
      [] m.way = "inline" -> <<>>
      [] m.way = "below" -> TextLines(m.body)

LEMMA RenderMacroIs ==
  ASSUME NEW m
  PROVE  RenderMacro(m) =
            ((PlainLines(m.before) \o TriggerLines(m)) \o DoesLines(m)) \o PlainLines(m.ending)
  BY DEF RenderMacro, TriggerLines, DoesLines, TextLines, TextOf

LEMMA DoesLinesAre ==
  ASSUME NEW m
  PROVE  /\ m.way = "statements" => DoesLines(m) = RenderBody(m.body)
         /\ m.way = "inline" => DoesLines(m) = <<>>
         /\ m.way = "below" => DoesLines(m) = TextLines(m.body)
  BY DEF DoesLines

LEMMA BothSequences ==
  ASSUME NEW a, NEW b, IsSequence(a), IsSequence(b)
  PROVE  IsSequence(a \o b) /\ \E S : a \in Seq(S) /\ b \in Seq(S)
<1>1. PICK A : a \in Seq(A)
  BY DEF IsSequence
<1>2. PICK B : b \in Seq(B)
  BY DEF IsSequence
<1> DEFINE S == A \cup B
<1>3. A \subseteq S /\ B \subseteq S
  OBVIOUS
<1> HIDE DEF S
<1>4. a \in Seq(S) /\ b \in Seq(S)
  BY <1>1, <1>2, <1>3, Wider
<1>5. a \o b \in Seq(S)
  BY <1>4
<1>6. QED
  BY <1>4, <1>5 DEF IsSequence

(* Parts of a file.                                                        *)
LEMMA StandsApart ==
  ASSUME NEW s, IsSequence(s), NEW a, NEW b, IsSequence(a), IsSequence(b), NEW i, NEW k,
         Stands(s, i, a \o b, k)
  PROVE  \E j : Stands(s, i, a, j) /\ Stands(s, j, b, k)
<1>1. PICK S : s \in Seq(S)
  BY DEF IsSequence
<1>2. PICK T : a \in Seq(T) /\ b \in Seq(T)
  BY BothSequences
<1> DEFINE U == S \cup T
<1>3. S \subseteq U /\ T \subseteq U
  OBVIOUS
<1> HIDE DEF U
<1>4. s \in Seq(U) /\ a \in Seq(U) /\ b \in Seq(U)
  BY <1>1, <1>2, <1>3, Wider
<1>5. QED
  BY <1>4, StandsParts

LEMMA ListIs ==
  ASSUME NEW s, IsList(s)
  PROVE  Len(s) \in Nat /\ DOMAIN s = 1 .. Len(s) /\ IsSequence(s)
<1> DEFINE n == Len(s)
           T == {s[i] : i \in 1 .. n}
<1>1. n \in Nat /\ s = [i \in 1 .. n |-> s[i]]
  BY DEF IsList
<1> HIDE DEF n
<1>2. s \in [1 .. n -> T]
  BY <1>1
<1> HIDE DEF T
<1>3. s \in Seq(T)
  BY <1>1, <1>2
<1>4. DOMAIN s = 1 .. n
  BY <1>1
<1>5. QED
  BY <1>1, <1>3, <1>4 DEF n, IsSequence

LEMMA MadeOf ==
  ASSUME NEW n \in Nat, NEW s, s = [i \in 1 .. n |-> s[i]]
  PROVE  IsSequence(s) /\ Len(s) = n /\ DOMAIN s = 1 .. n
<1> DEFINE T == {s[i] : i \in 1 .. n}
<1>1. s \in [1 .. n -> T]
  OBVIOUS
<1> HIDE DEF T
<1>2. s \in Seq(T) /\ Len(s) = n
  BY <1>1
<1>3. QED
  BY <1>2 DEF IsSequence

LEMMA PlainLinesAre ==
  ASSUME NEW S, NEW kinds \in Seq(S)
  PROVE  /\ IsSequence(PlainLines(kinds)) /\ Len(PlainLines(kinds)) = Len(kinds)
         /\ Len(kinds) \in Nat
         /\ \A k \in 1 .. Len(kinds) : PlainLines(kinds)[k].kind = kinds[k]
         /\ (\A k \in 1 .. Len(kinds) : kinds[k] = "note") => PlainLines(kinds) \in Seq(NoteLines)
<1> DEFINE n == Len(kinds)
           s == PlainLines(kinds)
<1>1. n \in Nat /\ DOMAIN kinds = 1 .. n
  OBVIOUS
<1>2. s = [i \in 1 .. n |-> Plain(kinds[i])]
  BY <1>1 DEF PlainLines
<1> HIDE DEF n, s
<1>3. IsSequence(s) /\ Len(s) = n
  <2>1. s = [i \in 1 .. n |-> s[i]]
    BY <1>2
  <2>2. QED
    BY <1>1, <2>1, MadeOf
<1>4. \A k \in 1 .. n : s[k].kind = kinds[k]
  BY <1>2, PlainKind
<1>5. (\A k \in 1 .. n : kinds[k] = "note") => s \in Seq(NoteLines)
  <2> SUFFICES ASSUME \A k \in 1 .. n : kinds[k] = "note" PROVE s \in Seq(NoteLines)
    OBVIOUS
  <2>1. s \in [1 .. n -> NoteLines]
    BY <1>2 DEF NoteLines
  <2>2. QED
    BY <1>1, <2>1
<1>6. QED
  BY <1>1, <1>3, <1>4, <1>5 DEF n, s

LEMMA TriggerLinesAre ==
  ASSUME NEW m, IsList(m.triggers)
  PROVE  /\ IsSequence(TriggerLines(m)) /\ Len(TriggerLines(m)) = Len(m.triggers)
         /\ \A j \in 1 .. Len(m.triggers) :
                TriggerLines(m)[j] = RenderTrigger(m.triggers[j], TextOf(m))
<1> DEFINE n == Len(m.triggers)
           s == TriggerLines(m)
<1>1. n \in Nat /\ DOMAIN m.triggers = 1 .. n
  BY ListIs
<1>2. s = [i \in 1 .. n |-> RenderTrigger(m.triggers[i], TextOf(m))]
  BY <1>1 DEF TriggerLines
<1> HIDE DEF n, s
<1>3. IsSequence(s) /\ Len(s) = n
  <2>1. s = [i \in 1 .. n |-> s[i]]
    BY <1>2
  <2>2. QED
    BY <1>1, <2>1, MadeOf
<1>4. QED
  BY <1>1, <1>2, <1>3 DEF n, s

(* What a macro is written as.                                             *)
Ending(m) == IF m.ending = <<>> THEN <<>> ELSE <<"return">>
LEMMA MacroIs ==
  ASSUME NEW m, IsMacro(m)
  PROVE  /\ m.before \in Seq(Kinds) /\ IsList(m.triggers) /\ Len(m.triggers) > 0
         /\ m.way \in {"statements", "inline", "below"}
         /\ m.way = "statements" => IsBody(m.body, AllIfs) /\ m.ending \in { <<>>, <<"return">> }
         /\ m.way \in {"inline", "below"} => AllTexts(m.body) /\ m.ending = <<>>
         /\ m.way = "inline" => Len(m.triggers) = 1 /\ Len(m.body) = 1
  BY DEF IsMacro, IsBetween, AllTexts

LEMMA MacroSequences ==
  ASSUME NEW m, IsMacro(m)
  PROVE  /\ IsSequence(PlainLines(m.before)) /\ IsSequence(TriggerLines(m))
         /\ IsSequence(DoesLines(m)) /\ IsSequence(PlainLines(m.ending))
         /\ IsSequence(RenderMacro(m))
<1>1. IsSequence(PlainLines(m.before)) /\ IsSequence(TriggerLines(m))
  BY MacroIs, PlainLinesAre, TriggerLinesAre
<1>2. IsSequence(PlainLines(m.ending))
  <2>1. m.ending = <<>> \/ m.ending = <<"return">>
    BY MacroIs
  <2>2. PlainLines(<<>>) = <<>> /\ PlainLines(<<"return">>) = <<Plain("return")>>
    BY PlainsAre
  <2>3. <<>> \in Seq({}) /\ <<Plain("return")>> \in Seq({Plain("return")})
    BY TuplesTyped
  <2>4. QED
    BY <2>1, <2>2, <2>3 DEF IsSequence
<1>3. IsSequence(DoesLines(m))
  <2>1. CASE m.way = "statements"
    BY <2>1, MacroIs, BodyRendered, DoesLinesAre DEF IsSequence
  <2>2. CASE m.way = "inline"
    <3>1. <<>> \in Seq({})
      OBVIOUS
    <3>2. QED
      BY <2>2, <3>1, DoesLinesAre DEF IsSequence
  <2>3. CASE m.way = "below"
    BY <2>3, MacroIs, TextsAre, DoesLinesAre DEF IsSequence
  <2>4. QED
    BY <2>1, <2>2, <2>3, MacroIs
<1>4. IsSequence(RenderMacro(m))
  BY <1>1, <1>2, <1>3, RenderMacroIs, BothSequences
<1>5. QED
  BY <1>1, <1>2, <1>3, <1>4

(* Where the parts of a macro are.                                         *)
MacroAt(s, m, i, h, b, z, e) ==
    /\ Stands(s, i, PlainLines(m.before), h) /\ Stands(s, h, TriggerLines(m), b)
    /\ Stands(s, b, DoesLines(m), z) /\ Stands(s, z, PlainLines(m.ending), e)

LEMMA MacroPlaces ==
  ASSUME NEW s, IsSequence(s), NEW m, IsMacro(m), NEW i, NEW e, Stands(s, i, RenderMacro(m), e)
  PROVE  \E h, b, z : MacroAt(s, m, i, h, b, z, e)
<1> DEFINE t1 == PlainLines(m.before)
           t2 == TriggerLines(m)
           t3 == DoesLines(m)
           t4 == PlainLines(m.ending)
           t12 == t1 \o t2
           t123 == t12 \o t3
<1>1. IsSequence(t1) /\ IsSequence(t2) /\ IsSequence(t3) /\ IsSequence(t4)
  BY MacroSequences
<1>2. Stands(s, i, t123 \o t4, e)
  BY RenderMacroIs
<1> HIDE DEF t1, t2, t3, t4
<1>3. IsSequence(t12)
  BY <1>1, BothSequences
<1> HIDE DEF t12
<1>4. IsSequence(t123)
  BY <1>1, <1>3, BothSequences
<1> HIDE DEF t123
<1>5. PICK z : Stands(s, i, t123, z) /\ Stands(s, z, t4, e)
  BY <1>1, <1>2, <1>4, StandsApart
<1>6. PICK b : Stands(s, i, t12, b) /\ Stands(s, b, t3, z)
  BY <1>1, <1>3, <1>5, StandsApart DEF t123
<1>7. PICK h : Stands(s, i, t1, h) /\ Stands(s, h, t2, b)
  BY <1>1, <1>6, StandsApart DEF t12
<1>8. MacroAt(s, m, i, h, b, z, e)
  BY <1>5, <1>6, <1>7 DEF MacroAt, t1, t2, t3, t4
<1>9. QED
  BY <1>8

LEMMA ListOfSequences ==
  ASSUME NEW n \in Nat, NEW r, r = [i \in 1 .. n |-> r[i]], \A i \in 1 .. n : IsSequence(r[i])
  PROVE  \E S : r \in Seq(Seq(S)) /\ Len(r) = n
<1> DEFINE R(i) == {r[i][k] : k \in DOMAIN r[i]}
           S == UNION {R(i) : i \in 1 .. n}
<1>1. ASSUME NEW i \in 1 .. n PROVE r[i] \in Seq(S)
  <2> DEFINE x == r[i]
  <2>1. PICK T : x \in Seq(T)
    BY DEF IsSequence
  <2>2. R(i) = {x[k] : k \in DOMAIN x} /\ R(i) \subseteq S
    OBVIOUS
  <2> HIDE DEF x
  <2>3. x \in Seq({x[k] : k \in DOMAIN x})
    <3> DEFINE X == {x[k] : k \in DOMAIN x}
    <3>1. \A k \in DOMAIN x : x[k] \in X
      OBVIOUS
    <3>2. x = [k \in 1 .. Len(x) |-> x[k]] /\ Len(x) \in Nat /\ DOMAIN x = 1 .. Len(x)
      BY <2>1
    <3> HIDE DEF X
    <3>3. x \in [1 .. Len(x) -> X]
      BY <3>1, <3>2
    <3>4. QED
      BY <3>2, <3>3 DEF X
  <2> HIDE DEF S, R
  <2>4. QED
    BY <2>2, <2>3, Wider DEF x
<1> HIDE DEF S
<1>2. r \in [1 .. n -> Seq(S)]
  BY <1>1
<1>3. r \in Seq(Seq(S)) /\ Len(r) = n
  BY <1>2
<1>4. QED
  BY <1>3

LEMMA ProgramIs ==
  ASSUME NEW program, IsProgram(program)
  PROVE  /\ Len(program) \in Nat /\ Len(program) > 0 /\ DOMAIN program = 1 .. Len(program)
         /\ \A n \in 1 .. Len(program) : IsMacro(program[n])
         /\ \A n \in 1 .. Len(program) : n > 1 => IsNext(program[n - 1], program[n])
<1>1. IsList(program)
  BY DEF IsProgram
<1>2. DOMAIN program = 1 .. Len(program) /\ Len(program) \in Nat
  BY <1>1, ListIs
<1>3. QED
  BY <1>2 DEF IsProgram

(* The lines between which the macros are.                                 *)
MacroLines(program) == [i \in DOMAIN program |-> RenderMacro(program[i])]
Placed(q, s, program) ==
    /\ q \in [0 .. Len(program) -> Nat] /\ q[0] = 1 /\ q[Len(program)] = Len(s) + 1
    /\ \A n \in 1 .. Len(program) : Stands(s, q[n - 1], RenderMacro(program[n]), q[n])
Spots(program) == CHOOSE q : Placed(q, Render(program), program)

LEMMA SpotsAre ==
  ASSUME NEW program, IsProgram(program)
  PROVE  Placed(Spots(program), Render(program), program) /\ IsSequence(Render(program))
<1> DEFINE N == Len(program)
           r == MacroLines(program)
           s == Render(program)
<1>1. N \in Nat /\ DOMAIN program = 1 .. N /\ \A n \in 1 .. N : IsMacro(program[n])
  BY ProgramIs
<1>2. r = [i \in 1 .. N |-> RenderMacro(program[i])] /\ s = FlattenSeq(r)
  BY <1>1 DEF MacroLines, Render
<1> HIDE DEF N, r, s
<1>3. \A i \in 1 .. N : r[i] = RenderMacro(program[i]) /\ IsSequence(r[i])
  BY <1>1, <1>2, MacroSequences
<1>4. r = [i \in 1 .. N |-> r[i]]
  BY <1>2
<1>5. PICK S : r \in Seq(Seq(S)) /\ Len(r) = N
  BY <1>1, <1>3, <1>4, ListOfSequences
<1>6. s \in Seq(S)
  BY <1>2, <1>5, FlattenTyped
<1>7. Stands(s, 1, FlattenSeq(r), Len(s) + 1)
  <2>1. Len(s) \in Nat /\ DOMAIN s = 1 .. Len(s)
    BY <1>6
  <2>2. \A k \in 1 .. Len(s) : 1 + k - 1 \in DOMAIN s /\ s[1 + k - 1] = s[k]
    BY <2>1
  <2>3. Stands(s, 1, s, Len(s) + 1)
    BY <2>1, <2>2 DEF Stands, At
  <2>4. QED
    BY <1>2, <2>3
<1>8. PICK q : StandsEach(q, s, 1, r, Len(s) + 1)
  BY <1>5, <1>6, <1>7, StandsFlat
<1>9. Placed(q, s, program)
  BY <1>3, <1>5, <1>8 DEF StandsEach, Placed, N
<1>10. Placed(Spots(program), s, program)
  <2> HIDE DEF Placed
  <2>1. QED
    BY <1>9 DEF Spots, s
<1>11. QED
  BY <1>6, <1>10 DEF s, IsSequence

HeadOf(program, n) == Spots(program)[n - 1] + Len(program[n].before)
BodyAt(program, n) == HeadOf(program, n) + Len(program[n].triggers)

(* The lines of a macro.                                                   *)
LEMMA MacroLaid ==
  ASSUME NEW program, IsProgram(program), NEW n \in 1 .. Len(program)
  PROVE  \E z : MacroAt(Render(program), program[n], Spots(program)[n - 1], HeadOf(program, n),
                        BodyAt(program, n), z, Spots(program)[n])
<1> DEFINE s == Render(program)
           q == Spots(program)
           m == program[n]
<1>1. IsMacro(m) /\ IsSequence(s) /\ Stands(s, q[n - 1], RenderMacro(m), q[n])
  BY ProgramIs, SpotsAre DEF Placed
<1>2. PICK h, b, z : MacroAt(s, m, q[n - 1], h, b, z, q[n])
  BY <1>1, MacroPlaces
<1>3. h = q[n - 1] + Len(m.before) /\ b = h + Len(m.triggers)
  BY <1>1, <1>2, MacroIs, PlainLinesAre, TriggerLinesAre DEF MacroAt, Stands
<1>4. h = HeadOf(program, n) /\ b = BodyAt(program, n)
  BY <1>3 DEF HeadOf, BodyAt
<1>5. QED
  BY <1>2, <1>4

(* What the first macros mean.                                             *)
MacroMeaning(m) == [i \in DOMAIN m.triggers |-> TriggerMeaning(m.triggers[i], MacroDoes(m))]
MeaningSeqs(program) == [i \in DOMAIN program |-> MacroMeaning(program[i])]
Means(g, program) ==
    /\ \A n \in 0 .. Len(program) : IsSequence(g[n])
    /\ g[0] = <<>> /\ g[Len(program)] = Meaning(program)
    /\ \A n \in 1 .. Len(program) : g[n] = g[n - 1] \o MacroMeaning(program[n])
MeantBy(program) == CHOOSE g : Means(g, program)

LEMMA MeaningIs ==
  ASSUME NEW program
  PROVE  Meaning(program) = FlattenSeq(MeaningSeqs(program))
  BY DEF Meaning, MeaningSeqs, MacroMeaning

LEMMA MacroMeaningIs ==
  ASSUME NEW m, IsMacro(m)
  PROVE  /\ IsSequence(MacroMeaning(m)) /\ Len(MacroMeaning(m)) = Len(m.triggers)
         /\ MacroMeaning(m) # <<>>
         /\ \A j \in 1 .. Len(m.triggers) :
                MacroMeaning(m)[j] = TriggerMeaning(m.triggers[j], MacroDoes(m))
<1> DEFINE T == Len(m.triggers)
           s == MacroMeaning(m)
<1>1. T \in Nat /\ T > 0 /\ DOMAIN m.triggers = 1 .. T
  BY MacroIs, ListIs
<1>2. s = [i \in 1 .. T |-> TriggerMeaning(m.triggers[i], MacroDoes(m))]
  BY <1>1 DEF MacroMeaning
<1> HIDE DEF T, s
<1>3. s = [i \in 1 .. T |-> s[i]]
  BY <1>2
<1>4. IsSequence(s) /\ Len(s) = T
  BY <1>1, <1>3, MadeOf
<1>5. s # <<>>
  BY <1>1, <1>4
<1>6. QED
  BY <1>2, <1>4, <1>5 DEF T, s

LEMMA MeantIs ==
  ASSUME NEW program, IsProgram(program)
  PROVE  Means(MeantBy(program), program) /\ Meaning(program) # <<>>
<1> DEFINE N == Len(program)
           r == MeaningSeqs(program)
<1>1. N \in Nat /\ N > 0 /\ DOMAIN program = 1 .. N /\ \A n \in 1 .. N : IsMacro(program[n])
  BY ProgramIs
<1>2. r = [i \in 1 .. N |-> MacroMeaning(program[i])]
  BY <1>1 DEF MeaningSeqs
<1> HIDE DEF N, r
<1>3. \A i \in 1 .. N : r[i] = MacroMeaning(program[i]) /\ IsSequence(r[i]) /\ r[i] # <<>>
  BY <1>1, <1>2, MacroMeaningIs
<1>4. r = [i \in 1 .. N |-> r[i]]
  BY <1>2
<1>5. PICK S : r \in Seq(Seq(S)) /\ Len(r) = N
  BY <1>1, <1>3, <1>4, ListOfSequences
<1>6. Meaning(program) = FlattenSeq(r)
  BY MeaningIs DEF r
<1>7. r # <<>> /\ r[1] # <<>>
  BY <1>1, <1>3, <1>5
<1>8. Meaning(program) # <<>>
  BY <1>5, <1>6, <1>7, NotEmpty
<1>9. PICK g : Accumulates(g, r, S)
  BY <1>5, AccumulatesExist
<1>10. g[N] = Meaning(program)
  BY <1>5, <1>6, <1>9, AccumulatesIs
<1>11. \A n \in 0 .. N : g[n] \in Seq(S)
  BY <1>5, <1>9 DEF Accumulates
<1>12. g[0] = <<>> /\ \A n \in 1 .. N : g[n] = g[n - 1] \o MacroMeaning(program[n])
  BY <1>3, <1>5, <1>9 DEF Accumulates
<1>13. Means(g, program)
  BY <1>10, <1>11, <1>12 DEF Means, IsSequence, N
<1>14. Means(MeantBy(program), program)
  <2> HIDE DEF Means
  <2>1. QED
    BY <1>13 DEF MeantBy
<1>15. QED
  BY <1>8, <1>14

----------------------------------------------------------------------------
(* What is compared with a meaning.                                        *)
Strip(h) == [keys |-> h.keys, mods |-> h.mods, erase |-> h.erase, does |-> h.does]
Stripped(list) == [n \in DOMAIN list |-> Strip(list[n])]

LEMMA StrippedOf ==
  ASSUME NEW a, IsSequence(a)
  PROVE  /\ IsSequence(Stripped(a)) /\ Len(Stripped(a)) = Len(a)
         /\ \A n \in 1 .. Len(a) : Stripped(a)[n] = Strip(a[n])
<1> DEFINE n == Len(a)
           s == Stripped(a)
<1>1. n \in Nat /\ DOMAIN a = 1 .. n
  BY DEF IsSequence
<1>2. s = [i \in 1 .. n |-> Strip(a[i])]
  BY <1>1 DEF Stripped
<1> HIDE DEF n, s
<1>3. s = [i \in 1 .. n |-> s[i]]
  BY <1>2
<1>4. IsSequence(s) /\ Len(s) = n
  BY <1>1, <1>3, MadeOf
<1>5. QED
  BY <1>2, <1>4 DEF n, s

LEMMA StrippedBoth ==
  ASSUME NEW a, NEW b, IsSequence(a), IsSequence(b)
  PROVE  Stripped(a \o b) = Stripped(a) \o Stripped(b)
<1> DEFINE c == a \o b
           u == Stripped(a)
           v == Stripped(b)
           w == Stripped(c)
<1>1. /\ IsSequence(c) /\ Len(a) \in Nat /\ DOMAIN a = 1 .. Len(a)
      /\ Len(b) \in Nat /\ DOMAIN b = 1 .. Len(b) /\ DOMAIN c = 1 .. Len(a) + Len(b)
      /\ (\A i \in DOMAIN a : c[i] = a[i]) /\ \A i \in DOMAIN b : c[Len(a) + i] = b[i]
  BY ConcatOf
<1>2. IsSequence(u) /\ Len(u) = Len(a) /\ \A n \in 1 .. Len(a) : u[n] = Strip(a[n])
  BY StrippedOf
<1>3. IsSequence(v) /\ Len(v) = Len(b) /\ \A n \in 1 .. Len(b) : v[n] = Strip(b[n])
  BY StrippedOf
<1>4. IsSequence(w) /\ Len(w) = Len(c) /\ \A n \in 1 .. Len(c) : w[n] = Strip(c[n])
  BY <1>1, StrippedOf
<1>5. Len(c) = Len(a) + Len(b)
  <2>1. DOMAIN c = 1 .. Len(c) /\ Len(c) \in Nat
    BY <1>1 DEF IsSequence
  <2>2. QED
    BY <1>1, <2>1
<1> HIDE DEF c, u, v, w
<1>6. PICK S : u \in Seq(S) /\ v \in Seq(S)
  BY <1>2, <1>3, BothSequences
<1>7. PICK T : w \in Seq(T)
  BY <1>4 DEF IsSequence
<1> DEFINE p == Len(a)
           k == Len(b)
<1>8. Juxtaposed(w, u, v)
  <2>1. Len(w) = p + k /\ DOMAIN w = 1 .. p + k
    BY <1>4, <1>5, <1>7
  <2>2. \A i \in 1 .. p : w[i] = u[i]
    <3> SUFFICES ASSUME NEW i \in 1 .. p PROVE w[i] = u[i]
      OBVIOUS
    <3>1. i \in 1 .. Len(c) /\ i \in DOMAIN a
      BY <1>1, <1>5
    <3>2. QED
      BY <1>1, <1>2, <1>4, <3>1
  <2>3. \A i \in 1 .. k : w[p + i] = v[i]
    <3> SUFFICES ASSUME NEW i \in 1 .. k PROVE w[p + i] = v[i]
      OBVIOUS
    <3>1. p + i \in 1 .. Len(c) /\ i \in DOMAIN b
      BY <1>1, <1>5
    <3>2. QED
      BY <1>1, <1>3, <1>4, <3>1
  <2> HIDE DEF p, k
  <2>4. QED
    BY <1>2, <1>3, <2>1, <2>2, <2>3 DEF Juxtaposed, p, k
<1>9. w = u \o v
  <2> DEFINE R == S \cup T
  <2>1. S \subseteq R /\ T \subseteq R
    OBVIOUS
  <2> HIDE DEF R
  <2>2. u \in Seq(R) /\ v \in Seq(R) /\ w \in Seq(R)
    BY <1>6, <1>7, <2>1, Wider
  <2>3. QED
    BY <1>8, <2>2, ConcatIs
<1>10. QED
  BY <1>9 DEF c, u, v, w

(* What is read of the line of a trigger.                                  *)
LEMMA HeaderIs ==
  ASSUME NEW t, NEW text
  PROVE  /\ RenderTrigger(t, text).kind = "header" /\ RenderTrigger(t, text).text = text
         /\ RenderTrigger(t, text).form = t.form
  BY DEF RenderTrigger, Header

LEMMA StripIs ==
  ASSUME NEW i, NEW t, IsTrigger(t), NEW text, source[i] = RenderTrigger(t, text),
         NEW does, NEW lines
  PROVE  Strip(Hotstring(i, does, lines)) = TriggerMeaning(t, does)
<1> DEFINE line == source[i]
           x == Hotstring(i, does, lines)
<1>1. TriggerOf(line) = Trigger(TRUE, TriggerKeys(t), TriggerMods(t)) /\ line.form = t.form
  <2> DEFINE r == RenderTrigger(t, text)
  <2>1. TriggerOf(r) = Trigger(TRUE, TriggerKeys(t), TriggerMods(t))
    BY TriggerParsed
  <2>2. r.form = t.form
    BY HeaderIs
  <2>3. line = r
    OBVIOUS
  <2> HIDE DEF line, r
  <2>4. QED
    BY <2>1, <2>2, <2>3
<1>2. x = [line |-> i, keys |-> TriggerOf(line).keys, mods |-> TriggerOf(line).mods,
           erase |-> line.form # "new", does |-> does, body |-> lines]
  BY Zenon DEF Hotstring
<1>3. t.form \in {"old", "new"}
  BY DEF IsTrigger
<1> HIDE DEF line, x
<1>4. /\ x.keys = TriggerKeys(t) /\ x.mods = TriggerMods(t) /\ x.does = does
      /\ x.erase = (t.form # "new")
  BY <1>1, <1>2 DEF Trigger
<1>5. (t.form # "new") = (t.form = "old")
  BY <1>3
<1>6. Strip(x) = [keys |-> TriggerKeys(t), mods |-> TriggerMods(t), erase |-> t.form = "old",
                  does |-> does]
  BY <1>4, <1>5 DEF Strip
<1>7. QED
  BY <1>6, Zenon DEF TriggerMeaning, TriggerKeys, TriggerMods, x

(* The triggers of a macro, when they are flushed with what it does.       *)
LEMMA FlushedMeans ==
  ASSUME NEW m, IsMacro(m), NEW h \in Nat, NEW ls, ls = [j \in 1 .. Len(m.triggers) |-> h + j - 1],
         \A j \in 1 .. Len(m.triggers) :
             source[h + j - 1] = RenderTrigger(m.triggers[j], TextOf(m)),
         NEW lines
  PROVE  /\ Stripped(Flushed(ls, MacroDoes(m), lines)) = MacroMeaning(m)
         /\ IsSequence(Flushed(ls, MacroDoes(m), lines))
<1> DEFINE T == Len(m.triggers)
           does == MacroDoes(m)
           f == Flushed(ls, does, lines)
           s == Stripped(f)
           w == MacroMeaning(m)
<1>1. T \in Nat /\ \A j \in 1 .. T : IsTrigger(m.triggers[j])
  BY MacroIs, ListIs DEF IsMacro
<1>2. IsSequence(w) /\ Len(w) = T /\ \A j \in 1 .. T : w[j] = TriggerMeaning(m.triggers[j], does)
  BY MacroMeaningIs
<1> HIDE DEF T, does, w
<1>3. DOMAIN ls = 1 .. T /\ \A j \in 1 .. T : ls[j] = h + j - 1
  BY DEF T
<1>4. f = [j \in 1 .. T |-> Hotstring(ls[j], does, lines)]
  BY <1>3, Zenon DEF Flushed
<1> HIDE DEF f
<1>5. f = [j \in 1 .. T |-> f[j]]
  BY <1>4
<1>6. IsSequence(f) /\ Len(f) = T
  BY <1>1, <1>5, MadeOf
<1>7. \A j \in 1 .. T : f[j] = Hotstring(h + j - 1, does, lines)
  BY <1>3, <1>4
<1>8. IsSequence(s) /\ Len(s) = T /\ \A j \in 1 .. T : s[j] = Strip(f[j])
  BY <1>6, StrippedOf
<1> HIDE DEF s
<1>9. \A j \in 1 .. T : s[j] = w[j]
  <2> SUFFICES ASSUME NEW j \in 1 .. T PROVE s[j] = w[j]
    OBVIOUS
  <2> DEFINE i == h + j - 1
             t == m.triggers[j]
  <2>1. IsTrigger(t) /\ source[i] = RenderTrigger(t, TextOf(m))
    BY <1>1 DEF T
  <2> HIDE DEF i, t
  <2>2. Strip(Hotstring(i, does, lines)) = TriggerMeaning(t, does)
    BY <2>1, StripIs
  <2>3. s[j] = Strip(Hotstring(i, does, lines)) /\ w[j] = TriggerMeaning(t, does)
    BY <1>2, <1>7, <1>8 DEF i, t
  <2>4. QED
    BY <2>2, <2>3
<1>10. s = w
  <2>1. PICK S : s \in Seq(S) /\ w \in Seq(S)
    BY <1>2, <1>8, BothSequences
  <2>2. Len(s) = Len(w) /\ \A j \in 1 .. Len(s) : s[j] = w[j]
    BY <1>2, <1>8, <1>9
  <2>3. QED
    BY <2>1, <2>2, SameSequence
<1>11. QED
  BY <1>6, <1>10 DEF s, w, f, does

(* What is read of a text behind a trigger.                                *)
LEMMA TextParsed ==
  ASSUME NEW m, IsMacro(m)
  PROVE  /\ ParseReplacement(TextOf(m)).ok
         /\ m.way = "inline" =>
               /\ Text(ParseReplacement(TextOf(m))) = MacroDoes(m)
               /\ ~(/\ ParseReplacement(TextOf(m)).text = <<>>
                    /\ ParseReplacement(TextOf(m)).tail = <<>>)
         /\ m.way # "inline" =>
               ParseReplacement(TextOf(m)).text = <<>> /\ ParseReplacement(TextOf(m)).tail = <<>>
<1>1. CASE m.way = "inline"
  <2> DEFINE items == m.body[1].says
  <2>1. AllTexts(m.body) /\ Len(m.body) = 1
    BY <1>1, MacroIs
  <2>2. 1 \in DOMAIN m.body
    BY <2>1, ListIs DEF AllTexts
  <2>3. IsSaying(items) /\ Replaceable(items)
    BY <2>1, <2>2 DEF AllTexts
  <2>4. TextOf(m) = RenderItems(items) /\ MacroDoes(m) = AtOnce(items)
    BY <1>1 DEF TextOf, MacroDoes
  <2> HIDE DEF items
  <2>5. items \in Seq(Items) /\ items # <<>> /\ \A i \in DOMAIN items : Replacing(items[i])
    BY <2>3, SayingReplaces
  <2>6. ParseReplacement(RenderItems(items)).ok
        /\ Text(ParseReplacement(RenderItems(items))) = AtOnce(items)
    BY <2>5, ReplacementParsed
  <2>7. ~(/\ ParseReplacement(RenderItems(items)).text = <<>>
          /\ ParseReplacement(RenderItems(items)).tail = <<>>)
    BY <2>5, SaysSomething
  <2>8. QED
    BY <1>1, <2>4, <2>6, <2>7
<1>2. CASE m.way # "inline"
  <2>1. ParseReplacement(TextOf(m)) = Replacement(<<>>, <<>>)
    BY <1>2, NothingSaid DEF TextOf
  <2>2. QED
    BY <1>2, <2>1 DEF Replacement
<1>3. QED
  BY <1>1, <1>2

----------------------------------------------------------------------------
(* How far the reader has come in the file of a program.                   *)
Above(h, j) == [x \in 1 .. j - 1 |-> h + x - 1]
Passing(program, n, a, c, p) ==
    \E k \in 0 .. Len(program[n].before) - 1 :
        /\ a = Spots(program)[n - 1] + k
        /\ c = InsideComment(program[n].before, k) /\ p = <<>>
Collecting(program, n, a, c, p) ==
    \E j \in 1 .. Len(program[n].triggers) :
        /\ a = HeadOf(program, n) + j - 1
        /\ c = FALSE /\ p = Above(HeadOf(program, n), j)
OnTheWay(program, a, c, p, list) ==
    \/ \E n \in 1 .. Len(program) :
           /\ Stripped(list) = MeantBy(program)[n - 1]
           /\ Passing(program, n, a, c, p) \/ Collecting(program, n, a, c, p)
    \/ /\ a = Spots(program)[Len(program)] /\ c = FALSE /\ p = <<>>
       /\ Stripped(list) = Meaning(program)

LEMMA AboveNone == \A h : Above(h, 1) = <<>>
  BY DEF Above

LEMMA AboveIs ==
  ASSUME NEW h \in Nat, NEW j \in Nat, j > 0
  PROVE  /\ Above(h, j) \in Seq(Nat)
         /\ Append(Above(h, j), h + j - 1) = [x \in 1 .. j |-> h + x - 1]
<1> DEFINE p == Above(h, j)
           q == [x \in 1 .. j |-> h + x - 1]
           y == h + j - 1
           k == j - 1
<1>2. p = [x \in 1 .. k |-> h + x - 1] /\ k \in Nat /\ k + 1 = j
  BY DEF Above
<1> HIDE DEF p, k
<1>3. p \in [1 .. k -> Nat]
  BY <1>2
<1>4. p \in Seq(Nat) /\ Len(p) = k
  BY <1>2, <1>3
<1>5. y \in Nat
  OBVIOUS
<1>6. q \in [1 .. j -> Nat]
  OBVIOUS
<1>7. \A x \in 1 .. j : q[x] = h + x - 1
  OBVIOUS
<1>8. \A x \in 1 .. k : p[x] = h + x - 1
  BY <1>2
<1> HIDE DEF q
<1>9. q \in Seq(Nat) /\ Len(q) = j
  BY <1>6
<1> HIDE DEF y
<1>10. Append(p, y) \in Seq(Nat) /\ Len(Append(p, y)) = j
  BY <1>2, <1>4, <1>5
<1>11. \A x \in 1 .. j : Append(p, y)[x] = q[x]
  <2> SUFFICES ASSUME NEW x \in 1 .. j PROVE Append(p, y)[x] = q[x]
    OBVIOUS
  <2>1. CASE x = j
    <3>1. Append(p, y)[k + 1] = y
      BY <1>4, <1>5
    <3>2. q[j] = y
      BY <1>7 DEF y
    <3>3. QED
      BY <1>2, <2>1, <3>1, <3>2
  <2>2. CASE x # j
    <3>1. x \in 1 .. k
      BY <1>2, <2>2
    <3>2. Append(p, y)[x] = p[x]
      BY <1>4, <1>5, <3>1
    <3>3. QED
      BY <1>7, <1>8, <3>1, <3>2
  <2>3. QED
    BY <2>1, <2>2
<1>12. Append(p, y) = q
  BY <1>9, <1>10, <1>11, SameSequence
<1>13. QED
  BY <1>4, <1>12 DEF p, q, y

LEMMA InsideStep ==
  ASSUME NEW kinds, NEW k \in Nat
  PROVE  /\ ~InsideComment(kinds, 0)
         /\ kinds[k + 1] = "begin" => InsideComment(kinds, k + 1)
         /\ kinds[k + 1] # "begin" =>
               (InsideComment(kinds, k + 1) <=>
                    InsideComment(kinds, k) /\ kinds[k + 1] \notin {"end", "remark"})
<1>1. ~InsideComment(kinds, 0)
  BY DEF InsideComment
<1>2. ASSUME kinds[k + 1] = "begin" PROVE InsideComment(kinds, k + 1)
  <2>1. k + 1 \in 1 .. k + 1 /\ \A e \in k + 1 + 1 .. k + 1 : FALSE
    OBVIOUS
  <2>2. QED
    BY <1>2, <2>1 DEF InsideComment
<1>3. ASSUME kinds[k + 1] # "begin", InsideComment(kinds, k + 1)
      PROVE  InsideComment(kinds, k) /\ kinds[k + 1] \notin {"end", "remark"}
  <2>1. PICK b \in 1 .. k + 1 : /\ kinds[b] = "begin"
                                /\ \A e \in b + 1 .. k + 1 : kinds[e] \notin {"end", "remark"}
    BY <1>3 DEF InsideComment
  <2>2. b \in 1 .. k /\ k + 1 \in b + 1 .. k + 1 /\ \A e \in b + 1 .. k : e \in b + 1 .. k + 1
    BY <1>3, <2>1
  <2>3. QED
    BY <2>1, <2>2 DEF InsideComment
<1>4. ASSUME InsideComment(kinds, k), kinds[k + 1] \notin {"end", "remark"}
      PROVE  InsideComment(kinds, k + 1)
  <2>1. PICK b \in 1 .. k : /\ kinds[b] = "begin"
                            /\ \A e \in b + 1 .. k : kinds[e] \notin {"end", "remark"}
    BY <1>4 DEF InsideComment
  <2>2. b \in 1 .. k + 1 /\ \A e \in b + 1 .. k + 1 : e = k + 1 \/ e \in b + 1 .. k
    BY <2>1
  <2>3. QED
    BY <1>4, <2>1, <2>2 DEF InsideComment
<1>5. QED
  BY <1>1, <1>2, <1>3, <1>4

LEMMA MacroOf ==
  ASSUME NEW program, IsProgram(program), NEW n \in 1 .. Len(program)
  PROVE  /\ IsMacro(program[n]) /\ Len(program[n].before) \in Nat
         /\ Len(program[n].triggers) \in Nat /\ Len(program[n].triggers) > 0
         /\ ~InsideComment(program[n].before, Len(program[n].before))
         /\ \A k \in 1 .. Len(program[n].before) :
                program[n].before[k] = "header" => InsideComment(program[n].before, k - 1)
<1> DEFINE m == program[n]
<1>1. IsMacro(m)
  BY ProgramIs
<1> HIDE DEF m
<1>2. m.before \in Seq(Kinds) /\ Len(m.triggers) \in Nat /\ Len(m.triggers) > 0
  BY <1>1, MacroIs, ListIs
<1>3. Len(m.before) \in Nat /\ DOMAIN m.before = 1 .. Len(m.before)
  BY <1>2
<1>4. /\ ~InsideComment(m.before, Len(m.before))
      /\ \A k \in 1 .. Len(m.before) : m.before[k] = "header" => InsideComment(m.before, k - 1)
  BY <1>1, <1>3 DEF IsMacro, IsBetween
<1>5. QED
  BY <1>1, <1>2, <1>3, <1>4 DEF m

LEMMA SpotOf ==
  ASSUME NEW program, IsProgram(program), NEW n \in 0 .. Len(program)
  PROVE  Spots(program)[n] \in Nat
  BY SpotsAre DEF Placed

(* At the first trigger of a macro.                                        *)
LEMMA AtHead ==
  ASSUME NEW program, IsProgram(program), NEW n \in 1 .. Len(program),
         NEW list, Stripped(list) = MeantBy(program)[n - 1]
  PROVE  OnTheWay(program, HeadOf(program, n), FALSE, <<>>, list)
<1> DEFINE h == HeadOf(program, n)
           T == Len(program[n].triggers)
<1>1. h \in Nat
  <2>1. n - 1 \in 0 .. Len(program)
    BY ProgramIs
  <2>2. QED
    BY <2>1, MacroOf, SpotOf DEF HeadOf
<1>2. T \in Nat /\ T > 0
  BY MacroOf
<1>3. Above(h, 1) = <<>>
  BY AboveNone
<1> HIDE DEF h
<1>4. h = h + 1 - 1 /\ 1 \in 1 .. T
  BY <1>1, <1>2
<1>5. Collecting(program, n, h, FALSE, <<>>)
  BY <1>3, <1>4 DEF Collecting, h
<1>6. QED
  BY <1>5 DEF OnTheWay, h

(* Where a macro begins, or the file ends.                                 *)
LEMMA Entering ==
  ASSUME NEW program, IsProgram(program), NEW n \in 0 .. Len(program),
         NEW list, Stripped(list) = MeantBy(program)[n]
  PROVE  OnTheWay(program, Spots(program)[n], FALSE, <<>>, list)
<1> DEFINE N == Len(program)
           a == Spots(program)[n]
<1>0. N \in Nat
  BY ProgramIs
<1>1. CASE n = N
  BY <1>1, MeantIs DEF OnTheWay, Means
<1>2. CASE n # N
  <2> DEFINE k == n + 1
             B == Len(program[k].before)
  <2>1. k \in 1 .. N /\ k - 1 = n
    BY <1>0, <1>2
  <2>2. B \in Nat /\ a \in Nat
    BY <2>1, MacroOf, SpotOf
  <2> HIDE DEF k
  <2>3. CASE B = 0
    <3>1. HeadOf(program, k) = a
      BY <2>1, <2>2, <2>3 DEF HeadOf
    <3>2. OnTheWay(program, HeadOf(program, k), FALSE, <<>>, list)
      BY <2>1, AtHead
    <3>3. QED
      BY <3>1, <3>2
  <2>4. CASE B # 0
    <3>1. 0 \in 0 .. B - 1 /\ a = a + 0
      BY <2>2, <2>4
    <3>2. ~InsideComment(program[k].before, 0)
      BY InsideStep
    <3>3. FALSE = InsideComment(program[k].before, 0)
      BY <3>2 DEF InsideComment
    <3>4. Passing(program, k, a, FALSE, <<>>)
      BY <2>1, <3>1, <3>3 DEF Passing
    <3>5. QED
      BY <2>1, <3>4 DEF OnTheWay
  <2>5. QED
    BY <2>3, <2>4
<1>3. QED
  BY <1>1, <1>2

(* A line before a macro.                                                  *)
LEMMA PassedLine ==
  ASSUME NEW program, IsProgram(program), NEW n \in 1 .. Len(program),
         NEW k \in 0 .. Len(program[n].before) - 1,
         NEW list, Stripped(list) = MeantBy(program)[n - 1],
         NEW c, c = InsideComment(program[n].before, k + 1)
  PROVE  OnTheWay(program, Spots(program)[n - 1] + k + 1, c, <<>>, list)
<1> DEFINE B == Len(program[n].before)
           s == Spots(program)[n - 1]
           h == HeadOf(program, n)
<1>1. B \in Nat /\ k \in 0 .. B - 1
  BY MacroOf
<1>2. n - 1 \in 0 .. Len(program)
  BY ProgramIs
<1>3. s \in Nat /\ h = s + B
  BY <1>2, SpotOf DEF HeadOf
<1>4. CASE k + 1 = B
  <2>1. ~InsideComment(program[n].before, B)
    BY MacroOf
  <2>2. c = FALSE
    <3>1. ~InsideComment(program[n].before, k + 1)
      BY <1>4, <2>1
    <3>2. QED
      BY <3>1 DEF InsideComment
  <2> HIDE DEF h, s
  <2>3. s + k + 1 = h
    BY <1>1, <1>3, <1>4
  <2>4. OnTheWay(program, h, FALSE, <<>>, list)
    BY AtHead DEF h
  <2>5. QED
    BY <2>2, <2>3, <2>4 DEF s
<1>5. CASE k + 1 # B
  <2> HIDE DEF B, s
  <2>1. k + 1 \in 0 .. B - 1 /\ s + k + 1 = s + (k + 1)
    BY <1>1, <1>3, <1>5
  <2>2. Passing(program, n, s + k + 1, c, <<>>)
    BY <2>1 DEF Passing, B, s
  <2>3. QED
    BY <2>2 DEF OnTheWay, s
<1>6. QED
  BY <1>4, <1>5

----------------------------------------------------------------------------
(* The file of a program.                                                  *)
Known == source \in Seq(Lines) /\ IsProgram(written) /\ source = Render(written)

LEMMA KnownFile ==
  ASSUME Known
  PROVE  /\ Placed(Spots(written), source, written) /\ Means(MeantBy(written), written)
         /\ Len(source) \in Nat /\ DOMAIN source = 1 .. Len(source)
         /\ Spots(written)[Len(written)] = Len(source) + 1
         /\ Meaning(written) # <<>> /\ Len(written) \in Nat /\ IsProgram(written)
         /\ Len(written) \in 0 .. Len(written)
<1>1. IsProgram(written) /\ source = Render(written)
  BY DEF Known
<1>2. Placed(Spots(written), source, written)
  BY <1>1, SpotsAre
<1>3. Len(source) \in Nat /\ DOMAIN source = 1 .. Len(source)
  BY DEF Known
<1>4. Spots(written)[Len(written)] = Len(source) + 1
  BY <1>2 DEF Placed
<1>5. Len(written) \in Nat
  BY <1>1, ProgramIs
<1>6. QED
  BY <1>1, <1>2, <1>3, <1>4, <1>5, MeantIs

LEMMA LinesBefore ==
  ASSUME Known, NEW n \in 1 .. Len(written), NEW k \in 0 .. Len(written[n].before) - 1
  PROVE  /\ Spots(written)[n - 1] + k \in DOMAIN source
         /\ KindAt(Spots(written)[n - 1] + k) = written[n].before[k + 1]
<1> DEFINE m == written[n]
           i == Spots(written)[n - 1]
           B == Len(m.before)
           s == PlainLines(m.before)
<1>1. PICK z : MacroAt(source, m, i, HeadOf(written, n), BodyAt(written, n), z, Spots(written)[n])
  BY MacroLaid DEF Known
<1>2. IsMacro(m) /\ B \in Nat /\ k \in 0 .. B - 1
  BY MacroOf DEF Known
<1>3. n - 1 \in 0 .. Len(written)
  BY KnownFile
<1>4. i \in Nat
  BY <1>3, SpotOf DEF Known
<1>5. Stands(source, i, s, HeadOf(written, n))
  BY <1>1 DEF MacroAt
<1>6. Len(s) = B /\ \A x \in 1 .. B : s[x].kind = m.before[x]
  BY <1>2, MacroIs, PlainLinesAre
<1>7. \A x \in 1 .. Len(s) : i + x - 1 \in DOMAIN source /\ source[i + x - 1] = s[x]
  BY <1>5 DEF Stands, At
<1> HIDE DEF B, i, m, s
<1>8. k + 1 \in 1 .. B /\ i + (k + 1) - 1 = i + k
  BY <1>2, <1>4
<1>9. i + k \in DOMAIN source /\ source[i + k] = s[k + 1] /\ s[k + 1].kind = m.before[k + 1]
  BY <1>6, <1>7, <1>8
<1>10. QED
  BY <1>9 DEF KindAt, i, m

LEMMA HeadersOf ==
  ASSUME Known, NEW n \in 1 .. Len(written), NEW j \in 1 .. Len(written[n].triggers)
  PROVE  /\ HeadOf(written, n) \in Nat /\ HeadOf(written, n) > 0
         /\ HeadOf(written, n) + j - 1 \in DOMAIN source
         /\ source[HeadOf(written, n) + j - 1] =
                RenderTrigger(written[n].triggers[j], TextOf(written[n]))
         /\ KindAt(HeadOf(written, n) + j - 1) = "header"
<1> DEFINE m == written[n]
           h == HeadOf(written, n)
           T == Len(m.triggers)
           s == TriggerLines(m)
<1>1. PICK z : MacroAt(source, m, Spots(written)[n - 1], h, BodyAt(written, n), z, Spots(written)[n])
  BY MacroLaid DEF Known
<1>2. IsMacro(m) /\ T \in Nat
  BY MacroOf DEF Known
<1>3. Stands(source, h, s, BodyAt(written, n))
  BY <1>1 DEF MacroAt
<1>4. Len(s) = T /\ \A x \in 1 .. T : s[x] = RenderTrigger(m.triggers[x], TextOf(m))
  BY <1>2, MacroIs, TriggerLinesAre
<1>5. \A x \in 1 .. Len(s) : h + x - 1 \in DOMAIN source /\ source[h + x - 1] = s[x]
  BY <1>3 DEF Stands, At
<1>6. h \in 1 .. Len(source) + 1 /\ Len(source) \in Nat
  BY <1>3, KnownFile DEF Stands
<1>7. h \in Nat /\ h > 0
  BY <1>6
<1>8. h + j - 1 \in DOMAIN source /\ source[h + j - 1] = RenderTrigger(m.triggers[j], TextOf(m))
  BY <1>4, <1>5
<1>9. KindAt(h + j - 1) = "header"
  <2> DEFINE y == h + j - 1
             r == RenderTrigger(m.triggers[j], TextOf(m))
  <2>1. r.kind = "header"
    BY HeaderIs
  <2>2. y \in DOMAIN source /\ source[y] = r
    BY <1>8
  <2> HIDE DEF y, r
  <2>3. KindAt(y) = "header"
    BY <2>1, <2>2 DEF KindAt
  <2>4. QED
    BY <2>3 DEF y
<1>10. QED
  BY <1>7, <1>8, <1>9

(* What follows the triggers.                                              *)
LEMMA BodyOf ==
  ASSUME Known, NEW n \in 1 .. Len(written)
  PROVE  /\ IsMacro(written[n]) /\ BodyAt(written, n) = HeadOf(written, n) + Len(written[n].triggers)
         /\ \E z : /\ Stands(source, BodyAt(written, n), DoesLines(written[n]), z)
                   /\ Stands(source, z, PlainLines(written[n].ending), Spots(written)[n])
<1>1. PICK z : MacroAt(source, written[n], Spots(written)[n - 1], HeadOf(written, n),
                       BodyAt(written, n), z, Spots(written)[n])
  BY MacroLaid DEF Known
<1>2. IsMacro(written[n])
  BY MacroOf DEF Known
<1>3. BodyAt(written, n) = HeadOf(written, n) + Len(written[n].triggers)
  BY DEF BodyAt
<1>4. QED
  BY <1>1, <1>2, <1>3 DEF MacroAt

----------------------------------------------------------------------------
(* The lines before a macro are passed over.                               *)
LEMMA PassingStep ==
  ASSUME Known, outcome = "reading", comment \in BOOLEAN, NEW n \in 1 .. Len(written),
         Stripped(hotstrings) = MeantBy(written)[n - 1],
         Passing(written, n, at, comment, pending), Next
  PROVE  OnTheWay(written, at', comment', pending', hotstrings') /\ outcome' = "reading"
<1> DEFINE B == written[n].before
           s == Spots(written)[n - 1]
<1>1. PICK k \in 0 .. Len(B) - 1 : at = s + k /\ comment = InsideComment(B, k) /\ pending = <<>>
  BY DEF Passing
<1>2. at \in DOMAIN source /\ KindAt(at) = B[k + 1]
  BY <1>1, LinesBefore
<1>3. at # Len(source) + 1
  BY <1>2, KnownFile
<1>4. /\ Len(B) \in Nat /\ k \in Nat /\ k + 1 \in 1 .. Len(B) /\ (k + 1) - 1 = k
      /\ \A x \in 1 .. Len(B) : B[x] = "header" => InsideComment(B, x - 1)
  BY MacroOf DEF Known
<1> HIDE DEF B, s
<1> DEFINE x == B[k + 1]
<1>5. x = "header" => InsideComment(B, k)
  BY <1>4
<1>6. /\ x = "begin" => InsideComment(B, k + 1)
      /\ x # "begin" =>
            (InsideComment(B, k + 1) <=> InsideComment(B, k) /\ x \notin {"end", "remark"})
  BY <1>4, InsideStep
<1>7. source[at].kind = x
  BY <1>2 DEF KindAt
<1> HIDE DEF x
<1>8. ~comment => x # "header"
  BY <1>1, <1>5 DEF InsideComment
<1>9. /\ at' = at + 1 /\ pending' = pending /\ hotstrings' = hotstrings /\ outcome' = outcome
      /\ comment' = InsideComment(B, k + 1)
  <2>0. (comment <=> InsideComment(B, k))
    BY <1>1 DEF InsideComment
  <2>1. CASE InComment
    <3>1. (comment' <=> x \notin {"end", "remark"}) /\ comment' \in BOOLEAN /\ comment
      BY <1>7, <2>1 DEF InComment
    <3>2. (comment' <=> InsideComment(B, k + 1))
      BY <1>6, <2>0, <3>1
    <3>3. comment' = InsideComment(B, k + 1)
      BY <3>1, <3>2 DEF InsideComment
    <3>4. QED
      BY <2>1, <3>3 DEF InComment
  <2>2. CASE BeginComment
    <3>1. (comment' <=> x = "begin") /\ comment' \in BOOLEAN /\ ~comment
      BY <1>2, <2>2 DEF BeginComment, Reading, x
    <3>2. (comment' <=> InsideComment(B, k + 1))
      BY <1>6, <2>0, <3>1
    <3>3. comment' = InsideComment(B, k + 1)
      BY <3>1, <3>2 DEF InsideComment
    <3>4. QED
      BY <2>2, <3>3 DEF BeginComment
  <2>3. CASE Assign
    <3>1. comment' = comment /\ comment' \in BOOLEAN /\ ~comment /\ x = "assign"
      BY <1>2, <2>3 DEF Assign, Reading, x
    <3>2. (comment' <=> InsideComment(B, k + 1))
      BY <1>6, <2>0, <3>1
    <3>3. comment' = InsideComment(B, k + 1)
      BY <3>1, <3>2 DEF InsideComment
    <3>4. QED
      BY <2>3, <3>3 DEF Assign
  <2>4. CASE Pass
    <3>1. comment' = comment /\ comment' \in BOOLEAN /\ ~comment /\ x # "begin"
      BY <1>2, <2>4 DEF Pass, Reading, x
    <3>2. (comment' <=> InsideComment(B, k + 1))
      BY <1>6, <2>0, <3>1
    <3>3. comment' = InsideComment(B, k + 1)
      BY <3>1, <3>2 DEF InsideComment
    <3>4. QED
      BY <2>4, <3>3 DEF Pass
  <2>5. ~(Reading({"header"}))
    BY <1>2, <1>8 DEF Reading, x
  <2>6. ~BadHeader /\ ~Inline /\ ~Stack /\ ~CollectBody
    BY <2>5, Zenon DEF BadHeader, Inline, Stack, CollectBody, HeaderRead
  <2>7. ~Finish
    BY <1>3 DEF Finish
  <2>8. QED
    BY <2>1, <2>2, <2>3, <2>4, <2>6, <2>7 DEF Next
<1>10. OnTheWay(written, s + k + 1, comment', <<>>, hotstrings')
  <2>1. IsProgram(written) /\ Stripped(hotstrings') = MeantBy(written)[n - 1]
    BY <1>9 DEF Known
  <2> DEFINE c == comment'
             l == hotstrings'
  <2>2. c = InsideComment(written[n].before, k + 1) /\ Stripped(l) = MeantBy(written)[n - 1]
        /\ k \in 0 .. Len(written[n].before) - 1
    BY <1>1, <1>9, <2>1 DEF B
  <2> HIDE DEF c, l
  <2>3. OnTheWay(written, s + k + 1, c, <<>>, l)
    BY <2>1, <2>2, PassedLine DEF s
  <2>4. QED
    BY <2>3 DEF c, l
<1>11. at' = s + k + 1 /\ pending' = <<>>
  BY <1>1, <1>9
<1>12. QED
  BY <1>9, <1>10, <1>11

----------------------------------------------------------------------------
(* The triggers of a macro.                                                *)
LEMMA HeaderLine ==
  ASSUME Known, NEW n \in 1 .. Len(written), NEW j \in 1 .. Len(written[n].triggers),
         at = HeadOf(written, n) + j - 1
  PROVE  /\ at \in 1 .. Len(source) /\ KindAt(at) = "header" /\ TriggerOf(source[at]).ok
         /\ source[at].text = TextOf(written[n]) /\ ParseReplacement(source[at].text).ok
<1> DEFINE m == written[n]
           t == m.triggers[j]
           r == RenderTrigger(t, TextOf(m))
<1>1. at \in DOMAIN source /\ source[at] = r /\ KindAt(at) = "header"
  BY HeadersOf
<1>2. IsMacro(m) /\ IsTrigger(t)
  <2>1. IsMacro(m)
    BY MacroOf DEF Known
  <2>2. DOMAIN m.triggers = 1 .. Len(m.triggers)
    BY <2>1, MacroIs, ListIs
  <2>3. QED
    BY <2>1, <2>2 DEF IsMacro
<1>3. TriggerOf(r) = Trigger(TRUE, TriggerKeys(t), TriggerMods(t))
  BY <1>2, TriggerParsed
<1>4. r.text = TextOf(m)
  BY HeaderIs
<1>5. ParseReplacement(TextOf(m)).ok
  BY <1>2, TextParsed
<1> HIDE DEF r, m
<1>6. TriggerOf(source[at]).ok
  BY <1>1, <1>3 DEF Trigger
<1>7. source[at].text = TextOf(m)
  BY <1>1, <1>4
<1>8. QED
  BY <1>1, <1>5, <1>6, <1>7, KnownFile DEF m

(* The hotstrings of a macro behind those of the macros above it.          *)
LEMMA Added ==
  ASSUME Known, IsSequence(hotstrings), NEW n \in 1 .. Len(written),
         Stripped(hotstrings) = MeantBy(written)[n - 1], NEW lines,
         NEW ls, ls = [j \in 1 .. Len(written[n].triggers) |-> HeadOf(written, n) + j - 1]
  PROVE  Stripped(hotstrings \o Flushed(ls, MacroDoes(written[n]), lines)) = MeantBy(written)[n]
<1> DEFINE m == written[n]
           h == HeadOf(written, n)
           f == Flushed(ls, MacroDoes(m), lines)
           T == Len(m.triggers)
<1>1. IsMacro(m) /\ T \in Nat /\ T > 0
  BY MacroOf DEF Known
<1>2. /\ h \in Nat
      /\ \A j \in 1 .. T : source[h + j - 1] = RenderTrigger(m.triggers[j], TextOf(m))
  <2>1. \A j \in 1 .. T :
           h \in Nat /\ source[h + j - 1] = RenderTrigger(m.triggers[j], TextOf(m))
    BY HeadersOf
  <2>2. 1 \in 1 .. T
    BY <1>1
  <2>3. QED
    BY <2>1, <2>2
<1>3. ls = [j \in 1 .. T |-> h + j - 1]
  OBVIOUS
<1> HIDE DEF h, m
<1>4. Stripped(f) = MacroMeaning(m) /\ IsSequence(f)
  BY <1>1, <1>2, <1>3, FlushedMeans
<1> HIDE DEF f
<1>5. Stripped(hotstrings \o f) = Stripped(hotstrings) \o Stripped(f)
  BY <1>4, StrippedBoth
<1>6. MeantBy(written)[n] = MeantBy(written)[n - 1] \o MacroMeaning(m)
  BY KnownFile DEF Means, m
<1>7. QED
  BY <1>4, <1>5, <1>6 DEF f, m

LEMMA StandsJoined ==
  ASSUME NEW s, IsSequence(s), NEW a, NEW b, IsSequence(a), IsSequence(b),
         NEW i, NEW j, NEW k, Stands(s, i, a, j), Stands(s, j, b, k)
  PROVE  Stands(s, i, a \o b, k)
<1> DEFINE t == a \o b
           p == Len(a)
           q == Len(b)
<1>1. PICK S : a \in Seq(S) /\ b \in Seq(S)
  BY BothSequences
<1>2. t \in Seq(S) /\ Juxtaposed(t, a, b)
  BY <1>1, Concat
<1>3. p \in Nat /\ q \in Nat
  BY <1>1
<1>4. Len(t) = p + q /\ (\A x \in 1 .. p : t[x] = a[x]) /\ \A x \in 1 .. q : t[p + x] = b[x]
  BY <1>2 DEF Juxtaposed
<1>5. /\ i \in 1 .. Len(s) + 1 /\ j = i + p /\ k = j + q /\ k \in 1 .. Len(s) + 1
      /\ \A x \in 1 .. p : i + x - 1 \in DOMAIN s /\ s[i + x - 1] = a[x]
      /\ \A x \in 1 .. q : j + x - 1 \in DOMAIN s /\ s[j + x - 1] = b[x]
  BY DEF Stands, At
<1>6. Len(s) \in Nat
  BY DEF IsSequence
<1> HIDE DEF t, p, q
<1>7. ASSUME NEW x \in 1 .. p + q PROVE i + x - 1 \in DOMAIN s /\ s[i + x - 1] = t[x]
  <2>1. CASE x \in 1 .. p
    BY <1>4, <1>5, <2>1
  <2>2. CASE x \notin 1 .. p
    <3>1. x - p \in 1 .. q /\ p + (x - p) = x /\ j + (x - p) - 1 = i + x - 1
      BY <1>3, <1>5, <1>6, <2>2
    <3>2. QED
      BY <1>4, <1>5, <3>1
  <2>3. QED
    BY <2>1, <2>2
<1>8. k = i + Len(t)
  BY <1>3, <1>4, <1>5, <1>6
<1>9. QED
  BY <1>4, <1>5, <1>7, <1>8 DEF Stands, At, t

(* What a body of statements begins with.                                  *)
LEMMA StatementBegins ==
  ASSUME NEW s, (IsSend(s) /\ IsSaying(s.says)) \/ (~IsSend(s) /\ s \in AllIfs)
  PROVE  Len(StatementLines(s)) > 0 /\ StatementLines(s)[1].kind \in Starts
<1>1. CASE IsSend(s)
  <2>1. StatementLines(s) = <<CommandLine(s.says)>>
    BY <1>1 DEF StatementLines
  <2>2. CommandLine(s.says).kind = "command"
    BY LineIs DEF CommandLine
  <2> DEFINE c == CommandLine(s.says)
  <2> HIDE DEF c
  <2>3. StatementLines(s) = <<c>> /\ c.kind = "command"
    BY <2>1, <2>2 DEF c
  <2>4. QED
    BY <2>3 DEF Starts
<1>2. CASE ~IsSend(s)
  <2> DEFINE o == Opening(s)
             q == RenderBranches[s]
  <2>1. StatementLines(s) = o \o q /\ o \in Seq(BodyLines) /\ q \in Seq(BodyLines)
    BY <1>2, OpeningIs, AllBranching DEF StatementLines, Branching
  <2>2. Len(o) > 0 /\ o[1].kind \in Starts
    <3>1. Plain("if").kind = "if" /\ Plain("ifopen").kind = "ifopen"
      BY PlainKind
    <3> DEFINE x == Plain("if")
               y == Plain("open")
               z == Plain("ifopen")
    <3>2. o = <<x, y>> \/ o = <<z>>
      BY OpeningIs
    <3> HIDE DEF o, x, y, z
    <3>3. x.kind \in Starts /\ z.kind \in Starts
      BY <3>1 DEF x, z, Starts
    <3>4. QED
      BY <3>2, <3>3
  <2> HIDE DEF o, q
  <2>3. Juxtaposed(o \o q, o, q)
    BY <2>1, Concat
  <2>4. Len(o) \in Nat /\ Len(q) \in Nat
    BY <2>1
  <2>5. 1 \in 1 .. Len(o) /\ Len(o \o q) > 0
    BY <2>2, <2>3, <2>4 DEF Juxtaposed
  <2>6. (o \o q)[1] = o[1]
    BY <2>3, <2>5 DEF Juxtaposed
  <2>7. QED
    BY <2>1, <2>2, <2>5, <2>6
<1>3. QED
  BY <1>1, <1>2

LEMMA BodyBegins ==
  ASSUME NEW body, IsBody(body, AllIfs), body # <<>>
  PROVE  /\ Len(RenderBody(body)) \in Nat /\ Len(RenderBody(body)) > 0
         /\ RenderBody(body)[1].kind \in Starts
<1> DEFINE L == RenderBody(body)
           r == BodySeqs(body)
           n == Len(body)
<1>1. L \in Seq(BodyLines) /\ r \in Seq(Seq(BodyLines)) /\ Len(r) = n /\ L = FlattenSeq(r)
  BY BodyRendered
<1>2. n \in Nat /\ n > 0
  <2>1. IsList(body)
    BY DEF IsBody
  <2>2. n \in Nat
    BY <2>1, ListIs
  <2>3. n # 0
    <3>1. SUFFICES ASSUME n = 0 PROVE FALSE
      OBVIOUS
    <3>2. body = [i \in 1 .. 0 |-> body[i]]
      BY <2>1, <3>1 DEF IsList
    <3>3. QED
      BY <3>2
  <2>4. QED
    BY <2>2, <2>3
<1>3. 1 \in 1 .. n
  BY <1>2
<1>4. r[1] = StatementLines(body[1])
      /\ ((IsSend(body[1]) /\ IsSaying(body[1].says)) \/ (~IsSend(body[1]) /\ body[1] \in AllIfs))
  BY <1>3, BodyListed
<1>5. Len(r[1]) > 0 /\ r[1][1].kind \in Starts
  BY <1>4, StatementBegins
<1> HIDE DEF L, r, n
<1>6. Stands(L, 1, FlattenSeq(r), Len(L) + 1)
  <2>1. Len(L) \in Nat /\ DOMAIN L = 1 .. Len(L)
    BY <1>1
  <2>2. \A k \in 1 .. Len(L) : 1 + k - 1 \in DOMAIN L /\ L[1 + k - 1] = L[k]
    BY <2>1
  <2>3. Stands(L, 1, L, Len(L) + 1)
    BY <2>1, <2>2 DEF Stands, At
  <2>4. QED
    BY <1>1, <2>3
<1>7. PICK p : StandsEach(p, L, 1, r, Len(L) + 1)
  BY <1>1, <1>6, StandsFlat
<1>8. Stands(L, 1, r[1], p[1])
  BY <1>1, <1>3, <1>7 DEF StandsEach
<1>9. Len(r[1]) \in Nat
  BY <1>1, <1>3
<1>10. 1 \in 1 .. Len(r[1])
  BY <1>5, <1>9
<1>11. 1 + 1 - 1 \in DOMAIN L /\ L[1 + 1 - 1] = r[1][1]
  BY <1>8, <1>10 DEF Stands, At
<1>12. 1 \in DOMAIN L /\ L[1] = r[1][1]
  BY <1>11
<1>13. Len(L) \in Nat /\ Len(L) > 0
  BY <1>1, <1>12
<1>14. QED
  BY <1>5, <1>12, <1>13 DEF L

(* What is behind the triggers of a macro that says nothing beside them.   *)
LEMMA BehindTriggers ==
  ASSUME Known, NEW n \in 1 .. Len(written), written[n].way # "inline"
  PROVE  /\ BodyAt(written, n) \in DOMAIN source
         /\ KindAt(BodyAt(written, n)) \notin Notes \cup {"header"}
<1> DEFINE m == written[n]
           b == BodyAt(written, n)
<1>1. PICK z : /\ Stands(source, b, DoesLines(m), z)
               /\ Stands(source, z, PlainLines(m.ending), Spots(written)[n])
  BY BodyOf
<1>2. IsMacro(m)
  BY BodyOf
<1>3. b \in 1 .. Len(source) + 1
  BY <1>1 DEF Stands
<1> HIDE DEF b, m
<1>4. ASSUME NEW L, Len(L) \in Nat, Len(L) > 0, NEW j, Stands(source, b, L, j),
             L[1].kind \notin Notes \cup {"header"}
      PROVE  b \in DOMAIN source /\ KindAt(b) \notin Notes \cup {"header"}
  <2>1. 1 \in 1 .. Len(L)
    BY <1>4
  <2>2. b + 1 - 1 \in DOMAIN source /\ source[b + 1 - 1] = L[1]
    BY <1>4, <2>1 DEF Stands, At
  <2>3. b + 1 - 1 = b
    BY <1>3, KnownFile
  <2>4. QED
    BY <1>4, <2>2, <2>3 DEF KindAt
<1>5. CASE m.way = "statements" /\ m.body # <<>>
  <2> DEFINE L == RenderBody(m.body)
  <2>1. IsBody(m.body, AllIfs) /\ DoesLines(m) = L
    BY <1>2, <1>5, MacroIs, DoesLinesAre
  <2>2. Len(L) \in Nat /\ Len(L) > 0 /\ L[1].kind \in Starts
    BY <1>5, <2>1, BodyBegins
  <2>3. L[1].kind \notin Notes \cup {"header"}
    BY <2>2 DEF Starts, Notes
  <2> HIDE DEF L
  <2>4. QED
    BY <1>1, <1>4, <2>1, <2>2, <2>3 DEF b
<1>6. CASE m.way = "statements" /\ m.body = <<>>
  <2>1. m.ending = <<"return">>
    BY <1>2, <1>6 DEF IsMacro
  <2>2. DoesLines(m) = <<>>
    <3>1. IsBody(m.body, AllIfs) /\ DoesLines(m) = RenderBody(m.body)
      BY <1>2, <1>6, MacroIs, DoesLinesAre
    <3>2. /\ RenderBody(m.body) = FlattenSeq(BodySeqs(m.body))
          /\ BodySeqs(m.body) \in Seq(Seq(BodyLines)) /\ Len(BodySeqs(m.body)) = Len(m.body)
      BY <3>1, BodyRendered
    <3>3. Len(m.body) = 0
      BY <1>6
    <3>4. BodySeqs(m.body) = <<>>
      BY <3>2, <3>3
    <3>5. QED
      BY <3>1, <3>2, <3>4, FlattenNone
  <2>3. z = b
    <3>1. z = b + Len(<<>>)
      BY <1>1, <2>2 DEF Stands
    <3>2. QED
      BY <1>3, <3>1, KnownFile
  <2> DEFINE x == Plain("return")
  <2>4. PlainLines(m.ending) = <<x>> /\ x.kind = "return"
    BY <2>1, PlainsAre, PlainKind
  <2> HIDE DEF x
  <2>5. Stands(source, b, <<x>>, Spots(written)[n])
    BY <1>1, <2>3, <2>4
  <2> DEFINE L == <<x>>
  <2>6. Len(L) \in Nat /\ Len(L) > 0 /\ L[1].kind \notin Notes \cup {"header"}
    BY <2>4 DEF Notes
  <2> HIDE DEF L
  <2>7. QED
    BY <1>4, <2>5, <2>6 DEF L, b
<1>7. CASE m.way = "below"
  <2> DEFINE L == TextLines(m.body)
  <2>1. AllTexts(m.body) /\ DoesLines(m) = L
    BY <1>2, <1>7, MacroIs, DoesLinesAre
  <2>2. Len(L) = Len(m.body) /\ Len(m.body) \in Nat /\ \A k \in 1 .. Len(m.body) : L[k].kind = "text"
    BY <2>1, TextsAre
  <2>3. Len(m.body) > 0
    BY <2>1 DEF AllTexts
  <2>4. 1 \in 1 .. Len(m.body)
    BY <2>2, <2>3
  <2>5. L[1].kind \notin Notes \cup {"header"}
    BY <2>2, <2>4 DEF Notes
  <2> HIDE DEF L
  <2>6. QED
    BY <1>1, <1>4, <2>1, <2>2, <2>3, <2>5 DEF b
<1>8. QED
  BY <1>2, <1>5, <1>6, <1>7, MacroIs DEF b, m

----------------------------------------------------------------------------
(* What CollectBody does when it knows where the body ends.                *)
Taking(e, does) ==
    /\ hotstrings' = hotstrings \o Flushed(Append(pending, at), does, at + 1 .. e - 1)
    /\ pending' = <<>> /\ at' = Resume(e) /\ outcome' = outcome /\ comment' = comment

LEMMA TakesBlock ==
  ASSUME CollectBody, NEW e, BodyEnd = e, NEW body, SubSeq(source, at + 1, e - 1) = body,
         KindAt(e) = "return" \/ \E n \in DOMAIN body : body[n].kind \in Actions,
         ParseBlock(body).next # 0
  PROVE  Taking(e, Commands(ParseBlock(body).commands))
<1>1. KindAt(e) = "return" \/ {body[n].kind : n \in DOMAIN body} \cap Actions # {}
  OBVIOUS
<1>2. QED
  BY <1>1 DEF CollectBody, Taking

LEMMA TakesText ==
  ASSUME CollectBody, NEW e, BodyEnd = e, NEW body, SubSeq(source, at + 1, e - 1) = body,
         KindAt(e) # "return", \A n \in DOMAIN body : body[n].kind \notin Actions,
         ParseReplacement(JoinedLines(body)).ok
  PROVE  Taking(e, Text(ParseReplacement(JoinedLines(body))))
<1>1. ~(KindAt(e) = "return" \/ {body[n].kind : n \in DOMAIN body} \cap Actions # {})
  OBVIOUS
<1>2. QED
  BY <1>1, ZenonT(30) DEF CollectBody, Taking

----------------------------------------------------------------------------
(* The triggers that stand one above the other.                            *)
LEMMA InlineStep ==
  ASSUME Known, IsSequence(hotstrings), comment = FALSE, NEW n \in 1 .. Len(written),
         Stripped(hotstrings) = MeantBy(written)[n - 1],
         NEW j \in 1 .. Len(written[n].triggers), at = HeadOf(written, n) + j - 1,
         pending = Above(HeadOf(written, n), j), Inline
  PROVE  OnTheWay(written, at', comment', pending', hotstrings') /\ outcome' = outcome
<1> DEFINE m == written[n]
           h == HeadOf(written, n)
           T == Len(m.triggers)
<1>1. IsMacro(m) /\ T \in Nat /\ T > 0 /\ h \in Nat
  BY MacroOf, HeadersOf DEF Known
<1>2. source[at].text = TextOf(m)
  BY HeaderLine
<1>3. FALSE = (/\ ParseReplacement(TextOf(m)).text = <<>>
               /\ ParseReplacement(TextOf(m)).tail = <<>>)
  BY <1>2, Zenon DEF Inline, HeaderRead
<1>4. m.way = "inline"
  BY <1>1, <1>3, TextParsed
<1>5. T = 1 /\ j = 1 /\ at = h
  <2>1. T = 1
    BY <1>1, <1>4, MacroIs
  <2> HIDE DEF h
  <2>2. QED
    BY <1>1, <2>1 DEF h
<1>6. pending = <<>>
  BY <1>5, AboveNone
<1>7. Text(ParseReplacement(source[at].text)) = MacroDoes(m)
  BY <1>1, <1>2, <1>4, TextParsed
<1> DEFINE x == Hotstring(at, MacroDoes(m), {})
           ls == [k \in 1 .. Len(written[n].triggers) |-> HeadOf(written, n) + k - 1]
           f == Flushed(ls, MacroDoes(m), {})
<1>8. hotstrings' = hotstrings \o <<x>>
  <2>1. InlineHotstring = x
    BY <1>7 DEF InlineHotstring
  <2>2. hotstrings' = Append(hotstrings \o Flushed(pending, Nothing, {}), InlineHotstring)
    BY DEF Inline
  <2>3. Flushed(pending, Nothing, {}) = <<>>
    BY <1>6 DEF Flushed
  <2>4. hotstrings \o <<>> = hotstrings
    <3>1. PICK S : hotstrings \in Seq(S)
      BY DEF IsSequence
    <3>2. QED
      BY <3>1, EmptyBefore
  <2> HIDE DEF x
  <2>5. hotstrings' = Append(hotstrings, x)
    BY <2>1, <2>2, <2>3, <2>4
  <2>6. QED
    BY <2>5, AppendJoins
<1>9. f = <<x>>
  <2>1. ls = [k \in 1 .. 1 |-> h + k - 1]
    BY <1>5
  <2> HIDE DEF ls
  <2>2. DOMAIN ls = 1 .. 1 /\ ls[1] = h
    <3> HIDE DEF h
    <3> QED BY <1>1, <2>1
  <2> HIDE DEF h
  <2>3. f = [k \in 1 .. 1 |-> Hotstring(ls[k], MacroDoes(m), {})]
    BY <2>2, Zenon DEF Flushed
  <2>4. Hotstring(ls[1], MacroDoes(m), {}) = x
    BY <1>5, <2>2
  <2> HIDE DEF f, x
  <2>5. f = [k \in 1 .. 1 |-> x]
    BY <2>3, <2>4
  <2>6. QED
    BY <2>5
<1> HIDE DEF x, ls
<1>10. Stripped(hotstrings \o f) = MeantBy(written)[n]
  BY Added DEF ls
<1> HIDE DEF f
<1>11. Stripped(hotstrings') = MeantBy(written)[n]
  BY <1>8, <1>9, <1>10
<1>12. at' = Spots(written)[n]
  <2>1. PICK z : /\ Stands(source, BodyAt(written, n), DoesLines(m), z)
                 /\ Stands(source, z, PlainLines(m.ending), Spots(written)[n])
    BY BodyOf
  <2>2. DoesLines(m) = <<>> /\ PlainLines(m.ending) = <<>>
    <3>1. m.ending = <<>>
      BY <1>1, <1>4, MacroIs
    <3>2. QED
      BY <1>4, <3>1, DoesLinesAre, PlainsAre
  <2>3. BodyAt(written, n) = h + T
    BY BodyOf
  <2>4. BodyAt(written, n) = at + 1 /\ at + 1 \in Nat
    <3> HIDE DEF h, T
    <3> QED BY <1>1, <1>5, <2>3
  <2>5. z = at + 1 + Len(<<>>) /\ Spots(written)[n] = z + Len(<<>>)
    BY <2>1, <2>2, <2>4 DEF Stands
  <2>6. Spots(written)[n] = at + 1
    BY <2>4, <2>5
  <2>7. QED
    BY <2>6 DEF Inline
<1>13. pending' = <<>> /\ comment' = FALSE /\ outcome' = outcome
  BY DEF Inline
<1>14. n \in 0 .. Len(written)
  BY KnownFile
<1> DEFINE l == hotstrings'
<1>15. Stripped(l) = MeantBy(written)[n]
  BY <1>11
<1> HIDE DEF l
<1>16. OnTheWay(written, Spots(written)[n], FALSE, <<>>, l)
  BY <1>14, <1>15, Entering DEF Known
<1>17. QED
  BY <1>12, <1>13, <1>16 DEF l

LEMMA StackStep ==
  ASSUME Known, comment = FALSE, NEW n \in 1 .. Len(written),
         Stripped(hotstrings) = MeantBy(written)[n - 1],
         NEW j \in 1 .. Len(written[n].triggers), at = HeadOf(written, n) + j - 1,
         pending = Above(HeadOf(written, n), j), Stack
  PROVE  OnTheWay(written, at', comment', pending', hotstrings') /\ outcome' = outcome
<1> DEFINE m == written[n]
           h == HeadOf(written, n)
           T == Len(m.triggers)
<1>1. IsMacro(m) /\ T \in Nat /\ T > 0 /\ h \in Nat /\ h > 0
  BY MacroOf, HeadersOf DEF Known
<1>2. source[at].text = TextOf(m) /\ at \in 1 .. Len(source)
  BY HeaderLine
<1>3. TRUE = (/\ ParseReplacement(TextOf(m)).text = <<>>
              /\ ParseReplacement(TextOf(m)).tail = <<>>)
  BY <1>2, Zenon DEF Stack, HeaderRead
<1>4. m.way # "inline"
  BY <1>1, <1>3, TextParsed
<1>5. j # T
  <2> SUFFICES ASSUME j = T PROVE FALSE
    OBVIOUS
  <2>1. BodyAt(written, n) = h + T
    BY BodyOf
  <2>2. at + 1 = BodyAt(written, n)
    <3> HIDE DEF h, T
    <3> QED BY <1>1, <2>1 DEF h
  <2>3. at + 1 \in DOMAIN source /\ KindAt(at + 1) \notin Notes \cup {"header"}
    BY <1>4, <2>2, BehindTriggers
  <2>4. Peek = KindAt(at + 1)
    BY <1>2, <2>3, PeekIs DEF Known
  <2>5. QED
    BY <2>3, <2>4 DEF Stack
<1>6. at' = at + 1 /\ pending' = Append(pending, at) /\ comment' = FALSE
      /\ hotstrings' = hotstrings /\ outcome' = outcome
  BY DEF Stack
<1> DEFINE k == j + 1
<1>7. k \in 1 .. T /\ at' = h + k - 1 /\ k - 1 = j
  <2> HIDE DEF h, T
  <2>1. j \in 1 .. T
    BY DEF T
  <2>2. QED
    BY <1>1, <1>5, <1>6, <2>1 DEF h
<1>8. pending' = Above(h, k)
  <2>1. j \in Nat /\ j > 0
    OBVIOUS
  <2> HIDE DEF h, k
  <2>2. Append(Above(h, j), h + j - 1) = [x \in 1 .. j |-> h + x - 1]
    BY <1>1, <2>1, AboveIs
  <2>3. pending' = Append(Above(h, j), h + j - 1)
    BY <1>6 DEF h
  <2>4. Above(h, k) = [x \in 1 .. j |-> h + x - 1]
    BY <1>7 DEF Above
  <2>5. QED
    BY <2>2, <2>3, <2>4
<1>9. Collecting(written, n, at', FALSE, pending')
  <2> HIDE DEF k
  <2>1. QED
    BY <1>7, <1>8 DEF Collecting
<1>10. QED
  BY <1>6, <1>9 DEF OnTheWay

(* Where the reader goes on behind a body: at what is next, be it a macro  *)
(* or the end of the file.                                                 *)
LEMMA NextHead ==
  ASSUME Known, NEW n \in 1 .. Len(written), n # Len(written)
  PROVE  /\ n + 1 \in 1 .. Len(written) /\ (n + 1) - 1 = n
         /\ IsMacro(written[n + 1]) /\ IsNext(written[n], written[n + 1])
         /\ Stands(source, Spots(written)[n], PlainLines(written[n + 1].before),
                   HeadOf(written, n + 1))
         /\ KindAt(HeadOf(written, n + 1)) = "header" /\ HeadOf(written, n + 1) \in DOMAIN source
<1> DEFINE k == n + 1
<1>1. k \in 1 .. Len(written) /\ k - 1 = n /\ k > 1
  BY KnownFile
<1>2. IsMacro(written[k]) /\ IsNext(written[n], written[k])
  BY <1>1, ProgramIs DEF Known
<1> HIDE DEF k
<1>3. PICK z : MacroAt(source, written[k], Spots(written)[k - 1], HeadOf(written, k),
                       BodyAt(written, k), z, Spots(written)[k])
  BY <1>1, MacroLaid DEF Known
<1>4. Stands(source, Spots(written)[n], PlainLines(written[k].before), HeadOf(written, k))
  BY <1>1, <1>3 DEF MacroAt
<1>5. 1 \in 1 .. Len(written[k].triggers)
  <2>1. Len(written[k].triggers) \in Nat /\ Len(written[k].triggers) > 0
    BY <1>1, MacroOf DEF Known
  <2>2. QED
    BY <2>1
<1> DEFINE h == HeadOf(written, k)
<1>6. h \in Nat /\ h + 1 - 1 \in DOMAIN source /\ KindAt(h + 1 - 1) = "header"
  BY <1>1, <1>5, HeadersOf
<1> HIDE DEF h
<1>7. h \in DOMAIN source /\ KindAt(h) = "header"
  <2>1. h + 1 - 1 = h
    BY <1>6
  <2>2. QED
    BY <1>6, <2>1
<1>8. QED
  BY <1>1, <1>2, <1>4, <1>7 DEF h, k

LEMMA ResumeIs ==
  ASSUME NEW e
  PROVE  /\ KindAt(e) = "return" => Resume(e) = e + 1
         /\ KindAt(e) # "return" => Resume(e) = e
  BY DEF Resume

(* The file ends with the last macro.                                      *)
LEMMA LastSpot ==
  ASSUME Known
  PROVE  /\ Spots(written)[Len(written)] = Len(source) + 1
         /\ KindAt(Len(source) + 1) = "nothing"
<1>1. Len(source) \in Nat /\ DOMAIN source = 1 .. Len(source)
      /\ Spots(written)[Len(written)] = Len(source) + 1
  BY KnownFile
<1>2. Len(source) + 1 \notin DOMAIN source
  BY <1>1
<1>3. QED
  BY <1>1, <1>2 DEF KindAt

(* A body of statements is taken for its tree, whatever ends it.           *)
OnAt(n, a) ==
    \/ a = Spots(written)[n]
    \/ n # Len(written) /\ a = HeadOf(written, n + 1)

LEMMA StatementsTaken ==
  ASSUME Known, CollectBody, NEW n \in 1 .. Len(written), at \in 1 .. Len(source),
         at + 1 = BodyAt(written, n), written[n].way = "statements"
  PROVE  \E e : Taking(e, MacroDoes(written[n])) /\ OnAt(n, Resume(e))
<1> DEFINE m == written[n]
           body == m.body
           L == RenderBody(body)
           b == at + 1
           q == Spots(written)[n]
<1>1. PICK z : Stands(source, b, DoesLines(m), z) /\ Stands(source, z, PlainLines(m.ending), q)
  BY BodyOf
<1>2. IsMacro(m) /\ IsBody(body, AllIfs) /\ DoesLines(m) = L
      /\ MacroDoes(m) = Commands(Tree(body)) /\ m.ending \in { <<>>, <<"return">> }
  <2>1. IsMacro(m)
    BY BodyOf
  <2>2. MacroDoes(m) = Commands(Tree(body))
    BY DEF MacroDoes
  <2>3. QED
    BY <2>1, <2>2, MacroIs, DoesLinesAre
<1>3. source \in Seq(Lines)
  BY DEF Known
<1>4. IsSequence(source) /\ IsSequence(L) /\ <<>> \in Seq(NoteLines)
  BY <1>2, <1>3, BodyRendered DEF IsSequence
<1>5. ASSUME NEW notes \in Seq(NoteLines), NEW e, Stands(source, b, L \o notes, e),
             e <= Len(source) => KindAt(e) \in {"header", "return"},
             KindAt(e) = "return" \/ body # <<>>
      PROVE  Taking(e, MacroDoes(m))
  <2>1. BodyEnd = e /\ SubSeq(source, at + 1, e - 1) = L \o notes
    BY <1>2, <1>3, <1>5, StatementsEnd
  <2>2. ParseBlock(L \o notes).next # 0 /\ ParseBlock(L \o notes).commands = Tree(body)
    BY <1>2, BodyParsed
  <2>3. KindAt(e) = "return" \/ \E x \in DOMAIN (L \o notes) : (L \o notes)[x].kind \in Actions
    <3>1. CASE body # <<>>
      <4>1. Len(L) \in Nat /\ Len(L) > 0 /\ L[1].kind \in Starts
        BY <1>2, <3>1, BodyBegins
      <4>2. L \in Seq(Written) /\ notes \in Seq(Written)
        BY <1>2, BodyRendered, BodyWritten, NotesVanish
      <4> HIDE DEF L
      <4>3. Juxtaposed(L \o notes, L, notes) /\ Len(notes) \in Nat
        BY <4>2, Concat
      <4>4. 1 \in 1 .. Len(L) /\ 1 \in 1 .. Len(L) + Len(notes)
        BY <4>1, <4>3
      <4>5. 1 \in DOMAIN (L \o notes) /\ (L \o notes)[1] = L[1]
        BY <4>3, <4>4 DEF Juxtaposed
      <4>6. L[1].kind \in Actions
        BY <4>1 DEF Starts, Actions
      <4>7. QED
        BY <4>5, <4>6
    <3>2. QED
      BY <1>5, <3>1
  <2> DEFINE w == L \o notes
  <2>4. BodyEnd = e /\ SubSeq(source, at + 1, e - 1) = w /\ ParseBlock(w).next # 0
        /\ (KindAt(e) = "return" \/ \E x \in DOMAIN w : w[x].kind \in Actions)
        /\ ParseBlock(w).commands = Tree(body)
    BY <2>1, <2>2, <2>3
  <2> HIDE DEF w
  <2>5. Taking(e, Commands(ParseBlock(w).commands))
    BY <2>4, TakesBlock
  <2>6. QED
    BY <1>2, <2>4, <2>5
<1>6. Stands(source, b, L, z) /\ Stands(source, b, L \o <<>>, z)
  <2>1. L \o <<>> = L
    BY <1>2, BodyRendered, EmptyBefore
  <2>2. QED
    BY <1>1, <1>2, <2>1
<1>7. CASE m.ending = <<"return">>
  <2> DEFINE x == Plain("return")
  <2>1. PlainLines(m.ending) = <<x>> /\ x.kind = "return"
    BY <1>7, PlainsAre, PlainKind
  <2> HIDE DEF x, m, q, b, L
  <2>2. Stands(source, z, <<x>>, q)
    BY <1>1, <2>1
  <2>3. z \in Nat /\ q = z + 1 /\ z \in DOMAIN source /\ source[z] = x
    <3>1. 1 \in 1 .. Len(<<x>>) /\ Len(<<x>>) = 1 /\ <<x>>[1] = x
      OBVIOUS
    <3>2. z + 1 - 1 \in DOMAIN source /\ source[z + 1 - 1] = <<x>>[1] /\ q = z + Len(<<x>>)
          /\ z \in 1 .. Len(source) + 1
      BY <2>2, <3>1 DEF Stands, At
    <3>3. z \in Nat /\ z + 1 - 1 = z
      BY <3>2, KnownFile
    <3>4. QED
      BY <3>1, <3>2, <3>3
  <2>4. KindAt(z) = "return"
    BY <2>1, <2>3 DEF KindAt
  <2>5. Taking(z, MacroDoes(m))
    BY <1>4, <1>5, <1>6, <2>4
  <2>6. Resume(z) = q
    BY <2>3, <2>4, ResumeIs
  <2>7. QED
    BY <2>5, <2>6 DEF OnAt, m, q
<1>8. CASE m.ending = <<>>
  <2>1. body # <<>>
    BY <1>2, <1>8 DEF IsMacro
  <2>2. q = z
    <3>1. PlainLines(m.ending) = <<>>
      BY <1>8, PlainsAre
    <3>2. q = z + Len(<<>>) /\ z \in 1 .. Len(source) + 1
      BY <1>1, <3>1 DEF Stands
    <3>3. QED
      BY <3>2, KnownFile
  <2>3. CASE n = Len(written)
    <3>1. q = Len(source) + 1 /\ KindAt(q) = "nothing"
      BY <2>3, LastSpot
    <3>2. ~(z <= Len(source))
      BY <2>2, <3>1, KnownFile
    <3> HIDE DEF m, q, b, L
    <3>3. Taking(z, MacroDoes(m))
      BY <1>4, <1>5, <1>6, <2>1, <3>2 DEF m
    <3>4. Resume(z) = q
      BY <2>2, <3>1, ResumeIs
    <3>5. QED
      BY <3>3, <3>4 DEF OnAt, m, q
  <2>4. CASE n # Len(written)
    <3> DEFINE next == written[n + 1]
               h == HeadOf(written, n + 1)
               notes == PlainLines(next.before)
    <3>1. /\ IsMacro(next) /\ IsNext(m, next) /\ Stands(source, q, notes, h)
          /\ KindAt(h) = "header"
      BY <2>4, NextHead
    <3>2. \A i \in DOMAIN next.before : next.before[i] = "note"
      <4>1. m.way = "statements" /\ m.ending = <<>>
        BY <1>8
      <4>2. <<>> # <<"return">>
        OBVIOUS
      <4>3. QED
        BY <3>1, <4>1, <4>2 DEF IsNext
    <3>3. notes \in Seq(NoteLines)
      <4>1. next.before \in Seq(Kinds)
        BY <3>1, MacroIs
      <4>2. \A k \in 1 .. Len(next.before) : next.before[k] = "note"
        BY <3>2, <4>1
      <4>3. QED
        BY <4>1, <4>2, PlainLinesAre
    <3> HIDE DEF m, q, b, L, h, notes, next
    <3>4. IsSequence(notes)
      BY <3>3 DEF IsSequence
    <3>5. Stands(source, b, L \o notes, h)
      BY <1>4, <1>6, <2>2, <3>1, <3>4, StandsJoined
    <3>6. Taking(h, MacroDoes(m))
      BY <1>5, <2>1, <3>1, <3>3, <3>5 DEF m
    <3>7. Resume(h) = h
      BY <3>1, ResumeIs
    <3>8. QED
      BY <2>4, <3>6, <3>7 DEF OnAt, m, h
  <2>5. QED
    BY <2>3, <2>4
<1>9. QED
  BY <1>2, <1>7, <1>8

(* Lines of text are taken for one.                                        *)
LEMMA TextsTaken ==
  ASSUME Known, CollectBody, NEW n \in 1 .. Len(written), at \in 1 .. Len(source),
         at + 1 = BodyAt(written, n), written[n].way = "below"
  PROVE  \E e : Taking(e, MacroDoes(written[n])) /\ OnAt(n, Resume(e))
<1> DEFINE m == written[n]
           body == m.body
           t == TextLines(body)
           b == at + 1
           q == Spots(written)[n]
<1>1. PICK z : Stands(source, b, DoesLines(m), z) /\ Stands(source, z, PlainLines(m.ending), q)
  BY BodyOf
<1>2. /\ IsMacro(m) /\ AllTexts(body) /\ DoesLines(m) = t /\ m.ending = <<>>
      /\ MacroDoes(m) = AtOnce(OneText(body))
  <2>1. IsMacro(m)
    BY BodyOf
  <2>2. MacroDoes(m) = AtOnce(OneText(body))
    BY DEF MacroDoes
  <2>3. QED
    BY <2>1, <2>2, MacroIs, DoesLinesAre
<1>3. q = z
  <2>1. PlainLines(m.ending) = <<>>
    BY <1>2, PlainsAre
  <2>2. q = z + Len(<<>>) /\ z \in 1 .. Len(source) + 1
    BY <1>1, <2>1 DEF Stands
  <2>3. QED
    BY <2>2, KnownFile
<1>4. Stands(source, b, t, q)
  BY <1>1, <1>2, <1>3
<1>5. (q <= Len(source) => KindAt(q) = "header") /\ KindAt(q) # "return"
  <2>1. CASE n = Len(written)
    <3>1. q = Len(source) + 1 /\ KindAt(q) = "nothing"
      BY <2>1, LastSpot
    <3>2. ~(q <= Len(source))
      BY <3>1, KnownFile
    <3>3. QED
      BY <3>1, <3>2
  <2>2. CASE n # Len(written)
    <3> DEFINE next == written[n + 1]
               h == HeadOf(written, n + 1)
    <3>1. /\ IsMacro(next) /\ IsNext(m, next) /\ Stands(source, q, PlainLines(next.before), h)
          /\ KindAt(h) = "header"
      BY <2>2, NextHead
    <3>2. next.before = <<>>
      <4>1. m.way = "below" /\ m.ending = <<>> /\ <<>> # <<"return">>
        BY <1>2
      <4>2. QED
        BY <3>1, <4>1 DEF IsNext
    <3>3. PlainLines(next.before) = <<>>
      BY <3>2, PlainsAre
    <3> HIDE DEF h, next, q
    <3>4. h = q + Len(<<>>) /\ q \in 1 .. Len(source) + 1
      BY <3>1, <3>3 DEF Stands
    <3>5. h = q
      BY <3>4, KnownFile
    <3>6. QED
      BY <3>1, <3>5
  <2>3. QED
    BY <2>1, <2>2
<1>6. BodyEnd = q /\ SubSeq(source, at + 1, q - 1) = t
  BY <1>2, <1>4, <1>5, TextsEnd DEF Known
<1>7. \A x \in DOMAIN t : t[x].kind \notin Actions
  <2>1. Len(t) = Len(body) /\ \A k \in 1 .. Len(body) : t[k].kind = "text"
    BY <1>2, TextsAre
  <2>2. PICK S : t \in Seq(S)
    BY <1>2, TextsAre
  <2> HIDE DEF t, body
  <2>3. DOMAIN t = 1 .. Len(t)
    BY <2>2
  <2>4. "text" \notin Actions
    BY DEF Actions
  <2>5. QED
    BY <2>1, <2>3, <2>4
<1>8. /\ ParseReplacement(JoinedLines(t)).ok
      /\ Text(ParseReplacement(JoinedLines(t))) = AtOnce(OneText(body))
  <2> DEFINE items == OneText(body)
  <2>1. JoinedLines(t) = RenderItems(items) /\ items \in Seq(Items)
        /\ \A i \in DOMAIN items : Replacing(items[i])
    BY <1>2, LinesJoined
  <2> HIDE DEF items
  <2>2. ParseReplacement(RenderItems(items)).ok
        /\ Text(ParseReplacement(RenderItems(items))) = AtOnce(items)
    BY <2>1, ReplacementParsed
  <2>3. QED
    BY <2>1, <2>2 DEF items
<1> HIDE DEF t, q, m, body
<1>9. Taking(q, Text(ParseReplacement(JoinedLines(t))))
  BY <1>5, <1>6, <1>7, <1>8, TakesText
<1>10. Resume(q) = q
  BY <1>5, ResumeIs
<1>11. Taking(q, MacroDoes(m)) /\ OnAt(n, Resume(q))
  BY <1>2, <1>8, <1>9, <1>10 DEF OnAt, q
<1>12. QED
  BY <1>11 DEF m

(* The body that some triggers share is what their macro does.             *)
LEMMA CollectStep ==
  ASSUME Known, IsSequence(hotstrings), comment = FALSE, NEW n \in 1 .. Len(written),
         Stripped(hotstrings) = MeantBy(written)[n - 1],
         NEW j \in 1 .. Len(written[n].triggers), at = HeadOf(written, n) + j - 1,
         pending = Above(HeadOf(written, n), j), CollectBody
  PROVE  OnTheWay(written, at', comment', pending', hotstrings') /\ outcome' = outcome
<1> DEFINE m == written[n]
           h == HeadOf(written, n)
           T == Len(m.triggers)
<1>1. IsMacro(m) /\ T \in Nat /\ T > 0 /\ h \in Nat /\ h > 0
  BY MacroOf, HeadersOf DEF Known
<1>2. source[at].text = TextOf(m) /\ at \in 1 .. Len(source)
  BY HeaderLine
<1>3. TRUE = (/\ ParseReplacement(TextOf(m)).text = <<>>
              /\ ParseReplacement(TextOf(m)).tail = <<>>)
  BY <1>2, Zenon DEF CollectBody, HeaderRead
<1>4. m.way # "inline"
  BY <1>1, <1>3, TextParsed
<1>5. m.way = "statements" \/ m.way = "below"
  BY <1>1, <1>4, MacroIs
<1>6. j = T
  <2> SUFFICES ASSUME j # T PROVE FALSE
    OBVIOUS
  <2> DEFINE k == j + 1
  <2>1. k \in 1 .. T /\ h + k - 1 = at + 1
    <3> HIDE DEF h, T
    <3>1. j \in 1 .. T /\ at = h + j - 1
      BY DEF h, T
    <3>2. QED
      BY <1>1, <3>1
  <2> HIDE DEF k
  <2>2. h + k - 1 \in DOMAIN source /\ KindAt(h + k - 1) = "header"
    BY <2>1, HeadersOf
  <2>3. at + 1 \in DOMAIN source /\ KindAt(at + 1) = "header" /\ KindAt(at + 1) \notin Notes
    BY <2>1, <2>2 DEF Notes
  <2>4. Peek = "header"
    BY <1>2, <2>3, PeekIs DEF Known
  <2>5. QED
    BY <2>4 DEF CollectBody
<1>7. at + 1 = BodyAt(written, n)
  <2>1. BodyAt(written, n) = h + T
    BY BodyOf
  <2> HIDE DEF h, T
  <2>2. at = h + T - 1
    BY <1>6 DEF h
  <2>3. QED
    BY <1>1, <2>1, <2>2
<1>8. PICK e : Taking(e, MacroDoes(m)) /\ OnAt(n, Resume(e))
  BY <1>2, <1>5, <1>7, StatementsTaken, TextsTaken
<1> DEFINE ls == Append(pending, at)
<1>9. ls = [x \in 1 .. T |-> h + x - 1]
  <2> HIDE DEF h, T
  <2>1. pending = Above(h, T) /\ at = h + T - 1
    BY <1>6 DEF h
  <2>2. Append(Above(h, T), h + T - 1) = [x \in 1 .. T |-> h + x - 1]
    BY <1>1, AboveIs
  <2>3. QED
    BY <2>1, <2>2
<1> HIDE DEF ls
<1>10. Stripped(hotstrings \o Flushed(ls, MacroDoes(m), at + 1 .. e - 1)) = MeantBy(written)[n]
  <2> DEFINE lines == at + 1 .. e - 1
  <2> HIDE DEF lines
  <2>1. Stripped(hotstrings \o Flushed(ls, MacroDoes(m), lines)) = MeantBy(written)[n]
    BY <1>9, Added
  <2>2. QED
    BY <2>1 DEF lines
<1> DEFINE l == hotstrings'
<1>11. Stripped(l) = MeantBy(written)[n] /\ at' = Resume(e) /\ pending' = <<>>
       /\ comment' = FALSE /\ outcome' = outcome
  BY <1>8, <1>10 DEF Taking, ls
<1> HIDE DEF l
<1>12. OnTheWay(written, at', FALSE, <<>>, l)
  <2>1. CASE Resume(e) = Spots(written)[n]
    <3>1. n \in 0 .. Len(written)
      BY KnownFile
    <3>2. OnTheWay(written, Spots(written)[n], FALSE, <<>>, l)
      BY <1>11, <3>1, Entering DEF Known
    <3>3. QED
      BY <1>11, <2>1, <3>2
  <2>2. CASE n # Len(written) /\ Resume(e) = HeadOf(written, n + 1)
    <3> DEFINE k == n + 1
    <3>1. k \in 1 .. Len(written) /\ k - 1 = n
      BY <2>2, NextHead
    <3> HIDE DEF k
    <3>2. OnTheWay(written, HeadOf(written, k), FALSE, <<>>, l)
      BY <1>11, <3>1, AtHead DEF Known
    <3>3. QED
      BY <1>11, <2>2, <3>2 DEF k
  <2>3. QED
    BY <1>8, <2>1, <2>2 DEF OnAt
<1>13. QED
  BY <1>11, <1>12 DEF l

LEMMA CollectingStep ==
  ASSUME Known, IsSequence(hotstrings), outcome = "reading", NEW n \in 1 .. Len(written),
         Stripped(hotstrings) = MeantBy(written)[n - 1],
         Collecting(written, n, at, comment, pending), Next
  PROVE  OnTheWay(written, at', comment', pending', hotstrings') /\ outcome' = "reading"
<1>1. PICK j \in 1 .. Len(written[n].triggers) :
         /\ at = HeadOf(written, n) + j - 1 /\ comment = FALSE
         /\ pending = Above(HeadOf(written, n), j)
  BY DEF Collecting
<1>2. /\ at \in 1 .. Len(source) /\ KindAt(at) = "header" /\ TriggerOf(source[at]).ok
      /\ ParseReplacement(source[at].text).ok
  BY <1>1, HeaderLine
<1>3. ~InComment
  BY <1>1 DEF InComment
<1>4. ~BeginComment /\ ~Assign /\ ~Pass
  BY <1>2 DEF BeginComment, Assign, Pass, Reading
<1>5. ~BadHeader
  BY <1>2 DEF BadHeader
<1>6. ~Finish
  <2>1. at # Len(source) + 1
    BY <1>2, KnownFile
  <2>2. QED
    BY <2>1 DEF Finish
<1>7. Inline \/ Stack \/ CollectBody
  BY <1>3, <1>4, <1>5, <1>6 DEF Next
<1>8. CASE Inline
  BY <1>1, <1>8, InlineStep
<1>9. CASE Stack
  BY <1>1, <1>9, StackStep
<1>10. CASE CollectBody
  BY <1>1, <1>10, CollectStep
<1>11. QED
  BY <1>7, <1>8, <1>9, <1>10

(* The end of the file.                                                    *)
LEMMA FinishStep ==
  ASSUME Known, IsSequence(hotstrings), comment = FALSE, pending = <<>>,
         at = Spots(written)[Len(written)], Stripped(hotstrings) = Meaning(written), Next
  PROVE  outcome' = "done" /\ Stripped(hotstrings') = Meaning(written)
<1>1. KindAt(at) = "nothing" /\ at \notin DOMAIN source
  BY LastSpot, KnownFile
<1>2. ~InComment
  BY <1>1 DEF InComment
<1>3. "nothing" \notin Kinds
  BY NothingIsNoKind
<1>4. ~Reading({"header"})
  BY <1>1 DEF Reading
<1>5. ~BeginComment /\ ~Assign /\ ~Pass
  BY <1>1, <1>3 DEF BeginComment, Assign, Pass, Reading
<1>6. ~BadHeader /\ ~Inline /\ ~Stack /\ ~CollectBody
  BY <1>4, Zenon DEF BadHeader, Inline, Stack, CollectBody, HeaderRead
<1>7. Finish
  BY <1>2, <1>5, <1>6 DEF Next
<1>8. hotstrings' = hotstrings
  <2>1. Flushed(pending, Nothing, {}) = <<>>
    BY DEF Flushed
  <2>2. hotstrings \o <<>> = hotstrings
    <3>1. PICK S : hotstrings \in Seq(S)
      BY DEF IsSequence
    <3>2. QED
      BY <3>1, EmptyBefore
  <2>3. QED
    BY <1>7, <2>1, <2>2 DEF Finish
<1>9. hotstrings # <<>>
  <2>1. Stripped(<<>>) = <<>>
    BY DEF Stripped
  <2>2. Meaning(written) # <<>>
    BY KnownFile
  <2>3. QED
    BY <2>1, <2>2
<1>10. outcome' = "done"
  BY <1>7, <1>8, <1>9 DEF Finish
<1>11. QED
  BY <1>8, <1>10

----------------------------------------------------------------------------
(* The file of a program.  At every line of it the hotstrings are what the *)
(* macros above mean, and nothing is refused.                              *)
ReadRight ==
    written # <<>> =>
        /\ Known /\ outcome \in {"reading", "done"}
        /\ outcome = "reading" => OnTheWay(written, at, comment, pending, hotstrings)
        /\ outcome = "done" => Stripped(hotstrings) = Meaning(written)

LEMMA ReadRightInit == ReferenceInit => Init /\ ReadRight
<1> SUFFICES ASSUME ReferenceInit, written # <<>> PROVE ReadRight
  BY DEF ReferenceInit, ReadRight
<1>1. Init /\ source = Render(written) /\ \E n \in DOMAIN Programs : written \in Programs[n]
  BY DEF ReferenceInit
<1>2. IsProgram(written)
  BY <1>1, ProgramsAssumption
<1>3. Known /\ at = 1 /\ comment = FALSE /\ pending = <<>> /\ hotstrings = <<>>
      /\ outcome = "reading"
  BY <1>1, <1>2 DEF Init, Known
<1>4. 0 \in 0 .. Len(written) /\ Spots(written)[0] = 1 /\ MeantBy(written)[0] = <<>>
  BY <1>3, KnownFile DEF Placed, Means
<1>5. Stripped(<<>>) = MeantBy(written)[0]
  BY <1>4 DEF Stripped
<1> DEFINE l == <<>>
<1>6. Stripped(l) = MeantBy(written)[0]
  BY <1>5
<1> HIDE DEF l
<1>7. OnTheWay(written, Spots(written)[0], FALSE, <<>>, l)
  BY <1>2, <1>4, <1>6, Entering
<1>8. OnTheWay(written, at, comment, pending, hotstrings)
  BY <1>3, <1>4, <1>7 DEF l
<1>9. QED
  BY <1>3, <1>8 DEF ReadRight

LEMMA NextReads == Next => outcome = "reading" /\ source' = source
<1>1. InComment => outcome = "reading" /\ source' = source
  BY DEF InComment
<1>2. BeginComment \/ Assign \/ Pass => outcome = "reading" /\ source' = source
  BY DEF BeginComment, Assign, Pass, Reading
<1>3. BadHeader => outcome = "reading" /\ source' = source
  BY DEF BadHeader, Reading
<1>4. Inline \/ Stack \/ CollectBody => outcome = "reading" /\ source' = source
  BY Zenon DEF Inline, Stack, CollectBody, HeaderRead, Reading
<1>5. Finish => outcome = "reading" /\ source' = source
  BY DEF Finish
<1>6. QED
  BY <1>1, <1>2, <1>3, <1>4, <1>5 DEF Next

LEMMA ReadRightStep ==
  ASSUME IInv, Shaped, ReadRight, [Next /\ UNCHANGED written]_<<vars, written>>
  PROVE  ReadRight'
<1>1. CASE UNCHANGED <<vars, written>>
  <2>1. UNCHANGED <<source, at, outcome, comment, pending, hotstrings, written>>
    BY <1>1 DEF vars
  <2>2. QED
    BY <2>1 DEF ReadRight, Known
<1>2. CASE Next /\ UNCHANGED written
  <2> SUFFICES ASSUME written # <<>> PROVE ReadRight'
    BY <1>2 DEF ReadRight
  <2>1. outcome = "reading" /\ source' = source /\ written' = written
    BY <1>2, NextReads
  <2>2. Known /\ OnTheWay(written, at, comment, pending, hotstrings)
    BY <2>1 DEF ReadRight
  <2>3. Known'
    BY <2>1, <2>2 DEF Known
  <2>4. IsSequence(hotstrings) /\ comment \in BOOLEAN
    BY DEF IInv, WellRead, Shaped
  <2>5. CASE at = Spots(written)[Len(written)] /\ comment = FALSE /\ pending = <<>>
             /\ Stripped(hotstrings) = Meaning(written)
    <3>1. outcome' = "done" /\ Stripped(hotstrings') = Meaning(written)
      BY <1>2, <2>2, <2>4, <2>5, FinishStep
    <3>2. QED
      BY <2>1, <2>3, <3>1 DEF ReadRight
  <2>6. ASSUME NEW n \in 1 .. Len(written), Stripped(hotstrings) = MeantBy(written)[n - 1],
               \/ Passing(written, n, at, comment, pending)
               \/ Collecting(written, n, at, comment, pending)
        PROVE  ReadRight'
    <3>1. OnTheWay(written, at', comment', pending', hotstrings') /\ outcome' = "reading"
      BY <1>2, <2>1, <2>2, <2>4, <2>6, PassingStep, CollectingStep
    <3>2. QED
      BY <2>1, <2>3, <3>1 DEF ReadRight
  <2>7. QED
    BY <2>2, <2>5, <2>6 DEF OnTheWay
<1>3. QED
  BY <1>1, <1>2

(* A script that is laid out properly is never refused, and what parse_file *)
(* reads of it is what is written: of every program, however long, however *)
(* its Ifs are nested and braced, and whatever stands between its macros.  *)
THEOREM ReadsAsMeant == ReferenceSpec => []ReadsWhatIsWritten
<1>1. ReferenceInit => IInv /\ Shaped /\ ReadRight
  BY ReadRightInit, InitHolds, ShapedInit
<1>2. IInv /\ Shaped /\ ReadRight /\ [Next /\ UNCHANGED written]_<<vars, written>>
        => (IInv /\ Shaped /\ ReadRight)'
  <2>1. [Next /\ UNCHANGED written]_<<vars, written>> => [Next]_vars
    OBVIOUS
  <2>2. QED
    BY <2>1, StepKept, ShapedStep, ReadRightStep
<1>3. ReadRight => ReadsWhatIsWritten
  BY DEF ReadRight, ReadsWhatIsWritten, Stripped, Strip
<1>4. QED
  BY <1>1, <1>2, <1>3, PTL DEF ReferenceSpec
=============================================================================
