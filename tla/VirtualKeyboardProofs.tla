----------------------- MODULE VirtualKeyboardProofs -----------------------
(***************************************************************************)
(* What VirtualKeyboard promises, for any keys, any modifiers and any      *)
(* number of operations of the two threads, any write of which may fail.   *)
(***************************************************************************)
EXTENDS VirtualKeyboard, FiniteSetTheorems, TLAPS

----------------------------------------------------------------------------
(* The invariant: which operation is under way, how far it is, and what it *)
(* still owes to the keys of the device.                                   *)
Idle == owner = <<>> /\ writes = [u \in Threads |-> <<>>]
Left(t, w) ==
    /\ owner = <<t>>
    /\ writes = [u \in Threads |-> IF u = t THEN w ELSE <<>>]
Owing(keys) == ~failed => down \subseteq held \cup keys

AtRest == Idle /\ Owing({})
Closing(t) == Left(t, << Sync >>) /\ Owing({})

Forwarding(k) ==
    \/ Left("main", << Event(k, 1), Sync >>) /\ Owing({}) /\ k \in held
    \/ Left("main", << Event(k, 0), Sync >>) /\ Owing({k})

Tapping(k) ==
    \/ Left("worker", << Event(k, 1), Sync, Event(k, 0), Sync >>) /\ Owing({})
    \/ Left("worker", << Sync, Event(k, 0), Sync >>) /\ Owing({k})
    \/ Left("worker", << Event(k, 0), Sync >>) /\ Owing({k})

Pasting ==
    \/ Left("worker", << Event(Ctrl, 1), Event(Paste, 1), Sync, Event(Paste, 0),
                         Event(Ctrl, 0), Sync >>) /\ Owing({})
    \/ Left("worker", << Event(Paste, 1), Sync, Event(Paste, 0), Event(Ctrl, 0), Sync >>)
       /\ Owing({Ctrl}) /\ Ctrl \in down
    \/ Left("worker", << Sync, Event(Paste, 0), Event(Ctrl, 0), Sync >>)
       /\ Owing({Ctrl, Paste})
    \/ Left("worker", << Event(Paste, 0), Event(Ctrl, 0), Sync >>) /\ Owing({Ctrl, Paste})
    \/ Left("worker", << Event(Ctrl, 0), Sync >>) /\ Owing({Ctrl})

Stage ==
    \/ AtRest
    \/ \E t \in Threads : Closing(t)
    \/ \E k \in Keys : Forwarding(k)
    \/ \E k \in TapKeys : Tapping(k)
    \/ Pasting

(* A paste that was begun with V up has been struck, or will be.           *)
Due == Len(writes["worker"]) \in {5, 6} /\ Paste \notin down
Counted ==
    /\ pastes \in Nat /\ pastes <= ops["worker"]
    /\ ~failed => pastes = Cardinality(Pastes) + (IF Due THEN 1 ELSE 0)

StruckTyped == struck \in Seq([by : Threads, code : Codes, mods : SUBSET Modifiers])
PlainTyped ==
    /\ held \subseteq Keys
    /\ down \subseteq Codes
    /\ ops \in [Threads -> 0 .. MaxStrokes]

IInv ==
    /\ PlainTyped /\ StruckTyped /\ failed \in BOOLEAN /\ crashed \in BOOLEAN
    /\ Stage /\ Counted /\ PasteHasCtrl

----------------------------------------------------------------------------
(* What one write does.                                                    *)

LEMMA CodesOf ==
    /\ Paste \in Codes /\ Ctrl \in Codes /\ Paste # Ctrl
    /\ \A k \in Keys \cup TapKeys : k \in Codes
    /\ \A k \in TapKeys : k # Paste
    /\ Modifiers \subseteq Codes
  BY KeyboardAssumption DEF Codes

LEMMA EventOf ==
  ASSUME NEW c \in Codes, NEW v \in {0, 1}
  PROVE  /\ Event(c, v) # Sync /\ Event(c, v).code = c /\ Event(c, v).value = v
         /\ Event(c, v) \in Events
  BY KeyboardAssumption DEF Event, Sync, Events

(* Events do not change.                                                   *)
LEMMA Steady == Sync' = Sync /\ \A c, v : Event(c, v)' = Event(c, v)
  BY DEF Sync, Event

(* Only the owner writes: the head of what is left, or nothing any more.   *)
LEMMA Moves ==
  ASSUME NEW t \in Threads, NEW w, Left(t, w), NEW u \in Threads, Emit(u)
  PROVE  /\ u = t /\ Input(t, Head(w))
         /\ IF Tail(w) = <<>> THEN Idle' ELSE Left(t, Tail(w))'
         /\ UNCHANGED <<held, ops, pastes, failed, crashed>>
<1>1. writes[t] = w /\ \A x \in Threads \ {t} : writes[x] = <<>>
  BY DEF Left
<1>2. u = t
  BY <1>1 DEF Emit
<1>3. writes' = [x \in Threads |-> IF x = t THEN Tail(w) ELSE <<>>]
  BY <1>1, <1>2 DEF Emit, Left
<1>4. owner' = IF Tail(w) = <<>> THEN <<>> ELSE <<t>>
  BY <1>1, <1>2 DEF Emit, Left
<1>5. QED
  BY <1>1, <1>2, <1>3, <1>4 DEF Emit, Left, Idle

LEMMA IdleWrites ==
  ASSUME Idle, NEW u \in Threads
  PROVE  ~Emit(u) /\ ~EmitFails(u)
  BY DEF Idle, Emit, EmitFails

LEMMA GivesUp ==
  ASSUME NEW t \in Threads, NEW w, Left(t, w), NEW u \in Threads, EmitFails(u)
  PROVE  Idle' /\ failed' /\ UNCHANGED <<held, down, ops, struck, pastes>>
  BY DEF Left, Idle, EmitFails

LEMMA Released ==
  ASSUME NEW t \in Threads, NEW c \in Codes, Input(t, Event(c, 0))
  PROVE  down' = down \ {c} /\ struck' = struck
  BY EventOf DEF Input

LEMMA Synced ==
  ASSUME NEW t \in Threads, Input(t, Sync)
  PROVE  UNCHANGED <<down, struck>>
  BY DEF Input

(* An ordinary key that was up is struck; the strokes before it stay.      *)
LEMMA Pressed ==
  ASSUME StruckTyped, down \subseteq Codes, NEW t \in Threads, NEW c \in Codes,
         Input(t, Event(c, 1))
  PROVE  /\ down' = down \cup {c}
         /\ struck' = IF c \notin down \cup Modifiers
                        THEN Append(struck, [by |-> t, code |-> c,
                                             mods |-> down \cap Modifiers])
                        ELSE struck
         /\ StruckTyped'
         /\ \A i \in DOMAIN struck : struck'[i] = struck[i]
<1>1. /\ down' = down \cup {c}
      /\ struck' = IF c \notin down \cup Modifiers
                     THEN Append(struck, [by |-> t, code |-> c,
                                          mods |-> down \cap Modifiers])
                     ELSE struck
  BY EventOf DEF Input
<1> DEFINE Strokes == [by : Threads, code : Codes, mods : SUBSET Modifiers]
           stroke == [by |-> t, code |-> c, mods |-> down \cap Modifiers]
<1>2. stroke \in Strokes /\ struck \in Seq(Strokes)
  BY DEF StruckTyped
<1>3. struck' = struck \/ struck' = Append(struck, stroke)
  BY <1>1
<1> HIDE DEF Strokes, stroke
<1>4. struck' \in Seq(Strokes) /\ \A i \in DOMAIN struck : struck'[i] = struck[i]
  BY <1>2, <1>3
<1>5. StruckTyped'
  BY <1>4 DEF StruckTyped, Strokes
<1>6. QED
  BY <1>1, <1>4, <1>5

----------------------------------------------------------------------------
(* What has been struck.                                                   *)

LEMMA PastesFinite == StruckTyped => IsFiniteSet(Pastes) /\ Cardinality(Pastes) \in Nat
<1> SUFFICES ASSUME StruckTyped PROVE IsFiniteSet(Pastes)
  BY FS_CardinalityType
<1>1. Pastes \subseteq 1 .. Len(struck) /\ Len(struck) \in Nat
  BY DEF Pastes, StruckTyped
<1>2. IsFiniteSet(1 .. Len(struck))
  BY <1>1, FS_Interval
<1>3. QED
  BY <1>1, <1>2, FS_Subset

(* The V of a paste adds one to the pastes, any other key none.            *)
Counts(t, c) == t = "worker" /\ c = Paste /\ Paste \notin down
LEMMA PastesGrow ==
  ASSUME StruckTyped, down \subseteq Codes, PasteHasCtrl,
         NEW t \in Threads, NEW c \in Codes, Input(t, Event(c, 1)),
         t = "worker" /\ c = Paste => Ctrl \in down
  PROVE  /\ PasteHasCtrl'
         /\ Cardinality(Pastes') = Cardinality(Pastes) + (IF Counts(t, c) THEN 1 ELSE 0)
<1> DEFINE stroke == [by |-> t, code |-> c, mods |-> down \cap Modifiers]
           n == Len(struck) + 1
<1>1. Paste \notin Modifiers /\ Ctrl \in Modifiers
  BY KeyboardAssumption
<1>2. Cardinality(Pastes) \in Nat /\ IsFiniteSet(Pastes)
  BY PastesFinite
<1>3. CASE c \in down \cup Modifiers
  <2>1. struck' = struck /\ ~Counts(t, c)
    BY <1>1, <1>3, Pressed DEF Counts
  <2>2. Pastes' = Pastes
    BY <2>1 DEF Pastes
  <2>3. QED
    BY <1>2, <2>1, <2>2 DEF PasteHasCtrl
<1>4. CASE c \notin down \cup Modifiers
  <2>1. /\ struck' = Append(struck, stroke)
        /\ \A i \in DOMAIN struck : struck'[i] = struck[i]
    BY <1>4, Pressed
  <2>2. DOMAIN struck = 1 .. Len(struck) /\ Len(struck) \in Nat
    BY DEF StruckTyped
  <2>3. DOMAIN struck' = DOMAIN struck \cup {n} /\ n \notin DOMAIN struck /\ struck'[n] = stroke
    <3> HIDE DEF stroke
    <3> QED BY <2>1, <2>2 DEF StruckTyped
  <2>4. stroke.by = t /\ stroke.code = c /\ stroke.mods = down \cap Modifiers
    OBVIOUS
  <2>5. CASE t = "worker" /\ c = Paste
    <3>1. Pastes' = Pastes \cup {n} /\ n \notin Pastes
      BY <2>1, <2>3, <2>4, <2>5 DEF Pastes
    <3>2. Cardinality(Pastes') = Cardinality(Pastes) + 1
      BY <1>2, <3>1, FS_AddElement
    <3>3. PasteHasCtrl'
      BY <1>1, <2>1, <2>3, <2>4, <2>5, <3>1 DEF PasteHasCtrl, Pastes
    <3>4. QED
      BY <1>4, <2>5, <3>2, <3>3 DEF Counts
  <2>6. CASE ~(t = "worker" /\ c = Paste)
    <3>1. Pastes' = Pastes
      BY <2>1, <2>3, <2>4, <2>6 DEF Pastes
    <3>2. PasteHasCtrl'
      BY <2>1, <3>1 DEF PasteHasCtrl, Pastes
    <3>3. QED
      BY <1>2, <2>6, <3>1, <3>2 DEF Counts
  <2>7. QED
    BY <2>5, <2>6
<1>5. QED
  BY <1>3, <1>4

----------------------------------------------------------------------------
LEMMA InitHolds == Init => IInv
<1> SUFFICES ASSUME Init PROVE IInv
  OBVIOUS
<1> USE KeyboardAssumption DEF Init
<1>0. failed \in BOOLEAN /\ crashed \in BOOLEAN
  OBVIOUS
<1>1. PlainTyped
  BY DEF PlainTyped
<1>2. StruckTyped
  BY DEF StruckTyped
<1>3. Stage
  BY DEF Stage, AtRest, Idle, Owing
<1>4. Pastes = {}
  BY DEF Pastes
<1>5. Counted /\ PasteHasCtrl
  BY <1>4, FS_EmptySet DEF Counted, PasteHasCtrl, Due, Threads
<1>6. QED
  BY <1>0, <1>1, <1>2, <1>3, <1>5 DEF IInv

(* An operation begins when none is under way.                             *)
LEMMA LockKeeps ==
  ASSUME IInv, (\E k \in Keys : Forward(k)) \/ (\E k \in TapKeys : Tap(k)) \/ HoldComboAndTap
  PROVE  IInv'
<1>1. owner = <<>> /\ UNCHANGED <<down, struck, failed, crashed>>
  BY DEF Forward, Tap, HoldComboAndTap, Lock
<1>2. AtRest
  BY <1>1 DEF IInv, Stage, Closing, Forwarding, Tapping, Pasting, Left
<1>3. Cardinality(Pastes) \in Nat /\ Pastes' = Pastes
  BY <1>1, PastesFinite DEF IInv, Pastes
<1>4. StruckTyped' /\ PasteHasCtrl' /\ failed' \in BOOLEAN /\ crashed' \in BOOLEAN
  BY <1>1, <1>3 DEF IInv, StruckTyped, PasteHasCtrl
<1>5. ASSUME NEW t \in Threads, NEW w, Lock(t, w)
      PROVE  /\ Left(t, w)' /\ ops'[t] = ops[t] + 1
             /\ ops' \in [Threads -> 0 .. MaxStrokes] /\ ops'["worker"] >= ops["worker"]
  <2>1. ops \in [Threads -> 0 .. MaxStrokes] /\ "worker" \in Threads
    BY DEF IInv, PlainTyped, Threads
  <2>2. ops' = [ops EXCEPT ![t] = ops[t] + 1] /\ ops[t] < MaxStrokes
    BY <1>5 DEF Lock
  <2>3. /\ ops'[t] = ops[t] + 1 /\ ops'["worker"] >= ops["worker"]
        /\ ops' \in [Threads -> 0 .. MaxStrokes]
    BY <2>1, <2>2, KeyboardAssumption
  <2>4. writes' = [u \in Threads |-> IF u = t THEN w ELSE <<>>] /\ owner' = <<t>>
    BY <1>2, <1>5 DEF Lock, AtRest, Idle
  <2>5. QED
    BY <2>3, <2>4 DEF Left
<1>6. ~failed => pastes = Cardinality(Pastes)
  BY <1>2, <1>3 DEF IInv, Counted, Due, AtRest, Idle, Threads
<1>7. pastes \in Nat /\ pastes <= ops["worker"] /\ ops["worker"] \in Nat
  BY KeyboardAssumption DEF IInv, Counted, PlainTyped, Threads
<1>8. ASSUME NEW k \in Keys, Forward(k) PROVE IInv'
  <2>1. ASSUME k \in held PROVE Forwarding(k)'
    <3>1. Left("main", << Event(k, 0), Sync >>)' /\ held' = held \ {k}
      BY <1>5, <1>8, <2>1 DEF Forward, Threads
    <3>2. QED
      BY <1>1, <1>2, <3>1 DEF Forwarding, AtRest, Owing
  <2>2. ASSUME k \notin held PROVE Forwarding(k)'
    <3>1. Left("main", << Event(k, 1), Sync >>)' /\ held' = held \cup {k}
      BY <1>5, <1>8, <2>2 DEF Forward, Threads
    <3>2. QED
      BY <1>1, <1>2, <3>1 DEF Forwarding, AtRest, Owing
  <2>3. Forwarding(k)'
    BY <2>1, <2>2
  <2>4. PlainTyped'
    BY <1>1, <1>5, <1>8 DEF IInv, PlainTyped, Forward, Threads
  <2>5. writes'["worker"] = <<>> /\ pastes' = pastes /\ ops'["worker"] >= ops["worker"]
    BY <1>5, <1>8, <2>3 DEF Forward, Forwarding, Left, Threads
  <2>6. ops'["worker"] \in Nat
    BY <2>4, KeyboardAssumption DEF PlainTyped, Threads
  <2>7. Counted'
    BY <1>1, <1>3, <1>6, <1>7, <2>5, <2>6 DEF Counted, Due
  <2>8. QED
    BY <1>4, <2>3, <2>4, <2>7 DEF IInv, Stage
<1>9. ASSUME NEW k \in TapKeys, Tap(k) PROVE IInv'
  <2>1. Left("worker", << Event(k, 1), Sync, Event(k, 0), Sync >>)'
    BY <1>5, <1>9 DEF Tap, Threads
  <2>2. Tapping(k)'
    BY <1>1, <1>2, <1>9, <2>1 DEF Tapping, AtRest, Owing, Tap
  <2>3. PlainTyped'
    BY <1>1, <1>5, <1>9 DEF IInv, PlainTyped, Tap, Threads
  <2>4. /\ Len(writes'["worker"]) = 4 /\ pastes' = pastes
        /\ ops'["worker"] >= ops["worker"]
    BY <1>5, <1>9, <2>1 DEF Tap, Left, Threads
  <2>5. ops'["worker"] \in Nat
    BY <2>3, KeyboardAssumption DEF PlainTyped, Threads
  <2>6. Counted'
    BY <1>1, <1>3, <1>6, <1>7, <2>4, <2>5 DEF Counted, Due
  <2>7. QED
    BY <1>4, <2>2, <2>3, <2>6 DEF IInv, Stage
<1>10. ASSUME HoldComboAndTap PROVE IInv'
  <2>1. Left("worker", << Event(Ctrl, 1), Event(Paste, 1), Sync, Event(Paste, 0),
                          Event(Ctrl, 0), Sync >>)'
    BY <1>5, <1>10 DEF HoldComboAndTap, Threads
  <2>2. Pasting'
    BY <1>1, <1>2, <1>10, <2>1 DEF Pasting, AtRest, Owing, HoldComboAndTap
  <2>3. PlainTyped'
    BY <1>1, <1>5, <1>10 DEF IInv, PlainTyped, HoldComboAndTap, Threads
  <2>4. /\ Len(writes'["worker"]) = 6
        /\ pastes' = IF Paste \in down THEN pastes ELSE pastes + 1
        /\ ops'["worker"] = ops["worker"] + 1
    BY <1>5, <1>10, <2>1 DEF HoldComboAndTap, Left, Threads
  <2>5. Counted'
    BY <1>1, <1>3, <1>6, <1>7, <2>4 DEF Counted, Due
  <2>6. QED
    BY <1>4, <2>2, <2>3, <2>5 DEF IInv, Stage
<1>11. QED
  BY <1>8, <1>9, <1>10

(* Whatever is under way is left to one thread, and it is events.          *)
LEMMA TuplesOf ==
  ASSUME NEW S, NEW a \in S, NEW b \in S, NEW c \in S, NEW d \in S, NEW e \in S, NEW f \in S
  PROVE  /\ <<a>> \in Seq(S) /\ <<a, b>> \in Seq(S) /\ <<a, b, c>> \in Seq(S)
         /\ <<a, b, c, d>> \in Seq(S) /\ <<a, b, c, d, e>> \in Seq(S)
         /\ <<a, b, c, d, e, f>> \in Seq(S)
  OBVIOUS

LEMMA OneLeft ==
  ASSUME Stage
  PROVE  Idle \/ \E t \in Threads : \E w \in Seq(Events) : Left(t, w)
<1>1. Sync \in Events
  BY DEF Events
<1>2. \A c \in Codes : Event(c, 0) \in Events /\ Event(c, 1) \in Events
  BY EventOf
<1>3. "main" \in Threads /\ "worker" \in Threads
  BY DEF Threads
<1>4. ASSUME NEW t \in Threads, Closing(t) PROVE \E w \in Seq(Events) : Left(t, w)
  <2>1. << Sync >> \in Seq(Events)
    BY <1>1, TuplesOf
  <2>2. QED
    BY <1>4, <2>1 DEF Closing
<1>5. ASSUME NEW k \in Keys, Forwarding(k) PROVE \E w \in Seq(Events) : Left("main", w)
  <2>1. /\ << Event(k, 1), Sync >> \in Seq(Events)
        /\ << Event(k, 0), Sync >> \in Seq(Events)
    BY <1>1, <1>2, CodesOf, TuplesOf
  <2>2. QED
    BY <1>5, <2>1 DEF Forwarding
<1>6. ASSUME NEW k \in TapKeys, Tapping(k) PROVE \E w \in Seq(Events) : Left("worker", w)
  <2>1. /\ << Event(k, 1), Sync, Event(k, 0), Sync >> \in Seq(Events)
        /\ << Sync, Event(k, 0), Sync >> \in Seq(Events)
        /\ << Event(k, 0), Sync >> \in Seq(Events)
    BY <1>1, <1>2, CodesOf, TuplesOf
  <2>2. QED
    BY <1>6, <2>1 DEF Tapping
<1>7. ASSUME Pasting PROVE \E w \in Seq(Events) : Left("worker", w)
  <2>1. /\ << Event(Ctrl, 1), Event(Paste, 1), Sync, Event(Paste, 0), Event(Ctrl, 0), Sync >>
              \in Seq(Events)
        /\ << Event(Paste, 1), Sync, Event(Paste, 0), Event(Ctrl, 0), Sync >> \in Seq(Events)
        /\ << Sync, Event(Paste, 0), Event(Ctrl, 0), Sync >> \in Seq(Events)
        /\ << Event(Paste, 0), Event(Ctrl, 0), Sync >> \in Seq(Events)
        /\ << Event(Ctrl, 0), Sync >> \in Seq(Events)
    BY <1>1, <1>2, CodesOf, TuplesOf
  <2>2. QED
    BY <1>7, <2>1 DEF Pasting
<1>8. QED
  BY <1>3, <1>4, <1>5, <1>6, <1>7 DEF Stage, AtRest

(* A write that fails ends the operation, and all promises about the rest. *)
LEMMA FailureKeeps ==
  ASSUME IInv, NEW u \in Threads, EmitFails(u)
  PROVE  IInv'
<1>1. PICK t \in Threads, w \in Seq(Events) : Left(t, w)
  BY OneLeft, IdleWrites DEF IInv
<1>2. Idle' /\ failed' /\ UNCHANGED <<held, down, ops, struck, pastes>>
  BY <1>1, GivesUp
<1>3. failed' = TRUE /\ crashed' \in BOOLEAN
  BY DEF EmitFails, IInv
<1>4. Stage'
  BY <1>2 DEF Stage, AtRest, Owing
<1>5. PlainTyped' /\ StruckTyped' /\ PasteHasCtrl'
  BY <1>2 DEF IInv, PlainTyped, StruckTyped, PasteHasCtrl, Pastes
<1>6. Counted'
  BY <1>2 DEF IInv, Counted
<1>7. QED
  BY <1>3, <1>4, <1>5, <1>6 DEF IInv

(* What a write leaves alone, and what it adds to the strokes and the      *)
(* count, is shown once for the three kinds of events.                     *)
Written(t, w) ==
    /\ IF Tail(w) = <<>> THEN Idle' ELSE Left(t, Tail(w))'
    /\ UNCHANGED <<held, ops, pastes, failed, crashed>>

LEMMA NotDue ==
  ASSUME NEW t \in Threads, NEW w, Left(t, w), t = "worker" => Len(w) \notin {5, 6}
  PROVE  ~Due
<1>1. writes["worker"] = IF t = "worker" THEN w ELSE <<>>
  BY DEF Left, Threads
<1>2. Len(<<>>) = 0
  OBVIOUS
<1>3. QED
  BY <1>1, <1>2 DEF Due

(* Neither a sync nor a release strikes anything.                          *)
LEMMA QuietKeeps ==
  ASSUME IInv, NEW t \in Threads, NEW w, Left(t, w), Written(t, w),
         UNCHANGED struck, down' \subseteq down,
         ~Due, t = "worker" => Len(Tail(w)) \notin {5, 6}
  PROVE  PlainTyped' /\ StruckTyped' /\ PasteHasCtrl' /\ Counted'
<1>1. PlainTyped' /\ StruckTyped' /\ PasteHasCtrl' /\ Pastes' = Pastes
  BY DEF Written, IInv, PlainTyped, StruckTyped, PasteHasCtrl, Pastes
<1>2. ~Due'
  <2>1. writes'["worker"] = IF t = "worker" THEN Tail(w) ELSE <<>>
    BY DEF Written, Left, Idle, Threads
  <2>2. QED
    BY <2>1 DEF Due
<1>3. QED
  BY <1>1, <1>2 DEF Written, IInv, Counted

(* A press that is not the V of a paste.                                   *)
LEMMA PressKeeps ==
  ASSUME IInv, NEW t \in Threads, NEW w, Left(t, w), Written(t, w),
         NEW c \in Codes, Input(t, Event(c, 1)), ~(t = "worker" /\ c = Paste),
         Due' = Due
  PROVE  PlainTyped' /\ StruckTyped' /\ PasteHasCtrl' /\ Counted'
<1>1. StruckTyped' /\ down' = down \cup {c}
  BY Pressed DEF IInv, PlainTyped
<1>2. PasteHasCtrl' /\ Cardinality(Pastes') = Cardinality(Pastes)
  BY PastesGrow, PastesFinite DEF IInv, PlainTyped, Counts
<1>3. PlainTyped'
  BY <1>1 DEF Written, IInv, PlainTyped
<1>4. Counted'
  BY <1>2 DEF Written, IInv, Counted
<1>5. QED
  BY <1>1, <1>2, <1>3, <1>4

LEMMA ClosingKeeps ==
  ASSUME IInv, NEW t \in Threads, Closing(t), NEW u \in Threads, Emit(u)
  PROVE  IInv'
<1>1. Left(t, << Sync >>)
  BY DEF Closing
<1>2. Head(<< Sync >>) = Sync /\ Tail(<< Sync >>) = <<>> /\ Len(<< Sync >>) = 1 /\ Len(<<>>) = 0
  OBVIOUS
<1>3. Input(t, Sync) /\ Written(t, << Sync >>) /\ Idle'
  BY <1>1, <1>2, Moves DEF Written
<1>4. down' = down /\ struck' = struck
  BY <1>3, Synced
<1>5. ~Due
  BY <1>1, <1>2, NotDue
<1>6. PlainTyped' /\ StruckTyped' /\ PasteHasCtrl' /\ Counted'
  BY <1>1, <1>2, <1>3, <1>4, <1>5, QuietKeeps
<1>7. Stage'
  BY <1>3, <1>4 DEF Closing, Owing, Written, Stage, AtRest
<1>8. failed' \in BOOLEAN /\ crashed' \in BOOLEAN
  BY <1>3 DEF Written, IInv
<1>9. QED
  BY <1>6, <1>7, <1>8 DEF IInv

LEMMA ForwardingKeeps ==
  ASSUME IInv, NEW k \in Keys, Forwarding(k), NEW u \in Threads, Emit(u)
  PROVE  IInv'
<1> DEFINE press == << Event(k, 1), Sync >>
           release == << Event(k, 0), Sync >>
<1>0. "main" \in Threads /\ "worker" \in Threads /\ "main" # "worker" /\ k \in Codes
  BY CodesOf DEF Threads
<1>1. ASSUME Left("main", press), Owing({}), k \in held
      PROVE  IInv'
  <2>1. /\ Head(press) = Event(k, 1)
        /\ Tail(press) = << Sync >>
        /\ << Sync >> # <<>>
        /\ Len(press) = 2 /\ Len(<< Sync >>) = 1 /\ Len(<<>>) = 0
    OBVIOUS
  <2>2. /\ Input("main", Event(k, 1))
        /\ Written("main", press)
        /\ Left("main", << Sync >>)'
    <3>1. /\ Input("main", Head(press))
          /\ Written("main", press)
      BY <1>0, <1>1, Moves DEF Written
    <3>2. Left("main", Tail(press))'
      BY <1>0, <1>1, <2>1, Moves
    <3>3. Tail(press)' = << Sync >>'
      OBVIOUS
    <3>4. QED
      BY <2>1, <3>1, <3>2, <3>3
  <2>3. down' = down \cup {k}
    BY <1>0, <2>2, Pressed DEF IInv, PlainTyped
  <2>4. Due' = Due
    <3>1. writes["worker"] = <<>> /\ writes'["worker"] = <<>>'
      BY <1>0, <1>1, <2>2 DEF Left
    <3>2. <<>>' = <<>>
      BY Steady
    <3>3. QED
      BY <2>1, <3>1, <3>2 DEF Due
  <2>5. PlainTyped' /\ StruckTyped' /\ PasteHasCtrl' /\ Counted'
    BY <1>0, <1>1, <2>1, <2>2, <2>3, <2>4, PressKeeps
  <2>6. Closing("main")'
    BY <1>1, <2>2, <2>3 DEF Closing, Owing, Written
  <2>7. failed' \in BOOLEAN /\ crashed' \in BOOLEAN
    BY <2>2 DEF Written, IInv
  <2>8. QED
    BY <1>0, <2>5, <2>6, <2>7 DEF IInv, Stage
<1>2. ASSUME Left("main", release), Owing({k})
      PROVE  IInv'
  <2>1. /\ Head(release) = Event(k, 0)
        /\ Tail(release) = << Sync >>
        /\ << Sync >> # <<>>
        /\ Len(release) = 2 /\ Len(<< Sync >>) = 1 /\ Len(<<>>) = 0
        /\ Len(Tail(release)) \notin {5, 6}
    OBVIOUS
  <2>2. /\ Input("main", Event(k, 0))
        /\ Written("main", release)
        /\ Left("main", << Sync >>)'
    <3>1. /\ Input("main", Head(release))
          /\ Written("main", release)
      BY <1>0, <1>2, Moves DEF Written
    <3>2. Left("main", Tail(release))'
      BY <1>0, <1>2, <2>1, Moves
    <3>3. Tail(release)' = << Sync >>'
      OBVIOUS
    <3>4. QED
      BY <2>1, <3>1, <3>2, <3>3
  <2>3. down' = down \ {k} /\ struck' = struck
    BY <1>0, <2>2, Released
  <2>4. ~Due
    <3>1. writes["worker"] = <<>>
      BY <1>0, <1>2 DEF Left
    <3>2. QED
      BY <2>1, <3>1 DEF Due
  <2>5. PlainTyped' /\ StruckTyped' /\ PasteHasCtrl' /\ Counted'
    BY <1>0, <1>2, <2>1, <2>2, <2>3, <2>4, QuietKeeps
  <2>6. Closing("main")'
    BY <1>2, <2>2, <2>3 DEF Closing, Owing, Written
  <2>7. failed' \in BOOLEAN /\ crashed' \in BOOLEAN
    BY <2>2 DEF Written, IInv
  <2>8. QED
    BY <1>0, <2>5, <2>6, <2>7 DEF IInv, Stage
<1>3. QED
  BY <1>1, <1>2 DEF Forwarding

LEMMA TappingKeeps ==
  ASSUME IInv, NEW k \in TapKeys, Tapping(k), NEW u \in Threads, Emit(u)
  PROVE  IInv'
<1> DEFINE tap == << Event(k, 1), Sync, Event(k, 0), Sync >>
           sync == << Sync, Event(k, 0), Sync >>
           up == << Event(k, 0), Sync >>
<1>0. "worker" \in Threads /\ k \in Codes /\ k # Paste
  BY CodesOf DEF Threads
<1>1. ASSUME Left("worker", tap), Owing({})
      PROVE  IInv'
  <2>1. /\ Head(tap) = Event(k, 1)
        /\ Tail(tap) = sync
        /\ sync # <<>>
        /\ Len(tap) = 4 /\ Len(sync) = 3 /\ Len(<<>>) = 0
    OBVIOUS
  <2>2. /\ Input("worker", Event(k, 1))
        /\ Written("worker", tap)
        /\ Left("worker", sync)'
    <3>1. /\ Input("worker", Head(tap))
          /\ Written("worker", tap)
      BY <1>0, <1>1, Moves DEF Written
    <3>2. Left("worker", Tail(tap))'
      BY <1>0, <1>1, <2>1, Moves
    <3>3. Tail(tap)' = sync'
      OBVIOUS
    <3>4. QED
      BY <2>1, <3>1, <3>2, <3>3
  <2>3. down' = down \cup {k}
    BY <1>0, <2>2, Pressed DEF IInv, PlainTyped
  <2>4. Due' = Due
    <3>1. /\ writes["worker"] = tap
          /\ writes'["worker"] = sync'
      BY <1>0, <1>1, <2>2 DEF Left
    <3>2. sync' = sync
      BY Steady
    <3>3. QED
      BY <2>1, <3>1, <3>2 DEF Due
  <2>5. PlainTyped' /\ StruckTyped' /\ PasteHasCtrl' /\ Counted'
    BY <1>0, <1>1, <2>1, <2>2, <2>3, <2>4, PressKeeps
  <2>6. Tapping(k)'
    BY <1>1, <2>2, <2>3 DEF Tapping, Owing, Written
  <2>7. failed' \in BOOLEAN /\ crashed' \in BOOLEAN
    BY <2>2 DEF Written, IInv
  <2>8. QED
    BY <1>0, <2>5, <2>6, <2>7 DEF IInv, Stage
<1>2. ASSUME Left("worker", sync), Owing({k})
      PROVE  IInv'
  <2>1. /\ Head(sync) = Sync
        /\ Tail(sync) = up
        /\ up # <<>>
        /\ Len(sync) = 3 /\ Len(up) = 2 /\ Len(<<>>) = 0
        /\ Len(Tail(sync)) \notin {5, 6}
    OBVIOUS
  <2>2. /\ Input("worker", Sync)
        /\ Written("worker", sync)
        /\ Left("worker", up)'
    <3>1. /\ Input("worker", Head(sync))
          /\ Written("worker", sync)
      BY <1>0, <1>2, Moves DEF Written
    <3>2. Left("worker", Tail(sync))'
      BY <1>0, <1>2, <2>1, Moves
    <3>3. Tail(sync)' = up'
      OBVIOUS
    <3>4. QED
      BY <2>1, <3>1, <3>2, <3>3
  <2>3. down' = down /\ struck' = struck
    BY <1>0, <2>2, Synced
  <2>4. ~Due
    <3>1. writes["worker"] = sync
      BY <1>0, <1>2 DEF Left
    <3>2. QED
      BY <2>1, <3>1 DEF Due
  <2>5. PlainTyped' /\ StruckTyped' /\ PasteHasCtrl' /\ Counted'
    BY <1>0, <1>2, <2>1, <2>2, <2>3, <2>4, QuietKeeps
  <2>6. Tapping(k)'
    BY <1>2, <2>2, <2>3 DEF Tapping, Owing, Written
  <2>7. failed' \in BOOLEAN /\ crashed' \in BOOLEAN
    BY <2>2 DEF Written, IInv
  <2>8. QED
    BY <1>0, <2>5, <2>6, <2>7 DEF IInv, Stage
<1>3. ASSUME Left("worker", up), Owing({k})
      PROVE  IInv'
  <2>1. /\ Head(up) = Event(k, 0)
        /\ Tail(up) = << Sync >>
        /\ << Sync >> # <<>>
        /\ Len(up) = 2 /\ Len(<< Sync >>) = 1 /\ Len(<<>>) = 0
        /\ Len(Tail(up)) \notin {5, 6}
    OBVIOUS
  <2>2. /\ Input("worker", Event(k, 0))
        /\ Written("worker", up)
        /\ Left("worker", << Sync >>)'
    <3>1. /\ Input("worker", Head(up))
          /\ Written("worker", up)
      BY <1>0, <1>3, Moves DEF Written
    <3>2. Left("worker", Tail(up))'
      BY <1>0, <1>3, <2>1, Moves
    <3>3. Tail(up)' = << Sync >>'
      OBVIOUS
    <3>4. QED
      BY <2>1, <3>1, <3>2, <3>3
  <2>3. down' = down \ {k} /\ struck' = struck
    BY <1>0, <2>2, Released
  <2>4. ~Due
    <3>1. writes["worker"] = up
      BY <1>0, <1>3 DEF Left
    <3>2. QED
      BY <2>1, <3>1 DEF Due
  <2>5. PlainTyped' /\ StruckTyped' /\ PasteHasCtrl' /\ Counted'
    BY <1>0, <1>3, <2>1, <2>2, <2>3, <2>4, QuietKeeps
  <2>6. Closing("worker")'
    BY <1>3, <2>2, <2>3 DEF Closing, Owing, Written
  <2>7. failed' \in BOOLEAN /\ crashed' \in BOOLEAN
    BY <2>2 DEF Written, IInv
  <2>8. QED
    BY <1>0, <2>5, <2>6, <2>7 DEF IInv, Stage
<1>4. QED
  BY <1>1, <1>2, <1>3 DEF Tapping

LEMMA PastingKeeps ==
  ASSUME IInv, Pasting, NEW u \in Threads, Emit(u)
  PROVE  IInv'
<1> DEFINE combo == << Event(Ctrl, 1), Event(Paste, 1), Sync, Event(Paste, 0),
                       Event(Ctrl, 0), Sync >>
           vDown == << Event(Paste, 1), Sync, Event(Paste, 0), Event(Ctrl, 0), Sync >>
           vSync == << Sync, Event(Paste, 0), Event(Ctrl, 0), Sync >>
           vUp == << Event(Paste, 0), Event(Ctrl, 0), Sync >>
           ctrlUp == << Event(Ctrl, 0), Sync >>
<1>0. "worker" \in Threads /\ Ctrl \in Codes /\ Paste \in Codes /\ Ctrl # Paste
  BY CodesOf DEF Threads
<1>1. ASSUME Left("worker", combo), Owing({})
      PROVE  IInv'
  <2>1. /\ Head(combo) = Event(Ctrl, 1)
        /\ Tail(combo) = vDown
        /\ vDown # <<>>
        /\ Len(combo) = 6 /\ Len(vDown) = 5 /\ Len(<<>>) = 0
    OBVIOUS
  <2>2. /\ Input("worker", Event(Ctrl, 1))
        /\ Written("worker", combo)
        /\ Left("worker", vDown)'
    <3>1. /\ Input("worker", Head(combo))
          /\ Written("worker", combo)
      BY <1>0, <1>1, Moves DEF Written
    <3>2. Left("worker", Tail(combo))'
      BY <1>0, <1>1, <2>1, Moves
    <3>3. Tail(combo)' = vDown'
      OBVIOUS
    <3>4. QED
      BY <2>1, <3>1, <3>2, <3>3
  <2>3. down' = down \cup {Ctrl}
    BY <1>0, <2>2, Pressed DEF IInv, PlainTyped
  <2>4. Due' = Due
    <3>1. /\ writes["worker"] = combo
          /\ writes'["worker"] = vDown'
      BY <1>0, <1>1, <2>2 DEF Left
    <3>2. vDown' = vDown
      BY Steady
    <3>3. QED
      BY <1>0, <2>1, <2>3, <3>1, <3>2 DEF Due
  <2>5. PlainTyped' /\ StruckTyped' /\ PasteHasCtrl' /\ Counted'
    BY <1>0, <1>1, <2>1, <2>2, <2>3, <2>4, PressKeeps
  <2>6. Pasting'
    BY <1>1, <2>2, <2>3 DEF Pasting, Owing, Written
  <2>7. failed' \in BOOLEAN /\ crashed' \in BOOLEAN
    BY <2>2 DEF Written, IInv
  <2>8. QED
    BY <1>0, <2>5, <2>6, <2>7 DEF IInv, Stage
<1>2. ASSUME Left("worker", vDown), Owing({Ctrl}), Ctrl \in down
      PROVE  IInv'
  <2>1. /\ Head(vDown) = Event(Paste, 1)
        /\ Tail(vDown) = vSync
        /\ vSync # <<>>
        /\ Len(vDown) = 5 /\ Len(vSync) = 4 /\ Len(<<>>) = 0
    OBVIOUS
  <2>2. /\ Input("worker", Event(Paste, 1))
        /\ Written("worker", vDown)
        /\ Left("worker", vSync)'
    <3>1. /\ Input("worker", Head(vDown))
          /\ Written("worker", vDown)
      BY <1>0, <1>2, Moves DEF Written
    <3>2. Left("worker", Tail(vDown))'
      BY <1>0, <1>2, <2>1, Moves
    <3>3. Tail(vDown)' = vSync'
      OBVIOUS
    <3>4. QED
      BY <2>1, <3>1, <3>2, <3>3
  <2>3. down' = down \cup {Paste}
    BY <1>0, <2>2, Pressed DEF IInv, PlainTyped
  <2>4. Due = (Paste \notin down) /\ ~Due'
    <3>1. /\ writes["worker"] = vDown
          /\ writes'["worker"] = vSync'
      BY <1>0, <1>2, <2>2 DEF Left
    <3>2. vSync' = vSync
      BY Steady
    <3>3. QED
      BY <2>1, <3>1, <3>2 DEF Due
  <2>5. /\ PasteHasCtrl' /\ StruckTyped'
        /\ Cardinality(Pastes') = Cardinality(Pastes) + (IF Due THEN 1 ELSE 0)
        /\ Cardinality(Pastes) \in Nat
    BY <1>0, <1>2, <2>2, <2>4, PastesGrow, PastesFinite, Pressed DEF IInv, PlainTyped, Counts
  <2>6. PlainTyped'
    BY <1>0, <2>2, <2>3 DEF Written, IInv, PlainTyped
  <2>7. Counted'
    BY <2>2, <2>4, <2>5 DEF Written, IInv, Counted
  <2>8. Pasting'
    BY <1>2, <2>2, <2>3 DEF Pasting, Owing, Written
  <2>9. failed' \in BOOLEAN /\ crashed' \in BOOLEAN
    BY <2>2 DEF Written, IInv
  <2>10. QED
    BY <1>0, <2>5, <2>6, <2>7, <2>8, <2>9 DEF IInv, Stage
<1>3. ASSUME Left("worker", vSync), Owing({Ctrl, Paste})
      PROVE  IInv'
  <2>1. /\ Head(vSync) = Sync
        /\ Tail(vSync) = vUp
        /\ vUp # <<>>
        /\ Len(vSync) = 4 /\ Len(vUp) = 3 /\ Len(<<>>) = 0
        /\ Len(Tail(vSync)) \notin {5, 6}
    OBVIOUS
  <2>2. /\ Input("worker", Sync)
        /\ Written("worker", vSync)
        /\ Left("worker", vUp)'
    <3>1. /\ Input("worker", Head(vSync))
          /\ Written("worker", vSync)
      BY <1>0, <1>3, Moves DEF Written
    <3>2. Left("worker", Tail(vSync))'
      BY <1>0, <1>3, <2>1, Moves
    <3>3. Tail(vSync)' = vUp'
      OBVIOUS
    <3>4. QED
      BY <2>1, <3>1, <3>2, <3>3
  <2>3. down' = down /\ struck' = struck
    BY <1>0, <2>2, Synced
  <2>4. ~Due
    <3>1. writes["worker"] = vSync
      BY <1>0, <1>3 DEF Left
    <3>2. QED
      BY <2>1, <3>1 DEF Due
  <2>5. PlainTyped' /\ StruckTyped' /\ PasteHasCtrl' /\ Counted'
    BY <1>0, <1>3, <2>1, <2>2, <2>3, <2>4, QuietKeeps
  <2>6. Pasting'
    BY <1>3, <2>2, <2>3 DEF Pasting, Owing, Written
  <2>7. failed' \in BOOLEAN /\ crashed' \in BOOLEAN
    BY <2>2 DEF Written, IInv
  <2>8. QED
    BY <1>0, <2>5, <2>6, <2>7 DEF IInv, Stage
<1>4. ASSUME Left("worker", vUp), Owing({Ctrl, Paste})
      PROVE  IInv'
  <2>1. /\ Head(vUp) = Event(Paste, 0)
        /\ Tail(vUp) = ctrlUp
        /\ ctrlUp # <<>>
        /\ Len(vUp) = 3 /\ Len(ctrlUp) = 2 /\ Len(<<>>) = 0
        /\ Len(Tail(vUp)) \notin {5, 6}
    OBVIOUS
  <2>2. /\ Input("worker", Event(Paste, 0))
        /\ Written("worker", vUp)
        /\ Left("worker", ctrlUp)'
    <3>1. /\ Input("worker", Head(vUp))
          /\ Written("worker", vUp)
      BY <1>0, <1>4, Moves DEF Written
    <3>2. Left("worker", Tail(vUp))'
      BY <1>0, <1>4, <2>1, Moves
    <3>3. Tail(vUp)' = ctrlUp'
      OBVIOUS
    <3>4. QED
      BY <2>1, <3>1, <3>2, <3>3
  <2>3. down' = down \ {Paste} /\ struck' = struck
    BY <1>0, <2>2, Released
  <2>4. ~Due
    <3>1. writes["worker"] = vUp
      BY <1>0, <1>4 DEF Left
    <3>2. QED
      BY <2>1, <3>1 DEF Due
  <2>5. PlainTyped' /\ StruckTyped' /\ PasteHasCtrl' /\ Counted'
    BY <1>0, <1>4, <2>1, <2>2, <2>3, <2>4, QuietKeeps
  <2>6. Pasting'
    BY <1>4, <2>2, <2>3 DEF Pasting, Owing, Written
  <2>7. failed' \in BOOLEAN /\ crashed' \in BOOLEAN
    BY <2>2 DEF Written, IInv
  <2>8. QED
    BY <1>0, <2>5, <2>6, <2>7 DEF IInv, Stage
<1>5. ASSUME Left("worker", ctrlUp), Owing({Ctrl})
      PROVE  IInv'
  <2>1. /\ Head(ctrlUp) = Event(Ctrl, 0)
        /\ Tail(ctrlUp) = << Sync >>
        /\ << Sync >> # <<>>
        /\ Len(ctrlUp) = 2 /\ Len(<< Sync >>) = 1 /\ Len(<<>>) = 0
        /\ Len(Tail(ctrlUp)) \notin {5, 6}
    OBVIOUS
  <2>2. /\ Input("worker", Event(Ctrl, 0))
        /\ Written("worker", ctrlUp)
        /\ Left("worker", << Sync >>)'
    <3>1. /\ Input("worker", Head(ctrlUp))
          /\ Written("worker", ctrlUp)
      BY <1>0, <1>5, Moves DEF Written
    <3>2. Left("worker", Tail(ctrlUp))'
      BY <1>0, <1>5, <2>1, Moves
    <3>3. Tail(ctrlUp)' = << Sync >>'
      OBVIOUS
    <3>4. QED
      BY <2>1, <3>1, <3>2, <3>3
  <2>3. down' = down \ {Ctrl} /\ struck' = struck
    BY <1>0, <2>2, Released
  <2>4. ~Due
    <3>1. writes["worker"] = ctrlUp
      BY <1>0, <1>5 DEF Left
    <3>2. QED
      BY <2>1, <3>1 DEF Due
  <2>5. PlainTyped' /\ StruckTyped' /\ PasteHasCtrl' /\ Counted'
    BY <1>0, <1>5, <2>1, <2>2, <2>3, <2>4, QuietKeeps
  <2>6. Closing("worker")'
    BY <1>5, <2>2, <2>3 DEF Closing, Owing, Written
  <2>7. failed' \in BOOLEAN /\ crashed' \in BOOLEAN
    BY <2>2 DEF Written, IInv
  <2>8. QED
    BY <1>0, <2>5, <2>6, <2>7 DEF IInv, Stage
<1>6. QED
  BY <1>1, <1>2, <1>3, <1>4, <1>5 DEF Pasting

LEMMA StepKeeps == IInv /\ [Next]_vars => IInv'
<1> SUFFICES ASSUME IInv, [Next]_vars PROVE IInv'
  OBVIOUS
<1>1. CASE (\E k \in Keys : Forward(k)) \/ (\E k \in TapKeys : Tap(k)) \/ HoldComboAndTap
  BY <1>1, LockKeeps
<1>2. ASSUME NEW u \in Threads, EmitFails(u) PROVE IInv'
  BY <1>2, FailureKeeps
<1>3. ASSUME NEW u \in Threads, Emit(u) PROVE IInv'
  <2>1. ~AtRest
    BY <1>3, IdleWrites DEF AtRest
  <2>2. ASSUME NEW t \in Threads, Closing(t) PROVE IInv'
    BY <1>3, <2>2, ClosingKeeps
  <2>3. ASSUME NEW k \in Keys, Forwarding(k) PROVE IInv'
    BY <1>3, <2>3, ForwardingKeeps
  <2>4. ASSUME NEW k \in TapKeys, Tapping(k) PROVE IInv'
    BY <1>3, <2>4, TappingKeeps
  <2>5. ASSUME Pasting PROVE IInv'
    BY <1>3, <2>5, PastingKeeps
  <2>6. QED
    BY <2>1, <2>2, <2>3, <2>4, <2>5 DEF IInv, Stage
<1>4. CASE UNCHANGED vars
  <2>1. UNCHANGED <<held, down, owner, writes, ops, struck, pastes, failed, crashed>>
    BY <1>4 DEF vars
  <2>2. PlainTyped' /\ StruckTyped' /\ PasteHasCtrl' /\ Pastes' = Pastes
    BY <2>1 DEF IInv, PlainTyped, StruckTyped, PasteHasCtrl, Pastes
  <2>3. Counted'
    BY <2>1, <2>2 DEF IInv, Counted, Due
  <2>4. Idle' = Idle /\ \A keys : Owing(keys)' = Owing(keys)
    BY <2>1 DEF Idle, Owing
  <2>5. Stage'
    BY <2>1 DEF IInv, Stage, AtRest, Idle, Owing, Closing, Forwarding, Tapping, Pasting, Left
  <2>6. QED
    BY <2>1, <2>2, <2>3, <2>5 DEF IInv
<1>5. QED
  BY <1>1, <1>2, <1>3, <1>4 DEF Next

(* Whatever the two threads do and whatever fails, each operation is one   *)
(* thread's and goes through its stages.                                   *)
THEOREM Inductive == Spec => []IInv
<1>1. Init => IInv
  BY InitHolds
<1>2. IInv /\ [Next]_vars => IInv'
  BY StepKeeps
<1>3. QED
  BY <1>1, <1>2, PTL DEF Spec

----------------------------------------------------------------------------
LEMMA AtRestWhenQuiet == IInv /\ Quiet => AtRest
  BY DEF IInv, Quiet, Stage, Closing, Forwarding, Tapping, Pasting, Left

(* For any keys and any number of operations, only the owner of the mutex  *)
(* has something to write, and between two operations no key of the device *)
(* is down that the user does not hold, as long as no write has failed.    *)
THEOREM NothingSticks == Spec => []KeyboardInv
<1>1. ASSUME IInv PROVE TypeOK
  <2>1. /\ held \subseteq Keys /\ down \subseteq Codes
        /\ failed \in BOOLEAN /\ crashed \in BOOLEAN
        /\ ops \in [Threads -> 0 .. MaxStrokes]
    BY <1>1 DEF IInv, PlainTyped
  <2>2. pastes \in 0 .. MaxStrokes
    BY <1>1, <2>1, KeyboardAssumption DEF IInv, Counted, Threads
  <2>3. CASE Idle
    <3>1. writes \in [Threads -> Seq(Events)]
      <4>1. <<>> \in Seq(Events)
        OBVIOUS
      <4>2. QED
        BY <2>3, <4>1 DEF Idle
    <3>2. QED
      BY <1>1, <2>1, <2>2, <2>3, <3>1 DEF TypeOK, Idle, IInv, StruckTyped
  <2>4. ASSUME NEW t \in Threads, NEW w \in Seq(Events), Left(t, w) PROVE TypeOK
    <3>1. writes \in [Threads -> Seq(Events)]
      <4>1. <<>> \in Seq(Events)
        OBVIOUS
      <4>2. QED
        BY <2>4, <4>1 DEF Left
    <3>2. owner = <<t>> /\ \A u \in Threads : writes[u] # <<>> => u = t
      BY <2>4 DEF Left
    <3>3. QED
      BY <1>1, <2>1, <2>2, <3>1, <3>2 DEF TypeOK, IInv, StruckTyped
  <2>5. QED
    BY <1>1, <2>3, <2>4, OneLeft DEF IInv
<1>2. ASSUME IInv PROVE NothingStuck
  BY <1>2, AtRestWhenQuiet DEF NothingStuck, AtRest, Owing
<1>3. IInv => KeyboardInv
  BY <1>1, <1>2 DEF KeyboardInv
<1>4. QED
  BY <1>3, Inductive, PTL

(* Any number of pastes are all struck, each once, each with Ctrl down,    *)
(* whatever the user forwards between.                                     *)
THEOREM PastesStruck == Spec => []PasteExact
<1>1. ASSUME IInv PROVE PasteArrives
  <2>1. ASSUME Quiet, ~failed PROVE Cardinality(Pastes) = pastes
    <3>1. writes["worker"] = <<>>
      BY <1>1, <2>1, AtRestWhenQuiet DEF AtRest, Idle, Threads
    <3>2. ~Due
      BY <3>1 DEF Due
    <3>3. Cardinality(Pastes) \in Nat
      BY <1>1, PastesFinite DEF IInv
    <3>4. QED
      BY <1>1, <2>1, <3>2, <3>3 DEF IInv, Counted
  <2>2. QED
    BY <2>1 DEF PasteArrives
<1>2. IInv => PasteExact
  BY <1>1 DEF PasteExact, IInv
<1>3. QED
  BY <1>2, Inductive, PTL

(* The user's own keys are seen with the modifiers he holds, however many  *)
(* pastes and taps the macros interleave.                                  *)
THEOREM UserKeysSeenPlain == Spec => UserKeysPlain
<1> DEFINE Plain == (struck' # struck /\ struck'[Len(struck')].by = "main" /\ ~failed)
                      => struck'[Len(struck')].mods \subseteq held
<1>1. ASSUME IInv, Next PROVE Plain
  <2> SUFFICES ASSUME struck' # struck, struck'[Len(struck')].by = "main", ~failed
               PROVE  struck'[Len(struck')].mods \subseteq held
    OBVIOUS
  <2>1. struck' # struck /\ struck'[Len(struck')].by = "main" /\ ~failed
    OBVIOUS
  <2>2. PICK u \in Threads : Emit(u)
    BY <1>1, <2>1 DEF Next, Forward, Tap, HoldComboAndTap, Lock, EmitFails
  <2>3. ASSUME NEW t \in Threads, NEW c \in Codes, Input(t, Event(c, 1))
        PROVE  t = "main" /\ struck'[Len(struck')].mods = down \cap Modifiers
    <3> DEFINE stroke == [by |-> t, code |-> c, mods |-> down \cap Modifiers]
               Strokes == [by : Threads, code : Codes, mods : SUBSET Modifiers]
    <3>1. struck' = Append(struck, stroke)
      BY <1>1, <2>1, <2>3, Pressed DEF IInv, PlainTyped
    <3>2. struck \in Seq(Strokes)
      BY <1>1 DEF IInv, StruckTyped
    <3>3. struck'[Len(struck')] = stroke
      <4> HIDE DEF stroke, Strokes
      <4> QED BY <3>1, <3>2
    <3>4. QED
      BY <2>1, <3>3
  <2>4. ASSUME NEW t \in Threads, NEW e, Input(t, e), e = Sync \/ \E c \in Codes : e = Event(c, 0)
        PROVE  FALSE
    BY <2>1, <2>4, Synced, Released
  <2>5. ASSUME NEW t \in Threads, NEW w, Left(t, w) PROVE Input(t, Head(w))
    BY <2>2, <2>5, Moves
  <2>6. ASSUME NEW t \in Threads, Closing(t) PROVE FALSE
    <3>1. Head(<< Sync >>) = Sync
      OBVIOUS
    <3>2. QED
      BY <2>4, <2>5, <2>6, <3>1 DEF Closing
  <2>7. ASSUME NEW k \in Keys, Forwarding(k)
        PROVE  struck'[Len(struck')].mods \subseteq held
    <3>1. k \in Codes /\ "main" \in Threads
      BY CodesOf DEF Threads
    <3>2. Head(<< Event(k, 1), Sync >>) = Event(k, 1) /\ Head(<< Event(k, 0), Sync >>) = Event(k, 0)
      OBVIOUS
    <3>3. CASE Left("main", << Event(k, 0), Sync >>)
      BY <2>4, <2>5, <3>1, <3>2, <3>3
    <3>4. CASE Left("main", << Event(k, 1), Sync >>) /\ Owing({})
      <4>1. struck'[Len(struck')].mods = down \cap Modifiers
        BY <2>3, <2>5, <3>1, <3>2, <3>4
      <4>2. down \subseteq held
        BY <2>1, <3>4 DEF Owing
      <4>3. QED
        BY <4>1, <4>2
    <3>5. QED
      BY <2>7, <3>3, <3>4 DEF Forwarding
  <2>8. ASSUME NEW w, Left("worker", w),
               (\E c \in Codes : Head(w) = Event(c, 1)) \/ Head(w) = Sync
                 \/ \E c \in Codes : Head(w) = Event(c, 0)
        PROVE  FALSE
    <3>1. "worker" \in Threads /\ "worker" # "main"
      BY DEF Threads
    <3>2. QED
      BY <2>3, <2>4, <2>5, <2>8, <3>1
  <2>9. ASSUME NEW k \in TapKeys, Tapping(k) PROVE FALSE
    <3>1. k \in Codes
      BY CodesOf
    <3>2. /\ Head(<< Event(k, 1), Sync, Event(k, 0), Sync >>) = Event(k, 1)
          /\ Head(<< Sync, Event(k, 0), Sync >>) = Sync
          /\ Head(<< Event(k, 0), Sync >>) = Event(k, 0)
      OBVIOUS
    <3>3. QED
      BY <2>8, <2>9, <3>1, <3>2 DEF Tapping
  <2>10. ASSUME Pasting PROVE FALSE
    <3>1. /\ Head(<< Event(Ctrl, 1), Event(Paste, 1), Sync, Event(Paste, 0),
                     Event(Ctrl, 0), Sync >>) = Event(Ctrl, 1)
          /\ Head(<< Event(Paste, 1), Sync, Event(Paste, 0), Event(Ctrl, 0), Sync >>)
               = Event(Paste, 1)
          /\ Head(<< Sync, Event(Paste, 0), Event(Ctrl, 0), Sync >>) = Sync
          /\ Head(<< Event(Paste, 0), Event(Ctrl, 0), Sync >>) = Event(Paste, 0)
          /\ Head(<< Event(Ctrl, 0), Sync >>) = Event(Ctrl, 0)
      OBVIOUS
    <3>2. QED
      BY <2>8, <2>10, <3>1, CodesOf DEF Pasting
  <2>11. ~AtRest
    BY <2>2, IdleWrites DEF AtRest
  <2>12. QED
    BY <1>1, <2>6, <2>7, <2>9, <2>10, <2>11 DEF IInv, Stage
<1>2. ASSUME IInv, [Next]_vars PROVE [Plain]_vars
  BY <1>1, <1>2
<1>3. QED
  BY <1>2, Inductive, PTL DEF Spec, UserKeysPlain
=============================================================================
