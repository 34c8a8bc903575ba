-------------------------- MODULE TriggerMatching --------------------------
(***************************************************************************)
(* The operators the event loop matches keystrokes with: the ring of the   *)
(* last key codes (src/src/RingBuffer.cpp) and the choice of a hotstring   *)
(* among those of a script (Daemon::find_match).                           *)
(***************************************************************************)
EXTENDS Integers, Sequences

CONSTANTS
    Keys,           \* key codes
    Modifiers,      \* the eight Ctrl, Alt, Shift and Meta codes, or some
    Counterpart,    \* [m] the same modifier on the other side
    MinTrigger,     \* ring_capacity: 16 in the code
    RingSlack       \* ring_capacity: 8 in the code

ASSUME MatchingAssumption ==
    /\ Keys # {}
    /\ Modifiers \subseteq Keys
    /\ Counterpart \in [Modifiers -> Modifiers]
    /\ MinTrigger \in Nat \ {0}
    /\ RingSlack \in Nat

(* What find_match reads of a hotstring, and whether it is an interrupt.   *)
Hotstrings == [trigger : Seq(Keys), mods : SUBSET Modifiers, interrupt : BOOLEAN]

(* The last n elements of s, or all of them.                               *)
Suffix(s, n) == SubSeq(s, IF Len(s) > n THEN Len(s) - n + 1 ELSE 1, Len(s))

(* A slip: the oldest key goes one key late.                               *)
Push_Late(ring, code, capacity) ==
    Append(IF Len(ring) > capacity THEN Tail(ring) ELSE ring, code)

Push(ring, code, capacity) ==
    Append(IF Len(ring) = capacity THEN Tail(ring) ELSE ring, code)

EndsWith(ring, trigger) ==
    /\ Len(trigger) <= Len(ring)
    /\ \A i \in 1 .. Len(trigger) :
           ring[Len(ring) - Len(trigger) + i] = trigger[i]

(* The longest trigger, counted at least MinTrigger, and some slack.       *)
RingCapacity(script) ==
    LET longest[i \in 0 .. Len(script)] ==
            IF i = 0 THEN MinTrigger
            ELSE IF Len(script[i].trigger) > longest[i - 1]
                   THEN Len(script[i].trigger)
                   ELSE longest[i - 1]
    IN  longest[Len(script)] + RingSlack

(* Each required modifier is down, on either side of the keyboard.         *)
ModifiersMatch(required, pressed) ==
    \A m \in required : m \in pressed \/ Counterpart[m] \in pressed

Fires(hotstring, ring, pressed) ==
    /\ EndsWith(ring, hotstring.trigger)
    /\ ModifiersMatch(hotstring.mods, pressed)

(* The position of the hotstring to run, 0 for none: the scan keeps the    *)
(* first of the longest triggers that fire.                                *)
FindMatch(script, ring, pressed) ==
    LET best[i \in 0 .. Len(script)] ==
            IF i = 0 THEN 0
            ELSE IF /\ Fires(script[i], ring, pressed)
                    /\ \/ best[i - 1] = 0
                       \/ Len(script[i].trigger) > Len(script[best[i - 1]].trigger)
                   THEN i
                   ELSE best[i - 1]
    IN  best[Len(script)]

----------------------------------------------------------------------------
(* What FindMatch should return, without the scan, on the keys typed       *)
(* rather than the ring that remembers some of them.                       *)
BestMatch(script, typed, pressed) ==
    LET fires == {i \in DOMAIN script : Fires(script[i], typed, pressed)}
        better(i, j) ==
            \/ Len(script[i].trigger) > Len(script[j].trigger)
            \/ Len(script[i].trigger) = Len(script[j].trigger) /\ i <= j
    IN  IF fires = {} THEN 0
        ELSE CHOOSE i \in fires : \A j \in fires : better(i, j)
=============================================================================
