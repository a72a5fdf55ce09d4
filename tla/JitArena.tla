------------------------------ MODULE JitArena ------------------------------
(***************************************************************************)
(* The memory of compiled code: Arena, the handles it gives out, and       *)
(* jit_str_memo, which parks constant strings for natives.  Compiled code  *)
(* holds no references: it holds handles.  What it believes each of them   *)
(* names is the ghost of this module (a frame's "held" and "lent"), and    *)
(* the properties compare that belief with the slot.                       *)
(*                                                                         *)
(* A compiled call is a frame.  A call it makes to a native, to the host   *)
(* or to a field initializer leaves it "out"; only then can another        *)
(* compiled call start, on top of it.                                      *)
(***************************************************************************)
EXTENDS Integers, Sequences, SequencesExt, FiniteSets

CONSTANTS
  Texts,       \* strings, told apart by their content
  Things,      \* the other values: an instance, a Bytes, a boxed number
  Keys,        \* the addresses at which constant or borrowed units live
  Empty,       \* Option::None in a slot
  Memo,        \* MEMO, the most entries of jit_str_memo
  MaxHeld,     \* the handles one frame owns at a time (a bound)
  MaxLent,     \* the memo strings one call passes (a bound)
  MaxStray,    \* the handles left by declined calls (a bound)
  MaxNest      \* the compiled calls active at a time (a bound)

Values == Texts \cup Things

ASSUME ArenaAssumption ==
  /\ Empty \notin Values
  /\ Texts # {}
  /\ Memo \in Nat \ {0}
  /\ {MaxHeld, MaxLent, MaxStray, MaxNest} \subseteq Nat

VARIABLES
  slots,       \* Arena::slots
  free,        \* Arena::free, a stack
  memo,        \* jit_str_memo, the oldest entry first
  text,        \* the units at each address, now
  frames,      \* the compiled calls, the innermost last
  strays       \* handles parked for a call that was then declined

vars == <<slots, free, memo, text, frames, strays>>

\* What a handle names: Arena::get.
At(h) == IF h \in 1..Len(slots) THEN slots[h] ELSE Empty

Idle == [held |-> [h \in {} |-> Empty], lent |-> {}, out |-> FALSE]

Init ==
  /\ slots = << >> /\ free = << >> /\ memo = << >>
  /\ text \in [Keys -> Texts]
  /\ frames = << >> /\ strays = {}

(***************************************************************************)
(* The arena's operations, on the pair of its slots and its free stack.    *)
(***************************************************************************)
Arena == [slots |-> slots, free |-> free]

NextHandle(a) == IF a.free = << >> THEN Len(a.slots) + 1 ELSE Last(a.free)

\* Mutant: the handle to reuse is read off the free stack and left there.
KeepUnpopped(a, v) ==
  IF a.free = << >> THEN [a EXCEPT !.slots = Append(@, v)]
  ELSE [a EXCEPT !.slots[Last(a.free)] = v]

\* The slot freed last is filled first; with none free the vector grows.
Keep(a, v) ==
  IF a.free = << >>
  THEN [slots |-> Append(a.slots, v), free |-> a.free]
  ELSE [slots |-> [a.slots EXCEPT ![Last(a.free)] = v], free |-> Front(a.free)]

\* Mutant: the slot is emptied and never offered again.
ReleaseLost(a, h) == [slots |-> [a.slots EXCEPT ![h] = Empty], free |-> a.free]

\* Letting go of a handle, or taking its value out: the slot empties and is
\* free.  An empty slot, or a handle past the vector, is left alone.
Release(a, h) ==
  IF h \in 1..Len(a.slots) /\ a.slots[h] # Empty
  THEN [slots |-> [a.slots EXCEPT ![h] = Empty], free |-> Append(a.free, h)]
  ELSE a

SetArena(a) == slots' = a.slots /\ free' = a.free

(***************************************************************************)
(* The innermost compiled call, which alone is running.                    *)
(***************************************************************************)
Top == Last(frames)
Running == frames # << >> /\ ~Top.out
SetTop(f) == frames' = [frames EXCEPT ![Len(frames)] = f]

Holding(f, h, v) ==
  [f EXCEPT !.held = [g \in DOMAIN f.held \cup {h} |-> IF g = h THEN v ELSE f.held[g]]]
Without(f, h) ==
  [f EXCEPT !.held = [g \in DOMAIN f.held \ {h} |-> f.held[g]]]

(***************************************************************************)
(* Entry.  The opaque arguments of a call, and on OSR every owned slot,    *)
(* are parked first: that is Make, by the frame that owns them.            *)
(***************************************************************************)
Enter ==
  /\ frames # << >> => Top.out
  /\ Len(frames) < MaxNest
  /\ frames' = Append(frames, Idle)
  /\ UNCHANGED <<slots, free, memo, text, strays>>

\* A later argument does not fit its slot: the call is interpreted, and what
\* was parked for it stays until some compiled call ends.
Decline ==
  /\ frames # << >> => Top.out
  /\ Cardinality(strays) < MaxStray
  /\ \E v \in Values :
       /\ SetArena(Keep(Arena, v))
       /\ strays' = strays \cup {NextHandle(Arena)}
  /\ UNCHANGED <<memo, text, frames>>

(***************************************************************************)
(* What compiled code does with handles.                                   *)
(***************************************************************************)
\* A value allocated, read from a cell, copied or boxed gets a handle.
Make(v) ==
  /\ Running
  /\ Cardinality(DOMAIN Top.held) < MaxHeld
  /\ SetArena(Keep(Arena, v))
  /\ SetTop(Holding(Top, NextHandle(Arena), v))
  /\ UNCHANGED <<memo, text, strays>>

\* A second reference to what a handle names, for a borrow that outlives it.
CloneVal(h) ==
  /\ Running /\ h \in DOMAIN Top.held
  /\ Cardinality(DOMAIN Top.held) < MaxHeld
  /\ At(h) # Empty
  /\ SetArena(Keep(Arena, At(h)))
  /\ SetTop(Holding(Top, NextHandle(Arena), Top.held[h]))
  /\ UNCHANGED <<memo, text, strays>>

\* s = `${s}...`: the grown string comes back under a new handle, and only
\* then does the store let go of the old one.
StrAppend(h, t) ==
  /\ Running /\ h \in DOMAIN Top.held
  /\ SetArena(Release(Keep(Arena, t), h))
  /\ SetTop(Without(Holding(Top, NextHandle(Arena), t), h))
  /\ UNCHANGED <<memo, text, strays>>

\* An owned handle is let go of; or its value is taken out, by a push or an
\* indexed store, which becomes its owner.
LetGo(h) ==
  /\ Running /\ h \in DOMAIN Top.held
  /\ SetArena(Release(Arena, h))
  /\ SetTop(Without(Top, h))
  /\ UNCHANGED <<memo, text, strays>>

(***************************************************************************)
(* jit_box_str for a string with no handle of its own.  The memo is keyed  *)
(* on the address, and a hit is verified by content.                       *)
(***************************************************************************)
Found(k) == {i \in 1..Len(memo) : memo[i].key = k /\ \A j \in 1..(i - 1) : memo[j].key # k}

\* Mutant: the key alone decides.
HitsByKey(k) == Found(k)

Hits(k) == {i \in Found(k) : At(memo[i].handle) = text[k]}

\* Mutant: what the memo displaces stays parked.
EvictedKept(a) == a

\* A full memo displaces its oldest entry and lets go of it.
Evicted(a) == IF Len(memo) = Memo THEN Release(a, Head(memo).handle) ELSE a

Remembered(e) == Append(IF Len(memo) = Memo THEN Tail(memo) ELSE memo, e)

Lending(h, t) ==
  SetTop([held |-> Top.held, lent |-> Top.lent \cup {[h |-> h, v |-> t]}, out |-> Top.out])

BoxStr(k) ==
  /\ Running
  /\ Cardinality(Top.lent) < MaxLent
  /\ \/ /\ \E i \in Hits(k) : Lending(memo[i].handle, text[k])
        /\ UNCHANGED <<slots, free, memo>>
     \/ /\ Hits(k) = {}
        /\ SetArena(Evicted(Keep(Arena, text[k])))
        /\ memo' = Remembered([key |-> k, handle |-> NextHandle(Arena)])
        /\ Lending(NextHandle(Arena), text[k])
  /\ UNCHANGED <<text, strays>>

\* The buffer at an address is freed and another string placed there.
Rewrite(k) ==
  /\ text' \in {[text EXCEPT ![k] = t] : t \in Texts \ {text[k]}}
  /\ UNCHANGED <<slots, free, memo, frames, strays>>

(***************************************************************************)
(* Calls out of compiled code, and its end.                                *)
(***************************************************************************)
CallOut ==
  /\ Running
  /\ SetTop([held |-> Top.held, lent |-> Top.lent, out |-> TRUE])
  /\ UNCHANGED <<slots, free, memo, text, strays>>

\* The result is parked before anything boxed for the call is let go of.
Return ==
  /\ frames # << >> /\ Top.out
  /\ LET back == [held |-> Top.held, lent |-> {}, out |-> FALSE]
     IN \/ SetTop(back) /\ UNCHANGED <<slots, free>>
        \/ /\ Cardinality(DOMAIN Top.held) < MaxHeld
           /\ \E v \in Values :
                /\ SetArena(Keep(Arena, v))
                /\ SetTop(Holding(back, NextHandle(Arena), v))
  /\ UNCHANGED <<memo, text, strays>>

\* A return, a bail or a trap (a call that threw traps): the result, if any,
\* is taken out, and everything else is swept.
End ==
  /\ frames # << >>
  /\ frames' = Front(frames)
  /\ slots' = << >> /\ free' = << >> /\ memo' = << >> /\ strays' = {}
  /\ UNCHANGED text

Next ==
  \/ Enter \/ Decline \/ CallOut \/ Return \/ End
  \/ \E v \in Values : Make(v)
  \/ frames # << >> /\ \E h \in DOMAIN Top.held :
       CloneVal(h) \/ LetGo(h) \/ \E t \in Texts : StrAppend(h, t)
  \/ \E k \in Keys : BoxStr(k) \/ Rewrite(k)

Spec == Init /\ [][Next]_vars

(***************************************************************************)
(* Properties.                                                             *)
(***************************************************************************)
FrameOK(f) ==
  /\ f = [held |-> f.held, lent |-> f.lent, out |-> f.out]
  /\ f.held \in [DOMAIN f.held -> Values] /\ DOMAIN f.held \subseteq Nat
  /\ f.lent \subseteq [h : Nat, v : Texts]
  /\ f.out \in BOOLEAN

TypeOK ==
  /\ slots \in Seq(Values \cup {Empty})
  /\ free \in Seq(1..Len(slots))
  /\ memo \in Seq([key : Keys, handle : Nat]) /\ Len(memo) <= Memo
  /\ text \in [Keys -> Texts]
  /\ Len(frames) \in 0..MaxNest /\ \A i \in 1..Len(frames) : FrameOK(frames[i])
  /\ strays \subseteq Nat

\* A handle compiled code owns names the value it was given for, through every
\* reuse of a slot, every eviction from the memo and every string grown in
\* place (Arena::keep, release, take; jit_box_str; str_append).
RegistersNamed ==
  \A i \in 1..Len(frames) : \A h \in DOMAIN frames[i].held :
    At(h) = frames[i].held[h]

Live == {h \in 1..Len(slots) : slots[h] # Empty}
MemoHandles == {memo[i].handle : i \in 1..Len(memo)}
HeldHandles == UNION {DOMAIN frames[i].held : i \in 1..Len(frames)}

\* Every live slot has exactly one owner: a register, the memo, or a declined
\* call.  Two owners is a value freed under one of them; none is the loop that
\* parks a value each time round and keeps them all until the call returns.
OwnedOnce ==
  /\ Live = MemoHandles \cup HeldHandles \cup strays
  /\ MemoHandles \cap HeldHandles = {} /\ strays \cap (MemoHandles \cup HeldHandles) = {}
  /\ \A i, j \in 1..Len(memo) : memo[i].handle = memo[j].handle => i = j

\* The free stack is the empty slots, each once: keep never hands a slot to
\* two owners and never forgets one.
FreeExact ==
  /\ {free[i] : i \in 1..Len(free)} = 1..Len(slots) \ Live
  /\ \A i, j \in 1..Len(free) : free[i] = free[j] => i = j

\* The string a native is given is the one compiled code meant, although the
\* memo is keyed on an address another string may have taken over
\* (jit_box_str: "a stale key must not hand back the wrong text").
BoxedFaithful ==
  [][\A k \in Keys : BoxStr(k) =>
       \E e \in frames'[Len(frames)].lent : e.v = text[k] /\ slots'[e.h] = text[k]]_vars

\* A handle passed to a call names its string until the call returns
\* (jit_box_str: "a handle in flight is never the one evicted").
InFlightNamed ==
  \A i \in 1..Len(frames) : \A e \in frames[i].lent : At(e.h) = e.v
=============================================================================
