--------------------------- MODULE JitArenaProofs ---------------------------
(***************************************************************************)
(* Without re-entry, the handles of compiled code name what it was given,  *)
(* every live slot has one owner and the free stack is exact, whatever the *)
(* strings, the addresses and the bounds.                                  *)
(***************************************************************************)
EXTENDS JitArena, TLAPS

USE ArenaAssumption

AtIn(s, h) == IF h \in 1..Len(s) THEN s[h] ELSE Empty

\* The free stack f is the empty slots of s, each once.
FreeIs(s, f) ==
  /\ \A i \in 1..Len(f) : f[i] \in 1..Len(s) /\ s[f[i]] = Empty
  /\ \A h \in 1..Len(s) : s[h] = Empty => \E i \in 1..Len(f) : f[i] = h
  /\ \A i, j \in 1..Len(f) : f[i] = f[j] => i = j

ArenaOK(a) ==
  \E s \in Seq(Values \cup {Empty}), f \in Seq(Nat) :
    a = [slots |-> s, free |-> f] /\ FreeIs(s, f)

\* b is a, with the slot h holding v.
Replaced(a, b, h, v) ==
  /\ ArenaOK(b)
  /\ AtIn(b.slots, h) = v
  /\ \A g \in Nat : g # h => AtIn(b.slots, g) = AtIn(a.slots, g)

-----------------------------------------------------------------------------
(* The arena's operations.                                                 *)

\* What Front leaves of a sequence.
LEMMA Fronted ==
  ASSUME NEW S, NEW f \in Seq(S), f # << >>
  PROVE  /\ Front(f) \in Seq(S) /\ Len(Front(f)) = Len(f) - 1 /\ Len(f) \in Nat \ {0}
         /\ \A i \in 1..Len(Front(f)) : i \in 1..Len(f) /\ i # Len(f) /\ Front(f)[i] = f[i]
         /\ \A i \in 1..Len(f) : i # Len(f) => i \in 1..Len(Front(f))
<1>1. Len(f) \in Nat /\ Len(f) >= 1 /\ DOMAIN f = 1..Len(f)
  OBVIOUS
<1>. DEFINE p == SubSeq(f, 1, Len(f) - 1)
<1>2a. p \in Seq(S) /\ Len(p) = Len(f) - 1 /\ DOMAIN p = 1..(Len(f) - 1)
  BY <1>1
<1>2. p \in Seq(S) /\ Len(p) = Len(f) - 1 /\ \A i \in 1..(Len(f) - 1) : p[i] = f[i]
  BY <1>1, <1>2a
<1>3. Front(f) = p
  BY DEF Front
<1>. HIDE DEF p
<1>. PICK n \in Nat : n = Len(f)
  BY <1>1
<1>4. \A i \in 1..(n - 1) : i \in 1..n /\ i # n
  BY ONLY n \in Nat
<1>5. \A i \in 1..n : i # n => i \in 1..(n - 1)
  BY ONLY n \in Nat
<1>6. Len(f) \in Nat \ {0}
  BY ONLY <1>1
<1>. QED BY <1>2, <1>3, <1>4, <1>5, <1>6

\* What Append adds to a sequence.
LEMMA Appended ==
  ASSUME NEW S, NEW f \in Seq(S), NEW x \in S
  PROVE  /\ Append(f, x) \in Seq(S) /\ Len(Append(f, x)) = Len(f) + 1 /\ Len(f) \in Nat
         /\ Append(f, x)[Len(f) + 1] = x /\ Len(f) + 1 \in 1..Len(Append(f, x))
         /\ \A i \in 1..Len(Append(f, x)) :
              i # Len(f) + 1 => i \in 1..Len(f) /\ Append(f, x)[i] = f[i]
         /\ \A i \in 1..Len(f) : i \in 1..Len(Append(f, x)) /\ Append(f, x)[i] = f[i]
OBVIOUS

\* keep fills a slot that was empty, and no other (Arena::keep).
LEMMA Kept ==
  ASSUME NEW a, ArenaOK(a), NEW v \in Values
  PROVE  /\ NextHandle(a) \in Nat /\ AtIn(a.slots, NextHandle(a)) = Empty
         /\ Replaced(a, Keep(a, v), NextHandle(a), v)
<1>. PICK s \in Seq(Values \cup {Empty}), f \in Seq(Nat) :
       a = [slots |-> s, free |-> f] /\ FreeIs(s, f)
  BY DEF ArenaOK
<1>. DEFINE n == NextHandle(a)
<1>0. v # Empty /\ v \in Values \cup {Empty} /\ a.slots = s /\ a.free = f /\ Len(s) \in Nat /\ Len(f) \in Nat
  OBVIOUS
<1>1. CASE f = << >>
  <2>1. Keep(a, v) = [slots |-> Append(s, v), free |-> f] /\ n = Len(s) + 1
    BY <1>1, <1>0 DEF Keep, NextHandle
  <2>. DEFINE s2 == Append(s, v)
  <2>2. /\ s2 \in Seq(Values \cup {Empty}) /\ Len(s2) = Len(s) + 1 /\ s2[Len(s) + 1] = v
        /\ \A i \in 1..Len(s) : s2[i] = s[i]
    BY <1>0
  <2>. HIDE DEF s2
  <2>3. \A i \in 1..Len(s) : s[i] # Empty
    BY <1>1 DEF FreeIs
  <2>4. \A h \in 1..Len(s2) : s2[h] # Empty
    BY <2>2, <2>3, <1>0
  <2>5. FreeIs(s2, f)
    BY <2>4, <1>1 DEF FreeIs
  <2>6. ArenaOK([slots |-> s2, free |-> f])
    BY <2>5, <2>2 DEF ArenaOK
  <2>7. AtIn(s2, n) = v /\ AtIn(s, n) = Empty /\ n \in Nat
    BY <2>1, <2>2, <1>0 DEF AtIn
  <2>8. \A g \in Nat : g # n => AtIn(s2, g) = AtIn(s, g)
    BY <2>1, <2>2, <1>0 DEF AtIn
  <2>9. Keep(a, v) = [slots |-> s2, free |-> f]
    BY <2>1 DEF s2
  <2>. QED BY <2>6, <2>7, <2>8, <2>9, <1>0 DEF Replaced
<1>2. CASE f # << >>
  <2>0. /\ Len(f) >= 1 /\ Last(f) = f[Len(f)]
        /\ Last(f) \in 1..Len(s) /\ s[Last(f)] = Empty
    BY <1>2, <1>0 DEF Last, FreeIs
  <2>1. Keep(a, v) = [slots |-> [s EXCEPT ![Last(f)] = v], free |-> Front(f)] /\ n = Last(f)
    BY <1>2, <1>0 DEF Keep, NextHandle
  <2>. DEFINE s2 == [s EXCEPT ![Last(f)] = v]
              f2 == Front(f)
  <2>2. /\ s2 \in Seq(Values \cup {Empty}) /\ Len(s2) = Len(s)
        /\ s2[n] = v /\ \A i \in 1..Len(s) : i # n => s2[i] = s[i]
    BY <2>0, <2>1, <1>0
  <2>3. /\ f2 \in Seq(Nat)
        /\ \A i \in 1..Len(f2) : i \in 1..Len(f) /\ i # Len(f) /\ f2[i] = f[i]
        /\ \A i \in 1..Len(f) : i # Len(f) => i \in 1..Len(f2)
    BY ONLY <1>2, Fronted, f \in Seq(Nat)
  <2>9. Keep(a, v) = [slots |-> s2, free |-> f2]
    BY <2>1
  <2>. HIDE DEF s2, f2
  <2>4. \A i \in 1..Len(f) : i # Len(f) => f[i] # n
    BY <2>0, <2>1, <1>0 DEF FreeIs
  <2>5. \A i \in 1..Len(f2) : f2[i] \in 1..Len(s2) /\ s2[f2[i]] = Empty
    <3>. TAKE i \in 1..Len(f2)
    <3>1. i \in 1..Len(f) /\ f2[i] = f[i] /\ f[i] # n
      BY <2>3, <2>4
    <3>2. f[i] \in 1..Len(s) /\ s[f[i]] = Empty
      BY <3>1 DEF FreeIs
    <3>. QED BY <3>1, <3>2, <2>2
  <2>6. ASSUME NEW h \in 1..Len(s2), s2[h] = Empty
        PROVE  \E i \in 1..Len(f2) : f2[i] = h
    <3>1. h # n /\ s[h] = Empty /\ h \in 1..Len(s)
      BY <2>2, <2>6, <1>0
    <3>2. PICK i \in 1..Len(f) : f[i] = h
      BY <3>1 DEF FreeIs
    <3>3. i # Len(f)
      BY <3>1, <3>2, <2>0, <2>1
    <3>. QED BY <3>2, <3>3, <2>0, <2>3, <1>0
  <2>7. \A i, j \in 1..Len(f2) : f2[i] = f2[j] => i = j
    BY <2>3, <1>0 DEF FreeIs
  <2>8. ArenaOK([slots |-> s2, free |-> f2])
    <3>1. FreeIs(s2, f2)
      BY <2>5, <2>6, <2>7 DEF FreeIs
    <3>. QED BY <3>1, <2>2, <2>3 DEF ArenaOK
  <2>10. AtIn(s2, n) = v /\ AtIn(s, n) = Empty /\ n \in Nat
    BY <2>0, <2>1, <2>2, <1>0 DEF AtIn
  <2>11. \A g \in Nat : g # n => AtIn(s2, g) = AtIn(s, g)
    BY <2>2, <1>0 DEF AtIn
  <2>. QED BY <2>8, <2>9, <2>10, <2>11, <1>0 DEF Replaced
<1>. QED BY <1>1, <1>2

\* Letting go of a live handle empties its slot, and no other (Arena::release,
\* Arena::take).
LEMMA Released ==
  ASSUME NEW a, ArenaOK(a), NEW h \in Nat, AtIn(a.slots, h) # Empty
  PROVE  Replaced(a, Release(a, h), h, Empty)
<1>. PICK s \in Seq(Values \cup {Empty}), f \in Seq(Nat) :
       a = [slots |-> s, free |-> f] /\ FreeIs(s, f)
  BY DEF ArenaOK
<1>0. a.slots = s /\ a.free = f /\ Len(s) \in Nat /\ Len(f) \in Nat
  OBVIOUS
<1>1. h \in 1..Len(s) /\ s[h] # Empty
  BY <1>0 DEF AtIn
<1>. DEFINE s2 == [s EXCEPT ![h] = Empty]
            f2 == Append(f, h)
<1>2. Release(a, h) = [slots |-> s2, free |-> f2]
  BY <1>0, <1>1 DEF Release
<1>3. /\ s2 \in Seq(Values \cup {Empty}) /\ Len(s2) = Len(s)
      /\ s2[h] = Empty /\ \A i \in 1..Len(s) : i # h => s2[i] = s[i]
  BY <1>0, <1>1
<1>4. /\ f2 \in Seq(Nat) /\ f2[Len(f) + 1] = h /\ Len(f) + 1 \in 1..Len(f2)
      /\ \A i \in 1..Len(f2) : i # Len(f) + 1 => i \in 1..Len(f) /\ f2[i] = f[i]
      /\ \A i \in 1..Len(f) : i \in 1..Len(f2) /\ f2[i] = f[i]
  BY ONLY Appended, h \in Nat, f \in Seq(Nat)
<1>. HIDE DEF s2, f2
<1>5. \A i \in 1..Len(f) : f[i] # h
  BY <1>1 DEF FreeIs
<1>6. \A i \in 1..Len(f2) : f2[i] \in 1..Len(s2) /\ s2[f2[i]] = Empty
  <2>. TAKE i \in 1..Len(f2)
  <2>1. CASE i = Len(f) + 1
    BY <2>1, <1>1, <1>3, <1>4
  <2>2. CASE i # Len(f) + 1
    <3>1. i \in 1..Len(f) /\ f2[i] = f[i]
      BY <2>2, <1>4
    <3>2. f[i] \in 1..Len(s) /\ s[f[i]] = Empty /\ f[i] # h
      BY <3>1, <1>5 DEF FreeIs
    <3>. QED BY <3>1, <3>2, <1>3
  <2>. QED BY <2>1, <2>2
<1>7. ASSUME NEW g \in 1..Len(s2), s2[g] = Empty
      PROVE  \E i \in 1..Len(f2) : f2[i] = g
  <2>1. CASE g = h
    BY <2>1, <1>4, <1>0
  <2>2. CASE g # h
    <3>1. PICK i \in 1..Len(f) : f[i] = g
      BY <1>3, <1>7, <2>2 DEF FreeIs
    <3>. QED BY <3>1, <1>4, <1>0
  <2>. QED BY <2>1, <2>2
<1>8. ASSUME NEW i \in 1..Len(f2), NEW j \in 1..Len(f2), f2[i] = f2[j] PROVE i = j
  <2>1. CASE i = Len(f) + 1 \/ j = Len(f) + 1
    BY <2>1, <1>4, <1>5, <1>8
  <2>2. CASE i # Len(f) + 1 /\ j # Len(f) + 1
    <3>1. i \in 1..Len(f) /\ j \in 1..Len(f) /\ f[i] = f[j]
      BY <2>2, <1>4, <1>8
    <3>. QED BY <3>1 DEF FreeIs
  <2>. QED BY <2>1, <2>2
<1>9. ArenaOK([slots |-> s2, free |-> f2])
  <2>1. FreeIs(s2, f2)
    BY <1>6, <1>7, <1>8 DEF FreeIs
  <2>. QED BY <2>1, <1>3, <1>4 DEF ArenaOK
<1>10. AtIn(s2, h) = Empty /\ \A g \in Nat : g # h => AtIn(s2, g) = AtIn(s, g)
  BY <1>1, <1>3, <1>0 DEF AtIn
<1>. QED BY <1>0, <1>2, <1>9, <1>10 DEF Replaced

-----------------------------------------------------------------------------
(* The invariant, for one compiled call at a time.                         *)

Held == IF frames = << >> THEN Idle.held ELSE frames[1].held

OneFrame == frames = << >> \/ \E f : FrameOK(f) /\ frames = <<f>>

MemoOK ==
  /\ memo \in Seq([key : Keys, handle : Nat]) /\ Len(memo) <= Memo
  /\ \A i, j \in 1..Len(memo) : memo[i].handle = memo[j].handle => i = j

\* Each owner's handles are live and nobody else's; each live slot has an owner.
OwnersIn(s, held, mh, st) ==
  /\ \A h \in DOMAIN held : /\ h \in Nat /\ held[h] \in Values /\ AtIn(s, h) = held[h]
                            /\ h \notin mh /\ h \notin st
  /\ \A h \in mh : h \in Nat /\ AtIn(s, h) # Empty /\ h \notin st
  /\ \A h \in st : h \in Nat /\ AtIn(s, h) # Empty
  /\ \A h \in Nat : AtIn(s, h) # Empty => h \in DOMAIN held \/ h \in mh \/ h \in st

Owners == OwnersIn(slots, Held, MemoHandles, strays)

IInv ==
  /\ ArenaOK(Arena) /\ text \in [Keys -> Texts]
  /\ OneFrame /\ MemoOK /\ Owners

\* Arena::get, on the slots of now.
LEMMA NamedAt == \A h : At(h) = AtIn(slots, h)
BY DEF At, AtIn

\* keep, as a step: one slot that was empty now holds v.
Filled(n, v) ==
  /\ At(n) = Empty /\ AtIn(slots', n) = v
  /\ \A g \in Nat : g # n => AtIn(slots', g) = At(g)
  /\ ArenaOK(Arena)'

\* keep fills a slot that was empty, and no other.
LEMMA KeepStep ==
  ASSUME ArenaOK(Arena), NEW v \in Values, SetArena(Keep(Arena, v))
  PROVE  \E n \in Nat : n = NextHandle(Arena) /\ Filled(n, v)
<1>. DEFINE b == Keep(Arena, v)
<1>1. Arena.slots = slots /\ Arena' = [slots |-> slots', free |-> free']
  BY DEF Arena
<1>2. PICK n \in Nat : n = NextHandle(Arena) /\ AtIn(slots, n) = Empty /\ Replaced(Arena, b, n, v)
  BY <1>1, Kept
<1>3. Arena' = b /\ slots' = b.slots
  BY <1>1, <1>2 DEF SetArena, ArenaOK, Replaced
<1>. HIDE DEF b
<1>4. ArenaOK(Arena)'
  BY <1>2, <1>3 DEF Replaced, Arena
<1>5. Filled(n, v)
  BY <1>1, <1>2, <1>3, <1>4, NamedAt DEF Filled, Replaced
<1>. QED BY <1>2, <1>5

\* release, as a step: one live slot is now empty.
LEMMA ReleaseStep ==
  ASSUME ArenaOK(Arena), NEW h \in Nat, At(h) # Empty, SetArena(Release(Arena, h))
  PROVE  /\ AtIn(slots', h) = Empty /\ ArenaOK(Arena)'
         /\ \A g \in Nat : g # h => AtIn(slots', g) = At(g)
<1>. DEFINE b == Release(Arena, h)
<1>1. Arena.slots = slots /\ Arena' = [slots |-> slots', free |-> free']
  BY DEF Arena
<1>2. Replaced(Arena, b, h, Empty)
  BY <1>1, Released, NamedAt
<1>3. Arena' = b /\ slots' = b.slots
  BY <1>1, <1>2 DEF SetArena, ArenaOK, Replaced
<1>. HIDE DEF b
<1>4. ArenaOK(Arena)'
  BY <1>2, <1>3 DEF Replaced, Arena
<1>. QED BY <1>1, <1>2, <1>3, <1>4, NamedAt DEF Replaced

\* keep and then release of another handle (str_append, a full memo).
Swapped(n, h, v) ==
  /\ n # h /\ At(n) = Empty /\ AtIn(slots', n) = v /\ AtIn(slots', h) = Empty
  /\ \A g \in Nat : g # n /\ g # h => AtIn(slots', g) = At(g)
  /\ ArenaOK(Arena)'

\* One slot is filled, and then another emptied.
LEMMA KeepReleaseStep ==
  ASSUME ArenaOK(Arena), NEW v \in Values, NEW h \in Nat, At(h) # Empty,
         SetArena(Release(Keep(Arena, v), h))
  PROVE  \E n \in Nat : n = NextHandle(Arena) /\ Swapped(n, h, v)
<1>. DEFINE b == Keep(Arena, v)
            c == Release(b, h)
<1>1. Arena.slots = slots /\ Arena' = [slots |-> slots', free |-> free']
  BY DEF Arena
<1>2. PICK n \in Nat : n = NextHandle(Arena) /\ AtIn(slots, n) = Empty /\ Replaced(Arena, b, n, v)
  BY <1>1, Kept
<1>. HIDE DEF b
<1>3. n # h /\ AtIn(b.slots, h) # Empty /\ ArenaOK(b)
  BY <1>1, <1>2, NamedAt DEF Replaced
<1>4. Replaced(b, c, h, Empty)
  BY <1>3, Released
<1>5. Arena' = c /\ slots' = c.slots
  BY <1>1, <1>4 DEF SetArena, ArenaOK, Replaced, b
<1>. HIDE DEF c
<1>6. ArenaOK(Arena)'
  BY <1>4, <1>5 DEF Replaced, Arena
<1>7. At(n) = Empty /\ AtIn(slots', n) = v /\ AtIn(slots', h) = Empty
  BY <1>2, <1>3, <1>4, <1>5, NamedAt DEF Replaced
<1>8. \A g \in Nat : g # n /\ g # h => AtIn(slots', g) = At(g)
  BY <1>1, <1>2, <1>4, <1>5, NamedAt DEF Replaced
<1>. QED BY <1>2, <1>3, <1>6, <1>7, <1>8 DEF Swapped

-----------------------------------------------------------------------------
(* The frame.                                                              *)

\* With one frame, the top is that frame.
LEMMA TheTop ==
  ASSUME OneFrame, frames # << >>
  PROVE  FrameOK(Top) /\ Held = Top.held /\ frames = <<Top>>
<1>1. PICK f : FrameOK(f) /\ frames = <<f>>
  BY DEF OneFrame
<1>2. Top = f /\ frames[1] = f
  BY <1>1 DEF Top, Last
<1>. QED BY <1>1, <1>2 DEF Held

\* What the frame holds after a step on it.
LEMMA TopSet ==
  ASSUME OneFrame, frames # << >>, NEW f, FrameOK(f), SetTop(f)
  PROVE  OneFrame' /\ Held' = f.held
<1>1. PICK g : FrameOK(g) /\ frames = <<g>>
  BY DEF OneFrame
<1>2. frames' = <<f>>
  BY <1>1 DEF SetTop
<1>3. \E e : FrameOK(e) /\ frames' = <<e>>
  BY <1>2
<1>4. OneFrame'
  BY <1>3 DEF OneFrame, FrameOK
<1>5. Held' = f.held
  BY <1>2 DEF Held
<1>. QED BY <1>4, <1>5

\* A frame that has been given a handle.
LEMMA HeldMore ==
  ASSUME NEW f, FrameOK(f), NEW n \in Nat, NEW v \in Values
  PROVE  LET g == Holding(f, n, v)
         IN  /\ FrameOK(g) /\ DOMAIN g.held = DOMAIN f.held \cup {n} /\ g.held[n] = v
             /\ \A h \in DOMAIN f.held : h # n => g.held[h] = f.held[h]
<1>. DEFINE hd == [g \in DOMAIN f.held \cup {n} |-> IF g = n THEN v ELSE f.held[g]]
<1>1. Holding(f, n, v) = [held |-> hd, lent |-> f.lent, out |-> f.out]
  BY DEF Holding, FrameOK
<1>2. \A g \in DOMAIN f.held : f.held[g] \in Values
  BY DEF FrameOK
<1>3. hd \in [DOMAIN hd -> Values] /\ DOMAIN hd \subseteq Nat /\ DOMAIN hd = DOMAIN f.held \cup {n}
  BY <1>2 DEF FrameOK
<1>4. hd[n] = v /\ \A h \in DOMAIN f.held : h # n => hd[h] = f.held[h]
  OBVIOUS
<1>. HIDE DEF hd
<1>5. FrameOK(Holding(f, n, v))
  BY <1>1, <1>3 DEF FrameOK
<1>. QED BY <1>1, <1>3, <1>4, <1>5

\* A frame that has let a handle go.
LEMMA HeldLess ==
  ASSUME NEW f, FrameOK(f), NEW n
  PROVE  LET g == Without(f, n)
         IN  /\ FrameOK(g) /\ DOMAIN g.held = DOMAIN f.held \ {n}
             /\ \A h \in DOMAIN g.held : g.held[h] = f.held[h]
<1>. DEFINE hd == [g \in DOMAIN f.held \ {n} |-> f.held[g]]
<1>1. Without(f, n) = [held |-> hd, lent |-> f.lent, out |-> f.out]
  BY DEF Without, FrameOK
<1>2. \A g \in DOMAIN f.held : f.held[g] \in Values
  BY DEF FrameOK
<1>3. hd \in [DOMAIN hd -> Values] /\ DOMAIN hd \subseteq Nat /\ DOMAIN hd = DOMAIN f.held \ {n}
  BY <1>2 DEF FrameOK
<1>4. \A h \in DOMAIN hd : hd[h] = f.held[h]
  OBVIOUS
<1>. HIDE DEF hd
<1>5. FrameOK(Without(f, n))
  BY <1>1, <1>3 DEF FrameOK
<1>. QED BY <1>1, <1>3, <1>4, <1>5

\* A value parked for the running frame: the frame is its one owner.
LEMMA Parked ==
  ASSUME IInv, frames # << >>, NEW v \in Values, SetArena(Keep(Arena, v)),
         NEW f, FrameOK(f), f.held = Top.held,
         SetTop(Holding(f, NextHandle(Arena), v)), UNCHANGED <<memo, text, strays>>
  PROVE  IInv'
<1>1. PICK n \in Nat : n = NextHandle(Arena) /\ Filled(n, v)
  BY KeepStep DEF IInv
<1>2. FrameOK(Top) /\ Held = Top.held
  BY TheTop DEF IInv
<1>. DEFINE g == Holding(f, n, v)
<1>3. /\ FrameOK(g) /\ DOMAIN g.held = DOMAIN Held \cup {n} /\ g.held[n] = v
      /\ \A h \in DOMAIN Held : h # n => g.held[h] = Held[h]
  <2>1. /\ FrameOK(g) /\ DOMAIN g.held = DOMAIN f.held \cup {n} /\ g.held[n] = v
        /\ \A h \in DOMAIN f.held : h # n => g.held[h] = f.held[h]
    BY ONLY HeldMore, FrameOK(f), n \in Nat, v \in Values
  <2>. QED BY <2>1, <1>2
<1>3a. SetTop(g)
  BY <1>1
<1>. HIDE DEF g
<1>4. OneFrame' /\ Held' = g.held
  BY <1>3, <1>3a, TopSet DEF IInv
<1>5. AtIn(slots, n) = Empty /\ AtIn(slots', n) = v /\ \A h \in Nat : h # n => AtIn(slots', h) = AtIn(slots, h)
  BY <1>1, NamedAt DEF Filled
<1>6. OwnersIn(slots', g.held, MemoHandles, strays)
  <2>1. \A h \in MemoHandles \cup strays \cup DOMAIN Held : h \in Nat /\ h # n
    BY <1>5 DEF IInv, Owners, OwnersIn
  <2>. QED BY <2>1, <1>3, <1>5 DEF IInv, Owners, OwnersIn
<1>7. MemoHandles' = MemoHandles /\ strays' = strays
  BY DEF MemoHandles
<1>8. Owners'
  BY <1>4, <1>6, <1>7 DEF Owners
<1>9. ArenaOK(Arena)'
  BY <1>1 DEF Filled
<1>. QED BY <1>4, <1>8, <1>9 DEF IInv, MemoOK

\* Compiled code releases a handle it owns.
LEMMA LetGoInv ==
  ASSUME IInv, frames # << >>, NEW h, LetGo(h)
  PROVE  IInv'
<1>1. FrameOK(Top) /\ Held = Top.held
  BY TheTop DEF IInv
<1>2. h \in Nat /\ h \in DOMAIN Held /\ AtIn(slots, h) # Empty
  BY <1>1 DEF LetGo, IInv, Owners, OwnersIn
<1>3. AtIn(slots', h) = Empty /\ ArenaOK(Arena)' /\ \A g \in Nat : g # h => AtIn(slots', g) = AtIn(slots, g)
  BY <1>2, NamedAt, ReleaseStep DEF LetGo, IInv
<1>. DEFINE f == Without(Top, h)
<1>4. FrameOK(f) /\ DOMAIN f.held = DOMAIN Held \ {h} /\ \A g \in DOMAIN f.held : f.held[g] = Held[g]
  BY <1>1, HeldLess
<1>4a. SetTop(f)
  BY DEF LetGo
<1>. HIDE DEF f
<1>5. OneFrame' /\ Held' = f.held
  BY <1>4, <1>4a, TopSet DEF IInv
<1>6. OwnersIn(slots', f.held, MemoHandles, strays)
  BY <1>2, <1>3, <1>4 DEF IInv, Owners, OwnersIn
<1>7. MemoHandles' = MemoHandles /\ strays' = strays
  BY DEF MemoHandles, LetGo
<1>8. Owners'
  BY <1>5, <1>6, <1>7 DEF Owners
<1>. QED BY <1>3, <1>5, <1>8 DEF IInv, MemoOK, LetGo

\* A string is grown under a new handle, and the old one let go of.
LEMMA StrAppendInv ==
  ASSUME IInv, frames # << >>, NEW h, NEW t \in Texts, StrAppend(h, t)
  PROVE  IInv'
<1>0. t \in Values
  BY DEF Values
<1>1. FrameOK(Top) /\ Held = Top.held
  BY TheTop DEF IInv
<1>2. h \in Nat /\ h \in DOMAIN Held /\ AtIn(slots, h) # Empty
  BY <1>1 DEF StrAppend, IInv, Owners, OwnersIn
<1>3. PICK n \in Nat : n = NextHandle(Arena) /\ Swapped(n, h, t)
  BY <1>0, <1>2, NamedAt, KeepReleaseStep DEF StrAppend, IInv
<1>. DEFINE f == Holding(Top, n, t)
            g == Without(f, h)
<1>4. /\ FrameOK(f) /\ DOMAIN f.held = DOMAIN Held \cup {n} /\ f.held[n] = t
      /\ \A i \in DOMAIN Held : i # n => f.held[i] = Held[i]
  <2>1. /\ FrameOK(f) /\ DOMAIN f.held = DOMAIN Top.held \cup {n} /\ f.held[n] = t
        /\ \A i \in DOMAIN Top.held : i # n => f.held[i] = Top.held[i]
    BY ONLY HeldMore, <1>1, n \in Nat, <1>0
  <2>. QED BY <2>1, <1>1
<1>5. SetTop(g)
  BY <1>3 DEF StrAppend
<1>. HIDE DEF f
<1>6. FrameOK(g) /\ DOMAIN g.held = DOMAIN f.held \ {h} /\ \A i \in DOMAIN g.held : g.held[i] = f.held[i]
  BY ONLY <1>4, HeldLess
<1>. HIDE DEF g
<1>7. OneFrame' /\ Held' = g.held
  BY <1>5, <1>6, TopSet DEF IInv
<1>8. /\ n # h /\ AtIn(slots, n) = Empty /\ AtIn(slots', n) = t /\ AtIn(slots', h) = Empty
      /\ \A i \in Nat : i # n /\ i # h => AtIn(slots', i) = AtIn(slots, i)
  BY <1>3, NamedAt DEF Swapped
<1>9. OwnersIn(slots', g.held, MemoHandles, strays)
  <2>1. \A i \in DOMAIN Held \cup MemoHandles \cup strays : i \in Nat /\ i # n
    BY <1>8 DEF IInv, Owners, OwnersIn
  <2>2. \A i \in MemoHandles \cup strays : i # h
    BY <1>2 DEF IInv, Owners, OwnersIn
  <2>. QED BY <2>1, <2>2, <1>0, <1>2, <1>4, <1>6, <1>8 DEF IInv, Owners, OwnersIn
<1>10. MemoHandles' = MemoHandles /\ strays' = strays
  BY DEF MemoHandles, StrAppend
<1>11. Owners'
  BY <1>7, <1>9, <1>10 DEF Owners
<1>12. ArenaOK(Arena)'
  BY <1>3 DEF Swapped
<1>. QED BY <1>7, <1>11, <1>12 DEF IInv, MemoOK, StrAppend

-----------------------------------------------------------------------------
(* The memo.                                                               *)

\* What the memo holds after a miss: the new entry, and the old ones but the
\* displaced.
LEMMA Remembering ==
  ASSUME MemoOK, NEW e \in [key : Keys, handle : Nat], e.handle \notin MemoHandles
  PROVE  LET r == Remembered(e)
             gone == IF Len(memo) = Memo THEN {Head(memo).handle} ELSE {}
         IN  /\ r \in Seq([key : Keys, handle : Nat]) /\ Len(r) <= Memo
             /\ \A i, j \in 1..Len(r) : r[i].handle = r[j].handle => i = j
             /\ {r[i].handle : i \in 1..Len(r)} = (MemoHandles \ gone) \cup {e.handle}
<1>. DEFINE E == [key : Keys, handle : Nat]
            m == IF Len(memo) = Memo THEN Tail(memo) ELSE memo
            gone == IF Len(memo) = Memo THEN {Head(memo).handle} ELSE {}
            r == Remembered(e)
<1>1. memo \in Seq(E) /\ Len(memo) \in Nat /\ Len(memo) <= Memo /\ Memo >= 1 /\ Memo \in Nat
  BY DEF MemoOK
<1>2. \E k \in 0..1 :
        /\ m \in Seq(E) /\ Len(m) <= Memo - 1 /\ Len(m) \in Nat
        /\ \A i \in 1..Len(m) : m[i] = memo[i + k] /\ i + k \in 1..Len(memo)
        /\ \A j \in 1..Len(memo) : j > k => j - k \in 1..Len(m) /\ memo[j] = m[j - k]
        /\ \A x : x \in gone <=> \E j \in 1..Len(memo) : j <= k /\ x = memo[j].handle
  <2>1. CASE Len(memo) = Memo
    <3>1. m = Tail(memo) /\ gone = {memo[1].handle} /\ memo # << >>
      BY <2>1, <1>1
    <3>2. Tail(memo) \in Seq(E) /\ Len(Tail(memo)) = Len(memo) - 1
          /\ \A i \in 1..(Len(memo) - 1) : Tail(memo)[i] = memo[i + 1]
      BY <3>1, <1>1
    <3>. QED BY <3>1, <3>2, <2>1, <1>1
  <2>2. CASE Len(memo) # Memo
    <3>1. m = memo /\ gone = {}
      BY <2>2
    <3>. QED BY <3>1, <2>2, <1>1
  <2>. QED BY <2>1, <2>2
<1>5. r = Append(m, e)
  BY DEF Remembered
<1>. HIDE DEF m, r, E, gone
<1>3. PICK k \in 0..1 :
        /\ m \in Seq(E) /\ Len(m) <= Memo - 1 /\ Len(m) \in Nat
        /\ \A i \in 1..Len(m) : m[i] = memo[i + k] /\ i + k \in 1..Len(memo)
        /\ \A j \in 1..Len(memo) : j > k => j - k \in 1..Len(m) /\ memo[j] = m[j - k]
        /\ \A x : x \in gone <=> \E j \in 1..Len(memo) : j <= k /\ x = memo[j].handle
  BY <1>2
<1>4. e \in E /\ m \in Seq(E)
  BY <1>3 DEF E
<1>6. /\ r \in Seq(E) /\ Len(r) = Len(m) + 1 /\ r[Len(m) + 1] = e
      /\ Len(m) + 1 \in 1..Len(r)
      /\ \A i \in 1..Len(r) : i # Len(m) + 1 => i \in 1..Len(m) /\ r[i] = m[i]
      /\ \A i \in 1..Len(m) : i \in 1..Len(r) /\ r[i] = m[i]
  BY ONLY <1>4, <1>5, Appended
<1>7. \A i \in 1..Len(m) : m[i].handle \in MemoHandles
  BY <1>3 DEF MemoHandles
<1>8. \A i, j \in 1..Len(r) : r[i].handle = r[j].handle => i = j
  <2>. TAKE i, j \in 1..Len(r)
  <2>. HAVE r[i].handle = r[j].handle
  <2>1. CASE i = Len(m) + 1 \/ j = Len(m) + 1
    BY <2>1, <1>6, <1>7
  <2>2. CASE i # Len(m) + 1 /\ j # Len(m) + 1
    <3>1. /\ i \in 1..Len(m) /\ j \in 1..Len(m)
          /\ memo[i + k].handle = memo[j + k].handle /\ i + k \in 1..Len(memo) /\ j + k \in 1..Len(memo)
      BY <2>2, <1>6, <1>3
    <3>2. i + k = j + k
      BY ONLY <3>1, MemoOK DEF MemoOK
    <3>. QED BY <3>1, <3>2, <1>6
  <2>. QED BY <2>1, <2>2
<1>9. {r[i].handle : i \in 1..Len(r)} \subseteq (MemoHandles \ gone) \cup {e.handle}
  <2>. SUFFICES ASSUME NEW i \in 1..Len(r) PROVE r[i].handle \in (MemoHandles \ gone) \cup {e.handle}
    OBVIOUS
  <2>. DEFINE x == r[i].handle
  <2>2. CASE i = Len(m) + 1
    BY <2>2, <1>6
  <2>3. CASE i # Len(m) + 1
    <3>1. i \in 1..Len(m) /\ x = memo[i + k].handle /\ i + k \in 1..Len(memo)
      BY <2>3, <1>6, <1>3
    <3>2. \A l \in 1..Len(memo) : l <= k => memo[l].handle # x
      <4>. SUFFICES ASSUME NEW l \in 1..Len(memo), l <= k, memo[l].handle = x
                    PROVE FALSE
        OBVIOUS
      <4>1. l = i + k
        BY ONLY <3>1, MemoOK, memo[l].handle = x, l \in 1..Len(memo) DEF MemoOK
      <4>. QED BY <4>1, <3>1, <1>3
    <3>3. x \in MemoHandles
      BY <3>1 DEF MemoHandles
    <3>. QED BY <3>2, <3>3, <1>3
  <2>. QED BY <2>2, <2>3
<1>10. (MemoHandles \ gone) \cup {e.handle} \subseteq {r[i].handle : i \in 1..Len(r)}
  <2>1. e.handle \in {r[i].handle : i \in 1..Len(r)}
    BY <1>6
  <2>2. ASSUME NEW x \in MemoHandles, x \notin gone
        PROVE  x \in {r[i].handle : i \in 1..Len(r)}
    <3>1. PICK j \in 1..Len(memo) : x = memo[j].handle
      BY DEF MemoHandles
    <3>2. j > k
      BY <3>1, <2>2, <1>3
    <3>3. j - k \in 1..Len(m) /\ x = m[j - k].handle
      BY <3>1, <3>2, <1>3
    <3>4. j - k \in 1..Len(r) /\ r[j - k] = m[j - k]
      BY <3>3, <1>6
    <3>. QED BY <3>3, <3>4
  <2>. QED BY <2>1, <2>2
<1>11. Len(r) <= Memo
  BY <1>1, <1>3, <1>6
<1>12. {r[i].handle : i \in 1..Len(r)} = (MemoHandles \ gone) \cup {e.handle}
  BY ONLY <1>9, <1>10
<1>13. r \in Seq([key : Keys, handle : Nat])
  BY <1>6 DEF E
<1>. QED BY <1>8, <1>11, <1>12, <1>13 DEF r, gone

\* What is in a sequence.
LEMMA Within ==
  ASSUME NEW S, NEW s \in Seq(S), NEW i \in 1..Len(s)
  PROVE  s[i] \in S /\ s # << >> /\ Head(s) = s[1] /\ 1 \in 1..Len(s)
OBVIOUS

\* Passing a memo string changes nothing of what the frame owns.
LEMMA LentMore ==
  ASSUME IInv, frames # << >>, NEW h \in Nat, NEW t \in Texts, Lending(h, t)
  PROVE  OneFrame' /\ Held' = Held
<1>1. FrameOK(Top) /\ Held = Top.held
  BY TheTop DEF IInv
<1>. DEFINE f == [held |-> Top.held, lent |-> Top.lent \cup {[h |-> h, v |-> t]}, out |-> Top.out]
<1>3. FrameOK(f) /\ f.held = Held
  BY <1>1 DEF FrameOK
<1>4. SetTop(f)
  BY DEF Lending
<1>. HIDE DEF f
<1>. QED BY <1>3, <1>4, TopSet DEF IInv

\* keep, and release of what a full memo displaced.
Displacing(n, gone, v) ==
  /\ AtIn(slots, n) = Empty /\ n \notin gone /\ AtIn(slots', n) = v
  /\ gone \subseteq MemoHandles /\ \A h \in gone : AtIn(slots', h) = Empty
  /\ \A h \in Nat : h # n /\ h \notin gone => AtIn(slots', h) = AtIn(slots, h)
  /\ ArenaOK(Arena)'

\* What a miss does to the slots.
LEMMA Missed ==
  ASSUME IInv, NEW v \in Values, SetArena(Evicted(Keep(Arena, v)))
  PROVE  LET gone == IF Len(memo) = Memo THEN {Head(memo).handle} ELSE {}
         IN  \E n \in Nat : n = NextHandle(Arena) /\ AtIn(slots', n) = v /\ Displacing(n, gone, v)
<1>. DEFINE gone == IF Len(memo) = Memo THEN {Head(memo).handle} ELSE {}
<1>1. CASE Len(memo) = Memo
  <2>1. gone = {Head(memo).handle} /\ Head(memo).handle \in MemoHandles /\ Head(memo).handle \in Nat
    <3>1. memo \in Seq([key : Keys, handle : Nat]) /\ Len(memo) = Memo /\ Memo \in Nat /\ Memo >= 1
      BY <1>1 DEF IInv, MemoOK
    <3>4. 1 \in 1..Len(memo)
      BY ONLY <3>1
    <3>2. Head(memo) = memo[1] /\ 1 \in 1..Len(memo) /\ memo[1] \in [key : Keys, handle : Nat]
      BY ONLY <3>1, <3>4, Within
    <3>3. memo[1].handle \in Nat /\ memo[1].handle \in MemoHandles
      BY <3>2 DEF MemoHandles
    <3>. QED BY <1>1, <3>2, <3>3
  <2>2. At(Head(memo).handle) # Empty
    BY <2>1, NamedAt DEF IInv, Owners, OwnersIn
  <2>3. SetArena(Release(Keep(Arena, v), Head(memo).handle))
    BY <1>1 DEF Evicted
  <2>4. PICK n \in Nat : n = NextHandle(Arena) /\ Swapped(n, Head(memo).handle, v)
    BY <2>1, <2>2, <2>3, KeepReleaseStep DEF IInv
  <2>. HIDE DEF gone
  <2>5. Displacing(n, gone, v) /\ AtIn(slots', n) = v
    BY <2>1, <2>4, NamedAt DEF Swapped, Displacing
  <2>. QED BY <2>4, <2>5 DEF gone
<1>2. CASE Len(memo) # Memo
  <2>1. gone = {} /\ SetArena(Keep(Arena, v))
    BY <1>2 DEF Evicted
  <2>2. PICK n \in Nat : n = NextHandle(Arena) /\ Filled(n, v)
    BY <2>1, KeepStep DEF IInv
  <2>. HIDE DEF gone
  <2>3. Displacing(n, gone, v) /\ AtIn(slots', n) = v
    BY <2>1, <2>2, NamedAt DEF Filled, Displacing
  <2>. QED BY <2>2, <2>3 DEF gone
<1>. QED BY <1>1, <1>2

\* A hit lends what the memo owns; a miss parks a copy for the memo, which lets
\* go of what it displaces.
LEMMA BoxStrInv ==
  ASSUME IInv, frames # << >>, NEW k \in Keys, BoxStr(k)
  PROVE  IInv'
<1>0. text[k] \in Texts /\ text[k] \in Values
  BY DEF IInv, Values
<1>1. CASE /\ \E i \in Hits(k) : Lending(memo[i].handle, text[k])
           /\ UNCHANGED <<slots, free, memo>>
  <2>1. PICK i \in Hits(k) : Lending(memo[i].handle, text[k])
    BY <1>1
  <2>2. memo \in Seq([key : Keys, handle : Nat]) /\ i \in 1..Len(memo)
    BY <2>1 DEF Hits, Found, IInv, MemoOK
  <2>3. memo[i].handle \in Nat
    <3>1. memo[i] \in [key : Keys, handle : Nat]
      BY ONLY <2>2, Within
    <3>. QED BY <3>1
  <2>4. OneFrame' /\ Held' = Held
    BY <1>0, <2>1, <2>3, LentMore
  <2>5. Owners' /\ ArenaOK(Arena)' /\ MemoOK' /\ text' = text
    BY <1>1, <2>4 DEF BoxStr, IInv, Owners, MemoHandles, Arena, MemoOK
  <2>. QED BY <2>4, <2>5 DEF IInv
<1>2. CASE /\ Hits(k) = {} /\ SetArena(Evicted(Keep(Arena, text[k])))
           /\ memo' = Remembered([key |-> k, handle |-> NextHandle(Arena)])
           /\ Lending(NextHandle(Arena), text[k])
  <2>. DEFINE gone == IF Len(memo) = Memo THEN {Head(memo).handle} ELSE {}
  <2>1. \E n \in Nat : n = NextHandle(Arena) /\ Displacing(n, gone, text[k])
    BY <1>0, <1>2, Missed
  <2>2. PICK n \in Nat : n = NextHandle(Arena) /\ Displacing(n, gone, text[k])
    BY <2>1
  <2>3. OneFrame' /\ Held' = Held
    BY <1>0, <1>2, <2>2, LentMore
  <2>. DEFINE e == [key |-> k, handle |-> n]
  <2>4. e \in [key : Keys, handle : Nat] /\ e.handle = n /\ n \notin MemoHandles /\ memo' = Remembered(e)
    BY <1>2, <2>2 DEF IInv, Owners, OwnersIn, Displacing
  <2>5. MemoOK' /\ MemoHandles' = (MemoHandles \ gone) \cup {n}
    <3>1. /\ Remembered(e) \in Seq([key : Keys, handle : Nat]) /\ Len(Remembered(e)) <= Memo
          /\ \A i, j \in 1..Len(Remembered(e)) : Remembered(e)[i].handle = Remembered(e)[j].handle => i = j
          /\ {Remembered(e)[i].handle : i \in 1..Len(Remembered(e))} = (MemoHandles \ gone) \cup {n}
      BY <2>4, Remembering DEF IInv
    <3>2. memo' = Remembered(e)
      BY <2>4
    <3>. HIDE DEF gone, e
    <3>3. MemoOK'
      BY <3>1, <3>2 DEF MemoOK
    <3>4. MemoHandles' = {Remembered(e)[i].handle : i \in 1..Len(Remembered(e))}
      BY <3>2 DEF MemoHandles
    <3>. QED BY <3>1, <3>3, <3>4
  <2>. HIDE DEF gone, e
  <2>6. OwnersIn(slots', Held, (MemoHandles \ gone) \cup {n}, strays)
    <3>. DEFINE H == Held
                M == MemoHandles
    <3>0. OwnersIn(slots, H, M, strays) /\ text[k] # Empty /\ gone \subseteq M
      BY <1>0, <2>2 DEF IInv, Owners, Displacing
    <3>00. n \in Nat /\ Displacing(n, gone, text[k])
      BY <2>2
    <3>. HIDE DEF H, M
    <3>1. \A h \in DOMAIN H \cup strays : h \in Nat /\ h # n /\ h \notin gone
      BY <3>00, <3>0 DEF OwnersIn, Displacing
    <3>2. \A h \in DOMAIN H : /\ h \in Nat /\ H[h] \in Values /\ AtIn(slots', h) = H[h]
                               /\ h \notin (M \ gone) \cup {n} /\ h \notin strays
      BY <3>00, <3>0, <3>1 DEF OwnersIn, Displacing
    <3>3. \A h \in (M \ gone) \cup {n} : h \in Nat /\ AtIn(slots', h) # Empty /\ h \notin strays
      BY <3>00, <3>0, <3>1 DEF OwnersIn, Displacing
    <3>4. \A h \in strays : h \in Nat /\ AtIn(slots', h) # Empty
      BY <3>00, <3>0, <3>1 DEF OwnersIn, Displacing
    <3>5. \A h \in Nat : AtIn(slots', h) # Empty =>
            h \in DOMAIN H \/ h \in (M \ gone) \cup {n} \/ h \in strays
      BY <3>00, <3>0 DEF OwnersIn, Displacing
    <3>6. OwnersIn(slots', H, (M \ gone) \cup {n}, strays)
      BY <3>2, <3>3, <3>4, <3>5 DEF OwnersIn
    <3>. QED BY <3>6 DEF H, M
  <2>7. strays' = strays /\ text' = text
    BY DEF BoxStr
  <2>8. Owners'
    BY <2>3, <2>5, <2>6, <2>7 DEF Owners
  <2>9. text' \in [Keys -> Texts]
    BY <2>7 DEF IInv
  <2>10. ArenaOK(Arena)'
    BY <2>2 DEF Displacing
  <2>. QED BY <2>3, <2>5, <2>8, <2>9, <2>10 DEF IInv
<1>. QED BY <1>1, <1>2 DEF BoxStr

\* What BoxStr lends names the units at the address.
LEMMA BoxedNow ==
  ASSUME IInv, NEW k \in Keys, BoxStr(k)
  PROVE  \E e \in frames'[Len(frames)].lent : e.v = text[k] /\ slots'[e.h] = text[k]
<1>. frames # << >>
  BY DEF BoxStr, Running
<1>0. text[k] \in Texts /\ text[k] \in Values /\ text[k] # Empty
  BY DEF IInv, Values
<1>1. frames = <<Top>>
  BY TheTop DEF IInv
<1>2. ASSUME NEW h, Lending(h, text[k]), AtIn(slots', h) = text[k]
      PROVE  \E e \in frames'[Len(frames)].lent : e.v = text[k] /\ slots'[e.h] = text[k]
  <2>. DEFINE l == Top.lent \cup {[h |-> h, v |-> text[k]]}
              f == [held |-> Top.held, lent |-> l, out |-> Top.out]
  <2>1. frames' = [frames EXCEPT ![Len(frames)] = f]
    BY <1>2 DEF Lending, SetTop
  <2>. HIDE DEF f
  <2>2. Len(frames) = 1 /\ frames'[Len(frames)] = f
    BY <1>1, <2>1
  <2>3. f.lent = l
    BY DEF f
  <2>4. slots'[h] = text[k]
    BY <1>0, <1>2 DEF AtIn
  <2>. DEFINE e == [h |-> h, v |-> text[k]]
  <2>5. e \in frames'[Len(frames)].lent
    BY <2>2, <2>3
  <2>6. e.h = h /\ e.v = text[k]
    OBVIOUS
  <2>. HIDE DEF e, l
  <2>. QED BY <2>4, <2>5, <2>6
<1>3. CASE /\ \E i \in Hits(k) : Lending(memo[i].handle, text[k])
           /\ UNCHANGED <<slots, free, memo>>
  <2>1. PICK i \in Hits(k) : Lending(memo[i].handle, text[k])
    BY <1>3
  <2>2. slots' = slots /\ AtIn(slots, memo[i].handle) = text[k]
    BY <1>3, <2>1, NamedAt DEF Hits
  <2>. QED BY <1>2, <2>1, <2>2
<1>4. CASE /\ Hits(k) = {} /\ SetArena(Evicted(Keep(Arena, text[k])))
           /\ memo' = Remembered([key |-> k, handle |-> NextHandle(Arena)])
           /\ Lending(NextHandle(Arena), text[k])
  <2>1. PICK n \in Nat : n = NextHandle(Arena) /\ AtIn(slots', n) = text[k]
    BY <1>0, <1>4, Missed
  <2>. QED BY <1>2, <1>4, <2>1
<1>. QED BY <1>3, <1>4 DEF BoxStr

-----------------------------------------------------------------------------
(* The other steps, and the theorems.                                      *)

\* A call out of compiled code, and its return, leave the arena alone.
LEMMA CallInv ==
  ASSUME IInv, frames # << >>, CallOut \/ Return
  PROVE  IInv'
<1>1. FrameOK(Top) /\ Held = Top.held
  BY TheTop DEF IInv
<1>2. CASE CallOut
  <2>. DEFINE f == [held |-> Top.held, lent |-> Top.lent, out |-> TRUE]
  <2>2. FrameOK(f) /\ f.held = Held
    BY <1>1 DEF FrameOK
  <2>3. SetTop(f) /\ UNCHANGED <<slots, free, memo, text, strays>>
    BY <1>2 DEF CallOut
  <2>. HIDE DEF f
  <2>4. OneFrame' /\ Held' = Held
    BY <2>2, <2>3, TopSet DEF IInv
  <2>. QED BY <2>3, <2>4 DEF IInv, Owners, MemoHandles, Arena, MemoOK
<1>3. CASE Return
  <2>. DEFINE back == [held |-> Top.held, lent |-> {}, out |-> FALSE]
  <2>2. FrameOK(back) /\ back.held = Top.held
    BY <1>1 DEF FrameOK
  <2>3. UNCHANGED <<memo, text, strays>>
    BY <1>3 DEF Return
  <2>4. CASE SetTop(back) /\ UNCHANGED <<slots, free>>
    <3>. HIDE DEF back
    <3>1. OneFrame' /\ Held' = Held
      BY <1>1, <2>2, <2>4, TopSet DEF IInv
    <3>. QED BY <2>3, <2>4, <3>1 DEF IInv, Owners, MemoHandles, Arena, MemoOK
  <2>5. CASE \E v \in Values : SetArena(Keep(Arena, v)) /\ SetTop(Holding(back, NextHandle(Arena), v))
    <3>. HIDE DEF back
    <3>. QED BY <2>2, <2>3, <2>5, Parked
  <2>. QED BY <1>3, <2>4, <2>5 DEF Return
<1>. QED BY <1>2, <1>3

\* The end of the only compiled call clears everything at once.
LEMMA EndInv ==
  ASSUME IInv, End
  PROVE  IInv'
<1>1. frames' = << >>
  BY TheTop DEF End, IInv, OneFrame, Front
<1>2. slots' = << >> /\ free' = << >> /\ memo' = << >> /\ strays' = {} /\ text' = text
  BY DEF End
<1>3. OneFrame' /\ DOMAIN Held' = {}
  BY <1>1 DEF OneFrame, Held, Idle
<1>4. MemoOK' /\ MemoHandles' = {}
  BY <1>2 DEF MemoOK, MemoHandles
<1>5. \A h : AtIn(slots', h) = Empty
  BY <1>2 DEF AtIn
<1>6. Owners'
  BY <1>2, <1>3, <1>4, <1>5 DEF Owners, OwnersIn
<1>7. FreeIs(<< >>, << >>)
  BY DEF FreeIs
<1>8. ArenaOK([slots |-> << >>, free |-> << >>])
  <2>1. << >> \in Seq(Values \cup {Empty}) /\ << >> \in Seq(Nat)
    OBVIOUS
  <2>. QED BY <1>7, <2>1 DEF ArenaOK
<1>9. ArenaOK(Arena)'
  BY <1>2, <1>8 DEF Arena
<1>. QED BY <1>2, <1>3, <1>4, <1>6, <1>9 DEF IInv

\* An argument parked for a call that is then declined becomes a stray.
LEMMA DeclineInv ==
  ASSUME IInv, Decline
  PROVE  IInv'
<1>1. PICK v \in Values : SetArena(Keep(Arena, v)) /\ strays' = strays \cup {NextHandle(Arena)}
  BY DEF Decline
<1>2. PICK n \in Nat : n = NextHandle(Arena) /\ Filled(n, v)
  BY <1>1, KeepStep DEF IInv
<1>3. AtIn(slots, n) = Empty /\ AtIn(slots', n) = v /\ \A h \in Nat : h # n => AtIn(slots', h) = AtIn(slots, h)
  BY <1>2, NamedAt DEF Filled
<1>4. UNCHANGED <<memo, text, frames>> /\ Held' = Held /\ MemoHandles' = MemoHandles
  BY DEF Decline, Held, MemoHandles
<1>5. OwnersIn(slots', Held, MemoHandles, strays \cup {n})
  <2>1. \A h \in MemoHandles \cup strays \cup DOMAIN Held : h \in Nat /\ h # n
    BY <1>3 DEF IInv, Owners, OwnersIn
  <2>. QED BY <2>1, <1>3 DEF IInv, Owners, OwnersIn
<1>6. Owners'
  BY <1>1, <1>2, <1>4, <1>5 DEF Owners
<1>7. ArenaOK(Arena)'
  BY <1>2 DEF Filled
<1>. QED BY <1>4, <1>6, <1>7 DEF IInv, MemoOK, OneFrame

\* With no call on top of another, every step keeps the invariant.
LEMMA Step ==
  ASSUME MaxNest = 1, IInv, [Next]_vars
  PROVE  IInv'
<1>1. CASE UNCHANGED vars
  BY <1>1 DEF vars, IInv, Owners, OneFrame, MemoOK, Held, MemoHandles, Arena
<1>2. CASE Enter
  <2>1. frames = << >>
    BY <1>2 DEF Enter, IInv, OneFrame
  <2>2. frames' = <<Idle>> /\ UNCHANGED <<slots, free, memo, text, strays>>
    BY <1>2, <2>1 DEF Enter
  <2>3. FrameOK(Idle)
    BY DEF FrameOK, Idle
  <2>4. OneFrame'
    BY <2>2, <2>3 DEF OneFrame, FrameOK, Idle
  <2>5. Held' = Held
    BY <2>1, <2>2 DEF Held
  <2>. QED BY <2>2, <2>4, <2>5 DEF IInv, Owners, MemoOK, MemoHandles, Arena
<1>3. CASE Decline \/ End
  BY <1>3, DeclineInv, EndInv
<1>4. CASE CallOut \/ Return
  BY <1>4, CallInv DEF CallOut, Return, Running
<1>5. CASE \E v \in Values : Make(v)
  <2>. PICK v \in Values : Make(v)
    BY <1>5
  <2>1. frames # << >> /\ FrameOK(Top)
    BY TheTop DEF Make, Running, IInv
  <2>. QED BY <2>1, Parked DEF Make
<1>6. CASE frames # << >> /\ \E h \in DOMAIN Top.held :
             CloneVal(h) \/ LetGo(h) \/ \E t \in Texts : StrAppend(h, t)
  <2>. PICK h \in DOMAIN Top.held : CloneVal(h) \/ LetGo(h) \/ \E t \in Texts : StrAppend(h, t)
    BY <1>6
  <2>1. CASE CloneVal(h)
    <3>1. FrameOK(Top) /\ Held = Top.held
      BY <1>6, TheTop DEF IInv
    <3>2. Top.held[h] = At(h) /\ Top.held[h] \in Values
      BY <3>1, NamedAt DEF IInv, Owners, OwnersIn
    <3>. QED BY <1>6, <2>1, <3>1, <3>2, Parked DEF CloneVal
  <2>2. CASE LetGo(h)
    BY <1>6, <2>2, LetGoInv
  <2>3. CASE \E t \in Texts : StrAppend(h, t)
    BY <1>6, <2>3, StrAppendInv
  <2>. QED BY <2>1, <2>2, <2>3
<1>7. CASE \E k \in Keys : BoxStr(k)
  BY <1>7, BoxStrInv DEF BoxStr, Running
<1>8. CASE \E k \in Keys : Rewrite(k)
  <2>1. text' \in [Keys -> Texts] /\ UNCHANGED <<slots, free, memo, frames, strays>>
    BY <1>8 DEF Rewrite, IInv
  <2>. QED BY <2>1 DEF IInv, Owners, OneFrame, MemoOK, Held, MemoHandles, Arena
<1>. QED BY <1>1, <1>2, <1>3, <1>4, <1>5, <1>6, <1>7, <1>8 DEF Next

\* An arena that has given out nothing.
LEMMA Start == Init => IInv
<1>. SUFFICES ASSUME Init PROVE IInv
  OBVIOUS
<1>1. slots = << >> /\ free = << >> /\ memo = << >> /\ frames = << >> /\ strays = {} /\ text \in [Keys -> Texts]
  BY DEF Init
<1>2. ArenaOK(Arena)
  <2>1. FreeIs(<< >>, << >>)
    BY DEF FreeIs
  <2>2. << >> \in Seq(Values \cup {Empty}) /\ << >> \in Seq(Nat)
    OBVIOUS
  <2>3. ArenaOK([slots |-> << >>, free |-> << >>])
    BY <2>1, <2>2 DEF ArenaOK
  <2>. QED BY <1>1, <2>3 DEF Arena
<1>3. OneFrame /\ DOMAIN Held = {}
  BY <1>1 DEF OneFrame, Held, Idle
<1>4. MemoOK /\ MemoHandles = {}
  BY <1>1 DEF MemoOK, MemoHandles
<1>5. \A h : AtIn(slots, h) = Empty
  BY <1>1 DEF AtIn
<1>6. Owners
  BY <1>1, <1>3, <1>4, <1>5 DEF Owners, OwnersIn
<1>. QED BY <1>1, <1>2, <1>3, <1>4, <1>6 DEF IInv

\* The invariant holds as long as compiled calls do not nest.
LEMMA Invariant == MaxNest = 1 /\ Spec => []IInv
<1>1. CASE MaxNest = 1
  <2>1. IInv /\ [Next]_vars => IInv'
    BY <1>1, Step
  <2>. QED BY <2>1, Start, PTL DEF Spec
<1>2. CASE MaxNest # 1
  BY <1>2
<1>. QED BY <1>1, <1>2

\* What registers believe is what the slots hold.
LEMMA NamedThen == IInv => RegistersNamed
<1>. SUFFICES ASSUME IInv, NEW i \in 1..Len(frames), NEW h \in DOMAIN frames[i].held
              PROVE  At(h) = frames[i].held[h]
  BY DEF RegistersNamed
<1>1. frames # << >> /\ i = 1
  BY DEF IInv, OneFrame
<1>2. h \in DOMAIN Held /\ frames[i].held = Held
  BY <1>1 DEF Held
<1>. QED BY <1>2, NamedAt DEF IInv, Owners, OwnersIn

\* No slot has two owners, and none that is live has no owner.
LEMMA OwnedThen == IInv => OwnedOnce
<1>. SUFFICES ASSUME IInv PROVE OwnedOnce
  OBVIOUS
<1>1. HeldHandles = DOMAIN Held
  <2>1. CASE frames = << >>
    BY <2>1 DEF HeldHandles, Held, Idle
  <2>2. CASE frames # << >>
    <3>1. frames = <<Top>> /\ Held = Top.held
      BY <2>2, TheTop DEF IInv
    <3>2. \A x : x \in HeldHandles <=> x \in DOMAIN Held
      BY <3>1 DEF HeldHandles
    <3>. QED BY <3>2
  <2>. QED BY <2>1, <2>2
<1>2. \A h : h \in Live <=> h \in Nat /\ AtIn(slots, h) # Empty
  <2>1. PICK s \in Seq(Values \cup {Empty}), f \in Seq(Nat) : Arena = [slots |-> s, free |-> f]
    BY DEF IInv, ArenaOK
  <2>2. Len(slots) \in Nat
    BY <2>1 DEF Arena
  <2>. QED BY <2>2 DEF Live, AtIn
<1>3. \A h : h \in Live <=> h \in MemoHandles \cup HeldHandles \cup strays
  <2>1. \A h \in DOMAIN Held : h \in Nat /\ AtIn(slots, h) # Empty
    BY DEF IInv, Owners, OwnersIn
  <2>. QED BY <1>1, <1>2, <2>1 DEF IInv, Owners, OwnersIn
<1>4. MemoHandles \cap HeldHandles = {} /\ strays \cap (MemoHandles \cup HeldHandles) = {}
  BY <1>1 DEF IInv, Owners, OwnersIn
<1>5. \A i, j \in 1..Len(memo) : memo[i].handle = memo[j].handle => i = j
  BY DEF IInv, MemoOK
<1>. QED BY <1>3, <1>4, <1>5 DEF OwnedOnce

\* The free stack has the empty slots, each once.
LEMMA FreeThen == IInv => FreeExact
<1>. SUFFICES ASSUME IInv PROVE FreeExact
  OBVIOUS
<1>1. PICK s \in Seq(Values \cup {Empty}), f \in Seq(Nat) : Arena = [slots |-> s, free |-> f] /\ FreeIs(s, f)
  BY DEF IInv, ArenaOK
<1>2. slots = s /\ free = f
  BY <1>1 DEF Arena
<1>3. \A x : x \in {f[i] : i \in 1..Len(f)} <=> x \in 1..Len(s) /\ s[x] = Empty
  <2>1. ASSUME NEW i \in 1..Len(f) PROVE f[i] \in 1..Len(s) /\ s[f[i]] = Empty
    BY <1>1 DEF FreeIs
  <2>2. ASSUME NEW x \in 1..Len(s), s[x] = Empty PROVE \E i \in 1..Len(f) : f[i] = x
    BY <1>1, <2>2 DEF FreeIs
  <2>. QED BY ONLY <2>1, <2>2
<1>4. \A x : x \in 1..Len(s) \ Live <=> x \in 1..Len(s) /\ s[x] = Empty
  BY <1>2 DEF Live
<1>5. {f[i] : i \in 1..Len(f)} = 1..Len(s) \ Live
  BY <1>3, <1>4
<1>6. \A i, j \in 1..Len(f) : f[i] = f[j] => i = j
  BY <1>1 DEF FreeIs
<1>. QED BY <1>2, <1>5, <1>6 DEF FreeExact

\* However slots are reused, strings grown in place and memo entries displaced,
\* a handle compiled code owns names the value it was given (Arena::keep,
\* release, take; jit_box_str; str_append), for any strings, addresses and
\* bounds, as long as no compiled call runs on top of another.
THEOREM HandlesNamed == MaxNest = 1 /\ Spec => []RegistersNamed
<1>. QED BY Invariant, NamedThen, PTL

\* A live slot has exactly one owner, so nothing is freed under a register and
\* nothing is parked for ever: what the memo displaces, what a store overwrites
\* and what a call leaves is let go of once (Arena::release, Arena::clear).
THEOREM SlotsOwned == MaxNest = 1 /\ Spec => []OwnedOnce
<1>. QED BY Invariant, OwnedThen, PTL

\* The free stack is the empty slots, each once (Arena::keep, Arena::release).
THEOREM FreeStackExact == MaxNest = 1 /\ Spec => []FreeExact
<1>. QED BY Invariant, FreeThen, PTL

\* The string jit_box_str hands to a native is the one at the address, although
\* the memo is keyed on the address and another string may have moved there.
THEOREM BoxedStringsFaithful == MaxNest = 1 /\ Spec => BoxedFaithful
<1>1. IInv /\ [Next]_vars =>
        [\A k \in Keys : BoxStr(k) =>
           \E e \in frames'[Len(frames)].lent : e.v = text[k] /\ slots'[e.h] = text[k]]_vars
  BY BoxedNow
<1>. QED BY <1>1, Invariant, PTL DEF Spec, BoxedFaithful
=============================================================================
