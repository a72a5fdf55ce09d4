---------------------------- MODULE MachineProofs ----------------------------
(***************************************************************************)
(* Proofs about the bytecode machine, for chunks of any length and number  *)
(* and any run of them: if every chunk is Sound (the verifier accepts it   *)
(* and it keeps scopes and handlers balanced, which the run vm checks of   *)
(* what the compiler emits), the machine keeps to what was worked out of   *)
(* them.  The invariant says of every frame, the running one, the callers  *)
(* inlined below it and the execs outside, what it has on the stack, the   *)
(* scopes and the handlers, each from where the frame below it ends:       *)
(* that is what a throw cuts back to, and what a return leaves.            *)
(***************************************************************************)
EXTENDS Machine, WellFoundedInduction, TLAPS

(***************************************************************************)
(* Sequences, of whatever.                                                 *)
(***************************************************************************)
Listed(s) == \E S : s \in Seq(S)

LEMMA ListedFacts ==
  ASSUME NEW s, Listed(s)
  PROVE  Len(s) \in Nat /\ DOMAIN s = 1..Len(s) /\ (s = << >> <=> Len(s) = 0)
BY DEF Listed

LEMMA Appended ==
  ASSUME NEW s, Listed(s), NEW e
  PROVE  /\ Listed(Append(s, e)) /\ Len(Append(s, e)) = Len(s) + 1
         /\ \A i \in 1..Len(s) : Append(s, e)[i] = s[i]
         /\ Append(s, e)[Len(s) + 1] = e
<1>1. PICK S : s \in Seq(S) BY DEF Listed
<1> DEFINE T == S \cup {e}
<1>2. s \in Seq(T) BY <1>1
<1>3. e \in T OBVIOUS
<1> HIDE DEF T
<1>4. Append(s, e) \in Seq(T) /\ Len(Append(s, e)) = Len(s) + 1 BY <1>2, <1>3
<1>5. \A i \in 1..Len(s) : Append(s, e)[i] = s[i] BY <1>2, <1>3
<1>6. Append(s, e)[Len(s) + 1] = e BY <1>2, <1>3
<1> QED BY <1>4, <1>5, <1>6 DEF Listed

LEMMA Cut ==
  ASSUME NEW s, Listed(s), NEW n \in Nat, n <= Len(s)
  PROVE  /\ Listed(Truncated(s, n)) /\ Len(Truncated(s, n)) = n
         /\ \A i \in 1..n : Truncated(s, n)[i] = s[i]
<1>1. PICK S : s \in Seq(S) BY DEF Listed
<1>2. Len(s) \in Nat BY <1>1
<1>3. Truncated(s, n) = SubSeq(s, 1, n) BY <1>2 DEF Truncated
<1>4. SubSeq(s, 1, n) \in Seq(S) BY <1>1, <1>2
<1>5. Len(SubSeq(s, 1, n)) = n BY <1>1, <1>2
<1>6. \A i \in 1..n : SubSeq(s, 1, n)[i] = s[i] BY <1>1, <1>2
<1> QED BY <1>3, <1>4, <1>5, <1>6 DEF Listed

LEMMA Fronted ==
  ASSUME NEW s, Listed(s), Len(s) > 0
  PROVE  /\ Listed(Front(s)) /\ Len(Front(s)) = Len(s) - 1
         /\ \A i \in 1..(Len(s) - 1) : Front(s)[i] = s[i]
         /\ Last(s) = s[Len(s)]
<1>1. Len(s) - 1 \in Nat /\ Len(s) - 1 <= Len(s) BY ListedFacts
<1>2. Front(s) = Truncated(s, Len(s) - 1) BY <1>1 DEF Front, Truncated
<1> QED BY <1>1, <1>2, Cut DEF Last

(***************************************************************************)
(* Chunks.                                                                 *)
(***************************************************************************)
Kept(fn) == CHOOSE keeps : Balanced(chunks[fn].code, chunks[fn].depths, keeps)
OpAt(fn, pc) == chunks[fn].code[pc].op
DepthAt(fn, pc) == chunks[fn].depths[pc]
Places(fn) == DOMAIN chunks[fn].depths

\* A sound chunk is verified, and balanced.
LEMMA KeptBalanced ==
  ASSUME AllSound, NEW fn \in DOMAIN chunks
  PROVE  /\ Verified(chunks[fn].code, chunks[fn].depths)
         /\ Balanced(chunks[fn].code, chunks[fn].depths, Kept(fn))
BY DEF AllSound, Sound, Kept

\* What is known of a place.
LEMMA AtPlace ==
  ASSUME AllSound, NEW fn \in DOMAIN chunks, NEW pc \in Places(fn)
  PROVE  /\ DepthAt(fn, pc) \in Nat /\ DepthAt(fn, pc) >= Pops(OpAt(fn, pc))
         /\ Kept(fn)[pc] \in Keeps /\ Kept(fn)[pc].scopes > 0
         /\ OpAt(fn, pc) = "popHandler" => Kept(fn)[pc].handlers # << >>
         /\ OpAt(fn, pc) = "returnNull" => DepthAt(fn, pc) = 0 /\ Kept(fn)[pc] = Fresh
         /\ Kept(fn)[pc].handlers # << >> => Landed(chunks[fn].code, chunks[fn].depths, Kept(fn), pc)
<1>1. Verified(chunks[fn].code, chunks[fn].depths) BY KeptBalanced
<1>2. Balanced(chunks[fn].code, chunks[fn].depths, Kept(fn)) BY KeptBalanced
<1>3. DepthAt(fn, pc) \in Nat /\ DepthAt(fn, pc) >= Pops(OpAt(fn, pc))
  BY <1>1 DEF Verified, DepthAt, OpAt, Places
<1>4. Kept(fn)[pc] \in Keeps BY <1>2 DEF Balanced, Places
<1> QED BY <1>2, <1>3, <1>4 DEF Balanced, DepthAt, OpAt, Places

\* Where an instruction goes on to, and with what.
LEMMA Through ==
  ASSUME AllSound, NEW fn \in DOMAIN chunks, NEW pc \in Places(fn), FallsThrough(OpAt(fn, pc))
  PROVE  /\ pc + 1 \in Places(fn)
         /\ DepthAt(fn, pc + 1) = DepthAt(fn, pc) - Pops(OpAt(fn, pc)) + Pushes(OpAt(fn, pc))
         /\ Kept(fn)[pc + 1] = Onwards(chunks[fn].code[pc], DepthAt(fn, pc), Kept(fn)[pc])
<1>1. Verified(chunks[fn].code, chunks[fn].depths) BY KeptBalanced
<1>2. Balanced(chunks[fn].code, chunks[fn].depths, Kept(fn)) BY KeptBalanced
<1> DEFINE d == DepthAt(fn, pc) - Pops(OpAt(fn, pc)) + Pushes(OpAt(fn, pc))
           o == Onwards(chunks[fn].code[pc], DepthAt(fn, pc), Kept(fn)[pc])
<1>3. <<pc + 1, d>> \in Flows(chunks[fn].code, pc, DepthAt(fn, pc)) BY DEF Flows, OpAt
<1>4. <<pc + 1, o>> \in Leads(chunks[fn].code, pc, DepthAt(fn, pc), Kept(fn)[pc]) BY DEF Leads, OpAt
<1>5. pc + 1 \in Places(fn) /\ DepthAt(fn, pc + 1) = d
  <2> HIDE DEF d
  <2> QED BY <1>1, <1>3 DEF Verified, Places, DepthAt
<1>6. Kept(fn)[pc + 1] = o
  <2> HIDE DEF o
  <2> QED BY <1>2, <1>4 DEF Balanced, Places, DepthAt
<1> QED BY <1>5, <1>6

LEMMA Aside ==
  ASSUME AllSound, NEW fn \in DOMAIN chunks, NEW pc \in Places(fn), OpAt(fn, pc) \in Branches
  PROVE  LET i == chunks[fn].code[pc]
         IN /\ i.to \in Places(fn)
            /\ DepthAt(fn, i.to) = Landing(i, DepthAt(fn, pc))
            /\ Kept(fn)[i.to] = Kept(fn)[pc]
<1>1. Verified(chunks[fn].code, chunks[fn].depths) BY KeptBalanced
<1>2. Balanced(chunks[fn].code, chunks[fn].depths, Kept(fn)) BY KeptBalanced
<1> DEFINE i == chunks[fn].code[pc]
           d == Landing(i, DepthAt(fn, pc))
           o == Kept(fn)[pc]
<1>3. <<i.to, d>> \in Flows(chunks[fn].code, pc, DepthAt(fn, pc)) BY DEF Flows, OpAt
<1>4. <<i.to, o>> \in Leads(chunks[fn].code, pc, DepthAt(fn, pc), Kept(fn)[pc]) BY DEF Leads, OpAt
<1>5. i.to \in Places(fn) /\ DepthAt(fn, i.to) = d
  <2> HIDE DEF d
  <2> QED BY <1>1, <1>3 DEF Verified, Places, DepthAt
<1>6. Kept(fn)[i.to] = o
  <2> HIDE DEF o
  <2> QED BY <1>2, <1>4 DEF Balanced, Places, DepthAt
<1> QED BY <1>5, <1>6

(***************************************************************************)
(* The state of the machine, frame by frame.                               *)
(***************************************************************************)
Fields == {"end", "v", "cur", "pc", "stack", "scopes", "frame", "base", "handlers", "calls"}

IsExec(m) ==
  /\ m = [f \in Fields |-> m[f]]
  /\ Listed(m.stack) /\ Listed(m.handlers) /\ Listed(m.calls)

Up(low, high) == low.stack <= high.stack /\ low.scopes <= high.scopes /\ low.handlers <= high.handlers
IsLevel(l) == l.stack \in Nat /\ l.scopes \in Nat /\ l.handlers \in Nat

\* The frames lie one on the other.
Piled(m) ==
  /\ \A i \in 0..Frames(m) : IsLevel(Level(m, i))
  /\ \A i, j \in 0..Frames(m) : i <= j => Up(Level(m, i), Level(m, j))

\* A handler of a frame, as the machine has it.
Raised(h, low) == [pc |-> h.pc, scopes |-> low.scopes + h.scopes, stack |-> low.stack + h.stack]

\* A frame, from low to high, that has what fn is to have at pc, but for some of
\* the operands of the instruction there.
Stands(handlers, fn, pc, taken, low, high) ==
  /\ fn \in DOMAIN chunks /\ pc \in Places(fn)
  /\ taken \in 0..Pops(OpAt(fn, pc))
  /\ high.stack + taken = low.stack + DepthAt(fn, pc)
  /\ high.scopes = low.scopes + Kept(fn)[pc].scopes
  /\ high.handlers = low.handlers + Len(Kept(fn)[pc].handlers)
  /\ \A j \in 1..Len(Kept(fn)[pc].handlers) : handlers[low.handlers + j] = Raised(Kept(fn)[pc].handlers[j], low)

\* The callers wait behind their calls, and none but the first can await.
Callers(m) ==
  \A i \in 1..Len(m.calls) :
    /\ \E pc : /\ m.calls[i].pc = pc + 1 /\ OpAt(m.calls[i].cur, pc) \in {"call", "callMethod"}
               /\ Stands(m.handlers, m.calls[i].cur, pc, 2, Level(m, i - 1), Level(m, i))
    /\ i > 1 => m.calls[i].cur \in Sync

Good(m) == IsExec(m) /\ Piled(m) /\ Callers(m)
TopAt(m, pc, taken) ==
  /\ Stands(m.handlers, m.cur, pc, taken, Below(m), Level(m, Frames(m)))
  /\ m.calls # << >> => m.cur \in Sync

Running(m) == Good(m) /\ m.end = "running" /\ TopAt(m, m.pc, 0)
Calling(m) ==
  /\ Good(m) /\ m.end = "running"
  /\ \E pc : m.pc = pc + 1 /\ OpAt(m.cur, pc) \in {"call", "callMethod"} /\ TopAt(m, pc, 2)
Awaiting(m) ==
  /\ Good(m) /\ m.calls = << >>
  /\ \E pc : m.pc = pc + 1 /\ OpAt(m.cur, pc) = "await" /\ TopAt(m, pc, 1)

IInv ==
  /\ AllSound
  /\ Listed(outer) /\ \A j \in 1..Len(outer) : Calling(outer[j])
  /\ exec.end \in {"running", "await", "done", "throw"}
  /\ exec.end = "running" => Running(exec)
  /\ exec.end = "await" => Awaiting(exec)

\* What lies above what lies above.
LEMMA UpTwice ==
  ASSUME NEW a, NEW b, NEW c, IsLevel(a), IsLevel(b), IsLevel(c), Up(a, b), Up(b, c)
  PROVE  Up(a, c)
<1>1. \A i, j, k \in Nat : i <= j /\ j <= k => i <= k OBVIOUS
<1>2. /\ a.stack \in Nat /\ a.scopes \in Nat /\ a.handlers \in Nat
      /\ b.stack \in Nat /\ b.scopes \in Nat /\ b.handlers \in Nat
      /\ c.stack \in Nat /\ c.scopes \in Nat /\ c.handlers \in Nat
  BY DEF IsLevel
<1>3. /\ a.stack <= b.stack /\ a.scopes <= b.scopes /\ a.handlers <= b.handlers
      /\ b.stack <= c.stack /\ b.scopes <= c.scopes /\ b.handlers <= c.handlers
  BY DEF Up
<1>4. a.stack <= c.stack /\ a.scopes <= c.scopes /\ a.handlers <= c.handlers BY <1>1, <1>2, <1>3, Zenon
<1> QED BY <1>4 DEF Up

\* Where frames end.
LEMMA LevelFacts ==
  ASSUME NEW m, IsExec(m)
  PROVE  /\ Len(m.calls) \in Nat /\ Frames(m) = Len(m.calls) + 1
         /\ Level(m, 0) = Bottom
         /\ \A i \in 1..Len(m.calls) : Level(m, i) = m.calls[i]
         /\ Level(m, Frames(m)) = [stack |-> Len(m.stack), scopes |-> m.scopes, handlers |-> Len(m.handlers)]
         /\ Len(m.stack) \in Nat /\ Len(m.handlers) \in Nat
<1>1. Len(m.calls) \in Nat /\ Len(m.stack) \in Nat /\ Len(m.handlers) \in Nat BY ListedFacts DEF IsExec
<1> QED BY <1>1 DEF Level, Frames

\* The same callers, and another top.
LEMMA SameCallers ==
  ASSUME AllSound, NEW m, NEW n, Good(m), IsExec(n), n.calls = m.calls,
         \A i \in 1..Below(m).handlers : n.handlers[i] = m.handlers[i],
         Len(n.stack) >= Below(m).stack, n.scopes \in Nat, n.scopes >= Below(m).scopes,
         Len(n.handlers) >= Below(m).handlers
  PROVE  Good(n) /\ Below(n) = Below(m) /\ Frames(n) = Frames(m) /\ IsLevel(Below(m))
<1> DEFINE c == Len(m.calls)
<1>1. IsExec(m) /\ Piled(m) /\ Callers(m) BY DEF Good
<1>2. c \in Nat /\ Frames(m) = c + 1 /\ Frames(n) = c + 1 BY <1>1, LevelFacts
<1>3. \A i \in 0..c : Level(n, i) = Level(m, i) BY <1>2 DEF Level
<1>4. Level(n, c + 1) = [stack |-> Len(n.stack), scopes |-> n.scopes, handlers |-> Len(n.handlers)]
  BY <1>2, LevelFacts
<1>5. Below(n) = Below(m) /\ Below(m) = Level(m, c) /\ IsLevel(Below(m)) BY <1>1, <1>2, <1>3 DEF Below, Piled
<1>6. IsLevel(Level(n, c + 1)) /\ Up(Below(m), Level(n, c + 1))
  <2>1. Len(n.stack) \in Nat /\ Len(n.handlers) \in Nat BY LevelFacts
  <2> QED BY <1>4, <2>1 DEF IsLevel, Up
<1> HIDE DEF c
<1>7. Piled(n)
  <2>1. \A i \in 0..(c + 1) : IsLevel(Level(n, i))
    <3>1. \A i \in 0..c : IsLevel(Level(n, i)) BY <1>1, <1>2, <1>3 DEF Piled
    <3> QED BY <1>2, <1>6, <3>1
  <2>2. ASSUME NEW i \in 0..(c + 1), NEW j \in 0..(c + 1), i <= j PROVE Up(Level(n, i), Level(n, j))
    <3>1. CASE j <= c BY <1>1, <1>2, <1>3, <2>2, <3>1 DEF Piled
    <3>2. CASE i <= c /\ j = c + 1
      <4>1. Up(Level(m, i), Below(m)) BY <1>1, <1>2, <1>5, <3>2 DEF Piled
      <4>2. Level(n, i) = Level(m, i) BY <1>2, <1>3, <3>2
      <4>3. IsLevel(Level(m, i)) /\ IsLevel(Below(m)) BY <1>1, <1>2, <1>5, <3>2 DEF Piled
      <4>4. IsLevel(Level(n, j)) /\ Up(Below(m), Level(n, j)) BY <1>6, <3>2
      <4> QED BY <4>1, <4>2, <4>3, <4>4, UpTwice
    <3>3. CASE i = c + 1 /\ j = c + 1 BY <1>6, <3>3 DEF Up, IsLevel
    <3> QED BY <1>2, <2>2, <3>1, <3>2, <3>3
  <2> QED BY <1>2, <2>1, <2>2 DEF Piled
<1>8. Callers(n)
  <2> SUFFICES ASSUME NEW i \in 1..c
               PROVE  /\ \E pc : /\ m.calls[i].pc = pc + 1 /\ OpAt(m.calls[i].cur, pc) \in {"call", "callMethod"}
                                 /\ Stands(n.handlers, m.calls[i].cur, pc, 2, Level(n, i - 1), Level(n, i))
                      /\ i > 1 => m.calls[i].cur \in Sync
    BY DEF Callers, c
  <2> DEFINE fn == m.calls[i].cur
  <2>1. PICK pc : /\ m.calls[i].pc = pc + 1 /\ OpAt(fn, pc) \in {"call", "callMethod"}
                  /\ Stands(m.handlers, fn, pc, 2, Level(m, i - 1), Level(m, i))
    BY <1>1 DEF Callers, c
  <2>2. Level(n, i - 1) = Level(m, i - 1) /\ Level(n, i) = Level(m, i) BY <1>2, <1>3
  <2>3. Up(Level(m, i), Below(m)) /\ IsLevel(Level(m, i)) /\ IsLevel(Level(m, i - 1)) BY <1>1, <1>2, <1>5 DEF Piled
  <2> DEFINE k == Len(Kept(fn)[pc].handlers)
  <2>4. Level(m, i).handlers = Level(m, i - 1).handlers + k BY <2>1 DEF Stands
  <2>5. \A j \in 1..k : n.handlers[Level(m, i - 1).handlers + j] = m.handlers[Level(m, i - 1).handlers + j]
    <3>1. k \in Nat BY <2>1, AtPlace DEF Stands, Keeps
    <3> SUFFICES ASSUME NEW j \in 1..k PROVE Level(m, i - 1).handlers + j \in 1..Below(m).handlers OBVIOUS
    <3> HIDE DEF k, fn
    <3>2. Level(m, i).handlers <= Below(m).handlers BY <2>3 DEF Up
    <3>3. Level(m, i).handlers \in Nat /\ Level(m, i - 1).handlers \in Nat /\ Below(m).handlers \in Nat BY <2>3, <1>5 DEF IsLevel
    <3> QED BY <2>4, <3>1, <3>2, <3>3
  <2>6. Stands(n.handlers, fn, pc, 2, Level(n, i - 1), Level(n, i)) BY <2>1, <2>2, <2>5 DEF Stands
  <2>7. i > 1 => fn \in Sync BY <1>1 DEF Callers, c
  <2> QED BY <2>1, <2>6, <2>7
<1> QED BY <1>2, <1>5, <1>7, <1>8 DEF Good

LEMMA PopsFew == \A o : Pops(o) \in 0..2 /\ Pushes(o) \in 0..2
BY DEF Pops, Pushes

\* What a frame at the top has.
LEMMA TopFacts ==
  ASSUME AllSound, NEW m, Good(m), NEW pc, NEW taken, TopAt(m, pc, taken)
  PROVE  /\ m.cur \in DOMAIN chunks /\ pc \in Places(m.cur) /\ taken \in 0..Pops(OpAt(m.cur, pc)) /\ taken \in Nat
         /\ IsLevel(Below(m)) /\ IsExec(m)
         /\ Len(m.stack) \in Nat /\ Len(m.stack) + taken = Below(m).stack + DepthAt(m.cur, pc)
         /\ m.scopes = Below(m).scopes + Kept(m.cur)[pc].scopes
         /\ Len(m.handlers) = Below(m).handlers + Len(Kept(m.cur)[pc].handlers)
         /\ Kept(m.cur)[pc].scopes \in Nat /\ Len(Kept(m.cur)[pc].handlers) \in Nat
         /\ DepthAt(m.cur, pc) \in Nat /\ DepthAt(m.cur, pc) >= Pops(OpAt(m.cur, pc))
         /\ Len(m.stack) >= Below(m).stack
<1>1. IsExec(m) /\ Piled(m) BY DEF Good
<1>2. Stands(m.handlers, m.cur, pc, taken, Below(m), Level(m, Frames(m))) BY DEF TopAt
<1>3. Level(m, Frames(m)) = [stack |-> Len(m.stack), scopes |-> m.scopes, handlers |-> Len(m.handlers)]
  BY <1>1, LevelFacts
<1>4. Len(m.calls) \in Nat /\ Frames(m) = Len(m.calls) + 1 /\ Len(m.stack) \in Nat BY <1>1, LevelFacts
<1>5. IsLevel(Below(m)) BY <1>1, <1>4 DEF Piled, Below
<1>6. m.cur \in DOMAIN chunks /\ pc \in Places(m.cur) /\ taken \in 0..Pops(OpAt(m.cur, pc)) /\ taken \in Nat
  BY <1>2, PopsFew DEF Stands
<1>7. /\ Len(m.stack) + taken = Below(m).stack + DepthAt(m.cur, pc)
      /\ m.scopes = Below(m).scopes + Kept(m.cur)[pc].scopes
      /\ Len(m.handlers) = Below(m).handlers + Len(Kept(m.cur)[pc].handlers)
  BY <1>2, <1>3 DEF Stands
<1>8. /\ Kept(m.cur)[pc].scopes \in Nat /\ Len(Kept(m.cur)[pc].handlers) \in Nat
      /\ DepthAt(m.cur, pc) \in Nat /\ DepthAt(m.cur, pc) >= Pops(OpAt(m.cur, pc))
  BY <1>6, AtPlace DEF Keeps
<1>9. Len(m.stack) >= Below(m).stack
  <2>1. taken <= Pops(OpAt(m.cur, pc)) /\ Pops(OpAt(m.cur, pc)) \in Nat BY <1>6, PopsFew
  <2>2. Below(m).stack \in Nat BY <1>5 DEF IsLevel
  <2> QED BY <1>4, <1>6, <1>7, <1>8, <2>1, <2>2
<1> QED BY <1>1, <1>4, <1>5, <1>6, <1>7, <1>8, <1>9

\* The running frame goes on at another place, with the scopes and handlers
\* it is to have there, the first of its handlers as they were.
LEMMA GoesOn ==
  ASSUME AllSound, NEW m, Good(m), NEW pc, NEW taken, TopAt(m, pc, taken),
         NEW n, IsExec(n), n.end = "running", n.calls = m.calls, n.cur = m.cur, n.pc \in Places(m.cur),
         Len(n.stack) = Below(m).stack + DepthAt(m.cur, n.pc),
         n.scopes = Below(m).scopes + Kept(m.cur)[n.pc].scopes,
         Len(n.handlers) = Below(m).handlers + Len(Kept(m.cur)[n.pc].handlers),
         \A i \in 1..Below(m).handlers : n.handlers[i] = m.handlers[i],
         \A j \in 1..Len(Kept(m.cur)[n.pc].handlers) :
           n.handlers[Below(m).handlers + j] = Raised(Kept(m.cur)[n.pc].handlers[j], Below(m))
  PROVE  Running(n)
<1>1. m.cur \in DOMAIN chunks /\ IsLevel(Below(m)) BY TopFacts
<1>2. /\ DepthAt(m.cur, n.pc) \in Nat /\ Kept(m.cur)[n.pc].scopes \in Nat /\ Len(Kept(m.cur)[n.pc].handlers) \in Nat
  BY <1>1, AtPlace DEF Keeps
<1>3. /\ Len(n.stack) >= Below(m).stack /\ n.scopes \in Nat /\ n.scopes >= Below(m).scopes
      /\ Len(n.handlers) >= Below(m).handlers
  BY <1>1, <1>2 DEF IsLevel
<1>4. Good(n) /\ Below(n) = Below(m) /\ Frames(n) = Frames(m) BY <1>3, SameCallers
<1>5. Level(n, Frames(n)) = [stack |-> Len(n.stack), scopes |-> n.scopes, handlers |-> Len(n.handlers)] BY LevelFacts
<1>6. 0 \in 0..Pops(OpAt(n.cur, n.pc)) BY PopsFew
<1>7. Len(n.stack) + 0 = Below(m).stack + DepthAt(m.cur, n.pc) BY <1>1, <1>2 DEF IsLevel
<1>8. Stands(n.handlers, n.cur, n.pc, 0, Below(n), Level(n, Frames(n))) BY <1>1, <1>4, <1>5, <1>6, <1>7 DEF Stands
<1> QED BY <1>4, <1>8 DEF Running, TopAt

\* Its scopes and handlers are the same.
LEMMA GoesOnSame ==
  ASSUME AllSound, NEW m, Good(m), NEW pc, NEW taken, TopAt(m, pc, taken),
         NEW n, IsExec(n), n.end = "running", n.calls = m.calls, n.cur = m.cur, n.pc \in Places(m.cur),
         n.scopes = m.scopes, n.handlers = m.handlers, Kept(m.cur)[n.pc] = Kept(m.cur)[pc],
         Len(n.stack) = Below(m).stack + DepthAt(m.cur, n.pc)
  PROVE  Running(n)
<1>1. /\ n.scopes = Below(m).scopes + Kept(m.cur)[n.pc].scopes
      /\ Len(n.handlers) = Below(m).handlers + Len(Kept(m.cur)[n.pc].handlers)
  BY TopFacts
<1>2. \A j \in 1..Len(Kept(m.cur)[n.pc].handlers) :
        n.handlers[Below(m).handlers + j] = Raised(Kept(m.cur)[n.pc].handlers[j], Below(m))
  BY DEF TopAt, Stands
<1> QED BY <1>1, <1>2, GoesOn

\* A throw lands at the innermost handler of the running frame.
LEMMA HandledRuns ==
  ASSUME AllSound, NEW m, Good(m), NEW pc, NEW taken, TopAt(m, pc, taken), m.end = "running",
         Kept(m.cur)[pc].handlers # << >>, NEW v
  PROVE  Running(Handled(m, v))
<1> DEFINE own == Kept(m.cur)[pc]
           k == Len(own.handlers)
           h == Last(own.handlers)
           low == Below(m)
           H == Last(m.handlers)
           n == Handled(m, v)
<1>1. /\ m.cur \in DOMAIN chunks /\ pc \in Places(m.cur) /\ taken \in 0..Pops(OpAt(m.cur, pc)) /\ taken \in Nat
      /\ IsLevel(low) /\ IsExec(m)
      /\ Len(m.stack) \in Nat /\ Len(m.stack) + taken = low.stack + DepthAt(m.cur, pc)
      /\ m.scopes = low.scopes + own.scopes /\ Len(m.handlers) = low.handlers + k
      /\ own.scopes \in Nat /\ k \in Nat /\ DepthAt(m.cur, pc) \in Nat
  BY TopFacts
<1>2. own \in Keeps /\ Landed(chunks[m.cur].code, chunks[m.cur].depths, Kept(m.cur), pc) BY <1>1, AtPlace
<1>3. own.handlers \in Seq([pc : Nat, scopes : Nat, stack : Nat]) BY <1>2 DEF Keeps
<1>4. Listed(own.handlers) BY <1>3 DEF Listed
<1>5. k > 0 BY <1>3
<1>6. /\ Listed(Front(own.handlers)) /\ Len(Front(own.handlers)) = k - 1
      /\ \A i \in 1..(k - 1) : Front(own.handlers)[i] = own.handlers[i]
      /\ h = own.handlers[k]
  BY <1>4, <1>5, Fronted
<1>7. h \in [pc : Nat, scopes : Nat, stack : Nat] /\ h.scopes \in Nat /\ h.stack \in Nat
  <2>1. k \in DOMAIN own.handlers BY <1>1, <1>4, <1>5, ListedFacts
  <2> DEFINE S == [pc : Nat, scopes : Nat, stack : Nat]
  <2>2. own.handlers \in Seq(S) BY <1>3
  <2>3. \A x \in S : x.scopes \in Nat /\ x.stack \in Nat OBVIOUS
  <2> HIDE DEF S, own, h
  <2>4. h \in S BY <1>6, <2>1, <2>2
  <2> QED BY <2>3, <2>4 DEF S
<1>8. /\ h.scopes <= own.scopes /\ h.stack + Pops(OpAt(m.cur, pc)) <= DepthAt(m.cur, pc)
      /\ h.pc \in Places(m.cur) /\ DepthAt(m.cur, h.pc) = h.stack + 1
      /\ Kept(m.cur)[h.pc] = [scopes |-> h.scopes, handlers |-> Front(own.handlers)]
  BY <1>2 DEF Landed, OpAt, DepthAt, Places
<1>9. \A j \in 1..k : m.handlers[low.handlers + j] = Raised(own.handlers[j], low) BY DEF TopAt, Stands
<1>10. low.handlers \in Nat /\ low.scopes \in Nat /\ low.stack \in Nat BY <1>1 DEF IsLevel
<1> HIDE DEF k, low, own, h
<1>11. Listed(m.handlers) /\ Listed(m.stack) /\ Len(m.handlers) > 0 BY <1>1, <1>5, <1>10 DEF IsExec
<1>12. /\ Listed(Front(m.handlers)) /\ Len(Front(m.handlers)) = Len(m.handlers) - 1
       /\ \A i \in 1..(Len(m.handlers) - 1) : Front(m.handlers)[i] = m.handlers[i]
       /\ H = m.handlers[Len(m.handlers)]
  BY <1>11, Fronted
<1>13. H = Raised(h, low) BY <1>1, <1>5, <1>6, <1>9, <1>10, <1>12
<1>14. H.pc = h.pc /\ H.scopes = low.scopes + h.scopes /\ H.stack = low.stack + h.stack BY <1>13 DEF Raised
<1>15. H.scopes <= m.scopes /\ H.scopes \in Nat
  <2>1. m.scopes = low.scopes + own.scopes /\ own.scopes \in Nat BY <1>1
  <2> QED BY <1>7, <1>8, <1>10, <1>14, <2>1
<1>16. H.stack <= Len(m.stack) /\ H.stack \in Nat
  <2>1. taken <= Pops(OpAt(m.cur, pc)) /\ Pops(OpAt(m.cur, pc)) \in Nat BY <1>1, PopsFew
  <2>2. /\ Len(m.stack) \in Nat /\ Len(m.stack) + taken = low.stack + DepthAt(m.cur, pc) /\ taken \in Nat
        /\ DepthAt(m.cur, pc) \in Nat
    BY <1>1
  <2>3. h.stack + Pops(OpAt(m.cur, pc)) <= DepthAt(m.cur, pc) /\ h.stack \in Nat /\ H.stack = low.stack + h.stack
    BY <1>7, <1>8, <1>14
  <2> HIDE DEF H
  <2> QED BY <1>10, <2>1, <2>2, <2>3
<1> HIDE DEF H
<1>17. Listed(Truncated(m.stack, H.stack)) /\ Len(Truncated(m.stack, H.stack)) = H.stack BY <1>11, <1>16, Cut
<1> DEFINE st == Append(Truncated(m.stack, H.stack), v)
<1>18. Listed(st) /\ Len(st) = H.stack + 1 BY <1>17, Appended
<1> HIDE DEF st
<1>19. /\ IsExec(n) /\ n.end = "running" /\ n.calls = m.calls /\ n.cur = m.cur /\ n.pc = H.pc
       /\ n.stack = st /\ n.handlers = Front(m.handlers) /\ n.scopes = H.scopes
  <2>1. n = [m EXCEPT !.handlers = Front(@), !.scopes = IF H.scopes < @ THEN H.scopes ELSE @, !.stack = st, !.pc = H.pc]
    BY DEF Handled, H, st
  <2>2. m = [f \in Fields |-> m[f]] /\ Listed(m.calls) BY <1>1 DEF IsExec
  <2>3. (IF H.scopes < m.scopes THEN H.scopes ELSE m.scopes) = H.scopes
    <3>1. m.scopes \in Nat BY <1>1, <1>10
    <3> QED BY <1>15, <3>1
  <2>4. n = [m EXCEPT !.handlers = Front(m.handlers), !.scopes = H.scopes, !.stack = st, !.pc = H.pc] BY <2>1, <2>3
  <2> HIDE DEF n
  <2>5. n = [f \in Fields |-> n[f]] BY <2>2, <2>4 DEF Fields
  <2>6. /\ n.end = m.end /\ n.calls = m.calls /\ n.cur = m.cur /\ n.pc = H.pc
        /\ n.stack = st /\ n.handlers = Front(m.handlers) /\ n.scopes = H.scopes
    BY <2>2, <2>4 DEF Fields
  <2> QED BY <1>12, <1>18, <2>2, <2>5, <2>6 DEF IsExec
<1> HIDE DEF n
<1>20. Kept(m.cur)[n.pc].scopes = h.scopes /\ Kept(m.cur)[n.pc].handlers = Front(own.handlers) BY <1>8, <1>14, <1>19
<1>21. n.pc \in Places(m.cur) /\ Len(n.stack) = low.stack + DepthAt(m.cur, n.pc) BY <1>7, <1>8, <1>10, <1>14, <1>18, <1>19
<1>22. n.scopes = low.scopes + Kept(m.cur)[n.pc].scopes BY <1>14, <1>19, <1>20
<1>23. Len(n.handlers) = low.handlers + Len(Kept(m.cur)[n.pc].handlers)
  <2>1. Len(m.handlers) = low.handlers + k /\ k \in Nat BY <1>1
  <2>2. Len(n.handlers) = Len(m.handlers) - 1 BY <1>12, <1>19
  <2>3. Len(Kept(m.cur)[n.pc].handlers) = k - 1 BY <1>6, <1>20
  <2> QED BY <1>10, <2>1, <2>2, <2>3
<1>24. \A i \in 1..low.handlers : n.handlers[i] = m.handlers[i]
  <2>1. low.handlers <= Len(m.handlers) - 1 /\ Len(m.handlers) \in Nat
    <3>1. Len(m.handlers) = low.handlers + k /\ k \in Nat BY <1>1
    <3> QED BY <1>5, <1>10, <3>1
  <2>2. \A i \in 1..low.handlers : i \in 1..(Len(m.handlers) - 1) BY <1>10, <2>1
  <2> QED BY <1>12, <1>19, <2>2
<1>25. \A j \in 1..Len(Kept(m.cur)[n.pc].handlers) :
         n.handlers[low.handlers + j] = Raised(Kept(m.cur)[n.pc].handlers[j], low)
  <2> SUFFICES ASSUME NEW j \in 1..(k - 1) PROVE n.handlers[low.handlers + j] = Raised(own.handlers[j], low)
    BY <1>6, <1>20
  <2>1. low.handlers + j \in 1..(Len(m.handlers) - 1)
    <3>1. Len(m.handlers) = low.handlers + k /\ k \in Nat /\ low.handlers \in Nat BY <1>1, <1>10
    <3> HIDE DEF k
    <3> QED BY <3>1
  <2>2. n.handlers[low.handlers + j] = m.handlers[low.handlers + j] BY <1>12, <1>19, <2>1
  <2>3. m.handlers[low.handlers + j] = Raised(own.handlers[j], low) BY <1>1, <1>9
  <2>4. Front(own.handlers)[j] = own.handlers[j] BY <1>6
  <2> QED BY <2>2, <2>3
<1>26. Running(n) BY <1>19, <1>21, <1>22, <1>23, <1>24, <1>25, GoesOn DEF low
<1> QED BY <1>26 DEF n

\* Down to a caller, and it is as at its call.
LEMMA UnwoundCalls ==
  ASSUME AllSound, NEW m, Good(m), m.end = "running", NEW i \in 1..Len(m.calls)
  PROVE  /\ Calling(Unwound(m, i))
         /\ Len(Unwound(m, i).handlers) = Level(m, i).handlers /\ Below(Unwound(m, i)) = Level(m, i - 1)
<1> DEFINE n == Unwound(m, i)
           f == m.calls[i]
           fn == f.cur
           low == Level(m, i - 1)
<1>1. IsExec(m) /\ Piled(m) /\ Callers(m) BY DEF Good
<1>2. /\ Len(m.calls) \in Nat /\ Frames(m) = Len(m.calls) + 1
      /\ \A j \in 1..Len(m.calls) : Level(m, j) = m.calls[j]
      /\ Level(m, Frames(m)) = [stack |-> Len(m.stack), scopes |-> m.scopes, handlers |-> Len(m.handlers)]
  BY <1>1, LevelFacts
<1>3. IsLevel(f) /\ IsLevel(low) /\ f.stack <= Len(m.stack) /\ f.handlers <= Len(m.handlers)
  <2>1. i \in 0..Frames(m) /\ Frames(m) \in 0..Frames(m) /\ i - 1 \in 0..Frames(m) /\ i <= Frames(m) BY <1>2
  <2>2. Up(f, Level(m, Frames(m))) /\ IsLevel(f) /\ IsLevel(low) BY <1>1, <1>2, <2>1 DEF Piled
  <2> QED BY <1>2, <2>2 DEF Up
<1>4. PICK pc : /\ f.pc = pc + 1 /\ OpAt(fn, pc) \in {"call", "callMethod"}
                /\ Stands(m.handlers, fn, pc, 2, low, Level(m, i))
  BY <1>1 DEF Callers
<1>5. i > 1 => fn \in Sync BY <1>1 DEF Callers
<1>6. m = [x \in Fields |-> m[x]] /\ Listed(m.stack) /\ Listed(m.handlers) /\ Listed(m.calls) BY <1>1 DEF IsExec
<1>7. Listed(Truncated(m.stack, f.stack)) /\ Len(Truncated(m.stack, f.stack)) = f.stack BY <1>3, <1>6, Cut DEF IsLevel
<1>8. /\ Listed(Truncated(m.handlers, f.handlers)) /\ Len(Truncated(m.handlers, f.handlers)) = f.handlers
      /\ \A j \in 1..f.handlers : Truncated(m.handlers, f.handlers)[j] = m.handlers[j]
  BY <1>3, <1>6, Cut DEF IsLevel
<1>9. /\ Listed(Truncated(m.calls, i - 1)) /\ Len(Truncated(m.calls, i - 1)) = i - 1
      /\ \A j \in 1..(i - 1) : Truncated(m.calls, i - 1)[j] = m.calls[j]
  <2>1. i - 1 \in Nat /\ i - 1 <= Len(m.calls) BY <1>2
  <2> QED BY <1>6, <2>1, Cut
<1>10. /\ n = [x \in Fields |-> n[x]] /\ n.end = m.end /\ n.cur = f.cur /\ n.pc = f.pc /\ n.scopes = f.scopes
       /\ n.stack = Truncated(m.stack, f.stack) /\ n.handlers = Truncated(m.handlers, f.handlers)
       /\ n.calls = Truncated(m.calls, i - 1)
  <2>1. i # Frames(m) BY <1>2
  <2> DEFINE frame == Truncated(m.frame, IF i = Len(m.calls) THEN m.base ELSE m.calls[i + 1].base)
  <2>2. n = [m EXCEPT !.frame = frame, !.scopes = f.scopes,
                      !.handlers = Truncated(m.handlers, f.handlers), !.stack = Truncated(m.stack, f.stack),
                      !.cur = f.cur, !.pc = f.pc, !.base = f.base, !.calls = Truncated(m.calls, i - 1)]
    BY <2>1 DEF Unwound
  <2> HIDE DEF n, frame, f
  <2> QED BY <1>6, <2>2 DEF Fields
<1> HIDE DEF n, f, low
<1>11. IsExec(n) BY <1>7, <1>8, <1>9, <1>10 DEF IsExec
<1>12. /\ Frames(n) = i /\ Len(n.calls) = i - 1
       /\ \A j \in 0..(i - 1) : Level(n, j) = Level(m, j)
       /\ Level(n, i) = [stack |-> f.stack, scopes |-> f.scopes, handlers |-> f.handlers]
  <2>1. Len(n.calls) = i - 1 /\ Frames(n) = i BY <1>2, <1>9, <1>10 DEF Frames
  <2>2. \A j \in 0..(i - 1) : Level(n, j) = Level(m, j) BY <1>2, <1>9, <1>10, <2>1 DEF Level
  <2>3. Level(n, i) = [stack |-> f.stack, scopes |-> f.scopes, handlers |-> f.handlers]
    BY <1>7, <1>8, <1>10, <1>11, <2>1, LevelFacts
  <2> QED BY <2>1, <2>2, <2>3
<1>13. Below(n) = low BY <1>12 DEF Below, low
<1>14. Level(n, i).stack = f.stack /\ Level(n, i).scopes = f.scopes /\ Level(n, i).handlers = f.handlers /\ Level(m, i) = f
  BY <1>2, <1>12 DEF f
<1>15. Piled(n)
  <2>1. ASSUME NEW j \in 0..i
        PROVE  /\ Level(n, j).stack = Level(m, j).stack /\ Level(n, j).scopes = Level(m, j).scopes
               /\ Level(n, j).handlers = Level(m, j).handlers /\ j \in 0..Frames(m)
    <3>1. j \in 0..Frames(m) BY <1>2
    <3>2. CASE j = i BY <1>14, <3>1, <3>2
    <3>3. CASE j \in 0..(i - 1) BY <1>12, <3>1, <3>3
    <3> QED BY <1>2, <3>2, <3>3
  <2>2. \A j \in 0..i : IsLevel(Level(n, j)) BY <1>1, <2>1 DEF Piled, IsLevel
  <2>3. ASSUME NEW j \in 0..i, NEW l \in 0..i, j <= l PROVE Up(Level(n, j), Level(n, l))
    <3>1. Up(Level(m, j), Level(m, l)) BY <1>1, <2>1, <2>3 DEF Piled
    <3> QED BY <2>1, <3>1 DEF Up
  <2> QED BY <1>12, <2>2, <2>3 DEF Piled
\* What the frames up to it have on the handlers is still there.
<1>16. ASSUME NEW j \in 1..i, NEW p, NEW g, Stands(m.handlers, g, p, 2, Level(m, j - 1), Level(m, j))
       PROVE  Stands(n.handlers, g, p, 2, Level(n, j - 1), Level(n, j))
  <2>1. g \in DOMAIN chunks /\ p \in Places(g) BY <1>16 DEF Stands
  <2> DEFINE k == Len(Kept(g)[p].handlers)
  <2>2. k \in Nat BY <2>1, AtPlace DEF Keeps
  <2>3. Level(m, j).handlers = Level(m, j - 1).handlers + k BY <1>16 DEF Stands
  <2>4. IsLevel(Level(m, j)) /\ IsLevel(Level(m, j - 1)) /\ Up(Level(m, j), f) BY <1>1, <1>2, <1>14 DEF Piled
  <2>5. Level(n, j - 1) = Level(m, j - 1) BY <1>12
  <2>6. /\ Level(n, j).stack = Level(m, j).stack /\ Level(n, j).scopes = Level(m, j).scopes
        /\ Level(n, j).handlers = Level(m, j).handlers
    <3>1. CASE j = i BY <1>14, <3>1
    <3>2. CASE j \in 0..(i - 1) BY <1>12, <3>2
    <3> QED BY <1>2, <3>1, <3>2
  <2>7. ASSUME NEW h \in 1..k PROVE n.handlers[Level(m, j - 1).handlers + h] = m.handlers[Level(m, j - 1).handlers + h]
    <3> HIDE DEF k
    <3>1. Level(m, j).handlers <= f.handlers BY <2>4 DEF Up
    <3>2. Level(m, j).handlers \in Nat /\ Level(m, j - 1).handlers \in Nat /\ f.handlers \in Nat BY <1>3, <2>4 DEF IsLevel
    <3>3. Level(m, j - 1).handlers + h \in 1..f.handlers BY <2>2, <2>3, <3>1, <3>2
    <3> QED BY <1>8, <1>10, <3>3
  <2> QED BY <1>16, <2>5, <2>6, <2>7 DEF Stands
<1>17. Callers(n)
  <2> SUFFICES ASSUME NEW j \in 1..Len(n.calls)
               PROVE  /\ \E p : /\ n.calls[j].pc = p + 1 /\ OpAt(n.calls[j].cur, p) \in {"call", "callMethod"}
                                /\ Stands(n.handlers, n.calls[j].cur, p, 2, Level(n, j - 1), Level(n, j))
                      /\ j > 1 => n.calls[j].cur \in Sync
    BY DEF Callers
  <2>1. j \in 1..(i - 1) /\ j \in 1..i /\ j \in 1..Len(m.calls) BY <1>2, <1>12
  <2>2. n.calls[j] = m.calls[j] BY <1>9, <1>10, <2>1
  <2>3. PICK p : /\ m.calls[j].pc = p + 1 /\ OpAt(m.calls[j].cur, p) \in {"call", "callMethod"}
                 /\ Stands(m.handlers, m.calls[j].cur, p, 2, Level(m, j - 1), Level(m, j))
    BY <1>1, <2>1 DEF Callers
  <2>4. j > 1 => m.calls[j].cur \in Sync BY <1>1, <2>1 DEF Callers
  <2>5. Stands(n.handlers, m.calls[j].cur, p, 2, Level(n, j - 1), Level(n, j)) BY <1>16, <2>1, <2>3
  <2> QED BY <2>2, <2>3, <2>4, <2>5
<1>18. TopAt(n, pc, 2)
  <2>1. Stands(n.handlers, fn, pc, 2, low, Level(n, i))
    <3>1. i \in 1..i /\ Level(n, i - 1) = low BY <1>12 DEF low
    <3> QED BY <1>4, <1>16, <3>1 DEF low
  <2>2. n.calls # << >> => i > 1 BY <1>10, <1>12, ListedFacts, <1>9
  <2> QED BY <1>5, <1>10, <1>12, <1>13, <2>1, <2>2 DEF TopAt
<1>19. Good(n) BY <1>11, <1>15, <1>17 DEF Good
<1>20. Calling(n) BY <1>4, <1>10, <1>18, <1>19 DEF Calling
<1> QED BY <1>8, <1>10, <1>13, <1>14, <1>20 DEF n, low

\* A set with a bound has a greatest member.
LEMMA Greatest ==
  ASSUME NEW c \in Nat, NEW A, A \subseteq 0..c, A # {}
  PROVE  Max(A) \in A
<1> DEFINE N == {c - x : x \in A}
           R == OpToRel(<, Nat)
<1>1. IsWellFoundedOn(R, Nat) BY NatLessThanWellFounded
<1>2. N \subseteq Nat /\ N # {}
  <2>1. \A x \in A : c - x \in Nat
    <3> SUFFICES ASSUME NEW x \in A PROVE c - x \in Nat OBVIOUS
    <3>1. x \in 0..c OBVIOUS
    <3> QED BY <3>1
  <2> QED BY <2>1
<1>3. \A l, p \in Nat : l < p => <<l, p>> \in R BY DEF OpToRel
<1> HIDE DEF R, N
<1>4. PICK least \in N : \A l \in N : ~(<<l, least>> \in R) BY <1>1, <1>2, WFMin
<1>5. PICK x \in A : least = c - x BY <1>4 DEF N
<1>6. \A y \in A : x >= y
  <2> SUFFICES ASSUME NEW y \in A PROVE x >= y OBVIOUS
  <2>1. c - y \in N BY DEF N
  <2>2. ~(c - y < least) BY <1>2, <1>3, <1>4, <2>1
  <2>3. x \in 0..c /\ y \in 0..c OBVIOUS
  <2> QED BY <1>5, <2>2, <2>3
<1> QED BY <1>6 DEF Max

\* A throw lands at a handler, of this frame or of a caller, or gets out.
LEMMA ThrownRuns ==
  ASSUME AllSound, NEW m, Good(m), NEW pc, NEW taken, TopAt(m, pc, taken), m.end = "running", NEW v
  PROVE  Running(Thrown(m, v)) \/ Thrown(m, v).end = "throw"
<1> DEFINE armed == {i \in 1..Frames(m) : Armed(m, i)}
<1>1. IsExec(m) /\ Piled(m) BY DEF Good
<1>2. /\ Len(m.calls) \in Nat /\ Frames(m) = Len(m.calls) + 1
      /\ Level(m, Frames(m)).handlers = Len(m.handlers) /\ Frames(m) \in Nat
  BY <1>1, LevelFacts
<1>3. CASE armed = {}
  <2>1. Thrown(m, v) = GivenBack(Unwound(m, 1), "throw", v) BY <1>3 DEF Thrown
  <2>2. IsExec(Unwound(m, 1))
    <3>1. CASE Frames(m) = 1 BY <1>1, <3>1 DEF Unwound
    <3>2. CASE 1 \in 1..Len(m.calls) BY <3>2, UnwoundCalls DEF Calling, Good
    <3> QED BY <1>2, <3>1, <3>2
  <2> QED BY <2>1, <2>2 DEF GivenBack, IsExec, Fields
<1>4. CASE armed # {}
  <2> DEFINE i == Max(armed)
             n == Unwound(m, i)
  <2>1. i \in armed
    <3>1. armed \subseteq 0..Frames(m) BY <1>2
    <3> HIDE DEF armed
    <3> QED BY <1>2, <1>4, <3>1, Greatest
  <2>2. Thrown(m, v) = Handled(n, v) BY <1>4 DEF Thrown
  <2> HIDE DEF i
  <2>3. i \in 1..Frames(m) /\ Level(m, i).handlers > Level(m, i - 1).handlers BY <2>1 DEF Armed
  <2>4. \E p, t : Good(n) /\ TopAt(n, p, t) /\ n.end = "running" /\ Kept(n.cur)[p].handlers # << >>
    <3>1. CASE i = Frames(m)
      <4>1. n = m BY <3>1 DEF Unwound
      <4>2. Len(m.handlers) > Below(m).handlers BY <1>2, <2>3, <3>1 DEF Below
      <4>3. Len(Kept(m.cur)[pc].handlers) # 0
        <5>1. Len(m.handlers) = Below(m).handlers + Len(Kept(m.cur)[pc].handlers) /\ IsLevel(Below(m)) BY TopFacts
        <5> QED BY <4>2, <5>1 DEF IsLevel
      <4>4. Kept(m.cur)[pc].handlers # << >> BY <4>3
      <4> QED BY <4>1, <4>4
    <3>2. CASE i \in 1..Len(m.calls)
      <4>1. /\ Calling(n) /\ Len(n.handlers) = Level(m, i).handlers /\ Below(n) = Level(m, i - 1) BY <3>2, UnwoundCalls
      <4>2. PICK p : TopAt(n, p, 2) BY <4>1 DEF Calling
      <4>3. Good(n) /\ n.end = "running" BY <4>1 DEF Calling
      <4>4. Len(Kept(n.cur)[p].handlers) # 0
        <5>1. Len(n.handlers) = Below(n).handlers + Len(Kept(n.cur)[p].handlers) /\ IsLevel(Below(n)) BY <4>2, <4>3, TopFacts
        <5> QED BY <2>3, <4>1, <5>1 DEF IsLevel
      <4>5. Kept(n.cur)[p].handlers # << >> BY <4>4
      <4> QED BY <4>2, <4>3, <4>5
    <3> QED BY <1>2, <2>3, <3>1, <3>2
  <2> HIDE DEF n
  <2> QED BY <2>2, <2>4, HandledRuns
<1> QED BY <1>3, <1>4

\* A call that ends puts its value where the caller's operands were.
LEMMA PushedRuns ==
  ASSUME AllSound, NEW m, Calling(m), NEW v
  PROVE  Running(Push(m, v))
<1> DEFINE n == Push(m, v)
<1>1. PICK pc : m.pc = pc + 1 /\ OpAt(m.cur, pc) \in {"call", "callMethod"} /\ TopAt(m, pc, 2) BY DEF Calling
<1>2. Good(m) /\ m.end = "running" BY DEF Calling
<1>3. /\ m.cur \in DOMAIN chunks /\ pc \in Places(m.cur) /\ IsLevel(Below(m)) /\ IsExec(m)
      /\ Len(m.stack) \in Nat /\ Len(m.stack) + 2 = Below(m).stack + DepthAt(m.cur, pc) /\ DepthAt(m.cur, pc) \in Nat
  BY <1>1, <1>2, TopFacts
<1>4. /\ pc + 1 \in Places(m.cur) /\ DepthAt(m.cur, pc + 1) = DepthAt(m.cur, pc) - 2 + 1
      /\ Kept(m.cur)[pc + 1] = Kept(m.cur)[pc]
  <2>1. FallsThrough(OpAt(m.cur, pc)) BY <1>1 DEF FallsThrough
  <2>2. Pops(OpAt(m.cur, pc)) = 2 /\ Pushes(OpAt(m.cur, pc)) = 1 BY <1>1 DEF Pops, Pushes
  <2>3. Onwards(chunks[m.cur].code[pc], DepthAt(m.cur, pc), Kept(m.cur)[pc]) = Kept(m.cur)[pc]
    BY <1>1 DEF Onwards, OpAt
  <2> QED BY <1>3, <2>1, <2>2, <2>3, Through
<1>5. Listed(m.stack) /\ m = [x \in Fields |-> m[x]] /\ Listed(m.handlers) /\ Listed(m.calls) BY <1>3 DEF IsExec
<1>6. Listed(Append(m.stack, v)) /\ Len(Append(m.stack, v)) = Len(m.stack) + 1 BY <1>5, Appended
<1>7. /\ n = [x \in Fields |-> n[x]] /\ n.stack = Append(m.stack, v) /\ n.end = m.end /\ n.calls = m.calls
      /\ n.cur = m.cur /\ n.pc = m.pc /\ n.scopes = m.scopes /\ n.handlers = m.handlers
  BY <1>5 DEF Push, Fields
<1> HIDE DEF n
<1>8. IsExec(n) BY <1>5, <1>6, <1>7 DEF IsExec
<1>9. Len(n.stack) = Below(m).stack + DepthAt(m.cur, n.pc)
  <2>1. Len(n.stack) = Len(m.stack) + 1 /\ DepthAt(m.cur, n.pc) = DepthAt(m.cur, pc) - 2 + 1 BY <1>1, <1>4, <1>6, <1>7
  <2>2. Below(m).stack \in Nat BY <1>3 DEF IsLevel
  <2> QED BY <1>3, <2>1, <2>2
<1>10. Running(n) BY <1>1, <1>2, <1>4, <1>7, <1>8, <1>9, GoesOnSame
<1> QED BY <1>10 DEF n

(***************************************************************************)
(* Steps within the running frame.                                         *)
(***************************************************************************)
\* All but the place, the stack and the locals.
Alike(n, m) ==
  /\ IsExec(n)
  /\ n.end = m.end /\ n.calls = m.calls /\ n.cur = m.cur /\ n.scopes = m.scopes /\ n.handlers = m.handlers

LEMMA PastAlike ==
  ASSUME IsExec(exec)
  PROVE  Alike(Past, exec) /\ Past.stack = exec.stack /\ Past.pc = exec.pc + 1
<1> DEFINE n == Past
<1>1. exec = [f \in Fields |-> exec[f]] /\ Listed(exec.stack) /\ Listed(exec.handlers) /\ Listed(exec.calls)
  BY DEF IsExec
<1>2. n = [f \in Fields |-> n[f]] /\ \A f \in Fields \ {"pc"} : n[f] = exec[f] BY <1>1 DEF Past, Fields
<1>3. n.pc = exec.pc + 1 BY <1>1 DEF Past, Fields
<1> QED BY <1>1, <1>2, <1>3 DEF Alike, IsExec, Fields

LEMMA JumpAlike ==
  ASSUME NEW m, NEW n, Alike(n, m), NEW pc
  PROVE  Alike(Jump(n, pc), m) /\ Jump(n, pc).stack = n.stack /\ Jump(n, pc).pc = pc
<1> DEFINE r == Jump(n, pc)
<1>1. n = [f \in Fields |-> n[f]] /\ Listed(n.stack) /\ Listed(n.handlers) /\ Listed(n.calls) BY DEF Alike, IsExec
<1>2. r = [f \in Fields |-> r[f]] /\ \A f \in Fields \ {"pc"} : r[f] = n[f] BY <1>1 DEF Jump, Fields
<1>3. r.pc = pc BY <1>1 DEF Jump, Fields
<1> HIDE DEF r
<1>4. Alike(r, m) /\ r.stack = n.stack /\ r.pc = pc BY <1>1, <1>2, <1>3 DEF Alike, IsExec, Fields
<1> QED BY <1>4 DEF r

LEMMA SetAlike ==
  ASSUME NEW m, NEW n, Alike(n, m), NEW k, NEW v
  PROVE  Alike(SetLocal(n, k, v), m) /\ SetLocal(n, k, v).stack = n.stack /\ SetLocal(n, k, v).pc = n.pc
<1> DEFINE r == SetLocal(n, k, v)
<1>1. n = [f \in Fields |-> n[f]] /\ Listed(n.stack) /\ Listed(n.handlers) /\ Listed(n.calls) BY DEF Alike, IsExec
<1>2. r = [f \in Fields |-> r[f]] /\ \A f \in Fields \ {"frame"} : r[f] = n[f]
  <2> DEFINE frame == [n.frame EXCEPT ![n.base + k] = v]
  <2>1. r = [n EXCEPT !.frame = frame] BY DEF SetLocal
  <2> HIDE DEF frame, r
  <2> QED BY <1>1, <2>1 DEF Fields
<1> HIDE DEF r
<1>3. Alike(r, m) /\ r.stack = n.stack /\ r.pc = n.pc BY <1>1, <1>2 DEF Alike, IsExec, Fields
<1> QED BY <1>3 DEF r

LEMMA PushAlike ==
  ASSUME NEW m, NEW n, Alike(n, m), NEW v
  PROVE  Alike(Push(n, v), m) /\ Len(Push(n, v).stack) = Len(n.stack) + 1 /\ Push(n, v).pc = n.pc
<1> DEFINE r == Push(n, v)
<1>1. n = [f \in Fields |-> n[f]] /\ Listed(n.stack) /\ Listed(n.handlers) /\ Listed(n.calls) BY DEF Alike, IsExec
<1>2. r = [f \in Fields |-> r[f]] /\ r.stack = Append(n.stack, v) /\ \A f \in Fields \ {"stack"} : r[f] = n[f]
  BY <1>1 DEF Push, Fields
<1>3. Listed(Append(n.stack, v)) /\ Len(Append(n.stack, v)) = Len(n.stack) + 1 BY <1>1, Appended
<1> HIDE DEF r
<1>4. Alike(r, m) /\ Len(r.stack) = Len(n.stack) + 1 /\ r.pc = n.pc BY <1>1, <1>2, <1>3 DEF Alike, IsExec, Fields
<1> QED BY <1>4 DEF r

LEMMA PopAlike ==
  ASSUME NEW m, NEW n, Alike(n, m), Len(n.stack) > 0
  PROVE  Alike(Pop(n), m) /\ Len(Pop(n).stack) = Len(n.stack) - 1 /\ Pop(n).pc = n.pc
<1> DEFINE r == Pop(n)
<1>1. n = [f \in Fields |-> n[f]] /\ Listed(n.stack) /\ Listed(n.handlers) /\ Listed(n.calls) BY DEF Alike, IsExec
<1>2. r = [f \in Fields |-> r[f]] /\ r.stack = Front(n.stack) /\ \A f \in Fields \ {"stack"} : r[f] = n[f]
  BY <1>1 DEF Pop, Fields
<1>3. Listed(Front(n.stack)) /\ Len(Front(n.stack)) = Len(n.stack) - 1 BY <1>1, Fronted
<1> HIDE DEF r
<1>4. Alike(r, m) /\ Len(r.stack) = Len(n.stack) - 1 /\ r.pc = n.pc BY <1>1, <1>2, <1>3 DEF Alike, IsExec, Fields
<1> QED BY <1>4 DEF r

\* Where the machine is.
LEMMA Here ==
  ASSUME IInv, NEW o, At(o)
  PROVE  /\ AllSound /\ Good(exec) /\ IsExec(exec) /\ Alike(exec, exec) /\ exec.end = "running" /\ TopAt(exec, exec.pc, 0)
         /\ exec.cur \in DOMAIN chunks /\ exec.pc \in Places(exec.cur)
         /\ OpAt(exec.cur, exec.pc) = o /\ Instr = chunks[exec.cur].code[exec.pc]
         /\ Below(exec).stack \in Nat /\ DepthAt(exec.cur, exec.pc) \in Nat
         /\ Len(exec.stack) = Below(exec).stack + DepthAt(exec.cur, exec.pc)
         /\ Len(exec.stack) >= Pops(o) /\ DepthAt(exec.cur, exec.pc) >= Pops(o) /\ Len(exec.stack) \in Nat
<1>1. AllSound /\ exec.end = "running" /\ Running(exec) BY DEF IInv, At
<1>2. Good(exec) /\ TopAt(exec, exec.pc, 0) BY <1>1 DEF Running
<1>3. OpAt(exec.cur, exec.pc) = o /\ Instr = chunks[exec.cur].code[exec.pc] BY DEF At, Instr, OpAt
<1>4. /\ exec.cur \in DOMAIN chunks /\ exec.pc \in Places(exec.cur) /\ IsLevel(Below(exec)) /\ IsExec(exec)
      /\ Len(exec.stack) \in Nat /\ Len(exec.stack) + 0 = Below(exec).stack + DepthAt(exec.cur, exec.pc)
      /\ DepthAt(exec.cur, exec.pc) \in Nat /\ DepthAt(exec.cur, exec.pc) >= Pops(OpAt(exec.cur, exec.pc))
  BY <1>1, <1>2, TopFacts
<1>5. Below(exec).stack \in Nat /\ Pops(o) \in Nat BY <1>4, PopsFew DEF IsLevel
<1>6. Len(exec.stack) = Below(exec).stack + DepthAt(exec.cur, exec.pc) /\ Len(exec.stack) >= Pops(o)
  BY <1>3, <1>4, <1>5
<1> QED BY <1>1, <1>2, <1>3, <1>4, <1>5, <1>6 DEF Alike

OfTheFrame == {"pushScope", "popScope", "pushHandler", "popHandler"}

\* An instruction that goes on behind itself, and keeps scopes and handlers.
LEMMA Follows ==
  ASSUME IInv, NEW o, At(o), FallsThrough(o), o \notin OfTheFrame,
         NEW n, Alike(n, exec), n.pc = exec.pc + 1, Len(n.stack) = Len(exec.stack) - Pops(o) + Pushes(o)
  PROVE  Running(n)
<1>1. /\ AllSound /\ Good(exec) /\ exec.end = "running" /\ TopAt(exec, exec.pc, 0)
      /\ exec.cur \in DOMAIN chunks /\ exec.pc \in Places(exec.cur)
      /\ OpAt(exec.cur, exec.pc) = o /\ Below(exec).stack \in Nat /\ DepthAt(exec.cur, exec.pc) \in Nat
      /\ Len(exec.stack) = Below(exec).stack + DepthAt(exec.cur, exec.pc)
  BY Here
<1>2. /\ exec.pc + 1 \in Places(exec.cur)
      /\ DepthAt(exec.cur, exec.pc + 1) = DepthAt(exec.cur, exec.pc) - Pops(o) + Pushes(o)
      /\ Kept(exec.cur)[exec.pc + 1] = Onwards(chunks[exec.cur].code[exec.pc], DepthAt(exec.cur, exec.pc), Kept(exec.cur)[exec.pc])
  BY <1>1, Through
<1>3. Onwards(chunks[exec.cur].code[exec.pc], DepthAt(exec.cur, exec.pc), Kept(exec.cur)[exec.pc]) = Kept(exec.cur)[exec.pc]
  BY <1>1 DEF Onwards, OpAt, OfTheFrame
<1>4. Len(n.stack) = Below(exec).stack + DepthAt(exec.cur, n.pc)
  <2>1. Pops(o) \in Nat /\ Pushes(o) \in Nat BY PopsFew
  <2> QED BY <1>1, <1>2, <2>1
<1> QED BY <1>1, <1>2, <1>3, <1>4, GoesOnSame DEF Alike

\* An instruction that jumps.
LEMMA Jumps ==
  ASSUME IInv, NEW o, At(o), o \in Branches, o # "pushHandler",
         NEW n, Alike(n, exec), n.pc = Instr.to,
         Len(n.stack) = IF o \in {"jumpIfFalse", "jumpIfTrue"} THEN Len(exec.stack) - 1 ELSE Len(exec.stack)
  PROVE  Running(n)
<1>1. /\ AllSound /\ Good(exec) /\ exec.end = "running" /\ TopAt(exec, exec.pc, 0)
      /\ exec.cur \in DOMAIN chunks /\ exec.pc \in Places(exec.cur) /\ Instr = chunks[exec.cur].code[exec.pc]
      /\ OpAt(exec.cur, exec.pc) = o /\ Below(exec).stack \in Nat /\ DepthAt(exec.cur, exec.pc) \in Nat
      /\ Len(exec.stack) = Below(exec).stack + DepthAt(exec.cur, exec.pc)
  BY Here
<1>2. /\ Instr.to \in Places(exec.cur) /\ DepthAt(exec.cur, Instr.to) = Landing(Instr, DepthAt(exec.cur, exec.pc))
      /\ Kept(exec.cur)[Instr.to] = Kept(exec.cur)[exec.pc]
  BY <1>1, Aside
<1>3. Instr.op = o BY DEF At
<1>4. DepthAt(exec.cur, Instr.to) = IF o \in {"jumpIfFalse", "jumpIfTrue"} THEN DepthAt(exec.cur, exec.pc) - 1
                                    ELSE DepthAt(exec.cur, exec.pc)
  BY <1>2, <1>3 DEF Landing
<1>5. Len(n.stack) = Below(exec).stack + DepthAt(exec.cur, n.pc) BY <1>1, <1>4
<1> QED BY <1>1, <1>2, <1>5, GoesOnSame DEF Alike

Plain ==
  \/ DoConst \/ DoLoad \/ DoStore \/ DoPop \/ DoDup \/ DoBin \/ DoTruthy \/ DoJump \/ DoJumpIfFalse \/ DoJumpIfTrue
  \/ DoNotNullJump \/ DoOnNullJump \/ DoSay \/ DoShow \/ DoIter \/ DoBump \/ DoMore \/ DoAgain \/ DoCatchMatches

\* The instructions that stay in the frame.
LEMMA PlainRuns ==
  ASSUME IInv, Plain
  PROVE  Running(exec') /\ chunks' = chunks /\ outer' = outer
<1> DEFINE l == Len(exec.stack)
<1>1. \A o : At(o) => /\ IsExec(exec) /\ Alike(exec, exec) /\ l >= Pops(o) /\ l \in Nat BY Here
\* What follows is as far as Past, or with so many operands off it.
<1>2. \A o : At(o) => Alike(Past, exec) /\ Len(Past.stack) = l /\ Past.pc = exec.pc + 1 BY <1>1, PastAlike
<1>3. \A v, o : At(o) => /\ Alike(Push(Past, v), exec) /\ Len(Push(Past, v).stack) = l + 1
                         /\ Push(Past, v).pc = exec.pc + 1
  BY <1>2, PushAlike
<1>4. \A o : At(o) /\ Pops(o) >= 1 => /\ l > 0 /\ Alike(Pop(Past), exec) /\ Len(Pop(Past).stack) = l - 1
                                      /\ Pop(Past).pc = exec.pc + 1
  <2> TAKE o
  <2> HAVE At(o) /\ Pops(o) >= 1
  <2>1. l > 0 BY <1>1, PopsFew
  <2> QED BY <1>2, <2>1, PopAlike
<1>5. \A v, o : At(o) /\ Pops(o) >= 1 =>
        /\ Alike(Push(Pop(Past), v), exec) /\ Len(Push(Pop(Past), v).stack) = l
        /\ Push(Pop(Past), v).pc = exec.pc + 1
  BY <1>1, <1>4, PushAlike
<1>6. \A pc, o : At(o) => Alike(Jump(exec, pc), exec) /\ Len(Jump(exec, pc).stack) = l /\ Jump(exec, pc).pc = pc
  BY <1>1, JumpAlike
<1>7. \A pc, o : At(o) /\ Pops(o) >= 1 =>
        /\ Alike(Jump(Pop(exec), pc), exec) /\ Len(Jump(Pop(exec), pc).stack) = l - 1 /\ Jump(Pop(exec), pc).pc = pc
  <2> TAKE pc, o
  <2> HAVE At(o) /\ Pops(o) >= 1
  <2>1. l > 0 BY <1>1, PopsFew
  <2>2. Alike(Pop(exec), exec) /\ Len(Pop(exec).stack) = l - 1 BY <1>1, <2>1, PopAlike
  <2> QED BY <2>2, JumpAlike
<1>8. \A k, v, o : At(o) => /\ Alike(SetLocal(Past, k, v), exec) /\ Len(SetLocal(Past, k, v).stack) = l
                            /\ SetLocal(Past, k, v).pc = exec.pc + 1
  BY <1>2, SetAlike
<1> DEFINE m == exec'
<1>9. ASSUME NEW o, At(o), FallsThrough(o), o \notin OfTheFrame,
             Alike(m, exec), m.pc = exec.pc + 1, Len(m.stack) = l - Pops(o) + Pushes(o)
      PROVE  Running(m)
  BY <1>9, Follows
<1>10. ASSUME NEW o, At(o), o \in Branches, o # "pushHandler", Alike(m, exec), m.pc = Instr.to,
              Len(m.stack) = IF o \in {"jumpIfFalse", "jumpIfTrue"} THEN l - 1 ELSE l
       PROVE  Running(m)
  BY <1>10, Jumps
<1> HIDE DEF l
<1>11. CASE DoConst
  <2>1. At("const") /\ \E v : m = Push(Past, v) BY <1>11 DEF DoConst, Step
  <2>2. Alike(m, exec) /\ Len(m.stack) = l + 1 /\ m.pc = exec.pc + 1 BY <1>3, <2>1
  <2> HIDE DEF m
  <2>3. Running(m) BY <1>1, <1>9, <2>1, <2>2 DEF FallsThrough, OfTheFrame, Pops, Pushes
  <2> QED BY <1>11, <2>3 DEF m, DoConst, Step
<1>12. CASE DoLoad
  <2>1. At("load") /\ \E v : m = Push(Past, v) BY <1>12 DEF DoLoad, Step
  <2>2. Alike(m, exec) /\ Len(m.stack) = l + 1 /\ m.pc = exec.pc + 1 BY <1>3, <2>1
  <2> HIDE DEF m
  <2>3. Running(m) BY <1>1, <1>9, <2>1, <2>2 DEF FallsThrough, OfTheFrame, Pops, Pushes
  <2> QED BY <1>12, <2>3 DEF m, DoLoad, Step
<1>13. CASE DoStore
  <2>1. At("store") /\ m = SetLocal(Pop(Past), Instr.slot, Top(1)) BY <1>13 DEF DoStore, Step
  <2>2. Alike(Pop(Past), exec) /\ Len(Pop(Past).stack) = l - 1 /\ Pop(Past).pc = exec.pc + 1 BY <1>4, <2>1 DEF Pops
  <2>3. Alike(m, exec) /\ Len(m.stack) = l - 1 /\ m.pc = exec.pc + 1 BY <2>1, <2>2, SetAlike
  <2> HIDE DEF m
  <2>4. Running(m) BY <1>1, <1>9, <2>1, <2>3 DEF FallsThrough, OfTheFrame, Pops, Pushes
  <2> QED BY <1>13, <2>4 DEF m, DoStore, Step
<1>14. CASE DoPop
  <2>1. At("pop") /\ m = Pop(Past) BY <1>14 DEF DoPop, Step
  <2>2. Alike(m, exec) /\ Len(m.stack) = l - 1 /\ m.pc = exec.pc + 1 BY <1>4, <2>1 DEF Pops
  <2> HIDE DEF m
  <2>3. Running(m) BY <1>1, <1>9, <2>1, <2>2 DEF FallsThrough, OfTheFrame, Pops, Pushes
  <2> QED BY <1>14, <2>3 DEF m, DoPop, Step
<1>15. CASE DoDup
  <2>1. At("dup") /\ \E v : m = Push(Past, v) BY <1>15 DEF DoDup, Step
  <2>2. Alike(m, exec) /\ Len(m.stack) = l + 1 /\ m.pc = exec.pc + 1 BY <1>3, <2>1
  <2> HIDE DEF m
  <2>3. Running(m) BY <1>1, <1>9, <2>1, <2>2 DEF FallsThrough, OfTheFrame, Pops, Pushes
  <2> QED BY <1>15, <2>3 DEF m, DoDup, Step
<1>16. CASE DoBin
  <2>1. At("bin") /\ m = Push(Pop(Pop(Past)), BinValue(Instr.of, Top(2), Top(1))) BY <1>16 DEF DoBin, Step
  <2>2. Alike(Pop(Past), exec) /\ Len(Pop(Past).stack) = l - 1 /\ Pop(Past).pc = exec.pc + 1 BY <1>4, <2>1 DEF Pops
  <2>3. l >= 2 /\ l \in Nat BY <1>1, <2>1 DEF Pops
  <2>4. Alike(Pop(Pop(Past)), exec) /\ Len(Pop(Pop(Past)).stack) = l - 2 /\ Pop(Pop(Past)).pc = exec.pc + 1
    <3>1. Len(Pop(Past).stack) > 0 /\ (l - 1) - 1 = l - 2 BY <2>2, <2>3
    <3> QED BY <2>2, <3>1, PopAlike
  <2>5. Alike(m, exec) /\ Len(m.stack) = l - 1 /\ m.pc = exec.pc + 1 BY <2>1, <2>3, <2>4, PushAlike
  <2> HIDE DEF m
  <2>6. Running(m) BY <1>1, <1>9, <2>1, <2>3, <2>5 DEF FallsThrough, OfTheFrame, Pops, Pushes
  <2> QED BY <1>16, <2>6 DEF m, DoBin, Step
<1>17. CASE DoTruthy
  <2>1. At("truthy") /\ m = Push(Pop(Past), BoolOf(Truthy(Top(1)))) BY <1>17 DEF DoTruthy, Step
  <2>2. Alike(m, exec) /\ Len(m.stack) = l /\ m.pc = exec.pc + 1 BY <1>5, <2>1 DEF Pops
  <2> HIDE DEF m
  <2>3. Running(m) BY <1>1, <1>9, <2>1, <2>2 DEF FallsThrough, OfTheFrame, Pops, Pushes
  <2> QED BY <1>17, <2>3 DEF m, DoTruthy, Step
<1>18. CASE DoJump
  <2>1. At("jump") /\ m = Jump(exec, Instr.to) BY <1>18 DEF DoJump, Step
  <2>2. Alike(m, exec) /\ Len(m.stack) = l /\ m.pc = Instr.to BY <1>6, <2>1
  <2> HIDE DEF m
  <2>3. Running(m) BY <1>10, <2>1, <2>2 DEF Branches
  <2> QED BY <1>18, <2>3 DEF m, DoJump, Step
<1>19. CASE DoJumpIfFalse
  <2>1. At("jumpIfFalse") /\ (m = Pop(Past) \/ m = Jump(Pop(exec), Instr.to)) BY <1>19 DEF DoJumpIfFalse, Step
  <2>2. Alike(m, exec) /\ Len(m.stack) = l - 1 /\ (m.pc = exec.pc + 1 \/ m.pc = Instr.to) BY <1>4, <1>7, <2>1 DEF Pops
  <2> HIDE DEF m
  <2>3. ASSUME m.pc = Instr.to PROVE Running(m) BY <1>10, <2>1, <2>2, <2>3 DEF Branches
  <2>4. ASSUME m.pc = exec.pc + 1 PROVE Running(m)
    BY <1>1, <1>9, <2>1, <2>2, <2>4 DEF FallsThrough, OfTheFrame, Pops, Pushes
  <2> QED BY <1>19, <2>2, <2>3, <2>4 DEF m, DoJumpIfFalse, Step
<1>20. CASE DoJumpIfTrue
  <2>1. At("jumpIfTrue") /\ (m = Pop(Past) \/ m = Jump(Pop(exec), Instr.to)) BY <1>20 DEF DoJumpIfTrue, Step
  <2>2. Alike(m, exec) /\ Len(m.stack) = l - 1 /\ (m.pc = exec.pc + 1 \/ m.pc = Instr.to) BY <1>4, <1>7, <2>1 DEF Pops
  <2> HIDE DEF m
  <2>3. ASSUME m.pc = Instr.to PROVE Running(m) BY <1>10, <2>1, <2>2, <2>3 DEF Branches
  <2>4. ASSUME m.pc = exec.pc + 1 PROVE Running(m)
    BY <1>1, <1>9, <2>1, <2>2, <2>4 DEF FallsThrough, OfTheFrame, Pops, Pushes
  <2> QED BY <1>20, <2>2, <2>3, <2>4 DEF m, DoJumpIfTrue, Step
<1>21. CASE DoNotNullJump
  <2>1. At("notNullJump") /\ (m = Pop(Past) \/ m = Jump(exec, Instr.to)) BY <1>21 DEF DoNotNullJump, Step
  <2>2. ASSUME m = Pop(Past) PROVE Running(m)
    <3>1. Alike(m, exec) /\ Len(m.stack) = l - 1 /\ m.pc = exec.pc + 1 BY <1>4, <2>1, <2>2 DEF Pops
    <3> HIDE DEF m
    <3> QED BY <1>1, <1>9, <2>1, <3>1 DEF FallsThrough, OfTheFrame, Pops, Pushes
  <2>3. ASSUME m = Jump(exec, Instr.to) PROVE Running(m)
    <3>1. Alike(m, exec) /\ Len(m.stack) = l /\ m.pc = Instr.to BY <1>6, <2>1, <2>3
    <3> HIDE DEF m
    <3> QED BY <1>10, <2>1, <3>1 DEF Branches
  <2> QED BY <1>21, <2>1, <2>2, <2>3 DEF DoNotNullJump, Step
<1>22. CASE DoOnNullJump
  <2>1. At("onNullJump") /\ (m = Past \/ m = Jump(exec, Instr.to)) BY <1>22 DEF DoOnNullJump, Step
  <2>2. Alike(m, exec) /\ Len(m.stack) = l /\ (m.pc = exec.pc + 1 \/ m.pc = Instr.to) BY <1>2, <1>6, <2>1
  <2> HIDE DEF m
  <2>3. ASSUME m.pc = Instr.to PROVE Running(m) BY <1>10, <2>1, <2>2, <2>3 DEF Branches
  <2>4. ASSUME m.pc = exec.pc + 1 PROVE Running(m)
    BY <1>1, <1>9, <2>1, <2>2, <2>4 DEF FallsThrough, OfTheFrame, Pops, Pushes
  <2> QED BY <1>22, <2>2, <2>3, <2>4 DEF m, DoOnNullJump, Step
<1>23. CASE DoSay
  <2>1. At("say") /\ \E v : m = Push(Past, v) BY <1>23 DEF DoSay
  <2>2. Alike(m, exec) /\ Len(m.stack) = l + 1 /\ m.pc = exec.pc + 1 BY <1>3, <2>1
  <2> HIDE DEF m
  <2>3. Running(m) BY <1>1, <1>9, <2>1, <2>2 DEF FallsThrough, OfTheFrame, Pops, Pushes
  <2> QED BY <1>23, <2>3 DEF m, DoSay
<1>24. CASE DoShow
  <2>1. At("show") /\ m = Past BY <1>24 DEF DoShow
  <2>2. Alike(m, exec) /\ Len(m.stack) = l /\ m.pc = exec.pc + 1 BY <1>2, <2>1
  <2> HIDE DEF m
  <2>3. Running(m) BY <1>1, <1>9, <2>1, <2>2 DEF FallsThrough, OfTheFrame, Pops, Pushes
  <2> QED BY <1>24, <2>3 DEF m, DoShow
<1>25. CASE DoIter
  <2>1. At("iter") /\ \E k, v : m = SetLocal(Past, k, v) BY <1>25 DEF DoIter, Step
  <2>2. Alike(m, exec) /\ Len(m.stack) = l /\ m.pc = exec.pc + 1 BY <1>8, <2>1
  <2> HIDE DEF m
  <2>3. Running(m) BY <1>1, <1>9, <2>1, <2>2 DEF FallsThrough, OfTheFrame, Pops, Pushes
  <2> QED BY <1>25, <2>3 DEF m, DoIter, Step
<1>26. CASE DoBump
  <2>1. At("bump") /\ \E k, v : m = SetLocal(Past, k, v) BY <1>26 DEF DoBump, Step
  <2>2. Alike(m, exec) /\ Len(m.stack) = l /\ m.pc = exec.pc + 1 BY <1>8, <2>1
  <2> HIDE DEF m
  <2>3. Running(m) BY <1>1, <1>9, <2>1, <2>2 DEF FallsThrough, OfTheFrame, Pops, Pushes
  <2> QED BY <1>26, <2>3 DEF m, DoBump, Step
<1>27. CASE DoMore
  <2>1. At("more") /\ (m = Past \/ m = Jump(exec, Instr.to)) BY <1>27 DEF DoMore, Step
  <2>2. Alike(m, exec) /\ Len(m.stack) = l /\ (m.pc = exec.pc + 1 \/ m.pc = Instr.to) BY <1>2, <1>6, <2>1
  <2> HIDE DEF m
  <2>3. ASSUME m.pc = Instr.to PROVE Running(m) BY <1>10, <2>1, <2>2, <2>3 DEF Branches
  <2>4. ASSUME m.pc = exec.pc + 1 PROVE Running(m)
    BY <1>1, <1>9, <2>1, <2>2, <2>4 DEF FallsThrough, OfTheFrame, Pops, Pushes
  <2> QED BY <1>27, <2>2, <2>3, <2>4 DEF m, DoMore, Step
<1>28. CASE DoAgain
  <2>1. At("again") /\ (m = Past \/ m = Jump(exec, Instr.to)) BY <1>28 DEF DoAgain, Step
  <2>2. Alike(m, exec) /\ Len(m.stack) = l /\ (m.pc = exec.pc + 1 \/ m.pc = Instr.to) BY <1>2, <1>6, <2>1
  <2> HIDE DEF m
  <2>3. ASSUME m.pc = Instr.to PROVE Running(m) BY <1>10, <2>1, <2>2, <2>3 DEF Branches
  <2>4. ASSUME m.pc = exec.pc + 1 PROVE Running(m)
    BY <1>1, <1>9, <2>1, <2>2, <2>4 DEF FallsThrough, OfTheFrame, Pops, Pushes
  <2> QED BY <1>28, <2>2, <2>3, <2>4 DEF m, DoAgain, Step
<1>29. CASE DoCatchMatches
  <2>1. At("catchMatches") /\ \E v : m = Push(Past, v) BY <1>29 DEF DoCatchMatches, Step
  <2>2. Alike(m, exec) /\ Len(m.stack) = l + 1 /\ m.pc = exec.pc + 1 BY <1>3, <2>1
  <2> HIDE DEF m
  <2>3. Running(m) BY <1>1, <1>9, <2>1, <2>2 DEF FallsThrough, OfTheFrame, Pops, Pushes
  <2> QED BY <1>29, <2>3 DEF m, DoCatchMatches, Step
<1> QED BY <1>11, <1>12, <1>13, <1>14, <1>15, <1>16, <1>17, <1>18, <1>19, <1>20, <1>21, <1>22, <1>23, <1>24,
           <1>25, <1>26, <1>27, <1>28, <1>29 DEF Plain

\* The running frame of n, from low, has these scopes and handlers, and what
\* was below is as it was.
Has(n, low, own) ==
  /\ n.scopes = low.scopes + own.scopes
  /\ Len(n.handlers) = low.handlers + Len(own.handlers)
  /\ \A i \in 1..low.handlers : n.handlers[i] = exec.handlers[i]
  /\ \A j \in 1..Len(own.handlers) : n.handlers[low.handlers + j] = Raised(own.handlers[j], low)

\* A way of a frame onwards from an instruction of its scopes and handlers.
LEMMA OnwardsRuns ==
  ASSUME IInv, NEW o, At(o), o \in OfTheFrame,
         NEW n, IsExec(n), n.end = "running", n.calls = exec.calls, n.cur = exec.cur, n.pc = exec.pc + 1,
         n.stack = exec.stack,
         Has(n, Below(exec), Onwards(Instr, DepthAt(exec.cur, exec.pc), Kept(exec.cur)[exec.pc]))
  PROVE  Running(n)
<1>1. /\ AllSound /\ Good(exec) /\ TopAt(exec, exec.pc, 0)
      /\ exec.cur \in DOMAIN chunks /\ exec.pc \in Places(exec.cur) /\ Instr = chunks[exec.cur].code[exec.pc]
      /\ OpAt(exec.cur, exec.pc) = o /\ DepthAt(exec.cur, exec.pc) \in Nat
      /\ Len(exec.stack) = Below(exec).stack + DepthAt(exec.cur, exec.pc)
  BY Here
<1>2. FallsThrough(o) /\ Pops(o) = 0 /\ Pushes(o) = 0 BY DEF FallsThrough, Pops, Pushes, OfTheFrame
<1>3. /\ exec.pc + 1 \in Places(exec.cur)
      /\ DepthAt(exec.cur, exec.pc + 1) = DepthAt(exec.cur, exec.pc)
      /\ Kept(exec.cur)[exec.pc + 1] = Onwards(Instr, DepthAt(exec.cur, exec.pc), Kept(exec.cur)[exec.pc])
  BY <1>1, <1>2, Through
<1> QED BY <1>1, <1>3, GoesOn DEF Has

\* What the running frame has of its own.
LEMMA OwnFacts ==
  ASSUME IInv, NEW o, At(o)
  PROVE  LET own == Kept(exec.cur)[exec.pc]
             low == Below(exec)
         IN /\ own.scopes \in Nat /\ own.scopes > 0 /\ Listed(own.handlers) /\ IsLevel(low)
            /\ own = [scopes |-> own.scopes, handlers |-> own.handlers]
            /\ exec.scopes = low.scopes + own.scopes
            /\ Len(exec.handlers) = low.handlers + Len(own.handlers)
            /\ \A j \in 1..Len(own.handlers) : exec.handlers[low.handlers + j] = Raised(own.handlers[j], low)
            /\ o = "popHandler" => own.handlers # << >>
            /\ o = "returnNull" => DepthAt(exec.cur, exec.pc) = 0 /\ own = Fresh
            /\ exec.pc \in DOMAIN chunks[exec.cur].code
<1>1. /\ AllSound /\ Good(exec) /\ TopAt(exec, exec.pc, 0)
      /\ exec.cur \in DOMAIN chunks /\ exec.pc \in Places(exec.cur) /\ OpAt(exec.cur, exec.pc) = o
  BY Here
<1>2. /\ IsLevel(Below(exec)) /\ exec.scopes = Below(exec).scopes + Kept(exec.cur)[exec.pc].scopes
      /\ Len(exec.handlers) = Below(exec).handlers + Len(Kept(exec.cur)[exec.pc].handlers)
  BY <1>1, TopFacts
<1>3. /\ Kept(exec.cur)[exec.pc] \in Keeps /\ Kept(exec.cur)[exec.pc].scopes > 0
      /\ o = "popHandler" => Kept(exec.cur)[exec.pc].handlers # << >>
      /\ o = "returnNull" => DepthAt(exec.cur, exec.pc) = 0 /\ Kept(exec.cur)[exec.pc] = Fresh
  BY <1>1, AtPlace
<1>4. \A j \in 1..Len(Kept(exec.cur)[exec.pc].handlers) :
        exec.handlers[Below(exec).handlers + j] = Raised(Kept(exec.cur)[exec.pc].handlers[j], Below(exec))
  BY <1>1 DEF TopAt, Stands
<1>5. exec.pc \in DOMAIN chunks[exec.cur].code
  <2>1. Verified(chunks[exec.cur].code, chunks[exec.cur].depths) BY <1>1, KeptBalanced
  <2> QED BY <1>1, <2>1 DEF Verified, Places
<1> QED BY <1>2, <1>3, <1>4, <1>5 DEF Keeps, Listed

\* Scopes ...
LEMMA ScopeRuns ==
  ASSUME IInv, DoPushScope \/ DoPopScope
  PROVE  Running(exec')
<1> DEFINE own == Kept(exec.cur)[exec.pc]
           low == Below(exec)
           m == exec'
<1>1. exec = [f \in Fields |-> exec[f]] /\ Listed(exec.stack) /\ Listed(exec.handlers) /\ Listed(exec.calls)
      /\ exec.end = "running"
  BY Here DEF IsExec, DoPushScope, DoPopScope
<1>2. /\ own.scopes \in Nat /\ own.scopes > 0 /\ low.scopes \in Nat
      /\ own = [scopes |-> own.scopes, handlers |-> own.handlers]
      /\ exec.scopes = low.scopes + own.scopes
      /\ Len(exec.handlers) = low.handlers + Len(own.handlers)
      /\ \A j \in 1..Len(own.handlers) : exec.handlers[low.handlers + j] = Raised(own.handlers[j], low)
  BY OwnFacts DEF DoPushScope, DoPopScope, IsLevel
<1>3. exec.scopes # 0 /\ exec.scopes \in Nat
  <2> HIDE DEF own, low
  <2> QED BY <1>2
<1>4. CASE DoPushScope
  <2>1. At("pushScope") /\ m = [Past EXCEPT !.scopes = @ + 1] BY <1>3, <1>4 DEF DoPushScope, Step
  <2>2. m = [f \in Fields |-> m[f]] /\ m.scopes = exec.scopes + 1 /\ m.pc = exec.pc + 1
        /\ \A f \in Fields \ {"scopes", "pc"} : m[f] = exec[f]
    BY <1>1, <2>1 DEF Past, Fields
  <2>3. Instr.op = "pushScope" BY <2>1 DEF At
  <2>4. Onwards(Instr, DepthAt(exec.cur, exec.pc), own) = [scopes |-> own.scopes + 1, handlers |-> own.handlers]
    <3> HIDE DEF own
    <3> QED BY <1>2, <2>3 DEF Onwards
  <2> HIDE DEF m
  <2>5. IsExec(m) /\ m.end = "running" /\ m.calls = exec.calls /\ m.cur = exec.cur /\ m.stack = exec.stack
        /\ m.handlers = exec.handlers
    BY <1>1, <2>2 DEF IsExec, Fields
  <2>6. m.scopes = low.scopes + (own.scopes + 1)
    <3> HIDE DEF own, low
    <3> QED BY <1>2, <2>2
  <2> DEFINE on == [scopes |-> own.scopes + 1, handlers |-> own.handlers]
  <2>7. on.scopes = own.scopes + 1 /\ on.handlers = own.handlers OBVIOUS
  <2>8. Onwards(Instr, DepthAt(exec.cur, exec.pc), Kept(exec.cur)[exec.pc]) = on BY <2>4
  <2>9. Has(m, Below(exec), on)
    <3> HIDE DEF own, on
    <3> QED BY <1>2, <2>5, <2>6, <2>7 DEF Has
  <2> HIDE DEF own, low, on
  <2>10. "pushScope" \in OfTheFrame /\ At("pushScope") BY <2>1 DEF OfTheFrame
  <2>11. Running(m) BY <2>2, <2>5, <2>8, <2>9, <2>10, OnwardsRuns
  <2> QED BY <2>11 DEF m
<1>5. CASE DoPopScope
  <2>1. At("popScope") /\ m = [Past EXCEPT !.scopes = IF @ = 0 THEN 0 ELSE @ - 1] BY <1>5 DEF DoPopScope, Step
  <2>2. m = [f \in Fields |-> m[f]] /\ m.scopes = exec.scopes - 1 /\ m.pc = exec.pc + 1
        /\ \A f \in Fields \ {"scopes", "pc"} : m[f] = exec[f]
    BY <1>1, <1>3, <2>1 DEF Past, Fields
  <2>3. Instr.op = "popScope" BY <2>1 DEF At
  <2>4. Onwards(Instr, DepthAt(exec.cur, exec.pc), own) = [scopes |-> own.scopes - 1, handlers |-> own.handlers]
    <3> HIDE DEF own
    <3> QED BY <1>2, <2>3 DEF Onwards
  <2> HIDE DEF m
  <2>5. IsExec(m) /\ m.end = "running" /\ m.calls = exec.calls /\ m.cur = exec.cur /\ m.stack = exec.stack
        /\ m.handlers = exec.handlers
    BY <1>1, <2>2 DEF IsExec, Fields
  <2>6. m.scopes = low.scopes + (own.scopes - 1)
    <3> HIDE DEF own, low
    <3> QED BY <1>2, <2>2
  <2> DEFINE on == [scopes |-> own.scopes - 1, handlers |-> own.handlers]
  <2>7. on.scopes = own.scopes - 1 /\ on.handlers = own.handlers OBVIOUS
  <2>8. Onwards(Instr, DepthAt(exec.cur, exec.pc), Kept(exec.cur)[exec.pc]) = on BY <2>4
  <2>9. Has(m, Below(exec), on)
    <3> HIDE DEF own, on
    <3> QED BY <1>2, <2>5, <2>6, <2>7 DEF Has
  <2> HIDE DEF own, low, on
  <2>10. "popScope" \in OfTheFrame /\ At("popScope") BY <2>1 DEF OfTheFrame
  <2>11. Running(m) BY <2>2, <2>5, <2>8, <2>9, <2>10, OnwardsRuns
  <2> QED BY <2>11 DEF m
<1> QED BY <1>4, <1>5

\* ... and handlers.
LEMMA HandlerRuns ==
  ASSUME IInv, DoPushHandler \/ DoPopHandler
  PROVE  Running(exec')
<1> DEFINE own == Kept(exec.cur)[exec.pc]
           low == Below(exec)
           depth == DepthAt(exec.cur, exec.pc)
           k == Len(own.handlers)
           m == exec'
<1>1. /\ exec = [f \in Fields |-> exec[f]] /\ Listed(exec.stack) /\ Listed(exec.handlers) /\ Listed(exec.calls)
      /\ exec.end = "running" /\ Len(exec.stack) = low.stack + depth
  BY Here DEF IsExec, DoPushHandler, DoPopHandler
<1>2. /\ own.scopes \in Nat /\ low.scopes \in Nat /\ low.handlers \in Nat /\ Listed(own.handlers)
      /\ own = [scopes |-> own.scopes, handlers |-> own.handlers]
      /\ exec.scopes = low.scopes + own.scopes
      /\ Len(exec.handlers) = low.handlers + k
      /\ \A j \in 1..k : exec.handlers[low.handlers + j] = Raised(own.handlers[j], low)
      /\ At("popHandler") => own.handlers # << >>
  BY OwnFacts DEF DoPushHandler, DoPopHandler, IsLevel
<1>3. k \in Nat BY <1>2, ListedFacts
<1>4. CASE DoPushHandler
  <2> DEFINE h == [pc |-> Instr.to, scopes |-> exec.scopes, stack |-> Len(exec.stack)]
             g == [pc |-> Instr.to, scopes |-> own.scopes, stack |-> depth]
             on == Append(own.handlers, g)
  <2>1. At("pushHandler") /\ m = [Past EXCEPT !.handlers = Append(@, h)] BY <1>4 DEF DoPushHandler, Step
  <2>2. h = Raised(g, low) BY <1>1, <1>2 DEF Raised
  <2>3. Instr.op = "pushHandler" BY <2>1 DEF At
  <2>4. Onwards(Instr, depth, own) = [scopes |-> own.scopes, handlers |-> on]
    <3> HIDE DEF own
    <3> QED BY <1>2, <2>3 DEF Onwards
  <2> HIDE DEF h, g
  <2>5. m = [f \in Fields |-> m[f]] /\ m.handlers = Append(exec.handlers, h) /\ m.pc = exec.pc + 1
        /\ \A f \in Fields \ {"handlers", "pc"} : m[f] = exec[f]
    BY <1>1, <2>1 DEF Past, Fields
  <2>6. /\ Listed(m.handlers) /\ Len(m.handlers) = Len(exec.handlers) + 1
        /\ \A i \in 1..Len(exec.handlers) : m.handlers[i] = exec.handlers[i]
        /\ m.handlers[Len(exec.handlers) + 1] = h
    BY <1>1, <2>5, Appended
  <2>7. Len(on) = k + 1 /\ on[k + 1] = g /\ \A j \in 1..k : on[j] = own.handlers[j] BY <1>2, Appended
  <2> HIDE DEF m, on
  <2>8. IsExec(m) /\ m.end = "running" /\ m.calls = exec.calls /\ m.cur = exec.cur /\ m.stack = exec.stack
        /\ m.scopes = exec.scopes
    BY <1>1, <2>5, <2>6 DEF IsExec, Fields
  <2> HIDE DEF own, low, k
  <2>9. Len(m.handlers) = low.handlers + Len(on)
    <3>1. Len(m.handlers) = low.handlers + k + 1 /\ Len(on) = k + 1 BY <1>2, <2>6, <2>7
    <3>2. low.handlers \in Nat BY <1>2
    <3>3. low.handlers + k + 1 = low.handlers + (k + 1) BY <1>3, <3>2
    <3> QED BY <3>1, <3>3
  <2>10. \A i \in 1..low.handlers : m.handlers[i] = exec.handlers[i] BY <1>2, <1>3, <2>6
  <2>11. ASSUME NEW j \in 1..Len(on) PROVE m.handlers[low.handlers + j] = Raised(on[j], low)
    <3>1. CASE j = k + 1
      <4>1. low.handlers + j = Len(exec.handlers) + 1 BY <1>2, <1>3, <3>1
      <4> QED BY <2>2, <2>6, <2>7, <3>1, <4>1
    <3>2. CASE j \in 1..k
      <4>1. low.handlers + j \in 1..Len(exec.handlers) BY <1>2, <1>3, <3>2
      <4> QED BY <1>2, <2>6, <2>7, <3>2, <4>1
    <3> QED BY <1>3, <2>7, <3>1, <3>2
  <2> DEFINE onwards == [scopes |-> own.scopes, handlers |-> on]
  <2>12. onwards.scopes = own.scopes /\ onwards.handlers = on OBVIOUS
  <2>13. onwards = Onwards(Instr, DepthAt(exec.cur, exec.pc), Kept(exec.cur)[exec.pc]) BY <2>4 DEF own, depth
  <2> HIDE DEF onwards
  <2>14. Has(m, Below(exec), onwards) BY <1>2, <2>8, <2>9, <2>10, <2>11, <2>12 DEF Has, low
  <2>15. "pushHandler" \in OfTheFrame /\ At("pushHandler") BY <2>1 DEF OfTheFrame
  <2>16. Running(m) BY <2>5, <2>8, <2>13, <2>14, <2>15, OnwardsRuns
  <2> QED BY <2>16 DEF m
<1>5. CASE DoPopHandler
  <2> DEFINE on == Front(own.handlers)
  <2>1. At("popHandler") /\ m = [Past EXCEPT !.handlers = IF @ = << >> THEN @ ELSE Front(@)] BY <1>5 DEF DoPopHandler, Step
  <2>2. k > 0 BY <1>2, <1>3, <2>1, ListedFacts
  <2>3. Instr.op = "popHandler" BY <2>1 DEF At
  <2>4. Onwards(Instr, depth, own) = [scopes |-> own.scopes, handlers |-> on]
    <3> HIDE DEF own
    <3> QED BY <1>2, <2>3 DEF Onwards
  <2>5. Len(exec.handlers) > 0 /\ exec.handlers # << >>
    <3>1. Len(exec.handlers) > 0
      <4> HIDE DEF own, low, k
      <4> QED BY <1>2, <1>3, <2>2
    <3> QED BY <1>1, <3>1, ListedFacts
  <2>6. m = [f \in Fields |-> m[f]] /\ m.handlers = Front(exec.handlers) /\ m.pc = exec.pc + 1
        /\ \A f \in Fields \ {"handlers", "pc"} : m[f] = exec[f]
    BY <1>1, <2>1, <2>5 DEF Past, Fields
  <2>7. /\ Listed(m.handlers) /\ Len(m.handlers) = Len(exec.handlers) - 1
        /\ \A i \in 1..(Len(exec.handlers) - 1) : m.handlers[i] = exec.handlers[i]
    BY <1>1, <2>5, <2>6, Fronted
  <2>8. Len(on) = k - 1 /\ \A j \in 1..(k - 1) : on[j] = own.handlers[j] BY <1>2, <2>2, Fronted
  <2> HIDE DEF m, on
  <2>9. IsExec(m) /\ m.end = "running" /\ m.calls = exec.calls /\ m.cur = exec.cur /\ m.stack = exec.stack
        /\ m.scopes = exec.scopes
    BY <1>1, <2>6, <2>7 DEF IsExec, Fields
  <2> HIDE DEF own, low, k
  <2>10. Len(m.handlers) = low.handlers + Len(on) BY <1>2, <1>3, <2>7, <2>8
  <2>11. \A i \in 1..low.handlers : m.handlers[i] = exec.handlers[i] BY <1>2, <1>3, <2>2, <2>7
  <2>12. ASSUME NEW j \in 1..Len(on) PROVE m.handlers[low.handlers + j] = Raised(on[j], low)
    <3>1. j \in 1..k /\ j \in 1..(k - 1) /\ low.handlers + j \in 1..(Len(exec.handlers) - 1) BY <1>2, <1>3, <2>2, <2>8
    <3> QED BY <1>2, <2>7, <2>8, <3>1
  <2> DEFINE onwards == [scopes |-> own.scopes, handlers |-> on]
  <2>13. onwards.scopes = own.scopes /\ onwards.handlers = on OBVIOUS
  <2>14. onwards = Onwards(Instr, DepthAt(exec.cur, exec.pc), Kept(exec.cur)[exec.pc]) BY <2>4 DEF own, depth
  <2> HIDE DEF onwards
  <2>15. Has(m, Below(exec), onwards) BY <1>2, <2>9, <2>10, <2>11, <2>12, <2>13 DEF Has, low
  <2>16. "popHandler" \in OfTheFrame /\ At("popHandler") BY <2>1 DEF OfTheFrame
  <2>17. Running(m) BY <2>6, <2>9, <2>14, <2>15, <2>16, OnwardsRuns
  <2> QED BY <2>17 DEF m
<1> QED BY <1>4, <1>5

(***************************************************************************)
(* Steps from frame to frame.                                              *)
(***************************************************************************)
\* With some of its operands off the stack, the frame is one that can call,
\* throw or wait.
LEMMA Partly ==
  ASSUME IInv, NEW o, At(o), NEW n, Alike(n, exec), NEW taken \in 0..Pops(o),
         Len(n.stack) = Len(exec.stack) - taken
  PROVE  Good(n) /\ TopAt(n, exec.pc, taken) /\ Below(n) = Below(exec)
<1>1. /\ AllSound /\ Good(exec) /\ TopAt(exec, exec.pc, 0) /\ OpAt(exec.cur, exec.pc) = o
      /\ Below(exec).stack \in Nat /\ DepthAt(exec.cur, exec.pc) \in Nat
      /\ Len(exec.stack) = Below(exec).stack + DepthAt(exec.cur, exec.pc)
      /\ DepthAt(exec.cur, exec.pc) >= Pops(o) /\ Len(exec.stack) \in Nat
  BY Here
<1>2. /\ IsLevel(Below(exec)) /\ exec.scopes = Below(exec).scopes + Kept(exec.cur)[exec.pc].scopes
      /\ Len(exec.handlers) = Below(exec).handlers + Len(Kept(exec.cur)[exec.pc].handlers)
      /\ Kept(exec.cur)[exec.pc].scopes \in Nat /\ Len(Kept(exec.cur)[exec.pc].handlers) \in Nat
  BY <1>1, TopFacts
<1>3. taken \in Nat /\ taken <= Pops(o) /\ Pops(o) \in Nat BY PopsFew
<1>4. Len(n.stack) >= Below(exec).stack /\ Len(n.stack) + taken = Below(exec).stack + DepthAt(exec.cur, exec.pc)
  BY <1>1, <1>3
<1>5. /\ exec.scopes \in Nat /\ exec.scopes >= Below(exec).scopes /\ Len(exec.handlers) >= Below(exec).handlers
  BY <1>2 DEF IsLevel
<1>6. /\ IsExec(n) /\ n.calls = exec.calls /\ n.cur = exec.cur /\ n.scopes = exec.scopes /\ n.handlers = exec.handlers
  BY DEF Alike
<1>7. Good(n) /\ Below(n) = Below(exec) /\ Frames(n) = Frames(exec) BY <1>1, <1>4, <1>5, <1>6, SameCallers
<1>8. Level(n, Frames(n)) = [stack |-> Len(n.stack), scopes |-> n.scopes, handlers |-> Len(n.handlers)]
  BY <1>6, LevelFacts
<1>9. Stands(n.handlers, n.cur, exec.pc, taken, Below(n), Level(n, Frames(n)))
  <2>1. Stands(exec.handlers, exec.cur, exec.pc, 0, Below(exec), Level(exec, Frames(exec))) BY <1>1 DEF TopAt
  <2> QED BY <1>1, <1>2, <1>4, <1>6, <1>7, <1>8, <2>1 DEF Stands
<1>10. n.calls # << >> => n.cur \in Sync BY <1>1, <1>6 DEF TopAt
<1> QED BY <1>7, <1>9, <1>10 DEF TopAt

\* A throw statement.
LEMMA ThrowRuns ==
  ASSUME IInv, DoThrow
  PROVE  Running(exec') \/ exec'.end = "throw"
<1>1. At("throw") /\ exec' = Thrown(Pop(exec), Top(1)) BY DEF DoThrow, Step
<1>2. Pops("throw") = 1 BY DEF Pops
<1>3. AllSound /\ Alike(exec, exec) /\ exec.end = "running" /\ Len(exec.stack) >= 1 /\ Len(exec.stack) \in Nat
  BY <1>1, <1>2, Here
<1>4. Alike(Pop(exec), exec) /\ Len(Pop(exec).stack) = Len(exec.stack) - 1 BY <1>3, PopAlike
<1>5. Good(Pop(exec)) /\ TopAt(Pop(exec), exec.pc, 1) BY <1>1, <1>2, <1>4, Partly
<1>6. Pop(exec).end = "running" BY <1>3, <1>4 DEF Alike
<1> QED BY <1>1, <1>3, <1>5, <1>6, ThrownRuns

\* The operands of a call, off the stack.
LEMMA Called ==
  ASSUME IInv, At("call") \/ At("callMethod")
  PROVE  LET m == Pop(Pop(Past))
         IN /\ Calling(m) /\ Alike(m, exec) /\ Len(m.stack) = Len(exec.stack) - 2 /\ m.pc = exec.pc + 1
            /\ Len(exec.stack) >= 2 /\ TopAt(m, exec.pc, 2) /\ Good(m) /\ m.end = "running"
<1> DEFINE m == Pop(Pop(Past))
<1>1. PICK o : At(o) /\ o \in {"call", "callMethod"} OBVIOUS
<1>2. Pops(o) = 2 BY <1>1 DEF Pops
<1>3. /\ AllSound /\ Alike(exec, exec) /\ IsExec(exec) /\ exec.end = "running"
      /\ Len(exec.stack) >= 2 /\ Len(exec.stack) \in Nat /\ OpAt(exec.cur, exec.pc) = o
  BY <1>1, <1>2, Here
<1>4. Alike(Past, exec) /\ Past.stack = exec.stack /\ Past.pc = exec.pc + 1 BY <1>3, PastAlike
<1>5. Alike(Pop(Past), exec) /\ Len(Pop(Past).stack) = Len(exec.stack) - 1 /\ Pop(Past).pc = exec.pc + 1
  <2>1. Len(Past.stack) > 0 BY <1>3, <1>4
  <2> QED BY <1>4, <2>1, PopAlike
<1>6. Alike(m, exec) /\ Len(m.stack) = Len(exec.stack) - 2 /\ m.pc = exec.pc + 1
  <2>1. Len(Pop(Past).stack) > 0 /\ (Len(exec.stack) - 1) - 1 = Len(exec.stack) - 2 BY <1>3, <1>5
  <2> QED BY <1>5, <2>1, PopAlike
<1> HIDE DEF m
<1>7. 2 \in 0..Pops(o) BY <1>2
<1>8. Good(m) /\ TopAt(m, exec.pc, 2) BY <1>1, <1>6, <1>7, Partly
<1>9. m.end = "running" /\ m.cur = exec.cur BY <1>3, <1>6 DEF Alike
<1>10. Calling(m) BY <1>1, <1>3, <1>6, <1>8, <1>9 DEF Calling
<1> QED BY <1>3, <1>6, <1>8, <1>9, <1>10 DEF m

\* A function starts with a scope, and nothing else.
LEMMA StartsSound ==
  ASSUME AllSound, NEW fn \in DOMAIN chunks
  PROVE  1 \in Places(fn) /\ DepthAt(fn, 1) = 0 /\ Kept(fn)[1] = Fresh
<1>1. Verified(chunks[fn].code, chunks[fn].depths) BY KeptBalanced
<1>2. Balanced(chunks[fn].code, chunks[fn].depths, Kept(fn)) BY KeptBalanced
<1> QED BY <1>1, <1>2 DEF Verified, Balanced, Places, DepthAt

\* An exec of its own.
LEMMA StartRuns ==
  ASSUME AllSound, NEW fn \in DOMAIN chunks, NEW x
  PROVE  Running(Start(fn, x, chunks[fn].n))
<1> DEFINE m == Start(fn, x, chunks[fn].n)
<1>1. /\ m = [f \in Fields |-> m[f]] /\ m.stack = << >> /\ m.handlers = << >> /\ m.calls = << >>
      /\ m.scopes = 1 /\ m.cur = fn /\ m.pc = 1 /\ m.end = "running"
  BY DEF Start, Fields
<1>2. Listed(<< >>) BY DEF Listed
<1> HIDE DEF m
<1>3. IsExec(m) BY <1>1, <1>2 DEF IsExec
<1>4. Len(m.calls) = 0 /\ Frames(m) = 1 BY <1>1 DEF Frames
<1>5. /\ Level(m, 0) = Bottom /\ Below(m) = Bottom
      /\ Level(m, 1) = [stack |-> 0, scopes |-> 1, handlers |-> 0]
  BY <1>1, <1>4 DEF Level, Below
<1>6. Piled(m)
  <2>1. \A i \in 0..1 : i = 0 \/ i = 1 OBVIOUS
  <2>2. IsLevel(Bottom) /\ IsLevel(Level(m, 1)) BY <1>5 DEF IsLevel, Bottom
  <2>3. Up(Bottom, Bottom) /\ Up(Bottom, Level(m, 1)) /\ Up(Level(m, 1), Level(m, 1)) BY <1>5 DEF Up, Bottom
  <2> QED BY <1>4, <1>5, <2>1, <2>2, <2>3 DEF Piled
<1>7. Callers(m) BY <1>4 DEF Callers
<1>8. Stands(m.handlers, fn, 1, 0, Bottom, Level(m, 1))
  <2>1. 1 \in Places(fn) /\ DepthAt(fn, 1) = 0 /\ Kept(fn)[1] = Fresh BY StartsSound
  <2>2. 0 \in 0..Pops(OpAt(fn, 1)) BY PopsFew
  <2> QED BY <1>5, <2>1, <2>2 DEF Stands, Bottom, Fresh
<1>9. Running(m) BY <1>1, <1>3, <1>4, <1>5, <1>6, <1>7, <1>8 DEF Running, Good, TopAt
<1> QED BY <1>9 DEF m

\* A frame is pushed on one that calls.
LEMMA InlineRuns ==
  ASSUME AllSound, NEW q, Calling(q), NEW fn \in Sync, NEW caller,
         caller.cur = q.cur, caller.pc = q.pc, caller.stack = Len(q.stack), caller.scopes = q.scopes,
         caller.handlers = Len(q.handlers),
         NEW n, IsExec(n), n.end = "running", n.calls = Append(q.calls, caller), Len(n.stack) = Len(q.stack),
         n.scopes = q.scopes + 1, n.handlers = q.handlers, n.cur = fn, n.pc = 1
  PROVE  Running(n)
<1> DEFINE c == Len(q.calls)
<1>1. IsExec(q) /\ Piled(q) /\ Callers(q) BY DEF Calling, Good
<1>2. PICK pc : q.pc = pc + 1 /\ OpAt(q.cur, pc) \in {"call", "callMethod"} /\ TopAt(q, pc, 2) BY DEF Calling
<1>3. c \in Nat /\ Frames(q) = c + 1 /\ \A i \in 1..c : Level(q, i) = q.calls[i] BY <1>1, LevelFacts
<1>4. Level(q, c + 1) = [stack |-> Len(q.stack), scopes |-> q.scopes, handlers |-> Len(q.handlers)]
  BY <1>1, <1>3, LevelFacts
<1>5. Len(n.calls) = c + 1 /\ n.calls[c + 1] = caller /\ \A i \in 1..c : n.calls[i] = q.calls[i]
  <2>1. Listed(q.calls) BY <1>1 DEF IsExec
  <2>2. /\ Len(Append(q.calls, caller)) = c + 1 /\ Append(q.calls, caller)[c + 1] = caller
        /\ \A i \in 1..c : Append(q.calls, caller)[i] = q.calls[i]
    BY <2>1, Appended
  <2> QED BY <2>2
<1>6. /\ Frames(n) = c + 2 /\ Level(n, 0) = Level(q, 0) /\ \A i \in 1..(c + 1) : Level(n, i) = n.calls[i]
      /\ Level(n, c + 2) = [stack |-> Len(q.stack), scopes |-> q.scopes + 1, handlers |-> Len(q.handlers)]
  <2>1. Frames(n) = c + 2 BY <1>3, <1>5 DEF Frames
  <2>2. Level(n, 0) = Level(q, 0) BY DEF Level
  <2> QED BY <1>3, <1>5, <2>1, <2>2, LevelFacts
<1>7. /\ Below(n) = caller /\ Level(n, c + 1) = caller
      /\ caller.stack = Level(q, c + 1).stack /\ caller.scopes = Level(q, c + 1).scopes
      /\ caller.handlers = Level(q, c + 1).handlers
  BY <1>3, <1>4, <1>5, <1>6 DEF Below
<1> HIDE DEF c
<1>8. \A i \in 0..c : Level(n, i) = Level(q, i)
  <2> SUFFICES ASSUME NEW i \in 1..c PROVE Level(n, i) = Level(q, i) BY <1>3, <1>6
  <2> QED BY <1>3, <1>5, <1>6
<1>9. \A i \in 0..(c + 1) : /\ Level(n, i).stack = Level(q, i).stack /\ Level(n, i).scopes = Level(q, i).scopes
                            /\ Level(n, i).handlers = Level(q, i).handlers
  <2> SUFFICES ASSUME NEW i \in 0..(c + 1)
               PROVE  /\ Level(n, i).stack = Level(q, i).stack /\ Level(n, i).scopes = Level(q, i).scopes
                      /\ Level(n, i).handlers = Level(q, i).handlers
    OBVIOUS
  <2>1. CASE i = c + 1 BY <1>7, <2>1
  <2>2. CASE i \in 0..c BY <1>8, <2>2
  <2> QED BY <1>3, <2>1, <2>2
<1>10. IsLevel(caller) /\ IsLevel(Level(n, c + 2)) /\ Up(caller, Level(n, c + 2))
  <2>1. IsLevel(Level(q, c + 1)) BY <1>1, <1>3 DEF Piled
  <2>2. IsLevel(caller) BY <1>7, <2>1 DEF IsLevel
  <2>3. Len(q.stack) \in Nat /\ q.scopes \in Nat /\ Len(q.handlers) \in Nat BY <1>4, <2>1 DEF IsLevel
  <2> QED BY <1>6, <2>2, <2>3 DEF IsLevel, Up
<1>11. Piled(n)
  <2>1. \A i \in 0..(c + 2) : IsLevel(Level(n, i))
    <3>1. \A i \in 0..(c + 1) : IsLevel(Level(n, i))
      <4>1. \A i \in 0..(c + 1) : IsLevel(Level(q, i)) BY <1>1, <1>3 DEF Piled
      <4> QED BY <1>9, <4>1 DEF IsLevel
    <3> QED BY <1>3, <1>10, <3>1
  <2>2. ASSUME NEW i \in 0..(c + 2), NEW j \in 0..(c + 2), i <= j PROVE Up(Level(n, i), Level(n, j))
    <3>1. CASE j <= c + 1
      <4>1. i \in 0..(c + 1) /\ j \in 0..(c + 1) BY <1>3, <2>2, <3>1
      <4>2. Up(Level(q, i), Level(q, j)) BY <1>1, <1>3, <2>2, <4>1 DEF Piled
      <4> QED BY <1>9, <4>1, <4>2 DEF Up
    <3>2. CASE i <= c + 1 /\ j = c + 2
      <4>1. i \in 0..(c + 1) /\ c + 1 \in 0..(c + 1) BY <1>3, <3>2
      <4>2. Up(Level(q, i), Level(q, c + 1)) BY <1>1, <1>3, <3>2, <4>1 DEF Piled
      <4>3. Up(Level(n, i), caller) BY <1>7, <1>9, <4>1, <4>2 DEF Up
      <4>4. IsLevel(Level(n, i)) BY <2>1
      <4>5. Up(Level(n, i), Level(n, c + 2))
        BY <1>10, <4>3, <4>4, UpTwice
      <4> QED BY <3>2, <4>5
    <3>3. CASE i = c + 2 /\ j = c + 2 BY <1>10, <3>3 DEF Up, IsLevel
    <3> QED BY <1>3, <2>2, <3>1, <3>2, <3>3
  <2> QED BY <1>6, <2>1, <2>2 DEF Piled
<1>12. ASSUME NEW g, NEW p, NEW i \in 1..(c + 1), Stands(q.handlers, g, p, 2, Level(q, i - 1), Level(q, i))
       PROVE  Stands(n.handlers, g, p, 2, Level(n, i - 1), Level(n, i))
  <2>1. i - 1 \in 0..c BY <1>3
  <2>2. Level(n, i - 1) = Level(q, i - 1) BY <1>8, <2>1
  <2> QED BY <1>9, <1>12, <2>2 DEF Stands
<1>13. Callers(n)
  <2> SUFFICES ASSUME NEW i \in 1..(c + 1)
               PROVE  /\ \E p : /\ n.calls[i].pc = p + 1 /\ OpAt(n.calls[i].cur, p) \in {"call", "callMethod"}
                                /\ Stands(n.handlers, n.calls[i].cur, p, 2, Level(n, i - 1), Level(n, i))
                      /\ i > 1 => n.calls[i].cur \in Sync
    BY <1>5 DEF Callers
  <2>1. CASE i \in 1..c
    <3>1. PICK p : /\ q.calls[i].pc = p + 1 /\ OpAt(q.calls[i].cur, p) \in {"call", "callMethod"}
                   /\ Stands(q.handlers, q.calls[i].cur, p, 2, Level(q, i - 1), Level(q, i))
      BY <1>1, <2>1 DEF Callers, c
    <3>2. i > 1 => q.calls[i].cur \in Sync BY <1>1, <2>1 DEF Callers, c
    <3> QED BY <1>5, <1>12, <2>1, <3>1, <3>2
  <2>2. CASE i = c + 1
    <3>1. Stands(q.handlers, q.cur, pc, 2, Level(q, c), Level(q, c + 1)) BY <1>2, <1>3 DEF TopAt, Below, c
    <3>2. Level(q, c) = Level(q, i - 1) BY <1>3, <2>2
    <3>3. Stands(n.handlers, q.cur, pc, 2, Level(n, i - 1), Level(n, i)) BY <1>12, <2>2, <3>1, <3>2
    <3>4. i > 1 => q.calls # << >> BY <1>1, <1>3, <2>2, ListedFacts DEF IsExec, c
    <3> QED BY <1>2, <1>5, <2>2, <3>3, <3>4 DEF TopAt
  <2>3. i \in 1..c \/ i = c + 1 BY <1>3
  <2> QED BY <2>1, <2>2, <2>3
<1>14. TopAt(n, 1, 0)
  <2>1. fn \in DOMAIN chunks BY DEF Sync
  <2>2. 1 \in Places(fn) /\ DepthAt(fn, 1) = 0 /\ Kept(fn)[1] = Fresh BY <2>1, StartsSound
  <2>3. 0 \in 0..Pops(OpAt(fn, 1)) BY PopsFew
  <2>4. Len(q.stack) \in Nat /\ Len(q.handlers) \in Nat BY <1>10 DEF IsLevel
  <2>5. Stands(n.handlers, fn, 1, 0, caller, Level(n, c + 2)) BY <1>6, <2>1, <2>2, <2>3, <2>4 DEF Stands, Fresh
  <2> QED BY <1>6, <1>7, <2>5 DEF TopAt
<1> QED BY <1>11, <1>13, <1>14 DEF Running, Good

\* A call in the same exec.
LEMMA CallRuns ==
  ASSUME IInv, DoCallInline
  PROVE  Running(exec') \/ exec'.end = "throw"
<1> DEFINE q == Pop(Pop(Past))
<1>1. /\ At("call") \/ At("callMethod")
      /\ Callee \in Sync /\ Callee \in DOMAIN chunks
  BY DEF DoCallInline, Calls, Sync
<1>2. /\ Calling(q) /\ Alike(q, exec) /\ Len(q.stack) = Len(exec.stack) - 2 /\ q.pc = exec.pc + 1
      /\ Len(exec.stack) >= 2
  BY <1>1, Called
<1>3. PICK o : At(o) BY <1>1
<1>4. AllSound /\ IsExec(exec) /\ exec.end = "running" BY <1>3, Here
<1>5. Alike(Past, exec) /\ Past.stack = exec.stack /\ Past.pc = exec.pc + 1 BY <1>4, PastAlike
<1> HIDE DEF q
<1>6. CASE exec' = Thrown(Past, RangeError)
  <2>1. 0 \in 0..Pops(o) BY PopsFew
  <2>2. Len(exec.stack) \in Nat BY <1>3, Here
  <2>3. Len(Past.stack) = Len(exec.stack) - 0 BY <1>5, <2>2
  <2>4. Good(Past) /\ TopAt(Past, exec.pc, 0) BY <1>3, <1>5, <2>1, <2>3, Partly
  <2>5. Past.end = "running" BY <1>4, <1>5 DEF Alike
  <2> QED BY <1>4, <1>6, <2>4, <2>5, ThrownRuns
<1>7. CASE exec' = PushInline(Past, Callee)
  <2> DEFINE caller == [cur |-> Past.cur, pc |-> Past.pc, base |-> Past.base, scopes |-> Past.scopes,
                        handlers |-> Len(Past.handlers), stack |-> Len(Past.stack) - 2]
             frame == Past.frame \o <<Last(Past.stack)>> \o [i \in 1..(chunks[Callee].n - 1) |-> Null]
             n == PushInline(Past, Callee)
  <2>1. /\ caller.cur = exec.cur /\ caller.pc = exec.pc + 1 /\ caller.stack = Len(exec.stack) - 2
        /\ caller.scopes = exec.scopes /\ caller.handlers = Len(exec.handlers)
    BY <1>5 DEF Alike
  <2>2. Past = [f \in Fields |-> Past[f]] /\ Listed(Past.calls) /\ Listed(Past.handlers) /\ Listed(Past.stack)
    BY <1>5 DEF Alike, IsExec
  <2>3. n = [Past EXCEPT !.calls = Append(@, caller), !.frame = frame, !.base = Len(Past.frame),
                         !.stack = Front(Front(@)), !.scopes = @ + 1, !.cur = Callee, !.pc = 1]
    BY DEF PushInline
  <2> HIDE DEF caller, frame, n
  <2>4. /\ n = [f \in Fields |-> n[f]] /\ n.calls = Append(Past.calls, caller) /\ n.stack = Front(Front(Past.stack))
        /\ n.scopes = Past.scopes + 1 /\ n.cur = Callee /\ n.pc = 1 /\ n.end = Past.end /\ n.handlers = Past.handlers
    BY <2>2, <2>3 DEF Fields
  <2>5. Listed(Front(Front(Past.stack))) /\ Len(Front(Front(Past.stack))) = Len(exec.stack) - 2
    <3>1. Len(Past.stack) = Len(exec.stack) /\ Len(exec.stack) \in Nat BY <1>3, <1>5, Here
    <3>2. Listed(Front(Past.stack)) /\ Len(Front(Past.stack)) = Len(exec.stack) - 1 BY <1>2, <2>2, <3>1, Fronted
    <3>3. Len(Front(Past.stack)) > 0 /\ (Len(exec.stack) - 1) - 1 = Len(exec.stack) - 2 BY <1>2, <3>1, <3>2
    <3> QED BY <3>2, <3>3, Fronted
  <2>6. Listed(n.calls)
    <3>1. Listed(Append(Past.calls, caller)) BY <2>2, Appended
    <3> QED BY <2>4, <3>1
  <2>7. IsExec(n) BY <2>2, <2>4, <2>5, <2>6 DEF IsExec
  <2>8. /\ q.cur = exec.cur /\ q.scopes = exec.scopes /\ q.handlers = exec.handlers /\ q.calls = exec.calls
        /\ Past.scopes = exec.scopes /\ Past.handlers = exec.handlers /\ Past.calls = exec.calls /\ Past.end = "running"
    BY <1>2, <1>4, <1>5 DEF Alike
  <2>9. /\ caller.cur = q.cur /\ caller.pc = q.pc /\ caller.stack = Len(q.stack) /\ caller.scopes = q.scopes
        /\ caller.handlers = Len(q.handlers)
        /\ n.end = "running" /\ n.calls = Append(q.calls, caller) /\ Len(n.stack) = Len(q.stack)
        /\ n.scopes = q.scopes + 1 /\ n.handlers = q.handlers /\ n.cur = Callee /\ n.pc = 1
    BY <1>1, <1>2, <1>4, <2>1, <2>4, <2>5, <2>8
  <2>10. Running(n) BY <1>1, <1>2, <1>4, <2>7, <2>9, InlineRuns
  <2> QED BY <1>7, <2>10 DEF n
<1> QED BY <1>6, <1>7 DEF DoCallInline, Step

\* Back to a caller within the exec, or out of it.
LEMMA ReturnedRuns ==
  ASSUME AllSound, NEW m, Good(m), m.end = "running", NEW v
  PROVE  Running(Returned(m, v)) \/ Returned(m, v).end = "done"
<1>1. IsExec(m) BY DEF Good
<1>2. CASE m.calls # << >>
  <2>1. Len(m.calls) \in 1..Len(m.calls) BY <1>1, <1>2, ListedFacts DEF IsExec
  <2>2. Calling(Unwound(m, Len(m.calls))) BY <2>1, UnwoundCalls
  <2> QED BY <1>2, <2>2, PushedRuns DEF Returned
<1>3. CASE m.calls = << >>
  <2>1. Returned(m, v) = GivenBack(m, "done", v) BY <1>3 DEF Returned
  <2>2. m = [f \in Fields |-> m[f]] BY <1>1 DEF IsExec
  <2> QED BY <2>1, <2>2 DEF GivenBack, Fields
<1> QED BY <1>2, <1>3

\* The two ways to return.
LEMMA ReturnRuns ==
  ASSUME IInv, DoReturn \/ DoReturnNull
  PROVE  Running(exec') \/ exec'.end = "done"
<1>1. CASE DoReturn
  <2>1. At("return") /\ exec' = Returned(Pop(exec), Top(1)) BY <1>1 DEF DoReturn, Step
  <2>2. Pops("return") = 1 BY DEF Pops
  <2>3. AllSound /\ Alike(exec, exec) /\ exec.end = "running" /\ Len(exec.stack) >= 1 /\ Len(exec.stack) \in Nat
    BY <2>1, <2>2, Here
  <2>4. Alike(Pop(exec), exec) /\ Len(Pop(exec).stack) = Len(exec.stack) - 1 BY <2>3, PopAlike
  <2>5. Good(Pop(exec)) BY <2>1, <2>2, <2>4, Partly
  <2>6. Pop(exec).end = "running" BY <2>3, <2>4 DEF Alike
  <2> QED BY <2>1, <2>3, <2>5, <2>6, ReturnedRuns
<1>2. CASE DoReturnNull
  <2>1. At("returnNull") /\ exec' = Returned(exec, Null) BY <1>2 DEF DoReturnNull, Step
  <2>2. AllSound /\ Good(exec) /\ exec.end = "running" BY <2>1, Here
  <2> QED BY <2>1, <2>2, ReturnedRuns
<1> QED BY <1>1, <1>2

\* Good, whatever the end and the value.
LEMMA GivenBackFacts ==
  ASSUME AllSound, NEW m, Good(m), NEW pc, NEW taken, TopAt(m, pc, taken), NEW end, NEW v
  PROVE  LET n == GivenBack(m, end, v)
         IN /\ Good(n) /\ TopAt(n, pc, taken) /\ Below(n) = Below(m)
            /\ n.end = end /\ n.calls = m.calls /\ n.cur = m.cur /\ n.pc = m.pc /\ n.stack = m.stack
            /\ n.handlers = m.handlers /\ n.scopes = m.scopes
<1> DEFINE n == GivenBack(m, end, v)
<1>1. IsExec(m) /\ Piled(m) /\ Callers(m) BY DEF Good
<1>2. n = [f \in Fields |-> n[f]] /\ n.end = end /\ n.calls = m.calls /\ n.cur = m.cur /\ n.pc = m.pc
      /\ n.stack = m.stack /\ n.handlers = m.handlers /\ n.scopes = m.scopes
  BY <1>1 DEF IsExec, GivenBack, Fields
<1> HIDE DEF n
<1>3. IsExec(n) BY <1>1, <1>2 DEF IsExec
<1>4. Frames(n) = Frames(m) /\ \A i : Level(n, i) = Level(m, i) BY <1>2 DEF Frames, Level
<1>5. Below(n) = Below(m) BY <1>2, <1>4 DEF Below
<1>6. Piled(n) BY <1>1, <1>4 DEF Piled
<1>7. Callers(n) BY <1>1, <1>2, <1>4 DEF Callers
<1>8. TopAt(n, pc, taken) BY <1>2, <1>4, <1>5 DEF TopAt
<1> QED BY <1>2, <1>3, <1>5, <1>6, <1>7, <1>8 DEF Good, n

\* A coroutine waits in its own frame: what it calls never awaits.
LEMMA AwaitRuns ==
  ASSUME IInv, DoAwait
  PROVE  Awaiting(exec') /\ exec'.end = "await"
<1>1. At("await") /\ exec' = GivenBack(Pop(Past), "await", Top(1)) BY DEF DoAwait, Step
<1>2. Pops("await") = 1 BY DEF Pops
<1>3. /\ AllSound /\ IsExec(exec) /\ exec.end = "running" /\ Len(exec.stack) >= 1 /\ Len(exec.stack) \in Nat
      /\ exec.cur \in DOMAIN chunks /\ OpAt(exec.cur, exec.pc) = "await" /\ TopAt(exec, exec.pc, 0)
  BY <1>1, <1>2, Here
<1>4. Alike(Past, exec) /\ Past.stack = exec.stack /\ Past.pc = exec.pc + 1 BY <1>3, PastAlike
<1>5. Alike(Pop(Past), exec) /\ Len(Pop(Past).stack) = Len(exec.stack) - 1 /\ Pop(Past).pc = exec.pc + 1
  <2>1. Len(Past.stack) > 0 BY <1>3, <1>4
  <2> QED BY <1>4, <2>1, PopAlike
<1>6. Good(Pop(Past)) /\ TopAt(Pop(Past), exec.pc, 1) BY <1>1, <1>2, <1>5, Partly
<1>7. exec.calls = << >>
  <2>1. exec.pc \in DOMAIN chunks[exec.cur].code BY <1>1, OwnFacts
  <2>2. chunks[exec.cur].code[exec.pc].op = "await" BY <1>3 DEF OpAt
  <2>3. exec.cur \notin Sync BY <2>1, <2>2 DEF Sync
  <2> QED BY <1>3, <2>3 DEF TopAt
<1> DEFINE n == GivenBack(Pop(Past), "await", Top(1))
<1>8. /\ Good(n) /\ TopAt(n, exec.pc, 1) /\ n.end = "await" /\ n.calls = Pop(Past).calls
      /\ n.cur = Pop(Past).cur /\ n.pc = Pop(Past).pc
  BY <1>3, <1>6, GivenBackFacts
<1> HIDE DEF n
<1>9. n.calls = << >> /\ n.cur = exec.cur /\ n.pc = exec.pc + 1 BY <1>5, <1>7, <1>8 DEF Alike
<1>10. Awaiting(n) BY <1>3, <1>8, <1>9 DEF Awaiting
<1> QED BY <1>1, <1>8, <1>10 DEF n

\* A coroutine goes on with the value, or with the error.
LEMMA ResumeRuns ==
  ASSUME IInv, Resume
  PROVE  Running(exec') \/ exec'.end = "throw"
<1> DEFINE m == GivenBack(exec, "running", Null)
<1>1. AllSound /\ Awaiting(exec) BY DEF IInv, Resume
<1>2. PICK pc : exec.pc = pc + 1 /\ OpAt(exec.cur, pc) = "await" /\ TopAt(exec, pc, 1) BY <1>1 DEF Awaiting
<1>3. Good(exec) /\ exec.calls = << >> BY <1>1 DEF Awaiting
<1>4. /\ Good(m) /\ TopAt(m, pc, 1) /\ m.end = "running" /\ m.calls = << >> /\ m.cur = exec.cur /\ m.pc = pc + 1
  BY <1>1, <1>2, <1>3, GivenBackFacts
<1>5. \/ exec' = Push(m, 1)
      \/ m.handlers = << >> /\ exec' = GivenBack(m, "throw", exec.v)
      \/ m.handlers # << >> /\ exec' = Handled(m, exec.v)
  BY DEF Resume, Step
<1> HIDE DEF m
<1>6. /\ m.cur \in DOMAIN chunks /\ pc \in Places(m.cur) /\ IsLevel(Below(m)) /\ IsExec(m)
      /\ Len(m.stack) \in Nat /\ Len(m.stack) + 1 = Below(m).stack + DepthAt(m.cur, pc) /\ DepthAt(m.cur, pc) \in Nat
      /\ Len(m.handlers) = Below(m).handlers + Len(Kept(m.cur)[pc].handlers)
      /\ Len(Kept(m.cur)[pc].handlers) \in Nat
  BY <1>1, <1>4, TopFacts
<1>7. CASE exec' = Push(m, 1)
  <2> DEFINE n == Push(m, 1)
  <2>1. /\ pc + 1 \in Places(m.cur) /\ DepthAt(m.cur, pc + 1) = DepthAt(m.cur, pc) - 1 + 1
        /\ Kept(m.cur)[pc + 1] = Kept(m.cur)[pc]
    <3>1. FallsThrough(OpAt(m.cur, pc)) BY <1>2, <1>4 DEF FallsThrough
    <3>2. Pops(OpAt(m.cur, pc)) = 1 /\ Pushes(OpAt(m.cur, pc)) = 1 BY <1>2, <1>4 DEF Pops, Pushes
    <3>3. Onwards(chunks[m.cur].code[pc], DepthAt(m.cur, pc), Kept(m.cur)[pc]) = Kept(m.cur)[pc]
      BY <1>2, <1>4 DEF Onwards, OpAt
    <3> QED BY <1>1, <1>6, <3>1, <3>2, <3>3, Through
  <2>2. Alike(m, m) BY <1>6 DEF Alike
  <2>3. Alike(n, m) /\ Len(n.stack) = Len(m.stack) + 1 /\ n.pc = m.pc BY <2>2, PushAlike
  <2> HIDE DEF n
  <2>4. Len(n.stack) = Below(m).stack + DepthAt(m.cur, n.pc) BY <1>4, <1>6, <2>1, <2>3 DEF IsLevel
  <2>5. /\ IsExec(n) /\ n.end = "running" /\ n.calls = m.calls /\ n.cur = m.cur /\ n.pc \in Places(m.cur)
        /\ n.scopes = m.scopes /\ n.handlers = m.handlers /\ Kept(m.cur)[n.pc] = Kept(m.cur)[pc]
    BY <1>4, <2>1, <2>3 DEF Alike
  <2>6. Running(n) BY <1>1, <1>4, <2>4, <2>5, GoesOnSame
  <2> QED BY <1>7, <2>6 DEF n
<1>8. CASE exec' = GivenBack(m, "throw", exec.v)
  <2>1. m = [f \in Fields |-> m[f]] BY <1>6 DEF IsExec
  <2> QED BY <1>8, <2>1 DEF GivenBack, Fields
<1>9. CASE m.handlers # << >> /\ exec' = Handled(m, exec.v)
  <2>1. Below(m).handlers = 0 BY <1>4 DEF Below, Level, Bottom
  <2>2. Len(m.handlers) # 0 BY <1>6, <1>9, ListedFacts DEF IsExec
  <2>3. Kept(m.cur)[pc].handlers # << >> BY <1>6, <2>1, <2>2
  <2> QED BY <1>1, <1>4, <1>9, <2>3, HandledRuns
<1> QED BY <1>5, <1>7, <1>8, <1>9

(***************************************************************************)
(* Every step.                                                             *)
(***************************************************************************)
\* Chunks do not change: what holds of a state of exec goes on to hold of it.
LEMMA Carried ==
  ASSUME chunks' = chunks, AllSound,
         Listed(outer'), \A j \in 1..Len(outer') : Calling(outer'[j]),
         \/ exec'.end \in {"done", "throw"}
         \/ Running(exec')
         \/ exec'.end = "await" /\ Awaiting(exec')
  PROVE  IInv'
<1>1. AllSound' BY DEF AllSound, Sound
<1>2. \A m : Good(m) = Good(m)'
  BY DEF Good, IsExec, Piled, Callers, Stands, Places, OpAt, DepthAt, Kept, Sync
<1>3. \A m : (Running(m) => Running(m)') /\ (Calling(m) => Calling(m)') /\ (Awaiting(m) => Awaiting(m)')
  <2>1. ASSUME NEW m, NEW pc, NEW taken, TopAt(m, pc, taken)
        PROVE  TopAt(m, pc, taken)'
    <3>1. Sync' = Sync BY DEF Sync
    <3>2. \A fn : Places(fn)' = Places(fn) /\ Kept(fn)' = Kept(fn) BY DEF Places, Kept
    <3>3. \A fn, at : OpAt(fn, at)' = OpAt(fn, at) /\ DepthAt(fn, at)' = DepthAt(fn, at) BY DEF OpAt, DepthAt
    <3>4. Stands(m.handlers, m.cur, pc, taken, Below(m), Level(m, Frames(m)))'
      BY <2>1, <3>2, <3>3 DEF TopAt, Stands
    <3> QED BY <2>1, <3>1, <3>4 DEF TopAt
  <2>2. \A m : Running(m) => Running(m)' BY <1>2, <2>1 DEF Running
  <2>3. \A m : Calling(m) => Calling(m)' BY <1>2, <2>1 DEF Calling, OpAt
  <2>4. \A m : Awaiting(m) => Awaiting(m)' BY <1>2, <2>1 DEF Awaiting, OpAt
  <2> QED BY <2>2, <2>3, <2>4
<1>4. (exec.end = "running" => Running(exec))'
  <2>1. exec'.end = "running" => Running(exec') OBVIOUS
  <2> QED BY <1>3, <2>1
<1>5. (exec.end = "await" => Awaiting(exec))'
  <2>1. exec'.end = "await" => Awaiting(exec') BY DEF Running
  <2> QED BY <1>3, <2>1
<1>6. (Listed(outer) /\ \A j \in 1..Len(outer) : Calling(outer[j]))' BY <1>3
<1>7. (exec.end \in {"running", "await", "done", "throw"})' BY DEF Running
<1> QED BY <1>1, <1>4, <1>5, <1>6, <1>7 DEF IInv

\* The invariant is inductive.
LEMMA Inductive ==
  ASSUME IInv, [Instruction]_vars
  PROVE  IInv'
<1>1. AllSound /\ Listed(outer) /\ \A j \in 1..Len(outer) : Calling(outer[j]) BY DEF IInv
<1>2. CASE Plain \/ DoPushScope \/ DoPopScope \/ DoPushHandler \/ DoPopHandler
  <2>1. Running(exec') BY <1>2, PlainRuns, ScopeRuns, HandlerRuns
  <2>2. chunks' = chunks /\ outer' = outer
    BY <1>2, PlainRuns DEF DoPushScope, DoPopScope, DoPushHandler, DoPopHandler, Step
  <2> QED BY <1>1, <2>1, <2>2, Carried
<1>3. CASE DoThrow \/ DoCallInline \/ DoReturn \/ DoReturnNull \/ DoAwait \/ Resume
  <2>1. exec'.end \in {"done", "throw"} \/ Running(exec') \/ (exec'.end = "await" /\ Awaiting(exec'))
    <3>1. CASE DoThrow BY <3>1, ThrowRuns
    <3>2. CASE DoCallInline BY <3>2, CallRuns
    <3>3. CASE DoReturn \/ DoReturnNull BY <3>3, ReturnRuns
    <3>4. CASE DoAwait BY <3>4, AwaitRuns
    <3>5. CASE Resume BY <3>5, ResumeRuns
    <3> QED BY <1>3, <3>1, <3>2, <3>3, <3>4, <3>5
  <2>2. chunks' = chunks /\ outer' = outer
    BY <1>3 DEF DoThrow, DoCallInline, DoReturn, DoReturnNull, DoAwait, Resume, Step
  <2> QED BY <1>1, <2>1, <2>2, Carried
<1>4. CASE DoCall
  <2> DEFINE m == Pop(Pop(Past))
  <2>1. At("call") \/ At("callMethod") BY <1>4 DEF DoCall, Calls
  <2>2. Calling(m) /\ TopAt(m, exec.pc, 2) /\ Good(m) /\ m.end = "running" BY <2>1, Called
  <2>3. CASE Step(Thrown(m, RangeError))
    <3>1. chunks' = chunks /\ outer' = outer /\ exec' = Thrown(m, RangeError) BY <2>3 DEF Step
    <3> HIDE DEF m
    <3>2. Running(exec') \/ exec'.end = "throw" BY <1>1, <2>2, <3>1, ThrownRuns
    <3> QED BY <1>1, <3>1, <3>2, Carried
  <2>4. CASE /\ outer' = Append(outer, m) /\ exec' = Start(Callee, Top(1), chunks[Callee].n)
             /\ UNCHANGED <<chunks, log>>
    <3>1. Callee \in DOMAIN chunks BY <1>4 DEF DoCall, Calls, Sync
    <3>2. Running(exec') BY <1>1, <2>4, <3>1, StartRuns
    <3> HIDE DEF m
    <3>3. Listed(outer') /\ \A j \in 1..Len(outer') : Calling(outer'[j])
      <4>1. /\ Listed(outer') /\ Len(outer') = Len(outer) + 1 /\ outer'[Len(outer) + 1] = m
            /\ \A i \in 1..Len(outer) : outer'[i] = outer[i]
        BY <1>1, <2>4, Appended
      <4>2. Len(outer) \in Nat BY <1>1, ListedFacts
      <4>3. \A j \in 1..(Len(outer) + 1) : j \in 1..Len(outer) \/ j = Len(outer) + 1 BY <4>2
      <4> QED BY <1>1, <2>2, <4>1, <4>3
    <3> QED BY <1>1, <2>4, <3>2, <3>3, Carried
  <2> QED BY <1>4, <2>3, <2>4 DEF DoCall
<1>5. CASE CallEnds
  <2> DEFINE m == Last(outer)
  <2>1. /\ outer # << >> /\ outer' = Front(outer) /\ chunks' = chunks
        /\ exec' = Push(m, exec.v) \/ exec' = Thrown(m, exec.v)
    BY <1>5 DEF CallEnds
  <2>2. Len(outer) \in Nat /\ Len(outer) > 0 BY <1>1, <2>1, ListedFacts
  <2>3. /\ Listed(outer') /\ Len(outer') = Len(outer) - 1 /\ \A i \in 1..(Len(outer) - 1) : outer'[i] = outer[i]
        /\ m = outer[Len(outer)]
    BY <1>1, <2>1, <2>2, Fronted
  <2>4. \A j \in 1..Len(outer') : Calling(outer'[j]) BY <1>1, <2>2, <2>3
  <2>5. Calling(m) BY <1>1, <2>2, <2>3
  <2> HIDE DEF m
  <2>6. PICK pc : TopAt(m, pc, 2) BY <2>5 DEF Calling
  <2>7. Good(m) /\ m.end = "running" BY <2>5 DEF Calling
  <2>8. Running(exec') \/ exec'.end = "throw" BY <1>1, <2>1, <2>5, <2>6, <2>7, PushedRuns, ThrownRuns
  <2> QED BY <1>1, <2>1, <2>3, <2>4, <2>8, Carried
<1>6. CASE UNCHANGED vars
  <2>1. chunks' = chunks /\ exec' = exec /\ outer' = outer BY <1>6 DEF vars
  <2>2. exec'.end \in {"done", "throw"} \/ Running(exec') \/ (exec'.end = "await" /\ Awaiting(exec'))
    <3>1. exec.end \in {"done", "throw"} \/ Running(exec) \/ (exec.end = "await" /\ Awaiting(exec)) BY DEF IInv
    <3> QED BY <2>1, <3>1
  <2> QED BY <1>1, <2>1, <2>2, Carried
<1> QED BY <1>2, <1>3, <1>4, <1>5, <1>6 DEF Instruction, Plain

\* The machine starts right.
LEMMA Initially ==
  ASSUME Loaded, AllSound
  PROVE  IInv
<1>1. "main" \in DOMAIN chunks /\ exec = Start("main", 0, chunks.main.n) /\ outer = << >> BY DEF Loaded
<1>2. chunks.main = chunks["main"] OBVIOUS
<1>3. Running(exec) BY <1>1, <1>2, StartRuns
<1>4. exec.end = "running" BY <1>3 DEF Running
<1>5. Listed(outer) /\ Len(outer) = 0 BY <1>1 DEF Listed
<1> QED BY <1>3, <1>4, <1>5 DEF IInv

\* ... and stays so.
LEMMA AlwaysIInv == Runs /\ AllSound => []IInv
<1>1. Loaded /\ AllSound => IInv BY Initially
<1>2. IInv /\ [Instruction]_vars => IInv' BY Inductive
<1> QED BY <1>1, <1>2, PTL DEF Runs

\* What it says of the operands ...
LEMMA VerifiedDepth ==
  ASSUME IInv
  PROVE  StackAsVerified
<1> SUFFICES ASSUME exec.end = "running"
             PROVE  /\ exec.pc \in DOMAIN chunks[exec.cur].depths
                    /\ chunks[exec.cur].depths[exec.pc] + Below(exec).stack = Len(exec.stack)
  BY DEF StackAsVerified
<1>1. AllSound /\ Good(exec) /\ TopAt(exec, exec.pc, 0) BY DEF IInv, Running
<1>2. /\ exec.pc \in Places(exec.cur) /\ IsLevel(Below(exec)) /\ Len(exec.stack) \in Nat
      /\ Len(exec.stack) + 0 = Below(exec).stack + DepthAt(exec.cur, exec.pc) /\ DepthAt(exec.cur, exec.pc) \in Nat
  BY <1>1, TopFacts
<1> QED BY <1>2 DEF Places, DepthAt, IsLevel

\* ... and of a frame at its end.
LEMMA FrameClean ==
  ASSUME IInv
  PROVE  NothingLeft
<1> SUFFICES ASSUME At("returnNull")
             PROVE  /\ Len(exec.handlers) = Below(exec).handlers /\ exec.scopes = Below(exec).scopes + 1
                    /\ Len(exec.stack) = Below(exec).stack
  BY DEF NothingLeft
<1>1. /\ IsLevel(Below(exec)) /\ exec.scopes = Below(exec).scopes + Kept(exec.cur)[exec.pc].scopes
      /\ Len(exec.handlers) = Below(exec).handlers + Len(Kept(exec.cur)[exec.pc].handlers)
      /\ DepthAt(exec.cur, exec.pc) = 0 /\ Kept(exec.cur)[exec.pc] = Fresh
  BY OwnFacts
<1>2. Len(exec.stack) = Below(exec).stack + DepthAt(exec.cur, exec.pc) BY Here
<1> QED BY <1>1, <1>2 DEF Fresh, IsLevel

\* The verifier (analyze) is right about the operand stack: whatever calls,
\* throws and suspensions lie behind, exec is at a place it reached, and the
\* running frame has as many operands as it worked out for it.
THEOREM OperandsAsVerified == Runs /\ AllSound => []StackAsVerified
<1>1. IInv => StackAsVerified BY VerifiedDepth
<1> QED BY <1>1, AlwaysIInv, PTL

\* A frame that ends by falling off its end (ReturnNull) has popped every
\* handler, scope and operand it pushed, on whatever way it came there.
THEOREM FramesEndClean == Runs /\ AllSound => []NothingLeft
<1>1. IInv => NothingLeft BY FrameClean
<1> QED BY <1>1, AlwaysIInv, PTL

\* An await never suspends with inlined calls pending, whose frames the
\* coroutine would lose: inlinable refuses async callees.
THEOREM NothingLostAtAwait == Runs /\ AllSound => []AwaitsAlone
<1>1. IInv => AwaitsAlone BY DEF IInv, AwaitsAlone, Awaiting
<1> QED BY <1>1, AlwaysIInv, PTL

\* There is always a scope: expect("scope") of the machine does not panic.
THEOREM NeverPanics == Runs /\ AllSound => [](exec.end # "panic")
<1>1. IInv => exec.end # "panic" BY DEF IInv
<1> QED BY <1>1, AlwaysIInv, PTL
=============================================================================
