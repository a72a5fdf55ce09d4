------------------------------ MODULE GcProofs ------------------------------
(***************************************************************************)
(* Proofs about the heap of module Gc, for every set of addresses, slots   *)
(* and contexts: its types, and, for one context whose calls do not nest   *)
(* and whose stores are interpreted, that no collector ever empties an     *)
(* object a program holds (HeapInv is an invariant of Gc), that none       *)
(* leaves an unreachable one, and that the heap implements ManagedHeap.    *)
(* The hypotheses are needed: NoLiveSwept fails with a second context on   *)
(* the thread, with calls that nest (MaxDepth = 2), and with compiled      *)
(* stores (run gc_compiled).                                               *)
(***************************************************************************)
EXTENDS Gc, FiniteSetTheorems, SequenceTheorems, TLAPS

-----------------------------------------------------------------------------
(* Facts about ReachFrom and Freed.                                        *)

FieldsType == [Addr -> [Slots -> Addr \cup {Null}]]

\* Reachability holds its roots (the marker starts from each of them).
LEMMA ReachHoldsRoots ==
    ASSUME NEW f \in FieldsType, NEW R \in SUBSET Addr, NEW T
    PROVE  R \subseteq ReachFrom(f, R, T)
BY DEF ReachFrom

\* ... it is closed under the references of what is traversed ...
LEMMA ReachIsClosed ==
    ASSUME NEW f \in FieldsType, NEW R \in SUBSET Addr, NEW T,
           NEW a \in ReachFrom(f, R, T) \cap T, NEW s \in Slots, f[a][s] # Null
    PROVE  f[a][s] \in ReachFrom(f, R, T)
<1> DEFINE c == f[a][s]
<1>1. c \in Addr
  BY DEF FieldsType, ReachFrom
<1>2. ASSUME NEW S \in SUBSET (Addr \ {c}), R \subseteq S
      PROVE  \E b \in S \cap T, q \in Slots : f[b][q] \notin S \cup {Null}
  <2>1. CASE a \in S
    BY <2>1, <1>2
  <2>2. CASE a \notin S
    <3>1. S \in SUBSET (Addr \ {a})
      BY <2>2, <1>2
    <3> QED BY <3>1, <1>2 DEF ReachFrom
  <2> QED BY <2>1, <2>2
<1> QED BY <1>1, <1>2 DEF ReachFrom

\* ... and it is the least such set (the marker marks nothing else).
LEMMA ReachIsLeast ==
    ASSUME NEW f \in FieldsType, NEW R \in SUBSET Addr, NEW T, NEW Q \in SUBSET Addr,
           R \subseteq Q,
           \A b \in Q \cap T, s \in Slots : f[b][s] \in Q \cup {Null}
    PROVE  ReachFrom(f, R, T) \subseteq Q
<1> SUFFICES ASSUME NEW a \in ReachFrom(f, R, T), a \notin Q
             PROVE  FALSE
  OBVIOUS
<1>1. Q \in SUBSET (Addr \ {a})
  OBVIOUS
<1> QED BY <1>1 DEF ReachFrom

\* An object outside handles keep is not freed.
LEMMA FreedIsUnpinned ==
    ASSUME NEW f, NEW pins
    PROVE  Freed(f, pins) \subseteq alive \ pins
BY DEF Freed

\* What a freed object's holder is: freed too.  No reference dangles.
LEMMA HolderIsFreed ==
    ASSUME NEW f, NEW pins, NEW c \in Freed(f, pins), NEW r \in alive, NEW s \in Slots,
           f[r][s] = c
    PROVE  r \in Freed(f, pins)
<1> SUFFICES ASSUME r \notin Freed(f, pins) PROVE FALSE
  OBVIOUS
<1>1. PICK S \in SUBSET (alive \ pins) :
        /\ r \notin S
        /\ \A b \in alive \ (pins \cup S) : \E q \in alive \ S, t \in Slots : f[q][t] = b
  <2>1. CASE r \in pins
    <3>1. alive \ pins \in SUBSET (alive \ pins) /\ r \notin alive \ pins
      BY <2>1
    <3>2. \A b \in alive \ (pins \cup (alive \ pins)) : FALSE
      OBVIOUS
    <3> QED BY <3>1, <3>2
  <2>2. CASE r \notin pins
    <3>1. PICK S \in SUBSET (alive \ (pins \cup {r})) :
            ~ \E b \in alive \ (pins \cup S) :
                \A q \in alive \ S, t \in Slots : f[q][t] # b
      BY <2>2 DEF Freed
    <3> QED BY <3>1
  <2> QED BY <2>1, <2>2
<1> DEFINE U == S \ {c}
<1>2. U \in SUBSET (alive \ (pins \cup {c}))
  OBVIOUS
<1>3. PICK b \in alive \ (pins \cup U) : \A q \in alive \ U, t \in Slots : f[q][t] # b
  BY <1>2 DEF Freed
<1>4. b # c
  BY <1>1, <1>3
<1>5. b \in alive \ (pins \cup S)
  BY <1>3, <1>4
<1> QED BY <1>1, <1>3, <1>5

\* Dropping more references frees at least as much.
LEMMA FreedGrows ==
    ASSUME NEW f, NEW g, NEW pins, Null \notin alive,
           \A r \in alive, s \in Slots : g[r][s] = f[r][s] \/ g[r][s] = Null
    PROVE  Freed(f, pins) \subseteq Freed(g, pins)
<1> SUFFICES ASSUME NEW a \in Freed(f, pins), NEW S \in SUBSET (alive \ (pins \cup {a}))
             PROVE  \E b \in alive \ (pins \cup S) :
                        \A r \in alive \ S, s \in Slots : g[r][s] # b
  BY DEF Freed
<1>1. PICK b \in alive \ (pins \cup S) : \A r \in alive \ S, s \in Slots : f[r][s] # b
  BY DEF Freed
<1> QED BY <1>1

\* Two rounds suffice to free a set of cells G: nothing outside holds them,
\* and whoever still refers to one is a closure nothing refers to.
LEMMA ClearedIsFreed ==
    ASSUME NEW f, NEW pins, NEW G \in SUBSET (alive \ pins),
           \A r \in alive, s \in Slots : f[r][s] \in G =>
              /\ r \notin pins
              /\ \A q \in alive, t \in Slots : f[q][t] # r
    PROVE  G \subseteq Freed(f, pins)
<1> SUFFICES ASSUME NEW a \in G, NEW S \in SUBSET (alive \ (pins \cup {a}))
             PROVE  \E b \in alive \ (pins \cup S) :
                        \A r \in alive \ S, s \in Slots : f[r][s] # b
  BY DEF Freed
<1>1. CASE \A r \in alive \ S, s \in Slots : f[r][s] # a
  BY <1>1
<1>2. CASE \E r \in alive \ S, s \in Slots : f[r][s] = a
  BY <1>2
<1> QED BY <1>1, <1>2

-----------------------------------------------------------------------------
(* Types, for any number of contexts and any nesting of calls.             *)

ClosuresUnlisted == fns \cap Listed = {}
TypeInv == TypeOK /\ ClosuresUnlisted

FrameType == [ctx : Ctx, held : SUBSET Addr]
GcType == [phase : {"off", "boundary", "sweep", "promote"}, ctx : Ctx, major : BOOLEAN,
           marked : SUBSET Addr, work : SUBSET Addr, promoted : SUBSET Addr]

\* Between collections the collector's record says so.
LEMMA IdleType == Idle \in GcType /\ Idle.phase = "off"
<1> DEFINE c == CHOOSE c \in Ctx : TRUE
<1>1. c \in Ctx
  BY CtxNonempty
<1> HIDE DEF c
<1>2. Idle = [phase |-> "off", ctx |-> c, major |-> FALSE,
              marked |-> {}, work |-> {}, promoted |-> {}]
  BY DEF Idle, c
<1> QED BY <1>1, <1>2 DEF GcType

\* A call in progress has a context and a set of objects.
LEMMA FrameFacts ==
    ASSUME TypeOK, frames # <<>>
    PROVE  /\ Depth \in Nat \ {0}
           /\ Held \in SUBSET Addr
           /\ MyCtx \in Ctx
           /\ \A h \in SUBSET Addr : /\ Holding(h) \in Seq(FrameType)
                                    /\ Len(Holding(h)) = Depth
           /\ SubSeq(frames, 1, Depth - 1) \in Seq(FrameType)
           /\ Len(SubSeq(frames, 1, Depth - 1)) = Depth - 1
<1>1. frames \in Seq(FrameType)
  BY DEF TypeOK, FrameType
<1>2. Depth \in Nat \ {0}
  BY <1>1 DEF Depth
<1>3. frames[Depth] \in FrameType
  BY <1>1, <1>2 DEF Depth
<1>4. \A h \in SUBSET Addr : /\ Holding(h) \in Seq(FrameType)
                            /\ Len(Holding(h)) = Depth
  BY <1>1, <1>2, <1>3 DEF Depth, Holding, FrameType
<1>5. /\ SubSeq(frames, 1, Depth - 1) \in Seq(FrameType)
      /\ Len(SubSeq(frames, 1, Depth - 1)) = Depth - 1
  <2>1. \A i \in 1 .. Depth - 1 : frames[i] \in FrameType
    BY <1>1, <1>2 DEF Depth
  <2>2. Depth - 1 \in Int /\ (1 <= Depth - 1 => Depth - 1 - 1 + 1 = Depth - 1)
    BY <1>2
  <2> QED BY <2>1, <2>2, <1>2, SubSeqProperties
<1> QED BY <1>2, <1>3, <1>4, <1>5 DEF Held, MyCtx, FrameType

\* Whatever is dropped, the heap keeps its types.
LEMMA DropsType ==
    ASSUME TypeOK, NEW f \in FieldsType, NEW pins, NEW od \in SUBSET Addr,
           NEW rem \in SUBSET Addr, NEW sw \in SUBSET alive, Drops(f, pins, od, rem, sw)
    PROVE  /\ alive' \subseteq Addr /\ fns' \subseteq alive' /\ fns' \subseteq fns
           /\ fields' \in FieldsType
           /\ isOld' \subseteq alive' \ fns'
           /\ old' \subseteq Addr /\ old' \subseteq od /\ remembered' \subseteq Addr
           /\ swept' \subseteq alive'
<1>1. fields' \in FieldsType
  BY DEF Drops, FieldsType, Empty
<1> QED BY <1>1 DEF Drops, TypeOK

\* Clearing a set of cells leaves fields that are fields.
LEMMA ClearedType ==
    ASSUME TypeOK, NEW S
    PROVE  Cleared(S) \in FieldsType
BY DEF TypeOK, Cleared, FieldsType, Empty

\* The empty heap is well typed.
LEMMA TypeInit == Init => TypeInv
<1> SUFFICES ASSUME Init PROVE TypeInv
  OBVIOUS
<1> QED BY IdleType DEF GcType, Init, TypeInv, TypeOK, ClosuresUnlisted, Listed, Empty

\* Every step keeps the types, and closures off the lists.
LEMMA TypeStep == TypeInv /\ [Next]_vars => TypeInv'
<1> SUFFICES ASSUME TypeInv, [Next]_vars PROVE TypeInv'
  OBVIOUS
<1> USE DEF TypeInv
<1>1. CASE UNCHANGED vars
  BY <1>1 DEF vars, heap, TypeOK, ClosuresUnlisted, Listed
<1>2. ASSUME NEW c \in Ctx, Enter(c) PROVE TypeInv'
  <2>1. frames' \in Seq(FrameType)
    BY <1>2 DEF Enter, TypeOK, FrameType
  <2> QED BY <2>1, <1>2 DEF Enter, heap, TypeOK, ClosuresUnlisted, Listed, FrameType
<1>3. ASSUME NEW a \in Addr, LoadRoot(a) PROVE TypeInv'
  <2>1. frames' \in Seq(FrameType)
    BY <1>3, FrameFacts DEF LoadRoot, MayHoldMore, Running
  <2> QED BY <2>1, <1>3 DEF LoadRoot, heap, TypeOK, ClosuresUnlisted, Listed, FrameType
<1>4. ASSUME NEW a \in Addr, NEW s \in Slots, LoadField(a, s) PROVE TypeInv'
  <2>1. frames' \in Seq(FrameType)
    BY <1>4, FrameFacts DEF LoadField, MayHoldMore, Running, TypeOK
  <2> QED BY <2>1, <1>4 DEF LoadField, heap, TypeOK, ClosuresUnlisted, Listed, FrameType
<1>5. ASSUME NEW a \in Addr, DropLocal(a) PROVE TypeInv'
  <2>1. frames' \in Seq(FrameType)
    BY <1>5, FrameFacts DEF DropLocal, Running
  <2>2. fields \in FieldsType /\ old \in SUBSET Addr /\ remembered \in SUBSET Addr /\ swept \in SUBSET alive
    BY DEF TypeOK, FieldsType
  <2> QED BY <2>1, <2>2, <1>5, DropsType DEF DropLocal, TypeOK, ClosuresUnlisted, Listed, FrameType, FieldsType
<1>6. ASSUME NEW a \in Addr, New(a) PROVE TypeInv'
  <2>1. frames' \in Seq(FrameType)
    BY <1>6, FrameFacts DEF New, MayHoldMore, Running
  <2>2. /\ young' \subseteq young \cup {a} /\ before' \subseteq Addr \X Addr
    BY <1>6 DEF New, Register, TypeOK
  <2>3. a \notin fns
    BY <1>6 DEF New, Allocatable, TypeOK
  <2> QED BY <2>1, <2>2, <2>3, <1>6
          DEF New, MayHoldMore, Running, TypeOK, ClosuresUnlisted, Listed, FrameType
<1>7. ASSUME NEW a \in Addr, NewClosure(a) PROVE TypeInv'
  <2>1. frames' \in Seq(FrameType) /\ Held \subseteq Addr
    BY <1>7, FrameFacts DEF NewClosure, MayHoldMore, Running
  <2>2. fields' \in FieldsType
    BY <1>7, <2>1 DEF NewClosure, TypeOK, FieldsType
  <2>3. a \notin alive /\ a \notin Listed
    BY <1>7 DEF NewClosure, Allocatable, MayHoldMore, Running, Listed
  <2> QED BY <2>1, <2>2, <2>3, <1>7
          DEF NewClosure, TypeOK, ClosuresUnlisted, Listed, FrameType, FieldsType
<1>8. ASSUME NEW a \in Addr, NEW s \in Slots, NEW v \in Addr \cup {Null}, NEW tier \in Tiers,
            Store(a, s, v, tier)
      PROVE  TypeInv'
  <2> DEFINE f == [fields EXCEPT ![a][s] = v]
             rem == remembered \cup (IF tier = "jit" THEN {} ELSE NoteWrites({a}))
  <2>1. f \in FieldsType /\ old \in SUBSET Addr /\ rem \in SUBSET Addr /\ swept \in SUBSET alive
    BY DEF TypeOK, FieldsType, NoteWrites
  <2>2. Drops(f, Pins(rooted, frames), old, rem, swept) /\ UNCHANGED <<young, before, rooted, frames, gc>>
    BY <1>8 DEF Store
  <2> HIDE DEF f, rem
  <2> QED BY <2>1, <2>2, DropsType DEF TypeOK, ClosuresUnlisted, Listed, FieldsType
<1>9. ASSUME NEW a \in Addr, Root(a) PROVE TypeInv'
  <2>1. rooted' \in [Ctx -> SUBSET Addr]
    BY <1>9, FrameFacts DEF Root, Running, TypeOK
  <2> QED BY <2>1, <1>9 DEF Root, heap, TypeOK, ClosuresUnlisted, Listed
<1>10. ASSUME NEW c \in Ctx, NEW a \in Addr, Unroot(c, a) PROVE TypeInv'
  <2>1. rooted' \in [Ctx -> SUBSET Addr]
    BY <1>10 DEF Unroot, TypeOK
  <2>2. fields \in FieldsType /\ old \in SUBSET Addr /\ remembered \in SUBSET Addr /\ swept \in SUBSET alive
    BY DEF TypeOK, FieldsType
  <2> QED BY <2>1, <2>2, <1>10, DropsType DEF Unroot, TypeOK, ClosuresUnlisted, Listed, FieldsType
<1>11. ASSUME NEW thrown \in BOOLEAN, Leave(thrown) PROVE TypeInv'
  <2>1. frames' \in Seq(FrameType) /\ MyCtx \in Ctx
    BY <1>11, FrameFacts DEF Leave, Running
  <2>2. fields \in FieldsType /\ old \in SUBSET Addr /\ remembered \in SUBSET Addr /\ swept \in SUBSET alive
    BY DEF TypeOK, FieldsType
  <2>3. gc' \in GcType /\ gc'.phase \in {"off", "boundary"}
    BY <2>1, <1>11 DEF Leave, Running, TypeOK, GcType
  <2>4. Drops(fields, Pins(rooted, frames'), old, remembered, swept)
    BY <1>11 DEF Leave
  <2>5. UNCHANGED <<young, before, rooted>>
    BY <1>11 DEF Leave
  <2> QED BY <2>1, <2>2, <2>3, <2>4, <2>5, DropsType
          DEF TypeOK, ClosuresUnlisted, Listed, FrameType, FieldsType, GcType
<1>12. CASE MaybeCollect
  <2>1. \A R : FullTrace(R) \subseteq Addr /\ MinorTrace(R) \subseteq Addr
    BY DEF FullTrace, MinorTrace, ReachFrom
  <2>2. ASSUME NEW major \in BOOLEAN, StartCollection(major) PROVE TypeInv'
    <3> DEFINE m == IF major THEN FullTrace(rooted[gc.ctx]) ELSE MinorTrace(rooted[gc.ctx])
    <3>1. m \in SUBSET Addr
      BY <2>1
    <3>2. gc' = [gc EXCEPT !.phase = "sweep", !.major = major, !.work = young, !.marked = m]
      BY <2>2 DEF StartCollection
    <3> HIDE DEF m
    <3>3. gc' \in GcType /\ gc'.phase = "sweep" /\ gc'.work = young
      BY <3>1, <3>2 DEF TypeOK, GcType
    <3>4. young' = {} /\ UNCHANGED before
      BY <2>2 DEF StartCollection
    <3> QED BY <3>3, <3>4, <1>12 DEF MaybeCollect, heap, TypeOK, ClosuresUnlisted, Listed, GcType
  <2>3. CASE gc' = Idle /\ UNCHANGED <<young, before>>
    BY <2>3, <1>12, IdleType DEF MaybeCollect, heap, TypeOK, ClosuresUnlisted, Listed, GcType
  <2> QED BY <2>2, <2>3, <1>12 DEF MaybeCollect
<1>13. CASE Sweep
  <2> DEFINE f == Cleared(Garbage \cup Doomed)
             rem == remembered \cup NoteWrites(Garbage)
             sw == swept \cup Garbage \cup (Doomed \cap alive)
  <2>1. Drops(f, Pins(rooted, frames), old \ Doomed, rem, sw)
    BY <1>13 DEF Sweep
  <2>2. f \in FieldsType
    BY ClearedType
  <2>3. old \ Doomed \in SUBSET Addr /\ rem \in SUBSET Addr /\ sw \in SUBSET alive
    BY DEF TypeOK, NoteWrites, Garbage
  <2>4. /\ gc' \in GcType /\ gc'.phase = "promote" /\ gc'.promoted \subseteq gc.work
        /\ gc.phase = "sweep"
    BY <1>13 DEF Sweep, TypeOK, GcType
  <2>5. before' = {} /\ UNCHANGED <<young, rooted, frames>>
    BY <1>13 DEF Sweep
  <2> HIDE DEF f, rem, sw
  <2>6. fns' \subseteq fns /\ old' \subseteq old
    BY <2>1, <2>2, <2>3, DropsType
  <2>7. ClosuresUnlisted'
    BY <2>4, <2>5, <2>6 DEF ClosuresUnlisted, Listed
  <2> QED BY <2>1, <2>2, <2>3, <2>4, <2>5, <2>7, DropsType DEF TypeOK, FieldsType, GcType
<1>14. CASE Promote
  <2>1. gc' = Idle /\ gc' \in GcType /\ gc'.phase = "off"
    BY <1>14, IdleType DEF Promote
  <2>2. gc.promoted \subseteq Addr /\ gc.promoted \cap fns = {}
    BY <1>14 DEF Promote, Listed, TypeOK, ClosuresUnlisted
  <2> QED BY <2>1, <2>2, <1>14 DEF Promote, TypeOK, ClosuresUnlisted, Listed, GcType
<1>15. CASE BackEdge
  <2>1. PICK garbage \in {(Nodes \ LiveNodes) \ fns} :
          Drops(Cleared(garbage), Pins(rooted, frames), old,
                remembered \cup NoteWrites(garbage), swept \cup garbage)
    BY <1>15 DEF BackEdge
  <2> DEFINE f == Cleared(garbage)
             rem == remembered \cup NoteWrites(garbage)
  <2>2. garbage \subseteq alive
    BY DEF Nodes, Tracked, TypeOK
  <2>3. f \in FieldsType /\ old \in SUBSET Addr /\ rem \in SUBSET Addr
        /\ swept \cup garbage \in SUBSET alive
    BY <2>2, ClearedType DEF TypeOK, NoteWrites
  <2>4. UNCHANGED <<rooted, frames, gc>> /\ young' \subseteq young /\ before' \subseteq before
    BY <1>15 DEF BackEdge
  <2>5. Drops(f, Pins(rooted, frames), old, rem, swept \cup garbage)
    BY <2>1
  <2> HIDE DEF f, rem
  <2>6. /\ fns' \subseteq fns /\ fns' \subseteq alive' /\ alive' \subseteq Addr /\ fields' \in FieldsType
        /\ isOld' \subseteq alive' \ fns' /\ swept' \subseteq alive'
        /\ old' \subseteq old /\ remembered' \subseteq Addr
    BY <2>5, <2>3, DropsType
  <2>7. ClosuresUnlisted'
    BY <2>4, <2>6 DEF ClosuresUnlisted, Listed
  <2> QED BY <2>3, <2>4, <2>6, <2>7 DEF TypeOK, FieldsType
<1> QED BY <1>1, <1>2, <1>3, <1>4, <1>5, <1>6, <1>7, <1>8, <1>9, <1>10, <1>11, <1>12, <1>13,
           <1>14, <1>15 DEF Next, Mutate, Collect

\* The heap's bookkeeping keeps its types, for any number of contexts and any
\* nesting of calls; in particular no closure is ever flagged old.
THEOREM TypeCorrect == Spec => []TypeOK
<1>1. TypeInv => TypeOK
  BY DEF TypeInv
<1> QED BY <1>1, TypeInit, TypeStep, PTL DEF Spec

-----------------------------------------------------------------------------
(* The safety of the collectors.                                           *)

\* The engine alone on its thread, called only from the host's own loop.
SingleCall == MaxDepth = 1 /\ \A c, d \in Ctx : c = d

\* No store bypasses the write barrier.
Interpreted == "jit" \notin Tiers

-----------------------------------------------------------------------------
(* Dropping references.                                                    *)

\* No handle dangles after a cascade of drops.
LEMMA DropsSolid ==
    ASSUME TypeOK, NEW f \in FieldsType, NEW pins, NEW od, NEW rem, NEW sw,
           Solid(alive, fns, f, pins), Drops(f, pins, od, rem, sw)
    PROVE  Solid(alive', fns', fields', pins)
<1> DEFINE gone == Freed(f, pins)
<1>1. gone \subseteq alive \ pins
  BY FreedIsUnpinned
<1>2. \A r \in alive, s \in Slots : f[r][s] \in gone => r \in gone
  BY HolderIsFreed
<1>3. /\ alive' = alive \ gone /\ fns' = fns \ gone
      /\ fields' = [a \in Addr |-> IF a \in gone THEN Empty ELSE f[a]]
  BY DEF Drops
<1> HIDE DEF gone
<1>4. pins \subseteq alive'
  BY <1>1, <1>3 DEF Solid
<1>5. \A a \in alive' : a \in alive /\ fields'[a] = f[a] /\ a \notin gone
  BY <1>3 DEF TypeOK
<1>6. \A a \in alive', s \in Slots : fields'[a][s] \in alive' \cup {Null}
  BY <1>2, <1>3, <1>5 DEF Solid
<1>7. \A a \in Addr \ alive' : fields'[a] = Empty
  BY <1>3 DEF Solid
<1>8. \A a \in fns', s \in Slots : fields'[a][s] \notin fns'
  BY <1>3, <1>5 DEF Solid, TypeOK
<1> QED BY <1>4, <1>6, <1>7, <1>8 DEF Solid

\* The remembered set stays right: what leaves OLD has been freed.
LEMMA DropsBarrier ==
    ASSUME TypeOK, NEW f \in FieldsType, NEW pins, NEW od \in SUBSET Addr,
           NEW rem \in SUBSET (alive \cap isOld), NEW sw,
           Solid(alive, fns, f, pins), Drops(f, pins, od, rem, sw),
           od \cap alive \subseteq isOld,
           rem \subseteq od \cup Freed(f, pins),
           \A b \in (od \cap alive) \ rem, s \in Slots :
              f[b][s] # Null =>
                  \/ f[b][s] \in od
                  \/ f[b][s] \in fns /\ \A r \in Slots : f[f[b][s]][r] \in od \cup {Null}
    PROVE  OldToYoungRemembered' /\ BarrierBookkeeping'
<1> DEFINE gone == Freed(f, pins)
<1>1. gone \subseteq alive \ pins
  BY FreedIsUnpinned
<1>2. \A r \in alive, s \in Slots : f[r][s] \in gone => r \in gone
  BY HolderIsFreed
<1>3. /\ alive' = alive \ gone /\ fns' = fns \ gone
      /\ fields' = [a \in Addr |-> IF a \in gone THEN Empty ELSE f[a]]
      /\ isOld' = isOld \ gone
      /\ old' = od \ (gone \cap isOld)
      /\ remembered' = rem \ (gone \cap isOld)
  BY DEF Drops
<1>4. rem \subseteq od \cup gone
  OBVIOUS
<1> HIDE DEF gone
<1>5. \A a \in alive' : a \in alive /\ fields'[a] = f[a] /\ a \notin gone
  BY <1>3 DEF TypeOK
<1>6. BarrierBookkeeping'
  BY <1>3, <1>4 DEF BarrierBookkeeping
<1>7. OldToYoungRemembered'
  <2> SUFFICES ASSUME NEW b \in (old' \cap alive') \ remembered', NEW s \in Slots,
                      fields'[b][s] # Null
               PROVE  \/ fields'[b][s] \in old'
                      \/ /\ fields'[b][s] \in fns'
                         /\ \A r \in Slots : fields'[fields'[b][s]][r] \in old' \cup {Null}
    BY DEF OldToYoungRemembered
  <2> DEFINE t == f[b][s]
  <2>1. b \in (od \cap alive) \ rem /\ b \notin gone /\ fields'[b][s] = t /\ t # Null
    BY <1>3, <1>5
  <2>2. t \in alive \ gone /\ t \in alive' /\ fields'[t] = f[t]
    BY <2>1, <1>2, <1>3, <1>5 DEF Solid
  <2>3. CASE t \in od
    BY <2>1, <2>2, <2>3, <1>3
  <2>4. CASE t \in fns /\ \A r \in Slots : f[t][r] \in od \cup {Null}
    <3>1. \A r \in Slots : f[t][r] \in gone => t \in gone
      BY <2>2, <1>2
    <3> QED BY <3>1, <2>1, <2>2, <2>4, <1>3
  <2> QED BY <2>1, <2>3, <2>4
<1> QED BY <1>6, <1>7

\* What a step of the program that drops references keeps: the references f it
\* leaves differ from the heap's only where the barrier was told, or by clearing.
LEMMA ProgramDrops ==
    ASSUME HeapInv, gc.phase = "off", gc'.phase \in {"off", "boundary"},
           NEW f \in FieldsType, NEW rem \in SUBSET (old \cap alive), NEW sw,
           Solid(alive, fns, f, Pins(rooted', frames')),
           Drops(f, Pins(rooted', frames'), old, rem, sw),
           remembered \subseteq rem,
           \A b \in (old \cap alive) \ rem, s \in Slots : f[b][s] \in {fields[b][s], Null},
           \A c \in fns : f[c] = fields[c],
           sw \subseteq Freed(f, Pins(rooted', frames')),
           young \cap alive' \subseteq young', young' \subseteq young
    PROVE  /\ Solid(alive, fns, fields, Pins(rooted, frames))'
           /\ EveryCellListed' /\ OldToYoungRemembered' /\ BarrierBookkeeping'
           /\ swept' = {}
<1> DEFINE pins == Pins(rooted', frames')
           gone == Freed(f, pins)
<1> USE DEF HeapInv
<1>1. gone \subseteq alive \ pins
  BY FreedIsUnpinned
<1>2. /\ alive' = alive \ gone /\ fns' = fns \ gone
      /\ old' = old \ (gone \cap isOld)
      /\ swept' = sw \ gone
  BY DEF Drops
<1>3. Solid(alive', fns', fields', pins)
  BY DropsSolid
<1>4. OldToYoungRemembered' /\ BarrierBookkeeping'
  <2>1. rem \in SUBSET (alive \cap isOld) /\ old \in SUBSET Addr /\ rem \subseteq old \cup gone
    BY DEF BarrierBookkeeping, TypeOK
  <2>2. ASSUME NEW b \in (old \cap alive) \ rem, NEW s \in Slots, f[b][s] # Null
        PROVE  \/ f[b][s] \in old
               \/ f[b][s] \in fns /\ \A r \in Slots : f[f[b][s]][r] \in old \cup {Null}
    <3>1. b \in (old \cap alive) \ remembered /\ f[b][s] = fields[b][s]
      BY <2>2
    <3> QED BY <3>1, <2>2 DEF OldToYoungRemembered
  <2> QED BY <2>1, <2>2, DropsBarrier DEF BarrierBookkeeping
<1>5. EveryCellListed'
  BY <1>2 DEF EveryCellListed, Listed
<1>6. Solid(alive, fns, fields, Pins(rooted, frames))'
  BY <1>3 DEF Pins, Solid, Empty
<1> QED BY <1>2, <1>4, <1>5, <1>6

-----------------------------------------------------------------------------
(* What the steps of a call do to the handles outside the heap.            *)

\* The handles outside the heap are those of contexts and of calls.
LEMMA PinsAre ==
    ASSUME NEW r, NEW fr, NEW x
    PROVE  x \in Pins(r, fr) <=> \/ \E c \in Ctx : x \in r[c]
                               \/ \E d \in DOMAIN fr : x \in fr[d].held
BY DEF Pins

\* Calls that hold nothing others do not hold pin nothing more.
LEMMA PinsShrink ==
    ASSUME NEW r, NEW fr, NEW gr,
           \A d \in DOMAIN gr : gr[d].held = {} \/ (d \in DOMAIN fr /\ gr[d].held = fr[d].held)
    PROVE  Pins(r, gr) \subseteq Pins(r, fr)
<1> SUFFICES ASSUME NEW x \in Pins(r, gr) PROVE x \in Pins(r, fr)
  OBVIOUS
<1>1. CASE \E c \in Ctx : x \in r[c]
  BY <1>1, PinsAre
<1>2. CASE \E d \in DOMAIN gr : x \in gr[d].held
  BY <1>2, PinsAre
<1> QED BY <1>1, <1>2, PinsAre

\* What the innermost call holds, and what its context roots, is pinned.
LEMMA CallPins ==
    ASSUME TypeOK, frames # <<>>
    PROVE  /\ Held \subseteq Pins(rooted, frames)
           /\ rooted[MyCtx] \subseteq Pins(rooted, frames)
           /\ \A h \in SUBSET Addr : Pins(rooted, Holding(h)) \subseteq Pins(rooted, frames) \cup h
           /\ Pins(rooted, SubSeq(frames, 1, Depth - 1)) \subseteq Pins(rooted, frames)
<1>1. frames \in Seq(FrameType) /\ Depth \in Nat \ {0} /\ DOMAIN frames = 1 .. Depth /\ Depth \in DOMAIN frames
  BY FrameFacts DEF TypeOK, FrameType, Depth
<1>2. Held \subseteq Pins(rooted, frames)
  BY <1>1, PinsAre DEF Held
<1>3. rooted[MyCtx] \subseteq Pins(rooted, frames)
  BY FrameFacts, PinsAre
<1>4. ASSUME NEW h \in SUBSET Addr
      PROVE  Pins(rooted, Holding(h)) \subseteq Pins(rooted, frames) \cup h
  <2>1. /\ DOMAIN Holding(h) = DOMAIN frames
        /\ \A d \in DOMAIN frames : Holding(h)[d].held = IF d = Depth THEN h ELSE frames[d].held
    BY <1>1 DEF Holding, FrameType
  <2> QED BY <2>1, PinsAre
<1>5. /\ DOMAIN SubSeq(frames, 1, Depth - 1) = 1 .. Depth - 1
      /\ \A d \in 1 .. Depth - 1 : SubSeq(frames, 1, Depth - 1)[d] = frames[d]
  BY <1>1
<1>6. Pins(rooted, SubSeq(frames, 1, Depth - 1)) \subseteq Pins(rooted, frames)
  <2>1. \A d \in DOMAIN SubSeq(frames, 1, Depth - 1) :
          d \in DOMAIN frames /\ SubSeq(frames, 1, Depth - 1)[d].held = frames[d].held
    BY <1>1, <1>5
  <2> QED BY <2>1, PinsShrink
<1> QED BY <1>2, <1>3, <1>4, <1>6

\* A new call pins nothing of its own.
LEMMA EnterPins ==
    ASSUME TypeOK, NEW c \in Ctx
    PROVE  Pins(rooted, Append(frames, [ctx |-> c, held |-> {}])) \subseteq Pins(rooted, frames)
<1> DEFINE call == [ctx |-> c, held |-> {}]
           new == Append(frames, call)
<1>1. call \in FrameType /\ frames \in Seq(FrameType) /\ call.held = {}
  BY DEF TypeOK, FrameType
<1> HIDE DEF call
<1>2. /\ DOMAIN new = 1 .. Len(frames) + 1 /\ DOMAIN frames = 1 .. Len(frames)
      /\ \A d \in 1 .. Len(frames) : new[d] = frames[d]
      /\ new[Len(frames) + 1] = call
      /\ Len(frames) \in Nat
  BY <1>1
<1> HIDE DEF new
<1>3. \A d \in DOMAIN new : new[d].held = {} \/ (d \in DOMAIN frames /\ new[d].held = frames[d].held)
  BY <1>1, <1>2
<1> QED BY <1>3, PinsShrink DEF new, call

-----------------------------------------------------------------------------
(* The collectors free exactly what nothing outside the heap leads to.     *)

\* After the marks, whatever is emptied has no handle outside the heap, and the
\* only references to it left are those of closures nothing refers to.
LEMMA SweepFrees ==
    ASSUME SingleCall, HeapInv, gc.phase = "sweep"
    PROVE  Garbage \cup (Doomed \cap alive)
               \subseteq Freed(Cleared(Garbage \cup Doomed), Pins(rooted, frames))
<1> DEFINE G == Garbage \cup (Doomed \cap alive)
           f == Cleared(Garbage \cup Doomed)
           R == rooted[gc.ctx]
           pins == Pins(rooted, frames)
<1> USE DEF HeapInv
<1>1. /\ R \in SUBSET Addr /\ fields \in FieldsType
      /\ pins = R
  BY DEF TypeOK, FieldsType, SingleCall, Pins, AtBoundary
<1>2. /\ \A a \in Garbage \cup Doomed, s \in Slots : f[a][s] = Null
      /\ \A a \in alive \ (Garbage \cup Doomed) : f[a] = fields[a]
      /\ Null \notin G
      /\ \A a \in alive, s \in Slots : f[a][s] \in G =>
            a \notin Garbage \cup Doomed /\ f[a] = fields[a]
  BY AddrAssumption DEF TypeOK, Cleared, Empty, Garbage, Doomed
<1>3. pins \subseteq gc.marked /\ G \cap gc.marked = {}
  BY <1>1, ReachHoldsRoots DEF AtBoundary, FullTrace, MinorTrace, Garbage, Doomed, TypeOK
<1>4. \A q \in alive \ (Garbage \cup Doomed) :
         q \notin gc.marked => q \in fns \/ (~gc.major /\ q \in old)
  BY DEF EveryCellListed, Listed, Garbage, Doomed
<1>5. ASSUME NEW r \in alive, NEW s \in Slots, f[r][s] \in G
      PROVE  r \notin pins /\ \A q \in alive, t \in Slots : f[q][t] # r
  <2> DEFINE g == fields[r][s]
  <2>1. g \in G /\ r \in alive \ (Garbage \cup Doomed) /\ g \notin gc.marked /\ g # Null
    BY <1>2, <1>3, <1>5
  <2>2. ASSUME NEW q \in alive, NEW t \in Slots, f[q][t] = r
        PROVE  q \in alive \ (Garbage \cup Doomed) /\ fields[q][t] = r
    BY <2>2, <1>2, AddrAssumption DEF TypeOK
  <2>3. CASE gc.major
    <3>1. \A b \in Addr \cap gc.marked, t \in Slots : fields[b][t] # Null => fields[b][t] \in gc.marked
      BY <1>1, <2>3, ReachIsClosed DEF AtBoundary, FullTrace
    <3>2. r \notin gc.marked
      BY <3>1, <2>1 DEF TypeOK
    <3>3. r \in fns
      BY <3>2, <2>1, <2>3, <1>4
    <3>4. ASSUME NEW q \in alive, NEW t \in Slots, f[q][t] = r PROVE FALSE
      <4>1. q \in alive \ (Garbage \cup Doomed) /\ fields[q][t] = r /\ r # Null
        BY <2>2, <3>4, AddrAssumption DEF TypeOK
      <4>2. q \notin gc.marked
        BY <4>1, <3>1, <3>2 DEF TypeOK
      <4>3. q \in fns
        BY <4>1, <4>2, <2>3, <1>4
      <4> QED BY <4>1, <4>3, <3>3 DEF Solid
    <3> QED BY <3>2, <3>4, <1>3
  <2>4. CASE ~gc.major
    <3> DEFINE Through == Addr \ (old \ remembered)
    <3>1. gc.marked = ReachFrom(fields, R \cup (remembered \cap old \cap alive), Through)
      BY <2>4 DEF AtBoundary, MinorTrace
    <3>2. R \cup (remembered \cap old \cap alive) \in SUBSET Addr
      BY <1>1 DEF TypeOK
    <3>3. \A b \in gc.marked \cap Through, t \in Slots :
             fields[b][t] # Null => fields[b][t] \in gc.marked
      BY <1>1, <3>1, <3>2, ReachIsClosed
    <3>4. remembered \cap old \cap alive \subseteq gc.marked
      BY <1>1, <3>1, <3>2, ReachHoldsRoots
    <3>5. g \in gc.work /\ g \notin old /\ g \notin fns /\ Doomed = {}
      BY <2>1, <2>4 DEF Garbage, Doomed, EveryCellListed, Listed
    <3>6. r \notin old
      BY <2>1, <3>3, <3>4, <3>5 DEF OldToYoungRemembered, TypeOK
    <3>7. r \notin gc.marked
      BY <2>1, <3>3, <3>6 DEF TypeOK
    <3>8. r \in fns
      BY <2>1, <3>6, <3>7, <1>4
    <3>9. ASSUME NEW q \in alive, NEW t \in Slots, f[q][t] = r PROVE FALSE
      <4>1. q \in alive \ (Garbage \cup Doomed) /\ fields[q][t] = r /\ r # Null
        BY <2>2, <3>9, AddrAssumption DEF TypeOK
      <4>2. q \notin fns
        BY <4>1, <3>8 DEF Solid
      <4>3. CASE q \in old /\ q \notin remembered
        BY <4>1, <4>3, <3>5, <3>6, <2>1 DEF OldToYoungRemembered
      <4>4. CASE q \notin old \/ q \in remembered
        <5>1. q \in gc.marked
          BY <4>1, <4>2, <4>4, <1>4, <3>4
        <5> QED BY <5>1, <4>1, <4>4, <3>3, <3>7 DEF TypeOK
      <4> QED BY <4>3, <4>4
    <3> QED BY <3>7, <3>9, <1>3
  <2> QED BY <2>3, <2>4
<1>6. G \in SUBSET (alive \ pins)
  BY <1>3 DEF Garbage
<1> HIDE DEF f, G, pins
<1>7. G \subseteq Freed(f, pins)
  BY <1>5, <1>6, ClearedIsFreed
<1> QED BY <1>7 DEF f, G, pins

\* The counts tell: a node the cycle collector does not find live has no handle
\* outside the heap, and every object that refers to it is such a node too.
LEMMA CountsTell ==
    ASSUME HeapInv, NEW a \in Nodes \ LiveNodes
    PROVE  /\ a \notin Pins(rooted, frames)
           /\ \A r \in alive, s \in Slots : fields[r][s] = a => r \in Nodes \ LiveNodes
<1> USE DEF HeapInv
<1> DEFINE all == SlotHandles(a, alive)
           seen == SlotHandles(a, Nodes)
           ctxs == {c \in Ctx : a \in rooted[c]}
           calls == {d \in DOMAIN frames : a \in frames[d].held}
<1>1. Nodes \subseteq alive /\ alive \subseteq Addr /\ External \in SUBSET Addr /\ fields \in FieldsType
  BY DEF Nodes, Tracked, External, TypeOK, FieldsType
<1>2. a \notin External
  BY <1>1, ReachHoldsRoots DEF LiveNodes, External
<1>3. IsFiniteSet(all) /\ IsFiniteSet(ctxs) /\ IsFiniteSet(calls)
  <2>1. IsFiniteSet(alive \X Slots)
    BY <1>1, AddrAssumption, SlotsAssumption, FS_Subset, FS_Product
  <2>2. IsFiniteSet(DOMAIN frames)
    <3>1. Len(frames) \in Nat /\ DOMAIN frames = 1 .. Len(frames)
      BY DEF TypeOK
    <3> QED BY <3>1, FS_Interval
  <2>3. all \in SUBSET (alive \X Slots) /\ ctxs \in SUBSET Ctx /\ calls \in SUBSET DOMAIN frames
    BY DEF SlotHandles
  <2> QED BY <2>1, <2>2, <2>3, CtxAssumption, FS_Subset
<1>4. seen \in SUBSET all
  BY <1>1 DEF SlotHandles
<1>5. /\ Cardinality(all) \in Nat /\ Cardinality(ctxs) \in Nat /\ Cardinality(calls) \in Nat
      /\ Cardinality(seen) \in Nat /\ Cardinality(seen) <= Cardinality(all)
      /\ Cardinality(all) = Cardinality(seen) => all = seen
  BY <1>3, <1>4, FS_Subset, FS_CardinalityType
<1>6. ~ (Cardinality(all) + Cardinality(ctxs) + Cardinality(calls) > Cardinality(seen))
  BY <1>2 DEF External, StrongCount
<1>7. Cardinality(ctxs) = 0 /\ Cardinality(calls) = 0 /\ all = seen
  BY <1>5, <1>6
<1>8. ctxs = {} /\ calls = {}
  BY <1>3, <1>7, FS_EmptySet
<1>9. a \notin Pins(rooted, frames)
  BY <1>8, PinsAre
<1>10. ASSUME NEW r \in alive, NEW s \in Slots, fields[r][s] = a
       PROVE  r \in Nodes \ LiveNodes
  <2>1. <<r, s>> \in all
    BY <1>10 DEF SlotHandles
  <2>2. r \in Nodes
    BY <2>1, <1>7 DEF SlotHandles
  <2>3. r \notin LiveNodes
    BY <1>1, <1>10, <2>2, AddrAssumption, ReachIsClosed DEF LiveNodes
  <2> QED BY <2>2, <2>3
<1> QED BY <1>9, <1>10

\* So what it empties is freed, once the closures it held are.
LEMMA BackEdgeFrees ==
    ASSUME HeapInv, NEW G, G = (Nodes \ LiveNodes) \ fns
    PROVE  G \subseteq Freed(Cleared(G), Pins(rooted, frames))
<1> USE DEF HeapInv
<1> DEFINE f == Cleared(G)
<1>1. G \in SUBSET (alive \ Pins(rooted, frames)) /\ alive \subseteq Addr
  BY CountsTell DEF Nodes, Tracked, TypeOK
<1>2. /\ \A r \in G, s \in Slots : f[r][s] = Null
      /\ \A r \in alive \ G : f[r] = fields[r]
  BY <1>1 DEF Cleared, Empty
<1>3. Null \notin alive
  BY <1>1, AddrAssumption
<1>4. ASSUME NEW r \in alive, NEW s \in Slots, f[r][s] \in G
      PROVE  /\ r \notin Pins(rooted, frames)
             /\ \A q \in alive, t \in Slots : f[q][t] # r
  <2>1. r \notin G /\ fields[r][s] \in G
    BY <1>1, <1>2, <1>3, <1>4
  <2>2. r \in Nodes \ LiveNodes /\ r \in fns
    BY <2>1, CountsTell
  <2>3. ASSUME NEW q \in alive, NEW t \in Slots, f[q][t] = r PROVE FALSE
    <3>1. q \notin G /\ fields[q][t] = r
      BY <1>2, <1>3, <2>3
    <3>2. q \in fns
      BY <3>1, <2>2, CountsTell
    <3> QED BY <3>1, <3>2, <2>2 DEF Solid
  <2> QED BY <2>2, <2>3, CountsTell
<1> HIDE DEF f
<1> QED BY <1>1, <1>4, ClearedIsFreed DEF f

-----------------------------------------------------------------------------
(* HeapInv is inductive.                                                   *)

\* Fewer handles outside the heap leave it solid.
LEMMA FewerPins ==
    ASSUME NEW f, NEW P, NEW Q \in SUBSET P, Solid(alive, fns, f, P)
    PROVE  Solid(alive, fns, f, Q)
BY DEF Solid

\* A step that leaves the heap alone and pins nothing dead keeps the invariant.
LEMMA HeapUntouched ==
    ASSUME HeapInv, TypeOK', UNCHANGED <<heap, young, gc>>, gc.phase = "off",
           Pins(rooted', frames') \subseteq alive, Len(frames') <= MaxDepth
    PROVE  HeapInv'
<1> USE DEF HeapInv
<1>1. Solid(alive, fns, fields, Pins(rooted, frames))'
  BY DEF heap, Solid, Pins, Empty
<1>2. EveryCellListed' /\ OldToYoungRemembered' /\ BarrierBookkeeping' /\ swept' = {}
  BY DEF heap, EveryCellListed, Listed, OldToYoungRemembered, BarrierBookkeeping
<1>3. AtBoundary'
  BY DEF AtBoundary, Depth
<1> QED BY <1>1, <1>2, <1>3

\* A step that only lets go of handles keeps the heap's part of it.
LEMMA JustDrops ==
    ASSUME HeapInv, gc.phase = "off", gc'.phase \in {"off", "boundary"}, UNCHANGED young,
           Pins(rooted', frames') \subseteq Pins(rooted, frames),
           Drops(fields, Pins(rooted', frames'), old, remembered, swept)
    PROVE  /\ Solid(alive, fns, fields, Pins(rooted, frames))'
           /\ EveryCellListed' /\ OldToYoungRemembered' /\ BarrierBookkeeping'
           /\ swept' = {}
<1> USE DEF HeapInv
<1>1. fields \in FieldsType /\ remembered \in SUBSET (old \cap alive) /\ swept = {}
  BY DEF TypeOK, FieldsType, BarrierBookkeeping
<1>2. Solid(alive, fns, fields, Pins(rooted', frames'))
  BY FewerPins
<1> QED BY <1>1, <1>2, ProgramDrops

\* The empty heap satisfies the invariant.
LEMMA HeapInit == Init => HeapInv
<1> SUFFICES ASSUME Init PROVE HeapInv
  OBVIOUS
<1>1. TypeOK
  BY TypeInit DEF TypeInv
<1>2. Pins(rooted, frames) = {}
  BY PinsAre DEF Init
<1>3. Solid(alive, fns, fields, Pins(rooted, frames))
  BY <1>2 DEF Init, Solid
<1>4. EveryCellListed /\ OldToYoungRemembered /\ BarrierBookkeeping /\ swept = {}
  BY IdleType DEF Init, EveryCellListed, Listed, OldToYoungRemembered, BarrierBookkeeping
<1>5. AtBoundary
  BY IdleType, BoundAssumption DEF Init, AtBoundary, Depth
<1> QED BY <1>1, <1>3, <1>4, <1>5 DEF HeapInv

\* Steps of the program.
LEMMA MutateKeepsHeap ==
    ASSUME SingleCall, Interpreted, HeapInv, TypeOK', Mutate
    PROVE  HeapInv'
<1> DEFINE pins == Pins(rooted, frames)
<1> USE DEF HeapInv
<1>1. pins \subseteq alive /\ alive \subseteq Addr /\ fields \in FieldsType
  BY DEF Solid, TypeOK, FieldsType
<1>2. ASSUME NEW c \in Ctx, Enter(c) PROVE HeapInv'
  <2>1. Pins(rooted', frames') \subseteq alive
    BY <1>1, <1>2, EnterPins DEF Enter
  <2>2. Len(frames') <= MaxDepth
    BY <1>2, BoundAssumption DEF Enter, Depth, TypeOK
  <2> QED BY <2>1, <2>2, <1>2, HeapUntouched DEF Enter
<1>3. ASSUME NEW a \in Addr, LoadRoot(a) PROVE HeapInv'
  <2>1. frames # <<>> /\ gc.phase = "off" /\ a \in alive /\ Held \subseteq alive /\ frames' = Holding(Held \cup {a})
    BY <1>1, <1>3, CallPins DEF LoadRoot, MayHoldMore, Running
  <2>2. Held \cup {a} \in SUBSET Addr
    BY <1>1, <2>1
  <2>3. Pins(rooted, frames') \subseteq alive
    BY <1>1, <2>1, <2>2, CallPins
  <2>4. Len(frames') <= MaxDepth
    BY <2>1, <2>2, FrameFacts DEF AtBoundary
  <2> QED BY <2>1, <2>3, <2>4, <1>3, HeapUntouched DEF LoadRoot
<1>4. ASSUME NEW a \in Addr, NEW s \in Slots, LoadField(a, s) PROVE HeapInv'
  <2> DEFINE b == fields[a][s]
  <2>1. frames # <<>> /\ gc.phase = "off" /\ Held \subseteq alive /\ b \in alive /\ frames' = Holding(Held \cup {b})
    BY <1>1, <1>4, CallPins DEF LoadField, MayHoldMore, Running, Solid
  <2> HIDE DEF b
  <2>2. Held \cup {b} \in SUBSET Addr
    BY <1>1, <2>1
  <2>3. Pins(rooted, frames') \subseteq alive
    BY <1>1, <2>1, <2>2, CallPins
  <2>4. Len(frames') <= MaxDepth
    BY <2>1, <2>2, FrameFacts DEF AtBoundary
  <2> QED BY <2>1, <2>3, <2>4, <1>4, HeapUntouched DEF LoadField
<1>5. ASSUME NEW a \in Addr, Root(a) PROVE HeapInv'
  <2>1. frames # <<>> /\ gc.phase = "off" /\ a \in alive
    BY <1>1, <1>5, CallPins DEF Root, Running
  <2>2. Pins(rooted', frames') \subseteq alive
    <3> SUFFICES ASSUME NEW x \in Pins(rooted', frames') PROVE x \in alive
      OBVIOUS
    <3>1. frames' = frames /\ \A c \in Ctx : rooted'[c] \subseteq rooted[c] \cup {a}
      BY <1>5 DEF Root, TypeOK
    <3>2. x = a \/ x \in pins
      BY <3>1, PinsAre
    <3> QED BY <3>2, <2>1, <1>1
  <2>3. Len(frames') <= MaxDepth
    BY <1>5 DEF Root, AtBoundary, Depth
  <2> QED BY <2>1, <2>2, <2>3, <1>5, HeapUntouched DEF Root
<1>6. ASSUME NEW a \in Addr, DropLocal(a) PROVE HeapInv'
  <2>1. frames # <<>> /\ gc.phase = "off" /\ Held \in SUBSET Addr
    BY <1>6, FrameFacts DEF DropLocal, Running
  <2>2. frames' = Holding(Held \ {a}) /\ rooted' = rooted /\ UNCHANGED <<young, gc>>
        /\ Drops(fields, Pins(rooted', frames'), old, remembered, swept)
    BY <1>6 DEF DropLocal
  <2>3. Pins(rooted', frames') \subseteq pins
    BY <2>1, <2>2, CallPins
  <2>4. AtBoundary'
    BY <2>1, <2>2, FrameFacts DEF AtBoundary, Depth
  <2> QED BY <2>1, <2>2, <2>3, <2>4, JustDrops
<1>7. ASSUME NEW c \in Ctx, NEW a \in Addr, Unroot(c, a) PROVE HeapInv'
  <2>1. gc.phase = "off" /\ UNCHANGED <<young, gc, frames>>
        /\ Drops(fields, Pins(rooted', frames'), old, remembered, swept)
    BY <1>7 DEF Unroot
  <2>2. \A d \in Ctx : rooted'[d] \subseteq rooted[d]
    BY <1>7 DEF Unroot, TypeOK
  <2>3. Pins(rooted', frames') \subseteq pins
    BY <2>1, <2>2, PinsAre
  <2>4. AtBoundary'
    BY <2>1 DEF AtBoundary, Depth
  <2> QED BY <2>1, <2>3, <2>4, JustDrops
<1>8. ASSUME NEW thrown \in BOOLEAN, Leave(thrown) PROVE HeapInv'
  <2>1. frames # <<>> /\ gc.phase = "off" /\ UNCHANGED <<young, rooted>>
        /\ frames' = SubSeq(frames, 1, Depth - 1)
        /\ Drops(fields, Pins(rooted', frames'), old, remembered, swept)
    BY <1>8 DEF Leave, Running
  <2>2. gc'.phase \in {"off", "boundary"}
    BY <1>8, <2>1 DEF Leave, TypeOK
  <2>3. Pins(rooted', frames') \subseteq pins
    BY <2>1, CallPins
  <2>4. frames' = <<>> /\ Len(frames') = 0
    BY <2>1, FrameFacts, BoundAssumption DEF AtBoundary, SingleCall
  <2>5. AtBoundary'
    BY <2>2, <2>4, BoundAssumption DEF AtBoundary, Depth
  <2> QED BY <2>1, <2>2, <2>3, <2>5, JustDrops
<1>9. ASSUME NEW a \in Addr, NEW s \in Slots, NEW v \in Addr \cup {Null}, NEW tier \in Tiers,
            Store(a, s, v, tier)
      PROVE  HeapInv'
  <2> DEFINE f == [fields EXCEPT ![a][s] = v]
             rem == remembered \cup NoteWrites({a})
  <2>1. frames # <<>> /\ gc.phase = "off" /\ a \in alive \ fns /\ v \in alive \cup {Null}
    BY <1>1, <1>9, CallPins DEF Store, Running
  <2>2. UNCHANGED <<young, rooted, frames, gc>> /\ Drops(f, Pins(rooted', frames'), old, rem, swept)
    BY <1>9 DEF Store, Interpreted
  <2>3. /\ f \in FieldsType
        /\ \A b \in Addr \ {a} : f[b] = fields[b]
        /\ \A t \in Slots : f[a][t] \in {fields[a][t], v}
    BY <1>1 DEF FieldsType
  <2>4. remembered \subseteq rem /\ rem \in SUBSET (old \cap alive)
        /\ (a \in old => a \in rem)
    BY <2>1 DEF BarrierBookkeeping, NoteWrites
  <2> HIDE DEF f, rem
  <2>5. Solid(alive, fns, f, Pins(rooted', frames'))
    <3>1. Solid(alive, fns, f, pins)
      BY <2>1, <2>3, <1>1 DEF Solid, TypeOK
    <3>2. Pins(rooted', frames') = pins
      BY <2>2
    <3> QED BY <3>1, <3>2
  <2>6. AtBoundary'
    BY <2>1, <2>2 DEF AtBoundary, Depth
  <2>7. \A b \in (old \cap alive) \ rem, t \in Slots : f[b][t] \in {fields[b][t], Null}
    BY <2>3, <2>4, <1>1
  <2>8. \A c \in fns : f[c] = fields[c]
    BY <2>1, <2>3, <1>1 DEF TypeOK
  <2>9. /\ Solid(alive, fns, fields, Pins(rooted, frames))'
        /\ EveryCellListed' /\ OldToYoungRemembered' /\ BarrierBookkeeping'
        /\ swept' = {}
    <3>1. gc'.phase \in {"off", "boundary"} /\ young \cap alive' \subseteq young' /\ young' \subseteq young
      BY <2>1, <2>2
    <3>2. swept \subseteq Freed(f, Pins(rooted', frames')) /\ swept = {}
      OBVIOUS
    <3>3. Drops(f, Pins(rooted', frames'), old, rem, swept) /\ f \in FieldsType
      BY <2>2, <2>3
    <3> QED BY <2>1, <2>4, <2>5, <2>7, <2>8, <3>1, <3>2, <3>3, ProgramDrops
  <2> QED BY <2>6, <2>9
<1>10. ASSUME NEW a \in Addr, New(a) PROVE HeapInv'
  <2>1. frames # <<>> /\ gc.phase = "off" /\ a \notin alive \cup young \cup old
        /\ Held \in SUBSET Addr /\ frames' = Holding(Held \cup {a})
        /\ alive' = alive \cup {a} /\ UNCHANGED <<fns, fields, isOld, old, remembered, swept, rooted, gc>>
    BY <1>10, FrameFacts DEF New, MayHoldMore, Running, Allocatable
  <2>2. young' \subseteq young \cup {a} /\ (young \cap alive) \cup {a} \subseteq young'
    BY <1>10 DEF New, Register
  <2>3. Pins(rooted', frames') \subseteq alive'
    <3>1. Held \subseteq alive /\ Held \cup {a} \in SUBSET Addr
      BY <1>1, <2>1, CallPins
    <3> QED BY <3>1, <2>1, <1>1, CallPins
  <2>4. Solid(alive, fns, fields, Pins(rooted, frames))'
    <3>1. \A s \in Slots : fields[a][s] = Null
      BY <2>1 DEF Solid, Empty
    <3>2. Solid(alive', fns', fields', Pins(rooted', frames'))
      BY <2>1, <2>3, <3>1 DEF Solid
    <3> QED BY <3>2 DEF Solid, Pins, Empty
  <2>5. EveryCellListed' /\ OldToYoungRemembered' /\ BarrierBookkeeping'
    BY <2>1, <2>2 DEF EveryCellListed, Listed, OldToYoungRemembered, BarrierBookkeeping, TypeOK
  <2>6. AtBoundary'
    <3>1. Held \cup {a} \in SUBSET Addr
      BY <2>1
    <3> QED BY <3>1, <2>1, FrameFacts DEF AtBoundary, Depth
  <2> QED BY <2>1, <2>4, <2>5, <2>6
<1>11. ASSUME NEW a \in Addr, NewClosure(a) PROVE HeapInv'
  <2>1. frames # <<>> /\ gc.phase = "off" /\ a \notin alive \cup young \cup old
        /\ Held \in SUBSET Addr /\ frames' = Holding(Held \cup {a})
        /\ alive' = alive \cup {a} /\ fns' = fns \cup {a}
        /\ UNCHANGED <<isOld, old, remembered, swept, young, rooted, gc>>
    BY <1>11, FrameFacts DEF NewClosure, MayHoldMore, Running, Allocatable
  <2>2. PICK captured \in [Slots -> (Held \ fns) \cup {Null}] : fields' = [fields EXCEPT ![a] = captured]
    BY <1>11 DEF NewClosure
  <2>3. /\ \A b \in Addr \ {a} : fields'[b] = fields[b]
        /\ \A s \in Slots : fields'[a][s] \in (Held \ fns) \cup {Null}
    BY <2>2, <1>1 DEF FieldsType
  <2>4. Held \subseteq alive /\ Held \cup {a} \in SUBSET Addr
    BY <1>1, <2>1, CallPins
  <2>5. Pins(rooted', frames') \subseteq alive'
    BY <2>1, <2>4, <1>1, CallPins
  <2>6. Solid(alive', fns', fields', Pins(rooted', frames'))
    <3>1. \A b \in alive', s \in Slots : fields'[b][s] \in alive' \cup {Null}
      BY <2>1, <2>3, <2>4, <1>1 DEF Solid
    <3>2. \A b \in Addr \ alive' : fields'[b] = Empty
      BY <2>1, <2>3 DEF Solid
    <3>3. \A b \in fns', s \in Slots : fields'[b][s] \notin fns'
      BY <2>1, <2>3, <2>4, <1>1, AddrAssumption DEF Solid, TypeOK
    <3> QED BY <2>5, <3>1, <3>2, <3>3 DEF Solid
  <2>7. OldToYoungRemembered'
    BY <2>1, <2>3, <1>1 DEF OldToYoungRemembered, TypeOK, Solid
  <2>8. EveryCellListed' /\ BarrierBookkeeping'
    BY <2>1 DEF EveryCellListed, Listed, BarrierBookkeeping
  <2>9. AtBoundary'
    BY <2>1, <2>4, FrameFacts DEF AtBoundary, Depth
  <2>10. Solid(alive, fns, fields, Pins(rooted, frames))'
    BY <2>6 DEF Solid, Pins, Empty
  <2> QED BY <2>1, <2>7, <2>8, <2>9, <2>10
<1> QED BY <1>2, <1>3, <1>4, <1>5, <1>6, <1>7, <1>8, <1>9, <1>10, <1>11 DEF Mutate

\* Steps of the collectors.
LEMMA CollectKeepsHeap ==
    ASSUME SingleCall, HeapInv, TypeInv', Collect
    PROVE  HeapInv'
<1> DEFINE pins == Pins(rooted, frames)
<1> USE DEF HeapInv
<1>1. pins \subseteq alive /\ alive \subseteq Addr /\ fields \in FieldsType /\ Null \notin alive
  BY AddrAssumption DEF Solid, TypeOK, FieldsType
<1>2. TypeOK' /\ (fns \cap Listed = {})'
  BY DEF TypeInv, ClosuresUnlisted
<1>3. CASE MaybeCollect
  <2>1. UNCHANGED heap /\ UNCHANGED <<rooted, frames>> /\ gc.phase = "boundary"
    BY <1>3 DEF MaybeCollect
  <2>2. OldToYoungRemembered' /\ BarrierBookkeeping' /\ swept' = {}
        /\ Solid(alive, fns, fields, Pins(rooted, frames))'
    BY <2>1 DEF heap, OldToYoungRemembered, BarrierBookkeeping, Solid, Pins, Empty
  <2>3. ASSUME NEW major \in BOOLEAN, StartCollection(major) PROVE EveryCellListed' /\ AtBoundary'
    <3> DEFINE m == IF major THEN FullTrace(rooted[gc.ctx]) ELSE MinorTrace(rooted[gc.ctx])
    <3>1. gc' = [gc EXCEPT !.phase = "sweep", !.major = major, !.work = young, !.marked = m]
          /\ young' = {}
      BY <2>3 DEF StartCollection
    <3>2. gc'.phase = "sweep" /\ gc'.work = young /\ gc'.marked = m /\ gc'.major = major /\ gc'.ctx = gc.ctx
      BY <3>1 DEF TypeOK
    <3>3. EveryCellListed'
      BY <1>2, <2>1, <3>1, <3>2 DEF heap, EveryCellListed, Listed
    <3>4. gc'.marked = (IF gc.major THEN FullTrace(rooted[gc.ctx]) ELSE MinorTrace(rooted[gc.ctx]))'
      BY <2>1, <3>2 DEF heap, FullTrace, MinorTrace, ReachFrom
    <3> QED BY <2>1, <3>2, <3>3, <3>4 DEF AtBoundary, Depth
  <2>4. ASSUME gc' = Idle, UNCHANGED young PROVE EveryCellListed' /\ AtBoundary'
    BY <1>2, <2>1, <2>4, IdleType DEF heap, EveryCellListed, Listed, AtBoundary, Depth
  <2> QED BY <1>2, <1>3, <2>2, <2>3, <2>4 DEF MaybeCollect
<1>4. CASE Sweep
  <2> DEFINE f == Cleared(Garbage \cup Doomed)
             od == old \ Doomed
             rem == remembered \cup NoteWrites(Garbage)
             sw == swept \cup Garbage \cup (Doomed \cap alive)
             gone == Freed(f, pins)
             earlier(a) == Cleared({g \in Garbage : <<g, a>> \in before})
  <2>1. /\ gc.phase = "sweep" /\ frames = <<>> /\ UNCHANGED <<young, rooted, frames>>
        /\ Drops(f, pins, od, rem, sw)
        /\ gc' = [gc EXCEPT !.phase = "promote",
                 !.promoted = {a \in gc.work \cap alive \cap gc.marked : a \notin Freed(earlier(a), pins)}]
    BY <1>4 DEF Sweep, AtBoundary
  <2>2. Garbage \cup (Doomed \cap alive) \subseteq gone
    BY <2>1, SweepFrees
  <2>3. /\ Garbage \subseteq gc.work \cap alive /\ Doomed \subseteq old
        /\ young = {} /\ gc.work \cap old = {} /\ gc.work \cap fns = {} /\ old \cap fns = {}
    BY <2>1 DEF Garbage, Doomed, EveryCellListed, Listed
  <2>4. rem = remembered /\ sw \subseteq gone
    BY <2>2, <2>3 DEF NoteWrites
  <2>5. /\ f \in FieldsType
        /\ \A b \in Addr, t \in Slots : b \in Garbage \cup Doomed => f[b][t] = Null
        /\ \A b \in Addr \ (Garbage \cup Doomed) : f[b] = fields[b]
    BY <1>1, ClearedType DEF Cleared, Empty
  <2>6. Solid(alive, fns, f, pins)
    <3>1. \A b \in alive, t \in Slots : f[b][t] \in alive \cup {Null}
      BY <1>1, <2>5 DEF Solid
    <3>2. \A b \in Addr \ alive : f[b] = Empty
      BY <1>1 DEF Cleared, Solid
    <3>3. \A b \in fns : f[b] = fields[b]
      BY <1>1, <2>3, <2>5 DEF TypeOK
    <3> QED BY <1>1, <3>1, <3>2, <3>3 DEF Solid
  <2>7. gc' \in GcType /\ gc'.phase = "promote"
        /\ gc'.promoted = {a \in gc.work \cap alive \cap gc.marked : a \notin Freed(earlier(a), pins)}
    BY <2>1 DEF TypeOK, GcType
  <2>8. \A a \in Addr : Freed(earlier(a), pins) \subseteq gone
    <3> SUFFICES ASSUME NEW a \in Addr PROVE Freed(earlier(a), pins) \subseteq gone
      OBVIOUS
    <3>1. \A r \in alive, s \in Slots : f[r][s] = earlier(a)[r][s] \/ f[r][s] = Null
      BY <1>1 DEF Cleared, Empty
    <3> QED BY <3>1, <1>1, FreedGrows
  <2>9. /\ alive' = alive \ gone /\ fns' = fns \ gone /\ swept' = sw \ gone
        /\ old' = od \ (gone \cap isOld)
    BY <2>1 DEF Drops
  <2>10. OldToYoungRemembered' /\ BarrierBookkeeping'
    <3>1. rem \in SUBSET (alive \cap isOld) /\ od \in SUBSET Addr /\ od \cap alive \subseteq isOld
      BY <2>4 DEF BarrierBookkeeping, TypeOK
    <3>2. rem \subseteq od \cup gone
      BY <2>2, <2>4 DEF BarrierBookkeeping
    <3>3. ASSUME NEW b \in (od \cap alive) \ rem, NEW s \in Slots, f[b][s] # Null
          PROVE  \/ f[b][s] \in od
                 \/ f[b][s] \in fns /\ \A r \in Slots : f[f[b][s]][r] \in od \cup {Null}
      <4> DEFINE t == fields[b][s]
      <4>1. b \in alive \ Doomed /\ b \in (old \cap alive) \ remembered /\ f[b][s] = t /\ t \in alive
        <5>1. b \in alive \ Doomed /\ b \in (old \cap alive) \ remembered
          BY <2>4, <3>3
        <5>2. b \in Addr \ (Garbage \cup Doomed)
          BY <5>1, <1>1, <2>3
        <5>3. f[b][s] = t
          BY <5>2, <2>5
        <5> QED BY <5>1, <5>3, <3>3 DEF Solid
      <4>2. CASE gc.major
        <5>1. \A x \in Addr \cap gc.marked, q \in Slots : fields[x][q] # Null => fields[x][q] \in gc.marked
          <6>1. rooted[gc.ctx] \in SUBSET Addr /\ gc.marked = ReachFrom(fields, rooted[gc.ctx], Addr)
            BY <2>1, <4>2 DEF AtBoundary, FullTrace, TypeOK
          <6> QED BY <1>1, <6>1, ReachIsClosed
        <5>2. \A x \in alive \cap gc.marked : x \in old => x \in od
          BY DEF Doomed
        <5>3. t \in gc.marked /\ t # Null
          BY <1>1, <4>1, <4>2, <5>1 DEF Doomed
        <5>4. CASE t \in old
          BY <4>1, <5>2, <5>3, <5>4
        <5>5. CASE t \in fns /\ \A r \in Slots : fields[t][r] \in old \cup {Null}
          <6>1. f[t] = fields[t]
            BY <2>3, <2>5, <5>5, <1>1 DEF TypeOK
          <6>2. \A r \in Slots : fields[t][r] \in od \cup {Null}
            BY <4>1, <5>1, <5>2, <5>3, <5>5, <1>1 DEF Solid
          <6> QED BY <4>1, <5>5, <6>1, <6>2
        <5> QED BY <4>1, <5>3, <5>4, <5>5 DEF OldToYoungRemembered
      <4>3. CASE ~gc.major
        <5>1. od = old
          BY <4>3 DEF Doomed
        <5>2. \A c \in fns : f[c] = fields[c]
          BY <2>3, <2>5, <1>1 DEF TypeOK
        <5>3. \/ t \in old
              \/ t \in fns /\ \A r \in Slots : fields[t][r] \in old \cup {Null}
          BY <3>3, <4>1 DEF OldToYoungRemembered
        <5> HIDE DEF t, f, od
        <5> QED BY <4>1, <5>1, <5>2, <5>3
      <4> QED BY <4>2, <4>3
    <3> HIDE DEF f, od, rem, sw, gone
    <3> QED BY <2>1, <2>5, <2>6, <3>1, <3>2, <3>3, DropsBarrier DEF gone
  <2> HIDE DEF f, od, rem, sw, gone, earlier
  <2>11. EveryCellListed'
    <3>1. ASSUME NEW a \in alive' \ fns' PROVE a \in Listed'
      <4>1. a \in (alive \ gone) \ fns /\ a \in old \cup gc.work
        BY <2>1, <2>3, <2>9 DEF EveryCellListed, Listed
      <4>2. CASE a \in old
        BY <2>2, <2>9, <4>1, <4>2 DEF od, Listed
      <4>3. CASE a \in gc.work
        <5>1. a \in gc.marked /\ a \notin Freed(earlier(a), pins)
          BY <1>1, <2>2, <2>8, <4>1, <4>3 DEF Garbage
        <5> QED BY <2>7, <4>1, <4>3, <5>1 DEF Listed
      <4> QED BY <4>1, <4>2, <4>3
    <3>2. young' = {} /\ gc'.phase = "promote"
      BY <2>1, <2>3, <2>7
    <3> QED BY <1>2, <3>1, <3>2 DEF EveryCellListed
  <2>12. AtBoundary'
    BY <2>1, <2>7, BoundAssumption DEF AtBoundary, Depth
  <2>13. Solid(alive, fns, fields, Pins(rooted, frames))'
    <3>1. Solid(alive', fns', fields', pins)
      BY <2>1, <2>5, <2>6, DropsSolid
    <3>2. Pins(rooted', frames') = pins
      BY <2>1
    <3> QED BY <3>1, <3>2 DEF Solid, Pins, Empty
  <2> QED BY <1>2, <2>4, <2>9, <2>10, <2>11, <2>12, <2>13
<1>5. CASE Promote
  <2>1. gc' = Idle /\ gc'.phase = "off" /\ gc.phase = "promote"
        /\ isOld' = isOld \cup (gc.promoted \cap alive) /\ old' = old \cup gc.promoted /\ remembered' = {}
        /\ UNCHANGED <<alive, fns, fields, swept, young, rooted, frames>>
    BY <1>5, IdleType DEF Promote
  <2>2. alive \ fns \subseteq old' /\ young = {}
    BY <2>1 DEF EveryCellListed, Listed
  <2>3. EveryCellListed'
    BY <1>2, <2>1, <2>2 DEF EveryCellListed, Listed
  <2>4. BarrierBookkeeping'
    BY <2>1 DEF BarrierBookkeeping
  <2>5. OldToYoungRemembered'
    BY <2>1, <2>2, <1>1 DEF OldToYoungRemembered, Solid, TypeOK
  <2>6. AtBoundary'
    BY <2>1 DEF AtBoundary, Depth
  <2>7. Solid(alive, fns, fields, Pins(rooted, frames))'
    BY <2>1 DEF Solid, Pins, Empty
  <2> QED BY <1>2, <2>1, <2>3, <2>4, <2>5, <2>6, <2>7
<1>6. CASE BackEdge
  <2> DEFINE G == (Nodes \ LiveNodes) \ fns
             f == Cleared(G)
             rem == remembered \cup NoteWrites(G)
  <2>1. /\ frames # <<>> /\ gc.phase = "off" /\ UNCHANGED <<rooted, frames, gc>>
        /\ Drops(f, Pins(rooted', frames'), old, rem, swept \cup G)
        /\ young' = young \cap alive'
    BY <1>6 DEF BackEdge, Running
  <2>2. G \subseteq alive \ fns
    BY DEF Nodes, Tracked, TypeOK
  <2> HIDE DEF G
  <2>3. /\ f \in FieldsType
        /\ \A b \in G, t \in Slots : f[b][t] = Null
        /\ \A b \in Addr \ G : f[b] = fields[b]
    BY <1>1, <2>2, ClearedType DEF Cleared, Empty
  <2>4. remembered \subseteq rem /\ rem \in SUBSET (old \cap alive) /\ G \cap old \subseteq rem
    BY <2>2 DEF BarrierBookkeeping, NoteWrites
  <2>5. swept \cup G \subseteq Freed(f, pins)
    BY BackEdgeFrees DEF G
  <2>6. Pins(rooted', frames') = pins
    BY <2>1
  <2> HIDE DEF f, rem
  <2>7. Solid(alive, fns, f, pins)
    <3>1. \A b \in alive, t \in Slots : f[b][t] \in alive \cup {Null}
      BY <1>1, <2>3 DEF Solid
    <3>2. \A b \in Addr \ alive : f[b] = Empty
      BY <2>2, <2>3 DEF Solid
    <3>3. \A b \in fns : f[b] = fields[b]
      BY <1>1, <2>2, <2>3 DEF TypeOK
    <3> QED BY <1>1, <3>1, <3>2, <3>3 DEF Solid
  <2>8. \A b \in (old \cap alive) \ rem, t \in Slots : f[b][t] \in {fields[b][t], Null}
    BY <1>1, <2>3, <2>4
  <2>9. \A c \in fns : f[c] = fields[c]
    BY <1>1, <2>2, <2>3 DEF TypeOK
  <2>10. /\ Solid(alive, fns, fields, Pins(rooted, frames))'
         /\ EveryCellListed' /\ OldToYoungRemembered' /\ BarrierBookkeeping'
         /\ swept' = {}
    <3>1. gc'.phase \in {"off", "boundary"} /\ young \cap alive' \subseteq young' /\ young' \subseteq young
      BY <2>1
    <3>2. swept \cup G \subseteq Freed(f, Pins(rooted', frames')) /\ Solid(alive, fns, f, Pins(rooted', frames'))
      BY <2>5, <2>6, <2>7
    <3> QED BY <2>1, <2>3, <2>4, <2>8, <2>9, <3>1, <3>2, ProgramDrops
  <2>11. AtBoundary'
    BY <2>1 DEF AtBoundary, Depth
  <2> QED BY <1>2, <2>10, <2>11
<1> QED BY <1>3, <1>4, <1>5, <1>6 DEF Collect

\* Every step keeps it, for one call at a time and without compiled stores.
LEMMA HeapStep == ASSUME SingleCall, Interpreted PROVE HeapInv /\ [Next]_vars => HeapInv'
<1> SUFFICES ASSUME HeapInv, [Next]_vars PROVE HeapInv'
  OBVIOUS
<1>1. TypeInv'
  BY TypeStep DEF TypeInv, HeapInv, ClosuresUnlisted, EveryCellListed
<1>2. CASE UNCHANGED vars
  BY <1>1, <1>2 DEF TypeInv, vars, heap, HeapInv, Solid, Pins, Empty, EveryCellListed, Listed,
       OldToYoungRemembered, BarrierBookkeeping, AtBoundary, Depth, FullTrace, MinorTrace, ReachFrom
<1> QED BY <1>1, <1>2, MutateKeepsHeap, CollectKeepsHeap DEF Next, TypeInv

-----------------------------------------------------------------------------
(* The theorems.                                                           *)

\* Counts, lists, flags and the remembered set agree at every step.
THEOREM HeapSound == ASSUME SingleCall, Interpreted PROVE Spec => []HeapInv
BY HeapInit, HeapStep, PTL DEF Spec

\* No collector, minor, full or in the middle of a call, empties an object that
\* what is rooted or held leads to.
THEOREM NoLiveObjectIsSwept == ASSUME SingleCall, Interpreted PROVE Spec => []NoLiveSwept
<1>1. HeapInv => NoLiveSwept
  BY DEF HeapInv, NoLiveSwept
<1> QED BY <1>1, HeapSound, PTL

\* What a collector empties is then freed by its counts: outside a collection
\* nothing emptied is left behind.
THEOREM SweptLeavesNothing == ASSUME SingleCall, Interpreted PROVE Spec => []SweptIsFreed
<1>1. HeapInv => SweptIsFreed
  BY DEF HeapInv, SweptIsFreed
<1> QED BY <1>1, HeapSound, PTL

\* The generational invariant: an unremembered old object leads to no young one.
THEOREM GenerationsKept == ASSUME SingleCall, Interpreted PROVE Spec => []OldToYoungRemembered
<1>1. HeapInv => OldToYoungRemembered
  BY DEF HeapInv
<1> QED BY <1>1, HeapSound, PTL

\* A remembered address is that of a live old cell, and a live entry of OLD has
\* its flag set: no address survives its cell in either list.
THEOREM BookkeepingKept == ASSUME SingleCall, Interpreted PROVE Spec => []BarrierBookkeeping
<1>1. HeapInv => BarrierBookkeeping
  BY DEF HeapInv
<1> QED BY <1>1, HeapSound, PTL

\* What a full trace adds to a minor one is old, or a closure over old objects.
LEMMA MinorReachesTheYoung == HeapInv => MinorTraceComplete
<1> SUFFICES ASSUME HeapInv, gc.phase = "sweep", ~gc.major
             PROVE  gc.work \cap FullTrace(rooted[gc.ctx]) \subseteq gc.marked
  BY DEF MinorTraceComplete
<1> USE DEF HeapInv
<1> DEFINE R == rooted[gc.ctx]
           R2 == R \cup (remembered \cap old \cap alive)
           Through == Addr \ (old \ remembered)
           overOld == {c \in fns : \A s \in Slots : fields[c][s] \in old \cup {Null}}
           Q == gc.marked \cup old \cup overOld
<1>1. fields \in FieldsType /\ R \in SUBSET Addr /\ R2 \in SUBSET Addr /\ Q \in SUBSET Addr
  BY DEF TypeOK, FieldsType
<1>2. gc.marked = ReachFrom(fields, R2, Through)
  BY DEF AtBoundary, MinorTrace
<1>3. R2 \subseteq gc.marked
  BY <1>1, <1>2, ReachHoldsRoots
<1>4. \A b \in gc.marked \cap Through, s \in Slots : fields[b][s] # Null => fields[b][s] \in gc.marked
  <2> HIDE DEF R2, Through
  <2> QED BY <1>1, <1>2, ReachIsClosed
<1>5. ASSUME NEW b \in Q, NEW s \in Slots PROVE fields[b][s] \in Q \cup {Null}
  <2>1. CASE b \in old /\ b \notin alive
    BY <2>1, <1>1 DEF Solid, Empty
  <2>2. CASE b \in (old \cap alive) \ remembered
    BY <2>2 DEF OldToYoungRemembered
  <2>3. CASE b \in remembered \/ (b \notin old /\ b \in gc.marked)
    <3>1. b \in gc.marked \cap Through
      BY <2>3, <1>1, <1>3 DEF BarrierBookkeeping
    <3> QED BY <3>1, <1>4
  <2>4. CASE b \in overOld
    BY <2>4
  <2> QED BY <1>5, <2>1, <2>2, <2>3, <2>4
<1>6. FullTrace(R) \subseteq Q
  <2>1. R \subseteq Q
    BY <1>3
  <2> HIDE DEF Q, R
  <2> QED BY <1>1, <1>5, <2>1, ReachIsLeast DEF FullTrace
<1>7. gc.work \cap (old \cup overOld) = {}
  BY DEF EveryCellListed, Listed
<1> QED BY <1>6, <1>7

\* So a minor collection never misses a young object a full one would keep: what
\* the debug build's verify_minor asserts.
THEOREM MinorMissesNothing == ASSUME SingleCall, Interpreted PROVE Spec => []MinorTraceComplete
BY MinorReachesTheYoung, HeapSound, PTL

-----------------------------------------------------------------------------
(***************************************************************************)
(* What the collectors leave.  Nothing unreachable outlives a collection:  *)
(* a full trace (gc.rs:667-759) and the root-free collection of a back     *)
(* edge (gc.rs:1441-1582) each leave reachable objects only.  Beyond       *)
(* HeapInv this needs that counts never miss a zero: an object nobody      *)
(* outside the heap holds is held by another.  And the engine's heap       *)
(* implements the unmanaged one: through the objects a program can reach,  *)
(* no freeing and no collection can be told (gc.rs:11-37).  Every step of  *)
(* the program is one of ManagedHeap, every step of a collector a stutter. *)
(***************************************************************************)
\* No object outlives its last handle (Drop for GcCell, gc.rs:165-228).
Counted ==
    \A a \in alive \ Pins(rooted, frames) : \E r \in alive, s \in Slots : fields[r][s] = a

ReclaimInv == HeapInv /\ Counted /\ MajorReclaimsAll

-----------------------------------------------------------------------------
(* Counts never miss a zero.                                               *)

\* A cascade of drops goes on to its end.
LEMMA DropsCount ==
    ASSUME TypeOK, NEW f \in FieldsType, NEW od, NEW rem, NEW sw,
           Drops(f, Pins(rooted', frames'), od, rem, sw)
    PROVE  Counted'
<1> DEFINE pins == Pins(rooted', frames')
           gone == Freed(f, pins)
<1>1. /\ alive' = alive \ gone /\ alive \subseteq Addr
      /\ fields' = [a \in Addr |-> IF a \in gone THEN Empty ELSE f[a]]
  BY DEF Drops, TypeOK
<1>2. ASSUME NEW a \in alive' \ pins
      PROVE  \E r \in alive', s \in Slots : fields'[r][s] = a
  <2>1. a \in alive \ pins /\ a \notin gone
    BY <1>1
  <2>2. PICK S \in SUBSET (alive \ (pins \cup {a})) :
          \A b \in alive \ (pins \cup S) : \E r \in alive \ S, s \in Slots : f[r][s] = b
    BY <2>1 DEF Freed
  <2>3. gone \subseteq S
    <3> SUFFICES ASSUME NEW c \in gone, c \notin S PROVE FALSE
      OBVIOUS
    <3>1. S \in SUBSET (alive \ (pins \cup {c}))
      OBVIOUS
    <3> QED BY <3>1, <2>2 DEF Freed
  <2>4. PICK r \in alive \ S, s \in Slots : f[r][s] = a
    BY <2>1, <2>2
  <2>5. r \in alive' /\ fields'[r] = f[r]
    BY <1>1, <2>3, <2>4
  <2> QED BY <2>4, <2>5
<1> QED BY <1>2 DEF Counted, Pins

\* What one more call, or one more thing held by the innermost, adds to the
\* handles outside the heap.
LEMMA PinsGrow ==
    ASSUME TypeOK
    PROVE  /\ \A c \in Ctx : Pins(rooted, frames)
                \subseteq Pins(rooted, Append(frames, [ctx |-> c, held |-> {}]))
           /\ \A x \in Addr : frames # <<>> => Pins(rooted, frames) \cup {x}
                \subseteq Pins(rooted, Holding(Held \cup {x}))
<1>1. frames \in Seq(FrameType) /\ Len(frames) \in Nat /\ DOMAIN frames = 1 .. Len(frames)
  BY DEF TypeOK, FrameType
<1>2. ASSUME NEW c \in Ctx
      PROVE  Pins(rooted, frames) \subseteq Pins(rooted, Append(frames, [ctx |-> c, held |-> {}]))
  <2> DEFINE call == [ctx |-> c, held |-> {}]
             new == Append(frames, call)
  <2>1. call \in FrameType
    BY DEF FrameType
  <2> HIDE DEF call
  <2>2. \A d \in DOMAIN frames : d \in DOMAIN new /\ new[d] = frames[d]
    BY <1>1, <2>1
  <2> HIDE DEF new
  <2>3. Pins(rooted, frames) \subseteq Pins(rooted, new)
    BY <2>2, PinsAre
  <2> QED BY <2>3 DEF new, call
<1>3. ASSUME NEW x \in Addr, frames # <<>>
      PROVE  Pins(rooted, frames) \cup {x} \subseteq Pins(rooted, Holding(Held \cup {x}))
  <2> DEFINE h == Held \cup {x}
  <2>1. Depth \in DOMAIN frames /\ Held \in SUBSET Addr
    BY <1>1, <1>3, FrameFacts DEF Depth
  <2>2. /\ DOMAIN Holding(h) = DOMAIN frames
        /\ \A d \in DOMAIN frames : Holding(h)[d].held = IF d = Depth THEN h ELSE frames[d].held
    BY <1>1, <2>1 DEF Holding, FrameType
  <2>3. \A d \in DOMAIN frames : frames[d].held \subseteq Holding(h)[d].held
    BY <2>2 DEF Held
  <2>4. x \in Holding(h)[Depth].held
    BY <2>1, <2>2
  <2> HIDE DEF h
  <2>5. Pins(rooted, frames) \cup {x} \subseteq Pins(rooted, Holding(h))
    BY <2>1, <2>2, <2>3, <2>4, PinsAre
  <2> QED BY <2>5 DEF h
<1> QED BY <1>2, <1>3

\* A step that frees nothing and holds whatever it adds keeps the counts.
LEMMA CountsKept ==
    ASSUME Counted, alive \subseteq alive',
           \A r \in alive : fields'[r] = fields[r],
           (alive' \ alive) \cup Pins(rooted, frames) \subseteq Pins(rooted', frames')
    PROVE  Counted'
<1> SUFFICES ASSUME NEW a \in alive' \ Pins(rooted', frames')
             PROVE  \E r \in alive', s \in Slots : fields'[r][s] = a
  BY DEF Counted, Pins
<1>1. a \in alive \ Pins(rooted, frames)
  OBVIOUS
<1>2. PICK r \in alive, s \in Slots : fields[r][s] = a
  BY <1>1 DEF Counted
<1> QED BY <1>2

\* Every step of the program keeps the counts.
LEMMA MutateCounts == ASSUME HeapInv, Counted, Mutate PROVE Counted'
<1> USE DEF HeapInv
<1>1. TypeOK /\ fields \in FieldsType /\ alive \subseteq Addr
  BY DEF TypeOK, FieldsType
<1>2. ASSUME NEW c \in Ctx, Enter(c) PROVE Counted'
  BY <1>1, <1>2, PinsGrow, CountsKept DEF Enter, heap
<1>3. ASSUME NEW a \in Addr, LoadRoot(a) PROVE Counted'
  BY <1>1, <1>3, PinsGrow, CountsKept DEF LoadRoot, MayHoldMore, Running, heap
<1>4. ASSUME NEW a \in Addr, NEW s \in Slots, LoadField(a, s) PROVE Counted'
  <2>1. fields[a][s] \in Addr
    BY <1>1, <1>4 DEF LoadField, FieldsType
  <2> QED BY <1>1, <1>4, <2>1, PinsGrow, CountsKept DEF LoadField, MayHoldMore, Running, heap
<1>5. ASSUME NEW a \in Addr, New(a) PROVE Counted'
  BY <1>1, <1>5, PinsGrow, CountsKept DEF New, MayHoldMore, Running
<1>6. ASSUME NEW a \in Addr, NewClosure(a) PROVE Counted'
  <2>1. \A r \in alive : fields'[r] = fields[r]
    BY <1>1, <1>6 DEF NewClosure, Allocatable, FieldsType
  <2> QED BY <1>1, <1>6, <2>1, PinsGrow, CountsKept DEF NewClosure, MayHoldMore, Running
<1>7. ASSUME NEW a \in Addr, Root(a) PROVE Counted'
  <2>1. rooted' = [rooted EXCEPT ![MyCtx] = @ \cup {a}] /\ UNCHANGED <<heap, frames>>
    BY <1>7 DEF Root
  <2>2. \A c \in Ctx : rooted[c] \subseteq rooted'[c]
    BY <2>1 DEF TypeOK
  <2>3. Pins(rooted, frames) \subseteq Pins(rooted', frames)
    BY <2>2, PinsAre
  <2> QED BY <2>1, <2>3, CountsKept DEF heap
<1>8. ASSUME NEW a \in Addr, DropLocal(a) PROVE Counted'
  BY <1>1, <1>8, DropsCount DEF DropLocal
<1>9. ASSUME NEW a \in Addr, NEW s \in Slots, NEW v \in Addr \cup {Null}, NEW tier \in Tiers,
             Store(a, s, v, tier)
      PROVE  Counted'
  <2> DEFINE f == [fields EXCEPT ![a][s] = v]
             rem == remembered \cup (IF tier = "jit" THEN {} ELSE NoteWrites({a}))
  <2>1. f \in FieldsType
    BY <1>1 DEF FieldsType
  <2>2. Drops(f, Pins(rooted', frames'), old, rem, swept)
    BY <1>9 DEF Store
  <2> HIDE DEF f, rem
  <2> QED BY <1>1, <2>1, <2>2, DropsCount
<1>10. ASSUME NEW c \in Ctx, NEW a \in Addr, Unroot(c, a) PROVE Counted'
  BY <1>1, <1>10, DropsCount DEF Unroot
<1>11. ASSUME NEW thrown \in BOOLEAN, Leave(thrown) PROVE Counted'
  BY <1>1, <1>11, DropsCount DEF Leave
<1> QED BY <1>2, <1>3, <1>4, <1>5, <1>6, <1>7, <1>8, <1>9, <1>10, <1>11 DEF Mutate

\* So does every step of the collectors.
LEMMA CollectCounts == ASSUME HeapInv, Counted, Collect PROVE Counted'
<1> USE DEF HeapInv
<1>1. CASE MaybeCollect
  BY <1>1 DEF MaybeCollect, heap, Counted, Pins
<1>2. CASE Promote
  BY <1>2 DEF Promote, Counted, Pins
<1>3. CASE Sweep
  BY <1>3, ClearedType, DropsCount DEF Sweep
<1>4. CASE BackEdge
  BY <1>4, ClearedType, DropsCount DEF BackEdge
<1> QED BY <1>1, <1>2, <1>3, <1>4 DEF Collect

-----------------------------------------------------------------------------
(* What a collection leaves.                                               *)

\* If every cell is reachable, so is every closure: one that nobody outside the
\* heap holds is in some slot, and closures have none that lead to closures.
LEMMA ClosuresFollow ==
    ASSUME NEW al \in SUBSET Addr, NEW fn, NEW f \in FieldsType, NEW pins,
           Solid(al, fn, f, pins),
           \A a \in al \ pins : \E r \in al, s \in Slots : f[r][s] = a,
           al \ fn \subseteq ReachFrom(f, pins, Addr)
    PROVE  al \subseteq ReachFrom(f, pins, Addr)
<1> SUFFICES ASSUME NEW a \in al, a \in fn PROVE a \in ReachFrom(f, pins, Addr)
  OBVIOUS
<1>1. pins \in SUBSET Addr
  BY DEF Solid
<1>2. CASE a \in pins
  BY <1>1, <1>2, ReachHoldsRoots
<1>3. CASE a \notin pins
  <2>1. PICK r \in al, s \in Slots : f[r][s] = a
    BY <1>3
  <2>2. r \notin fn
    BY <2>1 DEF Solid
  <2>3. r \in ReachFrom(f, pins, Addr) \cap Addr /\ f[r][s] # Null
    BY <2>1, <2>2, AddrAssumption
  <2> QED BY <1>1, <2>1, <2>3, ReachIsClosed
<1> QED BY <1>2, <1>3

\* Emptying what is then freed cuts nothing that could be reached.
LEMMA ReachableStays ==
    ASSUME HeapInv, HeapInv', UNCHANGED <<rooted, frames>>, NEW G, NEW od, NEW rem, NEW sw,
           G \cap alive \subseteq Freed(Cleared(G), Pins(rooted, frames)),
           Drops(Cleared(G), Pins(rooted, frames), od, rem, sw)
    PROVE  Reachable \subseteq Reachable'
<1> DEFINE pins == Pins(rooted, frames)
           gone == Freed(Cleared(G), pins)
           Q == ReachFrom(fields', pins, Addr)
<1>1. /\ Reachable' = Q /\ Reachable = ReachFrom(fields, pins, Addr)
      /\ fields \in FieldsType /\ fields' \in FieldsType /\ alive' \in SUBSET Addr
  BY DEF HeapInv, TypeOK, FieldsType, Reachable, Pins, ReachFrom
<1>2. Solid(alive', fns', fields', pins)
  BY DEF HeapInv, Solid, Pins, Empty
<1>3. pins \in SUBSET Addr /\ pins \subseteq Q
  BY <1>1, <1>2, ReachHoldsRoots DEF Solid
<1>4. Q \subseteq alive'
  BY <1>1, <1>2, <1>3, ReachIsLeast DEF Solid
<1>5. ASSUME NEW b \in alive' PROVE fields'[b] = fields[b]
  <2>1. b \in alive /\ b \notin gone /\ fields'[b] = Cleared(G)[b] /\ b \in Addr
    BY <1>1 DEF Drops
  <2>2. b \notin G
    BY <2>1
  <2> QED BY <2>1, <2>2 DEF Cleared
<1>6. \A b \in Q \cap Addr, s \in Slots : fields'[b][s] # Null => fields'[b][s] \in Q
  BY <1>1, <1>3, ReachIsClosed
<1>7. \A b \in Q \cap Addr, s \in Slots : fields[b][s] \in Q \cup {Null}
  BY <1>4, <1>5, <1>6
<1>8. Q \in SUBSET Addr
  BY DEF ReachFrom
<1> HIDE DEF Q, pins, gone
<1> QED BY <1>1, <1>3, <1>7, <1>8, ReachIsLeast

\* After a full trace and its sweep every object left is reachable.
LEMMA SweepReclaims ==
    ASSUME SingleCall, HeapInv, HeapInv', Counted', Sweep, gc.major
    PROVE  (alive \subseteq Reachable)'
<1> DEFINE G == Garbage \cup Doomed
           pins == Pins(rooted, frames)
<1> USE DEF HeapInv
<1>1. /\ UNCHANGED <<rooted, frames>> /\ gc.phase = "sweep"
      /\ Drops(Cleared(G), pins, old \ Doomed, remembered \cup NoteWrites(Garbage),
               swept \cup Garbage \cup (Doomed \cap alive))
  BY DEF Sweep
<1>2. G \cap alive \subseteq Freed(Cleared(G), pins)
  BY <1>1, SweepFrees DEF Garbage
<1>3. Reachable \subseteq Reachable'
  BY <1>1, <1>2, ReachableStays
<1>4. gc.marked = Reachable
  <2>1. pins = rooted[gc.ctx]
    BY <1>1 DEF TypeOK, SingleCall, Pins, AtBoundary
  <2> QED BY <1>1, <2>1 DEF AtBoundary, FullTrace, Reachable
<1>5. alive' \ fns' \subseteq gc.marked
  <2> SUFFICES ASSUME NEW a \in alive' \ fns', a \notin gc.marked PROVE FALSE
    OBVIOUS
  <2>1. a \in alive \ fns /\ a \notin Freed(Cleared(G), pins)
    BY <1>1 DEF Drops
  <2>2. a \in gc.work \cup old
    BY <1>1, <2>1 DEF EveryCellListed, Listed
  <2>3. a \in G
    BY <2>1, <2>2 DEF Garbage, Doomed
  <2> QED BY <1>2, <2>1, <2>3
<1>6. /\ alive' \in SUBSET Addr /\ fields' \in FieldsType
      /\ Reachable' = ReachFrom(fields', pins, Addr)
      /\ Solid(alive', fns', fields', pins)
      /\ \A a \in alive' \ pins : \E r \in alive', s \in Slots : fields'[r][s] = a
  BY <1>1 DEF TypeOK, FieldsType, Reachable, ReachFrom, Pins, Solid, Empty, Counted
<1>7. alive' \ fns' \subseteq ReachFrom(fields', pins, Addr)
  BY <1>3, <1>4, <1>5, <1>6
<1> HIDE DEF pins
<1>8. alive' \subseteq ReachFrom(fields', pins, Addr)
  BY <1>6, <1>7, ClosuresFollow
<1> QED BY <1>6, <1>8

\* What the cycle collector finds live is reachable: a node with a handle the
\* nodes do not account for is held from outside the heap, or by a closure that is.
LEMMA LiveNodesReachable ==
    ASSUME HeapInv, Counted, gc.phase = "off"
    PROVE  LiveNodes \subseteq Reachable
<1> USE DEF HeapInv
<1> DEFINE pins == Pins(rooted, frames)
<1>1. /\ Nodes \subseteq alive /\ alive \subseteq Addr /\ External \in SUBSET Addr
      /\ fields \in FieldsType /\ pins \in SUBSET Addr
      /\ Reachable = ReachFrom(fields, pins, Addr) /\ Reachable \in SUBSET Addr
  BY DEF Nodes, Tracked, External, TypeOK, FieldsType, Solid, Reachable, ReachFrom
<1>2. \A b \in Reachable, s \in Slots : fields[b][s] \in Reachable \cup {Null}
  BY <1>1, ReachIsClosed
<1>3. alive \ fns \subseteq Nodes
  BY DEF EveryCellListed, Listed, Nodes, Tracked
<1>4. ASSUME NEW r \in alive \ Nodes PROVE r \in pins
  <2> SUFFICES ASSUME r \notin pins PROVE FALSE
    OBVIOUS
  <2>1. PICK q \in alive, t \in Slots : fields[q][t] = r
    BY DEF Counted
  <2>2. r \in fns
    BY <1>3
  <2>3. q \notin fns
    BY <2>1, <2>2 DEF Solid
  <2>4. q \in Tracked
    BY <2>3 DEF EveryCellListed, Listed, Tracked
  <2> QED BY <2>1, <2>2, <2>4 DEF Nodes
<1>5. ASSUME NEW a \in External PROVE a \in Reachable
  <2> SUFFICES ASSUME a \notin Reachable PROVE FALSE
    OBVIOUS
  <2>1. a \notin pins /\ \A r \in alive \ Nodes, s \in Slots : fields[r][s] # a
    <3>1. pins \subseteq Reachable
      BY <1>1, ReachHoldsRoots
    <3>2. a # Null
      BY <1>1, AddrAssumption
    <3> QED BY <1>2, <1>4, <3>1, <3>2
  <2>2. SlotHandles(a, alive) = SlotHandles(a, Nodes)
    BY <1>1, <2>1 DEF SlotHandles
  <2>3. {c \in Ctx : a \in rooted[c]} = {} /\ {d \in DOMAIN frames : a \in frames[d].held} = {}
    BY <2>1, PinsAre
  <2>4. StrongCount(a) > Cardinality(SlotHandles(a, Nodes))
    BY DEF External
  <2>5. Cardinality(SlotHandles(a, alive)) \in Nat
    <3>1. IsFiniteSet(alive \X Slots)
      BY <1>1, AddrAssumption, SlotsAssumption, FS_Subset, FS_Product
    <3>2. IsFiniteSet(SlotHandles(a, alive))
      BY <3>1, FS_Subset DEF SlotHandles
    <3> QED BY <3>2, FS_CardinalityType
  <2>6. StrongCount(a) = Cardinality(SlotHandles(a, alive)) + 0 + 0
    BY <2>3, FS_EmptySet DEF StrongCount
  <2> QED BY <2>2, <2>4, <2>5, <2>6
<1>6. ReachFrom(fields, External, Nodes) \subseteq Reachable
  BY <1>1, <1>2, <1>5, ReachIsLeast
<1> QED BY <1>6 DEF LiveNodes

\* After a cycle collection every object left is reachable.
LEMMA BackEdgeReclaims ==
    ASSUME HeapInv, HeapInv', Counted, Counted', BackEdge
    PROVE  (alive \subseteq Reachable)'
<1> DEFINE G == (Nodes \ LiveNodes) \ fns
           pins == Pins(rooted, frames)
<1> USE DEF HeapInv
<1>1. /\ UNCHANGED <<rooted, frames>> /\ gc.phase = "off"
      /\ Drops(Cleared(G), pins, old, remembered \cup NoteWrites(G), swept \cup G)
  BY DEF BackEdge, Running
<1>2. G \subseteq Freed(Cleared(G), pins)
  BY BackEdgeFrees
<1>3. Reachable \subseteq Reachable'
  BY <1>1, <1>2, ReachableStays
<1>4. alive' \ fns' \subseteq Reachable
  <2> SUFFICES ASSUME NEW a \in alive' \ fns' PROVE a \in Reachable
    OBVIOUS
  <2>1. a \in alive \ fns /\ a \notin Freed(Cleared(G), pins)
    BY <1>1 DEF Drops
  <2>2. a \in Nodes
    BY <1>1, <2>1 DEF EveryCellListed, Listed, Nodes, Tracked
  <2>3. a \in LiveNodes
    BY <1>2, <2>1, <2>2
  <2> QED BY <1>1, <2>3, LiveNodesReachable
<1>5. /\ alive' \in SUBSET Addr /\ fields' \in FieldsType
      /\ Reachable' = ReachFrom(fields', pins, Addr)
      /\ Solid(alive', fns', fields', pins)
      /\ \A a \in alive' \ pins : \E r \in alive', s \in Slots : fields'[r][s] = a
  BY <1>1 DEF TypeOK, FieldsType, Reachable, ReachFrom, Pins, Solid, Empty, Counted
<1>6. alive' \ fns' \subseteq ReachFrom(fields', pins, Addr)
  BY <1>3, <1>4, <1>5
<1> HIDE DEF pins
<1>7. alive' \subseteq ReachFrom(fields', pins, Addr)
  BY <1>5, <1>6, ClosuresFollow
<1> QED BY <1>5, <1>7

-----------------------------------------------------------------------------
(* The theorems.                                                           *)

\* The empty heap has nothing to reclaim.
LEMMA ReclaimInit == Init => ReclaimInv
<1> SUFFICES ASSUME Init PROVE ReclaimInv
  OBVIOUS
<1>1. Counted
  BY DEF Init, Counted
<1>2. MajorReclaimsAll
  BY IdleType DEF Init, MajorReclaimsAll
<1> QED BY <1>1, <1>2, HeapInit DEF ReclaimInv

\* Every step keeps the counts exact, and a full collection leaves no garbage.
LEMMA ReclaimStep == ASSUME SingleCall, Interpreted PROVE ReclaimInv /\ [Next]_vars => ReclaimInv'
<1> SUFFICES ASSUME ReclaimInv, [Next]_vars PROVE ReclaimInv'
  OBVIOUS
<1> USE DEF ReclaimInv
<1>1. HeapInv'
  BY HeapStep
<1>2. ASSUME UNCHANGED vars PROVE Counted' /\ MajorReclaimsAll'
  <2>1. UNCHANGED <<alive, fields, rooted, frames, gc>>
    BY <1>2 DEF vars, heap
  <2>2. Pins(rooted, frames)' = Pins(rooted, frames)
    BY <2>1 DEF Pins
  <2>3. Reachable' = Reachable
    BY <2>1, <2>2 DEF Reachable, ReachFrom
  <2> QED BY <2>1, <2>2, <2>3 DEF Counted, MajorReclaimsAll
<1>3. Counted'
  <2>1. CASE UNCHANGED vars
    BY <2>1, <1>2
  <2> QED BY <2>1, MutateCounts, CollectCounts DEF Next
<1>4. MajorReclaimsAll'
  <2>1. CASE Mutate
    <3>1. gc'.phase # "promote"
      BY <2>1 DEF Mutate, Enter, LoadRoot, LoadField, DropLocal, New, NewClosure, Store, Root,
           Unroot, Leave, MayHoldMore, Running, HeapInv, TypeOK
    <3> QED BY <3>1 DEF MajorReclaimsAll
  <2>2. CASE MaybeCollect
    <3>1. gc'.phase # "promote"
      BY <2>2, IdleType DEF MaybeCollect, StartCollection, HeapInv, TypeOK
    <3> QED BY <3>1 DEF MajorReclaimsAll
  <2>3. CASE Promote
    <3>1. gc'.phase # "promote"
      BY <2>3, IdleType DEF Promote
    <3> QED BY <3>1 DEF MajorReclaimsAll
  <2>4. CASE BackEdge
    <3>1. gc'.phase # "promote"
      BY <2>4 DEF BackEdge, Running
    <3> QED BY <3>1 DEF MajorReclaimsAll
  <2>5. CASE Sweep
    <3>1. gc'.major = gc.major
      BY <2>5 DEF Sweep, HeapInv, TypeOK
    <3>2. CASE gc.major
      BY <1>1, <1>3, <2>5, <3>2, SweepReclaims DEF MajorReclaimsAll
    <3>3. CASE ~gc.major
      BY <3>1, <3>3 DEF MajorReclaimsAll
    <3> QED BY <3>2, <3>3
  <2> QED BY <1>2, <2>1, <2>2, <2>3, <2>4, <2>5 DEF Next, Collect
<1> QED BY <1>1, <1>3, <1>4

\* A full collection reclaims every cycle (gc.rs:11-37): when its sweep is over,
\* nothing unreachable is left.
THEOREM FullCollectionReclaims == ASSUME SingleCall, Interpreted PROVE Spec => []MajorReclaimsAll
<1>1. ReclaimInv => MajorReclaimsAll
  BY DEF ReclaimInv
<1> QED BY <1>1, ReclaimInit, ReclaimStep, PTL DEF Spec

\* So does the root-free collection of a loop's back edge (collect_cycles,
\* gc.rs:1441-1458), whatever the call in progress holds.
THEOREM CycleCollectionReclaims ==
    ASSUME SingleCall, Interpreted PROVE Spec => BackEdgeReclaimsAll
<1>1. ReclaimInv /\ ReclaimInv' /\ [Next]_vars => [BackEdge => alive' \subseteq Reachable']_vars
  BY BackEdgeReclaims DEF ReclaimInv
<1> QED BY <1>1, ReclaimInit, ReclaimStep, PTL DEF Spec, BackEdgeReclaimsAll

-----------------------------------------------------------------------------
(* The unmanaged heap is implemented.                                      *)

\* What the program sees of the references.
Seen == [a \in Addr |-> IF a \in Reachable THEN fields[a] ELSE Empty]

-----------------------------------------------------------------------------
(* Reachability depends on the reachable part of the heap alone.           *)

\* Links of what cannot be reached may change: nothing more is reached, or less.
LEMMA SameReach ==
    ASSUME NEW f \in FieldsType, NEW g \in FieldsType, NEW P \in SUBSET Addr,
           \A b \in ReachFrom(f, P, Addr), s \in Slots : g[b][s] = f[b][s]
    PROVE  ReachFrom(g, P, Addr) = ReachFrom(f, P, Addr)
<1> DEFINE F == ReachFrom(f, P, Addr)
           G == ReachFrom(g, P, Addr)
<1>1. F \in SUBSET Addr /\ G \in SUBSET Addr /\ P \subseteq F /\ P \subseteq G
  BY ReachHoldsRoots DEF ReachFrom
<1>2. \A b \in F \cap Addr, s \in Slots : f[b][s] \in F \cup {Null}
  BY <1>1, ReachIsClosed
<1>3. \A b \in G \cap Addr, s \in Slots : g[b][s] \in G \cup {Null}
  BY <1>1, ReachIsClosed
<1>4. G \subseteq F
  <2>1. \A b \in F \cap Addr, s \in Slots : g[b][s] \in F \cup {Null}
    BY <1>2
  <2> HIDE DEF F, G
  <2>2. ReachFrom(g, P, Addr) \subseteq F
    BY <1>1, <2>1, ReachIsLeast
  <2> QED BY <2>2 DEF G
<1>5. F \subseteq G
  <2>1. \A b \in G \cap Addr, s \in Slots : f[b][s] \in G \cup {Null}
    BY <1>3, <1>4
  <2> HIDE DEF F, G
  <2>2. ReachFrom(f, P, Addr) \subseteq G
    BY <1>1, <2>1, ReachIsLeast
  <2> QED BY <2>2 DEF F
<1> QED BY <1>4, <1>5

\* Reachability as ManagedHeap defines it is that of Gc.
LEMMA ReachIsReach ==
    ASSUME NEW f, NEW r, NEW fr
    PROVE  Managed!Reach(f, r, fr) = ReachFrom(f, Pins(r, fr), Addr)
BY DEF Managed!Reach, ReachFrom, Pins

\* Everything reachable is alive, and what it refers to is reachable.
LEMMA ReachableFacts ==
    ASSUME HeapInv
    PROVE  /\ fields \in FieldsType /\ Reachable \in SUBSET Addr /\ Seen \in FieldsType
           /\ Pins(rooted, frames) \subseteq Reachable /\ Reachable \subseteq alive
           /\ \A b \in Reachable, s \in Slots : fields[b][s] \in Reachable \cup {Null}
           /\ \A b \in Reachable : Seen[b] = fields[b]
<1> USE DEF HeapInv
<1>1. fields \in FieldsType /\ alive \in SUBSET Addr /\ Pins(rooted, frames) \in SUBSET Addr
  BY DEF TypeOK, FieldsType, Solid
<1>2. Reachable \in SUBSET Addr /\ Pins(rooted, frames) \subseteq Reachable
  BY <1>1, ReachHoldsRoots DEF Reachable, ReachFrom
<1>3. \A b \in Reachable, s \in Slots : fields[b][s] \in Reachable \cup {Null}
  BY <1>1, <1>2, ReachIsClosed DEF Reachable
<1>4. Reachable \subseteq alive
  BY <1>1, ReachIsLeast DEF Reachable, Solid
<1>5. Seen \in FieldsType /\ \A b \in Reachable : Seen[b] = fields[b]
  BY <1>1, <1>2 DEF Seen, FieldsType, Empty
<1> QED BY <1>1, <1>2, <1>3, <1>4, <1>5

\* The heap after a step is what ManagedHeap makes of references that agree
\* with it wherever the program can get.
LEMMA Becomes ==
    ASSUME HeapInv, HeapInv', NEW g \in FieldsType,
           \A b \in Reachable' : g[b] = fields'[b]
    PROVE  Managed!Become(g)
<1>1. /\ fields' \in FieldsType /\ Reachable' \in SUBSET Addr
      /\ Pins(rooted', frames') \in SUBSET Addr
      /\ Reachable' = ReachFrom(fields', Pins(rooted', frames'), Addr)
  BY DEF HeapInv, TypeOK, FieldsType, Solid, Reachable, Pins, ReachFrom
<1>2. ReachFrom(g, Pins(rooted', frames'), Addr) = Reachable'
  BY <1>1, SameReach
<1>3. [a \in Addr |-> IF a \in Reachable THEN fields[a] ELSE Empty]'
        = [a \in Addr |-> IF a \in Reachable' THEN g[a] ELSE Empty]
  BY <1>1 DEF Empty
<1> QED BY <1>2, <1>3, ReachIsReach DEF Managed!Become, Managed!Nothing, Empty

\* A step that leaves every object alive as it was, and pins nothing the program
\* could not reach, changes nothing the program sees.
LEMMA KeepsLinks ==
    ASSUME HeapInv, HeapInv', Pins(rooted', frames') \subseteq Reachable,
           \A b \in alive' : fields'[b] = fields[b]
    PROVE  Managed!Become(Seen)
<1>1. fields' \in FieldsType /\ Reachable' \subseteq alive' /\ Reachable \in SUBSET Addr
      /\ Reachable' = ReachFrom(fields', Pins(rooted', frames'), Addr)
      /\ Pins(rooted', frames') \in SUBSET Addr
      /\ \A b \in Addr \ alive' : fields'[b] = Empty
  <2>1. fields' \in FieldsType /\ Pins(rooted', frames') \in SUBSET Addr
        /\ Reachable' = ReachFrom(fields', Pins(rooted', frames'), Addr)
        /\ Solid(alive', fns', fields', Pins(rooted', frames'))
    BY DEF HeapInv, TypeOK, FieldsType, Solid, Reachable, Pins, ReachFrom, Empty
  <2>2. alive' \in SUBSET Addr
    BY DEF HeapInv, TypeOK
  <2>3. Reachable' \subseteq alive'
    BY <2>1, <2>2, ReachIsLeast DEF Solid
  <2> QED BY <2>1, <2>3, ReachableFacts DEF Solid
<1>2. \A b \in Reachable \cap Addr, s \in Slots : fields'[b][s] \in Reachable \cup {Null}
  BY <1>1, ReachableFacts DEF Empty
<1>3. Reachable' \subseteq Reachable
  BY <1>1, <1>2, ReachIsLeast
<1>4. \A b \in Reachable' : Seen[b] = fields'[b]
  BY <1>1, <1>3, ReachableFacts
<1> QED BY <1>4, Becomes, ReachableFacts DEF Managed!Become

\* Nor does one that pins what was pinned: the program could not tell it happened.
LEMMA KeepsSeen ==
    ASSUME HeapInv, HeapInv', UNCHANGED <<rooted, frames>>,
           \A b \in alive' : fields'[b] = fields[b]
    PROVE  UNCHANGED <<Reachable, Seen, rooted, frames>>
<1> DEFINE pins == Pins(rooted, frames)
<1>1. /\ fields \in FieldsType /\ fields' \in FieldsType /\ pins \in SUBSET Addr
      /\ Reachable = ReachFrom(fields, pins, Addr) /\ Reachable' = ReachFrom(fields', pins, Addr)
      /\ Solid(alive', fns', fields', pins) /\ alive' \in SUBSET Addr
  BY DEF HeapInv, TypeOK, FieldsType, Solid, Reachable, Pins, ReachFrom, Empty
<1> HIDE DEF pins
<1>2. Reachable' \subseteq alive'
  BY <1>1, ReachIsLeast DEF Solid
<1>3. Reachable = Reachable'
  BY <1>1, <1>2, SameReach
<1>4. Seen' = [a \in Addr |-> IF a \in Reachable' THEN fields'[a] ELSE Empty]
  BY DEF Seen, Empty
<1> QED BY <1>2, <1>3, <1>4 DEF Seen

\* What a cascade of drops leaves alive it leaves as it was.
LEMMA DropsLeave ==
    ASSUME TypeOK, NEW f, NEW pins, NEW od, NEW rem, NEW sw, Drops(f, pins, od, rem, sw)
    PROVE  \A b \in alive' : b \in alive /\ fields'[b] = f[b]
BY DEF Drops, TypeOK

-----------------------------------------------------------------------------
(* The steps.                                                              *)

\* Each step of the program but Store is one of the unmanaged heap's.
LEMMA ProgramRefines ==
    ASSUME HeapInv, HeapInv', Mutate,
           ~ \E a \in Addr, s \in Slots, v \in Addr \cup {Null}, tier \in Tiers : Store(a, s, v, tier)
    PROVE  Managed!Next
<1> USE DEF HeapInv
<1>1. TypeOK /\ Pins(rooted, frames) \subseteq Reachable /\ alive \subseteq Addr
  BY ReachableFacts DEF TypeOK
<1>2. ASSUME NEW c \in Ctx, Enter(c) PROVE Managed!Next
  <2>1. Managed!Enter(c) /\ UNCHANGED rooted
    BY <1>2 DEF Enter, Managed!Enter
  <2>2. Pins(rooted', frames') \subseteq Reachable
    BY <1>1, <1>2, EnterPins DEF Enter
  <2>3. Managed!Become(Seen)
    BY <1>2, <2>2, KeepsLinks DEF Enter, heap
  <2> QED BY <2>1, <2>3 DEF Managed!Next, Seen
<1>3. ASSUME NEW a \in Addr, LoadRoot(a) PROVE Managed!Next
  <2>1. Managed!Hold(a) /\ UNCHANGED rooted
    BY <1>3 DEF LoadRoot, MayHoldMore, Running, Held, MyCtx, Depth, Holding,
         Managed!Hold, Managed!Held, Managed!Depth
  <2>2. frames # <<>> /\ Held \cup {a} \in SUBSET Addr /\ frames' = Holding(Held \cup {a})
        /\ UNCHANGED <<heap, rooted>> /\ a \in rooted[MyCtx]
    BY <1>3, FrameFacts DEF LoadRoot, MayHoldMore, Running
  <2>3. Pins(rooted', frames') \subseteq Reachable
    BY <1>1, <2>2, CallPins
  <2>4. Managed!Become(Seen)
    BY <2>2, <2>3, KeepsLinks DEF heap
  <2> QED BY <2>1, <2>4 DEF Managed!Next, Seen
<1>4. ASSUME NEW b \in Addr, NEW s \in Slots, LoadField(b, s) PROVE Managed!Next
  <2> DEFINE a == fields[b][s]
  <2>1. frames # <<>> /\ b \in Held /\ b \in Reachable /\ a \in Reachable /\ a \in Addr /\ a # Null
        /\ Held \in SUBSET Addr
        /\ frames' = Holding(Held \cup {a}) /\ UNCHANGED <<heap, rooted>>
    <3>1. frames # <<>> /\ b \in Held /\ fields[b][s] # Null
          /\ frames' = Holding(Held \cup {a}) /\ UNCHANGED <<heap, rooted>>
      BY <1>4 DEF LoadField, MayHoldMore, Running
    <3>2. b \in Reachable /\ Held \in SUBSET Addr
      BY <1>1, <3>1, CallPins, FrameFacts
    <3>3. a \in Reachable /\ Reachable \in SUBSET Addr
      BY <3>1, <3>2, ReachableFacts
    <3> QED BY <3>1, <3>2, <3>3
  <2>2. a = Seen[b][s]
    BY <2>1, ReachableFacts
  <2> HIDE DEF a
  <2>3. Managed!Hold(a) /\ UNCHANGED rooted
    BY <2>1, <2>2 DEF Held, Depth, Holding, Managed!Hold, Managed!Held, Managed!Depth, Seen
  <2>4. Pins(rooted', frames') \subseteq Reachable
    BY <1>1, <2>1, CallPins
  <2>5. Managed!Become(Seen)
    BY <2>1, <2>4, KeepsLinks DEF heap
  <2> QED BY <2>1, <2>3, <2>5 DEF Managed!Next, Seen
<1>5. ASSUME NEW a \in Addr, DropLocal(a) PROVE Managed!Next
  <2>1. Managed!DropLocal(a) /\ UNCHANGED rooted
    BY <1>5 DEF DropLocal, Running, Held, Depth, Holding, Managed!DropLocal, Managed!Held, Managed!Depth
  <2>2. frames # <<>> /\ Held \in SUBSET Addr /\ frames' = Holding(Held \ {a})
        /\ Drops(fields, Pins(rooted, frames'), old, remembered, swept)
    BY <1>5, FrameFacts DEF DropLocal, Running
  <2>3. Pins(rooted', frames') \subseteq Reachable
    BY <1>1, <2>1, <2>2, CallPins
  <2>4. Managed!Become(Seen)
    BY <2>2, <2>3, DropsLeave, KeepsLinks
  <2> QED BY <2>1, <2>4 DEF Managed!Next, Seen
<1>6. ASSUME NEW a \in Addr, Root(a) PROVE Managed!Next
  <2>1. Managed!Root(a) /\ UNCHANGED frames
    BY <1>6 DEF Root, Running, Held, MyCtx, Depth, Managed!Root, Managed!Held, Managed!Depth
  <2>2. a \in Reachable /\ rooted' = [rooted EXCEPT ![MyCtx] = @ \cup {a}] /\ UNCHANGED heap
    BY <1>1, <1>6, CallPins DEF Root, Running
  <2>3. \A c \in Ctx : rooted'[c] \subseteq rooted[c] \cup {a}
    BY <2>2 DEF TypeOK
  <2>4. Pins(rooted', frames') \subseteq Pins(rooted, frames) \cup {a}
    BY <2>1, <2>3, PinsAre
  <2>5. Managed!Become(Seen)
    BY <1>1, <2>2, <2>4, KeepsLinks DEF heap
  <2> QED BY <2>1, <2>5 DEF Managed!Next, Seen
<1>7. ASSUME NEW c \in Ctx, NEW a \in Addr, Unroot(c, a) PROVE Managed!Next
  <2>1. Managed!Unroot(c, a) /\ UNCHANGED frames
    BY <1>7 DEF Unroot, Managed!Unroot
  <2>2. \A d \in Ctx : rooted'[d] \subseteq rooted[d]
    BY <1>7 DEF Unroot, TypeOK
  <2>3. Pins(rooted', frames') \subseteq Reachable
    BY <1>1, <2>1, <2>2, PinsAre
  <2>4. Managed!Become(Seen)
    BY <1>7, <2>3, DropsLeave, KeepsLinks DEF Unroot
  <2> QED BY <2>1, <2>4 DEF Managed!Next, Seen
<1>8. ASSUME NEW thrown \in BOOLEAN, Leave(thrown) PROVE Managed!Next
  <2>1. Managed!Leave /\ UNCHANGED rooted
    BY <1>8 DEF Leave, Running, Depth, Managed!Leave, Managed!Depth
  <2>2. Pins(rooted', frames') \subseteq Reachable
    BY <1>1, <1>8, CallPins DEF Leave, Running
  <2>3. Managed!Become(Seen)
    BY <1>8, <2>2, DropsLeave, KeepsLinks DEF Leave
  <2> QED BY <2>1, <2>3 DEF Managed!Next, Seen
<1>9. ASSUME NEW a \in Addr, New(a) \/ NewClosure(a) PROVE Managed!Next
  <2> DEFINE g == [Seen EXCEPT ![a] = Seen'[a]]
             pins == Pins(rooted', frames')
  <2>1. /\ frames # <<>> /\ a \notin alive /\ alive' = alive \cup {a} /\ UNCHANGED rooted
        /\ frames' = Holding(Held \cup {a})
        /\ \A b \in Addr \ {a} : fields'[b] = fields[b]
        /\ \A s \in Slots : fields'[a][s] \in Held \cup {Null}
    <3>1. CASE New(a)
      BY <1>1, <3>1 DEF New, MayHoldMore, Running, Allocatable, Solid, Empty
    <3>2. CASE NewClosure(a)
      <4>1. PICK captured \in [Slots -> (Held \ fns) \cup {Null}] \ {Empty} :
              fields' = [fields EXCEPT ![a] = captured]
        BY <3>2 DEF NewClosure
      <4>2. \A b \in Addr \ {a} : fields'[b] = fields[b]
        BY <4>1 DEF TypeOK
      <4>3. fields'[a] = captured
        BY <4>1 DEF TypeOK
      <4> QED BY <1>1, <3>2, <4>2, <4>3 DEF NewClosure, MayHoldMore, Running, Allocatable
    <3> QED BY <1>9, <3>1, <3>2
  <2>2. Held \in SUBSET Addr /\ Held \subseteq Reachable /\ a \notin Reachable
        /\ Reachable \in SUBSET Addr /\ fields \in FieldsType /\ Seen \in FieldsType
        /\ \A b \in Reachable : Seen[b] = fields[b]
    BY <1>1, <2>1, FrameFacts, CallPins, ReachableFacts
  <2>3. pins \subseteq Reachable \cup {a} /\ pins \in SUBSET Addr
    BY <1>1, <2>1, <2>2, CallPins
  <2>4. fields' \in FieldsType /\ Reachable' = ReachFrom(fields', pins, Addr)
    BY DEF TypeOK, FieldsType, Reachable, Pins, ReachFrom
  <2>5. \A b \in (Reachable \cup {a}) \cap Addr, s \in Slots :
          fields'[b][s] \in (Reachable \cup {a}) \cup {Null}
    BY <2>1, <2>2, ReachableFacts
  <2>6. Reachable' \subseteq Reachable \cup {a}
    <3>1. Reachable \cup {a} \in SUBSET Addr
      BY <2>2
    <3> HIDE DEF pins
    <3> QED BY <2>3, <2>4, <2>5, <3>1, ReachIsLeast
  <2>7. a \in Reachable'
    <3>1. Held \cup {a} \in SUBSET Addr
      BY <2>2
    <3>2. Depth \in DOMAIN frames'
      BY <2>1, <3>1, FrameFacts DEF Holding, TypeOK, FrameType, Depth
    <3>3. frames'[Depth].held = Held \cup {a}
      BY <2>1, <3>2, FrameFacts DEF Holding, TypeOK, FrameType, Depth
    <3>4. a \in pins
      BY <3>2, <3>3, PinsAre
    <3> HIDE DEF pins
    <3> QED BY <2>3, <2>4, <3>4, ReachHoldsRoots
  <2>8. Seen' \in FieldsType /\ \A b \in Reachable' : Seen'[b] = fields'[b]
    BY <2>4 DEF Seen, FieldsType, Empty, ReachFrom
  <2>9. g \in FieldsType
    BY <2>2, <2>8 DEF FieldsType
  <2>10. \A b \in Reachable' : g[b] = fields'[b]
    BY <2>1, <2>2, <2>6, <2>7, <2>8, <2>9 DEF FieldsType
  <2>11. Managed!Become(g)
    BY <2>9, <2>10, Becomes DEF Managed!Become
  <2>12. \A s \in Slots : Seen'[a][s] \in Held \cup {Null}
    BY <2>1, <2>7, <2>8
  <2>13. Managed!New(a)
    BY <2>1, <2>2, <2>7, <2>11, <2>12
       DEF Managed!New, Managed!Held, Managed!Depth, Held, Depth, Holding, Seen
  <2> QED BY <2>1, <2>13 DEF Managed!Next
<1> QED BY <1>2, <1>3, <1>4, <1>5, <1>6, <1>7, <1>8, <1>9 DEF Mutate

\* A store of what the slot already holds is no step of the unmanaged heap's.
LEMMA StoreRefines ==
    ASSUME HeapInv, HeapInv', NEW a \in Addr, NEW s \in Slots, NEW v \in Addr \cup {Null},
           NEW tier \in Tiers, Store(a, s, v, tier)
    PROVE  Managed!Next \/ UNCHANGED <<Reachable, Seen, rooted, frames>>
<1> USE DEF HeapInv
<1> DEFINE f == [fields EXCEPT ![a][s] = v]
           pins == Pins(rooted, frames)
           g == [Seen EXCEPT ![a][s] = v]
<1>1. /\ frames # <<>> /\ a \in Held /\ v \in Held \cup {Null} /\ UNCHANGED <<rooted, frames>>
      /\ \A b \in alive' : b \in alive /\ fields'[b] = f[b]
  <2>1. Drops(f, pins, old,
              remembered \cup (IF tier = "jit" THEN {} ELSE NoteWrites({a})), swept)
    BY DEF Store
  <2> HIDE DEF f
  <2> QED BY <2>1, DropsLeave DEF Store, Running
<1>2. /\ Held \subseteq Reachable /\ Reachable \in SUBSET Addr
      /\ fields \in FieldsType /\ Seen \in FieldsType
      /\ \A b \in Reachable : Seen[b] = fields[b]
  BY <1>1, CallPins, ReachableFacts
<1>3. CASE v = fields[a][s]
  <2>1. f = fields
    BY <1>2, <1>3 DEF FieldsType
  <2> QED BY <1>1, <2>1, KeepsSeen
<1>4. CASE v # fields[a][s]
  <2>1. f \in FieldsType /\ g \in FieldsType
    BY <1>2 DEF FieldsType
  <2>2. /\ fields' \in FieldsType /\ alive' \in SUBSET Addr /\ pins \in SUBSET Addr
        /\ Reachable' = ReachFrom(fields', pins, Addr)
        /\ Solid(alive', fns', fields', pins)
    BY <1>1 DEF TypeOK, FieldsType, Reachable, Pins, ReachFrom, Solid, Empty
  <2>3. pins \subseteq Reachable /\ a \in pins
    BY <1>1, CallPins, ReachableFacts
  <2>4. \A b \in Reachable \cap Addr, t \in Slots : fields'[b][t] \in Reachable \cup {Null}
    <3>1. \A b \in Reachable, t \in Slots : f[b][t] \in Reachable \cup {Null}
      BY <1>1, <1>2, ReachableFacts DEF FieldsType
    <3>2. \A b \in Addr \ alive' : fields'[b] = Empty
      BY <2>2 DEF Solid
    <3> HIDE DEF f, pins
    <3> QED BY <1>1, <3>1, <3>2 DEF Empty
  <2>5. Reachable' \subseteq Reachable /\ Reachable' \subseteq alive' /\ pins \subseteq Reachable'
    <3> HIDE DEF pins
    <3>1. Reachable' \subseteq Reachable
      BY <1>2, <2>2, <2>3, <2>4, ReachIsLeast
    <3>2. Reachable' \subseteq alive'
      BY <2>2, ReachIsLeast DEF Solid
    <3> QED BY <2>2, <3>1, <3>2, ReachHoldsRoots
  <2>6. \A b \in Reachable : g[b] = f[b]
    BY <1>2, <2>1 DEF FieldsType
  <2>7. \A b \in Reachable' : g[b] = fields'[b]
    BY <1>1, <2>5, <2>6
  <2>8. Managed!Become(g)
    BY <2>1, <2>7, Becomes DEF Managed!Become
  <2>9. Seen'[a][s] = v
    <3>1. Seen'[a] = fields'[a]
      BY <2>3, <2>5 DEF Seen
    <3>2. g[a][s] = v
      BY <1>2 DEF FieldsType
    <3> QED BY <2>3, <2>5, <2>7, <3>1, <3>2
  <2>10. Seen[a][s] # v
    BY <1>1, <1>2, <1>4
  <2>11. g = [Seen EXCEPT ![a][s] = Seen'[a][s]]
    BY <2>9
  <2> HIDE DEF g
  <2>12. Managed!Store(a, s)
    BY <1>1, <2>8, <2>9, <2>10, <2>11
       DEF Managed!Store, Managed!Become, Managed!Held, Managed!Depth, Held, Depth, Seen
  <2> QED BY <1>1, <2>12 DEF Managed!Next
<1> QED BY <1>3, <1>4

\* The program sees nothing of the collectors.
LEMMA CollectorsUnseen ==
    ASSUME SingleCall, HeapInv, HeapInv', Collect
    PROVE  UNCHANGED <<Reachable, Seen, rooted, frames>>
<1> USE DEF HeapInv
<1>1. ASSUME NEW G, NEW od, NEW rem, NEW sw, UNCHANGED <<rooted, frames>>,
             G \cap alive \subseteq Freed(Cleared(G), Pins(rooted, frames)),
             Drops(Cleared(G), Pins(rooted, frames), od, rem, sw)
      PROVE  UNCHANGED <<Reachable, Seen, rooted, frames>>
  <2>1. \A b \in alive' : b \in alive /\ b \notin G /\ fields'[b] = Cleared(G)[b]
    BY <1>1, DropsLeave DEF Drops
  <2>2. \A b \in alive' : fields'[b] = fields[b]
    BY <2>1 DEF Cleared, TypeOK
  <2> QED BY <1>1, <2>2, KeepsSeen
<1>2. CASE MaybeCollect
  BY <1>2, KeepsSeen DEF MaybeCollect, heap
<1>3. CASE Promote
  BY <1>3, KeepsSeen DEF Promote
<1>4. CASE Sweep
  <2> DEFINE G == Garbage \cup Doomed
  <2>1. G \cap alive \subseteq Freed(Cleared(G), Pins(rooted, frames))
    BY <1>4, SweepFrees DEF Garbage, Sweep
  <2> QED BY <1>1, <1>4, <2>1 DEF Sweep
<1>5. CASE BackEdge
  <2> DEFINE G == (Nodes \ LiveNodes) \ fns
  <2>1. G \cap alive \subseteq Freed(Cleared(G), Pins(rooted, frames))
    BY <1>5, BackEdgeFrees DEF BackEdge, Running
  <2> QED BY <1>1, <1>5, <2>1 DEF BackEdge
<1> QED BY <1>2, <1>3, <1>4, <1>5 DEF Collect

-----------------------------------------------------------------------------
\* A program cannot tell that its memory is managed: the heap, with its counts,
\* generations and two collectors, implements one in which nothing is ever
\* collected.
THEOREM HeapImplements ==
    ASSUME SingleCall, Interpreted PROVE Spec => ImplementsManagedHeap
<1>1. Init => Managed!Init
  <2> SUFFICES ASSUME Init PROVE Managed!Init
    OBVIOUS
  <2>1. HeapInv
    BY HeapInit
  <2>2. Reachable = {}
    BY <2>1, ReachableFacts DEF Init
  <2> QED BY <2>2 DEF Init, Managed!Init, Managed!Nothing, Empty
<1>2. HeapInv /\ HeapInv' /\ [Next]_vars => [Managed!Next]_(Managed!vars)
  <2> SUFFICES ASSUME HeapInv, HeapInv', [Next]_vars
               PROVE  Managed!Next \/ UNCHANGED <<Reachable, Seen, rooted, frames>>
    BY DEF Managed!vars, Seen
  <2>1. CASE UNCHANGED vars
    BY <2>1, KeepsSeen DEF vars, heap
  <2>2. CASE Collect
    BY <2>2, CollectorsUnseen
  <2>3. CASE Mutate
    BY <2>3, ProgramRefines, StoreRefines
  <2> QED BY <2>1, <2>2, <2>3 DEF Next
<1> QED BY <1>1, <1>2, HeapSound, PTL DEF Spec, ImplementsManagedHeap, Managed!Spec
=============================================================================
