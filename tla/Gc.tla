--------------------------------- MODULE Gc ---------------------------------
(***************************************************************************)
(* The heap of the engine (crates/mersey_interp/src/gc.rs): reference      *)
(* counting, the generational mark-sweep collector that runs at a host     *)
(* boundary, and the root-free cycle collector that runs at a loop's back  *)
(* edge.                                                                   *)
(*                                                                         *)
(* The collector's state is thread-local (gc.rs:464-484), so one heap      *)
(* serves every interpreter of the thread: the constant Ctx is the set of  *)
(* them.  `frames' is the Rust stack of calls into the engine: a host hook *)
(* that calls back in pushes another, up to MaxDepth.                      *)
(*                                                                         *)
(* Abstractions.  An object is its address and the references in its       *)
(* Slots; scalars are left out.  Scopes, instances, arrays, records, maps, *)
(* sets, promises and generators are all the same tracked GcCell; a        *)
(* closure is the one untracked, immutable kind, and is built over tracked *)
(* cells.  Class statics, which every trace scans, count as values rooted  *)
(* by the interpreter.  YOUNG, a Vec without duplicates, is its set of     *)
(* entries and the order they were registered in.                          *)
(* The thresholds (GC_EVERY, MAJOR_EVERY, PRUNE_AT, CYCLE_AT) are left     *)
(* out: the list may be pruned at any registration, a boundary may bring   *)
(* no collection, a minor or a full one, any back edge a cycle collection. *)
(***************************************************************************)
EXTENDS Integers, FiniteSets, Sequences

CONSTANTS
    Addr,         \* addresses a GcCell or a Closure can be allocated at
    Slots,        \* the reference fields of an object
    Null,         \* the content of a slot that refers to nothing
    Ctx,          \* the interpreters (contexts) of this thread
    Tiers,        \* what runs the program: the bytecode "vm", compiled "jit" code
    MaxDepth,     \* bound: how deep host hooks call back into the engine
    MaxHeld,      \* bound: how many objects one call holds at a time
    MaxRooted     \* bound: how many objects one context roots at a time

ASSUME AddrAssumption == IsFiniteSet(Addr) /\ Null \notin Addr
ASSUME SlotsAssumption == IsFiniteSet(Slots)
ASSUME CtxAssumption == IsFiniteSet(Ctx)
ASSUME CtxNonempty == Ctx # {}
ASSUME TiersAssumption == Tiers \subseteq {"vm", "jit"}
ASSUME BoundAssumption == {MaxDepth, MaxHeld, MaxRooted} \subseteq Nat \ {0}

VARIABLES
    alive,       \* the addresses whose value has not been dropped
    fns,         \* those of them that are closures
    fields,      \* the references each object holds
    isOld,       \* the cells whose `old' flag is set
    young,       \* YOUNG: weak entries, dead ones included
    before,      \* its order: <<a, b>> when a is listed before b
    old,         \* OLD
    remembered,  \* REMEMBERED
    rooted,      \* per context, the objects its gc_roots() name
    frames,      \* the engine calls on the Rust stack, innermost last
    gc,          \* where maybe_collect / collect_gen is
    swept        \* history: objects cleared by a collector, and still there

heap == <<alive, fns, fields, isOld, old, remembered, swept>>
vars == <<heap, young, before, rooted, frames, gc>>

Empty == [s \in Slots |-> Null]
Idle == [phase |-> "off", ctx |-> CHOOSE c \in Ctx : TRUE, major |-> FALSE,
         marked |-> {}, work |-> {}, promoted |-> {}]

-----------------------------------------------------------------------------
(* Reachability and reference counts.                                      *)

\* What can be reached from R by the references of the members of Through:
\* a set that holds R and leaves `a' out is not closed under them.
ReachFrom(f, R, Through) ==
    {a \in Addr : \A S \in SUBSET (Addr \ {a}) :
        R \subseteq S => \E b \in S \cap Through, s \in Slots : f[b][s] \notin S \cup {Null}}

\* The handles on an object outside the heap: an interpreter's, a Rust frame's.
Pins(r, fr) == (UNION {r[c] : c \in Ctx}) \cup (UNION {fr[d].held : d \in DOMAIN fr})

\* The objects whose counts reach zero, one after another, when the heap's
\* references become f and the outside handles pins: a set of freed objects
\* without `a' leaves some object that only freed ones refer to.
Freed(f, pins) ==
    {a \in alive \ pins : \A S \in SUBSET (alive \ (pins \cup {a})) :
        \E b \in alive \ (pins \cup S) :
            \A r \in alive \ S, s \in Slots : f[r][s] # b}

\* The heap after the drops: Drop for GcCell takes a promoted cell out of OLD
\* and REMEMBERED, and every child it held with it.
Drops(f, pins, od, rem, sw) ==
    LET gone == Freed(f, pins) IN
    /\ alive' = alive \ gone
    /\ fns' = fns \ gone
    /\ fields' = [a \in Addr |-> IF a \in gone THEN Empty ELSE f[a]]
    /\ isOld' = isOld \ gone
    /\ old' = od \ (gone \cap isOld)
    /\ remembered' = rem \ (gone \cap isOld)
    /\ swept' = sw \ gone

\* The references once the objects in S are emptied (GcObj::clear, clear_node).
Cleared(S) == [a \in Addr |-> IF a \in S THEN Empty ELSE fields[a]]

\* A weak handle keeps the allocation: the address cannot be handed out again.
AllocatableFreed(a) == a \notin alive   \* mutant: entries are bare addresses
Allocatable(a) == a \notin alive \cup young \cup old

\* The write barrier: what borrow_mut on the members of A adds to REMEMBERED.
NoteNoWrites(A) == {}   \* mutant: a store that bypasses borrow_mut
NoteWrites(A) == A \cap isOld \cap old

-----------------------------------------------------------------------------
(* The program: steps of the innermost engine call.                        *)

Running == gc.phase = "off" /\ frames # <<>>
Depth == Len(frames)
Held == frames[Depth].held
MyCtx == frames[Depth].ctx
Holding(h) == [frames EXCEPT ![Depth].held = h]
MayHoldMore == Running /\ Cardinality(Held) < MaxHeld

\* The host invokes a callback or runs a module, from its own loop or from
\* inside a hook the engine is calling (any context of the thread).
Enter(c) ==
    /\ gc.phase = "off"
    /\ Depth < MaxDepth
    /\ frames' = Append(frames, [ctx |-> c, held |-> {}])
    /\ UNCHANGED <<heap, young, before, rooted, gc>>

\* Read an export, a callback, a queued task's value.
LoadRoot(a) ==
    /\ MayHoldMore
    /\ a \in rooted[MyCtx] \ Held
    /\ frames' = Holding(Held \cup {a})
    /\ UNCHANGED <<heap, young, before, rooted, gc>>

LoadField(a, s) ==
    /\ MayHoldMore
    /\ a \in Held
    /\ fields[a][s] \notin Held \cup {Null}
    /\ frames' = Holding(Held \cup {fields[a][s]})
    /\ UNCHANGED <<heap, young, before, rooted, gc>>

DropLocal(a) ==
    /\ Running
    /\ a \in Held
    /\ frames' = Holding(Held \ {a})
    /\ Drops(fields, Pins(rooted, frames'), old, remembered, swept)
    /\ UNCHANGED <<young, before, rooted, gc>>

\* register: a new entry in YOUNG; if the list is crowded, the dead ones leave.
Register(a) ==
    /\ \/ young' = young \cup {a}
       \/ young' = (young \cap alive) \cup {a}
    /\ before' = (before \cap (young' \X young')) \cup ((young' \ {a}) \X {a})

\* new, an array or record literal, a scope, a promise, ...
New(a) ==
    /\ MayHoldMore
    /\ Allocatable(a)
    /\ alive' = alive \cup {a}
    /\ frames' = Holding(Held \cup {a})
    /\ Register(a)
    /\ UNCHANGED <<fns, fields, isOld, old, remembered, swept, rooted, gc>>

\* A closure captures its scope and `this', is never tracked, never written.
NewClosure(a) ==
    /\ MayHoldMore
    /\ Allocatable(a)
    /\ \E captured \in [Slots -> (Held \ fns) \cup {Null}] \ {Empty} :
        fields' = [fields EXCEPT ![a] = captured]
    /\ alive' = alive \cup {a}
    /\ fns' = fns \cup {a}
    /\ frames' = Holding(Held \cup {a})
    /\ UNCHANGED <<isOld, old, remembered, swept, young, before, rooted, gc>>

\* Any mutation: borrow_mut, then the slot's old value is dropped.  A compiled
\* store finds the cell by its address and never calls borrow_mut (cell_set_obj).
Store(a, s, v, tier) ==
    /\ Running
    /\ a \in Held \ fns
    /\ v \in Held \cup {Null}
    /\ Drops([fields EXCEPT ![a][s] = v], Pins(rooted, frames), old,
             remembered \cup (IF tier = "jit" THEN {} ELSE NoteWrites({a})), swept)
    /\ UNCHANGED <<young, before, rooted, frames, gc>>

\* Register a callback, record an export, queue a task.
Root(a) ==
    /\ Running
    /\ a \in Held
    /\ Cardinality(rooted[MyCtx]) < MaxRooted
    /\ rooted' = [rooted EXCEPT ![MyCtx] = @ \cup {a}]
    /\ UNCHANGED <<heap, young, before, frames, gc>>

\* release_callback (the host may call it at any time), a task taken.
Unroot(c, a) ==
    /\ gc.phase = "off"
    /\ a \in rooted[c]
    /\ rooted' = [rooted EXCEPT ![c] = @ \ {a}]
    /\ Drops(fields, Pins(rooted', frames), old, remembered, swept)
    /\ UNCHANGED <<young, before, frames, gc>>

\* The call ends.  Normally maybe_collect follows; a throw leaves by `?'.
Leave(thrown) ==
    /\ Running
    /\ frames' = SubSeq(frames, 1, Depth - 1)
    /\ Drops(fields, Pins(rooted, frames'), old, remembered, swept)
    /\ gc' = IF thrown THEN gc ELSE [gc EXCEPT !.phase = "boundary", !.ctx = MyCtx]
    /\ UNCHANGED <<young, before, rooted>>

-----------------------------------------------------------------------------
(* The generational collector.                                             *)

\* mark: a full trace, or one that stops at old objects nobody wrote to.
FullTraceOfOld(R) ==   \* mutant: the old generation is taken for live
    ReachFrom(fields, R \cup (old \cap alive), Addr)
FullTrace(R) == ReachFrom(fields, R, Addr)
MinorTraceShallow(R) ==   \* mutant: remembered objects are marked, not scanned
    ReachFrom(fields, R \cup (remembered \cap old \cap alive), Addr \ old)
MinorTraceForgetful(R) ==   \* mutant: the remembered set is no root
    ReachFrom(fields, R, Addr \ (old \ remembered))
MinorTrace(R) == ReachFrom(fields, R \cup (remembered \cap old \cap alive),
                           Addr \ (old \ remembered))

\* collect_gen, up to the sweep: mark, then drain YOUNG.
StartCollection(major) ==
    /\ gc' = [gc EXCEPT !.phase = "sweep", !.major = major, !.work = young,
                        !.marked = IF major THEN FullTrace(rooted[gc.ctx])
                                            ELSE MinorTrace(rooted[gc.ctx])]
    /\ young' = {}
    /\ UNCHANGED before

MaybeCollect ==
    /\ gc.phase = "boundary"
    /\ \/ \E major \in BOOLEAN : StartCollection(major)
       \/ gc' = Idle /\ UNCHANGED <<young, before>>
    /\ UNCHANGED <<heap, rooted, frames>>

\* Clear the unmarked of the drained YOUNG; after a full trace the dead and the
\* unmarked leave OLD, and are cleared too.
Garbage == (gc.work \cap alive) \ gc.marked
Doomed == IF gc.major THEN {a \in old : a \notin alive \cap gc.marked} ELSE {}

\* YOUNG is taken in order: entries refcounting freed are skipped, survivors set
\* aside, the rest cleared.  Clearing may free, through an old object only the
\* cleared ones held, a marked object the sweep has passed.
Sweep ==
    /\ gc.phase = "sweep"
    /\ Drops(Cleared(Garbage \cup Doomed), Pins(rooted, frames), old \ Doomed,
             remembered \cup NoteWrites(Garbage), swept \cup Garbage \cup (Doomed \cap alive))
    /\ LET freedSoFar(a) == Freed(Cleared({g \in Garbage : <<g, a>> \in before}),
                                  Pins(rooted, frames))
       IN  gc' = [gc EXCEPT !.phase = "promote",
               !.promoted = {a \in gc.work \cap alive \cap gc.marked : a \notin freedSoFar(a)}]
    /\ before' = {}
    /\ UNCHANGED <<young, rooted, frames>>

PromoteFreed ==   \* mutant: the flag is set by address, whoever lives there
    /\ gc.phase = "promote"
    /\ isOld' = isOld \cup gc.promoted
    /\ old' = old \cup gc.promoted
    /\ remembered' = {}
    /\ gc' = Idle
    /\ UNCHANGED <<alive, fns, fields, swept, young, before, rooted, frames>>
Promote ==
    /\ gc.phase = "promote"
    /\ isOld' = isOld \cup (gc.promoted \cap alive)
    /\ old' = old \cup gc.promoted
    /\ remembered' = {}
    /\ gc' = Idle
    /\ UNCHANGED <<alive, fns, fields, swept, young, before, rooted, frames>>

-----------------------------------------------------------------------------
(* The cycle collector: liveness from the reference counts, no root set.   *)

Tracked == alive \cap (young \cup old)

\* The tracked objects and the closures they hold.
NodesNoClosures == Tracked   \* mutant: a closure is not a node
Nodes == Tracked \cup {c \in fns : \E b \in Tracked, s \in Slots : fields[b][s] = c}

\* The handles on `a' in the slots of the objects in B, and the strong count.
SlotHandles(a, B) == {h \in B \X Slots : fields[h[1]][h[2]] = a}
StrongCount(a) ==
      Cardinality(SlotHandles(a, alive))
    + Cardinality({c \in Ctx : a \in rooted[c]})
    + Cardinality({d \in DOMAIN frames : a \in frames[d].held})

\* What the heap does not account for is held by something it cannot see.
ExternalTwice ==   \* mutant: the scan's own handle is subtracted twice
    {a \in Nodes : StrongCount(a) > Cardinality(SlotHandles(a, Nodes)) + 1}
External == {a \in Nodes : StrongCount(a) > Cardinality(SlotHandles(a, Nodes))}
LiveNodes == ReachFrom(fields, External, Nodes) \cap Nodes

\* A back edge of a running loop: nothing is borrowed.
BackEdge ==
    /\ Running
    /\ UNCHANGED <<rooted, frames, gc>>
    /\ \E garbage \in {(Nodes \ LiveNodes) \ fns} :
       Drops(Cleared(garbage), Pins(rooted, frames), old,
             remembered \cup NoteWrites(garbage), swept \cup garbage)
    /\ young' = young \cap alive'
    /\ before' = before \cap (young' \X young')

-----------------------------------------------------------------------------
Init ==
    /\ alive = {} /\ fns = {} /\ isOld = {}
    /\ fields = [a \in Addr |-> Empty]
    /\ young = {} /\ before = {} /\ old = {} /\ remembered = {}
    /\ rooted = [c \in Ctx |-> {}]
    /\ frames = <<>>
    /\ gc = Idle
    /\ swept = {}

Mutate ==
    \/ \E c \in Ctx : Enter(c)
    \/ \E a \in Addr : LoadRoot(a) \/ DropLocal(a) \/ New(a) \/ NewClosure(a) \/ Root(a)
    \/ \E a \in Addr, s \in Slots : LoadField(a, s)
    \/ \E a \in Addr, s \in Slots, v \in Addr \cup {Null}, tier \in Tiers : Store(a, s, v, tier)
    \/ \E c \in Ctx, a \in Addr : Unroot(c, a)
    \/ \E thrown \in BOOLEAN : Leave(thrown)

Collect ==
    \/ MaybeCollect
    \/ Sweep
    \/ Promote
    \/ BackEdge

Next == Mutate \/ Collect

Spec == Init /\ [][Next]_vars

-----------------------------------------------------------------------------
(* Correctness.                                                            *)

\* Types: closures and flags belong to live objects, no closure is flagged old.
TypeOK ==
    /\ alive \subseteq Addr /\ fns \subseteq alive
    /\ fields \in [Addr -> [Slots -> Addr \cup {Null}]]
    /\ isOld \subseteq alive \ fns
    /\ young \subseteq Addr /\ old \subseteq Addr /\ remembered \subseteq Addr
    /\ before \subseteq Addr \X Addr
    /\ rooted \in [Ctx -> SUBSET Addr]
    /\ frames \in Seq([ctx : Ctx, held : SUBSET Addr])
    /\ gc \in [phase : {"off", "boundary", "sweep", "promote"}, ctx : Ctx, major : BOOLEAN,
               marked : SUBSET Addr, work : SUBSET Addr, promoted : SUBSET Addr]
    /\ swept \subseteq alive

\* What a program can still get at: everything a context or a frame leads to.
Reachable == ReachFrom(fields, Pins(rooted, frames), Addr)

\* A collector never empties an object the program can still reach, however
\* the stores, drops, requests and collections were interleaved ("swept while
\* live", gc.rs:31-34).
NoLiveSwept == \A a \in swept : a \notin Reachable

\* The invariant minor collections rest on (gc.rs:24-37): an old object that
\* leads to a young one, directly or through a closure, is remembered.
OldToYoungRemembered ==
    \A b \in (old \cap alive) \ remembered, s \in Slots :
        LET t == fields[b][s] IN
        t # Null => \/ t \in old
                    \/ t \in fns /\ \A r \in Slots : fields[t][r] \in old \cup {Null}

\* verify_minor (gc.rs:780-800): the young objects a full trace reaches are
\* reached by the minor one, until the sweep is over.
MinorTraceComplete ==
    gc.phase = "sweep" /\ ~gc.major =>
        gc.work \cap FullTrace(rooted[gc.ctx]) \subseteq gc.marked

\* Clearing is enough: what a collector cleared is then freed by its counts,
\* so no emptied object stays behind, tracked by nobody.
SweptIsFreed == gc.phase = "off" => swept = {}

\* The barrier's bookkeeping: a remembered address is a live old cell, and a
\* live entry of OLD has its flag set (a stale `false' is a missed barrier,
\* gc.rs:74-77).  OLD itself may list a freed object, when a sweep freed it
\* after setting it aside for promotion.
BarrierBookkeeping ==
    /\ remembered \subseteq old \cap alive
    /\ old \cap alive \subseteq isOld

\* A full trace reclaims every cycle: nothing unreachable outlives it.
MajorReclaimsAll ==
    gc.phase = "promote" /\ gc.major => alive \subseteq Reachable

\* The root-free collector reclaims every cycle too, in the middle of a call.
BackEdgeReclaimsAll == [][BackEdge => alive' \subseteq Reachable']_vars

(* The inductive invariant behind these, proved in GcProofs for a single   *)
(* context whose calls do not nest and whose stores are interpreted.       *)

\* No handle dangles, a freed address holds nothing, and a closure's scope and
\* `this' are never closures.
Solid(al, fn, f, pins) ==
    /\ pins \subseteq al
    /\ \A a \in al, s \in Slots : f[a][s] \in al \cup {Null}
    /\ \A a \in Addr \ al : f[a] = Empty
    /\ \A a \in fn, s \in Slots : f[a][s] \notin fn

\* Which list a cell is on: exactly one, but for closures; none is on two.
Listed ==
    young \cup old \cup (IF gc.phase = "sweep" THEN gc.work ELSE {})
                  \cup (IF gc.phase = "promote" THEN gc.promoted ELSE {})
EveryCellListed ==
    /\ alive \ fns \subseteq Listed
    /\ fns \cap Listed = {}
    /\ old \cap young = {}
    /\ gc.phase \in {"sweep", "promote"} => young = {}
    /\ gc.phase = "sweep" => old \cap gc.work = {}

\* A collection runs when no call is in progress, with the marks of its roots.
AtBoundary ==
    /\ Depth <= MaxDepth
    /\ gc.phase # "off" => frames = <<>>
    /\ gc.phase = "sweep" => gc.marked = IF gc.major THEN FullTrace(rooted[gc.ctx])
                                                    ELSE MinorTrace(rooted[gc.ctx])

\* What every step of the heap keeps: counts, lists, flags and remembered set
\* agree, and nothing a collector cleared is left (gc.rs:11-37).
HeapInv ==
    /\ TypeOK
    /\ Solid(alive, fns, fields, Pins(rooted, frames))
    /\ EveryCellListed
    /\ OldToYoungRemembered
    /\ BarrierBookkeeping
    /\ AtBoundary
    /\ swept = {}

\* The program cannot tell that memory is managed: through the reachable part
\* of the heap, this is a heap in which nothing is ever collected.
Managed == INSTANCE ManagedHeap WITH
    obj <- Reachable,
    link <- [a \in Addr |-> IF a \in Reachable THEN fields[a] ELSE Empty]

\* The engine's heap implements the unmanaged one: every collector step, and
\* every freeing, is invisible (gc.rs:11-37).
ImplementsManagedHeap == Managed!Spec
=============================================================================
