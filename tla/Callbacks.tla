------------------------------ MODULE Callbacks ------------------------------
(***************************************************************************)
(* The callback table between the engine and its host: slots named by ids, *)
(* a free list, and a cache from the identity of a function, which is its  *)
(* address, to the id it has.                                              *)
(*                                                                         *)
(* An address is that of an allocation: when the last handle to a function *)
(* goes, another function may be allocated there.  An id of the program is *)
(* one lower than here.                                                    *)
(***************************************************************************)
EXTENDS Naturals, Sequences

CONSTANTS Durable,    \* functions: Closure and Native values
          OneShot,    \* Resolve, Reject, AllSlot and PromiseExec values
          Addr,       \* addresses of functions
          Null,
          MaxSlots,   \* how far the table may grow
          MaxNest     \* how deep calls from the host may nest

ASSUME CallbacksAssumption ==
    /\ Null \notin Durable \cup OneShot \cup Addr
    /\ Durable \cap OneShot = {}
    /\ MaxSlots \in Nat /\ MaxNest \in Nat

VARIABLES held,       \* the functions the program holds
          at,         \* where each function is, or Null when it is no more
          callbacks,  \* the slots: a callable or Null
          free,       \* the free list, a stack
          ids,        \* the identity cache: the id of the function at an address, or 0
          tokens,     \* what the host holds, and may call
          running     \* the callables being called, innermost last

vars == <<held, at, callbacks, free, ids, tokens, running>>

Ids == 1..MaxSlots
Callable == Durable \cup OneShot
Token == [id : Ids, value : Callable, stable : BOOLEAN]

Slots == DOMAIN callbacks
In(s) == {s[i] : i \in DOMAIN s}

Init ==
    /\ held = {} /\ at = [f \in Durable |-> Null]
    /\ callbacks = <<>> /\ free = <<>> /\ ids = [a \in Addr |-> 0]
    /\ tokens = {} /\ running = <<>>

\* A function lives while the program, the table or a call holds it.
Kept(f) == f \in held' \cup In(callbacks') \cup In(running')
Forget == at' = [f \in Durable |-> IF Kept(f) THEN at[f] ELSE Null]

-----------------------------------------------------------------------------
(* The table.                                                              *)

\* A slip: the free list read at one end and shortened at the other.
OldestFree == IF free = <<>> THEN Len(callbacks) + 1 ELSE free[1]

\* The slot the next allocation takes: the last one freed, or a new one.
NextSlot == IF free = <<>> THEN Len(callbacks) + 1 ELSE free[Len(free)]

AllocCallback(v) ==
    IF free = <<>>
    THEN /\ Len(callbacks) < MaxSlots
         /\ callbacks' = Append(callbacks, v)
         /\ UNCHANGED free
    ELSE /\ callbacks' = [callbacks EXCEPT ![NextSlot] = v]
         /\ free' = SubSeq(free, 1, Len(free) - 1)

Hand(i, v, s) == tokens' = tokens \cup {[id |-> i, value |-> v, stable |-> s]}

\* A function crosses to the host under the id cached for its address.
Cross(f) ==
    /\ f \in held
    /\ IF ids[at[f]] # 0
       THEN /\ Hand(ids[at[f]], f, TRUE)
            /\ UNCHANGED <<callbacks, free, ids>>
       ELSE /\ AllocCallback(f)
            /\ ids' = [ids EXCEPT ![at[f]] = NextSlot]
            /\ Hand(NextSlot, f, TRUE)
    /\ UNCHANGED <<held, at, running>>

\* The plumbing of a promise crosses under a slot of its own each time.
CrossOnce(v) ==
    /\ AllocCallback(v)
    /\ Hand(NextSlot, v, FALSE)
    /\ UNCHANGED <<held, at, ids, running>>

\* addEventListener and serve append a slot, whatever the argument is and
\* whether or not it has an id already.
Listen(v) ==
    /\ v \in held \cup {Null}
    /\ Len(callbacks) < MaxSlots
    /\ callbacks' = Append(callbacks, v)
    /\ IF v = Null THEN UNCHANGED tokens ELSE Hand(Len(callbacks) + 1, v, FALSE)
    /\ UNCHANGED <<held, at, free, ids, running>>

\* Slips: a release that leaves the cache alone, and one that takes every id
\* of the function out of it.
EvictedNever(i) == ids
EvictedAlways(i) ==
    [a \in Addr |-> IF callbacks[i] \in Durable /\ at[callbacks[i]] = a THEN 0 ELSE ids[a]]

\* The cache lets go of a function whose id is released, if the cached id is that one.
Evicted(i) ==
    [a \in Addr |->
        IF callbacks[i] \in Durable /\ at[callbacks[i]] = a /\ ids[a] = i THEN 0 ELSE ids[a]]

\* A slip: an empty slot is released again.
InTable(i) == i \in Slots

\* Only what is in use is released.
InUse(i) == i \in Slots /\ callbacks[i] # Null

\* The host is done with an id: one it holds, or one released before.
Release(i) ==
    /\ tokens' = {t \in tokens : t.id # i}
    /\ IF InUse(i)
       THEN /\ ids' = Evicted(i)
            /\ callbacks' = [callbacks EXCEPT ![i] = Null]
            /\ free' = Append(free, i)
       ELSE UNCHANGED <<ids, callbacks, free>>
    /\ UNCHANGED <<held, running>>
    /\ Forget

\* The host calls: the callable is cloned out of its slot first, so that it
\* stays while it runs, whatever becomes of the slot.
InvokeCallback(i) ==
    /\ Len(running) < MaxNest
    /\ \E t \in tokens : t.id = i
    /\ InUse(i)
    /\ running' = Append(running, callbacks[i])
    /\ UNCHANGED <<held, at, callbacks, free, ids, tokens>>

\* The call returns, or throws.
Return ==
    /\ running # <<>>
    /\ running' = SubSeq(running, 1, Len(running) - 1)
    /\ UNCHANGED <<held, callbacks, free, ids, tokens>>
    /\ Forget

-----------------------------------------------------------------------------
(* The program.                                                            *)

\* A new function, at an address no function has.
NewClosure(f, a) ==
    /\ at[f] = Null /\ \A g \in Durable : at[g] # a
    /\ held' = held \cup {f}
    /\ at' = [at EXCEPT ![f] = a]
    /\ UNCHANGED <<callbacks, free, ids, tokens, running>>

\* A function that runs finds itself again, through its name or its scope.
Recover(f) ==
    /\ f \in In(running) /\ f \in Durable
    /\ held' = held \cup {f}
    /\ UNCHANGED <<at, callbacks, free, ids, tokens, running>>

DropClosure(f) ==
    /\ f \in held
    /\ held' = held \ {f}
    /\ UNCHANGED <<callbacks, free, ids, tokens, running>>
    /\ Forget

Next ==
    \/ \E f \in Durable, a \in Addr : NewClosure(f, a)
    \/ \E f \in Durable : Recover(f) \/ DropClosure(f) \/ Cross(f)
    \/ \E v \in OneShot : CrossOnce(v)
    \/ \E v \in Durable \cup {Null} : Listen(v)
    \/ \E i \in Ids : Release(i) \/ InvokeCallback(i)
    \/ Return

Spec == Init /\ [][Next]_vars

-----------------------------------------------------------------------------
(* Correctness.                                                            *)

TypeOK ==
    /\ held \subseteq Durable
    /\ at \in [Durable -> Addr \cup {Null}]
    /\ callbacks \in Seq(Callable \cup {Null}) /\ Len(callbacks) <= MaxSlots
    /\ free \in Seq(Ids)
    /\ ids \in [Addr -> 0..MaxSlots]
    /\ tokens \subseteq Token
    /\ running \in Seq(Callable)

\* What the host holds under an id is what the table has there, so that no
\* call of the host ever reaches another function than the one it was given.
TokensName ==
    \A t \in tokens : t.id \in Slots /\ callbacks[t.id] = t.value

\* The free list holds exactly once every slot that was released, and nothing
\* the host may still call: the only other empty slots are those a listener
\* that is no function took.
FreeExact ==
    /\ \A i, j \in DOMAIN free : i # j => free[i] # free[j]
    /\ \A i \in DOMAIN free : free[i] \in Slots /\ callbacks[free[i]] = Null
    /\ \A i \in Slots : callbacks[i] # Null => \E t \in tokens : t.id = i

\* A cached id is the id of the very function that is at the address now, and
\* a function the host holds under a stable id crosses under the same id
\* again: addEventListener and removeEventListener see one function.
CacheExact ==
    /\ \A a \in Addr : ids[a] # 0 =>
         \E f \in Durable : /\ at[f] = a
                            /\ [id |-> ids[a], value |-> f, stable |-> TRUE] \in tokens
    /\ \A t \in tokens : t.stable => t.value \in Durable /\ ids[at[t.value]] = t.id

\* No function is at two places of memory's, and whatever is held is somewhere.
AddressesExact ==
    /\ \A f, g \in Durable : at[f] = at[g] /\ at[f] # Null => f = g
    /\ \A f \in Durable :
         at[f] # Null <=> f \in held \cup In(callbacks) \cup In(running)

IdsExact == TypeOK /\ TokensName /\ FreeExact /\ CacheExact /\ AddressesExact

\* The table implements the registry it is meant to be.
Registry == INSTANCE CallbackRegistry
ImplementsRegistry == Registry!Spec

=============================================================================
