-------------------------- MODULE CallbackRegistry --------------------------
(***************************************************************************)
(* What the callback table of an engine promises to its host.              *)
(*                                                                         *)
(* The host holds tokens: an id, the callable it was handed under it, and  *)
(* whether that callable is durable.  While the host holds a token, its id *)
(* names that callable and no other, and a durable callable has one id.    *)
(* Nothing is said of a table, a free list or an identity cache.           *)
(***************************************************************************)
EXTENDS Naturals, Sequences

CONSTANTS Ids, Durable, OneShot

VARIABLES tokens,   \* what the host holds
          running   \* the callables being called, innermost last

Callable == Durable \cup OneShot
Token == [id : Ids, value : Callable, stable : BOOLEAN]

rvars == <<tokens, running>>

Init == tokens = {} /\ running = <<>>

Unused(i) == \A t \in tokens : t.id # i

\* A durable callable crosses under the id it has, or under one nobody holds.
Cross(f) ==
    /\ \E i \in Ids :
         /\ \/ [id |-> i, value |-> f, stable |-> TRUE] \in tokens
            \/ Unused(i) /\ \A t \in tokens : t.stable => t.value # f
         /\ tokens' = tokens \cup {[id |-> i, value |-> f, stable |-> TRUE]}
    /\ UNCHANGED running

\* Anything else is handed out under an id nobody holds.
Give(v) ==
    /\ \E i \in Ids :
         Unused(i) /\ tokens' = tokens \cup {[id |-> i, value |-> v, stable |-> FALSE]}
    /\ UNCHANGED running

Invoke(t) ==
    /\ t \in tokens
    /\ running' = Append(running, t.value)
    /\ UNCHANGED tokens

Return ==
    /\ running # <<>>
    /\ running' = SubSeq(running, 1, Len(running) - 1)
    /\ UNCHANGED tokens

Release(i) ==
    /\ tokens' = {t \in tokens : t.id # i}
    /\ UNCHANGED running

Next ==
    \/ \E f \in Durable : Cross(f)
    \/ \E v \in Callable : Give(v)
    \/ \E t \in tokens : Invoke(t)
    \/ Return
    \/ \E i \in Ids : Release(i)

Spec == Init /\ [][Next]_rvars

=============================================================================
