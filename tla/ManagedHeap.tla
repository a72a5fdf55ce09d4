---------------------------- MODULE ManagedHeap ----------------------------
(***************************************************************************)
(* What a program is promised about its memory: an object keeps what was   *)
(* last stored in it for as long as the program can get at it, and no step *)
(* but the program's own and the host's changes anything.  There are no    *)
(* counts, no generations, no collector; what can no longer be reached is  *)
(* simply forgotten.                                                       *)
(***************************************************************************)
EXTENDS Integers, Sequences

CONSTANTS Addr, Slots, Null, Ctx

VARIABLES
    obj,     \* the objects the program can reach
    link,    \* what each of them refers to
    rooted,  \* the objects each context's exports, callbacks and tasks name
    frames   \* the engine calls in progress, and what each holds

vars == <<obj, link, rooted, frames>>

Nothing == [s \in Slots |-> Null]
Depth == Len(frames)
Held == frames[Depth].held

\* The objects reachable through f from what contexts and calls hold: those
\* no set closed under f leaves out.
Reach(f, r, fr) ==
    LET R == (UNION {r[c] : c \in Ctx}) \cup (UNION {fr[d].held : d \in DOMAIN fr}) IN
    {a \in Addr : \A S \in SUBSET (Addr \ {a}) :
        R \subseteq S => \E b \in S, s \in Slots : f[b][s] \notin S \cup {Null}}

\* The references become f; what they no longer lead to is forgotten.
Become(f) ==
    /\ obj' = Reach(f, rooted', frames')
    /\ link' = [a \in Addr |-> IF a \in obj' THEN f[a] ELSE Nothing]

Init ==
    /\ obj = {}
    /\ link = [a \in Addr |-> Nothing]
    /\ rooted = [c \in Ctx |-> {}]
    /\ frames = <<>>

\* A call into the engine begins, or ends and forgets what it held.
Enter(c) == frames' = Append(frames, [ctx |-> c, held |-> {}])
Leave == frames # <<>> /\ frames' = SubSeq(frames, 1, Depth - 1)

\* The innermost call learns of an object or lets go of one.
Hold(a) ==
    /\ frames # <<>>
    /\ \/ a \in rooted[frames[Depth].ctx]
       \/ \E b \in Held, s \in Slots : a = link[b][s] /\ a # Null
    /\ frames' = [frames EXCEPT ![Depth].held = @ \cup {a}]
DropLocal(a) ==
    /\ frames # <<>>
    /\ frames' = [frames EXCEPT ![Depth].held = @ \ {a}]

\* A fresh object, empty or (a closure) already referring to others.
New(a) ==
    /\ frames # <<>>
    /\ a \in obj' \ obj
    /\ \A s \in Slots : link'[a][s] \in Held \cup {Null}
    /\ frames' = [frames EXCEPT ![Depth].held = @ \cup {a}]
    /\ Become([link EXCEPT ![a] = link'[a]])

Store(a, s) ==
    /\ frames # <<>>
    /\ a \in Held
    /\ UNCHANGED frames
    /\ link'[a][s] \in (Held \cup {Null}) \ {link[a][s]}
    /\ Become([link EXCEPT ![a][s] = link'[a][s]])

Root(a) ==
    /\ frames # <<>>
    /\ a \in Held
    /\ rooted' = [rooted EXCEPT ![frames[Depth].ctx] = @ \cup {a}]
Unroot(c, a) == rooted' = [rooted EXCEPT ![c] = @ \ {a}]

Next ==
    \/ /\ UNCHANGED rooted
       /\ \/ \E c \in Ctx : Enter(c)
          \/ Leave
          \/ \E a \in Addr : Hold(a) \/ DropLocal(a)
       /\ Become(link)
    \/ /\ UNCHANGED rooted
       /\ \/ \E a \in Addr : New(a)
          \/ \E a \in Addr, s \in Slots : Store(a, s)
    \/ /\ UNCHANGED frames
       /\ \/ \E a \in Addr : Root(a)
          \/ \E c \in Ctx, a \in Addr : Unroot(c, a)
       /\ Become(link)

Spec == Init /\ [][Next]_vars
=============================================================================
