------------------------------ MODULE Promises ------------------------------
(***************************************************************************)
(* Promises, the microtask queue, async functions and async generators     *)
(* (crates/mersey_interp/src/lib.rs): settlement and adoption, reactions,  *)
(* coroutines that wait, Promise.all, and the drain of the queue at the    *)
(* end of every call from the host.                                        *)
(*                                                                         *)
(* `stack' is the Rust stack, innermost frame last.  A "call" is a host    *)
(* callback running program code, a "drain" the microtask loop after it, a *)
(* "coro" a coroutine being driven, a "react" a then/catch handler, an     *)
(* "adopt" the host's `then', called by an await of a host promise.  The   *)
(* host may call back in while code or its own `then' runs.                *)
(*                                                                         *)
(* Abstractions.  What program code does is any of its operations on       *)
(* promises, in any order.  A value is Null or the number of the promise   *)
(* first settled with it; to await a plain value is to await a promise     *)
(* resolved with it.  What nobody can observe is left out: the downstream  *)
(* promises of Promise.all's own reactions, a generator's unused result    *)
(* promise.  So are the limit of a million tasks a drain, modules that     *)
(* wait at top level, and host promises among the items of Promise.all.    *)
(***************************************************************************)
EXTENDS Integers, Sequences, FiniteSets

CONSTANTS
    MaxProm,    \* bound: how many promises are created
    MaxCoro,    \* bound: how many coroutines are created
    MaxAll,     \* bound: how many times Promise.all is called
    AllSize,    \* how many promises each of those calls gets
    MaxCalls,   \* bound: how many times the host calls a callback
    MaxDepth,   \* bound: how deep the host's calls nest
    MayFail     \* whether callbacks throw and the host's `then' fails

ASSUME BoundsAssumption == {MaxProm, MaxCoro, MaxAll, MaxCalls, MaxDepth} \subseteq Nat
ASSUME AllSizeAssumption == AllSize \in Nat \ {0}
ASSUME MayFailAssumption == MayFail \in BOOLEAN

VARIABLES
    prom,     \* the promises: PromiseState; `from' records what one adopted
    coro,     \* the coroutines, with the generator's state if they have one
    alls,     \* the calls of Promise.all: the AllCells of each
    queue,    \* Interp.tasks
    stack,    \* the frames on the Rust stack
    hosted,   \* promises the host holds Resolve and Reject of
    calls     \* how many callbacks the host has called

vars == <<prom, coro, alls, queue, stack, hosted, calls>>

Null == 0
Ids == 0..MaxProm
Status(rejected) == IF rejected THEN "rejected" ELSE "fulfilled"

\* A reaction runs a handler for some of the outcomes, or belongs to a slot of
\* Promise.all, and settles `down'.  With no handler it passes the outcome on.
NoSlot == <<0, 0>>
Reaction(handles, slot, down) == [handles |-> handles, slot |-> slot, down |-> down]
PassOn(down) == Reaction({}, NoSlot, down)

\* Tasks, with the outcome they deliver.  `of' is the promise whose settlement
\* made the task.
ResumeWithValue(c, of, o) ==   \* mutant: an await never throws
    [coro |-> c, then |-> PassOn(0), of |-> of, status |-> "fulfilled", value |-> o.value]
Resume(c, of, o) == [coro |-> c, then |-> PassOn(0), of |-> of, status |-> o.status, value |-> o.value]
React(r, of, o) == [coro |-> 0, then |-> r, of |-> of, status |-> o.status, value |-> o.value]
Tasks(s, of, o, MakeTask(_, _, _)) == [i \in 1..Len(s) |-> MakeTask(s[i], of, o)]

Pending(p) == prom[p].status = "pending"

-----------------------------------------------------------------------------
(* Settling: operators on the promises and the queue, S.                   *)

Now == [prom |-> prom, queue |-> queue]
Become(S) == prom' = S.prom /\ queue' = S.queue

Fresh == [status |-> "pending", value |-> Null, from |-> 0, waiters |-> <<>>, reactions |-> <<>>]
Create(S) == [S EXCEPT !.prom = Append(@, Fresh)]
NewProm == Len(prom) + 1

\* What a settled promise looks like, and the tasks that settling queues:
\* waiters come before reactions.
Outcome(status, value) == [status |-> status, value |-> value]
SettledAs(p, o) == [p EXCEPT !.status = o.status, !.value = o.value,
                             !.waiters = <<>>, !.reactions = <<>>]
Woken(P, p, o) == Tasks(P[p].waiters, p, o, Resume) \o Tasks(P[p].reactions, p, o, React)

\* settle with a plain value: the first settlement wins.
SettleAgain(S, p, o) ==   \* mutant: the last settlement wins
    [prom |-> [S.prom EXCEPT ![p] = SettledAs(@, o)],
     queue |-> S.queue \o Woken(S.prom, p, o)]
Settle(S, p, o) ==
    IF S.prom[p].status # "pending" THEN S
    ELSE [prom |-> [S.prom EXCEPT ![p] = SettledAs(@, o)],
          queue |-> S.queue \o Woken(S.prom, p, o)]

\* settle with a promise: adopt its state, now or when it has one.
AdoptValue(S, p, q) ==   \* mutant: a rejected promise is adopted as a value
    IF S.prom[p].status # "pending" THEN S
    ELSE IF S.prom[q].status = "pending"
         THEN [S EXCEPT !.prom[p].from = q, !.prom[q].reactions = Append(@, PassOn(p))]
         ELSE Settle([S EXCEPT !.prom[p].from = q], p, Outcome("fulfilled", S.prom[q].value))
Adopt(S, p, q) ==
    IF S.prom[p].status # "pending" THEN S
    ELSE IF S.prom[q].status = "pending"
         THEN [S EXCEPT !.prom[p].from = q, !.prom[q].reactions = Append(@, PassOn(p))]
         ELSE Settle([S EXCEPT !.prom[p].from = q], p, S.prom[q])

\* What code can end with: a value, a throw, a promise.
Results == [rejected : BOOLEAN, with : {0}] \cup [rejected : {FALSE}, with : 1..Len(prom)]
SettleWith(S, p, r) ==
    IF r.with = 0 THEN Settle(S, p, Outcome(Status(r.rejected), p)) ELSE Adopt(S, p, r.with)

\* then: one reaction, or at once a task when the promise is settled.
ThenAlways(S, q, r) ==   \* mutant: a settled promise takes reactions too
    [S EXCEPT !.prom[q].reactions = Append(@, r)]
Then(S, q, r) ==
    IF S.prom[q].status = "pending"
    THEN [S EXCEPT !.prom[q].reactions = Append(@, r)]
    ELSE [S EXCEPT !.queue = Append(@, React(r, q, S.prom[q]))]

\* The end of an await: wait for q, or be queued if it is settled.
WaitForBoth(S, c, q) ==   \* mutant: it waits for a settled promise too
    LET W == [S EXCEPT !.prom[q].waiters = Append(@, c)] IN
    IF S.prom[q].status = "pending" THEN W
    ELSE [W EXCEPT !.queue = Append(@, Resume(c, q, S.prom[q]))]
WaitFor(S, c, q) ==
    IF S.prom[q].status = "pending"
    THEN [S EXCEPT !.prom[q].waiters = Append(@, c)]
    ELSE [S EXCEPT !.queue = Append(@, Resume(c, q, S.prom[q]))]

-----------------------------------------------------------------------------
(* The host.                                                               *)

Depth == Len(stack)
Top == stack[Depth]
Frame(kind, id) == [kind |-> kind, id |-> id]
Push(f) == stack' = Append(stack, f)
Below(n) == SubSeq(stack, 1, Depth - n)
Pop == stack' = Below(1)

HostRuns ==
    /\ stack # <<>> => Top.kind # "drain"
    /\ Cardinality({d \in DOMAIN stack : stack[d].kind \in {"call", "drain"}}) < MaxDepth

\* invoke_callback, up to the call of the closure.
HostCalls ==
    /\ HostRuns
    /\ calls < MaxCalls
    /\ calls' = calls + 1
    /\ Push(Frame("call", 0))
    /\ UNCHANGED <<prom, coro, alls, queue, hosted>>

\* The host settles a promise it was given: the callback is the Resolve or the
\* Reject of it, and the drain follows.
HostSettles(p, rejected) ==
    /\ HostRuns
    /\ p \in hosted
    /\ hosted' = hosted \ {p}
    /\ Become(Settle(Now, p, Outcome(Status(rejected), p)))
    /\ Push(Frame("drain", 0))
    /\ UNCHANGED <<coro, alls, calls>>

-----------------------------------------------------------------------------
(* Program code: a callback, a handler or a coroutine at the top.          *)

Code == stack # <<>> /\ Top.kind \in {"call", "react", "coro"}
MayCreate == NewProm <= MaxProm

\* Promise.resolve and Promise.reject.
PromiseOf(r) ==
    /\ Code /\ MayCreate
    /\ Become(SettleWith(Create(Now), NewProm, r))
    /\ UNCHANGED <<coro, alls, stack, hosted, calls>>

PromiseThen(q, handles) ==
    /\ Code /\ MayCreate
    /\ Become(Then(Create(Now), q, Reaction(handles, NoSlot, NewProm)))
    /\ UNCHANGED <<coro, alls, stack, hosted, calls>>

\* Promise.all: a slot of the new call on each item, in order.
InOrder(K) ==   \* the numbers of K, smallest first
    CHOOSE s \in [1..Cardinality(K) -> K] : /\ \A j, k \in DOMAIN s : j < k => s[j] < s[k]
                                           /\ \A i \in K : \E k \in DOMAIN s : s[k] = i
CountPending(items) ==   \* mutant: settled items are not waited for
    Cardinality({i \in 1..AllSize : Pending(items[i])})
StillToCome(items) == AllSize
PromiseAll(items) ==
    /\ Code /\ MayCreate
    /\ Len(alls) < MaxAll
    /\ LET a == Len(alls) + 1
           r(i) == Reaction({"fulfilled", "rejected"}, <<a, i>>, 0)
           on(q) == InOrder({i \in 1..AllSize : items[i] = q})
           now == InOrder({i \in 1..AllSize : ~Pending(items[i])})
       IN  /\ prom' = Append([q \in DOMAIN prom |-> IF Pending(q)
                THEN [prom[q] EXCEPT !.reactions = @ \o [k \in 1..Len(on(q)) |-> r(on(q)[k])]]
                ELSE prom[q]], Fresh)
           /\ queue' = queue \o [k \in 1..Len(now) |-> React(r(now[k]), items[now[k]], prom[items[now[k]]])]
           /\ alls' = Append(alls, [items |-> items, out |-> NewProm,
                        results |-> [i \in 1..AllSize |-> Null], remaining |-> StillToCome(items)])
    /\ UNCHANGED <<coro, stack, hosted, calls>>

\* start_coro: an async function is called, and driven at once.
NewCoro == Len(coro) + 1
StartAsync ==
    /\ Code /\ MayCreate
    /\ NewCoro <= MaxCoro
    /\ Become(Create(Now))
    /\ coro' = Append(coro, [gen |-> FALSE, owes |-> NewProm, state |-> "live",
                             parked |-> FALSE, done |-> FALSE])
    /\ Push(Frame("coro", NewCoro))
    /\ UNCHANGED <<alls, hosted, calls>>

\* An async generator is called: nothing runs before the first next().
NewGenerator ==
    /\ Code
    /\ NewCoro <= MaxCoro
    /\ coro' = Append(coro, [gen |-> TRUE, owes |-> 0, state |-> "live",
                             parked |-> TRUE, done |-> FALSE])
    /\ UNCHANGED <<prom, alls, queue, stack, hosted, calls>>

\* next() of a generator that is over, that is busy, or that can go on.
ExhaustedIfDone(c) ==   \* mutant: next() goes on with a body that is busy
    coro[c].done
Exhausted(c) == coro[c].done \/ ~coro[c].parked
GenNext(c) ==
    /\ Code /\ MayCreate
    /\ coro[c].gen
    /\ IF Exhausted(c)
       THEN /\ coro' = [coro EXCEPT ![c].done = TRUE]
            /\ Become(Settle(Create(Now), NewProm, Outcome("fulfilled", Null)))
            /\ UNCHANGED stack
       ELSE /\ coro' = [coro EXCEPT ![c].parked = FALSE, ![c].owes = NewProm]
            /\ Become(Create(Now))
            /\ Push(Frame("coro", c))
    /\ UNCHANGED <<alls, hosted, calls>>

-----------------------------------------------------------------------------
(* How a piece of code ends, or a coroutine is suspended.                  *)

\* The callback returns and the drain begins; a throw skips it.
CallEnds(thrown) ==
    /\ stack # <<>> /\ Top.kind = "call"
    /\ thrown => MayFail
    /\ stack' = IF thrown THEN Below(1) ELSE Append(Below(1), Frame("drain", 0))
    /\ UNCHANGED <<prom, coro, alls, queue, hosted, calls>>

HandlerEnds(r) ==
    /\ stack # <<>> /\ Top.kind = "react"
    /\ Become(SettleWith(Now, Top.id, r))
    /\ Pop
    /\ UNCHANGED <<coro, alls, hosted, calls>>

Driving(c, gen) == stack # <<>> /\ Top = Frame("coro", c) /\ coro[c].gen = gen

CoroEnds(c, r) ==
    /\ Driving(c, FALSE)
    /\ coro' = [coro EXCEPT ![c].state = "ended", ![c].owes = 0]
    /\ Become(SettleWith(Now, coro[c].owes, r))
    /\ Pop
    /\ UNCHANGED <<alls, hosted, calls>>

\* A generator's body reaches a yield: next()'s promise gets the value.
Yields(c, r) ==
    /\ Driving(c, TRUE)
    /\ ~r.rejected
    /\ coro' = [coro EXCEPT ![c].parked = TRUE, ![c].owes = 0]
    /\ Become(SettleWith(Now, coro[c].owes, r))
    /\ Pop
    /\ UNCHANGED <<alls, hosted, calls>>

\* ... or its end (null), or throws.
GenEndsHung(c, thrown) ==   \* mutant: the request in flight is forgotten
    /\ Driving(c, TRUE)
    /\ coro' = [coro EXCEPT ![c].state = "ended", ![c].done = TRUE, ![c].owes = 0]
    /\ Pop
    /\ UNCHANGED <<prom, alls, queue, hosted, calls>>
GenEnds(c, thrown) ==
    /\ Driving(c, TRUE)
    /\ coro' = [coro EXCEPT ![c].state = "ended", ![c].done = TRUE, ![c].owes = 0]
    /\ Become(Settle(Now, coro[c].owes,
                     Outcome(Status(thrown), IF thrown THEN coro[c].owes ELSE Null)))
    /\ Pop
    /\ UNCHANGED <<alls, hosted, calls>>

Awaits(c, q) ==
    /\ Driving(c, coro[c].gen)
    /\ Become(WaitFor(Now, c, q))
    /\ Pop
    /\ UNCHANGED <<coro, alls, hosted, calls>>

\* as_promise of a host promise: its `then' is called with Resolve and Reject.
AwaitsHost(c) ==
    /\ MayCreate
    /\ Driving(c, coro[c].gen)
    /\ Become(Create(Now))
    /\ hosted' = hosted \cup {NewProm}
    /\ Push(Frame("adopt", NewProm))
    /\ UNCHANGED <<coro, alls, calls>>

\* `then' returned; the promise may have been settled meanwhile.
HostThenReturns ==
    /\ stack # <<>> /\ Top.kind = "adopt"
    /\ Become(WaitFor(Now, stack[Depth - 1].id, Top.id))
    /\ stack' = Below(2)
    /\ UNCHANGED <<coro, alls, hosted, calls>>

\* `then' failed: drive returns the error to whoever was driving, the code that
\* called the function or the drain, which ends; the coroutine is dropped.
HostThenFails ==
    /\ MayFail
    /\ stack # <<>> /\ Top.kind = "adopt"
    /\ coro' = [coro EXCEPT ![stack[Depth - 1].id].state = "dropped"]
    /\ stack' = IF stack[Depth - 2].kind = "drain" THEN Below(3) ELSE Below(2)
    /\ UNCHANGED <<prom, alls, queue, hosted, calls>>

-----------------------------------------------------------------------------
(* drain_tasks.                                                            *)

Draining == stack # <<>> /\ Top.kind = "drain"
Task == Head(queue)
Rest == [prom |-> prom, queue |-> Tail(queue)]

RunResume ==
    /\ Draining /\ queue # <<>> /\ Task.coro # 0
    /\ queue' = Tail(queue)
    /\ Push(Frame("coro", Task.coro))
    /\ UNCHANGED <<prom, coro, alls, hosted, calls>>

Reacting == Draining /\ queue # <<>> /\ Task.coro = 0
IsSlot == Task.then.slot # NoSlot
Handled == Task.status \in Task.then.handles

RunHandler ==
    /\ Reacting /\ ~IsSlot /\ Handled
    /\ queue' = Tail(queue)
    /\ Push(Frame("react", Task.then.down))
    /\ UNCHANGED <<prom, coro, alls, hosted, calls>>

PassOutcomeOn ==
    /\ Reacting /\ ~IsSlot /\ ~Handled
    /\ Become(Settle(Rest, Task.then.down, Task))
    /\ UNCHANGED <<coro, alls, stack, hosted, calls>>

\* An AllSlot: the first rejection wins, the last fulfilment fulfils.
RunSlotEarly ==   \* mutant: the count is tested before it is decremented
    /\ Reacting /\ IsSlot
    /\ LET a == Task.then.slot[1]
           i == Task.then.slot[2]
           out == alls[a].out
       IN  IF Task.status = "rejected"
           THEN /\ Become(Settle(Rest, out, Task))
                /\ UNCHANGED alls
           ELSE /\ alls' = [alls EXCEPT ![a].results[i] = Task.value, ![a].remaining = @ - 1]
                /\ Become(IF alls[a].remaining = 0
                          THEN Settle(Rest, out, Outcome("fulfilled", out)) ELSE Rest)
    /\ UNCHANGED <<coro, stack, hosted, calls>>
RunSlot ==
    /\ Reacting /\ IsSlot
    /\ LET a == Task.then.slot[1]
           i == Task.then.slot[2]
           out == alls[a].out
       IN  IF Task.status = "rejected"
           THEN /\ Become(Settle(Rest, out, Task))
                /\ UNCHANGED alls
           ELSE /\ alls' = [alls EXCEPT ![a].results[i] = Task.value, ![a].remaining = @ - 1]
                /\ Become(IF alls'[a].remaining = 0
                          THEN Settle(Rest, out, Outcome("fulfilled", out)) ELSE Rest)
    /\ UNCHANGED <<coro, stack, hosted, calls>>

DrainEndsEarly ==   \* mutant: only what was queued at the start is run
    /\ Draining
    /\ Pop
    /\ UNCHANGED <<prom, coro, alls, queue, hosted, calls>>
DrainEnds ==
    /\ Draining /\ queue = <<>>
    /\ Pop
    /\ UNCHANGED <<prom, coro, alls, queue, hosted, calls>>

-----------------------------------------------------------------------------
Init ==
    /\ prom = <<>> /\ coro = <<>> /\ alls = <<>> /\ queue = <<>> /\ stack = <<>>
    /\ hosted = {}
    /\ calls = 0

Proms == DOMAIN prom
Coros == DOMAIN coro

Host ==
    \/ HostCalls
    \/ \E p \in hosted, rejected \in BOOLEAN : HostSettles(p, rejected)

Operate ==
    \/ \E r \in Results : PromiseOf(r)
    \/ \E q \in Proms, handles \in SUBSET {"fulfilled", "rejected"} : PromiseThen(q, handles)
    \/ \E items \in [1..AllSize -> Proms] : PromiseAll(items)
    \/ StartAsync
    \/ NewGenerator
    \/ \E c \in Coros : GenNext(c)

Finish ==
    \/ \E thrown \in BOOLEAN : CallEnds(thrown)
    \/ \E r \in Results : HandlerEnds(r)
    \/ \E c \in Coros, r \in Results : CoroEnds(c, r) \/ Yields(c, r)
    \/ \E c \in Coros, thrown \in BOOLEAN : GenEnds(c, thrown)
    \/ \E c \in Coros, q \in Proms : Awaits(c, q)
    \/ \E c \in Coros : AwaitsHost(c)
    \/ HostThenReturns
    \/ HostThenFails

Drain == RunResume \/ RunHandler \/ PassOutcomeOn \/ RunSlot \/ DrainEnds

Next == Host \/ Operate \/ Finish \/ Drain

\* Code that was called returns, throws or awaits in the end, and so does the
\* host's `then'; the drain goes on until it is over.
Fairness == WF_vars(Finish) /\ WF_vars(Drain)

Spec == Init /\ [][Next]_vars /\ Fairness

-----------------------------------------------------------------------------
(* Correctness.                                                            *)

\* Types, and Promise.all's count stays between the number of its items and 0.
ReactionType == [handles : SUBSET {"fulfilled", "rejected"},
                 slot : (0..MaxAll) \X (0..AllSize), down : Ids]
TypeOK ==
    /\ prom \in Seq([status : {"pending", "fulfilled", "rejected"}, value : Ids, from : Ids,
                     waiters : Seq(1..MaxCoro), reactions : Seq(ReactionType)])
    /\ coro \in Seq([gen : BOOLEAN, owes : Ids, state : {"live", "ended", "dropped"},
                     parked : BOOLEAN, done : BOOLEAN])
    /\ alls \in Seq([items : [1..AllSize -> Ids], out : Ids,
                     results : [1..AllSize -> Ids], remaining : 0..AllSize])
    /\ queue \in Seq([coro : 0..MaxCoro, then : ReactionType, of : Ids,
                      status : {"fulfilled", "rejected"}, value : Ids])
    /\ stack \in Seq([kind : {"call", "drain", "coro", "react", "adopt"}, id : Nat])
    /\ hosted \subseteq Ids
    /\ calls \in 0..MaxCalls

Count(s, Is(_)) == Cardinality({i \in DOMAIN s : Is(s[i])})
Flag(b) == IF b THEN 1 ELSE 0
WaitsAt(p, c) == Count(prom[p].waiters, LAMBDA w : w = c)

\* A coroutine that is not over is in one place: on the stack, waiting for one
\* promise, queued once, or parked in its generator.  So it is resumed exactly
\* once by each await, and by nothing else.
OnePlace ==
    \A c \in Coros :
        LET waiting == {p \in Proms : WaitsAt(p, c) > 0} IN
        /\ \A p \in waiting : WaitsAt(p, c) = 1
        /\ Count(stack, LAMBDA f : f = Frame("coro", c)) + Count(queue, LAMBDA t : t.coro = c)
             + Cardinality(waiting) + Flag(coro[c].parked) = Flag(coro[c].state = "live")

\* A settled promise keeps nobody waiting.
NothingStranded ==
    \A p \in Proms : ~Pending(p) => prom[p].waiters = <<>> /\ prom[p].reactions = <<>>

\* Where the reactions are: a promise, and the place in its list.
Reactions == UNION {{q} \X DOMAIN prom[q].reactions : q \in Proms}

\* Whoever will settle p: a coroutine, a reaction or its task or handler, a
\* call of Promise.all, the host.
Settlers(p) ==
      Cardinality({c \in Coros : coro[c].owes = p /\ coro[c].state = "live"})
    + Cardinality({at \in Reactions : prom[at[1]].reactions[at[2]].down = p})
    + Count(queue, LAMBDA t : t.then.down = p)
    + Count(stack, LAMBDA f : f = Frame("react", p))
    + Cardinality({a \in DOMAIN alls : alls[a].out = p /\ Pending(p)})
    + Flag(p \in hosted)
Abandoned(p) == \E c \in Coros : coro[c].owes = p /\ coro[c].state = "dropped"

\* Every pending promise has exactly one party that will settle it, unless its
\* coroutine was dropped, and a settled one has none: no settlement is lost and
\* no two race.
OneSettler ==
    \A p \in Proms : Settlers(p) = Flag(Pending(p) /\ ~Abandoned(p))

\* A task delivers the outcome of the promise it was waiting for.
TasksFaithful ==
    \A i \in DOMAIN queue : /\ queue[i].status = prom[queue[i].of].status
                            /\ queue[i].value = prom[queue[i].of].value

\* A promise resolved with another ends as that one ended.
AdoptionFaithful ==
    \A p \in Proms : prom[p].from # 0 /\ ~Pending(p) =>
        /\ prom[p].status = prom[prom[p].from].status
        /\ prom[p].value = prom[prom[p].from].value

\* Promise.all: a slot is open until its reaction has run.
OpenSlot(a, i) ==
    \/ \E p \in Proms : \E k \in DOMAIN prom[p].reactions : prom[p].reactions[k].slot = <<a, i>>
    \/ \E k \in DOMAIN queue : queue[k].then.slot = <<a, i>>

\* It counts the slots that have not been fulfilled, keeps each result in its
\* place whatever the order they came in, is fulfilled with the last of them
\* and rejected with the first rejection.
AllExact ==
    \A a \in DOMAIN alls :
        LET item(i) == prom[alls[a].items[i]]
            over == {i \in 1..AllSize : ~OpenSlot(a, i)}
            failed == {i \in over : item(i).status = "rejected"}
            out == prom[alls[a].out]
        IN  /\ \A i \in over : item(i).status # "pending"
            /\ alls[a].remaining = AllSize - Cardinality(over \ failed)
            /\ \A i \in 1..AllSize :
                  alls[a].results[i] = IF i \in over \ failed THEN item(i).value ELSE Null
            /\ out.status = IF failed # {} THEN "rejected"
                            ELSE IF over = 1..AllSize THEN "fulfilled" ELSE "pending"
            /\ failed # {} => \E i \in failed : out.value = item(i).value

\* A settled promise never changes again.
SettledForGood ==
    [][\A p \in Proms : ~Pending(p) => prom'[p] = prom[p]]_vars

\* A queued coroutine is resumed, however many tasks the others queue ahead of
\* it and whichever of the nested drains gets to it, when nothing fails.
QueuedIsResumed ==
    \A c \in 1..MaxCoro :
        LET Queued == \E i \in DOMAIN queue : queue[i].coro = c
        IN  Queued ~> ~Queued

\* "A turn always leaves the queue empty" (lib.rs:9106-9107).
TurnLeavesQueueEmpty == stack = <<>> => queue = <<>>

\* "An uncaught throw rejects the async function's promise" (lib.rs:9216): a
\* coroutine that is over has settled its promise or handed it to another.
OverIsSettled ==
    \A c \in Coros : coro[c].state # "live" => coro[c].owes = 0

\* next() settles with null at the end of the generator (lib.rs:9984-9986), not
\* before: one that is done has a body that is over.
DoneMeansEnded == \A c \in Coros : coro[c].done => coro[c].state # "live"
=============================================================================
