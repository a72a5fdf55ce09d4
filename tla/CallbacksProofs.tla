-------------------------- MODULE CallbacksProofs --------------------------
(***************************************************************************)
(* The callback table is exact, and implements CallbackRegistry, whatever  *)
(* the functions, the addresses and the bounds.                            *)
(***************************************************************************)
EXTENDS Callbacks, TLAPS

USE CallbacksAssumption

-----------------------------------------------------------------------------
(* Sequences.                                                              *)

\* What a push leaves in a sequence.
LEMMA Pushed ==
    ASSUME NEW S, NEW s \in Seq(S), NEW x \in S
    PROVE  /\ Append(s, x) \in Seq(S)
           /\ Len(Append(s, x)) = Len(s) + 1
           /\ DOMAIN Append(s, x) = 1..(Len(s) + 1)
           /\ \A i \in DOMAIN s : Append(s, x)[i] = s[i]
           /\ Append(s, x)[Len(s) + 1] = x
           /\ In(Append(s, x)) = In(s) \cup {x}
<1>1. /\ Append(s, x) \in Seq(S)
      /\ Len(Append(s, x)) = Len(s) + 1
      /\ DOMAIN Append(s, x) = 1..(Len(s) + 1)
      /\ \A i \in DOMAIN s : Append(s, x)[i] = s[i]
      /\ Append(s, x)[Len(s) + 1] = x
  OBVIOUS
<1>2. In(Append(s, x)) = In(s) \cup {x}
  BY <1>1 DEF In
<1>. QED BY <1>1, <1>2

\* What a pop leaves in a sequence.
LEMMA Popped ==
    ASSUME NEW S, NEW s \in Seq(S), s # <<>>
    PROVE  LET p == SubSeq(s, 1, Len(s) - 1)
           IN  /\ p \in Seq(S)
               /\ DOMAIN p = 1..(Len(s) - 1)
               /\ \A i \in DOMAIN p : i \in DOMAIN s /\ p[i] = s[i]
               /\ In(p) \subseteq In(s)
               /\ Len(s) \in DOMAIN s /\ Len(s) \notin DOMAIN p
<1>. DEFINE p == SubSeq(s, 1, Len(s) - 1)
<1>1. Len(s) \in Nat /\ Len(s) >= 1 /\ DOMAIN s = 1..Len(s)
  OBVIOUS
<1>2. p \in Seq(S) /\ Len(p) = Len(s) - 1 /\ DOMAIN p = 1..(Len(s) - 1)
  BY <1>1
<1>3. \A i \in DOMAIN p : i \in DOMAIN s /\ p[i] = s[i]
  BY <1>1, <1>2
<1>4. In(p) \subseteq In(s)
  BY <1>3 DEF In
<1>. QED BY <1>1, <1>2, <1>3, <1>4


-----------------------------------------------------------------------------
(* The invariant.                                                          *)

\* What allocating a slot does: the slot was nobody's, and it is the only one
\* that changes.
FreshSlot(v) ==
    /\ NextSlot \in Ids /\ \A t \in tokens : t.id # NextSlot
    /\ callbacks' \in Seq(Callable \cup {Null}) /\ Len(callbacks') <= MaxSlots
    /\ DOMAIN callbacks' = Slots \cup {NextSlot}
    /\ callbacks'[NextSlot] = v
    /\ \A i \in Slots : i # NextSlot => callbacks'[i] = callbacks[i]
    /\ In(callbacks') \cup {Null} = In(callbacks) \cup {v, Null}
    /\ free' \in Seq(Ids)
    /\ \A i, j \in DOMAIN free' : i # j => free'[i] # free'[j]
    /\ \A i \in DOMAIN free' : free'[i] # NextSlot /\ free'[i] \in Slots /\ callbacks[free'[i]] = Null

\* alloc_callback takes a slot that was nobody's, off the free list or at the end.
LEMMA Allocated ==
    ASSUME IdsExact, NEW v \in Callable, AllocCallback(v)
    PROVE  FreshSlot(v)
<1>. USE DEF IdsExact, TypeOK, TokensName, FreeExact, Slots, Ids
<1>. v # Null /\ v \in Callable \cup {Null}
  BY DEF Callable
<1>0. CASE free = <<>>
  <2>1. NextSlot = Len(callbacks) + 1 /\ callbacks' = Append(callbacks, v)
        /\ free' = free /\ Len(callbacks) < MaxSlots
    BY <1>0 DEF AllocCallback, NextSlot
  <2>2. DOMAIN callbacks = 1..Len(callbacks) /\ Len(callbacks) \in Nat
    OBVIOUS
  <2>3. /\ callbacks' \in Seq(Callable \cup {Null}) /\ Len(callbacks') <= MaxSlots
        /\ DOMAIN callbacks' = Slots \cup {NextSlot}
        /\ callbacks'[NextSlot] = v
        /\ \A i \in Slots : callbacks'[i] = callbacks[i]
        /\ In(callbacks') = In(callbacks) \cup {v}
    BY <2>1, <2>2, Pushed
  <2>4. NextSlot \in Ids /\ NextSlot \notin Slots
    BY <2>1, <2>2
  <2>5. \A i \in DOMAIN free' : free'[i] # NextSlot /\ free'[i] \in Slots /\ callbacks[free'[i]] = Null
    BY <1>0, <2>1
  <2>6. free' \in Seq(Ids) /\ \A i, j \in DOMAIN free' : i # j => free'[i] # free'[j]
    BY <2>1
  <2>. QED BY <2>3, <2>4, <2>5, <2>6 DEF FreshSlot
<1>1. CASE free # <<>>
  <2>1. /\ NextSlot = free[Len(free)] /\ Len(free) \in DOMAIN free
        /\ callbacks' = [callbacks EXCEPT ![NextSlot] = v]
        /\ free' = SubSeq(free, 1, Len(free) - 1)
    BY <1>1 DEF AllocCallback, NextSlot
  <2>2. NextSlot \in Slots /\ callbacks[NextSlot] = Null
    BY <2>1
  <2>3. /\ callbacks' \in Seq(Callable \cup {Null}) /\ Len(callbacks') = Len(callbacks)
        /\ DOMAIN callbacks' = DOMAIN callbacks
        /\ callbacks'[NextSlot] = v
        /\ \A i \in Slots : i # NextSlot => callbacks'[i] = callbacks[i]
    BY <2>1, <2>2
  <2>4. /\ free' \in Seq(Ids)
        /\ \A i \in DOMAIN free' : i \in DOMAIN free /\ free'[i] = free[i] /\ i # Len(free)
    BY <2>1, <1>1, Popped
  <2>5. In(callbacks') \cup {Null} = In(callbacks) \cup {v, Null}
    <3>1. \A x : x \in In(callbacks') => x \in In(callbacks) \cup {v}
      BY <2>2, <2>3 DEF In
    <3>2. \A x : x \in In(callbacks) => x \in In(callbacks') \cup {Null}
      BY <2>2, <2>3 DEF In
    <3>3. v \in In(callbacks')
      BY <2>2, <2>3 DEF In
    <3>. QED BY <3>1, <3>2, <3>3
  <2>6. \A t \in tokens : t.id # NextSlot
    BY <2>2 DEF Token, Callable
  <2>7. \A i, j \in DOMAIN free' : i # j => free'[i] # free'[j]
    BY <2>4
  <2>8. \A i \in DOMAIN free' : free'[i] # NextSlot /\ free'[i] \in Slots /\ callbacks[free'[i]] = Null
    BY <2>1, <2>4
  <2>9. NextSlot \in Ids
    BY <2>1
  <2>. QED BY <2>2, <2>3, <2>4, <2>5, <2>6, <2>7, <2>8, <2>9 DEF FreshSlot
<1>. QED BY <1>0, <1>1


\* What a function is held by decides whether it is still somewhere: an action
\* that takes no handle away moves nothing, and one that forgets keeps the
\* addresses of what is left.
LEMMA Forgotten ==
    ASSUME TypeOK, AddressesExact, Forget,
           held' \subseteq held, In(callbacks') \subseteq In(callbacks) \cup {Null},
           In(running') \subseteq In(running)
    PROVE  /\ at' \in [Durable -> Addr \cup {Null}]
           /\ AddressesExact'
           /\ \A f \in Durable : f \in In(callbacks') => at'[f] = at[f]
           /\ \A f \in Durable : at'[f] # Null => at'[f] = at[f]
<1>. USE DEF TypeOK
<1>1. at' \in [Durable -> Addr \cup {Null}]
  BY DEF Forget
<1>2. \A f \in Durable : at'[f] = IF Kept(f) THEN at[f] ELSE Null
  BY DEF Forget
<1>3. \A f \in Durable : Kept(f) => at[f] # Null
  BY DEF Kept, AddressesExact
<1>4. \A f \in Durable : at'[f] # Null <=> Kept(f)
  BY <1>2, <1>3
<1>5. \A f, g \in Durable : at'[f] = at'[g] /\ at'[f] # Null => f = g
  BY <1>2, <1>4 DEF AddressesExact
<1>6. AddressesExact'
  BY <1>4, <1>5 DEF AddressesExact, Kept
<1>. QED BY <1>1, <1>2, <1>4, <1>6 DEF Kept

\* The empty table is exact.
LEMMA InitExact == Init => IdsExact
<1>. SUFFICES ASSUME Init PROVE IdsExact
  OBVIOUS
<1>. USE DEF Init
<1>1. TypeOK
  BY DEF TypeOK
<1>2. TokensName /\ FreeExact /\ CacheExact
  BY DEF TokensName, FreeExact, CacheExact, Slots
<1>3. AddressesExact
  BY DEF AddressesExact, In
<1>. QED BY <1>1, <1>2, <1>3 DEF IdsExact

\* A function that crosses, under the id it has or a new one.
LEMMA CrossExact ==
    ASSUME IdsExact, NEW f \in Durable, Cross(f)
    PROVE  IdsExact'
<1>. USE DEF IdsExact, TypeOK
<1>0. f \in held /\ at[f] \in Addr /\ f \in Callable /\ f # Null
  BY DEF Cross, AddressesExact, Callable
<1>1. CASE ids[at[f]] # 0
  <2>1. /\ UNCHANGED <<held, at, callbacks, free, ids, running>>
        /\ tokens' = tokens \cup {[id |-> ids[at[f]], value |-> f, stable |-> TRUE]}
    BY <1>1 DEF Cross, Hand
  <2>2. [id |-> ids[at[f]], value |-> f, stable |-> TRUE] \in tokens
    BY <1>0, <1>1 DEF CacheExact, AddressesExact
  <2>3. tokens' = tokens
    BY <2>1, <2>2
  <2>. QED BY <2>1, <2>3 DEF TokensName, FreeExact, CacheExact, AddressesExact, Slots
<1>2. CASE ids[at[f]] = 0
  <2>. DEFINE t0 == [id |-> NextSlot, value |-> f, stable |-> TRUE]
  <2>1. /\ UNCHANGED <<held, at, running>> /\ AllocCallback(f)
        /\ ids' = [ids EXCEPT ![at[f]] = NextSlot]
        /\ tokens' = tokens \cup {t0}
    BY <1>2 DEF Cross, Hand
  <2>2. FreshSlot(f)
    BY <2>1, <1>0, Allocated
  <2>3. NextSlot \in 1..MaxSlots
    BY <2>2 DEF FreshSlot, Ids
  <2>4. t0 \in Token /\ t0.id = NextSlot /\ t0.value = f /\ t0.stable = TRUE
    BY <2>3, <1>0 DEF Token, Ids
  <2>5. TypeOK'
    <3>1. ids' \in [Addr -> 0..MaxSlots]
      BY <2>1, <2>3, <1>0
    <3>2. tokens' \subseteq Token
      BY <2>1, <2>4
    <3>. QED BY <2>1, <2>2, <3>1, <3>2 DEF FreshSlot
  <2>6. TokensName'
    BY <2>1, <2>2, <2>4 DEF FreshSlot, TokensName, Slots
  <2>7. FreeExact'
    BY <2>1, <2>2, <2>4 DEF FreshSlot, FreeExact, Slots
  <2>8. \A a \in Addr : ids'[a] # 0 =>
          \E g \in Durable : /\ at[g] = a
                             /\ [id |-> ids'[a], value |-> g, stable |-> TRUE] \in tokens'
    BY <2>1, <2>3, <1>0 DEF CacheExact
  <2>9. \A t \in tokens' : t.stable => t.value \in Durable /\ ids'[at[t.value]] = t.id
    <3>1. ASSUME NEW t \in tokens, t.stable
          PROVE  t.value \in Durable /\ ids'[at[t.value]] = t.id
      <4>1. t.value \in Durable /\ ids[at[t.value]] = t.id /\ t.id \in Ids
        BY <3>1 DEF CacheExact, Token
      <4>2. t.id # 0
        BY <4>1 DEF Ids
      <4>3. at[t.value] # at[f]
        BY <4>1, <4>2, <1>2
      <4>. QED BY <4>1, <4>3, <2>1
    <3>. QED BY <3>1, <2>1, <2>3, <2>4, <1>0
  <2>10. CacheExact'
    BY <2>1, <2>8, <2>9 DEF CacheExact
  <2>11. AddressesExact'
    <3>1. \A g \in Durable : g \in In(callbacks') <=> g \in In(callbacks) \/ g = f
      BY <2>2 DEF FreshSlot
    <3>. QED BY <3>1, <2>1, <1>0 DEF AddressesExact
  <2>. QED BY <2>5, <2>6, <2>7, <2>10, <2>11
<1>. QED BY <1>1, <1>2


\* A slot taken for a value that gets no stable id.
LEMMA GivenExact ==
    ASSUME IdsExact, NEW v \in Callable, NEW i \in Ids, i \notin {t.id : t \in tokens},
           UNCHANGED <<held, at, ids, running>>,
           Hand(i, v, FALSE),
           callbacks' \in Seq(Callable \cup {Null}), Len(callbacks') <= MaxSlots,
           free' \in Seq(Ids),
           DOMAIN callbacks' = Slots \cup {i}, callbacks'[i] = v,
           \A j \in Slots : j # i => callbacks'[j] = callbacks[j],
           In(callbacks') \cup {Null} = In(callbacks) \cup {v, Null},
           v \in Durable => at[v] # Null,
           \A j, k \in DOMAIN free' : j # k => free'[j] # free'[k],
           \A j \in DOMAIN free' : free'[j] # i /\ free'[j] \in Slots /\ callbacks[free'[j]] = Null
    PROVE  IdsExact'
<1>. USE DEF IdsExact, TypeOK
<1>. DEFINE t0 == [id |-> i, value |-> v, stable |-> FALSE]
<1>1. tokens' = tokens \cup {t0} /\ t0 \in Token
  BY DEF Hand, Token
<1>2. TypeOK'
  BY <1>1
<1>3. TokensName'
  BY <1>1 DEF TokensName, Slots
<1>4. FreeExact'
  BY <1>1 DEF FreeExact, Slots
<1>5. CacheExact'
  <2>1. tokens \subseteq tokens' /\ \A t \in tokens' : t.stable => t \in tokens
    BY <1>1
  <2>. QED BY <2>1 DEF CacheExact
<1>6. AddressesExact'
  <2>1. \A g \in Durable : g # Null /\ g \in Callable
    BY DEF Callable
  <2>2. \A g \in Durable : g \in In(callbacks') <=> g \in In(callbacks) \/ g = v
    BY <2>1
  <2>. QED BY <2>2 DEF AddressesExact
<1>. QED BY <1>2, <1>3, <1>4, <1>5, <1>6

\* A callable of a promise gets a slot, and no entry in the cache.
LEMMA CrossOnceExact ==
    ASSUME IdsExact, NEW v \in OneShot, CrossOnce(v)
    PROVE  IdsExact'
<1>1. v \in Callable /\ v \notin Durable
  BY DEF Callable
<1>2. AllocCallback(v) /\ Hand(NextSlot, v, FALSE) /\ UNCHANGED <<held, at, ids, running>>
  BY DEF CrossOnce
<1>3. FreshSlot(v)
  BY <1>1, <1>2, Allocated
<1>4. NextSlot \in Ids /\ NextSlot \notin {t.id : t \in tokens}
  BY <1>3 DEF FreshSlot
<1>5. /\ callbacks' \in Seq(Callable \cup {Null}) /\ Len(callbacks') <= MaxSlots
      /\ free' \in Seq(Ids)
      /\ DOMAIN callbacks' = Slots \cup {NextSlot} /\ callbacks'[NextSlot] = v
      /\ \A j \in Slots : j # NextSlot => callbacks'[j] = callbacks[j]
      /\ In(callbacks') \cup {Null} = In(callbacks) \cup {v, Null}
      /\ \A j, k \in DOMAIN free' : j # k => free'[j] # free'[k]
      /\ \A j \in DOMAIN free' : free'[j] # NextSlot /\ free'[j] \in Slots /\ callbacks[free'[j]] = Null
  BY <1>3 DEF FreshSlot
<1>. QED BY <1>1, <1>2, <1>4, <1>5, GivenExact

\* A listener or server is pushed at the end, past the free list and the cache.
LEMMA ListenExact ==
    ASSUME IdsExact, NEW v \in Durable \cup {Null}, Listen(v)
    PROVE  IdsExact'
<1>. USE DEF IdsExact, TypeOK
<1>. DEFINE i == Len(callbacks) + 1
<1>1. /\ callbacks' = Append(callbacks, v) /\ Len(callbacks) < MaxSlots
      /\ UNCHANGED <<held, at, free, ids, running>> /\ v \in held \cup {Null}
  BY DEF Listen
<1>2. v \in Callable \cup {Null} /\ Len(callbacks) \in Nat /\ Slots = 1..Len(callbacks)
  BY DEF Callable, Slots
<1>3. /\ callbacks' \in Seq(Callable \cup {Null}) /\ Len(callbacks') <= MaxSlots
      /\ DOMAIN callbacks' = Slots \cup {i} /\ callbacks'[i] = v
      /\ \A j \in Slots : callbacks'[j] = callbacks[j]
      /\ In(callbacks') = In(callbacks) \cup {v}
  <2>1. callbacks \in Seq(Callable \cup {Null})
    OBVIOUS
  <2>2. /\ Append(callbacks, v) \in Seq(Callable \cup {Null})
        /\ Len(Append(callbacks, v)) = i
        /\ DOMAIN Append(callbacks, v) = 1..i
        /\ \A j \in DOMAIN callbacks : Append(callbacks, v)[j] = callbacks[j]
        /\ Append(callbacks, v)[i] = v
        /\ In(Append(callbacks, v)) = In(callbacks) \cup {v}
    BY ONLY <2>1, <1>2, Pushed
  <2>. QED BY <1>1, <1>2, <2>2 DEF Slots
<1>4. i \in Ids /\ i \notin Slots /\ i \notin {t.id : t \in tokens}
  BY <1>1, <1>2 DEF Ids, TokensName
<1>5. \A j \in DOMAIN free' : free'[j] # i /\ free'[j] \in Slots /\ callbacks[free'[j]] = Null
  BY <1>1, <1>4 DEF FreeExact
<1>6. CASE v = Null
  <2>1. tokens' = tokens
    BY <1>6 DEF Listen
  <2>2. TokensName'
    BY <1>3, <1>4, <2>1 DEF TokensName, Slots
  <2>3. FreeExact'
    BY <1>1, <1>3, <1>4, <1>5, <1>6, <2>1 DEF FreeExact, Slots
  <2>4. CacheExact'
    BY <1>1, <2>1 DEF CacheExact
  <2>5. AddressesExact'
    BY <1>1, <1>3, <1>6 DEF AddressesExact
  <2>. QED BY <1>1, <1>3, <2>1, <2>2, <2>3, <2>4, <2>5
<1>7. CASE v # Null
  <2>1. v \in held /\ v \in Callable /\ Hand(i, v, FALSE) /\ at[v] # Null
    BY <1>1, <1>2, <1>7 DEF Listen, AddressesExact
  <2>2. \A j, k \in DOMAIN free' : j # k => free'[j] # free'[k]
    BY <1>1 DEF FreeExact
  <2>3. /\ UNCHANGED <<held, at, ids, running>> /\ i \in Ids /\ i \notin {t.id : t \in tokens}
        /\ free' \in Seq(Ids)
        /\ In(callbacks') \cup {Null} = In(callbacks) \cup {v, Null}
        /\ \A j \in Slots : j # i => callbacks'[j] = callbacks[j]
    BY <1>1, <1>3, <1>4
  <2>. HIDE DEF IdsExact, TypeOK, i
  <2>. QED BY <1>3, <1>5, <2>1, <2>2, <2>3, GivenExact
<1>. QED BY <1>6, <1>7


\* A release: of a slot in use, or of one that is empty, which changes nothing.
LEMMA ReleaseExact ==
    ASSUME IdsExact, NEW i \in Ids, Release(i)
    PROVE  IdsExact'
<1>. USE DEF IdsExact, TypeOK
<1>1. CASE i \in Slots /\ callbacks[i] # Null
  <2>1. /\ tokens' = {t \in tokens : t.id # i} /\ ids' = Evicted(i)
        /\ callbacks' = [callbacks EXCEPT ![i] = Null] /\ free' = Append(free, i)
        /\ UNCHANGED <<held, running>> /\ Forget
    BY <1>1 DEF Release, InUse
  <2>2. callbacks[i] \in Callable /\ i \in DOMAIN callbacks
    BY <1>1 DEF Slots
  <2>3. /\ callbacks' \in Seq(Callable \cup {Null}) /\ Len(callbacks') = Len(callbacks)
        /\ DOMAIN callbacks' = DOMAIN callbacks /\ callbacks'[i] = Null
        /\ \A j \in DOMAIN callbacks : j # i => callbacks'[j] = callbacks[j]
    BY <2>1, <2>2
  <2>4. In(callbacks') \subseteq In(callbacks) \cup {Null}
    BY <2>3 DEF In
  <2>5. /\ free' \in Seq(Ids) /\ DOMAIN free' = 1..(Len(free) + 1)
        /\ \A j \in DOMAIN free : free'[j] = free[j]
        /\ free'[Len(free) + 1] = i /\ DOMAIN free = 1..Len(free) /\ Len(free) \in Nat
    BY <2>1
  <2>6. /\ at' \in [Durable -> Addr \cup {Null}]
        /\ AddressesExact'
        /\ \A f \in Durable : f \in In(callbacks') => at'[f] = at[f]
        /\ \A f \in Durable : at'[f] # Null => at'[f] = at[f]
    BY <2>1, <2>4, Forgotten
  <2>7. ids' \in [Addr -> 0..MaxSlots]
    BY <2>1 DEF Evicted
  <2>8. TypeOK'
    BY <2>1, <2>3, <2>5, <2>6, <2>7
  <2>9. TokensName'
    BY <2>1, <2>3 DEF TokensName, Slots
  <2>10. FreeExact'
    <3>1. \A j \in DOMAIN free : free[j] # i
      BY <1>1 DEF FreeExact
    <3>2. \A j \in DOMAIN free' : j \in DOMAIN free \/ j = Len(free) + 1
      BY <2>5
    <3>3. \A j, k \in DOMAIN free' : j # k => free'[j] # free'[k]
      BY <2>5, <3>1, <3>2 DEF FreeExact
    <3>4. \A j \in DOMAIN free' : free'[j] \in DOMAIN callbacks' /\ callbacks'[free'[j]] = Null
      BY <2>2, <2>3, <2>5, <3>1, <3>2 DEF FreeExact, Slots
    <3>5. \A j \in DOMAIN callbacks' : callbacks'[j] # Null => \E t \in tokens' : t.id = j
      BY <2>1, <2>3 DEF FreeExact, Slots
    <3>. QED BY <3>3, <3>4, <3>5 DEF FreeExact, Slots
  <2>11. CacheExact'
    <3>1. ASSUME NEW a \in Addr, ids'[a] # 0
          PROVE  \E f \in Durable : /\ at'[f] = a
                                    /\ [id |-> ids'[a], value |-> f, stable |-> TRUE] \in tokens'
      <4>1. ids'[a] = ids[a] /\ ~(callbacks[i] \in Durable /\ at[callbacks[i]] = a /\ ids[a] = i)
        BY <2>1, <3>1 DEF Evicted
      <4>2. PICK f \in Durable : /\ at[f] = a
                                /\ [id |-> ids[a], value |-> f, stable |-> TRUE] \in tokens
        BY <3>1, <4>1 DEF CacheExact
      <4>. DEFINE t == [id |-> ids[a], value |-> f, stable |-> TRUE]
      <4>3. t.id \in Slots /\ callbacks[t.id] = t.value
        BY <4>2 DEF TokensName
      <4>4. ids[a] \in DOMAIN callbacks /\ callbacks[ids[a]] = f
        BY <4>3 DEF Slots
      <4>5. ids[a] # i
        BY <4>1, <4>2, <4>4
      <4>6. t \in tokens' /\ f \in In(callbacks')
        BY <2>1, <2>3, <4>2, <4>4, <4>5 DEF In
      <4>. QED BY <2>6, <4>1, <4>2, <4>6
    <3>2. ASSUME NEW t \in tokens', t.stable
          PROVE  t.value \in Durable /\ ids'[at'[t.value]] = t.id
      <4>1. t \in tokens /\ t.id # i /\ t.value \in Durable /\ ids[at[t.value]] = t.id
        BY <2>1, <3>2 DEF CacheExact
      <4>2. t.id \in DOMAIN callbacks' /\ callbacks'[t.id] = t.value
        BY <2>9, <3>2 DEF TokensName, Slots
      <4>3. t.value \in In(callbacks')
        BY <4>2 DEF In
      <4>4. at'[t.value] = at[t.value] /\ at[t.value] \in Addr
        BY <2>6, <4>1, <4>3 DEF AddressesExact
      <4>. QED BY <2>1, <4>1, <4>4 DEF Evicted
    <3>. QED BY <3>1, <3>2 DEF CacheExact
  <2>. QED BY <2>6, <2>8, <2>9, <2>10, <2>11
<1>2. CASE ~(i \in Slots /\ callbacks[i] # Null)
  <2>1. /\ tokens' = {t \in tokens : t.id # i}
        /\ UNCHANGED <<held, running, ids, callbacks, free>> /\ Forget
    BY <1>2 DEF Release, InUse
  <2>2. \A t \in tokens : t.id # i
    BY <1>2 DEF TokensName, Token, Callable
  <2>3. tokens' = tokens
    BY <2>1, <2>2
  <2>4. at' = at
    <3>1. \A f \in Durable : at'[f] = at[f]
      BY <2>1 DEF Forget, Kept, AddressesExact
    <3>2. at' \in [Durable -> Addr \cup {Null}]
      BY <2>1, Forgotten
    <3>. QED BY <3>1, <3>2
  <2>. QED BY <2>1, <2>3, <2>4 DEF TokensName, FreeExact, CacheExact, AddressesExact, Slots
<1>. QED BY <1>1, <1>2

\* What calls do to the table: nothing.  What a call pins is let go when it returns.
LEMMA CallExact ==
    ASSUME IdsExact, (\E i \in Ids : InvokeCallback(i)) \/ Return
    PROVE  IdsExact'
<1>. USE DEF IdsExact, TypeOK
<1>1. ASSUME NEW i \in Ids, InvokeCallback(i) PROVE IdsExact'
  <2>1. /\ running' = Append(running, callbacks[i]) /\ i \in Slots /\ callbacks[i] # Null
        /\ UNCHANGED <<held, at, callbacks, free, ids, tokens>>
    BY <1>1 DEF InvokeCallback, InUse
  <2>2. callbacks[i] \in Callable /\ callbacks[i] \in In(callbacks)
    BY <2>1 DEF Slots, In
  <2>3. running' \in Seq(Callable) /\ In(running') = In(running) \cup {callbacks[i]}
    BY <2>1, <2>2, Pushed
  <2>4. AddressesExact'
    BY <2>1, <2>2, <2>3 DEF AddressesExact
  <2>. QED BY <2>1, <2>3, <2>4 DEF TokensName, FreeExact, CacheExact, Slots
<1>2. CASE Return
  <2>1. /\ running # <<>> /\ running' = SubSeq(running, 1, Len(running) - 1)
        /\ UNCHANGED <<held, callbacks, free, ids, tokens>> /\ Forget
    BY <1>2 DEF Return
  <2>2. running' \in Seq(Callable) /\ In(running') \subseteq In(running)
    BY <2>1, Popped
  <2>3. /\ at' \in [Durable -> Addr \cup {Null}]
        /\ AddressesExact'
        /\ \A f \in Durable : f \in In(callbacks') => at'[f] = at[f]
    BY <2>1, <2>2, Forgotten
  <2>4. CacheExact'
    <3>1. \A t \in tokens : t.value \in Durable => at'[t.value] = at[t.value]
      BY <2>1, <2>3 DEF TokensName, Slots, In
    <3>2. \A f \in Durable, a \in Addr :
            [id |-> ids[a], value |-> f, stable |-> TRUE] \in tokens => at'[f] = at[f]
      BY <3>1
    <3>. QED BY <2>1, <3>1, <3>2 DEF CacheExact
  <2>. QED BY <2>1, <2>2, <2>3, <2>4 DEF TokensName, FreeExact, Slots
<1>. QED BY <1>1, <1>2


\* What the program does with its functions is nothing to the table, as what
\* the table holds stays where it is.
LEMMA ProgramExact ==
    ASSUME IdsExact,
           \/ \E f \in Durable, a \in Addr : NewClosure(f, a)
           \/ \E f \in Durable : Recover(f) \/ DropClosure(f)
    PROVE  IdsExact'
<1>. USE DEF IdsExact, TypeOK
<1>1. ASSUME NEW f \in Durable, NEW a \in Addr, NewClosure(f, a) PROVE IdsExact'
  <2>1. /\ at[f] = Null /\ (\A g \in Durable : at[g] # a)
        /\ held' = held \cup {f} /\ at' = [at EXCEPT ![f] = a]
        /\ UNCHANGED <<callbacks, free, ids, tokens, running>>
    BY <1>1 DEF NewClosure
  <2>2. a # Null
    OBVIOUS
  <2>3. f \notin held /\ f \notin In(callbacks) /\ f \notin In(running)
    BY <2>1 DEF AddressesExact
  <2>4. AddressesExact'
    <3>1. \A g \in Durable : g # f => at'[g] = at[g]
      BY <2>1
    <3>2. at'[f] = a
      BY <2>1
    <3>3. \A g, h \in Durable : at'[g] = at'[h] /\ at'[g] # Null => g = h
      BY <2>1, <3>1, <3>2 DEF AddressesExact
    <3>4. \A g \in Durable : at'[g] # Null <=> g \in held' \cup In(callbacks') \cup In(running')
      BY <2>1, <2>2, <3>1, <3>2 DEF AddressesExact
    <3>. QED BY <3>3, <3>4 DEF AddressesExact
  <2>5. CacheExact'
    <3>1. \A t \in tokens : t.value # f
      BY <2>3 DEF TokensName, Slots, In
    <3>2. \A g \in Durable : g # f => at'[g] = at[g]
      BY <2>1
    <3>3. \A b \in Addr, g \in Durable :
            [id |-> ids[b], value |-> g, stable |-> TRUE] \in tokens => g # f
      BY <3>1
    <3>4. \A b \in Addr : ids'[b] # 0 =>
            \E g \in Durable : /\ at'[g] = b
                               /\ [id |-> ids'[b], value |-> g, stable |-> TRUE] \in tokens'
      BY <2>1, <3>2, <3>3 DEF CacheExact
    <3>5. \A t \in tokens' : t.stable => t.value \in Durable /\ ids'[at'[t.value]] = t.id
      BY <2>1, <3>1, <3>2 DEF CacheExact
    <3>. QED BY <3>4, <3>5 DEF CacheExact
  <2>6. TypeOK' /\ TokensName' /\ FreeExact'
    BY <2>1 DEF TokensName, FreeExact, Slots
  <2>. QED BY <2>4, <2>5, <2>6
<1>2. ASSUME NEW f \in Durable, Recover(f) PROVE IdsExact'
  <2>1. /\ f \in In(running) /\ held' = held \cup {f}
        /\ UNCHANGED <<at, callbacks, free, ids, tokens, running>>
    BY <1>2 DEF Recover
  <2>2. AddressesExact'
    BY <2>1 DEF AddressesExact
  <2>. QED BY <2>1, <2>2 DEF TokensName, FreeExact, CacheExact, Slots
<1>3. ASSUME NEW f \in Durable, DropClosure(f) PROVE IdsExact'
  <2>1. /\ held' = held \ {f} /\ UNCHANGED <<callbacks, free, ids, tokens, running>> /\ Forget
    BY <1>3 DEF DropClosure
  <2>2. /\ at' \in [Durable -> Addr \cup {Null}]
        /\ AddressesExact'
        /\ \A g \in Durable : g \in In(callbacks') => at'[g] = at[g]
    BY <2>1, Forgotten
  <2>3. CacheExact'
    <3>1. \A t \in tokens : t.value \in Durable => at'[t.value] = at[t.value]
      BY <2>1, <2>2 DEF TokensName, Slots, In
    <3>2. \A g \in Durable, a \in Addr :
            [id |-> ids[a], value |-> g, stable |-> TRUE] \in tokens => at'[g] = at[g]
      BY <3>1
    <3>. QED BY <2>1, <3>1, <3>2 DEF CacheExact
  <2>. QED BY <2>1, <2>2, <2>3 DEF TokensName, FreeExact, Slots
<1>. QED BY <1>1, <1>2, <1>3

\* Every step keeps the table exact.
LEMMA NextExact == IdsExact /\ [Next]_vars => IdsExact'
<1>. SUFFICES ASSUME IdsExact, [Next]_vars PROVE IdsExact'
  OBVIOUS
<1>1. CASE UNCHANGED vars
  BY <1>1 DEF vars, IdsExact, TypeOK, TokensName, FreeExact, CacheExact, AddressesExact, Slots
<1>2. CASE \E f \in Durable, a \in Addr : NewClosure(f, a)
  BY <1>2, ProgramExact
<1>3. CASE \E f \in Durable : Recover(f) \/ DropClosure(f)
  BY <1>3, ProgramExact
<1>4. CASE \E f \in Durable : Cross(f)
  BY <1>4, CrossExact
<1>5. CASE \E v \in OneShot : CrossOnce(v)
  BY <1>5, CrossOnceExact
<1>6. CASE \E v \in Durable \cup {Null} : Listen(v)
  BY <1>6, ListenExact
<1>7. CASE \E i \in Ids : Release(i)
  BY <1>7, ReleaseExact
<1>8. CASE (\E i \in Ids : InvokeCallback(i)) \/ Return
  BY <1>8, CallExact
<1>. QED BY <1>1, <1>2, <1>3, <1>4, <1>5, <1>6, <1>7, <1>8 DEF Next

\* The parts of the table agree with each other, and with what the host holds,
\* in every reachable state.
THEOREM TableExact == Spec => []IdsExact
<1>1. Init => IdsExact
  BY InitExact
<1>2. IdsExact /\ [Next]_vars => IdsExact'
  BY NextExact
<1>. QED BY <1>1, <1>2, PTL DEF Spec

\* While the host holds an id, the slot is the callable it was handed: a reused
\* id never reaches a function of another time.
THEOREM HostCallsWhatItHolds == Spec => []TokensName
BY TableExact, PTL DEF IdsExact

\* A slot is free once, and only when nobody can call it.
THEOREM FreeListExact == Spec => []FreeExact
BY TableExact, PTL DEF IdsExact

\* The identity cache names the function that is at the address now, under the
\* id the host holds for it.
THEOREM IdentityStable == Spec => []CacheExact
BY TableExact, PTL DEF IdsExact

-----------------------------------------------------------------------------
(* Refinement.                                                             *)

\* Every step of the table is a step of the registry, or none.
LEMMA StepRefines ==
    ASSUME IdsExact, Next
    PROVE  Registry!Next \/ UNCHANGED <<tokens, running>>
<1>. USE DEF IdsExact, TypeOK
<1>1. CASE \E f \in Durable, a \in Addr : NewClosure(f, a)
  BY <1>1 DEF NewClosure
<1>2. CASE \E f \in Durable : Recover(f) \/ DropClosure(f)
  BY <1>2 DEF Recover, DropClosure
<1>3. ASSUME NEW f \in Durable, Cross(f) PROVE Registry!Cross(f)
  <2>0. f \in held /\ at[f] \in Addr /\ f \in Callable
    BY <1>3 DEF Cross, AddressesExact, Callable
  <2>1. CASE ids[at[f]] # 0
    <3>1. [id |-> ids[at[f]], value |-> f, stable |-> TRUE] \in tokens
      BY <2>0, <2>1 DEF CacheExact, AddressesExact
    <3>2. tokens' = tokens \cup {[id |-> ids[at[f]], value |-> f, stable |-> TRUE]}
          /\ UNCHANGED running
      BY <1>3, <2>1 DEF Cross, Hand
    <3>3. ids[at[f]] \in Ids
      BY <2>0, <2>1 DEF Ids
    <3>. QED BY <3>1, <3>2, <3>3 DEF Registry!Cross
  <2>2. CASE ids[at[f]] = 0
    <3>1. /\ AllocCallback(f) /\ UNCHANGED running
          /\ tokens' = tokens \cup {[id |-> NextSlot, value |-> f, stable |-> TRUE]}
      BY <1>3, <2>2 DEF Cross, Hand
    <3>2. NextSlot \in Ids /\ \A t \in tokens : t.id # NextSlot
      BY <2>0, <3>1, Allocated DEF FreshSlot
    <3>3. \A t \in tokens : t.stable => t.value # f
      BY <2>2 DEF CacheExact, Token, Ids
    <3>. QED BY <3>1, <3>2, <3>3 DEF Registry!Cross, Registry!Unused
  <2>. QED BY <2>1, <2>2
<1>4. ASSUME NEW v \in OneShot, CrossOnce(v) PROVE Registry!Give(v) /\ v \in Callable
  <2>1. AllocCallback(v) /\ v \in Callable /\ UNCHANGED running
        /\ tokens' = tokens \cup {[id |-> NextSlot, value |-> v, stable |-> FALSE]}
    BY <1>4 DEF CrossOnce, Hand, Callable
  <2>2. NextSlot \in Ids /\ \A t \in tokens : t.id # NextSlot
    BY <2>1, Allocated DEF FreshSlot
  <2>. QED BY <2>1, <2>2 DEF Registry!Give, Registry!Unused
<1>5. ASSUME NEW v \in Durable \cup {Null}, Listen(v)
      PROVE  (Registry!Give(v) /\ v \in Callable) \/ UNCHANGED <<tokens, running>>
  <2>1. CASE v = Null
    BY <1>5, <2>1 DEF Listen
  <2>2. CASE v # Null
    <3>1. v \in Callable /\ Len(callbacks) < MaxSlots /\ UNCHANGED running
          /\ tokens' = tokens \cup {[id |-> Len(callbacks) + 1, value |-> v, stable |-> FALSE]}
      BY <1>5, <2>2 DEF Listen, Hand, Callable
    <3>2. Len(callbacks) + 1 \in Ids /\ Len(callbacks) + 1 \notin Slots
      BY <3>1 DEF Ids, Slots
    <3>3. \A t \in tokens : t.id # Len(callbacks) + 1
      BY <3>2 DEF TokensName
    <3>. QED BY <3>1, <3>2, <3>3 DEF Registry!Give, Registry!Unused
  <2>. QED BY <2>1, <2>2
<1>6. ASSUME NEW i \in Ids, Release(i) PROVE Registry!Release(i)
  BY <1>6 DEF Release, Registry!Release
<1>7. ASSUME NEW i \in Ids, InvokeCallback(i) PROVE \E t \in tokens : Registry!Invoke(t)
  <2>1. PICK t \in tokens : t.id = i
    BY <1>7 DEF InvokeCallback
  <2>2. callbacks[i] = t.value
    BY <2>1 DEF TokensName
  <2>. QED BY <1>7, <2>1, <2>2 DEF InvokeCallback, Registry!Invoke
<1>8. CASE Return
  BY <1>8 DEF Return, Registry!Return, Registry!Next
<1>. QED BY <1>1, <1>2, <1>3, <1>4, <1>5, <1>6, <1>7, <1>8
     DEF Next, Registry!Next, Callable, Registry!Callable

\* The table with its free list and its cache implements the registry, in which
\* an id names one callable for as long as the host holds it.
THEOREM Refinement == Spec => ImplementsRegistry
<1>1. Init => Registry!Init
  BY DEF Init, Registry!Init
<1>2. IdsExact /\ [Next]_vars => [Registry!Next]_(Registry!rvars)
  BY StepRefines DEF vars, Registry!rvars
<1>. QED BY <1>1, <1>2, TableExact, PTL DEF Spec, ImplementsRegistry, Registry!Spec

=============================================================================
